------------------------------ MODULE MCIbcNet ------------------------------
(***************************************************************************)
(* Small networks for IbcNet.                                              *)
(***************************************************************************)
EXTENDS IbcNet

Line(q) == {<<q[i], q[i + 1]>> : i \in 1..(Len(q) - 1)}
Both(E) == E \union {<<e[2], e[1]>> : e \in E}

LineOf2 == Both(Line(<<"a", "b">>))
LineOf3 == Both(Line(<<"a", "b", "c">>))
LineOf4 == Both(Line(<<"a", "b", "c", "d">>))

AtTheEnds == ("u" :> "a" @@ "v" :> "c")
AtBoth == ("u" :> "a" @@ "v" :> "b")
OwnNick == ("u" :> {"x"} @@ "v" :> {})
SameNick == ("u" :> {"x"} @@ "v" :> {"x"})
NoNick == ("u" :> {} @@ "v" :> {})
Far == ("u" :> "d")
FarNick == ("u" :> {})

\* From whom the first of e is reached without the link e, and the proof's premise.
SideOf(e) ==
  {x \in Server : \A T \in SUBSET Server :
     /\ e[1] \in T
     /\ \A f \in Edge \ {e, <<e[2], e[1]>>} : f[1] \in T => f[2] \in T
     => x \in T}

ASSUME ATree ==
  LET side == [e \in Edge |-> SideOf(e)] IN Splits(side) /\ Reaches(side)

=============================================================================
