------------------------------ MODULE MCBinkp ------------------------------
(***************************************************************************)
(* Small sets of files for Binkp, and what its sessions do not keep.       *)
(***************************************************************************)
EXTENDS Binkp

None == {}
One == {1}
Two == {1, 2}
Three == {1, 2, 3}

\* File 1 is a request for file 3; file 2 goes from the caller, file 4 back.
Four == {1, 2, 3, 4}
Third == {3}
Versions == {0, 1}
Newest == {1}

\* The first two files go from the caller to the answerer, the others back.
MCOwner == [f \in File |-> IF f <= 2 THEN "org" ELSE "ans"]

AllSize2 == [f \in File |-> 2]
FirstSize2 == [f \in File |-> IF f = 1 THEN 2 ELSE 1]
ZeroSize == [f \in File |-> f - 1]

Fresh == [f \in File |-> 0]
FirstPartial == [f \in File |-> IF f = 1 THEN 1 ELSE 0]
AllPartial == [f \in File |-> 1]

(***************************************************************************)
(* Formulas that TLC refutes; README.md says with which constants.         *)
(***************************************************************************)

\* A file request is answered in the session it came in.
RequestAnswered ==
  (\A p \in Party : bp[p].rc = "ok") /\ delivered[Request] # <<>> =>
    \A f \in Reply : delivered[f] # <<>>

\* A side that ends well has nothing of the other side still to come: "Nothing
\* sent anymore, finish" (ftncico/binkp.c:1744).
OkMeansReceived ==
  \A p \in Party : bp[p].rc = "ok" => Pending(bp[Peer(p)]) = {}

\* A file that is answered with M_GOT is in the inbound: "We already got this
\* file" (ftncico/binkp.c:1225).
GotIsThere ==
  \A p \in Party : \A i \in DOMAIN wire[p] :
    wire[p][i].cmd = "GOT" => delivered[wire[p][i].file] # <<>>

\* What is appended to a partial file belongs to it: "so that in a next session we
\* know we must append to that file" (ftncico/bopenfile.c:122).
OneVersion ==
  \A f \in File : \A k \in DOMAIN delivered[f] :
    \A i, j \in DOMAIN delivered[f][k] : delivered[f][k][i][2] = delivered[f][k][j][2]

=============================================================================
