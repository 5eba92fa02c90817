----------------------------- MODULE MCJamBase -----------------------------
(***************************************************************************)
(* JamBase with a tosser, a user of the BBS and ftnmsg; four formulas that *)
(* TLC refutes.                                                            *)
(***************************************************************************)
EXTENDS JamBase

ThreePrograms ==
  [p \in Proc |-> CASE p = "tosser" -> {"add"}
                   [] p = "user" -> {"read", "delete"}
                   [] p = "ftnmsg" -> {"kill", "pack"}]

\* "This command actualy removes the messages who have the deleted flag set"
\* (html/programs/ftnmsg.html): TLC refutes it, a caller that waited for the lock of the
\* old file gets it when the pack closes that file.
NoneStrayed == strayed = {}

\* A message is deleted by the number it had when it was shown: TLC refutes that it is
\* the same message, although html/misc/jam.html:519 forbids to use such data.
DeletesWhatWasShown ==
  [][\A p \in Proc : At(p, "locked", "delete") /\ proc'[p].at = "gone"
       => deleted' \subseteq deleted \union {proc[p].id}]_vars

\* Numbers grow: TLC refutes it, the count that tells an empty base is read before the lock.
NumberedOnce ==
  \A f \in (1..files) \ crossed : \A i, k \in DOMAIN jhr[f].msgs : i < k => jhr[f].msgs[i].num < jhr[f].msgs[k].num

\* "PANIC, problem cannot be solved, skipping this area": TLC refutes that the area stays.
PanicSkips == torn \/ stored \ (deleted \union strayed) \subseteq Ids(Current)
=============================================================================
