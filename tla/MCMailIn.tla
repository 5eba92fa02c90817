------------------------------ MODULE MCMailIn ------------------------------
(***************************************************************************)
(* MailIn with a mailer that ftntask starts on a line and one that answers *)
(* calls from the internet; and, as HandSpec, MailIn with somebody who     *)
(* runs "ftnfido scan" beside ftntask.                                     *)
(***************************************************************************)
EXTENDS MailIn

\* It waits for the lock of the inbound, and holds it.
HandStart ==
  /\ ~hand /\ Event /\ hand' = TRUE
  /\ \A j \in FtnfidoJob : at[j] \in {"off", "start", "ended"}
  /\ UNCHANGED <<inbound, box, mailer, gotfiles, sema, tosswait, ptimer, task, at, Processing, left>>

HandEnd ==
  /\ hand /\ hand' = FALSE
  /\ UNCHANGED <<inbound, box, mailer, gotfiles, sema, tosswait, ptimer, task, at, Processing, left, events>>

HandSpec == Init /\ [][Next \/ HandStart \/ HandEnd]_vars
=============================================================================
