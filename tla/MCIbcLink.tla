----------------------------- MODULE MCIbcLink -----------------------------
(***************************************************************************)
(* The delays of ftntask/taskibc.c for IbcLink, in units of ten seconds.   *)
(***************************************************************************)
EXTENDS IbcLink

\* dialdelay at most 50 seconds: a call and its delay are shorter than the silence
\* before a PING.
ShortDial == 1..5

\* Some of the delays that a dialdelay of 600 seconds gives: each of them is longer.
LongDial == {7, 8}

=============================================================================
