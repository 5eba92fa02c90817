----------------------------- MODULE MCOutbound -----------------------------
(***************************************************************************)
(* Outbound with a few packets, a netmail and a file.                      *)
(***************************************************************************)
EXTENDS Outbound
=============================================================================
