------------------------------ MODULE MCPoller -------------------------------
(***************************************************************************)
(* Small instances of Poller: one call and one message, each with one      *)
(* status in flight and one to end with.                                   *)
(***************************************************************************)
EXTENDS Poller

MCShown == {"queued", "busy", "delivered"}
=============================================================================
