---------------------------- MODULE MCSubscriber ----------------------------
(***************************************************************************)
(* Small instances of Subscriber for TLC.                                  *)
(***************************************************************************)
EXTENDS Subscriber

=============================================================================
