---------------------------- MODULE MCSupervisor ----------------------------
(***************************************************************************)
(* A small instance of Supervisor for TLC.  The only frame on the wire is   *)
(* one that the hello branch takes for a device's and hands to the block   *)
(* parser, so that the receiver can crash there; what stations answer to   *)
(* requests, and the other branch, are in MCDiscovery.                     *)
(***************************************************************************)
EXTENDS Supervisor

\* A frame with a service id of hello for its frame id, from the multicast address.
MistakenHello == [frame_id |-> 6, service_id |-> 6, service_type |-> 1, src |-> McAddr]

MCStray == {MistakenHello}

=============================================================================
