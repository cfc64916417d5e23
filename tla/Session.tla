------------------------------- MODULE Session -------------------------------
(***************************************************************************)
(* What the MQTT session of the gateway amounts to for whoever publishes   *)
(* on /profinet/request: there is a time before it serves, one time during *)
(* which it serves, and the rest.  Requests published while it serves are  *)
(* kept and handed over one at a time; all others are lost, and so are     *)
(* those still kept when the service is over.                              *)
(***************************************************************************)
EXTENDS Naturals

CONSTANTS MaxMessages   \* bound on the requests that are published

VARIABLES
  running,    \* the gateway has not stopped
  stage,      \* "before", "serving" or "over"
  published,  \* requests published so far
  kept,       \* requests that were published and wait
  busy        \* a request has been handed over and is being served

vars == <<running, stage, published, kept, busy>>

Init ==
  /\ running = TRUE
  /\ stage = "before"
  /\ published = 0
  /\ kept = 0
  /\ busy = FALSE

Serve ==
  /\ running /\ stage = "before"
  /\ stage' = "serving"
  /\ UNCHANGED <<running, published, kept, busy>>

Publish ==
  /\ published < MaxMessages
  /\ published' = published + 1
  /\ kept' = IF stage = "serving" THEN kept + 1 ELSE kept
  /\ UNCHANGED <<running, stage, busy>>

HandOver ==
  /\ running /\ stage = "serving" /\ kept > 0 /\ ~busy
  /\ kept' = kept - 1
  /\ busy' = TRUE
  /\ UNCHANGED <<running, stage, published>>

Return ==
  /\ running /\ busy
  /\ busy' = FALSE
  /\ UNCHANGED <<running, stage, published, kept>>

\* The session was refused, or its connection broke: there is no other.
End ==
  /\ running /\ stage # "over"
  /\ stage' = "over"
  /\ kept' = 0
  /\ UNCHANGED <<running, published, busy>>

Stop ==
  /\ running
  /\ running' = FALSE
  /\ UNCHANGED <<stage, published, kept, busy>>

Next == Serve \/ Publish \/ HandOver \/ Return \/ End \/ Stop

Spec == Init /\ [][Next]_vars

=============================================================================
