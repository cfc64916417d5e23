---------------------------- MODULE RequestReply ----------------------------
(***************************************************************************)
(* What the request path promises to whoever publishes on                  *)
(* /profinet/request: requests are taken in the order they arrived, one at *)
(* a time; a supported request gets at most one reply, while it is the one *)
(* being served; an unsupported one gets none.  The reply carries what a   *)
(* device answered, to this request or an earlier one, or nothing.  The    *)
(* service may stop at any time, and then it replies no more.              *)
(***************************************************************************)
EXTENDS Naturals, Sequences

CONSTANTS MaxRequests   \* bound on the requests that arrive

Ops == {"read", "write", "unsupported"}

Requests == [id : Nat, op : Ops]

NoRequest == [id |-> 0, op |-> "unsupported"]

VARIABLES
  running,   \* the service has not stopped
  arrived,   \* requests that arrived so far
  inbox,     \* requests that wait
  req,       \* the request being served, or NoRequest
  replies    \* the replies, in the order they were published

vars == <<running, arrived, inbox, req, replies>>

Init ==
  /\ running = TRUE
  /\ arrived = 0
  /\ inbox = <<>>
  /\ req = NoRequest
  /\ replies = <<>>

Arrive(op) ==
  /\ arrived < MaxRequests
  /\ arrived' = arrived + 1
  /\ inbox' = Append(inbox, [id |-> arrived + 1, op |-> op])
  /\ UNCHANGED <<running, req, replies>>

Take ==
  /\ running /\ req = NoRequest /\ inbox # <<>>
  /\ Head(inbox).op # "unsupported"
  /\ req' = Head(inbox)
  /\ inbox' = Tail(inbox)
  /\ UNCHANGED <<running, arrived, replies>>

Ignore ==
  /\ running /\ req = NoRequest /\ inbox # <<>>
  /\ Head(inbox).op = "unsupported"
  /\ inbox' = Tail(inbox)
  /\ UNCHANGED <<running, arrived, req, replies>>

Reply(answer) ==
  /\ running /\ req # NoRequest
  /\ \A i \in 1 .. Len(replies) : replies[i].id # req.id
  /\ replies' = Append(replies, [id |-> req.id, answer |-> answer])
  /\ UNCHANGED <<running, arrived, inbox, req>>

Finish ==
  /\ running /\ req # NoRequest
  /\ req' = NoRequest
  /\ UNCHANGED <<running, arrived, inbox, replies>>

Stop ==
  /\ running
  /\ running' = FALSE
  /\ UNCHANGED <<arrived, inbox, req, replies>>

Next ==
  \/ \E op \in Ops : Arrive(op)
  \/ Take \/ Ignore \/ Finish \/ Stop
  \/ \E answer \in 0 .. req.id : Reply(answer)

Spec == Init /\ [][Next]_vars

=============================================================================
