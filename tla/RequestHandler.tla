--------------------------- MODULE RequestHandler ---------------------------
(***************************************************************************)
(* The request path of the gateway: the MQTT callback thread takes a       *)
(* message (msgarrvd, mqtt_msg_hdlr), sends one PROFINET IO read or write  *)
(* over UDP and waits for the answer (send_read_IO_Packet,                 *)
(* send_write_IO_Packet: the two differ only in the packet), and publishes *)
(* the answer through a client it connects for this one message (mqtt_pub).*)
(*                                                                         *)
(* The callback thread runs all of this; it is alone with its sockets, but *)
(* not with the network, the broker, the publishing client's own thread    *)
(* and the process' descriptor table.                                      *)
(***************************************************************************)
EXTENDS Integers, Sequences

CONSTANTS
  MaxRequests,  \* bound on the requests that arrive
  Ports,        \* UDP ports the kernel may give a socket
  NoSocket,     \* sockfd is -1, or closed
  Unbound,      \* the socket is open and has sent nothing yet
  MaxFd         \* RLIMIT_NOFILE

ASSUME HandlerAssumption ==
  /\ MaxRequests \in Nat
  /\ MaxFd \in Nat
  /\ Ports # {}
  /\ NoSocket \notin Ports /\ Unbound \notin Ports /\ NoSocket # Unbound

\* profinet_req_t, reduced to the operation; anything that is not "read" or
\* "write", and a message that is not JSON, is unsupported.
Ops == {"read", "write", "unsupported"}

Requests == [id : Nat, op : Ops]

NoRequest == [id |-> 0, op |-> "unsupported"]

\* An answer is the id of the request the device answered; *size stays 0
\* when nothing was received.
NoAnswer == 0

Datagrams == [kind : {"request", "answer"}, id : Nat, port : Ports]

VARIABLES
  running,    \* the process has not ended
  arrived,    \* requests published for us so far
  inbox,      \* messages the library has not handed over yet
  pc,         \* where the callback thread is
  req,        \* the request it serves
  port,       \* the port of sockfd
  armed,      \* SO_RCVTIMEO was accepted
  response,   \* what recvfrom returned
  link,       \* the publishing client's connection
  delivered,  \* deliveredtoken = token
  reqFds,     \* descriptors opened by the send functions and not closed
  pubFds,     \* descriptors of the publishing client
  others,     \* descriptors the rest of the process holds
  udp,        \* datagrams in flight
  portOf,     \* the port each request was sent from (history)
  sent,       \* ids of the requests sent to a device, in order (history)
  replies,    \* publications on /profinet/response, in order (history)
  taken,      \* ids of the supported requests taken up (history)
  missed,     \* ids whose publication failed (history)
  leaks       \* lookups that failed with the socket open (history)

sockVars == <<port, armed, response, reqFds, portOf, sent, leaks>>
pubVars == <<link, delivered, pubFds, replies, missed>>
msgVars == <<arrived, inbox, req, taken>>
vars == <<running, pc, msgVars, sockVars, pubVars, others, udp>>

Room == reqFds + pubFds + others < MaxFd

Init ==
  /\ running = TRUE /\ pc = "idle"
  /\ arrived = 0 /\ inbox = <<>> /\ req = NoRequest /\ taken = {}
  /\ port = NoSocket /\ armed = FALSE /\ response = NoAnswer /\ reqFds = 0
  /\ portOf = [i \in 1 .. MaxRequests |-> NoSocket] /\ sent = <<>> /\ leaks = 0
  /\ link = "none" /\ delivered = FALSE /\ pubFds = 0
  /\ replies = <<>> /\ missed = {}
  /\ others \in 0 .. MaxFd
  /\ udp = {}

\* The callback thread goes from one place to the next.
Step(from, to) == running /\ pc = from /\ pc' = to

(***************************************************************************)
(* msgarrvd, json_to_struct and the dispatch of mqtt_msg_hdlr.             *)
(***************************************************************************)

\* Mutant of TakeRequest: the response buffer outlives the request.
TakeRequestKeepsResponse ==
  /\ inbox # <<>> /\ Head(inbox).op \in {"read", "write"}
  /\ Step("idle", "socket")
  /\ req' = Head(inbox)
  /\ inbox' = Tail(inbox)
  /\ taken' = taken \cup {Head(inbox).id}
  /\ UNCHANGED <<running, arrived, sockVars, pubVars, others, udp>>

TakeRequest ==
  /\ inbox # <<>> /\ Head(inbox).op \in {"read", "write"}
  /\ Step("idle", "socket")
  /\ req' = Head(inbox)
  /\ inbox' = Tail(inbox)
  /\ taken' = taken \cup {Head(inbox).id}
  /\ response' = NoAnswer
  /\ UNCHANGED <<running, arrived, port, armed, reqFds, portOf, sent, leaks,
                 pubVars, others, udp>>

\* "Unsupported Operation": the message is dropped and nobody is told.
DropRequest ==
  /\ inbox # <<>> /\ Head(inbox).op = "unsupported"
  /\ Step("idle", "idle")
  /\ inbox' = Tail(inbox)
  /\ UNCHANGED <<running, arrived, req, taken, sockVars, pubVars, others, udp>>

(***************************************************************************)
(* send_read_IO_Packet and send_write_IO_Packet.                           *)
(***************************************************************************)

\* A failed socket() is reported and the function goes on with sockfd = -1.
\* (The socket of getMyIP, and those of gethostbyname, are closed before these
\* functions return.)
OpenSocket ==
  /\ Step("socket", "lookup")
  /\ \/ Room /\ reqFds' = reqFds + 1 /\ port' = Unbound
     \/ ~Room /\ UNCHANGED <<reqFds, port>>
  /\ UNCHANGED <<running, msgVars, armed, response, portOf, sent, leaks,
                 pubVars, others, udp>>

LookupSucceeds ==
  /\ Step("lookup", "sendto")
  /\ UNCHANGED <<running, msgVars, sockVars, pubVars, others, udp>>

\* Mutant of LookupFails: the caller heeds the -1 and returns.
LookupFailsSilently ==
  /\ Step("lookup", "idle")
  /\ port' = NoSocket
  /\ leaks' = IF port = Unbound THEN leaks + 1 ELSE leaks
  /\ req' = NoRequest
  /\ UNCHANGED <<running, arrived, inbox, taken, armed, response, reqFds, portOf,
                 sent, pubVars, others, udp>>

\* gethostbyname returns NULL: return -1, with the socket still open.  The
\* caller ignores the result and publishes an empty response.
LookupFails ==
  /\ Step("lookup", "connect")
  /\ port' = NoSocket
  /\ leaks' = IF port = Unbound THEN leaks + 1 ELSE leaks
  /\ UNCHANGED <<running, msgVars, armed, response, reqFds, portOf, sent,
                 pubVars, others, udp>>

\* sendto binds the socket to a port of the kernel's choice.  The timeout is
\* then set from a struct timeval whose tv_usec was never written, so
\* setsockopt may refuse it.
SendTo ==
  /\ port = Unbound
  /\ Step("sendto", "recvfrom")
  /\ \E p \in Ports :
       /\ port' = p
       /\ portOf' = [portOf EXCEPT ![req.id] = p]
       /\ udp' = udp \cup {[kind |-> "request", id |-> req.id, port |-> p]}
  /\ sent' = Append(sent, req.id)
  /\ armed' \in BOOLEAN
  /\ UNCHANGED <<running, msgVars, response, reqFds, leaks, pubVars, others>>

\* Mutant of SendToFails: an early return, as after a failed lookup.
SendToFailsOpen ==
  /\ Step("sendto", "connect")
  /\ port' = NoSocket
  /\ UNCHANGED <<running, msgVars, armed, response, reqFds, portOf, sent, leaks,
                 pubVars, others, udp>>

\* "ERROR in sendto": no socket, or the kernel refused.
SendToFails ==
  /\ Step("sendto", "close")
  /\ UNCHANGED <<running, msgVars, sockVars, pubVars, others, udp>>

\* recvfrom takes any datagram that reached the socket's port, and nothing
\* in it is compared with the request.
ReceiveAnswer ==
  /\ Step("recvfrom", "close")
  /\ \E d \in udp :
       /\ d.kind = "answer" /\ d.port = port
       /\ response' = d.id
       /\ udp' = udp \ {d}
  /\ UNCHANGED <<running, msgVars, port, armed, reqFds, portOf, sent, leaks,
                 pubVars, others>>

\* Mutant of ReceiveTimesOut: the request is sent again.
ReceiveTimesOutRetries ==
  /\ armed
  /\ Step("recvfrom", "socket")
  /\ port' = NoSocket
  /\ reqFds' = reqFds - 1
  /\ UNCHANGED <<running, msgVars, armed, response, portOf, sent, leaks,
                 pubVars, others, udp>>

ReceiveTimesOut ==
  /\ armed
  /\ Step("recvfrom", "close")
  /\ UNCHANGED <<running, msgVars, sockVars, pubVars, others, udp>>

\* Mutant of CloseSocket: sockfd is 0, not -1, when there is no socket.
CloseSocketAlways ==
  /\ Step("close", "connect")
  /\ port' = NoSocket
  /\ reqFds' = reqFds - 1
  /\ UNCHANGED <<running, msgVars, armed, response, portOf, sent, leaks,
                 pubVars, others, udp>>

CloseSocket ==
  /\ Step("close", "connect")
  /\ port' = NoSocket
  /\ reqFds' = IF port = NoSocket THEN reqFds ELSE reqFds - 1
  /\ UNCHANGED <<running, msgVars, armed, response, portOf, sent, leaks,
                 pubVars, others, udp>>

(***************************************************************************)
(* mqtt_pub.                                                               *)
(***************************************************************************)

\* Mutant of Connect: the reply goes out through a client that is there.
ConnectShared ==
  /\ Step("connect", "publish")
  /\ link' = "up"
  /\ delivered' = FALSE
  /\ UNCHANGED <<running, msgVars, sockVars, pubFds, replies, missed, others, udp>>

Connect ==
  /\ Room
  /\ Step("connect", "publish")
  /\ link' = "up"
  /\ pubFds' = pubFds + 1
  /\ delivered' = FALSE
  /\ UNCHANGED <<running, msgVars, sockVars, replies, missed, others, udp>>

\* Mutant of ConnectFails: MQTTClient_connect is tried until it succeeds.
ConnectFailsRetries ==
  /\ running /\ pc = "connect"
  /\ UNCHANGED vars

\* The broker refuses or no descriptor is free: exit(EXIT_FAILURE), which
\* ends every thread of the process.
ConnectFails ==
  /\ running /\ pc = "connect"
  /\ running' = FALSE
  /\ UNCHANGED <<pc, msgVars, sockVars, pubVars, others, udp>>

Publish ==
  /\ link = "up"
  /\ Step("publish", "wait")
  /\ replies' = Append(replies, [id |-> req.id, answer |-> response])
  /\ UNCHANGED <<running, msgVars, sockVars, link, delivered, pubFds, missed,
                 others, udp>>

\* The connection is gone before publishMessage: it fails, its result is
\* ignored and token keeps whatever was on the stack, the 0 of
\* deliveredtoken or something else.
PublishFails ==
  /\ link = "lost"
  /\ Step("publish", "wait")
  /\ missed' = missed \cup {req.id}
  /\ delivered' \in BOOLEAN
  /\ UNCHANGED <<running, msgVars, sockVars, link, pubFds, replies, others, udp>>

\* Mutant of WaitEnds: a publication that is not acknowledged is repeated.
WaitEndsOrRepeats ==
  /\ \/ delivered /\ Step("wait", "disconnect")
     \/ ~delivered /\ Step("wait", "publish")
  /\ UNCHANGED <<running, msgVars, sockVars, pubVars, others, udp>>

\* while (deliveredtoken != token);
WaitEnds ==
  /\ delivered
  /\ Step("wait", "disconnect")
  /\ UNCHANGED <<running, msgVars, sockVars, pubVars, others, udp>>

Disconnect ==
  /\ Step("disconnect", "idle")
  /\ link' = "none"
  /\ pubFds' = 0
  /\ req' = NoRequest
  /\ UNCHANGED <<running, arrived, inbox, taken, sockVars, delivered, replies,
                 missed, others, udp>>

Callback ==
  \/ TakeRequest \/ DropRequest
  \/ OpenSocket \/ LookupSucceeds \/ LookupFails \/ SendTo \/ SendToFails
  \/ ReceiveAnswer \/ ReceiveTimesOut \/ CloseSocket
  \/ Connect \/ ConnectFails \/ Publish \/ PublishFails \/ WaitEnds \/ Disconnect

(***************************************************************************)
(* The publishing client's thread, the broker and the network.             *)
(***************************************************************************)

Arrive ==
  /\ arrived < MaxRequests
  /\ arrived' = arrived + 1
  /\ \E op \in Ops : inbox' = Append(inbox, [id |-> arrived + 1, op |-> op])
  /\ UNCHANGED <<running, pc, req, taken, sockVars, pubVars, others, udp>>

\* static void delivered(...): the broker acknowledged the publication.
Delivered ==
  /\ running /\ pc = "wait" /\ link = "up"
  /\ ~delivered
  /\ delivered' = TRUE
  /\ UNCHANGED <<running, pc, msgVars, sockVars, link, pubFds, replies, missed,
                 others, udp>>

\* static void connlost(...) only reports it; the client library has closed
\* its socket and does not connect again.
LinkLost ==
  /\ running /\ link = "up"
  /\ link' = "lost"
  /\ pubFds' = 0
  /\ UNCHANGED <<running, pc, msgVars, sockVars, delivered, replies, missed,
                 others, udp>>

\* A device answers, perhaps again for a request that was duplicated.
DeviceAnswers ==
  /\ \E d \in udp :
       /\ d.kind = "request"
       /\ \E rest \in {udp, udp \ {d}} :
            udp' = rest \cup {[d EXCEPT !.kind = "answer"]}
  /\ UNCHANGED <<running, pc, msgVars, sockVars, pubVars, others>>

DatagramLost ==
  /\ \E d \in udp : udp' = udp \ {d}
  /\ UNCHANGED <<running, pc, msgVars, sockVars, pubVars, others>>

OthersChange ==
  /\ running
  /\ others' \in 0 .. (MaxFd - reqFds - pubFds)
  /\ UNCHANGED <<running, pc, msgVars, sockVars, pubVars, udp>>

\* Another thread calls exit, or dies of a signal.
ProcessEnds ==
  /\ running
  /\ running' = FALSE
  /\ UNCHANGED <<pc, msgVars, sockVars, pubVars, others, udp>>

Environment ==
  \/ Arrive \/ Delivered \/ LinkLost \/ DeviceAnswers \/ DatagramLost \/ OthersChange
  \/ ProcessEnds

Next == Callback \/ Environment

\* The scheduler runs the callback thread, and a broker that is connected
\* acknowledges; devices, requesters and the network promise nothing.
Fairness == WF_vars(Callback) /\ WF_vars(Delivered)

Spec == Init /\ [][Next]_vars

FairSpec == Spec /\ Fairness

-----------------------------------------------------------------------------
(***************************************************************************)
(* Safety.                                                                 *)
(***************************************************************************)

\* Types of the variables.
TypeOK ==
  /\ running \in BOOLEAN /\ armed \in BOOLEAN /\ delivered \in BOOLEAN
  /\ pc \in {"idle", "socket", "lookup", "sendto", "recvfrom", "close",
             "connect", "publish", "wait", "disconnect"}
  /\ arrived \in 0 .. MaxRequests
  /\ inbox \in Seq(Requests)
  /\ req \in Requests
  /\ port \in Ports \cup {NoSocket, Unbound}
  /\ response \in Nat
  /\ link \in {"none", "up", "lost"}
  /\ reqFds \in Nat /\ pubFds \in Nat /\ others \in Nat /\ leaks \in Nat
  /\ udp \subseteq Datagrams
  /\ portOf \in [1 .. MaxRequests -> Ports \cup {NoSocket}]
  /\ sent \in Seq(Nat)
  /\ replies \in Seq([id : Nat, answer : Nat])
  /\ taken \subseteq Nat /\ missed \subseteq Nat

\* An answer published for a request is the device's answer to that request,
\* or empty, or the late answer to an earlier one that was sent from the very
\* port the kernel gave this request's socket: opening a socket per request
\* is all that keeps answers apart.
AnswerIsOwn ==
  \A i \in 1 .. Len(replies) :
    LET r == replies[i] IN
      \/ r.answer \in {NoAnswer, r.id}
      \/ r.answer < r.id /\ portOf[r.answer] = portOf[r.id]

\* No request reaches a device twice from here, and devices see requests in
\* the order they arrived: nothing retries a write that timed out.
SentOnceInOrder ==
  \A i, j \in 1 .. Len(sent) : i < j => sent[i] < sent[j]

\* Every supported request that was taken up has been replied to, whatever
\* failed on the way (no descriptor, unknown host, sendto, timeout), unless
\* it is still before its publication or the publishing connection broke
\* under it.
NoneForgotten ==
  \A id \in taken :
    \/ \E i \in 1 .. Len(replies) : replies[i].id = id
    \/ id \in missed
    \/ id = req.id /\ pc \notin {"idle", "wait", "disconnect"}

\* Between two requests the path holds no descriptor, except one for each
\* lookup that failed: those are lost for good.
DescriptorsReturned ==
  /\ pc = "idle" => reqFds = leaks /\ pubFds = 0
  /\ reqFds + pubFds + others <= MaxFd

(***************************************************************************)
(* Liveness.                                                               *)
(***************************************************************************)

\* The callback thread is stuck only in the two places that wait for someone
\* else with no limit: recvfrom when the timeout was not accepted, and the
\* busy wait for an acknowledgement the broken connection cannot bring.
StuckInReceive == pc = "recvfrom" /\ ~armed
StuckInWait == pc = "wait" /\ link = "lost" /\ ~delivered

HandlerReturns ==
  pc # "idle" ~> (pc = "idle" \/ ~running \/ StuckInReceive \/ StuckInWait)

(***************************************************************************)
(* The promise to the requesters.                                          *)
(***************************************************************************)

Abstract == INSTANCE RequestReply

\* The request path implements RequestReply: requests are served in order,
\* one at a time, and replied to at most once, only while they are served.
ImplementsRequestReply == Abstract!Spec

=============================================================================
