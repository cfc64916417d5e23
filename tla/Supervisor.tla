----------------------------- MODULE Supervisor -----------------------------
(***************************************************************************)
(* The process: main starts the discover thread, the receive thread and    *)
(* create_mqtt_task, whose library runs the callbacks on one more thread,  *)
(* and one of these callbacks, msgarrvd, runs the whole request path.      *)
(*                                                                         *)
(* The threads share no variable of the program, but one table of          *)
(* descriptors and one life: what a part takes as others is here what the  *)
(* other parts hold, and any part can end the process for all.  A step is  *)
(* a step of one part, or of the session and the request path together     *)
(* where msgarrvd begins and ends.                                         *)
(***************************************************************************)
EXTENDS Integers, Sequences

CONSTANTS
  Stations, McAddr, StrayFrames, QueueCap, NoFrame,   \* see Discovery
  MaxRequests, Ports, NoSocket, Unbound,              \* see RequestHandler
  MaxFd,    \* RLIMIT_NOFILE
  BaseFds   \* descriptors held from the start: the standard ones, the
            \* configuration file, which is never closed, and the library's

VARIABLES
  running,                                                     \* the process
  dis, burst, srcAddr, disFds, requests, owed,                 \* Discovery
  rec, recFds, queue, frame, devices, announced,
  arrived, inbox, pc, req, port, armed, response, link,        \* RequestHandler
  delivered, reqFds, pubFds, udp, portOf, sent, replies, taken, missed, leaks,
  task, client, subscribed, finished, cb, subLink,             \* Subscriber
  subscription, published, waiting, lost

disVars == <<dis, burst, srcAddr, disFds, requests, owed,
             rec, recFds, queue, frame, devices, announced>>
reqVars == <<arrived, inbox, pc, req, port, armed, response, link, delivered,
             reqFds, pubFds, udp, portOf, sent, replies, taken, missed, leaks>>
subVars == <<task, client, subscribed, finished, cb, subLink, subscription,
             published, waiting, lost>>
vars == <<running, disVars, reqVars, subVars>>

\* The subscriber's connection is a socket until its loss is noticed.
subFds == IF subLink \in {"up", "broken"} THEN 1 ELSE 0

D == INSTANCE Discovery WITH others <- BaseFds + reqFds + pubFds + subFds
R == INSTANCE RequestHandler WITH others <- BaseFds + disFds + recFds + subFds
S == INSTANCE Subscriber WITH link <- subLink, MaxMessages <- MaxRequests

ASSUME SupervisorAssumption ==
  /\ McAddr \notin Stations
  /\ StrayFrames \subseteq D!Frames
  /\ NoFrame \notin D!Frames
  /\ QueueCap \in Nat \ {0}
  /\ MaxRequests \in Nat
  /\ Ports # {}
  /\ NoSocket \notin Ports /\ Unbound \notin Ports /\ NoSocket # Unbound
  /\ MaxFd \in Nat
  /\ BaseFds \in 0 .. MaxFd

Room == BaseFds + disFds + recFds + reqFds + pubFds + subFds < MaxFd

Init ==
  /\ disFds = 0 /\ recFds = 0 /\ subLink = "none"
  /\ R!Init /\ S!Init /\ D!Init

(***************************************************************************)
(* Steps of one part.                                                      *)
(***************************************************************************)

Discovery(Step) == running /\ UNCHANGED <<running, reqVars, subVars>> /\ Step

Discovers == Discovery(D!Discover)
Receives == Discovery(D!Receive)
WireMoves == Discovery(D!Wire)

\* A payload that leads the block parser astray ends the process; both branches
\* of the receiver give it theirs.
ParserCrashes ==
  /\ running /\ rec = "handle"
  /\ D!IsNewDevice(frame) \/ D!IsBackToPower(frame)
  /\ running' = FALSE
  /\ UNCHANGED <<disVars, reqVars, subVars>>

Request(Step) == running /\ UNCHANGED <<disVars, subVars>> /\ Step

\* The steps of the callback thread inside msgarrvd.
Handles ==
  /\ running /\ UNCHANGED <<disVars, subVars>>
  /\ \/ R!TakeRequest \/ R!OpenSocket \/ R!LookupSucceeds \/ R!LookupFails
     \/ R!SendTo \/ R!SendToFails \/ R!ReceiveAnswer \/ R!ReceiveTimesOut
     \/ R!CloseSocket \/ R!Connect \/ R!Publish \/ R!PublishFails \/ R!WaitEnds

Acknowledged == Request(R!Delivered)

NetworkMoves ==
  Request(R!LinkLost) \/ Request(R!DeviceAnswers) \/ Request(R!DatagramLost)

Session(Step) == running /\ Step /\ UNCHANGED <<disVars, reqVars>>

TaskRuns == Session(S!Task)

\* The callbacks other than msgarrvd.
CallsBack ==
  \/ Session(S!OnConnect) \/ Session(S!OnFailure) \/ Session(S!OnSubscribe)
  \/ Session(S!ConnLost) \/ Session(S!CallbackReturns)

\* Mutant of ConnectAnswered: a connection takes no descriptor.
ConnectAnsweredFree == Session(S!ConnectAnswered)

\* A connection takes a descriptor; without one it is refused.
ConnectAnswered ==
  /\ Session(S!ConnectAnswered)
  /\ subLink' = "up" => Room

LibraryCalls ==
  ConnectAnswered \/ Session(S!SubscribeAnswered) \/ Session(S!LossNoticed)

BrokerMoves == Session(S!LinkBreaks) \/ Session(S!RequestPublished)

(***************************************************************************)
(* Where msgarrvd begins and ends.                                         *)
(***************************************************************************)

\* Mutant of HandsOver: a message is delivered twice.
HandsOverTwice ==
  /\ running
  /\ S!MessageArrives
  /\ UNCHANGED disVars
  /\ arrived' = arrived + 1
  /\ inbox' = inbox \o << [id |-> arrived', op |-> "write"], [id |-> arrived', op |-> "write"] >>
  /\ UNCHANGED <<pc, req, port, armed, response, link, delivered, reqFds, pubFds,
                 udp, portOf, sent, replies, taken, missed, leaks>>

\* Mutant of HandsOver: the library's queue keeps the message.
HandsOverACopy ==
  /\ running /\ UNCHANGED disVars
  /\ subLink = "up" /\ waiting > 0 /\ S!Calls("msgarrvd")
  /\ UNCHANGED <<task, client, subscribed, finished, subLink, subscription,
                 published, waiting, lost>>
  /\ R!Arrive

\* The library calls msgarrvd with one message.
HandsOver ==
  /\ running
  /\ S!MessageArrives
  /\ UNCHANGED disVars
  /\ R!Arrive

\* Mutant of Returns: msgarrvd does not wait for the client to disconnect.
ReturnsEarly ==
  /\ running
  /\ S!MsgArrvd
  /\ UNCHANGED disVars
  /\ R!WaitEnds \/ R!DropRequest

\* Mutant of Returns: an unsupported request is refused, and kept.
ReturnsWithReplyOnly ==
  /\ running
  /\ S!MsgArrvd
  /\ UNCHANGED disVars
  /\ R!Disconnect

\* msgarrvd returns: the reply is out, or there is none.
Returns ==
  /\ running
  /\ S!MsgArrvd
  /\ UNCHANGED disVars
  /\ R!Disconnect \/ R!DropRequest

\* mqtt_pub calls exit, inside msgarrvd.
Exits ==
  /\ running
  /\ S!MsgArrvd
  /\ UNCHANGED disVars
  /\ R!ConnectFails

CallbackThread == Handles \/ CallsBack \/ Returns \/ Exits

LibraryThread == LibraryCalls \/ HandsOver

Next ==
  \/ Discovers \/ Receives \/ WireMoves \/ ParserCrashes
  \/ Acknowledged \/ NetworkMoves
  \/ TaskRuns \/ BrokerMoves
  \/ CallbackThread \/ LibraryThread

\* The callback thread runs, the library calls back when it may, and a broker
\* that is connected acknowledges.  The scheduler runs the other threads too,
\* but nothing below needs it.
Fairness ==
  WF_vars(CallbackThread) /\ WF_vars(LibraryThread) /\ WF_vars(Acknowledged)

Spec == Init /\ [][Next]_vars

FairSpec == Spec /\ Fairness

-----------------------------------------------------------------------------
(***************************************************************************)
(* Safety.                                                                 *)
(***************************************************************************)

\* Types of the variables, as the parts state them.
TypeOK == D!TypeOK /\ R!TypeOK /\ S!TypeOK

\* The two leaks of the program, a descriptor for each identify request and
\* one for each failed host lookup, draw on one table, and so does the
\* subscriber's connection: together they never exceed it.
LeakBudget ==
  /\ requests + leaks + subFds + BaseFds <= MaxFd
  /\ BaseFds + disFds + recFds + reqFds + pubFds + subFds <= MaxFd

\* The request path runs inside msgarrvd and nowhere else, so it is at rest
\* with no publishing client whenever another callback runs, and also when the
\* task destroys the client or the connection has been found lost.
RequestsInCallback ==
  /\ cb = "msgarrvd" <=> pc # "idle" \/ inbox # <<>>
  /\ lost \/ task \in {"destroy", "gone"} => pc = "idle" /\ inbox = <<>> /\ pubFds = 0

\* Descriptors that nothing will ever close leave none but the subscriber's.
Exhausted == BaseFds + disFds + leaks + 1 >= MaxFd

\* Discovery starves the request path: once the leaks have used up the table,
\* no reply is ever published again, although requests still arrive.
NoReplyWhenExhausted == [][Exhausted => Exhausted' /\ replies' = replies]_vars

(***************************************************************************)
(* Each part, with the other parts as its environment, is what its module  *)
(* says: what was checked and proved of the parts holds in the process.    *)
(***************************************************************************)

\* The two discovery threads, among the others, implement Discovery.
ImplementsDiscovery == D!Spec

\* The request path, inside msgarrvd, implements RequestHandler.
ImplementsHandler == R!Spec

\* The session, with the request path inside one of its callbacks, implements
\* Subscriber.
ImplementsSubscriber == S!Spec

\* No part relies on having the descriptor table or the process to itself.
ImplementsParts == ImplementsDiscovery /\ ImplementsHandler /\ ImplementsSubscriber

(***************************************************************************)
(* Liveness.                                                               *)
(***************************************************************************)

\* A broken connection is noticed, although the library's thread is busy with
\* a request for as long as it takes, unless the process ends or that request
\* is in one of its two endless waits: then even the loss goes unnoticed.
LossIsNoticed ==
  subLink = "broken" ~> (lost \/ ~running \/ R!StuckInReceive \/ R!StuckInWait)

\* Once the table is used up, the first request that is taken up ends the
\* process, discovery included: no device is asked and mqtt_pub cannot connect.
ExhaustionEnds ==
  Exhausted /\ pc \in {"socket", "lookup", "sendto", "close", "connect"} ~> ~running

=============================================================================
