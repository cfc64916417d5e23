-------------------------- MODULE SupervisorProofs --------------------------
(***************************************************************************)
(* Proofs about Supervisor, for every value of its constants: the process  *)
(* implements the specification of each of its parts, so the parts'        *)
(* theorems hold in it, and the properties that only the whole has.        *)
(*                                                                         *)
(* The invariant is the conjunction of the parts' own invariants.  Each    *)
(* holds after a step of its own part by that part's lemma; after a step   *)
(* of another part it holds because that step is one of the environment    *)
(* actions the part's module allows (OthersChange, ProcessEnds), and this  *)
(* is so because the acting part's invariant bounds what it took.          *)
(***************************************************************************)
EXTENDS Supervisor, SequenceTheorems, TLAPS

DP == INSTANCE DiscoveryProofs WITH others <- BaseFds + reqFds + pubFds + subFds
RP == INSTANCE RequestHandlerProofs WITH others <- BaseFds + disFds + recFds + subFds
SP == INSTANCE SubscriberProofs WITH link <- subLink, MaxMessages <- MaxRequests

-----------------------------------------------------------------------------
(***************************************************************************)
(* The parts as Supervisor names them are the parts as their proofs do.    *)
(***************************************************************************)

LEMMA DiscoveryAssumed == DP!DiscoveryAssumption
BY SupervisorAssumption
DEF DP!DiscoveryAssumption, DP!Frames, D!Frames, DP!Macs, D!Macs

LEMMA HandlerAssumed == RP!HandlerAssumption
BY SupervisorAssumption DEF RP!HandlerAssumption

LEMMA SubscriberAssumed == SP!SubscriberAssumption
BY SupervisorAssumption DEF SP!SubscriberAssumption

LEMMA SameDiscovery ==
  /\ D!Init <=> DP!Init
  /\ [D!Next]_(D!vars) <=> [DP!Next]_(DP!vars)
<1> USE DEF D!disVars, DP!disVars, D!recVars, DP!recVars, D!Room, DP!Room,
    D!InUse, DP!InUse, D!EndOfCall, DP!EndOfCall
<1>1. D!Init <=> DP!Init
  BY Zenon DEF D!Init, DP!Init
<1>2. D!Discover <=> DP!Discover
  BY Zenon DEF D!Discover, DP!Discover, D!DisSocket, DP!DisSocket,
     D!DisNoBuffer, DP!DisNoBuffer, D!DisAddress, DP!DisAddress,
     D!DisSend, DP!DisSend, D!DisWake, DP!DisWake
<1>3. D!RecHandle <=> DP!RecHandle
  BY DEF D!RecHandle, DP!RecHandle, D!IsNewDevice, DP!IsNewDevice,
     D!IsBackToPower, DP!IsBackToPower, D!addDevice, DP!addDevice, D!check, DP!check,
     D!PF_DCP_SERVICE_IDENTIFY, DP!PF_DCP_SERVICE_IDENTIFY,
     D!PF_DCP_SERVICE_HELLO, DP!PF_DCP_SERVICE_HELLO,
     D!PF_DCP_SERVICE_TYPE_SUCCESS, DP!PF_DCP_SERVICE_TYPE_SUCCESS,
     D!PF_DCP_ID_RES_FRAME_ID, DP!PF_DCP_ID_RES_FRAME_ID
<1>4. D!Receive <=> DP!Receive
  BY <1>3, Zenon DEF D!Receive, DP!Receive, D!RecSocket, DP!RecSocket,
     D!RecReceive, DP!RecReceive, D!RecReceiveFails, DP!RecReceiveFails,
     D!RecClose, DP!RecClose
<1>5. D!Wire <=> DP!Wire
  BY DEF D!Wire, DP!Wire, D!StationAnswers, DP!StationAnswers,
     D!StationPowersUp, DP!StationPowersUp, D!StrayFrame, DP!StrayFrame,
     D!Arrives, DP!Arrives, D!IdentifyResponse, DP!IdentifyResponse,
     D!Hello, DP!Hello, D!Frame, DP!Frame,
     D!PF_DCP_SERVICE_IDENTIFY, DP!PF_DCP_SERVICE_IDENTIFY,
     D!PF_DCP_SERVICE_HELLO, DP!PF_DCP_SERVICE_HELLO,
     D!PF_DCP_SERVICE_TYPE_REQUEST, DP!PF_DCP_SERVICE_TYPE_REQUEST,
     D!PF_DCP_SERVICE_TYPE_SUCCESS, DP!PF_DCP_SERVICE_TYPE_SUCCESS,
     D!PF_DCP_HELLO_FRAME_ID, DP!PF_DCP_HELLO_FRAME_ID,
     D!PF_DCP_ID_RES_FRAME_ID, DP!PF_DCP_ID_RES_FRAME_ID
<1>6. D!OthersChange <=> DP!OthersChange
  BY Zenon DEF D!OthersChange, DP!OthersChange
<1>7. UNCHANGED D!vars <=> UNCHANGED DP!vars
  BY Zenon DEF D!vars, DP!vars
<1>8. QED
  BY <1>1, <1>2, <1>4, <1>5, <1>6, <1>7, Zenon DEF D!Next, DP!Next

LEMMA SameHandler ==
  /\ R!Init <=> RP!Init
  /\ [R!Next]_(R!vars) <=> [RP!Next]_(RP!vars)
<1> USE DEF R!msgVars, RP!msgVars, R!sockVars, RP!sockVars, R!pubVars, RP!pubVars,
    R!Step, RP!Step, R!Room, RP!Room, R!NoRequest, RP!NoRequest,
    R!NoAnswer, RP!NoAnswer, R!Ops, RP!Ops
<1>1. R!Init <=> RP!Init
  BY Zenon DEF R!Init, RP!Init
<1>2. R!TakeRequest \/ R!DropRequest \/ R!OpenSocket \/ R!LookupSucceeds \/ R!LookupFails
      <=> RP!TakeRequest \/ RP!DropRequest \/ RP!OpenSocket \/ RP!LookupSucceeds
            \/ RP!LookupFails
  BY Zenon DEF R!TakeRequest, RP!TakeRequest, R!DropRequest, RP!DropRequest,
     R!OpenSocket, RP!OpenSocket, R!LookupSucceeds, RP!LookupSucceeds,
     R!LookupFails, RP!LookupFails
<1>3. R!SendTo \/ R!SendToFails \/ R!ReceiveAnswer \/ R!ReceiveTimesOut \/ R!CloseSocket
      <=> RP!SendTo \/ RP!SendToFails \/ RP!ReceiveAnswer \/ RP!ReceiveTimesOut
            \/ RP!CloseSocket
  BY Zenon DEF R!SendTo, RP!SendTo, R!SendToFails, RP!SendToFails,
     R!ReceiveAnswer, RP!ReceiveAnswer, R!ReceiveTimesOut, RP!ReceiveTimesOut,
     R!CloseSocket, RP!CloseSocket
<1>4. R!Connect \/ R!ConnectFails \/ R!Publish \/ R!PublishFails \/ R!WaitEnds \/ R!Disconnect
      <=> RP!Connect \/ RP!ConnectFails \/ RP!Publish \/ RP!PublishFails
            \/ RP!WaitEnds \/ RP!Disconnect
  BY Zenon DEF R!Connect, RP!Connect, R!ConnectFails, RP!ConnectFails,
     R!Publish, RP!Publish, R!PublishFails, RP!PublishFails,
     R!WaitEnds, RP!WaitEnds, R!Disconnect, RP!Disconnect
<1>5. R!Environment <=> RP!Environment
  BY Zenon DEF R!Environment, RP!Environment, R!Arrive, RP!Arrive,
     R!Delivered, RP!Delivered, R!LinkLost, RP!LinkLost,
     R!DeviceAnswers, RP!DeviceAnswers, R!DatagramLost, RP!DatagramLost,
     R!OthersChange, RP!OthersChange, R!ProcessEnds, RP!ProcessEnds
<1>6. UNCHANGED R!vars <=> UNCHANGED RP!vars
  BY Zenon DEF R!vars, RP!vars
<1>7. QED
  BY <1>1, <1>2, <1>3, <1>4, <1>5, <1>6, Zenon
     DEF R!Next, RP!Next, R!Callback, RP!Callback

LEMMA SameSubscriber ==
  /\ S!Init <=> SP!Init
  /\ [S!Next]_(S!vars) <=> [SP!Next]_(SP!vars)
<1> USE DEF S!flags, SP!flags, S!session, SP!session, S!messages, SP!messages
<1>1. S!Init <=> SP!Init
  BY Zenon DEF S!Init, SP!Init
<1>2. S!Task <=> SP!Task
  BY Zenon DEF S!Task, SP!Task, S!StartConnect, SP!StartConnect,
     S!StartConnectFails, SP!StartConnectFails, S!PollEnds, SP!PollEnds,
     S!Check, SP!Check, S!Destroy, SP!Destroy
<1>3. S!Callback <=> SP!Callback
  BY Zenon DEF S!Callback, SP!Callback, S!OnConnect, SP!OnConnect,
     S!OnFailure, SP!OnFailure, S!OnSubscribe, SP!OnSubscribe,
     S!ConnLost, SP!ConnLost, S!CallbackReturns, SP!CallbackReturns,
     S!MsgArrvd, SP!MsgArrvd
<1>4. S!Library <=> SP!Library
  BY Zenon DEF S!Library, SP!Library, S!Calls, SP!Calls,
     S!ConnectAnswered, SP!ConnectAnswered, S!SubscribeAnswered, SP!SubscribeAnswered,
     S!MessageArrives, SP!MessageArrives, S!LossNoticed, SP!LossNoticed
<1>5. S!LinkBreaks \/ S!RequestPublished \/ S!ProcessEnds
      <=> SP!LinkBreaks \/ SP!RequestPublished \/ SP!ProcessEnds
  BY Zenon DEF S!LinkBreaks, SP!LinkBreaks, S!RequestPublished, SP!RequestPublished,
     S!ProcessEnds, SP!ProcessEnds
<1>6. UNCHANGED S!vars <=> UNCHANGED SP!vars
  BY Zenon DEF S!vars, SP!vars
<1>7. QED
  BY <1>1, <1>2, <1>3, <1>4, <1>5, <1>6, Zenon DEF S!Next, SP!Next

-----------------------------------------------------------------------------
(***************************************************************************)
(* The invariant, and what it says of the one descriptor table.            *)
(***************************************************************************)

Inv == DP!IInv /\ RP!IInv /\ SP!IInv

\* The table is kept by what each part knows of itself and of the others.
LEMMA TableKept ==
  ASSUME Inv
  PROVE  /\ BaseFds \in Nat /\ disFds \in Nat /\ recFds \in Nat /\ requests \in Nat
         /\ reqFds \in Nat /\ pubFds \in Nat /\ subFds \in {0, 1} /\ MaxFd \in Nat
         /\ BaseFds + disFds + recFds + reqFds + pubFds + subFds <= MaxFd
<1>1. disFds \in Nat /\ recFds \in Nat /\ requests \in Nat
  BY DEF Inv, DP!IInv, DP!TypeOK
<1>2. reqFds \in Nat /\ pubFds \in Nat
  BY DEF Inv, RP!IInv, RP!TypeOK
<1>3. BaseFds \in Nat /\ MaxFd \in Nat /\ subFds \in {0, 1}
  BY SupervisorAssumption DEF subFds
<1>4. disFds + recFds + (BaseFds + reqFds + pubFds + subFds) <= MaxFd
  BY DEF Inv, DP!IInv, DP!RequestBudget, DP!InUse
<1>5. QED BY <1>1, <1>2, <1>3, <1>4

\* What is held beside a and b fits in what they leave.
LEMMA FitsBeside ==
  ASSUME NEW a \in Nat, NEW b \in Nat, NEW c \in Nat, NEW m \in Nat, a + b + c <= m
  PROVE  c \in 0 .. (m - a - b)
OBVIOUS

LEMMA InitInv == Init => Inv
BY DiscoveryAssumed, HandlerAssumed, SubscriberAssumed, SameDiscovery, SameHandler,
   SameSubscriber, DP!InitInv, RP!InitInv, SP!InitInv
   DEF Init, Inv

\* A step of the discovery threads is OthersChange for the request path.
LEMMA DiscoveryMoves ==
  ASSUME Inv, running, UNCHANGED <<running, reqVars, subVars>>, D!Next
  PROVE  Inv' /\ R!Next /\ UNCHANGED S!vars
<1>1. DP!IInv'
  BY DiscoveryAssumed, SameDiscovery, DP!InvariantKept DEF Inv
<1>2. UNCHANGED subFds /\ UNCHANGED reqVars
  BY DEF subVars, subFds
<1>3. /\ disFds' \in Nat /\ recFds' \in Nat
      /\ disFds' + recFds' + (BaseFds + reqFds + pubFds + subFds) <= MaxFd
  BY <1>1, <1>2 DEF DP!IInv, DP!TypeOK, DP!RequestBudget, DP!InUse, reqVars
<1>4. BaseFds + disFds' + recFds' + subFds' \in 0 .. (MaxFd - reqFds - pubFds)
  <2>1. BaseFds + disFds' + recFds' + subFds' \in Nat
    BY <1>2, <1>3, TableKept
  <2>2. reqFds + pubFds + (BaseFds + disFds' + recFds' + subFds') <= MaxFd
    BY <1>2, <1>3, TableKept
  <2>3. QED BY <2>1, <2>2, TableKept, FitsBeside
<1>5. R!OthersChange
  BY <1>4 DEF R!OthersChange, R!msgVars, R!sockVars, R!pubVars, reqVars
<1>6. R!Next
  BY <1>5 DEF R!Next, R!Environment
<1>7. RP!IInv'
  BY <1>6, HandlerAssumed, SameHandler, RP!InvariantKept DEF Inv
<1>8. UNCHANGED S!vars
  BY DEF subVars, S!vars, S!flags, S!session, S!messages
<1>9. SP!IInv'
  BY <1>8, SubscriberAssumed, SameSubscriber, SP!InvariantKept DEF Inv
<1>10. QED BY <1>1, <1>6, <1>7, <1>8, <1>9 DEF Inv

\* A step of the request path is OthersChange for the discovery threads.
LEMMA RequestMoves ==
  ASSUME Inv, UNCHANGED <<disVars, subFds>>, R!Next
  PROVE  DP!IInv' /\ RP!IInv' /\ D!Next
<1>1. RP!IInv'
  BY HandlerAssumed, SameHandler, RP!InvariantKept DEF Inv
<1>2. /\ reqFds' \in Nat /\ pubFds' \in Nat
      /\ reqFds' + pubFds' + (BaseFds + disFds + recFds + subFds) <= MaxFd
  BY <1>1 DEF RP!IInv, RP!TypeOK, RP!LinkCounted, disVars
<1>3. BaseFds + reqFds' + pubFds' + subFds' \in 0 .. (MaxFd - disFds - recFds)
  <2>1. BaseFds + reqFds' + pubFds' + subFds' \in Nat
    BY <1>2, TableKept
  <2>2. disFds + recFds + (BaseFds + reqFds' + pubFds' + subFds') <= MaxFd
    BY <1>2, TableKept
  <2>3. QED BY <2>1, <2>2, TableKept, FitsBeside
<1>4. D!OthersChange
  BY <1>3 DEF D!OthersChange, D!disVars, D!recVars, disVars
<1>5. D!Next
  BY <1>4 DEF D!Next
<1>6. DP!IInv'
  BY <1>5, DiscoveryAssumed, SameDiscovery, DP!InvariantKept DEF Inv
<1>7. QED BY <1>1, <1>5, <1>6

\* A step that moves neither descriptors nor the two other parts may still end
\* the process, which is a step of the request path and of the session.
LEMMA ProcessMoves ==
  ASSUME Inv, running, UNCHANGED <<disVars, reqVars, subFds>>,
         UNCHANGED running \/ running' = FALSE
  PROVE  DP!IInv' /\ RP!IInv' /\ UNCHANGED D!vars /\ [R!Next]_(R!vars)
<1>1. UNCHANGED D!vars
  BY DEF disVars, reqVars, D!vars, D!disVars, D!recVars
<1>2. [R!Next]_(R!vars)
  <2>1. CASE UNCHANGED running
    BY <2>1 DEF disVars, reqVars, R!vars, R!msgVars, R!sockVars, R!pubVars
  <2>2. CASE running' = FALSE
    <3>1. R!ProcessEnds
      BY <2>2 DEF R!ProcessEnds, disVars, reqVars, R!msgVars, R!sockVars, R!pubVars
    <3>2. QED BY <3>1 DEF R!Next, R!Environment
  <2>3. QED BY <2>1, <2>2
<1>3. DP!IInv'
  BY <1>1, DiscoveryAssumed, SameDiscovery, DP!InvariantKept DEF Inv
<1>4. RP!IInv'
  BY <1>2, HandlerAssumed, SameHandler, RP!InvariantKept DEF Inv
<1>5. QED BY <1>1, <1>2, <1>3, <1>4

\* A connection that comes up, with a descriptor to spare, or that goes is
\* OthersChange for both other parts.
LEMMA ConnectionMoves ==
  ASSUME Inv, running, UNCHANGED <<running, disVars, reqVars>>,
         subFds' = 0 \/ (Room /\ subFds' = 1 /\ subFds = 0)
  PROVE  DP!IInv' /\ RP!IInv' /\ D!Next /\ R!Next
<1> DEFINE held == BaseFds + disFds + recFds + reqFds + pubFds
<1>1. held \in Nat /\ held + subFds' <= MaxFd /\ subFds' \in Nat
  BY TableKept DEF Room
<1>2. /\ BaseFds + reqFds + pubFds + subFds' \in 0 .. (MaxFd - disFds - recFds)
      /\ BaseFds + disFds + recFds + subFds' \in 0 .. (MaxFd - reqFds - pubFds)
  <2>1. /\ disFds + recFds + (BaseFds + reqFds + pubFds + subFds') <= MaxFd
        /\ reqFds + pubFds + (BaseFds + disFds + recFds + subFds') <= MaxFd
        /\ BaseFds + reqFds + pubFds + subFds' \in Nat
        /\ BaseFds + disFds + recFds + subFds' \in Nat
    BY <1>1, TableKept
  <2>2. QED BY <2>1, TableKept, FitsBeside
<1>3. D!OthersChange
  BY <1>2 DEF D!OthersChange, D!disVars, D!recVars, disVars, reqVars
<1>4. R!OthersChange
  BY <1>2 DEF R!OthersChange, R!msgVars, R!sockVars, R!pubVars, reqVars, disVars
<1>5. D!Next /\ R!Next
  BY <1>3, <1>4 DEF D!Next, R!Next, R!Environment
<1>6. DP!IInv' /\ RP!IInv'
  BY <1>5, DiscoveryAssumed, SameDiscovery, DP!InvariantKept,
     HandlerAssumed, SameHandler, RP!InvariantKept DEF Inv
<1>7. QED BY <1>5, <1>6

\* Every step of the process is a step of each part, or none of its own, and
\* keeps the invariant of each.
LEMMA StepOfAll ==
  ASSUME Inv, [Next]_vars
  PROVE  /\ Inv'
         /\ [D!Next]_(D!vars) /\ [R!Next]_(R!vars) /\ [S!Next]_(S!vars)
<1>1. CASE Discovers \/ Receives \/ WireMoves
  <2>1. D!Next /\ running /\ UNCHANGED <<running, reqVars, subVars>>
    BY <1>1 DEF Discovers, Receives, WireMoves, Discovery, D!Next
  <2>2. QED BY <2>1, DiscoveryMoves
<1>2. CASE ParserCrashes
  <2>1. /\ running /\ running' = FALSE
        /\ UNCHANGED <<disVars, reqVars, subVars, subFds>>
    BY <1>2 DEF ParserCrashes, subFds, subVars
  <2>2. S!ProcessEnds
    BY <2>1 DEF S!ProcessEnds, S!flags, S!session, S!messages, subVars
  <2>3. S!Next
    BY <2>2 DEF S!Next
  <2>4. QED
    BY <2>1, <2>3, ProcessMoves, SubscriberAssumed, SameSubscriber, SP!InvariantKept DEF Inv
<1>3. CASE Handles \/ Acknowledged \/ NetworkMoves
  <2>1. R!Next /\ UNCHANGED <<disVars, subVars>>
    BY <1>3, Zenon DEF Handles, Acknowledged, NetworkMoves, Request, R!Next, R!Callback, R!Environment
  <2>2. UNCHANGED running
    BY <1>3 DEF Handles, Acknowledged, NetworkMoves, Request,
       R!TakeRequest, R!OpenSocket, R!LookupSucceeds, R!LookupFails, R!SendTo,
       R!SendToFails, R!ReceiveAnswer, R!ReceiveTimesOut, R!CloseSocket, R!Connect,
       R!Publish, R!PublishFails, R!WaitEnds, R!Delivered, R!LinkLost,
       R!DeviceAnswers, R!DatagramLost
  <2>3. UNCHANGED S!vars /\ UNCHANGED subFds
    BY <2>1, <2>2 DEF subVars, subFds, S!vars, S!flags, S!session, S!messages
  <2>4. QED
    BY <2>1, <2>3, RequestMoves, SubscriberAssumed, SameSubscriber, SP!InvariantKept DEF Inv
<1>4. CASE TaskRuns \/ CallsBack \/ BrokerMoves \/ Session(S!SubscribeAnswered)
  <2>1. S!Next /\ running /\ UNCHANGED <<disVars, reqVars>>
    BY <1>4 DEF TaskRuns, CallsBack, BrokerMoves, Session, S!Next, S!Callback, S!Library
  <2>2. UNCHANGED subFds
    <3>1. CASE Session(S!StartConnect)
      <4>1. subLink = "none"
        BY <3>1 DEF Session, S!StartConnect, Inv, SP!IInv, SP!NotStarted
      <4>2. QED BY <3>1, <4>1 DEF Session, S!StartConnect, subFds
    <3>2. CASE Session(S!LinkBreaks)
      BY <3>2 DEF Session, S!LinkBreaks, subFds
    <3>3. ASSUME ~ Session(S!StartConnect), ~ Session(S!LinkBreaks)
          PROVE  UNCHANGED subLink
      BY <1>4, <3>3 DEF TaskRuns, CallsBack, BrokerMoves, Session, S!Task,
         S!StartConnectFails, S!PollEnds, S!Check, S!Destroy,
         S!OnConnect, S!OnFailure, S!OnSubscribe, S!ConnLost, S!CallbackReturns,
         S!SubscribeAnswered,
         S!RequestPublished, S!flags, S!session, S!messages
    <3>4. QED BY <3>1, <3>2, <3>3 DEF subFds
  <2>3. UNCHANGED running \/ running' = FALSE
    BY <1>4 DEF TaskRuns, CallsBack, BrokerMoves, Session, S!Task,
       S!StartConnect, S!StartConnectFails, S!PollEnds, S!Check, S!Destroy,
       S!OnConnect, S!OnFailure, S!OnSubscribe, S!ConnLost, S!CallbackReturns,
         S!SubscribeAnswered,
       S!LinkBreaks, S!RequestPublished
  <2>4. QED
    BY <2>1, <2>2, <2>3, ProcessMoves, SubscriberAssumed, SameSubscriber,
       SP!InvariantKept DEF Inv
<1>5. CASE ConnectAnswered \/ Session(S!LossNoticed)
  <2>1. S!Next /\ running /\ UNCHANGED <<running, disVars, reqVars>>
    BY <1>5 DEF ConnectAnswered, Session, S!Next, S!Library, S!ConnectAnswered, S!LossNoticed
  <2>2. subFds' = 0 \/ (Room /\ subFds' = 1 /\ subFds = 0)
    BY <1>5 DEF ConnectAnswered, Session, S!ConnectAnswered, S!LossNoticed, subFds
  <2>3. QED
    BY <2>1, <2>2, ConnectionMoves, SubscriberAssumed, SameSubscriber,
       SP!InvariantKept DEF Inv
<1>6. CASE HandsOver \/ Returns \/ Exits
  <2>1. S!Next /\ R!Next /\ UNCHANGED disVars
    BY <1>6, Zenon DEF HandsOver, Returns, Exits, S!Next, S!Library, S!Callback,
       R!Next, R!Callback, R!Environment
  <2>2. UNCHANGED subFds
    BY <1>6 DEF HandsOver, Returns, Exits, S!MessageArrives, S!MsgArrvd, S!session, subFds
  <2>3. QED
    BY <2>1, <2>2, RequestMoves, SubscriberAssumed, SameSubscriber,
       SP!InvariantKept DEF Inv
<1>7. CASE UNCHANGED vars
  <2>1. UNCHANGED <<running, disVars, reqVars, subVars, subFds>>
    BY <1>7 DEF vars, subVars, subFds
  <2>2. UNCHANGED D!vars
    BY <2>1 DEF disVars, reqVars, D!vars, D!disVars, D!recVars
  <2>3. UNCHANGED R!vars
    BY <2>1 DEF disVars, reqVars, R!vars, R!msgVars, R!sockVars, R!pubVars
  <2>4. UNCHANGED S!vars
    BY <2>1 DEF subVars, S!vars, S!flags, S!session, S!messages
  <2>5. QED
    BY <2>2, <2>3, <2>4, DiscoveryAssumed, HandlerAssumed, SubscriberAssumed,
       SameDiscovery, SameHandler, SameSubscriber,
       DP!InvariantKept, RP!InvariantKept, SP!InvariantKept DEF Inv
<1>8. QED
  BY <1>1, <1>2, <1>3, <1>4, <1>5, <1>6, <1>7
     DEF Next, CallbackThread, LibraryThread, LibraryCalls

\* The invariants of the three parts hold of the process.
THEOREM Invariance == Spec => []Inv
BY InitInv, StepOfAll, PTL DEF Spec

-----------------------------------------------------------------------------
(***************************************************************************)
(* The process implements each of its parts.                               *)
(***************************************************************************)

\* The discover and the receive thread do in the process what Discovery says.
THEOREM DiscoveryImplemented == Spec => ImplementsDiscovery
<1>1. Init => D!Init
  BY DEF Init
<1>2. QED
  BY Invariance, <1>1, StepOfAll, PTL DEF Spec, ImplementsDiscovery, D!Spec

\* The request path does in the process what RequestHandler says.
THEOREM HandlerImplemented == Spec => ImplementsHandler
<1>1. Init => R!Init
  BY DEF Init
<1>2. QED
  BY Invariance, <1>1, StepOfAll, PTL DEF Spec, ImplementsHandler, R!Spec

\* The session does in the process what Subscriber says.
THEOREM SubscriberImplemented == Spec => ImplementsSubscriber
<1>1. Init => S!Init
  BY DEF Init
<1>2. QED
  BY Invariance, <1>1, StepOfAll, PTL DEF Spec, ImplementsSubscriber, S!Spec

\* The process implements its three parts: what was proved of each of them with
\* the others left open holds of the three together.
THEOREM PartsImplemented == Spec => ImplementsParts
BY DiscoveryImplemented, HandlerImplemented, SubscriberImplemented DEF ImplementsParts

-----------------------------------------------------------------------------
(***************************************************************************)
(* What was proved of each part alone, with the environment its module     *)
(* allows, holds of the part in the process.                               *)
(***************************************************************************)

\* The safety of the discovery threads, of the request path and of the
\* session, each as its module states it.
SafeParts ==
  /\ D!TableWithinArray /\ D!ReceiverReturnsSocket
  /\ R!AnswerIsOwn /\ R!SentOnceInOrder /\ R!NoneForgotten /\ R!DescriptorsReturned
  /\ S!ServiceEndsWithLoss /\ S!DestroyedAfterLoss /\ S!FailureUnnoticed

LEMMA SameSafety ==
  /\ D!TableWithinArray <=> DP!TableWithinArray
  /\ D!ReceiverReturnsSocket <=> DP!ReceiverReturnsSocket
  /\ R!AnswerIsOwn <=> RP!AnswerIsOwn
  /\ R!SentOnceInOrder <=> RP!SentOnceInOrder
  /\ R!NoneForgotten <=> RP!NoneForgotten
  /\ R!DescriptorsReturned <=> RP!DescriptorsReturned
  /\ S!ServiceEndsWithLoss <=> SP!ServiceEndsWithLoss
  /\ S!DestroyedAfterLoss <=> SP!DestroyedAfterLoss
  /\ S!FailureUnnoticed <=> SP!FailureUnnoticed
<1>1. /\ D!TableWithinArray <=> DP!TableWithinArray
      /\ D!ReceiverReturnsSocket <=> DP!ReceiverReturnsSocket
  BY Zenon DEF D!TableWithinArray, DP!TableWithinArray,
     D!ReceiverReturnsSocket, DP!ReceiverReturnsSocket
<1>2. /\ R!AnswerIsOwn <=> RP!AnswerIsOwn
      /\ R!SentOnceInOrder <=> RP!SentOnceInOrder
      /\ R!NoneForgotten <=> RP!NoneForgotten
      /\ R!DescriptorsReturned <=> RP!DescriptorsReturned
  BY Zenon DEF R!AnswerIsOwn, RP!AnswerIsOwn, R!NoAnswer, RP!NoAnswer,
     R!SentOnceInOrder, RP!SentOnceInOrder, R!NoneForgotten, RP!NoneForgotten,
     R!DescriptorsReturned, RP!DescriptorsReturned
<1>3. /\ S!ServiceEndsWithLoss <=> SP!ServiceEndsWithLoss
      /\ S!DestroyedAfterLoss <=> SP!DestroyedAfterLoss
      /\ S!FailureUnnoticed <=> SP!FailureUnnoticed
  BY Zenon DEF S!ServiceEndsWithLoss, SP!ServiceEndsWithLoss,
     S!DestroyedAfterLoss, SP!DestroyedAfterLoss, S!FailureUnnoticed, SP!FailureUnnoticed
<1>4. QED BY <1>1, <1>2, <1>3

\* The parts as their proofs name them are implemented too.
LEMMA ProofsApply == Spec => DP!Spec /\ RP!Spec /\ SP!Spec
<1>1. Init => DP!Init /\ RP!Init /\ SP!Init
  BY SameDiscovery, SameHandler, SameSubscriber DEF Init
<1>2. ASSUME Inv, [Next]_vars
      PROVE  [DP!Next]_(DP!vars) /\ [RP!Next]_(RP!vars) /\ [SP!Next]_(SP!vars)
  BY <1>2, StepOfAll, SameDiscovery, SameHandler, SameSubscriber
<1>3. QED
  BY Invariance, <1>1, <1>2, PTL DEF Spec, DP!Spec, RP!Spec, SP!Spec

\* Discovery, request path and session running in one process, over one
\* descriptor table and one exit(), each keep all the safety proved of them:
\* among others, a reply carries its own request's answer or an earlier one
\* from the same port, no request is sent twice or out of order, every request
\* taken up is replied to or its publishing connection broke, and the session
\* hands over nothing once it is lost; its client is destroyed only then, under
\* no callback but one that is returning.
THEOREM PartsAreSafe == Spec => []SafeParts
<1>1. DP!Spec => [](DP!TableWithinArray /\ DP!ReceiverReturnsSocket)
  BY DiscoveryAssumed, DP!TableSafe, DP!SocketReturned, PTL
<1>2. RP!Spec => [](/\ RP!AnswerIsOwn /\ RP!SentOnceInOrder
                    /\ RP!NoneForgotten /\ RP!DescriptorsReturned)
  BY HandlerAssumed, RP!AnswersOwn, RP!InOrder, RP!NothingForgotten, RP!DescriptorsKept, PTL
<1>3. SP!Spec => [](/\ SP!ServiceEndsWithLoss /\ SP!DestroyedAfterLoss /\ SP!FailureUnnoticed)
  BY SubscriberAssumed, SP!LossIsFinal, SP!DestroyFollowsLoss, SP!FailuresUnnoticed, PTL
<1>4. /\ DP!TableWithinArray /\ DP!ReceiverReturnsSocket
      /\ RP!AnswerIsOwn /\ RP!SentOnceInOrder
      /\ RP!NoneForgotten /\ RP!DescriptorsReturned
      /\ SP!ServiceEndsWithLoss /\ SP!DestroyedAfterLoss /\ SP!FailureUnnoticed
      => SafeParts
  BY SameSafety DEF SafeParts
<1>5. QED BY ProofsApply, <1>1, <1>2, <1>3, <1>4, PTL

\* The abstract specifications are the same under either name.
LEMMA SameRequestReply == R!ImplementsRequestReply <=> RP!ImplementsRequestReply
<1>1. R!Abstract!Init <=> RP!Abstract!Init
  BY Zenon DEF R!Abstract!Init, RP!Abstract!Init, R!Abstract!NoRequest, RP!Abstract!NoRequest
<1>2. [R!Abstract!Next]_(R!Abstract!vars) <=> [RP!Abstract!Next]_(RP!Abstract!vars)
  BY Zenon DEF R!Abstract!Next, RP!Abstract!Next, R!Abstract!vars, RP!Abstract!vars,
     R!Abstract!Arrive, RP!Abstract!Arrive, R!Abstract!Take, RP!Abstract!Take,
     R!Abstract!Ignore, RP!Abstract!Ignore, R!Abstract!Reply, RP!Abstract!Reply,
     R!Abstract!Finish, RP!Abstract!Finish, R!Abstract!Stop, RP!Abstract!Stop,
     R!Abstract!NoRequest, RP!Abstract!NoRequest, R!Abstract!Ops, RP!Abstract!Ops
<1>3. QED
  BY <1>1, <1>2, PTL DEF R!ImplementsRequestReply, RP!ImplementsRequestReply,
     R!Abstract!Spec, RP!Abstract!Spec

LEMMA SameSession == S!ImplementsSession <=> SP!ImplementsSession
<1>1. S!Abstract!Init <=> SP!Abstract!Init
  BY Zenon DEF S!Abstract!Init, SP!Abstract!Init, S!Stage, SP!Stage, S!SettingUp, SP!SettingUp
<1>2. [S!Abstract!Next]_(S!Abstract!vars) <=> [SP!Abstract!Next]_(SP!Abstract!vars)
  BY Zenon DEF S!Abstract!Next, SP!Abstract!Next, S!Abstract!vars, SP!Abstract!vars,
     S!Abstract!Serve, SP!Abstract!Serve, S!Abstract!Publish, SP!Abstract!Publish,
     S!Abstract!HandOver, SP!Abstract!HandOver, S!Abstract!Return, SP!Abstract!Return,
     S!Abstract!End, SP!Abstract!End, S!Abstract!Stop, SP!Abstract!Stop, S!Stage, SP!Stage, S!SettingUp, SP!SettingUp
<1>3. QED
  BY <1>1, <1>2, PTL DEF S!ImplementsSession, SP!ImplementsSession,
     S!Abstract!Spec, SP!Abstract!Spec

\* The process keeps the two promises of the gateway to whoever publishes a
\* request: it serves and replies as RequestReply says (in order, one at a
\* time, at most one reply, sent while the request is served), and it is there
\* to serve as Session says (once, and never again once the session is lost).
THEOREM PromisesKept == Spec => R!ImplementsRequestReply /\ S!ImplementsSession
BY ProofsApply, HandlerAssumed, SubscriberAssumed, RP!Refinement, SP!Refinement,
   SameRequestReply, SameSession, PTL

-----------------------------------------------------------------------------
(***************************************************************************)
(* What the parts' invariants say of the process.                          *)
(***************************************************************************)

\* The variables of the process have the types their parts give them.
THEOREM TypeCorrect == Spec => []TypeOK
<1>1. Inv => TypeOK
  <2> SUFFICES ASSUME Inv PROVE TypeOK
    OBVIOUS
  <2>1. D!TypeOK
    BY Zenon DEF Inv, DP!IInv, DP!TypeOK, D!TypeOK, D!Frames, DP!Frames, D!Macs, DP!Macs
  <2>2. R!TypeOK
    BY Zenon DEF Inv, RP!IInv, RP!TypeOK, R!TypeOK, R!Requests, RP!Requests, R!Ops, RP!Ops,
       R!Datagrams, RP!Datagrams
  <2>3. S!TypeOK
    BY Zenon DEF Inv, SP!IInv, SP!TypeOK, S!TypeOK, S!Places, SP!Places,
       S!Callbacks, SP!Callbacks
  <2>4. QED BY <2>1, <2>2, <2>3 DEF TypeOK
<1>2. QED BY Invariance, <1>1, PTL

\* Identify requests and failed host lookups, which each cost a descriptor for
\* good, the subscriber's connection and everything else that is open never
\* exceed the one table of the process.
THEOREM TableShared == Spec => []LeakBudget
<1>1. Inv => LeakBudget
  <2> SUFFICES ASSUME Inv PROVE LeakBudget
    OBVIOUS
  <2>1. requests <= disFds
    BY DEF Inv, DP!IInv, DP!TypeOK, DP!RequestBudget
  <2>2. leaks \in Nat /\ leaks <= reqFds
    BY DEF Inv, RP!IInv, RP!TypeOK, RP!SocketsCounted
  <2>3. subFds \in Nat
    BY DEF subFds
  <2>4. QED BY <2>1, <2>2, <2>3, TableKept DEF LeakBudget
<1>2. QED BY Invariance, <1>1, PTL

-----------------------------------------------------------------------------
(***************************************************************************)
(* The request path runs inside msgarrvd.                                  *)
(***************************************************************************)

\* msgarrvd is running exactly while there is a request to serve, and it was
\* given one.
InsideMsgarrvd ==
  /\ cb = "msgarrvd" <=> pc # "idle" \/ inbox # <<>>
  /\ inbox # <<>> => pc = "idle" /\ Len(inbox) = 1

LEMMA OneInTheInbox ==
  ASSUME NEW T, NEW s \in Seq(T), NEW e \in T, s = <<>>
  PROVE  Append(s, e) # <<>> /\ Len(Append(s, e)) = 1
OBVIOUS

LEMMA TailOfOne ==
  ASSUME NEW T, NEW s \in Seq(T), Len(s) = 1
  PROVE  Tail(s) = <<>>
<1>1. s # <<>>
  <2>1. Len(<<>>) = 0 /\ 0 # 1
    BY EmptySeq
  <2>2. QED BY <2>1, Zenon
<1>2. Tail(s) \in Seq(T) /\ Len(Tail(s)) = Len(s) - 1
  BY <1>1, HeadTailProperties
<1>3. Len(Tail(s)) = 0
  BY <1>2
<1>4. QED BY <1>2, <1>3, EmptySeq

\* Steps of the request path alone.
LEMMA InsideHandles ==
  ASSUME Inv, InsideMsgarrvd, Handles \/ Acknowledged \/ NetworkMoves
  PROVE  InsideMsgarrvd'
<1>1. UNCHANGED cb
  BY DEF Handles, Acknowledged, NetworkMoves, Request, subVars
<1>2. CASE Request(R!TakeRequest)
  <2>1. /\ inbox \in Seq(RP!Requests)
        /\ inbox # <<>> /\ inbox' = Tail(inbox) /\ pc = "idle" /\ pc' = "socket"
    BY <1>2 DEF Request, R!TakeRequest, R!Step, Inv, RP!IInv, RP!TypeOK
  <2>2. Len(inbox) = 1
    BY <2>1 DEF InsideMsgarrvd
  <2>3. inbox' = <<>>
    BY <2>1, <2>2, TailOfOne, Zenon
  <2>4. QED BY <1>1, <2>1, <2>3 DEF InsideMsgarrvd
<1>3. CASE ~ Request(R!TakeRequest)
  <2>1. UNCHANGED inbox /\ (pc' # "idle" <=> pc # "idle")
    BY <1>3 DEF Handles, Acknowledged, NetworkMoves, Request, R!Step, R!msgVars,
       R!OpenSocket, R!LookupSucceeds, R!LookupFails, R!SendTo,
       R!SendToFails, R!ReceiveAnswer, R!ReceiveTimesOut, R!CloseSocket, R!Connect,
       R!Publish, R!PublishFails, R!WaitEnds, R!Delivered, R!LinkLost,
       R!DeviceAnswers, R!DatagramLost
  <2>2. QED BY <1>1, <2>1 DEF InsideMsgarrvd
<1>4. QED BY <1>2, <1>3

\* msgarrvd begins.
LEMMA InsideHandsOver ==
  ASSUME Inv, InsideMsgarrvd, HandsOver
  PROVE  InsideMsgarrvd'
<1>1. cb = "none" /\ cb' = "msgarrvd" /\ pc' = pc
  BY DEF HandsOver, S!MessageArrives, S!Calls, R!Arrive
<1>2. pc = "idle" /\ inbox = <<>>
  BY <1>1 DEF InsideMsgarrvd
<1>3. inbox \in Seq(RP!Requests) /\ arrived \in Nat
  BY DEF Inv, RP!IInv, RP!TypeOK
<1>4. PICK op \in R!Ops : inbox' = Append(inbox, [id |-> arrived + 1, op |-> op])
  BY DEF HandsOver, R!Arrive
<1>5. [id |-> arrived + 1, op |-> op] \in RP!Requests
  BY <1>3, <1>4 DEF RP!Requests, RP!Ops, R!Ops
<1>6. inbox' # <<>> /\ Len(inbox') = 1
  BY <1>2, <1>3, <1>4, <1>5, OneInTheInbox, Zenon
<1>7. QED BY <1>1, <1>2, <1>6 DEF InsideMsgarrvd

\* msgarrvd ends, or the process does.
LEMMA InsideEnds ==
  ASSUME Inv, InsideMsgarrvd, Returns \/ Exits
  PROVE  InsideMsgarrvd'
<1>1. CASE Exits
  <2>1. UNCHANGED <<pc, inbox>> /\ cb = "msgarrvd"
    BY <1>1 DEF Exits, R!ConnectFails, R!msgVars, S!MsgArrvd
  <2>2. pc = "connect" /\ running' = FALSE
    BY <1>1 DEF Exits, R!ConnectFails
  <2>3. running /\ S!MsgArrvd
    BY <1>1 DEF Exits
  <2>4. cb' = "msgarrvd"
    BY <2>1, <2>2, <2>3 DEF S!MsgArrvd
  <2>5. QED BY <2>1, <2>2, <2>4 DEF InsideMsgarrvd
<1>2. CASE Returns
  <2>1. running /\ UNCHANGED running
    BY <1>2 DEF Returns, R!Disconnect, R!DropRequest, R!Step
  <2>2. cb = "msgarrvd" /\ cb' = "none"
    BY <1>2, <2>1 DEF Returns, S!MsgArrvd
  <2>3. inbox \in Seq(RP!Requests)
    BY DEF Inv, RP!IInv, RP!TypeOK
  <2>4. pc' = "idle" /\ inbox' = <<>>
    <3>1. CASE R!Disconnect
      BY <3>1 DEF R!Disconnect, R!Step, InsideMsgarrvd
    <3>2. CASE R!DropRequest
      <4>1. inbox # <<>> /\ pc' = "idle" /\ inbox' = Tail(inbox)
        BY <3>2 DEF R!DropRequest, R!Step
      <4>2. Len(inbox) = 1
        BY <4>1 DEF InsideMsgarrvd
      <4>3. QED BY <2>3, <4>1, <4>2, TailOfOne, Zenon
    <3>3. QED BY <1>2, <3>1, <3>2 DEF Returns
  <2>5. QED BY <2>2, <2>4 DEF InsideMsgarrvd
<1>3. QED BY <1>1, <1>2

\* The other steps of the session leave the request path at rest, and so do
\* the discovery threads.
LEMMA InsideOthers ==
  ASSUME InsideMsgarrvd,
         \/ Discovers \/ Receives \/ WireMoves \/ ParserCrashes
         \/ TaskRuns \/ BrokerMoves \/ CallsBack \/ LibraryCalls
  PROVE  InsideMsgarrvd'
<1>1. UNCHANGED <<pc, inbox>>
  BY DEF Discovers, Receives, WireMoves, ParserCrashes, TaskRuns, BrokerMoves,
     CallsBack, LibraryCalls, ConnectAnswered, Discovery, Session, reqVars
<1>2. cb' = "msgarrvd" <=> cb = "msgarrvd"
  <2>1. CASE Discovers \/ Receives \/ WireMoves \/ ParserCrashes
    BY <2>1 DEF Discovers, Receives, WireMoves, ParserCrashes, Discovery, subVars
  <2>2. CASE TaskRuns \/ BrokerMoves
    BY <2>2 DEF TaskRuns, BrokerMoves, Session, S!Task, S!StartConnect,
       S!StartConnectFails, S!PollEnds, S!Check, S!Destroy, S!LinkBreaks, S!RequestPublished
  <2>3. CASE CallsBack
    BY <2>3 DEF CallsBack, Session, S!OnConnect, S!OnFailure, S!OnSubscribe, S!ConnLost,
       S!CallbackReturns
  <2>4. CASE LibraryCalls
    BY <2>4 DEF LibraryCalls, ConnectAnswered, Session, S!Calls, S!ConnectAnswered,
       S!SubscribeAnswered, S!LossNoticed
  <2>5. QED BY <2>1, <2>2, <2>3, <2>4
<1>3. QED BY <1>1, <1>2 DEF InsideMsgarrvd

LEMMA InsideInvariance == Spec => []InsideMsgarrvd
<1>1. Init => InsideMsgarrvd
  BY DEF Init, R!Init, S!Init, InsideMsgarrvd
<1>2. Inv /\ InsideMsgarrvd /\ [Next]_vars => InsideMsgarrvd'
  <2> SUFFICES ASSUME Inv, InsideMsgarrvd, [Next]_vars PROVE InsideMsgarrvd'
    OBVIOUS
  <2>1. CASE UNCHANGED vars
    BY <2>1 DEF vars, reqVars, subVars, InsideMsgarrvd
  <2>2. QED
    BY <2>1, InsideHandles, InsideHandsOver, InsideEnds, InsideOthers, Zenon
       DEF Next, CallbackThread, LibraryThread
<1>3. QED BY Invariance, <1>1, <1>2, PTL DEF Spec

\* Whenever another callback runs, and once the session is lost or the task
\* destroys the client, no request is being served and no publishing client
\* is open.
THEOREM RequestsServedInside == Spec => []RequestsInCallback
<1>1. Inv /\ InsideMsgarrvd => RequestsInCallback
  <2> SUFFICES ASSUME Inv, InsideMsgarrvd PROVE RequestsInCallback
    OBVIOUS
  <2>1. cb = "msgarrvd" <=> pc # "idle" \/ inbox # <<>>
    BY DEF InsideMsgarrvd
  <2>2. ASSUME lost \/ task \in {"destroy", "gone"}
        PROVE  pc = "idle" /\ inbox = <<>> /\ pubFds = 0
    <3>1. cb # "msgarrvd"
      BY <2>2 DEF Inv, SP!IInv, SP!ServiceEndsWithLoss, SP!DestroyedAfterLoss
    <3>2. pc = "idle" /\ inbox = <<>>
      BY <2>1, <3>1
    <3>3. pubFds = 0
      BY <3>2 DEF Inv, RP!IInv, RP!LinkCounted
    <3>4. QED BY <3>2, <3>3
  <2>3. QED BY <2>1, <2>2 DEF RequestsInCallback
<1>2. QED BY Invariance, InsideInvariance, <1>1, PTL

-----------------------------------------------------------------------------
(***************************************************************************)
(* Discovery starves the request path.                                     *)
(***************************************************************************)

\* A request is only served while the subscriber's connection has its socket.
LEMMA ServedWithConnection ==
  ASSUME Inv, InsideMsgarrvd, pc # "idle"
  PROVE  subFds = 1
<1>1. cb = "msgarrvd"
  BY DEF InsideMsgarrvd
<1>2. ~lost /\ subscribed
  BY <1>1 DEF Inv, SP!IInv, SP!ServiceEndsWithLoss, SP!Subscribing
<1>3. subLink \in {"up", "broken"}
  BY <1>1, <1>2 DEF Inv, SP!IInv, SP!Ending
<1>4. QED BY <1>3 DEF subFds

\* What is lost stays lost.
LEMMA LeaksStay ==
  ASSUME Inv, [Next]_vars
  PROVE  /\ disFds \in Nat /\ disFds' \in Nat /\ leaks \in Nat /\ leaks' \in Nat
         /\ disFds <= disFds' /\ leaks <= leaks'
<1>1. disFds \in Nat /\ disFds' \in Nat /\ leaks \in Nat /\ leaks' \in Nat
  BY StepOfAll DEF Inv, DP!IInv, DP!TypeOK, RP!IInv, RP!TypeOK
<1>2. disFds' = disFds \/ disFds' = disFds + 1
  <2>1. [D!Next]_(D!vars)
    BY StepOfAll
  <2>2. QED
    BY <2>1 DEF D!Next, D!vars, D!disVars, D!recVars, D!Discover, D!Receive, D!Wire,
       D!DisSocket, D!DisNoBuffer, D!DisAddress, D!DisSend, D!DisWake,
       D!RecSocket, D!RecReceive, D!RecReceiveFails, D!RecHandle, D!RecClose,
       D!StationAnswers, D!StationPowersUp, D!StrayFrame, D!OthersChange
<1>3. leaks' = leaks \/ leaks' = leaks + 1
  <2>1. [R!Next]_(R!vars)
    BY StepOfAll
  <2>2. QED
    BY <2>1 DEF R!Next, R!vars, R!msgVars, R!sockVars, R!pubVars, R!Callback, R!Environment,
       R!TakeRequest, R!DropRequest, R!OpenSocket, R!LookupSucceeds, R!LookupFails,
       R!SendTo, R!SendToFails, R!ReceiveAnswer, R!ReceiveTimesOut, R!CloseSocket,
       R!Connect, R!ConnectFails, R!Publish, R!PublishFails, R!WaitEnds, R!Disconnect,
       R!Arrive, R!Delivered, R!LinkLost, R!DeviceAnswers, R!DatagramLost,
       R!OthersChange, R!ProcessEnds
<1>4. QED BY <1>1, <1>2, <1>3

\* Only Publish, which holds a descriptor beside the subscriber's, replies.
LEMMA RepliesNeedTwo ==
  ASSUME Inv, InsideMsgarrvd, [Next]_vars, replies' # replies
  PROVE  pubFds = 1 /\ subFds = 1
<1>1. [R!Next]_(R!vars)
  BY StepOfAll
<1>2. R!Publish
  BY <1>1 DEF R!Next, R!vars, R!msgVars, R!sockVars, R!pubVars, R!Callback, R!Environment,
     R!TakeRequest, R!DropRequest, R!OpenSocket, R!LookupSucceeds, R!LookupFails,
     R!SendTo, R!SendToFails, R!ReceiveAnswer, R!ReceiveTimesOut, R!CloseSocket,
     R!Connect, R!ConnectFails, R!PublishFails, R!WaitEnds, R!Disconnect,
     R!Arrive, R!Delivered, R!LinkLost, R!DeviceAnswers, R!DatagramLost,
     R!OthersChange, R!ProcessEnds
<1>3. link = "up" /\ pc = "publish"
  BY <1>2 DEF R!Publish, R!Step
<1>4. pubFds = 1
  BY <1>3 DEF Inv, RP!IInv, RP!LinkCounted
<1>5. QED BY <1>3, <1>4, ServedWithConnection

\* Once the descriptors that are lost for good have used up the table, the
\* process never publishes a reply again.
THEOREM ExhaustionSilences == Spec => NoReplyWhenExhausted
<1>1. Inv /\ InsideMsgarrvd /\ [Next]_vars
      => [Exhausted => Exhausted' /\ replies' = replies]_vars
  <2> SUFFICES ASSUME Inv, InsideMsgarrvd, [Next]_vars, Exhausted
               PROVE  Exhausted' /\ replies' = replies
    OBVIOUS
  <2>1. Exhausted'
    BY LeaksStay, TableKept DEF Exhausted
  <2>2. ASSUME replies' # replies PROVE FALSE
    <3>1. pubFds = 1 /\ subFds = 1
      BY <2>2, RepliesNeedTwo
    <3>2. leaks \in Nat /\ leaks <= reqFds
      BY DEF Inv, RP!IInv, RP!TypeOK, RP!SocketsCounted
    <3>3. QED BY <3>1, <3>2, TableKept DEF Exhausted
  <2>3. QED BY <2>1, <2>2
<1>2. QED BY Invariance, InsideInvariance, <1>1, PTL DEF Spec, NoReplyWhenExhausted

=============================================================================
