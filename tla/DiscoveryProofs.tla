--------------------------- MODULE DiscoveryProofs ---------------------------
(***************************************************************************)
(* Proofs about Discovery, for every set of stations, every frame the wire *)
(* may carry, every size of the descriptor table and of the socket queue.  *)
(*                                                                         *)
(* The invariant that is inductive is IInv.  The four invariants that TLC  *)
(* checks need each other: closing the receiver's socket keeps recFds a    *)
(* natural number only because the receiver holds one descriptor then, and *)
(* the table is bounded only because its one possible row is known.        *)
(***************************************************************************)
EXTENDS Discovery, TLAPS

\* The only address that can be in the table is the multicast address, once.
TableHoldsMcAddr == devices = <<>> \/ devices = <<McAddr>>

IInv == TypeOK /\ ReceiverReturnsSocket /\ RequestBudget /\ TableHoldsMcAddr

\* What a station sends is a frame.
LEMMA StationFrames ==
  ASSUME NEW m \in Stations
  PROVE  IdentifyResponse(m) \in Frames /\ Hello(m) \in Frames
BY DEF IdentifyResponse, Hello, Frame, Frames, Macs, PF_DCP_SERVICE_IDENTIFY,
       PF_DCP_SERVICE_HELLO, PF_DCP_SERVICE_TYPE_REQUEST,
       PF_DCP_SERVICE_TYPE_SUCCESS, PF_DCP_HELLO_FRAME_ID, PF_DCP_ID_RES_FRAME_ID

\* The kernel's queue keeps its type when a frame arrives.
LEMMA ArrivalKeepsQueue ==
  ASSUME NEW f \in Frames, queue \in Seq(Frames), Arrives(f)
  PROVE  queue' \in Seq(Frames)
BY DEF Arrives

\* The one address that addDevice accepts is refused the second time.
LEMMA HandleKeepsTable ==
  ASSUME TableHoldsMcAddr, RecHandle
  PROVE  TableHoldsMcAddr'
<1>1. CASE IsBackToPower(frame)
  <2>1. frame.src = McAddr /\ ~check(McAddr)
    BY <1>1 DEF IsBackToPower
  <2>2. devices = <<>>
    <3>1. devices = <<McAddr>> => check(McAddr)
      BY DEF check
    <3>2. QED BY <2>1, <3>1 DEF TableHoldsMcAddr
  <2>3. devices' = Append(<<>>, McAddr)
    BY <1>1, <2>1, <2>2 DEF RecHandle, addDevice
  <2>4. QED BY <2>3 DEF TableHoldsMcAddr
<1>2. CASE ~IsBackToPower(frame)
  BY <1>2 DEF RecHandle, TableHoldsMcAddr
<1>3. QED BY <1>1, <1>2

\* Every initial state is in the invariant.
LEMMA InitInv == Init => IInv
<1> SUFFICES ASSUME Init PROVE IInv
  OBVIOUS
<1>1. TypeOK
  BY DiscoveryAssumption DEF Init, TypeOK
<1>2. ReceiverReturnsSocket
  BY DEF Init, ReceiverReturnsSocket
<1>3. RequestBudget
  BY DiscoveryAssumption DEF Init, RequestBudget, InUse
<1>4. TableHoldsMcAddr
  BY DEF Init, TableHoldsMcAddr
<1>5. QED BY <1>1, <1>2, <1>3, <1>4 DEF IInv

\* A step of the discover thread keeps the invariant: it takes a descriptor
\* before it sends a request, and never gives it back.
LEMMA DiscoverStep ==
  ASSUME IInv, Discover
  PROVE  IInv'
<1> USE DiscoveryAssumption
<1>1. ReceiverReturnsSocket' /\ TableHoldsMcAddr' /\ queue' = queue /\ others' = others
       /\ UNCHANGED recVars
  BY DEF IInv, Discover, DisSocket, DisNoBuffer, DisAddress, DisSend, DisWake,
         recVars, ReceiverReturnsSocket, TableHoldsMcAddr
<1>2. CASE DisSocket
  BY <1>1, <1>2 DEF IInv, DisSocket, EndOfCall, TypeOK, RequestBudget, InUse, Room, recVars
<1>3. CASE DisNoBuffer
  BY <1>1, <1>3 DEF IInv, DisNoBuffer, EndOfCall, TypeOK, RequestBudget, InUse, recVars
<1>4. CASE DisAddress
  BY <1>1, <1>4 DEF IInv, DisAddress, TypeOK, RequestBudget, InUse, Room, recVars
<1>5. CASE DisSend
  BY <1>1, <1>5 DEF IInv, DisSend, EndOfCall, TypeOK, RequestBudget, InUse, recVars
<1>6. CASE DisWake
  BY <1>1, <1>6 DEF IInv, DisWake, TypeOK, RequestBudget, InUse, recVars
<1>7. QED BY <1>2, <1>3, <1>4, <1>5, <1>6 DEF Discover

\* A step of the receive thread keeps the invariant.
LEMMA ReceiveStep ==
  ASSUME IInv, Receive
  PROVE  IInv'
<1> USE DiscoveryAssumption
<1>1. CASE RecSocket
  BY <1>1 DEF IInv, RecSocket, TypeOK, ReceiverReturnsSocket, RequestBudget,
     TableHoldsMcAddr, InUse, Room, disVars
<1>2. CASE RecReceive
  BY <1>2 DEF IInv, RecReceive, TypeOK, ReceiverReturnsSocket, RequestBudget,
     TableHoldsMcAddr, InUse, disVars
<1>3. CASE RecReceiveFails
  BY <1>3 DEF IInv, RecReceiveFails, TypeOK, ReceiverReturnsSocket, RequestBudget,
     TableHoldsMcAddr, InUse, disVars
<1>4. CASE RecHandle
  <2>1. TableHoldsMcAddr'
    BY <1>4, HandleKeepsTable DEF IInv
  <2>2. frame \in Frames /\ frame.src \in Macs
    BY <1>4 DEF IInv, RecHandle, TypeOK, Frames
  <2>3. devices' \in Seq(Macs)
    <3>1. <<>> \in Seq(Macs) /\ <<McAddr>> \in Seq(Macs)
      BY DEF Macs
    <3>2. QED BY <2>1, <3>1 DEF TableHoldsMcAddr
  <2>4. TypeOK'
    BY <1>4, <2>2, <2>3 DEF IInv, RecHandle, TypeOK, disVars
  <2>5. ReceiverReturnsSocket' /\ RequestBudget'
    BY <1>4 DEF IInv, RecHandle, ReceiverReturnsSocket, RequestBudget, InUse, disVars
  <2>6. QED BY <2>1, <2>4, <2>5 DEF IInv
<1>5. CASE RecClose
  BY <1>5 DEF IInv, RecClose, TypeOK, ReceiverReturnsSocket, RequestBudget,
     TableHoldsMcAddr, InUse, disVars
<1>6. QED BY <1>1, <1>2, <1>3, <1>4, <1>5 DEF Receive

\* The wire touches only the kernel's queue and who owes an answer.
LEMMA WireStep ==
  ASSUME IInv, Wire
  PROVE  IInv'
<1>1. UNCHANGED <<disVars, recVars, others>>
  BY DEF Wire, StationAnswers, StationPowersUp, StrayFrame
<1>2. queue' \in Seq(Frames) /\ owed' \subseteq Stations
  <2>1. ASSUME NEW m \in Stations, StationAnswers(m)
        PROVE  queue' \in Seq(Frames) /\ owed' \subseteq Stations
    BY <2>1, StationFrames, ArrivalKeepsQueue DEF IInv, TypeOK, StationAnswers
  <2>2. ASSUME NEW m \in Stations, StationPowersUp(m)
        PROVE  queue' \in Seq(Frames) /\ owed' \subseteq Stations
    BY <2>2, StationFrames, ArrivalKeepsQueue DEF IInv, TypeOK, StationPowersUp
  <2>3. ASSUME StrayFrame
        PROVE  queue' \in Seq(Frames) /\ owed' \subseteq Stations
    <3>1. PICK f \in StrayFrames : Arrives(f)
      BY <2>3 DEF StrayFrame
    <3>2. f \in Frames
      BY DiscoveryAssumption
    <3>3. QED BY <2>3, <3>1, <3>2, ArrivalKeepsQueue DEF IInv, TypeOK, StrayFrame
  <2>4. QED BY <2>1, <2>2, <2>3 DEF Wire
<1>3. QED
  BY <1>1, <1>2 DEF IInv, TypeOK, ReceiverReturnsSocket, RequestBudget,
     TableHoldsMcAddr, InUse, disVars, recVars

\* What is taken out of a rest fits with what was there.
LEMMA FitsInTheRest ==
  ASSUME NEW a \in Nat, NEW b \in Nat, NEW c \in Int, NEW m \in Nat, 0 <= c, c <= m - a - b
  PROVE  c \in Nat /\ a + b + c <= m
OBVIOUS

\* The rest of the process takes what the two threads leave.
LEMMA OthersStep ==
  ASSUME IInv, OthersChange
  PROVE  IInv'
<1>1. disFds \in Nat /\ recFds \in Nat /\ MaxFd \in Nat
  BY DiscoveryAssumption DEF IInv, TypeOK
<1>2. others' \in Nat /\ disFds + recFds + others' <= MaxFd
  <2>1. others' \in 0 .. (MaxFd - disFds - recFds)
    BY DEF OthersChange
  <2>2. MaxFd - disFds - recFds \in Int
    BY <1>1
  <2>3. others' \in Int /\ 0 <= others' /\ others' <= MaxFd - disFds - recFds
    BY <2>1, <2>2
  <2>4. QED BY <1>1, <2>3, FitsInTheRest
<1>3. QED
  BY <1>2 DEF IInv, OthersChange, TypeOK, ReceiverReturnsSocket, RequestBudget,
     TableHoldsMcAddr, InUse, disVars, recVars

LEMMA InvariantKept ==
  ASSUME IInv, [Next]_vars
  PROVE  IInv'
<1>1. CASE UNCHANGED vars
  BY <1>1 DEF IInv, TypeOK, ReceiverReturnsSocket, RequestBudget, TableHoldsMcAddr,
     InUse, vars, disVars, recVars
<1>2. QED
  BY <1>1, DiscoverStep, ReceiveStep, WireStep, OthersStep DEF Next

\* The invariant of Discovery: TypeOK, ReceiverReturnsSocket, RequestBudget
\* and what the table can hold are kept by every step.
THEOREM Invariance == Spec => []IInv
BY InitInv, InvariantKept, PTL DEF Spec

\* Every variable of the two threads keeps its type.
THEOREM TypeCorrect == Spec => []TypeOK
<1>1. IInv => TypeOK
  BY DEF IInv
<1>2. QED BY Invariance, <1>1, PTL

\* addDevice never writes outside devices[][6], the array of one row, for any
\* frames on the wire.
THEOREM TableSafe == Spec => []TableWithinArray
<1>1. IInv => TableWithinArray
  <2>1. Len(<<>>) = 0 /\ Len(<<McAddr>>) = 1
    OBVIOUS
  <2>2. CASE devices = <<>>
    BY <2>1, <2>2 DEF TableWithinArray
  <2>3. CASE devices = <<McAddr>>
    BY <2>1, <2>3 DEF TableWithinArray
  <2>4. QED BY <2>2, <2>3 DEF IInv, TableHoldsMcAddr
<1>2. QED BY Invariance, <1>1, PTL

\* recieve_profinet_packets returns every descriptor it takes.
THEOREM SocketReturned == Spec => []ReceiverReturnsSocket
<1>1. IInv => ReceiverReturnsSocket
  BY DEF IInv
<1>2. QED BY Invariance, <1>1, PTL

\* However long the process runs, it sends at most as many identify requests
\* as its descriptor table has entries.
THEOREM BudgetKept == Spec => [](RequestBudget /\ requests <= MaxFd)
<1>1. IInv => RequestBudget /\ requests <= MaxFd
  BY DiscoveryAssumption DEF IInv, TypeOK, RequestBudget, InUse
<1>2. QED BY Invariance, <1>1, PTL

=============================================================================
