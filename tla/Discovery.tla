------------------------------ MODULE Discovery ------------------------------
(***************************************************************************)
(* The discovery half of the supervisor: the thread that multicasts DCP    *)
(* identify requests (discover, discover_devices) and the thread that      *)
(* listens for PROFINET frames (recieve, recieve_profinet_packets), with   *)
(* the table of known devices, the packet socket that is opened anew for   *)
(* every frame, and the descriptor table the process has one of.           *)
(*                                                                         *)
(* The two threads share no variable of the program.  They meet in the     *)
(* kernel: both take descriptors from the same table, and a frame reaches  *)
(* the receiver only while its socket is open.                             *)
(***************************************************************************)
EXTENDS Integers, Sequences

CONSTANTS
  Stations,     \* source addresses of the PROFINET stations on the wire
  McAddr,       \* dcp_mc_address, 01:0e:cf:00:00:00
  StrayFrames,  \* other frames the wire may carry
  MaxFd,        \* RLIMIT_NOFILE: descriptors the process may hold
  QueueCap,     \* frames the kernel keeps for one packet socket
  NoFrame       \* the receiver's buffer before recvfrom fills it

\* The codes of profinet.h (0xfefc, 0xfeff, ...), in decimal.
PF_DCP_SERVICE_IDENTIFY     == 5
PF_DCP_SERVICE_HELLO        == 6
PF_DCP_SERVICE_TYPE_REQUEST == 0
PF_DCP_SERVICE_TYPE_SUCCESS == 1
PF_DCP_HELLO_FRAME_ID       == 65276
PF_DCP_ID_RES_FRAME_ID      == 65279

Macs == Stations \cup {McAddr}

\* What the receiver looks at in a frame; the payload is left to the parser.
Frames == [frame_id : Nat, service_id : Nat, service_type : Nat, src : Macs]

Frame(id, service, type, mac) ==
  [frame_id |-> id, service_id |-> service, service_type |-> type, src |-> mac]

\* What a station answers to an identify request, and what it multicasts
\* when it powers up.
IdentifyResponse(m) == Frame(PF_DCP_ID_RES_FRAME_ID, PF_DCP_SERVICE_IDENTIFY,
                             PF_DCP_SERVICE_TYPE_SUCCESS, m)
Hello(m) == Frame(PF_DCP_HELLO_FRAME_ID, PF_DCP_SERVICE_HELLO,
                  PF_DCP_SERVICE_TYPE_REQUEST, m)

ASSUME DiscoveryAssumption ==
  /\ McAddr \notin Stations
  /\ StrayFrames \subseteq Frames
  /\ NoFrame \notin Frames
  /\ MaxFd \in Nat
  /\ QueueCap \in Nat \ {0}

VARIABLES
  dis,        \* where the discover thread is
  burst,      \* which of the two discover_devices calls of a round
  srcAddr,    \* dcp_src_address: the compiled-in dummy, or the machine's
  disFds,     \* descriptors discover_devices opened and did not close
  requests,   \* identify requests sent so far (history)
  rec,        \* where the receive thread is
  recFds,     \* descriptors the receive thread holds
  queue,      \* frames the kernel holds for the receiver's socket
  frame,      \* the frame in the receiver's buffer
  devices,    \* the rows of devices[][6]; device_count is its length
  announced,  \* addresses reported as "new device found" (history)
  owed,       \* stations that heard a request and have not answered
  others      \* descriptors the rest of the process holds

disVars == <<dis, burst, srcAddr, disFds, requests>>
recVars == <<rec, recFds, frame, devices, announced>>
vars == <<disVars, recVars, queue, owed, others>>

InUse == disFds + recFds + others

Room == InUse < MaxFd

\* int check(uint8_t mac[])
check(mac) == \E i \in 1 .. Len(devices) : devices[i] = mac

Init ==
  /\ dis = "socket" /\ burst = 1 /\ srcAddr = "dummy"
  /\ disFds = 0 /\ requests = 0
  /\ rec = "socket" /\ recFds = 0 /\ queue = <<>> /\ frame = NoFrame
  /\ devices = <<>> /\ announced = {} /\ owed = {}
  /\ others \in 0 .. MaxFd

(***************************************************************************)
(* The discover thread.                                                    *)
(***************************************************************************)

\* Mutant of EndOfCall: the second call is not the last one of the round.
EndOfCallOffByOne ==
  \/ burst <= 2 /\ burst' = burst + 1 /\ dis' = "socket"
  \/ burst = 3 /\ burst' = 1 /\ dis' = "sleep"

\* discover_devices returns: discover calls it a second time, then sleeps.
EndOfCall ==
  \/ burst = 1 /\ burst' = 2 /\ dis' = "socket"
  \/ burst = 2 /\ burst' = 1 /\ dis' = "sleep"

DisSocket ==
  /\ dis = "socket"
  /\ \/ Room /\ disFds' = disFds + 1 /\ dis' = "address" /\ UNCHANGED burst
     \/ ~Room /\ EndOfCall /\ UNCHANGED disFds     \* "socket not created"
  /\ UNCHANGED <<srcAddr, requests, recVars, queue, owed, others>>

\* os_buf_alloc returns NULL ("buffer is null"): the socket stays open.
DisNoBuffer ==
  /\ dis = "address"
  /\ EndOfCall
  /\ UNCHANGED <<srcAddr, disFds, requests, recVars, queue, owed, others>>

\* While the source address is the dummy one, a second socket asks the
\* interface for its own; this socket is never closed either.
DisAddress ==
  /\ dis = "address"
  /\ dis' = "send"
  /\ \/ srcAddr = "dummy" /\ Room
        /\ disFds' = disFds + 1
        /\ srcAddr' \in {"dummy", "machine"}
     \/ (srcAddr = "machine" \/ ~Room) /\ UNCHANGED <<srcAddr, disFds>>
  /\ UNCHANGED <<burst, requests, recVars, queue, owed, others>>

\* Mutant of DisSend: the frame is sent again for as long as send succeeds.
DisSendRepeats ==
  /\ dis = "send"
  /\ requests <= MaxFd
  /\ \/ requests' = requests + 1 /\ UNCHANGED <<dis, burst, owed>>
     \/ EndOfCall /\ UNCHANGED <<requests, owed>>
  /\ UNCHANGED <<srcAddr, disFds, recVars, queue, others>>

\* send: the frame goes out and some stations hear it, or it does not.
DisSend ==
  /\ dis = "send"
  /\ EndOfCall
  /\ \/ /\ requests' = requests + 1
        /\ \E heard \in SUBSET Stations : owed' = owed \cup heard
     \/ UNCHANGED <<requests, owed>>
  /\ UNCHANGED <<srcAddr, disFds, recVars, queue, others>>

\* sleep(request_interval)
DisWake ==
  /\ dis = "sleep"
  /\ dis' = "socket"
  /\ UNCHANGED <<burst, srcAddr, disFds, requests, recVars, queue, owed, others>>

Discover == DisSocket \/ DisNoBuffer \/ DisAddress \/ DisSend \/ DisWake

(***************************************************************************)
(* The receive thread.                                                     *)
(***************************************************************************)

\* Without a free descriptor socket() fails, nothing changes and the thread
\* tries again at once.
RecSocket ==
  /\ rec = "socket"
  /\ Room
  /\ rec' = "recvfrom"
  /\ recFds' = recFds + 1
  /\ UNCHANGED <<frame, devices, announced, disVars, queue, owed, others>>

RecReceive ==
  /\ rec = "recvfrom"
  /\ queue # <<>>
  /\ frame' = Head(queue)
  /\ queue' = Tail(queue)
  /\ rec' = "handle"
  /\ UNCHANGED <<recFds, devices, announced, disVars, owed, others>>

\* recvfrom fails, as it does once when an interface goes down.
RecReceiveFails ==
  /\ rec = "recvfrom"
  /\ rec' = "close"
  /\ UNCHANGED <<recFds, frame, devices, announced, disVars, queue, owed, others>>

\* The condition under which a device is taken for one that answered an
\* identify request and is not in the table.
IsNewDevice(f) ==
  /\ f.frame_id = PF_DCP_ID_RES_FRAME_ID
  /\ f.service_id = PF_DCP_SERVICE_IDENTIFY
  /\ f.service_type = PF_DCP_SERVICE_TYPE_SUCCESS
  /\ ~check(f.src)

\* Mutant of IsBackToPower: a hello from any station will do.
IsBackToPowerFromAnyone(f) ==
  /\ f.service_id = PF_DCP_SERVICE_HELLO
  /\ ~check(f.src)

\* The condition under which a device is taken for one that came back to
\* power.  It compares the frame id with a service id, and the SOURCE of the
\* frame with the multicast address.
IsBackToPower(f) ==
  /\ f.frame_id = PF_DCP_SERVICE_HELLO
  /\ f.service_id = PF_DCP_SERVICE_HELLO
  /\ f.service_type = PF_DCP_SERVICE_TYPE_SUCCESS
  /\ f.src = McAddr
  /\ ~check(f.src)

\* void addDevice(uint8_t mac[]): the table after the call.
addDevice(mac) == IF check(mac) THEN devices ELSE Append(devices, mac)

RecHandle ==
  /\ rec = "handle"
  /\ rec' = "close"
  /\ announced' = IF IsNewDevice(frame) THEN announced \cup {frame.src} ELSE announced
  /\ devices' = IF IsBackToPower(frame) THEN addDevice(frame.src) ELSE devices
  /\ UNCHANGED <<recFds, frame, disVars, queue, owed, others>>

\* Mutant of RecClose: the function returns without closing the socket.
RecCloseForgotten ==
  /\ rec = "close"
  /\ rec' = "socket"
  /\ queue' = <<>>
  /\ frame' = NoFrame
  /\ UNCHANGED <<recFds, devices, announced, disVars, owed, others>>

\* Mutant of RecClose: the socket is closed only if nothing is left in it.
RecCloseWhenDrained ==
  /\ rec = "close"
  /\ queue = <<>>
  /\ rec' = "socket"
  /\ recFds' = recFds - 1
  /\ frame' = NoFrame
  /\ UNCHANGED <<devices, announced, disVars, queue, owed, others>>

\* close(sock_r): what the kernel still held for the socket is gone.
RecClose ==
  /\ rec = "close"
  /\ rec' = "socket"
  /\ recFds' = recFds - 1
  /\ queue' = <<>>
  /\ frame' = NoFrame
  /\ UNCHANGED <<devices, announced, disVars, owed, others>>

Receive == RecSocket \/ RecReceive \/ RecReceiveFails \/ RecHandle \/ RecClose

(***************************************************************************)
(* The wire, and the other descriptors of the process.                     *)
(***************************************************************************)

\* A frame arrives at the host: it is kept for an open socket with room.
Arrives(f) ==
  queue' = IF recFds > 0 /\ Len(queue) < QueueCap THEN Append(queue, f) ELSE queue

StationAnswers(m) ==
  /\ m \in owed
  /\ owed' = owed \ {m}
  /\ \/ Arrives(IdentifyResponse(m))
     \/ UNCHANGED queue                    \* lost on the wire
  /\ UNCHANGED <<disVars, recVars, others>>

StationPowersUp(m) ==
  /\ Arrives(Hello(m))
  /\ UNCHANGED <<disVars, recVars, owed, others>>

StrayFrame ==
  /\ \E f \in StrayFrames : Arrives(f)
  /\ UNCHANGED <<disVars, recVars, owed, others>>

Wire ==
  \/ \E m \in Stations : StationAnswers(m) \/ StationPowersUp(m)
  \/ StrayFrame

OthersChange ==
  /\ others' \in 0 .. (MaxFd - disFds - recFds)
  /\ UNCHANGED <<disVars, recVars, queue, owed>>

Next == Discover \/ Receive \/ Wire \/ OthersChange

\* The scheduler runs both threads; the wire promises nothing.
Fairness == WF_vars(Discover) /\ WF_vars(Receive)

Spec == Init /\ [][Next]_vars

FairSpec == Spec /\ Fairness

-----------------------------------------------------------------------------
(***************************************************************************)
(* Safety.                                                                 *)
(***************************************************************************)

\* Types of the variables.
TypeOK ==
  /\ dis \in {"socket", "address", "send", "sleep"}
  /\ burst \in {1, 2}
  /\ srcAddr \in {"dummy", "machine"}
  /\ disFds \in Nat /\ recFds \in Nat /\ others \in Nat /\ requests \in Nat
  /\ rec \in {"socket", "recvfrom", "handle", "close"}
  /\ queue \in Seq(Frames)
  /\ frame \in Frames \cup {NoFrame}
  /\ rec = "handle" => frame \in Frames
  /\ devices \in Seq(Macs)
  /\ announced \subseteq Macs
  /\ owed \subseteq Stations

\* devices[][6]={0} is an array of ONE row and addDevice checks no bound: a
\* second row would overwrite device_count.  The table stays inside the array
\* whatever frames arrive, because the only branch that calls addDevice
\* accepts one source address (dcp.c:217) and check() refuses it the second
\* time.
TableWithinArray == Len(devices) <= 1

\* The receive thread holds exactly one descriptor between socket() and
\* close() and none outside: handling a frame never costs one, although it
\* opens a socket per frame.
ReceiverReturnsSocket ==
  recFds = IF rec = "socket" THEN 0 ELSE 1

\* Every identify request ever sent, and the address lookup, cost a
\* descriptor of the process for good, so the number of requests the process
\* can send in its life is bounded by the size of the descriptor table.
RequestBudget ==
  /\ requests + (IF srcAddr = "machine" THEN 1 ELSE 0)
       + (IF dis \in {"address", "send"} THEN 1 ELSE 0) <= disFds
  /\ InUse <= MaxFd

(***************************************************************************)
(* Liveness.                                                               *)
(***************************************************************************)

\* An identify response at the head of the receiver's queue is reported,
\* unless recvfrom fails over it, whatever was received before: nothing that
\* arrives brings a station into the table, where check() would silence it.
AnswerReported ==
  \A m \in Stations :
    (rec = "recvfrom" /\ queue # <<>> /\ Head(queue) = IdentifyResponse(m))
      ~> (m \in announced \/ (rec = "close" /\ frame = NoFrame))

\* The receive thread is back at its socket again and again, unless the
\* descriptor table is full each time it tries: no frame can hold it.
ReceiverListens == []<>(rec = "recvfrom" \/ (rec = "socket" /\ ~Room))

(***************************************************************************)
(* What the comments and the configuration say and the code does not do.   *)
(***************************************************************************)

\* config:4 IDENT_REQ_TIMEOUT 5: the discover thread is at sending an identify
\* request again and again, even when nothing else in the process takes a
\* descriptor.
IdentifyGoesOn == [](others = 0) => []<>(dis = "send")

\* dcp.c:216 "an old device that went off power and has come online again will
\* pass a hello request and we add it to the list too": when the hello request of
\* a station has been handled, the station is in the table.
HelloAddsDevice ==
  [][\A m \in Stations :
       rec = "handle" /\ frame = Hello(m) /\ rec' = "close" => check(m)']_vars

=============================================================================
