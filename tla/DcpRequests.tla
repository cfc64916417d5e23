----------------------------- MODULE DcpRequests -----------------------------
(***************************************************************************)
(* The DCP requests to one station: send_set_req, send_get_req and         *)
(* set_ip_config (dcp.c).  The three open a socket, fill a frame of 60     *)
(* bytes with one block and send it; set_ip_config first asks the operator *)
(* for three addresses.  Nothing in the program calls them: here they are  *)
(* called one after the other, in any order.                               *)
(*                                                                         *)
(* scanf stops at the first character it has no use for and leaves it for  *)
(* the next scanf.  A line is what one scanf takes of what was typed: the  *)
(* numbers it finds, up to four, and whether it leaves something at which  *)
(* every later %d stops.  The variable of a number that was not found      *)
(* keeps what the stack had there.                                         *)
(***************************************************************************)
EXTENDS PutBytes

CONSTANTS
  Lines,   \* what may be typed, see LineType
  MaxFd    \* size of the descriptor table

LineType == [numbers : Seq(Int), stuck : BOOLEAN]

ASSUME RequestsAssumption ==
  /\ \A l \in Lines : l \in LineType /\ Len(l.numbers) <= 4
  /\ MaxFd \in Nat

VARIABLES
  step,       \* where the function is; "idle" between two calls
  call,       \* the function that runs or ran last, see Set, Get, SetIp
  fds,        \* descriptors the three functions hold
  others,     \* descriptors of the rest of the process
  stuck,      \* something is left in stdin at which %d stops
  octets,     \* the bytes read by this call, up to twelve
  typed,      \* the lines this call read, in their order (history)
  deaf,       \* stdin was stuck when the call began (history)
  frame,      \* the frame in the buffer and its data_length
  leaks       \* calls that kept their descriptor (history)

sockets == <<fds, others, leaks>>
input == <<stuck, octets, typed, deaf>>

requestVars == <<step, call, sockets, input, frame>>

\* The arguments of pf_dcp_put_block, and what else tells the functions apart.
\* Set's block has a length and no value: p_value is 0.
Set   == [service |-> 4, opt |-> 1,   sub |-> 2,   length |-> 4,  asks |-> 0, closes |-> TRUE]
Get   == [service |-> 3, opt |-> 255, sub |-> 255, length |-> 0,  asks |-> 0, closes |-> TRUE]
SetIp == [service |-> 4, opt |-> 1,   sub |-> 2,   length |-> 14, asks |-> 3, closes |-> FALSE]

Functions == {Set, Get, SetIp}

\* A byte of an int that no scanf wrote.
Garbage == -1

\* The Ethernet header, the frame id and the DCP header, without their content.
Header == [i \in 1 .. 26 |-> 0]

Room == fds + others < MaxFd

RequestsInit ==
  /\ step = "idle"
  /\ call \in Functions
  /\ fds = 0
  /\ others = 0
  /\ stuck = FALSE
  /\ octets = <<>>
  /\ typed = <<>>
  /\ deaf = FALSE
  /\ frame = [bytes |-> Header, data_length |-> 0]
  /\ leaks = 0

Begin(function) ==
  /\ step = "idle"
  /\ call' = function
  /\ step' = "socket"
  /\ octets' = <<>>
  /\ typed' = <<>>
  /\ deaf' = stuck
  /\ frame' = [bytes |-> Header, data_length |-> 0]
  /\ UNCHANGED <<stuck, sockets>>

send_set_req == Begin(Set)
send_get_req == Begin(Get)
set_ip_config == Begin(SetIp)

OpenSocket ==
  /\ step = "socket" /\ Room
  /\ fds' = fds + 1
  /\ step' = "buffer"
  /\ UNCHANGED <<call, others, leaks, input, frame>>

\* No descriptor, or no right to a raw socket: "socket not created".
NoSocket ==
  /\ step = "socket"
  /\ step' = "idle"
  /\ UNCHANGED <<call, sockets, input, frame>>

\* Mutant of TakeBuffer: without a buffer the function returns at once.
TakeBufferOrReturn ==
  /\ step = "buffer"
  /\ step' \in {IF call.asks > 0 THEN "ask" ELSE "fill", "idle"}
  /\ UNCHANGED <<call, sockets, input, frame>>

\* os_buf_alloc, which may fail.
TakeBuffer ==
  /\ step = "buffer"
  /\ step' \in {IF call.asks > 0 THEN "ask" ELSE "fill", "close"}
  /\ UNCHANGED <<call, sockets, input, frame>>

\* An int is assigned to a uint8_t.
LowByte(number) == number % 256

\* The four bytes that one scanf leaves behind.
ReadOctets(numbers) ==
  [k \in 1 .. 4 |-> IF k <= Len(numbers) THEN LowByte(numbers[k]) ELSE Garbage]

\* scanf waits for a line and stops where the line makes it stop.
ReadLine ==
  /\ step = "ask" /\ ~ stuck
  /\ \E line \in Lines :
       /\ octets' = octets \o ReadOctets(line.numbers)
       /\ typed' = Append(typed, line)
       /\ stuck' = line.stuck
  /\ step' = IF Len(octets) = 4 * (call.asks - 1) THEN "fill" ELSE "ask"
  /\ UNCHANGED <<call, deaf, sockets, frame>>

\* Mutant of ReadNothing: what scanf stopped at is read away.
ReadNothingFlushed ==
  /\ step = "ask" /\ stuck
  /\ octets' = octets \o ReadOctets(<<>>)
  /\ stuck' = FALSE
  /\ step' = IF Len(octets) = 4 * (call.asks - 1) THEN "fill" ELSE "ask"
  /\ UNCHANGED <<call, typed, deaf, sockets, frame>>

\* scanf returns at once.
ReadNothing ==
  /\ step = "ask" /\ stuck
  /\ octets' = octets \o ReadOctets(<<>>)
  /\ step' = IF Len(octets) = 4 * (call.asks - 1) THEN "fill" ELSE "ask"
  /\ UNCHANGED <<call, stuck, typed, deaf, sockets, frame>>

\* perm_or_temp and the three addresses.
ip_params == <<0, 14>> \o octets

\* The block behind the header, and data_length from the header's end on.
Fill ==
  /\ step = "fill"
  /\ LET value == IF call = SetIp THEN ip_params ELSE <<>>
         bytes == pf_dcp_put_block(Header, 60, call.opt, call.sub, call.length, value)
     IN  frame' = [bytes |-> bytes, data_length |-> Len(bytes) - Len(Header)]
  /\ step' = "send"
  /\ UNCHANGED <<call, sockets, input>>

\* send may fail; nothing more is done about it.
Send ==
  /\ step = "send"
  /\ step' = "close"
  /\ UNCHANGED <<call, frame, sockets, input>>

\* close, which set_ip_config has not, and free.
Close ==
  /\ step = "close"
  /\ fds' = IF call.closes THEN fds - 1 ELSE fds
  /\ leaks' = IF call.closes THEN leaks ELSE leaks + 1
  /\ step' = "idle"
  /\ UNCHANGED <<call, others, input, frame>>

\* The rest of the process takes and returns descriptors.
OthersChange ==
  /\ others' \in 0 .. (MaxFd - fds)
  /\ UNCHANGED <<step, call, fds, leaks, input, frame>>

\* A call that has begun, except for the line it may wait for.
Works == OpenSocket \/ NoSocket \/ TakeBuffer \/ ReadNothing \/ Fill \/ Send \/ Close

RequestsNext ==
  \/ send_set_req \/ send_get_req \/ set_ip_config
  \/ Works \/ ReadLine \/ OthersChange

RequestsSpec == RequestsInit /\ [][RequestsNext]_requestVars

-----------------------------------------------------------------------------

\* Types of the variables.
RequestsTypeOK ==
  /\ step \in {"idle", "socket", "buffer", "ask", "fill", "send", "close"}
  /\ call \in Functions
  /\ fds \in 0 .. MaxFd /\ others \in 0 .. MaxFd /\ leaks \in 0 .. MaxFd
  /\ stuck \in BOOLEAN /\ deaf \in BOOLEAN
  /\ octets \in Seq(Byte \cup {Garbage}) /\ Len(octets) \in {0, 4, 8, 12}
  /\ typed \in Seq(Lines)
  /\ frame.bytes \in Seq(Byte \cup {Garbage}) /\ Len(frame.bytes) <= 60
  /\ frame.data_length \in Nat

\* The functions hold the socket of the call that runs, and one for every call
\* of set_ip_config that got as far as opening its own: nothing else stays open,
\* whichever step failed.
SocketsAccounted ==
  fds = leaks + (IF step \in {"idle", "socket"} THEN 0 ELSE 1)

\* The block's length in the frame that is sent.
BlockLength == Word(frame.bytes[Len(Header) + 3], frame.bytes[Len(Header) + 4])

\* The frame's only block ends where data_length says that the data end, in the
\* frames of send_get_req and set_ip_config.  send_set_req claims four bytes more
\* than it has put: p_value is 0 and the length is not.
BlockFillsData ==
  step = "send" =>
    frame.data_length = 4 + (IF call = Set THEN BlockLength - 4 ELSE BlockLength)

\* The k-th number that this call asks for: its line, its place in the line,
\* whether it was typed, and what it is.
LineOf(k) == ((k - 1) \div 4) + 1
PlaceOf(k) == ((k - 1) % 4) + 1
IsTyped(k) == LineOf(k) <= Len(typed) /\ PlaceOf(k) <= Len(typed[LineOf(k)].numbers)
Number(k) == typed[LineOf(k)].numbers[PlaceOf(k)]

\* What a frame of set_ip_config carries is what was typed, number for number,
\* modulo 256; where nothing was read it carries what was on the stack.  Nothing is
\* taken from another line or another place, and once something sticks in stdin
\* no later call reads anything: it sends twelve bytes of the stack.
CarriesWhatWasRead ==
  step = "send" /\ call = SetIp =>
    /\ \A k \in 1 .. 12 :
         frame.bytes[Len(Header) + 6 + k] =
           IF IsTyped(k) THEN Number(k) % 256 ELSE Garbage
    /\ deaf => \A k \in 1 .. 12 : ~ IsTyped(k)

=============================================================================
