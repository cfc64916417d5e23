# A verification development of the PROFINET supervisor

The program is a gateway between a PROFINET segment and an MQTT broker. It
announces itself on the wire with DCP identify requests, listens for the
stations' answers, and serves read and write requests that arrive as MQTT
messages by exchanging PROFINET IO packets with a device over UDP.

This directory holds TLA+ modules translated from `src/`, TLC configurations
that check them on small instances, and TLAPS proofs of their invariants for
every value of the constants. `PROJECT.json` is the index: components, runs,
mutants, the source lines of every definition, findings, hazards, theorems.

## 1. Inventory

`main` (profinet.c:61) reads the configuration and starts three threads; the
MQTT libraries start more.

| Component | State it keeps | Operations | What is hard, what must hold |
|---|---|---|---|
| Identify sender: `discover`, `discover_devices` | `dcp_src_address`; one or two sockets per call | open socket, find own address, build the frame, send | it never closes a socket: how long does it live, what does it take from the others |
| DCP receiver: `recieve`, `recieve_profinet_packets` | a socket and a buffer per frame | open, receive, classify, close | frames between two sockets; no descriptor left; must come back to its socket |
| Device table: `devices`, `device_count`, `check`, `addDevice` | an array of **one** row | look up, append without bound check | must not be written past its row; who can get into it |
| Block parser: `extract_blocks_from_packet` | index and pointer into a copy of the payload | one step per block | the two drift apart; signed lengths; reads past the end |
| Block writer: `pf_put_*`, `pf_dcp_put_block`, `os_buf_alloc` | position in a buffer | put bytes, a block, padding | never past the end; the padding loop ends; length field and contents agree |
| Request path: `msgarrvd`, `mqtt_msg_hdlr`, `send_read_IO_Packet`, `send_write_IO_Packet`, `mqtt_pub` | the request, a UDP socket, the response, a publishing client with `deliveredtoken` | parse, dispatch, exchange, publish, wait, disconnect | late and lost answers, every call may fail, waits without limit; one reply per request, its own answer; texts and lengths against the buffers they go to |
| Subscriber session: `create_mqtt_task`, `connlost`, `onConnect`, ... | `subscribed`, `finished`, `disc_finished` | connect, subscribe, poll, "reconnect", destroy | a failure sets `finished`, which is looked at once and too late; reconnecting with a NULL client |
| Address pool: Device_list.c | list of devices, next free address | add, assign, look up | distinct addresses, the end of the pool, the gateway's own address (no caller in the program) |
| Device list: MainApp.c | `top`, always NULL | `findDeviceByMAC` | only ever returns 0, since nothing adds to it |
| Interactive DCP get/set/IP configuration | stdin, a socket and a buffer per call | `send_set_req`, `send_get_req`, `set_ip_config`, `createNewDevice` | what scanf leaves behind, which call keeps its socket, lengths that claim more than is there (no caller in the program) |
| Configuration: `read_configurations` | `request_interval`, `interface_name` | parse lines | repeated, missing and malformed settings, with which the threads then start |
| `getMyIP` | - | ask the interface `enp2s0`, whatever the configuration says | copies an address without a bound |

How they interact: the threads share no variable of the program. They meet in
the kernel (one descriptor table, frames that reach only an open socket), in
the MQTT library (its callback thread runs the whole request path, so that one
slow request holds up all the others) and in `exit`, which any failing
publication calls and which ends everything. `Supervisor` is about exactly this.

The hard behaviours, each with its line, are the `hazards` of `PROJECT.json`.

## 2. The modules

    Supervisor ── INSTANCE ──> Discovery
               ├─ INSTANCE ──> RequestHandler ── implements ──> RequestReply
               └─ INSTANCE ──> Subscriber     ── implements ──> Session
    BlockWriter, DcpRequests ── EXTENDS ──> PutBytes
    BlockParser   Codec   DeviceList   Configuration

Each `MC` module extends one of them with the values TLC needs, each `Proofs`
module with its theorems (`FrameProofs` extends BlockWriter and DcpRequests,
`TextProofs` Codec and Configuration). The mutants named in `PROJECT.json` stand in the
modules before the definition they change; nothing else uses them.

### Discovery.tla

The discover thread, the receive thread, the table, the wire and the
descriptor table.

| In the module | In the code |
|---|---|
| `dis`, `burst` | where the discover thread is; first or second call of profinet.c:49-50 |
| `disFds` | sockets of dcp.c:502 and dcp.c:547, never closed |
| `srcAddr` | `dcp_src_address`: the compiled-in dummy until an ioctl succeeds |
| `rec`, `recFds`, `frame` | where the receive thread is, its `sock_r` and `buffer` |
| `queue` | what the kernel keeps for `sock_r`; gone with `close` |
| `devices` | the rows of `devices[][6]`, `device_count` is the length |
| `announced`, `requests` | history: who was reported as new; requests sent |
| `owed` | stations that heard a request and have not answered |
| `others` | descriptors of everything else in the process |

`DisSocket`, `DisNoBuffer`, `DisAddress`, `DisSend` are the stretches of
`discover_devices` between two points where another actor can be seen, with
its early ends (no socket, no buffer, send failed); `DisWake` is the `sleep`.
`RecSocket`, `RecReceive`, `RecReceiveFails`, `RecHandle`, `RecClose` are
`recieve_profinet_packets`. `RecHandle` is both branches, evaluated with the
operators `IsNewDevice` and `IsBackToPower`, which are the two conditions as
they stand, the odd comparisons included. The header test of dcp.c:185 is
always true (it is or-ed with what `printf` returns) and therefore absent.

Left out: the payload, which is BlockParser's (the record the parser fills is
used by nothing else; that it may crash is in Supervisor),
dcp.c:164's VLAN tag, memory. A station may answer, be silent, or power up at any time; a
frame may be lost on the wire or for want of an open socket; a stray frame of
the constant `StrayFrames` may arrive at any time.

### RequestHandler.tla

The callback thread from the message to the reply. `pc` is its place; the
program runs `mqtt_msg_hdlr` -> `send_*_IO_Packet` -> `mqtt_pub` in this thread.
The two send functions have the same control and differ in the packet, so that
one set of actions stands for both; the map names lines of both.

| In the module | In the code |
|---|---|
| `inbox`, `arrived` | messages the MQTTAsync library has and has not handed over |
| `req` | `out`, reduced to its operation; the id is the order of arrival |
| `port`, `reqFds` | `sockfd` (with the port `sendto` binds) and the descriptors behind it |
| `armed` | `setsockopt(SO_RCVTIMEO)` accepted the timeout; `tv_usec` is never written |
| `response` | what `recvfrom` delivered; 0 is an empty response |
| `link`, `pubFds`, `delivered` | the publishing client, its descriptor, `deliveredtoken == token` |
| `running` | `exit` has not been called |
| `udp` | datagrams in flight, of this and of earlier requests |
| `portOf`, `sent`, `replies`, `taken`, `missed`, `leaks` | history |

Every early return and error branch is an action: a failed `socket` is only
reported and the function goes on with -1; a failed lookup returns with the
socket open; a failed `sendto` skips the receive; a failed connection exits; a
failed publication leaves `token` unwritten, so that the wait for it may end at
once or never (`delivered' \in BOOLEAN`). The content of packets and of the
JSON text is abstracted to the id of the request a datagram belongs to: this is
what the properties tell apart, and the code compares nothing else either.
`OthersChange` is what the rest of the process does to the descriptor table,
`ProcessEnds` that it ends the process: both are steps of the environment here
(and in Discovery and Subscriber, where they apply) and of a component in
Supervisor.

### RequestReply.tla

The promise to the requesters, with no sockets and no library: requests are
taken in order, one at a time; a supported one gets at most one reply, while it
is being served; an unsupported one gets none; the service may stop.
`RequestHandler` implements it under the identity mapping of `running`,
`arrived`, `inbox`, `req` and `replies`; everything else is stuttering.

### Subscriber.tla

The session of mqtt_sub.c: the thread of `create_mqtt_task` and the library's
thread, which runs one callback at a time. They share only the flags
`subscribed` and `finished`.

| In the module | In the code |
|---|---|
| `task` | where `create_mqtt_task` is: before the connect, polling, at the test of `finished`, asleep, on the way out |
| `client` | the object of `MQTTAsync_create`, until `MQTTAsync_destroy` |
| `subscribed`, `finished` | the flags of the same name |
| `cb` | where the library's thread is: in a callback, in one that has set its flag and not returned yet (`returns`), or in none |
| `link`, `subscription` | what the library and the broker know of the connection and the topic |
| `published`, `waiting`, `lost` | requests published, requests held for us, history |

`StartConnect`, `StartConnectFails`, `PollEnds`, `Check`, `Destroy` are the task;
`OnConnect`, `OnFailure`, `OnSubscribe`, `ConnLost`, `MsgArrvd` the callbacks. A
callback that sets a flag returns in a step of its own (`CallbackReturns`), because
the task sees the flag at once: it can read `finished` (line 126) and destroy the
client (145) before `connlost`, which set it (32), has returned (34). The library
and the broker are external: they answer a connect or a subscribe, hand over a message, notice a broken link, and call back only when no other callback
runs and the client exists. `ConnLost` is the call with the NULL context of
mqtt_sub.c:109: it is refused, or the process dies of it. What happens inside
`msgarrvd` is RequestHandler; here it returns or the process exits.
`disc_finished`, `onDisconnect` and mqtt_sub.c:132-143 stand behind an endless
loop and are not modelled, nor is "Press Q<Enter> to quit" (mqtt_sub.c:83): no
line of the program reads a key.

### Session.tla

What the session amounts to for whoever publishes requests: a time before it
serves, one time during which it serves, and the rest. Requests published while
it serves are kept and handed over one at a time; all others are lost. Subscriber
implements it with `stage <- Stage`, `kept <- waiting`, `busy <- (cb =
"msgarrvd")`: `Stage` is "serving" while the subscription is held, "before" as
long as the connect or the subscribe can still be answered, and "over" then.

### Supervisor.tla

The process. It declares the variables of the three parts, instantiates each with
what the other two hold for its `others`, and a step is a step of one part with
the other parts' variables unchanged. Four kinds of step are more than that:

| In the module | In the code |
|---|---|
| `HandsOver` | the library calls `msgarrvd` with a message: it arrives for Subscriber and for RequestHandler |
| `Returns`, `Exits` | `msgarrvd` returns, after the reply or after an unsupported request; or `mqtt_pub` exits in it |
| `ConnectAnswered` | a connection of the subscriber takes a descriptor of the table |
| `ParserCrashes` | a payload that leads the parser astray (BlockParser), in either branch of the receiver (dcp.c:199, 229), ends the process, not only its thread |

`subFds` is the subscriber's socket, from its connection to the notice of its
loss; `BaseFds` what is open from the start.

### BlockParser.tla

`extract_blocks_from_packet` cuts the payload of an identify response into
blocks. Its loop keeps two places that are meant to be one, and the module keeps
both.

| In the module | In the code |
|---|---|
| `n`, `kind`, `len`, `start` | the payload: how many blocks, and of each its kind, length and offset |
| `pl` | the pointer of the same name, as an offset: where the next block is read |
| `i` | the index of the `for`, which is compared with `length` |
| `reported` | the blocks of the payload whose case was run, in that order (history) |
| `ip` | the block `device->ip` was copied from; -1: bytes that are not the payload's |
| `strayed`, `crashed` | history: a block was read behind the payload; that ended the process |

`ReadBlock`, `ReadPadding` are an iteration with `pl` at a block or at padding.
`Advance` is how far the cases move `i`, in three classes: blocks that add
their length and five, blocks that only get the loop's `i++` (the options of
dcp.c:76, every suboption or option without a case), and the IP parameters, which
also give the address. `block_length` is dcp.c:14 with the sign of its chars, as
compiled for a machine on which `char` is signed. `Stray` is an iteration behind
the payload: undefined, so it may find padding, any block of the constant
`Strays`, or end the process. `MayOverrun` is the print loop of a text with a
misread length.

Payloads are such as a station sends: blocks that follow each other, padded to
even length, with a `ddl` that is their sum and fits a frame (`WellFormed`).
Left out are the two bytes that every text is printed too far (dcp.c:55, 61), and
the copy of the payload, which is never freed.

### PutBytes.tla and BlockWriter.tla

`PutBytes` has the put functions of prepareBlock.c as operators on the sequence
of the bytes put so far, whose length is `*p_pos`. `pf_put_byte` drops what does
not fit byte by byte, `pf_put_mem` as a whole (and already when one byte would be
left: `>=`). `BlockWriter` is `pf_dcp_put_block` step by step, called for any
blocks in any room: `PutHeader` is the guard and the four header bytes,
`PutValue` the value, `Pad` one pass of the padding loop, `SkipBlock` a call that
the guard refuses, `NextFrame` a new buffer. `placed` (history) is where each
block was begun, which the properties compare with what is in the buffer.

### DcpRequests.tla

`send_set_req`, `send_get_req` and `set_ip_config`, one call after the other.
`call` is the function and what tells it from the others: the arguments of
`pf_dcp_put_block`, how often it asks the operator, and whether it closes its
socket (`set_ip_config` only frees the memory with the number in it). `octets`
are the bytes that scanf and the assignment to `uint8_t` leave, `Garbage` is a
byte of an `int` nobody wrote; `stuck` that stdin holds a character at which `%d`
stops. `Fill` puts the block in one step, with the operator `pf_dcp_put_block` of
`PutBytes`; that the byte-by-byte calls of BlockWriter come to the same is
`InOnePiece`, for any buffer and block. Left out: `createNewDevice`, which copies its arguments to a node, and the
constant bytes of the headers.

### DeviceList.tla

Device_list.c: `devices` is the list from its head, `ip_range_min` the last byte of
the address that is given next. `add_device` and `add_ip_to_device` are called in
any order and any number of times, also twice for one device. `Leftovers` is what
malloc's memory may hold where a node keeps its address, which
`find_device_by_ip` compares like a written one. `FoundByMac` and `FoundByIp` are
the two look-ups; `given` is history.

### Codec.tla

The texts and lengths of a request in the buffers' real sizes: `ReadToken` is the
strtok loop with `HexToInt`, `BuildPacket` the record of a write packet, of which
24 bytes are sent, `GetMyIP` the copy of the address into `IPbuffer` (`own` is how
long it is), `AppendByte` and `CloseText` the reply. Of a text only digits and the
spaces between them are kept. What is written behind a buffer is recorded in `overrun`, and the model
ends there, since nothing is defined from then on.

### Configuration.tla

`read_configurations`, up to the start of the threads. A file is the sequence of
the pieces that `fgets` returns, classified by what `sscanf` and `strcmp` find in
them. `SetInterface` copies 256 bytes to a block of 50, so the heap is damaged from
then on and may end the process at any later point, in any thread (`HeapCrashes`).
Without a file `fgets` gets NULL; without a name `strcpy` does, in the discover
thread (`DiscoverCrashes`). What the discover thread does with the settings is
Discovery's: its `DisWake` is the `sleep`, of whatever length.

## 3. The runs

| Run | Instance | What it shows |
|---|---|---|
| `discovery` | 2 stations, 3 descriptors, queue of 2, 3 stray frames, fair threads | `TableWithinArray`, `ReceiverReturnsSocket`, `RequestBudget`, `AnswerReported`, `ReceiverListens` |
| `identify_goes_on` | 1 station, 3 descriptors, fair threads | finding: the sender stops for good |
| `hello_adds_device` | 1 station, 3 descriptors, fair threads | finding: a station's hello is not added to the table |
| `requests` | 2 requests, 2 ports, 2 descriptors, fair | `AnswerIsOwn`, `SentOnceInOrder`, `NoneForgotten`, `DescriptorsReturned`, `HandlerReturns`, `ImplementsRequestReply` |
| `subscriber` | 3 requests | `ServiceEndsWithLoss`, `DestroyedAfterLoss`, `FailureUnnoticed`, `ImplementsSession` |
| `reconnects` | 1 request, fair task and library | finding: "Reconnecting" is printed and nothing connects |
| `supervisor` | 1 stray frame for the parser, 1 request, 1 port, 2 descriptors, fair | `LeakBudget`, `RequestsInCallback`, `NoReplyWhenExhausted`, `ImplementsParts`, `LossIsNoticed`, `ExhaustionEnds` |
| `block_parser` | payloads of up to 4 blocks, and 8 to 11 with the address last | `ReportedInOrder`, `StaysInside`, `AddressTaken`, `TypeOK` |
| `block_writer` | rooms of 14, 15, 17 and 310 bytes, up to 3 blocks of 7 kinds | `WithinRoom`, `ReadsBack`, `InOnePiece`, `CallReturns` |
| `dcp_requests` | 3 descriptors, 5 kinds of entry | `SocketsAccounted`, `BlockFillsData`, `CarriesWhatWasRead` |
| `device_list` | 2 devices, 2 entries, the whole pool | `DistinctAddresses`, `LookUpByMac`, `LookUpByIp` |
| `texts` | every file of up to 4 pieces and the repository's; real buffer sizes, 5 requests, 6 answers, 3 lengths of address | `SettingsAreTheLast`, `RecordIsRequest`, `ReplyReadsBack`, `OverrunAtLimitOnly` |

The type invariants of the modules with proofs are theorems and not repeated as
run properties; the parser's is checked too, because its lengths may be misread.

**Bounds.** Discovery: the sender uses one or two descriptors per call and the
receiver one, so three let the sender leak on both lines, the receiver work, and
the table be full at each `socket`. `MCStray` has one frame for each outcome of the
two conditions (accepted by the hello branch; the same from a station; an identify
response from the multicast address, which the table refuses after the first). Two
stations suffice to tell "in the table" from "another one". A queue of two makes
both a second frame behind the first and a full queue happen. `requests` sent by
the discover thread needs no bound: each one costs a descriptor.

Requests: two are the least that make a late answer, two ports the least that
tell a reused port from another; the invariants are proved for any number. Two
descriptors are one for the request and one that the rest of the process may
take. `MaxRequests` and `MaxMessages` bound only what the environment sends; three
messages let some be handled, some wait and some be dropped when the link breaks.

Supervisor: two descriptors are the fewest for which the subscriber and one more
user compete, and the fewest that one leak uses up but for the subscriber's; one
request is enough for it to meet each state of the other parts, since it holds the
callback thread to its end. The wire has one frame, which the hello branch hands to
the block parser, so that the receiver works and can crash; stations that answer, and
the identify branch, are in `discovery` (the two together are a million states and
tell the properties of this run nothing more, because they do not look at frames).

Payloads: four blocks are enough for two of different kinds to be followed by one
that is lost or reported, and a length of 130 for the sign; payloads of 8 to 11
blocks straddle the nine of `AddressTaken`, the tenth being lost. Writer: rooms
of 14 and 15 tell even from odd, 17 clips a header in the middle, 310 takes the one
block whose length needs two bytes; three blocks are one before and one behind a
clipped one. Device list: two entries are the least in which one hides the other,
and the pool is the real one. Codec: 24 and 25 numbers, and answers of 677 and 678
bytes, are the two sides of the two limits; addresses of 14 and 15 characters of
the third. Codec's requests do not depend on the settings and are followed with the
repository's file only. Configuration: four pieces are a setting, another value for it, the
other setting, and something in between.

**Deadlock** is checked for Discovery, BlockWriter, DeviceList and DcpRequests,
where something can always happen, and not for RequestHandler, Subscriber and
Supervisor, which stop after `exit` or with nothing left to serve, nor for
BlockParser, whose function returns, nor for Codec and Configuration, which end
where the code crashes or is undefined, or where the threads have started.

**Fairness.** Weak fairness of each thread as a whole: the threads never block
each other on a lock and the kernel schedules them. In `requests` and
`supervisor` also of `Delivered`: a broker that stays connected acknowledges a
QoS 1 publication. In `reconnects` of the task, of the callbacks and of the
library, which answers and notices a loss in the end. `supervisor` needs the
callback thread, the library's thread and the acknowledgement and no others. In
BlockWriter there is one thread, and it goes on. The wire, the
network, the devices and the requesters promise nothing, and no step that
loses or breaks something is fair. `HandlerReturns`, and `LossIsNoticed` with it,
except by name the two places in which the thread really can stay: `StuckInReceive`
(the timeout was not accepted and the answer is lost) and `StuckInWait` (the
connection broke between the publication and its acknowledgement, mqtt_pub.c:69).
`CallReturns` excepts `Endless`: a header clipped by a room of odd size, behind
which `pf_put_byte` no longer advances the position that the loop waits for. The
callers' rooms are all even.

**What the runs say about the code.**

- *The sender stops.* `IdentifyGoesOn` fails because no call returns its socket;
  `RequestBudget` is the exact form of it. In the process it is worse:
  `NoReplyWhenExhausted` says that the leak silences the request path too, and
  `ExhaustionEnds` that the next request ends the process, since `mqtt_pub` exits
  when it cannot connect. With two requests in the configured five seconds and the
  usual 1024 descriptors this takes some 43 minutes.
- *The service ends with its first loss.* `Reconnects` fails because of the NULL
  context; `ServiceEndsWithLoss` and `ImplementsSession` say what remains, a process
  that runs and hears no request, and `FailureUnnoticed` the same of a broker that is
  not there at the start. `DestroyedAfterLoss` holds for a reason nobody wrote down: the
  exit is reached only by a session that was subscribed and then lost, and then the
  library has nothing left to call back. One overlap remains: `connlost` sets
  `finished` before it returns, so the client can be destroyed while it returns.
- *One callback thread.* `LossIsNoticed`: while a request waits for its device or
  its acknowledgement, the loss of the subscriber's connection cannot be reported;
  if that wait has no end, it never is.
- *No station is ever added.* `HelloAddsDevice` is what the comment at dcp.c:216
  says of a station that comes back to power, and fails: the hello branch asks for a
  frame id and a source address that no station's hello has, and the identify branch
  adds nothing although dcp.c:190 prints "adding to devices". So every response of a
  known station is announced as a new device. `TableWithinArray` holds for the same
  reason only: one source address is accepted, once. A repair of either branch needs
  a larger `devices` array and a bound check, as the mutant of `IsBackToPower` shows.
- *Padding is not ignored* (dcp.c:121): `i` counts a padding byte twice, and five
  padded blocks are enough to lose the last. `AddressTaken` is what remains of the
  promise: `i` runs ahead by at most two for each block, and a block with the address
  is eighteen long, so only nine or more blocks before it can hide it. `StaysInside`
  is the other side: `i` falls behind `pl` only by blocks that do not move it.
- *Lengths.* `RecordIsRequest`: a write packet claims all the numbers of its request
  and carries 24. `OverrunAtLimitOnly`: the reply's text leaves `mqtt_res` with 678
  bytes, although `recvfrom` takes 2048, and an own address of fifteen characters, but
  not one of fourteen, leaves `IPbuffer`. `ReadsBack`: a block with a length and no
  value, as `send_set_req` puts it, or a clipped or cut one, leads a receiver that
  follows the lengths astray, and whole blocks behind it are lost to it.
  `BlockFillsData`: the block of `send_set_req` promises four bytes it does not have.
- *The operator's entry.* `CarriesWhatWasRead`: one character that is no number stays
  in stdin, and every later `set_ip_config` sends twelve bytes of the stack without
  asking; a number above 255 is sent modulo 256.
- *The pool.* `DistinctAddresses` bounds it from above by 253 (the comparison in
  line 70 leaves `ip_range_max` out), and 7, which Device_list.c:22 makes every
  device's gateway, is in it. The address that line 76 prints is the next device's.
- *The configuration.* `SettingsAreTheLast`: the last line counts, and without one for
  the interval it is 0, no pause at all. Every file with an interface damages the heap.

## 4. The proofs

Each `Proofs` module has the same layout: the strengthening `IInv` and its parts,
`InitHolds` or its like, a lemma per action, `InvariantKept` (`IInv /\ [Next]_vars
=> IInv'`), `Invariance` (`Spec => []IInv`), and the theorems of `PROJECT.json`. The
only assumptions are those the modules state of their constants.

`DiscoveryProofs.tla`, for any number of stations, stray frames and descriptors
and any queue: `TypeCorrect`, `TableSafe`, `SocketReturned`, `BudgetKept`. `IInv` is
the conjunction of the invariants with one strengthening: `TableWithinArray` is not
inductive, since a table with one row could grow by another; `TableHoldsMcAddr` says
which row it is, and that `check` refuses it the second time (`HandleKeepsTable`).
`TypeOK` needs `ReceiverReturnsSocket` (`recFds - 1` is a natural number), and
`RequestBudget` needs to know that the discover thread, between its socket and its
`send`, holds a descriptor that no request accounts for yet.

`RequestHandlerProofs.tla`, for any number of requests, ports and descriptors:
`TypeCorrect`, `AnswersOwn`, `InOrder`, `NothingForgotten`, `DescriptorsKept`, and
`Refinement` (every behaviour of `RequestHandler` is one of `RequestReply`). The
invariant rests on `served`, the number of requests taken from the inbox, which is
the id of the request being served (`ServesTheLast`, `InboxInOrder`). What was sent,
is in flight or was published has an id up to `served`, and a strictly smaller one
as long as the current request has not been sent, or published, itself (`SentSoFar`,
`DatagramsKnown`, `RepliesSoFar`): this makes `SentOnceInOrder` inductive, and gives
the refinement its "first reply". `DatagramsKnown` ties a datagram to the port of
its request, `ResponseKnown` carries that through `recvfrom` to the publication,
which gives `AnswerIsOwn`. `SocketsCounted` and `LinkCounted` say at which places
which descriptor is held, which gives `DescriptorsReturned`.

`SubscriberProofs.tla`, for any number of requests: `TypeCorrect`, `LossIsFinal`,
`DestroyFollowsLoss`, `FailuresUnnoticed`, and `Refinement` to Session. The session goes
through its stages once, and none comes back; the invariant says which callback
belongs to which stage (`NotStarted`, `Connecting`, `Failing`, `Subscribing`,
`Ending`). `DestroyedAfterLoss` is not inductive: the step `Check` goes to the exit on
`subscribed` and `finished`, and needs `Ending` to know that these two together mean
a loss, and the other parts to exclude each callback in turn. The refinement needs
the same parts to show that `Stage` never goes back from "over".

`SupervisorProofs.tla` instantiates the three modules of proofs with the process'
variables and composes them. What a step of one part is for another is the whole
argument: a step of a part moves its descriptors within the table, which is the
other parts' `OthersChange` (`ProcessMoves`, `RequestMoves`, `ConnectionMoves`), and a
step that ends the process is their `ProcessEnds`. So every step of the process is a
step or a stutter of each part (`StepOfAll`), the three invariants hold together
(`Inv`), and `PartsImplemented` and `TypeCorrect` follow. With it the theorems of the
parts apply to the process: `PartsAreSafe` has the nine safety properties of the three
parts, and `PromisesKept` that the process implements RequestReply and Session. (The
lemmas `Same...` say that a part as Supervisor instantiates it is the part as its
proofs are instantiated.) `TableShared` adds the parts'
counts up. `RequestsServedInside` needs an invariant of its own, `InsideMsgarrvd`:
`msgarrvd` runs exactly while there is one request to serve, and then no other
message has been handed over. `ExhaustionSilences` uses it too: a reply is published
only by a client that holds a descriptor, while the subscriber holds another.

`BlockParserProofs.tla`, for payloads of any number, kinds and lengths of blocks:
`TypeCorrect`, `InOrder`, `Inside`, `AddressIsTaken`. The invariant says where `pl` can
be (`Place`: at the first block that was not reported, at the padding before it, or
behind the payload) and how `i` relates to it: not behind as long as every block
reported was counted (`Ahead`), and ahead by at most two for each block as long as
their lengths were read right, one less when the padding of the last is still to
come (`NotFarAhead`). `AddressTaken` needs both `Place` and `NotFarAhead`: the loop has
not ended when `pl` is at a block that is longer than the lead of `i`.

`FrameProofs.tla` has the two components that put frames together. For BlockWriter,
for any rooms, headers and blocks: `TypeCorrect`, `StaysWithinRoom`,
`WholeBlocksRead`, `PutInOnePiece`. Each put function extends what was there
(`Extends`), so a block once `Readable` stays so; `IInv` says, for each place in the
function, how much of the last block is in the buffer. `WholeBlocksRead` follows the
receiver over the whole blocks by well-founded induction (`WayIsPlaces`): where the
bytes lead it from one block is where the next one was put. `PutInOnePiece` has `InPieces`
beside it: at each place the buffer is what the header, the value and the padding,
put one after the other to what the call found, leave there. The padding is a loop in
the code and an IF in the operator: one byte makes the position even (`PadOnce`), or
there is no room and the loop never gets back to `idle`.

For DcpRequests, for any lines that may be typed and any descriptors:
`RequestsTyped`, `RequestSocketsAccounted`, `RequestBlockFillsData`,
`RequestCarriesWhatWasRead`. The invariant `RequestsIInv` adds to the three properties
how many octets are there at each place (`Asked`: twelve when the frame is filled, so
that the value has fourteen bytes), and that each octet is already the one that the
property will find in the frame (`OctetsRead`). A line gives at most four numbers, the
rest of its four bytes is `Garbage`; once something is stuck and no line was read by
this call, none will be (`deaf`). `FrameFilled` says where `pf_dcp_put_block` leaves
the length and each byte of the value.

`DeviceListProofs.tla`, for any devices, leftovers and length of the list:
`TypeCorrect`, `AddressesDistinct`, `FoundByMacIsLast`, `FoundByIpIsOwner`. Distinctness
is not inductive without `GivenBefore`: what was given is behind the pool's place.

`TextProofs.tla` has the two components that read and write text. For Codec, for any
answers, and any requests of at most the 64 numbers that fit the line: `RepliesReadBack`,
`OverrunsKnown`, whose invariant says what the text is after `i` bytes (`TextSoFar`)
and how long; `HexToIntIsLastTwo` and `PacketIsRequest`. `HexToInt` is a recursive
function over the digits, whose multiplier modulo 256 is 1, 16, and 0 from the third
digit on. `After` is the state of the loop in closed form; that the loop reaches
it is shown by well-founded induction (`Least`: a set of numbers that is not empty has
a least one, from `NatLessThanWellFounded`), so the theorem holds for numbers of any
length. `PacketIsRequest` uses it with `RecordIInv`: what is in `string` is the numbers
read so far, and behind the loop all of them.

For Configuration, for any set of files and names: `SettingsTaken`. `SettingsIInv` says
it of the pieces read so far (`IntervalSoFar`, `NameSoFar`): a piece of another key
changes nothing about the last one of a key, one of this key is the last
(`OnePieceMore`).

So every invariant and every action property of the passing runs, and every
refinement, is also a theorem. Only model-checked are the liveness properties
(`AnswerReported`, `ReceiverListens`, `HandlerReturns`, `LossIsNoticed`,
`ExhaustionEnds`, `CallReturns`), which are out of the prover's reach,
and the findings, which are counterexamples. The theorems say nothing of the fairness of the specifications: they are about `Init` and `Next`, and hold with and
without it.

## 5. What could follow

Payloads that are cut short, and what `Strays` means for the address that is kept;
an abstract registry ("a station that answers is known") for Discovery, once the code
has one.

## 6. Not modelled, and why

- MainApp.c: `findDeviceByMAC` is called on a list that is always empty and returns
  0; the other functions have no caller. `addNewDevice` would not work if it had one:
  it declares a variable with the name of its argument, adds a node that it never
  fills, and its second call follows the list to NULL and writes there.
- `createNewDevice`, `show_all_devices`, `pf_put_uint32`, `checkHostName`,
  `checkHostEntry`, `checkIPbuffer` and `check_ip_address` copy, print or have no caller.
- `json_to_struct` uses a vendored parser; the fields it copies have sizes that the
  requester decides, and Codec begins with what fits.
- The constant fields of packets, the wording of messages, and the system calls of
  `getMyIP`, which opens and closes a socket around one question to the kernel.
- Memory: every frame, every response and every request leaves some allocated, and
  nothing in the code depends on how much is left before malloc fails.
