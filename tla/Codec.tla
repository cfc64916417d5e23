-------------------------------- MODULE Codec --------------------------------
(***************************************************************************)
(* The texts and lengths of a request (mqtt_msg_hdlr.c, pnio.c,            *)
(* getMyIP.c): the data of a write request are hexadecimal numbers that    *)
(* become bytes of the packet, and the bytes of the answer become          *)
(* hexadecimal numbers of the reply.  Who sends, waits and answers is      *)
(* RequestHandler's; here every exchange brings some answer.               *)
(*                                                                         *)
(* Of a text only its hexadecimal digits and the spaces between them are   *)
(* kept; of what is written behind a buffer, that it happened.  What the   *)
(* process does then is undefined: the model ends there.                   *)
(***************************************************************************)
EXTENDS Integers, Sequences

CONSTANTS
  Requests,         \* the data of write requests, each a sequence of numbers
  Responses,        \* the answers of devices, each a sequence of bytes
  AddressLengths    \* how long the machine's own address may be, in characters

\* The sizes of out.data and string, of response and mqtt_res, of IPbuffer, and
\* what a write packet has behind record_data_length.
DataRoom == 128
ResponseRoom == 2048
AddressRoom == 15
RecordRoom == 24

Byte == 0 .. 255
Digit == 0 .. 15

\* A character of a number that is no digit, and what stands between numbers.
Other == 16
Space == 17

Number == Seq(Digit \cup {Other})
Symbol == Digit \cup {Space}

\* Numbers of a request have digits, and n of them take 2 * n - 1 characters or
\* more of the DataRoom - 1 that fit; an answer is at most what recvfrom takes.
ASSUME CodecAssumption ==
  /\ \A r \in Requests :
       r \in Seq(Number) /\ Len(r) <= 64 /\ \A k \in 1 .. Len(r) : Len(r[k]) > 0
  /\ \A r \in Responses : r \in Seq(Byte) /\ Len(r) <= ResponseRoom
  /\ AddressLengths \subseteq 7 .. 15

VARIABLES
  pc,         \* where the thread is; "idle" between two requests
  op,         \* out.op
  request,    \* out.data, as it arrived
  string,     \* the bytes read of it so far
  own,        \* how long the text getMyIP made of the own address is, 0 before
  record,     \* record_data_length, and what the packet has room for behind it
  response,   \* the answer
  i,          \* how much of it is in the reply
  mqtt_res,   \* the digits and spaces in the reply's text
  overrun     \* the buffer behind which something was written, "none" if there is none

vars == <<pc, op, request, string, own, record, response, i, mqtt_res, overrun>>

NoRecord == [length |-> 0, value |-> <<>>]

Init ==
  /\ pc = "idle"
  /\ op = "read"
  /\ request = <<>>
  /\ string = <<>>
  /\ own = 0
  /\ record = NoRecord
  /\ response = <<>>
  /\ i = 0
  /\ mqtt_res = <<>>
  /\ overrun = "none"

\* The locals of mqtt_msg_hdlr are zeroed.
Fresh ==
  /\ string' = <<>>
  /\ own' = 0
  /\ record' = NoRecord
  /\ response' = <<>>
  /\ i' = 0
  /\ mqtt_res' = <<>>
  /\ UNCHANGED overrun

Read ==
  /\ pc = "idle"
  /\ op' = "read" /\ request' = <<>>
  /\ pc' = "address"
  /\ Fresh

Write ==
  /\ pc = "idle"
  /\ op' = "write" /\ request' \in Requests
  /\ pc' = "tokens"
  /\ Fresh

\* A character that is no digit counts for nothing, but has its place.
ValueOf(ch) == IF ch = Other THEN 0 ELSE ch

\* Mutant of HexToInt: from the first character on.
HexToIntForwards(hex) ==
  LET from[k \in 0 .. Len(hex)] ==
        IF k = 0 THEN [result |-> 0, mult |-> 1]
        ELSE [result |-> (from[k - 1].result + ValueOf(hex[k]) * from[k - 1].mult) % 256,
              mult   |-> (from[k - 1].mult * 16) % 256]
  IN  from[Len(hex)].result

\* The loop of HexToInt from the last character on, with nResult and nDigitMult
\* as far as they matter: its callers keep the last byte.
HexToInt(hex) ==
  LET from[k \in 0 .. Len(hex)] ==
        IF k = 0 THEN [result |-> 0, mult |-> 1]
        ELSE [result |-> (from[k - 1].result
                            + ValueOf(hex[Len(hex) + 1 - k]) * from[k - 1].mult) % 256,
              mult   |-> (from[k - 1].mult * 16) % 256]
  IN  from[Len(hex)].result

\* string[i++] = HexToInt(token).
ReadToken ==
  /\ pc = "tokens" /\ Len(string) < Len(request)
  /\ string' = Append(string, HexToInt(request[Len(string) + 1]))
  /\ UNCHANGED <<own, pc, op, request, record, response, i, mqtt_res, overrun>>

\* strtok finds no more.
TokensEnd ==
  /\ pc = "tokens" /\ Len(string) = Len(request)
  /\ pc' = "address"
  /\ UNCHANGED <<own, op, request, string, record, response, i, mqtt_res, overrun>>

\* Mutant of GetMyIP: the NUL behind the address is not counted.
GetMyIPWithoutEnd ==
  /\ pc = "address"
  /\ own' \in AddressLengths
  /\ IF own' > AddressRoom THEN overrun' = "IPbuffer" /\ pc' = "undefined"
     ELSE pc' = "packet" /\ UNCHANGED overrun
  /\ UNCHANGED <<op, request, string, record, response, i, mqtt_res>>

\* getMyIP copies the address and a NUL to IPbuffer, where nobody reads it.
GetMyIP ==
  /\ pc = "address"
  /\ own' \in AddressLengths
  /\ IF own' + 1 > AddressRoom THEN overrun' = "IPbuffer" /\ pc' = "undefined"
     ELSE pc' = "packet" /\ UNCHANGED overrun
  /\ UNCHANGED <<op, request, string, record, response, i, mqtt_res>>

\* Mutant of Carried: the packet grows with its data.
CarriedAll(bytes) == bytes

\* The bytes behind the packet's end are copied to the buffer and not sent.
Carried(bytes) == SubSeq(bytes, 1, IF Len(bytes) < RecordRoom THEN Len(bytes) ELSE RecordRoom)

\* The packet; that of a read request carries no data.
BuildPacket ==
  /\ pc = "packet"
  /\ record' = IF op = "write" THEN [length |-> Len(string), value |-> Carried(string)]
               ELSE NoRecord
  /\ pc' = "exchange"
  /\ UNCHANGED <<own, op, request, string, response, i, mqtt_res, overrun>>

\* What recvfrom brings, nothing included.
Exchange ==
  /\ pc = "exchange"
  /\ response' \in Responses
  /\ pc' = "text"
  /\ UNCHANGED <<own, op, request, string, record, i, mqtt_res, overrun>>

\* Mutant of Hex: %02X of a char that is not masked and may be negative.
HexSigned(byte) ==
  IF byte < 128 THEN <<byte \div 16, byte % 16>>
  ELSE <<15, 15, 15, 15, 15, 15, byte \div 16, byte % 16>>

\* %02X of response[i] & 0xff.
Hex(byte) == <<byte \div 16, byte % 16>>

\* Mutant of TextFits: the text's end is not counted.
TextFitsWithoutEnd(symbols, closing) == 14 + symbols <= ResponseRoom

\* The fourteen characters before the numbers, the numbers, what closes the text,
\* and the NUL.
TextFits(symbols, closing) == 14 + symbols + closing + 1 <= ResponseRoom

\* One pass of the loop: the digits and, but for the last, a space.
AppendByte ==
  /\ pc = "text" /\ i < Len(response)
  /\ mqtt_res' = mqtt_res \o Hex(response[i + 1])
                          \o (IF i + 1 < Len(response) THEN <<Space>> ELSE <<>>)
  /\ i' = i + 1
  /\ IF TextFits(Len(mqtt_res'), 0) THEN UNCHANGED <<pc, overrun>>
     ELSE pc' = "undefined" /\ overrun' = "mqtt_res"
  /\ UNCHANGED <<own, op, request, string, record, response>>

\* The quotation mark, a space and the brace.
CloseText ==
  /\ pc = "text" /\ i = Len(response)
  /\ IF TextFits(Len(mqtt_res), 3) THEN pc' = "publish" /\ UNCHANGED overrun
     ELSE pc' = "undefined" /\ overrun' = "mqtt_res"
  /\ UNCHANGED <<own, op, request, string, record, response, i, mqtt_res>>

Publish ==
  /\ pc = "publish"
  /\ pc' = "idle"
  /\ UNCHANGED <<own, op, request, string, record, response, i, mqtt_res, overrun>>

Next ==
  \/ Read \/ Write \/ ReadToken \/ TokensEnd \/ GetMyIP
  \/ BuildPacket \/ Exchange \/ AppendByte \/ CloseText \/ Publish

Spec == Init /\ [][Next]_vars

-----------------------------------------------------------------------------

\* What a number means to its author: its last two characters.
LastTwo(hex) ==
  ValueOf(hex[Len(hex)]) + (IF Len(hex) > 1 THEN 16 * ValueOf(hex[Len(hex) - 1]) ELSE 0)

Sent == op = "write" /\ pc \in {"exchange", "text", "publish"}

\* A write packet carries the request's numbers in their order, each as its last
\* two digits say, and claims all of them; from the twenty-fifth on it does not
\* have them.  What is read of a request stays in string.
RecordIsRequest ==
  /\ Len(string) < DataRoom
  /\ Sent =>
    /\ record.length = Len(request)
    /\ \A k \in 1 .. Len(record.value) : record.value[k] = LastTwo(request[k])
    /\ Len(record.value) = IF Len(request) < RecordRoom THEN Len(request) ELSE RecordRoom

\* The reply that is published can be read back: cut at its spaces it has two
\* digits for every byte of the answer, in the answer's order.
ReplyReadsBack ==
  pc = "publish" =>
    /\ Len(mqtt_res) = IF response = <<>> THEN 0 ELSE 3 * Len(response) - 1
    /\ \A k \in 1 .. Len(response) :
         /\ 16 * mqtt_res[3 * k - 2] + mqtt_res[3 * k - 1] = response[k]
         /\ k < Len(response) => mqtt_res[3 * k] = Space

\* An own address of fifteen characters is written behind IPbuffer and one of
\* fourteen is not; mqtt_res is written behind for an answer whose text is longer
\* than it, and no such answer is published.
OverrunAtLimitOnly ==
  /\ overrun = "IPbuffer" <=> own = 15
  /\ overrun = "mqtt_res" => 3 * Len(response) + 17 > ResponseRoom
  /\ pc = "publish" => 3 * Len(response) + 17 <= ResponseRoom \/ response = <<>>

=============================================================================
