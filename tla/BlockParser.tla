------------------------------ MODULE BlockParser ------------------------------
(***************************************************************************)
(* extract_blocks_from_packet (dcp.c): how the payload of an identify      *)
(* response is cut into blocks.                                            *)
(*                                                                         *)
(* The loop keeps two places that are meant to be one: the pointer pl, at  *)
(* the bytes it reads, and the index i, which says when to stop.  The      *)
(* model has both.  A payload is the list of its blocks with the offset at *)
(* which each starts; the bytes inside a block are left out.               *)
(***************************************************************************)
EXTENDS Integers, Sequences

CONSTANTS Payloads,  \* the payloads a station may send
          Strays     \* what the bytes behind a payload may look like

\* "ip" is PF_DCP_OPT_IP with PF_DCP_SUB_IP_PAR, "text" the vendor and the name,
\* which are printed; "counted" and "uncounted" are the other blocks, whose case
\* does or does not advance i, "uncounted" those without a case too.
Kinds == {"ip", "text", "counted", "uncounted"}

\* An Ethernet frame leaves no more for the blocks of a DCP frame.
DataMax == 1488

Blocks == [kind : Kinds, len : Nat]

\* The padding that makes the length of a block even.
padding(l) == l % 2

\* A length whose low byte is a char that is not negative.
plain(l) == l % 256 < 128

\* A block has a header of four bytes, its contents and its padding.
WellFormed(count, kinds, lens, starts) ==
  /\ count \in Nat
  /\ kinds \in [1 .. count -> Kinds]
  /\ lens \in [1 .. count -> Nat]
  /\ starts \in [1 .. (count + 1) -> Nat]
  /\ starts[1] = 0 /\ starts[count + 1] <= DataMax
  /\ \A k \in 1 .. count : starts[k + 1] = starts[k] + 4 + lens[k] + padding(lens[k])
  /\ \A j, k \in 1 .. (count + 1) : j < k => starts[j] < starts[k]

ASSUME ParserAssumption ==
  /\ Strays \subseteq Blocks
  /\ \A p \in Payloads : WellFormed(p.n, p.kind, p.len, p.start)

VARIABLES
  n,         \* how many blocks the station sent
  kind,      \* the kind of each,
  len,       \* its length,
  start,     \* and the offset where it starts
  pl,        \* the pointer, as an offset into the payload
  i,         \* the loop's index
  reported,  \* the payload's blocks in the order in which they were read
  ip,        \* the block device->ip comes from; 0: none, -1: not the payload's
  strayed,   \* a block was read behind the payload (history)
  crashed    \* reading far behind the payload has ended the process

payload == <<n, kind, len, start>>
vars == <<payload, pl, i, reported, ip, strayed, crashed>>

length == start[n + 1]

Init ==
  /\ \E p \in Payloads : n = p.n /\ kind = p.kind /\ len = p.len /\ start = p.start
  /\ pl = 0 /\ i = 0
  /\ reported = <<>> /\ ip = 0 /\ strayed = FALSE /\ crashed = FALSE

-----------------------------------------------------------------------------

\* Mutant of block_length: the sign of the low byte is kept altogether.
block_lengthSigned(l) == IF plain(l) THEN l ELSE (l % 256) - 256

\* The length is put together from chars, which have a sign: the low byte of a
\* length fills the high one with ones if its own highest bit is set.
block_length(l) == IF plain(l) THEN l ELSE 65280 + (l % 256)

\* Mutant of Advance: the header is counted twice.
AdvanceTooFar(what, l) == IF what = "uncounted" THEN 1 ELSE l + 9

\* Mutant of Advance: only the case of the IP parameters adds to i.
AdvanceForAddress(what, l) == IF what = "ip" THEN l + 5 ELSE 1

\* How far i goes for a block, the i++ of the loop included.
Advance(what, l) == IF what = "uncounted" THEN 1 ELSE l + 5

InLoop == i < length /\ ~crashed

\* A text is printed as far as its length says, tens of kilobytes behind the
\* payload if that was misread.
MayOverrun(k) == kind[k] = "text" /\ ~plain(len[k])

\* Mutant of ReadBlock: pl moves in the cases, as i does.
ReadBlockStays(k) ==
  LET l == block_length(len[k]) IN
  /\ InLoop /\ pl = start[k]
  /\ pl' = IF kind[k] = "uncounted" THEN pl ELSE pl + l + 4
  /\ i' = i + Advance(kind[k], l)
  /\ reported' = Append(reported, k)
  /\ ip' = IF kind[k] = "ip" THEN k ELSE ip
  /\ crashed' \in {FALSE, MayOverrun(k)}
  /\ UNCHANGED <<payload, strayed>>

\* pl is at the k-th block.
ReadBlock(k) ==
  LET l == block_length(len[k]) IN
  /\ InLoop /\ pl = start[k]
  /\ pl' = pl + l + 4
  /\ i' = i + Advance(kind[k], l)
  /\ reported' = Append(reported, k)
  /\ ip' = IF kind[k] = "ip" THEN k ELSE ip
  /\ crashed' \in {FALSE, MayOverrun(k)}
  /\ UNCHANGED <<payload, strayed>>

AtPadding(k) == padding(len[k]) = 1 /\ pl = start[k + 1] - 1

\* An option of zero is padding: i++ here, and once more in the loop.
ReadPadding(k) ==
  /\ InLoop /\ AtPadding(k)
  /\ pl' = pl + 1
  /\ i' = i + 2
  /\ UNCHANGED <<payload, reported, ip, strayed, crashed>>

\* pl has left the payload and i has not: whatever lies there is taken for
\* padding or for a block.  It makes no difference where exactly pl is.
Stray ==
  /\ InLoop /\ pl >= length
  /\ \/ /\ i' = i + 2
        /\ UNCHANGED <<ip, strayed, crashed>>
     \/ \E b \in Strays :
          /\ i' = i + Advance(b.kind, block_length(b.len))
          /\ ip' = IF b.kind = "ip" THEN -1 ELSE ip
          /\ strayed' = TRUE
          /\ UNCHANGED crashed
     \/ crashed' = TRUE /\ UNCHANGED <<i, ip, strayed>>
  /\ UNCHANGED <<payload, pl, reported>>

Next == (\E k \in 1 .. n : ReadBlock(k) \/ ReadPadding(k)) \/ Stray

Spec == Init /\ [][Next]_vars

-----------------------------------------------------------------------------

returned == i >= length /\ ~crashed

Sound == \A k \in 1 .. n : kind[k] # "uncounted" /\ plain(len[k])

\* Types of the variables.
TypeOK ==
  /\ WellFormed(n, kind, len, start)
  /\ pl \in Nat /\ i \in Nat
  /\ reported \in Seq(1 .. n)
  /\ ip \in -1 .. n
  /\ strayed \in BOOLEAN /\ crashed \in BOOLEAN

\* However pointer and index drift apart, the blocks that are reported are the
\* station's first blocks, each once and in order.
ReportedInOrder ==
  Len(reported) <= n /\ \A j \in 1 .. Len(reported) : reported[j] = j

\* No block is read behind the payload, and no address is taken from there,
\* unless a block was reported that does not advance the index; and the process
\* survives the payload unless that happened or a text was longer than a char
\* can say.
StaysInside ==
  LET seen == {reported[j] : j \in 1 .. Len(reported)} IN
  /\ strayed \/ ip = -1 => \E k \in seen : kind[k] = "uncounted"
  /\ crashed => \E k \in seen : kind[k] = "uncounted" \/ MayOverrun(k)

\* The index runs ahead of the pointer, by at most two for each block: a payload
\* of counted blocks of ordinary length loses at most its tail, so that the
\* address is taken if its block is among the first nine.
AddressTaken ==
  returned /\ Sound =>
    \A k \in 1 .. n :
      kind[k] = "ip" /\ len[k] >= 14 /\ k <= 9 =>
        \E j \in 1 .. Len(reported) : reported[j] = k

=============================================================================
