---------------------------- MODULE FrameProofs ----------------------------
(***************************************************************************)
(* Proofs about BlockWriter, for any sizes of buffer and any blocks, and   *)
(* about DcpRequests, for any lines typed and any number of descriptors.   *)
(*                                                                         *)
(* A put only ever adds behind what is there (Extends), so a block that is *)
(* in place stays in place; the invariant adds to this how far the last    *)
(* block has got, and that a whole block ends where the next one begins.   *)
(* The steps of a call are shown to be pf_dcp_put_block in one piece, as   *)
(* the requests take it; their invariant is that the bytes read so far are *)
(* those of the lines typed so far.                                        *)
(***************************************************************************)
EXTENDS BlockWriter, DcpRequests, SequenceTheorems, WellFoundedInduction, TLAPS

Extends(s, t) == Len(s) <= Len(t) /\ \A i \in 1 .. Len(s) : t[i] = s[i]

-----------------------------------------------------------------------------
(***************************************************************************)
(* Parity, and the two bytes of a length.                                  *)
(***************************************************************************)

LEMMA OddSum ==
  ASSUME NEW a \in Nat, NEW b \in Nat, ~ Odd(a)
  PROVE  /\ Odd(a + 4 + b) <=> Odd(b)
         /\ Odd(a + 4 + b + 1) <=> ~ Odd(b)
BY DEF Odd

LEMMA Below ==
  ASSUME NEW a \in Int, NEW n \in 0 .. (a - 1)
  PROVE  n \in Nat /\ n < a
OBVIOUS

LEMMA TwoBytes ==
  ASSUME NEW n \in Uint16
  PROVE  /\ n \in Nat
         /\ n \div 256 \in Byte /\ n % 256 \in Byte
         /\ Word(n \div 256, n % 256) = n
<1>1. n \in Nat /\ n < 256 * 256
  <2>1. 256 * 256 \in Int
    OBVIOUS
  <2>2. n \in 0 .. (256 * 256 - 1)
    BY Zenon DEF Uint16
  <2>3. QED BY <2>1, <2>2, Below
<1>2. n \div 256 \in Byte /\ n % 256 \in Byte
  BY <1>1, SMTT(30) DEF Byte
<1>3. Word(n \div 256, n % 256) = n
  BY <1>1, SMTT(30) DEF Word
<1>4. QED BY <1>1, <1>2, <1>3

-----------------------------------------------------------------------------
(***************************************************************************)
(* The put functions.                                                      *)
(***************************************************************************)

LEMMA ExtendsTwice ==
  ASSUME NEW s \in Seq(Byte), NEW t \in Seq(Byte), NEW u \in Seq(Byte),
         Extends(s, t), Extends(t, u)
  PROVE  Extends(s, u)
BY DEF Extends

\* A byte is put where there is room for it, and only there.
LEMMA PutByte ==
  ASSUME NEW s \in Seq(Byte), NEW r \in Nat, NEW v \in Byte, Len(s) <= r
  PROVE  LET t == pf_put_byte(s, r, v) IN
         /\ t \in Seq(Byte) /\ Len(t) <= r /\ Extends(s, t)
         /\ Len(s) < r => Len(t) = Len(s) + 1 /\ t[Len(s) + 1] = v
<1>1. CASE Len(s) >= r
  BY <1>1 DEF pf_put_byte, Extends
<1>2. CASE Len(s) < r
  <2>1. pf_put_byte(s, r, v) = Append(s, v)
    BY <1>2 DEF pf_put_byte
  <2>2. /\ Append(s, v) \in Seq(Byte) /\ Len(Append(s, v)) = Len(s) + 1
        /\ Append(s, v)[Len(s) + 1] = v
        /\ \A i \in 1 .. Len(s) : Append(s, v)[i] = s[i]
    OBVIOUS
  <2>3. QED BY <1>2, <2>1, <2>2 DEF Extends
<1>3. QED BY <1>1, <1>2

\* A value is put as a whole or not at all.
PutsMem(s, r, n, v, t) ==
  /\ t \in Seq(Byte) /\ Len(t) <= r /\ Extends(s, t)
  /\ Len(s) + n < r => Len(t) = Len(s) + n /\ \A k \in 1 .. n : t[Len(s) + k] = v

LEMMA PutMem ==
  ASSUME NEW s \in Seq(Byte), NEW r \in Nat, NEW n \in Nat, NEW v \in Byte, Len(s) <= r
  PROVE  PutsMem(s, r, n, v, pf_put_mem(s, r, [i \in 1 .. n |-> v]))
<1> DEFINE src == [i \in 1 .. n |-> v]
<1>1. src \in Seq(Byte) /\ Len(src) = n /\ \A k \in 1 .. n : src[k] = v
  OBVIOUS
<1> HIDE DEF src
<1>2. CASE Len(s) + n >= r
  <2>1. pf_put_mem(s, r, src) = s
    BY <1>1, <1>2 DEF pf_put_mem
  <2>2. QED BY <1>2, <2>1 DEF Extends, src, PutsMem
<1>3. CASE Len(s) + n < r
  <2>1. pf_put_mem(s, r, src) = s \o src
    BY <1>1, <1>3 DEF pf_put_mem
  <2>2. /\ s \o src \in Seq(Byte) /\ Len(s \o src) = Len(s) + n
        /\ \A i \in 1 .. Len(s) : (s \o src)[i] = s[i]
        /\ \A k \in 1 .. n : (s \o src)[Len(s) + k] = v
    BY <1>1
  <2>3. Len(s) <= Len(s) + n /\ Len(s) + n <= r
    BY <1>3
  <2>4. QED BY <1>3, <2>1, <2>2, <2>3, Zenon DEF Extends, src, PutsMem
<1>4. QED BY <1>2, <1>3

\* Four bytes are put one behind the other where all of them fit.
Four(s, r, a, b, c, d) ==
  pf_put_byte(pf_put_byte(pf_put_byte(pf_put_byte(s, r, a), r, b), r, c), r, d)

PutsFour(s, r, a, b, c, d, t) ==
  /\ t \in Seq(Byte) /\ Len(t) <= r /\ Extends(s, t)
  /\ Len(s) + 4 <= r =>
       /\ Len(t) = Len(s) + 4
       /\ t[Len(s) + 1] = a /\ t[Len(s) + 2] = b
       /\ t[Len(s) + 3] = c /\ t[Len(s) + 4] = d

LEMMA PutFour ==
  ASSUME NEW s \in Seq(Byte), NEW r \in Nat, Len(s) <= r,
         NEW a \in Byte, NEW b \in Byte, NEW c \in Byte, NEW d \in Byte
  PROVE  PutsFour(s, r, a, b, c, d, Four(s, r, a, b, c, d))
<1> DEFINE s1 == pf_put_byte(s, r, a)
           s2 == pf_put_byte(s1, r, b)
           s3 == pf_put_byte(s2, r, c)
           s4 == pf_put_byte(s3, r, d)
<1>3. Four(s, r, a, b, c, d) = s4
  BY DEF Four
<1>4. /\ s1 \in Seq(Byte) /\ Len(s1) <= r /\ Extends(s, s1)
      /\ Len(s) < r => Len(s1) = Len(s) + 1 /\ s1[Len(s) + 1] = a
  BY PutByte, Zenon
<1> HIDE DEF s1
<1>5. /\ s2 \in Seq(Byte) /\ Len(s2) <= r /\ Extends(s1, s2)
      /\ Len(s1) < r => Len(s2) = Len(s1) + 1 /\ s2[Len(s1) + 1] = b
  BY <1>4, PutByte, Zenon
<1> HIDE DEF s2
<1>6. /\ s3 \in Seq(Byte) /\ Len(s3) <= r /\ Extends(s2, s3)
      /\ Len(s2) < r => Len(s3) = Len(s2) + 1 /\ s3[Len(s2) + 1] = c
  BY <1>5, PutByte, Zenon
<1> HIDE DEF s3
<1>7. /\ s4 \in Seq(Byte) /\ Len(s4) <= r /\ Extends(s3, s4)
      /\ Len(s3) < r => Len(s4) = Len(s3) + 1 /\ s4[Len(s3) + 1] = d
  BY <1>6, PutByte, Zenon
<1> HIDE DEF s4
<1>8. Extends(s2, s4) /\ Extends(s1, s4) /\ Extends(s, s4)
  BY <1>4, <1>5, <1>6, <1>7, ExtendsTwice
<1>9. ASSUME Len(s) + 4 <= r
      PROVE  /\ Len(s4) = Len(s) + 4
             /\ s4[Len(s) + 1] = a /\ s4[Len(s) + 2] = b
             /\ s4[Len(s) + 3] = c /\ s4[Len(s) + 4] = d
  <2>1. Len(s1) = Len(s) + 1 /\ s1[Len(s) + 1] = a
    BY <1>4, <1>9
  <2>2. Len(s2) = Len(s) + 2 /\ s2[Len(s) + 2] = b
    BY <1>5, <1>9, <2>1
  <2>3. Len(s3) = Len(s) + 3 /\ s3[Len(s) + 3] = c
    BY <1>6, <1>9, <2>2
  <2>4. Len(s4) = Len(s) + 4 /\ s4[Len(s) + 4] = d
    BY <1>7, <1>9, <2>3
  <2>5. s4[Len(s) + 1] = a /\ s4[Len(s) + 2] = b /\ s4[Len(s) + 3] = c
    BY <1>7, <1>8, <2>1, <2>2, <2>3 DEF Extends
  <2>6. QED BY <2>4, <2>5
<1>10. QED BY <1>3, <1>7, <1>8, <1>9, Zenon DEF PutsFour

\* The header of a block.
PutHeaderOf(s, r, b) ==
  pf_put_uint16(TRUE, pf_put_byte(pf_put_byte(s, r, b.opt), r, b.sub), r, b.length)

LEMMA BlockTyped ==
  ASSUME NEW b \in BlockType
  PROVE  b.opt \in Byte /\ b.sub \in Byte /\ b.data \in Byte
         /\ b.length \in Uint16 /\ b.length \in Nat
<1>1. b.opt \in Byte /\ b.sub \in Byte /\ b.data \in Byte /\ b.length \in Uint16
  BY DEF BlockType
<1>2. QED BY <1>1, TwoBytes

HasHeader(s, r, b, t) ==
  /\ t \in Seq(Byte) /\ Len(t) <= r /\ Extends(s, t)
  /\ Len(s) + 4 <= r =>
       /\ Len(t) = Len(s) + 4
       /\ t[Len(s) + 1] = b.opt /\ t[Len(s) + 2] = b.sub
       /\ Word(t[Len(s) + 3], t[Len(s) + 4]) = b.length

LEMMA PutsHeader ==
  ASSUME NEW s \in Seq(Byte), NEW r \in Nat, NEW b \in BlockType, Len(s) <= r
  PROVE  HasHeader(s, r, b, PutHeaderOf(s, r, b))
<1>1. PICK hi \in Byte, lo \in Byte :
        /\ Word(hi, lo) = b.length
        /\ PutHeaderOf(s, r, b) = Four(s, r, b.opt, b.sub, hi, lo)
  <2>1. /\ b.length \div 256 \in Byte /\ b.length % 256 \in Byte
        /\ Word(b.length \div 256, b.length % 256) = b.length
    BY BlockTyped, TwoBytes
  <2>2. PutHeaderOf(s, r, b) = Four(s, r, b.opt, b.sub, b.length \div 256, b.length % 256)
    BY Zenon DEF PutHeaderOf, Four, pf_put_uint16
  <2>3. QED BY <2>1, <2>2
<1> DEFINE t == Four(s, r, b.opt, b.sub, hi, lo)
<1>2. /\ t \in Seq(Byte) /\ Len(t) <= r /\ Extends(s, t)
      /\ Len(s) + 4 <= r =>
           /\ Len(t) = Len(s) + 4
           /\ t[Len(s) + 1] = b.opt /\ t[Len(s) + 2] = b.sub
           /\ t[Len(s) + 3] = hi /\ t[Len(s) + 4] = lo
  <2>1. b.opt \in Byte /\ b.sub \in Byte
    BY BlockTyped
  <2>2. PutsFour(s, r, b.opt, b.sub, hi, lo, t)
    BY <2>1, PutFour
  <2>3. QED BY <2>2, Zenon DEF PutsFour
<1> HIDE DEF t
<1>3. Len(s) + 4 <= r => Word(t[Len(s) + 3], t[Len(s) + 4]) = b.length
  BY <1>1, <1>2, Zenon
<1>4. QED BY <1>1, <1>2, <1>3, Zenon DEF t, HasHeader

-----------------------------------------------------------------------------
(***************************************************************************)
(* The invariant.                                                          *)
(***************************************************************************)

Placed == [at : Nat, block : Blocks]

Positions ==
  \A i \in 1 .. Len(placed) : placed[i].at <= Len(out) /\ ~ Odd(placed[i].at)

\* Where the block behind p begins, if p is whole.
EndOf(p) == p.at + 4 + p.block.length + (IF Odd(p.block.length) THEN 1 ELSE 0)

\* If the i-th block is whole it begins at an even position, has its option, its
\* length and every byte of its value in place, and ends where the next begins.
Readable(i) ==
  LET p == placed[i] IN
    Whole(p) => /\ ~ Odd(p.at)
                /\ HeaderInPlace(p) /\ ValueInPlace(p)
                /\ EndOf(p) = Behind(i)

\* Every block but the one that is being put can be read back from its place.
Before == \A i \in 1 .. Len(placed) : i < Len(placed) \/ pc = "idle" => Readable(i)

\* Where a whole block has its header, and where it has its value.
HeaderPut(p) == HeaderInPlace(p) /\ Len(out) = p.at + 4

ValuePut(p) ==
  /\ HeaderInPlace(p) /\ ValueInPlace(p)
  /\ \/ Len(out) = p.at + 4 + p.block.length
     \/ Odd(p.block.length) /\ Len(out) = p.at + 4 + p.block.length + 1

\* How far the block that is being put has got.
Current ==
  pc # "idle" =>
    /\ Len(placed) > 0 /\ Last.block = block
    /\ Whole(Last) => (pc = "value" => HeaderPut(Last)) /\ (pc = "pad" => ValuePut(Last))

EvenOutside == pc = "idle" => ~ Odd(Len(out))

IInv == TypeOK /\ WithinRoom /\ Positions /\ Before /\ Current /\ EvenOutside

\* What the constants are, without the parities.
LEMMA Assumed ==
  /\ Rooms \subseteq Nat /\ Blocks \subseteq BlockType
  /\ \A s \in Starts : s \in Nat /\ ~ Odd(s) /\ \A r \in Rooms : s <= r
<1>1. Uint16 \subseteq Nat
  BY TwoBytes
<1>2. \A n \in Nat : n % 2 = 0 => ~ Odd(n)
  BY DEF Odd
<1>3. Rooms \subseteq Uint16 /\ Blocks \subseteq BlockType /\ Starts \subseteq Nat
  BY WriterAssumption, Zenon
<1>4. \A s \in Starts : s % 2 = 0 /\ \A r \in Rooms : s <= r
  BY WriterAssumption, Zenon
<1>5. QED BY <1>1, <1>2, <1>3, <1>4, Zenon

LEMMA PlacedTyped ==
  ASSUME NEW p \in Placed
  PROVE  /\ p.at \in Nat /\ p.block \in Blocks
         /\ p.block.length \in Nat /\ p.block.opt \in Byte /\ p.block.data \in Byte
<1>1. p.at \in Nat /\ p.block \in Blocks
  BY DEF Placed
<1>2. QED BY <1>1, Assumed, BlockTyped

-----------------------------------------------------------------------------
(***************************************************************************)
(* What is in place stays in place.                                        *)
(***************************************************************************)

LEMMA HeaderKept ==
  ASSUME NEW p \in Placed, p.at + 4 <= Len(out), out \in Seq(Byte),
         Extends(out, out'), HeaderInPlace(p)
  PROVE  HeaderInPlace(p)'
<1>1. p.at \in Nat /\ Len(out) \in Nat
  BY PlacedTyped
<1>2. \A k \in 1 .. 4 : p.at + k \in 1 .. Len(out)
  BY <1>1
<1>3. /\ out'[p.at + 1] = out[p.at + 1] /\ out'[p.at + 2] = out[p.at + 2]
      /\ out'[p.at + 3] = out[p.at + 3] /\ out'[p.at + 4] = out[p.at + 4]
  BY <1>2 DEF Extends
<1>4. QED BY <1>3, Zenon DEF HeaderInPlace, LengthAt

LEMMA ValueKept ==
  ASSUME NEW p \in Placed, p.at + 4 + p.block.length <= Len(out), out \in Seq(Byte),
         Extends(out, out'), ValueInPlace(p)
  PROVE  ValueInPlace(p)'
<1>1. p.at \in Nat /\ p.block.length \in Nat /\ Len(out) \in Nat
  BY PlacedTyped
<1>2. ASSUME NEW k \in 1 .. p.block.length
      PROVE  out'[p.at + 4 + k] = out[p.at + 4 + k]
  <2>1. p.at + 4 + k \in 1 .. Len(out)
    BY <1>1
  <2>2. QED BY <2>1, Zenon DEF Extends
<1>3. QED BY <1>2, Zenon DEF ValueInPlace

LEMMA EndsAfterValue ==
  ASSUME NEW p \in Placed
  PROVE  EndOf(p) \in Nat /\ p.at + 4 <= EndOf(p) /\ p.at + 4 + p.block.length <= EndOf(p)
BY PlacedTyped DEF EndOf

\* A block that can be read back stays so when the buffer grows behind it.
LEMMA ReadableKept ==
  ASSUME TypeOK, Positions, UNCHANGED dst_max, Extends(out, out'),
         NEW i \in 1 .. Len(placed), placed'[i] = placed[i], Behind(i)' = Behind(i),
         Readable(i)
  PROVE  Readable(i)'
<1>1. PICK p : p = placed[i]
  OBVIOUS
<1>2. placed \in Seq(Placed) /\ out \in Seq(Byte)
  BY Zenon DEF TypeOK, Placed
<1>3. p \in Placed
  BY <1>1, <1>2, ElementOfSeq
<1>4. p.at \in Nat /\ p.block.length \in Nat /\ Len(out) \in Nat
  BY <1>2, <1>3, PlacedTyped
<1>5. Behind(i) <= Len(out)
  <2>1. CASE i = Len(placed)
    BY <2>1, <1>4 DEF Behind
  <2>2. CASE i # Len(placed)
    <3>1. i + 1 \in 1 .. Len(placed)
      BY <1>2, <2>2
    <3>2. placed[i + 1].at <= Len(out)
      BY <3>1 DEF Positions
    <3>3. QED BY <2>2, <3>2 DEF Behind
  <2>3. QED BY <2>1, <2>2
<1>6. SUFFICES ASSUME Whole(p)'
      PROVE  ~ Odd(p.at) /\ HeaderInPlace(p)' /\ ValueInPlace(p)' /\ EndOf(p) = Behind(i)
  BY <1>1, Zenon DEF Readable, EndOf
<1>7. Whole(p)
  BY <1>6, Zenon DEF Whole
<1>8. ~ Odd(p.at) /\ HeaderInPlace(p) /\ ValueInPlace(p) /\ EndOf(p) = Behind(i)
  BY <1>1, <1>7, Zenon DEF Readable
<1>9. p.at + 4 <= Len(out) /\ p.at + 4 + p.block.length <= Len(out)
  BY <1>3, <1>4, <1>5, <1>8, EndsAfterValue
<1>10. HeaderInPlace(p)'
  BY <1>2, <1>3, <1>8, <1>9, HeaderKept
<1>11. ValueInPlace(p)'
  BY <1>2, <1>3, <1>8, <1>9, ValueKept
<1>12. QED BY <1>8, <1>10, <1>11

-----------------------------------------------------------------------------
(***************************************************************************)
(* The invariant is inductive: one lemma for each action.                  *)
(***************************************************************************)

LEMMA HeaderOnlyTyped ==
  ASSUME NEW n \in Nat
  PROVE  HeaderOnly(n) \in Seq(Byte) /\ Len(HeaderOnly(n)) = n
BY DEF HeaderOnly, Byte

\* A fresh buffer holds the sender's header and no block.
LEMMA Fresh ==
  ASSUME NEW n \in Starts, NEW r \in Rooms, dst_max = r, out = HeaderOnly(n),
         pc = "idle", block \in Blocks, placed = <<>>
  PROVE  IInv
<1>1. n \in Nat /\ r \in Nat /\ n <= r /\ ~ Odd(n)
  BY Assumed
<1>2. out \in Seq(Byte) /\ Len(out) = n
  BY <1>1, HeaderOnlyTyped
<1>3. placed \in Seq(Placed) /\ Len(placed) = 0
  BY EmptySeq
<1>4. TypeOK
  BY <1>2, <1>3, Zenon DEF TypeOK, Placed
<1>5. 1 .. Len(placed) = {}
  BY <1>3
<1>6. WithinRoom
  BY <1>1, <1>2 DEF WithinRoom
<1>7. Positions /\ Before
  BY <1>5, Zenon DEF Positions, Before
<1>8. Current /\ EvenOutside
  BY <1>1, <1>2, Zenon DEF Current, EvenOutside
<1>9. QED BY <1>4, <1>6, <1>7, <1>8 DEF IInv

LEMMA InitInv == Init => IInv
BY Fresh DEF Init

LEMMA NextFrameInv ==
  ASSUME IInv, NextFrame
  PROVE  IInv'
<1>1. PICK n \in Starts : out' = HeaderOnly(n)
  BY DEF NextFrame, NewBuffer
<1>2. PICK r \in Rooms : dst_max' = r
  BY DEF NextFrame, NewBuffer
<1>3. pc' = "idle" /\ block' \in Blocks /\ placed' = <<>>
  BY DEF NextFrame, NewBuffer, IInv, TypeOK
<1>4. n \in Nat /\ r \in Nat /\ n <= r /\ ~ Odd(n)
  BY Assumed
<1>5. out' \in Seq(Byte) /\ Len(out') = n
  BY <1>1, <1>4, HeaderOnlyTyped
<1>6. placed' \in Seq(Placed) /\ Len(placed') = 0
  BY <1>3, EmptySeq
<1>7. TypeOK'
  BY <1>2, <1>3, <1>5, <1>6, Zenon DEF TypeOK, Placed
<1>8. 1 .. Len(placed') = {}
  BY <1>6
<1>9. WithinRoom'
  BY <1>2, <1>4, <1>5 DEF WithinRoom
<1>10. Positions' /\ Before'
  BY <1>8, Zenon DEF Positions, Before
<1>11. Current' /\ EvenOutside'
  BY <1>3, <1>4, <1>5, Zenon DEF Current, EvenOutside
<1>12. QED BY <1>7, <1>9, <1>10, <1>11 DEF IInv

LEMMA SkipBlockInv ==
  ASSUME IInv, SkipBlock
  PROVE  IInv'
<1>1. UNCHANGED <<dst_max, out, pc, placed>> /\ block' \in Blocks /\ pc = "idle"
  BY DEF SkipBlock
<1>2. TypeOK'
  BY <1>1, Zenon DEF IInv, TypeOK
<1>3. WithinRoom' /\ Positions' /\ EvenOutside'
  BY <1>1, Zenon DEF IInv, WithinRoom, Positions, EvenOutside
<1>4. Before'
  <2>1. Extends(out, out')
    BY <1>1 DEF Extends, IInv, TypeOK
  <2>2. ASSUME NEW i \in 1 .. Len(placed), Readable(i)
        PROVE  Readable(i)'
    BY <1>1, <2>1, <2>2, ReadableKept DEF IInv, Behind
  <2>3. QED BY <1>1, <2>2, Zenon DEF IInv, Before
<1>5. Current'
  BY <1>1 DEF Current
<1>6. QED BY <1>2, <1>3, <1>4, <1>5 DEF IInv

\* What every step inside a call keeps of the blocks before the current one.
LEMMA BeforeKept ==
  ASSUME IInv, UNCHANGED <<dst_max, placed>>, pc # "idle", pc' # "idle",
         out' \in Seq(Byte), Extends(out, out')
  PROVE  Positions' /\ Before'
<1>1. placed \in Seq(Placed) /\ out \in Seq(Byte)
  BY Zenon DEF IInv, TypeOK, Placed
<1>2. ASSUME NEW i \in 1 .. Len(placed)
      PROVE  placed[i].at <= Len(out') /\ ~ Odd(placed[i].at)
  <2>1. placed[i].at \in Nat
    BY <1>1, ElementOfSeq, PlacedTyped
  <2>2. QED BY <1>1, <2>1 DEF IInv, Positions, Extends
<1>3. ASSUME NEW i \in 1 .. Len(placed), i < Len(placed)
      PROVE  Readable(i)'
  <2>1. Behind(i)' = Behind(i)
    BY <1>3 DEF Behind
  <2>2. Readable(i)
    BY <1>3 DEF IInv, Before
  <2>3. QED BY <2>1, <2>2, ReadableKept DEF IInv
<1>4. Positions'
  BY <1>2, Zenon DEF Positions
<1>5. Before'
  BY <1>3, Zenon DEF Before
<1>6. QED BY <1>4, <1>5

LEMMA PutValueInv ==
  ASSUME IInv, PutValue
  PROVE  IInv'
<1>1. /\ pc = "value" /\ pc' = "pad" /\ UNCHANGED <<dst_max, block, placed>>
      /\ out \in Seq(Byte) /\ dst_max \in Nat /\ Len(out) <= dst_max
      /\ block \in Blocks /\ placed \in Seq(Placed)
  BY Assumed, Zenon DEF PutValue, IInv, TypeOK, WithinRoom, Placed
<1>2. block.length \in Nat /\ block.data \in Byte
  BY <1>1, Assumed, BlockTyped
<1> DEFINE t == pf_put_mem(out, dst_max, [i \in 1 .. block.length |-> block.data])
<1>3. /\ t \in Seq(Byte) /\ Len(t) <= dst_max /\ Extends(out, t)
      /\ Len(out) + block.length < dst_max =>
           /\ Len(t) = Len(out) + block.length
           /\ \A k \in 1 .. block.length : t[Len(out) + k] = block.data
  <2>1. PutsMem(out, dst_max, block.length, block.data, t)
    BY <1>1, <1>2, PutMem
  <2>2. QED BY <2>1, Zenon DEF PutsMem
<1>4. out' = IF block.null THEN out ELSE t
  BY Zenon DEF PutValue
<1> HIDE DEF t
<1>5. out' \in Seq(Byte) /\ Len(out') <= dst_max /\ Extends(out, out')
  <2>1. Extends(out, out)
    BY <1>1 DEF Extends
  <2>2. QED BY <1>1, <1>3, <1>4, <2>1, Zenon
<1>6. TypeOK' /\ WithinRoom' /\ EvenOutside'
  BY <1>1, <1>5, Zenon DEF IInv, TypeOK, WithinRoom, EvenOutside
<1>7. Positions' /\ Before'
  BY <1>1, <1>5, BeforeKept
<1>8. Current'
  <2>1. PICK p : p = Last
    OBVIOUS
  <2>2. Len(placed) > 0 /\ p.block = block /\ p \in Placed
    BY <1>1, <2>1, ElementOfSeq DEF IInv, Current, Last
  <2>3. ASSUME Whole(p)
        PROVE  ValuePut(p)'
    <3>1. HeaderInPlace(p) /\ Len(out) = p.at + 4 /\ p.at \in Nat
      BY <1>1, <2>1, <2>2, <2>3, PlacedTyped DEF IInv, Current, HeaderPut
    <3>2. HeaderInPlace(p)'
      BY <1>1, <1>5, <2>2, <3>1, HeaderKept
    <3>3. block.length = 0 \/ ~ block.null
      BY <2>2, <2>3, Zenon DEF Whole
    <3>4. Len(out) + block.length < dst_max
      BY <2>2, <2>3, <3>1 DEF Whole
    <3>5. /\ Len(out') = Len(out) + block.length
          /\ \A k \in 1 .. block.length : out'[Len(out) + k] = block.data
      <4>1. CASE block.null
        BY <1>1, <1>4, <3>3, <4>1
      <4>2. CASE ~ block.null
        BY <1>3, <1>4, <3>4, <4>2, Zenon
      <4>3. QED BY <4>1, <4>2
    <3>6. ValueInPlace(p)'
      BY <2>2, <3>1, <3>5, Zenon DEF ValueInPlace
    <3>7. Len(out') = p.at + 4 + p.block.length
      BY <2>2, <3>1, <3>5, Zenon
    <3>8. QED BY <3>2, <3>6, <3>7, Zenon DEF ValuePut
  <2>4. Last' = p
    BY <1>1, <2>1, Zenon DEF Last
  <2>5. Whole(p)' <=> Whole(p)
    BY <1>1, Zenon DEF Whole
  <2>6. QED BY <1>1, <2>2, <2>3, <2>4, <2>5 DEF Current
<1>9. QED BY <1>6, <1>7, <1>8 DEF IInv

LEMMA PutHeaderInv ==
  ASSUME IInv, PutHeader
  PROVE  IInv'
<1>1. /\ pc = "idle" /\ pc' = "value" /\ UNCHANGED dst_max /\ block' \in Blocks
      /\ placed' = Append(placed, [at |-> Len(out), block |-> block'])
      /\ out' = PutHeaderOf(out, dst_max, block')
  BY DEF PutHeader, PutHeaderOf
<1>2. /\ out \in Seq(Byte) /\ dst_max \in Nat /\ Len(out) <= dst_max
      /\ placed \in Seq(Placed) /\ Len(out) \in Nat /\ ~ Odd(Len(out))
  <2>1. /\ out \in Seq(Byte) /\ dst_max \in Nat /\ Len(out) <= dst_max
        /\ placed \in Seq(Placed) /\ ~ Odd(Len(out))
    BY <1>1, Assumed, Zenon DEF IInv, TypeOK, WithinRoom, Placed, EvenOutside
  <2>2. QED BY <2>1
<1>3. /\ out' \in Seq(Byte) /\ Len(out') <= dst_max /\ Extends(out, out')
      /\ Len(out) + 4 <= dst_max =>
           /\ Len(out') = Len(out) + 4
           /\ out'[Len(out) + 1] = block'.opt /\ out'[Len(out) + 2] = block'.sub
           /\ Word(out'[Len(out) + 3], out'[Len(out) + 4]) = block'.length
  <2>1. PICK b \in BlockType : b = block'
    BY <1>1, Assumed
  <2>2. HasHeader(out, dst_max, b, out')
    BY <1>1, <1>2, <2>1, PutsHeader
  <2>3. QED BY <2>1, <2>2, Zenon DEF HasHeader
<1>4. PICK p \in Placed : p = [at |-> Len(out), block |-> block'] /\ p.at = Len(out) /\ p.block = block'
  BY <1>1, <1>2 DEF Placed
<1>5. /\ placed' \in Seq(Placed) /\ Len(placed') = Len(placed) + 1
      /\ placed'[Len(placed')] = p /\ Len(placed) \in Nat
      /\ \A i \in 1 .. Len(placed) : placed'[i] = placed[i]
  BY <1>1, <1>2, <1>4, AppendProperties
<1>6. TypeOK' /\ WithinRoom' /\ EvenOutside'
  BY <1>1, <1>3, <1>5, Zenon DEF IInv, TypeOK, WithinRoom, EvenOutside, Placed
<1>7. Len(out) <= Len(out')
  BY <1>3 DEF Extends
<1>8. Positions'
  <2>1. ASSUME NEW i \in 1 .. Len(placed')
        PROVE  placed'[i].at <= Len(out') /\ ~ Odd(placed'[i].at)
    <3>1. CASE i = Len(placed')
      BY <1>2, <1>4, <1>5, <1>7, <3>1
    <3>2. CASE i # Len(placed')
      <4>1. i \in 1 .. Len(placed)
        BY <1>5, <3>2
      <4>2. placed[i].at <= Len(out) /\ ~ Odd(placed[i].at) /\ placed[i].at \in Nat
        BY <1>2, <4>1, ElementOfSeq, PlacedTyped DEF IInv, Positions
      <4>3. QED BY <1>2, <1>3, <1>5, <1>7, <4>1, <4>2
    <3>3. QED BY <3>1, <3>2
  <2>2. QED BY <2>1, Zenon DEF Positions
<1>9. Before'
  <2>1. ASSUME NEW i \in 1 .. Len(placed'), i < Len(placed')
        PROVE  Readable(i)'
    <3>1. i \in 1 .. Len(placed) /\ placed'[i] = placed[i]
      BY <1>5, <2>1
    <3>2. Readable(i)
      BY <1>1, <3>1 DEF IInv, Before
    <3>3. Behind(i)' = Behind(i)
      <4>1. CASE i = Len(placed)
        BY <1>4, <1>5, <4>1 DEF Behind
      <4>2. CASE i # Len(placed)
        <5>1. i + 1 \in 1 .. Len(placed)
          BY <3>1, <4>2
        <5>2. QED BY <1>5, <2>1, <4>2, <5>1 DEF Behind
      <4>3. QED BY <4>1, <4>2
    <3>4. QED BY <1>1, <1>3, <3>1, <3>2, <3>3, ReadableKept DEF IInv
  <2>2. QED BY <1>1, <2>1 DEF Before
<1>10. Current'
  <2>1. Last' = p
    BY <1>5, Zenon DEF Last
  <2>2. Len(placed') > 0
    BY <1>5
  <2>3. ASSUME Whole(p)' PROVE HeaderPut(p)'
    <3>1. Len(out) + 4 <= dst_max
      <4>1. p.at + 4 + p.block.length < dst_max'
        BY <2>3, Zenon DEF Whole
      <4>2. QED BY <1>1, <1>2, <1>4, <4>1, PlacedTyped
    <3>2. QED BY <1>3, <1>4, <3>1, Zenon DEF HeaderPut, HeaderInPlace, LengthAt
  <2>4. QED BY <1>1, <1>4, <2>1, <2>2, <2>3, Zenon DEF Current
<1>11. QED BY <1>6, <1>8, <1>9, <1>10 DEF IInv

LEMMA PadInv ==
  ASSUME IInv, Pad
  PROVE  IInv'
<1>1. /\ pc = "pad" /\ UNCHANGED <<dst_max, pc, block, placed>> /\ Odd(Len(out))
      /\ out' = pf_put_byte(out, dst_max, 0)
      /\ out \in Seq(Byte) /\ dst_max \in Nat /\ Len(out) <= dst_max
      /\ placed \in Seq(Placed)
  BY Assumed, Zenon DEF Pad, IInv, TypeOK, WithinRoom, Placed
<1>2. /\ out' \in Seq(Byte) /\ Len(out') <= dst_max /\ Extends(out, out')
      /\ Len(out) < dst_max => Len(out') = Len(out) + 1
  <2>1. 0 \in Byte
    BY DEF Byte
  <2>2. QED BY <1>1, <2>1, PutByte
<1>3. TypeOK' /\ WithinRoom' /\ EvenOutside'
  BY <1>1, <1>2, Zenon DEF IInv, TypeOK, WithinRoom, EvenOutside
<1>4. Positions' /\ Before'
  BY <1>1, <1>2, BeforeKept
<1>5. Current'
  <2>1. PICK p : p = Last
    OBVIOUS
  <2>2. Len(placed) > 0 /\ p.block = block /\ p \in Placed
    BY <1>1, <2>1, ElementOfSeq DEF IInv, Current, Last
  <2>3. p.at \in Nat /\ p.block.length \in Nat /\ ~ Odd(p.at) /\ Len(out) \in Nat
    BY <1>1, <2>1, <2>2, PlacedTyped DEF IInv, Positions, Last
  <2>4. ASSUME Whole(p)
        PROVE  ValuePut(p)'
    <3>1. ValuePut(p)
      BY <1>1, <2>1, <2>4 DEF IInv, Current
    <3>2. Len(out) = p.at + 4 + p.block.length /\ Odd(p.block.length)
      <4>1. /\ Odd(p.at + 4 + p.block.length) <=> Odd(p.block.length)
            /\ Odd(p.at + 4 + p.block.length + 1) <=> ~ Odd(p.block.length)
        BY <2>3, OddSum
      <4>2. QED BY <1>1, <3>1, <4>1, Zenon DEF ValuePut
    <3>3. Len(out) < dst_max
      BY <2>4, <3>2 DEF Whole
    <3>4. Len(out') = p.at + 4 + p.block.length + 1
      BY <1>2, <3>2, <3>3
    <3>5. p.at + 4 <= Len(out)
      BY <2>3, <3>2
    <3>6. HeaderInPlace(p)'
      BY <1>1, <1>2, <2>2, <3>1, <3>5, HeaderKept DEF ValuePut
    <3>7. ValueInPlace(p)'
      BY <1>1, <1>2, <2>2, <2>3, <3>1, <3>2, ValueKept DEF ValuePut
    <3>8. QED BY <3>2, <3>4, <3>6, <3>7, Zenon DEF ValuePut
  <2>5. Last' = p
    BY <1>1, <2>1, Zenon DEF Last
  <2>6. Whole(p)' <=> Whole(p)
    BY <1>1, Zenon DEF Whole
  <2>7. QED BY <1>1, <2>2, <2>4, <2>5, <2>6 DEF Current
<1>6. QED BY <1>3, <1>4, <1>5 DEF IInv

LEMMA ReturnInv ==
  ASSUME IInv, Return
  PROVE  IInv'
<1>1. /\ pc = "pad" /\ pc' = "idle" /\ UNCHANGED <<dst_max, out, block, placed>>
      /\ ~ Odd(Len(out)) /\ placed \in Seq(Placed) /\ out \in Seq(Byte)
  BY Zenon DEF Return, IInv, TypeOK, Placed
<1>2. TypeOK'
  BY <1>1, Zenon DEF IInv, TypeOK
<1>3. WithinRoom' /\ Positions' /\ EvenOutside' /\ Current'
  BY <1>1, Zenon DEF IInv, WithinRoom, Positions, EvenOutside, Current
<1>4. Extends(out, out')
  BY <1>1 DEF Extends
<1>5. ASSUME NEW i \in 1 .. Len(placed)
      PROVE  Readable(i)
  <2>1. CASE i < Len(placed)
    BY <2>1 DEF IInv, Before
  <2>2. CASE i = Len(placed)
    <3>1. PICK p \in Placed : p = placed[i]
      BY <1>1, ElementOfSeq
    <3>2. p.at \in Nat /\ p.block.length \in Nat /\ ~ Odd(p.at) /\ Len(out) \in Nat
      <4>1. ~ Odd(p.at)
        BY <3>1, Zenon DEF IInv, Positions
      <4>2. QED BY <1>1, <3>1, <4>1, PlacedTyped
    <3>3. ASSUME Whole(p)
          PROVE  HeaderInPlace(p) /\ ValueInPlace(p) /\ EndOf(p) = Len(out)
      <4>1. ValuePut(p)
        BY <1>1, <2>2, <3>1, <3>3 DEF IInv, Current, Last
      <4>2. EndOf(p) = Len(out)
        <5>1. Odd(p.at + 4 + p.block.length) <=> Odd(p.block.length)
          BY <3>2, OddSum
        <5>2. CASE Odd(p.block.length)
          BY <1>1, <4>1, <5>1, <5>2 DEF ValuePut, EndOf
        <5>3. CASE ~ Odd(p.block.length)
          <6>1. Len(out) = p.at + 4 + p.block.length
            BY <4>1, <5>3 DEF ValuePut
          <6>2. QED BY <3>2, <5>3, <6>1 DEF EndOf
        <5>4. QED BY <5>2, <5>3
      <4>3. QED BY <4>1, <4>2, Zenon DEF ValuePut
    <3>4. QED BY <2>2, <3>1, <3>2, <3>3, Zenon DEF Readable, Behind
  <2>3. QED BY <2>1, <2>2
<1>6. Before'
  <2>1. ASSUME NEW i \in 1 .. Len(placed)
        PROVE  Readable(i)'
    BY <1>1, <1>4, <1>5, ReadableKept DEF IInv, Behind
  <2>2. QED BY <1>1, <2>1, Zenon DEF Before
<1>7. QED BY <1>2, <1>3, <1>6 DEF IInv

LEMMA InvariantKept ==
  ASSUME IInv, [Next]_vars
  PROVE  IInv'
<1>1. CASE UNCHANGED vars
  <2>1. UNCHANGED <<dst_max, out, pc, block, placed>>
    BY <1>1 DEF vars
  <2>2. TypeOK' /\ WithinRoom' /\ Positions' /\ EvenOutside'
    BY <2>1, Zenon DEF IInv, TypeOK, WithinRoom, Positions, EvenOutside
  <2>3. Extends(out, out')
    BY <2>1 DEF Extends, IInv, TypeOK
  <2>4. ASSUME NEW i \in 1 .. Len(placed), Readable(i)
        PROVE  Readable(i)'
    BY <2>1, <2>3, <2>4, ReadableKept DEF IInv, Behind
  <2>5. Before'
    BY <2>1, <2>4, Zenon DEF IInv, Before
  <2>6. Current'
    <3>1. Last' = Last
      BY <2>1, Zenon DEF Last
    <3>2. PICK p : p = Last
      OBVIOUS
    <3>3. /\ Whole(p)' <=> Whole(p)
          /\ HeaderPut(p)' <=> HeaderPut(p)
          /\ ValuePut(p)' <=> ValuePut(p)
      BY <2>1, Zenon DEF Whole, HeaderPut, ValuePut, HeaderInPlace, LengthAt, ValueInPlace
    <3>4. QED BY <2>1, <3>1, <3>2, <3>3 DEF IInv, Current
  <2>7. QED BY <2>2, <2>5, <2>6 DEF IInv
<1>2. QED
  BY <1>1, PutHeaderInv, SkipBlockInv, PutValueInv, PadInv, ReturnInv, NextFrameInv
     DEF Next, Call, Inside

THEOREM Invariance == Spec => []IInv
BY InitInv, InvariantKept, PTL DEF Spec

-----------------------------------------------------------------------------

\* The variables of the writer keep their types: only bytes are put.
THEOREM TypeCorrect == Spec => []TypeOK
<1>1. IInv => TypeOK
  BY DEF IInv
<1>2. QED BY Invariance, <1>1, PTL

\* Whatever blocks are put, nothing is written behind the claimed room.
THEOREM StaysWithinRoom == Spec => []WithinRoom
<1>1. IInv => WithinRoom
  BY DEF IInv
<1>2. QED BY Invariance, <1>1, PTL

-----------------------------------------------------------------------------
(***************************************************************************)
(* The receiver's way through the buffer is the places of the blocks, as   *)
(* long as they are whole.                                                 *)
(***************************************************************************)

\* The naturals are well-founded.
LEMMA Least ==
  ASSUME NEW T, T \subseteq Nat, T # {}
  PROVE  \E x \in T : \A y \in T : x <= y
<1>1. PICK x \in T : \A y \in T : ~ (<<y, x>> \in OpToRel(<, Nat))
  BY NatLessThanWellFounded, WFMin
<1>2. ASSUME NEW y \in T
      PROVE  x <= y
  <2>1. ~ (<<y, x>> \in OpToRel(<, Nat))
    BY <1>1
  <2>2. x \in Nat /\ y \in Nat
    OBVIOUS
  <2>3. ~ (y < x)
    BY <2>1, <2>2 DEF OpToRel
  <2>4. QED BY <2>2, <2>3
<1>3. QED BY <1>2

\* The way over n blocks.
IsWay(at, n) ==
  at = [i \in 1 .. n |-> IF i = 1 THEN placed[1].at ELSE GoesOn(at[i - 1])]

LEMMA ReaderOnItsWay ==
  ASSUME NEW n
  PROVE  ReaderAt(n) = (CHOOSE at : IsWay(at, n))[n]
BY Zenon DEF ReaderAt, IsWay

\* The receiver goes on from a whole block to where the next begins, or to the end.
LEMMA GoesOnBehind ==
  ASSUME NEW i \in 1 .. Len(placed), Whole(placed[i]), Readable(i)
  PROVE  /\ GoesOn(placed[i].at) = Behind(i)
         /\ HeaderInPlace(placed[i]) /\ ValueInPlace(placed[i])
<1>1. PICK p : p = placed[i]
  OBVIOUS
<1>2. HeaderInPlace(p) /\ ValueInPlace(p) /\ EndOf(p) = Behind(i)
  BY <1>1, Zenon DEF Readable
<1>3. LengthAt(p.at) = p.block.length
  BY <1>2, Zenon DEF HeaderInPlace
<1>4. GoesOn(p.at) = EndOf(p)
  BY <1>3, Zenon DEF GoesOn, EndOf
<1>5. QED BY <1>1, <1>2, <1>4, Zenon

\* The places of whole blocks are a way, and there is no other: there is no first
\* block at which another would leave it.
LEMMA WayIsPlaces ==
  ASSUME NEW n \in 1 .. Len(placed), Len(placed) \in Nat,
         \A i \in 1 .. n : Whole(placed[i]) /\ Readable(i)
  PROVE  ReaderAt(n) = placed[n].at
<1>1. n \in Nat /\ 1 .. n \subseteq 1 .. Len(placed)
  OBVIOUS
<1>2. ASSUME NEW i \in 1 .. n, i # 1
      PROVE  i - 1 \in 1 .. n /\ GoesOn(placed[i - 1].at) = placed[i].at
  <2>1. i - 1 \in 1 .. n /\ i - 1 \in 1 .. Len(placed) /\ i - 1 # Len(placed) /\ (i - 1) + 1 = i
    BY <1>2
  <2>2. Behind(i - 1) = placed[i].at
    BY <2>1 DEF Behind
  <2>3. Whole(placed[i - 1]) /\ Readable(i - 1)
    BY <2>1
  <2>4. QED BY <2>1, <2>2, <2>3, GoesOnBehind, Zenon
<1>3. IsWay([i \in 1 .. n |-> placed[i].at], n)
  <2> DEFINE at == [i \in 1 .. n |-> placed[i].at]
  <2>1. ASSUME NEW i \in 1 .. n
        PROVE  placed[i].at = IF i = 1 THEN placed[1].at ELSE GoesOn(at[i - 1])
    <3>1. CASE i = 1
      BY <3>1
    <3>2. CASE i # 1
      <4>1. i - 1 \in 1 .. n /\ GoesOn(placed[i - 1].at) = placed[i].at
        BY <1>2, <3>2
      <4>2. at[i - 1] = placed[i - 1].at
        BY <4>1
      <4> HIDE DEF at
      <4>3. QED BY <3>2, <4>1, <4>2, Zenon
    <3>3. QED BY <3>1, <3>2
  <2>2. [i \in 1 .. n |-> placed[i].at] =
          [i \in 1 .. n |-> IF i = 1 THEN placed[1].at ELSE GoesOn(at[i - 1])]
    <3> HIDE DEF at
    <3>1. QED BY <2>1, Zenon
  <2>3. QED BY <2>2, Zenon DEF IsWay
<1>4. PICK at : at = (CHOOSE f : IsWay(f, n))
  OBVIOUS
<1>5. IsWay(at, n)
  BY <1>3, <1>4, Zenon
<1>6. ASSUME NEW i \in 1 .. n
      PROVE  at[i] = IF i = 1 THEN placed[1].at ELSE GoesOn(at[i - 1])
  BY <1>5, Zenon DEF IsWay
<1> DEFINE Left == {i \in 1 .. n : at[i] # placed[i].at}
<1>7. ASSUME Left # {}
      PROVE  FALSE
  <2>1. Left \subseteq Nat
    BY <1>1
  <2>2. PICK i \in Left : \A y \in Left : i <= y
    BY <1>7, <2>1, Least
  <2>3. i \in 1 .. n /\ at[i] # placed[i].at
    OBVIOUS
  <2>4. i # 1
    BY <1>6, <2>3
  <2>5. i - 1 \in 1 .. n /\ GoesOn(placed[i - 1].at) = placed[i].at
    BY <1>2, <2>3, <2>4
  <2>6. i - 1 \notin Left
    <3>1. ~ (i <= i - 1)
      BY <2>3
    <3>2. QED BY <2>2, <3>1
  <2>7. at[i - 1] = placed[i - 1].at
    BY <2>5, <2>6
  <2> HIDE DEF Left
  <2>8. QED BY <1>6, <2>3, <2>4, <2>5, <2>7, Zenon
<1>8. at[n] = placed[n].at
  <2>1. n \in 1 .. n
    BY <1>1
  <2>2. QED BY <1>7, <2>1
<1>9. QED BY <1>4, <1>8, ReaderOnItsWay, Zenon

\* Whatever blocks are put, a receiver that follows the lengths finds them as they
\* were put, up to the first that was clipped, cut or has no value.
THEOREM WholeBlocksRead == Spec => []ReadsBack
<1>1. IInv => ReadsBack
  <2> SUFFICES ASSUME IInv, pc = "idle"
               PROVE  ReadsBack
    BY DEF ReadsBack
  <2>1. ~ Odd(Len(out)) /\ Len(placed) \in Nat
    BY DEF IInv, EvenOutside, TypeOK
  <2>2. \A i \in 1 .. Len(placed) : Readable(i)
    BY DEF IInv, Before
  <2>3. ASSUME NEW n \in 1 .. Len(placed), \A i \in 1 .. n : Whole(placed[i])
        PROVE  /\ ReaderAt(n) = placed[n].at
               /\ HeaderInPlace(placed[n]) /\ ValueInPlace(placed[n])
               /\ GoesOn(ReaderAt(n)) = Behind(n)
    <3>1. \A i \in 1 .. n : Whole(placed[i]) /\ Readable(i)
      <4>1. 1 .. n \subseteq 1 .. Len(placed)
        BY <2>1
      <4>2. QED BY <2>2, <2>3, <4>1, Zenon
    <3>2. ReaderAt(n) = placed[n].at
      BY <2>1, <3>1, WayIsPlaces, Zenon
    <3>3. n \in 1 .. n
      BY <2>1
    <3>4. QED BY <3>1, <3>2, <3>3, GoesOnBehind, Zenon
  <2>4. QED BY <2>1, <2>3, Zenon DEF ReadsBack
<1>2. QED BY Invariance, <1>1, PTL

-----------------------------------------------------------------------------
(***************************************************************************)
(* The steps of a call amount to pf_dcp_put_block in one piece.            *)
(***************************************************************************)

\* What the call under way, or the last one, found, and what it has put of its
\* block at each of its places.
Found == SubSeq(out, 1, Last.at)
HeadPut == PutHeaderOf(Found, dst_max, Last.block)
BodyPut == pf_put_mem(HeadPut, dst_max, ValueOf(Last.block))
FullPut == IF Odd(Len(BodyPut)) THEN pf_put_byte(BodyPut, dst_max, 0) ELSE BodyPut

InPieces ==
  placed # <<>> =>
    /\ Last.at + Last.block.length < dst_max
    /\ pc = "value" => out = HeadPut
    /\ pc = "pad" => out = BodyPut \/ (~ Odd(Len(out)) /\ out = FullPut)
    /\ pc = "idle" => out = FullPut

LEMMA FoundKept ==
  ASSUME NEW s \in Seq(Byte), NEW t \in Seq(Byte), Extends(s, t), NEW n \in 0 .. Len(s)
  PROVE  SubSeq(t, 1, n) = SubSeq(s, 1, n)
BY DEF Extends

LEMMA FoundAll ==
  ASSUME NEW s \in Seq(Byte)
  PROVE  SubSeq(s, 1, Len(s)) = s
OBVIOUS

\* One byte of padding is enough, and where there is no room for it nothing changes.
LEMMA PadOnce ==
  ASSUME NEW s \in Seq(Byte), NEW r \in Nat, Len(s) <= r, Odd(Len(s))
  PROVE  pf_put_byte(s, r, 0) = s \/ ~ Odd(Len(pf_put_byte(s, r, 0)))
<1>1. CASE Len(s) >= r
  BY <1>1, Zenon DEF pf_put_byte
<1>2. CASE ~ (Len(s) >= r)
  <2>1. 0 \in Byte
    BY DEF Byte
  <2>2. Len(pf_put_byte(s, r, 0)) = Len(s) + 1
    BY <1>2, <2>1, PutByte
  <2>3. \A n \in Nat : Odd(n) => ~ Odd(n + 1)
    BY DEF Odd
  <2>4. Len(s) \in Nat
    OBVIOUS
  <2>5. QED BY <2>2, <2>3, <2>4, Zenon
<1>3. QED BY <1>1, <1>2

\* Where the last block begins, while a call runs or after it.
LEMMA LastTyped ==
  ASSUME IInv, placed # <<>>
  PROVE  /\ Last \in Placed /\ Last.at \in 0 .. Len(out) /\ Last.block \in Blocks
         /\ pc # "idle" => Last.block = block
<1>1. placed \in Seq(Placed)
  BY Zenon DEF IInv, TypeOK, Placed
<1>2. Len(placed) \in 1 .. Len(placed)
  BY <1>1
<1>3. Last \in Placed
  BY <1>1, <1>2, ElementOfSeq DEF Last
<1>4. Last.at <= Len(out)
  BY <1>2 DEF IInv, Positions, Last
<1>5. Last.at \in 0 .. Len(out) /\ Last.block \in Blocks
  <2>1. Last.at \in Nat /\ Last.block \in Blocks
    BY <1>3, PlacedTyped
  <2>2. Len(out) \in Nat
    BY DEF IInv, TypeOK
  <2>3. QED BY <1>4, <2>1, <2>2
<1>6. QED BY <1>3, <1>5, Zenon DEF IInv, Current

\* What a step behind the bytes that were found leaves alone.
LEMMA PiecesKept ==
  ASSUME IInv, placed # <<>>, UNCHANGED <<dst_max, placed>>,
         out' \in Seq(Byte), Extends(out, out')
  PROVE  /\ Last' = Last /\ Found' = Found /\ HeadPut' = HeadPut
         /\ BodyPut' = BodyPut /\ FullPut' = FullPut
<1>1. Last' = Last
  BY Zenon DEF Last
<1>2. Found' = Found
  <2>1. out \in Seq(Byte)
    BY DEF IInv, TypeOK
  <2>2. SubSeq(out', 1, Last.at) = SubSeq(out, 1, Last.at)
    BY <2>1, LastTyped, FoundKept, Zenon
  <2>3. QED BY <1>1, <2>2, Zenon DEF Found
<1>3. HeadPut' = HeadPut
  BY <1>1, <1>2, Zenon DEF HeadPut
<1>4. BodyPut' = BodyPut
  BY <1>1, <1>3, Zenon DEF BodyPut
<1>5. FullPut' = FullPut
  BY <1>4, Zenon DEF FullPut
<1>6. QED BY <1>1, <1>2, <1>3, <1>4, <1>5

LEMMA PutHeaderPieces ==
  ASSUME IInv, PutHeader
  PROVE  InPieces'
<1>1. /\ pc' = "value" /\ UNCHANGED dst_max /\ block' \in Blocks
      /\ Len(out) + block'.length < dst_max
      /\ placed' = Append(placed, [at |-> Len(out), block |-> block'])
      /\ out' = PutHeaderOf(out, dst_max, block')
  BY DEF PutHeader, PutHeaderOf, Accepts
<1>2. /\ out \in Seq(Byte) /\ dst_max \in Nat /\ Len(out) <= dst_max /\ placed \in Seq(Placed)
  BY Assumed, Zenon DEF IInv, TypeOK, WithinRoom, Placed
<1>3. out' \in Seq(Byte) /\ Extends(out, out')
  <2>1. PICK b \in BlockType : b = block'
    BY <1>1, Assumed
  <2>2. HasHeader(out, dst_max, b, out')
    BY <1>1, <1>2, <2>1, PutsHeader
  <2>3. QED BY <2>2, Zenon DEF HasHeader
<1>4. Last' = [at |-> Len(out), block |-> block']
  <2>1. [at |-> Len(out), block |-> block'] \in Placed
    BY <1>1, <1>2 DEF Placed
  <2>2. placed'[Len(placed')] = [at |-> Len(out), block |-> block']
    BY <1>1, <1>2, <2>1, AppendProperties
  <2>3. QED BY <2>2, Zenon DEF Last
<1>5. Last'.at = Len(out) /\ Last'.block = block'
  BY <1>4
<1>6. Found' = out
  <2>1. Len(out) \in 0 .. Len(out)
    BY <1>2
  <2>2. SubSeq(out', 1, Len(out)) = out
    BY <1>2, <1>3, <2>1, FoundKept, FoundAll, Zenon
  <2>3. QED BY <1>5, <2>2, Zenon DEF Found
<1>7. HeadPut' = out'
  BY <1>1, <1>5, <1>6, Zenon DEF HeadPut
<1>8. QED BY <1>1, <1>5, <1>7 DEF InPieces

LEMMA PutValuePieces ==
  ASSUME IInv, InPieces, PutValue
  PROVE  InPieces'
<1>1. /\ pc = "value" /\ pc' = "pad" /\ UNCHANGED <<dst_max, block, placed>>
      /\ out \in Seq(Byte) /\ dst_max \in Nat /\ Len(out) <= dst_max /\ block \in Blocks
  BY Assumed, Zenon DEF PutValue, IInv, TypeOK, WithinRoom
<1>2. placed # <<>> /\ Last.block = block
  BY <1>1, LastTyped DEF IInv, Current
<1>3. out' = pf_put_mem(out, dst_max, ValueOf(block))
  <2>1. CASE block.null
    <3>1. out' = out /\ ValueOf(block) = <<>>
      BY <2>1, Zenon DEF PutValue, ValueOf
    <3>2. pf_put_mem(out, dst_max, <<>>) = out
      BY <1>1 DEF pf_put_mem
    <3>3. QED BY <3>1, <3>2, Zenon
  <2>2. CASE ~ block.null
    BY <2>2, Zenon DEF PutValue, ValueOf
  <2>3. QED BY <2>1, <2>2
<1>4. out' \in Seq(Byte) /\ Extends(out, out')
  <2>1. CASE block.null
    BY <1>1, <2>1 DEF PutValue, Extends
  <2>2. CASE ~ block.null
    <3>1. block.length \in Nat /\ block.data \in Byte
      BY <1>1, Assumed, BlockTyped
    <3>2. PutsMem(out, dst_max, block.length, block.data, out')
      BY <1>1, <2>2, <3>1, PutMem DEF PutValue
    <3>3. QED BY <3>2, Zenon DEF PutsMem
  <2>3. QED BY <2>1, <2>2
<1>5. Last' = Last /\ BodyPut' = BodyPut
  BY <1>1, <1>2, <1>4, PiecesKept
<1>6. out' = BodyPut
  BY <1>1, <1>2, <1>3, Zenon DEF InPieces, BodyPut
<1>7. Last.at + Last.block.length < dst_max
  BY <1>2 DEF InPieces
<1>8. pc' # "value" /\ pc' # "idle"
  BY <1>1
<1>9. Last'.at + Last'.block.length < dst_max'
  BY <1>1, <1>5, <1>7, Zenon
<1>10. out' = BodyPut'
  BY <1>5, <1>6, Zenon
<1>11. QED BY <1>8, <1>9, <1>10, Zenon DEF InPieces

LEMMA PadPieces ==
  ASSUME IInv, InPieces, Pad
  PROVE  InPieces'
<1>1. /\ pc = "pad" /\ UNCHANGED <<dst_max, pc, block, placed>> /\ Odd(Len(out))
      /\ out' = pf_put_byte(out, dst_max, 0)
      /\ out \in Seq(Byte) /\ dst_max \in Nat /\ Len(out) <= dst_max
  BY Assumed, Zenon DEF Pad, IInv, TypeOK, WithinRoom
<1>2. placed # <<>>
  BY <1>1 DEF IInv, Current
<1>3. out' \in Seq(Byte) /\ Extends(out, out')
  <2>1. 0 \in Byte
    BY DEF Byte
  <2>2. QED BY <1>1, <2>1, PutByte
<1>4. Last' = Last /\ FullPut' = FullPut
  BY <1>1, <1>2, <1>3, PiecesKept
<1>5. out = BodyPut
  BY <1>1, <1>2 DEF InPieces
<1>6. out' = FullPut
  BY <1>1, <1>5, Zenon DEF FullPut
<1>7. out' = BodyPut \/ ~ Odd(Len(out'))
  BY <1>1, <1>5, PadOnce, Zenon
<1>8. BodyPut' = BodyPut
  BY <1>1, <1>2, <1>3, PiecesKept
<1>9. QED BY <1>1, <1>2, <1>4, <1>6, <1>7, <1>8 DEF InPieces

LEMMA ReturnPieces ==
  ASSUME IInv, InPieces, Return
  PROVE  InPieces'
<1>1. /\ pc = "pad" /\ pc' = "idle" /\ UNCHANGED <<dst_max, out, block, placed>> /\ ~ Odd(Len(out))
      /\ out \in Seq(Byte)
  BY Zenon DEF Return, IInv, TypeOK
<1>2. placed # <<>>
  BY <1>1 DEF IInv, Current
<1>3. Last' = Last /\ FullPut' = FullPut
  <2>1. Extends(out, out')
    BY <1>1 DEF Extends
  <2>2. QED BY <1>1, <1>2, <2>1, PiecesKept
<1>4. out = FullPut
  BY <1>1, <1>2, Zenon DEF InPieces, FullPut
<1>5. QED BY <1>1, <1>2, <1>3, <1>4 DEF InPieces

LEMMA PiecesStand ==
  ASSUME IInv, InPieces, UNCHANGED <<dst_max, out, pc, placed>>
  PROVE  InPieces'
<1>1. out' \in Seq(Byte) /\ Extends(out, out')
  BY DEF IInv, TypeOK, Extends
<1>2. placed # <<>> => /\ Last' = Last /\ HeadPut' = HeadPut
                       /\ BodyPut' = BodyPut /\ FullPut' = FullPut
  BY <1>1, PiecesKept
<1>3. QED BY <1>2, Zenon DEF InPieces

LEMMA InPiecesKept ==
  ASSUME IInv, InPieces, [Next]_vars
  PROVE  InPieces'
<1>1. CASE NextFrame
  BY <1>1 DEF NextFrame, NewBuffer, InPieces
<1>2. CASE SkipBlock
  BY <1>2, PiecesStand DEF SkipBlock
<1>3. CASE UNCHANGED vars
  BY <1>3, PiecesStand DEF vars
<1>4. QED
  BY <1>1, <1>2, <1>3, PutHeaderPieces, PutValuePieces, PadPieces, ReturnPieces
     DEF Next, Call, Inside

\* In buffers of every size, with room for the block or without: the steps of a
\* call that returns do what pf_dcp_put_block does in one piece, which is how
\* the requests of DcpRequests put their block.
THEOREM PutInOnePiece == Spec => []InOnePiece
<1>1. Init => InPieces
  BY DEF Init, InPieces
<1>2. IInv /\ InPieces /\ [Next]_vars => InPieces'
  BY InPiecesKept
<1>3. IInv /\ InPieces => InOnePiece
  <2> SUFFICES ASSUME IInv, InPieces, pc = "idle", placed # <<>>
               PROVE  out = pf_dcp_put_block(Found, dst_max, Last.block.opt, Last.block.sub,
                                             Last.block.length, ValueOf(Last.block))
    BY Zenon DEF InOnePiece, Found
  <2>1. out = FullPut /\ Last.at + Last.block.length < dst_max
    BY DEF InPieces
  <2>2. Len(Found) = Last.at
    <3>1. Last.at \in 0 .. Len(out) /\ out \in Seq(Byte)
      BY LastTyped DEF IInv, TypeOK
    <3>2. QED BY <3>1 DEF Found
  <2>3. Len(Found) + Last.block.length < dst_max
    BY <2>1, <2>2, Zenon
  <2>4. QED
    BY <2>1, <2>3, Zenon DEF pf_dcp_put_block, FullPut, BodyPut, HeadPut, PutHeaderOf, Odd
<1>4. QED BY Invariance, <1>1, <1>2, <1>3, PTL DEF Spec

-----------------------------------------------------------------------------
(***************************************************************************)
(* The requests of DcpRequests: the frame that Fill makes of a header of   *)
(* 26 bytes, in a room of 60.                                              *)
(***************************************************************************)

Octet == Byte \cup {Garbage}

LEMMA FunctionKnown ==
  ASSUME NEW f \in Functions
  PROVE  /\ f = Set => f.asks = 0 /\ f.closes /\ f.length = 4
         /\ f = Get => f.asks = 0 /\ f.closes /\ f.length = 0
         /\ f = SetIp => f.asks = 3 /\ ~ f.closes /\ f.length = 14
         /\ f.opt \in Octet /\ f.sub \in Octet
         /\ f \in {Set, Get, SetIp} /\ Set # Get /\ Set # SetIp /\ Get # SetIp
BY DEF Functions, Set, Get, SetIp, Octet, Byte

\* What stands behind one another.
IsJoined(s, t, u) ==
  /\ u \in Seq(Octet) /\ Len(u) = Len(s) + Len(t)
  /\ \A i \in 1 .. Len(s) : u[i] = s[i]
  /\ \A i \in 1 .. Len(t) : u[Len(s) + i] = t[i]

LEMMA Joined ==
  ASSUME NEW s \in Seq(Octet), NEW t \in Seq(Octet)
  PROVE  IsJoined(s, t, s \o t)
BY DEF IsJoined

\* A byte goes behind the others where there is room.
GotByte(s, v, t) ==
  /\ t \in Seq(Octet) /\ Len(t) = Len(s) + 1 /\ t[Len(s) + 1] = v
  /\ \A i \in 1 .. Len(s) : t[i] = s[i]

LEMMA ByteBehind ==
  ASSUME NEW s \in Seq(Octet), NEW r \in Nat, NEW v \in Octet, Len(s) < r
  PROVE  GotByte(s, v, pf_put_byte(s, r, v))
<1>1. pf_put_byte(s, r, v) = Append(s, v)
  BY DEF pf_put_byte
<1>2. QED BY <1>1 DEF GotByte

\* Four bytes go behind the others.
GotFour(s, a, b, c, d, t) ==
  /\ t \in Seq(Octet) /\ Len(t) = Len(s) + 4
  /\ t[Len(s) + 3] = c /\ t[Len(s) + 4] = d

LEMMA FourBehind ==
  ASSUME NEW s \in Seq(Octet), NEW r \in Nat, Len(s) + 4 <= r,
         NEW a \in Octet, NEW b \in Octet, NEW c \in Octet, NEW d \in Octet
  PROVE  GotFour(s, a, b, c, d, Four(s, r, a, b, c, d))
<1> DEFINE s1 == pf_put_byte(s, r, a)
           s2 == pf_put_byte(s1, r, b)
           s3 == pf_put_byte(s2, r, c)
           s4 == pf_put_byte(s3, r, d)
<1>1. Len(s) < r /\ Len(s) + 1 < r /\ Len(s) + 2 < r /\ Len(s) + 3 < r /\ Len(s) \in Nat
  OBVIOUS
<1>2. GotByte(s, a, s1)
  BY <1>1, ByteBehind
<1> HIDE DEF s1
<1>3. s1 \in Seq(Octet) /\ Len(s1) = Len(s) + 1
  BY <1>2 DEF GotByte
<1>4. GotByte(s1, b, s2)
  BY <1>1, <1>3, ByteBehind
<1> HIDE DEF s2
<1>5. s2 \in Seq(Octet) /\ Len(s2) = Len(s) + 2
  BY <1>1, <1>3, <1>4 DEF GotByte
<1>6. GotByte(s2, c, s3)
  BY <1>1, <1>5, ByteBehind
<1> HIDE DEF s3
<1>7. s3 \in Seq(Octet) /\ Len(s3) = Len(s) + 3 /\ s3[Len(s) + 3] = c
  BY <1>1, <1>5, <1>6 DEF GotByte
<1>8. GotByte(s3, d, s4)
  BY <1>1, <1>7, ByteBehind
<1> HIDE DEF s4
<1>9. /\ s4 \in Seq(Octet) /\ Len(s4) = Len(s) + 4
      /\ s4[Len(s) + 3] = c /\ s4[Len(s) + 4] = d
  BY <1>1, <1>7, <1>8 DEF GotByte
<1>10. Four(s, r, a, b, c, d) = s4
  BY Zenon DEF Four, s1, s2, s3, s4
<1>11. QED BY <1>9, <1>10, Zenon DEF GotFour

\* The frame of a block with a value of n bytes that is even and fits: its
\* length, the two bytes of its length and its value.
IsFrame(t, length, value) ==
  /\ t \in Seq(Octet) /\ Len(t) = 30 + Len(value)
  /\ t[29] = length \div 256 /\ t[30] = length % 256
  /\ \A k \in 1 .. Len(value) : t[30 + k] = value[k]

LEMMA BehindHeader ==
  ASSUME NEW h, h = 26
  PROVE  h + 3 = 29 /\ h + 4 = 30 /\ h + 4 <= 60 /\ 60 \in Nat
OBVIOUS

LEMMA RoomForValue ==
  ASSUME NEW n, NEW h, h = 30, n = 0 \/ n = 14
  PROVE  ~ (h + n >= 60)
OBVIOUS

LEMMA DataBehindHeader ==
  ASSUME NEW n, NEW m, m = 30 + n, n = 0 \/ n = 14, NEW h, h = 26
  PROVE  m - h = 4 + n
OBVIOUS

LEMMA WordOfLength ==
  ASSUME NEW length \in 0 .. 14
  PROVE  Word(length \div 256, length % 256) = length
BY DEF Word

LEMMA FrameFits ==
  ASSUME NEW n, NEW m, m = 30 + n, n = 0 \/ n = 14
  PROVE  m <= 60 /\ 4 + n \in Nat
OBVIOUS

LEMMA FrameFilled ==
  ASSUME NEW opt \in Octet, NEW sub \in Octet, NEW length \in 0 .. 14,
         NEW value \in Seq(Octet), Len(value) \in {0, 14}
  PROVE  IsFrame(pf_dcp_put_block(Header, 60, opt, sub, length, value), length, value)
<1>1. Header \in Seq(Octet) /\ Len(Header) = 26
  BY DEF Header, Octet, Byte
<1>2. length \div 256 \in Octet /\ length % 256 \in Octet
  BY DEF Octet, Byte
<1> DEFINE head == Four(Header, 60, opt, sub, length \div 256, length % 256)
           body == pf_put_mem(head, 60, value)
<1>3. /\ head \in Seq(Octet) /\ Len(head) = 30
      /\ head[29] = length \div 256 /\ head[30] = length % 256
  <2>1. ASSUME NEW a \in Octet, NEW b \in Octet, NEW c \in Octet, NEW d \in Octet
        PROVE  GotFour(Header, a, b, c, d, Four(Header, 60, a, b, c, d))
    <3>1. Len(Header) + 4 <= 60 /\ 60 \in Nat
      BY <1>1, BehindHeader, Zenon
    <3>2. QED BY <1>1, <3>1, FourBehind
  <2>2. GotFour(Header, opt, sub, length \div 256, length % 256, head)
    BY <1>2, <2>1
  <2>3. Len(Header) + 3 = 29 /\ Len(Header) + 4 = 30
    BY <1>1, BehindHeader, Zenon
  <2> HIDE DEF head
  <2>4. QED BY <2>2, <2>3, Zenon DEF GotFour
<1>4. head = pf_put_uint16(TRUE, pf_put_byte(pf_put_byte(Header, 60, opt), 60, sub), 60, length)
  BY Zenon DEF Four, pf_put_uint16
<1> HIDE DEF head
<1>5. body = head \o value
  <2>1. Len(head) = 30 /\ (Len(value) = 0 \/ Len(value) = 14)
    BY <1>3
  <2>2. ~ (Len(head) + Len(value) >= 60)
    BY <2>1, RoomForValue
  <2>3. QED BY <2>2, Zenon DEF pf_put_mem, body
<1> HIDE DEF body
<1>6. /\ body \in Seq(Octet) /\ Len(body) = 30 + Len(value)
      /\ \A k \in 1 .. 30 : body[k] = head[k]
      /\ \A k \in 1 .. Len(value) : body[30 + k] = value[k]
  <2>1. IsJoined(head, value, body)
    BY <1>3, <1>5, Joined, Zenon
  <2>2. QED BY <1>3, <2>1 DEF IsJoined
<1>7. Len(body) % 2 # 1 /\ Len(Header) + length < 60
  <2>1. Len(value) = 0 \/ Len(value) = 14
    OBVIOUS
  <2>2. CASE Len(value) = 0
    <3>1. Len(body) = 30
      BY <1>6, <2>2
    <3>2. QED BY <1>1, <3>1
  <2>3. CASE Len(value) = 14
    <3>1. Len(body) = 44
      BY <1>6, <2>3
    <3>2. QED BY <1>1, <3>1
  <2>4. QED BY <2>1, <2>2, <2>3, Zenon
<1>8. pf_dcp_put_block(Header, 60, opt, sub, length, value) = body
  BY <1>4, <1>7, Zenon DEF pf_dcp_put_block, body
<1>9. body[29] = length \div 256 /\ body[30] = length % 256
  BY <1>3, <1>6
<1>10. QED BY <1>6, <1>8, <1>9, Zenon DEF IsFrame

-----------------------------------------------------------------------------
(***************************************************************************)
(* The invariant of the requests: what has been read is what was typed,    *)
(* and a call that has something stuck before it reads nothing at all.     *)
(***************************************************************************)

\* The k-th byte of o is what the lines of t say.
ReadAs(o, t, k) ==
  o[k] = IF LineOf(k) <= Len(t) /\ PlaceOf(k) <= Len(t[LineOf(k)].numbers)
         THEN t[LineOf(k)].numbers[PlaceOf(k)] % 256 ELSE Garbage

OctetsRead ==
  /\ 4 * Len(typed) <= Len(octets)
  /\ \A k \in 1 .. Len(octets) : octets[k] = IF IsTyped(k) THEN Number(k) % 256 ELSE Garbage
  /\ step = "ask" /\ ~ stuck => Len(octets) = 4 * Len(typed)
  /\ deaf => stuck /\ typed = <<>>

\* How much a call has read, at each of its places.
Asked ==
  /\ step \in {"socket", "buffer"} => octets = <<>>
  /\ step = "ask" => call = SetIp /\ Len(octets) < 12
  /\ step = "fill" => Len(octets) = IF call = SetIp THEN 12 ELSE 0

RequestsIInv ==
  /\ RequestsTypeOK
  /\ SocketsAccounted
  /\ OctetsRead
  /\ Asked
  /\ BlockFillsData
  /\ CarriesWhatWasRead

LEMMA HeaderTyped == Header \in Seq(Octet) /\ Len(Header) = 26
BY DEF Header, Octet, Byte

LEMMA EmptyTyped ==
  /\ <<>> \in Seq(Byte \cup {Garbage}) /\ Len(<<>>) = 0 /\ <<>> \in Seq(Lines)
  /\ Header \in Seq(Byte \cup {Garbage}) /\ Len(Header) <= 60
BY HeaderTyped DEF Octet

LEMMA RequestsInitInv == RequestsInit => RequestsIInv
<1> SUFFICES ASSUME RequestsInit PROVE RequestsIInv
  OBVIOUS
<1>1. RequestsTypeOK
  <2>1. MaxFd \in Nat
    BY RequestsAssumption
  <2>2. /\ step = "idle" /\ call \in Functions /\ fds = 0 /\ others = 0 /\ leaks = 0
        /\ stuck = FALSE /\ deaf = FALSE /\ octets = <<>> /\ typed = <<>>
        /\ frame.bytes = Header /\ frame.data_length = 0
    BY DEF RequestsInit
  <2>3. fds \in 0 .. MaxFd /\ others \in 0 .. MaxFd /\ leaks \in 0 .. MaxFd
    BY <2>1, <2>2
  <2>4. octets \in Seq(Byte \cup {Garbage}) /\ Len(octets) \in {0, 4, 8, 12} /\ typed \in Seq(Lines)
    BY <2>2, EmptyTyped
  <2>5. frame.bytes \in Seq(Byte \cup {Garbage}) /\ Len(frame.bytes) <= 60 /\ frame.data_length \in Nat
    BY <2>2, EmptyTyped
  <2>6. stuck \in BOOLEAN /\ deaf \in BOOLEAN /\ call \in Functions
        /\ step \in {"idle", "socket", "buffer", "ask", "fill", "send", "close"}
    BY <2>2
  <2>7. QED BY <2>3, <2>4, <2>5, <2>6, Zenon DEF RequestsTypeOK
<1>2. SocketsAccounted /\ Asked /\ BlockFillsData /\ CarriesWhatWasRead
  BY DEF RequestsInit, SocketsAccounted, Asked, BlockFillsData, CarriesWhatWasRead
<1>3. OctetsRead
  BY DEF RequestsInit, OctetsRead
<1>4. QED BY <1>1, <1>2, <1>3 DEF RequestsIInv

LEMMA BeginInv ==
  ASSUME RequestsIInv, NEW f \in Functions, Begin(f)
  PROVE  RequestsIInv'
<1>1. /\ step = "idle" /\ step' = "socket" /\ call' = f /\ octets' = <<>> /\ typed' = <<>>
      /\ deaf' = stuck /\ frame' = [bytes |-> Header, data_length |-> 0]
      /\ stuck' = stuck /\ fds' = fds /\ others' = others /\ leaks' = leaks
  BY DEF Begin, sockets
<1>2. RequestsTypeOK'
  BY <1>1, EmptyTyped DEF RequestsIInv, RequestsTypeOK
<1>3. SocketsAccounted' /\ Asked' /\ BlockFillsData' /\ CarriesWhatWasRead'
  BY <1>1 DEF RequestsIInv, SocketsAccounted, Asked, BlockFillsData, CarriesWhatWasRead
<1>4. OctetsRead'
  BY <1>1 DEF RequestsIInv, RequestsTypeOK, OctetsRead
<1>5. QED BY <1>2, <1>3, <1>4 DEF RequestsIInv

\* A step that leaves alone what was read and what was put keeps what is known of
\* them, if it does not send.
LEMMA InputKept ==
  ASSUME RequestsIInv, UNCHANGED <<call, input>>, step' # "send" \/ UNCHANGED <<step, frame>>,
         step' = "ask" => step = "ask" \/ octets = <<>>
  PROVE  OctetsRead' /\ BlockFillsData' /\ CarriesWhatWasRead'
<1>1. /\ stuck' = stuck /\ octets' = octets /\ typed' = typed /\ deaf' = deaf /\ call' = call
  BY DEF input
<1>2. OctetsRead'
  <2>1. typed \in Seq(Lines)
    BY DEF RequestsIInv, RequestsTypeOK
  <2>2. octets = <<>> => Len(octets) = 4 * Len(typed)
    BY <2>1 DEF RequestsIInv, OctetsRead
  <2>3. /\ 4 * Len(typed) <= Len(octets)
        /\ \A k \in 1 .. Len(octets) :
              octets[k] = IF IsTyped(k) THEN Number(k) % 256 ELSE Garbage
        /\ deaf => stuck /\ typed = <<>>
        /\ step = "ask" /\ ~ stuck => Len(octets) = 4 * Len(typed)
    BY DEF RequestsIInv, OctetsRead
  <2>4. \A k \in 1 .. Len(octets) : ReadAs(octets, typed, k)
    BY <2>3, Zenon DEF ReadAs, IsTyped, Number
  <2>5. \A k \in 1 .. Len(octets') : ReadAs(octets', typed', k)
    BY <1>1, <2>4, Zenon
  <2>6. \A k \in 1 .. Len(octets') :
           octets'[k] = IF IsTyped(k)' THEN Number(k)' % 256 ELSE Garbage
    BY <2>5, Zenon DEF ReadAs, IsTyped, Number
  <2>7. step' = "ask" /\ ~ stuck' => Len(octets') = 4 * Len(typed')
    BY <1>1, <2>2, <2>3, Zenon
  <2>8. QED BY <1>1, <2>3, <2>6, <2>7, Zenon DEF OctetsRead
<1>3. CASE step' # "send"
  BY <1>2, <1>3 DEF BlockFillsData, CarriesWhatWasRead
<1>4. CASE UNCHANGED <<step, frame>>
  <2>1. BlockFillsData'
    BY <1>1, <1>4, Zenon DEF RequestsIInv, BlockFillsData, BlockLength
  <2>2. CarriesWhatWasRead'
    BY <1>1, <1>4, Zenon DEF RequestsIInv, CarriesWhatWasRead, IsTyped, Number
  <2>3. QED BY <1>2, <2>1, <2>2
<1>5. QED BY <1>3, <1>4

\* What the steps that read nothing keep of the types.
LEMMA TypesKept ==
  ASSUME RequestsTypeOK, UNCHANGED <<call, input, frame>>,
         step' \in {"idle", "socket", "buffer", "ask", "fill", "send", "close"},
         fds' \in 0 .. MaxFd, others' \in 0 .. MaxFd, leaks' \in 0 .. MaxFd
  PROVE  RequestsTypeOK'
BY Zenon DEF RequestsTypeOK, input

LEMMA OpenSocketInv ==
  ASSUME RequestsIInv, OpenSocket
  PROVE  RequestsIInv'
<1>1. /\ step = "socket" /\ step' = "buffer" /\ fds' = fds + 1 /\ fds + others < MaxFd
      /\ UNCHANGED <<call, input, frame, others, leaks>>
  BY DEF OpenSocket, Room
<1>2. fds \in Nat /\ others \in Nat /\ leaks \in Nat /\ MaxFd \in Nat
  BY RequestsAssumption DEF RequestsIInv, RequestsTypeOK
<1>3. fds' \in 0 .. MaxFd /\ others' \in 0 .. MaxFd /\ leaks' \in 0 .. MaxFd
  BY <1>1, <1>2 DEF RequestsIInv, RequestsTypeOK
<1>4. RequestsTypeOK'
  BY <1>1, <1>3, TypesKept DEF RequestsIInv
<1>5. SocketsAccounted'
  BY <1>1, <1>2 DEF RequestsIInv, SocketsAccounted
<1>6. Asked'
  BY <1>1 DEF RequestsIInv, Asked, input
<1>7. OctetsRead' /\ BlockFillsData' /\ CarriesWhatWasRead'
  BY <1>1, InputKept
<1>8. QED BY <1>4, <1>5, <1>6, <1>7 DEF RequestsIInv

LEMMA NoSocketInv ==
  ASSUME RequestsIInv, NoSocket
  PROVE  RequestsIInv'
<1>1. /\ step = "socket" /\ step' = "idle" /\ UNCHANGED <<call, input, frame, fds, others, leaks>>
  BY DEF NoSocket, sockets
<1>2. RequestsTypeOK'
  BY <1>1, TypesKept DEF RequestsIInv, RequestsTypeOK
<1>3. SocketsAccounted' /\ Asked'
  BY <1>1 DEF RequestsIInv, SocketsAccounted, Asked
<1>4. OctetsRead' /\ BlockFillsData' /\ CarriesWhatWasRead'
  BY <1>1, InputKept
<1>5. QED BY <1>2, <1>3, <1>4 DEF RequestsIInv

LEMMA TakeBufferInv ==
  ASSUME RequestsIInv, TakeBuffer
  PROVE  RequestsIInv'
<1>1. /\ step = "buffer" /\ step' \in {IF call.asks > 0 THEN "ask" ELSE "fill", "close"}
      /\ UNCHANGED <<call, input, frame, fds, others, leaks>>
  BY DEF TakeBuffer, sockets
<1>2. call \in Functions /\ octets = <<>> /\ octets' = <<>>
  BY <1>1 DEF RequestsIInv, RequestsTypeOK, Asked, input
<1>3. /\ step' = "ask" => call = SetIp
      /\ step' = "fill" => call # SetIp
      /\ step' \in {"ask", "fill", "close"}
  BY <1>1, <1>2, FunctionKnown
<1>4. RequestsTypeOK'
  BY <1>1, <1>3, TypesKept DEF RequestsIInv, RequestsTypeOK
<1>5. SocketsAccounted'
  BY <1>1, <1>3 DEF RequestsIInv, SocketsAccounted
<1>6. Asked'
  BY <1>1, <1>2, <1>3 DEF Asked
<1>7. OctetsRead' /\ BlockFillsData' /\ CarriesWhatWasRead'
  BY <1>1, <1>2, <1>3, InputKept
<1>8. QED BY <1>4, <1>5, <1>6, <1>7 DEF RequestsIInv

LEMMA SendInv ==
  ASSUME RequestsIInv, Send
  PROVE  RequestsIInv'
<1>1. /\ step = "send" /\ step' = "close" /\ UNCHANGED <<call, input, frame, fds, others, leaks>>
  BY DEF Send, sockets
<1>2. RequestsTypeOK'
  BY <1>1, TypesKept DEF RequestsIInv, RequestsTypeOK
<1>3. SocketsAccounted' /\ Asked'
  BY <1>1 DEF RequestsIInv, SocketsAccounted, Asked
<1>4. OctetsRead' /\ BlockFillsData' /\ CarriesWhatWasRead'
  BY <1>1, InputKept
<1>5. QED BY <1>2, <1>3, <1>4 DEF RequestsIInv

LEMMA CloseInv ==
  ASSUME RequestsIInv, Close
  PROVE  RequestsIInv'
<1>1. /\ step = "close" /\ step' = "idle" /\ UNCHANGED <<call, input, frame, others>>
      /\ fds' = IF call.closes THEN fds - 1 ELSE fds
      /\ leaks' = IF call.closes THEN leaks ELSE leaks + 1
  BY DEF Close
<1>2. /\ fds \in Nat /\ fds <= MaxFd /\ leaks \in Nat /\ others \in 0 .. MaxFd /\ MaxFd \in Nat
      /\ fds = leaks + 1
  BY <1>1, RequestsAssumption DEF RequestsIInv, RequestsTypeOK, SocketsAccounted
<1>3. /\ fds' = leaks' /\ fds' \in 0 .. MaxFd /\ leaks' \in 0 .. MaxFd /\ others' \in 0 .. MaxFd
  <2>1. CASE call.closes
    BY <1>1, <1>2, <2>1
  <2>2. CASE ~ call.closes
    BY <1>1, <1>2, <2>2
  <2>3. QED BY <2>1, <2>2
<1>4. RequestsTypeOK'
  BY <1>1, <1>3, TypesKept DEF RequestsIInv
<1>5. SocketsAccounted' /\ Asked'
  BY <1>1, <1>3 DEF SocketsAccounted, Asked
<1>6. OctetsRead' /\ BlockFillsData' /\ CarriesWhatWasRead'
  BY <1>1, InputKept
<1>7. QED BY <1>4, <1>5, <1>6 DEF RequestsIInv

LEMMA OthersChangeInv ==
  ASSUME RequestsIInv, OthersChange
  PROVE  RequestsIInv'
<1>1. /\ others' \in 0 .. (MaxFd - fds) /\ UNCHANGED <<step, call, fds, leaks, input, frame>>
  BY DEF OthersChange
<1>2. fds \in 0 .. MaxFd /\ MaxFd \in Nat
  BY RequestsAssumption DEF RequestsIInv, RequestsTypeOK
<1>3. others' \in 0 .. MaxFd
  BY <1>1, <1>2
<1>4. RequestsTypeOK'
  BY <1>1, <1>3, TypesKept DEF RequestsIInv, RequestsTypeOK
<1>5. SocketsAccounted' /\ Asked'
  BY <1>1 DEF RequestsIInv, SocketsAccounted, Asked, input
<1>6. OctetsRead' /\ BlockFillsData' /\ CarriesWhatWasRead'
  BY <1>1, InputKept
<1>7. QED BY <1>4, <1>5, <1>6 DEF RequestsIInv

LEMMA StandStill ==
  ASSUME RequestsIInv, UNCHANGED requestVars
  PROVE  RequestsIInv'
<1>1. UNCHANGED <<step, call, fds, others, leaks, input, frame>>
  BY DEF requestVars, sockets, input
<1>2. RequestsTypeOK'
  BY <1>1, TypesKept DEF RequestsIInv, RequestsTypeOK
<1>3. SocketsAccounted' /\ Asked'
  BY <1>1 DEF RequestsIInv, SocketsAccounted, Asked, input
<1>4. OctetsRead' /\ BlockFillsData' /\ CarriesWhatWasRead'
  BY <1>1, InputKept
<1>5. QED BY <1>2, <1>3, <1>4 DEF RequestsIInv

\* The places of a line's numbers among the bytes.
LEMMA PlacesOfLine ==
  ASSUME NEW m \in Nat
  PROVE  /\ \A j \in 1 .. 4 : LineOf(4 * m + j) = m + 1 /\ PlaceOf(4 * m + j) = j
         /\ \A k \in 1 .. 4 * m : LineOf(k) \in 1 .. m /\ PlaceOf(k) \in 1 .. 4
         /\ \A k \in Nat : k > 4 * m => LineOf(k) > m
BY DEF LineOf, PlaceOf

LEMMA LowByteRange == ASSUME NEW x \in Int PROVE x % 256 \in 0 .. 255
OBVIOUS

LEMMA SeqOfFunction ==
  ASSUME NEW S, NEW n \in Nat, NEW f \in [1 .. n -> S]
  PROVE  f \in Seq(S) /\ Len(f) = n
OBVIOUS

\* What one scanf leaves behind is four bytes, each of them what the line has.
GotLine(numbers, r) ==
  /\ r \in Seq(Octet) /\ Len(r) = 4
  /\ \A j \in 1 .. 4 : r[j] = IF j <= Len(numbers) THEN numbers[j] % 256 ELSE Garbage

LEMMA FourRead ==
  ASSUME NEW numbers \in Seq(Int)
  PROVE  GotLine(numbers, ReadOctets(numbers))
<1>1. \A j \in 1 .. 4 : (IF j <= Len(numbers) THEN LowByte(numbers[j]) ELSE Garbage) \in Octet
  <2> SUFFICES ASSUME NEW j \in 1 .. 4
               PROVE  (IF j <= Len(numbers) THEN LowByte(numbers[j]) ELSE Garbage) \in Octet
    OBVIOUS
  <2>1. CASE j <= Len(numbers)
    <3>1. numbers[j] \in Int
      BY <2>1
    <3>2. numbers[j] % 256 \in 0 .. 255
      BY <3>1, LowByteRange
    <3>3. QED BY <2>1, <3>2 DEF LowByte, Octet, Byte
  <2>2. CASE ~ (j <= Len(numbers))
    BY <2>2 DEF Octet
  <2>3. QED BY <2>1, <2>2
<1>2. ReadOctets(numbers) \in [1 .. 4 -> Octet]
  BY <1>1, Zenon DEF ReadOctets
<1>3. ReadOctets(numbers) \in Seq(Octet) /\ Len(ReadOctets(numbers)) = 4
  BY <1>2, SeqOfFunction
<1>4. \A j \in 1 .. 4 : ReadOctets(numbers)[j] =
          IF j <= Len(numbers) THEN numbers[j] % 256 ELSE Garbage
  BY Zenon DEF ReadOctets, LowByte
<1>5. QED BY <1>3, <1>4, Zenon DEF GotLine

LEMMA LineRead ==
  ASSUME NEW o \in Seq(Octet), NEW t \in Seq(Lines), NEW line \in Lines,
         Len(o) = 4 * Len(t), \A k \in 1 .. Len(o) : ReadAs(o, t, k)
  PROVE  LET oo == o \o ReadOctets(line.numbers)
         IN  oo \in Seq(Octet) /\ Len(oo) = Len(o) + 4
             /\ \A k \in 1 .. Len(oo) : ReadAs(oo, Append(t, line), k)
<1> DEFINE r == ReadOctets(line.numbers)
           oo == o \o r
           tt == Append(t, line)
           m == Len(t)
<1>1. line.numbers \in Seq(Int)
  BY RequestsAssumption DEF LineType
<1>2. /\ r \in Seq(Octet) /\ Len(r) = 4
      /\ \A j \in 1 .. 4 : r[j] = IF j <= Len(line.numbers) THEN line.numbers[j] % 256 ELSE Garbage
  BY <1>1, FourRead, Zenon DEF GotLine
<1> HIDE DEF r
<1>3. /\ oo \in Seq(Octet) /\ Len(oo) = Len(o) + 4
      /\ \A i \in 1 .. Len(o) : oo[i] = o[i]
      /\ \A i \in 1 .. 4 : oo[Len(o) + i] = r[i]
  <2>1. IsJoined(o, r, oo)
    BY <1>2, Joined, Zenon
  <2>2. QED BY <1>2, <2>1, Zenon DEF IsJoined
<1> HIDE DEF oo
<1>4. m \in Nat /\ Len(tt) = m + 1 /\ tt[m + 1] = line /\ \A i \in 1 .. m : tt[i] = t[i]
  OBVIOUS
<1> HIDE DEF tt
<1>5. ASSUME NEW k \in 1 .. Len(o)
      PROVE  ReadAs(oo, tt, k)
  <2>1. LineOf(k) \in 1 .. m /\ m \in Nat
    BY <1>4, PlacesOfLine
  <2>2. tt[LineOf(k)] = t[LineOf(k)] /\ LineOf(k) <= Len(tt) /\ LineOf(k) <= Len(t)
    BY <1>4, <2>1
  <2>3. oo[k] = o[k] /\ ReadAs(o, t, k)
    BY <1>3
  <2>4. QED BY <2>2, <2>3, Zenon DEF ReadAs
<1>6. ASSUME NEW j \in 1 .. 4
      PROVE  ReadAs(oo, tt, Len(o) + j)
  <2>1. LineOf(4 * m + j) = m + 1 /\ PlaceOf(4 * m + j) = j
    BY <1>4, PlacesOfLine, Zenon
  <2> HIDE DEF m
  <2>2. LineOf(Len(o) + j) = m + 1 /\ PlaceOf(Len(o) + j) = j /\ m + 1 <= Len(tt)
    BY <1>4, <2>1 DEF m
  <2>3. oo[Len(o) + j] = r[j]
    BY <1>3
  <2>4. QED BY <1>2, <1>4, <2>2, <2>3, Zenon DEF ReadAs
<1>7. ASSUME NEW k \in 1 .. Len(oo)
      PROVE  ReadAs(oo, tt, k)
  <2>1. CASE k <= Len(o)
    <3>1. k \in 1 .. Len(o)
      BY <2>1
    <3>2. QED BY <1>5, <3>1
  <2>2. CASE ~ (k <= Len(o))
    <3>1. PICK j \in 1 .. 4 : k = Len(o) + j
      <4>1. k - Len(o) \in 1 .. 4 /\ k = Len(o) + (k - Len(o))
        <5>1. Len(o) \in Nat /\ k \in 1 .. Len(o) + 4
          BY <1>3
        <5>2. QED BY <5>1, <2>2
      <4>2. QED BY <4>1
    <3>2. QED BY <1>6, <3>1
  <2>3. QED BY <2>1, <2>2
<1>8. QED BY <1>3, <1>7 DEF oo, tt, r

LEMMA AmongFour ==
  ASSUME NEW n \in Nat, NEW m \in Nat, 4 * m <= n, NEW l, l = n + 4, NEW k \in 1 .. l, ~ (k <= n)
  PROVE  k \in Nat /\ k > 4 * m /\ k - n \in 1 .. 4 /\ k = n + (k - n)
OBVIOUS

LEMMA NothingRead ==
  ASSUME NEW o \in Seq(Octet), NEW t \in Seq(Lines),
         4 * Len(t) <= Len(o), \A k \in 1 .. Len(o) : ReadAs(o, t, k)
  PROVE  LET oo == o \o ReadOctets(<<>>)
         IN  oo \in Seq(Octet) /\ Len(oo) = Len(o) + 4 /\ \A k \in 1 .. Len(oo) : ReadAs(oo, t, k)
<1> DEFINE r == ReadOctets(<<>>)
           oo == o \o r
<1>1. <<>> \in Seq(Int) /\ Len(<<>>) = 0
  OBVIOUS
<1>2. r \in Seq(Octet) /\ Len(r) = 4 /\ \A j \in 1 .. 4 : r[j] = Garbage
  <2>1. GotLine(<<>>, r)
    BY <1>1, FourRead, Zenon
  <2>2. QED BY <2>1 DEF GotLine
<1> HIDE DEF r
<1>3. /\ oo \in Seq(Octet) /\ Len(oo) = Len(o) + 4
      /\ \A i \in 1 .. Len(o) : oo[i] = o[i]
      /\ \A i \in 1 .. 4 : oo[Len(o) + i] = r[i]
  <2>1. IsJoined(o, r, oo)
    BY <1>2, Joined, Zenon
  <2>2. QED BY <1>2, <2>1, Zenon DEF IsJoined
<1> HIDE DEF oo
<1>4. ASSUME NEW k \in 1 .. Len(oo)
      PROVE  ReadAs(oo, t, k)
  <2>1. CASE k <= Len(o)
    <3>1. k \in 1 .. Len(o)
      BY <2>1
    <3>2. oo[k] = o[k] /\ ReadAs(o, t, k)
      BY <1>3, <3>1
    <3>3. QED BY <3>2, Zenon DEF ReadAs
  <2>2. CASE ~ (k <= Len(o))
    <3>1. k \in Nat /\ k > 4 * Len(t) /\ Len(t) \in Nat /\ k - Len(o) \in 1 .. 4
          /\ k = Len(o) + (k - Len(o))
      <4>1. Len(oo) = Len(o) + 4 /\ Len(o) \in Nat /\ Len(t) \in Nat
        BY <1>3
      <4>2. QED BY <2>2, <4>1, AmongFour, Zenon
    <3>2. LineOf(k) > Len(t) /\ LineOf(k) \in Int
      BY <3>1, PlacesOfLine DEF LineOf
    <3>3. ~ (LineOf(k) <= Len(t))
      BY <3>1, <3>2
    <3>4. oo[k] = Garbage
      BY <1>2, <1>3, <3>1
    <3>5. QED BY <3>3, <3>4, Zenon DEF ReadAs
  <2>3. QED BY <2>1, <2>2
<1>5. QED BY <1>3, <1>4 DEF oo, r

\* Four bytes more, up to twelve.
LEMMA FourMore ==
  ASSUME NEW n \in {0, 4, 8, 12}, n < 12
  PROVE  /\ n + 4 \in {4, 8, 12}
         /\ n = 4 * (3 - 1) => n + 4 = 12
         /\ n # 4 * (3 - 1) => n + 4 < 12
OBVIOUS

LEMMA ReadLineInv ==
  ASSUME RequestsIInv, ReadLine
  PROVE  RequestsIInv'
<1>1. PICK line \in Lines :
        /\ octets' = octets \o ReadOctets(line.numbers)
        /\ typed' = Append(typed, line)
        /\ stuck' = line.stuck
  BY DEF ReadLine
<1>2. /\ step = "ask" /\ ~ stuck /\ UNCHANGED <<call, deaf, fds, others, leaks, frame>>
      /\ step' = IF Len(octets) = 4 * (call.asks - 1) THEN "fill" ELSE "ask"
  BY DEF ReadLine, sockets
<1>3. /\ octets \in Seq(Octet) /\ typed \in Seq(Lines) /\ Len(octets) \in {0, 4, 8, 12}
      /\ call = SetIp /\ Len(octets) < 12 /\ Len(octets) = 4 * Len(typed) /\ call \in Functions
  BY <1>2 DEF RequestsIInv, RequestsTypeOK, Asked, OctetsRead, Octet
<1>4. \A k \in 1 .. Len(octets) : ReadAs(octets, typed, k)
  BY Zenon DEF RequestsIInv, OctetsRead, ReadAs, IsTyped, Number
<1>5. /\ octets' \in Seq(Octet) /\ Len(octets') = Len(octets) + 4
      /\ \A k \in 1 .. Len(octets') : ReadAs(octets', typed', k)
  BY <1>1, <1>3, <1>4, LineRead, Zenon
<1>6. /\ typed' \in Seq(Lines) /\ Len(typed') = Len(typed) + 1
      /\ line.stuck \in BOOLEAN
  BY <1>1, <1>3, RequestsAssumption DEF LineType
<1>7. /\ step' \in {"ask", "fill"} /\ Len(octets') \in {4, 8, 12}
      /\ step' = "ask" => Len(octets') < 12
      /\ step' = "fill" => Len(octets') = 12
  <2>1. call.asks = 3
    BY <1>3, FunctionKnown
  <2>2. /\ Len(octets) \in {0, 4, 8, 12} /\ Len(octets) < 12 /\ Len(octets') = Len(octets) + 4
        /\ step' = IF Len(octets) = 4 * (call.asks - 1) THEN "fill" ELSE "ask"
    BY <1>2, <1>3, <1>5, Zenon
  <2>3. QED BY <2>1, <2>2, FourMore, Zenon
<1>8. RequestsTypeOK'
  <2>1. octets' \in Seq(Byte \cup {Garbage}) /\ Len(octets') \in {0, 4, 8, 12}
    BY <1>5, <1>7 DEF Octet
  <2>2. step' \in {"idle", "socket", "buffer", "ask", "fill", "send", "close"}
    BY <1>7
  <2>3. QED BY <1>1, <1>2, <1>6, <2>1, <2>2, Zenon DEF RequestsIInv, RequestsTypeOK
<1>9. SocketsAccounted' /\ BlockFillsData' /\ CarriesWhatWasRead'
  BY <1>2, <1>7 DEF RequestsIInv, SocketsAccounted, BlockFillsData, CarriesWhatWasRead
<1>10. Asked'
  BY <1>2, <1>3, <1>7 DEF Asked
<1>11. OctetsRead'
  <2>1. \A k \in 1 .. Len(octets') :
          octets'[k] = IF IsTyped(k)' THEN Number(k)' % 256 ELSE Garbage
    BY <1>5, Zenon DEF ReadAs, IsTyped, Number
  <2>2. 4 * Len(typed') <= Len(octets') /\ Len(octets') = 4 * Len(typed')
    BY <1>3, <1>5, <1>6
  <2>3. deaf' = FALSE
    BY <1>2 DEF RequestsIInv, RequestsTypeOK, OctetsRead
  <2>4. QED BY <2>1, <2>2, <2>3, Zenon DEF OctetsRead
<1>12. QED BY <1>8, <1>9, <1>10, <1>11 DEF RequestsIInv

LEMMA ReadNothingInv ==
  ASSUME RequestsIInv, ReadNothing
  PROVE  RequestsIInv'
<1>1. /\ step = "ask" /\ stuck /\ UNCHANGED <<call, stuck, typed, deaf, fds, others, leaks, frame>>
      /\ octets' = octets \o ReadOctets(<<>>)
      /\ step' = IF Len(octets) = 4 * (call.asks - 1) THEN "fill" ELSE "ask"
  BY DEF ReadNothing, sockets
<1>2. /\ octets \in Seq(Octet) /\ typed \in Seq(Lines) /\ Len(octets) \in {0, 4, 8, 12}
      /\ call = SetIp /\ Len(octets) < 12 /\ 4 * Len(typed) <= Len(octets) /\ call \in Functions
  BY <1>1 DEF RequestsIInv, RequestsTypeOK, Asked, OctetsRead, Octet
<1>3. \A k \in 1 .. Len(octets) : ReadAs(octets, typed, k)
  BY Zenon DEF RequestsIInv, OctetsRead, ReadAs, IsTyped, Number
<1>4. /\ octets' \in Seq(Octet) /\ Len(octets') = Len(octets) + 4
      /\ \A k \in 1 .. Len(octets') : ReadAs(octets', typed, k)
  BY <1>1, <1>2, <1>3, NothingRead, Zenon
<1>5. /\ step' \in {"ask", "fill"} /\ Len(octets') \in {4, 8, 12}
      /\ step' = "ask" => Len(octets') < 12
      /\ step' = "fill" => Len(octets') = 12
  <2>1. call.asks = 3
    BY <1>2, FunctionKnown
  <2>2. /\ Len(octets) \in {0, 4, 8, 12} /\ Len(octets) < 12 /\ Len(octets') = Len(octets) + 4
        /\ step' = IF Len(octets) = 4 * (call.asks - 1) THEN "fill" ELSE "ask"
    BY <1>1, <1>2, <1>4, Zenon
  <2>3. QED BY <2>1, <2>2, FourMore, Zenon
<1>6. RequestsTypeOK'
  <2>1. octets' \in Seq(Byte \cup {Garbage}) /\ Len(octets') \in {0, 4, 8, 12}
    BY <1>4, <1>5 DEF Octet
  <2>2. step' \in {"idle", "socket", "buffer", "ask", "fill", "send", "close"}
    BY <1>5
  <2>3. QED BY <1>1, <2>1, <2>2, Zenon DEF RequestsIInv, RequestsTypeOK
<1>7. SocketsAccounted' /\ BlockFillsData' /\ CarriesWhatWasRead'
  BY <1>1, <1>5 DEF RequestsIInv, SocketsAccounted, BlockFillsData, CarriesWhatWasRead
<1>8. Asked'
  BY <1>1, <1>2, <1>5 DEF Asked
<1>9. OctetsRead'
  <2>1. \A k \in 1 .. Len(octets') :
          octets'[k] = IF IsTyped(k)' THEN Number(k)' % 256 ELSE Garbage
    BY <1>1, <1>4, Zenon DEF ReadAs, IsTyped, Number
  <2>2. 4 * Len(typed') <= Len(octets')
    BY <1>1, <1>2, <1>4
  <2>3. stuck' /\ (deaf' => stuck' /\ typed' = <<>>)
    BY <1>1 DEF RequestsIInv, OctetsRead
  <2>4. QED BY <2>1, <2>2, <2>3, Zenon DEF OctetsRead
<1>10. QED BY <1>6, <1>7, <1>8, <1>9 DEF RequestsIInv

LEMMA FillInv ==
  ASSUME RequestsIInv, Fill
  PROVE  RequestsIInv'
<1> DEFINE value == IF call = SetIp THEN ip_params ELSE <<>>
           bytes == pf_dcp_put_block(Header, 60, call.opt, call.sub, call.length, value)
<1>1. /\ step = "fill" /\ step' = "send" /\ UNCHANGED <<call, input, fds, others, leaks>>
      /\ frame' = [bytes |-> bytes, data_length |-> Len(bytes) - Len(Header)]
  BY DEF Fill, sockets
<1>2. call \in Functions /\ octets \in Seq(Octet) /\ Len(octets) = IF call = SetIp THEN 12 ELSE 0
  BY <1>1 DEF RequestsIInv, RequestsTypeOK, Asked, Octet
<1>3. /\ value \in Seq(Octet) /\ Len(value) = IF call = SetIp THEN 14 ELSE 0
      /\ call = SetIp => \A k \in 1 .. 12 : value[2 + k] = octets[k]
  <2>1. CASE call = SetIp
    <3>1. <<0, 14>> \in Seq(Octet) /\ Len(<<0, 14>>) = 2
      BY DEF Octet, Byte
    <3>2. value = <<0, 14>> \o octets
      BY <2>1 DEF ip_params
    <3>3. IsJoined(<<0, 14>>, octets, value)
      BY <1>2, <3>1, <3>2, Joined, Zenon
    <3>4. QED BY <1>2, <2>1, <3>1, <3>3 DEF IsJoined
  <2>2. CASE call # SetIp
    BY <2>2
  <2>3. QED BY <2>1, <2>2
<1>4. /\ call.opt \in Octet /\ call.sub \in Octet /\ call.length \in 0 .. 14
      /\ call = Set => call.length = 4
      /\ call # Set => call.length = Len(value)
  <2> HIDE DEF value
  <2>1. call.opt \in Octet /\ call.sub \in Octet /\ call \in {Set, Get, SetIp}
    BY <1>2, FunctionKnown, Zenon
  <2>2. CASE call = Set
    BY <1>2, <2>1, <2>2, FunctionKnown
  <2>3. CASE call = Get
    BY <1>2, <1>3, <2>1, <2>3, FunctionKnown
  <2>4. CASE call = SetIp
    BY <1>2, <1>3, <2>1, <2>4, FunctionKnown
  <2>5. QED BY <2>1, <2>2, <2>3, <2>4
<1> HIDE DEF value
<1>5. IsFrame(bytes, call.length, value)
  <2>1. Len(value) \in {0, 14}
    BY <1>3
  <2>2. QED BY <1>3, <1>4, <2>1, FrameFilled, Zenon
<1> HIDE DEF bytes
<1>6. /\ bytes \in Seq(Octet) /\ Len(bytes) = 30 + Len(value)
      /\ bytes[29] = call.length \div 256 /\ bytes[30] = call.length % 256
      /\ \A k \in 1 .. Len(value) : bytes[30 + k] = value[k]
  BY <1>5, Zenon DEF IsFrame
<1>7. frame'.bytes = bytes /\ frame'.data_length = 4 + Len(value)
  <2>1. Len(value) = 0 \/ Len(value) = 14
    BY <1>3, Zenon
  <2>2. Len(bytes) = 30 + Len(value) /\ Len(Header) = 26
    BY <1>6, HeaderTyped
  <2>3. Len(bytes) - Len(Header) = 4 + Len(value)
    BY <2>1, <2>2, DataBehindHeader, Zenon
  <2>4. QED BY <1>1, <2>3
<1>8. RequestsTypeOK'
  <2>1. Len(value) = 0 \/ Len(value) = 14
    BY <1>3, Zenon
  <2>2. Len(bytes) = 30 + Len(value)
    BY <1>6
  <2>3. Len(bytes) <= 60 /\ 4 + Len(value) \in Nat
    BY <2>1, <2>2, FrameFits, Zenon
  <2>4. /\ frame'.bytes \in Seq(Byte \cup {Garbage}) /\ Len(frame'.bytes) <= 60
        /\ frame'.data_length \in Nat
    BY <1>6, <1>7, <2>3, Zenon DEF Octet
  <2>5. QED BY <1>1, <2>4 DEF RequestsIInv, RequestsTypeOK, input
<1>9. SocketsAccounted' /\ Asked'
  BY <1>1 DEF RequestsIInv, SocketsAccounted, Asked
<1>10. BlockFillsData'
  <2>1. BlockLength' = call.length
    <3>1. Len(Header) + 3 = 29 /\ Len(Header) + 4 = 30
      BY HeaderTyped, BehindHeader, Zenon
    <3>2. BlockLength' = Word(call.length \div 256, call.length % 256)
      BY <1>6, <1>7, <3>1, Zenon DEF BlockLength
    <3>3. QED BY <1>4, <3>2, WordOfLength, Zenon
  <2>2. QED BY <1>1, <1>2, <1>3, <1>4, <1>7, <2>1, FunctionKnown DEF BlockFillsData
<1>11. OctetsRead'
  <2>1. octets' = octets /\ typed' = typed /\ stuck' = stuck /\ deaf' = deaf
    BY <1>1 DEF input
  <2>2. QED BY <1>1, <2>1, Zenon DEF RequestsIInv, OctetsRead, IsTyped, Number
<1>12. CarriesWhatWasRead'
  <2> SUFFICES ASSUME call' = SetIp
               PROVE  /\ \A k \in 1 .. 12 : frame'.bytes[Len(Header) + 6 + k] =
                           IF IsTyped(k)' THEN Number(k)' % 256 ELSE Garbage
                      /\ deaf' => \A k \in 1 .. 12 : ~ IsTyped(k)'
    BY DEF CarriesWhatWasRead
  <2>1. call = SetIp /\ octets' = octets /\ Len(octets) = 12 /\ Len(value) = 14
    BY <1>1, <1>2, <1>3 DEF input
  <2>2. ASSUME NEW k \in 1 .. 12
        PROVE  frame'.bytes[Len(Header) + 6 + k] =
                 IF IsTyped(k)' THEN Number(k)' % 256 ELSE Garbage
    <3>1. bytes[30 + (2 + k)] = value[2 + k] /\ value[2 + k] = octets[k]
      <4>1. 2 + k \in 1 .. 14
        OBVIOUS
      <4>2. QED BY <1>3, <1>6, <2>1, <4>1, Zenon
    <3>2. bytes[Len(Header) + 6 + k] = octets[k]
      BY <3>1, HeaderTyped
    <3>3. octets'[k] = IF IsTyped(k)' THEN Number(k)' % 256 ELSE Garbage
      BY <1>11, <2>1, Zenon DEF OctetsRead
    <3>4. QED BY <1>7, <2>1, <3>2, <3>3, Zenon
  <2>3. ASSUME deaf', NEW k \in 1 .. 12 PROVE ~ IsTyped(k)'
    <3>1. typed' = <<>>
      BY <1>11, <2>3 DEF OctetsRead
    <3>2. LineOf(k) \in Int /\ LineOf(k) > 0
      BY DEF LineOf
    <3>3. QED BY <3>1, <3>2 DEF IsTyped
  <2>4. QED BY <2>2, <2>3
<1>13. QED BY <1>8, <1>9, <1>10, <1>11, <1>12 DEF RequestsIInv

LEMMA RequestsInvariantKept == RequestsIInv /\ [RequestsNext]_requestVars => RequestsIInv'
<1> SUFFICES ASSUME RequestsIInv, [RequestsNext]_requestVars
             PROVE  RequestsIInv'
  OBVIOUS
<1>1. ASSUME NEW f \in Functions, Begin(f) PROVE RequestsIInv'
  BY <1>1, BeginInv
<1>2. CASE send_set_req \/ send_get_req \/ set_ip_config
  BY <1>1, <1>2 DEF send_set_req, send_get_req, set_ip_config, Functions
<1>3. CASE Works
  BY <1>3, OpenSocketInv, NoSocketInv, TakeBufferInv, ReadNothingInv, FillInv, SendInv, CloseInv
     DEF Works
<1>4. CASE ReadLine
  BY <1>4, ReadLineInv
<1>5. CASE OthersChange
  BY <1>5, OthersChangeInv
<1>6. CASE UNCHANGED requestVars
  BY <1>6, StandStill
<1>7. QED BY <1>2, <1>3, <1>4, <1>5, <1>6 DEF RequestsNext

LEMMA RequestsInvariance == RequestsSpec => []RequestsIInv
BY RequestsInitInv, RequestsInvariantKept, PTL DEF RequestsSpec

\* The variables of the requests keep their types: no call writes past the 60
\* bytes of its frame, and no more descriptors are held than there are.
THEOREM RequestsTyped == RequestsSpec => []RequestsTypeOK
<1>1. RequestsIInv => RequestsTypeOK
  BY DEF RequestsIInv
<1>2. QED BY RequestsInvariance, <1>1, PTL

\* Whichever step of a call fails, only set_ip_config keeps a descriptor, one for
\* every call that got it.
THEOREM RequestSocketsAccounted == RequestsSpec => []SocketsAccounted
<1>1. RequestsIInv => SocketsAccounted
  BY DEF RequestsIInv
<1>2. QED BY RequestsInvariance, <1>1, PTL

\* The lengths in the frame of a request agree, but for the four bytes that
\* send_set_req claims and does not put.
THEOREM RequestBlockFillsData == RequestsSpec => []BlockFillsData
<1>1. RequestsIInv => BlockFillsData
  BY DEF RequestsIInv
<1>2. QED BY RequestsInvariance, <1>1, PTL

\* For every set of lines that may be typed: the twelve bytes that set_ip_config
\* sends are those of the numbers typed for this call, or of the stack.
THEOREM RequestCarriesWhatWasRead == RequestsSpec => []CarriesWhatWasRead
<1>1. RequestsIInv => CarriesWhatWasRead
  BY DEF RequestsIInv
<1>2. QED BY RequestsInvariance, <1>1, PTL

=============================================================================
