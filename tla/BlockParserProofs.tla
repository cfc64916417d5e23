------------------------- MODULE BlockParserProofs -------------------------
(***************************************************************************)
(* Proofs about BlockParser, for any set of well-formed payloads and any   *)
(* bytes behind them.                                                      *)
(*                                                                         *)
(* The pointer is at the next block that has not been reported, at the     *)
(* padding before it, or behind the payload; and the index is ahead of it  *)
(* as long as every block that was reported advances both.                 *)
(***************************************************************************)
EXTENDS BlockParser, SequenceTheorems, TLAPS

read == Len(reported)
next == read + 1

\* Where the pointer can be.
Place ==
  \/ pl = start[next]
  \/ read > 0 /\ AtPadding(read)
  \/ pl > length

AllCounted == \A j \in 1 .. read : kind[j] # "uncounted"

AllSound ==
  \A j \in 1 .. read : kind[j] # "uncounted" /\ plain(len[j])

\* The index is not behind the pointer, so no block behind the payload is read.
Ahead ==
  AllCounted => i >= pl /\ ~strayed /\ ip # -1

NoOverrun == \A j \in 1 .. read : ~MayOverrun(j)

Survives == AllCounted /\ NoOverrun => ~crashed

\* The index gains one for a block and one for its padding.
NotFarAhead ==
  AllSound =>
    /\ pl <= length
    /\ i <= pl + 2 * read
    /\ read > 0 /\ AtPadding(read) => i < pl + 2 * read

IInv == TypeOK /\ ReportedInOrder /\ Place /\ Ahead /\ Survives /\ NotFarAhead

USE DEF DataMax, payload, length, read, next

-----------------------------------------------------------------------------
(***************************************************************************)
(* Facts about a payload and the place of the pointer in it.               *)
(***************************************************************************)

\* Padding is a byte or nothing.
LEMMA PaddingSize == ASSUME NEW l \in Nat PROVE padding(l) \in {0, 1}
BY DEF padding

\* A block lies between those before it and those behind it.
LaidOut(k) ==
  /\ kind[k] \in Kinds /\ len[k] \in Nat /\ padding(len[k]) \in {0, 1}
  /\ start[k] \in Nat /\ start[k + 1] \in Nat
  /\ start[k + 1] = start[k] + 4 + len[k] + padding(len[k])
  /\ start[k] < start[k + 1] /\ start[k + 1] <= length
  /\ length \in Nat /\ length <= DataMax
  /\ \A j \in 1 .. (n + 1) :
       /\ start[j] \in Nat
       /\ j < k => start[j] < start[k]
       /\ j > k => start[j] >= start[k + 1]

LEMMA Layout ==
  ASSUME WellFormed(n, kind, len, start), NEW k \in 1 .. n
  PROVE  LaidOut(k)
<1>1. /\ n \in Nat /\ k \in 1 .. (n + 1) /\ k + 1 \in 1 .. (n + 1)
      /\ n + 1 \in 1 .. (n + 1)
  BY DEF WellFormed
<1>2. /\ start \in [1 .. (n + 1) -> Nat]
      /\ \A j, m \in 1 .. (n + 1) : j < m => start[j] < start[m]
  <2>1. start \in [1 .. (n + 1) -> Nat]
    BY DEF WellFormed
  <2>2. \A j, m \in 1 .. (n + 1) : j < m => start[j] < start[m]
    BY DEF WellFormed
  <2>3. QED BY <2>1, <2>2
<1>3. kind[k] \in Kinds /\ len[k] \in Nat
  BY DEF WellFormed
<1>4. start[k + 1] = start[k] + 4 + len[k] + padding(len[k])
  BY DEF WellFormed
<1>5. padding(len[k]) \in {0, 1}
  BY <1>3, PaddingSize
<1>6. \A j \in 1 .. (n + 1) : start[j] \in Nat
  BY <1>2
<1>7. start[k + 1] <= start[n + 1]
  <2>1. CASE k = n
    BY <1>1, <1>6, <2>1
  <2>2. CASE k + 1 < n + 1
    <3>1. start[k + 1] < start[n + 1]
      BY <1>1, <1>2, <2>2
    <3>2. QED BY <1>1, <1>6, <3>1
  <2>3. QED BY <1>1, <2>1, <2>2
<1>8. ASSUME NEW j \in 1 .. (n + 1)
      PROVE  /\ j < k => start[j] < start[k]
             /\ j > k => start[j] >= start[k + 1]
  BY <1>1, <1>2, <1>6
<1>9. start[n + 1] <= DataMax
  BY DEF WellFormed
<1>10. start[k] < start[k + 1]
  BY <1>1, <1>2
<1>11. QED BY <1>1, <1>3, <1>4, <1>5, <1>6, <1>7, <1>8, <1>9, <1>10 DEF LaidOut

\* What the parser has to do with at any time.
LEMMA Counts ==
  ASSUME IInv
  PROVE  /\ WellFormed(n, kind, len, start) /\ n \in Nat /\ read \in 0 .. n
         /\ start[1] = 0 /\ length \in Nat /\ length <= DataMax
         /\ start[next] \in Nat /\ start[next] <= length
         /\ pl \in Nat /\ i \in Nat
<1>1. WellFormed(n, kind, len, start) /\ n \in Nat /\ pl \in Nat /\ i \in Nat
  <2>1. WellFormed(n, kind, len, start) /\ pl \in Nat /\ i \in Nat
    BY Zenon DEF IInv, TypeOK
  <2>2. QED BY <2>1 DEF WellFormed
<1>2. read \in Nat /\ read <= n
  BY LenProperties DEF IInv, TypeOK, ReportedInOrder
<1>3. next \in 1 .. (n + 1) /\ n + 1 \in 1 .. (n + 1)
  BY <1>1, <1>2
<1>4. /\ start \in [1 .. (n + 1) -> Nat]
      /\ \A j, m \in 1 .. (n + 1) : j < m => start[j] < start[m]
      /\ start[1] = 0 /\ start[n + 1] <= DataMax
  BY <1>1 DEF WellFormed
<1>5. start[next] \in Nat /\ length \in Nat /\ length <= DataMax
  BY <1>3, <1>4
<1>6. start[next] <= length
  BY <1>1, <1>2, <1>3, <1>4, <1>5
<1>7. QED BY <1>1, <1>2, <1>4, <1>5, <1>6

\* A pointer at a block is at the first one that has not been reported.
LEMMA AtNextBlock ==
  ASSUME IInv, NEW k \in 1 .. n, pl = start[k]
  PROVE  k = next
<1>1. /\ n \in Nat /\ read \in 0 .. n /\ next \in 1 .. (n + 1)
      /\ WellFormed(n, kind, len, start) /\ pl \in Nat
  BY Counts
<1>2. LaidOut(k)
  BY <1>1, Layout
<1>3. CASE pl = start[next]
  <2>1. next < k => start[next] < start[k]
    BY <1>1, <1>2 DEF LaidOut
  <2>2. next > k => start[next] >= start[k + 1]
    BY <1>1, <1>2 DEF LaidOut
  <2>3. start[k] \in Nat /\ start[k + 1] \in Nat /\ start[k] < start[k + 1]
    BY <1>2 DEF LaidOut
  <2>4. ~(next < k)
    BY <1>1, <1>3, <2>1, <2>3
  <2>5. ~(next > k)
    BY <1>1, <1>3, <2>2, <2>3
  <2>6. QED BY <1>1, <2>4, <2>5
<1>4. CASE read > 0 /\ AtPadding(read)
  <2>1. read \in 1 .. n
    BY <1>1, <1>4
  <2>2. LaidOut(read)
    BY <1>1, <2>1, Layout
  <2>3. pl > start[read] /\ pl < start[read + 1]
    <3>1. pl = start[read + 1] - 1 /\ padding(len[read]) = 1
      BY <1>4 DEF AtPadding
    <3>2. /\ start[read] \in Nat /\ start[read + 1] \in Nat /\ len[read] \in Nat
          /\ start[read + 1] = start[read] + 4 + len[read] + padding(len[read])
      BY <2>2 DEF LaidOut
    <3>3. QED BY <3>1, <3>2
  <2>4. k \in 1 .. (n + 1) /\ k # read
    BY <1>1, <2>3
  <2>5. k < read => start[k] < start[read] /\ start[k] \in Nat /\ start[read] \in Nat
    BY <2>2, <2>4 DEF LaidOut
  <2>6. k > read => start[k] >= start[read + 1] /\ start[read + 1] \in Nat
    BY <2>2, <2>4 DEF LaidOut
  <2>7. start[read] \in Nat
    BY <2>2 DEF LaidOut
  <2>8. ~(k < read)
    BY <1>1, <2>3, <2>5
  <2>9. ~(k > read)
    BY <1>1, <2>3, <2>6
  <2>10. QED BY <1>1, <2>1, <2>4, <2>8, <2>9
<1>5. CASE pl > length
  BY <1>2, <1>5 DEF LaidOut
<1>6. QED BY <1>3, <1>4, <1>5 DEF IInv, Place

\* A pointer at padding is behind the last block that was reported.
LEMMA AtLastPadding ==
  ASSUME IInv, NEW k \in 1 .. n, AtPadding(k)
  PROVE  k = read
<1>1. /\ n \in Nat /\ read \in 0 .. n /\ next \in 1 .. (n + 1)
      /\ k \in 1 .. (n + 1) /\ k + 1 \in 1 .. (n + 1)
      /\ WellFormed(n, kind, len, start) /\ pl \in Nat
  BY Counts
<1>2. LaidOut(k)
  BY <1>1, Layout
<1>3. pl > start[k] /\ pl = start[k + 1] - 1 /\ pl < length
  BY <1>2 DEF AtPadding, LaidOut
<1>4. CASE pl = start[next]
  <2>1. next # k
    BY <1>3, <1>4
  <2>2. next < k => start[next] < start[k]
    BY <1>1, <1>2 DEF LaidOut
  <2>3. next > k => start[next] >= start[k + 1]
    BY <1>1, <1>2 DEF LaidOut
  <2>4. start[k] \in Nat /\ start[k + 1] \in Nat
    BY <1>2 DEF LaidOut
  <2>5. ~(next < k)
    BY <1>1, <1>3, <1>4, <2>2, <2>4
  <2>6. ~(next > k)
    BY <1>1, <1>3, <1>4, <2>3, <2>4
  <2>7. QED BY <1>1, <2>1, <2>5, <2>6
<1>5. CASE read > 0 /\ AtPadding(read)
  <2>1. read \in 1 .. n
    BY <1>1, <1>5
  <2>2. LaidOut(read)
    BY <1>1, <2>1, Layout
  <2>3. start[read + 1] = start[k + 1]
    BY <1>2, <1>3, <1>5, <2>2 DEF AtPadding, LaidOut
  <2>4. start[k] < start[k + 1] /\ start[read] < start[read + 1]
    BY <1>2, <2>2 DEF LaidOut
  <2>5. ~(k < read)
    BY <1>1, <1>2, <2>1, <2>3, <2>4 DEF LaidOut
  <2>6. ~(read < k)
    BY <1>1, <1>2, <2>1, <2>2, <2>3, <2>4 DEF LaidOut
  <2>7. QED BY <1>1, <2>1, <2>5, <2>6
<1>6. CASE pl > length
  BY <1>2, <1>3, <1>6 DEF LaidOut
<1>7. QED BY <1>4, <1>5, <1>6 DEF IInv, Place

\* The length that is read is the length that was sent, or is far too large.
LEMMA LengthRead ==
  ASSUME NEW l \in Nat
  PROVE  /\ block_length(l) \in Nat
         /\ plain(l) => block_length(l) = l
         /\ ~plain(l) => block_length(l) > DataMax
BY DEF block_length, plain

\* The index advances, by more than the pointer unless the block is uncounted.
LEMMA IndexAdvances ==
  ASSUME NEW what, NEW l \in Nat
  PROVE  /\ Advance(what, l) \in Nat
         /\ what # "uncounted" => Advance(what, l) = l + 5
<1>1. CASE what = "uncounted"
  BY <1>1 DEF Advance
<1>2. CASE what # "uncounted"
  BY <1>2 DEF Advance
<1>3. QED BY <1>1, <1>2

-----------------------------------------------------------------------------
(***************************************************************************)
(* The invariant is inductive.                                             *)
(***************************************************************************)

LEMMA InitInv == Init => IInv
<1> SUFFICES ASSUME Init PROVE IInv
  OBVIOUS
<1> USE DEF Init
<1>1. WellFormed(n, kind, len, start)
  BY ParserAssumption
<1>2. n \in Nat /\ start[1] = 0
  BY <1>1 DEF WellFormed
<1>3. read = 0
  OBVIOUS
<1>4. TypeOK
  <2>1. reported \in Seq(1 .. n)
    BY EmptySeq
  <2>2. strayed \in BOOLEAN /\ crashed \in BOOLEAN
    OBVIOUS
  <2>3. pl \in Nat /\ i \in Nat /\ ip \in -1 .. n
    BY <1>2
  <2>4. QED BY <1>1, <2>1, <2>2, <2>3 DEF TypeOK
<1>5. ReportedInOrder /\ Place
  BY <1>2, <1>3 DEF ReportedInOrder, Place
<1>6. Ahead /\ Survives
  BY DEF Ahead, Survives
<1>7. NotFarAhead
  <2>1. length \in Nat
    BY <1>1, <1>2 DEF WellFormed
  <2>2. QED BY <1>3, <2>1 DEF NotFarAhead
<1>8. QED BY <1>4, <1>5, <1>6, <1>7 DEF IInv

LEMMA ReadBlockStep ==
  ASSUME IInv, NEW k \in 1 .. n, ReadBlock(k)
  PROVE  IInv'
<1> DEFINE l == block_length(len[k])
<1>1. n \in Nat /\ read \in 0 .. n /\ WellFormed(n, kind, len, start)
  BY Counts
<1>2. pl \in Nat /\ i \in Nat /\ length \in Nat /\ length <= DataMax
  BY Counts
<1>3. UNCHANGED payload /\ length' = length /\ pl = start[k]
  BY DEF ReadBlock
<1>4. pl' = pl + l + 4 /\ i' = i + Advance(kind[k], l)
  BY DEF ReadBlock
<1>5. reported' = Append(reported, k)
  BY DEF ReadBlock
<1>6. /\ ip' \in {ip, k} /\ strayed' = strayed
      /\ crashed' => MayOverrun(k)
      /\ crashed' \in BOOLEAN
  BY DEF ReadBlock, MayOverrun
<1>7. k = next
  BY <1>3, AtNextBlock
<1>8. /\ len[k] \in Nat /\ padding(len[k]) \in {0, 1}
      /\ start[k + 1] = pl + 4 + len[k] + padding(len[k])
      /\ start[k + 1] \in Nat /\ start[k + 1] <= length
  <2>1. LaidOut(k)
    BY <1>1, Layout
  <2>2. QED BY <1>3, <2>1 DEF LaidOut
<1>9. /\ l \in Nat
      /\ plain(len[k]) => l = len[k]
      /\ ~plain(len[k]) => l > DataMax
  BY <1>8, LengthRead
<1>10. /\ Advance(kind[k], l) \in Nat
       /\ kind[k] # "uncounted" => Advance(kind[k], l) = l + 5
  BY <1>9, IndexAdvances
<1> HIDE DEF l
<1>11. pl' \in Nat /\ i' \in Nat
  BY <1>2, <1>4, <1>9, <1>10
<1>12. /\ reported' \in Seq(1 .. n) /\ read' = k
       /\ \A j \in 1 .. read : reported'[j] = reported[j]
       /\ reported'[k] = k
  BY <1>5, <1>7, AppendProperties DEF IInv, TypeOK
<1>13. plain(len[k]) => pl' = start[k + 1] - padding(len[k])
  BY <1>2, <1>4, <1>8, <1>9
<1>14. ~plain(len[k]) => pl' > length
  BY <1>2, <1>4, <1>9
<1>15. TypeOK'
  <2>1. ip' \in -1 .. n /\ strayed' \in BOOLEAN /\ crashed' \in BOOLEAN
    BY <1>1, <1>6 DEF IInv, TypeOK
  <2>2. QED BY <1>1, <1>3, <1>11, <1>12, <2>1 DEF TypeOK
<1>16. ReportedInOrder'
  BY <1>1, <1>3, <1>7, <1>12 DEF IInv, ReportedInOrder
<1>17. Place'
  <2>1. CASE ~plain(len[k])
    BY <1>3, <1>14, <2>1 DEF Place
  <2>2. CASE plain(len[k]) /\ padding(len[k]) = 0
    <3>1. pl' = start[k + 1]
      BY <1>8, <1>13, <2>2
    <3>2. QED BY <1>3, <1>12, <3>1 DEF Place
  <2>3. CASE plain(len[k]) /\ padding(len[k]) = 1
    BY <1>1, <1>3, <1>7, <1>12, <1>13, <2>3 DEF Place, AtPadding
  <2>4. QED BY <1>8, <2>1, <2>2, <2>3
<1>18. Ahead'
  <2>1. SUFFICES ASSUME AllCounted'
                 PROVE  i' >= pl' /\ ~strayed' /\ ip' # -1
    BY DEF Ahead
  <2>2. AllCounted /\ kind[k] # "uncounted"
    BY <1>1, <1>3, <1>7, <1>12, <2>1 DEF AllCounted
  <2>3. i >= pl /\ ~strayed /\ ip # -1
    BY <2>2 DEF IInv, Ahead
  <2>4. i' >= pl'
    BY <1>2, <1>4, <1>9, <1>10, <2>2, <2>3
  <2>5. ~strayed' /\ ip' # -1
    BY <1>6, <1>1, <2>3
  <2>6. QED BY <2>4, <2>5
<1>19. NotFarAhead'
  <2>1. SUFFICES ASSUME AllSound'
                 PROVE  pl' <= length' /\ i' < pl' + 2 * read'
    <3>1. pl' \in Nat /\ i' \in Nat /\ read' \in Nat
      BY <1>1, <1>11, <1>12
    <3>2. QED BY <2>1, <3>1 DEF NotFarAhead
  <2>2. AllSound /\ kind[k] # "uncounted" /\ plain(len[k])
    BY <1>1, <1>3, <1>7, <1>12, <2>1 DEF AllSound
  <2>3. i <= pl + 2 * read
    BY <2>2 DEF IInv, NotFarAhead
  <2>4. pl' <= length'
    BY <1>2, <1>3, <1>8, <1>11, <1>13, <2>2
  <2>5. read' = read + 1
    BY <1>7, <1>12
  <2>6. i' < pl' + 2 * (read + 1)
    BY <1>1, <1>2, <1>4, <1>9, <1>10, <2>2, <2>3
  <2>7. QED BY <2>4, <2>5, <2>6
<1>20. Survives'
  <2>1. NoOverrun' => ~MayOverrun(k)
    BY <1>1, <1>3, <1>7, <1>12 DEF NoOverrun, MayOverrun
  <2>2. QED BY <1>6, <2>1 DEF Survives
<1>21. QED BY <1>15, <1>16, <1>17, <1>18, <1>19, <1>20 DEF IInv

LEMMA ReadPaddingStep ==
  ASSUME IInv, NEW k \in 1 .. n, ReadPadding(k)
  PROVE  IInv'
<1>1. /\ n \in Nat /\ read \in 0 .. n /\ WellFormed(n, kind, len, start)
      /\ pl \in Nat /\ i \in Nat /\ length \in Nat /\ length <= DataMax
  BY Counts
<1>2. /\ UNCHANGED payload /\ length' = length /\ AtPadding(k)
      /\ pl' = pl + 1 /\ i' = i + 2
      /\ reported' = reported /\ read' = read
      /\ ip' = ip /\ strayed' = strayed /\ crashed' = crashed
  BY DEF ReadPadding
<1>3. k = read
  BY <1>2, AtLastPadding
<1>4. /\ pl' = start[next] /\ padding(len[k]) \in {0, 1}
      /\ start[next] \in Nat /\ start[next] <= length
  <2>1. LaidOut(k)
    BY <1>1, Layout
  <2>2. QED BY <1>2, <1>3, <2>1 DEF LaidOut, AtPadding
<1>5. TypeOK'
  BY <1>1, <1>2 DEF IInv, TypeOK
<1>6. ReportedInOrder' /\ Place'
  BY <1>2, <1>4 DEF IInv, ReportedInOrder, Place
<1>7. Ahead'
  BY <1>1, <1>2 DEF IInv, Ahead, AllCounted
<1>10. Survives'
  BY <1>2 DEF IInv, Survives, AllCounted, NoOverrun, MayOverrun
<1>8. NotFarAhead'
  <2>1. ~AtPadding(read)'
    BY <1>1, <1>2, <1>3, <1>4 DEF AtPadding
  <2>2. AllSound' => AllSound
    BY <1>2 DEF AllSound
  <2>3. AllSound => i < pl + 2 * read
    BY <1>1, <1>2, <1>3 DEF IInv, NotFarAhead
  <2>4. AllSound => i' <= pl' + 2 * read'
    BY <1>1, <1>2, <2>3
  <2>5. QED BY <1>1, <1>2, <1>4, <2>1, <2>2, <2>4 DEF NotFarAhead
<1>9. QED BY <1>5, <1>6, <1>7, <1>8, <1>10 DEF IInv

\* Behind the payload the pointer can only be after an uncounted block.
LEMMA StrayIsBehind ==
  ASSUME IInv, i < length, pl >= length
  PROVE  ~AllCounted
<1>1. pl \in Nat /\ i \in Nat /\ length \in Nat
  BY Counts
<1>2. AllCounted => i >= pl
  BY DEF IInv, Ahead
<1>3. QED BY <1>1, <1>2

LEMMA StrayStep ==
  ASSUME IInv, Stray
  PROVE  IInv'
<1>1. n \in Nat /\ read \in 0 .. n /\ WellFormed(n, kind, len, start)
  BY Counts
<1>2. pl \in Nat /\ i \in Nat
  BY Counts
<1>3. UNCHANGED payload /\ length' = length /\ UNCHANGED <<pl, reported>> /\ read' = read
  BY DEF Stray
<1>4. ~AllCounted
  BY StrayIsBehind DEF Stray, InLoop
<1>5. TypeOK'
  <2>1. i' \in Nat
    <3>1. CASE i' = i + 2
      BY <1>2, <3>1
    <3>2. CASE i' = i
      BY <1>2, <3>2
    <3>3. ASSUME NEW b \in Strays, i' = i + Advance(b.kind, block_length(b.len))
          PROVE  i' \in Nat
      <4>1. b.len \in Nat
        <5>1. b \in Blocks
          BY ParserAssumption
        <5>2. QED BY <5>1 DEF Blocks
      <4>2. Advance(b.kind, block_length(b.len)) \in Nat
        BY <4>1, LengthRead, IndexAdvances
      <4>3. QED BY <1>2, <3>3, <4>2
    <3>4. QED BY <3>1, <3>2, <3>3 DEF Stray
  <2>2. ip' \in {ip, -1}
    BY DEF Stray
  <2>3. ip' \in -1 .. n
    BY <1>1, <2>2 DEF IInv, TypeOK
  <2>4. strayed' \in BOOLEAN
    <3>1. strayed' = strayed \/ strayed' = TRUE
      BY DEF Stray
    <3>2. QED BY <3>1 DEF IInv, TypeOK
  <2>5. crashed' \in BOOLEAN
    <3>1. crashed' = crashed \/ crashed' = TRUE
      BY DEF Stray
    <3>2. QED BY <3>1 DEF IInv, TypeOK
  <2>6. pl' \in Nat /\ reported' \in Seq(1 .. n)
    BY <1>2, <1>3 DEF IInv, TypeOK
  <2>7. QED BY <1>1, <1>3, <2>1, <2>3, <2>4, <2>5, <2>6 DEF TypeOK
<1>6. ReportedInOrder' /\ Place'
  BY <1>3 DEF IInv, ReportedInOrder, Place, AtPadding
<1>7. Ahead' /\ Survives'
  BY <1>3, <1>4 DEF Ahead, Survives, AllCounted
<1>8. NotFarAhead'
  BY <1>3, <1>4 DEF NotFarAhead, AllSound, AllCounted
<1>9. QED BY <1>5, <1>6, <1>7, <1>8 DEF IInv

-----------------------------------------------------------------------------
(***************************************************************************)
(* The theorems.                                                           *)
(***************************************************************************)

\* The pointer and the index keep their distance, whatever payload arrives
\* (the loop of extract_blocks_from_packet).
THEOREM Invariance == Spec => []IInv
<1>1. ASSUME IInv, [Next]_vars
      PROVE  IInv'
  <2>1. CASE \E k \in 1 .. n : ReadBlock(k) \/ ReadPadding(k)
    BY <1>1, <2>1, ReadBlockStep, ReadPaddingStep
  <2>2. CASE Stray
    BY <1>1, <2>2, StrayStep
  <2>3. CASE UNCHANGED vars
    BY <1>1, <2>3 DEF vars, IInv, TypeOK, ReportedInOrder, Place, AtPadding, Ahead,
       AllCounted, Survives, NoOverrun, MayOverrun, NotFarAhead, AllSound
  <2>4. QED BY <1>1, <2>1, <2>2, <2>3 DEF Next
<1>2. QED BY InitInv, <1>1, PTL DEF Spec

\* The variables of the parser have their types, for payloads of any size.
THEOREM TypeCorrect == Spec => []TypeOK
<1>1. IInv => TypeOK
  BY DEF IInv
<1>2. QED BY Invariance, <1>1, PTL

\* The parser reports the blocks of a payload from the first one on, each once
\* (the steps of pl, dcp.c:117 and 121).
THEOREM InOrder == Spec => []ReportedInOrder
<1>1. IInv => ReportedInOrder
  BY DEF IInv
<1>2. QED BY Invariance, <1>1, PTL

LEMMA InsideInv == IInv => StaysInside
<1> SUFFICES ASSUME IInv PROVE StaysInside
  OBVIOUS
<1> DEFINE seen == {reported[j] : j \in 1 .. read}
<1>1. \A j \in 1 .. read : j \in seen
  BY DEF IInv, ReportedInOrder
<1> HIDE DEF seen
<1>2. strayed \/ ip = -1 => \E k \in seen : kind[k] = "uncounted"
  BY <1>1 DEF IInv, Ahead, AllCounted
<1>3. crashed => \E k \in seen : kind[k] = "uncounted" \/ MayOverrun(k)
  BY <1>1 DEF IInv, Survives, AllCounted, NoOverrun
<1>4. QED BY <1>2, <1>3 DEF StaysInside, seen

\* Only a block whose case forgets the index (dcp.c:76, or no case at all) makes
\* the parser take blocks from behind the payload; only that or a text of misread
\* length (dcp.c:55, 61) ends the process.
THEOREM Inside == Spec => []StaysInside
BY Invariance, InsideInv, PTL

LEMMA AddressInv == IInv => AddressTaken
<1> SUFFICES ASSUME IInv, returned, Sound, NEW k \in 1 .. n, len[k] >= 14, k <= 9
             PROVE  \E j \in 1 .. read : reported[j] = k
  BY DEF AddressTaken
<1>1. /\ n \in Nat /\ read \in 0 .. n /\ WellFormed(n, kind, len, start)
      /\ pl \in Nat /\ i \in Nat /\ start[next] \in Nat
  BY Counts
<1>2. LaidOut(k)
  BY <1>1, Layout
<1>3. CASE k <= read
  BY <1>1, <1>3 DEF IInv, ReportedInOrder
<1>4. CASE k > read
  <2>1. AllSound
    BY <1>1 DEF Sound, AllSound
  <2>2. pl <= length /\ i <= pl + 2 * read
    BY <2>1 DEF IInv, NotFarAhead
  <2>3. pl <= start[next]
    <3>1. CASE pl = start[next]
      BY <1>1, <3>1
    <3>2. CASE AtPadding(read)
      BY <1>1, <3>2 DEF AtPadding
    <3>3. ~(pl > length)
      BY <1>1, <1>2, <2>2 DEF LaidOut
    <3>4. QED BY <3>1, <3>2, <3>3 DEF IInv, Place
  <2>4. start[next] <= start[k]
    <3>1. next < k => start[next] < start[k]
      BY <1>1, <1>2 DEF LaidOut
    <3>2. start[k] \in Nat
      BY <1>2 DEF LaidOut
    <3>3. QED BY <1>1, <1>4, <3>1, <3>2
  <2>5. start[k] + 18 <= length /\ start[k] \in Nat /\ length \in Nat
    BY <1>2 DEF LaidOut
  <2>6. i >= length
    BY DEF returned
  <2>7. 2 * read <= 16
    BY <1>1, <1>4
  <2>8. pl <= start[k] /\ i <= pl + 16
    <3>1. read \in Nat
      BY <1>1
    <3>2. i <= pl + 16
      BY <1>1, <2>2, <2>7, <3>1
    <3>3. QED BY <1>1, <2>3, <2>4, <2>5, <3>2
  <2>9. QED BY <1>1, <2>5, <2>6, <2>8
<1>5. QED BY <1>1, <1>3, <1>4

\* The address of a station is taken from any payload of counted blocks of
\* ordinary length in which it is among the first nine blocks (dcp.c:30-41).
THEOREM AddressIsTaken == Spec => []AddressTaken
BY Invariance, AddressInv, PTL

=============================================================================
