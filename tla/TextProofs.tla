----------------------------- MODULE TextProofs -----------------------------
(***************************************************************************)
(* Proofs about the texts the program reads and writes.                    *)
(*                                                                         *)
(* Codec, for any requests and answers: a number of a request becomes the  *)
(* byte its last two digits say (HexToInt is a recursive function, and the *)
(* proof is one by well-founded induction), the packet carries those bytes *)
(* in order, what is published can be read back, and a text too long is    *)
(* known.                                                                  *)
(*                                                                         *)
(* Configuration, for any files: the settings are those of the last lines. *)
(***************************************************************************)
EXTENDS Codec, Configuration, WellFoundedInduction, TLAPS

\* A text of n digits and spaces has the bytes 1 .. n of an answer r.
ReadsAs(text, r, n) ==
  /\ \A k \in 1 .. n : 16 * text[3 * k - 2] + text[3 * k - 1] = r[k]
  /\ \A k \in 1 .. n : k < Len(r) => text[3 * k] = Space

\* How long it is.
LengthOf(r, n) == IF n = Len(r) /\ n > 0 THEN 3 * n - 1 ELSE 3 * n

\* Before the loop the text is empty, in the loop and behind it it has i bytes.
TextSoFar ==
  /\ response \in Seq(Byte) /\ i \in Nat /\ i <= Len(response)
  /\ mqtt_res \in Seq(Int)
  /\ Len(mqtt_res) = LengthOf(response, i)
  /\ ReadsAs(mqtt_res, response, i)

NotBegun ==
  pc \in {"tokens", "address", "packet", "exchange"} => i = 0 /\ mqtt_res = <<>>

\* A text that is published is whole and was not too long.
Whole ==
  pc = "publish" => i = Len(response)
                    /\ (Len(response) > 0 => 3 * Len(response) + 17 <= ResponseRoom)

OverrunKnown ==
  /\ overrun = "IPbuffer" <=> own = 15
  /\ overrun = "mqtt_res" => 3 * Len(response) + 17 > ResponseRoom
  /\ overrun # "none" => pc = "undefined"

IInv == TextSoFar /\ NotBegun /\ Whole /\ OverrunKnown

\* The two digits of a byte are the byte.
LEMMA HexReadsBack ==
  ASSUME NEW b \in Byte
  PROVE  /\ b \div 16 \in Int /\ b % 16 \in Int
         /\ (16 * (b \div 16)) + (b % 16) = b
  BY SMTT(60) DEF Byte

\* What is known of a text that got two digits and perhaps a space.
LEMMA Longer ==
  ASSUME NEW text \in Seq(Int), NEW high \in Int, NEW low \in Int
  PROVE  /\ (text \o <<high, low>> \o <<Space>>) \in Seq(Int)
         /\ Len(text \o <<high, low>> \o <<Space>>) = Len(text) + 3
         /\ \A k \in 1 .. Len(text) : (text \o <<high, low>> \o <<Space>>)[k] = text[k]
         /\ (text \o <<high, low>> \o <<Space>>)[Len(text) + 1] = high
         /\ (text \o <<high, low>> \o <<Space>>)[Len(text) + 2] = low
         /\ (text \o <<high, low>> \o <<Space>>)[Len(text) + 3] = Space
  BY DEF Space

LEMMA LongerLast ==
  ASSUME NEW text \in Seq(Int), NEW high \in Int, NEW low \in Int
  PROVE  /\ (text \o <<high, low>> \o <<>>) \in Seq(Int)
         /\ Len(text \o <<high, low>> \o <<>>) = Len(text) + 2
         /\ \A k \in 1 .. Len(text) : (text \o <<high, low>> \o <<>>)[k] = text[k]
         /\ (text \o <<high, low>> \o <<>>)[Len(text) + 1] = high
         /\ (text \o <<high, low>> \o <<>>)[Len(text) + 2] = low
  OBVIOUS

\* A text with n bytes of an answer, and one byte of it more.
LEMMA OneMoreReads ==
  ASSUME NEW r \in Seq(Byte), NEW n \in Nat, n < Len(r),
         NEW old \in Seq(Int), NEW new \in Seq(Int), NEW high \in Int, NEW low \in Int,
         ReadsAs(old, r, n), Len(old) = 3 * n,
         \A k \in 1 .. Len(old) : new[k] = old[k],
         new[3 * n + 1] = high, new[3 * n + 2] = low, 16 * high + low = r[n + 1],
         n + 1 < Len(r) => new[3 * n + 3] = Space
  PROVE  ReadsAs(new, r, n + 1)
  <1>1. ASSUME NEW k \in 1 .. n
        PROVE  /\ new[3 * k - 2] = old[3 * k - 2] /\ new[3 * k - 1] = old[3 * k - 1]
               /\ new[3 * k] = old[3 * k]
    <2>1. 3 * k - 2 \in 1 .. Len(old) /\ 3 * k - 1 \in 1 .. Len(old) /\ 3 * k \in 1 .. Len(old)
      OBVIOUS
    <2> QED
      BY <2>1
  <1>2. 3 * (n + 1) - 2 = 3 * n + 1 /\ 3 * (n + 1) - 1 = 3 * n + 2 /\ 3 * (n + 1) = 3 * n + 3
    OBVIOUS
  <1>3. ASSUME NEW k \in 1 .. (n + 1)
        PROVE  16 * new[3 * k - 2] + new[3 * k - 1] = r[k]
    <2>1. CASE k = n + 1
      BY <2>1, <1>2
    <2>2. CASE k # n + 1
      <3>1. k \in 1 .. n
        BY <2>2
      <3> QED
        BY <3>1, <1>1 DEF ReadsAs
    <2> QED
      BY <2>1, <2>2
  <1>4. ASSUME NEW k \in 1 .. (n + 1), k < Len(r)
        PROVE  new[3 * k] = Space
    <2>1. CASE k = n + 1
      BY <2>1, <1>2, <1>4
    <2>2. CASE k # n + 1
      <3>1. k \in 1 .. n
        BY <2>2
      <3> QED
        BY <3>1, <1>1, <1>4 DEF ReadsAs
    <2> QED
      BY <2>1, <2>2
  <1> QED
    BY <1>3, <1>4 DEF ReadsAs

LEMMA InitHolds == Init => IInv
  BY DEF Init, IInv, TextSoFar, NotBegun, Whole, OverrunKnown, LengthOf, ReadsAs

\* A new request begins with an empty text.
LEMMA BeginKeeps ==
  ASSUME IInv, Fresh, pc = "idle", pc' \in {"address", "tokens"}
  PROVE  IInv'
  <1>1. i' = 0 /\ mqtt_res' = <<>> /\ response' = <<>> /\ overrun' = overrun /\ own' = 0
    BY DEF Fresh
  <1>2. TextSoFar' /\ NotBegun' /\ Whole'
    BY <1>1 DEF TextSoFar, NotBegun, Whole, LengthOf, ReadsAs
  <1>3. overrun = "none"
    BY DEF IInv, OverrunKnown
  <1>4. OverrunKnown'
    BY <1>1, <1>3 DEF IInv, OverrunKnown
  <1> QED
    BY <1>2, <1>4 DEF IInv

\* The steps up to the exchange do not touch the text.
LEMMA EarlyKeeps ==
  ASSUME IInv, UNCHANGED <<i, mqtt_res, response>>,
         pc \in {"tokens", "address", "packet", "exchange"},
         \/ /\ UNCHANGED <<own, overrun>>
            /\ pc' \in {"tokens", "address", "packet", "exchange"}
         \/ own' = 15 /\ overrun' = "IPbuffer" /\ pc' = "undefined"
         \/ own' < 15 /\ UNCHANGED overrun /\ pc' = "packet"
  PROVE  IInv'
  <1>1. TextSoFar'
    BY DEF IInv, TextSoFar, LengthOf, ReadsAs
  <1>2. NotBegun' /\ Whole'
    BY DEF IInv, NotBegun, Whole
  <1>3. overrun = "none"
    BY DEF IInv, OverrunKnown
  <1>4. OverrunKnown'
    BY <1>3 DEF IInv, OverrunKnown
  <1> QED
    BY <1>1, <1>2, <1>4 DEF IInv

LEMMA AddressKeeps == ASSUME IInv, GetMyIP PROVE IInv'
  <1>1. own' \in 7 .. 15
    BY CodecAssumption DEF GetMyIP
  <1>2. \A n \in 7 .. 15 : IF n + 1 > AddressRoom THEN n = 15 ELSE n < 15
    BY DEF AddressRoom
  <1> QED
    BY <1>1, <1>2, EarlyKeeps DEF GetMyIP

\* The answer is there, and nothing of it in the text.
LEMMA ExchangeKeeps == ASSUME IInv, Exchange PROVE IInv'
  <1>1. /\ response' \in Responses /\ pc = "exchange" /\ pc' = "text"
        /\ i' = i /\ mqtt_res' = mqtt_res /\ overrun' = overrun /\ own' = own
    BY DEF Exchange
  <1>2. i = 0 /\ mqtt_res = <<>> /\ overrun = "none"
    BY <1>1 DEF IInv, NotBegun, OverrunKnown
  <1>3. response' \in Seq(Byte)
    BY <1>1, CodecAssumption
  <1>4. TextSoFar'
    BY <1>1, <1>2, <1>3 DEF TextSoFar, LengthOf, ReadsAs
  <1>5. NotBegun' /\ Whole'
    BY <1>1 DEF NotBegun, Whole
  <1>6. OverrunKnown'
    BY <1>1, <1>2 DEF IInv, OverrunKnown
  <1> QED
    BY <1>4, <1>5, <1>6 DEF IInv

\* One byte more.
LEMMA AppendKeeps == ASSUME IInv, AppendByte PROVE IInv'
  <1>1. /\ response' = response /\ i' = i + 1 /\ pc = "text"
        /\ response \in Seq(Byte) /\ i \in Nat /\ i < Len(response)
        /\ mqtt_res \in Seq(Int) /\ Len(response) \in Nat
    BY DEF AppendByte, IInv, TextSoFar
  <1>2. Len(mqtt_res) = 3 * i /\ ReadsAs(mqtt_res, response, i)
    BY <1>1 DEF IInv, TextSoFar, LengthOf
  <1>3. response[i + 1] \in Byte
    BY <1>1
  <1>4. PICK high \in Int, low \in Int :
          high = response[i + 1] \div 16 /\ low = response[i + 1] % 16
          /\ 16 * high + low = response[i + 1]
    BY <1>3, HexReadsBack
  <1>5. Hex(response[i + 1]) = <<high, low>>
    BY <1>4 DEF Hex
  <1>6. /\ mqtt_res' \in Seq(Int)
        /\ \A k \in 1 .. Len(mqtt_res) : mqtt_res'[k] = mqtt_res[k]
        /\ mqtt_res'[3 * i + 1] = high /\ mqtt_res'[3 * i + 2] = low
        /\ i + 1 < Len(response) => mqtt_res'[3 * i + 3] = Space
        /\ Len(mqtt_res') = IF i + 1 < Len(response) THEN 3 * i + 3 ELSE 3 * i + 2
    <2>1. CASE i + 1 < Len(response)
      <3>1. mqtt_res' = mqtt_res \o <<high, low>> \o <<Space>>
        BY <2>1, <1>5 DEF AppendByte
      <3>2. /\ mqtt_res' \in Seq(Int)
            /\ Len(mqtt_res') = Len(mqtt_res) + 3
            /\ \A k \in 1 .. Len(mqtt_res) : mqtt_res'[k] = mqtt_res[k]
            /\ mqtt_res'[Len(mqtt_res) + 1] = high
            /\ mqtt_res'[Len(mqtt_res) + 2] = low
            /\ mqtt_res'[Len(mqtt_res) + 3] = Space
        BY <3>1, <1>1, Longer
      <3> QED
        BY <2>1, <3>2, <1>2
    <2>2. CASE ~ (i + 1 < Len(response))
      <3>1. mqtt_res' = mqtt_res \o <<high, low>> \o <<>>
        BY <2>2, <1>5 DEF AppendByte
      <3>2. /\ mqtt_res' \in Seq(Int)
            /\ Len(mqtt_res') = Len(mqtt_res) + 2
            /\ \A k \in 1 .. Len(mqtt_res) : mqtt_res'[k] = mqtt_res[k]
            /\ mqtt_res'[Len(mqtt_res) + 1] = high
            /\ mqtt_res'[Len(mqtt_res) + 2] = low
        BY <3>1, <1>1, LongerLast
      <3> QED
        BY <2>2, <3>2, <1>1, <1>2
    <2> QED
      BY <2>1, <2>2
  <1>7. ReadsAs(mqtt_res', response, i + 1)
    BY <1>1, <1>2, <1>4, <1>6, OneMoreReads
  <1>8. Len(mqtt_res') = LengthOf(response, i + 1)
    BY <1>1, <1>6 DEF LengthOf
  <1>9. TextSoFar'
    <2>1. ReadsAs(mqtt_res, response, i)' /\ LengthOf(response, i)' = LengthOf(response, i + 1)
      BY <1>1, <1>7 DEF ReadsAs, LengthOf
    <2>2. (Len(mqtt_res) = LengthOf(response, i))'
      BY <1>8, <2>1
    <2>3. (response \in Seq(Byte) /\ i \in Nat /\ i <= Len(response))'
      BY <1>1
    <2> QED
      BY <1>6, <2>1, <2>2, <2>3 DEF TextSoFar
  <1>10. NotBegun' /\ Whole'
    BY <1>1 DEF AppendByte, NotBegun, Whole
  <1>11. ~ TextFits(Len(mqtt_res'), 0) => 3 * Len(response) + 17 > ResponseRoom
    BY <1>1, <1>6 DEF TextFits, ResponseRoom
  <1>12. overrun = "none"
    BY <1>1 DEF IInv, OverrunKnown
  <1>13. OverrunKnown'
    BY <1>1, <1>11, <1>12 DEF AppendByte, IInv, OverrunKnown
  <1> QED
    BY <1>9, <1>10, <1>13 DEF IInv

\* The text is closed or too long.
LEMMA CloseKeeps == ASSUME IInv, CloseText PROVE IInv'
  <1>1. /\ UNCHANGED <<response, i, mqtt_res>> /\ pc = "text" /\ i = Len(response)
        /\ Len(response) \in Nat
    BY DEF CloseText, IInv, TextSoFar
  <1>2. TextSoFar'
    BY <1>1 DEF IInv, TextSoFar, LengthOf, ReadsAs
  <1>3. NotBegun'
    BY DEF CloseText, NotBegun
  <1>4. Len(mqtt_res) = IF Len(response) > 0 THEN 3 * Len(response) - 1 ELSE 0
    BY <1>1 DEF IInv, TextSoFar, LengthOf
  <1>5. /\ ~ TextFits(Len(mqtt_res), 3) => 3 * Len(response) + 17 > ResponseRoom
        /\ TextFits(Len(mqtt_res), 3) /\ Len(response) > 0
             => 3 * Len(response) + 17 <= ResponseRoom
    BY <1>1, <1>4 DEF TextFits, ResponseRoom
  <1>6. Whole'
    BY <1>1, <1>5 DEF CloseText, Whole
  <1>7. overrun = "none"
    BY <1>1 DEF IInv, OverrunKnown
  <1>8. OverrunKnown'
    BY <1>1, <1>5, <1>7 DEF CloseText, IInv, OverrunKnown
  <1> QED
    BY <1>2, <1>3, <1>6, <1>8 DEF IInv

LEMMA PublishKeeps == ASSUME IInv, Publish PROVE IInv'
  <1>1. UNCHANGED <<own, response, i, mqtt_res, overrun>> /\ pc = "publish" /\ pc' = "idle"
    BY DEF Publish
  <1>2. TextSoFar'
    BY <1>1 DEF IInv, TextSoFar, LengthOf, ReadsAs
  <1>3. NotBegun' /\ Whole' /\ OverrunKnown'
    BY <1>1 DEF IInv, NotBegun, Whole, OverrunKnown
  <1> QED
    BY <1>2, <1>3 DEF IInv

LEMMA StutterKeeps == ASSUME IInv, UNCHANGED vars PROVE IInv'
  BY DEF IInv, vars, TextSoFar, NotBegun, Whole, OverrunKnown, LengthOf, ReadsAs

LEMMA InvariantKept == IInv /\ [Next]_vars => IInv'
  <1> SUFFICES ASSUME IInv, [Next]_vars PROVE IInv'
    OBVIOUS
  <1>1. CASE Read
    BY <1>1, BeginKeeps DEF Read
  <1>2. CASE Write
    BY <1>2, BeginKeeps DEF Write
  <1>3. CASE ReadToken
    BY <1>3, EarlyKeeps DEF ReadToken
  <1>4. CASE TokensEnd
    BY <1>4, EarlyKeeps DEF TokensEnd
  <1>5. CASE GetMyIP
    BY <1>5, AddressKeeps
  <1>6. CASE BuildPacket
    BY <1>6, EarlyKeeps DEF BuildPacket
  <1>7. CASE Exchange
    BY <1>7, ExchangeKeeps
  <1>8. CASE AppendByte
    BY <1>8, AppendKeeps
  <1>9. CASE CloseText
    BY <1>9, CloseKeeps
  <1>10. CASE Publish
    BY <1>10, PublishKeeps
  <1>11. CASE UNCHANGED vars
    BY <1>11, StutterKeeps
  <1> QED
    BY <1>1, <1>2, <1>3, <1>4, <1>5, <1>6, <1>7, <1>8, <1>9, <1>10, <1>11 DEF Next

\* The invariant holds in every state of every behaviour.
THEOREM Invariance == Spec => []IInv
  <1>1. Init => IInv
    BY InitHolds
  <1> QED
    BY <1>1, InvariantKept, PTL DEF Spec

\* Every reply that is published can be read back to the answer it was made of.
THEOREM RepliesReadBack == Spec => []ReplyReadsBack
  <1>1. IInv => ReplyReadsBack
    <2> SUFFICES ASSUME IInv, pc = "publish" PROVE ReplyReadsBack
      BY DEF ReplyReadsBack
    <2>1. i = Len(response) /\ Len(response) \in Nat /\ response \in Seq(Byte)
      BY DEF IInv, Whole, TextSoFar
    <2>2. Len(mqtt_res) = IF response = <<>> THEN 0 ELSE 3 * Len(response) - 1
      BY <2>1 DEF IInv, TextSoFar, LengthOf
    <2>3. ReadsAs(mqtt_res, response, Len(response))
      BY <2>1 DEF IInv, TextSoFar
    <2> QED
      BY <2>2, <2>3 DEF ReplyReadsBack, ReadsAs
  <1> QED
    BY <1>1, Invariance, PTL

\* An own address is too long if it has fifteen characters and otherwise not; the
\* text is too long only for answers of 678 bytes and more, and none of those is
\* published.
THEOREM OverrunsKnown == Spec => []OverrunAtLimitOnly
  <1>1. IInv => OverrunAtLimitOnly
    <2> SUFFICES ASSUME IInv PROVE OverrunAtLimitOnly
      OBVIOUS
    <2>1. response \in Seq(Byte) /\ (Len(response) > 0 \/ response = <<>>)
      BY DEF IInv, TextSoFar
    <2> QED
      BY <2>1 DEF IInv, OverrunKnown, Whole, OverrunAtLimitOnly
  <1> QED
    BY <1>1, Invariance, PTL

-----------------------------------------------------------------------------
(***************************************************************************)
(* HexToInt, whatever characters a number has: the loop goes over all of   *)
(* them, and all but the last two are shifted out of the byte.             *)
(***************************************************************************)

\* The naturals are well-founded.
LEMMA Least ==
  ASSUME NEW T, T \subseteq Nat, T # {}
  PROVE  \E x \in T : \A y \in T : x <= y
<1>1. \E x \in T : \A y \in T : ~ (<<y, x>> \in OpToRel(<, Nat))
  BY NatLessThanWellFounded, WFMin
<1>2. PICK x \in T : \A y \in T : ~ (<<y, x>> \in OpToRel(<, Nat))
  BY <1>1
<1>3. ASSUME NEW y \in T
      PROVE  x <= y
  <2>1. ~ (<<y, x>> \in OpToRel(<, Nat))
    BY <1>2
  <2>2. x \in Nat /\ y \in Nat
    OBVIOUS
  <2>3. ~ (y < x)
    BY <2>1, <2>2 DEF OpToRel
  <2>4. QED BY <2>2, <2>3
<1>4. QED BY <1>3

\* What the k-th character from the end counts for.
FromEnd(hex, k) == ValueOf(hex[Len(hex) + 1 - k])

\* One pass of the loop, and the function that is all of them.
Pass(before, value) ==
  [result |-> (before.result + value * before.mult) % 256, mult |-> (before.mult * 16) % 256]

IsLoop(hex, from) ==
  from = [k \in 0 .. Len(hex) |->
            IF k = 0 THEN [result |-> 0, mult |-> 1]
            ELSE Pass(from[k - 1], FromEnd(hex, k))]

\* What nResult and nDigitMult are after k passes.
After(hex, k) ==
  IF k = 0 THEN [result |-> 0, mult |-> 1]
  ELSE IF k = 1 THEN [result |-> FromEnd(hex, 1), mult |-> 16]
  ELSE [result |-> FromEnd(hex, 1) + 16 * FromEnd(hex, 2), mult |-> 0]

LEMMA HexToIntIsLoop ==
  ASSUME NEW hex
  PROVE  HexToInt(hex) = (CHOOSE from : IsLoop(hex, from))[Len(hex)].result
BY Zenon DEF HexToInt, IsLoop, Pass, FromEnd

LEMMA FromEndTyped ==
  ASSUME NEW hex \in Number, NEW k \in 1 .. Len(hex)
  PROVE  FromEnd(hex, k) \in 0 .. 15
<1>1. Len(hex) + 1 - k \in 1 .. Len(hex)
  BY DEF Number
<1>2. hex[Len(hex) + 1 - k] \in Digit \cup {Other}
  BY <1>1 DEF Number
<1>3. QED BY <1>2 DEF FromEnd, ValueOf, Digit, Other

\* The first pass, the second, and every later one.
LEMMA FirstPass ==
  ASSUME NEW v \in 0 .. 15
  PROVE  Pass([result |-> 0, mult |-> 1], v) = [result |-> v, mult |-> 16]
BY DEF Pass

LEMMA SecondPass ==
  ASSUME NEW v \in 0 .. 15, NEW w \in 0 .. 15
  PROVE  Pass([result |-> v, mult |-> 16], w) = [result |-> v + 16 * w, mult |-> 0]
BY DEF Pass

LEMMA TwoDigits ==
  ASSUME NEW v \in 0 .. 15, NEW w \in 0 .. 15
  PROVE  v + 16 * w \in 0 .. 255
OBVIOUS

LEMMA LaterPass ==
  ASSUME NEW r \in 0 .. 255, NEW x \in 0 .. 15
  PROVE  Pass([result |-> r, mult |-> 0], x) = [result |-> r, mult |-> 0]
BY DEF Pass

LEMMA NextPass ==
  ASSUME NEW hex \in Number, NEW k \in 1 .. Len(hex)
  PROVE  Pass(After(hex, k - 1), FromEnd(hex, k)) = After(hex, k)
<1>1. FromEnd(hex, k) \in 0 .. 15
  BY FromEndTyped
<1>2. CASE k = 1
  <2>1. After(hex, k - 1) = [result |-> 0, mult |-> 1]
    BY <1>2 DEF After
  <2>2. QED BY <1>1, <1>2, <2>1, FirstPass DEF After
<1>3. CASE k = 2
  <2>1. FromEnd(hex, 1) \in 0 .. 15
    BY <1>3, FromEndTyped DEF Number
  <2>2. After(hex, k - 1) = [result |-> FromEnd(hex, 1), mult |-> 16]
    BY <1>3 DEF After
  <2>3. After(hex, k) = [result |-> FromEnd(hex, 1) + 16 * FromEnd(hex, 2), mult |-> 0]
    BY <1>3 DEF After
  <2>4. FromEnd(hex, k) = FromEnd(hex, 2) /\ FromEnd(hex, 2) \in 0 .. 15
    BY <1>1, <1>3, Zenon
  <2>5. QED BY <2>1, <2>2, <2>3, <2>4, SecondPass, Zenon
<1>4. CASE k > 2
  <2>1. FromEnd(hex, 1) \in 0 .. 15 /\ FromEnd(hex, 2) \in 0 .. 15
    <3>1. 1 \in 1 .. Len(hex) /\ 2 \in 1 .. Len(hex)
      BY <1>4 DEF Number
    <3>2. QED BY <3>1, FromEndTyped
  <2>2. After(hex, k - 1) = [result |-> FromEnd(hex, 1) + 16 * FromEnd(hex, 2), mult |-> 0]
    BY <1>4 DEF After
  <2>3. After(hex, k) = After(hex, k - 1)
    BY <1>4, <2>2 DEF After
  <2>4. FromEnd(hex, 1) + 16 * FromEnd(hex, 2) \in 0 .. 255
    BY <2>1, TwoDigits, Zenon
  <2>5. QED BY <1>1, <2>2, <2>3, <2>4, LaterPass, Zenon
<1>5. QED BY <1>2, <1>3, <1>4

LEMMA LoopExists ==
  ASSUME NEW hex \in Number
  PROVE  \E from : IsLoop(hex, from)
<1> DEFINE from == [k \in 0 .. Len(hex) |-> After(hex, k)]
<1>1. ASSUME NEW k \in 0 .. Len(hex)
      PROVE  from[k] = IF k = 0 THEN [result |-> 0, mult |-> 1]
                       ELSE Pass(from[k - 1], FromEnd(hex, k))
  <2>1. CASE k = 0
    BY <2>1 DEF After
  <2>2. CASE k # 0
    <3>1. k \in 1 .. Len(hex) /\ k - 1 \in 0 .. Len(hex)
      BY <2>2 DEF Number
    <3>2. from[k - 1] = After(hex, k - 1) /\ from[k] = After(hex, k)
      BY <3>1, Zenon
    <3>3. QED BY <2>2, <3>1, <3>2, NextPass, Zenon
  <2>3. QED BY <2>1, <2>2
<1>2. IsLoop(hex, from)
  <2>1. [k \in 0 .. Len(hex) |-> After(hex, k)] =
          [k \in 0 .. Len(hex) |-> IF k = 0 THEN [result |-> 0, mult |-> 1]
                                   ELSE Pass(from[k - 1], FromEnd(hex, k))]
    <3>1. \A k \in 0 .. Len(hex) : After(hex, k) = from[k]
      OBVIOUS
    <3>2. \A k \in 0 .. Len(hex) :
            After(hex, k) = IF k = 0 THEN [result |-> 0, mult |-> 1]
                            ELSE Pass(from[k - 1], FromEnd(hex, k))
      BY <1>1, <3>1, Zenon
    <3> HIDE DEF from
    <3>3. QED BY <3>2, Zenon
  <2>2. QED BY <2>1, Zenon DEF IsLoop
<1>3. QED BY <1>2

\* Every function that is the loop has the values After: there is no least
\* number of passes for which it has not.
LEMMA LoopIsAfter ==
  ASSUME NEW hex \in Number, NEW from, IsLoop(hex, from)
  PROVE  \A k \in 0 .. Len(hex) : from[k] = After(hex, k)
<1>1. ASSUME NEW k \in 0 .. Len(hex)
      PROVE  from[k] = IF k = 0 THEN [result |-> 0, mult |-> 1]
                       ELSE Pass(from[k - 1], FromEnd(hex, k))
  BY Zenon DEF IsLoop
<1> DEFINE Wrong == {k \in 0 .. Len(hex) : from[k] # After(hex, k)}
<1>2. ASSUME Wrong # {}
      PROVE  FALSE
  <2>1. Wrong \subseteq Nat
    OBVIOUS
  <2>2. PICK k \in Wrong : \A y \in Wrong : k <= y
    BY <1>2, <2>1, Least
  <2>3. k \in 0 .. Len(hex) /\ from[k] # After(hex, k)
    OBVIOUS
  <2>4. k # 0
    BY <1>1, <2>3 DEF After
  <2>5. k \in 1 .. Len(hex) /\ k - 1 \in 0 .. Len(hex) /\ k - 1 < k
    BY <2>3, <2>4 DEF Number
  <2>6. k - 1 \notin Wrong
    BY <2>2, <2>5
  <2>7. from[k - 1] = After(hex, k - 1)
    BY <2>5, <2>6
  <2>8. from[k] = After(hex, k)
    BY <1>1, <2>3, <2>4, <2>5, <2>7, NextPass, Zenon
  <2>9. QED BY <2>3, <2>8
<1>3. QED BY <1>2

\* HexToInt gives the byte that the last two characters of a number say, for every
\* number of at least one character: strtok finds no empty one.
THEOREM HexToIntIsLastTwo ==
  ASSUME NEW hex \in Number, Len(hex) > 0
  PROVE  HexToInt(hex) = LastTwo(hex)
<1> DEFINE from == CHOOSE f : IsLoop(hex, f)
<1>1. IsLoop(hex, from)
  BY LoopExists
<1>2. Len(hex) \in Nat
  BY DEF Number
<1>3. from[Len(hex)] = After(hex, Len(hex))
  BY <1>1, <1>2, LoopIsAfter
<1>4. HexToInt(hex) = After(hex, Len(hex)).result
  BY <1>3, HexToIntIsLoop, Zenon
<1>5. CASE Len(hex) = 1
  <2>1. FromEnd(hex, 1) \in 0 .. 15
    <3>1. 1 \in 1 .. Len(hex)
      BY <1>5
    <3>2. QED BY <3>1, FromEndTyped
  <2>2. HexToInt(hex) = FromEnd(hex, 1)
    <3>1. After(hex, 1).result = FromEnd(hex, 1)
      BY DEF After
    <3>2. QED BY <1>4, <1>5, <3>1, Zenon
  <2>3. FromEnd(hex, 1) = ValueOf(hex[Len(hex)])
    BY <1>5 DEF FromEnd
  <2>4. LastTwo(hex) = ValueOf(hex[Len(hex)]) + 0
    BY <1>5 DEF LastTwo
  <2>5. QED BY <2>1, <2>2, <2>3, <2>4
<1>6. CASE Len(hex) > 1
  <2>1. HexToInt(hex) = FromEnd(hex, 1) + 16 * FromEnd(hex, 2)
    <3>1. \A n \in Nat : n > 1 => n # 0 /\ n # 1
      OBVIOUS
    <3>2. Len(hex) # 0 /\ Len(hex) # 1
      BY <1>2, <1>6, <3>1, Zenon
    <3>3. After(hex, Len(hex)) =
            [result |-> FromEnd(hex, 1) + 16 * FromEnd(hex, 2), mult |-> 0]
      BY <3>2, Zenon DEF After
    <3>4. QED BY <1>4, <3>3
  <2>2. FromEnd(hex, 1) = ValueOf(hex[Len(hex)]) /\ FromEnd(hex, 2) = ValueOf(hex[Len(hex) - 1])
    BY <1>2 DEF FromEnd
  <2>3. QED BY <1>6, <2>1, <2>2, Zenon DEF LastTwo
<1>7. QED BY <1>2, <1>5, <1>6

-----------------------------------------------------------------------------
(***************************************************************************)
(* The packet of a write request.                                          *)
(***************************************************************************)

\* The bytes read so far are the numbers up to there.
ReadSoFar ==
  /\ request \in Seq(Number) /\ Len(request) <= 64
  /\ \A k \in 1 .. Len(request) : Len(request[k]) > 0
  /\ string \in Seq(Int) /\ Len(string) <= Len(request)
  /\ \A k \in 1 .. Len(string) : string[k] = LastTwo(request[k])

\* Behind the loop all of them are read, and the packet has what it has room for.
AllRead ==
  op = "write" /\ pc \in {"address", "packet", "exchange", "text", "publish"} =>
    Len(string) = Len(request)

RecordBuilt == Sent => record.length = Len(string) /\ record.value = Carried(string)

RecordIInv == ReadSoFar /\ AllRead /\ RecordBuilt


LEMMA LastTwoTyped ==
  ASSUME NEW hex \in Number, Len(hex) > 0
  PROVE  LastTwo(hex) \in Int
<1>1. Len(hex) \in Nat
  BY DEF Number
<1>2. \A j \in 1 .. Len(hex) : ValueOf(hex[j]) \in Int
  BY DEF Number, ValueOf, Digit, Other
<1>3. Len(hex) \in 1 .. Len(hex) /\ (Len(hex) > 1 => Len(hex) - 1 \in 1 .. Len(hex))
  BY <1>1
<1>4. ValueOf(hex[Len(hex)]) \in Int /\ (Len(hex) > 1 => ValueOf(hex[Len(hex) - 1]) \in Int)
  BY <1>2, <1>3, Zenon
<1>5. QED BY <1>4 DEF LastTwo

LEMMA WriteBegins ==
  ASSUME Write
  PROVE  RecordIInv'
<1>1. /\ request' \in Seq(Number) /\ Len(request') <= 64
      /\ \A k \in 1 .. Len(request') : Len(request'[k]) > 0
      /\ string' = <<>> /\ pc' = "tokens"
  BY CodecAssumption DEF Write, Fresh
<1>2. QED BY <1>1 DEF RecordIInv, ReadSoFar, AllRead, RecordBuilt, Sent

LEMMA ReadBegins ==
  ASSUME Read
  PROVE  RecordIInv'
<1>1. request' = <<>> /\ string' = <<>> /\ pc' = "address" /\ op' = "read"
  BY DEF Read, Fresh
<1>2. QED BY <1>1 DEF RecordIInv, ReadSoFar, AllRead, RecordBuilt, Sent

LEMMA ReadTokenKeeps ==
  ASSUME RecordIInv, ReadToken
  PROVE  RecordIInv'
<1> DEFINE n == Len(string)
           hex == request[n + 1]
<1>1. /\ pc = "tokens" /\ n < Len(request) /\ string' = Append(string, HexToInt(hex))
      /\ UNCHANGED <<pc, op, request, record>>
  BY DEF ReadToken
<1>2. /\ request \in Seq(Number) /\ Len(request) <= 64 /\ string \in Seq(Int) /\ n \in Nat
      /\ \A k \in 1 .. Len(request) : Len(request[k]) > 0
      /\ \A k \in 1 .. n : string[k] = LastTwo(request[k])
  BY DEF RecordIInv, ReadSoFar
<1>3. n + 1 \in 1 .. Len(request)
  BY <1>1, <1>2
<1>4. hex \in Number /\ Len(hex) > 0
  BY <1>2, <1>3
<1>5. HexToInt(hex) = LastTwo(hex) /\ LastTwo(hex) \in Int
  BY <1>4, HexToIntIsLastTwo, LastTwoTyped
<1>6. string' = Append(string, LastTwo(hex))
  BY <1>1, <1>5
<1>7. /\ string' \in Seq(Int) /\ Len(string') = n + 1 /\ string'[n + 1] = LastTwo(request[n + 1])
      /\ \A k \in 1 .. n : string'[k] = string[k]
  BY <1>2, <1>5, <1>6
<1> HIDE DEF hex
<1>8. \A k \in 1 .. n + 1 : string'[k] = LastTwo(request[k])
  <2>1. \A k \in 1 .. n + 1 : k \in 1 .. n \/ k = n + 1
    BY <1>2
  <2>2. QED BY <1>2, <1>7, <2>1, Zenon
<1>9. ReadSoFar'
  BY <1>1, <1>2, <1>3, <1>7, <1>8 DEF ReadSoFar
<1>10. AllRead' /\ RecordBuilt'
  BY <1>1 DEF AllRead, RecordBuilt, Sent
<1>11. QED BY <1>9, <1>10 DEF RecordIInv

\* The steps that leave the bytes alone.
LEMMA BytesKept ==
  ASSUME RecordIInv, UNCHANGED <<op, request, string>>
  PROVE  ReadSoFar'
BY Zenon DEF RecordIInv, ReadSoFar

LEMMA BuildPacketKeeps ==
  ASSUME RecordIInv, BuildPacket
  PROVE  RecordIInv'
<1>1. /\ pc = "packet" /\ pc' = "exchange" /\ UNCHANGED <<op, request, string>>
      /\ op = "write" => record' = [length |-> Len(string), value |-> Carried(string)]
  BY DEF BuildPacket
<1>2. AllRead'
  BY <1>1 DEF RecordIInv, AllRead
<1>3. Carried(string)' = Carried(string)
  BY <1>1, Zenon DEF Carried
<1>4. RecordBuilt'
  BY <1>1, <1>3 DEF RecordBuilt, Sent
<1>5. QED BY <1>1, <1>2, <1>4, BytesKept DEF RecordIInv

LEMMA PacketKept ==
  ASSUME RecordIInv, UNCHANGED <<op, request, string, record>>,
         pc' \in {"address", "packet", "exchange", "text", "publish"} =>
           \/ pc \in {"address", "packet", "exchange", "text", "publish"}
           \/ Len(string) = Len(request),
         pc' \in {"exchange", "text", "publish"} => pc \in {"exchange", "text", "publish"}
  PROVE  RecordIInv'
<1>1. AllRead'
  BY DEF RecordIInv, AllRead
<1>2. RecordBuilt'
  BY Zenon DEF RecordIInv, RecordBuilt, Sent, Carried
<1>3. QED BY <1>1, <1>2, BytesKept DEF RecordIInv

LEMMA RecordInvariantKept == RecordIInv /\ [Next]_vars => RecordIInv'
<1> SUFFICES ASSUME RecordIInv, [Next]_vars
             PROVE  RecordIInv'
  OBVIOUS
<1>1. CASE Read \/ Write
  BY <1>1, ReadBegins, WriteBegins
<1>2. CASE ReadToken
  BY <1>2, ReadTokenKeeps
<1>3. CASE TokensEnd
  BY <1>3, PacketKept DEF TokensEnd
<1>4. CASE GetMyIP
  BY <1>4, PacketKept DEF GetMyIP
<1>5. CASE BuildPacket
  BY <1>5, BuildPacketKeeps
<1>6. CASE Exchange
  BY <1>6, PacketKept DEF Exchange
<1>7. CASE AppendByte
  BY <1>7, PacketKept DEF AppendByte
<1>8. CASE CloseText
  BY <1>8, PacketKept DEF CloseText
<1>9. CASE Publish
  BY <1>9, PacketKept DEF Publish
<1>10. CASE UNCHANGED vars
  BY <1>10, PacketKept DEF vars
<1>11. QED
  BY <1>1, <1>2, <1>3, <1>4, <1>5, <1>6, <1>7, <1>8, <1>9, <1>10 DEF Next

LEMMA CarriedBytes ==
  ASSUME NEW bytes \in Seq(Int)
  PROVE  /\ Len(Carried(bytes)) = IF Len(bytes) < RecordRoom THEN Len(bytes) ELSE RecordRoom
         /\ Len(Carried(bytes)) <= Len(bytes)
         /\ \A k \in 1 .. Len(Carried(bytes)) : Carried(bytes)[k] = bytes[k]
BY DEF Carried, RecordRoom

\* For every request of numbers with digits, however long they are: the packet
\* has their last two digits, byte for byte, up to the twenty-fourth, and string
\* is never written behind.
THEOREM PacketIsRequest == Spec => []RecordIsRequest
<1>1. Init => RecordIInv
  BY DEF Init, RecordIInv, ReadSoFar, AllRead, RecordBuilt, Sent
<1>2. RecordIInv => RecordIsRequest
  <2> SUFFICES ASSUME RecordIInv
               PROVE  RecordIsRequest
    OBVIOUS
  <2>1. string \in Seq(Int) /\ Len(string) <= 64 /\ Len(string) \in Nat
    BY DEF RecordIInv, ReadSoFar
  <2>2. ASSUME Sent
        PROVE  /\ record.length = Len(request)
               /\ \A k \in 1 .. Len(record.value) : record.value[k] = LastTwo(request[k])
               /\ Len(record.value) = IF Len(request) < RecordRoom THEN Len(request)
                                      ELSE RecordRoom
    <3>1. /\ record.length = Len(string) /\ record.value = Carried(string)
          /\ Len(string) = Len(request)
      BY <2>2 DEF RecordIInv, RecordBuilt, AllRead, Sent
    <3>2. /\ Len(record.value) = IF Len(request) < RecordRoom THEN Len(request) ELSE RecordRoom
          /\ Len(record.value) <= Len(string)
          /\ \A k \in 1 .. Len(record.value) : record.value[k] = string[k]
      BY <2>1, <3>1, CarriedBytes, Zenon
    <3>3. Len(record.value) \in Nat
      BY <2>1, <3>1, <3>2 DEF RecordRoom
    <3>4. \A k \in 1 .. Len(record.value) : k \in 1 .. Len(string)
      BY <2>1, <3>2, <3>3
    <3>5. \A k \in 1 .. Len(string) : string[k] = LastTwo(request[k])
      BY DEF RecordIInv, ReadSoFar
    <3>6. QED BY <3>1, <3>2, <3>4, <3>5, Zenon
  <2>3. QED BY <2>1, <2>2 DEF RecordIsRequest, DataRoom
<1>3. QED BY <1>1, <1>2, RecordInvariantKept, PTL DEF Spec

-----------------------------------------------------------------------------
(***************************************************************************)
(* Configuration: after n pieces the settings are those of the last line   *)
(* of each key among them.                                                 *)
(***************************************************************************)

\* The k-th piece is the last one of its key among the first n.
IsLastOf(k, key, n) == file[k].key = key /\ \A l \in (k + 1) .. n : file[l].key # key

IntervalSoFar ==
  /\ \A k \in 1 .. line :
       IsLastOf(k, "IDENT_REQ_TIMEOUT", line) => request_interval = file[k].number
  /\ (\A k \in 1 .. line : file[k].key # "IDENT_REQ_TIMEOUT") => request_interval = 0

NameSoFar ==
  /\ \A k \in 1 .. line :
       IsLastOf(k, "INTERFACE_NAME", line) => interface_name = file[k].name
  /\ (\A k \in 1 .. line : file[k].key # "INTERFACE_NAME") => interface_name = NoName

PlaceInFile ==
  /\ Len(file) \in Nat /\ line \in 0 .. Len(file)
  /\ stage = "open" => line = 0
  /\ stage = "threads" => line = Len(file)

SettingsIInv == PlaceInFile /\ IntervalSoFar /\ NameSoFar

\* One piece more, of another key, changes nothing about the last one of a key;
\* one of this key is the last.
LEMMA OnePieceMore ==
  ASSUME NEW n \in Nat, NEW key
  PROVE  /\ file[n + 1].key # key =>
              /\ \A k \in 1 .. n + 1 :
                   IsLastOf(k, key, n + 1) => k \in 1 .. n /\ IsLastOf(k, key, n)
              /\ (\A k \in 1 .. n + 1 : file[k].key # key) =>
                   \A k \in 1 .. n : file[k].key # key
         /\ file[n + 1].key = key =>
              /\ \A k \in 1 .. n + 1 : IsLastOf(k, key, n + 1) => k = n + 1
              /\ ~ \A k \in 1 .. n + 1 : file[k].key # key
<1>1. ASSUME file[n + 1].key # key, NEW k \in 1 .. n + 1, IsLastOf(k, key, n + 1)
      PROVE  k \in 1 .. n /\ IsLastOf(k, key, n)
  <2>1. k # n + 1
    BY <1>1 DEF IsLastOf
  <2>2. k \in 1 .. n /\ (k + 1) .. n \subseteq (k + 1) .. (n + 1)
    BY <2>1
  <2>3. QED BY <1>1, <2>2, Zenon DEF IsLastOf
<1>2. ASSUME file[n + 1].key = key, NEW k \in 1 .. n + 1, IsLastOf(k, key, n + 1)
      PROVE  k = n + 1
  <2>1. ASSUME k # n + 1 PROVE FALSE
    <3>1. n + 1 \in (k + 1) .. (n + 1)
      BY <2>1
    <3>2. QED BY <1>2, <3>1, Zenon DEF IsLastOf
  <2>2. QED BY <2>1
<1>3. 1 .. n \subseteq 1 .. n + 1 /\ n + 1 \in 1 .. n + 1
  OBVIOUS
<1>4. QED BY <1>1, <1>2, <1>3, Zenon

\* A piece is read that says nothing of the interval, or nothing of the name.
LEMMA IntervalKept ==
  ASSUME SettingsIInv, line' = line + 1, UNCHANGED <<file, request_interval>>,
         file[line + 1].key # "IDENT_REQ_TIMEOUT"
  PROVE  IntervalSoFar'
<1>1. line \in Nat
  BY DEF SettingsIInv, PlaceInFile
<1>2. /\ \A k \in 1 .. line + 1 : IsLastOf(k, "IDENT_REQ_TIMEOUT", line + 1) =>
           k \in 1 .. line /\ IsLastOf(k, "IDENT_REQ_TIMEOUT", line)
      /\ (\A k \in 1 .. line + 1 : file[k].key # "IDENT_REQ_TIMEOUT") =>
           \A k \in 1 .. line : file[k].key # "IDENT_REQ_TIMEOUT"
  BY <1>1, OnePieceMore
<1>3. QED BY <1>2, Zenon DEF SettingsIInv, IntervalSoFar, IsLastOf

LEMMA NameKept ==
  ASSUME SettingsIInv, line' = line + 1, UNCHANGED <<file, interface_name>>,
         file[line + 1].key # "INTERFACE_NAME"
  PROVE  NameSoFar'
<1>1. line \in Nat
  BY DEF SettingsIInv, PlaceInFile
<1>2. /\ \A k \in 1 .. line + 1 : IsLastOf(k, "INTERFACE_NAME", line + 1) =>
           k \in 1 .. line /\ IsLastOf(k, "INTERFACE_NAME", line)
      /\ (\A k \in 1 .. line + 1 : file[k].key # "INTERFACE_NAME") =>
           \A k \in 1 .. line : file[k].key # "INTERFACE_NAME"
  BY <1>1, OnePieceMore
<1>3. QED BY <1>2, Zenon DEF SettingsIInv, NameSoFar, IsLastOf

LEMMA PieceRead ==
  ASSUME SettingsIInv, NEW keys, NextPiece(keys)
  PROVE  PlaceInFile' /\ line' = line + 1 /\ file' = file /\ file[line + 1].key \in keys
BY DEF SettingsIInv, PlaceInFile, NextPiece

LEMMA SkipKeeps ==
  ASSUME SettingsIInv, Skip
  PROVE  SettingsIInv'
<1>1. /\ PlaceInFile' /\ line' = line + 1 /\ UNCHANGED <<file, request_interval, interface_name>>
      /\ file[line + 1].key \in {"#", "one word", "other"}
  BY PieceRead DEF Skip
<1>2. IntervalSoFar' /\ NameSoFar'
  BY <1>1, IntervalKept, NameKept
<1>3. QED BY <1>1, <1>2 DEF SettingsIInv

LEMMA SetIntervalKeeps ==
  ASSUME SettingsIInv, SetInterval
  PROVE  SettingsIInv'
<1>1. /\ PlaceInFile' /\ line' = line + 1 /\ UNCHANGED <<file, interface_name>>
      /\ file[line + 1].key = "IDENT_REQ_TIMEOUT" /\ request_interval' = file[line + 1].number
  BY PieceRead DEF SetInterval
<1>2. NameSoFar'
  BY <1>1, NameKept
<1>3. IntervalSoFar'
  <2>1. line \in Nat
    BY DEF SettingsIInv, PlaceInFile
  <2>2. /\ \A k \in 1 .. line + 1 : IsLastOf(k, "IDENT_REQ_TIMEOUT", line + 1) => k = line + 1
        /\ ~ \A k \in 1 .. line + 1 : file[k].key # "IDENT_REQ_TIMEOUT"
    BY <1>1, <2>1, OnePieceMore
  <2>3. QED BY <1>1, <2>2, Zenon DEF IntervalSoFar, IsLastOf
<1>4. QED BY <1>1, <1>2, <1>3 DEF SettingsIInv

LEMMA SetInterfaceKeeps ==
  ASSUME SettingsIInv, SetInterface
  PROVE  SettingsIInv'
<1>1. /\ PlaceInFile' /\ line' = line + 1 /\ UNCHANGED <<file, request_interval>>
      /\ file[line + 1].key = "INTERFACE_NAME" /\ interface_name' = file[line + 1].name
  BY PieceRead DEF SetInterface
<1>2. IntervalSoFar'
  BY <1>1, IntervalKept
<1>3. NameSoFar'
  <2>1. line \in Nat
    BY DEF SettingsIInv, PlaceInFile
  <2>2. /\ \A k \in 1 .. line + 1 : IsLastOf(k, "INTERFACE_NAME", line + 1) => k = line + 1
        /\ ~ \A k \in 1 .. line + 1 : file[k].key # "INTERFACE_NAME"
    BY <1>1, <2>1, OnePieceMore
  <2>3. QED BY <1>1, <2>2, Zenon DEF NameSoFar, IsLastOf
<1>4. QED BY <1>1, <1>2, <1>3 DEF SettingsIInv

LEMMA OpenKeeps ==
  ASSUME SettingsIInv, Open
  PROVE  SettingsIInv'
<1>1. /\ stage' = "read" /\ file' \in Seq(Piece)
      /\ UNCHANGED <<line, request_interval, interface_name>> /\ line = 0
  BY ConfigurationAssumption DEF Open, SettingsIInv, PlaceInFile
<1>2. PlaceInFile'
  BY <1>1 DEF PlaceInFile
<1>3. request_interval = 0 /\ interface_name = NoName
  BY <1>1 DEF SettingsIInv, IntervalSoFar, NameSoFar
<1>4. IntervalSoFar' /\ NameSoFar'
  BY <1>1, <1>3 DEF IntervalSoFar, NameSoFar
<1>5. QED BY <1>2, <1>4 DEF SettingsIInv

\* The steps that read nothing.
LEMMA RestKeeps ==
  ASSUME SettingsIInv, UNCHANGED <<file, line, request_interval, interface_name>>,
         stage' = "open" => stage = "open",
         stage' = "threads" => stage = "threads" \/ line = Len(file)
  PROVE  SettingsIInv'
<1>1. PlaceInFile'
  BY DEF SettingsIInv, PlaceInFile
<1>2. IntervalSoFar' /\ NameSoFar'
  BY Zenon DEF SettingsIInv, IntervalSoFar, NameSoFar, IsLastOf
<1>3. QED BY <1>1, <1>2 DEF SettingsIInv

LEMMA SettingsInvariantKept ==
  SettingsIInv /\ [ConfigurationNext]_configurationVars => SettingsIInv'
<1> SUFFICES ASSUME SettingsIInv, [ConfigurationNext]_configurationVars
             PROVE  SettingsIInv'
  OBVIOUS
<1>1. CASE Reads
  <2>1. CASE EndOfFile
    BY <2>1, RestKeeps DEF EndOfFile
  <2>2. QED
    BY <1>1, <2>1, OpenKeeps, SkipKeeps, SetIntervalKeeps, SetInterfaceKeeps DEF Reads
<1>2. CASE OpenFails
  BY <1>2, RestKeeps DEF OpenFails
<1>3. CASE DiscoverCrashes
  BY <1>3, RestKeeps DEF DiscoverCrashes
<1>4. CASE HeapCrashes
  BY <1>4, RestKeeps DEF HeapCrashes
<1>5. CASE UNCHANGED configurationVars
  BY <1>5, RestKeeps DEF configurationVars
<1>6. QED BY <1>1, <1>2, <1>3, <1>4, <1>5 DEF ConfigurationNext

\* For every file: what the threads find is what the last line of each key says,
\* whatever comments, half lines and other keys stand around it.
THEOREM SettingsTaken == ConfigurationSpec => []SettingsAreTheLast
<1>1. ConfigurationInit => SettingsIInv
  BY DEF ConfigurationInit, SettingsIInv, PlaceInFile, IntervalSoFar, NameSoFar
<1>2. SettingsIInv => SettingsAreTheLast
  <2> SUFFICES ASSUME SettingsIInv, stage = "threads"
               PROVE  SettingsAreTheLast
    BY DEF SettingsAreTheLast
  <2>1. line = Len(file)
    BY DEF SettingsIInv, PlaceInFile
  <2>2. \A k, key : IsLastOf(k, key, Len(file)) <=> IsLast(k, key)
    BY Zenon DEF IsLast, IsLastOf
  <2>3. QED
    BY <2>1, <2>2, Zenon DEF SettingsIInv, IntervalSoFar, NameSoFar, SettingsAreTheLast, Has
<1>3. QED BY <1>1, <1>2, SettingsInvariantKept, PTL DEF ConfigurationSpec

=============================================================================
