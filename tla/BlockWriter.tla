----------------------------- MODULE BlockWriter -----------------------------
(***************************************************************************)
(* pf_dcp_put_block (prepareBlock.c): a sender takes a buffer, writes its  *)
(* own header and then one block after the other.  A block is an option    *)
(* and suboption, a length of two bytes, the value and, where it ends at   *)
(* an odd position, a byte of padding.                                     *)
(*                                                                         *)
(* The function is one thread's, but it need not return: its parts are     *)
(* steps here, the padding loop's passes among them.                       *)
(***************************************************************************)
EXTENDS PutBytes

CONSTANTS
  Rooms,      \* sizes of buffer a sender may claim (dst_max)
  Starts,     \* lengths of header a sender writes before its blocks
  Blocks,     \* the blocks it may put, see BlockType
  MaxBlocks   \* bound on the blocks of a buffer

\* The arguments of a call: opt, sub, value_length and whether p_value is NULL
\* (with_block_info and block_info are used nowhere).  Each byte of the value
\* is data.
BlockType == [opt : Byte, sub : Byte, length : Uint16, null : BOOLEAN, data : Byte]

\* A sender's header fits and has an even length.
ASSUME WriterAssumption ==
  /\ Rooms \subseteq Uint16
  /\ Starts \subseteq Nat
  /\ \A s \in Starts : s % 2 = 0 /\ \A r \in Rooms : s <= r
  /\ Blocks \subseteq BlockType
  /\ MaxBlocks \in Nat

VARIABLES
  dst_max,   \* the room the sender claims
  out,       \* the bytes put so far
  pc,        \* where pf_dcp_put_block is; "idle" outside
  block,     \* its arguments
  placed     \* the blocks it has written something of, with their positions (history)

vars == <<dst_max, out, pc, block, placed>>

HeaderOnly(n) == [i \in 1 .. n |-> 0]

\* Mutant of NewBuffer: the room counts the sixteen bytes of os_buf_t.
NewBufferWithStruct ==
  /\ dst_max' \in {r + 16 : r \in Rooms}
  /\ \E n \in Starts : out' = HeaderOnly(n)
  /\ placed' = <<>>

\* os_buf_alloc, and the header that the sender writes.
NewBuffer ==
  /\ dst_max' \in Rooms
  /\ \E n \in Starts : out' = HeaderOnly(n)
  /\ placed' = <<>>

Init ==
  /\ dst_max \in Rooms
  /\ \E n \in Starts : out = HeaderOnly(n)
  /\ pc = "idle"
  /\ block \in Blocks
  /\ placed = <<>>

\* The guard looks at the value's length and not at the block's header.
Accepts(b) == Len(out) + b.length < dst_max

\* The option, the suboption and b_len, which is value_length.
PutHeader ==
  /\ pc = "idle" /\ Len(placed) < MaxBlocks
  /\ block' \in {b \in Blocks : Accepts(b)}
  /\ LET b == block'
         opt == pf_put_byte(out, dst_max, b.opt)
         sub == pf_put_byte(opt, dst_max, b.sub)
     IN  out' = pf_put_uint16(TRUE, sub, dst_max, b.length)
  /\ placed' = Append(placed, [at |-> Len(out), block |-> block'])
  /\ pc' = "value"
  /\ UNCHANGED dst_max

\* A block that is not accepted leaves nothing, and the call returns 0 as well.
SkipBlock ==
  /\ pc = "idle"
  /\ block' \in {b \in Blocks : ~ Accepts(b)}
  /\ UNCHANGED <<dst_max, out, pc, placed>>

PutValue ==
  /\ pc = "value"
  /\ out' = IF block.null THEN out
            ELSE pf_put_mem(out, dst_max, [i \in 1 .. block.length |-> block.data])
  /\ pc' = "pad"
  /\ UNCHANGED <<dst_max, block, placed>>

Odd(n) == n % 2 = 1

\* One pass of while ((*p_dst_pos) & 1).
Pad ==
  /\ pc = "pad" /\ Odd(Len(out))
  /\ out' = pf_put_byte(out, dst_max, 0)
  /\ UNCHANGED <<dst_max, pc, block, placed>>

\* Mutant of Return: there is no padding.
ReturnUnpadded ==
  /\ pc = "pad"
  /\ pc' = "idle"
  /\ UNCHANGED <<dst_max, out, block, placed>>

Return ==
  /\ pc = "pad" /\ ~ Odd(Len(out))
  /\ pc' = "idle"
  /\ UNCHANGED <<dst_max, out, block, placed>>

\* The frame is sent and another one begun.
NextFrame ==
  /\ pc = "idle"
  /\ NewBuffer
  /\ UNCHANGED <<pc, block>>

Call == PutHeader \/ SkipBlock
Inside == PutValue \/ Pad \/ Return

Next == Call \/ Inside \/ NextFrame

\* A call that has begun goes on.
Fairness == WF_vars(Inside)

Spec == Init /\ [][Next]_vars

FairSpec == Spec /\ Fairness

-----------------------------------------------------------------------------

\* Types of the variables.
TypeOK ==
  /\ dst_max \in Rooms
  /\ out \in Seq(Byte)
  /\ pc \in {"idle", "value", "pad"}
  /\ block \in Blocks
  /\ placed \in Seq([at : Nat, block : Blocks])

\* Nothing is written behind the room the sender claims, although the guard
\* lets in a block whose header does not fit: the put functions clip it.
WithinRoom == Len(out) <= dst_max

\* A block has its whole value unless p_value is NULL or there is no room for
\* it, for the block's header and for one byte more.
Whole(p) == (p.block.length = 0 \/ ~ p.block.null)
            /\ p.at + 4 + p.block.length < dst_max

LengthAt(pos) == Word(out[pos + 3], out[pos + 4])

HeaderInPlace(p) ==
  out[p.at + 1] = p.block.opt /\ out[p.at + 2] = p.block.sub
  /\ LengthAt(p.at) = p.block.length

ValueInPlace(p) == \A k \in 1 .. p.block.length : out[p.at + 4 + k] = p.block.data

\* Where the i-th block ends.
Behind(i) == IF i = Len(placed) THEN Len(out) ELSE placed[i + 1].at

\* Where a receiver that is at a block goes on: behind as many bytes as the
\* block's length says, at an even position.
GoesOn(at) == at + 4 + LengthAt(at) + (IF Odd(LengthAt(at)) THEN 1 ELSE 0)

\* Where a receiver that begins behind the sender's header finds the n-th block.
ReaderAt(n) ==
  LET at[i \in 1 .. n] == IF i = 1 THEN placed[1].at ELSE GoesOn(at[i - 1])
  IN  at[n]

\* Between two calls the position is even, and a receiver that knows nothing but
\* the bytes and follows the lengths finds the blocks as they were put, up to the
\* first that is not whole.  From there on it finds nothing for certain, although
\* whole blocks may follow: a block with a length and no value, as send_set_req
\* puts it, or with its header or value cut, leads the receiver astray.
ReadsBack ==
  pc = "idle" =>
    /\ ~ Odd(Len(out))
    /\ \A n \in 1 .. Len(placed) :
         (\A i \in 1 .. n : Whole(placed[i])) =>
            /\ ReaderAt(n) = placed[n].at
            /\ HeaderInPlace(placed[n]) /\ ValueInPlace(placed[n])
            /\ GoesOn(ReaderAt(n)) = Behind(n)

Last == placed[Len(placed)]

\* What a call puts behind the length: with p_value NULL nothing.
ValueOf(b) == IF b.null THEN <<>> ELSE [i \in 1 .. b.length |-> b.data]

\* A call that has returned has done, step by step and pass by pass, what
\* pf_dcp_put_block does in one piece to the bytes that it found, in buffers with
\* no room for the block as well: whoever puts a block may take it as one step.
InOnePiece ==
  pc = "idle" /\ placed # <<>> =>
    LET b == Last.block
    IN  out = pf_dcp_put_block(SubSeq(out, 1, Last.at), dst_max,
                               b.opt, b.sub, b.length, ValueOf(b))

\* The padding loop never ends if the block's header was clipped by a buffer
\* of odd size: pf_put_byte no longer advances the position.
Endless == pc = "pad" /\ Odd(dst_max) /\ Len(out) = dst_max

\* Every call returns, except for that.
CallReturns == pc # "idle" ~> (pc = "idle" \/ Endless)

=============================================================================
