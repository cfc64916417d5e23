------------------------------ MODULE PutBytes ------------------------------
(***************************************************************************)
(* The put functions of prepareBlock.c.  A buffer that is being filled is  *)
(* the sequence of the bytes put so far: its length is *p_pos, the bytes   *)
(* behind it are still the zeros of os_buf_alloc.  res_len is the size the *)
(* caller claims; what does not fit is left out, and nobody is told.       *)
(***************************************************************************)
EXTENDS Integers, Sequences

Byte == 0 .. 255

Uint16 == 0 .. (256 * 256 - 1)

Word(hi, lo) == 256 * hi + lo

\* Mutant of pf_put_byte: > for >=.
PutByteOneMore(out, res_len, val) ==
  IF Len(out) > res_len THEN out ELSE Append(out, val)

\* Mutant of pf_put_byte: the last byte of the buffer is not used.
PutByteOneLess(out, res_len, val) ==
  IF Len(out) + 1 >= res_len THEN out ELSE Append(out, val)

pf_put_byte(out, res_len, val) ==
  IF Len(out) >= res_len THEN out ELSE Append(out, val)

\* Mutant of pf_put_uint16: the bytes are swapped.
PutUint16Swapped(is_big_endian, out, res_len, val) ==
  LET first  == IF is_big_endian THEN val % 256 ELSE val \div 256
      second == IF is_big_endian THEN val \div 256 ELSE val % 256
  IN  pf_put_byte(pf_put_byte(out, res_len, first), res_len, second)

pf_put_uint16(is_big_endian, out, res_len, val) ==
  LET first  == IF is_big_endian THEN val \div 256 ELSE val % 256
      second == IF is_big_endian THEN val % 256 ELSE val \div 256
  IN  pf_put_byte(pf_put_byte(out, res_len, first), res_len, second)

\* All of the bytes or none.
pf_put_mem(out, res_len, src) ==
  IF Len(out) + Len(src) >= res_len THEN out ELSE out \o src

\* Mutant of pf_dcp_put_block: the length takes the block's header in.
PutBlockCountingHeader(out, dst_max, opt, sub, length, value) ==
  LET head == pf_put_uint16(TRUE, pf_put_byte(pf_put_byte(out, dst_max, opt), dst_max, sub),
                            dst_max, length + 4)
      body == pf_put_mem(head, dst_max, value)
  IN  IF Len(body) % 2 = 1 THEN pf_put_byte(body, dst_max, 0) ELSE body

\* pf_dcp_put_block in one piece, for a room it returns from; value is <<>> for
\* a p_value of NULL.  BlockWriter has it step by step.
pf_dcp_put_block(out, dst_max, opt, sub, length, value) ==
  LET head == pf_put_uint16(TRUE, pf_put_byte(pf_put_byte(out, dst_max, opt), dst_max, sub),
                            dst_max, length)
      body == pf_put_mem(head, dst_max, value)
      full == IF Len(body) % 2 = 1 THEN pf_put_byte(body, dst_max, 0) ELSE body
  IN  IF Len(out) + length < dst_max THEN full ELSE out

=============================================================================
