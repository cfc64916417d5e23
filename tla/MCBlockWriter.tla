---------------------------- MODULE MCBlockWriter ----------------------------
(* The writer in small buffers, of odd size too: blocks that fit, blocks     *)
(* whose value or header does not, and blocks that are refused; and one that *)
(* needs both bytes of its length, in a buffer that takes it.                *)
EXTENDS BlockWriter

Block(opt, length, null) ==
  [opt |-> opt, sub |-> opt, length |-> length, null |-> null,
   data |-> 255 - opt]

SmallRooms == {14, 15, 17, 310}
SmallStarts == {2, 4}
SmallBlocks ==
  {Block(1, 0, FALSE), Block(3, 0, TRUE), Block(5, 1, FALSE), Block(7, 3, FALSE),
   Block(9, 4, TRUE), Block(11, 7, FALSE), Block(13, 300, TRUE)}

=============================================================================
