---------------------------- MODULE MCBlockParser ----------------------------
(***************************************************************************)
(* Small instances of BlockParser for TLC.                                 *)
(***************************************************************************)
EXTENDS BlockParser, FiniteSets

CONSTANTS MCMaxBlocks  \* how many blocks of any kind and length a payload has

\* The payload with these blocks, one behind the other.
MCLay(blocks) ==
  LET at[k \in 1 .. Len(blocks) + 1] ==
        IF k = 1 THEN 0
        ELSE at[k - 1] + 4 + blocks[k - 1].len + (blocks[k - 1].len % 2)
  IN [n |-> Len(blocks),
      kind |-> [k \in 1 .. Len(blocks) |-> blocks[k].kind],
      len |-> [k \in 1 .. Len(blocks) |-> blocks[k].len],
      start |-> at]

MCIp == [kind |-> "ip", len |-> 14]

\* An even and an odd length, and one whose low byte has its highest bit set.
MCBlocks ==
  {MCIp, [kind |-> "text", len |-> 130]}
    \cup [kind : {"counted", "uncounted"}, len : {4, 5, 130}]

\* Payloads of up to MCMaxBlocks blocks, one of them long at most.
MCMixed ==
  {b \in UNION {[1 .. m -> MCBlocks] : m \in 0 .. MCMaxBlocks} :
     Cardinality({k \in DOMAIN b : b[k].len = 130}) <= 1}

\* Payloads in which the address comes late.
MCLate ==
  {[k \in 1 .. m |-> IF k = m THEN MCIp ELSE [kind |-> "counted", len |-> 5]] :
     m \in 8 .. 11}

MCPayloads == {MCLay(b) : b \in MCMixed \cup MCLate}

MCStrays == {MCIp, [kind |-> "counted", len |-> 0], [kind |-> "uncounted", len |-> 200]}

=============================================================================
