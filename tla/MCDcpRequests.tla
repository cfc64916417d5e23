---------------------------- MODULE MCDcpRequests ----------------------------
(* An address; one with a number that is no octet; one that breaks off; one *)
(* with a letter in it; and one with something behind it.                   *)
EXTENDS DcpRequests

Line(numbers, leftBehind) == [numbers |-> numbers, stuck |-> leftBehind]

MCLines ==
  {Line(<<10, 0, 0, 5>>, FALSE), Line(<<10, 0, 300, -1>>, FALSE), Line(<<10, 0>>, FALSE),
   Line(<<10>>, TRUE), Line(<<10, 0, 0, 5>>, TRUE)}

=============================================================================
