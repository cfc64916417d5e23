------------------------------- MODULE MCTexts -------------------------------
(* The program's start and then its requests.                               *)
(* Configuration: the repository's own file, and every file of up to four   *)
(* pieces: settings that repeat, that are missing, that have a negative     *)
(* number or none, comments and lines that are neither.                     *)
(* Codec: requests with numbers of one to three characters, an x in one of  *)
(* them, up to one more of them than the packet takes; answers of every     *)
(* kind of byte, about as long as the text takes; and the shortest address  *)
(* and those on either side of the buffer's end.                            *)
EXTENDS Configuration, Codec

MCPieces ==
  {[key |-> "#"], [key |-> "one word"],
   [key |-> "IDENT_REQ_TIMEOUT", number |-> 5],
   [key |-> "IDENT_REQ_TIMEOUT", number |-> 0],
   [key |-> "IDENT_REQ_TIMEOUT", number |-> -1],
   [key |-> "INTERFACE_NAME", name |-> "enp2s0"],
   [key |-> "INTERFACE_NAME", name |-> "eth0"]}

\* src/config.
OwnFile ==
  <<[key |-> "#"], [key |-> "other"], [key |-> "other"],
    [key |-> "IDENT_REQ_TIMEOUT", number |-> 5],
    [key |-> "INTERFACE_NAME", name |-> "enp2s0"], [key |-> "#"]>>

MCFiles == {OwnFile} \cup UNION {[1 .. n -> MCPieces] : n \in 0 .. 4}

Counting(n) == [k \in 1 .. n |-> (37 * k) % 256]

MCRequests ==
  {<<>>, <<<<0, 2>>, <<15, 15>>>>, <<<<7>>, <<0, Other, 1, 10>>, <<12, 1, 2>>>>,
   [k \in 1 .. 24 |-> <<k % 16, (5 * k) % 16>>],
   [k \in 1 .. 25 |-> <<k % 16, (5 * k) % 16>>]}
MCResponses == {Counting(n) : n \in {0, 1, 2, 7, 677, 678}}
MCAddressLengths == {7, 14, 15}

\* The threads are started with the settings; requests are followed with the
\* repository's own file, since none depends on what the file says.
Starts == ConfigurationNext /\ UNCHANGED vars

Serves ==
  /\ stage = "threads" /\ file = OwnFile
  /\ Next
  /\ UNCHANGED configurationVars

TextsInit == ConfigurationInit /\ Init

TextsSpec == TextsInit /\ [][Starts \/ Serves]_<<configurationVars, vars>>

=============================================================================
