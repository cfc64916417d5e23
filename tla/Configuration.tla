---------------------------- MODULE Configuration ----------------------------
(***************************************************************************)
(* read_configurations (profinet.c), which main calls before it starts the *)
(* threads: the two settings as the threads find them.  What the threads   *)
(* do with them is Discovery's and RequestHandler's, but for the first use *)
(* of a name that was not set.                                             *)
(*                                                                         *)
(* A file is the sequence of the pieces that fgets returns: its lines, and *)
(* of a line of more than 255 characters the parts, each of which is       *)
(* taken for a line.                                                       *)
(***************************************************************************)
EXTENDS Integers, Sequences

CONSTANTS
  Files,     \* the files that may be there, each a sequence of pieces
  Names      \* names of interfaces

\* interface_name before it is set: NULL.
NoName == "NULL"

\* A comment; a piece without two words; a key nobody asks for; the two keys, with
\* what atoi makes of the value, and with the name.
Piece ==
  [key : {"#", "one word", "other"}]
    \cup [key : {"IDENT_REQ_TIMEOUT"}, number : Int]
    \cup [key : {"INTERFACE_NAME"}, name : Names]

ASSUME ConfigurationAssumption ==
  /\ Files \subseteq Seq(Piece)
  /\ NoName \notin Names

VARIABLES
  stage,              \* where main is; "threads" when it has started them
  file,               \* the file that was opened
  line,               \* how many pieces of it were read
  request_interval,
  interface_name,
  heap                \* "whole", or "damaged" by a write behind a block of it

configurationVars == <<stage, file, line, request_interval, interface_name, heap>>

ConfigurationInit ==
  /\ stage = "open"
  /\ file = <<>>
  /\ line = 0
  /\ request_interval = 0
  /\ interface_name = NoName
  /\ heap = "whole"

Open ==
  /\ stage = "open"
  /\ file' \in Files
  /\ stage' = "read"
  /\ UNCHANGED <<line, request_interval, interface_name, heap>>

\* There is no file: fopen's result goes to fgets as it is.
OpenFails ==
  /\ stage = "open"
  /\ stage' = "crashed"
  /\ UNCHANGED <<file, line, request_interval, interface_name, heap>>

\* fgets and, but for comments, sscanf.
NextPiece(keys) ==
  /\ stage = "read" /\ line < Len(file)
  /\ file[line + 1].key \in keys
  /\ line' = line + 1
  /\ UNCHANGED <<stage, file>>

\* Mutant of Skip: a piece without two words is the end.
SkipEnds ==
  /\ NextPiece({"#", "other"})
  /\ UNCHANGED <<request_interval, interface_name, heap>>

Skip ==
  /\ NextPiece({"#", "one word", "other"})
  /\ UNCHANGED <<request_interval, interface_name, heap>>

\* Mutant of SetInterval: the first value counts.
SetIntervalOnce ==
  /\ NextPiece({"IDENT_REQ_TIMEOUT"})
  /\ request_interval' = IF request_interval = 0 THEN file[line + 1].number
                         ELSE request_interval
  /\ UNCHANGED <<interface_name, heap>>

SetInterval ==
  /\ NextPiece({"IDENT_REQ_TIMEOUT"})
  /\ request_interval' = file[line + 1].number
  /\ UNCHANGED <<interface_name, heap>>

\* The 256 bytes of value, whatever is in it, are copied to a block of 50.
SetInterface ==
  /\ NextPiece({"INTERFACE_NAME"})
  /\ interface_name' = file[line + 1].name
  /\ heap' = "damaged"
  /\ UNCHANGED request_interval

\* The threads are started.
EndOfFile ==
  /\ stage = "read" /\ line = Len(file)
  /\ stage' = "threads"
  /\ UNCHANGED <<file, line, request_interval, interface_name, heap>>

\* discover_devices: strcpy of the name, where there is none.
DiscoverCrashes ==
  /\ stage = "threads" /\ interface_name = NoName
  /\ stage' = "crashed"
  /\ UNCHANGED <<file, line, request_interval, interface_name, heap>>

\* What malloc and free find behind the block may end the process, in main or in
\* any thread, the next time or later.
HeapCrashes ==
  /\ heap = "damaged" /\ stage # "crashed"
  /\ stage' = "crashed"
  /\ UNCHANGED <<file, line, request_interval, interface_name, heap>>

Reads == Open \/ Skip \/ SetInterval \/ SetInterface \/ EndOfFile

ConfigurationNext == Reads \/ OpenFails \/ DiscoverCrashes \/ HeapCrashes

ConfigurationSpec == ConfigurationInit /\ [][ConfigurationNext]_configurationVars

-----------------------------------------------------------------------------

\* The k-th piece is the last one of its key.
IsLast(k, key) ==
  file[k].key = key /\ \A l \in (k + 1) .. Len(file) : file[l].key # key

Has(key) == \E k \in 1 .. Len(file) : file[k].key = key

\* The threads find what the last line of each key says, whatever stands around
\* it; without such a line the interval is 0 and there is no name.
SettingsAreTheLast ==
  stage = "threads" =>
    /\ \A k \in 1 .. Len(file) :
         /\ IsLast(k, "IDENT_REQ_TIMEOUT") => request_interval = file[k].number
         /\ IsLast(k, "INTERFACE_NAME") => interface_name = file[k].name
    /\ ~ Has("IDENT_REQ_TIMEOUT") => request_interval = 0
    /\ ~ Has("INTERFACE_NAME") => interface_name = NoName

=============================================================================
