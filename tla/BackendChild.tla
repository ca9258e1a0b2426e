---------------------------- MODULE BackendChild ----------------------------
(***************************************************************************)
(* The backend process of the desktop: it is started for a project, killed  *)
(* when another is started or the window closes, and may end by itself.  A  *)
(* child that was killed is not waited for: what it still writes, and the   *)
(* event of its exit, come in the life of the next.  Output arrives in      *)
(* chunks of one buffer, from which whole lines are taken.                  *)
(*                                                                          *)
(* A line is two pieces, the second with the newline.  Processes and pipes  *)
(* are Node's: an exit may be announced before all of the output.           *)
(***************************************************************************)
EXTENDS Naturals, Sequences, SequencesExt, Ordering

CONSTANTS
  MaxChildren,  \* bound: starts
  MaxPieces     \* bound: pieces a child writes

ASSUME ChildAssumption == MaxChildren \in Nat \ {0} /\ MaxPieces \in Nat \ {0}

Kids == 1..MaxChildren
NoKid == 0

VARIABLES
  kid,           \* this.child
  spawned,       \* children spawned so far
  process,       \* per child: "none", "running", "failed", "over", or "gone" once its exit is seen
  expected,      \* expectedExitChildren
  written,       \* pieces each has written
  pipe,          \* its output that has not been read
  stdoutBuffer,
  lines,         \* the "event" events: lines, and the child last started then
  complaints,    \* children whose failed spawn or unexpected exit the user was told of
  clean          \* history: each start found all earlier output read, in whole lines

childVars ==
  <<kid, spawned, process, expected, written, pipe, stdoutBuffer, lines, complaints, clean>>

Piece(c, n) == [of |-> c, number |-> n]
Newline(piece) == piece.number % 2 = 0

-----------------------------------------------------------------------------
(* handleStdout.                                                            *)

Newlines(text) == {i \in DOMAIN text : Newline(text[i])}

(* The place after the last newline.                                        *)
RestOf(text) == Max(Newlines(text) \cup {0}) + 1

LinesOf(text) ==
  LET ends == Arranged(Newlines(text), InFront(Newlines(text)))
  IN [k \in DOMAIN ends |-> SubSeq(text, IF k = 1 THEN 1 ELSE ends[k - 1] + 1, ends[k])]

Remainder(text) == SubSeq(text, RestOf(text), Len(text))

HandleStdout(chunk) ==
  LET text == stdoutBuffer \o chunk
      found == LinesOf(text)
  IN /\ stdoutBuffer' = Remainder(text)
     /\ lines' = lines \o [k \in DOMAIN found |-> [line |-> found[k], during |-> spawned]]

-----------------------------------------------------------------------------

ChildInit ==
  /\ kid = NoKid /\ spawned = 0
  /\ process = [c \in Kids |-> "none"]
  /\ expected = {} /\ complaints = {}
  /\ written = [c \in Kids |-> 0]
  /\ pipe = [c \in Kids |-> <<>>]
  /\ stdoutBuffer = <<>> /\ lines = <<>>
  /\ clean = TRUE

(* stop: the child is expected to exit, and forgotten.                      *)
Stopped == expected \cup ({kid} \ {NoKid})

(* start: the buffer is kept.                                               *)
StartChild ==
  /\ spawned < MaxChildren
  /\ expected' = Stopped
  /\ spawned' = spawned + 1 /\ kid' = spawned + 1
  /\ process' = [process EXCEPT ![spawned + 1] = "running"]
  /\ clean' = (/\ clean /\ stdoutBuffer = <<>>
               /\ \A c \in Kids : process[c] # "running" /\ pipe[c] = <<>>)
  /\ UNCHANGED <<written, pipe, stdoutBuffer, lines, complaints>>

StopChild ==
  /\ kid # NoKid
  /\ expected' = Stopped /\ kid' = NoKid
  /\ UNCHANGED <<spawned, process, written, pipe, stdoutBuffer, lines, complaints, clean>>

(* The command is not there: an error, no exit; the child is kept.          *)
SpawnFails(c) ==
  /\ process[c] = "running" /\ written[c] = 0
  /\ process' = [process EXCEPT ![c] = "failed"]
  /\ complaints' = complaints \cup {c}
  /\ UNCHANGED <<kid, spawned, expected, written, pipe, stdoutBuffer, lines, clean>>

ChildWrites(c) ==
  /\ process[c] = "running" /\ written[c] < MaxPieces
  /\ written' = [written EXCEPT ![c] = @ + 1]
  /\ pipe' = [pipe EXCEPT ![c] = Append(@, Piece(c, written[c] + 1))]
  /\ UNCHANGED <<kid, spawned, process, expected, stdoutBuffer, lines, complaints, clean>>

(* It ends by itself, or is killed; in the middle of a line too.            *)
ChildEnds(c) ==
  /\ process[c] = "running"
  /\ process' = [process EXCEPT ![c] = "over"]
  /\ UNCHANGED <<kid, spawned, expected, written, pipe, stdoutBuffer, lines, complaints, clean>>

OutputArrives(c, n) ==
  /\ n <= Len(pipe[c])
  /\ HandleStdout(SubSeq(pipe[c], 1, n))
  /\ pipe' = [pipe EXCEPT ![c] = SubSeq(@, n + 1, Len(@))]
  /\ UNCHANGED <<kid, spawned, process, expected, written, complaints, clean>>

(* Mutant of Forgotten: the child is forgotten whichever it is.             *)
ForgottenAlways(c) == TRUE

Forgotten(c) == kid = c

(* The exit is announced; it is an error if the child was not stopped.      *)
ExitSeen(c) ==
  /\ process[c] = "over"
  /\ process' = [process EXCEPT ![c] = "gone"]
  /\ complaints' = complaints \cup ({c} \ expected)
  /\ kid' = IF Forgotten(c) THEN NoKid ELSE kid
  /\ UNCHANGED <<spawned, expected, written, pipe, stdoutBuffer, lines, clean>>

ChildNext ==
  \/ StartChild \/ StopChild
  \/ \E c \in Kids :
       \/ SpawnFails(c) \/ ChildWrites(c) \/ ChildEnds(c) \/ ExitSeen(c)
       \/ \E n \in 1..MaxPieces : OutputArrives(c, n)

ChildSpec == ChildInit /\ [][ChildNext]_childVars
-----------------------------------------------------------------------------
(* Properties.                                                              *)

Emitted == Chained([i \in DOMAIN lines |-> lines[i].line])
Of(c, text) == Picked(text, {i \in DOMAIN text : text[i].of = c})

(* The types; and nothing a child wrote is lost, doubled or put in another  *)
(* order: it was emitted, or is in the buffer or the pipe.                  *)
ChildTypeOK ==
  /\ kid \in Kids \cup {NoKid} /\ spawned \in 0..MaxChildren
  /\ expected \cup complaints \subseteq 1..spawned
  /\ Newlines(stdoutBuffer) = {}
  /\ \A c \in Kids :
       Of(c, Emitted \o stdoutBuffer) \o pipe[c] = [n \in 1..written[c] |-> Piece(c, n)]

(* No two backends work on at a time: all but the one that is sent to were  *)
(* told to end, whenever the exits of the earlier ones are announced.       *)
OneBackend == {c \in Kids : process[c] = "running"} \ expected \subseteq {kid}

(* What is emitted is whole lines of the backend last started, if each      *)
(* start found the earlier ones ended and read up.  Else a line of the new  *)
(* one begins with the rest of an old one's, or comes in its place.         *)
LinesAreCurrent ==
  clean => \A i \in DOMAIN lines :
    /\ Len(lines[i].line) = 2
    /\ \A n \in 1..2 : lines[i].line[n].of = lines[i].during

(* The desktop has one backend that works at a time, and what it makes of   *)
(* the output is whole lines of that one, with nothing lost, doubled or     *)
(* moved (BackendProcess).                                                  *)
BackendSound == ChildTypeOK /\ OneBackend /\ LinesAreCurrent
=============================================================================
