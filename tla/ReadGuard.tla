------------------------------ MODULE ReadGuard ------------------------------
(***************************************************************************)
(* The read guard: a run remembers which lines of which version of a file   *)
(* it has read, and a later read_file returns only the lines that are new,  *)
(* or none.  Beside it, what the working state and the evidence ledger tell  *)
(* the model it has read, and what a change of the workspace takes back.     *)
(*                                                                          *)
(* A version of a file is its content; all contents have the lines Lines.   *)
(* A file is not changed by anybody else in the middle of one tool call.    *)
(***************************************************************************)
EXTENDS Naturals, Sequences, SequencesExt, FiniteSets, Ordering

CONSTANTS
  Files,
  Versions,      \* contents of a file
  Lines,         \* its lines, 1..n
  ShownLines,    \* lines of a range that are left of a result after clip
  RangeLimit,    \* READ_RANGE_LEDGER_LIMIT
  EntryLimit,    \* EVIDENCE_LEDGER_LIMIT
  StateLimit,    \* WORKING_STATE_MAX_READ_RANGES
  MaxCalls       \* bound: tool calls and changes of files

ASSUME ReadGuardAssumption ==
  /\ {RangeLimit, EntryLimit, StateLimit} \subseteq Nat \ {0}
  /\ Lines \subseteq Nat /\ IsFiniteSet(Files)

VARIABLES
  version,       \* the content of each file
  ranges,        \* read_range_ledger
  inspected,     \* evidence_ledger
  stateRanges,   \* read_ranges of the working state
  changedFiles,  \* changed_files of the working state
  read,          \* history: the lines that results of this run held
  displayed,     \* history: those of them that clip left in
  outside,       \* history: files that somebody else changed
  last,          \* history: the last read_file
  calls

guardVars == <<version, ranges, inspected, stateRanges, changedFiles, read,
               displayed, outside, last, calls>>

-----------------------------------------------------------------------------
(* Ranges of lines.                                                         *)

AsRead(p, from, to) == [path |-> p, from |-> from, to |-> to, version |-> version[p]]
LinesOf(r) == {[path |-> r.path, version |-> r.version, line |-> l] : l \in r.from..r.to}
(* Mutant of SameVersion: a range of the file, whatever its content.        *)
SamePath(r, s) == r.path = s.path

SameVersion(r, s) == r.path = s.path /\ r.version = s.version
SameLines(r, s) == r.path = s.path /\ r.from = s.from /\ r.to = s.to
Touch(r, s) == r.from <= s.to + 1 /\ s.from <= r.to + 1

Newest(s, n) == SubSeq(s, IF Len(s) > n THEN Len(s) - n + 1 ELSE 1, Len(s))
Renew(s, e, n) == Newest(Append(Picked(s, {i \in DOMAIN s : s[i] # e}), e), n)

(* A read widens the new record by every record of its version that it      *)
(* touches, taken in the order of their first lines.                        *)
Merge(got, r) ==
  IF Touch(r, got.new)
  THEN [new  |-> [got.new EXCEPT !.from = IF r.from < @ THEN r.from ELSE @,
                                 !.to = IF r.to > @ THEN r.to ELSE @],
        gone |-> got.gone \cup {r}]
  ELSE got

Pending(S) ==
  {p \in S \X S : LET r == ranges[p[1]]  s == ranges[p[2]] IN
     \/ r.from < s.from
     \/ r.from = s.from /\ r.to < s.to
     \/ r.from = s.from /\ r.to = s.to /\ p[1] < p[2]}

MergeReadRanges(new) ==
  LET compatible == {i \in DOMAIN ranges : SameVersion(ranges[i], new)}
      pending == Arranged(compatible, Pending(compatible))
      got[k \in 0..Len(pending)] ==
        IF k = 0 THEN [new |-> new, gone |-> {}] ELSE Merge(got[k - 1], ranges[pending[k]])
      merged == got[Len(pending)]
  IN Append(Picked(ranges, {i \in DOMAIN ranges : ranges[i] \notin merged.gone}), merged.new)

(* What a request asks for that some record of the present version covers.  *)
Covered(r) ==
  LinesOf(r) \cap UNION {LinesOf(s) : s \in {x \in ToSet(ranges) : SameVersion(x, r)}}

Action(r, force) ==
  IF Covered(r) # {}
  THEN IF force THEN "forced" ELSE IF Covered(r) = LinesOf(r) THEN "suppressed" ELSE "delta_read"
  ELSE IF \E s \in ToSet(ranges) : s.path = r.path THEN "stale_read" ELSE "read"

(* Each stretch of a result is clipped on its own.                          *)
Clipped(S) ==
  {x \in S : \E n \in 0..(ShownLines - 1) :
     /\ \A k \in 0..n : [x EXCEPT !.line = x.line - k] \in S
     /\ ~\E y \in S : y.line = x.line - n - 1}

-----------------------------------------------------------------------------

NothingRead ==
  /\ ranges = <<>> /\ inspected = <<>> /\ stateRanges = <<>> /\ changedFiles = <<>>
  /\ read = {} /\ displayed = {}
  /\ last = [action |-> "none", asked |-> {}, returned |-> {}]

ReadGuardInit ==
  /\ version \in [Files -> Versions]
  /\ NothingRead /\ outside = {} /\ calls = 0

OneCall == calls < MaxCalls /\ calls' = calls + 1

(* read_file that is let through, whole or but for the covered lines.       *)
ReadLines(p, from, to, force) ==
  LET r == AsRead(p, from, to)
      action == Action(r, force)
      returned == IF action = "delta_read" THEN LinesOf(r) \ Covered(r) ELSE LinesOf(r)
  IN /\ OneCall
     /\ action # "suppressed"
     /\ ranges' = Newest(MergeReadRanges(r), RangeLimit)
     /\ inspected' = Renew(inspected, r, EntryLimit)
     /\ stateRanges' =
          Newest(Append(Picked(stateRanges, {i \in DOMAIN stateRanges : ~SameLines(stateRanges[i], r)}),
                        r), StateLimit)
     /\ read' = read \cup returned
     /\ displayed' = displayed \cup Clipped(returned)
     /\ last' = [action |-> action, asked |-> LinesOf(r), returned |-> returned]
     /\ UNCHANGED <<version, changedFiles, outside>>

(* read_file of nothing but covered lines: a notice instead of a result.    *)
SuppressRead(p, from, to) ==
  LET r == AsRead(p, from, to) IN
  /\ OneCall
  /\ Action(r, FALSE) = "suppressed"
  /\ inspected' = Renew(inspected, r, EntryLimit)
  /\ last' = [action |-> "suppressed", asked |-> LinesOf(r), returned |-> {}]
  /\ UNCHANGED <<version, ranges, stateRanges, changedFiles, read, displayed, outside>>

(* read_file that fails, or is rejected because it repeats itself or the    *)
(* circuit is open: the call is recorded as evidence all the same.          *)
ReadFails(p, from, to) ==
  /\ OneCall
  /\ inspected' = Renew(inspected, AsRead(p, from, to), EntryLimit)
  /\ UNCHANGED <<version, ranges, stateRanges, changedFiles, read, displayed, outside, last>>

(* A tool that changes files, all of which it reports.                      *)
OfOthers(s, P) == Picked(s, {i \in DOMAIN s : s[i].path \notin P})
ChangeByTool(P, v) ==
  /\ OneCall
  /\ \E p \in P : version[p] # v
  /\ version' = [p \in Files |-> IF p \in P THEN v ELSE version[p]]
  /\ LET affected == {p \in P : version[p] # v} IN
     /\ inspected' = OfOthers(inspected, affected)
     /\ stateRanges' = OfOthers(stateRanges, affected)
     /\ changedFiles' \in
          {Picked(changedFiles, {i \in DOMAIN changedFiles : changedFiles[i] \notin affected}) \o s :
             s \in SetToSeqs(affected)}
     /\ outside' = outside \ affected
  /\ UNCHANGED <<ranges, read, displayed, last>>

(* The user, or another program, changes a file, or puts it back.           *)
ChangeOutside(p, v) ==
  /\ OneCall
  /\ v # version[p]
  /\ version' = [version EXCEPT ![p] = v]
  /\ outside' = outside \cup {p}
  /\ UNCHANGED <<ranges, inspected, stateRanges, changedFiles, read, displayed, last>>

(* ask() begins with a new planning state and a new working state.          *)
NextRun ==
  /\ OneCall
  /\ ranges # <<>>
  /\ ranges' = <<>> /\ inspected' = <<>> /\ stateRanges' = <<>> /\ changedFiles' = <<>>
  /\ read' = {} /\ displayed' = {}
  /\ last' = [action |-> "none", asked |-> {}, returned |-> {}]
  /\ outside' = {}
  /\ UNCHANGED version

ReadGuardNext ==
  \/ \E p \in Files, from, to \in Lines, force \in BOOLEAN :
       from <= to /\ ReadLines(p, from, to, force)
  \/ \E p \in Files, from, to \in Lines :
       from <= to /\ (SuppressRead(p, from, to) \/ ReadFails(p, from, to))
  \/ \E P \in SUBSET Files \ {{}}, v \in Versions : ChangeByTool(P, v)
  \/ \E p \in Files, v \in Versions : ChangeOutside(p, v)
  \/ NextRun

ReadGuardSpec == ReadGuardInit /\ [][ReadGuardNext]_guardVars

-----------------------------------------------------------------------------

ReadGuardTypeOK ==
  /\ version \in [Files -> Versions]
  /\ Len(ranges) <= RangeLimit /\ Len(inspected) <= EntryLimit /\ Len(stateRanges) <= StateLimit
  /\ \A r \in ToSet(ranges) \cup ToSet(inspected) \cup ToSet(stateRanges) :
       r.path \in Files /\ r.version \in Versions /\ {r.from, r.to} \subseteq Lines
  /\ ToSet(changedFiles) \subseteq Files /\ IsInjective(changedFiles)

(* The ledger of ranges claims no line that was not read in this run at     *)
(* that version, however ranges were merged and cut (merge_read_ranges).    *)
LedgerTrue == \A r \in ToSet(ranges) : LinesOf(r) \subseteq read

(* Whatever a read holds back was read before in this run, at the content   *)
(* the file has now, also when the file was changed in between and put      *)
(* back (analyze_read_coverage).                                            *)
HeldBackWasRead == last.asked \subseteq read

(* What the model is told it has inspected is of the present version of the *)
(* file, unless somebody else changed it: a tool's change takes it back     *)
(* (invalidate_evidence_for_paths, invalidate_read_ranges_for_paths).       *)
InspectedCurrent ==
  \A r \in ToSet(inspected) \cup ToSet(stateRanges) :
    r.version # version[r.path] => r.path \in outside

(* "was already available and unchanged": a line that is held back was in a *)
(* result as the model got it.  It may not have been: the ledger takes the  *)
(* range that was asked for, and the result was clipped.                    *)
HeldBackWasShown == last.asked \ last.returned \subseteq displayed

(* The guard against repeated reads is honest, by the parts above: its      *)
(* bounded windows claim only what was read, a read is held back only when  *)
(* all its lines were read at the present content, and what the model is    *)
(* told it has inspected no tool changed since (memory.py, read_coverage    *)
(* and watchdog windows).                                                   *)
ReadsHonest == ReadGuardTypeOK /\ LedgerTrue /\ HeldBackWasRead /\ InspectedCurrent
=============================================================================
