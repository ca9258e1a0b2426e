--------------------------- MODULE UsageAccounting ---------------------------
(***************************************************************************)
(* What the models' answers cost: after each answer the run loop gives the  *)
(* usage record of the answer an id, keeps it with the run, and has the     *)
(* usage store add it to the rows of the session and rewrite the session's  *)
(* summary.  Rows and summary are two files, each written whole; the        *)
(* process may end between them, and either may fail.                       *)
(*                                                                          *)
(* The calls of an answer that makes several are taken from a queue in the  *)
(* turns that follow: no model is asked, and the last metadata is recorded  *)
(* again.  One process at a time writes for a session.                      *)
(***************************************************************************)
EXTENDS Integers, FiniteSets, Sequences, FiniteSetsExt, Functions, Ordering

CONSTANTS
  RunIds,        \* run ids; one may be run again
  Groups,      \* what usage_group_key tells apart
  Counts,      \* token counts of an answer, or NoCount
  NoCount,     \* the provider gives none
  BatchSizes,  \* calls an answer makes
  MaxAsked     \* bound: answers

ASSUME UsageAssumption ==
  /\ NoCount \in Int \ Nat /\ Counts \subseteq Nat \cup {NoCount}
  /\ BatchSizes \subseteq Nat \ {0} /\ MaxAsked \in Nat

VARIABLES
  turn,     \* where the run loop is
  run,       \* the run, or NoRunId
  attempts,  \* task_state.attempts
  metadata,  \* last_completion_metadata: [asked, group, tokens]
  queued,    \* calls in pending_native_calls
  usage,     \* current_run_usage
  rows,      \* the records file
  totals,   \* the summary file
  next,      \* what record is about to write: rows, or Nothing
  event,     \* the last usage_updated: [run, session]
  asked,     \* history: answers so far
  begun,     \* history: runs that began
  sound,     \* history: the run is its first, and no file failed in it
  misread    \* history: the rows could not be read once

usageVars == <<turn, run, attempts, metadata, queued, usage, rows, totals, next, event,
               asked, begun, sound, misread>>

NoRunId == "no run"
Nothing == <<>>
NoSummary == [revision |-> NoCount]
NoEvent == [run |-> NoSummary, session |-> NoSummary]

-----------------------------------------------------------------------------
(* build_usage_snapshot.                                                    *)

Ids(S) == {S[i].id : i \in DOMAIN S}

Known(S) == {i \in DOMAIN S : S[i].tokens # NoCount}

Total(S) ==
  IF Known(S) = {} THEN NoCount ELSE FoldFunctionOnSet(+, 0, [i \in DOMAIN S |-> S[i].tokens], Known(S))
LatestTokens(S) == IF Known(S) = {} THEN NoCount ELSE S[Max(Known(S))].tokens
Peak(S) == Max({NoCount} \cup {S[i].tokens : i \in Known(S)})

Aggregate(S) == [total |-> Total(S), latest |-> LatestTokens(S), peak |-> Peak(S), requests |-> Len(S)]

OfGroup(S, g) == Picked(S, {i \in DOMAIN S : S[i].group = g})

Snapshot(S) ==
  [revision |-> Cardinality(Ids(S)),
   last     |-> IF S = <<>> THEN <<>> ELSE S[Len(S)].id,
   groups   |-> [g \in {S[i].group : i \in DOMAIN S} |-> Aggregate(OfGroup(S, g))]]

(* Mutant of Trusted: the summary is taken as it is.                      *)
TrustedAlways == totals # NoSummary

(* load_snapshot takes the summary if it is of as many records.           *)
Trusted == totals # NoSummary /\ totals.revision = Cardinality(Ids(rows))

LoadSnapshot == IF Trusted THEN totals ELSE Snapshot(rows)

-----------------------------------------------------------------------------

UsageInit ==
  /\ turn = "idle" /\ run = NoRunId /\ attempts = 0 /\ queued = 0
  /\ metadata = [asked |-> 0, group |-> NoRunId, tokens |-> NoCount]
  /\ usage = <<>> /\ rows = <<>> /\ totals = NoSummary /\ next = Nothing
  /\ event = NoEvent
  /\ asked = 0 /\ begun = {} /\ sound = FALSE /\ misread = FALSE

(* ask: what the last run counted is forgotten, its queue too.              *)
BeginRun(r) ==
  /\ turn = "idle"
  /\ turn' = "asking" /\ run' = r /\ attempts' = 0 /\ usage' = <<>> /\ queued' = 0
  /\ event' = NoEvent
  /\ sound' = (r \notin begun) /\ begun' = begun \cup {r}
  /\ UNCHANGED <<metadata, rows, totals, next, asked, misread>>

(* A model answers, with one call or more.                                  *)
ModelAnswers(g, tokens, size) ==
  /\ turn = "asking" /\ queued = 0 /\ asked < MaxAsked
  /\ turn' = "answered"
  /\ attempts' = attempts + 1 /\ asked' = asked + 1
  /\ metadata' = [asked |-> asked + 1, group |-> g, tokens |-> tokens]
  /\ queued' = size - 1
  /\ UNCHANGED <<run, usage, rows, totals, next, event, begun, sound, misread>>

(* A call of an earlier answer is taken; the client's metadata is still     *)
(* that of the answer.                                                      *)
TakeCall ==
  /\ turn = "asking" /\ queued > 0
  /\ turn' = "answered"
  /\ attempts' = attempts + 1
  /\ queued' = queued - 1
  /\ UNCHANGED <<run, metadata, usage, rows, totals, next, event, asked, begun, sound, misread>>

UsageId == <<run, attempts>>

UsageRecord == [id |-> UsageId, of |-> metadata.asked, group |-> metadata.group, tokens |-> metadata.tokens]

(* The record is kept with the run.                                         *)
KeepRecord ==
  /\ turn = "answered"
  /\ turn' = "kept"
  /\ usage' = Append(usage, UsageRecord)
  /\ UNCHANGED <<run, attempts, metadata, queued, rows, totals, next, event, asked, begun, sound,
                 misread>>

Inserted(old, record) == record.id \notin Ids(old)

Announce(session) == event' = [run |-> Snapshot(usage), session |-> session]

(* record: the rows are read.  If they cannot be, there are none.           *)
ReadRows(read) ==
  /\ turn = "kept"
  /\ LET old == IF read THEN rows ELSE <<>>
         record == usage[Len(usage)]
     IN IF Inserted(old, record)
        THEN /\ next' = Append(old, record)
             /\ turn' = "writing"
             /\ UNCHANGED event
        ELSE /\ Announce(LoadSnapshot)
             /\ turn' = "asking"
             /\ UNCHANGED next
  /\ ~read => rows # <<>>
  /\ misread' = (misread \/ ~read)
  /\ sound' = (sound /\ read)
  /\ UNCHANGED <<run, attempts, metadata, queued, usage, rows, totals, asked, begun>>

WriteRows ==
  /\ turn = "writing"
  /\ turn' = "written"
  /\ rows' = next
  /\ UNCHANGED <<run, attempts, metadata, queued, usage, totals, next, event, asked, begun, sound,
                 misread>>

WriteSummary ==
  /\ turn = "written"
  /\ turn' = "asking"
  /\ totals' = Snapshot(next) /\ next' = Nothing
  /\ Announce(Snapshot(next))
  /\ UNCHANGED <<run, attempts, metadata, queued, usage, rows, asked, begun, sound, misread>>

(* Either file cannot be written: a warning, and no event; the run goes on, *)
(* and the record is not tried again.                                       *)
WriteFails ==
  /\ turn \in {"writing", "written"}
  /\ turn' = "asking"
  /\ next' = Nothing
  /\ sound' = FALSE
  /\ UNCHANGED <<run, attempts, metadata, queued, usage, rows, totals, event, asked, begun, misread>>

(* The run ends: an answer, an error of the model, or a cancel, which comes *)
(* before the answer is recorded.                                           *)
EndUsage ==
  /\ turn \in {"asking", "answered"}
  /\ turn' = "idle" /\ run' = NoRunId
  /\ UNCHANGED <<attempts, metadata, queued, usage, rows, totals, next, event, asked, begun, sound,
                 misread>>

(* The process ends; another loads the session and shows its usage.         *)
UsageRestart ==
  /\ turn \in {"kept", "writing", "written"}
  /\ turn' = "idle" /\ run' = NoRunId /\ queued' = 0
  /\ metadata' = [asked |-> 0, group |-> NoRunId, tokens |-> NoCount]
  /\ usage' = <<>> /\ next' = Nothing
  /\ event' = NoEvent /\ sound' = FALSE
  /\ UNCHANGED <<attempts, rows, totals, asked, begun, misread>>

UsageNext ==
  \/ \E r \in RunIds : BeginRun(r)
  \/ \E g \in Groups, tokens \in Counts, size \in BatchSizes : ModelAnswers(g, tokens, size)
  \/ TakeCall \/ KeepRecord
  \/ \E read \in BOOLEAN : ReadRows(read)
  \/ WriteRows \/ WriteSummary \/ WriteFails
  \/ EndUsage \/ UsageRestart

UsageSpec == UsageInit /\ [][UsageNext]_usageVars
-----------------------------------------------------------------------------
(* Properties.                                                              *)

(* The types; a row's id is that of one row only, although ids are given    *)
(* anew when a run is run again, so no record is counted twice.             *)
UsageTypeOK ==
  /\ turn \in {"idle", "asking", "answered", "kept", "writing", "written"}
  /\ run \in RunIds \cup {NoRunId} /\ attempts \in Nat /\ queued \in Nat /\ asked \in 0..MaxAsked
  /\ {rows[i].id : i \in DOMAIN rows} \subseteq RunIds \X Nat
  /\ Cardinality(Ids(rows)) = Len(rows)

(* Whoever loads the session's usage, at whatever moment, is given what the *)
(* rows add up to: also between the two writes, after a process ended there *)
(* and after either failed.                                                 *)
SnapshotCurrent == ~misread => LoadSnapshot = Snapshot(rows)

RowsOf(r) == Picked(rows, {i \in DOMAIN rows : rows[i].id[1] = r})

(* What a run that met no failure shows of itself is its part of what it    *)
(* shows of the session.                                                    *)
RunIsPart ==
  event # NoEvent /\ sound /\ turn = "asking" =>
    /\ event.run = Snapshot(RowsOf(run))
    /\ event.session = Snapshot(rows)

(* A run that met no failure has a row for each call of each answer: an     *)
(* answer that makes several calls is counted once for every call taken, as *)
(* if the model had been asked that often.                                  *)
CountedPerCall ==
  turn = "asking" /\ sound =>
    /\ Len(RowsOf(run)) = attempts
    /\ queued = 0 => \A of \in 1..asked :
         LET counted == {i \in DOMAIN RowsOf(run) : RowsOf(run)[i].of = of}
         IN counted = {} \/ Cardinality(counted) \in BatchSizes

(* The usage that is shown is the usage that was recorded: the totals are   *)
(* what the rows add up to, a run's part is within the session's, each call *)
(* of an answer has one row, and no row stands twice (UsageStore, usage     *)
(* records).                                                                *)
UsageTrue == UsageTypeOK /\ SnapshotCurrent /\ RunIsPart /\ CountedPerCall
=============================================================================
