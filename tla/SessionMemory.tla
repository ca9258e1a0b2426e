---------------------------- MODULE SessionMemory ----------------------------
(***************************************************************************)
(* The memory of a session: the files it touched last, summaries of those   *)
(* it read, notes, and the checkpoint from which it may be resumed.  It is  *)
(* saved with the session after every tool call; summaries are also kept in *)
(* a cache file of the workspace.  At every prompt, and when a process      *)
(* opens the session, it is compared with the files.                        *)
(*                                                                          *)
(* A text is what it was taken from: a content and a part of it.  A file    *)
(* does not change between a read and the hashes taken of it in the same    *)
(* call.                                                                    *)
(***************************************************************************)
EXTENDS Naturals, Sequences, SequencesExt, FiniteSets, Ordering

CONSTANTS
  Sources,      \* files
  SourceOrder,  \* sorted
  Texts,        \* contents of a file
  Parts,        \* parts of a file a read may return
  Settings,     \* what of the runtime identity may differ between processes
  RecentLimit,  \* WORKING_FILE_LIMIT
  SummaryLimit, \* FILE_SUMMARY_LIMIT
  NoteLimit,    \* EPISODIC_NOTE_LIMIT
  RecallLimit,  \* RELEVANT_MEMORY_LIMIT
  Requests,     \* what summaries and notes are worth to requests, by their places
  MaxSteps      \* bound: tool calls, changes of files, and checkpoints

NoText == "no text"

ASSUME SessionAssumption ==
  /\ RecentLimit \in Nat \ {0} /\ NoteLimit \in Nat \ {0} /\ SummaryLimit \in Nat
  /\ RecallLimit \in Nat /\ NoText \notin Sources
  /\ SourceOrder \in Seq(Sources)
  /\ Requests \subseteq [1..(RecentLimit + NoteLimit) -> Nat]

VARIABLES
  disk,       \* the content of each file
  settings,   \* of this process
  memo,       \* the session: recent files, summaries, notes
  checkpoint, \* its current checkpoint
  items,      \* ids of its checkpoints
  session,    \* the session file
  summaryCache, \* the cache file: the text for a file and its content
  written,    \* checkpoint_id in the task state's file
  unwritten,  \* checkpoint_id that is not in the file yet
  prompt,     \* what the last prompt says
  readAs,     \* history: the content the model read last, if nothing told it since
  steps

sessionVars == <<disk, settings, memo, checkpoint, items, session, summaryCache,
                 written, unwritten, prompt, readAs, steps>>

NoCheckpoint == [id |-> 0]
NewMemo == [recent |-> <<>>, summaries |-> <<>>, notes |-> <<>>]
EmptyPrompt ==
  [status |-> "none", stale |-> {}, recalled |-> {}, seen |-> <<>>, missed |-> {}]

LastFew(s, n) == SubSeq(s, IF Len(s) > n THEN Len(s) - n + 1 ELSE 1, Len(s))

-----------------------------------------------------------------------------
(* LayeredMemory.                                                           *)

RememberFile(m, p) ==
  LET others == Picked(m.recent, {i \in DOMAIN m.recent : m.recent[i] # p})
  IN [m EXCEPT !.recent = LastFew(Append(others, p), RecentLimit)]

(* A note with a text that is there already takes its place, at the end.    *)
AppendNote(m, note) ==
  LET others == Picked(m.notes, {i \in DOMAIN m.notes : m.notes[i].text # note.text})
  IN [m EXCEPT !.notes = LastFew(Append(others, note), NoteLimit)]

SetSummary(m, p, text) ==
  [m EXCEPT !.summaries = [q \in DOMAIN @ \cup {p} |->
                             IF q = p THEN [text |-> text, fresh |-> disk[p]] ELSE @[q]]]

Without(m, P) == [m EXCEPT !.summaries = [q \in DOMAIN @ \ P |-> @[q]]]
StaleSummaries(m) == {p \in DOMAIN m.summaries : m.summaries[p].fresh # disk[p]}

(* What is recalled for a request: summaries of recent files, when they are *)
(* up to date, and notes, by what they are worth: the words they share with *)
(* it, and their age.  What is worth nothing does not match.  A note counts *)
(* as one of the first file with a summary that it is about, and of a file  *)
(* only the better candidate stays.                                         *)
KnownPlaces(m, about) == {i \in DOMAIN about : about[i] \in DOMAIN m.summaries}
FileKey(m, about) ==
  IF KnownPlaces(m, about) = {} THEN NoText ELSE about[Min(KnownPlaces(m, about))]

SummaryAt(m, worth, i) ==
  LET p == m.recent[i]
  IN [kind |-> "summary", text |-> m.summaries[p].text, about |-> <<p>>, file |-> p,
      score |-> worth[i], at |-> i]
NoteAt(m, worth, i) ==
  LET n == m.notes[i]
  IN [kind |-> "note", text |-> n.text, about |-> n.about, file |-> FileKey(m, n.about),
      score |-> worth[RecentLimit + i], at |-> RecentLimit + i]

Candidates(m, worth) ==
  {SummaryAt(m, worth, i) : i \in
     {j \in DOMAIN m.recent : /\ j <= SummaryLimit /\ worth[j] > 0
                              /\ m.recent[j] \in DOMAIN m.summaries \ StaleSummaries(m)}}
    \cup {NoteAt(m, worth, i) : i \in {j \in DOMAIN m.notes : worth[RecentLimit + j] > 0}}

Better(c, d) == c.score > d.score \/ (c.score = d.score /\ c.at > d.at)

Deduped(C) == {c \in C : c.file # NoText => ~\E d \in C : d.file = c.file /\ Better(d, c)}

(* At most one summary, two notes, and RecallLimit in all.                  *)
Recalled(m, worth) ==
  LET all == Deduped(Candidates(m, worth))
      rank(c, S) == Cardinality({d \in S : Better(d, c)})
      ofKind(c) == {d \in all : d.kind = c.kind}
      allowed == {c \in all : rank(c, ofKind(c)) < (IF c.kind = "summary" THEN 1 ELSE 2)}
  IN {c \in allowed : rank(c, allowed) < RecallLimit}

Shown(c) == [kind |-> c.kind, text |-> c.text, about |-> c.about, file |-> c.file]

-----------------------------------------------------------------------------
(* evaluate_resume_state                                                    *)

Drifted == {p \in DOMAIN checkpoint.keys : checkpoint.keys[p] # disk[p]}

StalePaths(m) ==
  StaleSummaries(m) \cup (IF checkpoint = NoCheckpoint THEN {} ELSE Drifted)

ResumeStatus(m) ==
  CASE checkpoint = NoCheckpoint -> "none"
    [] checkpoint # NoCheckpoint /\ StalePaths(m) # {} -> "partial-stale"
    [] checkpoint # NoCheckpoint /\ StalePaths(m) = {} /\ checkpoint.settings # settings ->
         "workspace-mismatch"
    [] OTHER -> "full-valid"

(* create_checkpoint, which saves the session.                              *)
CheckpointOf(m) ==
  [id |-> steps + 1, settings |-> settings, keys |-> [p \in ToSet(m.recent) |-> disk[p]]]

MakeCheckpoint(m) ==
  /\ checkpoint' = CheckpointOf(m)
  /\ items' = items \cup {steps + 1}
  /\ unwritten' = steps + 1
  /\ steps' = steps + 1
  /\ session' = [memo |-> m, checkpoint |-> checkpoint', items |-> items']

NoNewCheckpoint == UNCHANGED <<checkpoint, items, unwritten, steps, session>>

-----------------------------------------------------------------------------

SessionInit ==
  /\ disk \in [Sources -> Texts] /\ settings \in Settings
  /\ memo = NewMemo /\ checkpoint = NoCheckpoint /\ items = {}
  /\ session = [memo |-> memo, checkpoint |-> checkpoint, items |-> {}]
  /\ summaryCache = <<>>
  /\ written = 0 /\ unwritten = 0
  /\ prompt = EmptyPrompt
  /\ readAs = [p \in Sources |-> NoText]
  /\ steps = 0

(* The result of a tool call is recorded, and the session saved with it.    *)
EndTool(m) ==
  /\ steps < MaxSteps /\ steps' = steps + 1
  /\ memo' = m
  /\ session' = [session EXCEPT !.memo = m]
  /\ UNCHANGED <<settings, checkpoint, items, written, unwritten, prompt>>

(* file_summary_cache_key, and a mutant of it without the content.          *)
CacheKeyOfPath(p) == <<p, NoText>>

CacheKey(p) == <<p, disk[p]>>

(* read_file: the summary of this content, from the cache if it has one.    *)
ReadSource(p, part) ==
  LET key == CacheKey(p)
      text == IF key \in DOMAIN summaryCache THEN summaryCache[key]
              ELSE [content |-> disk[p], part |-> part]
      note == [text |-> text, about |-> <<p>>]
  IN /\ EndTool(AppendNote(SetSummary(RememberFile(memo, p), p, text), note))
     /\ summaryCache' = [k \in DOMAIN summaryCache \cup {key} |->
                           IF k = key THEN text ELSE summaryCache[k]]
     /\ readAs' = [readAs EXCEPT ![p] = disk[p]]
     /\ UNCHANGED disk

(* write_file and patch_file                                                *)
WriteSource(p, c) ==
  /\ EndTool(Without(RememberFile(memo, p), {p}))
  /\ disk' = [disk EXCEPT ![p] = c]
  /\ readAs' = [readAs EXCEPT ![p] = NoText]
  /\ UNCHANGED summaryCache

(* A tool that fails, or does only a part, leaves a note about all files it *)
(* changed.                                                                 *)
ToolFails(changed) ==
  /\ LET affected == Picked(SourceOrder, {i \in DOMAIN SourceOrder :
                                            changed[SourceOrder[i]] # disk[SourceOrder[i]]})
         text == [content |-> "failure", part |-> affected]
     IN EndTool(AppendNote(memo, [text |-> text, about |-> affected]))
  /\ disk' = changed
  /\ UNCHANGED <<summaryCache, readAs>>

(* A shell command, the user, or another program changes a file.            *)
ChangeSource(p, c) ==
  /\ c # disk[p] /\ steps < MaxSteps /\ steps' = steps + 1
  /\ disk' = [disk EXCEPT ![p] = c]
  /\ UNCHANGED <<settings, memo, checkpoint, items, session, summaryCache, written,
                 unwritten, prompt, readAs>>

(* A prompt: stale summaries go, the checkpoint is shown with its status,   *)
(* and when it does not hold any more, another is made.                     *)
BuildSessionPrompt(worth) ==
  LET m == Without(memo, StaleSummaries(memo))
      stale == StalePaths(memo)
      shown == IF checkpoint = NoCheckpoint THEN {} ELSE stale
      old == {p \in Sources : readAs[p] \notin {NoText, disk[p]}}
  IN /\ unwritten = 0
     /\ memo' = m
     /\ prompt' = [status |-> ResumeStatus(memo), stale |-> shown,
                   recalled |-> {Shown(c) : c \in Recalled(m, worth)}, seen |-> disk, missed |-> IF checkpoint = NoCheckpoint THEN {} ELSE old \ shown]
     /\ readAs' = [p \in Sources |-> IF p \in old THEN NoText ELSE readAs[p]]
     /\ IF ResumeStatus(memo) \in {"partial-stale", "workspace-mismatch"}
        THEN steps < MaxSteps /\ MakeCheckpoint(m)
        ELSE NoNewCheckpoint
     /\ UNCHANGED <<disk, settings, summaryCache, written>>

(* The run ends with a checkpoint.                                          *)
EndSessionRun ==
  /\ steps < MaxSteps /\ unwritten = 0
  /\ MakeCheckpoint(memo)
  /\ UNCHANGED <<disk, settings, memo, summaryCache, written, prompt, readAs>>

WriteCheckpointId ==
  /\ unwritten # 0
  /\ written' = unwritten /\ unwritten' = 0
  /\ UNCHANGED <<disk, settings, memo, checkpoint, items, session, summaryCache,
                 prompt, readAs, steps>>

(* The process ends, and another one, maybe with other settings, opens the  *)
(* session; it drops stale summaries and saves.                             *)
ReopenSession(s) ==
  /\ settings' = s
  /\ memo' = Without(session.memo, StaleSummaries(session.memo))
  /\ checkpoint' = session.checkpoint /\ items' = session.items
  /\ session' = [session EXCEPT !.memo = memo']
  /\ unwritten' = 0
  /\ prompt' = EmptyPrompt
  /\ readAs' = [p \in Sources |-> NoText]
  /\ UNCHANGED <<disk, summaryCache, written, steps>>

SessionNext ==
  \/ \E p \in Sources, part \in Parts : ReadSource(p, part)
  \/ \E p \in Sources, c \in Texts : WriteSource(p, c)
  \/ \E changed \in [Sources -> Texts] : ToolFails(changed)
  \/ \E p \in Sources, c \in Texts : ChangeSource(p, c)
  \/ \E worth \in Requests : BuildSessionPrompt(worth)
  \/ EndSessionRun
  \/ WriteCheckpointId
  \/ \E s \in Settings : ReopenSession(s)

SessionSpec == SessionInit /\ [][SessionNext]_sessionVars

-----------------------------------------------------------------------------

SessionTypeOK ==
  /\ disk \in [Sources -> Texts] /\ settings \in Settings
  /\ Len(memo.recent) <= RecentLimit /\ Len(memo.notes) <= NoteLimit
  /\ IsInjective(memo.recent)
  /\ DOMAIN memo.summaries \subseteq Sources
  /\ Cardinality(prompt.recalled) <= RecallLimit
  /\ written \in Nat /\ unwritten \in Nat

(* A summary that a prompt recalls was taken from the content the file had  *)
(* when the prompt was built: over changes, edits that were undone, other   *)
(* processes and the cache they share (retrieval_candidates, set_file_summary). *)
RecalledCurrent ==
  \A c \in prompt.recalled :
    c.kind = "summary" => c.text.content = prompt.seen[c.file]

(* When a session has a checkpoint, the next prompt names every file that   *)
(* the model read and somebody changed since (evaluate_resume_state).       *)
DriftNamed == prompt.missed = {}

(* The checkpoint that a task state's file names is in the session's file,  *)
(* whenever a process ends: the session is saved first (create_checkpoint). *)
CheckpointKnown == written \in session.items \cup {0}

(* A note stands once, and no prompt recalls a summary of a file beside a   *)
(* note that is about this file first of all, whichever of the two is worth *)
(* more (append_note, _dedupe_retrieval_candidates_with_debug).  Beside a   *)
(* note about several files a summary of a later one may stand.             *)
SummaryOverNote ==
  /\ \A i, j \in DOMAIN memo.notes : memo.notes[i].text = memo.notes[j].text => i = j
  /\ \A c, d \in prompt.recalled :
       c.kind = "note" /\ d.kind = "summary" /\ c.about # <<>> => c.about[1] # d.file

(* What a session recalls is current: summaries are of the files as they    *)
(* are, files that drifted from the checkpoint are named, the checkpoint    *)
(* named on disk is in the session's file, and of a file's summary and the  *)
(* notes that are about it first, one is recalled (retrieval_candidates,    *)
(* evaluate_resume_state, create_checkpoint).                               *)
SessionSound ==
  /\ SessionTypeOK
  /\ RecalledCurrent
  /\ DriftNamed
  /\ CheckpointKnown
  /\ SummaryOverNote
=============================================================================
