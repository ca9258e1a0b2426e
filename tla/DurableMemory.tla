---------------------------- MODULE DurableMemory ----------------------------
(***************************************************************************)
(* The durable memory of a workspace: statements that later runs may rely   *)
(* on.  At the end of a run candidates are extracted and consolidated with  *)
(* the active records, one after the other; a consolidation may take two    *)
(* writes of the file.  When a workspace is opened for the first time, the  *)
(* notes of the older memory are migrated.  The process may end between any *)
(* two writes.                                                              *)
(*                                                                          *)
(* A statement is its topic, its subject, and the words and numbers in it.  *)
(***************************************************************************)
EXTENDS Naturals, Sequences, SequencesExt, FiniteSets, Ordering

CONSTANTS
  Unfit,       \* statements reject_candidate refuses
  Harvests,    \* what the ends of runs may yield: sequences of candidates
  LegacyNotes, \* the notes of the older memory, a sequence of statements
  MaxFacts,    \* max_records
  MaxMade      \* bound: records that are made

(* What is said at all: a candidate is a statement, verified or not.        *)
Statements == ToSet(LegacyNotes) \cup UNION {{b[k].says : k \in DOMAIN b} : b \in Harvests}
MemoryCandidates == [says : Statements, verified : BOOLEAN]

ASSUME DurableAssumption ==
  /\ MaxFacts \in Nat \ {0} /\ MaxMade \in Nat
  /\ LegacyNotes \in Seq(Statements) /\ \A b \in Harvests : b \in Seq(MemoryCandidates)
  /\ \A s \in Statements : IsFiniteSet(s.words) /\ IsFiniteSet(s.numbers)

VARIABLES
  facts,      \* DurableMemoryStore.records
  factFile,   \* durable.jsonl
  factsMade,  \* records made so far: memory_id and created_at
  batch,      \* candidates still to consolidate
  half,       \* the second write of a consolidation
  migration,  \* the notes still to migrate, when the store is being opened
  migrated,   \* index.json says so
  cut,        \* history: old records of consolidations that were cut short
  repeated    \* history: a migration was interrupted

durableVars == <<facts, factFile, factsMade, batch, half, migration, migrated, cut, repeated>>
openVars == <<migration, migrated, repeated>>

None == 0
NoHalf == [kind |-> "none"]
Closed == [open |-> FALSE]

-----------------------------------------------------------------------------
(* Statements.                                                              *)

Tokens(s) == s.words \cup s.numbers
LesserOf(m, n) == IF m < n THEN m ELSE n

(* Overlap of at least 0.6, and the order of overlaps, without fractions.   *)
Shared(s, t) == Cardinality(Tokens(s) \cap Tokens(t))
Shorter(s, t) == LesserOf(Cardinality(Tokens(s)), Cardinality(Tokens(t)))
Overlaps(s, t) == Shorter(s, t) > 0 /\ 10 * Shared(s, t) >= 6 * Shorter(s, t)
CloserTo(s, t, u) == Shared(s, t) * Shorter(s, u) > Shared(s, u) * Shorter(s, t)

Contradicts(s, t) == s.numbers # t.numbers /\ s.words = t.words

Active(store, topic) ==
  {i \in DOMAIN store : store[i].status = "active" /\ store[i].says.topic = topic}

(* The first of the records that overlap most.                              *)
Best(store, s) ==
  LET rivals == {i \in Active(store, s.topic) : Shared(s, store[i].says) > 0} IN
  IF rivals = {} THEN None
  ELSE CHOOSE i \in rivals : \A j \in rivals :
         /\ ~CloserTo(s, store[j].says, store[i].says)
         /\ j < i => CloserTo(s, store[i].says, store[j].says)

SameSubject(store, s) ==
  {i \in Active(store, s.topic) : s.subject # "none" /\ store[i].says.subject = s.subject}

-----------------------------------------------------------------------------
(* The store.                                                               *)

NewFact(s, supersedes, conflict) ==
  [id |-> factsMade + 1, says |-> s, status |-> "active",
   supersedes |-> supersedes, conflict |-> conflict]

(* Beyond the bound the oldest records go, whatever their status.           *)
ByMaking(s) == {p \in (DOMAIN s) \X (DOMAIN s) : s[p[1]].id < s[p[2]].id}
Added(store, r) ==
  LET all == Append(store, r) IN
  IF Len(store) < MaxFacts THEN all
  ELSE SubSeq(Sorted(all, ByMaking(all)), Len(all) - MaxFacts + 1, Len(all))

Save(store) == facts' = store /\ factFile' = store

IndexOf(store, id) == CHOOSE i \in DOMAIN store : store[i].id = id
Holds(store, id) == \E i \in DOMAIN store : store[i].id = id

-----------------------------------------------------------------------------

DurableInit ==
  /\ facts = <<>> /\ factFile = <<>> /\ factsMade = 0
  /\ batch = <<>> /\ half = NoHalf
  /\ migration = [open |-> TRUE, left |-> LegacyNotes]
  /\ migrated = FALSE
  /\ cut = {} /\ repeated = FALSE

(* migrate: one record and one write for each note, then the mark.  Age is  *)
(* the order of making; the code gives a migrated record the time of its    *)
(* topic file, which is older than all that is made later but not in the    *)
(* order of the notes of several topics.                                    *)
MigrateNote ==
  /\ migration.open /\ migration.left # <<>> /\ factsMade < MaxMade
  /\ factFile' = Added(factFile, NewFact(Head(migration.left), None, None))
  /\ factsMade' = factsMade + 1
  /\ migration' = [migration EXCEPT !.left = Tail(@)]
  /\ UNCHANGED <<facts, batch, half, migrated, cut, repeated>>

MarkMigrated ==
  /\ migration.open /\ migration.left = <<>>
  /\ migration' = Closed
  /\ migrated' = TRUE
  /\ facts' = factFile
  /\ UNCHANGED <<factFile, factsMade, batch, half, cut, repeated>>

(* The end of a run: extract_all keeps the first of equal statements, and   *)
(* those that are fit to be remembered.                                     *)
ExtractAll(b) ==
  Picked(b, {i \in DOMAIN b :
               b[i].says \notin Unfit /\ \A j \in 1..(i - 1) : b[j].says # b[i].says})

EndRun(b) ==
  /\ ~migration.open /\ batch = <<>> /\ half = NoHalf
  /\ ExtractAll(b) # <<>>
  /\ batch' = ExtractAll(b)
  /\ UNCHANGED <<facts, factFile, factsMade, half, openVars, cut>>

(* apply, for the next candidate.                                           *)
Ready == batch # <<>> /\ half = NoHalf
Said == Head(batch).says
BestFact == Best(facts, Said)
Exact == \E i \in Active(facts, Said.topic) : facts[i].says = Said
Near == BestFact # None /\ Overlaps(Said, facts[BestFact].says)
Contradictory == Near /\ Contradicts(Said, facts[BestFact].says)
Rivals == SameSubject(facts, Said)
Rival == IF Rivals # {} THEN Min(Rivals) ELSE BestFact
HasRival == Rivals # {} \/ Contradictory
Supersedes == ~Exact /\ HasRival /\ Head(batch).verified
Conflicts == ~Exact /\ HasRival /\ ~Head(batch).verified /\ Contradictory
Merges == ~Exact /\ ~Supersedes /\ ~Conflicts /\ Near /\ ~Contradictory

(* The same is said already: only its dates and sources are renewed.        *)
TouchDuplicate ==
  /\ Ready
  /\ Exact \/ (Merges /\ ~(Tokens(facts[BestFact].says) \subseteq Tokens(Said)))
  /\ batch' = Tail(batch)
  /\ Save(facts)
  /\ UNCHANGED <<factsMade, half, openVars, cut>>

(* A verified statement about the subject: the old one is retired first.    *)
RetireRival ==
  /\ Ready /\ Supersedes /\ factsMade < MaxMade
  /\ Save([facts EXCEPT ![Rival].status = "superseded"])
  /\ half' = [kind |-> "add", old |-> facts[Rival]]
  /\ UNCHANGED <<factsMade, batch, openVars, cut>>

AddSuccessor ==
  /\ half.kind = "add"
  /\ Save(Added(facts, NewFact(Said, half.old.id, None)))
  /\ factsMade' = factsMade + 1
  /\ half' = NoHalf
  /\ batch' = Tail(batch)
  /\ UNCHANGED <<openVars, cut>>

(* Nothing decides between the two: the new one is added, then the old one  *)
(* marked.  When the old one was evicted by the new one, update adds it.    *)
AddConflicting ==
  /\ Ready /\ Conflicts /\ factsMade < MaxMade
  /\ Save(Added(facts, NewFact(Said, None, facts[Rival].id)))
  /\ half' = [kind |-> "mark", old |-> facts[Rival], new |-> factsMade + 1]
  /\ factsMade' = factsMade + 1
  /\ UNCHANGED <<batch, openVars, cut>>

(* Mutant of MarkConflict: only the new record knows of the conflict.       *)
MarkOneSide ==
  /\ half.kind = "mark"
  /\ half' = NoHalf /\ batch' = Tail(batch)
  /\ UNCHANGED <<facts, factFile, factsMade, openVars, cut>>

MarkConflict ==
  /\ half.kind = "mark"
  /\ LET old == [half.old EXCEPT !.conflict = IF @ = None THEN half.new ELSE @] IN
     Save(IF Holds(facts, old.id)
          THEN [facts EXCEPT ![IndexOf(facts, old.id)] = old]
          ELSE Added(facts, old))
  /\ half' = NoHalf
  /\ batch' = Tail(batch)
  /\ UNCHANGED <<factsMade, openVars, cut>>

(* A richer wording replaces the old one in its record.                     *)
MergeWording ==
  /\ Ready /\ Merges /\ Tokens(facts[BestFact].says) \subseteq Tokens(Said)
  /\ Save([facts EXCEPT ![BestFact].says = Said])
  /\ batch' = Tail(batch)
  /\ UNCHANGED <<factsMade, half, openVars, cut>>

AddNew ==
  /\ Ready /\ ~Exact /\ ~Supersedes /\ ~Conflicts /\ ~Merges /\ factsMade < MaxMade
  /\ Save(Added(facts, NewFact(Said, None, None)))
  /\ factsMade' = factsMade + 1
  /\ batch' = Tail(batch)
  /\ UNCHANGED <<half, openVars, cut>>

(* The process ends; the next one reads the file, and migrates if need be.  *)
ReopenFacts ==
  /\ facts' = factFile
  /\ batch' = <<>> /\ half' = NoHalf
  /\ cut' = IF half = NoHalf THEN cut ELSE cut \cup {half.old.id}
  /\ migration' = IF migrated THEN Closed ELSE [open |-> TRUE, left |-> LegacyNotes]
  /\ repeated' = (repeated \/ (migration.open /\ factFile # <<>>))
  /\ UNCHANGED <<factFile, factsMade, migrated>>

DurableNext ==
  \/ MigrateNote \/ MarkMigrated
  \/ \E b \in Harvests : EndRun(b)
  \/ TouchDuplicate \/ RetireRival \/ AddSuccessor \/ AddConflicting \/ MarkConflict
  \/ MergeWording \/ AddNew
  \/ ReopenFacts

DurableSpec == DurableInit /\ [][DurableNext]_durableVars

-----------------------------------------------------------------------------

(* Records are in the order and number the store allows, and every pointer  *)
(* between them names a record that was made.                               *)
DurableTypeOK ==
  /\ \A s \in {facts, factFile} :
       /\ Len(s) <= MaxFacts
       /\ \A i, j \in DOMAIN s : s[i].id = s[j].id => i = j
       /\ \A i \in DOMAIN s :
            /\ s[i].id \in 1..factsMade /\ s[i].status \in {"active", "superseded"}
            /\ s[i].supersedes \in 0..(s[i].id - 1) /\ s[i].conflict \in 0..factsMade
  /\ factsMade \in 0..MaxMade
  /\ half.kind \in {"none", "add", "mark"} /\ (half # NoHalf => batch # <<>>)
  /\ migrated \in BOOLEAN /\ repeated \in BOOLEAN /\ cut \subseteq 1..factsMade

(* Nothing is remembered twice, unless a migration was interrupted, when    *)
(* its notes are added again, or the older memory had a note twice but for  *)
(* its case, which only apply compares (migrate, apply).                    *)
RememberedOnce ==
  repeated \/ ~IsInjective(LegacyNotes) \/ \A i, j \in DOMAIN facts :
    /\ facts[i].status = "active" /\ facts[j].status = "active"
    /\ facts[i].says = facts[j].says
    => i = j

(* "CONFLICT same subject, contradictory statements, no decisive evidence"  *)
(* (consolidation.py:14): two active statements that differ only in their   *)
(* numbers do not stand side by side unmarked.                              *)
ContradictionMarked ==
  \A i, j \in DOMAIN facts :
    /\ facts[i].status = "active" /\ facts[j].status = "active"
    /\ facts[i].says.topic = facts[j].says.topic
    /\ Contradicts(facts[i].says, facts[j].says)
    => facts[i].conflict # None \/ facts[j].conflict # None

(* A conflict is marked on both sides, over later merges, evictions and     *)
(* restarts, unless the process ended between the two writes (apply).       *)
ConflictMutual ==
  \A i, j \in DOMAIN facts : facts[j].conflict = facts[i].id =>
    \/ facts[i].conflict # None
    \/ half # NoHalf /\ half.old.id = facts[i].id
    \/ facts[i].id \in cut

(* A record is retired in favour of one that is there, over evictions and   *)
(* restarts, unless the process ended between the two writes (apply).       *)
SuccessorThere ==
  \A i \in DOMAIN facts : facts[i].status = "superseded" =>
    \/ \E j \in DOMAIN facts : facts[j].supersedes = facts[i].id
    \/ half # NoHalf /\ half.old.id = facts[i].id
    \/ facts[i].id \in cut

(* A workspace that is marked as migrated has every note of the older       *)
(* memory, maybe in a richer wording, as long as no record had to go.       *)
NotesCarried ==
  migrated /\ Len(factFile) < MaxFacts =>
    \A n \in DOMAIN LegacyNotes : \E i \in DOMAIN factFile :
      Tokens(LegacyNotes[n]) \subseteq Tokens(factFile[i].says)

(* The durable facts stay consistent over consolidation, eviction,          *)
(* migration and a process that ends between two writes: nothing is         *)
(* remembered twice, a conflict is marked on both sides, what was           *)
(* superseded has a successor, and no note is lost in the move (apply,      *)
(* migrate).                                                                *)
MemorySound ==
  /\ DurableTypeOK
  /\ RememberedOnce
  /\ ConflictMutual
  /\ SuccessorThere
  /\ NotesCarried
=============================================================================
