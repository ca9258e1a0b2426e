--------------------------- MODULE EvidenceMemory ---------------------------
(***************************************************************************)
(* The evidence memory of a workspace: what tool calls showed about files,  *)
(* kept in one file that outlives the process, compared with the files at   *)
(* every prompt, and given to the model as hints.                           *)
(*                                                                          *)
(* A file has a content, of which its hash is the identity; content 0 is a  *)
(* file that does not exist.  Symbol and kind of a record are one kind.     *)
(***************************************************************************)
EXTENDS Naturals, Sequences, FiniteSets, Ordering

CONSTANTS
  Paths, Kinds,  \* files, and the kinds of a record; "read" is one
  Contents,      \* what a file may contain
  Secrets,       \* contents whose summary looks like it holds a secret
  Queries,       \* queries a run makes: what each finds relevant, and how much
  MaxRecords,    \* max_records
  TopK,          \* evidence_top_k
  OverallLimit,  \* overall_limit
  ItemTokens,    \* tokens of a hint
  MaxTicks       \* bound: records made and files changed

Gone == 0
NoPath == "no file"
Identities == (Paths \X Kinds) \cup {<<NoPath, "verified">>}
Statuses == {"fresh", "stale", "missing", "superseded"}

ASSUME EvidenceAssumption ==
  /\ "read" \in Kinds /\ "verified" \notin Kinds /\ NoPath \notin Paths
  /\ Gone \notin Contents /\ Secrets \subseteq Contents
  /\ \A q \in Queries : \A id \in Identities : q[id] \in Nat
  /\ MaxRecords \in Nat \ {0} /\ TopK \in Nat /\ OverallLimit \in Nat
  /\ ItemTokens \in Nat \ {0}

(* q[i] of a query q is how well a record of identity i matches, 0 not at   *)
(* all; a record that is fresh counts for more.                             *)
FreshBonus == 2

VARIABLES
  content,   \* the workspace
  records,   \* EvidenceStore.records
  saved,     \* evidence.jsonl
  ticks,     \* the clock of created_at
  asking,    \* no ask under way, one at work, or a prompt just built
  result,    \* _last_result and its fingerprint, until the store changes
  shown,     \* _current_memory_result: the hints of the next prompt
  delivered, \* delivered_paths
  reread,    \* read_paths
  injected,  \* _injected_stale_paths
  counted,   \* paths counted as used without revalidation when the run ended
  owed,      \* history: files of stale hints that were not read since
  current    \* history: contents each file had since the last prompt

hintVars == <<shown, delivered, reread, injected, counted, owed>>
evidenceVars == <<content, records, saved, ticks, asking, result, hintVars, current>>

Hash(p) == IF p = NoPath THEN Gone ELSE content[p]
Id(r) == <<r.path, r.kind>>
Live(s) == {i \in DOMAIN s : s[i].status # "superseded"}
NoResult == [known |-> FALSE]

-----------------------------------------------------------------------------
(* The store.                                                               *)

Older(s) ==
  {p \in (DOMAIN s) \X (DOMAIN s) :
     \/ s[p[1]].at < s[p[2]].at
     \/ s[p[1]].at = s[p[2]].at /\ p[1] < p[2]}
ByAge(s) == Sorted(s, Older(s))

EnforceBounds(s) ==
  IF Len(s) <= MaxRecords THEN s
  ELSE SubSeq(ByAge(s), Len(s) - MaxRecords + 1, Len(s))

Superseded(s, id) ==
  [i \in DOMAIN s |-> IF Id(s[i]) = id THEN [s[i] EXCEPT !.status = "superseded"]
                                       ELSE s[i]]

NewRecord(p, k) ==
  [path |-> p, kind |-> k, hash |-> Hash(p), about |-> Hash(p), at |-> ticks + 1,
   status |-> "fresh"]

AddEvidence(s, p, k) == EnforceBounds(Append(Superseded(s, <<p, k>>), NewRecord(p, k)))

(* What a read says of every record of the file.                            *)
Revalidated(s, p) ==
  [i \in DOMAIN s |->
     IF s[i].path = p /\ s[i].status # "superseded"
     THEN [s[i] EXCEPT !.hash = IF Hash(p) = Gone THEN @ ELSE Hash(p),
                       !.status = IF Hash(p) = Gone THEN "missing" ELSE "fresh"]
     ELSE s[i]]

(* Mutant of Compared: the file is not looked at.                           *)
ComparedNever(r) == r.status

Compared(r) ==
  IF r.status = "superseded" \/ r.path = NoPath THEN r.status
  ELSE IF Hash(r.path) = Gone THEN "missing"
  ELSE IF Hash(r.path) # r.hash THEN "stale"
  ELSE "fresh"

Refreshed(s) == [i \in DOMAIN s |-> [s[i] EXCEPT !.status = Compared(s[i])]]

Degraded(s) ==
  \E i \in DOMAIN s : Compared(s[i]) # s[i].status /\ Compared(s[i]) # "fresh"

(* load: of the records of one identity the latest is kept.                 *)
Latest(s, i) ==
  \A j \in DOMAIN s : Id(s[j]) = Id(s[i]) => s[j].at <= s[i].at
FirstPlace(s, id) == CHOOSE i \in DOMAIN s :
                    Id(s[i]) = id /\ \A j \in DOMAIN s : Id(s[j]) = id => i <= j
Lasting(s) == {i \in DOMAIN s : Latest(s, i)}
Placed(s) ==
  {p \in Lasting(s) \X Lasting(s) : FirstPlace(s, Id(s[p[1]])) < FirstPlace(s, Id(s[p[2]]))}
Load(s) ==
  LET at == Arranged(Lasting(s), Placed(s)) IN [k \in 1..Cardinality(Lasting(s)) |-> s[at[k]]]

-----------------------------------------------------------------------------
(* Retrieval.                                                               *)

(* One record for each path is looked at, the first.                        *)
HeadOfPath(s, i) ==
  /\ i \in Live(s)
  /\ \A j \in Live(s) : s[j].path = s[i].path => i <= j

Score(r, q) == q[Id(r)] + IF r.status = "fresh" THEN FreshBonus ELSE 0

Found(s, q) == {i \in DOMAIN s : HeadOfPath(s, i) /\ q[Id(s[i])] > 0}
Ahead(s, q) ==
  {p \in Found(s, q) \X Found(s, q) :
     \/ Score(s[p[1]], q) > Score(s[p[2]], q)
     \/ Score(s[p[1]], q) = Score(s[p[2]], q) /\ p[1] < p[2]}
Selected(s, q) ==
  LET n == Cardinality(Found(s, q))
      ranked == Arranged(Found(s, q), Ahead(s, q))
  IN [k \in 1..(IF n < TopK THEN n ELSE TopK) |-> s[ranked[k]]]

(* The limit on the number of hints is compared with the tokens used.       *)
Hints(s, q, read) ==
  LET fits == (OverallLimit + ItemTokens - 1) \div ItemTokens
      found == Selected(s, q)
      new == Picked(found, {k \in DOMAIN found : found[k].path \notin read})
  IN [i \in 1..(IF Len(new) < fits THEN Len(new) ELSE fits) |->
        [path |-> new[i].path, status |-> new[i].status, hash |-> new[i].hash]]

Files(hints) == {hints[i].path : i \in DOMAIN hints} \ {NoPath}
StaleFiles(hints) == {hints[i].path : i \in {j \in DOMAIN hints : hints[j].status = "stale"}}

(* A result is used again while query, store and what was read stay.       *)
Cached(q) == result.known /\ result.query = q /\ result.read = reread

(* The hints are given; those that are new are marked used, and saved.      *)
Give(q, hints, old) ==
  /\ result' = [known |-> TRUE, query |-> q, read |-> reread', hints |-> hints]
  /\ shown' = hints
  /\ delivered' = old.delivered \cup Files(hints)
  /\ injected' = old.injected \cup StaleFiles(hints)
  /\ owed' = old.owed \cup StaleFiles(hints)
  /\ counted' = {}
  /\ UNCHANGED <<content, records, ticks, current>>

-----------------------------------------------------------------------------

EvidenceInit ==
  /\ content \in [Paths -> Contents \ Secrets]
  /\ records = <<>> /\ saved = <<>> /\ ticks = 0
  /\ asking = "no" /\ result = NoResult /\ shown = <<>>
  /\ delivered = {} /\ reread = {} /\ injected = {} /\ counted = {} /\ owed = {}
  /\ current = [p \in Paths |-> {content[p]}]

(* Somebody, a tool or the user, writes or removes a file.                  *)
EditFile(p, c) ==
  /\ c # content[p] /\ ticks < MaxTicks
  /\ ticks' = ticks + 1
  /\ content' = [content EXCEPT ![p] = c]
  /\ current' = [current EXCEPT ![p] = @ \cup {c}]
  /\ UNCHANGED <<records, saved, asking, result, hintVars>>

(* ask: the run starts without memory of the last, and retrieves.           *)
StartAsk(q) ==
  /\ asking = "no"
  /\ asking' = "working"
  /\ reread' = {}
  /\ LET hints == Hints(records, q, {}) IN
     /\ Give(q, hints, [delivered |-> {}, injected |-> {}, owed |-> {}])
     /\ saved' = IF hints = <<>> THEN saved ELSE records

(* The signature of the working state changed, or a recovery turn begins.   *)
RetrieveAgain(q) ==
  /\ asking # "no"
  /\ asking' = "working"
  /\ reread' = reread
  /\ LET hints == IF Cached(q) THEN result.hints ELSE Hints(records, q, reread) IN
     /\ Give(q, hints, [delivered |-> delivered, injected |-> injected, owed |-> owed])
     /\ saved' = IF Cached(q) \/ hints = <<>> THEN saved ELSE records

(* A prompt is built: first every record is compared with its file.         *)
BuildPrompt ==
  /\ asking # "no"
  /\ asking' = "prompt"
  /\ records' = Refreshed(records)
  /\ IF Degraded(records)
     THEN saved' = Refreshed(records) /\ result' = NoResult
     ELSE UNCHANGED <<saved, result>>
  /\ current' = [p \in Paths |-> {content[p]}]
  /\ UNCHANGED <<content, ticks, hintVars>>

(* A tool showed something: the store is written, the last result dropped.  *)
Record(s, isNew) ==
  /\ records' = s /\ saved' = s
  /\ ticks' = IF isNew THEN ticks + 1 ELSE ticks
  /\ result' = NoResult

ReadFile(p) ==
  /\ asking # "no" /\ content[p] # Gone
  /\ asking' = "working"
  /\ LET known == Revalidated(records, p)
         live == \E i \in Live(records) : records[i].path = p
     IN \/ /\ content[p] \notin Secrets /\ ticks < MaxTicks
           /\ Record(AddEvidence(known, p, "read"), TRUE)
        \/ content[p] \in Secrets /\ live /\ Record(known, FALSE)
        \/ /\ content[p] \in Secrets /\ ~live
           /\ UNCHANGED <<records, saved, ticks, result>>
  /\ reread' = reread \cup ({p} \cap delivered)
  /\ owed' = owed \ {p}
  /\ UNCHANGED <<content, shown, delivered, injected, counted, current>>

(* symbol_search, file_outline, find_references.                            *)
InspectFile(p, k) ==
  /\ asking # "no" /\ content[p] # Gone /\ k # "read" /\ ticks < MaxTicks
  /\ asking' = "working"
  /\ Record(AddEvidence(records, p, k), TRUE)
  /\ UNCHANGED <<content, hintVars, current>>

(* A test command that succeeded.                                           *)
VerifyCommand ==
  /\ asking # "no" /\ ticks < MaxTicks
  /\ asking' = "working"
  /\ Record(AddEvidence(records, NoPath, "verified"), TRUE)
  /\ UNCHANGED <<content, hintVars, current>>

(* write_final_report: the account of stale hints.                          *)
EndAsk ==
  /\ asking # "no"
  /\ asking' = "no"
  /\ counted' = injected \ reread
  /\ UNCHANGED <<content, records, saved, ticks, result, shown, delivered, reread,
                 injected, owed, current>>

(* The process ends, at any point, and another one opens the workspace.     *)
ReopenMemory ==
  /\ asking' = "no"
  /\ LET read == Load(saved) IN
     /\ records' = Refreshed(read)
     /\ saved' = IF Degraded(read) THEN Refreshed(read) ELSE saved
  /\ result' = NoResult /\ shown' = <<>>
  /\ delivered' = {} /\ reread' = {} /\ injected' = {} /\ counted' = {} /\ owed' = {}
  /\ current' = [p \in Paths |-> {content[p]}]
  /\ UNCHANGED <<content, ticks>>

EvidenceNext ==
  \/ \E p \in Paths, c \in Contents \cup {Gone} : EditFile(p, c)
  \/ \E q \in Queries : StartAsk(q)
  \/ \E q \in Queries : RetrieveAgain(q)
  \/ BuildPrompt
  \/ \E p \in Paths : ReadFile(p)
  \/ \E p \in Paths, k \in Kinds : InspectFile(p, k)
  \/ VerifyCommand
  \/ EndAsk
  \/ ReopenMemory

EvidenceSpec == EvidenceInit /\ [][EvidenceNext]_evidenceVars

-----------------------------------------------------------------------------

EvidenceRecords ==
  [path : Paths \cup {NoPath}, kind : Kinds \cup {"verified"},
   hash : Contents \cup {Gone}, about : Contents \cup {Gone}, at : Nat,
   status : Statuses]

EvidenceTypeOK ==
  /\ content \in [Paths -> Contents \cup {Gone}]
  /\ records \in Seq(EvidenceRecords) /\ Len(records) <= MaxRecords
  /\ saved \in Seq(EvidenceRecords)
  /\ ticks \in Nat
  /\ asking \in {"no", "working", "prompt"}
  /\ Files(shown) \cup delivered \cup reread \cup injected \cup owed \subseteq Paths
  /\ current \in [Paths -> SUBSET (Contents \cup {Gone})]

(* Of two records about the same thing only the later one is alive, in the  *)
(* memory and in the file, over searches, reads, evictions and restarts     *)
(* (_prune_superseded, add_evidence).                                       *)
LatestAlive ==
  \A s \in {records, saved} : \A i \in Live(s), j \in DOMAIN s :
    Id(s[i]) = Id(s[j]) /\ i # j => s[j].at < s[i].at /\ s[j].status = "superseded"

(* A record that is called fresh names a content its file had since the     *)
(* last prompt: nothing older is vouched for, also after a restart or when  *)
(* an edit was undone (refresh_freshness, revalidate_path).                 *)
FreshIsRecent ==
  \A i \in DOMAIN records :
    records[i].status = "fresh" /\ records[i].path # NoPath
      => records[i].hash \in current[records[i].path]

(* The summary of a read that is called fresh was taken from the content    *)
(* the record names, unless that content was not summarised because it      *)
(* holds a secret: then the old summary goes on under the new hash.         *)
SummaryCurrent ==
  \A i \in Live(records) :
    records[i].kind = "read" /\ records[i].status = "fresh"
      => records[i].about = records[i].hash \/ records[i].hash \in Secrets

(* What is remembered is in the file: a process that ends at any point      *)
(* leaves its successor everything that was alive (save after each change). *)
NothingForgotten ==
  LET facts(s) == {<<Id(s[i]), s[i].about>> : i \in Live(s)}
  IN facts(records) = facts(saved)

(* A result that may be given once more calls nothing fresh that the store  *)
(* knows to be stale or missing: the cache is dropped with every such       *)
(* change (note_store_generation).                                          *)
CacheCautious ==
  Cached(result.query) =>
    \A i \in DOMAIN result.hints : \A j \in Live(records) :
      /\ result.hints[i].status = "fresh" /\ records[j].path = result.hints[i].path
      /\ records[j].hash = result.hints[i].hash
      => records[j].status = "fresh"

(* When a run ends, the stale hints counted as used without revalidation    *)
(* are exactly those whose file was not read after the hint (finalize_run). *)
StaleCounted == asking = "no" => counted = owed

(* A prompt gives stale evidence as a hint to read again, "never as current *)
(* truth" (retrieval.py:8-9).                                               *)
StaleMarked ==
  asking = "prompt" =>
    \A i \in DOMAIN shown : \A j \in Live(records) :
      shown[i].status = "fresh" /\ records[j].path = shown[i].path
        => records[j].status = "fresh" \/ records[j].hash # shown[i].hash

(* The evidence memory passes nothing old for new: one record lives of each *)
(* identity, fresh means seen as the file now is, a summary is of the       *)
(* content it names, the file has what the memory has, a cached result      *)
(* vouches for nothing known to be stale, and hints that went unread are    *)
(* counted once (memory_v2 evidence and retrieval).                         *)
EvidenceSound ==
  /\ EvidenceTypeOK
  /\ LatestAlive
  /\ FreshIsRecent
  /\ SummaryCurrent
  /\ NothingForgotten
  /\ CacheCautious
  /\ StaleCounted
=============================================================================
