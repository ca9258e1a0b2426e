---------------------------- MODULE CodeRetrieval ----------------------------
(***************************************************************************)
(* Code retrieval: the symbol index of the workspace, refreshed when an     *)
(* agent starts and after a tool that succeeded changed files; the vector   *)
(* index, refreshed in the middle of a retrieval by an embedding service    *)
(* that may fail; and the cache of answers, kept by query and workspace.    *)
(*                                                                          *)
(* A file is one symbol or none, with the places of its definition, of a    *)
(* call and of a line with the query's words; 0 is nowhere.  No list of     *)
(* candidates of one source is cut; order decides only who is left out.     *)
(***************************************************************************)
EXTENDS Naturals, FiniteSets, FiniteSetsExt, Functions, TLC

CONSTANTS
  CodeFiles,     \* paths
  Codes,         \* contents: [parses, def, call, word]
  HasEmbeddings, \* an embedding service is configured
  HitLimit,      \* limit of retrieve
  MaxEdits,      \* bound: changes of files
  MaxAnswers     \* bound: answers kept

ASSUME RetrievalAssumption ==
  /\ Codes \subseteq [parses : BOOLEAN, def : Nat, call : Nat, word : Nat]
  /\ IsFiniteSet(CodeFiles)
  /\ HasEmbeddings \in BOOLEAN /\ HitLimit \in Nat \ {0} /\ MaxEdits \in Nat

NoFile == [parses |-> FALSE, def |-> 0, call |-> 0, word |-> 0, gone |-> TRUE]
Intents == {"definition", "reference", "generic"}

VARIABLES
  tree,      \* the files of the workspace
  indexed,     \* CodeIndex.files: the content each file was indexed with
  chunks,    \* records of the vector index, by id, with their text
  vectors,   \* vectors by id: the text each was made of
  embedded,  \* embedding_cache, and the query embeddings
  answers,   \* the retrieval cache
  answer,    \* the answer just given, and what was asked for it
  unseen,    \* history: files changed and not indexed since
  doubtful,  \* history: chunks whose embedding failed or was cut short
  edits

retrievalVars ==
  <<tree, indexed, unseen, chunks, vectors, embedded, doubtful, answers, answer, edits>>

NoAnswer == [asked |-> "none"]
Present == {f \in CodeFiles : tree[f] # NoFile}

-----------------------------------------------------------------------------
(* The indexes.                                                             *)

(* refresh: of a file that is gone nothing is kept.                         *)
Reindexed(S) == [f \in CodeFiles |-> IF f \in S THEN tree'[f] ELSE indexed[f]]

(* A file that does not parse has no symbols and no calls.                  *)
SymbolAt(code) == IF code.parses THEN code.def ELSE 0
CallAt(code) == IF code.parses THEN code.call ELSE 0

(* chunk_workspace: the lines of a file's symbol, or a window over it.      *)
ChunkId(f) == <<f, SymbolAt(indexed[f])>>
Chunked == [id \in {ChunkId(f) : f \in Present} |-> tree[id[1]]]

(* Mutant of Pending: a chunk that has a vector is not looked at.           *)
PendingNew == {id \in DOMAIN Chunked : id \notin DOMAIN vectors}

Pending ==
  {id \in DOMAIN Chunked :
     \/ id \notin DOMAIN chunks \/ id \notin DOMAIN vectors
     \/ chunks[id] # Chunked[id]}

(* What has an embedding already needs no service.                          *)
Done(failing) == {id \in Pending : Chunked[id] \in embedded \/ id \notin failing}

Vectors(done) ==
  LET gone == DOMAIN chunks \ DOMAIN Chunked
  IN [id \in (DOMAIN vectors \ gone) \cup done |->
        IF id \in done THEN Chunked[id] ELSE vectors[id]]

RefreshVectors(done) ==
  /\ chunks' = Chunked
  /\ vectors' = Vectors(done)
  /\ embedded' = embedded \cup {Chunked[id] : id \in done}
  /\ doubtful' = ((doubtful \cup (Pending \cap DOMAIN vectors)) \ done) \cap DOMAIN Chunked

-----------------------------------------------------------------------------
(* A retrieval.                                                             *)

Lexical == {<<f, tree[f].word>> : f \in {g \in Present : tree[g].word # 0}}
Symbols == {<<f, SymbolAt(indexed[f])>> : f \in {g \in Present : SymbolAt(indexed[g]) # 0}}
References == {<<f, CallAt(indexed[f])>> : f \in {g \in Present : CallAt(indexed[g]) # 0}}

Structural(intent) ==
  CASE intent = "definition" -> Symbols
    [] intent = "reference" -> References
    [] intent = "generic" -> {}

HighConfidence(intent) == Structural(intent) # {}
Attempted(intent) == HasEmbeddings /\ ~HighConfidence(intent)

FilesOf(found) == {hit[1] : hit \in found}

(* What a search of the vectors can return: those that have a record.       *)
NearHits(done) == DOMAIN Vectors(done) \cap DOMAIN Chunked

(* The hits of a file are merged; an exact definition comes first.          *)
Hits(exact, found) ==
  {hit \in exact \cup found : hit[1] \in FilesOf(exact) => hit \in exact}

(* The files that may come first: evidence, affinity and the reranker       *)
(* decide, except that an exact definition goes before all else.            *)
Foremost(exact, files, size) ==
  {S \in SUBSET files :
     /\ Cardinality(S) = size
     /\ S \subseteq FilesOf(exact) \/ FilesOf(exact) \subseteq S}

(* What is left of the hits when the limit cuts the other files.            *)
Cut(exact, found) ==
  LET all == Hits(exact, found)
      size == Min({HitLimit, Cardinality(FilesOf(all))})
  IN {{hit \in all : hit[1] \in S} : S \in Foremost(exact, FilesOf(all), size)}

(* retrieval_cache_key.  The tree's fingerprint is taken for its contents;  *)
(* the code computes it anew only when some path, time or size is another,  *)
(* so an edit within one tick of the clock that keeps the size is missed.   *)
SameKey(a, intent) == a.intent = intent /\ a.tree = tree

CachedAnswers(intent) == {a \in answers : SameKey(a, intent)}

-----------------------------------------------------------------------------

RetrievalInit ==
  /\ tree \in [CodeFiles -> Codes \cup {NoFile}]
  /\ indexed = tree
  /\ chunks = <<>> /\ vectors = <<>> /\ embedded = {}
  /\ answers = {} /\ answer = NoAnswer
  /\ unseen = {} /\ doubtful = {} /\ edits = 0

Change(f, code) ==
  /\ edits < MaxEdits /\ code # tree[f]
  /\ tree' = [tree EXCEPT ![f] = code]
  /\ edits' = edits + 1
  /\ answer' = NoAnswer
  /\ UNCHANGED <<chunks, vectors, embedded, doubtful, answers>>

(* A tool changes a file and succeeds: what it changed is indexed anew.     *)
EditByTool(f, code) ==
  /\ Change(f, code)
  /\ indexed' = Reindexed({f})
  /\ unseen' = unseen \ {f}

(* The user changes a file, or a tool that does not come to its end, as a   *)
(* command that runs out of time: nothing is indexed.                       *)
EditUnseen(f, code) ==
  /\ Change(f, code)
  /\ unseen' = unseen \cup {f}
  /\ UNCHANGED indexed

AnswerFromCache(intent) ==
  /\ \E a \in CachedAnswers(intent) : answer' = [asked |-> intent, given |-> a]
  /\ UNCHANGED <<tree, indexed, unseen, chunks, vectors, embedded, doubtful, answers, edits>>

(* An answer is kept whatever it was made with.                             *)
GiveAnswer(intent, exact, found) ==
  /\ Cardinality(answers) < MaxAnswers
  /\ \E hits \in Cut(exact, found) :
    LET made == [intent |-> intent, tree |-> tree, hits |-> hits, current |-> unseen = {}]
    IN answers' = answers \cup {made} /\ answer' = [asked |-> intent, given |-> made]

Found(intent) ==
  Lexical \cup IF intent = "generic" THEN Symbols ELSE Structural(intent)

ExactHits(intent) == IF intent = "definition" THEN Symbols ELSE {}

(* Words and symbols are enough, or there is nothing else.                  *)
AnswerByStructure(intent) ==
  /\ CachedAnswers(intent) = {} /\ ~Attempted(intent)
  /\ GiveAnswer(intent, ExactHits(intent), Found(intent))
  /\ UNCHANGED <<tree, indexed, unseen, chunks, vectors, embedded, doubtful, edits>>

(* The vector index is refreshed, the query embedded, and both searched.    *)
AnswerBySearch(intent, failing) ==
  /\ CachedAnswers(intent) = {} /\ Attempted(intent)
  /\ RefreshVectors(Done(failing))
  /\ GiveAnswer(intent, ExactHits(intent), Found(intent) \cup NearHits(Done(failing)))
  /\ UNCHANGED <<tree, indexed, unseen, edits>>

(* The service fails for the query: the refresh stays, nothing is searched. *)
AnswerWithoutQuery(intent, failing) ==
  /\ CachedAnswers(intent) = {} /\ Attempted(intent)
  /\ RefreshVectors(Done(failing))
  /\ GiveAnswer(intent, ExactHits(intent), Found(intent))
  /\ UNCHANGED <<tree, indexed, unseen, edits>>

(* An agent starts: every file is looked at.                                *)
Restart ==
  /\ tree' = tree
  /\ indexed' = Reindexed(CodeFiles) /\ unseen' = {}
  /\ answer' = NoAnswer
  /\ UNCHANGED <<chunks, vectors, embedded, doubtful, answers, edits>>

(* The process ends in a refresh: the records of all chunks are written,    *)
(* the vectors of some.                                                     *)
RestartInRefresh(done) ==
  /\ \E intent \in Intents : CachedAnswers(intent) = {} /\ Attempted(intent)
  /\ RefreshVectors(done)
  /\ tree' = tree
  /\ indexed' = Reindexed(CodeFiles) /\ unseen' = {}
  /\ answer' = NoAnswer
  /\ UNCHANGED <<answers, edits>>

(* It ends between the first writing of the records and that of the         *)
(* vectors: what is gone keeps its vector.                                  *)
RestartBetweenWrites(first) ==
  /\ \E intent \in Intents : CachedAnswers(intent) = {} /\ Attempted(intent)
  /\ chunks' = Chunked
  /\ embedded' = embedded \cup {Chunked[id] : id \in first}
  /\ doubtful' = (doubtful \cup (Pending \cap DOMAIN vectors)) \cap DOMAIN Chunked
  /\ tree' = tree
  /\ indexed' = Reindexed(CodeFiles) /\ unseen' = {}
  /\ answer' = NoAnswer
  /\ UNCHANGED <<vectors, answers, edits>>

RetrievalNext ==
  \/ \E f \in CodeFiles, code \in Codes \cup {NoFile} : EditByTool(f, code)
  \/ \E f \in CodeFiles, code \in Codes \cup {NoFile} : EditUnseen(f, code)
  \/ \E intent \in Intents : AnswerFromCache(intent)
  \/ \E intent \in Intents : AnswerByStructure(intent)
  \/ \E intent \in Intents, failing \in SUBSET Pending : AnswerBySearch(intent, failing)
  \/ \E intent \in Intents, failing \in SUBSET Pending : AnswerWithoutQuery(intent, failing)
  \/ Restart
  \/ \E done \in SUBSET Pending : RestartInRefresh(done)
  \/ \E first \in {{}} \cup {{id} : id \in Pending} : RestartBetweenWrites(first)

RetrievalSpec == RetrievalInit /\ [][RetrievalNext]_retrievalVars
-----------------------------------------------------------------------------
(* Properties.                                                              *)

AllIds == CodeFiles \X Nat

(* The types; vectors may lack a record, as a process that ended between    *)
(* two writes leaves them, and the cache has one answer to a key.           *)
RetrievalTypeOK ==
  /\ {tree[f] : f \in CodeFiles} \cup {indexed[f] : f \in CodeFiles} \subseteq Codes \cup {NoFile}
  /\ DOMAIN chunks \subseteq AllIds /\ DOMAIN vectors \subseteq AllIds
  /\ {vectors[id] : id \in DOMAIN vectors} \subseteq embedded
  /\ \A a, other \in answers : a.intent = other.intent /\ a.tree = other.tree => a = other
  /\ embedded \subseteq Codes /\ edits \in 0..MaxEdits

(* A vector is that of its record's text, in spite of restarts and of the   *)
(* order of changes, unless the service failed, or the process ended, when  *)
(* the chunk had changed: refresh looks at the record, which is new by      *)
(* then, and never embeds the chunk again.                                  *)
VectorTrue ==
  \A id \in (DOMAIN vectors \cap DOMAIN chunks) \ doubtful : vectors[id] = chunks[id]

(* What an answer shows was found in the files as they are now, whatever    *)
(* changed since it was first given, and by whomever.                       *)
HitsTrue == answer # NoAnswer => answer.given.tree = tree /\ FilesOf(answer.given.hits) \subseteq Present

(* An answer to where a symbol is defined, made with an index that knew     *)
(* every change, holds each definition there is, up to the limit, and never *)
(* another line of a file that defines it: also when it comes from the      *)
(* cache.                                                                   *)
DefinitionsFound ==
  answer # NoAnswer /\ answer.asked = "definition" /\ answer.given.current =>
    LET defined == {<<f, SymbolAt(tree[f])>> : f \in {g \in Present : SymbolAt(tree[g]) # 0}}
        hits == answer.given.hits
    IN /\ Cardinality(defined) <= HitLimit => hits \cap defined = defined
       /\ Cardinality(defined) > HitLimit => hits \cap defined = hits
       /\ \A hit \in hits, at \in defined : hit[1] = at[1] => hit = at

(* Retrieval answers for the code as it is: vectors are those of the        *)
(* chunks' texts, hits are in files of the tree that was asked about,       *)
(* definitions the index knows are all found, also from the cache, whose    *)
(* keys have one answer each (search, refresh).                             *)
RetrievalTrue == RetrievalTypeOK /\ VectorTrue /\ HitsTrue /\ DefinitionsFound
=============================================================================
