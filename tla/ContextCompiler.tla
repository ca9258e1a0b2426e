--------------------------- MODULE ContextCompiler ---------------------------
(***************************************************************************)
(* The context compiler: what of a run the next model request shows.  Every *)
(* turn compiles the session's history into a text prompt and the native    *)
(* messages of the run into the next request.  Below the high watermark     *)
(* they go as they are, above it the older part is condensed into a         *)
(* summary; the condensed request then takes the place of the run's native  *)
(* messages, so that a later compilation condenses the summary as well.     *)
(* Whether a compilation counts as a compression is decided by a hysteresis *)
(* for each of the two.                                                     *)
(*                                                                          *)
(* Texts are left out but for their size in tokens.  How much a message is  *)
(* worth as raw evidence changes with the task, the working state and the   *)
(* files, and may be anything at every compilation; without hybrid context  *)
(* it is nothing.  No two messages begin alike.                             *)
(***************************************************************************)
EXTENDS Naturals, Sequences, SequencesExt, FiniteSets, Ordering

CONSTANTS
  Sizes,        \* sizes of messages
  Worths,       \* scores of raw evidence; 0 is stale, repeated, or no evidence
  Batches,      \* the calls of an answer, by id; a later answer may use an id again
  UsableBudget, \* usable_input_budget
  HighMark,     \* the tokens of the high watermark
  RecentShare,  \* the tokens of the recent_verbatim layer
  FloorGroups,  \* recent_floor_groups
  Preamble,     \* tokens of what is pinned, the working state and the hints
  MapSize,      \* tokens of the repository map
  SummarySize,  \* tokens of a summary
  MinNew,       \* min_new_history_entries
  MaxChat,      \* bound: messages of the run
  MaxNotices    \* bound: notices of the run

ASSUME CompilerAssumption ==
  /\ Sizes \subseteq Nat \ {0} /\ Worths \subseteq Nat /\ 0 \in Worths
  /\ Batches \subseteq Seq(UNION {ToSet(b) : b \in Batches}) \ {<<>>}
  /\ FloorGroups \in Nat \ {0} /\ MinNew \in Nat \ {0} /\ {MaxChat, MaxNotices} \subseteq Nat
  /\ Preamble \in Nat \ {0} /\ {MapSize, SummarySize, RecentShare, HighMark, UsableBudget} \subseteq Nat
  /\ HighMark <= UsableBudget

Pipelines == {"legacy", "native"}

VARIABLES
  chat,       \* the messages of the run, as they came
  openCalls,  \* calls of the last answer that have no result yet
  native,     \* native_messages
  textParts,  \* the text prompt: entries that are verbatim, raw evidence, condensed
  marks,      \* for each pipeline, the last compression: entries and oldest third
  compressions, \* for each pipeline, the compressions counted
  stage       \* "compile" or "queued" next, "asis" or "condensed" when compiled, "answer"

compilerVars == <<chat, openCalls, native, textParts, marks, compressions, stage>>

(* A message: its calls or the call it answers, the number of the answer    *)
(* this belongs to, and the messages it stands for: itself, or, for the     *)
(* message in front of a condensed request, all that went into its summary. *)
Msg(role, size, calls, turn, for) ==
  [role |-> role, size |-> size, calls |-> calls, turn |-> turn, stands |-> for]
NewMsg(role, size, calls, turn) == Msg(role, size, calls, turn, {Len(chat) + 1})

SizeOf(s, S) ==
  LET upTo[k \in 0..Len(s)] ==
        IF k = 0 THEN 0 ELSE upTo[k - 1] + (IF k \in S THEN s[k].size ELSE 0)
  IN upTo[Len(s)]
SizeAll(s) == SizeOf(s, DOMAIN s)
InOrder(S) == Arranged(S, InFront(S))
StandsFor(s) == UNION {s[k].stands : k \in DOMAIN s}

-----------------------------------------------------------------------------
(* Native messages in groups: an answer with calls leads the results of its *)
(* calls, every other message is a group of its own; a group is the place   *)
(* of its first message.                                                    *)

Callers(k) == {j \in 1..(k - 1) : native[k].calls \cap native[j].calls # {}
                                  /\ native[j].role = "assistant"}
(* Mutant of GroupOfResult: a result belongs to the first answer with its id. *)
FirstCaller(k) == IF Callers(k) = {} THEN k ELSE Min(Callers(k))

GroupOfResult(k) == IF Callers(k) = {} THEN k ELSE Max(Callers(k))

Leader(k) == IF native[k].role = "tool" THEN GroupOfResult(k) ELSE k
Leaders == {Leader(k) : k \in DOMAIN native}
Members(g) == {k \in DOMAIN native : Leader(k) = g}
MembersOf(S) == {k \in DOMAIN native : Leader(k) \in S}

(* Raw evidence that is taken back: the best and latest first, as far as    *)
(* the high watermark allows, on top of what the request has already.       *)
LessWorth(S, worth) ==
  {p \in S \X S : worth[p[1]] < worth[p[2]] \/ (worth[p[1]] = worth[p[2]] /\ p[1] < p[2])}

Ranked(S, worth) ==
  LET worthy == {i \in S : worth[i] > 0} IN Reverse(Arranged(worthy, LessWorth(worthy, worth)))

(* One after the other, each that still fits behind what there is.          *)
Taken(order, cost, first, room) ==
  LET got[k \in 0..Len(order)] ==
        IF k = 0 THEN first
        ELSE IF got[k - 1].used + cost[order[k]] > room THEN got[k - 1]
        ELSE [used |-> got[k - 1].used + cost[order[k]], set |-> got[k - 1].set \cup {order[k]}]
  IN got[Len(order)].set

TakenBack(S, worth, cost, base) ==
  Taken(Ranked(S, worth), cost, [used |-> base, set |-> {}], HighMark)

(* The last groups that fit, and never fewer than the floor.                *)
LastGroups(n) == {g \in Leaders : Cardinality({h \in Leaders : h >= g}) <= n}
RecentGroups ==
  LET most == Cardinality(Leaders)
      least == IF FloorGroups < most THEN FloorGroups ELSE most
  IN LastGroups(Max({n \in least..most :
                       n = least \/ SizeOf(native, MembersOf(LastGroups(n))) <= RecentShare}))

(* The tokens of a request of these groups; the rest goes into a summary.   *)
SummaryFor(groups) == IF groups = Leaders THEN 0 ELSE SummarySize
RequestSize(groups) ==
  Preamble + MapSize + SizeOf(native, MembersOf(groups)) + SummaryFor(groups)

(* Mutant of Sacrifice: the newest recent group goes first.                 *)
SacrificeNewest(raw, recent, worth) ==
  Arranged(raw, LessWorth(raw, worth))
  \o Reverse(InOrder({g \in recent : native[g].role \notin {"system", "user"}}))

(* A request that is too large loses raw evidence, least worth first, and   *)
(* then the oldest recent groups; what the user or the system said stays.   *)
Sacrifice(raw, recent, worth) ==
  Arranged(raw, LessWorth(raw, worth))
  \o InOrder({g \in recent : native[g].role \notin {"system", "user"}})

Kept(raw, recent, worth) ==
  LET order == Sacrifice(raw, recent, worth)
      without(n) == (raw \cup recent) \ ToSet(SubSeq(order, 1, n))
      enough == {n \in 0..Len(order) : RequestSize(without(n)) <= UsableBudget}
  IN without(IF enough = {} THEN Len(order) ELSE Min(enough))

(* compile_native above the high watermark: raw evidence, then the recent   *)
(* groups.                                                                  *)
CompiledGroups(worth) ==
  LET cost == [g \in Leaders |-> SizeOf(native, Members(g))]
      recent == RecentGroups
      base == Preamble + SizeOf(native, MembersOf(recent)) + SummaryFor(recent)
  IN Kept(TakenBack(Leaders \ recent, worth, cost, base), recent, worth)

CondensedGroups(kept) == Leaders \ kept

(* _assemble_native_messages: the preamble with the summary, then the       *)
(* groups, each with its results.                                           *)
Assembled(kept) ==
  LET inFront == Msg("system", Preamble + MapSize + SummaryFor(kept), {}, 0,
                     UNION {native[k].stands : k \in MembersOf(CondensedGroups(kept))})
      at == Chained([i \in 1..Cardinality(kept) |-> InOrder(Members(InOrder(kept)[i]))])
  IN <<inFront>> \o [k \in DOMAIN at |-> native[at[k]]]

-----------------------------------------------------------------------------
(* The text prompt, of the entries the session's history has: all messages  *)
(* but answers that only make calls, which are recorded with the results.   *)

History == {i \in DOMAIN chat : chat[i].role \in {"user", "tool"}}

(* The newest, and from there on whatever still fits, is verbatim.          *)
RecentText ==
  LET cost == [i \in History |-> chat[i].size]
      newest == Max(History)
  IN Taken(Reverse(InOrder(History \ {newest})), cost,
           [used |-> cost[newest], set |-> {newest}], RecentShare)

TextPartition(worth) ==
  LET cost == [i \in History |-> chat[i].size]
      recent == RecentText
      older == History \ recent
      raw == TakenBack(older, worth, cost, Preamble + SizeOf(chat, recent) + SummarySize)
  IN [recent |-> recent, raw |-> raw, condensed |-> older \ raw]

-----------------------------------------------------------------------------
(* Hysteresis: a compression counts when enough is new since the last one,  *)
(* and when the oldest third, which it would compress, is not the same.     *)

Entries(p) == IF p = "native" THEN Len(native) ELSE Cardinality(History)
TokensOf(p) == IF p = "native" THEN SizeAll(native) ELSE Preamble + SizeOf(chat, History)
OverHigh(p) == TokensOf(p) >= HighMark
(* A request's first message begins alike whatever summary it ends with.    *)
Begins(m) == IF m.role = "system" THEN {} ELSE m.stands
SpanOf(p) ==
  LET third == IF Entries(p) < 3 THEN 1 ELSE Entries(p) \div 3
  IN [k \in 1..third |-> IF p = "native" THEN Begins(native[k]) ELSE {InOrder(History)[k]}]

ShouldCompress(p) ==
  /\ OverHigh(p)
  /\ marks[p].entries # 0 =>
       Entries(p) >= marks[p].entries + MinNew /\ marks[p].span # SpanOf(p)

Count(p) == IF ShouldCompress(p) THEN compressions[p] + 1 ELSE compressions[p]
Mark(p) == IF ShouldCompress(p) THEN [entries |-> Entries(p), span |-> SpanOf(p)] ELSE marks[p]

-----------------------------------------------------------------------------

(* The run begins with what the system and the user say.                    *)
CompilerInit ==
  /\ chat \in {<<Msg("system", 1, {}, 0, {1}), Msg("user", n, {}, 0, {2})>> : n \in Sizes}
  /\ native = chat
  /\ openCalls = <<>>
  /\ textParts = [recent |-> {}, raw |-> {}, condensed |-> {}]
  /\ marks = [p \in Pipelines |-> [entries |-> 0, span |-> <<>>]]
  /\ compressions = [p \in Pipelines |-> 0]
  /\ stage = "compile"

CompileText(worth) ==
  textParts' = IF OverHigh("legacy") THEN TextPartition(worth)
               ELSE [recent |-> History, raw |-> {}, condensed |-> {}]

(* A turn takes the next call of the last answer: the text prompt is built, *)
(* the native request is not.                                               *)
TakeQueued(textWorth) ==
  /\ stage = "queued"
  /\ CompileText(textWorth)
  /\ compressions' = [compressions EXCEPT !["legacy"] = Count("legacy")]
  /\ marks' = [marks EXCEPT !["legacy"] = Mark("legacy")]
  /\ stage' = "answer"
  /\ UNCHANGED <<chat, openCalls, native>>

(* A turn makes a request: the text prompt is built, then the request.      *)
Compile(textWorth, worth) ==
  /\ stage = "compile"
  /\ CompileText(textWorth)
  /\ native' = IF OverHigh("native") THEN Assembled(CompiledGroups(worth)) ELSE native
  /\ compressions' = [p \in Pipelines |-> Count(p)]
  /\ marks' = [p \in Pipelines |-> Mark(p)]
  /\ stage' = IF OverHigh("native") THEN "condensed" ELSE "asis"
  /\ UNCHANGED <<chat, openCalls>>

(* What could be raw evidence: old entries when something is condensed.     *)
AnyWorth ==
  {[i \in DOMAIN chat |-> IF i \in S THEN w ELSE 0] :
     S \in SUBSET (IF OverHigh("legacy") THEN History \ RecentText ELSE {}), w \in Worths}
AnyGroupWorth ==
  {[k \in DOMAIN native |-> IF k \in S THEN w ELSE 0] :
     S \in SUBSET (IF OverHigh("native")
                   THEN {g \in Leaders \ RecentGroups : native[g].role # "system"} ELSE {}),
     w \in Worths}

AddMessage(m) ==
  /\ Len(chat) < MaxChat
  /\ chat' = Append(chat, m) /\ native' = Append(native, m)
  /\ UNCHANGED <<textParts, marks, compressions>>

(* The model answers with calls; all their results follow, in order.        *)
AnswerWithCalls(ids, size) ==
  /\ stage \in {"asis", "condensed"}
  /\ AddMessage(NewMsg("assistant", size, ToSet(ids), Len(chat) + 1))
  /\ openCalls' = ids
  /\ stage' = "answer"

AddResult(size) ==
  /\ stage = "answer"
  /\ LET turn == Max({i \in DOMAIN chat : chat[i].role = "assistant"})
     IN AddMessage(NewMsg("tool", size, {Head(openCalls)}, turn))
  /\ openCalls' = Tail(openCalls)
  /\ stage' = IF Tail(openCalls) = <<>> THEN "compile" ELSE "queued"

(* A notice to the model: after an answer without a call; behind a result,  *)
(* when it is the recovery notice, though other calls of the answer may     *)
(* have none; and, before the next request, as many as come together: what  *)
(* the decision was missing, the recovery notice, the edit that is due.     *)
AddNotice(size) ==
  /\ \/ stage \in {"asis", "condensed"}
     \/ stage = "queued" /\ Last(chat).role = "tool"
     \/ stage = "compile" /\ Len(chat) > 2
  /\ Cardinality({i \in DOMAIN chat : chat[i].role = "user"}) <= MaxNotices
  /\ AddMessage(NewMsg("user", size, {}, 0))
  /\ stage' = IF stage = "queued" THEN "queued" ELSE "compile"
  /\ UNCHANGED openCalls

CompilerNext ==
  \/ \E t \in AnyWorth : TakeQueued(t)
  \/ \E t \in AnyWorth, w \in AnyGroupWorth : Compile(t, w)
  \/ \E ids \in Batches, n \in Sizes : AnswerWithCalls(ids, n)
  \/ \E n \in Sizes : AddResult(n)
  \/ \E n \in Sizes : AddNotice(n)

CompilerSpec == CompilerInit /\ [][CompilerNext]_compilerVars

-----------------------------------------------------------------------------

CompilerTypeOK ==
  /\ \A s \in {chat, native} : \A k \in DOMAIN s :
       /\ s[k].role \in {"system", "user", "assistant", "tool"}
       /\ s[k].size \in Nat \ {0} /\ s[k].stands \subseteq DOMAIN chat
  /\ ToSet(openCalls) \subseteq UNION {ToSet(b) : b \in Batches}
  /\ openCalls # <<>> <=> stage \in {"queued", "answer"}
  /\ textParts.recent \cup textParts.raw \cup textParts.condensed \subseteq History
  /\ stage \in {"compile", "queued", "asis", "condensed", "answer"}

(* A request that condenses never splits a call from its result: behind     *)
(* each answer it shows are all its results with nothing in between,        *)
(* although a notice may have come in between, ids are used again, and the  *)
(* messages were condensed before (_group_native_messages).                 *)
GroupsWhole ==
  stage = "condensed" =>
    \A k \in DOMAIN native :
      /\ native[k].role = "tool" => k > 1 /\ native[k - 1].turn = native[k].turn
      /\ native[k].role = "assistant" =>
           Cardinality({j \in DOMAIN native : native[j].turn = native[k].turn})
             = Cardinality({i \in DOMAIN chat : chat[i].turn = native[k].turn})

(* Every message of the run is shown once, or went into the summary, or     *)
(* into a summary that was condensed since: what the budget takes away is   *)
(* condensed as well.  And the text prompt shows the newest entry, and      *)
(* forgets none (_enforce_native_budget, _partition_history).               *)
Accounted ==
  stage \in {"asis", "condensed"} =>
    /\ StandsFor(native) = DOMAIN chat
    /\ \A j, k \in DOMAIN native : j # k => native[j].stands \cap native[k].stands = {}
    /\ textParts.recent \cup textParts.raw \cup textParts.condensed = History
    /\ Max(History) \in textParts.recent

(* "Final provider-bound invariant": a native request is within the budget, *)
(* unless only what the user and the system said is left in it, over any    *)
(* number of compilations (_enforce_native_budget).                         *)
WithinBudget ==
  stage \in {"asis", "condensed"} =>
    \/ SizeAll(native) <= UsableBudget
    \/ \A k \in DOMAIN native : native[k].role \in {"system", "user"}

(* What the model did last is the last to go: a compilation condenses the   *)
(* newest answer of the request, with its results, only when they do not    *)
(* fit beside what is never taken away (_enforce_native_budget).  The code  *)
(* keeps to this only for an answer that is near: the groups from it on,    *)
(* with the notices between and behind its results, are no more than the    *)
(* floor or have room in recent_verbatim.  Notices can push it out of both. *)
NewestGoesLast ==
  LET answers == {k \in DOMAIN native : native[k].role = "assistant"}
      newest == Max(answers)
      onward == newest..Len(native)
      near == \/ Cardinality({k \in onward : native[k].role # "tool"}) <= FloorGroups
              \/ SizeOf(native, onward) <= RecentShare
      its == {k \in DOMAIN native : native[k].turn = native[newest].turn}
      said == {k \in DOMAIN native' : native'[k].role \in {"system", "user"}}
  IN stage = "compile" /\ stage' = "condensed" /\ answers # {} /\ near
       /\ (\A k \in DOMAIN native' : native'[k] # native[newest]) =>
     SizeOf(native', said) + SizeOf(native, its) > UsableBudget

(* Compressions that count, and make the runtime write a checkpoint, are    *)
(* at least min_new_history_entries apart, in each pipeline on its own, so  *)
(* that one never uses up the other's (ContextBudget.should_compress).      *)
CompressionsSpaced ==
  \A p \in Pipelines : MinNew * compressions[p] < marks[p].entries + MinNew

(* A request is whole: calls stand with their results, and every message of *)
(* the run is in it once, in full or in a summary (_group_native_messages,  *)
(* _enforce_native_budget).                                                 *)
RequestWhole == CompilerTypeOK /\ GroupsWhole /\ Accounted

(* A request fits, at the least price: within the budget over any number of *)
(* compilations, the newest work given up last, and the compressions that   *)
(* count spaced (_enforce_native_budget, should_compress).                  *)
RequestFits ==
  []WithinBudget /\ [][NewestGoesLast]_compilerVars /\ []CompressionsSpaced
=============================================================================
