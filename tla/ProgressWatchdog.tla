--------------------------- MODULE ProgressWatchdog ---------------------------
(***************************************************************************)
(* The progress watchdog: what it takes for progress, the loops it finds in *)
(* the last events, and its state machine normal -> recovery -> confirmed.  *)
(* ask() calls begin_recovery whenever it suspects, so that the two are one *)
(* step here, and stops the run when it confirms.                           *)
(*                                                                          *)
(* Steps are the tool steps, one per event.  A file is its path and whether *)
(* its hash changed since it was last remembered; a range, or the wording   *)
(* of a search or of a command, is a variant.                               *)
(***************************************************************************)
EXTENDS Integers, Sequences, FiniteSets

CONSTANTS
  NoProgressLimit, IdenticalLimit, AlternatingLimit, VerificationLimit,
  ErrorLimit, RecoveryWindow, Window,
  Calls,       \* bound: the tool events the agent may produce
  Overlapping  \* pairs of ranges that overlap by the semantic threshold

ASSUME LimitAssumption ==
  {NoProgressLimit, IdenticalLimit, AlternatingLimit, VerificationLimit,
   ErrorLimit, RecoveryWindow, Window} \subseteq Nat \ {0}

Errors == {"failure", "other failure", "rejected"}
Results == {"ok", "changed"} \cup Errors
ASSUME CallsAssumption ==
  \A c \in Calls :
    /\ DOMAIN c = {"tool", "on", "variant", "result"}
    /\ c.tool \in {"read", "search", "symbol", "shell", "edit", "list"}
    /\ c.result \in Results

Largest(S) == CHOOSE n \in S : \A m \in S : m <= n

(* The length of the deque of events.                                       *)
MaxLen == 2 + Largest({Window, IdenticalLimit, AlternatingLimit, VerificationLimit,
                       ErrorLimit, RecoveryWindow})

VARIABLES
  events,        \* the last MaxLen events
  state,
  quiet,         \* no_progress_score
  elapsed,       \* steps since _recovery_start_step
  seen,          \* files, searches, symbols and commands seen, and error
                 \* signatures: pairs of a tool and what it is about
  moved,         \* seen files that changed since their hash was remembered
  failed,        \* _failed_commands
  verifyStreak, errorStreak,
  silent         \* history: events since the last one with progress

watchdogVars == <<events, state, quiet, elapsed, seen, moved, failed, verifyStreak,
                  errorStreak, silent>>

WatchdogInit ==
  /\ events = <<>> /\ state = "normal" /\ quiet = 0 /\ elapsed = 0
  /\ seen = {} /\ moved = {} /\ failed = {}
  /\ verifyStreak = 0 /\ errorStreak = 0
  /\ silent = 0

-----------------------------------------------------------------------------

(* events.append on a deque.                                                *)
Remember(e) ==
  LET longer == Append(events, e)
  IN  IF Len(longer) > MaxLen THEN Tail(longer) ELSE longer

Overlap(v, w) == v = w \/ {v, w} \in Overlapping

(* _is_fresh_read: among the events that are still in the deque.            *)
FreshRead(e) ==
  LET kept == Remember(e)
  IN  \A n \in 1..(Len(kept) - 1) :
        kept[n].tool = "read" /\ kept[n].on = e.on => ~Overlap(kept[n].variant, e.variant)

About(e) == <<e.tool, e.on>>
Failure(e) == <<"error", e.result>>

(* Mutant of Progress: a search is progress whenever it is not the last     *)
(* event again.                                                             *)
ProgressForgetful(e) ==
  \/ e.result = "changed"
  \/ /\ e.result # "rejected"
     /\ \/ e.tool \in {"search", "symbol"} /\ (events = <<>> \/ events[Len(events)] # e)
        \/ e.tool = "read" /\ (About(e) \notin seen \/ e.on \in moved \/ FreshRead(e))
        \/ e.tool = "shell" /\ About(e) \notin seen

(* _detect_progress                                                         *)
Progress(e) ==
  \/ e.result = "changed"
  \/ /\ e.result # "rejected"
     /\ \/ e.tool = "read" /\ (About(e) \notin seen \/ e.on \in moved \/ FreshRead(e))
        \/ e.tool \in {"search", "symbol"} /\ About(e) \notin seen
        \/ e.tool = "shell" /\ \/ About(e) \notin seen
                               \/ e.result \in Errors /\ Failure(e) \notin seen
                               \/ e.result = "ok" /\ e.on \in failed

(* What _detect_progress remembers.                                         *)
Learn(e) ==
  LET looked == e.result \notin {"changed", "rejected"}
      fails == looked /\ e.tool = "shell" /\ e.result \in Errors
      new == About(e) \notin seen
  IN  /\ seen' = seen
                 \cup (IF looked /\ e.tool \in {"read", "search", "symbol", "shell"}
                       THEN {About(e)} ELSE {})
                 \cup (IF fails THEN {Failure(e)} ELSE {})
      /\ failed' = IF fails /\ (new \/ Failure(e) \notin seen)
                   THEN failed \cup {e.on} ELSE failed
      /\ moved' = IF e.result = "changed"
                  THEN IF <<"read", e.on>> \in seen THEN moved \cup {e.on} ELSE moved
                  ELSE IF looked /\ e.tool = "read" THEN moved \ {e.on} ELSE moved

-----------------------------------------------------------------------------

Sig(e) == <<e.tool, e.on, e.variant>>

(* The last n elements of s; only used when there are that many.            *)
LastOf(s, n) == SubSeq(s, Len(s) - n + 1, Len(s))

IdenticalLoop(s) ==
  /\ Len(s) >= IdenticalLimit
  /\ LET last == LastOf(s, IdenticalLimit)
     IN  \A n \in 1..IdenticalLimit : Sig(last[n]) = Sig(last[1])

AlternatingLoop(s) ==
  /\ Len(s) >= AlternatingLimit
  /\ LET last == LastOf(s, AlternatingLimit)
     IN  /\ Sig(last[1]) # Sig(last[2])
         /\ \A n \in 1..AlternatingLimit :
              Sig(last[n]) = IF n % 2 = 1 THEN Sig(last[1]) ELSE Sig(last[2])

SemanticReadLoop(s) ==
  LET reads == SelectSeq(s, LAMBDA e : e.tool = "read")
      last == LastOf(reads, IdenticalLimit)
  IN  /\ Len(reads) >= IdenticalLimit
      /\ \A n \in 1..(IdenticalLimit - 1) :
           last[n + 1].on = last[1].on /\ Overlap(last[n].variant, last[n + 1].variant)

SearchLoop(s) ==
  LET searches == SelectSeq(s, LAMBDA e : e.tool = "search")
      last == LastOf(searches, IdenticalLimit)
  IN  /\ Len(searches) >= IdenticalLimit
      /\ \A n \in 1..IdenticalLimit : last[n].on = last[1].on

(* _track_streaks, after a progress reset both streaks.                     *)
Streaks(e, progress) ==
  LET v == IF progress THEN 0 ELSE verifyStreak
      r == IF progress THEN 0 ELSE errorStreak
  IN  IF e.result \notin Errors THEN [verify |-> 0, error |-> 0]
      ELSE CASE e.tool = "shell" -> [verify |-> v + 1, error |-> 0]
             [] e.tool = "edit" -> [verify |-> 0, error |-> r + 1]
             [] OTHER -> [verify |-> v, error |-> r]

StuckPattern(s, streaks) ==
  \/ IdenticalLoop(s) \/ AlternatingLoop(s)
  \/ streaks.verify >= VerificationLimit \/ streaks.error >= ErrorLimit
  \/ SemanticReadLoop(s) \/ SearchLoop(s)

(* Mutant of Advance: a suspicion does not start the recovery window over.  *)
AdvanceUnreset(progress, pattern) ==
  LET score == IF progress THEN 0 ELSE quiet + 1
      Go(to, q, t) == state' = to /\ quiet' = q /\ elapsed' = t
  IN  CASE state = "normal" /\ (pattern \/ score >= NoProgressLimit) ->
             Go("recovery", 0, elapsed + 1)
        [] state = "recovery" /\ progress -> Go("normal", 0, elapsed)
        [] state = "recovery" /\ ~progress /\ elapsed + 1 >= RecoveryWindow ->
             Go("confirmed", score, 0)
        [] state = "recovery" /\ ~progress /\ elapsed + 1 < RecoveryWindow ->
             Go("recovery", score, elapsed + 1)
        [] OTHER -> Go(state, score, elapsed)

(* The state machine of record_tool_event, with begin_recovery.             *)
Advance(progress, pattern) ==
  LET score == IF progress THEN 0 ELSE quiet + 1
      Go(to, q, t) == state' = to /\ quiet' = q /\ elapsed' = t
  IN  CASE state = "normal" /\ (pattern \/ score >= NoProgressLimit) -> Go("recovery", 0, 0)
        [] state = "recovery" /\ progress -> Go("normal", 0, 0)
        [] state = "recovery" /\ ~progress /\ elapsed + 1 >= RecoveryWindow ->
             Go("confirmed", score, 0)
        [] state = "recovery" /\ ~progress /\ elapsed + 1 < RecoveryWindow ->
             Go("recovery", score, elapsed + 1)
        [] OTHER -> Go(state, score, 0)

(* record_tool_event                                                        *)
RecordToolEvent(e) ==
  /\ state # "confirmed"
  /\ events' = Remember(e)
  /\ Learn(e)
  /\ LET progress == Progress(e)
         streaks == Streaks(e, progress)
         pattern == StuckPattern(events', streaks)
     IN  /\ verifyStreak' = streaks.verify /\ errorStreak' = streaks.error
         /\ Advance(progress, pattern)
         /\ silent' = IF progress THEN 0 ELSE silent + 1

WatchdogNext == \E e \in Calls : RecordToolEvent(e)

(* The agent goes on calling tools until it is stopped.                     *)
WatchdogSpec == WatchdogInit /\ [][WatchdogNext]_watchdogVars /\ WF_watchdogVars(WatchdogNext)

-----------------------------------------------------------------------------

WatchdogTypeOK ==
  /\ events \in Seq(Calls) /\ Len(events) <= MaxLen
  /\ state \in {"normal", "recovery", "confirmed"}
  /\ quiet \in 0..Largest({NoProgressLimit, RecoveryWindow})
  /\ elapsed \in 0..RecoveryWindow
  /\ \A s \in seen : s[1] \in {"read", "search", "symbol", "shell", "error"}
  /\ \A p \in moved : <<"read", p>> \in seen
  /\ \A c \in failed : <<"shell", c>> \in seen
  /\ verifyStreak \in Nat /\ errorStreak \in Nat /\ silent \in Nat

(* A run without progress is stopped in time: NoProgressLimit events until  *)
(* the watchdog suspects it at the latest, and the recovery window.         *)
DetectedInTime == silent <= NoProgressLimit + RecoveryWindow

(* A run is stopped as stuck only after a whole recovery window without     *)
(* progress.                                                                *)
RecoveryGranted == state = "confirmed" => silent >= RecoveryWindow

(* Looking up what was looked up, and repeating what fails, ends: the run   *)
(* of an agent that from some event on does nothing else is stopped.        *)
Idle(e) == e.tool \in {"search", "symbol"} \/ e.result \in Errors

IdleIsStopped ==
  <>[](events # <<>> /\ Idle(events[Len(events)])) => <>(state = "confirmed")

(* The watchdog is neither late nor hasty, within a bounded memory: a run   *)
(* without progress is confirmed as stuck after the limit and a window of   *)
(* recovery at the latest, and never before a whole window passed           *)
(* (record_tool_event).                                                     *)
WatchdogTimely == WatchdogTypeOK /\ DetectedInTime /\ RecoveryGranted
=============================================================================
