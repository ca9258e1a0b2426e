------------------------------ MODULE AppRunner ------------------------------
(***************************************************************************)
(* The application runner: a process that reads commands from stdin and     *)
(* writes events to stdout.  Its main thread handles one command after the  *)
(* other; each accepted message is worked on by a worker thread that calls  *)
(* ask().  The two share active_run (with no lock), canceled_run_ids, and   *)
(* the approvals that wait for a decision of the client.                    *)
(*                                                                          *)
(* Of ask() the model keeps what the runner sees: the places where it asks  *)
(* whether it was canceled, the approvals it requests, and how it ends.     *)
(* Status, delta, usage and tool events, which carry no decision, and the   *)
(* heartbeat thread, which only writes such events, are left out.           *)
(***************************************************************************)
EXTENDS Naturals, Sequences

CONSTANTS
  MaxRuns,      \* bound: messages that are accepted
  MaxApprovals, \* bound: approvals requested
  MaxTurns      \* step budget of a run

ASSUME BoundsAssumption ==
  MaxRuns \in Nat /\ MaxApprovals \in Nat /\ MaxTurns \in Nat

Runs == 1..MaxRuns
NoRun == 0
Approvals == 1..MaxApprovals
NoApproval == 0

Terminal == {"run_completed", "run_failed", "run_canceled"}

(* Commands and events, with the run and the approval they name.            *)
Message(t, r, p) == [type |-> t, run |-> r, approval |-> p]

Messages(types) == [type : types, run : Runs \cup {NoRun},
                    approval : Approvals \cup {NoApproval}]
Commands == Messages({"send_message", "cancel_run", "approve_operation",
                      "reject_operation", "close"})
Events == Messages(Terminal \cup {"user_message_received", "approval_requested",
                                  "approval_resolved", "session_closed"})

VARIABLES
  inbox,    \* stdin: commands that were sent and not yet read
  outbox,   \* stdout: events that were emitted and not yet received
  main,     \* the main thread: reading, or in the middle of a command
  target,   \* the run the cancel_run under way is for
  active,   \* active_run: run_id and cancel_requested
  canceled, \* canceled_run_ids
  pending,  \* pending_approvals
  approved, \* approvals whose request.approved is True
  woken,    \* approvals whose event is set
  worker,   \* the thread of active_run, "dead" when there is none alive
  job,      \* the run_id run_worker was started with
  turns,    \* tool turns of the run so far
  asked,    \* the approval the worker is concerned with
  leftover, \* an earlier worker has still to reset cancel_requested
  runs,     \* run ids made so far
  approvalCount, \* approval_counter
  told,     \* history: per run, the terminal events emitted for it
  refused,  \* history: runs in whose name another message was refused
  struck,   \* history: runs that were active when another run was canceled
  late      \* history: per run, tools started after it was canceled

sharedVars == <<active, canceled, pending, approved, woken>>
mainVars == <<main, target>>
askVars == <<job, turns, asked>>
historyVars == <<told, refused, struck, late>>
runnerVars == <<inbox, outbox, main, target, active, canceled, pending, approved,
                woken, worker, job, turns, asked, leftover, runs, approvalCount,
                told, refused, struck, late>>

-----------------------------------------------------------------------------

RunnerInit ==
  /\ inbox = <<>> /\ outbox = <<>>
  /\ main = "reading" /\ target = NoRun
  /\ active = [run |-> NoRun, cancel |-> FALSE]
  /\ canceled = {}
  /\ pending = {} /\ approved = {} /\ woken = {}
  /\ worker = "dead" /\ job = NoRun /\ turns = 0 /\ asked = NoApproval
  /\ leftover = FALSE
  /\ runs = 0 /\ approvalCount = 0
  /\ told = [r \in Runs |-> {}]
  /\ refused = {} /\ struck = {}
  /\ late = [r \in Runs |-> 0]

(* emit: the line goes to stdout under the output lock.                     *)
Emit(type, r, p) ==
  /\ outbox' = Append(outbox, Message(type, r, p))
  /\ told' = IF type \in Terminal /\ r # NoRun
             THEN [told EXCEPT ![r] = @ \cup {type}] ELSE told

Read(type) ==
  /\ main = "reading"
  /\ inbox # <<>> /\ Head(inbox).type = type
  /\ inbox' = Tail(inbox)

(* send_message while the thread of active_run is alive: the refusal is     *)
(* announced as the failure of the active run.                              *)
RefuseMessage ==
  /\ Read("send_message")
  /\ worker # "dead"
  /\ outbox' = Append(outbox, Message("run_failed", active.run, NoApproval))
  /\ refused' = refused \cup ({active.run} \ {NoRun})
  /\ UNCHANGED <<mainVars, sharedVars, askVars, worker, leftover, runs,
                 approvalCount, told, struck, late>>

(* Mutant of AcceptMessage: cancel_requested is not reset.                  *)
AcceptKeepingCancel ==
  /\ Read("send_message")
  /\ worker = "dead"
  /\ runs < MaxRuns
  /\ runs' = runs + 1
  /\ active' = [active EXCEPT !.run = runs']
  /\ Emit("user_message_received", runs', NoApproval)
  /\ worker' = "turn" /\ job' = runs' /\ turns' = 0
  /\ UNCHANGED <<mainVars, canceled, pending, approved, woken, asked, leftover,
                 approvalCount, refused, struck, late>>

AcceptMessage ==
  /\ Read("send_message")
  /\ worker = "dead"
  /\ runs < MaxRuns
  /\ runs' = runs + 1
  /\ active' = [run |-> runs', cancel |-> FALSE]
  /\ Emit("user_message_received", runs', NoApproval)
  /\ worker' = "turn" /\ job' = runs' /\ turns' = 0
  /\ UNCHANGED <<mainVars, canceled, pending, approved, woken, asked, leftover,
                 approvalCount, refused, struck, late>>

(* cancel_run, first half: the run named, or else the active one, and       *)
(* cancel_requested whatever run is active.                                 *)
MarkCanceled ==
  /\ Read("cancel_run")
  /\ target' = IF Head(inbox).run # NoRun THEN Head(inbox).run ELSE active.run
  /\ canceled' = IF target' # NoRun THEN canceled \cup {target'} ELSE canceled
  /\ active' = [active EXCEPT !.cancel = TRUE]
  /\ struck' = IF target' # active.run THEN struck \cup ({active.run} \ {NoRun}) ELSE struck
  /\ main' = "rejecting"
  /\ UNCHANGED <<outbox, pending, approved, woken, worker, askVars, leftover,
                 runs, approvalCount, told, refused, late>>

(* An approval that waits was requested by the run of the worker.           *)
PendingOf(r) == IF r = NoRun \/ r = job THEN pending ELSE {}

(* reject_pending_for_run                                                   *)
RejectPending(r) ==
  /\ approved' = approved \ PendingOf(r)
  /\ woken' = woken \cup PendingOf(r)

RejectCanceled ==
  /\ main = "rejecting"
  /\ RejectPending(target)
  /\ main' = "announcing"
  /\ UNCHANGED <<inbox, outbox, target, active, canceled, pending, worker, askVars,
                 leftover, runs, approvalCount, historyVars>>

AnnounceCanceled ==
  /\ main = "announcing"
  /\ Emit("run_canceled", target, NoApproval)
  /\ main' = "reading" /\ target' = NoRun
  /\ UNCHANGED <<inbox, sharedVars, worker, askVars, leftover, runs, approvalCount,
                 refused, struck, late>>

(* resolve_approval: an unknown approval and a run that does not match      *)
(* change nothing; an approval may be resolved again while it is pending.   *)
ResolveApproval ==
  /\ \E decision \in {"approve_operation", "reject_operation"} :
       /\ Read(decision)
       /\ LET p == Head(inbox).approval
              known == p \in pending /\ Head(inbox).run \in {NoRun, job}
          IN  /\ approved' = IF ~known THEN approved
                             ELSE IF decision = "approve_operation" THEN approved \cup {p}
                             ELSE approved \ {p}
              /\ woken' = IF known THEN woken \cup {p} ELSE woken
  /\ UNCHANGED <<outbox, mainVars, active, canceled, pending, worker, askVars,
                 leftover, runs, approvalCount, historyVars>>

Close ==
  /\ Read("close")
  /\ RejectPending(NoRun)
  /\ main' = "closing"
  /\ UNCHANGED <<outbox, target, active, canceled, pending, worker, askVars,
                 leftover, runs, approvalCount, historyVars>>

(* The worker ended, or two seconds went by: the process exits, and the     *)
(* worker, a daemon thread, with it.                                        *)
Exit ==
  /\ main = "closing"
  /\ Emit("session_closed", NoRun, NoApproval)
  /\ main' = "exited"
  /\ worker' = "dead" /\ leftover' = FALSE
  /\ UNCHANGED <<inbox, target, sharedVars, askVars, runs, approvalCount,
                 refused, struck, late>>

(* The client told the runner to close.                                     *)
Leaving == main \in {"closing", "exited"} \/ \E n \in 1..Len(inbox) : inbox[n].type = "close"

(* The client kills the process right after it sent close.                  *)
Killed ==
  /\ Leaving /\ main # "exited"
  /\ main' = "exited"
  /\ worker' = "dead" /\ leftover' = FALSE
  /\ UNCHANGED <<inbox, outbox, target, sharedVars, askVars, runs, approvalCount,
                 historyVars>>

Main == RefuseMessage \/ AcceptMessage \/ MarkCanceled \/ RejectCanceled
        \/ AnnounceCanceled \/ ResolveApproval \/ Close \/ Exit \/ Killed

-----------------------------------------------------------------------------

(* Mutant of CancelSeen: only cancel_requested is looked at.                *)
CancelFlagSeen == active.cancel /\ active.run \in {NoRun, job}

(* cancel_checker                                                           *)
CancelSeen ==
  \/ job \in canceled
  \/ active.cancel /\ active.run \in {NoRun, job}

WorkerTo(place) == worker' = place

(* ask() looks at the top of a turn, around the model call and after a tool.*)
CheckCanceled ==
  /\ worker = "turn"
  /\ WorkerTo(IF CancelSeen THEN "answered" ELSE "acting")
  /\ UNCHANGED <<inbox, outbox, mainVars, sharedVars, askVars, leftover, runs,
                 approvalCount, historyVars>>

(* A final answer or a limit ends ask(); an error of the model ends it with *)
(* the status "failed"; anything else is raised.                            *)
EndOfAsk ==
  /\ worker = "acting"
  /\ \E how \in {"answered", "failed", "raised"} : WorkerTo(how)
  /\ UNCHANGED <<inbox, outbox, mainVars, sharedVars, askVars, leftover, runs,
                 approvalCount, historyVars>>

(* The body of a tool starts for the run of the worker.                     *)
Executes == late' = IF job \in canceled THEN [late EXCEPT ![job] = @ + 1] ELSE late

RunTool ==
  /\ worker = "acting"
  /\ turns < MaxTurns
  /\ turns' = turns + 1
  /\ Executes
  /\ WorkerTo("turn")
  /\ UNCHANGED <<inbox, outbox, mainVars, sharedVars, job, asked, leftover, runs,
                 approvalCount, told, refused, struck>>

(* approval_handler: register the request, announce it, wait, announce the  *)
(* decision, then forget the request and return request.approved.           *)
RegisterRequest ==
  /\ worker = "acting"
  /\ turns < MaxTurns /\ approvalCount < MaxApprovals
  /\ turns' = turns + 1
  /\ approvalCount' = approvalCount + 1
  /\ asked' = approvalCount'
  /\ pending' = pending \cup {asked'}
  /\ WorkerTo("asking")
  /\ UNCHANGED <<inbox, outbox, mainVars, active, canceled, approved, woken, job,
                 leftover, runs, historyVars>>

AnnounceRequest ==
  /\ worker = "asking"
  /\ Emit("approval_requested", active.run, asked)
  /\ WorkerTo("waiting")
  /\ UNCHANGED <<inbox, mainVars, sharedVars, askVars, leftover, runs,
                 approvalCount, refused, struck, late>>

AnnounceDecision ==
  /\ worker = "waiting"
  /\ asked \in woken
  /\ Emit("approval_resolved", active.run, asked)
  /\ WorkerTo("resolved")
  /\ UNCHANGED <<inbox, mainVars, sharedVars, askVars, leftover, runs,
                 approvalCount, refused, struck, late>>

(* Mutant of UseDecision: the request stays among the pending ones.         *)
UseDecisionOnly ==
  /\ worker = "resolved"
  /\ IF asked \in approved THEN Executes ELSE UNCHANGED late
  /\ asked' = NoApproval
  /\ WorkerTo("turn")
  /\ UNCHANGED <<inbox, outbox, mainVars, active, canceled, pending, approved, woken,
                 job, turns, leftover, runs, approvalCount, told, refused, struck>>

UseDecision ==
  /\ worker = "resolved"
  /\ pending' = pending \ {asked}
  /\ IF asked \in approved THEN Executes ELSE UNCHANGED late
  /\ asked' = NoApproval
  /\ WorkerTo("turn")
  /\ UNCHANGED <<inbox, outbox, mainVars, active, canceled, approved, woken, job,
                 turns, leftover, runs, approvalCount, told, refused, struck>>

(* Mutant of CheckReturn: an exception is not reported.                     *)
CheckReturnValue ==
  /\ worker \in {"answered", "failed", "raised"}
  /\ LET silent == job \in canceled \/ active.cancel \/ worker = "raised"
     IN  WorkerTo(IF silent THEN "dead"
                  ELSE IF worker = "answered" THEN "completing" ELSE "failing")
  /\ UNCHANGED <<inbox, outbox, mainVars, sharedVars, askVars, leftover, runs,
                 approvalCount, historyVars>>

(* run_worker after ask() returned or raised: nothing is said of a run that *)
(* was canceled.                                                            *)
CheckReturn ==
  /\ worker \in {"answered", "failed", "raised"}
  /\ LET silent == job \in canceled \/ (worker # "raised" /\ active.cancel)
     IN  WorkerTo(IF silent THEN "dead"
                  ELSE CASE worker = "answered" -> "completing"
                         [] worker = "failed" -> "failing"
                         [] worker = "raised" -> "excusing")
  /\ UNCHANGED <<inbox, outbox, mainVars, sharedVars, askVars, leftover, runs,
                 approvalCount, historyVars>>

AnnounceEnd ==
  /\ \/ worker = "completing" /\ Emit("run_completed", job, NoApproval) /\ WorkerTo("clearing")
     \/ worker = "failing" /\ Emit("run_failed", job, NoApproval) /\ WorkerTo("clearing")
     \/ worker = "excusing" /\ Emit("run_failed", job, NoApproval) /\ WorkerTo("dead")
  /\ UNCHANGED <<inbox, mainVars, sharedVars, askVars, leftover, runs,
                 approvalCount, refused, struck, late>>

(* The three writes to active_run that end a run, one after the other: from *)
(* the second on the next message is accepted.                              *)
ClearRun ==
  /\ worker = "clearing"
  /\ active' = [active EXCEPT !.run = NoRun]
  /\ WorkerTo("detaching")
  /\ UNCHANGED <<inbox, outbox, mainVars, canceled, pending, approved, woken, askVars,
                 leftover, runs, approvalCount, historyVars>>

(* One leftover write at a time is modelled: the bound is ~leftover.        *)
ClearThread ==
  /\ worker = "detaching"
  /\ ~leftover
  /\ leftover' = TRUE
  /\ WorkerTo("dead")
  /\ UNCHANGED <<inbox, outbox, mainVars, sharedVars, askVars, runs, approvalCount,
                 historyVars>>

ResetCancel ==
  /\ leftover
  /\ active' = [active EXCEPT !.cancel = FALSE]
  /\ leftover' = FALSE
  /\ UNCHANGED <<inbox, outbox, mainVars, canceled, pending, approved, woken, worker,
                 askVars, runs, approvalCount, historyVars>>

Worker ==
  CheckCanceled \/ EndOfAsk \/ RunTool \/ RegisterRequest \/ AnnounceRequest
  \/ AnnounceDecision \/ UseDecision \/ CheckReturn \/ AnnounceEnd \/ ClearRun
  \/ ClearThread

RunnerNext == Main \/ Worker \/ ResetCancel

RunnerTypeOK ==
  /\ inbox \in Seq(Commands) /\ outbox \in Seq(Events)
  /\ main \in {"reading", "rejecting", "announcing", "closing", "exited"}
  /\ target \in Runs \cup {NoRun}
  /\ active \in [run : Runs \cup {NoRun}, cancel : BOOLEAN]
  /\ canceled \subseteq Runs
  /\ pending = IF worker \in {"asking", "waiting", "resolved"} THEN {asked}
               ELSE IF main = "exited" THEN pending ELSE {}
  /\ approved \subseteq Approvals /\ woken \subseteq Approvals
  /\ worker \in {"dead", "turn", "acting", "asking", "waiting", "resolved", "answered",
                 "failed", "raised", "completing", "failing", "excusing", "clearing",
                 "detaching"}
  /\ job \in Runs \cup {NoRun}
  /\ turns \in 0..MaxTurns
  /\ asked \in Approvals \cup {NoApproval}
  /\ leftover \in BOOLEAN
  /\ runs \in 0..MaxRuns
  /\ approvalCount \in 0..MaxApprovals
  /\ told \in [Runs -> SUBSET Terminal]
  /\ refused \subseteq Runs /\ struck \subseteq Runs
  /\ late \in [Runs -> Nat]
=============================================================================
