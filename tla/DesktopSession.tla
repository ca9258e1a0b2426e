---------------------------- MODULE DesktopSession ----------------------------
(***************************************************************************)
(* The desktop client and the application runner together: the commands the *)
(* user can give in the chat view and the approval dialog, and the two      *)
(* reducers that update the view from the runner's events.                  *)
(***************************************************************************)
EXTENDS AppRunner

CONSTANTS
  MaxSends,  \* bound: messages the user sends
  MaxStops   \* bound: clicks on Stop

ASSUME UserAssumption == MaxSends \in Nat /\ MaxStops \in Nat

VARIABLES
  chat,       \* ChatState: activeRunId and isRunning
  dialogs,    \* ApprovalState.pending
  sends,      \* messages sent
  stops       \* clicks on Stop

userVars == <<sends, stops>>
vars == <<runnerVars, chat, dialogs, userVars>>

Dialogs == [run : Runs \cup {NoRun}, approval : Approvals, resolving : BOOLEAN]

NoChat == [run |-> NoRun, running |-> FALSE]

Init ==
  /\ RunnerInit
  /\ chat = NoChat
  /\ dialogs = {}
  /\ sends = 0 /\ stops = 0

SendCommand(c) == inbox' = Append(inbox, c)

OtherRunnerVars ==
  UNCHANGED <<outbox, main, target, active, canceled, pending, approved, woken,
              worker, job, turns, asked, leftover, runs, approvalCount,
              told, refused, struck, late>>

(* The send button is there while the view shows no run: also between a     *)
(* message and the event that says it was received.  What the user does     *)
(* after she left goes to another process, which is not modelled.           *)
SendMessage ==
  /\ ~Leaving
  /\ ~chat.running
  /\ sends < MaxSends
  /\ sends' = sends + 1
  /\ SendCommand(Message("send_message", NoRun, NoApproval))
  /\ OtherRunnerVars
  /\ UNCHANGED <<chat, dialogs, stops>>

StopRun ==
  /\ ~Leaving
  /\ chat.running
  /\ stops < MaxStops
  /\ stops' = stops + 1
  /\ SendCommand(Message("cancel_run", chat.run, NoApproval))
  /\ OtherRunnerVars
  /\ UNCHANGED <<chat, dialogs, sends>>

(* markApprovalResolving disables the buttons of the dialog.                *)
AnswerDialog(d) ==
  /\ ~Leaving
  /\ d \in dialogs /\ ~d.resolving
  /\ \E decision \in {"approve_operation", "reject_operation"} :
       SendCommand(Message(decision, d.run, d.approval))
  /\ dialogs' = (dialogs \ {d}) \cup {[d EXCEPT !.resolving = TRUE]}
  /\ OtherRunnerVars
  /\ UNCHANGED <<chat, userVars>>

(* The user opens another project: the view is emptied, and the runner is   *)
(* told to close.  Events of the old runner still arrive.                   *)
LeaveProject ==
  /\ ~Leaving
  /\ chat' = NoChat /\ dialogs' = {}
  /\ SendCommand(Message("close", NoRun, NoApproval))
  /\ OtherRunnerVars
  /\ UNCHANGED userVars

(* applyBackendEvent                                                        *)
ChatAfter(e) ==
  IF e.type = "user_message_received" THEN [run |-> e.run, running |-> TRUE]
  ELSE IF e.type \in Terminal THEN NoChat
  ELSE chat

(* Mutant of DialogsAfter: the end of any run closes every dialog.          *)
DialogsClosedByAny(e) ==
  LET others == {d \in dialogs : d.approval # e.approval}
  IN  CASE e.type = "approval_requested" ->
             others \cup {[run |-> e.run, approval |-> e.approval, resolving |-> FALSE]}
        [] e.type = "approval_resolved" -> others
        [] e.type \in {"run_canceled", "run_failed"} -> {}
        [] OTHER -> dialogs

(* applyApprovalEvent                                                       *)
DialogsAfter(e) ==
  LET others == {d \in dialogs : d.approval # e.approval}
  IN  CASE e.type = "approval_requested" ->
             others \cup {[run |-> e.run, approval |-> e.approval, resolving |-> FALSE]}
        [] e.type = "approval_resolved" -> others
        [] e.type \in {"run_canceled", "run_failed"} -> {d \in dialogs : d.run # e.run}
        [] OTHER -> dialogs

ReceiveEvent ==
  /\ outbox # <<>>
  /\ outbox' = Tail(outbox)
  /\ LET e == Head(outbox)
     IN  /\ chat' = ChatAfter(e)
         /\ dialogs' = DialogsAfter(e)
  /\ UNCHANGED <<inbox, main, target, active, canceled, pending, approved, woken,
                 worker, job, turns, asked, leftover, runs, approvalCount,
                 told, refused, struck, late, sends, stops>>

User == SendMessage \/ StopRun \/ (\E d \in dialogs : AnswerDialog(d)) \/ LeaveProject

ViewUnchanged == UNCHANGED <<chat, dialogs, userVars>>

Next == User \/ (RunnerNext /\ ViewUnchanged) \/ ReceiveEvent

(* Threads are scheduled and events arrive; nothing obliges the user.       *)
Fairness ==
  /\ WF_vars(Main /\ ViewUnchanged)
  /\ WF_vars(Worker /\ ViewUnchanged)
  /\ WF_vars(ResetCancel /\ ViewUnchanged)
  /\ WF_vars(ReceiveEvent)

Spec == Init /\ [][Next]_vars /\ Fairness

-----------------------------------------------------------------------------

TypeOK ==
  /\ RunnerTypeOK
  /\ chat \in [run : Runs \cup {NoRun}, running : BOOLEAN]
  /\ dialogs \subseteq Dialogs
  /\ sends \in 0..MaxSends /\ stops \in 0..MaxStops

(* Nothing is on its way, and the process is alive.                         *)
Quiet == inbox = <<>> /\ outbox = <<>> /\ main = "reading"

Waits == worker = "waiting" /\ asked \notin woken

(* The client was told that a run ended, or was not told of its own: it was *)
(* canceled, another message was refused in its name, or another run was    *)
(* canceled while this one was active.                                      *)
Disowned(r) == r \in canceled \cup refused \cup struck

(* A run that waits for the user is never invisible to the user: the dialog *)
(* of its approval is open, unless the run was canceled or was announced as *)
(* failed because another message was refused.                              *)
DialogShown ==
  Quiet /\ Waits /\ job \notin canceled \cup refused =>
    \E d \in dialogs : d.approval = asked /\ d.run = job /\ ~d.resolving

(* A run that waits for the user can be answered, canceled or not: there is *)
(* an open dialog for what it waits for.  A canceled run ends only if the   *)
(* wait does.                                                               *)
WaitReachable ==
  Quiet /\ Waits /\ job \notin refused =>
    \E d \in dialogs : d.approval = asked /\ d.run = job

(* The view does not lie: it shows a run exactly while one goes on that was *)
(* not disowned, so that Stop is offered then and Send otherwise.           *)
ViewAgrees ==
  Quiet /\ worker \in {"dead", "turn", "acting", "waiting"}
    => (chat.running <=> worker # "dead" /\ ~Disowned(job))

(* A canceled run starts at most one more tool: the one it was about to     *)
(* start when it was canceled.                                              *)
CancelStopsTools == \A r \in Runs : late[r] <= 1

(* Every accepted message is answered: its run is announced as completed,   *)
(* failed or canceled, unless it waits for a decision of the user for ever, *)
(* the cancellation of another run struck it, or the process ends.          *)
RunsAnswered ==
  \A r \in Runs :
    [](job = r /\ worker # "dead" =>
         \/ <>(told[r] # {} \/ r \in struck \/ main = "exited")
         \/ <>[](Waits /\ job = r))
=============================================================================
