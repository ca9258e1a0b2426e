------------------------------ MODULE MCGuards ------------------------------
(* What stands between a reply and a tool, side by side: the stream and the  *)
(* parser of the reply, and the guards of a tool call, which are the breaker *)
(* of the tool, the read guard and the watchdog.  A behaviour is one of one  *)
(* of them, and the others stay as they began.                               *)
EXTENDS ToolGate, ReadGuard, ProgressWatchdog, ReplyStream, TLC

CONSTANTS t1, t2, k1, k2

VARIABLE focus

(* Two tools, one of which claims keys.                                     *)
OneSideEffect == {t1}

MCLines == 1..3

Event(t, o, v, r) == [tool |-> t, on |-> o, variant |-> v, result |-> r]

(* Two ranges of one file that do not overlap, an edit of it that succeeds  *)
(* or fails, a search, and a failing command.                               *)
MixedCalls ==
  {Event("read", "p", 1, "ok"), Event("read", "p", 2, "ok"),
   Event("edit", "p", 1, "changed"), Event("edit", "p", 1, "failure"),
   Event("search", "q", 1, "ok"), Event("shell", "c", 1, "failure")}

NoOverlap == {}

(* Text, the beginning of a tag, and the tags: two of them, or three with a  *)
(* final.                                                                    *)
MCPieces == {<<"a">>, <<"<">>, StartTag, EndTag, ToolTag}
MCReplies ==
  {FlattenSeq(pieces) : pieces \in
     UNION {[1..n -> MCPieces] : n \in 1..2} \cup {s \in [1..3 -> MCPieces] : StartTag \in Range(s)}}

(* Contents are only compared with contents of the same file, so that which  *)
(* one a file begins with makes no difference.                               *)
GuardsInit ==
  /\ focus \in {"gate", "reads", "watchdog", "stream"}
  /\ Init /\ ReadGuardInit /\ WatchdogInit /\ StreamInit
  /\ version = [f \in Files |-> CHOOSE v \in Versions : TRUE]
  /\ focus # "stream" => reply = StartTag

GateTurn == focus = "gate" /\ Next /\ UNCHANGED <<focus, guardVars, watchdogVars, streamVars>>
ReadsTurn == focus = "reads" /\ ReadGuardNext /\ UNCHANGED <<focus, vars, watchdogVars, streamVars>>
WatchdogTurn == focus = "watchdog" /\ WatchdogNext /\ UNCHANGED <<focus, vars, guardVars, streamVars>>
StreamTurn == focus = "stream" /\ StreamNext /\ UNCHANGED <<focus, vars, guardVars, watchdogVars>>

GuardsNext == GateTurn \/ ReadsTurn \/ WatchdogTurn \/ StreamTurn

GuardsSpec ==
  GuardsInit /\ [][GuardsNext]_<<focus, vars, guardVars, watchdogVars, streamVars>>
    /\ WF_watchdogVars(WatchdogTurn)
=============================================================================
