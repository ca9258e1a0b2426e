----------------------------- MODULE MCToolGate -----------------------------
(* Instances of ToolGate for TLC.                                           *)
EXTENDS ToolGate, TLC

CONSTANTS t1, t2, k1, k2

(* Two tools, one of which claims keys.                                     *)
OneSideEffect == {t1}
=============================================================================
