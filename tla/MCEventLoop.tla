---------------------------- MODULE MCEventLoop ----------------------------
(* Instances of EventLoop for TLC. *)
EXTENDS EventLoop

CONSTANTS e1, e2, c1, c2, x1, x2

MCEvents == {e1, e2}
OneEvent == {e1}
MCCallers == {c1, c2}
OneCaller == {c1}
MCExecutors == {x1, x2}
OneExecutor == {x1}
=============================================================================
