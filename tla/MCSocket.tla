------------------------------ MODULE MCSocket ------------------------------
(* Instances of Socket for TLC. *)
EXTENDS Socket, TLC

CONSTANTS c, s

BothEnds == {c, s}
OneAndTwo == {1, 2}
ThreeAndTwo == (c :> 3) @@ (s :> 2)
=============================================================================
