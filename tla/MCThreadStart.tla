--------------------------- MODULE MCThreadStart ---------------------------
(* Instances of ThreadStart for TLC. *)
EXTENDS ThreadStart

CONSTANTS o1, o2, i1, i2, p1

TwoObjs == {o1, o2}
OneObj == {o1}
TwoIds == {i1, i2}
OneId == {i1}
OnePoster == {p1}
NoPoster == {}
=============================================================================
