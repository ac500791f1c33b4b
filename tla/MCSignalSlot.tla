--------------------------- MODULE MCSignalSlot ---------------------------
(* Instances of SignalSlot for TLC. *)
EXTENDS SignalSlot, TLC

CONSTANTS s1, s2, s3, t1, t2, l1, l2, f1

OneSlot == {s1}
TwoSlots == {s1, s2}
ThreeSlots == {s1, s2, s3}
OneThread == {t1}
TwoThreads == {t1, t2}
OneLoop == {l1}
TwoLoops == {l1, l2}

\* s1 and s2 are for the same member function, s3 is a lambda elsewhere.
MemberAndLambda == (s1 :> f1) @@ (s2 :> f1) @@ (s3 :> Lambda)
MemberAndLambdaLoops == (s1 :> l1) @@ (s2 :> l1) @@ (s3 :> l2)

\* A member function and a lambda of one loop.
OneEach == (s1 :> f1) @@ (s2 :> Lambda)
OneEachLoops == (s1 :> l1) @@ (s2 :> l1)

OneMember == s1 :> f1
OneMemberLoop == s1 :> l1
=============================================================================
