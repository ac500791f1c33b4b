------------------------------ MODULE Stream ------------------------------
(***************************************************************************)
(* What a connection promises: the bytes each end sends, numbered from 1,  *)
(* reach the application of the other end in order and each at most once,  *)
(* without a gap as long as the sender's stream is whole.                  *)
(***************************************************************************)
EXTENDS Integers, Sequences

CONSTANT Ends

VARIABLES sent,  \* how many bytes each end has been given to send
          got,   \* the bytes each end's application has taken
          cut    \* ends whose stream has lost bytes of its middle

vars == <<sent, got, cut>>

Peer(e) == CHOOSE f \in Ends : f # e

Init == /\ sent = [e \in Ends |-> 0]
        /\ got = [e \in Ends |-> <<>>]
        /\ cut = [e \in Ends |-> FALSE]

Send(e) == /\ sent' \in [Ends -> Nat] /\ sent'[e] >= sent[e]
           /\ \A f \in Ends \ {e} : sent'[f] = sent[f]
           /\ UNCHANGED <<got, cut>>

\* The bytes of s are later than those before them, and none was never sent.
Legal(s, n, whole) ==
  /\ \A i, j \in 1..Len(s) : i < j => s[i] < s[j]
  /\ \A i \in 1..Len(s) : s[i] \in 1..n
  /\ whole => \A i \in 1..Len(s) : s[i] = i

Take(e) == /\ Len(got'[e]) >= Len(got[e])
           /\ \A i \in 1..Len(got[e]) : got'[e][i] = got[e][i]
           /\ Legal(got'[e], sent[Peer(e)], ~cut[Peer(e)])
           /\ \A f \in Ends \ {e} : got'[f] = got[f]
           /\ UNCHANGED <<sent, cut>>

Cut(e) == /\ cut' = [cut EXCEPT ![e] = TRUE]
          /\ UNCHANGED <<sent, got>>

Next == \E e \in Ends : Send(e) \/ Take(e) \/ Cut(e)

Spec == Init /\ [][Next]_vars
=============================================================================
