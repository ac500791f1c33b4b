----------------------------- MODULE LoopQueue -----------------------------
(***************************************************************************)
(* What an event loop promises to the code that posts to it: every event   *)
(* handed to EventLoop::addEvent has its InvkeCallback called at most once *)
(* per call of addEvent, and as long as the loop is open the events that   *)
(* wait keep being called.  Nothing is promised about the order, because   *)
(* the code's priority_queue has none among events of equal priority.      *)
(***************************************************************************)
EXTENDS Naturals

CONSTANT Events

VARIABLES posted,   \* how many times each event was handed to the loop
          invoked,  \* how many times each event's callback was called
          open      \* FALSE once the loop was told to quit, or has crashed

vars == <<posted, invoked, open>>

Init == /\ posted = [e \in Events |-> 0]
        /\ invoked = [e \in Events |-> 0]
        /\ open = TRUE

Post(e) == /\ posted' = [posted EXCEPT ![e] = @ + 1]
           /\ UNCHANGED <<invoked, open>>

Invoke(e) == /\ invoked[e] < posted[e]
             /\ invoked' = [invoked EXCEPT ![e] = @ + 1]
             /\ UNCHANGED <<posted, open>>

\* A loop that is closed may still call an event it has already taken.
Close == /\ open' = FALSE
         /\ UNCHANGED <<posted, invoked>>

Next == (\E e \in Events : Post(e) \/ Invoke(e)) \/ Close

Spec == Init /\ [][Next]_vars

\* The loop works on while it is open; which event it picks is its choice.
FairSpec == Spec /\ WF_vars(open /\ \E e \in Events : Invoke(e))
=============================================================================
