------------------------- MODULE EventLoop_proofs -------------------------
(***************************************************************************)
(* Safety of EventLoop for any events, callers, executors and bounds.      *)
(* TypeOK and three facts about the program counters are inductive; the    *)
(* properties of EventLoop and the refinement of LoopQueue follow.         *)
(***************************************************************************)
EXTENDS EventLoop, FiniteSetTheorems, TLAPS

\* An executor about to call InvkeCallback has an event to call it on.
CallsAnEvent == \A x \in Executors : pc[x] = "call" => cur[x] \in Events

\* The event taken after waitQuit was the last: the executor is on its way out.
LateIsLast ==
  \A x \in Executors :
    \/ late[x] = 0
    \/ /\ late[x] = 1
       /\ toExit
       /\ pc[x] \in {"call", "running", "check", "unwind", "done"}

EInv == TypeOK /\ CallsAnEvent /\ EventsConserved /\ NoLostWakeup /\ LateIsLast

-----------------------------------------------------------------------------
\* Every step leaves the variables in their types: calls stay within their
\* bound, depth counts the nested execs, and a taken event is an event.
LEMMA Typing == TypeOK /\ CallsAnEvent /\ [Next]_vars => TypeOK' /\ CallsAnEvent'
<1> SUFFICES ASSUME TypeOK, CallsAnEvent, [Next]_vars
             PROVE  TypeOK' /\ CallsAnEvent'
  OBVIOUS
<1> USE BoundsAssumption, NoEventAssumption DEF TypeOK, Stages, CallsAnEvent
<1>1. ASSUME NEW c \in Callers, NEW e \in Events, AddEvent(c, e)
      PROVE  TypeOK' /\ CallsAnEvent'
  BY <1>1 DEF AddEvent, CallBegins
<1>2. ASSUME NEW c \in Callers, WaitQuit(c)
      PROVE  TypeOK' /\ CallsAnEvent'
  BY <1>2 DEF WaitQuit, CallBegins
<1>3. ASSUME NEW c \in Callers, Notify(c)
      PROVE  TypeOK' /\ CallsAnEvent'
  BY <1>3 DEF Notify, Asleep
<1>4. ASSUME NEW x \in Executors, ExecCheck(x)
      PROVE  TypeOK' /\ CallsAnEvent'
  BY <1>4 DEF ExecCheck
<1>5. ASSUME NEW x \in Executors, NEW e \in Events, PopTop(x, e),
             UNCHANGED <<toExit, caller, depth, calls, posted, invoked>>
      PROVE  TypeOK' /\ CallsAnEvent'
  BY <1>5 DEF PopTop
<1>6. ASSUME NEW x \in Executors, ExecWait(x) \/ SpuriousWake(x)
      PROVE  TypeOK' /\ CallsAnEvent'
  BY <1>6 DEF ExecWait, SpuriousWake
<1>7. ASSUME NEW x \in Executors, ExecWoken(x)
      PROVE  TypeOK' /\ CallsAnEvent'
  <2>1. CASE Empty /\ ub' = TRUE /\ UNCHANGED <<LooEvent, cur, pc, late>>
    BY <1>7, <2>1 DEF ExecWoken
  <2>2. CASE \E e \in Events : PopTop(x, e)
    BY <1>5, <1>7, <2>2 DEF ExecWoken
  <2> QED BY <1>7, <2>1, <2>2 DEF ExecWoken
<1>8. ASSUME NEW x \in Executors, ExecCall(x)
      PROVE  TypeOK' /\ CallsAnEvent'
  BY <1>8 DEF ExecCall
<1>9. ASSUME NEW x \in Executors, NestedExec(x)
      PROVE  TypeOK' /\ CallsAnEvent'
  BY <1>9 DEF NestedExec
<1>10. ASSUME NEW x \in Executors, Return(x)
       PROVE  TypeOK' /\ CallsAnEvent'
  BY <1>10 DEF Return
<1>11. ASSUME NEW x \in Executors, NEW e \in Events, ExecTake(x, e)
       PROVE  TypeOK' /\ CallsAnEvent'
  BY <1>5, <1>11 DEF ExecTake
<1>12. CASE UNCHANGED vars
  BY <1>12 DEF vars
<1> QED
  BY <1>1, <1>2, <1>3, <1>4, <1>6, <1>7, <1>8, <1>9, <1>10, <1>11, <1>12
  DEF Next, CallerStep, ExecStep

-----------------------------------------------------------------------------
(* Counting the executors that have taken an event and not yet called it.  *)

LEMMA TakenFinite == \A e : IsFiniteSet(Taken(e)) /\ Cardinality(Taken(e)) \in Nat
  BY ExecutorsAssumption, FS_Subset, FS_CardinalityType DEF Taken

\* An executor that takes an event adds itself to those that hold it.
LEMMA TakenGrows ==
  ASSUME TypeOK, NEW x \in Executors, NEW e \in Events, PopTop(x, e), pc[x] # "call"
  PROVE  /\ Cardinality(Taken(e)') = Cardinality(Taken(e)) + 1
         /\ \A f \in Events \ {e} : Taken(f)' = Taken(f)
<1>1. Taken(e)' = Taken(e) \cup {x} /\ x \notin Taken(e)
  BY DEF Taken, PopTop, TypeOK
<1>2. \A f \in Events \ {e} : Taken(f)' = Taken(f)
  BY DEF Taken, PopTop, TypeOK
<1> QED BY <1>1, <1>2, TakenFinite, FS_AddElement

\* An executor that calls its event removes itself from those that hold it.
LEMMA TakenShrinks ==
  ASSUME TypeOK, NEW x \in Executors, NEW e \in Events, cur[x] = e, ExecCall(x)
  PROVE  /\ Cardinality(Taken(e)) >= 1
         /\ Cardinality(Taken(e)') = Cardinality(Taken(e)) - 1
         /\ \A f \in Events \ {e} : Taken(f)' = Taken(f)
<1>1. Taken(e)' = Taken(e) \ {x} /\ x \in Taken(e)
  BY DEF Taken, ExecCall, TypeOK
<1>2. \A f \in Events \ {e} : Taken(f)' = Taken(f)
  BY DEF Taken, ExecCall, TypeOK
<1>3. Cardinality(Taken(e)) # 0
  BY <1>1, TakenFinite, FS_EmptySet
<1>4. Cardinality(Taken(e)') = Cardinality(Taken(e)) - 1
  BY <1>1, TakenFinite, FS_RemoveElement
<1> QED BY <1>2, <1>3, <1>4, TakenFinite

\* No step loses a posted event, and none calls one that was not posted.
LEMMA ConservedStep ==
  ASSUME TypeOK, CallsAnEvent, EventsConserved, [Next]_vars
  PROVE  EventsConserved'
<1> USE DEF EventsConserved
<1>1. ASSUME UNCHANGED <<LooEvent, posted, invoked>>, \A f \in Events : Taken(f)' = Taken(f)
      PROVE  EventsConserved'
  BY <1>1
<1>2. ASSUME NEW c \in Callers, NEW e \in Events, AddEvent(c, e)
      PROVE  EventsConserved'
  <2>1. \A f : Taken(f)' = Taken(f)
    BY <1>2 DEF AddEvent, Taken
  <2> QED BY <1>2, <2>1, TakenFinite DEF AddEvent, TypeOK
<1>3. ASSUME NEW c \in Callers, WaitQuit(c) \/ Notify(c)
      PROVE  EventsConserved'
  <2>1. \A f : Taken(f)' = Taken(f)
    BY <1>3 DEF WaitQuit, Notify, Asleep, Taken, TypeOK
  <2> QED BY <1>1, <1>3, <2>1 DEF WaitQuit, Notify
<1>4. ASSUME NEW x \in Executors, NEW e \in Events, PopTop(x, e), pc[x] # "call",
             UNCHANGED <<posted, invoked>>
      PROVE  EventsConserved'
  <2>1. LooEvent[e] > 0 /\ LooEvent' = [LooEvent EXCEPT ![e] = @ - 1]
    BY <1>4 DEF PopTop
  <2>2. Cardinality(Taken(e)') = Cardinality(Taken(e)) + 1
    BY <1>4, TakenGrows
  <2>3. \A f \in Events \ {e} : Taken(f)' = Taken(f)
    BY <1>4, TakenGrows
  <2>4. posted'[e] = LooEvent'[e] + Cardinality(Taken(e)') + invoked'[e]
    BY <1>4, <2>1, <2>2, TakenFinite DEF TypeOK
  <2>5. \A f \in Events \ {e} : posted'[f] = LooEvent'[f] + Cardinality(Taken(f)') + invoked'[f]
    BY <1>4, <2>1, <2>3 DEF TypeOK
  <2> QED BY <2>4, <2>5
<1>5. ASSUME NEW x \in Executors,
             ExecCheck(x) \/ ExecWait(x) \/ SpuriousWake(x) \/ NestedExec(x) \/ Return(x)
      PROVE  EventsConserved'
  <2>1. \A f : Taken(f)' = Taken(f)
    BY <1>5 DEF ExecCheck, ExecWait, SpuriousWake, NestedExec, Return, Taken, TypeOK
  <2> QED
    BY <1>1, <1>5, <2>1 DEF ExecCheck, ExecWait, SpuriousWake, NestedExec, Return
<1>6. ASSUME NEW x \in Executors, NEW e \in Events, ExecTake(x, e)
      PROVE  EventsConserved'
  BY <1>4, <1>6 DEF ExecTake
<1>7. ASSUME NEW x \in Executors, ExecWoken(x)
      PROVE  EventsConserved'
  <2>1. CASE \E e \in Events : PopTop(x, e)
    BY <1>4, <1>7, <2>1 DEF ExecWoken
  <2>2. CASE UNCHANGED <<LooEvent, cur, pc, late>>
    <3>1. \A f : Taken(f)' = Taken(f)
      BY <2>2 DEF Taken
    <3> QED BY <1>1, <1>7, <2>2, <3>1 DEF ExecWoken
  <2> QED BY <1>7, <2>1, <2>2 DEF ExecWoken
<1>8. ASSUME NEW x \in Executors, ExecCall(x)
      PROVE  EventsConserved'
  <2> PICK e \in Events : cur[x] = e
    BY <1>8 DEF ExecCall, CallsAnEvent
  <2>1. /\ Cardinality(Taken(e)') = Cardinality(Taken(e)) - 1
        /\ \A f \in Events \ {e} : Taken(f)' = Taken(f)
    BY <1>8, TakenShrinks
  <2>2. UNCHANGED <<LooEvent, posted>> /\ invoked' = [invoked EXCEPT ![e] = @ + 1]
    BY <1>8 DEF ExecCall
  <2>3. posted'[e] = LooEvent'[e] + Cardinality(Taken(e)') + invoked'[e]
    BY <2>1, <2>2, TakenFinite DEF TypeOK
  <2>4. \A f \in Events \ {e} : posted'[f] = LooEvent'[f] + Cardinality(Taken(f)') + invoked'[f]
    BY <2>1, <2>2 DEF TypeOK
  <2> QED BY <2>3, <2>4
<1>9. CASE UNCHANGED vars
  <2>1. \A f : Taken(f)' = Taken(f)
    BY <1>9 DEF vars, Taken
  <2> QED BY <1>1, <1>9, <2>1 DEF vars
<1> QED
  BY <1>2, <1>3, <1>5, <1>6, <1>7, <1>8, <1>9 DEF Next, CallerStep, ExecStep

-----------------------------------------------------------------------------
\* A step that leaves an executor asleep over a filled queue leaves a caller
\* before its notify_all: only addEvent fills the queue, and only a look at
\* an empty queue puts an executor to sleep.
LEMMA NoLostWakeupStep ==
  ASSUME TypeOK, NoLostWakeup, [Next]_vars
  PROVE  NoLostWakeup'
<1> USE DEF NoLostWakeup, TypeOK, Asleep, Empty
<1>1. ASSUME NEW c \in Callers, CallerStep(c)
      PROVE  NoLostWakeup'
  BY <1>1 DEF CallerStep, AddEvent, WaitQuit, Notify, CallBegins
<1>2. ASSUME NEW x \in Executors, NEW e \in Events, PopTop(x, e), UNCHANGED caller
      PROVE  NoLostWakeup'
  BY <1>2 DEF PopTop
<1>3. ASSUME NEW x \in Executors, ExecWoken(x)
      PROVE  NoLostWakeup'
  BY <1>2, <1>3 DEF ExecWoken
<1>4. ASSUME NEW x \in Executors,
             ExecCheck(x) \/ ExecWait(x) \/ SpuriousWake(x) \/ ExecCall(x)
               \/ NestedExec(x) \/ Return(x)
      PROVE  NoLostWakeup'
  BY <1>4 DEF ExecCheck, ExecWait, SpuriousWake, ExecCall, NestedExec, Return
<1>5. ASSUME NEW x \in Executors, NEW e \in Events, ExecTake(x, e)
      PROVE  NoLostWakeup'
  BY <1>2, <1>5 DEF ExecTake
<1>6. CASE UNCHANGED vars
  BY <1>6 DEF vars
<1> QED BY <1>1, <1>3, <1>4, <1>5, <1>6 DEF Next, ExecStep

\* After waitQuit an executor that has taken an event has passed its last
\* test of toExit with FALSE: the next test ends its exec.
LEMMA LateStep ==
  ASSUME TypeOK, LateIsLast, [Next]_vars
  PROVE  LateIsLast'
<1> USE DEF LateIsLast, TypeOK
<1>1. ASSUME NEW c \in Callers, CallerStep(c)
      PROVE  LateIsLast'
  BY <1>1 DEF CallerStep, AddEvent, WaitQuit, Notify, CallBegins, Asleep
<1>2. ASSUME NEW x \in Executors, NEW e \in Events, PopTop(x, e),
             pc[x] \in {"lock", "woken"}, UNCHANGED toExit
      PROVE  LateIsLast'
  BY <1>2 DEF PopTop
<1>3. ASSUME NEW x \in Executors, ExecWoken(x)
      PROVE  LateIsLast'
  BY <1>2, <1>3 DEF ExecWoken
<1>4. ASSUME NEW x \in Executors,
             ExecCheck(x) \/ ExecWait(x) \/ SpuriousWake(x) \/ ExecCall(x)
               \/ NestedExec(x) \/ Return(x)
      PROVE  LateIsLast'
  BY <1>4 DEF ExecCheck, ExecWait, SpuriousWake, ExecCall, NestedExec, Return
<1>5. ASSUME NEW x \in Executors, NEW e \in Events, ExecTake(x, e)
      PROVE  LateIsLast'
  BY <1>2, <1>5 DEF ExecTake
<1>6. CASE UNCHANGED vars
  BY <1>6 DEF vars
<1> QED BY <1>1, <1>3, <1>4, <1>5, <1>6 DEF Next, ExecStep

-----------------------------------------------------------------------------
LEMMA InitEInv == Init => EInv
<1> SUFFICES ASSUME Init PROVE EInv
  OBVIOUS
<1>1. \A e : Taken(e) = {}
  BY DEF Init, Taken
<1>2. Cardinality({}) = 0
  BY FS_EmptySet
<1>3. EventsConserved
  BY <1>1, <1>2 DEF Init, EventsConserved
<1>4. TypeOK
  <2>1. 0 \in 0..MaxDepth /\ 0 \in 0..MaxCalls /\ 0 \in Nat
    BY BoundsAssumption
  <2> QED BY <2>1, Zenon DEF Init, TypeOK, Stages
<1>5. CallsAnEvent /\ LateIsLast
  BY DEF Init, CallsAnEvent, LateIsLast
<1>6. NoLostWakeup
  BY DEF Init, NoLostWakeup, Empty
<1> QED BY <1>3, <1>4, <1>5, <1>6 DEF EInv

LEMMA NextEInv == EInv /\ [Next]_vars => EInv'
  BY Typing, ConservedStep, NoLostWakeupStep, LateStep DEF EInv

\* The inductive invariant of the loop.
THEOREM Invariance == Spec => []EInv
  BY InitEInv, NextEInv, PTL DEF Spec

\* The variables keep their types.
THEOREM TypeCorrect == Spec => []TypeOK
<1>1. EInv => TypeOK
  BY DEF EInv
<1> QED BY <1>1, Invariance, PTL

\* exec never loses an event that addEvent pushed and never calls one twice,
\* whatever the number of threads that post to the loop and execute it.
THEOREM Conservation == Spec => []EventsConserved
<1>1. EInv => EventsConserved
  BY DEF EInv
<1> QED BY <1>1, Invariance, PTL

\* Notifying after the unlock leaves nobody asleep over a filled queue.
THEOREM WakeupsReachSleepers == Spec => []NoLostWakeup
<1>1. EInv => NoLostWakeup
  BY DEF EInv
<1> QED BY <1>1, Invariance, PTL

\* An executor takes at most one event after waitQuit, at any nesting of exec.
THEOREM QuitIsPrompt == Spec => []QuitWithinOneEvent
<1>1. EInv => QuitWithinOneEvent
  BY DEF EInv, TypeOK, LateIsLast, QuitWithinOneEvent
<1> QED BY <1>1, Invariance, PTL

-----------------------------------------------------------------------------
\* Every step of the loop posts, calls or closes in LoopQueue, or is none of
\* its business: the callback is called at most once for each addEvent.
THEOREM Refinement == Spec => Promise!Spec
<1>1. Init => Promise!Init
  BY DEF Init, Promise!Init
<1>2. EInv /\ [Next]_vars => [Promise!Next]_(Promise!vars)
  <2> SUFFICES ASSUME EInv, [Next]_vars
               PROVE  [Promise!Next]_(Promise!vars)
    OBVIOUS
  <2> USE DEF Promise!vars
  <2>1. ASSUME NEW c \in Callers, NEW e \in Events, AddEvent(c, e)
        PROVE  Promise!Next
    BY <2>1 DEF AddEvent, Promise!Next, Promise!Post
  <2>2. ASSUME NEW c \in Callers, WaitQuit(c)
        PROVE  Promise!Next
    BY <2>2 DEF WaitQuit, Promise!Next, Promise!Close
  <2>3. ASSUME NEW x \in Executors, ExecCall(x)
        PROVE  Promise!Next
    <3> PICK e \in Events : cur[x] = e
      BY <2>3 DEF ExecCall, EInv, CallsAnEvent
    <3>1. Cardinality(Taken(e)) >= 1
      BY <2>3, TakenShrinks DEF EInv
    <3>2. invoked[e] < posted[e]
      BY <3>1, TakenFinite DEF EInv, EventsConserved, TypeOK
    <3> QED BY <2>3, <3>2 DEF ExecCall, Promise!Next, Promise!Invoke
  <2>4. ASSUME NEW x \in Executors, ExecWoken(x)
        PROVE  Promise!Next \/ UNCHANGED Promise!vars
    BY <2>4 DEF ExecWoken, PopTop, Promise!Next, Promise!Close
  <2>5. ASSUME NEW x \in Executors,
               ExecCheck(x) \/ ExecWait(x) \/ SpuriousWake(x) \/ NestedExec(x)
                 \/ Return(x) \/ \E e \in Events : ExecTake(x, e)
        PROVE  UNCHANGED Promise!vars
    BY <2>5 DEF ExecCheck, ExecWait, SpuriousWake, NestedExec, Return, ExecTake, PopTop
  <2>6. ASSUME NEW c \in Callers, Notify(c)
        PROVE  UNCHANGED Promise!vars
    BY <2>6 DEF Notify
  <2>7. CASE UNCHANGED vars
    BY <2>7 DEF vars
  <2> QED
    BY <2>1, <2>2, <2>3, <2>4, <2>5, <2>6, <2>7 DEF Next, CallerStep, ExecStep
<1> QED BY <1>1, <1>2, Invariance, PTL DEF Spec, Promise!Spec
=============================================================================
