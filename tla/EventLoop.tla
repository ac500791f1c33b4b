----------------------------- MODULE EventLoop -----------------------------
(***************************************************************************)
(* One EventLoop::CoreData and the threads that use it: callers of         *)
(* addEvent and waitQuit, and executors inside exec.  A section of code    *)
(* that runs under LoopMutex is one step; what the code does outside it    *)
(* (the test of toExit, the notify_all, the callback) is a step of its own.*)
(*                                                                         *)
(* top() and pop() on an empty priority_queue are undefined behaviour: the *)
(* step that reaches them sets ub, and nothing is said of what follows.    *)
(***************************************************************************)
EXTENDS Integers, FiniteSets

CONSTANTS Events,           \* Event objects (slots) that can be posted
          Callers,          \* threads, or callbacks, that call addEvent or waitQuit
          Executors,        \* threads that call exec on this CoreData
          NoEvent,          \* the nullptr that e is initialised with
          MaxCalls,         \* bound on the calls of addEvent and waitQuit
          MaxDepth,         \* bound on exec called from inside a callback
          SpuriousWakeups,  \* may condition_variable::wait return unnotified
          QuitAllowed       \* is waitQuit ever called

ASSUME NoEventAssumption == NoEvent \notin Events
ASSUME ExecutorsAssumption == IsFiniteSet(Executors)
ASSUME BoundsAssumption == MaxCalls \in Nat /\ MaxDepth \in Nat
ASSUME FlagsAssumption == SpuriousWakeups \in BOOLEAN /\ QuitAllowed \in BOOLEAN

VARIABLES
  LooEvent,  \* the priority_queue: a bag, as all priorities are CUSTM_FUNC
  toExit,    \* CoreData::toExit
  caller,    \* "idle", or "notify" between the unlock (or store) and notify_all
  pc,        \* where each executor is in exec
  cur,       \* the local e of exec
  depth,     \* how many execs of this loop are below the current one
  calls,     \* calls of addEvent and waitQuit so far
  posted,    \* history: addEvent calls per event
  invoked,   \* history: InvkeCallback calls per event
  late,      \* history: events each executor took after toExit was set
  ub         \* undefined behaviour was reached

vars == <<LooEvent, toExit, caller, pc, cur, depth, calls,
          posted, invoked, late, ub>>

Stages == {"check", "lock", "waiting", "woken", "call", "running", "unwind", "done"}

TypeOK == /\ LooEvent \in [Events -> Nat]
          /\ toExit \in BOOLEAN
          /\ caller \in [Callers -> {"idle", "notify"}]
          /\ pc \in [Executors -> Stages]
          /\ cur \in [Executors -> Events \cup {NoEvent}]
          /\ depth \in [Executors -> 0..MaxDepth]
          /\ calls \in 0..MaxCalls
          /\ posted \in [Events -> Nat]
          /\ invoked \in [Events -> Nat]
          /\ late \in [Executors -> Nat]
          /\ ub \in BOOLEAN

Init == /\ LooEvent = [e \in Events |-> 0]
        /\ toExit = FALSE
        /\ caller = [c \in Callers |-> "idle"]
        /\ pc = [x \in Executors |-> "check"]
        /\ cur = [x \in Executors |-> NoEvent]
        /\ depth = [x \in Executors |-> 0]
        /\ calls = 0
        /\ posted = [e \in Events |-> 0]
        /\ invoked = [e \in Events |-> 0]
        /\ late = [x \in Executors |-> 0]
        /\ ub = FALSE

Empty == \A e \in Events : LooEvent[e] = 0
Asleep == {x \in Executors : pc[x] = "waiting"}

-----------------------------------------------------------------------------
(* addEvent and waitQuit.  Both tell the condition variable without the    *)
(* mutex: addEvent after unlocking it, waitQuit without ever taking it.    *)

CallBegins(c) == /\ caller[c] = "idle"
                 /\ calls < MaxCalls
                 /\ calls' = calls + 1
                 /\ caller' = [caller EXCEPT ![c] = "notify"]

\* An addEvent that forgets its notify_all.
AddEventUnannounced(c, e) ==
  /\ caller[c] = "idle"
  /\ calls < MaxCalls
  /\ calls' = calls + 1
  /\ LooEvent' = [LooEvent EXCEPT ![e] = @ + 1]
  /\ posted' = [posted EXCEPT ![e] = @ + 1]
  /\ UNCHANGED <<toExit, caller, pc, cur, depth, invoked, late, ub>>

\* Lock, push, unlock.
AddEvent(c, e) ==
  /\ CallBegins(c)
  /\ LooEvent' = [LooEvent EXCEPT ![e] = @ + 1]
  /\ posted' = [posted EXCEPT ![e] = @ + 1]
  /\ UNCHANGED <<toExit, pc, cur, depth, invoked, late, ub>>

WaitQuit(c) ==
  /\ QuitAllowed
  /\ CallBegins(c)
  /\ toExit' = TRUE
  /\ UNCHANGED <<LooEvent, pc, cur, depth, posted, invoked, late, ub>>

\* cond_t.notify_all(), the last statement of both.
Notify(c) ==
  /\ caller[c] = "notify"
  /\ caller' = [caller EXCEPT ![c] = "idle"]
  /\ pc' = [x \in Executors |-> IF x \in Asleep THEN "woken" ELSE pc[x]]
  /\ UNCHANGED <<LooEvent, toExit, cur, depth, calls, posted, invoked, late, ub>>

-----------------------------------------------------------------------------
(* exec *)

\* An exec that returns from a nest it is not in.
ExecCheckUnnested(x) ==
  /\ pc[x] = "check"
  /\ pc' = [pc EXCEPT ![x] = IF toExit THEN "unwind" ELSE "lock"]
  /\ depth' = IF toExit THEN [depth EXCEPT ![x] = @ - 1] ELSE depth
  /\ UNCHANGED <<LooEvent, toExit, caller, cur, calls, posted, invoked, late, ub>>

\* An exec that drains the queue before it obeys toExit.
ExecCheckDrains(x) ==
  /\ pc[x] = "check"
  /\ IF toExit /\ Empty
     THEN /\ pc' = [pc EXCEPT ![x] = IF depth[x] = 0 THEN "done" ELSE "unwind"]
          /\ depth' = [depth EXCEPT ![x] = IF @ = 0 THEN 0 ELSE @ - 1]
     ELSE /\ pc' = [pc EXCEPT ![x] = "lock"]
          /\ depth' = depth
  /\ UNCHANGED <<LooEvent, toExit, caller, cur, calls, posted, invoked, late, ub>>

\* while (!coreLoop->toExit), read without the mutex.  An exec that was
\* called from a callback returns into that callback.
ExecCheck(x) ==
  /\ pc[x] = "check"
  /\ \/ /\ ~toExit
        /\ pc' = [pc EXCEPT ![x] = "lock"]
        /\ depth' = depth
     \/ /\ toExit /\ depth[x] = 0
        /\ pc' = [pc EXCEPT ![x] = "done"]
        /\ depth' = depth
     \/ /\ toExit /\ depth[x] > 0
        /\ pc' = [pc EXCEPT ![x] = "unwind"]
        /\ depth' = [depth EXCEPT ![x] = @ - 1]
  /\ UNCHANGED <<LooEvent, toExit, caller, cur, calls, posted, invoked, late, ub>>

\* A top() without its pop().
TopOnly(x, e) ==
  /\ LooEvent[e] > 0
  /\ cur' = [cur EXCEPT ![x] = e]
  /\ pc' = [pc EXCEPT ![x] = "call"]
  /\ late' = IF toExit THEN [late EXCEPT ![x] = @ + 1] ELSE late
  /\ UNCHANGED <<LooEvent, ub>>

\* e = top(); pop(): all priorities are equal, so any waiting event may come.
PopTop(x, e) ==
  /\ LooEvent[e] > 0
  /\ LooEvent' = [LooEvent EXCEPT ![e] = @ - 1]
  /\ cur' = [cur EXCEPT ![x] = e]
  /\ pc' = [pc EXCEPT ![x] = "call"]
  /\ late' = IF toExit THEN [late EXCEPT ![x] = @ + 1] ELSE late
  /\ UNCHANGED ub

\* The mutex is taken and the queue is not empty.
ExecTake(x, e) ==
  /\ pc[x] = "lock"
  /\ PopTop(x, e)
  /\ UNCHANGED <<toExit, caller, depth, calls, posted, invoked>>

\* The queue is empty: cond_t.wait releases the mutex.
ExecWait(x) ==
  /\ pc[x] = "lock"
  /\ Empty
  /\ pc' = [pc EXCEPT ![x] = "waiting"]
  /\ UNCHANGED <<LooEvent, toExit, caller, cur, depth, calls, posted, invoked, late, ub>>

SpuriousWake(x) ==
  /\ SpuriousWakeups
  /\ pc[x] = "waiting"
  /\ pc' = [pc EXCEPT ![x] = "woken"]
  /\ UNCHANGED <<LooEvent, toExit, caller, cur, depth, calls, posted, invoked, late, ub>>

\* wait has returned with the mutex: the size is not looked at again.
ExecWoken(x) ==
  /\ pc[x] = "woken"
  /\ \/ \E e \in Events : PopTop(x, e)
     \/ /\ Empty
        /\ ub' = TRUE
        /\ UNCHANGED <<LooEvent, cur, pc, late>>
  /\ UNCHANGED <<toExit, caller, depth, calls, posted, invoked>>

\* e->InvkeCallback() begins.
ExecCall(x) ==
  /\ pc[x] = "call"
  /\ pc' = [pc EXCEPT ![x] = "running"]
  /\ invoked' = [invoked EXCEPT ![cur[x]] = @ + 1]
  /\ UNCHANGED <<LooEvent, toExit, caller, cur, depth, calls, posted, late, ub>>

\* The callback calls exec on the same loop, as Filep2p::SlotRun does.
NestedExec(x) ==
  /\ pc[x] = "running"
  /\ depth[x] < MaxDepth
  /\ depth' = [depth EXCEPT ![x] = @ + 1]
  /\ pc' = [pc EXCEPT ![x] = "check"]
  /\ UNCHANGED <<LooEvent, toExit, caller, cur, calls, posted, invoked, late, ub>>

\* A loop that tests toExit only when it is entered.
ReturnUntested(x) ==
  /\ pc[x] \in {"running", "unwind"}
  /\ pc' = [pc EXCEPT ![x] = "lock"]
  /\ UNCHANGED <<LooEvent, toExit, caller, cur, depth, calls, posted, invoked, late, ub>>

\* The callback returns to the exec that called it.
Return(x) ==
  /\ pc[x] \in {"running", "unwind"}
  /\ pc' = [pc EXCEPT ![x] = "check"]
  /\ UNCHANGED <<LooEvent, toExit, caller, cur, depth, calls, posted, invoked, late, ub>>

-----------------------------------------------------------------------------
CallerStep(c) == WaitQuit(c) \/ Notify(c) \/ \E e \in Events : AddEvent(c, e)

\* What an executor does by itself, without the help of chance.
ExecStep(x) == \/ ExecCheck(x) \/ ExecWait(x) \/ ExecWoken(x)
               \/ ExecCall(x) \/ Return(x)
               \/ \E e \in Events : ExecTake(x, e)

Next == /\ ~ub
        /\ \/ \E c \in Callers : CallerStep(c)
           \/ \E x \in Executors : ExecStep(x) \/ SpuriousWake(x) \/ NestedExec(x)

Spec == Init /\ [][Next]_vars

\* Threads are scheduled, LoopMutex is never held across a blocking call, and
\* callbacks return.  Nobody has to call addEvent or waitQuit, but who did
\* goes on to its notify_all.
Fairness == /\ \A x \in Executors : WF_vars(~ub /\ ExecStep(x))
            /\ \A c \in Callers : WF_vars(~ub /\ Notify(c))

FairSpec == Spec /\ Fairness

-----------------------------------------------------------------------------
(* Properties *)

\* An event that was posted is in the queue, or taken and about to be called,
\* or was called: exec never loses one and never calls one twice.
Taken(e) == {x \in Executors : pc[x] = "call" /\ cur[x] = e}
EventsConserved ==
  \A e \in Events : posted[e] = LooEvent[e] + Cardinality(Taken(e)) + invoked[e]

\* addEvent notifies after it has released the mutex.  Still no executor is
\* left asleep over a queue with events: while one sleeps, some caller that
\* has pushed has its notify_all yet to come.
NoLostWakeup ==
  (Asleep # {} /\ ~Empty) => \E c \in Callers : caller[c] = "notify"

\* toExit is looked at once per event, in every exec of a nest: an executor
\* takes at most one more event after waitQuit.
QuitWithinOneEvent == \A x \in Executors : late[x] <= 1

\* A waiting event always gets some executor to take an event, however
\* addEvent's late notify_all interleaves with the sleepers.
QueueNeverStalls ==
  ~Empty ~> ((\E x \in Executors : pc[x] = "call") \/ toExit \/ ub)

\* An executor that has left the mutex when waitQuit is called unwinds every
\* exec of its nest and returns from the outermost one.
QuitUnwinds ==
  \A x \in Executors :
    (toExit /\ pc[x] \in {"check", "call", "running", "unwind"})
       ~> (pc[x] = "done" \/ ub)

\* The loop implements LoopQueue: at most one call of the callback for each
\* addEvent, and calls go on until waitQuit.
Promise == INSTANCE LoopQueue WITH open <- ~toExit /\ ~ub
ImplementsLoopQueue == Promise!FairSpec

\* Refuted: exec asks an empty queue for its top although no wake-up is
\* spurious and nobody quits.  A notify_all that comes after the event it
\* announces was taken wakes the executor from its next wait.
NoEmptyTop == ~ub
=============================================================================
