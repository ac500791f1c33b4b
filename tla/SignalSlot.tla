---------------------------- MODULE SignalSlot ----------------------------
(***************************************************************************)
(* One signal_ object, the Slot objects connected to it, the threads that  *)
(* connect, disconnect and emit, and the event loops the slots live in.    *)
(* The loops are LoopQueue, which EventLoop implements.                    *)
(*                                                                         *)
(* A section under signal_::lock that touches only the signal's own tables *)
(* is one step.  The asynchronous emit holds that lock over many steps,    *)
(* because it pushes into the slots' argument queues, which the loops pop  *)
(* under another lock, Event::spinLock, that the push does not take.       *)
(*                                                                         *)
(* Undefined behaviour is the sink ub: a deleted slot is used, front() is  *)
(* called on an empty queue, or a data race on args goes wrong.            *)
(***************************************************************************)
EXTENDS Integers, Sequences, FiniteSets

CONSTANTS Slots,      \* Slot objects that connect may allocate
          Threads,    \* threads, or callbacks, that use the signal
          Loops,      \* threads that execute the event loops
          LoopOf,     \* the loop of the Object each slot is connected with
          FidOf,      \* each slot's member function, or Lambda
          Lambda,     \* connected through the std::function overload
          Nobody,     \* the signal's lock is free; an actor has no slot
          MaxEmits,   \* bound on emissions
          MaySync,    \* is emit(true, ...) used
          MayCut      \* are disconnect and Clear used

Actors == Threads \cup Loops
Fids == {FidOf[s] : s \in Slots} \ {Lambda}
Emissions == [no : 1..MaxEmits, sync : BOOLEAN]

ASSUME ActorsAssumption == Threads \cap Loops = {} /\ IsFiniteSet(Actors)
ASSUME LoopOfAssumption == LoopOf \in [Slots -> Loops]
ASSUME NobodyAssumption == Nobody \notin Actors \cup Slots \cup Emissions
ASSUME MaxEmitsAssumption == MaxEmits \in Nat
ASSUME FlagsAssumption == MaySync \in BOOLEAN /\ MayCut \in BOOLEAN

VARIABLES
  lock,     \* the holder of signal_::lock, over more than one step
  status,   \* of each slot: the keys of slots and lamda_slots are "connected"
  args,     \* Slot::args
  posted, invoked,  \* the loops: events posted to them and called by them
  pc,       \* where each actor is in emit, or in exec and Invke
  cur,      \* the slot it works on
  todo,     \* the slots an emit has still to serve
  val,      \* the arguments of the emit a thread is in
  emits,    \* emissions so far
  taken,    \* history: arguments popped from each slot, in order
  target,   \* history: the slots connected when each emission took the lock
  ub        \* undefined behaviour was reached

vars == <<lock, status, args, posted, invoked, pc, cur, todo, val, emits,
          taken, target, ub>>

loopVars == <<posted, invoked>>
history == <<taken, target>>

Loop == INSTANCE LoopQueue WITH Events <- Slots, open <- ~ub

TypeOK ==
  /\ lock \in Threads \cup {Nobody}
  /\ status \in [Slots -> {"new", "connected", "replaced", "deleted"}]
  /\ args \in [Slots -> Seq(Emissions)]
  /\ posted \in [Slots -> Nat]
  /\ invoked \in [Slots -> Nat]
  /\ pc \in [Actors -> {"idle", "emit", "arg", "post", "invoke", "apply"}]
  /\ cur \in [Actors -> Slots \cup {Nobody}]
  /\ todo \in [Threads -> SUBSET Slots]
  /\ val \in [Threads -> Emissions \cup {Nobody}]
  /\ emits \in 0..MaxEmits
  /\ taken \in [Slots -> Seq(Emissions)]
  /\ target \in [1..MaxEmits -> SUBSET Slots]
  /\ ub \in BOOLEAN

Init ==
  /\ lock = Nobody
  /\ status = [s \in Slots |-> "new"]
  /\ args = [s \in Slots |-> <<>>]
  /\ posted = [s \in Slots |-> 0]
  /\ invoked = [s \in Slots |-> 0]
  /\ pc = [a \in Actors |-> "idle"]
  /\ cur = [a \in Actors |-> Nobody]
  /\ todo = [t \in Threads |-> {}]
  /\ val = [t \in Threads |-> Nobody]
  /\ emits = 0
  /\ taken = [s \in Slots |-> <<>>]
  /\ target = [n \in 1..MaxEmits |-> {}]
  /\ ub = FALSE

Connected == {s \in Slots : status[s] = "connected"}

\* The thread takes the lock now: it is idle and nobody holds it.
Enters(t) == pc[t] = "idle" /\ lock = Nobody

-----------------------------------------------------------------------------
(* connect, disconnect, Clear *)

\* slots[fid] = ... overwrites the entry of the same member function: the
\* older Slot is neither called nor deleted any more.
ConnectMember(t, s) ==
  /\ Enters(t)
  /\ status[s] = "new" /\ FidOf[s] # Lambda
  /\ status' = [r \in Slots |->
                  CASE r = s -> "connected"
                    [] r \in Connected /\ FidOf[r] = FidOf[s] -> "replaced"
                    [] OTHER -> status[r]]
  /\ UNCHANGED <<lock, args, loopVars, pc, cur, todo, val, emits, history, ub>>

\* lamda_slots.push_back: nothing is replaced.
ConnectLambda(t, s) ==
  /\ Enters(t)
  /\ status[s] = "new" /\ FidOf[s] = Lambda
  /\ status' = [status EXCEPT ![s] = "connected"]
  /\ UNCHANGED <<lock, args, loopVars, pc, cur, todo, val, emits, history, ub>>

\* delete of the slots in D, whoever still refers to them.
Delete(D) ==
  /\ status' = [s \in Slots |-> IF s \in D THEN "deleted" ELSE status[s]]
  /\ args' = [s \in Slots |-> IF s \in D THEN <<>> ELSE args[s]]

\* A disconnect that does not take the lock.
DisconnectUnlocked(t, f) ==
  /\ MayCut
  /\ pc[t] = "idle"
  /\ Delete({s \in Connected : FidOf[s] = f})
  /\ UNCHANGED <<lock, loopVars, pc, cur, todo, val, emits, history, ub>>

Disconnect(t, f) ==
  /\ MayCut
  /\ Enters(t)
  /\ Delete({s \in Connected : FidOf[s] = f})
  /\ UNCHANGED <<lock, loopVars, pc, cur, todo, val, emits, history, ub>>

\* Clear, or the destructor: every slot in either table.
Clear(t) ==
  /\ MayCut
  /\ Enters(t)
  /\ Delete(Connected)
  /\ UNCHANGED <<lock, loopVars, pc, cur, todo, val, emits, history, ub>>

-----------------------------------------------------------------------------
(* emit *)

\* Both emits begin by finding, under the lock, the slots to serve.
EmitBegins(t, sync) ==
  /\ Enters(t)
  /\ emits < MaxEmits
  /\ emits' = emits + 1
  /\ val' = [val EXCEPT ![t] = [no |-> emits + 1, sync |-> sync]]
  /\ todo' = [todo EXCEPT ![t] = Connected]
  /\ target' = [target EXCEPT ![emits + 1] = Connected]
  /\ pc' = [pc EXCEPT ![t] = "emit"]
  /\ UNCHANGED <<status, args, loopVars, cur, taken, ub>>

\* An emit that copies the slots and releases the lock, like emit(true, args).
EmitUnlocked(t) == EmitBegins(t, FALSE) /\ UNCHANGED lock

\* emit(args): the lock is kept until every slot has its event posted.
Emit(t) == EmitBegins(t, FALSE) /\ lock' = t

\* emit(true, args): the slots are copied and the lock is released.
EmitSync(t) == MaySync /\ EmitBegins(t, TRUE) /\ UNCHANGED lock

\* Actors in the middle of args.push on slot s.
Pushing(s) == {a \in Actors : pc[a] = "arg" /\ cur[a] = s}

\* args.push begins, without spinLock: two pushes at once are a data race.
AddArgBegin(t, s) ==
  /\ pc[t] = "emit"
  /\ s \in todo[t]
  /\ \/ /\ status[s] # "deleted"
        /\ todo' = [todo EXCEPT ![t] = @ \ {s}]
        /\ cur' = [cur EXCEPT ![t] = s]
        /\ pc' = [pc EXCEPT ![t] = "arg"]
        /\ UNCHANGED ub
     \/ /\ status[s] = "deleted" \/ Pushing(s) # {}
        /\ ub' = TRUE
        /\ UNCHANGED <<todo, cur, pc>>
  /\ UNCHANGED <<lock, status, args, loopVars, val, emits, history>>

\* An emit that moves its arguments into the first slot.
AddArgEndMoves(t) ==
  /\ pc[t] = "arg"
  /\ args' = [args EXCEPT ![cur[t]] = Append(@, val[t])]
  /\ val' = [val EXCEPT ![t] = Nobody]
  /\ pc' = [pc EXCEPT ![t] = IF lock = t THEN "post" ELSE "invoke"]
  /\ UNCHANGED <<lock, status, loopVars, cur, todo, emits, history, ub>>

\* args.push ends.  An asynchronous emit posts next, a synchronous one
\* calls Invke itself.
AddArgEnd(t) ==
  /\ pc[t] = "arg"
  /\ \/ /\ status[cur[t]] # "deleted"
        /\ args' = [args EXCEPT ![cur[t]] = Append(@, val[t])]
        /\ pc' = [pc EXCEPT ![t] = IF val[t].sync THEN "invoke" ELSE "post"]
        /\ UNCHANGED ub
     \/ /\ status[cur[t]] = "deleted"
        /\ ub' = TRUE
        /\ UNCHANGED <<args, pc>>
  /\ UNCHANGED <<lock, status, loopVars, cur, todo, val, emits, history>>

\* A slot that already waits in its loop is not posted again.
AddToEventLoopOnce(t) ==
  /\ pc[t] = "post"
  /\ UNCHANGED ub
  /\ IF posted[cur[t]] > invoked[cur[t]]
     THEN UNCHANGED loopVars
     ELSE Loop!Post(cur[t])
  /\ pc' = [pc EXCEPT ![t] = "emit"]
  /\ cur' = [cur EXCEPT ![t] = Nobody]
  /\ UNCHANGED <<lock, status, args, todo, val, emits, history>>

\* loop->addToEventLoop(slot)
AddToEventLoop(t) ==
  /\ pc[t] = "post"
  /\ UNCHANGED ub
  /\ Loop!Post(cur[t])
  /\ pc' = [pc EXCEPT ![t] = "emit"]
  /\ cur' = [cur EXCEPT ![t] = Nobody]
  /\ UNCHANGED <<lock, status, args, todo, val, emits, history>>

\* An emit that leaves its loop after the first slot.
EmitEndEarly(t) ==
  /\ pc[t] = "emit"
  /\ pc' = [pc EXCEPT ![t] = "idle"]
  /\ val' = [val EXCEPT ![t] = Nobody]
  /\ todo' = [todo EXCEPT ![t] = {}]
  /\ lock' = IF lock = t THEN Nobody ELSE lock
  /\ UNCHANGED <<status, args, loopVars, cur, emits, history, ub>>

EmitEnd(t) ==
  /\ pc[t] = "emit"
  /\ todo[t] = {}
  /\ pc' = [pc EXCEPT ![t] = "idle"]
  /\ val' = [val EXCEPT ![t] = Nobody]
  /\ lock' = IF lock = t THEN Nobody ELSE lock
  /\ UNCHANGED <<status, args, loopVars, cur, todo, emits, history, ub>>

-----------------------------------------------------------------------------
(* The loops, and Slot::Invke *)

\* exec of loop l takes an event of slot s and calls its InvkeCallback.
LoopInvokes(l, s) ==
  /\ pc[l] = "idle"
  /\ LoopOf[s] = l
  /\ UNCHANGED ub
  /\ Loop!Invoke(s)
  /\ cur' = [cur EXCEPT ![l] = s]
  /\ pc' = [pc EXCEPT ![l] = "invoke"]
  /\ UNCHANGED <<lock, status, args, todo, val, emits, history>>

\* A front() without its pop().
TakeFront(a) ==
  /\ pc[a] = "invoke"
  /\ LET s == cur[a] IN
       \/ /\ status[s] # "deleted" /\ args[s] # <<>>
          /\ taken' = [taken EXCEPT ![s] = Append(@, Head(args[s]))]
          /\ pc' = [pc EXCEPT ![a] = "apply"]
          /\ UNCHANGED <<args, ub>>
       \/ /\ status[s] = "deleted" \/ args[s] = <<>>
          /\ ub' = TRUE
          /\ UNCHANGED <<taken, args, pc>>
  /\ UNCHANGED <<lock, status, loopVars, cur, todo, val, emits, target>>

\* Under spinLock: front and pop.  They go wrong on a deleted slot, on an
\* empty queue, and possibly while another thread is inside addArg.
Take(a) ==
  /\ pc[a] = "invoke"
  /\ LET s == cur[a] IN
       \/ /\ status[s] # "deleted" /\ args[s] # <<>>
          /\ taken' = [taken EXCEPT ![s] = Append(@, Head(args[s]))]
          /\ args' = [args EXCEPT ![s] = Tail(@)]
          /\ pc' = [pc EXCEPT ![a] = "apply"]
          /\ UNCHANGED ub
       \/ /\ status[s] = "deleted" \/ args[s] = <<>> \/ Pushing(s) # {}
          /\ ub' = TRUE
          /\ UNCHANGED <<taken, args, pc>>
  /\ UNCHANGED <<lock, status, loopVars, cur, todo, val, emits, target>>

\* std::apply(f_, arg), without any lock: f_ belongs to the slot.  The
\* function returns, to exec or to the synchronous emit.  It may have deleted
\* its own slot: nothing of the slot is read after it returns.
Apply(a) ==
  /\ pc[a] = "apply"
  /\ \/ /\ status[cur[a]] # "deleted"
        /\ pc' = [pc EXCEPT ![a] = IF a \in Loops THEN "idle" ELSE "emit"]
        /\ cur' = [cur EXCEPT ![a] = Nobody]
        /\ UNCHANGED ub
     \/ /\ status[cur[a]] = "deleted"
        /\ ub' = TRUE
        /\ UNCHANGED <<pc, cur>>
  /\ UNCHANGED <<lock, status, args, loopVars, todo, val, emits, history>>

-----------------------------------------------------------------------------
EmitStep(t) == \/ AddArgEnd(t) \/ AddToEventLoop(t) \/ EmitEnd(t)
               \/ \E s \in Slots : AddArgBegin(t, s)

InvkeStep(a) == Take(a) \/ Apply(a)

LoopStep(l) == \E s \in Slots : LoopInvokes(l, s)

Table(t) == \/ \E s \in Slots : ConnectMember(t, s) \/ ConnectLambda(t, s)
            \/ \E f \in Fids : Disconnect(t, f)
            \/ Clear(t)

Next == /\ ~ub
        /\ \/ \E t \in Threads : Table(t) \/ Emit(t) \/ EmitSync(t) \/ EmitStep(t)
           \/ \E l \in Loops : LoopStep(l)
           \/ \E a \in Actors : InvkeStep(a)

Spec == Init /\ [][Next]_vars

\* Whoever has begun an emit or a callback is scheduled until it is through,
\* slot functions return, and the loops keep calling (LoopQueue!FairSpec).
Fairness == /\ \A t \in Threads : WF_vars(~ub /\ EmitStep(t))
            /\ \A l \in Loops : WF_vars(~ub /\ LoopStep(l))
            /\ \A a \in Actors : WF_vars(~ub /\ InvkeStep(a))

FairSpec == Spec /\ Fairness

-----------------------------------------------------------------------------
(* Properties *)

\* Invke calls front() without asking for the size.  It may: while the slot
\* lives, its queue holds one argument for every event in its loop and for
\* every thread between its addArg and its post or between its event and its
\* front(), although an Invke need not get the argument its event came with.
Owed(s) == {a \in Actors : cur[a] = s /\ pc[a] \in {"post", "invoke"}}
ArgsMatchEvents ==
  \A s \in Slots : status[s] # "deleted" =>
    Len(args[s]) = (posted[s] - invoked[s]) + Cardinality(Owed(s))

\* The asynchronous emit works on slots while it holds the signal's lock, so
\* no disconnect, Clear or replacing connect can take one away from under it.
AsyncEmitTouchesLive ==
  \A t \in Threads : lock = t =>
    /\ todo[t] \subseteq Connected
    /\ pc[t] \in {"arg", "post"} => cur[t] \in Connected

\* Arguments emitted asynchronously by any number of threads leave a slot in
\* the order in which the emits took the signal's lock, also when loops and
\* synchronous emitters pop the same queue.
TakenInEmitOrder ==
  \A s \in Slots : \A i, j \in 1..Len(taken[s]) :
    (i < j /\ ~taken[s][i].sync /\ ~taken[s][j].sync)
       => taken[s][i].no < taken[s][j].no

\* Occurrences of emission number n in a sequence of arguments.
Count(q, n) == Cardinality({i \in 1..Len(q) : q[i].no = n})
\* Threads in emission n that have slot s still to serve.
Serving(s, n) ==
  {t \in Threads : /\ val[t] # Nobody /\ val[t].no = n
                   /\ s \in todo[t] \/ (pc[t] = "arg" /\ cur[t] = s)}

\* Each emission reaches each slot that was connected when it took the lock
\* exactly once, and no other, for as long as the slot lives: later connects,
\* replacements and the racing emits of other threads change nothing.
EachEmissionOnce ==
  \A s \in Slots : status[s] # "deleted" =>
    \A n \in 1..MaxEmits :
      Count(taken[s], n) + Count(args[s], n) + Cardinality(Serving(s, n))
        = IF s \in target[n] THEN 1 ELSE 0

\* Signal and slots implement Mailbox: in order, at most once, and as long
\* as arguments wait some slot is handed its next one.
Box == INSTANCE Mailbox WITH inbox <- args, delivered <- taken, broken <- ub
ImplementsMailbox == Box!FairSpec

\* Refuted: addArg pushes without Event::spinLock, which Invke takes to pop,
\* so a thread that emits again races with the loop that handles the first.
NoArgRace ==
  \A a, b \in Actors :
    (a # b /\ cur[a] = cur[b] /\ pc[a] = "arg") => pc[b] \notin {"arg", "invoke"}
=============================================================================
