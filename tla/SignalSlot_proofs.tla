------------------------- MODULE SignalSlot_proofs -------------------------
(***************************************************************************)
(* Safety of SignalSlot for any slots, threads, loops and number of        *)
(* emissions: the types, the account of arguments and events that makes    *)
(* front() safe, and the protection an asynchronous emit has.              *)
(***************************************************************************)
EXTENDS SignalSlot, FiniteSetTheorems, TLAPS

\* A thread in an emit has arguments, and who works on a slot has that slot.
InEmit ==
  /\ \A t \in Threads : pc[t] \in {"emit", "arg", "post"} => val[t] \in Emissions
  /\ \A a \in Actors : pc[a] \in {"arg", "post", "invoke", "apply"} => cur[a] \in Slots
  /\ \A l \in Loops : pc[l] \in {"idle", "invoke", "apply"}
  /\ \A t \in Threads : pc[t] \in {"invoke", "apply"} => val[t] \in Emissions

Typed == TypeOK /\ InEmit

LEMMA InitTyped == Init => Typed
<1> SUFFICES ASSUME Init PROVE Typed
  OBVIOUS
<1>1. 0 \in 0..MaxEmits /\ 0 \in Nat
  BY MaxEmitsAssumption
<1>2. <<>> \in Seq(Emissions)
  OBVIOUS
<1>3. TypeOK
  BY <1>1, <1>2, Zenon DEF Init, TypeOK
<1>4. InEmit
  BY DEF Init, InEmit, Actors
<1> QED BY <1>3, <1>4 DEF Typed

-----------------------------------------------------------------------------
\* Every step of the signal and of the loops keeps the variables' types.
LEMMA TypedStep == Typed /\ [Next]_vars => Typed'
<1> SUFFICES ASSUME Typed, [Next]_vars
             PROVE  Typed'
  OBVIOUS
<1> USE MaxEmitsAssumption, ActorsAssumption, NobodyAssumption, LoopOfAssumption
    DEF Typed, TypeOK, InEmit, Actors, loopVars, history
<1>1. ASSUME NEW t \in Threads, Table(t)
      PROVE  Typed'
  <2>1. status' \in [Slots -> {"new", "connected", "replaced", "deleted"}]
    <3>1. ASSUME NEW s \in Slots, ConnectMember(t, s)
          PROVE  status' \in [Slots -> {"new", "connected", "replaced", "deleted"}]
      BY <3>1 DEF ConnectMember
    <3>2. ASSUME NEW s \in Slots, ConnectLambda(t, s)
          PROVE  status' \in [Slots -> {"new", "connected", "replaced", "deleted"}]
      BY <3>2 DEF ConnectLambda
    <3>3. ASSUME NEW D, Delete(D)
          PROVE  status' \in [Slots -> {"new", "connected", "replaced", "deleted"}]
      BY <3>3 DEF Delete
    <3> QED BY <1>1, <3>1, <3>2, <3>3 DEF Table, Disconnect, Clear
  <2>2. args' \in [Slots -> Seq(Emissions)]
    <3>1. ASSUME NEW D, Delete(D)
          PROVE  args' \in [Slots -> Seq(Emissions)]
      <4>1. <<>> \in Seq(Emissions)
        OBVIOUS
      <4> QED BY <3>1, <4>1 DEF Delete
    <3> QED BY <1>1, <3>1 DEF Table, ConnectMember, ConnectLambda, Disconnect, Clear
  <2>3. UNCHANGED <<lock, loopVars, pc, cur, todo, val, emits, history, ub>>
    BY <1>1 DEF Table, ConnectMember, ConnectLambda, Disconnect, Clear
  <2> QED BY <2>1, <2>2, <2>3
<1>2. ASSUME NEW t \in Threads, Emit(t) \/ EmitSync(t)
      PROVE  Typed'
  <2>1. PICK sync \in BOOLEAN : EmitBegins(t, sync)
    BY <1>2 DEF Emit, EmitSync
  <2>2. emits + 1 \in 1..MaxEmits /\ emits' = emits + 1
    BY <2>1 DEF EmitBegins
  <2>3. [no |-> emits + 1, sync |-> sync] \in Emissions
    BY <2>2 DEF Emissions
  <2>4. val' = [val EXCEPT ![t] = [no |-> emits + 1, sync |-> sync]]
    BY <2>1 DEF EmitBegins
  <2>5. val' \in [Threads -> Emissions \cup {Nobody}] /\ val'[t] \in Emissions
    BY <2>3, <2>4
  <2>6. /\ todo' = [todo EXCEPT ![t] = Connected]
        /\ target' = [target EXCEPT ![emits + 1] = Connected]
        /\ pc' = [pc EXCEPT ![t] = "emit"]
        /\ UNCHANGED <<status, args, loopVars, cur, taken, ub>>
    BY <2>1 DEF EmitBegins
  <2>7. lock' \in Threads \cup {Nobody}
    BY <1>2 DEF Emit, EmitSync
  <2>8. Connected \subseteq Slots
    BY DEF Connected
  <2>9. TypeOK'
    BY <2>2, <2>5, <2>6, <2>7, <2>8
  <2>10. InEmit'
    BY <2>4, <2>5, <2>6
  <2> QED BY <2>9, <2>10
<1>3. ASSUME NEW t \in Threads, NEW s \in Slots, AddArgBegin(t, s)
      PROVE  Typed'
  <2>1. CASE /\ todo' = [todo EXCEPT ![t] = @ \ {s}]
             /\ cur' = [cur EXCEPT ![t] = s]
             /\ pc' = [pc EXCEPT ![t] = "arg"]
             /\ UNCHANGED ub
    <3>1. TypeOK'
      BY <1>3, <2>1 DEF AddArgBegin
    <3>2. InEmit'
      BY <1>3, <2>1 DEF AddArgBegin
    <3> QED BY <3>1, <3>2
  <2>2. CASE ub' = TRUE /\ UNCHANGED <<todo, cur, pc>>
    BY <1>3, <2>2 DEF AddArgBegin
  <2> QED BY <1>3, <2>1, <2>2 DEF AddArgBegin
<1>4. ASSUME NEW t \in Threads, AddArgEnd(t)
      PROVE  Typed'
  <2>1. cur[t] \in Slots /\ val[t] \in Emissions
    BY <1>4 DEF AddArgEnd
  <2>2. Append(args[cur[t]], val[t]) \in Seq(Emissions)
    BY <2>1
  <2>3. UNCHANGED <<lock, status, loopVars, cur, todo, val, emits, history>>
    BY <1>4 DEF AddArgEnd
  <2>4. CASE /\ args' = [args EXCEPT ![cur[t]] = Append(@, val[t])]
             /\ pc' = [pc EXCEPT ![t] = IF val[t].sync THEN "invoke" ELSE "post"]
             /\ UNCHANGED ub
    <3>1. args' \in [Slots -> Seq(Emissions)]
      BY <2>2, <2>4
    <3>2. pc'[t] \in {"invoke", "post"} /\ \A a \in Actors \ {t} : pc'[a] = pc[a]
      BY <2>4
    <3>3. pc' \in [Actors -> {"idle", "emit", "arg", "post", "invoke", "apply"}]
      BY <2>4
    <3>4. TypeOK'
      BY <2>3, <2>4, <3>1, <3>3
    <3>5. InEmit'
      BY <2>1, <2>3, <3>2, <3>3
    <3> QED BY <3>4, <3>5
  <2>5. CASE ub' = TRUE /\ UNCHANGED <<args, pc>>
    BY <2>3, <2>5
  <2> QED BY <1>4, <2>4, <2>5 DEF AddArgEnd
<1>5. ASSUME NEW t \in Threads, AddToEventLoop(t)
      PROVE  Typed'
  BY <1>5 DEF AddToEventLoop, Loop!Post
<1>6. ASSUME NEW t \in Threads, EmitEnd(t)
      PROVE  Typed'
  BY <1>6 DEF EmitEnd
<1>7. ASSUME NEW l \in Loops, NEW s \in Slots, LoopInvokes(l, s)
      PROVE  Typed'
  BY <1>7 DEF LoopInvokes, Loop!Invoke
<1>8. ASSUME NEW a \in Actors, Take(a)
      PROVE  Typed'
  <2>1. cur[a] \in Slots
    BY <1>8 DEF Take
  <2>2. CASE /\ args[cur[a]] # <<>>
             /\ taken' = [taken EXCEPT ![cur[a]] = Append(@, Head(args[cur[a]]))]
             /\ args' = [args EXCEPT ![cur[a]] = Tail(@)]
             /\ pc' = [pc EXCEPT ![a] = "apply"]
             /\ UNCHANGED ub
    <3>1. /\ Head(args[cur[a]]) \in Emissions
          /\ Tail(args[cur[a]]) \in Seq(Emissions)
      BY <2>1, <2>2
    <3>2. Append(taken[cur[a]], Head(args[cur[a]])) \in Seq(Emissions)
      BY <2>1, <3>1
    <3>3. UNCHANGED <<lock, status, loopVars, cur, todo, val, emits, target>>
      BY <1>8 DEF Take
    <3>4. taken' \in [Slots -> Seq(Emissions)] /\ args' \in [Slots -> Seq(Emissions)]
      BY <2>1, <2>2, <3>1, <3>2
    <3>5. TypeOK'
      BY <2>2, <3>3, <3>4
    <3>6. InEmit'
      BY <1>8, <2>2, <3>3 DEF Take
    <3> QED BY <3>5, <3>6
  <2>3. CASE ub' = TRUE /\ UNCHANGED <<taken, args, pc>>
    BY <1>8, <2>3 DEF Take
  <2> QED BY <1>8, <2>2, <2>3 DEF Take
<1>9. ASSUME NEW a \in Actors, Apply(a)
      PROVE  Typed'
  BY <1>9 DEF Apply
<1>10. CASE UNCHANGED vars
  BY <1>10 DEF vars
<1> QED
  BY <1>1, <1>2, <1>3, <1>4, <1>5, <1>6, <1>7, <1>8, <1>9, <1>10
  DEF Next, EmitStep, LoopStep, InvkeStep

-----------------------------------------------------------------------------
(* Who holds the lock.                                                     *)

\* A thread in an emit holds the signal's lock if and only if the emit is
\* asynchronous; only that one posts, only the synchronous one invokes.
Modes ==
  \A t \in Threads :
    /\ pc[t] = "idle" => lock # t
    /\ pc[t] # "idle" => (lock = t <=> ~val[t].sync)
    /\ pc[t] = "post" => ~val[t].sync
    /\ pc[t] \in {"invoke", "apply"} => val[t].sync

\* One actor moves: its pc and cur may change, those of the others do not.
Moves(a) == \A b \in Actors \ {a} : pc'[b] = pc[b] /\ cur'[b] = cur[b]

LEMMA ModesStep ==
  ASSUME Typed, Modes, [Next]_vars
  PROVE  Modes'
<1> USE NobodyAssumption, ActorsAssumption DEF Modes, Typed, TypeOK, Actors
<1>1. ASSUME NEW t \in Threads, Table(t)
      PROVE  Modes'
  BY <1>1 DEF Table, ConnectMember, ConnectLambda, Disconnect, Clear
<1>2. ASSUME NEW t \in Threads, Emit(t)
      PROVE  Modes'
  BY <1>2 DEF Emit, EmitBegins, Enters
<1>3. ASSUME NEW t \in Threads, EmitSync(t)
      PROVE  Modes'
  BY <1>3 DEF EmitSync, EmitBegins, Enters
<1>4. ASSUME NEW t \in Threads, NEW s \in Slots, AddArgBegin(t, s)
      PROVE  Modes'
  BY <1>4 DEF AddArgBegin
<1>5. ASSUME NEW t \in Threads, AddArgEnd(t)
      PROVE  Modes'
  BY <1>5 DEF AddArgEnd
<1>6. ASSUME NEW t \in Threads, AddToEventLoop(t)
      PROVE  Modes'
  BY <1>6 DEF AddToEventLoop
<1>7. ASSUME NEW t \in Threads, EmitEnd(t)
      PROVE  Modes'
  BY <1>7 DEF EmitEnd
<1>8. ASSUME NEW l \in Loops, NEW s \in Slots, LoopInvokes(l, s)
      PROVE  Modes'
  BY <1>8 DEF LoopInvokes
<1>9. ASSUME NEW a \in Actors, Take(a)
      PROVE  Modes'
  BY <1>9 DEF Take
<1>10. ASSUME NEW a \in Actors, Apply(a)
       PROVE  Modes'
  BY <1>10 DEF Apply
<1>11. CASE UNCHANGED vars
  BY <1>11 DEF vars
<1> QED
  BY <1>1, <1>2, <1>3, <1>4, <1>5, <1>6, <1>7, <1>8, <1>9, <1>10, <1>11
  DEF Next, EmitStep, LoopStep, InvkeStep

\* While a thread holds the lock over several steps no table changes, so the
\* slots it found are still connected when it comes to them.
LEMMA LiveStep ==
  ASSUME Typed, Modes, AsyncEmitTouchesLive, [Next]_vars
  PROVE  AsyncEmitTouchesLive'
<1> USE NobodyAssumption, ActorsAssumption
    DEF AsyncEmitTouchesLive, Modes, Typed, TypeOK, InEmit, Actors, Connected
<1>1. ASSUME NEW t \in Threads, Table(t)
      PROVE  AsyncEmitTouchesLive'
  <2>1. lock' = Nobody
    BY <1>1 DEF Table, ConnectMember, ConnectLambda, Disconnect, Clear, Enters
  <2> QED BY <2>1
<1>2. ASSUME NEW t \in Threads, Emit(t) \/ EmitSync(t)
      PROVE  AsyncEmitTouchesLive'
  BY <1>2 DEF Emit, EmitSync, EmitBegins, Enters
<1>3. ASSUME NEW t \in Threads, NEW s \in Slots, AddArgBegin(t, s)
      PROVE  AsyncEmitTouchesLive'
  <2>1. UNCHANGED <<lock, status>>
    BY <1>3 DEF AddArgBegin
  <2>2. CASE UNCHANGED <<todo, cur, pc>>
    BY <2>1, <2>2
  <2>3. CASE /\ todo' = [todo EXCEPT ![t] = @ \ {s}]
             /\ cur' = [cur EXCEPT ![t] = s]
             /\ pc' = [pc EXCEPT ![t] = "arg"]
    <3>1. lock = t => todo'[t] \subseteq Connected /\ cur'[t] \in Connected
      BY <1>3, <2>3 DEF AddArgBegin
    <3> QED BY <2>1, <2>3, <3>1
  <2> QED BY <1>3, <2>2, <2>3 DEF AddArgBegin
<1>4. ASSUME NEW t \in Threads, AddArgEnd(t)
      PROVE  AsyncEmitTouchesLive'
  BY <1>4 DEF AddArgEnd
<1>5. ASSUME NEW t \in Threads, AddToEventLoop(t) \/ EmitEnd(t)
      PROVE  AsyncEmitTouchesLive'
  BY <1>5 DEF AddToEventLoop, EmitEnd
<1>6. ASSUME NEW l \in Loops, NEW s \in Slots, LoopInvokes(l, s)
      PROVE  AsyncEmitTouchesLive'
  BY <1>6 DEF LoopInvokes
<1>7. ASSUME NEW a \in Actors, Take(a) \/ Apply(a)
      PROVE  AsyncEmitTouchesLive'
  BY <1>7 DEF Take, Apply
<1>8. CASE UNCHANGED vars
  BY <1>8 DEF vars
<1> QED
  BY <1>1, <1>2, <1>3, <1>4, <1>5, <1>6, <1>7, <1>8
  DEF Next, EmitStep, LoopStep, InvkeStep
-----------------------------------------------------------------------------
(* The account of arguments and events.                                    *)

LEMMA OwedFinite == \A s : IsFiniteSet(Owed(s)) /\ Cardinality(Owed(s)) \in Nat
  BY ActorsAssumption, FS_Subset, FS_CardinalityType DEF Owed

\* An actor that neither owes before nor after a step changes no account.
LEMMA OwedSame ==
  ASSUME NEW a \in Actors, Moves(a),
         pc[a] \notin {"post", "invoke"}, pc'[a] \notin {"post", "invoke"}
  PROVE  \A s : Owed(s)' = Owed(s)
  BY DEF Owed, Moves

\* An actor that comes to owe slot s adds one to its account and to no other.
LEMMA OwedGrows ==
  ASSUME NEW a \in Actors, NEW s \in Slots, Moves(a),
         pc[a] \notin {"post", "invoke"}, pc'[a] \in {"post", "invoke"}, cur'[a] = s
  PROVE  /\ Cardinality(Owed(s)') = Cardinality(Owed(s)) + 1
         /\ \A r \in Slots \ {s} : Owed(r)' = Owed(r)
<1>1. Owed(s)' = Owed(s) \cup {a} /\ a \notin Owed(s)
  BY DEF Owed, Moves
<1>2. \A r \in Slots \ {s} : Owed(r)' = Owed(r)
  BY DEF Owed, Moves
<1> QED BY <1>1, <1>2, OwedFinite, FS_AddElement

\* An actor that has paid takes one off the account of its slot.
LEMMA OwedShrinks ==
  ASSUME NEW a \in Actors, NEW s \in Slots, Moves(a),
         pc[a] \in {"post", "invoke"}, pc'[a] \notin {"post", "invoke"}, cur[a] = s
  PROVE  /\ Cardinality(Owed(s)') = Cardinality(Owed(s)) - 1
         /\ Cardinality(Owed(s)) >= 1
         /\ \A r \in Slots \ {s} : Owed(r)' = Owed(r)
<1>1. Owed(s)' = Owed(s) \ {a} /\ a \in Owed(s)
  BY DEF Owed, Moves
<1>2. \A r \in Slots \ {s} : Owed(r)' = Owed(r)
  BY DEF Owed, Moves
<1>3. Cardinality(Owed(s)) # 0
  BY <1>1, OwedFinite, FS_EmptySet
<1>4. Cardinality(Owed(s)') = Cardinality(Owed(s)) - 1
  BY <1>1, OwedFinite, FS_RemoveElement
<1> QED BY <1>2, <1>3, <1>4, OwedFinite

\* Each step changes the arguments of a slot and its account alike.
LEMMA AccountStep ==
  ASSUME Typed, Modes, ArgsMatchEvents, [Next]_vars
  PROVE  ArgsMatchEvents'
<1> USE ActorsAssumption DEF ArgsMatchEvents, Typed, TypeOK, InEmit, Actors
<1>1. ASSUME NEW t \in Threads, Table(t)
      PROVE  ArgsMatchEvents'
  <2>1. \A s : Owed(s)' = Owed(s)
    BY <1>1 DEF Table, ConnectMember, ConnectLambda, Disconnect, Clear, Owed
  <2>2. UNCHANGED <<posted, invoked>>
    BY <1>1 DEF Table, ConnectMember, ConnectLambda, Disconnect, Clear, loopVars
  <2>3. \A s \in Slots : status'[s] # "deleted" =>
          status[s] # "deleted" /\ args'[s] = args[s]
    <3>1. ASSUME NEW r \in Slots, ConnectMember(t, r) \/ ConnectLambda(t, r)
          PROVE  \A s \in Slots : status'[s] # "deleted" =>
                   status[s] # "deleted" /\ args'[s] = args[s]
      BY <3>1 DEF ConnectMember, ConnectLambda, Connected
    <3>2. ASSUME NEW D, Delete(D)
          PROVE  \A s \in Slots : status'[s] # "deleted" =>
                   status[s] # "deleted" /\ args'[s] = args[s]
      BY <3>2 DEF Delete
    <3> QED BY <1>1, <3>1, <3>2 DEF Table, Disconnect, Clear
  <2> QED BY <2>1, <2>2, <2>3
<1>2. ASSUME NEW t \in Threads, Emit(t) \/ EmitSync(t) \/ EmitEnd(t)
      PROVE  ArgsMatchEvents'
  <2>1. pc[t] \in {"idle", "emit"} /\ pc'[t] \in {"idle", "emit"} /\ Moves(t)
    BY <1>2 DEF Emit, EmitSync, EmitBegins, Enters, EmitEnd, Moves
  <2>2. \A s : Owed(s)' = Owed(s)
    BY <2>1, OwedSame
  <2>3. UNCHANGED <<args, posted, invoked, status>>
    BY <1>2 DEF Emit, EmitSync, EmitBegins, EmitEnd, loopVars
  <2> QED BY <2>2, <2>3
<1>3. ASSUME NEW t \in Threads, NEW s \in Slots, AddArgBegin(t, s)
      PROVE  ArgsMatchEvents'
  <2>1. pc[t] = "emit" /\ pc'[t] \in {"emit", "arg"} /\ Moves(t)
    BY <1>3 DEF AddArgBegin, Moves
  <2>2. \A r : Owed(r)' = Owed(r)
    BY <2>1, OwedSame
  <2>3. UNCHANGED <<args, posted, invoked, status>>
    BY <1>3 DEF AddArgBegin, loopVars
  <2> QED BY <2>2, <2>3
<1>4. ASSUME NEW t \in Threads, AddArgEnd(t)
      PROVE  ArgsMatchEvents'
  <2>1. UNCHANGED <<posted, invoked, status, cur>>
    BY <1>4 DEF AddArgEnd, loopVars
  <2> PICK s \in Slots : cur[t] = s
    BY <1>4 DEF AddArgEnd
  <2>2. CASE UNCHANGED <<args, pc>>
    BY <2>1, <2>2 DEF Owed
  <2>3. CASE /\ args' = [args EXCEPT ![s] = Append(@, val[t])]
             /\ pc' = [pc EXCEPT ![t] = IF val[t].sync THEN "invoke" ELSE "post"]
    <3>1. pc[t] = "arg" /\ pc'[t] \in {"post", "invoke"} /\ Moves(t)
      BY <1>4, <2>1, <2>3 DEF AddArgEnd, Moves
    <3>2. /\ Cardinality(Owed(s)') = Cardinality(Owed(s)) + 1
          /\ \A r \in Slots \ {s} : Owed(r)' = Owed(r)
      BY <2>1, <3>1, OwedGrows
    <3>3. Len(args'[s]) = Len(args[s]) + 1
      BY <2>3, <3>1
    <3>4. \A r \in Slots \ {s} : args'[r] = args[r]
      BY <2>3
    <3>5. status[s] # "deleted" =>
            Len(args'[s]) = (posted'[s] - invoked'[s]) + Cardinality(Owed(s)')
      BY <2>1, <3>2, <3>3, OwedFinite
    <3>6. \A r \in Slots \ {s} : status[r] # "deleted" =>
            Len(args'[r]) = (posted'[r] - invoked'[r]) + Cardinality(Owed(r)')
      BY <2>1, <3>2, <3>4
    <3> QED BY <2>1, <3>5, <3>6
  <2> QED BY <1>4, <2>2, <2>3 DEF AddArgEnd
<1>5. ASSUME NEW t \in Threads, AddToEventLoop(t)
      PROVE  ArgsMatchEvents'
  <2> PICK s \in Slots : cur[t] = s
    BY <1>5 DEF AddToEventLoop
  <2>1. pc[t] = "post" /\ pc'[t] = "emit" /\ Moves(t)
    BY <1>5 DEF AddToEventLoop, Moves
  <2>2. /\ Cardinality(Owed(s)') = Cardinality(Owed(s)) - 1
        /\ \A r \in Slots \ {s} : Owed(r)' = Owed(r)
    BY <2>1, OwedShrinks
  <2>3. posted' = [posted EXCEPT ![s] = @ + 1] /\ UNCHANGED <<invoked, args, status>>
    BY <1>5 DEF AddToEventLoop, Loop!Post
  <2> QED BY <2>2, <2>3, OwedFinite
<1>6. ASSUME NEW l \in Loops, NEW s \in Slots, LoopInvokes(l, s)
      PROVE  ArgsMatchEvents'
  <2>1. pc[l] = "idle" /\ pc'[l] = "invoke" /\ cur'[l] = s /\ Moves(l)
    BY <1>6 DEF LoopInvokes, Moves
  <2>2. /\ Cardinality(Owed(s)') = Cardinality(Owed(s)) + 1
        /\ \A r \in Slots \ {s} : Owed(r)' = Owed(r)
    BY <2>1, OwedGrows
  <2>3. invoked' = [invoked EXCEPT ![s] = @ + 1] /\ UNCHANGED <<posted, args, status>>
    BY <1>6 DEF LoopInvokes, Loop!Invoke
  <2> QED BY <2>2, <2>3, OwedFinite
<1>7. ASSUME NEW a \in Actors, Take(a)
      PROVE  ArgsMatchEvents'
  <2> PICK s \in Slots : cur[a] = s
    BY <1>7 DEF Take
  <2>1. UNCHANGED <<posted, invoked, status, cur>>
    BY <1>7 DEF Take, loopVars
  <2>2. CASE UNCHANGED <<args, pc>>
    BY <2>1, <2>2 DEF Owed
  <2>3. CASE /\ args[s] # <<>>
             /\ args' = [args EXCEPT ![s] = Tail(@)]
             /\ pc' = [pc EXCEPT ![a] = "apply"]
    <3>1. pc[a] = "invoke" /\ pc'[a] = "apply" /\ Moves(a)
      BY <1>7, <2>1, <2>3 DEF Take, Moves
    <3>2. /\ Cardinality(Owed(s)') = Cardinality(Owed(s)) - 1
          /\ \A r \in Slots \ {s} : Owed(r)' = Owed(r)
      BY <3>1, OwedShrinks
    <3>3. Len(args'[s]) = Len(args[s]) - 1
      BY <2>3
    <3>4. \A r \in Slots \ {s} : args'[r] = args[r]
      BY <2>3
    <3>5. status[s] # "deleted" =>
            Len(args'[s]) = (posted'[s] - invoked'[s]) + Cardinality(Owed(s)')
      BY <2>1, <3>2, <3>3, OwedFinite
    <3>6. \A r \in Slots \ {s} : status[r] # "deleted" =>
            Len(args'[r]) = (posted'[r] - invoked'[r]) + Cardinality(Owed(r)')
      BY <2>1, <3>2, <3>4
    <3> QED BY <2>1, <3>5, <3>6
  <2> QED BY <1>7, <2>2, <2>3 DEF Take
<1>8. ASSUME NEW a \in Actors, Apply(a)
      PROVE  ArgsMatchEvents'
  <2>1. pc[a] = "apply" /\ pc'[a] \in {"apply", "idle", "emit"} /\ Moves(a)
    BY <1>8 DEF Apply, Moves
  <2>2. \A s : Owed(s)' = Owed(s)
    BY <2>1, OwedSame
  <2>3. UNCHANGED <<args, posted, invoked, status>>
    BY <1>8 DEF Apply, loopVars
  <2> QED BY <2>2, <2>3
<1>9. CASE UNCHANGED vars
  <2>1. \A s : Owed(s)' = Owed(s)
    BY <1>9 DEF vars, Owed
  <2> QED BY <1>9, <2>1 DEF vars, loopVars
<1> QED
  BY <1>1, <1>2, <1>3, <1>4, <1>5, <1>6, <1>7, <1>8, <1>9
  DEF Next, EmitStep, LoopStep, InvkeStep
-----------------------------------------------------------------------------
(* The order of asynchronous emissions.                                    *)

\* The asynchronous arguments of a sequence come in the order of their emits,
Ordered(q) ==
  \A i, j \in 1..Len(q) : (i < j /\ ~q[i].sync /\ ~q[j].sync) => q[i].no < q[j].no
\* and all of them before emission n.
Below(q, n) == \A i \in 1..Len(q) : ~q[i].sync => q[i].no < n

LEMMA AppendOrdered ==
  ASSUME NEW q \in Seq(Emissions), NEW v \in Emissions, Ordered(q),
         v.sync \/ Below(q, v.no)
  PROVE  Ordered(Append(q, v))
<1>1. /\ Len(Append(q, v)) = Len(q) + 1
      /\ \A i \in 1..Len(q) : Append(q, v)[i] = q[i]
      /\ Append(q, v)[Len(q) + 1] = v
  OBVIOUS
<1>2. \A i \in 1..(Len(q) + 1) : i \in 1..Len(q) \/ i = Len(q) + 1
  OBVIOUS
<1> QED BY <1>1, <1>2 DEF Ordered, Below

LEMMA AppendBelow ==
  ASSUME NEW q \in Seq(Emissions), NEW v \in Emissions, NEW n \in Nat,
         Below(q, n), v.sync \/ v.no < n
  PROVE  Below(Append(q, v), n)
<1>1. /\ Len(Append(q, v)) = Len(q) + 1
      /\ \A i \in 1..Len(q) : Append(q, v)[i] = q[i]
      /\ Append(q, v)[Len(q) + 1] = v
  OBVIOUS
<1>2. \A i \in 1..(Len(q) + 1) : i \in 1..Len(q) \/ i = Len(q) + 1
  OBVIOUS
<1> QED BY <1>1, <1>2 DEF Below

LEMMA BelowGrows ==
  ASSUME NEW q \in Seq(Emissions), NEW n \in Nat, Below(q, n)
  PROVE  Below(q, n + 1)
<1>1. \A i \in 1..Len(q) : q[i].no \in Nat
  <2>1. \A i \in 1..Len(q) : q[i] \in Emissions
    OBVIOUS
  <2> QED BY <2>1, MaxEmitsAssumption DEF Emissions
<1> QED BY <1>1 DEF Below

LEMMA TailKeepsOrder ==
  ASSUME NEW q \in Seq(Emissions), q # <<>>, Ordered(q)
  PROVE  /\ Ordered(Tail(q))
         /\ \A n : Below(q, n) => Below(Tail(q), n)
         /\ \A i \in 1..Len(Tail(q)) :
              (~Head(q).sync /\ ~Tail(q)[i].sync) => Head(q).no < Tail(q)[i].no
<1>1. /\ Len(Tail(q)) = Len(q) - 1
      /\ \A i \in 1..Len(Tail(q)) : i + 1 \in 1..Len(q) /\ Tail(q)[i] = q[i + 1]
      /\ Head(q) = q[1] /\ 1 \in 1..Len(q)
  OBVIOUS
<1>2. Ordered(Tail(q))
  BY <1>1 DEF Ordered
<1>3. \A n : Below(q, n) => Below(Tail(q), n)
  BY <1>1 DEF Below
<1>4. \A i \in 1..Len(Tail(q)) :
        (~Head(q).sync /\ ~Tail(q)[i].sync) => Head(q).no < Tail(q)[i].no
  BY <1>1 DEF Ordered
<1> QED BY <1>2, <1>3, <1>4

\* What a slot has had and holds is in order, was emitted already, and comes
\* before the asynchronous emission that has the slot still to serve.
SlotInOrder(s) ==
  /\ Ordered(taken[s])
  /\ Ordered(args[s])
  /\ \A i \in 1..Len(args[s]) : ~args[s][i].sync => Below(taken[s], args[s][i].no)
  /\ Below(taken[s], emits + 1)
  /\ Below(args[s], emits + 1)

ToCome(t, s) == s \in todo[t] \/ (pc[t] = "arg" /\ cur[t] = s)

NextInOrder(t) ==
  lock = t => /\ val[t].no = emits
              /\ \A s \in Slots : ToCome(t, s) =>
                   Below(taken[s], emits) /\ Below(args[s], emits)

OrderInv ==
  /\ \A s \in Slots : SlotInOrder(s)
  /\ \A t \in Threads : NextInOrder(t)
  /\ \A t \in Threads : pc[t] = "arg" => cur[t] \notin todo[t]

\* Each step keeps the order: only the holder of the lock adds asynchronous
\* arguments, and an argument is taken from the front.
LEMMA OrderStep ==
  ASSUME Typed, Modes, OrderInv, [Next]_vars
  PROVE  OrderInv'
<1> USE NobodyAssumption, ActorsAssumption, MaxEmitsAssumption
    DEF Typed, TypeOK, InEmit, Actors
<1>1. ASSUME NEW t \in Threads, Table(t)
      PROVE  OrderInv'
  <2>1. UNCHANGED <<lock, pc, cur, todo, val, emits, taken>> /\ lock = Nobody
    BY <1>1 DEF Table, ConnectMember, ConnectLambda, Disconnect, Clear, Enters, history
  <2>2. \A s \in Slots : args'[s] \in {args[s], <<>>}
    BY <1>1 DEF Table, ConnectMember, ConnectLambda, Disconnect, Clear, Delete
  <2>3. \A s \in Slots : SlotInOrder(s)'
    <3> SUFFICES ASSUME NEW s \in Slots PROVE SlotInOrder(s)'
      OBVIOUS
    <3>1. CASE args'[s] = args[s]
      BY <2>1, <3>1 DEF OrderInv, SlotInOrder
    <3>2. CASE args'[s] = <<>>
      BY <2>1, <3>2 DEF OrderInv, SlotInOrder, Ordered, Below
    <3> QED BY <2>2, <3>1, <3>2
  <2>4. \A u \in Threads : NextInOrder(u)'
    BY <2>1 DEF NextInOrder
  <2> QED BY <2>1, <2>3, <2>4 DEF OrderInv
<1>2. ASSUME NEW t \in Threads, Emit(t) \/ EmitSync(t)
      PROVE  OrderInv'
  <2>1. PICK sync \in BOOLEAN : EmitBegins(t, sync) /\ lock' = (IF sync THEN Nobody ELSE t)
    BY <1>2 DEF Emit, EmitSync, EmitBegins, Enters
  <2>2. /\ emits' = emits + 1 /\ emits \in Nat
        /\ UNCHANGED <<args, taken, cur>> /\ lock = Nobody
        /\ val' = [val EXCEPT ![t] = [no |-> emits + 1, sync |-> sync]]
        /\ pc' = [pc EXCEPT ![t] = "emit"]
        /\ todo' = [todo EXCEPT ![t] = Connected]
    BY <2>1 DEF EmitBegins, Enters
  <2>3. \A s \in Slots : SlotInOrder(s)'
    <3> SUFFICES ASSUME NEW s \in Slots PROVE SlotInOrder(s)'
      OBVIOUS
    <3>1. SlotInOrder(s)
      BY DEF OrderInv
    <3>2. taken[s] \in Seq(Emissions) /\ args[s] \in Seq(Emissions)
      OBVIOUS
    <3>3. Below(taken[s], emits + 1) /\ Below(args[s], emits + 1)
      BY <3>1 DEF SlotInOrder
    <3>4. Below(taken[s], emits + 2) /\ Below(args[s], emits + 2)
      <4>1. /\ Below(taken[s], (emits + 1) + 1) /\ Below(args[s], (emits + 1) + 1)
            /\ (emits + 1) + 1 = emits + 2
        BY <2>2, <3>2, <3>3, BelowGrows
      <4> QED BY <4>1
    <3> QED BY <2>2, <3>1, <3>4 DEF SlotInOrder
  <2>4. \A u \in Threads : NextInOrder(u)'
    <3> SUFFICES ASSUME NEW u \in Threads, lock' = u
                 PROVE  /\ val'[u].no = emits'
                        /\ \A s \in Slots : Below(taken'[s], emits') /\ Below(args'[s], emits')
      BY DEF NextInOrder
    <3>1. u = t
      BY <2>1
    <3> QED BY <2>2, <3>1 DEF OrderInv, SlotInOrder
  <2>5. \A u \in Threads : pc'[u] = "arg" => cur'[u] \notin todo'[u]
    BY <2>2 DEF OrderInv
  <2> QED BY <2>3, <2>4, <2>5 DEF OrderInv
<1>3. ASSUME NEW t \in Threads, NEW s \in Slots, AddArgBegin(t, s)
      PROVE  OrderInv'
  <2>1. UNCHANGED <<lock, args, taken, val, emits>>
    BY <1>3 DEF AddArgBegin, history
  <2>2. \A u \in Threads, r \in Slots : ToCome(u, r)' => ToCome(u, r)
    <3>1. s \in todo[t]
      BY <1>3 DEF AddArgBegin
    <3>2. CASE UNCHANGED <<todo, cur, pc>>
      BY <3>2 DEF ToCome
    <3>3. CASE /\ todo' = [todo EXCEPT ![t] = @ \ {s}]
               /\ cur' = [cur EXCEPT ![t] = s]
               /\ pc' = [pc EXCEPT ![t] = "arg"]
      BY <3>1, <3>3 DEF ToCome
    <3> QED BY <1>3, <3>2, <3>3 DEF AddArgBegin
  <2>3. \A r \in Slots : SlotInOrder(r)'
    BY <2>1 DEF OrderInv, SlotInOrder
  <2>4. \A u \in Threads : NextInOrder(u)'
    BY <2>1, <2>2 DEF OrderInv, NextInOrder
  <2>5. \A u \in Threads : pc'[u] = "arg" => cur'[u] \notin todo'[u]
    BY <1>3 DEF OrderInv, AddArgBegin
  <2> QED BY <2>3, <2>4, <2>5 DEF OrderInv
<1>4. ASSUME NEW t \in Threads, AddArgEnd(t)
      PROVE  OrderInv'
  <2>1. UNCHANGED <<lock, taken, val, emits, cur, todo>>
    BY <1>4 DEF AddArgEnd, history
  <2> PICK s \in Slots : cur[t] = s
    BY <1>4 DEF AddArgEnd
  <2>2. CASE UNCHANGED <<args, pc>>
    BY <2>1, <2>2 DEF OrderInv, SlotInOrder, NextInOrder, ToCome
  <2>3. CASE /\ args' = [args EXCEPT ![s] = Append(@, val[t])]
             /\ pc' = [pc EXCEPT ![t] = IF val[t].sync THEN "invoke" ELSE "post"]
    <3>1. val[t] \in Emissions /\ pc[t] = "arg" /\ args[s] \in Seq(Emissions)
      BY <1>4 DEF AddArgEnd
    <3>2. \/ val[t].sync
          \/ /\ val[t].no = emits
             /\ Below(taken[s], val[t].no) /\ Below(args[s], val[t].no)
      <4> SUFFICES ASSUME ~val[t].sync
                   PROVE  /\ val[t].no = emits
                          /\ Below(taken[s], val[t].no) /\ Below(args[s], val[t].no)
        OBVIOUS
      <4>1. lock = t
        BY <3>1 DEF Modes
      <4>2. NextInOrder(t) /\ ToCome(t, s)
        BY <3>1 DEF OrderInv, ToCome
      <4> QED BY <4>1, <4>2 DEF NextInOrder
    <3>3. SlotInOrder(s)
      BY DEF OrderInv
    <3>4. Ordered(args'[s])
      BY <2>3, <3>1, <3>2, <3>3, AppendOrdered DEF SlotInOrder
    <3>5. Below(args'[s], emits + 1)
      BY <2>3, <3>1, <3>2, <3>3, AppendBelow DEF SlotInOrder
    <3>6. \A i \in 1..Len(args'[s]) : ~args'[s][i].sync => Below(taken[s], args'[s][i].no)
      <4>1. /\ Len(args'[s]) = Len(args[s]) + 1
            /\ \A i \in 1..Len(args[s]) : args'[s][i] = args[s][i]
            /\ args'[s][Len(args[s]) + 1] = val[t]
        BY <2>3, <3>1
      <4>2. \A i \in 1..(Len(args[s]) + 1) : i \in 1..Len(args[s]) \/ i = Len(args[s]) + 1
        BY <3>1
      <4> QED BY <3>2, <3>3, <4>1, <4>2 DEF SlotInOrder
    <3>7. SlotInOrder(s)'
      BY <2>1, <3>3, <3>4, <3>5, <3>6 DEF SlotInOrder
    <3>8. \A r \in Slots \ {s} : args'[r] = args[r]
      BY <2>3
    <3>9. \A r \in Slots \ {s} : SlotInOrder(r)'
      BY <2>1, <3>8 DEF OrderInv, SlotInOrder
    <3>10. \A u \in Threads : NextInOrder(u)'
      <4> SUFFICES ASSUME NEW u \in Threads, lock = u, NEW r \in Slots, ToCome(u, r)'
                   PROVE  Below(taken[r], emits) /\ Below(args'[r], emits)
        BY <2>1 DEF NextInOrder, OrderInv
      <4>1. ToCome(u, r) /\ val[u].no = emits
        BY <2>1, <2>3 DEF ToCome, OrderInv, NextInOrder
      <4>2. Below(taken[r], emits) /\ Below(args[r], emits)
        BY <4>1 DEF OrderInv, NextInOrder
      <4>3. CASE r = s
        <5>1. u # t
          BY <2>1, <2>3, <3>1, <4>3 DEF ToCome, OrderInv
        <5>2. val[t].sync
          BY <3>1, <5>1 DEF Modes
        <5> QED BY <2>3, <3>1, <4>2, <4>3, <5>2, AppendBelow
      <4> QED BY <3>8, <4>2, <4>3
    <3>11. \A u \in Threads : pc'[u] = "arg" => cur'[u] \notin todo'[u]
      BY <2>1, <2>3 DEF OrderInv
    <3> QED BY <3>7, <3>9, <3>10, <3>11 DEF OrderInv
  <2> QED BY <1>4, <2>2, <2>3 DEF AddArgEnd
<1>5. ASSUME NEW t \in Threads, AddToEventLoop(t) \/ EmitEnd(t)
      PROVE  OrderInv'
  <2>1. /\ UNCHANGED <<args, taken, emits, todo>>
        /\ lock' \in {lock, Nobody}
        /\ \A u \in Threads \ {t} : pc'[u] = pc[u] /\ cur'[u] = cur[u] /\ val'[u] = val[u]
        /\ pc'[t] # "arg" /\ (lock' = t => val'[t] = val[t])
    BY <1>5 DEF AddToEventLoop, EmitEnd, history
  <2>2. \A r \in Slots : SlotInOrder(r)'
    BY <2>1 DEF OrderInv, SlotInOrder
  <2>3. \A u \in Threads : NextInOrder(u)'
    BY <2>1 DEF OrderInv, NextInOrder, ToCome
  <2>4. \A u \in Threads : pc'[u] = "arg" => cur'[u] \notin todo'[u]
    BY <2>1 DEF OrderInv
  <2> QED BY <2>2, <2>3, <2>4 DEF OrderInv
<1>6. ASSUME NEW l \in Loops, NEW s \in Slots, LoopInvokes(l, s)
      PROVE  OrderInv'
  <2>1. /\ UNCHANGED <<lock, args, taken, val, emits, todo>>
        /\ \A u \in Threads : pc'[u] = pc[u] /\ cur'[u] = cur[u]
    BY <1>6 DEF LoopInvokes, history
  <2> QED BY <2>1 DEF OrderInv, SlotInOrder, NextInOrder, ToCome
<1>7. ASSUME NEW a \in Actors, Take(a)
      PROVE  OrderInv'
  <2>1. UNCHANGED <<lock, val, emits, cur, todo>>
    BY <1>7 DEF Take
  <2> PICK s \in Slots : cur[a] = s
    BY <1>7 DEF Take
  <2>2. CASE UNCHANGED <<taken, args, pc>>
    BY <2>1, <2>2 DEF OrderInv, SlotInOrder, NextInOrder, ToCome
  <2>3. CASE /\ args[s] # <<>>
             /\ taken' = [taken EXCEPT ![s] = Append(@, Head(args[s]))]
             /\ args' = [args EXCEPT ![s] = Tail(@)]
             /\ pc' = [pc EXCEPT ![a] = "apply"]
    <3> DEFINE h == Head(args[s])
    <3>1. /\ args[s] \in Seq(Emissions) /\ taken[s] \in Seq(Emissions)
          /\ h \in Emissions /\ h = args[s][1] /\ 1 \in 1..Len(args[s])
          /\ taken'[s] = Append(taken[s], h) /\ args'[s] = Tail(args[s])
      BY <2>3
    <3> HIDE DEF h
    <3>2. SlotInOrder(s)
      BY DEF OrderInv
    <3>3. h.sync \/ Below(taken[s], h.no)
      BY <3>1, <3>2 DEF SlotInOrder
    <3>4. Ordered(taken'[s])
      BY <3>1, <3>2, <3>3, AppendOrdered DEF SlotInOrder
    <3>5. Ordered(args'[s]) /\ Below(args'[s], emits + 1)
      BY <2>3, <3>1, <3>2, TailKeepsOrder DEF SlotInOrder
    <3>6. ASSUME NEW n \in Nat, Below(taken[s], n), Below(args[s], n)
          PROVE  Below(taken'[s], n) /\ Below(args'[s], n)
      <4>1. h.sync \/ h.no < n
        BY <3>1, <3>6 DEF Below
      <4>2. Below(taken'[s], n)
        BY <3>1, <3>6, <4>1, AppendBelow
      <4>3. Below(args'[s], n)
        BY <2>3, <3>1, <3>2, <3>6, TailKeepsOrder DEF SlotInOrder
      <4> QED BY <4>2, <4>3
    <3>7. ASSUME NEW i \in 1..Len(args'[s]), ~args'[s][i].sync
          PROVE  Below(taken'[s], args'[s][i].no)
      <4>1. /\ i + 1 \in 1..Len(args[s]) /\ args'[s][i] = args[s][i + 1]
            /\ args'[s][i] \in Emissions
        BY <2>3, <3>1
      <4>2. Below(taken[s], args'[s][i].no)
        BY <3>2, <3>7, <4>1 DEF SlotInOrder
      <4>3. h.sync \/ h.no < args'[s][i].no
        BY <2>3, <3>1, <3>2, <3>7, TailKeepsOrder DEF SlotInOrder, h
      <4>4. args'[s][i].no \in Nat
        BY <4>1 DEF Emissions
      <4> QED BY <3>1, <4>2, <4>3, <4>4, AppendBelow
    <3>8. Below(taken'[s], emits + 1)
      BY <3>2, <3>6 DEF SlotInOrder
    <3>9. SlotInOrder(s)'
      BY <2>1, <3>4, <3>5, <3>7, <3>8 DEF SlotInOrder
    <3>10. \A r \in Slots \ {s} : taken'[r] = taken[r] /\ args'[r] = args[r]
      BY <2>3
    <3>11. \A r \in Slots \ {s} : SlotInOrder(r)'
      BY <2>1, <3>10 DEF OrderInv, SlotInOrder
    <3>12. \A u \in Threads, r \in Slots : ToCome(u, r)' => ToCome(u, r)
      BY <2>1, <2>3 DEF ToCome
    <3>13. \A u \in Threads : NextInOrder(u)'
      <4> SUFFICES ASSUME NEW u \in Threads, lock = u, NEW r \in Slots, ToCome(u, r)'
                   PROVE  Below(taken'[r], emits) /\ Below(args'[r], emits)
        BY <2>1 DEF NextInOrder, OrderInv
      <4>1. Below(taken[r], emits) /\ Below(args[r], emits)
        BY <3>12 DEF OrderInv, NextInOrder
      <4>2. emits \in Nat
        OBVIOUS
      <4>3. CASE r = s
        BY <3>6, <4>1, <4>2, <4>3
      <4> QED BY <3>10, <4>1, <4>3
    <3>14. \A u \in Threads : pc'[u] = "arg" => cur'[u] \notin todo'[u]
      BY <2>1, <2>3 DEF OrderInv
    <3> QED BY <3>9, <3>11, <3>13, <3>14 DEF OrderInv
  <2> QED BY <1>7, <2>2, <2>3 DEF Take
<1>8. ASSUME NEW a \in Actors, Apply(a)
      PROVE  OrderInv'
  <2>1. /\ UNCHANGED <<lock, args, taken, val, emits, todo>>
        /\ \A u \in Threads : pc'[u] = "arg" => pc[u] = "arg" /\ cur'[u] = cur[u]
    BY <1>8 DEF Apply, history
  <2> QED BY <2>1 DEF OrderInv, SlotInOrder, NextInOrder, ToCome
<1>9. CASE UNCHANGED vars
  BY <1>9 DEF vars, history, OrderInv, SlotInOrder, NextInOrder, ToCome
<1> QED
  BY <1>1, <1>2, <1>3, <1>4, <1>5, <1>6, <1>7, <1>8, <1>9
  DEF Next, EmitStep, LoopStep, InvkeStep
-----------------------------------------------------------------------------
(* How often an emission has reached a slot.                               *)

\* A thread outside an emit holds no arguments, and an emission that has not
\* begun has no slots.
Fresh ==
  /\ \A t \in Threads : pc[t] = "idle" => val[t] = Nobody
  /\ \A n \in 1..MaxEmits : n > emits => target[n] = {}

LEMMA FreshStep ==
  ASSUME Typed, Fresh, [Next]_vars
  PROVE  Fresh'
<1> USE ActorsAssumption, MaxEmitsAssumption DEF Fresh, Typed, TypeOK, Actors, history
<1>1. ASSUME NEW t \in Threads, Table(t)
      PROVE  Fresh'
  BY <1>1 DEF Table, ConnectMember, ConnectLambda, Disconnect, Clear
<1>2. ASSUME NEW t \in Threads, Emit(t) \/ EmitSync(t)
      PROVE  Fresh'
  <2>1. PICK sync \in BOOLEAN : EmitBegins(t, sync)
    BY <1>2 DEF Emit, EmitSync
  <2>2. emits + 1 \in 1..MaxEmits /\ emits' = emits + 1
    BY <2>1 DEF EmitBegins
  <2>3. \A n \in 1..MaxEmits : n # emits + 1 => target'[n] = target[n]
    BY <2>1 DEF EmitBegins
  <2>4. \A u \in Threads \ {t} : pc'[u] = pc[u] /\ val'[u] = val[u]
    BY <2>1 DEF EmitBegins
  <2>5. pc'[t] = "emit"
    BY <2>1 DEF EmitBegins
  <2> QED BY <2>2, <2>3, <2>4, <2>5
<1>3. ASSUME NEW t \in Threads, NEW s \in Slots, AddArgBegin(t, s)
      PROVE  Fresh'
  BY <1>3 DEF AddArgBegin
<1>4. ASSUME NEW t \in Threads, AddArgEnd(t)
      PROVE  Fresh'
  BY <1>4 DEF AddArgEnd
<1>5. ASSUME NEW t \in Threads, AddToEventLoop(t) \/ EmitEnd(t)
      PROVE  Fresh'
  BY <1>5 DEF AddToEventLoop, EmitEnd
<1>6. ASSUME NEW l \in Loops, NEW s \in Slots, LoopInvokes(l, s)
      PROVE  Fresh'
  BY <1>6 DEF LoopInvokes
<1>7. ASSUME NEW a \in Actors, Take(a) \/ Apply(a)
      PROVE  Fresh'
  BY <1>7 DEF Take, Apply, InEmit
<1>8. CASE UNCHANGED vars
  BY <1>8 DEF vars
<1> QED
  BY <1>1, <1>2, <1>3, <1>4, <1>5, <1>6, <1>7, <1>8
  DEF Next, EmitStep, LoopStep, InvkeStep

\* The places of emission n in a sequence.
Places(q, n) == {i \in 1..Len(q) : q[i].no = n}

LEMMA PlacesFinite ==
  ASSUME NEW q \in Seq(Emissions), NEW n
  PROVE  IsFiniteSet(Places(q, n)) /\ Count(q, n) = Cardinality(Places(q, n))
                                   /\ Count(q, n) \in Nat
<1>1. IsFiniteSet(1..Len(q))
  BY FS_Interval
<1>2. Places(q, n) \in SUBSET (1..Len(q))
  BY DEF Places
<1>3. IsFiniteSet(Places(q, n))
  BY <1>1, <1>2, FS_Subset
<1> QED BY <1>3, FS_CardinalityType DEF Count, Places

One(b) == IF b THEN 1 ELSE 0

\* Appending an argument adds its emission once and no other.
LEMMA CountAppend ==
  ASSUME NEW q \in Seq(Emissions), NEW e \in Emissions, NEW n
  PROVE  Count(Append(q, e), n) = Count(q, n) + One(e.no = n)
<1> DEFINE k == Len(q) + 1
           r == Append(q, e)
<1>1. /\ r \in Seq(Emissions) /\ Len(r) = k /\ k \in Nat
      /\ \A i \in 1..Len(q) : r[i] = q[i]
      /\ r[k] = e /\ 1..k = (1..Len(q)) \cup {k} /\ k \notin 1..Len(q)
  OBVIOUS
<1> HIDE DEF k, r
<1>2. CASE e.no = n
  <2>1. Places(r, n) = Places(q, n) \cup {k} /\ k \notin Places(q, n)
    BY <1>1, <1>2 DEF Places
  <2>2. Cardinality(Places(r, n)) = Cardinality(Places(q, n)) + 1
    BY <2>1, PlacesFinite, FS_AddElement
  <2> QED BY <1>1, <1>2, <2>2, PlacesFinite DEF One, r
<1>3. CASE e.no # n
  <2>1. Places(r, n) = Places(q, n)
    BY <1>1, <1>3 DEF Places
  <2>2. Count(r, n) = Count(q, n) /\ Count(q, n) \in Nat
    BY <1>1, <2>1, PlacesFinite
  <2> QED BY <1>3, <2>2 DEF One, r
<1> QED BY <1>2, <1>3

\* Removing the first argument takes its emission off once and no other.
LEMMA CountTail ==
  ASSUME NEW q \in Seq(Emissions), q # <<>>, NEW n
  PROVE  Count(q, n) = Count(Tail(q), n) + One(Head(q).no = n)
<1> DEFINE r == Tail(q)
           P == Places(r, n)
           Q == Places(q, n) \ {1}
           f == [i \in P |-> i + 1]
<1>1. /\ r \in Seq(Emissions) /\ Len(r) = Len(q) - 1 /\ Len(q) \in Nat /\ Len(q) >= 1
      /\ \A i \in 1..Len(r) : r[i] = q[i + 1]
      /\ Head(q) = q[1]
  OBVIOUS
<1> HIDE DEF r
<1>2. P \subseteq 1..Len(r) /\ Q \subseteq 2..Len(q)
  BY <1>1 DEF Places
<1>3. f \in [P -> Q]
  BY <1>1, <1>2 DEF Places
<1>4. \A i, j \in P : f[i] = f[j] => i = j
  BY <1>1, <1>2
<1>5. ASSUME NEW j \in Q
      PROVE  \E i \in P : f[i] = j
  <2>1. j - 1 \in 1..Len(r) /\ (j - 1) + 1 = j
    BY <1>1, <1>2
  <2>2. r[j - 1] = q[j] /\ q[j].no = n
    BY <1>1, <2>1 DEF Places
  <2>3. j - 1 \in P
    BY <2>1, <2>2 DEF Places
  <2> QED BY <2>1, <2>3
<1>6. f \in Bijection(P, Q)
  BY <1>3, <1>4, <1>5 DEF Bijection, Injection, Surjection, IsInjective
<1>7. IsFiniteSet(P) /\ IsFiniteSet(Places(q, n))
  BY <1>1, PlacesFinite
<1>8. Cardinality(Q) = Cardinality(P)
  BY <1>6, <1>7, FS_Bijection DEF ExistsBijection
<1>9. Cardinality(Q) = Cardinality(Places(q, n)) - One(1 \in Places(q, n))
  BY <1>7, FS_RemoveElement, FS_CardinalityType DEF One
<1>10. 1 \in Places(q, n) <=> Head(q).no = n
  BY <1>1 DEF Places
<1>11. /\ Count(q, n) = Cardinality(Places(q, n)) /\ Count(q, n) \in Nat
       /\ Count(r, n) = Cardinality(P)
  BY <1>1, PlacesFinite
<1> QED BY <1>8, <1>9, <1>10, <1>11 DEF One, r

\* A step that leaves alone what a live slot has had, what it holds and who
\* serves it keeps its count.
LEMMA OnceKept ==
  ASSUME EachEmissionOnce, UNCHANGED <<taken, target>>,
         \A s \in Slots : status'[s] # "deleted" =>
           status[s] # "deleted" /\ args'[s] = args[s],
         \A s \in Slots, n \in 1..MaxEmits : Serving(s, n)' = Serving(s, n)
  PROVE  EachEmissionOnce'
<1> SUFFICES ASSUME NEW s \in Slots, status'[s] # "deleted", NEW n \in 1..MaxEmits
             PROVE  Count(taken'[s], n) + Count(args'[s], n) + Cardinality(Serving(s, n)')
                      = IF s \in target'[n] THEN 1 ELSE 0
  BY DEF EachEmissionOnce
<1> QED BY DEF EachEmissionOnce

LEMMA ServingFinite ==
  \A s, n : IsFiniteSet(Serving(s, n)) /\ Cardinality(Serving(s, n)) \in Nat
<1>1. IsFiniteSet(Threads)
  BY ActorsAssumption, FS_Subset DEF Actors
<1>2. \A s, n : Serving(s, n) \in SUBSET Threads
  BY DEF Serving
<1> QED BY <1>1, <1>2, FS_Subset, FS_CardinalityType

LEMMA OneLess ==
  ASSUME NEW S, IsFiniteSet(S), NEW x \in S, NEW T, T = S \ {x}
  PROVE  Cardinality(T) = Cardinality(S) - 1
  BY FS_RemoveElement

\* Threads whose place, slot, arguments and list of slots stay serve the same.
LEMMA ServingSame ==
  ASSUME \A t \in Threads :
           /\ val'[t] = val[t] /\ todo'[t] = todo[t]
           /\ pc'[t] = "arg" <=> pc[t] = "arg"
           /\ pc[t] = "arg" => cur'[t] = cur[t]
  PROVE  \A s, n : Serving(s, n)' = Serving(s, n)
  BY DEF Serving

\* The emit that begins has every connected slot to serve, and no slot has
\* anything of it yet; a push moves one from those to serve to those queued, a
\* pop one from those queued to those taken.
LEMMA OnceStep ==
  ASSUME Typed, Fresh, OrderInv, EachEmissionOnce, [Next]_vars
  PROVE  EachEmissionOnce'
<1> USE ActorsAssumption, MaxEmitsAssumption, NobodyAssumption
    DEF Typed, TypeOK, InEmit, Actors, history
<1>1. ASSUME NEW t \in Threads, Table(t)
      PROVE  EachEmissionOnce'
  <2>1. UNCHANGED <<pc, cur, todo, val, taken, target>>
    BY <1>1 DEF Table, ConnectMember, ConnectLambda, Disconnect, Clear
  <2>2. \A s, n : Serving(s, n)' = Serving(s, n)
    BY <2>1, ServingSame
  <2>3. \A s \in Slots : status'[s] # "deleted" =>
          status[s] # "deleted" /\ args'[s] = args[s]
    <3>1. ASSUME NEW r \in Slots, ConnectMember(t, r) \/ ConnectLambda(t, r)
          PROVE  \A s \in Slots : status'[s] # "deleted" =>
                   status[s] # "deleted" /\ args'[s] = args[s]
      BY <3>1 DEF ConnectMember, ConnectLambda, Connected
    <3>2. ASSUME NEW D, Delete(D)
          PROVE  \A s \in Slots : status'[s] # "deleted" =>
                   status[s] # "deleted" /\ args'[s] = args[s]
      BY <3>2 DEF Delete
    <3> QED BY <1>1, <3>1, <3>2 DEF Table, Disconnect, Clear
  <2> QED BY <2>1, <2>2, <2>3, OnceKept
<1>2. ASSUME NEW t \in Threads, Emit(t) \/ EmitSync(t)
      PROVE  EachEmissionOnce'
  <2>1. PICK sync \in BOOLEAN : EmitBegins(t, sync)
    BY <1>2 DEF Emit, EmitSync
  <2> DEFINE k == emits + 1
  <2>2. k \in 1..MaxEmits /\ val[t] = Nobody /\ target[k] = {}
    BY <2>1 DEF EmitBegins, Enters, Fresh
  <2>3. /\ val'[t] # Nobody /\ val'[t].no = k
        /\ \A u \in Threads \ {t} : val'[u] = val[u] /\ todo'[u] = todo[u] /\ pc'[u] = pc[u]
        /\ todo'[t] = Connected /\ pc'[t] = "emit"
        /\ target'[k] = Connected
        /\ \A n \in 1..MaxEmits \ {k} : target'[n] = target[n]
        /\ UNCHANGED <<status, args, taken, cur>>
    <3>1. [no |-> k, sync |-> sync] \in Emissions
      BY <2>2 DEF Emissions
    <3>2. [no |-> k, sync |-> sync] # Nobody
      BY <2>1, <3>1
    <3> QED BY <2>1, <2>2, <3>2 DEF EmitBegins
  <2> HIDE DEF k
  <2> SUFFICES ASSUME NEW s \in Slots, status[s] # "deleted", NEW n \in 1..MaxEmits
               PROVE  Count(taken[s], n) + Count(args[s], n) + Cardinality(Serving(s, n)')
                        = IF s \in target'[n] THEN 1 ELSE 0
    BY <2>3 DEF EachEmissionOnce
  <2>4. Count(taken[s], n) + Count(args[s], n) + Cardinality(Serving(s, n))
          = IF s \in target[n] THEN 1 ELSE 0
    BY DEF EachEmissionOnce
  <2>5. t \notin Serving(s, n)
    BY <2>2 DEF Serving
  <2>6. t \in Serving(s, n)' <=> (n = k /\ s \in Connected)
    BY <2>3 DEF Serving
  <2>7. \A u \in Threads \ {t} : u \in Serving(s, n)' <=> u \in Serving(s, n)
    BY <2>3 DEF Serving
  <2>8. Serving(s, n) \subseteq Threads /\ Serving(s, n)' \subseteq Threads
    BY DEF Serving
  <2>9. CASE n = k /\ s \in Connected
    <3>1. Serving(s, n)' = Serving(s, n) \cup {t}
      BY <2>6, <2>7, <2>8, <2>9
    <3>2. Cardinality(Serving(s, n)') = Cardinality(Serving(s, n)) + 1
      BY <2>5, <3>1, ServingFinite, FS_AddElement
    <3>3. Count(taken[s], n) \in Nat /\ Count(args[s], n) \in Nat
      BY PlacesFinite
    <3> QED BY <2>2, <2>3, <2>4, <2>9, <3>2, <3>3, ServingFinite
  <2>10. CASE ~(n = k /\ s \in Connected)
    <3>1. Serving(s, n)' = Serving(s, n)
      <4>1. Serving(s, n)' = Serving(s, n) \cap Threads
        BY <2>5, <2>6, <2>7, <2>8, <2>10
      <4> QED BY <2>8, <4>1
    <3>2. s \in target'[n] <=> s \in target[n]
      BY <2>2, <2>3, <2>10
    <3> QED BY <2>4, <3>1, <3>2
  <2> QED BY <2>9, <2>10
<1>3. ASSUME NEW t \in Threads, NEW s \in Slots, AddArgBegin(t, s)
      PROVE  EachEmissionOnce'
  <2>1. UNCHANGED <<status, args, val, taken, target>> /\ pc[t] = "emit" /\ s \in todo[t]
    BY <1>3 DEF AddArgBegin
  <2>2. CASE UNCHANGED <<todo, cur, pc>>
    <3>1. \A r, n : Serving(r, n)' = Serving(r, n)
      BY <2>1, <2>2, ServingSame
    <3> QED BY <2>1, <3>1, OnceKept
  <2>3. CASE /\ todo' = [todo EXCEPT ![t] = @ \ {s}]
             /\ cur' = [cur EXCEPT ![t] = s]
             /\ pc' = [pc EXCEPT ![t] = "arg"]
    <3>1. \A u \in Threads \ {t} : todo'[u] = todo[u] /\ cur'[u] = cur[u] /\ pc'[u] = pc[u]
      BY <2>3
    <3>2. todo'[t] = todo[t] \ {s} /\ cur'[t] = s /\ pc'[t] = "arg"
      BY <2>3
    <3>3. \A r, n : Serving(r, n)' = Serving(r, n)
      <4> SUFFICES ASSUME NEW r, NEW n
                   PROVE  Serving(r, n)' = Serving(r, n)
        OBVIOUS
      <4>1. t \in Serving(r, n)' <=> t \in Serving(r, n)
        BY <2>1, <3>2 DEF Serving
      <4>2. \A u \in Threads \ {t} : u \in Serving(r, n)' <=> u \in Serving(r, n)
        BY <2>1, <3>1 DEF Serving
      <4>3. Serving(r, n) \subseteq Threads /\ Serving(r, n)' \subseteq Threads
        BY DEF Serving
      <4>4. Serving(r, n)' = Serving(r, n) \cap Threads
        BY <4>1, <4>2, <4>3
      <4> QED BY <4>3, <4>4
    <3> QED BY <2>1, <3>3, OnceKept
  <2> QED BY <1>3, <2>2, <2>3 DEF AddArgBegin
<1>4. ASSUME NEW t \in Threads, AddArgEnd(t)
      PROVE  EachEmissionOnce'
  <2>1. UNCHANGED <<status, cur, todo, val, taken, target>> /\ pc[t] = "arg"
    BY <1>4 DEF AddArgEnd
  <2> PICK s \in Slots : cur[t] = s
    BY <1>4 DEF AddArgEnd
  <2>2. CASE UNCHANGED <<args, pc>>
    <3>1. \A r, n : Serving(r, n)' = Serving(r, n)
      BY <2>1, <2>2, ServingSame
    <3> QED BY <2>1, <2>2, <3>1, OnceKept
  <2>3. CASE /\ args' = [args EXCEPT ![s] = Append(@, val[t])]
             /\ pc' = [pc EXCEPT ![t] = IF val[t].sync THEN "invoke" ELSE "post"]
    <3>1. /\ val[t] \in Emissions /\ s \notin todo[t] /\ pc'[t] # "arg"
          /\ \A u \in Threads \ {t} : pc'[u] = pc[u]
          /\ args'[s] = Append(args[s], val[t])
          /\ \A r \in Slots \ {s} : args'[r] = args[r]
      BY <2>1, <2>3 DEF OrderInv
    <3> SUFFICES ASSUME NEW r \in Slots, status[r] # "deleted", NEW n \in 1..MaxEmits
                 PROVE  Count(taken[r], n) + Count(args'[r], n) + Cardinality(Serving(r, n)')
                          = IF r \in target[n] THEN 1 ELSE 0
      BY <2>1 DEF EachEmissionOnce
    <3>2. Count(taken[r], n) + Count(args[r], n) + Cardinality(Serving(r, n))
            = IF r \in target[n] THEN 1 ELSE 0
      BY DEF EachEmissionOnce
    <3>3. Serving(r, n) \subseteq Threads /\ Serving(r, n)' \subseteq Threads
      BY DEF Serving
    <3>4. \A u \in Threads \ {t} : u \in Serving(r, n)' <=> u \in Serving(r, n)
      BY <2>1, <3>1 DEF Serving
    <3>7. Count(args'[s], n) = Count(args[s], n) + One(val[t].no = n)
      BY <3>1, CountAppend
    <3>8. Count(taken[r], n) \in Nat /\ Count(args[r], n) \in Nat
      BY PlacesFinite
    <3>5. CASE r = s /\ val[t].no = n
      <4>1. Serving(r, n)' = Serving(r, n) \ {t} /\ t \in Serving(r, n)
        <5>1. t \in Serving(r, n)
          BY <2>1, <3>1, <3>5 DEF Serving
        <5>2. t \notin Serving(r, n)'
          BY <2>1, <3>1, <3>5 DEF Serving
        <5> QED BY <3>3, <3>4, <5>1, <5>2
      <4>2. Cardinality(Serving(r, n)') = Cardinality(Serving(r, n)) - 1
        BY <4>1, ServingFinite, OneLess
      <4>3. Count(args'[r], n) = Count(args[r], n) + 1
        BY <3>5, <3>7 DEF One
      <4> QED BY <3>2, <3>8, <4>2, <4>3, ServingFinite
    <3>6. CASE ~(r = s /\ val[t].no = n)
      <4>1. t \in Serving(r, n)' <=> t \in Serving(r, n)
        BY <2>1, <3>1, <3>6 DEF Serving
      <4>2. Serving(r, n)' = Serving(r, n)
        <5>1. Serving(r, n)' = Serving(r, n) \cap Threads
          BY <3>3, <3>4, <4>1
        <5> QED BY <3>3, <5>1
      <4>3. Count(args'[r], n) = Count(args[r], n)
        <5>1. CASE r # s
          BY <3>1, <5>1
        <5>2. CASE val[t].no # n /\ r = s
          <6>1. Count(args'[s], n) = Count(args[s], n) + 0
            BY <3>7, <5>2 DEF One
          <6> QED BY <3>8, <5>2, <6>1
        <5> QED BY <3>6, <5>1, <5>2
      <4> QED BY <3>2, <4>2, <4>3
    <3> QED BY <3>5, <3>6
  <2> QED BY <1>4, <2>2, <2>3 DEF AddArgEnd
<1>5. ASSUME NEW t \in Threads, AddToEventLoop(t)
      PROVE  EachEmissionOnce'
  <2>1. UNCHANGED <<status, args, todo, val, taken, target>>
    BY <1>5 DEF AddToEventLoop
  <2>2. \A s, n : Serving(s, n)' = Serving(s, n)
    BY <1>5, <2>1, ServingSame DEF AddToEventLoop
  <2> QED BY <2>1, <2>2, OnceKept
<1>6. ASSUME NEW t \in Threads, EmitEnd(t)
      PROVE  EachEmissionOnce'
  <2>1. /\ UNCHANGED <<status, args, cur, todo, taken, target>>
        /\ \A u \in Threads \ {t} : pc'[u] = pc[u] /\ val'[u] = val[u]
        /\ pc[t] = "emit" /\ todo[t] = {} /\ val'[t] = Nobody
    BY <1>6 DEF EmitEnd
  <2>2. \A s, n : Serving(s, n)' = Serving(s, n)
    BY <2>1 DEF Serving
  <2> QED BY <2>1, <2>2, OnceKept
<1>7. ASSUME NEW l \in Loops, NEW s \in Slots, LoopInvokes(l, s)
      PROVE  EachEmissionOnce'
  <2>1. /\ UNCHANGED <<status, args, todo, val, taken, target>>
        /\ \A u \in Threads : pc'[u] = pc[u] /\ cur'[u] = cur[u]
    BY <1>7 DEF LoopInvokes
  <2>2. \A r, n : Serving(r, n)' = Serving(r, n)
    BY <2>1, ServingSame
  <2> QED BY <2>1, <2>2, OnceKept
<1>8. ASSUME NEW a \in Actors, Take(a)
      PROVE  EachEmissionOnce'
  <2>1. UNCHANGED <<status, cur, todo, val, target>> /\ pc[a] = "invoke"
    BY <1>8 DEF Take
  <2> PICK s \in Slots : cur[a] = s
    BY <1>8 DEF Take
  <2>2. CASE UNCHANGED <<taken, args, pc>>
    <3>1. \A r, n : Serving(r, n)' = Serving(r, n)
      BY <2>1, <2>2, ServingSame
    <3> QED BY <2>1, <2>2, <3>1, OnceKept
  <2>3. CASE /\ args[s] # <<>>
             /\ taken' = [taken EXCEPT ![s] = Append(@, Head(args[s]))]
             /\ args' = [args EXCEPT ![s] = Tail(@)]
             /\ pc' = [pc EXCEPT ![a] = "apply"]
    <3>1. \A r, n : Serving(r, n)' = Serving(r, n)
      <4>1. \A u \in Threads : pc'[u] = "arg" <=> pc[u] = "arg"
        BY <2>1, <2>3
      <4> QED BY <2>1, <4>1, ServingSame
    <3>2. /\ taken'[s] = Append(taken[s], Head(args[s])) /\ args'[s] = Tail(args[s])
          /\ \A r \in Slots \ {s} : taken'[r] = taken[r] /\ args'[r] = args[r]
          /\ Head(args[s]) \in Emissions
      BY <2>3
    <3>3. \A n \in 1..MaxEmits :
            Count(taken'[s], n) + Count(args'[s], n) = Count(taken[s], n) + Count(args[s], n)
      <4> SUFFICES ASSUME NEW n \in 1..MaxEmits
                   PROVE  Count(taken'[s], n) + Count(args'[s], n)
                            = Count(taken[s], n) + Count(args[s], n)
        OBVIOUS
      <4>1. Count(taken'[s], n) = Count(taken[s], n) + One(Head(args[s]).no = n)
        BY <3>2, CountAppend
      <4>2. Count(args[s], n) = Count(args'[s], n) + One(Head(args[s]).no = n)
        BY <2>3, <3>2, CountTail
      <4>3. One(Head(args[s]).no = n) \in Nat
        BY DEF One
      <4>4. Tail(args[s]) \in Seq(Emissions)
        BY <2>3
      <4>5. Count(taken[s], n) \in Nat /\ Count(args'[s], n) \in Nat
        BY <3>2, <4>4, PlacesFinite
      <4> QED BY <4>1, <4>2, <4>3, <4>5
    <3> SUFFICES ASSUME NEW r \in Slots, status[r] # "deleted", NEW n \in 1..MaxEmits
                 PROVE  Count(taken'[r], n) + Count(args'[r], n) + Cardinality(Serving(r, n))
                          = IF r \in target[n] THEN 1 ELSE 0
      BY <2>1, <3>1 DEF EachEmissionOnce
    <3>4. Count(taken'[r], n) + Count(args'[r], n) = Count(taken[r], n) + Count(args[r], n)
      BY <3>2, <3>3
    <3> QED BY <3>4 DEF EachEmissionOnce
  <2> QED BY <1>8, <2>2, <2>3 DEF Take
<1>9. ASSUME NEW a \in Actors, Apply(a)
      PROVE  EachEmissionOnce'
  <2>1. /\ UNCHANGED <<status, args, todo, val, taken, target>>
        /\ \A u \in Threads : pc'[u] = "arg" <=> pc[u] = "arg"
        /\ \A u \in Threads : pc[u] = "arg" => cur'[u] = cur[u]
    BY <1>9 DEF Apply
  <2>2. \A s, n : Serving(s, n)' = Serving(s, n)
    BY <2>1, ServingSame
  <2> QED BY <2>1, <2>2, OnceKept
<1>10. CASE UNCHANGED vars
  <2>1. UNCHANGED <<status, args, pc, cur, todo, val, taken, target>>
    BY <1>10 DEF vars
  <2>2. \A s, n : Serving(s, n)' = Serving(s, n)
    BY <2>1, ServingSame
  <2> QED BY <2>1, <2>2, OnceKept
<1> QED
  BY <1>1, <1>2, <1>3, <1>4, <1>5, <1>6, <1>7, <1>8, <1>9, <1>10
  DEF Next, EmitStep, LoopStep, InvkeStep
-----------------------------------------------------------------------------
SInv == /\ Typed /\ Modes /\ Fresh
        /\ AsyncEmitTouchesLive /\ ArgsMatchEvents /\ OrderInv /\ EachEmissionOnce

LEMMA InitSInv == Init => SInv
<1> SUFFICES ASSUME Init PROVE SInv
  OBVIOUS
<1>1. Typed
  BY InitTyped
<1>2. Modes /\ AsyncEmitTouchesLive
  BY NobodyAssumption DEF Init, Modes, AsyncEmitTouchesLive, Actors
<1>3. ArgsMatchEvents
  <2>1. \A s : Owed(s) = {}
    BY DEF Init, Owed
  <2>2. Cardinality({}) = 0
    BY FS_EmptySet
  <2>3. \A s \in Slots : args[s] = <<>> /\ posted[s] = 0 /\ invoked[s] = 0
    BY DEF Init
  <2>4. Len(<<>>) = 0
    OBVIOUS
  <2>5. \A s \in Slots : Len(args[s]) = 0
    BY <2>3, <2>4, Zenon
  <2>6. \A s \in Slots : Cardinality(Owed(s)) = 0
    BY <2>1, <2>2, Zenon
  <2> QED BY <2>3, <2>5, <2>6 DEF ArgsMatchEvents
<1>4. OrderInv
  BY NobodyAssumption
  DEF Init, OrderInv, SlotInOrder, NextInOrder, Ordered, Below, Actors
<1>5. Fresh
  BY DEF Init, Fresh
<1>6. EachEmissionOnce
  <2>1. \A s, n : Serving(s, n) = {}
    BY DEF Init, Serving
  <2>2. Cardinality({}) = 0
    BY FS_EmptySet
  <2>3. \A n : Count(<<>>, n) = 0
    <3>1. \A n : {i \in 1..Len(<<>>) : <<>>[i].no = n} = {}
      OBVIOUS
    <3> QED BY <2>2, <3>1 DEF Count
  <2>4. \A s \in Slots : args[s] = <<>> /\ taken[s] = <<>>
    BY DEF Init
  <2>5. \A n \in 1..MaxEmits : target[n] = {}
    BY DEF Init
  <2>6. \A s \in Slots : \A n \in 1..MaxEmits :
          Count(taken[s], n) = 0 /\ Count(args[s], n) = 0 /\ Cardinality(Serving(s, n)) = 0
    BY <2>1, <2>2, <2>3, <2>4, Zenon
  <2> QED BY <2>5, <2>6 DEF EachEmissionOnce
<1> QED BY <1>1, <1>2, <1>3, <1>4, <1>5, <1>6 DEF SInv

LEMMA NextSInv == SInv /\ [Next]_vars => SInv'
  BY TypedStep, ModesStep, FreshStep, LiveStep, AccountStep, OrderStep, OnceStep
  DEF SInv

\* The inductive invariant of a signal, its slots and their loops.
THEOREM Invariance == Spec => []SInv
  BY InitSInv, NextSInv, PTL DEF Spec

\* The variables keep their types.
THEOREM TypeCorrect == Spec => []TypeOK
<1>1. SInv => TypeOK
  BY DEF SInv, Typed
<1> QED BY <1>1, Invariance, PTL

\* Invke never finds the argument queue of a living slot empty: there is one
\* argument for each event and each Invke under way.
THEOREM AccountsBalance == Spec => []ArgsMatchEvents
<1>1. SInv => ArgsMatchEvents
  BY DEF SInv
<1> QED BY <1>1, Invariance, PTL

\* An asynchronous emit uses connected slots only, whatever other threads do.
THEOREM AsyncEmitIsSafe == Spec => []AsyncEmitTouchesLive
<1>1. SInv => AsyncEmitTouchesLive
  BY DEF SInv
<1> QED BY <1>1, Invariance, PTL

\* Asynchronous emissions leave each slot in the order of their emits.
THEOREM EmitOrder == Spec => []TakenInEmitOrder
<1>1. SInv => TakenInEmitOrder
  BY DEF SInv, OrderInv, SlotInOrder, Ordered, TakenInEmitOrder
<1> QED BY <1>1, Invariance, PTL

\* An emission reaches each slot that was connected when it took the lock once,
\* and no other slot, as long as the slot is not deleted.
THEOREM EmissionsArriveOnce == Spec => []EachEmissionOnce
<1>1. SInv => EachEmissionOnce
  BY DEF SInv
<1> QED BY <1>1, Invariance, PTL

-----------------------------------------------------------------------------
\* Every step sends, delivers, discards or breaks in Mailbox, or is none of
\* its business: a slot's function gets each argument at most once, in order.
THEOREM Refinement == Spec => Box!Spec
<1>1. Init => Box!Init
  BY DEF Init, Box!Init
<1>2. SInv /\ [Next]_vars => [Box!Next]_(Box!vars)
  <2> SUFFICES ASSUME SInv, [Next]_vars
               PROVE  [Box!Next]_(Box!vars)
    OBVIOUS
  <2> USE DEF Box!vars, SInv, Typed, TypeOK, InEmit, history
  <2>1. ASSUME NEW t \in Threads, Table(t)
        PROVE  Box!Next \/ UNCHANGED Box!vars
    <3>1. UNCHANGED <<taken, ub>>
      BY <2>1 DEF Table, ConnectMember, ConnectLambda, Disconnect, Clear
    <3>2. ASSUME NEW D, Delete(D), D \subseteq Slots
          PROVE  Box!Next
      BY <3>1, <3>2 DEF Delete, Box!Next, Box!Discard
    <3>3. CASE UNCHANGED args
      BY <3>1, <3>3
    <3> QED
      BY <2>1, <3>2, <3>3
      DEF Table, ConnectMember, ConnectLambda, Disconnect, Clear, Connected
  <2>2. ASSUME NEW t \in Threads, Emit(t) \/ EmitSync(t) \/ EmitEnd(t) \/ AddToEventLoop(t)
        PROVE  UNCHANGED Box!vars
    BY <2>2 DEF Emit, EmitSync, EmitBegins, EmitEnd, AddToEventLoop
  <2>3. ASSUME NEW t \in Threads, NEW s \in Slots, AddArgBegin(t, s)
        PROVE  Box!Next \/ UNCHANGED Box!vars
    BY <2>3 DEF AddArgBegin, Box!Next, Box!Break
  <2>4. ASSUME NEW t \in Threads, AddArgEnd(t)
        PROVE  Box!Next
    <3>1. cur[t] \in Slots /\ val[t] \in Emissions
      BY <2>4 DEF AddArgEnd, Actors
    <3>2. Box!Send(cur[t], val[t]) \/ Box!Break
      BY <2>4 DEF AddArgEnd, Box!Send, Box!Break
    <3> QED BY <3>1, <3>2 DEF Box!Next
  <2>5. ASSUME NEW l \in Loops, NEW s \in Slots, LoopInvokes(l, s)
        PROVE  UNCHANGED Box!vars
    BY <2>5 DEF LoopInvokes
  <2>6. ASSUME NEW a \in Actors, Take(a)
        PROVE  Box!Next
    <3>1. cur[a] \in Slots
      BY <2>6 DEF Take
    <3>2. Box!Deliver(cur[a]) \/ Box!Break
      BY <2>6 DEF Take, Box!Deliver, Box!Break
    <3> QED BY <3>1, <3>2 DEF Box!Next
  <2>7. ASSUME NEW a \in Actors, Apply(a)
        PROVE  Box!Next \/ UNCHANGED Box!vars
    BY <2>7 DEF Apply, Box!Next, Box!Break
  <2>8. CASE UNCHANGED vars
    BY <2>8 DEF vars
  <2> QED
    BY <2>1, <2>2, <2>3, <2>4, <2>5, <2>6, <2>7, <2>8
    DEF Next, EmitStep, LoopStep, InvkeStep
<1> QED BY <1>1, <1>2, Invariance, PTL DEF Spec, Box!Spec
=============================================================================
