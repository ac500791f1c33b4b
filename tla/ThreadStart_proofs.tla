------------------------- MODULE ThreadStart_proofs -------------------------
(***************************************************************************)
(* Safety of ThreadStart for any objects, thread ids and posters: when     *)
(* start has returned, and not by chance, the object is bound to the       *)
(* created thread's loop, and what is posted from then on goes there.      *)
(***************************************************************************)
EXTENDS ThreadStart, TLAPS

\* The child of o has bound the object to its own loop.
Moved(o) == child[o] \notin {"none", "move"} /\ bound[o] = id[o]

\* Whatever lets the parent go comes after the child has moved the object.
Handshake(o) ==
  /\ child[o] = "none" <=> parent[o] = "new"
  /\ child[o] # "none" => id[o] \in Ids
  /\ child[o] \notin {"none", "move"} => bound[o] = id[o]
  /\ isLock[o] => Moved(o)
  /\ (parent[o] = "woken" /\ ~chance[o]) => Moved(o)
  /\ Settled(o) => Moved(o)

\* Events and emissions begun after start go to a loop that stays the object's.
PostsFollow ==
  /\ \A e \in queue : e.event.settled =>
       Moved(e.event.obj) /\ e.core = id[e.event.obj]
  /\ \A p \in Posters : (poster[p].at = "push" /\ poster[p].event.settled) =>
       Moved(poster[p].event.obj) /\ poster[p].core = id[poster[p].event.obj]

TInv == TypeOK /\ (\A o \in Objs : Handshake(o)) /\ PostsFollow

-----------------------------------------------------------------------------
LEMMA InitTInv == Init => TInv
<1> SUFFICES ASSUME Init PROVE TInv
  OBVIOUS
<1>1. 0 \in 0..MaxPosts
  BY MaxPostsAssumption
<1>2. TypeOK
  BY <1>1, Zenon DEF Init, TypeOK, Cores, Posts
<1>3. (\A o \in Objs : Handshake(o)) /\ PostsFollow
  BY DEF Init, Handshake, PostsFollow, Settled, Moved, NoPost
<1> QED BY <1>2, <1>3 DEF TInv

\* A record of the queue or of a poster keeps its type.
LEMMA TypeStep == TypeOK /\ (\A o \in Objs : Handshake(o)) /\ [Next]_vars => TypeOK'
<1> SUFFICES ASSUME TypeOK, \A o \in Objs : Handshake(o), [Next]_vars
             PROVE  TypeOK'
  OBVIOUS
<1> USE MaxPostsAssumption DEF TypeOK, startVars, postVars, Cores
<1>1. ASSUME NEW o \in Objs, Spawn(o) \/ ParentStep(o) \/ SpuriousWake(o)
      PROVE  TypeOK'
  <2>1. CASE Spawn(o)
    <3>1. id' \in [Objs -> Ids \cup {NoId}]
      BY <2>1 DEF Spawn
    <3> QED BY <2>1, <3>1 DEF Spawn
  <2>2. CASE ParentLocks(o)
    BY <2>2 DEF ParentLocks
  <2>3. CASE ParentTests(o)
    BY <2>3 DEF ParentTests
  <2>4. CASE ParentReturns(o) \/ SpuriousWake(o)
    BY <2>4 DEF ParentReturns, SpuriousWake
  <2> QED BY <1>1, <2>1, <2>2, <2>3, <2>4 DEF ParentStep
<1>2. ASSUME NEW o \in Objs, ChildMoves(o)
      PROVE  TypeOK'
  BY <1>2 DEF ChildMoves, Handshake
<1>3. ASSUME NEW o \in Objs,
             ChildTriesLock(o) \/ ChildSets(o) \/ ChildUnlocks(o) \/ ChildNotifies(o)
               \/ ChildExecs(o) \/ ChildDangles(o)
      PROVE  TypeOK'
  BY <1>3 DEF ChildTriesLock, ChildSets, ChildUnlocks, ChildNotifies, ChildExecs, ChildDangles
<1>4. ASSUME NEW o \in Objs, ChildEmits(o)
      PROVE  TypeOK'
  <2> DEFINE ev == [obj |-> o, no |-> 0, settled |-> Settled(o)]
  <2>1. 0 \in 0..MaxPosts /\ Settled(o) \in BOOLEAN
    BY DEF Settled
  <2>2. [core |-> bound[o], event |-> ev] \in [core : Cores, event : Events]
    BY <2>1 DEF Events
  <2>3. queue' = queue \cup {[core |-> bound[o], event |-> ev]}
    BY <1>4 DEF ChildEmits
  <2>4. queue' \in SUBSET [core : Cores, event : Events]
    BY <2>2, <2>3
  <2> QED BY <1>4, <2>4 DEF ChildEmits
<1>5. ASSUME NEW o \in Objs, WaitQuit(o)
      PROVE  TypeOK'
  BY <1>5 DEF WaitQuit
<1>6. ASSUME NEW p \in Posters, NEW o \in Objs, PostLocks(p, o)
      PROVE  TypeOK'
  BY <1>6 DEF PostLocks, Posts, Events, Settled
<1>7. ASSUME NEW p \in Posters, PostPushes(p)
      PROVE  TypeOK'
  BY <1>7 DEF PostPushes, Posts, NoPost, Events
<1>8. ASSUME NEW p \in Posters, PostNotifies(p)
      PROVE  TypeOK'
  BY <1>8 DEF PostNotifies, Posts
<1>9. CASE UNCHANGED vars
  BY <1>9 DEF vars
<1> QED
  BY <1>1, <1>2, <1>3, <1>4, <1>5, <1>6, <1>7, <1>8, <1>9
  DEF Next, ChildStep, PosterStep
-----------------------------------------------------------------------------
\* Only the child's own move changes what an object is bound to, and nothing
\* lets the parent go before it.
LEMMA HandshakeStep ==
  ASSUME TypeOK, \A o \in Objs : Handshake(o), [Next]_vars
  PROVE  /\ \A o \in Objs : Handshake(o)'
         /\ \A o \in Objs : Moved(o) => Moved(o)' /\ id'[o] = id[o]
<1> DEFINE Kept == /\ \A o \in Objs : Handshake(o)'
                   /\ \A o \in Objs : Moved(o) => Moved(o)' /\ id'[o] = id[o]
<1> USE DEF TypeOK, Handshake, Moved, Settled, startVars, postVars
<1>1. ASSUME NEW o \in Objs, Spawn(o)
      PROVE  Kept
  BY <1>1 DEF Spawn
<1>2. ASSUME NEW o \in Objs, ParentStep(o)
      PROVE  Kept
  BY <1>2 DEF ParentStep, ParentLocks, ParentTests, ParentReturns
<1>3. ASSUME NEW o \in Objs, SpuriousWake(o)
      PROVE  Kept
  BY <1>3 DEF SpuriousWake
<1>4. ASSUME NEW o \in Objs, ChildMoves(o)
      PROVE  Kept
  BY <1>4 DEF ChildMoves
<1>5. ASSUME NEW o \in Objs, ChildTriesLock(o) \/ ChildSets(o) \/ ChildUnlocks(o)
      PROVE  Kept
  BY <1>5 DEF ChildTriesLock, ChildSets, ChildUnlocks
<1>6. ASSUME NEW o \in Objs, ChildNotifies(o)
      PROVE  Kept
  BY <1>6 DEF ChildNotifies
<1>7. ASSUME NEW o \in Objs, ChildEmits(o) \/ ChildExecs(o) \/ ChildDangles(o)
      PROVE  Kept
  BY <1>7 DEF ChildEmits, ChildExecs, ChildDangles
<1>8. ASSUME NEW o \in Objs, WaitQuit(o)
      PROVE  Kept
  BY <1>8 DEF WaitQuit
<1>9. ASSUME NEW p \in Posters, PosterStep(p)
      PROVE  Kept
  BY <1>9 DEF PosterStep, PostLocks, PostPushes, PostNotifies
<1>10. CASE UNCHANGED vars
  BY <1>10 DEF vars
<1> QED
  BY <1>1, <1>2, <1>3, <1>4, <1>5, <1>6, <1>7, <1>8, <1>9, <1>10 DEF Next, ChildStep

\* What is posted to a settled object is bound for its child's loop.
LEMMA PostsFollowStep ==
  ASSUME TInv, [Next]_vars
  PROVE  PostsFollow'
<1> USE DEF TInv, TypeOK, PostsFollow, Moved
<1>1. \A o \in Objs : Moved(o) => Moved(o)' /\ id'[o] = id[o]
  BY HandshakeStep
<1>2. \A e \in queue : e.event.obj \in Objs
  BY DEF Events
<1>3. \A p \in Posters : poster[p].at = "push" => poster[p].event.obj \in Objs
  BY DEF Posts, NoPost, Events
<1>4. CASE UNCHANGED poster /\ queue' \subseteq queue
  BY <1>1, <1>2, <1>3, <1>4
<1>5. ASSUME NEW o \in Objs, ChildEmits(o)
      PROVE  PostsFollow'
  <2>1. Settled(o) => Moved(o) /\ bound[o] = id[o]
    BY DEF Handshake, Moved
  <2> PICK e : e = [core |-> bound[o],
                    event |-> [obj |-> o, no |-> 0, settled |-> Settled(o)]]
    OBVIOUS
  <2>2. queue' = queue \cup {e} /\ UNCHANGED poster
    BY <1>5 DEF ChildEmits
  <2>3. e.event.obj = o /\ e.core = bound[o] /\ e.event.settled = Settled(o)
    OBVIOUS
  <2>4. e.event.settled => /\ child'[o] \notin {"none", "move"} /\ bound'[o] = id'[o]
                           /\ e.core = id'[o]
    BY <1>1, <2>1, <2>3
  <2>5. \A f \in queue : f.event.settled =>
          /\ child'[f.event.obj] \notin {"none", "move"}
          /\ bound'[f.event.obj] = id'[f.event.obj] /\ f.core = id'[f.event.obj]
    BY <1>1, <1>2
  <2> QED BY <1>1, <1>3, <2>2, <2>3, <2>4, <2>5
<1>6. ASSUME NEW p \in Posters, NEW o \in Objs, PostLocks(p, o)
      PROVE  PostsFollow'
  <2>1. Settled(o) => Moved(o) /\ bound[o] = id[o]
    BY DEF Handshake, Moved
  <2>2. /\ queue' = queue
        /\ poster' = [poster EXCEPT ![p] =
             [at |-> "push", core |-> bound[o],
              event |-> [obj |-> o, no |-> posts + 1, settled |-> Settled(o)]]]
    BY <1>6 DEF PostLocks
  <2>3. /\ poster'[p].event.obj = o /\ poster'[p].core = bound[o]
        /\ poster'[p].event.settled = Settled(o)
        /\ \A q \in Posters \ {p} : poster'[q] = poster[q]
    BY <2>2
  <2>4. poster'[p].event.settled => /\ child'[o] \notin {"none", "move"}
                                    /\ bound'[o] = id'[o] /\ poster'[p].core = id'[o]
    BY <1>1, <2>1, <2>3
  <2>5. \A q \in Posters \ {p} : (poster'[q].at = "push" /\ poster'[q].event.settled) =>
          /\ child'[poster'[q].event.obj] \notin {"none", "move"}
          /\ bound'[poster'[q].event.obj] = id'[poster'[q].event.obj]
          /\ poster'[q].core = id'[poster'[q].event.obj]
    BY <1>1, <1>3, <2>3
  <2>6. \A f \in queue : f.event.settled =>
          /\ child'[f.event.obj] \notin {"none", "move"}
          /\ bound'[f.event.obj] = id'[f.event.obj] /\ f.core = id'[f.event.obj]
    BY <1>1, <1>2
  <2> QED BY <2>2, <2>3, <2>4, <2>5, <2>6
<1>7. ASSUME NEW p \in Posters, PostPushes(p)
      PROVE  PostsFollow'
  <2> PICK o \in Objs : poster[p].event.obj = o
    BY <1>3, <1>7 DEF PostPushes
  <2> PICK e : e = [core |-> bound[o], event |-> poster[p].event]
    OBVIOUS
  <2>1. queue' = queue \cup {e} /\ poster' = [poster EXCEPT ![p].at = "notify"]
    BY <1>7 DEF PostPushes
  <2>2. /\ e.event.obj = o /\ e.core = bound[o]
        /\ e.event.settled => child[o] \notin {"none", "move"} /\ bound[o] = id[o]
    BY <1>7 DEF PostPushes
  <2>3. e.event.settled => /\ child'[o] \notin {"none", "move"} /\ bound'[o] = id'[o]
                           /\ e.core = id'[o]
    BY <1>1, <2>2
  <2>4. \A f \in queue : f.event.settled =>
          /\ child'[f.event.obj] \notin {"none", "move"}
          /\ bound'[f.event.obj] = id'[f.event.obj] /\ f.core = id'[f.event.obj]
    BY <1>1, <1>2
  <2>5. \A f \in queue' : f.event.settled =>
          /\ child'[f.event.obj] \notin {"none", "move"}
          /\ bound'[f.event.obj] = id'[f.event.obj] /\ f.core = id'[f.event.obj]
    BY <2>1, <2>2, <2>3, <2>4
  <2>6. poster'[p].at = "notify" /\ \A q \in Posters \ {p} : poster'[q] = poster[q]
    BY <1>7, <2>1 DEF PostPushes, Posts, NoPost
  <2>7. \A q \in Posters : (poster'[q].at = "push" /\ poster'[q].event.settled) =>
          /\ child'[poster'[q].event.obj] \notin {"none", "move"}
          /\ bound'[poster'[q].event.obj] = id'[poster'[q].event.obj]
          /\ poster'[q].core = id'[poster'[q].event.obj]
    BY <1>1, <1>3, <2>6
  <2> QED BY <2>5, <2>7
<1>8. ASSUME NEW p \in Posters, PostNotifies(p)
      PROVE  PostsFollow'
  <2>1. /\ queue' = queue
        /\ poster'[p].at = "idle"
        /\ \A q \in Posters \ {p} : poster'[q] = poster[q]
    BY <1>8 DEF PostNotifies, NoPost
  <2> QED BY <1>1, <1>2, <1>3, <2>1
<1>9. ASSUME NEW o \in Objs,
             Spawn(o) \/ ParentStep(o) \/ SpuriousWake(o) \/ ChildMoves(o)
               \/ ChildTriesLock(o) \/ ChildSets(o) \/ ChildUnlocks(o)
               \/ ChildNotifies(o) \/ ChildExecs(o) \/ ChildDangles(o) \/ WaitQuit(o)
      PROVE  UNCHANGED poster /\ queue' \subseteq queue
  BY <1>9 DEF Spawn, ParentStep, ParentLocks, ParentTests, ParentReturns, SpuriousWake,
              ChildMoves, ChildTriesLock, ChildSets, ChildUnlocks, ChildNotifies,
              ChildExecs, ChildDangles, WaitQuit, postVars
<1>10. CASE UNCHANGED vars
  BY <1>4, <1>10 DEF vars
<1> QED
  BY <1>4, <1>5, <1>6, <1>7, <1>8, <1>9, <1>10 DEF Next, ChildStep, PosterStep

\* The inductive invariant of the handshake and the posts.
THEOREM Invariance == Spec => []TInv
<1>1. TInv /\ [Next]_vars => TInv'
  BY TypeStep, HandshakeStep, PostsFollowStep DEF TInv
<1> QED BY <1>1, InitTInv, PTL DEF Spec

\* The variables keep their types.
THEOREM TypeCorrect == Spec => []TypeOK
<1>1. TInv => TypeOK
  BY DEF TInv
<1> QED BY <1>1, Invariance, PTL

\* After start the object is bound to the loop of the created thread.
THEOREM StartMoves == Spec => []ReturnMeansMoved
<1>1. TInv => ReturnMeansMoved
  BY DEF TInv, Handshake, Moved, ReturnMeansMoved
<1> QED BY <1>1, Invariance, PTL

\* What is emitted after start goes to that loop, under that loop's mutex.
THEOREM PostsReachChild == Spec => []SettledPostsReachChild
<1>1. TInv => SettledPostsReachChild
  BY DEF TInv, PostsFollow, Moved, SettledPostsReachChild
<1> QED BY <1>1, Invariance, PTL
=============================================================================
