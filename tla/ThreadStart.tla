---------------------------- MODULE ThreadStart ----------------------------
(***************************************************************************)
(* Thread::start: the thread that calls it (the parent) and the thread it  *)
(* creates (the child) meet through isLock, startMutex and cond, which are *)
(* locals of start that the child uses by reference.  Other threads may    *)
(* post to the Thread object while the child moves it to its own loop.     *)
(*                                                                         *)
(* The CoreData of a thread id is made the first time the id asks for it   *)
(* and object_map never forgets it, so a loop is named by its thread id.   *)
(***************************************************************************)
EXTENDS Integers, FiniteSets

CONSTANTS Objs,             \* Thread objects
          Ids,              \* ids of the threads they may run on
          Main,             \* the thread that constructs the objects
          NoId,
          Posters,          \* threads that emit signals connected to an object
          MaxPosts,         \* bound on those emissions
          SpuriousWakeups   \* may cond.wait return unnotified

ASSUME IdsAssumption == Main \notin Ids /\ NoId \notin Ids \cup {Main}
ASSUME MaxPostsAssumption == MaxPosts \in Nat
ASSUME SpuriousAssumption == SpuriousWakeups \in BOOLEAN

VARIABLES
  parent,    \* where the caller of start is
  child,     \* where the created thread is
  holder,    \* of startMutex
  isLock,
  id,        \* the child's thread id
  bound,     \* object_loop of each object, named by its thread id
  toExit,    \* of each loop
  queue,     \* the events waiting in all loops
  poster,    \* each poster's addEvent: the loop it has locked, its event
  posts,     \* addEvent calls so far
  chance,    \* history: the parent's wait ended unnotified
  ub         \* the child used the locals of a start that had returned

vars == <<parent, child, holder, isLock, id, bound, toExit, queue, poster,
          posts, chance, ub>>
startVars == <<parent, child, holder, isLock, chance>>
postVars == <<queue, poster, posts>>

Cores == Ids \cup {Main}

\* After start has returned because of the child, and not by chance.
Settled(o) == parent[o] = "returned" /\ ~chance[o]

Events == [obj : Objs, no : 0..MaxPosts, settled : BOOLEAN]
NoPost == [at |-> "idle"]
Posts == {NoPost} \cup [at : {"push", "notify"}, core : Cores, event : Events]

TypeOK ==
  /\ parent \in [Objs -> {"new", "lock", "test", "waiting", "woken", "returned"}]
  /\ child \in [Objs -> {"none", "move", "try", "set", "unlock", "notify_one",
                         "notify_all", "emit", "exec", "done"}]
  /\ holder \in [Objs -> {"nobody", "parent", "child"}]
  /\ isLock \in [Objs -> BOOLEAN]
  /\ id \in [Objs -> Ids \cup {NoId}]
  /\ bound \in [Objs -> Cores]
  /\ toExit \in [Cores -> BOOLEAN]
  /\ queue \in SUBSET [core : Cores, event : Events]
  /\ poster \in [Posters -> Posts]
  /\ posts \in 0..MaxPosts
  /\ chance \in [Objs -> BOOLEAN]
  /\ ub \in BOOLEAN

Init ==
  /\ parent = [o \in Objs |-> "new"]
  /\ child = [o \in Objs |-> "none"]
  /\ holder = [o \in Objs |-> "nobody"]
  /\ isLock = [o \in Objs |-> FALSE]
  /\ id = [o \in Objs |-> NoId]
  /\ bound = [o \in Objs |-> Main]
  /\ toExit = [i \in Cores |-> FALSE]
  /\ queue = {}
  /\ poster = [p \in Posters |-> NoPost]
  /\ posts = 0
  /\ chance = [o \in Objs |-> FALSE]
  /\ ub = FALSE

Live == {o \in Objs : child[o] \notin {"none", "done"}}

-----------------------------------------------------------------------------
(* The parent *)

\* _th = std::thread(...); detach().  The id of a thread that has ended may
\* be given again.
Spawn(o) ==
  /\ parent[o] = "new"
  /\ parent' = [parent EXCEPT ![o] = "lock"]
  /\ child' = [child EXCEPT ![o] = "move"]
  /\ \E i \in Ids \ {id[r] : r \in Live} : id' = [id EXCEPT ![o] = i]
  /\ UNCHANGED <<holder, isLock, bound, toExit, postVars, chance, ub>>

ParentLocks(o) ==
  /\ parent[o] = "lock"
  /\ holder[o] = "nobody"
  /\ holder' = [holder EXCEPT ![o] = "parent"]
  /\ parent' = [parent EXCEPT ![o] = "test"]
  /\ UNCHANGED <<child, isLock, id, bound, toExit, postVars, chance, ub>>

\* A start that does not wait.
ParentTestsOnly(o) ==
  /\ parent[o] = "test"
  /\ parent' = [parent EXCEPT ![o] = "returned"]
  /\ holder' = [holder EXCEPT ![o] = "nobody"]
  /\ UNCHANGED <<child, isLock, id, bound, toExit, postVars, chance, ub>>

\* if (isLock == false) cond.wait(locker): the wait releases startMutex, the
\* return does too and ends the life of the locals.
ParentTests(o) ==
  /\ parent[o] = "test"
  /\ parent' = [parent EXCEPT ![o] = IF isLock[o] THEN "returned" ELSE "waiting"]
  /\ holder' = [holder EXCEPT ![o] = "nobody"]
  /\ UNCHANGED <<child, isLock, id, bound, toExit, postVars, chance, ub>>

SpuriousWake(o) ==
  /\ SpuriousWakeups
  /\ parent[o] = "waiting"
  /\ parent' = [parent EXCEPT ![o] = "woken"]
  /\ chance' = [chance EXCEPT ![o] = TRUE]
  /\ UNCHANGED <<child, holder, isLock, id, bound, toExit, postVars, ub>>

\* wait takes the mutex again; nothing is tested, start returns.
ParentReturns(o) ==
  /\ parent[o] = "woken"
  /\ holder[o] = "nobody"
  /\ parent' = [parent EXCEPT ![o] = "returned"]
  /\ UNCHANGED <<child, holder, isLock, id, bound, toExit, postVars, chance, ub>>

-----------------------------------------------------------------------------
(* The child *)

\* moveToThisThread with the id of a detached _th, which is no thread's.
ChildMovesDetached(o) ==
  /\ child[o] = "move"
  /\ bound' = [bound EXCEPT ![o] = NoId]
  /\ child' = [child EXCEPT ![o] = "try"]
  /\ UNCHANGED <<parent, holder, isLock, id, toExit, postVars, chance, ub>>

\* moveToThisThread with an id that the parent took of itself.
ChildMovesToParent(o) ==
  /\ child[o] = "move"
  /\ bound' = [bound EXCEPT ![o] = Main]
  /\ child' = [child EXCEPT ![o] = "try"]
  /\ UNCHANGED <<parent, holder, isLock, id, toExit, postVars, chance, ub>>

\* moveToThisThread: setObjectThread with the child's own id.
ChildMoves(o) ==
  /\ child[o] = "move"
  /\ bound' = [bound EXCEPT ![o] = id[o]]
  /\ child' = [child EXCEPT ![o] = "try"]
  /\ UNCHANGED <<parent, holder, isLock, id, toExit, postVars, chance, ub>>

ChildTriesLock(o) ==
  /\ child[o] = "try"
  /\ \/ /\ holder[o] = "nobody"
        /\ holder' = [holder EXCEPT ![o] = "child"]
        /\ child' = [child EXCEPT ![o] = "set"]
     \/ /\ holder[o] = "parent"
        /\ child' = [child EXCEPT ![o] = "notify_one"]
        /\ UNCHANGED holder
  /\ UNCHANGED <<parent, isLock, id, bound, toExit, postVars, chance, ub>>

ChildSets(o) ==
  /\ child[o] = "set"
  /\ isLock' = [isLock EXCEPT ![o] = TRUE]
  /\ child' = [child EXCEPT ![o] = "unlock"]
  /\ UNCHANGED <<parent, holder, id, bound, toExit, postVars, chance, ub>>

\* A child that notifies only if its try_lock fails.
ChildUnlocksQuietly(o) ==
  /\ child[o] = "unlock"
  /\ holder' = [holder EXCEPT ![o] = "nobody"]
  /\ child' = [child EXCEPT ![o] = "emit"]
  /\ UNCHANGED <<parent, isLock, id, bound, toExit, postVars, chance, ub>>

ChildUnlocks(o) ==
  /\ child[o] = "unlock"
  /\ holder' = [holder EXCEPT ![o] = "nobody"]
  /\ child' = [child EXCEPT ![o] = "notify_all"]
  /\ UNCHANGED <<parent, isLock, id, bound, toExit, postVars, chance, ub>>

\* cond.notify_one() after a failed try_lock, and cond.notify_all().
ChildNotifies(o) ==
  /\ child[o] \in {"notify_one", "notify_all"}
  /\ child' = [child EXCEPT ![o] =
                 IF @ = "notify_one" THEN "notify_all" ELSE "emit"]
  /\ parent' = [parent EXCEPT ![o] = IF @ = "waiting" THEN "woken" ELSE @]
  /\ UNCHANGED <<holder, isLock, id, bound, toExit, postVars, chance, ub>>

\* Any use of startMutex, isLock or cond after start has returned may go wrong.
ChildDangles(o) ==
  /\ parent[o] = "returned"
  /\ child[o] \in {"try", "set", "unlock", "notify_one", "notify_all"}
  /\ ub' = TRUE
  /\ UNCHANGED <<startVars, id, bound, toExit, postVars>>

\* Core p; started.emit(): the event of run goes to the loop of the object.
ChildEmits(o) ==
  /\ child[o] = "emit"
  /\ queue' = queue \cup {[core |-> bound[o],
                           event |-> [obj |-> o, no |-> 0, settled |-> Settled(o)]]}
  /\ child' = [child EXCEPT ![o] = "exec"]
  /\ UNCHANGED <<parent, holder, isLock, id, bound, toExit, poster, posts, chance, ub>>

\* p.exec() takes an event of the thread's own loop, or obeys toExit.
ChildExecs(o) ==
  /\ child[o] = "exec"
  /\ \/ /\ ~toExit[id[o]]
        /\ \E e \in queue : e.core = id[o] /\ queue' = queue \ {e}
        /\ UNCHANGED child
     \/ /\ toExit[id[o]]
        /\ child' = [child EXCEPT ![o] = "done"]
        /\ UNCHANGED queue
  /\ UNCHANGED <<parent, holder, isLock, id, bound, toExit, poster, posts, chance, ub>>

-----------------------------------------------------------------------------
(* Other threads, which use the object through addEvent and waitQuit.      *)

\* addEvent reads object_loop three times, without theadIdMutex: here to lock
\* its LoopMutex ...  Each read gives the old loop or the new one, and
\* object_map keeps both alive.
PostLocks(p, o) ==
  /\ poster[p] = NoPost
  /\ posts < MaxPosts
  /\ posts' = posts + 1
  /\ poster' = [poster EXCEPT ![p] =
       [at |-> "push", core |-> bound[o],
        event |-> [obj |-> o, no |-> posts + 1, settled |-> Settled(o)]]]
  /\ UNCHANGED <<startVars, id, bound, toExit, queue, ub>>

\* ... and here to push, whoever's mutex it holds.
PostPushes(p) ==
  /\ poster[p].at = "push"
  /\ LET e == poster[p].event IN
       queue' = queue \cup {[core |-> bound[e.obj], event |-> e]}
  /\ poster' = [poster EXCEPT ![p].at = "notify"]
  /\ UNCHANGED <<startVars, id, bound, toExit, posts, ub>>

PostNotifies(p) ==
  /\ poster[p].at = "notify"
  /\ poster' = [poster EXCEPT ![p] = NoPost]
  /\ UNCHANGED <<startVars, id, bound, toExit, queue, posts, ub>>

\* Its second read of object_loop only chooses whom it notifies, and no loop
\* of this module sleeps.
WaitQuit(o) ==
  /\ child[o] # "none"
  /\ toExit' = [toExit EXCEPT ![bound[o]] = TRUE]
  /\ UNCHANGED <<startVars, id, bound, postVars, ub>>

-----------------------------------------------------------------------------
ParentStep(o) == ParentLocks(o) \/ ParentTests(o) \/ ParentReturns(o)

ChildStep(o) == \/ ChildMoves(o) \/ ChildTriesLock(o) \/ ChildSets(o)
                \/ ChildUnlocks(o) \/ ChildNotifies(o) \/ ChildEmits(o)
                \/ ChildExecs(o)

PosterStep(p) == PostPushes(p) \/ PostNotifies(p) \/ \E o \in Objs : PostLocks(p, o)

Next == /\ ~ub
        /\ \/ \E o \in Objs : \/ Spawn(o) \/ ParentStep(o) \/ SpuriousWake(o)
                              \/ ChildStep(o) \/ ChildDangles(o) \/ WaitQuit(o)
           \/ \E p \in Posters : PosterStep(p)

Spec == Init /\ [][Next]_vars

\* Both threads of a start are scheduled.
Fairness == \A o \in Objs : /\ WF_vars(~ub /\ ParentStep(o))
                            /\ WF_vars(~ub /\ ChildStep(o))

FairSpec == Spec /\ Fairness

-----------------------------------------------------------------------------
(* Properties *)

\* When start returns, and its wait did not end by chance, the object is
\* bound to the loop of the thread that was created for it, whichever of
\* isLock, notify_one and notify_all let the parent go.
ReturnMeansMoved == \A o \in Objs : Settled(o) => bound[o] = id[o]

\* An event emitted after start has returned goes to the created thread's
\* loop, and addEvent pushes it under the mutex of the loop it pushes into:
\* its three reads of object_loop agree.
SettledPostsReachChild ==
  /\ \A e \in queue : e.event.settled => e.core = id[e.event.obj]
  /\ \A p \in Posters :
       (poster[p].at = "push" /\ poster[p].event.settled)
          => poster[p].core = bound[poster[p].event.obj]

\* If the child's try_lock succeeds, start returns: the parent either reads
\* isLock set, or sleeps before the child's notify_all.
LockedStartReturns ==
  \A o \in Objs : isLock[o] ~> (parent[o] = "returned" \/ ub)

\* A parent that falls asleep before the child's last notify_all returns.
EarlySleeperReturns ==
  \A o \in Objs :
    (parent[o] = "waiting" /\ child[o] \in {"move", "try", "set", "unlock",
                                            "notify_one", "notify_all"})
       ~> (parent[o] = "returned" \/ ub)

\* Refuted: start returns.  If try_lock fails because the parent has the
\* mutex, both notifications may come before the parent waits, isLock stays
\* false and the parent sleeps for ever.
StartReturns ==
  \A o \in Objs : parent[o] = "lock" ~> (parent[o] = "returned" \/ ub)
=============================================================================
