---------------------------- MODULE P2PHandshake ----------------------------
(***************************************************************************)
(* The handshake of two P2P objects, each with one P2PTask for the other.  *)
(* Each may open connections to the other; on every connection the ends    *)
(* tell their numbers (REQ, ACK), and a peer with the greater one asks for *)
(* a connection (OK...REQ, answered by OK...ACK), which both then hand to  *)
(* their applications.  A connection's client end is at c.from.            *)
(*                                                                         *)
(* SlotRead, SlotConnect and the time-outs run on the peer's loop; accept  *)
(* and onRecve on its epoll thread.  ub: an event calls a freed slot, or   *)
(* SlotRead uses a socket it does not have.                                *)
(***************************************************************************)
EXTENDS Integers, Sequences, FiniteSets

CONSTANTS Peers,      \* the two peers
          Attempts,   \* bound on the connections each opens
          Nums,       \* what selfnum is drawn from
          Garbage,    \* what othernum may hold before it is assigned
          None,       \* nullptr
          MayTimeout  \* do time-outs happen

ASSUME PeersAssumption == IsFiniteSet(Peers) /\ Cardinality(Peers) = 2
ASSUME AttemptsAssumption == Attempts \in [Peers -> Nat]
ASSUME NumsAssumption == Nums \subseteq Nat /\ Garbage \subseteq Nat
ASSUME TimeoutAssumption == MayTimeout \in BOOLEAN

Other(p) == CHOOSE q \in Peers : q # p
Conns == UNION {[from : {p}, no : 1..Attempts[p]] : p \in Peers}

Tasks == [selfnum : Nums, othernum : Nums \cup Garbage, checked : BOOLEAN,
          client : Conns \cup {None}, server : Conns \cup {None}]
ASSUME NoneAssumption == None \notin Conns /\ None \notin Tasks

Numbers == [cmd : {"REQ", "ACK"}, num : Nums]
Answers == [cmd : {"OKSERVERREQ", "OKCLIENTREQ", "OKSERVERACK", "OKCLIENTACK"}]
Packets == Numbers \cup Answers

VARIABLES
  task,      \* the other peer's entry in each tMap, or None
  opened,    \* connections each peer has tried to open
  scfd,      \* each end: "none" yet, "open", or "shut"
  slot,      \* readReady of each end: "none", "live" (bound to SlotRead), "freed"
  wire,      \* packets on their way to each end
  cache,     \* recaveCaceh of each end: the packets its boxes hold
  events,    \* readReady events of each end waiting in the loop
  finished,  \* history: the connections each peer has handed over
  starters,  \* history: peers that have asked for a connection
  blind,     \* history: those that compared an unassigned othernum
  erased,    \* history: a task was erased
  ub

vars == <<task, opened, scfd, slot, wire, cache, events, finished, starters,
          blind, erased, ub>>
history == <<finished, starters, blind, erased>>

TypeOK ==
  /\ task \in [Peers -> Tasks \cup {None}]
  /\ opened \in [Peers -> Nat]
  /\ scfd \in [Peers -> [Conns -> {"none", "open", "shut"}]]
  /\ slot \in [Peers -> [Conns -> {"none", "live", "freed"}]]
  /\ wire \in [Peers -> [Conns -> Seq(Packets)]]
  /\ cache \in [Peers -> [Conns -> Seq(Packets)]]
  /\ events \in [Peers -> [Conns -> Nat]]
  /\ finished \in [Peers -> SUBSET Conns]
  /\ starters \subseteq Peers /\ blind \subseteq Peers
  /\ erased \in BOOLEAN /\ ub \in BOOLEAN

Ends(v) == [p \in Peers |-> [c \in Conns |-> v]]

Init ==
  /\ task = [p \in Peers |-> None]
  /\ opened = [p \in Peers |-> 0]
  /\ scfd = Ends("none")
  /\ slot = Ends("none")
  /\ wire = Ends(<<>>)
  /\ cache = Ends(<<>>)
  /\ events = Ends(0)
  /\ finished = [p \in Peers |-> {}]
  /\ starters = {} /\ blind = {}
  /\ erased = FALSE /\ ub = FALSE

-----------------------------------------------------------------------------
\* P2P::Find: the task of the map, or a new one with its number drawn and
\* othernum left as the memory was.
Find(p) ==
  IF task[p] # None THEN {task[p]}
  ELSE {t \in Tasks : /\ t.othernum \in Garbage /\ ~t.checked
                      /\ t.client = None /\ t.server = None}

\* A packet that peer p sends on c, given what is on the wires already.
SendSelf(w, p, c, pk) ==
  IF scfd[p][c] = "shut" \/ scfd[Other(p)][c] = "shut" THEN w
  ELSE [w EXCEPT ![Other(p)][c] = Append(@, pk)]

Cmd(s) == [cmd |-> s]

\* A packet that does not carry its number.
NumberForgotten(s, n) == [cmd |-> s]

Number(s, n) == [cmd |-> s, num |-> n]

\* SlotConnect: Find, then P2PTask::connect, which does nothing if there is a
\* client, and leaves nothing but the task if the other does not accept.
SlotConnect(p) ==
  LET c == [from |-> p, no |-> opened[p] + 1] IN
  /\ opened[p] < Attempts[p]
  /\ opened' = [opened EXCEPT ![p] = @ + 1]
  /\ \E t \in Find(p) :
       \/ /\ task' = [task EXCEPT ![p] = t]
          /\ UNCHANGED <<scfd, slot, wire>>
       \/ /\ t.client = None
          /\ task' = [task EXCEPT ![p] = [t EXCEPT !.client = c]]
          /\ scfd' = [scfd EXCEPT ![p][c] = "open"]
          /\ slot' = [slot EXCEPT ![p][c] = "live"]
          /\ wire' = [wire EXCEPT ![Other(p)][c] = <<Number("REQ", t.selfnum)>>]
  /\ UNCHANGED <<cache, events, history, ub>>

\* accept, and P2P's handler of connected: Find and SetSeverSocket.
Accept(p, c) ==
  /\ c.from # p
  /\ scfd[p][c] = "none" /\ scfd[c.from][c] # "none"
  /\ \E t \in Find(p) :
       IF t.server # None
       THEN /\ task' = [task EXCEPT ![p] = t]
            /\ scfd' = [scfd EXCEPT ![p][c] = "shut"]
            /\ UNCHANGED slot
       ELSE /\ task' = [task EXCEPT ![p] = [t EXCEPT !.server = c]]
            /\ scfd' = [scfd EXCEPT ![p][c] = "open"]
            /\ slot' = [slot EXCEPT ![p][c] = "live"]
  /\ UNCHANGED <<opened, wire, cache, events, history, ub>>

\* onRecve takes what has arrived and emits readReady.
OnRecve(p, c) ==
  /\ scfd[p][c] = "open"
  /\ \E n \in 1..Len(wire[p][c]) :
       /\ cache' = [cache EXCEPT ![p][c] = @ \o SubSeq(wire[p][c], 1, n)]
       /\ wire' = [wire EXCEPT ![p][c] = SubSeq(@, n + 1, Len(@))]
  /\ events' = [events EXCEPT ![p][c] = IF slot[p][c] = "live" THEN @ + 1 ELSE @]
  /\ UNCHANGED <<task, opened, scfd, slot, history, ub>>

\* The other end is closed: whatever onRecve still reads before it finds out
\* is cached without an event.
OnDisconnect(p, c) ==
  /\ scfd[p][c] = "open" /\ scfd[Other(p)][c] = "shut"
  /\ \E n \in 0..Len(wire[p][c]) :
       cache' = [cache EXCEPT ![p][c] = @ \o SubSeq(wire[p][c], 1, n)]
  /\ wire' = [wire EXCEPT ![p][c] = <<>>]
  /\ scfd' = [scfd EXCEPT ![p][c] = "shut"]
  /\ UNCHANGED <<task, opened, slot, events, history, ub>>

-----------------------------------------------------------------------------
(* SlotRead *)

\* A check that also asks with equal numbers.
StartsEqual(t) == t.selfnum >= t.othernum /\ ~t.checked

\* A check that forgets that it has asked.
StartsAgain(t) == t.selfnum > t.othernum

\* check asks if the number is greater, and only once.
Starts(t) == t.selfnum > t.othernum /\ ~t.checked

\* A check that asks for the accepted connection as if it had opened it.
ChallengeSwapped(p, t) ==
  CASE t.client # None -> SendSelf(wire, p, t.client, Cmd("OKCLIENTREQ"))
    [] t.client = None /\ t.server # None ->
         SendSelf(wire, p, t.server, Cmd("OKCLIENTREQ"))
    [] OTHER -> wire

\* check asks for the connection it has opened, or else the one it accepted.
Challenge(p, t) ==
  CASE t.client # None -> SendSelf(wire, p, t.client, Cmd("OKSERVERREQ"))
    [] t.client = None /\ t.server # None ->
         SendSelf(wire, p, t.server, Cmd("OKCLIENTREQ"))
    [] OTHER -> wire

\* ACK and REQ: check, which still sees the old othernum, then the new one,
\* then the ACK for a REQ.  othernum was never assigned if no number was read.
Exchange(p, c, pk) ==
  LET t == task[p]
      w == IF Starts(t) THEN Challenge(p, t) ELSE wire
  IN /\ pk.cmd \in {"REQ", "ACK"}
     /\ task' = [task EXCEPT ![p].othernum = pk.num,
                             ![p].checked = @ \/ Starts(t)]
     /\ wire' = IF pk.cmd = "ACK" THEN w
                ELSE SendSelf(w, p, c, Number("ACK", t.selfnum))
     /\ starters' = IF Starts(t) THEN starters \cup {p} ELSE starters
     /\ blind' = IF Starts(t) /\ t.othernum \in Garbage THEN blind \cup {p} ELSE blind
     /\ UNCHANGED <<slot, finished, ub>>

\* The socket each of the last four commands is about.
About(t, s) == IF s \in {"OKSERVERREQ", "OKSERVERACK"} THEN t.server ELSE t.client

\* An OK...REQ is answered, readReady.Clear(), and the socket handed over.
Finish(p, pk) ==
  LET s == About(task[p], pk.cmd) IN
  /\ pk.cmd \notin {"REQ", "ACK"}
  /\ IF s = None
     THEN ub' = TRUE /\ UNCHANGED <<slot, wire, finished>>
     ELSE /\ slot' = [slot EXCEPT ![p][s] = "freed"]
          /\ finished' = [finished EXCEPT ![p] = @ \cup {s}]
          /\ wire' = CASE pk.cmd = "OKSERVERREQ" -> SendSelf(wire, p, s, Cmd("OKCLIENTACK"))
                       [] pk.cmd = "OKCLIENTREQ" -> SendSelf(wire, p, s, Cmd("OKSERVERACK"))
                       [] OTHER -> wire
          /\ UNCHANGED ub
  /\ UNCHANGED <<task, starters, blind>>

\* The packet of the last box is looked at instead of the first one's.
LookedAtLast(q) == q[Len(q)]

\* recve returns all the boxes and SlotRead looks at the first packet of the
\* first one; the others are lost.
LookedAt(q) == Head(q)

\* An event of readReady is called: on a freed slot, with an empty cache, or
\* with packets.
SlotRead(p, c) ==
  /\ events[p][c] > 0
  /\ events' = [events EXCEPT ![p][c] = @ - 1]
  /\ \/ /\ slot[p][c] = "freed"
        /\ ub' = TRUE
        /\ UNCHANGED <<task, slot, wire, cache, finished, starters, blind>>
     \/ /\ slot[p][c] = "live" /\ cache[p][c] = <<>>
        /\ UNCHANGED <<task, slot, wire, cache, finished, starters, blind, ub>>
     \/ /\ slot[p][c] = "live" /\ cache[p][c] # <<>>
        /\ cache' = [cache EXCEPT ![p][c] = <<>>]
        /\ LET pk == LookedAt(cache[p][c]) IN Exchange(p, c, pk) \/ Finish(p, pk)
  /\ UNCHANGED <<opened, scfd, erased>>

-----------------------------------------------------------------------------
(* The handler of toChekc *)

Held(t) == {t.client, t.server} \ {None}

\* The sockets that go with a task, all of them.
GoneAll(p) == Held(task[p])

\* The sockets that nobody else holds go with the task.
Gone(p) == Held(task[p]) \ finished[p]

\* _time has run out, whatever the task is doing.
TimeOut(p) ==
  /\ MayTimeout
  /\ task[p] # None
  /\ task' = [task EXCEPT ![p] = None]
  /\ scfd' = [scfd EXCEPT ![p] = [c \in Conns |-> IF c \in Gone(p) THEN "shut" ELSE @[c]]]
  /\ slot' = [slot EXCEPT ![p] = [c \in Conns |-> IF c \in Gone(p) THEN "freed" ELSE @[c]]]
  /\ erased' = TRUE
  /\ UNCHANGED <<opened, wire, cache, events, finished, starters, blind, ub>>

-----------------------------------------------------------------------------
PeerStep(p) == \E c \in Conns : \/ Accept(p, c) \/ OnRecve(p, c)
                                \/ OnDisconnect(p, c) \/ SlotRead(p, c)

Next == ~ub /\ \E p \in Peers : SlotConnect(p) \/ PeerStep(p) \/ TimeOut(p)

Spec == Init /\ [][Next]_vars

\* Both threads of a peer are scheduled, and TCP delivers on an open
\* connection.  Nobody has to connect, and no time has to pass.
Fairness == \A p \in Peers, c \in Conns :
              /\ WF_vars(~ub /\ Accept(p, c))
              /\ WF_vars(~ub /\ OnRecve(p, c))
              /\ WF_vars(~ub /\ OnDisconnect(p, c))
              /\ WF_vars(~ub /\ SlotRead(p, c))

FairSpec == Spec /\ Fairness

-----------------------------------------------------------------------------
(* Properties *)

\* The end of c at p is the one that the packet's command is about.
Fits(p, c, pk) ==
  /\ pk.cmd \in {"OKSERVERREQ", "OKSERVERACK"} => c.from # p
  /\ pk.cmd \in {"OKCLIENTREQ", "OKCLIENTACK"} => c.from = p

\* SlotRead answers and hands over the task's client or server according to
\* the command, not the socket it has read.  They are the same: each command
\* travels only to the end it is about, and an end that is read belongs to
\* the task that reads it, also after time-outs and new connections.
FinishesWhatItRead ==
  \A p \in Peers, c \in Conns :
    /\ \A i \in 1..Len(wire[p][c]) : Fits(p, c, wire[p][c][i])
    /\ \A i \in 1..Len(cache[p][c]) : Fits(p, c, cache[p][c][i])
    /\ slot[p][c] = "live" =>
         /\ task[p] # None
         /\ c = IF c.from = p THEN task[p].client ELSE task[p].server

\* As long as only one peer asks, and no task runs out of time, both hand over
\* the same connection, or only one of them does, whatever is dropped.
AgreeUnlessBothStart ==
  (Cardinality(starters) <= 1 /\ ~erased) =>
    Cardinality(UNION {finished[p] : p \in Peers}) <= 1

\* The comparison of the numbers alone never lets both ask: if both do, one of
\* them compared the othernum it was never given.
BothStartBlindly == (starters = Peers /\ ~erased) => blind # {}

\* A connection both peers have handed over is closed by neither: time-outs
\* take only sockets whose handshake is not over.
ChosenStaysOpen ==
  \A p \in Peers, c \in Conns :
    (\A q \in Peers : c \in finished[q]) => scfd[p][c] = "open"

\* On the only connection there is, a peer that asks gets both to hand it
\* over, although packets that arrive together are dropped but the first.
Only(c) == \A d \in Conns : d # c => \A p \in Peers : scfd[p][d] = "none"
StartedFinishes ==
  \A c \in Conns :
    (starters # {} /\ Only(c))
      ~> ((\A p \in Peers : c \in finished[p]) \/ ~Only(c) \/ erased \/ ub)

\* Refuted: an open connection leads to a handed-over one.  Each side calls
\* check before it stores the other's number, so on a single connection both
\* compare an unassigned othernum, and neither may ask.
ConnectionFinishes ==
  \A p \in Peers, c \in Conns :
    scfd[p][c] = "open" ~> (c \in finished[p] \/ ub)
=============================================================================
