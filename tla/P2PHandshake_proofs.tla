------------------------ MODULE P2PHandshake_proofs ------------------------
(***************************************************************************)
(* Safety of the handshake for any numbers, garbage and number of          *)
(* attempts: the types; SlotRead, which answers and hands over a socket    *)
(* chosen by the command alone, always means the one it has read; if only  *)
(* one peer asks, only one connection is handed over; two that ask did not *)
(* both know the other's number; what both have handed over stays open.    *)
(***************************************************************************)
EXTENDS P2PHandshake, FiniteSetTheorems, TLAPS

\* There are two peers, so what is not one's own is the other's.
LEMMA TheOther ==
  ASSUME NEW p \in Peers
  PROVE  /\ Other(p) \in Peers /\ Other(p) # p
         /\ \A q \in Peers : q # p => q = Other(p)
<1>1. IsFiniteSet(Peers \ {p}) /\ Cardinality(Peers \ {p}) = 1
  BY PeersAssumption, FS_RemoveElement
<1>2. PICK q : Peers \ {p} = {q}
  BY <1>1, FS_Singleton
<1>3. \A r \in Peers : r # p <=> r = q
  BY <1>2
<1>4. q \in Peers /\ q # p
  BY <1>2
<1>5. Other(p) \in Peers /\ Other(p) # p
  BY <1>4 DEF Other
<1> QED BY <1>3, <1>5

\* A connection is opened by a peer.
LEMMA ConnFrom ==
  ASSUME NEW c \in Conns
  PROVE  c.from \in Peers /\ c.no \in 1..Attempts[c.from]
BY DEF Conns

LEMMA NewConn ==
  ASSUME NEW p \in Peers, NEW n \in 1..Attempts[p]
  PROVE  [from |-> p, no |-> n] \in Conns
BY DEF Conns

\* Assigning the field of one end.
LEMMA AtEnd ==
  ASSUME NEW S, NEW f \in [Peers -> [Conns -> S]], NEW p \in Peers, NEW c \in Conns,
         NEW v \in S
  PROVE  /\ [f EXCEPT ![p][c] = v] \in [Peers -> [Conns -> S]]
         /\ [f EXCEPT ![p][c] = v][p][c] = v
         /\ \A q \in Peers, d \in Conns :
              ~(q = p /\ d = c) => [f EXCEPT ![p][c] = v][q][d] = f[q][d]
OBVIOUS

Wires == [Peers -> [Conns -> Seq(Packets)]]

\* What sending does to the wires: it appends to the other's, or nothing.
LEMMA Sending ==
  ASSUME NEW w \in Wires, NEW p \in Peers, NEW c \in Conns, NEW pk \in Packets
  PROVE  /\ SendSelf(w, p, c, pk) \in Wires
         /\ \A q \in Peers, d \in Conns :
              \/ SendSelf(w, p, c, pk)[q][d] = w[q][d]
              \/ /\ q = Other(p) /\ d = c
                 /\ SendSelf(w, p, c, pk)[q][d] = Append(w[q][d], pk)
<1>1. Other(p) \in Peers
  BY TheOther
<1>2. Append(w[Other(p)][c], pk) \in Seq(Packets)
  BY <1>1 DEF Wires
<1> QED BY <1>1, <1>2 DEF SendSelf, Wires

\* Every packet fits the end it is at.
AllFit(w) == \A q \in Peers, d \in Conns :
               \A i \in 1..Len(w[q][d]) : Fits(q, d, w[q][d][i])

LEMMA SendingFits ==
  ASSUME NEW w \in Wires, NEW p \in Peers, NEW c \in Conns, NEW pk \in Packets,
         AllFit(w), Fits(Other(p), c, pk)
  PROVE  AllFit(SendSelf(w, p, c, pk))
<1> DEFINE v == SendSelf(w, p, c, pk)
<1> SUFFICES ASSUME NEW q \in Peers, NEW d \in Conns, NEW i \in 1..Len(v[q][d])
             PROVE  Fits(q, d, v[q][d][i])
  BY DEF AllFit
<1>1. CASE v[q][d] = w[q][d]
  BY <1>1 DEF AllFit
<1>2. CASE q = Other(p) /\ d = c /\ v[q][d] = Append(w[q][d], pk)
  <2>1. w[q][d] \in Seq(Packets)
    BY DEF Wires
  <2>2. \/ i \in 1..Len(w[q][d]) /\ v[q][d][i] = w[q][d][i]
        \/ v[q][d][i] = pk
    BY <1>2, <2>1
  <2> QED BY <1>2, <2>2 DEF AllFit
<1> HIDE DEF v
<1> QED BY <1>1, <1>2, Sending DEF v

-----------------------------------------------------------------------------
\* client was opened here and counted, server was opened by the other peer.
Oriented ==
  \A p \in Peers : task[p] # None =>
    /\ task[p].client # None =>
         task[p].client.from = p /\ task[p].client.no <= opened[p]
    /\ task[p].server # None => task[p].server.from # p

LEMMA Packing ==
  /\ \A s \in {"OKSERVERREQ", "OKCLIENTREQ", "OKSERVERACK", "OKCLIENTACK"} :
       Cmd(s) \in Packets /\ Cmd(s).cmd = s
  /\ \A s \in {"REQ", "ACK"}, n \in Nums :
       Number(s, n) \in Packets /\ Number(s, n).cmd = s
BY DEF Cmd, Number, Packets, Numbers, Answers

LEMMA Found ==
  ASSUME TypeOK, NEW p \in Peers, NEW t \in Find(p)
  PROVE  /\ t \in Tasks
         /\ task[p] # None => t = task[p]
         /\ task[p] = None => t.client = None /\ t.server = None
BY DEF Find, TypeOK

\* A request leaves the wires in their type and lands on the end it is about.
LEMMA Asking ==
  ASSUME TypeOK, Oriented, AllFit(wire), NEW p \in Peers, task[p] # None
  PROVE  Challenge(p, task[p]) \in Wires /\ AllFit(Challenge(p, task[p]))
<1> DEFINE t == task[p]
<1>1. t \in Tasks /\ wire \in Wires
  BY DEF TypeOK, Wires
<1>2. CASE t.client # None
  <2>1. t.client \in Conns /\ t.client.from = p
    BY <1>1, <1>2 DEF Tasks, Oriented
  <2>2. Fits(Other(p), t.client, Cmd("OKSERVERREQ"))
    BY <2>1, TheOther, Packing DEF Fits
  <2> QED BY <1>1, <1>2, <2>1, <2>2, Packing, Sending, SendingFits DEF Challenge
<1>3. CASE t.client = None /\ t.server # None
  <2>1. t.server \in Conns /\ t.server.from # p /\ t.server.from \in Peers
    BY <1>1, <1>3, ConnFrom DEF Tasks, Oriented
  <2>2. Fits(Other(p), t.server, Cmd("OKCLIENTREQ"))
    BY <2>1, TheOther, Packing DEF Fits
  <2> QED BY <1>1, <1>3, <2>1, <2>2, Packing, Sending, SendingFits DEF Challenge
<1>4. CASE t.client = None /\ t.server = None
  BY <1>1, <1>4 DEF Challenge
<1> QED BY <1>2, <1>3, <1>4

\* An end not yet there is not read, one handed over is not read any more,
\* and one that is read belongs to the task.
Belongs(p, c) ==
  /\ task[p] # None
  /\ c = IF c.from = p THEN task[p].client ELSE task[p].server

Reading ==
  \A p \in Peers, c \in Conns :
    /\ scfd[p][c] = "none" => slot[p][c] = "none"
    /\ (c.from = p /\ c.no > opened[p]) => slot[p][c] = "none"
    /\ c \in finished[p] => slot[p][c] = "freed"
    /\ slot[p][c] = "live" => Belongs(p, c)

HInv == TypeOK /\ Oriented /\ AllFit(wire) /\ AllFit(cache) /\ Reading

-----------------------------------------------------------------------------
LEMMA InitHInv == Init => HInv
<1> SUFFICES ASSUME Init PROVE HInv
  OBVIOUS
<1>1. \A p \in Peers, c \in Conns : /\ scfd[p][c] = "none" /\ slot[p][c] = "none"
                                   /\ wire[p][c] = <<>> /\ cache[p][c] = <<>>
                                   /\ finished[p] = {} /\ task[p] = None
  BY DEF Init, Ends
<1>2. TypeOK
  <2>1. <<>> \in Seq(Packets) /\ 0 \in Nat
    OBVIOUS
  <2> QED BY <2>1 DEF Init, Ends, TypeOK
<1>3. Oriented /\ Reading
  <2>1. Oriented
    BY Zenon DEF Init, Oriented
  <2>2. \A p \in Peers, c \in Conns : c \notin finished[p] /\ slot[p][c] # "live"
    BY <1>1
  <2> QED BY <1>1, <2>1, <2>2 DEF Reading
<1>4. AllFit(wire) /\ AllFit(cache)
  BY <1>1 DEF AllFit
<1> QED BY <1>2, <1>3, <1>4 DEF HInv

\* A new client is the peer's own connection, with a number not used before.
LEMMA ConnectStep ==
  ASSUME HInv, NEW p \in Peers, SlotConnect(p)
  PROVE  HInv'
<1>1. /\ opened[p] \in Nat /\ opened[p] < Attempts[p] /\ Attempts[p] \in Nat
      /\ opened' = [opened EXCEPT ![p] = @ + 1]
      /\ UNCHANGED <<cache, events, finished, starters, blind, erased, ub>>
  BY AttemptsAssumption DEF SlotConnect, HInv, TypeOK, history
<1>2. PICK c \in Conns : c = [from |-> p, no |-> opened[p] + 1]
  <2>1. opened[p] + 1 \in 1..Attempts[p]
    BY <1>1
  <2> QED BY <2>1, NewConn
<1>3. PICK t \in Find(p) :
        \/ /\ task' = [task EXCEPT ![p] = t]
           /\ UNCHANGED <<scfd, slot, wire>>
        \/ /\ t.client = None
           /\ task' = [task EXCEPT ![p] = [t EXCEPT !.client = c]]
           /\ scfd' = [scfd EXCEPT ![p][c] = "open"]
           /\ slot' = [slot EXCEPT ![p][c] = "live"]
           /\ wire' = [wire EXCEPT ![Other(p)][c] = <<Number("REQ", t.selfnum)>>]
  BY <1>2 DEF SlotConnect
<1>4. /\ t \in Tasks
      /\ task[p] # None => t = task[p]
      /\ task[p] = None => t.client = None /\ t.server = None
  BY Found DEF HInv
<1>5. t # None
  BY <1>4, NoneAssumption
<1>6. CASE task' = [task EXCEPT ![p] = t] /\ UNCHANGED <<scfd, slot, wire>>
  <2>1. TypeOK'
    BY <1>1, <1>4, <1>6 DEF HInv, TypeOK
  <2>2. Oriented'
    <3>1. \A q \in Peers : /\ task'[q] # None => \/ task'[q] = task[q]
                                                \/ /\ task'[q].client = None
                                                   /\ task'[q].server = None
                          /\ opened'[q] >= opened[q] /\ opened[q] \in Nat
                          /\ opened'[q] \in Nat
      BY <1>1, <1>4, <1>6 DEF HInv, TypeOK
    <3>2. \A q \in Peers : task[q] # None /\ task[q].client # None =>
            task[q].client \in Conns
      BY DEF HInv, TypeOK, Tasks
    <3>3. \A d \in Conns : d.no \in Nat
      BY ConnFrom, AttemptsAssumption
    <3> QED BY <3>1, <3>2, <3>3 DEF HInv, Oriented
  <2>3. AllFit(wire)' /\ AllFit(cache)'
    BY <1>1, <1>6 DEF HInv, AllFit
  <2>4. Reading'
    BY <1>1, <1>4, <1>5, <1>6 DEF HInv, Reading, TypeOK, Belongs, Conns
  <2> QED BY <2>1, <2>2, <2>3, <2>4 DEF HInv
<1>7. CASE /\ t.client = None
           /\ task' = [task EXCEPT ![p] = [t EXCEPT !.client = c]]
           /\ scfd' = [scfd EXCEPT ![p][c] = "open"]
           /\ slot' = [slot EXCEPT ![p][c] = "live"]
           /\ wire' = [wire EXCEPT ![Other(p)][c] = <<Number("REQ", t.selfnum)>>]
  <2>1. [t EXCEPT !.client = c] \in Tasks
    BY <1>2, <1>4 DEF Tasks
  <2>2. /\ <<Number("REQ", t.selfnum)>> \in Seq(Packets)
        /\ Number("REQ", t.selfnum).cmd = "REQ"
    BY <1>4, Packing DEF Tasks
  <2>3. TypeOK'
    <3>1. task' \in [Peers -> Tasks \cup {None}]
      BY <1>7, <2>1 DEF HInv, TypeOK
    <3>2. scfd' \in [Peers -> [Conns -> {"none", "open", "shut"}]]
      BY <1>2, <1>7 DEF HInv, TypeOK
    <3>3. slot' \in [Peers -> [Conns -> {"none", "live", "freed"}]]
      BY <1>2, <1>7 DEF HInv, TypeOK
    <3>4. wire' \in [Peers -> [Conns -> Seq(Packets)]]
      BY <1>2, <1>7, <2>2, TheOther DEF HInv, TypeOK
    <3>5. /\ opened' \in [Peers -> Nat]
          /\ UNCHANGED <<cache, events, finished, starters, blind, erased, ub>>
      BY <1>1 DEF HInv, TypeOK
    <3> HIDE <1>1, <1>3, <1>7
    <3> QED BY <3>1, <3>2, <3>3, <3>4, <3>5 DEF HInv, TypeOK
  <2>4. task'[p] = [t EXCEPT !.client = c] /\ task'[p] # None
    BY <1>7, <2>1, NoneAssumption DEF HInv, TypeOK
  <2>5. /\ task'[p].client = c /\ task'[p].server = t.server
        /\ \A q \in Peers \ {p} : task'[q] = task[q]
    BY <1>4, <1>7, <2>4 DEF HInv, TypeOK, Tasks
  <2>6. Oriented'
    <3>1. \A q \in Peers : /\ opened'[q] >= opened[q] /\ opened[q] \in Nat
                          /\ opened'[q] \in Nat
      BY <1>1 DEF HInv, TypeOK
    <3>2. \A q \in Peers : task[q] # None /\ task[q].client # None =>
            task[q].client \in Conns
      BY DEF HInv, TypeOK, Tasks
    <3>3. \A d \in Conns : d.no \in Nat
      BY ConnFrom, AttemptsAssumption
    <3>4. c.from = p /\ c.no = opened'[p]
      BY <1>1, <1>2 DEF HInv, TypeOK
    <3>5. ASSUME NEW q \in Peers, q # p
          PROVE  task'[q] # None =>
                   /\ task'[q].client # None =>
                        task'[q].client.from = q /\ task'[q].client.no <= opened'[q]
                   /\ task'[q].server # None => task'[q].server.from # q
      BY <2>5, <3>1, <3>2, <3>3, <3>5 DEF HInv, Oriented
    <3>6. /\ c.no <= opened'[p]
          /\ t.server # None => t.server.from # p
      BY <1>4, <1>5, <3>1, <3>4 DEF HInv, Oriented
    <3> QED BY <2>5, <3>4, <3>5, <3>6 DEF Oriented
  <2>7. AllFit(wire)'
    <3>1. ASSUME NEW q \in Peers, NEW d \in Conns
          PROVE  wire'[q][d] = wire[q][d]
                   \/ wire'[q][d] = <<Number("REQ", t.selfnum)>>
      BY <1>2, <1>7, TheOther DEF HInv, TypeOK
    <3>2. \A q \in Peers, d \in Conns : Fits(q, d, Number("REQ", t.selfnum))
      BY <2>2 DEF Fits
    <3> QED BY <3>1, <3>2 DEF HInv, AllFit
  <2>8. AllFit(cache)'
    BY <1>1 DEF HInv, AllFit
  <2>9. Reading'
    <3> SUFFICES ASSUME NEW q \in Peers, NEW d \in Conns
                 PROVE  /\ scfd'[q][d] = "none" => slot'[q][d] = "none"
                        /\ (d.from = q /\ d.no > opened'[q]) => slot'[q][d] = "none"
                        /\ d \in finished'[q] => slot'[q][d] = "freed"
                        /\ slot'[q][d] = "live" => Belongs(q, d)'
      BY DEF Reading
    <3>1. CASE q = p /\ d = c
      <4>1. c \notin finished[p]
        BY <1>1, <1>2 DEF HInv, Reading
      <4>2. scfd'[p][c] = "open" /\ slot'[p][c] = "live" /\ opened'[p] = opened[p] + 1
        BY <1>1, <1>2, <1>7 DEF HInv, TypeOK
      <4>3. Belongs(p, c)'
        <5>1. c.from = p
          BY <1>2
        <5> QED BY <2>4, <2>5, <5>1 DEF Belongs
      <4>4. ~(c.no > opened'[p]) /\ c \notin finished'[p]
        BY <1>1, <1>2, <4>1, <4>2
      <4> QED BY <3>1, <4>2, <4>3, <4>4
    <3>2. CASE ~(q = p /\ d = c)
      <4>1. scfd'[q][d] = scfd[q][d] /\ slot'[q][d] = slot[q][d]
        BY <1>2, <1>7, <3>2 DEF HInv, TypeOK
      <4>2. d.no \in Nat /\ opened[q] \in Nat /\ opened'[q] >= opened[q]
        BY <1>1, ConnFrom, AttemptsAssumption DEF HInv, TypeOK
      <4>3. Belongs(q, d) => Belongs(q, d)'
        <5>1. CASE q # p
          BY <2>5, <5>1 DEF Belongs
        <5>2. CASE q = p /\ Belongs(p, d)
          <6>1. t = task[p] /\ d # None
            BY <1>4, <5>2, NoneAssumption DEF Belongs
          <6>2. d.from # p
            BY <1>7, <5>2, <6>1 DEF Belongs
          <6> QED BY <2>4, <2>5, <5>2, <6>1, <6>2 DEF Belongs
        <5> QED BY <5>1, <5>2
      <4> QED BY <1>1, <4>1, <4>2, <4>3 DEF HInv, Reading
    <3> QED BY <3>1, <3>2
  <2> QED BY <2>3, <2>6, <2>7, <2>8, <2>9 DEF HInv
<1> QED BY <1>3, <1>6, <1>7

\* A new server is a connection of the other peer, accepted only once.
LEMMA AcceptStep ==
  ASSUME HInv, NEW p \in Peers, NEW c \in Conns, Accept(p, c)
  PROVE  HInv'
<1>1. /\ c.from # p /\ scfd[p][c] = "none"
      /\ UNCHANGED <<opened, wire, cache, events, finished, starters, blind, erased, ub>>
  BY DEF Accept, history
<1>2. PICK t \in Find(p) :
        \/ /\ t.server # None
           /\ task' = [task EXCEPT ![p] = t]
           /\ scfd' = [scfd EXCEPT ![p][c] = "shut"]
           /\ UNCHANGED slot
        \/ /\ t.server = None
           /\ task' = [task EXCEPT ![p] = [t EXCEPT !.server = c]]
           /\ scfd' = [scfd EXCEPT ![p][c] = "open"]
           /\ slot' = [slot EXCEPT ![p][c] = "live"]
  BY DEF Accept
<1>3. /\ t \in Tasks
      /\ task[p] # None => t = task[p]
      /\ task[p] = None => t.client = None /\ t.server = None
  BY Found DEF HInv
<1>4. t # None /\ [t EXCEPT !.server = c] \in Tasks /\ [t EXCEPT !.server = c] # None
  BY <1>3, NoneAssumption DEF Tasks
<1>5. /\ task'[p] # None /\ task'[p].client = t.client
      /\ \/ t.server # None /\ task'[p].server = t.server
         \/ t.server = None /\ task'[p].server = c
      /\ \A q \in Peers \ {p} : task'[q] = task[q]
  BY <1>2, <1>3, <1>4 DEF HInv, TypeOK, Tasks
<1>6. \A q \in Peers, d \in Conns :
        ~(q = p /\ d = c) => scfd'[q][d] = scfd[q][d] /\ slot'[q][d] = slot[q][d]
  BY <1>2 DEF HInv, TypeOK
<1>7. slot[p][c] = "none" /\ c \notin finished[p]
  BY <1>1 DEF HInv, Reading
<1>8. TypeOK'
  <2>1. task' \in [Peers -> Tasks \cup {None}]
    BY <1>2, <1>3, <1>4 DEF HInv, TypeOK
  <2>2. /\ scfd' \in [Peers -> [Conns -> {"none", "open", "shut"}]]
        /\ slot' \in [Peers -> [Conns -> {"none", "live", "freed"}]]
    <3>1. /\ scfd \in [Peers -> [Conns -> {"none", "open", "shut"}]]
          /\ slot \in [Peers -> [Conns -> {"none", "live", "freed"}]]
      BY DEF HInv, TypeOK
    <3>2. scfd' = [scfd EXCEPT ![p][c] = "open"] \/ scfd' = [scfd EXCEPT ![p][c] = "shut"]
      BY <1>2
    <3>3. slot' = slot \/ slot' = [slot EXCEPT ![p][c] = "live"]
      BY <1>2
    <3>4. scfd' \in [Peers -> [Conns -> {"none", "open", "shut"}]]
      <4>1. [scfd EXCEPT ![p][c] = "open"] \in [Peers -> [Conns -> {"none", "open", "shut"}]]
        BY <3>1
      <4>2. [scfd EXCEPT ![p][c] = "shut"] \in [Peers -> [Conns -> {"none", "open", "shut"}]]
        BY <3>1
      <4> QED BY <3>2, <4>1, <4>2
    <3>5. slot' \in [Peers -> [Conns -> {"none", "live", "freed"}]]
      BY <3>1, <3>3, AtEnd
    <3> QED BY <3>4, <3>5
  <2> QED BY <1>1, <2>1, <2>2 DEF HInv, TypeOK
<1>9. Oriented'
  <2>1. t.client # None => t.client.from = p /\ t.client.no <= opened[p]
    BY <1>3, <1>4 DEF HInv, Oriented
  <2>2. t.server # None => t.server.from # p
    BY <1>3, <1>4 DEF HInv, Oriented
  <2> QED BY <1>1, <1>5, <2>1, <2>2 DEF HInv, Oriented
<1>10. AllFit(wire)' /\ AllFit(cache)'
  BY <1>1 DEF HInv, AllFit
<1>11. Reading'
  <2> SUFFICES ASSUME NEW q \in Peers, NEW d \in Conns
               PROVE  /\ scfd'[q][d] = "none" => slot'[q][d] = "none"
                      /\ (d.from = q /\ d.no > opened'[q]) => slot'[q][d] = "none"
                      /\ d \in finished'[q] => slot'[q][d] = "freed"
                      /\ slot'[q][d] = "live" => Belongs(q, d)'
    BY DEF Reading
  <2>1. CASE q = p /\ d = c
    <3>1. \/ scfd'[p][c] = "shut" /\ slot'[p][c] = "none"
          \/ scfd'[p][c] = "open" /\ slot'[p][c] = "live" /\ t.server = None
      BY <1>2, <1>7 DEF HInv, TypeOK
    <3>2. slot'[p][c] = "live" => Belongs(p, c)'
      BY <1>1, <1>5, <3>1 DEF Belongs
    <3> QED BY <1>1, <1>7, <2>1, <3>1, <3>2
  <2>2. CASE ~(q = p /\ d = c)
    <3>1. Belongs(q, d) => Belongs(q, d)'
      <4>1. CASE q # p
        BY <1>5, <4>1 DEF Belongs
      <4>2. CASE q = p /\ Belongs(p, d)
        <5>1. t = task[p] /\ d # None
          BY <1>3, <4>2, NoneAssumption DEF Belongs
        <5> QED BY <1>5, <4>2, <5>1 DEF Belongs
      <4> QED BY <4>1, <4>2
    <3> QED BY <1>1, <1>6, <2>2, <3>1 DEF HInv, Reading
  <2> QED BY <2>1, <2>2
<1> QED BY <1>8, <1>9, <1>10, <1>11 DEF HInv

\* What is left of a wire, and what a cache holds after it took the rest, are
\* packets that were there.
LEMMA Leaving ==
  ASSUME NEW q \in Seq(Packets), NEW n \in 0..Len(q)
  PROVE  /\ SubSeq(q, n + 1, Len(q)) \in Seq(Packets)
         /\ \A i \in 1..Len(SubSeq(q, n + 1, Len(q))) :
              \E j \in 1..Len(q) : SubSeq(q, n + 1, Len(q))[i] = q[j]
<1>1. /\ SubSeq(q, n + 1, Len(q)) \in Seq(Packets)
      /\ Len(SubSeq(q, n + 1, Len(q))) = Len(q) - n
  OBVIOUS
<1>2. \A i \in 1..(Len(q) - n) : SubSeq(q, n + 1, Len(q))[i] = q[n + i]
  OBVIOUS
<1>3. ASSUME NEW i \in 1..Len(SubSeq(q, n + 1, Len(q)))
      PROVE  \E j \in 1..Len(q) : SubSeq(q, n + 1, Len(q))[i] = q[j]
  <2>1. i \in 1..(Len(q) - n) /\ n + i \in 1..Len(q)
    BY <1>1
  <2> QED BY <1>2, <2>1
<1> QED BY <1>1, <1>3

LEMMA Taking ==
  ASSUME NEW s \in Seq(Packets), NEW q \in Seq(Packets), NEW n \in 0..Len(q)
  PROVE  /\ s \o SubSeq(q, 1, n) \in Seq(Packets)
         /\ \A i \in 1..Len(s \o SubSeq(q, 1, n)) :
              \/ i \in 1..Len(s) /\ (s \o SubSeq(q, 1, n))[i] = s[i]
              \/ \E j \in 1..Len(q) : (s \o SubSeq(q, 1, n))[i] = q[j]
<1>1. SubSeq(q, 1, n) \in Seq(Packets) /\ Len(SubSeq(q, 1, n)) = n
  OBVIOUS
<1>2. \A i \in 1..n : SubSeq(q, 1, n)[i] = q[i]
  OBVIOUS
<1>3. \A i \in 1..Len(s \o SubSeq(q, 1, n)) :
        \/ i \in 1..Len(s) /\ (s \o SubSeq(q, 1, n))[i] = s[i]
        \/ i - Len(s) \in 1..n /\ (s \o SubSeq(q, 1, n))[i] = SubSeq(q, 1, n)[i - Len(s)]
  BY <1>1
<1> QED BY <1>1, <1>2, <1>3

\* Replacing what is at one end by packets that fit it.
LEMMA FittingEnd ==
  ASSUME NEW w \in Wires, AllFit(w), NEW p \in Peers, NEW c \in Conns,
         NEW s \in Seq(Packets), \A i \in 1..Len(s) : Fits(p, c, s[i])
  PROVE  [w EXCEPT ![p][c] = s] \in Wires /\ AllFit([w EXCEPT ![p][c] = s])
<1>1. [w EXCEPT ![p][c] = s] \in Wires
  BY DEF Wires
<1>2. /\ [w EXCEPT ![p][c] = s][p][c] = s
      /\ \A q \in Peers, d \in Conns :
           ~(q = p /\ d = c) => [w EXCEPT ![p][c] = s][q][d] = w[q][d]
  BY DEF Wires
<1> QED BY <1>1, <1>2 DEF AllFit

\* Receiving moves packets from a wire to the cache of the same end.
LEMMA ReceiveStep ==
  ASSUME HInv, NEW p \in Peers, NEW c \in Conns, OnRecve(p, c) \/ OnDisconnect(p, c)
  PROVE  HInv'
<1>1. wire \in Wires /\ cache \in Wires /\ AllFit(wire) /\ AllFit(cache)
  BY DEF HInv, TypeOK, Wires
<1>2. wire' \in Wires /\ cache' \in Wires /\ AllFit(wire)' /\ AllFit(cache)'
  <2>1. PICK q \in Seq(Packets), b \in Seq(Packets) : q = wire[p][c] /\ b = cache[p][c]
    BY <1>1 DEF Wires
  <2>2. /\ \A i \in 1..Len(q) : Fits(p, c, q[i])
        /\ \A i \in 1..Len(b) : Fits(p, c, b[i])
    BY <1>1, <2>1 DEF AllFit
  <2>3. PICK n \in 0..Len(q) :
          /\ cache' = [cache EXCEPT ![p][c] = b \o SubSeq(q, 1, n)]
          /\ \/ wire' = [wire EXCEPT ![p][c] = SubSeq(q, n + 1, Len(q))]
             \/ wire' = [wire EXCEPT ![p][c] = <<>>]
    <3>1. CASE OnRecve(p, c)
      <4>1. PICK n \in 1..Len(wire[p][c]) :
              /\ cache' = [cache EXCEPT ![p][c] = @ \o SubSeq(wire[p][c], 1, n)]
              /\ wire' = [wire EXCEPT ![p][c] = SubSeq(@, n + 1, Len(@))]
        BY <3>1 DEF OnRecve
      <4>2. n \in 0..Len(q)
        BY <2>1, <4>1
      <4>3. cache' = [cache EXCEPT ![p][c] = b \o SubSeq(q, 1, n)]
        BY <1>1, <2>1, <4>1 DEF Wires
      <4>4. wire' = [wire EXCEPT ![p][c] = SubSeq(q, n + 1, Len(q))]
        BY <1>1, <2>1, <4>1 DEF Wires
      <4> QED BY <4>2, <4>3, <4>4
    <3>2. CASE OnDisconnect(p, c)
      BY <1>1, <2>1, <3>2 DEF OnDisconnect, Wires
    <3> QED BY <3>1, <3>2
  <2>4. PICK s \in Seq(Packets) :
          s = b \o SubSeq(q, 1, n) /\ \A i \in 1..Len(s) : Fits(p, c, s[i])
    BY <2>2, Taking
  <2>5. PICK r \in Seq(Packets) :
          /\ r = SubSeq(q, n + 1, Len(q)) \/ r = <<>>
          /\ wire' = [wire EXCEPT ![p][c] = r]
          /\ \A i \in 1..Len(r) : Fits(p, c, r[i])
    <3>1. CASE wire' = [wire EXCEPT ![p][c] = SubSeq(q, n + 1, Len(q))]
      BY <2>2, <3>1, Leaving
    <3>2. CASE wire' = [wire EXCEPT ![p][c] = <<>>]
      <4>1. <<>> \in Seq(Packets) /\ 1..Len(<<>>) = {}
        OBVIOUS
      <4> QED BY <3>2, <4>1
    <3> QED BY <2>3, <3>1, <3>2
  <2>6. cache' = [cache EXCEPT ![p][c] = s]
    BY <2>3, <2>4
  <2>7. wire' \in Wires /\ AllFit(wire')
    BY <1>1, <2>5, FittingEnd
  <2>8. cache' \in Wires /\ AllFit(cache')
    BY <1>1, <2>4, <2>6, FittingEnd
  <2> QED BY <2>7, <2>8 DEF AllFit
<1>3. /\ UNCHANGED <<task, opened, slot, finished, starters, blind, erased, ub>>
      /\ scfd[p][c] = "open"
      /\ scfd' = scfd \/ scfd' = [scfd EXCEPT ![p][c] = "shut"]
  BY DEF OnRecve, OnDisconnect, history
<1>4. events' \in [Peers -> [Conns -> Nat]]
  <2>1. events \in [Peers -> [Conns -> Nat]]
    BY DEF HInv, TypeOK
  <2>2. events[p][c] + 1 \in Nat
    BY <2>1
  <2>3. events' = events \/ events' = [events EXCEPT ![p][c] = events[p][c] + 1]
    BY <2>1 DEF OnRecve, OnDisconnect
  <2> QED BY <2>1, <2>2, <2>3, AtEnd
<1>5. /\ scfd' \in [Peers -> [Conns -> {"none", "open", "shut"}]]
      /\ \A q \in Peers, d \in Conns : scfd'[q][d] = "none" => scfd[q][d] = "none"
  <2>1. scfd \in [Peers -> [Conns -> {"none", "open", "shut"}]]
    BY DEF HInv, TypeOK
  <2> QED BY <1>3, <2>1, AtEnd
<1>6. TypeOK'
  BY <1>2, <1>3, <1>4, <1>5 DEF HInv, TypeOK, Wires
<1>7. Oriented'
  BY <1>3 DEF HInv, Oriented
<1>8. Reading'
  BY <1>3, <1>5 DEF HInv, Reading, Belongs
<1> QED BY <1>2, <1>6, <1>7, <1>8 DEF HInv

-----------------------------------------------------------------------------
\* What SlotRead reads fits the end it reads, which belongs to the task.
LEMMA Looked ==
  ASSUME HInv, NEW p \in Peers, NEW c \in Conns,
         slot[p][c] = "live", cache[p][c] # <<>>
  PROVE  /\ LookedAt(cache[p][c]) \in Packets
         /\ Fits(p, c, LookedAt(cache[p][c]))
         /\ Belongs(p, c)
         /\ task[p] \in Tasks
<1>1. cache[p][c] \in Seq(Packets) /\ task[p] \in Tasks \cup {None}
  BY DEF HInv, TypeOK
<1>2. 1 \in 1..Len(cache[p][c]) /\ Head(cache[p][c]) = cache[p][c][1]
  BY <1>1
<1>3. Head(cache[p][c]) \in Packets
  BY <1>1
<1>4. Belongs(p, c)
  BY DEF HInv, Reading
<1> QED BY <1>1, <1>2, <1>3, <1>4 DEF HInv, AllFit, LookedAt, Belongs

\* Storing a number and asking move neither socket of the task.
LEMMA ExchangeStep ==
  ASSUME HInv, NEW p \in Peers, NEW c \in Conns, NEW pk \in Packets,
         task[p] \in Tasks, Exchange(p, c, pk)
  PROVE  /\ task' \in [Peers -> Tasks \cup {None}]
         /\ \A q \in Peers : task[q] # None =>
              /\ task'[q] # None
              /\ task'[q].client = task[q].client /\ task'[q].server = task[q].server
         /\ \A q \in Peers : task[q] = None => task'[q] = None
         /\ wire' \in Wires /\ AllFit(wire)'
         /\ starters' \subseteq Peers /\ blind' \subseteq Peers
<1> DEFINE t == task[p]
           w == IF Starts(t) THEN Challenge(p, t) ELSE wire
<1>1. /\ pk.cmd \in {"REQ", "ACK"}
      /\ task' = [task EXCEPT ![p].othernum = pk.num, ![p].checked = @ \/ Starts(t)]
      /\ wire' = IF pk.cmd = "ACK" THEN w ELSE SendSelf(w, p, c, Number("ACK", t.selfnum))
      /\ starters' = IF Starts(t) THEN starters \cup {p} ELSE starters
      /\ blind' = IF Starts(t) /\ t.othernum \in Garbage THEN blind \cup {p} ELSE blind
  BY DEF Exchange
<1>2. pk.num \in Nums
  BY <1>1 DEF Packets, Numbers, Answers
<1>3. task \in [Peers -> Tasks \cup {None}] /\ t # None /\ wire \in Wires
  BY NoneAssumption DEF HInv, TypeOK, Wires
<1>4. (t.checked \/ Starts(t)) \in BOOLEAN
  BY DEF Starts, Tasks
<1>5. PICK u \in Tasks :
        /\ task' = [task EXCEPT ![p] = u]
        /\ u.client = t.client /\ u.server = t.server
  <2>1. [t EXCEPT !.othernum = pk.num, !.checked = t.checked \/ Starts(t)] \in Tasks
    BY <1>2, <1>4 DEF Tasks
  <2> QED BY <1>1, <1>3, <2>1 DEF Tasks
<1>6. u # None
  BY NoneAssumption
<1>7. w \in Wires /\ AllFit(w)
  BY <1>3, Asking DEF HInv
<1>8. /\ Number("ACK", t.selfnum) \in Packets
      /\ Fits(Other(p), c, Number("ACK", t.selfnum))
  BY Packing DEF Tasks, Fits
<1>9. /\ SendSelf(w, p, c, Number("ACK", t.selfnum)) \in Wires
      /\ AllFit(SendSelf(w, p, c, Number("ACK", t.selfnum)))
  BY <1>7, <1>8, Sending, SendingFits
<1>10. wire' \in Wires /\ AllFit(wire)'
  BY <1>1, <1>7, <1>9 DEF AllFit
<1>11. starters' \subseteq Peers /\ blind' \subseteq Peers
  BY <1>1 DEF HInv, TypeOK
<1>12. task' \in [Peers -> Tasks \cup {None}]
  BY <1>3, <1>5
<1>13. \A q \in Peers : task'[q] = IF q = p THEN u ELSE task[q]
  BY <1>3, <1>5
<1> QED BY <1>3, <1>5, <1>6, <1>10, <1>11, <1>12, <1>13

\* The last four commands are about the socket that has been read.
LEMMA AboutTheRead ==
  ASSUME NEW p \in Peers, NEW c \in Conns, NEW pk \in Packets,
         pk.cmd \notin {"REQ", "ACK"}, Fits(p, c, pk), Belongs(p, c)
  PROVE  About(task[p], pk.cmd) = c
<1>1. pk.cmd \in {"OKSERVERREQ", "OKCLIENTREQ", "OKSERVERACK", "OKCLIENTACK"}
  BY DEF Packets, Numbers, Answers
<1> QED BY <1>1 DEF Fits, Belongs, About

\* A socket is handed over: its slot is freed, and the answer, if there is
\* one, fits the other end.
LEMMA FinishStep ==
  ASSUME HInv, NEW p \in Peers, NEW c \in Conns, NEW pk \in Packets,
         Fits(p, c, pk), Belongs(p, c), Finish(p, pk)
  PROVE  /\ slot' = [slot EXCEPT ![p][c] = "freed"]
         /\ finished' = [finished EXCEPT ![p] = @ \cup {c}]
         /\ wire' \in Wires /\ AllFit(wire)'
         /\ UNCHANGED <<task, starters, blind, ub>>
<1>1. pk.cmd \notin {"REQ", "ACK"} /\ About(task[p], pk.cmd) = c
  BY AboutTheRead DEF Finish
<1>2. c # None
  BY NoneAssumption
<1>3. /\ slot' = [slot EXCEPT ![p][c] = "freed"]
      /\ finished' = [finished EXCEPT ![p] = @ \cup {c}]
      /\ wire' = CASE pk.cmd = "OKSERVERREQ" -> SendSelf(wire, p, c, Cmd("OKCLIENTACK"))
                   [] pk.cmd = "OKCLIENTREQ" -> SendSelf(wire, p, c, Cmd("OKSERVERACK"))
                   [] OTHER -> wire
      /\ UNCHANGED <<task, starters, blind, ub>>
  BY <1>1, <1>2 DEF Finish
<1>4. wire \in Wires /\ AllFit(wire)
  BY DEF HInv, TypeOK, Wires
<1>5. CASE pk.cmd = "OKSERVERREQ"
  <2>1. c.from # p /\ c.from \in Peers
    BY <1>5, ConnFrom DEF Fits
  <2>2. Fits(Other(p), c, Cmd("OKCLIENTACK")) /\ Cmd("OKCLIENTACK") \in Packets
    BY <2>1, TheOther, Packing DEF Fits
  <2>3. wire' = SendSelf(wire, p, c, Cmd("OKCLIENTACK"))
    BY <1>3, <1>5
  <2>4. wire' \in Wires /\ AllFit(wire')
    BY <1>4, <2>2, <2>3, Sending, SendingFits
  <2> QED BY <1>3, <2>4 DEF AllFit
<1>6. CASE pk.cmd = "OKCLIENTREQ"
  <2>1. c.from = p
    BY <1>6 DEF Fits
  <2>2. Fits(Other(p), c, Cmd("OKSERVERACK")) /\ Cmd("OKSERVERACK") \in Packets
    BY <2>1, TheOther, Packing DEF Fits
  <2>3. wire' = SendSelf(wire, p, c, Cmd("OKSERVERACK"))
    BY <1>3, <1>6
  <2>4. wire' \in Wires /\ AllFit(wire')
    BY <1>4, <2>2, <2>3, Sending, SendingFits
  <2> QED BY <1>3, <2>4 DEF AllFit
<1>7. CASE pk.cmd \notin {"OKSERVERREQ", "OKCLIENTREQ"}
  BY <1>3, <1>4, <1>7 DEF AllFit
<1> QED BY <1>5, <1>6, <1>7

LEMMA ReadStep ==
  ASSUME HInv, NEW p \in Peers, NEW c \in Conns, SlotRead(p, c)
  PROVE  HInv'
<1>1. /\ events' = [events EXCEPT ![p][c] = @ - 1] /\ events[p][c] > 0
      /\ UNCHANGED <<opened, scfd, erased>>
  BY DEF SlotRead
<1>2. events' \in [Peers -> [Conns -> Nat]]
  <2>1. events \in [Peers -> [Conns -> Nat]]
    BY DEF HInv, TypeOK
  <2>2. events[p][c] - 1 \in Nat
    BY <1>1, <2>1
  <2> QED BY <1>1, <2>1, <2>2, AtEnd
<1>3. CASE UNCHANGED <<task, slot, wire, cache, finished, starters, blind>>
            /\ (ub' = TRUE \/ UNCHANGED ub)
  <2>1. TypeOK'
    BY <1>1, <1>2, <1>3 DEF HInv, TypeOK
  <2>2. Oriented' /\ Reading'
    BY <1>1, <1>3 DEF HInv, Oriented, Reading, Belongs
  <2>3. AllFit(wire)' /\ AllFit(cache)'
    BY <1>3 DEF HInv, AllFit
  <2> QED BY <2>1, <2>2, <2>3 DEF HInv
<1>4. CASE /\ slot[p][c] = "live" /\ cache[p][c] # <<>>
           /\ cache' = [cache EXCEPT ![p][c] = <<>>]
           /\ LET pk == LookedAt(cache[p][c]) IN Exchange(p, c, pk) \/ Finish(p, pk)
  <2>1. PICK pk \in Packets : /\ pk = LookedAt(cache[p][c])
                              /\ Fits(p, c, pk) /\ Belongs(p, c) /\ task[p] \in Tasks
    BY <1>4, Looked
  <2>2. cache' \in Wires /\ AllFit(cache)'
    <3>1. <<>> \in Seq(Packets) /\ 1..Len(<<>>) = {}
      OBVIOUS
    <3>2. cache \in Wires /\ AllFit(cache)
      BY DEF HInv, TypeOK, Wires
    <3>3. cache' \in Wires /\ AllFit(cache')
      BY <1>4, <3>1, <3>2, FittingEnd
    <3> QED BY <3>3 DEF AllFit
  <2>3. CASE Exchange(p, c, pk)
    <3>1. /\ task' \in [Peers -> Tasks \cup {None}]
          /\ \A q \in Peers : task[q] # None =>
               /\ task'[q] # None
               /\ task'[q].client = task[q].client /\ task'[q].server = task[q].server
          /\ \A q \in Peers : task[q] = None => task'[q] = None
          /\ wire' \in Wires /\ AllFit(wire)'
          /\ starters' \subseteq Peers /\ blind' \subseteq Peers
      BY <2>1, <2>3, ExchangeStep
    <3>2. UNCHANGED <<slot, finished, ub>>
      BY <2>3 DEF Exchange
    <3>3. TypeOK'
      BY <1>1, <1>2, <2>2, <3>1, <3>2 DEF HInv, TypeOK, Wires
    <3>4. Oriented'
      BY <1>1, <3>1 DEF HInv, Oriented
    <3>5. Reading'
      BY <1>1, <3>1, <3>2 DEF HInv, Reading, Belongs
    <3> QED BY <2>2, <3>1, <3>3, <3>4, <3>5 DEF HInv
  <2>4. CASE Finish(p, pk)
    <3>1. /\ slot' = [slot EXCEPT ![p][c] = "freed"]
          /\ finished' = [finished EXCEPT ![p] = @ \cup {c}]
          /\ wire' \in Wires /\ AllFit(wire)'
          /\ UNCHANGED <<task, starters, blind, ub>>
      BY <2>1, <2>4, FinishStep
    <3>2. /\ slot' \in [Peers -> [Conns -> {"none", "live", "freed"}]]
          /\ slot'[p][c] = "freed"
          /\ \A q \in Peers, d \in Conns : ~(q = p /\ d = c) => slot'[q][d] = slot[q][d]
      <4>1. slot \in [Peers -> [Conns -> {"none", "live", "freed"}]]
        BY DEF HInv, TypeOK
      <4> QED BY <3>1, <4>1
    <3>3. /\ finished' \in [Peers -> SUBSET Conns]
          /\ \A q \in Peers, d \in Conns :
               d \in finished'[q] => d \in finished[q] \/ (q = p /\ d = c)
      <4>1. finished \in [Peers -> SUBSET Conns]
        BY DEF HInv, TypeOK
      <4> QED BY <3>1, <4>1
    <3>4. TypeOK'
      BY <1>1, <1>2, <2>2, <3>1, <3>2, <3>3 DEF HInv, TypeOK, Wires
    <3>5. Oriented'
      BY <1>1, <3>1 DEF HInv, Oriented
    <3>6. Reading'
      <4>1. scfd[p][c] # "none" /\ ~(c.from = p /\ c.no > opened[p])
        BY <1>4 DEF HInv, Reading
      <4>2. \A q \in Peers, d \in Conns : Belongs(q, d) => Belongs(q, d)'
        BY <3>1 DEF Belongs
      <4> SUFFICES ASSUME NEW q \in Peers, NEW d \in Conns
                   PROVE  /\ scfd'[q][d] = "none" => slot'[q][d] = "none"
                          /\ (d.from = q /\ d.no > opened'[q]) => slot'[q][d] = "none"
                          /\ d \in finished'[q] => slot'[q][d] = "freed"
                          /\ slot'[q][d] = "live" => Belongs(q, d)'
        BY DEF Reading
      <4>3. CASE q = p /\ d = c
        BY <1>1, <3>2, <4>1, <4>3
      <4>4. CASE ~(q = p /\ d = c)
        BY <1>1, <3>2, <3>3, <4>2, <4>4 DEF HInv, Reading
      <4> QED BY <4>3, <4>4
    <3> QED BY <2>2, <3>1, <3>4, <3>5, <3>6 DEF HInv
  <2> QED BY <1>4, <2>1, <2>3, <2>4
<1> QED BY <1>3, <1>4 DEF SlotRead

\* A time-out frees what the task holds and has not handed over, which is all
\* that was still read.
LEMMA TimeOutStep ==
  ASSUME HInv, NEW p \in Peers, TimeOut(p)
  PROVE  HInv'
<1>1. /\ task[p] # None /\ task' = [task EXCEPT ![p] = None] /\ erased' = TRUE
      /\ UNCHANGED <<opened, wire, cache, events, finished, starters, blind, ub>>
  BY DEF TimeOut
<1>2. \A q \in Peers : task'[q] = IF q = p THEN None ELSE task[q]
  BY <1>1 DEF HInv, TypeOK
<1>3. /\ scfd' \in [Peers -> [Conns -> {"none", "open", "shut"}]]
      /\ slot' \in [Peers -> [Conns -> {"none", "live", "freed"}]]
      /\ \A q \in Peers, d \in Conns :
           IF q = p /\ d \in Gone(p)
           THEN scfd'[q][d] = "shut" /\ slot'[q][d] = "freed"
           ELSE scfd'[q][d] = scfd[q][d] /\ slot'[q][d] = slot[q][d]
  <2>1. /\ scfd \in [Peers -> [Conns -> {"none", "open", "shut"}]]
        /\ slot \in [Peers -> [Conns -> {"none", "live", "freed"}]]
    BY DEF HInv, TypeOK
  <2>2. /\ scfd' = [scfd EXCEPT ![p] = [d \in Conns |-> IF d \in Gone(p) THEN "shut"
                                                        ELSE scfd[p][d]]]
        /\ slot' = [slot EXCEPT ![p] = [d \in Conns |-> IF d \in Gone(p) THEN "freed"
                                                        ELSE slot[p][d]]]
    BY <2>1 DEF TimeOut
  <2> HIDE <1>1, <1>2
  <2> QED BY <2>1, <2>2
<1>4. TypeOK'
  BY <1>1, <1>3 DEF HInv, TypeOK
<1>5. Oriented'
  BY <1>1, <1>2 DEF HInv, Oriented
<1>6. AllFit(wire)' /\ AllFit(cache)'
  BY <1>1 DEF HInv, AllFit
<1>7. Reading'
  <2> SUFFICES ASSUME NEW q \in Peers, NEW d \in Conns
               PROVE  /\ scfd'[q][d] = "none" => slot'[q][d] = "none"
                      /\ (d.from = q /\ d.no > opened'[q]) => slot'[q][d] = "none"
                      /\ d \in finished'[q] => slot'[q][d] = "freed"
                      /\ slot'[q][d] = "live" => Belongs(q, d)'
    BY DEF Reading
  <2>1. CASE q = p /\ d \in Gone(p)
    <3>1. ~(d.from = p /\ d.no > opened[p])
      <4>1. \/ d = task[p].client /\ task[p].client # None
            \/ d = task[p].server /\ task[p].server # None
        BY <2>1 DEF Gone, Held
      <4>2. d.no \in Nat /\ opened[p] \in Nat
        BY ConnFrom, AttemptsAssumption DEF HInv, TypeOK
      <4> QED BY <1>1, <4>1, <4>2 DEF HInv, Oriented
    <3> QED BY <1>1, <1>3, <2>1, <3>1
  <2>2. CASE q = p /\ d \notin Gone(p)
    <3>1. slot[p][d] # "live"
      <4> SUFFICES ASSUME slot[p][d] = "live" PROVE FALSE
        OBVIOUS
      <4>1. Belongs(p, d) /\ d \notin finished[p]
        BY DEF HInv, Reading
      <4>2. d # None
        BY NoneAssumption
      <4>3. d \in {task[p].client, task[p].server}
        BY <4>1 DEF Belongs
      <4> QED BY <2>2, <4>1, <4>2, <4>3 DEF Gone, Held
    <3> QED BY <1>1, <1>3, <2>2, <3>1 DEF HInv, Reading
  <2>3. CASE q # p
    BY <1>1, <1>2, <1>3, <2>3 DEF HInv, Reading, Belongs
  <2> QED BY <2>1, <2>2, <2>3
<1> QED BY <1>4, <1>5, <1>6, <1>7 DEF HInv

-----------------------------------------------------------------------------
LEMMA NextHInv == HInv /\ [Next]_vars => HInv'
<1> SUFFICES ASSUME HInv, [Next]_vars PROVE HInv'
  OBVIOUS
<1>1. CASE UNCHANGED vars
  BY <1>1 DEF vars, HInv, TypeOK, Oriented, AllFit, Reading, Belongs
<1>2. CASE Next
  <2>1. PICK p \in Peers : SlotConnect(p) \/ PeerStep(p) \/ TimeOut(p)
    BY <1>2 DEF Next
  <2>2. CASE SlotConnect(p)
    BY <2>2, ConnectStep
  <2>3. ASSUME NEW c \in Conns, Accept(p, c) PROVE HInv'
    BY <2>3, AcceptStep
  <2>4. ASSUME NEW c \in Conns, OnRecve(p, c) \/ OnDisconnect(p, c) PROVE HInv'
    BY <2>4, ReceiveStep
  <2>5. ASSUME NEW c \in Conns, SlotRead(p, c) PROVE HInv'
    BY <2>5, ReadStep
  <2>6. CASE TimeOut(p)
    BY <2>6, TimeOutStep
  <2> QED BY <2>1, <2>2, <2>3, <2>4, <2>5, <2>6 DEF PeerStep
<1> QED BY <1>1, <1>2

\* HInv holds in every state the handshake can reach.
THEOREM Invariance == Spec => []HInv
BY InitHInv, NextHInv, PTL DEF Spec

\* Every variable keeps its type, whatever the peers draw, find in memory and
\* send.
THEOREM TypeCorrect == Spec => []TypeOK
<1>1. HInv => TypeOK
  BY DEF HInv
<1> QED BY <1>1, Invariance, PTL

\* SlotRead answers and hands over the connection it has read: the command
\* always fits the end it arrived at, and that end belongs to the task.
THEOREM AnswersWhatItRead == Spec => []FinishesWhatItRead
<1>1. HInv => FinishesWhatItRead
  BY DEF HInv, AllFit, Reading, Belongs, FinishesWhatItRead
<1> QED BY <1>1, Invariance, PTL

-----------------------------------------------------------------------------
(* What the packets at each end say *)

\* Each end has a set of packets that may be on their way to it.
Allowed == [Peers -> [Conns -> SUBSET Packets]]

In(w, A) == \A q \in Peers, d \in Conns :
              \A i \in 1..Len(w[q][d]) : w[q][d][i] \in A[q][d]

LEMMA SendingIn ==
  ASSUME NEW A \in Allowed, NEW w \in Wires, NEW p \in Peers, NEW c \in Conns,
         NEW pk \in Packets, In(w, A), pk \in A[Other(p)][c]
  PROVE  SendSelf(w, p, c, pk) \in Wires /\ In(SendSelf(w, p, c, pk), A)
<1> DEFINE v == SendSelf(w, p, c, pk)
<1>1. ASSUME NEW q \in Peers, NEW d \in Conns, NEW i \in 1..Len(v[q][d])
      PROVE  v[q][d][i] \in A[q][d]
  <2>1. CASE v[q][d] = w[q][d]
    BY <2>1 DEF In
  <2>2. CASE q = Other(p) /\ d = c /\ v[q][d] = Append(w[q][d], pk)
    <3>1. w[q][d] \in Seq(Packets)
      BY DEF Wires
    <3>2. \/ i \in 1..Len(w[q][d]) /\ v[q][d][i] = w[q][d][i]
          \/ v[q][d][i] = pk
      BY <2>2, <3>1
    <3> QED BY <2>2, <3>2 DEF In
  <2> HIDE DEF v
  <2> QED BY <2>1, <2>2, Sending DEF v
<1> QED BY <1>1, Sending DEF In

LEMMA EndIn ==
  ASSUME NEW A \in Allowed, NEW w \in Wires, In(w, A), NEW p \in Peers, NEW c \in Conns,
         NEW s \in Seq(Packets), \A i \in 1..Len(s) : s[i] \in A[p][c]
  PROVE  In([w EXCEPT ![p][c] = s], A)
<1>1. /\ [w EXCEPT ![p][c] = s][p][c] = s
      /\ \A q \in Peers, d \in Conns :
           ~(q = p /\ d = c) => [w EXCEPT ![p][c] = s][q][d] = w[q][d]
  BY DEF Wires
<1> QED BY <1>1 DEF In

\* Nothing new comes from receiving.
LEMMA ReceivedIn ==
  ASSUME NEW A \in Allowed, TypeOK, In(wire, A), In(cache, A),
         NEW p \in Peers, NEW c \in Conns, OnRecve(p, c) \/ OnDisconnect(p, c)
  PROVE  In(wire', A) /\ In(cache', A)
<1>1. wire \in Wires /\ cache \in Wires
  BY DEF TypeOK, Wires
<1>2. PICK q \in Seq(Packets), b \in Seq(Packets) : q = wire[p][c] /\ b = cache[p][c]
  BY <1>1 DEF Wires
<1>3. /\ \A i \in 1..Len(q) : q[i] \in A[p][c]
      /\ \A i \in 1..Len(b) : b[i] \in A[p][c]
  BY <1>2 DEF In
<1>4. PICK n \in 0..Len(q) :
        /\ cache' = [cache EXCEPT ![p][c] = b \o SubSeq(q, 1, n)]
        /\ \/ wire' = [wire EXCEPT ![p][c] = SubSeq(q, n + 1, Len(q))]
           \/ wire' = [wire EXCEPT ![p][c] = <<>>]
  <2>1. CASE OnRecve(p, c)
    <3>1. PICK n \in 1..Len(wire[p][c]) :
            /\ cache' = [cache EXCEPT ![p][c] = @ \o SubSeq(wire[p][c], 1, n)]
            /\ wire' = [wire EXCEPT ![p][c] = SubSeq(@, n + 1, Len(@))]
      BY <2>1 DEF OnRecve
    <3>2. n \in 0..Len(q)
      BY <1>2, <3>1
    <3>3. cache' = [cache EXCEPT ![p][c] = b \o SubSeq(q, 1, n)]
      BY <1>1, <1>2, <3>1 DEF Wires
    <3>4. wire' = [wire EXCEPT ![p][c] = SubSeq(q, n + 1, Len(q))]
      BY <1>1, <1>2, <3>1 DEF Wires
    <3> QED BY <3>2, <3>3, <3>4
  <2>2. CASE OnDisconnect(p, c)
    BY <1>1, <1>2, <2>2 DEF OnDisconnect, Wires
  <2> QED BY <2>1, <2>2
<1>5. PICK s \in Seq(Packets) :
        s = b \o SubSeq(q, 1, n) /\ \A i \in 1..Len(s) : s[i] \in A[p][c]
  <2> DEFINE s == b \o SubSeq(q, 1, n)
  <2>1. /\ s \in Seq(Packets)
        /\ \A i \in 1..Len(s) : \/ i \in 1..Len(b) /\ s[i] = b[i]
                               \/ \E j \in 1..Len(q) : s[i] = q[j]
    BY Taking
  <2> HIDE DEF s
  <2>2. \A i \in 1..Len(s) : s[i] \in A[p][c]
    BY <1>3, <2>1
  <2> QED BY <2>1, <2>2, Zenon DEF s
<1>6. PICK r \in Seq(Packets) :
        wire' = [wire EXCEPT ![p][c] = r] /\ \A i \in 1..Len(r) : r[i] \in A[p][c]
  <2>1. CASE wire' = [wire EXCEPT ![p][c] = SubSeq(q, n + 1, Len(q))]
    <3> DEFINE r == SubSeq(q, n + 1, Len(q))
    <3>1. r \in Seq(Packets) /\ \A i \in 1..Len(r) : \E j \in 1..Len(q) : r[i] = q[j]
      BY Leaving
    <3> HIDE DEF r
    <3>2. \A i \in 1..Len(r) : r[i] \in A[p][c]
      BY <1>3, <3>1
    <3> QED BY <2>1, <3>1, <3>2, Zenon DEF r
  <2>2. CASE wire' = [wire EXCEPT ![p][c] = <<>>]
    <3>1. <<>> \in Seq(Packets) /\ 1..Len(<<>>) = {}
      OBVIOUS
    <3> QED BY <2>2, <3>1
  <2> QED BY <1>4, <2>1, <2>2
<1>7. cache' = [cache EXCEPT ![p][c] = s]
  BY <1>4, <1>5
<1>8. In(wire', A)
  BY <1>1, <1>6, EndIn
<1>9. In(cache', A)
  BY <1>1, <1>5, <1>7, EndIn
<1> QED BY <1>8, <1>9

\* What SlotRead reads was allowed, and the cache is empty afterwards.
LEMMA ReadIn ==
  ASSUME NEW A \in Allowed, HInv, In(cache, A), NEW p \in Peers, NEW c \in Conns,
         slot[p][c] = "live", cache[p][c] # <<>>,
         cache' = [cache EXCEPT ![p][c] = <<>>]
  PROVE  In(cache', A) /\ LookedAt(cache[p][c]) \in A[p][c]
<1>1. cache \in Wires /\ cache[p][c] \in Seq(Packets)
  BY DEF HInv, TypeOK, Wires
<1>2. 1 \in 1..Len(cache[p][c]) /\ Head(cache[p][c]) = cache[p][c][1]
  BY <1>1
<1>3. <<>> \in Seq(Packets) /\ 1..Len(<<>>) = {}
  OBVIOUS
<1>4. In(cache', A)
  BY <1>1, <1>3, EndIn
<1> QED BY <1>2, <1>4 DEF In, LookedAt

LEMMA InMonotone ==
  ASSUME NEW A \in Allowed, NEW B \in Allowed, NEW w, In(w, A),
         \A q \in Peers, d \in Conns : A[q][d] \subseteq B[q][d]
  PROVE  In(w, B)
BY DEF In

\* A request, and what kinds of packets there are.
LEMMA Kinds ==
  /\ Numbers \subseteq Packets /\ Answers \subseteq Packets
  /\ \A pk \in Packets : pk.cmd \in {"REQ", "ACK"} => pk \in Numbers /\ pk \notin Answers
  /\ \A pk \in Packets : pk.cmd \notin {"REQ", "ACK"} => pk \in Answers /\ pk \notin Numbers
  /\ \A s \in {"OKSERVERREQ", "OKCLIENTREQ", "OKSERVERACK", "OKCLIENTACK"} : Cmd(s) \in Answers
  /\ \A s \in {"REQ", "ACK"}, n \in Nums : Number(s, n) \in Numbers /\ Number(s, n).num = n
BY DEF Packets, Numbers, Answers, Cmd, Number

LEMMA ChallengeIn ==
  ASSUME HInv, NEW A \in Allowed, NEW p \in Peers, task[p] \in Tasks, In(wire, A),
         task[p].client # None => Answers \subseteq A[Other(p)][task[p].client],
         task[p].client = None /\ task[p].server # None
           => Answers \subseteq A[Other(p)][task[p].server]
  PROVE  Challenge(p, task[p]) \in Wires /\ In(Challenge(p, task[p]), A)
<1> DEFINE t == task[p]
<1>1. wire \in Wires
  BY DEF HInv, TypeOK, Wires
<1>2. /\ Cmd("OKSERVERREQ") \in Answers /\ Cmd("OKCLIENTREQ") \in Answers
      /\ Cmd("OKSERVERREQ") \in Packets /\ Cmd("OKCLIENTREQ") \in Packets
  BY Kinds, Packing
<1>3. CASE t.client # None
  <2>1. t.client \in Conns
    BY <1>3 DEF Tasks
  <2>2. Cmd("OKSERVERREQ") \in A[Other(p)][t.client]
    BY <1>2, <1>3
  <2>3. Challenge(p, t) = SendSelf(wire, p, t.client, Cmd("OKSERVERREQ"))
    BY <1>3 DEF Challenge
  <2> QED BY <1>1, <1>2, <2>1, <2>2, <2>3, SendingIn
<1>4. CASE t.client = None /\ t.server # None
  <2>1. t.server \in Conns
    BY <1>4 DEF Tasks
  <2>2. Cmd("OKCLIENTREQ") \in A[Other(p)][t.server]
    BY <1>2, <1>4
  <2>3. Challenge(p, t) = SendSelf(wire, p, t.server, Cmd("OKCLIENTREQ"))
    BY <1>4 DEF Challenge
  <2> QED BY <1>1, <1>2, <2>1, <2>2, <2>3, SendingIn
<1>5. CASE t.client = None /\ t.server = None
  BY <1>1, <1>5 DEF Challenge
<1> QED BY <1>3, <1>4, <1>5

\* What the exchange of numbers does to the task that reads.
LEMMA Exchanged ==
  ASSUME HInv, NEW p \in Peers, NEW c \in Conns, NEW pk \in Packets,
         task[p] \in Tasks, Exchange(p, c, pk)
  PROVE  /\ pk \in Numbers /\ task'[p] \in Tasks /\ task'[p] # None /\ pk.num \in Nums
         /\ task'[p].selfnum = task[p].selfnum /\ task'[p].othernum = pk.num
         /\ task'[p].client = task[p].client /\ task'[p].server = task[p].server
         /\ task'[p].checked <=> (task[p].checked \/ Starts(task[p]))
         /\ \A q \in Peers : q # p => task'[q] = task[q]
<1>1. pk \in Numbers /\ pk.num \in Nums
  BY Kinds DEF Exchange, Numbers
<1>2. task \in [Peers -> Tasks \cup {None}]
  BY DEF HInv, TypeOK
<1>3. (task[p].checked \/ Starts(task[p])) \in BOOLEAN
  BY DEF Starts, Tasks
<1> DEFINE u == [task[p] EXCEPT !.othernum = pk.num,
                                !.checked = task[p].checked \/ Starts(task[p])]
<1>4. task' = [task EXCEPT ![p] = u]
  BY <1>2 DEF Exchange
<1>5. /\ u \in Tasks /\ u.selfnum = task[p].selfnum /\ u.othernum = pk.num
      /\ u.client = task[p].client /\ u.server = task[p].server
      /\ u.checked = (task[p].checked \/ Starts(task[p]))
  BY <1>1, <1>3 DEF Tasks
<1> HIDE DEF u
<1>6. task'[p] = u /\ \A q \in Peers : q # p => task'[q] = task[q]
  BY <1>2, <1>4
<1>7. u # None
  BY <1>5, NoneAssumption
<1> QED BY <1>1, <1>5, <1>6, <1>7

-----------------------------------------------------------------------------
(* One connection is asked for *)

\* Answers are on their way on the connections of D only.
Choice(D) == [q \in Peers |-> [d \in Conns |-> Numbers \cup (IF d \in D THEN Answers ELSE {})]]

Chosen(D) == In(wire, Choice(D)) /\ In(cache, Choice(D)) /\ \A p \in Peers : finished[p] \subseteq D

AgreeInv ==
  ~erased =>
    /\ \A p \in starters : task[p] # None /\ task[p].checked
    /\ starters = {} => Chosen({})
    /\ starters # Peers => \E d \in Conns \cup {None} : Chosen({d} \ {None})

LEMMA ChoiceAllowed ==
  /\ \A D \in SUBSET Conns : Choice(D) \in Allowed
  /\ \A D, E \in SUBSET Conns : D \subseteq E =>
       \A q \in Peers, d \in Conns : Choice(D)[q][d] \subseteq Choice(E)[q][d]
BY Kinds DEF Choice, Allowed

\* Whom a peer has told what: the packets on their way to q have its peer's
\* number.
Told == [q \in Peers |-> [d \in Conns |->
           Answers \cup {pk \in Numbers : /\ task[Other(q)] # None
                                          /\ pk.num = task[Other(q)].selfnum}]]

BlindInv ==
  ~erased =>
    /\ In(wire, Told) /\ In(cache, Told)
    /\ \A p \in Peers : task[p] # None =>
         \/ task[p].othernum \in Garbage
         \/ task[Other(p)] # None /\ task[p].othernum = task[Other(p)].selfnum
    /\ \A p \in starters \ blind : /\ task[p] # None /\ task[Other(p)] # None
                                   /\ task[p].selfnum > task[Other(p)].selfnum

LEMMA ToldAllowed == Told \in Allowed
BY Kinds DEF Told, Allowed

\* While no task is erased, those there are keep their numbers.
Persist == \A q \in Peers : task[q] # None =>
             /\ task'[q] # None /\ task'[q].selfnum = task[q].selfnum
             /\ task[q].checked => task'[q].checked

LEMMA ToldGrows ==
  ASSUME Persist
  PROVE  /\ Told' \in Allowed
         /\ \A q \in Peers, d \in Conns : Told[q][d] \subseteq Told'[q][d]
<1>1. Told' \in Allowed
  BY Kinds DEF Told, Allowed
<1>2. \A q \in Peers : Other(q) \in Peers
  BY TheOther
<1> QED BY <1>1, <1>2 DEF Told, Persist

-----------------------------------------------------------------------------
(* Why a connection is closed *)

\* The end that was closed first was not handed over, and never will be.
Dead(r, c) == scfd[r][c] = "shut" /\ c \notin finished[r] /\ slot[r][c] # "live"

OpenInv ==
  /\ \A p \in Peers, c \in Conns : c.no > opened[c.from] => scfd[p][c] = "none"
  /\ \A p \in Peers : task[p] # None /\ task[p].server # None =>
       task[p].server.no <= opened[task[p].server.from]
  /\ \A p \in Peers, c \in Conns : scfd[p][c] = "shut" => \E r \in Peers : Dead(r, c)

\* Numbers of connections can be compared.
LEMMA Counting ==
  ASSUME TypeOK
  PROVE  \A c \in Conns : c.no \in Nat /\ c.from \in Peers /\ opened[c.from] \in Nat
BY ConnFrom, AttemptsAssumption DEF TypeOK

\* A new connection is not dead, so what was dead stays so.
LEMMA OpenConnect ==
  ASSUME HInv, OpenInv, NEW p \in Peers, SlotConnect(p)
  PROVE  OpenInv'
<1>1. /\ opened[p] \in Nat /\ opened[p] < Attempts[p] /\ Attempts[p] \in Nat
      /\ opened' = [opened EXCEPT ![p] = @ + 1] /\ finished' = finished
  BY AttemptsAssumption DEF SlotConnect, HInv, TypeOK, history
<1>2. PICK c \in Conns : c = [from |-> p, no |-> opened[p] + 1]
  <2>1. opened[p] + 1 \in 1..Attempts[p]
    BY <1>1
  <2> QED BY <2>1, NewConn
<1>3. PICK t \in Find(p) :
        \/ /\ task' = [task EXCEPT ![p] = t]
           /\ UNCHANGED <<scfd, slot>>
        \/ /\ task' = [task EXCEPT ![p] = [t EXCEPT !.client = c]]
           /\ scfd' = [scfd EXCEPT ![p][c] = "open"]
           /\ slot' = [slot EXCEPT ![p][c] = "live"]
  BY <1>2 DEF SlotConnect
<1>4. t \in Tasks /\ (task[p] # None => t = task[p]) /\ (task[p] = None => t.server = None)
  BY Found DEF HInv
<1>5. task \in [Peers -> Tasks \cup {None}]
  BY DEF HInv, TypeOK
<1>6. \A q \in Peers : /\ opened'[q] \in Nat /\ opened[q] \in Nat /\ opened'[q] >= opened[q]
  BY <1>1 DEF HInv, TypeOK
<1>7. \A d \in Conns : d.no \in Nat /\ d.from \in Peers
  BY Counting DEF HInv
<1>8. \A q \in Peers, d \in Conns :
        ~(q = p /\ d = c) => scfd'[q][d] = scfd[q][d] /\ slot'[q][d] = slot[q][d]
  BY <1>3 DEF HInv, TypeOK
<1>9. c.from = p /\ c.no > opened[p] /\ ~(c.no > opened'[p])
  BY <1>1, <1>2 DEF HInv, TypeOK
<1>10. scfd'[p][c] \in {"none", "open"} /\ \A q \in Peers : scfd[q][c] = "none"
  <2>1. \A q \in Peers : scfd[q][c] = "none"
    BY <1>9 DEF OpenInv
  <2> QED BY <1>3, <2>1 DEF HInv, TypeOK
<1>11. \A q \in Peers, d \in Conns : d.no > opened'[d.from] => scfd'[q][d] = "none"
  <2> SUFFICES ASSUME NEW q \in Peers, NEW d \in Conns, d.no > opened'[d.from]
               PROVE  scfd'[q][d] = "none"
    OBVIOUS
  <2>1. d.no > opened[d.from] /\ d # c
    BY <1>6, <1>7, <1>9
  <2> QED BY <1>8, <2>1 DEF OpenInv
<1>12. \A q \in Peers : task'[q] # None /\ task'[q].server # None =>
         task'[q].server.no <= opened'[task'[q].server.from]
  <2> SUFFICES ASSUME NEW q \in Peers, task'[q] # None, task'[q].server # None
               PROVE  task'[q].server.no <= opened'[task'[q].server.from]
    OBVIOUS
  <2>1. task[q] # None /\ task'[q].server = task[q].server
    <3>1. CASE q = p
      <4>1. task'[p] = t \/ task'[p] = [t EXCEPT !.client = c]
        BY <1>3, <1>5
      <4>2. task'[p].server = t.server
        BY <1>4, <4>1 DEF Tasks
      <4> QED BY <1>4, <3>1, <4>2
    <3>2. CASE q # p
      BY <1>3, <1>5, <3>2
    <3> QED BY <3>1, <3>2
  <2>2. task[q].server \in Conns
    BY <1>5, <2>1 DEF Tasks
  <2> QED BY <1>6, <1>7, <2>1, <2>2 DEF OpenInv
<1>13. \A q \in Peers, d \in Conns : scfd'[q][d] = "shut" => \E r \in Peers : Dead(r, d)'
  <2> SUFFICES ASSUME NEW q \in Peers, NEW d \in Conns, scfd'[q][d] = "shut"
               PROVE  \E r \in Peers : Dead(r, d)'
    OBVIOUS
  <2>1. d # c /\ scfd[q][d] = "shut"
    BY <1>8, <1>10
  <2>2. PICK r \in Peers : Dead(r, d)
    BY <2>1 DEF OpenInv
  <2>3. Dead(r, d)'
    BY <1>1, <1>8, <2>1, <2>2 DEF Dead
  <2> QED BY <2>3
<1> QED BY <1>11, <1>12, <1>13 DEF OpenInv

\* The end of a connection that is refused is dead from the start.
LEMMA OpenAccept ==
  ASSUME HInv, OpenInv, NEW p \in Peers, NEW c \in Conns, Accept(p, c)
  PROVE  OpenInv'
<1>1. /\ scfd[p][c] = "none" /\ scfd[c.from][c] # "none"
      /\ opened' = opened /\ finished' = finished
  BY DEF Accept, history
<1>2. PICK t \in Find(p) :
        \/ /\ task' = [task EXCEPT ![p] = t]
           /\ scfd' = [scfd EXCEPT ![p][c] = "shut"]
           /\ slot' = slot
        \/ /\ task' = [task EXCEPT ![p] = [t EXCEPT !.server = c]]
           /\ scfd' = [scfd EXCEPT ![p][c] = "open"]
           /\ slot' = [slot EXCEPT ![p][c] = "live"]
  BY DEF Accept
<1>3. t \in Tasks /\ (task[p] # None => t = task[p]) /\ (task[p] = None => t.server = None)
  BY Found DEF HInv
<1>4. task \in [Peers -> Tasks \cup {None}]
  BY DEF HInv, TypeOK
<1>5. \A d \in Conns : d.no \in Nat /\ d.from \in Peers /\ opened[d.from] \in Nat
  BY Counting DEF HInv
<1>6. \A q \in Peers, d \in Conns :
        ~(q = p /\ d = c) => scfd'[q][d] = scfd[q][d] /\ slot'[q][d] = slot[q][d]
  BY <1>2 DEF HInv, TypeOK
<1>7. c.no <= opened[c.from]
  BY <1>1, <1>5 DEF OpenInv
<1>8. slot[p][c] = "none" /\ c \notin finished[p]
  BY <1>1 DEF HInv, Reading
<1>9. \A q \in Peers, d \in Conns : d.no > opened'[d.from] => scfd'[q][d] = "none"
  <2> SUFFICES ASSUME NEW q \in Peers, NEW d \in Conns, d.no > opened'[d.from]
               PROVE  scfd'[q][d] = "none"
    OBVIOUS
  <2>1. d.no > opened[d.from] /\ d # c
    BY <1>1, <1>5, <1>7
  <2> QED BY <1>6, <2>1 DEF OpenInv
<1>10. \A q \in Peers : task'[q] # None /\ task'[q].server # None =>
         task'[q].server.no <= opened'[task'[q].server.from]
  <2> SUFFICES ASSUME NEW q \in Peers, task'[q] # None, task'[q].server # None
               PROVE  task'[q].server.no <= opened'[task'[q].server.from]
    OBVIOUS
  <2>1. \/ task[q] # None /\ task'[q].server = task[q].server
        \/ task'[q].server = c
    <3>1. CASE q = p
      <4>1. task'[p] = t \/ task'[p] = [t EXCEPT !.server = c]
        BY <1>2, <1>4
      <4>2. task'[p].server = t.server \/ task'[p].server = c
        BY <1>3, <4>1 DEF Tasks
      <4> QED BY <1>3, <3>1, <4>2
    <3>2. CASE q # p
      BY <1>2, <1>4, <3>2
    <3> QED BY <3>1, <3>2
  <2> QED BY <1>1, <1>7, <2>1 DEF OpenInv
<1>11. \A q \in Peers, d \in Conns : scfd'[q][d] = "shut" => \E r \in Peers : Dead(r, d)'
  <2> SUFFICES ASSUME NEW q \in Peers, NEW d \in Conns, scfd'[q][d] = "shut"
               PROVE  \E r \in Peers : Dead(r, d)'
    OBVIOUS
  <2>1. CASE q = p /\ d = c
    <3>1. scfd' # [scfd EXCEPT ![p][c] = "open"]
      BY <2>1 DEF HInv, TypeOK
    <3>2. slot' = slot
      BY <1>2, <3>1
    <3>3. Dead(p, c)'
      BY <1>1, <1>8, <2>1, <3>2 DEF Dead
    <3> QED BY <2>1, <3>3
  <2>2. CASE ~(q = p /\ d = c)
    <3>1. PICK r \in Peers : Dead(r, d)
      BY <1>6, <2>2 DEF OpenInv
    <3>2. ~(r = p /\ d = c)
      BY <1>1, <3>1 DEF Dead
    <3>3. Dead(r, d)'
      BY <1>1, <1>6, <3>1, <3>2 DEF Dead
    <3> QED BY <3>3
  <2> QED BY <2>1, <2>2
<1> QED BY <1>9, <1>10, <1>11 DEF OpenInv

\* An end is closed because the other one was.
LEMMA OpenReceive ==
  ASSUME HInv, OpenInv, NEW p \in Peers, NEW c \in Conns, OnRecve(p, c) \/ OnDisconnect(p, c)
  PROVE  OpenInv'
<1>1. UNCHANGED <<task, opened, slot, finished>>
  BY DEF OnRecve, OnDisconnect, history
<1>2. \/ scfd' = scfd
      \/ /\ scfd' = [scfd EXCEPT ![p][c] = "shut"]
         /\ scfd[p][c] = "open" /\ scfd[Other(p)][c] = "shut"
  BY DEF OnRecve, OnDisconnect
<1>3. \A q \in Peers, d \in Conns :
        \/ scfd'[q][d] = scfd[q][d]
        \/ /\ scfd'[q][d] = "shut" /\ scfd[q][d] # "none"
           /\ \E r \in Peers : scfd[r][d] = "shut"
  <2> SUFFICES ASSUME NEW q \in Peers, NEW d \in Conns, scfd'[q][d] # scfd[q][d]
               PROVE  /\ scfd'[q][d] = "shut" /\ scfd[q][d] # "none"
                      /\ \E r \in Peers : scfd[r][d] = "shut"
    OBVIOUS
  <2>1. q = p /\ d = c /\ scfd'[p][c] = "shut"
    BY <1>2 DEF HInv, TypeOK
  <2>2. scfd[p][c] = "open" /\ scfd[Other(p)][c] = "shut" /\ Other(p) \in Peers
    BY <1>2, TheOther
  <2> QED BY <2>1, <2>2
<1>4. \A q \in Peers, d \in Conns : d.no > opened'[d.from] => scfd'[q][d] = "none"
  BY <1>1, <1>3 DEF OpenInv
<1>5. \A q \in Peers, d \in Conns : scfd'[q][d] = "shut" => \E r \in Peers : Dead(r, d)'
  <2> SUFFICES ASSUME NEW q \in Peers, NEW d \in Conns, scfd'[q][d] = "shut"
               PROVE  \E r \in Peers : Dead(r, d)'
    OBVIOUS
  <2>1. PICK r \in Peers : Dead(r, d)
    BY <1>3 DEF OpenInv
  <2>2. Dead(r, d)'
    BY <1>1, <1>3, <2>1 DEF Dead
  <2> QED BY <2>2
<1> QED BY <1>1, <1>4, <1>5 DEF OpenInv

\* Only a live end is handed over.
LEMMA OpenRead ==
  ASSUME HInv, OpenInv, NEW p \in Peers, NEW c \in Conns, SlotRead(p, c)
  PROVE  OpenInv'
<1>1. UNCHANGED <<opened, scfd>>
  BY DEF SlotRead
<1>2. CASE UNCHANGED <<task, slot, finished>>
  BY <1>1, <1>2 DEF OpenInv, Dead
<1>3. CASE /\ slot[p][c] = "live" /\ cache[p][c] # <<>>
           /\ LET pk == LookedAt(cache[p][c]) IN Exchange(p, c, pk) \/ Finish(p, pk)
  <2>1. PICK pk \in Packets : /\ pk = LookedAt(cache[p][c])
                              /\ Fits(p, c, pk) /\ Belongs(p, c) /\ task[p] \in Tasks
    BY <1>3, Looked
  <2>2. CASE Exchange(p, c, pk)
    <3>1. slot' = slot /\ finished' = finished
      BY <2>2 DEF Exchange
    <3>2. \A q \in Peers : task'[q] # None =>
            task[q] # None /\ task'[q].server = task[q].server
      BY <2>1, <2>2, ExchangeStep
    <3> QED BY <1>1, <3>1, <3>2 DEF OpenInv, Dead
  <2>3. CASE Finish(p, pk)
    <3>1. /\ slot' = [slot EXCEPT ![p][c] = "freed"]
          /\ finished' = [finished EXCEPT ![p] = @ \cup {c}]
          /\ task' = task
      BY <2>1, <2>3, FinishStep
    <3>2. \A r \in Peers, d \in Conns : Dead(r, d) => Dead(r, d)'
      <4> SUFFICES ASSUME NEW r \in Peers, NEW d \in Conns, Dead(r, d) PROVE Dead(r, d)'
        OBVIOUS
      <4>1. ~(r = p /\ d = c)
        BY <1>3 DEF Dead
      <4>2. slot'[r][d] = slot[r][d] /\ (d \in finished'[r] => d \in finished[r])
        BY <3>1, <4>1 DEF HInv, TypeOK
      <4> QED BY <1>1, <4>2 DEF Dead
    <3> QED BY <1>1, <3>1, <3>2 DEF OpenInv
  <2> QED BY <1>3, <2>1, <2>2, <2>3
<1> QED BY <1>2, <1>3 DEF SlotRead

\* What goes with a task was not handed over.
LEMMA OpenTimeOut ==
  ASSUME HInv, OpenInv, NEW p \in Peers, TimeOut(p)
  PROVE  OpenInv'
<1>1. /\ task[p] # None /\ task' = [task EXCEPT ![p] = None]
      /\ UNCHANGED <<opened, finished>>
  BY DEF TimeOut
<1>2. \A q \in Peers, d \in Conns :
        \/ scfd'[q][d] = scfd[q][d] /\ slot'[q][d] = slot[q][d]
        \/ q = p /\ d \in Gone(p) /\ scfd'[q][d] = "shut" /\ slot'[q][d] = "freed"
  BY DEF TimeOut, HInv, TypeOK
<1>3. \A d \in Conns : d \in Gone(p) => d.no <= opened[d.from] /\ d \notin finished[p]
  <2> SUFFICES ASSUME NEW d \in Conns, d \in Gone(p)
               PROVE  d.no <= opened[d.from] /\ d \notin finished[p]
    OBVIOUS
  <2>1. \/ d = task[p].client /\ task[p].client # None
        \/ d = task[p].server /\ task[p].server # None
    BY DEF Gone, Held
  <2> QED BY <1>1, <2>1 DEF Gone, HInv, Oriented, OpenInv
<1>4. \A d \in Conns : d.no \in Nat /\ d.from \in Peers /\ opened[d.from] \in Nat
  BY Counting DEF HInv
<1>5. \A q \in Peers, d \in Conns : d.no > opened'[d.from] => scfd'[q][d] = "none"
  <2> SUFFICES ASSUME NEW q \in Peers, NEW d \in Conns, d.no > opened[d.from]
               PROVE  scfd'[q][d] = "none"
    BY <1>1
  <2>1. d \notin Gone(p)
    BY <1>3, <1>4
  <2> QED BY <1>2, <2>1 DEF OpenInv
<1>6. \A q \in Peers : task'[q] # None => task'[q] = task[q] /\ task[q] # None
  BY <1>1 DEF HInv, TypeOK
<1>7. \A q \in Peers, d \in Conns : scfd'[q][d] = "shut" => \E r \in Peers : Dead(r, d)'
  <2> SUFFICES ASSUME NEW q \in Peers, NEW d \in Conns, scfd'[q][d] = "shut"
               PROVE  \E r \in Peers : Dead(r, d)'
    OBVIOUS
  <2>1. CASE q = p /\ d \in Gone(p) /\ slot'[q][d] = "freed"
    <3>1. Dead(p, d)'
      BY <1>1, <1>3, <2>1 DEF Dead
    <3> QED BY <3>1
  <2>2. CASE scfd'[q][d] = scfd[q][d]
    <3>1. PICK r \in Peers : Dead(r, d)
      BY <2>2 DEF OpenInv
    <3>2. Dead(r, d)'
      BY <1>1, <1>2, <3>1 DEF Dead
    <3> QED BY <3>2
  <2> QED BY <1>2, <2>1, <2>2
<1> QED BY <1>1, <1>5, <1>6, <1>7 DEF OpenInv

-----------------------------------------------------------------------------
(* One connection is asked for: the steps *)

LEMMA ChosenGrows ==
  ASSUME NEW D \in SUBSET Conns, NEW E \in SUBSET Conns, D \subseteq E, Chosen(D)
  PROVE  Chosen(E)
<1>1. /\ Choice(D) \in Allowed /\ Choice(E) \in Allowed
      /\ \A q \in Peers, d \in Conns : Choice(D)[q][d] \subseteq Choice(E)[q][d]
  BY ChoiceAllowed
<1>2. In(wire, Choice(D)) /\ In(cache, Choice(D)) /\ \A q \in Peers : finished[q] \subseteq D
  BY DEF Chosen
<1>3. In(wire, Choice(E)) /\ In(cache, Choice(E))
  BY <1>1, <1>2, InMonotone
<1> QED BY <1>2, <1>3 DEF Chosen

\* A step in which nobody asks, and that sends no answer but on a connection
\* there was one for.
LEMMA AgreeQuiet ==
  ASSUME AgreeInv, erased' = erased, starters' = starters,
         \A q \in Peers : task[q] # None /\ task[q].checked =>
                            task'[q] # None /\ task'[q].checked,
         starters \subseteq Peers,
         \A D \in SUBSET Conns : Chosen(D) => Chosen(D)'
  PROVE  AgreeInv'
<1> SUFFICES ASSUME ~erased PROVE AgreeInv'
  BY DEF AgreeInv
<1>1. \A d \in Conns \cup {None} : {d} \ {None} \in SUBSET Conns
  OBVIOUS
<1>2. /\ \A q \in starters : task[q] # None /\ task[q].checked
      /\ starters = {} => Chosen({})
      /\ starters # Peers => \E d \in Conns \cup {None} : Chosen({d} \ {None})
  BY DEF AgreeInv
<1>3. \A q \in starters' : task'[q] # None /\ task'[q].checked
  BY <1>2
<1>4. starters' = {} => Chosen({})'
  BY <1>2
<1>5. starters' # Peers => \E d \in Conns \cup {None} : Chosen({d} \ {None})'
  BY <1>1, <1>2
<1> QED BY <1>3, <1>4, <1>5 DEF AgreeInv

\* What a peer opens is asked for by nobody yet.
LEMMA AgreeConnect ==
  ASSUME HInv, AgreeInv, NEW p \in Peers, SlotConnect(p)
  PROVE  AgreeInv'
<1>1. /\ opened[p] \in Nat /\ opened[p] < Attempts[p] /\ Attempts[p] \in Nat
      /\ UNCHANGED <<cache, finished, starters, erased>>
  BY AttemptsAssumption DEF SlotConnect, HInv, TypeOK, history
<1>2. PICK c \in Conns : c = [from |-> p, no |-> opened[p] + 1]
  <2>1. opened[p] + 1 \in 1..Attempts[p]
    BY <1>1
  <2> QED BY <2>1, NewConn
<1>3. PICK t \in Find(p) :
        \/ task' = [task EXCEPT ![p] = t] /\ wire' = wire
        \/ /\ task' = [task EXCEPT ![p] = [t EXCEPT !.client = c]]
           /\ wire' = [wire EXCEPT ![Other(p)][c] = <<Number("REQ", t.selfnum)>>]
  BY <1>2 DEF SlotConnect
<1>4. t \in Tasks /\ (task[p] # None => t = task[p]) /\ [t EXCEPT !.client = c] \in Tasks
  BY Found DEF HInv, Tasks
<1>5. \A q \in Peers : task[q] # None /\ task[q].checked =>
                         task'[q] # None /\ task'[q].checked
  <2>1. task \in [Peers -> Tasks \cup {None}]
    BY DEF HInv, TypeOK
  <2>2. /\ t # None /\ [t EXCEPT !.client = c] # None
        /\ [t EXCEPT !.client = c].checked = t.checked
    BY <1>4, NoneAssumption DEF Tasks
  <2> QED BY <1>3, <1>4, <2>1, <2>2
<1>6. ASSUME NEW D \in SUBSET Conns, Chosen(D) PROVE Chosen(D)'
  <2>1. In(wire, Choice(D)) /\ Choice(D) \in Allowed /\ wire \in Wires
    BY <1>6, ChoiceAllowed DEF Chosen, HInv, TypeOK, Wires
  <2>2. Other(p) \in Peers
    BY TheOther
  <2>3. PICK s \in Seq(Packets) : /\ s = <<Number("REQ", t.selfnum)>>
                                  /\ \A i \in 1..Len(s) : s[i] \in Choice(D)[Other(p)][c]
    <3>1. Number("REQ", t.selfnum) \in Numbers /\ Number("REQ", t.selfnum) \in Packets
      BY <1>4, Kinds DEF Tasks
    <3>2. Number("REQ", t.selfnum) \in Choice(D)[Other(p)][c]
      BY <2>2, <3>1 DEF Choice
    <3> DEFINE s == <<Number("REQ", t.selfnum)>>
    <3>3. s \in Seq(Packets) /\ \A i \in 1..Len(s) : s[i] = Number("REQ", t.selfnum)
      BY <3>1
    <3>4. \A i \in 1..Len(s) : s[i] \in Choice(D)[Other(p)][c]
      BY <3>2, <3>3
    <3> HIDE DEF s
    <3> QED BY <3>3, <3>4, Zenon DEF s
  <2>4. In([wire EXCEPT ![Other(p)][c] = s], Choice(D))
    BY <2>1, <2>2, <2>3, EndIn
  <2>5. In(wire', Choice(D))
    BY <1>3, <2>1, <2>3, <2>4
  <2> QED BY <1>1, <1>6, <2>5 DEF Chosen, Choice
<1> QED BY <1>1, <1>5, <1>6, AgreeQuiet DEF HInv, TypeOK

LEMMA AgreeAccept ==
  ASSUME HInv, AgreeInv, NEW p \in Peers, NEW c \in Conns, Accept(p, c)
  PROVE  AgreeInv'
<1>1. UNCHANGED <<wire, cache, finished, starters, erased>>
  BY DEF Accept, history
<1>2. PICK t \in Find(p) : \/ task' = [task EXCEPT ![p] = t]
                           \/ task' = [task EXCEPT ![p] = [t EXCEPT !.server = c]]
  BY DEF Accept
<1>3. t \in Tasks /\ (task[p] # None => t = task[p]) /\ [t EXCEPT !.server = c] \in Tasks
  BY Found DEF HInv, Tasks
<1>4. \A q \in Peers : task[q] # None /\ task[q].checked =>
                         task'[q] # None /\ task'[q].checked
  <2>1. task \in [Peers -> Tasks \cup {None}]
    BY DEF HInv, TypeOK
  <2>2. /\ t # None /\ [t EXCEPT !.server = c] # None
        /\ [t EXCEPT !.server = c].checked = t.checked
    BY <1>3, NoneAssumption DEF Tasks
  <2> QED BY <1>2, <1>3, <2>1, <2>2
<1>5. \A D \in SUBSET Conns : Chosen(D) => Chosen(D)'
  BY <1>1 DEF Chosen, Choice
<1> QED BY <1>1, <1>4, <1>5, AgreeQuiet DEF HInv, TypeOK

LEMMA AgreeReceive ==
  ASSUME HInv, AgreeInv, NEW p \in Peers, NEW c \in Conns, OnRecve(p, c) \/ OnDisconnect(p, c)
  PROVE  AgreeInv'
<1>1. UNCHANGED <<task, finished, starters, erased>>
  BY DEF OnRecve, OnDisconnect, history
<1>2. ASSUME NEW D \in SUBSET Conns, Chosen(D) PROVE Chosen(D)'
  <2>1. In(wire', Choice(D)) /\ In(cache', Choice(D))
    BY <1>2, ReceivedIn, ChoiceAllowed DEF Chosen, HInv
  <2> QED BY <1>1, <1>2, <2>1 DEF Chosen, Choice
<1> QED BY <1>1, <1>2, AgreeQuiet DEF HInv, TypeOK

\* An ACK goes wherever a REQ came from.
LEMMA Acknowledged ==
  ASSUME NEW A \in Allowed, NEW w \in Wires, In(w, A), NEW p \in Peers, NEW c \in Conns,
         NEW n \in Nums, Number("ACK", n) \in A[Other(p)][c]
  PROVE  SendSelf(w, p, c, Number("ACK", n)) \in Wires
         /\ In(SendSelf(w, p, c, Number("ACK", n)), A)
<1>1. Number("ACK", n) \in Packets
  BY Kinds
<1> QED BY <1>1, SendingIn

LEMMA AgreeExchange ==
  ASSUME HInv, AgreeInv, NEW p \in Peers, NEW c \in Conns, NEW pk \in Packets,
         task[p] \in Tasks, slot[p][c] = "live", cache[p][c] # <<>>,
         cache' = [cache EXCEPT ![p][c] = <<>>], erased' = erased,
         Exchange(p, c, pk)
  PROVE  AgreeInv'
<1> DEFINE t == task[p]
           w == IF Starts(t) THEN Challenge(p, t) ELSE wire
<1>1. /\ wire' = IF pk.cmd = "ACK" THEN w ELSE SendSelf(w, p, c, Number("ACK", t.selfnum))
      /\ starters' = IF Starts(t) THEN starters \cup {p} ELSE starters
      /\ finished' = finished
  BY DEF Exchange
<1>2. wire \in Wires /\ starters \subseteq Peers
  BY DEF HInv, TypeOK, Wires
<1>3. \A q \in Peers : task[q] # None /\ task[q].checked =>
                         task'[q] # None /\ task'[q].checked
  BY Exchanged
<1>4. ASSUME NEW D \in SUBSET Conns, NEW E \in SUBSET Conns, Chosen(D), D \subseteq E,
             w \in Wires, In(w, Choice(E))
      PROVE  Chosen(E)'
  <2>1. Chosen(E) /\ Choice(E) \in Allowed
    BY <1>4, ChosenGrows, ChoiceAllowed
  <2>2. In(cache', Choice(E))
    BY <2>1, ReadIn DEF Chosen
  <2>3. t.selfnum \in Nums /\ Other(p) \in Peers
    BY TheOther DEF Tasks
  <2>4. Number("ACK", t.selfnum) \in Choice(E)[Other(p)][c]
    BY <2>3, Kinds DEF Choice
  <2>5. In(SendSelf(w, p, c, Number("ACK", t.selfnum)), Choice(E))
    <3> HIDE DEF w
    <3> QED BY <1>4, <2>1, <2>3, <2>4, Acknowledged
  <2>6. In(wire', Choice(E))
    BY <1>1, <1>4, <2>5
  <2> QED BY <1>1, <2>1, <2>2, <2>6 DEF Chosen, Choice
<1>5. CASE ~Starts(t)
  <2>1. \A D \in SUBSET Conns : Chosen(D) => Chosen(D)'
    BY <1>2, <1>4, <1>5 DEF Chosen
  <2>2. starters' = starters
    BY <1>1, <1>5
  <2> QED BY <1>2, <1>3, <2>1, <2>2, AgreeQuiet
<1>6. CASE Starts(t)
  <2> SUFFICES ASSUME ~erased PROVE AgreeInv'
    BY DEF AgreeInv
  <2>1. p \notin starters /\ \A q \in starters : task[q] # None /\ task[q].checked
    BY <1>6 DEF AgreeInv, Starts
  <2>2. t # None /\ task'[p] # None /\ task'[p].checked
    BY <1>6, Exchanged, NoneAssumption
  <2>3. starters' = starters \cup {p}
    BY <1>1, <1>6
  <2>4. CASE starters = {}
    <3>1. PICK x \in Conns \cup {None} : x = IF t.client # None THEN t.client ELSE t.server
      BY DEF Tasks
    <3>2. PICK E \in SUBSET Conns : E = {x} \ {None} /\ {} \subseteq E
      BY <3>1
    <3>3. Chosen({}) /\ {} \in SUBSET Conns
      BY <2>4 DEF AgreeInv
    <3>4. In(wire, Choice(E)) /\ Choice(E) \in Allowed
      BY <3>2, <3>3, ChosenGrows, ChoiceAllowed DEF Chosen
    <3>5. /\ t.client # None => Answers \subseteq Choice(E)[Other(p)][t.client]
          /\ t.client = None /\ t.server # None => Answers \subseteq Choice(E)[Other(p)][t.server]
      <4>1. Other(p) \in Peers
        BY TheOther
      <4>2. x # None => Answers \subseteq Choice(E)[Other(p)][x]
        BY <3>1, <3>2, <4>1 DEF Choice
      <4> QED BY <3>1, <4>2
    <3>6. w \in Wires /\ In(w, Choice(E))
      BY <1>6, <3>4, <3>5, ChallengeIn
    <3>7. \E d \in Conns \cup {None} : Chosen({d} \ {None})'
      <4> HIDE DEF w
      <4>1. Chosen(E)'
        BY <1>4, <3>2, <3>3, <3>6
      <4> QED BY <3>1, <3>2, <4>1
    <3>8. starters' = {p}
      BY <2>3, <2>4
    <3> QED BY <2>2, <3>7, <3>8, Zenon DEF AgreeInv
  <2>5. CASE starters # {}
    <3>1. starters' = Peers
      BY <1>2, <2>1, <2>3, <2>5, TheOther
    <3>2. Peers # {}
      OBVIOUS
    <3>3. \A q \in starters' : task'[q] # None /\ task'[q].checked
      BY <1>2, <1>3, <2>1, <2>2, <2>3
    <3> QED BY <3>1, <3>2, <3>3 DEF AgreeInv
  <2> QED BY <2>4, <2>5
<1> QED BY <1>5, <1>6

\* An answer, and what is answered to it, are on the connection asked for.
LEMMA AgreeFinish ==
  ASSUME HInv, AgreeInv, NEW p \in Peers, NEW c \in Conns, NEW pk \in Packets,
         pk = LookedAt(cache[p][c]), Fits(p, c, pk), Belongs(p, c),
         slot[p][c] = "live", cache[p][c] # <<>>,
         cache' = [cache EXCEPT ![p][c] = <<>>], erased' = erased,
         Finish(p, pk)
  PROVE  AgreeInv'
<1>1. /\ finished' = [finished EXCEPT ![p] = @ \cup {c}]
      /\ UNCHANGED <<task, starters>>
  BY FinishStep
<1>2. pk.cmd \notin {"REQ", "ACK"} /\ About(task[p], pk.cmd) = c /\ c # None
  BY AboutTheRead, NoneAssumption DEF Finish
<1>3. wire' = CASE pk.cmd = "OKSERVERREQ" -> SendSelf(wire, p, c, Cmd("OKCLIENTACK"))
                [] pk.cmd = "OKCLIENTREQ" -> SendSelf(wire, p, c, Cmd("OKSERVERACK"))
                [] OTHER -> wire
  BY <1>2 DEF Finish
<1>4. ASSUME NEW D \in SUBSET Conns, Chosen(D) PROVE Chosen(D)'
  <2>1. In(wire, Choice(D)) /\ In(cache, Choice(D)) /\ Choice(D) \in Allowed
    BY <1>4, ChoiceAllowed DEF Chosen
  <2>2. In(cache', Choice(D)) /\ pk \in Choice(D)[p][c]
    BY <2>1, ReadIn
  <2>3. c \in D
    <3>1. pk \notin Numbers
      BY <1>2, Kinds
    <3> QED BY <2>2, <3>1 DEF Choice
  <2>4. wire \in Wires /\ finished \in [Peers -> SUBSET Conns]
    BY DEF HInv, TypeOK, Wires
  <2>5. ASSUME NEW s \in {"OKCLIENTACK", "OKSERVERACK"}
        PROVE  In(SendSelf(wire, p, c, Cmd(s)), Choice(D))
    <3>1. Cmd(s) \in Answers /\ Cmd(s) \in Packets /\ Other(p) \in Peers
      BY Kinds, TheOther
    <3>2. Cmd(s) \in Choice(D)[Other(p)][c]
      BY <2>3, <3>1 DEF Choice
    <3> QED BY <2>1, <2>4, <3>1, <3>2, SendingIn
  <2>6. In(wire', Choice(D))
    BY <1>3, <2>1, <2>5
  <2>7. \A q \in Peers : finished'[q] \subseteq D
    BY <1>1, <1>4, <2>3, <2>4 DEF Chosen
  <2> QED BY <2>2, <2>6, <2>7 DEF Chosen, Choice
<1> QED BY <1>1, <1>4, AgreeQuiet DEF HInv, TypeOK

LEMMA AgreeRead ==
  ASSUME HInv, AgreeInv, NEW p \in Peers, NEW c \in Conns, SlotRead(p, c)
  PROVE  AgreeInv'
<1>1. erased' = erased
  BY DEF SlotRead
<1>2. CASE UNCHANGED <<task, wire, cache, finished, starters>>
  BY <1>1, <1>2 DEF AgreeInv, Chosen, Choice
<1>3. CASE /\ slot[p][c] = "live" /\ cache[p][c] # <<>>
           /\ cache' = [cache EXCEPT ![p][c] = <<>>]
           /\ LET pk == LookedAt(cache[p][c]) IN Exchange(p, c, pk) \/ Finish(p, pk)
  <2>1. PICK pk \in Packets : /\ pk = LookedAt(cache[p][c])
                              /\ Fits(p, c, pk) /\ Belongs(p, c) /\ task[p] \in Tasks
    BY <1>3, Looked
  <2>2. CASE Exchange(p, c, pk)
    BY <1>1, <1>3, <2>1, <2>2, AgreeExchange
  <2>3. CASE Finish(p, pk)
    BY <1>1, <1>3, <2>1, <2>3, AgreeFinish
  <2> QED BY <1>3, <2>1, <2>2, <2>3
<1> QED BY <1>2, <1>3 DEF SlotRead

-----------------------------------------------------------------------------
(* Who asks knowingly has the greater number: the steps *)

LEMMA TwoOthers == \A p \in Peers : Other(p) \in Peers /\ Other(Other(p)) = p
BY TheOther

\* A step that tells the truth and in which nobody asks or learns a number.
LEMMA BlindQuiet ==
  ASSUME BlindInv, Persist, erased' = erased, starters' = starters, blind' = blind,
         starters \subseteq Peers, In(wire, Told)', In(cache, Told)',
         \A q \in Peers : task'[q] # None =>
           \/ task'[q].othernum \in Garbage
           \/ task[q] # None /\ task'[q].othernum = task[q].othernum
  PROVE  BlindInv'
<1> SUFFICES ASSUME ~erased PROVE BlindInv'
  BY DEF BlindInv
<1>1. \A q \in Peers : task'[q] # None =>
        \/ task'[q].othernum \in Garbage
        \/ task'[Other(q)] # None /\ task'[q].othernum = task'[Other(q)].selfnum
  BY TwoOthers DEF BlindInv, Persist
<1>2. \A q \in starters' \ blind' : /\ task'[q] # None /\ task'[Other(q)] # None
                                    /\ task'[q].selfnum > task'[Other(q)].selfnum
  BY TwoOthers DEF BlindInv, Persist
<1> QED BY <1>1, <1>2 DEF BlindInv

LEMMA BlindConnect ==
  ASSUME HInv, BlindInv, ~erased, NEW p \in Peers, SlotConnect(p)
  PROVE  BlindInv'
<1>1. /\ opened[p] \in Nat /\ opened[p] < Attempts[p] /\ Attempts[p] \in Nat
      /\ UNCHANGED <<cache, starters, blind, erased>>
  BY AttemptsAssumption DEF SlotConnect, HInv, TypeOK, history
<1>2. PICK c \in Conns : c = [from |-> p, no |-> opened[p] + 1]
  <2>1. opened[p] + 1 \in 1..Attempts[p]
    BY <1>1
  <2> QED BY <2>1, NewConn
<1>3. PICK t \in Find(p) :
        \/ task' = [task EXCEPT ![p] = t] /\ wire' = wire
        \/ /\ task' = [task EXCEPT ![p] = [t EXCEPT !.client = c]]
           /\ wire' = [wire EXCEPT ![Other(p)][c] = <<Number("REQ", t.selfnum)>>]
  BY <1>2 DEF SlotConnect
<1>4. /\ t \in Tasks /\ [t EXCEPT !.client = c] \in Tasks
      /\ task[p] # None => t = task[p]
      /\ task[p] = None => t.othernum \in Garbage
  BY Found DEF HInv, Find, Tasks
<1>5. PICK u \in Tasks : /\ task' = [task EXCEPT ![p] = u] /\ u # None
                         /\ u.selfnum = t.selfnum /\ u.othernum = t.othernum
                         /\ u.checked = t.checked
  <2>1. /\ [t EXCEPT !.client = c].selfnum = t.selfnum
        /\ [t EXCEPT !.client = c].othernum = t.othernum
        /\ [t EXCEPT !.client = c].checked = t.checked
    BY <1>4 DEF Tasks
  <2>2. t # None /\ [t EXCEPT !.client = c] # None
    BY <1>4, NoneAssumption
  <2> QED BY <1>3, <1>4, <2>1, <2>2
<1>6. \A q \in Peers : task'[q] = IF q = p THEN u ELSE task[q]
  BY <1>5 DEF HInv, TypeOK
<1>7. Persist
  BY <1>4, <1>5, <1>6 DEF Persist
<1>8. Told \in Allowed /\ Told' \in Allowed /\ In(wire, Told') /\ In(cache, Told')
  BY <1>7, ToldAllowed, ToldGrows, InMonotone DEF BlindInv
<1>9. PICK s \in Seq(Packets) :
        /\ s = <<Number("REQ", t.selfnum)>>
        /\ \A i \in 1..Len(s) : s[i] \in Told'[Other(p)][c]
  <2>1. /\ Number("REQ", t.selfnum) \in Numbers /\ Number("REQ", t.selfnum) \in Packets
        /\ Number("REQ", t.selfnum).num = t.selfnum
    BY <1>4, Kinds DEF Tasks
  <2>2. task'[Other(Other(p))] # None /\ t.selfnum = task'[Other(Other(p))].selfnum
    BY <1>5, <1>6, TwoOthers
  <2>3. Number("REQ", t.selfnum) \in Told'[Other(p)][c]
    BY <2>1, <2>2, TwoOthers DEF Told
  <2> DEFINE s == <<Number("REQ", t.selfnum)>>
  <2>4. s \in Seq(Packets) /\ \A i \in 1..Len(s) : s[i] = Number("REQ", t.selfnum)
    BY <2>1
  <2>5. \A i \in 1..Len(s) : s[i] \in Told'[Other(p)][c]
    BY <2>3, <2>4
  <2> HIDE DEF s
  <2> QED BY <2>4, <2>5, Zenon DEF s
<1>10. In(wire', Told')
  <2>1. wire \in Wires /\ Other(p) \in Peers
    BY TheOther DEF HInv, TypeOK, Wires
  <2>2. In([wire EXCEPT ![Other(p)][c] = s], Told')
    BY <1>8, <1>9, <2>1, EndIn
  <2> QED BY <1>3, <1>8, <1>9, <2>2
<1>11. In(wire, Told)' /\ In(cache, Told)'
  BY <1>1, <1>8, <1>10 DEF In
<1>12. \A q \in Peers : task'[q] # None =>
         \/ task'[q].othernum \in Garbage
         \/ task[q] # None /\ task'[q].othernum = task[q].othernum
  BY <1>4, <1>5, <1>6
<1> QED BY <1>1, <1>7, <1>11, <1>12, BlindQuiet DEF HInv, TypeOK

LEMMA BlindAccept ==
  ASSUME HInv, BlindInv, ~erased, NEW p \in Peers, NEW c \in Conns, Accept(p, c)
  PROVE  BlindInv'
<1>1. UNCHANGED <<wire, cache, starters, blind, erased>>
  BY DEF Accept, history
<1>2. PICK t \in Find(p) : \/ task' = [task EXCEPT ![p] = t]
                           \/ task' = [task EXCEPT ![p] = [t EXCEPT !.server = c]]
  BY DEF Accept
<1>3. /\ t \in Tasks /\ [t EXCEPT !.server = c] \in Tasks
      /\ task[p] # None => t = task[p]
      /\ task[p] = None => t.othernum \in Garbage
  BY Found DEF HInv, Find, Tasks
<1>4. PICK u \in Tasks : /\ task' = [task EXCEPT ![p] = u] /\ u # None
                         /\ u.selfnum = t.selfnum /\ u.othernum = t.othernum
                         /\ u.checked = t.checked
  <2>1. /\ [t EXCEPT !.server = c].selfnum = t.selfnum
        /\ [t EXCEPT !.server = c].othernum = t.othernum
        /\ [t EXCEPT !.server = c].checked = t.checked
    BY <1>3 DEF Tasks
  <2>2. t # None /\ [t EXCEPT !.server = c] # None
    BY <1>3, NoneAssumption
  <2> QED BY <1>2, <1>3, <2>1, <2>2
<1>5. \A q \in Peers : task'[q] = IF q = p THEN u ELSE task[q]
  BY <1>4 DEF HInv, TypeOK
<1>6. Persist
  BY <1>3, <1>4, <1>5 DEF Persist
<1>7. In(wire, Told') /\ In(cache, Told')
  BY <1>6, ToldAllowed, ToldGrows, InMonotone DEF BlindInv
<1>8. In(wire, Told)' /\ In(cache, Told)'
  BY <1>1, <1>7 DEF In
<1>9. \A q \in Peers : task'[q] # None =>
        \/ task'[q].othernum \in Garbage
        \/ task[q] # None /\ task'[q].othernum = task[q].othernum
  BY <1>3, <1>4, <1>5
<1> QED BY <1>1, <1>6, <1>8, <1>9, BlindQuiet DEF HInv, TypeOK

LEMMA BlindReceive ==
  ASSUME HInv, BlindInv, ~erased, NEW p \in Peers, NEW c \in Conns,
         OnRecve(p, c) \/ OnDisconnect(p, c)
  PROVE  BlindInv'
<1>1. UNCHANGED <<task, starters, blind, erased>>
  BY DEF OnRecve, OnDisconnect, history
<1>2. In(wire', Told) /\ In(cache', Told)
  BY ReceivedIn, ToldAllowed DEF BlindInv, HInv
<1>3. In(wire, Told)' /\ In(cache, Told)'
  BY <1>1, <1>2 DEF In, Told
<1> QED BY <1>1, <1>3 DEF BlindInv

\* A number that is read is the other's, and remembered as such; who asks
\* and knows compares with the number read before.
LEMMA BlindExchange ==
  ASSUME HInv, BlindInv, ~erased, NEW p \in Peers, NEW c \in Conns, NEW pk \in Packets,
         pk = LookedAt(cache[p][c]), task[p] \in Tasks,
         slot[p][c] = "live", cache[p][c] # <<>>,
         cache' = [cache EXCEPT ![p][c] = <<>>], erased' = erased,
         Exchange(p, c, pk)
  PROVE  BlindInv'
<1> DEFINE t == task[p]
           w == IF Starts(t) THEN Challenge(p, t) ELSE wire
<1>1. /\ wire' = IF pk.cmd = "ACK" THEN w ELSE SendSelf(w, p, c, Number("ACK", t.selfnum))
      /\ starters' = IF Starts(t) THEN starters \cup {p} ELSE starters
      /\ blind' = IF Starts(t) /\ t.othernum \in Garbage THEN blind \cup {p} ELSE blind
  BY DEF Exchange
<1>2. t # None /\ task'[p] # None /\ task'[p].selfnum = t.selfnum
  BY Exchanged, NoneAssumption
<1>3. Persist
  BY <1>2, Exchanged DEF Persist
<1>4. In(wire, Told') /\ In(cache, Told') /\ Told' \in Allowed
  BY <1>3, ToldAllowed, ToldGrows, InMonotone DEF BlindInv
<1>5. In(cache', Told')
  BY <1>4, ReadIn
<1>6. In(wire', Told')
  <2>1. \A q \in Peers, d \in Conns : Answers \subseteq Told'[q][d]
    BY DEF Told
  <2>2. w \in Wires /\ In(w, Told')
    <3>1. wire \in Wires /\ Other(p) \in Peers
      BY TheOther DEF HInv, TypeOK, Wires
    <3>2. /\ t.client # None => Answers \subseteq Told'[Other(p)][t.client]
          /\ t.client = None /\ t.server # None => Answers \subseteq Told'[Other(p)][t.server]
      BY <2>1, <3>1 DEF Tasks
    <3>3. Challenge(p, t) \in Wires /\ In(Challenge(p, t), Told')
      BY <1>4, <3>2, ChallengeIn
    <3> QED BY <1>4, <3>1, <3>3
  <2>3. t.selfnum \in Nums /\ Other(p) \in Peers
    BY TheOther DEF Tasks
  <2>4. Number("ACK", t.selfnum) \in Told'[Other(p)][c]
    <3>1. /\ Number("ACK", t.selfnum) \in Numbers
          /\ Number("ACK", t.selfnum).num = t.selfnum
      BY <2>3, Kinds
    <3>2. task'[Other(Other(p))] # None /\ t.selfnum = task'[Other(Other(p))].selfnum
      BY <1>2, TwoOthers
    <3> QED BY <2>3, <3>1, <3>2 DEF Told
  <2>5. In(SendSelf(w, p, c, Number("ACK", t.selfnum)), Told')
    <3> HIDE DEF w
    <3> QED BY <1>4, <2>2, <2>3, <2>4, Acknowledged
  <2> QED BY <1>1, <2>2, <2>5
<1>7. /\ task[Other(p)] # None /\ task'[p].othernum = task[Other(p)].selfnum
      /\ task'[Other(p)] # None /\ task'[Other(p)].selfnum = task[Other(p)].selfnum
  <2>1. pk \in Told[p][c] /\ pk \in Numbers /\ pk \notin Answers
    <3>1. pk \in Told[p][c]
      BY ReadIn, ToldAllowed DEF BlindInv
    <3>2. pk.cmd \in {"REQ", "ACK"}
      BY DEF Exchange
    <3> QED BY <3>1, <3>2, Kinds
  <2>2. task[Other(p)] # None /\ pk.num = task[Other(p)].selfnum
    BY <2>1 DEF Told
  <2> QED BY <1>3, <2>2, Exchanged, TwoOthers DEF Persist
<1>8. \A q \in Peers : task'[q] # None =>
        \/ task'[q].othernum \in Garbage
        \/ task'[Other(q)] # None /\ task'[q].othernum = task'[Other(q)].selfnum
  <2> SUFFICES ASSUME NEW q \in Peers, task'[q] # None, q # p
               PROVE  \/ task'[q].othernum \in Garbage
                      \/ task'[Other(q)] # None /\ task'[q].othernum = task'[Other(q)].selfnum
    BY <1>7
  <2>1. task'[q] = task[q] /\ Other(q) \in Peers
    BY Exchanged, TwoOthers
  <2> QED BY <1>3, <2>1 DEF BlindInv, Persist
<1>9. ASSUME NEW q \in starters' \ blind'
      PROVE  /\ task'[q] # None /\ task'[Other(q)] # None
             /\ task'[q].selfnum > task'[Other(q)].selfnum
  <2>1. CASE q \in starters
    <3>1. q \in starters \ blind /\ q \in Peers /\ Other(q) \in Peers
      BY <1>1, <1>9, <2>1, TwoOthers DEF HInv, TypeOK
    <3>2. /\ task[q] # None /\ task[Other(q)] # None
          /\ task[q].selfnum > task[Other(q)].selfnum
      BY <3>1 DEF BlindInv
    <3> QED BY <1>3, <3>1, <3>2 DEF Persist
  <2>2. CASE q \notin starters
    <3>1. q = p /\ Starts(t) /\ t.othernum \notin Garbage
      BY <1>1, <1>9, <2>2
    <3>2. t.othernum = task[Other(p)].selfnum /\ t.selfnum > t.othernum
      BY <1>2, <3>1 DEF BlindInv, Starts
    <3> QED BY <1>2, <1>7, <3>1, <3>2
  <2> QED BY <2>1, <2>2
<1>10. In(wire, Told)' /\ In(cache, Told)'
  BY <1>5, <1>6 DEF In
<1> QED BY <1>8, <1>9, <1>10 DEF BlindInv

LEMMA BlindFinish ==
  ASSUME HInv, BlindInv, ~erased, NEW p \in Peers, NEW c \in Conns, NEW pk \in Packets,
         Fits(p, c, pk), Belongs(p, c), slot[p][c] = "live", cache[p][c] # <<>>,
         cache' = [cache EXCEPT ![p][c] = <<>>], erased' = erased,
         Finish(p, pk)
  PROVE  BlindInv'
<1>1. UNCHANGED <<task, starters, blind>>
  BY FinishStep
<1>2. pk.cmd \notin {"REQ", "ACK"} /\ About(task[p], pk.cmd) = c /\ c # None
  BY AboutTheRead, NoneAssumption DEF Finish
<1>3. wire' = CASE pk.cmd = "OKSERVERREQ" -> SendSelf(wire, p, c, Cmd("OKCLIENTACK"))
                [] pk.cmd = "OKCLIENTREQ" -> SendSelf(wire, p, c, Cmd("OKSERVERACK"))
                [] OTHER -> wire
  BY <1>2 DEF Finish
<1>4. wire \in Wires /\ In(wire, Told) /\ In(cache, Told)
  BY DEF HInv, TypeOK, Wires, BlindInv
<1>5. ASSUME NEW s \in {"OKCLIENTACK", "OKSERVERACK"}
      PROVE  In(SendSelf(wire, p, c, Cmd(s)), Told)
  <2>1. Cmd(s) \in Answers /\ Cmd(s) \in Packets /\ Other(p) \in Peers
    BY Kinds, TheOther
  <2>2. Cmd(s) \in Told[Other(p)][c]
    BY <2>1 DEF Told
  <2> QED BY <1>4, <2>1, <2>2, SendingIn, ToldAllowed
<1>6. In(wire', Told)
  BY <1>3, <1>4, <1>5
<1>7. In(cache', Told)
  BY <1>4, ReadIn, ToldAllowed
<1>8. In(wire, Told)' /\ In(cache, Told)'
  BY <1>1, <1>6, <1>7 DEF In, Told
<1> QED BY <1>1, <1>8 DEF BlindInv

LEMMA BlindRead ==
  ASSUME HInv, BlindInv, ~erased, NEW p \in Peers, NEW c \in Conns, SlotRead(p, c)
  PROVE  BlindInv'
<1>1. erased' = erased
  BY DEF SlotRead
<1>2. CASE UNCHANGED <<task, wire, cache, starters, blind>>
  BY <1>1, <1>2 DEF BlindInv, In, Told
<1>3. CASE /\ slot[p][c] = "live" /\ cache[p][c] # <<>>
           /\ cache' = [cache EXCEPT ![p][c] = <<>>]
           /\ LET pk == LookedAt(cache[p][c]) IN Exchange(p, c, pk) \/ Finish(p, pk)
  <2>1. PICK pk \in Packets : /\ pk = LookedAt(cache[p][c])
                              /\ Fits(p, c, pk) /\ Belongs(p, c) /\ task[p] \in Tasks
    BY <1>3, Looked
  <2>2. CASE Exchange(p, c, pk)
    BY <1>1, <1>3, <2>1, <2>2, BlindExchange
  <2>3. CASE Finish(p, pk)
    BY <1>1, <1>3, <2>1, <2>3, BlindFinish
  <2> QED BY <1>3, <2>1, <2>2, <2>3
<1> QED BY <1>2, <1>3 DEF SlotRead

-----------------------------------------------------------------------------
PInv == HInv /\ AgreeInv /\ BlindInv /\ OpenInv

LEMMA InitPInv == Init => PInv
<1> SUFFICES ASSUME Init PROVE PInv
  OBVIOUS
<1>1. /\ \A p \in Peers : task[p] = None /\ opened[p] = 0 /\ finished[p] = {}
      /\ \A p \in Peers, c \in Conns : /\ scfd[p][c] = "none"
                                       /\ wire[p][c] = <<>> /\ cache[p][c] = <<>>
      /\ starters = {}
  BY DEF Init, Ends
<1>2. \A A \in Allowed : In(wire, A) /\ In(cache, A)
  BY <1>1 DEF In
<1>3. Chosen({})
  BY <1>1, <1>2, ChoiceAllowed DEF Chosen
<1>4. AgreeInv
  <2>1. {None} \ {None} = {} /\ None \in Conns \cup {None}
    OBVIOUS
  <2> QED BY <1>1, <1>3, <2>1 DEF AgreeInv
<1>5. BlindInv
  BY <1>1, <1>2, ToldAllowed DEF BlindInv
<1>6. OpenInv
  BY <1>1 DEF OpenInv
<1> QED BY <1>4, <1>5, <1>6, InitHInv DEF PInv

LEMMA NextPInv == PInv /\ [Next]_vars => PInv'
<1> SUFFICES ASSUME PInv, [Next]_vars PROVE PInv'
  OBVIOUS
<1>1. HInv /\ AgreeInv /\ BlindInv /\ OpenInv /\ HInv'
  BY NextHInv DEF PInv
<1>2. CASE UNCHANGED vars
  <2>1. AgreeInv'
    BY <1>1, <1>2 DEF vars, AgreeInv, Chosen, Choice
  <2>2. BlindInv'
    BY <1>1, <1>2 DEF vars, BlindInv, In, Told
  <2>3. OpenInv'
    BY <1>1, <1>2 DEF vars, OpenInv, Dead
  <2> QED BY <1>1, <2>1, <2>2, <2>3 DEF PInv
<1>3. CASE Next
  <2>1. PICK p \in Peers : SlotConnect(p) \/ PeerStep(p) \/ TimeOut(p)
    BY <1>3 DEF Next
  <2>2. CASE TimeOut(p)
    <3>1. erased' = TRUE
      BY <2>2 DEF TimeOut
    <3> QED BY <1>1, <2>2, <3>1, OpenTimeOut DEF PInv, AgreeInv, BlindInv
  <2>3. CASE ~TimeOut(p)
    <3>1. erased' = erased /\ (erased => BlindInv')
      <4>1. erased' = erased
        BY <2>1, <2>3 DEF SlotConnect, PeerStep, Accept, OnRecve, OnDisconnect,
                          SlotRead, history
      <4> QED BY <4>1 DEF BlindInv
    <3>2. CASE SlotConnect(p)
      BY <1>1, <3>1, <3>2, AgreeConnect, BlindConnect, OpenConnect DEF PInv
    <3>3. ASSUME NEW c \in Conns, Accept(p, c) PROVE PInv'
      BY <1>1, <3>1, <3>3, AgreeAccept, BlindAccept, OpenAccept DEF PInv
    <3>4. ASSUME NEW c \in Conns, OnRecve(p, c) \/ OnDisconnect(p, c) PROVE PInv'
      BY <1>1, <3>1, <3>4, AgreeReceive, BlindReceive, OpenReceive DEF PInv
    <3>5. ASSUME NEW c \in Conns, SlotRead(p, c) PROVE PInv'
      BY <1>1, <3>1, <3>5, AgreeRead, BlindRead, OpenRead DEF PInv
    <3> QED BY <2>1, <2>3, <3>2, <3>3, <3>4, <3>5 DEF PeerStep
  <2> QED BY <2>2, <2>3
<1> QED BY <1>2, <1>3

LEMMA Outcome == Spec => []PInv
BY InitPInv, NextPInv, PTL DEF Spec

\* As long as only one peer has asked, at most one connection is handed over:
\* the one it asked for.
THEOREM OneConnection == Spec => []AgreeUnlessBothStart
<1>1. PInv => AgreeUnlessBothStart
  <2> SUFFICES ASSUME PInv, Cardinality(starters) <= 1, ~erased
               PROVE  Cardinality(UNION {finished[p] : p \in Peers}) <= 1
    BY DEF AgreeUnlessBothStart
  <2>1. starters # Peers
    BY PeersAssumption
  <2>2. PICK d \in Conns \cup {None} : Chosen({d} \ {None})
    BY <2>1 DEF PInv, AgreeInv
  <2> DEFINE U == UNION {finished[p] : p \in Peers}
  <2>3. U \subseteq {d}
    BY <2>2 DEF Chosen
  <2>4. IsFiniteSet({d}) /\ Cardinality({d}) = 1
    BY FS_Singleton
  <2> HIDE DEF U
  <2>5. Cardinality(U) <= Cardinality({d})
    BY <2>3, <2>4, FS_Subset
  <2> QED BY <2>4, <2>5 DEF U
<1> QED BY <1>1, Outcome, PTL

\* Two peers that both ask did not both know what they compared with.
THEOREM OneIsBlind == Spec => []BothStartBlindly
<1>1. PInv => BothStartBlindly
  <2> SUFFICES ASSUME PInv, starters = Peers, ~erased, blind = {} PROVE FALSE
    BY DEF BothStartBlindly
  <2>1. PICK p : p \in Peers
    <3>1. Peers # {}
      BY PeersAssumption, FS_EmptySet
    <3> QED BY <3>1
  <2>2. Other(p) \in Peers /\ Other(Other(p)) = p
    BY <2>1, TwoOthers
  <2>3. /\ task[p] # None /\ task[Other(p)] # None
        /\ task[p].selfnum > task[Other(p)].selfnum
        /\ task[Other(p)].selfnum > task[p].selfnum
    BY <2>1, <2>2 DEF PInv, BlindInv
  <2>4. task[p].selfnum \in Nat /\ task[Other(p)].selfnum \in Nat
    BY <2>1, <2>2, <2>3, NumsAssumption DEF PInv, HInv, TypeOK, Tasks
  <2> QED BY <2>3, <2>4
<1> QED BY <1>1, Outcome, PTL

\* What both have handed over is open at both ends.
THEOREM ChosenIsOpen == Spec => []ChosenStaysOpen
<1>1. PInv => ChosenStaysOpen
  <2> SUFFICES ASSUME PInv, NEW p \in Peers, NEW c \in Conns,
                      \A q \in Peers : c \in finished[q]
               PROVE  scfd[p][c] = "open"
    BY DEF ChosenStaysOpen
  <2>1. scfd[p][c] # "none"
    BY DEF PInv, HInv, Reading
  <2>2. scfd[p][c] # "shut"
    BY DEF PInv, OpenInv, Dead
  <2> QED BY <2>1, <2>2 DEF PInv, HInv, TypeOK
<1> QED BY <1>1, Outcome, PTL
=============================================================================
