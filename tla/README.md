# Verification of CEventSignalSlot

CEventSignalSlot is a small C++ library in the manner of Qt Core: event loops
owned by threads, signals whose slots run in the loop of the object they were
connected with, a `Thread` object that moves itself to a new thread, and on top
of them sockets, a peer-to-peer handshake and a file transfer. This directory
holds TLA+ models of all of these, TLC runs that check them on small
instances, and proofs checked by TLAPS for every instance.

    tlc -workers 2 -config EventLoop.cfg MCEventLoop      # one run
    tlapm EventLoop_proofs.tla                            # one proof module

## 1. The system

| part | code | state | operations |
|---|---|---|---|
| event loop | `BLEventLoop.{h,cpp}` | per thread id one `CoreData`: `LooEvent`, `LoopMutex`, `cond_t`, `toExit`; `object_map` from id to `CoreData`; each object's `object_loop` | `exec`, `addEvent`, `waitQuit`, `setObjectThread` |
| signals and slots | `BLObject.h`, `CAS.h` | `slots` by member function, `lamda_slots`, a spin lock; per `Slot` the queue `args` and `spinLock` | `connect` (2), `disconnect`, `Clear`, `emit` (asynchronous), `emit(bool)` (synchronous), `addArg`, `Invke` |
| thread start | `BLThread.{h,cpp}` | locals of `start`: `isLock`, `startMutex`, `cond` | `start`, `moveToThisThread` |
| sockets, epoll | `linux/BLLinuxTCPSocket.*` | descriptor, send and receive caches with a lock each, one epoll thread | `send`, `recve`, `onSend`, `onRecve`, `close`, `accept`, `EPOLLObject::run` |
| handshake | `linux/BLP2P.*` | per peer a task: two sockets, `selfnum`, `othernum`, `checked`, `_time`; `tMap` | `connect`, `SetSeverSocket`, `SlotRead`, `check`, time-out handler, `Find` |
| timer | `linux/BLTimer.*` | a POSIX timer, `callback` | `StartWithSecond`, `Stop`, callback threads |
| boxes, framing | `utils/Box.hpp`, `test/package.*` | queue of boxes, read position, `AllBytes`, pending `lenght` | `push`, `read`, `Serialize`, `GetPackage` |
| file transfer | `test/filep2p.h`, `test/main.cpp` | `sendJob`, `nodes`, the receiver's output file | `SlotOnNewSend`, `SlotOnSendWork`, `SlotOnConnect`, `SaveFile` |
| byte array | `PByteArray.hpp` | ring of blocks, `begin`, `end` | `push`, `pop`, `read_to_string`, ... |
| option parser | `test/argpaser.*` | table of commands | `Parse`, `PaseOption` |
| log registry | `debug.*`, `Singleton.h` | `GlogData` | `GetLogInstance`, `SetGLogName`, `GLog` |

How they meet. An `emit` pushes an argument into each slot's own queue and posts
the slot, which is an `Event`, to the loop of the object it was connected with;
the thread that executes this loop calls `Invke`, which takes the front argument
and calls the function. `Thread::start` makes the new thread bind the object to
its own loop, emit `started` to it and execute it. The epoll thread emits
`readReady` and `disconnected` into the loops of the handshake and of the file
transfer, and emits `connected` synchronously, so `Find` also runs on it. Timer
callbacks run in threads of their own and emit `toChekc`.

What is hard about it:

- `addEvent` and `waitQuit` notify without the mutex, and `exec` does not test
  the queue again after its wait;
- the argument queue of a slot is filled under the signal's lock and emptied
  under the slot's: two different locks; the synchronous emit uses neither to push;
- slots are deleted while events that refer to them are waiting;
- `start` and its new thread share three locals by reference;
- `object_loop` is read without a lock while another thread may replace it;
- loops outlive their threads, and thread ids come back;
- callbacks nest `exec` (`Filep2p::SlotRun`), clear the signal they were called
  from (`P2PTask::SlotRead`), and run on whichever thread emitted.

What makes each part correct: no event is lost, doubled or left asleep upon
(loop); each emission reaches each connected slot once and in order, and `Invke`
always finds an argument (signals); `start` returns, and only once the object is
in its new loop (thread start); exactly one of the two connections is chosen by
both peers (handshake); bytes arrive in the order they were queued, once, and are
announced (sockets); packages come out as they went in (framing); files arrive whole
(file transfer); a ring of blocks is a queue of bytes (byte array).
`PROJECT.json` lists the places where these can go wrong, line by line.

## 2. The modules

| module | models | kind |
|---|---|---|
| `LoopQueue` | what posting to a loop promises | abstract |
| `EventLoop` | one `CoreData`, its callers and executors | detailed, implements `LoopQueue` |
| `Mailbox` | what a connection promises to the emitting code | abstract |
| `SignalSlot` | one `signal_`, its slots, threads and loops | detailed, instantiates `LoopQueue`, implements `Mailbox` |
| `ThreadStart` | `Thread::start`, moving an object, posts meanwhile | detailed |
| `P2PHandshake` | the tasks of two peers, their connections and loops | detailed |
| `Stream` | what a connection promises: bytes in order, once, without gaps | abstract |
| `Socket` | both ends of one connection, epoll threads, senders, the kernel | detailed, implements `Stream` |
| `PackageQueue` | what framing promises to who asks for packages | abstract |
| `Framing` | `BufferToproto`, `ReadBoxQueue`, `GetPackage` | detailed, implements `PackageQueue` |
| `FileTransfer` | the jobs of a sender, the one output file of a receiver | detailed, extends `Framing` |
| `ByteQueue` | a queue of bytes | abstract |
| `ByteArray` | the ring of blocks, its two indices, growth and copies | detailed, implements `ByteQueue` |
| `MC...` | values for the constants of each | for TLC |
| `BoxLine`, `..._proofs` | lemmas about boxes in a line; theorems about each | for TLAPS |

The composition goes through the abstract modules: `SignalSlot` does not contain
the detailed loop but `LoopQueue` (`Loop!Post`, `Loop!Invoke`), and `EventLoop`
is shown to implement `LoopQueue`. `SignalSlot` in turn implements `Mailbox`,
what the handshake and the file transfer rely on. `FileTransfer` contains `Framing`
whole: its steps are framing's steps with the sender's and receiver's state beside
them, so what framing promises can be checked, and is proved, inside the transfer.
`P2PHandshake` abstracts the sockets to a wire and a cache for each end; that bytes
keep their order and are announced is what `Socket` shows.

**Undefined behaviour.** Where the code runs into it (top of an empty queue,
a deleted slot, a data race on a `std::queue`, a dead local) the step sets `ub`,
and `Next` allows nothing after it. Where the outcome is a matter of chance, as
in a race, both the harmless outcome and `ub` are possible steps. The promises
end there: `LoopQueue.open` and `Mailbox.broken` are defined from `ub`.

### EventLoop

`LooEvent` is a bag: every event gets the priority `CUSTM_FUNC`
(`Object::addToEventLoop`), and `std::priority_queue` orders equal elements
arbitrarily. A section under `LoopMutex` is one action: `AddEvent` is lock, push,
unlock; `ExecTake` is lock, size not 0, `PopTop`; `ExecWait` is lock, size 0, wait.
What happens outside the mutex is an action of its own: `Notify`, `ExecCheck` (the
test of `toExit`), `WaitQuit` (which never takes the mutex), `ExecCall`, `Return`.
`ExecWoken` is the rest of the critical section after `wait`: it does not test the
size. `NestedExec` is a callback that calls `exec` on the same loop; `depth` counts
the executions below, `"unwind"` is the return into the callback. A callback that
calls `addEvent` or `waitQuit` is a member of `Callers`: for the loop there is no
difference, since callbacks run outside the mutex. `NestedExec` leaves `cur`
to the inner execution, because the outer one assigns its `e` again before
it reads it. The null tests of `object_loop` are left out: the constructor of
`Object` always binds one.

### SignalSlot

`status` stands for the two tables: the slots that are `"connected"` are those the
tables hold; a slot whose entry a second `connect` of the same function overwrote
is `"replaced"`; `"deleted"` is freed. `connect`, `disconnect` and `Clear` only touch
the tables under `lock` and are one action each. The asynchronous emit keeps `lock`
over its steps: for each slot `AddArgBegin`, `AddArgEnd`, `AddToEventLoop`; the
synchronous one copies the tables, releases the lock, and for each slot goes
`AddArgBegin`, `AddArgEnd`, `Take`, `Apply`. The push is two steps because it may
overlap a pop or another push: `Pushing(s)` is who is inside. A loop calls a slot with
`LoopInvokes`, `Take`, `Apply`. The order in which an emit visits its slots is left
open (the code goes by function address, then by connection).

A function may delete the slot it was called through (the handshake does); nothing
of the slot is read after the function returns, so `Apply` only asks that the slot
lives when the call begins. The thread that executes a loop is a member of `Loops`,
and what its slot functions emit is done by members of `Threads`.

### ThreadStart

A loop is named by its thread id: `setObjectThread` finds or makes the `CoreData`
of the id and `object_map` never drops it, so `toExit` and the events left in
`queue` survive the thread, and `Spawn` may give the id to the next one. `parent`
and `child` are program counters of `start` and of the lambda; `holder` is
`startMutex`. `addEvent` reads `object_loop` three times, so it is three steps,
and every event carries, for the properties, whether `start` had returned.
`chance` marks a `start` that returned because its `wait` woke up by itself.
On Linux `try_lock` fails only when the mutex is held.

### P2PHandshake

Two peers, each with at most one task for the other (`task`); a connection is named
by the peer that opens it, and each of its ends has a descriptor (`scfd`), packets on
their way to it (`wire`), a receive cache, and the events of its `readReady`.
`SlotConnect` is the handler of the application's connect with `Find` and
`P2PTask::connect`; `Accept` is `accept` with P2P's handler of `connected`, which runs
`Find` and `SetSeverSocket` on the epoll thread; `OnRecve` and `OnDisconnect` are the
socket's. `SlotRead` is one event of `readReady`: `Exchange` for REQ and ACK (with
`check`, which still compares the old `othernum`), `Finish` for the four that end the
handshake. `TimeOut` is the handler of `toChekc` that erases the task.

- Packets that arrive together are in `cache` as they would be in its boxes;
  `SlotRead` looks at the first one and drops the rest, and an event that finds the
  cache empty does nothing. Bytes and boxes themselves are left out.
- `othernum` of a new task is whatever the memory held: a member of `Garbage`.
  `_time` is counted down by a timer of another thread, so a time-out is possible at
  any moment while there is a task.
- The application is assumed to keep the sockets it is handed: a socket in
  `finished` outlives the task, the others are closed with it.
- `Find` is atomic. That it runs on two threads on an unlocked `tMap` is a hazard in
  `PROJECT.json` which no property covers.
- `finished`, `starters`, `blind` and `erased` are histories for the properties.

### Socket

Two ends, each a process of its own with one epoll thread (`epoll`: where it is) and
application threads. `Client` calls `connectToHost`; the other end is made by `accept`.
A box is the interval of the numbers of its bytes, `kernel[e]` the bytes TCP keeps for
end `e`, at most `Room`.

| action | code |
|---|---|
| `ConnectToHost`, `Accept`, `Bind` | `connectToHost`; `accept` with `bindEPOLL` and the synchronous `connected.emit`, whose handlers connect `readReady`; the client's own `connect` of `readReady`, later |
| `SendTest`, `SendPush` | `send`: the test of `scfd` before the lock; push and `Mod(EPOLLOUT)` under it, which is one step because `onSend` needs the same lock |
| `Recve` | `recve` in the loop, for one event of `readReady` |
| `Wake` | `epoll_wait` returns, `onRecve` or `onSend` takes its lock; `EPOLLOUT` replaces `EPOLLIN`, so `interest` is one of them |
| `RecvChunk`, `RecvAgain`, `RecvEnd` | the loop of `onRecve`: data; EAGAIN and `readReady.emit`; 0 or an error, `close`, no emit |
| `KernelTakes`, `SendDone`, `SendMod` | `::send` passes on a byte; the queue is empty; `Mod(EPOLLIN)` |
| `SendShort`, `SendInterrupted`, `SendFails`, `SendKills` | a signal or a reset ends `::send` after some bytes (the box is popped all the same), after none, with an error, with SIGPIPE |
| `EpollEnds`, `Destroy`, `Drop` | EINTR from `epoll_wait` ends `run`; the destructor; a reset drops what is under way |

- A signal can end `::send` only while it waits for room: that is when the system
  call can be interrupted with part of the box or nothing passed on.
- `RecvEnd` keeps what was read in the same call and announces it to nobody: that is
  why `NoSilentData` speaks of open sockets. `missed` marks bytes announced while
  `readReady` had no slot.
- `disconnected.emit` runs under `recve_cache_lock`; its slots are asynchronous, so it
  only posts. A `connect` or `accept` that fails, `sendNothing` (an empty box) and
  several connections of one epoll thread are left out.

### Framing

The stream is the positions `1..`; `cut` says where each package ends in it, so the
contents of a box and of a package are intervals, and a package is told from others by
where it stands. `Serialize` appends a package with its header; `Push(n)` brings the next
`n` bytes as a box, whatever the sender's boxes were. `GetPackage` takes steps where the
code's loop does: `Turn` is one turn of `ReadBoxQueue::read` (what `Index::read` returns,
and the pop of a box that is used up), `HeaderRead`, `Test` and `BodyRead` the rest.
`AllBytes` is kept beside the boxes as in the code. Protobuf is external: it takes the
bytes of a package and refuses any others; a header that is not one may say any size.

### FileTransfer

A file is a number of chunks that fill the read buffer and a rest, maybe empty. The
sender's loop runs `SlotOnNewSend` (a new job) and `SlotOnSendWork` (`WorkBegins`,
`WorkOn` for each job of the list, `WorkEnds` with the emit that keeps it going), the
receiver's `recaveFile` (`RecaveFile` pushes the box, `RecaveStep` is `GetPackage`,
`RecaveSaves` is `SaveFile` for the package it returned, `RecaveStops` any other answer).
`SaveFile` follows the one `ofstream`: `open` fails on an open stream and sets the flags,
output does nothing while they are set, and only an `open` that succeeds clears them.
`begun` and `most` are histories: how many jobs were begun since there was none running, and
the most that has been. The job holds a plain pointer to its socket: `socket` is `"freed"` once the handler of
`disconnected` drops the last shared one, and a job that uses it then sets `ub`.

### ByteArray

`cache` is the list of blocks by name, `block` their bytes. An `Index` has the number of
its block and a list iterator, here the block's name: the two can disagree, which
`IteratorsAgree` says they do not. `Push(n)` decides how many blocks to insert, by the
formula of `push` or that of `push_from_string`; `Grow` inserts one (`InsertEmpty` before
`begin`, or `InsertCopy` when `begin` is behind `end` in one block), `Write` and `Take` move
one byte. `Copy` is the copy constructor and assignment, which find the iterators again
from the numbers. `read_to_string(n)` writes everything into a string of `n` bytes: `ub`
if there is more.

## 3. The runs

| run | cfg | states | question and result |
|---|---|---|---|
| `loop` | `EventLoop.cfg` | 40 679 | holds: nothing lost or doubled (`EventsConserved`), nobody sleeps over a non-empty queue without a notification on its way (`NoLostWakeup`), at most one event after `waitQuit` (`QuitWithinOneEvent`), the queue keeps moving (`QueueNeverStalls`), nests unwind (`QuitUnwinds`), the loop implements `LoopQueue` with its fairness |
| `loop_use` | `EventLoopUse.cfg` | | **violated**: `NoEmptyTop` |
| `signal` | `SignalSlot.cfg` | 315 516 | holds: arguments and events balance (`ArgsMatchEvents`), an asynchronous emit never touches a deleted slot (`AsyncEmitTouchesLive`), each emission reaches each slot once (`EachEmissionOnce`), signal and slots implement `Mailbox` with its fairness |
| `signal_order` | `SignalOrder.cfg` | 241 795 | holds: `TakenInEmitOrder` |
| `signal_use` | `SignalUse.cfg` | | **violated**: `NoArgRace` |
| `start` | `ThreadStart.cfg` | 165 979 | holds: `start` returns with the object moved (`ReturnMeansMoved`), later posts reach the new loop (`SettledPostsReachChild`), and `start` returns if the child's `try_lock` succeeds or the parent sleeps in time (`LockedStartReturns`, `EarlySleeperReturns`) |
| `start_use` | `ThreadStartUse.cfg` | | **violated**: `StartReturns` |
| `p2p` | `P2PHandshake.cfg` | 555 983 | holds: `SlotRead` answers and hands over the socket it has read (`FinishesWhatItRead`), both peers hand over the same connection as long as one of them asks (`AgreeUnlessBothStart`), both ask only if one compared a number it was never given (`BothStartBlindly`), time-outs spare what both handed over (`ChosenStaysOpen`), who asks gets both to finish (`StartedFinishes`) |
| `socket` | `Socket.cfg` | 356 784 | holds: boxes never wait on an open socket without EPOLLOUT (`InterestFollowsCache`), cached bytes are announced (`NoSilentData`), two ends that have filled each other up stay so (`JamLasts`), the connection implements `Stream`, bytes arrive if nothing breaks (`SentArrives`), an end notices that the other is gone (`CloseIsNoticed`) |
| `transfer` | `FileTransfer.cfg` | 1 306 267 | holds: a complete package waits only behind the end of a file (`WaitsOnlyAfterEnd`), jobs that do not overlap write whole files (`AloneIsWhole`), two that do never mix their chunks (`TwoNeverMix`), framing keeps its promise (`ImplementsPackageQueue`), jobs end (`JobsFinish`) |
| `bytes` | `ByteArray.cfg` | 168 508 | holds: numbers and iterators agree (`IteratorsAgree`), the ring implements `ByteQueue` |
| `p2p_use` | `P2PUse.cfg` | | **violated**: `ConnectionFinishes` |

Every property of a passing run comes with a mutant in `PROJECT.json`: an operator
next to the original that changes it the way a plausible bug would (a `notify_all`
left out, `top` without `pop`, an emit that releases the lock early) and that makes
TLC find the property violated.

### The four violations

- `NoEmptyTop`. One caller, one executor, no spurious wake-ups. `addEvent` pushes
  and unlocks; `exec` takes the event, calls it and waits on the empty queue; only
  then comes the `notify_all` of that same event, and `exec` goes on to `top()` and
  `pop()` of an empty `priority_queue` (`BLEventLoop.cpp:26-31`).
- `NoArgRace`. The second `emit` pushes into `args` without `spinLock` while the
  loop pops the first argument under it (`BLObject.h:75-84`).
- `StartReturns`. The parent holds `startMutex` and has read `isLock` false; the
  child's `try_lock` fails, it notifies twice; the parent waits, for ever
  (`BLThread.cpp:23-42`).
- `ConnectionFinishes`. One connection, no time-outs. Either side calls `check` before
  it stores the number it has just read, so both compare garbage; if it is not
  smaller than their own number, neither asks, and the connection stays open
  without ever being handed over.

What `P2PHandshake` shows besides: when both peers ask, on two connections, they may
hand over different ones, or the answer may reach a slot that is already freed
(`ub`); `AgreeUnlessBothStart` and `BothStartBlindly` say under which conditions this is
possible.

What the other passing runs show besides:

- `socket`. `onSend` blocks the process's only epoll thread, and EPOLLOUT takes the place
  of EPOLLIN, so two ends that both send more than the kernel takes stand still for
  good: `JamLasts` says that nothing but a cut box or a lost end resolves it, and
  `SentArrives` has to except it. A box is popped after any positive `::send`: after a
  short one the stream has a gap (`Stream` promises completeness only until then). Bytes
  read in the same `onRecve` as the end of the connection are never announced.
- `transfer`. `recaveFile` returns after the package that ends a file, so packages that
  came in the same box wait for the next box (`WaitsOnlyAfterEnd`). Two overlapping jobs
  lose the end of a file; with three the flags are clear again when the third file
  opens, and chunks do get into the wrong file: `TwoNeverMix` holds as
  long as at most two are begun before all have ended.
- `bytes`. Nothing is lost when the ring grows, wherever `begin` and `end` stand.
  `read_to_string(n)` writes behind its string whenever there are more than `n` bytes.

One remark without a run: the comment at `BLEventLoop.h:61` describes `toExit` as
"whether there are events in the queue"; it is the request to stop.

### Bounds, and why they are enough

- `EventLoop`: two callers are needed for one `notify_all` to overtake another, two
  executors for one to empty the queue under the other's feet; three calls give two
  events and a `waitQuit` that overlap in every way; one nesting is what
  `Filep2p::SlotRun` does. The use run needs one of each.
- `SignalSlot`: two slots of the same member function (replacement) and a lambda in
  another loop; two threads, so that a synchronous and an asynchronous emit, or a
  `disconnect`, overlap; two emissions. The order run has three emissions, so that
  a synchronous one lies between two asynchronous ones, and one loop.
- `ThreadStart`: two objects and a single id, so that a second thread gets the loop
  that the first left; one poster with one event.
- `P2PHandshake`: one connection from each side, so that they cross; two numbers, so
  that equal, greater and smaller all occur; garbage below and above every number.
  The use run opens one connection only, as `test/main.cpp` does.
- `Socket`: `Room = 1`, so that every `::send` of two bytes has to wait and can be cut;
  three bytes from one end and two from the other are two boxes each, or one of two
  bytes, so that a box waits behind another, is cut in the middle, and both ends fill
  each other up. Every `recv` may bring one byte or all there is.
- `FileTransfer`: three files, because what two jobs do differs from what three do; of
  three, one and two packages, with and without a rest, so that there are files whose
  first package is their last, and files whose last package is empty. Packages are two
  bytes with a header of one, boxes up to three bytes: a box may hold less than a header,
  a package and a half, or end at a package's edge.
- `ByteArray`: blocks of three bytes, so that `begin` can be behind `end` in one block with
  room between them (with two bytes the copy never happens); four blocks and pushes of
  four bytes, so that the ring comes round and grows by one and by several blocks. There
  are as many different bytes as places.

`CHECK_DEADLOCK FALSE` is in every cfg because the system really may stop: the
calls, emissions, slots and posts of an instance run out, a loop nobody posts to
sleeps in `wait`, and `ub` ends a behaviour.

### Fairness, and why the code justifies it

Weak fairness for what a thread does by itself once it has begun: an executor's steps, a
caller's `notify_all`, the steps of an emit, of `Invke`, of both sides of a `start`; in the
handshake `accept`, the epoll thread's reads and the loop's events, with TCP delivering what
is sent on an open connection; in `Socket` each end's epoll thread, a `send` that has begun,
and the loop's events; in the transfer the sender's and the receiver's loop. No fairness for
signals, resets, SIGPIPE, destructors or the end of an epoll thread. The threads are
ordinary threads the system schedules, no mutex is held across a blocking call but
`onSend`'s in `::send`, which `Socket` shows (`SendPush` waits for it), and slot functions
are assumed to return (the library cannot do without it: one that does not stops its loop).
No fairness on calling `addEvent`, `waitQuit`, `emit`, `connect` or `Clear`, on nesting an
`exec`, on spurious wake-ups, on opening a connection or running out of time, or on taking
the spin lock to begin an emit: nobody has to come, and a spin lock promises no turn. Nor is
any one event promised its turn while others keep coming; `LoopQueue!FairSpec` only says
that some event is called.

## 4. What is proved

For every value of the constants, under the named assumptions of the modules (sets
of actors finite and disjoint, bounds natural numbers, `NoEvent` and `Nobody`
outside the sets they are told from). TLC evaluates the assumptions in each run.

**EventLoop_proofs.** `EInv` is `TypeOK` with: posted = queued + taken + invoked for
each event; asleep with a non-empty queue implies a pending notification; an
executor about to call holds an event; and for `QuitWithinOneEvent`, the position of
each executor bounds `late` (0 while `toExit` is off or before the test, at most 1
after it). The last part is why the property is not inductive by itself: it has to
know that no path leads from a late event to another without `ExecCheck`. From it:
`TypeCorrect`, `Conservation`, `WakeupsReachSleepers`, `QuitIsPrompt`, and
`Refinement` (`Spec => Promise!Spec`: an `ExecCall` is an `Invoke` that has an
uncalled post because of conservation).

**SignalSlot_proofs.** `SInv` is `TypeOK` with the balance of arguments and events of
each live slot, who may hold `lock` and with which program counter, that what the
holder has still to serve is connected, and that the numbers in `taken` followed by
`args`, restricted to asynchronous emissions, grow and stay below those still to be
pushed by the holder; and that an idle thread holds no arguments and an emission still to
come has no slots, which is what makes `EachEmissionOnce` itself inductive (pushes and
pops are followed by counting the places of an emission number in `args` and `taken`).
From it: `AccountsBalance`, `AsyncEmitIsSafe`, `EmitOrder`, `EmissionsArriveOnce`,
`Refinement` (`Spec => Box!Spec`). The order needs the emit to keep `lock`
until its last push; the mutant that releases it early breaks it.

**ThreadStart_proofs.** `TInv` is `TypeOK` with: a child that is past its move has its
object bound to its own id; a `start` that was woken or saw `isLock` has such a
child; events and posts marked as settled name the child's loop. From it:
`TypeCorrect`, `StartMoves`, `PostsReachChild`.

**P2PHandshake_proofs.** `HInv` is `TypeOK` with: a task's client was opened here and
its server by the other peer; every packet on a wire or in a cache is at the end its
command is about; an end that is still read belongs to the task, one that is not
there yet is not read, one handed over is not read any more. `FinishesWhatItRead`
alone is not inductive: that a new connection is not in `finished` needs the count of
attempts, and that a time-out frees all that is read needs what `finished` implies.
From it: `TypeCorrect`, `AnswersWhatItRead`.

`PInv` adds three parts for what the handshake comes to. `AgreeInv`: who has asked is
marked `checked`, so it does not ask again; before anybody asks there is no answer under
way, and while one peer has not asked, answers travel, and sockets are handed over, on
one connection only, the one asked for. It is stated with `In(w, A)`: every packet on
its way to an end is in a set allowed there, and each step only has to show that what it
sends is allowed. `BlindInv` uses the same form for the numbers: a packet on its way to a
peer carries the other's `selfnum`, so an `othernum` that was read is right, and two peers
that both knew would each have the greater number. `OpenInv`: behind every closed end is an
end that was closed without being handed over and never will be. From it: `OneConnection`,
`OneIsBlind`, `ChosenIsOpen`.

**Socket_proofs.** `KInv` is the way of the bytes: what the other application has, what
`recaveCaceh` holds and what is in the kernel are together a sequence of growing numbers
below the byte the next `::send` begins with, without a gap while `cut` is false, and the
boxes from that byte on are a line up to `sent`. Most steps only move bytes along this
sequence and leave it as it is. The rest of `KInv` says where the epoll thread is when
cache and interest disagree, and that a socket without a descriptor has been given
nothing. `JamLasts` follows from the guards once it is known
that an end in `"send"` with a full kernel passes nothing on; its first version said that
`cut` changes and is false when a second box is cut, which the bounds of the run are too
small to show. From it: `TypeCorrect`, `BoxesAreArmed`, `DataIsAnnounced`, `JamsLast`,
`Refinement` (`Spec => Promise!Spec`).

**BoxLine.** Lemmas about queues of boxes whose intervals follow each other, used by
`Socket_proofs` and `FileTransfer_proofs`, the two that have such queues.

**FileTransfer_proofs.** First framing by itself. `FInv` says where the reader stands in the
stream at every turn of `read`: the boxes are the line from there to `fed`, `AllBytes` is their
length, `buf` is the part of the header or body read so far, and `lenght` is the size of the
package after those in `out`. From it: `TypeCorrect`, `Refinement`. The proof holds for any
header, any sizes and any boxes: that `AllBytes` and the boxes agree is what rules out a read
that runs dry.

Then the transfer. `UsesFraming`: every step of the transfer is a step of framing or
leaves it alone, so `TransferRefinement` and framing's invariant carry over. `GInv` adds
three parts: where the receiver stands among the answers of `GetPackage` (the one not dealt
with is the package after `last`); while no job has overlapped, that every package follows
the one before it and the running job's next package the last of the stream; and, then, what
is open and on the disk after the package saved last. From it: `TransferTypeCorrect`,
`WaitingIsBehindAnEnd`, `AloneWritesWhole`.

`PInv` is about two jobs. The receiver may be any number of packages behind the sender, so
the invariant has to speak of the whole stream between them: there is an assignment of phases
to its packages, `none` (no file is half sent), `one`, `two` (the second has begun in the
first) and `rest` (one of the two has ended), that every package continues (`Passes`). The
jobs fit to the phase of the last package of the stream (`SenderAt`), the receiver to that of
the package it saved last (`ReceiverAt`): in `one` what is open is the file of that package,
up to its chunk; in `two` the flags are set, so nothing is written; in `rest` nothing is open
and no file can begin, because the second job of the two is still running. A third job would
begin in `rest` and its `open` would succeed; that is where three differ from two, and why
`TwoNeverMix` counts jobs from the last moment there was none (`begun`, `most`) and not over
the whole life of the sender. From it: `PairInvariance`, `TwoWriteInPlace`.

**ByteArray_proofs.** `RInv` is `TypeOK` and `IteratorsAgree` with: both indices name a block
of the list (`InRing`); the list holds the blocks made so far, so an inserted block is a new
one and no name occurs twice (`NewIsNew`); what `push` has still to write fits into what it
has still to insert, and `pop` has no more to take than there is (`Fits`). `Fits` is what the
formulas of `push` and `push_from_string` are for: without it `Write` could run into `begin`,
and it has to count `grow`, because a call computes the number of blocks once and inserts them
one by one. From it: `TypeCorrect`, `NamesAgree`.

For `Refinement`, bytes are counted by their place in the ring, block after block, modulo its
size (`Held` is the contents read that way). `Write` and `Take` change one place each, so they
append and drop one byte; `Grow` must leave `Held` alone although the ring gets longer: a block
inserted before `begin` moves every byte from `begin` to the end of the list by one block, and
those that have come round to the front stay (`EmptyMoves`); with `begin` behind `end` in one
block, `begin` goes to the copy, which has the bytes from there on, and the old block keeps
those in front of `end` (`CopyMoves`).

**Only model-checked.** Liveness and the fair half of the refinements that have one
(`QueueNeverStalls`, `QuitUnwinds`, `LockedStartReturns`, `EarlySleeperReturns`,
`StartedFinishes`, `SentArrives`, `CloseIsNoticed`, `JobsFinish`, `ImplementsLoopQueue`,
`ImplementsMailbox`): the prover has no rule for fairness here. The safety halves of the last
two are the theorems `Refinement` of their modules. Every invariant and every action property
of a passing run is stated by a theorem.

## 5. Not modelled

- `BLTimer` (`linux/`): its callbacks run in threads of the C library, and nothing in the
  class orders them with `Stop` or the destructor. A model would go to undefined behaviour
  at once, and the class makes no promise that could be checked. Its one user, the
  time-out handler of the handshake, is in `P2PHandshake`, where it fires at any moment.
- `argpaser.*`: one sequential walk over `argv` without state afterwards.
- `debug.*`, `Singleton.h`: a map filled before `main` and read later; the rest formats.
- Many connections on one epoll thread, failed `accept`s, the race inside `tMap`: see the
  notes of the hazards in `PROJECT.json`.

Left out for good: `lib/` (OpenSSL and protobuf, vendored), `proto/` (generated),
`ssl3/` (wrappers of OpenSSL calls), `mac/` (not built), `BLTimer.*` of the root
(Windows only), and `error/` (tables of texts). Most of the repository's lines are in
these, `lib/` above all; of the library's own code, what has state and runs concurrently
is modelled.
