----------------------------- MODULE ByteArray -----------------------------
(***************************************************************************)
(* PByteArray: a ring of blocks in a list, filled at end and emptied at    *)
(* begin, that grows by inserting blocks at begin.  An Index names its     *)
(* block twice: by number, and by a list iterator, here the block itself.  *)
(*                                                                         *)
(* The growth of push and the loops over single bytes take one step each   *)
(* turn.  Bytes are numbers that come round again after Bytes.             *)
(***************************************************************************)
EXTENDS Integers, Sequences

CONSTANTS Inc,       \* size_increase
          MaxBlocks, \* bound on the blocks
          MaxPush,   \* bound on the size of a push
          Bytes      \* number of different bytes

ASSUME SizesAssumption == Inc \in Nat \ {0} /\ MaxBlocks \in Nat \ {0} /\ MaxPush \in Nat
ASSUME BytesAssumption == Bytes \in Nat /\ Bytes >= Inc * MaxBlocks

VARIABLES
  cache,   \* the list: its blocks in order
  block,   \* the bytes in each block
  begin,
  end,
  call,    \* "none", "push" or "pop"
  grow,    \* blocks push has still to insert
  left,    \* bytes the running call has still to write or to take
  next,    \* the next byte to be pushed
  ub       \* read_to_string has written behind its string

vars == <<cache, block, begin, end, call, grow, left, next, ub>>

Blocks == 1..MaxBlocks
Index == [bolckIndex : 0..MaxBlocks - 1, arrayIndex : 0..Inc - 1, iter : Blocks]

TypeOK ==
  /\ cache \in Seq(Blocks) /\ Len(cache) \in Blocks
  /\ \A i, j \in 1..Len(cache) : i # j => cache[i] # cache[j]
  /\ block \in [Blocks -> [0..Inc - 1 -> 0..Bytes]]
  /\ begin \in Index /\ end \in Index
  /\ call \in {"none", "push", "pop"}
  /\ grow \in 0..MaxBlocks /\ left \in 0..Inc * MaxBlocks
  /\ next \in 1..Bytes /\ ub \in BOOLEAN

Zeros == [i \in 0..Inc - 1 |-> 0]

Init ==
  /\ cache = <<1>> /\ block = [n \in Blocks |-> Zeros]
  /\ begin = [bolckIndex |-> 0, arrayIndex |-> 0, iter |-> 1] /\ end = begin
  /\ call = "none" /\ grow = 0 /\ left = 0 /\ next = 1 /\ ub = FALSE

Place(ix) == ix.bolckIndex * Inc + ix.arrayIndex
Room == Len(cache) * Inc
capacity == Room - 1
size == (Place(end) - Place(begin) + Room) % Room

\* Where a block is in the list, and the list with a block put in at i.
At(n) == CHOOSE i \in 1..Len(cache) : cache[i] = n
With(i, n) == SubSeq(cache, 1, i - 1) \o <<n>> \o SubSeq(cache, i, Len(cache))

\* An increment that leaves the last block without going back to the first.
StepOn(ix) ==
  LET p == Place(ix) + 1
      b == (p \div Inc) % Len(cache)
      distance == b - ix.bolckIndex
  IN [bolckIndex |-> b, arrayIndex |-> p % Inc,
      iter |-> IF distance > 0 THEN cache[At(ix.iter) + distance] ELSE ix.iter]

\* Index::operator++, and the same lines in push_unsafe and pop_unsafe.
Step(ix) ==
  LET p == Place(ix) + 1
      b == (p \div Inc) % Len(cache)
      distance == b - ix.bolckIndex
  IN [bolckIndex |-> b, arrayIndex |-> p % Inc,
      iter |-> IF b = 0 THEN cache[1] ELSE cache[At(ix.iter) + distance]]

-----------------------------------------------------------------------------
(* push and push_from_string *)

\* A growth that does not ask whether there is room already.
NeededAlways(n) == (size + n - capacity) \div Inc + 1

\* The blocks push inserts for n more bytes, and those push_from_string does.
Needed(n) == IF capacity > size + n THEN 0 ELSE (size + n - capacity) \div Inc + 1
NeededForString(n) == IF capacity > size + n THEN 0 ELSE n \div Inc + 2

Push(n) ==
  /\ call = "none"
  /\ grow' \in {Needed(n), NeededForString(n)}
  /\ Len(cache) + grow' <= MaxBlocks
  /\ call' = "push" /\ left' = n
  /\ UNCHANGED <<cache, block, begin, end, next, ub>>

\* One more block.  It goes before begin's; if begin and end are in one block
\* with end in front, that block is doubled, and begin goes to the copy.
InsertEmpty(new) ==
  /\ cache' = With(At(begin.iter), new)
  /\ block' = [block EXCEPT ![new] = Zeros]
  /\ begin' = [begin EXCEPT !.bolckIndex = @ + 1]
  /\ end' = IF begin.bolckIndex > end.bolckIndex THEN end
            ELSE [end EXCEPT !.bolckIndex = @ + 1]

InsertCopy(new) ==
  /\ cache' = With(At(begin.iter) + 1, new)
  /\ block' = [block EXCEPT ![new] = block[begin.iter]]
  /\ begin' = [begin EXCEPT !.bolckIndex = @ + 1, !.iter = new]
  /\ UNCHANGED end

\* Growth that does not look where begin and end are within their block.
SplitsNever == FALSE

Splits == begin.bolckIndex = end.bolckIndex /\ begin.arrayIndex > end.arrayIndex

Grow ==
  /\ call = "push" /\ grow > 0
  /\ grow' = grow - 1
  /\ IF Splits THEN InsertCopy(Len(cache) + 1) ELSE InsertEmpty(Len(cache) + 1)
  /\ UNCHANGED <<call, left, next, ub>>

\* push_unsafe, for one byte.
Write ==
  /\ call = "push" /\ grow = 0 /\ left > 0
  /\ block' = [block EXCEPT ![end.iter][end.arrayIndex] = next]
  /\ end' = Step(end)
  /\ next' = (next % Bytes) + 1
  /\ left' = left - 1
  /\ UNCHANGED <<cache, begin, call, grow, ub>>

-----------------------------------------------------------------------------
(* pop, pop_to_string, read_to_string and copies *)

\* pop and pop_to_string take what there is, at most n bytes.
Pop(n) ==
  /\ call = "none"
  /\ call' = "pop" /\ left' = IF size < n THEN size ELSE n
  /\ UNCHANGED <<cache, block, begin, end, grow, next, ub>>

\* pop_unsafe, for one byte.
Take ==
  /\ call = "pop" /\ left > 0
  /\ block' = [block EXCEPT ![begin.iter][begin.arrayIndex] = 0]
  /\ begin' = Step(begin)
  /\ left' = left - 1
  /\ UNCHANGED <<cache, end, call, grow, next, ub>>

Return ==
  /\ call # "none" /\ grow = 0 /\ left = 0
  /\ call' = "none"
  /\ UNCHANGED <<cache, block, begin, end, grow, left, next, ub>>

\* read_to_string(n) makes a string of n bytes and copies all there are.
ReadToString(n) ==
  /\ call = "none"
  /\ ub' = (size > n)
  /\ UNCHANGED <<cache, block, begin, end, call, grow, left, next>>

\* A copy goes on from the numbers alone.
Copy ==
  /\ call = "none"
  /\ begin' = [begin EXCEPT !.iter = cache[begin.bolckIndex + 1]]
  /\ end' = [end EXCEPT !.iter = cache[end.bolckIndex + 1]]
  /\ UNCHANGED <<cache, block, call, grow, left, next, ub>>

Next == ~ub /\ \/ \E n \in 0..MaxPush : Push(n) \/ Pop(n) \/ ReadToString(n)
               \/ Grow \/ Write \/ Take \/ Return \/ Copy

Spec == Init /\ [][Next]_vars

-----------------------------------------------------------------------------
\* Both names of a block stay the same block, whichever blocks are inserted
\* and wherever the ring comes round.
IteratorsAgree ==
  /\ cache[begin.bolckIndex + 1] = begin.iter
  /\ cache[end.bolckIndex + 1] = end.iter

\* The byte i places behind begin.
Byte(i) == LET p == (Place(begin) + i) % Room
           IN block[cache[p \div Inc + 1]][p % Inc]

\* The ring of blocks is a queue of bytes: growing in the middle of a wrapped
\* ring moves, loses and doubles nothing, and no write reaches begin.
Queue == INSTANCE ByteQueue WITH bytes <- [i \in 1..size |-> Byte(i - 1)],
                                 Bytes <- 1..Bytes
ImplementsByteQueue == Queue!Spec
=============================================================================
