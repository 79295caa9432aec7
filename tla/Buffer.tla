------------------------------- MODULE Buffer -------------------------------
(***************************************************************************)
(* reactor::buffer (buffer.h, buffer.cpp): a list of chains, each a block  *)
(* of memory of which the bytes from misalign_ to off_ are in use.  The    *)
(* module models every way to append, pullup, remove and drain;            *)
(* BufferReads adds iterators, copies, searches and read_line.             *)
(*                                                                         *)
(* Bytes are numbered in the order they were appended, and a chain says    *)
(* which it holds: lo+1 .. hi.  Copying n bytes behind those of a chain    *)
(* extends it to hi + n; that they are the right ones is what Bookkeeping  *)
(* says of the chain they come from.  Lengths of 2 GiB and more are not    *)
(* modelled.                                                               *)
(***************************************************************************)
EXTENDS Integers, Sequences

CONSTANTS
  Request,     \* lengths passed to the operations
  ChainSize,   \* DEFAULT_CHAIN_SIZE (1024)
  MaxExpand,   \* MAXIMUM_SIZE_WHEN_EXPAND (4096)
  Hint,        \* what append_printf first makes room for (64)
  Fraction,    \* a chain with less than 1/8 of its capacity free is not resized
  Width,       \* bits of total_len_ (64)
  MaxBytes     \* bound: bytes ever appended

ASSUME ChainSizeAssumption == ChainSize \in Nat \ {0} /\ Hint \in 1 .. ChainSize
ASSUME ExpandAssumption == MaxExpand \in Nat /\ Fraction \in Nat \ {0}

\* Memory holds less than half of what total_len_ can count.  A length has as
\* many bits as total_len_ and a sign; on_close drains an empty buffer, by 0.
ASSUME WidthAssumption == Width \in Nat \ {0} /\ MaxBytes \in 0 .. 2 ^ (Width - 1) - 1
ASSUME RequestAssumption ==
  Request \subseteq -(2 ^ (Width - 1)) .. 2 ^ (Width - 1) - 1 /\ 0 \in Request

VARIABLES
  chains,      \* chains_
  last,        \* index in chains_ of last_chain_with_data_, 0 for nullptr
  totalLen,    \* total_len_
  written,     \* bytes ever appended (history)
  reply        \* the last call and its result, as in ByteQueue

vars == <<chains, last, totalLen, written, reply>>

Queue == INSTANCE ByteQueue WITH
           head <- IF chains = <<>> THEN written ELSE chains[1].lo,
           tail <- written

Chain == [cap : Nat \ {0}, mis : Nat, lo : Nat, hi : Nat]

TypeOK ==
  /\ chains \in Seq(Chain)
  /\ last \in 0 .. Len(chains)
  /\ totalLen \in Nat
  /\ written \in 0 .. MaxBytes
  /\ reply \in Queue!Reply

Init ==
  /\ chains = <<>>
  /\ last = 0
  /\ totalLen = 0
  /\ written = 0
  /\ reply = [op |-> "remove", n |-> 0, ok |-> FALSE, from |-> 0, to |-> 0]

-----------------------------------------------------------------------------
(***************************************************************************)
(* Chains.                                                                 *)
(***************************************************************************)

Size(c) == c.hi - c.lo
Off(c) == c.mis + Size(c)

\* calculate_actual_capacity(): the first of ChainSize, 2 * ChainSize, ...
\* that is large enough.
Capacity(n) ==
  CHOOSE c \in {ChainSize * 2 ^ k : k \in 0 .. n} :
    c >= n /\ (c > ChainSize => c \div 2 < n)

\* chain_free_space().  Mutant: the bytes before misalign_ count as free.
HasRoomWhenAligned(c, n) == c.cap - Size(c) >= n
HasRoom(c, n) == c.cap - Off(c) >= n

NewChain(n, from) == [cap |-> Capacity(n), mis |-> 0, lo |-> from, hi |-> from]

\* chain = other: the bytes move to the start of a block for n bytes at least.
Aligned(c, n) ==
  [c EXCEPT !.cap = IF Capacity(n) < @ THEN @ ELSE Capacity(n), !.mis = 0]

\* realloc(): it aligns only if it enlarges.
Realloc(c, n) == IF n > c.cap THEN [c EXCEPT !.cap = n, !.mis = 0] ELSE c

\* chain::append(data) and chain::append(chain): n bytes are copied to off_.
Extend(c, n) == [c EXCEPT !.hi = @ + n]
AppendData(c, n) == Extend(Realloc(c, Capacity(Size(c) + n)), n)
AppendCopy(c, n) ==
  Extend(IF HasRoom(c, n) THEN c ELSE Realloc(c, Capacity(n + Size(c))), n)

\* misalign_ += m.  Mutant: it is forgotten.
CutNothing(c, m) == c
CutFront(c, m) == [c EXCEPT !.mis = @ + m, !.lo = @ + m]

-----------------------------------------------------------------------------
(***************************************************************************)
(* A buffer as a value: what appending makes of it.  `end' numbers the     *)
(* last byte it holds.                                                     *)
(***************************************************************************)

Self == [chains |-> chains, last |-> last, total |-> totalLen, end |-> written]

Becomes(b) ==
  /\ chains' = b.chains
  /\ last' = b.last
  /\ totalLen' = b.total
  /\ written' = b.end

\* The last chain is nearly full, or long: it is not worth copying.
NotWorthCopying(c) == c.cap - Off(c) < c.cap \div Fraction \/ Off(c) > MaxExpand

\* lc->next() with more than n bytes: printf may have left it there, empty.
NextServes(b, n) ==
  b.last < Len(b.chains) /\ HasRoom(b.chains[b.last + 1], n + 1)

\* free_trailing_empty_chains() and push_back() of a new chain.
Behind(b, n) == Append(SubSeq(b.chains, 1, b.last), NewChain(n, b.end))

\* pop_back(), and push_back() of a larger copy.
Grown(b, n) ==
  LET lc == b.chains[b.last]
  IN  [b.chains EXCEPT ![Len(b.chains)] = Aligned(lc, Off(lc) + n)]

\* expand_if_needed(n): the list, and the index of the chain with room for n.
\* When nothing is in the buffer the new chain is pushed to the front.
Expand(b, n) ==
  LET lc == b.chains[b.last]
      To(list, i) == [chains |-> list, last |-> i, total |-> b.total, end |-> b.end]
  IN  CASE b.total = 0 -> To(<<NewChain(n, b.end)>> \o b.chains, Len(b.chains) + 1)
        [] b.total # 0 /\ HasRoom(lc, n) -> b
        [] b.total # 0 /\ ~HasRoom(lc, n) /\ ~NotWorthCopying(lc) ->
             To(Grown(b, n), Len(b.chains))
        [] b.total # 0 /\ ~HasRoom(lc, n) /\ NotWorthCopying(lc) ->
             IF NextServes(b, n) THEN To(b.chains, b.last + 1)
                                 ELSE To(Behind(b, n), b.last + 1)

\* n bytes written into the chain that has room for them, which becomes the
\* last: the chain is c then.
Filled(b, n, c) ==
  [chains |-> [b.chains EXCEPT ![b.last] = c], last |-> b.last,
   total |-> b.total + n, end |-> b.end + n]

AppendedData(b, n) ==
  LET e == Expand(b, n) IN Filled(e, n, AppendData(e.chains[e.last], n))

\* The bytes are copied to off_ at once (append(const chain&), append<T>(),
\* append_printf()).
FilledAtOnce(b, n) == Filled(b, n, Extend(b.chains[b.last], n))
AppendedCopy(b, n) == FilledAtOnce(Expand(b, n), n)

BytesAppended(n) ==
  /\ n > 0
  /\ written + n <= MaxBytes
  /\ Queue!Accepted("append", n, written, written + n)

\* append(data, n).
AppendBytes(n) ==
  /\ BytesAppended(n)
  /\ Becomes(AppendedData(Self, n))

AppendValue(n) ==
  /\ BytesAppended(n)
  /\ Becomes(AppendedCopy(Self, n))

\* append(other, n, start), where the first k of the n bytes end a chain of
\* other: each piece is copied to a chain of its own and that one appended.
AppendOther(n) ==
  /\ BytesAppended(n)
  /\ \E k \in 1 .. n - 1 : Becomes(AppendedCopy(AppendedCopy(Self, k), n - k))

(***************************************************************************)
(* append_printf() of n characters: it makes room for Hint, prints, and    *)
(* prints again into a larger chain if they did not fit with their NUL.    *)
(* Left out are an empty string, which leaves an empty chain in an empty   *)
(* buffer, and n >= Capacity(Hint) on an empty buffer, which never returns:*)
(* expand_if_needed pushes a larger chain to the front each time, and gives*)
(* the one at the back.                                                    *)
(***************************************************************************)

PrintRoom(b, n) ==
  LET hinted == Expand(b, Hint)
      retry == Expand([b EXCEPT !.chains = hinted.chains], n + 1)
  IN  IF HasRoom(hinted.chains[hinted.last], n + 1) THEN hinted ELSE retry

Printf(n) ==
  /\ totalLen > 0 \/ n < Capacity(Hint)
  /\ BytesAppended(n)
  /\ Becomes(FilledAtOnce(PrintRoom(Self, n), n))

\* append(chain&&): the chain itself becomes the last of the list.
AppendChain(n) ==
  LET list == IF last # 0 THEN SubSeq(chains, 1, last) ELSE chains
  IN  /\ BytesAppended(n)
      /\ chains' = Append(list, Extend(NewChain(n, written), n))
      /\ last' = Len(chains')
      /\ totalLen' = totalLen + n
      /\ written' = written + n

-----------------------------------------------------------------------------
(***************************************************************************)
(* Taking the bytes up to `end' off the front of a list: its first k       *)
(* chains go, and the next one loses what is left to take.                 *)
(***************************************************************************)

\* Mutant: a chain taken to its last byte stays.
EndsBefore(c, end) == c.hi < end
EndsBy(c, end) == c.hi <= end

Swallows(list, k, end) ==
  /\ \A i \in 1 .. k : EndsBy(list[i], end)
  /\ k < Len(list) => ~EndsBy(list[k + 1], end)

CutAt(list, k, end) ==
  IF k = Len(list)
    THEN <<>>
    ELSE <<CutFront(list[k + 1], end - list[k + 1].lo)>> \o SubSeq(list, k + 2, Len(list))

(***************************************************************************)
(* pullup(n): the first n bytes are gathered in the first chain.           *)
(***************************************************************************)

\* n is signed and total_len_ is not: a negative n is refused as too large, and
\* the line that makes it total_len_ is never reached.
Unsigned(n) == n % 2 ^ Width

\* last_chain_with_data_ when the k chains behind the first were erased
\* (0 if it was one of them), and how pullup sets it.  Mutant: it does not.
LastMoved(k) == IF last > k + 1 \/ k = 0 THEN last - k ELSE 0
LastGathered(k) == IF k + 1 = Len(chains) THEN 1 ELSE LastMoved(k)

PullupRefused(n) ==
  /\ n = 0 \/ Unsigned(n) > totalLen
  /\ Queue!Refused("pullup", n)
  /\ UNCHANGED <<chains, last>>

\* What the caller finds where the returned pointer points to.
PullupReply(n, first) ==
  Queue!Accepted("pullup", n, first.lo,
                 IF Size(first) < n THEN first.hi ELSE first.lo + n)

PullupInPlace(n) ==
  /\ Size(chains[1]) >= n
  /\ PullupReply(n, chains[1])
  /\ UNCHANGED <<chains, last>>

PullupGathers(n) ==
  LET first == chains[1]
      missing == n - Size(first)
      room == IF HasRoom(first, missing) THEN first ELSE Aligned(first, n)
      rest == Tail(chains)
  IN  /\ missing > 0
      /\ \E k \in 0 .. Len(rest) :
           /\ Swallows(rest, k, first.lo + n)
           /\ chains' = <<AppendCopy(room, missing)>> \o CutAt(rest, k, first.lo + n)
           /\ last' = LastGathered(k)
      /\ PullupReply(n, chains'[1])

Pullup(n) ==
  /\ \/ PullupRefused(n)
     \/ /\ n # 0
        /\ Unsigned(n) <= totalLen
        /\ PullupInPlace(n) \/ PullupGathers(n)
  /\ UNCHANGED <<totalLen, written>>

(***************************************************************************)
(* remove(data, n), and drain(n), which throws the bytes away.             *)
(***************************************************************************)

CannotRemove(n) == n = 0 \/ last = 0 \/ totalLen < n

Remove(n) ==
  /\ n >= 0
  /\ \/ /\ CannotRemove(n)
        /\ Queue!Refused("remove", n)
        /\ UNCHANGED <<chains, last, totalLen>>
     \/ /\ ~CannotRemove(n)
        /\ \E k \in 0 .. Len(chains) :
             /\ Swallows(chains, k, chains[1].lo + n)
             /\ chains' = CutAt(chains, k, chains[1].lo + n)
             /\ last' = IF k >= last THEN 0 ELSE last - k
        /\ totalLen' = totalLen - n
        /\ Queue!Accepted("remove", n, chains[1].lo, chains[1].lo + n)
  /\ UNCHANGED written

Appending(n) ==
  AppendBytes(n) \/ AppendValue(n) \/ AppendOther(n) \/ AppendChain(n) \/ Printf(n)

Next == \E n \in Request : Appending(n) \/ Pullup(n) \/ Remove(n)

Spec == Init /\ [][Next]_vars

-----------------------------------------------------------------------------
(***************************************************************************)
(* Properties.                                                             *)
(***************************************************************************)

\* The chains hold the queued bytes without gap, overlap or an empty chain
\* (which the loops of remove and pullup assert); total_len_ counts them, and
\* last_chain_with_data_ is the last chain.
Bookkeeping ==
  /\ TypeOK
  /\ \A i \in 1 .. Len(chains) : chains[i].lo < chains[i].hi
  /\ \A i \in 1 .. Len(chains) - 1 : chains[i].hi = chains[i + 1].lo
  /\ chains # <<>> => chains[Len(chains)].hi = written
  /\ totalLen = IF chains = <<>> THEN 0 ELSE written - chains[1].lo
  /\ last = Len(chains)

\* No copy ever goes past the end of a chain's memory, whatever was cut off
\* its front before.
NoOverflow == \A i \in 1 .. Len(chains) : Off(chains[i]) <= chains[i].cap

\* The buffer is a queue of bytes: each call gives or refuses what ByteQueue
\* does, and pullup's bytes are contiguous.  For lengths that are not negative;
\* of those, see NegativeMeansAll.
IsQueue == Queue!Spec

\* "if size is negative, the function lineratizes the entire buffer"
\* (buffer.h:208): violated.
NegativeMeansAll ==
  reply.op = "pullup" /\ reply.n < 0 /\ totalLen > 0 =>
    reply.ok /\ Size(chains[1]) = totalLen

=============================================================================
