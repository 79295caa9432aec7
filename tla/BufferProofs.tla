---------------------------- MODULE BufferProofs ----------------------------
(***************************************************************************)
(* reactor::buffer keeps its books, never writes past a chain's memory and *)
(* implements ByteQueue, for every length, chain size and limit.           *)
(*                                                                         *)
(* The operations build a list of chains in two steps, of which only the   *)
(* second restores what an operation may rely on: expand_if_needed leaves  *)
(* an empty chain at the end, filled afterwards.  Holds says what a buffer *)
(* between two operations is, Ready what expand_if_needed makes of it.     *)
(***************************************************************************)
EXTENDS BufferReads, NaturalLemmas

\* Where the bytes of a list of chains begin, if they end with byte `end'.
FirstOf(list, end) == IF list = <<>> THEN end ELSE list[1].lo

Fits(list) == \A i \in 1 .. Len(list) : Off(list[i]) <= list[i].cap

Contiguous(list, end) ==
  /\ \A i \in 1 .. Len(list) - 1 : list[i].hi = list[i + 1].lo
  /\ list # <<>> => list[Len(list)].hi = end

\* The list of a buffer between two operations.
Holds(list, end) ==
  /\ list \in Seq(Chain)
  /\ end \in Nat
  /\ \A i \in 1 .. Len(list) : list[i].lo < list[i].hi
  /\ Contiguous(list, end)
  /\ Fits(list)

\* The last chain has room for n bytes and may be empty.
Ready(list, n, end) ==
  /\ list \in Seq(Chain)
  /\ end \in Nat
  /\ list # <<>>
  /\ \A i \in 1 .. Len(list) - 1 : list[i].lo < list[i].hi
  /\ list[Len(list)].lo <= list[Len(list)].hi
  /\ Contiguous(list, end)
  /\ Fits(list)
  /\ HasRoom(list[Len(list)], n)

-----------------------------------------------------------------------------
(***************************************************************************)
(* Chains.                                                                 *)
(***************************************************************************)

LEMMA ChainFields ==
  \A c \in Chain : c.cap \in Nat \ {0} /\ c.mis \in Nat /\ c.lo \in Nat /\ c.hi \in Nat
BY DEF Chain

LEMMA OffIsNat ==
  ASSUME NEW c \in Chain
  PROVE  /\ Off(c) \in Int /\ c.cap \in Nat
         /\ c.lo <= c.hi => Size(c) \in Nat /\ Off(c) \in Nat /\ Size(c) <= Off(c)
BY ChainFields DEF Off, Size

\* calculate_actual_capacity() finds a capacity, and it is large enough.
LEMMA CapacityFits ==
  ASSUME NEW n \in Nat
  PROVE  Capacity(n) \in Nat \ {0} /\ Capacity(n) >= n
<1> DEFINE S == {k \in Nat : ChainSize * 2 ^ k >= n}
<1>1. ASSUME NEW k \in Nat PROVE ChainSize * 2 ^ k \in Nat \ {0} /\ ChainSize * 2 ^ k >= 2 ^ k
  <2>1. \A a, b \in Nat \ {0} : a * b \in Nat \ {0} /\ a * b >= b
    OBVIOUS
  <2>2. 2 ^ k \in Nat \ {0}
    BY PowerNat, PowerExceeds
  <2> QED
    BY <2>1, <2>2, ChainSizeAssumption
<1>2. n \in S
  BY <1>1, PowerNat, PowerExceeds
<1>3. PICK m \in S : \A k \in S : m <= k
  BY <1>2, LeastNumber
<1>4. m \in 0 .. n /\ ChainSize * 2 ^ m >= n
  BY <1>2, <1>3
<1>5. ChainSize * 2 ^ m > ChainSize => (ChainSize * 2 ^ m) \div 2 < n
  <2>1. CASE m = 0
    <3>1. 2 ^ m = 1
      BY <2>1
    <3> QED
      BY <3>1, ChainSizeAssumption
  <2>2. CASE m # 0
    <3>1. m - 1 \in Nat /\ m - 1 \notin S
      BY <1>3, <1>4, <2>2
    <3>2. ChainSize * 2 ^ (m - 1) < n /\ ChainSize * 2 ^ (m - 1) \in Nat
      BY <1>1, <3>1
    <3>3. 2 ^ m = 2 * 2 ^ (m - 1) /\ 2 ^ (m - 1) \in Nat
      <4>1. (m - 1) + 1 = m
        BY <1>4
      <4> QED
        BY <3>1, <4>1, PowerDoubles, PowerNat
    <3>4. \A a, b \in Nat : (a * (2 * b)) \div 2 = a * b
      OBVIOUS
    <3> QED
      BY <3>2, <3>3, <3>4, ChainSizeAssumption
  <2> QED
    BY <2>1, <2>2
<1> DEFINE C == {ChainSize * 2 ^ k : k \in 0 .. n}
           Right(c) == c >= n /\ (c > ChainSize => c \div 2 < n)
<1>6. \E c \in C : Right(c)
  BY <1>4, <1>5
<1>7. Capacity(n) = CHOOSE c \in C : Right(c)
  BY DEF Capacity
<1>8. C \subseteq Nat \ {0}
  BY <1>1
<1> HIDE DEF C, Right
<1>9. Capacity(n) \in C /\ Right(Capacity(n))
  BY <1>6, <1>7, Zenon
<1> QED
  BY <1>8, <1>9 DEF Right

\* A block for n bytes at least, with the bytes at its start.
LEMMA AlignedChain ==
  ASSUME NEW c \in Chain, NEW n \in Nat
  PROVE  /\ Aligned(c, n) \in Chain
         /\ Aligned(c, n).cap >= n /\ Aligned(c, n).mis = 0
         /\ Aligned(c, n).lo = c.lo /\ Aligned(c, n).hi = c.hi
<1>1. Capacity(n) \in Nat \ {0} /\ Capacity(n) >= n
  BY CapacityFits
<1> DEFINE k == IF Capacity(n) < c.cap THEN c.cap ELSE Capacity(n)
<1>2. k \in Nat \ {0} /\ k >= n
  BY <1>1 DEF Chain
<1>3. Aligned(c, n) = [c EXCEPT !.cap = k, !.mis = 0]
  BY DEF Aligned
<1> HIDE DEF k
<1> DEFINE a == [c EXCEPT !.cap = k, !.mis = 0]
<1>4. a \in Chain /\ a.cap = k /\ a.mis = 0 /\ a.lo = c.lo /\ a.hi = c.hi
  BY <1>2 DEF Chain
<1> HIDE DEF a
<1> QED
  BY <1>2, <1>3, <1>4 DEF a

LEMMA ExtendedChain ==
  ASSUME NEW c \in Chain, NEW n \in Nat
  PROVE  /\ Extend(c, n) \in Chain
         /\ Extend(c, n).cap = c.cap /\ Extend(c, n).lo = c.lo /\ Extend(c, n).hi = c.hi + n
         /\ Off(Extend(c, n)) = Off(c) + n
BY DEF Extend, Chain, Off, Size

\* The three ways to copy n bytes behind those of a chain with room for them.
Grows(c, n, d) ==
  d \in Chain /\ d.lo = c.lo /\ d.hi = c.hi + n /\ Off(d) <= d.cap

LEMMA CopyGrows ==
  ASSUME NEW c \in Chain, c.lo <= c.hi, NEW n \in Nat \ {0}, HasRoom(c, n)
  PROVE  Grows(c, n, Extend(c, n)) /\ Grows(c, n, AppendCopy(c, n))
                                   /\ Grows(c, n, AppendData(c, n))
<1>1. Off(c) \in Nat /\ Size(c) \in Nat /\ c.cap \in Nat \ {0} /\ Off(c) + n <= c.cap
  BY DEF HasRoom, Off, Size, Chain
<1>2. Grows(c, n, Extend(c, n))
  BY <1>1, ExtendedChain DEF Grows
<1>3. AppendCopy(c, n) = Extend(c, n)
  BY DEF AppendCopy
<1>4. Grows(c, n, AppendData(c, n))
  <2> DEFINE k == Capacity(Size(c) + n)
  <2>1. k \in Nat \ {0} /\ k >= Size(c) + n
    BY <1>1, CapacityFits
  <2>2. AppendData(c, n) = Extend(Realloc(c, k), n)
    BY DEF AppendData
  <2> HIDE DEF k
  <2>3. CASE k > c.cap
    <3> DEFINE r == [c EXCEPT !.cap = k, !.mis = 0]
    <3>1. AppendData(c, n) = Extend(r, n)
      BY <2>2, <2>3 DEF Realloc
    <3>2. r \in Chain /\ r.lo = c.lo /\ r.hi = c.hi /\ r.cap = k /\ r.mis = 0
      BY <2>1 DEF Chain
    <3>3. Off(r) = Size(c)
      BY <1>1, <3>2 DEF Off, Size
    <3> HIDE DEF r
    <3>4. /\ Extend(r, n) \in Chain /\ Extend(r, n).cap = k
          /\ Extend(r, n).lo = c.lo /\ Extend(r, n).hi = c.hi + n
          /\ Off(Extend(r, n)) = Size(c) + n
      BY <3>2, <3>3, ExtendedChain
    <3> QED
      BY <1>1, <2>1, <3>1, <3>4 DEF Grows
  <2>4. CASE ~(k > c.cap)
    BY <1>2, <2>2, <2>4 DEF Realloc
  <2> QED
    BY <2>3, <2>4
<1> QED
  BY <1>2, <1>3, <1>4

-----------------------------------------------------------------------------
(***************************************************************************)
(* Appending.                                                              *)
(***************************************************************************)

Value == [chains : Seq(Chain), last : Nat, total : Nat, end : Nat]

Counted(b) ==
  /\ b \in Value
  /\ b.last = Len(b.chains)
  /\ b.total = b.end - FirstOf(b.chains, b.end)

IsBuffer(b) == Counted(b) /\ Holds(b.chains, b.end)
IsReady(b, n) == Counted(b) /\ Ready(b.chains, n, b.end)

\* n bytes more than in b, behind the same first one.
MoreThan(b, n, d) ==
  d.end = b.end + n /\ FirstOf(d.chains, d.end) = FirstOf(b.chains, b.end)

\* A chain c behind the chains of a list.
LEMMA BehindReady ==
  ASSUME NEW list, NEW n \in Nat, NEW end, Holds(list, end)
  PROVE  /\ Ready(Append(list, NewChain(n, end)), n, end)
         /\ FirstOf(Append(list, NewChain(n, end)), end) = FirstOf(list, end)
<1> DEFINE c == NewChain(n, end)
           new == Append(list, c)
<1>1. c \in Chain /\ c.lo = end /\ c.hi = end /\ Off(c) = 0 /\ c.cap >= n /\ c.cap \in Nat
  <2>1. Capacity(n) \in Nat \ {0} /\ Capacity(n) >= n /\ end \in Nat
    BY CapacityFits DEF Holds
  <2> QED
    BY <2>1 DEF NewChain, Chain, Off, Size
<1> HIDE DEF c
<1>2. /\ new \in Seq(Chain) /\ Len(new) = Len(list) + 1 /\ new[Len(new)] = c
      /\ \A i \in 1 .. Len(list) : new[i] = list[i]
  BY <1>1 DEF Holds
<1> HIDE DEF new
<1>3. Contiguous(new, end)
  <2>1. ASSUME NEW i \in 1 .. Len(new) - 1 PROVE new[i].hi = new[i + 1].lo
    <3>1. CASE i = Len(list)
      BY <1>1, <1>2, <3>1 DEF Holds, Contiguous
    <3>2. CASE i \in 1 .. Len(list) - 1
      BY <1>2, <3>2 DEF Holds, Contiguous
    <3> QED
      BY <1>2, <3>1, <3>2 DEF Holds
  <2> QED
    BY <1>1, <1>2, <2>1 DEF Contiguous
<1>4. Fits(new)
  <2> SUFFICES ASSUME NEW i \in 1 .. Len(new) PROVE Off(new[i]) <= new[i].cap
    BY DEF Fits
  <2>1. CASE i = Len(new)
    BY <1>1, <1>2, <2>1
  <2>2. CASE i \in 1 .. Len(list)
    BY <1>2, <2>2 DEF Holds, Fits
  <2> QED
    BY <1>2, <2>1, <2>2 DEF Holds
<1>5. HasRoom(c, n)
  BY <1>1 DEF HasRoom
<1>6. Ready(new, n, end)
  BY <1>1, <1>2, <1>3, <1>4, <1>5 DEF Ready, Holds
<1>7. FirstOf(new, end) = FirstOf(list, end)
  BY <1>1, <1>2 DEF FirstOf, Holds
<1> QED
  BY <1>6, <1>7 DEF new, c

\* Another chain with the same bytes in the place of the last one.
LEMMA LastReplaced ==
  ASSUME NEW list, NEW end, NEW n \in Nat, Holds(list, end), list # <<>>,
         NEW d \in Chain, Grows(list[Len(list)], 0, d), HasRoom(d, n)
  PROVE  /\ Ready([list EXCEPT ![Len(list)] = d], n, end)
         /\ Holds([list EXCEPT ![Len(list)] = d], end)
         /\ FirstOf([list EXCEPT ![Len(list)] = d], end) = FirstOf(list, end)
<1> DEFINE new == [list EXCEPT ![Len(list)] = d]
<1>1. /\ new \in Seq(Chain) /\ Len(new) = Len(list) /\ new # <<>> /\ new[Len(list)] = d
      /\ \A i \in 1 .. Len(list) - 1 : new[i] = list[i]
      /\ list[Len(list)] \in Chain
  BY DEF Holds
<1> HIDE DEF new
<1>2. d.lo = list[Len(list)].lo /\ d.hi = list[Len(list)].hi /\ Off(d) <= d.cap /\ d.lo < d.hi
  <2>1. Len(list) \in 1 .. Len(list)
    BY DEF Holds
  <2>2. list[Len(list)].hi \in Nat
    BY <1>1 DEF Chain
  <2> QED
    BY <2>1, <2>2 DEF Grows, Holds
<1>3. Contiguous(new, end)
  BY <1>1, <1>2 DEF Holds, Contiguous
<1>4. Fits(new)
  BY <1>1, <1>2 DEF Holds, Fits
<1>5. d.lo <= d.hi
  BY <1>2 DEF Chain
<1>6. Ready(new, n, end)
  BY <1>1, <1>2, <1>3, <1>4, <1>5 DEF Ready, Holds
<1>7. FirstOf(new, end) = FirstOf(list, end)
  BY <1>1, <1>2 DEF FirstOf, Holds
<1>8. Holds(new, end)
  BY <1>1, <1>2, <1>3, <1>4 DEF Holds
<1> QED
  BY <1>6, <1>7, <1>8 DEF new

\* A buffer as Counted says, from its parts.
LEMMA MakeCounted ==
  ASSUME NEW list \in Seq(Chain), NEW total \in Nat, NEW end \in Nat,
         total = end - FirstOf(list, end)
  PROVE  Counted([chains |-> list, last |-> Len(list), total |-> total, end |-> end])
BY DEF Counted, Value

\* The first byte comes before the last of every chain.
LEMMA FirstIsFirst ==
  ASSUME NEW list, NEW end, Holds(list, end), list # <<>>
  PROVE  list[1].lo \in Nat /\ list[1].lo < end
<1>1. \A i \in 1 .. Len(list) : list[i].lo \in Nat /\ list[i].hi \in Nat /\ list[i].lo < list[i].hi
  <2>1. \A c \in Chain : c.lo \in Nat /\ c.hi \in Nat
    BY DEF Chain
  <2> QED
    BY <2>1 DEF Holds
<1> DEFINE S == {i \in Nat : i + 1 \in 1 .. Len(list) => list[1].lo < list[i + 1].hi}
<1>2. 0 \in S
  BY <1>1
<1>3. ASSUME NEW i \in S PROVE i + 1 \in S
  <2>1. CASE i + 2 \in 1 .. Len(list)
    <3>1. i + 1 \in 1 .. Len(list) - 1 /\ i + 1 \in 1 .. Len(list)
      BY <2>1 DEF Holds
    <3>2. list[i + 1].hi = list[(i + 1) + 1].lo
      BY <3>1 DEF Holds, Contiguous
    <3> QED
      BY <1>1, <2>1, <3>1, <3>2
  <2>2. CASE i + 2 \notin 1 .. Len(list)
    BY <2>2
  <2> QED
    BY <2>1, <2>2
<1>4. Len(list) \in 1 .. Len(list) /\ Len(list) - 1 \in Nat
  BY DEF Holds
<1>5. Len(list) - 1 \in S
  <2> HIDE DEF S
  <2>1. S \subseteq Nat
    BY DEF S
  <2> QED
    BY <1>2, <1>3, <1>4, <2>1, Induction
<1>6. list[1].lo < list[Len(list)].hi
  BY <1>4, <1>5
<1> QED
  BY <1>1, <1>4, <1>6 DEF Holds, Contiguous

LEMMA NothingHeld ==
  ASSUME NEW b, IsBuffer(b)
  PROVE  /\ b.chains \in Seq(Chain) /\ b.last = Len(b.chains)
         /\ b.total \in Nat /\ b.end \in Nat
         /\ b.total = 0 <=> b.chains = <<>>
         /\ b.chains # <<>> => b.last \in 1 .. Len(b.chains)
<1>1. b.chains \in Seq(Chain) /\ b.last = Len(b.chains) /\ b.total \in Nat /\ b.end \in Nat
      /\ b.total = b.end - FirstOf(b.chains, b.end)
  BY DEF IsBuffer, Counted, Value
<1>2. b.chains = <<>> => b.total = 0
  BY <1>1 DEF FirstOf
<1>3. b.chains # <<>> => b.total > 0
  BY <1>1, FirstIsFirst DEF IsBuffer, FirstOf
<1> QED
  BY <1>1, <1>2, <1>3

LEMMA WholeSubSeq ==
  ASSUME NEW list \in Seq(Chain)
  PROVE  SubSeq(list, 1, Len(list)) = list
OBVIOUS

\* A chain was added behind those of the buffer b that is not empty.
PushedBehind(b, n, e) ==
  /\ e.chains = Append(b.chains, NewChain(n, b.end))
  /\ e.last = b.last + 1
  /\ ~HasRoom(b.chains[b.last], n)
  /\ NotWorthCopying(b.chains[b.last])

\* expand_if_needed() of a buffer: unless it was empty or a chain is added
\* behind the others, the result is a buffer again.
LEMMA ExpandReady ==
  ASSUME NEW b, IsBuffer(b), NEW n \in Nat \ {0}
  PROVE  /\ IsReady(Expand(b, n), n)
         /\ MoreThan(b, 0, Expand(b, n))
         /\ b.total # 0 => \/ IsBuffer(Expand(b, n)) /\ Expand(b, n).last = b.last
                           \/ PushedBehind(b, n, Expand(b, n))
<1> DEFINE lc == b.chains[b.last]
           To(list) == [chains |-> list, last |-> Len(list), total |-> b.total, end |-> b.end]
<1>1. /\ b \in Value /\ b.chains \in Seq(Chain) /\ b.last = Len(b.chains)
      /\ b.total \in Nat /\ b.end \in Nat /\ b.total = b.end - FirstOf(b.chains, b.end)
      /\ b.total = 0 <=> b.chains = <<>>
      /\ b.chains # <<>> => b.last \in 1 .. Len(b.chains)
      /\ Holds(b.chains, b.end)
  BY NothingHeld DEF IsBuffer, Counted
<1>2. ASSUME NEW list, Ready(list, n, b.end), FirstOf(list, b.end) = FirstOf(b.chains, b.end)
      PROVE  IsReady(To(list), n) /\ MoreThan(b, 0, To(list))
  BY <1>1, <1>2, MakeCounted DEF IsReady, Ready, MoreThan
<1>3. CASE b.total = 0
  <2> DEFINE new == <<NewChain(n, b.end)>> \o b.chains
  <2>1. b.chains = <<>> /\ Len(b.chains) + 1 = 1
    BY <1>1, <1>3
  <2>2. new = Append(b.chains, NewChain(n, b.end)) /\ Len(new) = 1
    BY <2>1
  <2>3. Expand(b, n) = To(new)
    BY <1>3, <2>1, <2>2 DEF Expand
  <2> HIDE DEF new, To
  <2> QED
    BY <1>1, <1>2, <1>3, <2>2, <2>3, BehindReady
<1>4. CASE b.total # 0 /\ HasRoom(lc, n)
  <2>1. Expand(b, n) = b
    BY <1>4 DEF Expand
  <2>2. Ready(b.chains, n, b.end)
    <3>1. lc.lo <= lc.hi
      <4>1. lc \in Chain /\ lc.lo < lc.hi
        BY <1>1, <1>4 DEF Holds
      <4> QED
        BY <4>1, ChainFields
    <3> QED
      BY <1>1, <1>4, <3>1 DEF Ready, Holds
  <2> QED
    BY <1>1, <2>1, <2>2 DEF IsReady, IsBuffer, MoreThan
<1>5. CASE b.total # 0 /\ ~HasRoom(lc, n) /\ ~NotWorthCopying(lc)
  <2>1. lc \in Chain /\ b.chains # <<>> /\ lc.lo < lc.hi /\ Off(lc) <= lc.cap
    BY <1>1, <1>5 DEF Holds, Fits
  <2>2. Off(lc) \in Nat /\ Size(lc) \in Nat /\ Size(lc) <= Off(lc) /\ lc.hi \in Nat
    <3>1. lc.lo \in Nat /\ lc.hi \in Nat
      BY <2>1, ChainFields
    <3> HIDE DEF lc
    <3> QED
      BY <2>1, <3>1, OffIsNat
  <2> DEFINE d == Aligned(lc, Off(lc) + n)
             new == [b.chains EXCEPT ![Len(b.chains)] = d]
  <2>3. Expand(b, n) = To(new)
    <3>1. Expand(b, n) = [chains |-> Grown(b, n), last |-> Len(b.chains),
                          total |-> b.total, end |-> b.end]
      BY <1>5 DEF Expand
    <3>2. Grown(b, n) = new /\ Len(new) = Len(b.chains)
      BY <1>1 DEF Grown
    <3> QED
      BY <3>1, <3>2
  <2>4. /\ d \in Chain /\ d.cap >= Off(lc) + n /\ d.mis = 0 /\ d.lo = lc.lo /\ d.hi = lc.hi
    <3>1. Off(lc) + n \in Nat
      BY <2>2
    <3> QED
      BY <2>1, <3>1, AlignedChain
  <2>5. Off(d) = Size(lc)
    <3>1. d.mis = 0 /\ Size(d) = Size(lc) /\ Size(lc) \in Nat
      BY <2>2, <2>4 DEF Size
    <3> HIDE DEF d, lc
    <3> QED
      BY <3>1 DEF Off
  <2>6. d.cap \in Nat
    BY <2>4, ChainFields
  <2>7. Grows(lc, 0, d) /\ HasRoom(d, n)
    BY <2>2, <2>4, <2>5, <2>6 DEF Grows, HasRoom
  <2> HIDE DEF d
  <2>8. /\ Ready(new, n, b.end) /\ FirstOf(new, b.end) = FirstOf(b.chains, b.end)
        /\ Holds(new, b.end)
    BY <1>1, <2>1, <2>4, <2>7, LastReplaced
  <2>9. Len(new) = b.last
    BY <1>1
  <2>10. To(new).chains = new /\ To(new).last = Len(new) /\ To(new).end = b.end
    OBVIOUS
  <2> HIDE DEF new, To
  <2> QED
    BY <1>2, <2>3, <2>8, <2>9, <2>10 DEF IsReady, IsBuffer
<1>6. CASE b.total # 0 /\ ~HasRoom(lc, n) /\ NotWorthCopying(lc)
  <2> DEFINE new == Append(b.chains, NewChain(n, b.end))
  <2>1. ~NextServes(b, n)
    BY <1>1 DEF NextServes
  <2>2. Behind(b, n) = new /\ Len(new) = b.last + 1
    BY <1>1, WholeSubSeq DEF Behind
  <2>3. Expand(b, n) = To(new)
    BY <1>6, <2>1, <2>2 DEF Expand
  <2>4. To(new).chains = new /\ To(new).last = Len(new)
    OBVIOUS
  <2>5. PushedBehind(b, n, To(new))
    BY <1>6, <2>2, <2>4 DEF PushedBehind
  <2> HIDE DEF To
  <2> QED
    BY <1>1, <1>2, <2>3, <2>5, BehindReady
<1> QED
  BY <1>3, <1>4, <1>5, <1>6

\* Filling the chain with room restores what an operation may rely on.
LEMMA FillHolds ==
  ASSUME NEW b, NEW n \in Nat \ {0}, IsReady(b, n),
         NEW c, Grows(b.chains[b.last], n, c)
  PROVE  IsBuffer(Filled(b, n, c)) /\ MoreThan(b, n, Filled(b, n, c))
<1> DEFINE new == [b.chains EXCEPT ![b.last] = c]
<1>1. /\ b.chains \in Seq(Chain) /\ b.chains # <<>> /\ b.last = Len(b.chains)
      /\ b.total \in Nat /\ b.end \in Nat /\ b.total = b.end - FirstOf(b.chains, b.end)
      /\ Ready(b.chains, n, b.end)
      /\ b.last \in 1 .. Len(b.chains)
  BY DEF IsReady, Counted, Value, Ready
<1>2. /\ new \in Seq(Chain) /\ Len(new) = Len(b.chains) /\ new # <<>> /\ new[b.last] = c
      /\ \A i \in 1 .. b.last - 1 : new[i] = b.chains[i]
      /\ c \in Chain
  BY <1>1 DEF Grows
<1>3. /\ c.lo \in Nat /\ c.hi \in Nat /\ c.lo < c.hi
      /\ c.lo = b.chains[b.last].lo /\ c.hi = b.end + n /\ Off(c) <= c.cap
  <2>1. /\ b.chains[b.last] \in Chain /\ b.chains[b.last].lo <= b.chains[b.last].hi
        /\ b.chains[b.last].hi = b.end
    BY <1>1 DEF Ready, Contiguous
  <2>2. c.lo = b.chains[b.last].lo /\ c.hi = b.chains[b.last].hi + n
        /\ c \in Chain /\ Off(c) <= c.cap
    BY DEF Grows
  <2> QED
    BY <2>1, <2>2, ChainFields
<1> HIDE DEF new
<1>4. Contiguous(new, b.end + n)
  <2>1. \A i \in 1 .. b.last - 1 : b.chains[i].hi = b.chains[i + 1].lo
    BY <1>1 DEF Ready, Contiguous
  <2>2. ASSUME NEW i \in 1 .. Len(new) - 1 PROVE new[i].hi = new[i + 1].lo
    <3>1. i \in 1 .. b.last - 1 /\ (i + 1 \in 1 .. b.last - 1 \/ i + 1 = b.last)
      BY <1>1, <1>2
    <3>2. new[i] = b.chains[i] /\ new[i + 1].lo = b.chains[i + 1].lo
      BY <1>2, <1>3, <3>1
    <3> QED
      BY <2>1, <3>1, <3>2
  <2>3. new[Len(new)].hi = b.end + n
    BY <1>1, <1>2, <1>3
  <2> QED
    BY <2>2, <2>3 DEF Contiguous
<1>5. Fits(new)
  <2> SUFFICES ASSUME NEW i \in 1 .. Len(new) PROVE Off(new[i]) <= new[i].cap
    BY DEF Fits
  <2>1. CASE i = b.last
    BY <1>2, <1>3, <2>1
  <2>2. CASE i \in 1 .. b.last - 1
    BY <1>1, <1>2, <2>2 DEF Ready, Fits
  <2> QED
    BY <1>1, <1>2, <2>1, <2>2
<1>6. Holds(new, b.end + n)
  BY <1>1, <1>2, <1>3, <1>4, <1>5 DEF Holds, Ready
<1>7. FirstOf(new, b.end + n) = FirstOf(b.chains, b.end)
  BY <1>1, <1>2, <1>3 DEF FirstOf
<1>8. FirstOf(b.chains, b.end) \in Nat
  <2>1. b.chains[1] \in Chain
    BY <1>1
  <2> QED
    BY <1>1, <2>1, ChainFields DEF FirstOf
<1>9. Filled(b, n, c) = [chains |-> new, last |-> Len(new), total |-> b.total + n, end |-> b.end + n]
  BY <1>1, <1>2 DEF Filled, new
<1>10. Counted(Filled(b, n, c))
  BY <1>1, <1>2, <1>7, <1>8, <1>9, MakeCounted
<1> QED
  BY <1>6, <1>7, <1>9, <1>10 DEF IsBuffer, MoreThan

LEMMA ReadyGrows ==
  ASSUME NEW b, NEW n \in Nat \ {0}, IsReady(b, n)
  PROVE  /\ Grows(b.chains[b.last], n, Extend(b.chains[b.last], n))
         /\ Grows(b.chains[b.last], n, AppendData(b.chains[b.last], n))
<1>1. LET c == b.chains[b.last] IN c \in Chain /\ c.lo <= c.hi /\ HasRoom(c, n)
  BY DEF IsReady, Counted, Value, Ready
<1> QED
  BY <1>1, CopyGrows

LEMMA AppendedBuffer ==
  ASSUME NEW b, IsBuffer(b), NEW n \in Nat \ {0}
  PROVE  /\ IsBuffer(AppendedData(b, n)) /\ MoreThan(b, n, AppendedData(b, n))
         /\ IsBuffer(AppendedCopy(b, n)) /\ MoreThan(b, n, AppendedCopy(b, n))
<1> DEFINE e == Expand(b, n)
<1>1. IsReady(e, n) /\ MoreThan(b, 0, e)
  BY ExpandReady
<1>2. b.end \in Nat
  BY NothingHeld
<1> HIDE DEF e
<1>3. ASSUME NEW c, Grows(e.chains[e.last], n, c)
      PROVE  IsBuffer(Filled(e, n, c)) /\ MoreThan(b, n, Filled(e, n, c))
  BY <1>1, <1>2, <1>3, FillHolds DEF MoreThan
<1>4. /\ AppendedData(b, n) = Filled(e, n, AppendData(e.chains[e.last], n))
      /\ AppendedCopy(b, n) = Filled(e, n, Extend(e.chains[e.last], n))
  BY DEF AppendedData, AppendedCopy, FilledAtOnce, e
<1> QED
  BY <1>1, <1>3, <1>4, ReadyGrows

\* Room for n + 1 characters is room for n.
LEMMA LessRoom ==
  ASSUME NEW b, NEW n \in Nat, Counted(b), b.chains # <<>>,
         HasRoom(b.chains[b.last], n + 1)
  PROVE  HasRoom(b.chains[b.last], n)
<1>1. b.chains[b.last].cap \in Int /\ Off(b.chains[b.last]) \in Int
  <2>1. b.chains[b.last] \in Chain
    BY DEF Counted, Value
  <2> QED
    BY <2>1, OffIsNat
<1> QED
  BY <1>1 DEF HasRoom

\* append_printf() has room when it prints for the last time.
LEMMA PrintReady ==
  ASSUME NEW b, IsBuffer(b), NEW n \in Nat \ {0}, b.total # 0 \/ n < Capacity(Hint)
  PROVE  IsReady(PrintRoom(b, n), n) /\ MoreThan(b, 0, PrintRoom(b, n))
<1> DEFINE h == Expand(b, Hint)
           c == [b EXCEPT !.chains = h.chains]
           r == Expand(c, n + 1)
<1>0. Hint \in Nat \ {0} /\ n + 1 \in Nat \ {0}
  BY ChainSizeAssumption
<1>1. /\ IsReady(h, Hint) /\ MoreThan(b, 0, h)
      /\ b.total # 0 => \/ IsBuffer(h) /\ h.last = b.last
                        \/ PushedBehind(b, Hint, h)
  BY <1>0, ExpandReady
<1>2. /\ b \in Value /\ b.chains \in Seq(Chain) /\ b.last = Len(b.chains)
      /\ b.total \in Nat /\ b.end \in Nat /\ b.total = b.end - FirstOf(b.chains, b.end)
      /\ b.total = 0 <=> b.chains = <<>>
      /\ b.chains # <<>> => b.last \in 1 .. Len(b.chains)
      /\ Holds(b.chains, b.end)
  BY NothingHeld DEF IsBuffer, Counted
<1>3. ASSUME NEW x, IsReady(x, n + 1) PROVE IsReady(x, n)
  <2>1. Counted(x) /\ x.chains # <<>> /\ x.last = Len(x.chains)
    BY <1>3 DEF IsReady, Ready, Counted
  <2>2. HasRoom(x.chains[x.last], n)
    BY <1>3, <2>1, LessRoom DEF IsReady, Ready
  <2> QED
    BY <1>3, <2>1, <2>2 DEF IsReady, Ready
<1>4. CASE HasRoom(h.chains[h.last], n + 1)
  <2>1. PrintRoom(b, n) = h
    BY <1>4 DEF PrintRoom
  <2> HIDE DEF h
  <2>2. Counted(h) /\ h.chains # <<>> /\ h.last = Len(h.chains)
    BY <1>1 DEF IsReady, Ready, Counted
  <2>3. HasRoom(h.chains[h.last], n)
    BY <1>4, <2>2, LessRoom
  <2> QED
    BY <1>1, <2>1, <2>2, <2>3 DEF IsReady, Ready
<1>5. CASE ~HasRoom(h.chains[h.last], n + 1)
  <2>1. PrintRoom(b, n) = r
    BY <1>5 DEF PrintRoom
  <2>2. b.total # 0
    <3> SUFFICES ASSUME b.total = 0 PROVE FALSE
      OBVIOUS
    <3>1. b.chains = <<>> /\ b.last = 0
      BY <1>2
    <3>2. h.chains = <<NewChain(Hint, b.end)>> /\ h.last = 1
      BY <3>1 DEF Expand
    <3>3. Capacity(Hint) \in Nat /\ n < Capacity(Hint)
      BY <1>0, CapacityFits
    <3>4. HasRoom(NewChain(Hint, b.end), n + 1)
      BY <1>2, <3>3 DEF HasRoom, NewChain, Off, Size
    <3> QED
      BY <1>5, <3>2, <3>4
  <2>3. c = [chains |-> h.chains, last |-> b.last, total |-> b.total, end |-> b.end]
    BY <1>2 DEF Value
  <2>4. CASE IsBuffer(h) /\ h.last = b.last
    <3> HIDE DEF h
    <3>1. h.total = b.total /\ h.end = b.end /\ h \in Value /\ h.last = b.last
      BY <1>1, <1>2, <2>4 DEF IsBuffer, Counted, MoreThan
    <3>2. c = h
      BY <2>3, <3>1 DEF Value
    <3>3. IsReady(r, n + 1) /\ MoreThan(h, 0, r)
      BY <1>0, <2>4, <3>2, ExpandReady
    <3> HIDE DEF r, c
    <3> QED
      BY <1>1, <1>2, <1>3, <2>1, <3>1, <3>3 DEF MoreThan
  <2>5. CASE PushedBehind(b, Hint, h)
    <3> DEFINE lc == b.chains[b.last]
               empty == NewChain(Hint, b.end)
               new == Append(b.chains, NewChain(n + 1, b.end))
    <3>1. /\ h.chains = Append(b.chains, empty) /\ h.last = b.last + 1
          /\ ~HasRoom(lc, Hint) /\ NotWorthCopying(lc)
      BY <2>5 DEF PushedBehind
    <3> HIDE DEF h
    <3>2. /\ Len(h.chains) = b.last + 1 /\ h.chains[b.last + 1] = empty
          /\ h.chains[b.last] = lc /\ lc \in Chain
      BY <1>2, <2>2, <3>1
    <3>3. Off(empty) = 0 /\ empty.cap \in Nat /\ empty.cap >= Hint
      <4>1. empty.cap = Capacity(Hint) /\ empty.mis = 0 /\ empty.lo = b.end /\ empty.hi = b.end
        BY DEF NewChain
      <4>2. Capacity(Hint) \in Nat /\ Capacity(Hint) >= Hint
        BY <1>0, CapacityFits
      <4> HIDE DEF empty
      <4> QED
        BY <1>2, <4>1, <4>2 DEF Off, Size
    <3>4. lc.cap \in Int /\ Off(lc) \in Int
      BY <3>2, OffIsNat
    <3> HIDE DEF empty, lc
    <3>5. ~HasRoom(empty, n + 1) /\ ~HasRoom(empty, (n + 1) + 1)
      BY <1>5, <3>1, <3>2, <3>3 DEF HasRoom
    <3>6. ~HasRoom(lc, n + 1)
      BY <1>0, <3>1, <3>3, <3>4, <3>5 DEF HasRoom
    <3>7. SubSeq(h.chains, 1, b.last) = b.chains
      <4>1. /\ Len(SubSeq(h.chains, 1, b.last)) = Len(b.chains)
            /\ \A i \in 1 .. Len(b.chains) : SubSeq(h.chains, 1, b.last)[i] = b.chains[i]
            /\ SubSeq(h.chains, 1, b.last) \in Seq(Chain)
        BY <1>1, <1>2, <2>2, <3>1, <3>2 DEF IsReady, Ready
      <4> QED
        BY <1>2, <4>1
    <3>8. Behind(c, n + 1) = new
      BY <2>3, <3>7 DEF Behind
    <3>9. ~NextServes(c, n + 1)
      BY <2>3, <3>2, <3>5 DEF NextServes
    <3>10. Len(new) = b.last + 1
      BY <1>2
    <3>11. r = [chains |-> new, last |-> Len(new), total |-> b.total, end |-> b.end]
      BY <2>2, <2>3, <3>1, <3>2, <3>6, <3>8, <3>9, <3>10 DEF Expand
    <3> HIDE DEF r, c
    <3>12. Ready(new, n + 1, b.end) /\ FirstOf(new, b.end) = FirstOf(b.chains, b.end)
      BY <1>0, <1>2, BehindReady
    <3> HIDE DEF new
    <3>13. Counted(r)
      BY <1>2, <3>11, <3>12, MakeCounted DEF Ready
    <3>14. IsReady(r, n + 1) /\ MoreThan(b, 0, r)
      BY <1>2, <3>11, <3>12, <3>13 DEF IsReady, MoreThan
    <3> QED
      BY <1>3, <2>1, <3>14
  <2> QED
    BY <1>1, <2>2, <2>4, <2>5
<1> QED
  BY <1>4, <1>5

-----------------------------------------------------------------------------
(***************************************************************************)
(* Taking bytes off the front.                                             *)
(***************************************************************************)

LEMMA CutChain ==
  ASSUME NEW c \in Chain, NEW m \in Nat
  PROVE  /\ CutFront(c, m) \in Chain
         /\ CutFront(c, m).lo = c.lo + m /\ CutFront(c, m).hi = c.hi
         /\ CutFront(c, m).cap = c.cap /\ Off(CutFront(c, m)) = Off(c)
<1> DEFINE x == c.mis + m
           y == c.lo + m
           d == [c EXCEPT !.mis = x, !.lo = y]
<1>1. x \in Nat /\ y \in Nat
  BY ChainFields
<1>2. CutFront(c, m) = d
  BY DEF CutFront
<1> HIDE DEF x, y
<1>3. d \in Chain /\ d.lo = y /\ d.hi = c.hi /\ d.cap = c.cap /\ d.mis = x
  BY <1>1 DEF Chain
<1> HIDE DEF d
<1>4. Off(d) = Off(c)
  BY <1>3, ChainFields DEF Off, Size, x, y
<1> QED
  BY <1>2, <1>3, <1>4 DEF y

\* What pullup and remove leave of a list ends where the list did and begins
\* with the first byte not taken.
LEMMA CutHolds ==
  ASSUME NEW list, NEW end, Holds(list, end), NEW k \in 0 .. Len(list),
         NEW upto \in Nat, FirstOf(list, end) <= upto, upto <= end, Swallows(list, k, upto)
  PROVE  /\ Holds(CutAt(list, k, upto), end)
         /\ FirstOf(CutAt(list, k, upto), end) = upto
         /\ Len(CutAt(list, k, upto)) = Len(list) - k
<1>1. /\ list \in Seq(Chain) /\ end \in Nat
      /\ \A i \in 1 .. Len(list) : /\ list[i] \in Chain /\ list[i].lo \in Nat /\ list[i].hi \in Nat
                                   /\ list[i].lo < list[i].hi
      /\ Contiguous(list, end) /\ Fits(list)
  BY ChainFields DEF Holds
<1>2. CASE k = Len(list)
  <2>1. CutAt(list, k, upto) = <<>>
    BY <1>2 DEF CutAt
  <2>2. end = upto
    <3>1. CASE list = <<>>
      BY <1>1, <3>1 DEF FirstOf
    <3>2. CASE list # <<>>
      <4>1. Len(list) \in 1 .. k /\ list[Len(list)].hi = end
        BY <1>1, <1>2, <3>2 DEF Contiguous
      <4>2. list[Len(list)].hi <= upto
        BY <4>1 DEF Swallows, EndsBy
      <4> QED
        BY <1>1, <4>1, <4>2
    <3> QED
      BY <3>1, <3>2
  <2> QED
    BY <1>1, <1>2, <2>1, <2>2 DEF Holds, Contiguous, Fits, FirstOf
<1>3. CASE k # Len(list)
  <2> DEFINE c == CutFront(list[k + 1], upto - list[k + 1].lo)
             rest == SubSeq(list, k + 2, Len(list))
             new == <<c>> \o rest
  <2>1. k + 1 \in 1 .. Len(list) /\ list # <<>>
    BY <1>1, <1>3
  <2>2. list[k + 1].lo <= upto /\ upto < list[k + 1].hi
    <3>1. upto < list[k + 1].hi
      BY <1>1, <2>1 DEF Swallows, EndsBy
    <3>2. CASE k = 0
      BY <2>1, <3>1, <3>2 DEF FirstOf
    <3>3. CASE k # 0
      <4>1. k \in 1 .. Len(list) - 1 /\ k \in 1 .. k
        BY <1>1, <1>3, <3>3
      <4>2. list[k].hi = list[k + 1].lo /\ list[k].hi <= upto
        BY <1>1, <4>1 DEF Contiguous, Swallows, EndsBy
      <4> QED
        BY <3>1, <4>2
    <3> QED
      BY <3>2, <3>3
  <2>3. /\ c \in Chain /\ c.lo = upto /\ c.hi = list[k + 1].hi
        /\ c.lo < c.hi /\ Off(c) <= c.cap
    <3> DEFINE d == list[k + 1]
               m == upto - d.lo
    <3>1. d \in Chain /\ m \in Nat /\ d.lo + m = upto /\ upto < d.hi /\ Off(d) <= d.cap
      BY <1>1, <2>1, <2>2 DEF Fits
    <3>2. c = CutFront(d, m)
      OBVIOUS
    <3> HIDE DEF d, m, c
    <3>3. c \in Chain /\ c.lo = d.lo + m /\ c.hi = d.hi /\ c.cap = d.cap /\ Off(c) = Off(d)
      BY <3>1, <3>2, CutChain
    <3> QED
      BY <3>1, <3>3 DEF d
  <2> HIDE DEF c
  <2>4. /\ new \in Seq(Chain) /\ Len(new) = Len(list) - k /\ new # <<>> /\ new[1] = c
        /\ \A i \in 2 .. Len(new) : new[i] = list[i + k]
    BY <1>1, <2>1, <2>3
  <2> HIDE DEF new
  <2>5. Len(new) \in 1 .. Len(new) /\ \A i \in 2 .. Len(new) : i + k \in 1 .. Len(list)
    BY <1>1, <2>4
  <2>6. \A i \in 1 .. Len(new) : new[i].lo < new[i].hi /\ Off(new[i]) <= new[i].cap
    <3> SUFFICES ASSUME NEW i \in 1 .. Len(new)
                 PROVE  new[i].lo < new[i].hi /\ Off(new[i]) <= new[i].cap
      OBVIOUS
    <3>1. CASE i = 1
      BY <2>3, <2>4, <3>1
    <3>2. CASE i \in 2 .. Len(new)
      BY <1>1, <2>4, <2>5, <3>2 DEF Fits
    <3> QED
      BY <2>5, <3>1, <3>2
  <2>7. \A i \in 1 .. Len(new) : new[i].hi = list[i + k].hi
    <3> SUFFICES ASSUME NEW i \in 1 .. Len(new) PROVE new[i].hi = list[i + k].hi
      OBVIOUS
    <3>1. CASE i = 1
      BY <2>3, <2>4, <3>1
    <3>2. CASE i \in 2 .. Len(new)
      BY <2>4, <3>2
    <3> QED
      BY <2>5, <3>1, <3>2
  <2>8. Contiguous(new, end)
    <3>1. ASSUME NEW i \in 1 .. Len(new) - 1 PROVE new[i].hi = new[i + 1].lo
      <4>1. i + k \in 1 .. Len(list) - 1 /\ i + 1 \in 2 .. Len(new) /\ i \in 1 .. Len(new)
        BY <1>1, <2>4
      <4>2. new[i].hi = list[i + k].hi /\ new[i + 1] = list[(i + 1) + k]
        BY <2>4, <2>7, <4>1
      <4>3. list[i + k].hi = list[(i + k) + 1].lo /\ (i + 1) + k = (i + k) + 1
        BY <1>1, <4>1 DEF Contiguous
      <4> QED
        BY <4>2, <4>3
    <3>2. new[Len(new)].hi = end
      <4>1. Len(new) + k = Len(list)
        BY <1>1, <2>4
      <4>2. new[Len(new)].hi = list[Len(new) + k].hi
        BY <2>5, <2>7
      <4> QED
        BY <1>1, <2>1, <4>1, <4>2 DEF Contiguous
    <3> QED
      BY <3>1, <3>2 DEF Contiguous
  <2>9. CutAt(list, k, upto) = new
    BY <1>3 DEF CutAt, new, c
  <2> QED
    BY <1>1, <2>3, <2>4, <2>6, <2>8, <2>9 DEF Holds, Fits, FirstOf
<1> QED
  BY <1>2, <1>3

-----------------------------------------------------------------------------
(***************************************************************************)
(* The steps.                                                              *)
(***************************************************************************)

\* A negative length is more than any buffer holds.
LEMMA UnsignedLength ==
  ASSUME NEW n \in Request
  PROVE  /\ n \in Int /\ Unsigned(n) \in Int
         /\ n >= 0 => Unsigned(n) = n
         /\ n < 0 => Unsigned(n) > MaxBytes
<1> DEFINE h == 2 ^ (Width - 1)
<1>1. h \in Nat /\ 2 ^ Width = 2 * h
  <2>1. Width - 1 \in Nat /\ (Width - 1) + 1 = Width
    BY WidthAssumption
  <2> QED
    BY <2>1, PowerNat, PowerDoubles
<1>2. n \in -h .. h - 1 /\ MaxBytes \in 0 .. h - 1
  BY RequestAssumption, WidthAssumption
<1> HIDE DEF h
<1>3. \A m \in Nat : m > 0 => \A x \in Int :
        (0 <= x /\ x < m => x % m = x) /\ (-m <= x /\ x < 0 => x % m = x + m)
  OBVIOUS
<1> QED
  BY <1>1, <1>2, <1>3 DEF Unsigned

BufferInv == TypeOK /\ IsBuffer(Self)

LEMMA SelfParts ==
  ASSUME BufferInv
  PROVE  /\ chains \in Seq(Chain) /\ last = Len(chains) /\ totalLen \in Nat
         /\ written \in 0 .. MaxBytes /\ written \in Nat
         /\ totalLen = written - FirstOf(chains, written)
         /\ totalLen = 0 <=> chains = <<>>
         /\ Holds(chains, written)
         /\ FirstOf(chains, written) \in Nat
         /\ chains # <<>> => FirstOf(chains, written) < written /\ chains[1] \in Chain
<1>1. /\ Self.chains = chains /\ Self.last = last /\ Self.total = totalLen
      /\ Self.end = written
  BY DEF Self
<1>2. IsBuffer(Self) /\ written \in 0 .. MaxBytes
  BY DEF BufferInv, TypeOK
<1> HIDE DEF Self
<1>3. /\ chains \in Seq(Chain) /\ last = Len(chains) /\ totalLen \in Nat /\ written \in Nat
      /\ totalLen = 0 <=> chains = <<>>
      /\ totalLen = written - FirstOf(chains, written)
      /\ Holds(chains, written)
  BY <1>1, <1>2, NothingHeld DEF IsBuffer, Counted
<1>4. chains # <<>> => FirstOf(chains, written) \in Nat /\ FirstOf(chains, written) < written
  BY <1>3, FirstIsFirst DEF FirstOf
<1>5. chains = <<>> => FirstOf(chains, written) = written
  BY DEF FirstOf
<1> QED
  BY <1>2, <1>3, <1>4, <1>5

\* What a step must show of the variables it sets.
LEMMA MakeBuffer ==
  ASSUME Holds(chains', written'), last' = Len(chains'), totalLen' \in Nat,
         totalLen' = written' - FirstOf(chains', written')
  PROVE  IsBuffer(Self)'
<1>1. chains' \in Seq(Chain) /\ written' \in Nat
  BY DEF Holds
<1>2. Counted([chains |-> chains', last |-> Len(chains'), total |-> totalLen', end |-> written'])
  BY <1>1, MakeCounted
<1> QED
  BY <1>2 DEF IsBuffer, Self

LEMMA AppendReplaced ==
  ASSUME NEW list \in Seq(Chain), NEW c \in Chain, NEW d \in Chain
  PROVE  [Append(list, c) EXCEPT ![Len(list) + 1] = d] = Append(list, d)
<1> DEFINE v == [Append(list, c) EXCEPT ![Len(list) + 1] = d]
           w == Append(list, d)
<1>1. v \in Seq(Chain) /\ w \in Seq(Chain) /\ Len(v) = Len(w) /\ Len(w) = Len(list) + 1
  OBVIOUS
<1>2. ASSUME NEW i \in 1 .. Len(list) + 1 PROVE v[i] = w[i]
  <2>0. Append(list, c) \in Seq(Chain) /\ i \in DOMAIN Append(list, c)
    OBVIOUS
  <2>1. CASE i = Len(list) + 1
    BY <2>0, <2>1
  <2>2. CASE i \in 1 .. Len(list)
    <3>1. i # Len(list) + 1 /\ Append(list, c)[i] = list[i] /\ w[i] = list[i]
      BY <2>2
    <3>2. v[i] = Append(list, c)[i]
      BY <2>0, <3>1
    <3> QED
      BY <3>1, <3>2
  <2> QED
    BY <2>1, <2>2
<1> HIDE DEF v, w
<1>3. v = w
  BY <1>1, <1>2
<1> QED
  BY <1>3 DEF v, w

\* A step of Buffer that appends n bytes is one of ByteQueue.
LEMMA AppendStep ==
  ASSUME BufferInv, NEW n \in Request, Appending(n)
  PROVE  BufferInv' /\ Queue!Append(n)
<1>1. BytesAppended(n)
  BY DEF Appending, AppendBytes, AppendValue, AppendOther, AppendChain, Printf
<1>2. n \in Nat \ {0} /\ written + n <= MaxBytes
  BY <1>1, UnsignedLength DEF BytesAppended
<1>3. IsBuffer(Self) /\ Self.chains = chains /\ Self.end = written /\ Self.total = totalLen
  BY DEF BufferInv, Self
<1>4. /\ chains \in Seq(Chain) /\ last = Len(chains) /\ totalLen \in Nat /\ written \in Nat
      /\ totalLen = written - FirstOf(chains, written) /\ Holds(chains, written)
      /\ FirstOf(chains, written) \in Nat
      /\ totalLen = 0 <=> chains = <<>>
  BY SelfParts
<1> DEFINE Done == /\ IsBuffer(Self)'
                   /\ written' = written + n
                   /\ FirstOf(chains, written)' = FirstOf(chains, written)
<1>5. ASSUME NEW d, IsBuffer(d), MoreThan(Self, n, d), Becomes(d) PROVE Done
  <2>1. chains' = d.chains /\ last' = d.last /\ totalLen' = d.total /\ written' = d.end
    BY <1>5 DEF Becomes
  <2> HIDE DEF Self
  <2>2. /\ Holds(chains', written') /\ last' = Len(chains') /\ totalLen' \in Nat
        /\ totalLen' = written' - FirstOf(chains', written')
    BY <1>5, <2>1 DEF IsBuffer, Counted, Value
  <2>3. IsBuffer(Self)'
    BY <2>2, MakeBuffer
  <2> QED
    BY <1>3, <1>5, <2>1, <2>3 DEF MoreThan
<1>6. ASSUME AppendBytes(n) \/ AppendValue(n) PROVE Done
  BY <1>2, <1>3, <1>5, <1>6, AppendedBuffer DEF AppendBytes, AppendValue
<1>7. ASSUME AppendOther(n) PROVE Done
  <2>1. PICK k \in 1 .. n - 1 : Becomes(AppendedCopy(AppendedCopy(Self, k), n - k))
    BY <1>7 DEF AppendOther
  <2>2. k \in Nat \ {0} /\ n - k \in Nat \ {0}
    BY <1>2
  <2> DEFINE b == AppendedCopy(Self, k)
             d == AppendedCopy(b, n - k)
  <2>3. IsBuffer(b) /\ MoreThan(Self, k, b)
    BY <1>3, <2>2, AppendedBuffer
  <2> HIDE DEF b
  <2>4. IsBuffer(d) /\ MoreThan(b, n - k, d)
    BY <2>2, <2>3, AppendedBuffer
  <2> HIDE DEF d
  <2>5. MoreThan(Self, n, d)
    <3>1. d.end = (written + k) + (n - k)
      BY <1>3, <2>3, <2>4 DEF MoreThan
    <3>2. d.end = written + n
      BY <1>2, <1>4, <2>2, <3>1
    <3> QED
      BY <1>3, <2>3, <2>4, <3>2 DEF MoreThan
  <2> QED
    BY <1>5, <2>1, <2>4, <2>5 DEF b, d
<1>8. ASSUME AppendChain(n) PROVE Done
  <2> DEFINE c == NewChain(n, written)
             b == [chains |-> Append(chains, c), last |-> Len(chains) + 1,
                   total |-> totalLen, end |-> written]
             d == Filled(b, n, Extend(b.chains[b.last], n))
  <2>1. Ready(b.chains, n, b.end) /\ FirstOf(b.chains, b.end) = FirstOf(chains, written)
    BY <1>2, <1>4, BehindReady
  <2>2. Len(b.chains) = Len(chains) + 1 /\ b.chains[b.last] = c /\ b.last = Len(b.chains)
    BY <1>4
  <2>3. IsReady(b, n)
    <3>1. b.chains \in Seq(Chain)
      BY <2>1 DEF Ready
    <3>2. Counted(b)
      BY <1>4, <2>1, <2>2, <3>1, MakeCounted
    <3> QED
      BY <2>1, <3>2 DEF IsReady
  <2>4. IsBuffer(d) /\ MoreThan(b, n, d)
    <3> HIDE DEF b
    <3> QED
      BY <1>2, <2>3, ReadyGrows, FillHolds
  <2>5. MoreThan(Self, n, d)
    BY <1>3, <2>1, <2>4 DEF MoreThan
  <2>6. Becomes(d)
    <3>1. (IF last # 0 THEN SubSeq(chains, 1, last) ELSE chains) = chains
      BY <1>4, WholeSubSeq
    <3>2. chains' = Append(chains, Extend(c, n))
      BY <1>8, <3>1 DEF AppendChain
    <3>3. d.chains = [Append(chains, c) EXCEPT ![Len(chains) + 1] = Extend(c, n)]
      BY <2>2 DEF Filled
    <3>4. c \in Chain /\ Extend(c, n) \in Chain
      <4>1. b.chains[b.last] \in Chain
        BY <2>1, <2>2 DEF Ready
      <4> QED
        BY <1>2, <2>2, <4>1, ExtendedChain
    <3> HIDE DEF c, d
    <3>5. d.chains = Append(chains, Extend(c, n))
      BY <1>4, <3>3, <3>4, AppendReplaced
    <3>6. Len(chains') = Len(chains) + 1
      BY <1>4, <3>2, <3>4
    <3>7. d.last = Len(chains) + 1 /\ d.total = totalLen + n /\ d.end = written + n
      BY DEF Filled, d
    <3> QED
      BY <1>8, <3>2, <3>5, <3>6, <3>7 DEF AppendChain, Becomes
  <2> QED
    BY <1>5, <2>4, <2>5, <2>6
<1>9. ASSUME Printf(n) PROVE Done
  <2> DEFINE b == PrintRoom(Self, n)
             d == Filled(b, n, Extend(b.chains[b.last], n))
  <2>1. Becomes(d) /\ (totalLen > 0 \/ n < Capacity(Hint))
    BY <1>9 DEF Printf, FilledAtOnce
  <2>2. IsReady(b, n) /\ MoreThan(Self, 0, b)
    BY <1>2, <1>3, <2>1, PrintReady
  <2> HIDE DEF b
  <2>3. IsBuffer(d) /\ MoreThan(b, n, d)
    BY <1>2, <2>2, ReadyGrows, FillHolds
  <2> HIDE DEF d
  <2>4. MoreThan(Self, n, d)
    BY <1>3, <1>4, <2>2, <2>3 DEF MoreThan
  <2> QED
    BY <1>5, <2>1, <2>3, <2>4
<1>10. Done
  BY <1>6, <1>7, <1>8, <1>9 DEF Appending
<1>11. Queue!Append(n)
  BY <1>1, <1>2, <1>10 DEF Queue!Append, BytesAppended, FirstOf, Queue!Accepted
<1>12. TypeOK'
  <2>1. /\ chains' \in Seq(Chain) /\ last' \in 0 .. Len(chains') /\ totalLen' \in Nat
    <3>1. IsBuffer([chains |-> chains', last |-> last', total |-> totalLen', end |-> written'])
      BY <1>10 DEF Self
    <3> QED
      BY <3>1, NothingHeld
  <2>2. written' \in 0 .. MaxBytes
    BY <1>2, <1>4, <1>10, WidthAssumption
  <2>3. reply' \in Queue!Reply
    BY <1>1, <1>2, <1>4 DEF BytesAppended, Queue!Accepted, Queue!Reply
  <2> QED
    BY <2>1, <2>2, <2>3 DEF TypeOK
<1> QED
  BY <1>10, <1>11, <1>12 DEF BufferInv

\* ByteQueue sees the first byte and the last.
LEMMA HeldIs ==
  ASSUME BufferInv, NEW n \in Int
  PROVE  Queue!Held(n) <=> n > 0 /\ n <= totalLen
<1>1. written \in Nat /\ FirstOf(chains, written) \in Nat
      /\ totalLen = written - FirstOf(chains, written)
  BY SelfParts
<1> QED
  BY <1>1 DEF Queue!Held, FirstOf

LEMMA ReplyTyped ==
  ASSUME NEW op \in {"append", "pullup", "remove", "read_line"}, NEW n \in Request,
         NEW from \in Nat, NEW to \in Nat,
         Queue!Refused(op, n) \/ Queue!Accepted(op, n, from, to)
  PROVE  reply' \in Queue!Reply
<1>1. ASSUME NEW ok \in BOOLEAN, NEW x \in Nat, NEW y \in Nat
      PROVE  [op |-> op, n |-> n, ok |-> ok, from |-> x, to |-> y] \in Queue!Reply
  BY DEF Queue!Reply
<1> QED
  BY <1>1 DEF Queue!Refused, Queue!Accepted

\* remove() and drain().
LEMMA RemoveStep ==
  ASSUME BufferInv, NEW n \in Request, Remove(n)
  PROVE  BufferInv' /\ Queue!Remove(n)
<1>1. /\ chains \in Seq(Chain) /\ last = Len(chains) /\ totalLen \in Nat
      /\ written \in 0 .. MaxBytes /\ written \in Nat
      /\ totalLen = written - FirstOf(chains, written)
      /\ totalLen = 0 <=> chains = <<>>
      /\ Holds(chains, written) /\ FirstOf(chains, written) \in Nat
  BY SelfParts
<1>2. n \in Nat /\ written' = written
  BY UnsignedLength DEF Remove
<1>3. CASE /\ CannotRemove(n) /\ Queue!Refused("remove", n)
           /\ UNCHANGED <<chains, last, totalLen>>
  <2>1. ~Queue!Held(n)
    BY <1>1, <1>2, <1>3, HeldIs DEF CannotRemove
  <2>2. Queue!Remove(n)
    BY <1>2, <1>3, <2>1 DEF Queue!Remove
  <2>3. reply' \in Queue!Reply
    BY <1>3, ReplyTyped
  <2>4. IsBuffer(Self)'
    BY <1>1, <1>2, <1>3, MakeBuffer
  <2>5. TypeOK'
    BY <1>1, <1>2, <1>3, <2>3 DEF TypeOK
  <2> QED
    BY <2>2, <2>4, <2>5 DEF BufferInv
<1>4. ASSUME ~CannotRemove(n),
             NEW k \in 0 .. Len(chains),
             Swallows(chains, k, chains[1].lo + n),
             chains' = CutAt(chains, k, chains[1].lo + n),
             last' = IF k >= last THEN 0 ELSE last - k,
             totalLen' = totalLen - n,
             Queue!Accepted("remove", n, chains[1].lo, chains[1].lo + n)
      PROVE  BufferInv' /\ Queue!Remove(n)
  <2> DEFINE upto == chains[1].lo + n
  <2>1. /\ chains # <<>> /\ n > 0 /\ n <= totalLen
        /\ FirstOf(chains, written) = chains[1].lo
    BY <1>1, <1>2, <1>4 DEF CannotRemove, FirstOf
  <2>2. upto \in Nat /\ FirstOf(chains, written) <= upto /\ upto <= written
    BY <1>1, <1>2, <2>1
  <2>3. Queue!Held(n)
    BY <1>2, <2>1, HeldIs
  <2> HIDE DEF upto
  <2>4. /\ Holds(chains', written) /\ FirstOf(chains', written) = upto
        /\ Len(chains') = Len(chains) - k
    <3>1. Swallows(chains, k, upto) /\ chains' = CutAt(chains, k, upto)
      BY <1>4 DEF upto
    <3>2. Holds(chains, written) /\ k \in 0 .. Len(chains) /\ written \in Nat
      BY <1>1, <1>4
    <3> HIDE DEF upto
    <3> QED
      BY <2>2, <3>1, <3>2, CutHolds
  <2>5. last' = Len(chains')
    BY <1>1, <1>4, <2>4
  <2>6. totalLen' \in Nat /\ totalLen' = written - FirstOf(chains', written)
    <3>1. totalLen' = totalLen - n /\ upto = FirstOf(chains, written) + n
      BY <1>4, <2>1 DEF upto
    <3>2. n <= totalLen /\ FirstOf(chains', written) = upto
      BY <2>1, <2>4
    <3>3. /\ totalLen \in Nat /\ written \in Nat /\ FirstOf(chains, written) \in Nat
          /\ totalLen = written - FirstOf(chains, written)
      BY <1>1
    <3> QED
      BY <1>2, <3>1, <3>2, <3>3
  <2>7. IsBuffer(Self)'
    BY <1>2, <2>4, <2>5, <2>6, MakeBuffer
  <2>8. reply' \in Queue!Reply
    BY <1>1, <1>4, <2>1, <2>2, ReplyTyped DEF upto
  <2>9. TypeOK'
    BY <1>1, <1>2, <2>4, <2>5, <2>6, <2>8 DEF TypeOK, Holds
  <2>10. Queue!Remove(n)
    BY <1>2, <1>4, <2>1, <2>3, <2>4 DEF Queue!Remove, FirstOf, upto
  <2> QED
    BY <2>7, <2>9, <2>10 DEF BufferInv
<1> QED
  BY <1>3, <1>4 DEF Remove

\* What n bytes gathered in the first chain make of it.
LEMMA GatheredChain ==
  ASSUME NEW c \in Chain, c.lo < c.hi, Off(c) <= c.cap, NEW n \in Nat, n - Size(c) > 0
  PROVE  LET missing == n - Size(c)
             d == AppendCopy(IF HasRoom(c, missing) THEN c ELSE Aligned(c, n), missing)
         IN  d \in Chain /\ d.lo = c.lo /\ d.hi = c.lo + n /\ Off(d) <= d.cap
<1> DEFINE missing == n - Size(c)
           room == IF HasRoom(c, missing) THEN c ELSE Aligned(c, n)
<1>1. Size(c) \in Nat /\ c.lo \in Nat /\ c.hi \in Nat /\ missing \in Nat \ {0}
      /\ c.hi + missing = c.lo + n
  BY ChainFields, OffIsNat DEF Size
<1>2. room \in Chain /\ room.lo = c.lo /\ room.hi = c.hi /\ HasRoom(room, missing)
  <2>1. CASE HasRoom(c, missing)
    BY <2>1
  <2>2. CASE ~HasRoom(c, missing)
    <3> DEFINE a == Aligned(c, n)
    <3>1. a \in Chain /\ a.cap >= n /\ a.mis = 0 /\ a.lo = c.lo /\ a.hi = c.hi
      BY AlignedChain
    <3>2. a.cap \in Nat
      BY <3>1, ChainFields
    <3> HIDE DEF a
    <3>3. Off(a) = Size(c)
      BY <1>1, <3>1 DEF Off, Size
    <3>4. HasRoom(a, missing)
      BY <1>1, <3>1, <3>2, <3>3 DEF HasRoom
    <3> QED
      BY <2>2, <3>1, <3>4 DEF a
  <2> QED
    BY <2>1, <2>2
<1> HIDE DEF room, missing
<1>3. Grows(room, missing, AppendCopy(room, missing))
  BY <1>1, <1>2, CopyGrows
<1>4. LET d == AppendCopy(room, missing)
      IN  d \in Chain /\ d.lo = c.lo /\ d.hi = c.lo + n /\ Off(d) <= d.cap
  BY <1>1, <1>2, <1>3 DEF Grows
<1> QED
  BY <1>4 DEF room, missing

LEMMA NoElements ==
  ASSUME NEW S, NEW s \in Seq(S)
  PROVE  Len(s) \in Nat /\ (s = <<>> <=> Len(s) = 0)
OBVIOUS

\* The first chain holds, and so do the others.
LEMMA SplitHolds ==
  ASSUME NEW list, NEW end, Holds(list, end), list # <<>>
  PROVE  /\ list[1] \in Chain /\ list[1].lo < list[1].hi /\ Off(list[1]) <= list[1].cap
         /\ Holds(Tail(list), end) /\ Len(Tail(list)) = Len(list) - 1
         /\ FirstOf(Tail(list), end) = list[1].hi
<1> DEFINE rest == Tail(list)
<1>1. /\ list \in Seq(Chain) /\ end \in Nat
      /\ \A i \in 1 .. Len(list) : list[i].lo < list[i].hi
      /\ Contiguous(list, end) /\ Fits(list)
  BY DEF Holds
<1>2. /\ rest \in Seq(Chain) /\ Len(rest) = Len(list) - 1
      /\ Len(list) \in Nat /\ Len(list) >= 1
      /\ \A i \in 1 .. Len(rest) : rest[i] = list[i + 1]
      /\ rest = <<>> <=> Len(list) = 1
  <2>1. /\ rest \in Seq(Chain) /\ Len(rest) = Len(list) - 1
        /\ \A i \in 1 .. Len(rest) : rest[i] = list[i + 1]
    BY <1>1
  <2> HIDE DEF rest
  <2>2. Len(list) \in Nat /\ Len(list) >= 1
    BY <1>1, NoElements
  <2>3. Len(rest) \in Nat /\ (rest = <<>> <=> Len(rest) = 0)
    BY <2>1, NoElements
  <2> QED
    BY <2>1, <2>2, <2>3
<1> HIDE DEF rest
<1>3. Contiguous(rest, end)
  <2>1. /\ \A i \in 1 .. Len(list) - 1 : list[i].hi = list[i + 1].lo
        /\ list[Len(list)].hi = end
    BY <1>1 DEF Contiguous
  <2>2. ASSUME NEW i \in 1 .. Len(rest) - 1 PROVE rest[i].hi = rest[i + 1].lo
    <3>1. i + 1 \in 1 .. Len(list) - 1 /\ i \in 1 .. Len(rest) /\ i + 1 \in 1 .. Len(rest)
      BY <1>2
    <3> QED
      BY <1>2, <2>1, <3>1
  <2>3. ASSUME rest # <<>> PROVE rest[Len(rest)].hi = end
    <3>1. Len(rest) \in 1 .. Len(rest) /\ Len(rest) + 1 = Len(list)
      BY <1>2, <2>3
    <3> QED
      BY <1>2, <2>1, <3>1
  <2> QED
    BY <2>2, <2>3 DEF Contiguous
<1>4. Fits(rest)
  BY <1>1, <1>2 DEF Fits
<1>5. Holds(rest, end)
  BY <1>1, <1>2, <1>3, <1>4 DEF Holds
<1>6. FirstOf(rest, end) = list[1].hi
  <2>1. CASE rest = <<>>
    BY <1>1, <1>2, <2>1 DEF FirstOf, Contiguous
  <2>2. CASE rest # <<>>
    <3>1. 1 \in 1 .. Len(rest) /\ 1 \in 1 .. Len(list) - 1
      BY <1>2, <2>2
    <3>2. rest[1] = list[1 + 1]
      BY <1>2, <3>1
    <3>3. list[1].hi = list[1 + 1].lo
      BY <1>1, <3>1 DEF Contiguous
    <3> QED
      BY <2>2, <3>2, <3>3 DEF FirstOf
  <2> QED
    BY <2>1, <2>2
<1> QED
  BY <1>1, <1>2, <1>5, <1>6 DEF Fits, rest

\* A chain in front of a list that begins where the chain ends.
LEMMA FrontHolds ==
  ASSUME NEW list, NEW end, Holds(list, end), NEW c \in Chain, c.lo < c.hi,
         Off(c) <= c.cap, FirstOf(list, end) = c.hi
  PROVE  /\ Holds(<<c>> \o list, end) /\ FirstOf(<<c>> \o list, end) = c.lo
         /\ Len(<<c>> \o list) = Len(list) + 1 /\ (<<c>> \o list)[1] = c
<1> DEFINE new == <<c>> \o list
<1>1. /\ list \in Seq(Chain) /\ end \in Nat
      /\ \A i \in 1 .. Len(list) : list[i].lo < list[i].hi
      /\ Contiguous(list, end) /\ Fits(list)
  BY DEF Holds
<1>2. /\ new \in Seq(Chain) /\ Len(new) = Len(list) + 1 /\ new[1] = c /\ new # <<>>
      /\ \A i \in 2 .. Len(new) : new[i] = list[i - 1]
  BY <1>1
<1> HIDE DEF new
<1>3. Contiguous(new, end)
  <2>1. ASSUME NEW i \in 1 .. Len(new) - 1 PROVE new[i].hi = new[i + 1].lo
    <3>1. CASE i = 1
      BY <1>1, <1>2, <3>1 DEF FirstOf
    <3>2. CASE i # 1
      <4>1. i \in 2 .. Len(new) /\ i + 1 \in 2 .. Len(new) /\ i - 1 \in 1 .. Len(list) - 1
            /\ (i - 1) + 1 = (i + 1) - 1
        BY <1>1, <1>2, <3>2
      <4> QED
        BY <1>1, <1>2, <4>1 DEF Contiguous
    <3> QED
      BY <3>1, <3>2
  <2>2. new[Len(new)].hi = end
    <3>1. CASE list = <<>>
      BY <1>1, <1>2, <3>1 DEF FirstOf
    <3>2. CASE list # <<>>
      BY <1>1, <1>2, <3>2 DEF Contiguous
    <3> QED
      BY <3>1, <3>2
  <2> QED
    BY <2>1, <2>2 DEF Contiguous
<1>4. \A i \in 1 .. Len(new) : new[i].lo < new[i].hi /\ Off(new[i]) <= new[i].cap
  <2> SUFFICES ASSUME NEW i \in 1 .. Len(new)
               PROVE  new[i].lo < new[i].hi /\ Off(new[i]) <= new[i].cap
    OBVIOUS
  <2>1. CASE i = 1
    BY <1>2, <2>1
  <2>2. CASE i # 1
    <3>1. i \in 2 .. Len(new) /\ i - 1 \in 1 .. Len(list)
      BY <1>1, <1>2, <2>2
    <3> QED
      BY <1>1, <1>2, <3>1 DEF Fits
  <2> QED
    BY <2>1, <2>2
<1>5. Holds(new, end) /\ FirstOf(new, end) = c.lo
  BY <1>1, <1>2, <1>3, <1>4 DEF Holds, Fits, FirstOf
<1> QED
  BY <1>2, <1>5 DEF new

\* pullup(): what it refuses ByteQueue refuses, and what it gathers is what
\* the caller asked for, of a length that is not negative.
LEMMA PullupStep ==
  ASSUME BufferInv, NEW n \in Request, Pullup(n)
  PROVE  BufferInv' /\ (n >= 0 => Queue!Pullup(n))
<1>1. /\ chains \in Seq(Chain) /\ last = Len(chains) /\ totalLen \in Nat
      /\ written \in 0 .. MaxBytes /\ written \in Nat
      /\ totalLen = written - FirstOf(chains, written)
      /\ totalLen = 0 <=> chains = <<>>
      /\ Holds(chains, written) /\ FirstOf(chains, written) \in Nat
  BY SelfParts
<1>2. totalLen <= MaxBytes /\ MaxBytes \in Nat
  BY <1>1, WidthAssumption
<1>3. totalLen' = totalLen /\ written' = written
  BY DEF Pullup
<1> DEFINE Done == /\ Holds(chains', written) /\ last' = Len(chains')
                   /\ FirstOf(chains', written) = FirstOf(chains, written)
<1>4. ASSUME Done, reply' \in Queue!Reply PROVE BufferInv'
  <2>1. IsBuffer(Self)'
    BY <1>1, <1>3, <1>4, MakeBuffer
  <2>2. TypeOK'
    BY <1>1, <1>3, <1>4 DEF TypeOK, Holds
  <2> QED
    BY <2>1, <2>2 DEF BufferInv
<1>5. CASE PullupRefused(n)
  <2>1. n \in Int /\ (n > 0 => n > totalLen)
    BY <1>5, UnsignedLength DEF PullupRefused
  <2>2. ~Queue!Held(n)
    BY <1>1, <2>1, HeldIs
  <2>3. UNCHANGED <<chains, last>> /\ Queue!Refused("pullup", n)
    BY <1>5 DEF PullupRefused
  <2>4. Done /\ reply' \in Queue!Reply
    BY <1>1, <2>3, ReplyTyped
  <2>5. n >= 0 => Queue!Pullup(n)
    BY <1>3, <2>1, <2>2, <2>3 DEF Queue!Pullup
  <2> QED
    BY <1>4, <2>4, <2>5
<1>6. ASSUME n # 0, Unsigned(n) <= totalLen, PullupInPlace(n) \/ PullupGathers(n)
      PROVE  BufferInv' /\ Queue!Pullup(n)
  <2> DEFINE first == chains[1]
             upto == first.lo + n
  <2>1. n \in Nat \ {0} /\ n <= totalLen
    <3> DEFINE u == Unsigned(n)
    <3>1. /\ n \in Int /\ u \in Int /\ u <= totalLen
          /\ (n < 0 => u > MaxBytes) /\ (n >= 0 => u = n)
      BY <1>6, UnsignedLength
    <3> HIDE DEF u
    <3> QED
      BY <1>1, <1>2, <1>6, <3>1
  <2>2. chains # <<>> /\ first.lo = FirstOf(chains, written) /\ Queue!Held(n)
    BY <1>1, <2>1, HeldIs DEF FirstOf
  <2>3. /\ first \in Chain /\ first.lo < first.hi /\ Off(first) <= first.cap
        /\ Holds(Tail(chains), written) /\ Len(Tail(chains)) = Len(chains) - 1
        /\ FirstOf(Tail(chains), written) = first.hi
    BY <1>1, <2>2, SplitHolds
  <2>4. first.lo \in Nat /\ first.hi \in Nat /\ upto \in Nat /\ upto <= written
    BY <1>1, <2>1, <2>2, <2>3, ChainFields
  \* The bytes of the first chain are enough for the reply in both cases.
  <2>5. ASSUME NEW c \in Chain, c.lo = first.lo, Size(c) >= n, PullupReply(n, c)
        PROVE  Queue!Accepted("pullup", n, first.lo, upto)
    <3>1. Size(c) \in Int
      BY ChainFields DEF Size
    <3> QED
      BY <2>1, <2>5, <3>1 DEF PullupReply
  <2>6. CASE PullupInPlace(n)
    <3>1. Queue!Accepted("pullup", n, first.lo, upto)
      BY <2>3, <2>5, <2>6 DEF PullupInPlace
    <3>2. Done
      BY <1>1, <2>6 DEF PullupInPlace
    <3>3. reply' \in Queue!Reply
      <4> HIDE DEF upto, first
      <4> QED
        BY <2>4, <3>1, ReplyTyped
    <3>4. Queue!Pullup(n)
      BY <1>3, <2>1, <2>2, <2>6, <3>1 DEF Queue!Pullup, FirstOf, PullupInPlace
    <3> QED
      BY <1>4, <3>2, <3>3, <3>4
  <2>7. CASE PullupGathers(n)
    <3> DEFINE rest == Tail(chains)
               missing == n - Size(first)
               c == AppendCopy(IF HasRoom(first, missing) THEN first ELSE Aligned(first, n),
                               missing)
    <3>1. PICK k \in 0 .. Len(rest) :
            /\ Swallows(rest, k, upto)
            /\ chains' = <<c>> \o CutAt(rest, k, upto)
            /\ last' = LastGathered(k)
      BY <2>7 DEF PullupGathers
    <3>2. missing > 0 /\ PullupReply(n, chains'[1])
      BY <2>7 DEF PullupGathers
    <3>3. c \in Chain /\ c.lo = first.lo /\ c.hi = upto /\ Off(c) <= c.cap
      BY <2>1, <2>3, <3>2, GatheredChain
    <3>4. first.hi <= upto
      BY <2>1, <2>4, <3>2 DEF Size
    <3> DEFINE cut == CutAt(rest, k, upto)
    <3> HIDE DEF c, missing, upto, rest
    <3>5. Holds(cut, written) /\ FirstOf(cut, written) = upto /\ Len(cut) = Len(rest) - k
      BY <2>3, <2>4, <3>1, <3>4, CutHolds DEF rest
    <3>6. c.lo < c.hi
      BY <2>1, <2>4, <3>3 DEF upto
    <3>7. /\ Holds(chains', written) /\ FirstOf(chains', written) = first.lo
          /\ Len(chains') = Len(chains) - k /\ chains'[1] = c
      <4> HIDE DEF cut
      <4>1. chains' = <<c>> \o cut
        BY <3>1 DEF cut
      <4>2. /\ Holds(chains', written) /\ FirstOf(chains', written) = c.lo
            /\ Len(chains') = Len(cut) + 1 /\ chains'[1] = c
        BY <3>3, <3>5, <3>6, <4>1, FrontHolds
      <4>3. Len(rest) = Len(chains) - 1
        BY <2>3 DEF rest
      <4> QED
        BY <1>1, <3>1, <3>3, <3>5, <4>2, <4>3
    <3>8. k \in 0 .. Len(chains) - 1 /\ Len(chains) \in Nat \ {0}
      BY <1>1, <2>2, <2>3 DEF rest
    <3>9. last' = Len(chains')
      BY <1>1, <3>1, <3>7, <3>8 DEF LastGathered, LastMoved
    <3>10. Queue!Accepted("pullup", n, first.lo, upto)
      <4>1. Size(c) = n
        BY <2>1, <2>4, <3>3 DEF Size, upto
      <4> QED
        BY <2>1, <2>5, <3>2, <3>3, <3>7, <4>1
    <3>11. reply' \in Queue!Reply
      <4> HIDE DEF first
      <4> QED
        BY <2>4, <3>10, ReplyTyped
    <3>12. Queue!Pullup(n)
      <4>1. chains' # <<>> /\ chains'[1].lo = first.lo
        BY <1>1, <3>3, <3>7, <3>8
      <4> QED
        BY <1>3, <2>1, <2>2, <3>10, <4>1 DEF Queue!Pullup, upto
    <3> QED
      BY <1>4, <2>2, <3>7, <3>9, <3>11, <3>12
  <2> QED
    BY <1>6, <2>6, <2>7
<1> QED
  BY <1>5, <1>6 DEF Pullup

-----------------------------------------------------------------------------
(***************************************************************************)
(* Copying a buffer, and read_line().                                      *)
(***************************************************************************)

\* The copy of a buffer holds the same bytes.
LEMMA CopyStep ==
  ASSUME BufferInv, CopyBuffer
  PROVE  BufferInv' /\ FirstOf(chains', written') = FirstOf(chains, written)
                    /\ UNCHANGED <<written, reply>>
<1>1. /\ chains \in Seq(Chain) /\ last = Len(chains) /\ totalLen \in Nat
      /\ written \in 0 .. MaxBytes /\ written \in Nat
      /\ totalLen = written - FirstOf(chains, written)
      /\ Holds(chains, written) /\ chains # <<>>
  BY SelfParts DEF CopyBuffer
<1>2. /\ chains' = [i \in DOMAIN chains |-> Copied(chains[i])]
      /\ UNCHANGED <<last, totalLen, written, reply>>
  BY DEF CopyBuffer
<1>3. ASSUME NEW i \in 1 .. Len(chains)
      PROVE  LET c == Copied(chains[i])
             IN  /\ c \in Chain /\ c.lo = chains[i].lo /\ c.hi = chains[i].hi
                 /\ c.lo < c.hi /\ Off(c) <= c.cap
  <2> DEFINE o == chains[i]
             k == Capacity(o.cap)
             c == [o EXCEPT !.cap = k, !.mis = 0]
  <2>1. o \in Chain /\ o.lo < o.hi /\ Off(o) <= o.cap
    BY <1>1 DEF Holds, Fits
  <2>2. o.cap \in Nat /\ o.mis \in Nat /\ o.lo \in Nat /\ o.hi \in Nat
    BY <2>1, ChainFields
  <2> HIDE DEF o
  <2>3. k \in Nat \ {0} /\ k >= o.cap
    BY <2>2, CapacityFits
  <2> HIDE DEF k
  <2>4. c \in Chain /\ c.cap = k /\ c.mis = 0 /\ c.lo = o.lo /\ c.hi = o.hi
    BY <2>1, <2>3 DEF Chain
  <2>5. Copied(o) = c
    BY DEF Copied, k
  <2> HIDE DEF c
  <2>6. Off(c) = o.hi - o.lo /\ o.mis + (o.hi - o.lo) <= o.cap
    BY <2>1, <2>2, <2>4 DEF Off, Size
  <2>7. c \in Chain /\ c.lo = o.lo /\ c.hi = o.hi /\ c.lo < c.hi /\ Off(c) <= c.cap
    BY <2>1, <2>2, <2>3, <2>4, <2>6
  <2> QED
    BY <2>5, <2>7 DEF o
<1>4. /\ chains' \in Seq(Chain) /\ Len(chains') = Len(chains) /\ chains' # <<>>
      /\ \A i \in 1 .. Len(chains) : chains'[i] = Copied(chains[i])
  <2>1. Len(chains) \in Nat \ {0} /\ DOMAIN chains = 1 .. Len(chains)
    BY <1>1
  <2>2. chains' \in [1 .. Len(chains) -> Chain]
    BY <1>2, <1>3, <2>1, Zenon
  <2>3. \A i \in 1 .. Len(chains) : chains'[i] = Copied(chains[i])
    BY <1>2, <2>1
  <2>4. chains' \in Seq(Chain) /\ Len(chains') = Len(chains)
    BY <2>1, <2>2
  <2> QED
    BY <2>1, <2>3, <2>4
<1>5. /\ \A i \in 1 .. Len(chains) :
           /\ chains'[i].lo = chains[i].lo /\ chains'[i].hi = chains[i].hi
           /\ chains'[i].lo < chains'[i].hi /\ Off(chains'[i]) <= chains'[i].cap
  BY <1>3, <1>4
<1>6. Len(chains) \in 1 .. Len(chains) /\ 1 \in 1 .. Len(chains)
      /\ \A i \in 1 .. Len(chains) - 1 : i \in 1 .. Len(chains) /\ i + 1 \in 1 .. Len(chains)
  BY <1>1
<1>7. Holds(chains', written)
  <2>1. Contiguous(chains', written)
    BY <1>1, <1>4, <1>5, <1>6 DEF Holds, Contiguous
  <2> QED
    BY <1>1, <1>4, <1>5, <2>1 DEF Holds, Fits
<1>8. FirstOf(chains', written) = FirstOf(chains, written)
  BY <1>1, <1>4, <1>5, <1>6 DEF FirstOf
<1>9. IsBuffer(Self)'
  BY <1>1, <1>2, <1>4, <1>7, <1>8, MakeBuffer
<1>10. TypeOK'
  BY <1>1, <1>2, <1>4 DEF TypeOK, BufferInv
<1> QED
  BY <1>2, <1>8, <1>9, <1>10 DEF BufferInv

\* The chains that end by a byte are the first ones.
LEMMA GoneAreFirst ==
  ASSUME NEW list, NEW end, Holds(list, end), NEW upto \in Nat
  PROVE  LET k == Cardinality({i \in DOMAIN list : EndsBy(list[i], upto)})
         IN  k \in 0 .. Len(list) /\ Swallows(list, k, upto)
<1> DEFINE n == Len(list)
           gone == {i \in DOMAIN list : EndsBy(list[i], upto)}
           S == {k \in Nat : k <= n => \A i \in 1 .. k : EndsBy(list[k], upto) => EndsBy(list[i], upto)}
<1>1. /\ list \in Seq(Chain) /\ n \in Nat /\ DOMAIN list = 1 .. n
      /\ \A i \in 1 .. n : list[i].lo \in Nat /\ list[i].hi \in Nat /\ list[i].lo < list[i].hi
      /\ \A i \in 1 .. n - 1 : list[i].hi = list[i + 1].lo
  BY ChainFields DEF Holds, Contiguous
<1>2. \A i \in 1 .. n - 1 : EndsBy(list[i + 1], upto) => EndsBy(list[i], upto)
  <2> SUFFICES ASSUME NEW i \in 1 .. n - 1, EndsBy(list[i + 1], upto)
               PROVE  EndsBy(list[i], upto)
    OBVIOUS
  <2>1. i \in 1 .. n /\ i + 1 \in 1 .. n
    BY <1>1
  <2>2. list[i].hi = list[i + 1].lo /\ list[i + 1].lo < list[i + 1].hi
        /\ list[i].hi \in Nat /\ list[i + 1].hi \in Nat
    BY <1>1, <2>1
  <2> QED
    BY <2>2 DEF EndsBy
<1>3. S = Nat
  <2>1. 0 \in S
    OBVIOUS
  <2>2. ASSUME NEW k \in S PROVE k + 1 \in S
    <3> SUFFICES ASSUME k + 1 <= n, NEW i \in 1 .. k + 1, EndsBy(list[k + 1], upto)
                 PROVE  EndsBy(list[i], upto)
      OBVIOUS
    <3>1. CASE i = k + 1
      BY <3>1
    <3>2. CASE i # k + 1
      <4>1. k \in 1 .. n - 1 /\ i \in 1 .. k /\ k <= n
        BY <1>1, <3>2
      <4> QED
        BY <1>2, <4>1
    <3> QED
      BY <3>1, <3>2
  <2>3. S \subseteq Nat
    OBVIOUS
  <2> HIDE DEF S
  <2> QED
    BY <2>1, <2>2, <2>3, Induction
<1>4. ASSUME NEW j \in gone, NEW i \in 1 .. j PROVE i \in gone
  <2>1. j \in S /\ j \in 1 .. n /\ EndsBy(list[j], upto)
    BY <1>1, <1>3
  <2>2. i \in 1 .. n
    BY <1>1, <2>1
  <2> QED
    BY <1>1, <2>1, <2>2
<1>5. \E k \in 0 .. n : gone = 1 .. k
  <2> DEFINE T == {m \in Nat : m \notin gone /\ m >= 1}
  <2>1. n + 1 \in T
    BY <1>1
  <2>2. PICK m \in T : \A x \in T : m <= x
    BY <2>1, LeastNumber
  <2>3. m \in Nat /\ m >= 1 /\ m <= n + 1 /\ m \notin gone
    BY <2>1, <2>2
  <2>4. ASSUME NEW i \in 1 .. m - 1 PROVE i \in gone
    BY <2>2, <2>3
  <2>5. ASSUME NEW i \in gone PROVE i \in 1 .. m - 1
    <3>1. i \in 1 .. n
      BY <1>1
    <3>2. ~(m <= i)
      <4> SUFFICES ASSUME m <= i PROVE FALSE
        OBVIOUS
      <4>1. m \in 1 .. i
        BY <1>1, <2>3, <3>1
      <4> QED
        BY <1>4, <2>3, <4>1
    <3> QED
      BY <1>1, <2>3, <3>1, <3>2
  <2>6. m - 1 \in 0 .. n
    BY <1>1, <2>3
  <2> HIDE DEF gone
  <2>7. gone = 1 .. m - 1
    BY <2>4, <2>5
  <2> QED
    BY <2>6, <2>7
<1>6. PICK k \in 0 .. n : gone = 1 .. k
  BY <1>5
<1>7. Cardinality(gone) = k
  <2>1. k \in Int /\ k >= 0
    BY <1>1
  <2>2. Cardinality(1 .. k) = k
    BY <2>1, FS_Interval
  <2> HIDE DEF gone
  <2> QED
    BY <1>6, <2>2
<1>8. Swallows(list, k, upto)
  <2>1. \A i \in 1 .. k : EndsBy(list[i], upto)
    <3>1. \A i \in 1 .. k : i \in gone
      BY <1>6
    <3> QED
      BY <3>1
  <2>2. k < n => ~EndsBy(list[k + 1], upto)
    <3> SUFFICES ASSUME k < n, EndsBy(list[k + 1], upto) PROVE FALSE
      OBVIOUS
    <3>1. k + 1 \in gone
      BY <1>1
    <3> QED
      BY <1>1, <1>6, <3>1
  <2> QED
    BY <2>1, <2>2 DEF Swallows
<1> QED
  BY <1>7, <1>8

\* drain(n) of a buffer as a value.
Drained(b, n) == IF n > b.total THEN 0 ELSE n

LEMMA WithoutHolds ==
  ASSUME NEW b, IsBuffer(b), NEW n \in Nat
  PROVE  LET d == Without(b, n)
         IN  /\ IsBuffer(d) /\ d.end = b.end
             /\ FirstOf(d.chains, d.end) = FirstOf(b.chains, b.end) + Drained(b, n)
             /\ d.total = b.total - Drained(b, n)
<1>1. /\ b.chains \in Seq(Chain) /\ b.last = Len(b.chains) /\ b.total \in Nat /\ b.end \in Nat
      /\ b.total = 0 <=> b.chains = <<>>
      /\ b.total = b.end - FirstOf(b.chains, b.end) /\ Holds(b.chains, b.end)
  BY NothingHeld DEF IsBuffer, Counted
<1>2. FirstOf(b.chains, b.end) \in Nat
  BY <1>1, FirstIsFirst DEF FirstOf
<1>3. CASE n = 0 \/ b.last = 0 \/ b.total < n
  <2>1. Without(b, n) = b
    BY <1>3 DEF Without
  <2>2. Drained(b, n) = 0
    BY <1>1, <1>3 DEF Drained
  <2> QED
    BY <1>1, <1>2, <2>1, <2>2
<1>4. CASE ~(n = 0 \/ b.last = 0 \/ b.total < n)
  <2> DEFINE upto == b.chains[1].lo + n
             k == Cardinality({i \in DOMAIN b.chains : EndsBy(b.chains[i], upto)})
             list == CutAt(b.chains, k, upto)
             l == IF k >= b.last THEN 0 ELSE b.last - k
             d == [chains |-> list, last |-> l, total |-> b.total - n, end |-> b.end]
  <2>1. Without(b, n) = d
    BY <1>4 DEF Without
  <2>2. /\ b.chains # <<>> /\ FirstOf(b.chains, b.end) = b.chains[1].lo
        /\ n > 0 /\ n <= b.total /\ Drained(b, n) = n
    BY <1>1, <1>4 DEF FirstOf, Drained
  <2>3. upto \in Nat /\ FirstOf(b.chains, b.end) <= upto /\ upto <= b.end
    BY <1>1, <1>2, <2>2
  <2>4. k \in 0 .. Len(b.chains) /\ Swallows(b.chains, k, upto)
    BY <1>1, <2>3, GoneAreFirst
  <2> HIDE DEF k
  <2>5. upto = FirstOf(b.chains, b.end) + n
    BY <2>2
  <2> HIDE DEF upto
  <2>10. Holds(b.chains, b.end)
    BY <1>1
  <2>6. Holds(list, b.end) /\ FirstOf(list, b.end) = upto /\ Len(list) = Len(b.chains) - k
    BY <2>3, <2>4, <2>10, CutHolds
  <2> HIDE DEF list
  <2>7. l = Len(list) /\ list \in Seq(Chain)
    BY <1>1, <2>4, <2>6 DEF Holds
  <2> HIDE DEF l
  <2>8. b.total - n \in Nat /\ b.total - n = b.end - FirstOf(list, b.end)
    <3>1. /\ b.total \in Nat /\ b.end \in Nat /\ b.total = b.end - FirstOf(b.chains, b.end)
          /\ n <= b.total /\ FirstOf(list, b.end) = FirstOf(b.chains, b.end) + n
      BY <1>1, <2>2, <2>5, <2>6
    <3> QED
      BY <1>2, <3>1
  <2>9. IsBuffer(d)
    BY <1>1, <2>6, <2>7, <2>8, MakeCounted DEF IsBuffer
  <2> QED
    BY <2>1, <2>2, <2>5, <2>6, <2>9
<1> QED
  BY <1>3, <1>4

\* offset_of_buffer_ of an iterator to a chain is a sum of capacities.
LEMMA CapacitiesAddUp ==
  ASSUME BufferInv, NEW i \in 1 .. Len(chains)
  PROVE  IterOfChain(i).offB \in Nat
<1> DEFINE E(f, j) == IF j < 1 THEN 0 ELSE f[j - 1] + chains[j].cap
           Sum(f, k) == f = [j \in 1 - 1 .. k |-> E(f, j)]
           S == {k \in Nat : \E f : Sum(f, k)}
<1>1. 0 \in S
  <2> DEFINE f == [j \in 1 - 1 .. 0 |-> 0]
  <2>1. Sum(f, 0)
    OBVIOUS
  <2> QED
    BY <2>1
<1>2. ASSUME NEW k \in S PROVE k + 1 \in S
  <2>1. k \in Nat
    OBVIOUS
  <2>2. PICK f : Sum(f, k)
    OBVIOUS
  <2> DEFINE D == 1 - 1 .. k + 1
             g == [j \in D |-> IF j = k + 1 THEN E(f, j) ELSE f[j]]
  <2>3. ASSUME NEW j \in D PROVE g[j] = E(g, j)
    <3>1. j >= 1 => j - 1 \in D /\ j - 1 # k + 1
      BY <2>1
    <3>2. j >= 1 => g[j - 1] = f[j - 1]
      BY <3>1
    <3>3. j # k + 1 => j \in 1 - 1 .. k
      BY <2>1
    <3>4. j # k + 1 => f[j] = E(f, j)
      BY <2>2, <3>3
    <3>5. g[j] = E(f, j)
      BY <3>4
    <3>6. CASE j < 1
      BY <3>5, <3>6
    <3>7. CASE ~(j < 1)
      <4>1. j >= 1
        BY <2>1, <3>7
      <4> QED
        BY <3>2, <3>5, <3>7, <4>1
    <3> QED
      BY <3>6, <3>7
  <2>4. g = [j \in D |-> g[j]]
    OBVIOUS
  <2>5. \A j \in D : g[j] = E(g, j)
    BY <2>3
  <2> HIDE DEF g, E, D
  <2>6. g = [j \in D |-> E(g, j)]
    BY <2>4, <2>5
  <2>7. Sum(g, k + 1)
    BY <2>6 DEF D
  <2> HIDE DEF Sum
  <2> QED
    BY <2>1, <2>7
<1>3. /\ i - 1 \in Nat /\ S = Nat
      /\ \A j \in 1 .. i - 1 : chains[j].cap \in Nat
  <2>1. chains \in Seq(Chain)
    BY SelfParts
  <2>2. i - 1 \in Nat /\ \A j \in 1 .. i - 1 : chains[j].cap \in Nat
    BY <2>1, ChainFields
  <2>3. S \subseteq Nat
    OBVIOUS
  <2> HIDE DEF S
  <2> QED
    BY <1>1, <1>2, <2>2, <2>3, Induction
<1> DEFINE s == CHOOSE f : f = [j \in 1 - 1 .. i - 1 |-> IF j < 1 THEN 0 ELSE f[j - 1] + chains[j].cap]
<1>4. s = [j \in 1 - 1 .. i - 1 |-> IF j < 1 THEN 0 ELSE s[j - 1] + chains[j].cap]
  <2>1. i - 1 \in S
    <3> HIDE DEF S
    <3> QED
      BY <1>3
  <2>2. \E f : f = [j \in 1 - 1 .. i - 1 |-> IF j < 1 THEN 0 ELSE f[j - 1] + chains[j].cap]
    BY <2>1
  <2> QED
    BY <2>2, Zenon
<1>5. IterOfChain(i).offB = s[i - 1]
  BY DEF IterOfChain, SumOver
<1> DEFINE T == {k \in Nat : k <= i - 1 => s[k] \in Nat}
<1> HIDE DEF s
<1>6. \A j \in 1 - 1 .. i - 1 : s[j] = IF j < 1 THEN 0 ELSE s[j - 1] + chains[j].cap
  BY <1>4
<1>7. T = Nat
  <2>1. 0 \in T
    BY <1>3, <1>6
  <2>2. ASSUME NEW k \in T PROVE k + 1 \in T
    <3> SUFFICES ASSUME k + 1 <= i - 1 PROVE s[k + 1] \in Nat
      OBVIOUS
    <3>1. k + 1 \in 1 .. i - 1 /\ s[k] \in Nat /\ k + 1 >= 1
      BY <1>3
    <3>2. s[k + 1] = s[k] + chains[k + 1].cap
      BY <1>3, <1>6, <3>1
    <3> QED
      BY <1>3, <3>1, <3>2
  <2>3. T \subseteq Nat
    OBVIOUS
  <2> HIDE DEF T
  <2> QED
    BY <2>1, <2>2, <2>3, Induction
<1>8. i - 1 \in T
  <2> HIDE DEF T
  <2> QED
    BY <1>3, <1>7
<1> QED
  BY <1>5, <1>8

\* Whatever search() finds, it is a place in a buffer or NULL_ITER.
LEMMA FoundIsOffset ==
  ASSUME BufferInv, NEW what
  PROVE  Search(what, Begin).offB \in Nat
<1> DEFINE Hits(i) == {k \in 0 .. Size(chains[i]) - 1 : Found(what, Begin, i, k)}
           found == {i \in 1 .. last : Hits(i) # {}}
<1>1. last = Len(chains) /\ chains \in Seq(Chain) /\ totalLen \in Nat
  BY SelfParts
<1>2. ASSUME NEW S \in SUBSET Nat, S # {} PROVE Min(S) \in S
  <2>1. \E m \in S : \A n \in S : m <= n
    BY <1>2, LeastNumber
  <2> QED
    BY <2>1, Zenon DEF Min
<1>3. Search(what, Begin) =
        IF found = {} THEN NoIter ELSE Plus(IterOfChain(Min(found)), Min(Hits(Min(found))))
  BY DEF Search, Begin
<1>4. CASE found = {}
  BY <1>3, <1>4 DEF NoIter
<1>5. CASE found # {}
  <2> DEFINE i == Min(found)
             k == Min(Hits(i))
  <2>1. found \in SUBSET Nat
    BY <1>1
  <2>2. i \in found
    <3> HIDE DEF found
    <3> QED
      BY <1>2, <1>5, <2>1
  <2>3. i \in 1 .. Len(chains) /\ Hits(i) # {}
    BY <1>1, <2>2
  <2> HIDE DEF i
  <2>4. Hits(i) \in SUBSET Nat
    <3>1. Size(chains[i]) \in Int
      BY <1>1, <2>3, ChainFields DEF Size
    <3> QED
      BY <3>1
  <2>5. k \in Nat
    <3> HIDE DEF Hits
    <3> QED
      BY <1>2, <2>3, <2>4
  <2> HIDE DEF k
  <2>6. IterOfChain(i).offB \in Nat
    BY <2>3, CapacitiesAddUp
  <2>7. Search(what, Begin) = Plus(IterOfChain(i), k)
    BY <1>3, <1>5 DEF i, k
  <2> DEFINE it == IterOfChain(i)
  <2> HIDE DEF it
  <2>8. Plus(it, k).offB \in {it.offB, totalLen, it.offB + k}
    BY DEF Plus, End
  <2> QED
    BY <1>1, <2>5, <2>6, <2>7, <2>8 DEF it
<1> QED
  BY <1>4, <1>5

\* read_line(): the bytes of a line and those of a line end, or of the line end
\* alone, or nothing at all.
LEMMA ReadLineStep ==
  ASSUME BufferInv, NEW style \in Style, ReadLine(style)
  PROVE  BufferInv' /\ \E n \in Request : Queue!ReadLine(n)
<1> DEFINE eol == SearchEol(style)
           len == EolLength(style)
           off == eol.offB
<1>1. PICK n \in {m \in Request : m > 0} : LineRead(n, eol, len)
  BY DEF ReadLine
<1>2. off \in Nat /\ len \in 1 .. 2 /\ n \in Nat \ {0} /\ n \in Request
  <2>1. n \in Nat \ {0}
    BY UnsignedLength
  <2> QED
    BY <2>1, FoundIsOffset DEF SearchEol, EolLength
<1>3. /\ IsBuffer(Self) /\ Self.chains = chains /\ Self.end = written
      /\ Self.total = totalLen /\ Self.last = last
  BY DEF BufferInv, Self
<1>4. /\ chains \in Seq(Chain) /\ last = Len(chains) /\ totalLen \in Nat
      /\ written \in 0 .. MaxBytes /\ written \in Nat
      /\ FirstOf(chains, written) \in Nat
      /\ totalLen = written - FirstOf(chains, written)
  BY SelfParts
<1> DEFINE head == FirstOf(chains, written)
<1>5. CASE Queue!Refused("read_line", n) /\ UNCHANGED <<chains, last, totalLen, written>>
  <2>1. BufferInv'
    <3>1. reply' \in Queue!Reply
      BY <1>2, <1>5, ReplyTyped
    <3>2. IsBuffer(Self)'
      BY <1>3, <1>5 DEF Self, IsBuffer, Counted
    <3> QED
      BY <1>5, <3>1, <3>2 DEF BufferInv, TypeOK
  <2>2. Queue!ReadLine(n)
    BY <1>5 DEF Queue!ReadLine
  <2> QED
    BY <1>2, <2>1, <2>2
<1>6. ASSUME ~(n < off), Becomes(Without(Without(Self, off), len)),
             IF off \in 1 .. totalLen
               THEN Queue!Accepted("read_line", n, head, head + off)
               ELSE Queue!Refused("read_line", n)
      PROVE  BufferInv' /\ Queue!ReadLine(n)
  <2> HIDE DEF eol, len, off
  <2> DEFINE b == Without(Self, off)
             d == Without(b, len)
             x == Drained(Self, off)
             y == Drained(b, len)
  <2>1. IsBuffer(b) /\ b.end = written /\ FirstOf(b.chains, b.end) = head + x
        /\ b.total = totalLen - x
    BY <1>2, <1>3, WithoutHolds
  <2>2. IsBuffer(d) /\ d.end = written /\ FirstOf(d.chains, d.end) = (head + x) + y
        /\ d.total = (totalLen - x) - y
    <3> HIDE DEF b
    <3>1. len \in Nat
      BY <1>2
    <3> QED
      BY <2>1, <3>1, WithoutHolds
  <2>3. d.chains \in Seq(Chain) /\ d.last = Len(d.chains) /\ d.total \in Nat
        /\ d.total = d.end - FirstOf(d.chains, d.end) /\ Holds(d.chains, d.end)
    <3> HIDE DEF d
    <3> QED
      BY <2>2, NothingHeld DEF IsBuffer, Counted
  <2>4. chains' = d.chains /\ last' = d.last /\ totalLen' = d.total /\ written' = written
    BY <1>6, <2>2 DEF Becomes
  <2> HIDE DEF b, d
  <2>5. BufferInv'
    <3>1. IsBuffer(Self)'
      BY <2>2, <2>3, <2>4, MakeBuffer
    <3>2. reply' \in Queue!Reply
      <4>1. head \in Nat /\ head + off \in Nat
        BY <1>2, <1>4
      <4> HIDE DEF head
      <4> QED
        BY <1>2, <1>6, <4>1, ReplyTyped
    <3> QED
      BY <1>4, <2>3, <2>4, <3>1, <3>2 DEF BufferInv, TypeOK
  <2>6. x = (IF off > totalLen THEN 0 ELSE off) /\ y = IF len > totalLen - x THEN 0 ELSE len
    BY <1>3, <2>1 DEF Drained
  <2> HIDE DEF x, y
  <2>7. FirstOf(chains', written') = (head + x) + y
    BY <2>2, <2>4
  <2> HIDE DEF head
  <2>8. head \in Nat /\ x \in Nat /\ y \in 0 .. 2 /\ x <= n /\ x + y <= totalLen
    BY <1>2, <1>4, <1>6, <2>6 DEF head
  <2>9. IF x > 0 THEN Queue!Accepted("read_line", n, head, head + x)
                 ELSE Queue!Refused("read_line", n)
    BY <1>2, <1>4, <1>6, <2>6
  <2>10. CASE x + y > 0
    <3>1. x + y \in Int /\ x + y > 0 /\ x + y <= totalLen /\ x \in 0 .. n
      BY <1>2, <2>8, <2>10
    <3>2. Queue!Held(x + y)
      BY <3>1, HeldIs
    <3>3. FirstOf(chains', written') = head + x + y
      BY <2>7
    <3> QED
      BY <2>4, <2>5, <2>8, <2>9, <3>1, <3>2, <3>3 DEF Queue!ReadLine, FirstOf, head
  <2>11. CASE ~(x + y > 0)
    <3>1. x = 0 /\ y = 0
      BY <2>8, <2>11
    <3>2. FirstOf(chains', written') = head /\ Queue!Refused("read_line", n)
      BY <2>7, <2>8, <2>9, <3>1
    <3> QED
      BY <2>4, <2>5, <3>2 DEF Queue!ReadLine, FirstOf, head
  <2> QED
    BY <2>10, <2>11
<1>7. CASE ~(eol = NoIter \/ n < off)
  <2>1. totalLen > 0
    BY DEF ReadLine
  <2>2. chains[1].lo = head
    BY <2>1, SelfParts DEF FirstOf
  <2>3. BufferInv' /\ Queue!ReadLine(n)
    BY <1>1, <1>6, <1>7, <2>2 DEF LineRead
  <2> QED
    BY <1>2, <2>3
<1>8. CASE eol = NoIter \/ n < off
  BY <1>1, <1>5, <1>8 DEF LineRead
<1> QED
  BY <1>7, <1>8

-----------------------------------------------------------------------------
(***************************************************************************)
(* The theorems.                                                           *)
(***************************************************************************)

LEMMA BufferInit ==
  ASSUME Init
  PROVE  BufferInv /\ Queue!Init
<1>1. Holds(chains, written) /\ FirstOf(chains, written) = 0
  BY DEF Init, Holds, Contiguous, Fits, FirstOf
<1>2. IsBuffer(Self)
  <2>1. chains \in Seq(Chain) /\ Len(chains) = 0
    BY DEF Init
  <2>2. totalLen = written - FirstOf(chains, written) /\ totalLen \in Nat /\ written \in Nat
    BY <1>1 DEF Init
  <2>3. Counted([chains |-> chains, last |-> Len(chains), total |-> totalLen, end |-> written])
    BY <2>1, <2>2, MakeCounted
  <2> QED
    BY <1>1, <2>1, <2>3 DEF IsBuffer, Self, Init
<1>3. TypeOK
  BY WidthAssumption, RequestAssumption DEF Init, TypeOK, Queue!Reply
<1> QED
  BY <1>2, <1>3 DEF BufferInv, Queue!Init, Init

LEMMA BufferNext ==
  ASSUME BufferInv, [ReadsNext]_vars
  PROVE  /\ BufferInv'
         /\ Request \subseteq Nat =>
              [Queue!Next]_<<IF chains = <<>> THEN written ELSE chains[1].lo, written, reply>>
<1>1. CASE Next
  <2>1. PICK n \in Request : Appending(n) \/ Pullup(n) \/ Remove(n)
    BY <1>1 DEF Next
  <2>2. /\ BufferInv'
        /\ n >= 0 => Queue!Append(n) \/ Queue!Pullup(n) \/ Queue!Remove(n)
    BY <2>1, AppendStep, PullupStep, RemoveStep
  <2>3. Request \subseteq Nat => n >= 0
    OBVIOUS
  <2> QED
    BY <2>2, <2>3 DEF Queue!Next
<1>2. CASE CopyBuffer
  BY <1>2, CopyStep DEF FirstOf
<1>3. CASE \E style \in Style : ReadLine(style)
  BY <1>3, ReadLineStep DEF Queue!Next
<1>4. CASE UNCHANGED vars
  BY <1>4 DEF vars, BufferInv, TypeOK, IsBuffer, Counted, Self, Queue!Reply
<1> QED
  BY <1>1, <1>2, <1>3, <1>4 DEF ReadsNext

\* BufferInv holds in every reachable state: the types, and chains whose bytes
\* are contiguous, counted and within their memory.
THEOREM BufferInvariance == ReadsSpec => []BufferInv
<1>1. Init => BufferInv
  BY BufferInit
<1>2. BufferInv /\ [ReadsNext]_vars => BufferInv'
  BY BufferNext
<1> QED
  BY <1>1, <1>2, PTL DEF ReadsSpec

\* The buffer and its history keep their types: last_chain_with_data_ is a chain
\* of the list, total_len_ never wraps below zero, and replies are of ByteQueue.
THEOREM BufferTypes == ReadsSpec => []TypeOK
<1>1. BufferInv => TypeOK
  BY DEF BufferInv
<1> QED
  BY <1>1, BufferInvariance, PTL

\* However a buffer is appended to, pulled up, copied and read, its chains
\* hold the queued bytes without a gap, and total_len_ and
\* last_chain_with_data_ agree with them.
THEOREM BufferBooks == ReadsSpec => []Bookkeeping
<1>1. BufferInv => Bookkeeping
  <2> SUFFICES ASSUME BufferInv PROVE Bookkeeping
    OBVIOUS
  <2>1. /\ last = Len(chains) /\ Holds(chains, written)
        /\ totalLen = written - FirstOf(chains, written)
        /\ totalLen = 0 <=> chains = <<>>
    BY SelfParts
  <2>2. TypeOK
    BY DEF BufferInv
  <2> HIDE DEF TypeOK
  <2> QED
    BY <2>1, <2>2 DEF Bookkeeping, Holds, Contiguous, FirstOf
<1> QED
  BY <1>1, BufferInvariance, PTL

\* append(), append_printf() and pullup() always make room before they copy.
THEOREM BufferFits == ReadsSpec => []NoOverflow
<1>1. BufferInv => NoOverflow
  BY SelfParts DEF NoOverflow, Holds, Fits
<1> QED
  BY <1>1, BufferInvariance, PTL

\* A buffer is a queue of bytes: every call maps to one of ByteQueue, with the
\* same result, if no length is negative.  (pullup() of a negative one is refused,
\* where buffer.h promises all bytes.)
THEOREM BufferIsQueue ==
  ASSUME Request \subseteq Nat
  PROVE  ReadsSpec => IsQueue
<1>1. Init => Queue!Init
  BY BufferInit
<1>2. BufferInv /\ [ReadsNext]_vars =>
        [Queue!Next]_<<IF chains = <<>> THEN written ELSE chains[1].lo, written, reply>>
  BY BufferNext
<1> QED
  BY <1>1, <1>2, BufferInvariance, PTL DEF ReadsSpec, IsQueue, Queue!Spec


-----------------------------------------------------------------------------
(***************************************************************************)
(* Iterators, copies and search, for every buffer that can arise, whatever *)
(* its chains and however much was cut off the first.                      *)
(*                                                                         *)
(* They need no invariant but BufferInv: what makes them right is that the *)
(* sum of the lengths an iterator walks over is the distance it walks.     *)
(* That is a fact about a recursive sum, proved once (StepsCounted) from a *)
(* reference function of partial sums; At says what an iterator that went  *)
(* x bytes is, PlusAddresses that operator+ makes one of another, and      *)
(* BytesFromIs what is copied or compared from there on.                   *)
(***************************************************************************)

\* A buffer that holds something.
HasBytes == BufferInv /\ totalLen > 0

-----------------------------------------------------------------------------
(***************************************************************************)
(* The chains of a buffer that is not empty.                               *)
(***************************************************************************)

LEMMA Layout ==
  ASSUME HasBytes
  PROVE  /\ last \in Nat \ {0} /\ last = Len(chains) /\ totalLen \in Nat
         /\ chains \in Seq(Chain) /\ chains # <<>>
         /\ totalLen = chains[last].hi - chains[1].lo
<1>1. /\ chains \in Seq(Chain) /\ last = Len(chains) /\ totalLen \in Nat
      /\ totalLen = written - FirstOf(chains, written)
      /\ chains # <<>> /\ Holds(chains, written)
  BY SelfParts DEF HasBytes
<1>2. last \in Nat \ {0}
  BY <1>1
<1>3. chains[last].hi = written
  BY <1>1 DEF Holds, Contiguous
<1>4. totalLen = chains[last].hi - chains[1].lo
  BY <1>1, <1>3 DEF FirstOf
<1> QED
  BY <1>1, <1>2, <1>3, <1>4

LEMMA ChainAt ==
  ASSUME HasBytes, NEW i \in 1 .. last
  PROVE  /\ chains[i] \in Chain
         /\ chains[i].lo \in Nat /\ chains[i].hi \in Nat
         /\ chains[i].mis \in Nat /\ chains[i].cap \in Nat
         /\ chains[i].lo < chains[i].hi
         /\ Size(chains[i]) = chains[i].hi - chains[i].lo
         /\ Off(chains[i]) = chains[i].mis + (chains[i].hi - chains[i].lo)
         /\ Size(chains[i]) \in Nat /\ Off(chains[i]) \in Nat
<1>1. /\ chains \in Seq(Chain) /\ last = Len(chains) /\ Holds(chains, written)
  BY SelfParts DEF HasBytes
<1>2. chains[i] \in Chain /\ chains[i].lo < chains[i].hi
  BY <1>1 DEF Holds
<1> QED
  BY <1>2, ChainFields DEF Size, Off

LEMMA ChainsTouch ==
  ASSUME HasBytes, NEW i \in 1 .. last - 1
  PROVE  chains[i].hi = chains[i + 1].lo /\ i \in 1 .. last /\ i + 1 \in 1 .. last
<1>1. last \in Nat /\ last = Len(chains) /\ Holds(chains, written)
  BY SelfParts DEF HasBytes
<1> QED
  BY <1>1 DEF Holds, Contiguous

LEMMA ChainsAscend ==
  ASSUME HasBytes, NEW i \in 1 .. last, NEW j \in 1 .. last, i < j
  PROVE  chains[i].hi <= chains[j].lo
<1> DEFINE P(k) == \A h \in 1 .. k : chains[h].hi <= chains[k + 1].lo
           S == {k \in 0 .. last - 1 : P(k)}
<1>0. last \in Nat \ {0}
  BY Layout
<1>1. 0 \in S
  BY <1>0
<1>2. ASSUME NEW k \in 0 .. last - 1 - 1, k \in S PROVE k + 1 \in S
  <2>1. k + 1 \in 1 .. last - 1 /\ k + 1 \in 0 .. last - 1 /\ (k + 1) + 1 = k + 2
    BY <1>0
  <2>2. /\ chains[k + 1].hi = chains[k + 2].lo /\ chains[k + 1].lo < chains[k + 1].hi
        /\ chains[k + 1].lo \in Nat /\ chains[k + 1].hi \in Nat
    BY <2>1, ChainAt, ChainsTouch
  <2>3. ASSUME NEW h \in 1 .. k + 1 PROVE chains[h].hi <= chains[k + 2].lo
    <3>1. CASE h = k + 1
      BY <2>2, <3>1
    <3>2. CASE h # k + 1
      <4>1. h \in 1 .. k /\ h \in 1 .. last
        BY <1>0, <3>2
      <4>2. chains[h].hi <= chains[k + 1].lo
        BY <1>2, <4>1
      <4>3. chains[h].hi \in Nat
        BY <4>1, ChainAt
      <4> QED
        BY <2>2, <4>2, <4>3
    <3> QED
      BY <3>1, <3>2
  <2> QED
    BY <2>1, <2>3
<1>3. S = 0 .. last - 1
  <2>1. S \in SUBSET (0 .. last - 1) /\ last - 1 \in Nat
    BY <1>0
  <2> HIDE DEF S
  <2> QED
    BY <1>1, <1>2, <2>1, InductionTo
<1>4. j - 1 \in 0 .. last - 1 /\ (j - 1) + 1 = j /\ i \in 1 .. j - 1
  BY <1>0
<1>5. P(j - 1)
  BY <1>3, <1>4
<1> QED
  BY <1>4, <1>5

\* Every byte of the buffer is in a chain.
LEMMA ByteHasChain ==
  ASSUME HasBytes, NEW a \in 0 .. totalLen - 1
  PROVE  \E i \in 1 .. last : chains[i].lo <= chains[1].lo + a /\ chains[1].lo + a < chains[i].hi
<1> DEFINE S == {i \in 1 .. last : chains[1].lo + a < chains[i].hi}
<1>1. last \in Nat \ {0} /\ 1 \in 1 .. last /\ last \in 1 .. last
  BY Layout
<1>2. chains[1].lo \in Nat /\ chains[last].hi \in Nat
  BY <1>1, ChainAt
<1>3. chains[1].lo + a < chains[last].hi
  BY <1>2, Layout
<1>4. S \in SUBSET Nat /\ S # {}
  BY <1>1, <1>3
<1>5. PICK i \in S : \A j \in S : i <= j
  <2> HIDE DEF S
  <2> QED
    BY <1>4, LeastNumber
<1>6. i \in 1 .. last /\ chains[1].lo + a < chains[i].hi
  BY <1>5
<1>7. CASE i = 1
  BY <1>2, <1>6, <1>7
<1>8. CASE i # 1
  <2>1. i - 1 \in 1 .. last - 1 /\ i - 1 \in 1 .. last /\ (i - 1) + 1 = i /\ ~(i <= i - 1)
    BY <1>1, <1>6, <1>8
  <2>2. ~(chains[1].lo + a < chains[i - 1].hi)
    BY <1>5, <2>1
  <2>3. chains[i - 1].hi = chains[i].lo /\ chains[i - 1].hi \in Nat
    BY <2>1, ChainAt, ChainsTouch
  <2> QED
    BY <1>2, <1>6, <2>2, <2>3
<1> QED
  BY <1>7, <1>8

-----------------------------------------------------------------------------
(***************************************************************************)
(* SumOver.                                                                *)
(***************************************************************************)

\* A function of numbers has partial sums.
LEMMA PartialSums ==
  ASSUME NEW m \in Nat, NEW v \in [1 .. m -> Nat]
  PROVE  \E t \in [0 .. m -> Nat] : t[0] = 0 /\ \A j \in 1 .. m : t[j] = t[j - 1] + v[j]
<1> DEFINE P(k) == \E t \in [0 .. k -> Nat] : t[0] = 0 /\ \A j \in 1 .. k : t[j] = t[j - 1] + v[j]
           S == {k \in 0 .. m : P(k)}
<1>1. 0 \in S
  <2> DEFINE t == [j \in 0 .. 0 |-> 0]
  <2>1. t \in [0 .. 0 -> Nat] /\ t[0] = 0
    OBVIOUS
  <2> HIDE DEF t
  <2>2. P(0)
    BY <2>1
  <2> HIDE DEF P
  <2> QED
    BY <2>2
<1>2. ASSUME NEW k \in 0 .. m - 1, k \in S PROVE k + 1 \in S
  <2>1. PICK t \in [0 .. k -> Nat] : t[0] = 0 /\ \A j \in 1 .. k : t[j] = t[j - 1] + v[j]
    BY <1>2
  <2> DEFINE u == [j \in 0 .. k + 1 |-> IF j = k + 1 THEN t[k] + v[k + 1] ELSE t[j]]
  <2>2. \A j \in 0 .. k : u[j] = t[j]
    OBVIOUS
  <2>3. u[k + 1] = t[k] + v[k + 1] /\ u[k] = t[k]
    OBVIOUS
  <2>4. u \in [0 .. k + 1 -> Nat]
    <3>1. ASSUME NEW j \in 0 .. k + 1 PROVE (IF j = k + 1 THEN t[k] + v[k + 1] ELSE t[j]) \in Nat
      <4>1. k + 1 \in 1 .. m /\ k \in 0 .. k /\ (j # k + 1 => j \in 0 .. k)
        OBVIOUS
      <4>2. v[k + 1] \in Nat /\ t[k] \in Nat /\ (j # k + 1 => t[j] \in Nat)
        BY <4>1
      <4> QED
        BY <4>2
    <3> QED
      BY <3>1
  <2> HIDE DEF u
  <2>5. u[0] = 0
    BY <2>1, <2>2
  <2>6. ASSUME NEW j \in 1 .. k + 1 PROVE u[j] = u[j - 1] + v[j]
    <3>1. CASE j = k + 1
      BY <2>3, <3>1
    <3>2. CASE j # k + 1
      <4>1. j \in 1 .. k /\ j - 1 \in 0 .. k /\ j \in 0 .. k
        BY <3>2
      <4> QED
        BY <2>1, <2>2, <4>1
    <3> QED
      BY <3>1, <3>2
  <2>7. P(k + 1)
    BY <2>4, <2>5, <2>6
  <2> HIDE DEF P
  <2> QED
    BY <2>7
<1> HIDE DEF P
<1>3. S = 0 .. m
  <2>1. S \in SUBSET (0 .. m)
    OBVIOUS
  <2> HIDE DEF S
  <2> QED
    BY <1>1, <1>2, <2>1, InductionTo
<1>4. P(m)
  BY <1>3
<1> QED
  BY <1>4 DEF P

\* The recursive function of SumOver exists and its last value is a difference
\* of partial sums.
LEMMA SumFrom ==
  ASSUME NEW m \in Nat, NEW v \in [1 .. m -> Nat], NEW t \in [0 .. m -> Nat],
         \A j \in 1 .. m : t[j] = t[j - 1] + v[j],
         NEW first \in 1 .. m + 1, NEW end \in first - 1 .. m
  PROVE  /\ \E s \in [first - 1 .. end -> Int] :
              \A j \in first - 1 .. end : s[j] = IF j < first THEN 0 ELSE s[j - 1] + v[j]
         /\ \A s : (\A j \in first - 1 .. end : s[j] = IF j < first THEN 0 ELSE s[j - 1] + v[j])
                     => s[end] = t[end] - t[first - 1]
<1> DEFINE D == first - 1 .. end
           E(s, j) == IF j < first THEN 0 ELSE s[j - 1] + v[j]
           w == [j \in D |-> t[j] - t[first - 1]]
<1>1. D \subseteq 0 .. m /\ first - 1 \in D /\ end \in D /\ first \in Nat /\ first - 1 \in 0 .. m
  OBVIOUS
<1>2. ASSUME NEW j \in D, ~(j < first)
      PROVE  /\ j - 1 \in D /\ j \in 1 .. m
             /\ t[j] = t[j - 1] + v[j] /\ v[j] \in Int /\ t[j - 1] \in Int
  <2>1. j - 1 \in D /\ j \in 1 .. m /\ j - 1 \in 0 .. m
    BY <1>1, <1>2
  <2> QED
    BY <2>1
<1>3. ASSUME NEW j \in D PROVE w[j] = E(w, j)
  <2>1. CASE j < first
    <3>1. j = first - 1 /\ t[first - 1] \in Int
      BY <1>1, <2>1
    <3> QED
      BY <1>1, <2>1, <3>1
  <2>2. CASE ~(j < first)
    <3>1. j - 1 \in D /\ t[j] = t[j - 1] + v[j] /\ v[j] \in Int /\ t[j - 1] \in Int
      BY <1>2, <2>2
    <3>2. w[j] = t[j] - t[first - 1] /\ w[j - 1] = t[j - 1] - t[first - 1] /\ t[first - 1] \in Int
      BY <1>1, <3>1
    <3> HIDE DEF w, D
    <3>3. w[j] = w[j - 1] + v[j]
      <4>1. \A p, q, r \in Int : (p + q) - r = (p - r) + q
        OBVIOUS
      <4>2. (t[j - 1] + v[j]) - t[first - 1] = (t[j - 1] - t[first - 1]) + v[j]
        BY <3>1, <3>2, <4>1
      <4> QED
        BY <3>1, <3>2, <4>2, Zenon
    <3>4. E(w, j) = w[j - 1] + v[j]
      BY <2>2
    <3> HIDE DEF E
    <3> QED
      BY <3>3, <3>4
  <2> QED
    BY <2>1, <2>2
<1>4. w \in [D -> Int]
  BY <1>1
<1>5. ASSUME NEW s, \A j \in D : s[j] = E(s, j) PROVE s[end] = t[end] - t[first - 1]
  <2> DEFINE S == {k \in 0 .. end - (first - 1) : s[first - 1 + k] = t[first - 1 + k] - t[first - 1]}
  <2>1. t[first - 1] \in Int
    BY <1>1
  <2>2. 0 \in S
    <3>1. s[first - 1] = 0
      BY <1>1, <1>5
    <3> QED
      BY <1>1, <2>1, <3>1
  <2>3. ASSUME NEW k \in 0 .. end - (first - 1) - 1, k \in S PROVE k + 1 \in S
    <3> DEFINE j == first + k
    <3>1. s[first - 1 + k] = t[first - 1 + k] - t[first - 1]
      BY <2>3
    <3>2. /\ j \in D /\ ~(j < first) /\ k + 1 \in 0 .. end - (first - 1)
          /\ first - 1 + k = j - 1 /\ first - 1 + (k + 1) = j
      BY <1>1
    <3> HIDE DEF j, D
    <3>3. s[j] = s[j - 1] + v[j]
      BY <1>5, <3>2
    <3>4. t[j] = t[j - 1] + v[j] /\ v[j] \in Int /\ t[j - 1] \in Int
      BY <1>2, <3>2
    <3>5. s[j - 1] = t[j - 1] - t[first - 1]
      BY <3>1, <3>2
    <3>6. s[j] = t[j] - t[first - 1]
      BY <2>1, <3>3, <3>4, <3>5
    <3> QED
      BY <3>2, <3>6
  <2>4. S = 0 .. end - (first - 1)
    <3>1. S \in SUBSET (0 .. end - (first - 1)) /\ end - (first - 1) \in Nat
      BY <1>1
    <3> HIDE DEF S
    <3> QED
      BY <2>2, <2>3, <3>1, InductionTo
  <2>5. end - (first - 1) \in 0 .. end - (first - 1) /\ first - 1 + (end - (first - 1)) = end
    BY <1>1
  <2> QED
    BY <2>4, <2>5
<1>6. \E s \in [D -> Int] : \A j \in D : s[j] = E(s, j)
  <2> HIDE DEF w, D, E
  <2> QED
    BY <1>3, <1>4
<1> QED
  BY <1>5, <1>6

\* What is left of n steps, when the lengths of the chains have these partial sums.
LEMMA StepsCounted ==
  ASSUME HasBytes, NEW t \in [0 .. last -> Nat],
         \A j \in 1 .. last : t[j] = t[j - 1] + Off(chains[j]),
         NEW it, it.chain \in 1 .. last, NEW n, NEW j \in it.chain .. last
  PROVE  StepsLeft(it, n, j) = n + it.offC - (t[j - 1] - t[it.chain - 1])
<1> DEFINE c == it.chain
           D == c - 1 .. j - 1
           v == [i \in 1 .. last |-> Off(chains[i])]
           s == CHOOSE f : f = [i \in D |-> IF i < c THEN 0 ELSE f[i - 1] + Off(chains[i])]
<1>1. last \in Nat /\ c \in 1 .. last + 1 /\ j - 1 \in c - 1 .. last
  BY Layout
<1>2. (\A i \in 1 .. last : v[i] = Off(chains[i])) /\ v \in [1 .. last -> Nat]
  BY ChainAt
<1> HIDE DEF v
<1>3. /\ \E f \in [D -> Int] : \A i \in D : f[i] = IF i < c THEN 0 ELSE f[i - 1] + v[i]
      /\ \A f : (\A i \in D : f[i] = IF i < c THEN 0 ELSE f[i - 1] + v[i])
                  => f[j - 1] = t[j - 1] - t[c - 1]
  <2>1. \A i \in 1 .. last : t[i] = t[i - 1] + v[i]
    BY <1>2
  <2> HIDE DEF c
  <2> QED
    BY <1>1, <1>2, <2>1, SumFrom
<1>4. \A i \in D : i < c \/ v[i] = Off(chains[i])
  <2>1. \A i \in D : i < c \/ i \in 1 .. last
    BY <1>1
  <2> HIDE DEF D, c
  <2> QED
    BY <1>2, <2>1
<1>5. s = [i \in D |-> IF i < c THEN 0 ELSE s[i - 1] + Off(chains[i])]
  <2>1. PICK f \in [D -> Int] : \A i \in D : f[i] = IF i < c THEN 0 ELSE f[i - 1] + v[i]
    BY <1>3
  <2> HIDE DEF D
  <2>2. \A i \in D : f[i] = IF i < c THEN 0 ELSE f[i - 1] + Off(chains[i])
    BY <1>4, <2>1
  <2>3. f = [i \in D |-> f[i]]
    OBVIOUS
  <2>4. f = [i \in D |-> IF i < c THEN 0 ELSE f[i - 1] + Off(chains[i])]
    BY <2>2, <2>3
  <2> QED
    BY <2>4, Zenon
<1>6. StepsLeft(it, n, j) = n + it.offC - s[j - 1]
  BY DEF StepsLeft, SumOver
<1> HIDE DEF s
<1>7. s[j - 1] = t[j - 1] - t[c - 1]
  <2>1. \A i \in D : s[i] = IF i < c THEN 0 ELSE s[i - 1] + v[i]
    BY <1>4, <1>5
  <2> QED
    BY <1>3, <2>1
<1> QED
  BY <1>6, <1>7

\* The same with one reference for all sums: t[j] bytes' worth of offsets end
\* with chain j.
LEMMA OffsetsHaveSums ==
  ASSUME HasBytes
  PROVE  \E t \in [0 .. last -> Nat] :
           t[0] = 0 /\ \A j \in 1 .. last : t[j] = t[j - 1] + Off(chains[j])
<1> DEFINE v == [j \in 1 .. last |-> Off(chains[j])]
<1>1. v \in [1 .. last -> Nat] /\ \A j \in 1 .. last : v[j] = Off(chains[j])
  BY ChainAt
<1> HIDE DEF v
<1>2. PICK t \in [0 .. last -> Nat] : t[0] = 0 /\ \A j \in 1 .. last : t[j] = t[j - 1] + v[j]
  BY <1>1, Layout, PartialSums
<1> QED
  BY <1>1, <1>2

LEMMA MoreIsEnough ==
  ASSUME NEW u \in Nat, NEW m \in Nat, NEW l \in Nat, NEW h \in Nat,
         NEW mis \in Nat, NEW hi \in Nat, u >= m + (h - l)
  PROVE  u + (mis + (hi - h)) >= m + (hi - l)
OBVIOUS

\* The offsets add up to at least the bytes that lie between.
LEMMA OffsetsAreEnough ==
  ASSUME HasBytes, NEW t \in [0 .. last -> Nat], t[0] = 0,
         \A j \in 1 .. last : t[j] = t[j - 1] + Off(chains[j]),
         NEW i \in 1 .. last
  PROVE  t[i] >= chains[1].mis + (chains[i].hi - chains[1].lo)
<1> DEFINE P(k) == t[k + 1] >= chains[1].mis + (chains[k + 1].hi - chains[1].lo)
           S == {k \in 0 .. last - 1 : P(k)}
<1>1. last \in Nat \ {0} /\ 1 \in 1 .. last
  BY Layout
<1>2. /\ chains[1].mis \in Nat /\ chains[1].lo \in Nat /\ chains[1].hi \in Nat
      /\ Off(chains[1]) = chains[1].mis + (chains[1].hi - chains[1].lo)
  BY <1>1, ChainAt
<1>3. 0 \in S
  <2>1. t[1] = t[0] + Off(chains[1])
    BY <1>1
  <2> QED
    BY <1>1, <1>2, <2>1
<1>4. ASSUME NEW k \in 0 .. last - 1 - 1, k \in S PROVE k + 1 \in S
  <2>1. /\ k + 1 \in 1 .. last - 1 /\ k + 1 \in 0 .. last - 1 /\ (k + 1) + 1 = k + 2
        /\ k + 1 \in 0 .. last /\ k + 2 \in 1 .. last /\ (k + 2) - 1 = k + 1
    BY <1>1
  <2>2. t[k + 2] = t[k + 1] + Off(chains[k + 2]) /\ t[k + 1] \in Nat
    BY <2>1
  <2>3. /\ chains[k + 2].mis \in Nat /\ chains[k + 2].lo \in Nat /\ chains[k + 2].hi \in Nat
        /\ Off(chains[k + 2]) = chains[k + 2].mis + (chains[k + 2].hi - chains[k + 2].lo)
    BY <2>1, ChainAt
  <2>4. chains[k + 1].hi = chains[k + 2].lo
    BY <2>1, ChainsTouch
  <2>6. t[k + 1] >= chains[1].mis + (chains[k + 1].hi - chains[1].lo)
    BY <1>4
  <2>7. t[k + 2] >= chains[1].mis + (chains[k + 2].hi - chains[1].lo)
    <3>1. t[k + 1] + (chains[k + 2].mis + (chains[k + 2].hi - chains[k + 1].hi))
            >= chains[1].mis + (chains[k + 2].hi - chains[1].lo)
      <4>1. chains[k + 1].hi \in Nat
        BY <2>3, <2>4
      <4> QED
        BY <1>2, <2>2, <2>3, <2>6, <4>1, MoreIsEnough
    <3> QED
      BY <2>2, <2>3, <2>4, <3>1
  <2>8. P(k + 1)
    BY <2>1, <2>7
  <2> HIDE DEF P
  <2> QED
    BY <2>1, <2>8
<1>5. S = 0 .. last - 1
  <2>1. S \in SUBSET (0 .. last - 1) /\ last - 1 \in Nat
    BY <1>1
  <2> HIDE DEF S
  <2> QED
    BY <1>3, <1>4, <2>1, InductionTo
<1>6. i - 1 \in 0 .. last - 1 /\ (i - 1) + 1 = i
  BY <1>1
<1>7. P(i - 1)
  BY <1>5, <1>6
<1> QED
  BY <1>6, <1>7

-----------------------------------------------------------------------------
(***************************************************************************)
(* An iterator that is at byte x, and operator+.                           *)
(***************************************************************************)

\* The number of bytes appended before the first of a chain's memory was.
Start(i) == chains[i].lo - chains[i].mis

At(it, x) ==
  /\ it.chain \in 1 .. last
  /\ it.offB = x
  /\ it.offC \in Int
  /\ Start(it.chain) + it.offC = chains[1].lo + x

LEMMA StartIs ==
  ASSUME HasBytes, NEW i \in 1 .. last
  PROVE  /\ Start(i) \in Int /\ Start(i) + chains[i].mis = chains[i].lo
         /\ Start(i) + Off(chains[i]) = chains[i].hi
BY ChainAt DEF Start

LEMMA AddressIs ==
  ASSUME HasBytes, NEW it, NEW x \in Nat, it.chain \in 1 .. last, it.offC \in Int
  PROVE  Address(it) = x <=> Start(it.chain) + it.offC = chains[1].lo + x
<1>1. 1 \in 1 .. last
  BY Layout
<1>2. /\ chains[it.chain].lo \in Nat /\ chains[it.chain].mis \in Nat
      /\ chains[1].lo \in Nat
  BY <1>1, ChainAt
<1> QED
  BY <1>2 DEF Address, ByteAt, Start

LEMMA BeginIsAt ==
  ASSUME HasBytes
  PROVE  At(Begin, 0)
<1>1. 1 \in 1 .. last
  BY Layout
<1>2. chains[1].lo \in Nat /\ chains[1].mis \in Nat
  BY <1>1, ChainAt
<1>3. Begin.chain = 1 /\ Begin.offB = 0 /\ Begin.offC = chains[1].mis
  BY DEF Begin
<1> QED
  BY <1>1, <1>2, <1>3, StartIs DEF At

LEMMA EndIsAt ==
  ASSUME HasBytes
  PROVE  At(End, totalLen)
<1>1. last \in 1 .. last /\ 1 \in 1 .. last /\ totalLen = chains[last].hi - chains[1].lo
  BY Layout
<1>2. chains[1].lo \in Nat /\ chains[last].hi \in Nat /\ Off(chains[last]) \in Nat
  BY <1>1, ChainAt
<1>3. End.chain = last /\ End.offB = totalLen /\ End.offC = Off(chains[last])
  BY DEF End
<1>4. Start(last) + Off(chains[last]) = chains[last].hi
  BY <1>1, StartIs
<1> QED
  BY <1>1, <1>2, <1>3, <1>4 DEF At

\* No more than what is in memory, and it is what a length is compared with.
LEMMA UnsignedRest ==
  ASSUME HasBytes, NEW n \in 0 .. totalLen
  PROVE  Unsigned(n) = n
<1>1. /\ totalLen \in Nat /\ written \in 0 .. MaxBytes
      /\ totalLen = written - FirstOf(chains, written) /\ chains # <<>>
  BY SelfParts DEF HasBytes
<1>2. 1 \in 1 .. last
  BY Layout
<1>3. chains[1].lo \in Nat
  BY <1>2, ChainAt
<1>4. FirstOf(chains, written) \in Nat
  BY <1>1, <1>3 DEF FirstOf
<1> DEFINE h == 2 ^ (Width - 1)
<1>5. h \in Nat /\ 2 ^ Width = 2 * h
  <2>1. Width - 1 \in Nat /\ (Width - 1) + 1 = Width
    BY WidthAssumption
  <2> QED
    BY <2>1, PowerNat, PowerDoubles
<1>6. MaxBytes \in 0 .. h - 1
  BY WidthAssumption
<1> HIDE DEF h
<1>7. n \in Nat /\ n < 2 * h /\ 2 * h \in Nat
  BY <1>1, <1>4, <1>5, <1>6
<1>8. \A m \in Nat : m > 0 => \A x \in Int : 0 <= x /\ x < m => x % m = x
  OBVIOUS
<1>9. n % (2 * h) = n
  BY <1>7, <1>8
<1> QED
  BY <1>5, <1>9 DEF Unsigned

\* Where the steps end is where they should.
LEMMA StepsReach ==
  ASSUME HasBytes, LaterAligned, NEW it, NEW x \in Nat, At(it, x),
         NEW n \in Nat, NEW j \in it.chain .. last
  PROVE  StepsLeft(it, n, j) \in Int /\ Start(j) + StepsLeft(it, n, j) = chains[1].lo + (x + n)
<1> DEFINE t == [k \in 0 .. last |-> IF k = 0 THEN 0 ELSE chains[1].mis + (chains[k].hi - chains[1].lo)]
<1>1. /\ last \in Nat \ {0} /\ last = Len(chains) /\ 1 \in 1 .. last
      /\ it.chain \in 1 .. last /\ j \in 1 .. last
  BY Layout DEF At
<1>2. /\ chains[1].mis \in Nat /\ chains[1].lo \in Nat /\ chains[1].hi \in Nat
      /\ chains[1].lo < chains[1].hi
      /\ Off(chains[1]) = chains[1].mis + (chains[1].hi - chains[1].lo)
  BY <1>1, ChainAt
<1>3. ASSUME NEW k \in 1 .. last
      PROVE  chains[k].hi \in Nat /\ chains[k].hi >= chains[1].lo
  <2>1. chains[k].hi \in Nat /\ chains[k].lo \in Nat /\ chains[k].lo < chains[k].hi
    BY ChainAt
  <2>2. CASE k = 1
    BY <1>2, <2>2
  <2>3. CASE k # 1
    <3>1. 1 < k
      BY <1>1, <2>3
    <3>2. chains[1].hi <= chains[k].lo
      BY <1>1, <3>1, ChainsAscend
    <3> QED
      BY <1>2, <2>1, <3>2
  <2> QED
    BY <2>2, <2>3
<1>4. \A k \in 1 .. last : t[k] = chains[1].mis + (chains[k].hi - chains[1].lo)
  OBVIOUS
<1>5. t \in [0 .. last -> Nat] /\ t[0] = 0
  <2>1. ASSUME NEW k \in 0 .. last
        PROVE  (IF k = 0 THEN 0 ELSE chains[1].mis + (chains[k].hi - chains[1].lo)) \in Nat
    <3>1. CASE k = 0
      BY <3>1
    <3>2. CASE k # 0
      <4>1. k \in 1 .. last
        BY <1>1, <3>2
      <4> QED
        BY <1>2, <1>3, <3>2, <4>1
    <3> QED
      BY <3>1, <3>2
  <2>2. 0 \in 0 .. last
    BY <1>1
  <2> QED
    BY <2>1, <2>2
<1> HIDE DEF t
<1>6. ASSUME NEW k \in 1 .. last PROVE t[k - 1] = Start(k) - Start(1)
  <2>1. CASE k = 1
    <3>1. Start(1) \in Int
      BY <1>1, StartIs
    <3> QED
      BY <1>5, <2>1, <3>1
  <2>2. CASE k # 1
    <3>1. k - 1 \in 1 .. last - 1 /\ (k - 1) + 1 = k /\ k \in 2 .. Len(chains)
      BY <1>1, <2>2
    <3>2. chains[k - 1].hi = chains[k].lo /\ k - 1 \in 1 .. last
      BY <3>1, ChainsTouch
    <3>3. t[k - 1] = chains[1].mis + (chains[k].lo - chains[1].lo)
      BY <1>4, <3>2
    <3>4. chains[k].mis = 0 /\ chains[k].lo \in Nat
      BY <3>1, ChainAt DEF LaterAligned
    <3> QED
      BY <1>2, <3>3, <3>4 DEF Start
  <2> QED
    BY <2>1, <2>2
<1>7. ASSUME NEW k \in 1 .. last PROVE t[k] = t[k - 1] + Off(chains[k])
  <2>1. t[k - 1] = Start(k) - Start(1) /\ t[k] = chains[1].mis + (chains[k].hi - chains[1].lo)
    BY <1>4, <1>6
  <2>2. /\ Start(k) \in Int /\ Start(k) + Off(chains[k]) = chains[k].hi
        /\ Start(1) \in Int /\ Start(1) + chains[1].mis = chains[1].lo
    BY <1>1, StartIs
  <2>3. Off(chains[k]) \in Nat /\ chains[k].hi \in Nat
    BY ChainAt
  <2>4. \A p, q, o, h, m, l \in Int : p + o = h /\ q + m = l => m + (h - l) = (p - q) + o
    OBVIOUS
  <2>5. chains[1].mis + (chains[k].hi - chains[1].lo) = (Start(k) - Start(1)) + Off(chains[k])
    BY <1>2, <2>2, <2>3, <2>4
  <2> QED
    BY <2>1, <2>5
<1>8. StepsLeft(it, n, j) = n + it.offC - (t[j - 1] - t[it.chain - 1])
  <2>1. t \in [0 .. last -> Nat] /\ \A k \in 1 .. last : t[k] = t[k - 1] + Off(chains[k])
    BY <1>5, <1>7
  <2>2. it.chain \in 1 .. last /\ j \in it.chain .. last
    BY <1>1
  <2> QED
    BY <2>1, <2>2, StepsCounted
<1>9. t[j - 1] = Start(j) - Start(1) /\ t[it.chain - 1] = Start(it.chain) - Start(1)
  BY <1>1, <1>6
<1>10. Start(j) \in Int /\ Start(1) \in Int /\ Start(it.chain) \in Int
  BY <1>1, StartIs
<1>11. it.offC \in Int /\ Start(it.chain) + it.offC = chains[1].lo + x
  BY DEF At
<1> QED
  BY <1>2, <1>8, <1>9, <1>10, <1>11

\* operator+ stops somewhere: in the last chain at the latest.
LEMMA PlusStops ==
  ASSUME HasBytes, NEW it, it.chain \in 1 .. last, NEW n \in Nat, n # 0,
         ~(n > Unsigned(totalLen - it.offB))
  PROVE  \E j \in it.chain .. last :
           /\ Plus(it, n) = [chain |-> j, offB |-> it.offB + n, offC |-> StepsLeft(it, n, j)]
           /\ Stops(it, n, j) /\ \A i \in it.chain .. j - 1 : ~Stops(it, n, i)
<1> DEFINE S == {k \in it.chain .. last : Stops(it, n, k)}
           j == CHOOSE k \in it.chain .. last :
                  Stops(it, n, k) /\ \A i \in it.chain .. k - 1 : ~Stops(it, n, i)
<1>1. last \in Nat \ {0} /\ last \in it.chain .. last
  BY Layout
<1>2. S \in SUBSET Nat /\ S # {}
  <2>1. Stops(it, n, last)
    BY DEF Stops
  <2>2. last \in S
    BY <1>1, <2>1
  <2> QED
    BY <1>1, <2>2
<1>3. PICK k \in S : \A i \in S : k <= i
  <2> HIDE DEF S
  <2> QED
    BY <1>2, LeastNumber
<1>4. \A i \in it.chain .. k - 1 : ~Stops(it, n, i)
  <2> SUFFICES ASSUME NEW i \in it.chain .. k - 1, Stops(it, n, i) PROVE FALSE
    OBVIOUS
  <2>1. k \in it.chain .. last
    BY <1>3
  <2>2. i \in it.chain .. last /\ ~(k <= i)
    BY <1>1, <2>1
  <2> QED
    BY <1>3, <2>2
<1>5. k \in it.chain .. last /\ Stops(it, n, k)
  BY <1>3
<1>6. /\ j \in it.chain .. last /\ Stops(it, n, j)
      /\ \A i \in it.chain .. j - 1 : ~Stops(it, n, i)
  BY <1>4, <1>5, Zenon
<1>7. Plus(it, n) = [chain |-> j, offB |-> it.offB + n, offC |-> StepsLeft(it, n, j)]
  BY DEF Plus, Landed
<1> HIDE DEF j
<1> QED
  BY <1>6, <1>7

\* From byte x, n steps lead to byte x + n, or to the end of the buffer.
LEMMA PlusAddresses ==
  ASSUME HasBytes, LaterAligned, NEW it, NEW x \in 0 .. totalLen, At(it, x),
         NEW n \in 0 .. totalLen
  PROVE  At(Plus(it, n), IF x + n > totalLen THEN totalLen ELSE x + n)
<1>1. totalLen \in Nat /\ it.chain \in 1 .. last /\ it.offB = x /\ last \in Nat
  BY Layout DEF At
<1>2. Unsigned(totalLen - it.offB) = totalLen - x
  <2>1. totalLen - x \in 0 .. totalLen
    BY <1>1
  <2> QED
    BY <1>1, <2>1, UnsignedRest
<1>3. CASE n = 0
  <2>1. Plus(it, n) = it
    BY <1>3 DEF Plus
  <2>2. ~(x + n > totalLen) /\ x + n = x
    BY <1>1, <1>3
  <2> QED
    BY <2>1, <2>2
<1>4. CASE n # 0 /\ x + n > totalLen
  <2>1. n > Unsigned(totalLen - it.offB)
    BY <1>1, <1>2, <1>4
  <2>2. Plus(it, n) = End
    BY <1>4, <2>1 DEF Plus
  <2> QED
    BY <1>4, <2>2, EndIsAt
<1>5. CASE n # 0 /\ ~(x + n > totalLen)
  <2>1. ~(n > Unsigned(totalLen - it.offB)) /\ n \in Nat /\ x \in Nat
    BY <1>1, <1>2, <1>5
  <2>2. PICK j \in it.chain .. last :
          Plus(it, n) = [chain |-> j, offB |-> it.offB + n, offC |-> StepsLeft(it, n, j)]
    BY <1>1, <1>5, <2>1, PlusStops
  <2>3. StepsLeft(it, n, j) \in Int /\ Start(j) + StepsLeft(it, n, j) = chains[1].lo + (x + n)
    BY <2>1, StepsReach
  <2>4. j \in 1 .. last
    BY <1>1
  <2>5. /\ Plus(it, n).chain = j /\ Plus(it, n).offB = x + n
        /\ Plus(it, n).offC = StepsLeft(it, n, j)
    BY <1>1, <2>2
  <2>6. At(Plus(it, n), x + n)
    BY <2>3, <2>4, <2>5 DEF At
  <2> QED
    BY <1>5, <2>6
<1> QED
  BY <1>3, <1>4, <1>5

\* Steps add up: after a, then b steps from begin() an iterator is at byte a + b
\* or at the end, in whatever chains these are and whatever was cut off the
\* first, for operator+ and the offset_of_buffer_ and offset_of_chain_ it keeps.
THEOREM StepsAddUp == ReadsSpec => []IteratorAddresses
<1>1. ASSUME BufferInv PROVE IteratorAddresses
  <2> SUFFICES ASSUME totalLen > 0, LaterAligned,
                      NEW a \in 0 .. totalLen, NEW b \in 0 .. totalLen
               PROVE  LET it == Plus(Plus(Begin, a), b)
                          to == IF a + b > totalLen THEN totalLen ELSE a + b
                      IN  it.offB = to /\ Address(it) = to
    BY DEF IteratorAddresses
  <2> DEFINE it == Plus(Plus(Begin, a), b)
             to == IF a + b > totalLen THEN totalLen ELSE a + b
  <2>1. HasBytes /\ totalLen \in Nat
    BY <1>1, SelfParts DEF HasBytes
  <2>2. 0 \in 0 .. totalLen /\ ~(0 + a > totalLen) /\ 0 + a = a
    BY <2>1
  <2>3. At(Plus(Begin, a), a)
    BY <2>1, <2>2, BeginIsAt, PlusAddresses
  <2>4. At(it, to) /\ to \in Nat
    BY <2>1, <2>3, PlusAddresses
  <2> HIDE DEF it, to
  <2>5. it.offB = to /\ it.chain \in 1 .. last /\ it.offC \in Int
    BY <2>4 DEF At
  <2>6. Address(it) = to
    BY <2>1, <2>4, <2>5, AddressIs DEF At
  <2> QED
    BY <2>5, <2>6 DEF it, to
<1> QED
  BY <1>1, BufferInvariance, PTL

-----------------------------------------------------------------------------
(***************************************************************************)
(* What is copied, and what is compared.                                   *)
(***************************************************************************)

\* The bytes u + 1 .. h.
Bytes(u, h) == [k \in 1 .. h - u |-> u + k]

LEMMA BytesMeet ==
  ASSUME NEW u \in Int, NEW g \in Int, NEW h \in Int, u <= g, g <= h
  PROVE  Bytes(u, g) \o Bytes(g, h) = Bytes(u, h)
<1>1. /\ Bytes(u, g) \in Seq(Int) /\ Bytes(g, h) \in Seq(Int) /\ Bytes(u, h) \in Seq(Int)
      /\ Len(Bytes(u, g)) = g - u /\ Len(Bytes(g, h)) = h - g /\ Len(Bytes(u, h)) = h - u
  BY DEF Bytes
<1> DEFINE s == Bytes(u, g) \o Bytes(g, h)
<1>2. \A a, b \in Seq(Int) :
        /\ a \o b \in Seq(Int) /\ Len(a \o b) = Len(a) + Len(b)
        /\ \A k \in 1 .. Len(a) + Len(b) : (a \o b)[k] = IF k <= Len(a) THEN a[k] ELSE b[k - Len(a)]
  OBVIOUS
<1>4. /\ s \in Seq(Int) /\ Len(s) = Len(Bytes(u, g)) + Len(Bytes(g, h))
      /\ \A k \in 1 .. Len(Bytes(u, g)) + Len(Bytes(g, h)) :
           s[k] = IF k <= Len(Bytes(u, g)) THEN Bytes(u, g)[k] ELSE Bytes(g, h)[k - Len(Bytes(u, g))]
  BY <1>1, <1>2
<1>5. Len(s) = h - u
  BY <1>1, <1>4
<1>6. \A k \in 1 .. h - u : s[k] = IF k <= g - u THEN Bytes(u, g)[k] ELSE Bytes(g, h)[k - (g - u)]
  <2>1. Len(Bytes(u, g)) = g - u /\ (g - u) + (h - g) = h - u
    BY <1>1
  <2> QED
    BY <1>1, <1>4, <2>1
<1> HIDE DEF s
<1>3. ASSUME NEW k \in 1 .. h - u PROVE s[k] = Bytes(u, h)[k]
  <2>1. Bytes(u, h)[k] = u + k
    BY DEF Bytes
  <2>2. CASE k <= g - u
    <3>1. k \in 1 .. g - u
      BY <2>2
    <3>2. s[k] = Bytes(u, g)[k]
      BY <1>6, <2>2
    <3> QED
      BY <2>1, <3>1, <3>2 DEF Bytes
  <2>3. CASE ~(k <= g - u)
    <3>1. k - (g - u) \in 1 .. h - g /\ g + (k - (g - u)) = u + k
      BY <2>3
    <3>2. s[k] = Bytes(g, h)[k - (g - u)]
      BY <1>6, <2>3
    <3> QED
      BY <2>1, <3>1, <3>2 DEF Bytes
  <2> QED
    BY <2>2, <2>3
<1>7. s = Bytes(u, h)
  <2>1. \A a, b \in Seq(Int) : Len(a) = Len(b) /\ (\A k \in 1 .. Len(a) : a[k] = b[k]) => a = b
    OBVIOUS
  <2> QED
    BY <1>1, <1>3, <1>4, <1>5, <2>1
<1> QED
  BY <1>7 DEF s

\* FlattenSeq of pieces each of which begins where the one before ends.
LEMMA FlattenJoins ==
  ASSUME NEW m \in Nat \ {0}, NEW e \in [0 .. m -> Int],
         \A k \in 1 .. m : e[k - 1] <= e[k],
         NEW seqs, Len(seqs) = m, \A k \in 1 .. m : seqs[k] = Bytes(e[k - 1], e[k])
  PROVE  Lib!FlattenSeq(seqs) = Bytes(e[0], e[m])
<1> DEFINE D == 1 .. m
           R(f, k) == IF k = 1 THEN seqs[k] ELSE f[k - 1] \o seqs[k]
           w == [k \in D |-> Bytes(e[0], e[k])]
           flatten == CHOOSE f : f = [k \in 1 .. Len(seqs) |-> IF k = 1 THEN seqs[k] ELSE f[k - 1] \o seqs[k]]
           T == {k \in 0 .. m : e[0] <= e[k]}
<1>1. ASSUME NEW k \in 0 .. m PROVE e[0] <= e[k]
  <2>1. 0 \in T
    OBVIOUS
  <2>2. ASSUME NEW j \in 0 .. m - 1, j \in T PROVE j + 1 \in T
    <3>1. j + 1 \in 1 .. m /\ j + 1 \in 0 .. m /\ (j + 1) - 1 = j /\ j \in 0 .. m
      OBVIOUS
    <3>2. e[j] <= e[j + 1] /\ e[0] <= e[j] /\ e[j] \in Int /\ e[j + 1] \in Int /\ e[0] \in Int
      BY <2>2, <3>1
    <3> QED
      BY <3>1, <3>2
  <2>3. T = 0 .. m
    <3>1. T \in SUBSET (0 .. m)
      OBVIOUS
    <3> HIDE DEF T
    <3> QED
      BY <2>1, <2>2, <3>1, InductionTo
  <2> QED
    BY <2>3
<1>2. \A k \in D : w[k] = Bytes(e[0], e[k])
  OBVIOUS
<1>3. ASSUME NEW k \in D, k # 1
      PROVE  k - 1 \in D /\ Bytes(e[0], e[k - 1]) \o seqs[k] = Bytes(e[0], e[k])
  <2>1. k \in 1 .. m /\ k - 1 \in 1 .. m /\ k - 1 \in 0 .. m /\ k \in 0 .. m /\ 0 \in 0 .. m
    BY <1>3
  <2>2. /\ e[0] \in Int /\ e[k - 1] \in Int /\ e[k] \in Int
        /\ e[0] <= e[k - 1] /\ e[k - 1] <= e[k] /\ seqs[k] = Bytes(e[k - 1], e[k])
    BY <1>1, <2>1
  <2>3. Bytes(e[0], e[k - 1]) \o Bytes(e[k - 1], e[k]) = Bytes(e[0], e[k])
    <3> DEFINE u == e[0]
               g == e[k - 1]
               h == e[k]
    <3>1. u \in Int /\ g \in Int /\ h \in Int /\ u <= g /\ g <= h
      BY <2>2
    <3> HIDE DEF u, g, h
    <3>2. Bytes(u, g) \o Bytes(g, h) = Bytes(u, h)
      BY <3>1, BytesMeet
    <3> QED
      BY <3>2 DEF u, g, h
  <2> QED
    BY <2>1, <2>2, <2>3
<1>4. seqs[1] = Bytes(e[0], e[1])
  <2>1. 1 \in 1 .. m /\ 1 - 1 = 0
    OBVIOUS
  <2> QED
    BY <2>1
<1> HIDE DEF w, T
<1>5. w = [k \in D |-> R(w, k)]
  <2>1. \A k \in D : w[k] = R(w, k)
    BY <1>2, <1>3, <1>4
  <2>2. w = [k \in D |-> w[k]]
    BY DEF w
  <2> HIDE DEF D, R
  <2> QED
    BY <2>1, <2>2
<1>6. flatten = [k \in D |-> R(flatten, k)]
  <2>1. \E f : f = [k \in 1 .. Len(seqs) |-> IF k = 1 THEN seqs[k] ELSE f[k - 1] \o seqs[k]]
    BY <1>5
  <2>2. flatten = [k \in 1 .. Len(seqs) |-> IF k = 1 THEN seqs[k] ELSE flatten[k - 1] \o seqs[k]]
    BY <2>1, Zenon
  <2> HIDE DEF flatten
  <2> QED
    BY <2>2
<1>7. Lib!FlattenSeq(seqs) = flatten[m]
  BY DEF Lib!FlattenSeq
<1> HIDE DEF flatten
<1>8. \A k \in D : flatten[k] = R(flatten, k)
  BY <1>6
<1> DEFINE S == {k \in 0 .. m - 1 : flatten[k + 1] = Bytes(e[0], e[k + 1])}
<1>9. 0 \in S
  <2>1. 1 \in D /\ 0 \in 0 .. m - 1 /\ 0 + 1 = 1
    OBVIOUS
  <2>2. flatten[1] = seqs[1]
    BY <1>8, <2>1
  <2> QED
    BY <1>4, <2>1, <2>2
<1>10. ASSUME NEW k \in 0 .. m - 1 - 1, k \in S PROVE k + 1 \in S
  <2>1. /\ k + 2 \in D /\ k + 2 # 1 /\ (k + 2) - 1 = k + 1 /\ (k + 1) + 1 = k + 2
        /\ k + 1 \in 0 .. m - 1
    OBVIOUS
  <2>2. flatten[k + 1] = Bytes(e[0], e[k + 1])
    BY <1>10
  <2>3. flatten[k + 2] = flatten[k + 1] \o seqs[k + 2]
    BY <1>8, <2>1
  <2>4. Bytes(e[0], e[k + 1]) \o seqs[k + 2] = Bytes(e[0], e[k + 2])
    BY <1>3, <2>1
  <2> QED
    BY <2>1, <2>2, <2>3, <2>4
<1>11. S = 0 .. m - 1
  <2>1. S \in SUBSET (0 .. m - 1) /\ m - 1 \in Nat
    OBVIOUS
  <2> HIDE DEF S
  <2> QED
    BY <1>9, <1>10, <2>1, InductionTo
<1>12. m - 1 \in 0 .. m - 1 /\ (m - 1) + 1 = m
  OBVIOUS
<1>13. flatten[m] = Bytes(e[0], e[m])
  BY <1>11, <1>12
<1> QED
  BY <1>7, <1>13

\* From an iterator at byte x of its chain on there are the bytes after x.
LEMMA BytesFromIs ==
  ASSUME HasBytes, NEW it, NEW x \in Nat, At(it, x), InChain(it)
  PROVE  BytesFrom(it) = Bytes(chains[1].lo + x, chains[1].lo + totalLen)
<1> DEFINE c == it.chain
           m == last - c + 1
           from == chains[1].lo + x
           e == [k \in 0 .. m |-> IF k = 0 THEN from ELSE chains[c + k - 1].hi]
           seqs == [k \in 1 .. m |-> Piece(it, c + k - 1)]
<1>1. /\ last \in Nat \ {0} /\ 1 \in 1 .. last /\ totalLen \in Nat
      /\ totalLen = chains[last].hi - chains[1].lo
      /\ c \in 1 .. last /\ it.offC \in Int /\ Start(c) + it.offC = from
  BY Layout DEF At
<1>2. chains[1].lo \in Nat /\ chains[last].hi \in Nat /\ from \in Int
  BY <1>1, ChainAt
<1>3. m \in Nat \ {0} /\ c + m - 1 = last /\ m # 0 /\ 0 \in 0 .. m
  BY <1>1
<1>4. ASSUME NEW k \in 1 .. m
      PROVE  c + k - 1 \in 1 .. last /\ c + k - 1 \in Nat /\ k \in 0 .. m /\ k # 0
  BY <1>1
<1>5. e \in [0 .. m -> Int] /\ e[0] = from /\ \A k \in 1 .. m : e[k] = chains[c + k - 1].hi
  <2>1. ASSUME NEW k \in 0 .. m PROVE (IF k = 0 THEN from ELSE chains[c + k - 1].hi) \in Int
    <3>1. CASE k = 0
      BY <1>2, <3>1
    <3>2. CASE k # 0
      <4>1. k \in 1 .. m
        BY <1>3, <3>2
      <4>2. chains[c + k - 1].hi \in Nat
        BY <1>4, <4>1, ChainAt
      <4> QED
        BY <3>2, <4>2
    <3> QED
      BY <3>1, <3>2
  <2>2. e \in [0 .. m -> Int]
    BY <2>1
  <2>3. e[0] = from
    BY <1>3
  <2>4. \A k \in 1 .. m : e[k] = chains[c + k - 1].hi
    BY <1>4
  <2> QED
    BY <2>2, <2>3, <2>4
<1>6. Len(seqs) = m /\ \A k \in 1 .. m : seqs[k] = Piece(it, c + k - 1)
  BY <1>3
<1>7. BytesFrom(it) = Lib!FlattenSeq(seqs)
  BY DEF BytesFrom
<1> HIDE DEF e, seqs, m, from
<1>8. ASSUME NEW k \in 1 .. m
      PROVE  e[k - 1] <= e[k] /\ seqs[k] = Bytes(e[k - 1], e[k])
  <2> DEFINE i == c + k - 1
  <2>1. /\ i \in 1 .. last /\ seqs[k] = Piece(it, i) /\ e[k] = chains[i].hi
    BY <1>4, <1>5, <1>6
  <2>2. /\ chains[i].lo \in Nat /\ chains[i].hi \in Nat /\ chains[i].mis \in Nat
        /\ chains[i].lo < chains[i].hi /\ Off(chains[i]) \in Nat
        /\ Start(i) \in Int /\ Start(i) + chains[i].mis = chains[i].lo
        /\ Start(i) + Off(chains[i]) = chains[i].hi
    BY <2>1, ChainAt, StartIs
  <2>3. /\ CopyStart(it, i) \in Int /\ Start(i) + CopyStart(it, i) = e[k - 1]
        /\ e[k - 1] <= e[k] /\ e[k - 1] \in Int
    <3>1. CASE k = 1
      <4>1. i = c /\ k - 1 = 0
        BY <1>1, <3>1
      <4>2. CopyStart(it, i) = it.offC /\ e[k - 1] = from
        BY <1>5, <4>1 DEF CopyStart
      <4>3. it.offC < Off(chains[i])
        BY <4>1 DEF InChain
      <4> QED
        BY <1>1, <1>2, <2>1, <2>2, <4>1, <4>2, <4>3
    <3>2. CASE k # 1
      <4>1. /\ i # c /\ k - 1 \in 1 .. m /\ i - 1 \in 1 .. last - 1 /\ (i - 1) + 1 = i
            /\ c + (k - 1) - 1 = i - 1
        BY <1>1, <1>3, <2>1, <3>2 DEF m
      <4>2. CopyStart(it, i) = chains[i].mis
        BY <4>1 DEF CopyStart
      <4>3. e[k - 1] = chains[i - 1].hi /\ chains[i - 1].hi = chains[i].lo
        BY <1>5, <4>1, ChainsTouch
      <4> QED
        BY <2>1, <2>2, <4>2, <4>3
    <3> QED
      BY <3>1, <3>2
  <2> DEFINE start == CopyStart(it, i)
             off == Off(chains[i])
  <2>4. Piece(it, i) = [p \in 1 .. off - start |-> ByteAt(chains[i], start + p - 1)]
    BY DEF Piece
  <2>5. ASSUME NEW p \in 1 .. off - start PROVE ByteAt(chains[i], start + p - 1) = e[k - 1] + p
    <3>1. ByteAt(chains[i], start + p - 1) = Start(i) + (start + p - 1) + 1
      BY DEF ByteAt, Start
    <3> HIDE DEF start, off, i
    <3>2. start \in Int /\ Start(i) \in Int /\ Start(i) + start = e[k - 1] /\ p \in Int
      BY <2>2, <2>3 DEF start
    <3> QED
      BY <3>1, <3>2
  <2>6. off - start = e[k] - e[k - 1]
    BY <2>1, <2>2, <2>3
  <2> HIDE DEF start, off, i
  <2>7. Piece(it, i) = [p \in 1 .. e[k] - e[k - 1] |-> e[k - 1] + p]
    BY <2>4, <2>5, <2>6
  <2> QED
    BY <2>1, <2>3, <2>7 DEF Bytes
<1>9. Lib!FlattenSeq(seqs) = Bytes(e[0], e[m])
  BY <1>3, <1>5, <1>6, <1>8, FlattenJoins
<1>10. e[m] = chains[1].lo + totalLen
  <2>1. m \in 1 .. m
    BY <1>3
  <2>2. e[m] = chains[last].hi
    BY <1>3, <1>5, <2>1
  <2> QED
    BY <1>1, <1>2, <2>2
<1> QED
  BY <1>5, <1>7, <1>9, <1>10 DEF from

\* The steps from begin() that are left: less with every chain, and not more
\* than there are bytes left to go.
LEMMA StepsFromBegin ==
  ASSUME HasBytes, NEW n \in Nat
  PROVE  /\ StepsLeft(Begin, n, 1) = n + chains[1].mis
         /\ \A j \in 1 .. last : StepsLeft(Begin, n, j) \in Int
         /\ \A j \in 1 .. last - 1 :
              /\ StepsLeft(Begin, n, j + 1) = StepsLeft(Begin, n, j) - Off(chains[j])
              /\ StepsLeft(Begin, n, j + 1) <= n - (chains[j + 1].lo - chains[1].lo)
<1>1. last \in Nat \ {0} /\ 1 \in 1 .. last
  BY Layout
<1>2. chains[1].mis \in Nat /\ chains[1].lo \in Nat
  BY <1>1, ChainAt
<1>3. Begin.chain = 1 /\ Begin.offC = chains[1].mis
  BY DEF Begin
<1>4. PICK t \in [0 .. last -> Nat] :
        t[0] = 0 /\ \A j \in 1 .. last : t[j] = t[j - 1] + Off(chains[j])
  BY OffsetsHaveSums
<1>5. ASSUME NEW j \in 1 .. last
      PROVE  StepsLeft(Begin, n, j) = n + chains[1].mis - t[j - 1] /\ t[j - 1] \in Nat
  <2>1. Begin.chain \in 1 .. last /\ j \in Begin.chain .. last /\ j - 1 \in 0 .. last
    BY <1>1, <1>3
  <2>2. StepsLeft(Begin, n, j) = n + Begin.offC - (t[j - 1] - t[Begin.chain - 1])
    BY <1>4, <2>1, StepsCounted
  <2>3. t[Begin.chain - 1] = 0 /\ t[j - 1] \in Nat
    BY <1>3, <1>4, <2>1
  <2> QED
    BY <1>2, <1>3, <2>2, <2>3
<1>6. ASSUME NEW j \in 1 .. last - 1
      PROVE  /\ StepsLeft(Begin, n, j + 1) = StepsLeft(Begin, n, j) - Off(chains[j])
             /\ StepsLeft(Begin, n, j + 1) <= n - (chains[j + 1].lo - chains[1].lo)
  <2>1. j \in 1 .. last /\ j + 1 \in 1 .. last /\ (j + 1) - 1 = j /\ chains[j].hi = chains[j + 1].lo
    BY <1>1, ChainsTouch
  <2>2. chains[j].hi \in Nat /\ Off(chains[j]) \in Nat
    BY <2>1, ChainAt
  <2>3. t[j] >= chains[1].mis + (chains[j].hi - chains[1].lo)
    BY <1>4, <2>1, OffsetsAreEnough
  <2>4. t[j] = t[j - 1] + Off(chains[j]) /\ t[j - 1] \in Nat /\ t[j] \in Nat
    BY <1>4, <1>5, <2>1
  <2>5. /\ StepsLeft(Begin, n, j) = n + chains[1].mis - t[j - 1]
        /\ StepsLeft(Begin, n, j + 1) = n + chains[1].mis - t[j]
    BY <1>5, <2>1
  <2>6. StepsLeft(Begin, n, j + 1) = StepsLeft(Begin, n, j) - Off(chains[j])
    BY <1>2, <2>2, <2>4, <2>5
  <2>7. StepsLeft(Begin, n, j + 1) <= n - (chains[j].hi - chains[1].lo)
    <3>1. \A m, l, h, u \in Nat : u >= m + (h - l) => n + m - u <= n - (h - l)
      OBVIOUS
    <3>2. n + chains[1].mis - t[j] <= n - (chains[j].hi - chains[1].lo)
      BY <1>2, <2>2, <2>3, <2>4, <3>1
    <3> QED
      BY <2>5, <3>2
  <2> QED
    BY <2>1, <2>6, <2>7
<1>7. StepsLeft(Begin, n, 1) = n + chains[1].mis
  BY <1>1, <1>2, <1>4, <1>5
<1>8. \A j \in 1 .. last : StepsLeft(Begin, n, j) \in Int
  <2>1. \A j \in 1 .. last : n + chains[1].mis - t[j - 1] \in Int
    BY <1>2, <1>5
  <2> QED
    BY <1>5, <2>1
<1> QED
  BY <1>6, <1>7, <1>8

\* Where a steps from begin() end if that is byte a, in chains that need not be
\* aligned: inside a chain, or behind the last byte of one that has a next.
LEMMA BeginPlusLands ==
  ASSUME HasBytes, NEW a \in 0 .. totalLen - 1, Address(Plus(Begin, a)) = a
  PROVE  /\ At(Plus(Begin, a), a)
         /\ \/ InChain(Plus(Begin, a))
            \/ \E i \in 1 .. last - 1 : chains[1].lo + a = chains[i].hi
<1> DEFINE it == Plus(Begin, a)
<1>1. last \in Nat \ {0} /\ 1 \in 1 .. last /\ totalLen \in Nat /\ a \in Nat
  BY Layout
<1>2. chains[1].lo \in Nat /\ chains[1].mis \in Nat /\ Off(chains[1]) \in Nat /\ chains[1].lo < chains[1].hi
      /\ chains[1].hi \in Nat
  BY <1>1, ChainAt
<1>3. Begin.chain = 1 /\ Begin.offB = 0 /\ Begin.offC = chains[1].mis
  BY DEF Begin
<1>4. CASE a = 0
  <2>1. it = Begin
    BY <1>4 DEF Plus
  <2>2. Off(chains[1]) = chains[1].mis + (chains[1].hi - chains[1].lo)
    BY <1>1, ChainAt
  <2>3. InChain(Begin)
    BY <1>2, <1>3, <2>2 DEF InChain
  <2> QED
    BY <1>4, <2>1, <2>3, BeginIsAt
<1>5. CASE a # 0
  <2>1. ~(a > Unsigned(totalLen - Begin.offB)) /\ Begin.chain \in 1 .. last
    <3>1. totalLen - Begin.offB \in 0 .. totalLen /\ totalLen - Begin.offB = totalLen
      BY <1>1, <1>3
    <3>2. Unsigned(totalLen - Begin.offB) = totalLen
      BY <3>1, UnsignedRest
    <3> QED
      BY <1>1, <1>3, <3>2
  <2>2. PICK j \in Begin.chain .. last :
          /\ it = [chain |-> j, offB |-> Begin.offB + a, offC |-> StepsLeft(Begin, a, j)]
          /\ Stops(Begin, a, j) /\ \A i \in Begin.chain .. j - 1 : ~Stops(Begin, a, i)
    BY <1>1, <1>5, <2>1, PlusStops
  <2> DEFINE y == StepsLeft(Begin, a, j)
  <2>3. j \in 1 .. last /\ it.chain = j /\ it.offB = a /\ it.offC = y /\ y \in Int
    BY <1>1, <1>3, <2>2, StepsFromBegin
  <2> HIDE DEF it
  <2>4. Start(j) + y = chains[1].lo + a
    BY <1>1, <2>3, AddressIs DEF it
  <2>5. /\ chains[j].lo \in Nat /\ chains[j].hi \in Nat /\ chains[j].mis \in Nat
        /\ chains[j].lo < chains[j].hi /\ Off(chains[j]) \in Nat
        /\ Start(j) \in Int /\ Start(j) + chains[j].mis = chains[j].lo
        /\ Start(j) + Off(chains[j]) = chains[j].hi
    BY <2>3, ChainAt, StartIs
  <2>6. At(it, a)
    BY <2>3, <2>4 DEF At
  <2>7. chains[j].mis <= y
    <3>1. CASE j = 1
      <4>1. y = a + chains[1].mis
        BY <1>1, <3>1, StepsFromBegin
      <4> QED
        BY <1>1, <1>2, <3>1, <4>1
    <3>2. CASE j # 1
      <4> DEFINE z == StepsLeft(Begin, a, j - 1)
      <4>1. /\ j - 1 \in 1 .. last - 1 /\ (j - 1) + 1 = j /\ j - 1 \in Begin.chain .. j - 1
            /\ j - 1 \in 1 .. last
        BY <1>1, <1>3, <2>3, <3>2
      <4>2. y = z - Off(chains[j - 1]) /\ y <= a - (chains[j].lo - chains[1].lo) /\ z \in Int
        BY <1>1, <4>1, StepsFromBegin
      <4>3. ~Stops(Begin, a, j - 1)
        BY <2>2, <4>1
      <4>4. ~(z <= Off(chains[j - 1])) /\ Off(chains[j - 1]) \in Nat
        BY <4>1, <4>3, ChainAt DEF Stops
      <4> HIDE DEF z, y
      <4>5. y > 0
        BY <4>2, <4>4
      <4>6. chains[j].mis <= 0
        BY <1>1, <1>2, <2>3, <2>4, <2>5, <4>2
      <4> QED
        BY <2>3, <2>5, <4>5, <4>6
    <3> QED
      BY <3>1, <3>2
  <2>8. CASE y < Off(chains[j])
    BY <2>3, <2>6, <2>7, <2>8 DEF InChain, it
  <2>9. CASE ~(y < Off(chains[j]))
    <3>1. chains[j].hi <= chains[1].lo + a
      <4> HIDE DEF y
      <4> QED
        BY <1>1, <1>2, <2>3, <2>4, <2>5, <2>9
    <3>2. j # last
      <4>1. totalLen = chains[last].hi - chains[1].lo
        BY Layout
      <4>2. chains[last].hi \in Nat
        BY <1>1, ChainAt
      <4> QED
        BY <1>1, <1>2, <3>1, <4>1, <4>2
    <3>3. j \in 1 .. last - 1
      BY <1>1, <2>3, <3>2
    <3>4. y <= Off(chains[j])
      BY <2>2, <3>2 DEF Stops
    <3>5. y = Off(chains[j])
      <4> HIDE DEF y
      <4> QED
        BY <2>3, <2>5, <2>9, <3>4
    <3>6. chains[1].lo + a = chains[j].hi
      BY <2>4, <2>5, <3>5
    <3> QED
      BY <2>6, <3>3, <3>6 DEF it
  <2> QED
    BY <2>8, <2>9
<1> QED
  BY <1>4, <1>5

LEMMA FirstBytes ==
  ASSUME NEW u \in Nat, NEW h \in Nat, NEW n \in 1 .. h - u
  PROVE  SubSeq(Bytes(u, h), 1, n) = [p \in 1 .. n |-> u + p]
<1>1. Bytes(u, h) \in Seq(Int) /\ Len(Bytes(u, h)) = h - u
  BY DEF Bytes
<1>2. SubSeq(Bytes(u, h), 1, n) = [p \in 1 .. n |-> Bytes(u, h)[p]]
  BY <1>1
<1>3. \A p \in 1 .. n : Bytes(u, h)[p] = u + p
  BY DEF Bytes
<1> QED
  BY <1>2, <1>3

\* copy_out_from and the partial copies give the bytes from the iterator on, in
\* whatever chains these are, misaligned or not: as many as were asked for, or all
\* that follow, which leaves remove() with the rest.  They refuse only at the end of
\* a chain, for copies that start where the iterator is and go on with the first
\* byte of each next chain.
THEOREM CopiesAreParts == ReadsSpec => []CopyIsPart
<1>1. ASSUME BufferInv PROVE CopyIsPart
  <2> DEFINE There(a, n) == IF n > totalLen - a THEN totalLen - a ELSE n
  <2> SUFFICES ASSUME totalLen > 0, NEW a \in 0 .. totalLen - 1, NEW n \in 1 .. MaxBytes + 1,
                      Address(Plus(Begin, a)) = a
               PROVE  IF CopiesOut(Plus(Begin, a), n)
                        THEN /\ CopyFrom(Plus(Begin, a), n).bytes =
                                  [p \in 1 .. There(a, n) |-> chains[1].lo + a + p]
                             /\ RemainToRemove(CopyFrom(Plus(Begin, a), n), n) =
                                  n - There(a, n)
                        ELSE \E i \in 1 .. last - 1 : chains[1].lo + a = chains[i].hi
    BY DEF CopyIsPart
  <2>1. HasBytes /\ totalLen \in Nat /\ MaxBytes \in Nat
    BY <1>1, SelfParts, WidthAssumption DEF HasBytes
  <2> DEFINE it == Plus(Begin, a)
             there == There(a, n)
  <2>2. /\ At(it, a)
        /\ InChain(it) \/ \E i \in 1 .. last - 1 : chains[1].lo + a = chains[i].hi
    BY <2>1, BeginPlusLands
  <2> HIDE DEF it
  <2>3. CASE ~CopiesOut(it, n)
    <3>1. ~InChain(it)
      BY <2>1, <2>3 DEF CopiesOut
    <3> QED
      BY <2>2, <2>3, <3>1 DEF it
  <2>4. CASE CopiesOut(it, n)
    <3>1. InChain(it) /\ it.offB = a /\ a \in Nat
      BY <2>1, <2>2, <2>4 DEF CopiesOut, At
    <3> DEFINE u == chains[1].lo + a
               h == chains[1].lo + totalLen
    <3>2. BytesFrom(it) = Bytes(u, h)
      BY <2>1, <2>2, <3>1, BytesFromIs
    <3>3. chains[1].lo \in Nat
      <4>1. 1 \in 1 .. last
        BY <2>1, Layout
      <4> QED
        BY <2>1, <4>1, ChainAt
    <3>4. u \in Nat /\ h \in Nat /\ there \in 1 .. h - u
      BY <2>1, <3>1, <3>3
    <3>5. CopyFrom(it, n).bytes = SubSeq(Bytes(u, h), 1, there)
      BY <3>1, <3>2 DEF CopyFrom
    <3> HIDE DEF u, h, there
    <3>6. CopyFrom(it, n).bytes = [p \in 1 .. there |-> u + p]
      BY <3>4, <3>5, FirstBytes
    <3>7. Len(CopyFrom(it, n).bytes) = there
      BY <3>4, <3>6
    <3>8. CopyFrom(it, n).total = n
      BY DEF CopyFrom
    <3>9. n \in Nat /\ there \in Nat /\ there <= n
      BY <2>1, <3>1, <3>4 DEF there
    <3>10. RemainToRemove(CopyFrom(it, n), n) = n - there
      BY <3>7, <3>8, <3>9 DEF RemainToRemove
    <3> QED
      BY <2>4, <3>6, <3>10 DEF it, u, there
  <2> QED
    BY <2>3, <2>4 DEF it
<1> QED
  BY <1>1, BufferInvariance, PTL

-----------------------------------------------------------------------------
(***************************************************************************)
(* search.                                                                 *)
(***************************************************************************)

\* In a packed buffer the capacities of the chains before are their bytes.
LEMMA PackedChain ==
  ASSUME HasBytes, Packed, NEW i \in 1 .. last
  PROVE  /\ chains[i].mis = 0 /\ Start(i) = chains[i].lo
         /\ Off(chains[i]) = chains[i].hi - chains[i].lo
         /\ i < last => chains[i].cap = chains[i].hi - chains[i].lo
<1>1. i \in DOMAIN chains
  BY Layout
<1>2. chains[i].mis = 0 /\ (i < last => Off(chains[i]) = chains[i].cap)
  BY <1>1 DEF Packed
<1> QED
  BY <1>2, ChainAt DEF Start

LEMMA PackedIsAligned ==
  ASSUME HasBytes, Packed
  PROVE  LaterAligned
<1>1. last = Len(chains) /\ chains \in Seq(Chain)
  BY Layout
<1> QED
  BY <1>1, PackedChain DEF LaterAligned

LEMMA CapsCounted ==
  ASSUME HasBytes, Packed, NEW i \in 1 .. last
  PROVE  IterOfChain(i).offB = chains[i].lo - chains[1].lo
<1> DEFINE m == last - 1
           t == [k \in 0 .. m |-> chains[k + 1].lo - chains[1].lo]
           v == [k \in 1 .. m |-> chains[k].cap]
           D == 1 - 1 .. i - 1
           s == CHOOSE f : f = [k \in D |-> IF k < 1 THEN 0 ELSE f[k - 1] + chains[k].cap]
<1>1. last \in Nat \ {0} /\ 1 \in 1 .. last /\ m \in Nat /\ i - 1 \in 0 .. m
  BY Layout
<1>2. \A k \in 1 .. m : k \in 1 .. last /\ k < last
  BY <1>1
<1>3. v \in [1 .. m -> Nat] /\ \A k \in 1 .. m : v[k] = chains[k].cap
  BY <1>2, ChainAt
<1>4. t \in [0 .. m -> Nat] /\ \A k \in 0 .. m : t[k] = chains[k + 1].lo - chains[1].lo
  <2>1. ASSUME NEW k \in 0 .. m PROVE chains[k + 1].lo - chains[1].lo \in Nat
    <3>1. k + 1 \in 1 .. last
      BY <1>1
    <3>2. chains[k + 1].lo \in Nat /\ chains[1].lo \in Nat /\ chains[1].lo < chains[1].hi
          /\ chains[1].hi \in Nat
      BY <1>1, <3>1, ChainAt
    <3>3. CASE k = 0
      BY <3>2, <3>3
    <3>4. CASE k # 0
      <4>1. 1 < k + 1
        BY <1>1, <3>4
      <4>2. chains[1].hi <= chains[k + 1].lo
        BY <1>1, <3>1, <4>1, ChainsAscend
      <4> QED
        BY <3>2, <4>2
    <3> QED
      BY <3>3, <3>4
  <2> QED
    BY <2>1
<1> HIDE DEF v, t, m
<1>5. ASSUME NEW k \in 1 .. m PROVE t[k] = t[k - 1] + v[k]
  <2>1. /\ k \in 1 .. last - 1 /\ k \in 1 .. last /\ k + 1 \in 1 .. last /\ k < last
        /\ k \in 0 .. m /\ k - 1 \in 0 .. m /\ (k - 1) + 1 = k
    BY <1>1 DEF m
  <2>2. t[k] = chains[k + 1].lo - chains[1].lo /\ t[k - 1] = chains[k].lo - chains[1].lo
    BY <1>4, <2>1
  <2>3. v[k] = chains[k].hi - chains[k].lo
    BY <1>3, <2>1, PackedChain
  <2>4. chains[k].hi = chains[k + 1].lo
    BY <2>1, ChainsTouch
  <2>5. chains[k].lo \in Nat /\ chains[k].hi \in Nat /\ chains[1].lo \in Nat
    BY <1>1, <2>1, ChainAt
  <2> QED
    BY <2>2, <2>3, <2>4, <2>5
<1>6. /\ \E f \in [D -> Int] : \A k \in D : f[k] = IF k < 1 THEN 0 ELSE f[k - 1] + v[k]
      /\ \A f : (\A k \in D : f[k] = IF k < 1 THEN 0 ELSE f[k - 1] + v[k])
                  => f[i - 1] = t[i - 1] - t[1 - 1]
  <2> DEFINE first == 1
             end == i - 1
  <2>1. first \in 1 .. m + 1 /\ end \in first - 1 .. m
    BY <1>1
  <2>2. D = first - 1 .. end /\ i - 1 = end /\ 1 = first
    OBVIOUS
  <2> HIDE DEF D, first, end
  <2>3. /\ \E f \in [first - 1 .. end -> Int] :
             \A k \in first - 1 .. end : f[k] = IF k < first THEN 0 ELSE f[k - 1] + v[k]
        /\ \A f : (\A k \in first - 1 .. end : f[k] = IF k < first THEN 0 ELSE f[k - 1] + v[k])
                    => f[end] = t[end] - t[first - 1]
    <3>1. /\ m \in Nat /\ v \in [1 .. m -> Nat] /\ t \in [0 .. m -> Nat]
          /\ \A k \in 1 .. m : t[k] = t[k - 1] + v[k]
      BY <1>1, <1>3, <1>4, <1>5
    <3> QED
      BY <2>1, <3>1, SumFrom
  <2> QED
    BY <2>2, <2>3, Zenon
<1>7. \A k \in D : k < 1 \/ v[k] = chains[k].cap
  <2>1. \A k \in D : k < 1 \/ k \in 1 .. m
    BY <1>1
  <2> HIDE DEF D
  <2> QED
    BY <1>3, <2>1
<1>8. s = [k \in D |-> IF k < 1 THEN 0 ELSE s[k - 1] + chains[k].cap]
  <2>1. PICK f \in [D -> Int] : \A k \in D : f[k] = IF k < 1 THEN 0 ELSE f[k - 1] + v[k]
    BY <1>6
  <2> HIDE DEF D
  <2>2. \A k \in D : f[k] = IF k < 1 THEN 0 ELSE f[k - 1] + chains[k].cap
    BY <1>7, <2>1
  <2>3. f = [k \in D |-> f[k]]
    OBVIOUS
  <2>4. f = [k \in D |-> IF k < 1 THEN 0 ELSE f[k - 1] + chains[k].cap]
    BY <2>2, <2>3
  <2> QED
    BY <2>4, Zenon
<1>9. IterOfChain(i).offB = s[i - 1]
  BY DEF IterOfChain, SumOver
<1> HIDE DEF s
<1>10. s[i - 1] = t[i - 1] - t[1 - 1]
  <2>1. \A k \in D : s[k] = IF k < 1 THEN 0 ELSE s[k - 1] + v[k]
    BY <1>7, <1>8
  <2> QED
    BY <1>6, <2>1
<1>11. t[i - 1] = chains[i].lo - chains[1].lo /\ t[1 - 1] = chains[1].lo - chains[1].lo
  <2>1. (i - 1) + 1 = i /\ (1 - 1) + 1 = 1 /\ 1 - 1 \in 0 .. m
    BY <1>1
  <2> QED
    BY <1>1, <1>4, <2>1
<1>12. chains[i].lo \in Nat /\ chains[1].lo \in Nat
  BY <1>1, ChainAt
<1> QED
  BY <1>9, <1>10, <1>11, <1>12

LEMMA IterOfChainIsAt ==
  ASSUME HasBytes, Packed, NEW i \in 1 .. last
  PROVE  /\ At(IterOfChain(i), chains[i].lo - chains[1].lo)
         /\ IterOfChain(i).chain = i /\ IterOfChain(i).offC = 0
<1>1. IterOfChain(i).chain = i /\ IterOfChain(i).offC = chains[i].mis
  BY DEF IterOfChain
<1>2. chains[i].mis = 0 /\ Start(i) = chains[i].lo
  BY PackedChain
<1>3. IterOfChain(i).offB = chains[i].lo - chains[1].lo
  BY CapsCounted
<1>4. chains[i].lo \in Nat /\ chains[1].lo \in Nat
  <2>1. 1 \in 1 .. last
    BY Layout
  <2> QED
    BY <2>1, ChainAt
<1> QED
  BY <1>1, <1>2, <1>3, <1>4 DEF At

\* A candidate is compared from its own byte on.
LEMMA CandidateIs ==
  ASSUME HasBytes, Packed, NEW i \in 1 .. last, NEW k \in 0 .. Size(chains[i]) - 1
  PROVE  /\ chains[i].lo - chains[1].lo + k \in 0 .. totalLen - 1
         /\ At(Plus(IterOfChain(i), k), chains[i].lo - chains[1].lo + k)
         /\ InChain(Plus(IterOfChain(i), k))
         /\ ComparedFrom(i, k) = Plus(IterOfChain(i), k)
<1> DEFINE it == IterOfChain(i)
           x == chains[i].lo - chains[1].lo
           size == chains[i].hi - chains[i].lo
<1>1. /\ last \in Nat \ {0} /\ 1 \in 1 .. last /\ last \in 1 .. last /\ totalLen \in Nat
      /\ totalLen = chains[last].hi - chains[1].lo
  BY Layout
<1>2. /\ chains[i].lo \in Nat /\ chains[i].hi \in Nat /\ chains[1].lo \in Nat /\ chains[1].hi \in Nat
      /\ chains[last].lo \in Nat /\ chains[last].hi \in Nat /\ Size(chains[i]) = size
      /\ chains[1].lo < chains[1].hi /\ chains[last].lo < chains[last].hi
  BY <1>1, ChainAt
<1>3. k \in Nat /\ k < size
  BY <1>2
<1>4. chains[1].lo <= chains[i].lo
  <2>1. CASE i = 1
    BY <1>2, <2>1
  <2>2. CASE i # 1
    <3>1. 1 < i
      BY <1>1, <2>2
    <3>2. chains[1].hi <= chains[i].lo
      BY <1>1, <3>1, ChainsAscend
    <3> QED
      BY <1>2, <3>2
  <2> QED
    BY <2>1, <2>2
<1>5. chains[i].hi <= chains[last].hi
  <2>1. CASE i = last
    BY <1>2, <2>1
  <2>2. CASE i # last
    <3>1. i < last
      BY <1>1, <2>2
    <3>2. chains[i].hi <= chains[last].lo
      BY <1>1, <3>1, ChainsAscend
    <3> QED
      BY <1>2, <3>2
  <2> QED
    BY <2>1, <2>2
<1>6. x \in 0 .. totalLen /\ x + k \in 0 .. totalLen - 1 /\ k \in 0 .. totalLen
  BY <1>1, <1>2, <1>3, <1>4, <1>5
<1>7. At(it, x) /\ it.chain = i /\ it.offC = 0 /\ it.offB = x
  BY IterOfChainIsAt DEF At
<1>8. chains[i].mis = 0 /\ Start(i) = chains[i].lo /\ Off(chains[i]) = size
  BY PackedChain
<1> DEFINE to == Plus(it, k)
<1>9. At(to, x + k)
  <2>1. ~(x + k > totalLen)
    BY <1>1, <1>6
  <2> HIDE DEF it, x
  <2> QED
    BY <1>6, <1>7, <2>1, PackedIsAligned, PlusAddresses
<1>10. to.chain = i /\ to.offC = k
  <2>1. CASE k = 0
    BY <1>7, <2>1 DEF Plus
  <2>2. CASE k # 0
    <3>1. ~(k > Unsigned(totalLen - it.offB))
      <4>1. totalLen - it.offB \in 0 .. totalLen /\ k <= totalLen - it.offB
        BY <1>1, <1>3, <1>6, <1>7
      <4> HIDE DEF it
      <4> QED
        BY <1>1, <1>3, <4>1, UnsignedRest
    <3> HIDE DEF it, x, size
    <3>2. it.chain \in 1 .. last
      BY <1>7
    <3>3. PICK j \in it.chain .. last :
            /\ to = [chain |-> j, offB |-> it.offB + k, offC |-> StepsLeft(it, k, j)]
            /\ Stops(it, k, j) /\ \A h \in it.chain .. j - 1 : ~Stops(it, k, h)
      BY <1>3, <2>2, <3>1, <3>2, PlusStops
    <3>4. StepsLeft(it, k, i) = k
      <4>1. i \in it.chain .. last /\ x \in Nat
        BY <1>1, <1>6, <1>7
      <4>2. StepsLeft(it, k, i) \in Int /\ Start(i) + StepsLeft(it, k, i) = chains[1].lo + (x + k)
        BY <1>3, <1>7, <4>1, PackedIsAligned, StepsReach
      <4>3. x = chains[i].lo - chains[1].lo
        BY DEF x
      <4> QED
        BY <1>2, <1>3, <1>8, <4>2, <4>3
    <3>5. Stops(it, k, i)
      BY <1>2, <1>3, <1>8, <3>4 DEF Stops, size
    <3>6. j = i
      BY <1>1, <1>7, <3>3, <3>5
    <3> QED
      BY <3>3, <3>4, <3>6
  <2> QED
    BY <2>1, <2>2
<1> HIDE DEF to
<1>11. InChain(to)
  BY <1>2, <1>3, <1>8, <1>10 DEF InChain
<1>12. ComparedFrom(i, k) = to
  <2>1. k - chains[i].mis = k
    BY <1>3, <1>8
  <2>2. Unsigned(k) = k
    BY <1>6, UnsignedRest
  <2> QED
    BY <2>1, <2>2 DEF ComparedFrom, to
<1> QED
  BY <1>6, <1>9, <1>11, <1>12 DEF to

\* memchr and buffer_memcmp find what there is.
LEMMA FoundIsOccurs ==
  ASSUME HasBytes, Packed, NEW what, Len(what) \in Nat \ {0}, DOMAIN what = 1 .. Len(what),
         NEW i \in 1 .. last, NEW k \in 0 .. Size(chains[i]) - 1
  PROVE  Found(what, Begin, i, k) <=> Occurs(what, chains[i].lo - chains[1].lo + k)
<1> DEFINE x == chains[i].lo - chains[1].lo + k
           it == ComparedFrom(i, k)
           here == BytesFrom(it)
           u == chains[1].lo + x
<1>1. x \in 0 .. totalLen - 1 /\ At(it, x) /\ InChain(it)
  BY CandidateIs
<1>2. totalLen \in Nat /\ 1 \in 1 .. last
  BY Layout
<1>3. chains[1].lo \in Nat /\ chains[i].lo \in Nat /\ Size(chains[i]) \in Nat /\ chains[1].mis = 0 /\ chains[i].mis = 0
  BY <1>2, ChainAt, PackedChain
<1>4. k \in Nat /\ chains[i].lo + k + 1 = u + 1
  BY <1>3
<1> HIDE DEF x, it
<1>5. here = Bytes(u, chains[1].lo + totalLen)
  BY <1>1, <1>2, BytesFromIs
<1>6. Unsigned(totalLen - it.offB) = totalLen - x
  <2>1. it.offB = x /\ totalLen - x \in 0 .. totalLen
    BY <1>1, <1>2 DEF At
  <2> QED
    BY <2>1, UnsignedRest
<1>7. Len(here) = totalLen - x /\ \A p \in 1 .. totalLen - x : here[p] = u + p
  <2>1. (chains[1].lo + totalLen) - u = totalLen - x /\ totalLen - x \in Nat
    BY <1>1, <1>2, <1>3
  <2>2. here = [p \in 1 .. totalLen - x |-> u + p]
    BY <1>5, <2>1 DEF Bytes
  <2> HIDE DEF here, u
  <2> QED
    BY <2>1, <2>2
<1> HIDE DEF here
<1>8. Compares(what, it) <=>
        Len(what) <= totalLen - x /\ \A p \in DOMAIN what : Text[here[p]] = what[p]
  BY <1>6, <1>7 DEF Compares, here
<1>9. Len(what) <= totalLen - x <=> x + Len(what) <= totalLen
  BY <1>1, <1>2
<1>10. Len(what) <= totalLen - x =>
         \A p \in DOMAIN what : here[p] = chains[1].lo + x + p
  BY <1>1, <1>2, <1>7
<1>11. Compares(what, it) <=> Occurs(what, x)
  BY <1>8, <1>9, <1>10 DEF Occurs
<1>12. Occurs(what, x) => Text[u + 1] = what[1]
  BY DEF Occurs
<1>13. k >= ScanFrom(Begin, i) - chains[i].mis
  <2>1. ScanFrom(Begin, i) = 0
    BY <1>3 DEF ScanFrom, Begin
  <2> QED
    BY <1>3, <1>4, <2>1
<1> QED
  BY <1>4, <1>11, <1>12, <1>13 DEF Found, MatchesAt, x, it

LEMMA LeastIsMin ==
  ASSUME NEW S \in SUBSET Nat, S # {}
  PROVE  Min(S) \in S /\ \A n \in S : Min(S) <= n
<1>1. \E m \in S : \A n \in S : m <= n
  BY LeastNumber
<1> QED
  BY <1>1, Zenon DEF Min

LEMMA EarlierByte ==
  ASSUME NEW p \in Nat, NEW n \in Nat, NEW q \in Nat, NEW r \in Int, NEW l \in Nat,
         p - l + n < q - l + r
  PROVE  p + n < q + r
OBVIOUS

LEMMA NotBefore ==
  ASSUME NEW p \in Nat, NEW n \in Nat, NEW q \in Nat, NEW r \in Int, NEW h \in Nat,
         h <= p, q + r < h
  PROVE  ~(p + n < q + r)
OBVIOUS

\* A text of at least one character is found where it first occurs.
LEMMA SearchFindsFirst ==
  ASSUME HasBytes, Packed, NEW what, Len(what) \in Nat \ {0}, DOMAIN what = 1 .. Len(what)
  PROVE  LET it == Search(what, Begin)
         IN  IF it = NoIter
               THEN \A a \in 0 .. totalLen : ~Occurs(what, a)
               ELSE /\ it.offB = Address(it)
                    /\ Occurs(what, it.offB)
                    /\ \A a \in 0 .. it.offB - 1 : ~Occurs(what, a)
<1> DEFINE Hits(i) == {k \in 0 .. Size(chains[i]) - 1 : Found(what, Begin, i, k)}
           found == {i \in 1 .. last : Hits(i) # {}}
           At0(i, k) == chains[i].lo - chains[1].lo + k
<1>1. last \in Nat \ {0} /\ totalLen \in Nat /\ 1 \in 1 .. last
  BY Layout
<1>2. Search(what, Begin) =
        IF found = {} THEN NoIter ELSE Plus(IterOfChain(Min(found)), Min(Hits(Min(found))))
  BY DEF Search, Begin
<1>3. ASSUME NEW a \in 0 .. totalLen, Occurs(what, a)
      PROVE  \E i \in found, k \in Nat : k \in Hits(i) /\ a = At0(i, k)
  <2>1. a \in 0 .. totalLen - 1
    BY <1>1, <1>3 DEF Occurs
  <2>2. PICK i \in 1 .. last : chains[i].lo <= chains[1].lo + a /\ chains[1].lo + a < chains[i].hi
    BY <2>1, ByteHasChain
  <2>3. /\ chains[i].lo \in Nat /\ chains[i].hi \in Nat /\ chains[1].lo \in Nat
        /\ Size(chains[i]) = chains[i].hi - chains[i].lo
    BY <1>1, ChainAt
  <2> DEFINE k == chains[1].lo + a - chains[i].lo
  <2>4. k \in Nat /\ k \in 0 .. Size(chains[i]) - 1 /\ At0(i, k) = a
    <3>1. a \in Nat
      BY <1>1
    <3>2. \A n, l, f, h \in Nat :
            l <= f + n /\ f + n < h =>
              /\ f + n - l \in Nat /\ f + n - l \in 0 .. (h - l) - 1
              /\ l - f + (f + n - l) = n
      OBVIOUS
    <3>3. /\ k \in Nat /\ k \in 0 .. (chains[i].hi - chains[i].lo) - 1
          /\ chains[i].lo - chains[1].lo + k = a
      BY <2>2, <2>3, <3>1, <3>2
    <3> HIDE DEF k
    <3> QED
      BY <2>3, <3>3
  <2> HIDE DEF k
  <2>5. Found(what, Begin, i, k)
    BY <1>3, <2>4, FoundIsOccurs
  <2>6. k \in Hits(i)
    BY <2>4, <2>5
  <2> QED
    BY <2>4, <2>6
<1>4. CASE found = {}
  <2>1. Search(what, Begin) = NoIter
    BY <1>2, <1>4
  <2>2. \A a \in 0 .. totalLen : ~Occurs(what, a)
    BY <1>3, <1>4
  <2> QED
    BY <2>1, <2>2
<1>5. CASE found # {}
  <2> DEFINE i == Min(found)
             k == Min(Hits(i))
             it == Plus(IterOfChain(i), k)
             x == At0(i, k)
  <2>1. i \in found /\ \A j \in found : i <= j
    <3>1. found \in SUBSET Nat
      BY <1>1
    <3> HIDE DEF found
    <3> QED
      BY <1>5, <3>1, LeastIsMin
  <2>2. Search(what, Begin) = it
    BY <1>2, <1>5
  <2> HIDE DEF i
  <2>3. i \in 1 .. last /\ Hits(i) # {}
    BY <2>1
  <2>4. /\ Size(chains[i]) = chains[i].hi - chains[i].lo
        /\ chains[i].lo \in Nat /\ chains[i].hi \in Nat /\ chains[1].lo \in Nat
    BY <1>1, <2>3, ChainAt
  <2>5. k \in Hits(i) /\ \A h \in Hits(i) : k <= h
    <3>1. Hits(i) \in SUBSET Nat
      BY <2>4
    <3> HIDE DEF Hits
    <3> QED
      BY <2>3, <3>1, LeastIsMin
  <2> HIDE DEF k
  <2>6. k \in 0 .. Size(chains[i]) - 1 /\ Found(what, Begin, i, k)
    BY <2>5
  <2>7. At(it, x) /\ x \in 0 .. totalLen - 1 /\ Occurs(what, x)
    BY <2>3, <2>6, CandidateIs, FoundIsOccurs
  <2>8. ASSUME NEW a \in 0 .. x - 1, Occurs(what, a) PROVE FALSE
    <3>1. a \in 0 .. totalLen
      BY <1>1, <2>7
    <3>2. PICK j \in found, h \in Nat : h \in Hits(j) /\ a = At0(j, h)
      BY <1>3, <2>8, <3>1
    <3>3. j \in 1 .. last /\ i <= j
      BY <2>1, <3>2
    <3>4. chains[j].lo \in Nat
      BY <3>3, ChainAt
    <3>5. a \in Int /\ a < x /\ x \in Int
      <4> HIDE DEF x
      <4> QED
        BY <1>1, <2>7, <2>8
    <3>6. chains[j].lo + h < chains[i].lo + k /\ k \in Int
      <4>2. k \in Int
        BY <2>4, <2>6
      <4>3. chains[j].lo - chains[1].lo + h < chains[i].lo - chains[1].lo + k
        BY <3>2, <3>5
      <4>4. chains[j].lo + h < chains[i].lo + k
        BY <2>4, <3>4, <4>2, <4>3, EarlierByte
      <4> QED
        BY <4>2, <4>4
    <3>7. CASE j = i
      <4>1. k <= h
        BY <2>5, <3>2, <3>7
      <4> QED
        BY <2>4, <3>6, <3>7, <4>1
    <3>8. CASE j # i
      <4>1. i < j
        BY <1>1, <2>3, <3>3, <3>8
      <4>2. chains[i].hi <= chains[j].lo
        BY <2>3, <3>3, <4>1, ChainsAscend
      <4>3. chains[i].lo + k < chains[i].hi
        BY <2>4, <2>6
      <4> QED
        BY <2>4, <3>4, <3>6, <4>2, <4>3, NotBefore
    <3> QED
      BY <3>7, <3>8
  <2> HIDE DEF it, x
  <2>9. it.chain \in 1 .. last /\ it.offB = x /\ it.offC \in Int
    BY <2>7 DEF At
  <2>10. it # NoIter
    BY <1>1, <2>9 DEF NoIter
  <2>11. Address(it) = x
    BY <2>7, <2>9, AddressIs DEF At
  <2> QED
    BY <2>2, <2>7, <2>8, <2>9, <2>10, <2>11
<1> QED
  BY <1>4, <1>5

\* In a packed buffer search_eol finds the first line end of each style that has
\* one kind of line end, in one chain or across several, says where it is and how
\* long.  (Of CRLF, which has two, it does not: CrlfIsEither.)
THEOREM SearchesFindFirst == ReadsSpec => []SearchIsFirst
<1>1. ASSUME BufferInv PROVE SearchIsFirst
  <2> SUFFICES ASSUME totalLen > 0, Packed, NEW style \in Style \ {"CRLF"}
               PROVE  FindsFirst(style)
    BY DEF SearchIsFirst
  <2>1. HasBytes
    BY <1>1 DEF HasBytes
  <2> DEFINE what == EolText(style)
             it == SearchEol(style)
  <2>2. Len(what) \in Nat \ {0} /\ DOMAIN what = 1 .. Len(what) /\ EolLength(style) = Len(what)
    <3>1. \/ style = "LF" /\ what = <<LF>>
          \/ style = "NUL" /\ what = <<NUL>>
          \/ style = "CRLF_STRICT" /\ what = <<CR, LF>>
      BY DEF EolText, Style
    <3>2. /\ Len(<<LF>>) = 1 /\ DOMAIN <<LF>> = 1 .. 1
          /\ Len(<<NUL>>) = 1 /\ DOMAIN <<NUL>> = 1 .. 1
          /\ Len(<<CR, LF>>) = 2 /\ DOMAIN <<CR, LF>> = 1 .. 2
      OBVIOUS
    <3> HIDE DEF what
    <3> QED
      BY <3>1, <3>2 DEF EolLength
  <2>3. LineEnds(style) = {what}
    BY DEF LineEnds
  <2> HIDE DEF what
  <2>4. it = Search(what, Begin)
    BY DEF SearchEol, what
  <2> HIDE DEF it
  <2>5. IF it = NoIter
          THEN \A a \in 0 .. totalLen : ~Occurs(what, a)
          ELSE /\ it.offB = Address(it)
               /\ Occurs(what, it.offB)
               /\ \A a \in 0 .. it.offB - 1 : ~Occurs(what, a)
    BY <2>1, <2>2, <2>4, SearchFindsFirst
  <2> QED
    BY <2>2, <2>3, <2>5 DEF FindsFirst, it
<1> QED
  BY <1>1, BufferInvariance, PTL

=============================================================================
