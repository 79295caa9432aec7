---------------------------- MODULE BufferReads ----------------------------
(***************************************************************************)
(* The rest of reactor::buffer: iterators, copies, search and read_line.   *)
(* An iterator is the index of its chain and two offsets, offset_of_buffer_*)
(* and offset_of_chain_; the latter counts from the start of the chain's   *)
(* memory, the bytes before misalign_ included.                            *)
(***************************************************************************)
EXTENDS Buffer, FiniteSetsExt

CONSTANTS
  Text,        \* Text[i] is the i-th byte ever appended
  LF, CR, NUL  \* line ends

ASSUME TextAssumption == DOMAIN Text = 1 .. MaxBytes

Lib == INSTANCE SequencesExt

NoIter == [chain |-> 0, offB |-> 0, offC |-> 0]     \* NULL_ITER

\* The number of the byte at position p of a chain's memory.  The ones before
\* misalign_ were taken from the buffer but are still there.
ByteAt(c, p) == c.lo - c.mis + p + 1

\* The bytes of the buffer before the iterator (not a value of the code).
Address(it) == ByteAt(chains[it.chain], it.offC) - 1 - chains[1].lo

SumOver(Val(_), first, end) ==
  LET sum[j \in first - 1 .. end] == IF j < first THEN 0 ELSE sum[j - 1] + Val(j)
  IN  sum[end]

-----------------------------------------------------------------------------
(***************************************************************************)
(* Iterators.  Nothing is defined of an empty buffer: begin() takes the    *)
(* front of an empty list.                                                 *)
(***************************************************************************)

Begin == [chain |-> 1, offB |-> 0, offC |-> chains[1].mis]
End == [chain |-> last, offB |-> totalLen, offC |-> Off(chains[last])]

\* offset_of_buffer_ adds up what the chains before could hold.
IterOfChain(i) ==
  [chain |-> i, offB |-> SumOver(LAMBDA j : chains[j].cap, 1, i - 1),
   offC |-> chains[i].mis]

\* What is left of n steps when operator+ comes to chain j: it counts off_ for
\* every chain it passes, less where it started in the first one.
StepsLeft(it, n, j) ==
  n + it.offC - SumOver(LAMBDA i : Off(chains[i]), it.chain, j - 1)

\* It stops in the last chain, or where the steps end; at a boundary it stays
\* behind the last byte of the chain.
Stops(it, n, j) == j = last \/ StepsLeft(it, n, j) <= Off(chains[j])

\* Mutant: offset_of_chain_ is not reset when the next chain is entered.
StepsKept(it, n, j) == StepsLeft(it, n, j) + IF j > it.chain THEN it.offC ELSE 0

Landed(it, n, j) == StepsLeft(it, n, j)

Plus(it, n) ==
  IF n = 0
    THEN it
    ELSE IF n > Unsigned(totalLen - it.offB)
      THEN End
      ELSE LET j == CHOOSE k \in it.chain .. last :
                      Stops(it, n, k) /\ \A i \in it.chain .. k - 1 : ~Stops(it, n, i)
           IN  [chain |-> j, offB |-> it.offB + n, offC |-> Landed(it, n, j)]

\* buffer_chain::validate_iter: the iterator is at a byte of its chain.
InChain(it) == chains[it.chain].mis <= it.offC /\ it.offC < Off(chains[it.chain])

-----------------------------------------------------------------------------
(***************************************************************************)
(* Copies: of n bytes from an iterator, and of the whole buffer.           *)
(***************************************************************************)

\* buffer(other, n, start): the bytes from start to the end of its chain, then
\* chain by chain from its first byte.  Mutant: of its memory.
CopyStartOfMemory(it, i) == IF i = it.chain THEN it.offC ELSE 0
CopyStart(it, i) == IF i = it.chain THEN it.offC ELSE chains[i].mis

Piece(it, i) ==
  [k \in 1 .. Off(chains[i]) - CopyStart(it, i) |-> ByteAt(chains[i], CopyStart(it, i) + k - 1)]

\* The bytes from an iterator on.
BytesFrom(it) ==
  Lib!FlattenSeq([k \in 1 .. last - it.chain + 1 |-> Piece(it, it.chain + k - 1)])

\* What the copy holds, and its total_len_: n, also if there are fewer bytes.
CopyFrom(it, n) ==
  [bytes |-> SubSeq(BytesFrom(it), 1, IF n > totalLen - it.offB THEN totalLen - it.offB ELSE n),
   total |-> n]

\* copy_out_from(data, n, it) goes through a copy; the one from an iterator
\* behind the last byte of its chain is empty, and refuses.
CopiesOut(it, n) == n > 0 /\ InChain(it)

\* copy_out_from then removes n bytes from the copy: remain_to_remove when
\* remove() is through with the last chain.
RemainToRemove(copy, n) ==
  IF n <= copy.total /\ n > Len(copy.bytes) THEN n - Len(copy.bytes) ELSE 0

\* buffer(other), where a chain's copy holds its bytes from the start of a block
\* that is at least as large.  (BufferCopies says how a copy is linked.)
Copied(c) == [c EXCEPT !.cap = Capacity(@), !.mis = 0]

CopyBuffer ==
  /\ chains # <<>>
  /\ chains' = [i \in DOMAIN chains |-> Copied(chains[i])]
  /\ UNCHANGED <<last, totalLen, written, reply>>

-----------------------------------------------------------------------------
(***************************************************************************)
(* search(what, start) and search_range, which leaves its end alone.       *)
(***************************************************************************)

\* buffer_memcmp: from the iterator, then from the first byte of each chain.
Compares(what, it) ==
  /\ Len(what) <= Unsigned(totalLen - it.offB)
  /\ LET here == BytesFrom(it)
     IN  /\ Len(what) <= Len(here)
         /\ \A i \in DOMAIN what : Text[here[i]] = what[i]

\* Mutant: the last character is not compared.
ComparesButOne(what, it) == Compares(SubSeq(what, 1, Len(what) - 1), it)
MatchesAt(what, it) == Compares(what, it)

\* Where memchr starts in chain i: in the last chain, at the offset of start.
ScanFrom(it, i) == IF i \in {last, it.chain} THEN it.offC ELSE chains[i].mis

\* The candidate k bytes into chain i is compared from k - misalign_ on (which
\* is meant unsigned: below zero it is the end of the buffer).
ComparedFrom(i, k) == Plus(IterOfChain(i), Unsigned(k - chains[i].mis))

Found(what, it, i, k) ==
  /\ k >= ScanFrom(it, i) - chains[i].mis
  /\ Text[chains[i].lo + k + 1] = what[1]
  /\ MatchesAt(what, ComparedFrom(i, k))

\* memchr is given the length off_ - off, which must not be negative.
ScansInside(it) == \A i \in it.chain .. last : ScanFrom(it, i) <= Off(chains[i])

Search(what, it) ==
  LET Hits(i) == {k \in 0 .. Size(chains[i]) - 1 : Found(what, it, i, k)}
      chain == {i \in it.chain .. last : Hits(i) # {}}
  IN  IF chain = {} THEN NoIter
      ELSE Plus(IterOfChain(Min(chain)), Min(Hits(Min(chain))))

(***************************************************************************)
(* read_line(n, style): the bytes before the line end are removed, then as *)
(* many as the line end is long.  CRLF returns what CRLF_STRICT finds, but *)
(* with a length of 1.                                                     *)
(***************************************************************************)

Style == {"LF", "CRLF_STRICT", "CRLF", "NUL"}

EolText(style) ==
  CASE style = "LF" -> <<LF>>
    [] style = "NUL" -> <<NUL>>
    [] style \in {"CRLF", "CRLF_STRICT"} -> <<CR, LF>>

EolLength(style) == IF style = "CRLF_STRICT" THEN 2 ELSE 1

\* What the comments of buffer_eol_style say a style's line ends are.
LineEnds(style) == IF style = "CRLF" THEN {<<LF>>, <<CR, LF>>} ELSE {EolText(style)}

SearchEol(style) == Search(EolText(style), Begin)

\* The first n bytes leave the buffer (nothing happens if it has fewer).
Without(b, n) ==
  IF n = 0 \/ b.last = 0 \/ b.total < n
    THEN b
    ELSE LET gone == {i \in DOMAIN b.chains : EndsBy(b.chains[i], b.chains[1].lo + n)}
             k == Cardinality(gone)
         IN  [chains |-> CutAt(b.chains, k, b.chains[1].lo + n),
              last |-> IF k >= b.last THEN 0 ELSE b.last - k,
              total |-> b.total - n, end |-> b.end]

LineRead(n, eol, len) ==
  IF eol = NoIter \/ n < eol.offB
    THEN Queue!Refused("read_line", n) /\ UNCHANGED <<chains, last, totalLen, written>>
    ELSE /\ Becomes(Without(Without(Self, eol.offB), len))
         /\ IF eol.offB \in 1 .. totalLen
              THEN Queue!Accepted("read_line", n, chains[1].lo, chains[1].lo + eol.offB)
              ELSE Queue!Refused("read_line", n)

ReadLine(style) ==
  /\ totalLen > 0
  /\ ScansInside(Begin)
  /\ LET eol == SearchEol(style)
     IN  \E n \in {m \in Request : m > 0} : LineRead(n, eol, EolLength(style))

ReadsNext == Next \/ CopyBuffer \/ \E style \in Style : ReadLine(style)

ReadsSpec == Init /\ [][ReadsNext]_vars

-----------------------------------------------------------------------------
(***************************************************************************)
(* Properties.                                                             *)
(***************************************************************************)

LaterAligned == \A i \in 2 .. Len(chains) : chains[i].mis = 0

\* What search relies on (the commented-out ASSERT_CHAIN_FULL of buffer.cpp).
Packed ==
  \A i \in DOMAIN chains :
    chains[i].mis = 0 /\ (i < last => Off(chains[i]) = chains[i].cap)

\* Steps add up: after a, then b steps from begin() an iterator is at byte a+b,
\* in whatever chains these are and whatever was cut off the first.
IteratorAddresses ==
  totalLen > 0 /\ LaterAligned =>
    \A a \in 0 .. totalLen, b \in 0 .. totalLen :
      LET it == Plus(Plus(Begin, a), b)
          to == IF a + b > totalLen THEN totalLen ELSE a + b
      IN  it.offB = to /\ Address(it) = to

\* copy_out_from and the partial copies give the bytes from the iterator on, as
\* many as asked for or as there are, of whatever chains, misaligned or not, and
\* remove() is then left with just the others; it is refused at the end of a chain
\* only.
CopyIsPart ==
  totalLen > 0 =>
    \A a \in 0 .. totalLen - 1 : \A n \in 1 .. MaxBytes + 1 :
      LET it == Plus(Begin, a)
          there == IF n > totalLen - a THEN totalLen - a ELSE n
      IN  Address(it) = a =>
            IF CopiesOut(it, n)
              THEN /\ CopyFrom(it, n).bytes = [p \in 1 .. there |-> chains[1].lo + a + p]
                   /\ RemainToRemove(CopyFrom(it, n), n) = n - there
              ELSE \E i \in 1 .. last - 1 : chains[1].lo + a = chains[i].hi

\* remove() has taken all it should when it is through with the last chain
\* (`assert(remain_to_remove == 0)', buffer.cpp:742): violated by a
\* copy_out_from of more bytes than follow.
CopyOutEnds ==
  totalLen > 0 =>
    \A a \in 0 .. totalLen - 1 : \A n \in 1 .. MaxBytes + 1 :
      LET it == Plus(Begin, a)
      IN  CopiesOut(it, n) => RemainToRemove(CopyFrom(it, n), n) = 0

Occurs(what, a) ==
  /\ a + Len(what) <= totalLen
  /\ \A i \in DOMAIN what : Text[chains[1].lo + a + i] = what[i]

\* search_eol() finds the first line end of its style, in one chain or across
\* several, says where it is and how long.
FindsFirst(style) ==
  LET it == SearchEol(style)
      Ends(a) == \E what \in LineEnds(style) : Occurs(what, a)
  IN  IF it = NoIter
        THEN \A a \in 0 .. totalLen : ~Ends(a)
        ELSE /\ it.offB = Address(it)
             /\ \E what \in LineEnds(style) :
                  Occurs(what, it.offB) /\ EolLength(style) = Len(what)
             /\ \A a \in 0 .. it.offB - 1 : ~Ends(a)

\* In a packed buffer it does, for each style with one kind of line end.
SearchIsFirst ==
  totalLen > 0 /\ Packed => \A style \in Style \ {"CRLF"} : FindsFirst(style)

\* "'\\n' or "\\r\\n"" (buffer.h:21): violated by a line that ends with LF.
CrlfIsEither == totalLen > 0 /\ Packed => FindsFirst("CRLF")

\* "returns a iter to the start of the end-of-line character(s)" (buffer.h:228),
\* whatever the chains: violated behind a chain that is not full, or cut.
FindsInAnyChains ==
  totalLen > 0 /\ ScansInside(Begin) => FindsFirst("LF")

=============================================================================
