---------------------------- MODULE BufferCopies ----------------------------
(***************************************************************************)
(* How the chains of a copied buffer are linked.  Everything that walks a  *)
(* buffer (remove, pullup, search, operator+) follows next_, which a copied*)
(* chain takes from the one it is a copy of.  A link is to a chain of the  *)
(* buffer itself, to one of the buffer copied from, or nullptr.            *)
(***************************************************************************)
EXTENDS BufferReads

Link(whose, i) == <<whose, i>>
NoLink == Link("nullptr", 0)

\* Each chain is linked to the next one, the last to none.
InOrder(len, whose) ==
  [i \in 1 .. len |-> IF i = len THEN NoLink ELSE Link(whose, i + 1)]

\* buffer(other): update_next_field_after_copy() links the copies anew.
CopyOf ==
  [chains |-> [i \in DOMAIN chains |-> Copied(chains[i])],
   next |-> InOrder(Len(chains), "own")]

\* operator=: the copied chains keep their next_.  Assigning an empty buffer
\* leaves what was there.
Assigned(before) ==
  IF totalLen = 0 THEN before ELSE [CopyOf EXCEPT !.next = InOrder(Len(chains), "other")]

\* buffer(other, n): whole chains are appended up to the one that covers what
\* remains of n, then a part of that.
CoveredBy(n) ==
  CHOOSE j \in 1 .. last :
    /\ j = last \/ chains[j].hi - chains[1].lo >= n
    /\ \A i \in 1 .. j - 1 : chains[i].hi - chains[1].lo < n

Appended(n) ==
  LET part == CoveredBy(n)
      nothing == [chains |-> <<>>, last |-> 0, total |-> 0, end |-> chains[1].lo]
      upto[i \in 0 .. part] ==
        IF i = 0
          THEN nothing
          ELSE AppendedCopy(upto[i - 1],
                            IF i < part THEN Size(chains[i])
                                        ELSE n - (chains[i].lo - chains[1].lo))
  IN  upto[part]

\* append() has made the new chain last_chain_with_data_, and that one is linked
\* to the new chain.
FirstOnes(n) ==
  IF n >= totalLen
    THEN CopyOf
    ELSE LET copy == Appended(n)
         IN  [chains |-> copy.chains,
              next |-> [InOrder(Len(copy.chains), "own")
                          EXCEPT ![copy.last] = Link("own", copy.last)]]

-----------------------------------------------------------------------------
(***************************************************************************)
(* Properties.                                                             *)
(***************************************************************************)

Linked(copy) == copy.next = InOrder(Len(copy.chains), "own")

\* A copied chain's next_ is that of the original, "so it is not right", and is
\* to be "updated by a traversal" (buffer.cpp:1063): violated by operator=.
AssignedIsLinked ==
  LET empty == [chains |-> <<>>, next |-> <<>>]
  IN  Linked(Assigned(empty))

\* "update {next chain}" of the last chain but one, "since a chain was just
\* added" (buffer.cpp:330): violated by the first n bytes of a buffer, whose last
\* chain is linked to itself.
FirstOnesAreLinked ==
  \A n \in Request : 0 < n /\ totalLen > 0 => Linked(FirstOnes(n))

=============================================================================
