------------------------------ MODULE ByteQueue ------------------------------
(***************************************************************************)
(* What reactor::buffer promises (comments of buffer.h): a queue of bytes. *)
(* The bytes ever appended are numbered 1, 2, ...; the queue holds those   *)
(* from head+1 to tail.  `reply' is the last call with its result: the     *)
(* bytes from+1 .. to were appended, or are given to the caller.           *)
(***************************************************************************)
EXTENDS Integers

CONSTANT Request   \* lengths the callers pass; pullup may take a negative one

VARIABLES head, tail, reply

Reply == [op : {"append", "pullup", "remove", "read_line"}, n : Request,
          ok : BOOLEAN, from : Nat, to : Nat]

Accepted(op, n, from, to) ==
  reply' = [op |-> op, n |-> n, ok |-> TRUE, from |-> from, to |-> to]

Refused(op, n) ==
  reply' = [op |-> op, n |-> n, ok |-> FALSE, from |-> 0, to |-> 0]

Held(n) == n \in 1 .. tail - head

Init ==
  /\ head = 0
  /\ tail = 0
  /\ reply = [op |-> "remove", n |-> 0, ok |-> FALSE, from |-> 0, to |-> 0]

Append(n) ==
  /\ n > 0
  /\ tail' = tail + n
  /\ Accepted("append", n, tail, tail + n)
  /\ UNCHANGED head

\* The first n bytes, or all if n is negative, contiguous in memory; they stay
\* in the queue.
Pullup(n) ==
  LET size == IF n < 0 THEN tail - head ELSE n
  IN  /\ IF Held(size) THEN Accepted("pullup", n, head, head + size)
                       ELSE Refused("pullup", n)
      /\ UNCHANGED <<head, tail>>

Remove(n) ==
  /\ IF Held(n)
       THEN head' = head + n /\ Accepted("remove", n, head, head + n)
       ELSE Refused("remove", n) /\ UNCHANGED head
  /\ UNCHANGED tail

\* No more than n bytes are read, and no more than a line end is skipped.
ReadLine(n) ==
  /\ \/ \E len \in 0 .. n, eol \in 0 .. 2 :
          /\ Held(len + eol)
          /\ head' = head + len + eol
          /\ IF len > 0 THEN Accepted("read_line", n, head, head + len)
                        ELSE Refused("read_line", n)
     \/ Refused("read_line", n) /\ UNCHANGED head
  /\ UNCHANGED tail

Next == \E n \in Request : Append(n) \/ Pullup(n) \/ Remove(n) \/ ReadLine(n)

Spec == Init /\ [][Next]_<<head, tail, reply>>

=============================================================================
