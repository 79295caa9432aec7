----------------------------- MODULE FrameQueue -----------------------------
(***************************************************************************)
(* What the write path of a connection promises to a subclass that writes  *)
(* frames (UVClient::write, after_write, on_close): they leave in the      *)
(* order in which they were taken, each once.  A write carries the frames  *)
(* that were waiting and one more, and stays whole: it is done when the    *)
(* transport is done with it, not before, or lost with its connection.     *)
(* Frames taken while a connection is given up wait, and are not lost.     *)
(***************************************************************************)
EXTENDS Sequences

CONSTANT Frame

VARIABLES
  link,      \* "up", "broken" (it is being closed) or "down"
  waiting,   \* frames taken that no write carries yet
  writes,    \* the frames of each write that is not done, oldest first
  handed     \* of those, the writes the transport has taken

vars == <<link, waiting, writes, handed>>

Init ==
  /\ link = "up"
  /\ waiting = <<>>
  /\ writes = <<>>
  /\ handed = <<>>

\* A frame is taken or refused when `rest' is not done and `busy' of it is
\* with the transport.
Take(frame, rest, busy) ==
  LET frames == Append(waiting, frame)
  IN  \/ /\ link = "broken"
         /\ waiting' = frames
         /\ writes' = rest
         /\ handed' = busy
         /\ UNCHANGED link
      \/ /\ link = "up"
         /\ waiting' = <<>>
         /\ writes' = Append(rest, frames)
         /\ \/ handed' = Append(busy, frames) /\ UNCHANGED link
            \/ handed' = busy /\ link' = "broken"
Refuse(rest, busy) ==
  /\ writes' = rest
  /\ handed' = busy
  /\ UNCHANGED <<link, waiting>>
Write(rest, busy) ==
  \/ \E frame \in Frame : Take(frame, rest, busy)
  \/ Refuse(rest, busy)

\* The oldest write is the one the transport is done with; the subclass may
\* then write.
Done ==
  /\ handed # <<>>
  /\ writes # <<>>
  /\ Head(writes) = Head(handed)
  /\ Write(Tail(writes), Tail(handed))

Break == link = "up" /\ link' = "broken" /\ UNCHANGED <<waiting, writes, handed>>

\* The transport gave everything back.
Lose ==
  /\ link = "broken"
  /\ handed = <<>>
  /\ link' = "down"
  /\ writes' = <<>>
  /\ UNCHANGED <<waiting, handed>>

Connect ==
  /\ link = "down"
  /\ writes = <<>>
  /\ handed = <<>>
  /\ link' = "up"
  /\ UNCHANGED <<waiting, writes, handed>>

Next == Write(writes, handed) \/ Done \/ Break \/ Lose \/ Connect

Spec == Init /\ [][Next]_vars
=============================================================================
