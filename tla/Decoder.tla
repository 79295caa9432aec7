------------------------------- MODULE Decoder -------------------------------
(***************************************************************************)
(* What the client reads (do_on_read of sync_client.cpp, decoder.h): the   *)
(* server's bytes arrive in pieces of any size, are queued in my_read_buf_ *)
(* and decoded into messages, each a length of Prefix bytes and a body.    *)
(*                                                                         *)
(* my_read_buf_ is the queue of bytes that Buffer implements; the bytes of *)
(* the current connection are numbered, and it holds head+1 .. tail.       *)
(* `msgs' is what the server sends on the connection.  A length or a body  *)
(* taken from anywhere but its place is garbage, with any outcome.         *)
(*                                                                         *)
(* The callback's loop is modelled one iteration at a time; while it runs  *)
(* (reading) nothing else does.                                            *)
(***************************************************************************)
EXTENDS Integers, Sequences

CONSTANTS
  Prefix,     \* sizeof(int64_t)
  BodyLen,    \* lengths of the bodies the server sends
  Garbage,    \* lengths that bytes from the wrong place may spell
  MaxMsgs,    \* bound: messages on a connection
  MaxConn     \* bound: connections

\* A SyncPackage has more bytes than a length: its header alone does.
ASSUME PrefixAssumption == Prefix \in Nat \ {0}
ASSUME BodyLenAssumption == \A n \in BodyLen : n \in Nat /\ n > Prefix
ASSUME GarbageAssumption == Garbage \subseteq Int
ASSUME BoundAssumption == MaxMsgs \in Nat /\ MaxConn \in Nat \ {0}

VARIABLES
  msgs,       \* messages of the connection: length of the body, does it parse
  conn,       \* connections so far (history)
  head, tail, \* my_read_buf_
  state,      \* Decoder::state_
  remain,     \* Decoder::bytesRemainToParse_
  reading,    \* do_on_read is running
  delivered,  \* messages of the connection decoded, 0 for garbage (history)
  synced,     \* nothing has put the decoder out of step yet (history)
  broken      \* the last body decoded did not parse (history)

vars == <<msgs, conn, head, tail, state, remain, reading, delivered, synced, broken>>

Message == [len : BodyLen, ok : BOOLEAN]

Streams == UNION {[1 .. k -> Message] : k \in 0 .. MaxMsgs}

\* The byte before the first of message i, and of its body.
Start(i) ==
  LET s[j \in 1 .. MaxMsgs + 1] ==
        IF j = 1 THEN 0 ELSE s[j - 1] + Prefix + msgs[j - 1].len
  IN  s[i]

Body(i) == Start(i) + Prefix

TypeOK ==
  /\ msgs \in Streams
  /\ conn \in 1 .. MaxConn
  /\ tail \in 0 .. Start(Len(msgs) + 1)
  /\ head \in 0 .. tail
  /\ state \in {"IDLE", "LEN_DECODED", "COMPLETED", "ERROR"}
  /\ remain \in BodyLen \union Garbage \union {0}
  /\ reading \in BOOLEAN
  /\ delivered \in Seq(0 .. MaxMsgs)
  /\ synced \in BOOLEAN
  /\ broken \in BOOLEAN

Init ==
  /\ msgs \in Streams
  /\ conn = 1
  /\ head = 0
  /\ tail = 0
  /\ state = "IDLE"
  /\ remain = 0
  /\ reading = FALSE
  /\ delivered = <<>>
  /\ synced = TRUE
  /\ broken = FALSE

-----------------------------------------------------------------------------
\* do_on_read(): n bytes are appended to my_read_buf_ (libuv may report 0).
Arrive(n) ==
  /\ ~reading
  /\ tail' = tail + n
  /\ reading' = TRUE
  /\ UNCHANGED <<msgs, conn, head, state, remain, delivered, synced, broken>>

Held == tail - head

\* Whether `n' bytes of a body are complete when `held' are there.
\* Mutant: the last byte is not waited for.
CompleteButOne(n, held) == held + 1 >= n
Complete(n, held) == held >= n

\* What is left of the queue after decodeLen().  Mutant: it stays.
PrefixKept == head
PrefixDrained == head + Prefix

\* The loop of do_on_read goes on unless decode() returned 0.
\* Mutants: it never goes on; it always does.
NeverGoesOn(parsed) == FALSE
AlwaysGoesOn(parsed) == TRUE
GoesOn(parsed) == parsed # 0

\* decodeLen(): the length at the head of the queue.
LengthRead(n) ==
  IF \E i \in DOMAIN msgs : Start(i) = head
    THEN \E i \in DOMAIN msgs : Start(i) = head /\ n = msgs[i].len
    ELSE n \in Garbage

(***************************************************************************)
(* decodeRemain(), and decode() after it, for the n bytes from `from': the *)
(* message is delivered and its bytes drained.  A body of no bytes, or one *)
(* that does not parse, is not drained; decode() reports it as completed   *)
(* all the same, because reset() has left nothing to parse.                *)
(***************************************************************************)
At(from, n) == {i \in DOMAIN msgs : Body(i) = from /\ msgs[i].len = n}

Parses(from, n, ok) ==
  IF n = 0 THEN ~ok ELSE \A i \in At(from, n) : ok = msgs[i].ok

DecodeBody(from, n, parsed) ==
  /\ state' = "COMPLETED"
  /\ remain' = 0
  /\ \/ /\ Parses(from, n, TRUE)
        /\ head' = from + n
        /\ delivered' = Append(delivered,
                               IF At(from, n) = {} THEN 0 ELSE CHOOSE i \in At(from, n) : TRUE)
        /\ reading' = GoesOn(parsed + n)
        /\ broken' = FALSE
        /\ UNCHANGED synced
     \/ /\ Parses(from, n, FALSE)
        /\ head' = from
        /\ reading' = GoesOn(parsed)
        /\ synced' = FALSE
        /\ broken' = TRUE
        /\ UNCHANGED delivered

(***************************************************************************)
(* One iteration of do_on_read's loop: decode() takes a length, a body, or *)
(* both.  A negative length is never complete nor incomplete: decode()     *)
(* does not return, and the model has no step.                             *)
(***************************************************************************)
LoopsOn == reading /\ Held > Prefix

DecodeLength(n) ==
  /\ state \in {"IDLE", "COMPLETED"}
  /\ LengthRead(n)
  /\ \/ /\ n < 0 \/ ~Complete(n, Held - Prefix)
        /\ state' = "LEN_DECODED"
        /\ remain' = n
        /\ head' = PrefixDrained
        /\ reading' = GoesOn(Prefix)
        /\ broken' = FALSE
        /\ UNCHANGED <<delivered, synced>>
     \/ /\ n >= 0
        /\ Complete(n, Held - Prefix)
        /\ DecodeBody(PrefixDrained, n, Prefix)

DecodeRest ==
  /\ state = "LEN_DECODED"
  /\ remain >= 0
  /\ \/ /\ ~Complete(remain, Held)
        /\ reading' = GoesOn(0)
        /\ broken' = FALSE
        /\ UNCHANGED <<head, state, remain, delivered, synced>>
     \/ /\ Complete(remain, Held)
        /\ DecodeBody(head, remain, 0)

Decode ==
  /\ LoopsOn
  /\ (\E n \in BodyLen \union Garbage : DecodeLength(n)) \/ DecodeRest
  /\ UNCHANGED <<msgs, conn, tail>>

\* decode() was given a negative length and goes round its loop for ever.
Hung == state = "LEN_DECODED" /\ remain < 0

\* do_on_read() returns: what is left is not more than a length.
ReadReturns ==
  /\ reading
  /\ ~Hung
  /\ Held <= Prefix
  /\ reading' = FALSE
  /\ UNCHANGED <<msgs, conn, head, tail, state, remain, delivered, synced, broken>>

\* on_close() and a new connection: my_read_buf_ is drained, decoder_ is not
\* reset.
Reconnect ==
  /\ ~reading
  /\ conn < MaxConn
  /\ conn' = conn + 1
  /\ msgs' \in Streams
  /\ head' = 0
  /\ tail' = 0
  /\ delivered' = <<>>
  /\ synced' = (synced /\ state # "LEN_DECODED")
  /\ UNCHANGED <<state, remain, reading, broken>>

Next ==
  \/ \E n \in 0 .. Start(Len(msgs) + 1) - tail : Arrive(n)
  \/ Decode
  \/ ReadReturns
  \/ Reconnect

\* The callback is not preempted: its loop runs on.
Spec == Init /\ [][Next]_vars /\ WF_vars(Decode \/ ReadReturns)

-----------------------------------------------------------------------------
(***************************************************************************)
(* Properties.  They are about a decoder that is in step: no connection    *)
(* was lost between a length and its body, and every body parsed.          *)
(***************************************************************************)

\* The messages of a connection are decoded once each and in order, whatever
\* the sizes of the pieces they arrive in, and the decoder stands between two
\* of them or between a length and its body.
InOrder ==
  synced =>
    /\ \A i \in 1 .. Len(delivered) : delivered[i] = i
    /\ head = IF state = "LEN_DECODED" THEN Body(Len(delivered) + 1)
                                       ELSE Start(Len(delivered) + 1)

\* When the callback has returned, no complete message waits in the buffer
\* for more bytes to arrive.
NothingCompleteWaits ==
  synced /\ ~reading /\ Len(delivered) < Len(msgs) =>
    tail < Start(Len(delivered) + 2)

\* The callback returns, in step or not: it spins neither on an incomplete
\* message nor on garbage, unless that spells a negative length; and then a
\* body did not parse before, or a connection was lost inside a message.
CallbackReturns == reading ~> (~reading \/ (Hung /\ ~synced))

(***************************************************************************)
(* What the repository says of the program and the code does not do.       *)
(***************************************************************************)

\* README.md: reconnecting is supported.  A new connection starts at the first
\* message: no length of the old one is left over.
FreshAfterReconnect == head = 0 /\ tail = 0 => state # "LEN_DECODED"

\* do_on_read() asks isError() after a body that did not parse, to log "do on
\* read parse error" and to have the connection closed.
BrokenIsError == broken => state = "ERROR"

=============================================================================
