--------------------------- MODULE UVClientProofs ---------------------------
(***************************************************************************)
(* The safety invariants of UVClient, for every set of frames, limit and   *)
(* number of retries.                                                      *)
(*                                                                         *)
(* None of them is inductive alone.  QueueInv relates the two queues to    *)
(* the state of the handle: while libuv accepts writes they are the same   *)
(* sequence, a refused write leaves one chain without a request, and a     *)
(* disconnected client has neither.  It is stated of any pair of queues so *)
(* that one lemma serves a write and another the completion that may       *)
(* precede it in the same callback.  ConnInv says which combinations of    *)
(* handle, timer, flags and loop are possible.                             *)
(*                                                                         *)
(* The last part maps every step to a step of FrameQueue or to a stutter.  *)
(***************************************************************************)
EXTENDS UVClient, TLAPS

QueueInv(chains, reqs) ==
  /\ chains \in Seq(Chain)
  /\ reqs \in Seq(Chain)
  /\ Backed(chains, reqs)
  /\ Len(chains) <= Len(reqs) + 1
  /\ Tiles(chains, Len(stream))
  /\ WithinLimit(chains)
  /\ tcp \in {"connecting", "open"} => reqs = chains
  /\ isClosed \/ tcp \in {"none", "inited", "closed"} => chains = <<>> /\ reqs = <<>>

ConnInv ==
  /\ tcp = "none" <=> loop = "before"
  /\ tcp = "none" => ~isClosed
  /\ tcp = "closed" => isClosed
  /\ tcp = "open" /\ ShouldReconnect => ~isClosed
  /\ isClosed /\ ~ShouldReconnect => tcp = "closed"
  /\ ~isClosed => retry = 0
  /\ reconnectTimer => ShouldReconnect /\ isClosed /\ tcp \in {"closed", "inited"}
  /\ reconnectTimer /\ tcp = "closed" => retry < RetryTimes
  /\ tcp = "inited" => loop \in {"stopping", "returned"}
  /\ tcp = "inited" /\ loop = "stopping" => isClosed
  /\ tcp = "closed" /\ ~reconnectTimer /\ ShouldReconnect => retry = RetryTimes
  /\ tcp = "closed" /\ ~reconnectTimer /\ ShouldReconnect => loop \in {"stopping", "returned"}
  /\ GivesUpOnlyAfterRetries
  /\ NeverAborts

IInv == TypeOK /\ QueueInv(writeBuf, inflight) /\ ConnInv

-----------------------------------------------------------------------------

LEMMA InitInv == UVInit => IInv
<1> SUFFICES ASSUME UVInit PROVE IInv
  OBVIOUS
<1> USE DEF UVInit
<1>1. TypeOK
  <2>1. retry \in 0 .. RetryTimes
    BY RetryTimesAssumption
  <2>2. /\ cur \in Seq(Msg) /\ stream \in Seq(Msg)
        /\ writeBuf \in Seq(Chain) /\ inflight \in Seq(Chain)
    OBVIOUS
  <2> QED
    BY <2>1, <2>2 DEF TypeOK, TcpStates, LoopStates
<1>2. QueueInv(writeBuf, inflight)
  BY DEF QueueInv, Backed, Tiles, WithinLimit
<1>3. ConnInv
  BY DEF ConnInv, GivesUpOnlyAfterRetries, NeverAborts
<1> QED
  BY <1>1, <1>2, <1>3 DEF IInv

LEMMA LaterIsCloser ==
  ASSUME NEW a \in Nat, NEW b \in Nat, NEW c \in Nat, NEW d \in Nat, NEW limit \in Nat,
         a < b, b = c, d - a <= limit
  PROVE  d - c <= limit
OBVIOUS

\* A completion drains the first chain with the oldest request.
LEMMA TailQueue ==
  ASSUME NEW chains, NEW reqs, stream \in Seq(Msg),
         QueueInv(chains, reqs), reqs # <<>>
  PROVE  QueueInv(Tail(chains), Tail(reqs))
<1> USE DEF QueueInv
<1>1. /\ chains # <<>>
      /\ Len(Tail(chains)) = Len(chains) - 1
      /\ Len(Tail(reqs)) = Len(reqs) - 1
      /\ Tail(chains) \in Seq(Chain)
      /\ Tail(reqs) \in Seq(Chain)
  BY DEF Backed
<1>2. /\ \A i \in 1 .. Len(Tail(chains)) : Tail(chains)[i] = chains[i + 1]
      /\ \A i \in 1 .. Len(Tail(reqs)) : Tail(reqs)[i] = reqs[i + 1]
  BY <1>1
<1>3. Backed(Tail(chains), Tail(reqs))
  BY <1>1, <1>2 DEF Backed
<1>4. Tiles(Tail(chains), Len(stream))
  BY <1>1, <1>2 DEF Tiles
<1>5. WithinLimit(Tail(chains))
  <2> SUFFICES ASSUME Tail(chains) # <<>>
               PROVE  Tail(chains)[Len(Tail(chains))].lo - Tail(chains)[1].lo
                        <= WriteLimit
    BY DEF WithinLimit
  <2>1. Len(chains) >= 2
    BY <1>1
  <2>2. /\ Tail(chains)[Len(Tail(chains))] = chains[Len(chains)]
        /\ Tail(chains)[1] = chains[2]
    BY <1>1, <1>2, <2>1
  <2>3. /\ chains[1] \in Chain
        /\ chains[2] \in Chain
        /\ chains[Len(chains)] \in Chain
    BY <2>1
  <2>4. chains[1].lo < chains[1].hi /\ chains[1].hi = chains[2].lo
    BY <2>1 DEF Tiles
  <2>5. chains[Len(chains)].lo - chains[1].lo <= WriteLimit
    BY <1>1 DEF WithinLimit
  <2>6. /\ chains[1].lo \in Nat /\ chains[1].hi \in Nat /\ chains[2].lo \in Nat
        /\ chains[Len(chains)].lo \in Nat /\ WriteLimit \in Nat
    BY <2>3, WriteLimitAssumption DEF Chain
  <2>7. chains[Len(chains)].lo - chains[2].lo <= WriteLimit
    BY <2>4, <2>5, <2>6, LaterIsCloser
  <2> QED
    BY <2>2, <2>7
<1>6. Len(Tail(chains)) <= Len(Tail(reqs)) + 1
  BY <1>1
<1> QED
  BY <1>1, <1>3, <1>4, <1>5, <1>6

\* A frame flushed goes to the end of both queues, or of my_write_buf_ alone
\* when uv_write refuses it; the handle is then closing.
LEMMA AppendQueue ==
  ASSUME NEW chains \in Seq(Chain), NEW reqs \in Seq(Chain), NEW chain \in Chain,
         Backed(chains, reqs), Tiles(chains, chain.lo), ~TooMuch(chains),
         chain.lo < chain.hi
  PROVE  /\ Append(chains, chain) \in Seq(Chain)
         /\ Tiles(Append(chains, chain), chain.hi)
         /\ WithinLimit(Append(chains, chain))
         /\ Backed(Append(chains, chain), reqs)
         /\ reqs = chains => Backed(Append(chains, chain), Append(reqs, chain))
<1> DEFINE new == Append(chains, chain)
<1>1. /\ new \in Seq(Chain)
      /\ Len(new) = Len(chains) + 1
      /\ new[Len(new)] = chain
      /\ \A i \in 1 .. Len(chains) : new[i] = chains[i]
  OBVIOUS
<1>2. \A i \in 1 .. Len(chains) : chains[i].lo \in Nat /\ chains[i].hi \in Nat
  <2>1. \A c \in Chain : c.lo \in Nat /\ c.hi \in Nat
    BY DEF Chain
  <2> QED
    BY <2>1
<1>3. chains # <<>> => Len(chains) \in 1 .. Len(chains)
  OBVIOUS
<1>4. Tiles(new, chain.hi)
  <2>1. \A i \in 1 .. Len(new) : new[i].lo < new[i].hi /\ new[i].hi <= chain.hi
    <3> SUFFICES ASSUME NEW i \in 1 .. Len(new)
                 PROVE  new[i].lo < new[i].hi /\ new[i].hi <= chain.hi
      OBVIOUS
    <3>1. chain.lo \in Nat /\ chain.hi \in Nat
      BY DEF Chain
    <3>2. CASE i = Len(new)
      BY <1>1, <3>1, <3>2
    <3>3. CASE i \in 1 .. Len(chains)
      BY <1>1, <1>2, <3>1, <3>3 DEF Tiles
    <3> QED
      BY <1>1, <3>2, <3>3
  <2>2. \A i \in 1 .. Len(new) - 1 : new[i].hi = new[i + 1].lo
    <3> SUFFICES ASSUME NEW i \in 1 .. Len(chains) PROVE new[i].hi = new[i + 1].lo
      BY <1>1
    <3>1. CASE i = Len(chains)
      BY <1>1, <1>3, <3>1 DEF Tiles
    <3>2. CASE i < Len(chains)
      BY <1>1, <3>2 DEF Tiles
    <3> QED
      BY <3>1, <3>2
  <2> QED
    BY <1>1, <2>1, <2>2 DEF Tiles
<1>5. WithinLimit(new)
  <2>1. CASE chains = <<>>
    BY <1>1, <2>1, WriteLimitAssumption DEF WithinLimit, Chain
  <2>2. CASE chains # <<>>
    <3>1. chains[Len(chains)].hi - chains[1].lo <= WriteLimit
      BY <1>2, <1>3, <2>2, WriteLimitAssumption DEF TooMuch, TotalLen
    <3>2. chains[Len(chains)].hi = chain.lo
      BY <2>2 DEF Tiles
    <3> QED
      BY <1>1, <1>3, <2>2, <3>1, <3>2 DEF WithinLimit
  <2> QED
    BY <2>1, <2>2
<1>6. Backed(new, reqs)
  BY <1>1 DEF Backed
<1>7. reqs = chains => Backed(new, Append(reqs, chain))
  BY DEF Backed
<1> HIDE DEF new
<1> QED
  BY <1>1, <1>4, <1>5, <1>6, <1>7 DEF new

LEMMA WriteFrameInv ==
  ASSUME TypeOK, ConnInv, LoopRuns,
         NEW chains, NEW reqs, QueueInv(chains, reqs),
         NEW m \in Msg, NEW ret,
         WriteFrame(chains, reqs, m, ret),
         UNCHANGED <<isClosed, retry, reconnectTimer>>
  PROVE  IInv'
<1> DEFINE frames == Append(cur, m)
           chain == [lo |-> Len(stream), hi |-> Len(stream) + Len(frames)]
<1>1. CASE UNCHANGED <<tcp, loop, cur, stream>> /\ writeBuf' = chains /\ inflight' = reqs
  <2>1. TypeOK'
    BY <1>1 DEF TypeOK, QueueInv
  <2>2. QueueInv(writeBuf, inflight)'
    BY <1>1 DEF QueueInv, Backed, Tiles, WithinLimit
  <2>3. ConnInv'
    BY <1>1 DEF ConnInv, GivesUpOnlyAfterRetries, NeverAborts
  <2> QED
    BY <2>1, <2>2, <2>3 DEF IInv
<1>2. CASE ~isClosed /\ ~TooMuch(chains) /\ UvIsClosing /\ DoWrite(chains, reqs, frames, ret)
  <2>1. /\ cur' = frames /\ writeBuf' = chains /\ inflight' = reqs
        /\ UNCHANGED <<tcp, loop, stream>>
    BY <1>2 DEF DoWrite
  <2>2. frames \in Seq(Msg)
    BY DEF TypeOK
  <2>3. TypeOK'
    BY <2>1, <2>2 DEF TypeOK, QueueInv
  <2>4. QueueInv(writeBuf, inflight)'
    BY <2>1 DEF QueueInv, Backed, Tiles, WithinLimit
  <2>5. ConnInv'
    BY <2>1 DEF ConnInv, GivesUpOnlyAfterRetries, NeverAborts
  <2> QED
    BY <2>3, <2>4, <2>5 DEF IInv
<1>3. CASE ~isClosed /\ ~TooMuch(chains) /\ ~UvIsClosing /\ DoWrite(chains, reqs, frames, ret)
  <2>1. /\ cur' = <<>> /\ stream' = stream \o frames
        /\ writeBuf' = Append(chains, chain)
    BY <1>3 DEF DoWrite
  <2>2. /\ stream' \in Seq(Msg)
        /\ Len(stream') = Len(stream) + Len(frames)
        /\ Len(frames) > 0 /\ Len(frames) \in Nat
    BY <2>1 DEF TypeOK
  <2>3. chain \in Chain /\ chain.lo = Len(stream) /\ chain.hi = Len(stream')
    BY <2>2 DEF Chain, TypeOK
  <2>4. chains \in Seq(Chain) /\ reqs \in Seq(Chain) /\ Backed(chains, reqs)
        /\ Tiles(chains, Len(stream))
    BY DEF QueueInv
  <2> HIDE DEF chain, frames
  <2>5. /\ Append(chains, chain) \in Seq(Chain)
        /\ Tiles(Append(chains, chain), Len(stream'))
        /\ WithinLimit(Append(chains, chain))
        /\ Backed(Append(chains, chain), reqs)
        /\ reqs = chains => Backed(Append(chains, chain), Append(reqs, chain))
    <3>1. chain.lo < chain.hi
      BY <2>2, <2>3 DEF TypeOK
    <3> QED
      BY <1>3, <2>3, <2>4, <3>1, AppendQueue
  <2>6. tcp \notin {"none", "closing", "closed", "inited"}
    BY <1>3 DEF UvIsClosing, ConnInv, LoopRuns
  <2>7. tcp \in {"connecting", "open"} /\ reqs = chains
    BY <2>6 DEF TypeOK, TcpStates, QueueInv
  <2>8. CASE inflight' = Append(reqs, chain) /\ UNCHANGED <<tcp, loop>>
    <3>1. TypeOK'
      BY <2>1, <2>2, <2>3, <2>4, <2>5, <2>8 DEF TypeOK
    <3>2. QueueInv(writeBuf, inflight)'
      BY <1>3, <2>1, <2>3, <2>4, <2>5, <2>7, <2>8 DEF QueueInv
    <3>3. ConnInv'
      BY <2>8 DEF ConnInv, GivesUpOnlyAfterRetries, NeverAborts
    <3> QED
      BY <3>1, <3>2, <3>3 DEF IInv
  <2>9. CASE inflight' = reqs /\ CloseTcp
    <3>1. tcp' = "closing" /\ UNCHANGED loop
      BY <2>6, <2>9 DEF CloseTcp
    <3>2. TypeOK'
      BY <2>1, <2>2, <2>3, <2>4, <2>5, <2>9, <3>1 DEF TypeOK, TcpStates
    <3>3. Len(Append(chains, chain)) <= Len(reqs) + 1
      BY <2>3, <2>4, <2>7
    <3>4. QueueInv(writeBuf, inflight)'
      BY <1>3, <2>1, <2>4, <2>5, <2>9, <3>1, <3>3 DEF QueueInv
    <3>5. ConnInv'
      BY <1>3, <2>7, <3>1 DEF ConnInv, GivesUpOnlyAfterRetries, NeverAborts, LoopRuns
    <3> QED
      BY <3>2, <3>4, <3>5 DEF IInv
  <2> QED
    BY <1>3, <2>8, <2>9 DEF DoWrite, chain
<1> QED
  BY <1>1, <1>2, <1>3 DEF WriteFrame

\* An action of the connection that leaves the writing state alone and moves
\* the handle to a state in which the queues may be what they are.
LEMMA QueueUntouched ==
  ASSUME QueueInv(writeBuf, inflight), UNCHANGED writeVars,
         tcp' \in {"connecting", "open"} => inflight = writeBuf,
         isClosed' \/ tcp' \in {"none", "inited", "closed"} =>
           writeBuf = <<>> /\ inflight = <<>>
  PROVE  QueueInv(writeBuf, inflight)'
BY DEF QueueInv, writeVars, Backed, Tiles, WithinLimit

LEMMA NextInv == IInv /\ [UVNext]_uvVars => IInv'
<1> SUFFICES ASSUME IInv, [UVNext]_uvVars PROVE IInv'
  OBVIOUS
<1>0. TypeOK /\ QueueInv(writeBuf, inflight) /\ ConnInv
  BY DEF IInv
<1>1. ASSUME NEW ok \in BOOLEAN, Start(ok) PROVE IInv'
  <2>1. TypeOK'
    BY <1>0, <1>1 DEF TypeOK, Start, ConnectTcp, writeVars, TcpStates, LoopStates
  <2>2. tcp = "none" /\ ~isClosed /\ writeBuf = <<>> /\ inflight = <<>>
    BY <1>0, <1>1 DEF Start, ConnectTcp, ConnInv, QueueInv
  <2>3. QueueInv(writeBuf, inflight)'
    BY <1>0, <1>1, <2>2, QueueUntouched DEF Start, ConnectTcp
  <2>4. ConnInv'
    BY <1>0, <1>1, <2>2 DEF Start, ConnectTcp, ConnInv, GivesUpOnlyAfterRetries, NeverAborts
  <2> QED
    BY <2>1, <2>3, <2>4 DEF IInv
<1>2. CASE OnConnect
  <2>1. TypeOK'
    <3>1. retry' \in 0 .. RetryTimes
      BY <1>0, <1>2, RetryTimesAssumption DEF TypeOK, OnConnect, OutageOver
    <3>2. isClosed' \in BOOLEAN
      BY <1>0, <1>2 DEF TypeOK, OnConnect, OutageOver
    <3> QED
      BY <1>0, <1>2, <3>1, <3>2 DEF TypeOK, OnConnect, writeVars, TcpStates
  <2>2. ~isClosed'
    BY <1>0, <1>2 DEF OnConnect, OutageOver, ConnInv
  <2>3. QueueInv(writeBuf, inflight)'
    <3>1. inflight = writeBuf
      BY <1>0, <1>2 DEF OnConnect, QueueInv
    <3> QED
      BY <1>0, <1>2, <2>2, <3>1, QueueUntouched DEF OnConnect
  <2>4. ConnInv'
    BY <1>0, <1>2, <2>2
       DEF OnConnect, OutageOver, ConnInv, GivesUpOnlyAfterRetries, NeverAborts
  <2> QED
    BY <2>1, <2>3, <2>4 DEF IInv
<1>3. CASE OnConnectFailed \/ OnReadFailed
  <2>1. /\ tcp \in {"connecting", "open"} /\ tcp' = "closing" /\ LoopRuns
        /\ UNCHANGED <<isClosed, retry, reconnectTimer, loop, writeVars>>
    BY <1>3 DEF OnConnectFailed, OnReadFailed, CloseTcp
  <2>2. TypeOK'
    BY <1>0, <2>1 DEF TypeOK, writeVars, TcpStates
  <2>3. QueueInv(writeBuf, inflight)'
    <3>1. isClosed' => writeBuf = <<>> /\ inflight = <<>>
      BY <1>0, <2>1 DEF QueueInv
    <3> QED
      BY <1>0, <2>1, <3>1, QueueUntouched
  <2>4. ConnInv'
    BY <1>0, <2>1 DEF ConnInv, GivesUpOnlyAfterRetries, NeverAborts, LoopRuns
  <2> QED
    BY <2>2, <2>3, <2>4 DEF IInv
<1>4. CASE OnClose
  <2> USE DEF OnClose
  <2>1. TypeOK'
    <3>1. writeBuf' \in Seq(Chain)
      BY <1>4 DEF DrainTotal
    <3> QED
      BY <1>0, <1>4, <3>1, ShouldReconnectAssumption
         DEF TypeOK, TcpStates, LoopStates, MayRetry
  <2>2. QueueInv(writeBuf, inflight)'
    BY <1>4 DEF DrainTotal, QueueInv, Backed, Tiles, WithinLimit
  <2>3. ConnInv'
    <3>1. retry \in 0 .. RetryTimes
      BY <1>0 DEF TypeOK
    <3>2. retry < RetryTimes \/ retry = RetryTimes
      BY <3>1, RetryTimesAssumption
    <3>3. loop' = "stopping" \/ loop' = loop
      BY <1>4
    <3> QED
      BY <1>0, <1>4, <3>2, <3>3, ShouldReconnectAssumption
         DEF ConnInv, MayRetry, RetriesOver, GivesUpOnlyAfterRetries,
             NeverAborts, LoopRuns
  <2> QED
    BY <2>1, <2>2, <2>3 DEF IInv
<1>5. ASSUME NEW ok \in BOOLEAN, OnReconnectTimeout(ok) PROVE IInv'
  <2> USE DEF OnReconnectTimeout, ConnectTcp
  <2>1. tcp = "closed" /\ isClosed /\ retry < RetryTimes
    BY <1>0, <1>5 DEF ConnInv
  <2>2. retry' \in 0 .. RetryTimes
    BY <1>0, <1>5, <2>1, RetryTimesAssumption DEF TypeOK
  <2>3. TypeOK'
    BY <1>0, <1>5, <2>2 DEF TypeOK, RepeatsAfter, writeVars, TcpStates, LoopStates
  <2>4. QueueInv(writeBuf, inflight)'
    <3>1. writeBuf = <<>> /\ inflight = <<>>
      BY <1>0, <2>1 DEF QueueInv
    <3> QED
      BY <1>0, <1>5, <3>1, QueueUntouched
  <2>5. ConnInv'
    BY <1>0, <1>5, <2>1
       DEF ConnInv, RepeatsAfter, GivesUpOnlyAfterRetries, NeverAborts
  <2> QED
    BY <2>3, <2>4, <2>5 DEF IInv
<1>6. CASE LoopReturns
  <2>1. TypeOK'
    BY <1>0, <1>6 DEF TypeOK, LoopReturns, connVars, writeVars, LoopStates
  <2>2. QueueInv(writeBuf, inflight)'
    <3>1. UNCHANGED <<tcp, isClosed, writeVars>>
      BY <1>6 DEF LoopReturns, connVars
    <3>2. /\ tcp' \in {"connecting", "open"} => inflight = writeBuf
          /\ isClosed' \/ tcp' \in {"none", "inited", "closed"} =>
               writeBuf = <<>> /\ inflight = <<>>
      BY <1>0, <3>1 DEF QueueInv
    <3> QED
      BY <1>0, <3>1, <3>2, QueueUntouched
  <2>3. ConnInv'
    BY <1>0, <1>6 DEF LoopReturns, connVars, ConnInv, GivesUpOnlyAfterRetries, NeverAborts
  <2> QED
    BY <2>1, <2>2, <2>3 DEF IInv
<1>7. CASE AfterWrite
  <2>1. /\ writeBuf' = Tail(writeBuf) /\ inflight' = Tail(inflight)
        /\ inflight # <<>>
        /\ UNCHANGED <<tcp, isClosed, retry, reconnectTimer, loop, cur, stream>>
    BY <1>7 DEF AfterWrite, DrainFirst, WriteCompletes, connVars
  <2>2. QueueInv(Tail(writeBuf), Tail(inflight))
    BY <1>0, <2>1, TailQueue DEF TypeOK
  <2>3. TypeOK'
    BY <1>0, <2>1, <2>2 DEF TypeOK, QueueInv
  <2>4. QueueInv(writeBuf, inflight)'
    BY <2>1, <2>2 DEF QueueInv
  <2>5. ConnInv'
    BY <1>0, <2>1 DEF ConnInv, GivesUpOnlyAfterRetries, NeverAborts
  <2> QED
    BY <2>3, <2>4, <2>5 DEF IInv
<1>8. ASSUME NEW m \in Msg, NEW ret \in {-1, 0, 1}, AfterWriteThenWrite(m, ret)
      PROVE  IInv'
  <2>1. /\ LoopRuns /\ inflight # <<>>
        /\ WriteFrame(Tail(writeBuf), Tail(inflight), m, ret)
        /\ UNCHANGED <<isClosed, retry, reconnectTimer>>
    BY <1>8 DEF AfterWriteThenWrite, DrainFirst, WriteCompletes
  <2>2. QueueInv(Tail(writeBuf), Tail(inflight))
    BY <1>0, <2>1, TailQueue DEF TypeOK
  <2> QED
    BY <1>0, <2>1, <2>2, WriteFrameInv
<1>9. ASSUME NEW m \in Msg, NEW ret \in {-1, 0, 1}, Write(m, ret)
      PROVE  IInv'
  BY <1>0, <1>9, WriteFrameInv DEF Write
<1>10. CASE UNCHANGED uvVars
  <2>1. UNCHANGED <<tcp, isClosed, retry, reconnectTimer, loop, cur, writeBuf, inflight, stream>>
    BY <1>10 DEF uvVars
  <2>2. TypeOK'
    BY <1>0, <2>1 DEF TypeOK
  <2>3. QueueInv(writeBuf, inflight)'
    BY <1>0, <2>1 DEF QueueInv, Backed, Tiles, WithinLimit
  <2>4. ConnInv'
    BY <1>0, <2>1 DEF ConnInv, GivesUpOnlyAfterRetries, NeverAborts
  <2> QED
    BY <2>2, <2>3, <2>4 DEF IInv
<1> QED
  BY <1>1, <1>2, <1>3, <1>4, <1>5, <1>6, <1>7, <1>8, <1>9, <1>10 DEF UVNext

THEOREM Invariance == UVSpec => []IInv
BY InitInv, NextInv, PTL DEF UVSpec

-----------------------------------------------------------------------------

\* uv_client: the state of the connection and of its queues is well typed and
\* the retry count never exceeds reconnect_retry_times_.
THEOREM TypeCorrect == UVSpec => []TypeOK
<1>1. IInv => TypeOK
  BY DEF IInv
<1> QED
  BY <1>1, Invariance, PTL

\* Every pending write request has its bytes in my_write_buf_, in order.
THEOREM RequestsAreBacked == UVSpec => []InflightBacked
<1>1. IInv => InflightBacked
  BY DEF IInv, QueueInv, InflightBacked
<1> QED
  BY <1>1, Invariance, PTL

\* my_write_buf_ holds a gapless suffix of what was flushed.
THEOREM QueueIsSuffix == UVSpec => []ChainsTile
<1>1. IInv => ChainsTile
  BY DEF IInv, QueueInv, ChainsTile
<1> QED
  BY <1>1, Invariance, PTL

\* my_write_buf_ exceeds its limit by at most the newest chain.
THEOREM QueueIsBounded == UVSpec => []BackPressure
<1>1. IInv => BackPressure
  BY DEF IInv, QueueInv, BackPressure
<1> QED
  BY <1>1, Invariance, PTL

\* close_tcp() is never called twice on the same connection.
THEOREM ClosedOnce == UVSpec => []NeverAborts
<1>1. IInv => NeverAborts
  BY DEF IInv, ConnInv
<1> QED
  BY <1>1, Invariance, PTL

\* A disconnected client has nothing queued, and every connection starts with
\* fresh flags and no reconnect pending.
THEOREM FreshConnection == UVSpec => []StartsAfresh
<1>1. IInv => ClosedIsDrained
  BY DEF IInv, QueueInv, ClosedIsDrained
<1>2. IInv => OpenIsFresh
  BY DEF IInv, ConnInv, OpenIsFresh
<1>3. IInv => StartsAfresh
  BY <1>1, <1>2 DEF StartsAfresh
<1> QED
  BY <1>3, Invariance, PTL

\* The loop is stopped only after the last attempt.
THEOREM StopsOnlyAfterRetries == UVSpec => []GivesUpOnlyAfterRetries
<1>1. IInv => GivesUpOnlyAfterRetries
  BY DEF IInv, ConnInv
<1> QED
  BY <1>1, Invariance, PTL

\* connect_tcp() never overwrites a handle libuv still uses.
THEOREM HandleReusedWhenDead == UVSpec => NoReinitOfLiveHandle
<1>1. IInv /\ [UVNext]_uvVars =>
        [tcp' # tcp /\ tcp' \in {"inited", "connecting"} => tcp \in {"none", "closed"}]_uvVars
  <2> SUFFICES ASSUME IInv, UVNext, tcp' # tcp, tcp' \in {"inited", "connecting"}
               PROVE  tcp \in {"none", "closed"}
    OBVIOUS
  <2>1. ASSUME NEW ok \in BOOLEAN, Start(ok) PROVE tcp = "none"
    BY <2>1 DEF Start, IInv, ConnInv
  <2>2. ASSUME NEW ok \in BOOLEAN, OnReconnectTimeout(ok) PROVE tcp = "closed"
    BY <2>2 DEF OnReconnectTimeout, IInv, ConnInv
  <2>3. ASSUME NEW chains, NEW reqs, NEW m, NEW ret, WriteFrame(chains, reqs, m, ret)
        PROVE  FALSE
    BY <2>3 DEF WriteFrame, DoWrite, CloseTcp
  <2> QED
    BY <2>1, <2>2, <2>3 DEF UVNext, OnConnect, OnConnectFailed, OnReadFailed, CloseTcp,
       OnClose, LoopReturns, connVars, AfterWrite, AfterWriteThenWrite, Write
<1> QED
  BY <1>1, Invariance, PTL DEF UVSpec, NoReinitOfLiveHandle

-----------------------------------------------------------------------------
(***************************************************************************)
(* The queue of frames: what chains and requests carry, and the refinement *)
(* of FrameQueue.                                                          *)
(***************************************************************************)

\* The ends of a chain are numbers of frames.
LEMMA ChainEnds ==
  ASSUME NEW chains \in Seq(Chain), NEW i \in 1 .. Len(chains)
  PROVE  chains[i] \in Chain /\ chains[i].lo \in Nat /\ chains[i].hi \in Nat
<1>1. chains[i] \in Chain
  OBVIOUS
<1> QED
  BY <1>1 DEF Chain

\* A chain of flushed frames points to frames.
LEMMA FramesOfType ==
  ASSUME NEW frames \in Seq(Msg), NEW chain \in Chain, chain.hi <= Len(frames)
  PROVE  FramesOf(frames, chain) \in Seq(Msg)
<1>1. chain.lo \in Nat /\ chain.hi \in Nat
  BY DEF Chain
<1> QED
  BY <1>1 DEF FramesOf

\* Two sequences are equal when they agree at every place.
LEMMA SameSequence ==
  ASSUME NEW S, NEW s \in Seq(S), NEW t \in Seq(S), Len(s) = Len(t),
         \A i \in 1 .. Len(s) : s[i] = t[i]
  PROVE  s = t
OBVIOUS

\* The frames of each chain, in the order of the chains.
LEMMA CarriedIs ==
  ASSUME NEW frames \in Seq(Msg), NEW chains \in Seq(Chain),
         \A i \in 1 .. Len(chains) : chains[i].hi <= Len(frames)
  PROVE  /\ Carried(frames, chains) \in Seq(Seq(Msg))
         /\ Len(Carried(frames, chains)) = Len(chains)
         /\ \A i \in 1 .. Len(chains) :
              Carried(frames, chains)[i] = FramesOf(frames, chains[i])
<1> DEFINE c == Carried(frames, chains)
           n == Len(chains)
<1>1. n \in Nat /\ DOMAIN chains = 1 .. n
  OBVIOUS
<1>2. \A i \in 1 .. n : FramesOf(frames, chains[i]) \in Seq(Msg)
  BY ChainEnds, FramesOfType
<1>3. c = [i \in 1 .. n |-> FramesOf(frames, chains[i])]
  BY <1>1 DEF Carried
<1> HIDE DEF c, n
<1>4. c \in [1 .. n -> Seq(Msg)] /\ \A i \in 1 .. n : c[i] = FramesOf(frames, chains[i])
  BY <1>2, <1>3
<1>5. c \in Seq(Seq(Msg)) /\ Len(c) = n
  BY <1>1, <1>4
<1> QED
  BY <1>4, <1>5 DEF c, n

\* Draining the first chain takes the oldest write away.
LEMMA CarriedTail ==
  ASSUME NEW frames \in Seq(Msg), NEW chains \in Seq(Chain), chains # <<>>,
         \A i \in 1 .. Len(chains) : chains[i].hi <= Len(frames)
  PROVE  /\ Carried(frames, chains) # <<>>
         /\ Head(Carried(frames, chains)) = FramesOf(frames, chains[1])
         /\ Tail(Carried(frames, chains)) = Carried(frames, Tail(chains))
<1> DEFINE c == Carried(frames, chains)
           rest == Tail(chains)
           d == Carried(frames, rest)
           n == Len(chains)
<1>1. /\ c \in Seq(Seq(Msg)) /\ Len(c) = n
      /\ \A i \in 1 .. n : c[i] = FramesOf(frames, chains[i])
  BY CarriedIs
<1>2. n \in Nat /\ n > 0
  OBVIOUS
<1>3. /\ rest \in Seq(Chain) /\ Len(rest) = n - 1
      /\ \A i \in 1 .. n - 1 : rest[i] = chains[i + 1]
  OBVIOUS
<1>4. \A i \in 1 .. n - 1 : i + 1 \in 1 .. n
  BY <1>2
<1>5. \A i \in 1 .. Len(rest) : rest[i].hi <= Len(frames)
  BY <1>3, <1>4
<1> HIDE DEF rest
<1>6. /\ d \in Seq(Seq(Msg)) /\ Len(d) = Len(rest)
      /\ \A i \in 1 .. Len(rest) : d[i] = FramesOf(frames, rest[i])
  BY <1>3, <1>5, CarriedIs
<1> HIDE DEF c, d, n
<1>7. c # <<>> /\ Head(c) = FramesOf(frames, chains[1])
  <2>1. c \in Seq(Seq(Msg)) /\ Len(c) = n /\ n \in Nat /\ n > 0
    BY <1>1, <1>2
  <2>2. c # <<>>
    BY <2>1
  <2>3. Head(c) = c[1]
    BY <2>1, <2>2
  <2>4. c[1] = FramesOf(frames, chains[1])
    BY <1>1, <1>2
  <2> QED
    BY <2>2, <2>3, <2>4
<1>8. /\ Tail(c) \in Seq(Seq(Msg)) /\ Len(Tail(c)) = n - 1
      /\ \A i \in 1 .. n - 1 : Tail(c)[i] = c[i + 1]
  BY <1>1, <1>7
<1>9. \A i \in 1 .. n - 1 : Tail(c)[i] = d[i]
  <2> SUFFICES ASSUME NEW i \in 1 .. n - 1 PROVE Tail(c)[i] = d[i]
    OBVIOUS
  <2>1. d[i] = FramesOf(frames, rest[i]) /\ rest[i] = chains[i + 1]
    BY <1>3, <1>6
  <2>2. c[i + 1] = FramesOf(frames, chains[i + 1])
    BY <1>1, <1>4
  <2> QED
    BY <1>8, <2>1, <2>2
<1>10. Tail(c) = d
  BY <1>3, <1>6, <1>8, <1>9, SameSequence
<1> QED
  BY <1>7, <1>10 DEF c, d, rest

\* Frames that follow change nothing of what is carried.
LEMMA CarriedLonger ==
  ASSUME NEW frames \in Seq(Msg), NEW new \in Seq(Msg), NEW chains \in Seq(Chain),
         \A i \in 1 .. Len(chains) : chains[i].hi <= Len(frames)
  PROVE  Carried(frames \o new, chains) = Carried(frames, chains)
<1> DEFINE all == frames \o new
           c == Carried(frames, chains)
           d == Carried(all, chains)
           n == Len(chains)
<1>1. /\ all \in Seq(Msg) /\ Len(all) = Len(frames) + Len(new)
      /\ \A i \in 1 .. Len(frames) : all[i] = frames[i]
  OBVIOUS
<1> HIDE DEF all
<1>2. \A i \in 1 .. n : chains[i].hi \in Nat /\ chains[i].hi <= Len(all)
  BY <1>1, ChainEnds
<1>3. /\ c \in Seq(Seq(Msg)) /\ Len(c) = n
      /\ \A i \in 1 .. n : c[i] = FramesOf(frames, chains[i])
  BY CarriedIs
<1>4. /\ d \in Seq(Seq(Msg)) /\ Len(d) = n
      /\ \A i \in 1 .. n : d[i] = FramesOf(all, chains[i])
  BY <1>1, <1>2, CarriedIs
<1>5. ASSUME NEW i \in 1 .. n PROVE FramesOf(all, chains[i]) = FramesOf(frames, chains[i])
  <2>1. PICK a \in Nat, b \in Nat : a = chains[i].lo /\ b = chains[i].hi
    BY ChainEnds
  <2>2. b <= Len(frames)
    BY <2>1
  <2>3. \A k \in 1 .. b - a : k + a \in 1 .. Len(frames)
    BY <2>2
  <2>4. SubSeq(all, a + 1, b) = SubSeq(frames, a + 1, b)
    <3>1. /\ SubSeq(all, a + 1, b) \in Seq(Msg) /\ SubSeq(frames, a + 1, b) \in Seq(Msg)
      BY <1>1, <2>2
    <3>2. /\ Len(SubSeq(all, a + 1, b)) = Len(SubSeq(frames, a + 1, b))
          /\ \A k \in 1 .. Len(SubSeq(all, a + 1, b)) : k \in 1 .. b - a
      BY <1>1, <2>2
    <3>3. \A k \in 1 .. b - a : /\ SubSeq(all, a + 1, b)[k] = all[k + a]
                                /\ SubSeq(frames, a + 1, b)[k] = frames[k + a]
      BY <1>1, <2>2
    <3>4. \A k \in 1 .. b - a : all[k + a] = frames[k + a]
      BY <1>1, <2>3
    <3> QED
      BY <3>1, <3>2, <3>3, <3>4, SameSequence
  <2> QED
    BY <2>1, <2>4 DEF FramesOf
<1> HIDE DEF c, d, n
<1>6. \A i \in 1 .. n : d[i] = c[i]
  BY <1>3, <1>4, <1>5
<1>7. d = c
  BY <1>3, <1>4, <1>6, SameSequence
<1> QED
  BY <1>7 DEF c, d, all

\* A chain of just the frames that follow carries them.
LEMMA CarriedAppend ==
  ASSUME NEW frames \in Seq(Msg), NEW new \in Seq(Msg), NEW chains \in Seq(Chain),
         \A i \in 1 .. Len(chains) : chains[i].hi <= Len(frames),
         NEW chain \in Chain, chain.lo = Len(frames), chain.hi = Len(frames) + Len(new)
  PROVE  Carried(frames \o new, Append(chains, chain)) = Append(Carried(frames, chains), new)
<1> DEFINE all == frames \o new
           more == Append(chains, chain)
           c == Carried(all, chains)
           e == Carried(all, more)
           n == Len(chains)
<1>1. /\ all \in Seq(Msg) /\ Len(all) = Len(frames) + Len(new)
      /\ \A i \in 1 .. Len(new) : all[Len(frames) + i] = new[i]
  OBVIOUS
<1>2. /\ n \in Nat /\ more \in Seq(Chain) /\ Len(more) = n + 1
      /\ more[n + 1] = chain
      /\ \A i \in 1 .. n : more[i] = chains[i]
  <2>1. n \in Nat /\ more \in Seq(Chain) /\ Len(more) = n + 1
    OBVIOUS
  <2>2. more[n + 1] = chain
    OBVIOUS
  <2>3. \A i \in 1 .. n : more[i] = chains[i]
    OBVIOUS
  <2> QED
    BY <2>1, <2>2, <2>3
<1>3. \A i \in 1 .. n : chains[i].hi \in Nat /\ chains[i].hi <= Len(all)
  BY <1>1, ChainEnds
<1> HIDE DEF more, all
<1>4. \A i \in 1 .. Len(more) : more[i].hi <= Len(all)
  <2>1. chain.hi <= Len(all)
    BY <1>1
  <2>2. \A i \in 1 .. n + 1 : i = n + 1 \/ i \in 1 .. n
    BY <1>2
  <2> HIDE DEF n
  <2> QED
    BY <1>2, <1>3, <2>1, <2>2
<1>5. /\ c \in Seq(Seq(Msg)) /\ Len(c) = n
      /\ \A i \in 1 .. n : c[i] = FramesOf(all, chains[i])
  BY <1>1, <1>3, CarriedIs
<1>6. /\ e \in Seq(Seq(Msg)) /\ Len(e) = Len(more)
      /\ \A i \in 1 .. Len(more) : e[i] = FramesOf(all, more[i])
  BY <1>1, <1>2, <1>4, CarriedIs
<1>7. FramesOf(all, chain) = new
  <2>1. SubSeq(all, Len(frames) + 1, Len(frames) + Len(new)) = new
    <3>1. PICK a \in Nat, b \in Nat : a = Len(frames) /\ b = Len(new)
      OBVIOUS
    <3>2. /\ SubSeq(all, a + 1, a + b) \in Seq(Msg)
          /\ Len(SubSeq(all, a + 1, a + b)) = b
          /\ \A i \in 1 .. b : SubSeq(all, a + 1, a + b)[i] = all[a + i]
      BY <1>1, <3>1
    <3>3. \A i \in 1 .. b : SubSeq(all, a + 1, a + b)[i] = new[i]
      BY <1>1, <3>1, <3>2
    <3> QED
      BY <3>1, <3>2, <3>3, SameSequence
  <2> QED
    BY <2>1 DEF FramesOf
<1> HIDE DEF c, e, n
<1>8. /\ Append(c, new) \in Seq(Seq(Msg)) /\ Len(Append(c, new)) = n + 1
      /\ Append(c, new)[n + 1] = new
      /\ \A i \in 1 .. n : Append(c, new)[i] = c[i]
  BY <1>2, <1>5
<1>9. \A i \in 1 .. n + 1 : e[i] = Append(c, new)[i]
  <2> SUFFICES ASSUME NEW i \in 1 .. n + 1 PROVE e[i] = Append(c, new)[i]
    OBVIOUS
  <2>1. CASE i = n + 1
    <3>1. e[n + 1] = FramesOf(all, more[n + 1])
      BY <1>2, <1>6
    <3> QED
      BY <1>2, <1>7, <1>8, <2>1, <3>1
  <2>2. CASE i \in 1 .. n
    BY <1>2, <1>5, <1>6, <1>8, <2>2
  <2>3. i = n + 1 \/ i \in 1 .. n
    BY <1>2
  <2> QED
    BY <2>1, <2>2, <2>3
<1>10. e = Append(c, new)
  BY <1>2, <1>6, <1>8, <1>9, SameSequence
<1>11. c = Carried(frames, chains)
  BY CarriedLonger DEF c, all
<1> QED
  BY <1>10, <1>11 DEF e, all, more

\* What a queue that satisfies its invariant points to was flushed.
LEMMA QueueWasFlushed ==
  ASSUME NEW chains, NEW reqs, QueueInv(chains, reqs)
  PROVE  /\ chains \in Seq(Chain) /\ reqs \in Seq(Chain)
         /\ \A i \in 1 .. Len(chains) : chains[i].hi <= Len(stream)
         /\ \A i \in 1 .. Len(reqs) : reqs[i].hi <= Len(stream)
BY DEF QueueInv, Tiles, Backed

\* A frame is refused, waits for the end of a connection that is given up, or
\* leaves with those that waited, as the abstract queue says.
LEMMA WriteFrameRefines ==
  ASSUME TypeOK, ConnInv, LoopRuns,
         NEW chains, NEW reqs, QueueInv(chains, reqs),
         NEW m \in Msg, NEW ret,
         WriteFrame(chains, reqs, m, ret), UNCHANGED isClosed
  PROVE  Queue!Write(Carried(stream, chains), Carried(stream, reqs))
<1> DEFINE frames == Append(cur, m)
           chain == [lo |-> Len(stream), hi |-> Len(stream) + Len(frames)]
<1>1. CASE UNCHANGED <<tcp, cur, stream>> /\ writeBuf' = chains /\ inflight' = reqs
  BY <1>1 DEF Queue!Write, Queue!Refuse, Link
<1>2. CASE ~isClosed /\ UvIsClosing /\ DoWrite(chains, reqs, frames, ret)
  <2>1. /\ cur' = frames /\ writeBuf' = chains /\ inflight' = reqs
        /\ UNCHANGED <<tcp, stream>>
    BY <1>2 DEF DoWrite
  <2>2. Link = "broken" /\ Link' = "broken"
    BY <1>2, <2>1 DEF Link, UvIsClosing, ConnInv
  <2> HIDE DEF chain
  <2>3. Queue!Take(m, Carried(stream, chains), Carried(stream, reqs))
    BY <2>1, <2>2 DEF Queue!Take
  <2> QED
    BY <2>3 DEF Queue!Write
<1>3. CASE ~isClosed /\ ~UvIsClosing /\ DoWrite(chains, reqs, frames, ret)
  <2>1. /\ cur' = <<>> /\ stream' = stream \o frames
        /\ writeBuf' = Append(chains, chain)
        /\ \/ inflight' = Append(reqs, chain) /\ UNCHANGED tcp
           \/ inflight' = reqs /\ CloseTcp
    BY <1>3 DEF DoWrite
  <2>2. stream \in Seq(Msg) /\ frames \in Seq(Msg) /\ cur \in Seq(Msg)
    BY DEF TypeOK
  <2>3. chain \in Chain /\ chain.lo = Len(stream) /\ chain.hi = Len(stream) + Len(frames)
    BY <2>2 DEF Chain
  <2>4. Link = "up"
    BY <1>3 DEF Link, UvIsClosing
  <2> HIDE DEF chain, frames
  <2>5. /\ chains \in Seq(Chain) /\ reqs \in Seq(Chain)
        /\ \A i \in 1 .. Len(chains) : chains[i].hi <= Len(stream)
        /\ \A i \in 1 .. Len(reqs) : reqs[i].hi <= Len(stream)
    BY QueueWasFlushed
  <2>6. Carried(stream, writeBuf)' = Append(Carried(stream, chains), frames)
    <3>1. Carried(stream \o frames, Append(chains, chain)) = Append(Carried(stream, chains), frames)
      BY <2>2, <2>3, <2>5, CarriedAppend
    <3> QED
      BY <2>1, <3>1
  <2>7. CASE inflight' = Append(reqs, chain) /\ UNCHANGED tcp
    <3>1. Carried(stream \o frames, Append(reqs, chain)) = Append(Carried(stream, reqs), frames)
      BY <2>2, <2>3, <2>5, CarriedAppend
    <3>2. Carried(stream, inflight)' = Append(Carried(stream, reqs), frames)
      BY <2>1, <2>7, <3>1
    <3>3. UNCHANGED Link
      BY <2>7 DEF Link
    <3>4. Queue!Take(m, Carried(stream, chains), Carried(stream, reqs))
      BY <2>1, <2>4, <2>6, <3>2, <3>3 DEF Queue!Take, frames
    <3> QED
      BY <3>4 DEF Queue!Write
  <2>8. CASE inflight' = reqs /\ CloseTcp
    <3>1. Carried(stream \o frames, reqs) = Carried(stream, reqs)
      BY <2>2, <2>5, CarriedLonger
    <3>2. Carried(stream, inflight)' = Carried(stream, reqs)
      BY <2>1, <2>8, <3>1
    <3>3. Link' = "broken"
      BY <1>3, <2>8 DEF Link, CloseTcp, UvIsClosing
    <3>4. Queue!Take(m, Carried(stream, chains), Carried(stream, reqs))
      BY <2>1, <2>4, <2>6, <3>2, <3>3 DEF Queue!Take, frames
    <3> QED
      BY <3>4 DEF Queue!Write
  <2> QED
    BY <2>1, <2>7, <2>8
<1> QED
  BY <1>1, <1>2, <1>3 DEF WriteFrame

\* The oldest request and the first chain carry the same frames.
LEMMA CompletionRefines ==
  ASSUME TypeOK, QueueInv(writeBuf, inflight), inflight # <<>>,
         Queue!Write(Carried(stream, Tail(writeBuf)), Carried(stream, Tail(inflight)))
  PROVE  Queue!Done
<1>1. /\ writeBuf \in Seq(Chain) /\ inflight \in Seq(Chain)
      /\ \A i \in 1 .. Len(writeBuf) : writeBuf[i].hi <= Len(stream)
      /\ \A i \in 1 .. Len(inflight) : inflight[i].hi <= Len(stream)
  BY QueueWasFlushed
<1>2. writeBuf # <<>> /\ inflight[1] = writeBuf[1]
  BY <1>1 DEF QueueInv, Backed
<1>3. /\ Carried(stream, inflight) # <<>> /\ Carried(stream, writeBuf) # <<>>
      /\ Head(Carried(stream, writeBuf)) = Head(Carried(stream, inflight))
      /\ Tail(Carried(stream, writeBuf)) = Carried(stream, Tail(writeBuf))
      /\ Tail(Carried(stream, inflight)) = Carried(stream, Tail(inflight))
  BY <1>1, <1>2, CarriedTail DEF TypeOK
<1> QED
  BY <1>3 DEF Queue!Done

\* No chains carry nothing.
LEMMA CarriedNothing == \A frames : Carried(frames, <<>>) = <<>>
BY DEF Carried

\* A program that starts has an empty queue.
LEMMA QueueInit == UVInit => Queue!Init
BY CarriedNothing DEF UVInit, Queue!Init, Link

\* Every callback is a step of the queue, or none of its business.
LEMMA QueueNext == IInv /\ [UVNext]_uvVars => [Queue!Next]_(Queue!vars)
<1> SUFFICES ASSUME IInv, [UVNext]_uvVars PROVE [Queue!Next]_(Queue!vars)
  OBVIOUS
<1>0. TypeOK /\ QueueInv(writeBuf, inflight) /\ ConnInv
  BY DEF IInv
<1>1. ASSUME UNCHANGED <<Link, writeVars>> PROVE UNCHANGED Queue!vars
  BY <1>1 DEF writeVars, Queue!vars
<1>2. ASSUME NEW ok \in BOOLEAN, Start(ok) PROVE UNCHANGED <<Link, writeVars>>
  BY <1>0, <1>2 DEF Start, ConnectTcp, Link, ConnInv
<1>3. ASSUME NEW ok \in BOOLEAN, OnReconnectTimeout(ok) PROVE UNCHANGED <<Link, writeVars>>
  BY <1>0, <1>3 DEF OnReconnectTimeout, Link, ConnInv
<1>4. CASE LoopReturns
  <2>1. UNCHANGED <<Link, writeVars>>
    BY <1>4 DEF LoopReturns, Link, connVars
  <2> QED
    BY <1>1, <2>1
<1>5. CASE OnConnect
  <2>1. CASE isClosed
    <3>1. ~isClosed' /\ tcp' = "open" /\ UNCHANGED writeVars
      BY <1>0, <1>5, <2>1 DEF OnConnect, OutageOver, ConnInv
    <3>2. writeBuf = <<>> /\ inflight = <<>>
      BY <1>0, <2>1 DEF QueueInv
    <3>3. UNCHANGED <<cur, writeBuf, inflight, stream>>
      BY <3>1 DEF writeVars
    <3>4. Queue!Connect
      BY <2>1, <3>1, <3>2, <3>3, CarriedNothing DEF Queue!Connect, Link
    <3> QED
      BY <3>4 DEF Queue!Next
  <2>2. CASE ~isClosed
    <3>1. UNCHANGED <<Link, writeVars>>
      BY <1>5, <2>2 DEF OnConnect, Link
    <3> QED
      BY <1>1, <3>1
  <2> QED
    BY <2>1, <2>2
<1>6. CASE OnConnectFailed \/ OnReadFailed
  <2>1. /\ tcp \in {"connecting", "open"} /\ tcp' = "closing"
        /\ UNCHANGED <<isClosed, writeVars>>
    BY <1>6 DEF OnConnectFailed, OnReadFailed, CloseTcp
  <2>2. CASE isClosed
    <3>1. UNCHANGED <<Link, writeVars>>
      BY <2>1, <2>2 DEF Link
    <3> QED
      BY <1>1, <3>1
  <2>3. CASE ~isClosed
    <3>1. Queue!Break
      BY <2>1, <2>3 DEF Queue!Break, Link, writeVars
    <3> QED
      BY <3>1 DEF Queue!Next
  <2> QED
    BY <2>2, <2>3
<1>7. CASE OnClose
  <2>1. /\ tcp = "closing" /\ inflight = <<>> /\ isClosed' /\ writeBuf' = <<>>
        /\ UNCHANGED <<cur, inflight, stream>>
    BY <1>7 DEF OnClose, DrainTotal
  <2>2. CASE isClosed
    <3>1. writeBuf = <<>>
      BY <1>0, <2>2 DEF QueueInv
    <3>2. UNCHANGED <<Link, writeVars>>
      BY <2>1, <2>2, <3>1 DEF Link, writeVars
    <3> QED
      BY <1>1, <3>2
  <2>3. CASE ~isClosed
    <3>1. Queue!Lose
      BY <2>1, <2>3, CarriedNothing DEF Queue!Lose, Link
    <3> QED
      BY <3>1 DEF Queue!Next
  <2> QED
    BY <2>2, <2>3
<1>8. CASE AfterWrite
  <2>1. /\ writeBuf' = Tail(writeBuf) /\ inflight' = Tail(inflight)
        /\ inflight # <<>>
        /\ UNCHANGED <<tcp, isClosed, cur, stream>>
    BY <1>8 DEF AfterWrite, DrainFirst, WriteCompletes, connVars
  <2>2. Queue!Write(Carried(stream, Tail(writeBuf)), Carried(stream, Tail(inflight)))
    BY <2>1 DEF Queue!Write, Queue!Refuse, Link
  <2>3. Queue!Done
    BY <1>0, <2>1, <2>2, CompletionRefines
  <2> QED
    BY <2>3 DEF Queue!Next
<1>9. ASSUME NEW m \in Msg, NEW ret \in {-1, 0, 1}, AfterWriteThenWrite(m, ret)
      PROVE  Queue!Done
  <2>1. /\ LoopRuns /\ inflight # <<>>
        /\ WriteFrame(Tail(writeBuf), Tail(inflight), m, ret)
        /\ UNCHANGED isClosed
    BY <1>9 DEF AfterWriteThenWrite, DrainFirst, WriteCompletes
  <2>2. QueueInv(Tail(writeBuf), Tail(inflight))
    BY <1>0, <2>1, TailQueue DEF TypeOK
  <2>3. Queue!Write(Carried(stream, Tail(writeBuf)), Carried(stream, Tail(inflight)))
    BY <1>0, <2>1, <2>2, WriteFrameRefines
  <2> QED
    BY <1>0, <2>1, <2>3, CompletionRefines
<1>10. ASSUME NEW m \in Msg, NEW ret \in {-1, 0, 1}, Write(m, ret)
       PROVE  Queue!Write(Carried(stream, writeBuf), Carried(stream, inflight))
  BY <1>0, <1>10, WriteFrameRefines DEF Write
<1>11. CASE UNCHANGED uvVars
  <2>1. UNCHANGED <<Link, writeVars>>
    BY <1>11 DEF uvVars, writeVars, Link
  <2> QED
    BY <1>1, <2>1
<1> QED
  BY <1>1, <1>2, <1>3, <1>4, <1>5, <1>6, <1>7, <1>8, <1>9, <1>10, <1>11
     DEF UVNext, Queue!Next

\* UVClient implements the queue of frames: refused, cancelled or reconnected,
\* what was written leaves in order, each write whole and by its own request.
THEOREM FramesAreQueued == UVSpec => IsFrameQueue
BY Invariance, QueueInit, QueueNext, PTL DEF UVSpec, IsFrameQueue, Queue!Spec
=============================================================================
