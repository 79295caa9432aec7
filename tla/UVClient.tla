------------------------------ MODULE UVClient ------------------------------
(***************************************************************************)
(* The connection of syncclient (uv_client.h, uv_client.cpp): connecting,  *)
(* losing and re-establishing the TCP connection, and the path every       *)
(* outgoing frame takes through cur_write_buffer_chain_, my_write_buf_ and *)
(* libuv's queue of write requests.                                        *)
(*                                                                         *)
(* The program is single threaded: each action below is one callback run   *)
(* by the libuv loop, with every call it makes.  What libuv itself does    *)
(* (which callback it runs next, and with which status) is nondeterminism. *)
(* UVClient is an abstract class: Write and the hook of AfterWrite let     *)
(* a subclass write any frame of Msg; SyncClient.tla says which ones it    *)
(* writes.                                                                 *)
(***************************************************************************)
EXTENDS Integers, Sequences

CONSTANTS
  Msg,              \* frames (length prefix and body) a subclass may write
  WriteLimit,       \* check_is_writing_too_much(): 10 MiB, here in frames
  RetryTimes,       \* reconnect_retry_times_ (5 in the code)
  ShouldReconnect   \* is_should_reconnect_ (SyncClient sets it to true)

ASSUME WriteLimitAssumption == WriteLimit \in Nat \ {0}
ASSUME RetryTimesAssumption == RetryTimes \in Nat
ASSUME ShouldReconnectAssumption == ShouldReconnect \in BOOLEAN

VARIABLES
  tcp,              \* life cycle of the handle tcp_ points to
  isClosed,         \* is_closed_
  retry,            \* current_reconnect_retry_time_
  reconnectTimer,   \* reconnect_timer_ is started
  loop,             \* uv_run: before, during, told to stop, over, aborted
  cur,              \* frames in cur_write_buffer_chain_, not yet flushed
  writeBuf,         \* chains of my_write_buf_
  inflight,         \* write requests libuv holds, oldest first
  stream            \* every frame ever moved to my_write_buf_ (history)

connVars == <<tcp, isClosed, retry, reconnectTimer>>
writeVars == <<cur, writeBuf, inflight, stream>>
uvVars == <<tcp, isClosed, retry, reconnectTimer, loop,
            cur, writeBuf, inflight, stream>>

(***************************************************************************)
(* A chain of my_write_buf_ holds the frames stream[lo+1..hi].  A write    *)
(* request points into exactly one chain, so requests are chains too.      *)
(***************************************************************************)
Chain == [lo : Nat, hi : Nat]

TcpStates == {"none",        \* before the first uv_tcp_init
              "inited",      \* initialised, uv_tcp_connect refused at once
              "connecting", "open",
              "closing",     \* uv_close called, close_cb still to come
              "closed"}
LoopStates == {"before", "running", "stopping", "returned", "aborted"}

TypeOK ==
  /\ tcp \in TcpStates
  /\ isClosed \in BOOLEAN
  /\ retry \in 0 .. RetryTimes
  /\ reconnectTimer \in BOOLEAN
  /\ loop \in LoopStates
  /\ cur \in Seq(Msg)
  /\ writeBuf \in Seq(Chain)
  /\ inflight \in Seq(Chain)
  /\ stream \in Seq(Msg)

UVInit ==
  /\ tcp = "none"
  /\ isClosed = FALSE
  /\ retry = 0
  /\ reconnectTimer = FALSE
  /\ loop = "before"
  /\ cur = <<>>
  /\ writeBuf = <<>>
  /\ inflight = <<>>
  /\ stream = <<>>

\* uv_stop only sets a flag: the current iteration still runs its callbacks.
LoopRuns == loop \in {"running", "stopping"}

(***************************************************************************)
(* Writing.                                                                *)
(***************************************************************************)

\* Mutant: the first chain is all that is queued.
FirstChainLength(chains) ==
  IF chains = <<>> THEN 0 ELSE chains[1].hi - chains[1].lo

\* buffer::total_len() of a contiguous list of chains.
TotalLen(chains) ==
  IF chains = <<>> THEN 0 ELSE chains[Len(chains)].hi - chains[1].lo

\* check_is_writing_too_much()
TooMuch(chains) == TotalLen(chains) > WriteLimit

\* my_write_buf_.drain(front().size()) in after_write: the first chain goes.
\* Mutants: everything queued goes; the chain goes but stays in the list.
DrainEverything(chains) == <<>>
DrainInPlace(chains) == [chains EXCEPT ![1].lo = chains[1].hi]
DrainFirst(chains) == Tail(chains)

\* my_write_buf_.drain(total_len()) in on_close.  Mutant: it is forgotten.
DrainNothing(chains) == chains
DrainTotal(chains) == <<>>

\* uv_is_closing.  Mutant: a close that is still pending is overlooked.
UvIsClosed == tcp = "closed"
UvIsClosing == tcp \in {"closing", "closed"}

\* close_tcp(): libuv asserts that a handle is closed once only.
CloseTcp ==
  IF tcp \in {"closing", "closed"}
    THEN loop' = "aborted" /\ UNCHANGED tcp
    ELSE tcp' = "closing" /\ UNCHANGED loop

(***************************************************************************)
(* do_write() when `frames' is what cur_write_buffer_chain_ holds, `chains'*)
(* what my_write_buf_ holds and `reqs' the requests libuv holds.  While    *)
(* the handle is closing nothing is flushed and the frames stay in         *)
(* cur_write_buffer_chain_.  Otherwise init_write_req() moves the chain to *)
(* my_write_buf_ and uv_write either queues a request for it or refuses    *)
(* it at once, and then the connection is closed.  libuv queues writes     *)
(* issued while it connects.                                               *)
(***************************************************************************)
DoWrite(chains, reqs, frames, ret) ==
  \/ /\ UvIsClosing
     /\ ret = -1
     /\ cur' = frames
     /\ writeBuf' = chains
     /\ inflight' = reqs
     /\ UNCHANGED <<tcp, loop, stream>>
  \/ /\ ~UvIsClosing
     /\ cur' = <<>>
     /\ stream' = stream \o frames
     /\ LET chain == [lo |-> Len(stream), hi |-> Len(stream) + Len(frames)]
        IN  /\ writeBuf' = Append(chains, chain)
            /\ \/ /\ tcp \in {"connecting", "open"}
                  /\ ret = 1
                  /\ inflight' = Append(reqs, chain)
                  /\ UNCHANGED <<tcp, loop>>
               \/ /\ tcp # "connecting"
                  /\ ret = -1
                  /\ inflight' = reqs
                  /\ CloseTcp

(***************************************************************************)
(* write(size) followed by write(body, flush): how a frame is written.     *)
(* Both calls see the same is_closed_ and the same my_write_buf_, so they  *)
(* are refused together (ret = -1: closed, ret = 0: too much queued) or    *)
(* both append.  Frames left in cur_write_buffer_chain_ by an earlier      *)
(* connection may leave no room for the size, whose append never grows the *)
(* chain; the body is then not written either.                             *)
(***************************************************************************)
WriteFrame(chains, reqs, m, ret) ==
  \/ /\ isClosed \/ TooMuch(chains)
     /\ ret = IF isClosed THEN -1 ELSE 0
     /\ writeBuf' = chains
     /\ inflight' = reqs
     /\ UNCHANGED <<tcp, loop, cur, stream>>
  \/ /\ ~isClosed
     /\ ~TooMuch(chains)
     /\ cur # <<>>
     /\ ret = -1
     /\ writeBuf' = chains
     /\ inflight' = reqs
     /\ UNCHANGED <<tcp, loop, cur, stream>>
  \/ /\ ~isClosed
     /\ ~TooMuch(chains)
     /\ DoWrite(chains, reqs, Append(cur, m), ret)

\* A subclass writes a frame from one of its own callbacks.
Write(m, ret) ==
  /\ LoopRuns
  /\ WriteFrame(writeBuf, inflight, m, ret)
  /\ UNCHANGED <<isClosed, retry, reconnectTimer>>

\* libuv completes its oldest request; a closing handle cancels them all.
WriteCompletes == /\ LoopRuns
                  /\ inflight # <<>>
                  /\ tcp \in {"open", "closing"}

\* after_write() when the subclass's do_after_write() writes nothing:
\* the first chain of my_write_buf_ is drained, whatever the status.
AfterWrite ==
  /\ WriteCompletes
  /\ writeBuf' = DrainFirst(writeBuf)
  /\ inflight' = Tail(inflight)
  /\ UNCHANGED <<connVars, loop, cur, stream>>

\* after_write() when do_after_write() writes the frame m.
AfterWriteThenWrite(m, ret) ==
  /\ WriteCompletes
  /\ WriteFrame(DrainFirst(writeBuf), Tail(inflight), m, ret)
  /\ UNCHANGED <<isClosed, retry, reconnectTimer>>

(***************************************************************************)
(* Connecting and reconnecting.                                            *)
(***************************************************************************)

\* connect_tcp(): the handle is reinitialised and starts to connect, or libuv
\* refuses at once.
ConnectTcp(ok) == tcp' = IF ok THEN "connecting" ELSE "inited"

\* start(): connect_tcp(), then uv_run.
Start(ok) ==
  /\ loop = "before"
  /\ ConnectTcp(ok)
  /\ loop' = IF ok THEN "running" ELSE "returned"
  /\ UNCHANGED <<isClosed, retry, reconnectTimer, writeVars>>

\* The block of on_connect that ends an outage (it also wakes the ping timer).
\* Mutant: the retry count survives it.
OutageOverKeepingRetry == isClosed' = FALSE /\ UNCHANGED retry
OutageOver == isClosed' = FALSE /\ retry' = 0

\* on_connect() with status 0.
OnConnect ==
  /\ LoopRuns
  /\ tcp = "connecting"
  /\ tcp' = "open"
  /\ IF ShouldReconnect /\ isClosed
       THEN OutageOver
       ELSE UNCHANGED <<isClosed, retry>>
  /\ UNCHANGED <<reconnectTimer, loop, writeVars>>

\* on_connect() with a negative status.
OnConnectFailed ==
  /\ LoopRuns
  /\ tcp = "connecting"
  /\ CloseTcp
  /\ UNCHANGED <<isClosed, retry, reconnectTimer, writeVars>>

\* on_read() with EOF or an error, or when the subclass rejects the data.
OnReadFailed ==
  /\ LoopRuns
  /\ tcp = "open"
  /\ CloseTcp
  /\ UNCHANGED <<isClosed, retry, reconnectTimer, writeVars>>

\* The two conditions of on_close.  Mutants: one attempt too many, one too
\* few, and a last attempt that is nobody's.
OneRetryMore == ShouldReconnect /\ retry <= RetryTimes
OneRetryLess == ShouldReconnect /\ retry + 1 < RetryTimes
RetriesExceeded == ShouldReconnect /\ retry > RetryTimes
MayRetry == ShouldReconnect /\ retry < RetryTimes
RetriesOver == ShouldReconnect /\ ~MayRetry

(***************************************************************************)
(* on_close(): libuv runs close_cb after the callbacks of every cancelled  *)
(* request.  my_write_buf_ is drained, cur_write_buffer_chain_ is not.     *)
(* (uv_timer_start fails only for a closing timer, and none ever is.)      *)
(***************************************************************************)
OnClose ==
  /\ LoopRuns
  /\ tcp = "closing"
  /\ inflight = <<>>
  /\ tcp' = "closed"
  /\ isClosed' = TRUE
  /\ writeBuf' = DrainTotal(writeBuf)
  /\ reconnectTimer' = MayRetry
  /\ loop' = IF RetriesOver THEN "stopping" ELSE loop
  /\ UNCHANGED <<retry, cur, inflight, stream>>

\* uv_timer_stop comes after a connect_tcp that started an attempt; else the
\* timer stays active.  Mutant: it always does.
RepeatsAlways(ok) == TRUE
RepeatsAfter(ok) == ~ok

\* on_timeout() of reconnect_timer_: connect_tcp() reinitialises the handle.
OnReconnectTimeout(ok) ==
  /\ loop = "running"
  /\ reconnectTimer
  /\ retry' = retry + 1
  /\ ConnectTcp(ok)
  /\ reconnectTimer' = RepeatsAfter(ok)
  /\ loop' = IF ok THEN loop ELSE "stopping"
  /\ UNCHANGED <<isClosed, writeVars>>

\* uv_run returns to main after uv_stop (the monitored directory and the ping
\* timer of the subclass keep the loop alive until then).
LoopReturns ==
  /\ loop = "stopping"
  /\ loop' = "returned"
  /\ UNCHANGED <<connVars, writeVars>>

UVNext ==
  \/ \E ok \in BOOLEAN : Start(ok)
  \/ OnConnect
  \/ OnConnectFailed
  \/ OnReadFailed
  \/ OnClose
  \/ \E ok \in BOOLEAN : OnReconnectTimeout(ok)
  \/ LoopReturns
  \/ AfterWrite
  \/ \E m \in Msg, ret \in {-1, 0, 1} : AfterWriteThenWrite(m, ret)
  \/ \E m \in Msg, ret \in {-1, 0, 1} : Write(m, ret)

UVSpec == UVInit /\ [][UVNext]_uvVars

(***************************************************************************)
(* Fairness.  Every callback below is one libuv is bound to run: it        *)
(* decides a connection attempt, closes a handle after cancelling its      *)
(* requests, fires a started timer and returns after uv_stop.  On an open  *)
(* connection it completes the oldest write or reports the connection lost *)
(* (a peer that stays connected and never reads again is excluded).        *)
(***************************************************************************)
CompletesWrite ==
  AfterWrite \/ \E m \in Msg, ret \in {-1, 0, 1} : AfterWriteThenWrite(m, ret)

UVFairness ==
  /\ WF_uvVars(\E ok \in BOOLEAN : Start(ok))
  /\ WF_uvVars(OnConnect \/ OnConnectFailed)
  /\ WF_uvVars(CompletesWrite \/ (inflight # <<>> /\ OnReadFailed))
  /\ WF_uvVars(OnClose)
  /\ WF_uvVars(\E ok \in BOOLEAN : OnReconnectTimeout(ok))
  /\ WF_uvVars(LoopReturns)

-----------------------------------------------------------------------------
(***************************************************************************)
(* Safety.                                                                 *)
(***************************************************************************)

\* libuv reads the bytes of a request after uv_write returned: every request
\* it holds points into a chain that my_write_buf_ still owns, and requests
\* and chains are completed and drained in the same order (after_write drains
\* the first chain without looking at the request).
Backed(chains, reqs) ==
  /\ Len(reqs) <= Len(chains)
  /\ \A i \in 1 .. Len(reqs) : reqs[i] = chains[i]

InflightBacked == Backed(writeBuf, inflight)

\* No byte is queued twice or skipped: the chains of my_write_buf_ are never
\* empty (after_write would drain nothing) and follow one another up to the
\* last frame flushed.
Tiles(chains, end) ==
  /\ \A i \in 1 .. Len(chains) : chains[i].lo < chains[i].hi /\ chains[i].hi <= end
  /\ \A i \in 1 .. Len(chains) - 1 : chains[i].hi = chains[i + 1].lo
  /\ chains # <<>> => chains[Len(chains)].hi = end

ChainsTile == Tiles(writeBuf, Len(stream))

\* Backpressure: whatever was queued before the newest chain fits the limit,
\* so my_write_buf_ exceeds it by at most that one chain, whatever sequence
\* of writes, completions and reconnects led there.
WithinLimit(chains) ==
  chains # <<>> => chains[Len(chains)].lo - chains[1].lo <= WriteLimit

BackPressure == WithinLimit(writeBuf)

\* uv_close is never called on a handle that is closing or closed, which
\* libuv answers with abort(): the three callers of close_tcp() (a failed
\* connect, a failed read, a refused write) never meet.
NeverAborts == loop # "aborted"

\* Between on_close and the next on_connect both queues are empty, so the
\* 10 MiB limit and the order of completions start afresh.
ClosedIsDrained ==
  isClosed => writeBuf = <<>> /\ inflight = <<>>

\* On an open connection writes are not refused, the retry count is back to 0
\* and the timer that would reinitialise the handle is not running.
OpenIsFresh ==
  tcp = "open" /\ ShouldReconnect => ~isClosed /\ retry = 0 /\ ~reconnectTimer

\* Nothing of a lost connection gets into the next: neither queued chains and
\* requests (on_close, init_write_req) nor flags and timer (on_connect).
StartsAfresh == ClosedIsDrained /\ OpenIsFresh

\* The client gives up only after the last of its reconnect attempts failed,
\* or when libuv refused to start an attempt at all.
GivesUpOnlyAfterRetries ==
  loop \in {"stopping", "returned"} /\ ShouldReconnect =>
    \/ tcp = "closed" /\ retry = RetryTimes
    \/ tcp = "inited"

\* connect_tcp() overwrites the handle with memset: it never does so while
\* libuv still uses it (from uv_tcp_connect to its close callback).
NoReinitOfLiveHandle ==
  [][tcp' # tcp /\ tcp' \in {"inited", "connecting"} => tcp \in {"none", "closed"}]_uvVars

(***************************************************************************)
(* The abstract specification.                                             *)
(***************************************************************************)

\* The frames that a chain, or each of several, points to in a history of frames.
FramesOf(frames, chain) == SubSeq(frames, chain.lo + 1, chain.hi)
Carried(frames, chains) == [i \in DOMAIN chains |-> FramesOf(frames, chains[i])]

\* The state of the connection as a subclass meets it.
Link == IF isClosed THEN "down" ELSE IF tcp = "closing" THEN "broken" ELSE "up"

Queue == INSTANCE FrameQueue WITH
           Frame <- Msg,
           link <- Link,
           waiting <- cur,
           writes <- Carried(stream, writeBuf),
           handed <- Carried(stream, inflight)

\* The two buffers, the requests and the flags of a connection are one queue of
\* frames: whatever is refused, cancelled or reconnected, a completion drains
\* the frames that were written by the request it is of, and no other.
IsFrameQueue == Queue!Spec

(***************************************************************************)
(* Liveness.                                                               *)
(***************************************************************************)

\* "support reconnect" (README.md): an outage ends with a connection, or
\* with the program's end; it never stays disconnected with the loop running.
OutageEnds == isClosed ~> (tcp = "open" \/ loop = "returned")

\* Every frame handed to libuv leaves my_write_buf_ (written, or dropped with
\* its connection): no chain stays at the head of the buffer for ever.
FrameLeaves(n) ==
  Len(stream) >= n ~>
    (writeBuf = <<>> \/ writeBuf[1].lo >= n \/ loop = "returned")

=============================================================================
