# Verification of syncclient

TLA+ specifications of `syncclient`, a client that watches a directory and
sends the files that change to a server over one TCP connection, with their
TLC models and machine-checked TLAPS proofs. Paths below are relative to the
repository's root; `src/x.cpp` is the file `x.cpp`.

- [1. The system](#1-the-system)
- [2. Modules](#2-modules)
- [3. From code to model](#3-from-code-to-model)
- [4. What TLC checks](#4-what-tlc-checks)
- [5. What is proved](#5-what-is-proved)
- [6. Disagreements between the code and its documentation](#6-disagreements-between-the-code-and-its-documentation)
- [7. What is not modelled](#7-what-is-not-modelled)
- [8. Plan](#8-plan)

## 1. The system

Everything but the disk requests runs on one thread, inside libuv's loop
(`uv_run` in `UVClient::start`). There are no locks; the interleavings are
those of callbacks: connection, timers, reads, completed writes, completed disk
requests, file events, and the check handle that runs in every iteration. A
callback is never preempted, so each one is a single action of a model.

| Component | Source | State | Operations |
|---|---|---|---|
| Connection | `uv_client.cpp`, `uv_client.h` | `tcp_`, `is_closed_`, `current_reconnect_retry_time_`, the reconnect timer | `start`, `connect_tcp`, `on_connect`, `on_read`, `close_tcp`, `on_close`, `on_timeout` |
| Write path | `uv_client.cpp` | `cur_write_buffer_chain_`, `my_write_buf_`, libuv's queue of requests | `write`, `do_write`, `init_write_req`, `after_write`, the drain of `on_close` |
| File transfer | `sync_client.cpp`, `uv_fs.cpp` | `sync_entry_map_`, `fs_files_map_`, each `FSFile` with its `read_buf_`, `fses_`, `is_wrote_too_much_` | `do_on_fs_event`, `start_send_file`, `file_cb`, `send_deposite_file_message`, `do_after_write` |
| File events | `uv_client.cpp` | `fs_monitoring_map_`, `fs_event_map_` | `start_fs_monitoring`, `on_fs_event`, `fs_event_check_cb`, `stop_fs_monitoring` |
| Ping | `sync_client.cpp`, `uv_client.cpp` | the ping timer, `timer_interval_`, `is_ping_failed_`, `is_write_buf_full_` | `start_ping_timer`, `wakeup_ping_timer`, `do_on_timeout`, `ping` |
| Read path | `sync_client.cpp`, `decoder.h` | `my_read_buf_`, `state_`, `bytesRemainToParse_` | `do_on_read`, `decode`, `decodeLen`, `decodeRemain`, `reset` |
| Buffer | `buffer.cpp`, `buffer.h` | `chains_`, `last_chain_with_data_`, `total_len_`; of a chain `capacity_`, `misalign_`, `off_` | `append`, `pullup`, `remove`, `drain`, `expand_if_needed`, … |
| Messages | `sync_package.*` | none | building the protobuf messages |
| Main | `main.cpp` | none | `setupLogger`, `main` |
| Logging | `easylogging++.*` (vendored, compiled in) | each logger's `Configurations`, its typed maps, its counts of unflushed lines; the table of streams; the flags | configuring and reconfiguring, parsing configurations and formats, `dispatch`, `flush`, `unsafeValidateFileRolling` |

How they interact. A file event puts the path in `fs_event_map_`; the check
handle, which runs whenever something wakes the loop and at least with every
tick of the ping timer, turns an old enough one into a transfer. A transfer is a chain of disk
requests, each callback issuing the next. Every block read becomes a frame
(an 8-byte length and a `SyncPackage`), and `write()` moves it through
`cur_write_buffer_chain_` into `my_write_buf_` and hands it to `uv_write`. When
more than 10 MiB are queued, `write()` refuses, the file is *parked* in `fses_`,
and the next `after_write` takes one file out and tries again. A lost
connection cancels all requests, `on_close` empties both buffers and starts the
reconnect timer; transfers go on, or fail at their next write. Every component
logs; the logging never feeds back into them.

What is hard about it, and what would make each part correct (the complete list,
by source line, is under `hazards` in `PROJECT.json`):

- **Connection.** `close_tcp` has three callers and checks nothing, while
  closing a handle twice aborts the process. `connect_tcp` overwrites the handle
  with `memset`. The retry count is compared, incremented and reset in three
  callbacks. *Correct*: closed once; reinitialised only when dead; every outage
  ends, with a connection or after exactly the configured attempts.
- **Write path.** `after_write` drains the first chain without looking at which
  request has completed. *Correct*: requests and chains stay in step through
  refused writes, cancellations and reconnects, nothing of a closed connection
  is left in `my_write_buf_`, and it stays bounded.
- **File transfer.** Parking spreads one fact over `fses_`,
  `is_wrote_too_much_`, `read_buf_` and the absence of a request; only a write
  still to complete wakes a parked file. *Correct*: no parked file is lost,
  the blocks of a transfer are sent once, in order and all of them, also when
  files interleave and connections break; every transfer ends.
- **Read path.** TCP cuts messages anywhere. *Correct*: each message is decoded
  once, in order, as soon as it is complete, and the loop ends.
- **File events.** Whether an event is old enough is decided by a cached clock,
  in a callback that runs only when the loop wakes up. *Correct*: nothing is
  handed over while the file still changes, and everything soon after.
- **Buffer.** Bytes move between chains with three ways to grow, `misalign_`
  eats capacity, and `last_chain_with_data_` points into a list others erase
  from. *Correct*: it behaves as a queue of bytes, inside its memory; iterators,
  copies and searches find the bytes where they are.
- **Logging.** Configurations of a logger are merged entry by entry, and its
  typed maps leave out what equals Global's value. Lines stay in a stream until
  enough of their level were counted; a flush is the only moment the file's
  size is looked at; loggers share files. *Correct*: what is used is what was
  asked for, by the rules of the header; a file stays near its limit; a crash loses few lines; no file
  is truncated that need not be.

## 2. Modules

```
 FrameQueue
    ▲ implements
 UVClient ◄──────── SyncClient            ByteQueue ◄─implements── Buffer
 connection,  EXTENDS  file events,        a queue of bytes         lists of chains
 write path            transfers                                       ▲ EXTENDS
    ▲                     ▲    ▲                                     BufferReads
    │ EXTENDS             │    ┊ says which events                   iterators, copies,
 UVClientProofs ◄── SyncClientProofs  are due                        search, read_line
                               ┊                                     ▲          ▲
                               ┊                             BufferProofs   BufferCopies
                            FsEvents       LogFormat ◄─ LogConfig ◄─┬─ LoggerConfig
 Decoder                    clock, ping    formats      lists, maps │      ▲
 do_on_read's loop          timer                                   │  LoggerConfigProofs
    ▲                          ▲                                    └─ Logging
 DecoderProofs           FsEventsProofs                                files, crashes
                                                                        ▲
                                                                     LoggingProofs
```

| Module | Lines | What it is |
|---|---|---|
| `FrameQueue` | 78 | abstract specification of the write path: a queue of frames on a link that breaks |
| `UVClient` | 419 | connection and write path; a subclass may write any frame at any time |
| `SyncClient` | 402 | the subclass: file events and transfers; each of its steps is a step of `UVClient` or leaves that alone |
| `FsEvents` | 282 | when a pending event is due: the loop, its cached clock, the ping timer, start and stop of monitoring |
| `Buffer` | 328 | `reactor::buffer`: every way to append, `pullup`, `remove`, `drain` |
| `BufferReads` | 269 | the rest of it: iterators, copies, `search`, `read_line` |
| `BufferCopies` | 74 | how the chains of copied and assigned buffers are linked |
| `ByteQueue` | 64 | abstract specification of `Buffer` and `BufferReads`: a queue of bytes with the result of each call |
| `Decoder` | 245 | reading and decoding the server's messages |
| `LogFormat` | 97 | operators: parsing a format, building a line |
| `LogConfig` | 212 | operators: lists of settings, the parser, typed maps, what `main.cpp` sets |
| `LoggerConfig` | 206 | one logger given lists, texts and single values one after the other |
| `Logging` | 411 | loggers, streams and files: lines, flushes, rolling, crashes, a full disk |
| `UVClientProofs` | 976 | invariant, theorems and proofs of the connection and the write path, refinement of `FrameQueue` |
| `SyncClientProofs` | 1025 | the same of the transfers: parking, the order of blocks, who wakes a parked file |
| `BufferProofs` | 3839 | of the buffer as a queue; of its iterators, copies and search |
| `DecoderProofs`, `FsEventsProofs`, `LoggingProofs`, `LoggerConfigProofs` | 771, 421, 2858, 6998 | the same for each of the other modules |
| `NaturalLemmas` | 157 | least number, induction over sets of naturals, powers of two: what the proofs of several components share |
| `MCUVClient`, `MCSyncClient`, `MCFsEvents`, `MCBuffer`, `MCDecoder`, `MCLoggerConfig`, `MCLogging` | | constants and bounds for TLC |

`UVClient` plays two parts. By itself it is the abstract class of the code, with
a most general subclass: `Write(m, ret)` at any time and
`AfterWriteThenWrite(m, ret)` in the hook of `after_write`. `SyncClient` extends
it and *implements* it: `Spec => UVSpec` is checked and proved, so what is
proved of `UVClient` holds of the client. `SyncClient` uses `UVClient`'s action
operators for the part of a callback that belongs to the connection and adds its
own conjuncts, as the C++ subclass overrides `do_after_write`, `do_on_read`, ….

## 3. From code to model

`map` in `PROJECT.json` names the lines of every definition. The main choices:

**Handle (`tcp`).** `none` until `connect_tcp`, `inited` when `uv_tcp_connect`
refused at once, then `connecting`, `open`, `closing` (`uv_close` called) and
`closed` (`close_cb` ran). Closing a closing handle sets `loop` to `aborted`:
libuv's assertion. `loop` distinguishes `stopping` (after `uv_stop`, when
callbacks of the current iteration still run, but no timer) from `returned`.

**Writes.** A frame is indivisible: `write(size)` and `write(body)` see the same
`is_closed_` and the same buffer and are refused together. Frames are numbered
in `stream`, a history of everything moved into `my_write_buf_`; a chain is an
interval of it, and a request is the chain it points to. `ret` is what the code
returns: 1 queued, 0 too much queued, -1 error. `WriteFrame` has three cases:
refused; appended and handed to `DoWrite`; and a third for frames left in
`cur_write_buffer_chain_` by an earlier connection (`do_write` returns before
`init_write_req` while the handle is closing, and `on_close` does not empty that
chain), which may leave no room for the length: `append` of the length does not
grow the chain, so the frame is refused. Which of the last two happens depends
on sizes in bytes and is a free choice. `uv_write` may refuse on a connected
handle; while connecting it queues.

**Completions.** libuv completes requests in order, successfully on an open
handle or as cancelled on a closing one, and calls `close_cb` after the last.

**Transfers.** One function per field of `SyncEntryInfo` and `FSFile`, indexed
by file; `req[f]` is the request in the thread pool. Sizes are counted in units
of which `Block` make 4096 bytes. A failed `stat` reports size 0. `gen` numbers
the transfers of a file, so that frames of an earlier one can be told apart; it
is bounded by `MaxGen`. Which pending events are older than 500 ms (`FsEvents` says), and which
files still exist, is a free choice, so is the file `do_after_write` picks (in
the code, the order of addresses).

**File events.** A step `Iterate(d)` is the part of `uv_run` between two
iterations: update the time, run due timers, poll for `d`, update the time again.
Then the callbacks of the iteration run, in any order and number, with `Busy`
letting time pass that `uv_now()` does not see, and the check handle ends it. All
times are relative (an entry's age, what is left of the timer) and ages saturate
at `Horizon`, beyond which nothing distinguishes them; so there is no bound on the
length of a behaviour. The destructor runs after the loop; with an event pending,
`stop_fs_monitoring` advances the outer map's iterator in the inner loop, and
`phase` becomes `undefined`.

**Buffer.** Bytes are numbered, a chain is `[cap, mis, lo, hi]` and holds the
bytes `lo+1 .. hi`. A copy extends `hi`; that the bytes copied are the next ones
is what `Bookkeeping` says of their source, and a copy of the wrong ones shows up as
a gap. Appending is a function from a buffer to a buffer (`Expand`, then `Filled`),
because `append(other, …)` and `append_printf` do it twice in a call. The
comparison of a signed length with the unsigned `total_len_` is modelled with its
width (`Unsigned`). Lengths are below 2 GiB. `Printf` leaves out two calls in
which `append_printf` fails on an empty buffer: an empty string leaves an empty
chain, and a string as long as a new chain never returns.

**Reading a buffer.** An iterator is its chain and the two offsets the code keeps;
`Address` computes from the chain's memory which byte it stands at. Bytes in
front of `misalign_` were taken but are still in memory, and a copy or iterator
that starts too early finds them. `Text` gives the bytes their values, which only
`search` and `read_line` look at. A copy holds `CopyFrom(..).bytes` and says it holds
`total`: the code sets `total_len_` to the length asked for, also when the data ends
before; what `copy_out_from`'s `remove` has left to take then is `RemainToRemove`.

**Links of copies.** The chains of a buffer are in order in `chains`, which is right as
long as each `next_` points to the next element of the list. The copy constructor sees to
that (`CopyOf`); the two other ways to copy chains do not, and `BufferCopies` says what
they leave: `Assigned` is `operator=`, whose chains keep the other buffer's links, or,
for an empty source, everything that was there; `FirstOnes` is `buffer(other, n)`, built
of appended copies, whose last chain is linked to itself. The program's buffers are
copied in neither way.

**Decoder.** One iteration of `do_on_read`'s loop per step; nothing else happens
while it runs (`reading`). `my_read_buf_` is an interval of the connection's
byte numbers, which is what `Buffer` implements. A length read from a place that
is not a message's start is garbage and may be any of `Garbage`, and so is the
outcome of parsing there. A negative length is neither incomplete nor ever
complete: `decode()` does not return and the model has no step (`Hung`).
`BodyLenAssumption` (a body is longer than a length) holds because the messages
are proto2 with required fields: the header of a `SyncPackage` alone is longer
than 8 bytes.

**Logging.** A format is a sequence of tokens (`%name`, `%%name`, a date format),
so that what `replaceFirstWithEscape` does (replace the first occurrence that is
not escaped, take the mark off escaped ones before it) is an operator on
sequences. A list of settings is kept by type, in the order of registration;
`LogConfig` computes the typed maps as the code builds them, with levels missing
that equal Global. In `LoggerConfig` two histories are computed from the settings alone, without the
lists and maps. `wanted` is what `easylogging++.h` promises: a value replaces the one
of its level, a value for Global those of all levels (1773), types that do not depend
on the level are ignored for others than Global (1774-1776), defaults go where there is
no value (1821). `strayed` holds the levels and types for which the code is known to do
something else: `OutOfOrder` (a level named before Global and after it again),
`Overwritten` (the default of Global reaches a level that has a value or a default of its
own), `NotIgnored`. A pair leaves `strayed` when it is set, or defaulted, anew without
one of these. `Logging` takes complete
configurations by name; `MCLogging` states what the maps of each say, and an
assumption (`BuiltAssumption`, evaluated by TLC) that `LogConfig` builds them.
Of a file it keeps the lines on the disk, the lines in the stream and whether the
stream has failed. Where the code goes through loggers or levels and flushes or
rolls a file for each, the model says what comes of it for each file at once
(`FlushFiles`, `BuildAt`, `Configure`): the order does not matter, because the
first flush leaves nothing to the others, nothing is written in between, and a
truncated file is below every limit. `Killed` and `LogFatal` lose what streams hold, `Exit` flushes.
A size that cannot be determined (`tellg` of a failed stream is -1, unsigned)
is over every limit. Not modelled there: threads (the program logs from one),
user callbacks, and the two features the build leaves out, asynchronous logging
and the crash handler.

## 4. What TLC checks

Every run of `PROJECT.json` finishes within three minutes; each property has a mutant of the
code in `PROJECT.json` (a dropped guard, a wrong order, a missing reset) that TLC
finds it violated for.

| Run | Instance | Question |
|---|---|---|
| `connection` (`MCUVClient.cfg`) | 2 frames, limit 2, 2 retries, 6 frames in all | Whatever a subclass writes and however the network fails: do the queues and the connection stay consistent, does every outage end, does every frame leave? |
| `transfer` (`MCSyncClient.cfg`) | 2 files of size 0, 4 or 5, blocks of 2, limit 2, 1 retry, 2 transfers (one of each file, or one file twice) | Parking, interleaving, disk errors, reconnects: is any file lost, any block repeated, skipped or reordered, also when frames of an abandoned transfer are still buffered? |
| `transfer_live` (`MCSyncClientLive.cfg`) | 2 files of 2 blocks, limit 1 | Does `SyncClient` implement `UVClient`, and does every transfer end? |
| `fs_events` (`MCFsEvents.cfg`) | 2 files in 1 directory, in units of 250 ms: gap 2, interval 4, up to 1 of work per iteration | Is a change handed over after its quiet time, soon, and not never? |
| `buffer` (`MCBuffer.cfg`) | lengths 0..5, chains of 2, at most 7 bytes, 8-bit counter | Is the buffer a queue of bytes, inside its memory, for any sequence of calls; do iterators, copies and searches find the right bytes in every buffer reached? |
| `decoder` (`MCDecoder.cfg`) | 2-byte lengths, bodies of 3 or 4 bytes, 3 messages, 2 connections | However the stream is cut: is each message decoded once, in order, in time? |
| `logger_config` (`MCLoggerConfig.cfg`) | 3 levels, 513 texts, 4 single values, 6 formats; 2 changes | Does a logger use what the header promises, where it has not strayed, and print the lines its formats say? |
| `logging` (`MCLogging.cfg`) | 2 loggers, 3 levels, 3 files, 4 configurations, limit 4, threshold 2, 1 line of stream buffer; 1 change of configuration per process, crashes and restarts without bound | How large do files get, what does a crash lose, when is a file truncated? |
| `empty_file`, `changed_again`, `decoder_reconnect`, `decoder_broken` | small | Counterexamples to what the repository says; see section 6. |

The properties, beyond one type invariant per module:

- *Write path*: `InflightBacked` (every request points into a chain still owned,
  in the order of the chains), `ChainsTile` (`my_write_buf_` is the unfinished
  end of the stream, without empty chains), `BackPressure` (the limit is
  exceeded by the newest chain at most), `FramesLeave` (every frame eventually
  leaves); and `IsFrameQueue`, the refinement of `FrameQueue`: `waiting` is
  `cur_write_buffer_chain_`, `writes` what the chains of `my_write_buf_` carry,
  `handed` what libuv's requests do, and the link is up, broken (`tcp` is
  closing) or down (`is_closed_`).
- *Connection*: `NeverAborts`, `NoReinitOfLiveHandle`, `StartsAfresh` (nothing of
  a lost connection gets into the next), `GivesUpOnlyAfterRetries`, `OutageEnds`.
- *Transfers*: `ParkedIsSuspended`, `FlagMatchesParked`, `NoLostWakeup`,
  `OnlyEmptyFilesStall`; `BlocksInOrder`, `FinishedIsWhole`; `TransferEnds` for
  files that are not empty.
- *File events*: `NeverEarly` (quiet for the gap, up to the error of the cached
  clock), `HeldBriefly` (no event older than gap + interval + one iteration's
  work when an iteration begins), `EventuallyHanded`.
- *Buffer*: `Bookkeeping` (types included), `NoOverflow`, and `IsQueue`, the refinement of
  `ByteQueue` with `head` the first byte of the first chain. `ByteQueue` follows the
  header's comments (but for `remove`, see section 6), so a negative length has a
  configuration of its own, in which `NegativeMeansAll` is violated.
- *Reading a buffer*: `IteratorAddresses` (steps add up, wherever chains end and
  were cut), `CopyIsPart` (a copy holds as many bytes as asked for, or as there
  are, and `remove` is left with the rest),
  `SearchIsFirst` (`search_eol` finds the first line end, and its length, for the
  styles LF, CRLF_STRICT and NUL). The first is stated for buffers whose
  later chains are not cut, the last for chains that are full and not cut
  (`Packed`): in others `iter_of_chain`, which adds capacities, gives wrong
  positions, and `FindsInAnyChains` (`MCBufferCut.cfg`) is violated. Neither
  covers the style CRLF; `CrlfIsEither` (`MCBufferCrlf.cfg`) does, and is violated. The client does not search.
- *Decoder*: `InOrder`, `NothingCompleteWaits`, for a decoder that is in step (no
  connection was lost between a length and its body and every body parsed), and
  `CallbackReturns`, in step or not, but for a negative length out of step.
- *Logging*: `EffectiveIsSet` (what a level uses is what the header promises, in
  every level and type that has not strayed; section 6 names a
  counterexample for each of the three ways to stray),
  `LineIsFormat` (with the same exception); `FileBounded`, `LossBounded`,
  `RollsOnlyWhenFull` (a file is truncated only when it reaches the limit with the line
  that the step writes, two lines for a fatal one, or when its stream failed).

What the logging runs do not show is as important: a roll happens right after the
flush of the newest lines and loses them; lines of a logger that was unregistered
are bounded by nothing; a stream that failed recovers only if its logger has a
limit, and then by truncating the file; a file that could not be opened once is
never tried again. The properties are stated around these, and the definitions
model them.

**Bounds.** `WriteLimit` and `RetryTimes` are small because only crossing them
matters; `RetryTimes = 2` tells first, middle and last attempt apart. Six frames
let `my_write_buf_` fill to its limit and past it, be drained by a disconnect and
fill again, with frames left in `cur_write_buffer_chain_`. A file of 5 units in
blocks of 2 has a first, a middle and a cut last block; two such files exceed a
limit of 2 frames and park. `Block = 2` distinguishes an end that falls inside a
block from one on its edge. The buffer's seven bytes cover each way to grow, chains
that are cut, swallowed and gathered, and requests that end exactly on a chain's
end; their text has each kind of line end, inside a chain and across two. Three
messages over two connections let a piece hold the end of one message, a
whole one and the beginning of a third. In `fs_events` the gap, the interval and the
work of an iteration have the code's proportions; two files are enough for one to
be erased while the other stays. A log file of limit 4 with thresholds of 2 and two
loggers can be flushed when it is not full, is filled by one flush after another, and is
exceeded by lines none of the loggers has flushed (up to `MaxLines`, 6); one change of
configuration makes the two loggers differ. Two changes of a logger's configuration let each kind of merge follow
each other.

**One bound is a precondition.** `NoLostWakeup` needs that there are not too many
files. A chain built of several left-over frames counts as a single completion, and
one completion resumes one file; with more parked files than completions still to
come a parked file survives with no write to wake it. TLC finds this for three files
with a limit of 1. `FewFiles` (`SyncClientProofs`) is the condition under which the
property is proved: the files that are being sent, and the frames that share a
completion with others, are together at most `WriteLimit`. It holds in all 226,490
states of the `transfer` run. In the program `WriteLimit` is some 2500 blocks: it takes
more than 10 MiB of left-over frames in one chain, or some 2500 files sent at once,
to get beyond it.

**Deadlock** is not checked where the system really may stop: the program ends
when it gives up reconnecting, all files may have been sent up to the bounds, and a
decoder that reads a negative length hangs.

**Fairness.** Only what libuv is bound to do: it decides a connection attempt,
cancels the requests of a closed handle and then calls `close_cb`, fires a started
timer, returns after `uv_stop`, answers every disk request, and runs the check
handle in each iteration. On an open connection it completes the oldest write or
reports the connection lost; a peer that stays connected and never reads again is
excluded. No fairness is assumed of successful connects, of file events, or of
reads. In `Decoder` the callback's own loop runs on, because nothing preempts it.
In `FsEvents` an iteration's callbacks end with the check handle (weak fairness),
and time passes: again and again the loop polls for a while (strong fairness of
`Iterate(d)` with `d > 0`, as callbacks in between may make the next poll
return at once). Before the first connection there is no ping timer, but an
attempt that is decided, or the reconnect timer, wakes the loop.

## 5. What is proved

TLAPS checks the theorems below for every value of the constants that the
assumptions named in the modules allow. Every theorem has the form
`Spec => []Inv`, an action property, or a refinement; none of the invariants is
inductive alone, so each component has an inductive one (`...Inv`) with
`Init => Inv` and `Inv /\ [Next]_vars => Inv'`, the latter one lemma per action
or group of actions. TLC checked each inductive invariant on the component's
instance before it was proved.

| Theorem | Of | Says |
|---|---|---|
| `RequestsAreBacked`, `QueueIsSuffix`, `QueueIsBounded` | `UVClient` | `InflightBacked`, `ChainsTile`, `BackPressure` |
| `ClosedOnce`, `HandleReusedWhenDead`, `FreshConnection`, `StopsOnlyAfterRetries` | `UVClient` | `NeverAborts`, `NoReinitOfLiveHandle`, `StartsAfresh`, `GivesUpOnlyAfterRetries` |
| `FramesAreQueued`, `ClientIsFrameQueue` | `UVClient`, `SyncClient` | the refinement `IsFrameQueue` |
| `IsUVClient` | `SyncClient` | the refinement `Spec => UVSpec` |
| `ParkedFilesWait`, `FlagIsExact`, `NoTransferStalls` | `SyncClient` | `ParkedIsSuspended`, `FlagMatchesParked`, `OnlyEmptyFilesStall` |
| `BlocksFollow`, `FinishedIsFlushed` | `SyncClient` | `BlocksInOrder`, `FinishedIsWhole` |
| `ParkedFilesAreWoken` | `SyncClient` | `NoLostWakeup`, while `FewFiles` |
| `BufferBooks`, `BufferFits`, `BufferIsQueue` | `BufferReads` | `Bookkeeping`, `NoOverflow`, the refinement `IsQueue` for lengths that are not negative |
| `StepsAddUp`, `CopiesAreParts`, `SearchesFindFirst` | `BufferReads` | `IteratorAddresses`, `CopyIsPart`, `SearchIsFirst` |
| `DecodedInOrder`, `DecodedAtOnce` | `Decoder` | `InOrder`, `NothingCompleteWaits` |
| `EventsAreQuiet`, `EventsAreHanded` | `FsEvents` | `NeverEarly`, `HeldBriefly` |
| `SettingsAgreement`, `SettingsTakeEffect`, `LinesAreFormats` | `LoggerConfig` | what is stored is what is wanted; `EffectiveIsSet`, `LineIsFormat` |
| `CrashLosesFew`, `FilesStayBounded`, `FilesRollWhenFull` | `Logging` | `LossBounded`, `FileBounded`, `RollsOnlyWhenFull` |
| `TypeCorrect`, `SyncTypeCorrect`, `BufferTypes`, `DecoderTypes`, `FsEventsTypes`, `LoggingTypes` | each | the type invariant |

**Connection and write path** (`UVClientProofs`; `WriteLimit` positive,
`RetryTimes` natural, `ShouldReconnect` Boolean, so the proofs also cover a client
that does not reconnect, which no run does). `IInv` is the conjunction of

- `QueueInv(chains, reqs)`: the two queues tile and back each other; while the
  handle accepts writes they are *equal*, which is why draining the first chain
  on any completion is right; a disconnected client has neither. It takes the
  queues as parameters because a completion and the write in its hook are one
  step: `TailQueue` carries it over the drain, `AppendQueue` and
  `WriteFrameInv` over the write that follows.
- `ConnInv`: which combinations of handle, timer, `is_closed_`, retry count and
  loop are possible. The important one: the timer runs only while the handle is
  dead, so `connect_tcp` never meets a live one.

The refinement of `FrameQueue` needs no more than that. What a chain carries
are the frames it points to in the history `stream`, and those do not change when
frames follow (`CarriedLonger`); draining the first chain takes the oldest write
away (`CarriedTail`), flushing adds one made of what waited (`CarriedAppend`).
`WriteFrameRefines` treats the cases of a write for both its callers;
`CompletionRefines` shows that a completion is of the oldest write, because the
queues back each other. A failed reconnect attempt is a stutter: the link is
down before and after. With `IsUVClient` the client implements the
queue, too (`ClientIsFrameQueue`).

**Parking** (`SyncClientProofs`; `Block` positive, `MaxSize` and `MaxGen` natural,
`Msg = Frame`). The invariant adds `FileInv` to `IInv`: what each request implies
for the counters of its file (`sent < total` when reading, nothing in `read_buf_`,
`sent + readBuf <= total` when parked). It is needed for the refinement as well:
only because no block reaches past its file is every frame one of `Msg`.
`BlockStep` treats the outcome of writing a block once for both callers
(`ReadDone` and `AfterWriteResume`).

**Blocks of a transfer** (`SyncClientProofs`). The order of the frames is not
inductive: it has to be tied to the counter the next block is read at.
`TransferInv` says that everything written of a transfer lies below `sent`
(`NothingAhead`), that the block before `sent` was flushed (`SentIsFlushed`), and
that no frame has the number of a transfer to come (`NoFutureFrames`), which the
next transfer of the file relies on when it starts at byte 0 again. `NothingAhead`
is not true of a transfer being closed: a block that `write()` refused with an
error may have been put into `cur_write_buffer_chain_` all the same.
`WriteEffect` reduces the three cases of a write to "nothing, or one frame more".

**Waking parked files** (`SyncClientProofs`). A file parks only when more than
`WriteLimit` frames are queued, and from then on every completion wakes one. So the
invariant has to count: `WakeInv` says that a queue that is back under its limit
has at least as many requests in flight as files are parked; over the limit
`FewFiles` gives as much (`RequestsSuffice`). A file is parked only when `write()`
refused it because the queue was over the limit; a completion takes a request and a
file away (`WakeStep`). When the connection closes all parked
files are dropped with the queue. The theorem is `Spec /\ []FewFiles => []NoLostWakeup`.

**Buffer** (`BufferProofs`; any `ChainSize`, `MaxExpand` and `Fraction`, lengths of
any sign that fit the counter's width, `MaxBytes` below half of what it counts).
`BufferInv`: the chains hold consecutive bytes, none is empty, the last ends with
the last byte appended, all within their memory, and both
`last_chain_with_data_` and `total_len_` agree with them. It does not hold
in the middle of a call: `expand_if_needed` leaves an empty chain at the end.
`Ready` says what a list is then, and `ExpandReady`, `FillHolds` and `PrintReady`
go from one to the other, so that every call that appends is composed of proved
halves. `drain` and `remove` look at the chains in order; `GoneAreFirst` and
`WithoutHolds` show that what they take is a prefix. The refinement needs every
reply to be ByteQueue's: `UnsignedLength` shows that the comparison of a signed
length with the unsigned counter is right for lengths that are not negative, and
`CapacityFits` that doubling capacities reaches any size. That lengths are not negative is an
assumption of the refinement only; the books are kept for any of them.

**Reading a buffer** (`BufferProofs`). No new invariant is needed: `BufferInv` says
where the bytes are, and the theorems say that three algorithms find them there.
Iterators add lengths up in a recursive sum. `SumFrom` shows, by `InductionTo`, that the
recursive function exists and that its value is a difference of partial sums;
`StepsCounted` applies it to `operator+`. `At(it, x)` says what an iterator x bytes
from the beginning is: the two offsets it keeps agree with its place in memory.
`PlusAddresses` is the theorem about one `operator+`: from byte x to byte x + n. It needs
later chains to be aligned (the code takes `off_` for their length). For
copies that is not assumed: in `BeginPlusLands` the sums are only bounded from below
(`OffsetsAreEnough`), which is enough to show that an iterator that stands at its byte
is inside its chain or at its end, and copies of more bytes than follow are covered: they
hold what follows. `FlattenJoins` shows that pieces that meet make
one interval of bytes (`BytesFromIs`). In a packed buffer the capacities that
`IterOfChain` adds up are the bytes before (`CapsCounted`), a candidate is
compared from its own byte on (`CandidateIs`), and so `Found` is `Occurs`
(`FoundIsOccurs`); that the first chain with a hit holds the first occurrence is
`SearchFindsFirst`, which holds for any text to search for, not only line ends; `SearchesFindFirst` adds
that each style but CRLF looks for its one line end and says its length.

**Decoder** (`DecoderProofs`; any prefix length, bodies longer than that, any
garbage, any number of connections). `InStep`: while the decoder is in step, a
length it has taken is that of the next message to deliver. `Start(i)`,
where a message begins, is a sum that a recursive function computes; that the
function exists and grows is `SumsExist` and `SumsGrow`.

**File events** (`FsEventsProofs`; any gap, interval, work and sleep).
`AgeIsQuiet` bounds an entry's age and the clock's lag by the time its file was
quiet; `NothingDue` says that the check handle left nothing that is due;
`PingRuns` that the timer runs from the first connection on and is never slowed.
From the last two, an age when an iteration begins is at most the gap, the interval
and one iteration's work.

**Logging** (`LoggingProofs`; any finite sets of loggers and levels, any files,
configurations, thresholds, limits and stream size). `FilesSafe` states
`LossBounded` and `FileBounded` together, file by file; to be inductive they need
that no count reaches its threshold whatever happened to the stream
(`BelowThreshold`), that the history has the limits of all present writers
(`LimitsKnown`), that files that cannot be opened stay empty, and that nothing is
held or stray when the process is down. `SafeAfter` treats the outcome of a step for
one file, whatever the step was; the lemmas about actions establish its
hypotheses. `RollsRight` is `RollsOnlyWhenFull` for one file: `LineAt` says that a line
that truncates a file fills it to the limit, and `LogFatalKeeps` that two lines do.

**Settings that take effect** (`LoggerConfigProofs`; any sequence of levels without
repetitions, of which Global is none; any texts, settings and formats). `SettingsInv`
says that the list of the logger has every level, for every type, and that its maps
are made from that list; `stored` is what it has. A configuration is a list made
from nothing and then merged into the logger's, entry by entry, so what counts is
where an entry *stands* in it. `Registered` describes such a list by the settings
that made it: an entry has the value of the last setting that reaches its level, and
stands before the entry of Global only if one of those came before the first for
Global. `RegisterStep` carries this over one setting, `ParsedRegisters`,
`RemainingRegisters` and `ProgramRegisters` over a text, the defaults it leaves out
and `setupLogger`. `Merged` says what entries make of a list that has all levels
(`MergeStep`), and `MergedIsStored` that this is `Stored`, which names the settings alone
but not the lists. Reading the maps back is `LevelsAre` (what equals
Global's value is left out), `GlobalsAre` (the last level's value is everyone's) and
`BuildIs` (a file that does not open turns `ToFile` off and nothing else).

That is what the code does; whether it is what the header promises is `SettingsAgreement`:
`stored` and `wanted` agree in what has not strayed. Both read the same settings, but
`wanted` in the order they were given, `stored` in the order of the list. `LastIsStored`
is the case of a level that is not out of order, `AgreeStep` the one of settings on top
of others, `DefaultsAgree` the one of a text with its defaults: the list is made of the
text's settings followed by those defaults that find no entry, the promise of the
defaults with the settings on top. It is what `SettingsTakeEffect` and `LinesAreFormats`
rest on.

All of these are statements about folds. A fold is the value of a `CHOOSE` of a
recursive function on subsets; `FoldExists` shows that the function exists, for the
operators that are folded here, by their name (`Step`), and `FoldSteps` that the fold
is the last of the values it goes through (`Steps`), so that the rest is `InductionTo`.

**Lines** (the same module). A format is parsed, resolved and printed in passes, each a
fold whose step replaces the first of what the others left. `Reached(b, n, g, done, V)`
is the one invariant of all of them: when the names `done` have had their turn, every
token of the format `b` still stands at its place in `g`; a specifier that leads, that
is, the first of its name, is its value if its name is done; any other token is itself,
or has lost its escape mark, which happens only to names that are done or that led
before it. `MarkReached`, `ReplaceReached` and `SkipReached` are the kinds of a step,
`MarkedReached`, `UpdatedReached` and `BuiltReached` the passes of
`parseFromFormat`, `updateFormatSpec` and `build`; taking the date format out moves
the tokens behind it by one (`Kept`, `Shift`, `KeptReached`). The message is not one
token but a list that may hold specifiers, so it must come last: `WithValue` for `msg`
is related piece by piece to `Printed` (`LinePieces`, `PrintedPieces`, `FlattenMatch`).
`LineOfFormat` is the result for one format; `FormatsInvariance` adds that what is
stored is always a format (`IsFormat`), and `SettingsAgreement` that it is the wanted
one. Assumed of the formats that are given (`TextAssumption`,
`ChangeAssumption`, `FormatAssumption`): that they are sequences of tokens in which
not every `%datetime` is escaped, since the code then reads beyond the string
(`easylogging++.cpp:1529`), and so has no behaviour to state anything of.

**Only model-checked.** Liveness (`OutageEnds`, `FramesLeave`, `TransferEnds`,
`CallbackReturns`, `EventuallyHanded`): fairness and `ENABLED` are beyond this
prover. Every safety invariant and action property of a passing run is proved. Folds
are no obstacle to that: the library's induction theorems, which take a predicate as an operator, cannot be used
with the installed provers, but induction over the naturals can, if the predicate is
given as a set of numbers (`Induction` and `InductionTo` in `NaturalLemmas`).

## 6. Disagreements between the code and its documentation

In each, TLC finds a property violated that states what the repository says. The
first four are runs and findings of `PROJECT.json`; they concern the client itself.

| Run | The repository says | The code does |
|---|---|---|
| `empty_file` | files are sent (`README.md:5`) | `file_cb(UV_FS_OPEN)` neither reads nor closes an empty file: its entry stays, and every later change of it is refused (`sync_client.cpp:261`) |
| `changed_again` | "cancel a syncing entry … and resyncing it" (`sync_client.cpp:167`) | the event is consumed and nothing is sent (`sync_client.cpp:184`) |
| `decoder_reconnect` | reconnecting is supported (`README.md:4`) | a length decoded before the connection was lost is applied to the first bytes of the next one: `decoder_` is never reset (`uv_client.cpp:390`) |
| `decoder_broken` | `do_on_read` asks `isError()` and closes the connection (`sync_client.cpp:103`) | `decodeRemain` sets `ERROR` and at once resets it; `decode` reports a completed message (`decoder.h:148`) |

The client neither copies nor searches a buffer, gives `pullup` no negative size, and
what `main.cpp` sets does not stray: it is other users of `buffer` and of the logger
whom the other nine concern. Each has a configuration in which TLC finds its invariant
violated; `tlc -config MCBufferNegative.cfg MCBuffer` runs the first; those of the logger are for `MCLoggerConfig`.

| Configuration, invariant | The repository says | The code does |
|---|---|---|
| `MCBufferNegative.cfg`, `NegativeMeansAll` | "if size is negative, the function lineratizes the entire buffer" (`buffer.h:208`) | the size is compared with an unsigned length, a negative one is too large, and nothing happens (`buffer.cpp:655`; 658 is never reached) |
| `MCBufferCrlf.cfg`, `CrlfIsEither` | CRLF is "'\n' or "\r\n"" (`buffer.h:21`), and its length is returned (`buffer.h:229`) | `search_eol` looks for `\r\n` only, and returns a length of 1 (`buffer.cpp:902`) |
| `MCBufferCut.cfg`, `FindsInAnyChains` | `search_eol` returns the start of the line end (`buffer.h:228`) | behind a chain that is cut or not full, the position is another one, or the line end is missed (`buffer.cpp:456`, 829, 843) |
| `MCBufferCopyOut.cfg`, `CopyOutEnds` | `remove` has taken everything at the last chain: `assert(remain_to_remove == 0)` (`buffer.cpp:742`) | a copy of more bytes than there are claims to have them (`buffer.cpp:380`), and the assertion fails in `copy_out_from` |
| `MCBufferAssign.cfg`, `AssignedIsLinked` | copied links "are not right" and are to be updated (`buffer.cpp:1063`, in Chinese) | `operator=` does not: its chains are linked to those of the other buffer (`buffer.cpp:473`); it also ignores an empty source (471) |
| `MCBufferFirst.cfg`, `FirstOnesAreLinked` | the last chain but one is linked to the new one (`buffer.cpp:330`, in Chinese) | the new one is linked to itself, as `append` has already moved `last_chain_with_data_` (`buffer.cpp:332`) |
| `MCLoggerConfigOrder.cfg`, `EffectiveIsWanted` | an existing configuration is replaced (`easylogging++.h:1773`) | entries are applied in the order of first mention, so Global's value replaces a level's that was given after it (`easylogging++.cpp:317`, 350) |
| `MCLoggerConfigDefaults.cfg`, `EffectiveIsWanted` | defaults are for "the level/type a configuration does not exist for" (`easylogging++.h:1821`) | a default for Global replaces the values of all levels (`easylogging++.cpp:395`, 555) |
| `MCLoggerConfigPrecision.cfg`, `EffectiveIsWanted` | two types "will be ignored if not set for" Global (`easylogging++.h:1774`) | the value of whatever level comes last is used for all (`easylogging++.cpp:1700`) |

Two more are part of the models and contradict only a comment or an expectation:
`remove` of more than there is returns -1, where `buffer.h:215` says all data will be
copied (`ByteQueue.Remove` follows the code); and frames dropped with a connection are not
sent again, though their transfer was logged as finished when the last block was queued.

## 7. What is not modelled

- The contents of files and messages, and protobuf's encoding.
- Short reads: the code takes the whole `uv_read_buf_`, whatever arrived.
  `ReadDone` counts the full length, as the code does. A failed read leaks a
  descriptor; descriptors are not counted.
- A disk request libuv cannot even queue (memory exhausted).
- Of the buffer: `prepend` and `peek`, which are empty, and lengths of 2 GiB.
- `decode(const char*, len)` and `stop_ping_timer`, which nothing calls.
- Of easylogging++: hit counters (`LOG_EVERY_N`), verbose modules, performance
  tracking, command-line arguments, configuring many loggers from one file,
  printing of containers, dates, colours, user callbacks and its mutexes. The
  program uses none of them but dates, colours and the mutexes, and those without
  contention.

## 8. Plan

Done: `UVClient` against `FrameQueue`, then `SyncClient` on top of it, with proofs of their safety;
`Buffer` and `BufferReads` against `ByteQueue`, `BufferCopies`; `Decoder`; `FsEvents`; the logging
modules.

Proved: every safety property of the connection, the transfers, the read path, the
file events, the buffer and the logging that a run checks; `NoLostWakeup` under
`FewFiles`.

Next, in this order:

1. An abstract specification `FileTransfer` (a file goes out as consecutive blocks
   or fails), implemented by `SyncClient`, by way of `TransferInv`.
2. `SyncClient` over `FsEvents`, and `Decoder` over `Buffer` instead of over an
   interval: `pullup` and `remove` with the lengths `decode` passes.
