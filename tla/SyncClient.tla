----------------------------- MODULE SyncClient -----------------------------
(***************************************************************************)
(* Sending changed files (sync_client.h, sync_client.cpp, uv_fs.cpp and    *)
(* the file events of uv_client.cpp) on top of the connection of UVClient. *)
(*                                                                         *)
(* A file event starts a transfer: stat, open, then one block after the    *)
(* other is read from disk, wrapped in a frame and written, and at the end *)
(* the file is closed.  Each step is a request to libuv's thread pool whose*)
(* callback issues the next.  A block that meets a full write buffer parks *)
(* its file in fses_ until a write completes.                              *)
(*                                                                         *)
(* Offsets and sizes are counted in units of which Block make the 4096     *)
(* bytes the code reads at a time.  A frame stands for the length prefix   *)
(* and the SyncPackage of one block; the file's content is not modelled.   *)
(***************************************************************************)
EXTENDS UVClient, FiniteSets

CONSTANTS
  File,      \* files below the monitored directory whose name starts with sync_
  Block,     \* 4096 bytes
  Sizes,     \* sizes a file may have; 0 is also what a failed stat reports
  MaxSize,   \* bound on Sizes
  MaxGen     \* bound: transfers of one file the model starts

Offset == 0 .. MaxSize
Byte == 0 .. MaxSize - 1
Gen == 0 .. MaxGen

\* A frame names its transfer (file and gen, the number of transfers of the
\* file so far) and the first and last byte it carries.
Frame == [file : File, gen : Gen, from : Byte, to : Byte]

ASSUME BlockAssumption == Block \in Nat \ {0}
ASSUME SizesAssumption == MaxSize \in Nat /\ Sizes \subseteq Offset
ASSUME MaxGenAssumption == MaxGen \in Nat
ASSUME MsgAssumption == Msg = Frame

VARIABLES
  pending,       \* files with an entry in fs_event_map_
  active,        \* files with an entry in sync_entry_map_ and fs_files_map_
  total,         \* SyncEntryInfo::total_len
  sent,          \* SyncEntryInfo::sent
  readBuf,       \* length of FSFile::read_buf_
  valid,         \* FSFile::handle_ is an open descriptor
  req,           \* the uv_fs_t request of the file libuv is working on
  parked,        \* fses_
  wroteTooMuch,  \* is_wrote_too_much_
  gen,           \* transfers started for each file (history)
  finished,      \* transfers reported as finished (history)
  changed        \* files changed since their last transfer started (history)

entryVars == <<total, sent, readBuf, valid>>
parkVars == <<parked, wroteTooMuch>>
history == <<gen, finished, changed>>
fileVars == <<pending, active, total, sent, readBuf, valid, req, parked,
              wroteTooMuch, gen, finished, changed>>
vars == <<uvVars, fileVars>>

FileTypeOK ==
  /\ pending \subseteq File
  /\ active \subseteq File
  /\ total \in [File -> Offset]
  /\ sent \in [File -> Offset]
  /\ readBuf \in [File -> 0 .. Block]
  /\ valid \in [File -> BOOLEAN]
  /\ req \in [File -> {"none", "stat", "open", "read", "close"}]
  /\ parked \subseteq File
  /\ wroteTooMuch \in BOOLEAN
  /\ gen \in [File -> Gen]
  /\ finished \subseteq [file : File, gen : Gen, size : Offset]
  /\ changed \subseteq File

SyncTypeOK == TypeOK /\ FileTypeOK

Init ==
  /\ UVInit
  /\ pending = {}
  /\ active = {}
  /\ total = [f \in File |-> 0]
  /\ sent = [f \in File |-> 0]
  /\ readBuf = [f \in File |-> 0]
  /\ valid = [f \in File |-> FALSE]
  /\ req = [f \in File |-> "none"]
  /\ parked = {}
  /\ wroteTooMuch = FALSE
  /\ gen = [f \in File |-> 0]
  /\ finished = {}
  /\ changed = {}

-----------------------------------------------------------------------------
(***************************************************************************)
(* File events.                                                            *)
(***************************************************************************)

\* on_fs_event(): the file changed; a pending event is only postponed.
FsEvent(f) ==
  /\ LoopRuns
  /\ pending' = pending \union {f}
  /\ changed' = changed \union {f}
  /\ UNCHANGED <<uvVars, active, entryVars, req, parkVars, gen, finished>>

\* fs_event_check_cb(): `due' are the events older than fs_event_trigger_gap_.
TakeDue(due) ==
  /\ due # {}
  /\ pending' = pending \ due

\* start_send_file() of each file of `files': a fresh entry, and its stat.
StartSendFile(files) ==
  /\ active' = active \union files
  /\ total' = [f \in File |-> IF f \in files THEN 0 ELSE total[f]]
  /\ sent' = [f \in File |-> IF f \in files THEN 0 ELSE sent[f]]
  /\ req' = [f \in File |-> IF f \in files THEN "stat" ELSE req[f]]
  /\ gen' = [f \in File |-> IF f \in files THEN gen[f] + 1 ELSE gen[f]]

(***************************************************************************)
(* fs_event_check_cb() hands each due event to do_on_fs_event(), which     *)
(* starts a transfer of those files that still exist.  insert() keeps the  *)
(* entry of a file that is being sent, and start_send_file() then does     *)
(* nothing more.                                                           *)
(***************************************************************************)
FsEventCheck(due, existing) ==
  LET started == existing \ active
  IN  /\ LoopRuns
      /\ TakeDue(due)
      /\ \A f \in started : gen[f] < MaxGen
      /\ StartSendFile(started)
      /\ changed' = changed \ (started \union (due \ existing))
      /\ UNCHANGED <<uvVars, readBuf, valid, parkVars, finished>>

(***************************************************************************)
(* The steps of a transfer: FSFile and file_cb().                          *)
(***************************************************************************)

\* What is asked of the disk when `s' bytes of `t' are sent.
\* Mutant: the last block is not cut at the end of the file.
WholeBlock(t, s) == Block
ToRead(t, s) == IF s + Block > t THEN t - s ELSE Block

\* UV_FS_STAT: the size is noted and the file opened.
StatDone(f, size) ==
  /\ LoopRuns
  /\ req[f] = "stat"
  /\ total' = [total EXCEPT ![f] = size]
  /\ req' = [req EXCEPT ![f] = "open"]
  /\ UNCHANGED <<uvVars, pending, active, sent, readBuf, valid, parkVars, history>>

\* UV_FS_OPEN: the first block is requested, even from a file that could not
\* be opened, unless there is none.
OpenDone(f, ok) ==
  /\ LoopRuns
  /\ req[f] = "open"
  /\ valid' = [valid EXCEPT ![f] = ok]
  /\ req' = [req EXCEPT ![f] = IF total[f] - sent[f] # 0 THEN "read" ELSE "none"]
  /\ UNCHANGED <<uvVars, pending, active, total, sent, readBuf, parkVars, history>>

\* sync_entry_map_.erase and delete of the FSFile, with its read_buf_.
Forget(f) ==
  /\ active' = active \ {f}
  /\ total' = [total EXCEPT ![f] = 0]
  /\ sent' = [sent EXCEPT ![f] = 0]
  /\ readBuf' = [readBuf EXCEPT ![f] = 0]
  /\ valid' = [valid EXCEPT ![f] = FALSE]
  /\ req' = [req EXCEPT ![f] = "none"]

\* UV_FS_READ with an error is turned into UV_FS_CLOSE: the transfer is
\* forgotten (its descriptor stays open).
ReadFailed(f) ==
  /\ LoopRuns
  /\ req[f] = "read"
  /\ Forget(f)
  /\ UNCHANGED <<uvVars, pending, parkVars, history>>

\* UV_FS_CLOSE, whatever its result.
CloseDone(f) ==
  /\ LoopRuns
  /\ req[f] = "close"
  /\ Forget(f)
  /\ UNCHANGED <<uvVars, pending, parkVars, history>>

\* The frame of the n bytes of f in read_buf_.
BlockFrame(f, n) ==
  [file |-> f, gen |-> gen[f], from |-> sent[f], to |-> sent[f] + n - 1]

\* data.drain() once the block is written.  Mutant: it is forgotten.
BlockKept(n) == n
BlockDrained(n) == 0

\* Mutant: a last unit is taken for the end of the file.
MoreThanOne(s, t) == s + 1 < t
MoreToSend(s, t) == s < t

\* A parked file waits with no request.  Mutant: the break is missing and the
\* next block is requested all the same.
ReqNextBlock == "read"
ReqWhileParked == "none"

\* fses_.insert(fs).  Mutant: there is room for one file only.
ParkInstead(waiting, f) == {f}
Park(waiting, f) == waiting \union {f}

(***************************************************************************)
(* file_cb(UV_FS_READ) after send_deposite_file_message() returned ret for *)
(* the n bytes in read_buf_, when fses_ is `waiting' and is_wrote_too_much_*)
(* is `full'.  An error closes the file, a full buffer parks it, and       *)
(* otherwise the next block is read or, after the last one, the file is    *)
(* reported as finished and closed.                                        *)
(***************************************************************************)
BlockRefused(f, n, waiting, full) ==
  /\ req' = [req EXCEPT ![f] = "close"]
  /\ readBuf' = [readBuf EXCEPT ![f] = n]
  /\ parked' = waiting
  /\ wroteTooMuch' = full
  /\ UNCHANGED <<sent, finished>>

BlockParked(f, n, waiting) ==
  /\ req' = [req EXCEPT ![f] = ReqWhileParked]
  /\ readBuf' = [readBuf EXCEPT ![f] = n]
  /\ parked' = Park(waiting, f)
  /\ wroteTooMuch' = TRUE
  /\ UNCHANGED <<sent, finished>>

BlockQueued(f, n, waiting, full) ==
  /\ sent' = [sent EXCEPT ![f] = @ + n]
  /\ readBuf' = [readBuf EXCEPT ![f] = BlockDrained(n)]
  /\ parked' = waiting
  /\ wroteTooMuch' = full
  /\ IF MoreToSend(sent[f] + n, total[f])
       THEN /\ req' = [req EXCEPT ![f] = "read"]
            /\ UNCHANGED finished
       ELSE /\ req' = [req EXCEPT ![f] = "close"]
            /\ finished' = finished \union
                 {[file |-> f, gen |-> gen[f], size |-> total[f]]}

\* Mutants: a full buffer is taken for success; a refused block is tried again.
WrittenUnlessError(f, n, ret, waiting, full) ==
  \/ ret = -1 /\ BlockRefused(f, n, waiting, full)
  \/ ret # -1 /\ BlockQueued(f, n, waiting, full)

RefusedIsParked(f, n, ret, waiting, full) ==
  \/ ret # 1 /\ BlockParked(f, n, waiting)
  \/ ret = 1 /\ BlockQueued(f, n, waiting, full)

BlockWritten(f, n, ret, waiting, full) ==
  \/ ret = -1 /\ BlockRefused(f, n, waiting, full)
  \/ ret = 0 /\ BlockParked(f, n, waiting)
  \/ ret = 1 /\ BlockQueued(f, n, waiting, full)

\* UV_FS_READ.  Whatever the disk returned, as many bytes as were asked for
\* are appended to read_buf_; the whole of it, one block, is written.
ReadDone(f) ==
  /\ req[f] = "read"
  /\ valid[f]
  /\ LET n == readBuf[f] + ToRead(total[f], sent[f])
     IN  \E ret \in {-1, 0, 1} :
           /\ Write(BlockFrame(f, n), ret)
           /\ BlockWritten(f, n, ret, parked, wroteTooMuch)
  /\ UNCHANGED <<pending, active, total, valid, gen, changed>>

-----------------------------------------------------------------------------
(***************************************************************************)
(* The connection, and what the client does about it.                      *)
(***************************************************************************)

\* is_wrote_too_much_ when the last parked file but `waiting' was taken out.
\* Mutants: it is never, or always, cleared.
StillFull(waiting) == wroteTooMuch
FullNoMore(waiting) == FALSE
FullAfter(waiting) == IF waiting = {} THEN FALSE ELSE wroteTooMuch

\* do_after_write(): a parked file may go on when the buffer has room again.
MayResume ==
  wroteTooMuch /\ ~TooMuch(DrainFirst(writeBuf)) /\ parked # {}

AfterWriteIdle ==
  /\ AfterWrite
  /\ ~MayResume
  /\ UNCHANGED <<pending, active, entryVars, req, parkVars, gen, finished, changed>>

\* file_cb(fs, UV_FS_READ) for one parked file, in the order of addresses.
AfterWriteResume(f) ==
  /\ WriteCompletes
  /\ MayResume
  /\ f \in parked
  /\ LET waiting == parked \ {f}
     IN  \E ret \in {-1, 0, 1} :
           /\ AfterWriteThenWrite(BlockFrame(f, readBuf[f]), ret)
           /\ BlockWritten(f, readBuf[f], ret, waiting, FullAfter(waiting))
  /\ UNCHANGED <<pending, active, total, valid, gen, changed>>

SyncClose ==
  /\ OnClose
  /\ UNCHANGED <<pending, active, entryVars, req, parkVars, gen, finished, changed>>

\* do_on_connect() only starts the ping timer, and ping() sends nothing.
Connects ==
  /\ \/ \E ok \in BOOLEAN : Start(ok) \/ OnReconnectTimeout(ok)
     \/ OnConnect
     \/ OnConnectFailed
  /\ UNCHANGED fileVars

Disconnects == OnReadFailed /\ UNCHANGED fileVars

SyncReturns == LoopReturns /\ UNCHANGED fileVars

Disk(f) ==
  \/ \E size \in Sizes : StatDone(f, size)
  \/ \E ok \in BOOLEAN : OpenDone(f, ok)
  \/ ReadDone(f)
  \/ ReadFailed(f)
  \/ CloseDone(f)

Next ==
  \/ Connects
  \/ Disconnects
  \/ SyncClose
  \/ SyncReturns
  \/ AfterWriteIdle
  \/ \E f \in File : AfterWriteResume(f) \/ Disk(f) \/ FsEvent(f)
  \/ \E due \in SUBSET pending : \E existing \in SUBSET due : FsEventCheck(due, existing)

Spec == Init /\ [][Next]_vars

(***************************************************************************)
(* Fairness: as in UVClient for the connection; libuv answers every disk   *)
(* request; the check handle runs in every iteration of the loop.          *)
(***************************************************************************)
Fairness ==
  /\ WF_vars(Connects)
  /\ WF_vars(SyncClose)
  /\ WF_vars(SyncReturns)
  /\ WF_vars(\/ AfterWriteIdle
             \/ \E f \in File : AfterWriteResume(f)
             \/ inflight # <<>> /\ Disconnects)
  /\ \A f \in File : WF_vars(Disk(f))
  /\ \A f \in File : WF_vars(\E existing \in SUBSET {f} : FsEventCheck({f}, existing))

FairSpec == Spec /\ Fairness

-----------------------------------------------------------------------------
(***************************************************************************)
(* Safety.                                                                 *)
(***************************************************************************)

\* A parked file is suspended between two disk requests with exactly one
\* unsent block: no callback can free or advance it behind fses_'s back.
ParkedIsSuspended ==
  \A f \in parked : f \in active /\ req[f] = "none" /\ readBuf[f] > 0

\* is_wrote_too_much_ and fses_ agree: do_after_write(), which looks at the
\* flag first, overlooks no parked file.
FlagMatchesParked == wroteTooMuch <=> parked # {}

\* While the connection lives, a parked file has a write under way whose
\* completion will look at fses_ again.
NoLostWakeup ==
  parked # {} /\ tcp \in {"connecting", "open"} => inflight # <<>>

\* A transfer without a disk request is parked, or is that of an empty file.
OnlyEmptyFilesStall ==
  \A f \in active : req[f] = "none" => f \in parked \/ total[f] = 0

\* Everything handed to the connection so far, on the wire or left behind.
Written == stream \o cur

SameTransfer(a, b) == a.file = b.file /\ a.gen = b.gen

\* The blocks of one transfer follow one another from byte 0, none repeated,
\* none skipped, through parking, reconnects and interleaving with the
\* blocks of other files.
BlocksInOrder ==
  \A i \in 1 .. Len(Written) :
    /\ Written[i].from <= Written[i].to
    /\ \A j \in 1 .. i - 1 :
         SameTransfer(Written[j], Written[i]) => Written[j].to < Written[i].from
    /\ Written[i].from # 0 =>
         \E j \in 1 .. i - 1 : SameTransfer(Written[j], Written[i])
                                /\ Written[j].to + 1 = Written[i].from

\* A file reported as finished was flushed to its last byte, and with
\* BlocksInOrder from its first.
FinishedIsWhole ==
  \A x \in finished :
    \E i \in 1 .. Len(stream) : SameTransfer(stream[i], x) /\ stream[i].to + 1 = x.size

(***************************************************************************)
(* Liveness.                                                               *)
(***************************************************************************)

\* A transfer ends: its file is closed, so that the next change of the file
\* can be sent.
TransferEnds ==
  \A f \in File : f \in active ~> (f \notin active \/ loop = "returned")

(***************************************************************************)
(* What the repository says of the program and the code does not do.       *)
(***************************************************************************)

\* do_on_fs_event() logs that the entry of a file being sent is cancelled and
\* sent again: a changed file is always about to be sent or being sent.
ChangedIsSent == changed \subseteq pending \union active

=============================================================================
