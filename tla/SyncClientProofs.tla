-------------------------- MODULE SyncClientProofs --------------------------
(***************************************************************************)
(* SyncClient is a UVClient, so that every theorem of UVClientProofs holds *)
(* of it; its transfers are never lost between parking and resuming; and   *)
(* the blocks of a transfer are written in order and completely.           *)
(*                                                                         *)
(* The first two rest on FileInv, which says what each state of a transfer *)
(* implies for its counters: the block read or to be read lies within the  *)
(* file, which makes every frame one of Msg, and an idle transfer is a     *)
(* parked or an empty one.  WakeInv and TransferInv are explained where    *)
(* they are defined.                                                       *)
(***************************************************************************)
EXTENDS SyncClient, UVClientProofs, FiniteSetTheorems

Consistent(f) ==
  /\ f \notin active => req[f] = "none"
  /\ f \in parked => /\ f \in active /\ req[f] = "none"
                     /\ readBuf[f] > 0 /\ sent[f] + readBuf[f] <= total[f]
  /\ f \notin active \/ req[f] \in {"stat", "open", "read"} => readBuf[f] = 0
  /\ req[f] \in {"stat", "open"} => sent[f] = 0
  /\ req[f] = "read" => sent[f] < total[f]
  /\ f \in active /\ req[f] = "none" => f \in parked \/ total[f] = 0

FileInv == (\A f \in File : Consistent(f)) /\ FlagMatchesParked

SyncInv == IInv /\ FileTypeOK /\ FileInv

-----------------------------------------------------------------------------

LEMMA SyncInitInv == Init => SyncInv
<1> SUFFICES ASSUME Init PROVE SyncInv
  OBVIOUS
<1>1. IInv
  BY InitInv DEF Init
<1>2. 0 \in Offset /\ 0 \in Gen /\ 0 \in 0 .. Block
  BY SizesAssumption, MaxGenAssumption, BlockAssumption DEF Offset, Gen
<1>3. FileTypeOK
  BY <1>2 DEF Init, FileTypeOK
<1>4. FileInv
  BY DEF Init, FileInv, Consistent, FlagMatchesParked
<1> QED
  BY <1>1, <1>3, <1>4 DEF SyncInv

\* What is asked of the disk is never empty and never reaches beyond the file.
LEMMA ToReadInFile ==
  ASSUME NEW t \in Offset, NEW s \in Offset, s < t
  PROVE  ToRead(t, s) \in 1 .. Block /\ s + ToRead(t, s) <= t
BY BlockAssumption, SizesAssumption DEF ToRead, Offset

LEMMA BlockFrameInMsg ==
  ASSUME FileTypeOK, NEW f \in File, NEW n \in 1 .. Block, sent[f] + n <= total[f]
  PROVE  BlockFrame(f, n) \in Msg
<1>1. sent[f] \in Byte /\ sent[f] + n - 1 \in Byte /\ gen[f] \in Gen
  BY BlockAssumption, SizesAssumption DEF FileTypeOK, Offset, Byte
<1> QED
  BY <1>1, MsgAssumption DEF BlockFrame, Frame

\* The outcome of writing one block of a file that is not parked (any more).
LEMMA BlockStep ==
  ASSUME FileTypeOK, \A g \in File : Consistent(g),
         NEW f \in File, f \in active, NEW n \in 1 .. Block, sent[f] + n <= total[f],
         NEW ret, NEW waiting, waiting = parked \ {f},
         NEW full \in BOOLEAN, full <=> waiting # {},
         BlockWritten(f, n, ret, waiting, full),
         UNCHANGED <<pending, active, total, valid, gen, changed>>
  PROVE  FileTypeOK' /\ FileInv'
<1>1. \A g \in File : readBuf[g] \in 0 .. Block /\ sent[g] \in Offset /\ total[g] \in Offset
  BY DEF FileTypeOK
<1>2. n \in 0 .. Block /\ 0 \in 0 .. Block /\ sent[f] + n \in Offset /\ n > 0
  BY <1>1, BlockAssumption, SizesAssumption DEF Offset
<1>3. waiting \subseteq File /\ f \notin waiting
  BY DEF FileTypeOK
<1>4. CASE BlockRefused(f, n, waiting, full)
  <2>1. FileTypeOK'
    BY <1>2, <1>3, <1>4 DEF BlockRefused, FileTypeOK
  <2>2. ASSUME NEW g \in File PROVE Consistent(g)'
    BY <1>3, <1>4, <2>2 DEF BlockRefused, FileTypeOK, Consistent
  <2>3. FlagMatchesParked'
    BY <1>4 DEF BlockRefused, FlagMatchesParked
  <2> QED
    BY <2>1, <2>2, <2>3 DEF FileInv
<1>5. CASE BlockParked(f, n, waiting)
  <2>1. FileTypeOK'
    BY <1>2, <1>3, <1>5 DEF BlockParked, Park, ReqWhileParked, FileTypeOK
  <2>2. ASSUME NEW g \in File PROVE Consistent(g)'
    BY <1>2, <1>3, <1>5, <2>2 DEF BlockParked, Park, ReqWhileParked, FileTypeOK, Consistent
  <2>3. FlagMatchesParked'
    BY <1>5 DEF BlockParked, Park, FlagMatchesParked
  <2> QED
    BY <2>1, <2>2, <2>3 DEF FileInv
<1>6. CASE BlockQueued(f, n, waiting, full)
  <2>1. sent' = [sent EXCEPT ![f] = sent[f] + n] /\ readBuf' = [readBuf EXCEPT ![f] = 0]
    BY <1>6 DEF BlockQueued, BlockDrained
  <2>2. FileTypeOK'
    <3>1. [file |-> f, gen |-> gen[f], size |-> total[f]] \in [file : File, gen : Gen, size : Offset]
      BY DEF FileTypeOK
    <3>2. finished' \subseteq [file : File, gen : Gen, size : Offset]
      BY <1>6, <3>1 DEF BlockQueued, FileTypeOK
    <3>3. req' \in [File -> {"none", "stat", "open", "read", "close"}]
      BY <1>6 DEF BlockQueued, FileTypeOK
    <3>4. parked' = waiting /\ wroteTooMuch' = full
      BY <1>6 DEF BlockQueued
    <3>5. sent' \in [File -> Offset] /\ readBuf' \in [File -> 0 .. Block]
      BY <1>2, <2>1 DEF FileTypeOK
    <3> QED
      BY <1>3, <3>2, <3>3, <3>4, <3>5 DEF FileTypeOK
  <2>3. ASSUME NEW g \in File PROVE Consistent(g)'
    <3>1. CASE g = f
      <4>1. /\ req'[f] \in {"read", "close"} /\ readBuf'[f] = 0
            /\ req'[f] = "read" => sent'[f] < total[f]
        BY <1>6, <2>1 DEF BlockQueued, MoreToSend, FileTypeOK
      <4>2. f \notin parked'
        BY <1>3, <1>6 DEF BlockQueued
      <4> QED
        BY <3>1, <4>1, <4>2 DEF Consistent
    <3>2. CASE g # f
      <4>1. /\ req'[g] = req[g] /\ readBuf'[g] = readBuf[g] /\ sent'[g] = sent[g]
            /\ g \in parked' <=> g \in parked
        BY <1>6, <2>1, <3>2 DEF BlockQueued, FileTypeOK
      <4> QED
        BY <4>1 DEF Consistent
    <3> QED
      BY <3>1, <3>2
  <2>4. FlagMatchesParked'
    BY <1>6 DEF BlockQueued, FlagMatchesParked
  <2> QED
    BY <2>2, <2>3, <2>4 DEF FileInv
<1> QED
  BY <1>4, <1>5, <1>6 DEF BlockWritten

\* An action of the connection.
LEMMA FilesUntouched ==
  ASSUME FileTypeOK, FileInv,
         UNCHANGED <<pending, active, total, sent, readBuf, valid, req, parked,
                     wroteTooMuch, gen, finished, changed>>
  PROVE  FileTypeOK' /\ FileInv'
BY DEF FileTypeOK, FileInv, Consistent, FlagMatchesParked

\* Each step of SyncClient preserves the invariant and is a step of UVClient.
LEMMA FileStep ==
  ASSUME SyncInv, NEW f \in File, Disk(f)
  PROVE  [UVNext]_uvVars /\ FileTypeOK' /\ FileInv'
<1> USE DEF SyncInv
<1>0. /\ FileTypeOK /\ FlagMatchesParked
      /\ \A g \in File : Consistent(g)
  BY DEF FileInv
<1>1. ASSUME NEW size \in Sizes, StatDone(f, size)
      PROVE  UNCHANGED uvVars /\ FileTypeOK' /\ FileInv'
  <2>1. FileTypeOK'
    BY <1>0, <1>1, SizesAssumption
       DEF StatDone, FileTypeOK, parkVars, history
  <2>2. ASSUME NEW g \in File PROVE Consistent(g)'
    BY <1>0, <1>1, <2>2 DEF StatDone, FileTypeOK, parkVars, Consistent
  <2>3. FlagMatchesParked'
    BY <1>0, <1>1 DEF StatDone, parkVars, FlagMatchesParked
  <2> QED
    BY <1>1, <2>1, <2>2, <2>3 DEF StatDone, FileInv
<1>2. ASSUME NEW ok \in BOOLEAN, OpenDone(f, ok)
      PROVE  UNCHANGED uvVars /\ FileTypeOK' /\ FileInv'
  <2>1. FileTypeOK'
    BY <1>0, <1>2 DEF OpenDone, FileTypeOK, parkVars, history
  <2>2. total[f] \in Nat /\ sent[f] = 0
    BY <1>0, <1>2, SizesAssumption DEF OpenDone, FileTypeOK, Consistent, Offset
  <2>3. ASSUME NEW g \in File PROVE Consistent(g)'
    BY <1>0, <1>2, <2>2, <2>3 DEF OpenDone, FileTypeOK, parkVars, Consistent
  <2>4. FlagMatchesParked'
    BY <1>0, <1>2 DEF OpenDone, parkVars, FlagMatchesParked
  <2> QED
    BY <1>2, <2>1, <2>3, <2>4 DEF OpenDone, FileInv
<1>3. CASE ReadFailed(f) \/ CloseDone(f)
  <2>1. /\ req[f] # "none" /\ Forget(f)
        /\ UNCHANGED <<uvVars, pending, parkVars, history>>
    BY <1>3 DEF ReadFailed, CloseDone
  <2>2. 0 \in Offset /\ 0 \in 0 .. Block
    BY SizesAssumption, BlockAssumption DEF Offset
  <2>3. FileTypeOK'
    BY <1>0, <2>1, <2>2 DEF Forget, FileTypeOK, parkVars, history
  <2>4. ASSUME NEW g \in File PROVE Consistent(g)'
    BY <1>0, <2>1, <2>4 DEF Forget, FileTypeOK, parkVars, Consistent
  <2>5. FlagMatchesParked'
    BY <1>0, <2>1 DEF parkVars, FlagMatchesParked
  <2> QED
    BY <2>1, <2>3, <2>4, <2>5 DEF FileInv
<1>4. CASE ReadDone(f)
  <2> DEFINE n == readBuf[f] + ToRead(total[f], sent[f])
  <2>1. /\ f \in active /\ f \notin parked /\ readBuf[f] = 0 /\ sent[f] < total[f]
        /\ total[f] \in Offset /\ sent[f] \in Offset
    BY <1>0, <1>4 DEF ReadDone, Consistent, FileTypeOK
  <2>2. n \in 1 .. Block /\ sent[f] + n <= total[f]
    BY <2>1, ToReadInFile, BlockAssumption
  <2> HIDE DEF n
  <2>3. PICK ret \in {-1, 0, 1} :
          /\ Write(BlockFrame(f, n), ret)
          /\ BlockWritten(f, n, ret, parked, wroteTooMuch)
          /\ UNCHANGED <<pending, active, total, valid, gen, changed>>
    BY <1>4 DEF ReadDone, n
  <2>4. UVNext
    BY <1>0, <2>2, <2>3, BlockFrameInMsg DEF UVNext
  <2>5. parked = parked \ {f} /\ wroteTooMuch \in BOOLEAN /\ (wroteTooMuch <=> parked # {})
    BY <1>0, <2>1 DEF FileTypeOK, FlagMatchesParked
  <2>7. FileTypeOK' /\ FileInv'
    BY <1>0, <2>1, <2>2, <2>3, <2>5, BlockStep
  <2> QED
    BY <2>4, <2>7
<1> QED
  BY <1>1, <1>2, <1>3, <1>4 DEF Disk

LEMMA SyncStep ==
  ASSUME SyncInv, [Next]_vars
  PROVE  [UVNext]_uvVars /\ FileTypeOK' /\ FileInv'
<1>0. FileTypeOK /\ FileInv /\ TypeOK /\ ChainsTile
  BY DEF SyncInv, IInv, QueueInv, ChainsTile
<1>1. CASE Connects \/ Disconnects \/ SyncReturns
  <2>1. UVNext /\ UNCHANGED fileVars
    BY <1>1 DEF Connects, Disconnects, SyncReturns, UVNext
  <2>2. FileTypeOK' /\ FileInv'
    BY <1>0, <2>1, FilesUntouched DEF fileVars, FileTypeOK
  <2> QED
    BY <2>1, <2>2
<1>2. CASE SyncClose
  <2>1. UVNext
    BY <1>2 DEF SyncClose, UVNext
  <2>3. FileTypeOK' /\ FileInv'
    BY <1>0, <1>2, FilesUntouched DEF SyncClose, entryVars, parkVars
  <2> QED
    BY <2>1, <2>3
<1>3. CASE AfterWriteIdle
  <2>1. UVNext /\ inflight # <<>>
    BY <1>3 DEF AfterWriteIdle, UVNext, AfterWrite, WriteCompletes
  <2>3. FileTypeOK' /\ FileInv'
    BY <1>0, <1>3, FilesUntouched DEF AfterWriteIdle, entryVars, parkVars
  <2> QED
    BY <2>1, <2>3
<1>4. ASSUME NEW f \in File, AfterWriteResume(f)
      PROVE  UVNext /\ FileTypeOK' /\ FileInv'
  <2> DEFINE waiting == parked \ {f}
             full == FullAfter(waiting)
  <2>1. PICK ret \in {-1, 0, 1} :
          /\ AfterWriteThenWrite(BlockFrame(f, readBuf[f]), ret)
          /\ BlockWritten(f, readBuf[f], ret, waiting, full)
    BY <1>4 DEF AfterWriteResume
  <2>2. /\ f \in active /\ readBuf[f] \in 1 .. Block
        /\ sent[f] + readBuf[f] <= total[f]
    BY <1>0, <1>4, BlockAssumption DEF AfterWriteResume, FileInv, Consistent, FileTypeOK
  <2>3. UVNext
    BY <1>0, <2>1, <2>2, BlockFrameInMsg DEF UVNext
  <2>4. full \in BOOLEAN /\ (full <=> waiting # {})
    BY <1>0, <1>4 DEF AfterWriteResume, MayResume, FullAfter, FileTypeOK
  <2>6. UNCHANGED <<pending, active, total, valid, gen, changed>>
    BY <1>4 DEF AfterWriteResume
  <2> HIDE DEF full, waiting
  <2>7. waiting = parked \ {f}
    BY DEF waiting
  <2>8. \A g \in File : Consistent(g)
    BY <1>0 DEF FileInv
  <2>9. FileTypeOK' /\ FileInv'
    BY <1>0, <2>1, <2>2, <2>4, <2>6, <2>7, <2>8, BlockStep
  <2> QED
    BY <2>3, <2>9
<1>5. ASSUME NEW f \in File, FsEvent(f)
      PROVE  UNCHANGED uvVars /\ FileTypeOK' /\ FileInv'
  BY <1>0, <1>5 DEF FsEvent, entryVars, parkVars, FileTypeOK, FileInv, Consistent,
                    FlagMatchesParked
<1>6. ASSUME NEW due \in SUBSET pending, NEW existing \in SUBSET due,
             FsEventCheck(due, existing)
      PROVE  UNCHANGED uvVars /\ FileTypeOK' /\ FileInv'
  <2> DEFINE started == existing \ active
  <2>1. 0 \in Offset /\ \A g \in started : gen[g] + 1 \in Gen
    BY <1>0, <1>6, SizesAssumption, MaxGenAssumption
       DEF FsEventCheck, TakeDue, StartSendFile, FileTypeOK, Offset, Gen
  <2>2. FileTypeOK'
    BY <1>0, <1>6, <2>1 DEF FsEventCheck, TakeDue, StartSendFile, FileTypeOK, parkVars
  <2>3. ASSUME NEW g \in File PROVE Consistent(g)'
    <3>1. Consistent(g)
      BY <1>0 DEF FileInv
    <3>2. CASE g \in started
      BY <1>6, <3>1, <3>2 DEF FsEventCheck, TakeDue, StartSendFile, parkVars, Consistent
    <3>3. CASE g \notin started
      BY <1>6, <3>1, <3>3 DEF FsEventCheck, TakeDue, StartSendFile, parkVars, Consistent
    <3> QED
      BY <3>2, <3>3
  <2>4. FlagMatchesParked'
    BY <1>0, <1>6 DEF FsEventCheck, TakeDue, StartSendFile, parkVars, FileInv, FlagMatchesParked
  <2> QED
    BY <1>6, <2>2, <2>3, <2>4 DEF FsEventCheck, TakeDue, StartSendFile, FileInv
<1>7. CASE UNCHANGED vars
  <2>1. UNCHANGED uvVars /\ UNCHANGED fileVars
    BY <1>7 DEF vars
  <2>2. FileTypeOK' /\ FileInv'
    BY <1>0, <2>1, FilesUntouched DEF fileVars, FileTypeOK
  <2> QED
    BY <2>1, <2>2
<1> QED
  BY <1>1, <1>2, <1>3, <1>4, <1>5, <1>6, <1>7, FileStep DEF Next

LEMMA SyncNextInv == SyncInv /\ [Next]_vars => SyncInv'
<1> SUFFICES ASSUME SyncInv, [Next]_vars PROVE SyncInv'
  OBVIOUS
<1>1. [UVNext]_uvVars /\ FileTypeOK' /\ FileInv'
  BY SyncStep
<1>2. IInv'
  BY <1>1, NextInv DEF SyncInv
<1> QED
  BY <1>1, <1>2 DEF SyncInv

THEOREM SyncInvariance == Spec => []SyncInv
BY SyncInitInv, SyncNextInv, PTL DEF Spec

-----------------------------------------------------------------------------

\* SyncClient implements UVClient: its transfers are one of the subclasses
\* UVClient allows for, and all that is proved of UVClient holds of it.
THEOREM IsUVClient == Spec => UVSpec
<1>1. Init => UVInit
  BY DEF Init
<1>2. SyncInv /\ [Next]_vars => [UVNext]_uvVars
  BY SyncStep
<1> QED
  BY <1>1, <1>2, SyncInvariance, PTL DEF Spec, UVSpec

\* So the frames of the client, blocks of several files that park, resume and
\* meet lost connections, leave as one queue, each write whole and in order.
THEOREM ClientIsFrameQueue == Spec => IsFrameQueue
BY IsUVClient, FramesAreQueued, PTL

\* Offsets stay within the file and read_buf_ within one block, which is what
\* the assertion at the end of send_deposite_file_message() needs.
THEOREM SyncTypeCorrect == Spec => []SyncTypeOK
<1>1. SyncInv => SyncTypeOK
  BY DEF SyncInv, IInv, SyncTypeOK
<1> QED
  BY <1>1, SyncInvariance, PTL

\* fses_ holds only files that wait, with a block to send.
THEOREM ParkedFilesWait == Spec => []ParkedIsSuspended
<1>1. SyncInv => ParkedIsSuspended
  BY DEF SyncInv, FileTypeOK, FileInv, Consistent, ParkedIsSuspended
<1> QED
  BY <1>1, SyncInvariance, PTL

\* is_wrote_too_much_ is set exactly while fses_ is not empty.
THEOREM FlagIsExact == Spec => []FlagMatchesParked
<1>1. SyncInv => FlagMatchesParked
  BY DEF SyncInv, FileInv
<1> QED
  BY <1>1, SyncInvariance, PTL

\* Every transfer of a file that is not empty is being worked on or parked.
THEOREM NoTransferStalls == Spec => []OnlyEmptyFilesStall
<1>1. SyncInv => OnlyEmptyFilesStall
  BY DEF SyncInv, FileTypeOK, FileInv, Consistent, OnlyEmptyFilesStall
<1> QED
  BY <1>1, SyncInvariance, PTL

-----------------------------------------------------------------------------
(***************************************************************************)
(* Waking a parked file is up to the completion of a write, one file for   *)
(* each, so there must be a request for every parked file.  A full buffer  *)
(* provides them: a chain is at least a frame, all but one of them have a  *)
(* request, and more than WriteLimit frames are queued.  That is enough as *)
(* long as the files being sent, and the frames of earlier connections     *)
(* that share a chain, are together no more than WriteLimit (10 MiB, some  *)
(* 2560 blocks).  Nothing in the code enforces it.                         *)
(***************************************************************************)

\* The files that may still have a block to send.
Sending == {f \in active : req[f] # "close"}

FewFiles ==
  Cardinality(Sending) + (TotalLen(writeBuf) - Len(writeBuf)) <= WriteLimit

FilesFinite == IsFiniteSet(pending) /\ IsFiniteSet(active)

WakeInv ==
  /\ FilesFinite
  /\ TooMuch(writeBuf) \/ Cardinality(parked) <= Len(inflight)

LEMMA FinitelyMany == FilesFinite /\ [Next]_vars => FilesFinite'
<1> SUFFICES ASSUME FilesFinite, [Next]_vars PROVE FilesFinite'
  OBVIOUS
<1> USE DEF FilesFinite
<1>1. CASE UNCHANGED <<pending, active>>
  BY <1>1
<1>2. CASE Connects \/ Disconnects \/ SyncReturns \/ UNCHANGED vars
  BY <1>1, <1>2 DEF Connects, Disconnects, SyncReturns, fileVars, vars
<1>3. CASE SyncClose \/ AfterWriteIdle
  BY <1>1, <1>3 DEF SyncClose, AfterWriteIdle
<1>4. ASSUME NEW f \in File, AfterWriteResume(f) PROVE FilesFinite'
  BY <1>1, <1>4 DEF AfterWriteResume
<1>5. ASSUME NEW f \in File, Disk(f) PROVE FilesFinite'
  <2>1. pending' = pending /\ (active' = active \/ active' = active \ {f})
    BY <1>5 DEF Disk, StatDone, OpenDone, ReadDone, ReadFailed, CloseDone, Forget
  <2> QED
    BY <2>1, FS_RemoveElement
<1>6. ASSUME NEW f \in File, FsEvent(f) PROVE FilesFinite'
  BY <1>6, FS_AddElement DEF FsEvent
<1>7. ASSUME NEW due \in SUBSET pending, NEW existing \in SUBSET due,
             FsEventCheck(due, existing)
      PROVE  FilesFinite'
  <2>1. pending' = pending \ due /\ active' = active \union (existing \ active)
    BY <1>7 DEF FsEventCheck, TakeDue, StartSendFile
  <2>2. IsFiniteSet(pending \ due) /\ IsFiniteSet(existing \ active)
    BY FS_Subset
  <2> QED
    BY <2>1, <2>2, FS_Union
<1> QED
  BY <1>2, <1>3, <1>4, <1>5, <1>6, <1>7 DEF Next

LEMMA ParkedAreFew ==
  ASSUME SyncInv, FilesFinite
  PROVE  /\ IsFiniteSet(parked)
         /\ Cardinality(parked) \in Nat
         /\ Cardinality(Sending) \in Nat
         /\ Cardinality(parked) <= Cardinality(Sending)
<1>1. parked \in SUBSET Sending
  BY DEF SyncInv, FileTypeOK, FileInv, Consistent, Sending
<1>2. IsFiniteSet(Sending)
  BY FS_Subset DEF FilesFinite, Sending
<1> QED
  BY <1>1, <1>2, FS_Subset, FS_CardinalityType

LEMMA RequestsSuffice ==
  ASSUME SyncInv, FewFiles, WakeInv
  PROVE  Cardinality(parked) <= Len(inflight)
<1> SUFFICES ASSUME TooMuch(writeBuf)
             PROVE  Cardinality(parked) <= Len(inflight)
  BY DEF WakeInv
<1>1. /\ writeBuf \in Seq(Chain) /\ inflight \in Seq(Chain)
      /\ Len(writeBuf) <= Len(inflight) + 1
  BY DEF SyncInv, IInv, QueueInv
<1>2. Cardinality(Sending) \in Nat
  BY ParkedAreFew DEF WakeInv
<1>3. TotalLen(writeBuf) \in Int
  <2>1. \A c \in Chain : c.lo \in Nat /\ c.hi \in Nat
    BY DEF Chain
  <2>2. writeBuf # <<>> => writeBuf[1] \in Chain /\ writeBuf[Len(writeBuf)] \in Chain
    BY <1>1
  <2> QED
    BY <2>1, <2>2 DEF TotalLen
<1>4. Cardinality(Sending) < Len(writeBuf)
  <2>1. TotalLen(writeBuf) > WriteLimit
    BY DEF TooMuch
  <2>2. Cardinality(Sending) + (TotalLen(writeBuf) - Len(writeBuf)) <= WriteLimit
    BY DEF FewFiles
  <2>3. Len(writeBuf) \in Nat
    BY <1>1
  <2> QED
    BY <1>2, <1>3, <2>1, <2>2, <2>3, WriteLimitAssumption
<1>5. Cardinality(parked) <= Cardinality(Sending) /\ Cardinality(parked) \in Nat
  BY ParkedAreFew DEF WakeInv
<1>6. Len(inflight) \in Nat /\ Len(writeBuf) \in Nat
  BY <1>1
<1> QED
  BY <1>1, <1>2, <1>4, <1>5, <1>6

\* A write that finds room adds a request or, if it is refused, none.
LEMMA WriteRequests ==
  ASSUME NEW chains, NEW reqs \in Seq(Chain), NEW m, NEW ret,
         WriteFrame(chains, reqs, m, ret), stream \in Seq(Msg), cur \in Seq(Msg), m \in Msg
  PROVE  /\ Len(inflight') >= Len(reqs)
         /\ ret = 1 => Len(inflight') = Len(reqs) + 1
         /\ ret = 0 => TooMuch(chains) /\ writeBuf' = chains
<1> DEFINE frames == Append(cur, m)
           chain == [lo |-> Len(stream), hi |-> Len(stream) + Len(frames)]
<1>1. Len(Append(reqs, chain)) = Len(reqs) + 1 /\ Len(reqs) \in Nat
  OBVIOUS
<1>2. CASE inflight' = reqs /\ ret # 1 /\ (ret = 0 => TooMuch(chains) /\ writeBuf' = chains)
  BY <1>1, <1>2
<1>3. CASE inflight' = Append(reqs, chain) /\ ret = 1
  BY <1>1, <1>3
<1> QED
  BY <1>2, <1>3 DEF WriteFrame, DoWrite

LEMMA WakeStep == SyncInv /\ FewFiles /\ WakeInv /\ [Next]_vars => WakeInv'
<1> SUFFICES ASSUME SyncInv, FewFiles, WakeInv, [Next]_vars PROVE WakeInv'
  OBVIOUS
<1>0. /\ IsFiniteSet(parked) /\ Cardinality(parked) \in Nat
      /\ Cardinality(parked) <= Len(inflight)
      /\ inflight \in Seq(Chain) /\ stream \in Seq(Msg) /\ cur \in Seq(Msg)
      /\ FileTypeOK /\ FlagMatchesParked /\ \A f \in File : Consistent(f)
  BY ParkedAreFew, RequestsSuffice DEF SyncInv, IInv, TypeOK, FileInv, WakeInv
<1>f. FilesFinite'
  BY FinitelyMany DEF WakeInv
<1>1. CASE UNCHANGED <<parked, inflight>>
  BY <1>f, <1>0, <1>1 DEF WakeInv
<1>2. CASE AfterWriteIdle
  <2>1. writeBuf' = DrainFirst(writeBuf) /\ parked' = parked /\ Len(inflight') \in Nat
    BY <1>0, <1>2 DEF AfterWriteIdle, AfterWrite, WriteCompletes, parkVars
  <2>2. TooMuch(writeBuf') \/ parked' = {}
    BY <1>0, <1>2, <2>1 DEF AfterWriteIdle, MayResume, FlagMatchesParked
  <2>3. CASE TooMuch(writeBuf')
    BY <1>f, <2>3 DEF WakeInv, TooMuch, TotalLen
  <2>4. CASE parked' = {}
    BY <1>f, <2>1, <2>4, FS_EmptySet DEF WakeInv
  <2> QED
    BY <2>2, <2>3, <2>4
<1>3. ASSUME NEW f \in File, AfterWriteResume(f) PROVE WakeInv'
  <2>1. PICK ret \in {-1, 0, 1} :
          /\ WriteFrame(Tail(writeBuf), Tail(inflight), BlockFrame(f, readBuf[f]), ret)
          /\ BlockWritten(f, readBuf[f], ret, parked \ {f}, FullAfter(parked \ {f}))
    BY <1>3 DEF AfterWriteResume, AfterWriteThenWrite, DrainFirst
  <2>2. f \in parked /\ inflight # <<>> /\ ~TooMuch(Tail(writeBuf))
    BY <1>3 DEF AfterWriteResume, MayResume, WriteCompletes, DrainFirst
  <2>3. readBuf[f] \in 1 .. Block /\ sent[f] + readBuf[f] <= total[f]
    BY <1>0, <2>2, BlockAssumption DEF Consistent, FileTypeOK
  <2>4. BlockFrame(f, readBuf[f]) \in Msg
    BY <1>0, <2>3, BlockFrameInMsg
  <2>5. Tail(inflight) \in Seq(Chain) /\ Len(Tail(inflight)) = Len(inflight) - 1
        /\ Len(inflight) \in Nat
    BY <1>0, <2>2
  <2>6. Len(inflight') >= Len(Tail(inflight)) /\ ret # 0
    BY <1>0, <2>1, <2>2, <2>4, <2>5, WriteRequests
  <2>7. parked' = parked \ {f}
    BY <2>1, <2>6 DEF BlockWritten, BlockRefused, BlockQueued
  <2>8. Cardinality(parked') = Cardinality(parked) - 1
    BY <1>0, <2>2, <2>7, FS_RemoveElement
  <2>9. Len(inflight') \in Nat
    BY <1>0, <2>1, <2>5 DEF WriteFrame, DoWrite
  <2> QED
    BY <1>f, <1>0, <2>5, <2>6, <2>8, <2>9 DEF WakeInv
<1>4. ASSUME NEW f \in File, ReadDone(f) PROVE WakeInv'
  <2> DEFINE n == readBuf[f] + ToRead(total[f], sent[f])
  <2>1. PICK ret \in {-1, 0, 1} :
          /\ WriteFrame(writeBuf, inflight, BlockFrame(f, n), ret)
          /\ BlockWritten(f, n, ret, parked, wroteTooMuch)
    BY <1>4 DEF ReadDone, Write
  <2>2. /\ readBuf[f] = 0 /\ sent[f] < total[f]
        /\ total[f] \in Offset /\ sent[f] \in Offset
    BY <1>0, <1>4 DEF ReadDone, Consistent, FileTypeOK
  <2>3. n \in 1 .. Block /\ sent[f] + n <= total[f]
    BY <2>2, ToReadInFile, BlockAssumption
  <2> HIDE DEF n
  <2>4. BlockFrame(f, n) \in Msg
    BY <1>0, <2>3, BlockFrameInMsg
  <2>5. Len(inflight') >= Len(inflight) /\ (ret = 0 => TooMuch(writeBuf) /\ writeBuf' = writeBuf)
    BY <1>0, <2>1, <2>4, WriteRequests
  <2>6. CASE ret = 0
    BY <1>f, <2>5, <2>6 DEF WakeInv, TooMuch, TotalLen
  <2>7. CASE ret # 0
    <3>1. parked' = parked
      BY <2>1, <2>7 DEF BlockWritten, BlockRefused, BlockQueued
    <3>2. Len(inflight) \in Nat /\ Len(inflight') \in Nat
      BY <1>0, <2>1 DEF WriteFrame, DoWrite
    <3> QED
      BY <1>f, <1>0, <2>5, <3>1, <3>2 DEF WakeInv
  <2> QED
    BY <2>6, <2>7
<1>5. ASSUME NEW f \in File, Disk(f), ~ReadDone(f) PROVE UNCHANGED <<parked, inflight>>
  BY <1>5 DEF Disk, StatDone, OpenDone, ReadFailed, CloseDone, parkVars, uvVars
<1>6. CASE Connects \/ Disconnects \/ SyncClose \/ SyncReturns
  BY <1>1, <1>6 DEF Connects, Start, OnReconnectTimeout, OnConnect, OnConnectFailed,
     Disconnects, OnReadFailed, SyncClose, OnClose, SyncReturns, LoopReturns, writeVars,
     fileVars, parkVars
<1>7. ASSUME NEW f \in File, FsEvent(f) PROVE UNCHANGED <<parked, inflight>>
  BY <1>7 DEF FsEvent, parkVars, uvVars
<1>8. ASSUME NEW due \in SUBSET pending, NEW existing \in SUBSET due,
             FsEventCheck(due, existing)
      PROVE  UNCHANGED <<parked, inflight>>
  BY <1>8 DEF FsEventCheck, parkVars, uvVars
<1>9. CASE UNCHANGED vars
  BY <1>1, <1>9 DEF vars, uvVars, fileVars
<1> QED
  BY <1>1, <1>2, <1>3, <1>4, <1>5, <1>6, <1>7, <1>8, <1>9 DEF Next

LEMMA WakeInit == Init => WakeInv
<1> SUFFICES ASSUME Init PROVE WakeInv
  OBVIOUS
<1>1. parked = {} /\ inflight = <<>> /\ pending = {} /\ active = {}
  BY DEF Init, UVInit
<1> QED
  BY <1>1, FS_EmptySet DEF WakeInv, FilesFinite

\* do_after_write(): while the files being sent are no more than the limit of
\* the write buffer, every parked file has a write under way that wakes it.
THEOREM ParkedFilesAreWoken == Spec /\ []FewFiles => []NoLostWakeup
<1>1. SyncInv /\ FewFiles /\ WakeInv => NoLostWakeup
  <2> SUFFICES ASSUME SyncInv, FewFiles, WakeInv, parked # {}, inflight = <<>>
               PROVE  FALSE
    BY DEF NoLostWakeup
  <2>1. Cardinality(parked) <= 0
    BY RequestsSuffice
  <2>2. IsFiniteSet(parked) /\ Cardinality(parked) \in Nat
    BY ParkedAreFew DEF WakeInv
  <2> QED
    BY <2>1, <2>2, FS_EmptySet
<1> QED
  BY <1>1, WakeInit, WakeStep, SyncInvariance, PTL DEF Spec

-----------------------------------------------------------------------------
(***************************************************************************)
(* The blocks of a transfer: written in order, none twice and none left    *)
(* out, and a transfer reported as finished is flushed to its last byte.   *)
(*                                                                         *)
(* TransferInv ties what was written to the counter the next block is read *)
(* at: SyncEntryInfo::sent.  While a transfer may still write, everything  *)
(* written of it lies below sent (NothingAhead), and if sent is not 0 its  *)
(* predecessor was flushed (SentIsFlushed).  A refused block may have been *)
(* written all the same, so NothingAhead does not hold of a transfer being *)
(* closed; the next transfer of the file starts at byte 0 again, under a   *)
(* number no frame has yet (NoFutureFrames).                               *)
(***************************************************************************)

\* BlocksInOrder of any sequence of frames.
Ordered(w) ==
  \A i \in 1 .. Len(w) :
    /\ w[i].from <= w[i].to
    /\ \A j \in 1 .. i - 1 : SameTransfer(w[j], w[i]) => w[j].to < w[i].from
    /\ w[i].from # 0 => \E j \in 1 .. i - 1 : SameTransfer(w[j], w[i])
                                              /\ w[j].to + 1 = w[i].from

NoFutureFrames ==
  \A i \in 1 .. Len(Written) : Written[i].gen <= gen[Written[i].file]

NothingAhead(f) ==
  f \in active /\ req[f] # "close" =>
    \A i \in 1 .. Len(Written) :
      Written[i].file = f /\ Written[i].gen = gen[f] => Written[i].to < sent[f]

SentIsFlushed(f) ==
  sent[f] # 0 => \E i \in 1 .. Len(stream) :
    stream[i].file = f /\ stream[i].gen = gen[f] /\ stream[i].to + 1 = sent[f]

TransferInv ==
  /\ Ordered(Written)
  /\ NoFutureFrames
  /\ \A f \in File : NothingAhead(f) /\ SentIsFlushed(f)
  /\ FinishedIsWhole

-----------------------------------------------------------------------------
(***************************************************************************)
(* What a write does to the sequence of frames: nothing, or it appends one.*)
(***************************************************************************)

\* v is w followed by m.
Extended(v, w, m) ==
  /\ Len(v) = Len(w) + 1
  /\ v[Len(v)] = m
  /\ \A i \in 1 .. Len(w) : v[i] = w[i]

Prefixes(w, v) ==
  /\ Len(w) <= Len(v)
  /\ \A i \in 1 .. Len(w) : v[i] = w[i]

\* Whether it is flushed, left in cur_write_buffer_chain_ or refused at once
\* after being moved, a written frame comes after all others.
LEMMA WriteEffect ==
  ASSUME cur \in Seq(Msg), stream \in Seq(Msg),
         NEW chains, NEW reqs, NEW m \in Msg, NEW ret,
         WriteFrame(chains, reqs, m, ret)
  PROVE  \/ UNCHANGED <<cur, stream>> /\ ret # 1
         \/ /\ Extended(Written', Written, m)
            /\ Prefixes(stream, stream')
            /\ ret # 0
            /\ ret = 1 => stream' # <<>> /\ stream'[Len(stream')] = m
<1>1. CASE UNCHANGED <<cur, stream>> /\ ret # 1
  BY <1>1
<1>2. CASE DoWrite(chains, reqs, Append(cur, m), ret) /\ UvIsClosing
  <2>1. cur' = Append(cur, m) /\ stream' = stream /\ ret = -1
    BY <1>2 DEF DoWrite
  <2>2. Extended(Written', Written, m)
    BY <2>1 DEF Extended, Written
  <2> QED
    BY <2>1, <2>2 DEF Prefixes
<1>3. CASE DoWrite(chains, reqs, Append(cur, m), ret) /\ ~UvIsClosing
  <2>1. cur' = <<>> /\ stream' = stream \o Append(cur, m)
    BY <1>3 DEF DoWrite
  <2>4. ret \in {-1, 1}
    BY <1>3 DEF DoWrite
  <2>2. Extended(Written', Written, m)
    BY <2>1 DEF Extended, Written
  <2>3. Prefixes(stream, stream') /\ stream' # <<>> /\ stream'[Len(stream')] = m
    BY <2>1 DEF Prefixes
  <2> QED
    BY <2>1, <2>2, <2>3, <2>4
<1> QED
  BY <1>1, <1>2, <1>3 DEF WriteFrame

LEMMA OrderedExtended ==
  ASSUME NEW w \in Seq(Msg), NEW v, NEW m \in Msg, Extended(v, w, m), Ordered(w),
         m.from <= m.to,
         \A i \in 1 .. Len(w) : SameTransfer(w[i], m) => w[i].to < m.from,
         m.from # 0 =>
           \E i \in 1 .. Len(w) : SameTransfer(w[i], m) /\ w[i].to + 1 = m.from
  PROVE  Ordered(v)
<1> SUFFICES ASSUME NEW i \in 1 .. Len(v)
             PROVE  /\ v[i].from <= v[i].to
                    /\ \A j \in 1 .. i - 1 : SameTransfer(v[j], v[i]) => v[j].to < v[i].from
                    /\ v[i].from # 0 => \E j \in 1 .. i - 1 : SameTransfer(v[j], v[i])
                                                              /\ v[j].to + 1 = v[i].from
  BY DEF Ordered
<1>1. CASE i \in 1 .. Len(w)
  <2>1. v[i] = w[i] /\ \A j \in 1 .. i - 1 : v[j] = w[j]
    BY <1>1 DEF Extended
  <2> QED
    BY <1>1, <2>1 DEF Ordered
<1>2. CASE i = Len(v)
  <2>1. v[i] = m /\ i - 1 = Len(w) /\ \A j \in 1 .. i - 1 : v[j] = w[j]
    BY <1>2 DEF Extended
  <2> QED
    BY <2>1
<1> QED
  BY <1>1, <1>2 DEF Extended

\* What was flushed stays flushed.
LEMMA FlushedStays ==
  ASSUME Prefixes(stream, stream'), FinishedIsWhole, finished' = finished
  PROVE  FinishedIsWhole'
<1> SUFFICES ASSUME NEW x \in finished
             PROVE  \E i \in 1 .. Len(stream') :
                      SameTransfer(stream'[i], x) /\ stream'[i].to + 1 = x.size
  BY DEF FinishedIsWhole
<1>1. PICK i \in 1 .. Len(stream) : SameTransfer(stream[i], x) /\ stream[i].to + 1 = x.size
  BY DEF FinishedIsWhole
<1>2. i \in 1 .. Len(stream') /\ stream'[i] = stream[i]
  BY DEF Prefixes
<1> QED
  BY <1>1, <1>2

-----------------------------------------------------------------------------
(***************************************************************************)
(* The steps.                                                              *)
(***************************************************************************)

\* A transfer's counters after a step that writes nothing: started afresh
\* under a new number, forgotten or closed, or as they were.
LEMMA NothingWritten ==
  ASSUME SyncInv, TransferInv, UNCHANGED <<cur, stream, finished>>,
         \A f \in File :
           \/ gen'[f] = gen[f] + 1 /\ sent'[f] = 0
           \/ /\ gen'[f] = gen[f]
              /\ sent'[f] \in {0, sent[f]}
              /\ NothingAhead(f) => NothingAhead(f)'
  PROVE  TransferInv'
<1>1. Written' = Written /\ Written \in Seq(Msg)
  BY DEF Written, SyncInv, IInv, TypeOK
<1>2. Ordered(Written')
  BY <1>1 DEF TransferInv
<1>3. \A i \in 1 .. Len(Written) :
        /\ Written[i].gen \in Nat /\ Written[i].file \in File
        /\ Written[i].gen <= gen[Written[i].file]
  <2>1. \A m \in Msg : m.gen \in Nat /\ m.file \in File
    BY MsgAssumption DEF Frame, Gen
  <2> QED
    BY <1>1, <2>1 DEF TransferInv, NoFutureFrames
<1>4. \A f \in File : gen[f] \in Nat
  BY DEF SyncInv, FileTypeOK, Gen
<1>5. NoFutureFrames'
  BY <1>1, <1>3, <1>4 DEF NoFutureFrames
<1>6. ASSUME NEW f \in File PROVE NothingAhead(f)' /\ SentIsFlushed(f)'
  <2>1. CASE gen'[f] = gen[f] + 1 /\ sent'[f] = 0
    BY <1>1, <1>3, <1>4, <2>1 DEF NothingAhead, SentIsFlushed
  <2>2. CASE /\ gen'[f] = gen[f] /\ sent'[f] \in {0, sent[f]}
             /\ NothingAhead(f) => NothingAhead(f)'
    BY <2>2 DEF TransferInv, SentIsFlushed
  <2> QED
    BY <2>1, <2>2
<1>7. FinishedIsWhole'
  BY DEF TransferInv, FinishedIsWhole
<1> QED
  BY <1>2, <1>5, <1>6, <1>7 DEF TransferInv

\* A block of a transfer that may write is written, or not, and the transfer
\* goes on as the answer says.
LEMMA BlockTransfer ==
  ASSUME SyncInv, TransferInv,
         NEW f \in File, f \in active, req[f] # "close",
         NEW n \in 1 .. Block, sent[f] + n <= total[f],
         NEW chains, NEW reqs, NEW ret, NEW waiting, NEW full,
         WriteFrame(chains, reqs, BlockFrame(f, n), ret),
         BlockWritten(f, n, ret, waiting, full),
         UNCHANGED <<pending, active, total, valid, gen, changed>>
  PROVE  TransferInv'
<1> DEFINE m == BlockFrame(f, n)
<1>1. /\ cur \in Seq(Msg) /\ stream \in Seq(Msg) /\ FileTypeOK
      /\ Written \in Seq(Msg)
  BY DEF SyncInv, IInv, TypeOK, Written
<1>2. m \in Msg
  BY <1>1, BlockFrameInMsg
<1>3. /\ m.file = f /\ m.gen = gen[f] /\ m.from = sent[f] /\ m.to = sent[f] + n - 1
  BY DEF BlockFrame
<1>4. /\ sent \in [File -> Nat] /\ total \in [File -> Nat] /\ gen \in [File -> Nat]
      /\ n \in Nat /\ n > 0
  BY <1>1, BlockAssumption DEF FileTypeOK, Offset, Gen
<1> HIDE DEF m
<1>5. \A g \in File : g # f => sent'[g] = sent[g] /\ (req'[g] = "close" <=> req[g] = "close")
  BY <1>1 DEF BlockWritten, BlockRefused, BlockParked, BlockQueued, FileTypeOK
<1>6. CASE UNCHANGED <<cur, stream>> /\ ret # 1
  <2>1. UNCHANGED <<sent, finished>>
    BY <1>6 DEF BlockWritten, BlockRefused, BlockParked
  <2>2. \A g \in File : NothingAhead(g) => NothingAhead(g)'
    BY <1>5, <1>6, <2>1 DEF NothingAhead, Written
  <2> QED
    BY <1>6, <2>1, <2>2, NothingWritten
<1>7. CASE /\ Extended(Written', Written, m) /\ Prefixes(stream, stream') /\ ret # 0
           /\ ret = 1 => stream' # <<>> /\ stream'[Len(stream')] = m
  <2>1. \A i \in 1 .. Len(Written) : SameTransfer(Written[i], m) => Written[i].to < sent[f]
    BY <1>3 DEF TransferInv, NothingAhead, SameTransfer
  <2>2. sent[f] # 0 => \E i \in 1 .. Len(Written) :
                         SameTransfer(Written[i], m) /\ Written[i].to + 1 = sent[f]
    BY <1>1, <1>3 DEF TransferInv, SentIsFlushed, SameTransfer, Written
  <2>3. Ordered(Written')
    <3>1. m.from <= m.to
      BY <1>3, <1>4
    <3> QED
      BY <1>1, <1>2, <1>3, <1>7, <2>1, <2>2, <3>1, OrderedExtended DEF TransferInv
  <2>4. NoFutureFrames'
    <3> SUFFICES ASSUME NEW i \in 1 .. Len(Written')
                 PROVE  Written'[i].gen <= gen[Written'[i].file]
      BY DEF NoFutureFrames
    <3>1. CASE i \in 1 .. Len(Written)
      BY <1>7, <3>1 DEF TransferInv, NoFutureFrames, Extended
    <3>2. CASE i = Len(Written')
      BY <1>3, <1>4, <1>7, <3>2 DEF Extended
    <3> QED
      BY <1>1, <1>7, <3>1, <3>2 DEF Extended
  <2>5. ASSUME NEW g \in File, g # f PROVE NothingAhead(g)' /\ SentIsFlushed(g)'
    <3>1. NothingAhead(g)'
      BY <1>3, <1>5, <1>7, <2>5 DEF TransferInv, NothingAhead, Extended
    <3>2. SentIsFlushed(g)'
      BY <1>5, <1>7, <2>5 DEF TransferInv, SentIsFlushed, Prefixes
    <3> QED
      BY <3>1, <3>2
  <2>6. CASE ret = -1
    <3>1. req'[f] = "close" /\ UNCHANGED <<sent, finished>>
      BY <1>1, <2>6 DEF BlockWritten, BlockRefused, FileTypeOK
    <3>2. NothingAhead(f)'
      BY <3>1 DEF NothingAhead
    <3>3. SentIsFlushed(f)'
      BY <1>7, <3>1 DEF TransferInv, SentIsFlushed, Prefixes
    <3>4. FinishedIsWhole'
      BY <1>7, <3>1, FlushedStays DEF TransferInv
    <3> QED
      BY <2>3, <2>4, <2>5, <3>2, <3>3, <3>4 DEF TransferInv
  <2>7. CASE ret = 1
    <3>1. BlockQueued(f, n, waiting, full)
      BY <2>7 DEF BlockWritten
    <3>2. sent'[f] = sent[f] + n
      BY <1>4, <3>1 DEF BlockQueued
    <3>3. NothingAhead(f)'
      <4>1. \A i \in 1 .. Len(Written') :
              Written'[i].file = f /\ Written'[i].gen = gen[f] => Written'[i].to < sent'[f]
        <5> SUFFICES ASSUME NEW i \in 1 .. Len(Written'),
                            Written'[i].file = f, Written'[i].gen = gen[f]
                     PROVE  Written'[i].to < sent[f] + n
          BY <3>2
        <5>1. CASE i \in 1 .. Len(Written)
          <6>1. Written'[i] = Written[i] /\ Written[i] \in Msg
            <7>1. Written'[i] = Written[i]
              BY <1>7, <5>1 DEF Extended
            <7>2. Written[i] \in Msg
              BY <1>1, <5>1
            <7> QED
              BY <7>1, <7>2
          <6>2. Written[i].to < sent[f] /\ Written[i].to \in Int
            <7>1. SameTransfer(Written[i], m)
              BY <1>3, <5>1, <6>1, Zenon DEF SameTransfer
            <7>2. Written[i].to \in Int
              BY <6>1, MsgAssumption DEF Frame, Byte
            <7> QED
              BY <2>1, <5>1, <7>1, <7>2
          <6> QED
            BY <1>4, <6>1, <6>2
        <5>2. CASE i = Len(Written')
          BY <1>3, <1>4, <1>7, <5>2 DEF Extended
        <5> QED
          BY <1>7, <5>1, <5>2 DEF Extended
      <4> QED
        BY <4>1 DEF NothingAhead
    <3>4. \E i \in 1 .. Len(stream') : /\ stream'[i].file = f /\ stream'[i].gen = gen[f]
                                       /\ stream'[i].to + 1 = sent[f] + n
      <4>1. Len(stream') \in 1 .. Len(stream') /\ stream'[Len(stream')] = m
        BY <1>1, <1>7, <2>7 DEF Prefixes
      <4>2. m.to + 1 = sent[f] + n
        BY <1>3, <1>4
      <4> QED
        BY <1>3, <4>1, <4>2
    <3>5. SentIsFlushed(f)'
      BY <3>2, <3>4 DEF SentIsFlushed
    <3>6. FinishedIsWhole'
      <4>1. CASE MoreToSend(sent[f] + n, total[f])
        BY <1>7, <3>1, <4>1, FlushedStays DEF BlockQueued, TransferInv
      <4>2. CASE ~MoreToSend(sent[f] + n, total[f])
        <5>1. total[f] = sent[f] + n
          BY <1>4, <4>2 DEF MoreToSend
        <5>2. finished' = finished \union {[file |-> f, gen |-> gen[f], size |-> total[f]]}
          BY <3>1, <4>2 DEF BlockQueued
        <5>3. ASSUME NEW x \in finished
              PROVE  \E i \in 1 .. Len(stream') :
                       SameTransfer(stream'[i], x) /\ stream'[i].to + 1 = x.size
          <6>1. PICK i \in 1 .. Len(stream) :
                       SameTransfer(stream[i], x) /\ stream[i].to + 1 = x.size
            BY DEF TransferInv, FinishedIsWhole
          <6>2. i \in 1 .. Len(stream') /\ stream'[i] = stream[i]
            BY <1>7 DEF Prefixes
          <6> QED
            BY <6>1, <6>2
        <5> QED
          BY <3>4, <5>1, <5>2, <5>3 DEF FinishedIsWhole, SameTransfer
      <4> QED
        BY <4>1, <4>2
    <3> QED
      BY <2>3, <2>4, <2>5, <3>3, <3>5, <3>6 DEF TransferInv
  <2> QED
    BY <1>7, <2>6, <2>7 DEF BlockWritten
<1> QED
  BY <1>1, <1>2, <1>6, <1>7, WriteEffect DEF m

\* No action but a write touches what was written.
LEMMA TransferStep == SyncInv /\ TransferInv /\ [Next]_vars => TransferInv'
<1> SUFFICES ASSUME SyncInv, TransferInv, [Next]_vars PROVE TransferInv'
  OBVIOUS
<1>0. FileTypeOK /\ \A f \in File : Consistent(f)
  BY DEF SyncInv, FileInv
<1>1. CASE /\ UNCHANGED <<cur, stream, active, sent, req, gen, finished>>
  <2>1. \A f \in File : NothingAhead(f) => NothingAhead(f)'
    BY <1>1 DEF NothingAhead, Written
  <2> QED
    BY <1>1, <2>1, NothingWritten
<1>2. ASSUME NEW f \in File, NEW size \in Sizes, StatDone(f, size) PROVE TransferInv'
  <2>1. \A g \in File : NothingAhead(g) => NothingAhead(g)'
    BY <1>0, <1>2 DEF StatDone, NothingAhead, Written, uvVars, history, FileTypeOK
  <2> QED
    BY <1>2, <2>1, NothingWritten DEF StatDone, uvVars, history
<1>3. ASSUME NEW f \in File, NEW ok \in BOOLEAN, OpenDone(f, ok) PROVE TransferInv'
  <2>1. \A g \in File : NothingAhead(g) => NothingAhead(g)'
    BY <1>0, <1>3 DEF OpenDone, NothingAhead, Written, uvVars, history, FileTypeOK
  <2> QED
    BY <1>3, <2>1, NothingWritten DEF OpenDone, uvVars, history
<1>4. ASSUME NEW f \in File, ReadFailed(f) \/ CloseDone(f) PROVE TransferInv'
  <2>1. Forget(f) /\ UNCHANGED <<cur, stream, gen, finished>>
    BY <1>4 DEF ReadFailed, CloseDone, uvVars, history
  <2>2. ASSUME NEW g \in File
        PROVE  sent'[g] \in {0, sent[g]} /\ (NothingAhead(g) => NothingAhead(g)')
    BY <1>0, <2>1 DEF Forget, NothingAhead, Written, FileTypeOK
  <2> QED
    BY <2>1, <2>2, NothingWritten
<1>5. ASSUME NEW f \in File, ReadDone(f) PROVE TransferInv'
  <2> DEFINE n == readBuf[f] + ToRead(total[f], sent[f])
  <2>1. /\ f \in active /\ req[f] # "close" /\ readBuf[f] = 0 /\ sent[f] < total[f]
        /\ total[f] \in Offset /\ sent[f] \in Offset
    BY <1>0, <1>5 DEF ReadDone, Consistent, FileTypeOK
  <2>2. n \in 1 .. Block /\ sent[f] + n <= total[f]
    BY <2>1, ToReadInFile, BlockAssumption
  <2> HIDE DEF n
  <2>3. PICK ret \in {-1, 0, 1} :
          /\ WriteFrame(writeBuf, inflight, BlockFrame(f, n), ret)
          /\ BlockWritten(f, n, ret, parked, wroteTooMuch)
          /\ UNCHANGED <<pending, active, total, valid, gen, changed>>
    BY <1>5 DEF ReadDone, Write, n
  <2> QED
    BY <2>1, <2>2, <2>3, BlockTransfer
<1>6. ASSUME NEW f \in File, AfterWriteResume(f) PROVE TransferInv'
  <2>1. PICK ret \in {-1, 0, 1} :
          /\ WriteFrame(DrainFirst(writeBuf), Tail(inflight), BlockFrame(f, readBuf[f]), ret)
          /\ BlockWritten(f, readBuf[f], ret, parked \ {f}, FullAfter(parked \ {f}))
          /\ UNCHANGED <<pending, active, total, valid, gen, changed>>
    BY <1>6 DEF AfterWriteResume, AfterWriteThenWrite
  <2>2. /\ f \in active /\ req[f] # "close" /\ readBuf[f] \in 1 .. Block
        /\ sent[f] + readBuf[f] <= total[f]
    BY <1>0, <1>6, BlockAssumption DEF AfterWriteResume, Consistent, FileTypeOK
  <2> QED
    BY <2>1, <2>2, BlockTransfer
<1>7. ASSUME NEW due \in SUBSET pending, NEW existing \in SUBSET due,
             FsEventCheck(due, existing)
      PROVE  TransferInv'
  <2> DEFINE started == existing \ active
  <2>1. StartSendFile(started) /\ UNCHANGED <<cur, stream, finished>>
    BY <1>7 DEF FsEventCheck, uvVars
  <2>2. ASSUME NEW g \in File
        PROVE  \/ gen'[g] = gen[g] + 1 /\ sent'[g] = 0
               \/ /\ gen'[g] = gen[g] /\ sent'[g] = sent[g]
                  /\ NothingAhead(g) => NothingAhead(g)'
    BY <2>1 DEF StartSendFile, NothingAhead, Written
  <2> QED
    BY <2>1, <2>2, NothingWritten
<1>8. CASE Connects \/ Disconnects \/ SyncReturns \/ SyncClose \/ AfterWriteIdle
  <2>1. UNCHANGED <<active, sent, req, gen, finished>>
    BY <1>8 DEF Connects, Disconnects, SyncReturns, SyncClose, AfterWriteIdle, fileVars,
                entryVars
  <2>2. UNCHANGED <<cur, stream>>
    BY <1>8 DEF Connects, Disconnects, SyncReturns, SyncClose, AfterWriteIdle, Start,
                OnReconnectTimeout, OnConnect, OnConnectFailed, OnReadFailed, LoopReturns,
                OnClose, AfterWrite, writeVars
  <2> QED
    BY <1>1, <2>1, <2>2
<1>9. ASSUME NEW f \in File, FsEvent(f) PROVE TransferInv'
  BY <1>1, <1>9 DEF FsEvent, uvVars, entryVars
<1>10. CASE UNCHANGED vars
  BY <1>1, <1>10 DEF vars, uvVars, fileVars
<1> QED
  BY <1>2, <1>3, <1>4, <1>5, <1>6, <1>7, <1>8, <1>9, <1>10 DEF Next, Disk

LEMMA TransferInit == Init => TransferInv
<1> SUFFICES ASSUME Init PROVE TransferInv
  OBVIOUS
<1>1. Written = <<>> /\ stream = <<>> /\ finished = {} /\ active = {}
  BY DEF Init, UVInit, Written
<1>2. Ordered(Written) /\ NoFutureFrames /\ FinishedIsWhole
  BY <1>1 DEF Ordered, NoFutureFrames, FinishedIsWhole
<1>3. \A f \in File : NothingAhead(f) /\ SentIsFlushed(f)
  BY <1>1 DEF Init, NothingAhead, SentIsFlushed
<1> QED
  BY <1>2, <1>3 DEF TransferInv

THEOREM TransferInvariance == Spec => []TransferInv
BY TransferInit, TransferStep, SyncInvariance, PTL DEF Spec

-----------------------------------------------------------------------------

\* send_deposite_file_message(): the blocks of a transfer are written from
\* byte 0 on, each once and in order, whatever parks or interrupts it.
THEOREM BlocksFollow == Spec => []BlocksInOrder
<1>1. TransferInv => BlocksInOrder
  BY DEF TransferInv, Ordered, BlocksInOrder
<1> QED
  BY <1>1, TransferInvariance, PTL

\* A transfer file_cb() reports as finished was moved to my_write_buf_ whole.
THEOREM FinishedIsFlushed == Spec => []FinishedIsWhole
<1>1. TransferInv => FinishedIsWhole
  BY DEF TransferInv
<1> QED
  BY <1>1, TransferInvariance, PTL

=============================================================================
