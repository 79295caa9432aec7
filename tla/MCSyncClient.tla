---------------------------- MODULE MCSyncClient ----------------------------
(***************************************************************************)
(* SyncClient for TLC: the state is finite once File, Sizes and MaxGen are.*)
(***************************************************************************)
EXTENDS SyncClient, FiniteSetsExt, TLC

CONSTANT MaxTransfers   \* bound: transfers of all files together

TransfersBounded == MapThenSumSet(LAMBDA f : gen'[f], File) <= MaxTransfers

MCNext == Next /\ TransfersBounded

MCSpec == Init /\ [][MCNext]_vars

\* The files are treated alike.
Symmetry == Permutations(File)

=============================================================================
