----------------------------- MODULE MCFsEvents -----------------------------
(***************************************************************************)
(* FsEvents for TLC: finite because times are relative and saturate.  The  *)
(* unit of time is 250 ms: a gap of 2 and an interval of 4 are the code's  *)
(* 500 and 1000 ms, and an iteration may take 1.                           *)
(***************************************************************************)
EXTENDS FsEvents

=============================================================================
