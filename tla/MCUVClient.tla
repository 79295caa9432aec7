----------------------------- MODULE MCUVClient -----------------------------
(***************************************************************************)
(* UVClient for TLC.  MaxFrames bounds the only unbounded part of the      *)
(* state, the frames the subclass ever writes; everything else is bounded  *)
(* by the code (WriteLimit, RetryTimes).                                   *)
(***************************************************************************)
EXTENDS UVClient

CONSTANT MaxFrames

MCNext == UVNext /\ Len(stream') + Len(cur') <= MaxFrames

MCSpec == UVInit /\ [][MCNext]_uvVars

MCFairSpec == MCSpec /\ UVFairness

\* FrameLeaves for every frame the bound admits.
FramesLeave == \A n \in 1 .. MaxFrames : FrameLeaves(n)

=============================================================================
