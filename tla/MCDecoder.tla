------------------------------ MODULE MCDecoder ------------------------------
(***************************************************************************)
(* Decoder for TLC: finite because connections and the messages on each    *)
(* are bounded.                                                            *)
(***************************************************************************)
EXTENDS Decoder

\* What garbage may spell: nothing, a negative length, a plausible one, and
\* one that never completes.
Spelled == {-1, 0, 3, 30}

=============================================================================
