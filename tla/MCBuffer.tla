------------------------------ MODULE MCBuffer ------------------------------
(***************************************************************************)
(* BufferReads and BufferCopies for TLC: finite because MaxBytes bounds the*)
(* bytes ever appended.                                                    *)
(***************************************************************************)
EXTENDS BufferCopies

\* Every length up to two and a half chains.
Lengths == 0 .. 5

\* For counterexamples: lengths around zero, and a line that ends with LF.
SignedLengths == -1 .. 2
LoneLF == <<"a", LF, "b">>

\* Line ends of all kinds, some of them across two chains.
Lines == <<"a", CR, LF, NUL, CR, CR, LF>>

=============================================================================
