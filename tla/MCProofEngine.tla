----------------------------- MODULE MCProofEngine -----------------------------
(***************************************************************************)
(* Two threads on a heap of two blocks: two engines, or an engine and a    *)
(* string, or a block that is freed by one thread and reused by the other. *)
(***************************************************************************)
EXTENDS ProofEngine, TLC

CONSTANTS t1, t2, a1, a2

MCThreads       == {t1, t2}
MCAddr          == {a1, a2}
MCFormatCodes   == {3, 4}     \* the last code the engine knows and the first it does not
MCDerivedCounts == {0, 2}     \* nothing to prove, several obligations
MCShippedCounts == {0}        \* what the placeholder of the code counts today

\* Threads are interchangeable, and so are blocks
Symmetry == Permutations(MCThreads) \cup Permutations(MCAddr)
================================================================================
