---------------------------- MODULE MCEngineThreads ----------------------------
(***************************************************************************)
(* Two threads on a heap of two blocks, as in MCProofEngine, with every    *)
(* load and store of a call a step of its own.                             *)
(***************************************************************************)
EXTENDS EngineThreads, TLC

CONSTANTS t1, t2, a1, a2

MCThreads       == {t1, t2}
MCAddr          == {a1, a2}
MCFormatCodes   == {3, 4}
MCDerivedCounts == {0, 1}

\* What a thread was told by its previous calls bears on none of the next steps
WithoutReplies == <<engine, strings, lastError, owned, becomes, call>>

Symmetry == Permutations(MCThreads) \cup Permutations(MCAddr)
================================================================================
