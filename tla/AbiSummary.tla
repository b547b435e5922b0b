------------------------------ MODULE AbiSummary ------------------------------
(***************************************************************************)
(* The Rust view of the ABI (abi/mod.rs): proof obligations and the        *)
(* summary of a verification run that is counted from them.  A usize is    *)
(* wide enough for the length of any list in memory.                       *)
(***************************************************************************)
EXTENDS Integers, Sequences, FiniteSets

ProofKind == {"Totality", "Termination", "Invariant", "TypeSafety", "Resource", "RoundTrip"}

\* The texts of an obligation, its function and its type, are left out
ProofObligation == [kind : ProofKind, discharged : BOOLEAN]

VerificationSummary ==
    [interfaces : Nat, functions : Nat, total_obligations : Nat, discharged : Nat,
     remaining : Int, all_proven : BOOLEAN]

\* obligations.iter().filter(|o| o.discharged).count()
Discharged(obligations) == Cardinality({i \in DOMAIN obligations : obligations[i].discharged})

from_obligations(interfaces, functions, obligations) ==
    LET total      == Len(obligations)
        discharged == Discharged(obligations)
    IN  [interfaces        |-> interfaces,
         functions         |-> functions,
         total_obligations |-> total,
         discharged        |-> discharged,
         remaining         |-> total - discharged,
         all_proven        |-> discharged = total]

================================================================================
