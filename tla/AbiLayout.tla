------------------------------- MODULE AbiLayout -------------------------------
(***************************************************************************)
(* The layout arithmetic of the Idris2 ABI (Layout.idr): alignment and     *)
(* padding, the offsets and sizes of C structs, the check of a layout      *)
(* against the C ABI, and the layouts of the structs the engine shares.    *)
(*                                                                         *)
(* Idris2's Maybe (a proof) and Either String (a proof) are BOOLEAN here:  *)
(* whether there is a proof.  mod and div are only applied to alignments   *)
(* other than 0, where Idris2 defines them.                                *)
(***************************************************************************)
EXTENDS Integers, Sequences

paddingFor(offset, alignment) ==
    IF offset % alignment = 0 THEN 0 ELSE alignment - (offset % alignment)

alignUp(size, alignment) == size + paddingFor(size, alignment)

\* The type Divides n m, and the procedure that decides it; Z is not decided
Divides(n, m)    == \E k \in Nat : m = k * n
decDivides(n, m) == n # 0 /\ m = (m \div n) * n

alignUpDivides(size, align) == decDivides(align, alignUp(size, align))

--------------------------------------------------------------------------------
\* Structs.  A Vect of fields is a sequence

Field == [name : STRING, offset : Nat, size : Nat, alignment : Nat]

\* totalSize >= sum (map (\f => f.size) fields), where upTo[i] is the sum of the first i
sizeCorrect(fs, totalSize) ==
    \E upTo \in [0 .. Len(fs) -> Nat] :
       /\ upTo[0] = 0 /\ \A i \in 1 .. Len(fs) : upTo[i] = upTo[i - 1] + fs[i].size
       /\ totalSize >= upTo[Len(fs)]

\* What MkStructLayout constructs: the two proofs it asks for are its auto-implicit fields
StructLayout ==
    {layout \in [fields : Seq(Field), totalSize : Nat, alignment : Nat] :
        sizeCorrect(layout.fields, layout.totalSize) /\ Divides(layout.alignment, layout.totalSize)}

MkField(name, offset, size, alignment) ==
    [name |-> name, offset |-> offset, size |-> size, alignment |-> alignment]

nextFieldOffset(f) == alignUp(f.offset + f.size, f.alignment)

\* The two folds of calcStructSize over the fields after the first: the left one
\* ends with the last field, the right one with the first it folds, the second field
LastOffset(fs) == IF Len(fs) = 1 THEN fs[1].offset ELSE nextFieldOffset(fs[Len(fs)])
LastSize(fs)   == IF Len(fs) = 1 THEN fs[1].size ELSE fs[2].size

calcStructSize(fs, align) ==
    IF fs = <<>> THEN 0 ELSE alignUp(LastOffset(fs) + LastSize(fs), align)

decFieldsAligned(fs) == \A i \in DOMAIN fs : decDivides(fs[i].alignment, fs[i].offset)

checkCABI(layout) == decFieldsAligned(layout.fields)

\* findIndex and finToNat: the number of the first field of that name, from 0
fieldOffset(layout, name) ==
    CHOOSE idx \in Nat :
       /\ idx < Len(layout.fields) /\ layout.fields[idx + 1].name = name
       /\ \A i \in 1 .. idx : layout.fields[i].name # name

offsetInBounds(layout, f) == f.offset + f.size <= layout.totalSize

\* Each platform's layout is looked at by no code
verifyAllPlatforms(layouts) == TRUE

--------------------------------------------------------------------------------
\* The structs of the engine

proofEngineContextLayout ==
    [fields    |-> << MkField("handle_ptr", 0, 8, 8), MkField("model_ptr", 8, 8, 8),
                      MkField("num_obligations", 16, 4, 4), MkField("discharged_count", 20, 4, 4),
                      MkField("error_ptr", 24, 8, 8), MkField("error_len", 32, 4, 4),
                      MkField("initialized", 36, 4, 4), MkField("padding", 40, 8, 8) >>,
     totalSize |-> 48,
     alignment |-> 8]

proofObligationLayout ==
    [fields    |-> << MkField("source_ptr", 0, 8, 8), MkField("kind", 8, 4, 4),
                      MkField("discharged", 12, 4, 4), MkField("prooftype_ptr", 16, 8, 8),
                      MkField("prooftype_len", 24, 4, 4), MkField("padding", 28, 4, 4) >>,
     totalSize |-> 32,
     alignment |-> 8]

handleDataLayout ==
    [fields    |-> << MkField("ptr", 0, 8, 8), MkField("generation", 8, 4, 4),
                      MkField("flags", 12, 4, 4) >>,
     totalSize |-> 16,
     alignment |-> 8]

Layouts == {proofEngineContextLayout, proofObligationLayout, handleDataLayout}

verifyAllLayouts == \A layout \in Layouts : checkCABI(layout)

--------------------------------------------------------------------------------
\* "all fields are aligned, total size is a multiple of the struct alignment,
\* and no field overlaps with another" (Layout.idr:263-265)

NoOverlap(fs) == \A i, j \in DOMAIN fs :
                    i < j => \/ fs[i].offset + fs[i].size <= fs[j].offset
                             \/ fs[j].offset + fs[j].size <= fs[i].offset

FollowsCABI(layout) ==
    /\ \A i \in DOMAIN layout.fields :
          LET f == layout.fields[i]
          IN  Divides(f.alignment, f.offset) /\ offsetInBounds(layout, f)
    /\ Divides(layout.alignment, layout.totalSize)
    /\ NoOverlap(layout.fields)

================================================================================
