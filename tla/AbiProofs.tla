------------------------------- MODULE AbiProofs -------------------------------
(***************************************************************************)
(* Theorems about the layout arithmetic of Layout.idr and the summary of   *)
(* abi/mod.rs, for every size, offset, alignment and list.                 *)
(***************************************************************************)
EXTENDS AbiLayout, AbiSummary, FiniteSetTheorems, TLAPS

LEMMA DivMod ==
    ASSUME NEW m \in Nat, NEW n \in Nat \ {0}
    PROVE  /\ m \div n \in Nat /\ m % n \in 0 .. n - 1
           /\ m = n * (m \div n) + (m % n)
  OBVIOUS

(* decDivides is sound and complete: it finds a proof exactly when the number  *)
(* divides the other, and never for the divisor 0 (Layout.idr:57-64).          *)
THEOREM DecDividesCorrect ==
    ASSUME NEW n \in Nat, NEW m \in Nat
    PROVE  decDivides(n, m) <=> n # 0 /\ Divides(n, m)
<1>1. ASSUME decDivides(n, m) PROVE n # 0 /\ Divides(n, m)
  <2>1. n # 0 /\ m = (m \div n) * n
    BY <1>1 DEF decDivides
  <2>2. m \div n \in Nat
    BY <2>1, DivMod
  <2> QED  BY <2>1, <2>2 DEF Divides
<1>2. ASSUME n # 0, Divides(n, m) PROVE decDivides(n, m)
  <2>1. PICK k \in Nat : m = k * n
    BY <1>2 DEF Divides
  <2>2. m \div n = k
    BY <1>2, <2>1
  <2> QED  BY <1>2, <2>1, <2>2 DEF decDivides
<1> QED  BY <1>1, <1>2

(* "alignUp size align is always divisible by align", which Layout.idr:66-72   *)
(* leaves as residual proof work: alignUpDivides never answers Nothing.        *)
THEOREM AlignUpDivides ==
    ASSUME NEW size \in Nat, NEW align \in Nat \ {0}
    PROVE  alignUpDivides(size, align) /\ Divides(align, alignUp(size, align))
<1> DEFINE q == size \div align
           r == size % align
<1>1. q \in Nat /\ r \in 0 .. align - 1 /\ size = align * q + r
  BY DivMod
<1>2. alignUp(size, align) = IF r = 0 THEN align * q ELSE align * q + align
  BY <1>1 DEF alignUp, paddingFor
<1>3. align * q + align = (q + 1) * align /\ align * q = q * align
  BY <1>1
<1>4. \E k \in Nat : alignUp(size, align) = k * align
  <2>1. CASE r = 0
    BY <1>1, <1>2, <1>3, <2>1
  <2>2. CASE r # 0
    <3>1. q + 1 \in Nat /\ alignUp(size, align) = (q + 1) * align
      BY <1>1, <1>2, <1>3, <2>2
    <3> QED  BY <3>1
  <2> QED  BY <2>1, <2>2
<1>5. Divides(align, alignUp(size, align)) /\ alignUp(size, align) \in Nat
  <2>1. alignUp(size, align) \in Nat
    BY <1>1 DEF alignUp, paddingFor
  <2> QED  BY <1>4, <2>1 DEF Divides
<1> QED  BY <1>5, DecDividesCorrect DEF alignUpDivides

(* alignUp rounds up and wastes nothing: it is the least multiple of the       *)
(* alignment that is not below the size (Layout.idr:37-52).                    *)
THEOREM AlignUpLeast ==
    ASSUME NEW size \in Nat, NEW align \in Nat \ {0}
    PROVE  /\ size <= alignUp(size, align) /\ alignUp(size, align) < size + align
           /\ \A m \in Nat : size <= m /\ Divides(align, m) => alignUp(size, align) <= m
<1> DEFINE q == size \div align
           r == size % align
<1>1. q \in Nat /\ r \in 0 .. align - 1 /\ size = align * q + r
  BY DivMod
<1>2. alignUp(size, align) = IF r = 0 THEN size ELSE size + (align - r)
  BY <1>1 DEF alignUp, paddingFor
<1>3. ASSUME NEW m \in Nat, size <= m, Divides(align, m)
      PROVE  alignUp(size, align) <= m
  <2>1. PICK k \in Nat : m = k * align
    BY <1>3 DEF Divides
  <2>2. CASE r = 0
    BY <1>1, <1>2, <1>3, <2>2
  <2>3. CASE r # 0
    <3>1. k > q
      <4>1. SUFFICES ASSUME k <= q PROVE FALSE
        BY <1>1
      <4>2. k * align <= q * align
        BY <1>1, <4>1
      <4>3. align * q = q * align /\ q * align \in Nat /\ k * align \in Nat
        BY <1>1
      <4> QED  BY <1>1, <1>3, <2>1, <2>3, <4>2, <4>3
    <3>2. k * align >= (q + 1) * align
      BY <1>1, <3>1
    <3>3. (q + 1) * align = align * q + align
      BY <1>1
    <3> QED  BY <1>1, <1>2, <2>1, <2>3, <3>2, <3>3
  <2> QED  BY <2>2, <2>3
<1> QED  BY <1>1, <1>2, <1>3

LEMMA AlignUpType ==
    ASSUME NEW size \in Nat, NEW align \in Nat \ {0}
    PROVE  alignUp(size, align) \in Nat
  BY DivMod DEF alignUp, paddingFor

--------------------------------------------------------------------------------

(* "Verify that all concrete idrisiser layouts are C-ABI compliant"            *)
(* (Layout.idr:277): the three shared structs pass the check, and they follow  *)
(* the rules the check leaves out as well: sizes, bounds and no overlap; and   *)
(* the sum of their sizes is what their type asks for (Layout.idr:144).        *)
THEOREM ConcreteLayoutsFollowCABI ==
    /\ verifyAllLayouts
    /\ \A layout \in Layouts : FollowsCABI(layout) /\ sizeCorrect(layout.fields, layout.totalSize)
<1>1. ASSUME NEW k \in Nat PROVE Divides(4, k * 4) /\ Divides(8, k * 8)
  BY DEF Divides
<1>2. /\ Divides(4, 8) /\ Divides(4, 12) /\ Divides(4, 16) /\ Divides(4, 20) /\ Divides(4, 24)
      /\ Divides(4, 28) /\ Divides(4, 32) /\ Divides(4, 36)
      /\ Divides(8, 0) /\ Divides(8, 8) /\ Divides(8, 16) /\ Divides(8, 24) /\ Divides(8, 32)
      /\ Divides(8, 40) /\ Divides(8, 48)
  <2>1. /\ Divides(4, 2 * 4) /\ Divides(4, 3 * 4) /\ Divides(4, 4 * 4) /\ Divides(4, 5 * 4)
        /\ Divides(4, 6 * 4) /\ Divides(4, 7 * 4) /\ Divides(4, 8 * 4) /\ Divides(4, 9 * 4)
    BY <1>1
  <2>2. /\ Divides(8, 0 * 8) /\ Divides(8, 1 * 8) /\ Divides(8, 2 * 8) /\ Divides(8, 3 * 8)
        /\ Divides(8, 4 * 8) /\ Divides(8, 5 * 8) /\ Divides(8, 6 * 8)
    BY <1>1
  <2> QED  BY <2>1, <2>2
<1>3. ASSUME NEW layout \in Layouts, FollowsCABI(layout), 
             \A i \in DOMAIN layout.fields : /\ layout.fields[i].alignment \in Nat \ {0}
                                             /\ layout.fields[i].offset \in Nat
      PROVE  checkCABI(layout)
  BY <1>3, DecDividesCorrect DEF FollowsCABI, checkCABI, decFieldsAligned
<1>4. ASSUME NEW layout, layout = handleDataLayout
      PROVE  /\ FollowsCABI(layout)
             /\ \A i \in DOMAIN layout.fields : /\ layout.fields[i].alignment \in Nat \ {0}
                                               /\ layout.fields[i].offset \in Nat
  <2>1. DOMAIN layout.fields = {1, 2, 3}
    BY <1>4 DEF handleDataLayout, MkField
  <2> QED  BY <1>2, <1>4, <2>1 DEF handleDataLayout, MkField, FollowsCABI, NoOverlap, offsetInBounds
<1>5. ASSUME NEW layout, layout = proofObligationLayout
      PROVE  /\ FollowsCABI(layout)
             /\ \A i \in DOMAIN layout.fields : /\ layout.fields[i].alignment \in Nat \ {0}
                                               /\ layout.fields[i].offset \in Nat
  <2>1. DOMAIN layout.fields = {1, 2, 3, 4, 5, 6}
    BY <1>5 DEF proofObligationLayout, MkField
  <2> QED  BY <1>2, <1>5, <2>1 DEF proofObligationLayout, MkField, FollowsCABI, NoOverlap, offsetInBounds
<1>6. ASSUME NEW layout, layout = proofEngineContextLayout
      PROVE  /\ FollowsCABI(layout)
             /\ \A i \in DOMAIN layout.fields : /\ layout.fields[i].alignment \in Nat \ {0}
                                               /\ layout.fields[i].offset \in Nat
  <2>1. DOMAIN layout.fields = {1, 2, 3, 4, 5, 6, 7, 8}
    BY <1>6 DEF proofEngineContextLayout, MkField
  <2> QED  BY <1>2, <1>6, <2>1 DEF proofEngineContextLayout, MkField, FollowsCABI, NoOverlap, offsetInBounds
<1>7. \A layout \in Layouts : sizeCorrect(layout.fields, layout.totalSize)
  <2>1. sizeCorrect(handleDataLayout.fields, 16)
    <3> DEFINE fs == handleDataLayout.fields
               upTo == [i \in 0 .. 3 |-> CASE i = 0 -> 0 [] i = 1 -> 8 [] i = 2 -> 12 [] OTHER -> 16]
    <3>1. Len(fs) = 3 /\ fs[1].size = 8 /\ fs[2].size = 4 /\ fs[3].size = 4
      BY DEF handleDataLayout, MkField
    <3>2. upTo \in [0 .. 3 -> Nat] /\ upTo[0] = 0 /\ upTo[1] = 8 /\ upTo[2] = 12 /\ upTo[3] = 16
      OBVIOUS
    <3> HIDE DEF fs, upTo
    <3>3. \A i \in 1 .. 3 : upTo[i] = upTo[i - 1] + fs[i].size
      BY <3>1, <3>2
    <3>4. sizeCorrect(fs, 16)
      BY <3>1, <3>2, <3>3 DEF sizeCorrect
    <3> QED  BY <3>4 DEF fs
  <2>2. sizeCorrect(proofObligationLayout.fields, 32)
    <3> DEFINE fs == proofObligationLayout.fields
               upTo == [i \in 0 .. 6 |-> CASE i = 0 -> 0 [] i = 1 -> 8 [] i = 2 -> 12 [] i = 3 -> 16
                                           [] i = 4 -> 24 [] i = 5 -> 28 [] OTHER -> 32]
    <3>1. /\ Len(fs) = 6 /\ fs[1].size = 8 /\ fs[2].size = 4 /\ fs[3].size = 4
          /\ fs[4].size = 8 /\ fs[5].size = 4 /\ fs[6].size = 4
      BY DEF proofObligationLayout, MkField
    <3>2. /\ upTo \in [0 .. 6 -> Nat] /\ upTo[0] = 0 /\ upTo[1] = 8 /\ upTo[2] = 12 /\ upTo[3] = 16
          /\ upTo[4] = 24 /\ upTo[5] = 28 /\ upTo[6] = 32
      OBVIOUS
    <3> HIDE DEF fs, upTo
    <3>3. \A i \in 1 .. 6 : upTo[i] = upTo[i - 1] + fs[i].size
      BY <3>1, <3>2
    <3>4. sizeCorrect(fs, 32)
      BY <3>1, <3>2, <3>3 DEF sizeCorrect
    <3> QED  BY <3>4 DEF fs
  <2>3. sizeCorrect(proofEngineContextLayout.fields, 48)
    <3> DEFINE fs == proofEngineContextLayout.fields
               upTo == [i \in 0 .. 8 |-> CASE i = 0 -> 0 [] i = 1 -> 8 [] i = 2 -> 16 [] i = 3 -> 20
                                           [] i = 4 -> 24 [] i = 5 -> 32 [] i = 6 -> 36 [] i = 7 -> 40
                                           [] OTHER -> 48]
    <3>1. /\ Len(fs) = 8 /\ fs[1].size = 8 /\ fs[2].size = 8 /\ fs[3].size = 4 /\ fs[4].size = 4
          /\ fs[5].size = 8 /\ fs[6].size = 4 /\ fs[7].size = 4 /\ fs[8].size = 8
      BY DEF proofEngineContextLayout, MkField
    <3>2. /\ upTo \in [0 .. 8 -> Nat] /\ upTo[0] = 0 /\ upTo[1] = 8 /\ upTo[2] = 16 /\ upTo[3] = 20
          /\ upTo[4] = 24 /\ upTo[5] = 32 /\ upTo[6] = 36 /\ upTo[7] = 40 /\ upTo[8] = 48
      OBVIOUS
    <3> HIDE DEF fs, upTo
    <3>3. \A i \in 1 .. 8 : upTo[i] = upTo[i - 1] + fs[i].size
      BY <3>1, <3>2
    <3>4. sizeCorrect(fs, 48)
      BY <3>1, <3>2, <3>3 DEF sizeCorrect
    <3> QED  BY <3>4 DEF fs
  <2>4. /\ handleDataLayout.totalSize = 16 /\ proofObligationLayout.totalSize = 32
        /\ proofEngineContextLayout.totalSize = 48
    BY DEF handleDataLayout, proofObligationLayout, proofEngineContextLayout
  <2> QED  BY <2>1, <2>2, <2>3, <2>4 DEF Layouts
<1> QED  BY <1>3, <1>4, <1>5, <1>6, <1>7 DEF Layouts, verifyAllLayouts

(* "no field overlaps with another" (Layout.idr:265) is no part of the check:  *)
(* checkCABI accepts two fields that share all of their bytes, in a layout     *)
(* that MkStructLayout constructs (Layout.idr:138-145).                        *)
THEOREM CheckAcceptsOverlap ==
    ASSUME NEW name \in STRING
    PROVE  \E layout \in StructLayout : checkCABI(layout) /\ ~NoOverlap(layout.fields)
<1> DEFINE f == MkField(name, 0, 8, 8)
           layout == [fields |-> <<f, f>>, totalSize |-> 16, alignment |-> 8]
<1>1. layout \in StructLayout
  <2>1. f \in Field
    BY DEF Field, MkField
  <2>2. sizeCorrect(<<f, f>>, 16)
    <3> DEFINE upTo == [i \in 0 .. 2 |-> i * 8]
    <3>1. upTo \in [0 .. 2 -> Nat] /\ upTo[0] = 0 /\ upTo[1] = 8 /\ upTo[2] = 16
      OBVIOUS
    <3>2. Len(<<f, f>>) = 2 /\ \A i \in 1 .. 2 : <<f, f>>[i].size = 8
      BY DEF MkField
    <3>3. \A i \in 1 .. 2 : upTo[i] = upTo[i - 1] + 8
      OBVIOUS
    <3> HIDE DEF upTo, f
    <3> QED  BY <3>1, <3>2, <3>3 DEF sizeCorrect
  <2>3. Divides(8, 16)
    <3>1. 16 = 2 * 8
      OBVIOUS
    <3> QED  BY <3>1 DEF Divides
  <2> HIDE DEF f
  <2>4. <<f, f>> \in Seq(Field)
    BY <2>1
  <2> QED  BY <2>2, <2>3, <2>4 DEF StructLayout
<1>2. decDivides(8, 0)
  <2>1. 0 \div 8 = 0
    OBVIOUS
  <2> QED  BY <2>1 DEF decDivides
<1>3. checkCABI(layout)
  BY <1>2 DEF checkCABI, decFieldsAligned, MkField
<1>4. ~NoOverlap(layout.fields)
  <2>1. 1 \in DOMAIN layout.fields /\ 2 \in DOMAIN layout.fields
    OBVIOUS
  <2> QED  BY <2>1 DEF NoOverlap, MkField
<1> QED  BY <1>1, <1>3, <1>4

(* calcStructSize never asks for too little (Layout.idr:149-154): what it      *)
(* computes is a multiple of the struct's alignment and reaches past the end   *)
(* of the last field, although its second fold picks the size of the second    *)
(* field for that of the last.                                                 *)
THEOREM CalcStructSizeSuffices ==
    ASSUME NEW fs \in Seq(Field), fs # <<>>, NEW align \in Nat \ {0},
           fs[Len(fs)].alignment # 0
    PROVE  LET last == fs[Len(fs)]
           IN  /\ Divides(align, calcStructSize(fs, align))
               /\ calcStructSize(fs, align) >= last.offset + last.size
<1> DEFINE last == fs[Len(fs)]
           end  == last.offset + last.size
<1>1. Len(fs) \in Nat \ {0} /\ last \in Field /\ fs[1] \in Field
  OBVIOUS
<1>2. end \in Nat /\ last.alignment \in Nat \ {0} /\ last.offset \in Nat /\ last.size \in Nat
  BY <1>1 DEF Field
<1>3. LastOffset(fs) + LastSize(fs) \in Nat /\ LastOffset(fs) + LastSize(fs) >= end
  <2>1. CASE Len(fs) = 1
    BY <1>1, <1>2, <2>1 DEF LastOffset, LastSize
  <2>2. CASE Len(fs) # 1
    <3>1. fs[2].size \in Nat
      <4>1. fs[2] \in Field
        <5> HIDE DEF last, end
        <5>1. Len(fs) \in Nat \ {0}
          BY <1>1
        <5>2. \A n \in Nat \ {0} : n # 1 => 2 \in 1 .. n
          OBVIOUS
        <5>3. 2 \in 1 .. Len(fs)
          <6> DEFINE n == Len(fs)
          <6>1. n \in Nat \ {0} /\ n # 1
            BY <2>2, <5>1
          <6> HIDE DEF n
          <6> QED  BY <5>2, <6>1 DEF n
        <5> QED  BY <5>3
      <4> QED  BY <4>1 DEF Field
    <3>2. nextFieldOffset(last) \in Nat /\ nextFieldOffset(last) >= end
      BY <1>2, AlignUpLeast, AlignUpType DEF nextFieldOffset
    <3>3. LastOffset(fs) = nextFieldOffset(last) /\ LastSize(fs) = fs[2].size
      BY <2>2 DEF LastOffset, LastSize
    <3> QED  BY <1>2, <3>1, <3>2, <3>3
  <2> QED  BY <2>1, <2>2
<1>4. calcStructSize(fs, align) = alignUp(LastOffset(fs) + LastSize(fs), align)
  BY DEF calcStructSize
<1>5. Divides(align, calcStructSize(fs, align))
  BY <1>3, <1>4, AlignUpDivides
<1>6. calcStructSize(fs, align) \in Nat /\ calcStructSize(fs, align) >= LastOffset(fs) + LastSize(fs)
  BY <1>3, <1>4, AlignUpLeast, AlignUpType
<1>7. calcStructSize(fs, align) >= end
  <2> HIDE DEF end
  <2> QED  BY <1>2, <1>3, <1>6
<1> QED  BY <1>5, <1>7

(* "Calculate total struct size including all padding" (Layout.idr:147): of    *)
(* the handle block, 16 bytes long, it makes 24.                               *)
THEOREM CalcStructSizeOfHandleData ==
    /\ handleDataLayout.totalSize = 16
    /\ calcStructSize(handleDataLayout.fields, handleDataLayout.alignment) = 24
<1> DEFINE fs == handleDataLayout.fields
<1>1. Len(fs) = 3 /\ fs # <<>> /\ fs[2].size = 4
      /\ fs[3].offset = 12 /\ fs[3].size = 4 /\ fs[3].alignment = 4
  BY DEF handleDataLayout, MkField
<1>2. LastOffset(fs) = alignUp(12 + 4, 4) /\ LastSize(fs) = 4
  BY <1>1 DEF LastOffset, LastSize, nextFieldOffset
<1>3. alignUp(16, 4) = 16 /\ alignUp(20, 8) = 24
  <2>1. 16 % 4 = 0 /\ 20 % 8 = 4
    OBVIOUS
  <2> QED  BY <2>1 DEF alignUp, paddingFor
<1>4. calcStructSize(fs, 8) = alignUp(16 + 4, 8)
  BY <1>1, <1>2, <1>3 DEF calcStructSize
<1> QED  BY <1>3, <1>4 DEF handleDataLayout

(* "Look up a field by name and return its offset within the struct"           *)
(* (Layout.idr:312): what comes first in the pair is the number of the field;  *)
(* for the generation of the handle block, at byte 8, it is 1.                 *)
THEOREM FieldOffsetIsAnIndex ==
    /\ handleDataLayout.fields[2].name = "generation" /\ handleDataLayout.fields[2].offset = 8
    /\ fieldOffset(handleDataLayout, "generation") = 1
<1> DEFINE fs == handleDataLayout.fields
           Found(idx) == /\ idx < Len(fs) /\ fs[idx + 1].name = "generation"
                         /\ \A i \in 1 .. idx : fs[i].name # "generation"
<1>1. /\ Len(fs) = 3 /\ fs[1].name = "ptr" /\ fs[2].name = "generation" /\ fs[3].name = "flags"
      /\ fs[2].offset = 8
  BY DEF handleDataLayout, MkField
<1> HIDE DEF fs
<1>2. Found(1)
  BY <1>1
<1>3. ASSUME NEW idx \in Nat, Found(idx) PROVE idx = 1
  <2>1. idx \in {0, 1, 2}
    BY <1>1, <1>3
  <2> QED  BY <1>1, <1>3, <2>1
<1>4. (CHOOSE idx \in Nat : Found(idx)) = 1
  <2> HIDE DEF Found
  <2> QED  BY <1>2, <1>3
<1> QED  BY <1>1, <1>4 DEF fieldOffset, fs

--------------------------------------------------------------------------------

(* The summary adds up, its subtraction never goes below zero, and it says     *)
(* "all proven" exactly when no obligation is left undischarged, of which an   *)
(* empty list is a case (abi/mod.rs:103-118).                                  *)
THEOREM SummaryAddsUp ==
    ASSUME NEW interfaces \in Nat, NEW functions \in Nat,
           NEW obligations \in Seq(ProofObligation)
    PROVE  LET s == from_obligations(interfaces, functions, obligations)
           IN  /\ s \in VerificationSummary
               /\ s.remaining \in Nat /\ s.discharged + s.remaining = s.total_obligations
               /\ s.all_proven <=> s.remaining = 0
               /\ s.all_proven <=> \A i \in DOMAIN obligations : obligations[i].discharged
<1> DEFINE all  == 1 .. Len(obligations)
           done == {i \in DOMAIN obligations : obligations[i].discharged}
<1>1. DOMAIN obligations = all /\ Len(obligations) \in Nat
  OBVIOUS
<1>2. IsFiniteSet(all) /\ Cardinality(all) = Len(obligations)
  BY <1>1, FS_Interval
<1>3. done \subseteq all
  BY <1>1
<1>4. /\ IsFiniteSet(done) /\ Cardinality(done) <= Cardinality(all)
      /\ Cardinality(done) = Cardinality(all) => done = all
  <2> HIDE DEF done, all
  <2> QED  BY <1>2, <1>3, FS_Subset
<1>5. Cardinality(done) \in Nat
  BY <1>4, FS_CardinalityType
<1>6. Discharged(obligations) = Cardinality(done)
  BY DEF Discharged
<1>7. done = all <=> \A i \in DOMAIN obligations : obligations[i].discharged
  BY <1>1
<1> HIDE DEF done, all
<1> DEFINE s == from_obligations(interfaces, functions, obligations)
<1>8. /\ s.total_obligations = Len(obligations) /\ s.discharged = Cardinality(done)
      /\ s.remaining = Len(obligations) - Cardinality(done)
      /\ s.all_proven = (Cardinality(done) = Len(obligations))
  BY <1>6 DEF from_obligations
<1>9. s \in VerificationSummary
  <2>1. Len(obligations) - Cardinality(done) \in Int
    BY <1>1, <1>5
  <2>2. (Cardinality(done) = Len(obligations)) \in BOOLEAN
    OBVIOUS
  <2> QED  BY <1>1, <1>5, <1>6, <2>1, <2>2 DEF from_obligations, VerificationSummary
<1>10. s.remaining \in Nat /\ s.discharged + s.remaining = s.total_obligations
  BY <1>1, <1>2, <1>4, <1>5, <1>8
<1>11. s.all_proven <=> s.remaining = 0
  <2>1. Cardinality(done) = Len(obligations) <=> Len(obligations) - Cardinality(done) = 0
    BY <1>1, <1>5
  <2> HIDE DEF s
  <2> QED  BY <1>8, <2>1, Zenon
<1>12. s.all_proven <=> done = all
  BY <1>2, <1>4, <1>8
<1> HIDE DEF s
<1> QED  BY <1>7, <1>9, <1>10, <1>11, <1>12 DEF s

================================================================================
