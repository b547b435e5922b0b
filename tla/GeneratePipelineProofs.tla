------------------------- MODULE GeneratePipelineProofs -------------------------
(***************************************************************************)
(* For any number of invocations, any manifests and any editions:          *)
(* GeneratePipeline keeps its types, a file never refers to one that was   *)
(* never written, and -- if the interfaces of each manifest have modules   *)
(* of their own -- what a run published is coherent.                       *)
(***************************************************************************)
EXTENDS GeneratePipeline, SequenceTheorems, TLAPS

ValidManifests == {m \in Manifests : Valid(m)}
Last(m) == Len(m.ifaces) + 3   \* the number of writes of a run

\* The inductive invariant, in parts that speak of one invocation r and of a
\* directory o
Working == {"open", "write", "chmod"}
RunRecord == [at : Running \cup {"idle"}, m : Manifests \cup {NoManifest},
              seen : Seq(Editions), k : Nat, alone : BOOLEAN]

TypedRun(r) ==
    /\ r \in RunRecord
    /\ r.at \in {"idle", "load"} => r.seen = <<>>
    /\ r.at \in Working \cup {"parse"} => r.m \in ValidManifests
    /\ r.at = "parse" => Len(r.seen) < Len(r.m.ifaces)
    /\ Len(r.seen) <= Len(r.m.ifaces)
    /\ r.at \in Working => r.k \in 1 .. Last(r.m)
    /\ r.at = "chmod" => r.k = Last(r.m)

TypedDir(o) ==
    /\ DOMAIN o = Files
    /\ \A f \in Files : /\ o[f].tag \in {"absent", "empty", "torn", "made"}
                        /\ o[f].tag = "made" => o[f].by \in ValidManifests

\* What r has opened so far is there
EarlierExist(r, o) ==
    r.at \in Working =>
        \A j \in 1 .. Last(r.m) :
            (j < r.k \/ (j = r.k /\ r.at # "open")) => o[Plan(r.m, r.seen)[j].file].tag # "absent"

\* What a file f that holds c refers to is there
ReferredExist(f, c, o) ==
    c.tag = "made" =>
        /\ f.kind = "ipkg"  => \A i \in DOMAIN c.by.ifaces : o[IdrFile(c.by, i)].tag # "absent"
        /\ f.kind = "build" => o[ZigFile(c.by)].tag # "absent" /\ o[IpkgFile(c.by)].tag # "absent"

IInv == /\ run \in [Procs -> RunRecord]
        /\ TypedDir(out)
        /\ \A p \in Procs : TypedRun(run[p]) /\ EarlierExist(run[p], out)
        /\ \A f \in Files : ReferredExist(f, out[f], out)

--------------------------------------------------------------------------------
(* The writes of a run: the modules, the bridge, the package, the script.     *)
(* (generate_all, codegen/mod.rs:43-57.)                                       *)
LEMMA PlanShape ==
    ASSUME NEW m \in Manifests, NEW seen
    PROVE  /\ Len(m.ifaces) \in Nat
           /\ DOMAIN m.ifaces = 1 .. Len(m.ifaces)
           /\ DOMAIN Plan(m, seen) = 1 .. Last(m)
           /\ Len(Plan(m, seen)) = Last(m)
           /\ \A j \in 1 .. Len(m.ifaces) :
                 Plan(m, seen)[j] = [file |-> IdrFile(m, j), holds |-> Made(m, <<j, seen[j]>>)]
           /\ Plan(m, seen)[Len(m.ifaces) + 1] = [file |-> ZigFile(m), holds |-> Made(m, seen)]
           /\ Plan(m, seen)[Len(m.ifaces) + 2] = [file |-> IpkgFile(m), holds |-> Made(m, <<>>)]
           /\ Plan(m, seen)[Len(m.ifaces) + 3] = [file |-> BuildFile, holds |-> Made(m, <<>>)]
<1> DEFINE n == Len(m.ifaces)
           W == IdrWrites(m, seen)
           a == [file |-> ZigFile(m),  holds |-> Made(m, seen)]
           b == [file |-> IpkgFile(m), holds |-> Made(m, <<>>)]
           c == [file |-> BuildFile,   holds |-> Made(m, <<>>)]
           S == {W[i] : i \in 1 .. n} \cup {a, b, c}
<1>1. m.ifaces \in Seq([name : STRING, source : STRING])
  BY ManifestsAssumption DEF Manifest
<1>2. n \in Nat /\ DOMAIN m.ifaces = 1 .. n
  BY <1>1, LenProperties
<1>3. W \in [1 .. n -> S]
  BY DEF IdrWrites
<1>4. W \in Seq(S) /\ Len(W) = n
  BY <1>2, <1>3
<1>5. <<a, b, c>> \in Seq(S) /\ Len(<<a, b, c>>) = 3
  OBVIOUS
<1>6. /\ <<a, b, c>>[1] = a
      /\ <<a, b, c>>[2] = b
      /\ <<a, b, c>>[3] = c
  OBVIOUS
<1>7. \A j \in 1 .. n : W[j] = [file |-> IdrFile(m, j), holds |-> Made(m, <<j, seen[j]>>)]
  BY DEF IdrWrites
<1>8. Plan(m, seen) = W \o <<a, b, c>>
  BY DEF Plan
<1> HIDE DEF W, a, b, c, S
<1>9. /\ W \o <<a, b, c>> \in Seq(S)
      /\ Len(W \o <<a, b, c>>) = n + 3
      /\ \A i \in 1 .. n + 3 : (W \o <<a, b, c>>)[i] = IF i <= n THEN W[i] ELSE <<a, b, c>>[i - n]
  BY <1>4, <1>5, ConcatProperties, Z3
<1>10. DOMAIN (W \o <<a, b, c>>) = 1 .. n + 3
  BY <1>9, LenProperties
<1>11. /\ (W \o <<a, b, c>>)[n + 1] = <<a, b, c>>[1]
       /\ (W \o <<a, b, c>>)[n + 2] = <<a, b, c>>[2]
       /\ (W \o <<a, b, c>>)[n + 3] = <<a, b, c>>[3]
  <2>1. /\ (n + 1) \in 1 .. n + 3 /\ (n + 2) \in 1 .. n + 3 /\ (n + 3) \in 1 .. n + 3
        /\ ~(n + 1 <= n) /\ ~(n + 2 <= n) /\ ~(n + 3 <= n)
        /\ n + 1 - n = 1 /\ n + 2 - n = 2 /\ n + 3 - n = 3
    BY <1>2
  <2> DEFINE all == W \o <<a, b, c>>
             last == <<a, b, c>>
  <2> HIDE DEF all, last
  <2>2. \A i \in 1 .. n + 3 : ~(i <= n) => all[i] = last[i - n]
    BY <1>9 DEF all, last
  <2> HIDE DEF n
  <2>3. all[n + 1] = last[1]
    BY <1>2, <2>1, <2>2
  <2>4. all[n + 2] = last[2]
    BY <1>2, <2>1, <2>2
  <2>5. all[n + 3] = last[3]
    BY <1>2, <2>1, <2>2
  <2> QED
    BY <2>3, <2>4, <2>5 DEF all, last
<1>12. \A i \in 1 .. n : (W \o <<a, b, c>>)[i] = W[i]
  BY <1>2, <1>9
<1> QED
  BY <1>2, <1>6, <1>7, <1>8, <1>9, <1>10, <1>11, <1>12 DEF Last, a, b, c

(* Every write goes to a file of the model, and a file's kind tells which of  *)
(* the writes it is.                                                           *)
LEMMA PlanFiles ==
    ASSUME NEW m \in ValidManifests, NEW seen, NEW j \in 1 .. Last(m)
    PROVE  /\ Plan(m, seen)[j].file \in Files
           /\ Plan(m, seen)[j].holds.tag = "made"
           /\ Plan(m, seen)[j].holds.by = m
           /\ Plan(m, seen)[j].file.kind = "ipkg"  => j = Len(m.ifaces) + 2
           /\ Plan(m, seen)[j].file.kind = "build" => j = Len(m.ifaces) + 3
<1> DEFINE n == Len(m.ifaces)
<1>1. m \in Manifests /\ Valid(m)
  BY DEF ValidManifests
<1>2. n \in Nat /\ DOMAIN m.ifaces = 1 .. n
  BY <1>1, PlanShape
<1>3. CASE j \in 1 .. n
  <2>1. Plan(m, seen)[j] = [file |-> IdrFile(m, j), holds |-> Made(m, <<j, seen[j]>>)]
    BY <1>1, <1>3, PlanShape
  <2>2. IdrFile(m, j) \in Files
    BY <1>1, <1>2, <1>3 DEF Files, IdrFiles
  <2> QED
    BY <2>1, <2>2 DEF IdrFile, Made
<1>4. CASE j = n + 1
  <2>1. Plan(m, seen)[j] = [file |-> ZigFile(m), holds |-> Made(m, seen)]
    BY <1>1, <1>4, PlanShape
  <2>2. ZigFile(m) \in Files
    BY <1>1 DEF Files
  <2> QED
    BY <2>1, <2>2 DEF ZigFile, Made
<1>5. CASE j = n + 2
  <2>1. Plan(m, seen)[j] = [file |-> IpkgFile(m), holds |-> Made(m, <<>>)]
    BY <1>1, <1>5, PlanShape
  <2>2. IpkgFile(m) \in Files
    BY <1>1 DEF Files
  <2> QED
    BY <1>5, <2>1, <2>2 DEF IpkgFile, Made
<1>6. CASE j = n + 3
  <2>1. Plan(m, seen)[j] = [file |-> BuildFile, holds |-> Made(m, <<>>)]
    BY <1>1, <1>6, PlanShape
  <2>2. BuildFile \in Files
    BY DEF Files
  <2> QED
    BY <1>6, <2>1, <2>2 DEF BuildFile, Made
<1> QED
  BY <1>2, <1>3, <1>4, <1>5, <1>6 DEF Last

(* The files a file of a valid manifest can refer to are files of the model.  *)
LEMMA ReferredAreFiles ==
    ASSUME NEW m \in ValidManifests
    PROVE  /\ \A i \in DOMAIN m.ifaces : IdrFile(m, i) \in Files
           /\ ZigFile(m) \in Files
           /\ IpkgFile(m) \in Files
  BY DEF Files, IdrFiles, ValidManifests

--------------------------------------------------------------------------------
(* A step that leaves the directory alone: only the invocations are to check.  *)
LEMMA KeepDirectory ==
    ASSUME IInv, UNCHANGED out, run' \in [Procs -> RunRecord],
           \A p \in Procs : TypedRun(run'[p]) /\ EarlierExist(run'[p], out)
    PROVE  IInv'
  BY DEF IInv

(* A step that puts something into a file: nothing that was there goes away,  *)
(* so other invocations and other files keep what they rely on.                *)
LEMMA PutFile ==
    ASSUME IInv, NEW p \in Procs, NEW f \in Files, NEW c, NEW r \in RunRecord,
           c.tag \in {"empty", "torn", "made"},
           c.tag = "made" => c.by \in ValidManifests,
           ReferredExist(f, c, out),
           out' = [out EXCEPT ![f] = c], Goto(p, r), TypedRun(r), EarlierExist(r, out')
    PROVE  IInv'
<1>1. DOMAIN out = Files
  BY DEF IInv, TypedDir
<1>2. \A g \in Files : out[g].tag # "absent" => out'[g].tag # "absent"
  BY <1>1
<1>3. TypedDir(out)'
  BY <1>1 DEF IInv, TypedDir
<1>4. /\ run' \in [Procs -> RunRecord]
      /\ run'[p] = r
      /\ \A q \in Procs \ {p} : run'[q] = run[q]
  BY DEF IInv, Goto
<1>5. ASSUME NEW q \in Procs
      PROVE  TypedRun(run'[q]) /\ EarlierExist(run'[q], out')
  <2>1. CASE q = p
    BY <1>4, <2>1
  <2>2. CASE q # p
    <3>1. run'[q] = run[q] /\ TypedRun(run[q]) /\ EarlierExist(run[q], out)
      BY <1>4, <2>2 DEF IInv
    <3>2. ASSUME run[q].at \in Working, NEW j \in 1 .. Last(run[q].m)
          PROVE  Plan(run[q].m, run[q].seen)[j].file \in Files
      BY <3>1, <3>2, PlanFiles DEF TypedRun
    <3> QED
      BY <1>2, <3>1, <3>2 DEF EarlierExist
  <2> QED
    BY <2>1, <2>2
<1>6. ASSUME NEW g \in Files
      PROVE  ReferredExist(g, out'[g], out')
  <2>1. CASE out'[g].tag # "made"
    BY <2>1 DEF ReferredExist
  <2>2. CASE out'[g].tag = "made"
    <3>1. ReferredExist(g, out'[g], out)
      BY <1>1 DEF IInv
    <3>2. out'[g].by \in ValidManifests
      BY <1>3, <2>2 DEF TypedDir
    <3> QED
      BY <1>2, <2>2, <3>1, <3>2, ReferredAreFiles DEF ReferredExist
  <2> QED
    BY <2>1, <2>2
<1> QED
  BY <1>3, <1>4, <1>5, <1>6 DEF IInv

(* The directory is untouched and one invocation moves.                        *)
LEMMA MoveOne ==
    ASSUME IInv, UNCHANGED out, NEW p \in Procs, NEW r, Goto(p, r),
           TypedRun(r), EarlierExist(r, out)
    PROVE  IInv'
<1>1. /\ run' \in [Procs -> RunRecord]
      /\ run'[p] = r
      /\ \A q \in Procs \ {p} : run'[q] = run[q]
  BY DEF IInv, Goto, TypedRun
<1>2. \A q \in Procs : TypedRun(run'[q]) /\ EarlierExist(run'[q], out)
  BY <1>1 DEF IInv
<1> QED
  BY <1>1, <1>2, KeepDirectory

\* An invocation that is not running satisfies every part of the invariant.
LEMMA IdleIsTyped == /\ Idle \in RunRecord /\ TypedRun(Idle)
                     /\ \A o : EarlierExist(Idle, o)
<1>1. <<>> \in Seq(Editions) /\ Len(<<>>) = 0
  OBVIOUS
<1>2. Idle \in RunRecord
  BY <1>1 DEF Idle, RunRecord
<1>3. Idle.at = "idle" /\ Idle.seen = <<>> /\ Idle.m.ifaces = <<>>
  BY DEF Idle, NoManifest
<1>4. TypedRun(Idle)
  BY <1>1, <1>2, <1>3 DEF TypedRun, Working
<1>5. \A o : EarlierExist(Idle, o)
  BY <1>3 DEF EarlierExist, Working
<1> QED
  BY <1>2, <1>4, <1>5

--------------------------------------------------------------------------------
\* No invocation runs yet and no file exists: nothing to refer to.
LEMMA InitEstablishesIInv == Init => IInv
<1> SUFFICES ASSUME Init PROVE IInv
  OBVIOUS
<1>1. run \in [Procs -> RunRecord] /\ \A p \in Procs : TypedRun(run[p]) /\ EarlierExist(run[p], out)
  BY IdleIsTyped DEF Init
<1>2. TypedDir(out) /\ \A f \in Files : ReferredExist(f, out[f], out)
  BY DEF Init, TypedDir, ReferredExist, Absent
<1> QED
  BY <1>1, <1>2 DEF IInv

\* Starting only clears the history flag of the others.
LEMMA StartKeepsIInv == ASSUME IInv, NEW p \in Procs, Start(p) PROVE IInv'
<1> DEFINE r == [Idle EXCEPT !.at = "load", !.alone = Active = {}]
<1>1. r \in RunRecord /\ TypedRun(r) /\ EarlierExist(r, out)
  <2>1. <<>> \in Seq(Editions) /\ Len(<<>>) = 0
    OBVIOUS
  <2>2. r.at = "load" /\ r.seen = <<>> /\ r.m.ifaces = <<>>
    BY DEF Idle, NoManifest
  <2>3. r \in RunRecord
    BY <2>1 DEF Idle, RunRecord, Running
  <2> HIDE DEF r
  <2>4. TypedRun(r)
    BY <2>1, <2>2, <2>3 DEF TypedRun, Working
  <2>5. EarlierExist(r, out)
    BY <2>2 DEF EarlierExist, Working
  <2> QED
    BY <2>3, <2>4, <2>5
<1>2. ASSUME NEW q \in Procs
      PROVE  run'[q] \in RunRecord /\ TypedRun(run'[q]) /\ EarlierExist(run'[q], out)
  <2>1. CASE q = p
    BY <1>1, <2>1 DEF Start
  <2>2. CASE q # p
    <3>1. run'[q] = run[q] \/ run'[q] = [run[q] EXCEPT !.alone = FALSE]
      BY <2>2 DEF Start
    <3>2. run[q] \in RunRecord /\ TypedRun(run[q]) /\ EarlierExist(run[q], out)
      BY DEF IInv
    <3> QED
      BY <3>1, <3>2 DEF RunRecord, TypedRun, EarlierExist
  <2> QED
    BY <2>1, <2>2
<1>3. run' \in [Procs -> RunRecord]
  BY <1>2 DEF Start
<1> QED
  BY <1>2, <1>3, KeepDirectory DEF Start

\* Only a valid manifest gets past the loader (manifest::validate), so there is
\* a source left to parse.
LEMMA LoadKeepsIInv == ASSUME IInv, NEW p \in Procs, Load(p) PROVE IInv'
<1>1. CASE Goto(p, Idle)
  BY <1>1, IdleIsTyped, MoveOne DEF Load
<1>2. ASSUME NEW m \in Manifests, Valid(m), Goto(p, [run[p] EXCEPT !.at = "parse", !.m = m])
      PROVE  IInv'
  <2> DEFINE r == [run[p] EXCEPT !.at = "parse", !.m = m]
  <2>1. run[p] \in RunRecord /\ run[p].seen = <<>>
    BY DEF IInv, TypedRun, Load
  <2>2. Len(<<>>) < Len(m.ifaces)
    <3>1. m.ifaces \in Seq([name : STRING, source : STRING]) /\ m.ifaces # <<>>
      BY <1>2, ManifestsAssumption DEF Valid, Manifest
    <3> QED
      BY <3>1
  <2>3. r \in RunRecord
    BY <2>1 DEF RunRecord, Running
  <2>4. TypedRun(r) /\ EarlierExist(r, out)
    <3>1. r.at = "parse" /\ r.m = m /\ r.seen = <<>>
      BY <2>1 DEF RunRecord
    <3>2. Len(m.ifaces) \in Nat
      BY PlanShape
    <3> QED
      BY <1>2, <2>2, <2>3, <3>1, <3>2 DEF TypedRun, EarlierExist, Working, ValidManifests
  <2> QED
    BY <1>2, <2>4, MoveOne DEF Load
<1> QED
  BY <1>1, <1>2 DEF Load

\* The last source parsed puts the run at the first write of its plan.
LEMMA ParseKeepsIInv == ASSUME IInv, NEW p \in Procs, Parse(p) PROVE IInv'
<1> DEFINE old == run[p]
           last == Len(old.seen) + 1 = Len(old.m.ifaces)
<1>1. PICK edition \in Editions :
        Goto(p, [old EXCEPT !.seen = Append(@, edition),
                            !.at = IF last THEN "open" ELSE "parse",
                            !.k = IF last THEN 1 ELSE 0])
  BY DEF Parse
<1> DEFINE r == [old EXCEPT !.seen = Append(@, edition),
                            !.at = IF last THEN "open" ELSE "parse",
                            !.k = IF last THEN 1 ELSE 0]
<1>2. /\ old \in RunRecord
      /\ old.m \in ValidManifests
      /\ Len(old.seen) < Len(old.m.ifaces)
      /\ old.seen \in Seq(Editions)
  BY DEF IInv, TypedRun, Parse, RunRecord
<1>3. Append(old.seen, edition) \in Seq(Editions) /\ Len(Append(old.seen, edition)) = Len(old.seen) + 1
  BY <1>2
<1>4. Len(old.m.ifaces) \in Nat /\ Len(old.seen) \in Nat /\ Last(old.m) = Len(old.m.ifaces) + 3
  BY <1>2, PlanShape DEF ValidManifests, Last
<1>5. /\ r.at = IF last THEN "open" ELSE "parse"
      /\ r.m = old.m
      /\ r.seen = Append(old.seen, edition)
      /\ r.k = IF last THEN 1 ELSE 0
      /\ r \in RunRecord
  BY <1>2, <1>3 DEF RunRecord, Running
<1> HIDE DEF r
<1>6. TypedRun(r)
  <2> DEFINE n == Len(old.seen)
             N == Len(old.m.ifaces)
  <2>1. n \in Nat /\ N \in Nat /\ n < N /\ Len(r.seen) = n + 1 /\ Last(r.m) = N + 3
    BY <1>2, <1>3, <1>4, <1>5
  <2>2. r.m = old.m /\ r.m \in ValidManifests /\ r \in RunRecord
    BY <1>2, <1>5
  <2>3. CASE last
    <3>1. r.at = "open" /\ r.k = 1
      BY <1>5, <2>3
    <3> HIDE DEF n, N
    <3>2. Len(r.seen) <= N /\ r.k \in 1 .. Last(r.m)
      BY <2>1, <3>1
    <3> QED  BY <2>2, <3>1, <3>2 DEF TypedRun, Working, N
  <2>4. CASE ~last
    <3>1. r.at = "parse" /\ n + 1 # N
      BY <1>5, <2>4
    <3> HIDE DEF n, N
    <3>2. Len(r.seen) <= N /\ Len(r.seen) < N
      BY <2>1, <3>1
    <3> QED  BY <2>2, <3>1, <3>2 DEF TypedRun, Working, N
  <2> QED  BY <2>3, <2>4
<1>7. EarlierExist(r, out)
  BY <1>4, <1>5 DEF EarlierExist, Working
<1>8. Goto(p, r)
  BY <1>1 DEF r
<1> QED
  BY <1>6, <1>7, <1>8, MoveOne DEF Parse

\* Truncating a file makes it exist and takes none away.
LEMMA OpenKeepsIInv == ASSUME IInv, NEW p \in Procs, Open(p) PROVE IInv'
<1> DEFINE old == run[p]
           r == [old EXCEPT !.at = "write"]
           f == Plan(old.m, old.seen)[old.k].file
<1>1. /\ old \in RunRecord /\ TypedRun(old) /\ EarlierExist(old, out)
      /\ old.at = "open" /\ old.m \in ValidManifests /\ old.k \in 1 .. Last(old.m)
  BY DEF IInv, TypedRun, Open, Working
<1>2. f \in Files /\ DOMAIN out = Files
  BY <1>1, PlanFiles DEF IInv, TypedDir
<1>3. r.at = "write" /\ r.m = old.m /\ r.seen = old.seen /\ r.k = old.k /\ r \in RunRecord
  BY <1>1 DEF RunRecord, Running
<1>4. out' = [out EXCEPT ![f] = Empty] /\ Goto(p, r)
  BY DEF Open
<1> HIDE DEF r
<1>5. TypedRun(r)
  BY <1>1, <1>3 DEF TypedRun, Working
<1>6. EarlierExist(r, out')
  <2> SUFFICES ASSUME NEW j \in 1 .. Last(old.m), j < old.k \/ j = old.k
               PROVE  out'[Plan(old.m, old.seen)[j].file].tag # "absent"
    BY <1>3 DEF EarlierExist
  <2>1. CASE j = old.k
    BY <1>2, <1>4, <2>1 DEF Empty
  <2>2. CASE j < old.k
    <3>1. out[Plan(old.m, old.seen)[j].file].tag # "absent"
      BY <1>1, <2>2 DEF EarlierExist, Working
    <3>2. Plan(old.m, old.seen)[j].file \in Files
      BY <1>1, PlanFiles
    <3> QED
      BY <1>2, <1>4, <3>1, <3>2 DEF Empty
  <2> QED
    BY <2>1, <2>2
<1>7. Empty.tag = "empty" /\ ReferredExist(f, Empty, out)
  BY DEF ReferredExist, Empty
<1> QED
  BY <1>2, <1>3, <1>4, <1>5, <1>6, <1>7, PutFile

\* A completed package or script is written after what it refers to: the order
\* of the writes in generate_all is what this step needs.
LEMMA WriteKeepsIInv == ASSUME IInv, NEW p \in Procs, Write(p) PROVE IInv'
<1> DEFINE old == run[p]
           w == Plan(old.m, old.seen)[old.k]
           end == old.k = Len(Plan(old.m, old.seen))
           r == [old EXCEPT !.at = IF end THEN "chmod" ELSE "open",
                            !.k = IF end THEN @ ELSE @ + 1]
<1>1. /\ old \in RunRecord /\ TypedRun(old) /\ EarlierExist(old, out)
      /\ old.at = "write" /\ old.m \in ValidManifests /\ old.k \in 1 .. Last(old.m)
  BY DEF IInv, TypedRun, Write, Working
<1>2. w.file \in Files /\ DOMAIN out = Files
  BY <1>1, PlanFiles DEF IInv, TypedDir
<1>3. Len(Plan(old.m, old.seen)) = Last(old.m) /\ Last(old.m) \in Nat
  <2>1. old.m \in Manifests
    BY <1>1 DEF ValidManifests
  <2>2. Len(old.m.ifaces) \in Nat
    BY <2>1, PlanShape
  <2>3. Len(Plan(old.m, old.seen)) = Last(old.m)
    BY <2>1, PlanShape
  <2> QED
    BY <2>2, <2>3 DEF Last
<1> DEFINE at == IF end THEN "chmod" ELSE "open"
           k  == IF end THEN old.k ELSE old.k + 1
<1> at \in Running /\ k \in Nat
  BY <1>1 DEF Running, RunRecord
<1> HIDE DEF end, at, k
<1>4. /\ r.at = IF end THEN "chmod" ELSE "open"
      /\ r.m = old.m
      /\ r.seen = old.seen
      /\ r.k = IF end THEN old.k ELSE old.k + 1
      /\ r \in RunRecord
  <2>1. r = [old EXCEPT !.at = at, !.k = k]
    BY DEF at, k
  <2>2. r.at = at /\ r.m = old.m /\ r.seen = old.seen /\ r.k = k /\ r \in RunRecord
    BY <1>1, <2>1 DEF RunRecord
  <2> QED
    BY <2>2 DEF at, k
<1> USE DEF end
<1>5. Goto(p, r)
  BY DEF Write
<1>6. PICK c \in {w.holds, Torn} : out' = [out EXCEPT ![w.file] = c]
  BY DEF Write
<1> HIDE DEF r
<1>7. TypedRun(r)
  BY <1>1, <1>3, <1>4 DEF TypedRun, Working
<1>8. w.holds.tag = "made" /\ w.holds.by = old.m /\ Torn.tag = "torn"
  BY <1>1, PlanFiles DEF Torn
<1>9. \A j \in 1 .. Last(old.m) :
         j <= old.k => out[Plan(old.m, old.seen)[j].file].tag # "absent"
  BY <1>1 DEF EarlierExist, Working
<1>10. EarlierExist(r, out')
  <2> SUFFICES ASSUME NEW j \in 1 .. Last(old.m), j <= old.k
               PROVE  out'[Plan(old.m, old.seen)[j].file].tag # "absent"
    BY <1>1, <1>3, <1>4 DEF EarlierExist
  <2>1. Plan(old.m, old.seen)[j].file \in Files
    BY <1>1, PlanFiles
  <2> QED
    BY <1>2, <1>6, <1>8, <1>9, <2>1
<1>11. ReferredExist(w.file, c, out)
  <2>1. CASE c = Torn
    BY <1>8, <2>1 DEF ReferredExist
  <2>2. CASE c = w.holds
    <3> DEFINE n == Len(old.m.ifaces)
    <3>1. /\ n \in Nat /\ DOMAIN old.m.ifaces = 1 .. n /\ Last(old.m) = n + 3
          /\ \A j \in 1 .. n : Plan(old.m, old.seen)[j].file = IdrFile(old.m, j)
          /\ Plan(old.m, old.seen)[n + 1].file = ZigFile(old.m)
          /\ Plan(old.m, old.seen)[n + 2].file = IpkgFile(old.m)
      <4> DEFINE P == Plan(old.m, old.seen)
      <4>1. old.m \in Manifests
        BY <1>1 DEF ValidManifests
      <4>2. n \in Nat /\ DOMAIN old.m.ifaces = 1 .. n /\ Last(old.m) = n + 3
        BY <4>1, PlanShape DEF Last
      <4>3. \A j \in 1 .. n : P[j] = [file |-> IdrFile(old.m, j), holds |-> Made(old.m, <<j, old.seen[j]>>)]
        BY <4>1, PlanShape
      <4>4. P[n + 1] = [file |-> ZigFile(old.m), holds |-> Made(old.m, old.seen)]
        BY <4>1, PlanShape
      <4>5. P[n + 2] = [file |-> IpkgFile(old.m), holds |-> Made(old.m, <<>>)]
        BY <4>1, PlanShape
      <4> HIDE DEF P, n
      <4>6. \A j \in 1 .. n : P[j].file = IdrFile(old.m, j)
        <5> TAKE j \in 1 .. n
        <5>1. P[j] = [file |-> IdrFile(old.m, j), holds |-> Made(old.m, <<j, old.seen[j]>>)]
          BY <4>3
        <5> QED
          BY <5>1
      <4>7. P[n + 1].file = ZigFile(old.m)
        BY <4>4
      <4>8. P[n + 2].file = IpkgFile(old.m)
        BY <4>5
      <4> QED
        BY <4>2, <4>6, <4>7, <4>8 DEF P
    <3>2. ASSUME w.file.kind = "ipkg", NEW i \in DOMAIN old.m.ifaces
          PROVE  out[IdrFile(old.m, i)].tag # "absent"
      <4>1. old.k = n + 2
        BY <1>1, <3>2, PlanFiles
      <4> QED
        BY <1>9, <3>1, <3>2, <4>1
    <3>3. ASSUME w.file.kind = "build"
          PROVE  out[ZigFile(old.m)].tag # "absent" /\ out[IpkgFile(old.m)].tag # "absent"
      <4>1. old.k = n + 3
        BY <1>1, <3>3, PlanFiles
      <4>2. n + 1 \in 1 .. Last(old.m) /\ n + 2 \in 1 .. Last(old.m) /\ n + 1 <= old.k /\ n + 2 <= old.k
        BY <3>1, <4>1
      <4> QED
        BY <1>9, <3>1, <4>2
    <3> QED
      BY <1>8, <2>2, <3>2, <3>3 DEF ReferredExist
  <2> QED
    BY <2>1, <2>2
<1> QED
  BY <1>1, <1>2, <1>4, <1>5, <1>6, <1>7, <1>8, <1>10, <1>11, PutFile

\* A run that fails or is killed leaves its files, at worst torn.
LEMMA FailKeepsIInv == ASSUME IInv, NEW p \in Procs, Fail(p) PROVE IInv'
<1> DEFINE f == Plan(run[p].m, run[p].seen)[run[p].k].file
<1> Goto(p, Idle)
  BY DEF Fail
<1>1. CASE UNCHANGED out
  BY <1>1, IdleIsTyped, MoveOne
<1>2. CASE run[p].at = "write" /\ out' = [out EXCEPT ![f] = Torn]
  <2>1. f \in Files
    BY <1>2, PlanFiles DEF IInv, TypedRun, Working
  <2>2. Torn.tag = "torn" /\ ReferredExist(f, Torn, out)
    BY DEF ReferredExist, Torn
  <2> QED
    BY <1>2, <2>1, <2>2, IdleIsTyped, PutFile
<1> QED
  BY <1>1, <1>2 DEF Fail

(* Every step of every invocation keeps the inductive invariant.               *)
LEMMA NextKeepsIInv == ASSUME IInv, [Next]_vars PROVE IInv'
<1>1. ASSUME NEW p \in Procs, Finish(p) PROVE IInv'
  BY <1>1, IdleIsTyped, MoveOne DEF Finish
<1>2. CASE UNCHANGED vars
  BY <1>2 DEF vars, IInv
<1> QED
  BY <1>1, <1>2, StartKeepsIInv, LoadKeepsIInv, ParseKeepsIInv, OpenKeepsIInv, WriteKeepsIInv,
     FailKeepsIInv DEF Next

(* The inductive invariant holds in every reachable state.                     *)
THEOREM InductiveInvariant == Spec => []IInv
<1>1. IInv /\ [Next]_vars => IInv'
  BY NextKeepsIInv
<1> QED
  BY <1>1, InitEstablishesIInv, PTL DEF Spec

(* Invocations and files stay in their types; a write is always one of the    *)
(* writes that the run planned.  (generate_all, codegen/mod.rs:27-58.)         *)
THEOREM TypeCorrect == Spec => []TypeOK
<1>1. IInv => TypeOK
  <2> SUFFICES ASSUME IInv PROVE TypeOK
    OBVIOUS
  <2>1. ASSUME NEW p \in Procs, run[p].at \in {"open", "write"}
        PROVE  run[p].k \in DOMAIN Plan(run[p].m, run[p].seen)
    <3>1. run[p].m \in Manifests /\ run[p].k \in 1 .. Last(run[p].m)
      BY <2>1 DEF IInv, TypedRun, Working, ValidManifests
    <3> QED
      BY <3>1, PlanShape
  <2>2. ASSUME NEW p \in Procs
        PROVE  /\ run[p].at \in Running \cup {"idle"}
               /\ run[p].m \in Manifests \cup {NoManifest}
               /\ Len(run[p].seen) <= Len(run[p].m.ifaces)
    BY DEF IInv, TypedRun, RunRecord
  <2> QED
    BY <2>1, <2>2 DEF IInv, TypedDir, TypeOK
<1> QED
  BY <1>1, InductiveInvariant, PTL

(* However runs interleave and fail, a package only lists modules that exist  *)
(* and a build script only names a package and a bridge that exist.           *)
THEOREM ReferencesResolve == Spec => []ReferencedFilesExist
<1>1. IInv => ReferencedFilesExist
  <2>1. Absent.tag = "absent"
    BY DEF Absent
  <2>2. ASSUME IInv, NEW f \in Files, out[f].tag = "made"
        PROVE  ReferredExist(f, out[f], out)
    BY <2>2 DEF IInv
  <2> QED
    BY <2>1, <2>2 DEF ReferredExist, ReferencedFilesExist, Listed, Scripted
<1> QED
  BY <1>1, InductiveInvariant, PTL

--------------------------------------------------------------------------------
\* Coherence needs that no two interfaces of a manifest have one module file: the
\* code does not see to it.
DistinctModules ==
    \A m \in ValidManifests : \A i, j \in DOMAIN m.ifaces :
        IdrFile(m, i) = IdrFile(m, j) => i = j

\* The directory o holds what was made of m and seen, in the writes up to k
Holds(o, m, seen, k) ==
    \A j \in 1 .. Last(m) : j < k => o[Plan(m, seen)[j].file] = Plan(m, seen)[j].holds

\* What r wrote, when it is alone
Wrote(r, o) ==
    /\ r.at \in {"open", "write"} => Holds(o, r.m, r.seen, r.k)
    /\ r.at = "write" => o[Plan(r.m, r.seen)[r.k].file] = Empty
    /\ r.at = "chmod" => Holds(o, r.m, r.seen, Last(r.m) + 1)

AloneIsAlone ==
    \A p \in Procs : run[p].alone => /\ run[p].at \in Running
                                    /\ \A q \in Procs \ {p} : run[q].at \notin Running
AloneWrote == \A p \in Procs : run[p].alone => Wrote(run[p], out)
PublishedHolds ==
    published.tag = "published" =>
        /\ published.m \in ValidManifests
        /\ Holds(out, published.m, published.seen, Last(published.m) + 1)
        /\ \A p \in Procs : run[p].at # "write"

CInv == IInv /\ AloneIsAlone /\ AloneWrote /\ PublishedHolds

(* Two writes of one run go to two files.                                      *)
LEMMA PlanInjective ==
    ASSUME DistinctModules, NEW m \in ValidManifests, NEW seen,
           NEW i \in 1 .. Last(m), NEW j \in 1 .. Last(m),
           Plan(m, seen)[i].file = Plan(m, seen)[j].file
    PROVE  i = j
<1> DEFINE n == Len(m.ifaces)
           P == Plan(m, seen)
<1>1. m \in Manifests
  BY DEF ValidManifests
<1>2. n \in Nat /\ DOMAIN m.ifaces = 1 .. n /\ Last(m) = n + 3
  BY <1>1, PlanShape DEF Last
<1>3. ASSUME NEW x \in 1 .. n
      PROVE  P[x].file = IdrFile(m, x) /\ P[x].file.kind = "idr"
  <2>1. P[x] = [file |-> IdrFile(m, x), holds |-> Made(m, <<x, seen[x]>>)]
    BY <1>1, PlanShape
  <2> QED
    BY <2>1 DEF IdrFile
<1>4. P[n + 1].file.kind = "zig"
  <2>1. P[n + 1] = [file |-> ZigFile(m), holds |-> Made(m, seen)]
    BY <1>1, PlanShape
  <2> QED
    BY <2>1 DEF ZigFile
<1>5. P[n + 2].file.kind = "ipkg"
  <2>1. P[n + 2] = [file |-> IpkgFile(m), holds |-> Made(m, <<>>)]
    BY <1>1, PlanShape
  <2> QED
    BY <2>1 DEF IpkgFile
<1>6. P[n + 3].file.kind = "build"
  <2>1. P[n + 3] = [file |-> BuildFile, holds |-> Made(m, <<>>)]
    BY <1>1, PlanShape
  <2> QED
    BY <2>1 DEF BuildFile
<1> HIDE DEF n, P
<1>7. P[i].file = P[j].file
  BY DEF P
<1>8. CASE i \in 1 .. n /\ j \in 1 .. n
  <2>1. IdrFile(m, i) = IdrFile(m, j)
    BY <1>3, <1>7, <1>8
  <2> QED
    BY <1>2, <1>8, <2>1 DEF DistinctModules
<1>9. /\ \A x \in 1 .. Last(m) : x \in 1 .. n \/ x = n + 1 \/ x = n + 2 \/ x = n + 3
      /\ \A x \in 1 .. n : P[x].file.kind = "idr"
  BY <1>2, <1>3
<1> QED
  BY <1>4, <1>5, <1>6, <1>7, <1>8, <1>9

(* A step of an invocation that runs: it was the only one that may be alone,  *)
(* and it stays so unless it stops.                                            *)
LEMMA OthersAreNotAlone ==
    ASSUME CInv, NEW p \in Procs, run[p].at \in Running
    PROVE  \A q \in Procs \ {p} : ~run[q].alone
  BY DEF CInv, AloneIsAlone

\* One running invocation moves: what must be shown is only about itself.
LEMMA MoveKeepsAlone ==
    ASSUME CInv, NEW p \in Procs, NEW r, Goto(p, r), run[p].at \in Running,
           r.alone => run[p].alone /\ r.at \in Running,
           r.alone => Wrote(r, out')
    PROVE  AloneIsAlone' /\ AloneWrote'
<1>1. /\ run'[p] = r
      /\ \A q \in Procs \ {p} : run'[q] = run[q]
  BY DEF CInv, IInv, Goto
<1>2. \A q \in Procs \ {p} : ~run'[q].alone
  BY <1>1, OthersAreNotAlone
<1>3. r.alone => \A q \in Procs \ {p} : run'[q].at \notin Running
  BY <1>1 DEF CInv, AloneIsAlone
<1> QED
  BY <1>1, <1>2, <1>3 DEF AloneIsAlone, AloneWrote

(* What a write puts into a file leaves what the run wrote before.            *)
LEMMA PutKeepsHolds ==
    ASSUME DistinctModules, TypedDir(out), NEW m \in ValidManifests, NEW seen,
           NEW k \in 1 .. Last(m), NEW c,
           out' = [out EXCEPT ![Plan(m, seen)[k].file] = c], Holds(out, m, seen, k)
    PROVE  Holds(out', m, seen, k)
<1> SUFFICES ASSUME NEW j \in 1 .. Last(m), j < k
             PROVE  out'[Plan(m, seen)[j].file] = Plan(m, seen)[j].holds
  BY DEF Holds
<1>1. Last(m) \in Nat
  BY PlanShape DEF Last, ValidManifests
<1>2. Plan(m, seen)[j].file # Plan(m, seen)[k].file
  BY <1>1, PlanInjective
<1>3. Plan(m, seen)[j].file \in Files
  BY PlanFiles
<1>4. out[Plan(m, seen)[j].file] = Plan(m, seen)[j].holds
  BY DEF Holds
<1> QED
  BY <1>2, <1>3, <1>4 DEF TypedDir

--------------------------------------------------------------------------------
\* Nobody is alone and nothing is published.
LEMMA InitEstablishesCInv == Init => CInv
<1> SUFFICES ASSUME Init PROVE CInv
  OBVIOUS
<1>1. \A p \in Procs : run[p].alone = FALSE
  BY DEF Init, Idle
<1>2. published.tag # "published"
  BY DEF Init, Nothing
<1> QED
  BY <1>1, <1>2, InitEstablishesIInv DEF CInv, AloneIsAlone, AloneWrote, PublishedHolds

\* The invocation that starts is alone only if it is the first; the others stop
\* being alone.
LEMMA StartKeepsCInv == ASSUME CInv, NEW p \in Procs, Start(p) PROVE CInv'
<1> DEFINE r == [Idle EXCEPT !.at = "load", !.alone = Active = {}]
<1>1. IInv'
  BY StartKeepsIInv DEF CInv
<1>2. r.at = "load" /\ r.alone = (Active = {})
  BY DEF Idle
<1>3. run'[p] = r
  BY DEF Start
<1>4. ASSUME NEW q \in Procs \ {p}
      PROVE  run'[q].at = run[q].at /\ (run'[q].alone = FALSE)
  <2>1. CASE q \in Active
    <3>1. run'[q] = [run[q] EXCEPT !.alone = FALSE] /\ run[q] \in RunRecord
      BY <2>1 DEF Start, CInv, IInv
    <3> QED
      BY <3>1 DEF RunRecord
  <2>2. CASE q \notin Active
    <3>1. run'[q] = run[q] /\ run[q] \in RunRecord
      BY <2>2 DEF Start, CInv, IInv
    <3>2. run[q].at \notin Running
      BY <2>2 DEF Active
    <3>3. ~run[q].alone
      BY <3>2 DEF CInv, AloneIsAlone
    <3> QED
      BY <3>1, <3>3 DEF RunRecord
  <2> QED
    BY <2>1, <2>2
<1>5. AloneIsAlone'
  <2>1. Active = {} => \A q \in Procs \ {p} : run'[q].at \notin Running
    BY <1>4 DEF Active
  <2>2. "load" \in Running
    BY DEF Running
  <2>3. run'[p].at \in Running /\ (run'[p].alone => Active = {})
    BY <1>2, <1>3, <2>2
  <2>4. \A q \in Procs \ {p} : ~run'[q].alone
    BY <1>4
  <2> QED
    BY <2>1, <2>3, <2>4 DEF AloneIsAlone
<1>6. AloneWrote'
  BY <1>2, <1>3, <1>4 DEF AloneWrote, Wrote
<1>7. PublishedHolds'
  <2>1. \A q \in Procs : run[q].at # "write" => run'[q].at # "write"
    BY <1>2, <1>3, <1>4
  <2> QED
    BY <2>1 DEF CInv, PublishedHolds, Start
<1> QED
  BY <1>1, <1>5, <1>6, <1>7 DEF CInv

(* Steps that touch neither the directory nor what is published.              *)
LEMMA QuietKeepsCInv ==
    ASSUME CInv, IInv', NEW p \in Procs, NEW r, Goto(p, r), run[p].at \in Running,
           UNCHANGED <<out, published>>, r.at # "write",
           r.alone => run[p].alone /\ r.at \in Running,
           r.alone => Wrote(r, out)
    PROVE  CInv'
<1>1. AloneIsAlone' /\ AloneWrote'
  BY MoveKeepsAlone
<1>2. /\ run'[p] = r
      /\ \A q \in Procs \ {p} : run'[q] = run[q]
  BY DEF CInv, IInv, Goto
<1>3. PublishedHolds'
  BY <1>2 DEF CInv, PublishedHolds
<1> QED
  BY <1>1, <1>3 DEF CInv

\* A run that ended claims nothing.
LEMMA IdleIsNotAlone == ~Idle.alone /\ Idle.at = "idle"
  BY DEF Idle

\* Loading writes nothing.
LEMMA LoadKeepsCInv == ASSUME CInv, NEW p \in Procs, Load(p) PROVE CInv'
<1>1. IInv' /\ run[p] \in RunRecord /\ run[p].at \in Running
  BY LoadKeepsIInv DEF CInv, IInv, Load, Running
<1>2. UNCHANGED <<out, published>>
  BY DEF Load
<1>3. CASE Goto(p, Idle)
  BY <1>1, <1>2, <1>3, IdleIsNotAlone, QuietKeepsCInv
<1>4. ASSUME NEW m \in Manifests, Goto(p, [run[p] EXCEPT !.at = "parse", !.m = m])
      PROVE  CInv'
  <2> DEFINE r == [run[p] EXCEPT !.at = "parse", !.m = m]
  <2>1. r.at = "parse" /\ r.alone = run[p].alone
    BY <1>1 DEF RunRecord
  <2>2. Goto(p, r)
    BY <1>4
  <2> HIDE DEF r
  <2>3. r.at \in Running /\ Wrote(r, out)
    BY <2>1 DEF Running, Wrote
  <2> QED
    BY <1>1, <1>2, <2>1, <2>2, <2>3, QuietKeepsCInv
<1> QED
  BY <1>3, <1>4 DEF Load

\* Parsing writes nothing, and the plan starts with no write behind it.
LEMMA ParseKeepsCInv == ASSUME CInv, NEW p \in Procs, Parse(p) PROVE CInv'
<1> DEFINE old == run[p]
           last == Len(old.seen) + 1 = Len(old.m.ifaces)
<1>1. PICK edition \in Editions :
        Goto(p, [old EXCEPT !.seen = Append(@, edition),
                            !.at = IF last THEN "open" ELSE "parse",
                            !.k = IF last THEN 1 ELSE 0])
  BY DEF Parse
<1> DEFINE r == [old EXCEPT !.seen = Append(@, edition),
                            !.at = IF last THEN "open" ELSE "parse",
                            !.k = IF last THEN 1 ELSE 0]
<1>2. old \in RunRecord /\ old.at \in Running /\ IInv' /\ UNCHANGED <<out, published>>
  BY ParseKeepsIInv DEF CInv, IInv, Parse, Running
<1>3. /\ r.at = IF last THEN "open" ELSE "parse"
      /\ r.k = IF last THEN 1 ELSE 0
      /\ r.alone = old.alone
  BY <1>2 DEF RunRecord
<1>4. Goto(p, r)
  BY <1>1
<1> HIDE DEF r, last
<1>5. r.at \in Running /\ r.at # "write"
  BY <1>3 DEF Running
<1>6. Wrote(r, out)
  BY <1>3 DEF Wrote, Holds
<1> QED
  BY <1>2, <1>3, <1>4, <1>5, <1>6, QuietKeepsCInv

\* Truncating the next file of the plan leaves the files before it as written.
LEMMA OpenKeepsCInv == ASSUME DistinctModules, CInv, NEW p \in Procs, Open(p) PROVE CInv'
<1> DEFINE old == run[p]
           r == [old EXCEPT !.at = "write"]
           f == Plan(old.m, old.seen)[old.k].file
<1>1. /\ old \in RunRecord /\ old.at = "open" /\ old.at \in Running
      /\ old.m \in ValidManifests /\ old.k \in 1 .. Last(old.m)
      /\ TypedDir(out)
  BY DEF CInv, IInv, TypedRun, Open, Working, Running
<1>2. f \in Files /\ DOMAIN out = Files
  BY <1>1, PlanFiles DEF TypedDir
<1>3. /\ out' = [out EXCEPT ![f] = Empty] /\ Goto(p, r)
      /\ published'.tag # "published" /\ IInv'
  BY OpenKeepsIInv DEF Open, CInv, Nothing
<1>4. r.at = "write" /\ r.m = old.m /\ r.seen = old.seen /\ r.k = old.k /\ r.alone = old.alone
  BY <1>1 DEF RunRecord
<1> HIDE DEF r
<1>5. old.alone => Wrote(r, out')
  <2> SUFFICES ASSUME old.alone PROVE Wrote(r, out')
    OBVIOUS
  <2>1. Holds(out, old.m, old.seen, old.k)
    BY <1>1 DEF CInv, AloneWrote, Wrote
  <2>2. Holds(out', old.m, old.seen, old.k)
    BY <1>1, <1>3, <2>1, PutKeepsHolds
  <2>3. out'[f] = Empty
    BY <1>2, <1>3
  <2> QED
    BY <1>4, <2>2, <2>3 DEF Wrote
<1>6. r.at \in Running
  BY <1>4 DEF Running
<1>7. AloneIsAlone' /\ AloneWrote'
  BY <1>1, <1>3, <1>4, <1>5, <1>6, MoveKeepsAlone
<1> QED
  BY <1>3, <1>7 DEF CInv, PublishedHolds

\* A run that is alone finds the file as it truncated it, so the write is whole.
LEMMA WriteKeepsCInv == ASSUME DistinctModules, CInv, NEW p \in Procs, Write(p) PROVE CInv'
<1> DEFINE old == run[p]
           w == Plan(old.m, old.seen)[old.k]
           end == old.k = Len(Plan(old.m, old.seen))
           at == IF end THEN "chmod" ELSE "open"
           k == IF end THEN old.k ELSE old.k + 1
           r == [old EXCEPT !.at = at, !.k = k]
<1>1. /\ old \in RunRecord /\ old.at = "write" /\ old.at \in Running
      /\ old.m \in ValidManifests /\ old.k \in 1 .. Last(old.m)
      /\ TypedDir(out)
  BY DEF CInv, IInv, TypedRun, Write, Working, Running
<1>2. w.file \in Files /\ DOMAIN out = Files
  BY <1>1, PlanFiles DEF TypedDir
<1>3. /\ Goto(p, r) /\ published'.tag # "published" /\ IInv'
  BY WriteKeepsIInv DEF Write, CInv, Nothing
<1>4. PICK c \in IF out[w.file] = Empty THEN {w.holds} ELSE {w.holds, Torn} :
         out' = [out EXCEPT ![w.file] = c]
  BY DEF Write
<1>5. Last(old.m) \in Nat /\ Len(Plan(old.m, old.seen)) = Last(old.m)
  <2>1. old.m \in Manifests
    BY <1>1 DEF ValidManifests
  <2>2. Len(old.m.ifaces) \in Nat
    BY <2>1, PlanShape
  <2>3. Len(Plan(old.m, old.seen)) = Last(old.m)
    BY <2>1, PlanShape
  <2> QED
    BY <2>2, <2>3 DEF Last
<1> HIDE DEF at, k
<1>6. r.at = at /\ r.m = old.m /\ r.seen = old.seen /\ r.k = k /\ r.alone = old.alone
  BY <1>1 DEF RunRecord
<1> HIDE DEF r
<1>7. old.alone => Wrote(r, out')
  <2> SUFFICES ASSUME old.alone PROVE Wrote(r, out')
    OBVIOUS
  <2>1. Holds(out, old.m, old.seen, old.k) /\ out[w.file] = Empty
    BY <1>1 DEF CInv, AloneWrote, Wrote
  <2>2. Holds(out', old.m, old.seen, old.k)
    BY <1>1, <1>4, <2>1, PutKeepsHolds
  <2>3. out'[w.file] = w.holds
    BY <1>2, <1>4, <2>1
  <2>4. Holds(out', old.m, old.seen, old.k + 1)
    BY <1>1, <1>5, <2>2, <2>3 DEF Holds
  <2> QED
    BY <1>5, <1>6, <2>4 DEF Wrote, at, k
<1>8. r.at \in Running
  BY <1>6 DEF Running, at
<1>9. AloneIsAlone' /\ AloneWrote'
  BY <1>1, <1>3, <1>6, <1>7, <1>8, MoveKeepsAlone
<1> QED
  BY <1>3, <1>9 DEF CInv, PublishedHolds

\* When a run that is alone ends, all its files hold what it wrote, and nobody
\* else is inside a write.
LEMMA FinishKeepsCInv == ASSUME CInv, NEW p \in Procs, Finish(p) PROVE CInv'
<1>1. run[p].at \in Running /\ Goto(p, Idle) /\ UNCHANGED out
  BY DEF Finish, Running
<1>2. IInv'
  BY <1>1, IdleIsTyped, MoveOne DEF CInv
<1>3. AloneIsAlone' /\ AloneWrote'
  BY <1>1, IdleIsNotAlone, MoveKeepsAlone
<1>4. /\ run'[p] = Idle
      /\ \A q \in Procs \ {p} : run'[q] = run[q]
  BY <1>1 DEF CInv, IInv, Goto
<1>5. PublishedHolds'
  <2>1. CASE ~run[p].alone
    BY <1>1, <1>4, <2>1, IdleIsNotAlone DEF Finish, CInv, PublishedHolds
  <2>2. CASE run[p].alone
    <3>1. published' = [tag |-> "published", m |-> run[p].m, seen |-> run[p].seen]
      BY <2>2 DEF Finish
    <3>2. run[p].m \in ValidManifests
      BY DEF CInv, IInv, TypedRun, Finish, Working
    <3>3. Holds(out, run[p].m, run[p].seen, Last(run[p].m) + 1)
      BY <2>2 DEF CInv, AloneWrote, Wrote, Finish
    <3>4. \A q \in Procs : run'[q].at # "write"
      <4>1. \A q \in Procs \ {p} : run[q].at \notin Running
        BY <2>2 DEF CInv, AloneIsAlone
      <4> QED
        BY <1>4, <4>1, IdleIsNotAlone DEF Running
    <3> QED
      BY <1>1, <3>1, <3>2, <3>3, <3>4 DEF PublishedHolds
  <2> QED
    BY <2>1, <2>2
<1> QED
  BY <1>2, <1>3, <1>5 DEF CInv

\* A run that fails inside a write cannot coexist with a published result.
LEMMA RunFailKeepsCInv == ASSUME CInv, NEW p \in Procs, Fail(p) PROVE CInv'
<1>1. run[p].at \in Running /\ Goto(p, Idle) /\ UNCHANGED published /\ IInv'
  BY FailKeepsIInv DEF Fail, CInv
<1>2. CASE UNCHANGED out
  BY <1>1, <1>2, IdleIsNotAlone, QuietKeepsCInv
<1>3. CASE run[p].at = "write"
  <2>1. AloneIsAlone' /\ AloneWrote'
    BY <1>1, IdleIsNotAlone, MoveKeepsAlone
  <2>2. published'.tag # "published"
    BY <1>1, <1>3 DEF CInv, PublishedHolds
  <2> QED
    BY <1>1, <2>1, <2>2 DEF CInv, PublishedHolds
<1> QED
  BY <1>2, <1>3 DEF Fail

\* Every step keeps the invariant behind coherence.
LEMMA NextKeepsCInv == ASSUME DistinctModules, CInv, [Next]_vars PROVE CInv'
<1>1. CASE UNCHANGED vars
  <2>1. IInv'
    BY NextKeepsIInv DEF CInv
  <2> QED
    BY <1>1, <2>1 DEF vars, CInv, AloneIsAlone, AloneWrote, PublishedHolds
<1> QED
  BY <1>1, StartKeepsCInv, LoadKeepsCInv, ParseKeepsCInv, OpenKeepsCInv, WriteKeepsCInv,
     FinishKeepsCInv, RunFailKeepsCInv DEF Next

(* If the interfaces of every valid manifest have modules of their own, what  *)
(* a run that had the directory to itself published is what is there, until   *)
(* someone writes again: whatever runs before it left, killed at any point,   *)
(* and whatever the user edited.  (generate_all, codegen/mod.rs:27-58.)       *)
THEOREM PublishedCoherent == ASSUME DistinctModules PROVE Spec => []PublishedIsCoherent
<1>1. Init => CInv
  BY InitEstablishesCInv
<1>2. CInv /\ [Next]_vars => CInv'
  BY NextKeepsCInv
<1>3. CInv => PublishedIsCoherent
  <2> SUFFICES ASSUME CInv, published.tag = "published",
                      NEW k \in DOMAIN Plan(published.m, published.seen)
               PROVE  out[Plan(published.m, published.seen)[k].file]
                      = Plan(published.m, published.seen)[k].holds
    BY DEF PublishedIsCoherent
  <2>1. published.m \in Manifests /\ Holds(out, published.m, published.seen, Last(published.m) + 1)
    BY DEF CInv, PublishedHolds, ValidManifests
  <2>2. k \in 1 .. Last(published.m)
    BY <2>1, PlanShape
  <2>3. Last(published.m) \in Nat
    BY <2>1, PlanShape DEF Last
  <2> QED
    BY <2>1, <2>2, <2>3 DEF Holds
<1> QED
  BY <1>1, <1>2, <1>3, PTL DEF Spec

(* "Each interface produces an Idris2 module" (manifest/mod.rs:7) is true of   *)
(* every manifest whose interfaces have module files of their own, and a run   *)
(* that had the directory to itself: that names collide is all that can break  *)
(* it.                                                                         *)
THEOREM ModulesOfTheirOwn == ASSUME DistinctModules PROVE Spec => []EveryInterfaceHasItsModule
<1>1. Init => CInv
  BY InitEstablishesCInv
<1>2. CInv /\ [Next]_vars => CInv'
  BY NextKeepsCInv
<1>3. CInv => EveryInterfaceHasItsModule
  <2> SUFFICES ASSUME CInv, published.tag = "published", NEW i \in DOMAIN published.m.ifaces
               PROVE  out[IdrFile(published.m, i)].of[1] = i
    BY DEF EveryInterfaceHasItsModule
  <2> DEFINE m == published.m
             seen == published.seen
  <2>1. m \in Manifests /\ Holds(out, m, seen, Last(m) + 1)
    BY DEF CInv, PublishedHolds, ValidManifests
  <2>2. /\ Last(m) = Len(m.ifaces) + 3 /\ Len(m.ifaces) \in Nat /\ i \in 1 .. Len(m.ifaces)
        /\ Plan(m, seen)[i] = [file |-> IdrFile(m, i), holds |-> Made(m, <<i, seen[i]>>)]
    BY <2>1, PlanShape DEF Last
  <2>3. i \in 1 .. Last(m) /\ i < Last(m) + 1
    BY <2>2
  <2>4. out[IdrFile(m, i)] = Made(m, <<i, seen[i]>>)
    BY <2>1, <2>2, <2>3 DEF Holds
  <2> QED
    BY <2>4 DEF Made
<1> QED
  BY <1>1, <1>2, <1>3, PTL DEF Spec
================================================================================
