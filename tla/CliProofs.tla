------------------------------- MODULE CliProofs -------------------------------
(***************************************************************************)
(* init and the manifest, for any commands, manifests and directories.     *)
(***************************************************************************)
EXTENDS IdrisiserCli, TLAPS

Invocation == [op : {"none", "init", "validate", "generate", "build", "run", "info"},
               at : Ended \cup {"exists", "create", "write", "load", "begin", "finish",
                                "idris2", "spawn", "exec"},
               dir : Outputs, m : Manifests \cup {NoManifest},
               edited : BOOLEAN, ready : BOOLEAN]

\* What an init is about to overwrite came after it looked
LookedFirst == \A c \in Cmds : cmd[c].at = "create" => toml = Absent \/ cmd[c].edited

CInv == /\ cmd \in [Cmds -> Invocation]
        /\ toml.m \in Manifests \cup {NoManifest}
        /\ LookedFirst

\* What a command does to its own record, and how the histories follow
LEMMA WriteTomlKeeps ==
    ASSUME NEW x, x.m \in Manifests \cup {NoManifest},
           NEW moved \in [Cmds -> Invocation], WriteToml(x, moved)
    PROVE  CInv'
<1>1. cmd' \in [Cmds -> Invocation] /\ \A d \in Cmds : cmd'[d].edited
  BY DEF WriteToml, Invocation
<1>2. toml'.m \in Manifests \cup {NoManifest}
  BY DEF WriteToml
<1> QED  BY <1>1, <1>2 DEF CInv, LookedFirst

LEMMA WriteTreeKeeps ==
    ASSUME CInv, NEW dir, NEW x, NEW c \in Cmds, NEW at \in Ended \cup {"finish"},
           WriteTree(dir, x, [cmd EXCEPT ![c].at = at])
    PROVE  CInv'
<1>1. cmd \in [Cmds -> Invocation]
  BY DEF CInv
<1>2. cmd' \in [Cmds -> Invocation]
  <2>1. [cmd EXCEPT ![c].at = at] \in [Cmds -> Invocation]
    BY <1>1 DEF Invocation, Ended
  <2>2. ASSUME NEW moved \in [Cmds -> Invocation],
               cmd' = [d \in Cmds |-> [moved[d] EXCEPT !.ready = FALSE]]
        PROVE  cmd' \in [Cmds -> Invocation]
    BY <2>2 DEF Invocation
  <2> QED  BY <2>1, <2>2 DEF WriteTree
<1>3. \A d \in Cmds : /\ cmd'[d].edited = cmd[d].edited
                      /\ cmd'[d].at = "create" => cmd[d].at = "create"
  BY <1>1 DEF WriteTree, Invocation, Ended
<1> QED  BY <1>2, <1>3 DEF CInv, LookedFirst, WriteTree

\* Steps that leave the manifest and the directories alone
LEMMA MoveKeeps ==
    ASSUME CInv, NEW c \in Cmds, NEW r \in Invocation, r.at # "create" \/ toml = Absent,
           cmd' = [cmd EXCEPT ![c] = r], UNCHANGED toml
    PROVE  CInv'
<1>1. cmd \in [Cmds -> Invocation]
  BY DEF CInv
<1>2. cmd' \in [Cmds -> Invocation]
  BY <1>1
<1>3. \A d \in Cmds : cmd'[d] = IF d = c THEN r ELSE cmd[d]
  BY <1>1
<1> QED  BY <1>2, <1>3 DEF CInv, LookedFirst

LEMMA LookKeeps ==
    ASSUME CInv, NEW c \in Cmds, NEW at \in Ended \cup {"spawn"}, Look(c, at)
    PROVE  CInv'
<1>1. cmd[c] \in Invocation
  BY DEF CInv
<1> DEFINE r == [cmd[c] EXCEPT !.at = at]
<1>2. r \in Invocation /\ r.at # "create"
  BY <1>1 DEF Invocation, Ended
<1>3. cmd' = [cmd EXCEPT ![c] = r] /\ UNCHANGED toml
  BY DEF Look, Goto
<1> HIDE DEF r
<1> QED  BY <1>2, <1>3, MoveKeeps

\* A command as Start makes it
Begun(op, dir, at, ready) == [Idle EXCEPT !.op = op, !.dir = dir, !.at = at, !.ready = ready]
Ops == {"init", "validate", "generate", "build", "run", "info"}

LEMMA StartMakes ==
    ASSUME NEW c \in Cmds, Start(c)
    PROVE  \E op \in Ops, dir \in Outputs, at \in {"exists", "load"}, ready \in BOOLEAN :
              cmd' = [cmd EXCEPT ![c] = Begun(op, dir, at, ready)]
<1>1. PICK op \in Ops, dir \in Outputs :
         cmd' = [cmd EXCEPT ![c] =
                   [Idle EXCEPT !.op = op, !.dir = dir,
                                !.at = IF op = "init" THEN "exists" ELSE "load",
                                !.ready = op = "build" /\ toml.m.valid /\ tree[BuildDir] = Holds(toml.m)]]
  BY Zenon DEF Start, Ops
<1> DEFINE at == IF op = "init" THEN "exists" ELSE "load"
           ready == op = "build" /\ toml.m.valid /\ tree[BuildDir] = Holds(toml.m)
<1>2. at \in {"exists", "load"}
  OBVIOUS
<1>3. ready \in BOOLEAN
  BY Zenon
<1>4. cmd' = [cmd EXCEPT ![c] = Begun(op, dir, at, ready)]
  BY <1>1, Zenon DEF Begun
<1> HIDE DEF at, ready
<1> QED  BY <1>2, <1>3, <1>4

LEMMA CInvStep ==
    ASSUME Template \in Manifests, BuildDir \in Outputs, CInv, [Next]_vars
    PROVE  CInv'
<1>0. cmd \in [Cmds -> Invocation] /\ toml.m \in Manifests \cup {NoManifest}
  BY DEF CInv
<1>1. ASSUME Edit PROVE CInv'
  <2>1. PICK x \in {Holds(m) : m \in Manifests} \cup {Empty, Absent} : WriteToml(x, cmd)
    BY <1>1 DEF Edit
  <2>2. x.m \in Manifests \cup {NoManifest}
    BY DEF Holds, Empty, Absent
  <2> QED  BY <1>0, <2>1, <2>2, WriteTomlKeeps
<1>2. ASSUME NEW c \in Cmds, Start(c) PROVE CInv'
  <2>1. PICK op \in Ops, dir \in Outputs, at \in {"exists", "load"}, ready \in BOOLEAN :
              cmd' = [cmd EXCEPT ![c] = Begun(op, dir, at, ready)]
    BY <1>2, StartMakes
  <2>2. Begun(op, dir, at, ready) \in Invocation /\ Begun(op, dir, at, ready).at # "create"
    BY DEF Begun, Ops, Idle, Invocation, Ended
  <2>3. UNCHANGED toml
    BY <1>2 DEF Start
  <2> QED  BY <2>1, <2>2, <2>3, MoveKeeps
<1>3. ASSUME NEW c \in Cmds, InitExists(c) PROVE CInv'
  <2> DEFINE r == [cmd[c] EXCEPT !.at = IF toml = Absent THEN "create" ELSE "failed", !.edited = FALSE]
  <2>1. r \in Invocation /\ (r.at # "create" \/ toml = Absent)
    BY <1>0 DEF Invocation, Ended
  <2>2. cmd' = [cmd EXCEPT ![c] = r] /\ UNCHANGED toml
    BY <1>0, <1>3 DEF InitExists
  <2> HIDE DEF r
  <2> QED  BY <2>1, <2>2, MoveKeeps
<1>4. ASSUME NEW c \in Cmds, InitCreate(c) PROVE CInv'
  <2>1. [cmd EXCEPT ![c].at = "write"] \in [Cmds -> Invocation]
    BY <1>0 DEF Invocation
  <2> QED  BY <1>4, <2>1, WriteTomlKeeps DEF InitCreate, Empty
<1>5. ASSUME NEW c \in Cmds, InitWrite(c) PROVE CInv'
  <2>1. [cmd EXCEPT ![c].at = "done"] \in [Cmds -> Invocation]
    BY <1>0 DEF Invocation, Ended
  <2> QED  BY <1>5, <2>1, WriteTomlKeeps DEF InitWrite, Holds
<1>6. ASSUME NEW c \in Cmds, Load(c) PROVE CInv'
  <2>1. PICK at \in Ended \cup {"begin", "idris2", "exec"} :
              cmd' = [cmd EXCEPT ![c].m = toml.m, ![c].at = at]
    BY <1>0, <1>6 DEF Load, Ended, Invocation
  <2> DEFINE r == [cmd[c] EXCEPT !.m = toml.m, !.at = at]
  <2>2. r \in Invocation /\ r.at # "create"
    BY <1>0 DEF Invocation, Ended
  <2>3. cmd' = [cmd EXCEPT ![c] = r] /\ UNCHANGED toml
    BY <1>0, <1>6, <2>1 DEF Load
  <2> HIDE DEF r
  <2> QED  BY <2>2, <2>3, MoveKeeps
<1>7. ASSUME NEW c \in Cmds, GenerateBegin(c) PROVE CInv'
  BY <1>7, WriteTreeKeeps DEF GenerateBegin
<1>8. ASSUME NEW c \in Cmds, GenerateFinish(c) PROVE CInv'
  BY <1>8, WriteTreeKeeps DEF GenerateFinish, Ended
<1>9. ASSUME NEW c \in Cmds, BuildCheck(c) \/ BuildSpawn(c) \/ Run(c) \/ Fail(c) PROVE CInv'
  <2>1. PICK at \in Ended \cup {"spawn"} : Look(c, at)
    BY <1>9 DEF BuildCheck, BuildSpawn, Run, Fail, Ended
  <2> QED  BY <2>1, LookKeeps
<1>10. CASE UNCHANGED vars
  BY <1>10 DEF vars, CInv, LookedFirst
<1> QED  BY <1>1, <1>2, <1>3, <1>4, <1>5, <1>6, <1>7, <1>8, <1>9, <1>10 DEF Next

(* A manifest that was there when init looked is never touched, however        *)
(* commands, edits and crashes interleave: what init overwrites was saved      *)
(* after it had looked (manifest/mod.rs:203-247).                              *)
THEOREM InitSpares ==
    ASSUME Template \in Manifests, BuildDir \in Outputs
    PROVE  Spec => InitSparesManifest
<1>1. Init => CInv
  BY DEF Init, CInv, LookedFirst, Invocation, Idle, Ended, Absent
<1>2. CInv /\ [Next]_vars => CInv'
  BY CInvStep
<1>3. CInv /\ [Next]_vars
      => [\A c \in Cmds : InitCreate(c) => toml = Absent \/ cmd[c].edited]_vars
  BY DEF CInv, LookedFirst, InitCreate
<1> QED  BY <1>1, <1>2, <1>3, PTL DEF Spec, InitSparesManifest

--------------------------------------------------------------------------------
\* A generate that has begun does so with a valid manifest, the one it loaded, and
\* so what a finished one left is made of a valid manifest.
AtWork(r)  == r.at \in {"begin", "finish"}
VInv == /\ CInv
        /\ \A c \in Cmds : AtWork(cmd[c]) => cmd[c].m.valid
        /\ tree \in [Outputs -> [tag : {"absent", "partial", "made"}, m : Manifests \cup {NoManifest}]]
        /\ \A d \in Outputs : tree[d].tag = "made" => tree[d].m.valid

\* Commands keep their manifest and do not begin to work
LEMMA KeepValid ==
    ASSUME VInv, CInv', UNCHANGED tree,
           \A c \in Cmds : AtWork(cmd'[c]) => AtWork(cmd[c]) /\ cmd'[c].m = cmd[c].m
    PROVE  VInv'
  BY DEF VInv

LEMMA MoveValid ==
    ASSUME VInv, CInv', UNCHANGED tree, NEW c \in Cmds, NEW r, cmd' = [cmd EXCEPT ![c] = r],
           AtWork(r) => r.m.valid
    PROVE  VInv'
<1>1. cmd \in [Cmds -> Invocation]
  BY DEF VInv, CInv
<1>2. \A d \in Cmds : cmd'[d] = IF d = c THEN r ELSE cmd[d]
  BY <1>1
<1> QED  BY <1>2 DEF VInv

\* Whoever writes the manifest, no command's copy of it changes.
LEMMA TomlValid ==
    ASSUME VInv, CInv', NEW x, NEW moved \in [Cmds -> Invocation], WriteToml(x, moved),
           \A c \in Cmds : AtWork(moved[c]) => AtWork(cmd[c]) /\ moved[c].m = cmd[c].m
    PROVE  VInv'
<1>1. \A c \in Cmds : cmd'[c].at = moved[c].at /\ cmd'[c].m = moved[c].m
  BY DEF WriteToml, Invocation
<1> QED  BY <1>1, KeepValid DEF WriteToml, AtWork

LEMMA TreeValid ==
    ASSUME VInv, CInv', NEW c \in Cmds, AtWork(cmd[c]), NEW at \in {"finish", "done"},
           NEW x \in {Partial, Holds(cmd[c].m)},
           WriteTree(cmd[c].dir, x, [cmd EXCEPT ![c].at = at])
    PROVE  VInv'
<1>1. cmd \in [Cmds -> Invocation] /\ cmd[c].m.valid /\ cmd[c].m \in Manifests \cup {NoManifest}
  BY DEF VInv, CInv, Invocation
<1>2. \A d \in Cmds : /\ cmd'[d].m = cmd[d].m
                      /\ cmd'[d].at = IF d = c THEN at ELSE cmd[d].at
  <2> DEFINE moved == [cmd EXCEPT ![c].at = at]
  <2>1. \A d \in Cmds : cmd'[d] = [moved[d] EXCEPT !.ready = FALSE]
    BY DEF WriteTree
  <2>2. \A d \in Cmds : moved[d] = IF d = c THEN [cmd[c] EXCEPT !.at = at] ELSE cmd[d]
    BY <1>1
  <2>3. \A d \in Cmds : moved[d].m = cmd[d].m /\ moved[d].at = IF d = c THEN at ELSE cmd[d].at
    BY <1>1, <2>2 DEF Invocation
  <2>4. \A d \in Cmds : cmd'[d].m = moved[d].m /\ cmd'[d].at = moved[d].at
    <3>1. \A d \in Cmds :
             DOMAIN moved[d] = DOMAIN cmd[d] /\ DOMAIN cmd[d] = {"op", "at", "dir", "m", "edited", "ready"}
      BY <1>1, <2>2 DEF Invocation
    <3> HIDE DEF moved
    <3> QED  BY <2>1, <3>1
  <2> HIDE DEF moved
  <2> QED  BY <2>3, <2>4
<1>3. \A d \in Cmds : AtWork(cmd'[d]) => cmd'[d].m.valid
  BY <1>1, <1>2 DEF VInv, AtWork
<1>4. /\ x \in [tag : {"absent", "partial", "made"}, m : Manifests \cup {NoManifest}]
      /\ x.tag = "made" => x.m.valid
  BY <1>1 DEF Partial, Holds
<1>5. tree' = [tree EXCEPT ![cmd[c].dir] = x]
  BY DEF WriteTree
<1> HIDE DEF AtWork
<1> QED  BY <1>3, <1>4, <1>5 DEF VInv

LEMMA VInvStep ==
    ASSUME Template \in Manifests, BuildDir \in Outputs, VInv, [Next]_vars
    PROVE  VInv'
<1>0. CInv' /\ CInv /\ cmd \in [Cmds -> Invocation]
  BY CInvStep DEF VInv, CInv
<1>1. ASSUME Edit PROVE VInv'
  BY <1>0, <1>1, TomlValid DEF Edit
<1>2. ASSUME NEW c \in Cmds, Start(c) PROVE VInv'
  <2>1. PICK op \in Ops, dir \in Outputs, at \in {"exists", "load"}, ready \in BOOLEAN :
              cmd' = [cmd EXCEPT ![c] = Begun(op, dir, at, ready)]
    BY <1>2, StartMakes
  <2>2. ~AtWork(Begun(op, dir, at, ready))
    BY DEF Begun, Idle, AtWork
  <2>3. UNCHANGED tree
    BY <1>2 DEF Start
  <2> QED  BY <1>0, <2>1, <2>2, <2>3, MoveValid
<1>3. ASSUME NEW c \in Cmds, InitExists(c) PROVE VInv'
  <2> DEFINE r == [cmd[c] EXCEPT !.at = IF toml = Absent THEN "create" ELSE "failed", !.edited = FALSE]
  <2>1. cmd' = [cmd EXCEPT ![c] = r] /\ UNCHANGED tree
    BY <1>0, <1>3 DEF InitExists
  <2>2. ~AtWork(r)
    BY <1>0 DEF AtWork, Invocation
  <2> HIDE DEF r
  <2> QED  BY <1>0, <2>1, <2>2, MoveValid
<1>4. ASSUME NEW c \in Cmds, NEW x, NEW at \in {"write", "done"}, WriteToml(x, [cmd EXCEPT ![c].at = at])
      PROVE  VInv'
  <2> DEFINE moved == [cmd EXCEPT ![c].at = at]
  <2>1. moved \in [Cmds -> Invocation]
    BY <1>0 DEF Invocation, Ended
  <2>2. \A d \in Cmds : AtWork(moved[d]) => AtWork(cmd[d]) /\ moved[d].m = cmd[d].m
    <3>1. \A d \in Cmds : moved[d] = IF d = c THEN [cmd[c] EXCEPT !.at = at] ELSE cmd[d]
      BY <1>0
    <3> HIDE DEF moved
    <3> QED  BY <1>0, <3>1 DEF AtWork, Invocation
  <2> HIDE DEF moved
  <2> QED  BY <1>0, <1>4, <2>1, <2>2, TomlValid DEF moved
<1>5. ASSUME NEW c \in Cmds, Load(c) PROVE VInv'
  <2>1. PICK at \in Ended \cup {"begin", "idris2", "exec"} :
              /\ cmd' = [cmd EXCEPT ![c].m = toml.m, ![c].at = at]
              /\ at = "begin" => toml.m.valid
    BY <1>0, <1>5 DEF Load, Ended, Invocation
  <2> DEFINE r == [cmd[c] EXCEPT !.m = toml.m, !.at = at]
  <2>2. r.at = at /\ r.m = toml.m
    BY <1>0 DEF Invocation
  <2>3. cmd' = [cmd EXCEPT ![c] = r] /\ UNCHANGED tree
    BY <1>0, <1>5, <2>1 DEF Load
  <2> HIDE DEF r
  <2>4. AtWork(r) => r.m.valid
    BY <2>1, <2>2 DEF AtWork, Ended
  <2> QED  BY <1>0, <2>3, <2>4, MoveValid
<1>6. ASSUME NEW c \in Cmds, GenerateBegin(c) PROVE VInv'
  BY <1>0, <1>6, TreeValid DEF GenerateBegin, AtWork
<1>7. ASSUME NEW c \in Cmds, GenerateFinish(c) PROVE VInv'
  BY <1>0, <1>7, TreeValid DEF GenerateFinish, AtWork
<1>8. ASSUME NEW c \in Cmds, BuildCheck(c) \/ BuildSpawn(c) \/ Run(c) \/ Fail(c) PROVE VInv'
  <2>1. PICK at \in Ended \cup {"spawn"} : Look(c, at)
    BY <1>8 DEF BuildCheck, BuildSpawn, Run, Fail, Ended
  <2> DEFINE r == [cmd[c] EXCEPT !.at = at]
  <2>2. cmd' = [cmd EXCEPT ![c] = r] /\ UNCHANGED tree
    BY <2>1 DEF Look, Goto
  <2>3. ~AtWork(r)
    BY <1>0 DEF AtWork, Invocation, Ended
  <2> HIDE DEF r
  <2> QED  BY <1>0, <2>2, <2>3, MoveValid
<1>9. CASE UNCHANGED vars
  BY <1>0, <1>9 DEF vars, VInv
<1>10. ASSUME NEW c \in Cmds, InitCreate(c) \/ InitWrite(c) PROVE VInv'
  BY <1>4, <1>10 DEF InitCreate, InitWrite
<1> QED  BY <1>1, <1>2, <1>3, <1>5, <1>6, <1>7, <1>8, <1>9, <1>10 DEF Next

(* Whatever the user saves while commands run, and although build and run do   *)
(* not validate (main.rs:93-100): a directory that generate has finished was   *)
(* made of a manifest that validate had accepted, the one that generate loaded *)
(* (main.rs:86-91).                                                            *)
OutputsAreValid == \A d \in Outputs : tree[d].tag = "made" => tree[d].m.valid

THEOREM OutputsValid ==
    ASSUME Template \in Manifests, BuildDir \in Outputs
    PROVE  Spec => []OutputsAreValid
<1>1. Init => VInv
  <2>1. Init => CInv
    BY DEF Init, CInv, LookedFirst, Invocation, Idle, Ended, Absent
  <2> QED  BY <2>1 DEF Init, VInv, AtWork, Idle, Absent
<1>2. VInv /\ [Next]_vars => VInv'
  BY VInvStep
<1>3. VInv => OutputsAreValid
  BY DEF VInv, OutputsAreValid
<1> QED  BY <1>1, <1>2, <1>3, PTL DEF Spec

================================================================================
