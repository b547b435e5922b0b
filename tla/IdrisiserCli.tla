------------------------------ MODULE IdrisiserCli ------------------------------
(***************************************************************************)
(* The commands of idrisiser and the files through which they depend on    *)
(* each other (main.rs, manifest/mod.rs, codegen/mod.rs): idrisiser.toml   *)
(* in the working directory, the output directories of generate, and the   *)
(* directory in which build and run look for them.  The writes of generate *)
(* are taken apart in GeneratePipeline, here they are two steps.           *)
(*                                                                         *)
(* Several commands run at once, the user edits the manifest meanwhile,    *)
(* and any command may be killed between two steps.                        *)
(***************************************************************************)
EXTENDS Sequences

CONSTANTS
    Cmds,       \* invocations of the program that may run at once
    Manifests,  \* manifests the user may save: name, and whether validate accepts it
    Template,   \* the one of them that init writes
    Outputs     \* output directories of generate, as paths: BuildDir, the default,
                \* and those the user may give with -o

VARIABLES
    toml,  \* what idrisiser.toml holds
    tree,  \* what each output directory holds
    cmd    \* the invocations

vars == <<toml, tree, cmd>>

\* Contents of the manifest and of an output directory.  "partial": a generate
\* began and has not finished; "empty": a file cut to length 0, or no TOML
NoManifest == [name |-> "", valid |-> FALSE]
Absent     == [tag |-> "absent", m |-> NoManifest]
Empty      == [tag |-> "empty", m |-> NoManifest]
Partial    == [tag |-> "partial", m |-> NoManifest]
Holds(m)   == [tag |-> "made", m |-> m]

\* codegen/mod.rs:185; a relative path is resolved against the directory of the
\* process that opens it
BuildDir           == <<"generated", "idrisiser">>
Resolve(cwd, path) == cwd \o path

Exists(dir) == \E d \in Outputs : /\ tree[d] # Absent
                                  /\ SubSeq(d, 1, Len(dir)) = dir

\* op, dir: the command and its -o; m: the manifest it loaded; edited: history,
\* someone wrote the manifest since init looked for it; ready: history, when the
\* build began generate had filled the default directory from the manifest, which
\* is valid, and nothing changed since
Idle == [op |-> "none", at |-> "idle", dir |-> BuildDir, m |-> NoManifest,
         edited |-> FALSE, ready |-> FALSE]

Ended == {"idle", "done", "failed", "no_script", "no_binary"}

Init == /\ toml = Absent
        /\ tree = [d \in Outputs |-> Absent]
        /\ cmd = [c \in Cmds |-> Idle]

--------------------------------------------------------------------------------
\* Changes to the manifest and the directories, and what the histories note of them
Goto(c, at) == cmd' = [cmd EXCEPT ![c].at = at]

\* Command c (or no command) writes the manifest: x
WriteToml(x, moved) ==
    /\ toml' = x
    /\ cmd' = [d \in Cmds |-> [moved[d] EXCEPT !.edited = TRUE, !.ready = FALSE]]
    /\ UNCHANGED tree

WriteTree(dir, x, moved) ==
    /\ tree' = [tree EXCEPT ![dir] = x]
    /\ cmd' = [d \in Cmds |-> [moved[d] EXCEPT !.ready = FALSE]]
    /\ UNCHANGED toml

Look(c, at) == Goto(c, at) /\ UNCHANGED <<toml, tree>>

\* The user saves, breaks or removes the manifest
Edit == \E x \in {Holds(m) : m \in Manifests} \cup {Empty, Absent} : WriteToml(x, cmd)

Start(c) ==
    /\ cmd[c].at \in Ended
    /\ \E op \in {"init", "validate", "generate", "build", "run", "info"}, dir \in Outputs :
          cmd' = [cmd EXCEPT ![c] =
                    [Idle EXCEPT !.op = op, !.dir = dir,
                                 !.at = IF op = "init" THEN "exists" ELSE "load",
                                 !.ready = /\ op = "build"
                                           /\ toml.m.valid
                                           /\ tree[BuildDir] = Holds(toml.m)]]
    /\ UNCHANGED <<toml, tree>>

--------------------------------------------------------------------------------
\* init_manifest: look, then write, and fs::write truncates first
InitExists(c) ==
    /\ cmd[c].at = "exists"
    /\ cmd' = [cmd EXCEPT ![c].at = IF toml = Absent THEN "create" ELSE "failed",
                          ![c].edited = FALSE]
    /\ UNCHANGED <<toml, tree>>

InitCreate(c) ==
    /\ cmd[c].at = "create"
    /\ WriteToml(Empty, [cmd EXCEPT ![c].at = "write"])

InitWrite(c) ==
    /\ cmd[c].at = "write"
    /\ WriteToml(Holds(Template), [cmd EXCEPT ![c].at = "done"])

\* load_manifest, and validate where main calls it: build, run and info do not;
\* OTHER is run
Load(c) ==
    LET m == toml.m IN
    /\ cmd[c].at = "load"
    /\ cmd' = [cmd EXCEPT ![c].m = m, ![c].at =
                 CASE toml.tag # "made"                                        -> "failed"
                   [] cmd[c].op \in {"validate", "generate"} /\ ~m.valid       -> "failed"
                   [] cmd[c].op \in {"validate", "info"}                       -> "done"
                   [] cmd[c].op = "generate"                                   -> "begin"
                   [] cmd[c].op = "build"                                      -> "idris2"
                   [] OTHER                                                    -> "exec"]
    /\ UNCHANGED <<toml, tree>>

\* generate_all creates the directories, and writes the build script last
GenerateBegin(c) ==
    /\ cmd[c].at = "begin"
    /\ WriteTree(cmd[c].dir, Partial, [cmd EXCEPT ![c].at = "finish"])

GenerateFinish(c) ==
    /\ cmd[c].at = "finish"
    /\ WriteTree(cmd[c].dir, Holds(cmd[c].m), [cmd EXCEPT ![c].at = "done"])

\* build: idris2 --version answers
BuildCheck(c) == cmd[c].at = "idris2" /\ Look(c, "spawn")

\* bash is given the path of the script as seen from the working directory of
\* build, and is started in build_dir.  The script itself compiles the package of
\* that name in the directory it is started in, and may find fault with it.
BuildSpawn(c) ==
    LET script == Resolve(BuildDir, BuildDir) IN
    /\ cmd[c].at = "spawn"
    /\ IF ~Exists(BuildDir) \/ script \notin Outputs \/ ~Exists(script)
       THEN Look(c, "no_script")
       ELSE \E at \in {"done", "failed"} : Look(c, at)

\* run: no step of a build makes generated/idrisiser/build/{name}_verified, since
\* the package names no executable and the link step is a comment in the script, but
\* the user may have put one there.  It is called, and may exit with any code.
Run(c) ==
    /\ cmd[c].at = "exec"
    /\ \E at \in {"no_binary", "done", "failed"} : Look(c, at)

\* A system call fails, or the command is killed
Fail(c) == cmd[c].at \notin Ended /\ Look(c, "failed")

Next == \/ Edit
        \/ \E c \in Cmds : \/ Start(c)
                           \/ InitExists(c) \/ InitCreate(c) \/ InitWrite(c)
                           \/ Load(c) \/ GenerateBegin(c) \/ GenerateFinish(c)
                           \/ BuildCheck(c) \/ BuildSpawn(c) \/ Run(c) \/ Fail(c)

Spec == Init /\ [][Next]_vars

--------------------------------------------------------------------------------
(* A manifest that was there when init looked for it is never touched; init    *)
(* only overwrites what someone saved after that (manifest/mod.rs:203-247).    *)
InitSparesManifest ==
    [][\A c \in Cmds : InitCreate(c) => toml = Absent \/ cmd[c].edited]_vars

(* "Build the generated artifacts" (main.rs:49, codegen/mod.rs:170), "Build    *)
(* native artifacts" (README.adoc:126): a build that begins after generate has *)
(* finished, in its default directory, for the valid manifest that is there,   *)
(* and with nothing changed since, finds the build script.                     *)
BuildFindsTheScript ==
    \A c \in Cmds : cmd[c].ready => cmd[c].at # "no_script"

================================================================================
