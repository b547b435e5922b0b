---------------------------- MODULE GeneratePipeline ----------------------------
(***************************************************************************)
(* `idrisiser generate`: load and validate the manifest, read every        *)
(* interface source, then write the Idris2 modules, the Zig bridge, the    *)
(* .ipkg and the build script (codegen/mod.rs, lib.rs, main.rs).           *)
(*                                                                         *)
(* Several invocations may run at once on the same files, each may be      *)
(* killed between any two system calls or fail at one of them.  The user   *)
(* may save, break or remove the manifest and the sources at any moment:   *)
(* each time one of them is read it may hold anything.  fs::write is two   *)
(* steps: it truncates the file and then writes it.                        *)
(***************************************************************************)
EXTENDS Integers, Sequences

CONSTANTS
    Procs,     \* invocations of the program that may run at once
    Manifests, \* contents the user may give idrisiser.toml
    Editions,  \* what an interface source may hold: 0 if it cannot be read
    Safe,      \* name |-> name with '-' replaced by '_'
    Slashed    \* the name of an Idris2 module |-> that name with '.' replaced by '/'

\* module_prefix is an Option: <<>>, or <<p>> for the string p
Manifest == [name : STRING, prefix : Seq(STRING), ifaces : Seq([name : STRING, source : STRING])]

ASSUME EditionsAssumption  == 0 \in Editions
ASSUME ManifestsAssumption == Manifests \subseteq Manifest

VARIABLES
    out,       \* the output directory: what each file holds
    run,       \* the invocations
    published  \* history: what the last run that had the directory to itself wrote

vars == <<out, run, published>>

--------------------------------------------------------------------------------
\* Manifest: project.name, module_prefix, interfaces

\* A prefix that is there is taken as it is, the empty one too
Prefix(m) == IF m.prefix = <<>> THEN Safe[m.name] ELSE m.prefix[1]
ModuleName(m, i) == Prefix(m) \o "." \o Safe[m.ifaces[i].name]

\* manifest::validate
Valid(m) == /\ m.name # ""
            /\ m.ifaces # <<>>
            /\ \A i \in DOMAIN m.ifaces : m.ifaces[i].name # "" /\ m.ifaces[i].source # ""

\* The files a manifest asks for, by kind (its directory and suffix) and name
IdrFile(m, i)  == [kind |-> "idr", name |-> Slashed[ModuleName(m, i)]]
ZigFile(m)     == [kind |-> "zig", name |-> Safe[m.name]]
IpkgFile(m)    == [kind |-> "ipkg", name |-> Safe[m.name]]
BuildFile      == [kind |-> "build", name |-> "build.sh"]

\* What a package lists, by module names that it forms itself, and a script names
Listed(m)   == {IdrFile(m, i) : i \in DOMAIN m.ifaces}
Scripted(m) == {ZigFile(m), IpkgFile(m)}

IdrFiles == UNION {{IdrFile(m, i) : i \in DOMAIN m.ifaces} : m \in {x \in Manifests : Valid(x)}}
Files == IdrFiles
         \cup {ZigFile(m)  : m \in {x \in Manifests : Valid(x)}}
         \cup {IpkgFile(m) : m \in {x \in Manifests : Valid(x)}}
         \cup {BuildFile}

\* What a file holds: tag, the manifest it was made from and the editions of the
\* sources it was made from.  "torn" is part of a content, or parts of two.
NoManifest == [name |-> "", prefix |-> <<>>, ifaces |-> <<>>]
Absent     == [tag |-> "absent", by |-> NoManifest, of |-> <<>>]
Empty      == [tag |-> "empty", by |-> NoManifest, of |-> <<>>]
Torn       == [tag |-> "torn", by |-> NoManifest, of |-> <<>>]
Made(m, editions) == [tag |-> "made", by |-> m, of |-> editions]

\* Steps 2 to 5 of generate_all: the writes, in order.  Both the modules and the
\* bridge are made from the one parse of step 1.
IdrWrites(m, seen) ==
    [i \in 1 .. Len(m.ifaces) |-> [file |-> IdrFile(m, i), holds |-> Made(m, <<i, seen[i]>>)]]

\* (Mutant) The package is written before the modules it lists.
Plan_PackageFirst(m, seen) ==
    <<[file |-> IpkgFile(m), holds |-> Made(m, <<>>)]>> \o IdrWrites(m, seen)
    \o <<[file |-> ZigFile(m), holds |-> Made(m, seen)],
         [file |-> BuildFile, holds |-> Made(m, <<>>)]>>

Plan(m, seen) ==
    IdrWrites(m, seen)
    \o <<[file |-> ZigFile(m),  holds |-> Made(m, seen)],
         [file |-> IpkgFile(m), holds |-> Made(m, <<>>)],
         [file |-> BuildFile,   holds |-> Made(m, <<>>)]>>

--------------------------------------------------------------------------------
\* at: where the invocation is; m: the manifest it loaded; seen: the editions it
\* parsed; k: the write it is at; alone: history, no other run overlapped with it
Idle == [at |-> "idle", m |-> NoManifest, seen |-> <<>>, k |-> 0, alone |-> FALSE]

Running  == {"load", "parse", "open", "write", "chmod"}
Active   == {p \in Procs : run[p].at \in Running}
Nothing  == [tag |-> "nothing", m |-> NoManifest, seen |-> <<>>]

Init == /\ out = [f \in Files |-> Absent]
        /\ run = [p \in Procs |-> Idle]
        /\ published = Nothing

--------------------------------------------------------------------------------
Goto(p, r) == run' = [run EXCEPT ![p] = r]

\* The invocation starts; whoever else runs now is not alone any more
Start(p) ==
    /\ run[p].at \notin Running
    /\ run' = [q \in Procs |->
                 IF q = p          THEN [Idle EXCEPT !.at = "load", !.alone = Active = {}]
                 ELSE IF q \in Active THEN [run[q] EXCEPT !.alone = FALSE]
                                      ELSE run[q]]
    /\ UNCHANGED <<out, published>>

\* load_manifest and validate, then the output directories are created; a
\* manifest that is missing, cut off or invalid ends the run
Load(p) ==
    /\ run[p].at = "load"
    /\ \/ \E m \in Manifests : /\ Valid(m)
                              /\ Goto(p, [run[p] EXCEPT !.at = "parse", !.m = m])
       \/ Goto(p, Idle)
    /\ UNCHANGED <<out, published>>

\* parse_interface for the next interface: a source that cannot be read counts as
\* one that is not there
Parse(p) ==
    LET r == run[p]
        last == Len(r.seen) + 1 = Len(r.m.ifaces)
    IN  /\ r.at = "parse"
        /\ \E edition \in Editions :
              Goto(p, [r EXCEPT !.seen = Append(@, edition),
                                !.at = IF last THEN "open" ELSE "parse",
                                !.k = IF last THEN 1 ELSE 0])
        /\ UNCHANGED <<out, published>>

\* (Mutant) A file that exists is taken to be there already.
Open_KeepsExisting(p) ==
    LET r == run[p]
        f == Plan(r.m, r.seen)[r.k].file
    IN  /\ r.at = "open"
        /\ IF out[f] = Absent
           THEN /\ Goto(p, [r EXCEPT !.at = "write"])
                /\ out' = [out EXCEPT ![f] = Empty]
           ELSE /\ Goto(p, [r EXCEPT !.k = @ + 1,
                                     !.at = IF r.k = Len(Plan(r.m, r.seen)) THEN "chmod" ELSE "open"])
                /\ UNCHANGED out
        /\ published' = Nothing

\* fs::write creates or truncates the file ...
Open(p) ==
    LET r == run[p] IN
    /\ r.at = "open"
    /\ Goto(p, [r EXCEPT !.at = "write"])
    /\ out' = [out EXCEPT ![Plan(r.m, r.seen)[r.k].file] = Empty]
    /\ published' = Nothing

\* (Mutant) The loop over the writes goes one too far.
Write_OneMore(p) ==
    LET r == run[p]
        w == Plan(r.m, r.seen)[r.k]
    IN  /\ r.at = "write"
        /\ out' = [out EXCEPT ![w.file] = w.holds]
        /\ Goto(p, [r EXCEPT !.at = IF r.k > Len(Plan(r.m, r.seen)) THEN "chmod" ELSE "open",
                             !.k = @ + 1])
        /\ published' = Nothing

\* ... and writes it.  If another run wrote it since it was truncated, what stays
\* of the two contents depends on their lengths.
Write(p) ==
    LET r == run[p]
        w == Plan(r.m, r.seen)[r.k]
    IN  /\ r.at = "write"
        /\ \E c \in IF out[w.file] = Empty THEN {w.holds} ELSE {w.holds, Torn} :
              out' = [out EXCEPT ![w.file] = c]
        /\ Goto(p, [r EXCEPT !.at = IF r.k = Len(Plan(r.m, r.seen)) THEN "chmod" ELSE "open",
                             !.k = IF r.k = Len(Plan(r.m, r.seen)) THEN @ ELSE @ + 1])
        /\ published' = Nothing

\* set_permissions on the build script ends the run
Finish(p) ==
    /\ run[p].at = "chmod"
    /\ Goto(p, Idle)
    /\ published' = IF run[p].alone
                    THEN [tag |-> "published", m |-> run[p].m, seen |-> run[p].seen]
                    ELSE published
    /\ UNCHANGED out

\* A system call fails and the run ends with an error, or the run is killed: in
\* both cases whatever it wrote so far stays, perhaps with part of a file.
Fail(p) ==
    LET r == run[p] IN
    /\ r.at \in Running
    /\ Goto(p, Idle)
    /\ \/ UNCHANGED out
       \/ r.at = "write" /\ out' = [out EXCEPT ![Plan(r.m, r.seen)[r.k].file] = Torn]
    /\ UNCHANGED published

Next == \E p \in Procs : \/ Start(p) \/ Load(p) \/ Parse(p) \/ Open(p) \/ Write(p)
                       \/ Finish(p) \/ Fail(p)

Spec == Init /\ [][Next]_vars

--------------------------------------------------------------------------------
TypeOK ==
    /\ DOMAIN out = Files
    /\ \A f \in Files : out[f].tag \in {"absent", "empty", "torn", "made"}
    /\ \A p \in Procs :
          /\ run[p].at \in Running \cup {"idle"}
          /\ run[p].m \in Manifests \cup {NoManifest}
          /\ Len(run[p].seen) <= Len(run[p].m.ifaces)
          /\ run[p].at \in {"open", "write"} => run[p].k \in DOMAIN Plan(run[p].m, run[p].seen)

(* After a run that had the directory to itself reports success, and until     *)
(* anyone writes there again, every file holds what this run made of its       *)
(* manifest and of the one edition of each source it parsed -- the bridge and  *)
(* the modules the same edition -- whatever earlier runs, killed or failed at  *)
(* any point or interleaved with each other, had left there, and whatever the  *)
(* user edited meanwhile.  (generate_all, codegen/mod.rs:27-58.)               *)
PublishedIsCoherent ==
    published.tag = "published" =>
        LET plan == Plan(published.m, published.seen)
        IN  \A k \in DOMAIN plan : out[plan[k].file] = plan[k].holds

(* However runs interleave and wherever they are cut off, a complete package   *)
(* only lists modules that exist, and a complete build script only names a     *)
(* package and a bridge that exist: the code writes what is referred to first. *)
ReferencedFilesExist ==
    \A f \in Files : out[f].tag = "made" =>
        LET m == out[f].by
        IN  /\ f.kind = "ipkg"  => \A g \in Listed(m)   : out[g] # Absent
            /\ f.kind = "build" => \A g \in Scripted(m) : out[g] # Absent

(* "Each interface produces an Idris2 module" (manifest/mod.rs:7): after a     *)
(* successful run every interface of the manifest has a module of its own.     *)
EveryInterfaceHasItsModule ==
    published.tag = "published" =>
        \A i \in DOMAIN published.m.ifaces : out[IdrFile(published.m, i)].of[1] = i
================================================================================
