----------------------------- MODULE OutputPlan -----------------------------
(***************************************************************************)
(* Planning (internal/project/run.go and inputs.go): every output of the   *)
(* configuration is inspected, every entry of its packages is expanded to  *)
(* files, and the plan is refused when two of these are one file, or two   *)
(* outputs share a directory.  Other programs may change the volume        *)
(* between any two calls.                                                  *)
(*                                                                         *)
(* The planner's lists are sets here: which entry an error names and the   *)
(* order of the files are left out.                                        *)
(***************************************************************************)
EXTENDS Volume, Sequences

CONSTANTS
  Configurations,    \* [file, packages]; a package is [output, schema, queries]
  Disks,             \* volumes to plan on
  OutputNames,       \* names an output may have: Go files that a build takes
  SqlNames,          \* names ending in .sql, not in .down.sql
  Disturbances,      \* what other programs may do
  Troubled,          \* the paths they may do it to
  Links,             \* the directory links they may change
  MaxDisturbances

ASSUME ConfigurationsAssumption ==
  \A c \in Configurations :
    /\ c.file.dir # Nowhere
    /\ Len(c.packages) \in Nat \ {0} /\ DOMAIN c.packages = 1 .. Len(c.packages)
\* Schema and queries are lists with at least one entry (buildInputs).
ASSUME EntriesAssumption ==
  \A c \in Configurations : \A i \in DOMAIN c.packages : \A k \in {"schema", "queries"} :
    LET entries == c.packages[i][k] IN
    /\ Len(entries) \in Nat \ {0} /\ DOMAIN entries = 1 .. Len(entries)
    /\ \A j \in DOMAIN entries :
         /\ entries[j].is = "path" => entries[j].path \in Paths
         /\ entries[j].is = "directory" => entries[j].dir \in Directories
         /\ entries[j].is = "glob" => entries[j].dirs \subseteq Directories
\* Files have an identity, and links name a path.
Found == [kind: {"absent", "file", "folder", "device", "link"}, inode: Nat, to: Paths \cup {NoPath}]
ASSUME DisksAssumption ==
  \A d \in Disks :
    /\ d \in [sensitive: BOOLEAN, target: [Directories -> Directories \cup {Nowhere}],
               entry: [Directories -> [Names -> Found]]]
    /\ \A e \in Directories, n \in Names :
         /\ d.entry[e][n].kind = "file" => d.entry[e][n].inode # 0
         /\ d.entry[e][n].kind = "link" => d.entry[e][n].to \in Paths
ASSUME TroubledAssumption == Troubled \subseteq Paths /\ Links \subseteq Directories

VARIABLES
  config,
  phase,
  package, kind, entry,   \* where the planner is in the configuration
  directories,            \* directories of the entry still to read
  matches,                \* paths found there, still to stat
  chosen,                 \* files the entry selected, still to record
  resolving,              \* the canonical path of the output or file at hand
  configFile,             \* what the planner knows of the configuration file
  outputs, inputs,        \* ... and of outputs and inputs
  touched, disturbed      \* history: paths that others changed, and how often

place == <<package, kind, entry>>
expansion == <<directories, matches, chosen, resolving>>
records == <<configFile, outputs, inputs>>
world == <<disk, config, touched, disturbed>>
vars == <<world, phase, place, expansion, records>>

Init ==
  /\ disk \in Disks
  /\ config \in Configurations
  /\ phase = "begin"
  /\ package = 1 /\ kind = "schema" /\ entry = 1
  /\ directories = {} /\ matches = {} /\ chosen = {} /\ resolving = NoPath
  /\ configFile = Absent
  /\ outputs = <<>>
  /\ inputs = [i \in DOMAIN config.packages |-> [schema |-> {}, queries |-> {}]]
  /\ touched = {} /\ disturbed = 0

Refuse ==
  /\ phase' = "refused"
  /\ UNCHANGED <<world, place, expansion, records>>

SameFile(a, b) == a.inode # 0 /\ a.inode = b.inode
SameKey(a, b) == PortableCollisionKey(a.canonical) = PortableCollisionKey(b.canonical)
Collide(a, b) == SameKey(a, b) \/ SameFile(a, b)

Begin ==
  /\ phase = "begin"
  /\ \/ Stat(config.file).kind = "absent" /\ Refuse
     \/ /\ Stat(config.file).kind # "absent"
        /\ configFile' = [canonical |-> CanonicalExistingPath(config.file),
                          inode |-> Stat(config.file).inode]
        /\ phase' = "resolve"
        /\ UNCHANGED <<world, place, expansion, outputs, inputs>>
-----------------------------------------------------------------------------
(***************************************************************************)
(* Outputs: inspectPlannedOutput, then the comparison with the             *)
(* configuration file and the outputs before it.                           *)
(***************************************************************************)
Output == config.packages[package].output

ResolveOutput ==
  /\ phase = "resolve"
  /\ LET canonical == CanonicalPotentialPath(Output)
     IN \/ (canonical = NoPath \/ Output.name \notin OutputNames) /\ Refuse
        \/ /\ canonical # NoPath /\ Output.name \in OutputNames
           /\ resolving' = canonical
           /\ phase' = "inspect"
           /\ UNCHANGED <<world, place, directories, matches, chosen, records>>

\* Some output so far is in the way of the planned one.
InTheWay(planned) ==
  \/ Collide(planned, configFile)
  \/ \E i \in DOMAIN outputs :
        \/ Collide(planned, outputs[i])
        \/ FoldedName(planned.directory) = FoldedName(outputs[i].directory)

InspectOutput ==
  /\ phase = "inspect"
  /\ LET directory == CanonicalDirectory(Output.dir)
         found == Lstat(Output)
         planned == [path |-> Output, canonical |-> resolving, directory |-> directory,
                     inode |-> found.inode]
         refused == directory = Nowhere \/ found.kind \notin {"absent", "file"} \/ InTheWay(planned)
     IN \/ refused /\ Refuse
        \/ /\ ~refused
           /\ outputs' = Append(outputs, planned)
           /\ IF package < Len(config.packages)
              THEN package' = package + 1 /\ phase' = "resolve"
              ELSE package' = 1 /\ phase' = "entry"
           /\ resolving' = NoPath
           /\ UNCHANGED <<world, kind, entry, directories, matches, chosen, configFile, inputs>>
-----------------------------------------------------------------------------
(***************************************************************************)
(* Inputs: an entry is a path, a directory or a pattern.  A pattern may    *)
(* range over directories.                                                 *)
(***************************************************************************)
Entries == config.packages[package][kind]
Entry == Entries[entry]

OpenPath ==
  /\ phase = "entry" /\ Entry.is = "path"
  /\ \/ Stat(Entry.path).kind # "file" /\ Refuse
     \/ /\ Stat(Entry.path).kind = "file"
        /\ chosen' = {Entry.path}
        /\ phase' = "select"
        /\ UNCHANGED <<world, place, directories, matches, resolving, records>>

OpenDirectory ==
  /\ phase = "entry" /\ Entry.is = "directory"
  /\ \/ ~Exists(Entry.dir) /\ Refuse
     \/ /\ Exists(Entry.dir)
        /\ directories' = {Entry.dir}
        /\ phase' = "read"
        /\ UNCHANGED <<world, place, matches, chosen, resolving, records>>

\* A directory segment with a wildcard is matched against what is there.
OpenGlob ==
  /\ phase = "entry" /\ Entry.is = "glob"
  /\ directories' = IF Entry.wild THEN {d \in Entry.dirs : Present(d)} ELSE Entry.dirs
  /\ phase' = "read"
  /\ UNCHANGED <<world, place, matches, chosen, resolving, records>>

\* The first directory that is gone ends the pattern (a seeded fault).
ReadDirectoryStops ==
  /\ phase = "read"
  /\ \E d \in directories :
     LET wanted == IF Entry.is = "glob" THEN Entry.names ELSE SqlNames
     IN \/ ~Exists(d) /\ Entry.is = "directory" /\ Refuse
        \/ /\ Exists(d) \/ Entry.is = "glob"
           /\ directories' = IF Exists(d) THEN directories \ {d} ELSE {}
           /\ matches' = IF Exists(d) THEN matches \cup [dir: {d}, name: Listing(d) \cap wanted]
                                      ELSE matches
           /\ UNCHANGED <<world, phase, place, chosen, resolving, records>>

\* The listing of one directory.  A pattern passes over a directory that is not
\* there (a stat before the listing); a directory entry must be there.
ReadDirectory ==
  /\ phase = "read"
  /\ \E d \in directories :
     LET wanted == IF Entry.is = "glob" THEN Entry.names ELSE SqlNames
     IN \/ ~Exists(d) /\ Entry.is = "directory" /\ Refuse
        \/ /\ Exists(d) \/ Entry.is = "glob"
           /\ directories' = directories \ {d}
           /\ matches' = IF Exists(d) THEN matches \cup [dir: {d}, name: Listing(d) \cap wanted]
                                      ELSE matches
           /\ UNCHANGED <<world, phase, place, chosen, resolving, records>>

StatMatch ==
  /\ phase = "read" /\ directories = {} /\ matches # {}
  /\ LET p == CHOOSE p \in matches : TRUE
         found == Stat(p).kind
         passed == found = "folder" \/ p.name \notin SqlNames
     IN \/ (found = "absent" \/ (found = "device" /\ ~passed)) /\ Refuse
        \/ /\ found \in {"file", "folder"} \/ (found = "device" /\ passed)
           /\ matches' = matches \ {p}
           /\ chosen' = IF passed THEN chosen ELSE chosen \cup {p}
           /\ UNCHANGED <<world, phase, place, directories, resolving, records>>

EndMatches ==
  /\ phase = "read" /\ directories = {} /\ matches = {}
  /\ \/ chosen = {} /\ Refuse
     \/ /\ chosen # {}
        /\ phase' = "select"
        /\ UNCHANGED <<world, place, expansion, records>>

(***************************************************************************)
(* Each selected file is resolved and then identified; a file selected     *)
(* twice for one purpose is refused.                                       *)
(***************************************************************************)
Selected == CHOOSE p \in chosen : TRUE
Recorded == inputs[package][kind]

ResolveInput ==
  /\ phase = "select" /\ chosen # {}
  /\ LET canonical == CanonicalExistingPath(Selected)
     IN \/ canonical = NoPath /\ Refuse
        \/ /\ canonical # NoPath
           /\ resolving' = canonical
           /\ phase' = "identify"
           /\ UNCHANGED <<world, place, directories, matches, chosen, records>>

Duplicate(a, b) == a.canonical = b.canonical \/ SameFile(a, b)

IdentifyInput ==
  /\ phase = "identify"
  /\ LET found == Stat(Selected)
         item == [path |-> Selected, canonical |-> resolving, inode |-> found.inode]
         refused == found.kind = "absent" \/ \E previous \in Recorded : Duplicate(previous, item)
     IN \/ refused /\ Refuse
        \/ /\ ~refused
           /\ inputs' = [inputs EXCEPT ![package][kind] = @ \cup {item}]
           /\ chosen' = chosen \ {Selected}
           /\ resolving' = NoPath
           /\ phase' = "select"
           /\ UNCHANGED <<world, place, directories, matches, configFile, outputs>>

\* A file that another package reads as schema is refused too (a seeded fault).
OverlapAnyPackage ==
  /\ kind = "queries"
  /\ \E i \in DOMAIN inputs : \E s \in inputs[i].schema, q \in Recorded : Duplicate(s, q)

\* A file is schema or queries of a package, not both.
Overlap ==
  /\ kind = "queries"
  /\ \E s \in inputs[package].schema, q \in Recorded : Duplicate(s, q)

EndEntry ==
  /\ phase = "select" /\ chosen = {}
  /\ \/ entry = Len(Entries) /\ Overlap /\ Refuse
     \/ /\ entry < Len(Entries)
        /\ entry' = entry + 1 /\ phase' = "entry"
        /\ UNCHANGED <<world, package, kind, expansion, records>>
     \/ /\ entry = Len(Entries) /\ ~Overlap
        /\ entry' = 1
        /\ kind' = IF kind = "schema" THEN "queries" ELSE "schema"
        /\ package' = IF kind = "schema" THEN package ELSE package + 1
        /\ phase' = IF kind = "queries" /\ package = Len(config.packages) THEN "decide" ELSE "entry"
        /\ UNCHANGED <<world, expansion, records>>
-----------------------------------------------------------------------------
(***************************************************************************)
(* The last comparisons: the configuration file and the outputs against    *)
(* the inputs of all packages.                                             *)
(***************************************************************************)
InputsOf(i) == inputs[i].schema \cup inputs[i].queries
AllInputs == UNION {InputsOf(i) : i \in DOMAIN inputs}

Decide ==
  /\ phase = "decide"
  /\ phase' = IF \E f \in AllInputs :
                    Collide(configFile, f) \/ \E i \in DOMAIN outputs : Collide(outputs[i], f)
              THEN "refused" ELSE "accepted"
  /\ UNCHANGED <<world, place, expansion, records>>
-----------------------------------------------------------------------------
(***************************************************************************)
(* Other programs.                                                         *)
(***************************************************************************)
Disturb(what, paths) ==
  /\ what \in Disturbances
  /\ disturbed < MaxDisturbances
  /\ phase \notin {"accepted", "refused"}
  /\ disturbed' = disturbed + 1
  /\ touched' = touched \cup paths
  /\ UNCHANGED <<config, phase, place, expansion, records>>

RealPaths == {p \in Troubled : IsReal(p.dir)}
EntryOf(p) == disk.entry[p.dir][p.name]
With(p, e, d) == [d EXCEPT !.entry[p.dir][p.name] = e]
NewInode == 1000 + disturbed   \* no file of the disks has it

Remove == \E p \in RealPaths :
  /\ EntryOf(p).kind # "absent"
  /\ Disturb("remove", {p})
  /\ disk' = With(p, Absent, disk)

Create == \E p \in RealPaths :
  /\ EntryOf(p).kind = "absent"
  /\ Disturb("create", {p})
  /\ disk' = With(p, File(NewInode), disk)

Move == \E p, q \in RealPaths :
  /\ EntryOf(p).kind = "file" /\ EntryOf(q).kind = "absent"
  /\ Disturb("move", {p, q})
  /\ disk' = With(q, EntryOf(p), With(p, Absent, disk))

Relink == \E e \in Links, to \in Directories \cup {Nowhere} :
  /\ ~IsReal(e) /\ to \notin Links
  /\ \A d \in Directories : Same(d, e) /\ Present(d) => d = e   \* no other entry has the name
  /\ Disturb("relink", [dir: {e}, name: Names])
  /\ disk' = [disk EXCEPT !.target[e] = to]

Next ==
  \/ Begin \/ ResolveOutput \/ InspectOutput
  \/ OpenPath \/ OpenDirectory \/ OpenGlob \/ ReadDirectory \/ StatMatch \/ EndMatches
  \/ ResolveInput \/ IdentifyInput \/ EndEntry \/ Decide
  \/ Remove \/ Create \/ Move \/ Relink

Spec == Init /\ [][Next]_vars
-----------------------------------------------------------------------------
(***************************************************************************)
(* Properties.                                                             *)
(***************************************************************************)
Undisturbed == disturbed = 0
PlannedOutputs == {config.packages[i].output : i \in DOMAIN config.packages}
Opened(p) == CanonicalExistingPath(p)
OneFile(p, q) == Place(p) = Place(q) \/ SameFile(Lstat(p), Lstat(q))

\* On an undisturbed volume an accepted plan installs every output at a place
\* of its own, in a directory of its own, and none over the configuration or a
\* file that any package reads; no file is read twice for one package.  The
\* volume's own notion of place decides, not the planner's keys
\* (buildExecutionPlanWithResolver).
AcceptedIsSafe ==
  phase = "accepted" /\ Undisturbed =>
    /\ \A i, j \in DOMAIN outputs : i # j =>
          /\ ~OneFile(outputs[i].path, outputs[j].path)
          /\ DirectoryPlace(outputs[i].path.dir) # DirectoryPlace(outputs[j].path.dir)
    /\ \A o \in PlannedOutputs :
          /\ ~OneFile(o, Opened(config.file))
          /\ \A f \in AllInputs : ~OneFile(o, Opened(f.path))
    /\ \A i \in DOMAIN inputs : \A f, g \in InputsOf(i) :
          f # g => ~OneFile(Opened(f.path), Opened(g.path))

\* What an entry selects on the volume as it is.
Selects(e) ==
  LET dirs == CASE e.is = "path" -> {}
                [] e.is = "directory" -> {e.dir}
                [] OTHER -> {d \in e.dirs : e.wild => Present(d)}
      wanted == IF e.is = "glob" THEN e.names ELSE Names
  IN IF e.is = "path" THEN {e.path}
     ELSE {p \in Paths : /\ p.dir \in dirs /\ Exists(p.dir)
                         /\ p.name \in Listing(p.dir) \cap wanted \cap SqlNames
                         /\ Stat(p).kind \notin {"folder"}}

Untouched(p) ==
  \A q \in touched : ~(Folded[q.name] = Folded[p.name] /\ Folded[q.dir] \in {Folded[p.dir], Folded[Home(p.dir)]})
UntouchedFile(p) ==
  Untouched(p) /\ (Lstat(p).kind = "link" => Exists(Lstat(p).to.dir) /\ Untouched(Lstat(p).to))

\* Every file that nobody touched while the plan was made is an input of it
\* exactly if an entry selects it: a directory that appears or vanishes, or a
\* file that moves, hides no other file from the plan (filepathGlobWithOperations
\* reads the directories one after the other).
StableInputsSelected ==
  phase = "accepted" =>
    \A i \in DOMAIN inputs : \A k \in {"schema", "queries"} :
      LET entries == config.packages[i][k]
          wanted == UNION {Selects(entries[j]) : j \in DOMAIN entries}
      IN {p \in wanted : UntouchedFile(p)}
           = {f.path : f \in {g \in inputs[i][k] : Exists(g.path.dir) /\ UntouchedFile(g.path)}}

Wanted(i, k) == UNION {Selects(config.packages[i][k][j]) : j \in DOMAIN config.packages[i][k]}
WantedBy(i) == Wanted(i, "schema") \cup Wanted(i, "queries")
Alike(p, q) ==
  \/ PortableCollisionKey(CanonicalPotentialPath(p)) = PortableCollisionKey(CanonicalPotentialPath(q))
  \/ SameFile(Stat(p), Stat(q))
BadOutput(o) ==
  \/ o.name \notin OutputNames
  \/ Lstat(o).kind \notin {"absent", "file"}
  \/ CanonicalDirectory(o.dir) = Nowhere
BadEntry(e) ==
  \/ Selects(e) = {}
  \/ \E p \in Selects(e) : Stat(p).kind # "file"
  \/ e.is = "glob" /\ \E p \in Paths : /\ p.dir \in e.dirs /\ Exists(p.dir)
                                       /\ (e.wild => Present(p.dir)) /\ p.name \in Listing(p.dir) \cap e.names
                                       /\ Stat(p).kind = "absent"
SelectedTwice(i) ==
  \/ \E k \in {"schema", "queries"} : \E p, q \in Wanted(i, k) :
        p # q /\ (Opened(p) = Opened(q) \/ SameFile(Stat(p), Stat(q)))
  \/ \E p \in Wanted(i, "schema"), q \in Wanted(i, "queries") :
        Opened(p) = Opened(q) \/ SameFile(Stat(p), Stat(q))
  \/ \E k \in {"schema", "queries"} : \E a, b \in DOMAIN config.packages[i][k] :
        a # b /\ Selects(config.packages[i][k][a]) \cap Selects(config.packages[i][k][b]) # {}
Cause ==
  LET packages == config.packages
      read == UNION {WantedBy(i) : i \in DOMAIN packages}
  IN \/ Stat(config.file).kind = "absent"
     \/ \E o \in PlannedOutputs : BadOutput(o) \/ Alike(o, config.file)
     \/ \E i, j \in DOMAIN packages :
           i # j /\ Folded[CanonicalDirectory(packages[i].output.dir)]
                      = Folded[CanonicalDirectory(packages[j].output.dir)]
     \/ \E i, j \in DOMAIN packages :
           i # j /\ Alike(packages[i].output, packages[j].output)
     \/ \E i \in DOMAIN packages : \E k \in {"schema", "queries"} :
           \E j \in DOMAIN packages[i][k] : BadEntry(packages[i][k][j])
     \/ \E i \in DOMAIN packages : SelectedTwice(i)
     \/ \E p \in read : Alike(p, config.file)
     \/ \E p \in read, o \in PlannedOutputs : Alike(p, o)

\* On an undisturbed volume a plan is refused only for a reason that the
\* configuration and the volume give, whatever the order of the comparisons:
\* packages may share schema files, and read what another package reads.
RefusedForCause == phase = "refused" /\ Undisturbed => Cause
=============================================================================
