---------------------------- MODULE OutputCommit ----------------------------
(***************************************************************************)
(* The write phase of chgen (internal/project/run.go): the plan inspects   *)
(* the outputs, the contents are generated in memory, every output is      *)
(* staged as a synced temporary file in its directory, and only then the   *)
(* temporary files are renamed over the outputs, in plan order.            *)
(*                                                                         *)
(* Several runs may be active on the same outputs.  Between any two system *)
(* calls another program may edit, delete or link an output or point an    *)
(* output's parent link to another directory; any call may fail, a run may *)
(* be killed, and the machine may lose power.                              *)
(*                                                                         *)
(* An output path is <<i, l>>: position i of the plan, and the directory l *)
(* that the path's parent leads to.  Contents are abstract: what run r     *)
(* generates for any output is r.                                          *)
(***************************************************************************)
EXTENDS Naturals

CONSTANTS
  Runs,            \* invocations of chgen
  N,               \* number of files in the plan
  Capture,         \* the position of the contract capture file, 0 for none
  Modes,           \* permission modes
  DefaultMode,     \* 0666 after the umask: what O_CREATE gives
  CaptureMode,     \* the 0600 that serverSnapshot.finish plans
  Faults,          \* the calls that can fail, and "crash", "power"
  Interference,    \* what other programs may do
  MaxInterference  \* how often (bounds the model)

ASSUME ConstantsAssumption ==
  /\ N \in Nat \ {0}
  /\ Capture \in 0..N
  /\ {DefaultMode, CaptureMode} \subseteq Modes
  /\ Faults \subseteq {"mkdir", "create", "fill", "sync", "lstat", "rename",
                       "remove", "crash", "power"}
  /\ Interference \subseteq {"edit", "delete", "link", "retarget"}
  /\ MaxInterference \in Nat
  /\ Runs \cap {"nothing", "old", "edited", "partial"} = {}

VARIABLES
  out,       \* out[i][l]: the file at output path i inside directory l
  parent,    \* parent[i]: where the parent of output path i leads
  pc,        \* pc[r]: the call run r makes next
  idx,       \* idx[r]: the position in the plan run r works on
  plan,      \* plan[r][i]: what run r recorded of output i (plannedPackage)
  temp,      \* temp[r][i]: the temporary file run r made for output i
  stage,     \* stage[r][i]: entry i of run r's slice of staged outputs
  result,    \* result[r]: what run r will return
  budget,    \* interference still allowed
  moved,     \* history: moved[r], outputs whose parent moved after r checked it
  solo       \* history: solo[r], nobody else acted while r was running

vars == <<out, parent, pc, idx, plan, temp, stage, result, budget, moved, solo>>
history == <<budget, moved, solo>>

Outputs == 1..N
Places == {"planned", "elsewhere"}
Foreign == {"nothing", "old", "edited"}

Node == [kind: {"absent", "file", "link"}, content: Foreign \cup {"partial"} \cup Runs,
         mode: Modes, synced: BOOLEAN]
Absent == [kind |-> "absent", content |-> "nothing", mode |-> DefaultMode, synced |-> TRUE]
Link == [Absent EXCEPT !.kind = "link"]
File(c, m, s) == [kind |-> "file", content |-> c, mode |-> m, synced |-> s]

Temp == [node: Node, at: Places]
NoTemp == [node |-> Absent, at |-> "planned"]
Planned == [dir: Places, exists: BOOLEAN, seen: Modes, mode: Modes]
NotPlanned == [dir |-> "planned", exists |-> FALSE, seen |-> DefaultMode,
               mode |-> DefaultMode]

Returned == {"done", "crashed"}
Steps == {"idle", "inspect", "generate", "mkdir", "check", "create", "fill", "sync",
          "discard", "lstat", "rename", "cleanup"} \cup Returned

TypeOK ==
  /\ out \in [Outputs -> [Places -> Node]]
  /\ parent \in [Outputs -> Places \cup {"missing"}]
  /\ pc \in [Runs -> Steps]
  /\ idx \in [Runs -> Outputs]
  /\ plan \in [Runs -> [Outputs -> Planned]]
  /\ temp \in [Runs -> [Outputs -> Temp]]
  /\ stage \in [Runs -> [Outputs -> {"none", "temp", "renamed"}]]
  /\ result \in [Runs -> {"none", "ok", "error"}]
  /\ budget \in 0..MaxInterference
  /\ moved \in [Runs -> SUBSET Outputs]
  /\ solo \in [Runs -> BOOLEAN]

\* An output is absent or an old regular file; its directory may be missing.
Init ==
  /\ \E old \in [Outputs -> {Absent} \cup {File("old", m, TRUE) : m \in Modes}] :
       /\ out = [i \in Outputs |->
                   [l \in Places |-> IF l = "planned" THEN old[i]
                                     ELSE File("old", DefaultMode, TRUE)]]
       /\ parent \in [Outputs -> {"planned", "missing"}]
       /\ \A i \in Outputs : old[i] # Absent => parent[i] = "planned"
  /\ pc = [r \in Runs |-> "idle"]
  /\ idx = [r \in Runs |-> 1]
  /\ plan = [r \in Runs |-> [i \in Outputs |-> NotPlanned]]
  /\ temp = [r \in Runs |-> [i \in Outputs |-> NoTemp]]
  /\ stage = [r \in Runs |-> [i \in Outputs |-> "none"]]
  /\ result = [r \in Runs |-> "none"]
  /\ budget = MaxInterference
  /\ moved = [r \in Runs |-> {}]
  /\ solo = [r \in Runs |-> TRUE]
-----------------------------------------------------------------------------
(***************************************************************************)
(* Helpers.                                                                *)
(***************************************************************************)

\* canonicalPotentialPath of the parent of output i; a missing directory is
\* the one that MkdirAll would create.
Resolve(i) == IF parent[i] = "elsewhere" THEN "elsewhere" ELSE "planned"

Goto(r, step, i) ==
  /\ pc' = [pc EXCEPT ![r] = step]
  /\ idx' = [idx EXCEPT ![r] = i]

\* An error return that forgets the deferred cleanup (a seeded fault).
RefuseNoCleanup(r) ==
  /\ Goto(r, "done", 1)
  /\ result' = [result EXCEPT ![r] = "error"]

\* An error return: the deferred cleanup runs over the staged entries.
Refuse(r) ==
  /\ Goto(r, "cleanup", 1)
  /\ result' = [result EXCEPT ![r] = "error"]

At(r, step) == pc[r] = step
Fails(call) == call \in Faults

\* Does the temporary path of run r for output i still name its file?
TempReachable(r, i) ==
  temp[r][i].node.kind = "file" /\ temp[r][i].at = Resolve(i)
-----------------------------------------------------------------------------
(***************************************************************************)
(* Planning: inspectPlannedOutput for each output, then generation.        *)
(***************************************************************************)

Start(r) ==
  /\ At(r, "idle")
  /\ Goto(r, "inspect", 1)
  /\ UNCHANGED <<out, parent, plan, temp, stage, result>>

\* The plan forgets the file's own mode (a seeded fault).
PlannedModeForgotten(i, node) == CaptureMode

\* The mode planned for a file: its own for a generated output, a fixed one
\* for the capture file.  Both are used only when the file already exists.
PlannedMode(i, node) ==
  IF i = Capture THEN CaptureMode
  ELSE IF node.kind = "file" THEN node.mode ELSE DefaultMode

Inspect(r) ==
  LET i == idx[r]
      node == out[i][Resolve(i)]
  IN /\ At(r, "inspect")
     /\ node.kind # "link"
     /\ plan' = [plan EXCEPT ![r][i] =
          [dir |-> Resolve(i), exists |-> node.kind = "file",
           seen |-> IF node.kind = "file" THEN node.mode ELSE DefaultMode,
           mode |-> PlannedMode(i, node)]]
     /\ IF i < N THEN Goto(r, "inspect", i + 1) ELSE Goto(r, "generate", 1)
     /\ UNCHANGED <<out, parent, temp, stage, result>>

\* A linked output, a collision, a bad input or a generation error: the run
\* returns before it has touched any file.
PlanningFails(r) ==
  /\ pc[r] \in {"inspect", "generate"}
  /\ Goto(r, "done", 1)
  /\ result' = [result EXCEPT ![r] = "error"]
  /\ UNCHANGED <<out, parent, plan, temp, stage>>

Generate(r) ==
  /\ At(r, "generate")
  /\ Goto(r, "mkdir", 1)
  /\ UNCHANGED <<out, parent, plan, temp, stage, result>>
-----------------------------------------------------------------------------
(***************************************************************************)
(* Staging: commitExecutionPlanWithOperations, first loop.                 *)
(***************************************************************************)

MakeDirectory(r) ==
  LET i == idx[r] IN
  /\ At(r, "mkdir")
  /\ parent' = [parent EXCEPT ![i] = Resolve(i)]
  /\ Goto(r, "check", i)
  /\ UNCHANGED <<out, plan, temp, stage, result>>

\* The directory is not resolved again (a seeded fault).
CheckDirectorySkipped(r) ==
  /\ At(r, "check")
  /\ Goto(r, "create", idx[r])
  /\ UNCHANGED <<out, parent, plan, temp, stage, result>>

\* The directory must still be the one the plan resolved.
CheckDirectory(r) ==
  LET i == idx[r] IN
  /\ At(r, "check")
  /\ IF Resolve(i) = plan[r][i].dir
     THEN Goto(r, "create", i) /\ UNCHANGED result
     ELSE Refuse(r)
  /\ UNCHANGED <<out, parent, plan, temp, stage>>

CreateTemp(r) ==
  LET i == idx[r] IN
  /\ At(r, "create")
  /\ temp' = [temp EXCEPT ![r][i] =
       [node |-> File("partial", DefaultMode, FALSE), at |-> Resolve(i)]]
  /\ Goto(r, "fill", i)
  /\ UNCHANGED <<out, parent, plan, stage, result>>

\* Chmod, only when the output existed at planning, and the whole Write.
FillTemp(r) ==
  LET i == idx[r] IN
  /\ At(r, "fill")
  /\ temp' = [temp EXCEPT ![r][i].node =
       File(r, IF plan[r][i].exists THEN plan[r][i].mode ELSE @.mode, FALSE)]
  /\ Goto(r, "sync", i)
  /\ UNCHANGED <<out, parent, plan, stage, result>>

\* Close without Sync (a seeded fault).
SyncTempSkipped(r) ==
  LET i == idx[r] IN
  /\ At(r, "sync")
  /\ stage' = [stage EXCEPT ![r][i] = "temp"]
  /\ IF i < N THEN Goto(r, "mkdir", i + 1) ELSE Goto(r, "lstat", 1)
  /\ UNCHANGED <<out, parent, plan, temp, result>>

\* Each output renamed as soon as it is staged (a seeded fault).
SyncTempEager(r) ==
  LET i == idx[r] IN
  /\ At(r, "sync")
  /\ out' = [out EXCEPT ![i][Resolve(i)] = [temp[r][i].node EXCEPT !.synced = TRUE]]
  /\ temp' = [temp EXCEPT ![r][i] = NoTemp]
  /\ stage' = [stage EXCEPT ![r][i] = "renamed"]
  /\ IF i < N THEN Goto(r, "mkdir", i + 1) ELSE Goto(r, "cleanup", 1)
  /\ result' = IF i < N THEN result ELSE [result EXCEPT ![r] = "ok"]
  /\ UNCHANGED <<parent, plan>>

\* Sync and Close; the temporary path joins the staged outputs, and when the
\* last output is staged the replacement loop begins.
SyncTemp(r) ==
  LET i == idx[r] IN
  /\ At(r, "sync")
  /\ temp' = [temp EXCEPT ![r][i].node = [@ EXCEPT !.synced = TRUE]]
  /\ stage' = [stage EXCEPT ![r][i] = "temp"]
  /\ IF i < N THEN Goto(r, "mkdir", i + 1) ELSE Goto(r, "lstat", 1)
  /\ UNCHANGED <<out, parent, plan, result>>

\* MkdirAll or the creation fails: nothing of this output is left.
StagingFailsEarly(r) ==
  /\ \/ At(r, "mkdir") /\ Fails("mkdir")
     \/ At(r, "create") /\ Fails("create")
  /\ Refuse(r)
  /\ UNCHANGED <<out, parent, plan, temp, stage>>

\* A failed write is taken for success (a seeded fault).
StagingFailsUnnoticed(r) ==
  LET i == idx[r] IN
  /\ At(r, "fill") /\ Fails("fill")
  /\ Goto(r, "sync", i)
  /\ UNCHANGED <<out, parent, plan, temp, stage, result>>

\* Chmod, Write, Sync or Close fails after any part of the work was done;
\* "partial" stands for content that cannot be relied on.
StagingFailsLate(r) ==
  LET i == idx[r] IN
  /\ \/ At(r, "fill") /\ Fails("fill")
     \/ At(r, "sync") /\ Fails("sync")
  /\ \E m \in {temp[r][i].node.mode, plan[r][i].mode} :
       temp' = [temp EXCEPT ![r][i].node = File("partial", m, FALSE)]
  /\ Goto(r, "discard", i)
  /\ UNCHANGED <<out, parent, plan, stage, result>>

\* stageOutput's own deferred removal; its error is ignored.
Discard(r) ==
  LET i == idx[r] IN
  /\ At(r, "discard")
  /\ \/ TempReachable(r, i) /\ temp' = [temp EXCEPT ![r][i] = NoTemp]
     \/ ~TempReachable(r, i) /\ UNCHANGED temp
     \/ Fails("remove") /\ UNCHANGED temp
  /\ Refuse(r)
  /\ UNCHANGED <<out, parent, plan, stage>>
-----------------------------------------------------------------------------
(***************************************************************************)
(* Replacement: the second loop, and the deferred cleanup.                 *)
(***************************************************************************)

\* refuseOutputLink: an output that has become a link stops the run.
CheckLink(r) ==
  LET i == idx[r] IN
  /\ At(r, "lstat")
  /\ \/ /\ out[i][Resolve(i)].kind # "link"
        /\ Goto(r, "rename", i) /\ UNCHANGED result
     \/ /\ out[i][Resolve(i)].kind = "link" \/ Fails("lstat")
        /\ Refuse(r)
  /\ UNCHANGED <<out, parent, plan, temp, stage>>

\* The replacement loop ends one output early (a seeded fault).
RenameStopsEarly(r) ==
  LET i == idx[r] IN
  /\ At(r, "rename")
  /\ TempReachable(r, i)
  /\ out' = [out EXCEPT ![i][Resolve(i)] = temp[r][i].node]
  /\ temp' = [temp EXCEPT ![r][i] = NoTemp]
  /\ stage' = [stage EXCEPT ![r][i] = "renamed"]
  /\ IF i + 1 < N
     THEN Goto(r, "lstat", i + 1) /\ UNCHANGED result
     ELSE Goto(r, "cleanup", 1) /\ result' = [result EXCEPT ![r] = "ok"]
  /\ UNCHANGED <<parent, plan>>

\* Both paths are resolved now: the temporary file moves to wherever the
\* output path leads, unless its own path no longer leads to it.
Rename(r) ==
  LET i == idx[r] IN
  /\ At(r, "rename")
  /\ TempReachable(r, i)
  /\ out' = [out EXCEPT ![i][Resolve(i)] = temp[r][i].node]
  /\ temp' = [temp EXCEPT ![r][i] = NoTemp]
  /\ stage' = [stage EXCEPT ![r][i] = "renamed"]
  /\ IF i < N
     THEN Goto(r, "lstat", i + 1) /\ UNCHANGED result
     ELSE Goto(r, "cleanup", 1) /\ result' = [result EXCEPT ![r] = "ok"]
  /\ UNCHANGED <<parent, plan>>

\* A failed rename is tried again without end (a seeded fault).
RenameFailsRetried(r) ==
  /\ At(r, "rename")
  /\ ~TempReachable(r, idx[r]) \/ Fails("rename")
  /\ Goto(r, "lstat", idx[r])
  /\ UNCHANGED <<out, parent, plan, temp, stage, result>>

RenameFails(r) ==
  /\ At(r, "rename")
  /\ ~TempReachable(r, idx[r]) \/ Fails("rename")
  /\ Refuse(r)
  /\ UNCHANGED <<out, parent, plan, temp, stage>>

\* The cleanup loop runs one entry too far (a seeded fault).
CleanupOverrun(r) ==
  LET i == idx[r] IN
  /\ At(r, "cleanup")
  /\ IF stage[r][i] = "temp" /\ TempReachable(r, i)
     THEN temp' = [temp EXCEPT ![r][i] = NoTemp] ELSE UNCHANGED temp
  /\ IF i <= N THEN Goto(r, "cleanup", i + 1) ELSE Goto(r, "done", 1)
  /\ UNCHANGED <<out, parent, plan, stage, result>>

\* One entry of the deferred cleanup: a staged temporary file that was not
\* renamed is removed; a removal error is ignored.
Cleanup(r) ==
  LET i == idx[r] IN
  /\ At(r, "cleanup")
  /\ \/ /\ stage[r][i] = "temp" /\ TempReachable(r, i)
        /\ temp' = [temp EXCEPT ![r][i] = NoTemp]
     \/ /\ stage[r][i] # "temp" \/ ~TempReachable(r, i) \/ Fails("remove")
        /\ UNCHANGED temp
  /\ IF i < N THEN Goto(r, "cleanup", i + 1) ELSE Goto(r, "done", 1)
  /\ UNCHANGED <<out, parent, plan, stage, result>>
-----------------------------------------------------------------------------
(***************************************************************************)
(* The world around the runs.                                              *)
(***************************************************************************)

Active(r) == pc[r] \notin Returned \cup {"idle"}

\* The process is killed: no deferred call runs.
Crash(r) ==
  /\ Fails("crash")
  /\ Active(r)
  /\ Goto(r, "crashed", 1)
  /\ UNCHANGED <<out, parent, plan, temp, stage, result>>

Damaged(node) == IF node.synced THEN node ELSE [node EXCEPT !.content = "partial"]

\* Power is lost: every active run dies and data that was not synced is gone.
PowerLoss ==
  /\ Fails("power")
  /\ \E r \in Runs : Active(r)
  /\ pc' = [r \in Runs |-> IF Active(r) THEN "crashed" ELSE pc[r]]
  /\ idx' = [r \in Runs |-> IF Active(r) THEN 1 ELSE idx[r]]
  /\ temp' = [r \in Runs |-> [i \in Outputs |->
                [temp[r][i] EXCEPT !.node = Damaged(@)]]]
  /\ out' = [i \in Outputs |-> [l \in Places |-> Damaged(out[i][l])]]
  /\ UNCHANGED <<parent, plan, stage, result>>

\* Another program changes what an output path names.
Intrude(i) ==
  /\ parent[i] # "missing"
  /\ \E node \in (IF "edit" \in Interference
                  THEN {File("edited", out[i][Resolve(i)].mode, TRUE)} ELSE {})
              \cup (IF "delete" \in Interference THEN {Absent} ELSE {})
              \cup (IF "link" \in Interference THEN {Link} ELSE {}) :
       out' = [out EXCEPT ![i][Resolve(i)] = node]
  /\ UNCHANGED <<parent, pc, idx, plan, temp, stage, result, moved>>

\* Has run r checked the directory of output i (or gone past that check)?
Checked(r, i) ==
  \/ stage[r][i] # "none"
  \/ idx[r] = i /\ pc[r] \in {"create", "fill", "sync", "discard"}
  \/ pc[r] \in {"cleanup", "done", "crashed"}

\* Another program points the parent link of output i to another directory.
Retarget(i) ==
  /\ "retarget" \in Interference
  /\ parent[i] # "missing"
  /\ parent' = [parent EXCEPT ![i] = IF @ = "planned" THEN "elsewhere" ELSE "planned"]
  /\ moved' = [r \in Runs |-> IF Checked(r, i) THEN moved[r] \cup {i} ELSE moved[r]]
  /\ UNCHANGED <<out, pc, idx, plan, temp, stage, result>>
-----------------------------------------------------------------------------
(***************************************************************************)
(* The specification.                                                      *)
(***************************************************************************)

Plan(r) == Start(r) \/ Inspect(r) \/ PlanningFails(r) \/ Generate(r)

Stage(r) ==
  \/ MakeDirectory(r) \/ CheckDirectory(r) \/ CreateTemp(r)
  \/ FillTemp(r) \/ SyncTemp(r)
  \/ StagingFailsEarly(r) \/ StagingFailsLate(r) \/ Discard(r)

Install(r) == CheckLink(r) \/ Rename(r) \/ RenameFails(r) \/ Cleanup(r)

\* A step of run r, which every other active run then has company from.
RunStep(r) ==
  /\ Plan(r) \/ Stage(r) \/ Install(r) \/ Crash(r)
  /\ solo' = [q \in Runs |->
       IF q = r THEN (IF At(r, "idle") THEN \A o \in Runs \ {r} : ~Active(o) ELSE solo[q])
       ELSE solo[q] /\ ~Active(q)]
  /\ UNCHANGED <<budget, moved>>

Disturb ==
  /\ budget > 0
  /\ budget' = budget - 1
  /\ \E i \in Outputs : Intrude(i) \/ Retarget(i)
  /\ solo' = [q \in Runs |-> solo[q] /\ ~Active(q)]

LosePower == PowerLoss /\ UNCHANGED history

Next == (\E r \in Runs : RunStep(r)) \/ Disturb \/ LosePower

\* A started process is scheduled again as long as its next call can be made.
Progress(r) == Active(r) /\ RunStep(r)
Fairness == \A r \in Runs : WF_vars(Progress(r))

Spec == Init /\ [][Next]_vars
FairSpec == Spec /\ Fairness
-----------------------------------------------------------------------------
(***************************************************************************)
(* What the commit must guarantee.                                         *)
(***************************************************************************)

\* Whatever fails or crashes and whoever interferes, an output path never
\* holds an incomplete file, nor one a power loss could still truncate:
\* the content is written and synced before the rename.
OnlyCompleteOutputs ==
  \A i \in Outputs, l \in Places :
    out[i][l].content # "partial" /\ out[i][l].synced

\* An output receives a run's content only after that run has staged every
\* output, with all earlier outputs replaced and all later ones waiting: the
\* replaced outputs are always a prefix of the plan, and an error before the
\* last sync replaces nothing.
InstallsAfterAllStaged ==
  [][\A i \in Outputs, l \in Places, r \in Runs :
       out'[i][l].content = r /\ out[i][l] # out'[i][l]
         => \A j \in Outputs : stage[r][j] = IF j < i THEN "renamed" ELSE "temp"]_vars

\* A run that returned, with whatever error, has left no temporary file,
\* except where the parent directory was exchanged under it.
NoStrayTemps ==
  \A r \in Runs, i \in Outputs :
    pc[r] = "done" /\ i \notin moved[r] => temp[r][i].node.kind = "absent"

\* Unless the parent was exchanged after the run's last look at it, a run
\* writes nothing outside the directory it planned for.
PlannedPlacesOnly ==
  \A r \in Runs, i \in Outputs : i \notin moved[r] =>
    /\ temp[r][i].node.kind = "file" => temp[r][i].at = plan[r][i].dir
    /\ \A l \in Places : out[i][l].content = r => l = plan[r][i].dir

Succeeds(r) == pc[r] # "done" /\ pc'[r] = "done" /\ result'[r] = "ok"

\* A run that succeeds while nobody else acts leaves every output in its own
\* generation, whatever files an earlier crashed run or a power loss left.
SoloRunInstallsOneGeneration ==
  [][\A r \in Runs : Succeeds(r) /\ solo'[r]
       => \A i \in Outputs : out'[i][plan[r][i].dir].content = r]_vars

\* A replaced output keeps the mode the file had, a new one has the default
\* mode (docs/configuration.md, "Validation and writes").
PreservesMode ==
  [][\A r \in Runs : Succeeds(r) /\ solo'[r]
       => \A i \in Outputs : out'[i][plan[r][i].dir].mode = plan[r][i].seen]_vars

\* A run that has started returns or dies: no failure makes it wait or loop.
StartedRunEnds ==
  \A r \in Runs : pc[r] = "inspect" ~> pc[r] \in Returned

\* While no parent directory is exchanged, the commit implements FileInstall:
\* temporary files, directories and the cleanup are invisible.
Promise == INSTANCE FileInstall WITH
  file <- [i \in Outputs |-> out[i]["planned"].content],
  phase <- [r \in Runs |->
              IF pc[r] \in Returned THEN "ended"
              ELSE IF \E i \in Outputs : stage[r][i] = "none" THEN "preparing"
              ELSE "installing"],
  installed <- [r \in Runs |-> {i \in Outputs : stage[r][i] = "renamed"}]

ImplementsFileInstall == Promise!Spec
=============================================================================
