----------------------------- MODULE VerifyRun -----------------------------
(***************************************************************************)
(* The verification runner (internal/tooling/cmd/verify: main.go,          *)
(* runner.go) and the merge of its report bundles (merge.go).              *)
(*                                                                         *)
(* A scenario has several shards: separate invocations, as in CI, that     *)
(* share nothing and are therefore run one after the other here.  Commands *)
(* exit with any code, may not start, and may leave their evidence empty;  *)
(* a run is cancelled or killed at any point; bundles lose files on the    *)
(* way.  All of these count as faults, of which a scenario allows a few.   *)
(***************************************************************************)
EXTENDS VerifyReport, VerifySuites

CONSTANT Scenarios   \* [shards, expect, faults]
ASSUME ScenariosAssumption ==
  \A s \in Scenarios :
    /\ s.shards # <<>> /\ s.faults \in Nat
    /\ s.shards \in Seq([profile : STRING, selected : Seq(STRING), cell : CellsAsked])

VARIABLES
  scenario, phase, faults,
  turn,                  \* the shard
  report,                \* its finished suites
  current, pc, done,     \* its suite in progress: the result, the next call, the calls that succeeded
  built, broken,         \* its tools
  full,                  \* its files with content
  cancelled,
  bundles,               \* what the shards left
  left,                  \* bundles still to be merged
  bundle, queue,         \* the bundle being merged, its suites still to be merged
  merged, seen,
  trouble,               \* what went wrong: [is, turn, key]
  finished               \* suites that came to their end: <<turn, key>>

suite == <<current, pc, done>>
tools == <<built, broken>>
shardVars == <<turn, report, suite, tools, full, cancelled, bundles>>
mergeVars == <<left, bundle, queue, merged, seen>>
vars == <<scenario, phase, faults, shardVars, mergeVars, trouble, finished>>

Shard == scenario.shards[turn]
Ids == Selection(Shard.profile, Shard.selected)
Key == SuiteKey(Ids[Len(report) + 1], Shard.cell)
Calls == Script(Ids[Len(report) + 1], Shard.cell)
Call == Calls[pc]

NoKey == <<None, None>>
Note(is, of, key) == trouble' = trouble \cup {[is |-> is, turn |-> of, key |-> key]}
Fault(is, of, key) == faults < scenario.faults /\ faults' = faults + 1 /\ Note(is, of, key)
NoFault == UNCHANGED <<faults, trouble>>

Init ==
  /\ scenario \in Scenarios
  /\ phase = "select" /\ faults = 0
  /\ turn = 1
  /\ report = <<>> /\ current = NewSuite /\ pc = 1 /\ done = {}
  /\ built = {} /\ broken = {} /\ full = {} /\ cancelled = FALSE
  /\ bundles = <<>>
  /\ left = {} /\ bundle = 0 /\ queue = <<>> /\ merged = {} /\ seen = {}
  /\ trouble = {} /\ finished = {}
-----------------------------------------------------------------------------
\* The invocation is over; its bundle holds what it saved last.
EndShard(summary, suites) ==
  /\ bundles' = Append(bundles, [summary |-> summary, suites |-> suites, full |-> full, logs |-> TRUE])
  /\ turn' = turn + 1
  /\ IF turn = Len(scenario.shards) THEN phase' = "merge" /\ left' = 1 .. turn
                                    ELSE phase' = "select" /\ UNCHANGED left
  /\ report' = <<>> /\ current' = NewSuite /\ pc' = 1 /\ done' = {}
  /\ built' = {} /\ broken' = {} /\ full' = {} /\ cancelled' = FALSE
  /\ UNCHANGED <<scenario, bundle, queue, merged, seen>>

Start ==
  /\ phase = "select"
  /\ \/ /\ ~Selectable(Ids)
        /\ EndShard("absent", <<>>)
        /\ UNCHANGED <<faults, trouble, finished>>
     \/ /\ Selectable(Ids)
        /\ phase' = "suite"
        /\ UNCHANGED <<scenario, faults, shardVars, mergeVars, trouble, finished>>

Cancel ==
  /\ phase = "suite" /\ ~cancelled
  /\ cancelled' = TRUE
  /\ Fault("loss", turn, NoKey)
  /\ UNCHANGED <<scenario, phase, turn, report, suite, tools, full, bundles, mergeVars, finished>>

\* The invocation is killed, or cannot open its summary.
Kill ==
  /\ phase = "suite"
  /\ EndShard(IF report = <<>> THEN "absent" ELSE "saved", report)
  /\ Fault("loss", turn, NoKey)
  /\ UNCHANGED finished

\* It is killed while it writes the summary, or fails to.
TearSummary ==
  /\ phase = "suite" /\ pc > Len(Calls)
  /\ EndShard("torn", <<>>)
  /\ Fault("loss", turn, NoKey)
  /\ UNCHANGED finished

\* A cancelled invocation does not run the suites that are left.
SkipSuite ==
  /\ phase = "suite" /\ cancelled /\ pc = 1
  /\ current' = Refused(current, "cancelled")
  /\ pc' = Len(Calls) + 1
  /\ Note("refusal", turn, Key)
  /\ UNCHANGED <<scenario, phase, faults, turn, report, done, tools, full, cancelled, bundles, mergeVars, finished>>

Finished == [key |-> Key, status |-> current.status, checks |-> current.checks, artifacts |-> current.artifacts]

\* save, after every suite.
Save ==
  /\ phase = "suite" /\ pc > Len(Calls)
  /\ finished' = finished \cup {<<turn, Key>>}
  /\ NoFault
  /\ \/ /\ Len(report) + 1 = Len(Ids)
        /\ EndShard("saved", Append(report, Finished))
     \/ /\ Len(report) + 1 < Len(Ids)
        /\ report' = Append(report, Finished)
        /\ current' = NewSuite /\ pc' = 1 /\ done' = {}
        /\ UNCHANGED <<scenario, phase, turn, tools, full, cancelled, bundles, mergeVars>>
-----------------------------------------------------------------------------
(***************************************************************************)
(* The calls of a suite.                                                   *)
(***************************************************************************)
Due == Call.needs \subseteq done /\ ~(Call.unless # {} /\ Call.unless \subseteq done)
Doing(kinds) == phase = "suite" /\ pc \in DOMAIN Calls /\ Due /\ Call.does \in kinds

\* The call returns; the suite ends with a prerequisite that did not succeed.
Returns(result, ok) ==
  /\ current' = result
  /\ pc' = IF ~ok /\ Call.ends THEN Len(Calls) + 1 ELSE pc + 1
  /\ done' = IF ok THEN done \cup {Call.id} ELSE done
  /\ UNCHANGED <<scenario, phase, turn, report, cancelled, bundles, mergeVars, finished>>

PassOver ==
  /\ phase = "suite" /\ pc \in DOMAIN Calls /\ ~Due
  /\ pc' = pc + 1
  /\ NoFault
  /\ UNCHANGED <<scenario, phase, turn, report, current, done, tools, full, cancelled, bundles, mergeVars, finished>>

Running ==
  /\ Doing({"command", "gate", "observation", "difference", "output", "test", "tool"})
  /\ Call.does = "tool" => Call.id \notin built \cup broken
CheckId == IF Call.does = "tool" THEN "build-" \o Call.id ELSE Call.id

\* The output file is truncated before the command runs.
FilesAfter(written) == (IF Call.does = "output" THEN full \ Call.files ELSE full) \cup written

\* A build is remembered as failed before it runs (a seeded fault).
BrokenByAny(ok) == IF Call.does = "tool" THEN broken \cup {Call.id} ELSE broken

BrokenBy(ok) == IF Call.does = "tool" /\ ~ok THEN broken \cup {Call.id} ELSE broken
BuiltBy(ok) == IF Call.does = "tool" /\ ok THEN built \cup {Call.id} ELSE built

\* execute, then the artifact of an output, the log of a test (idle if a required
\* test was skipped or did not run) and the cache of a tool.
Execute(end, written, idle) ==
  LET passed == ExecuteStatus(Call.does, end) = "passed"
      ran == Executed(current, CheckId, Call.does, end)
      result == CASE passed /\ Call.does = "output" ->
                       TakeArtifact(ran, CHOOSE f \in Call.files : TRUE, written)
                  [] passed /\ idle -> Refused(ran, Call.id \o "-ran")
                  [] OTHER -> ran
      ok == passed /\ (Call.does = "output" => written # {}) /\ ~idle
  IN /\ Returns(result, ok)
     /\ full' = FilesAfter(written)
     /\ built' = BuiltBy(ok) /\ broken' = BrokenBy(ok)

RunsWell ==
  /\ Running /\ ~cancelled
  /\ \E n \in Accepted(Call.does) : Execute(Exited(n), Call.files, FALSE)
  /\ NoFault

RunsBadly ==
  /\ Running /\ ~cancelled
  /\ \E end \in {Exited(0), Exited(1), Exited(2), CutOff, Unclosed}, written \in SUBSET Call.files, idle \in BOOLEAN :
       /\ idle => Call.does = "test" /\ end = Exited(0)
       /\ idle \/ ExecuteStatus(Call.does, end) # "passed" \/ written # Call.files
       /\ Execute(end, written, idle)
       /\ Fault(IF ExecuteStatus(Call.does, end) = "failed" THEN "failure" ELSE "refusal", turn, Key)

RunsCancelled ==
  /\ Running /\ cancelled
  /\ Execute(CutOff, {}, FALSE)
  /\ Note("refusal", turn, Key)
  /\ UNCHANGED faults

\* The log, the output file or the directory of the tools cannot be created.
CannotCreate ==
  /\ Running
  /\ Returns(Refused(current, CheckId), FALSE)
  /\ broken' \in {broken, BrokenBy(FALSE)}
  /\ Fault("refusal", turn, Key)
  /\ UNCHANGED <<full, built>>

ReuseTool ==
  /\ Doing({"tool"})
  /\ \/ /\ Call.id \in built \ broken
        /\ Returns(current, TRUE)
        /\ NoFault
     \/ /\ Call.id \in broken
        /\ Returns(Blocked(current, CheckId), FALSE)
        /\ Note("blocked", turn, Key)
        /\ UNCHANGED faults
  /\ UNCHANGED <<full, tools>>

ReadArtifact ==
  /\ Doing({"artifact"})
  /\ Returns(TakeArtifact(current, Call.id, full), Call.id \in full)
  /\ NoFault
  /\ UNCHANGED <<full, tools>>

\* Requests to a server, and the prerequisites that the runner looks at itself.
Ask ==
  /\ Doing({"request", "inspect"})
  /\ LET asks == Call.does = "request"
         answered == IF asks THEN WithCheck(current, Check(Call.id, "passed", 0, FALSE)) ELSE current
     IN \/ ~(cancelled /\ asks) /\ Returns(answered, TRUE) /\ NoFault
        \/ Returns(Refused(current, Call.id), FALSE) /\ Fault("refusal", turn, Key)
        \/ /\ cancelled /\ asks
           /\ Returns(Refused(current, Call.id), FALSE)
           /\ Note("refusal", turn, Key) /\ UNCHANGED faults
  /\ UNCHANGED <<full, tools>>

BlockGate ==
  /\ Doing({"block"})
  /\ Returns(Blocked(current, Call.id), FALSE)
  /\ NoFault
  /\ UNCHANGED <<full, tools>>
-----------------------------------------------------------------------------
(***************************************************************************)
(* mergeReports, after all shards: bundles in the order of their paths,    *)
(* which nothing ties to the order of the shards.                          *)
(***************************************************************************)
\* A bundle loses its summary, its logs or a file on its way.
Lose ==
  /\ phase = "merge"
  /\ \E i \in left :
       /\ bundles' \in {[bundles EXCEPT ![i].summary = "absent"], [bundles EXCEPT ![i].logs = FALSE]}
                       \cup {[bundles EXCEPT ![i].full = @ \ {f}] : f \in bundles[i].full}
       /\ Fault("loss", i, NoKey)
  /\ UNCHANGED <<scenario, phase, turn, report, suite, tools, full, cancelled, mergeVars, finished>>

MergeRefusal(key) == [key |-> key, status |-> "refused", artifacts |-> {}]

OpenBundle ==
  /\ phase = "merge" /\ queue = <<>>
  /\ \E i \in left :
       /\ left' = left \ {i} /\ bundle' = i
       /\ CASE bundles[i].summary = "absent" -> UNCHANGED <<queue, merged>>
            [] bundles[i].summary = "torn" -> merged' = merged \cup {MergeRefusal(NoKey)} /\ UNCHANGED queue
            [] OTHER -> queue' = bundles[i].suites /\ UNCHANGED merged
  /\ UNCHANGED <<scenario, phase, faults, shardVars, seen, trouble, finished>>

\* Evidence is copied without looking at it (a seeded fault).
CopyEvidenceUnseen(from, s) ==
  [key |-> s.key, artifacts |-> s.artifacts \cap from.full, status |-> s.status]

\* copyEvidence: of every log, which may be empty, and every artifact, which may not.
CopyEvidence(from, s) ==
  LET complete == /\ s.artifacts \subseteq from.full
                  /\ from.logs \/ \A i \in DOMAIN s.checks : ~s.checks[i].log
  IN [key |-> s.key, artifacts |-> s.artifacts \cap from.full,
      status |-> IF complete THEN s.status ELSE "refused"]

MergeSuite ==
  /\ phase = "merge" /\ queue # <<>>
  /\ LET s == Head(queue)
     IN /\ merged' = merged \cup {IF s.key \in seen \/ ~ValidReportSuite(s) THEN MergeRefusal(s.key)
                                  ELSE CopyEvidence(bundles[bundle], s)}
        /\ seen' = seen \cup {s.key}
  /\ queue' = Tail(queue)
  /\ UNCHANGED <<scenario, phase, faults, shardVars, left, bundle, trouble, finished>>

EndMerge ==
  /\ phase = "merge" /\ queue = <<>> /\ left = {}
  /\ LET none == \A i \in DOMAIN bundles : bundles[i].summary = "absent"
     IN merged' = merged \cup {MergeRefusal(key) : key \in scenario.expect \ seen}
                         \cup (IF none THEN {MergeRefusal(NoKey)} ELSE {})
  /\ phase' = "merged"
  /\ UNCHANGED <<scenario, faults, shardVars, left, bundle, queue, seen, trouble, finished>>

Next ==
  \/ Start \/ Cancel \/ Kill \/ TearSummary \/ SkipSuite \/ Save
  \/ PassOver \/ RunsWell \/ RunsBadly \/ RunsCancelled \/ CannotCreate
  \/ ReuseTool \/ ReadArtifact \/ Ask \/ BlockGate
  \/ Lose \/ OpenBundle \/ MergeSuite \/ EndMerge

Spec == Init /\ [][Next]_vars
-----------------------------------------------------------------------------
\* save combines the status of every suite; in which order makes no difference.
MergedVerdict ==
  LET With(verdict, status) ==
        IF \E s \in merged : s.status = status THEN CombineStatus(verdict, status) ELSE verdict
  IN With(With("passed", "failed"), "refused")
SavedKeys(i) == IF bundles[i].summary = "saved" THEN {s.key : s \in Range(bundles[i].suites)} ELSE {}

\* The evidence that a suite in which nothing goes wrong leaves.
Evidence(key) ==
  LET calls == Script(key[1], key[2])
  IN UNION {calls[k].files : k \in {n \in DOMAIN calls : calls[n].does \in {"output", "artifact"}}}

\* A merge passes only if every expected suite is there, and every suite in it
\* was run to its end by exactly one shard, without anything going wrong in it,
\* and has all its evidence (mergeReports against execute and runSuite).
PassedMergeIsEarned ==
  phase = "merged" /\ MergedVerdict = "passed" =>
    /\ scenario.expect \subseteq {s.key : s \in merged}
    /\ \A s \in merged :
         /\ s.artifacts = Evidence(s.key)
         /\ \E i \in DOMAIN bundles :
              /\ {j \in DOMAIN bundles : s.key \in SavedKeys(j)} = {i}
              /\ <<i, s.key>> \in finished
              /\ \A t \in trouble : t.turn # i \/ t.key # s.key

\* A merge fails only for a check that failed, with no suite in it that noted
\* itself that something was unavailable; it refuses only if something went wrong, or the
\* suites of the bundles are not exactly the expected ones, and whatever the
\* order in which the bundles are read (combineStatus, mergeReports).
VerdictHasItsCause ==
  phase = "merged" =>
    CASE MergedVerdict = "failed" ->
           /\ \E t \in trouble : t.is = "failure"
           /\ \A t \in trouble : t.is = "refusal" => t.key \notin SavedKeys(t.turn)
      [] MergedVerdict = "refused" ->
           \/ trouble # {}
           \/ ~(scenario.expect \subseteq UNION {SavedKeys(i) : i \in DOMAIN bundles})
           \/ \E i, j \in DOMAIN bundles : i # j /\ SavedKeys(i) \cap SavedKeys(j) # {}
           \/ \A i \in DOMAIN bundles : bundles[i].summary = "absent"
      [] OTHER -> TRUE

\* Every suite that the runner saves is one that a merge takes over, with the
\* status that its checks amount to (execute and blocked against validReportSuite).
SavedVerdictsAreValid ==
  \A s \in Range(report) \cup UNION {Range(bundles[i].suites) : i \in DOMAIN bundles} :
    ValidReportSuite(s) /\ s.status = Recomputed(s.checks)

\* A check is blocked only after one that failed or was refused, in its suite or,
\* for a tool, in an earlier one (tool and blocked).
CauseIn(checks) == \E i \in DOMAIN checks : checks[i].status \in {"failed", "refused"}
ChecksOf(n) == IF n > Len(report) THEN current.checks ELSE report[n].checks
BlockedForCause ==
  \A n \in 1 .. (Len(report) + 1) : \A k \in DOMAIN ChecksOf(n) : ChecksOf(n)[k].status = "blocked" =>
    \/ \E j \in 1 .. (k - 1) : ChecksOf(n)[j].status \in {"failed", "refused"}
    \/ \E m \in 1 .. (n - 1) : CauseIn(ChecksOf(m))
=============================================================================
