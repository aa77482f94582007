---------------------------- MODULE VerifyReport ----------------------------
(***************************************************************************)
(* Results of checks, suites and reports in internal/tooling/cmd/verify    *)
(* (runner.go and validReportSuite of merge.go).  Messages, durations and  *)
(* the text of logs are left out.                                          *)
(***************************************************************************)
EXTENDS Integers, Sequences, SequencesExt

\* A failure wins (a seeded fault).
CombineStatusFailedFirst(a, b) ==
  IF "failed" \in {a, b} THEN "failed" ELSE IF "refused" \in {a, b} THEN "refused" ELSE "passed"

CombineStatus(a, b) ==
  IF "refused" \in {a, b} THEN "refused" ELSE IF "failed" \in {a, b} THEN "failed" ELSE "passed"

Check(id, status, exit, log) == [id |-> id, status |-> status, exit |-> exit, log |-> log]
NewSuite == [status |-> "passed", checks |-> <<>>, artifacts |-> {}]
WithCheck(s, check) == [s EXCEPT !.checks = Append(@, check)]

Refused(s, id) == [WithCheck(s, Check(id, "refused", 2, FALSE)) EXCEPT !.status = "refused"]
Blocked(s, id) ==
  [WithCheck(s, Check(id, "blocked", 0, FALSE)) EXCEPT !.status = IF @ = "passed" THEN "refused" ELSE @]
TakeArtifact(s, file, full) ==
  IF file \in full THEN [s EXCEPT !.artifacts = @ \cup {file}] ELSE Refused(s, "artifact-" \o file)

(***************************************************************************)
(* How a command ends.  It may not start or be cut off; its log or its     *)
(* output may not close.                                                   *)
(***************************************************************************)
Exited(n) == [ended |-> TRUE, exit |-> n, closed |-> TRUE]
CutOff == [ended |-> FALSE, exit |-> 2, closed |-> TRUE]
Unclosed == [ended |-> TRUE, exit |-> 0, closed |-> FALSE]

Accepted(does) == CASE does = "observation" -> {0, 1} [] does = "difference" -> {1} [] OTHER -> {0}
Gated(does) == does \in {"gate", "observation", "difference"}

ExecuteStatus(does, end) ==
  IF ~end.ended \/ ~end.closed THEN "refused"
  ELSE IF end.exit \in Accepted(does) THEN "passed"
  ELSE IF Gated(does) /\ end.exit >= 2 THEN "refused" ELSE "failed"

\* An accepted difference stays a plain pass (a seeded fault).
RecordedPlainly(does, end) == ExecuteStatus(does, end)

\* A difference that was accepted is an observation.
Recorded(does, end) ==
  IF ExecuteStatus(does, end) = "passed" /\ end.exit = 1 THEN "observed" ELSE ExecuteStatus(does, end)

Executed(s, id, does, end) ==
  [WithCheck(s, Check(id, Recorded(does, end), end.exit, TRUE))
     EXCEPT !.status = CombineStatus(@, ExecuteStatus(does, end))]

(***************************************************************************)
(* What a merge makes of a saved suite.                                    *)
(***************************************************************************)
\* The status that the checks of a suite amount to.
StatusThen(status, c) ==
  CASE c.status = "failed" -> CombineStatus(status, "failed")
    [] c.status = "refused" -> "refused"
    [] c.status = "blocked" /\ status = "passed" -> "refused"
    [] OTHER -> status
Recomputed(checks) ==
  LET after[n \in 0 .. Len(checks)] == IF n = 0 THEN "passed" ELSE StatusThen(after[n - 1], checks[n])
  IN after[Len(checks)]
WellRecorded(c) == /\ c.status = "passed" => c.exit = 0
                   /\ c.status = "observed" => c.exit \in {0, 1}
ValidReportSuite(s) ==
  /\ s.checks # <<>>
  /\ \A i \in DOMAIN s.checks : WellRecorded(s.checks[i])
  /\ s.status \in {Recomputed(s.checks), "refused"}
=============================================================================
