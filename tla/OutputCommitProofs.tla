------------------------- MODULE OutputCommitProofs -------------------------
(***************************************************************************)
(* Theorems about OutputCommit, for any number of runs and outputs, any    *)
(* set of faults and any amount of interference: what the outputs hold,    *)
(* where a run puts its files, and that the commit implements FileInstall. *)
(***************************************************************************)
EXTENDS OutputCommit, TLAPS

Staging == {"mkdir", "check", "create", "fill", "sync", "discard"}
Opened == {"fill", "sync", "discard"}

\* The slice of staged outputs, read off the call a run is about to make.
StageInv(r) ==
  \A j \in Outputs :
    /\ pc[r] \in {"idle", "inspect", "generate"} => stage[r][j] = "none"
    /\ pc[r] \in Staging => stage[r][j] = IF j < idx[r] THEN "temp" ELSE "none"
    /\ pc[r] \in {"lstat", "rename"} =>
         stage[r][j] = IF j < idx[r] THEN "renamed" ELSE "temp"

\* Where a temporary file can exist, and what is known of its content.
TempInv(r) ==
  \A j \in Outputs : temp[r][j].node.kind = "file" =>
    /\ stage[r][j] = "none" => pc[r] \in Returned \cup {"cleanup"} \cup Opened
    /\ stage[r][j] = "none" /\ pc[r] \in Opened => j = idx[r]
    /\ stage[r][j] # "none" => temp[r][j].node.content = r /\ temp[r][j].node.synced

\* A run about to sync has written everything.
WrittenInv(r) ==
  pc[r] = "sync" => /\ temp[r][idx[r]].node.kind = "file"
                    /\ temp[r][idx[r]].node.content = r

RunInv(r) == StageInv(r) /\ TempInv(r) /\ WrittenInv(r)

\* Only complete files are installed, and only by runs that renamed them.
OutInv ==
  \A i \in Outputs, l \in Places :
    /\ out[i][l].content # "partial"
    /\ out[i][l].synced
    /\ \A r \in Runs : out[i][l].content = r => stage[r][i] = "renamed"

CommitInv == TypeOK /\ (\A r \in Runs : RunInv(r)) /\ OutInv
-----------------------------------------------------------------------------
\* Storing a value of the right type in a table of tables keeps its type.
LEMMA UpdateType ==
  ASSUME NEW A, NEW B, NEW T, NEW f \in [A -> [B -> T]], NEW a \in A, NEW b \in B, NEW v \in T
  PROVE  [f EXCEPT ![a][b] = v] \in [A -> [B -> T]]
  OBVIOUS

\* The records the actions build are of the types the variables hold.
LEMMA RecordTypes ==
  /\ DefaultMode \in Modes
  /\ Absent \in Node /\ Link \in Node
  /\ \A c \in Foreign \cup {"partial"} \cup Runs, m \in Modes, s \in BOOLEAN : File(c, m, s) \in Node
  /\ \A n \in Node : [n EXCEPT !.synced = TRUE] \in Node /\ Damaged(n) \in Node
  /\ \A n \in Node, l \in Places : [node |-> n, at |-> l] \in Temp
  /\ NoTemp \in Temp /\ NotPlanned \in Planned
  /\ \A t \in Temp, n \in Node : [t EXCEPT !.node = n] \in Temp
<1>1. DefaultMode \in Modes
  BY ConstantsAssumption
<1>2. Absent \in Node /\ Link \in Node
  BY <1>1 DEF Absent, Link, Node, Foreign
<1>3. ASSUME NEW n \in Node PROVE [n EXCEPT !.synced = TRUE] \in Node /\ Damaged(n) \in Node
  BY DEF Node, Damaged
<1>4. NoTemp \in Temp /\ NotPlanned \in Planned
  BY <1>1, <1>2 DEF NoTemp, Temp, NotPlanned, Planned, Places
<1> QED
  BY <1>1, <1>2, <1>3, <1>4 DEF File, Node, Temp

\* No run has started and nothing is staged.
LEMMA InitTypeOK == Init => TypeOK
<1> SUFFICES ASSUME Init PROVE TypeOK
  OBVIOUS
<1>1. 1 \in Outputs /\ DefaultMode \in Modes /\ MaxInterference \in 0..MaxInterference
  BY ConstantsAssumption DEF Outputs
<1>2. PICK old \in [Outputs -> {Absent} \cup {File("old", m, TRUE) : m \in Modes}] :
         out = [i \in Outputs |-> [l \in Places |->
                  IF l = "planned" THEN old[i] ELSE File("old", DefaultMode, TRUE)]]
  BY DEF Init
<1>3. \A m \in Modes : File("old", m, TRUE) \in Node
  BY RecordTypes DEF Foreign
<1>4. \A i \in Outputs : old[i] \in Node
  <2>1. Absent \in Node
    BY RecordTypes
  <2>2. {Absent} \cup {File("old", m, TRUE) : m \in Modes} \subseteq Node
    BY <1>3, <2>1
  <2>3. old \in [Outputs -> {Absent} \cup {File("old", m, TRUE) : m \in Modes}]
    OBVIOUS
  <2> HIDE DEF Absent, File
  <2> QED
    BY <2>2, <2>3
<1>5. out \in [Outputs -> [Places -> Node]]
  BY <1>1, <1>2, <1>3, <1>4
<1>6. parent \in [Outputs -> Places \cup {"missing"}]
  BY DEF Init, Places
<1>7. plan \in [Runs -> [Outputs -> Planned]] /\ temp \in [Runs -> [Outputs -> Temp]]
  BY RecordTypes DEF Init
<1>8. /\ pc \in [Runs -> Steps] /\ idx \in [Runs -> Outputs]
      /\ stage \in [Runs -> [Outputs -> {"none", "temp", "renamed"}]]
      /\ result \in [Runs -> {"none", "ok", "error"}] /\ budget \in 0..MaxInterference
      /\ moved \in [Runs -> SUBSET Outputs] /\ solo \in [Runs -> BOOLEAN]
  BY <1>1 DEF Init, Steps
<1> QED
  BY <1>5, <1>6, <1>7, <1>8 DEF TypeOK

\* Moving on to a call and a position keeps the types of both.
LEMMA GotoType ==
  ASSUME TypeOK, NEW r \in Runs, NEW step \in Steps, NEW j \in Outputs, Goto(r, step, j)
  PROVE  pc' \in [Runs -> Steps] /\ idx' \in [Runs -> Outputs]
  BY DEF TypeOK, Goto

\* Every step keeps the types of the variables it changes.
LEMMA StepTypeOK == TypeOK /\ [Next]_vars => TypeOK'
<1> SUFFICES ASSUME TypeOK, [Next]_vars PROVE TypeOK'
  OBVIOUS
<1>0. /\ 1 \in Outputs
      /\ \A i \in Outputs : i < N => i + 1 \in Outputs
      /\ \A i \in Outputs : Resolve(i) \in Places
  BY ConstantsAssumption DEF Outputs, Resolve, Places
<1> DEFINE TempType == [Runs -> [Outputs -> Temp]]
           OutType == [Outputs -> [Places -> Node]]
<1>1. ASSUME NEW r \in Runs, RunStep(r) PROVE TypeOK'
  <2> DEFINE i == idx[r]
  <2>0. /\ budget' \in 0..MaxInterference /\ moved' \in [Runs -> SUBSET Outputs]
        /\ solo' \in [Runs -> BOOLEAN]
    BY <1>1 DEF RunStep, Active, At, TypeOK
  <2>a. i \in Outputs /\ temp[r][i] \in Temp /\ plan[r][i] \in Planned /\ temp[r][i].node \in Node
    BY DEF TypeOK, Temp
  <2>b. ASSUME NEW v \in Temp PROVE [temp EXCEPT ![r][i] = v] \in TempType
    BY <2>a, UpdateType DEF TypeOK
  <2> HIDE DEF TempType, OutType
  <2>1. CASE Start(r)
    BY <2>0, <2>1, <1>0 DEF Start, Goto, At, TypeOK, Steps
  <2>2. CASE Inspect(r)
    <3> DEFINE p == [dir |-> Resolve(i), exists |-> out[i][Resolve(i)].kind = "file",
                     seen |-> IF out[i][Resolve(i)].kind = "file"
                              THEN out[i][Resolve(i)].mode ELSE DefaultMode,
                     mode |-> PlannedMode(i, out[i][Resolve(i)])]
    <3>1. out[i][Resolve(i)] \in Node
      BY <2>a, <1>0 DEF TypeOK
    <3>2. p \in Planned
      BY <3>1, <1>0, <2>a, RecordTypes, ConstantsAssumption DEF Planned, PlannedMode, Node
    <3>3. plan' = [plan EXCEPT ![r][i] = p]
      BY <2>2 DEF Inspect
    <3> HIDE DEF p
    <3>4. plan' \in [Runs -> [Outputs -> Planned]]
      BY <3>2, <3>3, <2>a, UpdateType DEF TypeOK
    <3> QED
      BY <2>0, <2>2, <2>a, <3>4, <1>0, GotoType DEF Inspect, TypeOK, Steps
  <2>3. CASE PlanningFails(r)
    BY <2>0, <2>3, <1>0 DEF PlanningFails, Goto, TypeOK, Steps, Returned
  <2>4. CASE Generate(r)
    BY <2>0, <2>4, <1>0 DEF Generate, Goto, At, TypeOK, Steps
  <2>5. CASE MakeDirectory(r)
    BY <2>0, <2>5, <1>0 DEF MakeDirectory, Goto, At, TypeOK, Steps
  <2>6. CASE CheckDirectory(r)
    <3>1. pc' \in [Runs -> Steps] /\ idx' \in [Runs -> Outputs]
      BY <2>6, <2>a, <1>0, GotoType DEF CheckDirectory, Refuse, Steps
    <3>2. result' \in [Runs -> {"none", "ok", "error"}]
      BY <2>6 DEF CheckDirectory, Refuse, TypeOK
    <3> QED
      BY <2>0, <2>6, <3>1, <3>2 DEF CheckDirectory, TypeOK
  <2>7. CASE CreateTemp(r)
    <3>1. [node |-> File("partial", DefaultMode, FALSE), at |-> Resolve(i)] \in Temp
      BY RecordTypes, <1>0, <2>a
    <3>2. temp' \in TempType
      BY <3>1, <2>b, <2>7 DEF CreateTemp
    <3> QED
      BY <2>0, <2>7, <3>2, <1>0 DEF CreateTemp, Goto, At, TypeOK, Steps, TempType
  <2>8. CASE FillTemp(r)
    <3>1. File(r, IF plan[r][i].exists THEN plan[r][i].mode ELSE temp[r][i].node.mode, FALSE) \in Node
      BY RecordTypes, <2>a DEF Planned, Node
    <3>2. temp' \in TempType
      BY <3>1, <2>a, <2>b, <2>8, RecordTypes DEF FillTemp
    <3> QED
      BY <2>0, <2>8, <3>2, <1>0 DEF FillTemp, Goto, At, TypeOK, Steps, TempType
  <2>9. CASE SyncTemp(r)
    <3>2. temp' \in TempType
      BY <2>a, <2>b, <2>9, RecordTypes DEF SyncTemp
    <3> QED
      BY <2>0, <2>9, <2>a, <3>2, <1>0, GotoType DEF SyncTemp, TypeOK, Steps, TempType
  <2>10. CASE StagingFailsEarly(r)
    BY <2>0, <2>10, <1>0 DEF StagingFailsEarly, Refuse, Goto, At, TypeOK, Steps
  <2>11. CASE StagingFailsLate(r)
    <3>1. PICK m \in {temp[r][i].node.mode, plan[r][i].mode} :
            temp' = [temp EXCEPT ![r][i].node = File("partial", m, FALSE)]
      BY <2>11 DEF StagingFailsLate
    <3>2. temp' \in TempType
      BY <3>1, <2>a, <2>b, RecordTypes DEF Planned, Node
    <3> QED
      BY <2>0, <2>11, <3>2, <1>0 DEF StagingFailsLate, Goto, At, TypeOK, Steps, TempType
  <2>12. CASE Discard(r)
    <3>2. temp' \in TempType
      BY <2>b, <2>12, RecordTypes DEF Discard, TypeOK, TempType
    <3> QED
      BY <2>0, <2>12, <3>2, <1>0 DEF Discard, Refuse, Goto, At, TypeOK, Steps, TempType
  <2>13. CASE CheckLink(r)
    <3>1. pc' \in [Runs -> Steps] /\ idx' \in [Runs -> Outputs]
      BY <2>13, <2>a, <1>0, GotoType DEF CheckLink, Refuse, Steps
    <3>2. result' \in [Runs -> {"none", "ok", "error"}]
      BY <2>13 DEF CheckLink, Refuse, TypeOK
    <3> QED
      BY <2>0, <2>13, <3>1, <3>2 DEF CheckLink, TypeOK
  <2>14. CASE Rename(r)
    <3>1. temp' \in TempType
      BY <2>b, <2>14, RecordTypes DEF Rename
    <3>2. out' \in OutType
      BY <2>14, <2>a, <1>0, UpdateType DEF Rename, TypeOK, OutType
    <3>3. pc' \in [Runs -> Steps] /\ idx' \in [Runs -> Outputs]
      BY <2>14, <2>a, <1>0, GotoType DEF Rename, Steps
    <3>4. result' \in [Runs -> {"none", "ok", "error"}]
      BY <2>14 DEF Rename, TypeOK
    <3>5. stage' \in [Runs -> [Outputs -> {"none", "temp", "renamed"}]]
      BY <2>14, <2>a DEF Rename, TypeOK
    <3> QED
      BY <2>0, <2>14, <3>1, <3>2, <3>3, <3>4, <3>5 DEF Rename, TypeOK, TempType, OutType
  <2>15. CASE RenameFails(r)
    BY <2>0, <2>15, <1>0 DEF RenameFails, Refuse, Goto, At, TypeOK, Steps
  <2>16. CASE Cleanup(r)
    <3>1. temp' = temp \/ temp' = [temp EXCEPT ![r][i] = NoTemp]
      BY <2>16 DEF Cleanup
    <3>2. temp \in TempType /\ NoTemp \in Temp
      BY RecordTypes DEF TypeOK, TempType
    <3>3. temp' \in TempType
      BY <2>b, <3>1, <3>2
    <3> QED
      BY <2>0, <2>16, <2>a, <3>3, <1>0, GotoType DEF Cleanup, TypeOK, Steps, Returned, TempType
  <2>17. CASE Crash(r)
    BY <2>0, <2>17, <1>0 DEF Crash, Goto, TypeOK, Steps, Returned
  <2> QED
    BY <1>1, <2>1, <2>2, <2>3, <2>4, <2>5, <2>6, <2>7, <2>8, <2>9, <2>10, <2>11,
       <2>12, <2>13, <2>14, <2>15, <2>16, <2>17 DEF RunStep, Plan, Stage, Install
<1>2. ASSUME Disturb PROVE TypeOK'
  <2>1. budget' \in 0..MaxInterference /\ solo' \in [Runs -> BOOLEAN]
    BY <1>2, ConstantsAssumption DEF Disturb, Active, TypeOK
  <2>2. PICK i \in Outputs : Intrude(i) \/ Retarget(i)
    BY <1>2 DEF Disturb
  <2>3. CASE Intrude(i)
    <3>1. out[i][Resolve(i)].mode \in Modes
      BY <1>0 DEF TypeOK, Node
    <3>2. PICK node \in Node : out' = [out EXCEPT ![i][Resolve(i)] = node]
      BY <2>3, <3>1, RecordTypes DEF Intrude, Foreign
    <3>3. out' \in OutType
      BY <3>2, <1>0, UpdateType DEF TypeOK, OutType
    <3> QED
      BY <2>1, <2>3, <3>3 DEF Intrude, TypeOK, OutType
  <2>4. CASE Retarget(i)
    BY <2>1, <2>4 DEF Retarget, TypeOK, Places
  <2> QED
    BY <2>2, <2>3, <2>4
<1>3. ASSUME LosePower PROVE TypeOK'
  <2>1. out' \in OutType
    BY <1>3, RecordTypes DEF LosePower, PowerLoss, TypeOK, OutType
  <2>2. ASSUME NEW r \in Runs, NEW i \in Outputs
        PROVE  [temp[r][i] EXCEPT !.node = Damaged(@)] \in Temp
    <3>1. temp[r][i] \in Temp /\ temp[r][i].node \in Node
      BY DEF TypeOK, Temp
    <3> QED
      BY <3>1, RecordTypes
  <2>3. temp' \in TempType
    BY <1>3, <2>2 DEF LosePower, PowerLoss
  <2> QED
    BY <1>3, <2>1, <2>3, <1>0 DEF LosePower, PowerLoss, history, TypeOK, Steps, Returned, TempType, OutType
<1>4. CASE UNCHANGED vars
  BY <1>4 DEF vars, TypeOK
<1> QED
  BY <1>1, <1>2, <1>3, <1>4 DEF Next

\* Type correctness: no sequence of calls, failures and interference leaves
\* the index outside the plan or a variable outside its type.
THEOREM TypeCorrect == Spec => []TypeOK
  BY InitTypeOK, StepTypeOK, PTL DEF Spec
-----------------------------------------------------------------------------
\* No run has a temporary file yet, and what an output holds is complete.
LEMMA InitCommitInv == Init => CommitInv
<1> SUFFICES ASSUME Init PROVE CommitInv
  OBVIOUS
<1>1. ASSUME NEW r \in Runs PROVE RunInv(r)
  BY DEF Init, RunInv, StageInv, TempInv, WrittenInv, Staging, NoTemp, Absent
<1>2. ASSUME NEW i \in Outputs, NEW l \in Places
      PROVE  out[i][l].content \in Foreign /\ out[i][l].synced
  BY DEF Init, Absent, File, Foreign, Places
<1>3. OutInv
  BY <1>2, ConstantsAssumption DEF OutInv, Foreign
<1> QED
  BY <1>1, <1>3, InitTypeOK DEF CommitInv

\* A run whose own variables do not change keeps its part of the invariant.
LEMMA RunInvFrame ==
  ASSUME NEW q, RunInv(q), pc'[q] = pc[q], idx'[q] = idx[q], stage'[q] = stage[q],
         temp'[q] = temp[q]
  PROVE  RunInv(q)'
  BY DEF RunInv, StageInv, TempInv, WrittenInv

\* A step of run r changes no other run's variables.
LEMMA OtherRuns ==
  ASSUME TypeOK, NEW r \in Runs, RunStep(r), NEW q \in Runs \ {r}
  PROVE  pc'[q] = pc[q] /\ idx'[q] = idx[q] /\ stage'[q] = stage[q] /\ temp'[q] = temp[q]
         /\ plan'[q] = plan[q] /\ result'[q] = result[q]
<1>0. /\ pc \in [Runs -> Steps] /\ idx \in [Runs -> Outputs]
      /\ stage \in [Runs -> [Outputs -> {"none", "temp", "renamed"}]]
      /\ temp \in [Runs -> [Outputs -> Temp]] /\ plan \in [Runs -> [Outputs -> Planned]]
      /\ result \in [Runs -> {"none", "ok", "error"}]
  BY DEF TypeOK
<1> USE <1>0 DEF Goto, Refuse
<1>1. CASE Plan(r)
  BY <1>1 DEF Plan, Start, Inspect, PlanningFails, Generate
<1>2. CASE MakeDirectory(r) \/ CheckDirectory(r) \/ CreateTemp(r)
  BY <1>2 DEF MakeDirectory, CheckDirectory, CreateTemp
<1>3. CASE FillTemp(r) \/ SyncTemp(r)
  BY <1>3 DEF FillTemp, SyncTemp
<1>4. CASE StagingFailsEarly(r) \/ StagingFailsLate(r) \/ Discard(r)
  BY <1>4 DEF StagingFailsEarly, StagingFailsLate, Discard
<1>5. CASE Install(r)
  BY <1>5 DEF Install, CheckLink, Rename, RenameFails, Cleanup
<1>6. CASE Crash(r)
  BY <1>6 DEF Crash
<1> QED
  BY <1>1, <1>2, <1>3, <1>4, <1>5, <1>6 DEF RunStep, Stage

\* The run that takes the step keeps its part, one action at a time.
LEMMA OwnRun ==
  ASSUME CommitInv, NEW r \in Runs, RunStep(r)
  PROVE  RunInv(r)'
<1> DEFINE i == idx[r]
<1>0. /\ pc \in [Runs -> Steps] /\ idx \in [Runs -> Outputs] /\ i \in 1..N /\ N \in Nat
      /\ temp \in [Runs -> [Outputs -> Temp]]
      /\ stage \in [Runs -> [Outputs -> {"none", "temp", "renamed"}]]
      /\ \A j \in Outputs : temp[r][j].node \in Node
  BY ConstantsAssumption DEF CommitInv, TypeOK, Outputs, Temp
<1>i. RunInv(r)
  BY DEF CommitInv
<1> USE <1>0, <1>i DEF RunInv, StageInv, TempInv, WrittenInv, Goto, Refuse, At, Staging,
                       Opened, Outputs, Returned
<1>1. CASE Start(r)
  BY <1>1 DEF Start
<1>2. CASE Inspect(r)
  BY <1>2 DEF Inspect
<1>3. CASE PlanningFails(r)
  BY <1>3 DEF PlanningFails
<1>4. CASE Generate(r)
  BY <1>4 DEF Generate
<1>5. CASE MakeDirectory(r)
  BY <1>5 DEF MakeDirectory
<1>6. CASE CheckDirectory(r)
  BY <1>6 DEF CheckDirectory
<1>7. CASE CreateTemp(r)
  BY <1>7 DEF CreateTemp, File
<1>8. CASE FillTemp(r)
  BY <1>8 DEF FillTemp, File
<1>9. CASE SyncTemp(r)
  BY <1>9 DEF SyncTemp, Node
<1>10. CASE StagingFailsEarly(r)
  BY <1>10 DEF StagingFailsEarly
<1>11. CASE StagingFailsLate(r)
  BY <1>11 DEF StagingFailsLate, File
<1>12. CASE Discard(r)
  <2>1. CASE UNCHANGED temp
    BY <1>12, <2>1 DEF Discard
  <2>2. CASE temp' = [temp EXCEPT ![r][i] = NoTemp]
    BY <1>12, <2>2 DEF Discard, NoTemp, Absent
  <2> QED
    BY <1>12, <2>1, <2>2 DEF Discard
<1>13. CASE CheckLink(r)
  BY <1>13 DEF CheckLink
<1>14. CASE Rename(r)
  BY <1>14 DEF Rename, NoTemp, Absent
<1>15. CASE RenameFails(r)
  BY <1>15 DEF RenameFails
<1>16. CASE Cleanup(r)
  BY <1>16 DEF Cleanup, NoTemp, Absent
<1>17. CASE Crash(r)
  BY <1>17 DEF Crash
<1> QED
  BY <1>1, <1>2, <1>3, <1>4, <1>5, <1>6, <1>7, <1>8, <1>9, <1>10, <1>11, <1>12,
     <1>13, <1>14, <1>15, <1>16, <1>17 DEF RunStep, Plan, Stage, Install

\* Only Rename installs a file, and what it installs is the run's own
\* complete, synced content.
LEMMA OwnOut ==
  ASSUME CommitInv, NEW r \in Runs, RunStep(r)
  PROVE  OutInv'
<1> DEFINE i == idx[r]
<1>0. /\ i \in Outputs /\ Resolve(i) \in Places /\ r \notin {"partial"}
      /\ out \in [Outputs -> [Places -> Node]]
      /\ stage \in [Runs -> [Outputs -> {"none", "temp", "renamed"}]]
  BY ConstantsAssumption DEF CommitInv, TypeOK, Resolve, Places
<1>1. CASE Rename(r)
  <2>1. stage[r][i] = "temp"
    BY <1>1, <1>0 DEF Rename, At, CommitInv, RunInv, StageInv, Outputs
  <2>2. temp[r][i].node.content = r /\ temp[r][i].node.synced
    BY <1>1, <2>1, <1>0 DEF Rename, CommitInv, RunInv, TempInv, TempReachable
  <2>3. /\ out' = [out EXCEPT ![i][Resolve(i)] = temp[r][i].node]
        /\ stage' = [stage EXCEPT ![r][i] = "renamed"]
    BY <1>1 DEF Rename
  <2>4. ASSUME NEW j \in Outputs, NEW l \in Places
        PROVE  out'[j][l] = IF j = i /\ l = Resolve(i) THEN temp[r][i].node ELSE out[j][l]
    BY <2>3, <1>0
  <2>5. ASSUME NEW q \in Runs, NEW j \in Outputs
        PROVE  stage'[q][j] = IF q = r /\ j = i THEN "renamed" ELSE stage[q][j]
    BY <2>3, <1>0
  <2> QED
    BY <2>2, <2>4, <2>5, <1>0 DEF CommitInv, OutInv
<1>2. CASE SyncTemp(r)
  <2>1. stage[r][i] = "none"
    BY <1>2, <1>0 DEF SyncTemp, At, CommitInv, RunInv, StageInv, Staging, Outputs
  <2>2. ASSUME NEW q \in Runs, NEW j \in Outputs
        PROVE  stage'[q][j] = IF q = r /\ j = i THEN "temp" ELSE stage[q][j]
    BY <1>2, <1>0 DEF SyncTemp
  <2> QED
    BY <1>2, <2>1, <2>2 DEF SyncTemp, CommitInv, OutInv
<1>3. CASE UNCHANGED <<out, stage>>
  BY <1>3 DEF CommitInv, OutInv
<1> QED
  BY <1>1, <1>2, <1>3
  DEF RunStep, Plan, Start, Inspect, PlanningFails, Generate, Stage, MakeDirectory,
      CheckDirectory, CreateTemp, FillTemp, StagingFailsEarly, StagingFailsLate, Discard,
      Install, CheckLink, RenameFails, Cleanup, Crash

\* Every step of every actor keeps the invariant of the commit.
LEMMA StepCommitInv == CommitInv /\ [Next]_vars => CommitInv'
<1> SUFFICES ASSUME CommitInv, [Next]_vars PROVE CommitInv'
  OBVIOUS
<1>0. TypeOK /\ TypeOK'
  BY StepTypeOK DEF CommitInv
<1>1. ASSUME NEW r \in Runs, RunStep(r) PROVE CommitInv'
  <2>1. ASSUME NEW q \in Runs \ {r} PROVE RunInv(q)'
    BY <1>0, <1>1, OtherRuns, RunInvFrame DEF CommitInv
  <2> QED
    BY <1>0, <1>1, <2>1, OwnRun, OwnOut DEF CommitInv
<1>2. ASSUME Disturb PROVE CommitInv'
  <2>0. PICK i \in Outputs : Intrude(i) \/ Retarget(i)
    BY <1>2 DEF Disturb
  <2>1. ASSUME NEW q \in Runs PROVE RunInv(q)'
    BY <2>0, RunInvFrame DEF Intrude, Retarget, CommitInv
  <2>2. CASE Intrude(i)
    <3>0. PICK node : /\ out' = [out EXCEPT ![i][Resolve(i)] = node]
                      /\ node.content \in Foreign /\ node.synced
      <4>1. /\ \A m : File("edited", m, TRUE).content = "edited" /\ File("edited", m, TRUE).synced
            /\ Absent.content = "nothing" /\ Absent.synced
            /\ Link.content = "nothing" /\ Link.synced
        BY DEF File, Absent, Link
      <4>2. PICK node : /\ out' = [out EXCEPT ![i][Resolve(i)] = node]
                        /\ node \in {File("edited", out[i][Resolve(i)].mode, TRUE), Absent, Link}
        BY <2>2 DEF Intrude
      <4> QED
        BY <4>1, <4>2 DEF Foreign
    <3>1. ASSUME NEW j \in Outputs, NEW l \in Places
          PROVE  out'[j][l] = out[j][l] \/ out'[j][l] = node
      BY <3>0, <1>0 DEF TypeOK
    <3>2. stage' = stage
      BY <2>2 DEF Intrude
    <3> QED
      BY <1>0, <2>1, <3>0, <3>1, <3>2, ConstantsAssumption DEF CommitInv, OutInv, Foreign
  <2>3. CASE Retarget(i)
    BY <1>0, <2>1, <2>3 DEF Retarget, CommitInv, OutInv
  <2> QED
    BY <2>0, <2>2, <2>3
<1>3. ASSUME LosePower PROVE CommitInv'
  <2>1. ASSUME NEW j \in Outputs, NEW l \in Places PROVE out'[j][l] = out[j][l]
    BY <1>3 DEF LosePower, PowerLoss, Damaged, CommitInv, OutInv
  <2>2. OutInv'
    BY <1>3, <2>1 DEF LosePower, PowerLoss, CommitInv, OutInv
  <2>3. ASSUME NEW q \in Runs PROVE RunInv(q)'
    <3>1. ASSUME NEW j \in Outputs
          PROVE  /\ temp'[q][j].node.kind = temp[q][j].node.kind
                 /\ temp[q][j].node.synced => temp'[q][j].node = temp[q][j].node
      <4>1. temp[q][j] \in Temp /\ temp[q][j].node \in Node
        BY <1>0 DEF TypeOK, Temp
      <4>2. temp'[q][j] = [temp[q][j] EXCEPT !.node = Damaged(temp[q][j].node)]
        BY <1>3 DEF LosePower, PowerLoss
      <4> QED
        BY <4>1, <4>2 DEF Damaged, Temp, Node
    <3>2. stage' = stage /\ pc'[q] = (IF Active(q) THEN "crashed" ELSE pc[q])
          /\ idx'[q] = (IF Active(q) THEN 1 ELSE idx[q])
      BY <1>3 DEF LosePower, PowerLoss
    <3>3. RunInv(q)
      BY DEF CommitInv
    <3>4. pc[q] \in Steps
      BY <1>0 DEF TypeOK
    <3> QED
      BY <3>1, <3>2, <3>3, <3>4
      DEF RunInv, StageInv, TempInv, WrittenInv, Active, Returned, Staging, Opened, Steps
  <2> QED
    BY <1>0, <2>2, <2>3 DEF CommitInv
<1>4. CASE UNCHANGED vars
  BY <1>0, <1>4 DEF vars, CommitInv, RunInv, StageInv, TempInv, WrittenInv, OutInv
<1> QED
  BY <1>1, <1>2, <1>3, <1>4 DEF Next

\* How far a run got tells which of its outputs are staged and which are
\* renamed, and every staged file is complete and synced: the strengthening
\* that OutputsAreComplete and InstallsComeLast follow from.
THEOREM CommitInvariant == Spec => []CommitInv
  BY InitCommitInv, StepCommitInv, PTL DEF Spec

\* No failure, crash, power loss, interference or second run ever puts an
\* incomplete or unsynced file at an output path.
THEOREM OutputsAreComplete == Spec => []OnlyCompleteOutputs
<1>1. CommitInv => OnlyCompleteOutputs
  BY DEF CommitInv, OutInv, OnlyCompleteOutputs
<1> QED
  BY <1>1, CommitInvariant, PTL

\* What changes an output: a rename by a run that has staged everything and
\* replaced exactly the earlier outputs, or another program.
LEMMA StepInstalls ==
  ASSUME CommitInv, [Next]_vars, NEW i \in Outputs, NEW l \in Places, NEW r \in Runs,
         out'[i][l].content = r, out[i][l] # out'[i][l]
  PROVE  \A j \in Outputs : stage[r][j] = IF j < i THEN "renamed" ELSE "temp"
<1>0. /\ out \in [Outputs -> [Places -> Node]] /\ idx \in [Runs -> Outputs] /\ r \notin Foreign
      /\ temp \in [Runs -> [Outputs -> Temp]] /\ Outputs \subseteq Nat
  BY ConstantsAssumption DEF CommitInv, TypeOK, Foreign, Outputs
<1>1. ASSUME NEW q \in Runs, RunStep(q)
      PROVE  \A j \in Outputs : stage[r][j] = IF j < i THEN "renamed" ELSE "temp"
  <2>1. Rename(q)
    BY <1>1 DEF RunStep, Plan, Start, Inspect, PlanningFails, Generate, Stage, MakeDirectory,
                CheckDirectory, CreateTemp, FillTemp, SyncTemp, StagingFailsEarly,
                StagingFailsLate, Discard, Install, CheckLink, RenameFails, Cleanup, Crash
  <2>2. /\ pc[q] = "rename"
        /\ temp[q][idx[q]].node.kind = "file"
        /\ out' = [out EXCEPT ![idx[q]][Resolve(idx[q])] = temp[q][idx[q]].node]
    BY <2>1 DEF Rename, At, TempReachable
  <2>3. \A j \in Outputs : stage[q][j] = IF j < idx[q] THEN "renamed" ELSE "temp"
    BY <2>2 DEF CommitInv, RunInv, StageInv
  <2>4. temp[q][idx[q]].node.content = q
    BY <1>0, <2>2, <2>3 DEF CommitInv, RunInv, TempInv
  <2>5. i = idx[q] /\ out'[i][l] = temp[q][idx[q]].node
    BY <1>0, <2>2
  <2> QED
    BY <2>3, <2>4, <2>5
<1>2. ~ Disturb
  <2> SUFFICES ASSUME Disturb PROVE FALSE
    OBVIOUS
  <2>1. PICK k \in Outputs : Intrude(k) \/ Retarget(k)
    BY DEF Disturb
  <2>2. Intrude(k)
    BY <2>1 DEF Retarget
  <2>3. /\ \A m : File("edited", m, TRUE).content = "edited"
        /\ Absent.content = "nothing" /\ Link.content = "nothing"
    BY DEF File, Absent, Link
  <2>4. PICK node : /\ out' = [out EXCEPT ![k][Resolve(k)] = node]
                    /\ node \in {File("edited", out[k][Resolve(k)].mode, TRUE), Absent, Link}
    BY <2>2 DEF Intrude
  <2>5. node.content \in Foreign
    BY <2>3, <2>4 DEF Foreign
  <2>6. out'[i][l] = out[i][l] \/ out'[i][l] = node
    BY <1>0, <2>4
  <2> QED
    BY <1>0, <2>5, <2>6
<1>3. ~ LosePower
  BY DEF LosePower, PowerLoss, Damaged, CommitInv, OutInv
<1>4. ~ UNCHANGED vars
  BY DEF vars
<1> QED
  BY <1>1, <1>2, <1>3, <1>4 DEF Next

\* No output is replaced before every output is staged, and the replaced
\* outputs are always a prefix of the plan.
THEOREM InstallsComeLast == Spec => InstallsAfterAllStaged
<1>1. CommitInv /\ [Next]_vars
        => [\A i \in Outputs, l \in Places, r \in Runs :
              out'[i][l].content = r /\ out[i][l] # out'[i][l]
                => \A j \in Outputs : stage[r][j] = IF j < i THEN "renamed" ELSE "temp"]_vars
  BY StepInstalls
<1> QED
  BY <1>1, CommitInvariant, PTL DEF Spec, InstallsAfterAllStaged
-----------------------------------------------------------------------------
(***************************************************************************)
(* Where a run of OutputCommit puts its files: it writes only in the       *)
(* directories it planned for, and it leaves no temporary file behind; a   *)
(* run that is alone installs its own generation with the planned modes.   *)
(***************************************************************************)

\* The directory of an output, from the check to the rename.
DirInv(r) ==
  \A j \in Outputs : j \notin moved[r] =>
    /\ stage[r][j] # "none" \/ (idx[r] = j /\ pc[r] \in Opened \cup {"create"})
         => Resolve(j) = plan[r][j].dir
    /\ temp[r][j].node.kind = "file" \/ (idx[r] = j /\ pc[r] \in Opened)
         => /\ Checked(r, j)
            /\ Resolve(j) = plan[r][j].dir
            /\ temp[r][j].at = plan[r][j].dir
    /\ \A l \in Places : out[j][l].content = r => l = plan[r][j].dir

PlaceInv == \A r \in Runs : DirInv(r)

\* Which temporary files the cleanup still has to remove.
SweepInv(r) ==
  \A j \in Outputs :
    /\ temp[r][j].node.kind # "link"
    /\ stage[r][j] = "renamed" => temp[r][j].node.kind = "absent"
    /\ pc[r] = "cleanup" /\ j \notin moved[r] /\ temp[r][j].node.kind = "file"
         => stage[r][j] = "temp" /\ idx[r] <= j
    /\ pc[r] = "done" /\ j \notin moved[r] => temp[r][j].node.kind = "absent"
-----------------------------------------------------------------------------
\* No run has planned, staged or replaced anything yet.
LEMMA InitPlaceInv == Init => PlaceInv
<1> SUFFICES ASSUME Init, NEW r \in Runs PROVE DirInv(r)
  BY DEF PlaceInv
<1>1. ASSUME NEW i \in Outputs, NEW l \in Places PROVE out[i][l].content \in Foreign
  BY DEF Init, Absent, File, Foreign, Places
<1>2. /\ pc[r] = "idle"
      /\ \A j \in Outputs : stage[r][j] = "none" /\ temp[r][j].node.kind = "absent"
  BY DEF Init, NoTemp, Absent
<1> QED
  BY <1>1, <1>2, ConstantsAssumption DEF DirInv, Foreign, Opened

\* What a directory or file outside a run's own variables becomes in a step of
\* a run: only MkdirAll touches a parent, and only Rename an output.
LEMMA RunFrame ==
  ASSUME CommitInv, NEW r \in Runs, RunStep(r)
  PROVE  /\ moved' = moved
         /\ \A j \in Outputs : Resolve(j)' = Resolve(j)
         /\ \A j \in Outputs, l \in Places, q \in Runs :
              out'[j][l].content = q =>
                \/ out[j][l].content = q
                \/ q = r /\ Rename(r) /\ j = idx[r] /\ l = Resolve(j) /\ stage[r][j] = "temp"
<1>0. /\ parent \in [Outputs -> Places \cup {"missing"}] /\ idx \in [Runs -> Outputs]
      /\ out \in [Outputs -> [Places -> Node]] /\ temp \in [Runs -> [Outputs -> Temp]]
      /\ \A j \in Outputs : Resolve(j) \in Places
  BY DEF CommitInv, TypeOK, Resolve, Places
<1>1. moved' = moved
  BY DEF RunStep
<1>2. ASSUME NEW j \in Outputs PROVE Resolve(j)' = Resolve(j)
  <2>1. CASE MakeDirectory(r)
    BY <1>0, <2>1 DEF MakeDirectory, Resolve
  <2>2. CASE UNCHANGED parent
    BY <2>2 DEF Resolve
  <2> QED
    BY <2>1, <2>2
    DEF RunStep, Plan, Start, Inspect, PlanningFails, Generate, Stage, CheckDirectory,
        CreateTemp, FillTemp, SyncTemp, StagingFailsEarly, StagingFailsLate, Discard,
        Install, CheckLink, Rename, RenameFails, Cleanup, Crash
<1>3. ASSUME NEW j \in Outputs, NEW l \in Places, NEW q \in Runs, out'[j][l].content = q
      PROVE  \/ out[j][l].content = q
             \/ q = r /\ Rename(r) /\ j = idx[r] /\ l = Resolve(j) /\ stage[r][j] = "temp"
  <2>1. CASE Rename(r)
    <3>1. /\ pc[r] = "rename" /\ temp[r][idx[r]].node.kind = "file"
          /\ out' = [out EXCEPT ![idx[r]][Resolve(idx[r])] = temp[r][idx[r]].node]
      BY <2>1 DEF Rename, At, TempReachable
    <3>2. stage[r][idx[r]] = "temp" /\ temp[r][idx[r]].node.content = r
      BY <1>0, <3>1 DEF CommitInv, RunInv, StageInv, TempInv, Outputs
    <3> QED
      BY <1>0, <1>3, <2>1, <3>1, <3>2
  <2>2. CASE UNCHANGED out
    BY <1>3, <2>2
  <2> QED
    BY <2>1, <2>2
    DEF RunStep, Plan, Start, Inspect, PlanningFails, Generate, Stage, MakeDirectory,
        CheckDirectory, CreateTemp, FillTemp, SyncTemp, StagingFailsEarly,
        StagingFailsLate, Discard, Install, CheckLink, RenameFails, Cleanup, Crash
<1> QED
  BY <1>1, <1>2, <1>3

\* The run that takes the step keeps its directories, one action at a time.
LEMMA OwnPlaces ==
  ASSUME CommitInv, NEW r \in Runs, DirInv(r), RunStep(r)
  PROVE  DirInv(r)'
<1> DEFINE i == idx[r]
<1>0. /\ pc \in [Runs -> Steps] /\ idx \in [Runs -> Outputs] /\ i \in 1..N /\ N \in Nat
      /\ temp \in [Runs -> [Outputs -> Temp]] /\ plan \in [Runs -> [Outputs -> Planned]]
      /\ stage \in [Runs -> [Outputs -> {"none", "temp", "renamed"}]]
      /\ StageInv(r) /\ TempInv(r)
      /\ \A j \in Outputs : temp[r][j] \in Temp /\ temp[r][j].node \in Node
  BY ConstantsAssumption DEF CommitInv, TypeOK, Outputs, RunInv, Temp
<1>f. /\ moved' = moved
      /\ \A j \in Outputs : Resolve(j)' = Resolve(j)
      /\ \A j \in Outputs, l \in Places :
              out'[j][l].content = r =>
                \/ out[j][l].content = r
                \/ Rename(r) /\ j = idx[r] /\ l = Resolve(j) /\ stage[r][j] = "temp"
  BY RunFrame
<1>r. \A j \in Outputs, l \in Places : out[j][l].content = r => stage[r][j] = "renamed"
  BY DEF CommitInv, OutInv
\* Rewriting the current temporary file leaves it where it is.
<1>t. ASSUME FillTemp(r) \/ SyncTemp(r) \/ StagingFailsLate(r)
      PROVE  \A j \in Outputs : /\ temp'[r][j].at = temp[r][j].at
                                /\ j # i => temp'[r][j] = temp[r][j]
  <2>1. ASSUME NEW n, temp' = [temp EXCEPT ![r][i].node = n]
        PROVE  \A j \in Outputs : /\ temp'[r][j].at = temp[r][j].at
                                  /\ j # i => temp'[r][j] = temp[r][j]
    BY <1>0, <2>1 DEF Temp
  <2>2. PICK n : temp' = [temp EXCEPT ![r][i].node = n]
    BY <1>t DEF FillTemp, SyncTemp, StagingFailsLate
  <2> QED
    BY <2>1, <2>2
\* Once the plan is fixed an output that holds the run's content keeps its place.
<1>p. ASSUME plan' = plan
      PROVE  \A j \in Outputs, l \in Places :
               j \notin moved'[r] /\ out'[j][l].content = r => l = plan'[r][j].dir
  BY <1>f, <1>p DEF DirInv
<1>a. CASE Inspect(r)
  <2>1. /\ pc[r] = "inspect" /\ pc'[r] \in {"inspect", "generate"}
        /\ stage' = stage /\ temp' = temp
    BY <1>0, <1>a DEF Inspect, Goto, At
  <2>2. \A j \in Outputs : stage[r][j] = "none" /\ temp[r][j].node.kind # "file"
    BY <1>0, <2>1 DEF StageInv, TempInv, Returned, Opened
  <2>3. \A j \in Outputs, l \in Places : out'[j][l].content # r
    BY <1>f, <1>r, <2>1, <2>2 DEF Rename, At
  <2> QED
    BY <2>1, <2>2, <2>3 DEF DirInv, Opened
<1>b. CASE plan' = plan /\ ~Inspect(r)
  <2> DEFINE Busy == Opened \cup {"create"}
  <2> SUFFICES ASSUME NEW j \in Outputs, j \notin moved[r]
               PROVE  /\ stage'[r][j] # "none" \/ (idx'[r] = j /\ pc'[r] \in Busy)
                           => Resolve(j) = plan[r][j].dir
                      /\ temp'[r][j].node.kind = "file" \/ (idx'[r] = j /\ pc'[r] \in Opened)
                           => /\ Checked(r, j)'
                              /\ Resolve(j) = plan[r][j].dir
                              /\ temp'[r][j].at = plan[r][j].dir
    BY <1>b, <1>f, <1>p DEF DirInv
  <2>0. /\ stage[r][j] # "none" \/ (i = j /\ pc[r] \in Busy) => Resolve(j) = plan[r][j].dir
        /\ temp[r][j].node.kind = "file" \/ (i = j /\ pc[r] \in Opened)
             => /\ Checked(r, j)
                /\ Resolve(j) = plan[r][j].dir
                /\ temp[r][j].at = plan[r][j].dir
        /\ temp[r][j].node.kind = "file" /\ stage[r][j] = "none"
             => /\ pc[r] \in Returned \cup {"cleanup"} \cup Opened
                /\ pc[r] \in Opened => j = i
    BY <1>0 DEF DirInv, TempInv
  <2> USE <1>0, <2>0 DEF Goto, Refuse, At, Opened, Outputs, Returned, Checked
  <2>1. CASE Start(r)
    BY <2>1 DEF Start
  <2>3. CASE PlanningFails(r)
    BY <2>3 DEF PlanningFails
  <2>4. CASE Generate(r)
    BY <2>4 DEF Generate
  <2>5. CASE MakeDirectory(r)
    BY <2>5 DEF MakeDirectory
  <2>6. CASE CheckDirectory(r)
    BY <2>6 DEF CheckDirectory
  <2>7. CASE CreateTemp(r)
    <3>1. temp'[r][j] = IF j = i THEN [node |-> File("partial", DefaultMode, FALSE), at |-> Resolve(i)]
                        ELSE temp[r][j]
      BY <2>7 DEF CreateTemp
    <3> QED
      BY <2>7, <3>1 DEF CreateTemp
  <2>8. CASE FillTemp(r)
    BY <2>8, <1>t DEF FillTemp
  <2>9. CASE SyncTemp(r)
    BY <2>9, <1>t DEF SyncTemp
  <2>10. CASE StagingFailsEarly(r)
    BY <2>10 DEF StagingFailsEarly
  <2>11. CASE StagingFailsLate(r)
    BY <2>11, <1>t DEF StagingFailsLate
  <2>12. CASE Discard(r)
    <3>1. temp'[r][j] = temp[r][j] \/ temp'[r][j].node.kind = "absent"
      BY <2>12 DEF Discard, NoTemp, Absent
    <3> QED
      BY <2>12, <3>1 DEF Discard
  <2>13. CASE CheckLink(r)
    BY <2>13 DEF CheckLink
  <2>14. CASE Rename(r)
    <3>1. temp'[r][j] = temp[r][j] \/ temp'[r][j].node.kind = "absent"
      BY <2>14 DEF Rename, NoTemp, Absent
    <3>2. stage[r][j] # "none"
      BY <2>14 DEF Rename, StageInv
    <3> QED
      BY <2>14, <3>1, <3>2 DEF Rename
  <2>15. CASE RenameFails(r)
    BY <2>15 DEF RenameFails
  <2>16. CASE Cleanup(r)
    <3>1. temp'[r][j] = temp[r][j] \/ temp'[r][j].node.kind = "absent"
      BY <2>16 DEF Cleanup, NoTemp, Absent
    <3> QED
      BY <2>16, <3>1 DEF Cleanup
  <2>17. CASE Crash(r)
    BY <2>17 DEF Crash
  <2> QED
    BY <1>b, <2>1, <2>3, <2>4, <2>5, <2>6, <2>7, <2>8, <2>9, <2>10, <2>11, <2>12,
       <2>13, <2>14, <2>15, <2>16, <2>17 DEF RunStep, Plan, Stage, Install
<1> QED
  BY <1>a, <1>b
  DEF RunStep, Plan, Start, PlanningFails, Generate, Stage, MakeDirectory,
      CheckDirectory, CreateTemp, FillTemp, SyncTemp, StagingFailsEarly,
      StagingFailsLate, Discard, Install, CheckLink, Rename, RenameFails, Cleanup, Crash

\* Nobody else moves a run's files, and a directory that is exchanged under a
\* run that has checked it counts as moved.
LEMMA StepPlaceInv == CommitInv /\ PlaceInv /\ [Next]_vars => PlaceInv'
<1> SUFFICES ASSUME CommitInv, PlaceInv, [Next]_vars, NEW r \in Runs PROVE DirInv(r)'
  BY DEF PlaceInv
<1>0. /\ DirInv(r) /\ TypeOK /\ r \notin Foreign /\ RunInv(r)
      /\ \A j \in Outputs, l \in Places : out[j][l].content = r => stage[r][j] # "none"
  BY ConstantsAssumption DEF PlaceInv, CommitInv, OutInv, Foreign
<1>1. ASSUME NEW q \in Runs, RunStep(q) PROVE DirInv(r)'
  <2>1. CASE q = r
    BY <1>0, <1>1, <2>1, OwnPlaces
  <2>2. CASE q # r
    <3>1. /\ pc'[r] = pc[r] /\ idx'[r] = idx[r] /\ stage'[r] = stage[r]
          /\ temp'[r] = temp[r] /\ plan'[r] = plan[r]
      BY <1>0, <1>1, <2>2, OtherRuns
    <3>2. /\ moved' = moved
          /\ \A j \in Outputs : Resolve(j)' = Resolve(j)
          /\ \A j \in Outputs, l \in Places : out'[j][l].content = r => out[j][l].content = r
      BY <1>1, <2>2, RunFrame
    <3> QED
      BY <1>0, <3>1, <3>2 DEF DirInv, Checked
  <2> QED
    BY <2>1, <2>2
<1>2. ASSUME Disturb PROVE DirInv(r)'
  <2>1. PICK k \in Outputs : Intrude(k) \/ Retarget(k)
    BY <1>2 DEF Disturb
  <2>2. CASE Intrude(k)
    <3>1. /\ \A m : File("edited", m, TRUE).content = "edited"
          /\ Absent.content = "nothing" /\ Link.content = "nothing"
      BY DEF File, Absent, Link
    <3>2. PICK node : /\ out' = [out EXCEPT ![k][Resolve(k)] = node]
                      /\ node \in {File("edited", out[k][Resolve(k)].mode, TRUE), Absent, Link}
      BY <2>2 DEF Intrude
    <3>3. node.content \in Foreign
      BY <3>1, <3>2 DEF Foreign
    <3>4. ASSUME NEW j \in Outputs, NEW l \in Places, out'[j][l].content = r
          PROVE  out[j][l].content = r
      BY <1>0, <3>2, <3>3, <3>4 DEF TypeOK
    <3>5. \A j \in Outputs : Resolve(j)' = Resolve(j)
      BY <2>2 DEF Intrude, Resolve
    <3> QED
      BY <1>0, <2>2, <3>4, <3>5 DEF Intrude, DirInv, Checked
  <2>3. CASE Retarget(k)
    <3>1. /\ \A j \in Outputs : j # k => Resolve(j)' = Resolve(j)
          /\ moved'[r] = IF Checked(r, k) THEN moved[r] \cup {k} ELSE moved[r]
          /\ UNCHANGED <<out, pc, idx, plan, temp, stage>>
      BY <1>0, <2>3 DEF Retarget, Resolve, TypeOK
    <3>2. ASSUME NEW j \in Outputs, j \notin moved'[r] PROVE j # k \/ ~Checked(r, j)
      BY <3>1, <3>2
    <3> QED
      BY <1>0, <3>1, <3>2 DEF DirInv, Checked, Opened
  <2> QED
    BY <2>1, <2>2, <2>3
<1>3. ASSUME LosePower PROVE DirInv(r)'
  <2>1. ASSUME NEW j \in Outputs, NEW l \in Places PROVE out'[j][l] = out[j][l]
    BY <1>3 DEF LosePower, PowerLoss, Damaged, CommitInv, OutInv
  <2>2. ASSUME NEW j \in Outputs
        PROVE  temp'[r][j].node.kind = temp[r][j].node.kind /\ temp'[r][j].at = temp[r][j].at
    <3>1. temp[r][j] \in Temp /\ temp[r][j].node \in Node
      BY <1>0 DEF TypeOK, Temp
    <3>2. temp'[r][j] = [temp[r][j] EXCEPT !.node = Damaged(temp[r][j].node)]
      BY <1>3 DEF LosePower, PowerLoss
    <3> QED
      BY <3>1, <3>2 DEF Damaged, Temp, Node
  <2>3. /\ stage' = stage /\ moved' = moved /\ plan' = plan
        /\ pc'[r] = (IF Active(r) THEN "crashed" ELSE pc[r])
        /\ idx'[r] = (IF Active(r) THEN 1 ELSE idx[r])
        /\ \A j \in Outputs : Resolve(j)' = Resolve(j)
    BY <1>3 DEF LosePower, PowerLoss, history, Resolve
  <2> QED
    BY <1>0, <2>1, <2>2, <2>3 DEF DirInv, Checked, Active, Opened, Returned
<1>4. CASE UNCHANGED vars
  BY <1>0, <1>4 DEF vars, DirInv, Checked, Resolve
<1> QED
  BY <1>1, <1>2, <1>3, <1>4 DEF Next

\* What a run has staged or replaced is in the directory it planned for, as
\* long as the parent was not exchanged after the run checked it.
THEOREM PlaceInvariant == Spec => []PlaceInv
  BY InitPlaceInv, StepPlaceInv, CommitInvariant, PTL DEF Spec

\* Unless a parent directory is exchanged after a run's last look at it, the
\* run creates and replaces files only in the directories it planned for.
THEOREM WritesOnlyWherePlanned == Spec => []PlannedPlacesOnly
<1>1. PlaceInv => PlannedPlacesOnly
  BY DEF PlaceInv, DirInv, PlannedPlacesOnly
<1> QED
  BY <1>1, PlaceInvariant, PTL
-----------------------------------------------------------------------------
\* There is no temporary file yet.
LEMMA InitSweepInv == Init => \A r \in Runs : SweepInv(r)
  BY DEF Init, SweepInv, NoTemp, Absent

\* A removal that the directory allows succeeds when remove does not fail, so
\* the cleanup leaves behind only what is not where the run put it.
LEMMA OwnSweep ==
  ASSUME CommitInv, NEW r \in Runs, DirInv(r), SweepInv(r), RunStep(r), ~Fails("remove")
  PROVE  SweepInv(r)'
<1> DEFINE i == idx[r]
<1>0. /\ pc \in [Runs -> Steps] /\ idx \in [Runs -> Outputs] /\ i \in 1..N /\ N \in Nat
      /\ temp \in [Runs -> [Outputs -> Temp]]
      /\ stage \in [Runs -> [Outputs -> {"none", "temp", "renamed"}]]
      /\ moved' = moved
  BY ConstantsAssumption, RunFrame DEF CommitInv, TypeOK, Outputs
<1> SUFFICES ASSUME NEW j \in Outputs
    PROVE  /\ temp'[r][j].node.kind # "link"
           /\ stage'[r][j] = "renamed" => temp'[r][j].node.kind = "absent"
           /\ pc'[r] = "cleanup" /\ j \notin moved[r] /\ temp'[r][j].node.kind = "file"
                => stage'[r][j] = "temp" /\ idx'[r] <= j
           /\ pc'[r] = "done" /\ j \notin moved[r] => temp'[r][j].node.kind = "absent"
  BY <1>0 DEF SweepInv
<1>1. /\ temp[r][j].node.kind \in {"absent", "file"}
      /\ stage[r][j] = "renamed" => temp[r][j].node.kind = "absent"
      /\ pc[r] = "cleanup" /\ j \notin moved[r] /\ temp[r][j].node.kind = "file"
           => stage[r][j] = "temp" /\ i <= j
  <2>1. temp[r][j] \in Temp /\ temp[r][j].node \in Node
    BY <1>0 DEF Temp
  <2> QED
    BY <2>1 DEF SweepInv, Node
<1>2. /\ pc[r] \in {"idle", "inspect", "generate"} => stage[r][j] = "none"
      /\ pc[r] \in Staging => stage[r][j] = IF j < i THEN "temp" ELSE "none"
      /\ pc[r] \in {"lstat", "rename"} => stage[r][j] = IF j < i THEN "renamed" ELSE "temp"
      /\ stage[r][j] \in {"none", "temp", "renamed"} /\ j \in 1..N
      /\ temp[r][j].node.kind = "file" /\ stage[r][j] = "none"
           => /\ pc[r] \in Returned \cup {"cleanup"} \cup Opened
              /\ pc[r] \in Opened => j = i
      /\ j \notin moved[r] /\ temp[r][j].node.kind = "file" => TempReachable(r, j)
  <2>1. StageInv(r) /\ TempInv(r)
    BY DEF CommitInv, RunInv
  <2>2. j \notin moved[r] /\ temp[r][j].node.kind = "file" => TempReachable(r, j)
    BY DEF DirInv, TempReachable
  <2>3. stage[r][j] \in {"none", "temp", "renamed"} /\ j \in 1..N
    BY <1>0 DEF Outputs
  <2> QED
    BY <2>1, <2>2, <2>3 DEF StageInv, TempInv
<1> USE <1>0, <1>1, <1>2 DEF Goto, Refuse, At, Opened, Outputs, Returned, Staging
<1>11. CASE Start(r)
  BY <1>11 DEF Start
<1>12. CASE Inspect(r)
  BY <1>12 DEF Inspect
<1>13. CASE PlanningFails(r)
  BY <1>13 DEF PlanningFails
<1>14. CASE Generate(r)
  BY <1>14 DEF Generate
<1>15. CASE MakeDirectory(r)
  BY <1>15 DEF MakeDirectory
<1>16. CASE CheckDirectory(r)
  BY <1>16 DEF CheckDirectory
<1>17. CASE CreateTemp(r)
  <2>1. temp'[r][j] = IF j = i THEN [node |-> File("partial", DefaultMode, FALSE), at |-> Resolve(i)]
                      ELSE temp[r][j]
    BY <1>17 DEF CreateTemp
  <2> QED
    BY <1>17, <2>1 DEF CreateTemp, File
<1>18. CASE FillTemp(r) \/ StagingFailsLate(r)
  <2>1. ASSUME NEW n, n.kind = "file", temp' = [temp EXCEPT ![r][i].node = n]
        PROVE  /\ temp'[r][j].node.kind \in {temp[r][j].node.kind, "file"}
               /\ j # i => temp'[r][j] = temp[r][j]
    BY <2>1 DEF Temp
  <2>2. \A c, m : File(c, m, FALSE).kind = "file"
    BY DEF File
  <2>3. CASE FillTemp(r)
    <3>1. temp' = [temp EXCEPT ![r][i].node =
             File(r, IF plan[r][i].exists THEN plan[r][i].mode ELSE temp[r][i].node.mode, FALSE)]
      BY <2>3 DEF FillTemp
    <3>2. /\ temp'[r][j].node.kind \in {temp[r][j].node.kind, "file"}
          /\ j # i => temp'[r][j] = temp[r][j]
      BY <2>1, <2>2, <3>1
    <3> QED
      BY <2>3, <3>2 DEF FillTemp
  <2>4. CASE StagingFailsLate(r)
    <3>1. PICK m : temp' = [temp EXCEPT ![r][i].node = File("partial", m, FALSE)]
      BY <2>4 DEF StagingFailsLate
    <3>2. /\ temp'[r][j].node.kind \in {temp[r][j].node.kind, "file"}
          /\ j # i => temp'[r][j] = temp[r][j]
      BY <2>1, <2>2, <3>1
    <3> QED
      BY <2>4, <3>2 DEF StagingFailsLate
  <2> QED
    BY <1>18, <2>3, <2>4
<1>19. CASE SyncTemp(r)
  <2>1. temp'[r][j].node.kind = temp[r][j].node.kind
    BY <1>19 DEF SyncTemp, Temp, Node
  <2> QED
    BY <1>19, <2>1 DEF SyncTemp
<1>20. CASE StagingFailsEarly(r)
  BY <1>20 DEF StagingFailsEarly
<1>21. CASE Discard(r)
  <2>1. \/ TempReachable(r, i) /\ temp' = [temp EXCEPT ![r][i] = NoTemp]
        \/ ~TempReachable(r, i) /\ temp' = temp
    BY <1>21 DEF Discard
  <2>2. /\ temp'[r][j] = temp[r][j] \/ temp'[r][j].node.kind = "absent"
        /\ j = i /\ j \notin moved[r] => temp'[r][j].node.kind # "file"
    BY <2>1 DEF NoTemp, Absent
  <2> QED
    BY <1>21, <2>2 DEF Discard
<1>22. CASE CheckLink(r)
  BY <1>22 DEF CheckLink
<1>23. CASE Rename(r)
  <2>1. /\ temp'[r][j] = temp[r][j] \/ temp'[r][j].node.kind = "absent"
        /\ j = i => temp'[r][j].node.kind = "absent"
        /\ stage'[r][j] = IF j = i THEN "renamed" ELSE stage[r][j]
    BY <1>23 DEF Rename, NoTemp, Absent
  <2> QED
    BY <1>23, <2>1 DEF Rename
<1>24. CASE RenameFails(r)
  BY <1>24 DEF RenameFails
<1>25. CASE Cleanup(r)
  <2>1. /\ temp'[r][j] = temp[r][j] \/ temp'[r][j].node.kind = "absent"
        /\ j = i /\ j \notin moved[r] => temp'[r][j].node.kind # "file"
    BY <1>25 DEF Cleanup, NoTemp, Absent
  <2> QED
    BY <1>25, <2>1 DEF Cleanup
<1>26. CASE Crash(r)
  BY <1>26 DEF Crash
<1> QED
  BY <1>11, <1>12, <1>13, <1>14, <1>15, <1>16, <1>17, <1>18, <1>19, <1>20, <1>21,
     <1>22, <1>23, <1>24, <1>25, <1>26 DEF RunStep, Plan, Stage, Install

\* No step of any actor leaves a temporary file behind that the cleanup misses.
LEMMA StepSweepInv ==
  ASSUME CommitInv, PlaceInv, \A r \in Runs : SweepInv(r), [Next]_vars, ~Fails("remove")
  PROVE  \A r \in Runs : SweepInv(r)'
<1> SUFFICES ASSUME NEW r \in Runs PROVE SweepInv(r)'
  OBVIOUS
<1>0. DirInv(r) /\ SweepInv(r) /\ TypeOK
  BY DEF PlaceInv, CommitInv
<1>1. ASSUME NEW q \in Runs, RunStep(q) PROVE SweepInv(r)'
  <2>1. CASE q = r
    BY <1>0, <1>1, <2>1, OwnSweep
  <2>2. CASE q # r
    BY <1>0, <1>1, <2>2, OtherRuns, RunFrame DEF SweepInv
  <2> QED
    BY <2>1, <2>2
<1>2. ASSUME Disturb PROVE SweepInv(r)'
  <2>1. /\ pc' = pc /\ idx' = idx /\ temp' = temp /\ stage' = stage
        /\ moved[r] \subseteq moved'[r]
    <3>1. PICK k \in Outputs : Intrude(k) \/ Retarget(k)
      BY <1>2 DEF Disturb
    <3>2. CASE Intrude(k)
      BY <3>2 DEF Intrude
    <3>3. CASE Retarget(k)
      BY <1>0, <3>3 DEF Retarget, TypeOK
    <3> QED
      BY <3>1, <3>2, <3>3
  <2> QED
    BY <1>0, <2>1 DEF SweepInv
<1>3. ASSUME LosePower PROVE SweepInv(r)'
  <2>1. ASSUME NEW j \in Outputs PROVE temp'[r][j].node.kind = temp[r][j].node.kind
    <3>1. temp[r][j] \in Temp /\ temp[r][j].node \in Node
      BY <1>0 DEF TypeOK, Temp
    <3>2. temp'[r][j] = [temp[r][j] EXCEPT !.node = Damaged(temp[r][j].node)]
      BY <1>3 DEF LosePower, PowerLoss
    <3> QED
      BY <3>1, <3>2 DEF Damaged, Temp, Node
  <2>2. /\ stage' = stage /\ moved' = moved
        /\ pc'[r] = (IF Active(r) THEN "crashed" ELSE pc[r])
        /\ idx'[r] = (IF Active(r) THEN 1 ELSE idx[r])
    BY <1>3 DEF LosePower, PowerLoss, history
  <2> QED
    BY <1>0, <2>1, <2>2 DEF SweepInv, Active, Returned
<1>4. CASE UNCHANGED vars
  BY <1>0, <1>4 DEF vars, SweepInv
<1> QED
  BY <1>1, <1>2, <1>3, <1>4 DEF Next

\* When removing a file does not fail, a run that returned has left none of
\* its temporary files, whatever else failed, except where a parent directory
\* was exchanged under it.
THEOREM LeavesNoStrayTemps ==
  ASSUME ~Fails("remove")
  PROVE  Spec => []NoStrayTemps
<1> DEFINE AllSweep == \A r \in Runs : SweepInv(r)
<1>1. Init => AllSweep
  BY InitSweepInv
<1>2. CommitInv /\ PlaceInv /\ AllSweep /\ [Next]_vars => AllSweep'
  BY StepSweepInv
<1>3. AllSweep => NoStrayTemps
  BY DEF SweepInv, NoStrayTemps
<1> HIDE DEF AllSweep
<1> QED
  BY <1>1, <1>2, <1>3, CommitInvariant, PlaceInvariant, PTL DEF Spec
-----------------------------------------------------------------------------
\* The mode that the new file of output j will have.
Given(r, j) == IF plan[r][j].exists THEN plan[r][j].mode ELSE DefaultMode

\* The modes of the plan and of the temporary files made from it.
ModeInv(r) ==
  \A j \in Outputs :
    /\ ~plan[r][j].exists => plan[r][j].seen = DefaultMode
    /\ plan[r][j].exists /\ j # Capture => plan[r][j].mode = plan[r][j].seen
    /\ stage[r][j] = "temp" /\ temp[r][j].node.kind = "file" => temp[r][j].node.mode = Given(r, j)
    /\ j = idx[r] /\ pc[r] = "fill" => temp[r][j].node.mode = DefaultMode
    /\ j = idx[r] /\ pc[r] = "sync" => temp[r][j].node.mode = Given(r, j)

\* A run that is alone has checked the directories it works in, and what it has
\* replaced is still there; a run that will succeed has replaced everything.
SoloInv(r) ==
  /\ pc[r] = "idle" \/ (Active(r) /\ solo[r]) => moved[r] = {}
  /\ Active(r) /\ solo[r] =>
       \A j \in Outputs : stage[r][j] = "renamed" =>
         /\ out[j][plan[r][j].dir].content = r
         /\ out[j][plan[r][j].dir].mode = Given(r, j)
  /\ result[r] = "ok" => \A j \in Outputs : stage[r][j] = "renamed"

AloneInv == \A r \in Runs : ModeInv(r) /\ SoloInv(r)

\* Nothing is planned, and nobody has replaced anything.
LEMMA InitAloneInv == Init => AloneInv
<1> SUFFICES ASSUME Init, NEW r \in Runs PROVE ModeInv(r) /\ SoloInv(r)
  BY DEF AloneInv
<1>1. /\ pc[r] = "idle" /\ moved[r] = {} /\ result[r] = "none" /\ ~Active(r)
      /\ \A j \in Outputs : stage[r][j] = "none" /\ plan[r][j] = NotPlanned
  BY DEF Init, Active
<1>2. ~NotPlanned.exists /\ NotPlanned.seen = DefaultMode
  BY DEF NotPlanned
<1>3. ModeInv(r)
  BY <1>1, <1>2 DEF ModeInv
<1>4. SoloInv(r)
  BY <1>1 DEF SoloInv
<1> QED
  BY <1>3, <1>4

\* The fields of what Inspect records.
LEMMA PlannedFields ==
  ASSUME NEW d, NEW e, NEW s, NEW m
  PROVE  LET p == [dir |-> d, exists |-> e, seen |-> s, mode |-> m]
         IN p.exists = e /\ p.seen = s /\ p.mode = m
  OBVIOUS

\* Modes are planned once and given to the temporary file before it is synced.
LEMMA OwnModes ==
  ASSUME CommitInv, NEW r \in Runs, ModeInv(r), RunStep(r)
  PROVE  ModeInv(r)'
<1> DEFINE i == idx[r]
<1>0. /\ pc \in [Runs -> Steps] /\ idx \in [Runs -> Outputs] /\ i \in 1..N /\ N \in Nat
      /\ temp \in [Runs -> [Outputs -> Temp]] /\ plan \in [Runs -> [Outputs -> Planned]]
      /\ stage \in [Runs -> [Outputs -> {"none", "temp", "renamed"}]]
  BY ConstantsAssumption DEF CommitInv, TypeOK, Outputs
<1> SUFFICES ASSUME NEW j \in Outputs
    PROVE  /\ ~plan'[r][j].exists => plan'[r][j].seen = DefaultMode
           /\ plan'[r][j].exists /\ j # Capture => plan'[r][j].mode = plan'[r][j].seen
           /\ stage'[r][j] = "temp" /\ temp'[r][j].node.kind = "file"
                => temp'[r][j].node.mode = Given(r, j)'
           /\ j = idx'[r] /\ pc'[r] = "fill" => temp'[r][j].node.mode = DefaultMode
           /\ j = idx'[r] /\ pc'[r] = "sync" => temp'[r][j].node.mode = Given(r, j)'
  BY DEF ModeInv
<1>1. /\ ~plan[r][j].exists => plan[r][j].seen = DefaultMode
      /\ plan[r][j].exists /\ j # Capture => plan[r][j].mode = plan[r][j].seen
      /\ stage[r][j] = "temp" /\ temp[r][j].node.kind = "file" => temp[r][j].node.mode = Given(r, j)
      /\ j = i /\ pc[r] = "fill" => temp[r][j].node.mode = DefaultMode
      /\ j = i /\ pc[r] = "sync" => temp[r][j].node.mode = Given(r, j)
  BY DEF ModeInv
<1>2. /\ pc[r] \in {"idle", "inspect", "generate"} => stage[r][j] = "none"
      /\ pc[r] \in Staging => stage[r][j] = IF j < i THEN "temp" ELSE "none"
      /\ temp[r][j] \in Temp /\ temp[r][j].node \in Node /\ j \in 1..N
  BY <1>0 DEF CommitInv, RunInv, StageInv, Temp, Outputs
<1>a. CASE Inspect(r)
  <2>1. /\ stage'[r][j] = "none" /\ pc'[r] \notin {"fill", "sync"}
    BY <1>0, <1>2, <1>a DEF Inspect, Goto, At
  <2>2. /\ j # i => plan'[r][j] = plan[r][j]
        /\ plan'[r][i] = [dir |-> Resolve(i), exists |-> out[i][Resolve(i)].kind = "file",
                          seen |-> IF out[i][Resolve(i)].kind = "file"
                                   THEN out[i][Resolve(i)].mode ELSE DefaultMode,
                          mode |-> PlannedMode(i, out[i][Resolve(i)])]
    BY <1>0, <1>a DEF Inspect
  <2>3. /\ plan'[r][i].exists = (out[i][Resolve(i)].kind = "file")
        /\ plan'[r][i].seen = IF out[i][Resolve(i)].kind = "file"
                              THEN out[i][Resolve(i)].mode ELSE DefaultMode
        /\ plan'[r][i].mode = PlannedMode(i, out[i][Resolve(i)])
    BY <2>2, PlannedFields
  <2>4. CASE j # i
    BY <1>1, <2>1, <2>2, <2>4
  <2>5. CASE j = i
    <3>1. CASE out[i][Resolve(i)].kind = "file"
      BY <2>1, <2>3, <2>5, <3>1 DEF PlannedMode
    <3>2. CASE out[i][Resolve(i)].kind # "file"
      BY <2>1, <2>3, <2>5, <3>2
    <3> QED
      BY <3>1, <3>2
  <2> QED
    BY <2>4, <2>5
<1>b. CASE plan' = plan /\ ~Inspect(r)
  <2>g. Given(r, j)' = Given(r, j)
    BY <1>b DEF Given
  <2> USE <1>0, <1>1, <1>2, <1>b, <2>g DEF Goto, Refuse, At, Outputs, Returned, Staging
  <2>1. CASE Start(r)
    BY <2>1 DEF Start
  <2>3. CASE PlanningFails(r)
    BY <2>3 DEF PlanningFails
  <2>4. CASE Generate(r)
    BY <2>4 DEF Generate
  <2>5. CASE MakeDirectory(r)
    BY <2>5 DEF MakeDirectory
  <2>6. CASE CheckDirectory(r)
    BY <2>6 DEF CheckDirectory
  <2>7. CASE CreateTemp(r)
    <3>1. /\ j # i => temp'[r][j] = temp[r][j]
          /\ j = i => temp'[r][j].node = File("partial", DefaultMode, FALSE)
      BY <2>7 DEF CreateTemp
    <3>2. j = i => temp'[r][j].node.mode = DefaultMode
      BY <3>1 DEF File
    <3>3. stage'[r][j] = stage[r][j] /\ idx'[r] = i /\ pc'[r] = "fill" /\ pc[r] = "create"
      BY <2>7 DEF CreateTemp
    <3> QED
      BY <3>1, <3>2, <3>3
  <2>8. CASE FillTemp(r)
    <3> DEFINE n == File(r, IF plan[r][i].exists THEN plan[r][i].mode ELSE temp[r][i].node.mode, FALSE)
    <3>1. temp' = [temp EXCEPT ![r][i].node = n]
      BY <2>8 DEF FillTemp
    <3>2. j = i => n.mode = Given(r, j)
      BY <2>8 DEF FillTemp, Given, File
    <3> HIDE DEF n
    <3>3. /\ j # i => temp'[r][j] = temp[r][j]
          /\ j = i => temp'[r][j].node = n
      BY <3>1 DEF Temp
    <3> QED
      BY <2>8, <3>2, <3>3 DEF FillTemp
  <2>9. CASE SyncTemp(r)
    <3>1. /\ j # i => temp'[r][j] = temp[r][j]
          /\ temp'[r][j].node.mode = temp[r][j].node.mode
          /\ stage'[r][j] = IF j = i THEN "temp" ELSE stage[r][j]
      BY <2>9 DEF SyncTemp, Temp, Node
    <3>2. pc'[r] \notin {"fill", "sync"}
      BY <2>9 DEF SyncTemp
    <3> QED
      BY <2>9, <3>1, <3>2 DEF SyncTemp
  <2>10. CASE StagingFailsEarly(r)
    BY <2>10 DEF StagingFailsEarly
  <2>11. CASE StagingFailsLate(r)
    <3>1. PICK n : temp' = [temp EXCEPT ![r][i].node = n]
      BY <2>11 DEF StagingFailsLate
    <3>2. j # i => temp'[r][j] = temp[r][j]
      BY <3>1
    <3>3. /\ stage'[r][j] = stage[r][j] /\ pc'[r] = "discard"
          /\ pc[r] \in {"fill", "sync"}
      BY <2>11 DEF StagingFailsLate
    <3> QED
      BY <3>2, <3>3
  <2>12. CASE Discard(r) \/ Cleanup(r) \/ Rename(r)
    <3>1. temp'[r][j] = temp[r][j] \/ temp'[r][j].node.kind = "absent"
      BY <2>12 DEF Discard, Cleanup, Rename, NoTemp, Absent
    <3>2. stage'[r][j] = "temp" => stage[r][j] = "temp"
      BY <2>12 DEF Discard, Cleanup, Rename
    <3>3. pc'[r] \notin {"fill", "sync"}
      BY <2>12 DEF Discard, Cleanup, Rename
    <3> QED
      BY <3>1, <3>2, <3>3
  <2>13. CASE CheckLink(r)
    BY <2>13 DEF CheckLink
  <2>15. CASE RenameFails(r)
    BY <2>15 DEF RenameFails
  <2>17. CASE Crash(r)
    BY <2>17 DEF Crash
  <2> QED
    BY <2>1, <2>3, <2>4, <2>5, <2>6, <2>7, <2>8, <2>9, <2>10, <2>11, <2>12,
       <2>13, <2>15, <2>17 DEF RunStep, Plan, Stage, Install
<1> QED
  BY <1>a, <1>b
  DEF RunStep, Plan, Start, PlanningFails, Generate, Stage, MakeDirectory,
      CheckDirectory, CreateTemp, FillTemp, SyncTemp, StagingFailsEarly,
      StagingFailsLate, Discard, Install, CheckLink, Rename, RenameFails, Cleanup, Crash

\* Only Inspect changes what a run gives, only Rename what it has replaced.
LEMMA OwnSolo ==
  ASSUME CommitInv, NEW r \in Runs, DirInv(r), ModeInv(r), SoloInv(r), RunStep(r)
  PROVE  SoloInv(r)'
<1> DEFINE i == idx[r]
<1>0. /\ pc \in [Runs -> Steps] /\ idx \in [Runs -> Outputs] /\ i \in 1..N /\ N \in Nat
      /\ plan \in [Runs -> [Outputs -> Planned]] /\ result \in [Runs -> {"none", "ok", "error"}]
      /\ stage \in [Runs -> [Outputs -> {"none", "temp", "renamed"}]]
      /\ out \in [Outputs -> [Places -> Node]] /\ solo \in [Runs -> BOOLEAN]
      /\ StageInv(r) /\ TempInv(r) /\ \A j \in Outputs : Resolve(j) \in Places
  BY ConstantsAssumption DEF CommitInv, TypeOK, Outputs, RunInv, Resolve, Places
\* A run that is alone after its step was alone before, or had not started.
<1>1. /\ pc[r] \notin Returned /\ pc'[r] # "idle" /\ moved' = moved
      /\ Active(r)' /\ solo'[r] => pc[r] = "idle" \/ (Active(r) /\ solo[r])
  <2>1. pc[r] \notin Returned /\ pc'[r] # "idle"
    BY <1>0 DEF RunStep, Plan, Start, Inspect, PlanningFails, Generate, Stage, MakeDirectory,
        CheckDirectory, CreateTemp, FillTemp, SyncTemp, StagingFailsEarly, StagingFailsLate,
        Discard, Install, CheckLink, Rename, RenameFails, Cleanup, Crash, Active, At, Goto,
        Refuse, Returned
  <2>2. solo'[r] = IF pc[r] = "idle" THEN \A o \in Runs \ {r} : ~Active(o) ELSE solo[r]
    BY <1>0 DEF RunStep, At
  <2>3. moved' = moved
    BY DEF RunStep
  <2> QED
    BY <2>1, <2>2, <2>3 DEF Active
<1>2. Active(r)' /\ solo'[r] => moved'[r] = {}
  BY <1>1 DEF SoloInv
<1>a. CASE Inspect(r)
  <2>1. /\ pc[r] = "inspect" /\ stage' = stage /\ result' = result
    BY <1>a DEF Inspect, At
  <2>2. \A j \in Outputs : stage'[r][j] = "none"
    BY <1>0, <2>1 DEF StageInv
  <2> QED
    BY <1>1, <1>2, <2>1, <2>2 DEF SoloInv
<1>b. CASE Rename(r)
  <2>1. /\ pc[r] = "rename" /\ TempReachable(r, i) /\ plan' = plan
        /\ out' = [out EXCEPT ![i][Resolve(i)] = temp[r][i].node]
        /\ stage' = [stage EXCEPT ![r][i] = "renamed"]
    BY <1>b DEF Rename, At
  <2>r. result'[r] = "ok" => i = N \/ result[r] = "ok"
    <3>1. i < N => result' = result
      BY <1>b DEF Rename
    <3>2. i < N \/ i = N
      BY ConstantsAssumption DEF CommitInv, TypeOK, Outputs
    <3> QED
      BY <3>1, <3>2
  <2>2. \A j \in Outputs : stage[r][j] = IF j < i THEN "renamed" ELSE "temp"
    BY <1>0, <2>1 DEF StageInv
  <2>3. temp[r][i].node.content = r /\ temp[r][i].node.mode = Given(r, i)
    BY <1>0, <2>1, <2>2 DEF TempInv, ModeInv, TempReachable, Outputs
  <2>4. ASSUME Active(r)', solo'[r] PROVE Resolve(i) = plan[r][i].dir
    BY <1>0, <1>1, <1>2, <2>2, <2>4 DEF DirInv, Outputs
  <2>5. ASSUME Active(r)', solo'[r], NEW j \in Outputs, stage'[r][j] = "renamed"
        PROVE  out'[j][plan'[r][j].dir].content = r /\ out'[j][plan'[r][j].dir].mode = Given(r, j)'
    <3>1. Given(r, j)' = Given(r, j)
      BY <2>1 DEF Given
    <3>2. CASE j = i
      <4>1. out'[i][Resolve(i)] = temp[r][i].node
        BY <1>0, <2>1 DEF Outputs
      <4> QED
        BY <2>1, <2>3, <2>4, <2>5, <3>1, <3>2, <4>1
    <3>3. CASE j # i
      <4>1. out'[j] = out[j] /\ stage[r][j] = "renamed"
        BY <1>0, <2>1, <2>5, <3>3
      <4>2. Active(r) /\ solo[r]
        BY <1>1, <2>1, <2>5
      <4> QED
        BY <2>1, <3>1, <4>1, <4>2 DEF SoloInv
    <3> QED
      BY <3>2, <3>3
  <2>6. result'[r] = "ok" => \A j \in Outputs : stage'[r][j] = "renamed"
    BY <1>0, <2>1, <2>r, <2>2 DEF SoloInv, Outputs
  <2> QED
    BY <1>1, <1>2, <2>5, <2>6 DEF SoloInv
<1>c. CASE ~Inspect(r) /\ ~Rename(r)
  <2>1. plan' = plan /\ out' = out /\ result'[r] \in {result[r], "error"}
    BY <1>0, <1>c DEF RunStep, Plan, Start, PlanningFails, Generate, Stage, MakeDirectory,
        CheckDirectory, CreateTemp, FillTemp, SyncTemp, StagingFailsEarly, StagingFailsLate,
        Discard, Install, CheckLink, RenameFails, Cleanup, Crash, Refuse
  <2>2. stage' = stage \/ (pc[r] = "sync" /\ stage' = [stage EXCEPT ![r][i] = "temp"])
    BY <1>c DEF RunStep, Plan, Start, PlanningFails, Generate, Stage, MakeDirectory,
        CheckDirectory, CreateTemp, FillTemp, SyncTemp, StagingFailsEarly, StagingFailsLate,
        Discard, Install, CheckLink, RenameFails, Cleanup, Crash, At
  <2>3. /\ \A j \in Outputs : stage'[r][j] = "renamed" <=> stage[r][j] = "renamed"
    BY <1>0, <2>2 DEF StageInv, Staging, Outputs
  <2>4. ASSUME pc[r] = "idle" PROVE \A j \in Outputs : stage[r][j] # "renamed"
    BY <1>0, <2>4 DEF StageInv
  <2>5. \A j \in Outputs : Given(r, j)' = Given(r, j)
    BY <2>1 DEF Given
  <2> QED
    BY <1>1, <1>2, <2>1, <2>3, <2>4, <2>5 DEF SoloInv
<1> QED
  BY <1>a, <1>b, <1>c

\* Whoever else acts ends the solitude of a run, before it can do any harm.
LEMMA StepAloneInv == CommitInv /\ PlaceInv /\ AloneInv /\ [Next]_vars => AloneInv'
<1> SUFFICES ASSUME CommitInv, PlaceInv, AloneInv, [Next]_vars, NEW r \in Runs
             PROVE  ModeInv(r)' /\ SoloInv(r)'
  BY DEF AloneInv
<1>0. /\ DirInv(r) /\ ModeInv(r) /\ SoloInv(r) /\ TypeOK /\ RunInv(r)
      /\ solo \in [Runs -> BOOLEAN]
  BY DEF PlaceInv, CommitInv, AloneInv, TypeOK
<1>1. ASSUME NEW q \in Runs, RunStep(q) PROVE ModeInv(r)' /\ SoloInv(r)'
  <2>1. CASE q = r
    BY <1>0, <1>1, <2>1, OwnModes, OwnSolo
  <2>2. CASE q # r
    <3>1. /\ pc'[r] = pc[r] /\ idx'[r] = idx[r] /\ stage'[r] = stage[r]
          /\ temp'[r] = temp[r] /\ plan'[r] = plan[r] /\ result'[r] = result[r]
      BY <1>0, <1>1, <2>2, OtherRuns
    <3>2. moved' = moved /\ (solo'[r] => ~Active(r)) /\ (Active(r)' <=> Active(r))
      BY <1>0, <1>1, <2>2, <3>1 DEF RunStep, Active
    <3>3. \A j \in Outputs : Given(r, j)' = Given(r, j)
      BY <3>1 DEF Given
    <3> QED
      BY <1>0, <3>1, <3>2, <3>3 DEF ModeInv, SoloInv
  <2> QED
    BY <2>1, <2>2
<1>2. ASSUME Disturb PROVE ModeInv(r)' /\ SoloInv(r)'
  <2>1. /\ UNCHANGED <<pc, idx, plan, temp, stage, result>>
        /\ pc[r] = "idle" => moved'[r] = moved[r]
    <3>1. PICK k \in Outputs : Intrude(k) \/ Retarget(k)
      BY <1>2 DEF Disturb
    <3>2. CASE Intrude(k)
      BY <3>2 DEF Intrude
    <3>3. CASE Retarget(k)
      <4>1. pc[r] = "idle" => ~Checked(r, k)
        BY <1>0 DEF Checked, RunInv, StageInv
      <4> QED
        BY <1>0, <3>3, <4>1 DEF Retarget, TypeOK
    <3> QED
      BY <3>1, <3>2, <3>3
  <2>2. solo'[r] => ~Active(r)
    BY <1>0, <1>2 DEF Disturb
  <2>3. (Active(r)' <=> Active(r)) /\ \A j \in Outputs : Given(r, j)' = Given(r, j)
    BY <2>1 DEF Active, Given
  <2> QED
    BY <1>0, <2>1, <2>2, <2>3 DEF ModeInv, SoloInv
<1>3. ASSUME LosePower PROVE ModeInv(r)' /\ SoloInv(r)'
  <2>1. ASSUME NEW j \in Outputs
        PROVE  temp'[r][j].node.kind = temp[r][j].node.kind /\ temp'[r][j].node.mode = temp[r][j].node.mode
    <3>1. temp[r][j] \in Temp /\ temp[r][j].node \in Node
      BY <1>0 DEF TypeOK, Temp
    <3>2. temp'[r][j] = [temp[r][j] EXCEPT !.node = Damaged(temp[r][j].node)]
      BY <1>3 DEF LosePower, PowerLoss
    <3> QED
      BY <3>1, <3>2 DEF Damaged, Temp, Node
  <2>2. /\ stage' = stage /\ moved' = moved /\ plan' = plan /\ result' = result
        /\ pc'[r] = (IF Active(r) THEN "crashed" ELSE pc[r])
        /\ idx'[r] = (IF Active(r) THEN 1 ELSE idx[r])
    BY <1>3 DEF LosePower, PowerLoss, history
  <2>3. ~Active(r)' /\ \A j \in Outputs : Given(r, j)' = Given(r, j)
    BY <2>2 DEF Active, Given, Returned
  <2>4. pc'[r] \notin {"fill", "sync"} /\ (pc'[r] = "idle" => pc[r] = "idle")
    BY <2>2 DEF Active, Returned
  <2> QED
    BY <1>0, <2>1, <2>2, <2>3, <2>4 DEF ModeInv, SoloInv
<1>4. CASE UNCHANGED vars
  BY <1>0, <1>4 DEF vars, ModeInv, SoloInv, Given, Active
<1> QED
  BY <1>1, <1>2, <1>3, <1>4 DEF Next

\* What a run that stays alone has staged and replaced, and with which modes.
THEOREM AloneInvariant == Spec => []AloneInv
  BY InitAloneInv, StepAloneInv, CommitInvariant, PlaceInvariant, PTL DEF Spec

\* A run succeeds at the end of its cleanup, having replaced every output.
LEMMA SuccessIsComplete ==
  ASSUME CommitInv, AloneInv, [Next]_vars, NEW r \in Runs, Succeeds(r), solo'[r]
  PROVE  \A j \in Outputs :
           /\ out'[j][plan[r][j].dir].content = r
           /\ out'[j][plan[r][j].dir].mode = Given(r, j)
<1>0. /\ TypeOK /\ SoloInv(r) /\ pc[r] # "done" /\ pc'[r] = "done" /\ result'[r] = "ok"
      /\ pc \in [Runs -> Steps] /\ result \in [Runs -> {"none", "ok", "error"}]
      /\ idx \in [Runs -> Outputs] /\ solo \in [Runs -> BOOLEAN]
  BY DEF CommitInv, AloneInv, Succeeds, TypeOK
<1>1. RunStep(r)
  <2>1. ASSUME NEW q \in Runs \ {r}, RunStep(q) PROVE FALSE
    BY <1>0, <2>1, OtherRuns
  <2>2. ~Disturb
    BY <1>0 DEF Disturb, Intrude, Retarget
  <2>3. ~LosePower
    BY <1>0 DEF LosePower, PowerLoss
  <2>4. ~UNCHANGED vars
    BY <1>0 DEF vars
  <2> QED
    BY <2>1, <2>2, <2>3, <2>4 DEF Next
<1>2. /\ pc[r] = "cleanup" /\ out' = out /\ result' = result
  BY <1>0, <1>1
  DEF RunStep, Plan, Start, Inspect, PlanningFails, Generate, Stage, MakeDirectory,
      CheckDirectory, CreateTemp, FillTemp, SyncTemp, StagingFailsEarly, StagingFailsLate,
      Discard, Install, CheckLink, Rename, RenameFails, Cleanup, Crash, Goto, Refuse, At
<1>3. solo[r] /\ Active(r)
  BY <1>0, <1>1, <1>2 DEF RunStep, At, Active, Returned
<1> QED
  BY <1>0, <1>2, <1>3 DEF SoloInv

\* A run that succeeds while nobody else acts has installed its own generation
\* at every output, whatever earlier runs and crashes left.
THEOREM SoloRunsInstallOneGeneration == Spec => SoloRunInstallsOneGeneration
<1>1. CommitInv /\ AloneInv /\ [Next]_vars
        => [\A r \in Runs : Succeeds(r) /\ solo'[r]
              => \A i \in Outputs : out'[i][plan[r][i].dir].content = r]_vars
  BY SuccessIsComplete
<1> QED
  BY <1>1, CommitInvariant, AloneInvariant, PTL DEF Spec, SoloRunInstallsOneGeneration

\* Without contract capture it has also kept the mode of every file it
\* replaced.  (The capture file gets a fixed mode.)
THEOREM ModesArePreserved ==
  ASSUME Capture = 0
  PROVE  Spec => PreservesMode
<1>1. ASSUME AloneInv, NEW r \in Runs, NEW j \in Outputs PROVE Given(r, j) = plan[r][j].seen
  <2>1. j # Capture
    BY ConstantsAssumption DEF Outputs
  <2> QED
    BY <1>1, <2>1 DEF AloneInv, ModeInv, Given
<1>2. CommitInv /\ AloneInv /\ [Next]_vars
        => [\A r \in Runs : Succeeds(r) /\ solo'[r]
              => \A i \in Outputs : out'[i][plan[r][i].dir].mode = plan[r][i].seen]_vars
  BY <1>1, SuccessIsComplete
<1> QED
  BY <1>2, CommitInvariant, AloneInvariant, PTL DEF Spec, PreservesMode
-----------------------------------------------------------------------------
(***************************************************************************)
(* OutputCommit implements FileInstall as long as no parent directory is   *)
(* exchanged: every step of the commit is a step of the promise, or is     *)
(* invisible in it.                                                        *)
(***************************************************************************)

\* Every output path still leads where it led at the beginning.
Settled == \A i \in Outputs : Resolve(i) = "planned"

\* Without retargeting, every parent stays or becomes the planned directory.
LEMMA StepSettled ==
  ASSUME "retarget" \notin Interference, TypeOK, Settled, [Next]_vars
  PROVE  Settled'
<1> SUFFICES ASSUME NEW j \in Outputs PROVE Resolve(j)' = "planned"
  BY DEF Settled
<1>0. Resolve(j) = "planned" /\ \A i \in Outputs : Resolve(i) = "planned"
  BY DEF Settled
<1>1. CASE UNCHANGED parent
  BY <1>0, <1>1 DEF Resolve
<1>2. CASE \E r \in Runs : MakeDirectory(r)
  <2>1. PICK r \in Runs : MakeDirectory(r)
    BY <1>2
  <2>2. parent' = [parent EXCEPT ![idx[r]] = "planned"]
    BY <1>0, <2>1 DEF MakeDirectory, TypeOK
  <2> QED
    BY <1>0, <2>2 DEF Resolve, TypeOK
<1> QED
  BY <1>1, <1>2
  DEF Next, Disturb, Intrude, Retarget, LosePower, PowerLoss, vars, RunStep, Plan, Start,
      Inspect, PlanningFails, Generate, Stage, CheckDirectory, CreateTemp, FillTemp,
      SyncTemp, StagingFailsEarly, StagingFailsLate, Discard, Install, CheckLink, Rename,
      RenameFails, Cleanup, Crash

\* The files found at the start are the initial files of FileInstall.
LEMMA InitRefines == Init => Promise!Init
<1> SUFFICES ASSUME Init PROVE Promise!Init
  OBVIOUS
<1>1. ASSUME NEW i \in Outputs PROVE out[i]["planned"].content \in Foreign
  BY DEF Init, Absent, File, Foreign, Places
<1>2. 1 \in Outputs
  BY ConstantsAssumption DEF Outputs
<1>3. \A r \in Runs : pc[r] = "idle" /\ \A i \in Outputs : stage[r][i] = "none"
  BY DEF Init
<1> QED
  BY <1>1, <1>2, <1>3 DEF Promise!Init, Returned

\* What the promise sees of a run.
Phase(r) ==
  IF pc[r] \in Returned THEN "ended"
  ELSE IF \E i \in Outputs : stage[r][i] = "none" THEN "preparing"
  ELSE "installing"
Contents == [i \in Outputs |-> out[i]["planned"].content]
Phases == [r \in Runs |-> Phase(r)]
Installed == [r \in Runs |-> {i \in Outputs : stage[r][i] = "renamed"}]

\* A run step that changes no output and no staged entry is a stutter, or the
\* end of the run.
LEMMA QuietStep ==
  ASSUME NEW r \in Runs, pc \in [Runs -> Steps], pc' \in [Runs -> Steps],
         pc[r] \notin Returned, stage' = stage, Contents' = Contents,
         \A q \in Runs \ {r} : pc'[q] = pc[q]
  PROVE  Promise!Next \/ UNCHANGED Promise!vars
<1>0. Installed' = Installed /\ \A q \in Runs \ {r} : Phase(q)' = Phase(q)
  BY DEF Installed, Phase
<1>1. CASE pc'[r] \in Returned
  <2>1. Phases' = [q \in Runs |-> IF q \in {r} THEN "ended" ELSE Phases[q]]
    BY <1>0, <1>1 DEF Phases, Phase
  <2>2. Promise!End({r})
    BY <1>0, <2>1 DEF Promise!End, Phases, Phase, Contents, Installed
  <2> QED
    BY <2>2 DEF Promise!Next
<1>2. CASE pc'[r] \notin Returned
  <2>1. Phases' = Phases
    BY <1>0, <1>2 DEF Phases, Phase
  <2> QED
    BY <1>0, <2>1 DEF Promise!vars, Phases, Phase, Contents, Installed
<1> QED
  BY <1>1, <1>2

\* Staging the last output makes the run ready; staging another one is invisible.
LEMMA SyncRefines ==
  ASSUME CommitInv, CommitInv', NEW r \in Runs, RunStep(r), SyncTemp(r)
  PROVE  Promise!Next \/ UNCHANGED Promise!vars
<1> DEFINE i == idx[r]
<1>0. /\ i \in 1..N /\ N \in Nat /\ pc \in [Runs -> Steps]
      /\ stage \in [Runs -> [Outputs -> {"none", "temp", "renamed"}]]
      /\ StageInv(r) /\ pc[r] = "sync" /\ out' = out /\ stage' = [stage EXCEPT ![r][i] = "temp"]
  BY ConstantsAssumption DEF CommitInv, TypeOK, RunInv, Outputs, SyncTemp, At
<1>1. stage[r][i] = "none" /\ \A j \in Outputs : stage[r][j] = IF j < i THEN "temp" ELSE "none"
  BY <1>0 DEF StageInv, Staging, Outputs
<1>2. Contents' = Contents /\ Installed' = Installed
  BY <1>0, <1>1 DEF Contents, Installed
<1>3. \A q \in Runs \ {r} : Phase(q)' = Phase(q)
  BY OtherRuns DEF CommitInv, Phase
<1>4. Phase(r) = "preparing"
  BY <1>0, <1>1 DEF Phase, Returned, Outputs
<1>5. CASE i < N
  <2>1. pc'[r] = "mkdir" /\ stage'[r][N] = "none" /\ N \in Outputs
    BY <1>0, <1>1, <1>5 DEF SyncTemp, Goto, Outputs
  <2>2. Phase(r)' = "preparing"
    BY <2>1 DEF Phase, Returned
  <2>3. Phases' = Phases
    BY <1>3, <1>4, <2>2 DEF Phases
  <2> QED
    BY <1>2, <2>3 DEF Promise!vars, Phases, Phase, Contents, Installed
<1>6. CASE i = N
  <2>1. pc'[r] = "lstat" /\ \A j \in Outputs : stage'[r][j] = "temp"
    BY <1>0, <1>1, <1>6 DEF SyncTemp, Goto, Outputs
  <2>2. Phase(r)' = "installing"
    BY <2>1 DEF Phase, Returned
  <2>3. Phases[r] = "preparing" /\ Phases' = [Phases EXCEPT ![r] = "installing"]
    BY <1>3, <1>4, <2>2 DEF Phases
  <2>4. Promise!GetReady(r)
    BY <1>2, <2>3 DEF Promise!GetReady, Phases, Phase, Contents, Installed
  <2> QED
    BY <2>4 DEF Promise!Next
<1>7. i < N \/ i = N
  <2>1. i \in 1..N /\ N \in Nat
    BY <1>0
  <2> QED
    BY <2>1
<1> QED
  BY <1>5, <1>6, <1>7

\* A rename replaces the next output of the plan by the run's content.
LEMMA RenameRefines ==
  ASSUME CommitInv, CommitInv', Settled, NEW r \in Runs, RunStep(r), Rename(r)
  PROVE  Promise!Next
<1> DEFINE i == idx[r]
<1>0. /\ i \in Outputs /\ pc \in [Runs -> Steps] /\ out \in [Outputs -> [Places -> Node]]
      /\ stage \in [Runs -> [Outputs -> {"none", "temp", "renamed"}]]
      /\ StageInv(r) /\ TempInv(r) /\ pc[r] = "rename" /\ Resolve(i) = "planned"
      /\ temp[r][i].node.kind = "file"
      /\ out' = [out EXCEPT ![i]["planned"] = temp[r][i].node]
      /\ stage' = [stage EXCEPT ![r][i] = "renamed"]
      /\ pc'[r] \in {"lstat", "cleanup"}
  <2>1. /\ i \in Outputs /\ pc \in [Runs -> Steps] /\ out \in [Outputs -> [Places -> Node]]
        /\ stage \in [Runs -> [Outputs -> {"none", "temp", "renamed"}]]
        /\ StageInv(r) /\ TempInv(r)
    BY DEF CommitInv, TypeOK, RunInv
  <2>2. Resolve(i) = "planned"
    BY <2>1 DEF Settled
  <2>3. /\ pc[r] = "rename" /\ temp[r][i].node.kind = "file"
        /\ out' = [out EXCEPT ![i]["planned"] = temp[r][i].node]
        /\ stage' = [stage EXCEPT ![r][i] = "renamed"]
    BY <2>2 DEF Rename, At, TempReachable
  <2>4. pc'[r] \in {"lstat", "cleanup"}
    BY <2>1 DEF Rename, Goto
  <2> QED
    BY <2>1, <2>2, <2>3, <2>4
<1>1. \A j \in Outputs : stage[r][j] = IF j < i THEN "renamed" ELSE "temp"
  BY <1>0 DEF StageInv
<1>2. temp[r][i].node.content = r
  BY <1>0, <1>1 DEF TempInv, Outputs
<1>3. \A q \in Runs \ {r} : Phase(q)' = Phase(q) /\ stage'[q] = stage[q]
  BY OtherRuns DEF CommitInv, Phase
<1>4. Phase(r) = "installing" /\ Phase(r)' = "installing"
  BY <1>0, <1>1 DEF Phase, Returned
<1>5. Phases' = Phases /\ Phases[r] = "installing"
  BY <1>3, <1>4 DEF Phases
<1>6. Contents' = [Contents EXCEPT ![i] = r]
  BY <1>0, <1>2 DEF Contents, Places
<1>7. /\ Installed[r] = {j \in Outputs : j < i}
      /\ Installed' = [Installed EXCEPT ![r] = @ \cup {i}]
  <2>1. {j \in Outputs : stage[r][j] = "renamed"} = {j \in Outputs : j < i}
    BY <1>1
  <2>2. {j \in Outputs : stage'[r][j] = "renamed"} = {j \in Outputs : stage[r][j] = "renamed"} \cup {i}
    BY <1>0
  <2> QED
    BY <1>3, <2>1, <2>2 DEF Installed
<1>8. PICK k \in Outputs : k = i
  BY <1>0
<1>9. Promise!Replace(r, k)
  BY <1>5, <1>6, <1>7, <1>8 DEF Promise!Replace, Phases, Phase, Contents, Installed
<1> QED
  BY <1>9 DEF Promise!Next

\* Every step of a run is a step of FileInstall or invisible in it.
LEMMA RunRefines ==
  ASSUME CommitInv, CommitInv', Settled, NEW r \in Runs, RunStep(r)
  PROVE  Promise!Next \/ UNCHANGED Promise!vars
<1>1. CASE SyncTemp(r)
  BY <1>1, SyncRefines
<1>2. CASE Rename(r)
  BY <1>2, RenameRefines
<1>3. CASE UNCHANGED <<out, stage>> /\ pc[r] \notin Returned
  <2>1. pc \in [Runs -> Steps] /\ pc' \in [Runs -> Steps]
    BY DEF CommitInv, TypeOK
  <2>2. \A q \in Runs \ {r} : pc'[q] = pc[q]
    BY OtherRuns DEF CommitInv
  <2>3. stage' = stage /\ Contents' = Contents
    BY <1>3 DEF Contents
  <2> QED
    BY <1>3, <2>1, <2>2, <2>3, QuietStep
<1> QED
  BY <1>1, <1>2, <1>3
  DEF RunStep, Plan, Start, Inspect, PlanningFails, Generate, Stage, MakeDirectory,
      CheckDirectory, CreateTemp, FillTemp, StagingFailsEarly, StagingFailsLate, Discard,
      Install, CheckLink, RenameFails, Cleanup, Crash, At, Active, Returned

\* Another program changes at most one output; a power loss only ends runs.
LEMMA WorldRefines ==
  ASSUME CommitInv, Settled, "retarget" \notin Interference, Disturb \/ LosePower
  PROVE  Promise!Next \/ UNCHANGED Promise!vars
<1>0. out \in [Outputs -> [Places -> Node]] /\ \A i \in Outputs : Resolve(i) = "planned"
  BY DEF CommitInv, TypeOK, Settled
<1>1. CASE Disturb
  <2>1. PICK k \in Outputs : Intrude(k)
    BY <1>1 DEF Disturb, Retarget
  <2>2. /\ \A m : File("edited", m, TRUE).content = "edited"
        /\ Absent.content = "nothing" /\ Link.content = "nothing"
    BY DEF File, Absent, Link
  <2>3. PICK node : /\ out' = [out EXCEPT ![k]["planned"] = node]
                    /\ node \in {File("edited", out[k]["planned"].mode, TRUE), Absent, Link}
    BY <1>0, <2>1 DEF Intrude
  <2>4. node.content \in Foreign
    BY <2>2, <2>3 DEF Foreign
  <2>5. Contents' = [Contents EXCEPT ![k] = node.content]
    BY <1>0, <2>3 DEF Contents, Places
  <2>6. Phases' = Phases /\ Installed' = Installed
    BY <2>1 DEF Intrude, Phases, Phase, Installed
  <2>7. Promise!Change(k, node.content)
    BY <2>5, <2>6 DEF Promise!Change, Phases, Phase, Contents, Installed
  <2> QED
    BY <2>4, <2>7 DEF Promise!Next
<1>2. CASE LosePower
  <2> DEFINE S == {r \in Runs : Active(r)}
  <2>1. ASSUME NEW j \in Outputs PROVE out'[j]["planned"] = out[j]["planned"]
    BY <1>2 DEF LosePower, PowerLoss, Damaged, CommitInv, OutInv, Places
  <2>2. Contents' = Contents
    BY <2>1 DEF Contents
  <2>3. Installed' = Installed /\ stage' = stage
    BY <1>2 DEF LosePower, PowerLoss, Installed
  <2>4. ASSUME NEW r \in Runs
        PROVE  Phase(r)' = IF r \in S THEN "ended" ELSE Phase(r)
    BY <1>2, <2>3 DEF LosePower, PowerLoss, Phase, Active, Returned
  <2>5. Phases' = [r \in Runs |-> IF r \in S THEN "ended" ELSE Phases[r]]
    BY <2>4 DEF Phases
  <2>6. PICK T \in SUBSET Runs : T = S
    OBVIOUS
  <2>7. Promise!End(T)
    BY <2>2, <2>3, <2>5, <2>6 DEF Promise!End, Phases, Phase, Contents, Installed
  <2> QED
    BY <2>7 DEF Promise!Next
<1> QED
  BY <1>1, <1>2

\* As long as no other program exchanges a parent directory, a run replaces
\* outputs in plan order, each in one step by its complete new file, and none
\* before it has prepared them all.
THEOREM CommitImplementsFileInstall ==
  ASSUME "retarget" \notin Interference
  PROVE  Spec => ImplementsFileInstall
<1>1. Init => Settled
  BY DEF Init, Settled, Resolve
<1>2. CommitInv /\ Settled /\ [Next]_vars => Settled'
  BY StepSettled DEF CommitInv
<1>3. CommitInv /\ CommitInv' /\ Settled /\ [Next]_vars => [Promise!Next]_(Promise!vars)
  <2> SUFFICES ASSUME CommitInv, CommitInv', Settled, [Next]_vars
               PROVE  Promise!Next \/ UNCHANGED Promise!vars
    OBVIOUS
  <2>1. CASE \E r \in Runs : RunStep(r)
    BY <2>1, RunRefines
  <2>2. CASE Disturb \/ LosePower
    BY <2>2, WorldRefines
  <2>3. CASE UNCHANGED vars
    BY <2>3 DEF vars, Promise!vars
  <2> QED
    BY <2>1, <2>2, <2>3 DEF Next
<1> QED
  BY <1>1, <1>2, <1>3, InitRefines, CommitInvariant, PTL DEF Spec, ImplementsFileInstall, Promise!Spec
-----------------------------------------------------------------------------
(***************************************************************************)
(* Progress.  That a started run ends needs fairness and is left to TLC;   *)
(* that it cannot go on for ever does not: each of its steps, whatever     *)
(* fails, leaves fewer calls to make.                                      *)
(***************************************************************************)
\* What is left of the five calls that stage an output.
StagingCalls == [mkdir |-> 5, check |-> 4, create |-> 3, fill |-> 2, sync |-> 1]

\* The calls that run r can still make: in the order of the code, its starting,
\* N inspections, the generation, five calls to stage an output, two to replace
\* one, and N entries of the cleanup.
Remaining(r) ==
  LET i == idx[r] IN
  CASE pc[r] = "idle" -> 9 * N + 2
    [] pc[r] = "inspect" -> 9 * N + 2 - i
    [] pc[r] = "generate" -> 8 * N + 1
    [] pc[r] \in DOMAIN StagingCalls -> 3 * N + 5 * (N - i) + StagingCalls[pc[r]]
    [] pc[r] = "lstat" -> N + 2 * (N - i) + 2
    [] pc[r] = "rename" -> N + 2 * (N - i) + 1
    [] pc[r] = "discard" -> N + 1
    [] pc[r] = "cleanup" -> N + 1 - i
    [] pc[r] \in Returned -> 0

LEMMA RemainingIs ==
  \A r \in Runs :
    /\ pc[r] = "idle" => Remaining(r) = 9 * N + 2
    /\ pc[r] = "inspect" => Remaining(r) = 9 * N + 2 - idx[r]
    /\ pc[r] = "generate" => Remaining(r) = 8 * N + 1
    /\ pc[r] = "mkdir" => Remaining(r) = 3 * N + 5 * (N - idx[r]) + 5
    /\ pc[r] = "check" => Remaining(r) = 3 * N + 5 * (N - idx[r]) + 4
    /\ pc[r] = "create" => Remaining(r) = 3 * N + 5 * (N - idx[r]) + 3
    /\ pc[r] = "fill" => Remaining(r) = 3 * N + 5 * (N - idx[r]) + 2
    /\ pc[r] = "sync" => Remaining(r) = 3 * N + 5 * (N - idx[r]) + 1
    /\ pc[r] = "lstat" => Remaining(r) = N + 2 * (N - idx[r]) + 2
    /\ pc[r] = "rename" => Remaining(r) = N + 2 * (N - idx[r]) + 1
    /\ pc[r] = "discard" => Remaining(r) = N + 1
    /\ pc[r] = "cleanup" => Remaining(r) = N + 1 - idx[r]
    /\ pc[r] \in Returned => Remaining(r) = 0
  BY DEF Remaining, StagingCalls, Returned

LEMMA RemainingWillBe ==
  \A r \in Runs :
    /\ pc'[r] = "idle" => Remaining(r)' = 9 * N + 2
    /\ pc'[r] = "inspect" => Remaining(r)' = 9 * N + 2 - idx'[r]
    /\ pc'[r] = "generate" => Remaining(r)' = 8 * N + 1
    /\ pc'[r] = "mkdir" => Remaining(r)' = 3 * N + 5 * (N - idx'[r]) + 5
    /\ pc'[r] = "check" => Remaining(r)' = 3 * N + 5 * (N - idx'[r]) + 4
    /\ pc'[r] = "create" => Remaining(r)' = 3 * N + 5 * (N - idx'[r]) + 3
    /\ pc'[r] = "fill" => Remaining(r)' = 3 * N + 5 * (N - idx'[r]) + 2
    /\ pc'[r] = "sync" => Remaining(r)' = 3 * N + 5 * (N - idx'[r]) + 1
    /\ pc'[r] = "lstat" => Remaining(r)' = N + 2 * (N - idx'[r]) + 2
    /\ pc'[r] = "rename" => Remaining(r)' = N + 2 * (N - idx'[r]) + 1
    /\ pc'[r] = "discard" => Remaining(r)' = N + 1
    /\ pc'[r] = "cleanup" => Remaining(r)' = N + 1 - idx'[r]
    /\ pc'[r] \in Returned => Remaining(r)' = 0
  BY DEF Remaining, StagingCalls, Returned

LEMMA RemainingIsBounded ==
  ASSUME TypeOK, NEW r \in Runs
  PROVE  /\ Remaining(r) \in 0 .. (9 * N + 2)
         /\ Remaining(r) = 0 <=> pc[r] \in Returned
<1>1. pc[r] \in Steps /\ idx[r] \in 1 .. N /\ N \in Nat \ {0}
  BY ConstantsAssumption DEF TypeOK, Outputs
<1> QED
  BY <1>1, RemainingIs DEF Steps, Returned

\* A run makes one of its calls fewer, or it has returned.
LEMMA OwnRemaining ==
  ASSUME TypeOK, NEW r \in Runs, RunStep(r)
  PROVE  Remaining(r)' < Remaining(r)
<1>1. /\ pc[r] \in Steps /\ idx[r] \in 1 .. N /\ N \in Nat \ {0}
      /\ pc \in [Runs -> Steps] /\ idx \in [Runs -> 1 .. N]
  BY ConstantsAssumption DEF TypeOK, Outputs
<1>2. \A step, j : Goto(r, step, j) => pc'[r] = step /\ idx'[r] = j
  BY <1>1 DEF Goto
<1> DEFINE i == idx[r]
<1>3. ASSUME Refuse(r) \/ Goto(r, "done", 1) \/ Goto(r, "crashed", 1)
      PROVE  pc'[r] \in Returned \/ (pc'[r] = "cleanup" /\ idx'[r] = 1)
  BY <1>2, <1>3 DEF Refuse, Returned
<1>4. CASE Plan(r)
  <2>1. \/ pc[r] = "idle" /\ pc'[r] = "inspect" /\ idx'[r] = 1
        \/ pc[r] = "inspect" /\ i < N /\ pc'[r] = "inspect" /\ idx'[r] = i + 1
        \/ pc[r] = "inspect" /\ pc'[r] = "generate"
        \/ pc[r] \in {"inspect", "generate"} /\ pc'[r] = "done"
        \/ pc[r] = "generate" /\ pc'[r] = "mkdir" /\ idx'[r] = 1
    BY <1>2, <1>4 DEF Plan, Start, Inspect, PlanningFails, Generate, At
  <2> QED
    BY <1>1, <2>1, RemainingIs, RemainingWillBe DEF Returned
<1>5. CASE Stage(r)
  <2>1. \/ pc[r] = "mkdir" /\ pc'[r] = "check" /\ idx'[r] = i
        \/ pc[r] = "check" /\ pc'[r] = "create" /\ idx'[r] = i
        \/ pc[r] = "create" /\ pc'[r] = "fill" /\ idx'[r] = i
        \/ pc[r] = "fill" /\ pc'[r] = "sync" /\ idx'[r] = i
        \/ pc[r] = "sync" /\ i < N /\ pc'[r] = "mkdir" /\ idx'[r] = i + 1
        \/ pc[r] = "sync" /\ pc'[r] = "lstat" /\ idx'[r] = 1
        \/ pc[r] \in {"mkdir", "check", "create", "discard"} /\ Refuse(r)
        \/ pc[r] \in {"fill", "sync"} /\ pc'[r] = "discard"
    BY <1>2, <1>5 DEF Stage, MakeDirectory, CheckDirectory, CreateTemp, FillTemp, SyncTemp,
                      StagingFailsEarly, StagingFailsLate, Discard, At
  <2> QED
    BY <1>1, <1>3, <2>1, RemainingIs, RemainingWillBe DEF Returned
<1>6. CASE Install(r)
  <2>1. \/ pc[r] = "lstat" /\ pc'[r] = "rename" /\ idx'[r] = i
        \/ pc[r] = "rename" /\ i < N /\ pc'[r] = "lstat" /\ idx'[r] = i + 1
        \/ pc[r] = "rename" /\ pc'[r] = "cleanup" /\ idx'[r] = 1
        \/ pc[r] \in {"lstat", "rename"} /\ Refuse(r)
        \/ pc[r] = "cleanup" /\ i < N /\ pc'[r] = "cleanup" /\ idx'[r] = i + 1
        \/ pc[r] = "cleanup" /\ pc'[r] = "done"
    BY <1>2, <1>6 DEF Install, CheckLink, Rename, RenameFails, Cleanup, At
  <2> QED
    BY <1>1, <1>3, <2>1, RemainingIs, RemainingWillBe DEF Returned
<1>7. CASE Crash(r)
  <2>1. pc[r] \notin Returned /\ pc'[r] \in Returned
    BY <1>2, <1>7 DEF Crash, Active, Returned
  <2>2. Remaining(r)' = 0
    BY <2>1, RemainingWillBe
  <2> QED
    BY <2>1, <2>2, RemainingIsBounded
<1> QED
  BY <1>4, <1>5, <1>6, <1>7 DEF RunStep

\* A run that has not returned has between 1 and 9N + 2 calls to make, and only a
\* run that has returned has none.
CallsAreBounded == \A r \in Runs : Remaining(r) \in 0 .. (9 * N + 2)
NoneLeftWhenReturned == \A r \in Runs : Remaining(r) = 0 <=> pc[r] \in Returned

\* A step of a run leaves it fewer calls to make than before, and nobody else gives
\* it more: no failure, interference or other run makes it loop
\* (commitExecutionPlanWithOperations).
CallsAreCounted ==
    \A r \in Runs : /\ Remaining(r)' <= Remaining(r)
                    /\ RunStep(r) => Remaining(r)' < Remaining(r)
StepsAreCounted == [][CallsAreCounted]_vars

LEMMA CallsBounded == TypeOK => CallsAreBounded /\ NoneLeftWhenReturned
  BY RemainingIsBounded DEF CallsAreBounded, NoneLeftWhenReturned

LEMMA NextRemaining ==
  ASSUME TypeOK', NEW r \in Runs
  PROVE  Remaining(r)' \in Nat
<1>1. TypeOK' => CallsAreBounded'
  BY CallsBounded, PTL
<1> QED
  BY <1>1, ConstantsAssumption DEF CallsAreBounded

LEMMA EveryStepIsCounted == TypeOK /\ [Next]_vars => CallsAreCounted
<1>1. ASSUME TypeOK, [Next]_vars, NEW r \in Runs
      PROVE  Remaining(r)' <= Remaining(r) /\ (RunStep(r) => Remaining(r)' < Remaining(r))
  <2>1. Remaining(r) \in Nat
    BY <1>1, RemainingIsBounded, ConstantsAssumption
  <2>2. pc'[r] = pc[r] /\ idx'[r] = idx[r] => Remaining(r)' = Remaining(r)
    BY DEF Remaining
  <2>3. RunStep(r) => Remaining(r)' < Remaining(r)
    BY <1>1, OwnRemaining
  <2>4. RunStep(r) => Remaining(r)' \in Nat
    BY <1>1, NextRemaining, StepTypeOK, ConstantsAssumption
  <2>5. CASE RunStep(r)
    BY <2>1, <2>3, <2>4, <2>5
  <2>6. CASE \E q \in Runs \ {r} : RunStep(q)
    <3>1. pc'[r] = pc[r] /\ idx'[r] = idx[r]
      BY <1>1, <2>6, OtherRuns
    <3> QED
      BY <2>1, <2>2, <2>3, <3>1
  <2>7. CASE Disturb \/ UNCHANGED vars
    <3>1. pc' = pc /\ idx' = idx
      BY <2>7 DEF Disturb, Intrude, Retarget, vars
    <3> QED
      BY <2>1, <2>2, <2>3, <3>1
  <2>8. CASE LosePower
    <3>1. (pc'[r] = pc[r] /\ idx'[r] = idx[r]) \/ pc'[r] = "crashed"
      BY <2>8 DEF LosePower, PowerLoss
    <3>2. pc'[r] = "crashed" => Remaining(r)' = 0
      BY RemainingWillBe DEF Returned
    <3> QED
      BY <2>1, <2>2, <2>3, <3>1, <3>2
  <2> QED
    BY <1>1, <2>3, <2>5, <2>6, <2>7, <2>8 DEF Next
<1> QED
  BY <1>1 DEF CallsAreCounted

\* Every behaviour of the commit gives each run at most 9N + 2 steps, whatever fails,
\* whoever interferes and however the runs take turns: only the scheduler can keep a
\* run from returning (commitExecutionPlanWithOperations).
THEOREM RunsTakeBoundedSteps ==
  Spec => /\ []CallsAreBounded
          /\ []NoneLeftWhenReturned
          /\ StepsAreCounted
<1>1. Spec => [](CallsAreBounded /\ NoneLeftWhenReturned)
  BY TypeCorrect, CallsBounded, PTL
<1>2. Spec => [][CallsAreCounted]_vars
  BY TypeCorrect, EveryStepIsCounted, PTL DEF Spec
<1> QED
  BY <1>1, <1>2, PTL DEF StepsAreCounted
=============================================================================
