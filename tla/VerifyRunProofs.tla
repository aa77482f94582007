-------------------------- MODULE VerifyRunProofs --------------------------
(***************************************************************************)
(* Proofs about the verification runner and the merge of its bundles: the  *)
(* inductive invariant of VerifyRun, and the four safety properties that   *)
(* follow from it, for every scenario, every set of seeds and cells, and   *)
(* any number of faults.                                                   *)
(*                                                                         *)
(* The argument: recording a check keeps the status that a merge           *)
(* recomputes; every call that is returned has the same few effects on its *)
(* suite, its files and what is noted (CallStep), which keep the           *)
(* invariant; a file that a successful command did not leave stays         *)
(* "missing" until the suite asks for it and is refused; and a merge takes *)
(* over each saved suite once.                                             *)
(***************************************************************************)
EXTENDS VerifyRun, RecursionTheorems, SequenceTheorems

Statuses == {"passed", "failed", "refused"}
AnySeq(s) == s \in Seq(Range(s))

\* One more element at the end of a sequence of anything.
LEMMA AppendAny ==
  ASSUME NEW s, AnySeq(s), NEW e
  PROVE  /\ AnySeq(Append(s, e))
         /\ Len(s) \in Nat /\ DOMAIN s = 1 .. Len(s)
         /\ Len(Append(s, e)) = Len(s) + 1
         /\ DOMAIN Append(s, e) = 1 .. (Len(s) + 1)
         /\ Append(s, e)[Len(s) + 1] = e
         /\ \A i \in 1 .. Len(s) : Append(s, e)[i] = s[i]
<1> DEFINE S == Range(s) \cup {e}
           t == Append(s, e)
<1>1. s \in Seq(S)
  BY SeqMonotonic DEF AnySeq
<1>2. /\ t \in Seq(S) /\ Len(t) = Len(s) + 1 /\ t[Len(s) + 1] = e
      /\ \A i \in 1 .. Len(s) : t[i] = s[i]
      /\ Len(s) \in Nat /\ DOMAIN s = 1 .. Len(s) /\ DOMAIN t = 1 .. Len(t)
  BY <1>1, AppendProperties, LenProperties
<1>3. t \in Seq(Range(t))
  BY <1>2, SeqOfRange
<1> QED
  BY <1>2, <1>3 DEF AnySeq

LEMMA AnyEmpty == AnySeq(<<>>) /\ Len(<<>>) = 0 /\ DOMAIN <<>> = {}
BY EmptySeq DEF AnySeq

LEMMA AnyLen ==
  ASSUME NEW s, AnySeq(s)
  PROVE  Len(s) \in Nat /\ DOMAIN s = 1 .. Len(s) /\ (s = <<>> <=> Len(s) = 0)
BY LenProperties, EmptySeq DEF AnySeq
-----------------------------------------------------------------------------
(***************************************************************************)
(* The status that a merge recomputes from the checks of a suite.          *)
(***************************************************************************)
LEMMA StatusThenType == ASSUME NEW v \in Statuses, NEW c PROVE StatusThen(v, c) \in Statuses
BY DEF StatusThen, Statuses, CombineStatus

RunsOver(f, checks) ==
  /\ f \in [0 .. Len(checks) -> Statuses] /\ f[0] = "passed"
  /\ \A i \in 1 .. Len(checks) : f[i] = StatusThen(f[i - 1], checks[i])

LEMMA RecomputedRuns ==
  ASSUME NEW checks, Len(checks) \in Nat
  PROVE  \E f : RunsOver(f, checks) /\ Recomputed(checks) = f[Len(checks)]
<1> DEFINE n == Len(checks)
           Pass == [i \in 1 .. n |-> [v \in Statuses |-> StatusThen(v, checks[i])]]
           Is(f) == f = [i \in 0 .. n |-> IF i = 0 THEN "passed" ELSE StatusThen(f[i - 1], checks[i])]
<1>1. Pass \in [1 .. n -> [Statuses -> Statuses]]
  BY StatusThenType
<1>2. "passed" \in Statuses
  BY DEF Statuses
<1>3. PICK f \in [0 .. n -> Statuses] : f[0] = "passed" /\ \A i \in 1 .. n : f[i] = Pass[i][f[i - 1]]
  <2> HIDE DEF Pass
  <2> QED
    BY <1>1, <1>2, LoopRuns DEF Runs
<1>4. \A i \in 1 .. n : f[i] = StatusThen(f[i - 1], checks[i])
  BY <1>3
<1>5. Is(f)
  BY <1>3, <1>4
<1>6. Recomputed(checks) = (CHOOSE g : Is(g))[n]
  BY DEF Recomputed
<1> DEFINE g == CHOOSE h : Is(h)
<1>7. Is(g)
  BY <1>5
<1> HIDE DEF g
<1>8. g[0] = "passed" /\ \A i \in 1 .. n : g[i] = StatusThen(g[i - 1], checks[i])
  BY <1>7
<1>9. \A i \in 0 .. n : i \in {j \in 0 .. n : g[j] \in Statuses}
  <2> DEFINE P == {j \in 0 .. n : g[j] \in Statuses}
  <2>1. 0 \in P
    BY <1>8, <1>2
  <2>2. \A i \in 1 .. n : i - 1 \in P => i \in P
    BY <1>8, StatusThenType
  <2> HIDE DEF P
  <2>3. \A i \in 0 .. n : i \in P
    BY <2>1, <2>2, UpTo
  <2> QED
    BY <2>3 DEF P
<1>10. g \in [0 .. n -> Statuses]
  BY <1>9, <1>7
<1> QED
  BY <1>6, <1>8, <1>10 DEF g, RunsOver

\* Two runs agree as far as the checks do.
LEMMA RunsAgree ==
  ASSUME NEW f, NEW checks, RunsOver(f, checks), NEW g, NEW more, RunsOver(g, more),
         NEW m \in Nat, Len(checks) \in Nat, Len(more) \in Nat, m <= Len(checks), m <= Len(more),
         \A i \in 1 .. m : checks[i] = more[i]
  PROVE  f[m] = g[m]
<1> DEFINE P == {i \in 0 .. m : f[i] = g[i]}
<1>1. 0 \in P
  BY DEF RunsOver
<1>2. ASSUME NEW i \in 1 .. m, i - 1 \in P PROVE i \in P
  <2>1. i \in 1 .. Len(checks) /\ i \in 1 .. Len(more)
    OBVIOUS
  <2>2. f[i] = StatusThen(f[i - 1], checks[i]) /\ g[i] = StatusThen(g[i - 1], more[i])
    BY <2>1 DEF RunsOver
  <2> QED
    BY <2>2, <1>2
<1>3. m \in 0 .. m
  OBVIOUS
<1> HIDE DEF P
<1>4. m \in P
  BY <1>1, <1>2, <1>3, UpTo
<1> QED
  BY <1>4 DEF P

LEMMA RecomputedEmpty == Recomputed(<<>>) = "passed"
<1>1. Len(<<>>) = 0
  BY AnyEmpty
<1>2. PICK f : RunsOver(f, <<>>) /\ Recomputed(<<>>) = f[0]
  BY <1>1, RecomputedRuns
<1> QED
  BY <1>2 DEF RunsOver

LEMMA RecomputedType ==
  ASSUME NEW checks, Len(checks) \in Nat
  PROVE  Recomputed(checks) \in Statuses
<1>1. PICK f : RunsOver(f, checks) /\ Recomputed(checks) = f[Len(checks)]
  BY RecomputedRuns
<1> QED
  BY <1>1 DEF RunsOver

LEMMA RecomputedAppend ==
  ASSUME NEW checks, AnySeq(checks), NEW c
  PROVE  Recomputed(Append(checks, c)) = StatusThen(Recomputed(checks), c)
<1> DEFINE more == Append(checks, c)
           n == Len(checks)
<1>1. /\ n \in Nat /\ Len(more) = n + 1 /\ more[n + 1] = c
      /\ \A i \in 1 .. n : checks[i] = more[i]
  BY AppendAny
<1> HIDE DEF more, n
<1>2. PICK f : RunsOver(f, checks) /\ Recomputed(checks) = f[n]
  BY <1>1, RecomputedRuns DEF n
<1>3. PICK g : RunsOver(g, more) /\ Recomputed(more) = g[n + 1]
  BY <1>1, RecomputedRuns
<1>4. f[n] = g[n]
  BY <1>1, <1>2, <1>3, RunsAgree, n <= Len(more) DEF n
<1>5. n + 1 \in 1 .. Len(more) /\ (n + 1) - 1 = n
  BY <1>1
<1>6. g[n + 1] = StatusThen(g[n], more[n + 1])
  BY <1>3, <1>5 DEF RunsOver
<1> QED
  BY <1>1, <1>2, <1>3, <1>4, <1>6 DEF more

\* A suite that did not pass has a check that tells why.
Unsound == {"failed", "refused", "blocked"}
LEMMA RecomputedTells ==
  ASSUME NEW checks, Len(checks) \in Nat, Recomputed(checks) # "passed"
  PROVE  \E i \in 1 .. Len(checks) : checks[i].status \in Unsound
<1> SUFFICES ASSUME \A i \in 1 .. Len(checks) : checks[i].status \notin Unsound PROVE FALSE
  OBVIOUS
<1>1. PICK f : RunsOver(f, checks) /\ Recomputed(checks) = f[Len(checks)]
  BY RecomputedRuns
<1> DEFINE P == {i \in 0 .. Len(checks) : f[i] = "passed"}
<1>2. 0 \in P
  BY <1>1 DEF RunsOver
<1>3. ASSUME NEW i \in 1 .. Len(checks), i - 1 \in P PROVE i \in P
  BY <1>1, <1>3 DEF RunsOver, StatusThen, Unsound
<1>4. Len(checks) \in 0 .. Len(checks)
  OBVIOUS
<1> HIDE DEF P
<1>5. Len(checks) \in P
  BY <1>2, <1>3, <1>4, UpTo
<1> QED
  BY <1>1, <1>5 DEF P
-----------------------------------------------------------------------------
(***************************************************************************)
(* What is recorded in a suite.                                            *)
(***************************************************************************)
SoundVerdict(s) ==
  /\ AnySeq(s.checks) /\ s.status = Recomputed(s.checks)
  /\ \A i \in DOMAIN s.checks : WellRecorded(s.checks[i])
IsSuite(s) ==
  /\ s = [status |-> s.status, checks |-> s.checks, artifacts |-> s.artifacts]
  /\ SoundVerdict(s)

\* The suite r is the suite s with more in it.
Follows(s, r) ==
  /\ IsSuite(r)
  /\ Len(s.checks) <= Len(r.checks) /\ \A i \in 1 .. Len(s.checks) : r.checks[i] = s.checks[i]
  /\ r.status = "passed" => s.status = "passed"
  /\ s.status = "refused" => r.status = "refused"
  /\ s.artifacts \subseteq r.artifacts

\* Its new checks, whose statuses are in a set.
Adds(s, r, statuses) ==
  /\ Len(s.checks) < Len(r.checks)
  /\ \A i \in (Len(s.checks) + 1) .. Len(r.checks) : r.checks[i].status \in statuses

LEMMA SuiteType ==
  ASSUME NEW s, IsSuite(s)
  PROVE  s.status \in Statuses /\ Len(s.checks) \in Nat /\ DOMAIN s.checks = 1 .. Len(s.checks)
BY AnyLen, RecomputedType DEF IsSuite, SoundVerdict

LEMMA NewSuiteSound == IsSuite(NewSuite)
BY AnyEmpty, RecomputedEmpty DEF IsSuite, SoundVerdict, NewSuite

LEMMA FollowsItself == ASSUME NEW s, IsSuite(s) PROVE Follows(s, s)
BY SuiteType DEF Follows

LEMMA FollowsOn ==
  ASSUME NEW s, NEW r, NEW q, IsSuite(s), Follows(s, r), Follows(r, q)
  PROVE  Follows(s, q)
<1>1. Len(s.checks) \in Nat /\ Len(r.checks) \in Nat /\ Len(q.checks) \in Nat
  BY SuiteType DEF Follows
<1>2. \A i \in 1 .. Len(s.checks) : i \in 1 .. Len(r.checks)
  BY <1>1 DEF Follows
<1> QED
  BY <1>1, <1>2 DEF Follows

LEMMA AddsOn ==
  ASSUME NEW s, NEW r, NEW q, IsSuite(s), Follows(s, r), Follows(r, q),
         NEW statuses, Adds(s, r, statuses), Adds(r, q, statuses)
  PROVE  Adds(s, q, statuses)
<1>1. Len(s.checks) \in Nat /\ Len(r.checks) \in Nat /\ Len(q.checks) \in Nat
  BY SuiteType DEF Follows
<1>2. SUFFICES ASSUME NEW i \in (Len(s.checks) + 1) .. Len(q.checks) PROVE q.checks[i].status \in statuses
  BY <1>1 DEF Adds
<1>3. CASE i <= Len(r.checks)
  <2>1. i \in (Len(s.checks) + 1) .. Len(r.checks) /\ i \in 1 .. Len(r.checks)
    BY <1>1, <1>3
  <2> QED
    BY <2>1 DEF Adds, Follows
<1>4. CASE i > Len(r.checks)
  <2>1. i \in (Len(r.checks) + 1) .. Len(q.checks)
    BY <1>1, <1>4
  <2> QED
    BY <2>1 DEF Adds
<1> QED
  BY <1>1, <1>3, <1>4

\* One check is recorded, and the status becomes what the checks amount to.
LEMMA Recording ==
  ASSUME NEW s, IsSuite(s), NEW c, WellRecorded(c), NEW r,
         r = [status |-> StatusThen(s.status, c), checks |-> Append(s.checks, c), artifacts |-> s.artifacts]
  PROVE  Follows(s, r) /\ Adds(s, r, {c.status})
<1>1. /\ AnySeq(r.checks) /\ Len(s.checks) \in Nat /\ Len(r.checks) = Len(s.checks) + 1
      /\ DOMAIN s.checks = 1 .. Len(s.checks)
      /\ DOMAIN r.checks = 1 .. (Len(s.checks) + 1) /\ r.checks[Len(s.checks) + 1] = c
      /\ \A i \in 1 .. Len(s.checks) : r.checks[i] = s.checks[i]
  BY AppendAny DEF IsSuite, SoundVerdict
<1>2. r.status = Recomputed(r.checks)
  BY RecomputedAppend DEF IsSuite, SoundVerdict
<1>3. ASSUME NEW i \in DOMAIN r.checks PROVE WellRecorded(r.checks[i])
  <2>1. CASE i = Len(s.checks) + 1
    BY <1>1, <2>1
  <2>2. CASE i # Len(s.checks) + 1
    <3>1. i \in 1 .. Len(s.checks)
      BY <1>1, <2>2
    <3> QED
      BY <3>1, <1>1 DEF IsSuite, SoundVerdict
  <2> QED
    BY <2>1, <2>2
<1>4. IsSuite(r)
  BY <1>1, <1>2, <1>3 DEF IsSuite, SoundVerdict
<1>5. s.status \in Statuses
  BY SuiteType
<1>6. /\ r.status = "passed" => s.status = "passed"
      /\ s.status = "refused" => r.status = "refused"
  BY <1>5 DEF StatusThen, CombineStatus, Statuses
<1>7. Follows(s, r)
  BY <1>1, <1>4, <1>6 DEF Follows
<1>8. ASSUME NEW i \in (Len(s.checks) + 1) .. Len(r.checks) PROVE r.checks[i] = c
  BY <1>1
<1> QED
  BY <1>1, <1>7, <1>8 DEF Adds

\* What an update of a suite leaves.
LEMMA Rerecorded ==
  ASSUME NEW s, IsSuite(s), NEW c, NEW v
  PROVE  /\ [WithCheck(s, c) EXCEPT !.status = v] = [status |-> v, checks |-> Append(s.checks, c), artifacts |-> s.artifacts]
         /\ WithCheck(s, c) = [status |-> s.status, checks |-> Append(s.checks, c), artifacts |-> s.artifacts]
         /\ WithCheck(s, c).status = s.status
<1>1. PICK a, b, d : s = [status |-> a, checks |-> b, artifacts |-> d]
  BY DEF IsSuite
<1>2. WithCheck(s, c) = [status |-> a, checks |-> Append(b, c), artifacts |-> d]
  BY <1>1 DEF WithCheck
<1>3. s.status = a /\ s.checks = b /\ s.artifacts = d
  BY <1>1
<1>4. [WithCheck(s, c) EXCEPT !.status = v] = [status |-> v, checks |-> Append(b, c), artifacts |-> d]
  <2>1. [[status |-> a, checks |-> Append(b, c), artifacts |-> d] EXCEPT !.status = v]
          = [status |-> v, checks |-> Append(b, c), artifacts |-> d]
    OBVIOUS
  <2> QED
    BY <1>2, <2>1, Zenon
<1>5. WithCheck(s, c).status = a
  BY <1>2
<1>6. [WithCheck(s, c) EXCEPT !.status = v] = [status |-> v, checks |-> Append(s.checks, c), artifacts |-> s.artifacts]
  BY <1>3, <1>4, Zenon
<1>7. WithCheck(s, c) = [status |-> s.status, checks |-> Append(s.checks, c), artifacts |-> s.artifacts]
  BY <1>2, <1>3, Zenon
<1> QED
  BY <1>3, <1>5, <1>6, <1>7, Zenon

LEMMA Refuses ==
  ASSUME NEW s, IsSuite(s), NEW id
  PROVE  /\ Follows(s, Refused(s, id)) /\ Adds(s, Refused(s, id), {"refused"})
         /\ Refused(s, id).status = "refused" /\ Refused(s, id).artifacts = s.artifacts
<1> DEFINE c == Check(id, "refused", 2, FALSE)
           r == Refused(s, id)
<1>1. c.status = "refused" /\ WellRecorded(c)
  BY DEF Check, WellRecorded
<1>2. r = [status |-> "refused", checks |-> Append(s.checks, c), artifacts |-> s.artifacts]
  <2> HIDE DEF c
  <2>2. [WithCheck(s, c) EXCEPT !.status = "refused"]
          = [status |-> "refused", checks |-> Append(s.checks, c), artifacts |-> s.artifacts]
    BY Rerecorded
  <2>3. r = [WithCheck(s, c) EXCEPT !.status = "refused"]
    BY Zenon DEF Refused, c
  <2> QED
    BY <2>2, <2>3, Zenon
<1> HIDE DEF c, r
<1>3. StatusThen(s.status, c) = "refused"
  BY <1>1 DEF StatusThen
<1>4. Follows(s, r) /\ Adds(s, r, {"refused"})
  BY <1>1, <1>2, <1>3, Recording
<1> QED
  BY <1>2, <1>4 DEF r

LEMMA Blocks ==
  ASSUME NEW s, IsSuite(s), NEW id
  PROVE  /\ Follows(s, Blocked(s, id)) /\ Adds(s, Blocked(s, id), {"blocked"})
         /\ Blocked(s, id).status # "passed" /\ Blocked(s, id).artifacts = s.artifacts
         /\ Blocked(s, id).status = "failed" => s.status = "failed"
<1> DEFINE c == Check(id, "blocked", 0, FALSE)
           r == Blocked(s, id)
<1>1. c.status = "blocked" /\ WellRecorded(c)
  BY DEF Check, WellRecorded
<1>2. r = [status |-> IF s.status = "passed" THEN "refused" ELSE s.status,
           checks |-> Append(s.checks, c), artifacts |-> s.artifacts]
  <2> DEFINE v == IF s.status = "passed" THEN "refused" ELSE s.status
  <2> HIDE DEF c, v
  <2>2. /\ WithCheck(s, c).status = s.status
        /\ [WithCheck(s, c) EXCEPT !.status = v] = [status |-> v, checks |-> Append(s.checks, c), artifacts |-> s.artifacts]
    BY Rerecorded
  <2>3. r = [WithCheck(s, c) EXCEPT !.status = IF WithCheck(s, c).status = "passed" THEN "refused" ELSE WithCheck(s, c).status]
    BY Zenon DEF Blocked, c
  <2>4. r = [WithCheck(s, c) EXCEPT !.status = v]
    BY <2>2, <2>3, Zenon DEF v
  <2> QED
    BY <2>2, <2>4, Zenon DEF v
<1> HIDE DEF c, r
<1>3. StatusThen(s.status, c) = IF s.status = "passed" THEN "refused" ELSE s.status
  BY <1>1 DEF StatusThen
<1>4. Follows(s, r) /\ Adds(s, r, {"blocked"})
  BY <1>1, <1>2, <1>3, Recording
<1> QED
  BY <1>2, <1>4 DEF r

LEMMA Answers ==
  ASSUME NEW s, IsSuite(s), NEW id
  PROVE  LET r == WithCheck(s, Check(id, "passed", 0, FALSE))
         IN /\ Follows(s, r) /\ Adds(s, r, {"passed"})
            /\ r.status = s.status /\ r.artifacts = s.artifacts
<1> DEFINE c == Check(id, "passed", 0, FALSE)
           r == WithCheck(s, c)
<1>1. c.status = "passed" /\ WellRecorded(c)
  BY DEF Check, WellRecorded
<1>2. r = [status |-> s.status, checks |-> Append(s.checks, c), artifacts |-> s.artifacts]
  BY Rerecorded
<1> HIDE DEF c, r
<1>3. StatusThen(s.status, c) = s.status
  BY <1>1 DEF StatusThen
<1>4. Follows(s, r) /\ Adds(s, r, {"passed"})
  BY <1>1, <1>2, <1>3, Recording
<1>5. r.status = s.status /\ r.artifacts = s.artifacts
  BY <1>2
<1> QED
  BY <1>4, <1>5, Zenon DEF r, c

Ended == {"passed", "observed", "failed", "refused"}

LEMMA Executes ==
  ASSUME NEW s, IsSuite(s), NEW id, NEW does, NEW end
  PROVE  LET r == Executed(s, id, does, end)
         IN /\ Follows(s, r) /\ Adds(s, r, Ended)
            /\ r.status = CombineStatus(s.status, ExecuteStatus(does, end)) /\ r.artifacts = s.artifacts
            /\ ExecuteStatus(does, end) \in Statuses
<1> DEFINE v == ExecuteStatus(does, end)
           c == Check(id, Recorded(does, end), end.exit, TRUE)
           r == Executed(s, id, does, end)
<1>1. v \in Statuses /\ (v = "passed" => end.exit \in {0, 1})
  BY DEF ExecuteStatus, Statuses, Accepted
<1>2. c.status = (IF v = "passed" /\ end.exit = 1 THEN "observed" ELSE v) /\ c.exit = end.exit
  BY DEF Check, Recorded
<1>3. WellRecorded(c) /\ c.status \in Ended
  BY <1>1, <1>2 DEF WellRecorded, Ended, Statuses
<1>4. r = [status |-> CombineStatus(s.status, v), checks |-> Append(s.checks, c), artifacts |-> s.artifacts]
  <2> DEFINE w == CombineStatus(s.status, v)
  <2> HIDE DEF c, v, w
  <2>2. /\ WithCheck(s, c).status = s.status
        /\ [WithCheck(s, c) EXCEPT !.status = w] = [status |-> w, checks |-> Append(s.checks, c), artifacts |-> s.artifacts]
    BY Rerecorded
  <2>3. r = [WithCheck(s, c) EXCEPT !.status = CombineStatus(WithCheck(s, c).status, v)]
    BY Zenon DEF Executed, c, v
  <2>4. r = [WithCheck(s, c) EXCEPT !.status = w]
    BY <2>2, <2>3, Zenon DEF w
  <2> QED
    BY <2>2, <2>4, Zenon DEF w
<1>5. s.status \in Statuses
  BY SuiteType
<1> HIDE DEF v, c, r
<1>6. StatusThen(s.status, c) = CombineStatus(s.status, v)
  BY <1>1, <1>2, <1>5 DEF StatusThen, CombineStatus, Statuses
<1>7. Follows(s, r) /\ Adds(s, r, {c.status})
  BY <1>3, <1>4, <1>6, Recording
<1>8. Adds(s, r, Ended)
  BY <1>3, <1>7 DEF Adds
<1> QED
  BY <1>1, <1>4, <1>7, <1>8 DEF r, v

LEMMA Takes ==
  ASSUME NEW s, IsSuite(s), NEW file, NEW there
  PROVE  LET r == TakeArtifact(s, file, there)
         IN /\ Follows(s, r)
            /\ file \in there => r.status = s.status /\ r.checks = s.checks /\ r.artifacts = s.artifacts \cup {file}
            /\ file \notin there => /\ Adds(s, r, {"refused"}) /\ r.status = "refused"
                                    /\ r.artifacts = s.artifacts
<1>1. CASE file \in there
  <2> DEFINE r == TakeArtifact(s, file, there)
  <2>1. r = [status |-> s.status, checks |-> s.checks, artifacts |-> s.artifacts \cup {file}]
    BY <1>1 DEF TakeArtifact, IsSuite
  <2> HIDE DEF r
  <2>2. Follows(s, r)
    BY <2>1, SuiteType DEF Follows, IsSuite, SoundVerdict
  <2> QED
    BY <1>1, <2>1, <2>2 DEF r
<1>2. CASE file \notin there
  <2>1. TakeArtifact(s, file, there) = Refused(s, "artifact-" \o file)
    BY <1>2 DEF TakeArtifact
  <2> DEFINE r == TakeArtifact(s, file, there)
  <2>2. /\ Follows(s, r) /\ Adds(s, r, {"refused"})
        /\ r.status = "refused" /\ r.artifacts = s.artifacts
    BY <2>1, Refuses
  <2> HIDE DEF r
  <2> QED
    BY <1>2, <2>2 DEF r
<1> QED
  BY <1>1, <1>2
-----------------------------------------------------------------------------
(***************************************************************************)
(* The inductive invariant.                                                *)
(***************************************************************************)
\* Nothing is under way before the first call of a shard and after its last.
Idle ==
  /\ report = <<>> /\ current = NewSuite /\ pc = 1 /\ done = {}
  /\ built = {} /\ broken = {} /\ full = {} /\ cancelled = FALSE

PhaseInv ==
  /\ scenario \in Scenarios
  /\ phase \in {"select", "suite", "merge", "merged"}
  /\ turn \in Nat /\ AnySeq(bundles) /\ Len(bundles) = turn - 1
  /\ phase \in {"select", "suite"} =>
       /\ turn \in 1 .. Len(scenario.shards)
       /\ left = {} /\ bundle = 0 /\ queue = <<>> /\ merged = {} /\ seen = {}
  /\ phase \in {"merge", "merged"} => left \subseteq DOMAIN bundles
  /\ phase # "suite" => Idle
  /\ phase = "suite" =>
       /\ Selectable(Ids) /\ Len(report) < Len(Ids)
       /\ pc \in 1 .. (Len(Calls) + 1)

\* The keys of the shard's suites, in their order.
KeyAt(n) == SuiteKey(Ids[n], Shard.cell)

\* What a saved suite of a shard keeps.
Told(i, s) ==
  \A t \in trouble : t.turn = i /\ t.key = s.key =>
    /\ s.status # "passed"
    /\ t.is = "refusal" => s.status = "refused"
FailedFor(s) == s.status = "failed" => \E t \in trouble : t.is = "failure"
SavedWell(i, s) ==
  /\ SoundVerdict(s) /\ s.checks # <<>>
  /\ s.status = "passed" => s.artifacts = Evidence(s.key)
  /\ <<i, s.key>> \in finished
  /\ Told(i, s) /\ FailedFor(s)
  /\ s.key[1] \in Range(Catalog)

IsBundle(b) ==
  b = [summary |-> b.summary, suites |-> b.suites, full |-> b.full, logs |-> b.logs]
SavedInv ==
  /\ AnySeq(report)
  /\ \A n \in DOMAIN report : SavedWell(turn, report[n]) /\ report[n].key = KeyAt(n)
  /\ \A i \in DOMAIN bundles :
       /\ IsBundle(bundles[i]) /\ AnySeq(bundles[i].suites)
       /\ bundles[i].summary \in {"absent", "torn", "saved"}
       /\ \A n \in DOMAIN bundles[i].suites : SavedWell(i, bundles[i].suites[n])
       /\ \A n, m \in DOMAIN bundles[i].suites :
            bundles[i].suites[n].key = bundles[i].suites[m].key => n = m

\* The suite in progress.  It passed so far only if each call that does not
\* depend on a failure succeeded.
Leaving(call) ==
  /\ call.does \in (Executables \ {"tool"}) \cup {"request"}
  /\ call.needs = {} /\ call.unless = {}
EvidenceOf(calls) ==
  UNION {calls[k].files : k \in {n \in DOMAIN calls : calls[n].does \in Evident}}
SuiteInv ==
  /\ IsSuite(current)
  /\ phase = "suite" =>
       /\ current.status = "passed" =>
            \A j \in DOMAIN Calls : j < pc /\ Calls[j].unless = {} =>
              /\ Calls[j].id \in done
              /\ Calls[j].does \in Evident => Calls[j].files \subseteq current.artifacts
       /\ current.artifacts \subseteq EvidenceOf(Calls)
       /\ \A j \in DOMAIN Calls : j < pc /\ Leaving(Calls[j]) => current.checks # <<>>

\* A tool is broken, and a check blocked, only after a failure or a refusal.
CauseInv ==
  /\ broken # {} => \/ current.status # "passed"
                    \/ \E n \in DOMAIN report : report[n].status # "passed"
  /\ BlockedForCause

\* Every file was written by a call of this shard.
FilesInv ==
  phase = "suite" =>
    \A f \in full :
      \/ \E j \in Touching(Calls, f) : j < pc
      \/ \E n \in DOMAIN report : Touching(Script(Ids[n], Shard.cell), f) # {}

\* A file that a successful call did not leave will be missed.
Missing(a) ==
  /\ a \in DOMAIN Calls /\ a >= pc
  /\ Calls[a].does = "artifact" /\ Calls[a].unless = {} /\ Calls[a].needs \subseteq done
  /\ Calls[a].id \notin full
  /\ \A j \in DOMAIN Calls : j >= pc => ~Calls[j].ends /\ j \notin Touching(Calls, Calls[a].id)
Pending == \E a \in DOMAIN Calls : Missing(a)

TroubleInv ==
  /\ \A t \in trouble :
       /\ t.turn \in 1 .. turn
       /\ t.turn = turn => /\ phase = "suite"
                           /\ t.key = NoKey \/ \E n \in 1 .. (Len(report) + 1) : t.key = KeyAt(n)
  /\ phase = "suite" =>
       \A t \in trouble : t.turn = turn /\ t.key = Key =>
         \/ Pending
         \/ /\ current.status # "passed"
            /\ t.is = "refusal" => current.status = "refused"
  /\ FailedFor(current)

\* As long as nothing went wrong.
CleanInv ==
  trouble = {} =>
    /\ ~cancelled /\ broken = {}
    /\ current.status = "passed" /\ current.artifacts \subseteq full
    /\ \A n \in DOMAIN report : report[n].status = "passed" /\ report[n].artifacts \subseteq full
    /\ phase = "suite" =>
         \A j \in DOMAIN Calls : j < pc /\ Calls[j].unless = {} =>
           /\ Calls[j].id \in done
           /\ Calls[j].does \in Executables => Calls[j].files \subseteq full
    /\ \A i \in DOMAIN bundles :
         /\ bundles[i].summary # "torn" /\ bundles[i].logs
         /\ \A n \in DOMAIN bundles[i].suites :
              /\ bundles[i].suites[n].status = "passed"
              /\ bundles[i].suites[n].artifacts \subseteq bundles[i].full

\* The suites that the merge has taken over, or refused, so far.
Taken(i, n) ==
  /\ phase \in {"merge", "merged"}
  /\ i \in DOMAIN bundles /\ i \notin left /\ bundles[i].summary = "saved"
  /\ n \in DOMAIN bundles[i].suites
  /\ i = bundle => n + Len(queue) <= Len(bundles[i].suites)
TakenKey(key) == \E i, n \in Nat : Taken(i, n) /\ bundles[i].suites[n].key = key
Refusal == \E m \in merged : m.status = "refused"
TakenTwice ==
  \E i, n, j, k \in Nat : /\ Taken(i, n) /\ Taken(j, k) /\ <<i, n>> # <<j, k>>
                          /\ bundles[i].suites[n].key = bundles[j].suites[k].key
AllAbsent == \A i \in DOMAIN bundles : bundles[i].summary = "absent"
AllSaved == UNION {SavedKeys(i) : i \in DOMAIN bundles}

QueueInv ==
  /\ AnySeq(queue)
  /\ queue # <<>> =>
       /\ bundle \in DOMAIN bundles /\ bundle \notin left /\ bundles[bundle].summary = "saved"
       /\ Len(queue) <= Len(bundles[bundle].suites)
       /\ \A j \in 1 .. Len(queue) :
            queue[j] = bundles[bundle].suites[Len(bundles[bundle].suites) - Len(queue) + j]

MergeInv ==
  /\ \A m \in merged :
       /\ m.status \in Statuses
       /\ m.status = "failed" => \E t \in trouble : t.is = "failure"
       /\ m.status = "passed" =>
            \E i, n \in Nat : /\ Taken(i, n)
                              /\ bundles[i].suites[n].key = m.key
                              /\ bundles[i].suites[n].status = "passed"
                              /\ bundles[i].suites[n].artifacts = m.artifacts
  /\ \A key : key \in seen <=> TakenKey(key)
  /\ \A key \in seen : \E m \in merged : m.key = key
  /\ TakenTwice => Refusal
  /\ (\E i, n \in Nat : Taken(i, n) /\ bundles[i].suites[n].status = "refused") => Refusal
  /\ trouble = {} /\ Refusal =>
       \/ TakenTwice
       \/ phase = "merged" /\ (~(scenario.expect \subseteq AllSaved) \/ AllAbsent)
  /\ phase = "merged" =>
       /\ left = {} /\ queue = <<>>
       /\ Refusal \/ scenario.expect \subseteq seen

IInv ==
  /\ PhaseInv /\ SavedInv /\ SuiteInv /\ CauseInv /\ FilesInv
  /\ TroubleInv /\ CleanInv /\ QueueInv /\ MergeInv
-----------------------------------------------------------------------------
(***************************************************************************)
(* The shard under way: its suites, their scripts and their keys.          *)
(***************************************************************************)
LEMMA CatalogSeq == AnySeq(Catalog)
<1>1. Catalog \in Seq({"offline", "minimum", "compatibility", "fuzz", "types", "execution", "boundary", "versions"})
  BY DEF Catalog
<1> QED
  BY <1>1, SeqOfRange DEF AnySeq

LEMMA ShardType ==
  ASSUME scenario \in Scenarios, turn \in 1 .. Len(scenario.shards)
  PROVE  Shard.cell \in CellsAsked /\ AnySeq(Ids)
<1>1. /\ scenario.shards \in Seq([profile : STRING, selected : Seq(STRING), cell : CellsAsked])
  BY ScenariosAssumption
<1>2. Shard \in [profile : STRING, selected : Seq(STRING), cell : CellsAsked]
  BY <1>1, ElementOfSeq DEF Shard
<1>3. Shard.selected \in Seq(STRING) /\ Shard.cell \in CellsAsked
  BY <1>2
<1>4. AnySeq(<<"offline", "fuzz">>)
  <2>1. <<"offline", "fuzz">> \in Seq({"offline", "fuzz"})
    OBVIOUS
  <2> QED
    BY <2>1, SeqOfRange DEF AnySeq
<1>5. AnySeq(Shard.selected)
  BY <1>3, SeqOfRange DEF AnySeq
<1>6. AnySeq(Ids)
  BY <1>4, <1>5, CatalogSeq DEF Ids, Selection
<1> QED
  BY <1>3, <1>6

SuiteSetting ==
  /\ Shard.cell \in CellsAsked
  /\ Len(Ids) \in Nat /\ DOMAIN Ids = 1 .. Len(Ids)
  /\ \A n \in 1 .. Len(Ids) : Ids[n] \in Range(Catalog)
  /\ \A n, m \in 1 .. Len(Ids) : Ids[n] = Ids[m] => n = m
  /\ Len(report) \in Nat /\ DOMAIN report = 1 .. Len(report)
  /\ Len(report) + 1 \in 1 .. Len(Ids)
  /\ SoundScript(Calls)
  /\ \A n \in 1 .. Len(report) : ApartScripts(Calls, Script(Ids[n], Shard.cell))
  /\ Key = KeyAt(Len(report) + 1)

LEMMA SettingHolds ==
  ASSUME PhaseInv, phase = "suite", AnySeq(report)
  PROVE  SuiteSetting
<1>1. Shard.cell \in CellsAsked /\ AnySeq(Ids)
  BY ShardType DEF PhaseInv
<1>2. Len(Ids) \in Nat /\ DOMAIN Ids = 1 .. Len(Ids)
  BY <1>1, AnyLen
<1>3. Range(Ids) \subseteq Range(Catalog) /\ IsInjective(Ids)
  BY DEF PhaseInv, Selectable
<1>4. \A n \in 1 .. Len(Ids) : Ids[n] \in Range(Catalog)
  BY <1>2, <1>3 DEF Range
<1>5. \A n, m \in 1 .. Len(Ids) : Ids[n] = Ids[m] => n = m
  BY <1>2, <1>3 DEF IsInjective
<1>6. Len(report) \in Nat /\ DOMAIN report = 1 .. Len(report)
  BY AnyLen
<1>7. Len(report) + 1 \in 1 .. Len(Ids)
  BY <1>2, <1>6 DEF PhaseInv
<1>8. SoundScript(Calls)
  BY <1>1, <1>4, <1>7, ScriptsAssumption DEF Calls
<1>9. ASSUME NEW n \in 1 .. Len(report) PROVE ApartScripts(Calls, Script(Ids[n], Shard.cell))
  <2>1. n \in 1 .. Len(Ids) /\ n # Len(report) + 1
    BY <1>2, <1>6, <1>7
  <2>2. Ids[n] # Ids[Len(report) + 1]
    BY <1>5, <1>7, <2>1
  <2> QED
    BY <1>1, <1>4, <1>7, <2>1, <2>2, ScriptsAssumption DEF Calls
<1>10. Key = KeyAt(Len(report) + 1)
  BY DEF Key, KeyAt
<1> QED
  BY <1>1, <1>2, <1>4, <1>5, <1>6, <1>7, <1>8, <1>9, <1>10 DEF SuiteSetting

LEMMA KeysDiffer ==
  ASSUME SuiteSetting, NEW n \in 1 .. Len(Ids), NEW m \in 1 .. Len(Ids), KeyAt(n) = KeyAt(m)
  PROVE  n = m
<1>1. Ids[n] = Ids[m]
  BY DEF KeyAt, SuiteKey
<1> QED
  BY <1>1 DEF SuiteSetting

LEMMA KeysAreKeys ==
  ASSUME SuiteSetting, NEW n \in 1 .. Len(Ids)
  PROVE  KeyAt(n) # NoKey /\ KeyAt(n)[1] = Ids[n] /\ KeyAt(n)[1] \in Range(Catalog)
<1>1. Ids[n] \in Range(Catalog)
  BY DEF SuiteSetting
<1> QED
  BY <1>1, ScriptsAssumption DEF KeyAt, SuiteKey, NoKey

\* The key of a suite tells its script.
LEMMA ScriptOfKey ==
  ASSUME SuiteSetting
  PROVE  Script(Key[1], Key[2]) = Calls
<1> DEFINE id == Ids[Len(report) + 1]
<1>1. Key[1] = id /\ Key[2] = IF id = "compatibility" THEN Shard.cell ELSE None
  BY DEF Key, SuiteKey
<1>2. Calls = Script(id, Shard.cell)
  BY DEF Calls
<1> HIDE DEF id
<1>3. CASE id = "compatibility"
  BY <1>1, <1>2, <1>3
<1>4. CASE id # "compatibility"
  <2>1. Script(id, None) = Script(id, Shard.cell)
    BY <1>4 DEF Script
  <2> QED
    BY <1>1, <1>2, <1>4, <2>1
<1> QED
  BY <1>3, <1>4

LEMMA EvidenceOfKey ==
  ASSUME SuiteSetting
  PROVE  Evidence(Key) = EvidenceOf(Calls)
BY ScriptOfKey DEF Evidence, EvidenceOf, Evident
-----------------------------------------------------------------------------
(***************************************************************************)
(* What every call of a suite has in common, whichever action returns it.  *)
(***************************************************************************)
CallFits == phase = "suite" /\ pc \in DOMAIN Calls /\ FilesFit(Call) /\ IsSuite(current)
EvidenceFrom(call) == IF call.does \in Evident THEN call.files ELSE {}
FilesFrom(call) == IF call.does \in Executables THEN call.files ELSE {}

\* What it does to the suite and to the files.
CallReturns(ok) ==
  /\ phase = "suite" /\ pc \in DOMAIN Calls /\ Due
  /\ pc' = IF ~ok /\ Call.ends THEN Len(Calls) + 1 ELSE pc + 1
  /\ done' = IF ok THEN done \cup {Call.id} ELSE done
  /\ UNCHANGED <<scenario, phase, turn, report, cancelled, bundles, mergeVars, finished>>
  /\ Follows(current, current')
  /\ ~ok => current'.status # "passed"
  /\ Leaving(Call) => Len(current.checks) < Len(current'.checks)
  /\ ok => EvidenceFrom(Call) \subseteq current'.artifacts
  /\ current'.artifacts \subseteq current.artifacts \cup EvidenceFrom(Call)
  /\ current'.artifacts \subseteq current.artifacts \cup full'
  /\ \A i \in (Len(current.checks) + 1) .. Len(current'.checks) :
       current'.checks[i].status = "blocked" => Call.does = "block" \/ broken # {}
  /\ broken' # {} => broken # {} \/ current'.status # "passed"
  /\ full' \subseteq full \cup FilesFrom(Call)
  /\ Call.does = "artifact" /\ Call.id \notin full => current'.status = "refused"

\* What it notes, and that only a fault keeps it from succeeding.
Loses(ok) ==
  /\ ok /\ Call.does \in Executables \ {"output"}
  /\ \E f \in Call.files : full' \subseteq full \cup (Call.files \ {f})
Blames(ok) ==
  /\ trouble \subseteq trouble'
  /\ \A t \in trouble' : t \notin trouble =>
       /\ t.turn = turn /\ t.key = Key
       /\ \/ Loses(ok)
          \/ /\ current'.status # "passed"
             /\ t.is = "refusal" => current'.status = "refused"
  /\ current'.status = "failed" => current.status = "failed" \/ \E t \in trouble' : t.is = "failure"
  /\ trouble' = {} /\ broken = {} /\ ~cancelled /\ Call.does # "block"
       /\ (Call.does = "artifact" => Call.id \in full) =>
       /\ ok /\ current'.status = current.status /\ broken' = {}
       /\ full \subseteq full' /\ FilesFrom(Call) \subseteq full'

CallStep == \E ok \in BOOLEAN : CallReturns(ok) /\ Blames(ok)

\* How a command ends (execute, and what its callers add).
Passes(end) == ExecuteStatus(Call.does, end) = "passed"
Succeeds(end, written, idle) ==
  Passes(end) /\ (Call.does = "output" => written # {}) /\ ~idle
LEMMA ExecuteReturns ==
  ASSUME CallFits, Running, NEW end, NEW written \in SUBSET Call.files, NEW idle \in BOOLEAN,
         idle => Call.does = "test", Execute(end, written, idle)
  PROVE  /\ CallReturns(Succeeds(end, written, idle))
         /\ ExecuteStatus(Call.does, end) \in Statuses
         /\ ~Succeeds(end, written, idle) /\ ExecuteStatus(Call.does, end) # "failed" =>
              current'.status = "refused"
         /\ Succeeds(end, written, idle) => current'.status = current.status /\ broken' = broken
         /\ current'.status = "failed" =>
              current.status = "failed" \/ ExecuteStatus(Call.does, end) = "failed"
         /\ full' = FilesAfter(written)
<1> DEFINE v == ExecuteStatus(Call.does, end)
           ran == Executed(current, CheckId, Call.does, end)
           file == CHOOSE f \in Call.files : TRUE
           ok == Succeeds(end, written, idle)
<1>1. /\ Follows(current, ran) /\ Adds(current, ran, Ended)
      /\ ran.status = CombineStatus(current.status, v) /\ ran.artifacts = current.artifacts
      /\ v \in Statuses
  BY Executes DEF CallFits
<1>2. IsSuite(ran) /\ IsSuite(current) /\ current.status \in Statuses /\ Len(current.checks) \in Nat
  BY <1>1, SuiteType DEF Follows, CallFits
<1>3. /\ v = "passed" => ran.status = current.status
      /\ v = "refused" => ran.status = "refused"
      /\ v # "passed" => ran.status # "passed"
      /\ ran.status = "failed" => current.status = "failed" \/ v = "failed"
  BY <1>1, <1>2 DEF CombineStatus, Statuses
<1>4. Call.does \in Executables /\ phase = "suite" /\ pc \in DOMAIN Calls /\ Due
  BY DEF Running, Doing, Executables
<1>5. /\ Returns(current', ok) /\ full' = FilesAfter(written)
      /\ broken' = BrokenBy(ok)
      /\ current' = CASE v = "passed" /\ Call.does = "output" -> TakeArtifact(ran, file, written)
                      [] v = "passed" /\ idle -> Refused(ran, Call.id \o "-ran")
                      [] OTHER -> ran
  BY DEF Execute, Returns, Succeeds, Passes
<1> DEFINE Rest(r) ==
      /\ Follows(current, r) /\ Adds(current, r, Ended)
      /\ ~ok => r.status # "passed"
      /\ ok => EvidenceFrom(Call) \subseteq r.artifacts
      /\ r.artifacts \subseteq current.artifacts \cup EvidenceFrom(Call)
      /\ r.artifacts \subseteq current.artifacts \cup full'
      /\ ~ok /\ v # "failed" => r.status = "refused"
      /\ ok => r.status = current.status
      /\ r.status = "failed" => current.status = "failed" \/ v = "failed"
<1>6. ok <=> v = "passed" /\ (Call.does = "output" => written # {}) /\ ~idle
  BY DEF Succeeds, Passes
<1>7. PICK r : r = current'
  OBVIOUS
<1> HIDE DEF v, ran, file, ok
<1>8. /\ v = "passed" /\ Call.does = "output" => r = TakeArtifact(ran, file, written)
      /\ v = "passed" /\ Call.does # "output" /\ idle => r = Refused(ran, Call.id \o "-ran")
      /\ v # "passed" \/ (Call.does # "output" /\ ~idle) => r = ran
  BY <1>5, <1>7
<1>9. full' \subseteq full \cup FilesFrom(Call)
  BY <1>4, <1>5 DEF FilesAfter, FilesFrom
<1>10. Adds(ran, r, {"refused"}) /\ Follows(ran, r) => Follows(current, r) /\ Adds(current, r, Ended)
  <2> SUFFICES ASSUME Adds(ran, r, {"refused"}), Follows(ran, r)
               PROVE  Follows(current, r) /\ Adds(current, r, Ended)
    OBVIOUS
  <2>1. Adds(ran, r, Ended)
    BY DEF Adds, Ended
  <2>2. Follows(current, r)
    BY <1>1, <1>2, FollowsOn
  <2>3. Adds(current, r, Ended)
    BY <1>1, <1>2, <2>1, AddsOn
  <2> QED
    BY <2>2, <2>3
<1>11. ASSUME v = "passed" /\ Call.does = "output" PROVE Rest(r)
  <2>1. r = TakeArtifact(ran, file, written)
    BY <1>8, <1>11
  <2>2. Call.files = {file}
    BY <1>11 DEF CallFits, FilesFit, file
  <2>3. written = (IF ok THEN {file} ELSE {}) /\ Call.does \in Evident
    BY <1>6, <1>11, <2>2 DEF Evident
  <2>4. /\ Follows(ran, r)
        /\ file \in written => /\ r.status = ran.status /\ r.checks = ran.checks
                               /\ r.artifacts = ran.artifacts \cup {file}
        /\ file \notin written => /\ Adds(ran, r, {"refused"}) /\ r.status = "refused"
                                  /\ r.artifacts = ran.artifacts
    BY <1>2, <2>1, Takes
  <2>5. ASSUME ok PROVE Rest(r)
    <3>1. Adds(current, r, Ended)
      BY <1>1, <2>3, <2>4, <2>5 DEF Adds
    <3>2. Follows(current, r)
      BY <1>1, <1>2, <2>4, FollowsOn
    <3>3. file \in full'
      BY <1>5, <2>3, <2>5 DEF FilesAfter
    <3>4. EvidenceFrom(Call) = {file} /\ r.artifacts = current.artifacts \cup {file}
      BY <1>1, <2>2, <2>3, <2>4, <2>5 DEF EvidenceFrom
    <3> QED
      BY <1>3, <1>11, <2>3, <2>4, <2>5, <3>1, <3>2, <3>3, <3>4
  <2>6. ASSUME ~ok PROVE Rest(r)
    <3>1. Follows(current, r) /\ Adds(current, r, Ended)
      BY <1>10, <2>3, <2>4, <2>6
    <3> QED
      BY <1>1, <2>3, <2>4, <2>6, <3>1
  <2> QED
    BY <2>5, <2>6
<1>12. ASSUME v = "passed" /\ Call.does # "output" /\ idle PROVE Rest(r)
  <2>1. /\ Follows(ran, r) /\ Adds(ran, r, {"refused"})
        /\ r.status = "refused" /\ r.artifacts = ran.artifacts
    BY <1>2, <1>8, <1>12, Refuses
  <2>2. ~ok
    BY <1>6, <1>12
  <2> QED
    BY <1>1, <1>10, <2>1, <2>2
<1>13. ASSUME v = "passed" /\ Call.does # "output" /\ ~idle PROVE Rest(r)
  <2>1. r = ran
    BY <1>8, <1>13
  <2>2. EvidenceFrom(Call) = {} /\ ok
    BY <1>4, <1>6, <1>13 DEF EvidenceFrom, Evident, Executables
  <2> QED
    BY <1>1, <1>3, <1>13, <2>1, <2>2
<1>14. ASSUME v # "passed" PROVE Rest(r)
  <2>1. r = ran
    BY <1>8, <1>14
  <2>2. ~ok
    BY <1>6, <1>14
  <2> QED
    BY <1>1, <1>3, <1>14, <2>1, <2>2 DEF Statuses
<1>15. Rest(r)
  BY <1>11, <1>12, <1>13, <1>14
<1>16. /\ \A i \in (Len(current.checks) + 1) .. Len(r.checks) : r.checks[i].status # "blocked"
       /\ Len(current.checks) < Len(r.checks)
  BY <1>15 DEF Adds, Ended
<1>17. broken' # {} => broken # {} \/ r.status # "passed"
  BY <1>5, <1>15 DEF BrokenBy
<1>18. ok => broken' = broken
  BY <1>5 DEF BrokenBy
<1>19. CallReturns(ok)
  <2>1. Returns(r, ok)
    BY <1>5, <1>7
  <2>2. Call.does # "artifact"
    BY <1>4 DEF Executables
  <2> QED
    BY <1>4, <1>7, <1>9, <1>15, <1>16, <1>17, <2>1, <2>2 DEF CallReturns, Returns
<1> QED
  BY <1>1, <1>5, <1>7, <1>15, <1>18, <1>19 DEF v, ok

LEMMA RunsWellStep == ASSUME CallFits, RunsWell PROVE CallStep
<1>1. PICK n \in Accepted(Call.does) : Execute(Exited(n), Call.files, FALSE)
  BY DEF RunsWell
<1>2. Running /\ UNCHANGED <<faults, trouble>> /\ Call.does \in Executables
  BY DEF RunsWell, NoFault, Running, Doing, Executables
<1>3. Succeeds(Exited(n), Call.files, FALSE)
  <2>1. Exited(n).ended = TRUE /\ Exited(n).closed = TRUE /\ Exited(n).exit = n
    BY DEF Exited
  <2>2. Passes(Exited(n))
    BY <2>1 DEF Passes, ExecuteStatus
  <2> QED
    BY <2>2 DEF Succeeds, CallFits, FilesFit
<1> DEFINE ok == Succeeds(Exited(n), Call.files, FALSE)
<1>4. /\ CallReturns(ok)
      /\ current'.status = current.status /\ broken' = broken
      /\ full' = FilesAfter(Call.files)
  BY <1>1, <1>2, <1>3, ExecuteReturns
<1>5. full \subseteq full' /\ FilesFrom(Call) \subseteq full'
  BY <1>4 DEF FilesAfter, FilesFrom
<1> HIDE DEF ok
<1>6. CallReturns(TRUE)
  BY <1>3, <1>4 DEF CallReturns, ok
<1>7. Blames(TRUE)
  BY <1>2, <1>4, <1>5 DEF Blames
<1> QED
  BY <1>6, <1>7 DEF CallStep

\* A note of this suite that its status answers for.
LEMMA NoteBlames ==
  ASSUME NEW ok \in BOOLEAN, NEW is, Note(is, turn, Key),
         \/ Loses(ok)
         \/ current'.status # "passed" /\ (is = "refusal" => current'.status = "refused"),
         current'.status = "failed" => current.status = "failed" \/ is = "failure"
  PROVE  Blames(ok)
<1> DEFINE t == [is |-> is, turn |-> turn, key |-> Key]
<1>1. trouble' = trouble \cup {t} /\ t.is = is /\ t.turn = turn /\ t.key = Key
  BY DEF Note
<1> HIDE DEF t
<1>2. trouble' # {} /\ t \in trouble'
  BY <1>1
<1> QED
  BY <1>1, <1>2 DEF Blames

LEMMA RunsBadlyStep == ASSUME CallFits, RunsBadly PROVE CallStep
<1>1. PICK end \in {Exited(0), Exited(1), Exited(2), CutOff, Unclosed},
           written \in SUBSET Call.files, idle \in BOOLEAN :
        /\ idle => Call.does = "test" /\ end = Exited(0)
        /\ idle \/ ExecuteStatus(Call.does, end) # "passed" \/ written # Call.files
        /\ Execute(end, written, idle)
        /\ Note(IF ExecuteStatus(Call.does, end) = "failed" THEN "failure" ELSE "refusal", turn, Key)
  BY DEF RunsBadly, Fault
<1>2. Running /\ Call.does \in Executables
  BY DEF RunsBadly, Running, Doing, Executables
<1> DEFINE ok == Succeeds(end, written, idle)
           v == ExecuteStatus(Call.does, end)
           is == IF v = "failed" THEN "failure" ELSE "refusal"
<1>3. /\ CallReturns(ok) /\ v \in Statuses
      /\ ~ok /\ v # "failed" => current'.status = "refused"
      /\ current'.status = "failed" => current.status = "failed" \/ v = "failed"
      /\ full' = FilesAfter(written)
  BY <1>1, <1>2, ExecuteReturns
<1>4. ASSUME ok PROVE CallStep
  <2>1. v = "passed" /\ ~idle /\ (Call.does = "output" => written # {}) /\ written # Call.files
    BY <1>1, <1>4 DEF Succeeds, Passes
  <2>2. Call.does # "output"
    BY <2>1 DEF CallFits, FilesFit
  <2>3. PICK f \in Call.files : f \notin written
    BY <2>1
  <2>4. full' \subseteq full \cup (Call.files \ {f})
    BY <1>3, <2>2, <2>3 DEF FilesAfter
  <2>5. Loses(TRUE)
    BY <1>2, <2>2, <2>3, <2>4 DEF Loses
  <2>6. CallReturns(TRUE)
    BY <1>3, <1>4 DEF CallReturns
  <2>7. Note(is, turn, Key) /\ (current'.status = "failed" => current.status = "failed" \/ is = "failure")
    BY <1>1, <1>3
  <2> HIDE DEF is
  <2>8. Blames(TRUE)
    BY <2>5, <2>7, NoteBlames
  <2> QED
    BY <2>6, <2>8 DEF CallStep
<1>5. ASSUME ~ok PROVE CallStep
  <2>1. CallReturns(FALSE) /\ current'.status # "passed"
    BY <1>3, <1>5 DEF CallReturns
  <2>2. /\ Note(is, turn, Key)
        /\ current'.status = "failed" => current.status = "failed" \/ is = "failure"
        /\ is = "refusal" => current'.status = "refused"
    BY <1>1, <1>3, <1>5
  <2> HIDE DEF is
  <2>3. Blames(FALSE)
    BY <2>1, <2>2, NoteBlames
  <2> QED
    BY <2>1, <2>3 DEF CallStep
<1> QED
  BY <1>4, <1>5

LEMMA RunsCancelledStep == ASSUME CallFits, RunsCancelled PROVE CallStep
<1>1. Execute(CutOff, {}, FALSE) /\ Note("refusal", turn, Key) /\ Running
  BY DEF RunsCancelled
<1>2. ExecuteStatus(Call.does, CutOff) = "refused"
  <2>1. CutOff.ended = FALSE
    BY DEF CutOff
  <2> QED
    BY <2>1 DEF ExecuteStatus
<1>3. ~Succeeds(CutOff, {}, FALSE)
  BY <1>2 DEF Succeeds, Passes
<1>4. CallReturns(Succeeds(CutOff, {}, FALSE)) /\ current'.status = "refused"
  BY <1>1, <1>2, <1>3, ExecuteReturns, "refused" # "failed"
<1>5. CallReturns(FALSE)
  BY <1>3, <1>4 DEF CallReturns
<1>6. Blames(FALSE)
  BY <1>1, <1>4, NoteBlames
<1> QED
  BY <1>5, <1>6 DEF CallStep

\* A call that is refused before it does anything.
LEMMA RefusedReturns ==
  ASSUME CallFits, Due, NEW id, Returns(Refused(current, id), FALSE), full' \subseteq full,
         broken' \in {broken, BrokenBy(FALSE)}
  PROVE  CallReturns(FALSE) /\ current'.status = "refused"
<1>1. PICK r : r = current'
  OBVIOUS
<1>2. /\ Follows(current, r) /\ Adds(current, r, {"refused"})
      /\ r.status = "refused" /\ r.artifacts = current.artifacts
  BY <1>1, Refuses DEF Returns, CallFits
<1>3. Returns(r, FALSE)
  BY <1>1 DEF Returns
<1>4. /\ Len(current.checks) < Len(r.checks)
      /\ \A i \in (Len(current.checks) + 1) .. Len(r.checks) : r.checks[i].status # "blocked"
  BY <1>2 DEF Adds
<1> QED
  BY <1>1, <1>2, <1>3, <1>4 DEF CallReturns, Returns, CallFits

LEMMA CannotCreateStep == ASSUME CallFits, CannotCreate PROVE CallStep
<1>1. /\ Due /\ Returns(Refused(current, CheckId), FALSE) /\ full' = full
      /\ broken' \in {broken, BrokenBy(FALSE)} /\ Note("refusal", turn, Key)
  BY DEF CannotCreate, Running, Doing, Fault
<1>2. CallReturns(FALSE) /\ current'.status = "refused"
  BY <1>1, RefusedReturns
<1>3. Blames(FALSE)
  BY <1>1, <1>2, NoteBlames
<1> QED
  BY <1>2, <1>3 DEF CallStep

\* A call that succeeds and leaves the suite as it is, but for a passed check.
LEMMA PlainReturns ==
  ASSUME CallFits, Due, NEW r, Returns(r, TRUE), NoFault, UNCHANGED <<full, tools>>,
         Follows(current, r), r.status = current.status, r.artifacts = current.artifacts,
         r.checks = current.checks \/ Adds(current, r, {"passed"}),
         Leaving(Call) => Adds(current, r, {"passed"}),
         EvidenceFrom(Call) = {}, FilesFrom(Call) = {}
  PROVE  CallStep
<1>1. r = current' /\ Len(current.checks) \in Nat
  BY SuiteType DEF Returns, CallFits
<1>2. /\ Leaving(Call) => Len(current.checks) < Len(r.checks)
      /\ \A i \in (Len(current.checks) + 1) .. Len(r.checks) : r.checks[i].status # "blocked"
  BY <1>1 DEF Adds
<1>3. CallReturns(TRUE)
  <2>1. Call.does # "artifact"
    BY DEF EvidenceFrom, Evident, CallFits, FilesFit
  <2> QED
    BY <1>1, <1>2, <2>1 DEF CallReturns, Returns, CallFits, tools
<1>4. Blames(TRUE)
  BY <1>1 DEF Blames, NoFault, tools
<1> QED
  BY <1>3, <1>4 DEF CallStep

\* A check that is blocked, for a cause that is there already.
LEMMA BlockedReturns ==
  ASSUME CallFits, Due, NEW id, Returns(Blocked(current, id), FALSE), UNCHANGED <<full, tools>>,
         ~Leaving(Call), Call.does # "artifact", Call.does = "block" \/ broken # {}
  PROVE  /\ CallReturns(FALSE) /\ current'.status # "passed"
         /\ current'.status = "failed" => current.status = "failed"
<1>1. PICK r : r = current'
  OBVIOUS
<1>2. /\ Follows(current, r) /\ Adds(current, r, {"blocked"})
      /\ r.status # "passed" /\ r.artifacts = current.artifacts
      /\ r.status = "failed" => current.status = "failed"
  BY <1>1, Blocks DEF Returns, CallFits
<1>3. Returns(r, FALSE)
  BY <1>1 DEF Returns
<1> QED
  BY <1>1, <1>2, <1>3 DEF CallReturns, Returns, CallFits, tools

LEMMA ReuseToolStep == ASSUME CallFits, ReuseTool PROVE CallStep
<1>1. Due /\ Call.does = "tool" /\ UNCHANGED <<full, tools>>
  BY DEF ReuseTool, Doing
<1>2. ~Leaving(Call) /\ EvidenceFrom(Call) = {} /\ FilesFrom(Call) = {}
  BY <1>1 DEF Leaving, EvidenceFrom, Evident, FilesFrom, CallFits, FilesFit
<1>3. CASE Returns(current, TRUE) /\ NoFault
  <2>1. Follows(current, current)
    BY FollowsItself DEF CallFits
  <2> QED
    BY <1>1, <1>2, <1>3, <2>1, PlainReturns
<1>4. CASE Call.id \in broken /\ Returns(Blocked(current, CheckId), FALSE) /\ Note("blocked", turn, Key)
  <2>1. /\ CallReturns(FALSE) /\ current'.status # "passed"
        /\ current'.status = "failed" => current.status = "failed"
    BY <1>1, <1>2, <1>4, BlockedReturns
  <2>2. Blames(FALSE)
    BY <1>4, <2>1, NoteBlames
  <2> QED
    BY <2>1, <2>2 DEF CallStep
<1> QED
  BY <1>3, <1>4 DEF ReuseTool

LEMMA BlockGateStep == ASSUME CallFits, BlockGate PROVE CallStep
<1>1. /\ Due /\ Call.does = "block" /\ UNCHANGED <<full, tools>> /\ NoFault
      /\ Returns(Blocked(current, Call.id), FALSE)
  BY DEF BlockGate, Doing
<1>2. ~Leaving(Call)
  BY <1>1 DEF Leaving, Executables
<1>3. /\ CallReturns(FALSE) /\ current'.status # "passed"
      /\ current'.status = "failed" => current.status = "failed"
  BY <1>1, <1>2, BlockedReturns
<1>4. Blames(FALSE)
  BY <1>1, <1>3 DEF Blames, NoFault
<1> QED
  BY <1>3, <1>4 DEF CallStep

LEMMA AskStep == ASSUME CallFits, Ask PROVE CallStep
<1> DEFINE asks == Call.does = "request"
           answered == IF asks THEN WithCheck(current, Check(Call.id, "passed", 0, FALSE)) ELSE current
<1>1. Due /\ Call.does \in {"request", "inspect"} /\ UNCHANGED <<full, tools>>
  BY DEF Ask, Doing
<1>2. EvidenceFrom(Call) = {} /\ FilesFrom(Call) = {}
  BY <1>1 DEF EvidenceFrom, Evident, FilesFrom, Executables
<1>3. CASE Returns(answered, TRUE) /\ NoFault
  <2>1. CASE asks
    <3> DEFINE r == WithCheck(current, Check(Call.id, "passed", 0, FALSE))
    <3>1. /\ Follows(current, r) /\ Adds(current, r, {"passed"})
          /\ r.status = current.status /\ r.artifacts = current.artifacts
      BY Answers DEF CallFits
    <3>2. Returns(r, TRUE)
      BY <1>3, <2>1
    <3> HIDE DEF r
    <3> QED
      BY <1>1, <1>2, <1>3, <3>1, <3>2, PlainReturns
  <2>2. CASE ~asks
    <3>1. Returns(current, TRUE)
      BY <1>3, <2>2
    <3>2. ~Leaving(Call)
      BY <1>1, <2>2 DEF Leaving, Executables
    <3>3. Follows(current, current)
      BY FollowsItself DEF CallFits
    <3> QED
      BY <1>1, <1>2, <1>3, <3>1, <3>2, <3>3, PlainReturns
  <2> QED
    BY <2>1, <2>2
<1>4. CASE Returns(Refused(current, Call.id), FALSE) /\ Note("refusal", turn, Key)
  <2>1. CallReturns(FALSE) /\ current'.status = "refused"
    BY <1>1, <1>4, RefusedReturns DEF tools
  <2>2. Blames(FALSE)
    BY <1>4, <2>1, NoteBlames
  <2> QED
    BY <2>1, <2>2 DEF CallStep
<1> QED
  BY <1>3, <1>4 DEF Ask, Fault

LEMMA ReadArtifactStep == ASSUME CallFits, ReadArtifact PROVE CallStep
<1>1. /\ Due /\ Call.does = "artifact" /\ UNCHANGED <<full, tools>> /\ NoFault
      /\ Returns(TakeArtifact(current, Call.id, full), Call.id \in full)
  BY DEF ReadArtifact, Doing
<1>2. ~Leaving(Call) /\ EvidenceFrom(Call) = {Call.id} /\ FilesFrom(Call) = {}
  BY <1>1 DEF Leaving, EvidenceFrom, Evident, FilesFrom, Executables, CallFits, FilesFit
<1>3. PICK r : r = current'
  OBVIOUS
<1>4. r = TakeArtifact(current, Call.id, full)
  BY <1>1, <1>3 DEF Returns
<1>5. /\ Follows(current, r)
      /\ Call.id \in full => /\ r.status = current.status /\ r.checks = current.checks
                             /\ r.artifacts = current.artifacts \cup {Call.id}
      /\ Call.id \notin full => /\ Adds(current, r, {"refused"}) /\ r.status = "refused"
                                /\ r.artifacts = current.artifacts
  BY <1>4, Takes DEF CallFits
<1>6. Len(current.checks) \in Nat
  BY SuiteType DEF CallFits
<1>7. \A i \in (Len(current.checks) + 1) .. Len(r.checks) : r.checks[i].status # "blocked"
  BY <1>5, <1>6 DEF Adds
<1>8. CASE Call.id \in full
  <2>1. Returns(r, TRUE)
    BY <1>1, <1>3, <1>8 DEF Returns
  <2>2. CallReturns(TRUE)
    BY <1>1, <1>2, <1>3, <1>5, <1>7, <1>8, <2>1 DEF CallReturns, Returns, CallFits, tools
  <2>3. Blames(TRUE)
    BY <1>1, <1>2, <1>3, <1>5, <1>8 DEF Blames, NoFault, tools
  <2> QED
    BY <2>2, <2>3 DEF CallStep
<1>9. CASE Call.id \notin full
  <2>1. Returns(r, FALSE)
    BY <1>1, <1>3, <1>9 DEF Returns
  <2>2. CallReturns(FALSE)
    BY <1>1, <1>2, <1>3, <1>5, <1>7, <1>9, <2>1 DEF CallReturns, Returns, CallFits, tools
  <2>3. Blames(FALSE)
    BY <1>1, <1>3, <1>5, <1>9 DEF Blames, NoFault
  <2> QED
    BY <2>2, <2>3 DEF CallStep
<1> QED
  BY <1>8, <1>9
-----------------------------------------------------------------------------
(***************************************************************************)
(* What the parts of the invariant say of a state, and what a step that    *)
(* leaves a part of it alone keeps.                                        *)
(***************************************************************************)
SameShard == UNCHANGED <<scenario, turn>>

LEMMA ShardSame ==
  ASSUME SameShard
  PROVE  /\ Shard' = Shard /\ Ids' = Ids /\ \A n : KeyAt(n)' = KeyAt(n)
         /\ report' = report => Calls' = Calls /\ Key' = Key
BY DEF SameShard, Shard, Ids, KeyAt, Calls, Key

LEMMA NotPassedTells ==
  ASSUME NEW s, SoundVerdict(s), s.status # "passed"
  PROVE  /\ s.checks # <<>> /\ Len(s.checks) \in Nat /\ DOMAIN s.checks = 1 .. Len(s.checks)
         /\ \E i \in 1 .. Len(s.checks) : s.checks[i].status \in Unsound
<1>1. Len(s.checks) \in Nat /\ DOMAIN s.checks = 1 .. Len(s.checks)
  BY AnyLen DEF SoundVerdict
<1>2. s.checks # <<>>
  BY RecomputedEmpty DEF SoundVerdict
<1> QED
  BY <1>1, <1>2, RecomputedTells DEF SoundVerdict

\* A saved suite stays what it was while others are noted.
LEMMA SavedOn ==
  ASSUME NEW i, NEW s, SavedWell(i, s), finished \subseteq finished', trouble \subseteq trouble',
         \A t \in trouble' : t \in trouble \/ t.turn # i \/ t.key # s.key
  PROVE  SavedWell(i, s)'
BY DEF SavedWell, Told, FailedFor

LEMMA MergeIdle ==
  ASSUME phase \in {"select", "suite"}, queue = <<>>, merged = {}, seen = {}
  PROVE  QueueInv /\ MergeInv
BY AnyEmpty DEF QueueInv, MergeInv, Taken, TakenKey, TakenTwice, Refusal

\* What did not pass has a cause in its checks or in an earlier suite.
LEMMA CauseOf ==
  ASSUME BlockedForCause, Len(report) \in Nat, NEW n \in 1 .. (Len(report) + 1),
         NEW s, SoundVerdict(s), s.status # "passed", ChecksOf(n) = s.checks
  PROVE  \E m \in 1 .. n : CauseIn(ChecksOf(m))
<1>1. PICK i \in 1 .. Len(s.checks) : s.checks[i].status \in Unsound
  BY NotPassedTells
<1>2. Len(s.checks) \in Nat /\ DOMAIN s.checks = 1 .. Len(s.checks)
  BY NotPassedTells
<1>3. CASE s.checks[i].status = "blocked"
  <2>1. \/ \E j \in 1 .. (i - 1) : ChecksOf(n)[j].status \in {"failed", "refused"}
        \/ \E m \in 1 .. (n - 1) : CauseIn(ChecksOf(m))
    BY <1>1, <1>2, <1>3 DEF BlockedForCause
  <2>2. CASE \E j \in 1 .. (i - 1) : ChecksOf(n)[j].status \in {"failed", "refused"}
    <3>1. CauseIn(ChecksOf(n))
      BY <1>2, <2>2 DEF CauseIn
    <3> QED
      BY <3>1
  <2>3. CASE \E m \in 1 .. (n - 1) : CauseIn(ChecksOf(m))
    BY <2>3
  <2> QED
    BY <2>1, <2>2, <2>3
<1>4. CASE s.checks[i].status # "blocked"
  <2>1. CauseIn(ChecksOf(n))
    BY <1>1, <1>2, <1>4 DEF CauseIn, Unsound
  <2> QED
    BY <2>1
<1> QED
  BY <1>3, <1>4

\* As long as a suite passed, no call that depends on a failure is due, and every
\* other one is.
LEMMA PassedDue ==
  ASSUME SuiteSetting, SuiteInv, phase = "suite", pc \in DOMAIN Calls, current.status = "passed"
  PROVE  Due <=> Call.unless = {}
<1>1. WaitsForEarlier(Calls, pc) /\ Calls \in Seq(NewCalls)
  BY DEF SuiteSetting, SoundScript
<1>2. DOMAIN Calls = 1 .. Len(Calls) /\ Len(Calls) \in Nat
  BY <1>1, LenProperties
<1>3. ASSUME NEW id \in Call.needs \cup Call.unless PROVE id \in done
  <2>1. PICK j \in 1 .. (pc - 1) : Calls[j].id = id /\ Calls[j].unless = {}
    BY <1>1, <1>3 DEF WaitsForEarlier, Call
  <2>2. j \in DOMAIN Calls /\ j < pc
    BY <1>2
  <2> QED
    BY <2>1, <2>2 DEF SuiteInv
<1> QED
  BY <1>3 DEF Due

LEMMA CallsType ==
  ASSUME SuiteSetting
  PROVE  /\ Len(Calls) \in Nat /\ DOMAIN Calls = 1 .. Len(Calls)
         /\ \A k \in DOMAIN Calls :
              /\ FilesFit(Calls[k]) /\ WaitsForEarlier(Calls, k)
              /\ Calls[k].does \in Executables \ {"output"} => WritesAreTaken(Calls, k)
              /\ Calls[k].does = "block" => Calls[k].unless # {}
              /\ Calls[k].does = "artifact" /\ Calls[k].unless = {} =>
                   \E j \in Touching(Calls, Calls[k].id) : j < k /\ Calls[j].unless = {}
<1>1. Calls \in Seq(NewCalls)
  BY DEF SuiteSetting, SoundScript
<1>2. Len(Calls) \in Nat /\ DOMAIN Calls = 1 .. Len(Calls)
  BY <1>1, LenProperties
<1> QED
  BY <1>2 DEF SuiteSetting, SoundScript
-----------------------------------------------------------------------------
(***************************************************************************)
(* A call of a suite keeps the invariant.                                  *)
(***************************************************************************)
LEMMA CallKeepsSuite ==
  ASSUME SuiteSetting, SuiteInv, NEW ok \in BOOLEAN, CallReturns(ok)
  PROVE  SuiteInv' /\ pc' \in 1 .. (Len(Calls) + 1) /\ pc < pc'
<1>1. /\ phase = "suite" /\ phase' = "suite" /\ pc \in 1 .. Len(Calls) /\ Len(Calls) \in Nat
      /\ DOMAIN Calls = 1 .. Len(Calls) /\ Calls' = Calls /\ Due
      /\ Call = Calls[pc]
  BY CallsType, ShardSame DEF CallReturns, SameShard, Call
<1>2. pc' \in 1 .. (Len(Calls) + 1) /\ pc < pc' /\ (ok => pc' = pc + 1)
  BY <1>1 DEF CallReturns
<1>3. PICK r : r = current'
  OBVIOUS
<1>4. Follows(current, r) /\ IsSuite(r)
  BY <1>3 DEF CallReturns, Follows
<1>5. ASSUME r.status = "passed", NEW j \in DOMAIN Calls, j < pc', Calls[j].unless = {}
      PROVE  /\ Calls[j].id \in done'
             /\ Calls[j].does \in Evident => Calls[j].files \subseteq r.artifacts
  <2>1. ok /\ current.status = "passed"
    BY <1>3, <1>4, <1>5 DEF CallReturns, Follows
  <2>2. CASE j < pc
    BY <1>1, <1>4, <1>5, <2>1, <2>2 DEF SuiteInv, CallReturns, Follows
  <2>3. CASE j >= pc
    <3>1. j = pc
      BY <1>1, <1>2, <1>5, <2>1, <2>3
    <3> QED
      BY <1>1, <1>3, <2>1, <3>1 DEF CallReturns, EvidenceFrom
  <2> QED
    BY <1>1, <2>2, <2>3
<1>6. r.artifacts \subseteq EvidenceOf(Calls)
  <2>1. r.artifacts \subseteq current.artifacts \cup EvidenceFrom(Call)
    BY <1>3 DEF CallReturns
  <2>2. EvidenceFrom(Call) \subseteq EvidenceOf(Calls)
    BY <1>1 DEF EvidenceFrom, EvidenceOf
  <2> QED
    BY <1>1, <2>1, <2>2 DEF SuiteInv
<1>7. ASSUME NEW j \in DOMAIN Calls, j < pc', Leaving(Calls[j]) PROVE r.checks # <<>>
  <2>1. Len(current.checks) \in Nat /\ Len(r.checks) \in Nat /\ (r.checks = <<>> => Len(r.checks) = 0)
    BY <1>4, SuiteType, AnyEmpty DEF SuiteInv
  <2>2. CASE j < pc
    <3>1. current.checks # <<>>
      BY <1>1, <1>7, <2>2 DEF SuiteInv
    <3>2. Len(current.checks) # 0
      BY <3>1, AnyLen DEF SuiteInv, IsSuite, SoundVerdict
    <3> QED
      BY <1>4, <2>1, <3>2 DEF Follows
  <2>3. CASE j = pc
    <3>1. Len(current.checks) < Len(r.checks)
      BY <1>1, <1>3, <1>7, <2>3 DEF CallReturns
    <3> QED
      BY <2>1, <3>1
  <2>4. CASE j > pc
    <3>1. ~ok
      BY <1>1, <1>2, <1>7, <2>4
    <3>2. r.status # "passed"
      BY <1>3, <3>1 DEF CallReturns
    <3> QED
      BY <1>4, <3>2, NotPassedTells DEF IsSuite
  <2> QED
    BY <1>1, <2>2, <2>3, <2>4
<1>8. SuiteInv'
  BY <1>1, <1>3, <1>4, <1>5, <1>6, <1>7 DEF SuiteInv, Leaving, EvidenceOf
<1> QED
  BY <1>2, <1>8

\* More checks, of which one is blocked only if something failed before.
LEMMA CauseStays ==
  ASSUME SuiteSetting, SuiteInv, SavedInv, CauseInv, report' = report, Follows(current, current'),
         \A i \in (Len(current.checks) + 1) .. Len(current'.checks) :
           current'.checks[i].status = "blocked" => current.status # "passed" \/ broken # {},
         broken' # {} => broken # {} \/ current'.status # "passed"
  PROVE  CauseInv'
<1>1. Len(report) \in Nat /\ DOMAIN report = 1 .. Len(report)
  BY DEF SuiteSetting
<1>2. PICK r : r = current'
  OBVIOUS
<1>3. Follows(current, r) /\ SoundVerdict(r) /\ SoundVerdict(current)
  BY <1>2 DEF Follows, SuiteInv, IsSuite
<1>4. /\ Len(current.checks) \in Nat /\ DOMAIN current.checks = 1 .. Len(current.checks)
      /\ Len(r.checks) \in Nat /\ DOMAIN r.checks = 1 .. Len(r.checks)
  BY <1>3, AnyLen DEF SoundVerdict
<1>5. broken' # {} => r.status # "passed" \/ \E n \in DOMAIN report : report[n].status # "passed"
  BY <1>2, <1>3 DEF CauseInv, Follows
<1>0. PICK last \in Nat : last = Len(report) + 1
  BY <1>1
<1>6. ChecksOf(last) = current.checks /\ \A n \in 1 .. Len(report) : ChecksOf(n) = report[n].checks
  BY <1>0, <1>1 DEF ChecksOf
<1>7. ChecksOf(last)' = r.checks /\ \A n \in 1 .. Len(report) : ChecksOf(n)' = report[n].checks
  BY <1>0, <1>1, <1>2 DEF ChecksOf
<1>8. ASSUME NEW n \in 1 .. Len(report), report[n].status # "passed"
      PROVE  \E m \in 1 .. Len(report) : CauseIn(ChecksOf(m))
  <2>1. SoundVerdict(report[n])
    BY <1>0, <1>1 DEF SavedInv, SavedWell
  <2>2. \E m \in 1 .. n : CauseIn(ChecksOf(m))
    BY <1>0, <1>1, <1>6, <1>8, <2>1, CauseOf DEF CauseInv
  <2> QED
    BY <1>0, <1>1, <2>2
<1>9. ASSUME current.status # "passed" PROVE \E m \in 1 .. last : CauseIn(ChecksOf(m))
  <2>1. last \in 1 .. last
    BY <1>0, <1>1
  <2> QED
    BY <1>0, <1>1, <1>3, <1>6, <1>9, <2>1, CauseOf DEF CauseInv
<1>10. ASSUME NEW k \in (Len(current.checks) + 1) .. Len(r.checks), r.checks[k].status = "blocked"
       PROVE  \E m \in 1 .. last : CauseIn(ChecksOf(m))
  <2>1. CASE broken # {}
    BY <1>0, <1>1, <1>8, <1>9, <2>1 DEF CauseInv
  <2>2. CASE current.status # "passed"
    BY <1>9, <2>2
  <2> QED
    BY <1>2, <1>10, <2>1, <2>2
<1>11. ASSUME NEW k \in 1 .. Len(r.checks), r.checks[k].status = "blocked"
       PROVE  \/ \E j \in 1 .. (k - 1) : r.checks[j].status \in {"failed", "refused"}
              \/ \E m \in 1 .. Len(report) : CauseIn(report[m].checks)
  <2>1. CASE k <= Len(current.checks)
    <3>1. k \in DOMAIN ChecksOf(last) /\ ChecksOf(last)[k].status = "blocked" /\ last \in 1 .. last
      BY <1>0, <1>1, <1>3, <1>4, <1>6, <1>11, <2>1 DEF Follows
    <3>2. \/ \E j \in 1 .. (k - 1) : ChecksOf(last)[j].status \in {"failed", "refused"}
          \/ \E m \in 1 .. (last - 1) : CauseIn(ChecksOf(m))
      BY <1>0, <1>1, <3>1 DEF CauseInv, BlockedForCause
    <3>3. CASE \E j \in 1 .. (k - 1) : ChecksOf(last)[j].status \in {"failed", "refused"}
      <4>1. PICK j \in 1 .. (k - 1) : ChecksOf(last)[j].status \in {"failed", "refused"}
        BY <3>3
      <4>2. j \in 1 .. Len(current.checks) /\ ChecksOf(last)[j] = current.checks[j]
        BY <1>4, <1>6, <1>11, <2>1
      <4>3. r.checks[j] = current.checks[j]
        BY <1>3, <4>2 DEF Follows
      <4> QED
        BY <4>1, <4>2, <4>3
    <3>4. CASE \E m \in 1 .. (last - 1) : CauseIn(ChecksOf(m))
      BY <1>0, <1>1, <1>6, <3>4
    <3> QED
      BY <3>2, <3>3, <3>4
  <2>2. CASE k > Len(current.checks)
    <3>1. PICK m \in 1 .. last : CauseIn(ChecksOf(m))
      BY <1>4, <1>10, <1>11, <2>2
    <3>2. CASE m = last
      <4>1. PICK i \in DOMAIN current.checks : current.checks[i].status \in {"failed", "refused"}
        BY <1>6, <3>1, <3>2 DEF CauseIn
      <4>2. i \in 1 .. (k - 1) /\ r.checks[i] = current.checks[i]
        BY <1>3, <1>4, <1>11, <2>2 DEF Follows
      <4> QED
        BY <4>1, <4>2
    <3>3. CASE m # last
      BY <1>0, <1>1, <1>6, <3>1, <3>3
    <3> QED
      BY <3>2, <3>3
  <2> QED
    BY <1>4, <2>1, <2>2
<1>12. BlockedForCause'
  <2>1. SUFFICES ASSUME NEW n \in 1 .. last, NEW k \in DOMAIN ChecksOf(n)', ChecksOf(n)'[k].status = "blocked"
                 PROVE  \/ \E j \in 1 .. (k - 1) : ChecksOf(n)'[j].status \in {"failed", "refused"}
                        \/ \E m \in 1 .. (n - 1) : CauseIn(ChecksOf(m)')
    BY <1>0, <1>1 DEF BlockedForCause, CauseIn
  <2>2. CASE n = last
    <3>1. \/ \E j \in 1 .. (k - 1) : r.checks[j].status \in {"failed", "refused"}
          \/ \E m \in 1 .. Len(report) : CauseIn(report[m].checks)
      BY <1>4, <1>7, <1>11, <2>1, <2>2
    <3>2. ChecksOf(n)' = r.checks
      BY <1>7, <2>2, Zenon
    <3>3. CASE \E j \in 1 .. (k - 1) : r.checks[j].status \in {"failed", "refused"}
      BY <3>2, <3>3
    <3>4. CASE \E m \in 1 .. Len(report) : CauseIn(report[m].checks)
      <4>1. PICK m \in 1 .. Len(report) : CauseIn(report[m].checks)
        BY <3>4
      <4>2. m \in 1 .. (n - 1)
        BY <1>0, <1>1, <2>2, <4>1
      <4>3. CauseIn(ChecksOf(m)')
        <5>1. ChecksOf(m)' = report[m].checks
          BY <1>7
        <5> QED
          BY <4>1, <5>1
      <4> QED
        BY <4>2, <4>3
    <3> QED
      BY <3>1, <3>3, <3>4
  <2>3. CASE n # last
    <3>1. n \in 1 .. Len(report) /\ ChecksOf(n)' = ChecksOf(n)
      BY <1>0, <1>1, <1>6, <1>7, <2>3
    <3>2. \/ \E j \in 1 .. (k - 1) : ChecksOf(n)[j].status \in {"failed", "refused"}
          \/ \E m \in 1 .. (n - 1) : CauseIn(ChecksOf(m))
      BY <1>0, <1>1, <2>1, <3>1 DEF CauseInv, BlockedForCause
    <3>3. \A m \in 1 .. (n - 1) : ChecksOf(m)' = ChecksOf(m)
      BY <1>0, <1>1, <1>6, <1>7, <3>1
    <3> QED
      BY <3>1, <3>2, <3>3
  <2> QED
    BY <2>2, <2>3
<1>13. (broken # {} => \/ current.status # "passed"
                       \/ \E n \in DOMAIN report : report[n].status # "passed")'
  BY <1>0, <1>1, <1>2, <1>5
<1> QED
  BY <1>12, <1>13 DEF CauseInv
LEMMA CallKeepsCause ==
  ASSUME SuiteSetting, SuiteInv, SavedInv, CauseInv, NEW ok \in BOOLEAN, CallReturns(ok)
  PROVE  CauseInv'
<1>1. phase = "suite" /\ pc \in DOMAIN Calls /\ Due /\ Call = Calls[pc]
  BY DEF CallReturns, Call
<1>2. Call.does = "block" => current.status # "passed"
  BY <1>1, PassedDue, CallsType
<1> QED
  BY <1>2, CauseStays DEF CallReturns

LEMMA CallKeepsFiles ==
  ASSUME SuiteSetting, FilesInv, NEW ok \in BOOLEAN, CallReturns(ok), pc < pc'
  PROVE  FilesInv'
<1>1. /\ phase = "suite" /\ pc \in DOMAIN Calls /\ Calls' = Calls /\ Ids' = Ids /\ Shard' = Shard
      /\ report' = report /\ Call = Calls[pc] /\ DOMAIN Calls = 1 .. Len(Calls) /\ Len(Calls) \in Nat
      /\ pc' \in Int
  BY CallsType, ShardSame DEF CallReturns, SameShard, Call
<1>2. ASSUME NEW f \in full'
      PROVE  \/ \E j \in Touching(Calls, f) : j < pc'
             \/ \E n \in DOMAIN report : Touching(Script(Ids[n], Shard.cell), f) # {}
  <2>1. CASE f \in full
    <3>1. CASE \E j \in Touching(Calls, f) : j < pc
      BY <1>1, <3>1 DEF Touching
    <3>2. CASE \E n \in DOMAIN report : Touching(Script(Ids[n], Shard.cell), f) # {}
      BY <3>2
    <3> QED
      BY <1>1, <2>1, <3>1, <3>2 DEF FilesInv
  <2>2. CASE f \in FilesFrom(Call)
    <3>1. pc \in Touching(Calls, f)
      BY <1>1, <2>2 DEF FilesFrom, Touching
    <3> QED
      BY <3>1
  <2> QED
    BY <2>1, <2>2 DEF CallReturns
<1> QED
  BY <1>1, <1>2 DEF FilesInv

\* A file that the call should have left and did not is missing from now on.
LEMMA LosesPending ==
  ASSUME SuiteSetting, FilesInv, NEW ok \in BOOLEAN, CallReturns(ok), Loses(ok)
  PROVE  Pending'
<1>1. /\ phase = "suite" /\ pc \in DOMAIN Calls /\ Calls' = Calls /\ Call = Calls[pc]
      /\ DOMAIN Calls = 1 .. Len(Calls) /\ Len(Calls) \in Nat
      /\ pc' = pc + 1 /\ done' = done \cup {Call.id} /\ Call.needs \subseteq done
  BY CallsType, ShardSame DEF CallReturns, SameShard, Call, Loses, Due
<1>2. PICK f \in Call.files : full' \subseteq full \cup (Call.files \ {f})
  BY DEF Loses
<1>3. Call.does \in Executables \ {"output"}
  BY DEF Loses
<1>4. /\ Touching(Calls, f) = {pc}
      /\ \A j \in pc .. Len(Calls) : ~Calls[j].ends
      /\ \E a \in (pc + 1) .. Len(Calls) :
           /\ Calls[a].does = "artifact" /\ Calls[a].id = f /\ Calls[a].unless = {}
           /\ Calls[a].needs \subseteq Call.needs \cup {Call.id}
  BY <1>1, <1>2, <1>3, CallsType DEF WritesAreTaken
<1>5. \A n \in DOMAIN report : Touching(Script(Ids[n], Shard.cell), f) = {}
  BY <1>1, <1>2, <1>3 DEF SuiteSetting, ApartScripts
<1>6. f \notin full
  <2>1. SUFFICES ASSUME f \in full PROVE FALSE
    OBVIOUS
  <2>2. CASE \E j \in Touching(Calls, f) : j < pc
    BY <1>1, <1>4, <2>2
  <2>3. CASE \E n \in DOMAIN report : Touching(Script(Ids[n], Shard.cell), f) # {}
    BY <1>5, <2>3
  <2> QED
    BY <1>1, <2>1, <2>2, <2>3 DEF FilesInv
<1>7. PICK a \in (pc + 1) .. Len(Calls) :
        /\ Calls[a].does = "artifact" /\ Calls[a].id = f /\ Calls[a].unless = {}
        /\ Calls[a].needs \subseteq Call.needs \cup {Call.id}
  BY <1>4
<1>8. a \in DOMAIN Calls /\ a >= pc'
  BY <1>1, <1>7
<1>9. f \notin full' /\ Calls[a].needs \subseteq done'
  BY <1>1, <1>2, <1>6, <1>7
<1>10. \A j \in DOMAIN Calls : j >= pc' => ~Calls[j].ends /\ j \notin Touching(Calls, f)
  BY <1>1, <1>4
<1>11. Missing(a)'
  <2>1. \A j \in DOMAIN Calls : j >= pc' => ~Calls[j].ends /\ j \notin Touching(Calls, Calls[a].id)
    BY <1>7, <1>10
  <2>2. Calls[a].id \notin full' /\ Calls[a].does = "artifact" /\ Calls[a].unless = {}
    BY <1>7, <1>9
  <2> QED
    BY <1>1, <1>8, <1>9, <2>1, <2>2 DEF Missing
<1> QED
  BY <1>1, <1>8, <1>11 DEF Pending

\* What is missing stays missing until it is asked for.
LEMMA PendingStays ==
  ASSUME SuiteSetting, NEW ok \in BOOLEAN, CallReturns(ok), Pending
  PROVE  Pending' \/ current'.status = "refused"
<1>1. /\ phase = "suite" /\ pc \in DOMAIN Calls /\ Calls' = Calls /\ Call = Calls[pc] /\ Due
      /\ DOMAIN Calls = 1 .. Len(Calls) /\ Len(Calls) \in Nat
  BY CallsType, ShardSame DEF CallReturns, SameShard, Call
<1>2. PICK a \in DOMAIN Calls : Missing(a)
  BY DEF Pending
<1>3. CASE a = pc
  BY <1>1, <1>2, <1>3 DEF Missing, CallReturns
<1>4. CASE a # pc
  <2>1. a > pc /\ ~Calls[pc].ends /\ pc \notin Touching(Calls, Calls[a].id)
    BY <1>1, <1>2, <1>4 DEF Missing
  <2>2. pc' = pc + 1 /\ done \subseteq done'
    BY <1>1, <2>1 DEF CallReturns
  <2>3. Calls[a].id \notin full'
    BY <1>1, <1>2, <2>1 DEF Missing, CallReturns, FilesFrom, Touching
  <2>4. Missing(a)'
    BY <1>1, <1>2, <2>1, <2>2, <2>3 DEF Missing, Touching
  <2> QED
    BY <1>1, <2>4 DEF Pending
<1> QED
  BY <1>3, <1>4

LEMMA CallKeepsTrouble ==
  ASSUME SuiteSetting, FilesInv, TroubleInv, PhaseInv, NEW ok \in BOOLEAN, CallReturns(ok), Blames(ok)
  PROVE  TroubleInv'
<1>1. /\ phase = "suite" /\ phase' = "suite" /\ Key' = Key /\ \A n : KeyAt(n)' = KeyAt(n)
      /\ report' = report /\ turn' = turn /\ turn \in Nat /\ turn >= 1 /\ trouble \subseteq trouble'
      /\ Key = KeyAt(Len(report) + 1) /\ Len(report) \in Nat
  BY ShardSame DEF CallReturns, SameShard, PhaseInv, SuiteSetting, Blames
<1>2. PICK r : r = current'
  OBVIOUS
<1>3. Follows(current, r)
  BY <1>2 DEF CallReturns
<1>4. ASSUME NEW t \in trouble', t \notin trouble
      PROVE  /\ t.turn = turn /\ t.key = Key
             /\ Pending' \/ (r.status # "passed" /\ (t.is = "refusal" => r.status = "refused"))
  BY <1>2, <1>4, LosesPending DEF Blames
<1>5. ASSUME NEW t \in trouble'
      PROVE  /\ t.turn \in 1 .. turn
             /\ t.turn = turn => t.key = NoKey \/ \E n \in 1 .. (Len(report) + 1) : t.key = KeyAt(n)
  <2>1. CASE t \in trouble
    BY <2>1 DEF TroubleInv
  <2>2. CASE t \notin trouble
    BY <1>1, <1>4, <2>2
  <2> QED
    BY <2>1, <2>2
<1>6. ASSUME NEW t \in trouble', t.turn = turn, t.key = Key
      PROVE  Pending' \/ (r.status # "passed" /\ (t.is = "refusal" => r.status = "refused"))
  <2>1. CASE t \in trouble
    <3>1. Pending \/ (current.status # "passed" /\ (t.is = "refusal" => current.status = "refused"))
      BY <1>1, <1>6, <2>1 DEF TroubleInv
    <3>2. CASE Pending
      BY <1>2, <3>2, PendingStays
    <3>3. CASE current.status # "passed" /\ (t.is = "refusal" => current.status = "refused")
      BY <1>3, <3>3 DEF Follows
    <3> QED
      BY <3>1, <3>2, <3>3
  <2>2. CASE t \notin trouble
    BY <1>4, <2>2
  <2> QED
    BY <2>1, <2>2
<1>7. r.status = "failed" => \E t \in trouble' : t.is = "failure"
  <2>1. r.status = "failed" => current.status = "failed" \/ \E t \in trouble' : t.is = "failure"
    BY <1>2 DEF Blames
  <2>2. current.status = "failed" => \E t \in trouble : t.is = "failure"
    BY DEF TroubleInv, FailedFor
  <2> QED
    BY <1>1, <2>1, <2>2
<1> QED
  BY <1>1, <1>2, <1>5, <1>6, <1>7 DEF TroubleInv, FailedFor

LEMMA CallKeepsClean ==
  ASSUME SuiteSetting, SuiteInv, CleanInv, NEW ok \in BOOLEAN, CallReturns(ok), Blames(ok)
  PROVE  CleanInv'
<1>1. /\ phase = "suite" /\ phase' = "suite" /\ Calls' = Calls /\ Call = Calls[pc] /\ Due
      /\ pc \in DOMAIN Calls /\ DOMAIN Calls = 1 .. Len(Calls) /\ Len(Calls) \in Nat
      /\ report' = report /\ bundles' = bundles /\ cancelled' = cancelled
  BY CallsType, ShardSame DEF CallReturns, SameShard, Call
<1>2. SUFFICES ASSUME trouble' = {} PROVE CleanInv'
  BY DEF CleanInv
<1>3. trouble = {}
  BY <1>2 DEF Blames
<1>4. Call.unless = {}
  BY <1>1, <1>3, PassedDue DEF CleanInv
<1>5. Call.does # "block"
  BY <1>1, <1>4, CallsType
<1>6. ASSUME Call.does = "artifact" PROVE Call.id \in full
  <2>1. PICK j \in Touching(Calls, Call.id) : j < pc /\ Calls[j].unless = {}
    BY <1>1, <1>4, <1>6, CallsType
  <2> QED
    BY <1>1, <1>3, <2>1 DEF CleanInv, Touching
<1>7. /\ ok /\ current'.status = current.status /\ broken' = {}
      /\ full \subseteq full' /\ FilesFrom(Call) \subseteq full'
  BY <1>2, <1>3, <1>5, <1>6 DEF Blames, CleanInv
<1>8. pc' = pc + 1 /\ done' = done \cup {Call.id} /\ current'.artifacts \subseteq current.artifacts \cup full'
  BY <1>7 DEF CallReturns
<1>9. ASSUME NEW j \in DOMAIN Calls, j < pc', Calls[j].unless = {}
      PROVE  /\ Calls[j].id \in done'
             /\ Calls[j].does \in Executables => Calls[j].files \subseteq full'
  <2>1. CASE j < pc
    BY <1>1, <1>3, <1>7, <1>8, <1>9, <2>1 DEF CleanInv
  <2>2. CASE j = pc
    BY <1>1, <1>7, <1>8, <2>2 DEF FilesFrom
  <2> QED
    BY <1>1, <1>8, <1>9, <2>1, <2>2
<1>10. /\ ~cancelled /\ current.status = "passed" /\ current.artifacts \subseteq full
       /\ \A n \in DOMAIN report : report[n].status = "passed" /\ report[n].artifacts \subseteq full
       /\ \A i \in DOMAIN bundles :
            /\ bundles[i].summary # "torn" /\ bundles[i].logs
            /\ \A n \in DOMAIN bundles[i].suites :
                 /\ bundles[i].suites[n].status = "passed"
                 /\ bundles[i].suites[n].artifacts \subseteq bundles[i].full
  BY <1>3 DEF CleanInv
<1> QED
  BY <1>1, <1>7, <1>8, <1>9, <1>10 DEF CleanInv

\* Saved suites stay what they were while something is noted of the shard under way.
LEMMA SavedKept ==
  ASSUME SuiteSetting, PhaseInv, SavedInv, phase = "suite", SameShard,
         UNCHANGED <<report, bundles, finished>>, trouble \subseteq trouble',
         \A t \in trouble' : t \in trouble \/ (t.turn = turn /\ t.key \in {Key, NoKey})
  PROVE  SavedInv'
<1>1. Key = KeyAt(Len(report) + 1) /\ \A n : KeyAt(n)' = KeyAt(n)
  BY ShardSame DEF SuiteSetting
<1>2. ASSUME NEW n \in DOMAIN report PROVE SavedWell(turn, report[n])' /\ report[n].key = KeyAt(n)
  <2>1. PICK i, s : i = turn /\ s = report[n]
    OBVIOUS
  <2>2. SavedWell(i, s) /\ s.key = KeyAt(n)
    BY <2>1 DEF SavedInv
  <2>3. s.key # Key /\ s.key # NoKey
    <3>1. n \in 1 .. Len(Ids) /\ Len(report) + 1 \in 1 .. Len(Ids) /\ n # Len(report) + 1
      BY DEF SuiteSetting
    <3> QED
      BY <1>1, <2>2, <3>1, KeysDiffer, KeysAreKeys
  <2>4. SavedWell(i, s)'
    BY <2>2, <2>3, SavedOn
  <2> QED
    BY <2>1, <2>2, <2>4 DEF SameShard
<1>3. ASSUME NEW i \in DOMAIN bundles, NEW n \in DOMAIN bundles[i].suites
      PROVE  SavedWell(i, bundles[i].suites[n])'
  <2>1. PICK s : s = bundles[i].suites[n]
    OBVIOUS
  <2>2. SavedWell(i, s)
    BY <2>1 DEF SavedInv
  <2>3. i # turn
    BY AnyLen DEF PhaseInv
  <2>4. SavedWell(i, s)'
    BY <2>2, <2>3, SavedOn
  <2> QED
    BY <2>1, <2>4
<1> QED
  BY <1>1, <1>2, <1>3 DEF SavedInv, SameShard

LEMMA CallKeeps == ASSUME IInv, CallStep PROVE IInv'
<1>1. PICK ok \in BOOLEAN : CallReturns(ok) /\ Blames(ok)
  BY DEF CallStep
<1>2. SuiteSetting
  BY <1>1, SettingHolds DEF IInv, CallReturns, SavedInv
<1>3. SuiteInv' /\ pc' \in 1 .. (Len(Calls) + 1) /\ pc < pc'
  BY <1>1, <1>2, CallKeepsSuite DEF IInv
<1>4. PhaseInv'
  <2>1. /\ phase = "suite" /\ phase' = "suite" /\ Calls' = Calls /\ Ids' = Ids
        /\ UNCHANGED <<scenario, turn, report, bundles, left, bundle, queue, merged, seen>>
    BY <1>1, ShardSame DEF CallReturns, SameShard, mergeVars
  <2> QED
    BY <1>3, <2>1 DEF PhaseInv, IInv
<1>5. CauseInv' /\ FilesInv' /\ TroubleInv' /\ CleanInv'
  BY <1>1, <1>2, <1>3, CallKeepsCause, CallKeepsFiles, CallKeepsTrouble, CallKeepsClean DEF IInv
<1>7. SavedInv'
  BY <1>1, <1>2, SavedKept DEF IInv, CallReturns, Blames, SameShard
<1>6. QueueInv' /\ MergeInv'
  <2>1. (phase \in {"select", "suite"} /\ queue = <<>> /\ merged = {} /\ seen = {})'
    BY <1>1 DEF CallReturns, mergeVars, IInv, PhaseInv
  <2> QED
    BY <2>1, MergeIdle, PTL
<1> QED
  BY <1>3, <1>4, <1>5, <1>6, <1>7 DEF IInv
-----------------------------------------------------------------------------
(***************************************************************************)
(* The other steps of a shard.                                             *)
(***************************************************************************)
LEMMA IdleCause ==
  ASSUME report = <<>>, current = NewSuite
  PROVE  BlockedForCause
BY AnyEmpty DEF BlockedForCause, ChecksOf, NewSuite

\* The bundle of a shard takes its place among the others.
LEMMA ShardEnds ==
  ASSUME IInv, phase \in {"select", "suite"},
         NEW summary \in {"absent", "torn", "saved"}, NEW suites, AnySeq(suites),
         EndShard(summary, suites), finished \subseteq finished', trouble \subseteq trouble',
         \A t \in trouble' : t \in trouble \/ (t.turn = turn /\ t.key = NoKey),
         NEW i0, i0 = turn, \A n \in DOMAIN suites : SavedWell(i0, suites[n])',
         \A n, m \in DOMAIN suites : suites[n].key = suites[m].key => n = m,
         trouble' = {} => /\ summary # "torn"
                          /\ \A n \in DOMAIN suites : suites[n].status = "passed" /\ suites[n].artifacts \subseteq full
  PROVE  IInv'
<1> DEFINE b == [summary |-> summary, suites |-> suites, full |-> full, logs |-> TRUE]
<1>1. /\ bundles' = Append(bundles, b) /\ turn' = turn + 1
      /\ report' = <<>> /\ current' = NewSuite /\ pc' = 1 /\ done' = {}
      /\ built' = {} /\ broken' = {} /\ full' = {} /\ cancelled' = FALSE
      /\ UNCHANGED <<scenario, bundle, queue, merged, seen>>
      /\ IF turn = Len(scenario.shards) THEN phase' = "merge" /\ left' = 1 .. turn
                                        ELSE phase' = "select" /\ left' = left
  BY DEF EndShard
<1>2. /\ b.summary = summary /\ b.suites = suites /\ b.full = full /\ b.logs = TRUE /\ IsBundle(b)
  BY DEF IsBundle
<1> HIDE DEF b
<1>3. /\ turn \in 1 .. Len(scenario.shards) /\ left = {} /\ bundle = 0 /\ queue = <<>> /\ merged = {} /\ seen = {}
      /\ AnySeq(bundles) /\ Len(bundles) = turn - 1 /\ scenario \in Scenarios
  BY DEF IInv, PhaseInv
<1>4. Len(scenario.shards) \in Nat
  BY <1>3, ScenariosAssumption, LenProperties
<1>5. /\ AnySeq(bundles') /\ Len(bundles') = turn /\ DOMAIN bundles' = 1 .. turn /\ DOMAIN bundles = 1 .. (turn - 1)
      /\ bundles'[turn] = b /\ \A i \in 1 .. (turn - 1) : bundles'[i] = bundles[i]
  BY <1>1, <1>3, AppendAny
<1>6. Idle'
  BY <1>1 DEF Idle
<1>7. PhaseInv'
  BY <1>1, <1>3, <1>4, <1>5, <1>6 DEF PhaseInv
<1>8. ASSUME NEW i \in DOMAIN bundles'
      PROVE  /\ IsBundle(bundles'[i]) /\ AnySeq(bundles'[i].suites)
             /\ bundles'[i].summary \in {"absent", "torn", "saved"}
             /\ \A n, m \in DOMAIN bundles'[i].suites :
                  bundles'[i].suites[n].key = bundles'[i].suites[m].key => n = m
  <2>1. CASE i = turn
    BY <1>2, <1>5, <2>1
  <2>2. CASE i # turn
    <3>1. i \in DOMAIN bundles /\ bundles'[i] = bundles[i] /\ i # turn
      BY <1>3, <1>5, <2>2
    <3> QED
      BY <3>1 DEF IInv, SavedInv
  <2> QED
    BY <2>1, <2>2
<1>17. ASSUME NEW i \in DOMAIN bundles', NEW n \in DOMAIN bundles'[i].suites
       PROVE  SavedWell(i, bundles[i].suites[n])'
  <2>1. PICK s : s = bundles'[i].suites[n]
    OBVIOUS
  <2>2. SavedWell(i, s)'
    <3>1. CASE i = turn
      <4>1. i = i0 /\ n \in DOMAIN suites /\ s = suites[n]
        BY <1>2, <1>5, <2>1, <3>1
      <4> QED
        BY <4>1
    <3>2. CASE i # turn
      <4>1. i \in DOMAIN bundles /\ bundles'[i] = bundles[i] /\ i # turn
        BY <1>3, <1>5, <3>2
      <4>2. SavedWell(i, s)
        BY <2>1, <4>1 DEF IInv, SavedInv
      <4>3. \A t \in trouble' : t \in trouble \/ t.turn # i
        BY <4>1
      <4> QED
        BY <4>2, <4>3, SavedOn
    <3> QED
      BY <3>1, <3>2
  <2> QED
    BY <2>1, <2>2 DEF SavedWell, Told, FailedFor
<1>9. SavedInv'
  BY <1>1, <1>8, <1>17, AnyEmpty DEF SavedInv
<1>10. phase' # "suite" /\ phase' \in {"select", "merge"}
  BY <1>1
<1>11. IsSuite(current') /\ current'.status = "passed" /\ current'.artifacts = {}
  BY <1>1, NewSuiteSound DEF NewSuite
<1>12. SuiteInv' /\ FilesInv'
  BY <1>10, <1>11 DEF SuiteInv, FilesInv
<1>13. CauseInv'
  <2>1. (report = <<>> /\ current = NewSuite)'
    BY <1>1
  <2>2. BlockedForCause'
    BY <2>1, IdleCause, PTL
  <2> QED
    BY <1>1, <2>2 DEF CauseInv
<1>14. TroubleInv'
  <2>1. ASSUME NEW t \in trouble' PROVE t.turn \in 1 .. turn
    BY <1>3 DEF IInv, TroubleInv
  <2>2. FailedFor(current)'
    BY <1>11 DEF FailedFor
  <2> QED
    BY <1>1, <1>3, <1>10, <2>1, <2>2 DEF TroubleInv
<1>15. CleanInv'
  <2>1. SUFFICES ASSUME trouble' = {} PROVE CleanInv'
    BY DEF CleanInv
  <2>2. trouble = {}
    BY <2>1
  <2>3. ASSUME NEW i \in DOMAIN bundles'
        PROVE  /\ bundles'[i].summary # "torn" /\ bundles'[i].logs
               /\ \A n \in DOMAIN bundles'[i].suites :
                    /\ bundles'[i].suites[n].status = "passed"
                    /\ bundles'[i].suites[n].artifacts \subseteq bundles'[i].full
    <3>1. CASE i = turn
      BY <1>2, <1>5, <2>1, <3>1
    <3>2. CASE i # turn
      <4>1. i \in DOMAIN bundles /\ bundles'[i] = bundles[i]
        BY <1>3, <1>5, <3>2
      <4> QED
        BY <2>2, <4>1 DEF IInv, CleanInv
    <3> QED
      BY <3>1, <3>2
  <2> QED
    BY <1>1, <1>10, <1>11, <2>3, AnyEmpty DEF CleanInv
<1>16. QueueInv' /\ MergeInv'
  <2>1. ASSUME NEW i, NEW n PROVE ~Taken(i, n)'
    BY <1>1, <1>3, <1>5 DEF Taken
  <2>2. ~TakenTwice' /\ ~Refusal' /\ \A key : ~TakenKey(key)'
    BY <1>1, <1>3, <2>1 DEF TakenTwice, Refusal, TakenKey
  <2>3. QueueInv'
    BY <1>1, <1>3, AnyEmpty DEF QueueInv
  <2>4. MergeInv'
    BY <1>1, <1>3, <1>10, <2>1, <2>2 DEF MergeInv
  <2> QED
    BY <2>3, <2>4
<1> QED
  BY <1>7, <1>9, <1>12, <1>13, <1>14, <1>15, <1>16 DEF IInv

LEMMA IdsNotEmpty ==
  ASSUME scenario \in Scenarios, turn \in 1 .. Len(scenario.shards)
  PROVE  Len(Ids) \in Nat /\ Len(Ids) > 0
<1>1. AnySeq(Ids)
  BY ShardType
<1>2. Catalog # <<>> /\ <<"offline", "fuzz">> # <<>>
  BY DEF Catalog
<1>3. Ids # <<>>
  BY <1>2 DEF Ids, Selection
<1> QED
  BY <1>1, <1>3, AnyLen

LEMMA StartKeeps == ASSUME IInv, Start PROVE IInv'
<1>1. phase = "select" /\ Idle /\ scenario \in Scenarios /\ turn \in 1 .. Len(scenario.shards)
  BY DEF Start, IInv, PhaseInv
<1>2. CASE EndShard("absent", <<>>) /\ UNCHANGED <<faults, trouble, finished>>
  <2>1. AnySeq(<<>>) /\ DOMAIN <<>> = {}
    BY AnyEmpty
  <2>2. PICK i : i = turn
    OBVIOUS
  <2> QED
    BY <1>1, <1>2, <2>1, <2>2, ShardEnds
<1>3. CASE /\ Selectable(Ids) /\ phase' = "suite"
           /\ UNCHANGED <<scenario, faults, shardVars, mergeVars, trouble, finished>>
  <2>1. /\ UNCHANGED <<scenario, turn, report, current, pc, done, built, broken, full, cancelled, bundles>>
        /\ UNCHANGED <<left, bundle, queue, merged, seen, trouble, finished>>
    BY <1>3 DEF shardVars, mergeVars, suite, tools
  <2>2. /\ Ids' = Ids /\ Calls' = Calls /\ \A n : KeyAt(n)' = KeyAt(n)
    BY <2>1, ShardSame DEF SameShard
  <2>3. /\ report = <<>> /\ current = NewSuite /\ pc = 1 /\ full = {} /\ broken = {}
        /\ Len(report) = 0 /\ DOMAIN report = {}
    BY <1>1, AnyEmpty DEF Idle
  <2>12. DOMAIN Calls = 1 .. Len(Calls) /\ Len(Calls) \in Nat
    <3>1. Len(report) + 1 = 1
      BY <2>3
    <3>2. Calls = Script(Ids[1], Shard.cell)
      BY <3>1, Zenon DEF Calls
    <3>3. Shard.cell \in CellsAsked /\ AnySeq(Ids)
      BY <1>1, ShardType
    <3>4. 1 \in DOMAIN Ids
      BY <1>1, <3>3, AnyLen, IdsNotEmpty
    <3>5. Ids[1] \in Range(Catalog)
      BY <1>3, <3>4 DEF Selectable, Range
    <3>6. SoundScript(Script(Ids[1], Shard.cell))
      BY <3>3, <3>5, ScriptsAssumption
    <3>7. Calls \in Seq(NewCalls)
      BY <3>2, <3>6 DEF SoundScript
    <3> QED
      BY <3>7, LenProperties
  <2>4. PhaseInv'
    <3>1. 0 < Len(Ids) /\ Len(Ids) \in Nat
      BY <1>1, IdsNotEmpty
    <3>2. /\ scenario \in Scenarios /\ turn \in Nat /\ AnySeq(bundles) /\ Len(bundles) = turn - 1
          /\ turn \in 1 .. Len(scenario.shards)
          /\ left = {} /\ bundle = 0 /\ queue = <<>> /\ merged = {} /\ seen = {}
      BY <1>1 DEF IInv, PhaseInv
    <3>3. AnySeq(bundles)' /\ Selectable(Ids)'
      BY <1>3, <2>1, <2>2, <3>2
    <3>4. (Len(report) < Len(Ids) /\ pc \in 1 .. (Len(Calls) + 1))'
      BY <2>1, <2>2, <2>3, <2>12, <3>1
    <3> QED
      BY <1>3, <2>1, <3>2, <3>3, <3>4 DEF PhaseInv
  <2>5. SavedInv'
    <3>2. \A i \in DOMAIN bundles : \A n \in DOMAIN bundles[i].suites : SavedWell(i, bundles[i].suites[n])'
      <4>1. ASSUME NEW i \in DOMAIN bundles, NEW n \in DOMAIN bundles[i].suites
            PROVE  SavedWell(i, bundles[i].suites[n])'
        <5>1. SavedWell(i, bundles[i].suites[n])
          BY DEF IInv, SavedInv
        <5> QED
          BY <2>1, <5>1 DEF SavedWell, Told, FailedFor
      <4> QED
        BY <4>1
    <3>3. /\ AnySeq(bundles) /\ AnySeq(report)
          /\ \A i \in DOMAIN bundles :
               /\ IsBundle(bundles[i]) /\ AnySeq(bundles[i].suites)
               /\ bundles[i].summary \in {"absent", "torn", "saved"}
               /\ \A n, m \in DOMAIN bundles[i].suites :
                    bundles[i].suites[n].key = bundles[i].suites[m].key => n = m
      BY DEF IInv, SavedInv, PhaseInv
    <3> QED
      BY <2>1, <2>3, <3>2, <3>3 DEF SavedInv
  <2>6. SuiteInv'
    <3>1. current.artifacts = {} /\ \A j \in DOMAIN Calls : ~(j < pc)
      BY <2>3, <2>12 DEF NewSuite
    <3> QED
      BY <2>1, <2>2, <2>3, <3>1, NewSuiteSound DEF SuiteInv
  <2>7. CauseInv'
    <3>1. (report = <<>> /\ current = NewSuite)'
      BY <2>1, <2>3
    <3>2. BlockedForCause'
      BY <3>1, IdleCause, PTL
    <3> QED
      BY <2>1, <2>3, <3>2 DEF CauseInv
  <2>8. FilesInv'
    BY <2>1, <2>3 DEF FilesInv
  <2>9. TroubleInv'
    <3>1. \A t \in trouble : t.turn # turn
      BY <1>1 DEF IInv, TroubleInv
    <3>2. FailedFor(current)'
      BY <2>1 DEF IInv, TroubleInv, FailedFor
    <3> QED
      BY <2>1, <3>1, <3>2 DEF IInv, TroubleInv
  <2>10. CleanInv'
    <3>1. \A j \in DOMAIN Calls : ~(j < pc)
      BY <2>3, <2>12
    <3> QED
      BY <2>1, <2>2, <3>1 DEF IInv, CleanInv
  <2>11. QueueInv' /\ MergeInv'
    <3>1. (phase \in {"select", "suite"} /\ queue = <<>> /\ merged = {} /\ seen = {})'
      BY <1>1, <1>3, <2>1 DEF IInv, PhaseInv
    <3> QED
      BY <3>1, MergeIdle, PTL
  <2> QED
    BY <2>4, <2>5, <2>6, <2>7, <2>8, <2>9, <2>10, <2>11 DEF IInv
<1> QED
  BY <1>2, <1>3 DEF Start

LEMMA SuiteSettingHolds == ASSUME IInv, phase = "suite" PROVE SuiteSetting
BY SettingHolds DEF IInv, SavedInv

\* A killed invocation leaves what it saved last.
LEMMA KillKeeps == ASSUME IInv, Kill PROVE IInv'
<1>1. phase = "suite" /\ SuiteSetting
  BY SuiteSettingHolds DEF Kill
<1>2. PICK summary \in {"absent", "torn", "saved"} : summary # "torn" /\ EndShard(summary, report)
  BY DEF Kill
<1>3. PICK i, suites : i = turn /\ suites = report
  OBVIOUS
<1>4. /\ finished' = finished /\ trouble' = trouble \cup {[is |-> "loss", turn |-> turn, key |-> NoKey]}
  BY DEF Kill, Fault, Note
<1>5. AnySeq(suites) /\ DOMAIN suites = 1 .. Len(report)
  BY <1>1, <1>3 DEF IInv, SavedInv, SuiteSetting
<1>6. ASSUME NEW n \in DOMAIN suites PROVE SavedWell(i, suites[n])' /\ suites[n].key = KeyAt(n) /\ n \in 1 .. Len(Ids)
  <2>1. SavedWell(i, suites[n]) /\ suites[n].key = KeyAt(n)
    BY <1>3 DEF IInv, SavedInv
  <2>2. n \in 1 .. Len(Ids)
    BY <1>1, <1>5 DEF SuiteSetting
  <2>3. suites[n].key # NoKey
    BY <1>1, <2>1, <2>2, KeysAreKeys
  <2>4. \A t \in trouble' : t \in trouble \/ t.key = NoKey
    BY <1>4
  <2>5. PICK s : s = suites[n]
    OBVIOUS
  <2>6. SavedWell(i, s)'
    BY <1>4, <2>1, <2>3, <2>4, <2>5, SavedOn
  <2> QED
    BY <2>1, <2>2, <2>5, <2>6
<1>7. \A n, m \in DOMAIN suites : suites[n].key = suites[m].key => n = m
  BY <1>1, <1>6, KeysDiffer
<1>8. \A t \in trouble' : t \in trouble \/ (t.turn = turn /\ t.key = NoKey)
  BY <1>4
<1>9. EndShard(summary, suites)
  BY <1>2, <1>3
<1> QED
  BY <1>1, <1>2, <1>3, <1>4, <1>5, <1>6, <1>7, <1>8, <1>9, ShardEnds

LEMMA TearSummaryKeeps == ASSUME IInv, TearSummary PROVE IInv'
<1>1. phase = "suite" /\ EndShard("torn", <<>>) /\ finished' = finished
  BY DEF TearSummary
<1>2. trouble' = trouble \cup {[is |-> "loss", turn |-> turn, key |-> NoKey]}
  BY DEF TearSummary, Fault, Note
<1>3. \A t \in trouble' : t \in trouble \/ (t.turn = turn /\ t.key = NoKey)
  BY <1>2
<1>4. trouble' # {} /\ trouble \subseteq trouble'
  BY <1>2
<1>5. AnySeq(<<>>) /\ DOMAIN <<>> = {}
  BY AnyEmpty
<1>6. PICK i : i = turn
  OBVIOUS
<1> QED
  BY <1>1, <1>3, <1>4, <1>5, <1>6, ShardEnds

\* A call that is not due is passed over: the suite no longer passes, or the call
\* depends on a failure.
LEMMA PassOverKeeps == ASSUME IInv, PassOver PROVE IInv'
<1>1. /\ phase = "suite" /\ phase' = phase /\ pc \in DOMAIN Calls /\ ~Due /\ pc' = pc + 1
      /\ UNCHANGED <<scenario, turn, report, current, done, built, broken, full, cancelled, bundles>>
      /\ UNCHANGED <<left, bundle, queue, merged, seen, trouble, finished>>
  BY DEF PassOver, NoFault, tools, mergeVars
<1>2. /\ SuiteSetting /\ SameShard
      /\ Ids' = Ids /\ Shard' = Shard /\ Calls' = Calls /\ Key' = Key /\ \A n : KeyAt(n)' = KeyAt(n)
  BY <1>1, SuiteSettingHolds, ShardSame DEF SameShard
<1>3. Len(Calls) \in Nat /\ DOMAIN Calls = 1 .. Len(Calls)
  BY <1>2, CallsType
<1>4. current.status = "passed" => Calls[pc].unless # {}
  BY <1>1, <1>2, PassedDue DEF IInv, Call
<1>5. Calls[pc].unless = {} => ~(Calls[pc].needs \subseteq done)
  BY <1>1 DEF Due, Call
<1>6. \A j \in DOMAIN Calls : j < pc' <=> j < pc \/ j = pc
  BY <1>1, <1>3
<1>7. PhaseInv'
  <2>1. pc' \in 1 .. (Len(Calls) + 1)
    BY <1>1, <1>3
  <2> QED
    BY <1>1, <1>2, <2>1 DEF IInv, PhaseInv
<1>8. SavedInv'
  BY <1>1, <1>2, SavedKept DEF IInv
<1>9. SuiteInv'
  <2>1. ~Leaving(Calls[pc])
    BY <1>5 DEF Leaving
  <2> QED
    BY <1>1, <1>2, <1>4, <1>6, <2>1 DEF IInv, SuiteInv, Leaving, EvidenceOf
<1>10. CauseInv'
  BY <1>1 DEF IInv, CauseInv, BlockedForCause, ChecksOf
<1>11. FilesInv'
  <2>1. \A f : \A j \in Touching(Calls, f) : j < pc => j < pc'
    BY <1>6 DEF Touching
  <2> QED
    BY <1>1, <1>2, <2>1 DEF IInv, FilesInv
<1>12. TroubleInv'
  <2>1. Pending => Pending'
    <3>1. SUFFICES ASSUME Pending PROVE Pending'
      OBVIOUS
    <3>2. PICK a \in DOMAIN Calls : Missing(a)
      BY <3>1 DEF Pending
    <3>3. a # pc
      BY <1>5, <3>2 DEF Missing
    <3>4. Missing(a)'
      BY <1>1, <1>2, <1>3, <3>2, <3>3 DEF Missing
    <3> QED
      BY <1>2, <3>4 DEF Pending
  <2>2. FailedFor(current)'
    BY <1>1 DEF IInv, TroubleInv, FailedFor
  <2> QED
    BY <1>1, <1>2, <2>1, <2>2 DEF IInv, TroubleInv
<1>13. CleanInv'
  BY <1>1, <1>2, <1>4, <1>6 DEF IInv, CleanInv
<1>14. QueueInv' /\ MergeInv'
  <2>1. (phase \in {"select", "suite"} /\ queue = <<>> /\ merged = {} /\ seen = {})'
    BY <1>1 DEF IInv, PhaseInv
  <2> QED
    BY <2>1, MergeIdle, PTL
<1> QED
  BY <1>7, <1>8, <1>9, <1>10, <1>11, <1>12, <1>13, <1>14 DEF IInv

LEMMA CancelKeeps == ASSUME IInv, Cancel PROVE IInv'
<1>1. /\ phase = "suite" /\ phase' = phase /\ trouble' = trouble \cup {[is |-> "loss", turn |-> turn, key |-> NoKey]}
      /\ UNCHANGED <<scenario, turn, report, current, pc, done, built, broken, full, bundles>>
      /\ UNCHANGED <<left, bundle, queue, merged, seen, finished>>
  BY DEF Cancel, Fault, Note, suite, tools, mergeVars
<1>2. /\ SuiteSetting /\ SameShard
      /\ Ids' = Ids /\ Shard' = Shard /\ Calls' = Calls /\ Key' = Key /\ \A n : KeyAt(n)' = KeyAt(n)
  BY <1>1, SuiteSettingHolds, ShardSame DEF SameShard
<1>3. \A t \in trouble' : t \in trouble \/ (t.turn = turn /\ t.key = NoKey)
  BY <1>1
<1>4. trouble \subseteq trouble' /\ trouble' # {}
  BY <1>1
<1>5. PhaseInv'
  BY <1>1, <1>2 DEF IInv, PhaseInv
<1>6. SavedInv'
  BY <1>1, <1>2, <1>3, <1>4, SavedKept DEF IInv
<1>7. SuiteInv'
  BY <1>1, <1>2 DEF IInv, SuiteInv
<1>8. CauseInv'
  BY <1>1 DEF IInv, CauseInv, BlockedForCause, ChecksOf
<1>9. FilesInv'
  BY <1>1, <1>2 DEF IInv, FilesInv
<1>10. TroubleInv'
  <2>1. Pending => Pending'
    BY <1>1, <1>2 DEF Pending, Missing
  <2>2. FailedFor(current)'
    BY <1>1, <1>4 DEF IInv, TroubleInv, FailedFor
  <2>3. Key # NoKey
    BY <1>2, KeysAreKeys DEF SuiteSetting
  <2>4. turn \in Nat /\ turn >= 1
    BY DEF IInv, PhaseInv
  <2>5. ASSUME NEW t \in trouble'
        PROVE  /\ t.turn \in 1 .. turn
               /\ t.turn = turn => t.key = NoKey \/ \E n \in 1 .. (Len(report) + 1) : t.key = KeyAt(n)
    BY <1>3, <2>4 DEF IInv, TroubleInv
  <2>6. ASSUME NEW t \in trouble', t.turn = turn, t.key = Key
        PROVE  Pending' \/ (current.status # "passed" /\ (t.is = "refusal" => current.status = "refused"))
    BY <1>1, <1>3, <2>1, <2>3, <2>6 DEF IInv, TroubleInv
  <2> QED
    BY <1>1, <1>2, <2>2, <2>5, <2>6 DEF TroubleInv
<1>11. CleanInv'
  BY <1>4 DEF CleanInv
<1>12. QueueInv' /\ MergeInv'
  <2>1. (phase \in {"select", "suite"} /\ queue = <<>> /\ merged = {} /\ seen = {})'
    BY <1>1 DEF IInv, PhaseInv
  <2> QED
    BY <2>1, MergeIdle, PTL
<1> QED
  BY <1>5, <1>6, <1>7, <1>8, <1>9, <1>10, <1>11, <1>12 DEF IInv

LEMMA SkipSuiteKeeps == ASSUME IInv, SkipSuite PROVE IInv'
<1>1. /\ phase = "suite" /\ phase' = phase /\ pc' = Len(Calls) + 1
      /\ current' = Refused(current, "cancelled")
      /\ trouble' = trouble \cup {[is |-> "refusal", turn |-> turn, key |-> Key]}
      /\ UNCHANGED <<scenario, turn, report, done, built, broken, full, cancelled, bundles>>
      /\ UNCHANGED <<left, bundle, queue, merged, seen, finished>>
  BY DEF SkipSuite, Note, tools, mergeVars
<1>2. /\ SuiteSetting /\ SameShard
      /\ Ids' = Ids /\ Shard' = Shard /\ Calls' = Calls /\ Key' = Key /\ \A n : KeyAt(n)' = KeyAt(n)
  BY <1>1, SuiteSettingHolds, ShardSame DEF SameShard
<1>3. Len(Calls) \in Nat /\ DOMAIN Calls = 1 .. Len(Calls)
  BY <1>2, CallsType
<1>4. PICK r : r = current'
  OBVIOUS
<1>5. /\ Follows(current, r) /\ Adds(current, r, {"refused"})
      /\ r.status = "refused" /\ r.artifacts = current.artifacts
  BY <1>1, <1>4, Refuses DEF IInv, SuiteInv
<1>6. IsSuite(r) /\ r.checks # <<>>
  BY <1>5, NotPassedTells DEF Follows, IsSuite
<1>7. \A t \in trouble' : t \in trouble \/ (t.turn = turn /\ t.key = Key)
  BY <1>1
<1>8. trouble \subseteq trouble' /\ trouble' # {}
  BY <1>1
<1>9. PhaseInv'
  <2>1. pc' \in 1 .. (Len(Calls) + 1)
    BY <1>1, <1>3
  <2> QED
    BY <1>1, <1>2, <2>1 DEF IInv, PhaseInv
<1>10. SavedInv'
  BY <1>1, <1>2, <1>7, <1>8, SavedKept DEF IInv
<1>11. SuiteInv'
  BY <1>1, <1>2, <1>4, <1>5, <1>6 DEF IInv, SuiteInv, EvidenceOf
<1>12. CauseInv'
  <2>1. \A i \in (Len(current.checks) + 1) .. Len(r.checks) : r.checks[i].status # "blocked"
    BY <1>5 DEF Adds
  <2> QED
    BY <1>1, <1>2, <1>4, <1>5, <2>1, CauseStays DEF IInv
<1>13. FilesInv'
  <2>1. \A f : \A j \in Touching(Calls, f) : j < pc'
    BY <1>1, <1>3 DEF Touching
  <2> QED
    BY <1>1, <1>2, <2>1 DEF IInv, FilesInv
<1>14. TroubleInv'
  <2>1. Key = KeyAt(Len(report) + 1) /\ Len(report) \in Nat /\ turn \in Nat /\ turn >= 1
    BY <1>2 DEF SuiteSetting, IInv, PhaseInv
  <2>2. FailedFor(current)'
    BY <1>4, <1>5 DEF FailedFor
  <2>3. ASSUME NEW t \in trouble'
        PROVE  /\ t.turn \in 1 .. turn
               /\ t.turn = turn => t.key = NoKey \/ \E n \in 1 .. (Len(report) + 1) : t.key = KeyAt(n)
    BY <1>7, <2>1 DEF IInv, TroubleInv
  <2> QED
    BY <1>1, <1>2, <1>4, <1>5, <2>2, <2>3 DEF TroubleInv
<1>15. CleanInv'
  BY <1>8 DEF CleanInv
<1>16. QueueInv' /\ MergeInv'
  <2>1. (phase \in {"select", "suite"} /\ queue = <<>> /\ merged = {} /\ seen = {})'
    BY <1>1 DEF IInv, PhaseInv
  <2> QED
    BY <2>1, MergeIdle, PTL
<1> QED
  BY <1>9, <1>10, <1>11, <1>12, <1>13, <1>14, <1>15, <1>16 DEF IInv

\* A suite that came to its end can be saved.
LEMMA FinishedWell ==
  ASSUME IInv, SuiteSetting, phase = "suite", pc > Len(Calls),
         finished' = finished \cup {<<turn, Key>>}, UNCHANGED trouble,
         NEW i, i = turn, NEW s, s = Finished
  PROVE  /\ SavedWell(i, s)' /\ s.key = Key /\ s.status = current.status
         /\ s.checks = current.checks /\ s.artifacts = current.artifacts
<1>1. /\ s.key = Key /\ s.status = current.status
      /\ s.checks = current.checks /\ s.artifacts = current.artifacts
  BY DEF Finished
<1>2. SoundVerdict(s)
  BY <1>1 DEF IInv, SuiteInv, IsSuite, SoundVerdict
<1>3. pc \in Int /\ Len(Calls) \in Nat /\ DOMAIN Calls = 1 .. Len(Calls) /\ \A j \in DOMAIN Calls : j < pc
  <2>1. pc \in Int
    BY DEF IInv, PhaseInv
  <2> QED
    BY <2>1, CallsType
<1>4. s.checks # <<>>
  <2>1. \E k \in DOMAIN Calls : Leaving(Calls[k])
    BY DEF SuiteSetting, SoundScript, Leaving
  <2> QED
    BY <1>1, <1>3, <2>1 DEF IInv, SuiteInv
<1>5. ASSUME s.status = "passed" PROVE s.artifacts = Evidence(s.key)
  <2>1. s.artifacts \subseteq EvidenceOf(Calls)
    BY <1>1 DEF IInv, SuiteInv
  <2>2. ASSUME NEW k \in DOMAIN Calls, Calls[k].does \in Evident
        PROVE  Calls[k].files \subseteq s.artifacts
    <3>1. PICK j \in DOMAIN Calls : /\ Calls[j].does \in Evident /\ Calls[j].unless = {}
                                    /\ Calls[j].files = Calls[k].files
      BY <2>2 DEF SuiteSetting, SoundScript
    <3> QED
      BY <1>1, <1>3, <1>5, <3>1 DEF IInv, SuiteInv
  <2>3. EvidenceOf(Calls) \subseteq s.artifacts
    BY <2>2 DEF EvidenceOf
  <2> QED
    BY <1>1, <2>1, <2>3, EvidenceOfKey
<1>6. ~Pending
  BY <1>3 DEF Pending, Missing
<1>7. Told(i, s)'
  <2>1. ASSUME NEW t \in trouble, t.turn = turn, t.key = Key
        PROVE  current.status # "passed" /\ (t.is = "refusal" => current.status = "refused")
    BY <1>6, <2>1 DEF IInv, TroubleInv
  <2> QED
    BY <1>1, <2>1 DEF Told
<1>8. FailedFor(s)'
  BY <1>1 DEF FailedFor, IInv, TroubleInv
<1>9. s.key[1] \in Range(Catalog)
  BY <1>1, KeysAreKeys DEF SuiteSetting
<1>10. <<i, s.key>> \in finished'
  BY <1>1
<1>11. SavedWell(i, s)'
  BY <1>2, <1>4, <1>5, <1>7, <1>8, <1>9, <1>10 DEF SavedWell
<1> QED
  BY <1>1, <1>11

\* save, after the last suite of a shard and after an earlier one.
LEMMA SaveEndsKeeps ==
  ASSUME IInv, SuiteSetting, phase = "suite", pc > Len(Calls),
         finished' = finished \cup {<<turn, Key>>}, NoFault,
         EndShard("saved", Append(report, Finished))
  PROVE  IInv'
<1>1. PICK i, s, suites : i = turn /\ s = Finished /\ suites = Append(report, s)
  OBVIOUS
<1>2. trouble' = trouble /\ finished \subseteq finished'
  BY DEF NoFault
<1>3. /\ SavedWell(i, s)' /\ s.key = Key /\ s.status = current.status
      /\ s.checks = current.checks /\ s.artifacts = current.artifacts
  BY <1>1, <1>2, FinishedWell
<1>4. AnySeq(report) /\ Len(report) + 1 \in 1 .. Len(Ids) /\ Len(Ids) \in Nat /\ Key = KeyAt(Len(report) + 1)
  BY DEF IInv, SavedInv, SuiteSetting
<1>5. /\ AnySeq(suites) /\ Len(report) \in Nat /\ DOMAIN report = 1 .. Len(report)
      /\ DOMAIN suites = 1 .. (Len(report) + 1)
      /\ suites[Len(report) + 1] = s /\ \A n \in 1 .. Len(report) : suites[n] = report[n]
  BY <1>1, <1>4, AppendAny
<1>6. ASSUME NEW n \in DOMAIN suites PROVE SavedWell(i, suites[n])' /\ suites[n].key = KeyAt(n) /\ n \in 1 .. Len(Ids)
  <2>1. n \in 1 .. Len(Ids)
    BY <1>4, <1>5
  <2>2. CASE n = Len(report) + 1
    <3>1. suites[n] = s
      BY <1>5, <2>2
    <3> QED
      BY <1>3, <1>4, <2>1, <2>2, <3>1
  <2>3. CASE n # Len(report) + 1
    <3>1. n \in DOMAIN report /\ suites[n] = report[n]
      BY <1>5, <2>3
    <3>2. PICK q : q = suites[n]
      OBVIOUS
    <3>3. SavedWell(i, q) /\ q.key = KeyAt(n)
      BY <1>1, <3>1, <3>2 DEF IInv, SavedInv
    <3>4. SavedWell(i, q)'
      BY <1>2, <3>3, SavedOn
    <3> QED
      BY <2>1, <3>2, <3>3, <3>4
  <2> QED
    BY <2>2, <2>3
<1>7. \A n, m \in DOMAIN suites : suites[n].key = suites[m].key => n = m
  BY <1>6, KeysDiffer
<1>8. ASSUME trouble' = {}, NEW n \in DOMAIN suites
      PROVE  suites[n].status = "passed" /\ suites[n].artifacts \subseteq full
  <2>1. CASE n = Len(report) + 1
    BY <1>2, <1>3, <1>5, <1>8, <2>1 DEF IInv, CleanInv
  <2>2. CASE n # Len(report) + 1
    <3>1. n \in DOMAIN report /\ suites[n] = report[n]
      BY <1>5, <2>2
    <3> QED
      BY <1>2, <1>8, <3>1 DEF IInv, CleanInv
  <2> QED
    BY <2>1, <2>2
<1>9. EndShard("saved", suites)
  BY <1>1
<1>10. /\ trouble \subseteq trouble' /\ \A t \in trouble' : t \in trouble \/ (t.turn = turn /\ t.key = NoKey)
       /\ phase \in {"select", "suite"} /\ i = turn
  BY <1>1, <1>2
<1>11. \A n \in DOMAIN suites : SavedWell(i, suites[n])'
  BY <1>6
<1> DEFINE saved == "saved"
<1>12. trouble' = {} => /\ saved # "torn"
                       /\ \A n \in DOMAIN suites : suites[n].status = "passed" /\ suites[n].artifacts \subseteq full
  BY <1>8
<1>13. saved \in {"absent", "torn", "saved"} /\ EndShard(saved, suites)
  BY <1>9
<1> HIDE DEF saved
<1> QED
  BY <1>2, <1>5, <1>7, <1>10, <1>11, <1>12, <1>13, ShardEnds

LEMMA SaveGoesOnKeeps ==
  ASSUME IInv, SuiteSetting, phase = "suite", pc > Len(Calls),
         finished' = finished \cup {<<turn, Key>>}, NoFault,
         Len(report) + 1 < Len(Ids), report' = Append(report, Finished),
         current' = NewSuite, pc' = 1, done' = {},
         UNCHANGED <<scenario, phase, turn, tools, full, cancelled, bundles, mergeVars>>
  PROVE  IInv'
<1>1. /\ UNCHANGED <<scenario, phase, turn, built, broken, full, cancelled, bundles>>
      /\ UNCHANGED <<left, bundle, queue, merged, seen, trouble>> /\ finished \subseteq finished'
  BY DEF NoFault, tools, mergeVars
<1>2. Shard' = Shard /\ Ids' = Ids /\ \A n : KeyAt(n)' = KeyAt(n)
  BY <1>1, ShardSame DEF SameShard
<1>3. PICK i, s : i = turn /\ s = Finished
  OBVIOUS
<1>4. /\ SavedWell(i, s)' /\ s.key = Key /\ s.status = current.status
      /\ s.checks = current.checks /\ s.artifacts = current.artifacts
  BY <1>1, <1>3, FinishedWell
<1>5. PICK last \in Nat : last = Len(report) + 1
  BY DEF SuiteSetting
<1>6. /\ last \in 1 .. Len(Ids) /\ last + 1 \in 1 .. Len(Ids) /\ Len(Ids) \in Nat /\ Key = KeyAt(last)
      /\ AnySeq(report) /\ DOMAIN report = 1 .. (last - 1) /\ Len(report) \in Nat
  BY <1>5 DEF SuiteSetting, IInv, SavedInv
<1>7. /\ AnySeq(report') /\ Len(report') = last /\ DOMAIN report' = 1 .. last
      /\ report'[last] = s /\ \A n \in 1 .. (last - 1) : report'[n] = report[n]
  BY <1>3, <1>5, <1>6, AppendAny
<1>8. Calls = Script(Ids[last], Shard.cell)
  BY <1>5, Zenon DEF Calls
<1>9. Len(Calls)' \in Nat /\ (DOMAIN Calls)' = 1 .. Len(Calls)'
  <2>1. Calls' = Script(Ids[last + 1], Shard.cell)
    BY <1>2, <1>7, Zenon DEF Calls
  <2>2. SoundScript(Script(Ids[last + 1], Shard.cell))
    BY <1>6, ScriptsAssumption DEF SuiteSetting
  <2>3. Calls' \in Seq(NewCalls)
    BY <2>1, <2>2 DEF SoundScript
  <2> QED
    BY <2>3, LenProperties
<1>10. Key' = KeyAt(last + 1)
  BY <1>2, <1>7, Zenon DEF Key, KeyAt
<1>11. PhaseInv'
  <2>1. /\ scenario \in Scenarios /\ turn \in Nat /\ AnySeq(bundles) /\ Len(bundles) = turn - 1
        /\ turn \in 1 .. Len(scenario.shards) /\ Selectable(Ids)
        /\ left = {} /\ bundle = 0 /\ queue = <<>> /\ merged = {} /\ seen = {}
    BY DEF IInv, PhaseInv
  <2>2. AnySeq(bundles)' /\ Selectable(Ids)'
    BY <1>1, <1>2, <2>1
  <2>3. (Len(report) < Len(Ids) /\ pc \in 1 .. (Len(Calls) + 1))'
    BY <1>2, <1>5, <1>7, <1>9
  <2> QED
    BY <1>1, <2>1, <2>2, <2>3 DEF PhaseInv
<1>12. SavedInv'
  <2>1. ASSUME NEW n \in DOMAIN report' PROVE SavedWell(i, report[n])' /\ report'[n].key = KeyAt(n)
    <3>1. CASE n = last
      BY <1>4, <1>6, <1>7, <3>1 DEF SavedWell, Told, FailedFor
    <3>2. CASE n # last
      <4>1. n \in DOMAIN report /\ report'[n] = report[n]
        BY <1>6, <1>7, <3>2
      <4>2. PICK q : q = report[n]
        OBVIOUS
      <4>3. SavedWell(i, q) /\ q.key = KeyAt(n)
        BY <1>3, <4>1, <4>2 DEF IInv, SavedInv
      <4>4. SavedWell(i, q)'
        BY <1>1, <4>3, SavedOn
      <4> QED
        BY <4>1, <4>2, <4>3, <4>4 DEF SavedWell, Told, FailedFor
    <3> QED
      BY <3>1, <3>2
  <2>2. ASSUME NEW k \in DOMAIN bundles, NEW n \in DOMAIN bundles[k].suites
        PROVE  SavedWell(k, bundles[k].suites[n])'
    <3>1. PICK q : q = bundles[k].suites[n]
      OBVIOUS
    <3>2. SavedWell(k, q)
      BY <3>1 DEF IInv, SavedInv
    <3>3. SavedWell(k, q)'
      BY <1>1, <3>2, SavedOn
    <3> QED
      BY <1>1, <3>1, <3>3 DEF SavedWell, Told, FailedFor
  <2>3. \A k \in DOMAIN bundles :
          /\ IsBundle(bundles[k]) /\ AnySeq(bundles[k].suites)
          /\ bundles[k].summary \in {"absent", "torn", "saved"}
          /\ \A n, m \in DOMAIN bundles[k].suites :
               bundles[k].suites[n].key = bundles[k].suites[m].key => n = m
    BY DEF IInv, SavedInv
  <2>4. \A n \in DOMAIN report' : SavedWell(turn, report[n])' /\ report'[n].key = KeyAt(n)'
    BY <1>1, <1>2, <1>3, <2>1
  <2> QED
    BY <1>1, <1>7, <2>2, <2>3, <2>4 DEF SavedInv
<1>13. SuiteInv'
  <2>1. IsSuite(current') /\ current'.artifacts = {} /\ \A j \in (DOMAIN Calls)' : ~(j < pc')
    BY <1>9, NewSuiteSound DEF NewSuite
  <2> QED
    BY <2>1 DEF SuiteInv
<1>14. CauseInv'
  <2>1. \A n \in 1 .. last : ChecksOf(n)' = ChecksOf(n)
    BY <1>4, <1>5, <1>6, <1>7 DEF ChecksOf
  <2>2. ChecksOf(last + 1)' = <<>>
    BY <1>5, <1>7 DEF ChecksOf, NewSuite
  <2>3. BlockedForCause'
    <3>1. SUFFICES ASSUME NEW n \in 1 .. (last + 1), NEW k \in DOMAIN ChecksOf(n)', ChecksOf(n)'[k].status = "blocked"
                   PROVE  \/ \E j \in 1 .. (k - 1) : ChecksOf(n)'[j].status \in {"failed", "refused"}
                          \/ \E m \in 1 .. (n - 1) : CauseIn(ChecksOf(m)')
      BY <1>7 DEF BlockedForCause, CauseIn
    <3>2. n \in 1 .. last
      BY <2>2, <3>1, AnyEmpty
    <3>3. ChecksOf(n)' = ChecksOf(n) /\ \A m \in 1 .. (n - 1) : ChecksOf(m)' = ChecksOf(m)
      BY <2>1, <3>2
    <3>4. \/ \E j \in 1 .. (k - 1) : ChecksOf(n)[j].status \in {"failed", "refused"}
          \/ \E m \in 1 .. (n - 1) : CauseIn(ChecksOf(m))
      BY <1>5, <3>1, <3>2, <3>3 DEF IInv, CauseInv, BlockedForCause
    <3> QED
      BY <3>3, <3>4
  <2>4. broken' # {} => \E n \in DOMAIN report' : report'[n].status # "passed"
    <3>1. SUFFICES ASSUME broken' # {} PROVE \E n \in DOMAIN report' : report'[n].status # "passed"
      OBVIOUS
    <3>2. CASE current.status # "passed"
      <4>1. last \in DOMAIN report' /\ report'[last].status = current.status
        BY <1>4, <1>6, <1>7
      <4> QED
        BY <3>2, <4>1
    <3>3. CASE \E n \in DOMAIN report : report[n].status # "passed"
      <4>1. PICK n \in DOMAIN report : report[n].status # "passed"
        BY <3>3
      <4>2. n \in DOMAIN report' /\ report'[n] = report[n]
        BY <1>6, <1>7
      <4> QED
        BY <4>1, <4>2
    <3> QED
      BY <1>1, <3>1, <3>2, <3>3 DEF IInv, CauseInv
  <2> QED
    BY <2>3, <2>4 DEF CauseInv
<1>15. FilesInv'
  <2>1. ASSUME NEW f \in full PROVE \E n \in DOMAIN report' : Touching(Script(Ids[n], Shard.cell), f) # {}
    <3>1. CASE \E j \in Touching(Calls, f) : j < pc
      <4>1. last \in DOMAIN report' /\ Touching(Script(Ids[last], Shard.cell), f) # {}
        BY <1>6, <1>7, <1>8, <3>1
      <4> QED
        BY <4>1
    <3>2. CASE \E n \in DOMAIN report : Touching(Script(Ids[n], Shard.cell), f) # {}
      BY <1>6, <1>7, <3>2
    <3> QED
      BY <3>1, <3>2 DEF IInv, FilesInv
  <2> QED
    BY <1>1, <1>2, <2>1 DEF FilesInv
<1>16. TroubleInv'
  <2>1. ASSUME NEW t \in trouble
        PROVE  /\ t.turn \in 1 .. turn
               /\ t.turn = turn => t.key = NoKey \/ \E n \in 1 .. last : t.key = KeyAt(n)
    BY <1>5 DEF IInv, TroubleInv
  <2>2. ASSUME NEW t \in trouble, t.turn = turn, t.key = KeyAt(last + 1) PROVE FALSE
    <3>1. KeyAt(last + 1) # NoKey
      BY <1>6, KeysAreKeys
    <3>2. PICK n \in 1 .. last : KeyAt(n) = KeyAt(last + 1)
      BY <2>1, <2>2, <3>1
    <3>3. n \in 1 .. Len(Ids) /\ n # last + 1
      BY <1>6
    <3> QED
      BY <1>6, <3>2, <3>3, KeysDiffer
  <2>3. FailedFor(current)'
    BY DEF FailedFor, NewSuite
  <2>4. \A n \in 1 .. last : n \in 1 .. (last + 1)
    OBVIOUS
  <2> QED
    BY <1>1, <1>2, <1>7, <1>10, <2>1, <2>2, <2>3, <2>4 DEF TroubleInv
<1>17. CleanInv'
  <2>1. SUFFICES ASSUME trouble = {} PROVE CleanInv'
    BY <1>1 DEF CleanInv
  <2>2. /\ ~cancelled /\ broken = {}
        /\ current.status = "passed" /\ current.artifacts \subseteq full
        /\ \A n \in DOMAIN report : report[n].status = "passed" /\ report[n].artifacts \subseteq full
        /\ \A k \in DOMAIN bundles :
             /\ bundles[k].summary # "torn" /\ bundles[k].logs
             /\ \A n \in DOMAIN bundles[k].suites :
                  /\ bundles[k].suites[n].status = "passed"
                  /\ bundles[k].suites[n].artifacts \subseteq bundles[k].full
    BY <2>1 DEF IInv, CleanInv
  <2>3. \A n \in DOMAIN report' : report'[n].status = "passed" /\ report'[n].artifacts \subseteq full
    <3>1. ASSUME NEW n \in 1 .. last PROVE n = last \/ n \in 1 .. (last - 1)
      OBVIOUS
    <3> QED
      BY <1>4, <1>6, <1>7, <2>2, <3>1
  <2>4. current'.status = "passed" /\ current'.artifacts = {} /\ \A j \in (DOMAIN Calls)' : ~(j < pc')
    BY <1>9 DEF NewSuite
  <2> QED
    BY <1>1, <2>2, <2>3, <2>4 DEF CleanInv
<1>18. QueueInv' /\ MergeInv'
  <2>1. (phase \in {"select", "suite"} /\ queue = <<>> /\ merged = {} /\ seen = {})'
    BY <1>1 DEF IInv, PhaseInv
  <2> QED
    BY <2>1, MergeIdle, PTL
<1> QED
  BY <1>11, <1>12, <1>13, <1>14, <1>15, <1>16, <1>17, <1>18 DEF IInv

LEMMA SaveKeeps == ASSUME IInv, Save PROVE IInv'
<1>1. phase = "suite" /\ SuiteSetting /\ pc > Len(Calls) /\ finished' = finished \cup {<<turn, Key>>} /\ NoFault
  BY SuiteSettingHolds DEF Save
<1>2. CASE EndShard("saved", Append(report, Finished))
  BY <1>1, <1>2, SaveEndsKeeps
<1>3. CASE /\ Len(report) + 1 < Len(Ids)
           /\ report' = Append(report, Finished)
           /\ current' = NewSuite /\ pc' = 1 /\ done' = {}
           /\ UNCHANGED <<scenario, phase, turn, tools, full, cancelled, bundles, mergeVars>>
  BY <1>1, <1>3, SaveGoesOnKeeps
<1> QED
  BY <1>2, <1>3 DEF Save
-----------------------------------------------------------------------------
(***************************************************************************)
(* The steps of the merge.                                                 *)
(***************************************************************************)
\* The shards are over.
LEMMA MergeKeepsShards ==
  ASSUME IInv, phase = "merge", phase' \in {"merge", "merged"},
         UNCHANGED <<scenario, turn, report, suite, tools, full, cancelled, bundles, trouble, finished>>,
         left' \subseteq left
  PROVE  PhaseInv' /\ SavedInv' /\ SuiteInv' /\ CauseInv' /\ FilesInv' /\ TroubleInv' /\ CleanInv'
<1>1. /\ UNCHANGED <<scenario, turn, report, current, pc, done, built, broken, full, cancelled>>
      /\ UNCHANGED <<bundles, trouble, finished>>
  BY DEF suite, tools
<1>2. Idle /\ Idle'
  BY <1>1 DEF IInv, PhaseInv, Idle
<1>3. PhaseInv'
  BY <1>1, <1>2 DEF IInv, PhaseInv
<1>4. SavedInv'
  <2>1. ASSUME NEW i \in DOMAIN bundles, NEW n \in DOMAIN bundles[i].suites
        PROVE  SavedWell(i, bundles[i].suites[n])'
    <3>1. SavedWell(i, bundles[i].suites[n])
      BY DEF IInv, SavedInv
    <3> QED
      BY <1>1, <3>1 DEF SavedWell, Told, FailedFor
  <2>2. \A k \in DOMAIN bundles :
          /\ IsBundle(bundles[k]) /\ AnySeq(bundles[k].suites)
          /\ bundles[k].summary \in {"absent", "torn", "saved"}
          /\ \A n, m \in DOMAIN bundles[k].suites :
               bundles[k].suites[n].key = bundles[k].suites[m].key => n = m
    BY DEF IInv, SavedInv
  <2>3. report' = <<>>
    BY <1>2 DEF Idle
  <2> QED
    BY <1>1, <2>1, <2>2, <2>3, AnyEmpty DEF SavedInv
<1>5. SuiteInv' /\ FilesInv'
  BY <1>1 DEF IInv, SuiteInv, FilesInv
<1>6. CauseInv'
  BY <1>1 DEF IInv, CauseInv, BlockedForCause, ChecksOf
<1>7. TroubleInv'
  BY <1>1 DEF IInv, TroubleInv, FailedFor
<1>8. CleanInv'
  BY <1>1 DEF IInv, CleanInv
<1> QED
  BY <1>3, <1>4, <1>5, <1>6, <1>7, <1>8

\* Nothing is taken over; a refusal is added only after something went wrong.
LEMMA MergeGrows ==
  ASSUME IInv, phase = "merge", phase' = "merge",
         \A i, n : Taken(i, n)' <=> Taken(i, n),
         \A i, n : Taken(i, n) => bundles'[i].suites = bundles[i].suites,
         trouble \subseteq trouble', merged \subseteq merged', seen' = seen,
         \A m \in merged' : m \in merged \/ (m.status = "refused" /\ trouble' # {})
  PROVE  MergeInv'
<1>1. TakenTwice' <=> TakenTwice
  <2>1. ASSUME TakenTwice PROVE TakenTwice'
    <3>1. PICK i, n, j, k \in Nat : /\ Taken(i, n) /\ Taken(j, k) /\ <<i, n>> # <<j, k>>
                                  /\ bundles[i].suites[n].key = bundles[j].suites[k].key
      BY <2>1 DEF TakenTwice
    <3>2. /\ Taken(i, n)' /\ Taken(j, k)'
          /\ bundles'[i].suites = bundles[i].suites /\ bundles'[j].suites = bundles[j].suites
      BY <3>1
    <3> QED
      BY <3>1, <3>2 DEF TakenTwice
  <2>2. ASSUME TakenTwice' PROVE TakenTwice
    <3>1. PICK i, n, j, k \in Nat : /\ Taken(i, n)' /\ Taken(j, k)' /\ <<i, n>> # <<j, k>>
                                  /\ bundles'[i].suites[n].key = bundles'[j].suites[k].key
      BY <2>2 DEF TakenTwice
    <3>2. /\ Taken(i, n) /\ Taken(j, k)
          /\ bundles'[i].suites = bundles[i].suites /\ bundles'[j].suites = bundles[j].suites
      BY <3>1
    <3> QED
      BY <3>1, <3>2 DEF TakenTwice
  <2> QED
    BY <2>1, <2>2
<1>2. \A key : TakenKey(key)' <=> TakenKey(key)
  BY DEF TakenKey
<1>3. Refusal => Refusal'
  BY DEF Refusal
<1>4. ASSUME NEW m \in merged'
      PROVE  /\ m.status \in Statuses
             /\ m.status = "failed" => \E t \in trouble' : t.is = "failure"
             /\ m.status = "passed" =>
                  \E i, n \in Nat : /\ Taken(i, n)'
                                    /\ bundles'[i].suites[n].key = m.key
                                    /\ bundles'[i].suites[n].status = "passed"
                                    /\ bundles'[i].suites[n].artifacts = m.artifacts
  <2>1. CASE m \in merged
    BY <2>1 DEF IInv, MergeInv
  <2>2. CASE m.status = "refused"
    BY <2>2 DEF Statuses
  <2> QED
    BY <2>1, <2>2
<1>5. ASSUME trouble' = {}, Refusal' PROVE TakenTwice'
  <2>1. trouble = {} /\ Refusal
    BY <1>5 DEF Refusal
  <2> QED
    BY <1>1, <2>1 DEF IInv, MergeInv
<1>6. (\E i, n \in Nat : Taken(i, n)' /\ bundles'[i].suites[n].status = "refused") => Refusal'
  BY <1>3 DEF IInv, MergeInv
<1> QED
  BY <1>1, <1>2, <1>3, <1>4, <1>5, <1>6 DEF IInv, MergeInv

LEMMA LoseKeeps == ASSUME IInv, Lose PROVE IInv'
<1>1. /\ phase = "merge" /\ phase' = phase
      /\ UNCHANGED <<scenario, turn, report, current, pc, done, built, broken, full, cancelled>>
      /\ UNCHANGED <<left, bundle, queue, merged, seen, finished>>
  BY DEF Lose, suite, tools, mergeVars
<1>2. PICK i \in left :
        /\ bundles' \in {[bundles EXCEPT ![i].summary = "absent"], [bundles EXCEPT ![i].logs = FALSE]}
                        \cup {[bundles EXCEPT ![i].full = @ \ {f}] : f \in bundles[i].full}
        /\ trouble' = trouble \cup {[is |-> "loss", turn |-> i, key |-> NoKey]}
  BY DEF Lose, Fault, Note
<1>3. left \subseteq DOMAIN bundles /\ AnySeq(bundles) /\ Len(bundles) = turn - 1 /\ turn \in Nat /\ Idle
  BY <1>1 DEF IInv, PhaseInv
<1>4. DOMAIN bundles = 1 .. (turn - 1) /\ i \in 1 .. (turn - 1)
  BY <1>2, <1>3, AnyLen
<1>5. PICK b : bundles' = [bundles EXCEPT ![i] = b]
  BY <1>2
<1>6. \A j \in DOMAIN bundles : j # i => bundles'[j] = bundles[j]
  BY <1>5
<1>7. /\ DOMAIN bundles' = DOMAIN bundles
      /\ bundles'[i].suites = bundles[i].suites
      /\ bundles'[i].summary \in {"absent", bundles[i].summary} /\ IsBundle(bundles'[i])
  <2>1. PICK q : q = bundles[i]
    OBVIOUS
  <2>2. q = [summary |-> q.summary, suites |-> q.suites, full |-> q.full, logs |-> q.logs]
    BY <1>3, <2>1 DEF IInv, SavedInv, IsBundle
  <2>3. \/ bundles'[i] = [q EXCEPT !.summary = "absent"]
        \/ bundles'[i] = [q EXCEPT !.logs = FALSE]
        \/ \E f \in q.full : bundles'[i] = [q EXCEPT !.full = @ \ {f}]
    BY <1>2, <1>3, <2>1
  <2>4. PICK p, a, c, d, e : p = bundles'[i] /\ q = [summary |-> a, suites |-> c, full |-> d, logs |-> e]
    BY <2>2
  <2>5. \/ p = [summary |-> "absent", suites |-> c, full |-> d, logs |-> e]
        \/ p = [summary |-> a, suites |-> c, full |-> d, logs |-> FALSE]
        \/ \E f : p = [summary |-> a, suites |-> c, full |-> d \ {f}, logs |-> e]
    BY <2>3, <2>4
  <2>6. p.suites = c /\ p.summary \in {"absent", a} /\ IsBundle(p) /\ q.suites = c /\ q.summary = a
    <3>1. ASSUME NEW x, NEW y, NEW z, NEW w, p = [summary |-> x, suites |-> y, full |-> z, logs |-> w]
          PROVE  p.summary = x /\ p.suites = y /\ IsBundle(p)
      BY <3>1 DEF IsBundle
    <3>2. q.suites = c /\ q.summary = a
      BY <2>4
    <3>3. p.suites = c /\ p.summary \in {"absent", a} /\ IsBundle(p)
      BY <2>5, <3>1
    <3> QED
      BY <3>2, <3>3
  <2>7. DOMAIN bundles' = DOMAIN bundles
    BY <1>5
  <2> QED
    BY <2>1, <2>4, <2>6, <2>7
<1>8. AnySeq(bundles') /\ Len(bundles') = turn - 1
  <2>1. bundles' \in Seq(Range(bundles) \cup {b})
    BY <1>3, <1>4, <1>5, ExceptSeq, SeqMonotonic DEF AnySeq
  <2>2. Len(bundles') \in Nat /\ DOMAIN bundles' = 1 .. Len(bundles') /\ bundles' \in Seq(Range(bundles'))
    BY <2>1, LenProperties, SeqOfRange
  <2> QED
    BY <1>3, <1>4, <1>7, <2>2 DEF AnySeq
<1>9. \A t \in trouble' : t \in trouble \/ (t.turn = i /\ t.key = NoKey)
  BY <1>2
<1>10. trouble \subseteq trouble' /\ trouble' # {}
  BY <1>2
<1>11. PhaseInv'
  <2>1. Idle'
    BY <1>1, <1>3 DEF Idle
  <2> QED
    BY <1>1, <1>3, <1>7, <1>8, <2>1 DEF IInv, PhaseInv
<1>12. SavedInv'
  <2>1. ASSUME NEW j \in DOMAIN bundles
        PROVE  /\ bundles'[j].suites = bundles[j].suites
               /\ bundles'[j].summary \in {"absent", "torn", "saved"}
    BY <1>6, <1>7 DEF IInv, SavedInv
  <2>5. \A j \in DOMAIN bundles : IsBundle(bundles'[j])
    BY <1>6, <1>7 DEF IInv, SavedInv
  <2>2. ASSUME NEW j \in DOMAIN bundles, NEW n \in DOMAIN bundles[j].suites
        PROVE  SavedWell(j, bundles[j].suites[n])'
    <3>1. PICK s : s = bundles[j].suites[n]
      OBVIOUS
    <3>2. SavedWell(j, s)
      BY <3>1 DEF IInv, SavedInv
    <3>3. s.key # NoKey
      BY <3>2, ScriptsAssumption DEF SavedWell, NoKey
    <3>4. \A t \in trouble' : t \in trouble \/ t.key # s.key
      BY <1>9, <3>3
    <3>5. SavedWell(j, s)'
      BY <1>1, <1>10, <3>2, <3>4, SavedOn
    <3>6. s = bundles'[j].suites[n]
      BY <2>1, <3>1
    <3> QED
      BY <3>5, <3>6 DEF SavedWell, Told, FailedFor
  <2>3. \A j \in DOMAIN bundles :
          /\ IsBundle(bundles[j]) /\ AnySeq(bundles[j].suites)
          /\ \A n, m \in DOMAIN bundles[j].suites :
               bundles[j].suites[n].key = bundles[j].suites[m].key => n = m
    BY DEF IInv, SavedInv
  <2>4. report' = <<>>
    BY <1>1, <1>3 DEF Idle
  <2> QED
    BY <1>7, <2>1, <2>2, <2>3, <2>4, <2>5, AnyEmpty DEF SavedInv
<1>13. SuiteInv' /\ FilesInv'
  BY <1>1 DEF IInv, SuiteInv, FilesInv
<1>14. CauseInv'
  BY <1>1 DEF IInv, CauseInv, BlockedForCause, ChecksOf
<1>15. TroubleInv'
  <2>1. FailedFor(current)'
    BY <1>1, <1>10 DEF IInv, TroubleInv, FailedFor
  <2>2. \A t \in trouble' : t.turn \in 1 .. turn /\ t.turn # turn
    BY <1>1, <1>3, <1>4, <1>9 DEF IInv, TroubleInv
  <2> QED
    BY <1>1, <2>1, <2>2 DEF TroubleInv
<1>16. CleanInv'
  BY <1>10 DEF CleanInv
<1>17. \A j, n : /\ Taken(j, n)' <=> Taken(j, n)
                 /\ Taken(j, n) => bundles'[j].suites = bundles[j].suites
  <2>1. SUFFICES ASSUME NEW j, NEW n
                 PROVE  /\ Taken(j, n)' <=> Taken(j, n)
                        /\ Taken(j, n) => bundles'[j].suites = bundles[j].suites
    OBVIOUS
  <2>2. CASE j = i
    BY <1>1, <1>2, <2>2 DEF Taken
  <2>3. CASE j # i
    BY <1>1, <1>6, <1>7, <2>3 DEF Taken
  <2> QED
    BY <2>2, <2>3
<1>18. MergeInv'
  BY <1>1, <1>10, <1>17, MergeGrows
<1>19. QueueInv'
  <2>1. AnySeq(queue')
    BY <1>1 DEF IInv, QueueInv
  <2>2. ASSUME queue # <<>> PROVE bundles'[bundle] = bundles[bundle]
    BY <1>2, <1>6, <2>2 DEF IInv, QueueInv
  <2> QED
    BY <1>1, <1>7, <2>1, <2>2 DEF IInv, QueueInv
<1> QED
  BY <1>11, <1>12, <1>13, <1>14, <1>15, <1>16, <1>18, <1>19 DEF IInv

LEMMA OpenBundleKeeps == ASSUME IInv, OpenBundle PROVE IInv'
<1>1. /\ phase = "merge" /\ phase' = phase /\ queue = <<>> /\ bundles' = bundles
      /\ UNCHANGED <<scenario, turn, report, suite, tools, full, cancelled, bundles, seen, trouble, finished>>
  BY DEF OpenBundle, shardVars
<1>2. PICK i \in left :
        /\ left' = left \ {i} /\ bundle' = i
        /\ CASE bundles[i].summary = "absent" -> UNCHANGED <<queue, merged>>
             [] bundles[i].summary = "torn" -> merged' = merged \cup {MergeRefusal(NoKey)} /\ UNCHANGED queue
             [] OTHER -> queue' = bundles[i].suites /\ UNCHANGED merged
  BY DEF OpenBundle
<1>3. i \in DOMAIN bundles /\ bundles[i].summary \in {"absent", "torn", "saved"} /\ AnySeq(bundles[i].suites)
  BY <1>1, <1>2 DEF IInv, PhaseInv, SavedInv
<1>4. /\ bundles[i].summary = "absent" => queue' = queue /\ merged' = merged
      /\ bundles[i].summary = "torn" => merged' = merged \cup {MergeRefusal(NoKey)} /\ queue' = queue
      /\ bundles[i].summary = "saved" => queue' = bundles[i].suites /\ merged' = merged
  BY <1>2
<1>5. Len(queue) = 0 /\ Len(bundles[i].suites) \in Nat /\ DOMAIN bundles[i].suites = 1 .. Len(bundles[i].suites)
  BY <1>1, <1>3, AnyEmpty, AnyLen
<1>6. \A j, n : Taken(j, n)' <=> Taken(j, n)
  <2>1. SUFFICES ASSUME NEW j, NEW n PROVE Taken(j, n)' <=> Taken(j, n)
    OBVIOUS
  <2>2. CASE j = i
    <3>1. ~Taken(j, n)
      BY <1>2, <2>2 DEF Taken
    <3>2. ASSUME Taken(j, n)' PROVE FALSE
      <4>1. /\ bundles[i].summary = "saved" /\ n \in 1 .. Len(bundles[i].suites)
            /\ n + Len(queue') <= Len(bundles[i].suites)
        BY <1>1, <1>2, <1>5, <2>2, <3>2 DEF Taken
      <4>2. Len(queue') = Len(bundles[i].suites)
        BY <1>4, <4>1
      <4> QED
        BY <1>5, <4>1, <4>2
    <3> QED
      BY <3>1, <3>2
  <2>3. CASE j # i
    <3>1. j \in DOMAIN bundles /\ n \in DOMAIN bundles[j].suites => n + Len(queue) <= Len(bundles[j].suites)
      <4>1. SUFFICES ASSUME j \in DOMAIN bundles, n \in DOMAIN bundles[j].suites
                     PROVE  n + Len(queue) <= Len(bundles[j].suites)
        OBVIOUS
      <4>2. AnySeq(bundles[j].suites)
        BY <4>1 DEF IInv, SavedInv
      <4>3. Len(bundles[j].suites) \in Nat /\ DOMAIN bundles[j].suites = 1 .. Len(bundles[j].suites)
        BY <4>2, AnyLen
      <4> QED
        BY <1>5, <4>1, <4>3
    <3> QED
      BY <1>1, <1>2, <2>3, <3>1 DEF Taken
  <2> QED
    BY <2>2, <2>3
<1>7. ASSUME NEW m \in merged' PROVE m \in merged \/ (m.status = "refused" /\ trouble' # {})
  <2>1. CASE bundles[i].summary = "torn"
    <3>1. trouble # {}
      BY <1>3, <2>1 DEF IInv, CleanInv
    <3>2. MergeRefusal(NoKey).status = "refused"
      BY DEF MergeRefusal
    <3> QED
      BY <1>1, <1>4, <1>7, <2>1, <3>1, <3>2
  <2>2. CASE bundles[i].summary # "torn"
    BY <1>3, <1>4, <2>2
  <2> QED
    BY <2>1, <2>2
<1>8. merged \subseteq merged'
  BY <1>3, <1>4
<1>9. MergeInv'
  BY <1>1, <1>6, <1>7, <1>8, MergeGrows
<1>10. QueueInv'
  <2>1. CASE bundles[i].summary = "saved"
    <3>1. PICK S : S = bundles[i].suites
      OBVIOUS
    <3>2. /\ queue' = S /\ bundle' = i /\ i \in DOMAIN bundles' /\ i \notin left'
          /\ bundles'[i].summary = "saved" /\ bundles'[i].suites = S /\ Len(S) \in Nat /\ AnySeq(S)
      BY <1>1, <1>2, <1>3, <1>4, <1>5, <2>1, <3>1
    <3>3. \A j \in 1 .. Len(S) : S[j] = S[Len(S) - Len(S) + j]
      BY <3>2
    <3> QED
      BY <3>2, <3>3 DEF QueueInv
  <2>2. CASE bundles[i].summary # "saved"
    <3>1. queue' = <<>>
      BY <1>1, <1>3, <1>4, <2>2
    <3> QED
      BY <3>1, AnyEmpty DEF QueueInv
  <2> QED
    BY <2>1, <2>2
<1>11. PhaseInv' /\ SavedInv' /\ SuiteInv' /\ CauseInv' /\ FilesInv' /\ TroubleInv' /\ CleanInv'
  <2>1. left' \subseteq left
    BY <1>2
  <2> QED
    BY <1>1, <2>1, MergeKeepsShards
<1> QED
  BY <1>9, <1>10, <1>11 DEF IInv

\* What a suite that a bundle holds says of itself is what a merge makes of it.
LEMMA SavedIsValid ==
  ASSUME NEW i, NEW s, SavedWell(i, s)
  PROVE  ValidReportSuite(s) /\ s.status = Recomputed(s.checks) /\ s.status \in Statuses
BY AnyLen, RecomputedType DEF SavedWell, SoundVerdict, ValidReportSuite

LEMMA MergeSuiteKeeps == ASSUME IInv, MergeSuite PROVE IInv'
<1>1. /\ phase = "merge" /\ phase' = phase /\ queue # <<>> /\ queue' = Tail(queue)
      /\ UNCHANGED <<scenario, turn, report, suite, tools, full, cancelled, bundles, trouble, finished>>
      /\ bundles' = bundles /\ left' = left /\ bundle' = bundle /\ trouble' = trouble
  BY DEF MergeSuite, shardVars
<1>2. PICK b, S, L : b = bundle /\ S = bundles[b].suites /\ L = Len(queue)
  OBVIOUS
<1>3. /\ b \in DOMAIN bundles /\ b \notin left /\ bundles[b].summary = "saved"
      /\ AnySeq(queue) /\ L <= Len(S) /\ \A j \in 1 .. L : queue[j] = S[Len(S) - L + j]
  BY <1>1, <1>2 DEF IInv, QueueInv
<1>4. AnySeq(S) /\ \A n \in DOMAIN S : SavedWell(b, S[n])
  BY <1>2, <1>3 DEF IInv, SavedInv
<1>5. Len(S) \in Nat /\ DOMAIN S = 1 .. Len(S) /\ L \in Nat /\ L # 0 /\ DOMAIN queue = 1 .. L
  BY <1>1, <1>2, <1>3, <1>4, AnyLen
<1>6. PICK p \in 1 .. Len(S) : p = Len(S) - L + 1
  BY <1>3, <1>5
<1>7. PICK s : s = S[p]
  OBVIOUS
<1>8. s = Head(queue)
  <2>1. Head(queue) = queue[1]
    BY <1>1, <1>3, HeadTailProperties DEF AnySeq
  <2>2. queue[1] = S[p]
    BY <1>3, <1>5, <1>6
  <2> QED
    BY <1>7, <2>1, <2>2
<1>9. PICK x : x = IF s.key \in seen \/ ~ValidReportSuite(s) THEN MergeRefusal(s.key)
                   ELSE CopyEvidence(bundles[b], s)
  OBVIOUS
<1>10. merged' = merged \cup {x} /\ seen' = seen \cup {s.key}
  BY <1>2, <1>8, <1>9 DEF MergeSuite
<1>11. SavedWell(b, s) /\ ValidReportSuite(s) /\ s.status \in Statuses
  BY <1>4, <1>5, <1>6, <1>7, SavedIsValid
<1>12. /\ x.key = s.key
       /\ x.status # "refused" => /\ x.status = s.status /\ s.key \notin seen
                                  /\ s.artifacts \subseteq bundles[b].full /\ x.artifacts = s.artifacts
       /\ x.status = "refused" => \/ s.key \in seen
                                  \/ s.status = "refused"
                                  \/ ~(s.artifacts \subseteq bundles[b].full)
                                  \/ ~bundles[b].logs
  <2>1. CASE s.key \in seen
    BY <1>9, <2>1 DEF MergeRefusal
  <2>2. CASE s.key \notin seen
    <3> DEFINE complete == /\ s.artifacts \subseteq bundles[b].full
                           /\ bundles[b].logs \/ \A i \in DOMAIN s.checks : ~s.checks[i].log
               y == [key |-> s.key, artifacts |-> s.artifacts \cap bundles[b].full,
                     status |-> IF complete THEN s.status ELSE "refused"]
    <3>1. x = y
      BY <1>9, <1>11, <2>2 DEF CopyEvidence
    <3>2. /\ y.key = s.key /\ y.artifacts = s.artifacts \cap bundles[b].full
          /\ y.status = IF complete THEN s.status ELSE "refused"
      OBVIOUS
    <3>3. complete => s.artifacts \subseteq bundles[b].full
      OBVIOUS
    <3>4. ~complete => ~(s.artifacts \subseteq bundles[b].full) \/ ~bundles[b].logs
      OBVIOUS
    <3> HIDE DEF complete, y
    <3> QED
      BY <2>2, <3>1, <3>2, <3>3, <3>4
  <2> QED
    BY <2>1, <2>2
<1>13. Len(queue') = L - 1 /\ AnySeq(queue') /\ \A j \in 1 .. (L - 1) : queue'[j] = queue[j + 1]
  <2>1. /\ Tail(queue) \in Seq(Range(queue)) /\ Len(Tail(queue)) = L - 1
        /\ \A j \in 1 .. (L - 1) : Tail(queue)[j] = queue[j + 1]
    BY <1>1, <1>2, <1>3, HeadTailProperties DEF AnySeq
  <2> QED
    BY <1>1, <2>1, SeqOfRange DEF AnySeq
<1>14. \A i, n : Taken(i, n)' <=> Taken(i, n) \/ (i = b /\ n = p)
  <2>1. SUFFICES ASSUME NEW i, NEW n PROVE Taken(i, n)' <=> Taken(i, n) \/ (i = b /\ n = p)
    OBVIOUS
  <2>2. CASE i = b
    <3>1. Taken(i, n) <=> n \in 1 .. Len(S) /\ n + L <= Len(S)
      BY <1>1, <1>2, <1>3, <1>5, <2>2 DEF Taken
    <3>2. Taken(i, n)' <=> n \in 1 .. Len(S) /\ n + (L - 1) <= Len(S)
      BY <1>1, <1>2, <1>3, <1>5, <1>13, <2>2 DEF Taken
    <3> QED
      BY <1>5, <1>6, <2>2, <3>1, <3>2
  <2>3. CASE i # b
    BY <1>1, <1>2, <2>3 DEF Taken
  <2> QED
    BY <2>2, <2>3
<1>15. b \in Nat /\ p \in Nat
  <2>1. AnySeq(bundles)
    BY DEF IInv, PhaseInv
  <2> QED
    BY <1>3, <1>5, <2>1, AnyLen
<1>16. ~Taken(b, p)
  BY <1>2, <1>5, <1>6 DEF Taken
<1>17. \A i, n : Taken(i, n) => i \in Nat /\ n \in Nat
  <2>1. SUFFICES ASSUME NEW i, NEW n, Taken(i, n) PROVE i \in Nat /\ n \in Nat
    OBVIOUS
  <2>2. i \in DOMAIN bundles /\ n \in DOMAIN bundles[i].suites /\ AnySeq(bundles) /\ AnySeq(bundles[i].suites)
    BY <2>1 DEF Taken, IInv, PhaseInv, SavedInv
  <2> QED
    BY <2>2, AnyLen
<1>18. Refusal' <=> Refusal \/ x.status = "refused"
  BY <1>10 DEF Refusal
<1>19. s.key \in seen <=> \E j, k \in Nat : Taken(j, k) /\ bundles[j].suites[k].key = s.key
  BY DEF IInv, MergeInv, TakenKey
<1>20. TakenTwice' <=> TakenTwice \/ s.key \in seen
  <2>1. ASSUME TakenTwice' PROVE TakenTwice \/ s.key \in seen
    <3>1. PICK i, n, j, k \in Nat : /\ Taken(i, n)' /\ Taken(j, k)' /\ <<i, n>> # <<j, k>>
                                    /\ bundles[i].suites[n].key = bundles[j].suites[k].key
      BY <1>1, <2>1 DEF TakenTwice
    <3>2. CASE i = b /\ n = p
      <4>1. Taken(j, k) /\ bundles[j].suites[k].key = s.key
        BY <1>2, <1>7, <1>14, <3>1, <3>2
      <4> QED
        BY <1>19, <4>1
    <3>3. CASE j = b /\ k = p
      <4>1. Taken(i, n) /\ bundles[i].suites[n].key = s.key
        BY <1>2, <1>7, <1>14, <3>1, <3>3
      <4> QED
        BY <1>19, <4>1
    <3>4. CASE Taken(i, n) /\ Taken(j, k)
      BY <3>1, <3>4 DEF TakenTwice
    <3> QED
      BY <1>14, <3>1, <3>2, <3>3, <3>4
  <2>2. ASSUME TakenTwice PROVE TakenTwice'
    <3>1. PICK i, n, j, k \in Nat : /\ Taken(i, n) /\ Taken(j, k) /\ <<i, n>> # <<j, k>>
                                    /\ bundles[i].suites[n].key = bundles[j].suites[k].key
      BY <2>2 DEF TakenTwice
    <3>2. Taken(i, n)' /\ Taken(j, k)'
      BY <1>14, <3>1
    <3> QED
      BY <1>1, <3>1, <3>2 DEF TakenTwice
  <2>3. ASSUME s.key \in seen PROVE TakenTwice'
    <3>1. PICK j, k \in Nat : Taken(j, k) /\ bundles[j].suites[k].key = s.key
      BY <1>19, <2>3
    <3>2. Taken(j, k)' /\ Taken(b, p)' /\ <<j, k>> # <<b, p>>
      BY <1>14, <1>16, <3>1
    <3>3. bundles'[j].suites[k].key = bundles'[b].suites[p].key
      BY <1>1, <1>2, <1>7, <3>1
    <3> QED
      BY <1>15, <3>2, <3>3 DEF TakenTwice
  <2> QED
    BY <2>1, <2>2, <2>3
<1>21. \A key : TakenKey(key)' <=> TakenKey(key) \/ key = s.key
  <2>1. SUFFICES ASSUME NEW key PROVE TakenKey(key)' <=> TakenKey(key) \/ key = s.key
    OBVIOUS
  <2>2. ASSUME TakenKey(key)' PROVE TakenKey(key) \/ key = s.key
    <3>1. PICK i, n \in Nat : Taken(i, n)' /\ bundles[i].suites[n].key = key
      BY <1>1, <2>2 DEF TakenKey
    <3> QED
      BY <1>2, <1>7, <1>14, <3>1 DEF TakenKey
  <2>3. ASSUME TakenKey(key) \/ key = s.key PROVE TakenKey(key)'
    <3>1. PICK i, n \in Nat : Taken(i, n)' /\ bundles[i].suites[n].key = key
      BY <1>2, <1>7, <1>14, <1>15, <2>3 DEF TakenKey
    <3> QED
      BY <1>1, <3>1 DEF TakenKey
  <2> QED
    BY <2>2, <2>3
<1>22. ASSUME NEW m \in merged'
       PROVE  /\ m.status \in Statuses
              /\ m.status = "failed" => \E t \in trouble : t.is = "failure"
              /\ m.status = "passed" =>
                   \E i, n \in Nat : /\ Taken(i, n)'
                                     /\ bundles[i].suites[n].key = m.key
                                     /\ bundles[i].suites[n].status = "passed"
                                     /\ bundles[i].suites[n].artifacts = m.artifacts
  <2>1. CASE m \in merged
    BY <1>14, <2>1 DEF IInv, MergeInv
  <2>2. CASE m = x
    <3>1. m.status \in Statuses
      BY <1>11, <1>12, <2>2 DEF Statuses
    <3>2. m.status = "failed" => \E t \in trouble : t.is = "failure"
      BY <1>11, <1>12, <2>2 DEF SavedWell, FailedFor
    <3>3. ASSUME m.status = "passed"
          PROVE  /\ Taken(b, p)' /\ bundles[b].suites[p].key = m.key
                 /\ bundles[b].suites[p].status = "passed" /\ bundles[b].suites[p].artifacts = m.artifacts
      BY <1>2, <1>7, <1>12, <1>14, <2>2, <3>3
    <3> QED
      BY <1>15, <3>1, <3>2, <3>3
  <2> QED
    BY <1>10, <2>1, <2>2
<1>23. (\E i, n \in Nat : Taken(i, n)' /\ bundles[i].suites[n].status = "refused") => Refusal'
  <2>1. SUFFICES ASSUME NEW i \in Nat, NEW n \in Nat, Taken(i, n)', bundles[i].suites[n].status = "refused"
                 PROVE  Refusal'
    OBVIOUS
  <2>2. CASE Taken(i, n)
    BY <1>18, <2>1, <2>2 DEF IInv, MergeInv
  <2>3. CASE i = b /\ n = p
    <3>1. s.status = "refused"
      BY <1>2, <1>7, <2>1, <2>3
    <3> QED
      BY <1>12, <1>18, <3>1
  <2> QED
    BY <1>14, <2>1, <2>2, <2>3
<1>24. TakenTwice' => Refusal'
  BY <1>12, <1>18, <1>20 DEF IInv, MergeInv
<1>25. trouble = {} /\ Refusal' => TakenTwice'
  <2>1. SUFFICES ASSUME trouble = {}, Refusal' PROVE TakenTwice'
    OBVIOUS
  <2>2. s.status = "passed" /\ s.artifacts \subseteq bundles[b].full /\ bundles[b].logs
    BY <1>2, <1>3, <1>5, <1>6, <1>7, <2>1 DEF IInv, CleanInv
  <2>3. CASE Refusal
    BY <1>1, <1>20, <2>1, <2>3 DEF IInv, MergeInv
  <2>4. CASE x.status = "refused"
    BY <1>12, <1>20, <2>2, <2>4
  <2> QED
    BY <1>18, <2>1, <2>3, <2>4
<1>26. \A key : key \in seen' <=> TakenKey(key)'
  BY <1>10, <1>21 DEF IInv, MergeInv
<1>27. \A key \in seen' : \E m \in merged' : m.key = key
  BY <1>10, <1>12 DEF IInv, MergeInv
<1>28. MergeInv'
  BY <1>1, <1>22, <1>23, <1>24, <1>25, <1>26, <1>27 DEF MergeInv
<1>29. QueueInv'
  <2>1. ASSUME NEW j \in 1 .. (L - 1) PROVE queue'[j] = S[Len(S) - (L - 1) + j]
    <3>1. j + 1 \in 1 .. L /\ Len(S) - L + (j + 1) = Len(S) - (L - 1) + j
      BY <1>5
    <3> QED
      BY <1>3, <1>13, <3>1
  <2>2. /\ bundle' = b /\ b \in DOMAIN bundles' /\ b \notin left'
        /\ bundles'[b].summary = "saved" /\ bundles'[b].suites = S
    BY <1>1, <1>2, <1>3
  <2>3. (L - 1) <= Len(S)
    BY <1>3, <1>5
  <2> QED
    BY <1>13, <2>1, <2>2, <2>3 DEF QueueInv
<1>30. PhaseInv' /\ SavedInv' /\ SuiteInv' /\ CauseInv' /\ FilesInv' /\ TroubleInv' /\ CleanInv'
  BY <1>1, MergeKeepsShards
<1> QED
  BY <1>28, <1>29, <1>30 DEF IInv

\* At the end every suite of every saved bundle has been taken over.
LEMMA AllTaken ==
  ASSUME left = {}, queue = <<>>, phase \in {"merge", "merged"}, SavedInv, PhaseInv
  PROVE  \A i, n : Taken(i, n) <=> /\ i \in DOMAIN bundles /\ bundles[i].summary = "saved"
                                   /\ n \in DOMAIN bundles[i].suites /\ i \in Nat /\ n \in Nat
<1> SUFFICES ASSUME NEW i, NEW n
             PROVE  Taken(i, n) <=> /\ i \in DOMAIN bundles /\ bundles[i].summary = "saved"
                                    /\ n \in DOMAIN bundles[i].suites /\ i \in Nat /\ n \in Nat
  OBVIOUS
<1>1. Len(queue) = 0
  BY AnyEmpty
<1>2. ASSUME i \in DOMAIN bundles, n \in DOMAIN bundles[i].suites
      PROVE  i \in Nat /\ n \in Nat /\ n + Len(queue) <= Len(bundles[i].suites)
  <2>1. AnySeq(bundles) /\ AnySeq(bundles[i].suites)
    BY <1>2 DEF SavedInv, PhaseInv
  <2>2. /\ DOMAIN bundles = 1 .. Len(bundles) /\ Len(bundles) \in Nat
        /\ DOMAIN bundles[i].suites = 1 .. Len(bundles[i].suites) /\ Len(bundles[i].suites) \in Nat
    BY <2>1, AnyLen
  <2> QED
    BY <1>1, <1>2, <2>2
<1> QED
  BY <1>2 DEF Taken

LEMMA SavedKeysAre ==
  ASSUME NEW i
  PROVE  \A key : key \in SavedKeys(i) <=>
           bundles[i].summary = "saved" /\ \E n \in DOMAIN bundles[i].suites : bundles[i].suites[n].key = key
BY DEF SavedKeys, Range

LEMMA EndMergeKeeps == ASSUME IInv, EndMerge PROVE IInv'
<1>1. /\ phase = "merge" /\ phase' = "merged" /\ queue = <<>> /\ left = {}
      /\ UNCHANGED <<scenario, turn, report, suite, tools, full, cancelled, bundles, trouble, finished>>
      /\ UNCHANGED <<left, bundle, queue, seen>> /\ bundles' = bundles /\ scenario' = scenario /\ trouble' = trouble
  BY DEF EndMerge, shardVars
<1> DEFINE absent == {MergeRefusal(key) : key \in scenario.expect \ seen}
           added == absent \cup (IF AllAbsent THEN {MergeRefusal(NoKey)} ELSE {})
<1>2. merged' = merged \cup added
  BY DEF EndMerge, AllAbsent
<1>3. \A m \in added : m.status = "refused"
  BY DEF MergeRefusal
<1>4. \A i, n : Taken(i, n)' <=> Taken(i, n)
  BY <1>1 DEF Taken
<1>5. /\ \A key : TakenKey(key)' <=> TakenKey(key)
      /\ TakenTwice' <=> TakenTwice
  BY <1>1, <1>4 DEF TakenKey, TakenTwice
<1>6. AllSaved' = AllSaved /\ AllAbsent' = AllAbsent
  BY <1>1 DEF AllSaved, SavedKeys, AllAbsent
<1>7. Refusal' <=> Refusal \/ added # {}
  BY <1>2, <1>3 DEF Refusal
<1>8. ASSUME scenario.expect \subseteq AllSaved PROVE absent = {}
  <2>1. SUFFICES ASSUME NEW key \in scenario.expect PROVE key \in seen
    OBVIOUS
  <2>2. PICK i \in DOMAIN bundles : key \in SavedKeys(i)
    BY <1>8 DEF AllSaved
  <2>3. PICK n \in DOMAIN bundles[i].suites : bundles[i].summary = "saved" /\ bundles[i].suites[n].key = key
    BY <2>2, SavedKeysAre
  <2>4. i \in Nat /\ n \in Nat
    <3>1. AnySeq(bundles) /\ AnySeq(bundles[i].suites)
      BY DEF IInv, SavedInv, PhaseInv
    <3> QED
      BY <3>1, AnyLen
  <2>5. Taken(i, n)
    BY <1>1, <2>3, <2>4, AllTaken DEF IInv
  <2> QED
    BY <2>3, <2>4, <2>5 DEF TakenKey, IInv, MergeInv
<1>9. trouble = {} /\ Refusal' => TakenTwice \/ ~(scenario.expect \subseteq AllSaved) \/ AllAbsent
  <2>1. SUFFICES ASSUME trouble = {}, added # {} PROVE ~(scenario.expect \subseteq AllSaved) \/ AllAbsent
    BY <1>1, <1>7 DEF IInv, MergeInv
  <2> QED
    BY <1>8, <2>1
<1>10. Refusal' \/ scenario.expect \subseteq seen
  <2>1. ASSUME NEW key \in scenario.expect, key \notin seen PROVE added # {}
    BY <2>1
  <2> HIDE DEF added, absent
  <2> QED
    BY <1>7, <2>1
<1> HIDE DEF added, absent
<1>11. ASSUME NEW m \in merged'
       PROVE  /\ m.status \in Statuses
              /\ m.status = "failed" => \E t \in trouble : t.is = "failure"
              /\ m.status = "passed" =>
                   \E i, n \in Nat : /\ Taken(i, n)
                                     /\ bundles[i].suites[n].key = m.key
                                     /\ bundles[i].suites[n].status = "passed"
                                     /\ bundles[i].suites[n].artifacts = m.artifacts
  <2>1. CASE m \in merged
    BY <2>1 DEF IInv, MergeInv
  <2>2. CASE m \in added
    BY <1>3, <2>2 DEF Statuses
  <2> QED
    BY <1>2, <1>11, <2>1, <2>2
<1>12. (\E i, n \in Nat : Taken(i, n) /\ bundles[i].suites[n].status = "refused") => Refusal'
  BY <1>7 DEF IInv, MergeInv
<1>13. TakenTwice => Refusal'
  BY <1>7 DEF IInv, MergeInv
<1>14. /\ \A key : key \in seen <=> TakenKey(key)
       /\ \A key \in seen : \E m \in merged' : m.key = key
  BY <1>2 DEF IInv, MergeInv
<1>15. MergeInv'
  BY <1>1, <1>4, <1>5, <1>6, <1>9, <1>10, <1>11, <1>12, <1>13, <1>14 DEF MergeInv
<1>16. QueueInv'
  BY <1>1, AnyEmpty DEF QueueInv
<1>17. PhaseInv' /\ SavedInv' /\ SuiteInv' /\ CauseInv' /\ FilesInv' /\ TroubleInv' /\ CleanInv'
  BY <1>1, MergeKeepsShards
<1> QED
  BY <1>15, <1>16, <1>17 DEF IInv
-----------------------------------------------------------------------------
(***************************************************************************)
(* The invariant holds in every state that the program reaches.            *)
(***************************************************************************)
LEMMA InitKeeps == ASSUME Init PROVE IInv
<1>1. /\ scenario \in Scenarios /\ phase = "select" /\ turn = 1 /\ Idle
      /\ bundles = <<>> /\ left = {} /\ bundle = 0 /\ queue = <<>> /\ merged = {} /\ seen = {}
      /\ trouble = {}
  BY DEF Init, Idle
<1>2. /\ AnySeq(<<>>) /\ Len(<<>>) = 0 /\ DOMAIN <<>> = {}
  BY AnyEmpty
<1>3. report = <<>> /\ current = NewSuite /\ broken = {} /\ ~cancelled
  BY <1>1 DEF Idle
<1>4. PhaseInv
  <2>1. scenario.shards # <<>> /\ scenario.shards \in Seq([profile : STRING, selected : Seq(STRING), cell : CellsAsked])
    BY <1>1, ScenariosAssumption
  <2>2. Len(scenario.shards) \in Nat /\ Len(scenario.shards) # 0
    BY <2>1, EmptySeq, LenProperties
  <2> QED
    BY <1>1, <1>2, <2>2 DEF PhaseInv
<1>5. SavedInv
  BY <1>1, <1>2, <1>3 DEF SavedInv
<1>6. IsSuite(current) /\ current.status = "passed" /\ current.artifacts = {}
  BY <1>3, NewSuiteSound DEF NewSuite
<1>7. SuiteInv /\ FilesInv
  BY <1>1, <1>6 DEF SuiteInv, FilesInv
<1>8. CauseInv
  BY <1>3, IdleCause DEF CauseInv
<1>9. TroubleInv
  BY <1>1, <1>6 DEF TroubleInv, FailedFor
<1>10. CleanInv
  BY <1>1, <1>2, <1>3, <1>6 DEF CleanInv
<1>11. QueueInv /\ MergeInv
  BY <1>1, MergeIdle
<1> QED
  BY <1>4, <1>5, <1>7, <1>8, <1>9, <1>10, <1>11 DEF IInv

\* Every action that makes a call, by the lemma on what it does.
LEMMA CallsKeep ==
  ASSUME IInv, RunsWell \/ RunsBadly \/ RunsCancelled \/ CannotCreate \/ ReuseTool \/ ReadArtifact \/ Ask \/ BlockGate
  PROVE  IInv'
<1>1. phase = "suite" /\ pc \in DOMAIN Calls
  BY DEF RunsWell, RunsBadly, RunsCancelled, CannotCreate, ReuseTool, ReadArtifact, Ask, BlockGate, Running, Doing
<1>2. SuiteSetting
  BY <1>1, SuiteSettingHolds
<1>3. CallFits
  BY <1>1, <1>2, CallsType DEF CallFits, Call, IInv, SuiteInv
<1>4. CallStep
  BY <1>3, RunsWellStep, RunsBadlyStep, RunsCancelledStep, CannotCreateStep, ReuseToolStep,
     ReadArtifactStep, AskStep, BlockGateStep
<1> QED
  BY <1>4, CallKeeps

LEMMA StutterKeeps == ASSUME IInv, UNCHANGED vars PROVE IInv'
<1>1. /\ UNCHANGED <<scenario, phase, turn, report, current, pc, done, built, broken, full, cancelled>>
      /\ UNCHANGED <<bundles, left, bundle, queue, merged, seen, trouble, finished>>
  BY DEF vars, shardVars, mergeVars, suite, tools
<1>2. /\ Shard' = Shard /\ Ids' = Ids /\ Calls' = Calls /\ Key' = Key /\ \A n : KeyAt(n)' = KeyAt(n)
  BY <1>1, ShardSame DEF SameShard
<1>3. PhaseInv'
  <2>1. Idle' <=> Idle
    BY <1>1 DEF Idle
  <2> QED
    BY <1>1, <1>2, <2>1 DEF IInv, PhaseInv
<1>4. SavedInv'
  <2>2. \A n \in DOMAIN report : SavedWell(turn, report[n])' /\ report[n].key = KeyAt(n)
    <3>1. ASSUME NEW n \in DOMAIN report PROVE SavedWell(turn, report[n])' /\ report[n].key = KeyAt(n)
      <4>1. SavedWell(turn, report[n]) /\ report[n].key = KeyAt(n)
        BY DEF IInv, SavedInv
      <4> QED
        BY <1>1, <4>1 DEF SavedWell, Told, FailedFor
    <3> QED
      BY <3>1
  <2>3. ASSUME NEW i \in DOMAIN bundles, NEW n \in DOMAIN bundles[i].suites
        PROVE  SavedWell(i, bundles[i].suites[n])'
    <3>1. SavedWell(i, bundles[i].suites[n])
      BY DEF IInv, SavedInv
    <3> QED
      BY <1>1, <3>1 DEF SavedWell, Told, FailedFor
  <2>4. /\ AnySeq(report)
        /\ \A i \in DOMAIN bundles :
             /\ IsBundle(bundles[i]) /\ AnySeq(bundles[i].suites)
             /\ bundles[i].summary \in {"absent", "torn", "saved"}
             /\ \A n, m \in DOMAIN bundles[i].suites :
                  bundles[i].suites[n].key = bundles[i].suites[m].key => n = m
    BY DEF IInv, SavedInv
  <2> QED
    BY <1>1, <1>2, <2>2, <2>3, <2>4 DEF SavedInv
<1>5. SuiteInv' /\ FilesInv'
  BY <1>1, <1>2 DEF IInv, SuiteInv, FilesInv
<1>6. CauseInv'
  BY <1>1 DEF IInv, CauseInv, BlockedForCause, ChecksOf
<1>7. TroubleInv'
  <2>1. Pending' <=> Pending
    BY <1>1, <1>2 DEF Pending, Missing
  <2>2. FailedFor(current)'
    BY <1>1 DEF IInv, TroubleInv, FailedFor
  <2> QED
    BY <1>1, <1>2, <2>1, <2>2 DEF IInv, TroubleInv
<1>8. CleanInv'
  BY <1>1, <1>2 DEF IInv, CleanInv
<1>9. QueueInv'
  BY <1>1 DEF IInv, QueueInv
<1>10. MergeInv'
  BY <1>1 DEF IInv, MergeInv, Taken, TakenKey, TakenTwice, Refusal, AllSaved, AllAbsent, SavedKeys
<1> QED
  BY <1>3, <1>4, <1>5, <1>6, <1>7, <1>8, <1>9, <1>10 DEF IInv

LEMMA NextKeeps == ASSUME IInv, [Next]_vars PROVE IInv'
<1>1. CASE Start
  BY <1>1, StartKeeps
<1>2. CASE Cancel
  BY <1>2, CancelKeeps
<1>3. CASE Kill
  BY <1>3, KillKeeps
<1>4. CASE TearSummary
  BY <1>4, TearSummaryKeeps
<1>5. CASE SkipSuite
  BY <1>5, SkipSuiteKeeps
<1>6. CASE Save
  BY <1>6, SaveKeeps
<1>7. CASE PassOver
  BY <1>7, PassOverKeeps
<1>8. CASE RunsWell \/ RunsBadly \/ RunsCancelled \/ CannotCreate \/ ReuseTool \/ ReadArtifact \/ Ask \/ BlockGate
  BY <1>8, CallsKeep
<1>9. CASE Lose
  BY <1>9, LoseKeeps
<1>10. CASE OpenBundle
  BY <1>10, OpenBundleKeeps
<1>11. CASE MergeSuite
  BY <1>11, MergeSuiteKeeps
<1>12. CASE EndMerge
  BY <1>12, EndMergeKeeps
<1>13. CASE UNCHANGED vars
  BY <1>13, StutterKeeps
<1> QED
  BY <1>1, <1>2, <1>3, <1>4, <1>5, <1>6, <1>7, <1>8, <1>9, <1>10, <1>11, <1>12, <1>13 DEF Next

\* Whatever the faults, a saved suite tells what was noted in it, what goes missing
\* is asked for, and the merge knows every suite that it took over (runSuite,
\* execute, save and mergeReports).
THEOREM RunIsSound == Spec => []IInv
<1>1. Init => IInv
  BY InitKeeps
<1>2. IInv /\ [Next]_vars => IInv'
  BY NextKeeps
<1> QED
  BY <1>1, <1>2, PTL DEF Spec
-----------------------------------------------------------------------------
(***************************************************************************)
(* What follows from the invariant.                                        *)
(***************************************************************************)
LEMMA SavedGives == ASSUME IInv PROVE SavedVerdictsAreValid
<1>1. ASSUME NEW s \in Range(report) PROVE ValidReportSuite(s) /\ s.status = Recomputed(s.checks)
  <2>1. PICK n \in DOMAIN report : s = report[n]
    BY <1>1 DEF Range
  <2>2. SavedWell(turn, s)
    BY <2>1 DEF IInv, SavedInv
  <2> QED
    BY <2>2, SavedIsValid
<1>2. ASSUME NEW i \in DOMAIN bundles, NEW s \in Range(bundles[i].suites)
      PROVE  ValidReportSuite(s) /\ s.status = Recomputed(s.checks)
  <2>1. PICK n \in DOMAIN bundles[i].suites : s = bundles[i].suites[n]
    BY <1>2 DEF Range
  <2>2. SavedWell(i, s)
    BY <2>1 DEF IInv, SavedInv
  <2> QED
    BY <2>2, SavedIsValid
<1> QED
  BY <1>1, <1>2 DEF SavedVerdictsAreValid

LEMMA VerdictIs ==
  ASSUME IInv
  PROVE  /\ MergedVerdict = "passed" <=> \A m \in merged : m.status = "passed"
         /\ MergedVerdict = "failed" <=> (\E m \in merged : m.status = "failed") /\ ~Refusal
         /\ MergedVerdict = "refused" <=> Refusal
<1>1. \A m \in merged : m.status \in Statuses
  BY DEF IInv, MergeInv
<1> QED
  BY <1>1 DEF MergedVerdict, CombineStatus, Refusal, Statuses

LEMMA SameBundle ==
  ASSUME IInv, phase = "merged", ~TakenTwice,
         NEW i \in DOMAIN bundles, NEW j \in DOMAIN bundles, NEW key \in SavedKeys(i) \cap SavedKeys(j)
  PROVE  i = j
<1>1. left = {} /\ queue = <<>>
  BY DEF IInv, MergeInv
<1>2. PICK n \in DOMAIN bundles[i].suites : bundles[i].summary = "saved" /\ bundles[i].suites[n].key = key
  BY SavedKeysAre
<1>3. PICK k \in DOMAIN bundles[j].suites : bundles[j].summary = "saved" /\ bundles[j].suites[k].key = key
  BY SavedKeysAre
<1>4. i \in Nat /\ n \in Nat /\ j \in Nat /\ k \in Nat
  <2>1. AnySeq(bundles) /\ AnySeq(bundles[i].suites) /\ AnySeq(bundles[j].suites)
    BY DEF IInv, SavedInv, PhaseInv
  <2> QED
    BY <2>1, AnyLen
<1>5. Taken(i, n) /\ Taken(j, k)
  BY <1>1, <1>2, <1>3, <1>4, AllTaken DEF IInv
<1> QED
  BY <1>2, <1>3, <1>4, <1>5 DEF TakenTwice

LEMMA EarnedGives == ASSUME IInv PROVE PassedMergeIsEarned
<1> SUFFICES ASSUME phase = "merged", MergedVerdict = "passed"
             PROVE  /\ scenario.expect \subseteq {s.key : s \in merged}
                    /\ \A s \in merged :
                         /\ s.artifacts = Evidence(s.key)
                         /\ \E i \in DOMAIN bundles :
                              /\ {j \in DOMAIN bundles : s.key \in SavedKeys(j)} = {i}
                              /\ <<i, s.key>> \in finished
                              /\ \A t \in trouble : t.turn # i \/ t.key # s.key
  BY DEF PassedMergeIsEarned
<1>1. \A m \in merged : m.status = "passed"
  BY VerdictIs
<1>2. ~Refusal /\ ~TakenTwice /\ left = {} /\ queue = <<>>
  BY <1>1 DEF Refusal, IInv, MergeInv
<1>3. scenario.expect \subseteq {s.key : s \in merged}
  BY <1>2 DEF IInv, MergeInv
<1>4. ASSUME NEW m \in merged
      PROVE  /\ m.artifacts = Evidence(m.key)
             /\ \E i \in DOMAIN bundles :
                  /\ {j \in DOMAIN bundles : m.key \in SavedKeys(j)} = {i}
                  /\ <<i, m.key>> \in finished
                  /\ \A t \in trouble : t.turn # i \/ t.key # m.key
  <2>1. PICK i, n \in Nat : /\ Taken(i, n)
                            /\ bundles[i].suites[n].key = m.key
                            /\ bundles[i].suites[n].status = "passed"
                            /\ bundles[i].suites[n].artifacts = m.artifacts
    BY <1>1, <1>4 DEF IInv, MergeInv
  <2>2. i \in DOMAIN bundles /\ bundles[i].summary = "saved" /\ n \in DOMAIN bundles[i].suites
    BY <2>1 DEF Taken
  <2>3. SavedWell(i, bundles[i].suites[n])
    BY <2>2 DEF IInv, SavedInv
  <2>4. /\ m.artifacts = Evidence(m.key) /\ <<i, m.key>> \in finished
        /\ \A t \in trouble : t.turn # i \/ t.key # m.key
    BY <2>1, <2>3 DEF SavedWell, Told
  <2>5. m.key \in SavedKeys(i)
    BY <2>1, <2>2, SavedKeysAre
  <2>6. ASSUME NEW j \in DOMAIN bundles, m.key \in SavedKeys(j) PROVE j = i
    BY <1>2, <2>2, <2>5, <2>6, SameBundle
  <2>7. {j \in DOMAIN bundles : m.key \in SavedKeys(j)} = {i}
    BY <2>2, <2>5, <2>6
  <2> QED
    BY <2>2, <2>4, <2>7
<1> QED
  BY <1>3, <1>4

LEMMA CauseGives == ASSUME IInv PROVE VerdictHasItsCause
<1> SUFFICES ASSUME phase = "merged" PROVE VerdictHasItsCause
  BY DEF VerdictHasItsCause
<1>1. left = {} /\ queue = <<>>
  BY DEF IInv, MergeInv
<1>2. ASSUME MergedVerdict = "failed"
      PROVE  /\ \E t \in trouble : t.is = "failure"
             /\ \A t \in trouble : t.is = "refusal" => t.key \notin SavedKeys(t.turn)
  <2>1. (\E m \in merged : m.status = "failed") /\ ~Refusal
    BY <1>2, VerdictIs
  <2>2. ASSUME NEW t \in trouble, t.is = "refusal", t.key \in SavedKeys(t.turn) PROVE FALSE
    <3>1. PICK i : i = t.turn
      OBVIOUS
    <3>2. i \in DOMAIN bundles
      <4>1. i \in 1 .. turn /\ i # turn /\ AnySeq(bundles) /\ Len(bundles) = turn - 1 /\ turn \in Nat
        BY <2>2, <3>1 DEF IInv, TroubleInv, PhaseInv
      <4> QED
        BY <4>1, AnyLen
    <3>3. PICK n \in DOMAIN bundles[i].suites : bundles[i].summary = "saved" /\ bundles[i].suites[n].key = t.key
      BY <2>2, <3>1, SavedKeysAre
    <3>4. bundles[i].suites[n].status = "refused"
      <4>1. SavedWell(i, bundles[i].suites[n])
        BY <3>2, <3>3 DEF IInv, SavedInv
      <4> QED
        BY <2>2, <3>1, <3>3, <4>1 DEF SavedWell, Told
    <3>5. i \in Nat /\ n \in Nat
      <4>1. AnySeq(bundles) /\ AnySeq(bundles[i].suites)
        BY <3>2 DEF IInv, SavedInv, PhaseInv
      <4> QED
        BY <3>2, <3>3, <4>1, AnyLen
    <3>6. Taken(i, n)
      BY <1>1, <3>2, <3>3, <3>5, AllTaken DEF IInv
    <3> QED
      BY <2>1, <3>4, <3>5, <3>6 DEF IInv, MergeInv
  <2> QED
    BY <2>1, <2>2 DEF IInv, MergeInv
<1>3. ASSUME MergedVerdict = "refused"
      PROVE  \/ trouble # {}
             \/ ~(scenario.expect \subseteq UNION {SavedKeys(i) : i \in DOMAIN bundles})
             \/ \E i, j \in DOMAIN bundles : i # j /\ SavedKeys(i) \cap SavedKeys(j) # {}
             \/ \A i \in DOMAIN bundles : bundles[i].summary = "absent"
  <2>1. trouble # {} \/ TakenTwice \/ ~(scenario.expect \subseteq AllSaved) \/ AllAbsent
    BY <1>3, VerdictIs DEF IInv, MergeInv
  <2>2. CASE TakenTwice
    <3>1. PICK i, n, j, k \in Nat : /\ Taken(i, n) /\ Taken(j, k) /\ <<i, n>> # <<j, k>>
                                    /\ bundles[i].suites[n].key = bundles[j].suites[k].key
      BY <2>2 DEF TakenTwice
    <3>2. /\ i \in DOMAIN bundles /\ n \in DOMAIN bundles[i].suites /\ bundles[i].summary = "saved"
          /\ j \in DOMAIN bundles /\ k \in DOMAIN bundles[j].suites /\ bundles[j].summary = "saved"
      BY <3>1 DEF Taken
    <3>3. i # j
      BY <3>1, <3>2 DEF IInv, SavedInv
    <3>4. bundles[i].suites[n].key \in SavedKeys(i) \cap SavedKeys(j)
      BY <3>1, <3>2, SavedKeysAre
    <3> QED
      BY <3>2, <3>3, <3>4
  <2> QED
    BY <2>1, <2>2 DEF AllSaved, AllAbsent
<1> QED
  BY <1>2, <1>3 DEF VerdictHasItsCause

\* A merge passes only if every expected suite is there, and each was run to its
\* end by exactly one shard, with nothing wrong in it and all its evidence.
THEOREM MergeIsEarned == Spec => []PassedMergeIsEarned
BY RunIsSound, EarnedGives, PTL

\* A merge fails only for a check that failed, and refuses only for a cause that
\* was noted or that can be read off the bundles.
THEOREM VerdictIsCaused == Spec => []VerdictHasItsCause
BY RunIsSound, CauseGives, PTL

\* Every suite that the runner saves is one that validReportSuite accepts, with
\* the status that its checks amount to.
THEOREM SavedAreValid == Spec => []SavedVerdictsAreValid
BY RunIsSound, SavedGives, PTL

\* A check is blocked only after a check that failed or was refused, in its suite
\* or, for a tool, in an earlier one.
THEOREM BlocksAreCaused == Spec => []BlockedForCause
<1>1. IInv => BlockedForCause
  BY DEF IInv, CauseInv
<1> QED
  BY <1>1, RunIsSound, PTL
=============================================================================
