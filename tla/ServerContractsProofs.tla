----------------------- MODULE ServerContractsProofs -----------------------
(***************************************************************************)
(* Theorems about ServerContracts, for any number of packages, overlapping *)
(* sessions, upgrades and edits: saved contracts name one server version;  *)
(* type correctness; a session which succeeds has given every example to   *)
(* exactly one query; a replay reproduces its capture; and fresh contracts *)
(* are accepted.                                                           *)
(***************************************************************************)
EXTENDS ServerContracts, FiniteSetTheorems, TLAPS

\* The answer came from a later server than the report says.
Off(report) == report.columns.server.version # report.version

\* All reports name version v, were given by servers of versions v to upper,
\* and at most one of them by a later one than v.
Agree(reports, v, upper) ==
  /\ \A k \in DOMAIN reports :
       /\ reports[k].version = v
       /\ reports[k].columns.server.version \in v..upper
  /\ \A k, l \in DOMAIN reports : Off(reports[k]) /\ Off(reports[l]) => k = l

\* The reports a session has obtained from a server that is now at version upper.
Live(me, upper) ==
  /\ me.version \in 0..upper
  /\ me.version = 0 => DOMAIN me.reports = {}
  /\ Agree(me.reports, me.version, upper)
  /\ me.pc = "describe" =>
       /\ me.asked \in 1..upper
       /\ \A k \in DOMAIN me.reports : me.reports[k].columns.server.version <= me.asked

Analysing == {"load", "resolve", "lookup", "version", "describe"}

\* How far a session is, by how it was called.
Called(me, o, upper) ==
  /\ ~(o.input /\ o.output)
  /\ me.pc \in {"version", "describe"} => ~o.input
  /\ me.pc = "lookup" => o.input
  /\ me.pc \in Analysing \cup {"finish"} => me.at \in Packages
  /\ me.pc = "commit" => me.at \in 1..(N + 1) /\ (me.at = N + 1 => o.output)
  /\ ~o.input => Live(me, upper)

SessionInv(s) ==
  /\ DOMAIN session[s] = DOMAIN Fresh
  /\ Active(s) => \E o \in Options : /\ session[s].options = {o}
                                     /\ Called(session[s], o, server.version)

VersionInv ==
  /\ DOMAIN session = Sessions
  /\ server \in [version: 1..MaxVersion, tables: Tables]
  /\ \A s \in Sessions : SessionInv(s)
  /\ \A c \in contracts : \E v \in 1..MaxVersion : Agree(c.reports, v, MaxVersion)
-----------------------------------------------------------------------------
\* The one element of a singleton.
LEMMA TheOnly == \A x : The({x}) = x
  BY DEF The

\* What resolving a package changes of a session.
LEMMA ResolvedFields ==
  ASSUME NEW me, DOMAIN me = DOMAIN Fresh, NEW schema, NEW text, NEW report
  PROVE  LET y == Resolved(me, schema, text, report) IN
         /\ DOMAIN y = DOMAIN Fresh
         /\ y.reports = me.reports /\ y.version = me.version /\ y.options = me.options
         /\ y.at = (IF me.at < N THEN me.at + 1 ELSE 1)
         /\ y.pc = (IF me.at < N THEN "resolve" ELSE "finish")
  BY DEF Resolved, Fresh

\* A set whose elements are all equal has at most one.
LEMMA AllEqual ==
  ASSUME NEW S, \A x, y \in S : x = y
  PROVE  Cardinality(S) <= 1
<1>1. CASE S = {}
  BY <1>1, FS_EmptySet
<1>2. CASE S # {}
  <2>1. PICK x \in S : S = {x}
    BY <1>2
  <2> QED
    BY <2>1, FS_Singleton
<1> QED
  BY <1>1, <1>2
-----------------------------------------------------------------------------
\* Reports that agree stay so when the server is upgraded.
LEMMA AgreeGrows ==
  ASSUME NEW reports, NEW v \in Nat, NEW u \in Nat, NEW w \in Nat, u <= w, Agree(reports, v, u)
  PROVE  Agree(reports, v, w)
  BY DEF Agree

\* So does all that is known of a session.
LEMMA CalledGrows ==
  ASSUME NEW me, NEW o, NEW u \in Nat, NEW w \in Nat, u <= w, Called(me, o, u)
  PROVE  Called(me, o, w)
<1>1. Live(me, u) => Live(me, w)
  <2> SUFFICES ASSUME Live(me, u) PROVE Live(me, w)
    OBVIOUS
  <2>1. me.version \in 0..u /\ me.version \in Nat
    BY DEF Live
  <2>2. Agree(me.reports, me.version, w)
    BY <2>1, AgreeGrows DEF Live
  <2> QED
    BY <2>1, <2>2 DEF Live
<1> QED
  BY <1>1 DEF Called

\* A session that keeps its reports, and is not about to send a DESCRIBE, keeps
\* what is known of them.
LEMMA LiveKept ==
  ASSUME NEW me, NEW y, NEW u, Live(me, u), y.reports = me.reports, y.version = me.version,
         y.pc # "describe"
  PROVE  Live(y, u)
  BY DEF Live

\* When one session moves, only what it becomes has to be looked at.
LEMMA OneMoves ==
  ASSUME VersionInv, NEW s \in Sessions, NEW me, session' = [session EXCEPT ![s] = me],
         server' = server, DOMAIN me = DOMAIN Fresh,
         me.pc # "idle" => \E o \in Options : me.options = {o} /\ Called(me, o, server.version)
  PROVE  DOMAIN session' = Sessions /\ \A t \in Sessions : SessionInv(t)'
<1>1. DOMAIN session' = Sessions
  BY DEF VersionInv
<1>2. ASSUME NEW t \in Sessions PROVE SessionInv(t)'
  <2>1. CASE t = s
    BY <2>1 DEF VersionInv, SessionInv, Active
  <2>2. CASE t # s
    BY <2>2 DEF VersionInv, SessionInv, Active
  <2> QED
    BY <2>1, <2>2
<1> QED
  BY <1>1, <1>2

\* A session may end at any time.
LEMMA OneEnds ==
  ASSUME VersionInv, NEW s \in Sessions, NEW outcome, End(s, outcome), server' = server
  PROVE  DOMAIN session' = Sessions /\ \A t \in Sessions : SessionInv(t)'
<1>1. Fresh.pc = "idle"
  BY DEF Fresh
<1>2. session' = [session EXCEPT ![s] = Fresh]
  BY DEF End
<1> QED
  BY <1>1, <1>2, OneMoves

\* What every step but Save leaves to show.
LEMMA InvKept ==
  ASSUME VersionInv, server' = server, contracts' = contracts,
         DOMAIN session' = Sessions, \A t \in Sessions : SessionInv(t)'
  PROVE  VersionInv'
  BY DEF VersionInv

\* The options of an active session and what is known of it.
LEMMA ActiveSession ==
  ASSUME VersionInv, NEW s \in Sessions, Active(s)
  PROVE  \E o \in Options : /\ session[s].options = {o} /\ OptionsOf(s) = o
                           /\ DOMAIN session[s] = DOMAIN Fresh
                           /\ Called(session[s], o, server.version)
<1>1. PICK o \in Options : session[s].options = {o} /\ Called(session[s], o, server.version)
  BY DEF VersionInv, SessionInv
<1>2. OptionsOf(s) = o
  BY <1>1, TheOnly DEF OptionsOf
<1>3. DOMAIN session[s] = DOMAIN Fresh
  BY DEF VersionInv, SessionInv
<1> QED
  BY <1>1, <1>2, <1>3
-----------------------------------------------------------------------------
\* A session starts with no reports, or with those of a replay.
LEMMA OpenKeeps ==
  ASSUME VersionInv, NEW s \in Sessions, NEW o \in Options, Open(s, o)
  PROVE  VersionInv'
<1>0. UNCHANGED <<server, contracts>>
  BY DEF Open, world, disk
<1>1. CASE (o.output /\ (o.input \/ o.check)) \/ (o.input /\ contracts = {})
  <2>1. End(s, "error")
    BY <1>1 DEF Open
  <2> QED
    BY <1>0, <2>1, OneEnds, InvKept
<1>2. CASE ~((o.output /\ (o.input \/ o.check)) \/ (o.input /\ contracts = {}))
  <2> DEFINE saved == IF o.input THEN contracts ELSE {}
             me == [Fresh EXCEPT !.pc = "load", !.options = {o}, !.saved = saved,
                                 !.reports = IF o.input THEN The(saved).reports ELSE Empty]
  <2>1. session' = [session EXCEPT ![s] = me]
    BY <1>2 DEF Open
  <2>2. /\ DOMAIN me = DOMAIN Fresh /\ me.options = {o} /\ me.pc = "load" /\ me.at = 1
        /\ me.version = 0 /\ (~o.input => me.reports = Empty)
    BY DEF Fresh
  <2>3. 1 \in Packages /\ server.version \in Nat
    BY ContractsAssumption DEF Packages, VersionInv
  <2>4. ASSUME ~o.input PROVE Live(me, server.version)
    <3>1. DOMAIN me.reports = {}
      BY <2>2, <2>4 DEF Empty
    <3> QED
      BY <2>2, <2>3, <3>1 DEF Live, Agree
  <2>5. Called(me, o, server.version)
    BY <1>2, <2>2, <2>3, <2>4 DEF Called, Analysing
  <2> HIDE DEF me
  <2>6. DOMAIN session' = Sessions /\ \A t \in Sessions : SessionInv(t)'
    BY <1>0, <2>1, <2>2, <2>5, OneMoves
  <2> QED
    BY <1>0, <2>6, InvKept
<1> QED
  BY <1>1, <1>2

\* Reading the configuration changes nothing of it.
LEMMA LoadConfigKeeps ==
  ASSUME VersionInv, NEW s \in Sessions, LoadConfig(s)
  PROVE  VersionInv'
<1> DEFINE me == session[s]
           y == [me EXCEPT !.pc = "resolve", !.config = {inputs.config}]
<1>0. UNCHANGED <<server, contracts>> /\ session' = [session EXCEPT ![s] = y] /\ me.pc = "load"
  BY DEF LoadConfig, Become, world, disk
<1>1. Active(s)
  BY <1>0 DEF Active
<1>2. PICK o \in Options : me.options = {o} /\ DOMAIN me = DOMAIN Fresh
                            /\ Called(me, o, server.version)
  BY <1>1, ActiveSession
<1>3. /\ DOMAIN y = DOMAIN Fresh /\ y.options = {o} /\ y.pc = "resolve" /\ y.at = me.at
      /\ y.reports = me.reports /\ y.version = me.version
  BY <1>2 DEF Fresh
<1> HIDE DEF y
<1>4. ~o.input => Live(y, server.version)
  BY <1>2, <1>3, LiveKept DEF Called
<1>5. Called(y, o, server.version)
  BY <1>0, <1>2, <1>3, <1>4 DEF Called, Analysing
<1>6. DOMAIN session' = Sessions /\ \A t \in Sessions : SessionInv(t)'
  BY <1>0, <1>2, <1>3, <1>5, OneMoves
<1> QED
  BY <1>0, <1>6, InvKept

\* Nor does resolving an offline package.
LEMMA ResolveOfflineKeeps ==
  ASSUME VersionInv, NEW s \in Sessions, ResolveOffline(s)
  PROVE  VersionInv'
<1> DEFINE me == session[s]
           y == Resolved(me, inputs.schema, inputs.text[me.at], {})
<1>0. UNCHANGED <<server, contracts>> /\ session' = [session EXCEPT ![s] = y] /\ me.pc = "resolve"
  BY DEF ResolveOffline, Become, world, disk
<1>1. Active(s)
  BY <1>0 DEF Active
<1>2. PICK o \in Options : me.options = {o} /\ DOMAIN me = DOMAIN Fresh
                            /\ Called(me, o, server.version)
  BY <1>1, ActiveSession
<1>3. /\ DOMAIN y = DOMAIN Fresh /\ y.options = {o}
      /\ y.reports = me.reports /\ y.version = me.version
      /\ y.at = (IF me.at < N THEN me.at + 1 ELSE 1)
      /\ y.pc = (IF me.at < N THEN "resolve" ELSE "finish")
  BY <1>2, ResolvedFields
<1> HIDE DEF y
<1>4. me.at \in Packages /\ y.at \in Packages
  BY <1>0, <1>2, <1>3, ContractsAssumption DEF Called, Analysing, Packages
<1>5. ~o.input => Live(y, server.version)
  BY <1>2, <1>3, LiveKept DEF Called
<1>6. Called(y, o, server.version)
  BY <1>2, <1>3, <1>4, <1>5 DEF Called
<1>7. DOMAIN session' = Sessions /\ \A t \in Sessions : SessionInv(t)'
  BY <1>0, <1>2, <1>3, <1>6, OneMoves
<1> QED
  BY <1>0, <1>7, InvKept

\* A package is matched with its example; a replay goes on to look its report up,
\* any other session to ask the server.
LEMMA ResolveServerKeeps ==
  ASSUME VersionInv, NEW s \in Sessions, ResolveServer(s)
  PROVE  VersionInv'
<1> DEFINE me == session[s]
           text == inputs.text[me.at]
           k == ExampleKey(OptionsOf(s).examples, me.at)
           y == [me EXCEPT !.pc = IF OptionsOf(s).input THEN "lookup" ELSE "version",
                           !.seen = @ \cup {k},
                           !.read = {[schema |-> inputs.schema, text |-> text]}]
<1>0. UNCHANGED <<server, contracts>> /\ me.pc = "resolve"
  BY DEF ResolveServer, world, disk
<1>1. CASE End(s, "error")
  BY <1>0, <1>1, OneEnds, InvKept
<1>2. CASE Become(s, y)
  <2>0. session' = [session EXCEPT ![s] = y]
    BY <1>2 DEF Become
  <2>1. Active(s)
    BY <1>0 DEF Active
  <2>2. PICK o \in Options : /\ me.options = {o} /\ OptionsOf(s) = o
                             /\ DOMAIN me = DOMAIN Fresh /\ Called(me, o, server.version)
    BY <2>1, ActiveSession
  <2>3. /\ DOMAIN y = DOMAIN Fresh /\ y.options = {o} /\ y.at = me.at
        /\ y.reports = me.reports /\ y.version = me.version
        /\ y.pc = (IF o.input THEN "lookup" ELSE "version")
    BY <2>2 DEF Fresh
  <2> HIDE DEF y
  <2>4. ~o.input => Live(y, server.version)
    BY <2>2, <2>3, LiveKept DEF Called
  <2>5. Called(y, o, server.version)
    BY <1>0, <2>2, <2>3, <2>4 DEF Called, Analysing
  <2>6. DOMAIN session' = Sessions /\ \A t \in Sessions : SessionInv(t)'
    BY <1>0, <2>0, <2>2, <2>3, <2>5, OneMoves
  <2> QED
    BY <1>0, <2>6, InvKept
<1>3. End(s, "error") \/ Become(s, y)
  BY DEF ResolveServer
<1> QED
  BY <1>1, <1>2, <1>3

\* A replay takes a saved report: what it has is no concern of the invariant.
LEMMA LookupKeeps ==
  ASSUME VersionInv, NEW s \in Sessions, Lookup(s)
  PROVE  VersionInv'
<1> DEFINE me == session[s]
           key == Key(OptionsOf(s), me.at, The(me.read))
           looked == [me EXCEPT !.used = @ \cup {key}]
           r == me.reports[key]
           read == The(looked.read)
           z == Resolved(looked, External[read.schema], read.text, {r})
           y == [z EXCEPT !.version = r.version]
<1>0. UNCHANGED <<server, contracts>> /\ me.pc = "lookup"
  BY DEF Lookup, world, disk
<1>1. End(s, "error") \/ End(s, "stale") \/ session' = [session EXCEPT ![s] = y]
  BY DEF Lookup, Accept, Become
<1>2. CASE session' = [session EXCEPT ![s] = y]
  <2>1. Active(s)
    BY <1>0 DEF Active
  <2>2. PICK o \in Options : /\ me.options = {o}
                             /\ DOMAIN me = DOMAIN Fresh /\ Called(me, o, server.version)
    BY <2>1, ActiveSession
  <2>3. DOMAIN looked = DOMAIN Fresh /\ looked.options = {o} /\ looked.at = me.at
    BY <2>2 DEF Fresh
  <2> HIDE DEF looked, r
  <2>4. /\ DOMAIN z = DOMAIN Fresh /\ z.options = {o}
        /\ z.at = (IF me.at < N THEN me.at + 1 ELSE 1)
        /\ z.pc = (IF me.at < N THEN "resolve" ELSE "finish")
    BY <2>3, ResolvedFields
  <2> HIDE DEF z
  <2>5. /\ DOMAIN y = DOMAIN Fresh /\ y.options = {o} /\ y.at = z.at /\ y.pc = z.pc
    BY <2>4 DEF Fresh
  <2> HIDE DEF y
  <2>6. me.at \in Packages /\ y.at \in Packages /\ o.input
    BY <1>0, <2>2, <2>4, <2>5, ContractsAssumption DEF Called, Analysing, Packages
  <2>7. Called(y, o, server.version)
    BY <2>2, <2>4, <2>5, <2>6 DEF Called
  <2>8. DOMAIN session' = Sessions /\ \A t \in Sessions : SessionInv(t)'
    BY <1>0, <1>2, <2>5, <2>7, OneMoves
  <2> QED
    BY <1>0, <2>8, InvKept
<1> QED
  BY <1>0, <1>1, <1>2, OneEnds, InvKept

\* The version a session asks for is that of the server, no older than any
\* server that has answered the session.
LEMMA AskVersionKeeps ==
  ASSUME VersionInv, NEW s \in Sessions, AskVersion(s)
  PROVE  VersionInv'
<1> DEFINE me == session[s]
           y == [me EXCEPT !.pc = "describe", !.asked = server.version]
<1>0. UNCHANGED <<server, contracts>> /\ session' = [session EXCEPT ![s] = y] /\ me.pc = "version"
  BY DEF AskVersion, Become, world, disk
<1>1. Active(s)
  BY <1>0 DEF Active
<1>2. PICK o \in Options : me.options = {o} /\ DOMAIN me = DOMAIN Fresh
                            /\ Called(me, o, server.version)
  BY <1>1, ActiveSession
<1>3. /\ DOMAIN y = DOMAIN Fresh /\ y.options = {o} /\ y.pc = "describe" /\ y.at = me.at
      /\ y.reports = me.reports /\ y.version = me.version /\ y.asked = server.version
  BY <1>2 DEF Fresh
<1> HIDE DEF y
<1>4. ~o.input /\ Live(me, server.version)
  BY <1>0, <1>2 DEF Called
<1>5. server.version \in Nat \ {0}
  BY ContractsAssumption DEF VersionInv
<1>6. Live(y, server.version)
  <2>1. \A k \in DOMAIN me.reports :
           me.reports[k].columns.server.version \in me.version..server.version
    BY <1>4 DEF Live, Agree
  <2>2. me.version \in Nat
    BY <1>4, <1>5 DEF Live
  <2> QED
    BY <1>3, <1>4, <1>5, <2>1, <2>2 DEF Live
<1>7. Called(y, o, server.version)
  BY <1>0, <1>2, <1>3, <1>4, <1>6 DEF Called, Analysing
<1>8. DOMAIN session' = Sessions /\ \A t \in Sessions : SessionInv(t)'
  BY <1>0, <1>2, <1>3, <1>7, OneMoves
<1> QED
  BY <1>0, <1>8, InvKept

\* One more report of version v, from the newest server, may be off; if v is the
\* version of the others too, and no server that answered was newer, they are not.
LEMMA AgreeOneMore ==
  ASSUME NEW reports, NEW v \in Nat, NEW u \in Nat, v <= u, Agree(reports, v, u),
         \A k \in DOMAIN reports : reports[k].columns.server.version <= v,
         NEW key, NEW report, report.version = v, report.columns.server.version = u
  PROVE  Agree(With(reports, key, report), v, u)
<1> DEFINE more == With(reports, key, report)
<1>1. DOMAIN more = DOMAIN reports \cup {key}
  BY DEF With
<1>2. more[key] = report
  BY DEF With
<1>3. ASSUME NEW k \in DOMAIN more, k # key
      PROVE  more[k] = reports[k] /\ k \in DOMAIN reports
  BY <1>1, <1>3 DEF With
<1> HIDE DEF more
<1>4. ASSUME NEW k \in DOMAIN more
      PROVE  more[k].version = v /\ more[k].columns.server.version \in v..u
  BY <1>2, <1>3, <1>4 DEF Agree
<1>5. ASSUME NEW k \in DOMAIN more, k # key PROVE ~Off(more[k])
  <2>1. /\ reports[k].version = v /\ reports[k].columns.server.version \in v..u
        /\ reports[k].columns.server.version <= v
    BY <1>3, <1>5 DEF Agree
  <2> QED
    BY <1>3, <1>5, <2>1 DEF Off
<1> QED
  BY <1>4, <1>5 DEF Agree, more

\* The answer of the server is accepted only under the version of the others.
LEMMA DescribeKeeps ==
  ASSUME VersionInv, NEW s \in Sessions, Describe(s)
  PROVE  VersionInv'
<1> DEFINE me == session[s]
           key == Key(OptionsOf(s), me.at, The(me.read))
           report == [version |-> me.asked, columns |-> [key |-> key, server |-> server]]
           told == [me EXCEPT !.reports = With(@, key, report)]
           read == The(told.read)
           z == Resolved(told, External[read.schema], read.text, {report})
           y == [z EXCEPT !.version = report.version]
<1>0. UNCHANGED <<server, contracts>> /\ me.pc = "describe"
  BY DEF Describe, world, disk
<1>1. \/ End(s, "error")
      \/ ~VersionChanged(told, report) /\ session' = [session EXCEPT ![s] = y]
  BY DEF Describe, Accept, Become
<1>2. CASE ~VersionChanged(told, report) /\ session' = [session EXCEPT ![s] = y]
  <2>1. Active(s)
    BY <1>0 DEF Active
  <2>2. PICK o \in Options : /\ me.options = {o}
                             /\ DOMAIN me = DOMAIN Fresh /\ Called(me, o, server.version)
    BY <2>1, ActiveSession
  <2>3. ~o.input /\ Live(me, server.version)
    BY <1>0, <2>2 DEF Called
  <2>4. report.version = me.asked /\ report.columns.server.version = server.version
    OBVIOUS
  <2>5. me.version \in Nat /\ me.asked \in Nat \ {0} /\ server.version \in Nat
        /\ me.asked <= server.version
    BY <1>0, <2>3 DEF Live, VersionInv
  <2> HIDE DEF report, key
  <2>6. /\ DOMAIN told = DOMAIN Fresh /\ told.options = {o} /\ told.at = me.at
        /\ told.version = me.version /\ told.reports = With(me.reports, key, report)
    BY <2>2 DEF Fresh
  <2> HIDE DEF told
  <2>7. /\ DOMAIN z = DOMAIN Fresh /\ z.options = {o} /\ z.reports = told.reports
        /\ z.at = (IF me.at < N THEN me.at + 1 ELSE 1)
        /\ z.pc = (IF me.at < N THEN "resolve" ELSE "finish")
    BY <2>6, ResolvedFields
  <2> HIDE DEF z
  <2>8. /\ DOMAIN y = DOMAIN Fresh /\ y.options = {o} /\ y.at = z.at /\ y.pc = z.pc
        /\ y.version = me.asked /\ y.reports = With(me.reports, key, report)
    BY <2>4, <2>6, <2>7 DEF Fresh
  <2> HIDE DEF y
  <2>9. me.at \in Packages /\ y.at \in Packages
    BY <1>0, <2>2, <2>7, <2>8, ContractsAssumption DEF Called, Analysing, Packages
  <2>10. Agree(me.reports, me.asked, server.version)
    <3>1. CASE DOMAIN me.reports = {}
      BY <3>1 DEF Agree
    <3>2. CASE DOMAIN me.reports # {}
      <4>1. me.version = me.asked
        BY <1>2, <2>3, <2>4, <2>6, <3>2 DEF Live, VersionChanged
      <4> QED
        BY <2>3, <4>1 DEF Live
    <3> QED
      BY <3>1, <3>2
  <2>11. \A k \in DOMAIN me.reports : me.reports[k].columns.server.version <= me.asked
    BY <1>0, <2>3 DEF Live
  <2>12. Agree(y.reports, me.asked, server.version)
    <3>1. me.asked \in Nat
      BY <2>5
    <3>2. Agree(With(me.reports, key, report), me.asked, server.version)
      BY <2>4, <2>5, <2>10, <2>11, <3>1, AgreeOneMore
    <3> QED
      BY <2>8, <3>2
  <2>13. Live(y, server.version)
    BY <2>5, <2>7, <2>8, <2>12 DEF Live
  <2>14. Called(y, o, server.version)
    BY <2>2, <2>3, <2>7, <2>8, <2>9, <2>13 DEF Called
  <2>15. DOMAIN session' = Sessions /\ \A t \in Sessions : SessionInv(t)'
    BY <1>0, <1>2, <2>8, <2>14, OneMoves
  <2> QED
    BY <1>0, <2>15, InvKept
<1> QED
  BY <1>0, <1>1, <1>2, OneEnds, InvKept
-----------------------------------------------------------------------------
\* Finishing and committing leave the reports alone.
LEMMA FinishKeeps ==
  ASSUME VersionInv, NEW s \in Sessions, Finish(s)
  PROVE  VersionInv'
<1> DEFINE me == session[s]
           o1 == OptionsOf(s)
           y == [me EXCEPT !.pc = IF o1.check THEN "compare" ELSE "commit",
                           !.inputs = IF o1.output THEN {inputs} ELSE {}]
<1>0. UNCHANGED <<server, contracts>> /\ me.pc = "finish"
  BY DEF Finish, world, disk
<1>1. End(s, "error") \/ End(s, "stale") \/ session' = [session EXCEPT ![s] = y]
  BY DEF Finish, Become
<1>2. CASE session' = [session EXCEPT ![s] = y]
  <2>1. Active(s)
    BY <1>0 DEF Active
  <2>2. PICK o \in Options : /\ me.options = {o}
                             /\ DOMAIN me = DOMAIN Fresh /\ Called(me, o, server.version)
    BY <2>1, ActiveSession
  <2>3. /\ DOMAIN y = DOMAIN Fresh /\ y.options = {o} /\ y.at = me.at
        /\ y.reports = me.reports /\ y.version = me.version
        /\ y.pc \in {"compare", "commit"}
    BY <2>2 DEF Fresh
  <2> HIDE DEF y
  <2>4. me.at \in 1..N /\ N \in Nat
    BY <1>0, <2>2, ContractsAssumption DEF Called, Analysing, Packages
  <2>5. ~o.input => Live(y, server.version)
    BY <2>2, <2>3, LiveKept DEF Called
  <2>6. Called(y, o, server.version)
    BY <2>2, <2>3, <2>4, <2>5 DEF Called, Analysing
  <2>7. DOMAIN session' = Sessions /\ \A t \in Sessions : SessionInv(t)'
    BY <1>0, <1>2, <2>2, <2>3, <2>6, OneMoves
  <2> QED
    BY <1>0, <2>7, InvKept
<1> QED
  BY <1>0, <1>1, <1>2, OneEnds, InvKept

\* After the last output only a capture goes on.
LEMMA ReplaceKeeps ==
  ASSUME VersionInv, NEW s \in Sessions, Replace(s)
  PROVE  VersionInv'
<1> DEFINE me == session[s]
           y == [me EXCEPT !.at = @ + 1]
<1>0. UNCHANGED <<server, contracts>> /\ me.pc = "commit" /\ me.at <= N
  BY DEF Replace, world
<1>1. \/ End(s, "ok")
      \/ (me.at < N \/ OptionsOf(s).output) /\ session' = [session EXCEPT ![s] = y]
  BY DEF Replace, Become
<1>2. CASE (me.at < N \/ OptionsOf(s).output) /\ session' = [session EXCEPT ![s] = y]
  <2>1. Active(s)
    BY <1>0 DEF Active
  <2>2. PICK o \in Options : /\ me.options = {o} /\ OptionsOf(s) = o
                             /\ DOMAIN me = DOMAIN Fresh /\ Called(me, o, server.version)
    BY <2>1, ActiveSession
  <2>3. /\ DOMAIN y = DOMAIN Fresh /\ y.options = {o} /\ y.at = me.at + 1
        /\ y.reports = me.reports /\ y.version = me.version /\ y.pc = "commit"
    BY <1>0, <2>2 DEF Fresh
  <2> HIDE DEF y
  <2>4. y.at \in 1..(N + 1) /\ (y.at = N + 1 => o.output)
    BY <1>0, <1>2, <2>2, <2>3, ContractsAssumption DEF Called
  <2>5. ~o.input => Live(y, server.version)
    BY <2>2, <2>3, LiveKept DEF Called
  <2>6. Called(y, o, server.version)
    BY <2>2, <2>3, <2>4, <2>5 DEF Called, Analysing
  <2>7. DOMAIN session' = Sessions /\ \A t \in Sessions : SessionInv(t)'
    BY <1>0, <1>2, <2>2, <2>3, <2>6, OneMoves
  <2> QED
    BY <1>0, <2>7, InvKept
<1> QED
  BY <1>0, <1>1, <1>2, OneEnds, InvKept

\* What a capture saves agrees.
LEMMA SaveKeeps ==
  ASSUME VersionInv, NEW s \in Sessions, Save(s)
  PROVE  VersionInv'
<1> DEFINE me == session[s]
<1>0. /\ server' = server /\ End(s, "ok") /\ me.pc = "commit" /\ me.at = N + 1
      /\ contracts' = {Snapshot(s, me)}
  BY DEF Save, world
<1>1. Active(s)
  BY <1>0 DEF Active
<1>2. PICK o \in Options : Called(me, o, server.version)
  BY <1>1, ActiveSession
<1>3. Live(me, server.version)
  BY <1>0, <1>2 DEF Called
<1>4. Snapshot(s, me).reports = me.reports
  BY DEF Snapshot
<1>5. /\ MaxVersion \in Nat /\ server.version \in 1..MaxVersion
      /\ me.version \in Nat /\ me.version <= server.version
  BY <1>3, ContractsAssumption DEF Live, VersionInv
<1>6. \E v \in 1..MaxVersion : Agree(me.reports, v, MaxVersion)
  <2>1. CASE me.version = 0
    <3>1. Agree(me.reports, 1, MaxVersion)
      BY <1>3, <2>1 DEF Live, Agree
    <3> QED
      BY <1>5, <3>1
  <2>2. CASE me.version # 0
    <3>1. Agree(me.reports, me.version, server.version)
      BY <1>3 DEF Live
    <3>2. Agree(me.reports, me.version, MaxVersion)
      BY <1>5, <3>1, AgreeGrows
    <3> QED
      BY <1>5, <2>2, <3>2
  <2> QED
    BY <2>1, <2>2
<1>7. DOMAIN session' = Sessions /\ \A t \in Sessions : SessionInv(t)'
  BY <1>0, OneEnds
<1>8. \A c \in contracts' : \E v \in 1..MaxVersion : Agree(c.reports, v, MaxVersion)
  BY <1>0, <1>4, <1>6
<1> QED
  BY <1>0, <1>7, <1>8 DEF VersionInv
-----------------------------------------------------------------------------
\* A note about the inputs, or about the server, changes nothing else of a session.
LEMMA EditKeeps ==
  ASSUME VersionInv, Edit
  PROVE  VersionInv'
<1>0. /\ UNCHANGED <<server, contracts>>
      /\ session' = [s \in Sessions |-> [session[s] EXCEPT !.quiet = @ /\ ~Active(s)]]
  BY DEF Edit, disk
<1>1. ASSUME NEW s \in Sessions PROVE SessionInv(s)'
  <2> DEFINE me == session[s]
             y == [me EXCEPT !.quiet = @ /\ ~Active(s)]
  <2>1. session'[s] = y
    BY <1>0
  <2>2. DOMAIN me = DOMAIN Fresh
    BY DEF VersionInv, SessionInv
  <2>3. /\ DOMAIN y = DOMAIN Fresh /\ y.options = me.options /\ y.pc = me.pc /\ y.at = me.at
        /\ y.reports = me.reports /\ y.version = me.version /\ y.asked = me.asked
    BY <2>2 DEF Fresh
  <2> HIDE DEF y
  <2>4. ASSUME NEW o, Called(me, o, server.version) PROVE Called(y, o, server.version)
    BY <2>3, <2>4 DEF Called, Live
  <2> QED
    BY <1>0, <2>1, <2>3, <2>4 DEF VersionInv, SessionInv, Active
<1>2. DOMAIN session' = Sessions
  BY <1>0
<1> QED
  BY <1>0, <1>1, <1>2, InvKept

\* The server's version only grows.
LEMMA ChangeServerKeeps ==
  ASSUME VersionInv, ChangeServer
  PROVE  VersionInv'
<1>0. /\ contracts' = contracts
      /\ session' = [s \in Sessions |-> [session[s] EXCEPT !.steady = @ /\ ~Active(s)]]
  BY DEF ChangeServer, disk
<1>1. /\ server' \in [version: 1..MaxVersion, tables: Tables]
      /\ server.version \in Nat /\ server.version' \in Nat
      /\ server.version <= server.version'
  BY ContractsAssumption DEF ChangeServer, VersionInv
<1>2. ASSUME NEW s \in Sessions PROVE SessionInv(s)'
  <2> DEFINE me == session[s]
             y == [me EXCEPT !.steady = @ /\ ~Active(s)]
  <2>1. session'[s] = y
    BY <1>0
  <2>2. DOMAIN me = DOMAIN Fresh
    BY DEF VersionInv, SessionInv
  <2>3. /\ DOMAIN y = DOMAIN Fresh /\ y.options = me.options /\ y.pc = me.pc /\ y.at = me.at
        /\ y.reports = me.reports /\ y.version = me.version /\ y.asked = me.asked
    BY <2>2 DEF Fresh
  <2> HIDE DEF y
  <2>4. ASSUME NEW o, Called(me, o, server.version) PROVE Called(y, o, server.version')
    <3>1. Called(me, o, server.version')
      BY <1>1, <2>4, CalledGrows
    <3> QED
      BY <2>3, <3>1 DEF Called, Live
  <2> QED
    BY <2>1, <2>3, <2>4 DEF VersionInv, SessionInv, Active
<1>3. DOMAIN session' = Sessions
  BY <1>0
<1> QED
  BY <1>0, <1>1, <1>2, <1>3 DEF VersionInv
-----------------------------------------------------------------------------
\* The inductive invariant: the reports of every session that asks the server
\* agree, and no server newer than the current one has answered.
THEOREM VersionInvariant == Spec => []VersionInv
<1>1. Init => VersionInv
  <2> SUFFICES ASSUME Init PROVE VersionInv
    OBVIOUS
  <2>1. server \in [version: 1..MaxVersion, tables: Tables]
    <3>1. server \in [version: {1}, tables: Tables] /\ 1 \in 1..MaxVersion
      BY ContractsAssumption DEF Init
    <3> QED
      BY <3>1
  <2> QED
    BY <2>1 DEF Init, VersionInv, SessionInv, Active, Fresh
<1>2. VersionInv /\ [Next]_vars => VersionInv'
  <2> SUFFICES ASSUME VersionInv, [Next]_vars PROVE VersionInv'
    OBVIOUS
  <2>1. ASSUME NEW s \in Sessions, SessionStep(s) PROVE VersionInv'
    <3>1. ASSUME Compare(s) \/ Fail(s) PROVE VersionInv'
      <4>1. PICK outcome : End(s, outcome) /\ UNCHANGED <<server, contracts>>
        BY <3>1 DEF Compare, Fail, world, disk
      <4> QED
        BY <4>1, OneEnds, InvKept
    <3> QED
      BY <2>1, <3>1, OpenKeeps, LoadConfigKeeps, ResolveOfflineKeeps, ResolveServerKeeps,
         LookupKeeps, AskVersionKeeps, DescribeKeeps, FinishKeeps, ReplaceKeeps, SaveKeeps
         DEF SessionStep
  <2>2. CASE UNCHANGED vars
    BY <2>2 DEF vars, VersionInv, SessionInv, Active
  <2> QED
    BY <2>1, <2>2, EditKeeps, ChangeServerKeeps DEF Next
<1> QED
  BY <1>1, <1>2, PTL DEF Spec

\* Saved contracts name one server version, and at most one of their reports is
\* the answer of a later server, however sessions and upgrades overlap.
THEOREM OneVersionSaved == Spec => []OneServerVersion
<1>1. VersionInv => OneServerVersion
  <2> SUFFICES ASSUME VersionInv, NEW c \in contracts
               PROVE  \E v \in 1..MaxVersion :
                        /\ \A k \in DOMAIN c.reports : c.reports[k].version = v
                        /\ Cardinality({k \in DOMAIN c.reports :
                                           c.reports[k].columns.server.version # v}) <= 1
    BY DEF OneServerVersion
  <2>1. PICK v \in 1..MaxVersion : Agree(c.reports, v, MaxVersion)
    BY DEF VersionInv
  <2> DEFINE S == {k \in DOMAIN c.reports : c.reports[k].columns.server.version # v}
  <2>2. \A x, y \in S : x = y
    BY <2>1 DEF Agree, Off
  <2>3. Cardinality(S) <= 1
    BY <2>2, AllEqual
  <2> QED
    BY <2>1, <2>3 DEF Agree
<1> QED
  BY <1>1, VersionInvariant, PTL

(***************************************************************************)
(* Sessions: what one has done and seen so far.                            *)
(***************************************************************************)
\* Reports are a function whose values name a version.
IsReports(reports) ==
  /\ reports = [k \in DOMAIN reports |-> reports[k]]
  /\ \A k \in DOMAIN reports : reports[k].version \in 0..MaxVersion

Contract(c) == c.inputs \in Inputs /\ DOMAIN c.reports # {} /\ IsReports(c.reports)

\* The packages whose example, if they need one, has been looked up.
Done(me) ==
  IF me.pc \in {"load", "resolve"} THEN {p \in Packages : p < me.at}
  ELSE IF me.pc \in {"lookup", "version", "describe"} THEN {p \in Packages : p <= me.at}
  ELSE Packages

\* The keys seen are those of the packages done, and the bare one served one of
\* them at most.
Matched(me, o) ==
  /\ me.seen = {ExampleKey(o.examples, p) : p \in Done(me) \ Offline}
  /\ Bare \in DOMAIN o.examples =>
       \A p, q \in Done(me) \ Offline :
          ExampleKey(o.examples, p) = Bare /\ ExampleKey(o.examples, q) = Bare => p = q
  /\ me.pc \in {"compare", "commit"} => DOMAIN o.examples \subseteq me.seen

\* A capture that commits knows the inputs it will save, and has a report.
Holds(me, o) ==
  me.pc = "commit" /\ o.output => (\E x \in Inputs : me.inputs = {x}) /\ DOMAIN me.reports # {}

Phases == {"idle", "load", "resolve", "lookup", "version", "describe", "finish",
           "compare", "commit"}

Form(me) ==
  /\ DOMAIN me = DOMAIN Fresh
  /\ me.pc \in Phases /\ me.at \in 1..(N + 1)
  /\ me.options \subseteq Options /\ me.seen \subseteq ExampleKeys
  /\ DOMAIN me.code \subseteq Packages /\ me.used \subseteq DOMAIN me.reports
  /\ {me.asked, me.version} \subseteq 0..MaxVersion
  /\ IsReports(me.reports)
  /\ \A o \in me.options : Matched(me, o) /\ Holds(me, o)

Outcomes == {"none", "ok", "stale", "error"}

SessionsInv ==
  /\ inputs \in Inputs /\ DOMAIN out \subseteq Packages
  /\ \A c, d \in contracts : c = d
  /\ \A c \in contracts : Contract(c)
  /\ result \in [Sessions -> Outcomes]
  /\ started \in 0..MaxSessions /\ changes \in 0..MaxChanges
  /\ \A s \in Sessions : Form(session[s])
-----------------------------------------------------------------------------
\* The key of a query is its own or the bare one.
LEMMA KeyOfQuery ==
  ASSUME NEW examples, NEW p \in Packages
  PROVE  ExampleKey(examples, p) \in ExampleKeys
  BY DEF ExampleKey, ExampleKeys

\* A session that is over, or not begun.
LEMMA FreshForm == Form(Fresh)
<1>1. DOMAIN Empty = {} /\ Empty = [k \in DOMAIN Empty |-> Empty[k]]
  BY DEF Empty
<1>2. 1 \in 1..(N + 1) /\ 0 \in 0..MaxVersion
  BY ContractsAssumption
<1>3. /\ Fresh.pc = "idle" /\ Fresh.at = 1 /\ Fresh.options = {} /\ Fresh.seen = {}
      /\ Fresh.code = Empty /\ Fresh.used = {} /\ Fresh.reports = Empty
      /\ Fresh.asked = 0 /\ Fresh.version = 0
  BY DEF Fresh
<1> QED
  BY <1>1, <1>2, <1>3 DEF Form, Phases, IsReports

\* When one session moves, only what it becomes has to be looked at.
LEMMA OneForms ==
  ASSUME VersionInv, SessionsInv, NEW s \in Sessions, NEW me,
         session' = [session EXCEPT ![s] = me], Form(me)
  PROVE  \A t \in Sessions : Form(session'[t])
<1>1. ASSUME NEW t \in Sessions PROVE Form(session'[t])
  <2>1. session'[t] = IF t = s THEN me ELSE session[t]
    BY DEF VersionInv
  <2> QED
    BY <2>1 DEF SessionsInv
<1> QED
  BY <1>1

\* A session ends, and the inputs and the files stay as they are.
LEMMA EndForms ==
  ASSUME VersionInv, SessionsInv, NEW s \in Sessions, NEW outcome \in Outcomes, End(s, outcome),
         UNCHANGED <<inputs, out, contracts, started, changes>>
  PROVE  SessionsInv'
<1>1. \A t \in Sessions : Form(session'[t])
  BY FreshForm, OneForms DEF End
<1>2. result' \in [Sessions -> Outcomes]
  BY DEF End, SessionsInv
<1> QED
  BY <1>1, <1>2 DEF SessionsInv

\* A session goes on, and the inputs and the files stay as they are.
LEMMA BecomeForms ==
  ASSUME VersionInv, SessionsInv, NEW s \in Sessions, NEW me, Become(s, me), Form(me),
         UNCHANGED <<inputs, out, contracts, started, changes>>
  PROVE  SessionsInv'
<1>1. \A t \in Sessions : Form(session'[t])
  BY OneForms DEF Become
<1> QED
  BY <1>1 DEF Become, SessionsInv

\* An active session, its options, and what both invariants say of it.
LEMMA FormOfActive ==
  ASSUME VersionInv, SessionsInv, NEW s \in Sessions, Active(s)
  PROVE  \E o \in Options : /\ session[s].options = {o} /\ OptionsOf(s) = o
                           /\ Called(session[s], o, server.version)
                           /\ Form(session[s])
                           /\ Matched(session[s], o) /\ Holds(session[s], o)
<1>1. PICK o \in Options : /\ session[s].options = {o} /\ OptionsOf(s) = o
                           /\ Called(session[s], o, server.version)
  BY ActiveSession
<1>2. Form(session[s])
  BY DEF SessionsInv
<1>3. Matched(session[s], o) /\ Holds(session[s], o)
  BY <1>1, <1>2 DEF Form
<1> QED
  BY <1>1, <1>2, <1>3
-----------------------------------------------------------------------------
\* The package at hand is resolved: it is done, if it was not before.
LEMMA ResolvedForms ==
  ASSUME NEW me, NEW o \in Options, me.options = {o}, Form(me), Matched(me, o),
         me.at \in Packages,
         me.pc \in {"lookup", "version", "describe"} \/ (me.pc = "resolve" /\ me.at \in Offline),
         NEW schema, NEW text, NEW report
  PROVE  Form(Resolved(me, schema, text, report))
<1> DEFINE y == Resolved(me, schema, text, report)
<1>1. /\ DOMAIN y = DOMAIN Fresh /\ y.options = {o} /\ y.reports = me.reports
      /\ y.version = me.version /\ y.seen = me.seen /\ y.used = me.used /\ y.asked = 0
      /\ DOMAIN y.code = DOMAIN me.code \cup {me.at}
      /\ y.at = (IF me.at < N THEN me.at + 1 ELSE 1)
      /\ y.pc = (IF me.at < N THEN "resolve" ELSE "finish")
  BY DEF Form, Fresh, Resolved, With
<1> HIDE DEF y
<1>2. N \in Nat /\ N # 0 /\ 0 \in 0..MaxVersion /\ me.at \in 1..N
  BY ContractsAssumption DEF Packages
<1>3. Done(y) \ Offline = Done(me) \ Offline
  <2>1. Done(y) = {p \in Packages : p <= me.at}
    BY <1>1, <1>2 DEF Done, Packages
  <2>2. CASE me.pc \in {"lookup", "version", "describe"}
    BY <2>1, <2>2 DEF Done
  <2>3. CASE me.pc = "resolve" /\ me.at \in Offline
    <3>1. Done(me) = {p \in Packages : p < me.at}
      BY <2>3 DEF Done
    <3>2. \A p \in Packages : p <= me.at /\ p # me.at <=> p < me.at
      BY <1>2 DEF Packages
    <3> QED
      BY <2>1, <2>3, <3>1, <3>2
  <2> QED
    BY <2>2, <2>3
<1>4. Matched(y, o) /\ Holds(y, o)
  BY <1>1, <1>3 DEF Matched, Holds
<1>5. y.at \in 1..(N + 1) /\ y.pc \in Phases
  BY <1>1, <1>2 DEF Phases
<1> QED
  BY <1>1, <1>2, <1>4, <1>5 DEF Form, y

\* A report, whether saved or just received, is accepted.
LEMMA AcceptForms ==
  ASSUME VersionInv, SessionsInv, NEW s \in Sessions, NEW me, NEW o \in Options,
         me.options = {o}, Form(me), Matched(me, o), me.at \in Packages,
         me.pc \in {"lookup", "describe"},
         NEW report, report.version \in 0..MaxVersion, Accept(s, me, report),
         UNCHANGED <<inputs, out, contracts, started, changes>>
  PROVE  SessionsInv'
<1> DEFINE read == The(me.read)
           z == Resolved(me, External[read.schema], read.text, {report})
           y == [z EXCEPT !.version = report.version]
<1>1. End(s, "error") \/ Become(s, y)
  BY DEF Accept
<1>2. Form(z)
  BY ResolvedForms
<1> HIDE DEF z
<1>3. /\ DOMAIN y = DOMAIN Fresh /\ y.pc = z.pc /\ y.at = z.at /\ y.options = z.options
      /\ y.seen = z.seen /\ y.code = z.code /\ y.used = z.used /\ y.reports = z.reports
      /\ y.asked = z.asked /\ y.version = report.version /\ y.inputs = z.inputs
  BY <1>2 DEF Form, Fresh
<1> HIDE DEF y
<1>4. \A p \in z.options : Matched(y, p) /\ Holds(y, p)
  <2>1. Done(y) = Done(z)
    BY <1>3 DEF Done
  <2> QED
    BY <1>2, <1>3, <2>1 DEF Form, Matched, Holds
<1>5. Form(y)
  BY <1>2, <1>3, <1>4 DEF Form
<1> QED
  BY <1>1, <1>5, EndForms, BecomeForms DEF Outcomes
-----------------------------------------------------------------------------
\* A session starts with no report, or with those of the contracts on disk.
LEMMA OpenForms ==
  ASSUME VersionInv, SessionsInv, NEW s \in Sessions, NEW o \in Options, Open(s, o)
  PROVE  SessionsInv'
<1>0. /\ UNCHANGED <<inputs, out, contracts, changes>>
      /\ started' \in 0..MaxSessions
  BY ContractsAssumption DEF Open, world, disk, SessionsInv
<1>1. CASE End(s, "error")
  <2>1. \A t \in Sessions : Form(session'[t])
    BY <1>1, FreshForm, OneForms DEF End
  <2>2. result' \in [Sessions -> Outcomes]
    BY <1>1 DEF End, SessionsInv, Outcomes
  <2> QED
    BY <1>0, <2>1, <2>2 DEF SessionsInv
<1>2. CASE ~End(s, "error")
  <2> DEFINE saved == IF o.input THEN contracts ELSE {}
             reports == IF o.input THEN The(saved).reports ELSE Empty
             me == [Fresh EXCEPT !.pc = "load", !.options = {o}, !.saved = saved,
                                 !.reports = reports]
  <2>1. session' = [session EXCEPT ![s] = me] /\ result' = [result EXCEPT ![s] = "none"]
        /\ ~(o.input /\ contracts = {})
    BY <1>2 DEF Open
  <2>2. IsReports(reports)
    <3>1. CASE o.input
      <4>1. The(saved) \in contracts
        BY <2>1, <3>1 DEF The
      <4> QED
        BY <3>1, <4>1 DEF SessionsInv, Contract
    <3>2. CASE ~o.input
      BY <3>2 DEF IsReports, Empty
    <3> QED
      BY <3>1, <3>2
  <2> HIDE DEF reports
  <2>3. /\ DOMAIN me = DOMAIN Fresh /\ me.pc = "load" /\ me.at = 1 /\ me.options = {o}
        /\ me.seen = {} /\ me.code = Empty /\ me.used = {} /\ me.asked = 0 /\ me.version = 0
        /\ me.reports = reports
    BY DEF Fresh
  <2> HIDE DEF me
  <2>4. Matched(me, o) /\ Holds(me, o)
    <3>1. Done(me) = {}
      BY <2>3 DEF Done, Packages
    <3> QED
      BY <2>3, <3>1 DEF Matched, Holds
  <2>5. Form(me)
    <3>1. 1 \in 1..(N + 1) /\ 0 \in 0..MaxVersion /\ DOMAIN Empty = {}
      BY ContractsAssumption DEF Empty
    <3> QED
      BY <2>2, <2>3, <2>4, <3>1 DEF Form, Phases
  <2>6. \A t \in Sessions : Form(session'[t])
    BY <2>1, <2>5, OneForms
  <2>7. result' \in [Sessions -> Outcomes]
    BY <2>1 DEF SessionsInv, Outcomes
  <2> QED
    BY <1>0, <2>6, <2>7 DEF SessionsInv
<1> QED
  BY <1>1, <1>2

\* Reading the configuration.
LEMMA LoadConfigForms ==
  ASSUME VersionInv, SessionsInv, NEW s \in Sessions, LoadConfig(s)
  PROVE  SessionsInv'
<1> DEFINE me == session[s]
           y == [me EXCEPT !.pc = "resolve", !.config = {inputs.config}]
<1>0. /\ UNCHANGED <<inputs, out, contracts, started, changes>> /\ Become(s, y)
      /\ me.pc = "load" /\ Active(s)
  BY DEF LoadConfig, world, disk, Active
<1>1. PICK o \in Options : me.options = {o} /\ Form(me) /\ Matched(me, o)
  BY <1>0, FormOfActive
<1>2. /\ DOMAIN y = DOMAIN Fresh /\ y.pc = "resolve" /\ y.at = me.at /\ y.options = {o}
      /\ y.seen = me.seen /\ y.code = me.code /\ y.used = me.used /\ y.reports = me.reports
      /\ y.asked = me.asked /\ y.version = me.version
  BY <1>1 DEF Form, Fresh
<1> HIDE DEF y
<1>3. Matched(y, o) /\ Holds(y, o)
  <2>1. Done(y) = Done(me)
    BY <1>0, <1>2 DEF Done
  <2> QED
    BY <1>1, <1>2, <2>1 DEF Matched, Holds
<1>4. Form(y)
  BY <1>1, <1>2, <1>3 DEF Form, Phases
<1> QED
  BY <1>0, <1>4, BecomeForms

\* An offline package has no example.
LEMMA ResolveOfflineForms ==
  ASSUME VersionInv, SessionsInv, NEW s \in Sessions, ResolveOffline(s)
  PROVE  SessionsInv'
<1> DEFINE me == session[s]
           y == Resolved(me, inputs.schema, inputs.text[me.at], {})
<1>0. /\ UNCHANGED <<inputs, out, contracts, started, changes>> /\ Become(s, y)
      /\ me.pc = "resolve" /\ me.at \in Offline /\ Active(s)
  BY DEF ResolveOffline, world, disk, Active
<1>1. PICK o \in Options : me.options = {o} /\ Form(me) /\ Matched(me, o)
                           /\ Called(me, o, server.version)
  BY <1>0, FormOfActive
<1>2. me.at \in Packages
  BY <1>0, <1>1 DEF Called, Analysing
<1>3. Form(y)
  BY <1>0, <1>1, <1>2, ResolvedForms
<1> QED
  BY <1>0, <1>3, BecomeForms

\* A server package: its key was not taken by another query, or is its own.
LEMMA ResolveServerForms ==
  ASSUME VersionInv, SessionsInv, NEW s \in Sessions, ResolveServer(s)
  PROVE  SessionsInv'
<1> DEFINE me == session[s]
           text == inputs.text[me.at]
           k == ExampleKey(OptionsOf(s).examples, me.at)
           y == [me EXCEPT !.pc = IF OptionsOf(s).input THEN "lookup" ELSE "version",
                           !.seen = @ \cup {k},
                           !.read = {[schema |-> inputs.schema, text |-> text]}]
<1>0. /\ UNCHANGED <<inputs, out, contracts, started, changes>>
      /\ me.pc = "resolve" /\ me.at \notin Offline /\ Active(s)
      /\ End(s, "error") \/ (~Ambiguous(me, k) /\ Become(s, y))
  BY DEF ResolveServer, world, disk, Active
<1>1. CASE End(s, "error")
  BY <1>0, <1>1, EndForms DEF Outcomes
<1>2. CASE ~Ambiguous(me, k) /\ Become(s, y)
  <2>1. PICK o \in Options : /\ me.options = {o} /\ OptionsOf(s) = o /\ Form(me)
                             /\ Matched(me, o) /\ Called(me, o, server.version)
    BY <1>0, FormOfActive
  <2>2. me.at \in Packages
    BY <1>0, <2>1 DEF Called, Analysing
  <2>3. k = ExampleKey(o.examples, me.at) /\ k \in ExampleKeys
    BY <2>1, <2>2, KeyOfQuery
  <2>4. /\ DOMAIN y = DOMAIN Fresh /\ y.pc = (IF o.input THEN "lookup" ELSE "version")
        /\ y.at = me.at /\ y.options = {o}
        /\ y.seen = me.seen \cup {k} /\ y.code = me.code /\ y.used = me.used
        /\ y.reports = me.reports /\ y.asked = me.asked /\ y.version = me.version
    BY <2>1 DEF Form, Fresh
  <2>5. k = Bare /\ Bare \in DOMAIN o.examples => Bare \notin me.seen
    BY <1>2, <2>1, TheOnly DEF Ambiguous
  <2> HIDE DEF y, k
  <2>6. Done(y) \ Offline = (Done(me) \ Offline) \cup {me.at} /\ me.at \notin Done(me)
    <3>1. Done(y) = {p \in Packages : p <= me.at} /\ Done(me) = {p \in Packages : p < me.at}
      BY <1>0, <2>4 DEF Done
    <3>2. \A p \in Packages : (p <= me.at <=> p < me.at \/ p = me.at) /\ ~(me.at < me.at)
      BY <2>2, ContractsAssumption DEF Packages
    <3> QED
      BY <1>0, <2>2, <3>1, <3>2
  <2>7. Matched(y, o)
    <3>1. y.seen = {ExampleKey(o.examples, p) : p \in Done(y) \ Offline}
      BY <2>1, <2>3, <2>4, <2>6 DEF Matched
    <3>2. ASSUME Bare \in DOMAIN o.examples, NEW p \in Done(y) \ Offline,
                 NEW q \in Done(y) \ Offline,
                 ExampleKey(o.examples, p) = Bare, ExampleKey(o.examples, q) = Bare
          PROVE  p = q
      <4>1. CASE p \in Done(me) /\ q \in Done(me)
        BY <2>1, <3>2, <4>1 DEF Matched
      <4>2. CASE p = me.at \/ q = me.at
        <5>1. k = Bare
          BY <2>3, <3>2, <4>2
        <5>2. \A r \in Done(me) \ Offline : ExampleKey(o.examples, r) # Bare
          BY <2>1, <2>5, <3>2, <5>1 DEF Matched
        <5> QED
          BY <2>6, <3>2, <5>2
      <4> QED
        BY <2>6, <4>1, <4>2
    <3> QED
      BY <2>4, <3>1, <3>2 DEF Matched
  <2>8. Form(y)
    BY <2>1, <2>3, <2>4, <2>7 DEF Form, Holds, Phases
  <2> QED
    BY <1>0, <1>2, <2>8, BecomeForms
<1> QED
  BY <1>0, <1>1, <1>2
-----------------------------------------------------------------------------
\* A replay looks a report up.
LEMMA LookupForms ==
  ASSUME VersionInv, SessionsInv, NEW s \in Sessions, Lookup(s)
  PROVE  SessionsInv'
<1> DEFINE me == session[s]
           key == Key(OptionsOf(s), me.at, The(me.read))
           y == [me EXCEPT !.used = @ \cup {key}]
<1>0. /\ UNCHANGED <<inputs, out, contracts, started, changes>> /\ me.pc = "lookup" /\ Active(s)
      /\ IF key \in DOMAIN me.reports THEN Accept(s, y, me.reports[key]) ELSE End(s, "stale")
  BY DEF Lookup, world, disk, Active
<1>1. CASE key \notin DOMAIN me.reports
  BY <1>0, <1>1, EndForms DEF Outcomes
<1>2. CASE key \in DOMAIN me.reports
  <2>1. PICK o \in Options : /\ me.options = {o} /\ Form(me) /\ Matched(me, o)
                             /\ Called(me, o, server.version)
    BY <1>0, FormOfActive
  <2>2. me.at \in Packages
    BY <1>0, <2>1 DEF Called, Analysing
  <2>3. /\ DOMAIN y = DOMAIN Fresh /\ y.pc = "lookup" /\ y.at = me.at /\ y.options = {o}
        /\ y.seen = me.seen /\ y.code = me.code /\ y.used = me.used \cup {key}
        /\ y.reports = me.reports /\ y.asked = me.asked /\ y.version = me.version
    BY <1>0, <2>1 DEF Form, Fresh
  <2> HIDE DEF y, key
  <2>4. Matched(y, o) /\ Holds(y, o)
    <3>1. Done(y) = Done(me)
      BY <1>0, <2>3 DEF Done
    <3> QED
      BY <1>0, <2>1, <2>3, <3>1 DEF Matched, Holds
  <2>5. Form(y)
    BY <1>2, <2>1, <2>3, <2>4 DEF Form, Phases
  <2>6. me.reports[key].version \in 0..MaxVersion
    BY <1>2, <2>1 DEF Form, IsReports
  <2> QED
    BY <1>0, <1>2, <2>2, <2>3, <2>4, <2>5, <2>6, AcceptForms
<1> QED
  BY <1>1, <1>2

\* The server tells its version.
LEMMA AskVersionForms ==
  ASSUME VersionInv, SessionsInv, NEW s \in Sessions, AskVersion(s)
  PROVE  SessionsInv'
<1> DEFINE me == session[s]
           y == [me EXCEPT !.pc = "describe", !.asked = server.version]
<1>0. /\ UNCHANGED <<inputs, out, contracts, started, changes>> /\ Become(s, y)
      /\ me.pc = "version" /\ Active(s)
  BY DEF AskVersion, world, disk, Active
<1>1. PICK o \in Options : me.options = {o} /\ Form(me) /\ Matched(me, o)
  BY <1>0, FormOfActive
<1>2. /\ DOMAIN y = DOMAIN Fresh /\ y.pc = "describe" /\ y.at = me.at /\ y.options = {o}
      /\ y.seen = me.seen /\ y.code = me.code /\ y.used = me.used /\ y.reports = me.reports
      /\ y.asked = server.version /\ y.version = me.version
  BY <1>1 DEF Form, Fresh
<1> HIDE DEF y
<1>3. Matched(y, o) /\ Holds(y, o)
  <2>1. Done(y) = Done(me)
    BY <1>0, <1>2 DEF Done
  <2> QED
    BY <1>1, <1>2, <2>1 DEF Matched, Holds
<1>4. server.version \in 0..MaxVersion
  BY ContractsAssumption DEF VersionInv
<1>5. Form(y)
  BY <1>1, <1>2, <1>3, <1>4 DEF Form, Phases
<1> QED
  BY <1>0, <1>5, BecomeForms

\* The server's report is added to the others.
LEMMA DescribeForms ==
  ASSUME VersionInv, SessionsInv, NEW s \in Sessions, Describe(s)
  PROVE  SessionsInv'
<1> DEFINE me == session[s]
           key == Key(OptionsOf(s), me.at, The(me.read))
           report == [version |-> me.asked, columns |-> [key |-> key, server |-> server]]
           y == [me EXCEPT !.reports = With(@, key, report)]
<1>0. /\ UNCHANGED <<inputs, out, contracts, started, changes>> /\ me.pc = "describe"
      /\ Active(s) /\ Accept(s, y, report)
  BY DEF Describe, world, disk, Active
<1>1. PICK o \in Options : /\ me.options = {o} /\ Form(me) /\ Matched(me, o)
                           /\ Called(me, o, server.version)
  BY <1>0, FormOfActive
<1>2. me.at \in Packages
  BY <1>0, <1>1 DEF Called, Analysing
<1>3. report.version = me.asked /\ me.asked \in 0..MaxVersion
  BY <1>1 DEF Form
<1> HIDE DEF key, report
<1>4. /\ DOMAIN y = DOMAIN Fresh /\ y.pc = "describe" /\ y.at = me.at /\ y.options = {o}
      /\ y.seen = me.seen /\ y.code = me.code /\ y.used = me.used
      /\ y.reports = With(me.reports, key, report) /\ y.asked = me.asked /\ y.version = me.version
  BY <1>0, <1>1 DEF Form, Fresh
<1> HIDE DEF y
<1>5. IsReports(y.reports) /\ me.used \subseteq DOMAIN y.reports
  <2>1. DOMAIN y.reports = DOMAIN me.reports \cup {key}
    BY <1>4 DEF With
  <2>2. y.reports = [k \in DOMAIN y.reports |-> y.reports[k]]
    BY <1>4 DEF With
  <2>3. ASSUME NEW k \in DOMAIN y.reports PROVE y.reports[k].version \in 0..MaxVersion
    <3>1. y.reports[k] = IF k = key THEN report ELSE me.reports[k]
      BY <1>4, <2>1 DEF With
    <3> QED
      BY <1>1, <1>3, <2>1, <3>1 DEF Form, IsReports
  <2> QED
    BY <1>1, <2>1, <2>2, <2>3 DEF IsReports, Form
<1>6. Matched(y, o) /\ Holds(y, o)
  <2>1. Done(y) = Done(me)
    BY <1>0, <1>4 DEF Done
  <2> QED
    BY <1>0, <1>1, <1>4, <2>1 DEF Matched, Holds
<1>7. Form(y)
  BY <1>1, <1>4, <1>5, <1>6 DEF Form, Phases
<1> QED
  BY <1>0, <1>2, <1>3, <1>4, <1>6, <1>7, AcceptForms
-----------------------------------------------------------------------------
\* A session that finishes has seen every example; a capture has a report.
LEMMA FinishForms ==
  ASSUME VersionInv, SessionsInv, NEW s \in Sessions, Finish(s)
  PROVE  SessionsInv'
<1> DEFINE me == session[s]
           c == OptionsOf(s)
           y == [me EXCEPT !.pc = IF c.check THEN "compare" ELSE "commit",
                           !.inputs = IF c.output THEN {inputs} ELSE {}]
<1>0. /\ UNCHANGED <<inputs, out, contracts, started, changes>> /\ me.pc = "finish" /\ Active(s)
      /\ \/ End(s, "error") \/ End(s, "stale")
         \/ /\ c.output => me.reports # Empty
            /\ DOMAIN c.examples \subseteq me.seen
            /\ Become(s, y)
  BY DEF Finish, world, disk, Active
<1>1. CASE End(s, "error") \/ End(s, "stale")
  BY <1>0, <1>1, EndForms DEF Outcomes
<1>2. CASE /\ c.output => me.reports # Empty
           /\ DOMAIN c.examples \subseteq me.seen
           /\ Become(s, y)
  <2>1. PICK o \in Options : me.options = {o} /\ c = o /\ Form(me) /\ Matched(me, o)
    BY <1>0, FormOfActive
  <2>2. /\ DOMAIN y = DOMAIN Fresh /\ y.pc = (IF o.check THEN "compare" ELSE "commit")
        /\ y.at = me.at /\ y.options = {o}
        /\ y.seen = me.seen /\ y.code = me.code /\ y.used = me.used /\ y.reports = me.reports
        /\ y.asked = me.asked /\ y.version = me.version
        /\ y.inputs = (IF o.output THEN {inputs} ELSE {})
    BY <2>1 DEF Form, Fresh
  <2> HIDE DEF y
  <2>3. Matched(y, o)
    <3>1. Done(y) = Done(me)
      BY <1>0, <2>2 DEF Done
    <3> QED
      BY <1>2, <2>1, <2>2, <3>1 DEF Matched
  <2>4. Holds(y, o)
    <3>1. DOMAIN me.reports = {} => me.reports = Empty
      BY <2>1 DEF Form, IsReports, Empty
    <3> QED
      BY <1>2, <2>1, <2>2, <3>1 DEF Holds, SessionsInv
  <2>5. Form(y)
    BY <2>1, <2>2, <2>3, <2>4 DEF Form, Phases
  <2> QED
    BY <1>0, <1>2, <2>5, BecomeForms
<1> QED
  BY <1>0, <1>1, <1>2

\* The next output is replaced.
LEMMA ReplaceForms ==
  ASSUME VersionInv, SessionsInv, NEW s \in Sessions, Replace(s)
  PROVE  SessionsInv'
<1> DEFINE me == session[s]
           y == [me EXCEPT !.at = @ + 1]
<1>0. /\ UNCHANGED <<inputs, contracts, started, changes>> /\ me.pc = "commit" /\ me.at <= N
      /\ Active(s) /\ out' = With(out, me.at, me.code[me.at])
      /\ End(s, "ok") \/ Become(s, y)
  BY DEF Replace, world, Active
<1>1. PICK o \in Options : me.options = {o} /\ Form(me) /\ Matched(me, o) /\ Holds(me, o)
  BY <1>0, FormOfActive
<1>2. N \in Nat /\ me.at \in 1..N /\ me.at + 1 \in 1..(N + 1)
  BY <1>0, <1>1, ContractsAssumption DEF Form
<1>3. DOMAIN out' \subseteq Packages
  BY <1>0, <1>2 DEF With, SessionsInv, Packages
<1>4. /\ DOMAIN y = DOMAIN Fresh /\ y.pc = "commit" /\ y.at = me.at + 1 /\ y.options = {o}
      /\ y.seen = me.seen /\ y.code = me.code /\ y.used = me.used /\ y.reports = me.reports
      /\ y.asked = me.asked /\ y.version = me.version /\ y.inputs = me.inputs
  BY <1>0, <1>1 DEF Form, Fresh
<1> HIDE DEF y
<1>5. Matched(y, o) /\ Holds(y, o)
  <2>1. Done(y) = Done(me)
    BY <1>0, <1>4 DEF Done
  <2> QED
    BY <1>0, <1>1, <1>4, <2>1 DEF Matched, Holds
<1>6. Form(y)
  BY <1>1, <1>2, <1>4, <1>5 DEF Form, Phases
<1>7. \A t \in Sessions : Form(session'[t])
  BY <1>0, <1>6, FreshForm, OneForms DEF End, Become
<1>8. result' \in [Sessions -> Outcomes]
  BY <1>0 DEF End, Become, SessionsInv, Outcomes
<1> QED
  BY <1>0, <1>3, <1>7, <1>8 DEF SessionsInv

\* The contracts of a capture replace those on disk.
LEMMA SaveForms ==
  ASSUME VersionInv, SessionsInv, NEW s \in Sessions, Save(s)
  PROVE  SessionsInv'
<1> DEFINE me == session[s]
<1>0. /\ UNCHANGED <<inputs, out, started, changes>> /\ me.pc = "commit" /\ me.at = N + 1
      /\ Active(s) /\ contracts' = {Snapshot(s, me)} /\ End(s, "ok")
  BY DEF Save, world, Active
<1>1. PICK o \in Options : /\ me.options = {o} /\ Form(me) /\ Holds(me, o)
                           /\ Called(me, o, server.version)
  BY <1>0, FormOfActive
<1>2. o.output
  BY <1>0, <1>1 DEF Called
<1>3. PICK x \in Inputs : me.inputs = {x} /\ DOMAIN me.reports # {}
  BY <1>0, <1>1, <1>2 DEF Holds
<1>4. Contract(Snapshot(s, me))
  <2>1. Snapshot(s, me).inputs = x /\ Snapshot(s, me).reports = me.reports
    BY <1>3, TheOnly DEF Snapshot
  <2> QED
    BY <1>1, <1>3, <2>1 DEF Contract, Form
<1>5. \A t \in Sessions : Form(session'[t])
  BY <1>0, FreshForm, OneForms DEF End
<1>6. result' \in [Sessions -> Outcomes]
  BY <1>0 DEF End, SessionsInv, Outcomes
<1> QED
  BY <1>0, <1>4, <1>5, <1>6 DEF SessionsInv
-----------------------------------------------------------------------------
\* The history fields are no part of it.
LEMMA HistoryForms ==
  ASSUME NEW me, Form(me), NEW y, DOMAIN y = DOMAIN Fresh,
         \A f \in DOMAIN Fresh \ {"quiet", "steady"} : y[f] = me[f]
  PROVE  Form(y)
<1>1. /\ y.pc = me.pc /\ y.at = me.at /\ y.options = me.options /\ y.seen = me.seen
      /\ y.code = me.code /\ y.used = me.used /\ y.reports = me.reports
      /\ y.asked = me.asked /\ y.version = me.version /\ y.inputs = me.inputs
  BY DEF Fresh
<1>2. \A o \in me.options : Matched(y, o) /\ Holds(y, o)
  <2>1. Done(y) = Done(me)
    BY <1>1 DEF Done
  <2> QED
    BY <1>1, <2>1 DEF Form, Matched, Holds
<1> QED
  BY <1>1, <1>2 DEF Form

\* An edit yields inputs again.
LEMMA EditForms ==
  ASSUME VersionInv, SessionsInv, Edit
  PROVE  SessionsInv'
<1>0. /\ UNCHANGED <<out, contracts, result, started>>
      /\ changes < MaxChanges /\ changes' = changes + 1
      /\ session' = [s \in Sessions |-> [session[s] EXCEPT !.quiet = @ /\ ~Active(s)]]
  BY DEF Edit, Change, disk
<1>1. inputs' \in Inputs
  <2>1. CASE \E c \in Configs : inputs' = [inputs EXCEPT !.config = c]
    BY <2>1 DEF SessionsInv, Inputs
  <2>2. CASE \E c \in Schemas : inputs' = [inputs EXCEPT !.schema = c]
    BY <2>2 DEF SessionsInv, Inputs
  <2>3. CASE \E p \in Packages, t \in Texts : inputs' = [inputs EXCEPT !.text[p] = t]
    BY <2>3 DEF SessionsInv, Inputs
  <2> QED
    BY <2>1, <2>2, <2>3 DEF Edit
<1>2. changes' \in 0..MaxChanges
  BY <1>0, ContractsAssumption DEF SessionsInv
<1>3. ASSUME NEW s \in Sessions PROVE Form(session'[s])
  <2>1. session'[s] = [session[s] EXCEPT !.quiet = @ /\ ~Active(s)]
    BY <1>0
  <2>2. Form(session[s]) /\ DOMAIN session[s] = DOMAIN Fresh
    BY DEF SessionsInv, Form
  <2>3. /\ DOMAIN session'[s] = DOMAIN Fresh
        /\ \A f \in DOMAIN Fresh \ {"quiet", "steady"} : session'[s][f] = session[s][f]
    BY <2>1, <2>2
  <2> QED
    BY <2>2, <2>3, HistoryForms
<1> QED
  BY <1>0, <1>1, <1>2, <1>3 DEF SessionsInv

\* The server is no part of it either.
LEMMA ChangeServerForms ==
  ASSUME VersionInv, SessionsInv, ChangeServer
  PROVE  SessionsInv'
<1>0. /\ UNCHANGED <<inputs, out, contracts, result, started>>
      /\ changes < MaxChanges /\ changes' = changes + 1
      /\ session' = [s \in Sessions |-> [session[s] EXCEPT !.steady = @ /\ ~Active(s)]]
  BY DEF ChangeServer, Change, disk
<1>1. changes' \in 0..MaxChanges
  BY <1>0, ContractsAssumption DEF SessionsInv
<1>2. ASSUME NEW s \in Sessions PROVE Form(session'[s])
  <2>1. session'[s] = [session[s] EXCEPT !.steady = @ /\ ~Active(s)]
    BY <1>0
  <2>2. Form(session[s]) /\ DOMAIN session[s] = DOMAIN Fresh
    BY DEF SessionsInv, Form
  <2>3. /\ DOMAIN session'[s] = DOMAIN Fresh
        /\ \A f \in DOMAIN Fresh \ {"quiet", "steady"} : session'[s][f] = session[s][f]
    BY <2>1, <2>2
  <2> QED
    BY <2>2, <2>3, HistoryForms
<1> QED
  BY <1>0, <1>1, <1>2 DEF SessionsInv
-----------------------------------------------------------------------------
\* The inductive invariant: every session has the form its phase says, it has
\* seen exactly the keys of the packages it has passed, and a bare key served one
\* of them at most.
THEOREM SessionInvariant == Spec => []SessionsInv
<1>1. Init => SessionsInv
  <2> SUFFICES ASSUME Init PROVE SessionsInv
    OBVIOUS
  <2>1. \A s \in Sessions : Form(session[s])
    BY FreshForm DEF Init
  <2>2. DOMAIN out = {} /\ 0 \in 0..MaxSessions /\ 0 \in 0..MaxChanges
    BY ContractsAssumption DEF Init, Empty
  <2> QED
    BY <2>1, <2>2 DEF Init, SessionsInv, Outcomes
<1>2. VersionInv /\ SessionsInv /\ [Next]_vars => SessionsInv'
  <2> SUFFICES ASSUME VersionInv, SessionsInv, [Next]_vars PROVE SessionsInv'
    OBVIOUS
  <2>1. ASSUME NEW s \in Sessions, SessionStep(s) PROVE SessionsInv'
    <3>1. ASSUME Compare(s) \/ Fail(s) PROVE SessionsInv'
      <4>1. PICK outcome \in Outcomes :
              End(s, outcome) /\ UNCHANGED <<inputs, out, contracts, started, changes>>
        BY <3>1 DEF Compare, Fail, world, disk, Outcomes
      <4> QED
        BY <4>1, EndForms
    <3> QED
      BY <2>1, <3>1, OpenForms, LoadConfigForms, ResolveOfflineForms, ResolveServerForms,
         LookupForms, AskVersionForms, DescribeForms, FinishForms, ReplaceForms, SaveForms
         DEF SessionStep
  <2>2. CASE UNCHANGED vars
    BY <2>2 DEF vars, SessionsInv
  <2> QED
    BY <2>1, <2>2, EditForms, ChangeServerForms DEF Next
<1> QED
  BY <1>1, <1>2, VersionInvariant, PTL DEF Spec

\* Every variable has its type: at most one contract is on disk, it is for inputs
\* that could be read and holds a report, and a session uses only reports it has.
THEOREM ContractsTypeCorrect == Spec => []TypeOK
<1>1. VersionInv /\ SessionsInv => TypeOK
  <2> SUFFICES ASSUME VersionInv, SessionsInv PROVE TypeOK
    OBVIOUS
  <2>1. Cardinality(contracts) <= 1
    BY AllEqual DEF SessionsInv
  <2> QED
    BY <2>1 DEF VersionInv, SessionsInv, Form, Contract, Phases, Outcomes, TypeOK
<1> QED
  BY <1>1, VersionInvariant, SessionInvariant, PTL
-----------------------------------------------------------------------------
\* A session succeeds only from its last phases, and it refuses contracts only
\* where it misses a report or compares the inputs.
LEMMA EndsWhere ==
  ASSUME VersionInv, SessionsInv, NEW s \in Sessions, [Next]_vars,
         NEW outcome \in {"ok", "stale"}, Ends(s, outcome)
  PROVE  /\ outcome = "ok" => /\ session[s].pc \in {"compare", "commit"}
                              /\ session[s].pc = "compare" => out = session[s].code
         /\ outcome = "stale" =>
              \/ /\ session[s].pc = "lookup"
                 /\ Key(OptionsOf(s), session[s].at, The(session[s].read))
                      \notin DOMAIN session[s].reports
              \/ session[s].pc = "finish" /\ Stale(session[s])
<1>0. DOMAIN session = Sessions /\ session[s].pc # "idle" /\ session'[s].pc = "idle"
      /\ result'[s] = outcome /\ DOMAIN result = Sessions
  BY DEF VersionInv, SessionsInv, Ends, Active
<1>1. DOMAIN session[s] = DOMAIN Fresh
  BY DEF VersionInv, SessionInv
<1>2. ASSUME NEW t \in Sessions, t # s, SessionStep(t) PROVE FALSE
  <2>1. \E y : session' = [session EXCEPT ![t] = y]
    BY <1>2 DEF SessionStep, Open, LoadConfig, ResolveOffline, ResolveServer, Lookup, Accept,
         AskVersion, Describe, Finish, Compare, Replace, Save, Fail, End, Become
  <2>2. session'[s] = session[s]
    BY <1>0, <1>2, <2>1
  <2> QED
    BY <1>0, <2>2
<1>3. CASE Edit \/ ChangeServer
  <2>1. session'[s].pc = session[s].pc
    BY <1>1, <1>3 DEF Edit, ChangeServer, Fresh
  <2> QED
    BY <1>0, <2>1
<1>4. ASSUME NEW how, End(s, how) PROVE how = outcome
  BY <1>0, <1>4 DEF End
<1>5. ASSUME NEW y, Become(s, y) PROVE y.pc = "idle"
  BY <1>0, <1>5 DEF Become
<1>6. ASSUME NEW me, DOMAIN me = DOMAIN Fresh, NEW report PROVE ~Accept(s, me, report)
  <2> SUFFICES ASSUME Accept(s, me, report) PROVE FALSE
    OBVIOUS
  <2> DEFINE read == The(me.read)
             z == Resolved(me, External[read.schema], read.text, {report})
             y == [z EXCEPT !.version = report.version]
  <2>1. Become(s, y)
    BY <1>4 DEF Accept
  <2>2. DOMAIN z = DOMAIN Fresh /\ z.pc \in {"resolve", "finish"}
    BY <1>6, ResolvedFields
  <2> HIDE DEF z
  <2>3. y.pc = z.pc
    BY <2>2 DEF Fresh
  <2> QED
    BY <1>5, <2>1, <2>2, <2>3
<1>7. CASE SessionStep(s)
  <2>1. ASSUME NEW o \in Options PROVE ~Open(s, o)
    BY <1>0 DEF Open
  <2>2. ~LoadConfig(s) /\ ~AskVersion(s) /\ ~Fail(s)
    <3>1. /\ [session[s] EXCEPT !.pc = "resolve", !.config = {inputs.config}].pc = "resolve"
          /\ [session[s] EXCEPT !.pc = "describe", !.asked = server.version].pc = "describe"
      BY <1>1 DEF Fresh
    <3> QED
      BY <1>4, <1>5, <3>1 DEF LoadConfig, AskVersion, Fail
  <2>3. ~ResolveServer(s)
    <3> DEFINE text == inputs.text[session[s].at]
               k == ExampleKey(OptionsOf(s).examples, session[s].at)
               y == [session[s] EXCEPT !.pc = IF OptionsOf(s).input THEN "lookup" ELSE "version",
                                       !.seen = @ \cup {k},
                                       !.read = {[schema |-> inputs.schema, text |-> text]}]
    <3>1. y.pc # "idle"
      BY <1>1 DEF Fresh
    <3>2. ResolveServer(s) => End(s, "error") \/ Become(s, y)
      BY DEF ResolveServer
    <3> HIDE DEF y
    <3> QED
      BY <1>4, <1>5, <3>1, <3>2
  <2>4. ~ResolveOffline(s)
    <3>1. Resolved(session[s], inputs.schema, inputs.text[session[s].at], {}).pc # "idle"
      BY <1>1, ResolvedFields
    <3> QED
      BY <1>5, <3>1 DEF ResolveOffline
  <2>5. ~Describe(s)
    <3> DEFINE key == Key(OptionsOf(s), session[s].at, The(session[s].read))
               report == [version |-> session[s].asked,
                          columns |-> [key |-> key, server |-> server]]
    <3>1. DOMAIN [session[s] EXCEPT !.reports = With(@, key, report)] = DOMAIN Fresh
      BY <1>1
    <3> QED
      BY <1>6, <3>1 DEF Describe
  <2>6. CASE Lookup(s)
    <3> DEFINE key == Key(OptionsOf(s), session[s].at, The(session[s].read))
    <3>1. DOMAIN [session[s] EXCEPT !.used = @ \cup {key}] = DOMAIN Fresh
      BY <1>1
    <3>2. session[s].pc = "lookup" /\ key \notin DOMAIN session[s].reports /\ End(s, "stale")
      BY <1>6, <2>6, <3>1 DEF Lookup
    <3> QED
      BY <1>4, <3>2
  <2>7. CASE Finish(s)
    <3> DEFINE c == OptionsOf(s)
               y == [session[s] EXCEPT !.pc = IF c.check THEN "compare" ELSE "commit",
                                       !.inputs = IF c.output THEN {inputs} ELSE {}]
    <3>1. y.pc # "idle"
      BY <1>1 DEF Fresh
    <3>2. /\ session[s].pc = "finish"
          /\ End(s, "error") \/ (Stale(session[s]) /\ End(s, "stale")) \/ Become(s, y)
      BY <2>7 DEF Finish
    <3> HIDE DEF y
    <3> QED
      BY <1>4, <1>5, <3>1, <3>2
  <2>8. CASE Compare(s)
    <3>1. (IF out = session[s].code THEN "ok" ELSE "error") = outcome
      BY <1>4, <2>8 DEF Compare
    <3> QED
      BY <2>8, <3>1 DEF Compare
  <2>9. CASE Replace(s) \/ Save(s)
    <3>1. session[s].pc = "commit"
      BY <2>9 DEF Replace, Save
    <3>2. End(s, "ok") \/ \E y : Become(s, y) /\ y.pc # "idle"
      <4>1. [session[s] EXCEPT !.at = @ + 1].pc = "commit"
        BY <1>1, <3>1 DEF Fresh
      <4> QED
        BY <2>9, <4>1 DEF Replace, Save
    <3> QED
      BY <1>4, <1>5, <3>1, <3>2
  <2> QED
    BY <1>7, <2>1, <2>2, <2>3, <2>4, <2>5, <2>6, <2>7, <2>8, <2>9 DEF SessionStep
<1>8. CASE UNCHANGED vars
  BY <1>0, <1>8 DEF vars
<1> QED
  BY <1>2, <1>3, <1>7, <1>8 DEF Next

\* A session that succeeds has given every example to exactly one query, whatever
\* the order of offline and server packages and of bare and full names.
THEOREM EveryExampleServesOneQuery == Spec => ExamplesUsedOnce
<1>1. VersionInv /\ SessionsInv /\ [Next]_vars
        => \A s \in Sessions : Ends(s, "ok")
             => \A k \in DOMAIN OptionsOf(s).examples :
                  Cardinality({p \in Packages \ Offline :
                                 ExampleKey(OptionsOf(s).examples, p) = k}) = 1
  <2> SUFFICES ASSUME VersionInv, SessionsInv, [Next]_vars, NEW s \in Sessions, Ends(s, "ok"),
                      NEW k \in DOMAIN OptionsOf(s).examples
               PROVE  Cardinality({p \in Packages \ Offline :
                                     ExampleKey(OptionsOf(s).examples, p) = k}) = 1
    OBVIOUS
  <2>1. session[s].pc \in {"compare", "commit"} /\ Active(s)
    BY EndsWhere DEF Ends
  <2>2. PICK o \in Options : OptionsOf(s) = o /\ Matched(session[s], o)
    BY <2>1, FormOfActive
  <2> DEFINE P == {p \in Packages \ Offline : ExampleKey(o.examples, p) = k}
  <2>3. Done(session[s]) = Packages
    BY <2>1 DEF Done
  <2>4. PICK p \in Packages \ Offline : ExampleKey(o.examples, p) = k
    BY <2>1, <2>2, <2>3 DEF Matched
  <2>5. \A q \in P : q = p
    <3>1. CASE k = Bare
      BY <2>2, <2>3, <2>4, <3>1 DEF Matched
    <3>2. CASE k # Bare
      BY <2>4, <3>2 DEF ExampleKey
    <3> QED
      BY <3>1, <3>2
  <2>6. P = {p}
    BY <2>4, <2>5
  <2> QED
    BY <2>2, <2>6, FS_Singleton
<1> QED
  BY <1>1, VersionInvariant, SessionInvariant, PTL DEF Spec, ExamplesUsedOnce
-----------------------------------------------------------------------------
\* What is generated for a package from inputs and the report of its query.
Shell(in, p, report) ==
  [config |-> {in.config}, schema |-> IF p \in Offline THEN in.schema ELSE External[in.schema],
   text |-> in.text[p], report |-> report]

KeyAt(o, in, p) == Key(o, p, [schema |-> in.schema, text |-> in.text[p]])

CodeOf(o, in, reports, p) ==
  Shell(in, p, IF p \in Offline THEN {} ELSE {reports[KeyAt(o, in, p)]})

\* The packages whose file has been generated.
Made(me) == IF me.pc \in Analysing THEN {p \in Packages : p < me.at} ELSE Packages

\* Contracts of an undisturbed capture: they are for its queries, and its code
\* follows from its inputs and them.
Faithful(c) ==
  c.quiet =>
    /\ DOMAIN c.reports = {KeyAt(c.options, c.inputs, p) : p \in Packages \ Offline}
    /\ c.steady \/ Cardinality(DOMAIN c.reports) = N - Cardinality(Offline)
         => c.made = [p \in Packages |-> CodeOf(c.options, c.inputs, c.reports, p)]

\* A session that no edit has disturbed works on the inputs in as they are.
Reads(me, o, in) ==
  /\ me.pc # "load" => me.config = {in.config}
  /\ me.pc \in {"lookup", "version", "describe"} =>
       /\ me.at \notin Offline
       /\ me.read = {[schema |-> in.schema, text |-> in.text[me.at]]}
  /\ me.pc = "commit" => ~o.check
  /\ me.pc = "commit" /\ o.output => me.inputs = {in}

\* So does its code, but for the reports.
Generates(me, in) ==
  /\ me.code = [p \in Made(me) |-> me.code[p]]
  /\ \A p \in Made(me) : me.code[p] = Shell(in, p, me.code[p].report)
  /\ \A p \in Made(me) \cap Offline : me.code[p].report = {}

\* A replay takes the reports from the contracts, which turn out to be for the inputs.
Replays(me, o, in) ==
  /\ me.saved # {} /\ me.used = {KeyAt(o, in, p) : p \in Made(me) \ Offline}
  /\ \A c \in me.saved : /\ me.saved = {c} /\ Faithful(c) /\ me.reports = c.reports
                         /\ me.pc \in {"compare", "commit"} => c.inputs = in
  /\ \A p \in Made(me) \ Offline : me.code[p].report = {me.reports[KeyAt(o, in, p)]}

Answer(k, by) == [version |-> by.version, columns |-> [key |-> k, server |-> by]]

\* A session that asks the server has a report for every query done, and the last
\* query with the same key was generated from it.  While the server by stays the
\* same, every query was.
Asks(me, o, in, by) ==
  /\ me.saved = {}
  /\ DOMAIN me.reports = {KeyAt(o, in, p) : p \in Made(me) \ Offline}
  /\ \A p \in Made(me) \ Offline : \E q \in Made(me) \ Offline :
       /\ KeyAt(o, in, q) = KeyAt(o, in, p)
       /\ me.code[q].report = {me.reports[KeyAt(o, in, p)]}
  /\ me.steady =>
       /\ me.pc = "describe" => me.asked = by.version
       /\ \A k \in DOMAIN me.reports : me.reports[k] = Answer(k, by)
       /\ \A p \in Made(me) \ Offline : me.code[p].report = {me.reports[KeyAt(o, in, p)]}

Undisturbed(me, o, in, by) ==
  /\ Reads(me, o, in) /\ Generates(me, in)
  /\ o.input => Replays(me, o, in)
  /\ ~o.input => Asks(me, o, in, by)

Tied(me, in, by) ==
  me.pc # "idle" /\ me.quiet => \A o \in me.options : Undisturbed(me, o, in, by)

ReplayInv ==
  /\ \A c \in contracts : Faithful(c)
  /\ \A s \in Sessions : Tied(session[s], inputs, server)
-----------------------------------------------------------------------------
\* When one session moves, only what it becomes has to be looked at.
LEMMA OneTies ==
  ASSUME VersionInv, ReplayInv, NEW s \in Sessions, NEW me,
         session' = [session EXCEPT ![s] = me], UNCHANGED <<inputs, server>>,
         Tied(me, inputs, server)
  PROVE  \A t \in Sessions : Tied(session'[t], inputs', server')
<1>1. ASSUME NEW t \in Sessions PROVE Tied(session'[t], inputs, server)
  <2>1. session'[t] = IF t = s THEN me ELSE session[t]
    BY DEF VersionInv
  <2> QED
    BY <2>1 DEF ReplayInv
<1> QED
  BY <1>1

\* A session ends.
LEMMA EndTies ==
  ASSUME VersionInv, ReplayInv, NEW s \in Sessions, NEW outcome, End(s, outcome),
         UNCHANGED <<inputs, server, contracts>>
  PROVE  ReplayInv'
<1>1. Tied(Fresh, inputs, server)
  BY DEF Tied, Fresh
<1>2. \A t \in Sessions : Tied(session'[t], inputs', server')
  BY <1>1, OneTies DEF End
<1> QED
  BY <1>2 DEF ReplayInv

\* A session goes on.
LEMMA BecomeTies ==
  ASSUME VersionInv, ReplayInv, NEW s \in Sessions, NEW me, Become(s, me),
         UNCHANGED <<inputs, server, contracts>>,
         NEW o, me.options = {o}, me.quiet => Undisturbed(me, o, inputs, server)
  PROVE  ReplayInv'
<1>1. Tied(me, inputs, server)
  BY DEF Tied
<1>2. \A t \in Sessions : Tied(session'[t], inputs', server')
  BY <1>1, OneTies DEF Become
<1> QED
  BY <1>2 DEF ReplayInv

\* What is known of an active session.
LEMMA TiedActive ==
  ASSUME VersionInv, SessionsInv, ReplayInv, NEW s \in Sessions, Active(s)
  PROVE  \E o \in Options :
            /\ session[s].options = {o} /\ OptionsOf(s) = o
            /\ Called(session[s], o, server.version)
            /\ DOMAIN session[s] = DOMAIN Fresh /\ session[s].at \in 1..(N + 1)
            /\ session[s].quiet => Undisturbed(session[s], o, inputs, server)
<1>1. PICK o \in Options : /\ session[s].options = {o} /\ OptionsOf(s) = o
                           /\ Called(session[s], o, server.version)
                           /\ Form(session[s])
  BY FormOfActive
<1>2. session[s].quiet => Undisturbed(session[s], o, inputs, server)
  BY <1>1 DEF ReplayInv, Tied, Active
<1> QED
  BY <1>1, <1>2 DEF Form

\* A step that generates nothing and adds no report leaves to show what it reads.
LEMMA CarryOver ==
  ASSUME NEW me, NEW y, NEW o, NEW in, NEW by, Undisturbed(me, o, in, by),
         y.code = me.code, y.reports = me.reports, y.saved = me.saved, y.steady = me.steady,
         y.used = me.used, Made(y) = Made(me), Reads(y, o, in),
         me.steady /\ y.pc = "describe" => y.asked = by.version,
         o.input /\ y.pc \in {"compare", "commit"} => \A c \in me.saved : c.inputs = in
  PROVE  Undisturbed(y, o, in, by)
<1>1. Generates(y, in)
  BY DEF Undisturbed, Generates
<1>2. o.input => Replays(y, o, in)
  BY DEF Undisturbed, Replays
<1>3. ~o.input => Asks(y, o, in, by)
  BY DEF Undisturbed, Asks
<1> QED
  BY <1>1, <1>2, <1>3 DEF Undisturbed
-----------------------------------------------------------------------------
\* A session starts with nothing generated; a replay holds the contracts.
LEMMA OpenTies ==
  ASSUME VersionInv, SessionsInv, ReplayInv, NEW s \in Sessions, NEW o \in Options, Open(s, o)
  PROVE  ReplayInv'
<1>0. UNCHANGED <<inputs, server, contracts>>
  BY DEF Open, world, disk
<1>1. CASE End(s, "error")
  BY <1>0, <1>1, EndTies
<1>2. CASE ~End(s, "error")
  <2> DEFINE saved == IF o.input THEN contracts ELSE {}
             reports == IF o.input THEN The(saved).reports ELSE Empty
             me == [Fresh EXCEPT !.pc = "load", !.options = {o}, !.saved = saved,
                                 !.reports = reports]
  <2>1. session' = [session EXCEPT ![s] = me] /\ ~(o.input /\ contracts = {})
    BY <1>2 DEF Open
  <2>2. /\ me.pc = "load" /\ me.at = 1 /\ me.options = {o} /\ me.saved = saved
        /\ me.code = Empty /\ me.reports = reports /\ me.used = {}
    BY DEF Fresh
  <2> HIDE DEF me
  <2>3. Made(me) = {}
    BY <2>2 DEF Made, Packages, Analysing
  <2>4. Reads(me, o, inputs) /\ Generates(me, inputs)
    BY <2>2, <2>3 DEF Reads, Generates, Empty
  <2>5. o.input => Replays(me, o, inputs)
    <3>1. ASSUME o.input, NEW c \in contracts
          PROVE  me.saved = {c} /\ Faithful(c) /\ me.reports = c.reports
      <4>1. contracts = {c}
        BY <3>1 DEF SessionsInv
      <4> QED
        BY <2>2, <3>1, <4>1, TheOnly DEF ReplayInv
    <3> QED
      BY <2>1, <2>2, <2>3, <3>1 DEF Replays
  <2>6. ~o.input => Asks(me, o, inputs, server)
    BY <2>2, <2>3 DEF Asks, Empty
  <2>7. Tied(me, inputs, server)
    BY <2>2, <2>4, <2>5, <2>6 DEF Tied, Undisturbed
  <2>8. \A t \in Sessions : Tied(session'[t], inputs', server')
    BY <1>0, <2>1, <2>7, OneTies
  <2> QED
    BY <1>0, <2>8 DEF ReplayInv
<1> QED
  BY <1>1, <1>2

\* Reading the configuration.
LEMMA LoadConfigTies ==
  ASSUME VersionInv, SessionsInv, ReplayInv, NEW s \in Sessions, LoadConfig(s)
  PROVE  ReplayInv'
<1> DEFINE me == session[s]
           y == [me EXCEPT !.pc = "resolve", !.config = {inputs.config}]
<1>0. /\ UNCHANGED <<inputs, server, contracts>> /\ Become(s, y) /\ me.pc = "load" /\ Active(s)
  BY DEF LoadConfig, world, disk, Active
<1>1. PICK o \in Options : /\ me.options = {o} /\ DOMAIN me = DOMAIN Fresh
                           /\ me.quiet => Undisturbed(me, o, inputs, server)
  BY <1>0, TiedActive
<1>2. /\ y.pc = "resolve" /\ y.at = me.at /\ y.options = {o} /\ y.code = me.code
      /\ y.reports = me.reports /\ y.saved = me.saved /\ y.steady = me.steady
      /\ y.used = me.used /\ y.quiet = me.quiet /\ y.config = {inputs.config}
  BY <1>1 DEF Fresh
<1> HIDE DEF y
<1>3. Made(y) = Made(me) /\ Reads(y, o, inputs)
  BY <1>0, <1>2 DEF Made, Reads, Analysing
<1>4. y.quiet => Undisturbed(y, o, inputs, server)
  BY <1>1, <1>2, <1>3, CarryOver
<1> QED
  BY <1>0, <1>2, <1>4, BecomeTies

\* The files of a server package are read as they are.
LEMMA ResolveServerTies ==
  ASSUME VersionInv, SessionsInv, ReplayInv, NEW s \in Sessions, ResolveServer(s)
  PROVE  ReplayInv'
<1> DEFINE me == session[s]
           text == inputs.text[me.at]
           k == ExampleKey(OptionsOf(s).examples, me.at)
           y == [me EXCEPT !.pc = IF OptionsOf(s).input THEN "lookup" ELSE "version",
                           !.seen = @ \cup {k},
                           !.read = {[schema |-> inputs.schema, text |-> text]}]
<1>0. /\ UNCHANGED <<inputs, server, contracts>>
      /\ me.pc = "resolve" /\ me.at \notin Offline /\ Active(s)
      /\ End(s, "error") \/ Become(s, y)
  BY DEF ResolveServer, world, disk, Active
<1>1. CASE Become(s, y)
  <2>1. PICK o \in Options : /\ me.options = {o} /\ OptionsOf(s) = o /\ DOMAIN me = DOMAIN Fresh
                             /\ me.quiet => Undisturbed(me, o, inputs, server)
    BY <1>0, TiedActive
  <2>2. /\ y.pc \in {"lookup", "version"} /\ y.at = me.at /\ y.options = {o} /\ y.code = me.code
        /\ y.reports = me.reports /\ y.saved = me.saved /\ y.steady = me.steady
        /\ y.used = me.used /\ y.quiet = me.quiet /\ y.config = me.config
        /\ y.read = {[schema |-> inputs.schema, text |-> text]}
    BY <2>1 DEF Fresh
  <2> HIDE DEF y
  <2>3. Made(y) = Made(me)
    BY <1>0, <2>2 DEF Made, Analysing
  <2>4. me.quiet => Reads(y, o, inputs)
    BY <1>0, <2>1, <2>2 DEF Undisturbed, Reads
  <2>5. y.quiet => Undisturbed(y, o, inputs, server)
    BY <2>1, <2>2, <2>3, <2>4, CarryOver
  <2> QED
    BY <1>0, <1>1, <2>2, <2>5, BecomeTies
<1> QED
  BY <1>0, <1>1, EndTies

\* The server tells its version.
LEMMA AskVersionTies ==
  ASSUME VersionInv, SessionsInv, ReplayInv, NEW s \in Sessions, AskVersion(s)
  PROVE  ReplayInv'
<1> DEFINE me == session[s]
           y == [me EXCEPT !.pc = "describe", !.asked = server.version]
<1>0. /\ UNCHANGED <<inputs, server, contracts>> /\ Become(s, y) /\ me.pc = "version" /\ Active(s)
  BY DEF AskVersion, world, disk, Active
<1>1. PICK o \in Options : /\ me.options = {o} /\ DOMAIN me = DOMAIN Fresh
                           /\ me.quiet => Undisturbed(me, o, inputs, server)
  BY <1>0, TiedActive
<1>2. /\ y.pc = "describe" /\ y.at = me.at /\ y.options = {o} /\ y.code = me.code
      /\ y.reports = me.reports /\ y.saved = me.saved /\ y.steady = me.steady
      /\ y.used = me.used /\ y.quiet = me.quiet /\ y.config = me.config /\ y.read = me.read
      /\ y.asked = server.version
  BY <1>1 DEF Fresh
<1> HIDE DEF y
<1>3. Made(y) = Made(me)
  BY <1>0, <1>2 DEF Made, Analysing
<1>4. me.quiet => Reads(y, o, inputs)
  BY <1>0, <1>1, <1>2 DEF Undisturbed, Reads
<1>5. y.quiet => Undisturbed(y, o, inputs, server)
  BY <1>1, <1>2, <1>3, <1>4, CarryOver
<1> QED
  BY <1>0, <1>2, <1>5, BecomeTies

\* A replay gets through Finish only if the contracts are for the inputs.
LEMMA FinishTies ==
  ASSUME VersionInv, SessionsInv, ReplayInv, NEW s \in Sessions, Finish(s)
  PROVE  ReplayInv'
<1> DEFINE me == session[s]
           c == OptionsOf(s)
           y == [me EXCEPT !.pc = IF c.check THEN "compare" ELSE "commit",
                           !.inputs = IF c.output THEN {inputs} ELSE {}]
<1>0. /\ UNCHANGED <<inputs, server, contracts>> /\ me.pc = "finish" /\ Active(s)
      /\ \/ End(s, "error") \/ End(s, "stale")
         \/ ~Stale(me) /\ Become(s, y)
  BY DEF Finish, world, disk, Active
<1>1. CASE ~Stale(me) /\ Become(s, y)
  <2>1. PICK o \in Options : /\ me.options = {o} /\ c = o /\ DOMAIN me = DOMAIN Fresh
                             /\ me.quiet => Undisturbed(me, o, inputs, server)
    BY <1>0, TiedActive
  <2>2. /\ y.pc = (IF o.check THEN "compare" ELSE "commit") /\ y.at = me.at /\ y.options = {o}
        /\ y.code = me.code
        /\ y.reports = me.reports /\ y.saved = me.saved /\ y.steady = me.steady
        /\ y.used = me.used /\ y.quiet = me.quiet /\ y.config = me.config
        /\ y.inputs = (IF o.output THEN {inputs} ELSE {})
    BY <2>1 DEF Fresh
  <2> HIDE DEF y
  <2>3. Made(y) = Made(me)
    BY <1>0, <2>2 DEF Made, Analysing
  <2>4. me.quiet => Reads(y, o, inputs)
    BY <1>0, <2>1, <2>2 DEF Undisturbed, Reads
  <2>5. \A d \in me.saved : d.inputs = inputs
    BY <1>1 DEF Stale
  <2>6. y.quiet => Undisturbed(y, o, inputs, server)
    BY <2>1, <2>2, <2>3, <2>4, <2>5, CarryOver
  <2> QED
    BY <1>0, <1>1, <2>2, <2>6, BecomeTies
<1> QED
  BY <1>0, <1>1, EndTies

\* The next output is replaced.
LEMMA ReplaceTies ==
  ASSUME VersionInv, SessionsInv, ReplayInv, NEW s \in Sessions, Replace(s)
  PROVE  ReplayInv'
<1> DEFINE me == session[s]
           y == [me EXCEPT !.at = @ + 1]
<1>0. /\ UNCHANGED <<inputs, server, contracts>> /\ me.pc = "commit" /\ Active(s)
      /\ End(s, "ok") \/ Become(s, y)
  BY DEF Replace, world, Active
<1>1. CASE Become(s, y)
  <2>1. PICK o \in Options : /\ me.options = {o} /\ DOMAIN me = DOMAIN Fresh
                             /\ me.quiet => Undisturbed(me, o, inputs, server)
    BY <1>0, TiedActive
  <2>2. /\ y.pc = "commit" /\ y.options = {o} /\ y.code = me.code
        /\ y.reports = me.reports /\ y.saved = me.saved /\ y.steady = me.steady
        /\ y.used = me.used /\ y.quiet = me.quiet /\ y.config = me.config /\ y.inputs = me.inputs
    BY <1>0, <2>1 DEF Fresh
  <2> HIDE DEF y
  <2>3. Made(y) = Made(me)
    BY <1>0, <2>2 DEF Made, Analysing
  <2>4. me.quiet => Reads(y, o, inputs)
    BY <1>0, <2>1, <2>2 DEF Undisturbed, Reads
  <2>5. me.quiet /\ o.input => \A d \in me.saved : d.inputs = inputs
    BY <1>0, <2>1 DEF Undisturbed, Replays
  <2>6. y.quiet => Undisturbed(y, o, inputs, server)
    BY <2>1, <2>2, <2>3, <2>4, <2>5, CarryOver
  <2> QED
    BY <1>0, <1>1, <2>2, <2>6, BecomeTies
<1> QED
  BY <1>0, <1>1, EndTies
-----------------------------------------------------------------------------
\* What resolving a package changes of a session, the report left open.
LEMMA ResolvedCode ==
  ASSUME NEW me, DOMAIN me = DOMAIN Fresh, NEW schema, NEW text, NEW report,
         NEW y, y = Resolved(me, schema, text, report)
  PROVE  /\ DOMAIN y = DOMAIN Fresh /\ y.options = me.options /\ y.reports = me.reports
         /\ y.saved = me.saved /\ y.steady = me.steady /\ y.quiet = me.quiet
         /\ y.config = me.config /\ y.used = me.used
         /\ y.code = With(me.code, me.at, [config |-> me.config, schema |-> schema,
                                           text |-> text, report |-> report])
         /\ y.at = (IF me.at < N THEN me.at + 1 ELSE 1)
         /\ y.pc = (IF me.at < N THEN "resolve" ELSE "finish")
  BY DEF Resolved, Fresh

\* The package at hand is generated from the inputs as they are, and this report.
Adds(me, y, in, report) ==
  /\ y.at = (IF me.at < N THEN me.at + 1 ELSE 1)
  /\ y.pc = (IF me.at < N THEN "resolve" ELSE "finish")
  /\ y.code = With(me.code, me.at, Shell(in, me.at, report))

\* What has been generated afterwards.
Added(me, y, report) ==
  /\ Made(y) = Made(me) \cup {me.at}
  /\ \A q \in Made(me) : y.code[q] = me.code[q]
  /\ y.code[me.at].report = report

\* One more package is generated, and the others stay as they are.
LEMMA OneMoreMade ==
  ASSUME NEW me, NEW y, NEW in, NEW report, me.at \in Packages, me.pc \in Analysing,
         Generates(me, in), Adds(me, y, in, report), me.at \in Offline => report = {}
  PROVE  Added(me, y, report) /\ Generates(y, in)
<1>0. N \in Nat /\ N # 0 /\ me.at \in 1..N
  BY ContractsAssumption DEF Packages
<1>1. Made(me) = {p \in Packages : p < me.at}
  BY DEF Made
<1>2. Made(y) = {p \in Packages : p <= me.at}
  BY <1>0 DEF Adds, Made, Packages, Analysing
<1>3. Made(y) = Made(me) \cup {me.at} /\ me.at \notin Made(me)
  BY <1>0, <1>1, <1>2 DEF Packages
<1>4. DOMAIN me.code = Made(me)
  BY DEF Generates
<1>5. y.code = [p \in Made(y) |-> IF p = me.at THEN Shell(in, me.at, report) ELSE me.code[p]]
  BY <1>3, <1>4 DEF Adds, With
<1>6. \A q \in Made(me) : y.code[q] = me.code[q]
  BY <1>3, <1>5
<1>7. y.code[me.at] = Shell(in, me.at, report) /\ y.code[me.at].report = report
  BY <1>3, <1>5 DEF Shell
<1>8. Generates(y, in)
  <2>1. y.code = [p \in Made(y) |-> y.code[p]]
    BY <1>5
  <2>2. ASSUME NEW p \in Made(y) PROVE y.code[p] = Shell(in, p, y.code[p].report)
    BY <1>3, <1>6, <1>7 DEF Generates
  <2>3. ASSUME NEW p \in Made(y) \cap Offline PROVE y.code[p].report = {}
    BY <1>3, <1>6, <1>7 DEF Generates
  <2> QED
    BY <2>1, <2>2, <2>3 DEF Generates
<1> QED
  BY <1>3, <1>6, <1>7, <1>8 DEF Added

\* An offline package needs no report.
LEMMA ResolveOfflineTies ==
  ASSUME VersionInv, SessionsInv, ReplayInv, NEW s \in Sessions, ResolveOffline(s)
  PROVE  ReplayInv'
<1> DEFINE me == session[s]
           y == Resolved(me, inputs.schema, inputs.text[me.at], {})
<1>0. /\ UNCHANGED <<inputs, server, contracts>> /\ Become(s, y)
      /\ me.pc = "resolve" /\ me.at \in Offline /\ Active(s)
  BY DEF ResolveOffline, world, disk, Active
<1>1. PICK o \in Options : /\ me.options = {o} /\ DOMAIN me = DOMAIN Fresh
                           /\ Called(me, o, server.version)
                           /\ me.quiet => Undisturbed(me, o, inputs, server)
  BY <1>0, TiedActive
<1>2. /\ y.options = {o} /\ y.reports = me.reports /\ y.saved = me.saved
      /\ y.steady = me.steady /\ y.quiet = me.quiet /\ y.config = me.config
      /\ y.used = me.used
      /\ y.code = With(me.code, me.at, [config |-> me.config, schema |-> inputs.schema,
                                        text |-> inputs.text[me.at], report |-> {}])
      /\ y.at = (IF me.at < N THEN me.at + 1 ELSE 1)
      /\ y.pc = (IF me.at < N THEN "resolve" ELSE "finish")
  <2>1. y = Resolved(me, inputs.schema, inputs.text[me.at], {})
    OBVIOUS
  <2> HIDE DEF y
  <2> QED
    BY <1>1, <2>1, ResolvedCode
<1> HIDE DEF y
<1>3. me.at \in Packages /\ me.pc \in Analysing
  BY <1>0, <1>1 DEF Called, Analysing
<1>4. ASSUME y.quiet PROVE Undisturbed(y, o, inputs, server)
  <2>1. Undisturbed(me, o, inputs, server) /\ Generates(me, inputs)
    BY <1>1, <1>2, <1>4 DEF Undisturbed
  <2>2. Adds(me, y, inputs, {})
    BY <1>0, <1>2, <2>1 DEF Undisturbed, Reads, Shell, Adds
  <2>3. Added(me, y, {}) /\ Generates(y, inputs)
    BY <1>3, <2>1, <2>2, OneMoreMade
  <2>4. /\ Made(y) \ Offline = Made(me) \ Offline
        /\ \A q \in Made(me) : y.code[q] = me.code[q]
    BY <1>0, <2>3 DEF Added
  <2>5. Reads(y, o, inputs)
    BY <1>0, <1>2, <2>1 DEF Undisturbed, Reads
  <2>6. o.input => Replays(y, o, inputs)
    BY <1>2, <2>1, <2>3, <2>4 DEF Undisturbed, Replays
  <2>7. ~o.input => Asks(y, o, inputs, server)
    BY <1>2, <2>1, <2>3, <2>4 DEF Undisturbed, Asks
  <2> QED
    BY <2>3, <2>5, <2>6, <2>7 DEF Undisturbed
<1> QED
  BY <1>0, <1>2, <1>4, BecomeTies

\* What accepting a report makes of a session, if it is accepted.
LEMMA AcceptFields ==
  ASSUME NEW s \in Sessions, NEW me, DOMAIN me = DOMAIN Fresh, NEW report, Accept(s, me, report)
  PROVE  \/ End(s, "error")
         \/ \E y : /\ Become(s, y)
                   /\ y.options = me.options /\ y.reports = me.reports /\ y.saved = me.saved
                   /\ y.steady = me.steady /\ y.quiet = me.quiet /\ y.config = me.config
                   /\ y.used = me.used
                   /\ LET read == The(me.read) IN
                      y.code = With(me.code, me.at,
                                    [config |-> me.config, schema |-> External[read.schema],
                                     text |-> read.text, report |-> {report}])
                   /\ y.at = (IF me.at < N THEN me.at + 1 ELSE 1)
                   /\ y.pc = (IF me.at < N THEN "resolve" ELSE "finish")
<1> DEFINE read == The(me.read)
           z == Resolved(me, External[read.schema], read.text, {report})
           y == [z EXCEPT !.version = report.version]
<1>1. End(s, "error") \/ Become(s, y)
  BY DEF Accept
<1>2. /\ DOMAIN z = DOMAIN Fresh /\ z.options = me.options /\ z.reports = me.reports
      /\ z.saved = me.saved /\ z.steady = me.steady /\ z.quiet = me.quiet
      /\ z.config = me.config /\ z.used = me.used
      /\ z.code = With(me.code, me.at, [config |-> me.config, schema |-> External[read.schema],
                                        text |-> read.text, report |-> {report}])
      /\ z.at = (IF me.at < N THEN me.at + 1 ELSE 1)
      /\ z.pc = (IF me.at < N THEN "resolve" ELSE "finish")
  BY ResolvedCode
<1> HIDE DEF z
<1>3. /\ y.options = z.options /\ y.reports = z.reports /\ y.saved = z.saved
      /\ y.steady = z.steady /\ y.quiet = z.quiet /\ y.config = z.config /\ y.used = z.used
      /\ y.code = z.code /\ y.at = z.at /\ y.pc = z.pc
  BY <1>2 DEF Fresh
<1> HIDE DEF y
<1> QED
  BY <1>1, <1>2, <1>3

\* What a replay looks up is what it generates from.
LEMMA LookupTies ==
  ASSUME VersionInv, SessionsInv, ReplayInv, NEW s \in Sessions, Lookup(s)
  PROVE  ReplayInv'
<1> DEFINE me == session[s]
           key == Key(OptionsOf(s), me.at, The(me.read))
           m == [me EXCEPT !.used = @ \cup {key}]
           report == me.reports[key]
<1>0. /\ UNCHANGED <<inputs, server, contracts>> /\ me.pc = "lookup" /\ Active(s)
      /\ IF key \in DOMAIN me.reports THEN Accept(s, m, report) ELSE End(s, "stale")
  BY DEF Lookup, world, disk, Active
<1>1. CASE Accept(s, m, report)
  <2>1. PICK o \in Options : /\ me.options = {o} /\ OptionsOf(s) = o /\ DOMAIN me = DOMAIN Fresh
                             /\ Called(me, o, server.version)
                             /\ me.quiet => Undisturbed(me, o, inputs, server)
    BY <1>0, TiedActive
  <2>2. /\ DOMAIN m = DOMAIN Fresh /\ m.options = {o} /\ m.reports = me.reports
        /\ m.saved = me.saved /\ m.steady = me.steady /\ m.quiet = me.quiet
        /\ m.config = me.config /\ m.code = me.code /\ m.at = me.at /\ m.read = me.read
        /\ m.used = me.used \cup {key}
    BY <2>1 DEF Fresh
  <2> HIDE DEF m
  <2>3. CASE End(s, "error")
    BY <1>0, <2>3, EndTies
  <2>4. CASE ~End(s, "error")
    <3> DEFINE read == The(me.read)
    <3>1. PICK y : /\ Become(s, y)
                   /\ y.options = {o} /\ y.reports = me.reports /\ y.saved = me.saved
                   /\ y.steady = me.steady /\ y.quiet = me.quiet /\ y.config = me.config
                   /\ y.used = me.used \cup {key}
                   /\ y.code = With(me.code, me.at,
                                    [config |-> me.config, schema |-> External[read.schema],
                                     text |-> read.text, report |-> {report}])
                   /\ y.at = (IF me.at < N THEN me.at + 1 ELSE 1)
                   /\ y.pc = (IF me.at < N THEN "resolve" ELSE "finish")
      BY <1>1, <2>2, <2>4, AcceptFields
    <3>2. me.at \in Packages /\ me.pc \in Analysing /\ o.input
      BY <1>0, <2>1 DEF Called, Analysing
    <3>3. ASSUME y.quiet PROVE Undisturbed(y, o, inputs, server)
      <4>1. Undisturbed(me, o, inputs, server) /\ Generates(me, inputs)
        BY <2>1, <3>1, <3>3 DEF Undisturbed
      <4>2. /\ me.config = {inputs.config} /\ me.at \notin Offline
            /\ read = [schema |-> inputs.schema, text |-> inputs.text[me.at]]
        BY <1>0, <4>1, TheOnly DEF Undisturbed, Reads
      <4>3. key = KeyAt(o, inputs, me.at)
        BY <2>1, <4>2 DEF KeyAt
      <4>4. Adds(me, y, inputs, {report})
        BY <3>1, <4>2 DEF Shell, Adds
      <4>5. Added(me, y, {report}) /\ Generates(y, inputs)
        BY <3>2, <4>1, <4>2, <4>4, OneMoreMade
      <4>6. Reads(y, o, inputs)
        BY <3>1, <4>2 DEF Reads
      <4> HIDE DEF key, read
      <4>7. Replays(y, o, inputs)
        <5>1. Replays(me, o, inputs)
          BY <3>2, <4>1 DEF Undisturbed
        <5>2. \A p \in Made(y) \ Offline :
                 y.code[p].report = {me.reports[KeyAt(o, inputs, p)]}
          BY <4>3, <4>5, <5>1 DEF Added, Replays
        <5>3. y.used = {KeyAt(o, inputs, p) : p \in Made(y) \ Offline}
          <6>1. Made(y) \ Offline = (Made(me) \ Offline) \cup {me.at}
            BY <4>2, <4>5 DEF Added
          <6>2. me.used = {KeyAt(o, inputs, p) : p \in Made(me) \ Offline}
            BY <5>1 DEF Replays
          <6> QED
            BY <3>1, <4>3, <6>1, <6>2
        <5> QED
          BY <3>1, <5>1, <5>2, <5>3 DEF Replays
      <4> QED
        BY <3>2, <4>5, <4>6, <4>7 DEF Undisturbed
    <3> QED
      BY <1>0, <3>1, <3>3, BecomeTies
  <2> QED
    BY <2>3, <2>4
<1>2. CASE End(s, "stale")
  BY <1>0, <1>2, EndTies
<1> QED
  BY <1>0, <1>1, <1>2

\* The server's report is the one its query, and any other with the key, has now.
LEMMA AskedOneMore ==
  ASSUME NEW me, NEW y, NEW o, NEW in, NEW by, NEW report,
         Asks(me, o, in, by), Added(me, y, {report}), me.at \notin Offline,
         y.saved = me.saved, y.steady = me.steady, y.pc # "describe", me.pc = "describe",
         y.reports = With(me.reports, KeyAt(o, in, me.at), report),
         me.steady /\ me.asked = by.version => report = Answer(KeyAt(o, in, me.at), by)
  PROVE  Asks(y, o, in, by)
<1> DEFINE key == KeyAt(o, in, me.at)
<1>1. DOMAIN y.reports = DOMAIN me.reports \cup {key} /\ y.reports[key] = report
  BY DEF With
<1>2. ASSUME NEW k \in DOMAIN me.reports, k # key PROVE y.reports[k] = me.reports[k]
  BY <1>2 DEF With
<1>3. Made(y) \ Offline = (Made(me) \ Offline) \cup {me.at}
  BY DEF Added
<1>4. DOMAIN me.reports = {KeyAt(o, in, p) : p \in Made(me) \ Offline}
  BY DEF Asks
<1> HIDE DEF key
<1>5. DOMAIN y.reports = {KeyAt(o, in, p) : p \in Made(y) \ Offline}
  BY <1>1, <1>3, <1>4 DEF key
<1>6. ASSUME NEW p \in Made(y) \ Offline
      PROVE  \E q \in Made(y) \ Offline :
               /\ KeyAt(o, in, q) = KeyAt(o, in, p)
               /\ y.code[q].report = {y.reports[KeyAt(o, in, p)]}
  <2>1. CASE KeyAt(o, in, p) = key
    BY <1>1, <1>3, <2>1 DEF Added, key
  <2>2. CASE KeyAt(o, in, p) # key
    <3>1. p \in Made(me) \ Offline /\ KeyAt(o, in, p) \in DOMAIN me.reports
      BY <1>3, <1>4, <2>2 DEF key
    <3>2. PICK q \in Made(me) \ Offline :
               /\ KeyAt(o, in, q) = KeyAt(o, in, p)
               /\ me.code[q].report = {me.reports[KeyAt(o, in, p)]}
      BY <3>1 DEF Asks
    <3> QED
      BY <1>2, <1>3, <2>2, <3>1, <3>2 DEF Added
  <2> QED
    BY <2>1, <2>2
<1>7. ASSUME me.steady
      PROVE  /\ \A k \in DOMAIN y.reports : y.reports[k] = Answer(k, by)
             /\ \A p \in Made(y) \ Offline :
                   y.code[p].report = {y.reports[KeyAt(o, in, p)]}
  <2>1. report = Answer(key, by) /\ \A k \in DOMAIN me.reports : me.reports[k] = Answer(k, by)
    BY <1>7 DEF Asks, key
  <2>2. \A k \in DOMAIN y.reports : y.reports[k] = Answer(k, by)
    BY <1>1, <1>2, <2>1
  <2>3. ASSUME NEW p \in Made(y) \ Offline
        PROVE  y.code[p].report = {Answer(KeyAt(o, in, p), by)}
    <3>1. CASE p = me.at
      BY <2>1, <3>1 DEF Added, key
    <3>2. CASE p # me.at
      <4>1. p \in Made(me) \ Offline /\ KeyAt(o, in, p) \in DOMAIN me.reports
        BY <1>3, <1>4, <3>2
      <4> QED
        BY <1>7, <2>1, <4>1 DEF Added, Asks
    <3> QED
      BY <3>1, <3>2
  <2>4. \A p \in Made(y) \ Offline : KeyAt(o, in, p) \in DOMAIN y.reports
    BY <1>5
  <2> QED
    BY <2>2, <2>3, <2>4
<1>8. me.saved = {}
  BY DEF Asks
<1> QED
  BY <1>5, <1>6, <1>7, <1>8 DEF Asks

\* The server describes the query: version and columns are of one server if it
\* stayed the same.
LEMMA DescribeTies ==
  ASSUME VersionInv, SessionsInv, ReplayInv, NEW s \in Sessions, Describe(s)
  PROVE  ReplayInv'
<1> DEFINE me == session[s]
           key == Key(OptionsOf(s), me.at, The(me.read))
           report == [version |-> me.asked, columns |-> [key |-> key, server |-> server]]
           m == [me EXCEPT !.reports = With(@, key, report)]
<1>0. /\ UNCHANGED <<inputs, server, contracts>> /\ me.pc = "describe" /\ Active(s)
      /\ Accept(s, m, report)
  BY DEF Describe, world, disk, Active
<1>1. PICK o \in Options : /\ me.options = {o} /\ OptionsOf(s) = o /\ DOMAIN me = DOMAIN Fresh
                           /\ Called(me, o, server.version)
                           /\ me.quiet => Undisturbed(me, o, inputs, server)
  BY <1>0, TiedActive
<1>2. /\ DOMAIN m = DOMAIN Fresh /\ m.options = {o} /\ m.reports = With(me.reports, key, report)
      /\ m.saved = me.saved /\ m.steady = me.steady /\ m.quiet = me.quiet
      /\ m.config = me.config /\ m.code = me.code /\ m.at = me.at /\ m.read = me.read
  BY <1>1 DEF Fresh
<1>3. me.asked = server.version => report = Answer(key, server)
  BY DEF Answer
<1> HIDE DEF m, report
<1>4. CASE End(s, "error")
  BY <1>0, <1>4, EndTies
<1>5. CASE ~End(s, "error")
  <2> DEFINE read == The(me.read)
  <2>1. PICK y : /\ Become(s, y)
                 /\ y.options = {o} /\ y.reports = With(me.reports, key, report)
                 /\ y.saved = me.saved
                 /\ y.steady = me.steady /\ y.quiet = me.quiet /\ y.config = me.config
                 /\ y.code = With(me.code, me.at,
                                  [config |-> me.config, schema |-> External[read.schema],
                                   text |-> read.text, report |-> {report}])
                 /\ y.at = (IF me.at < N THEN me.at + 1 ELSE 1)
                 /\ y.pc = (IF me.at < N THEN "resolve" ELSE "finish")
    BY <1>0, <1>2, <1>5, AcceptFields
  <2>2. me.at \in Packages /\ me.pc \in Analysing /\ ~o.input
    BY <1>0, <1>1 DEF Called, Analysing
  <2>3. ASSUME y.quiet PROVE Undisturbed(y, o, inputs, server)
    <3>1. /\ Undisturbed(me, o, inputs, server) /\ Generates(me, inputs)
          /\ Asks(me, o, inputs, server)
      BY <1>1, <2>1, <2>2, <2>3 DEF Undisturbed
    <3>2. /\ me.config = {inputs.config} /\ me.at \notin Offline
          /\ read = [schema |-> inputs.schema, text |-> inputs.text[me.at]]
      BY <1>0, <3>1, TheOnly DEF Undisturbed, Reads
    <3>3. key = KeyAt(o, inputs, me.at)
      BY <1>1, <3>2 DEF KeyAt
    <3>4. Adds(me, y, inputs, {report})
      BY <2>1, <3>2 DEF Shell, Adds
    <3>5. Added(me, y, {report}) /\ Generates(y, inputs)
      BY <2>2, <3>1, <3>2, <3>4, OneMoreMade
    <3>6. Reads(y, o, inputs)
      BY <2>1, <3>2 DEF Reads
    <3> HIDE DEF key, read
    <3>7. me.steady => report = Answer(key, server)
      BY <1>0, <1>3, <3>1 DEF Asks
    <3>8. Asks(y, o, inputs, server)
      BY <1>0, <2>1, <3>1, <3>2, <3>3, <3>5, <3>7, AskedOneMore
    <3> QED
      BY <2>2, <3>5, <3>6, <3>8 DEF Undisturbed
  <2> QED
    BY <1>0, <2>1, <2>3, BecomeTies
<1> QED
  BY <1>4, <1>5
-----------------------------------------------------------------------------
\* As many keys as packages: no two packages share one.
LEMMA KeysApart ==
  ASSUME NEW o, NEW in,
         Cardinality({KeyAt(o, in, p) : p \in Packages \ Offline}) = N - Cardinality(Offline),
         NEW p \in Packages \ Offline, NEW q \in Packages \ Offline,
         KeyAt(o, in, p) = KeyAt(o, in, q)
  PROVE  p = q
<1> DEFINE S == Packages \ Offline
           T == {KeyAt(o, in, r) : r \in S}
           f == [r \in S |-> KeyAt(o, in, r)]
<1>1. IsFiniteSet(Packages) /\ Cardinality(Packages) = N
  BY ContractsAssumption, FS_Interval DEF Packages
<1>2. Packages \cap Offline = Offline
  BY ContractsAssumption
<1>3. IsFiniteSet(S) /\ Cardinality(S) = N - Cardinality(Offline)
  <2>1. /\ IsFiniteSet(Packages \ Offline)
        /\ Cardinality(Packages \ Offline)
             = Cardinality(Packages) - Cardinality(Packages \cap Offline)
    <3> HIDE DEF S, T, f
    <3> QED
      BY <1>1, FS_Difference
  <2> QED
    BY <1>1, <1>2, <2>1
<1>4. f \in Surjection(S, T)
  BY DEF Surjection
<1>5. Cardinality(S) = Cardinality(T)
  BY <1>3
<1>6. f \in Injection(S, T)
  <2> HIDE DEF S, T, f
  <2> QED
    BY <1>3, <1>4, <1>5, FS_SurjSameCardinalityImpliesInj
<1> QED
  BY <1>6 DEF Injection, IsInjective

\* A capture nothing disturbed saves what its code follows from.
LEMMA SaveTies ==
  ASSUME VersionInv, SessionsInv, ReplayInv, NEW s \in Sessions, Save(s)
  PROVE  ReplayInv'
<1> DEFINE me == session[s]
           c == Snapshot(s, me)
<1>0. /\ UNCHANGED <<inputs, server>> /\ me.pc = "commit" /\ me.at = N + 1
      /\ Active(s) /\ contracts' = {c} /\ End(s, "ok")
  BY DEF Save, world, Active
<1>1. PICK o \in Options : /\ me.options = {o} /\ OptionsOf(s) = o
                           /\ Called(me, o, server.version)
                           /\ me.quiet => Undisturbed(me, o, inputs, server)
  BY <1>0, TiedActive
<1>2. o.output /\ ~o.input
  BY <1>0, <1>1 DEF Called
<1>3. /\ c.reports = me.reports /\ c.made = me.code /\ c.quiet = me.quiet
      /\ c.steady = me.steady /\ c.options = o /\ c.inputs = The(me.inputs)
  BY <1>1 DEF Snapshot
<1> HIDE DEF c
<1>4. ASSUME c.quiet, c.steady \/ Cardinality(DOMAIN c.reports) = N - Cardinality(Offline)
      PROVE  c.made = [p \in Packages |-> CodeOf(c.options, c.inputs, c.reports, p)]
  <2>1. /\ Reads(me, o, inputs) /\ Generates(me, inputs) /\ Asks(me, o, inputs, server)
        /\ Made(me) = Packages
    BY <1>0, <1>1, <1>2, <1>3, <1>4 DEF Undisturbed, Made, Analysing
  <2>2. c.inputs = inputs
    BY <1>0, <1>2, <1>3, <2>1, TheOnly DEF Reads
  <2>3. ASSUME NEW p \in Packages \ Offline
        PROVE  me.code[p].report = {me.reports[KeyAt(o, inputs, p)]}
    <3>1. CASE me.steady
      BY <2>1, <2>3, <3>1 DEF Asks
    <3>2. CASE ~me.steady
      <4>1. PICK q \in Packages \ Offline :
                 /\ KeyAt(o, inputs, q) = KeyAt(o, inputs, p)
                 /\ me.code[q].report = {me.reports[KeyAt(o, inputs, p)]}
        BY <2>1, <2>3 DEF Asks
      <4>2. Cardinality({KeyAt(o, inputs, r) : r \in Packages \ Offline})
              = N - Cardinality(Offline)
        BY <1>3, <1>4, <2>1, <3>2 DEF Asks
      <4> QED
        BY <2>3, <4>1, <4>2, KeysApart
    <3> QED
      BY <3>1, <3>2
  <2>4. ASSUME NEW p \in Packages PROVE me.code[p] = CodeOf(o, inputs, me.reports, p)
    <3>1. me.code[p] = Shell(inputs, p, me.code[p].report)
      BY <2>1 DEF Generates
    <3>2. CASE p \in Offline
      BY <2>1, <3>1, <3>2 DEF Generates, CodeOf
    <3>3. CASE p \notin Offline
      BY <2>3, <3>1, <3>3 DEF CodeOf
    <3> QED
      BY <3>2, <3>3
  <2>5. me.code = [p \in Packages |-> me.code[p]]
    BY <2>1 DEF Generates
  <2>6. me.code = [p \in Packages |-> CodeOf(o, inputs, me.reports, p)]
    BY <2>4, <2>5
  <2> QED
    BY <1>3, <2>2, <2>6
<1>5. Faithful(c)
  <2>1. ASSUME c.quiet
        PROVE  DOMAIN c.reports = {KeyAt(o, inputs, p) : p \in Packages \ Offline}
               /\ c.inputs = inputs
    <3>1. Reads(me, o, inputs) /\ Asks(me, o, inputs, server) /\ Made(me) = Packages
      BY <1>0, <1>1, <1>2, <1>3, <2>1 DEF Undisturbed, Made, Analysing
    <3>2. c.inputs = inputs
      BY <1>0, <1>2, <1>3, <3>1, TheOnly DEF Reads
    <3>3. DOMAIN me.reports = {KeyAt(o, inputs, p) : p \in Packages \ Offline}
      BY <3>1 DEF Asks
    <3> QED
      BY <1>3, <3>2, <3>3
  <2> QED
    BY <1>3, <1>4, <2>1 DEF Faithful
<1>6. \A t \in Sessions : Tied(session'[t], inputs', server')
  <2>1. Tied(Fresh, inputs, server)
    BY DEF Tied, Fresh
  <2> QED
    BY <1>0, <2>1, OneTies DEF End
<1> QED
  BY <1>0, <1>5, <1>6 DEF ReplayInv
-----------------------------------------------------------------------------
\* An edit disturbs every session there is.
LEMMA EditTies ==
  ASSUME VersionInv, ReplayInv, Edit
  PROVE  ReplayInv'
<1>1. /\ contracts' = contracts
      /\ session' = [s \in Sessions |-> [session[s] EXCEPT !.quiet = @ /\ ~Active(s)]]
  BY DEF Edit, disk
<1>2. ASSUME NEW s \in Sessions PROVE Tied(session'[s], inputs', server')
  <2>1. session'[s] = [session[s] EXCEPT !.quiet = @ /\ ~Active(s)]
    BY <1>1
  <2>2. DOMAIN session[s] = DOMAIN Fresh
    BY DEF VersionInv, SessionInv
  <2>3. session'[s].pc = session[s].pc /\ session'[s].quiet = (session[s].quiet /\ ~Active(s))
    BY <2>1, <2>2 DEF Fresh
  <2> QED
    BY <2>3 DEF Tied, Active
<1> QED
  BY <1>1, <1>2 DEF ReplayInv

\* A change of the server leaves all as it is but that it stayed the same.
LEMMA ChangeServerTies ==
  ASSUME VersionInv, ReplayInv, ChangeServer
  PROVE  ReplayInv'
<1>1. /\ contracts' = contracts /\ inputs' = inputs
      /\ session' = [s \in Sessions |-> [session[s] EXCEPT !.steady = @ /\ ~Active(s)]]
  BY DEF ChangeServer, disk
<1>2. ASSUME NEW s \in Sessions PROVE Tied(session'[s], inputs', server')
  <2> DEFINE me == session[s]
             y == [me EXCEPT !.steady = @ /\ ~Active(s)]
  <2>1. session'[s] = y
    BY <1>1
  <2>2. DOMAIN me = DOMAIN Fresh
    BY DEF VersionInv, SessionInv
  <2>3. /\ y.pc = me.pc /\ y.at = me.at /\ y.options = me.options /\ y.quiet = me.quiet
        /\ y.config = me.config /\ y.read = me.read /\ y.inputs = me.inputs
        /\ y.code = me.code /\ y.saved = me.saved /\ y.reports = me.reports
        /\ y.used = me.used /\ y.steady = (me.steady /\ ~Active(s))
    BY <2>2 DEF Fresh
  <2> HIDE DEF y
  <2>4. ASSUME NEW o, Undisturbed(me, o, inputs, server), Active(s)
        PROVE  Undisturbed(y, o, inputs, server')
    <3>1. Made(y) = Made(me)
      BY <2>3 DEF Made
    <3>2. Reads(y, o, inputs) /\ Generates(y, inputs)
      BY <2>3, <2>4, <3>1 DEF Undisturbed, Reads, Generates
    <3>3. o.input => Replays(y, o, inputs)
      BY <2>3, <2>4, <3>1 DEF Undisturbed, Replays
    <3>4. ~o.input => Asks(y, o, inputs, server')
      BY <2>3, <2>4, <3>1 DEF Undisturbed, Asks
    <3> QED
      BY <3>2, <3>3, <3>4 DEF Undisturbed
  <2>5. Tied(me, inputs, server)
    BY DEF ReplayInv
  <2>6. Tied(y, inputs, server')
    BY <2>3, <2>4, <2>5 DEF Tied, Active
  <2> QED
    BY <1>1, <2>1, <2>6
<1> QED
  BY <1>1, <1>2 DEF ReplayInv
-----------------------------------------------------------------------------
\* The inductive invariant: what an undisturbed session has read and generated
\* follows from the inputs as they are and from its reports, and what contracts
\* remember of an undisturbed capture follows from them.
THEOREM ReplayInvariant == Spec => []ReplayInv
<1>1. Init => ReplayInv
  BY DEF Init, ReplayInv, Tied, Fresh
<1>2. VersionInv /\ SessionsInv /\ ReplayInv /\ [Next]_vars => ReplayInv'
  <2> SUFFICES ASSUME VersionInv, SessionsInv, ReplayInv, [Next]_vars PROVE ReplayInv'
    OBVIOUS
  <2>1. ASSUME NEW s \in Sessions, SessionStep(s) PROVE ReplayInv'
    <3>1. ASSUME Compare(s) \/ Fail(s) PROVE ReplayInv'
      <4>1. PICK outcome : End(s, outcome) /\ UNCHANGED <<inputs, server, contracts>>
        BY <3>1 DEF Compare, Fail, world, disk
      <4> QED
        BY <4>1, EndTies
    <3> QED
      BY <2>1, <3>1, OpenTies, LoadConfigTies, ResolveOfflineTies, ResolveServerTies,
         LookupTies, AskVersionTies, DescribeTies, FinishTies, ReplaceTies, SaveTies
         DEF SessionStep
  <2>2. CASE UNCHANGED vars
    BY <2>2 DEF vars, ReplayInv
  <2> QED
    BY <2>1, <2>2, EditTies, ChangeServerTies DEF Next
<1> QED
  BY <1>1, <1>2, VersionInvariant, SessionInvariant, PTL DEF Spec

\* Contracts that answer the same call give the same code.
LEMMA SameCode ==
  ASSUME NEW o, NEW d, o.database = d.database, o.examples = d.examples, NEW in, NEW reports,
         NEW p
  PROVE  CodeOf(o, in, reports, p) = CodeOf(d, in, reports, p)
  BY DEF CodeOf, KeyAt, Key

\* A replay that succeeds generates the code of the capture, and a check that
\* passes finds it on disk, under the conditions of ReplayReproducesCapture: no
\* edit during either, and during the capture a steady server or no shared report.
THEOREM ReplayIsFaithful == Spec => ReplayReproducesCapture
<1>1. ASSUME VersionInv, SessionsInv, ReplayInv, [Next]_vars, NEW s \in Sessions,
             Ends(s, "ok"), SameCall(s), session[s].quiet,
             LET c == The(session[s].saved) IN
             c.quiet /\ (c.steady \/ Cardinality(DOMAIN c.reports) = N - Cardinality(Offline))
      PROVE  /\ session[s].code = Captured(s)
             /\ OptionsOf(s).check => out = Captured(s)
  <2> DEFINE me == session[s]
             c == The(me.saved)
  <2>1. /\ me.pc \in {"compare", "commit"} /\ Active(s)
        /\ me.pc = "compare" => out = me.code
    BY <1>1, EndsWhere DEF Ends
  <2>2. PICK o \in Options : /\ OptionsOf(s) = o
                             /\ Undisturbed(me, o, inputs, server)
    BY <1>1, <2>1, TiedActive
  <2>3. me.saved # {}
    BY <1>1 DEF SameCall
  <2>4. Replays(me, o, inputs) /\ Generates(me, inputs) /\ Reads(me, o, inputs)
    BY <2>2, <2>3 DEF Undisturbed, Asks
  <2>5. c \in me.saved
    BY <2>3 DEF The
  <2>6. Faithful(c) /\ me.reports = c.reports /\ c.inputs = inputs
    BY <2>1, <2>4, <2>5 DEF Replays
  <2>7. c.made = [p \in Packages |-> CodeOf(c.options, inputs, me.reports, p)]
    BY <1>1, <2>6 DEF Faithful
  <2>8. c.options.database = o.database /\ c.options.examples = o.examples
    BY <1>1, <2>2 DEF SameCall
  <2> HIDE DEF c
  <2>9. Made(me) = Packages
    BY <2>1 DEF Made, Analysing
  <2>10. ASSUME NEW p \in Packages PROVE me.code[p] = CodeOf(c.options, inputs, me.reports, p)
    <3>1. me.code[p] = Shell(inputs, p, me.code[p].report)
      BY <2>4, <2>9 DEF Generates
    <3>2. me.code[p] = CodeOf(o, inputs, me.reports, p)
      <4>1. CASE p \in Offline
        BY <2>4, <2>9, <3>1, <4>1 DEF Generates, CodeOf
      <4>2. CASE p \notin Offline
        BY <2>4, <2>9, <3>1, <4>2 DEF Replays, CodeOf
      <4> QED
        BY <4>1, <4>2
    <3> QED
      BY <2>8, <3>2, SameCode
  <2>11. me.code = [p \in Packages |-> me.code[p]]
    BY <2>4, <2>9 DEF Generates
  <2>12. me.code = c.made
    BY <2>7, <2>10, <2>11
  <2>13. o.check => me.pc = "compare"
    BY <2>1, <2>4 DEF Reads
  <2> QED
    BY <2>1, <2>2, <2>12, <2>13 DEF Captured, c
<1>2. VersionInv /\ SessionsInv /\ ReplayInv /\ [Next]_vars
        => \A s \in Sessions :
             /\ Ends(s, "ok") /\ SameCall(s) /\ session[s].quiet
             /\ LET c == The(session[s].saved) IN
                c.quiet /\ (c.steady \/ Cardinality(DOMAIN c.reports) = N - Cardinality(Offline))
             => /\ session[s].code = Captured(s)
                /\ OptionsOf(s).check => out = Captured(s)
  BY <1>1
<1> QED
  BY <1>2, VersionInvariant, SessionInvariant, ReplayInvariant, PTL
     DEF Spec, ReplayReproducesCapture

\* Contracts of a capture no edit disturbed are refused as stale only if an input
\* differs: no report is missing, and none is left over, whatever queries share one.
THEOREM FreshIsAccepted == Spec => FreshContractsAccepted
<1>1. ASSUME VersionInv, SessionsInv, ReplayInv, [Next]_vars, NEW s \in Sessions,
             Ends(s, "stale"), SameCall(s), session[s].quiet, The(session[s].saved).quiet,
             The(session[s].saved).inputs = inputs
      PROVE  FALSE
  <2> DEFINE me == session[s]
             c == The(me.saved)
  <2>1. Active(s) /\ (\/ /\ me.pc = "lookup"
                         /\ Key(OptionsOf(s), me.at, The(me.read)) \notin DOMAIN me.reports
                      \/ me.pc = "finish" /\ Stale(me))
    BY <1>1, EndsWhere DEF Ends
  <2>2. PICK o \in Options : /\ OptionsOf(s) = o /\ Called(me, o, server.version)
                             /\ Undisturbed(me, o, inputs, server)
    BY <1>1, <2>1, TiedActive
  <2>3. me.saved # {}
    BY <1>1 DEF SameCall
  <2>4. Replays(me, o, inputs) /\ Reads(me, o, inputs)
    BY <2>2, <2>3 DEF Undisturbed, Asks
  <2>5. c \in me.saved
    BY <2>3 DEF The
  <2>6. me.saved = {c} /\ Faithful(c) /\ me.reports = c.reports
    BY <2>4, <2>5 DEF Replays
  <2>7. c.options.database = o.database /\ c.options.examples = o.examples
    BY <1>1, <2>2 DEF SameCall
  <2>8. c.inputs = inputs /\ c.quiet
    BY <1>1
  <2> HIDE DEF c
  <2>9. \A p \in Packages : KeyAt(c.options, inputs, p) = KeyAt(o, inputs, p)
    BY <2>7 DEF KeyAt, Key
  <2>10. DOMAIN me.reports = {KeyAt(o, inputs, p) : p \in Packages \ Offline}
    <3>1. DOMAIN c.reports = {KeyAt(c.options, inputs, p) : p \in Packages \ Offline}
      BY <2>6, <2>8 DEF Faithful
    <3> QED
      BY <2>6, <2>9, <3>1
  <2>11. me.pc # "lookup"
    <3> SUFFICES ASSUME me.pc = "lookup" PROVE FALSE
      OBVIOUS
    <3>1. me.at \in Packages \ Offline
      BY <2>2, <2>4 DEF Called, Analysing, Reads
    <3>2. Key(OptionsOf(s), me.at, The(me.read)) = KeyAt(o, inputs, me.at)
      BY <2>2, <2>4, TheOnly DEF Reads, KeyAt
    <3> QED
      BY <2>1, <2>10, <3>1, <3>2
  <2>12. ~Stale(me) \/ me.pc # "finish"
    <3> SUFFICES ASSUME me.pc = "finish" PROVE ~Stale(me)
      OBVIOUS
    <3>1. Made(me) = Packages
      BY DEF Made, Analysing
    <3>2. me.used = DOMAIN me.reports
      BY <2>4, <2>10, <3>1 DEF Replays
    <3> QED
      BY <2>6, <2>8, <3>2 DEF Stale
  <2> QED
    BY <2>1, <2>11, <2>12
<1>2. VersionInv /\ SessionsInv /\ ReplayInv /\ [Next]_vars
        => \A s \in Sessions :
             Ends(s, "stale") /\ SameCall(s) /\ session[s].quiet /\ The(session[s].saved).quiet
               => The(session[s].saved).inputs # inputs
  BY <1>1
<1> QED
  BY <1>2, VersionInvariant, SessionInvariant, ReplayInvariant, PTL
     DEF Spec, FreshContractsAccepted
=============================================================================
