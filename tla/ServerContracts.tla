-------------------------- MODULE ServerContracts --------------------------
(***************************************************************************)
(* Server generation and its saved result contracts (internal/project:     *)
(* server.go, server_analysis.go, server_snapshot.go; internal/describe).  *)
(*                                                                         *)
(* A session reads the inputs, obtains the result columns of every query   *)
(* from the server or from the saved contracts, and ends by comparing or   *)
(* replacing the outputs.  A capture also saves the contracts, with a      *)
(* digest of the inputs.  Sessions may overlap, may stop at any point, and *)
(* people edit the inputs and the server changes at any moment.            *)
(*                                                                         *)
(* Simplifications: each package has one query file with one query, all    *)
(* queries have the same name and join the external table; hashes do not   *)
(* collide; files of one package that are read in a row are read at once   *)
(* (edits of different files commute); what Generate makes of its inputs   *)
(* is the record of them.  Composed queries are left out.                  *)
(***************************************************************************)
EXTENDS Naturals, FiniteSets

CONSTANTS
  Sessions,       \* concurrent invocations
  N,              \* number of packages
  Offline,        \* packages with "analysis: offline"
  Configs, Schemas, Texts,   \* contents of the input files
  External,       \* schema -> structure of its external tables
  Parameterised,  \* the SQL texts that have a native parameter
  Options,        \* how sessions are called
  Tables,         \* states of the server's database
  MaxVersion,     \* the server is upgraded up to this version
  MaxSessions,    \* how many sessions are started
  MaxChanges      \* how often inputs and server change

Packages == 1..N
Bare == 0
ExampleKeys == Packages \cup {Bare}

ASSUME ContractsAssumption ==
  /\ {N, MaxVersion} \subseteq Nat \ {0} /\ {MaxSessions, MaxChanges} \subseteq Nat
  /\ Offline \subseteq Packages
  /\ DOMAIN External = Schemas
  /\ \A o \in Options : {o.input, o.output, o.check} \subseteq BOOLEAN
                        /\ DOMAIN o.examples \subseteq ExampleKeys

VARIABLES
  inputs,      \* the input files: configuration, schema and query files
  server,      \* version and database of the ClickHouse server
  out,         \* package -> the generated file on disk (absent: not in the domain)
  contracts,   \* the saved contracts on disk: at most one snapshot
  session,     \* session[s]: the local state of an invocation
  result,      \* result[s]: how its last invocation ended
  started,     \* sessions started
  changes      \* edits, upgrades and migrations so far

vars == <<inputs, server, out, contracts, session, result, started, changes>>
disk == <<out, contracts>>
world == <<inputs, server, changes>>

Empty == [x \in {} |-> x]
With(f, x, v) == [y \in DOMAIN f \cup {x} |-> IF y = x THEN v ELSE f[y]]

\* The local state of a session; quiet and steady are history: since it was
\* started nobody edited an input, and the server stayed as it was.
Fresh == [pc |-> "idle", at |-> 1, options |-> {}, saved |-> {}, reports |-> Empty,
          used |-> {}, seen |-> {}, config |-> {}, read |-> {}, asked |-> 0, version |-> 0,
          code |-> Empty, inputs |-> {}, quiet |-> TRUE, steady |-> TRUE]

Inputs == [config: Configs, schema: Schemas, text: [Packages -> Texts]]

TypeOK ==
  /\ inputs \in Inputs
  /\ server \in [version: 1..MaxVersion, tables: Tables]
  /\ DOMAIN out \subseteq Packages /\ Cardinality(contracts) <= 1
  /\ \A c \in contracts : c.inputs \in Inputs /\ DOMAIN c.reports # {}
  /\ result \in [Sessions -> {"none", "ok", "stale", "error"}]
  /\ started \in 0..MaxSessions /\ changes \in 0..MaxChanges
  /\ \A s \in Sessions :
       LET me == session[s] IN
       /\ DOMAIN me = DOMAIN Fresh
       /\ me.pc \in {"idle", "load", "resolve", "lookup", "version", "describe", "finish",
                     "compare", "commit"}
       /\ me.at \in 1..(N + 1)
       /\ me.options \subseteq Options /\ me.seen \subseteq ExampleKeys
       /\ DOMAIN me.code \subseteq Packages /\ me.used \subseteq DOMAIN me.reports
       /\ {me.asked, me.version} \subseteq 0..MaxVersion

Init ==
  /\ inputs \in Inputs
  /\ server \in [version: {1}, tables: Tables]
  /\ out = Empty /\ contracts = {}
  /\ session = [s \in Sessions |-> Fresh]
  /\ result = [s \in Sessions |-> "none"]
  /\ started = 0 /\ changes = 0
-----------------------------------------------------------------------------
The(S) == CHOOSE x \in S : TRUE
OptionsOf(s) == The(session[s].options)
Active(s) == session[s].pc # "idle"

\* The session returns.
End(s, outcome) ==
  /\ session' = [session EXCEPT ![s] = Fresh]
  /\ result' = [result EXCEPT ![s] = outcome]

Become(s, me) == session' = [session EXCEPT ![s] = me] /\ UNCHANGED result

\* openServerSnapshot: capture excludes replay and check; a replay starts from
\* the contracts that are on disk now.
Open(s, o) ==
  /\ session[s].pc = "idle" /\ started < MaxSessions
  /\ started' = started + 1
  /\ IF (o.output /\ (o.input \/ o.check)) \/ (o.input /\ contracts = {})
     THEN End(s, "error")
     ELSE LET saved == IF o.input THEN contracts ELSE {} IN
          /\ session' = [session EXCEPT ![s] =
               [Fresh EXCEPT !.pc = "load", !.options = {o}, !.saved = saved,
                             !.reports = IF o.input THEN The(saved).reports ELSE Empty]]
          /\ result' = [result EXCEPT ![s] = "none"]
  /\ UNCHANGED <<world, disk>>

LoadConfig(s) ==
  /\ session[s].pc = "load"
  /\ Become(s, [session[s] EXCEPT !.pc = "resolve", !.config = {inputs.config}])
  /\ UNCHANGED <<world, disk, started>>
-----------------------------------------------------------------------------
(***************************************************************************)
(* Resolving the queries of one package after the other.                   *)
(***************************************************************************)

\* "package.Query" if the examples have it, else the bare query name.
ExampleKey(examples, p) == IF p \in DOMAIN examples THEN p ELSE Bare
Example(examples, p) ==
  LET k == ExampleKey(examples, p) IN IF k \in DOMAIN examples THEN examples[k] ELSE "none"

\* A bare entry is never ambiguous (a seeded fault).
AmbiguousNever(me, k) == FALSE

\* A bare entry that another query has looked up already.
Ambiguous(me, k) == k = Bare /\ k \in DOMAIN The(me.options).examples /\ k \in me.seen

\* validateServerExamples: exactly the parameters of the query have a value.
ExamplesFit(examples, k, text) == text.sql \in Parameterised <=> k \in DOMAIN examples

\* What snapshotHash binds a report to.
Key(o, p, read) ==
  [sql |-> read.text.sql, database |-> o.database, parameters |-> Example(o.examples, p),
   external |-> External[read.schema]]

\* The package is resolved and its file generated in memory.
Resolved(me, schema, text, report) ==
  LET p == me.at IN
  [me EXCEPT !.code = With(@, p, [config |-> me.config, schema |-> schema, text |-> text,
                                  report |-> report]),
             !.read = {}, !.asked = 0,
             !.at = IF p < N THEN p + 1 ELSE 1, !.pc = IF p < N THEN "resolve" ELSE "finish"]

\* An offline package: catalogs and query files are analysed locally.
ResolveOffline(s) ==
  LET me == session[s] IN
  /\ me.pc = "resolve" /\ me.at \in Offline
  /\ Become(s, Resolved(me, inputs.schema, inputs.text[me.at], {}))
  /\ UNCHANGED <<world, disk, started>>

\* A server package: the files are read and the examples matched.
ResolveServer(s) ==
  LET me == session[s]
      text == inputs.text[me.at]
      examples == OptionsOf(s).examples
      k == ExampleKey(examples, me.at)
  IN /\ me.pc = "resolve" /\ me.at \notin Offline
     /\ IF Ambiguous(me, k) \/ ~ExamplesFit(examples, k, text)
        THEN End(s, "error")
        ELSE Become(s, [me EXCEPT !.pc = IF OptionsOf(s).input THEN "lookup" ELSE "version",
                                  !.seen = @ \cup {k},
                                  !.read = {[schema |-> inputs.schema, text |-> text]}])
     /\ UNCHANGED <<world, disk, started>>

\* The version of a report is never compared (a seeded fault).
VersionChangedNever(me, report) == FALSE

\* analyzeServerQuery: all reports of a session name one server version.
VersionChanged(me, report) == me.version # 0 /\ me.version # report.version

\* A report arrived for the query at hand.
Accept(s, me, report) ==
  LET read == The(me.read) IN
  IF VersionChanged(me, report) THEN End(s, "error")
  ELSE Become(s, [Resolved(me, External[read.schema], read.text, {report})
                    EXCEPT !.version = report.version])

\* Replay: the report saved under the query's key.
Lookup(s) ==
  LET me == session[s]
      key == Key(OptionsOf(s), me.at, The(me.read))
  IN /\ me.pc = "lookup"
     /\ IF key \in DOMAIN me.reports
        THEN Accept(s, [me EXCEPT !.used = @ \cup {key}], me.reports[key])
        ELSE End(s, "stale")
     /\ UNCHANGED <<world, disk, started>>

\* queryPrepared makes two requests: the version ...
AskVersion(s) ==
  /\ session[s].pc = "version"
  /\ Become(s, [session[s] EXCEPT !.pc = "describe", !.asked = server.version])
  /\ UNCHANGED <<world, disk, started>>

\* ... and the DESCRIBE, which whatever server is there by then answers.
Describe(s) ==
  LET me == session[s]
      key == Key(OptionsOf(s), me.at, The(me.read))
      report == [version |-> me.asked, columns |-> [key |-> key, server |-> server]]
  IN /\ me.pc = "describe"
     /\ Accept(s, [me EXCEPT !.reports = With(@, key, report)], report)
     /\ UNCHANGED <<world, disk, started>>
-----------------------------------------------------------------------------
(***************************************************************************)
(* Finishing.                                                              *)
(***************************************************************************)

\* Reports are counted against queries instead of used reports (a seeded fault).
StaleByQueries(me) ==
  \E c \in me.saved : c.inputs # inputs \/ N - Cardinality(Offline) # Cardinality(DOMAIN me.reports)

\* The digest of the inputs is not compared (a seeded fault).
StaleUndigested(me) ==
  me.saved # {} /\ Cardinality(me.used) # Cardinality(DOMAIN me.reports)

\* The inputs, read again, differ from the saved digest, or reports are left over.
Stale(me) ==
  \E c \in me.saved : c.inputs # inputs \/ Cardinality(me.used) # Cardinality(DOMAIN me.reports)

\* serverSnapshot.finish, then the check that every example was looked up.
Finish(s) ==
  LET me == session[s]
      o == OptionsOf(s)
  IN /\ me.pc = "finish"
     /\ \/ Stale(me) /\ End(s, "stale")
        \/ /\ ~Stale(me)
           /\ (o.output /\ me.reports = Empty) \/ ~(DOMAIN o.examples \subseteq me.seen)
           /\ End(s, "error")
        \/ /\ ~Stale(me)
           /\ o.output => me.reports # Empty
           /\ DOMAIN o.examples \subseteq me.seen
           /\ Become(s, [me EXCEPT !.pc = IF o.check THEN "compare" ELSE "commit",
                                   !.inputs = IF o.output THEN {inputs} ELSE {}])
     /\ UNCHANGED <<world, disk, started>>

\* check: every output is what was generated.
Compare(s) ==
  /\ session[s].pc = "compare"
  /\ End(s, IF out = session[s].code THEN "ok" ELSE "error")
  /\ UNCHANGED <<world, disk, started>>

\* The commit replaces the outputs in plan order (see OutputCommit) ...
Replace(s) ==
  LET me == session[s] IN
  /\ me.pc = "commit" /\ me.at <= N
  /\ out' = With(out, me.at, me.code[me.at])
  /\ IF me.at < N \/ OptionsOf(s).output
     THEN Become(s, [me EXCEPT !.at = @ + 1])
     ELSE End(s, "ok")
  /\ UNCHANGED <<world, contracts, started>>

\* What is saved.  The fields from "made" on are history: what the capture
\* generated, and how it ran.
Snapshot(s, me) ==
  [inputs |-> The(me.inputs), reports |-> me.reports,
   made |-> me.code, quiet |-> me.quiet, steady |-> me.steady, options |-> OptionsOf(s)]

\* The old contracts stay beside the new ones (a seeded fault).
SaveBeside(s) ==
  LET me == session[s] IN
  /\ me.pc = "commit" /\ me.at = N + 1
  /\ contracts' = contracts \cup {Snapshot(s, me)}
  /\ End(s, "ok")
  /\ UNCHANGED <<world, out, started>>

\* ... and the contracts, the last entry of the plan of a capture.
Save(s) ==
  LET me == session[s] IN
  /\ me.pc = "commit" /\ me.at = N + 1
  /\ contracts' = {Snapshot(s, me)}
  /\ End(s, "ok")
  /\ UNCHANGED <<world, out, started>>

\* An unreadable file, a path collision, a refusal or timeout of the server, a
\* failed system call, or the death of the process.
Fail(s) ==
  /\ Active(s)
  /\ End(s, "error")
  /\ UNCHANGED <<world, disk, started>>
-----------------------------------------------------------------------------
(***************************************************************************)
(* The people around it.                                                   *)
(***************************************************************************)

Change == changes < MaxChanges /\ changes' = changes + 1

\* One input file is edited.
Edit ==
  /\ Change
  /\ \/ \E c \in Configs : inputs' = [inputs EXCEPT !.config = c]
     \/ \E c \in Schemas : inputs' = [inputs EXCEPT !.schema = c]
     \/ \E p \in Packages, t \in Texts : inputs' = [inputs EXCEPT !.text[p] = t]
  /\ inputs' # inputs
  /\ session' = [s \in Sessions |-> [session[s] EXCEPT !.quiet = @ /\ ~Active(s)]]
  /\ UNCHANGED <<server, disk, result, started>>

\* The server is upgraded, never downgraded, or its database is migrated.
ChangeServer ==
  /\ Change
  /\ \/ server.version < MaxVersion /\ server' = [server EXCEPT !.version = @ + 1]
     \/ \E t \in Tables \ {server.tables} : server' = [server EXCEPT !.tables = t]
  /\ session' = [s \in Sessions |-> [session[s] EXCEPT !.steady = @ /\ ~Active(s)]]
  /\ UNCHANGED <<inputs, disk, result, started>>

SessionStep(s) ==
  \/ \E o \in Options : Open(s, o)
  \/ LoadConfig(s) \/ ResolveOffline(s) \/ ResolveServer(s)
  \/ Lookup(s) \/ AskVersion(s) \/ Describe(s)
  \/ Finish(s) \/ Compare(s) \/ Replace(s) \/ Save(s)
  \/ Fail(s)

Next == (\E s \in Sessions : SessionStep(s)) \/ Edit \/ ChangeServer

Spec == Init /\ [][Next]_vars
-----------------------------------------------------------------------------
(***************************************************************************)
(* What saved contracts are for.                                           *)
(***************************************************************************)

Ends(s, outcome) == Active(s) /\ session'[s].pc = "idle" /\ result'[s] = outcome

\* A replay called with the database and the examples of the capture.
SameCall(s) ==
  /\ session[s].saved # {}
  /\ LET c == The(session[s].saved) IN
     /\ c.options.database = OptionsOf(s).database
     /\ c.options.examples = OptionsOf(s).examples

Captured(s) == The(session[s].saved).made

\* A replay that succeeds generates exactly the code of the capture, and a
\* check that passes finds it on disk: whatever the server has become since,
\* whichever sessions failed or stopped half way in between.  No input was
\* edited during the capture or the replay, and during the capture the server
\* stayed as it was, or else no two queries share a report.
ReplayReproducesCapture ==
  [][\A s \in Sessions :
       /\ Ends(s, "ok") /\ SameCall(s) /\ session[s].quiet
       /\ LET c == The(session[s].saved) IN
          c.quiet /\ (c.steady \/ Cardinality(DOMAIN c.reports) = N - Cardinality(Offline))
       => /\ session[s].code = Captured(s)
          /\ OptionsOf(s).check => out = Captured(s)]_vars

\* Contracts are refused as stale only if an input, the database or the
\* examples differ from those of the capture.
FreshContractsAccepted ==
  [][\A s \in Sessions :
       Ends(s, "stale") /\ SameCall(s) /\ session[s].quiet /\ The(session[s].saved).quiet
         => The(session[s].saved).inputs # inputs]_vars

\* Saved contracts name one server version.  An upgrade can fall between the
\* two requests of one query, so one report, and no more, can be the answer of
\* a later server than it says.
OneServerVersion ==
  \A c \in contracts : \E v \in 1..MaxVersion :
    /\ \A k \in DOMAIN c.reports : c.reports[k].version = v
    /\ Cardinality({k \in DOMAIN c.reports : c.reports[k].columns.server.version # v}) <= 1

\* A session that succeeds has given every example to exactly one query.
ExamplesUsedOnce ==
  [][\A s \in Sessions : Ends(s, "ok")
       => \A k \in DOMAIN OptionsOf(s).examples :
            Cardinality({p \in Packages \ Offline :
                           ExampleKey(OptionsOf(s).examples, p) = k}) = 1]_vars

\* docs/server-generation.md: a replay of unchanged inputs "produces the same
\* generated code", without the condition on how the capture ran.
ReplayReproduces ==
  [][\A s \in Sessions : Ends(s, "ok") /\ SameCall(s) /\ session[s].quiet
       => session[s].code = Captured(s)]_vars
=============================================================================
