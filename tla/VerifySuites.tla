---------------------------- MODULE VerifySuites ----------------------------
(***************************************************************************)
(* The suites of internal/tooling/cmd/verify (config.go, suites.go and     *)
(* offline.go) as scripts: the calls a suite makes on the runner, in their *)
(* order, and under which results of earlier calls it makes them.          *)
(* Arguments and environments are left out.                                *)
(***************************************************************************)
EXTENDS Sequences, SequencesExt, FiniteSets

CONSTANTS
  Seeds,            \* of the type oracle, a sequence
  ExecutionSeeds,   \* of the execution oracle
  Cells,            \* the supported pairs of Go and driver, a sequence
  None              \* no pair was asked for

(***************************************************************************)
(* A call happens if all it needs succeeded, and not all of a nonempty     *)
(* "unless" did; "ends" says that the suite returns if it does not succeed.*)
(***************************************************************************)
NewCall(id, does, files) ==
  [id |-> id, does |-> does, files |-> files, needs |-> {}, unless |-> {}, ends |-> FALSE]

Tool(name) == NewCall(name, "tool", {})
Command(id) == NewCall(id, "command", {})
Gate(id) == NewCall(id, "gate", {})
Output(id, file) == NewCall(id, "output", {file})
Artifact(file) == NewCall(file, "artifact", {file})
Test(id) == NewCall(id, "test", {})
Request(id) == NewCall(id, "request", {})
Inspect(id) == NewCall(id, "inspect", {})
Block(id) == NewCall(id, "block", {})
Writing(call, files) == [call EXCEPT !.files = files]
After(ids, call) == [call EXCEPT !.needs = @ \cup ids]
Unless(ids, call) == [call EXCEPT !.unless = ids]
OrEnd(call) == [call EXCEPT !.ends = TRUE]
AllAfter(ids, calls) == [i \in DOMAIN calls |-> After(ids, calls[i])]
Tests(ids) == [i \in DOMAIN ids |-> Test(ids[i])]

ArgumentCoverage ==
  <<Output("argument-coverage", "argument-support-coverage.json"),
    Unless({"argument-coverage"}, Artifact("argument-support-coverage.json"))>>

Offline ==
  <<Command("verify"), Tool("functionrules")>>
  \o AllAfter({"functionrules"},
       <<Gate("generated-function-rules"), Gate("generated-string-function-rules"),
         Output("function-gaps", "function-gaps.json")>> \o ArgumentCoverage)
  \o <<Tool("supportmanifest"), After({"supportmanifest"}, Gate("support-manifest")),
       After({"support-manifest"}, Output("api-coverage", "api-support-coverage.json")),
       Tool("chgen"), After({"chgen"}, Output("syntax-coverage", "syntax-coverage.json"))>>

Minimum ==
  <<OrEnd(Inspect("go-directive")), OrEnd(Command("compiler")), OrEnd(Inspect("compiler-version")),
    Command("build"), After({"build"}, Command("tests"))>>

Compatibility(cell) ==
  LET Compile(c) == <<Output(c \o "-compiler", c \o "-goroot.txt"),
                      After({c \o "-compiler"}, Inspect(c \o "-goroot")),
                      After({c \o "-goroot"}, Command(c))>>
      cells == IF cell = None THEN Cells ELSE <<cell>>
  IN (IF cell = None THEN <<>> ELSE <<OrEnd(Inspect("matrix"))>>)
     \o <<OrEnd(Tool("drivercompat"))>> \o FlattenSeq([i \in DOMAIN cells |-> Compile(cells[i])])

Fuzz == <<Command("public-pipeline"), Command("function-evidence")>>

\* The prerequisites of a suite that needs a server, before it runs.
Live == <<OrEnd(Inspect("endpoint")), OrEnd(Request("server"))>>

Measured(id, name) ==
  <<Writing(Gate(id), {name, name \o ".diff"}), Artifact(name), Artifact(name \o ".diff")>>

TypeSeeds ==
  LET Seed(s) == <<Writing(Test("oracle-seed" \o s), {"type-seed" \o s}), Artifact("type-seed" \o s)>>
  IN FlattenSeq([i \in DOMAIN Seeds |-> Seed(Seeds[i])])
Ready(calls) == {calls[i].id : i \in DOMAIN calls}

Types ==
  Live
  \o <<Tool("apiinventory"), After({"apiinventory"}, Gate("api-inventory")),
       Tool("supportmanifest"), After({"supportmanifest"}, Gate("support-manifest")),
       After({"support-manifest"}, Output("support-coverage", "api-support-coverage.json")),
       Test("settings"), Test("wrapper-grid"), Tool("functionrules")>>
  \o AllAfter({"functionrules"},
       Measured("function-measurements", "function-measurements.json")
       \o Measured("string-function-measurements", "string-function-measurements.json")
       \o <<Output("function-gaps", "function-gaps.json")>> \o ArgumentCoverage)
  \o Tests(<<"function-rules-runtime", "function-evidence-codec", "function-spelling",
             "aggregate-combinator-domain", "function-regressions">>)
  \o <<Request("flush-system-logs"), After({"flush-system-logs"}, Tool("systemcatalog")),
       After({"systemcatalog"}, Command("system-catalog")),
       After({"flush-system-logs"}, Test("system-runtime"))>>
  \o Tests(<<"catalog-exchange", "date-nullability", "generated-runtime", "server-generation">>)
  \o TypeSeeds
  \o <<After(Ready(TypeSeeds), Tool("oraclegate")), After({"oraclegate"}, Gate("type-union-gate")),
       Unless(Ready(TypeSeeds), Block("type-union-gate"))>>

Execution ==
  LET Seed(s) ==
        <<Writing(Test("oracle-seed" \o s), {"execution-seed" \o s}),
          After({"oracle-seed" \o s}, Artifact("execution-seed" \o s)),
          After({"execution-seed" \o s}, Gate("execution-gate-seed" \o s)),
          Unless({"execution-seed" \o s}, Block("execution-gate-seed" \o s))>>
  IN Live \o <<OrEnd(Tool("execoraclegate"))>>
          \o FlattenSeq([i \in DOMAIN ExecutionSeeds |-> Seed(ExecutionSeeds[i])])

Boundary ==
  Live \o <<Tool("probe"), Tool("probegate")>>
  \o AllAfter({"probe", "probegate"},
       <<Gate("gate-selftest"),
         After({"gate-selftest"}, Writing(Command("probe-run"), {"probe-current"})),
         After({"probe-run"}, Artifact("probe-current")),
         After({"probe-current"}, Gate("boundary-gate")),
         Unless({"probe-current"}, Block("boundary-gate"))>>)

Versions ==
  LET Probed(i) == <<Writing(Command("probe-version" \o i), {"version-probe" \o i}),
                     After({"probe-version" \o i}, Artifact("version-probe" \o i)),
                     Writing(Test("oracle-version" \o i), {"version-oracle" \o i}),
                     After({"oracle-version" \o i}, Artifact("version-oracle" \o i))>>
      both == Probed("0") \o Probed("1")
  IN Live \o <<OrEnd(Inspect("candidate-endpoint")), OrEnd(Request("candidate")),
               Tool("probe"), Tool("probegate"), Tool("oraclediff")>>
     \o AllAfter({"probe", "probegate", "oraclediff"},
          both \o <<Unless(Ready(both), Block("version-comparison")),
                    After(Ready(both), Gate("known-version-boundary")),
                    After({"known-version-boundary"}, NewCall("probe-difference", "difference", {})),
                    After(Ready(both), NewCall("oracle-difference", "observation", {}))>>)

Catalog ==
  <<"offline", "minimum", "compatibility", "fuzz", "types", "execution", "boundary", "versions">>

Script(id, cell) ==
  CASE id = "offline" -> Offline [] id = "minimum" -> Minimum
    [] id = "compatibility" -> Compatibility(cell) [] id = "fuzz" -> Fuzz
    [] id = "types" -> Types [] id = "execution" -> Execution
    [] id = "boundary" -> Boundary [] id = "versions" -> Versions

\* The suites of a run; a selection with an unknown or repeated suite is refused.
Selection(profile, selected) ==
  IF selected # <<>> THEN selected
  ELSE IF profile = "quick" THEN <<"offline", "fuzz">> ELSE Catalog
Selectable(ids) == Range(ids) \subseteq Range(Catalog) /\ IsInjective(ids)

SuiteKey(id, cell) == <<id, IF id = "compatibility" THEN cell ELSE None>>
ExpectedCI ==
  {SuiteKey(id, None) : id \in Range(Catalog) \ {"compatibility"}}
  \cup {SuiteKey("compatibility", c) : c \in Range(Cells)}
-----------------------------------------------------------------------------
(***************************************************************************)
(* What the runner and the merge rely on in the scripts.  It depends on    *)
(* the seeds and the cells: two equal seeds would share a file.            *)
(***************************************************************************)
Executables == {"command", "gate", "observation", "difference", "output", "test", "tool"}
Evident == {"output", "artifact"}
NewCalls ==
  [id : STRING, does : Executables \cup {"artifact", "request", "inspect", "block"},
   files : SUBSET STRING, needs : SUBSET STRING, unless : SUBSET STRING, ends : BOOLEAN]

\* The calls that touch a file.
Touching(calls, f) == {k \in DOMAIN calls : calls[k].does \in Executables /\ f \in calls[k].files}

\* Of each call, the files it may have.
FilesFit(call) ==
  CASE call.does = "output" -> \E f \in call.files : call.files = {f}
    [] call.does = "artifact" -> call.files = {call.id}
    [] call.does \in {"tool", "request", "inspect", "block"} -> call.files = {}
    [] OTHER -> TRUE

\* A call waits only for earlier ones, which do not depend on a failure themselves.
WaitsForEarlier(calls, k) ==
  \A id \in calls[k].needs \cup calls[k].unless :
    \E j \in 1 .. (k - 1) : calls[j].id = id /\ calls[j].unless = {}

\* What a call writes beside its log is taken as an artifact later on, if the
\* call succeeded, and nothing else writes it.
WritesAreTaken(calls, k) ==
  \A f \in calls[k].files :
    /\ Touching(calls, f) = {k}
    /\ \A j \in k .. Len(calls) : ~calls[j].ends
    /\ \E a \in (k + 1) .. Len(calls) :
         /\ calls[a].does = "artifact" /\ calls[a].id = f /\ calls[a].unless = {}
         /\ calls[a].needs \subseteq calls[k].needs \cup {calls[k].id}

SoundScript(calls) ==
  /\ calls \in Seq(NewCalls)
  /\ \E k \in DOMAIN calls : /\ calls[k].does \in (Executables \ {"tool"}) \cup {"request"}
                             /\ calls[k].needs = {} /\ calls[k].unless = {}
  /\ \A k \in DOMAIN calls :
       /\ FilesFit(calls[k]) /\ WaitsForEarlier(calls, k)
       /\ calls[k].does \in Executables \ {"output"} => WritesAreTaken(calls, k)
       /\ calls[k].does = "block" => calls[k].unless # {}
       /\ calls[k].does = "artifact" /\ calls[k].unless = {} =>
            \E j \in Touching(calls, calls[k].id) : j < k /\ calls[j].unless = {}
       /\ calls[k].does \in Evident =>
            \E j \in DOMAIN calls : /\ calls[j].does \in Evident /\ calls[j].unless = {}
                                  /\ calls[j].files = calls[k].files

\* Only a file that an output call truncates first is shared by two suites.
ApartScripts(calls, others) ==
  \A k \in DOMAIN calls : calls[k].does \in Executables \ {"output"} =>
    \A f \in calls[k].files : Touching(others, f) = {}

CellsAsked == Range(Cells) \cup {None}
ASSUME ScriptsAssumption ==
  /\ None \notin Range(Catalog)
  /\ \A id \in Range(Catalog), cell \in CellsAsked : SoundScript(Script(id, cell))
  /\ \A id, other \in Range(Catalog), cell \in CellsAsked :
       id # other => ApartScripts(Script(id, cell), Script(other, cell))
=============================================================================
