---------------------------- MODULE MCOutputPlan ----------------------------
(* The instance of OutputPlan that TLC checks. *)
EXTENDS OutputPlan, TLC

MCDirectories == {"a", "A", "b", "l"}
MCNames == {"x.go", "X.go", "s.sql", "q.sql", "c.yaml"}
MCFolded == [w \in MCDirectories \cup MCNames \cup {Nowhere} |->
               CASE w = "A" -> "a" [] w = "X.go" -> "x.go" [] OTHER -> w]
At(d, n) == [dir |-> d, name |-> n]

\* Directory a holds the configuration, a schema and queries.  What b, A and the
\* link l are, and what lies in b, varies.
Empty == [n \in MCNames |-> Absent]
EntryIn(b, out, old) ==
    [d \in MCDirectories |->
       CASE d = "a" -> [Empty EXCEPT !["c.yaml"] = File(1), !["s.sql"] = File(2), !["q.sql"] = File(3),
                                     !["x.go"] = old]
         [] d = "b" -> [Empty EXCEPT !["s.sql"] = b, !["x.go"] = out]
         [] OTHER -> Empty]
Targets(b, A, l) == ("a" :> "a") @@ ("b" :> b) @@ ("A" :> A) @@ ("l" :> l)
MCDisks ==
    {[sensitive |-> c, target |-> Targets("b", A, l), entry |-> EntryIn(b, out, Absent)] :
        c \in BOOLEAN, A \in {Nowhere}, l \in {"a", "b", "A"},
        b \in {File(2), File(4), Link(At("a", "s.sql"))}, out \in {Absent, File(5)}}
    \cup
    {[sensitive |-> c, target |-> Targets("b", Nowhere, Nowhere), entry |-> EntryIn(b, out, old)] :
        c \in BOOLEAN, b \in {Absent, Folder, Device, Link(At("a", "x.go"))},
        out \in {Link(At("a", "c.yaml")), File(3), File(1)}, old \in {Absent, File(3)}}
    \cup
    {[sensitive |-> TRUE, target |-> Targets(Nowhere, "A", l), entry |-> EntryIn(Absent, Absent, File(5))] :
        l \in {"A", "b"}}

Path(d, n) == [is |-> "path", path |-> At(d, n)]
Directory(d) == [is |-> "directory", dir |-> d]
Glob(ds, wild, ns) == [is |-> "glob", dirs |-> ds, wild |-> wild, names |-> ns]
Package(o, s, q) == [output |-> o, schema |-> s, queries |-> q]
Everywhere == MCDirectories
MCConfigurations ==
    {[file |-> At("a", "c.yaml"), packages |-> ps] : ps \in
        {<<Package(At("a", "x.go"), <<Path("a", "s.sql")>>, <<Path("a", "q.sql")>>),
           Package(o, <<Glob(Everywhere, TRUE, {"s.sql", "c.yaml"})>>, <<Path("a", "q.sql")>>)>> :
            o \in {At("b", "x.go"), At("A", "X.go"), At("l", "X.go"), At("b", "c.yaml"), At("a", "X.go")}}
        \cup
        {<<Package(At("b", "x.go"), <<Path("l", "s.sql"), Directory("b")>>, <<Glob({"a"}, FALSE, {"q.sql"})>>)>>,
         <<Package(At("b", "x.go"), <<Directory("b")>>, <<Directory("a")>>)>>,
         <<Package(At("b", "x.go"), <<Directory("l")>>, <<Path("a", "q.sql")>>)>>,
         <<Package(At("b", "X.go"), <<Path("b", "s.sql")>>, <<Path("a", "q.sql"), Path("a", "c.yaml")>>)>>,
         <<Package(At("a", "X.go"), <<Path("a", "s.sql")>>, <<Path("a", "q.sql"), Path("l", "x.go")>>),
           Package(At("b", "x.go"), <<Path("a", "s.sql")>>, <<Path("a", "x.go")>>)>>,
         <<Package(At("a", "x.go"), <<Path("a", "s.sql")>>, <<Path("a", "q.sql")>>),
           Package(At("b", "x.go"), <<Path("a", "q.sql")>>, <<Path("a", "s.sql")>>)>>}}
MCTroubled == {At("a", "c.yaml"), At("b", "s.sql"), At("a", "q.sql"), At("a", "s.sql")}
=============================================================================
