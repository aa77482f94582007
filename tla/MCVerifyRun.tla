---------------------------- MODULE MCVerifyRun ----------------------------
(* The instance of VerifyRun that TLC checks. *)
EXTENDS VerifyRun

MCSeeds == <<"1", "7">>
MCExecutionSeeds == <<"1">>
MCCells == <<"go1.24.0-driver2.42.0", "go1.25.0-driver2.47.0">>

NewShard(profile, selected, cell) == [profile |-> profile, selected |-> selected, cell |-> cell]
One(id) == NewShard("full", <<id>>, None)
Cell(i) == NewShard("full", <<"compatibility">>, MCCells[i])
NewScenario(shards, expect, limit) == [shards |-> shards, expect |-> expect, faults |-> limit]
Keys(ids) == {SuiteKey(id, None) : id \in ids}

MCScenarios ==
  {NewScenario(<<NewShard("quick", <<>>, None)>>, Keys({"offline", "fuzz"}), 1),
   NewScenario(<<NewShard("full", <<>>, None)>>, Keys({}), 1),
   NewScenario(<<One("boundary"), One("execution")>>, Keys({"boundary", "execution"}), 2),
   NewScenario(<<One("minimum"), Cell(1), Cell(2)>>, Keys({"minimum"}) \cup {SuiteKey("compatibility", c) : c \in Range(MCCells)}, 2),
   NewScenario(<<One("fuzz"), NewShard("full", <<"boundary", "versions">>, None)>>, Keys({"fuzz", "boundary"}), 1),
   NewScenario(<<NewShard("full", <<"fuzz", "boundary">>, None), One("fuzz")>>, {}, 2),
   NewScenario(<<NewShard("full", <<"fuzz", "fuzz">>, None)>>, {}, 0),
   NewScenario(<<One("offline"), One("minimum"), Cell(1), Cell(2), One("fuzz"), One("types"),
                 One("execution"), One("boundary"), One("versions")>>, ExpectedCI, 0)}
=============================================================================
