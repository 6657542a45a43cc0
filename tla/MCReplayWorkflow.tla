------------------------- MODULE MCReplayWorkflow -------------------------
EXTENDS ReplayWorkflow

CONSTANTS c1, c2, s1, a, b

MCConfig == {c1, c2}
MCScenario == {s1}
MCCommit == {a, b}
MCFrozenProtocol == {c1}

RunA == [scenario |-> s1, commit |-> a]

Created(id, config) ==
    <<ModelCreated(id, config, None)>>
Started(id, config) ==
    Created(id, config) \o
    <<ScenarioRegistered(id, s1), RunRegistered(id, RunA), StatusChanged(id, "CREATED", "RUNNING")>>
Evaluated(id, config) ==
    Started(id, config) \o
    <<EvaluationRecorded(id, RunA, a), StatusChanged(id, "RUNNING", "EVALUATED")>>

Written(names) == [f \in names |-> "written"]
CreationOf(id) == {CreationFile(id, CreationFiles[i]) : i \in DOMAIN CreationFiles}
StartedOf(id) == CreationOf(id) \cup {RunFile(id, RunA, "run-manifest.json")}
EvaluatedOf(id) ==
    StartedOf(id) \cup {RunFile(id, RunA, "completed-replay.json")}
    \cup {File(id, RunA, a, EvaluationFiles[i]) : i \in DOMAIN EvaluationFiles}

Champion1 == <<PromotionRecorded(1, RunA, None), ChampionRecorded(1, RunA, None)>>

\* A registered model; a model RUNNING; a champion and its challenger.
MCHistory ==
    {[journal |-> Created(1, c1), files |-> Written(CreationOf(1)), bound |-> [events |-> 5, models |-> 2]],
     [journal |-> Started(1, c1), files |-> Written(StartedOf(1)), bound |-> [events |-> 8, models |-> 1]],
     [journal |-> Evaluated(1, c1) \o Evaluated(2, c2) \o Champion1,
      files |-> Written(EvaluatedOf(1) \cup EvaluatedOf(2)), bound |-> [events |-> 17, models |-> 2]]}
=============================================================================
