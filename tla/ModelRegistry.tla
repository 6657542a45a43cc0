--------------------------- MODULE ModelRegistry ---------------------------
(***************************************************************************)
(* The registry of research models: an append-only journal of events       *)
(* (registry.jsonl), the artifacts beside it, and three report files       *)
(* projected from the journal.  An operation reads the journal, decides,   *)
(* and then makes its writes one by one; nothing undoes them, so that a    *)
(* crash or an exception leaves what was written so far.  `todo' is what   *)
(* the operation in progress still has to write.                           *)
(*                                                                         *)
(* A hash is the thing hashed: a configuration stands for its MODEL_HASH,  *)
(* a scenario and a commit for a RUN_HASH.  The registry has no lock of    *)
(* its own and is used by one process at a time.  Appending one line, and  *)
(* writing one file, is one step; the three reports are one write.         *)
(***************************************************************************)
EXTENDS Integers, Sequences, FiniteSets

CONSTANTS
    Config,         \* MODEL_HASHes
    Scenario,       \* SCENARIO_HASHes
    Commit,         \* code commits
    None,           \* no parent, no run, no analysis
    FrozenProtocol, \* configurations with the frozen capital-release protocol
    FailureKind,    \* what technical-failure.json can say: "representation" and "report"
                    \* are the failures M010 is retried and recovered after
    RetryId,        \* the id of M010, the one model a technical retry exists for
    History         \* the journals, with their files, a process may find at first,
                    \* each with its bounds

ASSUME RegistryAssumption == None \notin Nat

VARIABLES
    journal,        \* registry.jsonl
    files,          \* artifact file -> content
    projected,      \* how much of the journal the report files show
    todo,           \* writes the operation in progress has left
    interrupted,    \* history: an operation was cut short and no projection followed
    bound           \* bounds: events in the journal, registered models

registryVars == <<journal, files, projected, todo, interrupted, bound>>

ModelStatus == {"CREATED", "RUNNING", "EVALUATED", "PROMOTED", "REJECTED",
                "INCONCLUSIVE", "INVALIDATED_TECHNICAL", "SUPERSEDED"}

AllowedTransitions == [s \in ModelStatus |->
    CASE s = "CREATED"      -> {"RUNNING", "REJECTED", "SUPERSEDED"}
      [] s = "RUNNING"      -> {"EVALUATED", "INCONCLUSIVE", "INVALIDATED_TECHNICAL"}
      [] s = "EVALUATED"    -> {"PROMOTED", "REJECTED", "INCONCLUSIVE", "INVALIDATED_TECHNICAL"}
      [] s = "PROMOTED"     -> {"SUPERSEDED", "INVALIDATED_TECHNICAL"}
      [] s = "INCONCLUSIVE" -> {"RUNNING", "REJECTED"}
      [] OTHER              -> {}]

RunSpec == [scenario : Scenario, commit : Commit]

-----------------------------------------------------------------------------
(* Events. *)

ModelCreated(id, config, parent) ==
    [type |-> "MODEL_CREATED", model |-> id, config |-> config, parent |-> parent]
ScenarioRegistered(id, scenario) ==
    [type |-> "SCENARIO_REGISTERED", model |-> id, scenario |-> scenario]
RunRegistered(id, run) ==
    [type |-> "RUN_REGISTERED", model |-> id, run |-> run]
EvaluationRecorded(id, run, analysis) ==
    [type |-> "EVALUATION_RECORDED", model |-> id, run |-> run, analysis |-> analysis]
StatusChanged(id, from, to) ==
    [type |-> "STATUS_CHANGED", model |-> id, from |-> from, to |-> to]
PromotionRecorded(id, run, previous) ==
    [type |-> "PROMOTION_RECORDED", model |-> id, to |-> "PROMOTED", run |-> run,
     previous |-> previous]
ChampionRecorded(id, run, previous) ==
    [type |-> "CHAMPION_RECORDED", model |-> id, to |-> "PROMOTED", run |-> run,
     previous |-> previous]
RetryAuthorized(id, failed, run) ==
    [type |-> "TECHNICAL_RETRY_AUTHORIZED", model |-> id, failed |-> failed, run |-> run]
RecoveryCompleted(id, run, analysis) ==
    [type |-> "POSTPROCESSING_RECOVERY_COMPLETED", model |-> id, run |-> run,
     analysis |-> analysis]

Event ==
    [type : {"MODEL_CREATED"}, model : Nat, config : Config, parent : Nat \cup {None}]
    \cup [type : {"SCENARIO_REGISTERED"}, model : Nat, scenario : Scenario]
    \cup [type : {"RUN_REGISTERED"}, model : Nat, run : RunSpec]
    \cup [type : {"EVALUATION_RECORDED"}, model : Nat, run : RunSpec, analysis : Commit]
    \cup [type : {"STATUS_CHANGED"}, model : Nat, from : ModelStatus, to : ModelStatus]
    \cup [type : {"PROMOTION_RECORDED", "CHAMPION_RECORDED"}, model : Nat, to : {"PROMOTED"},
          run : RunSpec, previous : Nat \cup {None}]
    \cup [type : {"TECHNICAL_RETRY_AUTHORIZED"}, model : Nat, failed : RunSpec, run : RunSpec]
    \cup [type : {"POSTPROCESSING_RECOVERY_COMPLETED"}, model : Nat, run : RunSpec,
          analysis : Commit]

-----------------------------------------------------------------------------
(* What the journal says. *)

Events(log, type) == {i \in DOMAIN log : log[i].type = type}
EventsOf(log, type, id) == {i \in Events(log, type) : log[i].model = id}
Latest(S) == CHOOSE i \in S : \A k \in S : k <= i

Registered(log) == {log[i].model : i \in Events(log, "MODEL_CREATED")}

StatusEvents(log, id) ==
    EventsOf(log, "STATUS_CHANGED", id) \cup EventsOf(log, "PROMOTION_RECORDED", id)

CurrentStatus(log, id) ==
    IF StatusEvents(log, id) = {} THEN "CREATED" ELSE log[Latest(StatusEvents(log, id))].to

\* The last recorded champion that still is PROMOTED.
ChampionRecords(log) ==
    {i \in Events(log, "CHAMPION_RECORDED") : CurrentStatus(log, log[i].model) = "PROMOTED"}

Champion(log) ==
    IF ChampionRecords(log) = {} THEN None ELSE log[Latest(ChampionRecords(log))].model

RunsOf(log, id) == {log[i].run : i \in EventsOf(log, "RUN_REGISTERED", id)}
LatestRun(log, id) == log[Latest(EventsOf(log, "RUN_REGISTERED", id))].run

NextModelId(log) ==
    IF Registered(log) = {} THEN 1
    ELSE (CHOOSE n \in Registered(log) : \A k \in Registered(log) : k <= n) + 1

-----------------------------------------------------------------------------
(* Artifacts and writes. *)

File(id, run, analysis, name) ==
    [model |-> id, scenario |-> run.scenario, commit |-> run.commit,
     analysis |-> analysis, name |-> name]
NoRun == [scenario |-> None, commit |-> None]

CreationFile(id, name) == File(id, NoRun, None, name)
RunFile(id, run, name) == File(id, run, None, name)
CreationFiles == <<"MODEL_SPEC.md", "lineage.json">>         \* the first and the last of four
EvaluationFiles == <<"metrics.json", "decision.json">>    \* the first and the last of ten

FileName == {CreationFiles[i] : i \in DOMAIN CreationFiles}
            \cup {EvaluationFiles[i] : i \in DOMAIN EvaluationFiles}
            \cup {"run-manifest.json", "completed-replay.json", "technical-failure.json"}
Artifact ==
    [model : Nat, scenario : Scenario \cup {None}, commit : Commit \cup {None},
     analysis : Commit \cup {None}, name : FileName]
Writing ==
    [to : {"journal"}, event : Event] \cup [to : {"reports"}]
    \cup [to : {"artifact"}, file : Artifact, content : FailureKind \cup {"written"}]

Log(event) == <<[to |-> "journal", event |-> event]>>
Put(file, content) == <<[to |-> "artifact", file |-> file, content |-> content]>>
Project == <<[to |-> "reports"]>>

\* _ensure_creation_artifacts writes only what is missing.
PutMissing(file) == IF file \in DOMAIN files THEN <<>> ELSE Put(file, "written")
MissingCreationFiles(id) ==
    PutMissing(CreationFile(id, CreationFiles[1])) \o PutMissing(CreationFile(id, CreationFiles[2]))

EvaluationArtifacts(id, run, analysis) ==
    [i \in DOMAIN EvaluationFiles |->
        Put(File(id, run, analysis, EvaluationFiles[i]), "written")[1]]

Logs(writes) == {k \in DOMAIN writes : writes[k].to = "journal"}

\* Bound: the events of the operation still fit.
Fits(writes) == Len(journal) + Cardinality(Logs(writes)) <= bound.events

Begin(writes) ==
    /\ todo = <<>> /\ Fits(writes)
    /\ todo' = writes
    /\ UNCHANGED <<journal, files, projected, interrupted, bound>>

-----------------------------------------------------------------------------
(* The writes of each operation, in the order the code makes them.         *)

\* faulty: a known configuration gets an id of its own
RegisterAgain(config, parent) ==
    Log(ModelCreated(NextModelId(journal), config, parent))
    \o MissingCreationFiles(NextModelId(journal)) \o Project

RegisterWrites(config, parent) ==
    LET known == {i \in Events(journal, "MODEL_CREATED") : journal[i].config = config}
        id == IF known = {} THEN NextModelId(journal)
              ELSE journal[CHOOSE i \in known : \A k \in known : i <= k].model
    IN  (IF known = {} THEN Log(ModelCreated(id, config, parent)) ELSE <<>>)
        \o MissingCreationFiles(id) \o Project

Register(config, parent) ==
    /\ parent = None \/ parent \in Registered(journal)
    /\ NextModelId(journal) <= bound.models
       \/ \E i \in Events(journal, "MODEL_CREATED") : journal[i].config = config
    /\ Begin(RegisterWrites(config, parent))

ScenarioWrites(id, scenario) ==
    IF \E i \in EventsOf(journal, "SCENARIO_REGISTERED", id) : journal[i].scenario = scenario
    THEN <<>>
    ELSE Log(ScenarioRegistered(id, scenario)) \o Project

\* A run of an unregistered scenario raises.
RunIsKnown(id, run) == run \in RunsOf(journal, id)

RunWrites(id, run) ==
    IF RunIsKnown(id, run) THEN <<>>
    ELSE Log(RunRegistered(id, run)) \o Put(RunFile(id, run, "run-manifest.json"), "written")
         \o Project
CanAppendRun(id, run) ==
    \E i \in EventsOf(journal, "SCENARIO_REGISTERED", id) : journal[i].scenario = run.scenario

\* The record has an artifact_directory that the payload it is compared with
\* lacks, so that an evaluation recorded before is never recognized.
EvaluationWrites(id, run, analysis) ==
    Log(EvaluationRecorded(id, run, analysis)) \o EvaluationArtifacts(id, run, analysis) \o Project

CanTransition(id, to) ==
    /\ to # "PROMOTED"
    /\ to \in AllowedTransitions[CurrentStatus(journal, id)]

TransitionWrites(id, to) ==
    Log(StatusChanged(id, CurrentStatus(journal, id), to)) \o Project

CanPromote(id, run) ==
    /\ CurrentStatus(journal, id) = "EVALUATED"
    /\ RunIsKnown(id, run)
    /\ Champion(journal) # id

\* faulty: the champion is superseded after its successor is recorded
SupersedesLast(id, run) ==
    LET prior == Champion(journal)
    IN  Log(PromotionRecorded(id, run, prior)) \o Log(ChampionRecorded(id, run, prior))
        \o (IF prior = None THEN <<>> ELSE Log(StatusChanged(prior, "PROMOTED", "SUPERSEDED")))
        \o Project

PromoteWrites(id, run) ==
    LET prior == Champion(journal)
    IN  (IF prior = None THEN <<>> ELSE Log(StatusChanged(prior, "PROMOTED", "SUPERSEDED")))
        \o Log(PromotionRecorded(id, run, prior)) \o Log(ChampionRecorded(id, run, prior))
        \o Project

Promote(id, run) == CanPromote(id, run) /\ Begin(PromoteWrites(id, run))
Transition(id, to) == CanTransition(id, to) /\ Begin(TransitionWrites(id, to))

\* The failure recorded beside a run, or None.
FailureOf(id, run) ==
    LET file == RunFile(id, run, "technical-failure.json")
    IN  IF file \in DOMAIN files THEN files[file] ELSE None

InvalidatedFromRunning(id) ==
    LET changes == EventsOf(journal, "STATUS_CHANGED", id)
    IN  /\ changes # {}
        /\ journal[Latest(changes)].from = "RUNNING"
        /\ journal[Latest(changes)].to = "INVALIDATED_TECHNICAL"

FrozenModel(id) ==
    /\ id = RetryId
    /\ \E i \in EventsOf(journal, "MODEL_CREATED", id) : journal[i].config \in FrozenProtocol

NeverEvaluated(id) == EventsOf(journal, "EVALUATION_RECORDED", id) = {}

CanRetry(id, failed, run) ==
    /\ FrozenModel(id)
    /\ CurrentStatus(journal, id) = "INVALIDATED_TECHNICAL"
    /\ RunsOf(journal, id) # {} /\ failed = LatestRun(journal, id)
    /\ run.commit # failed.commit /\ run.scenario = failed.scenario
    /\ FailureOf(id, failed) = "representation"
    /\ NeverEvaluated(id)
    /\ InvalidatedFromRunning(id)

RetryWrites(id, failed, run) ==
    Log(RetryAuthorized(id, failed, run)) \o RunWrites(id, run)
    \o Log(StatusChanged(id, "INVALIDATED_TECHNICAL", "RUNNING")) \o Project

CanCompleteRecovery(id, run, analysis) ==
    /\ FrozenModel(id)
    /\ CurrentStatus(journal, id) = "INVALIDATED_TECHNICAL"
    /\ RunsOf(journal, id) # {} /\ run = LatestRun(journal, id)
    /\ RunFile(id, run, "run-manifest.json") \in DOMAIN files
    /\ RunFile(id, run, "completed-replay.json") \in DOMAIN files
    /\ FailureOf(id, run) = "report"
    /\ \E i \in EventsOf(journal, "EVALUATION_RECORDED", id) :
           journal[i].run = run /\ journal[i].analysis = analysis
    /\ run.commit # analysis

\* faulty: the end of the recovery is recorded as a status of its own
RecoversAsRecovered(id, run, analysis) ==
    Log(RecoveryCompleted(id, run, analysis))
    \o Log(StatusChanged(id, "INVALIDATED_TECHNICAL", "RECOVERED")) \o Project

RecoveryWrites(id, run, analysis) ==
    Log(RecoveryCompleted(id, run, analysis))
    \o Log(StatusChanged(id, "INVALIDATED_TECHNICAL", "EVALUATED")) \o Project

-----------------------------------------------------------------------------
(* Steps. *)

\* One write of the operation in progress reaches the disk.
Write ==
    /\ todo # <<>>
    /\ LET w == Head(todo) IN
       /\ todo' = Tail(todo)
       /\ journal' = IF w.to = "journal" THEN Append(journal, w.event) ELSE journal
       /\ files' = IF w.to # "artifact" THEN files
                   ELSE [f \in DOMAIN files \cup {w.file} |->
                            IF f = w.file THEN w.content ELSE files[f]]
       /\ projected' = IF w.to = "reports" THEN Len(journal) ELSE projected
       /\ interrupted' = (interrupted /\ w.to # "reports")
       /\ UNCHANGED bound

\* The process ends, or raises, in the middle of the operation or between two.
Abandon ==
    /\ todo' = <<>>
    /\ interrupted' = (interrupted \/ todo # <<>>)
    /\ UNCHANGED <<journal, files, projected, bound>>

RegistryInit(history) ==
    /\ journal = history.journal
    /\ files = history.files
    /\ projected = Len(journal)
    /\ todo = <<>>
    /\ interrupted = FALSE
    /\ bound = history.bound
=============================================================================
