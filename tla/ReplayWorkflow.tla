-------------------------- MODULE ReplayWorkflow --------------------------
(***************************************************************************)
(* The full replay campaign (replay_workflow.py) on top of the registry:   *)
(* a model is registered by a researcher, replayed once under a lock file, *)
(* evaluated, and then decided on.  The process may be killed at any step; *)
(* it is then run again, perhaps after a new commit, and goes by what the  *)
(* journal and the files say.                                              *)
(***************************************************************************)
EXTENDS ModelRegistry

VARIABLES
    pc,       \* where _run_one stands
    model,    \* the model it replays
    seen,     \* the status it read when it began
    run,      \* the run it registered
    head,     \* the commit checked out and published
    lock      \* .full-replay.lock exists

flowVars == <<pc, model, seen, run, head, lock>>
vars == <<registryVars, flowVars>>

Step == {"idle", "scenario", "run", "running", "computed", "evaluated", "finished",
         "recorded", "recovered", "failing"}

\* Inside the try block of _run_one: from the replay, after RUNNING is
\* recorded, to the last write of EVALUATED.
Guarded ==
    \/ pc = "running" /\ todo = <<>>
    \/ pc \in {"computed", "evaluated"}
    \/ pc = "finished" /\ todo # <<>>

Init ==
    /\ \E history \in History : RegistryInit(history)
    /\ pc = "idle" /\ model = None /\ seen = None /\ run = NoRun
    /\ head \in Commit
    /\ lock = FALSE

Idle == pc = "idle" /\ todo = <<>>
At(step) == pc = step /\ todo = <<>>
Goto(step) == pc' = step

\* The campaign of the model ends and its lock file is removed.
Done ==
    /\ pc' = "idle" /\ model' = None /\ seen' = None /\ run' = NoRun
    /\ lock' = FALSE
    /\ UNCHANGED head

-----------------------------------------------------------------------------
(* The researcher, between campaigns. *)

Registers(config, parent) == Idle /\ Register(config, parent) /\ UNCHANGED flowVars

\* Decisions; RUNNING, EVALUATED and technical invalidation are the workflow's.
Decides(id, to) ==
    /\ Idle /\ id \in Registered(journal)
    /\ to \in {"REJECTED", "INCONCLUSIVE", "SUPERSEDED"}
    /\ CurrentStatus(journal, id) # "RUNNING"
    /\ Transition(id, to)
    /\ UNCHANGED flowVars

\* A result that turns out to be a technical fault is invalidated.
Invalidates(id) ==
    /\ Idle /\ id \in Registered(journal)
    /\ CurrentStatus(journal, id) = "PROMOTED"
    /\ Transition(id, "INVALIDATED_TECHNICAL")
    /\ UNCHANGED flowVars

Promotes(id) ==
    /\ Idle /\ id \in Registered(journal)
    /\ \E r \in RunsOf(journal, id) : Promote(id, r)
    /\ UNCHANGED flowVars

\* A commit is checked out and published.
Publishes(commit) ==
    /\ Idle /\ commit # head
    /\ head' = commit
    /\ UNCHANGED <<registryVars, pc, model, seen, run, lock>>

\* A lock file left by a killed process is removed by hand.
RemovesLock ==
    /\ Idle /\ lock
    /\ lock' = FALSE
    /\ UNCHANGED <<registryVars, pc, model, seen, run, head>>

-----------------------------------------------------------------------------
(* _run_one. *)

CompletedReplay(id, r) == RunFile(id, r, "completed-replay.json") \in DOMAIN files

\* An inconclusive model whose last run was replayed to its end is not replayed again.
FullyEvaluated(id) ==
    LET evaluations == EventsOf(journal, "EVALUATION_RECORDED", id)
    IN  /\ RunsOf(journal, id) # {} /\ evaluations # {}
        /\ journal[Latest(evaluations)].run = LatestRun(journal, id)

\* M010 after a failure behind the replay: its result is reused.
Recoverable(id) ==
    /\ id = RetryId /\ CurrentStatus(journal, id) = "INVALIDATED_TECHNICAL"
    /\ RunsOf(journal, id) # {} /\ CompletedReplay(id, LatestRun(journal, id))

Replayable(id) ==
    /\ CurrentStatus(journal, id) \in {"CREATED", "RUNNING", "INCONCLUSIVE", "INVALIDATED_TECHNICAL"}
    /\ ~ (CurrentStatus(journal, id) = "INCONCLUSIVE" /\ FullyEvaluated(id))
    /\ ~ Recoverable(id)
    /\ CurrentStatus(journal, id) = "INVALIDATED_TECHNICAL" => FrozenModel(id)

Starts(id, scenario) ==
    /\ Idle /\ ~lock /\ id \in Registered(journal) /\ Replayable(id)
    /\ Fits(ScenarioWrites(id, scenario))
    /\ todo' = ScenarioWrites(id, scenario)
    /\ pc' = "scenario" /\ model' = id /\ seen' = CurrentStatus(journal, id)
    /\ run' = [scenario |-> scenario, commit |-> head]
    /\ lock' = TRUE
    /\ UNCHANGED <<journal, files, projected, interrupted, bound, head>>

\* _append_or_retry_run.  A retry that is refused raises.
RegistersRun ==
    /\ At("scenario") /\ seen # "INVALIDATED_TECHNICAL"
    /\ CanAppendRun(model, run)
    /\ Begin(RunWrites(model, run))
    /\ Goto("run") /\ UNCHANGED <<model, seen, run, head, lock>>

RetriesRun ==
    /\ At("scenario") /\ seen = "INVALIDATED_TECHNICAL"
    /\ \E failed \in RunsOf(journal, model) :
           /\ CanRetry(model, failed, run)
           /\ Begin(RetryWrites(model, failed, run))
    /\ Goto("run") /\ UNCHANGED <<model, seen, run, head, lock>>

RetryRefused ==
    /\ At("scenario") /\ seen = "INVALIDATED_TECHNICAL"
    /\ ~ \E failed \in RunsOf(journal, model) : CanRetry(model, failed, run)
    /\ Done /\ UNCHANGED registryVars

\* RUNNING is recorded, unless it was found recorded.
BeginsReplay ==
    /\ At("run")
    /\ IF seen \in {"CREATED", "INCONCLUSIVE"}
       THEN CanTransition(model, "RUNNING") /\ Begin(TransitionWrites(model, "RUNNING"))
       ELSE UNCHANGED registryVars
    /\ Goto("running") /\ UNCHANGED <<model, seen, run, head, lock>>

\* The replay is deterministic: a completed one on disk has the same content.
Computes ==
    /\ At("running")
    /\ Begin(IF CompletedReplay(model, run) THEN <<>>
             ELSE Put(RunFile(model, run, "completed-replay.json"), "written"))
    /\ Goto("computed") /\ UNCHANGED <<model, seen, run, head, lock>>

\* faulty: a run that was replayed before counts as evaluated
EvaluatesUnlessReplayed ==
    /\ At("computed")
    /\ Begin(IF seen = "RUNNING" THEN <<>> ELSE EvaluationWrites(model, run, run.commit))
    /\ Goto("evaluated") /\ UNCHANGED <<model, seen, run, head, lock>>

Evaluates ==
    /\ At("computed")
    /\ Begin(EvaluationWrites(model, run, run.commit))
    /\ Goto("evaluated") /\ UNCHANGED <<model, seen, run, head, lock>>

RecordsEvaluated ==
    /\ At("evaluated")
    /\ CanTransition(model, "EVALUATED") /\ Begin(TransitionWrites(model, "EVALUATED"))
    /\ Goto("finished") /\ UNCHANGED <<model, seen, run, head, lock>>

Finishes ==
    /\ pc \in {"finished", "recovered", "failing"} /\ todo = <<>>
    /\ Done /\ UNCHANGED registryVars

\* The directory of a run is made with its first file.
HasDirectory(id, r) ==
    \E f \in DOMAIN files :
        f.model = id /\ f.scenario = r.scenario /\ f.commit = r.commit

\* Anything raised inside the try block, also in the middle of a write: the
\* failure is written down and the model is invalidated.
Fails(kind) ==
    LET writes == Put(RunFile(model, run, "technical-failure.json"), kind)
                  \o TransitionWrites(model, "INVALIDATED_TECHNICAL")
    IN  /\ Guarded /\ HasDirectory(model, run)
        /\ CanTransition(model, "INVALIDATED_TECHNICAL") /\ Fits(writes)
        /\ todo' = writes
        /\ interrupted' = (interrupted \/ todo # <<>>)
        /\ UNCHANGED <<journal, files, projected, bound, model, seen, run, head, lock>>
        /\ Goto("failing")

\* Writing the failure down raises too: the model stays RUNNING.
FailsUnrecorded ==
    /\ Guarded /\ ~HasDirectory(model, run)
    /\ Abandon /\ Done

\* _recover_m010_postprocessing evaluates the stored result under the commit
\* of the analysis, and seals the recovery.
Recovers(id) ==
    /\ Idle /\ ~lock /\ id \in Registered(journal) /\ Recoverable(id)
    /\ LET last == LatestRun(journal, id) IN
       /\ FailureOf(id, last) = "report"
       /\ Fits(EvaluationWrites(id, last, head))
       /\ todo' = EvaluationWrites(id, last, head)
       /\ run' = last
    /\ pc' = "recorded" /\ model' = id /\ seen' = "INVALIDATED_TECHNICAL"
    /\ lock' = TRUE
    /\ UNCHANGED <<journal, files, projected, interrupted, bound, head>>

SealsRecovery ==
    /\ At("recorded") /\ CanCompleteRecovery(model, run, head)
    /\ Begin(RecoveryWrites(model, run, head))
    /\ Goto("recovered") /\ UNCHANGED <<model, seen, run, head, lock>>

RecoveryRefused ==
    /\ At("recorded") /\ ~ CanCompleteRecovery(model, run, head)
    /\ Done /\ UNCHANGED registryVars

\* The process is killed, and its lock file stays, or something is raised
\* outside the try block, and the lock file is removed.
Crash ==
    /\ pc # "idle" \/ todo # <<>>
    /\ Abandon
    /\ pc' = "idle" /\ model' = None /\ seen' = None /\ run' = NoRun
    /\ lock' \in {lock, FALSE} /\ UNCHANGED head

Researcher ==
    \/ \E config \in Config, parent \in Registered(journal) \cup {None} : Registers(config, parent)
    \/ \E id \in Registered(journal) : Promotes(id) \/ Invalidates(id)
    \/ \E id \in Registered(journal), to \in ModelStatus : Decides(id, to)
    \/ \E commit \in Commit : Publishes(commit)
    \/ RemovesLock

Campaign ==
    \/ \E id \in Registered(journal) : Recovers(id) \/ \E s \in Scenario : Starts(id, s)
    \/ RegistersRun \/ RetriesRun \/ RetryRefused \/ BeginsReplay \/ Computes
    \/ Evaluates \/ RecordsEvaluated \/ Finishes \/ SealsRecovery \/ RecoveryRefused
    \/ FailsUnrecorded \/ \E kind \in FailureKind : Fails(kind)

Next ==
    \/ Researcher
    \/ Campaign
    \/ Write /\ UNCHANGED flowVars
    \/ Crash

Spec == Init /\ [][Next]_vars

-----------------------------------------------------------------------------
(* Properties. *)

\* Journal, files, reports and the workflow's own variables have their types.
TypeOK ==
    /\ journal \in Seq(Event) /\ Len(journal) <= bound.events
    /\ DOMAIN files \subseteq Artifact /\ todo \in Seq(Writing)
    /\ projected \in 0..Len(journal)
    /\ interrupted \in BOOLEAN /\ lock \in BOOLEAN
    /\ pc \in Step /\ head \in Commit
    /\ IF pc = "idle" THEN model = None /\ run = NoRun
       ELSE model \in Registered(journal) /\ run \in RunSpec
    /\ seen \in ModelStatus \cup {None}

Before(log, i) == SubSeq(log, 1, i - 1)

\* Whatever was interrupted before it, every change of status starts from the
\* status the journal gives the model at that point, and is one the table
\* allows, a promotion of an evaluated model, or the end of M010's
\* invalidation by an authorized retry or a completed recovery.
StatusesFollowTheTable(log) ==
    \A i \in DOMAIN log :
        LET e == log[i]
            current == CurrentStatus(Before(log, i), e.model)
        IN  /\ e.type = "PROMOTION_RECORDED" => current = "EVALUATED"
            /\ e.type = "STATUS_CHANGED" =>
                 /\ e.from = current
                 /\ \/ e.to \in AllowedTransitions[e.from]
                    \/ /\ e.model = RetryId /\ e.from = "INVALIDATED_TECHNICAL"
                       /\ e.to = "RUNNING" =>
                            EventsOf(Before(log, i), "TECHNICAL_RETRY_AUTHORIZED", e.model) # {}
                       /\ e.to = "EVALUATED" =>
                            EventsOf(Before(log, i), "POSTPROCESSING_RECOVERY_COMPLETED", e.model) # {}
                       /\ e.to \in {"RUNNING", "EVALUATED"}

\* Running a registration again after a crash finds what the first one
\* registered: ids are consecutive, and a configuration, a scenario of a model
\* and a run of a model are registered once.
RegisteredOnce(log) ==
    \A i, k \in DOMAIN log :
        LET e == log[i] f == log[k] IN
        i < k /\ e.type = f.type =>
            /\ e.type = "MODEL_CREATED" =>
                   e.config # f.config /\ e.model < f.model
            /\ e.type \in {"SCENARIO_REGISTERED", "RUN_REGISTERED"} => e # f

\* Every operation that was not cut short ends with reports that show the
\* whole journal.
ReportsAreCurrent ==
    todo = <<>> /\ ~interrupted => projected = Len(journal)

\* The journal tells one story, and the reports tell it too.
JournalIsConsistent ==
    StatusesFollowTheTable(journal) /\ RegisteredOnce(journal) /\ ReportsAreCurrent

\* An evaluation of a registered run of the model, with the replay and the
\* artifacts on disk.
HasEvidence(log, disk, id) ==
    \E i \in EventsOf(log, "EVALUATION_RECORDED", id) :
        /\ log[i].run \in RunsOf(log, id)
        /\ RunFile(id, log[i].run, "completed-replay.json") \in disk
        /\ \A n \in DOMAIN EvaluationFiles :
               File(id, log[i].run, log[i].analysis, EvaluationFiles[n]) \in disk

\* Every model a journal speaks of that is EVALUATED or PROMOTED has evidence.
EvidenceIn(log, disk) ==
    \A i \in DOMAIN log :
        CurrentStatus(log, log[i].model) \in {"EVALUATED", "PROMOTED"} =>
            HasEvidence(log, disk, log[i].model)

\* A model that is EVALUATED, or was promoted from there, has an evaluation of
\* a registered run, with the replay and the artifacts on disk, however often
\* the campaign was killed and begun again.
EvaluatedHasEvidence == EvidenceIn(journal, DOMAIN files)

\* "Original failures are never overwritten."
FailuresAreKept ==
    [][\A f \in DOMAIN files :
        f.name = "technical-failure.json" => files'[f] = files[f]]_vars

OneChampion(log) == \A i \in ChampionRecords(log) : log[i].model = Champion(log)

\* Promotions succeed each other: of the models whose promotion got its
\* champion record, at most one is still PROMOTED, and it is the champion.
OneRecordedChampion == OneChampion(journal)

-----------------------------------------------------------------------------
\* The journals and files at hand at first were left by this program, killed
\* at some point perhaps.  That an empty registry is one of them, and that the
\* program leaves only such ones, is proved in ReplayWorkflowProofs.
LeftByTheProgram(history) ==
    /\ history.journal \in Seq(Event)
    /\ history.bound.events \in Nat /\ Len(history.journal) <= history.bound.events
    /\ DOMAIN history.files \subseteq Artifact
    /\ StatusesFollowTheTable(history.journal)
    /\ RegisteredOnce(history.journal)
    /\ EvidenceIn(history.journal, DOMAIN history.files)
    /\ OneChampion(history.journal)

ASSUME HistoryAssumption == \A history \in History : LeftByTheProgram(history)

=============================================================================
