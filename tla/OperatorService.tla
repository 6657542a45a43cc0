-------------------------- MODULE OperatorService --------------------------
(***************************************************************************)
(* The operator's control of the bot (operator_dashboard/service.py): the  *)
(* status in memory and its copy in the store, the restart protocol, and   *)
(* the calls play, stop, emergency_stop, reconcile and test_connection,    *)
(* which ThreadingHTTPServer runs in threads of their own.  A step is what *)
(* a call does under one acquisition of _lock, or one read or write of     *)
(* shared state outside of it.  Main is the thread that runs close() once  *)
(* the server has been interrupted.                                        *)
(*                                                                         *)
(* set_metadata is a committed SQLite transaction and survives a crash.    *)
(* Left out: market data, credentials, the event journal and the snapshots *)
(* (none of them is read by a decision), the queues that emergency_stop    *)
(* blocks (nothing ever sets one of them working), and a second process    *)
(* (SingleInstanceLock refuses it).                                        *)
(***************************************************************************)
EXTENDS Integers, Sequences

CONSTANTS
    Thread, Main,    \* request handlers; the thread that closes the service
    Call,            \* the calls that are made
    MaxWorkers       \* bound: worker threads created by one process

ASSUME ServiceAssumption ==
    /\ Main \notin Thread
    /\ Call \subseteq {"play", "stop", "emergency_stop", "reconcile", "test_connection"}
    /\ MaxWorkers \in Nat

VARIABLES
    persisted,   \* metadata bot_status
    phase,       \* "down", "booting" (inside __init__), "up"
    previous,    \* _previous_status
    status,      \* _bot_status
    reconciled,  \* _reconciled
    divergence,  \* _state_divergence
    workers,     \* the worker threads created; the last one is _worker
    pc,          \* thread -> the step its call is at
    passes,      \* thread -> verdict of its preflight so far
    copy,        \* thread -> the status emergency_stop is about to persist
    owed,        \* ghost: the status the last interruption left, until reconcile()
    overtaken    \* ghost: plays in their preflight that a finished stop has overtaken

vars == <<persisted, phase, previous, status, reconciled, divergence, workers,
          pc, passes, copy, owed, overtaken>>

Status == {"OFFLINE", "STOPPED_SAFE", "STARTING", "RUNNING", "STOPPING", "RECOVERING"}
AnyThread == Thread \cup {Main}
Step == {"idle", "recovery", "divergence", "decide", "ensure", "assign", "launch",
         "stopped", "closing", "read_status", "persist", "reconciled", "diverged"}

Interrupted == {"RUNNING", "STARTING", "STOPPING"}

TypeOK ==
    /\ persisted \in Status /\ previous \in Status /\ status \in Status
    /\ phase \in {"down", "booting", "up"}
    /\ reconciled \in BOOLEAN /\ divergence \in BOOLEAN
    /\ workers \in Seq({"new", "alive", "dead"}) /\ Len(workers) <= MaxWorkers
    /\ pc \in [AnyThread -> Step]
    /\ passes \in [Thread -> BOOLEAN]
    /\ copy \in [Thread -> Status]
    /\ owed \in Interrupted \cup {"none"}
    /\ overtaken \subseteq Thread
    /\ phase # "up" => pc = [t \in AnyThread |-> "idle"]

Init ==
    /\ persisted = "OFFLINE" /\ phase = "down" /\ previous = "OFFLINE"
    /\ status = "OFFLINE" /\ reconciled = TRUE /\ divergence = FALSE
    /\ workers = <<>>
    /\ pc = [t \in AnyThread |-> "idle"]
    /\ passes = [t \in Thread |-> FALSE]
    /\ copy = [t \in Thread |-> "OFFLINE"]
    /\ owed = "none" /\ overtaken = {}

memory == <<reconciled, divergence, workers, passes, copy>>
process == <<phase, previous>>

Goto(t, from, to) == phase = "up" /\ pc[t] = from /\ pc' = [pc EXCEPT ![t] = to]
Done == "idle"

\* Under _lock: the status is set and persisted.
MemoryOnly(s) == status' = s /\ UNCHANGED persisted    \* faulty: not persisted
SetStatus(s) == status' = s /\ persisted' = s

-----------------------------------------------------------------------------
\* __init__: the store says STOPPED_SAFE before it says RECOVERING.
Boot ==
    /\ phase = "down" /\ phase' = "booting"
    /\ previous' = persisted
    /\ SetStatus("STOPPED_SAFE")
    /\ reconciled' = (persisted \notin Interrupted)
    /\ divergence' = FALSE
    /\ workers' = <<>>
    /\ UNCHANGED <<pc, passes, copy, owed, overtaken>>

BootFinish ==
    /\ phase = "booting" /\ phase' = "up"
    /\ IF reconciled THEN UNCHANGED <<status, persisted>> ELSE SetStatus("RECOVERING")
    /\ UNCHANGED <<previous, memory, pc, owed, overtaken>>

\* The process ends and its memory with it.
ProcessEnds ==
    /\ phase' = "down"
    /\ previous' = "OFFLINE" /\ status' = "OFFLINE"
    /\ reconciled' = TRUE /\ divergence' = FALSE /\ workers' = <<>>
    /\ pc' = [t \in AnyThread |-> "idle"]
    /\ passes' = [t \in Thread |-> FALSE]
    /\ copy' = [t \in Thread |-> "OFFLINE"]
    /\ owed' = IF persisted \in Interrupted THEN persisted ELSE owed
    /\ overtaken' = {}
    /\ UNCHANGED persisted

Crash == phase # "down" /\ ProcessEnds

\* close: reads the status without the lock; handlers are daemon threads and
\* may still run.  A running bot is stopped first.
Close ==
    /\ phase = "up" /\ pc[Main] = "idle" /\ status # "RUNNING"
    /\ ProcessEnds

-----------------------------------------------------------------------------
\* play (while RUNNING it only answers).  A thread blocked in its preflight
\* holds no lock.
PlayStarts(t) ==
    /\ "play" \in Call
    /\ Goto(t, "idle", "recovery")
    /\ status # "RUNNING"
    /\ SetStatus("STARTING")
    /\ UNCHANGED <<process, memory, owed, overtaken>>

\* _preflight: the market answers or not, then _reconciled is read ...
MarketOnly(market) == market                      \* faulty: recovery not checked
RecoveryVerdict(market) == market /\ reconciled
ReadRecovery(t) ==
    /\ Goto(t, "recovery", "divergence")
    /\ \E market \in BOOLEAN : passes' = [passes EXCEPT ![t] = RecoveryVerdict(market)]
    /\ UNCHANGED <<process, status, persisted, reconciled, divergence, workers, copy, owed, overtaken>>

\* ... then _state_divergence.
ReadDivergence(t) ==
    /\ Goto(t, "divergence", "decide")
    /\ passes' = [passes EXCEPT ![t] = @ /\ ~divergence]
    /\ UNCHANGED <<process, status, persisted, reconciled, divergence, workers, copy, owed, overtaken>>

\* Its verdict is not used again.
PreflightOver(t) ==
    /\ passes' = [passes EXCEPT ![t] = FALSE]
    /\ overtaken' = overtaken \ {t}
    /\ UNCHANGED <<process, reconciled, divergence, workers, copy, owed>>

\* public_market raises what _refresh_market does not catch (a body that is not
\* JSON): the call ends and the status stays.
PreflightRaises(t) ==
    /\ Goto(t, "recovery", Done)
    /\ PreflightOver(t)
    /\ UNCHANGED <<status, persisted>>

PlayRefused(t) ==
    /\ Goto(t, "decide", Done)
    /\ ~passes[t]
    /\ SetStatus("STOPPED_SAFE")
    /\ PreflightOver(t)

PlayRunsAlone(t) ==                               \* faulty: no _ensure_worker
    /\ Goto(t, "decide", Done)
    /\ passes[t]
    /\ SetStatus("RUNNING")
    /\ PreflightOver(t)
PlayRuns(t) ==
    /\ Goto(t, "decide", "ensure")
    /\ passes[t]
    /\ SetStatus("RUNNING")
    /\ PreflightOver(t)

\* _ensure_worker, without the lock: is the worker alive, create one, start the
\* one that is _worker by then (a thread starts once: otherwise it raises).
EnsureWorker(t) ==
    LET alive == workers # <<>> /\ workers[Len(workers)] = "alive"
    IN  /\ Goto(t, "ensure", IF alive THEN Done ELSE "assign")
        /\ UNCHANGED <<process, status, persisted, memory, owed, overtaken>>

AssignWorker(t) ==
    /\ Goto(t, "assign", "launch")
    /\ Len(workers) < MaxWorkers
    /\ workers' = Append(workers, "new")
    /\ UNCHANGED <<process, status, persisted, reconciled, divergence, passes, copy, owed, overtaken>>

LaunchWorker(t) ==
    /\ Goto(t, "launch", Done)
    /\ workers' = [workers EXCEPT ![Len(workers)] = IF @ = "new" THEN "alive" ELSE @]
    /\ UNCHANGED <<process, status, persisted, reconciled, divergence, passes, copy, owed, overtaken>>

\* _worker_loop: what _refresh_market does not catch ends the thread.
WorkerDies ==
    /\ phase = "up"
    /\ \E w \in DOMAIN workers : /\ workers[w] = "alive"
                                 /\ workers' = [workers EXCEPT ![w] = "dead"]
    /\ UNCHANGED <<process, status, persisted, reconciled, divergence, pc, passes, copy, owed, overtaken>>

InPlay == {t \in Thread : pc[t] \in {"recovery", "divergence", "decide"}}

\* The status the first part of stop sets.
StopUnnamed == IF status \in {"RUNNING", "STARTING", "RECOVERING"} THEN "STOPPING" ELSE "STOPPED"  \* faulty: no such status
StopTarget == IF status \in {"RUNNING", "STARTING", "RECOVERING"} THEN "STOPPING" ELSE "STOPPED_SAFE"

\* stop, first part.  Main makes the call from close().
StopStarts(t) ==
    /\ IF t = Main THEN status = "RUNNING" ELSE "stop" \in Call
    /\ Goto(t, "idle", "stopped")
    /\ SetStatus(StopTarget)
    /\ UNCHANGED <<process, memory, owed, overtaken>>

\* stop, second part.
StopLeaves(t) ==                                  \* faulty: ends in STOPPING
    /\ Goto(t, "stopped", Done)
    /\ overtaken' = overtaken \cup InPlay
    /\ UNCHANGED <<process, status, persisted, memory, owed>>
StopFinishes(t) ==
    /\ Goto(t, "stopped", Done)
    /\ SetStatus("STOPPED_SAFE")
    /\ overtaken' = overtaken \cup InPlay
    /\ UNCHANGED <<process, memory, owed>>

\* The same in close(), followed by the end of the process.
CloseStopFinishes ==
    /\ Goto(Main, "stopped", "closing")
    /\ SetStatus("STOPPED_SAFE")
    /\ UNCHANGED <<process, memory, owed, overtaken>>

CloseEnds == phase = "up" /\ pc[Main] = "closing" /\ ProcessEnds

\* emergency_stop: the status under the lock; read and persisted outside of it.
EmergencyStop(t) ==
    /\ "emergency_stop" \in Call
    /\ Goto(t, "idle", "read_status")
    /\ status' = "STOPPED_SAFE"
    /\ UNCHANGED <<process, persisted, memory, owed, overtaken>>

EmergencyReads(t) ==
    /\ Goto(t, "read_status", "persist")
    /\ copy' = [copy EXCEPT ![t] = status]
    /\ UNCHANGED <<process, status, persisted, reconciled, divergence, workers, passes, owed, overtaken>>

EmergencyPersists(t) ==
    /\ Goto(t, "persist", Done)
    /\ persisted' = copy[t]
    /\ copy' = [copy EXCEPT ![t] = "OFFLINE"]
    /\ overtaken' = overtaken \cup InPlay
    /\ UNCHANGED <<process, status, reconciled, divergence, workers, passes, owed>>

\* reconcile: refused while the orders diverge; the check is not under the lock.
ReconcileChecks(t) ==
    /\ "reconcile" \in Call
    /\ Goto(t, "idle", "reconciled")
    /\ ~divergence
    /\ UNCHANGED <<process, status, persisted, memory, owed, overtaken>>

ReconcileFinishes(t) ==
    /\ Goto(t, "reconciled", Done)
    /\ reconciled' = TRUE
    /\ SetStatus("STOPPED_SAFE")
    /\ owed' = "none"
    /\ UNCHANGED <<process, divergence, workers, passes, copy, overtaken>>

\* test_connection, connected: the exchange's open orders are compared with the
\* local ones, and what the field says by then withdraws the reconciliation.
TestConnection(t) ==
    /\ "test_connection" \in Call
    /\ Goto(t, "idle", "diverged")
    /\ divergence' \in BOOLEAN
    /\ UNCHANGED <<process, status, persisted, reconciled, workers, passes, copy, owed, overtaken>>

TestConnectionEnds(t) ==
    /\ Goto(t, "diverged", Done)
    /\ reconciled' = (reconciled /\ ~divergence)
    /\ UNCHANGED <<process, status, persisted, divergence, workers, passes, copy, owed, overtaken>>

\* What a call that is under way does next.
Continues(t) ==
    \/ ReadRecovery(t) \/ ReadDivergence(t) \/ PreflightRaises(t)
    \/ PlayRefused(t) \/ PlayRuns(t)
    \/ EnsureWorker(t) \/ AssignWorker(t) \/ LaunchWorker(t)
    \/ StopFinishes(t) \/ EmergencyReads(t) \/ EmergencyPersists(t)
    \/ ReconcileFinishes(t) \/ TestConnectionEnds(t)

Begins(t) ==
    PlayStarts(t) \/ EmergencyStop(t) \/ ReconcileChecks(t) \/ TestConnection(t)

Next ==
    \/ Boot \/ BootFinish \/ Crash
    \/ Close \/ CloseStopFinishes \/ CloseEnds
    \/ WorkerDies
    \/ \E t \in AnyThread : StopStarts(t)
    \/ \E t \in Thread : Begins(t) \/ Continues(t)

Spec == Init /\ [][Next]_vars

\* A call that has begun goes on: it waits for nothing but a request with a
\* timeout.  Nobody has to make a call, to start the process or to end it.
Fairness ==
    /\ \A t \in Thread : WF_vars(Continues(t))
    /\ WF_vars(CloseStopFinishes)

FairSpec == Spec /\ Fairness

-----------------------------------------------------------------------------
\* A process that finds RUNNING, STARTING or STOPPING in the store does not run
\* the bot until reconcile() has been called, whatever else is called before.
RecoveryBlocksPlay ==
    owed # "none" /\ previous \in Interrupted => status # "RUNNING"

\* What a crash leaves in the store is the status the process had, as long as
\* nobody calls emergency_stop, which persists outside the lock.
PersistedIsCurrent == phase = "up" => persisted = status

\* STOPPING is left again: the second half of a stop follows, or the process
\* ends, whatever other calls do to the status meanwhile.
StoppingIsTransient == status = "STOPPING" ~> status # "STOPPING"

\* A bot that runs gets a worker thread that has been started, also when two
\* calls of _ensure_worker overlap and one of them replaces the other's thread.
RunningGetsWorker ==
    phase = "up" /\ status = "RUNNING" ~>
        \/ phase # "up" \/ status # "RUNNING"
        \/ \E w \in DOMAIN workers : workers[w] # "new"

\* The same with emergency_stop, once none is under way.  One that read the
\* status before a play or a reconcile changed it persists the old one.
StoreSettles ==
    phase = "up" /\ (\A t \in Thread : pc[t] \notin {"read_status", "persist"}) => persisted = status

\* At most one worker polls the market.  Two plays that both find no live worker
\* create and start one each: _ensure_worker does not hold the lock.
OneWorker == \A v, w \in DOMAIN workers : workers[v] = "alive" /\ workers[w] = "alive" => v = w

\* docs/operator/LOCAL_DASHBOARD.md:53-54: after a crash in RUNNING, "bloqueia
\* PLAY até reconciliação explícita".  A second restart, or a stop or a refused
\* play before it, forgets that a reconciliation is due.
ReconciliationIsNotForgotten == owed = "RUNNING" => status # "RUNNING"

\* docs/operator/LOCAL_DASHBOARD.md:49-50: STOP "desabilita novas entradas ...
\* e termina em STOPPED_SAFE".  A play that was in its preflight sets RUNNING
\* after the stop has returned.
StopIsNotUndone == [][\A t \in Thread : PlayRuns(t) => t \notin overtaken]_vars
=============================================================================
