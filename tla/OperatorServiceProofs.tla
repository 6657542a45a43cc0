----------------------- MODULE OperatorServiceProofs -----------------------
(***************************************************************************)
(* A process that finds an interrupted status in the store does not run    *)
(* the bot before reconcile(), for any number of handler threads and any   *)
(* calls.  The property is not inductive: it says nothing of the plays     *)
(* that are in their preflight.  The strengthening adds that in such a     *)
(* process _reconciled is false and no preflight has passed.               *)
(*                                                                         *)
(* And the persisted status is the current one for as long as nobody       *)
(* calls emergency_stop, which persists a status it has read before.       *)
(***************************************************************************)
EXTENDS OperatorService, TLAPS

MustReconcile == owed # "none" /\ previous \in Interrupted

RecoveryInv ==
    /\ phase # "up" => \A t \in AnyThread : pc[t] = "idle"
    /\ MustReconcile =>
         /\ phase # "down" => ~reconciled
         /\ \A t \in Thread : pc[t] \in {"divergence", "decide"} => ~passes[t]
         /\ status # "RUNNING"

IInv == TypeOK /\ RecoveryInv

\* A new process has created no worker.
LEMMA NoWorkers == <<>> \in Seq({"new", "alive", "dead"}) /\ Len(<<>>) = 0
  OBVIOUS

\* What the memory of a process starts from.
LEMMA MemoryTyped ==
    /\ [t \in AnyThread |-> "idle"] \in [AnyThread -> Step]
    /\ [t \in Thread |-> FALSE] \in [Thread -> BOOLEAN]
    /\ [t \in Thread |-> "OFFLINE"] \in [Thread -> Status]
  BY DEF Step, Status

\* The memory of a process that has ended has its types.
LEMMA EndTyped == TypeOK /\ ProcessEnds => TypeOK'
<1> SUFFICES ASSUME TypeOK, ProcessEnds PROVE TypeOK'
  OBVIOUS
<1>1. /\ workers' \in Seq({"new", "alive", "dead"})
      /\ Len(workers') <= MaxWorkers
  <2>1. workers' = <<>>
    BY DEF ProcessEnds
  <2> QED
    BY <2>1, NoWorkers, ServiceAssumption
<1>2. /\ pc' \in [AnyThread -> Step]
      /\ passes' \in [Thread -> BOOLEAN]
      /\ copy' \in [Thread -> Status]
      /\ pc' = [t \in AnyThread |-> "idle"]
  BY MemoryTyped DEF ProcessEnds
<1>3. /\ persisted' \in Status /\ previous' \in Status /\ status' \in Status
      /\ phase' \in {"down", "booting", "up"}
      /\ reconciled' \in BOOLEAN /\ divergence' \in BOOLEAN
      /\ owed' \in Interrupted \cup {"none"}
      /\ overtaken' \subseteq Thread
  BY DEF ProcessEnds, TypeOK, Status, Interrupted
<1> QED
  BY <1>1, <1>2, <1>3 DEF TypeOK

\* Starting a worker, or not, changes no more than its state.
LEMMA Launched ==
    ASSUME NEW W \in Seq({"new", "alive", "dead"})
    PROVE  LET V == [W EXCEPT ![Len(W)] = IF @ = "new" THEN "alive" ELSE @]
           IN  V \in Seq({"new", "alive", "dead"}) /\ Len(V) = Len(W)
<1> DEFINE V == [W EXCEPT ![Len(W)] = IF @ = "new" THEN "alive" ELSE @]
<1>1. CASE Len(W) = 0
  <2>1. DOMAIN W = {}
    BY <1>1
  <2>2. V = W
    BY <1>1, <2>1
  <2> QED
    BY <2>2
<1>2. CASE Len(W) # 0
  <2>1. Len(W) \in 1..Len(W) /\ W[Len(W)] \in {"new", "alive", "dead"}
    BY <1>2
  <2>2. (IF W[Len(W)] = "new" THEN "alive" ELSE W[Len(W)]) \in {"new", "alive", "dead"}
    BY <2>1
  <2> QED
    BY <2>1, <2>2
<1> QED
  BY <1>1, <1>2

\* The strengthened invariant holds in the store of a first start.
LEMMA InitEstablishes == Init => IInv
<1> SUFFICES ASSUME Init PROVE IInv
  OBVIOUS
<1>1. workers \in Seq({"new", "alive", "dead"}) /\ Len(workers) <= MaxWorkers
  BY NoWorkers, ServiceAssumption DEF Init
<1>2. /\ pc \in [AnyThread -> Step]
      /\ passes \in [Thread -> BOOLEAN]
      /\ copy \in [Thread -> Status]
      /\ pc = [t \in AnyThread |-> "idle"]
  BY MemoryTyped DEF Init
<1>3. /\ persisted \in Status /\ previous \in Status /\ status \in Status
      /\ phase \in {"down", "booting", "up"}
      /\ reconciled \in BOOLEAN /\ divergence \in BOOLEAN
      /\ owed \in Interrupted \cup {"none"}
      /\ overtaken \subseteq Thread
  BY DEF Init, Status
<1>4. RecoveryInv
  BY <1>2 DEF Init, RecoveryInv, MustReconcile
<1> QED
  BY <1>1, <1>2, <1>3, <1>4 DEF IInv, TypeOK

\* Every step of every call, of the restart and of a crash keeps the types.
LEMMA TypeStep == TypeOK /\ [Next]_vars => TypeOK'
<1> SUFFICES ASSUME TypeOK, [Next]_vars PROVE TypeOK'
  OBVIOUS
<1> USE ServiceAssumption DEF TypeOK, AnyThread, Step, Status, Interrupted, Done
<1>1. CASE Boot
  <2>1. workers' \in Seq({"new", "alive", "dead"}) /\ Len(workers') <= MaxWorkers
    BY <1>1, NoWorkers DEF Boot
  <2>2. pc' = pc /\ passes' = passes /\ copy' = copy /\ owed' = owed /\ overtaken' = overtaken
    BY <1>1 DEF Boot
  <2>3. /\ persisted' = "STOPPED_SAFE" /\ previous' = persisted /\ status' = "STOPPED_SAFE"
        /\ phase = "down" /\ phase' = "booting"
        /\ reconciled' \in BOOLEAN /\ divergence' \in BOOLEAN
    BY <1>1 DEF Boot, SetStatus
  <2> QED
    BY <2>1, <2>2, <2>3
<1>2. CASE BootFinish
  BY <1>2 DEF BootFinish, SetStatus, memory
<1>3. CASE Crash
  BY <1>3, EndTyped DEF Crash
<1>4. CASE Close
  BY <1>4, EndTyped DEF Close
<1>5. CASE CloseStopFinishes
  BY <1>5 DEF CloseStopFinishes, Goto, SetStatus, process, memory
<1>6. CASE CloseEnds
  BY <1>6, EndTyped DEF CloseEnds
<1>7. CASE WorkerDies
  BY <1>7 DEF WorkerDies, process
<1>8. ASSUME NEW t \in AnyThread, StopStarts(t) PROVE TypeOK'
  BY <1>8 DEF StopStarts, StopTarget, Goto, SetStatus, process, memory
<1>9. ASSUME NEW t \in Thread, Begins(t) PROVE TypeOK'
  <2>1. CASE PlayStarts(t)
    BY <2>1 DEF PlayStarts, Goto, SetStatus, process, memory
  <2>2. CASE EmergencyStop(t)
    BY <2>2 DEF EmergencyStop, Goto, process, memory
  <2>3. CASE ReconcileChecks(t)
    BY <2>3 DEF ReconcileChecks, Goto, process, memory
  <2>4. CASE TestConnection(t)
    BY <2>4 DEF TestConnection, Goto, process
  <2> QED
    BY <1>9, <2>1, <2>2, <2>3, <2>4 DEF Begins
<1>10. ASSUME NEW t \in Thread, Continues(t) PROVE TypeOK'
  <2>1. CASE ReadRecovery(t)
    BY <2>1 DEF ReadRecovery, RecoveryVerdict, Goto, process
  <2>2. CASE ReadDivergence(t)
    BY <2>2 DEF ReadDivergence, Goto, process
  <2>3. CASE PreflightRaises(t)
    BY <2>3 DEF PreflightRaises, PreflightOver, Goto, process
  <2>4. CASE PlayRefused(t)
    BY <2>4 DEF PlayRefused, PreflightOver, Goto, SetStatus, process
  <2>5. CASE PlayRuns(t)
    BY <2>5 DEF PlayRuns, PreflightOver, Goto, SetStatus, process
  <2>6. CASE EnsureWorker(t)
    BY <2>6 DEF EnsureWorker, Goto, process, memory
  <2>7. CASE AssignWorker(t)
    BY <2>7 DEF AssignWorker, Goto, process
  <2>8. CASE LaunchWorker(t)
    BY <2>8, Launched DEF LaunchWorker, Goto, process
  <2>9. CASE StopFinishes(t)
    BY <2>9 DEF StopFinishes, InPlay, Goto, SetStatus, process, memory
  <2>10. CASE EmergencyReads(t)
    BY <2>10 DEF EmergencyReads, Goto, process
  <2>11. CASE EmergencyPersists(t)
    BY <2>11 DEF EmergencyPersists, InPlay, Goto, process
  <2>12. CASE ReconcileFinishes(t)
    BY <2>12 DEF ReconcileFinishes, Goto, SetStatus, process
  <2>13. CASE TestConnectionEnds(t)
    BY <2>13 DEF TestConnectionEnds, Goto, process
  <2> QED
    BY <1>10, <2>1, <2>2, <2>3, <2>4, <2>5, <2>6, <2>7, <2>8, <2>9, <2>10, <2>11, <2>12, <2>13
       DEF Continues
<1>11. CASE UNCHANGED vars
  BY <1>11 DEF vars
<1> QED
  BY <1>1, <1>2, <1>3, <1>4, <1>5, <1>6, <1>7, <1>8, <1>9, <1>10, <1>11 DEF Next

\* A process that must reconcile keeps _reconciled false and passes no
\* preflight, so that no play of it gets to RUNNING.
LEMMA RecoveryStep == TypeOK /\ RecoveryInv /\ [Next]_vars => RecoveryInv'
<1> SUFFICES ASSUME TypeOK, RecoveryInv, [Next]_vars PROVE RecoveryInv'
  OBVIOUS
<1> USE ServiceAssumption DEF TypeOK, RecoveryInv, MustReconcile, AnyThread, Done
<1>1. CASE Boot
  BY <1>1 DEF Boot, SetStatus
<1>2. CASE BootFinish
  BY <1>2 DEF BootFinish, SetStatus, memory
<1>3. ASSUME ProcessEnds PROVE RecoveryInv'
  BY <1>3 DEF ProcessEnds, Interrupted
<1>4. CASE Crash \/ Close \/ CloseEnds
  BY <1>3, <1>4 DEF Crash, Close, CloseEnds
<1>5. CASE CloseStopFinishes
  BY <1>5 DEF CloseStopFinishes, Goto, SetStatus, process, memory
<1>6. CASE WorkerDies
  BY <1>6 DEF WorkerDies, process
<1>7. ASSUME NEW t \in AnyThread, StopStarts(t) PROVE RecoveryInv'
  BY <1>7 DEF StopStarts, StopTarget, Goto, SetStatus, process, memory
<1>8. ASSUME NEW t \in Thread, Begins(t) PROVE RecoveryInv'
  <2>1. CASE PlayStarts(t)
    BY <2>1 DEF PlayStarts, Goto, SetStatus, process, memory
  <2>2. CASE EmergencyStop(t)
    BY <2>2 DEF EmergencyStop, Goto, process, memory
  <2>3. CASE ReconcileChecks(t)
    BY <2>3 DEF ReconcileChecks, Goto, process, memory
  <2>4. CASE TestConnection(t)
    BY <2>4 DEF TestConnection, Goto, process
  <2> QED
    BY <1>8, <2>1, <2>2, <2>3, <2>4 DEF Begins
<1>9. ASSUME NEW t \in Thread, Continues(t) PROVE RecoveryInv'
  <2>1. CASE ReadRecovery(t)
    BY <2>1 DEF ReadRecovery, RecoveryVerdict, Goto, process
  <2>2. CASE ReadDivergence(t)
    BY <2>2 DEF ReadDivergence, Goto, process
  <2>3. CASE PreflightRaises(t)
    BY <2>3 DEF PreflightRaises, PreflightOver, Goto, process
  <2>4. CASE PlayRefused(t)
    BY <2>4 DEF PlayRefused, PreflightOver, Goto, SetStatus, process
  <2>5. CASE PlayRuns(t)
    <3>1. ~MustReconcile
      BY <2>5 DEF PlayRuns, Goto
    <3> QED
      BY <2>5, <3>1 DEF PlayRuns, PreflightOver, Goto, process
  <2>6. CASE EnsureWorker(t)
    BY <2>6 DEF EnsureWorker, Goto, process, memory
  <2>7. CASE AssignWorker(t)
    BY <2>7 DEF AssignWorker, Goto, process
  <2>8. CASE LaunchWorker(t)
    BY <2>8 DEF LaunchWorker, Goto, process
  <2>9. CASE StopFinishes(t)
    BY <2>9 DEF StopFinishes, Goto, SetStatus, process, memory
  <2>10. CASE EmergencyReads(t)
    BY <2>10 DEF EmergencyReads, Goto, process
  <2>11. CASE EmergencyPersists(t)
    BY <2>11 DEF EmergencyPersists, Goto, process
  <2>12. CASE ReconcileFinishes(t)
    BY <2>12 DEF ReconcileFinishes, Goto, process
  <2>13. CASE TestConnectionEnds(t)
    BY <2>13 DEF TestConnectionEnds, Goto, process
  <2> QED
    BY <1>9, <2>1, <2>2, <2>3, <2>4, <2>5, <2>6, <2>7, <2>8, <2>9, <2>10, <2>11, <2>12, <2>13
       DEF Continues
<1>10. CASE UNCHANGED vars
  BY <1>10 DEF vars
<1> QED
  BY <1>1, <1>2, <1>4, <1>5, <1>6, <1>7, <1>8, <1>9, <1>10 DEF Next

\* The strengthened invariant: types, and what a process that must reconcile
\* may have in its memory.
THEOREM InductiveInvariant == Spec => []IInv
<1>1. Init => IInv
  BY InitEstablishes
<1>2. IInv /\ [Next]_vars => IInv'
  BY TypeStep, RecoveryStep DEF IInv
<1> QED
  BY <1>1, <1>2, PTL DEF Spec

\* The control state is well typed in every interleaving of the calls.
THEOREM TypeCorrect == Spec => []TypeOK
<1>1. IInv => TypeOK
  BY DEF IInv
<1> QED
  BY <1>1, InductiveInvariant, PTL

\* play never gets to RUNNING in a process that found RUNNING, STARTING or
\* STOPPING in the store, before reconcile() has been called.
THEOREM RecoveryIsEnforced == Spec => []RecoveryBlocksPlay
<1>1. IInv => RecoveryBlocksPlay
  BY DEF IInv, RecoveryInv, MustReconcile, RecoveryBlocksPlay
<1> QED
  BY <1>1, InductiveInvariant, PTL

\* Without emergency_stop every status is persisted where it is set.
StoreInv ==
    /\ phase # "down" => persisted = status
    /\ \A t \in Thread : pc[t] \notin {"read_status", "persist"}

\* Every step keeps it: SetStatus writes memory and store together, and only
\* emergency_stop reads the status and persists it later.
LEMMA StoreStep ==
    ASSUME "emergency_stop" \notin Call, TypeOK, StoreInv, [Next]_vars
    PROVE  StoreInv'
<1> USE ServiceAssumption DEF StoreInv, AnyThread, Done
<1>1. CASE Boot
  BY <1>1 DEF Boot, SetStatus
<1>2. CASE BootFinish
  BY <1>2 DEF BootFinish, SetStatus
<1>3. ASSUME ProcessEnds PROVE StoreInv'
  BY <1>3 DEF ProcessEnds, AnyThread
<1>4. CASE Crash \/ Close \/ CloseEnds
  BY <1>3, <1>4 DEF Crash, Close, CloseEnds
<1>5. CASE CloseStopFinishes
  BY <1>5 DEF CloseStopFinishes, Goto, SetStatus, process
<1>6. CASE WorkerDies
  BY <1>6 DEF WorkerDies, process
<1>7. ASSUME NEW t \in AnyThread, StopStarts(t) PROVE StoreInv'
  BY <1>7 DEF StopStarts, Goto, SetStatus, process, TypeOK
<1>8. ASSUME NEW t \in Thread, Begins(t) PROVE StoreInv'
  <2>1. PlayStarts(t) \/ ReconcileChecks(t) \/ TestConnection(t)
    BY <1>8 DEF Begins, EmergencyStop
  <2> QED
    BY <2>1 DEF PlayStarts, ReconcileChecks, TestConnection, Goto, SetStatus, process, TypeOK
<1>9. ASSUME NEW t \in Thread, Continues(t) PROVE StoreInv'
  <2>1. ~EmergencyReads(t) /\ ~EmergencyPersists(t)
    BY DEF EmergencyReads, EmergencyPersists, Goto
  <2>2. PICK from \in Step, to \in Step \ {"read_status", "persist"} : Goto(t, from, to)
    BY <1>9, <2>1 DEF Continues, ReadRecovery, ReadDivergence, PreflightRaises, PlayRefused,
                      PlayRuns, EnsureWorker, AssignWorker, LaunchWorker, StopFinishes,
                      ReconcileFinishes, TestConnectionEnds, Step
  <2>3. \A u \in Thread : pc'[u] \notin {"read_status", "persist"}
    BY <2>2 DEF Goto, TypeOK
  <2>4. phase' = phase
    BY <1>9 DEF Continues, ReadRecovery, ReadDivergence, PreflightRaises, PlayRefused,
                PlayRuns, EnsureWorker, AssignWorker, LaunchWorker, StopFinishes, EmergencyReads,
                EmergencyPersists, ReconcileFinishes, TestConnectionEnds, PreflightOver, process
  <2>5. \/ \E s \in Status : SetStatus(s)
        \/ UNCHANGED <<status, persisted>>
    BY <1>9, <2>1 DEF Continues, ReadRecovery, ReadDivergence, PreflightRaises, PlayRefused,
                      PlayRuns, EnsureWorker, AssignWorker, LaunchWorker, StopFinishes,
                      ReconcileFinishes, TestConnectionEnds, Status
  <2> QED
    BY <2>3, <2>4, <2>5 DEF SetStatus
<1>10. CASE UNCHANGED vars
  BY <1>10 DEF vars
<1> QED
  BY <1>1, <1>2, <1>4, <1>5, <1>6, <1>7, <1>8, <1>9, <1>10 DEF Next

\* A crash at any point finds in the store the status the process had, for any
\* number of threads, as long as no thread calls emergency_stop.
THEOREM StoreIsCurrent ==
    ASSUME "emergency_stop" \notin Call PROVE Spec => []PersistedIsCurrent
<1>1. Init => StoreInv
  BY DEF Init, StoreInv, AnyThread
<1>2. TypeOK /\ StoreInv /\ [Next]_vars => StoreInv'
  BY StoreStep
<1>3. StoreInv => PersistedIsCurrent
  BY DEF StoreInv, PersistedIsCurrent
<1> QED
  BY <1>1, <1>2, <1>3, TypeCorrect, PTL DEF Spec
=============================================================================
