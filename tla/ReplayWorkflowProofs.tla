------------------------ MODULE ReplayWorkflowProofs ------------------------
(***************************************************************************)
(* Theorems about ReplayWorkflow, for every set of configurations,         *)
(* scenarios and commits, every number of models, and a process that is    *)
(* killed at any step any number of times.                                 *)
(*                                                                         *)
(*   A. the inductive invariant: what may still be written, given what was *)
(*   B. the journal, and what one more event changes in it                 *)
(*   C. one write of an operation                                          *)
(*   D. what each operation sets out to write                              *)
(*   E. the invariant is kept by every step                                *)
(***************************************************************************)
EXTENDS ReplayWorkflow, LedgerArithmeticProofs, FiniteSetTheorems, SequenceTheorems

-----------------------------------------------------------------------------
(* A. The inductive invariant.  log is a journal, disk the names of the    *)
(* files that exist and writes what the operation in progress has left.    *)

ChangesStatus(e) == e.type \in {"STATUS_CHANGED", "PROMOTION_RECORDED"}

\* An event of the type and the model is recorded, or will be before the k-th write.
Precedes(log, writes, k, type, id) ==
    \/ EventsOf(log, type, id) # {}
    \/ \E j \in Logs(writes) : /\ j < k /\ writes[j].event.type = type
                               /\ writes[j].event.model = id

\* The change of status e will be one the table allows, when its turn comes.
Permitted(log, writes, k, e) ==
    \/ e.to \in AllowedTransitions[e.from]
    \/ /\ e.model = RetryId /\ e.from = "INVALIDATED_TECHNICAL"
       /\ \/ /\ e.to = "RUNNING"
             /\ Precedes(log, writes, k, "TECHNICAL_RETRY_AUTHORIZED", e.model)
          \/ /\ e.to = "EVALUATED"
             /\ Precedes(log, writes, k, "POSTPROCESSING_RECOVERY_COMPLETED", e.model)

\* Each model changes its status at most once, from the status it has.
StatusPlanned(log, writes) ==
    \A k \in Logs(writes) :
        LET e == writes[k].event IN
        /\ ChangesStatus(e) =>
               \A j \in Logs(writes) :
                   ChangesStatus(writes[j].event) /\ writes[j].event.model = e.model => j = k
        /\ e.type = "PROMOTION_RECORDED" => CurrentStatus(log, e.model) = "EVALUATED"
        /\ e.type = "STATUS_CHANGED" =>
               /\ e.from = CurrentStatus(log, e.model) /\ e.to # "PROMOTED"
               /\ Permitted(log, writes, k, e)

\* f does not register again what e registered.
Differs(e, f) ==
    /\ f.type = "MODEL_CREATED" => e.config # f.config /\ e.model < f.model
    /\ f.type \in {"SCENARIO_REGISTERED", "RUN_REGISTERED"} => e # f

\* At most one registration of a kind, of something that is not registered.
NewPlanned(log, writes) ==
    \A k \in Logs(writes) :
        LET f == writes[k].event IN
        f.type \in {"MODEL_CREATED", "SCENARIO_REGISTERED", "RUN_REGISTERED"} =>
            /\ \A j \in Logs(writes) : writes[j].event.type = f.type => j = k
            /\ \A i \in Events(log, f.type) : Differs(log[i], f)

\* A model is made EVALUATED only when its evidence is there.
EvidencePlanned(log, disk, writes) ==
    \A k \in Logs(writes) :
        LET e == writes[k].event IN
        e.type = "STATUS_CHANGED" /\ e.to = "EVALUATED" => HasEvidence(log, disk, e.model)

Crowns(e) == e.type \in {"PROMOTION_RECORDED", "CHAMPION_RECORDED"}

\* A champion leaves before its successor, the only one, is promoted, and the
\* successor is promoted before it is recorded.
ChampionPlanned(log, writes) ==
    \A k \in Logs(writes) :
        LET e == writes[k].event IN
        /\ e.type = "PROMOTION_RECORDED" =>
               /\ \A j \in Logs(writes) : j < k => ~ Crowns(writes[j].event)
               /\ \A i \in ChampionRecords(log) :
                   \E j \in Logs(writes) : /\ j < k /\ writes[j].event.type = "STATUS_CHANGED"
                                           /\ writes[j].event.model = log[i].model
        /\ e.type = "CHAMPION_RECORDED" =>
            /\ \A j \in Logs(writes) :
                   j < k /\ Crowns(writes[j].event) =>
                       writes[j].event.type = "PROMOTION_RECORDED" /\ writes[j].event.model = e.model
            /\ \/ \E j \in Logs(writes) : /\ j < k /\ writes[j].event.type = "PROMOTION_RECORDED"
                                          /\ writes[j].event.model = e.model
               \/ \A i \in ChampionRecords(log) : log[i].model = e.model

\* What is recorded is shown by the last write.
ReportsPlanned(writes) == Logs(writes) # {} => writes[Len(writes)].to = "reports"

\* The journal and the files are as they should be, and stay so as the writes
\* are made, one after the other, up to any point.
Sound(log, disk) ==
    /\ log \in Seq(Event) /\ disk \subseteq Artifact
    /\ StatusesFollowTheTable(log) /\ RegisteredOnce(log)
    /\ EvidenceIn(log, disk) /\ OneChampion(log)

Planned(log, disk, writes) ==
    /\ writes \in Seq(Writing)
    /\ StatusPlanned(log, writes) /\ NewPlanned(log, writes)
    /\ EvidencePlanned(log, disk, writes) /\ ChampionPlanned(log, writes)
    /\ ReportsPlanned(writes)

\* Unless an operation was cut short, the reports are current or will be.
ReportsFollow ==
    \/ interrupted \/ projected = Len(journal)
    \/ todo # <<>> /\ todo[Len(todo)].to = "reports"

\* What is recorded, or on disk, or will be when the writes are made.
Recorded(log, writes) ==
    {log[i] : i \in DOMAIN log} \cup {writes[k].event : k \in Logs(writes)}
Puts(writes) == {k \in DOMAIN writes : writes[k].to = "artifact"}
Stored(disk, writes) == disk \cup {writes[k].file : k \in Puts(writes)}

\* What _run_one relies on where it stands: the run it registered, the replay
\* it completed, the evaluation it recorded.
FlowKnows(log, disk, writes) ==
    /\ pc = "run" => RunRegistered(model, run) \in Recorded(log, writes)
    /\ pc \in {"running", "computed", "evaluated", "recorded"} => run \in RunsOf(log, model)
    /\ pc = "computed" => RunFile(model, run, "completed-replay.json") \in Stored(disk, writes)
    /\ pc \in {"evaluated", "recorded"} =>
           /\ RunFile(model, run, "completed-replay.json") \in disk
           /\ \E analysis \in Commit :
                 /\ EvaluationRecorded(model, run, analysis) \in Recorded(log, writes)
                 /\ \A n \in DOMAIN EvaluationFiles :
                        File(model, run, analysis, EvaluationFiles[n]) \in Stored(disk, writes)

\* The registry, and where the operation in progress stands.
RegistryIsSound ==
    /\ bound.events \in Nat /\ Fits(todo)
    /\ Sound(journal, DOMAIN files) /\ Planned(journal, DOMAIN files, todo)
    /\ projected \in 0..Len(journal) /\ interrupted \in BOOLEAN
    /\ ReportsFollow

\* The types of the variables of _run_one.
FlowTyped ==
    /\ lock \in BOOLEAN /\ pc \in Step /\ head \in Commit
    /\ IF pc = "idle" THEN model = None /\ run = NoRun
       ELSE model \in Registered(journal) /\ run \in RunSpec
    /\ seen \in ModelStatus \cup {None}

IInv == RegistryIsSound /\ FlowTyped /\ FlowKnows(journal, DOMAIN files, todo)

-----------------------------------------------------------------------------
(* B. The journal.                                                         *)

\* A non-empty set of numbers with a bound has a greatest.
LEMMA GreatestElement ==
    ASSUME NEW S \in SUBSET Nat, S # {}, NEW b \in Nat, \A k \in S : k <= b
    PROVE  \E m \in S : \A k \in S : k <= m
<1> DEFINE B == {c \in Nat : \A k \in S : k <= c}
<1>1. b \in B /\ B \in SUBSET Nat
    OBVIOUS
<1>2. PICK m \in B : \A k \in Nat : k < m => k \notin B
    BY <1>1, LeastElement
<1>3. m \in S
    <2>1. SUFFICES ASSUME m \notin S PROVE FALSE
        OBVIOUS
    <2>2. \A k \in S : k <= m - 1
        BY <2>1
    <2>3. PICK k \in S : TRUE
        OBVIOUS
    <2>4. m - 1 \in Nat /\ m - 1 < m
        BY <2>2, <2>3
    <2>5. QED BY <1>2, <2>2, <2>4
<1>4. QED BY <1>3

\* A non-empty set of positions in a list has a last one.
LEMMA LatestIsLast ==
    ASSUME NEW n \in Nat, NEW S \in SUBSET (1..n), S # {}
    PROVE  Latest(S) \in S /\ \A k \in S : k <= Latest(S)
<1>1. \E i \in S : \A k \in S : k <= i
    <2>1. S \in SUBSET Nat /\ \A k \in S : k <= n
        OBVIOUS
    <2>2. QED BY <2>1, GreatestElement
<1>2. QED BY <1>1 DEF Latest

\* A list of numbers is bounded.
LEMMA ListIsBounded ==
    ASSUME NEW n \in Nat, NEW f, \A i \in 1..n : f[i] \in Nat
    PROVE  \E b \in Nat : \A i \in 1..n : f[i] <= b
<1> DEFINE Bounded(m) == \E b \in Nat : \A i \in 1..m : f[i] <= b
           Bad == {m \in 0..n : ~ Bounded(m)}
<1>1. SUFFICES ASSUME ~ Bounded(n) PROVE FALSE
    OBVIOUS
<1>2. PICK m \in Bad : \A k \in Nat : k < m => k \notin Bad
    <2>1. n \in Bad /\ Bad \in SUBSET Nat
        BY <1>1
    <2> HIDE DEF Bad
    <2>2. QED BY <2>1, LeastElement
<1>3. m # 0
    <2>1. Bounded(0)
        OBVIOUS
    <2>2. QED BY <2>1
<1>4. m - 1 \in 0..n /\ m - 1 \in Nat /\ m - 1 < m /\ m \in 1..n
    BY <1>3
<1>5. Bounded(m - 1)
    BY <1>2, <1>4
<1>6. PICK b \in Nat : \A i \in 1..(m - 1) : f[i] <= b
    BY <1>5
<1>7. PICK c \in Nat : c >= b /\ c >= f[m]
    <2>1. f[m] \in Nat
        BY <1>4
    <2>2. b + f[m] \in Nat /\ b + f[m] >= b /\ b + f[m] >= f[m]
        BY <2>1
    <2>3. QED BY <2>2
<1>8. \A i \in 1..m : f[i] <= c
    <2>1. ASSUME NEW i \in 1..m PROVE f[i] <= c
        <3>1. CASE i = m
            BY <1>7, <3>1
        <3>2. CASE i # m
            <4>1. i \in 1..(m - 1) /\ f[i] \in Nat
                BY <1>4, <3>2
            <4>2. f[i] <= b
                BY <1>6, <4>1
            <4>3. QED BY <1>7, <4>1, <4>2
        <3>3. QED BY <3>1, <3>2
    <2>2. QED BY <2>1
<1>9. Bounded(m)
    BY <1>8
<1>10. QED BY <1>9

\* The event e is added to the journal.
Grows(log, e, more) == log \in Seq(Event) /\ e \in Event /\ more = Append(log, e)

\* What was in the journal is still there.
LEMMA GrownKeeps ==
    ASSUME NEW log, NEW e, NEW more, Grows(log, e, more), NEW i \in DOMAIN log
    PROVE  more[i] = log[i]
BY DEF Grows

\* The event is in the last place.
LEMMA GrownLast ==
    ASSUME NEW log, NEW e, NEW more, Grows(log, e, more)
    PROVE  more[Len(log) + 1] = e /\ Len(log) + 1 \notin DOMAIN log
BY DEF Grows

\* That is the only new place.
LEMMA GrownPlaces ==
    ASSUME NEW log, NEW e, NEW more, Grows(log, e, more), NEW i
    PROVE  i \in DOMAIN more <=> i \in DOMAIN log \/ i = Len(log) + 1
BY DEF Grows

\* The journal stays a journal.
LEMMA GrownJournal ==
    ASSUME NEW log, NEW e, NEW more, Grows(log, e, more)
    PROVE  /\ log \in Seq(Event) /\ more \in Seq(Event)
           /\ Len(log) \in Nat /\ DOMAIN log = 1..Len(log) /\ Len(more) = Len(log) + 1
BY AppendProperties DEF Grows

\* The events of a type and a model, after one more.
LEMMA GrownEvents ==
    ASSUME NEW log, NEW e, NEW more, Grows(log, e, more), NEW type, NEW id
    PROVE  /\ Events(more, type) = Events(log, type) \cup
                  (IF e.type = type THEN {Len(log) + 1} ELSE {})
           /\ EventsOf(more, type, id) = EventsOf(log, type, id) \cup
                  (IF e.type = type /\ e.model = id THEN {Len(log) + 1} ELSE {})
<1> DEFINE n == Len(log) + 1
<1>1. ASSUME NEW i PROVE i \in Events(more, type) <=> i \in Events(log, type) \/ (i = n /\ e.type = type)
    <2>1. i \in DOMAIN more <=> i \in DOMAIN log \/ i = n
        BY GrownPlaces
    <2>2. i \in DOMAIN log => more[i] = log[i]
        BY GrownKeeps
    <2>3. i = n => more[i] = e /\ i \notin DOMAIN log
        BY GrownLast
    <2>4. QED BY <2>1, <2>2, <2>3 DEF Events
<1>2. ASSUME NEW i
      PROVE  i \in EventsOf(more, type, id)
                 <=> i \in EventsOf(log, type, id) \/ (i = n /\ e.type = type /\ e.model = id)
    <2>1. i \in Events(log, type) => i \in DOMAIN log
        BY DEF Events
    <2>2. i \in DOMAIN log => more[i] = log[i]
        BY GrownKeeps
    <2>3. i = n => more[i] = e /\ i \notin DOMAIN log
        BY GrownLast
    <2>4. QED BY <1>1, <2>1, <2>2, <2>3 DEF EventsOf
<1> HIDE DEF n
<1>3. Events(more, type) = Events(log, type) \cup (IF e.type = type THEN {n} ELSE {})
    BY <1>1
<1>4. EventsOf(more, type, id) = EventsOf(log, type, id) \cup
          (IF e.type = type /\ e.model = id THEN {n} ELSE {})
    BY <1>2
<1>5. QED BY <1>3, <1>4 DEF n

\* The events that give a model its status are in the journal.
LEMMA StatusEventsOf ==
    ASSUME NEW log \in Seq(Event), NEW id
    PROVE  /\ Len(log) \in Nat /\ StatusEvents(log, id) \in SUBSET (1..Len(log))
           /\ \A i \in StatusEvents(log, id) :
                 log[i] \in Event /\ log[i].model = id /\ ChangesStatus(log[i])
<1>1. Len(log) \in Nat /\ DOMAIN log = 1..Len(log) /\ \A i \in DOMAIN log : log[i] \in Event
    OBVIOUS
<1>2. QED BY <1>1 DEF StatusEvents, EventsOf, Events, ChangesStatus

\* An event that changes a status says to which.
LEMMA StatusOfEvent ==
    ASSUME NEW e \in Event, ChangesStatus(e)
    PROVE  e.to \in ModelStatus
BY DEF Event, ChangesStatus, ModelStatus

\* A model the journal does not speak of is CREATED.
LEMMA StatusTyped ==
    ASSUME NEW log \in Seq(Event), NEW id
    PROVE  /\ CurrentStatus(log, id) \in ModelStatus
           /\ CurrentStatus(log, id) # "CREATED" => \E i \in DOMAIN log : log[i].model = id
<1> DEFINE S == StatusEvents(log, id)
<1>1. CASE S = {}
    BY <1>1 DEF CurrentStatus, ModelStatus
<1>2. CASE S # {}
    <2>1. Latest(S) \in S
        BY <1>2, StatusEventsOf, LatestIsLast
    <2>2. log[Latest(S)].to \in ModelStatus /\ Latest(S) \in DOMAIN log
          /\ log[Latest(S)].model = id
        BY <2>1, StatusEventsOf, StatusOfEvent
    <2>3. QED BY <1>2, <2>2 DEF CurrentStatus
<1>3. QED BY <1>1, <1>2

\* An event changes the status of its own model, if of any.
LEMMA GrownStatus ==
    ASSUME NEW log, NEW e, NEW more, Grows(log, e, more), NEW id
    PROVE  CurrentStatus(more, id) = IF ChangesStatus(e) /\ e.model = id THEN e.to
                                     ELSE CurrentStatus(log, id)
<1> DEFINE S == StatusEvents(log, id)
           T == StatusEvents(more, id)
           n == Len(log)
<1>1. /\ n \in Nat /\ S \in SUBSET (1..n) /\ n + 1 \notin S
      /\ T = S \cup (IF ChangesStatus(e) /\ e.model = id THEN {n + 1} ELSE {})
    <2>1. log \in Seq(Event)
        BY DEF Grows
    <2>2. n \in Nat /\ S \in SUBSET (1..n)
        BY <2>1, StatusEventsOf
    <2>3. T = S \cup (IF ChangesStatus(e) /\ e.model = id THEN {n + 1} ELSE {})
        BY GrownEvents DEF StatusEvents, ChangesStatus
    <2>4. QED BY <2>2, <2>3
<1>2. CASE ChangesStatus(e) /\ e.model = id
    <2>1. T = S \cup {n + 1}
        BY <1>1, <1>2
    <2> HIDE DEF T
    <2>2. T # {} /\ T \in SUBSET (1..(n + 1)) /\ n + 1 \in Nat
        BY <1>1, <2>1
    <2>3. Latest(T) \in T /\ \A k \in T : k <= Latest(T)
        BY <2>2, LatestIsLast
    <2>4. Latest(T) = n + 1
        <3>1. Latest(T) >= n + 1
            BY <2>1, <2>3
        <3>2. Latest(T) \in 1..(n + 1)
            BY <2>2, <2>3
        <3>3. QED BY <1>1, <3>1, <3>2
    <2>5. more[n + 1] = e
        BY GrownLast
    <2>6. QED BY <1>2, <2>2, <2>4, <2>5 DEF CurrentStatus, T
<1>3. CASE ~ (ChangesStatus(e) /\ e.model = id)
    <2>1. T = S
        BY <1>1, <1>3
    <2>2. CASE S = {}
        BY <1>3, <2>1, <2>2 DEF CurrentStatus
    <2>3. CASE S # {}
        <3>1. Latest(S) \in S
            BY <1>1, <2>3, LatestIsLast
        <3>2. more[Latest(S)] = log[Latest(S)]
            <4>1. Latest(S) \in DOMAIN log
                BY <1>1, <3>1, GrownJournal
            <4>2. \A i \in DOMAIN log : more[i] = log[i]
                BY GrownKeeps
            <4>3. QED BY <4>1, <4>2
        <3>3. QED BY <1>3, <2>1, <2>3, <3>2 DEF CurrentStatus
    <2>4. QED BY <2>2, <2>3
<1>4. QED BY <1>2, <1>3

\* What is registered stays registered.
LEMMA GrownRuns ==
    ASSUME NEW log, NEW e, NEW more, Grows(log, e, more), NEW id
    PROVE  /\ RunsOf(log, id) \subseteq RunsOf(more, id) /\ Registered(log) \subseteq Registered(more)
           /\ e.type = "RUN_REGISTERED" /\ e.model = id => e.run \in RunsOf(more, id)
<1>1. \A i \in DOMAIN log : more[i] = log[i]
    BY GrownKeeps
<1>2. \A type : Events(log, type) \subseteq DOMAIN log
    BY DEF Events
<1>3. RunsOf(log, id) \subseteq RunsOf(more, id)
    <2>1. EventsOf(log, "RUN_REGISTERED", id) \subseteq EventsOf(more, "RUN_REGISTERED", id)
        BY GrownEvents
    <2>2. EventsOf(log, "RUN_REGISTERED", id) \subseteq DOMAIN log
        BY <1>2 DEF EventsOf
    <2>3. QED BY <1>1, <2>1, <2>2 DEF RunsOf
<1>4. Registered(log) \subseteq Registered(more)
    <2>1. Events(log, "MODEL_CREATED") \subseteq Events(more, "MODEL_CREATED")
        BY GrownEvents
    <2>2. QED BY <1>1, <1>2, <2>1 DEF Registered
<1>5. e.type = "RUN_REGISTERED" /\ e.model = id => e.run \in RunsOf(more, id)
    <2>1. HAVE e.type = "RUN_REGISTERED" /\ e.model = id
    <2>2. Len(log) + 1 \in EventsOf(more, "RUN_REGISTERED", id)
        BY <2>1, GrownEvents
    <2>3. more[Len(log) + 1] = e
        BY GrownLast
    <2>4. QED BY <2>2, <2>3 DEF RunsOf
<1>6. QED BY <1>3, <1>4, <1>5

\* Evidence stays, with every event and every file that is added.
LEMMA EvidenceStays ==
    ASSUME NEW log, NEW e, NEW more, Grows(log, e, more), NEW disk, NEW disk2, disk \subseteq disk2,
           NEW id, HasEvidence(log, disk, id)
    PROVE  HasEvidence(more, disk2, id)
<1> DEFINE Shows(i, l, d) ==
        /\ l[i].run \in RunsOf(l, id)
        /\ RunFile(id, l[i].run, "completed-replay.json") \in d
        /\ \A n \in DOMAIN EvaluationFiles :
               File(id, l[i].run, l[i].analysis, EvaluationFiles[n]) \in d
<1>1. PICK i \in EventsOf(log, "EVALUATION_RECORDED", id) : Shows(i, log, disk)
    BY DEF HasEvidence
<1>2. i \in DOMAIN log
    BY DEF EventsOf, Events
<1>3. more[i] = log[i] /\ i \in EventsOf(more, "EVALUATION_RECORDED", id)
    <2>1. more[i] = log[i]
        BY <1>2, GrownKeeps
    <2>2. i \in EventsOf(more, "EVALUATION_RECORDED", id)
        BY GrownEvents
    <2>3. QED BY <2>1, <2>2
<1>4. Shows(i, more, disk2)
    BY <1>1, <1>3, GrownRuns
<1>5. QED BY <1>3, <1>4 DEF HasEvidence

\* The champions after one more event: those before it whose status it left,
\* those of the model it promotes, and the one it records.
LEMMA GrownChampions ==
    ASSUME NEW log, NEW e, NEW more, Grows(log, e, more), NEW i \in ChampionRecords(more)
    PROVE  \/ /\ i \in ChampionRecords(log) /\ more[i] = log[i]
              /\ ChangesStatus(e) /\ e.model = log[i].model => e.to = "PROMOTED"
           \/ e.type = "CHAMPION_RECORDED" /\ more[i] = e
           \/ ChangesStatus(e) /\ e.to = "PROMOTED" /\ more[i].model = e.model
<1>1. i \in Events(more, "CHAMPION_RECORDED") /\ CurrentStatus(more, more[i].model) = "PROMOTED"
    BY DEF ChampionRecords
<1>2. CASE i = Len(log) + 1
    <2>1. more[i] = e
        BY <1>2, GrownLast
    <2>2. QED BY <1>1, <2>1 DEF Events
<1>3. CASE i # Len(log) + 1
    <2>1. i \in Events(log, "CHAMPION_RECORDED") /\ more[i] = log[i]
        <3>1. i \in Events(log, "CHAMPION_RECORDED")
            BY <1>1, <1>3, GrownEvents
        <3>2. i \in DOMAIN log
            BY <3>1 DEF Events
        <3>3. more[i] = log[i]
            BY <3>2, GrownKeeps
        <3>4. QED BY <3>1, <3>3
    <2>2. CASE ChangesStatus(e) /\ e.model = log[i].model
        BY <1>1, <2>1, <2>2, GrownStatus
    <2>3. CASE ~ (ChangesStatus(e) /\ e.model = log[i].model)
        BY <1>1, <2>1, <2>3, GrownStatus DEF ChampionRecords
    <2>4. QED BY <2>2, <2>3
<1>4. QED BY <1>2, <1>3

\* There is one champion when all records of one that is still PROMOTED agree.
LEMMA OneChampionIff ==
    ASSUME NEW log \in Seq(Event)
    PROVE  OneChampion(log) <=> \A i, k \in ChampionRecords(log) : log[i].model = log[k].model
<1> DEFINE S == ChampionRecords(log)
<1>1. CASE S = {}
    BY <1>1 DEF OneChampion
<1>2. CASE S # {}
    <2>1. S \in SUBSET (1..Len(log)) /\ Len(log) \in Nat
        BY DEF ChampionRecords, Events
    <2>2. Latest(S) \in S
        BY <1>2, <2>1, LatestIsLast
    <2>3. Champion(log) = log[Latest(S)].model
        BY <1>2 DEF Champion
    <2>4. QED BY <2>2, <2>3 DEF OneChampion
<1>3. QED BY <1>1, <1>2

-----------------------------------------------------------------------------
(* C. One write: the first of the operation in progress.                   *)

\* The first write is taken off.
Rest(writes, rest) == writes \in Seq(Writing) /\ writes # <<>> /\ rest = Tail(writes)

\* If it is an event, the journal grows by it.
Moves(log, writes, more) ==
    /\ log \in Seq(Event)
    /\ IF 1 \in Logs(writes) THEN Grows(log, writes[1].event, more) ELSE more = log

\* A write to the journal is of an event.
LEMMA WritingIsTyped ==
    ASSUME NEW w \in Writing
    PROVE  /\ w.to \in {"journal", "artifact", "reports"}
           /\ w.to = "journal" => w.event \in Event
           /\ w.to = "artifact" => w.file \in Artifact
BY DEF Writing

\* The writes are numbered from 1.
LEMMA WritesAreNumbered ==
    ASSUME NEW writes \in Seq(Writing)
    PROVE  /\ Len(writes) \in Nat /\ DOMAIN writes = 1..Len(writes)
           /\ \A k \in DOMAIN writes : writes[k] \in Writing
           /\ \A k \in Logs(writes) : k \in 1..Len(writes) /\ writes[k].event \in Event
<1>1. /\ Len(writes) \in Nat /\ DOMAIN writes = 1..Len(writes)
      /\ \A k \in DOMAIN writes : writes[k] \in Writing
    OBVIOUS
<1>2. QED BY <1>1, WritingIsTyped DEF Logs

\* The rest is shorter by one.
LEMMA RestIsShorter ==
    ASSUME NEW writes, NEW rest, Rest(writes, rest)
    PROVE  /\ rest \in Seq(Writing) /\ Len(rest) = Len(writes) - 1
           /\ 1 \in DOMAIN writes /\ writes[1] \in Writing /\ Head(writes) = writes[1]
BY HeadTailProperties DEF Rest

\* What is in the rest was one place further.
LEMMA RestOfWrites ==
    ASSUME NEW writes, NEW rest, Rest(writes, rest), NEW k \in DOMAIN rest
    PROVE  k \in Nat /\ 1 <= k /\ k + 1 \in DOMAIN writes /\ rest[k] = writes[k + 1]
BY HeadTailProperties DEF Rest

\* What was not the first is in the rest, one place before.
LEMMA WritesButFirst ==
    ASSUME NEW writes, NEW rest, Rest(writes, rest), NEW j \in DOMAIN writes, j # 1
    PROVE  j \in Nat /\ 1 < j /\ j - 1 \in DOMAIN rest /\ rest[j - 1] = writes[j]
<1>1. j \in 1..Len(writes) /\ Len(writes) \in Nat
    BY DEF Rest
<1>2. j - 1 \in 1..Len(rest) /\ j - 1 \in DOMAIN rest
    BY <1>1, RestIsShorter
<1>3. rest[j - 1] = writes[(j - 1) + 1]
    BY <1>2, RestOfWrites
<1>4. QED BY <1>1, <1>2, <1>3

\* The events of the rest are those of the writes but the first.
LEMMA RestLogs ==
    ASSUME NEW writes, NEW rest, Rest(writes, rest)
    PROVE  /\ \A k \in Logs(rest) : /\ k \in Nat /\ 1 <= k /\ k + 1 \in Logs(writes)
                                    /\ rest[k] = writes[k + 1]
           /\ \A j \in Logs(writes) : j # 1 => /\ j \in Nat /\ 1 < j /\ j - 1 \in Logs(rest)
                                               /\ rest[j - 1] = writes[j]
BY RestOfWrites, WritesButFirst DEF Logs

\* What comes before the k-th write of the rest is written now, or comes before it.
LEMMA PrecedesStays ==
    ASSUME NEW log, NEW writes, NEW more, NEW rest, Rest(writes, rest), Moves(log, writes, more),
           NEW k \in Logs(rest), NEW type, NEW id, Precedes(log, writes, k + 1, type, id)
    PROVE  Precedes(more, rest, k, type, id)
<1>1. CASE EventsOf(log, type, id) # {}
    BY <1>1, GrownEvents DEF Moves, Precedes
<1>2. CASE EventsOf(log, type, id) = {}
    <2>1. PICK j \in Logs(writes) : /\ j < k + 1 /\ writes[j].event.type = type
                                    /\ writes[j].event.model = id
        BY <1>2 DEF Precedes
    <2>2. CASE j = 1
        <3>1. Grows(log, writes[1].event, more)
            BY <2>1, <2>2 DEF Moves
        <3>2. EventsOf(more, type, id) # {}
            <4>1. writes[1].event.type = type /\ writes[1].event.model = id
                BY <2>1, <2>2
            <4>2. EventsOf(more, type, id) = EventsOf(log, type, id) \cup {Len(log) + 1}
                BY <3>1, <4>1, GrownEvents
            <4>3. QED BY <4>2
        <3>3. QED BY <3>2 DEF Precedes
    <2>3. CASE j # 1
        <3>1. j \in Nat /\ j - 1 \in Logs(rest) /\ rest[j - 1] = writes[j] /\ k \in Nat
            BY <2>3, RestLogs
        <3>2. j - 1 < k
            BY <2>1, <3>1
        <3>3. QED BY <2>1, <3>1, <3>2 DEF Precedes
    <2>4. QED BY <2>2, <2>3
<1>3. QED BY <1>1, <1>2

\* The first write changes the status of its model only.
LEMMA StatusMoves ==
    ASSUME NEW log, NEW writes, NEW more, Moves(log, writes, more), NEW id
    PROVE  CurrentStatus(more, id) =
               IF 1 \in Logs(writes) /\ ChangesStatus(writes[1].event) /\ writes[1].event.model = id
               THEN writes[1].event.to ELSE CurrentStatus(log, id)
BY GrownStatus DEF Moves

\* What is planned for the statuses stays right.
LEMMA StatusStaysPlanned ==
    ASSUME NEW log, NEW writes, NEW more, NEW rest, Rest(writes, rest), Moves(log, writes, more),
           StatusPlanned(log, writes)
    PROVE  StatusPlanned(more, rest)
<1> SUFFICES ASSUME NEW k \in Logs(rest)
             PROVE  LET e == rest[k].event IN
                    /\ ChangesStatus(e) =>
                           \A j \in Logs(rest) :
                               ChangesStatus(rest[j].event) /\ rest[j].event.model = e.model => j = k
                    /\ e.type = "PROMOTION_RECORDED" => CurrentStatus(more, e.model) = "EVALUATED"
                    /\ e.type = "STATUS_CHANGED" =>
                           /\ e.from = CurrentStatus(more, e.model) /\ e.to # "PROMOTED"
                           /\ Permitted(more, rest, k, e)
    BY DEF StatusPlanned
<1> DEFINE e == rest[k].event
<1>1. k \in Nat /\ k + 1 \in Logs(writes) /\ e = writes[k + 1].event /\ k >= 1
    BY RestLogs
<1> HIDE DEF e
<1>2. ChangesStatus(e) =>
          \A j \in Logs(writes) :
              ChangesStatus(writes[j].event) /\ writes[j].event.model = e.model => j = k + 1
    BY <1>1 DEF StatusPlanned
<1>3. ChangesStatus(e) => CurrentStatus(more, e.model) = CurrentStatus(log, e.model)
    <2>1. HAVE ChangesStatus(e)
    <2>2. ~ (1 \in Logs(writes) /\ ChangesStatus(writes[1].event) /\ writes[1].event.model = e.model)
        BY <1>1, <1>2, <2>1
    <2>3. QED BY <2>2, StatusMoves
<1>4. ASSUME ChangesStatus(e), NEW j \in Logs(rest), ChangesStatus(rest[j].event),
             rest[j].event.model = e.model
      PROVE  j = k
    <2>1. j \in Nat /\ j + 1 \in Logs(writes) /\ rest[j] = writes[j + 1]
        BY RestLogs
    <2>2. j + 1 = k + 1
        BY <1>2, <1>4, <2>1
    <2>3. QED BY <1>1, <2>1, <2>2
<1>5. e.type = "PROMOTION_RECORDED" => CurrentStatus(more, e.model) = "EVALUATED"
    BY <1>1, <1>3 DEF StatusPlanned, ChangesStatus
<1>6. ASSUME e.type = "STATUS_CHANGED"
      PROVE  /\ e.from = CurrentStatus(more, e.model) /\ e.to # "PROMOTED"
             /\ Permitted(more, rest, k, e)
    <2>1. /\ e.from = CurrentStatus(log, e.model) /\ e.to # "PROMOTED"
          /\ Permitted(log, writes, k + 1, e)
        BY <1>1, <1>6 DEF StatusPlanned
    <2>2. Permitted(more, rest, k, e)
        BY <2>1, PrecedesStays DEF Permitted
    <2>3. QED BY <1>3, <1>6, <2>1, <2>2 DEF ChangesStatus
<1>7. QED BY <1>4, <1>5, <1>6 DEF e

\* What is planned to be registered stays new.
LEMMA NewStaysPlanned ==
    ASSUME NEW log, NEW writes, NEW more, NEW rest, Rest(writes, rest), Moves(log, writes, more),
           NewPlanned(log, writes)
    PROVE  NewPlanned(more, rest)
<1> DEFINE Kinds == {"MODEL_CREATED", "SCENARIO_REGISTERED", "RUN_REGISTERED"}
<1> SUFFICES ASSUME NEW k \in Logs(rest), rest[k].event.type \in Kinds
             PROVE  /\ \A j \in Logs(rest) : rest[j].event.type = rest[k].event.type => j = k
                    /\ \A i \in Events(more, rest[k].event.type) : Differs(more[i], rest[k].event)
    BY DEF NewPlanned
<1> DEFINE f == rest[k].event
<1>1. k \in Nat /\ k + 1 \in Logs(writes) /\ f = writes[k + 1].event /\ k >= 1
    BY RestLogs
<1> HIDE DEF f
<1>2. f.type \in Kinds
    BY DEF f
<1>3. /\ \A j \in Logs(writes) : writes[j].event.type = f.type => j = k + 1
      /\ \A i \in Events(log, f.type) : Differs(log[i], f)
    BY <1>1, <1>2 DEF NewPlanned
<1>4. ASSUME NEW j \in Logs(rest), rest[j].event.type = f.type
      PROVE  j = k
    <2>1. j \in Nat /\ j + 1 \in Logs(writes) /\ rest[j] = writes[j + 1]
        BY RestLogs
    <2>2. QED BY <1>1, <1>3, <1>4, <2>1
<1>5. ASSUME NEW i \in Events(more, f.type)
      PROVE  Differs(more[i], f)
    <2>1. CASE 1 \in Logs(writes)
        <3>1. Grows(log, writes[1].event, more) /\ writes[1].event.type # f.type
            BY <1>1, <1>3, <2>1 DEF Moves
        <3>2. i \in Events(log, f.type)
            BY <3>1, GrownEvents
        <3>3. i \in DOMAIN log
            BY <3>2 DEF Events
        <3>4. more[i] = log[i]
            BY <3>1, <3>3, GrownKeeps
        <3>5. QED BY <1>3, <3>2, <3>4
    <2>2. CASE 1 \notin Logs(writes)
        BY <1>3, <2>2 DEF Moves
    <2>3. QED BY <2>1, <2>2
<1>6. QED BY <1>4, <1>5 DEF f

\* Evidence that is there for a planned change stays there.
LEMMA EvidenceStaysPlanned ==
    ASSUME NEW log, NEW writes, NEW more, NEW rest, Rest(writes, rest), Moves(log, writes, more),
           NEW disk, NEW disk2, disk \subseteq disk2, EvidencePlanned(log, disk, writes)
    PROVE  EvidencePlanned(more, disk2, rest)
<1> SUFFICES ASSUME NEW k \in Logs(rest), rest[k].event.type = "STATUS_CHANGED",
                    rest[k].event.to = "EVALUATED"
             PROVE  HasEvidence(more, disk2, rest[k].event.model)
    BY DEF EvidencePlanned
<1>1. k + 1 \in Logs(writes) /\ rest[k] = writes[k + 1]
    BY RestLogs
<1>2. HasEvidence(log, disk, rest[k].event.model)
    BY <1>1 DEF EvidencePlanned
<1>3. CASE 1 \in Logs(writes)
    BY <1>2, <1>3, EvidenceStays DEF Moves
<1>4. CASE 1 \notin Logs(writes)
    BY <1>2, <1>4 DEF Moves, HasEvidence
<1>5. QED BY <1>3, <1>4

\* A planned report is still the last write.
LEMMA ReportsStayPlanned ==
    ASSUME NEW writes, NEW rest, Rest(writes, rest), ReportsPlanned(writes)
    PROVE  ReportsPlanned(rest)
<1> SUFFICES ASSUME Logs(rest) # {}
             PROVE  rest[Len(rest)].to = "reports"
    BY DEF ReportsPlanned
<1>1. PICK k \in Logs(rest) : TRUE
    OBVIOUS
<1>2. k + 1 \in Logs(writes) /\ k \in DOMAIN rest /\ rest \in Seq(Writing)
    BY RestLogs, RestIsShorter DEF Logs
<1>3. writes[Len(writes)].to = "reports"
    BY <1>2 DEF ReportsPlanned
<1>4. Len(rest) \in DOMAIN rest /\ Len(rest) + 1 = Len(writes)
    <2>1. Len(rest) \in Nat /\ DOMAIN rest = 1..Len(rest)
        BY <1>2
    <2>2. Len(writes) \in Nat
        BY DEF Rest
    <2>3. QED BY <1>2, <2>1, <2>2, RestIsShorter
<1>5. QED BY <1>3, <1>4, RestOfWrites

\* What is planned for the champion stays right.
LEMMA ChampionStaysPlanned ==
    ASSUME NEW log, NEW writes, NEW more, NEW rest, Rest(writes, rest), Moves(log, writes, more),
           StatusPlanned(log, writes), ChampionPlanned(log, writes)
    PROVE  ChampionPlanned(more, rest)
<1> DEFINE f == writes[1].event
           First == 1 \in Logs(writes)
<1>1. ASSUME NEW i \in ChampionRecords(more)
      PROVE  \/ /\ i \in ChampionRecords(log) /\ more[i] = log[i]
                /\ First /\ f.type = "STATUS_CHANGED" => f.model # log[i].model
             \/ First /\ f.type = "CHAMPION_RECORDED" /\ more[i] = f
             \/ First /\ f.type = "PROMOTION_RECORDED" /\ more[i].model = f.model
    <2>1. CASE ~First
        BY <2>1 DEF Moves
    <2>2. CASE First
        <3>1. Grows(log, f, more)
            BY <2>2 DEF Moves
        <3>2. f.type = "STATUS_CHANGED" => f.to # "PROMOTED"
            BY <2>2 DEF StatusPlanned
        <3> HIDE DEF f
        <3>3. QED BY <2>2, <3>1, <3>2, GrownChampions DEF ChangesStatus
    <2>3. QED BY <2>1, <2>2
<1>2. ASSUME NEW k \in Logs(rest), rest[k].event.type = "PROMOTION_RECORDED"
      PROVE  /\ \A j \in Logs(rest) : j < k => ~ Crowns(rest[j].event)
             /\ \A i \in ChampionRecords(more) :
                 \E j \in Logs(rest) : /\ j < k /\ rest[j].event.type = "STATUS_CHANGED"
                                       /\ rest[j].event.model = more[i].model
    <2>1. k \in Nat /\ 1 <= k /\ k + 1 \in Logs(writes) /\ rest[k] = writes[k + 1]
        BY RestLogs
    <2>2. /\ \A j \in Logs(writes) : j < k + 1 => ~ Crowns(writes[j].event)
          /\ \A i \in ChampionRecords(log) :
              \E j \in Logs(writes) : /\ j < k + 1 /\ writes[j].event.type = "STATUS_CHANGED"
                                      /\ writes[j].event.model = log[i].model
        BY <1>2, <2>1 DEF ChampionPlanned
    <2>3. ASSUME NEW j \in Logs(rest), j < k
          PROVE  ~ Crowns(rest[j].event)
        <3>1. j \in Nat /\ j + 1 \in Logs(writes) /\ rest[j] = writes[j + 1]
            BY RestLogs
        <3>2. j + 1 < k + 1
            BY <2>1, <2>3, <3>1
        <3>3. QED BY <2>2, <3>1, <3>2
    <2>4. ASSUME NEW i \in ChampionRecords(more)
          PROVE  \E j \in Logs(rest) : /\ j < k /\ rest[j].event.type = "STATUS_CHANGED"
                                       /\ rest[j].event.model = more[i].model
        <3>1. First => ~ Crowns(f)
            <4>1. 1 < k + 1
                BY <2>1
            <4>2. QED BY <2>2, <4>1
        <3>2. /\ i \in ChampionRecords(log) /\ more[i] = log[i]
              /\ First /\ f.type = "STATUS_CHANGED" => f.model # log[i].model
            BY <1>1, <3>1 DEF Crowns
        <3>3. PICK j \in Logs(writes) : /\ j < k + 1 /\ writes[j].event.type = "STATUS_CHANGED"
                                        /\ writes[j].event.model = log[i].model
            BY <2>2, <3>2
        <3>4. j # 1
            BY <3>2, <3>3
        <3>5. j \in Nat /\ j - 1 \in Logs(rest) /\ rest[j - 1] = writes[j]
            BY <3>4, RestLogs
        <3>6. j - 1 < k
            BY <2>1, <3>3, <3>5
        <3>7. QED BY <3>2, <3>3, <3>5, <3>6
    <2>5. QED BY <2>3, <2>4
<1>3. ASSUME NEW k \in Logs(rest), rest[k].event.type = "CHAMPION_RECORDED"
      PROVE  /\ \A j \in Logs(rest) :
                    j < k /\ Crowns(rest[j].event) =>
                        /\ rest[j].event.type = "PROMOTION_RECORDED"
                        /\ rest[j].event.model = rest[k].event.model
             /\ \/ \E j \in Logs(rest) : /\ j < k /\ rest[j].event.type = "PROMOTION_RECORDED"
                                         /\ rest[j].event.model = rest[k].event.model
                \/ \A i \in ChampionRecords(more) : more[i].model = rest[k].event.model
    <2> DEFINE id == rest[k].event.model
    <2>1. k \in Nat /\ 1 <= k /\ k + 1 \in Logs(writes) /\ rest[k] = writes[k + 1]
        BY RestLogs
    <2>2. /\ \A j \in Logs(writes) :
                 j < k + 1 /\ Crowns(writes[j].event) =>
                     writes[j].event.type = "PROMOTION_RECORDED" /\ writes[j].event.model = id
          /\ \/ \E j \in Logs(writes) : /\ j < k + 1 /\ writes[j].event.type = "PROMOTION_RECORDED"
                                        /\ writes[j].event.model = id
             \/ \A i \in ChampionRecords(log) : log[i].model = id
        BY <1>3, <2>1 DEF ChampionPlanned
    <2> HIDE DEF id
    <2>3. ASSUME NEW j \in Logs(rest), j < k, Crowns(rest[j].event)
          PROVE  rest[j].event.type = "PROMOTION_RECORDED" /\ rest[j].event.model = id
        <3>1. j \in Nat /\ j + 1 \in Logs(writes) /\ rest[j] = writes[j + 1]
            BY RestLogs
        <3>2. j + 1 < k + 1
            BY <2>1, <2>3, <3>1
        <3>3. QED BY <2>2, <2>3, <3>1, <3>2
    <2>4. First /\ Crowns(f) => f.type = "PROMOTION_RECORDED" /\ f.model = id
        <3>1. 1 < k + 1
            BY <2>1
        <3>2. QED BY <2>2, <3>1
    <2>5. CASE \A i \in ChampionRecords(log) : log[i].model = id
        <3>1. \A i \in ChampionRecords(more) : more[i].model = id
            BY <1>1, <2>4, <2>5 DEF Crowns
        <3>2. QED BY <2>3, <3>1 DEF id
    <2>6. CASE \E j \in Logs(writes) : /\ j < k + 1 /\ writes[j].event.type = "PROMOTION_RECORDED"
                                       /\ writes[j].event.model = id
        <3>1. PICK j \in Logs(writes) : /\ j < k + 1 /\ writes[j].event.type = "PROMOTION_RECORDED"
                                        /\ writes[j].event.model = id
            BY <2>6
        <3>2. CASE j = 1
            <4>1. ChampionRecords(log) = {}
                <5>1. First /\ f.type = "PROMOTION_RECORDED"
                    BY <3>1, <3>2
                <5>2. \A i \in ChampionRecords(log) : \E h \in Logs(writes) : h < 1
                    BY <5>1 DEF ChampionPlanned
                <5>3. \A h \in Logs(writes) : ~ (h < 1)
                    BY WritesAreNumbered DEF Rest
                <5>4. QED BY <5>2, <5>3
            <4>2. \A i \in ChampionRecords(more) : more[i].model = id
                BY <1>1, <2>4, <4>1 DEF Crowns
            <4>3. QED BY <2>3, <4>2 DEF id
        <3>3. CASE j # 1
            <4>1. j \in Nat /\ j - 1 \in Logs(rest) /\ rest[j - 1] = writes[j]
                BY <3>3, RestLogs
            <4>2. j - 1 < k
                BY <2>1, <3>1, <4>1
            <4>3. \E h \in Logs(rest) : /\ h < k /\ rest[h].event.type = "PROMOTION_RECORDED"
                                        /\ rest[h].event.model = id
                BY <3>1, <4>1, <4>2
            <4>4. QED BY <2>3, <4>3 DEF id
        <3>4. QED BY <3>2, <3>3
    <2>7. QED BY <2>2, <2>5, <2>6
<1>4. QED BY <1>2, <1>3 DEF ChampionPlanned

\* There is one champion after the write.
LEMMA ChampionKept ==
    ASSUME NEW log, NEW writes, NEW more, NEW rest, Rest(writes, rest), Moves(log, writes, more),
           StatusPlanned(log, writes), ChampionPlanned(log, writes), OneChampion(log)
    PROVE  OneChampion(more)
<1> DEFINE f == writes[1].event
<1>1. CASE 1 \notin Logs(writes)
    BY <1>1 DEF Moves
<1>2. CASE 1 \in Logs(writes)
    <2>1. Grows(log, f, more) /\ log \in Seq(Event) /\ more \in Seq(Event)
        BY <1>2, GrownJournal DEF Moves
    <2>2. f.type = "STATUS_CHANGED" => f.to # "PROMOTED"
        BY <1>2 DEF StatusPlanned
    <2>3. \A j \in Logs(writes) : ~ (j < 1)
        BY WritesAreNumbered DEF Rest
    <2>4. f.type = "PROMOTION_RECORDED" => ChampionRecords(log) = {}
        BY <1>2, <2>3 DEF ChampionPlanned
    <2>5. f.type = "CHAMPION_RECORDED" => \A i \in ChampionRecords(log) : log[i].model = f.model
        BY <1>2, <2>3 DEF ChampionPlanned
    <2> HIDE DEF f
    <2>6. \A i, k \in ChampionRecords(log) : log[i].model = log[k].model
        BY <2>1, OneChampionIff
    <2>7. ASSUME NEW i \in ChampionRecords(more)
          PROVE  \/ i \in ChampionRecords(log) /\ more[i] = log[i]
                 \/ f.type = "CHAMPION_RECORDED" /\ more[i] = f
                 \/ f.type = "PROMOTION_RECORDED" /\ more[i].model = f.model
        BY <2>1, <2>2, GrownChampions DEF ChangesStatus
    <2>8. \A i, k \in ChampionRecords(more) : more[i].model = more[k].model
        BY <2>4, <2>5, <2>6, <2>7
    <2>9. QED BY <2>1, <2>8, OneChampionIff
<1>3. QED BY <1>1, <1>2

\* What comes before a place in the journal is not moved by what comes after.
LEMMA GrownBefore ==
    ASSUME NEW log, NEW e, NEW more, Grows(log, e, more)
    PROVE  /\ \A i \in DOMAIN log : Before(more, i) = Before(log, i)
           /\ Before(more, Len(log) + 1) = log
<1>1. /\ log \in Seq(Event) /\ more \in Seq(Event) /\ Len(log) \in Nat
      /\ DOMAIN log = 1..Len(log) /\ Len(more) = Len(log) + 1
    BY GrownJournal
<1>2. \A k \in 1..Len(log) : more[k] = log[k]
    BY <1>1, GrownKeeps
<1>3. ASSUME NEW i \in 1..(Len(log) + 1)
      PROVE  /\ SubSeq(more, 1, i - 1) \in Seq(Event) /\ SubSeq(log, 1, i - 1) \in Seq(Event)
             /\ Len(SubSeq(more, 1, i - 1)) = i - 1 /\ Len(SubSeq(log, 1, i - 1)) = i - 1
             /\ \A k \in 1..(i - 1) : /\ SubSeq(more, 1, i - 1)[k] = log[k]
                                      /\ SubSeq(log, 1, i - 1)[k] = log[k]
    BY <1>1, <1>2
<1>4. ASSUME NEW i \in 1..Len(log)
      PROVE  SubSeq(more, 1, i - 1) = SubSeq(log, 1, i - 1)
    <2>1. i \in 1..(Len(log) + 1)
        BY <1>1
    <2>2. QED BY <1>3, <2>1, SeqEqual
<1>5. SubSeq(more, 1, (Len(log) + 1) - 1) = log
    <2>1. Len(log) + 1 \in 1..(Len(log) + 1) /\ (Len(log) + 1) - 1 = Len(log)
        BY <1>1
    <2>2. QED BY <1>1, <1>3, <2>1, SeqEqual
<1>6. QED BY <1>1, <1>4, <1>5 DEF Before

\* What the table asks of the change e, with the journal before it.
FollowsTable(log, e) ==
    LET current == CurrentStatus(log, e.model)
    IN  /\ e.type = "PROMOTION_RECORDED" => current = "EVALUATED"
        /\ e.type = "STATUS_CHANGED" =>
             /\ e.from = current
             /\ \/ e.to \in AllowedTransitions[e.from]
                \/ /\ e.model = RetryId /\ e.from = "INVALIDATED_TECHNICAL"
                   /\ e.to = "RUNNING" =>
                        EventsOf(log, "TECHNICAL_RETRY_AUTHORIZED", e.model) # {}
                   /\ e.to = "EVALUATED" =>
                        EventsOf(log, "POSTPROCESSING_RECOVERY_COMPLETED", e.model) # {}
                   /\ e.to \in {"RUNNING", "EVALUATED"}

\* The statuses follow the table event by event.
LEMMA TableIsByEvent ==
    ASSUME NEW log
    PROVE  StatusesFollowTheTable(log)
               <=> \A i \in DOMAIN log : FollowsTable(Before(log, i), log[i])
BY DEF StatusesFollowTheTable, FollowsTable

\* The write follows the table.
LEMMA TableKept ==
    ASSUME NEW log, NEW writes, NEW more, NEW rest, Rest(writes, rest), Moves(log, writes, more),
           StatusPlanned(log, writes), StatusesFollowTheTable(log)
    PROVE  StatusesFollowTheTable(more)
<1> DEFINE e == writes[1].event
<1>1. CASE 1 \notin Logs(writes)
    BY <1>1 DEF Moves
<1>2. CASE 1 \in Logs(writes)
    <2>1. Grows(log, e, more)
        BY <1>2 DEF Moves
    <2>2. /\ e.type = "PROMOTION_RECORDED" => CurrentStatus(log, e.model) = "EVALUATED"
          /\ e.type = "STATUS_CHANGED" =>
                 e.from = CurrentStatus(log, e.model) /\ Permitted(log, writes, 1, e)
        BY <1>2 DEF StatusPlanned
    <2>3. \A type, id : Precedes(log, writes, 1, type, id) => EventsOf(log, type, id) # {}
        <3>1. \A j \in Logs(writes) : ~ (j < 1)
            BY WritesAreNumbered DEF Rest
        <3>2. QED BY <3>1 DEF Precedes
    <2> HIDE DEF e
    <2>4. FollowsTable(log, e)
        BY <2>2, <2>3 DEF FollowsTable, Permitted
    <2>5. ASSUME NEW i \in DOMAIN more
          PROVE  FollowsTable(Before(more, i), more[i])
        <3>1. CASE i \in DOMAIN log
            <4>1. Before(more, i) = Before(log, i) /\ more[i] = log[i]
                BY <2>1, <3>1, GrownBefore, GrownKeeps
            <4>2. QED BY <3>1, <4>1, TableIsByEvent
        <3>2. CASE i = Len(log) + 1
            <4>1. Before(more, i) = log /\ more[i] = e
                BY <2>1, <3>2, GrownBefore, GrownLast
            <4>2. QED BY <2>4, <4>1
        <3>3. QED BY <2>1, <3>1, <3>2, GrownPlaces
    <2>6. QED BY <2>5, TableIsByEvent
<1>3. QED BY <1>1, <1>2

\* What e and the later f registered are two things.
Apart(e, f) ==
    e.type = f.type =>
        /\ e.type = "MODEL_CREATED" => e.config # f.config /\ e.model < f.model
        /\ e.type \in {"SCENARIO_REGISTERED", "RUN_REGISTERED"} => e # f

\* Nothing is registered twice.
LEMMA OnceKept ==
    ASSUME NEW log, NEW writes, NEW more, NEW rest, Rest(writes, rest), Moves(log, writes, more),
           NewPlanned(log, writes), RegisteredOnce(log)
    PROVE  RegisteredOnce(more)
<1> DEFINE e == writes[1].event
<1>1. CASE 1 \notin Logs(writes)
    BY <1>1 DEF Moves
<1>2. CASE 1 \in Logs(writes)
    <2>1. Grows(log, e, more)
        BY <1>2 DEF Moves
    <2>2. e.type \in {"MODEL_CREATED", "SCENARIO_REGISTERED", "RUN_REGISTERED"} =>
              \A i \in Events(log, e.type) : Differs(log[i], e)
        BY <1>2 DEF NewPlanned
    <2> HIDE DEF e
    <2>3. \A i \in DOMAIN log : Apart(log[i], e)
        BY <2>2 DEF Events, Differs, Apart
    <2>4. \A i, k \in DOMAIN log : i < k => Apart(log[i], log[k])
        BY DEF RegisteredOnce, Apart
    <2>5. ASSUME NEW i \in DOMAIN more, NEW k \in DOMAIN more, i < k
          PROVE  Apart(more[i], more[k])
        <3>1. Len(log) \in Nat /\ DOMAIN log = 1..Len(log)
            BY <2>1, GrownJournal
        <3>2. i \in DOMAIN log /\ more[i] = log[i]
            <4>1. i # Len(log) + 1
                <5>1. k \in DOMAIN log \/ k = Len(log) + 1
                    BY <2>1, GrownPlaces
                <5>2. QED BY <2>5, <3>1, <5>1
            <4>2. i \in DOMAIN log
                BY <2>1, <4>1, GrownPlaces
            <4>3. QED BY <2>1, <4>2, GrownKeeps
        <3>3. CASE k \in DOMAIN log
            <4>1. more[k] = log[k]
                BY <2>1, <3>3, GrownKeeps
            <4>2. QED BY <2>4, <2>5, <3>2, <3>3, <4>1
        <3>4. CASE k = Len(log) + 1
            <4>1. more[k] = e
                BY <2>1, <3>4, GrownLast
            <4>2. QED BY <2>3, <3>2, <4>1
        <3>5. QED BY <2>1, <3>3, <3>4, GrownPlaces
    <2>6. QED BY <2>5 DEF RegisteredOnce, Apart
<1>3. QED BY <1>1, <1>2

\* Who is EVALUATED after the write has evidence.
LEMMA EvidenceKept ==
    ASSUME NEW log, NEW writes, NEW more, NEW rest, Rest(writes, rest), Moves(log, writes, more),
           NEW disk, NEW disk2, disk \subseteq disk2,
           StatusPlanned(log, writes), EvidencePlanned(log, disk, writes), EvidenceIn(log, disk)
    PROVE  EvidenceIn(more, disk2)
<1> DEFINE e == writes[1].event
<1>1. ASSUME NEW id, CurrentStatus(log, id) \in {"EVALUATED", "PROMOTED"}
      PROVE  HasEvidence(log, disk, id)
    <2>1. PICK i \in DOMAIN log : log[i].model = id
        BY <1>1, StatusTyped DEF Moves
    <2>2. QED BY <1>1, <2>1 DEF EvidenceIn
<1>2. CASE 1 \notin Logs(writes)
    BY <1>1, <1>2 DEF Moves, EvidenceIn, HasEvidence
<1>3. CASE 1 \in Logs(writes)
    <2>1. Grows(log, e, more)
        BY <1>3 DEF Moves
    <2>2. /\ e.type = "PROMOTION_RECORDED" => CurrentStatus(log, e.model) = "EVALUATED"
          /\ e.type = "STATUS_CHANGED" => e.to # "PROMOTED"
          /\ e.type = "STATUS_CHANGED" /\ e.to = "EVALUATED" => HasEvidence(log, disk, e.model)
        BY <1>3 DEF StatusPlanned, EvidencePlanned
    <2> HIDE DEF e
    <2>3. ASSUME NEW id, CurrentStatus(more, id) \in {"EVALUATED", "PROMOTED"}
          PROVE  HasEvidence(more, disk2, id)
        <3>1. HasEvidence(log, disk, id)
            <4>1. CASE ChangesStatus(e) /\ e.model = id
                <5>1. CurrentStatus(more, id) = e.to
                    BY <2>1, <4>1, GrownStatus
                <5>2. CASE e.type = "PROMOTION_RECORDED"
                    BY <1>1, <2>2, <4>1, <5>2
                <5>3. CASE e.type = "STATUS_CHANGED"
                    BY <2>2, <2>3, <4>1, <5>1, <5>3
                <5>4. QED BY <4>1, <5>2, <5>3 DEF ChangesStatus
            <4>2. CASE ~ (ChangesStatus(e) /\ e.model = id)
                BY <1>1, <2>1, <2>3, <4>2, GrownStatus
            <4>3. QED BY <4>1, <4>2
        <3>2. QED BY <2>1, <3>1, EvidenceStays
    <2>4. QED BY <2>3 DEF EvidenceIn
<1>4. QED BY <1>2, <1>3

\* A write leaves the journal sound and the rest of the plan right.
LEMMA WriteIsSound ==
    ASSUME NEW log, NEW writes, NEW more, NEW rest, Rest(writes, rest), Moves(log, writes, more),
           NEW disk, NEW disk2, disk \subseteq disk2, disk2 \subseteq Artifact,
           Sound(log, disk), Planned(log, disk, writes)
    PROVE  Sound(more, disk2) /\ Planned(more, disk2, rest)
<1>1. /\ StatusPlanned(log, writes) /\ NewPlanned(log, writes) /\ EvidencePlanned(log, disk, writes)
      /\ ChampionPlanned(log, writes) /\ ReportsPlanned(writes)
      /\ StatusesFollowTheTable(log) /\ RegisteredOnce(log)
      /\ EvidenceIn(log, disk) /\ OneChampion(log)
    BY DEF Sound, Planned
<1>2. more \in Seq(Event)
    BY GrownJournal DEF Moves
<1>3. Sound(more, disk2)
    BY <1>1, <1>2, TableKept, OnceKept, EvidenceKept, ChampionKept DEF Sound
<1>4. Planned(more, disk2, rest)
    BY <1>1, RestIsShorter, StatusStaysPlanned, NewStaysPlanned, EvidenceStaysPlanned,
       ChampionStaysPlanned, ReportsStayPlanned DEF Planned
<1>5. QED BY <1>3, <1>4

\* The events that are left are one fewer when the first write was one.
LEMMA LogsCount ==
    ASSUME NEW writes, NEW rest, Rest(writes, rest)
    PROVE  /\ IsFiniteSet(Logs(writes)) /\ IsFiniteSet(Logs(rest))
           /\ Cardinality(Logs(rest)) \in Nat
           /\ Cardinality(Logs(writes)) = Cardinality(Logs(rest)) + (IF 1 \in Logs(writes) THEN 1 ELSE 0)
<1> DEFINE A == Logs(rest)
           W == Logs(writes)
           B == W \ {1}
           f == [k \in A |-> k + 1]
<1>1. IsFiniteSet(W) /\ IsFiniteSet(A)
    <2>1. Len(writes) \in Nat /\ Len(rest) \in Nat
        BY RestIsShorter DEF Rest
    <2>2. W \in SUBSET (1..Len(writes)) /\ A \in SUBSET (1..Len(rest))
        BY RestIsShorter, WritesAreNumbered DEF Rest
    <2>3. IsFiniteSet(1..Len(writes)) /\ IsFiniteSet(1..Len(rest))
        BY <2>1, FS_Interval
    <2>4. QED BY <2>2, <2>3, FS_Subset
<1>2. /\ \A k \in A : k \in Nat /\ 1 <= k /\ k + 1 \in W
      /\ \A j \in W : j # 1 => j \in Nat /\ 1 < j /\ j - 1 \in A
    BY RestLogs
<1>3. ExistsBijection(A, B)
    <2> HIDE DEF A, W
    <2>1. f \in [A -> B]
        BY <1>2
    <2>2. \A x, y \in A : f[x] = f[y] => x = y
        BY <1>2
    <2>3. \A j \in B : \E k \in A : f[k] = j
        <3>1. SUFFICES ASSUME NEW j \in B PROVE \E k \in A : f[k] = j
            OBVIOUS
        <3>2. j - 1 \in A /\ f[j - 1] = j
            BY <1>2
        <3>3. QED BY <3>2
    <2>4. f \in Bijection(A, B)
        BY <2>1, <2>2, <2>3 DEF Bijection, Injection, Surjection, IsInjective
    <2>5. QED BY <2>4 DEF ExistsBijection
<1>4. IsFiniteSet(B) /\ Cardinality(B) = Cardinality(A)
    BY <1>1, <1>3, FS_Bijection
<1>5. Cardinality(A) \in Nat /\ Cardinality(W) \in Nat
    BY <1>1, FS_CardinalityType
<1>6. Cardinality(B) = IF 1 \in W THEN Cardinality(W) - 1 ELSE Cardinality(W)
    BY <1>1, FS_RemoveElement
<1>7. QED BY <1>1, <1>4, <1>5, <1>6

\* Nothing that is recorded, or will be, is lost.
LEMMA RecordedStays ==
    ASSUME NEW log, NEW writes, NEW more, NEW rest, Rest(writes, rest), Moves(log, writes, more)
    PROVE  Recorded(log, writes) \subseteq Recorded(more, rest)
<1>1. ASSUME NEW i \in DOMAIN log
      PROVE  i \in DOMAIN more /\ more[i] = log[i]
    <2>1. CASE 1 \in Logs(writes)
        BY <2>1, GrownKeeps, GrownPlaces DEF Moves
    <2>2. CASE 1 \notin Logs(writes)
        BY <2>2 DEF Moves
    <2>3. QED BY <2>1, <2>2
<1>2. ASSUME NEW k \in Logs(writes)
      PROVE  writes[k].event \in Recorded(more, rest)
    <2>1. CASE k = 1
        <3>1. Grows(log, writes[1].event, more)
            BY <2>1 DEF Moves
        <3>2. Len(log) + 1 \in DOMAIN more /\ more[Len(log) + 1] = writes[1].event
            BY <3>1, GrownLast, GrownPlaces
        <3>3. QED BY <2>1, <3>2 DEF Recorded
    <2>2. CASE k # 1
        BY <2>2, RestLogs DEF Recorded
    <2>3. QED BY <2>1, <2>2
<1>3. QED BY <1>1, <1>2 DEF Recorded

\* Nothing that is on disk, or will be, is lost.
LEMMA StoredStays ==
    ASSUME NEW disk, NEW writes, NEW disk2, NEW rest, Rest(writes, rest), disk \subseteq disk2,
           1 \in Puts(writes) => writes[1].file \in disk2
    PROVE  Stored(disk, writes) \subseteq Stored(disk2, rest)
<1>1. ASSUME NEW k \in Puts(writes)
      PROVE  writes[k].file \in Stored(disk2, rest)
    <2>1. CASE k = 1
        BY <2>1 DEF Stored
    <2>2. CASE k # 1
        <3>1. k - 1 \in DOMAIN rest /\ rest[k - 1] = writes[k]
            BY <2>2, WritesButFirst DEF Puts
        <3>2. k - 1 \in Puts(rest)
            BY <3>1 DEF Puts
        <3>3. QED BY <3>1, <3>2 DEF Stored
    <2>3. QED BY <2>1, <2>2
<1>2. QED BY <1>1 DEF Stored

-----------------------------------------------------------------------------
(* D. What each operation sets out to write.                               *)

\* Every event is of a model.
LEMMA EventIsOfModel ==
    ASSUME NEW e \in Event
    PROVE  e.model \in Nat
BY DEF Event

\* The next id is larger than every id that was given.
LEMMA NextIdIsNew ==
    ASSUME NEW log \in Seq(Event)
    PROVE  NextModelId(log) \in Nat /\ \A id \in Registered(log) : id < NextModelId(log)
<1> DEFINE S == Registered(log)
           f == [i \in 1..Len(log) |-> log[i].model]
<1>1. Len(log) \in Nat /\ DOMAIN log = 1..Len(log) /\ \A i \in DOMAIN log : log[i].model \in Nat
    BY EventIsOfModel
<1>2. CASE S = {}
    BY <1>2 DEF NextModelId
<1>3. CASE S # {}
    <2>1. \A i \in 1..Len(log) : f[i] \in Nat
        BY <1>1
    <2>2. PICK b \in Nat : \A i \in 1..Len(log) : f[i] <= b
        BY <1>1, <2>1, ListIsBounded
    <2>3. S \in SUBSET Nat /\ \A k \in S : k <= b
        BY <1>1, <2>2 DEF Registered, Events
    <2>4. \E m \in S : \A k \in S : k <= m
        BY <1>3, <2>3, GreatestElement
    <2> DEFINE m == CHOOSE n \in S : \A k \in S : k <= n
    <2>5. m \in S /\ \A k \in S : k <= m
        BY <2>4
    <2>6. NextModelId(log) = m + 1
        BY <1>3 DEF NextModelId
    <2> HIDE DEF m, S
    <2>7. QED BY <2>3, <2>5, <2>6 DEF S
<1>4. QED BY <1>2, <1>3

\* What the events of the registry are made of.
LEMMA EventsAreTyped ==
    ASSUME NEW id \in Nat
    PROVE  /\ \A config \in Config, parent \in Nat \cup {None} : ModelCreated(id, config, parent) \in Event
           /\ \A scenario \in Scenario : ScenarioRegistered(id, scenario) \in Event
           /\ \A r \in RunSpec : RunRegistered(id, r) \in Event
           /\ \A r \in RunSpec, analysis \in Commit :
                  EvaluationRecorded(id, r, analysis) \in Event /\ RecoveryCompleted(id, r, analysis) \in Event
           /\ \A from, to \in ModelStatus : StatusChanged(id, from, to) \in Event
           /\ \A r \in RunSpec, previous \in Nat \cup {None} :
                  PromotionRecorded(id, r, previous) \in Event /\ ChampionRecorded(id, r, previous) \in Event
           /\ \A failed, r \in RunSpec : RetryAuthorized(id, failed, r) \in Event
<1>1. \A config \in Config, parent \in Nat \cup {None} : ModelCreated(id, config, parent) \in Event
    BY DEF Event, ModelCreated
<1>2. \A scenario \in Scenario : ScenarioRegistered(id, scenario) \in Event
    BY DEF Event, ScenarioRegistered
<1>3. \A r \in RunSpec : RunRegistered(id, r) \in Event
    BY DEF Event, RunRegistered
<1>4. \A r \in RunSpec, analysis \in Commit :
          EvaluationRecorded(id, r, analysis) \in Event /\ RecoveryCompleted(id, r, analysis) \in Event
    BY DEF Event, EvaluationRecorded, RecoveryCompleted
<1>5. \A from, to \in ModelStatus : StatusChanged(id, from, to) \in Event
    BY DEF Event, StatusChanged
<1>6. \A r \in RunSpec, previous \in Nat \cup {None} :
          PromotionRecorded(id, r, previous) \in Event /\ ChampionRecorded(id, r, previous) \in Event
    BY DEF Event, PromotionRecorded, ChampionRecorded
<1>7. \A failed, r \in RunSpec : RetryAuthorized(id, failed, r) \in Event
    BY DEF Event, RetryAuthorized
<1>8. QED BY <1>1, <1>2, <1>3, <1>4, <1>5, <1>6, <1>7

\* The files of a model are artifacts.
LEMMA FilesAreTyped ==
    ASSUME NEW id \in Nat, NEW name \in FileName
    PROVE  /\ CreationFile(id, name) \in Artifact
           /\ \A r \in RunSpec : RunFile(id, r, name) \in Artifact
           /\ \A r \in RunSpec, analysis \in Commit : File(id, r, analysis, name) \in Artifact
BY DEF CreationFile, RunFile, File, Artifact, NoRun, RunSpec

\* The single writes.
LEMMA WritesAreTyped ==
    /\ Project \in Seq(Writing) /\ <<>> \in Seq(Writing)
    /\ \A e \in Event : Log(e) \in Seq(Writing)
    /\ \A file \in Artifact, content \in FailureKind \cup {"written"} : Put(file, content) \in Seq(Writing)
    /\ \A s, t \in Seq(Writing) : s \o t \in Seq(Writing)
<1>1. [to |-> "reports"] \in Writing
    BY DEF Writing
<1>2. \A e \in Event : [to |-> "journal", event |-> e] \in Writing
    BY DEF Writing
<1>3. \A file \in Artifact, content \in FailureKind \cup {"written"} :
          [to |-> "artifact", file |-> file, content |-> content] \in Writing
    BY DEF Writing
<1>4. Project \in Seq(Writing) /\ <<>> \in Seq(Writing)
    BY <1>1 DEF Project
<1>a. \A w \in Writing : <<w>> \in Seq(Writing)
    OBVIOUS
<1>5. ASSUME NEW e \in Event PROVE Log(e) \in Seq(Writing)
    <2> DEFINE w == [to |-> "journal", event |-> e]
    <2>1. w \in Writing
        BY <1>2
    <2> HIDE DEF w
    <2>2. <<w>> \in Seq(Writing)
        BY <1>a, <2>1
    <2>3. QED BY <2>2 DEF Log, w
<1>6. ASSUME NEW file \in Artifact, NEW content \in FailureKind \cup {"written"}
      PROVE  Put(file, content) \in Seq(Writing)
    <2> DEFINE w == [to |-> "artifact", file |-> file, content |-> content]
    <2>1. w \in Writing
        BY <1>3
    <2> HIDE DEF w
    <2>2. <<w>> \in Seq(Writing)
        BY <1>a, <2>1
    <2>3. QED BY <2>2 DEF Put, w
<1>7. QED BY <1>4, <1>5, <1>6, ConcatProperties

\* Where no event is planned everything is right.
LEMMA NothingPlanned ==
    ASSUME NEW log, NEW disk, NEW writes \in Seq(Writing), Logs(writes) = {}
    PROVE  Planned(log, disk, writes)
BY DEF Planned, StatusPlanned, NewPlanned, EvidencePlanned, ChampionPlanned, ReportsPlanned

\* A single event that is planned, of a model that does not become champion.
Proper(log, disk, e) ==
    /\ ~ Crowns(e)
    /\ e.type = "STATUS_CHANGED" =>
           /\ e.from = CurrentStatus(log, e.model) /\ e.to # "PROMOTED"
           /\ e.to \in AllowedTransitions[e.from]
           /\ e.to = "EVALUATED" => HasEvidence(log, disk, e.model)
    /\ e.type \in {"MODEL_CREATED", "SCENARIO_REGISTERED", "RUN_REGISTERED"} =>
           \A i \in Events(log, e.type) : Differs(log[i], e)

\* The only event of the writes is the k-th, and the reports come last.
Single(writes, k, e) ==
    /\ writes \in Seq(Writing) /\ Logs(writes) = {k} /\ writes[k].event = e
    /\ writes[Len(writes)].to = "reports"

\* What an operation with a single event plans.
LEMMA SinglePlanned ==
    ASSUME NEW log, NEW disk, NEW writes, NEW k, NEW e, Single(writes, k, e), Proper(log, disk, e)
    PROVE  Planned(log, disk, writes)
<1>1. StatusPlanned(log, writes)
    <2>1. e.type = "STATUS_CHANGED" =>
              /\ e.from = CurrentStatus(log, e.model) /\ e.to # "PROMOTED"
              /\ Permitted(log, writes, k, e)
        BY DEF Proper, Permitted
    <2>2. e.type # "PROMOTION_RECORDED"
        BY DEF Proper, Crowns
    <2>3. QED BY <2>1, <2>2 DEF StatusPlanned, Single
<1>2. NewPlanned(log, writes)
    BY DEF NewPlanned, Single, Proper
<1>3. EvidencePlanned(log, disk, writes)
    BY DEF EvidencePlanned, Single, Proper
<1>4. ChampionPlanned(log, writes)
    BY DEF ChampionPlanned, Single, Proper, Crowns
<1>5. ReportsPlanned(writes) /\ writes \in Seq(Writing)
    BY DEF ReportsPlanned, Single
<1>6. QED BY <1>1, <1>2, <1>3, <1>4, <1>5 DEF Planned

\* Reads of a sound journal find what has its type.
LEMMA SoundReads ==
    ASSUME NEW log, NEW disk, Sound(log, disk)
    PROVE  /\ log \in Seq(Event) /\ Registered(log) \subseteq Nat
           /\ \A id : CurrentStatus(log, id) \in ModelStatus
           /\ \A id : RunsOf(log, id) \subseteq RunSpec
<1>1. log \in Seq(Event) /\ \A i \in DOMAIN log : log[i] \in Event
    BY DEF Sound
<1>2. Registered(log) \subseteq Nat
    BY <1>1, EventIsOfModel DEF Registered, Events
<1>3. ASSUME NEW id PROVE RunsOf(log, id) \subseteq RunSpec
    <2>1. \A e \in Event : e.type = "RUN_REGISTERED" => e.run \in RunSpec
        BY DEF Event
    <2>2. QED BY <1>1, <2>1 DEF RunsOf, EventsOf, Events
<1>4. QED BY <1>1, <1>2, <1>3, StatusTyped

\* A change of status by the table.
LEMMA TransitionPlanned ==
    ASSUME Sound(journal, DOMAIN files), NEW id \in Registered(journal), NEW to, CanTransition(id, to),
           to = "EVALUATED" => HasEvidence(journal, DOMAIN files, id)
    PROVE  Planned(journal, DOMAIN files, TransitionWrites(id, to))
<1> DEFINE from == CurrentStatus(journal, id)
           e == StatusChanged(id, from, to)
           T == TransitionWrites(id, to)
<1>1. id \in Nat /\ from \in ModelStatus
    BY SoundReads
<1>2. to \in AllowedTransitions[from] /\ to # "PROMOTED" /\ to \in ModelStatus
    BY <1>1 DEF CanTransition, AllowedTransitions, ModelStatus
<1>3. e \in Event
    BY <1>1, <1>2, EventsAreTyped
<1>4. T = Log(e) \o Project
    BY DEF TransitionWrites
<1> HIDE DEF T
<1>5. T \in Seq(Writing)
    BY <1>3, <1>4, WritesAreTyped
<1>6. Logs(T) = {1} /\ T[1].event = e /\ T[Len(T)].to = "reports"
    BY <1>4 DEF Log, Project, Logs
<1>7. Single(T, 1, e)
    BY <1>5, <1>6 DEF Single
<1>8. Proper(journal, DOMAIN files, e)
    BY <1>2 DEF Proper, StatusChanged, Crowns
<1>9. QED BY <1>7, <1>8, SinglePlanned DEF T

\* The creation files that are missing are written, and nothing else.
LEMMA MissingFiles ==
    ASSUME NEW id \in Nat
    PROVE  MissingCreationFiles(id) \in Seq(Writing) /\ Logs(MissingCreationFiles(id)) = {}
<1> DEFINE f == CreationFile(id, CreationFiles[1])
           g == CreationFile(id, CreationFiles[2])
           M == MissingCreationFiles(id)
<1>1. f \in Artifact /\ g \in Artifact
    <2>1. CreationFiles[1] \in FileName /\ CreationFiles[2] \in FileName
        BY DEF CreationFiles, FileName
    <2>2. QED BY <2>1, FilesAreTyped
<1>2. M = PutMissing(f) \o PutMissing(g)
    BY DEF MissingCreationFiles
<1> HIDE DEF f, g, M
<1>3. PutMissing(f) \in Seq(Writing) /\ PutMissing(g) \in Seq(Writing)
    BY <1>1, WritesAreTyped DEF PutMissing
<1>4. M \in Seq(Writing)
    BY <1>2, <1>3, WritesAreTyped
<1>5. Logs(M) = {}
    <2>1. PutMissing(f) \in {<<>>, Put(f, "written")} /\ PutMissing(g) \in {<<>>, Put(g, "written")}
        BY DEF PutMissing
    <2>2. CASE PutMissing(f) = <<>> /\ PutMissing(g) = <<>>
        BY <1>2, <2>2 DEF Logs
    <2>3. CASE PutMissing(f) = <<>> /\ PutMissing(g) = Put(g, "written")
        BY <1>2, <2>3 DEF Logs, Put
    <2>4. CASE PutMissing(f) = Put(f, "written") /\ PutMissing(g) = <<>>
        BY <1>2, <2>4 DEF Logs, Put
    <2>5. CASE PutMissing(f) = Put(f, "written") /\ PutMissing(g) = Put(g, "written")
        BY <1>2, <2>5 DEF Logs, Put
    <2>6. QED BY <2>1, <2>2, <2>3, <2>4, <2>5
<1>6. QED BY <1>4, <1>5 DEF M

\* What is planned, then files, then the reports.
Reported(A, M, T) ==
    A \in Seq(Writing) /\ M \in Seq(Writing) /\ Logs(M) = {} /\ T = A \o M \o Project

KeepsEvents(A, T) == \A k \in Logs(A) : T[k] = A[k]

\* The events are those of what is planned, at their places.
LEMMA ThenReports ==
    ASSUME NEW A, NEW M, NEW T, Reported(A, M, T)
    PROVE  /\ KeepsEvents(A, T)
           /\ T \in Seq(Writing) /\ Logs(T) = Logs(A) /\ T # <<>> /\ T[Len(T)].to = "reports"
<1> DEFINE w == [to |-> "reports"]
<1>0. A \in Seq(Writing) /\ M \in Seq(Writing) /\ Logs(M) = {} /\ T = A \o M \o Project
    BY DEF Reported
<1>1. Project \in Seq(Writing) /\ A \o M \in Seq(Writing)
    BY <1>0, WritesAreTyped
<1>2. Len(Project) = 1 /\ Project[1] = w
    BY DEF Project
<1>3. /\ T \in Seq(Writing) /\ Len(T) = Len(A) + Len(M) + 1
      /\ Len(A) \in Nat /\ Len(M) \in Nat
      /\ DOMAIN A = 1..Len(A) /\ DOMAIN M = 1..Len(M) /\ DOMAIN T = 1..Len(T)
    <2>1. Len(A) \in Nat /\ Len(M) \in Nat /\ DOMAIN A = 1..Len(A) /\ DOMAIN M = 1..Len(M)
        BY <1>0
    <2>2. Len(A \o M) = Len(A) + Len(M)
        BY <1>0, ConcatProperties
    <2>3. T \in Seq(Writing) /\ Len(T) = Len(A \o M) + Len(Project)
        BY <1>0, <1>1, ConcatProperties
    <2>4. DOMAIN T = 1..Len(T)
        BY <2>3
    <2>5. QED BY <1>2, <2>1, <2>2, <2>3, <2>4
<1>4. ASSUME NEW k \in 1..Len(T)
      PROVE  T[k] = IF k <= Len(A) THEN A[k]
                    ELSE IF k <= Len(A) + Len(M) THEN M[k - Len(A)] ELSE w
    <2> DEFINE P == A \o M
    <2>1. /\ Len(P) = Len(A) + Len(M)
          /\ \A i \in 1..(Len(A) + Len(M)) : P[i] = IF i <= Len(A) THEN A[i] ELSE M[i - Len(A)]
        BY <1>0, ConcatProperties
    <2>2. P \in Seq(Writing) /\ T = P \o Project
        BY <1>0, <1>1
    <2> HIDE DEF P
    <2>3. \A i \in 1..(Len(P) + Len(Project)) :
              T[i] = IF i <= Len(P) THEN P[i] ELSE Project[i - Len(P)]
        BY <1>1, <2>2, ConcatProperties
    <2>4. k > Len(P) => k - Len(P) = 1
        BY <1>3, <2>1
    <2>5. QED BY <1>2, <1>3, <2>1, <2>3, <2>4
<1>5. \A k \in 1..Len(M) : M[k].to # "journal"
    BY <1>0, <1>3 DEF Logs
<1>6. w.to = "reports"
    OBVIOUS
<1> HIDE DEF w
<1>7. Logs(T) = Logs(A)
    <2>1. ASSUME NEW k \in Logs(T) PROVE k \in Logs(A)
        <3>1. k \in 1..Len(T) /\ T[k].to = "journal"
            BY <1>3 DEF Logs
        <3>2. k <= Len(A)
            <4>1. CASE k > Len(A) /\ k <= Len(A) + Len(M)
                <5>1. T[k] = M[k - Len(A)] /\ k - Len(A) \in 1..Len(M)
                    BY <1>3, <1>4, <3>1, <4>1
                <5>2. QED BY <1>5, <3>1, <5>1
            <4>2. CASE k > Len(A) + Len(M)
                <5>1. T[k] = w
                    BY <1>3, <1>4, <3>1, <4>2
                <5>2. QED BY <1>6, <3>1, <5>1
            <4>3. QED BY <1>3, <3>1, <4>1, <4>2
        <3>3. T[k] = A[k] /\ k \in 1..Len(A)
            BY <1>3, <1>4, <3>1, <3>2
        <3>4. QED BY <1>3, <3>1, <3>3 DEF Logs
    <2>2. ASSUME NEW k \in Logs(A) PROVE k \in Logs(T)
        <3>1. k \in 1..Len(A) /\ A[k].to = "journal"
            BY <1>3 DEF Logs
        <3>2. k \in 1..Len(T) /\ T[k] = A[k]
            BY <1>3, <1>4, <3>1
        <3>3. QED BY <1>3, <3>1, <3>2 DEF Logs
    <2>3. QED BY <2>1, <2>2
<1>8. KeepsEvents(A, T)
    <2>1. ASSUME NEW k \in Logs(A) PROVE T[k] = A[k]
        <3>1. k \in 1..Len(A)
            BY <1>3 DEF Logs
        <3>2. k \in 1..Len(T) /\ k <= Len(A)
            BY <1>3, <3>1
        <3>3. QED BY <1>4, <3>2
    <2>2. QED BY <2>1 DEF KeepsEvents
<1>9. Len(T) \in 1..Len(T) /\ T[Len(T)] = w
    BY <1>3, <1>4
<1>10. T # <<>>
    BY <1>9
<1>11. QED BY <1>3, <1>6, <1>7, <1>8, <1>9, <1>10

\* An event, files, the reports.
LEMMA EventThenReports ==
    ASSUME NEW e \in Event, NEW M \in Seq(Writing), Logs(M) = {}, NEW T, T = Log(e) \o M \o Project
    PROVE  Single(T, 1, e) /\ T # <<>>
<1> DEFINE A == Log(e)
<1>1. A \in Seq(Writing) /\ Logs(A) = {1} /\ A[1].event = e
    BY WritesAreTyped DEF Logs, Log
<1>2. Reported(A, M, T)
    BY <1>1 DEF Reported
<1> HIDE DEF A
<1>3. T \in Seq(Writing) /\ Logs(T) = Logs(A) /\ T # <<>> /\ T[Len(T)].to = "reports"
    BY <1>1, <1>2, ThenReports
<1>4. T[1] = A[1]
    <2>1. KeepsEvents(A, T)
        BY <1>2, ThenReports
    <2>2. QED BY <1>1, <2>1 DEF KeepsEvents
<1>5. QED BY <1>1, <1>3, <1>4 DEF Single

\* register: a configuration gets an id of its own once.
LEMMA RegisterPlanned ==
    ASSUME Sound(journal, DOMAIN files), NEW config \in Config,
           NEW parent \in Registered(journal) \cup {None}
    PROVE  Planned(journal, DOMAIN files, RegisterWrites(config, parent))
<1> DEFINE T == RegisterWrites(config, parent)
           known == {i \in Events(journal, "MODEL_CREATED") : journal[i].config = config}
<1>1. journal \in Seq(Event) /\ parent \in Nat \cup {None} /\ known \subseteq DOMAIN journal
    BY SoundReads DEF Events
<1>2. CASE known = {}
    <2> DEFINE id == NextModelId(journal)
               e == ModelCreated(id, config, parent)
               M == MissingCreationFiles(id)
    <2>1. id \in Nat /\ \A k \in Registered(journal) : k < id
        BY <1>1, NextIdIsNew
    <2>2. e \in Event /\ M \in Seq(Writing) /\ Logs(M) = {}
        BY <1>1, <2>1, EventsAreTyped, MissingFiles
    <2>3. T = Log(e) \o M \o Project
        BY <1>2 DEF RegisterWrites
    <2>4. /\ e.type = "MODEL_CREATED" /\ e.config = config /\ e.model = id
        BY DEF ModelCreated
    <2>5. ASSUME NEW i \in Events(journal, "MODEL_CREATED") PROVE Differs(journal[i], e)
        <3>1. journal[i].config # config
            BY <1>2
        <3>2. journal[i].model \in Registered(journal)
            BY DEF Registered
        <3>3. QED BY <2>1, <2>4, <3>1, <3>2 DEF Differs
    <2> HIDE DEF T, e, M
    <2>6. Single(T, 1, e)
        BY <2>2, <2>3, EventThenReports
    <2>7. Proper(journal, DOMAIN files, e)
        BY <2>4, <2>5 DEF Proper, Crowns
    <2>8. QED BY <2>6, <2>7, SinglePlanned DEF T
<1>3. CASE known # {}
    <2> DEFINE id == journal[CHOOSE i \in known : \A k \in known : i <= k].model
               M == MissingCreationFiles(id)
    <2>1. id \in Nat
        <3>1. known \in SUBSET Nat
            BY <1>1
        <3>2. PICK i \in known : \A m \in Nat : m < i => m \notin known
            BY <1>3, <3>1, LeastElement
        <3>3. \A k \in known : i <= k
            BY <3>1, <3>2
        <3>4. (CHOOSE m \in known : \A k \in known : m <= k) \in known
            BY <3>3
        <3>5. \A m \in DOMAIN journal : journal[m].model \in Nat
            BY <1>1, EventIsOfModel
        <3>6. QED BY <1>1, <3>4, <3>5
    <2>2. M \in Seq(Writing) /\ Logs(M) = {}
        BY <2>1, MissingFiles
    <2>3. T = <<>> \o M \o Project
        BY <1>3 DEF RegisterWrites
    <2> HIDE DEF T, M
    <2>4. <<>> \in Seq(Writing) /\ Logs(<<>>) = {}
        BY DEF Logs
    <2>5. T \in Seq(Writing) /\ Logs(T) = {}
        BY <2>2, <2>3, <2>4, ThenReports DEF Reported
    <2>6. QED BY <2>5, NothingPlanned DEF T
<1>4. QED BY <1>2, <1>3

\* append_scenario.
LEMMA ScenarioPlanned ==
    ASSUME Sound(journal, DOMAIN files), NEW id \in Registered(journal), NEW scenario \in Scenario
    PROVE  Planned(journal, DOMAIN files, ScenarioWrites(id, scenario))
<1> DEFINE e == ScenarioRegistered(id, scenario)
           T == ScenarioWrites(id, scenario)
<1>1. CASE \E i \in EventsOf(journal, "SCENARIO_REGISTERED", id) : journal[i].scenario = scenario
    <2>1. T = <<>>
        BY <1>1 DEF ScenarioWrites
    <2>2. T \in Seq(Writing) /\ Logs(T) = {}
        BY <2>1, WritesAreTyped DEF Logs
    <2>3. QED BY <2>2, NothingPlanned
<1>2. CASE ~ \E i \in EventsOf(journal, "SCENARIO_REGISTERED", id) : journal[i].scenario = scenario
    <2>1. e \in Event
        BY SoundReads, EventsAreTyped
    <2>2. T = Log(e) \o <<>> \o Project
        BY <1>2 DEF ScenarioWrites, Log, Project
    <2>3. <<>> \in Seq(Writing) /\ Logs(<<>>) = {}
        BY DEF Logs
    <2>4. e.type = "SCENARIO_REGISTERED" /\ e.model = id /\ e.scenario = scenario
        BY DEF ScenarioRegistered
    <2>5. ASSUME NEW i \in Events(journal, "SCENARIO_REGISTERED") PROVE Differs(journal[i], e)
        BY <1>2, <2>4 DEF Differs, EventsOf
    <2> HIDE DEF T, e
    <2>6. Single(T, 1, e)
        BY <2>1, <2>2, <2>3, EventThenReports
    <2>7. Proper(journal, DOMAIN files, e)
        BY <2>4, <2>5 DEF Proper, Crowns
    <2>8. QED BY <2>6, <2>7, SinglePlanned DEF T
<1>3. QED BY <1>1, <1>2

\* A run that is not known differs from those that are.
LEMMA UnknownRun ==
    ASSUME NEW id, NEW r, ~ RunIsKnown(id, r)
    PROVE  \A i \in Events(journal, "RUN_REGISTERED") : Differs(journal[i], RunRegistered(id, r))
BY DEF RunIsKnown, RunsOf, EventsOf, Events, Differs, RunRegistered

\* append_run: the run will be registered, if it is not.
LEMMA RunPlanned ==
    ASSUME Sound(journal, DOMAIN files), NEW id \in Registered(journal), NEW r \in RunSpec
    PROVE  /\ Planned(journal, DOMAIN files, RunWrites(id, r))
           /\ RunRegistered(id, r) \in Recorded(journal, RunWrites(id, r))
<1> DEFINE e == RunRegistered(id, r)
           T == RunWrites(id, r)
<1>0. e.type = "RUN_REGISTERED" /\ e.model = id /\ e.run = r
    BY DEF RunRegistered
<1>1. CASE RunIsKnown(id, r)
    <2>1. T = <<>>
        BY <1>1 DEF RunWrites
    <2>2. PICK i \in EventsOf(journal, "RUN_REGISTERED", id) : journal[i].run = r
        BY <1>1 DEF RunIsKnown, RunsOf
    <2>3. journal[i] = e /\ i \in DOMAIN journal
        <3>1. journal \in Seq(Event) /\ i \in DOMAIN journal /\ journal[i].type = "RUN_REGISTERED"
              /\ journal[i].model = id
            BY <2>2, SoundReads DEF EventsOf, Events
        <3>2. journal[i] \in Event
            BY <3>1
        <3>3. journal[i] \in [type : {"RUN_REGISTERED"}, model : Nat, run : RunSpec]
            BY <3>1, <3>2 DEF Event
        <3>4. journal[i] = [type |-> "RUN_REGISTERED", model |-> id, run |-> r]
            BY <2>2, <3>1, <3>3
        <3>5. QED BY <3>1, <3>4 DEF RunRegistered
    <2>4. T \in Seq(Writing) /\ Logs(T) = {}
        BY <2>1, WritesAreTyped DEF Logs
    <2>5. RunRegistered(id, r) \in Recorded(journal, T)
        BY <2>3 DEF Recorded
    <2>6. QED BY <2>4, <2>5, NothingPlanned
<1>2. CASE ~ RunIsKnown(id, r)
    <2> DEFINE M == Put(RunFile(id, r, "run-manifest.json"), "written")
    <2>1. e \in Event /\ id \in Nat
        BY SoundReads, EventsAreTyped
    <2>2. M \in Seq(Writing) /\ Logs(M) = {}
        <3>0. "run-manifest.json" \in FileName
            BY DEF FileName
        <3>1. RunFile(id, r, "run-manifest.json") \in Artifact
            BY <2>1, <3>0, FilesAreTyped
        <3>2. QED BY <3>1, WritesAreTyped DEF Logs, Put
    <2>3. T = Log(e) \o M \o Project
        BY <1>2 DEF RunWrites
    <2>4. \A i \in Events(journal, "RUN_REGISTERED") : Differs(journal[i], e)
        BY <1>2, UnknownRun
    <2> HIDE DEF T, e, M
    <2>6. Single(T, 1, e)
        BY <2>1, <2>2, <2>3, EventThenReports
    <2>7. Proper(journal, DOMAIN files, e)
        BY <1>0, <2>4 DEF Proper, Crowns
    <2>8. e \in Recorded(journal, T)
        BY <2>6 DEF Single, Recorded
    <2>9. QED BY <2>6, <2>7, <2>8, SinglePlanned DEF T, e
<1>3. QED BY <1>1, <1>2

\* A file is written, and no event.
LEMMA PutPlanned ==
    ASSUME NEW log, NEW disk, NEW file \in Artifact, NEW content \in FailureKind \cup {"written"}
    PROVE  /\ Planned(log, disk, Put(file, content)) /\ Logs(Put(file, content)) = {}
           /\ file \in Stored(disk, Put(file, content))
<1> DEFINE T == Put(file, content)
<1>1. T \in Seq(Writing)
    BY WritesAreTyped
<1>2. Logs(T) = {} /\ 1 \in DOMAIN T /\ T[1].to = "artifact" /\ T[1].file = file
    BY DEF Logs, Put
<1> HIDE DEF T
<1>3. file \in Stored(disk, T)
    BY <1>2 DEF Stored, Puts
<1>4. QED BY <1>1, <1>2, <1>3, NothingPlanned DEF T

\* append_evaluation: the evaluation will be recorded and its artifacts stored.
LEMMA EvaluationPlanned ==
    ASSUME NEW log, NEW disk, NEW id \in Nat, NEW r \in RunSpec, NEW analysis \in Commit
    PROVE  /\ Planned(log, disk, EvaluationWrites(id, r, analysis))
           /\ EvaluationRecorded(id, r, analysis) \in Recorded(log, EvaluationWrites(id, r, analysis))
           /\ \A n \in DOMAIN EvaluationFiles :
                  File(id, r, analysis, EvaluationFiles[n])
                      \in Stored(disk, EvaluationWrites(id, r, analysis))
<1> DEFINE e == EvaluationRecorded(id, r, analysis)
           f == File(id, r, analysis, EvaluationFiles[1])
           g == File(id, r, analysis, EvaluationFiles[2])
           v == [to |-> "artifact", file |-> f, content |-> "written"]
           w == [to |-> "artifact", file |-> g, content |-> "written"]
           M == EvaluationArtifacts(id, r, analysis)
           T == EvaluationWrites(id, r, analysis)
<1>1. DOMAIN EvaluationFiles = 1..2
    BY DEF EvaluationFiles
<1>2. f \in Artifact /\ g \in Artifact
    <2>1. EvaluationFiles[1] \in FileName /\ EvaluationFiles[2] \in FileName
        BY DEF EvaluationFiles, FileName
    <2>2. QED BY <2>1, FilesAreTyped
<1>3. v \in Writing /\ w \in Writing
    BY <1>2 DEF Writing
<1>4. M = [n \in 1..2 |-> Put(File(id, r, analysis, EvaluationFiles[n]), "written")[1]]
    BY <1>1 DEF EvaluationArtifacts
<1>5. M[1] = v /\ M[2] = w /\ DOMAIN M = 1..2
    BY <1>4 DEF Put
<1>6. v.to = "artifact" /\ v.file = f /\ w.to = "artifact" /\ w.file = g
    OBVIOUS
<1>7. e \in Event /\ e.type = "EVALUATION_RECORDED"
    BY EventsAreTyped DEF EvaluationRecorded
<1>8. T = Log(e) \o M \o Project
    BY DEF EvaluationWrites
<1>9. \A n \in DOMAIN EvaluationFiles : File(id, r, analysis, EvaluationFiles[n]) \in {f, g}
    BY <1>1
<1> HIDE DEF e, f, g, v, w, M, T
<1>10. M = <<v, w>>
    <2>1. M = [n \in 1..2 |-> M[n]]
        BY <1>4
    <2>2. QED BY <1>5, <2>1
<1>11. M \in Seq(Writing) /\ Logs(M) = {}
    BY <1>3, <1>6, <1>10 DEF Logs
<1>12. Single(T, 1, e)
    BY <1>7, <1>8, <1>11, EventThenReports
<1>13. Proper(log, disk, e)
    BY <1>7 DEF Proper, Crowns
<1>14. e \in Recorded(log, T)
    BY <1>12 DEF Single, Recorded
<1>15. T[2] = v /\ T[3] = w /\ 2 \in DOMAIN T /\ 3 \in DOMAIN T
    BY <1>8, <1>10 DEF Log, Project
<1>16. f \in Stored(disk, T) /\ g \in Stored(disk, T)
    BY <1>6, <1>15 DEF Stored, Puts
<1>17. QED BY <1>9, <1>12, <1>13, <1>14, <1>16, SinglePlanned DEF T, e

\* Three writes one after the other are the writes T.
OneByOne(T, a, b, c) ==
    /\ T \in Seq(Writing) /\ Len(T) = 3
    /\ T[1] = a /\ T[2] = b /\ T[3] = c

\* Three lists of one write.
LEMMA ThreeByOne ==
    ASSUME NEW a \in Writing, NEW b \in Writing, NEW c \in Writing
    PROVE  /\ OneByOne(<<a>> \o <<b>> \o <<c>>, a, b, c)
           /\ OneByOne(<<a>> \o (<<b>> \o <<c>>), a, b, c)
BY DEF OneByOne

\* A failure is written down, and the model invalidated.
LEMMA FailurePlanned ==
    ASSUME Sound(journal, DOMAIN files), NEW id \in Registered(journal), NEW r \in RunSpec,
           NEW kind \in FailureKind, CanTransition(id, "INVALIDATED_TECHNICAL"), NEW T,
           T = Put(RunFile(id, r, "technical-failure.json"), kind)
               \o TransitionWrites(id, "INVALIDATED_TECHNICAL")
    PROVE  Planned(journal, DOMAIN files, T) /\ T # <<>> /\ T[Len(T)].to = "reports"
<1> DEFINE from == CurrentStatus(journal, id)
           to == "INVALIDATED_TECHNICAL"
           e == StatusChanged(id, from, to)
           file == RunFile(id, r, "technical-failure.json")
<1>1. id \in Nat /\ from \in ModelStatus
    BY SoundReads
<1>2. to \in AllowedTransitions[from] /\ to \in ModelStatus
    BY DEF CanTransition, ModelStatus
<1>3. e \in Event
    BY <1>1, <1>2, EventsAreTyped
<1>4. T = Put(file, kind) \o (Log(e) \o Project)
    BY DEF TransitionWrites
<1>5. file \in Artifact
    <2>1. "technical-failure.json" \in FileName
        BY DEF FileName
    <2>2. QED BY <1>1, <2>1, FilesAreTyped
<1>6. Proper(journal, DOMAIN files, e)
    BY <1>2 DEF Proper, StatusChanged, Crowns
<1> HIDE DEF e, file
<1>7. T \in Seq(Writing)
    <2>1. Put(file, kind) \in Seq(Writing)
        BY <1>5, WritesAreTyped
    <2>2. Log(e) \o Project \in Seq(Writing)
        BY <1>3, WritesAreTyped
    <2>3. QED BY <1>4, <2>1, <2>2, WritesAreTyped
<1>8. Logs(T) = {2} /\ T[2].event = e /\ Len(T) = 3 /\ T[3].to = "reports"
    <2> DEFINE p == [to |-> "artifact", file |-> file, content |-> kind]
               q == [to |-> "journal", event |-> e]
               w == [to |-> "reports"]
    <2>1. T = <<p>> \o (<<q>> \o <<w>>)
        BY <1>4 DEF Log, Put, Project
    <2>2. p.to = "artifact" /\ q.to = "journal" /\ q.event = e /\ w.to = "reports"
        OBVIOUS
    <2>3. p \in Writing /\ q \in Writing /\ w \in Writing
        BY <1>3, <1>5 DEF Writing
    <2> HIDE DEF p, q, w
    <2>4. OneByOne(<<p>> \o (<<q>> \o <<w>>), p, q, w)
        BY <2>3, ThreeByOne
    <2>5. Len(T) = 3 /\ T[1] = p /\ T[2] = q /\ T[3] = w
        BY <2>1, <2>4 DEF OneByOne
    <2>6. DOMAIN T = 1..3
        BY <1>7, <2>5
    <2>7. QED BY <2>2, <2>5, <2>6 DEF Logs
<1>9. Single(T, 2, e)
    BY <1>7, <1>8 DEF Single
<1>10. T # <<>>
    BY <1>8
<1>11. QED BY <1>6, <1>8, <1>9, <1>10, SinglePlanned

\* What is planned, then the reports.
LEMMA JustReports ==
    ASSUME NEW A \in Seq(Writing)
    PROVE  Reported(A, <<>>, A \o Project)
<1>1. A \o <<>> = A
    BY ConcatEmptySeq
<1>2. <<>> \in Seq(Writing) /\ Logs(<<>>) = {}
    BY WritesAreTyped DEF Logs
<1>3. QED BY <1>1, <1>2 DEF Reported

\* The status of id is given back after f, perhaps with a new run.
Restores(T, f, n, e, id, r) ==
    /\ T \in Seq(Writing) /\ T # <<>> /\ T[Len(T)].to = "reports"
    /\ Logs(T) \subseteq Nat /\ {1, n} \subseteq Logs(T) /\ 1 < n
    /\ T[1].event = f /\ T[n].event = e
    /\ \A k \in Logs(T) : k # 1 /\ k # n =>
           k = 2 /\ T[k].event = RunRegistered(id, r) /\ ~ RunIsKnown(id, r)

\* What f is and what it allows.
Restoring(f, e, id, to) ==
    /\ f.model = id /\ id = RetryId
    /\ e = StatusChanged(id, "INVALIDATED_TECHNICAL", to)
    /\ CurrentStatus(journal, id) = "INVALIDATED_TECHNICAL"
    /\ \/ to = "RUNNING" /\ f.type = "TECHNICAL_RETRY_AUTHORIZED"
       \/ /\ to = "EVALUATED" /\ f.type = "POSTPROCESSING_RECOVERY_COMPLETED"
          /\ HasEvidence(journal, DOMAIN files, id)

\* M010's invalidation ends by what was authorized or completed before.
LEMMA RestorePlanned ==
    ASSUME NEW T, NEW f, NEW n, NEW e, NEW id, NEW r, NEW to,
           Restores(T, f, n, e, id, r), Restoring(f, e, id, to)
    PROVE  Planned(journal, DOMAIN files, T)
<1>1. /\ e.type = "STATUS_CHANGED" /\ e.model = id /\ e.to = to
      /\ e.from = "INVALIDATED_TECHNICAL" /\ e.from = CurrentStatus(journal, e.model)
    BY DEF Restoring, StatusChanged
<1>2. /\ f.type \in {"TECHNICAL_RETRY_AUTHORIZED", "POSTPROCESSING_RECOVERY_COMPLETED"}
      /\ f.model = id /\ id = RetryId /\ to \in {"RUNNING", "EVALUATED"}
      /\ to = "RUNNING" => f.type = "TECHNICAL_RETRY_AUTHORIZED"
      /\ to = "EVALUATED" => /\ f.type = "POSTPROCESSING_RECOVERY_COMPLETED"
                             /\ HasEvidence(journal, DOMAIN files, id)
    BY DEF Restoring
<1>3. /\ T[1].event = f /\ T[n].event = e /\ 1 < n /\ 1 \in Logs(T) /\ n \in Logs(T)
      /\ T \in Seq(Writing) /\ T[Len(T)].to = "reports"
    BY DEF Restores
<1>4. ASSUME NEW k \in Logs(T), k # 1, k # n
      PROVE  /\ k = 2 /\ T[k].event.type = "RUN_REGISTERED"
             /\ \A i \in Events(journal, "RUN_REGISTERED") : Differs(journal[i], T[k].event)
    <2>1. k = 2 /\ T[k].event = RunRegistered(id, r) /\ ~ RunIsKnown(id, r)
        BY <1>4 DEF Restores
    <2>2. RunRegistered(id, r).type = "RUN_REGISTERED"
        BY DEF RunRegistered
    <2>3. QED BY <2>1, <2>2, UnknownRun
<1>5. \A k \in Logs(T) : T[k].event.type \in
          {f.type, "STATUS_CHANGED", "RUN_REGISTERED"} /\ (ChangesStatus(T[k].event) => k = n)
    BY <1>1, <1>2, <1>3, <1>4 DEF ChangesStatus
<1>6. Permitted(journal, T, n, e)
    <2>1. Precedes(journal, T, n, f.type, id)
        BY <1>2, <1>3 DEF Precedes
    <2>2. QED BY <1>1, <1>2, <2>1 DEF Permitted
<1>7. StatusPlanned(journal, T)
    <2>1. ASSUME NEW k \in Logs(T)
          PROVE  T[k].event.type # "PROMOTION_RECORDED" /\ (T[k].event.type = "STATUS_CHANGED" => k = n)
        BY <1>2, <1>5 DEF ChangesStatus
    <2>2. to # "PROMOTED"
        BY <1>2
    <2>3. QED BY <1>1, <1>3, <1>5, <1>6, <2>1, <2>2 DEF StatusPlanned
<1>8. NewPlanned(journal, T)
    <2>1. ASSUME NEW k \in Logs(T),
                 T[k].event.type \in {"MODEL_CREATED", "SCENARIO_REGISTERED", "RUN_REGISTERED"}
          PROVE  k # 1 /\ k # n
        BY <1>1, <1>2, <1>3, <2>1
    <2>2. QED BY <1>4, <2>1 DEF NewPlanned
<1>9. EvidencePlanned(journal, DOMAIN files, T)
    BY <1>1, <1>2, <1>3, <1>5 DEF EvidencePlanned, ChangesStatus
<1>10. ChampionPlanned(journal, T)
    BY <1>2, <1>5 DEF ChampionPlanned
<1>11. QED BY <1>3, <1>7, <1>8, <1>9, <1>10 DEF Planned, ReportsPlanned

\* complete_recovery.
LEMMA RecoveryPlanned ==
    ASSUME Sound(journal, DOMAIN files), NEW id \in Registered(journal), NEW r \in RunSpec,
           NEW analysis \in Commit, CanCompleteRecovery(id, r, analysis),
           HasEvidence(journal, DOMAIN files, id)
    PROVE  Planned(journal, DOMAIN files, RecoveryWrites(id, r, analysis))
<1> DEFINE f == RecoveryCompleted(id, r, analysis)
           e == StatusChanged(id, "INVALIDATED_TECHNICAL", "EVALUATED")
           T == RecoveryWrites(id, r, analysis)
           p == [to |-> "journal", event |-> f]
           q == [to |-> "journal", event |-> e]
           w == [to |-> "reports"]
<1>1. f \in Event /\ e \in Event
    <2>1. {"INVALIDATED_TECHNICAL", "EVALUATED"} \subseteq ModelStatus
        BY DEF ModelStatus
    <2>2. QED BY <2>1, SoundReads, EventsAreTyped
<1>2. T = <<p>> \o <<q>> \o <<w>>
    BY DEF RecoveryWrites, Log, Project
<1>3. Restoring(f, e, id, "EVALUATED")
    BY DEF Restoring, CanCompleteRecovery, FrozenModel, RecoveryCompleted
<1>4. /\ p.to = "journal" /\ p.event = f /\ q.to = "journal" /\ q.event = e /\ w.to = "reports"
      /\ p \in Writing /\ q \in Writing /\ w \in Writing
    BY <1>1 DEF Writing
<1> HIDE DEF f, e, T, p, q, w
<1>5. OneByOne(<<p>> \o <<q>> \o <<w>>, p, q, w)
    BY <1>4, ThreeByOne
<1>6. OneByOne(T, p, q, w)
    BY <1>2, <1>5
<1>7. Restores(T, f, 2, e, id, r)
    <2>1. T \in Seq(Writing) /\ Len(T) = 3 /\ T[1] = p /\ T[2] = q /\ T[3] = w
        BY <1>6 DEF OneByOne
    <2>2. DOMAIN T = 1..3 /\ T # <<>>
        <3>1. DOMAIN T = 1..3
            BY <2>1
        <3>2. T # <<>>
            BY <3>1
        <3>3. QED BY <3>1, <3>2
    <2>3. Logs(T) = {1, 2}
        BY <1>4, <2>1, <2>2 DEF Logs
    <2>4. QED BY <1>4, <2>1, <2>2, <2>3 DEF Restores
<1>8. QED BY <1>3, <1>7, RestorePlanned DEF T

\* A write, other writes, and one more.
Around(B, a, R, c) ==
    /\ B \in Seq(Writing) /\ Len(B) = Len(R) + 2
    /\ B[1] = a /\ B[Len(R) + 2] = c
    /\ \A k \in 1..Len(R) : B[k + 1] = R[k]

\* They are joined.
LEMMA JoinsAround ==
    ASSUME NEW a \in Writing, NEW c \in Writing, NEW R \in Seq(Writing)
    PROVE  Around(<<a>> \o R \o <<c>>, a, R, c)
<1> DEFINE A == <<a>>
           C == <<c>>
           P == A \o R
           B == P \o C
<1>1. A \in Seq(Writing) /\ C \in Seq(Writing)
    OBVIOUS
<1>2. Len(A) = 1 /\ A[1] = a /\ Len(C) = 1 /\ C[1] = c /\ Len(R) \in Nat
    OBVIOUS
<1> HIDE DEF A, C
<1>3. /\ P \in Seq(Writing) /\ Len(P) = Len(A) + Len(R)
      /\ \A k \in 1..(Len(A) + Len(R)) : P[k] = IF k <= Len(A) THEN A[k] ELSE R[k - Len(A)]
    BY <1>1, ConcatProperties
<1> HIDE DEF P
<1>4. /\ B \in Seq(Writing) /\ Len(B) = Len(P) + Len(C)
      /\ \A k \in 1..(Len(P) + Len(C)) : B[k] = IF k <= Len(P) THEN P[k] ELSE C[k - Len(P)]
    <2>1. P \in Seq(Writing) /\ C \in Seq(Writing)
        BY <1>1, <1>3
    <2>2. QED BY <2>1, ConcatProperties
<1> HIDE DEF B
<1>5. Len(B) = Len(R) + 2 /\ Len(P) = Len(R) + 1
    BY <1>2, <1>3, <1>4
<1>6. B[1] = a
    <2>1. P[1] = a
        BY <1>2, <1>3
    <2>2. B[1] = P[1]
        BY <1>2, <1>4, <1>5
    <2>3. QED BY <2>1, <2>2
<1>7. B[Len(R) + 2] = c
    <2>1. B[Len(R) + 2] = C[Len(R) + 2 - Len(P)]
        BY <1>2, <1>4, <1>5
    <2>2. Len(R) + 2 - Len(P) = 1
        BY <1>2, <1>5
    <2>3. QED BY <1>2, <2>1, <2>2
<1>8. ASSUME NEW k \in 1..Len(R) PROVE B[k + 1] = R[k]
    <2>1. P[k + 1] = R[k]
        BY <1>2, <1>3
    <2>2. B[k + 1] = P[k + 1]
        BY <1>2, <1>4, <1>5
    <2>3. QED BY <2>1, <2>2
<1>9. B = <<a>> \o R \o <<c>>
    BY DEF A, P, C, B
<1>10. Around(B, a, R, c)
    BY <1>4, <1>5, <1>6, <1>7, <1>8 DEF Around
<1>11. QED BY <1>9, <1>10

\* Where the events are.
LEMMA LogsAround ==
    ASSUME NEW B, NEW a, NEW R \in Seq(Writing), NEW c, Around(B, a, R, c),
           a.to = "journal", c.to = "journal"
    PROVE  /\ Logs(B) = {1, Len(R) + 2} \cup {k + 1 : k \in Logs(R)}
           /\ \A k \in Logs(R) : B[k + 1] = R[k]
<1>1. /\ DOMAIN B = 1..(Len(R) + 2) /\ DOMAIN R = 1..Len(R) /\ Len(R) \in Nat
      /\ B[1] = a /\ B[Len(R) + 2] = c /\ \A k \in 1..Len(R) : B[k + 1] = R[k]
    BY DEF Around
<1>2. ASSUME NEW j \in Logs(B), j # 1, j # Len(R) + 2
      PROVE  j \in {k + 1 : k \in Logs(R)}
    <2>1. j - 1 \in 1..Len(R) /\ (j - 1) + 1 = j
        BY <1>1, <1>2 DEF Logs
    <2>2. B[j] = R[j - 1]
        BY <1>1, <2>1
    <2>3. j - 1 \in Logs(R)
        BY <1>1, <2>1, <2>2 DEF Logs
    <2>4. QED BY <2>1, <2>3
<1>3. ASSUME NEW k \in Logs(R) PROVE k + 1 \in Logs(B) /\ B[k + 1] = R[k]
    <2>1. k \in 1..Len(R) /\ R[k].to = "journal"
        BY <1>1 DEF Logs
    <2>2. B[k + 1] = R[k] /\ k + 1 \in DOMAIN B
        BY <1>1, <2>1
    <2>3. QED BY <2>1, <2>2 DEF Logs
<1>4. 1 \in Logs(B) /\ Len(R) + 2 \in Logs(B)
    BY <1>1 DEF Logs
<1>5. QED BY <1>2, <1>3, <1>4

\* What append_run writes, place by place.
LEMMA RunLogs ==
    ASSUME NEW id \in Nat, NEW r \in RunSpec
    PROVE  /\ RunWrites(id, r) \in Seq(Writing) /\ Len(RunWrites(id, r)) \in Nat
           /\ RunIsKnown(id, r) => Logs(RunWrites(id, r)) = {}
           /\ ~ RunIsKnown(id, r) => /\ Logs(RunWrites(id, r)) = {1}
                                     /\ RunWrites(id, r)[1].event = RunRegistered(id, r)
                                     /\ Len(RunWrites(id, r)) = 3
<1> DEFINE R == RunWrites(id, r)
           e == RunRegistered(id, r)
           file == RunFile(id, r, "run-manifest.json")
           p == [to |-> "journal", event |-> e]
           q == [to |-> "artifact", file |-> file, content |-> "written"]
           w == [to |-> "reports"]
<1>1. CASE RunIsKnown(id, r)
    <2>1. R = <<>>
        BY <1>1 DEF RunWrites
    <2>2. <<>> \in Seq(Writing) /\ Len(<<>>) = 0 /\ Logs(<<>>) = {}
        BY WritesAreTyped DEF Logs
    <2>3. QED BY <1>1, <2>1, <2>2
<1>2. CASE ~ RunIsKnown(id, r)
    <2>1. R = <<p>> \o <<q>> \o <<w>>
        BY <1>2 DEF RunWrites, Log, Put, Project
    <2>2. e \in Event /\ file \in Artifact
        <3>1. "run-manifest.json" \in FileName
            BY DEF FileName
        <3>2. QED BY <3>1, FilesAreTyped, EventsAreTyped
    <2>3. /\ p.to = "journal" /\ p.event = e /\ q.to = "artifact" /\ w.to = "reports"
          /\ p \in Writing /\ q \in Writing /\ w \in Writing
        BY <2>2 DEF Writing
    <2> HIDE DEF R, e, file, p, q, w
    <2>4. OneByOne(<<p>> \o <<q>> \o <<w>>, p, q, w)
        BY <2>3, ThreeByOne
    <2>5. OneByOne(R, p, q, w)
        BY <2>1, <2>4
    <2>6. R \in Seq(Writing) /\ Len(R) = 3 /\ R[1] = p /\ R[2] = q /\ R[3] = w
        BY <2>5 DEF OneByOne
    <2>7. DOMAIN R = 1..3
        BY <2>6
    <2>8. Logs(R) = {1}
        BY <2>3, <2>6, <2>7 DEF Logs
    <2>9. QED BY <1>2, <2>3, <2>6, <2>8 DEF R, e
<1>3. QED BY <1>1, <1>2

\* authorize_retry: the run is registered and the model set RUNNING again.
LEMMA RetryPlanned ==
    ASSUME Sound(journal, DOMAIN files), NEW id \in Registered(journal), NEW r \in RunSpec,
           NEW failed \in RunSpec, CanRetry(id, failed, r)
    PROVE  /\ Planned(journal, DOMAIN files, RetryWrites(id, failed, r))
           /\ RunRegistered(id, r) \in Recorded(journal, RetryWrites(id, failed, r))
<1> DEFINE f == RetryAuthorized(id, failed, r)
           e == StatusChanged(id, "INVALIDATED_TECHNICAL", "RUNNING")
           T == RetryWrites(id, failed, r)
           R == RunWrites(id, r)
           a == [to |-> "journal", event |-> f]
           c == [to |-> "journal", event |-> e]
           B == <<a>> \o R \o <<c>>
           n == Len(R) + 2
<1>1. f \in Event /\ e \in Event /\ id \in Nat
    <2>1. {"INVALIDATED_TECHNICAL", "RUNNING"} \subseteq ModelStatus
        BY DEF ModelStatus
    <2>2. QED BY <2>1, SoundReads, EventsAreTyped
<1>2. Restoring(f, e, id, "RUNNING")
    BY DEF Restoring, CanRetry, FrozenModel, RetryAuthorized
<1>3. /\ a.to = "journal" /\ a.event = f /\ c.to = "journal" /\ c.event = e
      /\ a \in Writing /\ c \in Writing
    BY <1>1 DEF Writing
<1>4. T = B \o Project
    BY DEF RetryWrites, Log
<1>5. /\ R \in Seq(Writing) /\ Len(R) \in Nat
      /\ RunIsKnown(id, r) => Logs(R) = {}
      /\ ~ RunIsKnown(id, r) => /\ Logs(R) = {1} /\ R[1].event = RunRegistered(id, r)
                                /\ Len(R) = 3
    BY <1>1, RunLogs
<1>0. RunIsKnown(id, r) => RunRegistered(id, r) \in Recorded(journal, T)
    <2>1. RunIsKnown(id, r) => RunRegistered(id, r) \in Recorded(journal, RunWrites(id, r))
        BY RunPlanned
    <2>2. RunIsKnown(id, r) => Recorded(journal, RunWrites(id, r)) \subseteq Recorded(journal, T)
        BY <1>5 DEF Recorded
    <2>3. QED BY <2>1, <2>2
<1> HIDE DEF f, e, T, R, a, c
<1>6. Around(B, a, R, c)
    BY <1>3, <1>5, JoinsAround
<1> HIDE DEF B
<1>7. B \in Seq(Writing) /\ B[1] = a /\ B[n] = c
    BY <1>6 DEF Around
<1>8. Logs(B) = {1, n} \cup {k + 1 : k \in Logs(R)} /\ \A k \in Logs(R) : B[k + 1] = R[k]
    BY <1>3, <1>5, <1>6, LogsAround
<1>9. Reported(B, <<>>, B \o Project)
    BY <1>7, JustReports
<1>10. Reported(B, <<>>, T)
    BY <1>4, <1>9
<1>11. KeepsEvents(B, T) /\ T \in Seq(Writing) /\ Logs(T) = Logs(B) /\ T # <<>> /\ T[Len(T)].to = "reports"
    BY <1>10, ThenReports DEF Reported
<1>12. \A k \in Logs(B) : T[k] = B[k]
    BY <1>11 DEF KeepsEvents
<1>13. Logs(T) \subseteq Nat /\ 1 \in Logs(T) /\ n \in Logs(T) /\ 1 < n
    <2>1. \A k \in Logs(R) : k = 1
        BY <1>5
    <2>2. QED BY <1>5, <1>8, <1>11, <2>1
<1>14. T[1].event = f /\ T[n].event = e
    BY <1>3, <1>7, <1>11, <1>12, <1>13
<1>15. ASSUME NEW k \in Logs(T), k # 1, k # n
       PROVE  k = 2 /\ T[k].event = RunRegistered(id, r) /\ ~ RunIsKnown(id, r)
    <2>1. PICK j \in Logs(R) : k = j + 1
        BY <1>8, <1>11, <1>15
    <2>2. j = 1 /\ ~ RunIsKnown(id, r) /\ R[1].event = RunRegistered(id, r)
        BY <1>5, <2>1
    <2>3. T[k] = R[1]
        BY <1>8, <1>11, <1>12, <2>1, <2>2
    <2>4. QED BY <2>1, <2>2, <2>3
<1>16. Restores(T, f, n, e, id, r)
    BY <1>11, <1>13, <1>14, <1>15 DEF Restores
<1>17. Planned(journal, DOMAIN files, T)
    BY <1>2, <1>16, RestorePlanned
<1>18. ~ RunIsKnown(id, r) => RunRegistered(id, r) \in Recorded(journal, T)
    <2>1. SUFFICES ASSUME ~ RunIsKnown(id, r) PROVE RunRegistered(id, r) \in Recorded(journal, T)
        OBVIOUS
    <2>2. 1 \in Logs(R) /\ R[1].event = RunRegistered(id, r)
        BY <1>5, <2>1
    <2>3. 2 \in Logs(T) /\ T[2] = R[1]
        BY <1>8, <1>11, <1>12, <2>2
    <2>4. QED BY <2>2, <2>3 DEF Recorded
<1>19. QED BY <1>0, <1>17, <1>18 DEF T

\* A promotion with its champion record, after the champion, if there is one,
\* was superseded.
Succeeds(T, m, id, r, prior) ==
    /\ T \in Seq(Writing) /\ T[Len(T)].to = "reports"
    /\ Logs(T) = 1..(m + 1)
    /\ T[m].event = PromotionRecorded(id, r, prior) /\ T[m + 1].event = ChampionRecorded(id, r, prior)
    /\ \/ m = 1 /\ prior = None
       \/ m = 2 /\ prior # None /\ T[1].event = StatusChanged(prior, "PROMOTED", "SUPERSEDED")

\* The champion is the only one recorded, and is PROMOTED.
LEMMA ChampionIsPromoted ==
    ASSUME NEW log, NEW disk, Sound(log, disk)
    PROVE  /\ \A i \in ChampionRecords(log) : log[i].model = Champion(log)
           /\ Champion(log) = None => ChampionRecords(log) = {}
           /\ Champion(log) # None =>
                  Champion(log) \in Nat /\ CurrentStatus(log, Champion(log)) = "PROMOTED"
           /\ Champion(log) \in Nat \cup {None}
<1> DEFINE S == ChampionRecords(log)
<1>1. log \in Seq(Event) /\ OneChampion(log) /\ Len(log) \in Nat /\ DOMAIN log = 1..Len(log)
    BY DEF Sound
<1>2. S \in SUBSET (1..Len(log))
      /\ \A i \in S : log[i].model \in Nat /\ CurrentStatus(log, log[i].model) = "PROMOTED"
    <2>1. \A i \in DOMAIN log : log[i].model \in Nat
        BY <1>1, EventIsOfModel
    <2>2. QED BY <1>1, <2>1 DEF ChampionRecords, Events
<1>3. \A i \in S : log[i].model = Champion(log)
    BY <1>1 DEF OneChampion
<1>4. CASE S = {}
    BY <1>4 DEF Champion
<1>5. CASE S # {}
    <2>1. PICK i \in S : TRUE
        BY <1>5
    <2>2. Champion(log) \in Nat /\ CurrentStatus(log, Champion(log)) = "PROMOTED"
        BY <1>2, <1>3, <2>1
    <2>3. QED BY <1>3, <2>2, RegistryAssumption
<1>6. QED BY <1>4, <1>5

\* The plan of a promotion is right.
LEMMA SuccessionPlanned ==
    ASSUME Sound(journal, DOMAIN files), NEW T, NEW m, NEW id \in Registered(journal), NEW r,
           CanPromote(id, r), Succeeds(T, m, id, r, Champion(journal))
    PROVE  Planned(journal, DOMAIN files, T)
<1> DEFINE prior == Champion(journal)
           g == PromotionRecorded(id, r, prior)
           h == ChampionRecorded(id, r, prior)
           e == StatusChanged(prior, "PROMOTED", "SUPERSEDED")
<1>1. /\ g.type = "PROMOTION_RECORDED" /\ g.model = id
      /\ h.type = "CHAMPION_RECORDED" /\ h.model = id
      /\ e.type = "STATUS_CHANGED" /\ e.model = prior /\ e.from = "PROMOTED" /\ e.to = "SUPERSEDED"
    BY DEF PromotionRecorded, ChampionRecorded, StatusChanged
<1>2. /\ \A i \in ChampionRecords(journal) : journal[i].model = prior
      /\ prior = None => ChampionRecords(journal) = {}
      /\ prior # None => CurrentStatus(journal, prior) = "PROMOTED"
    BY ChampionIsPromoted
<1>3. CurrentStatus(journal, id) = "EVALUATED" /\ prior # id
    BY DEF CanPromote
<1>4. "SUPERSEDED" \in AllowedTransitions["PROMOTED"]
    BY DEF AllowedTransitions, ModelStatus
<1> HIDE DEF prior, g, h, e
<1>5. /\ T \in Seq(Writing) /\ T[Len(T)].to = "reports"
      /\ m \in {1, 2} /\ Logs(T) = 1..(m + 1) /\ T[m].event = g /\ T[m + 1].event = h
      /\ m = 1 => prior = None
      /\ m = 2 => prior # None /\ T[1].event = e
    BY DEF Succeeds, prior, g, h, e
<1>6. ASSUME NEW k \in Logs(T)
      PROVE  \/ k = m /\ T[k].event = g
             \/ k = m + 1 /\ T[k].event = h
             \/ k = 1 /\ m = 2 /\ T[k].event = e
    BY <1>5
<1>7. StatusPlanned(journal, T)
    <2>1. ASSUME NEW k \in Logs(T)
          PROVE  /\ ChangesStatus(T[k].event) =>
                        \A j \in Logs(T) :
                            ChangesStatus(T[j].event) /\ T[j].event.model = T[k].event.model => j = k
                 /\ T[k].event.type = "PROMOTION_RECORDED" =>
                        CurrentStatus(journal, T[k].event.model) = "EVALUATED"
                 /\ T[k].event.type = "STATUS_CHANGED" =>
                        /\ T[k].event.from = CurrentStatus(journal, T[k].event.model)
                        /\ T[k].event.to # "PROMOTED" /\ Permitted(journal, T, k, T[k].event)
        <3>1. CASE k = m /\ T[k].event = g
            <4>1. ASSUME NEW j \in Logs(T), ChangesStatus(T[j].event), T[j].event.model = id
                  PROVE  j = k
                BY <1>1, <1>3, <1>6, <3>1, <4>1 DEF ChangesStatus
            <4>2. QED BY <1>1, <1>3, <3>1, <4>1
        <3>2. CASE k = m + 1 /\ T[k].event = h
            BY <1>1, <3>2 DEF ChangesStatus
        <3>3. CASE k = 1 /\ m = 2 /\ T[k].event = e
            <4>1. ASSUME NEW j \in Logs(T), ChangesStatus(T[j].event), T[j].event.model = prior
                  PROVE  j = k
                BY <1>1, <1>3, <1>6, <3>3, <4>1 DEF ChangesStatus
            <4>2. CurrentStatus(journal, prior) = "PROMOTED"
                BY <1>2, <1>5, <3>3
            <4>3. Permitted(journal, T, k, e)
                BY <1>1, <1>4 DEF Permitted
            <4>4. QED BY <1>1, <3>3, <4>1, <4>2, <4>3
        <3>4. QED BY <1>6, <3>1, <3>2, <3>3
    <2>2. QED BY <2>1 DEF StatusPlanned
<1>8. NewPlanned(journal, T)
    BY <1>1, <1>6 DEF NewPlanned
<1>9. EvidencePlanned(journal, DOMAIN files, T)
    BY <1>1, <1>6 DEF EvidencePlanned
<1>10. ChampionPlanned(journal, T)
    <2>1. ASSUME NEW k \in Logs(T), T[k].event.type = "PROMOTION_RECORDED"
          PROVE  /\ \A j \in Logs(T) : j < k => ~ Crowns(T[j].event)
                 /\ \A i \in ChampionRecords(journal) :
                     \E j \in Logs(T) : /\ j < k /\ T[j].event.type = "STATUS_CHANGED"
                                        /\ T[j].event.model = journal[i].model
        <3>1. k = m
            BY <1>1, <1>6, <2>1
        <3>2. ASSUME NEW j \in Logs(T), j < k PROVE ~ Crowns(T[j].event)
            <4>1. T[j].event = e
                BY <1>5, <1>6, <3>1, <3>2
            <4>2. QED BY <1>1, <4>1 DEF Crowns
        <3>3. ASSUME NEW i \in ChampionRecords(journal)
              PROVE  \E j \in Logs(T) : /\ j < k /\ T[j].event.type = "STATUS_CHANGED"
                                        /\ T[j].event.model = journal[i].model
            <4>1. prior # None /\ journal[i].model = prior
                BY <1>2
            <4>2. m = 2 /\ 1 \in Logs(T) /\ T[1].event = e
                BY <1>5, <4>1
            <4>3. QED BY <1>1, <3>1, <4>1, <4>2
        <3>4. QED BY <3>2, <3>3
    <2>2. ASSUME NEW k \in Logs(T), T[k].event.type = "CHAMPION_RECORDED"
          PROVE  /\ \A j \in Logs(T) :
                        j < k /\ Crowns(T[j].event) =>
                            /\ T[j].event.type = "PROMOTION_RECORDED"
                            /\ T[j].event.model = T[k].event.model
                 /\ \E j \in Logs(T) : /\ j < k /\ T[j].event.type = "PROMOTION_RECORDED"
                                       /\ T[j].event.model = T[k].event.model
        <3>1. k = m + 1 /\ T[k].event = h
            BY <1>1, <1>6, <2>2
        <3>2. ASSUME NEW j \in Logs(T), j < k, Crowns(T[j].event)
              PROVE  T[j].event.type = "PROMOTION_RECORDED" /\ T[j].event.model = T[k].event.model
            BY <1>1, <1>6, <3>1, <3>2 DEF Crowns
        <3>3. m \in Logs(T) /\ m < k
            BY <1>5, <3>1
        <3>4. QED BY <1>1, <1>5, <3>1, <3>2, <3>3
    <2>3. QED BY <2>1, <2>2 DEF ChampionPlanned
<1>11. QED BY <1>5, <1>7, <1>8, <1>9, <1>10 DEF Planned, ReportsPlanned

\* promote.
LEMMA PromotePlanned ==
    ASSUME Sound(journal, DOMAIN files), NEW id \in Registered(journal), NEW r \in RunSpec,
           CanPromote(id, r)
    PROVE  Planned(journal, DOMAIN files, PromoteWrites(id, r))
<1> DEFINE prior == Champion(journal)
           g == PromotionRecorded(id, r, prior)
           h == ChampionRecorded(id, r, prior)
           e == StatusChanged(prior, "PROMOTED", "SUPERSEDED")
           p == [to |-> "journal", event |-> g]
           q == [to |-> "journal", event |-> h]
           s == [to |-> "journal", event |-> e]
           w == [to |-> "reports"]
           T == PromoteWrites(id, r)
<1>1. id \in Nat /\ prior \in Nat \cup {None}
    BY SoundReads, ChampionIsPromoted
<1>2. g \in Event /\ h \in Event
    BY <1>1, EventsAreTyped
<1>3. /\ p.to = "journal" /\ p.event = g /\ q.to = "journal" /\ q.event = h
      /\ w.to = "reports" /\ p \in Writing /\ q \in Writing /\ w \in Writing
    BY <1>2 DEF Writing
<1>4. CASE prior = None
    <2>1. T = (<<>> \o <<p>>) \o <<q>> \o <<w>>
        BY <1>4 DEF PromoteWrites, Log, Project
    <2> HIDE DEF g, h, e, p, q, s, w, T, prior
    <2>2. <<p>> \in Seq(Writing)
        BY <1>3
    <2>3. <<>> \o <<p>> = <<p>>
        BY <2>2, ConcatEmptySeq
    <2>4. OneByOne(<<p>> \o <<q>> \o <<w>>, p, q, w)
        BY <1>3, ThreeByOne
    <2>5. OneByOne(T, p, q, w)
        BY <2>1, <2>3, <2>4
    <2>6. T \in Seq(Writing) /\ Len(T) = 3 /\ T[1] = p /\ T[2] = q /\ T[3] = w
        BY <2>5 DEF OneByOne
    <2>7. DOMAIN T = 1..3
        BY <2>6
    <2>8. Logs(T) = 1..2
        BY <1>3, <2>6, <2>7 DEF Logs
    <2>9. Succeeds(T, 1, id, r, prior)
        BY <1>3, <1>4, <2>6, <2>8 DEF Succeeds, g, h
    <2>10. QED BY <2>9, SuccessionPlanned DEF T, prior
<1>5. CASE prior # None
    <2> DEFINE A == <<s>> \o <<p>> \o <<q>>
    <2>1. T = A \o Project
        BY <1>5 DEF PromoteWrites, Log
    <2>2. e \in Event
        <3>1. {"PROMOTED", "SUPERSEDED"} \subseteq ModelStatus
            BY DEF ModelStatus
        <3>2. QED BY <1>1, <1>5, <3>1, EventsAreTyped
    <2>3. s.to = "journal" /\ s.event = e /\ s \in Writing
        BY <2>2 DEF Writing
    <2> HIDE DEF g, h, e, p, q, s, w, T, prior
    <2>4. OneByOne(A, s, p, q)
        BY <1>3, <2>3, ThreeByOne
    <2> HIDE DEF A
    <2>5. A \in Seq(Writing) /\ Len(A) = 3 /\ A[1] = s /\ A[2] = p /\ A[3] = q
        BY <2>4 DEF OneByOne
    <2>6. DOMAIN A = 1..3
        BY <2>5
    <2>7. Logs(A) = 1..3
        BY <1>3, <2>3, <2>5, <2>6 DEF Logs
    <2>8. Reported(A, <<>>, A \o Project)
        BY <2>5, JustReports
    <2>9. Reported(A, <<>>, T)
        BY <2>1, <2>8
    <2>10. KeepsEvents(A, T) /\ T \in Seq(Writing) /\ Logs(T) = Logs(A) /\ T[Len(T)].to = "reports"
        BY <2>9, ThenReports
    <2>11. T[1] = s /\ T[2] = p /\ T[3] = q
        BY <2>5, <2>7, <2>10 DEF KeepsEvents
    <2>12. Succeeds(T, 2, id, r, prior)
        BY <1>3, <1>5, <2>3, <2>7, <2>10, <2>11 DEF Succeeds, g, h, e
    <2>13. QED BY <2>12, SuccessionPlanned DEF T, prior
<1>6. QED BY <1>4, <1>5

-----------------------------------------------------------------------------
(* E. Every step keeps the invariant.                                      *)

\* The write reaches the registry.
LEMMA WriteKeepsRegistry ==
    ASSUME RegistryIsSound, Write
    PROVE  /\ RegistryIsSound'
           /\ Rest(todo, todo') /\ Moves(journal, todo, journal') /\ DOMAIN files \subseteq DOMAIN files'
           /\ 1 \in Puts(todo) => todo[1].file \in DOMAIN files'
<1> DEFINE w == todo[1]
<1>1. /\ todo \in Seq(Writing) /\ journal \in Seq(Event) /\ DOMAIN files \subseteq Artifact
      /\ Len(journal) \in Nat /\ bound.events \in Nat /\ projected \in 0..Len(journal)
    BY DEF RegistryIsSound, Planned, Sound
<1>2. Rest(todo, todo')
    BY <1>1 DEF Rest, Write
<1>3. 1 \in DOMAIN todo /\ w \in Writing /\ Head(todo) = w
    BY <1>2, RestIsShorter
<1>4. /\ w.to \in {"journal", "artifact", "reports"}
      /\ w.to = "journal" => w.event \in Event
      /\ w.to = "artifact" => w.file \in Artifact
    BY <1>3, WritingIsTyped
<1>5. /\ 1 \in Logs(todo) <=> w.to = "journal"
      /\ 1 \in Puts(todo) <=> w.to = "artifact"
    BY <1>3 DEF Logs, Puts
<1> HIDE DEF w
<1>6. /\ journal' = IF w.to = "journal" THEN Append(journal, w.event) ELSE journal
      /\ files' = IF w.to # "artifact" THEN files
                  ELSE [f \in DOMAIN files \cup {w.file} |-> IF f = w.file THEN w.content ELSE files[f]]
      /\ projected' = IF w.to = "reports" THEN Len(journal) ELSE projected
      /\ interrupted' = (interrupted /\ w.to # "reports")
      /\ bound' = bound
    BY <1>3 DEF Write
<1>7. Moves(journal, todo, journal')
    BY <1>1, <1>4, <1>5, <1>6 DEF Moves, Grows, w
<1>8. /\ DOMAIN files \subseteq DOMAIN files' /\ DOMAIN files' \subseteq Artifact
      /\ w.to = "artifact" => w.file \in DOMAIN files'
    <2>1. CASE w.to = "artifact"
        <3>1. DOMAIN files' = DOMAIN files \cup {w.file}
            BY <1>6, <2>1
        <3>2. QED BY <1>1, <1>4, <2>1, <3>1
    <2>2. CASE w.to # "artifact"
        BY <1>1, <1>6, <2>2
    <2>3. QED BY <2>1, <2>2
<1>9. Sound(journal', DOMAIN files') /\ Planned(journal', DOMAIN files', todo')
    BY <1>2, <1>7, <1>8, WriteIsSound DEF RegistryIsSound
<1>10. /\ Cardinality(Logs(todo')) \in Nat
       /\ Cardinality(Logs(todo)) = Cardinality(Logs(todo')) + (IF w.to = "journal" THEN 1 ELSE 0)
    BY <1>2, <1>5, LogsCount
<1>11. Len(journal') = Len(journal) + (IF w.to = "journal" THEN 1 ELSE 0)
    BY <1>1, <1>4, <1>6
<1>12. Fits(todo)'
    <2>1. Len(journal) + Cardinality(Logs(todo)) <= bound.events
        BY DEF RegistryIsSound, Fits
    <2>2. Len(journal') + Cardinality(Logs(todo')) <= bound'.events
        BY <1>1, <1>6, <1>10, <1>11, <2>1
    <2>3. QED BY <2>2 DEF Fits, Logs
<1>13. projected' \in 0..Len(journal') /\ interrupted' \in BOOLEAN
    <2>1. projected' \in 0..Len(journal')
        BY <1>1, <1>6, <1>11
    <2>2. interrupted' \in BOOLEAN
        BY <1>6 DEF RegistryIsSound
    <2>3. QED BY <2>1, <2>2
<1>14. ReportsFollow'
    <2>1. CASE w.to = "reports"
        <3>1. projected' = Len(journal')
            BY <1>6, <2>1
        <3>2. QED BY <3>1 DEF ReportsFollow
    <2>2. CASE w.to # "reports"
        <3>1. ASSUME todo[Len(todo)].to = "reports"
              PROVE  todo' # <<>> /\ todo'[Len(todo')].to = "reports"
            <4>1. Len(todo) \in Nat /\ DOMAIN todo = 1..Len(todo) /\ Len(todo') = Len(todo) - 1
                  /\ todo' \in Seq(Writing)
                BY <1>1, <1>2, RestIsShorter
            <4>2. Len(todo) # 1
                BY <2>2, <3>1 DEF w
            <4>3. Len(todo') \in 1..Len(todo') /\ DOMAIN todo' = 1..Len(todo')
                BY <1>3, <4>1, <4>2
            <4>4. todo'[Len(todo')] = todo[Len(todo') + 1]
                BY <1>2, <4>3, RestOfWrites
            <4>5. Len(todo') + 1 = Len(todo)
                BY <4>1
            <4>6. todo' # <<>>
                BY <4>3
            <4>7. QED BY <3>1, <4>4, <4>5, <4>6
        <3>2. CASE w.to = "journal"
            <4>1. todo[Len(todo)].to = "reports"
                BY <1>5, <3>2 DEF RegistryIsSound, Planned, ReportsPlanned
            <4>2. QED BY <3>1, <4>1 DEF ReportsFollow
        <3>3. CASE w.to = "artifact"
            <4>1. journal' = journal /\ projected' = projected /\ interrupted' = interrupted
                <5>1. journal' = journal /\ projected' = projected
                    BY <1>6, <3>3
                <5>2. interrupted' = interrupted
                    BY <1>6, <3>3 DEF RegistryIsSound
                <5>3. QED BY <5>1, <5>2
            <4>2. interrupted \/ projected = Len(journal) \/ todo[Len(todo)].to = "reports"
                BY DEF RegistryIsSound, ReportsFollow
            <4>3. QED BY <3>1, <4>1, <4>2 DEF ReportsFollow
        <3>4. QED BY <1>4, <2>2, <3>2, <3>3
    <2>3. QED BY <2>1, <2>2
<1>15. bound'.events \in Nat
    BY <1>1, <1>6
<1>16. RegistryIsSound'
    BY <1>9, <1>12, <1>13, <1>14, <1>15 DEF RegistryIsSound, Sound, Planned, StatusPlanned, NewPlanned,
       EvidencePlanned, ChampionPlanned, ReportsPlanned
<1>17. QED BY <1>2, <1>5, <1>7, <1>8, <1>16 DEF w

\* Nothing of the registry changes but what is left to write.
KeepsRegistry == UNCHANGED <<journal, files, projected, interrupted, bound>>

\* An operation whose plan is right begins.
LEMMA BeginKeepsRegistry ==
    ASSUME RegistryIsSound, todo = <<>>, KeepsRegistry, NEW writes, todo' = writes, Fits(writes),
           Planned(journal, DOMAIN files, writes)
    PROVE  RegistryIsSound'
<1>1. /\ journal' = journal /\ files' = files /\ projected' = projected
      /\ interrupted' = interrupted /\ bound' = bound
    BY DEF KeepsRegistry
<1>2. Fits(todo)'
    BY <1>1 DEF Fits, Logs
<1>3. Sound(journal', DOMAIN files') /\ Planned(journal', DOMAIN files', todo')
    BY <1>1 DEF RegistryIsSound
<1>4. ReportsFollow'
    BY <1>1 DEF RegistryIsSound, ReportsFollow
<1>5. /\ bound'.events \in Nat /\ projected' \in 0..Len(journal') /\ interrupted' \in BOOLEAN
    BY <1>1 DEF RegistryIsSound
<1>6. QED BY <1>2, <1>3, <1>4, <1>5 DEF RegistryIsSound, Sound, Planned, StatusPlanned, NewPlanned,
       EvidencePlanned, ChampionPlanned, ReportsPlanned

\* Begin is such a step.
LEMMA BeginBegins ==
    ASSUME NEW writes, Begin(writes)
    PROVE  todo = <<>> /\ KeepsRegistry /\ todo' = writes /\ Fits(writes)
BY DEF Begin, KeepsRegistry

\* The registry stays as it is.
LEMMA SameRegistry ==
    ASSUME RegistryIsSound, UNCHANGED registryVars
    PROVE  RegistryIsSound'
<1>1. /\ journal' = journal /\ files' = files /\ projected' = projected /\ todo' = todo
      /\ interrupted' = interrupted /\ bound' = bound
    BY DEF registryVars
<1>2. Fits(todo)'
    BY <1>1 DEF RegistryIsSound, Fits, Logs
<1>3. Sound(journal', DOMAIN files') /\ Planned(journal', DOMAIN files', todo')
    BY <1>1 DEF RegistryIsSound
<1>4. ReportsFollow'
    BY <1>1 DEF RegistryIsSound, ReportsFollow
<1>5. /\ bound'.events \in Nat /\ projected' \in 0..Len(journal') /\ interrupted' \in BOOLEAN
    BY <1>1 DEF RegistryIsSound
<1>6. QED BY <1>2, <1>3, <1>4, <1>5 DEF RegistryIsSound, Sound, Planned, StatusPlanned, NewPlanned,
       EvidencePlanned, ChampionPlanned, ReportsPlanned

\* There is room for no event.
LEMMA NothingFits ==
    ASSUME RegistryIsSound
    PROVE  Fits(<<>>) /\ Planned(journal, DOMAIN files, <<>>)
<1>1. <<>> \in Seq(Writing) /\ Logs(<<>>) = {}
    BY WritesAreTyped DEF Logs
<1>2. Cardinality(Logs(<<>>)) = 0
    BY <1>1, FS_EmptySet
<1>3. Cardinality(Logs(todo)) \in Nat
    <2>1. todo \in Seq(Writing)
        BY DEF RegistryIsSound, Planned
    <2>2. Logs(todo) \in SUBSET (1..Len(todo)) /\ Len(todo) \in Nat
        BY <2>1, WritesAreNumbered
    <2>3. IsFiniteSet(1..Len(todo))
        BY <2>2, FS_Interval
    <2>4. IsFiniteSet(Logs(todo))
        BY <2>2, <2>3, FS_Subset
    <2>5. QED BY <2>4, FS_CardinalityType
<1>4. Len(journal) \in Nat /\ bound.events \in Nat
      /\ Len(journal) + Cardinality(Logs(todo)) <= bound.events
    BY DEF RegistryIsSound, Sound, Fits
<1>5. Len(journal) + 0 <= bound.events
    BY <1>3, <1>4
<1>6. Fits(<<>>)
    BY <1>2, <1>5 DEF Fits
<1>7. QED BY <1>1, <1>6, NothingPlanned

\* What was left is left undone.
LEMMA AbandonKeepsRegistry ==
    ASSUME RegistryIsSound, Abandon
    PROVE  RegistryIsSound'
<1>1. /\ journal' = journal /\ files' = files /\ projected' = projected /\ todo' = <<>>
      /\ interrupted' = (interrupted \/ todo # <<>>) /\ bound' = bound
    BY DEF Abandon
<1>2. Fits(<<>>) /\ Planned(journal, DOMAIN files, <<>>)
    BY NothingFits
<1>3. Fits(todo)'
    BY <1>1, <1>2 DEF Fits, Logs
<1>4. Sound(journal', DOMAIN files') /\ Planned(journal', DOMAIN files', todo')
    BY <1>1, <1>2 DEF RegistryIsSound
<1>5. ReportsFollow'
    BY <1>1 DEF RegistryIsSound, ReportsFollow
<1>6. /\ bound'.events \in Nat /\ projected' \in 0..Len(journal') /\ interrupted' \in BOOLEAN
    BY <1>1 DEF RegistryIsSound
<1>7. QED BY <1>3, <1>4, <1>5, <1>6 DEF RegistryIsSound, Sound, Planned, StatusPlanned, NewPlanned,
       EvidencePlanned, ChampionPlanned, ReportsPlanned

\* The failure of a run is written instead of what was left.
LEMMA FailureKeepsRegistry ==
    ASSUME RegistryIsSound, NEW writes, Planned(journal, DOMAIN files, writes), Fits(writes),
           writes # <<>>, writes[Len(writes)].to = "reports",
           todo' = writes, interrupted' = (interrupted \/ todo # <<>>),
           UNCHANGED <<journal, files, projected, bound>>
    PROVE  RegistryIsSound'
<1>1. /\ journal' = journal /\ files' = files /\ projected' = projected /\ bound' = bound
    OBVIOUS
<1>2. Fits(todo)'
    BY <1>1 DEF Fits, Logs
<1>3. Sound(journal', DOMAIN files') /\ Planned(journal', DOMAIN files', todo')
    BY <1>1 DEF RegistryIsSound
<1>4. ReportsFollow'
    BY <1>1 DEF ReportsFollow
<1>5. /\ bound'.events \in Nat /\ projected' \in 0..Len(journal') /\ interrupted' \in BOOLEAN
    BY <1>1 DEF RegistryIsSound
<1>6. QED BY <1>2, <1>3, <1>4, <1>5 DEF RegistryIsSound, Sound, Planned, StatusPlanned, NewPlanned,
       EvidencePlanned, ChampionPlanned, ReportsPlanned

\* Between two operations what is recorded is in the journal.
LEMMA NothingLeft ==
    ASSUME NEW log \in Seq(Event), NEW disk
    PROVE  /\ Stored(disk, <<>>) = disk
           /\ Recorded(log, <<>>) = {log[i] : i \in DOMAIN log}
           /\ \A id, r : RunRegistered(id, r) \in Recorded(log, <<>>) => r \in RunsOf(log, id)
<1>1. Stored(disk, <<>>) = disk
    BY DEF Stored, Puts
<1>2. Recorded(log, <<>>) = {log[i] : i \in DOMAIN log}
    BY DEF Recorded, Logs
<1>3. ASSUME NEW id, NEW r, RunRegistered(id, r) \in Recorded(log, <<>>) PROVE r \in RunsOf(log, id)
    <2>1. PICK i \in DOMAIN log : log[i] = RunRegistered(id, r)
        BY <1>2, <1>3
    <2>2. log[i].type = "RUN_REGISTERED" /\ log[i].model = id /\ log[i].run = r
        BY <2>1 DEF RunRegistered
    <2>3. i \in EventsOf(log, "RUN_REGISTERED", id)
        BY <2>2 DEF EventsOf, Events
    <2>4. QED BY <2>2, <2>3 DEF RunsOf
<1>4. QED BY <1>1, <1>2, <1>3

\* A run that was evaluated is the evidence of its model.
LEMMA EvaluatedIsEvidence ==
    ASSUME IInv, todo = <<>>, pc \in {"evaluated", "recorded"}
    PROVE  HasEvidence(journal, DOMAIN files, model)
<1>1. journal \in Seq(Event)
    BY DEF IInv, RegistryIsSound, Sound
<1>2. /\ run \in RunsOf(journal, model)
      /\ RunFile(model, run, "completed-replay.json") \in DOMAIN files
    BY DEF IInv, FlowKnows
<1>3. PICK analysis \in Commit :
          /\ EvaluationRecorded(model, run, analysis) \in Recorded(journal, <<>>)
          /\ \A n \in DOMAIN EvaluationFiles :
                 File(model, run, analysis, EvaluationFiles[n]) \in Stored(DOMAIN files, <<>>)
    BY DEF IInv, FlowKnows
<1>4. PICK i \in DOMAIN journal : journal[i] = EvaluationRecorded(model, run, analysis)
    BY <1>1, <1>3, NothingLeft
<1>5. journal[i].type = "EVALUATION_RECORDED" /\ journal[i].model = model
      /\ journal[i].run = run /\ journal[i].analysis = analysis
    BY <1>4 DEF EvaluationRecorded
<1>6. i \in EventsOf(journal, "EVALUATION_RECORDED", model)
    BY <1>5 DEF EventsOf, Events
<1>7. \A n \in DOMAIN EvaluationFiles :
          File(model, run, analysis, EvaluationFiles[n]) \in DOMAIN files
    BY <1>1, <1>3, NothingLeft
<1>8. QED BY <1>2, <1>5, <1>6, <1>7 DEF HasEvidence

\* What _run_one knows it still knows after a write.
LEMMA WriteKeepsFlow ==
    ASSUME IInv, Write, UNCHANGED flowVars
    PROVE  FlowTyped' /\ FlowKnows(journal, DOMAIN files, todo)'
<1>1. /\ Rest(todo, todo') /\ Moves(journal, todo, journal') /\ DOMAIN files \subseteq DOMAIN files'
      /\ 1 \in Puts(todo) => todo[1].file \in DOMAIN files'
    BY WriteKeepsRegistry DEF IInv
<1>2. pc' = pc /\ model' = model /\ seen' = seen /\ run' = run /\ head' = head /\ lock' = lock
    BY DEF flowVars
<1>3. \A id : RunsOf(journal, id) \subseteq RunsOf(journal', id) /\ Registered(journal) \subseteq Registered(journal')
    BY <1>1, GrownRuns DEF Moves
<1>4. Recorded(journal, todo) \subseteq Recorded(journal', todo')
    BY <1>1, RecordedStays
<1>5. Stored(DOMAIN files, todo) \subseteq Stored(DOMAIN files', todo')
    BY <1>1, StoredStays
<1>6. FlowTyped'
    <2>1. FlowTyped
        BY DEF IInv
    <2>2. IF pc' = "idle" THEN model' = None /\ run' = NoRun
          ELSE model' \in Registered(journal') /\ run' \in RunSpec
        BY <1>2, <1>3, <2>1 DEF FlowTyped
    <2>3. lock' \in BOOLEAN /\ pc' \in Step /\ head' \in Commit /\ seen' \in ModelStatus \cup {None}
        BY <1>2, <2>1 DEF FlowTyped
    <2>4. QED BY <2>2, <2>3 DEF FlowTyped, Registered, Events
<1>7. /\ pc' = "run" => RunRegistered(model', run') \in Recorded(journal', todo')
      /\ pc' \in {"running", "computed", "evaluated", "recorded"} => run' \in RunsOf(journal', model')
      /\ pc' = "computed" =>
             RunFile(model', run', "completed-replay.json") \in Stored(DOMAIN files', todo')
    BY <1>2, <1>3, <1>4, <1>5 DEF IInv, FlowKnows
<1>8. pc' \in {"evaluated", "recorded"} =>
          /\ RunFile(model', run', "completed-replay.json") \in DOMAIN files'
          /\ \E analysis \in Commit :
                /\ EvaluationRecorded(model', run', analysis) \in Recorded(journal', todo')
                /\ \A n \in DOMAIN EvaluationFiles :
                       File(model', run', analysis, EvaluationFiles[n]) \in Stored(DOMAIN files', todo')
    <2>1. HAVE pc' \in {"evaluated", "recorded"}
    <2>2. pc \in {"evaluated", "recorded"}
        BY <1>2, <2>1
    <2>3. /\ RunFile(model, run, "completed-replay.json") \in DOMAIN files
          /\ \E analysis \in Commit :
                /\ EvaluationRecorded(model, run, analysis) \in Recorded(journal, todo)
                /\ \A n \in DOMAIN EvaluationFiles :
                       File(model, run, analysis, EvaluationFiles[n]) \in Stored(DOMAIN files, todo)
        BY <2>2 DEF IInv, FlowKnows
    <2>4. QED BY <1>1, <1>2, <1>4, <1>5, <2>3
<1>9. FlowKnows(journal, DOMAIN files, todo)'
    BY <1>7, <1>8 DEF FlowKnows, Recorded, Stored, Logs, Puts, RunsOf, EventsOf, Events
<1>10. QED BY <1>6, <1>9

\* Between two campaigns there is nothing to know.
LEMMA IdleKnows ==
    ASSUME pc' = "idle"
    PROVE  FlowKnows(journal, DOMAIN files, todo)'
BY DEF FlowKnows

\* No campaign is under way.
LEMMA IdleKeepsFlow ==
    ASSUME pc' = "idle", model' = None, run' = NoRun, seen' \in ModelStatus \cup {None},
           lock' \in BOOLEAN, head' \in Commit
    PROVE  FlowTyped' /\ FlowKnows(journal, DOMAIN files, todo)'
BY IdleKnows DEF FlowTyped, Step

\* What the invariant says between two operations.
LEMMA AtRest ==
    ASSUME IInv
    PROVE  /\ RegistryIsSound /\ FlowTyped /\ Sound(journal, DOMAIN files)
           /\ journal \in Seq(Event) /\ Registered(journal) \subseteq Nat
           /\ \A id : RunsOf(journal, id) \subseteq RunSpec
BY SoundReads DEF IInv, RegistryIsSound

\* Between campaigns an operation of the researcher begins.
LEMMA ResearcherBegins ==
    ASSUME IInv, Idle, NEW writes, Begin(writes), UNCHANGED flowVars,
           Planned(journal, DOMAIN files, writes)
    PROVE  IInv'
<1>1. RegistryIsSound'
    <2>1. RegistryIsSound
        BY AtRest
    <2>2. todo = <<>> /\ KeepsRegistry /\ todo' = writes /\ Fits(writes)
        BY BeginBegins
    <2>3. QED BY <2>1, <2>2, BeginKeepsRegistry
<1>2. pc' = "idle" /\ model' = None /\ run' = NoRun /\ seen' \in ModelStatus \cup {None}
      /\ lock' \in BOOLEAN /\ head' \in Commit
    BY DEF Idle, flowVars, IInv, FlowTyped
<1>3. FlowTyped' /\ FlowKnows(journal, DOMAIN files, todo)'
    BY <1>2, IdleKeepsFlow
<1>4. QED BY <1>1, <1>3 DEF IInv

\* A researcher registers a configuration.
LEMMA RegistersKeeps ==
    ASSUME IInv, NEW config \in Config, NEW parent \in Registered(journal) \cup {None},
           Registers(config, parent)
    PROVE  IInv'
<1>1. Planned(journal, DOMAIN files, RegisterWrites(config, parent))
    BY AtRest, RegisterPlanned
<1>2. QED BY <1>1, ResearcherBegins DEF Registers, Register

\* A decision rejects a model, leaves it inconclusive or supersedes it.
LEMMA DecidesKeeps ==
    ASSUME IInv, NEW id \in Registered(journal), NEW to \in ModelStatus, Decides(id, to)
    PROVE  IInv'
<1>1. Idle /\ CanTransition(id, to) /\ to # "EVALUATED" /\ Begin(TransitionWrites(id, to))
      /\ UNCHANGED flowVars
    BY DEF Decides, Transition
<1>2. Planned(journal, DOMAIN files, TransitionWrites(id, to))
    BY <1>1, AtRest, TransitionPlanned
<1>3. QED BY <1>1, <1>2, ResearcherBegins

\* A promoted result turns out to be a technical fault.
LEMMA InvalidatesKeeps ==
    ASSUME IInv, NEW id \in Registered(journal), Invalidates(id)
    PROVE  IInv'
<1>1. Idle /\ CanTransition(id, "INVALIDATED_TECHNICAL")
      /\ Begin(TransitionWrites(id, "INVALIDATED_TECHNICAL")) /\ UNCHANGED flowVars
    BY DEF Invalidates, Transition
<1>2. Planned(journal, DOMAIN files, TransitionWrites(id, "INVALIDATED_TECHNICAL"))
    BY <1>1, AtRest, TransitionPlanned
<1>3. QED BY <1>1, <1>2, ResearcherBegins

\* A model with a registered run is promoted.
LEMMA PromotesKeeps ==
    ASSUME IInv, NEW id \in Registered(journal), Promotes(id)
    PROVE  IInv'
<1>1. PICK r \in RunsOf(journal, id) : Promote(id, r)
    BY DEF Promotes
<1>2. r \in RunSpec
    BY AtRest
<1>3. Planned(journal, DOMAIN files, PromoteWrites(id, r))
    BY <1>1, <1>2, AtRest, PromotePlanned DEF Promote
<1>4. Idle /\ Begin(PromoteWrites(id, r)) /\ UNCHANGED flowVars
    BY <1>1 DEF Promotes, Promote
<1>5. QED BY <1>3, <1>4, ResearcherBegins

\* Another commit is checked out: the registry does not notice.
LEMMA PublishesKeeps ==
    ASSUME IInv, NEW commit \in Commit, Publishes(commit)
    PROVE  IInv'
<1>1. RegistryIsSound'
    BY AtRest, SameRegistry DEF Publishes
<1>2. /\ pc' = "idle" /\ model' = None /\ run' = NoRun /\ seen' \in ModelStatus \cup {None}
      /\ lock' \in BOOLEAN /\ head' \in Commit
    BY DEF Publishes, Idle, IInv, FlowTyped
<1>3. FlowTyped' /\ FlowKnows(journal, DOMAIN files, todo)'
    BY <1>2, IdleKeepsFlow
<1>4. QED BY <1>1, <1>3 DEF IInv

\* The lock file of a killed process is removed by hand.
LEMMA RemovesLockKeeps ==
    ASSUME IInv, RemovesLock
    PROVE  IInv'
<1>1. RegistryIsSound'
    BY AtRest, SameRegistry DEF RemovesLock
<1>2. /\ pc' = "idle" /\ model' = None /\ run' = NoRun /\ seen' \in ModelStatus \cup {None}
      /\ lock' \in BOOLEAN /\ head' \in Commit
    BY DEF RemovesLock, Idle, IInv, FlowTyped
<1>3. FlowTyped' /\ FlowKnows(journal, DOMAIN files, todo)'
    BY <1>2, IdleKeepsFlow
<1>4. QED BY <1>1, <1>3 DEF IInv

\* A step of _run_one: an operation begins and the model and its run stay.
Continues(step, writes) ==
    /\ Begin(writes) /\ pc' = step
    /\ UNCHANGED <<model, seen, run, head, lock>>

\* A planned operation keeps the registry sound and the campaign where it was.
LEMMA ContinuesKeeps ==
    ASSUME IInv, NEW step \in Step \ {"idle"}, NEW writes, Continues(step, writes),
           pc # "idle",
           Planned(journal, DOMAIN files, writes)
    PROVE  /\ RegistryIsSound' /\ FlowTyped'
           /\ journal' = journal /\ files' = files /\ todo' = writes /\ pc' = step
           /\ model' = model /\ run' = run
<1>1. Begin(writes) /\ pc' = step /\ UNCHANGED <<model, seen, run, head, lock>>
    BY DEF Continues
<1>2. todo = <<>> /\ KeepsRegistry /\ todo' = writes /\ Fits(writes)
    BY <1>1, BeginBegins
<1>3. RegistryIsSound /\ FlowTyped
    BY DEF IInv
<1>4. RegistryIsSound'
    BY <1>2, <1>3, BeginKeepsRegistry
<1>5. journal' = journal /\ files' = files
    BY <1>2 DEF KeepsRegistry
<1>6. model \in Registered(journal) /\ run \in RunSpec
    BY <1>3 DEF FlowTyped
<1>7. FlowTyped'
    <2>1. model' \in Registered(journal') /\ run' \in RunSpec
        BY <1>1, <1>5, <1>6
    <2>2. lock' \in BOOLEAN /\ pc' \in Step /\ head' \in Commit /\ seen' \in ModelStatus \cup {None}
        BY <1>1, <1>3 DEF FlowTyped
    <2>3. pc' # "idle" \/ (model' = None /\ run' = NoRun)
        BY <1>1
    <2>4. QED BY <2>1, <2>2, <2>3 DEF FlowTyped, Registered, Events
<1>8. QED BY <1>1, <1>2, <1>4, <1>5, <1>7

\* Who campaigns.
LEMMA Campaigning ==
    ASSUME IInv, pc # "idle"
    PROVE  /\ model \in Registered(journal) /\ run \in RunSpec /\ model \in Nat
           /\ run.commit \in Commit /\ head \in Commit
BY AtRest DEF FlowTyped, RunSpec

\* _append_or_retry_run on a model that is not invalidated.
LEMMA RegistersRunKeeps ==
    ASSUME IInv, RegistersRun
    PROVE  IInv'
<1>1. pc # "idle" /\ Continues("run", RunWrites(model, run)) /\ "run" \in Step \ {"idle"}
    BY DEF RegistersRun, At, Continues, Goto, Step
<1>2. /\ Planned(journal, DOMAIN files, RunWrites(model, run))
      /\ RunRegistered(model, run) \in Recorded(journal, RunWrites(model, run))
    BY <1>1, AtRest, Campaigning, RunPlanned
<1>3. /\ RegistryIsSound' /\ FlowTyped' /\ journal' = journal /\ files' = files
      /\ todo' = RunWrites(model, run) /\ pc' = "run" /\ model' = model /\ run' = run
    BY <1>1, <1>2, ContinuesKeeps
<1>4. RunRegistered(model', run') \in Recorded(journal', todo')
    BY <1>2, <1>3
<1>5. FlowKnows(journal, DOMAIN files, todo)'
    BY <1>3, <1>4 DEF FlowKnows, Recorded, Logs
<1>6. QED BY <1>3, <1>5 DEF IInv

\* _append_or_retry_run retries an invalidated M010.
LEMMA RetriesRunKeeps ==
    ASSUME IInv, RetriesRun
    PROVE  IInv'
<1>1. PICK failed \in RunsOf(journal, model) :
          CanRetry(model, failed, run) /\ Begin(RetryWrites(model, failed, run))
    BY DEF RetriesRun
<1> DEFINE T == RetryWrites(model, failed, run)
<1>2. pc # "idle" /\ Continues("run", T) /\ "run" \in Step \ {"idle"}
    BY <1>1 DEF RetriesRun, At, Continues, Goto, Step
<1>3. failed \in RunSpec
    BY AtRest
<1>4. Planned(journal, DOMAIN files, T) /\ RunRegistered(model, run) \in Recorded(journal, T)
    BY <1>1, <1>2, <1>3, AtRest, Campaigning, RetryPlanned
<1> HIDE DEF T
<1>5. /\ RegistryIsSound' /\ FlowTyped' /\ journal' = journal /\ files' = files
      /\ todo' = T /\ pc' = "run" /\ model' = model /\ run' = run
    BY <1>2, <1>4, ContinuesKeeps
<1>6. RunRegistered(model', run') \in Recorded(journal', todo')
    BY <1>4, <1>5
<1>7. FlowKnows(journal, DOMAIN files, todo)'
    BY <1>5, <1>6 DEF FlowKnows, Recorded, Logs
<1>8. QED BY <1>5, <1>7 DEF IInv

\* The campaign of the model ends with nothing written.
LEMMA EndsKeeps ==
    ASSUME IInv, Done, UNCHANGED registryVars
    PROVE  IInv'
<1>1. RegistryIsSound'
    BY AtRest, SameRegistry
<1>2. /\ pc' = "idle" /\ model' = None /\ run' = NoRun /\ seen' \in ModelStatus \cup {None}
      /\ lock' \in BOOLEAN /\ head' \in Commit
    BY DEF Done, IInv, FlowTyped
<1>3. FlowTyped' /\ FlowKnows(journal, DOMAIN files, todo)'
    BY <1>2, IdleKeepsFlow
<1>4. QED BY <1>1, <1>3 DEF IInv

\* RUNNING is recorded: the run has been registered by now.
LEMMA BeginsReplayKeeps ==
    ASSUME IInv, BeginsReplay
    PROVE  IInv'
<1>1. pc = "run" /\ todo = <<>> /\ pc' = "running" /\ UNCHANGED <<model, seen, run, head, lock>>
    BY DEF BeginsReplay, At, Goto
<1>2. run \in RunsOf(journal, model)
    BY <1>1, AtRest, NothingLeft DEF IInv, FlowKnows
<1>3. /\ RegistryIsSound' /\ FlowTyped' /\ journal' = journal
      /\ pc' = "running" /\ model' = model /\ run' = run
    <2>1. CASE seen \in {"CREATED", "INCONCLUSIVE"}
        <3>1. CanTransition(model, "RUNNING") /\ Continues("running", TransitionWrites(model, "RUNNING"))
            BY <2>1 DEF BeginsReplay, Continues, Goto
        <3>2. "running" \in Step \ {"idle"} /\ pc # "idle"
            BY <1>1 DEF Step
        <3>3. Planned(journal, DOMAIN files, TransitionWrites(model, "RUNNING"))
            BY <3>1, <3>2, AtRest, Campaigning, TransitionPlanned
        <3>4. QED BY <3>1, <3>2, <3>3, ContinuesKeeps
    <2>2. CASE seen \notin {"CREATED", "INCONCLUSIVE"}
        <3>1. UNCHANGED registryVars
            BY <2>2 DEF BeginsReplay
        <3>2. RegistryIsSound' /\ journal' = journal
            BY <3>1, AtRest, SameRegistry DEF registryVars
        <3>3. model \in Registered(journal) /\ run \in RunSpec /\ FlowTyped
            BY <1>1, Campaigning DEF IInv
        <3>4. FlowTyped'
            BY <1>1, <3>2, <3>3 DEF FlowTyped, Step, Registered, Events
        <3>5. QED BY <1>1, <3>2, <3>4
    <2>3. QED BY <2>1, <2>2
<1>4. run' \in RunsOf(journal', model')
    BY <1>2, <1>3
<1>5. FlowKnows(journal, DOMAIN files, todo)'
    BY <1>3, <1>4 DEF FlowKnows, RunsOf, EventsOf, Events
<1>6. QED BY <1>3, <1>5 DEF IInv

\* The replay is on disk, or will be.
LEMMA ComputesKeeps ==
    ASSUME IInv, Computes
    PROVE  IInv'
<1> DEFINE file == RunFile(model, run, "completed-replay.json")
           T == IF CompletedReplay(model, run) THEN <<>> ELSE Put(file, "written")
<1>1. pc = "running" /\ pc # "idle" /\ Continues("computed", T) /\ "computed" \in Step \ {"idle"}
    BY DEF Computes, At, Continues, Goto, Step
<1>2. run \in RunsOf(journal, model)
    BY <1>1 DEF IInv, FlowKnows
<1>3. file \in Artifact
    <2>1. "completed-replay.json" \in FileName
        BY DEF FileName
    <2>2. QED BY <1>1, <2>1, Campaigning, FilesAreTyped
<1>4. Planned(journal, DOMAIN files, T) /\ file \in Stored(DOMAIN files, T)
    <2>1. CASE CompletedReplay(model, run)
        <3>1. T = <<>> /\ file \in DOMAIN files
            BY <2>1 DEF CompletedReplay
        <3>2. QED BY <3>1, AtRest, NothingFits, NothingLeft
    <2>2. CASE ~ CompletedReplay(model, run)
        <3>1. T = Put(file, "written")
            BY <2>2
        <3> HIDE DEF T, file
        <3>2. "written" \in FailureKind \cup {"written"}
            OBVIOUS
        <3>3. QED BY <1>3, <3>1, <3>2, PutPlanned
    <2>3. QED BY <2>1, <2>2
<1> HIDE DEF T
<1>5. /\ RegistryIsSound' /\ FlowTyped' /\ journal' = journal /\ files' = files
      /\ todo' = T /\ pc' = "computed" /\ model' = model /\ run' = run
    BY <1>1, <1>4, ContinuesKeeps
<1>6. /\ run' \in RunsOf(journal', model')
      /\ RunFile(model', run', "completed-replay.json") \in Stored(DOMAIN files', todo')
    BY <1>2, <1>4, <1>5
<1>7. FlowKnows(journal, DOMAIN files, todo)'
    BY <1>5, <1>6 DEF FlowKnows, RunsOf, EventsOf, Events, Stored, Puts
<1>8. QED BY <1>5, <1>7 DEF IInv

\* What an evaluation leaves known: the replay is on disk, the evaluation and
\* its artifacts are written, or will be.
Evaluated(log, disk, writes, id, r, analysis) ==
    /\ RunFile(id, r, "completed-replay.json") \in disk
    /\ EvaluationRecorded(id, r, analysis) \in Recorded(log, writes)
    /\ \A n \in DOMAIN EvaluationFiles :
           File(id, r, analysis, EvaluationFiles[n]) \in Stored(disk, writes)

\* With an evaluation of its run the campaign knows what it relies on.
LEMMA EvaluatedIsKnown ==
    ASSUME pc' \in {"evaluated", "recorded"}, run' \in RunsOf(journal', model'),
           NEW analysis \in Commit,
           Evaluated(journal', DOMAIN files', todo', model', run', analysis)
    PROVE  FlowKnows(journal, DOMAIN files, todo)'
<1>1. /\ RunFile(model', run', "completed-replay.json") \in DOMAIN files'
      /\ \E a \in Commit :
            /\ EvaluationRecorded(model', run', a) \in Recorded(journal', todo')
            /\ \A n \in DOMAIN EvaluationFiles :
                   File(model', run', a, EvaluationFiles[n]) \in Stored(DOMAIN files', todo')
    BY DEF Evaluated
<1>2. pc' # "run" /\ pc' # "computed"
    OBVIOUS
<1>3. QED BY <1>1, <1>2 DEF FlowKnows, RunsOf, EventsOf, Events, Recorded, Logs, Stored, Puts

\* The evaluation of the replay is recorded with its artifacts.
LEMMA EvaluatesKeeps ==
    ASSUME IInv, Evaluates
    PROVE  IInv'
<1> DEFINE T == EvaluationWrites(model, run, run.commit)
<1>1. pc = "computed" /\ pc # "idle" /\ todo = <<>> /\ Continues("evaluated", T)
      /\ "evaluated" \in Step \ {"idle"}
    BY DEF Evaluates, At, Continues, Goto, Step
<1>2. run \in RunsOf(journal, model)
    BY <1>1 DEF IInv, FlowKnows
<1>3. RunFile(model, run, "completed-replay.json") \in DOMAIN files
    <2>1. RunFile(model, run, "completed-replay.json") \in Stored(DOMAIN files, <<>>)
        BY <1>1 DEF IInv, FlowKnows
    <2>2. QED BY <2>1, AtRest, NothingLeft
<1>4. run.commit \in Commit /\ model \in Nat /\ run \in RunSpec
    BY <1>1, Campaigning
<1>5. Planned(journal, DOMAIN files, T)
    BY <1>4, EvaluationPlanned
<1>6. Evaluated(journal, DOMAIN files, T, model, run, run.commit)
    BY <1>3, <1>4, EvaluationPlanned DEF Evaluated
<1> HIDE DEF T
<1>7. /\ RegistryIsSound' /\ FlowTyped' /\ journal' = journal /\ files' = files
      /\ todo' = T /\ pc' = "evaluated" /\ model' = model /\ run' = run
    BY <1>1, <1>5, ContinuesKeeps
<1>8. Evaluated(journal', DOMAIN files', todo', model', run', run.commit)
    BY <1>6, <1>7
<1>9. FlowKnows(journal, DOMAIN files, todo)'
    BY <1>2, <1>4, <1>7, <1>8, EvaluatedIsKnown
<1>10. QED BY <1>7, <1>9 DEF IInv

\* EVALUATED is recorded: the evidence is all there by now.
LEMMA RecordsEvaluatedKeeps ==
    ASSUME IInv, RecordsEvaluated
    PROVE  IInv'
<1> DEFINE T == TransitionWrites(model, "EVALUATED")
<1>1. /\ pc = "evaluated" /\ pc # "idle" /\ todo = <<>> /\ Continues("finished", T)
      /\ CanTransition(model, "EVALUATED") /\ "finished" \in Step \ {"idle"}
    BY DEF RecordsEvaluated, At, Continues, Goto, Step
<1>2. HasEvidence(journal, DOMAIN files, model)
    BY <1>1, EvaluatedIsEvidence
<1>3. Planned(journal, DOMAIN files, T)
    BY <1>1, <1>2, AtRest, Campaigning, TransitionPlanned
<1>4. RegistryIsSound' /\ FlowTyped' /\ pc' = "finished"
    BY <1>1, <1>3, ContinuesKeeps
<1>5. FlowKnows(journal, DOMAIN files, todo)'
    BY <1>4 DEF FlowKnows
<1>6. QED BY <1>4, <1>5 DEF IInv

\* complete_recovery ends the invalidation of an evaluated M010.
LEMMA SealsRecoveryKeeps ==
    ASSUME IInv, SealsRecovery
    PROVE  IInv'
<1> DEFINE T == RecoveryWrites(model, run, head)
<1>1. /\ pc = "recorded" /\ pc # "idle" /\ todo = <<>> /\ Continues("recovered", T)
      /\ CanCompleteRecovery(model, run, head) /\ "recovered" \in Step \ {"idle"}
    BY DEF SealsRecovery, At, Continues, Goto, Step
<1>2. HasEvidence(journal, DOMAIN files, model)
    BY <1>1, EvaluatedIsEvidence
<1>3. Planned(journal, DOMAIN files, T)
    BY <1>1, <1>2, AtRest, Campaigning, RecoveryPlanned
<1>4. RegistryIsSound' /\ FlowTyped' /\ pc' = "recovered"
    BY <1>1, <1>3, ContinuesKeeps
<1>5. FlowKnows(journal, DOMAIN files, todo)'
    BY <1>4 DEF FlowKnows
<1>6. QED BY <1>4, <1>5 DEF IInv

\* A campaign begins with an operation on the model.
LEMMA CampaignBegins ==
    ASSUME IInv, Idle, NEW id \in Registered(journal), NEW r \in RunSpec, NEW writes,
           Fits(writes), Planned(journal, DOMAIN files, writes), todo' = writes, KeepsRegistry,
           NEW step \in Step \ {"idle"}, pc' = step, model' = id, run' = r,
           seen' \in ModelStatus, lock' = TRUE, head' = head
    PROVE  RegistryIsSound' /\ FlowTyped' /\ journal' = journal /\ files' = files
<1>1. todo = <<>> /\ RegistryIsSound /\ FlowTyped
    BY DEF Idle, IInv
<1>2. RegistryIsSound'
    BY <1>1, BeginKeepsRegistry
<1>3. journal' = journal /\ files' = files
    BY DEF KeepsRegistry
<1>4. FlowTyped'
    <2>1. model' \in Registered(journal') /\ run' \in RunSpec /\ pc' # "idle"
        BY <1>3
    <2>2. lock' \in BOOLEAN /\ pc' \in Step /\ head' \in Commit /\ seen' \in ModelStatus \cup {None}
        BY <1>1 DEF FlowTyped
    <2>3. QED BY <2>1, <2>2 DEF FlowTyped, Registered, Events
<1>5. QED BY <1>2, <1>3, <1>4

\* _run_one begins with the scenario.
LEMMA StartsKeeps ==
    ASSUME IInv, NEW id \in Registered(journal), NEW scenario \in Scenario, Starts(id, scenario)
    PROVE  IInv'
<1> DEFINE T == ScenarioWrites(id, scenario)
           r == [scenario |-> scenario, commit |-> head]
<1>1. /\ Idle /\ Fits(T) /\ todo' = T /\ KeepsRegistry /\ pc' = "scenario" /\ model' = id
      /\ run' = r /\ lock' = TRUE /\ head' = head /\ seen' = CurrentStatus(journal, id)
    BY DEF Starts, KeepsRegistry
<1>2. Planned(journal, DOMAIN files, T)
    BY AtRest, ScenarioPlanned
<1>3. r \in RunSpec
    BY AtRest DEF FlowTyped, RunSpec
<1>4. seen' \in ModelStatus
    BY <1>1, AtRest, StatusTyped
<1>5. "scenario" \in Step \ {"idle"}
    BY DEF Step
<1> HIDE DEF T, r
<1>6. RegistryIsSound' /\ FlowTyped'
    BY <1>1, <1>2, <1>3, <1>4, <1>5, CampaignBegins
<1>7. FlowKnows(journal, DOMAIN files, todo)'
    BY <1>1 DEF FlowKnows
<1>8. QED BY <1>6, <1>7 DEF IInv

\* _recover_m010_postprocessing evaluates a stored replay again.
LEMMA RecoversKeeps ==
    ASSUME IInv, NEW id \in Registered(journal), Recovers(id)
    PROVE  IInv'
<1> DEFINE last == LatestRun(journal, id)
           T == EvaluationWrites(id, last, head)
           S == EventsOf(journal, "RUN_REGISTERED", id)
<1>1. /\ Idle /\ Fits(T) /\ todo' = T /\ KeepsRegistry /\ pc' = "recorded" /\ model' = id
      /\ run' = last /\ lock' = TRUE /\ head' = head /\ seen' = "INVALIDATED_TECHNICAL"
      /\ Recoverable(id)
    BY DEF Recovers, KeepsRegistry
<1>2. last \in RunsOf(journal, id)
    <2>1. journal \in Seq(Event) /\ Len(journal) \in Nat /\ DOMAIN journal = 1..Len(journal)
        BY AtRest
    <2>2. S \in SUBSET (1..Len(journal)) /\ S # {}
        BY <1>1, <2>1 DEF Recoverable, RunsOf, EventsOf, Events
    <2>3. Latest(S) \in S
        BY <2>1, <2>2, LatestIsLast
    <2>4. QED BY <2>3 DEF RunsOf, LatestRun
<1>3. last \in RunSpec /\ id \in Nat /\ head \in Commit
    BY <1>2, AtRest DEF FlowTyped
<1>4. RunFile(id, last, "completed-replay.json") \in DOMAIN files
    BY <1>1 DEF Recoverable, CompletedReplay
<1>5. Planned(journal, DOMAIN files, T)
    BY <1>3, EvaluationPlanned
<1>6. Evaluated(journal, DOMAIN files, T, id, last, head)
    BY <1>3, <1>4, EvaluationPlanned DEF Evaluated
<1>7. "recorded" \in Step \ {"idle"} /\ seen' \in ModelStatus
    BY <1>1 DEF Step, ModelStatus
<1> HIDE DEF T, last
<1>8. RegistryIsSound' /\ FlowTyped' /\ journal' = journal /\ files' = files
    BY <1>1, <1>3, <1>5, <1>7, CampaignBegins
<1>9. Evaluated(journal', DOMAIN files', todo', model', run', head)
    BY <1>1, <1>6, <1>8
<1>10. run' \in RunsOf(journal', model') /\ pc' \in {"evaluated", "recorded"}
    BY <1>1, <1>2, <1>8
<1>11. FlowKnows(journal, DOMAIN files, todo)'
    BY <1>3, <1>9, <1>10, EvaluatedIsKnown
<1>12. QED BY <1>8, <1>11 DEF IInv

\* Something is raised in the try block, also in the middle of a write.
LEMMA FailsKeeps ==
    ASSUME IInv, NEW kind \in FailureKind, Fails(kind)
    PROVE  IInv'
<1> DEFINE T == Put(RunFile(model, run, "technical-failure.json"), kind)
                \o TransitionWrites(model, "INVALIDATED_TECHNICAL")
<1>1. /\ Guarded /\ CanTransition(model, "INVALIDATED_TECHNICAL") /\ Fits(T) /\ todo' = T
      /\ interrupted' = (interrupted \/ todo # <<>>)
      /\ UNCHANGED <<journal, files, projected, bound>>
      /\ UNCHANGED <<model, seen, run, head, lock>> /\ pc' = "failing"
    BY DEF Fails, Goto
<1>2. pc # "idle"
    BY <1>1 DEF Guarded
<1>3. Planned(journal, DOMAIN files, T) /\ T # <<>> /\ T[Len(T)].to = "reports"
    BY <1>1, <1>2, AtRest, Campaigning, FailurePlanned
<1> HIDE DEF T
<1>4. RegistryIsSound'
    BY <1>1, <1>3, AtRest, FailureKeepsRegistry
<1>5. FlowTyped'
    <2>1. model \in Registered(journal) /\ run \in RunSpec
        BY <1>2, Campaigning
    <2>2. model' \in Registered(journal') /\ run' \in RunSpec /\ pc' # "idle"
        BY <1>1, <2>1
    <2>3. lock' \in BOOLEAN /\ pc' \in Step /\ head' \in Commit /\ seen' \in ModelStatus \cup {None}
        BY <1>1, AtRest DEF FlowTyped, Step
    <2>4. QED BY <2>2, <2>3 DEF FlowTyped, Registered, Events
<1>6. FlowKnows(journal, DOMAIN files, todo)'
    BY <1>1 DEF FlowKnows
<1>7. QED BY <1>4, <1>5, <1>6 DEF IInv

\* What was left is left undone, and the process ends.
LEMMA AbandonKeeps ==
    ASSUME IInv, Abandon, pc' = "idle", model' = None, seen' = None, run' = NoRun,
           lock' \in BOOLEAN, head' = head
    PROVE  IInv'
<1>1. RegistryIsSound'
    BY AtRest, AbandonKeepsRegistry
<1>2. seen' \in ModelStatus \cup {None} /\ head' \in Commit
    BY AtRest DEF FlowTyped
<1>3. FlowTyped' /\ FlowKnows(journal, DOMAIN files, todo)'
    BY <1>2, IdleKeepsFlow
<1>4. QED BY <1>1, <1>3 DEF IInv

\* Something is raised, and writing it down raises too.
LEMMA FailsUnrecordedKeeps ==
    ASSUME IInv, FailsUnrecorded
    PROVE  IInv'
BY AbandonKeeps DEF FailsUnrecorded, Done

\* The process is killed.
LEMMA CrashKeeps ==
    ASSUME IInv, Crash
    PROVE  IInv'
<1>1. lock' \in BOOLEAN
    BY AtRest DEF Crash, FlowTyped
<1>2. QED BY <1>1, AbandonKeeps DEF Crash

\* One write reaches the disk.
LEMMA WriteKeeps ==
    ASSUME IInv, Write, UNCHANGED flowVars
    PROVE  IInv'
BY WriteKeepsRegistry, WriteKeepsFlow DEF IInv

\* Nothing changes.
LEMMA StutterKeeps ==
    ASSUME IInv, UNCHANGED vars
    PROVE  IInv'
BY DEF IInv, vars, registryVars, flowVars, RegistryIsSound, FlowTyped, FlowKnows, Fits, Logs, Sound,
   Planned, ReportsFollow, StatusPlanned, NewPlanned, EvidencePlanned, ChampionPlanned, ReportsPlanned,
   Registered, Events, RunsOf, EventsOf, Recorded, Stored, Puts

\* Every step of a researcher or a campaign, every write and every crash keeps
\* the invariant.
LEMMA NextKeeps ==
    ASSUME IInv, [Next]_vars
    PROVE  IInv'
<1>1. ASSUME Researcher PROVE IInv'
    <2>1. ASSUME NEW config \in Config, NEW parent \in Registered(journal) \cup {None},
                 Registers(config, parent)
          PROVE  IInv'
        BY <2>1, RegistersKeeps
    <2>2. ASSUME NEW id \in Registered(journal), Promotes(id) \/ Invalidates(id) PROVE IInv'
        BY <2>2, PromotesKeeps, InvalidatesKeeps
    <2>3. ASSUME NEW id \in Registered(journal), NEW to \in ModelStatus, Decides(id, to) PROVE IInv'
        BY <2>3, DecidesKeeps
    <2>4. ASSUME NEW commit \in Commit, Publishes(commit) PROVE IInv'
        BY <2>4, PublishesKeeps
    <2>5. ASSUME RemovesLock PROVE IInv'
        BY <2>5, RemovesLockKeeps
    <2>6. QED BY <1>1, <2>1, <2>2, <2>3, <2>4, <2>5 DEF Researcher
<1>2. ASSUME Campaign PROVE IInv'
    <2>1. ASSUME NEW id \in Registered(journal), Recovers(id) \/ \E s \in Scenario : Starts(id, s)
          PROVE  IInv'
        BY <2>1, RecoversKeeps, StartsKeeps
    <2>2. ASSUME RegistersRun \/ RetriesRun PROVE IInv'
        BY <2>2, RegistersRunKeeps, RetriesRunKeeps
    <2>3. ASSUME RetryRefused \/ Finishes \/ RecoveryRefused PROVE IInv'
        BY <2>3, EndsKeeps DEF RetryRefused, Finishes, RecoveryRefused
    <2>4. ASSUME BeginsReplay \/ Computes \/ Evaluates \/ RecordsEvaluated \/ SealsRecovery
          PROVE  IInv'
        BY <2>4, BeginsReplayKeeps, ComputesKeeps, EvaluatesKeeps, RecordsEvaluatedKeeps,
           SealsRecoveryKeeps
    <2>5. ASSUME FailsUnrecorded \/ \E kind \in FailureKind : Fails(kind) PROVE IInv'
        BY <2>5, FailsUnrecordedKeeps, FailsKeeps
    <2>6. QED BY <1>2, <2>1, <2>2, <2>3, <2>4, <2>5 DEF Campaign
<1>3. QED BY <1>1, <1>2, WriteKeeps, CrashKeeps, StutterKeeps DEF Next

\* A process that finds what the program left begins with the invariant.
LEMMA InitIsSound ==
    ASSUME Init
    PROVE  IInv
<1>1. PICK history \in History : RegistryInit(history)
    BY DEF Init
<1>2. /\ journal = history.journal /\ files = history.files /\ projected = Len(journal)
      /\ todo = <<>> /\ interrupted = FALSE /\ bound = history.bound
    BY <1>1 DEF RegistryInit
<1>3. LeftByTheProgram(history)
    BY HistoryAssumption
<1>4. /\ journal \in Seq(Event) /\ bound.events \in Nat /\ Len(journal) <= bound.events
      /\ DOMAIN files \subseteq Artifact
    BY <1>2, <1>3 DEF LeftByTheProgram
<1>5. Sound(journal, DOMAIN files)
    BY <1>2, <1>3 DEF LeftByTheProgram, Sound
<1>6. <<>> \in Seq(Writing) /\ Logs(<<>>) = {}
    BY WritesAreTyped DEF Logs
<1>7. Planned(journal, DOMAIN files, todo)
    BY <1>2, <1>6, NothingPlanned
<1>8. Fits(todo)
    <2>1. Cardinality(Logs(<<>>)) = 0
        BY <1>6, FS_EmptySet
    <2>2. Len(journal) + 0 <= bound.events
        BY <1>4
    <2>3. QED BY <1>2, <2>1, <2>2 DEF Fits
<1>9. projected \in 0..Len(journal) /\ interrupted \in BOOLEAN /\ ReportsFollow
    <2>1. Len(journal) \in Nat
        BY <1>4
    <2>2. projected \in 0..Len(journal)
        BY <1>2, <2>1
    <2>3. interrupted \in BOOLEAN /\ ReportsFollow
        BY <1>2 DEF ReportsFollow
    <2>4. QED BY <2>2, <2>3
<1>10. RegistryIsSound
    BY <1>4, <1>5, <1>7, <1>8, <1>9 DEF RegistryIsSound
<1>11. FlowTyped /\ FlowKnows(journal, DOMAIN files, todo)
    BY DEF Init, FlowTyped, FlowKnows, Step
<1>12. QED BY <1>10, <1>11 DEF IInv

\* The types follow from the invariant.
LEMMA InvariantIsTyped ==
    ASSUME IInv
    PROVE  TypeOK
<1>1. /\ journal \in Seq(Event) /\ DOMAIN files \subseteq Artifact /\ todo \in Seq(Writing)
      /\ projected \in 0..Len(journal) /\ interrupted \in BOOLEAN /\ bound.events \in Nat
      /\ Len(journal) + Cardinality(Logs(todo)) <= bound.events
    BY DEF IInv, RegistryIsSound, Sound, Planned, Fits
<1>2. Cardinality(Logs(todo)) \in Nat /\ Len(journal) \in Nat
    <2>1. Logs(todo) \in SUBSET (1..Len(todo)) /\ Len(todo) \in Nat
        BY <1>1, WritesAreNumbered
    <2>2. IsFiniteSet(1..Len(todo))
        BY <2>1, FS_Interval
    <2>3. IsFiniteSet(Logs(todo))
        BY <2>1, <2>2, FS_Subset
    <2>4. QED BY <1>1, <2>3, FS_CardinalityType
<1>3. Len(journal) <= bound.events
    BY <1>1, <1>2
<1>4. QED BY <1>1, <1>3 DEF IInv, FlowTyped, TypeOK

\* The invariant holds in every state: whatever is still to be written, the
\* journal and the files are right, and stay so wherever the writes are cut off.
THEOREM Invariant == Spec => []IInv
<1>1. Init => IInv
    BY InitIsSound
<1>2. IInv /\ [Next]_vars => IInv'
    BY NextKeeps
<1>3. QED BY <1>1, <1>2, PTL DEF Spec

\* The journal, the files, the writes and the workflow's variables have their types.
THEOREM TypeCorrect == Spec => []TypeOK
<1>1. IInv => TypeOK
    BY InvariantIsTyped
<1>2. QED BY <1>1, Invariant, PTL

\* Every change of status follows the table, nothing is registered twice, and
\* an operation that was not cut short leaves reports of the whole journal.
THEOREM JournalConsistent == Spec => []JournalIsConsistent
<1>1. IInv => JournalIsConsistent
    BY DEF IInv, RegistryIsSound, Sound, ReportsFollow, JournalIsConsistent, ReportsAreCurrent
<1>2. QED BY <1>1, Invariant, PTL

\* A model is EVALUATED or PROMOTED only with a registered run, its replay, its
\* evaluation and the artifacts of it on disk.
THEOREM EvaluationIsEvident == Spec => []EvaluatedHasEvidence
<1>1. IInv => EvaluatedHasEvidence
    BY DEF IInv, RegistryIsSound, Sound, EvaluatedHasEvidence
<1>2. QED BY <1>1, Invariant, PTL

\* Of the recorded champions at most one is still PROMOTED.
THEOREM OneChampionAtATime == Spec => []OneRecordedChampion
<1>1. IInv => OneRecordedChampion
    BY DEF IInv, RegistryIsSound, Sound, OneRecordedChampion
<1>2. QED BY <1>1, Invariant, PTL

\* What is there now, as a later process finds it.
Left == [journal |-> journal, files |-> files, bound |-> bound]

\* What the program leaves behind, cut off anywhere, is what HistoryAssumption
\* asks of the journals and files a process begins with.
THEOREM LeavesWhatItExpects == Spec => []LeftByTheProgram(Left)
<1>1. IInv => LeftByTheProgram(Left)
    BY InvariantIsTyped DEF IInv, RegistryIsSound, Sound, TypeOK, LeftByTheProgram, Left
<1>2. QED BY <1>1, Invariant, PTL

\* The first process finds nothing, and that is one of the things expected.
THEOREM NothingIsExpected ==
    ASSUME NEW files0, DOMAIN files0 = {}, NEW events \in Nat, NEW models
    PROVE  LeftByTheProgram([journal |-> <<>>, files |-> files0,
                             bound |-> [events |-> events, models |-> models]])
<1> DEFINE h == [journal |-> <<>>, files |-> files0,
                 bound |-> [events |-> events, models |-> models]]
<1>1. h.journal = <<>> /\ h.files = files0 /\ h.bound.events = events
    OBVIOUS
<1> HIDE DEF h
<1>2. <<>> \in Seq(Event) /\ Len(<<>>) = 0 /\ DOMAIN <<>> = {}
    OBVIOUS
<1>3. ChampionRecords(<<>>) = {}
    BY <1>2 DEF ChampionRecords, Events
<1>4. StatusesFollowTheTable(<<>>) /\ RegisteredOnce(<<>>) /\ EvidenceIn(<<>>, {}) /\ OneChampion(<<>>)
    BY <1>2, <1>3 DEF StatusesFollowTheTable, RegisteredOnce, EvidenceIn, OneChampion
<1>5. LeftByTheProgram(h)
    BY <1>1, <1>2, <1>4 DEF LeftByTheProgram
<1>6. QED BY <1>5 DEF h

=============================================================================
