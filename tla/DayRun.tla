------------------------------ MODULE DayRun ------------------------------
(***************************************************************************)
(* The one-shot day run (day_run.py).  A campaign directory holds frozen   *)
(* inputs and RUN_STATUS.json; CURRENT_STATE.md holds the authorization of *)
(* one campaign and the records of those that ran.  run_day_campaign is    *)
(* run by processes that may overlap and may be killed at any step; what   *)
(* keeps them apart is a lock file in the campaign directory and what the  *)
(* files say.                                                              *)
(*                                                                         *)
(* A version stands for all the frozen inputs of a campaign: job, model    *)
(* specification, strategy, tape and source commit.  Reading them is one   *)
(* step, validating them another.  Each campaign has its own model id and  *)
(* its own output directory.  A file is replaced atomically, and between   *)
(* two replacements anything may come, with two exceptions: the record is  *)
(* appended with the flag that says so, and the final status is written    *)
(* with the return of the run.  An interrupt within one of the two (a      *)
(* KeyboardInterrupt between two statements of the try block) is cut away. *)
(***************************************************************************)
EXTENDS Integers

CONSTANTS
    Process,        \* processes that run the CLI
    Campaign,       \* campaign directories
    Version,        \* contents of a campaign directory that pass validation
    Draft,          \* a content that does not
    None,
    MaxRejections,  \* bound: preflight rejections recorded in one status
    MaxEdits        \* bound: what the operator does

ASSUME DayRunAssumption ==
    /\ None \notin Campaign /\ None \notin Process
    /\ None \notin {"COMPLETED_GATE_FAIL", "COMPLETED_INCONCLUSIVE"}
    /\ MaxRejections \in Nat

VARIABLES
    pc, camp, inputs,   \* process -> where it is, its campaign, the inputs it read
    page,               \* process -> CURRENT_STATE.md as it read it
    frozen,             \* campaign -> its inputs on disk
    current,            \* CURRENT_STATE.md: authorization and day-run records
    status,             \* campaign -> RUN_STATUS.json
    lock,               \* campaign -> who made the claim lock file
    output,             \* campaign -> report files
    edits,              \* number of steps of the operator
    starts, discards,   \* history: campaign -> executions begun, removals by hand
    offered             \* history: process -> what CURRENT_STATE.md authorized since it took the lock

files == <<frozen, current, status, lock, output>>
memory == <<pc, camp, inputs, page>>
history == <<starts, discards, offered>>
vars == <<files, memory, edits, history>>

Completed == {"COMPLETED_GATE_FAIL", "COMPLETED_INCONCLUSIVE"}
Failed == {"FAILED_AFTER_CLAIM", "FINALIZATION_INCONSISTENT_REQUIRES_OPERATOR_REVIEW"}
Claimed == {"RUNNING", "FINALIZING_CURRENT_STATE"} \cup Completed \cup Failed
Unclaimed == {"ABSENT", "PREFLIGHT_REJECTED"}
Reports == {"SCENARIO", "SUMMARY", "AUDIT"}

\* Steps after the claim, all inside one try block.
Executing == {"running", "scenarios", "reported", "finalizing", "read", "recorded"}
\* From the status that claims the campaign to the end of its execution.
Active == Executing \cup {"marked"}
\* Steps with the lock file made: of a claim, which ends marked or refused,
\* and of a rejection, which ends rejected.
Locking == {"locked", "verify", "mark", "marked", "refused", "rejecting", "rejected"}
Step == {"idle", "preflight", "claim", "reject"} \cup Locking \cup Executing

Page == [authorized : (Campaign \X Version) \cup {None},
         record : [Campaign -> Completed \cup {None}]]

Init ==
    /\ pc = [p \in Process |-> "idle"]
    /\ camp = [p \in Process |-> None] /\ inputs = camp /\ page = camp
    /\ frozen = [c \in Campaign |-> Draft]
    /\ current = [authorized |-> None, record |-> [c \in Campaign |-> None]]
    /\ status = [c \in Campaign |-> [state |-> "ABSENT", rejections |-> 0]]
    /\ lock = [c \in Campaign |-> None]
    /\ output = [c \in Campaign |-> {}]
    /\ edits = 0
    /\ starts = [c \in Campaign |-> 0] /\ discards = starts
    /\ offered = [p \in Process |-> {}]

Goto(p, step) == pc' = [pc EXCEPT ![p] = step]
State(c) == status[c].state
SetState(c, state) == status' = [status EXCEPT ![c].state = state]

\* The process ends or raises.
Leaves(p) ==
    /\ Goto(p, "idle")
    /\ camp' = [camp EXCEPT ![p] = None]
    /\ inputs' = [inputs EXCEPT ![p] = None]
    /\ page' = [page EXCEPT ![p] = None]

-----------------------------------------------------------------------------
(* Preflight. *)

\* A claimed campaign is refused before anything is read.
Begins(p, c) ==
    /\ pc[p] = "idle" /\ State(c) \in Unclaimed
    /\ camp' = [camp EXCEPT ![p] = c]
    /\ inputs' = [inputs EXCEPT ![p] = frozen[c]]
    /\ Goto(p, "preflight")
    /\ UNCHANGED <<page, files, edits, history>>

Valid(c, version) ==
    /\ version \in Version
    /\ current.record[c] = None
    /\ current.authorized = <<c, version>>
    /\ output[c] = {}

Preflights(p) ==
    /\ pc[p] = "preflight"
    /\ Goto(p, IF Valid(camp[p], inputs[p]) THEN "claim" ELSE "reject")
    /\ UNCHANGED <<camp, inputs, page, files, edits, history>>

\* _record_preflight_rejection.  A lock file of somebody else raises.
LocksToReject(p) ==
    /\ pc[p] = "reject"
    /\ IF lock[camp[p]] = None
       THEN /\ lock' = [lock EXCEPT ![camp[p]] = p]
            /\ Goto(p, "rejecting") /\ UNCHANGED <<camp, inputs, page>>
       ELSE Leaves(p) /\ UNCHANGED lock
    /\ UNCHANGED <<frozen, current, status, output, edits, history>>

\* faulty: a rejection replaces whatever status there is
RejectsBlindly(p) ==
    LET c == camp[p] IN
    /\ pc[p] = "rejecting" /\ status[c].rejections < MaxRejections
    /\ status' = [status EXCEPT ![c].state = "PREFLIGHT_REJECTED", ![c].rejections = @ + 1]
    /\ Goto(p, "rejected")
    /\ UNCHANGED <<camp, inputs, page, frozen, current, lock, output, edits, history>>

Rejects(p) ==
    LET c == camp[p] IN
    /\ pc[p] = "rejecting" /\ status[c].rejections < MaxRejections
    /\ status' = IF State(c) \in Claimed THEN status
                 ELSE [status EXCEPT ![c].state = "PREFLIGHT_REJECTED",
                                     ![c].rejections = @ + 1]
    /\ Goto(p, "rejected")
    /\ UNCHANGED <<camp, inputs, page, frozen, current, lock, output, edits, history>>

-----------------------------------------------------------------------------
(* _claim_execution. *)

\* faulty: the lock file is opened, whoever made it
LocksAnyway(p) ==
    LET c == camp[p] IN
    /\ pc[p] = "claim"
    /\ lock' = [lock EXCEPT ![c] = p]
    /\ Goto(p, "locked")
    /\ offered' = [offered EXCEPT ![p] = {current.authorized}]
    /\ UNCHANGED <<camp, inputs, page, frozen, current, status, output, edits,
                   starts, discards>>

\* The lock file is made exclusively; under it the status is looked at again.
LocksToClaim(p) ==
    LET c == camp[p] IN
    /\ pc[p] = "claim"
    /\ IF lock[c] = None
       THEN /\ lock' = [lock EXCEPT ![c] = p]
            /\ Goto(p, "locked")
            /\ offered' = [offered EXCEPT ![p] = {current.authorized}]
       ELSE Goto(p, "reject") /\ UNCHANGED <<lock, offered>>
    /\ UNCHANGED <<camp, inputs, page, frozen, current, status, output, edits,
                   starts, discards>>

\* The prior status and the inputs are read; a claimed status and changed inputs raise.
Rereads(p) ==
    LET c == camp[p] IN
    /\ pc[p] = "locked"
    /\ IF State(c) \in Unclaimed /\ frozen[c] = inputs[p]
       THEN Goto(p, "verify") ELSE Goto(p, "refused")
    /\ UNCHANGED <<camp, inputs, page, files, edits, history>>

\* faulty: what preflight validated is not validated again
VerifiesNothing(p) ==
    /\ pc[p] = "verify"
    /\ Goto(p, "mark")
    /\ UNCHANGED <<camp, inputs, page, files, edits, history>>

\* _revalidate_before_claim.
Verifies(p) ==
    /\ pc[p] = "verify"
    /\ Goto(p, IF Valid(camp[p], inputs[p]) THEN "mark" ELSE "refused")
    /\ UNCHANGED <<camp, inputs, page, files, edits, history>>

\* The rejections recorded so far stay in the claimed status.
Claims(p) ==
    LET c == camp[p] IN
    /\ pc[p] = "mark"
    /\ SetState(c, "RUNNING")
    /\ starts' = [starts EXCEPT ![c] = @ + 1]
    /\ Goto(p, "marked")
    /\ UNCHANGED <<camp, inputs, page, frozen, current, lock, output, edits, discards, offered>>

-----------------------------------------------------------------------------
(* _exclusive_status_lock: the lock file goes, however its block is left. *)

Unlocks(p) ==
    /\ pc[p] \in {"marked", "refused", "rejected"}
    /\ lock' = [lock EXCEPT ![camp[p]] = None]
    /\ \/ /\ pc[p] = "marked" /\ Goto(p, "running")
          /\ UNCHANGED <<camp, inputs, page>>
       \/ /\ pc[p] = "refused" /\ Goto(p, "reject")
          /\ UNCHANGED <<camp, inputs, page>>
       \/ pc[p] = "rejected" /\ Leaves(p)
    /\ UNCHANGED <<frozen, current, status, output, edits, history>>

\* What is not a DayRunPreflightError is raised on, and recorded nowhere.
Raises(p) ==
    /\ pc[p] \in Locking
    /\ lock' = [lock EXCEPT ![camp[p]] = None]
    /\ Leaves(p)
    /\ UNCHANGED <<frozen, current, status, output, edits, history>>

-----------------------------------------------------------------------------
(* The execution.  A step that writes a status names the next one. *)

Executes(p, from, to) ==
    /\ pc[p] = from /\ Goto(p, to)
    /\ UNCHANGED <<camp, inputs, frozen, lock, edits, starts, discards>>

\* _run_scenarios and _write_reports; reports that are already there raise.
WritesScenarios(p) ==
    /\ Executes(p, "running", "scenarios")
    /\ output[camp[p]] = {}
    /\ output' = [output EXCEPT ![camp[p]] = {"SCENARIO"}]
    /\ UNCHANGED <<page, current, status, offered>>

WritesReports(p) ==
    /\ Executes(p, "scenarios", "reported")
    /\ output' = [output EXCEPT ![camp[p]] = Reports]
    /\ UNCHANGED <<page, current, status, offered>>

\* faulty: the status has the name of the phase, which no reader of it knows
FinalizesUnlisted(p) ==
    /\ Executes(p, "reported", "finalizing")
    /\ SetState(camp[p], "FINALIZING")
    /\ UNCHANGED <<page, current, output, offered>>

Finalizes(p) ==
    /\ Executes(p, "reported", "finalizing")
    /\ SetState(camp[p], "FINALIZING_CURRENT_STATE")
    /\ UNCHANGED <<page, current, output, offered>>

\* _append_current_state_record reads the whole file and replaces it; a
\* record that is already there raises.
ReadsCurrentState(p) ==
    /\ Executes(p, "finalizing", "read")
    /\ current.record[camp[p]] = None
    /\ page' = [page EXCEPT ![p] = current]
    /\ UNCHANGED <<current, status, output, offered>>

AppendsRecord(p, final) ==
    LET written == [page[p] EXCEPT !.record[camp[p]] = final] IN
    /\ Executes(p, "read", "recorded")
    /\ page' = [page EXCEPT ![p] = written]
    /\ current' = written
    /\ offered' = [q \in Process |-> offered[q] \cup {written.authorized}]
    /\ UNCHANGED <<status, output>>

\* The final status is the one that was recorded.
Completes(p) ==
    LET c == camp[p] IN
    /\ pc[p] = "recorded"
    /\ SetState(c, page[p].record[c])
    /\ Leaves(p)
    /\ UNCHANGED <<frozen, current, lock, output, edits, starts, discards, offered>>

\* faulty: the failure is named by how far finalization had come
FailsByPhase(p) ==
    /\ pc[p] \in Executing
    /\ SetState(camp[p], IF pc[p] \in {"finalizing", "read", "recorded"}
                         THEN "FINALIZATION_INCONSISTENT_REQUIRES_OPERATOR_REVIEW"
                         ELSE "FAILED_AFTER_CLAIM")
    /\ Leaves(p)
    /\ UNCHANGED <<frozen, current, lock, output, edits, history>>

\* Anything raised after the claim.
Fails(p) ==
    /\ pc[p] \in Executing
    /\ SetState(camp[p], IF pc[p] = "recorded"
                         THEN "FINALIZATION_INCONSISTENT_REQUIRES_OPERATOR_REVIEW"
                         ELSE "FAILED_AFTER_CLAIM")
    /\ Leaves(p)
    /\ UNCHANGED <<frozen, current, lock, output, edits, history>>

\* The process is killed; its lock file stays.
Killed(p) ==
    /\ pc[p] # "idle"
    /\ Leaves(p)
    /\ UNCHANGED <<files, edits, history>>

-----------------------------------------------------------------------------
(* The operator. *)

Edits == edits < MaxEdits /\ edits' = edits + 1

\* Inputs are frozen, or edited back into a draft.
Freezes(c, content) ==
    /\ Edits /\ content # frozen[c]
    /\ frozen' = [frozen EXCEPT ![c] = content]
    /\ UNCHANGED <<current, status, lock, output, memory, history>>

\* The head of CURRENT_STATE.md authorizes one campaign, or none.
Authorizes(authorization) ==
    /\ Edits /\ authorization # current.authorized
    /\ current' = [current EXCEPT !.authorized = authorization]
    /\ offered' = [p \in Process |-> offered[p] \cup {authorization}]
    /\ UNCHANGED <<frozen, status, lock, output, memory, starts, discards>>

\* "A leftover lock requires manual review."
RemovesLock(c) ==
    /\ lock[c] # None /\ pc[lock[c]] = "idle"
    /\ Edits
    /\ lock' = [lock EXCEPT ![c] = None]
    /\ UNCHANGED <<frozen, current, status, output, memory, history>>

\* The mutable files of a campaign nobody executes are removed.
Discards(c) ==
    /\ State(c) \in Claimed /\ (\A p \in Process : camp[p] = c => pc[p] \notin Active)
    /\ Edits
    /\ status' = [status EXCEPT ![c] = [state |-> "ABSENT", rejections |-> 0]]
    /\ output' = [output EXCEPT ![c] = {}]
    /\ discards' = [discards EXCEPT ![c] = @ + 1]
    /\ UNCHANGED <<frozen, current, lock, memory, starts, offered>>

Operator ==
    \/ \E c \in Campaign : RemovesLock(c) \/ Discards(c)
    \/ \E c \in Campaign, content \in Version \cup {Draft} : Freezes(c, content)
    \/ \E authorization \in (Campaign \X Version) \cup {None} : Authorizes(authorization)

Proceeds(p) ==
    \/ Preflights(p) \/ LocksToReject(p) \/ Rejects(p)
    \/ LocksToClaim(p) \/ Rereads(p) \/ Verifies(p) \/ Claims(p) \/ Unlocks(p)
    \/ WritesScenarios(p) \/ WritesReports(p) \/ Finalizes(p)
    \/ ReadsCurrentState(p) \/ (\E final \in Completed : AppendsRecord(p, final))
    \/ Completes(p)

Next ==
    \/ Operator
    \/ \E p \in Process :
        Proceeds(p) \/ Raises(p) \/ Fails(p) \/ Killed(p) \/ \E c \in Campaign : Begins(p, c)

Spec == Init /\ [][Next]_vars

-----------------------------------------------------------------------------
(* Properties. *)

\* The variables have their types; a process has a campaign while it runs.
TypeOK ==
    /\ pc \in [Process -> Step]
    /\ camp \in [Process -> Campaign \cup {None}]
    /\ inputs \in [Process -> Version \cup {Draft, None}]
    /\ page \in [Process -> Page \cup {None}]
    /\ \A p \in Process : (pc[p] = "idle") = (camp[p] = None)
    /\ frozen \in [Campaign -> Version \cup {Draft}] /\ current \in Page
    /\ status \in [Campaign -> [state : Claimed \cup Unclaimed, rejections : 0..MaxRejections]]
    /\ lock \in [Campaign -> Process \cup {None}]
    /\ output \in [Campaign -> SUBSET Reports]

\* A campaign is executed once: however many processes run it, are killed,
\* find its lock file or its rejections, only removing its files by hand opens
\* it again.
ExecutedOnce == \A c \in Campaign : starts[c] <= 1 + discards[c]

\* "A completed one-shot leaves an append-only record": nothing removes one.
RecordsAreAppendOnly ==
    [][\A c \in Campaign :
        current.record[c] # None => current'.record[c] = current.record[c]]_vars

\* A completed status has all the reports behind it, and a record that agrees.
CompletedHasEvidence ==
    \A c \in Campaign :
        State(c) \in Completed => output[c] = Reports /\ current.record[c] = State(c)

\* What a failed run leaves behind says whether its record was appended.
FailureTellsRecord ==
    \A c \in Campaign :
        /\ State(c) = "FAILED_AFTER_CLAIM" => current.record[c] = None
        /\ State(c) = "FINALIZATION_INCONSISTENT_REQUIRES_OPERATOR_REVIEW" =>
               current.record[c] # None

\* The status, the reports and the record tell the same outcome.
OutcomeIsEvident == CompletedHasEvidence /\ FailureTellsRecord

\* CURRENT_STATE.md authorized what is executed after its claim lock was taken,
\* and not only when preflight looked.
ExecutesTheAuthorized ==
    \A p \in Process : pc[p] \in Executing => <<camp[p], inputs[p]>> \in offered[p]

\* A status that says the campaign was claimed, or why it was rejected, is
\* never replaced by one that says less, unless it is removed by hand.
StatusIsEvidence ==
    \A c \in Campaign : discards'[c] = discards[c] =>
        /\ State(c) \in Claimed => status'[c].state \in Claimed
        /\ State(c) \in Completed \cup Failed => status'[c] = status[c]
        /\ status'[c].rejections >= status[c].rejections

\* A campaign with a record in CURRENT_STATE.md is not executed again, even if
\* its status and its reports are removed: the record is "independent from
\* mutable campaign status/output files".
RecordedStaysConsumed ==
    \A c \in Campaign : current.record[c] # None => starts'[c] = starts[c]

\* What says that a campaign has been run outlives what later runs do.
EvidenceIsKept == [][StatusIsEvidence /\ RecordedStaysConsumed]_vars
=============================================================================
