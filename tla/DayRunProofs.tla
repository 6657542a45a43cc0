---------------------------- MODULE DayRunProofs ----------------------------
(***************************************************************************)
(* A day-run campaign is executed once, for any number of processes and    *)
(* campaigns.  ExecutedOnce is not inductive: what makes it true is that   *)
(* the lock file is held from the claim's first look at the status to its  *)
(* last, and that a status which says the campaign is claimed stays so     *)
(* while the campaign is executed.                                         *)
(***************************************************************************)
EXTENDS DayRun, TLAPS

Underway == {"RUNNING", "FINALIZING_CURRENT_STATE"}
Authorization == (Campaign \X Version) \cup {None}

HistoryOK ==
    /\ starts \in [Campaign -> Nat] /\ discards \in [Campaign -> Nat]
    /\ offered \in [Process -> SUBSET Authorization]

\* Who is between taking the lock file and removing it has made it.
HoldsLock == \A p \in Process : pc[p] \in Locking => lock[camp[p]] = p

\* A claim about to be made finds the campaign unclaimed, and an execution
\* finds it under way.
StatusOfStep ==
    \A p \in Process :
        /\ pc[p] \in {"verify", "mark"} => State(camp[p]) \in Unclaimed
        /\ pc[p] \in Active => State(camp[p]) \in Underway

\* Every execution but the one the status tells of has been removed by hand.
StartsAreMarked ==
    \A c \in Campaign :
        starts[c] <= discards[c] + (IF State(c) \in Claimed THEN 1 ELSE 0)

\* What CURRENT_STATE.md authorizes while the lock is held is remembered.
AuthorizationIsOffered ==
    \A p \in Process :
        /\ pc[p] \in {"locked", "verify"} => current.authorized \in offered[p]
        /\ pc[p] \in {"mark"} \cup Active => <<camp[p], inputs[p]>> \in offered[p]

\* The page about to be written back has been read; once it is, it has the
\* final status.
PageIsRead ==
    \A p \in Process :
        /\ pc[p] \in {"read", "recorded"} => page[p] \in Page
        /\ pc[p] = "recorded" => page[p].record[camp[p]] \in Completed

\* Two processes do not execute one campaign.
Alone ==
    \A p, q \in Process :
        pc[p] \in Active /\ pc[q] \in Active /\ camp[p] = camp[q] => p = q

IInv == /\ TypeOK /\ HistoryOK /\ HoldsLock /\ StatusOfStep /\ StartsAreMarked
        /\ AuthorizationIsOffered /\ PageIsRead /\ Alone

\* Nothing has run, and nothing is frozen or authorized.
LEMMA InitEstablishes == Init => IInv
<1> SUFFICES ASSUME Init PROVE IInv
  OBVIOUS
<1> USE DayRunAssumption DEF Init
<1>1. \A p \in Process : pc[p] = "idle" /\ camp[p] = None /\ inputs[p] = None /\ page[p] = None
  OBVIOUS
<1>2. TypeOK
  <2>1. current \in Page
    BY DEF Page
  <2>2. pc \in [Process -> Step]
    BY DEF Step, Locking
  <2>3. status \in [Campaign -> [state : Claimed \cup Unclaimed, rejections : 0..MaxRejections]]
    BY DEF Unclaimed
  <2> QED
    BY <1>1, <2>1, <2>2, <2>3 DEF TypeOK
<1>3. HistoryOK
  BY DEF HistoryOK
<1>4. HoldsLock /\ StatusOfStep /\ AuthorizationIsOffered /\ PageIsRead /\ Alone
  BY <1>1
  DEF HoldsLock, StatusOfStep, AuthorizationIsOffered, PageIsRead, Alone, Locking, Executing,
      Active
<1>5. StartsAreMarked
  BY DEF StartsAreMarked, State, Claimed, Completed, Failed
<1> QED
  BY <1>2, <1>3, <1>4, <1>5 DEF IInv

\* What a step of a process does to its own memory has its types.
LEMMA GotoTyped ==
    ASSUME TypeOK, NEW p \in Process, pc[p] # "idle",
           NEW step \in Step \ {"idle"}, Goto(p, step)
    PROVE  /\ pc' \in [Process -> Step]
           /\ \A q \in Process : (pc'[q] = "idle") = (pc[q] = "idle")
  BY DEF TypeOK, Goto

\* A process that leaves forgets its campaign and what it has read.
LEMMA LeavesTyped ==
    ASSUME TypeOK, NEW p \in Process, Leaves(p)
    PROVE  /\ pc' \in [Process -> Step]
           /\ camp' \in [Process -> Campaign \cup {None}]
           /\ inputs' \in [Process -> Version \cup {Draft, None}]
           /\ page' \in [Process -> Page \cup {None}]
           /\ \A q \in Process : (pc'[q] = "idle") = (camp'[q] = None)
  BY DEF TypeOK, Leaves, Goto, Step, Locking

\* A claim or an outcome changes the state of its campaign alone.
LEMMA SetStateTyped ==
    ASSUME TypeOK, NEW c \in Campaign, NEW state \in Claimed, SetState(c, state)
    PROVE  /\ status' \in [Campaign -> [state : Claimed \cup Unclaimed, rejections : 0..MaxRejections]]
           /\ State(c)' = state /\ status'[c].rejections = status[c].rejections
           /\ \A d \in Campaign \ {c} : status'[d] = status[d]
  BY DEF TypeOK, SetState, State

\* A process has a campaign from its start to its end.
LEMMA HasCampaign ==
    ASSUME TypeOK, NEW p \in Process, pc[p] # "idle"
    PROVE  camp[p] \in Campaign
  BY DEF TypeOK

\* Every step of a process and of the operator keeps the types.
LEMMA TypeStep == TypeOK /\ HistoryOK /\ PageIsRead /\ [Next]_vars => TypeOK' /\ HistoryOK'
<1> SUFFICES ASSUME TypeOK, HistoryOK, PageIsRead, [Next]_vars
             PROVE  TypeOK' /\ HistoryOK'
  OBVIOUS
<1> USE DayRunAssumption DEF history, files, memory
<1>1. ASSUME NEW p \in Process, NEW c \in Campaign, Begins(p, c) PROVE TypeOK' /\ HistoryOK'
  BY <1>1 DEF Begins, Goto, TypeOK, HistoryOK, Step, Locking
<1>2. ASSUME NEW p \in Process, Preflights(p) PROVE TypeOK' /\ HistoryOK'
  BY <1>2 DEF Preflights, Goto, TypeOK, HistoryOK, Step, Locking
<1>3. ASSUME NEW p \in Process, LocksToReject(p) PROVE TypeOK' /\ HistoryOK'
  <2>1. camp[p] \in Campaign
    BY <1>3, HasCampaign DEF LocksToReject
  <2>2. CASE lock[camp[p]] = None
    <3>1. Goto(p, "rejecting") /\ pc[p] # "idle" /\ "rejecting" \in Step \ {"idle"}
      BY <1>3, <2>2 DEF LocksToReject, Step, Locking
    <3>2. lock' \in [Campaign -> Process \cup {None}]
      BY <1>3, <2>2 DEF LocksToReject, TypeOK
    <3>3. UNCHANGED <<camp, inputs, page>>
      BY <1>3, <2>2 DEF LocksToReject
    <3> QED
      BY <1>3, <3>1, <3>2, <3>3, GotoTyped DEF LocksToReject, TypeOK, HistoryOK
  <2>3. CASE lock[camp[p]] # None
    BY <1>3, <2>3, LeavesTyped DEF LocksToReject, TypeOK, HistoryOK
  <2> QED
    BY <2>2, <2>3
<1>4. ASSUME NEW p \in Process, Rejects(p) PROVE TypeOK' /\ HistoryOK'
  <2>1. camp[p] \in Campaign
    BY <1>4, HasCampaign DEF Rejects
  <2>2. status' \in [Campaign -> [state : Claimed \cup Unclaimed, rejections : 0..MaxRejections]]
    BY <1>4, <2>1 DEF Rejects, TypeOK, Unclaimed
  <2>3. "rejected" \in Step \ {"idle"} /\ Goto(p, "rejected") /\ pc[p] # "idle"
    BY <1>4 DEF Rejects, Step, Locking
  <2> QED
    BY <1>4, <2>2, <2>3, GotoTyped DEF Rejects, TypeOK, HistoryOK
<1>5. ASSUME NEW p \in Process, LocksToClaim(p) PROVE TypeOK' /\ HistoryOK'
  <2>1. camp[p] \in Campaign
    BY <1>5, HasCampaign DEF LocksToClaim
  <2>2. current.authorized \in Authorization
    BY DEF TypeOK, Page, Authorization
  <2>3. PICK step \in {"locked", "reject"} : Goto(p, step) /\ pc[p] # "idle"
    BY <1>5 DEF LocksToClaim
  <2>4. TypeOK'
    BY <1>5, <2>1, <2>3, GotoTyped DEF LocksToClaim, TypeOK, Step, Locking
  <2>5. HistoryOK'
    BY <1>5, <2>2 DEF LocksToClaim, HistoryOK
  <2> QED
    BY <2>4, <2>5
<1>6. ASSUME NEW p \in Process, Rereads(p) PROVE TypeOK' /\ HistoryOK'
  BY <1>6 DEF Rereads, Goto, TypeOK, HistoryOK, Step, Locking
<1>7. ASSUME NEW p \in Process, Claims(p) PROVE TypeOK' /\ HistoryOK'
  <2>1. camp[p] \in Campaign /\ SetState(camp[p], "RUNNING") /\ "RUNNING" \in Claimed
    BY <1>7, HasCampaign DEF Claims, Claimed
  <2>2. status' \in [Campaign -> [state : Claimed \cup Unclaimed, rejections : 0..MaxRejections]]
    BY <2>1, SetStateTyped
  <2>3. "marked" \in Step \ {"idle"} /\ Goto(p, "marked") /\ pc[p] # "idle"
    BY <1>7 DEF Claims, Step, Locking
  <2>4. TypeOK'
    BY <1>7, <2>2, <2>3, GotoTyped DEF Claims, TypeOK
  <2>5. HistoryOK'
    BY <1>7, <2>1 DEF Claims, HistoryOK
  <2> QED
    BY <2>4, <2>5
<1>8. ASSUME NEW p \in Process, WritesScenarios(p) \/ WritesReports(p) PROVE TypeOK' /\ HistoryOK'
  <2>1. output' \in [Campaign -> SUBSET Reports]
    BY <1>8 DEF WritesScenarios, WritesReports, TypeOK, Reports
  <2>2. PICK step \in Step \ {"idle"} : Goto(p, step) /\ pc[p] # "idle"
    BY <1>8 DEF WritesScenarios, WritesReports, Executes, Step, Locking, Executing, Active
  <2> QED
    BY <1>8, <2>1, <2>2, GotoTyped DEF WritesScenarios, WritesReports, Executes, TypeOK, HistoryOK
<1>9. ASSUME NEW p \in Process, Finalizes(p) PROVE TypeOK' /\ HistoryOK'
  <2>1. camp[p] \in Campaign
    BY <1>9, HasCampaign DEF Finalizes, Executes
  <2>2. status' \in [Campaign -> [state : Claimed \cup Unclaimed, rejections : 0..MaxRejections]]
    BY <1>9, <2>1, SetStateTyped DEF Finalizes, Claimed
  <2> QED
    BY <1>9, <2>2 DEF Finalizes, Executes, Goto, TypeOK, HistoryOK, Step, Locking, Executing, Active
<1>10. ASSUME NEW p \in Process, ReadsCurrentState(p) PROVE TypeOK' /\ HistoryOK'
  BY <1>10
  DEF ReadsCurrentState, Executes, Goto, TypeOK, HistoryOK, Step, Locking, Executing, Active
<1>11. ASSUME NEW p \in Process, NEW final \in Completed, AppendsRecord(p, final)
       PROVE  TypeOK' /\ HistoryOK'
  <2> DEFINE written == [page[p] EXCEPT !.record[camp[p]] = final]
  <2>1. camp[p] \in Campaign /\ page[p] \in Page
    BY <1>11, HasCampaign DEF AppendsRecord, Executes, PageIsRead
  <2>2. written \in Page /\ written.authorized \in Authorization
    BY <2>1 DEF Page, Authorization
  <2>3. /\ page' = [page EXCEPT ![p] = written] /\ current' = written
        /\ offered' = [q \in Process |-> offered[q] \cup {written.authorized}]
    BY <1>11 DEF AppendsRecord
  <2> HIDE DEF written
  <2>4. TypeOK'
    <3>1. Goto(p, "recorded") /\ pc[p] # "idle" /\ "recorded" \in Step \ {"idle"}
      BY <1>11 DEF AppendsRecord, Executes, Step, Locking, Executing, Active
    <3>2. page' \in [Process -> Page \cup {None}] /\ current' \in Page
      BY <2>2, <2>3 DEF TypeOK
    <3> QED
      BY <1>11, <3>1, <3>2, GotoTyped DEF AppendsRecord, Executes, TypeOK
  <2>5. HistoryOK'
    BY <1>11, <2>2, <2>3 DEF AppendsRecord, Executes, HistoryOK
  <2> QED
    BY <2>4, <2>5
<1>12. ASSUME NEW p \in Process, Completes(p) PROVE TypeOK' /\ HistoryOK'
  <2>1. camp[p] \in Campaign /\ page[p].record[camp[p]] \in Claimed
    BY <1>12, HasCampaign DEF Completes, PageIsRead, Claimed
  <2>2. status' \in [Campaign -> [state : Claimed \cup Unclaimed, rejections : 0..MaxRejections]]
    BY <1>12, <2>1, SetStateTyped DEF Completes
  <2> QED
    BY <1>12, <2>2, LeavesTyped DEF Completes, TypeOK, HistoryOK
<1>13. ASSUME NEW p \in Process, Fails(p) PROVE TypeOK' /\ HistoryOK'
  <2>1. camp[p] \in Campaign
    BY <1>13, HasCampaign DEF Fails, Executing, Active
  <2>2. status' \in [Campaign -> [state : Claimed \cup Unclaimed, rejections : 0..MaxRejections]]
    BY <1>13, <2>1, SetStateTyped DEF Fails, Claimed, Failed
  <2> QED
    BY <1>13, <2>2, LeavesTyped DEF Fails, TypeOK, HistoryOK
<1>14. ASSUME NEW p \in Process, Killed(p) PROVE TypeOK' /\ HistoryOK'
  BY <1>14, LeavesTyped DEF Killed, TypeOK, HistoryOK
<1>15. ASSUME NEW c \in Campaign, NEW content \in Version \cup {Draft}, Freezes(c, content)
       PROVE  TypeOK' /\ HistoryOK'
  BY <1>15 DEF Freezes, TypeOK, HistoryOK
<1>16. ASSUME NEW authorization \in Authorization, Authorizes(authorization)
       PROVE  TypeOK' /\ HistoryOK'
  <2>1. current' \in Page
    BY <1>16 DEF Authorizes, TypeOK, Page, Authorization
  <2> QED
    BY <1>16, <2>1 DEF Authorizes, TypeOK, HistoryOK
<1>17. ASSUME NEW c \in Campaign, RemovesLock(c) PROVE TypeOK' /\ HistoryOK'
  BY <1>17 DEF RemovesLock, TypeOK, HistoryOK
<1>18. ASSUME NEW c \in Campaign, Discards(c) PROVE TypeOK' /\ HistoryOK'
  BY <1>18 DEF Discards, TypeOK, HistoryOK, Unclaimed
<1>20. ASSUME NEW p \in Process, Verifies(p) PROVE TypeOK' /\ HistoryOK'
  BY <1>20 DEF Verifies, Goto, TypeOK, HistoryOK, Step, Locking
<1>21. ASSUME NEW p \in Process, Unlocks(p) PROVE TypeOK' /\ HistoryOK'
  <2>1. camp[p] \in Campaign /\ lock' \in [Campaign -> Process \cup {None}]
    BY <1>21, HasCampaign DEF Unlocks, TypeOK
  <2>2. CASE pc[p] \in {"marked", "refused"}
    BY <1>21, <2>1, <2>2 DEF Unlocks, Goto, TypeOK, HistoryOK, Step, Executing
  <2>3. CASE pc[p] = "rejected"
    BY <1>21, <2>1, <2>3, LeavesTyped DEF Unlocks, TypeOK, HistoryOK
  <2> QED
    BY <1>21, <2>2, <2>3 DEF Unlocks
<1>22. ASSUME NEW p \in Process, Raises(p) PROVE TypeOK' /\ HistoryOK'
  <2>1. camp[p] \in Campaign /\ lock' \in [Campaign -> Process \cup {None}]
    BY <1>22, HasCampaign DEF Raises, Locking, TypeOK
  <2> QED
    BY <1>22, <2>1, LeavesTyped DEF Raises, TypeOK, HistoryOK
<1>19. CASE UNCHANGED vars
  BY <1>19 DEF vars, TypeOK, HistoryOK
<1> QED
  BY <1>1, <1>2, <1>3, <1>4, <1>5, <1>6, <1>7, <1>8, <1>9, <1>10, <1>11, <1>12, <1>13,
     <1>14, <1>15, <1>16, <1>17, <1>18, <1>19,
     <1>20, <1>21, <1>22
  DEF Next, Operator, Proceeds, Authorization

\* The lock file stays with who made it.
LEMMA LockStep == IInv /\ [Next]_vars => HoldsLock'
<1> SUFFICES ASSUME IInv, [Next]_vars PROVE HoldsLock'
  OBVIOUS
<1> USE DayRunAssumption DEF history, files, memory, IInv
<1>1. ASSUME NEW p \in Process, NEW c \in Campaign, Begins(p, c) PROVE HoldsLock'
  BY <1>1 DEF Begins, Goto, HoldsLock, Locking
<1>2. ASSUME NEW p \in Process, Preflights(p) PROVE HoldsLock'
  BY <1>2 DEF Preflights, Goto, HoldsLock, Locking
<1>3. ASSUME NEW p \in Process, LocksToReject(p) PROVE HoldsLock'
  BY <1>3 DEF LocksToReject, Leaves, Goto, HoldsLock, Locking, TypeOK
<1>4. ASSUME NEW p \in Process, Rejects(p) PROVE HoldsLock'
  BY <1>4 DEF Rejects, Goto, HoldsLock, Locking, TypeOK
<1>5. ASSUME NEW p \in Process, LocksToClaim(p) PROVE HoldsLock'
  BY <1>5 DEF LocksToClaim, Goto, HoldsLock, Locking, TypeOK
<1>6. ASSUME NEW p \in Process, Rereads(p) PROVE HoldsLock'
  BY <1>6 DEF Rereads, Goto, HoldsLock, Locking, TypeOK
<1>7. ASSUME NEW p \in Process, Claims(p) PROVE HoldsLock'
  BY <1>7 DEF Claims, Goto, HoldsLock, Locking, TypeOK
<1>8. ASSUME NEW p \in Process, WritesScenarios(p) \/ WritesReports(p) PROVE HoldsLock'
  BY <1>8 DEF WritesScenarios, WritesReports, Executes, Goto, HoldsLock, Locking, TypeOK
<1>9. ASSUME NEW p \in Process, Finalizes(p) PROVE HoldsLock'
  BY <1>9 DEF Finalizes, Executes, Goto, HoldsLock, Locking
<1>10. ASSUME NEW p \in Process, ReadsCurrentState(p) PROVE HoldsLock'
  BY <1>10 DEF ReadsCurrentState, Executes, Goto, HoldsLock, Locking
<1>11. ASSUME NEW p \in Process, NEW final \in Completed, AppendsRecord(p, final) PROVE HoldsLock'
  BY <1>11 DEF AppendsRecord, Executes, Goto, HoldsLock, Locking
<1>12. ASSUME NEW p \in Process, Completes(p) PROVE HoldsLock'
  BY <1>12 DEF Completes, Leaves, Goto, HoldsLock, Locking
<1>13. ASSUME NEW p \in Process, Fails(p) PROVE HoldsLock'
  BY <1>13 DEF Fails, Leaves, Goto, HoldsLock, Locking, TypeOK
<1>14. ASSUME NEW p \in Process, Killed(p) PROVE HoldsLock'
  BY <1>14 DEF Killed, Leaves, Goto, HoldsLock, Locking, TypeOK
<1>15. ASSUME NEW c \in Campaign, NEW content \in Version \cup {Draft}, Freezes(c, content) PROVE HoldsLock'
  BY <1>15 DEF Freezes, HoldsLock
<1>16. ASSUME NEW authorization \in Authorization, Authorizes(authorization) PROVE HoldsLock'
  BY <1>16 DEF Authorizes, HoldsLock
<1>17. ASSUME NEW c \in Campaign, RemovesLock(c) PROVE HoldsLock'
  BY <1>17 DEF RemovesLock, HoldsLock, Locking
<1>18. ASSUME NEW c \in Campaign, Discards(c) PROVE HoldsLock'
  BY <1>18 DEF Discards, HoldsLock
<1>20. ASSUME NEW p \in Process, Verifies(p) PROVE HoldsLock'
  BY <1>20 DEF Verifies, Goto, HoldsLock, Locking, TypeOK
<1>21. ASSUME NEW p \in Process, Unlocks(p) PROVE HoldsLock'
  BY <1>21 DEF Unlocks, Leaves, Goto, HoldsLock, Locking, TypeOK
<1>22. ASSUME NEW p \in Process, Raises(p) PROVE HoldsLock'
  BY <1>22 DEF Raises, Leaves, Goto, HoldsLock, Locking, TypeOK
<1>19. CASE UNCHANGED vars
  BY <1>19 DEF vars, HoldsLock
<1> QED
  BY <1>1, <1>2, <1>3, <1>4, <1>5, <1>6, <1>7, <1>8, <1>9, <1>10, <1>11, <1>12, <1>13, <1>14, <1>15, <1>16, <1>17, <1>18, <1>19,
     <1>20, <1>21, <1>22
  DEF Next, Operator, Proceeds, Authorization

\* What a step does to the status file, and which process may do it: a process
\* about to claim finds the status unclaimed, one that executes has claimed it.
LEMMA StatusStep == IInv /\ [Next]_vars => StatusOfStep' /\ Alone'
<1> SUFFICES ASSUME IInv, [Next]_vars PROVE StatusOfStep' /\ Alone'
  OBVIOUS
<1> USE DayRunAssumption DEF history, files, memory, IInv
<1>1. ASSUME NEW p \in Process, NEW c \in Campaign, Begins(p, c) PROVE StatusOfStep' /\ Alone'
  BY <1>1 DEF Begins, Goto, StatusOfStep, Alone, State, Executing, Active
<1>2. ASSUME NEW p \in Process, Preflights(p) PROVE StatusOfStep' /\ Alone'
  BY <1>2 DEF Preflights, Goto, StatusOfStep, Alone, State, Executing, Active
<1>3. ASSUME NEW p \in Process, LocksToReject(p) PROVE StatusOfStep' /\ Alone'
  <2>1. CASE lock[camp[p]] = None
    BY <1>3, <2>1 DEF LocksToReject, Goto, StatusOfStep, Alone, State, TypeOK, Executing, Active
  <2>2. CASE lock[camp[p]] # None
    <3>1. /\ pc'[p] = "idle" /\ status' = status
          /\ \A q \in Process \ {p} : pc'[q] = pc[q] /\ camp'[q] = camp[q]
      BY <1>3, <2>2 DEF LocksToReject, Leaves, Goto, TypeOK
    <3> QED
      BY <3>1 DEF StatusOfStep, Alone, State, Executing, Active
  <2> QED
    BY <2>1, <2>2
<1>4. ASSUME NEW p \in Process, Rejects(p) PROVE StatusOfStep' /\ Alone'
  BY <1>4 DEF Rejects, Goto, StatusOfStep, Alone, Locking, State, TypeOK, Executing, Active
<1>5. ASSUME NEW p \in Process, LocksToClaim(p) PROVE StatusOfStep' /\ Alone'
  <2>1. /\ pc'[p] \in {"locked", "reject"} /\ UNCHANGED <<camp, status>>
        /\ \A q \in Process \ {p} : pc'[q] = pc[q]
    BY <1>5 DEF LocksToClaim, Goto, TypeOK
  <2> QED
    BY <2>1 DEF StatusOfStep, Alone, State, Executing, Active
<1>6. ASSUME NEW p \in Process, Rereads(p) PROVE StatusOfStep' /\ Alone'
  <2>1. /\ pc'[p] \in {"verify", "refused"} /\ UNCHANGED <<camp, status>>
        /\ pc'[p] = "verify" => State(camp[p]) \in Unclaimed
        /\ \A q \in Process \ {p} : pc'[q] = pc[q]
    BY <1>6 DEF Rereads, Goto, TypeOK, files
  <2> QED
    BY <2>1 DEF StatusOfStep, Alone, State, Executing, Active
<1>7. ASSUME NEW p \in Process, Claims(p) PROVE StatusOfStep' /\ Alone'
  <2>1. /\ State(camp[p])' = "RUNNING"
        /\ \A c \in Campaign \ {camp[p]} : State(c)' = State(c)
    BY <1>7, HasCampaign DEF Claims, SetState, State, TypeOK
  <2>2. /\ pc'[p] = "marked" /\ camp' = camp
        /\ \A q \in Process \ {p} : pc'[q] = pc[q]
    BY <1>7 DEF Claims, Goto, TypeOK
  <2>3. \A q \in Process : pc[q] \in Active => camp[q] # camp[p]
    BY <1>7 DEF Claims, StatusOfStep, Underway, Unclaimed
  <2>4. \A q \in Process \ {p} : pc[q] \in {"verify", "mark"} => camp[q] # camp[p]
    BY <1>7 DEF Claims, HoldsLock, Locking
  <2>5. \A q \in Process : pc[q] # "idle" => camp[q] \in Campaign
    BY HasCampaign
  <2>6. StatusOfStep'
    BY <2>1, <2>2, <2>4, <2>5 DEF StatusOfStep, Underway, Executing, Active
  <2>7. Alone'
    BY <2>2, <2>3 DEF Alone
  <2> QED
    BY <2>6, <2>7
<1>8. ASSUME NEW p \in Process, WritesScenarios(p) \/ WritesReports(p) PROVE StatusOfStep' /\ Alone'
  <2>1. /\ pc[p] \in {"running", "scenarios"} /\ pc'[p] \in {"scenarios", "reported"}
        /\ UNCHANGED <<camp, status>>
        /\ \A q \in Process \ {p} : pc'[q] = pc[q]
    BY <1>8 DEF WritesScenarios, WritesReports, Executes, Goto, TypeOK
  <2> QED
    BY <2>1 DEF StatusOfStep, Alone, State, Executing, Active
<1>9. ASSUME NEW p \in Process, Finalizes(p) PROVE StatusOfStep' /\ Alone'
  BY <1>9
  DEF Finalizes, Executes, SetState, Goto, StatusOfStep, Alone, State, Executing, Active, Underway,
      Unclaimed
<1>10. ASSUME NEW p \in Process, ReadsCurrentState(p) PROVE StatusOfStep' /\ Alone'
  BY <1>10 DEF ReadsCurrentState, Executes, Goto, StatusOfStep, Alone, State, Executing, Active
<1>11. ASSUME NEW p \in Process, NEW final \in Completed, AppendsRecord(p, final) PROVE StatusOfStep' /\ Alone'
  BY <1>11 DEF AppendsRecord, Executes, Goto, StatusOfStep, Alone, State, Executing, Active
<1>12. ASSUME NEW p \in Process, Completes(p) PROVE StatusOfStep' /\ Alone'
  BY <1>12
  DEF Completes, Leaves, SetState, Goto, StatusOfStep, Alone, State, TypeOK, Executing, Active,
      Underway, Unclaimed
<1>13. ASSUME NEW p \in Process, Fails(p) PROVE StatusOfStep' /\ Alone'
  BY <1>13
  DEF Fails, Leaves, SetState, Goto, StatusOfStep, Alone, State, TypeOK, Executing, Active,
      Underway, Unclaimed
<1>14. ASSUME NEW p \in Process, Killed(p) PROVE StatusOfStep' /\ Alone'
  BY <1>14 DEF Killed, Leaves, Goto, StatusOfStep, Alone, State, TypeOK, Executing, Active
<1>15. ASSUME NEW c \in Campaign, NEW content \in Version \cup {Draft}, Freezes(c, content) PROVE StatusOfStep' /\ Alone'
  BY <1>15 DEF Freezes, StatusOfStep, Alone, State, Active, Executing
<1>16. ASSUME NEW authorization \in Authorization, Authorizes(authorization) PROVE StatusOfStep' /\ Alone'
  BY <1>16 DEF Authorizes, StatusOfStep, Alone, State, Active, Executing
<1>17. ASSUME NEW c \in Campaign, RemovesLock(c) PROVE StatusOfStep' /\ Alone'
  BY <1>17 DEF RemovesLock, StatusOfStep, Alone, State, Active, Executing
<1>18. ASSUME NEW c \in Campaign, Discards(c) PROVE StatusOfStep' /\ Alone'
  BY <1>18 DEF Discards, StatusOfStep, Alone, State, Unclaimed, Active, Executing
<1>20. ASSUME NEW p \in Process, Verifies(p) PROVE StatusOfStep' /\ Alone'
  <2>1. /\ pc[p] = "verify" /\ pc'[p] \in {"mark", "refused"} /\ UNCHANGED <<camp, status>>
        /\ \A q \in Process \ {p} : pc'[q] = pc[q]
    BY <1>20 DEF Verifies, Goto, TypeOK, files
  <2> QED
    BY <2>1 DEF StatusOfStep, Alone, State, Executing, Active
<1>21. ASSUME NEW p \in Process, Unlocks(p) PROVE StatusOfStep' /\ Alone'
  <2>1. CASE pc[p] \in {"marked", "refused"}
    <3>1. /\ pc'[p] \in {"running", "reject"}
          /\ pc'[p] = "running" => pc[p] = "marked"
          /\ UNCHANGED <<camp, status>>
          /\ \A q \in Process \ {p} : pc'[q] = pc[q]
      BY <1>21, <2>1 DEF Unlocks, Goto, TypeOK
    <3> QED
      BY <3>1 DEF StatusOfStep, Alone, State, Executing, Active
  <2>2. CASE pc[p] = "rejected"
    <3>1. /\ pc'[p] = "idle" /\ status' = status
          /\ \A q \in Process \ {p} : pc'[q] = pc[q] /\ camp'[q] = camp[q]
      BY <1>21, <2>2 DEF Unlocks, Leaves, Goto, TypeOK
    <3> QED
      BY <3>1 DEF StatusOfStep, Alone, State, Executing, Active
  <2> QED
    BY <1>21, <2>1, <2>2 DEF Unlocks
<1>22. ASSUME NEW p \in Process, Raises(p) PROVE StatusOfStep' /\ Alone'
  <2>1. /\ pc'[p] = "idle" /\ status' = status
        /\ \A q \in Process \ {p} : pc'[q] = pc[q] /\ camp'[q] = camp[q]
    BY <1>22 DEF Raises, Leaves, Goto, TypeOK
  <2> QED
    BY <2>1 DEF StatusOfStep, Alone, State, Executing, Active
<1>19. CASE UNCHANGED vars
  BY <1>19 DEF vars, StatusOfStep, Alone, State, Active, Executing
<1> QED
  BY <1>1, <1>2, <1>3, <1>4, <1>5, <1>6, <1>7, <1>8, <1>9, <1>10, <1>11, <1>12, <1>13, <1>14, <1>15, <1>16, <1>17, <1>18, <1>19,
     <1>20, <1>21, <1>22
  DEF Next, Operator, Proceeds, Authorization

\* Only a claim begins an execution, and it marks the status in the same step.
LEMMA StartsStep == IInv /\ [Next]_vars => StartsAreMarked'
<1> SUFFICES ASSUME IInv, [Next]_vars PROVE StartsAreMarked'
  OBVIOUS
<1> USE DayRunAssumption DEF history, files, memory, IInv
<1>1. ASSUME NEW p \in Process, NEW c \in Campaign, Begins(p, c) PROVE StartsAreMarked'
  BY <1>1 DEF Begins, StartsAreMarked, State
<1>2. ASSUME NEW p \in Process, Preflights(p) PROVE StartsAreMarked'
  BY <1>2 DEF Preflights, StartsAreMarked, State
<1>3. ASSUME NEW p \in Process, LocksToReject(p) PROVE StartsAreMarked'
  BY <1>3 DEF LocksToReject, StartsAreMarked, State
<1>4. ASSUME NEW p \in Process, Rejects(p) PROVE StartsAreMarked'
  BY <1>4 DEF Rejects, StartsAreMarked, State, TypeOK
<1>5. ASSUME NEW p \in Process, LocksToClaim(p) PROVE StartsAreMarked'
  BY <1>5 DEF LocksToClaim, StartsAreMarked, State
<1>6. ASSUME NEW p \in Process, Rereads(p) PROVE StartsAreMarked'
  BY <1>6 DEF Rereads, StartsAreMarked, State
<1>7. ASSUME NEW p \in Process, Claims(p) PROVE StartsAreMarked'
  BY <1>7, HasCampaign
  DEF Claims, SetState, Goto, StartsAreMarked, StatusOfStep, State, TypeOK, HistoryOK, Executing,
      Active, Unclaimed, Claimed, Completed, Failed
<1>8. ASSUME NEW p \in Process, WritesScenarios(p) \/ WritesReports(p) PROVE StartsAreMarked'
  BY <1>8 DEF WritesScenarios, WritesReports, Executes, StartsAreMarked, State
<1>9. ASSUME NEW p \in Process, Finalizes(p) PROVE StartsAreMarked'
  BY <1>9 DEF Finalizes, Executes, SetState, StartsAreMarked, State, HistoryOK, Claimed
<1>10. ASSUME NEW p \in Process, ReadsCurrentState(p) PROVE StartsAreMarked'
  BY <1>10 DEF ReadsCurrentState, Executes, StartsAreMarked, State
<1>11. ASSUME NEW p \in Process, NEW final \in Completed, AppendsRecord(p, final) PROVE StartsAreMarked'
  BY <1>11 DEF AppendsRecord, Executes, StartsAreMarked, State
<1>12. ASSUME NEW p \in Process, Completes(p) PROVE StartsAreMarked'
  <2>1. State(camp[p]) \in Claimed
    BY <1>12 DEF Completes, StatusOfStep, Executing, Active, Underway, Claimed
  <2>2. page[p].record[camp[p]] \in Claimed
    BY <1>12 DEF Completes, PageIsRead, Claimed
  <2>3. /\ status'[camp[p]].state = page[p].record[camp[p]]
        /\ \A c \in Campaign \ {camp[p]} : status'[c] = status[c]
    BY <1>12 DEF Completes, SetState, TypeOK
  <2>4. starts' = starts /\ discards' = discards
    BY <1>12 DEF Completes
  <2>5. \A c \in Campaign : State(c) \in Claimed => State(c)' \in Claimed
    BY <2>2, <2>3 DEF State
  <2>6. \A c \in Campaign : starts[c] \in Nat /\ discards[c] \in Nat
    BY DEF HistoryOK
  <2> QED
    BY <2>4, <2>5, <2>6 DEF StartsAreMarked
<1>13. ASSUME NEW p \in Process, Fails(p) PROVE StartsAreMarked'
  BY <1>13 DEF Fails, SetState, StartsAreMarked, State, HistoryOK, Claimed, Failed
<1>14. ASSUME NEW p \in Process, Killed(p) PROVE StartsAreMarked'
  BY <1>14 DEF Killed, StartsAreMarked, State
<1>15. ASSUME NEW c \in Campaign, NEW content \in Version \cup {Draft}, Freezes(c, content) PROVE StartsAreMarked'
  BY <1>15 DEF Freezes, StartsAreMarked, State
<1>16. ASSUME NEW authorization \in Authorization, Authorizes(authorization) PROVE StartsAreMarked'
  BY <1>16 DEF Authorizes, StartsAreMarked, State
<1>17. ASSUME NEW c \in Campaign, RemovesLock(c) PROVE StartsAreMarked'
  BY <1>17 DEF RemovesLock, StartsAreMarked, State
<1>18. ASSUME NEW c \in Campaign, Discards(c) PROVE StartsAreMarked'
  BY <1>18 DEF Discards, StartsAreMarked, State, HistoryOK
<1>20. ASSUME NEW p \in Process, Verifies(p) PROVE StartsAreMarked'
  BY <1>20 DEF Verifies, StartsAreMarked, State
<1>21. ASSUME NEW p \in Process, Unlocks(p) PROVE StartsAreMarked'
  BY <1>21 DEF Unlocks, Leaves, StartsAreMarked, State
<1>22. ASSUME NEW p \in Process, Raises(p) PROVE StartsAreMarked'
  BY <1>22 DEF Raises, Leaves, StartsAreMarked, State
<1>19. CASE UNCHANGED vars
  BY <1>19 DEF vars, StartsAreMarked, State
<1> QED
  BY <1>1, <1>2, <1>3, <1>4, <1>5, <1>6, <1>7, <1>8, <1>9, <1>10, <1>11, <1>12, <1>13, <1>14, <1>15, <1>16, <1>17, <1>18, <1>19,
     <1>20, <1>21, <1>22
  DEF Next, Operator, Proceeds, Authorization

\* What CURRENT_STATE.md authorizes is remembered as long as a process relies on it.
LEMMA OfferedStep == IInv /\ [Next]_vars => AuthorizationIsOffered'
<1> SUFFICES ASSUME IInv, [Next]_vars PROVE AuthorizationIsOffered'
  OBVIOUS
<1> USE DayRunAssumption DEF history, files, memory, IInv
<1>1. ASSUME NEW p \in Process, NEW c \in Campaign, Begins(p, c) PROVE AuthorizationIsOffered'
  BY <1>1 DEF Begins, Goto, AuthorizationIsOffered, Executing, Active
<1>2. ASSUME NEW p \in Process, Preflights(p) PROVE AuthorizationIsOffered'
  BY <1>2 DEF Preflights, Goto, AuthorizationIsOffered, Executing, Active
<1>3. ASSUME NEW p \in Process, LocksToReject(p) PROVE AuthorizationIsOffered'
  <2>1. /\ pc'[p] \in {"idle", "rejecting"} /\ UNCHANGED <<current, offered>>
        /\ \A q \in Process \ {p} : pc'[q] = pc[q] /\ camp'[q] = camp[q] /\ inputs'[q] = inputs[q]
    BY <1>3 DEF LocksToReject, Leaves, Goto, TypeOK
  <2> QED
    BY <2>1 DEF AuthorizationIsOffered, Executing, Active
<1>4. ASSUME NEW p \in Process, Rejects(p) PROVE AuthorizationIsOffered'
  BY <1>4 DEF Rejects, Goto, AuthorizationIsOffered, Executing, Active
<1>5. ASSUME NEW p \in Process, LocksToClaim(p) PROVE AuthorizationIsOffered'
  <2>1. CASE lock[camp[p]] = None
    <3>1. /\ offered'[p] = {current.authorized} /\ pc'[p] = "locked"
          /\ \A q \in Process \ {p} : offered'[q] = offered[q] /\ pc'[q] = pc[q]
          /\ UNCHANGED <<camp, inputs, current>>
      BY <1>5, <2>1 DEF LocksToClaim, Goto, TypeOK, HistoryOK
    <3> QED
      BY <3>1 DEF AuthorizationIsOffered, Executing, Active
  <2>2. CASE lock[camp[p]] # None
    BY <1>5, <2>2 DEF LocksToClaim, Goto, AuthorizationIsOffered, TypeOK, Executing, Active
  <2> QED
    BY <2>1, <2>2
<1>6. ASSUME NEW p \in Process, Rereads(p) PROVE AuthorizationIsOffered'
  BY <1>6 DEF Rereads, Goto, AuthorizationIsOffered, TypeOK, Executing, Active
<1>7. ASSUME NEW p \in Process, Claims(p) PROVE AuthorizationIsOffered'
  <2>1. /\ pc[p] = "mark" /\ pc'[p] = "marked" /\ \A q \in Process \ {p} : pc'[q] = pc[q]
        /\ UNCHANGED <<camp, inputs, current, offered>>
    BY <1>7 DEF Claims, Goto, TypeOK
  <2> QED
    BY <2>1 DEF AuthorizationIsOffered, Active, Executing
<1>8. ASSUME NEW p \in Process, WritesScenarios(p) \/ WritesReports(p) PROVE AuthorizationIsOffered'
  BY <1>8
  DEF WritesScenarios, WritesReports, Executes, Goto, AuthorizationIsOffered, TypeOK, Executing,
      Active
<1>9. ASSUME NEW p \in Process, Finalizes(p) PROVE AuthorizationIsOffered'
  BY <1>9 DEF Finalizes, Executes, Goto, AuthorizationIsOffered, Executing, Active
<1>10. ASSUME NEW p \in Process, ReadsCurrentState(p) PROVE AuthorizationIsOffered'
  BY <1>10 DEF ReadsCurrentState, Executes, Goto, AuthorizationIsOffered, Executing, Active
<1>11. ASSUME NEW p \in Process, NEW final \in Completed, AppendsRecord(p, final) PROVE AuthorizationIsOffered'
  BY <1>11 DEF AppendsRecord, Executes, Goto, AuthorizationIsOffered, Executing, Active
<1>12. ASSUME NEW p \in Process, Completes(p) PROVE AuthorizationIsOffered'
  BY <1>12 DEF Completes, Leaves, Goto, AuthorizationIsOffered, TypeOK, Executing, Active
<1>13. ASSUME NEW p \in Process, Fails(p) PROVE AuthorizationIsOffered'
  BY <1>13 DEF Fails, Leaves, Goto, AuthorizationIsOffered, TypeOK, Executing, Active
<1>14. ASSUME NEW p \in Process, Killed(p) PROVE AuthorizationIsOffered'
  BY <1>14 DEF Killed, Leaves, Goto, AuthorizationIsOffered, TypeOK, Executing, Active
<1>15. ASSUME NEW c \in Campaign, NEW content \in Version \cup {Draft}, Freezes(c, content) PROVE AuthorizationIsOffered'
  BY <1>15 DEF Freezes, AuthorizationIsOffered, Active, Executing
<1>16. ASSUME NEW authorization \in Authorization, Authorizes(authorization) PROVE AuthorizationIsOffered'
  BY <1>16 DEF Authorizes, AuthorizationIsOffered, Active, Executing
<1>17. ASSUME NEW c \in Campaign, RemovesLock(c) PROVE AuthorizationIsOffered'
  BY <1>17 DEF RemovesLock, AuthorizationIsOffered, Active, Executing
<1>18. ASSUME NEW c \in Campaign, Discards(c) PROVE AuthorizationIsOffered'
  BY <1>18 DEF Discards, AuthorizationIsOffered, Active, Executing
<1>20. ASSUME NEW p \in Process, Verifies(p) PROVE AuthorizationIsOffered'
  <2>1. /\ pc'[p] \in {"mark", "refused"} /\ \A q \in Process \ {p} : pc'[q] = pc[q]
        /\ pc'[p] = "mark" => <<camp[p], inputs[p]>> \in offered[p]
        /\ UNCHANGED <<camp, inputs, current, offered>>
    BY <1>20 DEF Verifies, Valid, Goto, TypeOK, AuthorizationIsOffered
  <2> QED
    BY <2>1 DEF AuthorizationIsOffered, Active, Executing
<1>21. ASSUME NEW p \in Process, Unlocks(p) PROVE AuthorizationIsOffered'
  BY <1>21 DEF Unlocks, Leaves, Goto, AuthorizationIsOffered, TypeOK, Executing, Active
<1>22. ASSUME NEW p \in Process, Raises(p) PROVE AuthorizationIsOffered'
  BY <1>22 DEF Raises, Leaves, Goto, AuthorizationIsOffered, TypeOK, Executing, Active
<1>19. CASE UNCHANGED vars
  BY <1>19 DEF vars, AuthorizationIsOffered, Active, Executing
<1> QED
  BY <1>1, <1>2, <1>3, <1>4, <1>5, <1>6, <1>7, <1>8, <1>9, <1>10, <1>11, <1>12, <1>13, <1>14, <1>15, <1>16, <1>17, <1>18, <1>19,
     <1>20, <1>21, <1>22
  DEF Next, Operator, Proceeds, Authorization

\* A process holds the page it has read until its run ends.
LEMMA PageStep == IInv /\ [Next]_vars => PageIsRead'
<1> SUFFICES ASSUME IInv, [Next]_vars PROVE PageIsRead'
  OBVIOUS
<1> USE DayRunAssumption DEF history, files, memory, IInv
<1>1. ASSUME NEW p \in Process, NEW c \in Campaign, Begins(p, c) PROVE PageIsRead'
  BY <1>1 DEF Begins, Goto, PageIsRead
<1>2. ASSUME NEW p \in Process, Preflights(p) PROVE PageIsRead'
  BY <1>2 DEF Preflights, Goto, PageIsRead
<1>3. ASSUME NEW p \in Process, LocksToReject(p) PROVE PageIsRead'
  BY <1>3 DEF LocksToReject, Leaves, Goto, PageIsRead, TypeOK
<1>4. ASSUME NEW p \in Process, Rejects(p) PROVE PageIsRead'
  BY <1>4 DEF Rejects, Goto, PageIsRead
<1>5. ASSUME NEW p \in Process, LocksToClaim(p) PROVE PageIsRead'
  BY <1>5 DEF LocksToClaim, Goto, PageIsRead, TypeOK
<1>6. ASSUME NEW p \in Process, Rereads(p) PROVE PageIsRead'
  BY <1>6 DEF Rereads, Goto, PageIsRead, TypeOK
<1>7. ASSUME NEW p \in Process, Claims(p) PROVE PageIsRead'
  BY <1>7 DEF Claims, Goto, PageIsRead, TypeOK
<1>8. ASSUME NEW p \in Process, WritesScenarios(p) \/ WritesReports(p) PROVE PageIsRead'
  BY <1>8 DEF WritesScenarios, WritesReports, Executes, Goto, PageIsRead, TypeOK
<1>9. ASSUME NEW p \in Process, Finalizes(p) PROVE PageIsRead'
  BY <1>9 DEF Finalizes, Executes, Goto, PageIsRead
<1>10. ASSUME NEW p \in Process, ReadsCurrentState(p) PROVE PageIsRead'
  BY <1>10 DEF ReadsCurrentState, Executes, Goto, PageIsRead, TypeOK
<1>11. ASSUME NEW p \in Process, NEW final \in Completed, AppendsRecord(p, final) PROVE PageIsRead'
  BY <1>11, HasCampaign DEF AppendsRecord, Executes, Goto, PageIsRead, Page, TypeOK
<1>12. ASSUME NEW p \in Process, Completes(p) PROVE PageIsRead'
  BY <1>12 DEF Completes, Leaves, Goto, PageIsRead, TypeOK
<1>13. ASSUME NEW p \in Process, Fails(p) PROVE PageIsRead'
  BY <1>13 DEF Fails, Leaves, Goto, PageIsRead, TypeOK
<1>14. ASSUME NEW p \in Process, Killed(p) PROVE PageIsRead'
  BY <1>14 DEF Killed, Leaves, Goto, PageIsRead, TypeOK
<1>15. ASSUME NEW c \in Campaign, NEW content \in Version \cup {Draft}, Freezes(c, content) PROVE PageIsRead'
  BY <1>15 DEF Freezes, PageIsRead
<1>16. ASSUME NEW authorization \in Authorization, Authorizes(authorization) PROVE PageIsRead'
  BY <1>16 DEF Authorizes, PageIsRead
<1>17. ASSUME NEW c \in Campaign, RemovesLock(c) PROVE PageIsRead'
  BY <1>17 DEF RemovesLock, PageIsRead
<1>18. ASSUME NEW c \in Campaign, Discards(c) PROVE PageIsRead'
  BY <1>18 DEF Discards, PageIsRead
<1>20. ASSUME NEW p \in Process, Verifies(p) PROVE PageIsRead'
  BY <1>20 DEF Verifies, Goto, PageIsRead, TypeOK
<1>21. ASSUME NEW p \in Process, Unlocks(p) PROVE PageIsRead'
  BY <1>21 DEF Unlocks, Leaves, Goto, PageIsRead, TypeOK
<1>22. ASSUME NEW p \in Process, Raises(p) PROVE PageIsRead'
  BY <1>22 DEF Raises, Leaves, Goto, PageIsRead, TypeOK
<1>19. CASE UNCHANGED vars
  BY <1>19 DEF vars, PageIsRead
<1> QED
  BY <1>1, <1>2, <1>3, <1>4, <1>5, <1>6, <1>7, <1>8, <1>9, <1>10, <1>11, <1>12, <1>13, <1>14, <1>15, <1>16, <1>17, <1>18, <1>19,
     <1>20, <1>21, <1>22
  DEF Next, Operator, Proceeds, Authorization

\* The invariant is kept by every step.
THEOREM StepKeeps == IInv /\ [Next]_vars => IInv'
  BY TypeStep, LockStep, StatusStep, StartsStep, OfferedStep, PageStep DEF IInv

\* The run of every process on every campaign keeps the invariant, kills and
\* the operator's edits included.
THEOREM InductiveInvariant == Spec => []IInv
  BY InitEstablishes, StepKeeps, PTL DEF Spec

\* The variables keep their types.
THEOREM TypeCorrect == Spec => []TypeOK
<1>1. IInv => TypeOK
  BY DEF IInv
<1> QED
  BY <1>1, InductiveInvariant, PTL

\* _claim_execution executes a campaign once, for any number of overlapping
\* and killed processes, unless its files are removed by hand.
THEOREM CampaignExecutedOnce == Spec => []ExecutedOnce
<1>1. IInv => ExecutedOnce
  BY DEF IInv, HistoryOK, StartsAreMarked, ExecutedOnce
<1> QED
  BY <1>1, InductiveInvariant, PTL

\* What run_day_campaign executes was authorized while it held the claim lock.
THEOREM AuthorizedIsExecuted == Spec => []ExecutesTheAuthorized
<1>1. IInv => ExecutesTheAuthorized
  BY DEF IInv, AuthorizationIsOffered, ExecutesTheAuthorized, Active, Executing
<1> QED
  BY <1>1, InductiveInvariant, PTL

\* A status that says a campaign was claimed is not replaced by one that says less.
LEMMA StatusStaysEvidence == IInv /\ [Next]_vars => StatusIsEvidence
<1> SUFFICES ASSUME IInv, [Next]_vars PROVE StatusIsEvidence
  OBVIOUS
<1> USE DayRunAssumption DEF history, files, memory, IInv
<1>1. ASSUME NEW p \in Process, NEW c \in Campaign, Begins(p, c) PROVE StatusIsEvidence
  BY <1>1 DEF Begins, StatusIsEvidence, TypeOK, State
<1>2. ASSUME NEW p \in Process, Preflights(p) PROVE StatusIsEvidence
  BY <1>2 DEF Preflights, StatusIsEvidence, TypeOK, State
<1>3. ASSUME NEW p \in Process, LocksToReject(p) PROVE StatusIsEvidence
  BY <1>3 DEF LocksToReject, StatusIsEvidence, TypeOK, State
<1>4. ASSUME NEW p \in Process, Rejects(p) PROVE StatusIsEvidence
  BY <1>4 DEF Rejects, StatusIsEvidence, TypeOK, State
<1>5. ASSUME NEW p \in Process, LocksToClaim(p) PROVE StatusIsEvidence
  BY <1>5 DEF LocksToClaim, StatusIsEvidence, TypeOK, State
<1>6. ASSUME NEW p \in Process, Rereads(p) PROVE StatusIsEvidence
  BY <1>6 DEF Rereads, StatusIsEvidence, TypeOK, State
<1>7. ASSUME NEW p \in Process, Claims(p) PROVE StatusIsEvidence
  BY <1>7
  DEF Claims, SetState, StatusIsEvidence, TypeOK, StatusOfStep, State, Executing, Active, Underway,
      Unclaimed, Claimed, Completed, Failed
<1>8. ASSUME NEW p \in Process, WritesScenarios(p) \/ WritesReports(p) PROVE StatusIsEvidence
  BY <1>8 DEF WritesScenarios, WritesReports, StatusIsEvidence, TypeOK, State
<1>9. ASSUME NEW p \in Process, Finalizes(p) PROVE StatusIsEvidence
  BY <1>9
  DEF Finalizes, Executes, SetState, StatusIsEvidence, TypeOK, StatusOfStep, State, Executing,
      Active, Underway, Claimed, Completed, Failed
<1>10. ASSUME NEW p \in Process, ReadsCurrentState(p) PROVE StatusIsEvidence
  BY <1>10 DEF ReadsCurrentState, StatusIsEvidence, TypeOK, State
<1>11. ASSUME NEW p \in Process, NEW final \in Completed, AppendsRecord(p, final) PROVE StatusIsEvidence
  BY <1>11 DEF AppendsRecord, StatusIsEvidence, TypeOK, State
<1>12. ASSUME NEW p \in Process, Completes(p) PROVE StatusIsEvidence
  <2>1. State(camp[p]) \in Underway /\ page[p].record[camp[p]] \in Completed
    BY <1>12 DEF Completes, StatusOfStep, PageIsRead, Executing, Active
  <2>2. /\ status'[camp[p]].state = page[p].record[camp[p]]
        /\ status'[camp[p]].rejections = status[camp[p]].rejections
        /\ \A c \in Campaign \ {camp[p]} : status'[c] = status[c]
    BY <1>12 DEF Completes, SetState, TypeOK
  <2> QED
    BY <2>1, <2>2 DEF StatusIsEvidence, State, TypeOK, Underway, Claimed, Completed, Failed
<1>13. ASSUME NEW p \in Process, Fails(p) PROVE StatusIsEvidence
  BY <1>13
  DEF Fails, SetState, StatusIsEvidence, TypeOK, StatusOfStep, State, Underway, Claimed, Completed,
      Failed, Active, Executing
<1>14. ASSUME NEW p \in Process, Killed(p) PROVE StatusIsEvidence
  BY <1>14 DEF Killed, StatusIsEvidence, TypeOK, State
<1>15. ASSUME NEW c \in Campaign, NEW content \in Version \cup {Draft}, Freezes(c, content) PROVE StatusIsEvidence
  BY <1>15 DEF Freezes, StatusIsEvidence, TypeOK, State
<1>16. ASSUME NEW authorization \in Authorization, Authorizes(authorization) PROVE StatusIsEvidence
  BY <1>16 DEF Authorizes, StatusIsEvidence, TypeOK, State
<1>17. ASSUME NEW c \in Campaign, RemovesLock(c) PROVE StatusIsEvidence
  BY <1>17 DEF RemovesLock, StatusIsEvidence, TypeOK, State
<1>18. ASSUME NEW c \in Campaign, Discards(c) PROVE StatusIsEvidence
  BY <1>18 DEF Discards, StatusIsEvidence, TypeOK, HistoryOK, State
<1>20. ASSUME NEW p \in Process, Verifies(p) PROVE StatusIsEvidence
  BY <1>20 DEF Verifies, StatusIsEvidence, TypeOK, State
<1>21. ASSUME NEW p \in Process, Unlocks(p) PROVE StatusIsEvidence
  BY <1>21 DEF Unlocks, Leaves, StatusIsEvidence, TypeOK, State
<1>22. ASSUME NEW p \in Process, Raises(p) PROVE StatusIsEvidence
  BY <1>22 DEF Raises, Leaves, StatusIsEvidence, TypeOK, State
<1>19. CASE UNCHANGED vars
  BY <1>19 DEF vars, StatusIsEvidence, TypeOK, State
<1> QED
  BY <1>1, <1>2, <1>3, <1>4, <1>5, <1>6, <1>7, <1>8, <1>9, <1>10, <1>11, <1>12, <1>13, <1>14, <1>15, <1>16, <1>17, <1>18, <1>19,
     <1>20, <1>21, <1>22
  DEF Next, Operator, Proceeds, Authorization

\* RUN_STATUS.json keeps saying that a campaign was claimed, and why it was
\* rejected, whatever later runs do.
THEOREM StatusKept == Spec => [][StatusIsEvidence]_vars
<1>1. IInv /\ [Next]_vars => [StatusIsEvidence]_vars
  BY StatusStaysEvidence
<1> QED
  BY <1>1, InductiveInvariant, PTL DEF Spec

(***************************************************************************)
(* OutcomeIsEvident does not hold when processes of two campaigns overlap  *)
(* between reading CURRENT_STATE.md and replacing it: the second replaces  *)
(* the record of the first.  It holds in every behaviour where they do     *)
(* not, and so whenever there is one campaign.                             *)
(***************************************************************************)
ReadsAlone ==
    \A p, q \in Process : pc[p] = "read" /\ pc[q] = "read" => p = q

\* The reports of an execution that has written them are there.
ReportsOfStep ==
    \A p \in Process :
        pc[p] \in {"reported", "finalizing", "read", "recorded"} => output[camp[p]] = Reports

\* A claim that is verified, and the execution that follows it, find no record
\* of their campaign until it has appended one.
RecordOfStep ==
    \A p \in Process :
        /\ pc[p] \in ({"mark"} \cup Active) \ {"recorded"} => current.record[camp[p]] = None
        /\ pc[p] = "recorded" => current.record[camp[p]] = page[p].record[camp[p]]
        /\ pc[p] = "read" => page[p].record = current.record

EvidenceInv == ReportsOfStep /\ RecordOfStep /\ OutcomeIsEvident

\* The reports of an execution stay until it ends.
LEMMA ReportsStep == IInv /\ EvidenceInv /\ ReadsAlone /\ [Next]_vars => ReportsOfStep'
<1> SUFFICES ASSUME IInv, EvidenceInv, ReadsAlone, [Next]_vars PROVE ReportsOfStep'
  OBVIOUS
<1> USE DayRunAssumption DEF history, files, memory, IInv, EvidenceInv
<1>1. ASSUME NEW p \in Process, NEW c \in Campaign, Begins(p, c) PROVE ReportsOfStep'
  BY <1>1 DEF Begins, Goto, ReportsOfStep
<1>2. ASSUME NEW p \in Process, Preflights(p) PROVE ReportsOfStep'
  BY <1>2 DEF Preflights, Goto, ReportsOfStep
<1>3. ASSUME NEW p \in Process, LocksToReject(p) PROVE ReportsOfStep'
  BY <1>3 DEF LocksToReject, Leaves, Goto, ReportsOfStep, TypeOK
<1>4. ASSUME NEW p \in Process, Rejects(p) PROVE ReportsOfStep'
  BY <1>4 DEF Rejects, Goto, ReportsOfStep
<1>5. ASSUME NEW p \in Process, LocksToClaim(p) PROVE ReportsOfStep'
  BY <1>5 DEF LocksToClaim, Goto, ReportsOfStep, TypeOK
<1>6. ASSUME NEW p \in Process, Rereads(p) PROVE ReportsOfStep'
  BY <1>6 DEF Rereads, Goto, ReportsOfStep, TypeOK
<1>7. ASSUME NEW p \in Process, Claims(p) PROVE ReportsOfStep'
  BY <1>7 DEF Claims, Goto, ReportsOfStep, TypeOK
<1>8. ASSUME NEW p \in Process, WritesScenarios(p) \/ WritesReports(p) PROVE ReportsOfStep'
  BY <1>8
  DEF WritesScenarios, WritesReports, Executes, Goto, ReportsOfStep, Alone, TypeOK, Executing,
      Active
<1>9. ASSUME NEW p \in Process, Finalizes(p) PROVE ReportsOfStep'
  BY <1>9 DEF Finalizes, Executes, Goto, ReportsOfStep
<1>10. ASSUME NEW p \in Process, ReadsCurrentState(p) PROVE ReportsOfStep'
  BY <1>10 DEF ReadsCurrentState, Executes, Goto, ReportsOfStep
<1>11. ASSUME NEW p \in Process, NEW final \in Completed, AppendsRecord(p, final) PROVE ReportsOfStep'
  BY <1>11 DEF AppendsRecord, Executes, Goto, ReportsOfStep
<1>12. ASSUME NEW p \in Process, Completes(p) PROVE ReportsOfStep'
  BY <1>12 DEF Completes, Leaves, Goto, ReportsOfStep, TypeOK
<1>13. ASSUME NEW p \in Process, Fails(p) PROVE ReportsOfStep'
  BY <1>13 DEF Fails, Leaves, Goto, ReportsOfStep, TypeOK
<1>14. ASSUME NEW p \in Process, Killed(p) PROVE ReportsOfStep'
  BY <1>14 DEF Killed, Leaves, Goto, ReportsOfStep, TypeOK
<1>15. ASSUME NEW c \in Campaign, NEW content \in Version \cup {Draft}, Freezes(c, content) PROVE ReportsOfStep'
  BY <1>15 DEF Freezes, ReportsOfStep
<1>16. ASSUME NEW authorization \in Authorization, Authorizes(authorization) PROVE ReportsOfStep'
  BY <1>16 DEF Authorizes, ReportsOfStep
<1>17. ASSUME NEW c \in Campaign, RemovesLock(c) PROVE ReportsOfStep'
  BY <1>17 DEF RemovesLock, ReportsOfStep
<1>18. ASSUME NEW c \in Campaign, Discards(c) PROVE ReportsOfStep'
  BY <1>18 DEF Discards, ReportsOfStep, Executing, Active
<1>20. ASSUME NEW p \in Process, Verifies(p) PROVE ReportsOfStep'
  BY <1>20 DEF Verifies, Goto, ReportsOfStep, TypeOK
<1>21. ASSUME NEW p \in Process, Unlocks(p) PROVE ReportsOfStep'
  BY <1>21 DEF Unlocks, Leaves, Goto, ReportsOfStep, TypeOK
<1>22. ASSUME NEW p \in Process, Raises(p) PROVE ReportsOfStep'
  BY <1>22 DEF Raises, Leaves, Goto, ReportsOfStep, TypeOK
<1>19. CASE UNCHANGED vars
  BY <1>19 DEF vars, ReportsOfStep
<1> QED
  BY <1>1, <1>2, <1>3, <1>4, <1>5, <1>6, <1>7, <1>8, <1>9, <1>10, <1>11, <1>12, <1>13, <1>14, <1>15, <1>16, <1>17, <1>18, <1>19,
     <1>20, <1>21, <1>22
  DEF Next, Operator, Proceeds, Authorization

\* The record of a campaign appears when its own execution appends it.
LEMMA RecordStep == IInv /\ EvidenceInv /\ ReadsAlone /\ [Next]_vars => RecordOfStep'
<1> SUFFICES ASSUME IInv, EvidenceInv, ReadsAlone, [Next]_vars PROVE RecordOfStep'
  OBVIOUS
<1> USE DayRunAssumption DEF history, files, memory, IInv, EvidenceInv
<1>1. ASSUME NEW p \in Process, NEW c \in Campaign, Begins(p, c) PROVE RecordOfStep'
  BY <1>1 DEF Begins, Goto, RecordOfStep, Executing, Active
<1>2. ASSUME NEW p \in Process, Preflights(p) PROVE RecordOfStep'
  BY <1>2 DEF Preflights, Goto, RecordOfStep, Executing, Active
<1>3. ASSUME NEW p \in Process, LocksToReject(p) PROVE RecordOfStep'
  BY <1>3 DEF LocksToReject, Leaves, Goto, RecordOfStep, TypeOK, Executing, Active
<1>4. ASSUME NEW p \in Process, Rejects(p) PROVE RecordOfStep'
  BY <1>4 DEF Rejects, Goto, RecordOfStep, Executing, Active
<1>5. ASSUME NEW p \in Process, LocksToClaim(p) PROVE RecordOfStep'
  BY <1>5 DEF LocksToClaim, Goto, RecordOfStep, TypeOK, Executing, Active
<1>6. ASSUME NEW p \in Process, Rereads(p) PROVE RecordOfStep'
  BY <1>6 DEF Rereads, Goto, RecordOfStep, TypeOK, Executing, Active
<1>7. ASSUME NEW p \in Process, Claims(p) PROVE RecordOfStep'
  BY <1>7 DEF Claims, Goto, RecordOfStep, Valid, TypeOK, Executing, Active
<1>8. ASSUME NEW p \in Process, WritesScenarios(p) \/ WritesReports(p) PROVE RecordOfStep'
  BY <1>8
  DEF WritesScenarios, WritesReports, Executes, Goto, RecordOfStep, TypeOK, Executing, Active
<1>9. ASSUME NEW p \in Process, Finalizes(p) PROVE RecordOfStep'
  BY <1>9 DEF Finalizes, Executes, Goto, RecordOfStep, Executing, Active
<1>10. ASSUME NEW p \in Process, ReadsCurrentState(p) PROVE RecordOfStep'
  BY <1>10 DEF ReadsCurrentState, Executes, Goto, RecordOfStep, TypeOK
<1>11. ASSUME NEW p \in Process, NEW final \in Completed, AppendsRecord(p, final) PROVE RecordOfStep'
  <2>1. /\ pc[p] = "read" /\ camp[p] \in Campaign /\ page[p] \in Page
        /\ page[p].record = current.record
    BY <1>11, HasCampaign DEF AppendsRecord, Executes, RecordOfStep, PageIsRead
  <2>2. /\ current'.record = [current.record EXCEPT ![camp[p]] = final]
        /\ page'[p].record = current'.record
        /\ \A q \in Process \ {p} : page'[q] = page[q] /\ pc'[q] = pc[q]
        /\ pc'[p] = "recorded" /\ camp' = camp
    BY <1>11, <2>1 DEF AppendsRecord, Executes, Goto, TypeOK
  <2>3. \A q \in Process \ {p} : pc[q] \in {"mark"} \cup Active =>
            camp[q] # camp[p] /\ camp[q] \in Campaign /\ pc[q] # "read"
    <3>1. State(camp[p]) \in Underway
      BY <2>1 DEF StatusOfStep, Active, Executing
    <3>2. \A q \in Process : pc[q] = "mark" => camp[q] # camp[p]
      BY <3>1 DEF StatusOfStep, Underway, Unclaimed
    <3> QED
      BY <2>1, <3>2, HasCampaign DEF Alone, ReadsAlone, Active, Executing
  <2>4. \A c \in Campaign \ {camp[p]} : current'.record[c] = current.record[c]
    BY <2>2
  <2> SUFFICES ASSUME NEW q \in Process
               PROVE  /\ pc'[q] \in ({"mark"} \cup Active) \ {"recorded"} =>
                             current'.record[camp'[q]] = None
                      /\ pc'[q] = "recorded" =>
                             current'.record[camp'[q]] = page'[q].record[camp'[q]]
                      /\ pc'[q] = "read" => page'[q].record = current'.record
    BY DEF RecordOfStep
  <2>5. CASE q = p
    BY <2>2, <2>5
  <2>6. CASE q # p
    <3>1. /\ pc'[q] = pc[q] /\ page'[q] = page[q] /\ camp'[q] = camp[q]
          /\ pc[q] \in {"mark"} \cup Active => current'.record[camp[q]] = current.record[camp[q]]
      BY <2>2, <2>3, <2>6
    <3> QED
      BY <2>3, <2>6, <3>1 DEF RecordOfStep, Executing, Active
  <2> QED
    BY <2>5, <2>6
<1>12. ASSUME NEW p \in Process, Completes(p) PROVE RecordOfStep'
  BY <1>12 DEF Completes, Leaves, Goto, RecordOfStep, TypeOK, Executing, Active
<1>13. ASSUME NEW p \in Process, Fails(p) PROVE RecordOfStep'
  BY <1>13 DEF Fails, Leaves, Goto, RecordOfStep, TypeOK, Executing, Active
<1>14. ASSUME NEW p \in Process, Killed(p) PROVE RecordOfStep'
  BY <1>14 DEF Killed, Leaves, Goto, RecordOfStep, TypeOK, Executing, Active
<1>15. ASSUME NEW c \in Campaign, NEW content \in Version \cup {Draft}, Freezes(c, content) PROVE RecordOfStep'
  BY <1>15 DEF Freezes, RecordOfStep
<1>16. ASSUME NEW authorization \in Authorization, Authorizes(authorization) PROVE RecordOfStep'
  BY <1>16 DEF Authorizes, RecordOfStep
<1>17. ASSUME NEW c \in Campaign, RemovesLock(c) PROVE RecordOfStep'
  BY <1>17 DEF RemovesLock, RecordOfStep
<1>18. ASSUME NEW c \in Campaign, Discards(c) PROVE RecordOfStep'
  BY <1>18 DEF Discards, RecordOfStep
<1>20. ASSUME NEW p \in Process, Verifies(p) PROVE RecordOfStep'
  BY <1>20 DEF Verifies, Valid, Goto, RecordOfStep, TypeOK, Executing, Active
<1>21. ASSUME NEW p \in Process, Unlocks(p) PROVE RecordOfStep'
  BY <1>21 DEF Unlocks, Leaves, Goto, RecordOfStep, TypeOK, Executing, Active
<1>22. ASSUME NEW p \in Process, Raises(p) PROVE RecordOfStep'
  BY <1>22 DEF Raises, Leaves, Goto, RecordOfStep, TypeOK, Executing, Active
<1>19. CASE UNCHANGED vars
  BY <1>19 DEF vars, RecordOfStep
<1> QED
  BY <1>1, <1>2, <1>3, <1>4, <1>5, <1>6, <1>7, <1>8, <1>9, <1>10, <1>11, <1>12, <1>13, <1>14, <1>15, <1>16, <1>17, <1>18, <1>19,
     <1>20, <1>21, <1>22
  DEF Next, Operator, Proceeds, Authorization

\* What each step writes to the status agrees with the reports and the record.
LEMMA OutcomeStep == IInv /\ EvidenceInv /\ ReadsAlone /\ [Next]_vars => OutcomeIsEvident'
<1> SUFFICES ASSUME IInv, EvidenceInv, ReadsAlone, [Next]_vars PROVE OutcomeIsEvident'
  OBVIOUS
<1> USE DayRunAssumption DEF history, files, memory, IInv, EvidenceInv
<1>1. ASSUME NEW p \in Process, NEW c \in Campaign, Begins(p, c) PROVE OutcomeIsEvident'
  BY <1>1 DEF Begins, OutcomeIsEvident, CompletedHasEvidence, FailureTellsRecord, State
<1>2. ASSUME NEW p \in Process, Preflights(p) PROVE OutcomeIsEvident'
  BY <1>2 DEF Preflights, OutcomeIsEvident, CompletedHasEvidence, FailureTellsRecord, State
<1>3. ASSUME NEW p \in Process, LocksToReject(p) PROVE OutcomeIsEvident'
  BY <1>3 DEF LocksToReject, OutcomeIsEvident, CompletedHasEvidence, FailureTellsRecord, State
<1>4. ASSUME NEW p \in Process, Rejects(p) PROVE OutcomeIsEvident'
  BY <1>4
  DEF Rejects, OutcomeIsEvident, CompletedHasEvidence, FailureTellsRecord, TypeOK, State, Completed
<1>5. ASSUME NEW p \in Process, LocksToClaim(p) PROVE OutcomeIsEvident'
  BY <1>5 DEF LocksToClaim, OutcomeIsEvident, CompletedHasEvidence, FailureTellsRecord, State
<1>6. ASSUME NEW p \in Process, Rereads(p) PROVE OutcomeIsEvident'
  BY <1>6 DEF Rereads, OutcomeIsEvident, CompletedHasEvidence, FailureTellsRecord, State
<1>7. ASSUME NEW p \in Process, Claims(p) PROVE OutcomeIsEvident'
  <2>1. /\ status'[camp[p]].state = "RUNNING"
        /\ \A c \in Campaign \ {camp[p]} : status'[c] = status[c]
        /\ current' = current /\ output' = output
    BY <1>7, HasCampaign DEF Claims, SetState, TypeOK
  <2> QED
    BY <2>1 DEF OutcomeIsEvident, CompletedHasEvidence, FailureTellsRecord, State, Completed
<1>8. ASSUME NEW p \in Process, WritesScenarios(p) \/ WritesReports(p) PROVE OutcomeIsEvident'
  BY <1>8
  DEF WritesScenarios, WritesReports, Executes, RecordOfStep, OutcomeIsEvident,
      CompletedHasEvidence, FailureTellsRecord, TypeOK, State, Executing, Active, Completed
<1>9. ASSUME NEW p \in Process, Finalizes(p) PROVE OutcomeIsEvident'
  BY <1>9
  DEF Finalizes, SetState, OutcomeIsEvident, CompletedHasEvidence, FailureTellsRecord, State,
      Completed
<1>10. ASSUME NEW p \in Process, ReadsCurrentState(p) PROVE OutcomeIsEvident'
  BY <1>10 DEF ReadsCurrentState, OutcomeIsEvident, CompletedHasEvidence, FailureTellsRecord, State
<1>11. ASSUME NEW p \in Process, NEW final \in Completed, AppendsRecord(p, final) PROVE OutcomeIsEvident'
  BY <1>11
  DEF AppendsRecord, Executes, RecordOfStep, OutcomeIsEvident, CompletedHasEvidence,
      FailureTellsRecord, StatusOfStep, State, Executing, Active, Underway, Unclaimed, Completed
<1>12. ASSUME NEW p \in Process, Completes(p) PROVE OutcomeIsEvident'
  <2>1. /\ status'[camp[p]].state = page[p].record[camp[p]]
        /\ \A c \in Campaign \ {camp[p]} : status'[c] = status[c]
        /\ current' = current /\ output' = output
    BY <1>12 DEF Completes, SetState, TypeOK
  <2>2. /\ output[camp[p]] = Reports /\ current.record[camp[p]] = page[p].record[camp[p]]
        /\ page[p].record[camp[p]] \in Completed
    BY <1>12 DEF Completes, ReportsOfStep, RecordOfStep, PageIsRead
  <2> QED
    BY <2>1, <2>2 DEF OutcomeIsEvident, CompletedHasEvidence, FailureTellsRecord, State, Completed
<1>13. ASSUME NEW p \in Process, Fails(p) PROVE OutcomeIsEvident'
  <2>1. /\ status'[camp[p]].state =
               IF pc[p] = "recorded" THEN "FINALIZATION_INCONSISTENT_REQUIRES_OPERATOR_REVIEW"
               ELSE "FAILED_AFTER_CLAIM"
        /\ \A c \in Campaign \ {camp[p]} : status'[c] = status[c]
        /\ current' = current /\ output' = output
    BY <1>13 DEF Fails, SetState, TypeOK, Executing, Active
  <2>2. (pc[p] = "recorded") = (current.record[camp[p]] # None)
    BY <1>13 DEF Fails, RecordOfStep, PageIsRead, Completed, Active
  <2> QED
    BY <2>1, <2>2 DEF OutcomeIsEvident, CompletedHasEvidence, FailureTellsRecord, State, Completed
<1>14. ASSUME NEW p \in Process, Killed(p) PROVE OutcomeIsEvident'
  BY <1>14 DEF Killed, OutcomeIsEvident, CompletedHasEvidence, FailureTellsRecord, State
<1>15. ASSUME NEW c \in Campaign, NEW content \in Version \cup {Draft}, Freezes(c, content) PROVE OutcomeIsEvident'
  BY <1>15 DEF Freezes, OutcomeIsEvident, CompletedHasEvidence, FailureTellsRecord, State
<1>16. ASSUME NEW authorization \in Authorization, Authorizes(authorization) PROVE OutcomeIsEvident'
  BY <1>16 DEF Authorizes, OutcomeIsEvident, CompletedHasEvidence, FailureTellsRecord, State
<1>17. ASSUME NEW c \in Campaign, RemovesLock(c) PROVE OutcomeIsEvident'
  BY <1>17 DEF RemovesLock, OutcomeIsEvident, CompletedHasEvidence, FailureTellsRecord, State
<1>18. ASSUME NEW c \in Campaign, Discards(c) PROVE OutcomeIsEvident'
  BY <1>18
  DEF Discards, OutcomeIsEvident, CompletedHasEvidence, FailureTellsRecord, TypeOK, State, Completed
<1>20. ASSUME NEW p \in Process, Verifies(p) PROVE OutcomeIsEvident'
  BY <1>20 DEF Verifies, OutcomeIsEvident, CompletedHasEvidence, FailureTellsRecord, State
<1>21. ASSUME NEW p \in Process, Unlocks(p) PROVE OutcomeIsEvident'
  BY <1>21 DEF Unlocks, Leaves, OutcomeIsEvident, CompletedHasEvidence, FailureTellsRecord, State
<1>22. ASSUME NEW p \in Process, Raises(p) PROVE OutcomeIsEvident'
  BY <1>22 DEF Raises, Leaves, OutcomeIsEvident, CompletedHasEvidence, FailureTellsRecord, State
<1>19. CASE UNCHANGED vars
  BY <1>19 DEF vars, OutcomeIsEvident, CompletedHasEvidence, FailureTellsRecord, State
<1> QED
  BY <1>1, <1>2, <1>3, <1>4, <1>5, <1>6, <1>7, <1>8, <1>9, <1>10, <1>11, <1>12, <1>13, <1>14, <1>15, <1>16, <1>17, <1>18, <1>19,
     <1>20, <1>21, <1>22
  DEF Next, Operator, Proceeds, Authorization

\* A campaign with a record is not claimed.
LEMMA ConsumedStays == IInv /\ EvidenceInv /\ [Next]_vars => RecordedStaysConsumed
<1> SUFFICES ASSUME IInv, EvidenceInv, [Next]_vars PROVE RecordedStaysConsumed
  OBVIOUS
<1> USE DayRunAssumption DEF history, files, memory, IInv, EvidenceInv
<1>1. ASSUME NEW p \in Process, NEW c \in Campaign, Begins(p, c) PROVE RecordedStaysConsumed
  BY <1>1 DEF Begins, RecordedStaysConsumed
<1>2. ASSUME NEW p \in Process, Preflights(p) PROVE RecordedStaysConsumed
  BY <1>2 DEF Preflights, RecordedStaysConsumed
<1>3. ASSUME NEW p \in Process, LocksToReject(p) PROVE RecordedStaysConsumed
  BY <1>3 DEF LocksToReject, RecordedStaysConsumed
<1>4. ASSUME NEW p \in Process, Rejects(p) PROVE RecordedStaysConsumed
  BY <1>4 DEF Rejects, RecordedStaysConsumed
<1>5. ASSUME NEW p \in Process, LocksToClaim(p) PROVE RecordedStaysConsumed
  BY <1>5 DEF LocksToClaim, RecordedStaysConsumed
<1>6. ASSUME NEW p \in Process, Rereads(p) PROVE RecordedStaysConsumed
  BY <1>6 DEF Rereads, RecordedStaysConsumed
<1>7. ASSUME NEW p \in Process, Claims(p) PROVE RecordedStaysConsumed
  <2>1. starts' # starts => current.record[camp[p]] = None
    BY <1>7 DEF Claims, RecordOfStep
  <2>2. \A c \in Campaign \ {camp[p]} : starts'[c] = starts[c]
    BY <1>7 DEF Claims, HistoryOK
  <2> QED
    BY <2>1, <2>2 DEF RecordedStaysConsumed
<1>8. ASSUME NEW p \in Process, WritesScenarios(p) \/ WritesReports(p) PROVE RecordedStaysConsumed
  BY <1>8 DEF WritesScenarios, WritesReports, Executes, RecordedStaysConsumed
<1>9. ASSUME NEW p \in Process, Finalizes(p) PROVE RecordedStaysConsumed
  BY <1>9 DEF Finalizes, Executes, RecordedStaysConsumed
<1>10. ASSUME NEW p \in Process, ReadsCurrentState(p) PROVE RecordedStaysConsumed
  BY <1>10 DEF ReadsCurrentState, Executes, RecordedStaysConsumed
<1>11. ASSUME NEW p \in Process, NEW final \in Completed, AppendsRecord(p, final) PROVE RecordedStaysConsumed
  BY <1>11 DEF AppendsRecord, Executes, RecordedStaysConsumed
<1>12. ASSUME NEW p \in Process, Completes(p) PROVE RecordedStaysConsumed
  BY <1>12 DEF Completes, RecordedStaysConsumed
<1>13. ASSUME NEW p \in Process, Fails(p) PROVE RecordedStaysConsumed
  BY <1>13 DEF Fails, RecordedStaysConsumed
<1>14. ASSUME NEW p \in Process, Killed(p) PROVE RecordedStaysConsumed
  BY <1>14 DEF Killed, RecordedStaysConsumed
<1>15. ASSUME NEW c \in Campaign, NEW content \in Version \cup {Draft}, Freezes(c, content) PROVE RecordedStaysConsumed
  BY <1>15 DEF Freezes, RecordedStaysConsumed
<1>16. ASSUME NEW authorization \in Authorization, Authorizes(authorization) PROVE RecordedStaysConsumed
  BY <1>16 DEF Authorizes, RecordedStaysConsumed
<1>17. ASSUME NEW c \in Campaign, RemovesLock(c) PROVE RecordedStaysConsumed
  BY <1>17 DEF RemovesLock, RecordedStaysConsumed
<1>18. ASSUME NEW c \in Campaign, Discards(c) PROVE RecordedStaysConsumed
  BY <1>18 DEF Discards, RecordedStaysConsumed
<1>20. ASSUME NEW p \in Process, Verifies(p) PROVE RecordedStaysConsumed
  BY <1>20 DEF Verifies, RecordedStaysConsumed
<1>21. ASSUME NEW p \in Process, Unlocks(p) PROVE RecordedStaysConsumed
  BY <1>21 DEF Unlocks, Leaves, RecordedStaysConsumed
<1>22. ASSUME NEW p \in Process, Raises(p) PROVE RecordedStaysConsumed
  BY <1>22 DEF Raises, Leaves, RecordedStaysConsumed
<1>19. CASE UNCHANGED vars
  BY <1>19 DEF vars, RecordedStaysConsumed
<1> QED
  BY <1>1, <1>2, <1>3, <1>4, <1>5, <1>6, <1>7, <1>8, <1>9, <1>10, <1>11, <1>12, <1>13, <1>14, <1>15, <1>16, <1>17, <1>18, <1>19,
     <1>20, <1>21, <1>22
  DEF Next, Operator, Proceeds, Authorization

\* The second invariant, of runs where no two processes are between reading
\* CURRENT_STATE.md and replacing it.
LEMMA EvidenceInvariant == Spec /\ []ReadsAlone => []EvidenceInv
<1>1. Init => EvidenceInv
  BY DEF Init, EvidenceInv, ReportsOfStep, RecordOfStep, OutcomeIsEvident,
         CompletedHasEvidence, FailureTellsRecord, State, Executing, Active, Completed
<1>2. IInv /\ EvidenceInv /\ ReadsAlone /\ [Next]_vars => EvidenceInv'
  BY ReportsStep, RecordStep, OutcomeStep DEF EvidenceInv
<1> QED
  BY <1>1, <1>2, InductiveInvariant, PTL DEF Spec

\* In a run where no two processes are between reading CURRENT_STATE.md and
\* replacing it, what RUN_STATUS.json says of a campaign is what its reports
\* and its record show.
THEOREM OutcomeEvidentWhenReadsAreAlone == Spec /\ []ReadsAlone => []OutcomeIsEvident
<1>1. EvidenceInv => OutcomeIsEvident
  BY DEF EvidenceInv
<1> QED
  BY <1>1, EvidenceInvariant, PTL

\* In such a run the status and the record of a campaign keep it from being
\* executed again.
THEOREM EvidenceKeptWhenReadsAreAlone == Spec /\ []ReadsAlone => EvidenceIsKept
<1>1. IInv /\ EvidenceInv /\ [Next]_vars => [StatusIsEvidence /\ RecordedStaysConsumed]_vars
  BY StatusStaysEvidence, ConsumedStays
<1> QED
  BY <1>1, InductiveInvariant, EvidenceInvariant, PTL DEF Spec, EvidenceIsKept

\* Two processes do not execute one campaign together.
LEMMA OneCampaignReadsAlone ==
    ASSUME NEW c, Campaign = {c} PROVE Spec => []ReadsAlone
<1>1. IInv => ReadsAlone
  <2>1. IInv => \A p, q \in Process :
            pc[p] = "read" /\ pc[q] = "read" => camp[p] = c /\ camp[q] = c
    BY HasCampaign DEF IInv
  <2> QED
    BY <2>1 DEF IInv, Alone, ReadsAlone, Active, Executing
<1> QED
  BY <1>1, InductiveInvariant, PTL

\* Where there is one campaign its claim is enough for its outcome to be evident.
THEOREM OutcomeEvidentForOneCampaign ==
    ASSUME NEW c, Campaign = {c} PROVE Spec => []OutcomeIsEvident
  BY OneCampaignReadsAlone, OutcomeEvidentWhenReadsAreAlone, PTL

\* And for what says that it has been run to be kept.
THEOREM EvidenceKeptForOneCampaign ==
    ASSUME NEW c, Campaign = {c} PROVE Spec => EvidenceIsKept
  BY OneCampaignReadsAlone, EvidenceKeptWhenReadsAreAlone, PTL
=============================================================================
