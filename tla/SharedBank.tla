---------------------------- MODULE SharedBank ----------------------------
(***************************************************************************)
(* What the shared bank promises its pairs: one free balance, an amount    *)
(* committed per pair, and a result per pair.  A step is for one pair and  *)
(* leaves the other pairs' money and results alone; a pair's result is     *)
(* what its own sales brought minus what it had committed to them.         *)
(***************************************************************************)
EXTENDS Integers

CONSTANTS Pair, InitialBank

VARIABLES free, committed, result

bankVars == <<free, committed, result>>

Init ==
    /\ free = InitialBank
    /\ committed = [p \in Pair |-> 0]
    /\ result = [p \in Pair |-> 0]

\* Free cash becomes the pair's: an order, or a cost of its inventory.
Commit(p) ==
    /\ free' \in 0..free
    /\ committed' = [committed EXCEPT ![p] = @ + free - free']
    /\ UNCHANGED result

\* An acknowledged cancel gives back exactly what was committed.
Release(p) ==
    \E amount \in 0..committed[p] :
        /\ free' = free + amount
        /\ committed' = [committed EXCEPT ![p] = @ - amount]
        /\ UNCHANGED result

\* A sale takes its cost out of the pair's commitment; the proceeds are free
\* and the difference is the pair's own result.
Settle(p) ==
    \E cost \in 0..committed[p] :
        /\ free' \in Nat /\ free' >= free
        /\ committed' = [committed EXCEPT ![p] = @ - cost]
        /\ result' = [result EXCEPT ![p] = @ + (free' - free) - cost]

Next == \E p \in Pair : Commit(p) \/ Release(p) \/ Settle(p)

Spec == Init /\ [][Next]_bankVars
=============================================================================
