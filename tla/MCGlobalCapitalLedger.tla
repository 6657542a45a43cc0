------------------------ MODULE MCGlobalCapitalLedger ------------------------
(***************************************************************************)
(* Small instances of GlobalCapitalLedger for TLC.                         *)
(***************************************************************************)
EXTENDS LedgerRefinement

\* Each pair trades an asset of its own.
MCTradedAsset == [p \in Pair |-> IF p = "PAIR_A" THEN "AAA" ELSE "BBB"]

\* A fill brings one unit less than it uses, so that cost and quantity differ
\* and a pro-rata share has something to round.
MCEntryGain == {-1}
MCReturnGain == {-1, 0, 2}
=============================================================================
