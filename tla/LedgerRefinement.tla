------------------------- MODULE LedgerRefinement -------------------------
(***************************************************************************)
(* GlobalCapitalLedger implements SharedBank: what is committed to a pair  *)
(* is the cost, with the costs attributed to it, of all that the pair has  *)
(* on the books; its result is that of its closed cycles and of the fills  *)
(* of its returns that are still open.                                     *)
(***************************************************************************)
EXTENDS GlobalCapitalLedger

OwnedBy(pair) ==
    Total({i \in DOMAIN positions : positions[i].pair = pair}, CostOf(positions), MaxCapital)
    + Total({i \in DOMAIN positions : positions[i].pair = pair}, AttributableOf(positions), MaxCapital)
    + Total({i \in DOMAIN dust : dust[i].pair = pair}, CostOf(dust), MaxCapital)

ResultOf(pair) ==
    Total({c \in DOMAIN cycles : cycles[c].pair = pair},
          [c \in DOMAIN cycles |-> NetPnl(cycles[c])], MaxCycle)
    + Total({i \in DOMAIN positions : positions[i].pair = pair},
            [i \in DOMAIN positions |-> Realized(positions[i])], MaxCapital)

Bank == INSTANCE SharedBank
    WITH committed <- [p \in Pair |-> OwnedBy(p)],
         result    <- [p \in Pair |-> ResultOf(p)]

\* No operation mixes the money of two pairs: no pair's profit covers the
\* other's loss, and consolidation, residues and dust keep every cost with the
\* pair that paid it.
ImplementsSharedBank == Bank!Spec
=============================================================================
