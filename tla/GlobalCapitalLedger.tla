------------------------- MODULE GlobalCapitalLedger -------------------------
(***************************************************************************)
(* The shared physical bank of the M035 line: free cash, the capital       *)
(* positions of the two pairs, their dust lots, the attribution of closed  *)
(* cycles and the risk-exit authorizations.                                *)
(*                                                                         *)
(* A capital id M035-CAP-00000i is the number i.  Every operation of the   *)
(* class is one action; its precondition is the conjunction of the checks  *)
(* that otherwise raise before any field is assigned.  reconcile(), which  *)
(* raises AFTER the fields are assigned, is deliberately no precondition:  *)
(* ReconcileHolds says that it never raises.                               *)
(*                                                                         *)
(* Left out: the audit rows, the lineage tuples (source ids, source        *)
(* cycles, candidate ids), and cancel_requested_at_us, which the           *)
(* causality check already bounds by the time of any later event.          *)
(***************************************************************************)
EXTENDS Integers, FiniteSets, LedgerArithmetic

CONSTANTS
    Pair,            \* the two pair ids
    Asset,           \* every asset, USDT included
    TradedAsset,     \* the asset a pair buys with USDT
    InitialBank,     \* INITIAL_BANK_USDT
    MaxCapital,      \* bound: capital ids issued
    MaxCycle,        \* bound: cycle ids the callers use
    AuthorizationId,
    NoAuthorization,
    MaxTime,         \* bound: last event time
    Grant,           \* amounts the callers reserve
    EntryGain,       \* quantity an entry fill brings, minus the USDT it uses
    ReturnGain,      \* USDT a return fill brings, minus the quantity it sells
    Mark,            \* causal marks
    Cost,            \* attributable costs
    ExitQuantity,    \* authorized quantities
    Loss             \* authorized losses (loss_if_exit_now_usdt)

USDT == "USDT"
NoCycle == 0

ASSUME LedgerAssumption ==
    /\ USDT \in Asset
    /\ TradedAsset \in [Pair -> Asset \ {USDT}]
    /\ InitialBank \in Nat /\ MaxCapital \in Nat /\ MaxCycle \in Nat
    /\ MaxTime \in Nat
    /\ NoAuthorization \notin AuthorizationId
    /\ Grant \subseteq Nat \ {0}
    /\ EntryGain \subseteq Int /\ ReturnGain \subseteq Int
    /\ Mark \subseteq Nat \ {0} /\ 1 \in Mark
    /\ ExitQuantity \subseteq Nat \ {0}
    /\ Cost \subseteq Nat /\ Loss \subseteq Nat

CapitalId == 1..MaxCapital
CycleId   == 1..MaxCycle
Time      == 0..MaxTime

VARIABLES
    free,            \* free_usdt
    positions,       \* capital id -> CapitalPosition
    dust,            \* capital id -> DustLot
    cycles,          \* cycle id -> CycleRecord
    realizedPnl,     \* realized_pnl_usdt
    externalCosts,   \* external_costs_usdt
    assetMarks,      \* asset_marks_usdt, over the assets marked so far
    authorizations,  \* risk_exit_authorizations
    consumed,        \* consumed_risk_exit_authorizations
    sequence,        \* _sequence
    lastEvent        \* _last_event_us

vars == <<free, positions, dust, cycles, realizedPnl, externalCosts,
          assetMarks, authorizations, consumed, sequence, lastEvent>>

-----------------------------------------------------------------------------
\* States of a position.  The code's names carry the pair as a suffix
\* (RESERVED_PAIR_A, ...), which the pair field of the position repeats.
CapitalState == {"RESERVED", "CANCEL_PENDING", "INVENTORY", "RETURN"}

CapitalPosition ==
    [pair: Pair, state: CapitalState, asset: Asset,
     cost: Nat, marked: Nat, quantity: Nat, attributable: Nat,
     returnedProceeds: Nat, returnedQuantity: Nat,
     returnedCost: Nat, returnedAttributable: Nat,
     pendingCycle: CycleId \cup {NoCycle}]

DustLot == [pair: Pair, asset: Asset, quantity: Nat \ {0}, cost: Nat, created: Time]

\* A CycleRecord joined with the RETURN_SETTLED audit row of the same cycle,
\* which names the capital, the quantity sold and the authorization.
CycleRecord ==
    [pair: Pair, proceeds: Nat, cost: Nat, attributable: Nat,
     capital: CapitalId, quantity: Nat,
     authorization: AuthorizationId \cup {NoAuthorization}]

\* The three benefits of exiting are compared with the loss once, when the
\* authorization is built; what the ledger reads afterwards is `loss'.
RiskExitAuthorization ==
    [capital: CapitalId, pair: Pair, decided: Time, expires: Time,
     quantity: Nat \ {0}, loss: Nat]

TypeOK ==
    /\ free \in Nat
    /\ sequence \in 0..MaxCapital
    /\ lastEvent \in Time
    /\ DOMAIN positions \subseteq 1..sequence
    /\ positions \in [DOMAIN positions -> CapitalPosition]
    /\ DOMAIN dust \subseteq 1..sequence
    /\ dust \in [DOMAIN dust -> DustLot]
    /\ DOMAIN cycles \subseteq CycleId
    /\ cycles \in [DOMAIN cycles -> CycleRecord]
    /\ realizedPnl \in Int
    /\ externalCosts \in Nat
    /\ DOMAIN assetMarks \subseteq Asset
    /\ assetMarks \in [DOMAIN assetMarks -> Mark]
    /\ DOMAIN authorizations \subseteq AuthorizationId
    /\ authorizations \in [DOMAIN authorizations -> RiskExitAuthorization]
    /\ consumed \subseteq AuthorizationId

-----------------------------------------------------------------------------
Empty == [i \in {} |-> 0]
WithoutNothing(f, S) == f                         \* faulty: nothing deleted
Without(f, S) == [i \in DOMAIN f \ S |-> f[i]]
With(f, i, v) == [j \in DOMAIN f \cup {i} |-> IF j = i THEN v ELSE f[j]]

FreshPosition(pair, state, asset, cost, marked, quantity, attributable) ==
    [pair |-> pair, state |-> state, asset |-> asset, cost |-> cost,
     marked |-> marked, quantity |-> quantity, attributable |-> attributable,
     returnedProceeds |-> 0, returnedQuantity |-> 0, returnedCost |-> 0,
     returnedAttributable |-> 0, pendingCycle |-> NoCycle]

\* _causal and _commit: events come in time order.
Causal(now) == now >= lastEvent
Commit(now) == lastEvent' = now

\* The number of the next capital id.
NextId == sequence + 1

HasState(id, states) == id \in DOMAIN positions /\ positions[id].state \in states

Init ==
    /\ free = InitialBank
    /\ positions = Empty
    /\ dust = Empty
    /\ cycles = Empty
    /\ realizedPnl = 0
    /\ externalCosts = 0
    /\ assetMarks = [a \in {USDT} |-> 1]
    /\ authorizations = Empty
    /\ consumed = {}
    /\ sequence = 0
    /\ lastEvent = 0

-----------------------------------------------------------------------------
CanReserveFromBank(amount) == amount <= InitialBank   \* faulty: not the free part
CanReserve(amount) == amount <= free

\* reserve: cash leaves the free balance and becomes a USDT position.
Reserve(pair, amount, now) ==
    LET id == NextId
    IN  /\ Causal(now)
        /\ CanReserve(amount)
        /\ id \in CapitalId
        /\ free' = free - amount
        /\ positions' = With(positions, id,
               FreshPosition(pair, "RESERVED", USDT, amount, amount, amount, 0))
        /\ sequence' = id
        /\ Commit(now)
        /\ UNCHANGED <<dust, cycles, realizedPnl, externalCosts, assetMarks,
                       authorizations, consumed>>

\* request_cancel: nothing is released yet.
RequestCancel(id, now) ==
    /\ Causal(now)
    /\ HasState(id, {"RESERVED"})
    /\ positions' = [positions EXCEPT ![id].state = "CANCEL_PENDING"]
    /\ Commit(now)
    /\ UNCHANGED <<free, dust, cycles, realizedPnl, externalCosts, assetMarks,
                   authorizations, consumed, sequence>>

AwaitsAnyAck(id) == HasState(id, {"RESERVED", "CANCEL_PENDING"})  \* faulty: no request needed
AwaitsAck(id) == HasState(id, {"CANCEL_PENDING"})

\* acknowledge_cancel: what the cancelled order still holds is freed.
AcknowledgeCancel(id, now) ==
    /\ Causal(now)
    /\ AwaitsAck(id)
    /\ positions[id].asset = USDT
    /\ free' = free + positions[id].marked
    /\ positions' = Without(positions, {id})
    /\ Commit(now)
    /\ UNCHANGED <<dust, cycles, realizedPnl, externalCosts, assetMarks,
                   authorizations, consumed, sequence>>

\* record_entry_fill, consuming all the reserved USDT: the position itself
\* becomes the inventory.
FullEntryUncharged(id, quantity, mark, cost) ==   \* faulty: cost not attributed
    [positions EXCEPT ![id].state = "INVENTORY",
                      ![id].asset = TradedAsset[positions[id].pair],
                      ![id].quantity = quantity,
                      ![id].marked = quantity * mark]
FullEntryPositions(id, quantity, mark, cost) ==
    [positions EXCEPT ![id].state = "INVENTORY",
                      ![id].asset = TradedAsset[positions[id].pair],
                      ![id].quantity = quantity,
                      ![id].marked = quantity * mark,
                      ![id].attributable = @ + cost]

\* record_entry_fill, consuming a part: the rest keeps the id and the state,
\* the inventory is a new position.
PartialEntryFrom(P, id, input, quantity, mark, cost) ==
    LET pair == positions[id].pair
    IN  With(P, NextId,
             FreshPosition(pair, "INVENTORY", TradedAsset[pair], input,
                           quantity * mark, quantity, cost))
PartialEntryStale(id, input, quantity, mark, cost) ==   \* faulty: old mark kept
    PartialEntryFrom([positions EXCEPT ![id].cost = @ - input,
                                       ![id].quantity = @ - input],
                     id, input, quantity, mark, cost)
PartialEntryPositions(id, input, quantity, mark, cost) ==
    LET rest == positions[id].cost - input
    IN  PartialEntryFrom([positions EXCEPT ![id].cost = rest,
                                           ![id].marked = rest,
                                           ![id].quantity = rest],
                         id, input, quantity, mark, cost)

\* The fill's mark becomes the asset's mark.
EntryMarks(asset, mark) == With(assetMarks, asset, mark)

\* record_entry_fill, also while the order's cancel is pending.
RecordEntryFill(id, input, quantity, mark, cost, now) ==
    /\ Causal(now)
    /\ HasState(id, {"RESERVED", "CANCEL_PENDING"})
    /\ input <= positions[id].cost
    /\ cost <= free
    /\ \/ /\ input = positions[id].cost
          /\ positions' = FullEntryPositions(id, quantity, mark, cost)
          /\ UNCHANGED sequence
       \/ /\ input < positions[id].cost
          /\ NextId \in CapitalId
          /\ positions' = PartialEntryPositions(id, input, quantity, mark, cost)
          /\ sequence' = NextId
    /\ free' = free - cost
    /\ externalCosts' = externalCosts + cost
    /\ assetMarks' = EntryMarks(TradedAsset[positions[id].pair], mark)
    /\ Commit(now)
    /\ UNCHANGED <<dust, cycles, realizedPnl, authorizations, consumed>>

\* reserve_owned_return
ReserveOwnedReturn(id, now) ==
    /\ Causal(now)
    /\ HasState(id, {"INVENTORY"})
    /\ positions' = [positions EXCEPT ![id].state = "RETURN"]
    /\ Commit(now)
    /\ UNCHANGED <<free, dust, cycles, realizedPnl, externalCosts, assetMarks,
                   authorizations, consumed, sequence>>

-----------------------------------------------------------------------------
\* The dust lot a position leaves behind; its cost absorbs the attributable
\* costs of the quantity that was not sold.
ResidualLot(id, quantity, cost, now) ==
    [pair |-> positions[id].pair, asset |-> positions[id].asset,
     quantity |-> quantity, cost |-> cost, created |-> now]

\* move_untradeable_inventory_to_dust
MoveToDust(id, now) ==
    LET p == positions[id]
    IN  /\ Causal(now)
        /\ HasState(id, {"INVENTORY"})
        /\ p.asset # USDT
        /\ p.quantity > 0
        /\ p.returnedQuantity = 0
        /\ p.pendingCycle = NoCycle
        /\ dust' = With(dust, id, ResidualLot(id, p.quantity, p.cost + p.attributable, now))
        /\ positions' = Without(positions, {id})
        /\ Commit(now)
        /\ UNCHANGED <<free, cycles, realizedPnl, externalCosts, assetMarks,
                       authorizations, consumed, sequence>>

\* One amount per position.
CostOf(P)         == [i \in DOMAIN P |-> P[i].cost]
AttributableOf(P) == [i \in DOMAIN P |-> P[i].attributable]
MarkedOf(P)       == [i \in DOMAIN P |-> P[i].marked]
QuantityOf(P)     == [i \in DOMAIN P |-> P[i].quantity]

\* consolidate_inventory: the lots of one pair become one lot under a new id.
ConsolidateInventory(ids, pair, asset, now) ==
    LET id == NextId
        sum(field) == Total(ids, field, MaxCapital)
    IN  /\ Causal(now)
        /\ ids # {}
        /\ \A i \in ids : /\ HasState(i, {"INVENTORY"})
                          /\ positions[i].pair = pair
                          /\ positions[i].asset = asset
        /\ id \in CapitalId
        /\ positions' = With(Without(positions, ids), id,
               FreshPosition(pair, "INVENTORY", asset,
                             sum(CostOf(positions)), sum(MarkedOf(positions)),
                             sum(QuantityOf(positions)),
                             sum(AttributableOf(positions))))
        /\ sequence' = id
        /\ Commit(now)
        /\ UNCHANGED <<free, dust, cycles, realizedPnl, externalCosts,
                       assetMarks, authorizations, consumed>>

\* register_risk_exit_authorization: decided now, for capital the pair owns
\* as inventory.
RegisterRiskExit(auth, id, expires, quantity, loss, now) ==
    /\ Causal(now)
    /\ HasState(id, {"INVENTORY", "RETURN"})
    /\ auth \notin DOMAIN authorizations
    /\ auth \notin consumed
    /\ expires >= now
    /\ authorizations' = With(authorizations, auth,
           [capital |-> id, pair |-> positions[id].pair, decided |-> now,
            expires |-> expires, quantity |-> quantity, loss |-> loss])
    /\ Commit(now)
    /\ UNCHANGED <<free, positions, dust, cycles, realizedPnl, externalCosts,
                   assetMarks, consumed, sequence>>

-----------------------------------------------------------------------------
\* The position once a fill has sold some of it: the sold quantity takes its
\* pro-rata cost along, the rest is obtained by subtraction.
ReturnedKeepingCosts(p, sold, proceeds) ==   \* faulty: costs stay with the rest
    LET soldCost == ProRata(p.cost, sold, p.quantity)
    IN  [p EXCEPT !.quantity = @ - sold,
                  !.cost = @ - soldCost,
                  !.returnedProceeds = @ + proceeds,
                  !.returnedQuantity = @ + sold,
                  !.returnedCost = @ + soldCost,
                  !.returnedAttributable = @ + p.attributable]
Returned(p, sold, proceeds) ==
    LET soldCost         == ProRata(p.cost, sold, p.quantity)
        soldAttributable == ProRata(p.attributable, sold, p.quantity)
    IN  [p EXCEPT !.quantity = @ - sold,
                  !.cost = @ - soldCost,
                  !.attributable = @ - soldAttributable,
                  !.returnedProceeds = @ + proceeds,
                  !.returnedQuantity = @ + sold,
                  !.returnedCost = @ + soldCost,
                  !.returnedAttributable = @ + soldAttributable]

\* What the fills of a return have earned so far.
Realized(p) == p.returnedProceeds - p.returnedCost - p.returnedAttributable

\* A loss is settled only against an authorization that covers it; r is the
\* position after the fill.
AuthorizedForAny(auth, id, r, complete, now) ==   \* faulty: of any capital
    /\ auth \in DOMAIN authorizations \ consumed
    /\ now <= authorizations[auth].expires
    /\ -Realized(r) <= authorizations[auth].loss
Authorized(auth, id, r, complete, now) ==
    /\ auth \in DOMAIN authorizations \ consumed
    /\ authorizations[auth].capital = id
    /\ authorizations[auth].pair = r.pair
    /\ authorizations[auth].decided <= now
    /\ now <= authorizations[auth].expires
    /\ -Realized(r) <= authorizations[auth].loss
    /\ complete => r.returnedQuantity = authorizations[auth].quantity

\* The checks of settle_return, before it assigns anything.  The callers
\* complete an order that sells the whole position, and pass a positive
\* residual mark.
SettlementAllowed(id, cycle, sold, r, auth, complete, now) ==
    /\ Causal(now)
    /\ HasState(id, {"RETURN"})
    /\ sold <= positions[id].quantity
    /\ sold = positions[id].quantity => complete
    /\ positions[id].pendingCycle \in {NoCycle, cycle}
    /\ cycle \notin DOMAIN cycles
    /\ Realized(r) < 0 => Authorized(auth, id, r, complete, now)

\* settle_return with return_order_complete = False.
SettlePartialReturn(id, cycle, sold, proceeds, auth, now) ==
    LET p == positions[id]
        r == Returned(p, sold, proceeds)
    IN  /\ SettlementAllowed(id, cycle, sold, r, auth, FALSE, now)
        /\ free' = free + proceeds
        /\ realizedPnl' = realizedPnl + Realized(r) - Realized(p)
        /\ positions' = [positions EXCEPT ![id] =
               [r EXCEPT !.marked = r.quantity * assetMarks[r.asset],
                         !.pendingCycle = cycle]]
        /\ Commit(now)
        /\ UNCHANGED <<dust, cycles, externalCosts, assetMarks,
                       authorizations, consumed, sequence>>

\* The record of the cycle that closes with the fill from p to r.
LastFillCycle(id, p, r, auth) ==                  \* faulty: the last fill only
    [pair |-> r.pair, proceeds |-> r.returnedProceeds - p.returnedProceeds,
     cost |-> r.returnedCost - p.returnedCost,
     attributable |-> r.returnedAttributable - p.returnedAttributable,
     capital |-> id, quantity |-> r.returnedQuantity,
     authorization |-> IF Realized(r) < 0 THEN auth ELSE NoAuthorization]
ClosedCycle(id, p, r, auth) ==
    [pair |-> r.pair, proceeds |-> r.returnedProceeds,
     cost |-> r.returnedCost, attributable |-> r.returnedAttributable,
     capital |-> id, quantity |-> r.returnedQuantity,
     authorization |-> IF Realized(r) < 0 THEN auth ELSE NoAuthorization]

\* settle_return with return_order_complete = True: the cycle closes, a
\* residue becomes dust under the same id, and a used authorization is spent.
SettleCompleteReturn(id, cycle, sold, proceeds, auth, now) ==
    LET p == positions[id]
        r == Returned(p, sold, proceeds)
    IN  /\ SettlementAllowed(id, cycle, sold, r, auth, TRUE, now)
        /\ free' = free + proceeds
        /\ realizedPnl' = realizedPnl + Realized(r) - Realized(p)
        /\ cycles' = With(cycles, cycle, ClosedCycle(id, p, r, auth))
        /\ consumed' = IF Realized(r) < 0 THEN consumed \cup {auth} ELSE consumed
        /\ positions' = Without(positions, {id})
        /\ dust' = IF r.quantity > 0
                   THEN With(dust, id, ResidualLot(id, r.quantity, r.cost + r.attributable, now))
                   ELSE dust
        /\ Commit(now)
        /\ UNCHANGED <<externalCosts, assetMarks, authorizations, sequence>>

-----------------------------------------------------------------------------
\* DustLedger.consume: oldest lot first, then by capital id.
Lots(pair, asset) == {i \in DOMAIN dust : dust[i].pair = pair /\ dust[i].asset = asset}
OlderById(i, S) == {j \in S : j < i}               \* faulty: creation time ignored
Older(i, S) == {j \in S : \/ dust[j].created < dust[i].created
                          \/ dust[j].created = dust[i].created /\ j < i}

\* What a consumption of `quantity' takes from lot i of S.
Taken(i, S, quantity) ==
    LET left == quantity - Total(Older(i, S), QuantityOf(dust), MaxCapital)
    IN  IF left <= 0 THEN 0
        ELSE IF left < dust[i].quantity THEN left ELSE dust[i].quantity

\* The part of the lot's cost that goes with it.
TakenCost(i, S, quantity) ==
    IF i \in S THEN ProRata(dust[i].cost, Taken(i, S, quantity), dust[i].quantity) ELSE 0

\* The lots that are left; an emptied lot is dropped.
Consumed(S, quantity) ==
    LET taken(i) == IF i \in S THEN Taken(i, S, quantity) ELSE 0
        kept     == {i \in DOMAIN dust : dust[i].quantity > taken(i)}
    IN  [i \in kept |-> [dust[i] EXCEPT !.quantity = @ - taken(i),
                                        !.cost = @ - TakenCost(i, S, quantity)]]

\* reserve_aggregated_dust: dust of one pair becomes a return of its own.
ReserveAggregatedDust(pair, asset, quantity, mark, now) ==
    LET id    == NextId
        S     == Lots(pair, asset)
        costs == [i \in DOMAIN dust |-> TakenCost(i, S, quantity)]
    IN  /\ Causal(now)
        /\ quantity <= Total(S, QuantityOf(dust), MaxCapital)
        /\ \A i \in S : dust[i].created <= now
        /\ id \in CapitalId
        /\ dust' = Consumed(S, quantity)
        /\ positions' = With(positions, id,
               FreshPosition(pair, "RETURN", asset,
                             Total(DOMAIN dust, costs, MaxCapital),
                             quantity * mark, quantity, 0))
        /\ sequence' = id
        /\ Commit(now)
        /\ UNCHANGED <<free, cycles, realizedPnl, externalCosts, assetMarks,
                       authorizations, consumed>>

-----------------------------------------------------------------------------
\* update_mark: one position, and not the asset's mark.
UpdateMark(id, mark, now) ==
    /\ Causal(now)
    /\ id \in DOMAIN positions
    /\ positions' = IF positions[id].asset = USDT THEN positions
                    ELSE [positions EXCEPT ![id].marked = positions[id].quantity * mark]
    /\ Commit(now)
    /\ UNCHANGED <<free, dust, cycles, realizedPnl, externalCosts, assetMarks,
                   authorizations, consumed, sequence>>

\* update_asset_mark: every position in the asset, and the asset's mark.
UpdateAssetMark(asset, mark, now) ==
    /\ Causal(now)
    /\ positions' = [i \in DOMAIN positions |->
           IF positions[i].asset = asset
           THEN [positions[i] EXCEPT !.marked = positions[i].quantity * mark]
           ELSE positions[i]]
    /\ assetMarks' = With(assetMarks, asset, mark)
    /\ Commit(now)
    /\ UNCHANGED <<free, dust, cycles, realizedPnl, externalCosts,
                   authorizations, consumed, sequence>>

\* The callers number the cycles in order; a known id may be offered again.
KnownCycle == DOMAIN cycles \cup {positions[i].pendingCycle : i \in DOMAIN positions}
OfferedCycle == CycleId \cap (KnownCycle \cup {Cardinality(KnownCycle \ {NoCycle}) + 1})

Next == \E now \in Time :
    \/ \E pair \in Pair, amount \in Grant : Reserve(pair, amount, now)
    \/ \E id \in DOMAIN positions :
        \/ RequestCancel(id, now)
        \/ AcknowledgeCancel(id, now)
        \/ \E input \in 1..positions[id].cost, gain \in EntryGain, m \in Mark, c \in Cost :
               /\ input + gain > 0
               /\ RecordEntryFill(id, input, input + gain, m, c, now)
        \/ ReserveOwnedReturn(id, now)
        \/ MoveToDust(id, now)
        \/ \E auth \in AuthorizationId, expires \in Time, q \in ExitQuantity, l \in Loss :
               RegisterRiskExit(auth, id, expires, q, l, now)
        \/ \E cycle \in OfferedCycle, sold \in 1..positions[id].quantity, gain \in ReturnGain,
              auth \in AuthorizationId \cup {NoAuthorization} :
               /\ sold + gain >= 0
               /\ \/ SettlePartialReturn(id, cycle, sold, sold + gain, auth, now)
                  \/ SettleCompleteReturn(id, cycle, sold, sold + gain, auth, now)
        \/ \E m \in Mark : UpdateMark(id, m, now)
    \/ \E pair \in Pair, ids \in SUBSET DOMAIN positions :
           ConsolidateInventory(ids, pair, TradedAsset[pair], now)
    \/ \E pair \in Pair :
        \E q \in 1..Total(Lots(pair, TradedAsset[pair]), QuantityOf(dust), MaxCapital), m \in Mark :
           ReserveAggregatedDust(pair, TradedAsset[pair], q, m, now)
    \/ \E pair \in Pair, m \in Mark : UpdateAssetMark(TradedAsset[pair], m, now)

Spec == Init /\ [][Next]_vars

-----------------------------------------------------------------------------
\* What an owned id is worth on the books: a position's cost with the costs
\* attributed to it, or a dust lot's cost.
Owned(P, D, i) ==
    (IF i \in DOMAIN P THEN P[i].cost + P[i].attributable ELSE 0)
    + (IF i \in DOMAIN D THEN D[i].cost ELSE 0)

Book(P, D) == Total(CapitalId, [i \in CapitalId |-> Owned(P, D, i)], MaxCapital)

\* Net result of a closed cycle (CycleRecord.net_pnl_usdt; the three other
\* cost fields are always recorded as zero).
NetPnl(c) == c.proceeds - c.cost - c.attributable

\* Every USDT of the bank is free, on the books of exactly one id, or has
\* been realized: no operation, partial fill, pro-rata rounding, dust move or
\* consolidation creates or loses money (reserve ... settle_return).
Conservation == free + Book(positions, dust) = InitialBank + realizedPnl

\* Realized profit is exactly what the closed cycles report plus what the
\* partial fills of open returns have earned so far, so that the cycle ledger
\* accounts for all of it once no return is half filled.
CyclesExplainPnl ==
    realizedPnl =
        Total(DOMAIN cycles, [c \in DOMAIN cycles |-> NetPnl(cycles[c])], MaxCycle)
        + Total(DOMAIN positions, [i \in DOMAIN positions |-> Realized(positions[i])], MaxCapital)

\* reconcile() never finds what it looks for after an operation: no negative
\* bucket, no capital id that is both a position and dust.  (Dust ids are
\* unique as long as no lot is added under the id of another one, which
\* Conservation would show as a lost cost.)
ReconcileHolds ==
    /\ free >= 0
    /\ DOMAIN positions \cap DOMAIN dust = {}
    /\ \A i \in DOMAIN positions : positions[i].marked >= 0 /\ positions[i].cost >= 0

\* What a reservation or a pending cancel holds is untouched cash, so that the
\* amount the acknowledgement frees (marked_value_usdt) is what it cost, also
\* after a racing partial fill.
PendingCapitalIsCash ==
    \A i \in DOMAIN positions : positions[i].state \in {"RESERVED", "CANCEL_PENDING"} =>
        /\ positions[i].asset = USDT
        /\ positions[i].marked = positions[i].cost
        /\ positions[i].quantity = positions[i].cost
        /\ positions[i].attributable = 0

\* No closed cycle has lost money unless an authorization registered for its
\* capital, its pair, its quantity and at least its loss was spent on it, and
\* no authorization pays for two cycles.  A return that is under water after
\* some of its fills has been authorized to lose as much, even if that
\* authorization can no longer be used to close it.
LossesAuthorized ==
    /\ \A c \in DOMAIN cycles : NetPnl(cycles[c]) < 0 =>
        LET k == cycles[c]
            a == authorizations[k.authorization]
        IN  /\ k.authorization \in DOMAIN authorizations \cap consumed
            /\ a.capital = k.capital /\ a.pair = k.pair /\ a.quantity = k.quantity
            /\ -NetPnl(k) <= a.loss
    /\ \A c, d \in DOMAIN cycles :
        cycles[c].authorization = cycles[d].authorization /\ c # d
            => cycles[c].authorization = NoAuthorization
    /\ \A i \in DOMAIN positions : Realized(positions[i]) < 0 =>
        \E a \in DOMAIN authorizations :
            /\ authorizations[a].capital = i
            /\ -Realized(positions[i]) <= authorizations[a].loss

\* Every asset the bank owns has a mark, so marked_equity and a partial
\* settlement never miss one.
HoldingsMarked ==
    /\ \A i \in DOMAIN positions : positions[i].asset \in DOMAIN assetMarks
    /\ \A i \in DOMAIN dust : dust[i].asset \in DOMAIN assetMarks

\* The costs charged to positions and cycles were all paid out of the free
\* balance, none twice (dust absorbs the rest).
CostsPaidOnce ==
    Total(DOMAIN positions,
          [i \in DOMAIN positions |->
              positions[i].attributable + positions[i].returnedAttributable], MaxCapital)
    + Total(DOMAIN cycles, [c \in DOMAIN cycles |-> cycles[c].attributable], MaxCycle)
        <= externalCosts

-----------------------------------------------------------------------------
\* The parts of the books that explain the rest: the cycle ledger and the open
\* returns all of the profit, the attributed costs what was paid, and the marks
\* every holding.
BooksAreExplained == CyclesExplainPnl /\ CostsPaidOnce /\ HoldingsMarked

-----------------------------------------------------------------------------
\* Free cash grows only when a cancel is acknowledged, by all the order still
\* held, or when a return sells: a cancel request frees nothing.
CashReturnsByAckOrSale ==
    free' > free =>
        \E i \in DOMAIN positions :
            \/ /\ positions[i].state = "CANCEL_PENDING"
               /\ i \notin DOMAIN positions'
               /\ free' - free = positions[i].cost
            \/ /\ positions[i].state = "RETURN"
               /\ i \in DOMAIN positions' => positions'[i].quantity < positions[i].quantity

\* An id that has left the books never returns to them, and an id on the
\* books never changes pair.
IdsKeepTheirPair ==
    \A i \in 1..sequence :
        /\ i \in DOMAIN positions' \cup DOMAIN dust' => i \in DOMAIN positions \cup DOMAIN dust
        /\ i \in DOMAIN positions' => i \in DOMAIN positions /\ positions'[i].pair = positions[i].pair
        /\ i \in DOMAIN positions \cap DOMAIN dust' => dust'[i].pair = positions[i].pair

\* Cash comes back from the capital that held it, once: by its ACK or its sale,
\* under an id that stays with its pair and is not used again.
CashReturnsOnce == [][CashReturnsByAckOrSale /\ IdsKeepTheirPair]_vars

\* Dust is consumed oldest first: a lot is touched only once every older lot
\* of its pair and asset is used up (DustLedger.consume).
OldestDustFirst ==
    \A i, j \in DOMAIN dust :
        /\ dust[i].pair = dust[j].pair
        /\ dust[j].created < dust[i].created
        /\ i \in DOMAIN dust' => dust'[i].quantity < dust[i].quantity
        => j \notin DOMAIN dust'

\* The quantity of an asset on the books under id i.
HeldOf(P, D, i, asset) ==
    (IF i \in DOMAIN P THEN IF P[i].asset = asset THEN P[i].quantity ELSE 0 ELSE 0)
    + (IF i \in DOMAIN D THEN IF D[i].asset = asset THEN D[i].quantity ELSE 0 ELSE 0)
Held(P, D, asset) == Total(CapitalId, [i \in CapitalId |-> HeldOf(P, D, i, asset)], MaxCapital)

\* Inventory appears only when an entry fill uses reserved cash, and goes only
\* when a return of exactly that capital sells it: consolidation, dust moves,
\* dust aggregation and residues keep every unit.
AssetsMoveOnlyByFills ==
    \A a \in Asset \ {USDT} :
        LET before == Held(positions, dust, a)
            after  == Held(positions', dust', a)
        IN  /\ after > before => Held(positions', dust', USDT) < Held(positions, dust, USDT)
            /\ after < before =>
                   \E i \in DOMAIN positions :
                       /\ positions[i].state = "RETURN"
                       /\ before - after = HeldOf(positions, dust, i, a)
                                           - HeldOf(positions', dust', i, a)

\* Dust is used up in the order of its age, and no operation on dust, residues
\* or consolidated capital makes a unit of an asset or loses one.
DustMovesByRule == [][OldestDustFirst /\ AssetsMoveOnlyByFills]_vars
=============================================================================
