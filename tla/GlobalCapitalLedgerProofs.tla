---------------------- MODULE GlobalCapitalLedgerProofs ----------------------
(***************************************************************************)
(* Proofs about GlobalCapitalLedger, for every bank, every number of       *)
(* capital ids and every set of inputs: first that its books are well      *)
(* formed and reconcile; then what its accounts say of its losses, its     *)
(* profit, its costs and its pairs, that it implements SharedBank, and     *)
(* that dust and inventory move by rule.                                   *)
(***************************************************************************)
EXTENDS LedgerRefinement, LedgerArithmeticProofs, TLAPS

\* What holds of every position whatever its state: its type, that a pending
\* one is untouched cash, and that its asset has a mark.
PositionOK(p, marked) ==
    /\ p \in CapitalPosition
    /\ p.asset \in marked
    /\ p.state \in {"RESERVED", "CANCEL_PENDING"} =>
           /\ p.asset = USDT
           /\ p.marked = p.cost
           /\ p.quantity = p.cost
           /\ p.attributable = 0

PositionsOK(P, issued, marked) ==
    /\ DOMAIN P \subseteq 1..issued
    /\ P = [i \in DOMAIN P |-> P[i]]
    /\ \A i \in DOMAIN P : PositionOK(P[i], marked)

DustOK(D, issued, marked) ==
    /\ DOMAIN D \subseteq 1..issued
    /\ D = [i \in DOMAIN D |-> D[i]]
    /\ \A i \in DOMAIN D : D[i] \in DustLot /\ D[i].asset \in marked

AccountsOK ==
    /\ free \in Nat
    /\ sequence \in 0..MaxCapital
    /\ lastEvent \in Time
    /\ DOMAIN cycles \subseteq CycleId
    /\ cycles \in [DOMAIN cycles -> CycleRecord]
    /\ realizedPnl \in Int
    /\ externalCosts \in Nat
    /\ DOMAIN assetMarks \subseteq Asset
    /\ assetMarks \in [DOMAIN assetMarks -> Mark]
    /\ USDT \in DOMAIN assetMarks
    /\ DOMAIN authorizations \subseteq AuthorizationId
    /\ authorizations \in [DOMAIN authorizations -> RiskExitAuthorization]
    /\ consumed \subseteq AuthorizationId

\* The inductive invariant: the books are well formed ...
WellFormed ==
    /\ AccountsOK
    /\ PositionsOK(positions, sequence, DOMAIN assetMarks)
    /\ DustOK(dust, sequence, DOMAIN assetMarks)
    /\ DOMAIN positions \cap DOMAIN dust = {}

\* ... and they balance.
IInv == WellFormed /\ Conservation

\* WellFormed is the type invariant together with three of the properties.
LEMMA WellFormedMeans ==
    WellFormed => TypeOK /\ ReconcileHolds /\ PendingCapitalIsCash /\ HoldingsMarked
<1> SUFFICES ASSUME WellFormed
             PROVE  TypeOK /\ ReconcileHolds /\ PendingCapitalIsCash /\ HoldingsMarked
    OBVIOUS
<1>1. /\ positions \in [DOMAIN positions -> CapitalPosition]
      /\ dust \in [DOMAIN dust -> DustLot]
    BY DEF WellFormed, PositionsOK, PositionOK, DustOK
<1>2. TypeOK
    BY <1>1 DEF WellFormed, PositionsOK, DustOK, AccountsOK, TypeOK
<1>3. ReconcileHolds
    BY <1>1 DEF WellFormed, AccountsOK, ReconcileHolds, CapitalPosition
<1>4. PendingCapitalIsCash /\ HoldingsMarked
    BY DEF WellFormed, PositionsOK, PositionOK, DustOK, PendingCapitalIsCash, HoldingsMarked
<1>5. QED BY <1>2, <1>3, <1>4

\* What the assumptions on the constants say of the amounts.
LEMMA AmountsAreNumbers ==
    /\ Grant \subseteq Nat \ {0} /\ Mark \subseteq Nat \ {0} /\ Cost \subseteq Nat
    /\ Loss \subseteq Nat /\ ExitQuantity \subseteq Nat \ {0}
    /\ InitialBank \in Nat /\ MaxCapital \in Nat
    /\ USDT \in Asset
    /\ \A p \in Pair : TradedAsset[p] \in Asset /\ TradedAsset[p] # USDT
BY LedgerAssumption

\* A new position is well formed if its parts are.
LEMMA FreshPositionType ==
    ASSUME NEW pair \in Pair, NEW state \in CapitalState, NEW asset \in Asset,
           NEW cost \in Nat, NEW marked \in Nat, NEW quantity \in Nat, NEW attributable \in Nat
    PROVE  FreshPosition(pair, state, asset, cost, marked, quantity, attributable) \in CapitalPosition
BY DEF FreshPosition, CapitalPosition, NoCycle

\* A return fill keeps a position well formed: the pro-rata shares it takes
\* never exceed what there is (ProRataBounds).
LEMMA ReturnedType ==
    ASSUME NEW p \in CapitalPosition, NEW sold \in 1..p.quantity, NEW proceeds \in Nat
    PROVE  /\ Returned(p, sold, proceeds) \in CapitalPosition
           /\ Returned(p, sold, proceeds).quantity = p.quantity - sold
           /\ Returned(p, sold, proceeds).asset = p.asset
           /\ Returned(p, sold, proceeds).pair = p.pair
           /\ Returned(p, sold, proceeds).state = p.state
           /\ Realized(Returned(p, sold, proceeds)) \in Int
           /\ Realized(p) \in Int
           /\ Realized(Returned(p, sold, proceeds)) - Realized(p) =
                  proceeds - (p.cost + p.attributable)
                  + (Returned(p, sold, proceeds).cost + Returned(p, sold, proceeds).attributable)
<1> DEFINE c == ProRata(p.cost, sold, p.quantity)
           a == ProRata(p.attributable, sold, p.quantity)
           r == Returned(p, sold, proceeds)
<1>1. p.quantity \in Nat /\ p.cost \in Nat /\ p.attributable \in Nat /\ sold \in Nat /\ sold <= p.quantity /\ p.quantity > 0
    BY DEF CapitalPosition
<1>2. c \in 0..p.cost /\ a \in 0..p.attributable
    BY <1>1, ProRataBounds
<1>3. r = [p EXCEPT !.quantity = @ - sold, !.cost = @ - c, !.attributable = @ - a,
                    !.returnedProceeds = @ + proceeds, !.returnedQuantity = @ + sold,
                    !.returnedCost = @ + c, !.returnedAttributable = @ + a]
    BY DEF Returned
<1> HIDE DEF c, a, r
<1>4. /\ p.cost - c \in Nat /\ p.attributable - a \in Nat /\ p.quantity - sold \in Nat
      /\ c \in Nat /\ a \in Nat
    BY <1>1, <1>2
<1>5. r \in CapitalPosition
    <2>1. r = [pair |-> p.pair, state |-> p.state, asset |-> p.asset,
               cost |-> p.cost - c, marked |-> p.marked, quantity |-> p.quantity - sold,
               attributable |-> p.attributable - a,
               returnedProceeds |-> p.returnedProceeds + proceeds,
               returnedQuantity |-> p.returnedQuantity + sold,
               returnedCost |-> p.returnedCost + c,
               returnedAttributable |-> p.returnedAttributable + a,
               pendingCycle |-> p.pendingCycle]
        BY <1>3 DEF CapitalPosition
    <2>2. /\ p.returnedProceeds + proceeds \in Nat /\ p.returnedQuantity + sold \in Nat
          /\ p.returnedCost + c \in Nat /\ p.returnedAttributable + a \in Nat
        BY <1>1, <1>4 DEF CapitalPosition
    <2>3. QED BY <2>1, <2>2, <1>4 DEF CapitalPosition
<1>6. /\ r.quantity = p.quantity - sold /\ r.asset = p.asset /\ r.pair = p.pair /\ r.state = p.state
      /\ r.cost = p.cost - c /\ r.attributable = p.attributable - a
      /\ r.returnedProceeds = p.returnedProceeds + proceeds
      /\ r.returnedCost = p.returnedCost + c
      /\ r.returnedAttributable = p.returnedAttributable + a
    BY <1>3 DEF CapitalPosition
<1>7. /\ p.returnedProceeds \in Nat /\ p.returnedCost \in Nat /\ p.returnedAttributable \in Nat
    BY DEF CapitalPosition
<1>8. QED BY <1>1, <1>4, <1>5, <1>6, <1>7 DEF Realized, r

-----------------------------------------------------------------------------
(* Book, when what one id is worth changes.                                *)

\* What an id is worth is a natural number.
LEMMA OwnedType ==
    ASSUME WellFormed
    PROVE  \A i \in CapitalId : Owned(positions, dust, i) \in Nat
BY DEF WellFormed, PositionsOK, PositionOK, DustOK, CapitalPosition, DustLot, Owned

\* If what one id is worth changes, the books change by as much ...
LEMMA BookChange ==
    ASSUME MaxCapital \in Nat, NEW P, NEW D, NEW Q, NEW E, NEW k \in CapitalId,
           \A i \in CapitalId : Owned(P, D, i) \in Int /\ Owned(Q, E, i) \in Int,
           \A i \in CapitalId \ {k} : Owned(Q, E, i) = Owned(P, D, i)
    PROVE  Book(Q, E) = Book(P, D) + (Owned(Q, E, k) - Owned(P, D, k))
<1> DEFINE f == [i \in CapitalId |-> Owned(P, D, i)]
           g == [i \in CapitalId |-> Owned(Q, E, i)]
<1>1. /\ \A i \in CapitalId : f[i] \in Int /\ g[i] \in Int
      /\ \A i \in CapitalId \ {k} : f[i] = g[i]
      /\ f[k] = Owned(P, D, k) /\ g[k] = Owned(Q, E, k)
    OBVIOUS
<1> HIDE DEF f, g
<1>2. Total(CapitalId, g, MaxCapital) = Total(CapitalId, f, MaxCapital) + (g[k] - f[k])
    <2>1. CapitalId \in SUBSET (1..MaxCapital)
        BY DEF CapitalId
    <2>2. \A i \in CapitalId : f[i] \in Int /\ g[i] \in Int
        BY <1>1
    <2>3. \A i \in CapitalId \ {k} : f[i] = g[i]
        BY <1>1
    <2>4. QED BY <2>1, <2>2, <2>3, TotalChange, SMTT(40)
<1>3. QED BY <1>1, <1>2 DEF Book, f, g

\* The books are worth a natural number.
LEMMA BookType ==
    ASSUME WellFormed
    PROVE  Book(positions, dust) \in Nat
<1> DEFINE f == [i \in CapitalId |-> Owned(positions, dust, i)]
<1>1. \A i \in CapitalId : f[i] \in Nat
    BY OwnedType
<1> HIDE DEF f
<1>2. Total(CapitalId, f, MaxCapital) \in Nat
    BY <1>1, TotalNat, AmountsAreNumbers
<1>3. QED BY <1>2 DEF Book, f

\* ... in a step from well-formed books to well-formed books.
LEMMA BookStep ==
    ASSUME WellFormed, WellFormed', NEW k \in CapitalId,
           \A i \in CapitalId \ {k} : Owned(positions', dust', i) = Owned(positions, dust, i)
    PROVE  Book(positions', dust') = Book(positions, dust)
               + (Owned(positions', dust', k) - Owned(positions, dust, k))
<1>1. \A i \in CapitalId : Owned(positions, dust, i) \in Nat
    BY OwnedType
<1>2. \A i \in CapitalId : Owned(positions', dust', i) \in Nat
    BY DEF WellFormed, PositionsOK, PositionOK, DustOK, CapitalPosition, DustLot, Owned
<1>3. QED BY <1>1, <1>2, BookChange, AmountsAreNumbers

\* Conservation, if what leaves the free balance and is not lost enters the
\* books.
LEMMA ConservationStep ==
    ASSUME IInv, WellFormed',
           Book(positions', dust') - Book(positions, dust)
               = (free - free') + (realizedPnl' - realizedPnl)
    PROVE  Conservation'
<1>1. Book(positions, dust) \in Int /\ free \in Int /\ realizedPnl \in Int
    BY BookType DEF IInv, WellFormed, AccountsOK
<1>2. free' \in Int /\ realizedPnl' \in Int
    BY DEF WellFormed, AccountsOK
<1>3. Book(positions', dust') \in Int
    <2> DEFINE f == [i \in CapitalId |-> Owned(positions', dust', i)]
    <2>1. \A i \in CapitalId : f[i] \in Int
        BY DEF WellFormed, PositionsOK, PositionOK, DustOK, CapitalPosition, DustLot, Owned
    <2> HIDE DEF f
    <2>2. Total(CapitalId, f, MaxCapital) \in Int
        BY <2>1, TotalType, AmountsAreNumbers
    <2>3. QED BY <2>2 DEF Book, f
<1>4. QED BY <1>1, <1>2, <1>3, AmountsAreNumbers DEF IInv, Conservation

\* The books are unchanged if what every id is worth is.
LEMMA BookSame ==
    ASSUME MaxCapital \in Nat, NEW P, NEW D, NEW Q, NEW E,
           \A i \in CapitalId : Owned(Q, E, i) = Owned(P, D, i)
    PROVE  Book(Q, E) = Book(P, D)
<1>1. [i \in CapitalId |-> Owned(Q, E, i)] = [i \in CapitalId |-> Owned(P, D, i)]
    OBVIOUS
<1>2. QED BY <1>1 DEF Book

-----------------------------------------------------------------------------
\* The bank starts with all of its cash free.
LEMMA InitIInv == Init => IInv
<1> SUFFICES ASSUME Init PROVE IInv
    OBVIOUS
<1>1. /\ DOMAIN positions = {} /\ DOMAIN dust = {}
      /\ DOMAIN cycles = {} /\ DOMAIN authorizations = {}
      /\ DOMAIN assetMarks = {USDT} /\ assetMarks[USDT] = 1
      /\ positions = [i \in DOMAIN positions |-> positions[i]]
      /\ dust = [i \in DOMAIN dust |-> dust[i]]
    BY DEF Init, Empty
<1>2. AccountsOK
    BY <1>1, LedgerAssumption DEF Init, Empty, AccountsOK, Time
<1>3. WellFormed
    BY <1>1, <1>2 DEF WellFormed, PositionsOK, DustOK
<1>4. Book(positions, dust) = 0
    <2> DEFINE f == [i \in CapitalId |-> Owned(positions, dust, i)]
    <2>1. \A i \in CapitalId : f[i] = 0
        BY <1>1 DEF Owned
    <2> HIDE DEF f
    <2>2. Total({}, f, MaxCapital) = Total(CapitalId, f, MaxCapital)
        BY <2>1, TotalSame, AmountsAreNumbers
    <2>3. Total({}, f, MaxCapital) = 0
        BY TotalAdd, TotalType, AmountsAreNumbers
    <2>4. QED BY <2>2, <2>3 DEF Book, f
<1>5. QED BY <1>3, <1>4, AmountsAreNumbers DEF Init, IInv, Conservation

-----------------------------------------------------------------------------
(* Every operation preserves the invariant.                                *)

\* The id the next position gets is on no book yet.
LEMMA NextIdIsFresh ==
    ASSUME WellFormed, NextId \in CapitalId
    PROVE  /\ NextId \notin DOMAIN positions
           /\ NextId \notin DOMAIN dust
           /\ NextId \in 0..MaxCapital
           /\ sequence \in Nat
           /\ NextId = sequence + 1
BY DEF WellFormed, AccountsOK, PositionsOK, DustOK, NextId, CapitalId

\* What the invariant says of one position.
LEMMA PositionAt ==
    ASSUME WellFormed, NEW id \in DOMAIN positions
    PROVE  /\ PositionOK(positions[id], DOMAIN assetMarks)
           /\ id \in 1..sequence /\ sequence \in Nat /\ sequence <= MaxCapital
           /\ id \in CapitalId
           /\ id \notin DOMAIN dust
<1>1. sequence \in Nat /\ sequence <= MaxCapital
    BY AmountsAreNumbers DEF WellFormed, AccountsOK
<1>2. id \in 1..sequence
    BY DEF WellFormed, PositionsOK
<1>3. id \in CapitalId
    BY <1>1, <1>2, AmountsAreNumbers DEF CapitalId
<1>4. QED BY <1>1, <1>2, <1>3 DEF WellFormed, PositionsOK

\* The accounts that an operation on positions and dust leaves alone.
OtherAccounts == <<cycles, realizedPnl, externalCosts, assetMarks, authorizations, consumed>>

\* The accounts stay well formed if the cash, the sequence and the time do.
LEMMA AccountsStep ==
    ASSUME WellFormed, UNCHANGED OtherAccounts,
           free' \in Nat, sequence' \in 0..MaxCapital, lastEvent' \in Time
    PROVE  AccountsOK'
BY DEF WellFormed, AccountsOK, OtherAccounts

\* Replacing one position by a good one, or adding one, keeps them all good.
LEMMA PositionsWith ==
    ASSUME NEW P, NEW issued \in Nat, NEW more \in Nat, issued <= more, NEW marked, NEW alsoMarked,
           marked \subseteq alsoMarked, PositionsOK(P, issued, marked),
           NEW i \in 1..more, NEW p, PositionOK(p, alsoMarked)
    PROVE  PositionsOK(With(P, i, p), more, alsoMarked)
BY DEF PositionsOK, PositionOK, With

\* Closing positions leaves the others good.
LEMMA PositionsWithout ==
    ASSUME NEW P, NEW issued, NEW marked, PositionsOK(P, issued, marked), NEW S
    PROVE  PositionsOK(Without(P, S), issued, marked)
BY DEF PositionsOK, Without

\* Changing a position to a good one keeps them all good.
LEMMA PositionsExcept ==
    ASSUME NEW P, NEW issued, NEW marked, PositionsOK(P, issued, marked),
           NEW i \in DOMAIN P, NEW p, PositionOK(p, marked)
    PROVE  /\ PositionsOK([P EXCEPT ![i] = p], issued, marked)
           /\ DOMAIN [P EXCEPT ![i] = p] = DOMAIN P
BY DEF PositionsOK

\* reserve moves cash from the free balance to a new position.
LEMMA ReserveStep ==
    ASSUME IInv, NEW pair \in Pair, NEW amount \in Grant, NEW now \in Time,
           Reserve(pair, amount, now)
    PROVE  IInv'
<1> DEFINE p == FreshPosition(pair, "RESERVED", USDT, amount, amount, amount, 0)
<1>1. /\ NextId \in CapitalId /\ amount \in Nat /\ amount <= free /\ free \in Nat
      /\ free' = free - amount /\ positions' = With(positions, NextId, p)
      /\ sequence' = NextId /\ lastEvent' = now
      /\ UNCHANGED dust /\ UNCHANGED OtherAccounts
    BY AmountsAreNumbers DEF IInv, WellFormed, AccountsOK, Reserve, CanReserve, Commit, OtherAccounts
<1>2. /\ NextId \notin DOMAIN positions /\ NextId \notin DOMAIN dust
      /\ NextId \in 0..MaxCapital /\ sequence \in Nat /\ NextId = sequence + 1
    BY <1>1, NextIdIsFresh DEF IInv
<1>3. AccountsOK'
    BY <1>1, <1>2, AccountsStep DEF IInv
<1>4. PositionOK(p, DOMAIN assetMarks)
    <2>1. p \in CapitalPosition
        BY <1>1, FreshPositionType, AmountsAreNumbers DEF CapitalState
    <2>2. USDT \in DOMAIN assetMarks
        BY DEF IInv, WellFormed, AccountsOK
    <2>3. QED BY <2>1, <2>2 DEF PositionOK, FreshPosition
<1>5. PositionsOK(positions', sequence', DOMAIN assetMarks')
    <2>1. PositionsOK(positions, sequence, DOMAIN assetMarks)
        BY DEF IInv, WellFormed
    <2>2. PositionsOK(With(positions, NextId, p), NextId, DOMAIN assetMarks)
        BY <1>2, <1>4, <2>1, PositionsWith
    <2>3. QED BY <1>1, <2>2 DEF OtherAccounts
<1>6. DustOK(dust', sequence', DOMAIN assetMarks')
    BY <1>1, <1>2 DEF IInv, WellFormed, DustOK, OtherAccounts
<1>7. DOMAIN positions' \cap DOMAIN dust' = {}
    BY <1>1, <1>2 DEF IInv, WellFormed, With
<1>8. WellFormed'
    BY <1>3, <1>5, <1>6, <1>7 DEF WellFormed
<1>9. Book(positions', dust') = Book(positions, dust) + amount
    <2>1. Owned(positions, dust, NextId) = 0
        BY <1>2 DEF Owned
    <2>2. Owned(positions', dust', NextId) = amount
        BY <1>1, <1>2 DEF Owned, With, FreshPosition
    <2>3. \A i \in CapitalId \ {NextId} : Owned(positions', dust', i) = Owned(positions, dust, i)
        BY <1>1, <1>2 DEF Owned, With
    <2>4. QED BY <1>1, <1>8, <2>1, <2>2, <2>3, BookStep DEF IInv
<1>10. Book(positions', dust') - Book(positions, dust) = (free - free') + (realizedPnl' - realizedPnl)
    BY <1>1, <1>9, BookType DEF IInv, WellFormed, AccountsOK, OtherAccounts
<1>11. QED BY <1>8, <1>10, ConservationStep DEF IInv

\* A step that moves no money and changes what no id is worth.
LEMMA StillBalanced ==
    ASSUME IInv, WellFormed', UNCHANGED <<free, realizedPnl>>,
           \A i \in CapitalId : Owned(positions', dust', i) = Owned(positions, dust, i)
    PROVE  IInv'
<1>1. Book(positions', dust') = Book(positions, dust)
    BY BookSame, AmountsAreNumbers
<1>2. QED BY <1>1 DEF IInv, Conservation

\* request_cancel only changes a state.
LEMMA RequestCancelStep ==
    ASSUME IInv, NEW id \in DOMAIN positions, NEW now \in Time, RequestCancel(id, now)
    PROVE  IInv'
<1> DEFINE p == [positions[id] EXCEPT !.state = "CANCEL_PENDING"]
<1>1. /\ positions[id].state = "RESERVED"
      /\ positions' = [positions EXCEPT ![id] = p]
      /\ UNCHANGED <<free, sequence, dust>> /\ UNCHANGED OtherAccounts /\ lastEvent' = now
    BY DEF RequestCancel, HasState, Commit, OtherAccounts
<1>2. PositionOK(p, DOMAIN assetMarks)
    BY <1>1 DEF IInv, WellFormed, PositionsOK, PositionOK, CapitalPosition, CapitalState
<1>3. /\ PositionsOK(positions', sequence', DOMAIN assetMarks')
      /\ DOMAIN positions' = DOMAIN positions
    BY <1>1, <1>2, PositionsExcept DEF IInv, WellFormed, OtherAccounts
<1>4. WellFormed'
    BY <1>1, <1>3, AccountsStep DEF IInv, WellFormed, AccountsOK, OtherAccounts
<1>5. \A i \in CapitalId : Owned(positions', dust', i) = Owned(positions, dust, i)
    BY <1>1 DEF Owned
<1>6. QED BY <1>1, <1>4, <1>5, StillBalanced DEF OtherAccounts

\* reserve_owned_return only changes a state.
LEMMA ReserveOwnedReturnStep ==
    ASSUME IInv, NEW id \in DOMAIN positions, NEW now \in Time, ReserveOwnedReturn(id, now)
    PROVE  IInv'
<1> DEFINE p == [positions[id] EXCEPT !.state = "RETURN"]
<1>1. /\ positions' = [positions EXCEPT ![id] = p]
      /\ UNCHANGED <<free, sequence, dust>> /\ UNCHANGED OtherAccounts /\ lastEvent' = now
    BY DEF ReserveOwnedReturn, Commit, OtherAccounts
<1>2. PositionOK(p, DOMAIN assetMarks)
    BY <1>1 DEF IInv, WellFormed, PositionsOK, PositionOK, CapitalPosition, CapitalState
<1>3. /\ PositionsOK(positions', sequence', DOMAIN assetMarks')
      /\ DOMAIN positions' = DOMAIN positions
    BY <1>1, <1>2, PositionsExcept DEF IInv, WellFormed, OtherAccounts
<1>4. WellFormed'
    BY <1>1, <1>3, AccountsStep DEF IInv, WellFormed, AccountsOK, OtherAccounts
<1>5. \A i \in CapitalId : Owned(positions', dust', i) = Owned(positions, dust, i)
    BY <1>1 DEF Owned
<1>6. QED BY <1>1, <1>4, <1>5, StillBalanced DEF OtherAccounts

\* update_mark changes no cost.
LEMMA UpdateMarkStep ==
    ASSUME IInv, NEW id \in DOMAIN positions, NEW mark \in Mark, NEW now \in Time,
           UpdateMark(id, mark, now)
    PROVE  IInv'
<1> DEFINE p == IF positions[id].asset = USDT THEN positions[id]
                ELSE [positions[id] EXCEPT !.marked = positions[id].quantity * mark]
<1>1. /\ positions' = [positions EXCEPT ![id] = p]
      /\ UNCHANGED <<free, sequence, dust>> /\ UNCHANGED OtherAccounts /\ lastEvent' = now
    BY DEF UpdateMark, Commit, OtherAccounts, IInv, WellFormed, PositionsOK
<1>2. PositionOK(p, DOMAIN assetMarks)
    <2>1. positions[id].quantity * mark \in Nat
        BY AmountsAreNumbers DEF IInv, WellFormed, PositionsOK, PositionOK, CapitalPosition
    <2>2. QED BY <2>1 DEF IInv, WellFormed, PositionsOK, PositionOK, CapitalPosition
<1>3. /\ PositionsOK(positions', sequence', DOMAIN assetMarks')
      /\ DOMAIN positions' = DOMAIN positions
    BY <1>1, <1>2, PositionsExcept DEF IInv, WellFormed, OtherAccounts
<1>4. WellFormed'
    BY <1>1, <1>3, AccountsStep DEF IInv, WellFormed, AccountsOK, OtherAccounts
<1>5. \A i \in CapitalId : Owned(positions', dust', i) = Owned(positions, dust, i)
    BY <1>1 DEF Owned, IInv, WellFormed, PositionsOK, PositionOK, CapitalPosition
<1>6. QED BY <1>1, <1>4, <1>5, StillBalanced DEF OtherAccounts

\* acknowledge_cancel frees what the position cost: a pending position is
\* untouched cash.
LEMMA AcknowledgeCancelStep ==
    ASSUME IInv, NEW id \in DOMAIN positions, NEW now \in Time, AcknowledgeCancel(id, now)
    PROVE  IInv'
<1> DEFINE p == positions[id]
<1>1. /\ p.state = "CANCEL_PENDING"
      /\ free' = free + p.marked
      /\ positions' = Without(positions, {id})
      /\ UNCHANGED <<sequence, dust>> /\ UNCHANGED OtherAccounts /\ lastEvent' = now
    BY DEF AcknowledgeCancel, AwaitsAck, HasState, Commit, OtherAccounts
<1>2. /\ p.marked = p.cost /\ p.attributable = 0 /\ p.cost \in Nat
      /\ id \in CapitalId /\ id \notin DOMAIN dust /\ free \in Nat /\ realizedPnl \in Int
    BY <1>1, PositionAt DEF IInv, WellFormed, AccountsOK, PositionOK, CapitalPosition
<1>3. PositionsOK(positions', sequence', DOMAIN assetMarks')
    BY <1>1, PositionsWithout DEF IInv, WellFormed, OtherAccounts
<1>4. WellFormed'
    <2>1. AccountsOK'
        BY <1>1, <1>2, AccountsStep DEF IInv, WellFormed, AccountsOK
    <2>2. QED BY <1>1, <1>3, <2>1 DEF IInv, WellFormed, OtherAccounts, Without
<1>5. Book(positions', dust') = Book(positions, dust) - p.cost
    <2>1. Owned(positions, dust, id) = p.cost
        BY <1>2 DEF Owned
    <2>2. Owned(positions', dust', id) = 0
        BY <1>1, <1>2 DEF Owned, Without
    <2>3. \A i \in CapitalId \ {id} : Owned(positions', dust', i) = Owned(positions, dust, i)
        BY <1>1 DEF Owned, Without
    <2>4. Book(positions, dust) \in Nat
        BY BookType DEF IInv
    <2>5. QED BY <1>2, <1>4, <2>1, <2>2, <2>3, <2>4, BookStep DEF IInv
<1>6. Book(positions', dust') - Book(positions, dust) = (free - free') + (realizedPnl' - realizedPnl)
    BY <1>1, <1>2, <1>5, BookType DEF IInv, OtherAccounts
<1>7. QED BY <1>4, <1>6, ConservationStep DEF IInv

\* register_risk_exit_authorization moves no money.
LEMMA RegisterRiskExitStep ==
    ASSUME IInv, NEW id \in DOMAIN positions, NEW auth \in AuthorizationId,
           NEW expires \in Time, NEW quantity \in ExitQuantity, NEW loss \in Loss, NEW now \in Time,
           RegisterRiskExit(auth, id, expires, quantity, loss, now)
    PROVE  IInv'
<1> DEFINE a == [capital |-> id, pair |-> positions[id].pair, decided |-> now,
                 expires |-> expires, quantity |-> quantity, loss |-> loss]
<1>1. /\ authorizations' = With(authorizations, auth, a) /\ lastEvent' = now
      /\ UNCHANGED <<free, positions, dust, cycles, realizedPnl, externalCosts, assetMarks,
                     consumed, sequence>>
    BY DEF RegisterRiskExit, Commit
<1>2. a \in RiskExitAuthorization
    <2>1. id \in CapitalId /\ positions[id].pair \in Pair
        BY PositionAt DEF IInv, PositionOK, CapitalPosition
    <2>2. QED BY <2>1, AmountsAreNumbers DEF RiskExitAuthorization
<1>3. /\ authorizations' \in [DOMAIN authorizations' -> RiskExitAuthorization]
      /\ DOMAIN authorizations' \subseteq AuthorizationId
    <2> HIDE DEF a
    <2>1. /\ authorizations \in [DOMAIN authorizations -> RiskExitAuthorization]
          /\ DOMAIN authorizations \subseteq AuthorizationId
        BY DEF IInv, WellFormed, AccountsOK
    <2>2. /\ With(authorizations, auth, a) \in [DOMAIN authorizations \cup {auth} -> RiskExitAuthorization]
          /\ DOMAIN With(authorizations, auth, a) = DOMAIN authorizations \cup {auth}
        BY <1>2, <2>1 DEF With
    <2>3. QED BY <1>1, <2>1, <2>2
<1>4. AccountsOK'
    BY <1>1, <1>3 DEF IInv, WellFormed, AccountsOK
<1>5. WellFormed'
    BY <1>1, <1>4 DEF IInv, WellFormed
<1>6. \A i \in CapitalId : Owned(positions', dust', i) = Owned(positions, dust, i)
    BY <1>1
<1>7. QED BY <1>1, <1>5, <1>6, StillBalanced

\* update_asset_mark changes no cost.
LEMMA UpdateAssetMarkStep ==
    ASSUME IInv, NEW asset \in Asset \ {USDT}, NEW mark \in Mark, NEW now \in Time,
           UpdateAssetMark(asset, mark, now)
    PROVE  IInv'
<1>1. /\ positions' = [i \in DOMAIN positions |->
             IF positions[i].asset = asset
             THEN [positions[i] EXCEPT !.marked = positions[i].quantity * mark]
             ELSE positions[i]]
      /\ assetMarks' = With(assetMarks, asset, mark) /\ lastEvent' = now
      /\ UNCHANGED <<free, dust, cycles, realizedPnl, externalCosts, authorizations,
                     consumed, sequence>>
    BY DEF UpdateAssetMark, Commit
<1>2. /\ assetMarks' \in [DOMAIN assetMarks \cup {asset} -> Mark]
      /\ DOMAIN assetMarks' = DOMAIN assetMarks \cup {asset}
    <2>1. assetMarks \in [DOMAIN assetMarks -> Mark]
        BY DEF IInv, WellFormed, AccountsOK
    <2>2. assetMarks' = With(assetMarks, asset, mark)
        BY <1>1
    <2>3. QED BY <2>1, <2>2 DEF With
<1>3. AccountsOK'
    BY <1>1, <1>2 DEF IInv, WellFormed, AccountsOK
<1>4. \A i \in DOMAIN positions :
          /\ PositionOK(positions'[i], DOMAIN assetMarks')
          /\ positions'[i].cost = positions[i].cost
          /\ positions'[i].attributable = positions[i].attributable
    <2> SUFFICES ASSUME NEW i \in DOMAIN positions
                 PROVE  /\ PositionOK(positions'[i], DOMAIN assetMarks')
                        /\ positions'[i].cost = positions[i].cost
                        /\ positions'[i].attributable = positions[i].attributable
        OBVIOUS
    <2>1. PositionOK(positions[i], DOMAIN assetMarks)
        BY PositionAt DEF IInv
    <2>2. CASE positions[i].asset = asset
        <3>1. positions'[i] = [positions[i] EXCEPT !.marked = positions[i].quantity * mark]
            BY <1>1, <2>2
        <3>2. positions[i].quantity * mark \in Nat
            BY <2>1, AmountsAreNumbers DEF PositionOK, CapitalPosition
        <3>3. QED BY <1>2, <2>1, <2>2, <3>1, <3>2 DEF PositionOK, CapitalPosition
    <2>3. CASE positions[i].asset # asset
        BY <1>1, <1>2, <2>1, <2>3 DEF PositionOK
    <2>4. QED BY <2>2, <2>3
<1>5. PositionsOK(positions', sequence', DOMAIN assetMarks') /\ DOMAIN positions' = DOMAIN positions
    BY <1>1, <1>4 DEF IInv, WellFormed, PositionsOK
<1>6. WellFormed'
    BY <1>1, <1>2, <1>3, <1>5 DEF IInv, WellFormed, DustOK
<1>7. \A i \in CapitalId : Owned(positions', dust', i) = Owned(positions, dust, i)
    BY <1>1, <1>4, <1>5 DEF Owned
<1>8. QED BY <1>1, <1>6, <1>7, StillBalanced

\* A good lot under a new id keeps the dust good.
LEMMA DustWith ==
    ASSUME NEW D, NEW issued \in Nat, NEW marked, DustOK(D, issued, marked),
           NEW i \in 1..issued, NEW lot \in DustLot, lot.asset \in marked
    PROVE  DustOK(With(D, i, lot), issued, marked)
BY DEF DustOK, With

\* move_untradeable_inventory_to_dust takes the whole cost of the position along.
LEMMA MoveToDustStep ==
    ASSUME IInv, NEW id \in DOMAIN positions, NEW now \in Time, MoveToDust(id, now)
    PROVE  IInv'
<1> DEFINE p == positions[id]
           lot == ResidualLot(id, p.quantity, p.cost + p.attributable, now)
<1>1. /\ p.quantity > 0
      /\ dust' = With(dust, id, lot) /\ positions' = Without(positions, {id})
      /\ UNCHANGED <<free, sequence>> /\ UNCHANGED OtherAccounts /\ lastEvent' = now
    BY DEF MoveToDust, Commit, OtherAccounts
<1>2. /\ PositionOK(p, DOMAIN assetMarks) /\ id \in 1..sequence /\ sequence \in Nat
      /\ id \notin DOMAIN dust
    BY PositionAt DEF IInv
<1>3. /\ lot \in DustLot /\ lot.asset \in DOMAIN assetMarks /\ lot.cost = p.cost + p.attributable
      /\ p.cost + p.attributable \in Nat
    BY <1>1, <1>2 DEF ResidualLot, DustLot, PositionOK, CapitalPosition
<1> HIDE DEF lot
<1>4. DustOK(dust', sequence', DOMAIN assetMarks')
    BY <1>1, <1>2, <1>3, DustWith DEF IInv, WellFormed, OtherAccounts
<1>5. PositionsOK(positions', sequence', DOMAIN assetMarks')
    BY <1>1, PositionsWithout DEF IInv, WellFormed, OtherAccounts
<1>6. DOMAIN positions' = DOMAIN positions \ {id} /\ DOMAIN dust' = DOMAIN dust \cup {id}
    BY <1>1 DEF With, Without
<1>7. AccountsOK'
    BY <1>1, AccountsStep DEF IInv, WellFormed, AccountsOK
<1>8. WellFormed'
    BY <1>4, <1>5, <1>6, <1>7 DEF IInv, WellFormed
<1>9. \A i \in CapitalId : Owned(positions', dust', i) = Owned(positions, dust, i)
    <2>1. Owned(positions', dust', id) = Owned(positions, dust, id)
        BY <1>1, <1>2, <1>3, <1>6 DEF Owned, With, Without
    <2>2. \A i \in CapitalId \ {id} : Owned(positions', dust', i) = Owned(positions, dust, i)
        BY <1>1, <1>6 DEF Owned, With, Without
    <2>3. QED BY <2>1, <2>2
<1>10. QED BY <1>1, <1>8, <1>9, StillBalanced DEF OtherAccounts

\* More marks keep the positions and the dust well formed.
LEMMA MoreMarks ==
    ASSUME NEW P, NEW D, NEW issued, NEW marked, NEW alsoMarked, marked \subseteq alsoMarked,
           PositionsOK(P, issued, marked), DustOK(D, issued, marked)
    PROVE  PositionsOK(P, issued, alsoMarked) /\ DustOK(D, issued, alsoMarked)
BY DEF PositionsOK, PositionOK, DustOK

\* The entry fill that uses all the cash turns the position into inventory.
LEMMA FullEntryStep ==
    ASSUME IInv, NEW id \in DOMAIN positions, NEW quantity \in Nat, NEW mark \in Mark, NEW cost \in Cost,
           HasState(id, {"RESERVED", "CANCEL_PENDING"}),
           AccountsOK', UNCHANGED <<dust, realizedPnl, sequence>>,
           DOMAIN assetMarks' = DOMAIN assetMarks \cup {TradedAsset[positions[id].pair]},
           free' = free - cost,
           positions' = FullEntryPositions(id, quantity, mark, cost)
    PROVE  IInv'
<1> DEFINE old == positions[id]
           p == [old EXCEPT !.state = "INVENTORY", !.asset = TradedAsset[old.pair],
                            !.quantity = quantity, !.marked = quantity * mark,
                            !.attributable = @ + cost]
<1>1. /\ old \in CapitalPosition /\ old.attributable = 0
      /\ id \in CapitalId /\ id \notin DOMAIN dust
    BY PositionAt DEF IInv, PositionOK, HasState
<1>2. positions' = [positions EXCEPT ![id] = p]
    BY <1>1 DEF FullEntryPositions, IInv, WellFormed, PositionsOK
<1>3. /\ cost \in Nat /\ quantity * mark \in Nat
      /\ TradedAsset[old.pair] \in Asset
    BY <1>1, AmountsAreNumbers DEF CapitalPosition
<1>4. /\ p \in CapitalPosition /\ p.state = "INVENTORY" /\ p.asset = TradedAsset[old.pair]
      /\ p.cost = old.cost /\ p.attributable = cost
    <2> DEFINE worth == quantity * mark
               asset == TradedAsset[old.pair]
    <2>1. worth \in Nat /\ asset \in Asset
        BY <1>3
    <2> HIDE DEF worth, asset
    <2>2. p = [old EXCEPT !.state = "INVENTORY", !.asset = asset, !.quantity = quantity,
                          !.marked = worth, !.attributable = @ + cost]
        BY DEF worth, asset
    <2>3. old.attributable + cost = cost
        BY <1>1, <1>3
    <2>4. QED BY <1>1, <1>3, <2>1, <2>2, <2>3 DEF CapitalPosition, CapitalState, asset
<1>5. PositionOK(p, DOMAIN assetMarks')
    BY <1>4 DEF PositionOK
<1> HIDE DEF p
<1>6. /\ PositionsOK(positions, sequence', DOMAIN assetMarks')
      /\ DustOK(dust', sequence', DOMAIN assetMarks')
    BY MoreMarks DEF IInv, WellFormed
<1>7. PositionsOK(positions', sequence', DOMAIN assetMarks') /\ DOMAIN positions' = DOMAIN positions
    <2>1. PositionOK(p, DOMAIN assetMarks') /\ PositionsOK(positions, sequence', DOMAIN assetMarks')
        BY <1>5, <1>6
    <2>2. /\ PositionsOK([positions EXCEPT ![id] = p], sequence', DOMAIN assetMarks')
          /\ DOMAIN [positions EXCEPT ![id] = p] = DOMAIN positions
        BY <2>1, PositionsExcept
    <2>3. QED BY <1>2, <2>2
<1>8. WellFormed'
    BY <1>6, <1>7 DEF IInv, WellFormed
<1>9. Book(positions', dust') = Book(positions, dust) + cost
    <2>1. Owned(positions, dust, id) = old.cost
        BY <1>1 DEF Owned, CapitalPosition
    <2>2. Owned(positions', dust', id) = old.cost + cost
        BY <1>1, <1>2, <1>3, <1>4 DEF Owned, CapitalPosition
    <2>3. \A i \in CapitalId \ {id} : Owned(positions', dust', i) = Owned(positions, dust, i)
        BY <1>2 DEF Owned
    <2>4. Book(positions, dust) \in Nat /\ old.cost \in Nat
        BY <1>1, BookType DEF IInv, CapitalPosition
    <2>5. QED BY <1>1, <1>3, <1>8, <2>1, <2>2, <2>3, <2>4, BookStep DEF IInv
<1>10. Book(positions', dust') - Book(positions, dust) = (free - free') + (realizedPnl' - realizedPnl)
    BY <1>3, <1>9, BookType DEF IInv, WellFormed, AccountsOK
<1>11. QED BY <1>8, <1>10, ConservationStep DEF IInv

\* The entry fill that uses a part of it: the books change under two ids.
LEMMA PartialEntryStep ==
    ASSUME IInv, NEW id \in DOMAIN positions, NEW input \in 1..positions[id].cost,
           NEW quantity \in Nat, NEW mark \in Mark, NEW cost \in Cost,
           HasState(id, {"RESERVED", "CANCEL_PENDING"}),
           NextId \in CapitalId, sequence' = NextId,
           AccountsOK', UNCHANGED <<dust, realizedPnl>>,
           DOMAIN assetMarks' = DOMAIN assetMarks \cup {TradedAsset[positions[id].pair]},
           free' = free - cost,
           positions' = PartialEntryPositions(id, input, quantity, mark, cost)
    PROVE  IInv'
<1> DEFINE old == positions[id]
           left == old.cost - input
           rest == [old EXCEPT !.cost = left, !.marked = left, !.quantity = left]
           bought == FreshPosition(old.pair, "INVENTORY", TradedAsset[old.pair], input,
                                   quantity * mark, quantity, cost)
           P == [positions EXCEPT ![id] = rest]
<1>1. /\ old \in CapitalPosition /\ PositionOK(old, DOMAIN assetMarks) /\ old.attributable = 0
      /\ old.state \in {"RESERVED", "CANCEL_PENDING"}
      /\ id \in CapitalId /\ id \notin DOMAIN dust
    BY PositionAt DEF IInv, PositionOK, HasState
<1>2. positions' = With(P, NextId, bought)
    BY <1>1 DEF PartialEntryPositions, PartialEntryFrom, IInv, WellFormed, PositionsOK
<1>3. /\ cost \in Nat /\ quantity * mark \in Nat /\ input \in Nat /\ left \in Nat /\ old.cost \in Nat
      /\ TradedAsset[old.pair] \in Asset /\ old.pair \in Pair
    BY <1>1, AmountsAreNumbers DEF CapitalPosition
<1>4. /\ NextId \notin DOMAIN positions /\ NextId \notin DOMAIN dust
      /\ NextId \in 0..MaxCapital /\ sequence \in Nat /\ NextId = sequence + 1
    BY NextIdIsFresh DEF IInv
<1>5. PositionOK(rest, DOMAIN assetMarks) /\ rest.cost = left /\ rest.attributable = 0
    BY <1>1, <1>3 DEF PositionOK, CapitalPosition
<1>6. /\ bought \in CapitalPosition /\ bought.state = "INVENTORY"
      /\ bought.asset = TradedAsset[old.pair]
      /\ bought.cost = input /\ bought.attributable = cost
    <2>1. bought \in CapitalPosition
        BY <1>3, FreshPositionType DEF CapitalState
    <2>2. QED BY <2>1 DEF FreshPosition
<1>7. PositionOK(bought, DOMAIN assetMarks')
    BY <1>6 DEF PositionOK
<1> HIDE DEF rest, bought, left
<1>8. PositionsOK(P, sequence, DOMAIN assetMarks) /\ DOMAIN P = DOMAIN positions
    BY <1>5, PositionsExcept DEF IInv, WellFormed
<1>9. P[id] = rest /\ \A i \in DOMAIN positions \ {id} : P[i] = positions[i]
    OBVIOUS
<1> HIDE DEF P
<1>10. PositionsOK(positions', sequence', DOMAIN assetMarks')
    <2>1. NextId \in Nat /\ sequence <= NextId /\ NextId \in 1..NextId
        BY <1>4
    <2>2. QED BY <1>2, <1>4, <1>7, <1>8, <2>1, PositionsWith
<1>11. DustOK(dust', sequence', DOMAIN assetMarks')
    BY <1>4 DEF IInv, WellFormed, DustOK
<1>12. DOMAIN positions' = DOMAIN positions \cup {NextId}
    BY <1>2, <1>8 DEF With
<1>13. WellFormed'
    BY <1>4, <1>10, <1>11, <1>12 DEF IInv, WellFormed
<1>14. Book(P, dust) = Book(positions, dust) - input
    <2>1. \A i \in CapitalId : Owned(positions, dust, i) \in Int
        BY OwnedType DEF IInv
    <2>2. Owned(positions, dust, id) = left + input /\ Owned(P, dust, id) = left
        BY <1>1, <1>3, <1>5, <1>8, <1>9 DEF Owned, left
    <2>3. \A i \in CapitalId \ {id} : Owned(P, dust, i) = Owned(positions, dust, i)
        BY <1>8, <1>9 DEF Owned
    <2>4. \A i \in CapitalId : Owned(P, dust, i) \in Int
        BY <1>1, <1>3, <2>1, <2>2, <2>3
    <2>5. Book(P, dust) = Book(positions, dust) + (Owned(P, dust, id) - Owned(positions, dust, id))
        BY <1>1, <2>1, <2>3, <2>4, BookChange, AmountsAreNumbers
    <2>6. QED BY <1>3, <2>2, <2>5, BookType DEF IInv
<1>15. Book(positions', dust') = Book(P, dust) + (input + cost)
    <2>1. \A i \in CapitalId : Owned(positions', dust', i) \in Int
        BY <1>13, OwnedType DEF WellFormed, PositionsOK, PositionOK, DustOK, CapitalPosition, DustLot, Owned
    <2>2. Owned(positions', dust', NextId) = input + cost /\ Owned(P, dust, NextId) = 0
        BY <1>2, <1>3, <1>4, <1>6, <1>8 DEF Owned, With
    <2>3. \A i \in CapitalId \ {NextId} : Owned(positions', dust', i) = Owned(P, dust, i)
        BY <1>2, <1>8 DEF Owned, With
    <2>4. \A i \in CapitalId : Owned(P, dust, i) \in Int
        BY <2>1, <2>2, <2>3
    <2>5. Book(positions', dust') = Book(P, dust) + (Owned(positions', dust', NextId) - Owned(P, dust, NextId))
        BY <2>1, <2>3, <2>4, BookChange, AmountsAreNumbers
    <2>6. Book(P, dust) \in Int
        BY <1>3, <1>14, BookType DEF IInv
    <2>7. QED BY <1>3, <2>2, <2>5, <2>6
<1>16. Book(positions', dust') - Book(positions, dust) = (free - free') + (realizedPnl' - realizedPnl)
    BY <1>3, <1>14, <1>15, BookType DEF IInv, WellFormed, AccountsOK
<1>17. QED BY <1>13, <1>16, ConservationStep DEF IInv

\* record_entry_fill pays the fill's costs out of the free balance into the
\* position it buys.
LEMMA RecordEntryFillStep ==
    ASSUME IInv, NEW id \in DOMAIN positions, NEW input \in 1..positions[id].cost,
           NEW quantity \in Nat, NEW mark \in Mark, NEW cost \in Cost, NEW now \in Time,
           RecordEntryFill(id, input, quantity, mark, cost, now)
    PROVE  IInv'
<1> DEFINE asset == TradedAsset[positions[id].pair]
<1>1. /\ HasState(id, {"RESERVED", "CANCEL_PENDING"}) /\ cost <= free
      /\ free' = free - cost /\ externalCosts' = externalCosts + cost
      /\ assetMarks' = With(assetMarks, asset, mark) /\ lastEvent' = now
      /\ UNCHANGED <<dust, cycles, realizedPnl, authorizations, consumed>>
    BY DEF RecordEntryFill, EntryMarks, Commit
<1>2. asset \in Asset /\ cost \in Nat
    BY PositionAt, AmountsAreNumbers DEF IInv, PositionOK, CapitalPosition
<1>3. /\ assetMarks' \in [DOMAIN assetMarks \cup {asset} -> Mark]
      /\ DOMAIN assetMarks' = DOMAIN assetMarks \cup {asset}
    <2>1. assetMarks \in [DOMAIN assetMarks -> Mark]
        BY DEF IInv, WellFormed, AccountsOK
    <2> HIDE DEF asset
    <2>2. QED BY <1>1, <2>1 DEF With
<1>4. ASSUME sequence' \in 0..MaxCapital PROVE AccountsOK'
    BY <1>1, <1>2, <1>3, <1>4 DEF IInv, WellFormed, AccountsOK
<1>5. CASE /\ positions' = FullEntryPositions(id, quantity, mark, cost)
           /\ UNCHANGED sequence
    <2>1. AccountsOK'
        BY <1>4, <1>5 DEF IInv, WellFormed, AccountsOK
    <2>2. QED BY <1>1, <1>3, <1>5, <2>1, FullEntryStep
<1>6. CASE /\ NextId \in CapitalId
           /\ positions' = PartialEntryPositions(id, input, quantity, mark, cost)
           /\ sequence' = NextId
    <2>1. AccountsOK'
        BY <1>4, <1>6, NextIdIsFresh DEF IInv
    <2>2. QED BY <1>1, <1>3, <1>6, <2>1, PartialEntryStep
<1>7. QED BY <1>5, <1>6 DEF RecordEntryFill

\* What a settlement of either kind starts from: the position before the
\* fill, p, and after it, r.
LEMMA SettlementMeans ==
    ASSUME IInv, NEW id \in DOMAIN positions, NEW auth,
           NEW sold \in 1..positions[id].quantity, NEW proceeds \in Nat, NEW r,
           r = Returned(positions[id], sold, proceeds),
           HasState(id, {"RETURN"}),
           Realized(r) < 0 => auth \in DOMAIN authorizations
    PROVE  /\ positions[id] \in CapitalPosition /\ positions[id].state = "RETURN"
           /\ r \in CapitalPosition /\ r.state = "RETURN"
           /\ r.asset = positions[id].asset /\ r.asset \in DOMAIN assetMarks
           /\ r.pair = positions[id].pair /\ r.quantity = positions[id].quantity - sold
           /\ Realized(r) \in Int /\ Realized(positions[id]) \in Int
           /\ Realized(r) - Realized(positions[id]) =
                  proceeds - (positions[id].cost + positions[id].attributable)
                  + (r.cost + r.attributable)
           /\ Realized(r) < 0 => auth \in AuthorizationId
           /\ id \in CapitalId /\ id \notin DOMAIN dust /\ id \in 1..sequence /\ sequence \in Nat
<1>1. /\ PositionOK(positions[id], DOMAIN assetMarks)
      /\ id \in CapitalId /\ id \notin DOMAIN dust /\ id \in 1..sequence /\ sequence \in Nat
    BY PositionAt DEF IInv
<1>2. positions[id] \in CapitalPosition /\ positions[id].asset \in DOMAIN assetMarks
    BY <1>1 DEF PositionOK
<1>3. positions[id].state = "RETURN"
    BY DEF HasState
<1>4. Realized(r) < 0 => auth \in AuthorizationId
    BY DEF IInv, WellFormed, AccountsOK
<1>5. QED BY <1>1, <1>2, <1>3, <1>4, ReturnedType

\* settle_return of an incomplete order: the proceeds are free, and what they
\* exceed the sold cost by is realized.
LEMMA SettlePartialReturnStep ==
    ASSUME IInv, NEW id \in DOMAIN positions, NEW cycle \in CycleId, NEW auth, NEW now \in Time,
           NEW sold \in 1..positions[id].quantity, NEW proceeds \in Nat,
           SettlePartialReturn(id, cycle, sold, proceeds, auth, now)
    PROVE  IInv'
<1> DEFINE p == positions[id]
           r == Returned(p, sold, proceeds)
           kept == [r EXCEPT !.marked = r.quantity * assetMarks[r.asset], !.pendingCycle = cycle]
<1>1. /\ HasState(id, {"RETURN"})
      /\ Realized(r) < 0 => auth \in DOMAIN authorizations
      /\ free' = free + proceeds
      /\ realizedPnl' = realizedPnl + Realized(r) - Realized(p)
      /\ positions' = [positions EXCEPT ![id] = kept]
      /\ lastEvent' = now
      /\ UNCHANGED <<dust, cycles, externalCosts, assetMarks, authorizations, consumed, sequence>>
    BY DEF SettlePartialReturn, SettlementAllowed, Authorized, Commit
<1>r. r = Returned(p, sold, proceeds)
    OBVIOUS
<1> HIDE DEF r
<1>2. /\ p \in CapitalPosition /\ r \in CapitalPosition /\ r.state = "RETURN"
      /\ r.asset \in DOMAIN assetMarks
      /\ Realized(r) \in Int /\ Realized(p) \in Int
      /\ Realized(r) - Realized(p) = proceeds - (p.cost + p.attributable) + (r.cost + r.attributable)
      /\ id \in CapitalId /\ id \notin DOMAIN dust
    BY <1>1, <1>r, SettlementMeans
<1>3. /\ kept \in CapitalPosition /\ kept.state = "RETURN" /\ kept.asset = r.asset
      /\ kept.cost = r.cost /\ kept.attributable = r.attributable
    <2> DEFINE worth == r.quantity * assetMarks[r.asset]
    <2>1. worth \in Nat
        <3>1. assetMarks[r.asset] \in Nat
            BY <1>2, AmountsAreNumbers DEF IInv, WellFormed, AccountsOK
        <3>2. QED BY <1>2, <3>1 DEF CapitalPosition
    <2> HIDE DEF worth
    <2>2. kept = [r EXCEPT !.marked = worth, !.pendingCycle = cycle]
        BY DEF worth
    <2>3. QED BY <1>2, <2>1, <2>2 DEF CapitalPosition
<1> HIDE DEF kept
<1>4. PositionOK(kept, DOMAIN assetMarks)
    BY <1>2, <1>3 DEF PositionOK
<1>5. PositionsOK(positions', sequence', DOMAIN assetMarks') /\ DOMAIN positions' = DOMAIN positions
    BY <1>1, <1>4, PositionsExcept DEF IInv, WellFormed
<1>6. free \in Nat /\ realizedPnl \in Int
    BY DEF IInv, WellFormed, AccountsOK
<1>7. AccountsOK'
    <2>1. free' \in Nat /\ realizedPnl' \in Int
        BY <1>1, <1>2, <1>6
    <2>2. QED BY <1>1, <2>1 DEF IInv, WellFormed, AccountsOK
<1>8. WellFormed'
    BY <1>1, <1>5, <1>7 DEF IInv, WellFormed
<1>9. Book(positions', dust') = Book(positions, dust)
          + ((r.cost + r.attributable) - (p.cost + p.attributable))
    <2>1. Owned(positions, dust, id) = p.cost + p.attributable
        BY <1>2 DEF Owned, CapitalPosition
    <2>2. Owned(positions', dust', id) = r.cost + r.attributable
        BY <1>1, <1>2, <1>3 DEF Owned, CapitalPosition
    <2>3. \A i \in CapitalId \ {id} : Owned(positions', dust', i) = Owned(positions, dust, i)
        BY <1>1 DEF Owned
    <2>4. QED BY <1>2, <1>8, <2>1, <2>2, <2>3, BookStep DEF IInv
<1>10. Book(positions', dust') - Book(positions, dust) = (free - free') + (realizedPnl' - realizedPnl)
    <2>1. /\ p.cost \in Nat /\ p.attributable \in Nat /\ r.cost \in Nat /\ r.attributable \in Nat
          /\ Book(positions, dust) \in Nat
        BY <1>2, BookType DEF IInv, CapitalPosition
    <2>2. QED BY <1>1, <1>2, <1>6, <1>9, <2>1
<1>11. QED BY <1>8, <1>10, ConservationStep DEF IInv

\* The record of a closed cycle is well formed.
LEMMA ClosedCycleType ==
    ASSUME NEW id \in CapitalId, NEW p, NEW r \in CapitalPosition, NEW auth,
           Realized(r) < 0 => auth \in AuthorizationId
    PROVE  ClosedCycle(id, p, r, auth) \in CycleRecord
BY DEF ClosedCycle, CycleRecord, CapitalPosition

\* settle_return of a complete order: the residue keeps its cost as dust.
LEMMA SettleCompleteReturnStep ==
    ASSUME IInv, NEW id \in DOMAIN positions, NEW cycle \in CycleId, NEW auth, NEW now \in Time,
           NEW sold \in 1..positions[id].quantity, NEW proceeds \in Nat,
           SettleCompleteReturn(id, cycle, sold, proceeds, auth, now)
    PROVE  IInv'
<1> DEFINE p == positions[id]
           r == Returned(p, sold, proceeds)
           closed == ClosedCycle(id, p, r, auth)
           lot == ResidualLot(id, r.quantity, r.cost + r.attributable, now)
<1>1. /\ HasState(id, {"RETURN"})
      /\ Realized(r) < 0 => auth \in DOMAIN authorizations
      /\ free' = free + proceeds
      /\ realizedPnl' = realizedPnl + Realized(r) - Realized(p)
      /\ cycles' = With(cycles, cycle, closed)
      /\ consumed' = IF Realized(r) < 0 THEN consumed \cup {auth} ELSE consumed
      /\ positions' = Without(positions, {id})
      /\ dust' = IF r.quantity > 0 THEN With(dust, id, lot) ELSE dust
      /\ lastEvent' = now
      /\ UNCHANGED <<externalCosts, assetMarks, authorizations, sequence>>
    BY DEF SettleCompleteReturn, SettlementAllowed, Authorized, Commit
<1>r. r = Returned(p, sold, proceeds)
    OBVIOUS
<1> HIDE DEF r
<1>2. /\ p \in CapitalPosition /\ r \in CapitalPosition
      /\ r.asset = p.asset /\ r.asset \in DOMAIN assetMarks /\ r.pair = p.pair
      /\ r.quantity = p.quantity - sold
      /\ Realized(r) \in Int /\ Realized(p) \in Int
      /\ Realized(r) - Realized(p) = proceeds - (p.cost + p.attributable) + (r.cost + r.attributable)
      /\ Realized(r) < 0 => auth \in AuthorizationId
      /\ id \in CapitalId /\ id \notin DOMAIN dust /\ id \in 1..sequence /\ sequence \in Nat
    BY <1>1, <1>r, SettlementMeans
<1>3. closed \in CycleRecord
    BY <1>2, ClosedCycleType
<1>4. r.quantity > 0 => lot \in DustLot /\ lot.asset \in DOMAIN assetMarks
    BY <1>2 DEF ResidualLot, DustLot, CapitalPosition
<1>5. lot.cost = r.cost + r.attributable
    BY DEF ResidualLot
<1>6. r.quantity = 0 => r.cost + r.attributable = 0
    \* the last unit takes the whole cost along
    <2>1. (sold = p.quantity /\ p.quantity \in Nat /\ p.quantity > 0) \/ r.quantity # 0
        BY <1>2 DEF CapitalPosition
    <2>2. ASSUME sold = p.quantity, p.quantity \in Nat, p.quantity > 0
          PROVE  r.cost = 0 /\ r.attributable = 0
        <3>1. p.cost \in Nat /\ p.attributable \in Nat
            BY <1>2 DEF CapitalPosition
        <3>2. ProRata(p.cost, sold, p.quantity) = p.cost
              /\ ProRata(p.attributable, sold, p.quantity) = p.attributable
            BY <2>2, <3>1, ProRataWhole
        <3>3. r.cost = p.cost - p.cost /\ r.attributable = p.attributable - p.attributable
            BY <1>2, <1>r, <3>2 DEF Returned, CapitalPosition
        <3>4. QED BY <3>1, <3>3
    <2>3. QED BY <2>1, <2>2
<1> HIDE DEF closed, lot
<1>7. free \in Nat /\ realizedPnl \in Int
    BY DEF IInv, WellFormed, AccountsOK
<1>8. AccountsOK'
    <2>1. free' \in Nat /\ realizedPnl' \in Int
        BY <1>1, <1>2, <1>7
    <2>2. consumed' \subseteq AuthorizationId
        BY <1>1, <1>2 DEF IInv, WellFormed, AccountsOK
    <2>3. cycles' \in [DOMAIN cycles' -> CycleRecord] /\ DOMAIN cycles' \subseteq CycleId
        <3>1. cycles \in [DOMAIN cycles -> CycleRecord] /\ DOMAIN cycles \subseteq CycleId
            BY DEF IInv, WellFormed, AccountsOK
        <3>2. cycles' = With(cycles, cycle, closed)
            BY <1>1
        <3>3. QED BY <1>3, <3>1, <3>2 DEF With
    <2>4. QED BY <1>1, <2>1, <2>2, <2>3 DEF IInv, WellFormed, AccountsOK
<1>9. PositionsOK(positions', sequence', DOMAIN assetMarks')
    BY <1>1, PositionsWithout DEF IInv, WellFormed
<1>10. DustOK(dust', sequence', DOMAIN assetMarks')
    <2>1. DustOK(dust, sequence, DOMAIN assetMarks)
        BY DEF IInv, WellFormed
    <2>2. r.quantity > 0 => DustOK(With(dust, id, lot), sequence, DOMAIN assetMarks)
        BY <1>2, <1>4, <2>1, DustWith
    <2>3. QED BY <1>1, <2>1, <2>2
<1>11. /\ DOMAIN positions' = DOMAIN positions \ {id}
       /\ DOMAIN dust' = IF r.quantity > 0 THEN DOMAIN dust \cup {id} ELSE DOMAIN dust
    BY <1>1 DEF With, Without
<1>12. WellFormed'
    BY <1>8, <1>9, <1>10, <1>11 DEF IInv, WellFormed
<1>13. Book(positions', dust') = Book(positions, dust)
           + ((r.cost + r.attributable) - (p.cost + p.attributable))
    <2>1. Owned(positions, dust, id) = p.cost + p.attributable
        BY <1>2 DEF Owned, CapitalPosition
    <2>2. Owned(positions', dust', id) = r.cost + r.attributable
        <3>1. CASE r.quantity > 0
            <4>1. dust'[id] = lot /\ id \in DOMAIN dust' /\ id \notin DOMAIN positions'
                BY <1>1, <1>11, <3>1 DEF With
            <4>2. QED BY <1>2, <1>5, <4>1 DEF Owned, CapitalPosition
        <3>2. CASE ~(r.quantity > 0)
            <4>1. id \notin DOMAIN dust' /\ id \notin DOMAIN positions' /\ r.quantity = 0
                BY <1>1, <1>2, <1>11, <3>2 DEF CapitalPosition
            <4>2. QED BY <1>6, <4>1 DEF Owned
        <3>3. QED BY <3>1, <3>2
    <2>3. \A i \in CapitalId \ {id} : Owned(positions', dust', i) = Owned(positions, dust, i)
        BY <1>1, <1>11 DEF Owned, With, Without
    <2>4. QED BY <1>2, <1>12, <2>1, <2>2, <2>3, BookStep DEF IInv
<1>14. Book(positions', dust') - Book(positions, dust) = (free - free') + (realizedPnl' - realizedPnl)
    <2>1. /\ p.cost \in Nat /\ p.attributable \in Nat /\ r.cost \in Nat /\ r.attributable \in Nat
          /\ Book(positions, dust) \in Nat
        BY <1>2, BookType DEF IInv, CapitalPosition
    <2>2. QED BY <1>1, <1>2, <1>7, <1>13, <2>1
<1>15. QED BY <1>12, <1>14, ConservationStep DEF IInv

\* The books keep their total if id k takes over the amounts e of other ids.
LEMMA BookTransfer ==
    ASSUME MaxCapital \in Nat, NEW P, NEW D, NEW Q, NEW E, NEW k \in CapitalId, NEW e,
           \A i \in CapitalId : Owned(P, D, i) \in Int /\ Owned(Q, E, i) \in Int /\ e[i] \in Int,
           \A i \in CapitalId \ {k} : Owned(Q, E, i) = Owned(P, D, i) - e[i],
           Owned(P, D, k) = 0, e[k] = 0,
           Owned(Q, E, k) = Total(CapitalId, e, MaxCapital)
    PROVE  Book(Q, E) = Book(P, D)
<1> DEFINE f == [i \in CapitalId |-> Owned(P, D, i)]
           g == [i \in CapitalId |-> Owned(Q, E, i)]
<1>1. /\ \A i \in CapitalId : f[i] \in Int /\ g[i] \in Int /\ e[i] \in Int
      /\ \A i \in CapitalId \ {k} : g[i] = f[i] - e[i]
      /\ f[k] = 0 /\ e[k] = 0 /\ g[k] = Total(CapitalId, e, MaxCapital)
    OBVIOUS
<1> HIDE DEF f, g
<1>2. CapitalId \in SUBSET (1..MaxCapital)
    BY DEF CapitalId
<1>3. Total(CapitalId, g, MaxCapital) = Total(CapitalId, f, MaxCapital)
    BY <1>1, <1>2, TotalTransfer
<1>4. QED BY <1>3 DEF Book, f, g

\* consolidate_inventory: the new position takes over the sum of the costs.
LEMMA ConsolidateInventoryStep ==
    ASSUME IInv, NEW ids \in SUBSET DOMAIN positions, NEW pair \in Pair, NEW now \in Time,
           ConsolidateInventory(ids, pair, TradedAsset[pair], now)
    PROVE  IInv'
<1> DEFINE asset == TradedAsset[pair]
           cost == Total(ids, CostOf(positions), MaxCapital)
           marked == Total(ids, MarkedOf(positions), MaxCapital)
           quantity == Total(ids, QuantityOf(positions), MaxCapital)
           attributable == Total(ids, AttributableOf(positions), MaxCapital)
           p == FreshPosition(pair, "INVENTORY", asset, cost, marked, quantity, attributable)
<1>1. /\ ids # {} /\ \A i \in ids : positions[i].asset = asset
      /\ NextId \in CapitalId
      /\ positions' = With(Without(positions, ids), NextId, p)
      /\ sequence' = NextId /\ lastEvent' = now
      /\ UNCHANGED <<free, dust>> /\ UNCHANGED OtherAccounts
    BY DEF ConsolidateInventory, Commit, OtherAccounts
<1>2. /\ NextId \notin DOMAIN positions /\ NextId \notin DOMAIN dust
      /\ NextId \in 0..MaxCapital /\ sequence \in Nat /\ NextId = sequence + 1
    BY <1>1, NextIdIsFresh DEF IInv
<1>3. \A i \in ids : /\ positions[i] \in CapitalPosition
                     /\ CostOf(positions)[i] = positions[i].cost
                     /\ AttributableOf(positions)[i] = positions[i].attributable
                     /\ CostOf(positions)[i] \in Nat /\ MarkedOf(positions)[i] \in Nat
                     /\ QuantityOf(positions)[i] \in Nat /\ AttributableOf(positions)[i] \in Nat
    BY DEF IInv, WellFormed, PositionsOK, PositionOK, CapitalPosition,
           CostOf, AttributableOf, MarkedOf, QuantityOf
<1>4. cost \in Nat /\ marked \in Nat /\ quantity \in Nat /\ attributable \in Nat
    BY <1>3, TotalNat, AmountsAreNumbers
<1>5. asset \in DOMAIN assetMarks /\ asset \in Asset
    BY <1>1, AmountsAreNumbers DEF IInv, WellFormed, PositionsOK, PositionOK
<1> HIDE DEF cost, marked, quantity, attributable, asset
<1>6. /\ p \in CapitalPosition /\ p.state = "INVENTORY" /\ p.asset = asset
      /\ p.cost = cost /\ p.attributable = attributable
    <2>1. p \in CapitalPosition
        BY <1>4, <1>5, FreshPositionType DEF CapitalState
    <2>2. QED BY <2>1 DEF FreshPosition
<1>7. PositionOK(p, DOMAIN assetMarks)
    BY <1>5, <1>6 DEF PositionOK
<1> HIDE DEF p
<1>8. PositionsOK(positions', sequence', DOMAIN assetMarks')
    <2>1. PositionsOK(Without(positions, ids), sequence, DOMAIN assetMarks)
        BY PositionsWithout DEF IInv, WellFormed
    <2>2. NextId \in Nat /\ sequence <= NextId /\ NextId \in 1..NextId
        BY <1>2
    <2>3. PositionsOK(With(Without(positions, ids), NextId, p), NextId, DOMAIN assetMarks)
        BY <1>2, <1>7, <2>1, <2>2, PositionsWith
    <2>4. QED BY <1>1, <2>3 DEF OtherAccounts
<1>9. DustOK(dust', sequence', DOMAIN assetMarks')
    BY <1>1, <1>2 DEF IInv, WellFormed, DustOK, OtherAccounts
<1>10. DOMAIN positions' = (DOMAIN positions \ ids) \cup {NextId}
    BY <1>1 DEF With, Without
<1>11. AccountsOK'
    BY <1>1, <1>2, AccountsStep DEF IInv, WellFormed, AccountsOK
<1>12. WellFormed'
    BY <1>1, <1>2, <1>8, <1>9, <1>10, <1>11 DEF IInv, WellFormed
<1>13. Book(positions', dust') = Book(positions, dust)
    <2> DEFINE e == [i \in CapitalId |-> IF i \in ids THEN Owned(positions, dust, i) ELSE 0]
               worth == [i \in ids |-> Owned(positions, dust, i)]
    <2>1. ids \in SUBSET CapitalId /\ NextId \notin ids
        BY <1>2, PositionAt DEF IInv
    <2>2. \A i \in CapitalId : Owned(positions, dust, i) \in Nat /\ Owned(positions', dust', i) \in Int
        BY <1>12, OwnedType DEF IInv, WellFormed, PositionsOK, PositionOK, DustOK, CapitalPosition, DustLot, Owned
    <2>3. \A i \in ids : worth[i] = CostOf(positions)[i] + AttributableOf(positions)[i]
        BY <1>3, PositionAt DEF IInv, Owned, CapitalPosition
    <2>4. /\ \A i \in CapitalId : e[i] \in Int
          /\ \A i \in ids : worth[i] = e[i]
          /\ \A i \in CapitalId \ ids : e[i] = 0
        BY <2>1, <2>2
    <2>5. Owned(positions, dust, NextId) = 0
        BY <1>2 DEF Owned
    <2>6. \A i \in CapitalId \ {NextId} : Owned(positions', dust', i) = Owned(positions, dust, i) - e[i]
        <3> SUFFICES ASSUME NEW i \in CapitalId \ {NextId}
                     PROVE  Owned(positions', dust', i) = Owned(positions, dust, i) - e[i]
            OBVIOUS
        <3>1. CASE i \in ids
            <4>1. i \notin DOMAIN positions' /\ i \notin DOMAIN dust'
                BY <1>1, <1>10, <3>1, PositionAt DEF IInv
            <4>2. Owned(positions', dust', i) = 0
                BY <4>1 DEF Owned
            <4>3. QED BY <2>2, <3>1, <4>2
        <3>2. CASE i \notin ids
            <4>1. Owned(positions', dust', i) = Owned(positions, dust, i)
                BY <1>1, <3>2 DEF Owned, With, Without
            <4>2. QED BY <2>2, <3>2, <4>1
        <3>3. QED BY <3>1, <3>2
    <2> HIDE DEF e, worth
    <2>7. Total(ids, worth, MaxCapital) = cost + attributable
        <3>1. \A i \in ids : /\ CostOf(positions)[i] \in Int /\ AttributableOf(positions)[i] \in Int
                             /\ worth[i] = CostOf(positions)[i] + AttributableOf(positions)[i]
            BY <1>3, <2>3
        <3>2. QED BY <3>1, TotalAdd, AmountsAreNumbers DEF cost, attributable
    <2>8. Total(ids, worth, MaxCapital) = Total(CapitalId, e, MaxCapital)
        BY <2>1, <2>4, TotalSame, AmountsAreNumbers
    <2>9. Owned(positions', dust', NextId) = cost + attributable
        BY <1>1, <1>2, <1>4, <1>6, <1>10 DEF Owned, With
    <2>10. e[NextId] = 0
        BY <1>1, <2>1, <2>4
    <2>11. QED BY <1>1, <2>2, <2>4, <2>5, <2>6, <2>7, <2>8, <2>9, <2>10, BookTransfer, AmountsAreNumbers
<1>14. QED BY <1>1, <1>12, <1>13, BookType DEF OtherAccounts, IInv, Conservation

\* What a consumption takes from a lot is between nothing and all of it, and
\* an emptied lot gives up its whole cost.
LEMMA TakenBounds ==
    ASSUME WellFormed, NEW S \in SUBSET DOMAIN dust, NEW quantity \in Nat, NEW i \in S
    PROVE  /\ Taken(i, S, quantity) \in 0..dust[i].quantity
           /\ TakenCost(i, S, quantity) \in 0..dust[i].cost
           /\ Taken(i, S, quantity) = dust[i].quantity => TakenCost(i, S, quantity) = dust[i].cost
<1> DEFINE older == Total(Older(i, S), QuantityOf(dust), MaxCapital)
           taken == Taken(i, S, quantity)
<1>1. dust[i] \in DustLot
    BY DEF WellFormed, DustOK
<1>2. older \in Int
    <2>1. \A j \in Older(i, S) : QuantityOf(dust)[j] \in Int
        BY DEF Older, QuantityOf, WellFormed, DustOK, DustLot
    <2>2. QED BY <2>1, TotalType, AmountsAreNumbers
<1>3. taken \in 0..dust[i].quantity
    <2>1. dust[i].quantity \in Nat
        BY <1>1 DEF DustLot
    <2>2. taken = IF quantity - older <= 0 THEN 0
                  ELSE IF quantity - older < dust[i].quantity THEN quantity - older ELSE dust[i].quantity
        BY DEF Taken
    <2> HIDE DEF taken, older
    <2>3. QED BY <1>2, <2>1, <2>2
<1> HIDE DEF taken
<1>4. TakenCost(i, S, quantity) = ProRata(dust[i].cost, taken, dust[i].quantity)
    BY DEF TakenCost, taken
<1>5. /\ dust[i].cost \in Nat /\ dust[i].quantity \in Nat /\ dust[i].quantity > 0
      /\ taken \in Nat /\ taken <= dust[i].quantity
    BY <1>1, <1>3 DEF DustLot
<1>6. TakenCost(i, S, quantity) \in 0..dust[i].cost
    BY <1>4, <1>5, ProRataBounds
<1>7. taken = dust[i].quantity => TakenCost(i, S, quantity) = dust[i].cost
    BY <1>4, <1>5, ProRataWhole
<1>8. QED BY <1>3, <1>6, <1>7 DEF taken

\* reserve_aggregated_dust: the new position takes over exactly what the lots
\* give up, also where a pro-rata share is rounded.
LEMMA ReserveAggregatedDustStep ==
    ASSUME IInv, NEW pair \in Pair, NEW mark \in Mark, NEW now \in Time,
           NEW quantity \in 1..Total(Lots(pair, TradedAsset[pair]), QuantityOf(dust), MaxCapital),
           ReserveAggregatedDust(pair, TradedAsset[pair], quantity, mark, now)
    PROVE  IInv'
<1> DEFINE asset == TradedAsset[pair]
           S == Lots(pair, asset)
           amount(i) == TakenCost(i, S, quantity)
           costs == [i \in DOMAIN dust |-> amount(i)]
           cost == Total(DOMAIN dust, costs, MaxCapital)
           p == FreshPosition(pair, "RETURN", asset, cost, quantity * mark, quantity, 0)
<1>1. /\ NextId \in CapitalId /\ sequence' = NextId /\ lastEvent' = now
      /\ dust' = Consumed(S, quantity)
      /\ positions' = With(positions, NextId, p)
      /\ UNCHANGED free /\ UNCHANGED OtherAccounts
    BY DEF ReserveAggregatedDust, Commit, OtherAccounts
<1>2. /\ NextId \notin DOMAIN positions /\ NextId \notin DOMAIN dust
      /\ NextId \in 0..MaxCapital /\ sequence \in Nat /\ NextId = sequence + 1
    BY <1>1, NextIdIsFresh DEF IInv
<1>3. S \in SUBSET DOMAIN dust
    BY DEF Lots
<1>4. quantity \in Nat
    OBVIOUS
<1>5. asset \in DOMAIN assetMarks /\ asset \in Asset
    <2>1. S # {}
        <3>1. Total({}, QuantityOf(dust), MaxCapital) = 0
            BY TotalEmpty, AmountsAreNumbers
        <3>2. QED BY <3>1
    <2>2. QED BY <2>1, AmountsAreNumbers DEF Lots, IInv, WellFormed, DustOK
<1>6. \A i \in DOMAIN dust :
          /\ dust[i] \in DustLot /\ dust[i].asset \in DOMAIN assetMarks
          /\ amount(i) \in 0..dust[i].cost
    <2> SUFFICES ASSUME NEW i \in DOMAIN dust
                 PROVE  /\ dust[i] \in DustLot /\ dust[i].asset \in DOMAIN assetMarks
                        /\ amount(i) \in 0..dust[i].cost
        OBVIOUS
    <2>1. dust[i] \in DustLot /\ dust[i].asset \in DOMAIN assetMarks
        BY DEF IInv, WellFormed, DustOK
    <2>2. CASE i \in S
        BY <1>3, <1>4, <2>1, <2>2, TakenBounds DEF IInv
    <2>3. CASE i \notin S
        BY <2>1, <2>3 DEF TakenCost, DustLot
    <2>4. QED BY <2>1, <2>2, <2>3
<1> HIDE DEF S
<1>7. /\ DOMAIN dust' \subseteq DOMAIN dust
      /\ dust' = [i \in DOMAIN dust' |-> dust'[i]]
      /\ \A i \in DOMAIN dust' : /\ dust'[i] \in DustLot
                                 /\ dust'[i].asset = dust[i].asset
                                 /\ dust'[i].cost = dust[i].cost - amount(i)
      /\ \A i \in DOMAIN dust \ DOMAIN dust' : amount(i) = dust[i].cost
    <2> DEFINE taken(i) == IF i \in S THEN Taken(i, S, quantity) ELSE 0
               kept == {i \in DOMAIN dust : dust[i].quantity > taken(i)}
               lot(i) == [dust[i] EXCEPT !.quantity = @ - taken(i), !.cost = @ - amount(i)]
    <2>1. dust' = [i \in kept |-> lot(i)]
        BY <1>1 DEF Consumed
    <2>2. \A i \in DOMAIN dust : /\ taken(i) \in 0..dust[i].quantity
                                 /\ taken(i) = dust[i].quantity => amount(i) = dust[i].cost
        <3> SUFFICES ASSUME NEW i \in DOMAIN dust
                     PROVE  /\ taken(i) \in 0..dust[i].quantity
                            /\ taken(i) = dust[i].quantity => amount(i) = dust[i].cost
            OBVIOUS
        <3>1. CASE i \in S
            BY <1>3, <1>4, <3>1, TakenBounds DEF IInv
        <3>2. CASE i \notin S
            BY <1>6, <3>2 DEF DustLot
        <3>3. QED BY <3>1, <3>2
    <2> HIDE DEF taken, amount
    <2>3. \A i \in kept : /\ lot(i) \in DustLot
                          /\ lot(i).asset = dust[i].asset
                          /\ lot(i).cost = dust[i].cost - amount(i)
        <3> SUFFICES ASSUME NEW i \in kept
                     PROVE  /\ lot(i) \in DustLot
                            /\ lot(i).asset = dust[i].asset
                            /\ lot(i).cost = dust[i].cost - amount(i)
            OBVIOUS
        <3>1. /\ dust[i] \in DustLot /\ amount(i) \in 0..dust[i].cost
              /\ taken(i) \in 0..dust[i].quantity /\ dust[i].quantity > taken(i)
            BY <1>6, <2>2
        <3>2. /\ dust[i].quantity - taken(i) \in Nat \ {0} /\ dust[i].cost - amount(i) \in Nat
            BY <3>1 DEF DustLot
        <3>3. QED BY <3>1, <3>2 DEF DustLot
    <2>4. \A i \in DOMAIN dust \ kept : amount(i) = dust[i].cost
        <3> SUFFICES ASSUME NEW i \in DOMAIN dust \ kept PROVE amount(i) = dust[i].cost
            OBVIOUS
        <3>1. dust[i].quantity \in Nat /\ ~(dust[i].quantity > taken(i)) /\ taken(i) \in 0..dust[i].quantity
            BY <1>6, <2>2 DEF DustLot
        <3>2. taken(i) = dust[i].quantity
            BY <3>1
        <3>3. QED BY <2>2, <3>2
    <2>5. DOMAIN dust' = kept /\ \A i \in kept : dust'[i] = lot(i)
        BY <2>1
    <2>6. kept \subseteq DOMAIN dust
        OBVIOUS
    <2>7. dust' = [i \in DOMAIN dust' |-> dust'[i]]
        BY <2>1
    <2> HIDE DEF kept, lot
    <2>8. QED BY <2>3, <2>4, <2>5, <2>6, <2>7
<1>8. cost \in Nat
    <2>1. \A i \in DOMAIN dust : costs[i] \in Nat
        BY <1>6 DEF DustLot
    <2> HIDE DEF costs
    <2>2. QED BY <2>1, TotalNat, AmountsAreNumbers
<1>9. quantity * mark \in Nat
    BY <1>4, AmountsAreNumbers
<1> DEFINE worth == quantity * mark
           q == FreshPosition(pair, "RETURN", asset, cost, worth, quantity, 0)
<1>10. p = q
    OBVIOUS
<1> HIDE DEF p, cost, costs, amount, worth, asset
<1>11. /\ q \in CapitalPosition /\ q.state = "RETURN" /\ q.asset = asset
       /\ q.cost = cost /\ q.attributable = 0
    <2>1. worth \in Nat
        BY <1>9 DEF worth
    <2>2. q \in CapitalPosition
        BY <1>4, <1>5, <1>8, <2>1, FreshPositionType DEF CapitalState
    <2>3. QED BY <2>2 DEF FreshPosition
<1> HIDE DEF q
<1>12. PositionOK(p, DOMAIN assetMarks)
    BY <1>5, <1>10, <1>11 DEF PositionOK
<1>13. PositionsOK(positions', sequence', DOMAIN assetMarks')
    <2>1. PositionsOK(positions, sequence, DOMAIN assetMarks)
        BY DEF IInv, WellFormed
    <2>2. NextId \in Nat /\ sequence <= NextId /\ NextId \in 1..NextId
        BY <1>2
    <2>3. PositionsOK(With(positions, NextId, p), NextId, DOMAIN assetMarks)
        BY <1>2, <1>12, <2>1, <2>2, PositionsWith
    <2>4. QED BY <1>1, <2>3 DEF OtherAccounts
<1>14. DustOK(dust', sequence', DOMAIN assetMarks')
    <2>1. DOMAIN dust \subseteq 1..sequence /\ DOMAIN assetMarks' = DOMAIN assetMarks
        BY <1>1 DEF IInv, WellFormed, DustOK, OtherAccounts
    <2>2. DOMAIN dust' \subseteq 1..sequence'
        BY <1>1, <1>2, <1>7, <2>1
    <2>3. QED BY <1>6, <1>7, <2>1, <2>2 DEF DustOK
<1>15. DOMAIN positions' = DOMAIN positions \cup {NextId}
    BY <1>1 DEF With
<1>16. AccountsOK'
    BY <1>1, <1>2, AccountsStep DEF IInv, WellFormed, AccountsOK
<1>17. WellFormed'
    BY <1>2, <1>7, <1>13, <1>14, <1>15, <1>16 DEF IInv, WellFormed
<1>18. Book(positions', dust') = Book(positions, dust)
    <2> DEFINE e == [i \in CapitalId |-> IF i \in DOMAIN dust THEN amount(i) ELSE 0]
    <2>1. \A i \in CapitalId : Owned(positions, dust, i) \in Nat /\ Owned(positions', dust', i) \in Int
        BY <1>17, OwnedType DEF IInv, WellFormed, PositionsOK, PositionOK, DustOK, CapitalPosition, DustLot, Owned
    <2>2. DOMAIN dust \in SUBSET CapitalId
        <3>1. DOMAIN dust \subseteq 1..sequence /\ sequence <= MaxCapital
            BY <1>2, AmountsAreNumbers DEF IInv, WellFormed, DustOK
        <3>2. QED BY <1>2, <3>1, AmountsAreNumbers DEF CapitalId
    <2>3. \A i \in DOMAIN dust : amount(i) \in Nat
        BY <1>6 DEF DustLot
    <2>4. /\ \A i \in CapitalId : e[i] \in Int
          /\ \A i \in DOMAIN dust : costs[i] = e[i]
          /\ \A i \in CapitalId \ DOMAIN dust : e[i] = 0
          /\ e[NextId] = 0
        BY <1>1, <1>2, <2>2, <2>3 DEF costs
    <2>5. Owned(positions, dust, NextId) = 0
        BY <1>2 DEF Owned
    <2>6. \A i \in CapitalId \ {NextId} : Owned(positions', dust', i) = Owned(positions, dust, i) - e[i]
        <3> SUFFICES ASSUME NEW i \in CapitalId \ {NextId}
                     PROVE  Owned(positions', dust', i) = Owned(positions, dust, i) - e[i]
            OBVIOUS
        <3>1. CASE i \in DOMAIN dust
            <4>1. i \notin DOMAIN positions /\ i \notin DOMAIN positions'
                BY <1>15, <3>1 DEF IInv, WellFormed
            <4>2. e[i] = amount(i) /\ dust[i].cost \in Nat /\ amount(i) \in Nat
                BY <1>6, <2>3, <3>1 DEF DustLot
            <4>3. CASE i \in DOMAIN dust'
                <5>1. dust'[i].cost = dust[i].cost - amount(i)
                    BY <1>7, <4>3
                <5>2. QED BY <3>1, <4>1, <4>2, <4>3, <5>1 DEF Owned
            <4>4. CASE i \notin DOMAIN dust'
                <5>1. amount(i) = dust[i].cost
                    BY <1>7, <3>1, <4>4
                <5>2. QED BY <3>1, <4>1, <4>2, <4>4, <5>1 DEF Owned
            <4>5. QED BY <4>3, <4>4
        <3>2. CASE i \notin DOMAIN dust
            <4>1. i \notin DOMAIN dust'
                BY <1>7, <3>2
            <4>2. Owned(positions', dust', i) = Owned(positions, dust, i)
                BY <1>1, <3>2, <4>1 DEF Owned, With
            <4>3. QED BY <2>1, <2>4, <3>2, <4>2
        <3>3. QED BY <3>1, <3>2
    <2> HIDE DEF e
    <2>7. Total(DOMAIN dust, costs, MaxCapital) = Total(CapitalId, e, MaxCapital)
        BY <2>2, <2>4, TotalSame, AmountsAreNumbers
    <2>8. Owned(positions', dust', NextId) = cost
        <3>1. positions'[NextId] = p /\ NextId \in DOMAIN positions' /\ NextId \notin DOMAIN dust'
            BY <1>1, <1>2, <1>7, <1>15 DEF With
        <3>2. QED BY <1>8, <1>10, <1>11, <3>1 DEF Owned
    <2>9. QED BY <1>1, <2>1, <2>4, <2>5, <2>6, <2>7, <2>8, BookTransfer, AmountsAreNumbers DEF cost
<1>19. QED BY <1>1, <1>17, <1>18, BookType DEF OtherAccounts, IInv, Conservation

-----------------------------------------------------------------------------
\* A step of the ledger, or of its environment, preserves the invariant.
LEMMA NextIInv == IInv /\ [Next]_vars => IInv'
<1> SUFFICES ASSUME IInv, [Next]_vars
             PROVE  IInv'
    OBVIOUS
<1>1. CASE UNCHANGED vars
    <2>1. /\ UNCHANGED <<free, positions, dust, cycles, realizedPnl, externalCosts>>
          /\ UNCHANGED <<assetMarks, authorizations, consumed, sequence, lastEvent>>
        BY <1>1 DEF vars
    <2>2. AccountsOK'
        BY <2>1 DEF IInv, WellFormed, AccountsOK
    <2>3. WellFormed'
        BY <2>1, <2>2 DEF IInv, WellFormed
    <2>4. \A i \in CapitalId : Owned(positions', dust', i) = Owned(positions, dust, i)
        BY <2>1
    <2>5. QED BY <2>1, <2>3, <2>4, StillBalanced
<1>2. ASSUME NEW now \in Time, NEW pair \in Pair, NEW amount \in Grant, Reserve(pair, amount, now)
      PROVE  IInv'
    BY <1>2, ReserveStep
<1>3. ASSUME NEW now \in Time, NEW id \in DOMAIN positions, RequestCancel(id, now)
      PROVE  IInv'
    BY <1>3, RequestCancelStep
<1>4. ASSUME NEW now \in Time, NEW id \in DOMAIN positions, AcknowledgeCancel(id, now)
      PROVE  IInv'
    BY <1>4, AcknowledgeCancelStep
<1>5. ASSUME NEW now \in Time, NEW id \in DOMAIN positions,
             NEW input \in 1..positions[id].cost, NEW gain \in EntryGain, NEW m \in Mark, NEW c \in Cost,
             input + gain > 0, RecordEntryFill(id, input, input + gain, m, c, now)
      PROVE  IInv'
    <2>1. input + gain \in Nat
        <3>1. input \in Int /\ gain \in Int
            BY <1>5, LedgerAssumption
        <3>2. QED BY <1>5, <3>1
    <2>2. QED BY <1>5, <2>1, RecordEntryFillStep
<1>6. ASSUME NEW now \in Time, NEW id \in DOMAIN positions, ReserveOwnedReturn(id, now)
      PROVE  IInv'
    BY <1>6, ReserveOwnedReturnStep
<1>7. ASSUME NEW now \in Time, NEW id \in DOMAIN positions, MoveToDust(id, now)
      PROVE  IInv'
    BY <1>7, MoveToDustStep
<1>8. ASSUME NEW now \in Time, NEW id \in DOMAIN positions, NEW auth \in AuthorizationId,
             NEW expires \in Time, NEW q \in ExitQuantity, NEW l \in Loss,
             RegisterRiskExit(auth, id, expires, q, l, now)
      PROVE  IInv'
    BY <1>8, RegisterRiskExitStep
<1>9. ASSUME NEW now \in Time, NEW id \in DOMAIN positions, NEW cycle \in OfferedCycle,
             NEW sold \in 1..positions[id].quantity, NEW gain \in ReturnGain,
             NEW auth \in AuthorizationId \cup {NoAuthorization}, sold + gain >= 0,
             \/ SettlePartialReturn(id, cycle, sold, sold + gain, auth, now)
             \/ SettleCompleteReturn(id, cycle, sold, sold + gain, auth, now)
      PROVE  IInv'
    <2>1. sold + gain \in Nat
        <3>1. sold \in Int /\ gain \in Int
            BY <1>9, LedgerAssumption
        <3>2. QED BY <1>9, <3>1
    <2>2. cycle \in CycleId
        BY <1>9 DEF OfferedCycle
    <2>3. QED BY <1>9, <2>1, <2>2, SettlePartialReturnStep, SettleCompleteReturnStep
<1>10. ASSUME NEW now \in Time, NEW id \in DOMAIN positions, NEW m \in Mark, UpdateMark(id, m, now)
       PROVE  IInv'
    BY <1>10, UpdateMarkStep
<1>11. ASSUME NEW now \in Time, NEW pair \in Pair, NEW ids \in SUBSET DOMAIN positions,
              ConsolidateInventory(ids, pair, TradedAsset[pair], now)
       PROVE  IInv'
    BY <1>11, ConsolidateInventoryStep
<1>12. ASSUME NEW now \in Time, NEW pair \in Pair, NEW m \in Mark,
              NEW q \in 1..Total(Lots(pair, TradedAsset[pair]), QuantityOf(dust), MaxCapital),
              ReserveAggregatedDust(pair, TradedAsset[pair], q, m, now)
       PROVE  IInv'
    BY <1>12, ReserveAggregatedDustStep
<1>13. ASSUME NEW now \in Time, NEW pair \in Pair, NEW m \in Mark,
              UpdateAssetMark(TradedAsset[pair], m, now)
       PROVE  IInv'
    <2>1. TradedAsset[pair] \in Asset \ {USDT}
        BY AmountsAreNumbers
    <2>2. QED BY <1>13, <2>1, UpdateAssetMarkStep
<1>14. QED BY <1>1, <1>2, <1>3, <1>4, <1>5, <1>6, <1>7, <1>8, <1>9, <1>10, <1>11, <1>12, <1>13 DEF Next

\* The books stay well formed and balanced in every behaviour of the ledger.
THEOREM InductiveInvariant == Spec => []IInv
BY InitIInv, NextIInv, PTL DEF Spec

\* Every field of the ledger keeps its type, whatever the bank, the amounts
\* and the number of operations.
THEOREM TypeCorrect == Spec => []TypeOK
<1>1. IInv => TypeOK
    BY WellFormedMeans DEF IInv
<1>2. QED BY <1>1, InductiveInvariant, PTL

\* No operation of the ledger creates or loses money: cash, the books of the
\* positions and the dust always add up to the bank and what it has earned.
THEOREM MoneyIsConserved == Spec => []Conservation
<1>1. IInv => Conservation
    BY DEF IInv
<1>2. QED BY <1>1, InductiveInvariant, PTL

\* reconcile(), which raises only after the operation has changed the books,
\* has nothing to raise about.
THEOREM ReconcileNeverRaises == Spec => []ReconcileHolds
<1>1. IInv => ReconcileHolds
    BY WellFormedMeans DEF IInv
<1>2. QED BY <1>1, InductiveInvariant, PTL

\* What a cancel acknowledgement frees is cash the order never used, also
\* when fills raced with the cancel.
THEOREM PendingIsUntouchedCash == Spec => []PendingCapitalIsCash
<1>1. IInv => PendingCapitalIsCash
    BY WellFormedMeans DEF IInv
<1>2. QED BY <1>1, InductiveInvariant, PTL

\* No position or dust lot is ever in an asset without a mark.
THEOREM EveryHoldingIsMarked == Spec => []HoldingsMarked
<1>1. IInv => HoldingsMarked
    BY WellFormedMeans DEF IInv
<1>2. QED BY <1>1, InductiveInvariant, PTL

-----------------------------------------------------------------------------
(* What the accounts say.                                                  *)

\* Only a return has sold anything.
NothingSold(p) ==
    p.returnedProceeds = 0 /\ p.returnedCost = 0 /\ p.returnedAttributable = 0

OnlyReturnsSell == \A i \in DOMAIN positions : positions[i].state # "RETURN" => NothingSold(positions[i])

\* From P to Q nothing is sold: what has been sold stays with its id and its
\* pair, and ids that come or go have sold nothing.
Unsold(P, Q) ==
    /\ \A i \in DOMAIN Q : Q[i].state # "RETURN" => NothingSold(Q[i])
    /\ \A i \in DOMAIN P \cap DOMAIN Q :
        /\ Q[i].pair = P[i].pair
        /\ Q[i].returnedProceeds = P[i].returnedProceeds
        /\ Q[i].returnedCost = P[i].returnedCost
        /\ Q[i].returnedAttributable = P[i].returnedAttributable
    /\ \A i \in DOMAIN Q \ DOMAIN P : NothingSold(Q[i])
    /\ \A i \in DOMAIN P \ DOMAIN Q : NothingSold(P[i])

\* What every position is, for the steps that follow.
LEMMA PositionsTyped ==
    ASSUME WellFormed
    PROVE  /\ positions = [i \in DOMAIN positions |-> positions[i]]
           /\ \A i \in DOMAIN positions : positions[i] \in CapitalPosition /\ i \in CapitalId
BY PositionAt DEF WellFormed, PositionsOK, PositionOK

\* A new position has sold nothing.
LEMMA FreshHasSoldNothing ==
    ASSUME NEW pair, NEW state, NEW asset, NEW cost, NEW marked, NEW quantity, NEW attributable
    PROVE  NothingSold(FreshPosition(pair, state, asset, cost, marked, quantity, attributable))
BY DEF FreshPosition, NothingSold

\* A position is added under a new id.
LEMMA UnsoldWith ==
    ASSUME NEW P, NEW Q, Unsold(P, Q), NEW k, k \notin DOMAIN P, k \notin DOMAIN Q,
           NEW p, NothingSold(p)
    PROVE  Unsold(P, With(Q, k, p))
BY DEF Unsold, With

\* Every operation on the positions but settle_return.
SellsNothing(now) ==
    \/ \E pair \in Pair, amount \in Grant : Reserve(pair, amount, now)
    \/ \E id \in DOMAIN positions :
         \/ RequestCancel(id, now) \/ AcknowledgeCancel(id, now)
         \/ ReserveOwnedReturn(id, now) \/ MoveToDust(id, now)
         \/ \E m \in Mark : UpdateMark(id, m, now)
         \/ \E input, quantity, m, c : RecordEntryFill(id, input, quantity, m, c, now)
    \/ \E pair \in Pair, ids \in SUBSET DOMAIN positions :
         ConsolidateInventory(ids, pair, TradedAsset[pair], now)
    \/ \E pair \in Pair : \E q, m : ReserveAggregatedDust(pair, TradedAsset[pair], q, m, now)
    \/ \E asset, m : UpdateAssetMark(asset, m, now)

\* No operation but settle_return sells anything.
LEMMA NothingIsSold ==
    ASSUME IInv, OnlyReturnsSell, NEW now \in Time,
           SellsNothing(now)
    PROVE  Unsold(positions, positions') /\ UNCHANGED <<cycles, realizedPnl, authorizations, consumed>>
<1>1. /\ positions = [i \in DOMAIN positions |-> positions[i]]
      /\ \A i \in DOMAIN positions : positions[i] \in CapitalPosition
    BY PositionsTyped DEF IInv
<1>2. NextId \in CapitalId => NextId \notin DOMAIN positions
    BY NextIdIsFresh DEF IInv
<1>3. Unsold(positions, positions)
    BY DEF Unsold, OnlyReturnsSell
<1>4. ASSUME NEW pair \in Pair, NEW amount \in Grant, Reserve(pair, amount, now)
      PROVE  Unsold(positions, positions') /\ UNCHANGED <<cycles, realizedPnl, authorizations, consumed>>
    BY <1>2, <1>3, <1>4, UnsoldWith, FreshHasSoldNothing DEF Reserve
<1>5. ASSUME NEW id \in DOMAIN positions,
             \/ RequestCancel(id, now) \/ ReserveOwnedReturn(id, now)
             \/ \E m \in Mark : UpdateMark(id, m, now)
      PROVE  Unsold(positions, positions') /\ UNCHANGED <<cycles, realizedPnl, authorizations, consumed>>
    BY <1>1, <1>5
    DEF RequestCancel, ReserveOwnedReturn, UpdateMark, HasState, Unsold, NothingSold, OnlyReturnsSell, CapitalPosition
<1>6. ASSUME NEW id \in DOMAIN positions, AcknowledgeCancel(id, now) \/ MoveToDust(id, now)
      PROVE  Unsold(positions, positions') /\ UNCHANGED <<cycles, realizedPnl, authorizations, consumed>>
    BY <1>6 DEF AcknowledgeCancel, MoveToDust, AwaitsAck, HasState, Without, Unsold, OnlyReturnsSell
<1>7. ASSUME NEW id \in DOMAIN positions, NEW input, NEW quantity, NEW m, NEW c,
             RecordEntryFill(id, input, quantity, m, c, now)
      PROVE  Unsold(positions, positions') /\ UNCHANGED <<cycles, realizedPnl, authorizations, consumed>>
    <2>1. NothingSold(positions[id])
        BY <1>7 DEF RecordEntryFill, HasState, OnlyReturnsSell
    <2>2. CASE positions' = FullEntryPositions(id, quantity, m, c)
        <3>1. /\ DOMAIN positions' = DOMAIN positions
              /\ \A i \in DOMAIN positions \ {id} : positions'[i] = positions[i]
            BY <2>2 DEF FullEntryPositions
        <3>2. /\ positions'[id].pair = positions[id].pair
              /\ positions'[id].returnedProceeds = positions[id].returnedProceeds
              /\ positions'[id].returnedCost = positions[id].returnedCost
              /\ positions'[id].returnedAttributable = positions[id].returnedAttributable
            BY <1>1, <2>2 DEF FullEntryPositions, CapitalPosition
        <3>3. Unsold(positions, positions')
            BY <2>1, <3>1, <3>2 DEF Unsold, NothingSold, OnlyReturnsSell
        <3>4. QED BY <1>7, <3>3 DEF RecordEntryFill
    <2>3. CASE NextId \in CapitalId /\ positions' = PartialEntryPositions(id, input, quantity, m, c)
        <3> DEFINE left == positions[id].cost - input
                   P == [positions EXCEPT ![id].cost = left, ![id].marked = left, ![id].quantity = left]
        <3>1. Unsold(positions, P) /\ DOMAIN P = DOMAIN positions
            BY <1>1, <2>1 DEF Unsold, NothingSold, OnlyReturnsSell, CapitalPosition
        <3>2. \E p : NothingSold(p) /\ positions' = With(P, NextId, p)
            BY <2>3, FreshHasSoldNothing DEF PartialEntryPositions, PartialEntryFrom
        <3> HIDE DEF P
        <3>3. QED BY <1>2, <1>7, <2>3, <3>1, <3>2, UnsoldWith DEF RecordEntryFill
    <2>4. QED BY <1>7, <2>2, <2>3 DEF RecordEntryFill
<1>8. ASSUME NEW pair \in Pair, NEW ids \in SUBSET DOMAIN positions,
             ConsolidateInventory(ids, pair, TradedAsset[pair], now)
      PROVE  Unsold(positions, positions') /\ UNCHANGED <<cycles, realizedPnl, authorizations, consumed>>
    <2>1. \A i \in ids : NothingSold(positions[i])
        BY <1>8 DEF ConsolidateInventory, HasState, OnlyReturnsSell
    <2>2. Unsold(positions, Without(positions, ids)) /\ NextId \notin DOMAIN Without(positions, ids)
        BY <1>2, <1>8, <2>1 DEF ConsolidateInventory, Without, Unsold, OnlyReturnsSell
    <2>3. \E p : NothingSold(p) /\ positions' = With(Without(positions, ids), NextId, p)
        BY <1>8, FreshHasSoldNothing DEF ConsolidateInventory
    <2>4. QED BY <1>2, <1>8, <2>2, <2>3, UnsoldWith DEF ConsolidateInventory
<1>9. ASSUME NEW pair \in Pair, NEW q, NEW m, ReserveAggregatedDust(pair, TradedAsset[pair], q, m, now)
      PROVE  Unsold(positions, positions') /\ UNCHANGED <<cycles, realizedPnl, authorizations, consumed>>
    <2>1. \E p : NothingSold(p) /\ positions' = With(positions, NextId, p)
        BY <1>9, FreshHasSoldNothing DEF ReserveAggregatedDust
    <2>2. QED BY <1>2, <1>3, <1>9, <2>1, UnsoldWith DEF ReserveAggregatedDust
<1>10. ASSUME NEW asset, NEW m, UpdateAssetMark(asset, m, now)
       PROVE  Unsold(positions, positions') /\ UNCHANGED <<cycles, realizedPnl, authorizations, consumed>>
    BY <1>1, <1>10 DEF UpdateAssetMark, Unsold, NothingSold, OnlyReturnsSell, CapitalPosition
<1>11. QED BY <1>4, <1>5, <1>6, <1>7, <1>8, <1>9, <1>10 DEF SellsNothing

-----------------------------------------------------------------------------
\* What a cycle was authorized with has been spent.
SpentIsConsumed ==
    \A c \in DOMAIN cycles :
        cycles[c].authorization # NoAuthorization => cycles[c].authorization \in consumed

LossInv == OnlyReturnsSell /\ LossesAuthorized /\ SpentIsConsumed

\* Where nothing is sold, every loss stays authorized.
LEMMA UnsoldKeepsLosses ==
    ASSUME IInv, LossInv, IInv', Unsold(positions, positions'), UNCHANGED <<cycles, consumed>>,
           \A a \in DOMAIN authorizations : a \in DOMAIN authorizations' /\ authorizations'[a] = authorizations[a]
    PROVE  LossInv'
<1>1. \A i \in DOMAIN positions' :
          \/ i \in DOMAIN positions /\ Realized(positions'[i]) = Realized(positions[i])
          \/ Realized(positions'[i]) = 0
    BY DEF Unsold, NothingSold, Realized
<1>2. OnlyReturnsSell' /\ SpentIsConsumed'
    BY DEF Unsold, OnlyReturnsSell, LossInv, SpentIsConsumed
<1>3. LossesAuthorized'
    BY <1>1 DEF LossInv, LossesAuthorized
<1>4. QED BY <1>2, <1>3 DEF LossInv

\* settle_return of an incomplete order.
LEMMA PartialReturnKeepsLosses ==
    ASSUME IInv, LossInv, NEW id \in DOMAIN positions, NEW cycle \in CycleId, NEW auth, NEW now \in Time,
           NEW sold \in 1..positions[id].quantity, NEW proceeds \in Nat,
           SettlePartialReturn(id, cycle, sold, proceeds, auth, now)
    PROVE  LossInv'
<1> DEFINE r == Returned(positions[id], sold, proceeds)
<1>1. /\ HasState(id, {"RETURN"})
      /\ Realized(r) < 0 => /\ auth \in DOMAIN authorizations
                            /\ authorizations[auth].capital = id
                            /\ -Realized(r) <= authorizations[auth].loss
      /\ positions' = [positions EXCEPT ![id] =
             [r EXCEPT !.marked = r.quantity * assetMarks[r.asset], !.pendingCycle = cycle]]
      /\ UNCHANGED <<cycles, authorizations, consumed>>
    BY DEF SettlePartialReturn, SettlementAllowed, Authorized
<1>r. r = Returned(positions[id], sold, proceeds)
    OBVIOUS
<1> HIDE DEF r
<1>h. HasState(id, {"RETURN"}) /\ (Realized(r) < 0 => auth \in DOMAIN authorizations)
    BY <1>1
<1>2. r \in CapitalPosition /\ r.state = "RETURN"
    BY <1>h, <1>r, SettlementMeans
<1>3. /\ DOMAIN positions' = DOMAIN positions
      /\ \A i \in DOMAIN positions \ {id} : positions'[i] = positions[i]
      /\ positions'[id].state = "RETURN" /\ Realized(positions'[id]) = Realized(r)
    BY <1>1, <1>2 DEF Realized, CapitalPosition
<1>4. OnlyReturnsSell'
    BY <1>3 DEF LossInv, OnlyReturnsSell
<1>5. LossesAuthorized' /\ SpentIsConsumed'
    BY <1>1, <1>2, <1>3 DEF LossInv, LossesAuthorized, SpentIsConsumed
<1>6. QED BY <1>4, <1>5 DEF LossInv

\* settle_return of a complete order: the loss of the cycle is that of all its
\* fills, and its authorization is spent on it alone.
LEMMA CompleteReturnKeepsLosses ==
    ASSUME IInv, LossInv, NEW id \in DOMAIN positions, NEW cycle \in CycleId, NEW auth, NEW now \in Time,
           NEW sold \in 1..positions[id].quantity, NEW proceeds \in Nat,
           SettleCompleteReturn(id, cycle, sold, proceeds, auth, now)
    PROVE  LossInv'
<1> DEFINE r == Returned(positions[id], sold, proceeds)
           k == ClosedCycle(id, positions[id], r, auth)
<1>1. /\ HasState(id, {"RETURN"}) /\ cycle \notin DOMAIN cycles
      /\ Realized(r) < 0 =>
            /\ auth \in DOMAIN authorizations \ consumed
            /\ authorizations[auth].capital = id /\ authorizations[auth].pair = r.pair
            /\ -Realized(r) <= authorizations[auth].loss
            /\ r.returnedQuantity = authorizations[auth].quantity
      /\ positions' = Without(positions, {id})
      /\ cycles' = With(cycles, cycle, k)
      /\ consumed' = IF Realized(r) < 0 THEN consumed \cup {auth} ELSE consumed
      /\ UNCHANGED authorizations
    BY DEF SettleCompleteReturn, SettlementAllowed, Authorized
<1>r. r = Returned(positions[id], sold, proceeds)
    OBVIOUS
<1>k. /\ k.capital = id /\ k.pair = r.pair /\ k.quantity = r.returnedQuantity
      /\ k.authorization = IF Realized(r) < 0 THEN auth ELSE NoAuthorization
      /\ NetPnl(k) = Realized(r)
    BY DEF ClosedCycle, NetPnl, Realized
<1> HIDE DEF r, k
<1>h. HasState(id, {"RETURN"}) /\ (Realized(r) < 0 => auth \in DOMAIN authorizations)
    BY <1>1
<1>2. Realized(r) \in Int
    BY <1>h, <1>r, SettlementMeans
<1>3. /\ DOMAIN positions' = DOMAIN positions \ {id}
      /\ \A i \in DOMAIN positions' : positions'[i] = positions[i]
      /\ DOMAIN cycles' = DOMAIN cycles \cup {cycle}
      /\ cycles'[cycle] = k /\ \A c \in DOMAIN cycles : cycles'[c] = cycles[c]
    BY <1>1 DEF With, Without
<1>4. consumed \subseteq consumed' /\ (Realized(r) < 0 => auth \in consumed')
    BY <1>1
<1>5. OnlyReturnsSell'
    BY <1>3 DEF LossInv, OnlyReturnsSell
<1>6. SpentIsConsumed'
    BY <1>k, <1>3, <1>4 DEF LossInv, SpentIsConsumed
<1>7. \A c \in DOMAIN cycles' : NetPnl(cycles'[c]) < 0 =>
          LET a == authorizations'[cycles'[c].authorization]
          IN  /\ cycles'[c].authorization \in DOMAIN authorizations' \cap consumed'
              /\ a.capital = cycles'[c].capital /\ a.pair = cycles'[c].pair
              /\ a.quantity = cycles'[c].quantity /\ -NetPnl(cycles'[c]) <= a.loss
    BY <1>1, <1>k, <1>2, <1>3, <1>4 DEF LossInv, LossesAuthorized
<1>8. \A c, d \in DOMAIN cycles' :
          cycles'[c].authorization = cycles'[d].authorization /\ c # d
              => cycles'[c].authorization = NoAuthorization
    BY <1>1, <1>k, <1>2, <1>3 DEF LossInv, LossesAuthorized, SpentIsConsumed
<1>9. \A i \in DOMAIN positions' : Realized(positions'[i]) < 0 =>
          \E a \in DOMAIN authorizations' :
              /\ authorizations'[a].capital = i
              /\ -Realized(positions'[i]) <= authorizations'[a].loss
    <2>1. authorizations' = authorizations
        BY <1>1
    <2>2. QED BY <1>3, <2>1 DEF LossInv, LossesAuthorized
<1>10. LossesAuthorized'
    BY <1>7, <1>8, <1>9 DEF LossesAuthorized
<1>11. QED BY <1>5, <1>6, <1>10 DEF LossInv

\* A new authorization changes none that is there.
LEMMA RegisteringKeepsLosses ==
    ASSUME IInv, LossInv, IInv', NEW id \in DOMAIN positions, NEW auth, NEW expires, NEW quantity,
           NEW loss, NEW now, RegisterRiskExit(auth, id, expires, quantity, loss, now)
    PROVE  LossInv'
<1>1. /\ auth \notin DOMAIN authorizations /\ positions' = positions
      /\ UNCHANGED <<cycles, consumed>>
      /\ \E a : authorizations' = With(authorizations, auth, a)
    BY DEF RegisterRiskExit
<1>2. \A a \in DOMAIN authorizations :
          a \in DOMAIN authorizations' /\ authorizations'[a] = authorizations[a]
    BY <1>1 DEF With
<1>3. Unsold(positions, positions')
    BY <1>1 DEF LossInv, OnlyReturnsSell, Unsold
<1>4. QED BY <1>1, <1>2, <1>3, UnsoldKeepsLosses

\* Every step keeps the losses authorized.
LEMMA LossStep == IInv /\ LossInv /\ [Next]_vars => LossInv'
<1> SUFFICES ASSUME IInv, LossInv, [Next]_vars PROVE LossInv'
    OBVIOUS
<1>1. IInv'
    BY NextIInv
<1>2. ASSUME Unsold(positions, positions'), UNCHANGED <<cycles, authorizations, consumed>>
      PROVE  LossInv'
    BY <1>1, <1>2, UnsoldKeepsLosses
<1>3. CASE UNCHANGED vars
    BY <1>2, <1>3 DEF vars, LossInv, OnlyReturnsSell, Unsold
<1>4. ASSUME NEW now \in Time, NEW id \in DOMAIN positions, NEW auth, NEW expires, NEW q, NEW l,
             RegisterRiskExit(auth, id, expires, q, l, now)
      PROVE  LossInv'
    BY <1>1, <1>4, RegisteringKeepsLosses
<1>5. ASSUME NEW now \in Time, NEW id \in DOMAIN positions, NEW cycle \in OfferedCycle,
             NEW sold \in 1..positions[id].quantity, NEW gain \in ReturnGain, NEW auth, sold + gain >= 0,
             \/ SettlePartialReturn(id, cycle, sold, sold + gain, auth, now)
             \/ SettleCompleteReturn(id, cycle, sold, sold + gain, auth, now)
      PROVE  LossInv'
    <2>1. sold + gain \in Nat
        <3>1. sold \in Int /\ gain \in Int
            BY <1>5, LedgerAssumption
        <3>2. QED BY <1>5, <3>1
    <2>2. cycle \in CycleId
        BY DEF OfferedCycle
    <2>3. QED BY <1>5, <2>1, <2>2, PartialReturnKeepsLosses, CompleteReturnKeepsLosses
<1>6. ASSUME NEW now \in Time, SellsNothing(now)
      PROVE  LossInv'
    BY <1>2, <1>6, NothingIsSold DEF LossInv
<1>7. QED BY <1>3, <1>4, <1>5, <1>6 DEF Next, SellsNothing

\* settle_return never closes a cycle at a loss that no authorization covers,
\* and never spends one authorization twice.
THEOREM EveryLossIsAuthorized == Spec => []LossesAuthorized
<1>1. Init => LossInv
    BY DEF Init, LossInv, OnlyReturnsSell, LossesAuthorized, SpentIsConsumed, Empty
<1>2. IInv /\ LossInv /\ [Next]_vars => LossInv'
    BY LossStep
<1>3. LossInv => LossesAuthorized
    BY DEF LossInv
<1>4. QED BY <1>1, <1>2, <1>3, InductiveInvariant, PTL DEF Spec

-----------------------------------------------------------------------------
(***************************************************************************)
(* The results of the pairs in Q: what their closed cycles and the fills   *)
(* of their open returns have earned.  Q is one pair, or all of them.      *)
(***************************************************************************)
RealizedIn(P, Q) ==
    [i \in CapitalId |-> IF i \in DOMAIN P /\ P[i].pair \in Q THEN Realized(P[i]) ELSE 0]
NetIn(C, Q) ==
    [c \in CycleId |-> IF c \in DOMAIN C /\ C[c].pair \in Q THEN NetPnl(C[c]) ELSE 0]
ResultIn(P, C, Q) == Total(CycleId, NetIn(C, Q), MaxCycle) + Total(CapitalId, RealizedIn(P, Q), MaxCapital)

\* The books hold positions and cycle records.
Typed(P, C) ==
    /\ \A i \in DOMAIN P : P[i] \in CapitalPosition /\ i \in CapitalId
    /\ \A c \in DOMAIN C : C[c] \in CycleRecord /\ c \in CycleId

\* Under the invariant of the ledger they do, before a step ...
LEMMA BooksTyped == WellFormed => Typed(positions, cycles)
BY PositionsTyped DEF WellFormed, AccountsOK, Typed

\* ... and after it.
LEMMA BooksTypedNext == WellFormed' => Typed(positions', cycles')
<1> SUFFICES ASSUME WellFormed' PROVE Typed(positions', cycles')
    OBVIOUS
<1>1. /\ sequence' \in Nat /\ sequence' <= MaxCapital /\ MaxCapital \in Nat
      /\ DOMAIN positions' \subseteq 1..sequence'
    BY LedgerAssumption DEF WellFormed, AccountsOK, PositionsOK
<1>2. \A i \in DOMAIN positions' : positions'[i] \in CapitalPosition /\ i \in CapitalId
    BY <1>1 DEF WellFormed, PositionsOK, PositionOK, CapitalId
<1>3. \A c \in DOMAIN cycles' : cycles'[c] \in CycleRecord /\ c \in CycleId
    BY DEF WellFormed, AccountsOK
<1>4. QED BY <1>2, <1>3 DEF Typed

\* One amount changes, of a capital id or of a cycle.
LEMMA CapitalChange ==
    ASSUME NEW f, NEW g, NEW k \in CapitalId,
           \A i \in CapitalId : f[i] \in Int /\ g[i] \in Int,
           \A i \in CapitalId \ {k} : f[i] = g[i]
    PROVE  Total(CapitalId, g, MaxCapital) = Total(CapitalId, f, MaxCapital) + (g[k] - f[k])
<1>1. CapitalId \in SUBSET (1..MaxCapital) /\ MaxCapital \in Nat
    BY LedgerAssumption DEF CapitalId
<1>2. QED BY <1>1, TotalChange

\* The same for an amount of a cycle.
LEMMA CycleChange ==
    ASSUME NEW f, NEW g, NEW k \in CycleId,
           \A i \in CycleId : f[i] \in Int /\ g[i] \in Int,
           \A i \in CycleId \ {k} : f[i] = g[i]
    PROVE  Total(CycleId, g, MaxCycle) = Total(CycleId, f, MaxCycle) + (g[k] - f[k])
<1>1. CycleId \in SUBSET (1..MaxCycle) /\ MaxCycle \in Nat
    BY LedgerAssumption DEF CycleId
<1>2. QED BY <1>1, TotalChange

\* Results are numbers.
LEMMA ResultType ==
    ASSUME NEW P, NEW C, Typed(P, C), NEW Q
    PROVE  /\ \A i \in CapitalId : RealizedIn(P, Q)[i] \in Int
           /\ \A c \in CycleId : NetIn(C, Q)[c] \in Int
           /\ Total(CapitalId, RealizedIn(P, Q), MaxCapital) \in Int
           /\ Total(CycleId, NetIn(C, Q), MaxCycle) \in Int
           /\ ResultIn(P, C, Q) \in Int
<1>1. \A i \in CapitalId : RealizedIn(P, Q)[i] \in Int
    BY DEF Typed, RealizedIn, Realized, CapitalPosition
<1>2. \A c \in CycleId : NetIn(C, Q)[c] \in Int
    BY DEF Typed, NetIn, NetPnl, CycleRecord
<1>3. MaxCapital \in Nat /\ MaxCycle \in Nat
    BY LedgerAssumption
<1>4. QED BY <1>1, <1>2, <1>3, TotalType DEF ResultIn

\* Where nothing is sold no pair's result changes.
LEMMA UnsoldKeepsResults ==
    ASSUME WellFormed, WellFormed', Unsold(positions, positions'), UNCHANGED cycles, NEW Q
    PROVE  ResultIn(positions', cycles', Q) = ResultIn(positions, cycles, Q)
<1>1. \A i \in CapitalId : RealizedIn(positions', Q)[i] = RealizedIn(positions, Q)[i]
    BY DEF RealizedIn, Realized, Unsold, NothingSold
<1>2. RealizedIn(positions', Q) = RealizedIn(positions, Q)
    BY <1>1 DEF RealizedIn
<1>3. QED BY <1>2 DEF ResultIn

\* A return fill changes the result of its pair by what it realizes.
LEMMA PartialReturnResult ==
    ASSUME WellFormed, WellFormed', NEW id \in DOMAIN positions, NEW kept, NEW Q,
           positions' = [positions EXCEPT ![id] = kept], kept.pair = positions[id].pair,
           UNCHANGED cycles
    PROVE  ResultIn(positions', cycles', Q) = ResultIn(positions, cycles, Q)
               + (IF positions[id].pair \in Q THEN Realized(kept) - Realized(positions[id]) ELSE 0)
<1> DEFINE f == RealizedIn(positions, Q)
           g == RealizedIn(positions', Q)
<1>1. id \in CapitalId
    BY PositionsTyped
<1>t. Typed(positions, cycles) /\ Typed(positions', cycles')
    BY BooksTyped, BooksTypedNext
<1>2. \A i \in CapitalId : f[i] \in Int /\ g[i] \in Int
    BY <1>t, ResultType
<1>3. \A i \in CapitalId \ {id} : f[i] = g[i]
    BY DEF RealizedIn
<1>4. /\ f[id] = IF positions[id].pair \in Q THEN Realized(positions[id]) ELSE 0
      /\ g[id] = IF positions[id].pair \in Q THEN Realized(kept) ELSE 0
    BY <1>1 DEF RealizedIn
<1> HIDE DEF f, g
<1>5. Total(CapitalId, g, MaxCapital) = Total(CapitalId, f, MaxCapital) + (g[id] - f[id])
    BY <1>1, <1>2, <1>3, CapitalChange
<1>6. Total(CapitalId, f, MaxCapital) \in Int /\ Total(CycleId, NetIn(cycles, Q), MaxCycle) \in Int
    BY <1>t, ResultType DEF f
<1>7. g[id] - f[id] = IF positions[id].pair \in Q THEN Realized(kept) - Realized(positions[id]) ELSE 0
    BY <1>1, <1>2, <1>4
<1>8. ResultIn(positions', cycles', Q)
          = Total(CycleId, NetIn(cycles, Q), MaxCycle) + Total(CapitalId, g, MaxCapital)
    BY DEF ResultIn, g
<1>9. ResultIn(positions, cycles, Q)
          = Total(CycleId, NetIn(cycles, Q), MaxCycle) + Total(CapitalId, f, MaxCapital)
    BY DEF ResultIn, f
<1>10. QED BY <1>1, <1>2, <1>5, <1>6, <1>7, <1>8, <1>9

\* The fill that closes the cycle does the same: the cycle takes over what its
\* position had earned.
LEMMA CompleteReturnResult ==
    ASSUME WellFormed, WellFormed', NEW id \in DOMAIN positions, NEW Q,
           NEW cycle \in CycleId, cycle \notin DOMAIN cycles, NEW k,
           positions' = Without(positions, {id}), cycles' = With(cycles, cycle, k),
           k.pair = positions[id].pair
    PROVE  ResultIn(positions', cycles', Q) = ResultIn(positions, cycles, Q)
               + (IF positions[id].pair \in Q THEN NetPnl(k) - Realized(positions[id]) ELSE 0)
<1> DEFINE f == RealizedIn(positions, Q)
           g == RealizedIn(positions', Q)
           m == NetIn(cycles, Q)
           n == NetIn(cycles', Q)
<1>1. id \in CapitalId
    BY PositionsTyped
<1>t. Typed(positions, cycles) /\ Typed(positions', cycles')
    BY BooksTyped, BooksTypedNext
<1>2. /\ \A i \in CapitalId : f[i] \in Int /\ g[i] \in Int
      /\ \A c \in CycleId : m[c] \in Int /\ n[c] \in Int
    <2>1. \A i \in CapitalId : f[i] \in Int /\ g[i] \in Int
        BY <1>t, ResultType
    <2>2. \A c \in CycleId : m[c] \in Int /\ n[c] \in Int
        BY <1>t, ResultType
    <2>3. QED BY <2>1, <2>2
<1>3. /\ \A i \in CapitalId \ {id} : f[i] = g[i]
      /\ \A c \in CycleId \ {cycle} : m[c] = n[c]
    BY DEF RealizedIn, NetIn, With, Without
<1>4. /\ f[id] = IF positions[id].pair \in Q THEN Realized(positions[id]) ELSE 0
      /\ g[id] = 0 /\ m[cycle] = 0
      /\ n[cycle] = IF positions[id].pair \in Q THEN NetPnl(k) ELSE 0
    BY <1>1 DEF RealizedIn, NetIn, With, Without
<1> HIDE DEF f, g, m, n
<1>5. /\ Total(CapitalId, g, MaxCapital) = Total(CapitalId, f, MaxCapital) + (g[id] - f[id])
      /\ Total(CycleId, n, MaxCycle) = Total(CycleId, m, MaxCycle) + (n[cycle] - m[cycle])
    <2>1. Total(CapitalId, g, MaxCapital) = Total(CapitalId, f, MaxCapital) + (g[id] - f[id])
        BY <1>1, <1>2, <1>3, CapitalChange
    <2>2. Total(CycleId, n, MaxCycle) = Total(CycleId, m, MaxCycle) + (n[cycle] - m[cycle])
        BY <1>2, <1>3, CycleChange
    <2>3. QED BY <2>1, <2>2
<1>6. Total(CapitalId, f, MaxCapital) \in Int /\ Total(CycleId, m, MaxCycle) \in Int
    BY <1>t, ResultType DEF f, m
<1>7. (n[cycle] - m[cycle]) + (g[id] - f[id])
          = IF positions[id].pair \in Q THEN NetPnl(k) - Realized(positions[id]) ELSE 0
    BY <1>1, <1>2, <1>4
<1>8. /\ ResultIn(positions', cycles', Q) = Total(CycleId, n, MaxCycle) + Total(CapitalId, g, MaxCapital)
      /\ ResultIn(positions, cycles, Q) = Total(CycleId, m, MaxCycle) + Total(CapitalId, f, MaxCapital)
    BY DEF ResultIn, f, g, m, n
<1>9. QED BY <1>1, <1>2, <1>5, <1>6, <1>7, <1>8

\* One of the two settlements.
Settles(id, cycle, sold, proceeds, auth, now) ==
    \/ SettlePartialReturn(id, cycle, sold, proceeds, auth, now)
    \/ SettleCompleteReturn(id, cycle, sold, proceeds, auth, now)

\* What a settlement does to its position: p before, r after the fill.
LEMMA ReturnFill ==
    ASSUME IInv, NEW id \in DOMAIN positions, NEW cycle, NEW auth, NEW now,
           NEW sold \in 1..positions[id].quantity, NEW proceeds \in Nat, NEW p, NEW r,
           p = positions[id], r = Returned(p, sold, proceeds),
           Settles(id, cycle, sold, proceeds, auth, now)
    PROVE  /\ p \in CapitalPosition /\ r \in CapitalPosition /\ r.pair = p.pair
           /\ Realized(r) \in Int /\ Realized(p) \in Int
           /\ Realized(r) - Realized(p) = proceeds - (p.cost + p.attributable) + (r.cost + r.attributable)
           /\ cycle \notin DOMAIN cycles
           /\ free' = free + proceeds
           /\ realizedPnl' = realizedPnl + Realized(r) - Realized(p)
<1>1. /\ cycle \notin DOMAIN cycles /\ free' = free + proceeds
      /\ realizedPnl' = realizedPnl + Realized(r) - Realized(p)
    BY DEF Settles, SettlePartialReturn, SettleCompleteReturn, SettlementAllowed
<1>2. p \in CapitalPosition /\ sold \in 1..p.quantity
    BY PositionsTyped DEF IInv
<1>3. /\ r \in CapitalPosition /\ r.pair = p.pair /\ Realized(r) \in Int /\ Realized(p) \in Int
      /\ Realized(r) - Realized(p) = proceeds - (p.cost + p.attributable) + (r.cost + r.attributable)
    BY <1>2, ReturnedType
<1>4. QED BY <1>1, <1>2, <1>3

\* settle_return changes the result of the position's pair, and no other, by
\* what it adds to the realized profit.
LEMMA SettlementResult ==
    ASSUME IInv, IInv', NEW id \in DOMAIN positions, NEW cycle \in CycleId, NEW auth, NEW now \in Time,
           NEW sold \in 1..positions[id].quantity, NEW proceeds \in Nat, NEW Q,
           Settles(id, cycle, sold, proceeds, auth, now)
    PROVE  ResultIn(positions', cycles', Q) = ResultIn(positions, cycles, Q)
               + (IF positions[id].pair \in Q THEN realizedPnl' - realizedPnl ELSE 0)
<1> DEFINE p == positions[id]
           r == Returned(p, sold, proceeds)
           k == ClosedCycle(id, p, r, auth)
           kept == [r EXCEPT !.marked = r.quantity * assetMarks[r.asset], !.pendingCycle = cycle]
<1>1. \/ positions' = [positions EXCEPT ![id] = kept] /\ UNCHANGED cycles
      \/ positions' = Without(positions, {id}) /\ cycles' = With(cycles, cycle, k)
    BY DEF Settles, SettlePartialReturn, SettleCompleteReturn
<1>2. /\ r \in CapitalPosition /\ r.pair = p.pair
      /\ Realized(r) \in Int /\ Realized(p) \in Int
      /\ realizedPnl' = realizedPnl + Realized(r) - Realized(p) /\ cycle \notin DOMAIN cycles
    BY ReturnFill
<1>k. k.pair = r.pair /\ NetPnl(k) = Realized(r)
    BY DEF ClosedCycle, NetPnl, Realized
<1>9. kept = [r EXCEPT !.marked = r.quantity * assetMarks[r.asset], !.pendingCycle = cycle]
    OBVIOUS
<1> HIDE DEF r, k, kept
<1>3. kept.pair = p.pair /\ Realized(kept) = Realized(r)
    BY <1>2, <1>9 DEF Realized, CapitalPosition
<1>4. realizedPnl \in Int /\ realizedPnl' - realizedPnl = Realized(r) - Realized(p)
    BY <1>2 DEF IInv, WellFormed, AccountsOK
<1>5. WellFormed /\ WellFormed'
    BY DEF IInv
<1>6. CASE positions' = [positions EXCEPT ![id] = kept] /\ UNCHANGED cycles
    <2>1. ResultIn(positions', cycles', Q) = ResultIn(positions, cycles, Q)
              + (IF positions[id].pair \in Q THEN Realized(kept) - Realized(positions[id]) ELSE 0)
        BY <1>3, <1>5, <1>6, PartialReturnResult
    <2>2. QED BY <1>3, <1>4, <2>1
<1>7. CASE positions' = Without(positions, {id}) /\ cycles' = With(cycles, cycle, k)
    <2>1. k.pair = positions[id].pair /\ cycle \notin DOMAIN cycles
        BY <1>2, <1>k
    <2>2. ResultIn(positions', cycles', Q) = ResultIn(positions, cycles, Q)
              + (IF positions[id].pair \in Q THEN NetPnl(k) - Realized(positions[id]) ELSE 0)
        BY <1>5, <1>7, <2>1, CompleteReturnResult
    <2>3. QED BY <1>4, <1>k, <2>2
<1>8. QED BY <1>1, <1>6, <1>7

\* The realized profit is the result of all pairs together.
ProfitInv == OnlyReturnsSell /\ realizedPnl = ResultIn(positions, cycles, Pair)

\* This is what CyclesExplainPnl says.
LEMMA ProfitExplained == WellFormed /\ ProfitInv => CyclesExplainPnl
<1> SUFFICES ASSUME WellFormed, ProfitInv PROVE CyclesExplainPnl
    OBVIOUS
<1>1. /\ \A i \in DOMAIN positions : i \in CapitalId /\ positions[i].pair \in Pair
      /\ \A c \in DOMAIN cycles : c \in CycleId /\ cycles[c].pair \in Pair
    BY BooksTyped DEF Typed, CapitalPosition, CycleRecord
<1>2. Total(DOMAIN cycles, [c \in DOMAIN cycles |-> NetPnl(cycles[c])], MaxCycle)
          = Total(CycleId, NetIn(cycles, Pair), MaxCycle)
    <2>1. DOMAIN cycles \in SUBSET CycleId /\ MaxCycle \in Nat
        BY <1>1, LedgerAssumption
    <2>2. /\ \A c \in DOMAIN cycles : [d \in DOMAIN cycles |-> NetPnl(cycles[d])][c] = NetIn(cycles, Pair)[c]
          /\ \A c \in CycleId \ DOMAIN cycles : NetIn(cycles, Pair)[c] = 0
        BY <1>1 DEF NetIn
    <2>3. QED BY <2>1, <2>2, TotalSame
<1>3. Total(DOMAIN positions, [i \in DOMAIN positions |-> Realized(positions[i])], MaxCapital)
          = Total(CapitalId, RealizedIn(positions, Pair), MaxCapital)
    <2>1. DOMAIN positions \in SUBSET CapitalId /\ MaxCapital \in Nat
        BY <1>1, LedgerAssumption
    <2>2. /\ \A i \in DOMAIN positions :
                 [j \in DOMAIN positions |-> Realized(positions[j])][i] = RealizedIn(positions, Pair)[i]
          /\ \A i \in CapitalId \ DOMAIN positions : RealizedIn(positions, Pair)[i] = 0
        BY <1>1 DEF RealizedIn
    <2>3. QED BY <2>1, <2>2, TotalSame
<1>4. QED BY <1>2, <1>3 DEF ProfitInv, ResultIn, CyclesExplainPnl

\* A step sells something or leaves all that has been sold as it is.
LEMMA SellsOrNot ==
    ASSUME IInv, OnlyReturnsSell, [Next]_vars
    PROVE  \/ Unsold(positions, positions') /\ UNCHANGED <<cycles, realizedPnl>>
           \/ \E now \in Time, id \in DOMAIN positions, cycle \in CycleId, proceeds \in Nat :
                \E auth : \E sold \in 1..positions[id].quantity : Settles(id, cycle, sold, proceeds, auth, now)
<1> DEFINE Kept == Unsold(positions, positions') /\ UNCHANGED <<cycles, realizedPnl>>
           Sold == \E now \in Time, id \in DOMAIN positions, cycle \in CycleId, proceeds \in Nat :
                       \E auth : \E sold \in 1..positions[id].quantity : Settles(id, cycle, sold, proceeds, auth, now)
<1> SUFFICES Kept \/ Sold
    OBVIOUS
<1>1. CASE UNCHANGED <<positions, cycles, realizedPnl>>
    BY <1>1 DEF OnlyReturnsSell, Unsold
<1>2. ASSUME NEW now \in Time, NEW id \in DOMAIN positions, NEW auth, NEW expires, NEW q, NEW l,
             RegisterRiskExit(auth, id, expires, q, l, now)
      PROVE  Kept \/ Sold
    BY <1>1, <1>2 DEF RegisterRiskExit
<1>3. ASSUME NEW now \in Time, NEW id \in DOMAIN positions, NEW cycle \in OfferedCycle,
             NEW sold \in 1..positions[id].quantity, NEW gain \in ReturnGain, NEW auth, sold + gain >= 0,
             Settles(id, cycle, sold, sold + gain, auth, now)
      PROVE  Sold
    <2> DEFINE proceeds == sold + gain
    <2>1. proceeds \in Nat
        <3>1. sold \in Int /\ gain \in Int
            BY <1>3, LedgerAssumption
        <3>2. QED BY <1>3, <3>1
    <2>2. cycle \in CycleId
        BY DEF OfferedCycle
    <2>3. Settles(id, cycle, sold, proceeds, auth, now)
        BY <1>3
    <2> HIDE DEF proceeds
    <2>4. QED BY <2>1, <2>2, <2>3
<1>4. ASSUME NEW now \in Time, SellsNothing(now)
      PROVE  Kept
    BY <1>4, NothingIsSold
<1> HIDE DEF Kept, Sold
<1>5. QED BY <1>1, <1>2, <1>3, <1>4 DEF Next, SellsNothing, Settles, vars

\* Every step keeps the realized profit explained.
LEMMA ProfitStep == IInv /\ LossInv /\ ProfitInv /\ [Next]_vars => ProfitInv'
<1> SUFFICES ASSUME IInv, LossInv, ProfitInv, [Next]_vars PROVE ProfitInv'
    OBVIOUS
<1>1. IInv' /\ OnlyReturnsSell'
    BY NextIInv, LossStep DEF LossInv
<1>2. realizedPnl \in Int /\ realizedPnl' \in Int /\ WellFormed /\ WellFormed'
    BY <1>1 DEF IInv, WellFormed, AccountsOK
<1>3. CASE Unsold(positions, positions') /\ UNCHANGED <<cycles, realizedPnl>>
    BY <1>1, <1>2, <1>3, UnsoldKeepsResults DEF ProfitInv
<1>4. ASSUME NEW now \in Time, NEW id \in DOMAIN positions, NEW cycle \in CycleId, NEW auth,
             NEW proceeds \in Nat, NEW sold \in 1..positions[id].quantity,
             Settles(id, cycle, sold, proceeds, auth, now)
      PROVE  ProfitInv'
    <2>1. ResultIn(positions', cycles', Pair) = ResultIn(positions, cycles, Pair)
              + (IF positions[id].pair \in Pair THEN realizedPnl' - realizedPnl ELSE 0)
        BY <1>1, <1>4, SettlementResult
    <2>2. positions[id].pair \in Pair
        BY <1>2, BooksTyped DEF Typed, CapitalPosition
    <2>3. QED BY <1>1, <1>2, <2>1, <2>2 DEF ProfitInv
<1>5. QED BY <1>3, <1>4, SellsOrNot DEF LossInv

-----------------------------------------------------------------------------
(* The costs charged to the positions and to the closed cycles.            *)

ChargedTo(P) ==
    [i \in CapitalId |-> IF i \in DOMAIN P THEN P[i].attributable + P[i].returnedAttributable ELSE 0]
ChargedBy(C) == [c \in CycleId |-> IF c \in DOMAIN C THEN C[c].attributable ELSE 0]
Charged(P, C) == Total(CapitalId, ChargedTo(P), MaxCapital) + Total(CycleId, ChargedBy(C), MaxCycle)

CostInv == Charged(positions, cycles) <= externalCosts

\* The charged costs are integers, and so are their totals.
LEMMA ChargedType ==
    ASSUME NEW P, NEW C, Typed(P, C)
    PROVE  /\ \A i \in CapitalId : ChargedTo(P)[i] \in Int
           /\ \A c \in CycleId : ChargedBy(C)[c] \in Int
           /\ Total(CapitalId, ChargedTo(P), MaxCapital) \in Int
           /\ Total(CycleId, ChargedBy(C), MaxCycle) \in Int
<1>1. \A i \in CapitalId : ChargedTo(P)[i] \in Int
    BY DEF Typed, ChargedTo, CapitalPosition
<1>2. \A c \in CycleId : ChargedBy(C)[c] \in Int
    BY DEF Typed, ChargedBy, CycleRecord
<1>3. MaxCapital \in Nat /\ MaxCycle \in Nat
    BY LedgerAssumption
<1>4. QED BY <1>1, <1>2, <1>3, TotalType

\* This is what CostsPaidOnce says.
LEMMA CostsExplained == WellFormed /\ CostInv => CostsPaidOnce
<1> SUFFICES ASSUME WellFormed, CostInv PROVE CostsPaidOnce
    OBVIOUS
<1> DEFINE f == [i \in DOMAIN positions |-> positions[i].attributable + positions[i].returnedAttributable]
           g == [c \in DOMAIN cycles |-> cycles[c].attributable]
<1>1. Total(DOMAIN positions, f, MaxCapital) = Total(CapitalId, ChargedTo(positions), MaxCapital)
    <2>1. DOMAIN positions \in SUBSET CapitalId /\ MaxCapital \in Nat
        BY BooksTyped, LedgerAssumption DEF Typed
    <2>2. /\ \A i \in DOMAIN positions : f[i] = ChargedTo(positions)[i]
          /\ \A i \in CapitalId \ DOMAIN positions : ChargedTo(positions)[i] = 0
        BY <2>1 DEF ChargedTo
    <2> HIDE DEF f
    <2>3. QED BY <2>1, <2>2, TotalSame
<1>2. Total(DOMAIN cycles, g, MaxCycle) = Total(CycleId, ChargedBy(cycles), MaxCycle)
    <2>1. DOMAIN cycles \in SUBSET CycleId /\ MaxCycle \in Nat
        BY BooksTyped, LedgerAssumption DEF Typed
    <2>2. /\ \A c \in DOMAIN cycles : g[c] = ChargedBy(cycles)[c]
          /\ \A c \in CycleId \ DOMAIN cycles : ChargedBy(cycles)[c] = 0
        BY <2>1 DEF ChargedBy
    <2> HIDE DEF g
    <2>3. QED BY <2>1, <2>2, TotalSame
<1>3. QED BY <1>1, <1>2 DEF CostInv, Charged, CostsPaidOnce

\* At most one id is charged more or less than before, by at most `more'.
LEMMA OneIdCharged ==
    ASSUME IInv, IInv', CostInv, UNCHANGED cycles, NEW k \in CapitalId, NEW more \in Nat,
           externalCosts' = externalCosts + more,
           \A i \in CapitalId \ {k} : ChargedTo(positions')[i] = ChargedTo(positions)[i],
           ChargedTo(positions')[k] <= ChargedTo(positions)[k] + more
    PROVE  CostInv'
<1> DEFINE f == ChargedTo(positions)
           g == ChargedTo(positions')
           c == Total(CycleId, ChargedBy(cycles), MaxCycle)
<1>1. Typed(positions, cycles) /\ Typed(positions', cycles')
    BY BooksTyped, BooksTypedNext DEF IInv
<1>2. /\ \A i \in CapitalId : f[i] \in Int /\ g[i] \in Int
      /\ Total(CapitalId, f, MaxCapital) \in Int /\ c \in Int
    BY <1>1, ChargedType
<1>3. \A i \in CapitalId \ {k} : f[i] = g[i]
    OBVIOUS
<1>4. g[k] <= f[k] + more
    OBVIOUS
<1>5. externalCosts \in Int /\ externalCosts' = externalCosts + more
    BY DEF IInv, WellFormed, AccountsOK
<1>6. /\ Charged(positions, cycles) = Total(CapitalId, f, MaxCapital) + c
      /\ Charged(positions', cycles') = Total(CapitalId, g, MaxCapital) + c
    BY DEF Charged
<1> HIDE DEF f, g, c
<1>7. Total(CapitalId, g, MaxCapital) = Total(CapitalId, f, MaxCapital) + (g[k] - f[k])
    BY <1>2, <1>3, CapitalChange
<1>8. QED BY <1>2, <1>4, <1>5, <1>6, <1>7 DEF CostInv

\* No id is charged more than before.
LEMMA NobodyCharged ==
    ASSUME CostInv, UNCHANGED <<cycles, externalCosts>>,
           \A i \in CapitalId : ChargedTo(positions')[i] = ChargedTo(positions)[i]
    PROVE  CostInv'
<1>1. ChargedTo(positions') = ChargedTo(positions)
    BY DEF ChargedTo
<1>2. QED BY <1>1 DEF CostInv, Charged

\* The operations on one position that charge nothing.
LEMMA UnchargedSteps ==
    ASSUME IInv, IInv', CostInv, NEW id \in DOMAIN positions, NEW now,
           \/ RequestCancel(id, now) \/ AcknowledgeCancel(id, now)
           \/ ReserveOwnedReturn(id, now) \/ MoveToDust(id, now)
           \/ \E m \in Mark : UpdateMark(id, m, now)
    PROVE  CostInv'
<1>1. id \in CapitalId /\ positions[id] \in CapitalPosition
    BY PositionsTyped DEF IInv
<1>2. UNCHANGED <<cycles, externalCosts>>
    BY DEF RequestCancel, AcknowledgeCancel, ReserveOwnedReturn, MoveToDust, UpdateMark
<1>3. \/ positions' = Without(positions, {id})
      \/ /\ DOMAIN positions' = DOMAIN positions
         /\ \A i \in DOMAIN positions \ {id} : positions'[i] = positions[i]
         /\ positions'[id].attributable = positions[id].attributable
         /\ positions'[id].returnedAttributable = positions[id].returnedAttributable
    BY <1>1 DEF RequestCancel, AcknowledgeCancel, ReserveOwnedReturn, MoveToDust, UpdateMark, CapitalPosition
<1>4. \A i \in CapitalId \ {id} : ChargedTo(positions')[i] = ChargedTo(positions)[i]
    BY <1>3 DEF ChargedTo, Without
<1>5. ChargedTo(positions')[id] <= ChargedTo(positions)[id] + 0
    <2>1. ChargedTo(positions)[id] = positions[id].attributable + positions[id].returnedAttributable
        BY <1>1 DEF ChargedTo
    <2>2. \/ ChargedTo(positions')[id] = 0
          \/ ChargedTo(positions')[id] = positions[id].attributable + positions[id].returnedAttributable
        BY <1>1, <1>3 DEF ChargedTo, Without
    <2>3. positions[id].attributable \in Nat /\ positions[id].returnedAttributable \in Nat
        BY <1>1 DEF CapitalPosition
    <2>4. QED BY <2>1, <2>2, <2>3
<1>6. externalCosts' = externalCosts + 0
    BY <1>2 DEF IInv, WellFormed, AccountsOK
<1>7. QED BY <1>1, <1>2, <1>4, <1>5, <1>6, OneIdCharged

\* A position that is added is charged what it starts with.
LEMMA FreshCharges ==
    ASSUME IInv, IInv', CostInv, UNCHANGED cycles, NextId \in CapitalId, NEW P,
           DOMAIN P = DOMAIN positions,
           \A i \in DOMAIN P : /\ P[i].attributable = positions[i].attributable
                               /\ P[i].returnedAttributable = positions[i].returnedAttributable,
           NEW p, p.returnedAttributable = 0, p.attributable \in Nat,
           positions' = With(P, NextId, p),
           externalCosts' = externalCosts + p.attributable
    PROVE  CostInv'
<1>1. NextId \notin DOMAIN positions
    BY NextIdIsFresh DEF IInv
<1>2. \A i \in CapitalId \ {NextId} : ChargedTo(positions')[i] = ChargedTo(positions)[i]
    BY DEF ChargedTo, With
<1>3. ChargedTo(positions')[NextId] <= ChargedTo(positions)[NextId] + p.attributable
    <2>1. ChargedTo(positions')[NextId] = p.attributable + p.returnedAttributable
        BY DEF ChargedTo, With
    <2>2. ChargedTo(positions)[NextId] = 0
        BY <1>1 DEF ChargedTo
    <2>3. QED BY <2>1, <2>2
<1>4. QED BY <1>2, <1>3, OneIdCharged

\* record_entry_fill pays the cost it charges to the inventory.
LEMMA EntryCharges ==
    ASSUME IInv, IInv', CostInv, NEW id \in DOMAIN positions, NEW input, NEW quantity, NEW m,
           NEW c \in Cost, NEW now, RecordEntryFill(id, input, quantity, m, c, now)
    PROVE  CostInv'
<1>1. id \in CapitalId /\ positions[id] \in CapitalPosition
    BY PositionsTyped DEF IInv
<1>2. UNCHANGED cycles /\ externalCosts' = externalCosts + c /\ c \in Nat
    BY LedgerAssumption DEF RecordEntryFill
<1>3. CASE positions' = FullEntryPositions(id, quantity, m, c)
    <2>1. \A i \in CapitalId \ {id} : ChargedTo(positions')[i] = ChargedTo(positions)[i]
        BY <1>3 DEF ChargedTo, FullEntryPositions
    <2>2. /\ positions'[id].attributable = positions[id].attributable + c
          /\ positions'[id].returnedAttributable = positions[id].returnedAttributable
          /\ id \in DOMAIN positions'
        BY <1>1, <1>3 DEF FullEntryPositions, CapitalPosition
    <2>3. ChargedTo(positions')[id] <= ChargedTo(positions)[id] + c
        <3>1. positions[id].attributable \in Nat /\ positions[id].returnedAttributable \in Nat
            BY <1>1 DEF CapitalPosition
        <3>2. QED BY <1>1, <1>2, <2>2, <3>1 DEF ChargedTo
    <2>4. QED BY <1>1, <1>2, <2>1, <2>3, OneIdCharged
<1>4. CASE NextId \in CapitalId /\ positions' = PartialEntryPositions(id, input, quantity, m, c)
    <2> DEFINE left == positions[id].cost - input
               P == [positions EXCEPT ![id].cost = left, ![id].marked = left, ![id].quantity = left]
               p == FreshPosition(positions[id].pair, "INVENTORY", TradedAsset[positions[id].pair], input,
                                  quantity * m, quantity, c)
    <2>1. /\ DOMAIN P = DOMAIN positions
          /\ \A i \in DOMAIN P : /\ P[i].attributable = positions[i].attributable
                                 /\ P[i].returnedAttributable = positions[i].returnedAttributable
        BY <1>1 DEF CapitalPosition
    <2>2. positions' = With(P, NextId, p)
        BY <1>4 DEF PartialEntryPositions, PartialEntryFrom
    <2>3. p.returnedAttributable = 0 /\ p.attributable = c
        BY DEF FreshPosition
    <2> HIDE DEF P, p
    <2>4. QED BY <1>2, <1>4, <2>1, <2>2, <2>3, FreshCharges
<1>5. QED BY <1>3, <1>4 DEF RecordEntryFill

\* A return fill moves a share of the charge from the rest to what is sold.
LEMMA ReturnedCharge ==
    ASSUME NEW p \in CapitalPosition, NEW sold \in 1..p.quantity, NEW proceeds \in Nat, NEW r,
           r = Returned(p, sold, proceeds)
    PROVE  /\ r.attributable \in Nat /\ r.returnedAttributable \in Nat
           /\ r.attributable + r.returnedAttributable = p.attributable + p.returnedAttributable
           /\ r.cost + r.attributable <= p.cost + p.attributable
<1> DEFINE c == ProRata(p.cost, sold, p.quantity)
           a == ProRata(p.attributable, sold, p.quantity)
<1>1. /\ p.quantity \in Nat /\ p.cost \in Nat
      /\ p.attributable \in Nat /\ p.returnedAttributable \in Nat
      /\ sold \in Nat /\ sold <= p.quantity /\ p.quantity > 0
    BY DEF CapitalPosition
<1>2. c \in 0..p.cost /\ a \in 0..p.attributable
    BY <1>1, ProRataBounds
<1>3. r = [p EXCEPT !.quantity = @ - sold, !.cost = @ - c, !.attributable = @ - a,
                    !.returnedProceeds = @ + proceeds, !.returnedQuantity = @ + sold,
                    !.returnedCost = @ + c, !.returnedAttributable = @ + a]
    BY DEF Returned
<1> HIDE DEF a, c
<1>4. /\ r.attributable = p.attributable - a /\ r.returnedAttributable = p.returnedAttributable + a
      /\ r.cost = p.cost - c
    BY <1>3 DEF CapitalPosition
<1>5. QED BY <1>1, <1>2, <1>4

\* settle_return: the charge stays with the position, or the cycle takes over
\* the part that was sold and the dust absorbs the rest.
LEMMA SettlementCharges ==
    ASSUME IInv, IInv', CostInv, NEW id \in DOMAIN positions, NEW cycle \in CycleId, NEW auth, NEW now,
           NEW sold \in 1..positions[id].quantity, NEW proceeds \in Nat,
           Settles(id, cycle, sold, proceeds, auth, now)
    PROVE  CostInv'
<1> DEFINE p == positions[id]
           r == Returned(p, sold, proceeds)
           k == ClosedCycle(id, p, r, auth)
           kept == [r EXCEPT !.marked = r.quantity * assetMarks[r.asset], !.pendingCycle = cycle]
<1>1. \/ positions' = [positions EXCEPT ![id] = kept] /\ UNCHANGED cycles
      \/ positions' = Without(positions, {id}) /\ cycles' = With(cycles, cycle, k)
    BY DEF Settles, SettlePartialReturn, SettleCompleteReturn
<1>2. cycle \notin DOMAIN cycles /\ r \in CapitalPosition
    <2>1. cycle \notin DOMAIN cycles
        BY DEF Settles, SettlePartialReturn, SettleCompleteReturn, SettlementAllowed
    <2>2. p \in CapitalPosition
        BY PositionsTyped DEF IInv
    <2>3. QED BY <2>1, <2>2, ReturnedType
<1>3. externalCosts' = externalCosts /\ externalCosts \in Int
    <2>1. externalCosts' = externalCosts
        BY DEF Settles, SettlePartialReturn, SettleCompleteReturn
    <2>2. QED BY <2>1 DEF IInv, WellFormed, AccountsOK
<1>4. id \in CapitalId /\ p \in CapitalPosition
    BY PositionsTyped DEF IInv
<1>5. /\ r.attributable \in Nat /\ r.returnedAttributable \in Nat
      /\ r.attributable + r.returnedAttributable = p.attributable + p.returnedAttributable
    BY <1>4, ReturnedCharge
<1>6. ChargedTo(positions)[id] = p.attributable + p.returnedAttributable
    BY <1>4 DEF ChargedTo
<1>k. k.attributable = r.returnedAttributable
    BY DEF ClosedCycle
<1>9. kept = [r EXCEPT !.marked = r.quantity * assetMarks[r.asset], !.pendingCycle = cycle]
    OBVIOUS
<1> HIDE DEF r, k, kept
<1>7. CASE positions' = [positions EXCEPT ![id] = kept] /\ UNCHANGED cycles
    <2>1. kept.attributable = r.attributable /\ kept.returnedAttributable = r.returnedAttributable
        BY <1>2, <1>9 DEF CapitalPosition
    <2>2. \A i \in CapitalId \ {id} : ChargedTo(positions')[i] = ChargedTo(positions)[i]
        BY <1>7 DEF ChargedTo
    <2>3. ChargedTo(positions')[id] = kept.attributable + kept.returnedAttributable
        BY <1>4, <1>7 DEF ChargedTo
    <2>4. /\ ChargedTo(positions')[id] <= ChargedTo(positions)[id] + 0
          /\ externalCosts' = externalCosts + 0
        BY <1>3, <1>5, <1>6, <2>1, <2>3
    <2>5. QED BY <1>4, <1>7, <2>2, <2>4, OneIdCharged
<1>8. CASE positions' = Without(positions, {id}) /\ cycles' = With(cycles, cycle, k)
    <2> DEFINE f == ChargedTo(positions)
               g == ChargedTo(positions')
               m == ChargedBy(cycles)
               n == ChargedBy(cycles')
    <2>1. Typed(positions, cycles) /\ Typed(positions', cycles')
        BY BooksTyped, BooksTypedNext DEF IInv
    <2>2. /\ \A i \in CapitalId : f[i] \in Int /\ g[i] \in Int
          /\ Total(CapitalId, f, MaxCapital) \in Int
        BY <2>1, ChargedType
    <2>3. /\ \A c \in CycleId : m[c] \in Int /\ n[c] \in Int
          /\ Total(CycleId, m, MaxCycle) \in Int
        BY <2>1, ChargedType
    <2>4. \A i \in CapitalId \ {id} : f[i] = g[i]
        BY <1>8 DEF ChargedTo, Without
    <2>5. \A c \in CycleId \ {cycle} : m[c] = n[c]
        BY <1>8 DEF ChargedBy, With
    <2>6. /\ f[id] = r.attributable + r.returnedAttributable /\ g[id] = 0
          /\ m[cycle] = 0 /\ n[cycle] = r.returnedAttributable
        BY <1>2, <1>4, <1>5, <1>6, <1>8, <1>k DEF ChargedTo, ChargedBy, With, Without
    <2>7. /\ Charged(positions, cycles) = Total(CapitalId, f, MaxCapital) + Total(CycleId, m, MaxCycle)
          /\ Charged(positions', cycles') = Total(CapitalId, g, MaxCapital) + Total(CycleId, n, MaxCycle)
        BY DEF Charged
    <2> HIDE DEF f, g, m, n
    <2>8. Total(CapitalId, g, MaxCapital) = Total(CapitalId, f, MaxCapital) + (g[id] - f[id])
        BY <1>4, <2>2, <2>4, CapitalChange
    <2>9. Total(CycleId, n, MaxCycle) = Total(CycleId, m, MaxCycle) + (n[cycle] - m[cycle])
        BY <2>3, <2>5, CycleChange
    <2>10. QED BY <1>3, <1>5, <2>2, <2>3, <2>6, <2>7, <2>8, <2>9 DEF CostInv
<1>10. QED BY <1>1, <1>7, <1>8

\* consolidate_inventory: the new lot is charged what the old ones were.
LEMMA ConsolidationCharges ==
    ASSUME IInv, IInv', OnlyReturnsSell, CostInv, NEW ids \in SUBSET DOMAIN positions, NEW pair, NEW asset,
           NEW now, ConsolidateInventory(ids, pair, asset, now)
    PROVE  CostInv'
<1> DEFINE f == ChargedTo(positions)
           g == ChargedTo(positions')
           h == AttributableOf(positions)
           e == [i \in CapitalId |-> IF i \in ids THEN positions[i].attributable ELSE 0]
           c == Total(CycleId, ChargedBy(cycles), MaxCycle)
<1>1. /\ NextId \in CapitalId /\ UNCHANGED <<cycles, externalCosts>>
      /\ \A i \in ids : positions[i].state # "RETURN"
    BY DEF ConsolidateInventory, HasState
<1>2. \E p : /\ positions' = With(Without(positions, ids), NextId, p)
             /\ p.attributable = Total(ids, h, MaxCapital) /\ p.returnedAttributable = 0
    BY DEF ConsolidateInventory, FreshPosition
<1>3. NextId \notin DOMAIN positions
    BY <1>1, NextIdIsFresh DEF IInv
<1>4. Typed(positions, cycles) /\ Typed(positions', cycles')
    BY BooksTyped, BooksTypedNext DEF IInv
<1>5. \A i \in ids : /\ i \in CapitalId /\ positions[i].attributable \in Nat
                     /\ positions[i].returnedAttributable = 0 /\ h[i] = positions[i].attributable
    BY <1>1, <1>4 DEF Typed, CapitalPosition, OnlyReturnsSell, NothingSold, AttributableOf
<1>6. Total(ids, h, MaxCapital) = Total(CapitalId, e, MaxCapital)
    <2>1. ids \in SUBSET CapitalId /\ MaxCapital \in Nat
        BY <1>5, LedgerAssumption
    <2>2. (\A i \in ids : h[i] = e[i]) /\ \A i \in CapitalId \ ids : e[i] = 0
        BY <1>5
    <2> HIDE DEF e, h
    <2>3. QED BY <2>1, <2>2, TotalSame
<1>7. \A i \in CapitalId : f[i] \in Int /\ g[i] \in Int /\ e[i] \in Int
    <2>1. \A i \in CapitalId : f[i] \in Int /\ g[i] \in Int
        BY <1>4, ChargedType
    <2>2. QED BY <1>5, <2>1
<1>8. \A i \in CapitalId \ {NextId} : g[i] = f[i] - e[i]
    <2> SUFFICES ASSUME NEW i \in CapitalId \ {NextId} PROVE g[i] = f[i] - e[i]
        OBVIOUS
    <2>1. CASE i \in ids
        <3>1. i \notin DOMAIN positions' /\ i \in DOMAIN positions
            BY <1>2, <2>1 DEF With, Without
        <3>2. g[i] = 0 /\ f[i] = positions[i].attributable + positions[i].returnedAttributable
            BY <3>1 DEF ChargedTo
        <3>3. QED BY <1>5, <2>1, <3>2
    <2>2. CASE i \notin ids
        <3>1. g[i] = f[i]
            BY <1>2, <2>2 DEF ChargedTo, With, Without
        <3>2. QED BY <1>7, <2>2, <3>1
    <2>3. QED BY <2>1, <2>2
<1>9. f[NextId] = 0 /\ e[NextId] = 0
    BY <1>1, <1>3 DEF ChargedTo
<1>10. g[NextId] = Total(CapitalId, e, MaxCapital)
    <2>1. g[NextId] = Total(ids, h, MaxCapital) + 0
        BY <1>1, <1>2 DEF ChargedTo, With
    <2>2. Total(CapitalId, e, MaxCapital) \in Int
        BY <1>7, LedgerAssumption, TotalType
    <2> HIDE DEF e, h
    <2>3. QED BY <1>6, <2>1, <2>2
<1>11. /\ Charged(positions, cycles) = Total(CapitalId, f, MaxCapital) + c
       /\ Charged(positions', cycles') = Total(CapitalId, g, MaxCapital) + c
    BY <1>1 DEF Charged
<1> HIDE DEF f, g, e, c
<1>12. CapitalId \in SUBSET (1..MaxCapital) /\ MaxCapital \in Nat
    BY LedgerAssumption DEF CapitalId
<1>13. Total(CapitalId, g, MaxCapital) = Total(CapitalId, f, MaxCapital)
    BY <1>1, <1>7, <1>8, <1>9, <1>10, <1>12, TotalTransfer
<1>14. QED BY <1>1, <1>11, <1>13 DEF CostInv

\* Every step keeps the costs covered by what was paid.
LEMMA CostStep == IInv /\ OnlyReturnsSell /\ CostInv /\ [Next]_vars => CostInv'
<1> SUFFICES ASSUME IInv, OnlyReturnsSell, CostInv, [Next]_vars PROVE CostInv'
    OBVIOUS
<1>1. IInv'
    BY NextIInv
<1>2. CASE UNCHANGED <<positions, cycles, externalCosts>>
    BY <1>2 DEF CostInv, Charged
<1>3. ASSUME NEW now \in Time, NEW pair \in Pair, NEW amount \in Grant, Reserve(pair, amount, now)
      PROVE  CostInv'
    <2> DEFINE p == FreshPosition(pair, "RESERVED", USDT, amount, amount, amount, 0)
    <2>1. /\ NextId \in CapitalId /\ UNCHANGED cycles /\ externalCosts' = externalCosts
          /\ positions' = With(positions, NextId, p) /\ externalCosts \in Int
        BY <1>3 DEF Reserve, IInv, WellFormed, AccountsOK
    <2>2. p.returnedAttributable = 0 /\ p.attributable = 0
        BY DEF FreshPosition
    <2> HIDE DEF p
    <2>3. p.attributable \in Nat /\ externalCosts' = externalCosts + p.attributable
        BY <2>1, <2>2
    <2>4. QED BY <1>1, <2>1, <2>2, <2>3, FreshCharges
<1>4. ASSUME NEW now \in Time, NEW id \in DOMAIN positions,
             \/ RequestCancel(id, now) \/ AcknowledgeCancel(id, now)
             \/ ReserveOwnedReturn(id, now) \/ MoveToDust(id, now)
             \/ \E m \in Mark : UpdateMark(id, m, now)
      PROVE  CostInv'
    BY <1>1, <1>4, UnchargedSteps
<1>5. ASSUME NEW now \in Time, NEW id \in DOMAIN positions, NEW input, NEW gain, NEW m, NEW c \in Cost,
             RecordEntryFill(id, input, input + gain, m, c, now)
      PROVE  CostInv'
    BY <1>1, <1>5, EntryCharges
<1>6. ASSUME NEW now \in Time, NEW id \in DOMAIN positions, NEW auth, NEW expires, NEW q, NEW l,
             RegisterRiskExit(auth, id, expires, q, l, now)
      PROVE  CostInv'
    BY <1>2, <1>6 DEF RegisterRiskExit
<1>7. ASSUME NEW now \in Time, NEW id \in DOMAIN positions, NEW cycle \in OfferedCycle,
             NEW sold \in 1..positions[id].quantity, NEW gain \in ReturnGain, NEW auth, sold + gain >= 0,
             Settles(id, cycle, sold, sold + gain, auth, now)
      PROVE  CostInv'
    <2> DEFINE proceeds == sold + gain
    <2>1. proceeds \in Nat
        <3>1. sold \in Int /\ gain \in Int
            BY <1>7, LedgerAssumption
        <3>2. QED BY <1>7, <3>1
    <2>2. cycle \in CycleId
        BY DEF OfferedCycle
    <2>3. Settles(id, cycle, sold, proceeds, auth, now)
        BY <1>7
    <2> HIDE DEF proceeds
    <2>4. QED BY <1>1, <2>1, <2>2, <2>3, SettlementCharges
<1>8. ASSUME NEW now \in Time, NEW ids \in SUBSET DOMAIN positions, NEW pair, NEW asset,
             ConsolidateInventory(ids, pair, asset, now)
      PROVE  CostInv'
    BY <1>1, <1>8, ConsolidationCharges
<1>9. ASSUME NEW now \in Time, NEW pair \in Pair, NEW asset, NEW q, NEW m,
             ReserveAggregatedDust(pair, asset, q, m, now)
      PROVE  CostInv'
    <2>1. \E p : /\ positions' = With(positions, NextId, p)
                 /\ p.returnedAttributable = 0 /\ p.attributable = 0
        <3>1. \E c, k, n : positions' = With(positions, NextId, FreshPosition(pair, "RETURN", asset, c, k, n, 0))
            BY <1>9 DEF ReserveAggregatedDust
        <3>2. PICK c, k, n : positions' = With(positions, NextId, FreshPosition(pair, "RETURN", asset, c, k, n, 0))
            BY <3>1
        <3>3. /\ FreshPosition(pair, "RETURN", asset, c, k, n, 0).returnedAttributable = 0
              /\ FreshPosition(pair, "RETURN", asset, c, k, n, 0).attributable = 0
            BY DEF FreshPosition
        <3>4. QED BY <3>2, <3>3
    <2>2. NextId \in CapitalId /\ UNCHANGED cycles /\ externalCosts' = externalCosts /\ externalCosts \in Int
        BY <1>9 DEF ReserveAggregatedDust, IInv, WellFormed, AccountsOK
    <2>3. PICK p : /\ positions' = With(positions, NextId, p)
                   /\ p.returnedAttributable = 0 /\ p.attributable = 0
        BY <2>1
    <2>4. p.attributable \in Nat /\ externalCosts' = externalCosts + p.attributable
        BY <2>2, <2>3
    <2>5. QED BY <1>1, <2>2, <2>3, <2>4, FreshCharges
<1>10. ASSUME NEW now \in Time, NEW asset, NEW m, UpdateAssetMark(asset, m, now)
       PROVE  CostInv'
    <2>1. \A i \in DOMAIN positions : positions[i] \in CapitalPosition
        BY PositionsTyped DEF IInv
    <2>2. \A i \in CapitalId : ChargedTo(positions')[i] = ChargedTo(positions)[i]
        BY <1>10, <2>1 DEF UpdateAssetMark, ChargedTo, CapitalPosition
    <2>3. UNCHANGED <<cycles, externalCosts>>
        BY <1>10 DEF UpdateAssetMark
    <2>4. QED BY <2>2, <2>3, NobodyCharged
<1>11. CASE UNCHANGED vars
    BY <1>2, <1>11 DEF vars
<1>12. QED BY <1>3, <1>4, <1>5, <1>6, <1>7, <1>8, <1>9, <1>10, <1>11 DEF Next, Settles

\* The cycle ledger and the open returns account for all of the realized
\* profit (settle_return), the costs charged were all paid, none twice
\* (record_entry_fill, settle_return, consolidate_inventory), and every
\* holding has a mark.
THEOREM BooksExplained == Spec => []BooksAreExplained
<1> DEFINE Inv == IInv /\ LossInv /\ ProfitInv /\ CostInv
<1>1. Init => Inv
    <2> SUFFICES ASSUME Init PROVE Inv
        OBVIOUS
    <2>1. IInv
        BY InitIInv
    <2>2. DOMAIN positions = {} /\ DOMAIN cycles = {} /\ realizedPnl = 0 /\ externalCosts = 0
        BY DEF Init, Empty
    <2>3. LossInv
        BY <2>2 DEF LossInv, OnlyReturnsSell, LossesAuthorized, SpentIsConsumed
    <2>4. MaxCapital \in Nat /\ MaxCycle \in Nat
        BY LedgerAssumption
    <2>5. ASSUME NEW n \in Nat, NEW S, NEW f, \A i \in S : f[i] = 0
          PROVE  Total(S, f, n) = 0
        <3>1. Total({}, f, n) = Total(S, f, n)
            BY <2>5, TotalSame
        <3>2. QED BY <3>1, TotalEmpty
    <2>6. ResultIn(positions, cycles, Pair) = 0 /\ Charged(positions, cycles) = 0
        <3>1. /\ Total(CapitalId, RealizedIn(positions, Pair), MaxCapital) = 0
              /\ Total(CycleId, NetIn(cycles, Pair), MaxCycle) = 0
            BY <2>2, <2>4, <2>5 DEF RealizedIn, NetIn
        <3>2. /\ Total(CapitalId, ChargedTo(positions), MaxCapital) = 0
              /\ Total(CycleId, ChargedBy(cycles), MaxCycle) = 0
            BY <2>2, <2>4, <2>5 DEF ChargedTo, ChargedBy
        <3>3. QED BY <3>1, <3>2 DEF ResultIn, Charged
    <2>7. QED BY <2>1, <2>2, <2>3, <2>6 DEF ProfitInv, CostInv, LossInv
<1>2. Inv /\ [Next]_vars => Inv'
    BY NextIInv, LossStep, ProfitStep, CostStep DEF LossInv
<1>3. Inv => BooksAreExplained
    BY ProfitExplained, CostsExplained, WellFormedMeans DEF IInv, BooksAreExplained
<1>4. QED BY <1>1, <1>2, <1>3, PTL DEF Spec

-----------------------------------------------------------------------------
(* Every step is for one pair: what the other pairs have stays as it is.   *)

LeavesPositions(P, Q, pair) ==
    \A i : (i \in DOMAIN P /\ P[i].pair # pair) \/ (i \in DOMAIN Q /\ Q[i].pair # pair) =>
        /\ i \in DOMAIN P /\ i \in DOMAIN Q
        /\ Q[i].pair = P[i].pair /\ Q[i].cost = P[i].cost /\ Q[i].attributable = P[i].attributable

LeavesDust(D, E, pair) ==
    \A i : (i \in DOMAIN D /\ D[i].pair # pair) \/ (i \in DOMAIN E /\ E[i].pair # pair) =>
        i \in DOMAIN D /\ i \in DOMAIN E /\ E[i].pair = D[i].pair /\ E[i].cost = D[i].cost

LeavesOthers(pair) == LeavesPositions(positions, positions', pair) /\ LeavesDust(dust, dust', pair)

\* A position or a lot of the pair comes.
LEMMA LeavesWith ==
    ASSUME NEW pair, NEW P, NEW Q, NEW k, NEW p, p.pair = pair,
           k \in DOMAIN Q => Q[k].pair = pair
    PROVE  /\ LeavesPositions(P, Q, pair) => LeavesPositions(P, With(Q, k, p), pair)
           /\ LeavesDust(P, Q, pair) => LeavesDust(P, With(Q, k, p), pair)
<1>1. /\ DOMAIN With(Q, k, p) = DOMAIN Q \cup {k} /\ With(Q, k, p)[k] = p
      /\ \A i \in DOMAIN Q \ {k} : With(Q, k, p)[i] = Q[i]
    BY DEF With
<1> DEFINE R == With(Q, k, p)
<1> HIDE DEF R
<1>2. /\ DOMAIN R = DOMAIN Q \cup {k} /\ R[k] = p
      /\ \A i \in DOMAIN Q \ {k} : R[i] = Q[i]
    BY <1>1 DEF R
<1>3. LeavesPositions(P, Q, pair) => LeavesPositions(P, R, pair)
    BY <1>2 DEF LeavesPositions
<1>4. LeavesDust(P, Q, pair) => LeavesDust(P, R, pair)
    BY <1>2 DEF LeavesDust
<1>5. QED BY <1>3, <1>4 DEF R

\* Positions of the pair go.
LEMMA LeavesWithout ==
    ASSUME NEW pair, NEW P, NEW S, \A i \in S \cap DOMAIN P : P[i].pair = pair
    PROVE  LeavesPositions(P, Without(P, S), pair)
BY DEF LeavesPositions, Without

\* Nothing at all is changed.
LEMMA LeavesItself ==
    ASSUME NEW pair, NEW P
    PROVE  LeavesPositions(P, P, pair) /\ LeavesDust(P, P, pair)
BY DEF LeavesPositions, LeavesDust

\* A position of the pair is replaced by one of the pair.
LEMMA LeavesExcept ==
    ASSUME NEW pair, NEW P, NEW Q, NEW k \in DOMAIN P, P[k].pair = pair, DOMAIN Q = DOMAIN P,
           Q[k].pair = pair, \A i \in DOMAIN P \ {k} : Q[i] = P[i]
    PROVE  LeavesPositions(P, Q, pair)
BY DEF LeavesPositions

\* The operations that name one position.
LEMMA OnePositionLeaves ==
    ASSUME IInv, NEW id \in DOMAIN positions, NEW now,
           \/ RequestCancel(id, now) \/ AcknowledgeCancel(id, now)
           \/ ReserveOwnedReturn(id, now) \/ MoveToDust(id, now)
           \/ \E m \in Mark : UpdateMark(id, m, now)
    PROVE  LeavesOthers(positions[id].pair)
<1>1. positions[id] \in CapitalPosition
    BY PositionsTyped DEF IInv
<1>2. CASE AcknowledgeCancel(id, now)
    BY <1>2, LeavesWithout, LeavesItself DEF AcknowledgeCancel, LeavesOthers
<1>3. CASE MoveToDust(id, now)
    <2>1. LeavesPositions(positions, positions', positions[id].pair)
        BY <1>3, LeavesWithout DEF MoveToDust
    <2>2. \E lot : lot.pair = positions[id].pair /\ dust' = With(dust, id, lot)
        BY <1>3 DEF MoveToDust, ResidualLot
    <2>3. id \notin DOMAIN dust
        BY PositionAt DEF IInv
    <2>4. QED BY <2>1, <2>2, <2>3, LeavesWith, LeavesItself DEF LeavesOthers
<1>4. CASE RequestCancel(id, now) \/ ReserveOwnedReturn(id, now) \/ \E m \in Mark : UpdateMark(id, m, now)
    <2>1. /\ DOMAIN positions' = DOMAIN positions /\ UNCHANGED dust
          /\ \A i \in DOMAIN positions \ {id} : positions'[i] = positions[i]
          /\ positions'[id].pair = positions[id].pair
        BY <1>1, <1>4 DEF RequestCancel, ReserveOwnedReturn, UpdateMark, CapitalPosition
    <2>2. QED BY <2>1, LeavesExcept, LeavesItself DEF LeavesOthers
<1>5. QED BY <1>2, <1>3, <1>4

\* record_entry_fill.
LEMMA EntryLeaves ==
    ASSUME IInv, NEW id \in DOMAIN positions, NEW input, NEW quantity, NEW m, NEW c, NEW now,
           RecordEntryFill(id, input, quantity, m, c, now)
    PROVE  LeavesOthers(positions[id].pair)
<1> DEFINE pair == positions[id].pair
<1>1. positions[id] \in CapitalPosition
    BY PositionsTyped DEF IInv
<1>2. UNCHANGED dust
    BY DEF RecordEntryFill
<1>3. CASE positions' = FullEntryPositions(id, quantity, m, c)
    <2>1. /\ DOMAIN positions' = DOMAIN positions
          /\ \A i \in DOMAIN positions \ {id} : positions'[i] = positions[i]
        BY <1>3 DEF FullEntryPositions
    <2>2. positions'[id].pair = pair
        BY <1>1, <1>3 DEF FullEntryPositions, CapitalPosition
    <2>3. QED BY <1>2, <2>1, <2>2, LeavesExcept, LeavesItself DEF LeavesOthers
<1>4. CASE NextId \in CapitalId /\ positions' = PartialEntryPositions(id, input, quantity, m, c)
    <2> DEFINE left == positions[id].cost - input
               P == [positions EXCEPT ![id].cost = left, ![id].marked = left, ![id].quantity = left]
               p == FreshPosition(pair, "INVENTORY", TradedAsset[pair], input, quantity * m, quantity, c)
    <2>1. /\ DOMAIN P = DOMAIN positions /\ P[id].pair = pair
          /\ \A i \in DOMAIN positions \ {id} : P[i] = positions[i]
        BY <1>1 DEF CapitalPosition
    <2>2. positions' = With(P, NextId, p)
        BY <1>4 DEF PartialEntryPositions, PartialEntryFrom
    <2>3. p.pair = pair
        BY DEF FreshPosition
    <2>4. NextId \notin DOMAIN positions
        BY <1>4, NextIdIsFresh DEF IInv
    <2> HIDE DEF P, p
    <2>5. LeavesPositions(positions, P, pair)
        BY <2>1, LeavesExcept
    <2>6. LeavesPositions(positions, With(P, NextId, p), pair)
        BY <2>1, <2>3, <2>4, <2>5, LeavesWith
    <2>7. QED BY <1>2, <2>2, <2>6, LeavesItself DEF LeavesOthers
<1>5. QED BY <1>3, <1>4 DEF RecordEntryFill

\* settle_return: a residue becomes dust of the same pair.
LEMMA SettlementLeaves ==
    ASSUME IInv, NEW id \in DOMAIN positions, NEW cycle, NEW auth, NEW now,
           NEW sold \in 1..positions[id].quantity, NEW proceeds \in Nat,
           Settles(id, cycle, sold, proceeds, auth, now)
    PROVE  LeavesOthers(positions[id].pair)
<1> DEFINE p == positions[id]
           r == Returned(p, sold, proceeds)
           kept == [r EXCEPT !.marked = r.quantity * assetMarks[r.asset], !.pendingCycle = cycle]
<1>1. \/ positions' = [positions EXCEPT ![id] = kept] /\ UNCHANGED dust
      \/ /\ positions' = Without(positions, {id})
         /\ \/ dust' = dust
            \/ \E lot : lot.pair = p.pair /\ dust' = With(dust, id, lot)
    BY DEF Settles, SettlePartialReturn, SettleCompleteReturn, ResidualLot
<1>2. p \in CapitalPosition /\ id \notin DOMAIN dust
    BY PositionsTyped, PositionAt DEF IInv
<1>3. r \in CapitalPosition /\ r.pair = p.pair
    BY <1>2, ReturnedType
<1>9. kept = [r EXCEPT !.marked = r.quantity * assetMarks[r.asset], !.pendingCycle = cycle]
    OBVIOUS
<1> HIDE DEF r, kept
<1>4. kept.pair = p.pair
    BY <1>3, <1>9 DEF CapitalPosition
<1>5. CASE positions' = [positions EXCEPT ![id] = kept] /\ UNCHANGED dust
    <2>1. /\ DOMAIN positions' = DOMAIN positions /\ positions'[id].pair = p.pair
          /\ \A i \in DOMAIN positions \ {id} : positions'[i] = positions[i]
        BY <1>4, <1>5
    <2>2. QED BY <1>5, <2>1, LeavesExcept, LeavesItself DEF LeavesOthers
<1>6. CASE /\ positions' = Without(positions, {id})
           /\ \/ dust' = dust
              \/ \E lot : lot.pair = p.pair /\ dust' = With(dust, id, lot)
    <2>1. LeavesPositions(positions, positions', p.pair)
        BY <1>6, LeavesWithout
    <2>2. LeavesDust(dust, dust', p.pair)
        BY <1>2, <1>6, LeavesWith, LeavesItself
    <2>3. QED BY <2>1, <2>2 DEF LeavesOthers
<1>7. QED BY <1>1, <1>5, <1>6

\* consolidate_inventory: only lots of the pair are merged.
LEMMA ConsolidationLeaves ==
    ASSUME IInv, NEW ids \in SUBSET DOMAIN positions, NEW pair, NEW asset, NEW now,
           ConsolidateInventory(ids, pair, asset, now)
    PROVE  LeavesOthers(pair)
<1>1. /\ NextId \in CapitalId /\ UNCHANGED dust
      /\ \A i \in ids : positions[i].pair = pair
    BY DEF ConsolidateInventory
<1>2. \E p : p.pair = pair /\ positions' = With(Without(positions, ids), NextId, p)
    <2>1. \E c, k, n, a : positions' = With(Without(positions, ids), NextId,
                                           FreshPosition(pair, "INVENTORY", asset, c, k, n, a))
        BY DEF ConsolidateInventory
    <2>2. PICK c, k, n, a : positions' = With(Without(positions, ids), NextId,
                                             FreshPosition(pair, "INVENTORY", asset, c, k, n, a))
        BY <2>1
    <2>3. FreshPosition(pair, "INVENTORY", asset, c, k, n, a).pair = pair
        BY DEF FreshPosition
    <2>4. QED BY <2>2, <2>3
<1>3. NextId \notin DOMAIN Without(positions, ids)
    BY <1>1, NextIdIsFresh DEF IInv, Without
<1>4. LeavesPositions(positions, Without(positions, ids), pair)
    BY <1>1, LeavesWithout
<1>5. LeavesPositions(positions, positions', pair)
    BY <1>2, <1>3, <1>4, LeavesWith
<1>6. QED BY <1>1, <1>5, LeavesItself DEF LeavesOthers

\* reserve_aggregated_dust: only lots of the pair are consumed.
LEMMA AggregationLeaves ==
    ASSUME IInv, NEW pair, NEW asset, NEW quantity, NEW mark, NEW now,
           ReserveAggregatedDust(pair, asset, quantity, mark, now)
    PROVE  LeavesOthers(pair)
<1>1. NextId \in CapitalId /\ dust' = Consumed(Lots(pair, asset), quantity)
    BY DEF ReserveAggregatedDust
<1>2. \E p : p.pair = pair /\ positions' = With(positions, NextId, p)
    <2>1. \E c, k : positions' = With(positions, NextId, FreshPosition(pair, "RETURN", asset, c, k, quantity, 0))
        BY DEF ReserveAggregatedDust
    <2>2. PICK c, k : positions' = With(positions, NextId,
                                        FreshPosition(pair, "RETURN", asset, c, k, quantity, 0))
        BY <2>1
    <2>3. FreshPosition(pair, "RETURN", asset, c, k, quantity, 0).pair = pair
        BY DEF FreshPosition
    <2>4. QED BY <2>2, <2>3
<1>3. NextId \notin DOMAIN positions
    BY <1>1, NextIdIsFresh DEF IInv
<1>4. LeavesPositions(positions, positions', pair)
    BY <1>2, <1>3, LeavesWith, LeavesItself
<1>5. \A i \in DOMAIN dust : dust[i] \in DustLot
    BY DEF IInv, WellFormed, DustOK
<1>6. \A i \in DOMAIN dust' : i \in DOMAIN dust /\ dust'[i].pair = dust[i].pair
    BY <1>1, <1>5 DEF Consumed, DustLot
<1>7. \A i \in DOMAIN dust : dust[i].pair # pair => i \in DOMAIN dust' /\ dust'[i].cost = dust[i].cost
    <2> SUFFICES ASSUME NEW i \in DOMAIN dust, dust[i].pair # pair
                 PROVE  i \in DOMAIN dust' /\ dust'[i].cost = dust[i].cost
        OBVIOUS
    <2>1. i \notin Lots(pair, asset)
        BY DEF Lots
    <2>2. dust[i].quantity \in Nat /\ dust[i].quantity > 0 /\ dust[i].cost \in Nat
        BY <1>5 DEF DustLot
    <2>3. TakenCost(i, Lots(pair, asset), quantity) = 0
        BY <2>1 DEF TakenCost
    <2>4. i \in DOMAIN dust' /\ dust'[i] = [dust[i] EXCEPT !.quantity = @ - 0, !.cost = @ - 0]
        BY <1>1, <2>1, <2>2, <2>3 DEF Consumed
    <2>5. QED BY <1>5, <2>2, <2>4 DEF DustLot
<1>8. LeavesDust(dust, dust', pair)
    BY <1>6, <1>7 DEF LeavesDust
<1>9. QED BY <1>4, <1>8 DEF LeavesOthers

\* The steps of Next that name one position.
OnePosition(id, now) ==
    \/ RequestCancel(id, now)
    \/ AcknowledgeCancel(id, now)
    \/ \E input \in 1..positions[id].cost, gain \in EntryGain, m \in Mark, c \in Cost :
           /\ input + gain > 0
           /\ RecordEntryFill(id, input, input + gain, m, c, now)
    \/ ReserveOwnedReturn(id, now)
    \/ MoveToDust(id, now)
    \/ \E auth \in AuthorizationId, expires \in Time, q \in ExitQuantity, l \in Loss :
           RegisterRiskExit(auth, id, expires, q, l, now)
    \/ \E cycle \in OfferedCycle, sold \in 1..positions[id].quantity, gain \in ReturnGain,
          auth \in AuthorizationId \cup {NoAuthorization} :
           /\ sold + gain >= 0
           /\ Settles(id, cycle, sold, sold + gain, auth, now)
    \/ \E m \in Mark : UpdateMark(id, m, now)

\* Every step is for some pair, and sells for it or sells nothing.
LEMMA EveryStepIsOfOnePair ==
    ASSUME IInv, OnlyReturnsSell, Next
    PROVE  \E pair \in Pair :
               /\ LeavesOthers(pair)
               /\ \/ Unsold(positions, positions') /\ UNCHANGED <<cycles, realizedPnl>>
                  \/ \E now \in Time, id \in DOMAIN positions, cycle \in CycleId, proceeds \in Nat :
                      \E auth : \E sold \in 1..positions[id].quantity :
                          positions[id].pair = pair /\ Settles(id, cycle, sold, proceeds, auth, now)
<1> DEFINE Kept == Unsold(positions, positions') /\ UNCHANGED <<cycles, realizedPnl>>
           Sold(pair) == \E now \in Time, id \in DOMAIN positions, cycle \in CycleId, proceeds \in Nat :
                             \E auth : \E sold \in 1..positions[id].quantity :
                                 positions[id].pair = pair /\ Settles(id, cycle, sold, proceeds, auth, now)
           Goal == \E pair \in Pair : LeavesOthers(pair) /\ (Kept \/ Sold(pair))
<1> SUFFICES Goal
    OBVIOUS
<1>1. ASSUME NEW now \in Time, SellsNothing(now) PROVE Kept
    BY <1>1, NothingIsSold
<1>2. \A i \in DOMAIN positions : positions[i] \in CapitalPosition /\ positions[i].pair \in Pair
    BY PositionsTyped DEF IInv, CapitalPosition
<1> HIDE DEF Kept
<1>3. ASSUME NEW now \in Time, NEW pair \in Pair, NEW amount \in Grant, Reserve(pair, amount, now)
      PROVE  Goal
    <2>1. \E p : p.pair = pair /\ positions' = With(positions, NextId, p)
        BY <1>3 DEF Reserve, FreshPosition
    <2>2. NextId \notin DOMAIN positions /\ UNCHANGED dust
        BY <1>3, NextIdIsFresh DEF IInv, Reserve
    <2>3. LeavesOthers(pair)
        BY <2>1, <2>2, LeavesWith, LeavesItself DEF LeavesOthers
    <2>4. Kept
        BY <1>1, <1>3 DEF SellsNothing
    <2>5. QED BY <2>3, <2>4
<1>4. ASSUME NEW now \in Time, NEW id \in DOMAIN positions,
             \/ RequestCancel(id, now) \/ AcknowledgeCancel(id, now)
             \/ ReserveOwnedReturn(id, now) \/ MoveToDust(id, now)
             \/ \E m \in Mark : UpdateMark(id, m, now)
      PROVE  Goal
    <2>1. LeavesOthers(positions[id].pair)
        BY <1>4, OnePositionLeaves
    <2>2. Kept
        BY <1>1, <1>4 DEF SellsNothing
    <2>3. QED BY <1>2, <2>1, <2>2
<1>5. ASSUME NEW now \in Time, NEW id \in DOMAIN positions, NEW input, NEW gain, NEW m, NEW c,
             RecordEntryFill(id, input, input + gain, m, c, now)
      PROVE  Goal
    <2> DEFINE quantity == input + gain
    <2>1. RecordEntryFill(id, input, quantity, m, c, now)
        BY <1>5
    <2> HIDE DEF quantity
    <2>2. LeavesOthers(positions[id].pair)
        BY <2>1, EntryLeaves
    <2>3. Kept
        BY <1>1, <2>1 DEF SellsNothing
    <2>4. QED BY <1>2, <2>2, <2>3
<1>6. ASSUME NEW now \in Time, NEW id \in DOMAIN positions, NEW auth, NEW expires, NEW q, NEW l,
             RegisterRiskExit(auth, id, expires, q, l, now)
      PROVE  Goal
    <2>1. UNCHANGED <<positions, dust, cycles, realizedPnl>>
        BY <1>6 DEF RegisterRiskExit
    <2>2. Kept
        BY <2>1 DEF Kept, OnlyReturnsSell, Unsold
    <2>3. LeavesOthers(positions[id].pair)
        BY <2>1, LeavesItself DEF LeavesOthers
    <2>4. QED BY <1>2, <2>2, <2>3
<1>7. ASSUME NEW now \in Time, NEW id \in DOMAIN positions, NEW cycle \in OfferedCycle,
             NEW sold \in 1..positions[id].quantity, NEW gain \in ReturnGain, NEW auth, sold + gain >= 0,
             Settles(id, cycle, sold, sold + gain, auth, now)
      PROVE  Goal
    <2> DEFINE proceeds == sold + gain
    <2>1. proceeds \in Nat
        <3>1. sold \in Int /\ gain \in Int
            BY <1>7, LedgerAssumption
        <3>2. QED BY <1>7, <3>1
    <2>2. cycle \in CycleId
        BY DEF OfferedCycle
    <2>3. Settles(id, cycle, sold, proceeds, auth, now)
        BY <1>7
    <2> HIDE DEF proceeds
    <2>4. LeavesOthers(positions[id].pair)
        BY <2>1, <2>3, SettlementLeaves
    <2>5. Sold(positions[id].pair)
        BY <2>1, <2>2, <2>3
    <2> HIDE DEF Sold
    <2>6. QED BY <1>2, <2>4, <2>5
<1> HIDE DEF Sold
<1>8. ASSUME NEW now \in Time, NEW ids \in SUBSET DOMAIN positions, NEW pair \in Pair,
             ConsolidateInventory(ids, pair, TradedAsset[pair], now)
      PROVE  Goal
    <2>1. LeavesOthers(pair)
        BY <1>8, ConsolidationLeaves
    <2>2. Kept
        BY <1>1, <1>8 DEF SellsNothing
    <2>3. QED BY <2>1, <2>2
<1>9. ASSUME NEW now \in Time, NEW pair \in Pair, NEW q, NEW m,
             ReserveAggregatedDust(pair, TradedAsset[pair], q, m, now)
      PROVE  Goal
    <2>1. LeavesOthers(pair)
        BY <1>9, AggregationLeaves
    <2>2. Kept
        BY <1>1, <1>9 DEF SellsNothing
    <2>3. QED BY <2>1, <2>2
<1>10. ASSUME NEW now \in Time, NEW pair \in Pair, NEW m, UpdateAssetMark(TradedAsset[pair], m, now)
       PROVE  Goal
    <2>1. /\ DOMAIN positions' = DOMAIN positions /\ UNCHANGED dust
          /\ \A i \in DOMAIN positions : /\ positions'[i].pair = positions[i].pair
                                         /\ positions'[i].cost = positions[i].cost
                                         /\ positions'[i].attributable = positions[i].attributable
        BY <1>2, <1>10 DEF UpdateAssetMark, CapitalPosition
    <2>2. LeavesOthers(pair)
        BY <2>1, LeavesItself DEF LeavesOthers, LeavesPositions
    <2>3. Kept
        BY <1>1, <1>10 DEF SellsNothing
    <2>4. QED BY <2>2, <2>3
<1> HIDE DEF Goal
<1>11. ASSUME NEW now \in Time, NEW id \in DOMAIN positions, OnePosition(id, now)
       PROVE  Goal
    BY <1>4, <1>5, <1>6, <1>7, <1>11 DEF OnePosition
<1>12. QED BY <1>3, <1>8, <1>9, <1>10, <1>11 DEF Next, OnePosition, Settles

-----------------------------------------------------------------------------
(* The refinement of SharedBank.                                           *)

\* What is committed to pair q, id by id, and what to the others.
OwnedOf(P, D, q) ==
    [i \in CapitalId |->
        (IF i \in DOMAIN P /\ P[i].pair = q THEN P[i].cost + P[i].attributable ELSE 0)
        + (IF i \in DOMAIN D /\ D[i].pair = q THEN D[i].cost ELSE 0)]
OwnedByOthers(P, D, q) ==
    [i \in CapitalId |->
        (IF i \in DOMAIN P /\ P[i].pair # q THEN P[i].cost + P[i].attributable ELSE 0)
        + (IF i \in DOMAIN D /\ D[i].pair # q THEN D[i].cost ELSE 0)]
Committed(P, D, q) == Total(CapitalId, OwnedOf(P, D, q), MaxCapital)

\* The books hold positions and lots.
Valued(P, D) ==
    /\ \A i \in DOMAIN P : i \in CapitalId /\ P[i].cost \in Nat /\ P[i].attributable \in Nat
    /\ \A i \in DOMAIN D : i \in CapitalId /\ D[i].cost \in Nat

\* Under the invariant of the ledger they do, before a step ...
LEMMA HoldingsTyped ==
    ASSUME WellFormed
    PROVE  Valued(positions, dust)
<1>1. \A i \in DOMAIN positions : i \in CapitalId /\ positions[i] \in CapitalPosition
    BY PositionsTyped
<1>2. \A i \in DOMAIN dust : i \in CapitalId /\ dust[i] \in DustLot
    <2>1. sequence \in Nat /\ sequence <= MaxCapital /\ MaxCapital \in Nat /\ DOMAIN dust \subseteq 1..sequence
        BY LedgerAssumption DEF WellFormed, AccountsOK, DustOK
    <2>2. QED BY <2>1 DEF WellFormed, DustOK, CapitalId
<1>3. QED BY <1>1, <1>2 DEF Valued, CapitalPosition, DustLot

\* ... and after it.
LEMMA HoldingsTypedNext ==
    ASSUME WellFormed'
    PROVE  Valued(positions', dust')
<1>1. /\ sequence' \in Nat /\ sequence' <= MaxCapital /\ MaxCapital \in Nat
      /\ DOMAIN positions' \subseteq 1..sequence' /\ DOMAIN dust' \subseteq 1..sequence'
    BY LedgerAssumption DEF WellFormed, AccountsOK, PositionsOK, DustOK
<1>2. \A i \in DOMAIN positions' : i \in CapitalId /\ positions'[i] \in CapitalPosition
    BY <1>1 DEF WellFormed, PositionsOK, PositionOK, CapitalId
<1>3. \A i \in DOMAIN dust' : i \in CapitalId /\ dust'[i] \in DustLot
    BY <1>1 DEF WellFormed, DustOK, CapitalId
<1>4. QED BY <1>2, <1>3 DEF Valued, CapitalPosition, DustLot

\* What a pair owns and what the others own is the whole book.
LEMMA CommittedType ==
    ASSUME NEW P, NEW D, Valued(P, D), NEW q
    PROVE  /\ Committed(P, D, q) \in Nat
           /\ Total(CapitalId, OwnedByOthers(P, D, q), MaxCapital) \in Nat
           /\ Book(P, D) = Committed(P, D, q) + Total(CapitalId, OwnedByOthers(P, D, q), MaxCapital)
<1> DEFINE f == OwnedOf(P, D, q)
           g == OwnedByOthers(P, D, q)
           h == [i \in CapitalId |-> Owned(P, D, i)]
<1>1. \A i \in CapitalId : f[i] \in Nat /\ g[i] \in Nat
    BY DEF Valued, OwnedOf, OwnedByOthers
<1>2. \A i \in CapitalId : h[i] = f[i] + g[i]
    BY DEF Valued, OwnedOf, OwnedByOthers, Owned
<1>3. MaxCapital \in Nat
    BY LedgerAssumption
<1> HIDE DEF f, g, h
<1>4. Total(CapitalId, f, MaxCapital) \in Nat /\ Total(CapitalId, g, MaxCapital) \in Nat
    BY <1>1, <1>3, TotalNat
<1>5. Total(CapitalId, h, MaxCapital) = Total(CapitalId, f, MaxCapital) + Total(CapitalId, g, MaxCapital)
    BY <1>1, <1>2, <1>3, TotalAdd
<1>6. QED BY <1>4, <1>5 DEF Committed, Book, f, g, h

\* OwnedBy adds up the same amounts field by field.
LEMMA OwnedByFields ==
    ASSUME NEW P, NEW D, Valued(P, D), NEW q
    PROVE  Committed(P, D, q) =
               Total({i \in DOMAIN P : P[i].pair = q}, CostOf(P), MaxCapital)
               + Total({i \in DOMAIN P : P[i].pair = q}, AttributableOf(P), MaxCapital)
               + Total({i \in DOMAIN D : D[i].pair = q}, CostOf(D), MaxCapital)
<1> DEFINE S == {i \in DOMAIN P : P[i].pair = q}
           T == {i \in DOMAIN D : D[i].pair = q}
           a == [i \in CapitalId |-> IF i \in S THEN P[i].cost ELSE 0]
           b == [i \in CapitalId |-> IF i \in S THEN P[i].attributable ELSE 0]
           c == [i \in CapitalId |-> IF i \in T THEN D[i].cost ELSE 0]
           ab == [i \in CapitalId |-> a[i] + b[i]]
           f == OwnedOf(P, D, q)
<1>1. MaxCapital \in Nat /\ S \in SUBSET CapitalId /\ T \in SUBSET CapitalId
    BY LedgerAssumption DEF Valued
<1>2. \A i \in CapitalId : a[i] \in Int /\ b[i] \in Int /\ ab[i] = a[i] + b[i]
    BY DEF Valued
<1>3. \A i \in CapitalId : ab[i] \in Int /\ c[i] \in Int /\ f[i] = ab[i] + c[i]
    BY DEF Valued, OwnedOf
<1>4. /\ \A i \in S : CostOf(P)[i] = a[i]
      /\ \A i \in CapitalId \ S : a[i] = 0
    BY <1>1 DEF CostOf
<1>5. /\ \A i \in S : AttributableOf(P)[i] = b[i]
      /\ \A i \in CapitalId \ S : b[i] = 0
    BY <1>1 DEF AttributableOf
<1>6. /\ \A i \in T : CostOf(D)[i] = c[i]
      /\ \A i \in CapitalId \ T : c[i] = 0
    BY <1>1 DEF CostOf
<1> HIDE DEF S, T, a, b, c, ab, f
<1>7. Total(S, CostOf(P), MaxCapital) = Total(CapitalId, a, MaxCapital)
    BY <1>1, <1>4, TotalSame
<1>8. Total(S, AttributableOf(P), MaxCapital) = Total(CapitalId, b, MaxCapital)
    BY <1>1, <1>5, TotalSame
<1>9. Total(T, CostOf(D), MaxCapital) = Total(CapitalId, c, MaxCapital)
    BY <1>1, <1>6, TotalSame
<1>10. Total(CapitalId, ab, MaxCapital) = Total(CapitalId, a, MaxCapital) + Total(CapitalId, b, MaxCapital)
    BY <1>1, <1>2, TotalAdd
<1>11. Total(CapitalId, f, MaxCapital) = Total(CapitalId, ab, MaxCapital) + Total(CapitalId, c, MaxCapital)
    BY <1>1, <1>3, TotalAdd
<1>12. QED BY <1>7, <1>8, <1>9, <1>10, <1>11 DEF Committed, f, S, T

\* The amounts ResultOf adds up ...
ResultFields(P, C, q) ==
    Total({c \in DOMAIN C : C[c].pair = q}, [c \in DOMAIN C |-> NetPnl(C[c])], MaxCycle)
    + Total({i \in DOMAIN P : P[i].pair = q}, [i \in DOMAIN P |-> Realized(P[i])], MaxCapital)

\* ... which are the amounts ResultIn adds up.
LEMMA ResultOfFields ==
    ASSUME NEW P, NEW C, Typed(P, C), NEW q
    PROVE  ResultIn(P, C, {q}) = ResultFields(P, C, q)
<1> DEFINE S == {i \in DOMAIN P : P[i].pair = q}
           K == {c \in DOMAIN C : C[c].pair = q}
           f == [i \in DOMAIN P |-> Realized(P[i])]
           g == [c \in DOMAIN C |-> NetPnl(C[c])]
<1>1. /\ S \in SUBSET CapitalId /\ K \in SUBSET CycleId
      /\ MaxCapital \in Nat /\ MaxCycle \in Nat
    BY LedgerAssumption DEF Typed
<1>2. /\ \A i \in S : f[i] = RealizedIn(P, {q})[i]
      /\ \A i \in CapitalId \ S : RealizedIn(P, {q})[i] = 0
    BY <1>1 DEF RealizedIn
<1>3. /\ \A c \in K : g[c] = NetIn(C, {q})[c]
      /\ \A c \in CycleId \ K : NetIn(C, {q})[c] = 0
    BY <1>1 DEF NetIn
<1> HIDE DEF S, K, f, g
<1>4. Total(S, f, MaxCapital) = Total(CapitalId, RealizedIn(P, {q}), MaxCapital)
    BY <1>1, <1>2, TotalSame
<1>5. Total(K, g, MaxCycle) = Total(CycleId, NetIn(C, {q}), MaxCycle)
    BY <1>1, <1>3, TotalSame
<1>6. QED BY <1>4, <1>5 DEF ResultIn, ResultFields, S, K, f, g

\* The state functions of the mapping, before and after a step.
LEMMA MappedBooks ==
    ASSUME WellFormed, WellFormed', NEW q
    PROVE  /\ OwnedBy(q) = Committed(positions, dust, q)
           /\ OwnedBy(q)' = Committed(positions', dust', q)
           /\ ResultOf(q) = ResultIn(positions, cycles, {q})
           /\ ResultOf(q)' = ResultIn(positions', cycles', {q})
<1>1. Valued(positions, dust) /\ Valued(positions', dust')
    BY HoldingsTyped, HoldingsTypedNext
<1>2. Typed(positions, cycles) /\ Typed(positions', cycles')
    BY BooksTyped, BooksTypedNext
<1>3. OwnedBy(q) = Committed(positions, dust, q)
    BY <1>1, OwnedByFields DEF OwnedBy
<1>4. OwnedBy(q)' = Committed(positions', dust', q)
    BY <1>1, OwnedByFields DEF OwnedBy, CostOf, AttributableOf
<1>5. ResultOf(q) = ResultIn(positions, cycles, {q})
    <2>1. ResultIn(positions, cycles, {q}) = ResultFields(positions, cycles, q)
        BY <1>2, ResultOfFields
    <2>2. QED BY <2>1 DEF ResultOf, ResultFields
<1>6. ResultOf(q)' = ResultIn(positions', cycles', {q})
    <2>1. ResultIn(positions', cycles', {q}) = ResultFields(positions', cycles', q)
        BY <1>2, ResultOfFields
    <2>2. QED BY <2>1 DEF ResultOf, ResultFields, NetPnl, Realized
<1>7. QED BY <1>3, <1>4, <1>5, <1>6

\* What one part of a balance gains is what the other parts leave over.
LEMMA BalanceMoves ==
    ASSUME NEW f \in Int, NEW ff \in Int, NEW p \in Int, NEW pp \in Int, NEW i \in Int,
           NEW c \in Int, NEW cc \in Int, NEW o \in Int,
           f + (c + o) = i + p, ff + (cc + o) = i + pp
    PROVE  cc = c + (f - ff) + (pp - p)
OBVIOUS

\* A step of one pair changes what is committed to it by what the free balance
\* and the realized profit leave over, and nothing of the other pairs.
LEMMA CommittedStep ==
    ASSUME IInv, IInv', NEW pair, LeavesOthers(pair)
    PROVE  /\ Committed(positions', dust', pair)
                  = Committed(positions, dust, pair) + (free - free') + (realizedPnl' - realizedPnl)
           /\ \A q : q # pair => Committed(positions', dust', q) = Committed(positions, dust, q)
<1>1. /\ Valued(positions, dust) /\ Valued(positions', dust')
      /\ free \in Int /\ free' \in Int /\ realizedPnl \in Int /\ realizedPnl' \in Int
      /\ InitialBank \in Int
    BY HoldingsTyped, HoldingsTypedNext, LedgerAssumption DEF IInv, WellFormed, AccountsOK
<1>2. OwnedByOthers(positions', dust', pair) = OwnedByOthers(positions, dust, pair)
    BY DEF OwnedByOthers, LeavesOthers, LeavesPositions, LeavesDust
<1>3. ASSUME NEW q, q # pair
      PROVE  Committed(positions', dust', q) = Committed(positions, dust, q)
    <2>1. OwnedOf(positions', dust', q) = OwnedOf(positions, dust, q)
        BY <1>3 DEF OwnedOf, LeavesOthers, LeavesPositions, LeavesDust
    <2>2. QED BY <2>1 DEF Committed
<1> DEFINE b == Book(positions, dust)
           bb == Book(positions', dust')
           c == Committed(positions, dust, pair)
           cc == Committed(positions', dust', pair)
           o == Total(CapitalId, OwnedByOthers(positions, dust, pair), MaxCapital)
<1>4. c \in Int /\ o \in Int /\ b \in Int /\ b = c + o
    <2>1. Valued(positions, dust)
        BY <1>1
    <2>2. c \in Nat /\ o \in Nat /\ b = c + o
        BY <2>1, CommittedType
    <2> HIDE DEF b, c, o
    <2>3. QED BY <2>2
<1>5. cc \in Int /\ bb \in Int /\ bb = cc + o
    <2>1. Valued(positions', dust')
        BY <1>1
    <2>2. cc \in Nat /\ bb = cc + Total(CapitalId, OwnedByOthers(positions', dust', pair), MaxCapital)
        BY <2>1, CommittedType
    <2>3. cc \in Nat /\ bb = cc + o
        BY <1>2, <2>2
    <2> HIDE DEF bb, cc, o
    <2>4. QED BY <1>4, <2>3
<1>6. free + b = InitialBank + realizedPnl /\ free' + bb = InitialBank + realizedPnl'
    BY DEF IInv, Conservation
<1>9. /\ free \in Int /\ free' \in Int /\ realizedPnl \in Int /\ realizedPnl' \in Int
      /\ InitialBank \in Int
    BY <1>1
<1> HIDE DEF b, bb, c, cc, o
<1>7. cc = c + (free - free') + (realizedPnl' - realizedPnl)
    <2>1. PICK f \in Int, ff \in Int, y \in Int, yy \in Int, i \in Int :
              f = free /\ ff = free' /\ y = realizedPnl /\ yy = realizedPnl' /\ i = InitialBank
        BY <1>9
    <2>2. PICK u \in Int, uu \in Int, v \in Int : u = c /\ uu = cc /\ v = o
        BY <1>4, <1>5
    <2>3. f + (u + v) = i + y /\ ff + (uu + v) = i + yy
        BY <1>4, <1>5, <1>6, <2>1, <2>2
    <2>4. uu = u + (f - ff) + (yy - y)
        BY <2>3, BalanceMoves
    <2>5. QED BY <2>1, <2>2, <2>4
<1>8. QED BY <1>3, <1>7 DEF c, cc

\* Selling for a pair takes a cost out of its commitment that is not negative,
\* and the pair's result is what remains of the proceeds.
LEMMA SettlementMapped ==
    ASSUME IInv, IInv', NEW pair, LeavesOthers(pair),
           NEW now \in Time, NEW id \in DOMAIN positions, NEW cycle \in CycleId, NEW proceeds \in Nat,
           NEW auth, NEW sold \in 1..positions[id].quantity,
           positions[id].pair = pair, Settles(id, cycle, sold, proceeds, auth, now)
    PROVE  /\ free' >= free
           /\ (free' - free) - (realizedPnl' - realizedPnl) >= 0
           /\ \A q : ResultIn(positions', cycles', {q}) = ResultIn(positions, cycles, {q})
                        + (IF q = pair THEN realizedPnl' - realizedPnl ELSE 0)
<1> DEFINE p == positions[id]
           r == Returned(p, sold, proceeds)
<1>1. p \in CapitalPosition
    BY PositionsTyped DEF IInv
<1>2. /\ r \in CapitalPosition /\ Realized(r) \in Int /\ Realized(p) \in Int
      /\ Realized(r) - Realized(p) = proceeds - (p.cost + p.attributable) + (r.cost + r.attributable)
      /\ r.cost + r.attributable <= p.cost + p.attributable
    BY <1>1, ReturnedType, ReturnedCharge
<1>3. free' = free + proceeds /\ realizedPnl' = realizedPnl + Realized(r) - Realized(p)
    BY ReturnFill
<1>4. free \in Int /\ realizedPnl \in Int
    BY DEF IInv, WellFormed, AccountsOK
<1>5. /\ p.cost + p.attributable \in Int /\ r.cost + r.attributable \in Int
    BY <1>1, <1>2 DEF CapitalPosition
<1> HIDE DEF p, r
<1>6. free' >= free /\ (free' - free) - (realizedPnl' - realizedPnl) >= 0
    BY <1>2, <1>3, <1>4, <1>5
<1>7. ASSUME NEW q
      PROVE  ResultIn(positions', cycles', {q}) = ResultIn(positions, cycles, {q})
                 + (IF q = pair THEN realizedPnl' - realizedPnl ELSE 0)
    <2>1. ResultIn(positions', cycles', {q}) = ResultIn(positions, cycles, {q})
              + (IF positions[id].pair \in {q} THEN realizedPnl' - realizedPnl ELSE 0)
        BY SettlementResult
    <2>2. QED BY <2>1
<1>8. QED BY <1>6, <1>7

(***************************************************************************)
(* The shared bank seen through the mapping.                               *)
(***************************************************************************)
CommittedOf(P, D) == [q \in Pair |-> Committed(P, D, q)]
ResultsOf(P, C) == [q \in Pair |-> ResultIn(P, C, {q})]

\* The mapping's state functions are these, before and after a step.
LEMMA MappedState ==
    ASSUME WellFormed, WellFormed'
    PROVE  /\ [p \in Pair |-> OwnedBy(p)] = CommittedOf(positions, dust)
           /\ [p \in Pair |-> OwnedBy(p)]' = CommittedOf(positions', dust')
           /\ [p \in Pair |-> ResultOf(p)] = ResultsOf(positions, cycles)
           /\ [p \in Pair |-> ResultOf(p)]' = ResultsOf(positions', cycles')
<1>1. \A q \in Pair : /\ OwnedBy(q) = Committed(positions, dust, q)
                      /\ OwnedBy(q)' = Committed(positions', dust', q)
                      /\ ResultOf(q) = ResultIn(positions, cycles, {q})
                      /\ ResultOf(q)' = ResultIn(positions', cycles', {q})
    BY MappedBooks
<1>2. QED BY <1>1 DEF CommittedOf, ResultsOf

\* A step that sells nothing commits free cash to its pair or releases it.
LEMMA UnsoldMapped ==
    ASSUME IInv, IInv', NEW pair \in Pair, LeavesOthers(pair),
           Unsold(positions, positions'), UNCHANGED <<cycles, realizedPnl>>
    PROVE  Bank!Commit(pair) \/ Bank!Release(pair)
<1> DEFINE k == CommittedOf(positions, dust)
           kk == CommittedOf(positions', dust')
<1>1. /\ free \in Nat /\ free' \in Nat /\ realizedPnl' - realizedPnl = 0
      /\ WellFormed /\ WellFormed'
    BY DEF IInv, WellFormed, AccountsOK
<1>2. /\ \A q \in Pair : k[q] \in Nat /\ kk[q] \in Nat
      /\ DOMAIN k = Pair /\ DOMAIN kk = Pair
      /\ k = [q \in Pair |-> k[q]] /\ kk = [q \in Pair |-> kk[q]]
    BY <1>1, HoldingsTyped, HoldingsTypedNext, CommittedType DEF CommittedOf
<1>3. /\ kk[pair] = k[pair] + (free - free')
      /\ \A q \in Pair \ {pair} : kk[q] = k[q]
    <2>1. /\ Committed(positions', dust', pair)
                = Committed(positions, dust, pair) + (free - free') + (realizedPnl' - realizedPnl)
          /\ \A q : q # pair => Committed(positions', dust', q) = Committed(positions, dust, q)
        BY CommittedStep
    <2>2. /\ kk[pair] = k[pair] + (free - free') + (realizedPnl' - realizedPnl)
          /\ \A q \in Pair \ {pair} : kk[q] = k[q]
        BY <2>1 DEF CommittedOf
    <2> HIDE DEF k, kk
    <2>3. QED BY <1>1, <1>2, <2>2
<1>4. ResultsOf(positions', cycles') = ResultsOf(positions, cycles)
    BY <1>1, UnsoldKeepsResults DEF ResultsOf
<1>5. /\ [p \in Pair |-> OwnedBy(p)] = k /\ [p \in Pair |-> OwnedBy(p)]' = kk
      /\ [p \in Pair |-> ResultOf(p)] = ResultsOf(positions, cycles)
      /\ [p \in Pair |-> ResultOf(p)]' = ResultsOf(positions', cycles')
    BY <1>1, MappedState
<1> HIDE DEF k, kk
<1>6. CASE free' <= free
    <2>1. free' \in 0..free
        BY <1>1, <1>6
    <2>2. kk = [k EXCEPT ![pair] = @ + free - free']
        BY <1>1, <1>2, <1>3
    <2>3. QED BY <1>4, <1>5, <2>1, <2>2 DEF Bank!Commit
<1>7. CASE free' > free
    <2> DEFINE amount == free' - free
    <2>1. amount \in 0..k[pair] /\ free' = free + amount
        BY <1>1, <1>2, <1>3, <1>7
    <2>2. kk = [k EXCEPT ![pair] = @ - amount]
        BY <1>1, <1>2, <1>3
    <2> HIDE DEF amount
    <2>3. QED BY <1>4, <1>5, <2>1, <2>2 DEF Bank!Release
<1>8. QED BY <1>1, <1>6, <1>7

\* A return's fill settles with its pair: a cost leaves the commitment, the
\* proceeds are free, and the pair's own result takes the difference.
LEMMA SoldMapped ==
    ASSUME IInv, IInv', NEW pair \in Pair, LeavesOthers(pair),
           NEW now \in Time, NEW id \in DOMAIN positions, NEW cycle \in CycleId, NEW proceeds \in Nat,
           NEW auth, NEW sold \in 1..positions[id].quantity,
           positions[id].pair = pair, Settles(id, cycle, sold, proceeds, auth, now)
    PROVE  Bank!Settle(pair)
<1> DEFINE k == CommittedOf(positions, dust)
           kk == CommittedOf(positions', dust')
           r == ResultsOf(positions, cycles)
           rr == ResultsOf(positions', cycles')
           cost == (free' - free) - (realizedPnl' - realizedPnl)
<1>1. /\ free \in Nat /\ free' \in Nat /\ realizedPnl \in Int /\ realizedPnl' \in Int
      /\ WellFormed /\ WellFormed'
    BY DEF IInv, WellFormed, AccountsOK
<1>2. /\ \A q \in Pair : k[q] \in Nat /\ kk[q] \in Nat
      /\ DOMAIN k = Pair /\ DOMAIN kk = Pair
      /\ k = [q \in Pair |-> k[q]] /\ kk = [q \in Pair |-> kk[q]]
    BY <1>1, HoldingsTyped, HoldingsTypedNext, CommittedType DEF CommittedOf
<1>3. /\ \A q \in Pair : r[q] \in Int
      /\ DOMAIN r = Pair /\ DOMAIN rr = Pair
      /\ r = [q \in Pair |-> r[q]] /\ rr = [q \in Pair |-> rr[q]]
    BY <1>1, BooksTyped, ResultType DEF ResultsOf
<1>4. /\ kk[pair] = k[pair] + (free - free') + (realizedPnl' - realizedPnl)
      /\ \A q \in Pair \ {pair} : kk[q] = k[q]
    <2>1. /\ Committed(positions', dust', pair)
                = Committed(positions, dust, pair) + (free - free') + (realizedPnl' - realizedPnl)
          /\ \A q : q # pair => Committed(positions', dust', q) = Committed(positions, dust, q)
        BY CommittedStep
    <2>2. QED BY <2>1 DEF CommittedOf
<1>5. free' >= free /\ cost >= 0
    BY SettlementMapped
<1>6. /\ rr[pair] = r[pair] + (realizedPnl' - realizedPnl)
      /\ \A q \in Pair \ {pair} : rr[q] = r[q]
    <2>1. \A q : ResultIn(positions', cycles', {q}) = ResultIn(positions, cycles, {q})
                     + (IF q = pair THEN realizedPnl' - realizedPnl ELSE 0)
        BY SettlementMapped
    <2>2. \A q \in Pair : rr[q] = r[q] + (IF q = pair THEN realizedPnl' - realizedPnl ELSE 0)
        BY <2>1 DEF ResultsOf
    <2> HIDE DEF r, rr
    <2>3. QED BY <1>3, <2>2
<1>7. /\ [p \in Pair |-> OwnedBy(p)] = k /\ [p \in Pair |-> OwnedBy(p)]' = kk
      /\ [p \in Pair |-> ResultOf(p)] = r /\ [p \in Pair |-> ResultOf(p)]' = rr
    BY <1>1, MappedState
<1> HIDE DEF k, kk, r, rr
<1>8. /\ kk[pair] = k[pair] - cost /\ cost \in 0..k[pair]
      /\ rr[pair] = r[pair] + (free' - free) - cost
    BY <1>1, <1>2, <1>3, <1>4, <1>5, <1>6
<1> HIDE DEF cost
<1>9. kk = [k EXCEPT ![pair] = @ - cost] /\ rr = [r EXCEPT ![pair] = @ + (free' - free) - cost]
    BY <1>2, <1>3, <1>4, <1>6, <1>8
<1>10. QED BY <1>1, <1>5, <1>7, <1>8, <1>9 DEF Bank!Settle

\* Every step of the ledger is a step of the shared bank, or leaves it alone.
LEMMA BankStep ==
    ASSUME IInv, IInv', OnlyReturnsSell, [Next]_vars
    PROVE  [Bank!Next]_(Bank!bankVars)
<1>1. CASE Next
    <2>1. PICK pair \in Pair :
              /\ LeavesOthers(pair)
              /\ \/ Unsold(positions, positions') /\ UNCHANGED <<cycles, realizedPnl>>
                 \/ \E now \in Time, id \in DOMAIN positions, cycle \in CycleId, proceeds \in Nat :
                     \E auth : \E sold \in 1..positions[id].quantity :
                         positions[id].pair = pair /\ Settles(id, cycle, sold, proceeds, auth, now)
        BY <1>1, EveryStepIsOfOnePair
    <2>2. Bank!Commit(pair) \/ Bank!Release(pair) \/ Bank!Settle(pair)
        BY <2>1, UnsoldMapped, SoldMapped
    <2>3. QED BY <2>2 DEF Bank!Next
<1>2. CASE UNCHANGED vars
    BY <1>2 DEF vars, Bank!bankVars, OwnedBy, ResultOf, CostOf, AttributableOf, NetPnl, Realized
<1>3. QED BY <1>1, <1>2

\* At the start nothing is committed and nothing has been earned.
LEMMA BankInit == Init => Bank!Init
<1> SUFFICES ASSUME Init PROVE Bank!Init
    OBVIOUS
<1>1. DOMAIN positions = {} /\ DOMAIN dust = {} /\ DOMAIN cycles = {} /\ free = InitialBank
    BY DEF Init, Empty
<1>2. MaxCapital \in Nat /\ MaxCycle \in Nat
    BY LedgerAssumption
<1>3. \A f : Total({}, f, MaxCapital) = 0 /\ Total({}, f, MaxCycle) = 0
    BY <1>2, TotalEmpty
<1>4. ASSUME NEW q PROVE OwnedBy(q) = 0 /\ ResultOf(q) = 0
    <2>1. /\ {i \in DOMAIN positions : positions[i].pair = q} = {}
          /\ {i \in DOMAIN dust : dust[i].pair = q} = {}
          /\ {c \in DOMAIN cycles : cycles[c].pair = q} = {}
        BY <1>1
    <2>2. \A f : /\ Total({i \in DOMAIN positions : positions[i].pair = q}, f, MaxCapital) = 0
                 /\ Total({i \in DOMAIN dust : dust[i].pair = q}, f, MaxCapital) = 0
                 /\ Total({c \in DOMAIN cycles : cycles[c].pair = q}, f, MaxCycle) = 0
        BY <1>3, <2>1
    <2>3. OwnedBy(q) = 0 + 0 + 0 /\ ResultOf(q) = 0 + 0
        BY <2>2, Zenon DEF OwnedBy, ResultOf
    <2>4. QED BY <2>3
<1>5. QED BY <1>1, <1>4 DEF Bank!Init

\* The ledger implements the shared bank: no operation of
\* GlobalCapitalLedger moves cash, cost or profit between two pairs.
THEOREM LedgerImplementsSharedBank == Spec => ImplementsSharedBank
<1> DEFINE Inv == IInv /\ LossInv
<1>1. Init => Inv
    BY InitIInv DEF Init, LossInv, OnlyReturnsSell, LossesAuthorized, SpentIsConsumed, Empty
<1>2. Inv /\ [Next]_vars => Inv'
    BY NextIInv, LossStep
<1>3. Inv /\ Inv' /\ [Next]_vars => [Bank!Next]_(Bank!bankVars)
    BY BankStep DEF LossInv
<1>4. QED BY <1>1, <1>2, <1>3, BankInit, PTL DEF Spec, ImplementsSharedBank, Bank!Spec

-----------------------------------------------------------------------------
(* Cash comes back once, under ids that stay with their pair.              *)

\* The only new id is the next one, and dust takes the ids of positions.
NewIds ==
    /\ DOMAIN positions' \subseteq DOMAIN positions \cup {NextId}
    /\ DOMAIN dust' \subseteq DOMAIN dust \cup DOMAIN positions

\* The steps that name one position.
LEMMA OnePositionNewIds ==
    ASSUME NEW id \in DOMAIN positions, NEW now, OnePosition(id, now)
    PROVE  NewIds
<1>1. CASE \/ RequestCancel(id, now) \/ AcknowledgeCancel(id, now)
           \/ ReserveOwnedReturn(id, now) \/ MoveToDust(id, now)
           \/ \E m \in Mark : UpdateMark(id, m, now)
    BY <1>1 DEF RequestCancel, AcknowledgeCancel, ReserveOwnedReturn, MoveToDust, UpdateMark,
                With, Without, NewIds
<1>2. ASSUME NEW input, NEW quantity, NEW m, NEW c, RecordEntryFill(id, input, quantity, m, c, now)
      PROVE  NewIds
    <2>1. /\ UNCHANGED dust
          /\ \/ positions' = FullEntryPositions(id, quantity, m, c)
             \/ positions' = PartialEntryPositions(id, input, quantity, m, c)
        BY <1>2 DEF RecordEntryFill
    <2>2. DOMAIN FullEntryPositions(id, quantity, m, c) = DOMAIN positions
        BY DEF FullEntryPositions
    <2>3. DOMAIN PartialEntryPositions(id, input, quantity, m, c) = DOMAIN positions \cup {NextId}
        BY DEF PartialEntryPositions, PartialEntryFrom, With
    <2>4. QED BY <2>1, <2>2, <2>3 DEF NewIds
<1>3. ASSUME NEW auth, NEW expires, NEW q, NEW l, RegisterRiskExit(auth, id, expires, q, l, now)
      PROVE  NewIds
    BY <1>3 DEF RegisterRiskExit, NewIds
<1>4. ASSUME NEW cycle, NEW sold, NEW proceeds, NEW auth, Settles(id, cycle, sold, proceeds, auth, now)
      PROVE  NewIds
    <2>1. \/ (\E v : positions' = [positions EXCEPT ![id] = v]) /\ UNCHANGED dust
          \/ /\ positions' = Without(positions, {id})
             /\ dust' = dust \/ \E lot : dust' = With(dust, id, lot)
        BY <1>4 DEF Settles, SettlePartialReturn, SettleCompleteReturn
    <2>2. QED BY <2>1 DEF With, Without, NewIds
<1>5. QED BY <1>1, <1>2, <1>3, <1>4 DEF OnePosition

\* Every step.
LEMMA StepNewIds ==
    ASSUME Next
    PROVE  NewIds
<1>1. ASSUME NEW now, NEW pair, NEW amount, Reserve(pair, amount, now) PROVE NewIds
    BY <1>1 DEF Reserve, With, NewIds
<1>2. ASSUME NEW now, NEW ids, NEW pair, NEW asset, ConsolidateInventory(ids, pair, asset, now)
      PROVE  NewIds
    BY <1>2 DEF ConsolidateInventory, With, Without, NewIds
<1>3. ASSUME NEW now, NEW pair, NEW asset, NEW q, NEW m, ReserveAggregatedDust(pair, asset, q, m, now)
      PROVE  NewIds
    BY <1>3 DEF ReserveAggregatedDust, With, Consumed, NewIds
<1>4. ASSUME NEW now, NEW asset, NEW m, UpdateAssetMark(asset, m, now) PROVE NewIds
    BY <1>4 DEF UpdateAssetMark, NewIds
<1>5. QED BY <1>1, <1>2, <1>3, <1>4, OnePositionNewIds DEF Next, OnePosition, Settles

\* An id that has been issued keeps its pair and never comes back.
LEMMA IdsStep ==
    ASSUME IInv, IInv', OnlyReturnsSell, Next
    PROVE  IdsKeepTheirPair
<1>1. PICK pair \in Pair : LeavesPositions(positions, positions', pair) /\ LeavesDust(dust, dust', pair)
    BY EveryStepIsOfOnePair DEF LeavesOthers
<1>2. /\ DOMAIN positions \cap DOMAIN dust = {}
      /\ DOMAIN positions' \cap DOMAIN dust' = {}
      /\ sequence \in Int
    BY DEF IInv, WellFormed, AccountsOK
<1>3. NewIds
    BY StepNewIds
<1> SUFFICES ASSUME NEW i \in 1..sequence
             PROVE  /\ i \in DOMAIN positions' \cup DOMAIN dust' => i \in DOMAIN positions \cup DOMAIN dust
                    /\ i \in DOMAIN positions' =>
                           i \in DOMAIN positions /\ positions'[i].pair = positions[i].pair
                    /\ i \in DOMAIN positions \cap DOMAIN dust' => dust'[i].pair = positions[i].pair
    BY DEF IdsKeepTheirPair
<1>4. i # NextId
    BY <1>2 DEF NextId
<1>5. ASSUME i \in DOMAIN positions'
      PROVE  i \in DOMAIN positions /\ positions'[i].pair = positions[i].pair
    BY <1>1, <1>3, <1>4, <1>5 DEF NewIds, LeavesPositions
<1>6. ASSUME i \in DOMAIN positions, i \in DOMAIN dust'
      PROVE  dust'[i].pair = positions[i].pair
    <2>1. i \notin DOMAIN dust /\ i \notin DOMAIN positions'
        BY <1>2, <1>6
    <2>2. dust'[i].pair = pair
        BY <1>1, <1>6, <2>1 DEF LeavesDust
    <2>3. positions[i].pair = pair
        BY <1>1, <1>6, <2>1 DEF LeavesPositions
    <2>4. QED BY <2>2, <2>3
<1>7. QED BY <1>3, <1>5, <1>6 DEF NewIds

\* What makes free cash grow, among the steps that name one position.
LEMMA OnePositionCash ==
    ASSUME IInv, NEW id \in DOMAIN positions, NEW now, OnePosition(id, now)
    PROVE  CashReturnsByAckOrSale
<1>1. free \in Int
    BY DEF IInv, WellFormed, AccountsOK
<1>2. positions[id] \in CapitalPosition
    BY PositionsTyped DEF IInv
<1>3. CASE \/ RequestCancel(id, now) \/ ReserveOwnedReturn(id, now) \/ MoveToDust(id, now)
           \/ \E auth \in AuthorizationId, expires \in Time, q \in ExitQuantity, l \in Loss :
                  RegisterRiskExit(auth, id, expires, q, l, now)
           \/ \E m \in Mark : UpdateMark(id, m, now)
    <2>1. UNCHANGED free
        BY <1>3 DEF RequestCancel, ReserveOwnedReturn, MoveToDust, RegisterRiskExit, UpdateMark
    <2>2. QED BY <1>1, <2>1 DEF CashReturnsByAckOrSale
<1>4. CASE AcknowledgeCancel(id, now)
    <2>1. /\ positions[id].state = "CANCEL_PENDING" /\ free' = free + positions[id].marked
          /\ id \notin DOMAIN positions'
        BY <1>4 DEF AcknowledgeCancel, AwaitsAck, HasState, Without
    <2>2. positions[id].marked = positions[id].cost
        BY <2>1 DEF IInv, WellFormed, PositionsOK, PositionOK
    <2>3. positions[id].cost \in Int
        BY <1>2 DEF CapitalPosition
    <2>4. free' - free = positions[id].cost
        BY <1>1, <2>1, <2>2, <2>3
    <2>5. QED BY <2>1, <2>4 DEF CashReturnsByAckOrSale
<1>5. ASSUME NEW input, NEW quantity, NEW m, NEW c \in Cost, RecordEntryFill(id, input, quantity, m, c, now)
      PROVE  CashReturnsByAckOrSale
    <2>1. free' = free - c /\ c \in Nat
        BY <1>5, LedgerAssumption DEF RecordEntryFill
    <2>2. QED BY <1>1, <2>1 DEF CashReturnsByAckOrSale
<1>6. ASSUME NEW cycle, NEW sold \in 1..positions[id].quantity, NEW proceeds, NEW auth,
             Settles(id, cycle, sold, proceeds, auth, now)
      PROVE  CashReturnsByAckOrSale
    <2>1. positions[id].state = "RETURN"
        BY <1>6 DEF Settles, SettlePartialReturn, SettleCompleteReturn, SettlementAllowed, HasState
    <2>2. id \in DOMAIN positions' => positions'[id].quantity < positions[id].quantity
        <3>1. CASE SettlePartialReturn(id, cycle, sold, proceeds, auth, now)
            <4> DEFINE r == Returned(positions[id], sold, proceeds)
            <4>1. positions'[id] = [r EXCEPT !.marked = r.quantity * assetMarks[r.asset],
                                             !.pendingCycle = cycle]
                BY <3>1 DEF SettlePartialReturn
            <4>2. r.quantity = positions[id].quantity - sold
                BY <1>2 DEF Returned, CapitalPosition
            <4>3. positions'[id].quantity = r.quantity
                BY <1>2, <4>1 DEF Returned, CapitalPosition
            <4> HIDE DEF r
            <4>4. positions[id].quantity \in Int
                BY <1>2 DEF CapitalPosition
            <4>5. QED BY <4>2, <4>3, <4>4
        <3>2. CASE SettleCompleteReturn(id, cycle, sold, proceeds, auth, now)
            BY <3>2 DEF SettleCompleteReturn, Without
        <3>3. QED BY <1>6, <3>1, <3>2 DEF Settles
    <2>3. QED BY <2>1, <2>2 DEF CashReturnsByAckOrSale
<1>7. QED BY <1>3, <1>4, <1>5, <1>6 DEF OnePosition

\* ... and among all of them.
LEMMA CashStep ==
    ASSUME IInv, Next
    PROVE  CashReturnsByAckOrSale
<1>1. free \in Int
    BY DEF IInv, WellFormed, AccountsOK
<1>2. ASSUME NEW now, NEW pair, NEW amount \in Grant, Reserve(pair, amount, now)
      PROVE  CashReturnsByAckOrSale
    <2>1. free' = free - amount /\ amount \in Nat
        BY <1>2, LedgerAssumption DEF Reserve
    <2>2. QED BY <1>1, <2>1 DEF CashReturnsByAckOrSale
<1>3. ASSUME NEW now, NEW ids, NEW pair, NEW asset, ConsolidateInventory(ids, pair, asset, now)
      PROVE  CashReturnsByAckOrSale
    BY <1>1, <1>3 DEF ConsolidateInventory, CashReturnsByAckOrSale
<1>4. ASSUME NEW now, NEW pair, NEW asset, NEW q, NEW m, ReserveAggregatedDust(pair, asset, q, m, now)
      PROVE  CashReturnsByAckOrSale
    BY <1>1, <1>4 DEF ReserveAggregatedDust, CashReturnsByAckOrSale
<1>5. ASSUME NEW now, NEW asset, NEW m, UpdateAssetMark(asset, m, now) PROVE CashReturnsByAckOrSale
    BY <1>1, <1>5 DEF UpdateAssetMark, CashReturnsByAckOrSale
<1>6. QED BY <1>2, <1>3, <1>4, <1>5, OnePositionCash DEF Next, OnePosition, Settles

\* Free cash grows only by an acknowledged cancel, which gives back all that
\* the order still held, or by a sale (acknowledge_cancel, settle_return);
\* and an id of the books is never used for another pair or a second time.
THEOREM CashReturnsByOneWay == Spec => CashReturnsOnce
<1> DEFINE Inv == IInv /\ LossInv
<1>1. Init => Inv
    BY InitIInv DEF Init, LossInv, OnlyReturnsSell, LossesAuthorized, SpentIsConsumed, Empty
<1>2. Inv /\ [Next]_vars => Inv'
    BY NextIInv, LossStep
<1>3. Inv /\ Inv' /\ [Next]_vars => [CashReturnsByAckOrSale /\ IdsKeepTheirPair]_vars
    BY CashStep, IdsStep DEF LossInv
<1>4. QED BY <1>1, <1>2, <1>3, PTL DEF Spec, CashReturnsOnce
-----------------------------------------------------------------------------
(* Dust and inventory: the order of consumption, and every unit counted.   *)

\* A pair's inventory, returns and dust are in the asset it trades.
AssetInv ==
    /\ \A i \in DOMAIN positions :
           positions[i].state \in {"INVENTORY", "RETURN"} => positions[i].asset = TradedAsset[positions[i].pair]
    /\ \A i \in DOMAIN dust : dust[i].asset = TradedAsset[dust[i].pair]

\* Such a position or lot comes under an id.
LEMMA AssetWith ==
    ASSUME NEW P, NEW k, NEW p,
           \A i \in DOMAIN P : P[i].state \in {"INVENTORY", "RETURN"} => P[i].asset = TradedAsset[P[i].pair],
           p.state \in {"INVENTORY", "RETURN"} => p.asset = TradedAsset[p.pair]
    PROVE  \A i \in DOMAIN With(P, k, p) :
               With(P, k, p)[i].state \in {"INVENTORY", "RETURN"} =>
                   With(P, k, p)[i].asset = TradedAsset[With(P, k, p)[i].pair]
BY DEF With

\* The operations that name one position.
LEMMA OnePositionAssets ==
    ASSUME IInv, AssetInv, NEW id \in DOMAIN positions, NEW now, OnePosition(id, now)
    PROVE  AssetInv'
<1>1. positions[id] \in CapitalPosition
    BY PositionsTyped DEF IInv
<1>2. CASE \/ RequestCancel(id, now) \/ ReserveOwnedReturn(id, now)
           \/ \E m \in Mark : UpdateMark(id, m, now)
    <2>1. /\ DOMAIN positions' = DOMAIN positions /\ UNCHANGED dust
          /\ \A i \in DOMAIN positions \ {id} : positions'[i] = positions[i]
          /\ positions'[id].pair = positions[id].pair /\ positions'[id].asset = positions[id].asset
          /\ \/ positions'[id].state = positions[id].state
             \/ positions'[id].state = "CANCEL_PENDING"
             \/ positions[id].state = "INVENTORY"
        BY <1>1, <1>2 DEF RequestCancel, ReserveOwnedReturn, UpdateMark, HasState, CapitalPosition
    <2>2. QED BY <2>1 DEF AssetInv
<1>3. CASE AcknowledgeCancel(id, now)
    BY <1>3 DEF AcknowledgeCancel, Without, AssetInv
<1>4. CASE MoveToDust(id, now)
    BY <1>4 DEF MoveToDust, HasState, Without, With, ResidualLot, AssetInv
<1>5. ASSUME NEW input, NEW quantity, NEW m, NEW c, RecordEntryFill(id, input, quantity, m, c, now)
      PROVE  AssetInv'
    <2>1. UNCHANGED dust
        BY <1>5 DEF RecordEntryFill
    <2>2. CASE positions' = FullEntryPositions(id, quantity, m, c)
        <3>1. /\ DOMAIN positions' = DOMAIN positions
              /\ \A i \in DOMAIN positions \ {id} : positions'[i] = positions[i]
            BY <2>2 DEF FullEntryPositions
        <3>2. positions'[id].asset = TradedAsset[positions'[id].pair]
            BY <1>1, <2>2 DEF FullEntryPositions, CapitalPosition
        <3>3. QED BY <2>1, <3>1, <3>2 DEF AssetInv
    <2>3. CASE positions' = PartialEntryPositions(id, input, quantity, m, c)
        <3> DEFINE left == positions[id].cost - input
                   P == [positions EXCEPT ![id].cost = left, ![id].marked = left, ![id].quantity = left]
                   p == FreshPosition(positions[id].pair, "INVENTORY", TradedAsset[positions[id].pair], input,
                                      quantity * m, quantity, c)
        <3>1. /\ DOMAIN P = DOMAIN positions
              /\ \A i \in DOMAIN P : /\ P[i].state = positions[i].state
                                     /\ P[i].asset = positions[i].asset
                                     /\ P[i].pair = positions[i].pair
            BY <1>1 DEF CapitalPosition
        <3>2. positions' = With(P, NextId, p)
            BY <2>3 DEF PartialEntryPositions, PartialEntryFrom
        <3>3. p.asset = TradedAsset[p.pair]
            BY DEF FreshPosition
        <3> HIDE DEF P, p
        <3>4. \A i \in DOMAIN P : P[i].state \in {"INVENTORY", "RETURN"} => P[i].asset = TradedAsset[P[i].pair]
            BY <3>1 DEF AssetInv
        <3>5. QED BY <2>1, <3>2, <3>3, <3>4, AssetWith DEF AssetInv
    <2>4. QED BY <1>5, <2>2, <2>3 DEF RecordEntryFill
<1>6. ASSUME NEW auth, NEW expires, NEW q, NEW l, RegisterRiskExit(auth, id, expires, q, l, now)
      PROVE  AssetInv'
    BY <1>6 DEF RegisterRiskExit, AssetInv
<1>7. ASSUME NEW cycle, NEW sold, NEW proceeds, NEW auth, Settles(id, cycle, sold, proceeds, auth, now)
      PROVE  AssetInv'
    <2>1. positions[id].state = "RETURN" /\ positions[id].asset = TradedAsset[positions[id].pair]
        BY <1>7 DEF Settles, SettlePartialReturn, SettleCompleteReturn, SettlementAllowed, HasState, AssetInv
    <2>2. CASE SettlePartialReturn(id, cycle, sold, proceeds, auth, now)
        <3>1. /\ DOMAIN positions' = DOMAIN positions /\ UNCHANGED dust
              /\ \A i \in DOMAIN positions \ {id} : positions'[i] = positions[i]
              /\ positions'[id].pair = positions[id].pair /\ positions'[id].asset = positions[id].asset
            BY <1>1, <2>2 DEF SettlePartialReturn, Returned, CapitalPosition
        <3>2. QED BY <2>1, <3>1 DEF AssetInv
    <2>3. CASE SettleCompleteReturn(id, cycle, sold, proceeds, auth, now)
        <3>1. positions' = Without(positions, {id})
            BY <2>3 DEF SettleCompleteReturn
        <3>2. \/ UNCHANGED dust
              \/ \E lot : /\ dust' = With(dust, id, lot)
                          /\ lot.pair = positions[id].pair /\ lot.asset = positions[id].asset
            BY <2>3 DEF SettleCompleteReturn, ResidualLot
        <3>3. QED BY <2>1, <3>1, <3>2 DEF AssetInv, With, Without
    <2>4. QED BY <1>7, <2>2, <2>3 DEF Settles
<1>8. QED BY <1>2, <1>3, <1>4, <1>5, <1>6, <1>7 DEF OnePosition

\* Every step keeps each pair to the asset it trades.
LEMMA AssetStep == IInv /\ AssetInv /\ [Next]_vars => AssetInv'
<1> SUFFICES ASSUME IInv, AssetInv, [Next]_vars PROVE AssetInv'
    OBVIOUS
<1>1. ASSUME NEW now, NEW pair, NEW amount, Reserve(pair, amount, now) PROVE AssetInv'
    <2>1. /\ UNCHANGED dust
          /\ positions' = With(positions, NextId, FreshPosition(pair, "RESERVED", USDT, amount, amount, amount, 0))
        BY <1>1 DEF Reserve
    <2>2. FreshPosition(pair, "RESERVED", USDT, amount, amount, amount, 0).state = "RESERVED"
        BY DEF FreshPosition
    <2>3. QED BY <2>1, <2>2, AssetWith DEF AssetInv
<1>2. ASSUME NEW now, NEW ids, NEW pair, ConsolidateInventory(ids, pair, TradedAsset[pair], now)
      PROVE  AssetInv'
    <2>1. UNCHANGED dust /\ \E p : /\ positions' = With(Without(positions, ids), NextId, p)
                                   /\ p.asset = TradedAsset[p.pair]
        BY <1>2 DEF ConsolidateInventory, FreshPosition
    <2>2. \A i \in DOMAIN Without(positions, ids) :
              Without(positions, ids)[i].state \in {"INVENTORY", "RETURN"} =>
                  Without(positions, ids)[i].asset = TradedAsset[Without(positions, ids)[i].pair]
        BY DEF Without, AssetInv
    <2>3. QED BY <2>1, <2>2, AssetWith DEF AssetInv
<1>3. ASSUME NEW now, NEW pair, NEW q, NEW m, ReserveAggregatedDust(pair, TradedAsset[pair], q, m, now)
      PROVE  AssetInv'
    <2>0. \E c, k : positions' = With(positions, NextId,
                                      FreshPosition(pair, "RETURN", TradedAsset[pair], c, k, q, 0))
        BY <1>3 DEF ReserveAggregatedDust
    <2>1. /\ dust' = Consumed(Lots(pair, TradedAsset[pair]), q)
          /\ \E p : positions' = With(positions, NextId, p) /\ p.asset = TradedAsset[p.pair]
        <3>1. PICK c, k : positions' = With(positions, NextId,
                                            FreshPosition(pair, "RETURN", TradedAsset[pair], c, k, q, 0))
            BY <2>0
        <3>2. LET p == FreshPosition(pair, "RETURN", TradedAsset[pair], c, k, q, 0)
              IN  p.asset = TradedAsset[p.pair]
            BY DEF FreshPosition
        <3>3. QED BY <1>3, <3>1, <3>2 DEF ReserveAggregatedDust
    <2>2. \A i \in DOMAIN dust' : /\ i \in DOMAIN dust
                                  /\ dust'[i].pair = dust[i].pair /\ dust'[i].asset = dust[i].asset
        BY <2>1 DEF Consumed, IInv, WellFormed, DustOK, DustLot
    <2>3. QED BY <2>1, <2>2, AssetWith DEF AssetInv
<1>4. ASSUME NEW now, NEW asset, NEW m, UpdateAssetMark(asset, m, now) PROVE AssetInv'
    <2>1. /\ DOMAIN positions' = DOMAIN positions /\ UNCHANGED dust
          /\ \A i \in DOMAIN positions : /\ positions'[i].pair = positions[i].pair
                                         /\ positions'[i].state = positions[i].state
                                         /\ positions'[i].asset = positions[i].asset
        BY <1>4, PositionsTyped DEF UpdateAssetMark, CapitalPosition, IInv
    <2>2. QED BY <2>1 DEF AssetInv
<1>5. CASE UNCHANGED vars
    BY <1>5 DEF vars, AssetInv
<1>6. QED BY <1>1, <1>2, <1>3, <1>4, <1>5, OnePositionAssets DEF Next, OnePosition, Settles

-----------------------------------------------------------------------------
(* Dust is consumed oldest first.                                          *)

\* Every lot but those of an aggregation stays as it is.
LotsStay == \A i \in DOMAIN dust : i \in DOMAIN dust' /\ dust'[i] = dust[i]

\* The operations that name one position leave the lots there are.
LEMMA OnePositionLots ==
    ASSUME IInv, NEW id \in DOMAIN positions, NEW now, OnePosition(id, now)
    PROVE  LotsStay
<1>1. id \notin DOMAIN dust
    BY PositionAt DEF IInv
<1>2. CASE \/ RequestCancel(id, now) \/ AcknowledgeCancel(id, now) \/ ReserveOwnedReturn(id, now)
           \/ \E auth \in AuthorizationId, expires \in Time, q \in ExitQuantity, l \in Loss :
                  RegisterRiskExit(auth, id, expires, q, l, now)
           \/ \E m \in Mark : UpdateMark(id, m, now)
    BY <1>2 DEF RequestCancel, AcknowledgeCancel, ReserveOwnedReturn, RegisterRiskExit, UpdateMark, LotsStay
<1>3. ASSUME NEW input, NEW quantity, NEW m, NEW c, RecordEntryFill(id, input, quantity, m, c, now)
      PROVE  LotsStay
    BY <1>3 DEF RecordEntryFill, LotsStay
<1>4. CASE MoveToDust(id, now)
    BY <1>1, <1>4 DEF MoveToDust, With, LotsStay
<1>5. ASSUME NEW cycle, NEW sold, NEW proceeds, NEW auth, Settles(id, cycle, sold, proceeds, auth, now)
      PROVE  LotsStay
    <2>1. UNCHANGED dust \/ \E lot : dust' = With(dust, id, lot)
        BY <1>5 DEF Settles, SettlePartialReturn, SettleCompleteReturn
    <2>2. QED BY <1>1, <2>1 DEF With, LotsStay
<1>6. QED BY <1>2, <1>3, <1>4, <1>5 DEF OnePosition

\* Only a consumption takes from the lots.
LEMMA LotsStayOrAreConsumed ==
    ASSUME IInv, Next
    PROVE  \/ LotsStay
           \/ \E pair \in Pair, now \in Time, m \in Mark :
                  \E q \in 1..Total(Lots(pair, TradedAsset[pair]), QuantityOf(dust), MaxCapital) :
                      ReserveAggregatedDust(pair, TradedAsset[pair], q, m, now)
<1>1. ASSUME NEW now, NEW pair, NEW amount, Reserve(pair, amount, now) PROVE LotsStay
    BY <1>1 DEF Reserve, LotsStay
<1>2. ASSUME NEW now, NEW ids, NEW pair, NEW asset, ConsolidateInventory(ids, pair, asset, now)
      PROVE  LotsStay
    BY <1>2 DEF ConsolidateInventory, LotsStay
<1>3. ASSUME NEW now, NEW asset, NEW m, UpdateAssetMark(asset, m, now) PROVE LotsStay
    BY <1>3 DEF UpdateAssetMark, LotsStay
<1>4. QED BY <1>1, <1>2, <1>3, OnePositionLots DEF Next, OnePosition, Settles

\* What there is to say of the lots of S, and of those ahead of one of them.
LEMMA LotsTyped ==
    ASSUME WellFormed, NEW S \in SUBSET DOMAIN dust
    PROVE  /\ S \subseteq 1..MaxCapital /\ MaxCapital \in Nat
           /\ \A i \in S : /\ dust[i] \in DustLot /\ i \in Int
                           /\ dust[i].created \in Int
                           /\ QuantityOf(dust)[i] = dust[i].quantity
                           /\ dust[i].quantity \in Nat /\ dust[i].quantity > 0
           /\ \A i \in S : Older(i, S) \in SUBSET S /\ i \notin Older(i, S)
           /\ \A i \in S : Total(Older(i, S), QuantityOf(dust), MaxCapital) \in Nat
<1>1. MaxCapital \in Nat /\ sequence \in 0..MaxCapital
    BY LedgerAssumption DEF WellFormed, AccountsOK
<1>2. S \subseteq 1..MaxCapital
    BY <1>1 DEF WellFormed, DustOK
<1>3. \A i \in S : /\ dust[i] \in DustLot /\ i \in Int
                   /\ dust[i].created \in Int
                   /\ QuantityOf(dust)[i] = dust[i].quantity
                   /\ dust[i].quantity \in Nat /\ dust[i].quantity > 0
    <2> SUFFICES ASSUME NEW i \in S
                 PROVE  /\ dust[i] \in DustLot /\ i \in Int
                        /\ dust[i].created \in Int
                        /\ QuantityOf(dust)[i] = dust[i].quantity
                        /\ dust[i].quantity \in Nat /\ dust[i].quantity > 0
        OBVIOUS
    <2>1. dust[i] \in DustLot /\ i \in Int /\ QuantityOf(dust)[i] = dust[i].quantity
        BY <1>1, <1>2 DEF WellFormed, DustOK, QuantityOf
    <2>2. QED BY <2>1, LedgerAssumption DEF DustLot, Time
<1>4. \A i \in S : Older(i, S) \in SUBSET S /\ i \notin Older(i, S)
    BY <1>3 DEF Older
<1>5. \A i \in S : Total(Older(i, S), QuantityOf(dust), MaxCapital) \in Nat
    BY <1>1, <1>3, <1>4, TotalNat
<1>6. QED BY <1>1, <1>2, <1>3, <1>4, <1>5

\* If lot i gives anything, an older lot j has given all it had.
LEMMA OlderIsUsedUp ==
    ASSUME WellFormed, NEW S \in SUBSET DOMAIN dust, NEW quantity \in Nat, NEW i \in S, NEW j \in S,
           dust[j].created < dust[i].created, Taken(i, S, quantity) > 0
    PROVE  Taken(j, S, quantity) = dust[j].quantity
<1> DEFINE ahead(k) == Total(Older(k, S), QuantityOf(dust), MaxCapital)
<1>1. /\ S \subseteq 1..MaxCapital /\ MaxCapital \in Nat
      /\ \A k \in S : /\ k \in Int /\ dust[k].created \in Int
                      /\ QuantityOf(dust)[k] = dust[k].quantity
                      /\ dust[k].quantity \in Nat /\ dust[k].quantity > 0
      /\ \A k \in S : Older(k, S) \in SUBSET S /\ k \notin Older(k, S)
      /\ ahead(i) \in Nat /\ ahead(j) \in Nat
    BY LotsTyped
<1>2. Older(j, S) \in SUBSET Older(i, S) /\ j \in Older(i, S)
    BY <1>1 DEF Older
<1>3. ahead(j) + QuantityOf(dust)[j] <= ahead(i)
    <2>1. \A k \in Older(i, S) : QuantityOf(dust)[k] \in Nat
        BY <1>1
    <2>2. j \in 1..MaxCapital /\ j \notin Older(j, S)
        BY <1>1
    <2>3. QED BY <1>1, <1>2, <2>1, <2>2, TotalRoom
<1>4. QuantityOf(dust)[j] = dust[j].quantity /\ dust[j].quantity \in Nat
    BY <1>1
<1>5. /\ Taken(i, S, quantity) = IF quantity - ahead(i) <= 0 THEN 0
                                 ELSE IF quantity - ahead(i) < dust[i].quantity
                                      THEN quantity - ahead(i) ELSE dust[i].quantity
      /\ Taken(j, S, quantity) = IF quantity - ahead(j) <= 0 THEN 0
                                 ELSE IF quantity - ahead(j) < dust[j].quantity
                                      THEN quantity - ahead(j) ELSE dust[j].quantity
    BY DEF Taken
<1>6. ahead(i) \in Nat /\ ahead(j) \in Nat
    BY <1>1
<1> HIDE DEF ahead
<1>7. quantity - ahead(i) > 0
    BY <1>5, <1>6
<1>8. QED BY <1>3, <1>4, <1>5, <1>6, <1>7

\* What a consumption leaves of a lot.
LEMMA WhatIsLeft ==
    ASSUME WellFormed, NEW S \in SUBSET DOMAIN dust, NEW quantity \in Nat, dust' = Consumed(S, quantity)
    PROVE  /\ DOMAIN dust' \subseteq DOMAIN dust
           /\ \A i \in DOMAIN dust' : dust'[i].asset = dust[i].asset
           /\ \A i \in S : /\ i \in DOMAIN dust' => dust'[i].quantity = dust[i].quantity - Taken(i, S, quantity)
                           /\ i \notin DOMAIN dust' => Taken(i, S, quantity) = dust[i].quantity
                           /\ Taken(i, S, quantity) = dust[i].quantity => i \notin DOMAIN dust'
           /\ \A i \in DOMAIN dust \ S : i \in DOMAIN dust' /\ dust'[i].quantity = dust[i].quantity
<1> DEFINE taken(i) == IF i \in S THEN Taken(i, S, quantity) ELSE 0
           kept == {i \in DOMAIN dust : dust[i].quantity > taken(i)}
<1>1. dust' = [i \in kept |-> [dust[i] EXCEPT !.quantity = @ - taken(i), !.cost = @ - TakenCost(i, S, quantity)]]
    BY DEF Consumed
<1>2. \A i \in DOMAIN dust : /\ dust[i] \in DustLot /\ dust[i].quantity \in Nat /\ dust[i].quantity > 0
                             /\ taken(i) \in 0..dust[i].quantity
    <2> SUFFICES ASSUME NEW i \in DOMAIN dust
                 PROVE  /\ dust[i] \in DustLot /\ dust[i].quantity \in Nat /\ dust[i].quantity > 0
                        /\ taken(i) \in 0..dust[i].quantity
        OBVIOUS
    <2>1. dust[i] \in DustLot /\ dust[i].quantity \in Nat /\ dust[i].quantity > 0
        BY LotsTyped
    <2>2. i \in S => Taken(i, S, quantity) \in 0..dust[i].quantity
        BY TakenBounds
    <2>3. QED BY <2>1, <2>2
<1> HIDE DEF taken
<1>3. /\ DOMAIN dust' = kept
      /\ \A i \in kept : /\ dust'[i].asset = dust[i].asset
                         /\ dust'[i].quantity = dust[i].quantity - taken(i)
    BY <1>1, <1>2 DEF DustLot
<1>4. \A i \in DOMAIN dust : i \notin kept => taken(i) = dust[i].quantity
    BY <1>2
<1>5. \A i \in DOMAIN dust : taken(i) = dust[i].quantity => i \notin kept
    BY <1>2
<1>6. \A i \in DOMAIN dust \ S : taken(i) = 0
    BY DEF taken
<1>7. \A i \in DOMAIN dust \ S : i \in kept /\ dust[i].quantity - taken(i) = dust[i].quantity
    BY <1>2, <1>6
<1>8. \A i \in S : taken(i) = Taken(i, S, quantity)
    BY DEF taken
<1>9. kept \subseteq DOMAIN dust
    OBVIOUS
<1> HIDE DEF kept
<1>10. QED BY <1>3, <1>4, <1>5, <1>7, <1>8, <1>9

\* DustLedger.consume serves the lots of a pair in the order of their age.
LEMMA DustOrderStep ==
    ASSUME IInv, AssetInv, Next
    PROVE  OldestDustFirst
<1>1. \A i \in DOMAIN dust : dust[i].quantity \in Nat
    BY LotsTyped DEF IInv
<1>2. CASE LotsStay
    BY <1>1, <1>2 DEF LotsStay, OldestDustFirst
<1>3. ASSUME NEW pair, NEW now, NEW m, NEW q \in Nat, ReserveAggregatedDust(pair, TradedAsset[pair], q, m, now)
      PROVE  OldestDustFirst
    <2> DEFINE S == Lots(pair, TradedAsset[pair])
    <2>1. S \in SUBSET DOMAIN dust /\ dust' = Consumed(S, q)
        BY <1>3 DEF ReserveAggregatedDust, Lots
    <2>2. SUFFICES ASSUME NEW i \in DOMAIN dust, NEW j \in DOMAIN dust,
                          dust[i].pair = dust[j].pair, dust[j].created < dust[i].created,
                          i \in DOMAIN dust' => dust'[i].quantity < dust[i].quantity
                   PROVE  j \notin DOMAIN dust'
        BY DEF OldestDustFirst
    <2>3. i \in S => j \in S
        BY <2>2 DEF Lots, AssetInv
    <2> HIDE DEF S
    <2>4. i \in S
        <3>1. CASE i \notin S
            <4>1. i \in DOMAIN dust' /\ dust'[i].quantity = dust[i].quantity
                BY <2>1, <3>1, WhatIsLeft DEF IInv
            <4>2. QED BY <1>1, <2>2, <4>1
        <3>2. QED BY <3>1
    <2>5. Taken(i, S, q) > 0
        <3>1. Taken(i, S, q) \in 0..dust[i].quantity /\ dust[i].quantity > 0 /\ dust[i].quantity \in Nat
            BY <2>1, <2>4, TakenBounds, LotsTyped DEF IInv
        <3>2. \/ Taken(i, S, q) = dust[i].quantity
              \/ dust[i].quantity - Taken(i, S, q) < dust[i].quantity
            BY <2>1, <2>2, <2>4, WhatIsLeft DEF IInv
        <3>3. QED BY <3>1, <3>2
    <2>6. Taken(j, S, q) = dust[j].quantity
        BY <2>1, <2>2, <2>3, <2>4, <2>5, OlderIsUsedUp DEF IInv
    <2>7. QED BY <2>1, <2>3, <2>4, <2>6, WhatIsLeft DEF IInv
<1>4. QED BY <1>2, <1>3, LotsStayOrAreConsumed

-----------------------------------------------------------------------------
(* Every unit of an asset is counted.                                      *)

\* What AssetsMoveOnlyByFills says of one asset.
MovesByFills(a) ==
    LET before == Held(positions, dust, a)
        after  == Held(positions', dust', a)
    IN  /\ after > before => Held(positions', dust', USDT) < Held(positions, dust, USDT)
        /\ after < before =>
               \E i \in DOMAIN positions :
                   /\ positions[i].state = "RETURN"
                   /\ before - after = HeldOf(positions, dust, i, a) - HeldOf(positions', dust', i, a)

HeldBy(P, D, a) == [i \in CapitalId |-> HeldOf(P, D, i, a)]

\* The holdings are numbers, and so are their totals.
LEMMA HeldNat ==
    ASSUME NEW P, NEW D, NEW a,
           \A i \in DOMAIN P : P[i].quantity \in Nat, \A i \in DOMAIN D : D[i].quantity \in Nat
    PROVE  /\ \A i : HeldOf(P, D, i, a) \in Nat
           /\ Held(P, D, a) \in Nat
<1>1. \A i : HeldOf(P, D, i, a) \in Nat
    BY DEF HeldOf
<1>2. \A i \in CapitalId : HeldBy(P, D, a)[i] \in Nat
    BY <1>1 DEF HeldBy
<1>3. Total(CapitalId, HeldBy(P, D, a), MaxCapital) \in Nat
    BY <1>2, TotalNat, AmountsAreNumbers
<1>4. QED BY <1>1, <1>3 DEF Held, HeldBy

\* The holdings of a well-formed book ...
LEMMA HoldingsAreNumbers ==
    ASSUME WellFormed, NEW a
    PROVE  /\ \A i : HeldOf(positions, dust, i, a) \in Nat
           /\ Held(positions, dust, a) \in Nat
<1>1. \A i \in DOMAIN positions : positions[i].quantity \in Nat
    BY PositionsTyped DEF CapitalPosition
<1>2. \A i \in DOMAIN dust : dust[i].quantity \in Nat
    BY LotsTyped
<1>3. QED BY <1>1, <1>2, HeldNat

\* ... and of the one a step leads to.
LEMMA HoldingsAreNumbersNext ==
    ASSUME WellFormed', NEW a
    PROVE  /\ \A i : HeldOf(positions', dust', i, a) \in Nat
           /\ Held(positions', dust', a) \in Nat
<1>1. \A i \in DOMAIN positions' : positions'[i].quantity \in Nat
    BY DEF WellFormed, PositionsOK, PositionOK, CapitalPosition
<1>2. \A i \in DOMAIN dust' : dust'[i].quantity \in Nat
    BY DEF WellFormed, DustOK, DustLot
<1>3. QED BY <1>1, <1>2, HeldNat

\* An asset that no id holds more or less of.
LEMMA HeldSame ==
    ASSUME IInv, NEW a,
           \A i \in CapitalId : HeldOf(positions', dust', i, a) = HeldOf(positions, dust, i, a)
    PROVE  MovesByFills(a)
<1>1. HeldBy(positions', dust', a) = HeldBy(positions, dust, a)
    BY DEF HeldBy
<1>2. Held(positions', dust', a) = Held(positions, dust, a) /\ Held(positions, dust, a) \in Nat
    BY <1>1, HoldingsAreNumbers DEF Held, HeldBy, IInv
<1>3. QED BY <1>2 DEF MovesByFills

\* Only id k holds more or less than before.
LEMMA HeldChange ==
    ASSUME IInv, IInv', NEW a, NEW k \in CapitalId,
           \A i \in CapitalId \ {k} : HeldOf(positions', dust', i, a) = HeldOf(positions, dust, i, a)
    PROVE  Held(positions', dust', a) =
               Held(positions, dust, a) + (HeldOf(positions', dust', k, a) - HeldOf(positions, dust, k, a))
<1> DEFINE f == HeldBy(positions, dust, a)
           g == HeldBy(positions', dust', a)
<1>1. \A i \in CapitalId : f[i] \in Int /\ g[i] \in Int
    BY HoldingsAreNumbers, HoldingsAreNumbersNext DEF HeldBy, IInv
<1>2. \A i \in CapitalId \ {k} : f[i] = g[i]
    BY DEF HeldBy
<1>3. g[k] = HeldOf(positions', dust', k, a) /\ f[k] = HeldOf(positions, dust, k, a)
    BY DEF HeldBy
<1> HIDE DEF f, g
<1>4. Total(CapitalId, g, MaxCapital) = Total(CapitalId, f, MaxCapital) + (g[k] - f[k])
    BY <1>1, <1>2, CapitalChange
<1>5. QED BY <1>3, <1>4 DEF Held, f, g, HeldBy

\* Id k takes over what other ids give up.
LEMMA HeldTransfer ==
    ASSUME IInv, IInv', NEW a, NEW k \in CapitalId, NEW S \in SUBSET (CapitalId \ {k}), NEW e,
           \A i \in S : e[i] \in Int /\ HeldOf(positions', dust', i, a) = HeldOf(positions, dust, i, a) - e[i],
           \A i \in CapitalId \ (S \cup {k}) : HeldOf(positions', dust', i, a) = HeldOf(positions, dust, i, a),
           HeldOf(positions, dust, k, a) = 0,
           HeldOf(positions', dust', k, a) = Total(S, e, MaxCapital)
    PROVE  MovesByFills(a)
<1> DEFINE f == HeldBy(positions, dust, a)
           g == HeldBy(positions', dust', a)
           given == [i \in CapitalId |-> IF i \in S THEN e[i] ELSE 0]
<1>1. \A i \in CapitalId : f[i] \in Int /\ g[i] \in Int /\ given[i] \in Int
    BY HoldingsAreNumbers, HoldingsAreNumbersNext DEF HeldBy, IInv
<1>2. /\ \A i \in CapitalId \ {k} : i \in S => g[i] = f[i] - given[i]
      /\ \A i \in CapitalId \ {k} : i \notin S => g[i] = f[i] /\ given[i] = 0
    BY DEF HeldBy
<1>3. f[k] = 0 /\ given[k] = 0 /\ g[k] = Total(S, e, MaxCapital)
    BY DEF HeldBy
<1>4. Total(S, e, MaxCapital) = Total(CapitalId, given, MaxCapital)
    <2>1. /\ S \in SUBSET CapitalId /\ \A i \in S : e[i] = given[i]
          /\ \A i \in CapitalId \ S : given[i] = 0
        OBVIOUS
    <2> HIDE DEF given
    <2>2. QED BY <2>1, TotalSame, AmountsAreNumbers
<1> HIDE DEF f, g, given
<1>5. \A i \in CapitalId \ {k} : g[i] = f[i] - given[i]
    BY <1>1, <1>2
<1>6. CapitalId \in SUBSET (1..MaxCapital) /\ MaxCapital \in Nat
    BY AmountsAreNumbers DEF CapitalId
<1>7. Total(CapitalId, g, MaxCapital) = Total(CapitalId, f, MaxCapital)
    <2>1. g[k] = Total(CapitalId, given, MaxCapital)
        BY <1>3, <1>4
    <2>2. QED BY <1>1, <1>3, <1>5, <1>6, <2>1, TotalTransfer
<1>8. Held(positions', dust', a) = Held(positions, dust, a) /\ Held(positions, dust, a) \in Nat
    BY <1>7, HoldingsAreNumbers DEF Held, f, g, HeldBy, IInv
<1>9. QED BY <1>8 DEF MovesByFills

\* The operations on one position that neither buy nor sell.
LEMMA UnheldSteps ==
    ASSUME IInv, NEW a, a # USDT, NEW id \in DOMAIN positions, NEW now,
           \/ RequestCancel(id, now) \/ AcknowledgeCancel(id, now)
           \/ ReserveOwnedReturn(id, now) \/ MoveToDust(id, now)
           \/ \E auth \in AuthorizationId, expires \in Time, q \in ExitQuantity, l \in Loss :
                  RegisterRiskExit(auth, id, expires, q, l, now)
           \/ \E m \in Mark : UpdateMark(id, m, now)
    PROVE  MovesByFills(a)
<1>1. positions[id] \in CapitalPosition /\ id \notin DOMAIN dust
    BY PositionsTyped, PositionAt DEF IInv
<1>2. CASE \/ RequestCancel(id, now) \/ ReserveOwnedReturn(id, now)
           \/ \E m \in Mark : UpdateMark(id, m, now)
    <2>1. /\ DOMAIN positions' = DOMAIN positions /\ UNCHANGED dust
          /\ \A i \in DOMAIN positions \ {id} : positions'[i] = positions[i]
          /\ positions'[id].asset = positions[id].asset /\ positions'[id].quantity = positions[id].quantity
        BY <1>1, <1>2 DEF RequestCancel, ReserveOwnedReturn, UpdateMark, CapitalPosition
    <2>2. \A i \in DOMAIN positions : /\ positions'[i].asset = positions[i].asset
                                      /\ positions'[i].quantity = positions[i].quantity
        BY <2>1
    <2>3. \A i \in CapitalId : HeldOf(positions', dust', i, a) = HeldOf(positions, dust, i, a)
        BY <2>1, <2>2 DEF HeldOf
    <2>4. QED BY <2>3, HeldSame
<1>3. CASE \E auth \in AuthorizationId, expires \in Time, q \in ExitQuantity, l \in Loss :
               RegisterRiskExit(auth, id, expires, q, l, now)
    <2>1. UNCHANGED <<positions, dust>>
        BY <1>3 DEF RegisterRiskExit
    <2>2. QED BY <2>1, HeldSame
<1>4. CASE AcknowledgeCancel(id, now)
    <2>1. positions[id].asset = USDT /\ positions' = Without(positions, {id}) /\ UNCHANGED dust
        BY <1>4 DEF AcknowledgeCancel
    <2>2. \A i \in CapitalId : HeldOf(positions', dust', i, a) = HeldOf(positions, dust, i, a)
        BY <2>1 DEF HeldOf, Without
    <2>3. QED BY <2>2, HeldSame
<1>5. CASE MoveToDust(id, now)
    <2>1. PICK lot : /\ positions' = Without(positions, {id}) /\ dust' = With(dust, id, lot)
                     /\ lot.asset = positions[id].asset /\ lot.quantity = positions[id].quantity
        BY <1>5 DEF MoveToDust, ResidualLot
    <2>2. \A i \in CapitalId \ {id} : HeldOf(positions', dust', i, a) = HeldOf(positions, dust, i, a)
        BY <2>1 DEF HeldOf, With, Without
    <2>3. HeldOf(positions', dust', id, a) = HeldOf(positions, dust, id, a)
        <3>1. id \notin DOMAIN positions' /\ id \in DOMAIN dust' /\ dust'[id] = lot
            BY <2>1 DEF With, Without
        <3>2. positions[id].quantity \in Nat
            BY <1>1 DEF CapitalPosition
        <3>3. QED BY <1>1, <2>1, <3>1, <3>2 DEF HeldOf
    <2>4. QED BY <2>2, <2>3, HeldSame
<1>6. QED BY <1>2, <1>3, <1>4, <1>5

\* record_entry_fill uses reserved cash for the inventory it brings.
LEMMA EntryHolds ==
    ASSUME IInv, IInv', NEW a \in Asset \ {USDT}, NEW id \in DOMAIN positions,
           NEW input \in 1..positions[id].cost, NEW quantity \in Nat, NEW m, NEW c, NEW now,
           RecordEntryFill(id, input, quantity, m, c, now)
    PROVE  MovesByFills(a)
<1> DEFINE asset == TradedAsset[positions[id].pair]
           before(b) == Held(positions, dust, b)
           after(b)  == Held(positions', dust', b)
           had(i, b) == HeldOf(positions, dust, i, b)
           has(i, b) == HeldOf(positions', dust', i, b)
<1>1. /\ UNCHANGED dust
      /\ positions[id].asset = USDT /\ positions[id].quantity = positions[id].cost
      /\ positions[id] \in CapitalPosition /\ positions[id].cost \in Nat
      /\ id \in CapitalId /\ id \notin DOMAIN dust
    BY PositionAt DEF RecordEntryFill, HasState, IInv, PositionOK, CapitalPosition
<1>2. asset # USDT /\ input \in Nat /\ input > 0 /\ input <= positions[id].cost
    BY <1>1, AmountsAreNumbers DEF CapitalPosition
<1>3. had(id, USDT) = positions[id].cost /\ had(id, a) = 0
    BY <1>1 DEF HeldOf
<1>4. \A b : before(b) \in Nat /\ after(b) \in Nat
    BY HoldingsAreNumbers, HoldingsAreNumbersNext DEF IInv
<1>5. \A i, b : had(i, b) \in Nat /\ has(i, b) \in Nat
    BY HoldingsAreNumbers, HoldingsAreNumbersNext DEF IInv
<1> HIDE DEF asset
<1>6. ASSUME after(USDT) < before(USDT), after(a) >= before(a) PROVE MovesByFills(a)
    BY <1>4, <1>6 DEF MovesByFills
<1>7. CASE positions' = FullEntryPositions(id, quantity, m, c) /\ input = positions[id].cost
    <2>1. /\ DOMAIN positions' = DOMAIN positions
          /\ \A i \in DOMAIN positions \ {id} : positions'[i] = positions[i]
          /\ positions'[id].asset = asset
        BY <1>1, <1>7 DEF FullEntryPositions, CapitalPosition, asset
    <2>2. \A b : \A i \in CapitalId \ {id} : has(i, b) = had(i, b)
        BY <1>1, <2>1 DEF HeldOf
    <2>3. has(id, USDT) = 0
        BY <1>1, <1>2, <2>1 DEF HeldOf
    <2>4. \A b : after(b) = before(b) + (has(id, b) - had(id, b))
        BY <1>1, <2>2, HeldChange
    <2> HIDE DEF before, after, had, has
    <2>5. after(USDT) = before(USDT) + (has(id, USDT) - had(id, USDT))
        BY <2>4
    <2>6. after(a) = before(a) + (has(id, a) - had(id, a))
        BY <2>4
    <2>7. after(USDT) < before(USDT) /\ after(a) >= before(a)
        BY <1>1, <1>2, <1>3, <1>4, <1>5, <1>7, <2>3, <2>5, <2>6
    <2>8. QED BY <1>6, <2>7
<1>8. CASE NextId \in CapitalId /\ positions' = PartialEntryPositions(id, input, quantity, m, c)
    <2> DEFINE left == positions[id].cost - input
               P == [positions EXCEPT ![id].cost = left, ![id].marked = left, ![id].quantity = left]
               p == FreshPosition(positions[id].pair, "INVENTORY", asset, input, quantity * m, quantity, c)
    <2>1. /\ DOMAIN P = DOMAIN positions
          /\ \A i \in DOMAIN positions \ {id} : P[i] = positions[i]
          /\ P[id].asset = USDT /\ P[id].quantity = left
        BY <1>1 DEF CapitalPosition
    <2>2. positions' = With(P, NextId, p)
        BY <1>8 DEF PartialEntryPositions, PartialEntryFrom, asset
    <2>3. p.asset = asset
        BY DEF FreshPosition
    <2>4. NextId \notin DOMAIN positions /\ NextId \notin DOMAIN dust
        BY <1>8, NextIdIsFresh DEF IInv
    <2> HIDE DEF P, p
    <2>5. /\ DOMAIN positions' = DOMAIN positions \cup {NextId}
          /\ \A i \in DOMAIN positions \ {id} : positions'[i] = positions[i]
          /\ positions'[NextId] = p
          /\ positions'[id].asset = USDT /\ positions'[id].quantity = left
        BY <2>1, <2>2, <2>4 DEF With
    <2>6. /\ \A b : \A i \in CapitalId \ {id, NextId} : has(i, b) = had(i, b)
          /\ has(NextId, USDT) = 0 /\ had(NextId, USDT) = 0 /\ had(NextId, a) = 0
          /\ has(id, USDT) = left /\ has(id, a) = 0
        BY <1>1, <1>2, <2>3, <2>4, <2>5 DEF HeldOf
    <2>7. after(USDT) = before(USDT) + (has(id, USDT) - had(id, USDT))
        <3>1. \A i \in CapitalId \ {id} : has(i, USDT) = had(i, USDT)
            BY <2>6
        <3>2. QED BY <1>1, <3>1, HeldChange
    <2>8. after(a) = before(a) + (has(NextId, a) - had(NextId, a))
        <3>1. \A i \in CapitalId \ {NextId} : has(i, a) = had(i, a)
            BY <1>3, <2>6
        <3>2. QED BY <1>8, <3>1, HeldChange
    <2> HIDE DEF before, after, had, has
    <2>9. after(USDT) < before(USDT) /\ after(a) >= before(a)
        BY <1>1, <1>2, <1>3, <1>4, <1>5, <2>6, <2>7, <2>8
    <2>10. QED BY <1>6, <2>9
<1>9. QED BY <1>7, <1>8 DEF RecordEntryFill

\* settle_return takes from the books what the capital it settles has sold.
LEMMA SettlementHolds ==
    ASSUME IInv, IInv', NEW a, NEW id \in DOMAIN positions, NEW cycle, NEW auth, NEW now,
           NEW sold \in 1..positions[id].quantity, NEW proceeds,
           Settles(id, cycle, sold, proceeds, auth, now)
    PROVE  MovesByFills(a)
<1> DEFINE p == positions[id]
           r == Returned(p, sold, proceeds)
<1>1. p \in CapitalPosition /\ id \in CapitalId /\ id \notin DOMAIN dust /\ p.quantity \in Nat
    BY PositionAt DEF IInv, PositionOK, CapitalPosition
<1>2. p.state = "RETURN"
    BY DEF Settles, SettlePartialReturn, SettleCompleteReturn, SettlementAllowed, HasState
<1>3. r.quantity = p.quantity - sold /\ r.asset = p.asset
    BY <1>1 DEF Returned, CapitalPosition
<1>4. /\ \A i \in CapitalId \ {id} : HeldOf(positions', dust', i, a) = HeldOf(positions, dust, i, a)
      /\ HeldOf(positions', dust', id, a) <= HeldOf(positions, dust, id, a)
    <2>1. HeldOf(positions, dust, id, a) = IF p.asset = a THEN p.quantity ELSE 0
        BY <1>1 DEF HeldOf
    <2>2. CASE SettlePartialReturn(id, cycle, sold, proceeds, auth, now)
        <3> DEFINE kept == [r EXCEPT !.marked = r.quantity * assetMarks[r.asset], !.pendingCycle = cycle]
        <3>1. positions' = [positions EXCEPT ![id] = kept] /\ UNCHANGED dust
            BY <2>2 DEF SettlePartialReturn
        <3>2. kept.quantity = p.quantity - sold /\ kept.asset = p.asset
            BY <1>1 DEF Returned, CapitalPosition
        <3> HIDE DEF kept
        <3>3. /\ \A i \in CapitalId \ {id} : HeldOf(positions', dust', i, a) = HeldOf(positions, dust, i, a)
              /\ HeldOf(positions', dust', id, a) = IF p.asset = a THEN p.quantity - sold ELSE 0
            BY <1>1, <3>1, <3>2 DEF HeldOf
        <3>4. QED BY <1>1, <2>1, <3>3
    <2>3. CASE SettleCompleteReturn(id, cycle, sold, proceeds, auth, now)
        <3> HIDE DEF r
        <3>1. /\ positions' = Without(positions, {id})
              /\ \/ UNCHANGED dust
                 \/ \E lot : /\ dust' = With(dust, id, lot)
                             /\ lot.asset = p.asset /\ lot.quantity = r.quantity
            BY <2>3 DEF SettleCompleteReturn, ResidualLot, r
        <3>2. \A i \in CapitalId \ {id} : HeldOf(positions', dust', i, a) = HeldOf(positions, dust, i, a)
            BY <3>1 DEF HeldOf, With, Without
        <3>3. \/ HeldOf(positions', dust', id, a) = 0
              \/ HeldOf(positions', dust', id, a) = IF p.asset = a THEN p.quantity - sold ELSE 0
            BY <1>1, <1>3, <3>1 DEF HeldOf, With, Without
        <3>4. QED BY <1>1, <2>1, <3>2, <3>3
    <2>4. QED BY <2>2, <2>3 DEF Settles
<1>5. Held(positions', dust', a) =
          Held(positions, dust, a) + (HeldOf(positions', dust', id, a) - HeldOf(positions, dust, id, a))
    BY <1>1, <1>4, HeldChange
<1>6. /\ Held(positions, dust, a) \in Nat
      /\ HeldOf(positions', dust', id, a) \in Nat /\ HeldOf(positions, dust, id, a) \in Nat
    BY HoldingsAreNumbers, HoldingsAreNumbersNext DEF IInv
<1>7. ~ (Held(positions', dust', a) > Held(positions, dust, a))
    BY <1>4, <1>5, <1>6
<1>8. Held(positions, dust, a) - Held(positions', dust', a) =
          HeldOf(positions, dust, id, a) - HeldOf(positions', dust', id, a)
    BY <1>5, <1>6
<1>9. QED BY <1>2, <1>7, <1>8 DEF MovesByFills

\* consolidate_inventory adds the quantities up.
LEMMA ConsolidationHolds ==
    ASSUME IInv, IInv', NEW a, NEW ids \in SUBSET DOMAIN positions, NEW pair, NEW asset, NEW now,
           ConsolidateInventory(ids, pair, asset, now)
    PROVE  MovesByFills(a)
<1>1. NextId \in CapitalId /\ UNCHANGED dust /\ \A i \in ids : positions[i].asset = asset
    BY DEF ConsolidateInventory
<1>2. PICK p : /\ positions' = With(Without(positions, ids), NextId, p)
               /\ p.asset = asset /\ p.quantity = Total(ids, QuantityOf(positions), MaxCapital)
    BY DEF ConsolidateInventory, FreshPosition
<1>3. NextId \notin DOMAIN positions /\ NextId \notin DOMAIN dust
    BY <1>1, NextIdIsFresh DEF IInv
<1>4. \A i \in ids : /\ i \in CapitalId /\ i \notin DOMAIN dust
                     /\ positions[i].quantity \in Nat /\ QuantityOf(positions)[i] = positions[i].quantity
    BY PositionAt DEF IInv, PositionOK, CapitalPosition, QuantityOf
<1>5. /\ DOMAIN positions' = (DOMAIN positions \ ids) \cup {NextId}
      /\ \A i \in DOMAIN positions \ ids : positions'[i] = positions[i]
      /\ positions'[NextId] = p
    BY <1>2, <1>3 DEF With, Without
<1>6. ids \in SUBSET (CapitalId \ {NextId})
    BY <1>3, <1>4
<1>7. Total(ids, QuantityOf(positions), MaxCapital) \in Nat
    BY <1>4, TotalNat, AmountsAreNumbers
<1>8. \A i \in CapitalId \ (ids \cup {NextId}) :
          HeldOf(positions', dust', i, a) = HeldOf(positions, dust, i, a)
    BY <1>1, <1>5 DEF HeldOf
<1>9. HeldOf(positions, dust, NextId, a) = 0
    BY <1>3 DEF HeldOf
<1>10. CASE a = asset
    <2> DEFINE e == QuantityOf(positions)
    <2>1. \A i \in ids : /\ e[i] \in Int
                         /\ HeldOf(positions', dust', i, a) = HeldOf(positions, dust, i, a) - e[i]
        BY <1>1, <1>3, <1>4, <1>5, <1>10 DEF HeldOf
    <2>2. HeldOf(positions', dust', NextId, a) = Total(ids, e, MaxCapital)
        BY <1>1, <1>2, <1>3, <1>5, <1>7, <1>10 DEF HeldOf
    <2> HIDE DEF e
    <2>3. QED BY <1>1, <1>6, <1>8, <1>9, <2>1, <2>2, HeldTransfer
<1>11. CASE a # asset
    <2>1. \A i \in ids \cup {NextId} : HeldOf(positions', dust', i, a) = HeldOf(positions, dust, i, a)
        BY <1>1, <1>2, <1>3, <1>4, <1>5, <1>11 DEF HeldOf
    <2>2. \A i \in CapitalId : HeldOf(positions', dust', i, a) = HeldOf(positions, dust, i, a)
        BY <1>8, <2>1
    <2>3. QED BY <2>2, HeldSame
<1>12. QED BY <1>10, <1>11

\* The lots of a consumption are served in turn: those created earlier come
\* first, and of one time those with the smaller id.
LEMMA LotsInTurn ==
    ASSUME WellFormed, NEW S \in SUBSET DOMAIN dust, NEW quantity \in Nat
    PROVE  InTurn([i \in S |-> Older(i, S)], S, quantity, QuantityOf(dust),
                  [i \in S |-> Taken(i, S, quantity)], MaxCapital)
<1> DEFINE ahead == [i \in S |-> Older(i, S)]
           t == [i \in S |-> Taken(i, S, quantity)]
<1>1. /\ S \subseteq 1..MaxCapital /\ MaxCapital \in Nat
      /\ \A i \in S : /\ i \in Int /\ dust[i].created \in Int
                      /\ QuantityOf(dust)[i] = dust[i].quantity /\ dust[i].quantity \in Nat
      /\ \A i \in S : Total(Older(i, S), QuantityOf(dust), MaxCapital) \in Nat
    BY LotsTyped
<1>2. IsOrder(ahead, S)
    <2>1. \A i \in S : ahead[i] \in SUBSET S /\ i \notin ahead[i]
        BY LotsTyped
    <2>2. \A i, j \in S : i \in ahead[j] <=> \/ dust[i].created < dust[j].created
                                             \/ dust[i].created = dust[j].created /\ i < j
        BY DEF Older
    <2> HIDE DEF ahead
    <2>3. \A i, j \in S : i # j => i \in ahead[j] \/ j \in ahead[i]
        BY <1>1, <2>2
    <2>4. \A i, j \in S : i \in ahead[j] => ahead[i] \in SUBSET ahead[j]
        BY <1>1, <2>1, <2>2
    <2>5. QED BY <2>1, <2>3, <2>4 DEF IsOrder
<1>3. \A i \in S : t[i] = Clamp(quantity - Total(ahead[i], QuantityOf(dust), MaxCapital), QuantityOf(dust)[i])
    <2> SUFFICES ASSUME NEW i \in S
                 PROVE  t[i] = Clamp(quantity - Total(ahead[i], QuantityOf(dust), MaxCapital), QuantityOf(dust)[i])
        OBVIOUS
    <2> DEFINE left == quantity - Total(Older(i, S), QuantityOf(dust), MaxCapital)
    <2>1. t[i] = IF left <= 0 THEN 0 ELSE IF left < dust[i].quantity THEN left ELSE dust[i].quantity
        BY DEF Taken
    <2>2. left \in Int /\ dust[i].quantity \in Nat /\ QuantityOf(dust)[i] = dust[i].quantity
        BY <1>1
    <2>3. ahead[i] = Older(i, S)
        OBVIOUS
    <2> HIDE DEF left, t, ahead
    <2>4. t[i] = Clamp(left, dust[i].quantity)
        BY <2>1, <2>2 DEF Clamp
    <2>5. QED BY <2>2, <2>3, <2>4 DEF left
<1>4. \A i \in S : QuantityOf(dust)[i] \in Nat
    BY <1>1
<1> HIDE DEF ahead, t
<1>5. InTurn(ahead, S, quantity, QuantityOf(dust), t, MaxCapital)
    BY <1>1, <1>2, <1>3, <1>4 DEF InTurn
<1>6. QED BY <1>5 DEF ahead, t

\* Together they give up exactly what is asked for, if they have it.
LEMMA AllIsTaken ==
    ASSUME WellFormed, NEW S \in SUBSET DOMAIN dust, NEW quantity \in Nat,
           quantity <= Total(S, QuantityOf(dust), MaxCapital)
    PROVE  Total(S, [i \in S |-> Taken(i, S, quantity)], MaxCapital) = quantity
<1>1. Total(S, [i \in S |-> Taken(i, S, quantity)], MaxCapital)
          = Clamp(quantity, Total(S, QuantityOf(dust), MaxCapital))
    <2> DEFINE ahead == [i \in S |-> Older(i, S)]
               t == [i \in S |-> Taken(i, S, quantity)]
    <2>1. InTurn(ahead, S, quantity, QuantityOf(dust), t, MaxCapital)
        BY LotsInTurn
    <2>2. quantity \in Int /\ MaxCapital \in Nat
        BY AmountsAreNumbers
    <2> HIDE DEF ahead, t
    <2>3. Total(S, t, MaxCapital) = Clamp(quantity, Total(S, QuantityOf(dust), MaxCapital))
        BY <2>1, <2>2, ServedInOrder
    <2>4. QED BY <2>3 DEF t
<1>2. Total(S, QuantityOf(dust), MaxCapital) \in Nat
    <2>1. \A i \in S : QuantityOf(dust)[i] \in Nat
        BY LotsTyped
    <2>2. QED BY <2>1, TotalNat, AmountsAreNumbers
<1>3. Clamp(quantity, Total(S, QuantityOf(dust), MaxCapital)) = quantity
    BY <1>2 DEF Clamp
<1>4. QED BY <1>1, <1>3

\* reserve_aggregated_dust: what the lots give up is what the new return has.
LEMMA AggregationHolds ==
    ASSUME IInv, IInv', NEW a, NEW pair, NEW asset, NEW quantity \in Nat, NEW mark, NEW now,
           ReserveAggregatedDust(pair, asset, quantity, mark, now)
    PROVE  MovesByFills(a)
<1> DEFINE S == Lots(pair, asset)
           e == [i \in S |-> Taken(i, S, quantity)]
<1>1. /\ NextId \in CapitalId /\ S \in SUBSET DOMAIN dust /\ dust' = Consumed(S, quantity)
      /\ quantity <= Total(S, QuantityOf(dust), MaxCapital)
      /\ \A i \in S : dust[i].asset = asset
    BY DEF ReserveAggregatedDust, Lots
<1>2. PICK p : positions' = With(positions, NextId, p) /\ p.asset = asset /\ p.quantity = quantity
    <2>1. \E c, k : positions' = With(positions, NextId,
                                      FreshPosition(pair, "RETURN", asset, c, k, quantity, 0))
        BY DEF ReserveAggregatedDust
    <2>2. PICK c, k : positions' = With(positions, NextId,
                                        FreshPosition(pair, "RETURN", asset, c, k, quantity, 0))
        BY <2>1
    <2>3. /\ FreshPosition(pair, "RETURN", asset, c, k, quantity, 0).asset = asset
          /\ FreshPosition(pair, "RETURN", asset, c, k, quantity, 0).quantity = quantity
        BY DEF FreshPosition
    <2>4. QED BY <2>2, <2>3
<1>3. NextId \notin DOMAIN positions /\ NextId \notin DOMAIN dust
    BY <1>1, NextIdIsFresh DEF IInv
<1>4. /\ DOMAIN positions' = DOMAIN positions \cup {NextId}
      /\ \A i \in DOMAIN positions : positions'[i] = positions[i]
      /\ positions'[NextId] = p
    BY <1>2, <1>3 DEF With
<1> HIDE DEF S
<1>5. \A i \in S : /\ i \in CapitalId /\ i \notin DOMAIN positions /\ i # NextId
                   /\ dust[i].quantity \in Nat /\ e[i] \in 0..dust[i].quantity
    <2>1. \A i \in S : dust[i].quantity \in Nat /\ i \in CapitalId
        BY <1>1, LotsTyped DEF IInv, CapitalId
    <2>2. \A i \in S : e[i] \in 0..dust[i].quantity
        BY <1>1, TakenBounds DEF IInv
    <2>3. \A i \in S : i \notin DOMAIN positions /\ i # NextId
        BY <1>1, <1>3 DEF IInv, WellFormed
    <2>4. QED BY <2>1, <2>2, <2>3
<1>6. /\ DOMAIN dust' \subseteq DOMAIN dust
      /\ \A i \in DOMAIN dust' : dust'[i].asset = dust[i].asset
      /\ \A i \in S : /\ i \in DOMAIN dust' => dust'[i].quantity = dust[i].quantity - e[i]
                      /\ i \notin DOMAIN dust' => e[i] = dust[i].quantity
      /\ \A i \in DOMAIN dust \ S : i \in DOMAIN dust' /\ dust'[i].quantity = dust[i].quantity
    BY <1>1, WhatIsLeft DEF IInv
<1>7. Total(S, e, MaxCapital) = quantity
    BY <1>1, AllIsTaken DEF IInv
<1> HIDE DEF e
<1>8. S \in SUBSET (CapitalId \ {NextId})
    BY <1>5
<1>9. \A i \in CapitalId \ (S \cup {NextId}) :
          HeldOf(positions', dust', i, a) = HeldOf(positions, dust, i, a)
    BY <1>4, <1>6 DEF HeldOf
<1>10. HeldOf(positions, dust, NextId, a) = 0 /\ NextId \notin DOMAIN dust'
    BY <1>3, <1>6 DEF HeldOf
<1>11. CASE a = asset
    <2>1. \A i \in S : /\ e[i] \in Int
                       /\ HeldOf(positions', dust', i, a) = HeldOf(positions, dust, i, a) - e[i]
        <3> SUFFICES ASSUME NEW i \in S
                     PROVE  /\ e[i] \in Int
                            /\ HeldOf(positions', dust', i, a) = HeldOf(positions, dust, i, a) - e[i]
            OBVIOUS
        <3>1. /\ i \notin DOMAIN positions /\ i \notin DOMAIN positions' /\ i \in DOMAIN dust
              /\ dust[i].asset = a /\ dust[i].quantity \in Nat /\ e[i] \in Nat
            BY <1>1, <1>4, <1>5, <1>11
        <3>2. HeldOf(positions, dust, i, a) = dust[i].quantity
            BY <3>1 DEF HeldOf
        <3>3. HeldOf(positions', dust', i, a) = dust[i].quantity - e[i]
            <4>1. CASE i \in DOMAIN dust'
                BY <1>6, <3>1, <4>1 DEF HeldOf
            <4>2. CASE i \notin DOMAIN dust'
                BY <1>6, <3>1, <4>2 DEF HeldOf
            <4>3. QED BY <4>1, <4>2
        <3>4. QED BY <3>1, <3>2, <3>3
    <2>2. HeldOf(positions', dust', NextId, a) = Total(S, e, MaxCapital)
        BY <1>2, <1>4, <1>7, <1>10, <1>11 DEF HeldOf
    <2>3. QED BY <1>1, <1>8, <1>9, <1>10, <2>1, <2>2, HeldTransfer
<1>12. CASE a # asset
    <2>1. \A i \in S \cup {NextId} : HeldOf(positions', dust', i, a) = HeldOf(positions, dust, i, a)
        BY <1>1, <1>2, <1>4, <1>5, <1>6, <1>10, <1>12 DEF HeldOf
    <2>2. \A i \in CapitalId : HeldOf(positions', dust', i, a) = HeldOf(positions, dust, i, a)
        BY <1>9, <2>1
    <2>3. QED BY <2>2, HeldSame
<1>13. QED BY <1>11, <1>12

\* reserve and update_asset_mark touch no holding but cash.
LEMMA ReserveAndMarkHold ==
    ASSUME IInv, NEW a, a # USDT, NEW now,
           \/ \E pair \in Pair, amount \in Grant : Reserve(pair, amount, now)
           \/ \E asset, m : UpdateAssetMark(asset, m, now)
    PROVE  MovesByFills(a)
<1>1. ASSUME NEW pair, NEW amount, Reserve(pair, amount, now) PROVE MovesByFills(a)
    <2>1. PICK p : p.asset = USDT /\ positions' = With(positions, NextId, p)
        BY <1>1 DEF Reserve, FreshPosition
    <2>2. NextId \notin DOMAIN positions /\ UNCHANGED dust
        BY <1>1, NextIdIsFresh DEF IInv, Reserve
    <2>3. \A i \in CapitalId : HeldOf(positions', dust', i, a) = HeldOf(positions, dust, i, a)
        BY <2>1, <2>2 DEF HeldOf, With
    <2>4. QED BY <2>3, HeldSame
<1>2. ASSUME NEW asset, NEW m, UpdateAssetMark(asset, m, now) PROVE MovesByFills(a)
    <2>1. /\ DOMAIN positions' = DOMAIN positions /\ UNCHANGED dust
          /\ \A i \in DOMAIN positions : /\ positions'[i].asset = positions[i].asset
                                         /\ positions'[i].quantity = positions[i].quantity
        BY <1>2, PositionsTyped DEF UpdateAssetMark, CapitalPosition, IInv
    <2>2. \A i \in CapitalId : HeldOf(positions', dust', i, a) = HeldOf(positions, dust, i, a)
        BY <2>1 DEF HeldOf
    <2>3. QED BY <2>2, HeldSame
<1>3. QED BY <1>1, <1>2

\* Every step moves an asset only by a fill.
LEMMA HoldingsStep ==
    ASSUME IInv, IInv', Next
    PROVE  AssetsMoveOnlyByFills
<1> SUFFICES ASSUME NEW a \in Asset \ {USDT} PROVE MovesByFills(a)
    BY DEF AssetsMoveOnlyByFills, MovesByFills
<1>1. ASSUME NEW now, NEW id \in DOMAIN positions, OnePosition(id, now)
      PROVE  MovesByFills(a)
    <2>1. ASSUME NEW input \in 1..positions[id].cost, NEW gain \in EntryGain, NEW m, NEW c, input + gain > 0,
                 RecordEntryFill(id, input, input + gain, m, c, now)
          PROVE  MovesByFills(a)
        <3> DEFINE quantity == input + gain
        <3>1. quantity \in Nat
            <4>1. input \in Int /\ gain \in Int
                BY LedgerAssumption
            <4>2. QED BY <2>1, <4>1
        <3>2. RecordEntryFill(id, input, quantity, m, c, now)
            BY <2>1
        <3> HIDE DEF quantity
        <3>3. QED BY <3>1, <3>2, EntryHolds
    <2>2. ASSUME NEW cycle, NEW sold \in 1..positions[id].quantity, NEW proceeds, NEW auth,
                 Settles(id, cycle, sold, proceeds, auth, now)
          PROVE  MovesByFills(a)
        BY <2>2, SettlementHolds
    <2>3. QED BY <1>1, <2>1, <2>2, UnheldSteps DEF OnePosition
<1>2. ASSUME NEW now, NEW ids \in SUBSET DOMAIN positions, NEW pair, NEW asset,
             ConsolidateInventory(ids, pair, asset, now)
      PROVE  MovesByFills(a)
    BY <1>2, ConsolidationHolds
<1>3. ASSUME NEW now, NEW pair, NEW asset, NEW mark,
             NEW quantity \in 1..Total(Lots(pair, asset), QuantityOf(dust), MaxCapital),
             ReserveAggregatedDust(pair, asset, quantity, mark, now)
      PROVE  MovesByFills(a)
    <2>1. quantity \in Nat
        OBVIOUS
    <2>2. QED BY <1>3, <2>1, AggregationHolds
<1>4. QED BY <1>1, <1>2, <1>3, ReserveAndMarkHold DEF Next, OnePosition, Settles

\* Dust is consumed oldest first; and an asset comes onto the books only for
\* cash and leaves them only by the sale of a return: consolidations, residues,
\* dust moves and aggregations (consolidate_inventory, settle_return,
\* move_untradeable_inventory_to_dust, reserve_aggregated_dust) keep every unit.
THEOREM DustKeepsItsRules == Spec => DustMovesByRule
<1> DEFINE Inv == IInv /\ AssetInv
<1>1. Init => Inv
    BY InitIInv DEF Init, AssetInv, Empty
<1>2. Inv /\ [Next]_vars => Inv'
    BY NextIInv, AssetStep
<1>3. Inv /\ Inv' /\ [Next]_vars => [OldestDustFirst /\ AssetsMoveOnlyByFills]_vars
    BY DustOrderStep, HoldingsStep
<1>4. QED BY <1>1, <1>2, <1>3, PTL DEF Spec, DustMovesByRule
=============================================================================
