-------------------------- MODULE PairEngineProofs --------------------------
(***************************************************************************)
(* That the three authorities PairEngine ties together agree: every order  *)
(* the estimator may fill is funded by a position in the state the fill    *)
(* needs, the grid stands at the hotline, and the pair's inventory is what *)
(* the bank holds; for every grid, lot, price and sequence of calls.       *)
(*                                                                         *)
(* The invariant says of each order what its status means for the queue    *)
(* and the bank (OrderOK), of each position what its state says it holds   *)
(* (PositionOK), and that no two working orders of a role share a capital  *)
(* id (Alone).  It is a predicate of the books rather than of the state,   *)
(* because a trade applies its fills in turn: the books between two fills  *)
(* must be sound as well.                                                  *)
(***************************************************************************)
EXTENDS PairEngine, LedgerArithmeticProofs, FiniteSetTheorems, SequenceTheorems

\* The orders of a pair that has been issued n capital ids.
OrderSet(n) ==
    [side : {"BUY", "SELL"}, rank : Rank \union {0}, column : {1, 2}, price : Nat \ {0},
     role : {"ENTRY", "RETURN"}, quantity : 1..Lot, filled : 0..Lot,
     status : Live \union {"UNFUNDED", "FILLED", "PARTIAL_FILLED", "CANCELLED"},
     capital : 0..n, replacement : Nat, authorized : BOOLEAN]

PositionSet ==
    [state : {"RESERVED", "CANCEL_PENDING", "INVENTORY", "RETURN", "GONE"},
     cash : Nat, quantity : 0..Lot, unit : Nat]

\* A position holds cash or inventory, or nothing once it is gone.
PositionOK(p) ==
    /\ p.state \in {"RESERVED", "CANCEL_PENDING"} => p.quantity = 0
    /\ p.state \in {"INVENTORY", "RETURN"} => p.cash = 0
    /\ p.state = "GONE" => p.cash = 0 /\ p.quantity = 0

\* What is left of the order is there, and in the state its fill asks for.
Backed(o, p) ==
    /\ o.role = "ENTRY" =>
           /\ p.state = IF o.status = "CANCEL_PENDING" THEN "CANCEL_PENDING" ELSE "RESERVED"
           /\ p.cash >= o.price * Left(o)
    /\ o.role = "RETURN" => p.state = "RETURN" /\ p.quantity >= Left(o)

OrderOK(o, queued, P) ==
    /\ Left(o) >= 0
    /\ o.role = "ENTRY" => o.rank \in Rank
    /\ o.capital = None => o.status = "UNFUNDED"
    /\ o.status = "UNFUNDED" =>
           o.role = "ENTRY" /\ o.capital = None /\ o.filled = 0 /\ ~queued
    /\ o.status \in {"ACTIVE", "PARTIAL"} => Left(o) > 0
    /\ o.status = "FILLED" => Left(o) = 0
    /\ o.status \in Live => queued
    /\ queued => o.status \in Live \union {"FILLED"}
    /\ o.status = "CANCEL_PENDING" => o.role = "ENTRY"
    /\ o.status \in Live /\ Left(o) > 0 => Backed(o, P[o.capital])

\* A capital id has one working order of a role.
Alone(O) ==
    \A i, j \in DOMAIN O :
        /\ O[i].status \in Live /\ O[j].status \in Live
        /\ O[i].role = O[j].role /\ O[i].capital = O[j].capital
        => i = j

\* Sound books: orders O, of which those in S stand in the queue, and
\* positions P.
Sound(O, S, P) ==
    /\ O \in Seq(OrderSet(Len(P)))
    /\ P \in Seq(PositionSet)
    /\ \A i \in DOMAIN O : OrderOK(O[i], i \in S, P)
    /\ \A id \in DOMAIN P : PositionOK(P[id])
    /\ Alone(O)

\* The quantities of the positions.
QuantityOf(P) == [id \in DOMAIN P |-> P[id].quantity]
Holds(P) == Total(DOMAIN P, QuantityOf(P), MaxCapital)

QueueOK == queue \in Seq(Nat) /\ IsInjective(queue) /\ Range(queue) \subseteq DOMAIN orders

IInv ==
    /\ hotline \in Hotline \union {None}
    /\ QueueOK
    /\ Sound(orders, Range(queue), positions)
    /\ GridFollowsHotline
    /\ Len(positions) <= MaxCapital
    /\ dust \in Nat
    /\ inventory = dust + Holds(positions)

-----------------------------------------------------------------------------
(* Sequences.                                                              *)

\* A sequence is a function on 1..Len ...
LEMMA SeqMeans ==
    ASSUME NEW S, NEW s \in Seq(S)
    PROVE  /\ Len(s) \in Nat /\ DOMAIN s = 1..Len(s)
           /\ \A i \in DOMAIN s : s[i] \in S
           /\ s = [i \in DOMAIN s |-> s[i]]
OBVIOUS

\* ... and the other way round.
LEMMA IsSequence ==
    ASSUME NEW S, NEW n \in Nat, NEW f \in [1..n -> S]
    PROVE  f \in Seq(S) /\ Len(f) = n
OBVIOUS

\* One element more at the end.
LEMMA AppendMeans ==
    ASSUME NEW S, NEW s \in Seq(S), NEW e \in S
    PROVE  /\ Append(s, e) \in Seq(S)
           /\ DOMAIN Append(s, e) = 1..(Len(s) + 1) /\ Len(Append(s, e)) = Len(s) + 1
           /\ DOMAIN Append(s, e) = DOMAIN s \union {Len(s) + 1} /\ Len(s) + 1 \notin DOMAIN s
           /\ \A i \in DOMAIN s : Append(s, e)[i] = s[i]
           /\ Append(s, e)[Len(s) + 1] = e
OBVIOUS

\* A member of an injective queue that is taken out leaves the others.
LEMMA RemoveAtMeans ==
    ASSUME NEW s \in Seq(Nat), IsInjective(s), NEW k \in DOMAIN s
    PROVE  /\ RemoveAt(s, k) \in Seq(Nat) /\ IsInjective(RemoveAt(s, k))
           /\ Range(RemoveAt(s, k)) = Range(s) \ {s[k]}
<1> DEFINE r == RemoveAt(s, k)
<1>1. Len(s) \in Nat /\ DOMAIN s = 1..Len(s) /\ k \in 1..Len(s) /\ \A i \in 1..Len(s) : s[i] \in Nat
    OBVIOUS
<1>2. /\ SubSeq(s, 1, k - 1) \in Seq(Nat) /\ Len(SubSeq(s, 1, k - 1)) = k - 1
      /\ \A i \in 1..(k - 1) : SubSeq(s, 1, k - 1)[i] = s[i]
    <2>1. 1 \in Int /\ k - 1 \in Int /\ \A i \in 1..(k - 1) : s[i] \in Nat
        BY <1>1
    <2> DEFINE t == SubSeq(s, 1, k - 1)
    <2>2. /\ t \in Seq(Nat)
          /\ Len(t) = IF 1 <= k - 1 THEN k - 1 - 1 + 1 ELSE 0
          /\ \A i \in 1..(k - 1 - 1 + 1) : t[i] = s[1 + i - 1]
        BY ONLY <2>1, SubSeqProperties
    <2> HIDE DEF t
    <2>3. t \in Seq(Nat) /\ Len(t) = k - 1 /\ \A i \in 1..(k - 1) : t[i] = s[i]
        <3>1. k \in Int /\ 1 <= k
            BY <1>1
        <3>2. Len(t) = k - 1
            <4>1. Len(t) = IF 1 <= k - 1 THEN k - 1 - 1 + 1 ELSE 0
                BY <2>2
            <4>2. QED BY ONLY <3>1, <4>1
        <3>3. ASSUME NEW i \in 1..(k - 1) PROVE t[i] = s[i]
            <4>1. i \in 1..(k - 1 - 1 + 1) /\ 1 + i - 1 = i
                BY ONLY <3>1, <3>3
            <4>2. QED BY <2>2, <4>1
        <3>4. QED BY <2>2, <3>2, <3>3
    <2>4. QED BY <2>3 DEF t
<1>3. /\ SubSeq(s, k + 1, Len(s)) \in Seq(Nat) /\ Len(SubSeq(s, k + 1, Len(s))) = Len(s) - k
      /\ \A i \in 1..(Len(s) - k) : SubSeq(s, k + 1, Len(s))[i] = s[k + i]
    <2>1. k + 1 \in Int /\ Len(s) \in Int /\ \A i \in (k + 1)..Len(s) : s[i] \in Nat
        BY <1>1
    <2> DEFINE t == SubSeq(s, k + 1, Len(s))
    <2>2. /\ t \in Seq(Nat)
          /\ Len(t) = IF k + 1 <= Len(s) THEN Len(s) - (k + 1) + 1 ELSE 0
          /\ \A i \in 1..(Len(s) - (k + 1) + 1) : t[i] = s[k + 1 + i - 1]
        BY ONLY <2>1, SubSeqProperties
    <2> HIDE DEF t
    <2>3. Len(t) = Len(s) - k
        <3>1. k \in Int /\ k <= Len(s) /\ Len(s) \in Int
            BY <1>1
        <3>2. Len(t) = IF k + 1 <= Len(s) THEN Len(s) - (k + 1) + 1 ELSE 0
            BY <2>2
        <3>3. QED BY ONLY <3>1, <3>2
    <2>4. ASSUME NEW i \in 1..(Len(s) - k) PROVE t[i] = s[k + i]
        <3>1. i \in 1..(Len(s) - (k + 1) + 1) /\ k + 1 + i - 1 = k + i
            BY <1>1
        <3>2. t[i] = s[k + 1 + i - 1]
            BY <2>2, <3>1
        <3>3. QED BY <3>1, <3>2
    <2>5. t \in Seq(Nat) /\ Len(t) = Len(s) - k /\ \A i \in 1..(Len(s) - k) : t[i] = s[k + i]
        BY <2>2, <2>3, <2>4
    <2>6. QED BY <2>5 DEF t
<1>4. /\ r \in Seq(Nat) /\ Len(r) = Len(s) - 1
      /\ \A i \in 1..(Len(s) - 1) : r[i] = IF i < k THEN s[i] ELSE s[i + 1]
    <2> DEFINE a == SubSeq(s, 1, k - 1)
               b == SubSeq(s, k + 1, Len(s))
    <2>1. r = a \o b
        BY DEF RemoveAt
    <2> HIDE DEF a, b, r
    <2>2. a \in Seq(Nat) /\ Len(a) = k - 1 /\ \A i \in 1..(k - 1) : a[i] = s[i]
        BY <1>2 DEF a
    <2>3. b \in Seq(Nat) /\ Len(b) = Len(s) - k /\ \A i \in 1..(Len(s) - k) : b[i] = s[k + i]
        BY <1>3 DEF b
    <2>4. /\ r \in Seq(Nat) /\ Len(r) = Len(s) - 1
          /\ \A i \in 1..(Len(s) - 1) : r[i] = IF i <= k - 1 THEN a[i] ELSE b[i - (k - 1)]
        <3>1. /\ r \in Seq(Nat) /\ Len(r) = Len(a) + Len(b)
              /\ \A i \in 1..(Len(a) + Len(b)) : r[i] = IF i <= Len(a) THEN a[i] ELSE b[i - Len(a)]
            BY <2>1, <2>2, <2>3, ConcatProperties
        <3>2. Len(a) + Len(b) = Len(s) - 1
            BY <1>1, <2>2, <2>3
        <3>3. QED BY <2>2, <3>1, <3>2
    <2>5. ASSUME NEW i \in 1..(Len(s) - 1) PROVE r[i] = IF i < k THEN s[i] ELSE s[i + 1]
        <3>1. CASE i < k
            BY <1>1, <2>2, <2>4, <2>5, <3>1
        <3>2. CASE i >= k
            <4>1. i - (k - 1) \in 1..(Len(s) - k) /\ k + (i - (k - 1)) = i + 1
                BY <1>1, <2>5, <3>2
            <4>2. r[i] = b[i - (k - 1)]
                <5>1. ~(i <= k - 1)
                    BY <1>1, <2>5, <3>2
                <5>2. QED BY <2>4, <2>5, <5>1
            <4>3. b[i - (k - 1)] = s[k + (i - (k - 1))]
                BY <2>3, <4>1
            <4>4. ~(i < k)
                BY <1>1, <2>5, <3>2
            <4>5. QED BY <4>1, <4>2, <4>3, <4>4
        <3>3. QED BY <1>1, <2>5, <3>1, <3>2
    <2>6. QED BY <2>4, <2>5
<1>5. DOMAIN r = 1..(Len(s) - 1)
    BY <1>4
<1> HIDE DEF r
<1>6. IsInjective(r)
    <2> SUFFICES ASSUME NEW i \in DOMAIN r, NEW j \in DOMAIN r, r[i] = r[j] PROVE i = j
        BY DEF IsInjective
    <2>1. \A x, y \in 1..Len(s) : s[x] = s[y] => x = y
        BY <1>1 DEF IsInjective
    <2>2. \A x \in DOMAIN r : \E y \in 1..Len(s) :
              r[x] = s[y] /\ (x < k => y = x) /\ (x >= k => y = x + 1)
        <3> SUFFICES ASSUME NEW x \in DOMAIN r
                     PROVE  \E y \in 1..Len(s) : r[x] = s[y] /\ (x < k => y = x) /\ (x >= k => y = x + 1)
            OBVIOUS
        <3>1. IF x < k THEN x \in 1..Len(s) ELSE x + 1 \in 1..Len(s)
            BY <1>1, <1>5
        <3>2. x \in Int /\ k \in Int
            BY <1>1, <1>5
        <3>3. CASE x < k
            <4>1. r[x] = s[x] /\ x \in 1..Len(s)
                BY <1>4, <1>5, <3>1, <3>3
            <4>2. QED BY <3>2, <3>3, <4>1
        <3>4. CASE ~(x < k)
            <4>1. r[x] = s[x + 1] /\ x + 1 \in 1..Len(s)
                BY <1>4, <1>5, <3>1, <3>4
            <4>2. QED BY <3>2, <3>4, <4>1
        <3>5. QED BY <3>3, <3>4
    <2>3. i \in Int /\ j \in Int /\ k \in Int
        BY <1>1, <1>5
    <2>4. PICK x \in 1..Len(s) : r[i] = s[x] /\ (i < k => x = i) /\ (i >= k => x = i + 1)
        BY <2>2
    <2>5. PICK y \in 1..Len(s) : r[j] = s[y] /\ (j < k => y = j) /\ (j >= k => y = j + 1)
        BY <2>2
    <2>6. x = y
        <3>1. s[x] = s[y]
            BY <2>4, <2>5
        <3>2. QED BY <2>1, <3>1
    <2>7. QED BY ONLY <2>3, <2>4, <2>5, <2>6
<1>7. Range(r) = Range(s) \ {s[k]}
    <2>1. ASSUME NEW i \in DOMAIN r PROVE r[i] \in Range(s) \ {s[k]}
        <3>1. \A x, y \in 1..Len(s) : s[x] = s[y] => x = y
            BY <1>1 DEF IsInjective
        <3>2. \E j \in 1..Len(s) : j # k /\ r[i] = s[j]
            <4>1. IF i < k THEN i \in 1..Len(s) /\ i # k ELSE i + 1 \in 1..Len(s) /\ i + 1 # k
                BY <1>1, <1>5
            <4>2. QED BY <1>4, <1>5, <4>1
        <3>3. QED BY <1>1, <3>1, <3>2 DEF Range
    <2>2. ASSUME NEW j \in DOMAIN s, s[j] # s[k] PROVE \E i \in DOMAIN r : r[i] = s[j]
        <3>1. CASE j < k
            <4>1. j \in DOMAIN r /\ r[j] = s[j]
                BY <1>1, <1>4, <1>5, <3>1
            <4>2. QED BY <4>1
        <3>2. CASE j > k
            <4>1. j - 1 \in DOMAIN r /\ r[j - 1] = s[j]
                BY <1>1, <1>4, <1>5, <3>2
            <4>2. QED BY <4>1
        <3>3. QED BY <1>1, <2>2, <3>1, <3>2
    <2>3. QED BY <2>1, <2>2 DEF Range
<1>8. QED BY <1>4, <1>6, <1>7 DEF r

\* The set of a grid's orders can be numbered (initialize_grid).
LEMMA SetToSeqMeans ==
    ASSUME NEW S, IsFiniteSet(S)
    PROVE  SetToSeq(S) \in Seq(S)
<1>1. PICK n \in Nat : ExistsBijection(1..n, S)
    BY FS_NatBijection
<1>2. Cardinality(S) = n /\ n \in Nat
    BY <1>1, FS_CountingElements
<1>3. PICK f \in Bijection(1..n, S) : TRUE
    BY <1>1 DEF ExistsBijection
<1>4. f \in [1..n -> S] /\ IsInjective(f)
    BY <1>3 DEF Bijection, Injection
<1>5. \E g \in [1..Cardinality(S) -> S] : IsInjective(g)
    BY <1>2, <1>4
<1>6. SetToSeq(S) \in [1..n -> S]
    BY <1>2, <1>5 DEF SetToSeq
<1>7. QED BY <1>2, <1>6

-----------------------------------------------------------------------------
(* Sound books.                                                            *)

\* More capital ids leave every order what it was.
LEMMA OrderSetGrows ==
    ASSUME NEW n \in Nat, NEW m \in Nat, n <= m
    PROVE  OrderSet(n) \subseteq OrderSet(m)
<1>1. 0..n \subseteq 0..m
    OBVIOUS
<1>2. QED BY <1>1 DEF OrderSet

\* The fields of an order ...
LEMMA OrderFields ==
    ASSUME NEW n \in Nat, NEW o \in OrderSet(n)
    PROVE  /\ o.side \in {"BUY", "SELL"} /\ o.role \in {"ENTRY", "RETURN"}
           /\ o.price \in Nat \ {0} /\ o.quantity \in 1..Lot /\ o.filled \in 0..Lot
           /\ o.capital \in 0..n /\ o.replacement \in Nat
           /\ Left(o) \in Int /\ Lot \in Nat
BY PairAssumption DEF OrderSet, Left

\* ... and of a position.
LEMMA PositionFields ==
    ASSUME NEW p \in PositionSet
    PROVE  p.cash \in Nat /\ p.quantity \in 0..Lot /\ p.quantity \in Nat /\ p.unit \in Nat
BY PairAssumption DEF PositionSet

\* What soundness says of one order and of one position.
LEMMA SoundMeans ==
    ASSUME NEW O, NEW S, NEW P, Sound(O, S, P)
    PROVE  /\ Len(P) \in Nat /\ DOMAIN P = 1..Len(P)
           /\ Len(O) \in Nat /\ DOMAIN O = 1..Len(O)
           /\ \A i \in DOMAIN O : O[i] \in OrderSet(Len(P)) /\ OrderOK(O[i], i \in S, P)
           /\ \A id \in DOMAIN P : P[id] \in PositionSet /\ PositionOK(P[id])
           /\ \A i \in DOMAIN O : O[i].status \in Live => O[i].capital \in DOMAIN P
<1>1. P \in Seq(PositionSet) /\ O \in Seq(OrderSet(Len(P)))
    BY DEF Sound
<1>2. /\ Len(P) \in Nat /\ DOMAIN P = 1..Len(P) /\ \A id \in DOMAIN P : P[id] \in PositionSet
      /\ Len(O) \in Nat /\ DOMAIN O = 1..Len(O) /\ \A i \in DOMAIN O : O[i] \in OrderSet(Len(P))
    BY <1>1, SeqMeans
<1>3. ASSUME NEW i \in DOMAIN O, O[i].status \in Live
      PROVE  O[i].capital \in DOMAIN P
    <2>1. O[i].capital # None
        BY <1>3 DEF Sound, OrderOK, Live
    <2>2. O[i].capital \in 0..Len(P)
        BY <1>2, OrderFields
    <2>3. QED BY <1>2, <2>1, <2>2 DEF None
<1>4. QED BY <1>2, <1>3 DEF Sound

\* Orders with something left to fill do not share a capital id, whatever
\* their roles: an entry needs cash, a return needs inventory.
LEMMA SoleWorker ==
    ASSUME NEW O, NEW S, NEW P, Sound(O, S, P), NEW i \in DOMAIN O, NEW j \in DOMAIN O,
           O[i].status \in Live, O[j].status \in Live, Left(O[i]) > 0, Left(O[j]) > 0,
           O[i].capital = O[j].capital
    PROVE  i = j
<1>1. Backed(O[i], P[O[i].capital]) /\ Backed(O[j], P[O[i].capital])
    BY DEF Sound, OrderOK
<1>2. O[i].role \in {"ENTRY", "RETURN"} /\ O[j].role \in {"ENTRY", "RETURN"}
    BY SoundMeans, OrderFields
<1>3. O[i].role = O[j].role
    BY <1>1, <1>2 DEF Backed
<1>4. QED BY <1>3 DEF Sound, Alone

\* An order that does not work on the position that changes stays sound.
LEMMA Unaffected ==
    ASSUME NEW o, NEW b, NEW P, NEW PP, OrderOK(o, b, P),
           o.status \in Live /\ Left(o) > 0 => PP[o.capital] = P[o.capital]
    PROVE  OrderOK(o, b, PP)
BY DEF OrderOK

\* The positions PP that follow P when position cap, if any, changes.
After(P, PP, cap) ==
    /\ PP \in Seq(PositionSet) /\ Len(P) <= Len(PP)
    /\ \A id \in DOMAIN PP : PositionOK(PP[id])
    /\ \A id \in DOMAIN P \ {cap} : PP[id] = P[id]

\* Orders other than i neither work on cap nor compete with o.
Apart(O, i, o, cap) ==
    /\ \A j \in DOMAIN O \ {i} : O[j].status \in Live /\ Left(O[j]) > 0 => O[j].capital # cap
    /\ o.status \in Live =>
           \A j \in DOMAIN O \ {i} :
               O[j].status \in Live => O[j].role # o.role \/ O[j].capital # o.capital

\* The orders stay sound that do not work on the position that changes.
LEMMA OthersSound ==
    ASSUME NEW O, NEW S, NEW P, Sound(O, S, P), NEW PP, NEW cap, After(P, PP, cap),
           NEW j \in DOMAIN O, O[j].status \in Live /\ Left(O[j]) > 0 => O[j].capital # cap
    PROVE  O[j] \in OrderSet(Len(PP)) /\ OrderOK(O[j], j \in S, PP)
<1>1. Len(P) \in Nat /\ Len(PP) \in Nat /\ Len(P) <= Len(PP)
    BY SoundMeans, SeqMeans DEF After
<1>2. O[j] \in OrderSet(Len(PP))
    BY <1>1, SoundMeans, OrderSetGrows
<1>3. O[j].status \in Live /\ Left(O[j]) > 0 => PP[O[j].capital] = P[O[j].capital]
    BY SoundMeans DEF After
<1>4. OrderOK(O[j], j \in S, P)
    BY SoundMeans
<1>5. QED BY <1>2, <1>3, <1>4, Unaffected

\* One order and the position behind it change.
LEMMA SoundStep ==
    ASSUME NEW O, NEW S, NEW P, Sound(O, S, P), NEW PP, NEW cap, After(P, PP, cap),
           NEW i \in DOMAIN O, NEW o \in OrderSet(Len(PP)), Apart(O, i, o, cap),
           NEW SS, OrderOK(o, i \in SS, PP), \A j \in DOMAIN O \ {i} : (j \in SS) = (j \in S)
    PROVE  Sound([O EXCEPT ![i] = o], SS, PP)
<1> DEFINE OO == [O EXCEPT ![i] = o]
<1>1. O \in Seq(OrderSet(Len(P))) /\ Len(O) \in Nat /\ DOMAIN O = 1..Len(O)
    BY SoundMeans DEF Sound
<1>2. DOMAIN OO = DOMAIN O /\ OO[i] = o /\ \A j \in DOMAIN O \ {i} : OO[j] = O[j]
    OBVIOUS
<1>3. OO = [j \in DOMAIN OO |-> OO[j]]
    OBVIOUS
<1> HIDE DEF OO
<1>4. \A j \in DOMAIN OO : OO[j] \in OrderSet(Len(PP)) /\ OrderOK(OO[j], j \in SS, PP)
    <2>1. ASSUME NEW j \in DOMAIN O \ {i}
          PROVE  O[j] \in OrderSet(Len(PP)) /\ OrderOK(O[j], j \in S, PP)
        BY OthersSound DEF Apart
    <2>2. QED BY <1>2, <2>1
<1>5. OO \in Seq(OrderSet(Len(PP)))
    <2>1. DOMAIN OO = 1..Len(O) /\ \A j \in 1..Len(O) : OO[j] \in OrderSet(Len(PP))
        BY <1>1, <1>2, <1>4
    <2>2. OO \in [1..Len(O) -> OrderSet(Len(PP))]
        BY <1>3, <2>1
    <2>3. QED BY <1>1, <2>2, IsSequence
<1>6. Alone(OO)
    BY <1>2 DEF Alone, Sound, Apart
<1>7. QED BY <1>4, <1>5, <1>6 DEF Sound, After, OO

\* One order is added, and the position behind it changes.
LEMMA SoundAppend ==
    ASSUME NEW O, NEW S, NEW P, Sound(O, S, P), NEW PP, NEW cap, After(P, PP, cap),
           NEW o \in OrderSet(Len(PP)), Apart(O, Len(O) + 1, o, cap),
           NEW SS, OrderOK(o, Len(O) + 1 \in SS, PP), \A j \in DOMAIN O : (j \in SS) = (j \in S)
    PROVE  Sound(Append(O, o), SS, PP)
<1> DEFINE OO == Append(O, o)
           n == Len(O) + 1
<1>1. O \in Seq(OrderSet(Len(P))) /\ Len(O) \in Nat /\ DOMAIN O = 1..Len(O)
    BY SoundMeans DEF Sound
<1>a. /\ Len(P) \in Nat /\ Len(PP) \in Nat /\ Len(P) <= Len(PP)
      /\ OrderSet(Len(P)) \subseteq OrderSet(Len(PP))
    BY SoundMeans, SeqMeans, OrderSetGrows DEF After
<1>b. O \in Seq(OrderSet(Len(PP)))
    BY <1>1, <1>a
<1>2. /\ OO \in Seq(OrderSet(Len(PP)))
      /\ DOMAIN OO = DOMAIN O \union {n} /\ n \notin DOMAIN O
      /\ OO[n] = o /\ \A j \in DOMAIN O : OO[j] = O[j]
    BY <1>b, AppendMeans
<1> HIDE DEF OO, n
<1>3. \A j \in DOMAIN OO : OrderOK(OO[j], j \in SS, PP)
    <2>1. ASSUME NEW j \in DOMAIN O PROVE OrderOK(O[j], j \in S, PP)
        BY <1>2, OthersSound DEF Apart, n
    <2>2. QED BY <1>2, <2>1 DEF n
<1>4. Alone(OO)
    BY <1>2 DEF Alone, Sound, Apart, n
<1>5. QED BY <1>2, <1>3, <1>4 DEF Sound, After, OO

-----------------------------------------------------------------------------
(* What the positions hold.                                                *)

\* One position changes.
LEMMA AfterChange ==
    ASSUME NEW P, P \in Seq(PositionSet), \A id \in DOMAIN P : PositionOK(P[id]),
           NEW cap \in DOMAIN P, NEW p \in PositionSet, PositionOK(p)
    PROVE  /\ After(P, [P EXCEPT ![cap] = p], cap)
           /\ Len([P EXCEPT ![cap] = p]) = Len(P) /\ DOMAIN [P EXCEPT ![cap] = p] = DOMAIN P
<1> DEFINE PP == [P EXCEPT ![cap] = p]
<1>1. Len(P) \in Nat /\ DOMAIN P = 1..Len(P) /\ \A id \in DOMAIN P : P[id] \in PositionSet
    BY SeqMeans
<1>2. DOMAIN PP = DOMAIN P /\ PP[cap] = p /\ \A id \in DOMAIN P \ {cap} : PP[id] = P[id]
    OBVIOUS
<1>3. PP = [id \in DOMAIN PP |-> PP[id]]
    OBVIOUS
<1> HIDE DEF PP
<1>4. DOMAIN PP = 1..Len(P) /\ \A id \in 1..Len(P) : PP[id] \in PositionSet /\ PositionOK(PP[id])
    BY <1>1, <1>2
<1>5. PP \in Seq(PositionSet) /\ Len(PP) = Len(P)
    <2>1. PP \in [1..Len(P) -> PositionSet]
        BY <1>3, <1>4
    <2>2. QED BY <1>1, <2>1, IsSequence
<1>6. QED BY <1>1, <1>2, <1>4, <1>5 DEF After, PP

\* One position is added.
LEMMA AfterAppend ==
    ASSUME NEW P, P \in Seq(PositionSet), \A id \in DOMAIN P : PositionOK(P[id]),
           NEW p \in PositionSet, PositionOK(p), NEW cap
    PROVE  /\ After(P, Append(P, p), cap)
           /\ Len(Append(P, p)) = Len(P) + 1 /\ DOMAIN Append(P, p) = DOMAIN P \union {Len(P) + 1}
<1>1. Len(P) \in Nat
    BY SeqMeans
<1>2. QED BY <1>1, AppendMeans DEF After

\* Each change follows the one before.
LEMMA AfterBoth ==
    ASSUME NEW P, NEW PP, NEW PPP, NEW cap, P \in Seq(PositionSet),
           After(P, PP, cap), After(PP, PPP, cap)
    PROVE  After(P, PPP, cap)
<1>1. /\ Len(P) \in Nat /\ DOMAIN P = 1..Len(P)
      /\ Len(PP) \in Nat /\ DOMAIN PP = 1..Len(PP)
      /\ Len(PPP) \in Nat
    BY SeqMeans DEF After
<1>2. QED BY <1>1 DEF After

\* What positions hold is a number ...
LEMMA HoldsNat ==
    ASSUME NEW P, P \in Seq(PositionSet)
    PROVE  Holds(P) \in Nat
<1>1. \A id \in DOMAIN P : QuantityOf(P)[id] \in Nat
    BY SeqMeans, PositionFields DEF QuantityOf
<1>2. QED BY <1>1, PairAssumption, TotalNat DEF Holds

\* ... that changes by as much as the one position that changes ...
LEMMA HoldsChange ==
    ASSUME NEW P, P \in Seq(PositionSet), Len(P) <= MaxCapital, NEW PP, PP \in Seq(PositionSet),
           DOMAIN PP = DOMAIN P, NEW cap \in DOMAIN P, \A id \in DOMAIN P \ {cap} : PP[id] = P[id]
    PROVE  Holds(PP) = Holds(P) + PP[cap].quantity - P[cap].quantity
<1>1. MaxCapital \in Nat /\ DOMAIN P \in SUBSET (1..MaxCapital)
    BY SeqMeans, PairAssumption
<1>2. \A id \in DOMAIN P : P[id].quantity \in Nat /\ PP[id].quantity \in Nat
    BY SeqMeans, PositionFields
<1>3. \A id \in DOMAIN P : QuantityOf(P)[id] = P[id].quantity /\ QuantityOf(PP)[id] = PP[id].quantity
    BY DEF QuantityOf
<1>4. Total(DOMAIN P, QuantityOf(PP), MaxCapital)
          = Total(DOMAIN P, QuantityOf(P), MaxCapital) + (QuantityOf(PP)[cap] - QuantityOf(P)[cap])
    <2> DEFINE g == QuantityOf(P)
               h == QuantityOf(PP)
    <2>1. \A id \in DOMAIN P : g[id] \in Int /\ h[id] \in Int
        BY <1>2, <1>3
    <2>2. \A id \in DOMAIN P \ {cap} : g[id] = h[id]
        BY <1>3
    <2> HIDE DEF g, h
    <2>3. Total(DOMAIN P, h, MaxCapital) = Total(DOMAIN P, g, MaxCapital) + (h[cap] - g[cap])
        BY <1>1, <2>1, <2>2, TotalChange
    <2>4. QED BY <2>3 DEF g, h
<1>5. Holds(P) \in Nat
    BY HoldsNat
<1>6. QED BY <1>2, <1>3, <1>4, <1>5 DEF Holds

\* ... and grows by what a new position brings.
LEMMA HoldsAppend ==
    ASSUME NEW P, P \in Seq(PositionSet), Len(P) + 1 <= MaxCapital, NEW p \in PositionSet
    PROVE  Holds(Append(P, p)) = Holds(P) + p.quantity
<1> DEFINE n == Len(P) + 1
           Q == Append(P, p)
           f == [id \in DOMAIN Q |-> IF id = n THEN 0 ELSE P[id].quantity]
<1>1. /\ DOMAIN Q = DOMAIN P \union {n} /\ n \notin DOMAIN P /\ Q \in Seq(PositionSet)
      /\ Q[n] = p /\ \A id \in DOMAIN P : Q[id] = P[id]
    BY AppendMeans
<1>2. MaxCapital \in Nat /\ DOMAIN Q \in SUBSET (1..MaxCapital)
    BY <1>1, SeqMeans, PairAssumption
<1> HIDE DEF Q, n
<1>3. \A id \in DOMAIN Q : Q[id].quantity \in Nat /\ (id # n => P[id].quantity = Q[id].quantity)
    BY <1>1, SeqMeans, PositionFields
<1>4. \A id \in DOMAIN Q : f[id] \in Int /\ QuantityOf(Q)[id] \in Int
    BY <1>3 DEF QuantityOf
<1>5. \A id \in DOMAIN Q \ {n} : f[id] = QuantityOf(Q)[id]
    BY <1>3 DEF QuantityOf
<1>6. f[n] = 0 /\ QuantityOf(Q)[n] = p.quantity
    BY <1>1 DEF QuantityOf
<1>7. \A id \in DOMAIN P : QuantityOf(P)[id] = f[id]
    BY <1>1 DEF QuantityOf
<1> HIDE DEF f
<1>8. Total(DOMAIN Q, QuantityOf(Q), MaxCapital)
          = Total(DOMAIN Q, f, MaxCapital) + (QuantityOf(Q)[n] - f[n])
    <2> DEFINE h == QuantityOf(Q)
    <2>1. \A id \in DOMAIN Q : f[id] \in Int /\ h[id] \in Int
        BY <1>4
    <2>2. \A id \in DOMAIN Q \ {n} : f[id] = h[id]
        BY <1>5
    <2>3. n \in DOMAIN Q
        BY <1>1
    <2> HIDE DEF h
    <2>4. Total(DOMAIN Q, h, MaxCapital) = Total(DOMAIN Q, f, MaxCapital) + (h[n] - f[n])
        BY <1>2, <2>1, <2>2, <2>3, TotalChange
    <2>5. QED BY <2>4 DEF h
<1>9. Total(DOMAIN P, QuantityOf(P), MaxCapital) = Total(DOMAIN Q, f, MaxCapital)
    <2>1. DOMAIN P \in SUBSET DOMAIN Q /\ \A id \in DOMAIN Q \ DOMAIN P : f[id] = 0
        BY <1>1, <1>6
    <2>2. QED BY <1>2, <1>7, <2>1, TotalSame
<1>10. Holds(P) \in Nat /\ p.quantity \in Nat
    BY HoldsNat, PositionFields
<1>11. QED BY <1>6, <1>8, <1>9, <1>10 DEF Holds, Q

-----------------------------------------------------------------------------
(* The grid.                                                               *)

\* A C2 entry stands at its target, or its replacement will.
OnGrid(o, center) ==
    o.role = "ENTRY" /\ o.column = 2 =>
        /\ o.status \in {"UNFUNDED", "ACTIVE", "PARTIAL"} => o.price = Target(o, center)
        /\ o.status = "CANCEL_PENDING" => o.replacement = Target(o, center)

\* The targets of the ranks are prices.
LEMMA TargetIsPrice ==
    ASSUME NEW center \in Hotline, NEW o, o.rank \in Rank
    PROVE  Target(o, center) \in Nat \ {0}
<1>1. /\ center \in Nat /\ o.rank \in 1..7 /\ center - o.rank > 0
    BY PairAssumption
<1>2. QED BY <1>1 DEF Target

\* A new entry is sound, and nobody's.
LEMMA EntryIsSound ==
    ASSUME NEW side \in {"BUY", "SELL"}, NEW rank \in Rank, NEW column \in {1, 2},
           NEW price \in Nat \ {0}, NEW n \in Nat, NEW P
    PROVE  /\ Entry(side, rank, column, price) \in OrderSet(n)
           /\ OrderOK(Entry(side, rank, column, price), FALSE, P)
           /\ Entry(side, rank, column, price).status \notin Live
<1> DEFINE e == Entry(side, rank, column, price)
<1>1. Lot \in Nat \ {0}
    BY PairAssumption
<1>2. /\ e.side = side /\ e.rank = rank /\ e.column = column /\ e.price = price
      /\ e.role = "ENTRY" /\ e.quantity = Lot /\ e.filled = 0 /\ e.status = "UNFUNDED"
      /\ e.capital = None /\ e.replacement = None /\ e.authorized = FALSE
    BY DEF Entry
<1>3. e \in OrderSet(n)
    BY <1>1 DEF Entry, OrderSet, None
<1> HIDE DEF e
<1>4. OrderOK(e, FALSE, P) /\ e.status \notin Live
    BY <1>1, <1>2 DEF OrderOK, Live, Left
<1>5. QED BY <1>3, <1>4 DEF e

\* The orders of initialize_grid.
GridOrder(side, rank, column, center) ==
    LET e == Entry(side, rank, column, center) IN [e EXCEPT !.price = Target(e, center)]
Grid(center) ==
    {GridOrder(side, rank, column, center) : side \in Side, rank \in Rank, column \in {1, 2}}

\* They are finitely many.
LEMMA GridIsFinite == ASSUME NEW center PROVE IsFiniteSet(Grid(center))
<1> DEFINE T == Side \X (Rank \X {1, 2})
           f == [x \in T |-> GridOrder(x[1], x[2][1], x[2][2], center)]
<1>1. IsFiniteSet({"BUY", "SELL"}) /\ IsFiniteSet({1, 2})
    <2>1. IsFiniteSet({"BUY"}) /\ IsFiniteSet({1})
        BY FS_Singleton
    <2>2. IsFiniteSet({"BUY"} \union {"SELL"}) /\ IsFiniteSet({1} \union {2})
        BY <2>1, FS_AddElement
    <2>3. {"BUY"} \union {"SELL"} = {"BUY", "SELL"} /\ {1} \union {2} = {1, 2}
        OBVIOUS
    <2>4. QED BY <2>2, <2>3
<1>2. IsFiniteSet(Side) /\ IsFiniteSet(Rank)
    <2>1. Side \in SUBSET {"BUY", "SELL"} /\ Rank \in SUBSET (1..7)
        BY PairAssumption
    <2>2. IsFiniteSet(1..7)
        <3>1. 1 \in Int /\ 7 \in Int
            OBVIOUS
        <3>2. QED BY ONLY <3>1, FS_Interval
    <2>3. QED BY <1>1, <2>1, <2>2, FS_Subset
<1>3. IsFiniteSet(Rank \X {1, 2})
    BY <1>1, <1>2, FS_Product
<1>4. IsFiniteSet(T)
    BY <1>2, <1>3, FS_Product
<1>5. f \in Surjection(T, Grid(center))
    <2>1. f \in [T -> Grid(center)]
        BY DEF Grid
    <2>2. ASSUME NEW e \in Grid(center) PROVE \E x \in T : f[x] = e
        <3>1. PICK side \in Side, rank \in Rank, column \in {1, 2} :
                  e = GridOrder(side, rank, column, center)
            BY DEF Grid
        <3>2. <<side, <<rank, column>>>> \in T /\ f[<<side, <<rank, column>>>>] = e
            BY <3>1
        <3>3. QED BY <3>2
    <2> HIDE DEF f, T
    <2>3. QED BY <2>1, <2>2 DEF Surjection
<1> HIDE DEF T, f
<1>6. QED BY <1>4, <1>5, FS_Surjection

\* Each is sound, is nobody's and stands at its target.
LEMMA GridIsSound ==
    ASSUME NEW center \in Hotline, NEW n \in Nat, NEW P, NEW e \in Grid(center)
    PROVE  e \in OrderSet(n) /\ OrderOK(e, FALSE, P) /\ e.status \notin Live /\ OnGrid(e, center)
<1>1. PICK side \in Side, rank \in Rank, column \in {1, 2} :
          e = GridOrder(side, rank, column, center)
    BY DEF Grid
<1> DEFINE target == Target(Entry(side, rank, column, center), center)
<1>2. target \in Nat \ {0}
    <2>1. Entry(side, rank, column, center).rank \in Rank
        BY DEF Entry
    <2>2. QED BY <2>1, TargetIsPrice
<1>3. e = Entry(side, rank, column, target)
    BY <1>1 DEF GridOrder, Entry
<1>4. target = Target(e, center)
    BY <1>3 DEF Target, Entry
<1> HIDE DEF target
<1>5. side \in {"BUY", "SELL"}
    BY PairAssumption
<1>6. e \in OrderSet(n) /\ OrderOK(e, FALSE, P) /\ e.status \notin Live
    BY <1>2, <1>3, <1>5, EntryIsSound
<1>7. e.price = target /\ e.status = "UNFUNDED"
    BY <1>3 DEF Entry
<1>8. QED BY <1>4, <1>6, <1>7 DEF OnGrid

\* initialize_grid
LEMMA InitializeGridStep == ASSUME IInv, InitializeGrid PROVE IInv'
<1>1. /\ hotline # None /\ orders = <<>> /\ orders' = SetToSeq(Grid(hotline))
      /\ UNCHANGED <<hotline, queue, positions, inventory, dust>>
    BY DEF InitializeGrid, Grid, GridOrder
<1>2. hotline \in Hotline /\ Range(queue) = {} /\ queue \in Seq(Nat) /\ IsInjective(queue)
    <2>1. hotline \in Hotline /\ Range(queue) \subseteq DOMAIN orders
        BY <1>1 DEF IInv, QueueOK
    <2>2. DOMAIN orders = {}
        BY <1>1
    <2>3. QED BY <2>1, <2>2 DEF IInv, QueueOK
<1>3. orders' \in Seq(Grid(hotline))
    BY <1>1, GridIsFinite, SetToSeqMeans
<1>4. Sound(orders, Range(queue), positions)
    BY DEF IInv
<1>5. Len(positions) \in Nat
    BY <1>4, SoundMeans
<1>6. \A i \in DOMAIN orders' :
          /\ orders'[i] \in OrderSet(Len(positions)) /\ OrderOK(orders'[i], FALSE, positions)
          /\ orders'[i].status \notin Live /\ OnGrid(orders'[i], hotline)
    <2>1. \A i \in DOMAIN orders' : orders'[i] \in Grid(hotline)
        BY <1>3, SeqMeans
    <2>2. QED BY <1>2, <1>5, <2>1, GridIsSound
<1>7. orders' \in Seq(OrderSet(Len(positions)))
    <2>1. Len(orders') \in Nat /\ DOMAIN orders' = 1..Len(orders')
          /\ orders' = [i \in DOMAIN orders' |-> orders'[i]]
        BY <1>3, SeqMeans
    <2>2. orders' \in [1..Len(orders') -> OrderSet(Len(positions))]
        BY <1>6, <2>1
    <2>3. QED BY <2>1, <2>2, IsSequence
<1>8. Sound(orders', Range(queue), positions)
    <2>1. \A i \in DOMAIN orders' : OrderOK(orders'[i], i \in Range(queue), positions)
        <3>1. \A i : (i \in Range(queue)) = FALSE
            BY <1>2
        <3>2. QED BY <1>6, <3>1
    <2>2. QED BY <1>4, <1>6, <1>7, <2>1 DEF Sound, Alone
<1>9. GridFollowsHotline'
    BY <1>1, <1>6 DEF GridFollowsHotline, OnGrid
<1>10. QED BY <1>1, <1>2, <1>8, <1>9 DEF IInv, QueueOK

-----------------------------------------------------------------------------
(* Cancels.                                                                *)

\* What the positions hold together depends on their quantities alone.
LEMMA HoldsSame ==
    ASSUME NEW P, NEW PP, DOMAIN PP = DOMAIN P, \A id \in DOMAIN P : PP[id].quantity = P[id].quantity
    PROVE  Holds(PP) = Holds(P)
<1>1. QuantityOf(PP) = QuantityOf(P)
    BY DEF QuantityOf
<1>2. QED BY <1>1 DEF Holds

\* The order oo is o but for its price, which an order at work keeps, and for
\* where it goes.
Moved(o, oo) ==
    /\ oo.side = o.side /\ oo.rank = o.rank /\ oo.column = o.column /\ oo.role = o.role
    /\ oo.quantity = o.quantity /\ oo.filled = o.filled /\ oo.capital = o.capital
    /\ o.status \in Live => oo.price = o.price

\* GlobalCapitalLedger.request_cancel for the orders of C.
LEMMA CancelsMean ==
    ASSUME IInv, NEW C \in SUBSET DOMAIN orders, CancelsRequested(C),
           \A i \in C : orders[i].status \in Live
    PROVE  /\ positions' \in Seq(PositionSet) /\ Len(positions') = Len(positions)
           /\ DOMAIN positions' = DOMAIN positions
           /\ \A id \in DOMAIN positions : PositionOK(positions'[id])
           /\ \A id \in DOMAIN positions \ {orders[i].capital : i \in C} : positions'[id] = positions[id]
           /\ \A i \in C : /\ positions'[orders[i].capital].state = "CANCEL_PENDING"
                           /\ positions'[orders[i].capital].cash = positions[orders[i].capital].cash
           /\ Holds(positions') = Holds(positions)
<1> DEFINE ids == {orders[i].capital : i \in C}
<1>1. /\ \A id \in ids : positions[id].state = "RESERVED"
      /\ positions' = [id \in DOMAIN positions |->
             IF id \in ids THEN [positions[id] EXCEPT !.state = "CANCEL_PENDING"] ELSE positions[id]]
    BY DEF CancelsRequested
<1>2. Sound(orders, Range(queue), positions)
    BY DEF IInv
<1>3. /\ Len(positions) \in Nat /\ DOMAIN positions = 1..Len(positions)
      /\ \A id \in DOMAIN positions : positions[id] \in PositionSet /\ PositionOK(positions[id])
      /\ \A i \in C : orders[i].capital \in DOMAIN positions /\ orders[i].capital \in ids
    BY <1>2, SoundMeans
<1> HIDE DEF ids
<1>4. DOMAIN positions' = DOMAIN positions /\ positions' = [id \in DOMAIN positions' |-> positions'[id]]
    BY <1>1
<1>5. ASSUME NEW id \in DOMAIN positions
      PROVE  /\ positions'[id] \in PositionSet /\ PositionOK(positions'[id])
             /\ positions'[id].quantity = positions[id].quantity
             /\ id \notin ids => positions'[id] = positions[id]
             /\ id \in ids => /\ positions'[id].state = "CANCEL_PENDING"
                              /\ positions'[id].cash = positions[id].cash
    <2> DEFINE p == positions[id]
    <2>1. p \in PositionSet /\ PositionOK(p) /\ (id \in ids => p.state = "RESERVED")
        BY <1>1, <1>3
    <2>2. positions'[id] = IF id \in ids THEN [p EXCEPT !.state = "CANCEL_PENDING"] ELSE p
        BY <1>1
    <2> HIDE DEF p
    <2>3. QED BY <2>1, <2>2 DEF PositionSet, PositionOK, p
<1>6. positions' \in Seq(PositionSet) /\ Len(positions') = Len(positions)
    <2>1. positions' \in [1..Len(positions) -> PositionSet]
        BY <1>3, <1>4, <1>5
    <2>2. QED BY <1>3, <2>1, IsSequence
<1>7. Holds(positions') = Holds(positions)
    BY <1>4, <1>5, HoldsSame
<1>8. QED BY <1>3, <1>4, <1>5, <1>6, <1>7 DEF ids

\* Cancels are requested of the entries C, and orders at rest may move.
LEMMA CancelsSound ==
    ASSUME IInv, NEW C \in SUBSET DOMAIN orders, CancelsRequested(C),
           \A i \in C : orders[i].role = "ENTRY" /\ orders[i].status \in {"ACTIVE", "PARTIAL"},
           DOMAIN orders' = DOMAIN orders, orders' = [i \in DOMAIN orders' |-> orders'[i]],
           \A i \in DOMAIN orders :
               /\ orders'[i] \in OrderSet(Len(positions)) /\ Moved(orders[i], orders'[i])
               /\ orders'[i].status = IF i \in C THEN "CANCEL_PENDING" ELSE orders[i].status
    PROVE  Sound(orders', Range(queue), positions') /\ Len(positions') = Len(positions)
           /\ Holds(positions') = Holds(positions)
<1>1. Sound(orders, Range(queue), positions)
    BY DEF IInv
<1>2. /\ positions' \in Seq(PositionSet) /\ Len(positions') = Len(positions)
      /\ DOMAIN positions' = DOMAIN positions
      /\ \A id \in DOMAIN positions : PositionOK(positions'[id])
      /\ \A id \in DOMAIN positions \ {orders[i].capital : i \in C} : positions'[id] = positions[id]
      /\ \A i \in C : /\ positions'[orders[i].capital].state = "CANCEL_PENDING"
                      /\ positions'[orders[i].capital].cash = positions[orders[i].capital].cash
      /\ Holds(positions') = Holds(positions)
    BY CancelsMean DEF Live
<1>3. /\ Len(orders) \in Nat /\ DOMAIN orders = 1..Len(orders)
      /\ \A i \in DOMAIN orders : /\ orders[i] \in OrderSet(Len(positions))
                                  /\ OrderOK(orders[i], i \in Range(queue), positions)
    BY <1>1, SoundMeans
<1>4. orders' \in Seq(OrderSet(Len(positions')))
    <2>1. orders' \in [1..Len(orders) -> OrderSet(Len(positions'))]
        BY <1>2, <1>3
    <2>2. QED BY <1>3, <2>1, IsSequence
<1>5. ASSUME NEW i \in DOMAIN orders
      PROVE  OrderOK(orders'[i], i \in Range(queue), positions')
    <2> DEFINE o == orders[i]
               oo == orders'[i]
    <2>1. OrderOK(o, i \in Range(queue), positions) /\ Moved(o, oo) /\ Left(oo) = Left(o)
        BY <1>3 DEF Moved, Left
    <2>2. CASE i \in C
        <3>1. /\ o.role = "ENTRY" /\ o.status \in {"ACTIVE", "PARTIAL"} /\ oo.status = "CANCEL_PENDING"
              /\ positions'[o.capital].state = "CANCEL_PENDING"
              /\ positions'[o.capital].cash = positions[o.capital].cash
            BY <1>2, <2>2
        <3> HIDE DEF o, oo
        <3>2. QED BY <2>1, <3>1 DEF OrderOK, Moved, Backed, Live, o, oo
    <2>3. CASE i \notin C
        <3>1. oo.status = o.status
            BY <2>3
        <3>2. o.status \in Live /\ Left(o) > 0 => positions'[o.capital] = positions[o.capital]
            <4> SUFFICES ASSUME o.status \in Live, Left(o) > 0
                         PROVE  o.capital \in DOMAIN positions \ {orders[j].capital : j \in C}
                BY <1>2
            <4>1. o.capital \in DOMAIN positions
                BY <1>1, SoundMeans
            <4>2. ASSUME NEW j \in C, orders[j].capital = o.capital PROVE FALSE
                <5>1. orders[j].status \in Live /\ Left(orders[j]) > 0
                    BY <1>3 DEF OrderOK, Live
                <5>2. j = i
                    BY <1>1, <4>2, <5>1, SoleWorker
                <5>3. QED BY <2>3, <5>2
            <4>3. QED BY <4>1, <4>2
        <3>3. OrderOK(o, i \in Range(queue), positions')
            BY <2>1, <3>2, Unaffected
        <3> HIDE DEF o, oo
        <3>4. QED BY <2>1, <3>1, <3>3 DEF OrderOK, Moved, Backed, o, oo
    <2>4. QED BY <2>2, <2>3
<1>6. Alone(orders')
    <2>1. \A i \in DOMAIN orders : /\ orders'[i].status \in Live => orders[i].status \in Live
                                   /\ orders'[i].role = orders[i].role
                                   /\ orders'[i].capital = orders[i].capital
        BY DEF Live, Moved
    <2>2. QED BY <1>1, <2>1 DEF Alone, Sound
<1>7. QED BY <1>2, <1>4, <1>5, <1>6 DEF Sound

\* What an order becomes when the hotline moves.
LEMMA ReconciledMeans ==
    ASSUME NEW center \in Hotline, NEW n \in Nat, NEW o \in OrderSet(n),
           o.role = "ENTRY" => o.rank \in Rank, NEW h, OnGrid(o, h)
    PROVE  /\ Reconciled(o, center) \in OrderSet(n) /\ Moved(o, Reconciled(o, center))
           /\ Reconciled(o, center).status =
                  IF IsCanceled(o, center) THEN "CANCEL_PENDING" ELSE o.status
           /\ OnGrid(Reconciled(o, center), center)
<1>1. o.role = "ENTRY" => Target(o, center) \in Nat \ {0}
    BY TargetIsPrice
<1>2. \A oo : oo.side = o.side /\ oo.rank = o.rank => Target(oo, center) = Target(o, center)
    BY DEF Target
<1>3. CASE o.role = "ENTRY" /\ o.status = "UNFUNDED"
    <2>1. Reconciled(o, center) = [o EXCEPT !.price = Target(o, center)] /\ ~IsCanceled(o, center)
        BY <1>3 DEF Reconciled, IsCanceled
    <2>2. QED BY <1>1, <1>2, <1>3, <2>1 DEF OrderSet, Moved, OnGrid, Live
<1>4. CASE o.role = "ENTRY" /\ o.column = 2 /\ o.status = "CANCEL_PENDING"
    <2>1. Reconciled(o, center) = [o EXCEPT !.replacement = Target(o, center)] /\ ~IsCanceled(o, center)
        BY <1>4 DEF Reconciled, IsCanceled
    <2>2. QED BY <1>1, <1>2, <1>4, <2>1 DEF OrderSet, Moved, OnGrid, Live
<1>5. CASE IsCanceled(o, center)
    <2>1. Reconciled(o, center)
              = [o EXCEPT !.replacement = Target(o, center), !.status = "CANCEL_PENDING"]
        BY <1>5 DEF Reconciled, IsCanceled
    <2>2. o.role = "ENTRY"
        BY <1>5 DEF IsCanceled
    <2>3. QED BY <1>1, <1>2, <1>5, <2>1, <2>2 DEF OrderSet, Moved, OnGrid, Live
<1>6. CASE /\ ~(o.role = "ENTRY" /\ o.status = "UNFUNDED")
           /\ ~(o.role = "ENTRY" /\ o.column = 2 /\ o.status = "CANCEL_PENDING")
           /\ ~IsCanceled(o, center)
    <2>1. Reconciled(o, center) = o
        BY <1>6 DEF Reconciled
    <2>2. QED BY <1>6, <2>1 DEF Moved, OnGrid, IsCanceled
<1>7. QED BY <1>3, <1>4, <1>5, <1>6

\* receive_book
LEMMA ReceiveBookStep == ASSUME IInv, NEW target \in Hotline, ReceiveBook(target) PROVE IInv'
<1> DEFINE C == {i \in DOMAIN orders : IsCanceled(orders[i], target)}
<1>1. /\ hotline' = target /\ orders' = [i \in DOMAIN orders |-> Reconciled(orders[i], target)]
      /\ CancelsRequested(C) /\ UNCHANGED <<queue, inventory, dust>>
    BY DEF ReceiveBook
<1>2. Sound(orders, Range(queue), positions) /\ GridFollowsHotline
    BY DEF IInv
<1>3. ASSUME NEW i \in DOMAIN orders
      PROVE  /\ orders'[i] \in OrderSet(Len(positions)) /\ Moved(orders[i], orders'[i])
             /\ orders'[i].status = IF i \in C THEN "CANCEL_PENDING" ELSE orders[i].status
             /\ OnGrid(orders'[i], target)
    <2>1. /\ Len(positions) \in Nat /\ orders[i] \in OrderSet(Len(positions))
          /\ OrderOK(orders[i], i \in Range(queue), positions)
        BY <1>2, SoundMeans
    <2>2. orders[i].role = "ENTRY" => orders[i].rank \in Rank
        BY <2>1 DEF OrderOK
    <2>3. OnGrid(orders[i], hotline)
        BY <1>2 DEF GridFollowsHotline, OnGrid
    <2>4. orders'[i] = Reconciled(orders[i], target) /\ (i \in C <=> IsCanceled(orders[i], target))
        BY <1>1
    <2> HIDE DEF C
    <2>5. QED BY <2>1, <2>2, <2>3, <2>4, ReconciledMeans
<1>4. C \in SUBSET DOMAIN orders
    OBVIOUS
<1>5. \A i \in C : orders[i].role = "ENTRY" /\ orders[i].status \in {"ACTIVE", "PARTIAL"}
    BY DEF IsCanceled
<1> HIDE DEF C
<1>6. DOMAIN orders' = DOMAIN orders /\ orders' = [i \in DOMAIN orders' |-> orders'[i]]
    BY <1>1
<1>7. /\ Sound(orders', Range(queue), positions') /\ Len(positions') = Len(positions)
      /\ Holds(positions') = Holds(positions)
    BY <1>1, <1>3, <1>4, <1>5, <1>6, CancelsSound
<1>8. GridFollowsHotline'
    BY <1>1, <1>3, <1>6 DEF GridFollowsHotline, OnGrid
<1>9. QED BY <1>1, <1>6, <1>7, <1>8 DEF IInv, QueueOK

\* request_c1_move
LEMMA RequestC1MoveStep ==
    ASSUME IInv, NEW i \in DOMAIN orders, NEW price \in Price, RequestC1Move(i, price)
    PROVE  IInv'
<1>1. /\ orders[i].column = 1 /\ orders[i].status = "ACTIVE" /\ orders[i].role = "ENTRY"
      /\ orders' = [orders EXCEPT ![i].replacement = price, ![i].status = "CANCEL_PENDING"]
      /\ CancelsRequested({i}) /\ UNCHANGED <<hotline, queue, inventory, dust>>
    BY DEF RequestC1Move
<1>2. Sound(orders, Range(queue), positions) /\ GridFollowsHotline /\ price \in Nat
    BY PairAssumption DEF IInv
<1>3. \A j \in DOMAIN orders : orders[j] \in OrderSet(Len(positions))
    BY <1>2, SoundMeans
<1> DEFINE oo == [orders[i] EXCEPT !.replacement = price, !.status = "CANCEL_PENDING"]
<1>4. /\ oo \in OrderSet(Len(positions)) /\ Moved(orders[i], oo) /\ oo.status = "CANCEL_PENDING"
      /\ oo.column = 1
    BY <1>1, <1>2, <1>3 DEF OrderSet, Moved, Live
<1>5. /\ DOMAIN orders' = DOMAIN orders /\ orders' = [j \in DOMAIN orders' |-> orders'[j]]
      /\ orders'[i] = oo /\ \A j \in DOMAIN orders \ {i} : orders'[j] = orders[j]
    BY <1>1
<1> HIDE DEF oo
<1>6. \A j \in DOMAIN orders :
          /\ orders'[j] \in OrderSet(Len(positions)) /\ Moved(orders[j], orders'[j])
          /\ orders'[j].status = IF j \in {i} THEN "CANCEL_PENDING" ELSE orders[j].status
    BY <1>3, <1>4, <1>5 DEF Moved
<1>7. /\ Sound(orders', Range(queue), positions') /\ Len(positions') = Len(positions)
      /\ Holds(positions') = Holds(positions)
    <2>1. {i} \in SUBSET DOMAIN orders
          /\ \A j \in {i} : orders[j].role = "ENTRY" /\ orders[j].status \in {"ACTIVE", "PARTIAL"}
        BY <1>1
    <2>2. QED BY <1>1, <1>5, <1>6, <2>1, CancelsSound
<1>8. GridFollowsHotline'
    <2>1. \A j \in DOMAIN orders : OnGrid(orders'[j], hotline)
        BY <1>2, <1>4, <1>5 DEF GridFollowsHotline, OnGrid
    <2>2. QED BY <1>1, <1>5, <2>1 DEF GridFollowsHotline, OnGrid
<1>9. QED BY <1>1, <1>5, <1>7, <1>8 DEF IInv, QueueOK

-----------------------------------------------------------------------------
(* Acknowledgements, reservations and new orders.                          *)

\* Position None is no position.
LEMMA NothingChanges ==
    ASSUME NEW O, NEW S, NEW P, Sound(O, S, P)
    PROVE  /\ After(P, P, None)
           /\ \A j \in DOMAIN O : O[j].status \in Live => O[j].capital # None
<1>1. P \in Seq(PositionSet) /\ Len(P) <= Len(P) /\ \A id \in DOMAIN P : PositionOK(P[id])
    <2>1. Len(P) \in Nat
        BY SoundMeans
    <2>2. QED BY <2>1 DEF Sound
<1>2. \A j \in DOMAIN O : O[j].status \in Live => O[j].capital # None
    <2>1. \A j \in DOMAIN O : OrderOK(O[j], j \in S, P)
        BY SoundMeans
    <2>2. QED BY <2>1 DEF OrderOK, Live
<1>3. QED BY <1>1, <1>2 DEF After

\* The queue gives up the order at PlaceOf.
LEMMA TakenOut ==
    ASSUME QueueOK, NEW i \in Range(queue), queue' = RemoveAt(queue, PlaceOf(i))
    PROVE  queue' \in Seq(Nat) /\ IsInjective(queue') /\ Range(queue') = Range(queue) \ {i}
<1>1. \E k \in DOMAIN queue : queue[k] = i
    BY DEF Range
<1>2. PlaceOf(i) \in DOMAIN queue /\ queue[PlaceOf(i)] = i
    BY <1>1 DEF PlaceOf
<1>3. queue \in Seq(Nat) /\ IsInjective(queue)
    BY DEF QueueOK
<1>4. QED BY <1>2, <1>3, RemoveAtMeans

\* The bank's part of an acknowledgement: what is freed is nobody's any more,
\* and it held no inventory.
LEMMA ReleasedMeans ==
    ASSUME IInv, NEW i \in DOMAIN orders, orders[i].status = "CANCEL_PENDING",
           positions' = Released(orders[i].capital)
    PROVE  /\ \E cap : /\ After(positions, positions', cap)
                       /\ \A j \in DOMAIN orders \ {i} :
                              orders[j].status \in Live /\ Left(orders[j]) > 0 => orders[j].capital # cap
           /\ Len(positions') = Len(positions) /\ Holds(positions') = Holds(positions)
<1> DEFINE id == orders[i].capital
<1>1. Sound(orders, Range(queue), positions)
    BY DEF IInv
<1>2. /\ id \in DOMAIN positions /\ orders[i].role = "ENTRY" /\ orders[i].status \in Live
      /\ \A p \in DOMAIN positions : positions[p] \in PositionSet /\ PositionOK(positions[p])
      /\ positions \in Seq(PositionSet)
    <2>1. orders[i].status \in Live
        BY DEF Live
    <2>2. OrderOK(orders[i], i \in Range(queue), positions)
        BY <1>1, SoundMeans
    <2>3. QED BY <1>1, <2>1, <2>2, SoundMeans DEF OrderOK, Sound
<1>3. CASE positions[id].state = "CANCEL_PENDING"
    <2>1. positions' = [positions EXCEPT ![id] = Gone]
        BY <1>3 DEF Released
    <2>2. Gone \in PositionSet /\ PositionOK(Gone) /\ Gone.quantity = 0
        BY PairAssumption DEF Gone, PositionSet, PositionOK
    <2>3. /\ After(positions, positions', id) /\ Len(positions') = Len(positions)
          /\ DOMAIN positions' = DOMAIN positions
        <3> HIDE DEF id
        <3>1. /\ After(positions, [positions EXCEPT ![id] = Gone], id)
              /\ Len([positions EXCEPT ![id] = Gone]) = Len(positions)
              /\ DOMAIN [positions EXCEPT ![id] = Gone] = DOMAIN positions
            BY <1>2, <2>2, AfterChange
        <3>2. QED BY <2>1, <3>1
    <2>4. ASSUME NEW j \in DOMAIN orders \ {i}, orders[j].status \in Live, Left(orders[j]) > 0
          PROVE  orders[j].capital # id
        <3> SUFFICES ASSUME orders[j].capital = id PROVE FALSE
            OBVIOUS
        <3>1. Backed(orders[j], positions[id]) /\ orders[j].role \in {"ENTRY", "RETURN"}
            <4>1. OrderOK(orders[j], j \in Range(queue), positions)
                  /\ orders[j] \in OrderSet(Len(positions)) /\ Len(positions) \in Nat
                BY <1>1, SoundMeans
            <4>2. orders[j].role \in {"ENTRY", "RETURN"}
                BY <4>1, OrderFields
            <4>3. QED BY <2>4, <4>1, <4>2 DEF OrderOK
        <3>2. orders[j].role = "ENTRY"
            BY <1>3, <3>1 DEF Backed
        <3>3. j = i
            BY <1>1, <1>2, <2>4, <3>2 DEF Sound, Alone
        <3>4. QED BY <2>4, <3>3
    <2>5. Holds(positions') = Holds(positions)
        <3>1. \A p \in DOMAIN positions : positions'[p].quantity = positions[p].quantity
            BY <1>2, <1>3, <2>1, <2>2 DEF PositionOK
        <3>2. QED BY <2>3, <3>1, HoldsSame
    <2>6. QED BY <2>3, <2>4, <2>5
<1>4. CASE positions[id].state # "CANCEL_PENDING"
    <2>1. positions' = positions
        BY <1>4 DEF Released
    <2>2. QED BY <1>1, <2>1, NothingChanges
<1>5. QED BY <1>3, <1>4

\* acknowledge_grid_cancel
LEMMA AcknowledgeStep ==
    ASSUME IInv, NEW i \in DOMAIN orders, AcknowledgeGridCancel(i)
    PROVE  IInv'
<1> DEFINE o == orders[i]
           e == Entry(o.side, o.rank, o.column, o.replacement)
<1>1. /\ o.status = "CANCEL_PENDING" /\ o.replacement # None /\ i \in Range(queue)
      /\ queue' = RemoveAt(queue, PlaceOf(i)) /\ positions' = Released(o.capital)
      /\ UNCHANGED <<hotline, inventory, dust>>
      /\ \/ orders' = [orders EXCEPT ![i].status = "PARTIAL_FILLED"]
         \/ orders' = Append([orders EXCEPT ![i].status = "CANCELLED"], e)
    BY DEF AcknowledgeGridCancel
<1>2. /\ Sound(orders, Range(queue), positions) /\ QueueOK /\ GridFollowsHotline
      /\ DOMAIN orders = 1..Len(orders) /\ Len(orders) \in Nat
    BY SoundMeans DEF IInv
<1>3. queue' \in Seq(Nat) /\ IsInjective(queue') /\ Range(queue') = Range(queue) \ {i}
      /\ Range(queue') \subseteq DOMAIN orders
    BY <1>1, <1>2, TakenOut DEF QueueOK
<1>4. Len(positions') = Len(positions) /\ Holds(positions') = Holds(positions)
    BY <1>1, ReleasedMeans
<1>5. PICK cap : /\ After(positions, positions', cap)
                 /\ \A j \in DOMAIN orders \ {i} :
                        orders[j].status \in Live /\ Left(orders[j]) > 0 => orders[j].capital # cap
    BY <1>1, ReleasedMeans
<1>6. /\ o \in OrderSet(Len(positions)) /\ OrderOK(o, i \in Range(queue), positions)
      /\ OnGrid(o, hotline) /\ \A j \in DOMAIN orders : OnGrid(orders[j], hotline)
    BY <1>2, SoundMeans DEF GridFollowsHotline, OnGrid
<1>7. ASSUME NEW status \in {"PARTIAL_FILLED", "CANCELLED"}, NEW O,
             O = [orders EXCEPT ![i].status = status]
      PROVE  /\ Sound(O, Range(queue'), positions') /\ DOMAIN O = DOMAIN orders
             /\ \A j \in DOMAIN O : OnGrid(O[j], hotline)
    <2> DEFINE oo == [o EXCEPT !.status = status]
    <2>1. oo \in OrderSet(Len(positions')) /\ oo.status \notin Live /\ oo.status = status
        BY <1>4, <1>6 DEF OrderSet, Live
    <2>2. OrderOK(oo, i \in Range(queue'), positions') /\ OnGrid(oo, hotline)
        <3>1. oo.status = status /\ oo.status \notin Live
            BY <2>1
        <3>2. /\ Left(oo) = Left(o) /\ oo.role = o.role /\ oo.rank = o.rank
              /\ oo.capital = o.capital /\ oo.filled = o.filled
            BY <1>6 DEF OrderSet, Left
        <3>3. (i \in Range(queue')) = FALSE /\ o.status \in Live
            BY <1>1, <1>3 DEF Live
        <3> HIDE DEF oo, o
        <3>4. QED BY <1>1, <1>6, <3>1, <3>2, <3>3 DEF OrderOK, OnGrid
    <2>3. O = [orders EXCEPT ![i] = oo]
        BY <1>7
    <2>4. Apart(orders, i, oo, cap)
        BY <1>5, <2>1 DEF Apart
    <2>5. \A j \in DOMAIN orders \ {i} : (j \in Range(queue')) = (j \in Range(queue))
        BY <1>3
    <2> HIDE DEF oo, o
    <2>6. Sound(O, Range(queue'), positions')
        BY <1>2, <1>5, <2>1, <2>2, <2>3, <2>4, <2>5, SoundStep
    <2>7. QED BY <1>6, <2>2, <2>3, <2>6
<1>8. CASE orders' = [orders EXCEPT ![i].status = "PARTIAL_FILLED"]
    <2>1. /\ Sound(orders', Range(queue'), positions') /\ DOMAIN orders' = DOMAIN orders
          /\ \A j \in DOMAIN orders' : OnGrid(orders'[j], hotline)
        BY <1>7, <1>8
    <2>2. GridFollowsHotline'
        BY <1>1, <2>1 DEF GridFollowsHotline, OnGrid
    <2>3. QED BY <1>1, <1>3, <1>4, <2>1, <2>2 DEF IInv, QueueOK
<1>9. CASE orders' = Append([orders EXCEPT ![i].status = "CANCELLED"], e)
    <2> DEFINE O == [orders EXCEPT ![i].status = "CANCELLED"]
    <2>1. /\ Sound(O, Range(queue'), positions') /\ DOMAIN O = DOMAIN orders
          /\ \A j \in DOMAIN O : OnGrid(O[j], hotline)
        BY <1>7
    <2> HIDE DEF O
    <2>2. /\ o.side \in {"BUY", "SELL"} /\ o.rank \in Rank /\ o.column \in {1, 2}
          /\ o.replacement \in Nat \ {0} /\ o.role = "ENTRY"
        BY <1>1, <1>6 DEF OrderOK, OrderSet, None
    <2>3. Len(positions') \in Nat
        BY <2>1, SoundMeans
    <2> HIDE DEF o
    <2>4. /\ e \in OrderSet(Len(positions')) /\ OrderOK(e, FALSE, positions')
          /\ e.status \notin Live
        BY <2>2, <2>3, EntryIsSound
    <2>5. OnGrid(e, hotline)
        <3>1. e.column = 2 => e.price = o.replacement /\ o.replacement = Target(o, hotline)
            BY <1>1, <1>6, <2>2 DEF OnGrid, Entry
        <3>2. Target(e, hotline) = Target(o, hotline) /\ e.status = "UNFUNDED"
            BY DEF Target, Entry
        <3>3. QED BY <3>1, <3>2 DEF OnGrid
    <2>6. Len(O) = Len(orders) /\ O \in Seq(OrderSet(Len(positions')))
        <3>1. Len(O) \in Nat /\ DOMAIN O = 1..Len(O)
            BY <2>1, SoundMeans
        <3>2. QED BY <1>2, <2>1, <3>1 DEF Sound
    <2> HIDE DEF e
    <2>7. /\ DOMAIN orders' = DOMAIN O \union {Len(O) + 1} /\ Len(O) + 1 \notin DOMAIN O
          /\ orders'[Len(O) + 1] = e /\ \A j \in DOMAIN O : orders'[j] = O[j]
        BY <1>9, <2>4, <2>6, AppendMeans DEF O
    <2>8. Apart(O, Len(O) + 1, e, None)
        BY <2>1, <2>4, NothingChanges DEF Apart
    <2>9. Sound(orders', Range(queue'), positions')
        <3>1. (Len(O) + 1 \in Range(queue')) = FALSE
            BY <1>3, <2>1, <2>7
        <3>2. OrderOK(e, Len(O) + 1 \in Range(queue'), positions')
            BY <2>4, <3>1
        <3>3. orders' = Append(O, e)
            BY <1>9 DEF O
        <3>4. After(positions', positions', None)
            BY <2>1, NothingChanges
        <3>5. QED BY <2>1, <2>4, <2>8, <3>2, <3>3, <3>4, SoundAppend
    <2>10. GridFollowsHotline'
        <3>1. \A j \in DOMAIN orders' : OnGrid(orders'[j], hotline)
            BY <2>1, <2>5, <2>7
        <3>2. QED BY <1>1, <3>1 DEF GridFollowsHotline, OnGrid
    <2>11. Range(queue') \subseteq DOMAIN orders'
        BY <1>3, <2>1, <2>7
    <2>12. QED BY <1>1, <1>3, <1>4, <2>9, <2>10, <2>11 DEF IInv, QueueOK
<1>10. QED BY <1>1, <1>8, <1>9

\* Positions change that no order works on.
LEMMA SoundPositions ==
    ASSUME NEW O, NEW S, NEW P, Sound(O, S, P), NEW PP, NEW cap, After(P, PP, cap),
           \A j \in DOMAIN O : O[j].status \in Live /\ Left(O[j]) > 0 => O[j].capital # cap
    PROVE  Sound(O, S, PP)
<1>1. \A j \in DOMAIN O : O[j] \in OrderSet(Len(PP)) /\ OrderOK(O[j], j \in S, PP)
    BY OthersSound
<1>2. /\ Len(O) \in Nat /\ DOMAIN O = 1..Len(O) /\ O = [j \in DOMAIN O |-> O[j]]
    BY SeqMeans DEF Sound
<1>3. O \in Seq(OrderSet(Len(PP)))
    <2>1. O \in [1..Len(O) -> OrderSet(Len(PP))]
        BY <1>1, <1>2
    <2>2. QED BY <1>2, <2>1, IsSequence
<1>4. QED BY <1>1, <1>3 DEF Sound, After

\* allocate
LEMMA ReserveStep == ASSUME IInv, NEW amount \in Grant, Reserve(amount) PROVE IInv'
<1>1. /\ Len(positions) < MaxCapital /\ positions' = Append(positions, Reserved(amount))
      /\ UNCHANGED <<hotline, orders, queue, inventory, dust>>
    BY DEF Reserve
<1>2. Sound(orders, Range(queue), positions) /\ Len(positions) \in Nat /\ MaxCapital \in Nat
      /\ positions \in Seq(PositionSet) /\ \A id \in DOMAIN positions : PositionOK(positions[id])
    BY SoundMeans, PairAssumption DEF IInv, Sound
<1>3. Reserved(amount) \in PositionSet /\ PositionOK(Reserved(amount)) /\ Reserved(amount).quantity = 0
    BY PairAssumption DEF Reserved, PositionSet, PositionOK
<1>4. After(positions, positions', None) /\ Len(positions') = Len(positions) + 1
    BY <1>1, <1>2, <1>3, AfterAppend
<1>5. Sound(orders, Range(queue), positions')
    BY <1>2, <1>4, NothingChanges, SoundPositions
<1>6. Len(positions') <= MaxCapital
    BY <1>1, <1>2, <1>4
<1>7. Holds(positions') = Holds(positions)
    <2>1. Holds(positions') = Holds(positions) + Reserved(amount).quantity
        BY <1>1, <1>2, <1>3, HoldsAppend
    <2>2. Holds(positions) \in Nat
        BY <1>2, HoldsNat
    <2>3. QED BY <1>3, <2>1, <2>2
<1>8. GridFollowsHotline'
    BY <1>1 DEF IInv, GridFollowsHotline
<1>9. QED BY <1>1, <1>5, <1>6, <1>7, <1>8 DEF IInv, QueueOK

\* The queue takes one more order.
LEMMA PutLast ==
    ASSUME queue \in Seq(Nat), IsInjective(queue), NEW i \in Nat, i \notin Range(queue),
           queue' = Append(queue, i)
    PROVE  queue' \in Seq(Nat) /\ IsInjective(queue') /\ Range(queue') = Range(queue) \union {i}
<1>1. /\ queue' \in Seq(Nat) /\ DOMAIN queue' = DOMAIN queue \union {Len(queue) + 1}
      /\ Len(queue) + 1 \notin DOMAIN queue
      /\ \A k \in DOMAIN queue : queue'[k] = queue[k]
      /\ queue'[Len(queue) + 1] = i
    BY AppendMeans
<1>2. \A k \in DOMAIN queue : queue[k] # i
    BY DEF Range
<1>3. IsInjective(queue')
    BY <1>1, <1>2 DEF IsInjective
<1>4. Range(queue') = Range(queue) \union {i}
    BY <1>1 DEF Range
<1>5. QED BY <1>1, <1>3, <1>4

\* bind_order_capital
LEMMA BindStep ==
    ASSUME IInv, NEW i \in DOMAIN orders, NEW id \in DOMAIN positions, BindOrderCapital(i, id)
    PROVE  IInv'
<1> DEFINE o == orders[i]
           oo == [o EXCEPT !.capital = id, !.status = "ACTIVE"]
<1>1. /\ positions[id].state = "RESERVED" /\ o.role = "ENTRY"
      /\ positions[id].cash >= o.price * o.quantity /\ o.capital = None
      /\ OrdersOf(id, "ENTRY") = {}
      /\ orders' = [orders EXCEPT ![i].capital = id, ![i].status = "ACTIVE"]
      /\ queue' = Append(queue, i) /\ UNCHANGED <<hotline, positions, inventory, dust>>
    BY DEF BindOrderCapital, Bindable
<1>2. /\ Sound(orders, Range(queue), positions) /\ QueueOK /\ GridFollowsHotline
      /\ DOMAIN orders = 1..Len(orders) /\ Len(orders) \in Nat
      /\ DOMAIN positions = 1..Len(positions) /\ Len(positions) \in Nat
    BY SoundMeans DEF IInv
<1>3. o \in OrderSet(Len(positions)) /\ OrderOK(o, i \in Range(queue), positions)
    BY <1>2, SoundMeans
<1>4. o.status = "UNFUNDED" /\ o.filled = 0 /\ i \notin Range(queue) /\ o.rank \in Rank
    BY <1>1, <1>3 DEF OrderOK
<1>5. /\ queue' \in Seq(Nat) /\ IsInjective(queue') /\ Range(queue') = Range(queue) \union {i}
    BY <1>1, <1>2, <1>4, PutLast DEF QueueOK
<1>6. /\ oo.role = "ENTRY" /\ oo.rank = o.rank /\ oo.status = "ACTIVE" /\ oo.capital = id
      /\ oo.price = o.price /\ oo.quantity = o.quantity /\ oo.filled = 0 /\ oo.column = o.column
      /\ oo.side = o.side /\ oo \in OrderSet(Len(positions))
    BY <1>1, <1>2, <1>3, <1>4 DEF OrderSet, Live
<1>7. orders' = [orders EXCEPT ![i] = oo]
    BY <1>1
<1> HIDE DEF oo
<1>8. Left(oo) = o.quantity /\ o.quantity \in Nat \ {0}
    <2>1. o.quantity \in 1..Lot /\ Lot \in Nat
        BY <1>2, <1>3, OrderFields
    <2>2. QED BY <1>6, <2>1 DEF Left
<1>9. OrderOK(oo, i \in Range(queue'), positions)
    <2>1. Backed(oo, positions[id])
        BY <1>1, <1>6, <1>8 DEF Backed
    <2>2. (i \in Range(queue')) = TRUE /\ id # None
        BY <1>2, <1>5 DEF None
    <2> HIDE DEF o
    <2>3. QED BY <1>4, <1>6, <1>8, <2>1, <2>2 DEF OrderOK, Live
<1>10. Apart(orders, i, oo, None)
    <2>1. ASSUME NEW j \in DOMAIN orders \ {i}, orders[j].status \in Live,
                 orders[j].role = "ENTRY", orders[j].capital = id
          PROVE  FALSE
        BY <1>1, <2>1 DEF OrdersOf
    <2>2. \A j \in DOMAIN orders : orders[j].status \in Live => orders[j].capital # None
        BY <1>2, NothingChanges
    <2>3. QED BY <1>6, <2>1, <2>2 DEF Apart
<1>11. Sound(orders', Range(queue'), positions)
    <2>1. After(positions, positions, None)
        BY <1>2, NothingChanges
    <2>2. \A j \in DOMAIN orders \ {i} : (j \in Range(queue')) = (j \in Range(queue))
        BY <1>5
    <2>3. QED BY <1>2, <1>6, <1>7, <1>9, <1>10, <2>1, <2>2, SoundStep
<1>12. GridFollowsHotline'
    <2>1. OnGrid(o, hotline) /\ \A j \in DOMAIN orders : OnGrid(orders[j], hotline)
        BY <1>2 DEF GridFollowsHotline, OnGrid
    <2>2. Target(oo, hotline) = Target(o, hotline)
        BY <1>6 DEF Target
    <2>3. OnGrid(oo, hotline)
        BY <1>1, <1>4, <1>6, <2>1, <2>2 DEF OnGrid
    <2>4. \A j \in DOMAIN orders' : OnGrid(orders'[j], hotline)
        BY <1>7, <2>1, <2>3
    <2>5. QED BY <1>1, <2>4 DEF GridFollowsHotline, OnGrid
<1>13. QED BY <1>1, <1>2, <1>5, <1>7, <1>11, <1>12 DEF IInv, QueueOK

\* submit_owned_return
LEMMA SubmitStep ==
    ASSUME IInv, NEW id \in DOMAIN positions, NEW price \in Price, NEW authorized \in BOOLEAN,
           NEW quantity \in 1..positions[id].quantity,
           SubmitOwnedReturn(id, price, quantity, authorized)
    PROVE  IInv'
<1> DEFINE p == positions[id]
           pp == [p EXCEPT !.state = "RETURN"]
           n == Len(orders) + 1
<1>1. PICK column \in {1, 2} :
          orders' = Append(orders,
              [Entry("SELL", 1, column, price) EXCEPT
                   !.rank = 0, !.role = "RETURN", !.status = "ACTIVE", !.capital = id,
                   !.quantity = quantity, !.authorized = authorized])
    BY DEF SubmitOwnedReturn
<1> DEFINE e == Entry("SELL", 1, column, price)
           o == [e EXCEPT !.rank = 0, !.role = "RETURN", !.status = "ACTIVE", !.capital = id,
                          !.quantity = quantity, !.authorized = authorized]
<1>2. orders' = Append(orders, o)
    BY <1>1
<1>3. /\ p.state \in {"INVENTORY", "RETURN"} /\ quantity <= p.quantity
      /\ OrdersOf(id, "RETURN") = {} /\ positions' = [positions EXCEPT ![id].state = "RETURN"]
      /\ queue' = Append(queue, n) /\ UNCHANGED <<hotline, inventory, dust>>
    BY DEF SubmitOwnedReturn, Returnable
<1>4. /\ Sound(orders, Range(queue), positions) /\ QueueOK /\ GridFollowsHotline
      /\ DOMAIN orders = 1..Len(orders) /\ Len(orders) \in Nat
      /\ DOMAIN positions = 1..Len(positions) /\ Len(positions) \in Nat
      /\ positions \in Seq(PositionSet) /\ \A x \in DOMAIN positions : PositionOK(positions[x])
      /\ orders \in Seq(OrderSet(Len(positions)))
    BY SoundMeans DEF IInv, Sound
<1>5. /\ p \in PositionSet /\ PositionOK(p) /\ p.quantity \in 0..Lot /\ Lot \in Nat /\ p.cash = 0
    <2>1. p \in PositionSet /\ PositionOK(p)
        BY <1>4, SoundMeans
    <2>2. QED BY <1>3, <2>1, PositionFields, PairAssumption DEF PositionOK
<1>6. /\ pp \in PositionSet /\ PositionOK(pp) /\ pp.state = "RETURN"
      /\ pp.quantity = p.quantity /\ positions' = [positions EXCEPT ![id] = pp]
    BY <1>3, <1>5 DEF PositionSet, PositionOK
<1>7. /\ After(positions, positions', id) /\ Len(positions') = Len(positions)
      /\ DOMAIN positions' = DOMAIN positions /\ positions'[id] = pp
      /\ \A x \in DOMAIN positions : positions'[x].quantity = positions[x].quantity
    <2> HIDE DEF pp
    <2>1. /\ After(positions, [positions EXCEPT ![id] = pp], id)
          /\ Len([positions EXCEPT ![id] = pp]) = Len(positions)
          /\ DOMAIN [positions EXCEPT ![id] = pp] = DOMAIN positions
        BY <1>4, <1>6, AfterChange
    <2>2. QED BY <1>6, <2>1
<1>8. Holds(positions') = Holds(positions)
    BY <1>7, HoldsSame
<1>9. n \notin Range(queue) /\ n \in Nat /\ n \notin DOMAIN orders
    BY <1>4 DEF QueueOK
<1>10. queue' \in Seq(Nat) /\ IsInjective(queue') /\ Range(queue') = Range(queue) \union {n}
    <2> HIDE DEF n
    <2>1. QED BY <1>3, <1>4, <1>9, PutLast DEF QueueOK
<1>11. o \in OrderSet(Len(positions'))
    <2>1. /\ price \in Nat \ {0} /\ quantity \in 1..Lot /\ id \in 0..Len(positions') /\ 0 \in 0..Lot
        BY <1>4, <1>5, <1>7, PairAssumption
    <2>2. QED BY <2>1 DEF OrderSet, Entry, None, Live
<1>12. /\ o.role = "RETURN" /\ o.status = "ACTIVE" /\ o.capital = id
       /\ o.quantity = quantity /\ o.filled = 0
    BY DEF Entry
<1> HIDE DEF o, pp
<1>13. Left(o) = quantity /\ quantity > 0 /\ quantity <= p.quantity /\ quantity \in Int
    BY <1>5, <1>12 DEF Left
<1>14. OrderOK(o, n \in Range(queue'), positions')
    <2>1. Backed(o, positions'[id])
        BY <1>5, <1>6, <1>7, <1>12, <1>13 DEF Backed
    <2>2. (n \in Range(queue')) = TRUE /\ id # None
        BY <1>4, <1>10 DEF None
    <2>3. QED BY <1>12, <1>13, <2>1, <2>2 DEF OrderOK, Live
<1>15. Apart(orders, n, o, id)
    <2>1. ASSUME NEW j \in DOMAIN orders, orders[j].status \in Live,
                 orders[j].role = "RETURN", orders[j].capital = id
          PROVE  FALSE
        BY <1>3, <2>1 DEF OrdersOf
    <2>2. ASSUME NEW j \in DOMAIN orders, orders[j].status \in Live, Left(orders[j]) > 0,
                 orders[j].capital = id
          PROVE  FALSE
        <3>1. /\ OrderOK(orders[j], j \in Range(queue), positions)
              /\ orders[j].role \in {"ENTRY", "RETURN"}
            BY <1>4, SoundMeans, OrderFields
        <3>2. Backed(orders[j], p)
            BY <2>2, <3>1 DEF OrderOK
        <3>3. orders[j].role = "RETURN"
            BY <1>3, <3>1, <3>2 DEF Backed
        <3>4. QED BY <2>1, <2>2, <3>3
    <2>3. QED BY <1>12, <2>1, <2>2 DEF Apart
<1>16. Sound(orders', Range(queue'), positions')
    <2>1. \A j \in DOMAIN orders : (j \in Range(queue')) = (j \in Range(queue))
        BY <1>9, <1>10
    <2>2. QED BY <1>2, <1>4, <1>7, <1>11, <1>14, <1>15, <2>1, SoundAppend
<1>17. /\ DOMAIN orders' = DOMAIN orders \union {n} /\ orders'[n] = o
       /\ \A j \in DOMAIN orders : orders'[j] = orders[j]
    <2>1. orders \in Seq(OrderSet(Len(positions'))) /\ orders' = Append(orders, o)
        BY <1>2, <1>4, <1>7
    <2>2. QED BY <1>11, <2>1, AppendMeans
<1>18. GridFollowsHotline'
    <2>1. OnGrid(o, hotline) /\ \A j \in DOMAIN orders : OnGrid(orders[j], hotline)
        BY <1>4, <1>12 DEF GridFollowsHotline, OnGrid
    <2>2. \A j \in DOMAIN orders' : OnGrid(orders'[j], hotline)
        BY <1>17, <2>1
    <2>3. QED BY <1>3, <2>2 DEF GridFollowsHotline, OnGrid
<1>19. Range(queue') \subseteq DOMAIN orders'
    BY <1>4, <1>10, <1>17 DEF QueueOK
<1>20. QED BY <1>3, <1>7, <1>8, <1>10, <1>16, <1>18, <1>19 DEF IInv, QueueOK

-----------------------------------------------------------------------------
(* Trades.                                                                 *)

\* The books a fill is applied to have the fields of Books.
IsBooks(m) ==
    m = [orders |-> m.orders, positions |-> m.positions, inventory |-> m.inventory, dust |-> m.dust]

\* An order after a fill of it.
Filled(o, amount) == [o EXCEPT !.filled = o.filled + amount, !.status = Status(o, amount)]

\* What a fill makes of a live order.
LEMMA FilledMeans ==
    ASSUME NEW n \in Nat, NEW o \in OrderSet(n), o.status \in Live, NEW amount \in 1..Left(o)
    PROVE  /\ Filled(o, amount) \in OrderSet(n)
           /\ Left(Filled(o, amount)) = Left(o) - amount
           /\ Filled(o, amount).side = o.side /\ Filled(o, amount).rank = o.rank
           /\ Filled(o, amount).column = o.column /\ Filled(o, amount).price = o.price
           /\ Filled(o, amount).role = o.role /\ Filled(o, amount).capital = o.capital
           /\ Filled(o, amount).replacement = o.replacement
           /\ Filled(o, amount).status =
                  IF o.status = "CANCEL_PENDING" THEN "CANCEL_PENDING"
                  ELSE IF Left(o) = amount THEN "FILLED" ELSE "PARTIAL"
<1> DEFINE oo == Filled(o, amount)
<1>1. /\ o.quantity \in 1..Lot /\ o.filled \in 0..Lot /\ Lot \in Nat
      /\ Left(o) = o.quantity - o.filled
    BY OrderFields DEF Left
<1>2. /\ amount \in Nat /\ o.filled + amount \in 0..Lot
      /\ (o.filled + amount = o.quantity) = (Left(o) = amount)
    BY <1>1
<1>3. Status(o, amount) = IF o.status = "CANCEL_PENDING" THEN "CANCEL_PENDING"
                          ELSE IF Left(o) = amount THEN "FILLED" ELSE "PARTIAL"
    BY <1>2 DEF Status
<1>4. Status(o, amount) \in Live \union {"FILLED"}
    BY <1>3 DEF Live
<1>5. oo \in OrderSet(n)
    BY <1>2, <1>4 DEF OrderSet, Filled
<1>6. /\ oo.filled = o.filled + amount /\ oo.status = Status(o, amount)
      /\ oo.side = o.side /\ oo.rank = o.rank /\ oo.column = o.column /\ oo.price = o.price
      /\ oo.role = o.role /\ oo.capital = o.capital /\ oo.quantity = o.quantity
      /\ oo.replacement = o.replacement
    BY DEF OrderSet, Filled
<1> HIDE DEF oo
<1>7. Left(oo) = Left(o) - amount
    BY <1>1, <1>2, <1>6 DEF Left
<1>8. QED BY <1>3, <1>5, <1>6, <1>7 DEF oo

\* The books after the fill of an entry, field by field ...
LEMMA EntryFields ==
    ASSUME NEW m, IsBooks(m), NEW i \in DOMAIN m.orders, NEW amount,
           m.orders[i].role = "ENTRY", NEW mm, mm = FillOne(m, i, amount)
    PROVE  LET o == m.orders[i]
               input == amount * o.price
               p == m.positions[o.capital]
           IN  /\ IsBooks(mm)
               /\ mm.orders = [m.orders EXCEPT ![i] = Filled(o, amount)]
               /\ mm.inventory = m.inventory + amount /\ mm.dust = m.dust
               /\ input = p.cash =>
                      mm.positions = [m.positions EXCEPT ![o.capital] = Inventory(amount, o.price)]
               /\ input # p.cash =>
                      mm.positions = Append([m.positions EXCEPT ![o.capital].cash = p.cash - input],
                                            Inventory(amount, o.price))
BY DEF IsBooks, FillOne, EntryFilled, Filled

\* ... and of a return.
LEMMA ReturnFields ==
    ASSUME NEW m, IsBooks(m), NEW i \in DOMAIN m.orders, NEW amount,
           m.orders[i].role # "ENTRY", NEW mm, mm = FillOne(m, i, amount)
    PROVE  LET o == m.orders[i]
               p == m.positions[o.capital]
               left == p.quantity - amount
               complete == o.filled + amount = o.quantity
           IN  /\ IsBooks(mm)
               /\ mm.orders = [m.orders EXCEPT ![i] = Filled(o, amount)]
               /\ mm.inventory = m.inventory - amount
               /\ mm.dust = IF complete THEN m.dust + left ELSE m.dust
               /\ mm.positions = [m.positions EXCEPT ![o.capital] =
                                      IF complete THEN Gone ELSE [p EXCEPT !.quantity = left]]
BY DEF IsBooks, FillOne, ReturnFilled, Filled

\* A live order is filled and the position behind it changes.
LEMMA FillSound ==
    ASSUME NEW O, NEW S, NEW P, Sound(O, S, P), NEW i \in DOMAIN O, i \in S,
           O[i].status \in Live, NEW amount \in 1..Left(O[i]),
           NEW PP, After(P, PP, O[i].capital),
           Left(O[i]) > amount => Backed(Filled(O[i], amount), PP[O[i].capital])
    PROVE  Sound([O EXCEPT ![i] = Filled(O[i], amount)], S, PP)
<1> DEFINE o == O[i]
           oo == Filled(o, amount)
<1>1. /\ Len(P) \in Nat /\ o \in OrderSet(Len(P)) /\ OrderOK(o, i \in S, P)
      /\ Len(PP) \in Nat /\ Len(P) <= Len(PP) /\ o.capital \in DOMAIN P /\ DOMAIN P = 1..Len(P)
    BY SoundMeans, SeqMeans DEF After
<1>2. o \in OrderSet(Len(PP)) /\ Left(o) \in Int /\ amount \in Int /\ amount <= Left(o) /\ amount > 0
    BY <1>1, OrderSetGrows, OrderFields
<1>3. /\ oo \in OrderSet(Len(PP)) /\ Left(oo) = Left(o) - amount
      /\ oo.role = o.role /\ oo.rank = o.rank /\ oo.capital = o.capital
      /\ oo.status = IF o.status = "CANCEL_PENDING" THEN "CANCEL_PENDING"
                     ELSE IF Left(o) = amount THEN "FILLED" ELSE "PARTIAL"
    <2> HIDE DEF o
    <2>1. o.status \in Live
        BY DEF o
    <2>2. amount \in 1..Left(o)
        BY DEF o
    <2>3. QED BY <1>1, <1>2, <2>1, <2>2, FilledMeans
<1>4. OrderOK(oo, i \in S, PP)
    <2>1. /\ (i \in S) = TRUE /\ o.capital # None /\ oo.status # "UNFUNDED"
          /\ oo.status \in {"CANCEL_PENDING", "FILLED", "PARTIAL"}
        BY <1>1, <1>3 DEF None
    <2>2. Left(oo) > 0 => Backed(oo, PP[oo.capital])
        BY <1>2, <1>3
    <2>3. /\ o.role = "ENTRY" => o.rank \in Rank
          /\ o.status = "CANCEL_PENDING" => o.role = "ENTRY"
        BY <1>1 DEF OrderOK
    <2>4. oo.status \in {"ACTIVE", "PARTIAL"} => Left(oo) > 0
        BY <1>2, <1>3
    <2>5. oo.status = "FILLED" => Left(oo) = 0
        BY <1>2, <1>3
    <2>6. Left(oo) >= 0
        BY <1>2, <1>3
    <2>7. oo.status = "CANCEL_PENDING" => oo.role = "ENTRY"
        BY <1>3, <2>3
    <2>8. oo.role = "ENTRY" => oo.rank \in Rank
        BY <1>3, <2>3
    <2>9. oo.capital # None
        BY <1>3, <2>1
    <2> HIDE DEF o, oo
    <2>10. QED BY <2>1, <2>2, <2>4, <2>5, <2>6, <2>7, <2>8, <2>9 DEF OrderOK, Live
<1>5. Apart(O, i, oo, o.capital)
    <2>1. \A j \in DOMAIN O \ {i} : O[j].status \in Live /\ Left(O[j]) > 0 => O[j].capital # o.capital
        BY <1>2, SoleWorker
    <2>2. \A j \in DOMAIN O \ {i} :
              O[j].status \in Live => O[j].role # oo.role \/ O[j].capital # oo.capital
        BY <1>3 DEF Sound, Alone
    <2>3. QED BY <2>1, <2>2 DEF Apart
<1> HIDE DEF oo
<1>6. Sound([O EXCEPT ![i] = oo], S, PP)
    <2> DEFINE cap == o.capital
    <2>1. After(P, PP, cap) /\ Apart(O, i, oo, cap)
        BY <1>5
    <2> HIDE DEF cap, o
    <2>2. QED BY <1>3, <1>4, <2>1, SoundStep
<1>7. QED BY <1>6 DEF oo

\* A fill leaves an order on the grid.
LEMMA FillOnGrid ==
    ASSUME NEW n \in Nat, NEW o \in OrderSet(n), o.status \in Live, NEW amount \in 1..Left(o),
           NEW h, OnGrid(o, h)
    PROVE  OnGrid(Filled(o, amount), h)
<1> DEFINE oo == Filled(o, amount)
<1>1. /\ oo.side = o.side /\ oo.rank = o.rank /\ oo.column = o.column /\ oo.price = o.price
      /\ oo.role = o.role /\ oo.replacement = o.replacement
      /\ oo.status = IF o.status = "CANCEL_PENDING" THEN "CANCEL_PENDING"
                     ELSE IF Left(o) = amount THEN "FILLED" ELSE "PARTIAL"
    BY FilledMeans
<1> HIDE DEF oo
<1>2. Target(oo, h) = Target(o, h)
    BY <1>1 DEF Target
<1>3. oo.status \in {"UNFUNDED", "ACTIVE", "PARTIAL"} => o.status \in {"UNFUNDED", "ACTIVE", "PARTIAL"}
    BY <1>1 DEF Live
<1>4. oo.status = "CANCEL_PENDING" => o.status = "CANCEL_PENDING"
    BY <1>1
<1>5. OnGrid(oo, h)
    BY <1>1, <1>2, <1>3, <1>4 DEF OnGrid
<1>6. QED BY <1>5 DEF oo

\* What is left of an order costs what it did, less what its fill cost.
LEMMA CostLeft ==
    ASSUME NEW price \in Nat \ {0}, NEW left \in Nat, NEW amount \in 1..left, NEW cash \in Nat,
           cash >= price * left
    PROVE  /\ amount * price \in Nat /\ amount * price <= cash
           /\ cash - amount * price >= price * (left - amount)
           /\ amount * price = cash => amount = left
<1>1. price * left = price * amount + price * (left - amount)
    BY SMT
<1>2. amount * price = price * amount /\ price * amount \in Nat /\ price * (left - amount) \in Nat
    BY SMT
<1>3. left - amount > 0 => price * (left - amount) > 0
    <2>1. SUFFICES ASSUME left - amount >= 1 PROVE price * (left - amount) > 0
        BY SMT
    <2>2. price * (left - amount) >= price * 1
        BY <2>1, SMT
    <2>3. QED BY <2>2
<1> DEFINE x == price * amount
           y == price * (left - amount)
<1>4. x \in Nat /\ y \in Nat /\ amount * price = x /\ cash >= x + y /\ (left - amount > 0 => y > 0)
    BY <1>1, <1>2, <1>3
<1> HIDE DEF x
<1> SUFFICES x \in Nat /\ x <= cash /\ cash - x >= y /\ (x = cash => amount = left)
    BY <1>4
<1> HIDE DEF y
<1>5. QED BY <1>4

\* What position id has less in the books of PP and OO than in those of P and O
\* has been paid for the fills of order i.
Paid(O, P, OO, PP, id, i) ==
    /\ O[i].capital = id /\ O[i].role = "ENTRY" /\ O[i].status \in Live /\ Left(O[i]) > 0
    /\ P[id].cash - PP[id].cash = (OO[i].filled - O[i].filled) * O[i].price

\* The books mm are the sound result of a fill of order i in the books m.
FillOf(m, mm, i, S) ==
    /\ IsBooks(mm)
    /\ Sound(mm.orders, S, mm.positions)
    /\ DOMAIN mm.orders = DOMAIN m.orders
    /\ \A j \in DOMAIN m.orders \ {i} : mm.orders[j] = m.orders[j]
    /\ \A h : OnGrid(m.orders[i], h) => OnGrid(mm.orders[i], h)
    /\ mm.dust \in Nat
    /\ Len(m.positions) <= Len(mm.positions)
    /\ \A id \in DOMAIN m.positions :
           m.positions[id].state \notin {"RETURN", "GONE"} => mm.positions[id].state \notin {"RETURN", "GONE"}
    /\ \A id \in DOMAIN m.positions :
           mm.positions[id].cash # m.positions[id].cash =>
               Paid(m.orders, m.positions, mm.orders, mm.positions, id, i)
    /\ /\ Len(mm.positions) <= MaxCapital
       /\ m.inventory = m.dust + Holds(m.positions)
       => mm.inventory = mm.dust + Holds(mm.positions)

\* What record_entry_fill does to the positions ...
Charged(P, PP, cap, amount, price, input) ==
    /\ input = P[cap].cash => PP = [P EXCEPT ![cap] = Inventory(amount, price)]
    /\ input # P[cap].cash =>
           PP = Append([P EXCEPT ![cap].cash = P[cap].cash - input], Inventory(amount, price))

\* ... and what that means for them.
ChargeOf(P, PP, cap, amount, input) ==
    /\ After(P, PP, cap)
    /\ PP[cap].state \in {"INVENTORY", P[cap].state}
    /\ PP[cap].cash = P[cap].cash - input
    /\ input # P[cap].cash => PP[cap].state = P[cap].state
    /\ Len(PP) <= MaxCapital => Holds(PP) = Holds(P) + amount

\* It adds as much inventory as was filled.
LEMMA EntryPositions ==
    ASSUME NEW P, P \in Seq(PositionSet), \A id \in DOMAIN P : PositionOK(P[id]),
           NEW cap \in DOMAIN P, P[cap].state \in {"RESERVED", "CANCEL_PENDING"},
           NEW amount \in 1..Lot, NEW price \in Nat, NEW input \in Nat, input <= P[cap].cash,
           NEW PP, Charged(P, PP, cap, amount, price, input)
    PROVE  ChargeOf(P, PP, cap, amount, input)
<1> DEFINE p == P[cap]
           v == Inventory(amount, price)
           rest == [p EXCEPT !.cash = p.cash - input]
           P1 == [P EXCEPT ![cap] = rest]
<1>1. /\ p \in PositionSet /\ PositionOK(p) /\ p.cash \in Nat /\ Lot \in Nat
      /\ Len(P) \in Nat /\ DOMAIN P = 1..Len(P) /\ Holds(P) \in Nat
    BY SeqMeans, PositionFields, PairAssumption, HoldsNat
<1>2. p.quantity = 0
    BY <1>1 DEF PositionOK
<1>3. /\ v \in PositionSet /\ PositionOK(v) /\ v.quantity = amount /\ v.state = "INVENTORY"
      /\ v.cash = 0
    BY <1>1 DEF Inventory, PositionSet, PositionOK
<1>4. /\ rest \in PositionSet /\ PositionOK(rest) /\ rest.quantity = 0 /\ rest.state = p.state
      /\ rest.cash = p.cash - input
    <2>1. p.cash - input \in Nat /\ p.state \in {"RESERVED", "CANCEL_PENDING"}
        BY <1>1
    <2> HIDE DEF p
    <2>2. QED BY <1>1, <1>2, <2>1 DEF PositionSet, PositionOK
<1> HIDE DEF v
<1>5. CASE input = p.cash
    <2>1. PP = [P EXCEPT ![cap] = v]
        BY <1>5 DEF v, Charged
    <2>2. /\ After(P, [P EXCEPT ![cap] = v], cap) /\ Len([P EXCEPT ![cap] = v]) = Len(P)
          /\ DOMAIN [P EXCEPT ![cap] = v] = DOMAIN P
        BY <1>3, AfterChange
    <2>3. /\ After(P, PP, cap) /\ Len(PP) = Len(P) /\ DOMAIN PP = DOMAIN P /\ PP[cap] = v
          /\ \A id \in DOMAIN P \ {cap} : PP[id] = P[id]
        BY <2>1, <2>2
    <2>4. Len(PP) <= MaxCapital => Holds(PP) = Holds(P) + PP[cap].quantity - P[cap].quantity
        BY <2>3, HoldsChange DEF After
    <2>5. Len(PP) <= MaxCapital => Holds(PP) = Holds(P) + amount
        <3>1. PP[cap].quantity = amount /\ P[cap].quantity = 0 /\ amount \in Nat
            BY <1>1, <1>2, <1>3, <2>3
        <3>2. Len(PP) <= MaxCapital => Holds(PP) = Holds(P) + amount - 0
            BY <2>4, <3>1
        <3>3. QED BY <1>1, <3>1, <3>2
    <2>6. PP[cap].cash = P[cap].cash - input
        BY <1>1, <1>3, <1>5, <2>3
    <2>7. QED BY <1>3, <1>5, <2>3, <2>5, <2>6 DEF ChargeOf
<1>6. CASE input # p.cash
    <2>1. PP = Append(P1, v)
        BY <1>6 DEF v, Charged
    <2> HIDE DEF rest
    <2>2. /\ After(P, P1, cap) /\ Len(P1) = Len(P) /\ DOMAIN P1 = DOMAIN P /\ P1[cap] = rest
          /\ \A id \in DOMAIN P \ {cap} : P1[id] = P[id]
        BY <1>4, AfterChange
    <2> HIDE DEF P1
    <2>3. P1 \in Seq(PositionSet) /\ \A id \in DOMAIN P1 : PositionOK(P1[id])
        BY <2>2 DEF After
    <2>4. After(P1, Append(P1, v), cap) /\ Len(Append(P1, v)) = Len(P1) + 1
        BY <1>3, <2>3, AfterAppend
    <2>5. After(P, PP, cap)
        BY <2>1, <2>2, <2>4, AfterBoth
    <2>6. PP[cap] = rest
        <3>1. cap \in DOMAIN P1
            BY <2>2
        <3>2. Append(P1, v)[cap] = P1[cap]
            BY <1>3, <2>3, <3>1, AppendMeans
        <3>3. QED BY <2>1, <2>2, <3>2
    <2>7. Len(PP) <= MaxCapital => Holds(PP) = Holds(P) + amount
        <3> SUFFICES ASSUME Len(PP) <= MaxCapital PROVE Holds(PP) = Holds(P) + amount
            OBVIOUS
        <3>1. Len(P) + 1 <= MaxCapital /\ MaxCapital \in Nat
            BY <2>1, <2>2, <2>4, PairAssumption
        <3>2. Len(P) <= MaxCapital
            BY <1>1, <3>1
        <3>3. Holds(P1) = Holds(P) + P1[cap].quantity - P[cap].quantity
            BY <2>2, <2>3, <3>2, HoldsChange
        <3>4. P1[cap].quantity = 0 /\ P[cap].quantity = 0
            BY <1>2, <1>4, <2>2
        <3>5. Holds(P1) = Holds(P)
            BY <1>1, <3>3, <3>4
        <3>6. Holds(Append(P1, v)) = Holds(P1) + v.quantity
            BY <1>3, <2>2, <2>3, <3>1, HoldsAppend
        <3>7. QED BY <1>3, <2>1, <3>5, <3>6
    <2>8. QED BY <1>4, <1>6, <2>5, <2>6, <2>7 DEF ChargeOf
<1>7. QED BY <1>5, <1>6

\* record_entry_fill, after consume_public_trade's update of the order.
LEMMA EntryFill ==
    ASSUME NEW m, IsBooks(m), NEW S, Sound(m.orders, S, m.positions), m.dust \in Nat,
           NEW i \in DOMAIN m.orders, i \in S, m.orders[i].status \in Live,
           m.orders[i].role = "ENTRY", NEW amount \in 1..Left(m.orders[i]),
           NEW mm, mm = FillOne(m, i, amount)
    PROVE  FillOf(m, mm, i, S)
<1> DEFINE O == m.orders
           P == m.positions
           o == O[i]
           cap == o.capital
           p == P[cap]
           input == amount * o.price
<1>1. /\ IsBooks(mm) /\ mm.orders = [O EXCEPT ![i] = Filled(o, amount)]
      /\ mm.inventory = m.inventory + amount /\ mm.dust = m.dust
      /\ input = p.cash => mm.positions = [P EXCEPT ![cap] = Inventory(amount, o.price)]
      /\ input # p.cash => mm.positions = Append([P EXCEPT ![cap].cash = p.cash - input],
                                                 Inventory(amount, o.price))
    BY EntryFields
<1>2. /\ Len(P) \in Nat /\ o \in OrderSet(Len(P)) /\ OrderOK(o, i \in S, P)
      /\ cap \in DOMAIN P /\ P \in Seq(PositionSet) /\ \A id \in DOMAIN P : PositionOK(P[id])
      /\ p \in PositionSet
    BY SoundMeans DEF Sound
<1>3. /\ Left(o) \in Nat /\ Left(o) > 0 /\ o.price \in Nat \ {0} /\ p.cash \in Nat
      /\ o.quantity \in 1..Lot /\ o.filled \in 0..Lot /\ Lot \in Nat /\ amount \in 1..Lot
    <2>1. /\ Left(o) \in Int /\ o.price \in Nat \ {0} /\ p.cash \in Nat
          /\ o.quantity \in 1..Lot /\ o.filled \in 0..Lot /\ Lot \in Nat
        BY <1>2, OrderFields, PositionFields
    <2>2. amount \in 1..Left(o) /\ Left(o) = o.quantity - o.filled
        BY DEF Left
    <2> HIDE DEF o, p, O, P
    <2>3. QED BY <2>1, <2>2
<1>4. /\ p.state = IF o.status = "CANCEL_PENDING" THEN "CANCEL_PENDING" ELSE "RESERVED"
      /\ p.cash >= o.price * Left(o)
    BY <1>2, <1>3 DEF OrderOK, Backed
<1>5. /\ input \in Nat /\ input <= p.cash
      /\ p.cash - input >= o.price * (Left(o) - amount)
      /\ input = p.cash => amount = Left(o)
    <2> DEFINE left == Left(o)
               price == o.price
               cash == p.cash
    <2>1. price \in Nat \ {0} /\ left \in Nat /\ amount \in 1..left /\ cash \in Nat /\ cash >= price * left
        BY <1>3, <1>4
    <2> HIDE DEF left, price, cash
    <2>2. /\ amount * price \in Nat /\ amount * price <= cash
          /\ cash - amount * price >= price * (left - amount)
          /\ amount * price = cash => amount = left
        BY <2>1, CostLeft
    <2>3. QED BY <2>2 DEF left, price, cash
<1>6. p.state \in {"RESERVED", "CANCEL_PENDING"} /\ o.price \in Nat
    BY <1>3, <1>4
<1> DEFINE PP == mm.positions
<1>7. /\ After(P, PP, cap) /\ PP[cap].state \in {"INVENTORY", p.state}
      /\ PP[cap].cash = p.cash - input
      /\ input # p.cash => PP[cap].state = p.state
      /\ Len(PP) <= MaxCapital => Holds(PP) = Holds(P) + amount
    <2> DEFINE price == o.price
    <2>1. Charged(P, PP, cap, amount, price, input)
        BY <1>1 DEF Charged
    <2>2. price \in Nat /\ input \in Nat /\ input <= p.cash /\ amount \in 1..Lot /\ cap \in DOMAIN P
          /\ P \in Seq(PositionSet) /\ (\A id \in DOMAIN P : PositionOK(P[id]))
          /\ P[cap].state \in {"RESERVED", "CANCEL_PENDING"}
        BY <1>2, <1>3, <1>5, <1>6
    <2> HIDE DEF price, input, PP, cap, o, O, P
    <2>3. ChargeOf(P, PP, cap, amount, input)
        BY <2>1, <2>2, EntryPositions
    <2>4. QED BY <2>3 DEF ChargeOf
<1>8. Left(o) > amount => Backed(Filled(o, amount), PP[cap])
    <2> SUFFICES ASSUME Left(o) > amount PROVE Backed(Filled(o, amount), PP[cap])
        OBVIOUS
    <2>1. /\ Left(Filled(o, amount)) = Left(o) - amount /\ Filled(o, amount).price = o.price
          /\ Filled(o, amount).role = "ENTRY"
          /\ Filled(o, amount).status = "CANCEL_PENDING" <=> o.status = "CANCEL_PENDING"
        BY <1>2, FilledMeans
    <2>2. input # p.cash
        BY <1>3, <1>5
    <2>3. /\ PP[cap].cash >= o.price * (Left(o) - amount)
          /\ PP[cap].state = IF o.status = "CANCEL_PENDING" THEN "CANCEL_PENDING" ELSE "RESERVED"
        BY <1>4, <1>5, <1>7, <2>2
    <2> HIDE DEF PP, cap, o, p, input
    <2>4. QED BY <2>1, <2>3 DEF Backed
<1>9. Sound(mm.orders, S, PP)
    <2>1. Sound([O EXCEPT ![i] = Filled(O[i], amount)], S, PP)
        BY <1>7, <1>8, FillSound
    <2>2. QED BY <1>1, <2>1
<1>10. /\ DOMAIN mm.orders = DOMAIN O /\ mm.orders[i] = Filled(o, amount)
       /\ \A j \in DOMAIN O \ {i} : mm.orders[j] = O[j]
    BY <1>1
<1>11. \A h : OnGrid(o, h) => OnGrid(mm.orders[i], h)
    BY <1>2, <1>10, FillOnGrid
<1>12. \A id \in DOMAIN P : P[id].state \notin {"RETURN", "GONE"} => PP[id].state \notin {"RETURN", "GONE"}
    <2>1. PP[cap].state \notin {"RETURN", "GONE"}
        BY <1>6, <1>7
    <2>2. \A id \in DOMAIN P \ {cap} : PP[id] = P[id]
        BY <1>7 DEF After
    <2>3. QED BY <2>1, <2>2
<1>13. /\ Len(PP) <= MaxCapital /\ m.inventory = m.dust + Holds(P)
       => mm.inventory = mm.dust + Holds(PP)
    <2>1. Holds(P) \in Nat
        BY <1>2, HoldsNat
    <2>2. QED BY <1>1, <1>3, <1>7, <2>1
<1>14. Len(P) <= Len(PP)
    BY <1>7 DEF After
<1>15. ASSUME NEW id \in DOMAIN P, PP[id].cash # P[id].cash
       PROVE  Paid(O, P, mm.orders, PP, id, i)
    <2>1. id = cap
        BY <1>7, <1>15 DEF After
    <2>2. P[id].cash - PP[id].cash = input
        <3> HIDE DEF input, P, PP, p
        <3>1. P[cap].cash \in Nat /\ PP[cap].cash = P[cap].cash - input /\ input \in Nat
            BY <1>3, <1>5, <1>7 DEF p
        <3>2. QED BY <2>1, <3>1
    <2>3. mm.orders[i].filled - o.filled = amount
        <3>1. Filled(o, amount).filled = o.filled + amount
            BY <1>2 DEF Filled, OrderSet
        <3> HIDE DEF o
        <3>2. o.filled \in Nat /\ amount \in Nat
            BY <1>3
        <3>3. QED BY <1>10, <3>1, <3>2
    <2>4. Left(O[i]) > 0
        BY <1>3
    <2> HIDE DEF P, PP
    <2>5. QED BY <2>1, <2>2, <2>3, <2>4 DEF Paid
<1>16. QED BY <1>1, <1>9, <1>10, <1>11, <1>12, <1>13, <1>14, <1>15 DEF FillOf

\* What is left of a position after a sale.
Sold(p, complete, left) == IF complete THEN Gone ELSE [p EXCEPT !.quantity = left]

\* It is a position like any other.
LEMMA SoldMeans ==
    ASSUME NEW p \in PositionSet, PositionOK(p), p.state = "RETURN",
           NEW complete \in BOOLEAN, NEW left \in 0..p.quantity
    PROVE  /\ Sold(p, complete, left) \in PositionSet /\ PositionOK(Sold(p, complete, left))
           /\ Sold(p, complete, left).quantity = IF complete THEN 0 ELSE left
           /\ ~complete => Sold(p, complete, left).state = "RETURN"
<1>1. p.quantity \in 0..Lot /\ Lot \in Nat /\ left \in 0..Lot
    BY PositionFields, PairAssumption
<1>2. CASE complete
    <2>1. Sold(p, complete, left) = Gone
        BY <1>2 DEF Sold
    <2>2. Gone \in PositionSet /\ PositionOK(Gone) /\ Gone.quantity = 0
        BY <1>1 DEF Gone, PositionSet, PositionOK
    <2>3. QED BY <1>2, <2>1, <2>2
<1>3. CASE ~complete
    <2> DEFINE q == [p EXCEPT !.quantity = left]
    <2>1. Sold(p, complete, left) = q
        BY <1>3 DEF Sold
    <2>2. q \in PositionSet /\ q.quantity = left /\ q.state = "RETURN" /\ q.cash = p.cash
        BY <1>1 DEF PositionSet
    <2> HIDE DEF q
    <2>3. PositionOK(q)
        BY <2>2 DEF PositionOK
    <2>4. QED BY <1>3, <2>1, <2>2, <2>3
<1>4. QED BY <1>2, <1>3

\* _settle_owned_return, after consume_public_trade's update of the order.
LEMMA ReturnFill ==
    ASSUME NEW m, IsBooks(m), NEW S, Sound(m.orders, S, m.positions), m.dust \in Nat,
           NEW i \in DOMAIN m.orders, i \in S, m.orders[i].status \in Live,
           m.orders[i].role # "ENTRY", NEW amount \in 1..Left(m.orders[i]),
           NEW mm, mm = FillOne(m, i, amount)
    PROVE  FillOf(m, mm, i, S)
<1> DEFINE O == m.orders
           P == m.positions
           o == O[i]
           cap == o.capital
           p == P[cap]
           left == p.quantity - amount
           complete == o.filled + amount = o.quantity
           pp == Sold(p, complete, left)
           PP == [P EXCEPT ![cap] = pp]
<1>1. /\ IsBooks(mm) /\ mm.orders = [O EXCEPT ![i] = Filled(o, amount)]
      /\ mm.inventory = m.inventory - amount
      /\ mm.dust = IF complete THEN m.dust + left ELSE m.dust
      /\ mm.positions = PP
    BY ReturnFields DEF Sold
<1>2. /\ Len(P) \in Nat /\ o \in OrderSet(Len(P)) /\ OrderOK(o, i \in S, P)
      /\ cap \in DOMAIN P /\ P \in Seq(PositionSet) /\ \A id \in DOMAIN P : PositionOK(P[id])
      /\ p \in PositionSet
    BY SoundMeans DEF Sound
<1>3. /\ Left(o) \in Nat /\ Left(o) > 0 /\ amount \in Nat /\ amount > 0 /\ amount <= Left(o)
      /\ p.quantity \in Nat /\ o.role = "RETURN"
      /\ o.quantity \in Nat /\ o.filled \in Nat /\ Left(o) = o.quantity - o.filled
    <2>1. /\ Left(o) \in Int /\ p.quantity \in Nat /\ o.role \in {"ENTRY", "RETURN"}
          /\ o.quantity \in 1..Lot /\ o.filled \in 0..Lot /\ Lot \in Nat
        BY <1>2, OrderFields, PositionFields
    <2>2. amount \in 1..Left(o) /\ Left(o) = o.quantity - o.filled /\ o.role # "ENTRY"
        BY DEF Left
    <2> HIDE DEF o, p, O, P
    <2>3. QED BY <2>1, <2>2
<1>4. p.state = "RETURN" /\ p.quantity >= Left(o)
    BY <1>2, <1>3 DEF OrderOK, Backed
<1>5. (complete <=> Left(o) = amount) /\ left \in 0..p.quantity /\ complete \in BOOLEAN
    <2> HIDE DEF o, p
    <2>1. QED BY <1>3, <1>4
<1>6. /\ pp \in PositionSet /\ PositionOK(pp) /\ pp.quantity = IF complete THEN 0 ELSE left
      /\ ~complete => pp.state = "RETURN"
    <2>1. p \in PositionSet /\ PositionOK(p) /\ p.state = "RETURN"
        BY <1>2, <1>4
    <2> HIDE DEF left, complete, p
    <2>2. QED BY <1>5, <2>1, SoldMeans DEF left
<1> HIDE DEF left, complete, pp
<1>7. /\ After(P, PP, cap) /\ Len(PP) = Len(P) /\ DOMAIN PP = DOMAIN P /\ PP[cap] = pp
      /\ \A id \in DOMAIN P \ {cap} : PP[id] = P[id]
    BY <1>2, <1>6, AfterChange
<1> HIDE DEF PP
<1>8. Left(o) > amount => Backed(Filled(o, amount), PP[cap])
    <2> SUFFICES ASSUME Left(o) > amount PROVE Backed(Filled(o, amount), PP[cap])
        OBVIOUS
    <2>1. Left(Filled(o, amount)) = Left(o) - amount /\ Filled(o, amount).role = "RETURN"
        BY <1>2, <1>3, FilledMeans
    <2>2. PP[cap].state = "RETURN" /\ PP[cap].quantity = p.quantity - amount
        <3>1. ~complete
            <4>1. Left(o) # amount
                BY <1>3
            <4>2. QED BY <1>5, <4>1
        <3>2. pp.state = "RETURN" /\ pp.quantity = left
            BY <1>6, <3>1
        <3>3. QED BY <1>7, <3>2 DEF left
    <2> HIDE DEF cap, o, p
    <2>3. QED BY <1>3, <1>4, <2>1, <2>2 DEF Backed
<1>9. Sound(mm.orders, S, mm.positions)
    <2>1. Sound([O EXCEPT ![i] = Filled(O[i], amount)], S, PP)
        BY <1>7, <1>8, FillSound
    <2>2. QED BY <1>1, <2>1
<1>10. /\ DOMAIN mm.orders = DOMAIN O /\ mm.orders[i] = Filled(o, amount)
       /\ \A j \in DOMAIN O \ {i} : mm.orders[j] = O[j]
    BY <1>1
<1>11. \A h : OnGrid(o, h) => OnGrid(mm.orders[i], h)
    BY <1>2, <1>10, FillOnGrid
<1>12. \A id \in DOMAIN P : P[id].state \notin {"RETURN", "GONE"} => PP[id].state \notin {"RETURN", "GONE"}
    BY <1>4, <1>7
<1>13. /\ Len(PP) <= MaxCapital /\ m.inventory = m.dust + Holds(P)
       => mm.inventory = mm.dust + Holds(PP)
    <2> SUFFICES ASSUME Len(PP) <= MaxCapital, m.inventory = m.dust + Holds(P)
                 PROVE  mm.inventory = mm.dust + Holds(PP)
        OBVIOUS
    <2>1. Holds(P) \in Nat
        BY <1>2, HoldsNat
    <2>2. Holds(PP) = Holds(P) + PP[cap].quantity - P[cap].quantity
        <3>1. Len(P) <= MaxCapital /\ PP \in Seq(PositionSet)
            BY <1>7 DEF After
        <3>2. QED BY <1>2, <1>7, <3>1, HoldsChange
    <2>3. Holds(PP) = Holds(P) + pp.quantity - p.quantity
        BY <1>7, <2>2
    <2>4. left = p.quantity - amount /\ left \in Nat
        BY <1>3, <1>5 DEF left
    <2> HIDE DEF p
    <2>5. CASE complete
        BY <1>1, <1>3, <1>6, <2>1, <2>3, <2>4, <2>5
    <2>6. CASE ~complete
        BY <1>1, <1>3, <1>6, <2>1, <2>3, <2>4, <2>6
    <2>7. QED BY <2>5, <2>6
<1>14. mm.dust \in Nat
    BY <1>1, <1>3, <1>5
<1>15. \A id \in DOMAIN P : PP[id].cash = P[id].cash
    <2>1. p.cash = 0
        BY <1>2, <1>4 DEF PositionOK
    <2>2. pp.cash = 0
        BY <1>2, <2>1 DEF pp, Sold, Gone, PositionSet
    <2>3. QED BY <1>7, <2>1, <2>2
<1>16. QED BY <1>1, <1>2, <1>7, <1>9, <1>10, <1>11, <1>12, <1>13, <1>14, <1>15 DEF FillOf

\* A fill of either kind.
LEMMA FillStep ==
    ASSUME NEW m, IsBooks(m), NEW S, Sound(m.orders, S, m.positions), m.dust \in Nat,
           NEW i \in DOMAIN m.orders, i \in S, m.orders[i].status \in Live,
           NEW amount \in 1..Left(m.orders[i])
    PROVE  FillOf(m, FillOne(m, i, amount), i, S)
<1>1. CASE m.orders[i].role = "ENTRY"
    BY <1>1, EntryFill
<1>2. CASE m.orders[i].role # "ENTRY"
    BY <1>2, ReturnFill
<1>3. QED BY <1>1, <1>2

\* One turn of the fills.
Turn(m, i, amounts) ==
    IF i \in DOMAIN amounts /\ amounts[i] > 0 THEN FillOne(m, i, amounts[i]) ELSE m

\* The books after each turn of a trade.
LEMMA TurnsExist ==
    ASSUME NEW amounts, Len(queue) \in Nat
    PROVE  \E m : /\ m[0] = Books
                  /\ \A k \in 1..Len(queue) : m[k] = Turn(m[k - 1], queue[k], amounts)
                  /\ FilledInTurn(amounts) = m[Len(queue)]
<1> DEFINE N == Len(queue)
           Is(f, n) == f = [k \in 0..n |->
               IF k = 0 THEN Books
               ELSE LET i == queue[k]
                    IN  IF i \in DOMAIN amounts /\ amounts[i] > 0
                        THEN FillOne(f[k - 1], i, amounts[i]) ELSE f[k - 1]]
           T == {n \in Nat : ~ \E f : Is(f, n)}
<1>1. T = {}
    <2> SUFFICES ASSUME T # {} PROVE FALSE
        OBVIOUS
    <2>1. PICK n \in T : \A j \in Nat : j < n => j \notin T
        <3>1. T \in SUBSET Nat
            OBVIOUS
        <3> HIDE DEF T
        <3>2. QED BY <3>1, LeastElement
    <2>2. n \in Nat /\ ~ \E f : Is(f, n)
        OBVIOUS
    <2>3. CASE n = 0
        <3> DEFINE f == [k \in 0..0 |-> Books]
        <3>1. \A k \in 0..0 : k = 0
            OBVIOUS
        <3>2. Is(f, 0)
            BY <3>1
        <3>3. QED BY <2>2, <2>3, <3>2
    <2>4. CASE n # 0
        <3>1. n - 1 \in Nat /\ n - 1 < n /\ \A k \in 0..n : k # n => k \in 0..(n - 1)
            BY <2>2, <2>4
        <3>2. PICK f : Is(f, n - 1)
            BY <2>1, <3>1
        <3> DEFINE g == [k \in 0..n |-> IF k = n THEN Turn(f[n - 1], queue[n], amounts) ELSE f[k]]
        <3>3. \A k \in 0..n : k # 0 => k - 1 \in 0..n /\ k - 1 # n
            BY <2>2
        <3>4. ASSUME NEW k \in 0..n
              PROVE  g[k] = IF k = 0 THEN Books
                            ELSE LET i == queue[k]
                                 IN  IF i \in DOMAIN amounts /\ amounts[i] > 0
                                     THEN FillOne(g[k - 1], i, amounts[i]) ELSE g[k - 1]
            <4>1. k # 0 => g[k - 1] = f[k - 1]
                BY <3>3
            <4>2. CASE k = n
                BY <2>4, <4>1, <4>2 DEF Turn
            <4>3. CASE k # n
                <5>1. k \in 0..(n - 1) /\ g[k] = f[k]
                    BY <3>1, <4>3
                <5> HIDE DEF g
                <5>2. QED BY <3>2, <4>1, <5>1
            <4>4. QED BY <4>2, <4>3
        <3>5. g = [k \in 0..n |-> g[k]]
            OBVIOUS
        <3> HIDE DEF g
        <3>6. Is(g, n)
            BY <3>4, <3>5
        <3>7. QED BY <2>2, <3>6
    <2>5. QED BY <2>3, <2>4
<1>2. \E f : Is(f, N)
    BY <1>1
<1> DEFINE m == CHOOSE f : Is(f, N)
<1>3. Is(m, N)
    BY <1>2
<1>4. FilledInTurn(amounts) = m[N]
    BY DEF FilledInTurn
<1> HIDE DEF m
<1>5. m[0] = Books
    BY <1>3
<1>6. ASSUME NEW k \in 1..N PROVE m[k] = Turn(m[k - 1], queue[k], amounts)
    <2>1. k \in 0..N /\ k # 0
        OBVIOUS
    <2>2. QED BY <1>3, <2>1 DEF Turn
<1>7. QED BY <1>4, <1>5, <1>6

\* The books m after the turns of the first k orders of the queue.
TurnsOK(m, k) ==
    /\ IsBooks(m) /\ m.dust \in Nat
    /\ Sound(m.orders, Range(queue), m.positions)
    /\ DOMAIN m.orders = DOMAIN orders
    /\ \A j \in k + 1..Len(queue) : m.orders[queue[j]] = orders[queue[j]]
    /\ \A i \in DOMAIN orders : OnGrid(m.orders[i], hotline)
    /\ Len(positions) <= Len(m.positions)
    /\ \A id \in DOMAIN positions :
           positions[id].state \notin {"RETURN", "GONE"} => m.positions[id].state \notin {"RETURN", "GONE"}
    /\ \A id \in DOMAIN positions :
           m.positions[id].cash # positions[id].cash =>
               \E i \in Range(queue) : Paid(orders, positions, m.orders, m.positions, id, i)
    /\ Len(m.positions) <= MaxCapital => m.inventory = m.dust + Holds(m.positions)

\* A turn fills the order as the books before the trade have it.
LEMMA TurnStep ==
    ASSUME IInv, NEW amounts, NEW k \in 1..Len(queue), NEW m, TurnsOK(m, k - 1),
           queue[k] \in DOMAIN amounts => amounts[queue[k]] \in 0..Left(orders[queue[k]])
    PROVE  TurnsOK(Turn(m, queue[k], amounts), k)
<1> DEFINE i == queue[k]
           S == Range(queue)
<1>1. /\ Len(queue) \in Nat /\ DOMAIN queue = 1..Len(queue) /\ k \in Nat
      /\ IsInjective(queue) /\ S \subseteq DOMAIN orders /\ i \in S
      /\ Sound(orders, S, positions)
    BY SeqMeans DEF IInv, QueueOK, Range
<1>2. /\ IsBooks(m) /\ m.dust \in Nat /\ Sound(m.orders, S, m.positions)
      /\ DOMAIN m.orders = DOMAIN orders
      /\ \A j \in (k - 1) + 1..Len(queue) : m.orders[queue[j]] = orders[queue[j]]
      /\ \A j \in DOMAIN orders : OnGrid(m.orders[j], hotline)
      /\ Len(positions) <= Len(m.positions)
      /\ \A id \in DOMAIN positions :
             positions[id].state \notin {"RETURN", "GONE"} => m.positions[id].state \notin {"RETURN", "GONE"}
      /\ \A id \in DOMAIN positions :
             m.positions[id].cash # positions[id].cash =>
                 \E j \in S : Paid(orders, positions, m.orders, m.positions, id, j)
      /\ Len(m.positions) <= MaxCapital => m.inventory = m.dust + Holds(m.positions)
    BY DEF TurnsOK
<1>3. \A j \in k + 1..Len(queue) : j \in (k - 1) + 1..Len(queue) /\ queue[j] # i
    BY <1>1 DEF IsInjective
<1>4. CASE ~(i \in DOMAIN amounts /\ amounts[i] > 0)
    <2>1. Turn(m, i, amounts) = m
        BY <1>4 DEF Turn
    <2>2. \A j \in k + 1..Len(queue) : m.orders[queue[j]] = orders[queue[j]]
        BY <1>2, <1>3
    <2> HIDE DEF S
    <2>3. QED BY <1>2, <2>1, <2>2 DEF TurnsOK, S
<1>5. CASE i \in DOMAIN amounts /\ amounts[i] > 0
    <2> DEFINE amount == amounts[i]
               mm == FillOne(m, i, amount)
    <2>1. Turn(m, i, amounts) = mm
        BY <1>5 DEF Turn
    <2>2. m.orders[i] = orders[i] /\ i \in DOMAIN m.orders
        <3>1. k \in (k - 1) + 1..Len(queue)
            BY <1>1
        <3>2. QED BY <1>1, <1>2, <3>1
    <2>3. amount \in 1..Left(m.orders[i]) /\ Left(m.orders[i]) > 0
        <3>1. Left(orders[i]) \in Int /\ amount \in 0..Left(orders[i]) /\ amount > 0
            <4>1. orders[i] \in OrderSet(Len(positions)) /\ Len(positions) \in Nat
                BY <1>1, SoundMeans
            <4>2. QED BY <1>5, <4>1, OrderFields
        <3> HIDE DEF amount, i
        <3>2. QED BY <2>2, <3>1
    <2>4. m.orders[i].status \in Live
        <3>1. OrderOK(m.orders[i], i \in S, m.positions)
            BY <1>2, <2>2, SoundMeans
        <3>2. QED BY <1>1, <2>3, <3>1 DEF OrderOK
    <2>5. FillOf(m, mm, i, S)
        <3> HIDE DEF amount, i, S
        <3>1. QED BY <1>1, <1>2, <2>2, <2>3, <2>4, FillStep
    <2> HIDE DEF mm
    <2>6. /\ IsBooks(mm) /\ Sound(mm.orders, S, mm.positions) /\ mm.dust \in Nat
          /\ DOMAIN mm.orders = DOMAIN m.orders
          /\ \A j \in DOMAIN m.orders \ {i} : mm.orders[j] = m.orders[j]
          /\ \A h : OnGrid(m.orders[i], h) => OnGrid(mm.orders[i], h)
          /\ Len(m.positions) <= Len(mm.positions)
          /\ \A id \in DOMAIN m.positions :
                 m.positions[id].state \notin {"RETURN", "GONE"} => mm.positions[id].state \notin {"RETURN", "GONE"}
          /\ \A id \in DOMAIN m.positions :
                 mm.positions[id].cash # m.positions[id].cash =>
                     Paid(m.orders, m.positions, mm.orders, mm.positions, id, i)
          /\ /\ Len(mm.positions) <= MaxCapital
             /\ m.inventory = m.dust + Holds(m.positions)
             => mm.inventory = mm.dust + Holds(mm.positions)
        BY <2>5 DEF FillOf
    <2>7. \A j \in k + 1..Len(queue) : mm.orders[queue[j]] = orders[queue[j]]
        <3> SUFFICES ASSUME NEW j \in k + 1..Len(queue) PROVE mm.orders[queue[j]] = orders[queue[j]]
            OBVIOUS
        <3>1. queue[j] \in S
            BY <1>1 DEF Range
        <3>2. queue[j] \in DOMAIN m.orders \ {i}
            BY <1>1, <1>2, <1>3, <3>1
        <3>3. m.orders[queue[j]] = orders[queue[j]]
            BY <1>2, <1>3
        <3>4. QED BY <2>6, <3>2, <3>3
    <2>8. \A j \in DOMAIN orders : OnGrid(mm.orders[j], hotline)
        BY <1>2, <2>2, <2>6
    <2>9. /\ Len(positions) \in Nat /\ Len(m.positions) \in Nat /\ Len(mm.positions) \in Nat
          /\ DOMAIN positions = 1..Len(positions) /\ DOMAIN m.positions = 1..Len(m.positions)
        BY <1>1, <1>2, <2>6, SoundMeans
    <2>10. Len(positions) <= Len(mm.positions) /\ DOMAIN positions \subseteq DOMAIN m.positions
        BY <1>2, <2>6, <2>9
    <2>11. \A id \in DOMAIN positions :
               positions[id].state \notin {"RETURN", "GONE"} => mm.positions[id].state \notin {"RETURN", "GONE"}
        BY <1>2, <2>6, <2>10
    <2>12. Len(mm.positions) <= MaxCapital => mm.inventory = mm.dust + Holds(mm.positions)
        <3>1. Len(mm.positions) <= MaxCapital => Len(m.positions) <= MaxCapital
            BY <2>6, <2>9, PairAssumption
        <3>2. QED BY <1>2, <2>6, <3>1
    <2>13. DOMAIN mm.orders = DOMAIN orders
        BY <1>2, <2>6
    <2>14. ASSUME NEW id \in DOMAIN positions, m.positions[id].cash # positions[id].cash
           PROVE  \E j \in S \ {i} : Paid(orders, positions, m.orders, m.positions, id, j)
        <3>1. PICK j \in S : Paid(orders, positions, m.orders, m.positions, id, j)
            BY <1>2, <2>14
        <3>2. ASSUME j = i PROVE FALSE
            <4>1. m.orders[i].filled - orders[i].filled = 0 /\ orders[i].price \in Nat
                BY <1>1, <2>2, SoundMeans, OrderFields
            <4>2. positions[id].cash - m.positions[id].cash = 0
                BY <3>1, <3>2, <4>1 DEF Paid
            <4>3. positions[id].cash \in Nat /\ m.positions[id].cash \in Nat
                BY <1>1, <1>2, <2>10, SoundMeans, PositionFields
            <4>4. QED BY <2>14, <4>2, <4>3
        <3>3. QED BY <3>1, <3>2
    <2>15. ASSUME NEW id \in DOMAIN positions, mm.positions[id].cash # positions[id].cash
           PROVE  \E j \in S : Paid(orders, positions, mm.orders, mm.positions, id, j)
        <3>1. CASE mm.positions[id].cash = m.positions[id].cash
            <4>1. PICK j \in S \ {i} : Paid(orders, positions, m.orders, m.positions, id, j)
                BY <2>14, <2>15, <3>1
            <4>2. mm.orders[j] = m.orders[j]
                BY <1>1, <1>2, <2>6, <4>1
            <4>3. QED BY <3>1, <4>1, <4>2 DEF Paid
        <3>2. CASE mm.positions[id].cash # m.positions[id].cash
            <4>1. Paid(m.orders, m.positions, mm.orders, mm.positions, id, i)
                BY <2>6, <2>10, <3>2
            <4>2. m.positions[id].cash = positions[id].cash
                <5> SUFFICES ASSUME m.positions[id].cash # positions[id].cash PROVE FALSE
                    OBVIOUS
                <5>1. PICK j \in S \ {i} : Paid(orders, positions, m.orders, m.positions, id, j)
                    BY <2>14
                <5>2. Alone(orders) /\ j \in DOMAIN orders /\ i \in DOMAIN orders /\ j # i
                    BY <1>1, <5>1 DEF Sound
                <5> HIDE DEF i
                <5>3. QED BY <2>2, <4>1, <5>1, <5>2 DEF Paid, Alone
            <4>3. QED BY <1>1, <2>2, <4>1, <4>2 DEF Paid
        <3>3. QED BY <3>1, <3>2
    <2> HIDE DEF S
    <2>16. TurnsOK(mm, k)
        BY <2>6, <2>7, <2>8, <2>10, <2>11, <2>12, <2>13, <2>15 DEF TurnsOK, S
    <2>17. QED BY <2>1, <2>16
<1>6. QED BY <1>4, <1>5

\* The books after a trade whose amounts the orders of the queue can take.
LEMMA TurnsMean ==
    ASSUME IInv, NEW amounts,
           \A i \in DOMAIN amounts : i \in Range(queue) => amounts[i] \in 0..Left(orders[i])
    PROVE  TurnsOK(FilledInTurn(amounts), Len(queue))
<1>1. /\ Len(queue) \in Nat /\ DOMAIN queue = 1..Len(queue)
      /\ Sound(orders, Range(queue), positions)
    BY SeqMeans DEF IInv, QueueOK
<1>2. PICK m : /\ m[0] = Books
               /\ \A k \in 1..Len(queue) : m[k] = Turn(m[k - 1], queue[k], amounts)
               /\ FilledInTurn(amounts) = m[Len(queue)]
    BY <1>1, TurnsExist
<1>3. TurnsOK(m[0], 0)
    <2>1. /\ Books.orders = orders /\ Books.positions = positions
          /\ Books.inventory = inventory /\ Books.dust = dust /\ IsBooks(Books)
        BY DEF Books, IsBooks
    <2>2. \A i \in DOMAIN orders : OnGrid(orders[i], hotline)
        BY DEF IInv, GridFollowsHotline, OnGrid
    <2>3. Len(positions) <= Len(positions)
        BY <1>1, SoundMeans
    <2>4. dust \in Nat /\ inventory = dust + Holds(positions)
        BY DEF IInv
    <2>5. QED BY <1>1, <1>2, <2>1, <2>2, <2>3, <2>4 DEF TurnsOK
<1> DEFINE T == {k \in 0..Len(queue) : ~TurnsOK(m[k], k)}
<1>4. T = {}
    <2> SUFFICES ASSUME T # {} PROVE FALSE
        OBVIOUS
    <2>1. PICK k \in T : \A j \in Nat : j < k => j \notin T
        <3>1. T \in SUBSET Nat
            BY <1>1
        <3> HIDE DEF T
        <3>2. QED BY <3>1, LeastElement
    <2>2. k \in 0..Len(queue) /\ ~TurnsOK(m[k], k)
        OBVIOUS
    <2>3. k # 0
        BY <1>3, <2>2
    <2>4. k \in 1..Len(queue) /\ k - 1 \in 0..Len(queue) /\ k - 1 \in Nat /\ k - 1 < k
        BY <1>1, <2>2, <2>3
    <2>5. TurnsOK(m[k - 1], k - 1)
        BY <2>1, <2>4
    <2>6. queue[k] \in DOMAIN amounts => amounts[queue[k]] \in 0..Left(orders[queue[k]])
        <3>1. queue[k] \in Range(queue)
            BY <1>1, <2>4 DEF Range
        <3>2. QED BY <3>1
    <2> HIDE DEF T
    <2>7. TurnsOK(Turn(m[k - 1], queue[k], amounts), k)
        BY <2>4, <2>5, <2>6, TurnStep
    <2>8. QED BY <1>2, <2>2, <2>4, <2>7
<1>5. TurnsOK(m[Len(queue)], Len(queue))
    <2>1. Len(queue) \in 0..Len(queue)
        BY <1>1
    <2>2. QED BY <1>4, <2>1
<1>6. QED BY <1>2, <1>5

\* consume_public_trade
LEMMA TradeStep ==
    ASSUME IInv, NEW side, NEW price, NEW amounts \in Planned(side, price),
           ConsumePublicTrade(amounts)
    PROVE  /\ IInv'
           /\ \A id \in DOMAIN positions :
                  positions[id].state \notin {"RETURN", "GONE"} => positions'[id].state \notin {"RETURN", "GONE"}
           /\ \A id \in DOMAIN positions :
                  positions'[id].cash # positions[id].cash =>
                      \E i \in Range(queue) : Paid(orders, positions, orders', positions', id, i)
<1> DEFINE m == FilledInTurn(amounts)
<1>1. /\ Len(m.positions) <= MaxCapital
      /\ orders' = m.orders /\ positions' = m.positions
      /\ inventory' = m.inventory /\ dust' = m.dust
      /\ UNCHANGED <<hotline, queue>>
    BY DEF ConsumePublicTrade
<1>2. \A i \in DOMAIN amounts : amounts[i] \in 0..Left(orders[i])
    <2>1. Sound(orders, Range(queue), positions) /\ Range(queue) \subseteq DOMAIN orders
        BY DEF IInv, QueueOK
    <2>2. ASSUME NEW i \in DOMAIN amounts PROVE amounts[i] \in 0..Left(orders[i])
        <3>1. i \in Standing(side, price) /\ amounts[i] \in 0..Lot /\ amounts[i] <= Left(orders[i])
            BY DEF Planned
        <3>2. i \in DOMAIN orders
            BY <2>1, <3>1 DEF Standing
        <3>3. Left(orders[i]) \in Int /\ Lot \in Nat
            BY <2>1, <3>2, SoundMeans, OrderFields
        <3>4. QED BY <3>1, <3>3
    <2>3. QED BY <2>2
<1>3. TurnsOK(m, Len(queue))
    BY <1>2, TurnsMean
<1> HIDE DEF m
<1>4. /\ dust' \in Nat /\ Sound(orders', Range(queue), positions') /\ DOMAIN orders' = DOMAIN orders
      /\ \A i \in DOMAIN orders' : OnGrid(orders'[i], hotline)
      /\ \A id \in DOMAIN positions :
             positions[id].state \notin {"RETURN", "GONE"} => positions'[id].state \notin {"RETURN", "GONE"}
      /\ \A id \in DOMAIN positions :
             positions'[id].cash # positions[id].cash =>
                 \E i \in Range(queue) : Paid(orders, positions, orders', positions', id, i)
      /\ inventory' = dust' + Holds(positions')
    BY <1>1, <1>3 DEF TurnsOK
<1>5. GridFollowsHotline'
    BY <1>1, <1>4 DEF GridFollowsHotline, OnGrid
<1>6. QED BY <1>1, <1>4, <1>5 DEF IInv, QueueOK

-----------------------------------------------------------------------------
(* The theorems.                                                           *)

\* There is nothing yet.
LEMMA InitIInv == Init => IInv
<1> SUFFICES ASSUME Init PROVE IInv
    OBVIOUS
<1>1. /\ hotline = None /\ orders = <<>> /\ queue = <<>> /\ positions = <<>>
      /\ inventory = 0 /\ dust = 0
    BY DEF Init
<1>2. /\ DOMAIN orders = {} /\ DOMAIN positions = {} /\ DOMAIN queue = {}
      /\ Len(positions) = 0 /\ MaxCapital \in Nat
    BY <1>1, PairAssumption
<1>3. QueueOK
    BY <1>1, <1>2 DEF QueueOK, IsInjective, Range
<1>4. Sound(orders, Range(queue), positions)
    BY <1>1, <1>2 DEF Sound, Alone
<1>5. GridFollowsHotline
    BY <1>2 DEF GridFollowsHotline
<1>6. Holds(positions) = 0
    BY <1>2, TotalEmpty DEF Holds
<1>7. QED BY <1>1, <1>2, <1>3, <1>4, <1>5, <1>6 DEF IInv

\* Every call and every event keeps the invariant.
LEMMA NextIInv == IInv /\ [Next]_vars => IInv'
<1> SUFFICES ASSUME IInv, [Next]_vars PROVE IInv'
    OBVIOUS
<1>1. CASE InitializeGrid
    BY <1>1, InitializeGridStep
<1>2. CASE \E target \in Hotline : ReceiveBook(target)
    BY <1>2, ReceiveBookStep
<1>3. CASE \E i \in DOMAIN orders, price \in Price : RequestC1Move(i, price)
    BY <1>3, RequestC1MoveStep
<1>4. CASE \E i \in DOMAIN orders : AcknowledgeGridCancel(i)
    BY <1>4, AcknowledgeStep
<1>5. CASE \E amount \in Grant : Reserve(amount)
    BY <1>5, ReserveStep
<1>6. CASE \E i \in DOMAIN orders, id \in DOMAIN positions : BindOrderCapital(i, id)
    BY <1>6, BindStep
<1>7. CASE \E id \in DOMAIN positions, price \in Price, authorized \in BOOLEAN :
               \E quantity \in 1..positions[id].quantity :
                   SubmitOwnedReturn(id, price, quantity, authorized)
    BY <1>7, SubmitStep
<1>8. CASE \E i \in Range(queue) :
               \E amounts \in Planned(orders[i].side, orders[i].price) :
                   ConsumePublicTrade(amounts)
    BY <1>8, TradeStep
<1>9. CASE UNCHANGED vars
    BY <1>9 DEF vars, IInv, QueueOK, GridFollowsHotline
<1>10. QED BY <1>1, <1>2, <1>3, <1>4, <1>5, <1>6, <1>7, <1>8, <1>9 DEF Next

\* The invariant holds whatever the calls, the books, the trades and the
\* acknowledgements, and in whatever order they come.
THEOREM Invariance == Spec => []IInv
<1>1. QED BY InitIInv, NextIInv, PTL DEF Spec

\* The variables keep their types: in particular the pair's inventory and its
\* dust are never negative (M035_NEGATIVE_PAIR_INVENTORY).
THEOREM TypeCorrect == Spec => []TypeOK
<1>1. IInv => TypeOK
    <2> SUFFICES ASSUME IInv PROVE TypeOK
        OBVIOUS
    <2>1. /\ hotline \in Hotline \union {None} /\ dust \in Nat
          /\ IsInjective(queue) /\ Range(queue) \subseteq DOMAIN orders
          /\ Sound(orders, Range(queue), positions)
          /\ inventory = dust + Holds(positions)
        BY DEF IInv, QueueOK
    <2>2. orders \in Seq(OrderSet(Len(positions))) /\ positions \in Seq(PositionSet)
        BY <2>1 DEF Sound
    <2>3. \A i \in DOMAIN orders : Left(orders[i]) >= 0
        BY <2>1, SoundMeans DEF OrderOK
    <2>4. OrderSet(Len(positions)) = Order
        BY DEF OrderSet, Order
    <2>5. inventory \in Nat
        <3>1. Holds(positions) \in Nat
            BY <2>2, HoldsNat
        <3>2. QED BY <2>1, <3>1
    <2> DEFINE R == [state : {"RESERVED", "CANCEL_PENDING", "INVENTORY", "RETURN", "GONE"},
                     cash : Nat, quantity : Nat, unit : Nat]
    <2>6. PositionSet \subseteq R
        <3>1. 0..Lot \subseteq Nat
            BY PairAssumption
        <3>2. QED BY <3>1 DEF PositionSet
    <2> HIDE DEF R
    <2>7. positions \in Seq(R)
        <3>1. /\ Len(positions) \in Nat /\ DOMAIN positions = 1..Len(positions)
              /\ \A id \in DOMAIN positions : positions[id] \in PositionSet
              /\ positions = [id \in DOMAIN positions |-> positions[id]]
            BY <2>2, SeqMeans
        <3>2. positions \in [1..Len(positions) -> R]
            BY <2>6, <3>1
        <3>3. QED BY <3>1, <3>2, IsSequence
    <2>8. QED BY <2>1, <2>2, <2>3, <2>4, <2>5, <2>7 DEF TypeOK, R
<1>2. QED BY <1>1, Invariance, PTL

\* Every order the estimator may still fill is funded in full by a position in
\* the state its fill asks for, however cancels, fills and returns interleave:
\* the checks of consume_public_trade (M035_ENTRY_FILL_NOT_FUNDED and its like)
\* never refuse a trade.
THEOREM FundedFills == Spec => []FillsAreFunded
<1>1. IInv => FillsAreFunded
    <2> SUFFICES ASSUME IInv, NEW i \in Range(queue), Left(orders[i]) > 0
                 PROVE  LET o == orders[i]
                            p == positions[o.capital]
                        IN  /\ o.capital # None
                            /\ o.role = "ENTRY" => /\ p.state \in {"RESERVED", "CANCEL_PENDING"}
                                                   /\ p.cash >= o.price * Left(o)
                            /\ o.role = "RETURN" => p.state = "RETURN" /\ p.quantity >= Left(o)
        BY DEF FillsAreFunded
    <2>1. Sound(orders, Range(queue), positions) /\ i \in DOMAIN orders
        BY DEF IInv, QueueOK
    <2>2. OrderOK(orders[i], i \in Range(queue), positions)
        BY <2>1, SoundMeans
    <2>3. orders[i].status \in Live
        BY <2>2 DEF OrderOK
    <2>4. Backed(orders[i], positions[orders[i].capital]) /\ orders[i].capital # None
        BY <2>2, <2>3 DEF OrderOK, Live
    <2>5. QED BY <2>4 DEF Backed
<1>2. QED BY <1>1, Invariance, PTL

\* The bank's cancel is pending exactly while that of a fillable order is, and a
\* capital id backs one working order at most, so that neither the cancels of a
\* hotline move nor an acknowledgement find the bank in another state.
THEOREM OrdersAgree == Spec => []OrdersAgreeWithBank
<1>1. IInv => CancelsAgree
    <2> SUFFICES ASSUME IInv, NEW i \in DOMAIN orders, orders[i].role = "ENTRY",
                        orders[i].status \in Live, Left(orders[i]) > 0
                 PROVE  /\ i \in Range(queue)
                        /\ orders[i].status = "CANCEL_PENDING" <=>
                               positions[orders[i].capital].state = "CANCEL_PENDING"
        BY DEF CancelsAgree
    <2>1. OrderOK(orders[i], i \in Range(queue), positions)
        BY SoundMeans DEF IInv
    <2>2. i \in Range(queue) /\ Backed(orders[i], positions[orders[i].capital])
        BY <2>1 DEF OrderOK
    <2>3. QED BY <2>2 DEF Backed
<1>2. IInv => OneOrderPerCapital
    <2> SUFFICES ASSUME IInv, NEW i \in Range(queue), NEW j \in Range(queue),
                        orders[i].capital = orders[j].capital,
                        Left(orders[i]) > 0, Left(orders[j]) > 0
                 PROVE  i = j
        BY DEF OneOrderPerCapital
    <2>1. Sound(orders, Range(queue), positions) /\ i \in DOMAIN orders /\ j \in DOMAIN orders
        BY DEF IInv, QueueOK
    <2>2. /\ OrderOK(orders[i], i \in Range(queue), positions)
          /\ OrderOK(orders[j], j \in Range(queue), positions)
        BY <2>1, SoundMeans
    <2>3. orders[i].status \in Live /\ orders[j].status \in Live
        BY <2>2 DEF OrderOK
    <2>4. QED BY <2>1, <2>3, SoleWorker
<1>3. IInv => OrdersAgreeWithBank
    BY <1>1, <1>2 DEF OrdersAgreeWithBank
<1>4. QED BY <1>3, Invariance, PTL

\* "Multi-tick moves reconcile directly to the final causal hotline": a C2 entry
\* stands at its target of now, or its replacement will, also when the hotline
\* moves again while a cancel is under way.
THEOREM GridFollows == Spec => []GridFollowsHotline
<1>1. IInv => GridFollowsHotline
    BY DEF IInv
<1>2. QED BY <1>1, Invariance, PTL

\* The pair's own count of its inventory is what the bank holds for it, dust
\* included, through partial fills, fills of cancelled orders and residues.
THEOREM InventoryBanked == Spec => []InventoryIsBanked
<1>1. IInv => InventoryIsBanked
    BY DEF IInv, InventoryIsBanked, Holds, QuantityOf
<1>2. QED BY <1>1, Invariance, PTL

\* "C2 capital is not reusable before cancel ACK": reserved cash leaves a position
\* by the acknowledgement that takes its order out of the queue, or as the price of
\* what has been filled of its order, and never otherwise, not even in part.
THEOREM CashFreed == Spec => CashFreedOnlyByAck
<1> DEFINE Spent(id) == \E i \in Range(queue) :
               /\ orders[i].capital = id
               /\ IF positions'[id].state = "GONE" THEN i \notin Range(queue')
                  ELSE positions[id].cash - positions'[id].cash
                           = (orders'[i].filled - orders[i].filled) * orders[i].price
           Freed == \A id \in DOMAIN positions :
               positions'[id].cash # positions[id].cash => Spent(id)
<1>1. IInv /\ [Next]_vars => [Freed]_vars
    <2> SUFFICES ASSUME IInv, Next, NEW id \in DOMAIN positions,
                        positions'[id].cash # positions[id].cash
                 PROVE  Spent(id)
        BY DEF vars
    <2>1. /\ positions \in Seq(PositionSet) /\ positions[id] \in PositionSet
          /\ PositionOK(positions[id]) /\ QueueOK
          /\ Sound(orders, Range(queue), positions)
        BY SoundMeans, SeqMeans DEF IInv, Sound
    <2>2. ASSUME NEW C, CancelsRequested(C) PROVE FALSE
        BY <2>1, <2>2 DEF CancelsRequested, PositionSet
    <2>3. CASE InitializeGrid
        BY <2>3 DEF InitializeGrid
    <2>4. CASE \E target \in Hotline : ReceiveBook(target)
        BY <2>2, <2>4 DEF ReceiveBook
    <2>5. CASE \E i \in DOMAIN orders, price \in Price : RequestC1Move(i, price)
        BY <2>2, <2>5 DEF RequestC1Move
    <2>6. CASE \E i \in DOMAIN orders : AcknowledgeGridCancel(i)
        <3>1. PICK i \in DOMAIN orders : AcknowledgeGridCancel(i)
            BY <2>6
        <3>2. /\ i \in Range(queue) /\ queue' = RemoveAt(queue, PlaceOf(i))
              /\ positions' = Released(orders[i].capital)
            BY <3>1 DEF AcknowledgeGridCancel
        <3>3. Range(queue') = Range(queue) \ {i}
            BY <2>1, <3>2, TakenOut
        <3>4. orders[i].capital = id /\ positions'[id].state = "GONE"
            BY <2>1, <3>2 DEF Released, Gone
        <3>5. QED BY <3>2, <3>3, <3>4
    <2>7. CASE \E amount \in Grant : Reserve(amount)
        <3>1. PICK amount \in Grant : positions' = Append(positions, Reserved(amount))
            BY <2>7 DEF Reserve
        <3>2. Reserved(amount) \in PositionSet
            BY PairAssumption DEF Reserved, PositionSet
        <3>3. positions'[id] = positions[id]
            BY <2>1, <3>1, <3>2, AppendMeans
        <3>4. QED BY <3>3
    <2>8. CASE \E i \in DOMAIN orders, cap \in DOMAIN positions : BindOrderCapital(i, cap)
        BY <2>8 DEF BindOrderCapital
    <2>9. CASE \E cap \in DOMAIN positions, price \in Price, authorized \in BOOLEAN :
                   \E quantity \in 1..positions[cap].quantity :
                       SubmitOwnedReturn(cap, price, quantity, authorized)
        <3>1. PICK cap \in DOMAIN positions : positions' = [positions EXCEPT ![cap].state = "RETURN"]
            BY <2>9 DEF SubmitOwnedReturn
        <3>2. positions'[id].cash = positions[id].cash
            BY <2>1, <3>1 DEF PositionSet
        <3>3. QED BY <3>2
    <2>10. CASE \E i \in Range(queue) :
                    \E amounts \in Planned(orders[i].side, orders[i].price) :
                        ConsumePublicTrade(amounts)
        <3>1. /\ positions[id].state \notin {"RETURN", "GONE"} => positions'[id].state # "GONE"
              /\ \E i \in Range(queue) : Paid(orders, positions, orders', positions', id, i)
            BY <2>10, TradeStep
        <3>2. PICK i \in Range(queue) : Paid(orders, positions, orders', positions', id, i)
            BY <3>1
        <3>3. positions[id].state \notin {"RETURN", "GONE"}
            <4>1. i \in DOMAIN orders /\ orders[i].status \in Live /\ Left(orders[i]) > 0
                  /\ orders[i].role = "ENTRY" /\ orders[i].capital = id
                BY <2>1, <3>2 DEF Paid, QueueOK
            <4>2. Backed(orders[i], positions[id])
                BY <2>1, <4>1 DEF Sound, OrderOK
            <4>3. QED BY <4>1, <4>2 DEF Backed
        <3>4. QED BY <3>1, <3>2, <3>3 DEF Paid
    <2>11. QED BY <2>3, <2>4, <2>5, <2>6, <2>7, <2>8, <2>9, <2>10 DEF Next
<1>2. QED BY <1>1, Invariance, PTL DEF Spec, CashFreedOnlyByAck
=============================================================================
