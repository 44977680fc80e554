-------------------------- MODULE GatewayIndexProofs --------------------------
(***************************************************************************)
(* Proofs about the objects of the gateway that are not one operation's:   *)
(* that the commerce books of the index agree with its rows, and that a    *)
(* payment buys what was quoted, above the cost floor, for every number of *)
(* operations, wallets, deployments, prices, budgets, quotes, requests and *)
(* inputs.                                                                 *)
(***************************************************************************)
EXTENDS CommerceLedger, PaidAdmission, SumLemmas

-----------------------------------------------------------------------------
(* The commerce books of the index: copies may be lost, repeated and       *)
(* reordered, but a row only goes up, and what it held before is taken     *)
(* back from every book in which it was counted.                           *)

Fields == {"cash", "recognized", "liability", "deliveries"}
Money == [cash : Int, recognized : Int, liability : Int, deliveries : Int,
          paying : Int, repeat : Int]
CommerceTyped ==
    /\ life \in [Ops -> Financial \cup {"none"}]
    /\ call \in [Ops -> [Reasons -> Calls]]
    /\ row \in [Ops -> Financial \cup {"none"}]
    /\ totals \in Money
    /\ wallet \in [Payers -> Nat]
    /\ share \in [Capabilities \cup Services -> Money]
    /\ bought \in [Capabilities -> [Payers -> Nat]]
CommerceInv == CommerceTyped /\ BooksAgree

SnapshotOf(field) == [o \in Ops |-> Snapshot(o, row[o])[field]]

LEMMA SnapshotFits ==
    ASSUME NEW o \in Ops, NEW status \in Financial \cup {"none"}
    PROVE  /\ \A field \in Fields : Snapshot(o, status)[field] \in Nat
           /\ Snapshot(o, status).cash = Snapshot(o, status).recognized + Snapshot(o, status).liability
<1>1. PriceOf[o] \in Nat
  BY PriceAssumption
<1>2. CASE status = "none"
  BY <1>2 DEF Snapshot, NoMoney, Fields
<1>3. CASE status = "succeeded"
  BY <1>1, <1>3 DEF Snapshot, Fields
<1>4. CASE status \notin {"none", "succeeded"}
  BY <1>1, <1>4 DEF Snapshot, Fields
<1> QED BY <1>2, <1>3, <1>4

LEMMA SnapshotsSum ==
    ASSUME CommerceTyped, NEW S \in SUBSET Ops, NEW field \in Fields
    PROVE  Summable(SnapshotOf(field), S)
<1>1. IsFiniteSet(S)
  BY DigestAssumption, FS_Subset
<1>2. \A o \in S : Snapshot(o, row[o])[field] \in Nat
  BY SnapshotFits DEF CommerceTyped
<1> QED BY <1>1, <1>2 DEF Summable, SnapshotOf

\* What a book becomes when the row of an operation goes up.
LEMMA ReplacedFits ==
    ASSUME NEW t \in Money, NEW o \in Ops, NEW was \in Financial \cup {"none"},
           NEW is \in Financial \cup {"none"},
           NEW u, u = Replaced(t, Snapshot(o, was), Snapshot(o, is))
    PROVE  /\ u \in Money /\ u.paying = t.paying /\ u.repeat = t.repeat
           /\ \A field \in Fields : u[field] = t[field] - Snapshot(o, was)[field] + Snapshot(o, is)[field]
<1> DEFINE old == Snapshot(o, was)
           new == Snapshot(o, is)
<1>1. /\ old.cash \in Nat /\ old.recognized \in Nat /\ old.liability \in Nat /\ old.deliveries \in Nat
      /\ new.cash \in Nat /\ new.recognized \in Nat /\ new.liability \in Nat /\ new.deliveries \in Nat
  BY SnapshotFits DEF Fields
<1>2. /\ t.cash \in Int /\ t.recognized \in Int /\ t.liability \in Int /\ t.deliveries \in Int
      /\ t.paying \in Int /\ t.repeat \in Int
  BY DEF Money
<1> HIDE DEF old, new
<1>3. u = [cash |-> t.cash + new.cash - old.cash,
           recognized |-> t.recognized + new.recognized - old.recognized,
           liability |-> t.liability + new.liability - old.liability,
           deliveries |-> t.deliveries + new.deliveries - old.deliveries,
           paying |-> t.paying, repeat |-> t.repeat]
  BY DEF Replaced, Money, old, new
<1>4. u \in Money
  BY <1>1, <1>2, <1>3 DEF Money
<1>5. /\ u.cash = t.cash - old.cash + new.cash
      /\ u.recognized = t.recognized - old.recognized + new.recognized
      /\ u.liability = t.liability - old.liability + new.liability
      /\ u.deliveries = t.deliveries - old.deliveries + new.deliveries
      /\ u.paying = t.paying /\ u.repeat = t.repeat
  BY <1>1, <1>2, <1>3
<1> QED BY <1>4, <1>5 DEF Fields, old, new

First(n) == IF n = 0 THEN 1 ELSE 0
Second(n) == IF n = 1 THEN 1 ELSE 0
LEMMA CountedFits ==
    ASSUME NEW t \in Money, NEW n \in Nat
    PROVE  LET u == Counted(t, n) IN
           /\ u \in Money /\ \A field \in Fields : u[field] = t[field]
           /\ u.paying = t.paying + First(n) /\ u.repeat = t.repeat + Second(n)
<1> DEFINE u == Counted(t, n)
<1>1. /\ t.paying \in Int /\ t.repeat \in Int
  BY DEF Money
<1>2. u = [t EXCEPT !.paying = @ + (IF n = 0 THEN 1 ELSE 0),
                    !.repeat = @ + (IF n = 1 THEN 1 ELSE 0)]
  BY DEF Counted
<1>3. u = [cash |-> t.cash, recognized |-> t.recognized, liability |-> t.liability,
           deliveries |-> t.deliveries, paying |-> t.paying + (IF n = 0 THEN 1 ELSE 0),
           repeat |-> t.repeat + (IF n = 1 THEN 1 ELSE 0)]
  BY <1>2 DEF Money
<1> HIDE DEF u
<1>4. u \in Money /\ \A field \in Fields : u[field] = t[field]
  BY <1>1, <1>3 DEF Money, Fields
<1>5. u.paying = t.paying + First(n) /\ u.repeat = t.repeat + Second(n)
  BY <1>3 DEF First, Second
<1> QED BY <1>4, <1>5 DEF u

\* The row of one operation goes up.
Raised(o, new) ==
    /\ CommerceTyped /\ o \in Ops /\ new \in Financial /\ row[o] # "succeeded"
    /\ row' = [row EXCEPT ![o] = new] /\ row' \in [Ops -> Financial \cup {"none"}]

LEMMA SnapshotsFollow ==
    ASSUME NEW o \in Ops, NEW new, Raised(o, new), NEW S \in SUBSET Ops, NEW field \in Fields
    PROVE  SumFunctionOnSet(SnapshotOf(field)', S)
             = SumFunctionOnSet(SnapshotOf(field), S)
               + IF o \in S THEN Snapshot(o, new)[field] - Snapshot(o, row[o])[field] ELSE 0
<1>1. Summable(SnapshotOf(field), S)
  BY SnapshotsSum DEF Raised
<1>2. SnapshotOf(field)' = [x \in Ops |-> Snapshot(x, row'[x])[field]]
  BY DEF SnapshotOf
<1>3. Summable(SnapshotOf(field)', S)
  <2>1. IsFiniteSet(S)
    BY DigestAssumption, FS_Subset
  <2>2. \A x \in S : Snapshot(x, row'[x])[field] \in Nat
    BY SnapshotFits DEF Raised
  <2> QED BY <1>2, <2>1, <2>2 DEF Summable
<1>4. \A x \in S \ {o} : SnapshotOf(field)[x] = SnapshotOf(field)'[x]
  BY <1>2 DEF SnapshotOf, Raised, CommerceTyped
<1>5. /\ SnapshotOf(field)[o] = Snapshot(o, row[o])[field]
      /\ SnapshotOf(field)'[o] = Snapshot(o, new)[field]
  BY <1>2 DEF SnapshotOf, Raised, CommerceTyped
<1>6. SumFunctionOnSet(SnapshotOf(field), S) \in Int
  BY <1>1, SumType
<1>7. Snapshot(o, row[o])[field] \in Nat /\ Snapshot(o, new)[field] \in Nat
  BY SnapshotFits DEF Raised, CommerceTyped
<1>8. PICK f, g : f = SnapshotOf(field) /\ g = SnapshotOf(field)'
  OBVIOUS
<1>9. CASE o \in S
  <2>1. SumFunctionOnSet(g, S) = SumFunctionOnSet(f, S) - f[o] + g[o]
    BY <1>1, <1>3, <1>4, <1>8, <1>9, SumChanges
  <2> QED BY <1>5, <1>6, <1>7, <1>8, <1>9, <2>1
<1>10. CASE o \notin S
  <2>1. SumFunctionOnSet(f, S) = SumFunctionOnSet(g, S)
    BY <1>1, <1>4, <1>8, <1>10, SumSame
  <2> QED BY <1>6, <1>8, <1>10, <2>1
<1> QED BY <1>9, <1>10

\* A book that counts the operation follows its row.
LEMMA SumsFollow ==
    ASSUME NEW o \in Ops, NEW new, Raised(o, new), NEW S \in SUBSET Ops, o \in S,
           NEW t \in Money, NEW u, SumsOf(t, S),
           \A field \in Fields : u[field] = t[field] - Snapshot(o, row[o])[field] + Snapshot(o, new)[field]
    PROVE  \A field \in Fields : u[field] = SumFunctionOnSet(SnapshotOf(field)', S)
<1> TAKE field \in Fields
<1>1. t[field] = SumFunctionOnSet(SnapshotOf(field), S)
  BY DEF SumsOf, Total, SnapshotOf, Fields
<1>2. SumFunctionOnSet(SnapshotOf(field)', S)
        = SumFunctionOnSet(SnapshotOf(field), S)
          + (Snapshot(o, new)[field] - Snapshot(o, row[o])[field])
  BY SnapshotsFollow
<1>3. Snapshot(o, row[o])[field] \in Nat /\ Snapshot(o, new)[field] \in Nat
  BY SnapshotFits DEF Raised, CommerceTyped
<1>4. t[field] \in Int
  BY DEF Money, Fields
<1>5. u[field] = t[field] - Snapshot(o, row[o])[field] + Snapshot(o, new)[field]
  OBVIOUS
<1> QED BY <1>1, <1>2, <1>3, <1>4, <1>5

LEMMA SumsStay ==
    ASSUME NEW o \in Ops, NEW new, Raised(o, new), NEW S \in SUBSET Ops, o \notin S,
           NEW t \in Money, SumsOf(t, S)
    PROVE  \A field \in Fields : t[field] = SumFunctionOnSet(SnapshotOf(field)', S)
<1> TAKE field \in Fields
<1>1. t[field] = SumFunctionOnSet(SnapshotOf(field), S)
  BY DEF SumsOf, Total, SnapshotOf, Fields
<1>2. SumFunctionOnSet(SnapshotOf(field)', S) = SumFunctionOnSet(SnapshotOf(field), S) + 0
  BY SnapshotsFollow
<1>3. t[field] \in Int
  BY DEF Money, Fields
<1> QED BY <1>1, <1>2, <1>3

-----------------------------------------------------------------------------
(* Wallets *)

Bought(b, S) == {o \in S : PayerOf[o] = b /\ row[o] = "succeeded"}
Least(S, n) == {b \in Payers : Deliveries(b, S) >= n}

LEMMA CountsFit ==
    ASSUME NEW S \in SUBSET Ops
    PROVE  /\ \A b : IsFiniteSet(Bought(b, S)) /\ Deliveries(b, S) = Cardinality(Bought(b, S))
                     /\ Deliveries(b, S) \in Nat
           /\ \A n : IsFiniteSet(Least(S, n)) /\ Buyers(S, n) = Cardinality(Least(S, n))
                     /\ Buyers(S, n) \in Nat
<1>1. IsFiniteSet(S)
  BY DigestAssumption, FS_Subset
<1>2. ASSUME NEW b PROVE IsFiniteSet(Bought(b, S)) /\ Cardinality(Bought(b, S)) \in Nat
  <2>1. Bought(b, S) \subseteq S
    BY DEF Bought
  <2> QED BY <1>1, <2>1, FS_Subset, FS_CardinalityType
<1>3. ASSUME NEW n PROVE IsFiniteSet(Least(S, n)) /\ Cardinality(Least(S, n)) \in Nat
  <2>1. Least(S, n) \subseteq Payers
    BY DEF Least
  <2> QED BY <2>1, DigestAssumption, FS_Subset, FS_CardinalityType
<1> QED BY <1>2, <1>3 DEF Deliveries, Bought, Buyers, Least

\* A delivery counts for its payer in the books of what it bought.
LEMMA DeliveriesFollow ==
    ASSUME NEW o \in Ops, NEW new, Raised(o, new), NEW S \in SUBSET Ops, NEW b \in Payers
    PROVE  Deliveries(b, S)' = IF o \in S /\ PayerOf[o] = b /\ new = "succeeded"
                               THEN Deliveries(b, S) + 1 ELSE Deliveries(b, S)
<1>1. /\ row' = [row EXCEPT ![o] = new] /\ row \in [Ops -> Financial \cup {"none"}]
      /\ row[o] # "succeeded"
  BY DEF Raised, CommerceTyped
<1>2. Deliveries(b, S)' = Cardinality({x \in S : PayerOf[x] = b /\ row'[x] = "succeeded"})
  BY DEF Deliveries
<1>3. CASE o \in S /\ PayerOf[o] = b /\ new = "succeeded"
  <2>1. {x \in S : PayerOf[x] = b /\ row'[x] = "succeeded"} = Bought(b, S) \cup {o}
        /\ o \notin Bought(b, S)
    BY <1>1, <1>3 DEF Bought
  <2>2. Cardinality(Bought(b, S) \cup {o}) = Cardinality(Bought(b, S)) + 1
    BY <2>1, CountsFit, FS_AddElement
  <2> QED BY <1>2, <1>3, <2>1, <2>2, CountsFit
<1>4. CASE ~(o \in S /\ PayerOf[o] = b /\ new = "succeeded")
  <2>1. {x \in S : PayerOf[x] = b /\ row'[x] = "succeeded"} = Bought(b, S)
    BY <1>1, <1>4 DEF Bought
  <2> QED BY <1>2, <1>4, <2>1, CountsFit
<1> QED BY <1>3, <1>4

LEMMA BuyersFollow ==
    ASSUME NEW o \in Ops, NEW new, Raised(o, new), new = "succeeded",
           NEW S \in SUBSET Ops, o \in S, NEW n \in Nat
    PROVE  Buyers(S, n + 1)' = Buyers(S, n + 1)
                               + IF Deliveries(PayerOf[o], S) = n THEN 1 ELSE 0
<1> DEFINE b == PayerOf[o]
<1>1. b \in Payers
  BY PayerAssumption
<1>2. ASSUME NEW p \in Payers
      PROVE  Deliveries(p, S)' = IF p = b THEN Deliveries(p, S) + 1 ELSE Deliveries(p, S)
  BY <1>2, DeliveriesFollow
<1>3. \A p \in Payers : Deliveries(p, S) \in Nat
  BY CountsFit
<1>4. Buyers(S, n + 1)' = Cardinality({p \in Payers : Deliveries(p, S)' >= n + 1})
  BY DEF Buyers
<1>5. CASE Deliveries(b, S) = n
  <2>1. {p \in Payers : Deliveries(p, S)' >= n + 1} = Least(S, n + 1) \cup {b}
        /\ b \notin Least(S, n + 1)
    BY <1>1, <1>2, <1>3, <1>5 DEF Least
  <2>2. Cardinality(Least(S, n + 1) \cup {b}) = Cardinality(Least(S, n + 1)) + 1
    BY <2>1, CountsFit, FS_AddElement
  <2> QED BY <1>4, <1>5, <2>1, <2>2, CountsFit
<1>6. CASE Deliveries(b, S) # n
  <2>1. {p \in Payers : Deliveries(p, S)' >= n + 1} = Least(S, n + 1)
    BY <1>1, <1>2, <1>3, <1>6 DEF Least
  <2> QED BY <1>4, <1>6, <2>1, CountsFit
<1> QED BY <1>5, <1>6

LEMMA BuyersStay ==
    ASSUME NEW o \in Ops, NEW new, Raised(o, new), NEW S \in SUBSET Ops,
           o \notin S \/ new # "succeeded", NEW n \in Nat
    PROVE  Buyers(S, n)' = Buyers(S, n)
<1>1. ASSUME NEW p \in Payers PROVE Deliveries(p, S)' = Deliveries(p, S)
  BY <1>1, DeliveriesFollow
<1>2. Buyers(S, n)' = Cardinality({p \in Payers : Deliveries(p, S)' >= n})
  BY DEF Buyers
<1>3. {p \in Payers : Deliveries(p, S)' >= n} = {p \in Payers : Deliveries(p, S) >= n}
  BY <1>1
<1> QED BY <1>2, <1>3 DEF Buyers

\* The wallet rows and the buyers of a book follow a delivery.
LEMMA WalletsFollow ==
    ASSUME NEW o \in Ops, NEW new, Raised(o, new), new = "succeeded",
           NEW S \in SUBSET Ops, o \in S,
           NEW t \in Money, NEW e \in [Payers -> Nat], WalletsOf(t, e, S),
           NEW u, u.paying = t.paying + First(e[PayerOf[o]]),
           u.repeat = t.repeat + Second(e[PayerOf[o]]),
           NEW g, g = [e EXCEPT ![PayerOf[o]] = @ + 1]
    PROVE  WalletsOf(u, g, S)'
<1>1. PayerOf[o] \in Payers /\ e[PayerOf[o]] = Deliveries(PayerOf[o], S)
  BY PayerAssumption DEF WalletsOf
<1>2. ASSUME NEW b \in Payers PROVE g[b] = Deliveries(b, S)'
  <2>1. e[b] = Deliveries(b, S)
    BY DEF WalletsOf
  <2>2. Deliveries(b, S)' = IF PayerOf[o] = b THEN Deliveries(b, S) + 1 ELSE Deliveries(b, S)
    BY DeliveriesFollow
  <2> QED BY <1>1, <2>1, <2>2
<1>3. t.paying = Buyers(S, 1) /\ t.repeat = Buyers(S, 2)
  BY DEF WalletsOf
<1>4. Buyers(S, 0 + 1)' = Buyers(S, 0 + 1) + IF Deliveries(PayerOf[o], S) = 0 THEN 1 ELSE 0
  BY BuyersFollow
<1>5. Buyers(S, 1 + 1)' = Buyers(S, 1 + 1) + IF Deliveries(PayerOf[o], S) = 1 THEN 1 ELSE 0
  BY BuyersFollow
<1>6. u.paying = Buyers(S, 1)' /\ u.repeat = Buyers(S, 2)'
  BY <1>1, <1>3, <1>4, <1>5 DEF First, Second
<1> QED BY <1>2, <1>6 DEF WalletsOf

LEMMA WalletsStay ==
    ASSUME NEW o \in Ops, NEW new, Raised(o, new), NEW S \in SUBSET Ops,
           o \notin S \/ new # "succeeded",
           NEW t, NEW e, WalletsOf(t, e, S), NEW u, u.paying = t.paying, u.repeat = t.repeat
    PROVE  WalletsOf(u, e, S)'
<1>1. ASSUME NEW b \in Payers PROVE e[b] = Deliveries(b, S)'
  <2>1. e[b] = Deliveries(b, S)
    BY DEF WalletsOf
  <2>2. Deliveries(b, S)' = Deliveries(b, S)
    BY DeliveriesFollow
  <2> QED BY <2>1, <2>2
<1>2. t.paying = Buyers(S, 1) /\ t.repeat = Buyers(S, 2)
  BY DEF WalletsOf
<1>3. Buyers(S, 1)' = Buyers(S, 1) /\ Buyers(S, 2)' = Buyers(S, 2)
  BY BuyersStay
<1> QED BY <1>1, <1>2, <1>3 DEF WalletsOf

-----------------------------------------------------------------------------
(* One book after one copy. *)

LEMMA UpdatedFits ==
    ASSUME NEW o \in Ops, NEW new, Raised(o, new), NEW t \in Money, NEW n \in Nat,
           NEW u, u = Updated(t, o, new, n)
    PROVE  /\ u \in Money
           /\ \A field \in Fields : u[field] = t[field] - Snapshot(o, row[o])[field] + Snapshot(o, new)[field]
           /\ u.paying = IF new = "succeeded" THEN t.paying + First(n) ELSE t.paying
           /\ u.repeat = IF new = "succeeded" THEN t.repeat + Second(n) ELSE t.repeat
<1>1. row[o] \in Financial \cup {"none"} /\ new \in Financial \cup {"none"}
      /\ row[o] # "succeeded"
  BY DEF Raised, CommerceTyped
<1>2. PICK v : v = Replaced(t, Snapshot(o, row[o]), Snapshot(o, new))
  OBVIOUS
<1>3. /\ v \in Money /\ v.paying = t.paying /\ v.repeat = t.repeat
      /\ \A field \in Fields : v[field] = t[field] - Snapshot(o, row[o])[field] + Snapshot(o, new)[field]
  BY <1>1, <1>2, ReplacedFits
<1>5. CASE new = "succeeded"
  <2>1. u = Counted(v, n)
    BY <1>1, <1>2, <1>5 DEF Updated, Delivers
  <2>2. /\ u \in Money /\ \A field \in Fields : u[field] = v[field]
        /\ u.paying = v.paying + First(n) /\ u.repeat = v.repeat + Second(n)
    BY <1>3, <2>1, CountedFits
  <2> QED BY <1>3, <1>5, <2>2
<1>6. CASE new # "succeeded"
  <2>1. u = v
    BY <1>2, <1>6 DEF Updated, Delivers
  <2> QED BY <1>3, <1>6, <2>1
<1> QED BY <1>5, <1>6

\* The sums of a book, in the next state, from its fields.
LEMMA SumsNext ==
    ASSUME NEW S, NEW u, \A field \in Fields : u[field] = SumFunctionOnSet(SnapshotOf(field)', S)
    PROVE  SumsOf(u, S)'
  BY DEF SumsOf, Total, SnapshotOf, Fields

LEMMA BookFollows ==
    ASSUME NEW o \in Ops, NEW new, Raised(o, new), NEW S \in SUBSET Ops, o \in S,
           NEW t \in Money, NEW e \in [Payers -> Nat], SumsOf(t, S), WalletsOf(t, e, S),
           NEW u, u = Updated(t, o, new, e[PayerOf[o]]),
           NEW g, g = IF Delivers(o, new) THEN [e EXCEPT ![PayerOf[o]] = @ + 1] ELSE e
    PROVE  u \in Money /\ g \in [Payers -> Nat] /\ SumsOf(u, S)' /\ WalletsOf(u, g, S)'
<1>1. PayerOf[o] \in Payers /\ e[PayerOf[o]] \in Nat
  BY PayerAssumption
<1>2. /\ u \in Money
      /\ \A field \in Fields : u[field] = t[field] - Snapshot(o, row[o])[field] + Snapshot(o, new)[field]
      /\ u.paying = IF new = "succeeded" THEN t.paying + First(e[PayerOf[o]]) ELSE t.paying
      /\ u.repeat = IF new = "succeeded" THEN t.repeat + Second(e[PayerOf[o]]) ELSE t.repeat
  BY <1>1, UpdatedFits
<1>3. SumsOf(u, S)'
  <2>1. \A field \in Fields : u[field] = SumFunctionOnSet(SnapshotOf(field)', S)
    BY <1>2, SumsFollow
  <2> QED BY <2>1, SumsNext
<1>4. CASE new = "succeeded"
  <2>1. g = [e EXCEPT ![PayerOf[o]] = @ + 1]
    BY <1>4 DEF Delivers, Raised
  <2>2. WalletsOf(u, g, S)'
    BY ZenonT(60), <1>2, <1>4, <2>1, WalletsFollow
  <2>3. g \in [Payers -> Nat]
    BY <1>1, <2>1
  <2> QED BY <1>2, <1>3, <2>2, <2>3
<1>5. CASE new # "succeeded"
  <2>1. g = e
    BY <1>5 DEF Delivers
  <2>2. u.paying = t.paying /\ u.repeat = t.repeat
    BY <1>2, <1>5
  <2>3. WalletsOf(u, e, S)'
    BY <1>5, <2>2, WalletsStay
  <2> QED BY <1>2, <1>3, <2>1, <2>3
<1> QED BY <1>4, <1>5

LEMMA BookStays ==
    ASSUME NEW o \in Ops, NEW new, Raised(o, new), NEW S \in SUBSET Ops, o \notin S,
           NEW t \in Money, SumsOf(t, S)
    PROVE  /\ SumsOf(t, S)'
           /\ \A e : WalletsOf(t, e, S) => WalletsOf(t, e, S)'
<1>1. SumsOf(t, S)'
  BY SumsStay, SumsNext
<1>2. ASSUME NEW e, WalletsOf(t, e, S) PROVE WalletsOf(t, e, S)'
  BY <1>2, WalletsStay
<1> QED BY <1>1, <1>2

-----------------------------------------------------------------------------
(* The index. *)

\* The books of what was bought.
SharesAdd(sum, C) ==
    \A c \in C : \A t, S : t = sum[c] /\ S = Sold(c) => SumsOf(t, S)'
SharesCount(sum, has, C) ==
    \A c \in C : \A t, e, S : t = sum[c] /\ e = has[c] /\ S = Sold(c) => WalletsOf(t, e, S)'

LEMMA AttributeKeeps ==
    ASSUME CommerceInv, NEW o \in Ops, NEW new, Raised(o, new), Attribute(o, new)
    PROVE  /\ share' \in [Capabilities \cup Services -> Money]
           /\ bought' \in [Capabilities -> [Payers -> Nat]]
           /\ SharesAdd(share', Capabilities \cup Services)
           /\ SharesCount(share', bought', Capabilities)
<1> DEFINE d == CapabilityOf[o]
<1>1. /\ share \in [Capabilities \cup Services -> Money]
      /\ bought \in [Capabilities -> [Payers -> Nat]]
      /\ \A c \in Capabilities \cup Services : SumsOf(share[c], Sold(c))
      /\ \A c \in Capabilities : WalletsOf(share[c], bought[c], Sold(c))
  BY DEF CommerceInv, CommerceTyped, BooksAgree
<1>2. \A c : Sold(c) \in SUBSET Ops /\ (o \in Sold(c) <=> c = d)
  BY DEF Sold
<1>3. ASSUME NEW c \in Capabilities \cup Services, c # d, share'[c] = share[c], NEW t, t = share'[c],
             NEW S, S = Sold(c)
      PROVE  /\ SumsOf(t, S)'
             /\ \A e : WalletsOf(t, e, S) => WalletsOf(t, e, S)'
  <2>1. t \in Money /\ S \in SUBSET Ops /\ o \notin S /\ SumsOf(t, S)
    BY <1>1, <1>2, <1>3
  <2> QED BY <2>1, BookStays
<1> HIDE DEF d
<1>4. CASE d \in Capabilities
  <2>0. /\ share' = [share EXCEPT ![d] = Updated(share[d], o, new, bought[d][PayerOf[o]])]
        /\ bought' = IF Delivers(o, new) THEN [bought EXCEPT ![d] = [bought[d] EXCEPT ![PayerOf[o]] = @ + 1]]
                     ELSE bought
    <3>1. CapabilityOf[o] \in Capabilities /\ CapabilityOf[o] \notin Services
      BY <1>4, CapabilityAssumption DEF d
    <3>2. share' = [share EXCEPT ![CapabilityOf[o]] =
                      Updated(share[CapabilityOf[o]], o, new, bought[CapabilityOf[o]][PayerOf[o]])]
      BY <3>1 DEF Attribute, ApplyOutcome
    <3>3. bought' = IF Delivers(o, new)
                    THEN [bought EXCEPT ![CapabilityOf[o]] =
                            [bought[CapabilityOf[o]] EXCEPT ![PayerOf[o]] = @ + 1]]
                    ELSE bought
      BY <3>1 DEF Attribute, ApplyOutcome
    <3> QED BY <3>2, <3>3 DEF d
  <2>1. PICK t, e, S, u, g : t = share[d] /\ e = bought[d] /\ S = Sold(d) /\ u = share'[d] /\ g = bought'[d]
    OBVIOUS
  <2>2. /\ share' = [share EXCEPT ![d] = u] /\ u = Updated(t, o, new, e[PayerOf[o]])
        /\ bought' = [bought EXCEPT ![d] = g]
        /\ g = IF Delivers(o, new) THEN [e EXCEPT ![PayerOf[o]] = @ + 1] ELSE e
    <3> QED BY <1>1, <1>4, <2>0, <2>1
  <2>3. t \in Money /\ e \in [Payers -> Nat] /\ S \in SUBSET Ops /\ o \in S
        /\ SumsOf(t, S) /\ WalletsOf(t, e, S)
    BY <1>1, <1>2, <1>4, <2>1
  <2>4. u \in Money /\ g \in [Payers -> Nat] /\ SumsOf(u, S)' /\ WalletsOf(u, g, S)'
    BY <2>2, <2>3, BookFollows
  <2>5. /\ share' \in [Capabilities \cup Services -> Money]
        /\ bought' \in [Capabilities -> [Payers -> Nat]]
        /\ \A c \in Capabilities \cup Services : c # d => share'[c] = share[c]
        /\ \A c \in Capabilities : c # d => bought'[c] = bought[c]
    BY <1>1, <1>4, <2>2, <2>4
  <2>6. ASSUME NEW c \in Capabilities \cup Services, NEW v, NEW T, v = share'[c], T = Sold(c)
        PROVE  SumsOf(v, T)'
    <3>1. CASE c = d
      <4>1. v = u /\ T = S
        BY <2>1, <2>6, <3>1
      <4> QED BY <2>4, <4>1
    <3>2. CASE c # d
      BY <1>3, <2>5, <2>6, <3>2
    <3> QED BY <3>1, <3>2
  <2>7. ASSUME NEW c \in Capabilities, NEW v, NEW h, NEW T, v = share'[c], h = bought'[c], T = Sold(c)
        PROVE  WalletsOf(v, h, T)'
    <3>1. CASE c = d
      <4>1. v = u /\ h = g /\ T = S
        BY <2>1, <2>7, <3>1
      <4> QED BY <2>4, <4>1
    <3>2. CASE c # d
      <4>1. v = share[c] /\ h = bought[c]
        BY <2>5, <2>7, <3>2
      <4>2. WalletsOf(v, h, T)
        BY <1>1, <2>7, <4>1
      <4> QED BY <1>3, <2>7, <3>2, <4>1, <4>2
    <3> QED BY <3>1, <3>2
  <2> QED BY <2>5, <2>6, <2>7 DEF SharesAdd, SharesCount
<1>5. CASE d \in Services /\ d \notin Capabilities
  <2>0. ApplyLive(o, d, new)
    BY <1>5 DEF Attribute, d
  <2>1. PICK t, S, u : t = share[d] /\ S = Sold(d) /\ u = share'[d]
    OBVIOUS
  <2>2. /\ share' = [share EXCEPT ![d] = u]
        /\ u = Replaced(t, Snapshot(o, row[o]), Snapshot(o, new))
        /\ bought' = bought
    <3>1. share' = [share EXCEPT ![d] = Replaced(share[d], Snapshot(o, row[o]), Snapshot(o, new))]
      BY <2>0 DEF ApplyLive
    <3>2. bought' = bought
      BY <2>0 DEF ApplyLive
    <3> QED BY <1>1, <1>5, <2>1, <3>1, <3>2
  <2>3. t \in Money /\ S \in SUBSET Ops /\ o \in S /\ SumsOf(t, S)
    BY <1>1, <1>2, <1>5, <2>1
  <2>4. row[o] \in Financial \cup {"none"} /\ new \in Financial \cup {"none"}
    BY DEF Raised, CommerceTyped
  <2>5. /\ u \in Money
        /\ \A field \in Fields : u[field] = t[field] - Snapshot(o, row[o])[field] + Snapshot(o, new)[field]
    BY <2>2, <2>3, <2>4, ReplacedFits
  <2>6. SumsOf(u, S)'
    <3>1. \A field \in Fields : u[field] = SumFunctionOnSet(SnapshotOf(field)', S)
      BY <2>3, <2>5, SumsFollow
    <3> QED BY <3>1, SumsNext
  <2>7. /\ share' \in [Capabilities \cup Services -> Money]
        /\ \A c \in Capabilities \cup Services : c # d => share'[c] = share[c]
    BY <1>1, <1>5, <2>2, <2>5
  <2>8. ASSUME NEW c \in Capabilities \cup Services, NEW v, NEW T, v = share'[c], T = Sold(c)
        PROVE  SumsOf(v, T)'
    <3>1. CASE c = d
      <4>1. v = u /\ T = S
        BY <2>1, <2>8, <3>1
      <4> QED BY <2>6, <4>1
    <3>2. CASE c # d
      BY <1>3, <2>7, <2>8, <3>2
    <3> QED BY <3>1, <3>2
  <2>9. ASSUME NEW c \in Capabilities, NEW v, NEW h, NEW T, v = share'[c], h = bought'[c], T = Sold(c)
        PROVE  WalletsOf(v, h, T)'
    <3>1. c # d /\ v = share[c] /\ h = bought[c]
      BY <1>5, <2>2, <2>7, <2>9
    <3>2. WalletsOf(v, h, T)
      BY <1>1, <2>9, <3>1
    <3> QED BY <1>3, <2>9, <3>1, <3>2
  <2> QED BY <1>1, <2>2, <2>7, <2>8, <2>9 DEF SharesAdd, SharesCount
<1>6. CASE d \notin Capabilities \cup Services
  <2>0. share' = share /\ bought' = bought
    BY <1>6 DEF Attribute, d
  <2>1. ASSUME NEW c \in Capabilities \cup Services, NEW v, NEW T, v = share'[c], T = Sold(c)
        PROVE  SumsOf(v, T)'
    BY <1>3, <1>6, <2>0, <2>1
  <2>2. ASSUME NEW c \in Capabilities, NEW v, NEW h, NEW T, v = share'[c], h = bought'[c], T = Sold(c)
        PROVE  WalletsOf(v, h, T)'
    <3>1. WalletsOf(v, h, T)
      BY <1>1, <2>0, <2>2
    <3> QED BY <1>3, <1>6, <2>0, <2>2, <3>1
  <2> QED BY <1>1, <2>0, <2>1, <2>2 DEF SharesAdd, SharesCount
<1> QED BY <1>4, <1>5, <1>6

\* The operation and its calls write no book.
LEMMA BooksStay ==
    ASSUME CommerceInv, UNCHANGED books PROVE BooksAgree'
<1>1. row' = row /\ totals' = totals /\ wallet' = wallet /\ share' = share /\ bought' = bought
  BY DEF books
<1>2. ASSUME NEW t, NEW S, SumsOf(t, S) PROVE SumsOf(t, S)'
  BY <1>1, <1>2 DEF SumsOf, Total
<1>3. ASSUME NEW t, NEW e, NEW S, WalletsOf(t, e, S) PROVE WalletsOf(t, e, S)'
  <2>1. \A b : Deliveries(b, S)' = Deliveries(b, S)
    BY <1>1 DEF Deliveries
  <2>2. \A n : Buyers(S, n)' = Buyers(S, n)
    BY <1>1 DEF Buyers, Deliveries
  <2> QED BY <1>3, <2>1, <2>2 DEF WalletsOf
<1>4. PICK t, e, s, h : t = totals /\ e = wallet /\ s = share /\ h = bought
  OBVIOUS
<1>5. /\ SumsOf(t, Ops)' /\ WalletsOf(t, e, Ops)'
  BY <1>2, <1>3, <1>4 DEF CommerceInv, BooksAgree
<1>6. ASSUME NEW c \in DOMAIN s PROVE SumsOf(s[c], Sold(c))'
  <2>1. PICK v, T : v = s[c] /\ T = Sold(c)
    OBVIOUS
  <2>2. SumsOf(v, T)'
    BY <1>2, <1>4, <2>1 DEF CommerceInv, BooksAgree
  <2> QED BY <2>1, <2>2 DEF SumsOf, Total, Sold
<1>7. ASSUME NEW c \in Capabilities PROVE WalletsOf(s[c], h[c], Sold(c))'
  <2>1. PICK v, w, T : v = s[c] /\ w = h[c] /\ T = Sold(c)
    OBVIOUS
  <2>2. WalletsOf(v, w, T)'
    BY <1>3, <1>4, <2>1 DEF CommerceInv, BooksAgree
  <2> QED BY <2>1, <2>2 DEF WalletsOf, Buyers, Deliveries, Sold
<1>8. /\ totals' = t /\ wallet' = e /\ share' = s /\ bought' = h
      /\ t.cash = t.recognized + t.liability
  BY <1>1, <1>4 DEF CommerceInv, BooksAgree
<1>9. SumsOf(totals, Ops)' /\ WalletsOf(totals, wallet, Ops)'
  BY <1>5, <1>8 DEF SumsOf, Total, WalletsOf, Buyers, Deliveries
<1>10. ASSUME NEW c \in DOMAIN share' PROVE SumsOf(share[c], Sold(c))'
  <2>1. SumsOf(s[c], Sold(c))'
    BY <1>6, <1>8
  <2> QED BY <1>8, <2>1 DEF SumsOf, Total, Sold
<1>11. ASSUME NEW c \in Capabilities PROVE WalletsOf(share[c], bought[c], Sold(c))'
  <2>1. WalletsOf(s[c], h[c], Sold(c))'
    BY <1>7
  <2> QED BY <1>8, <2>1 DEF WalletsOf, Buyers, Deliveries, Sold
<1> QED BY <1>8, <1>9, <1>10, <1>11 DEF BooksAgree

LEMMA CallsKeepBooks ==
    ASSUME CommerceInv, UNCHANGED books, life' \in [Ops -> Financial \cup {"none"}],
           call' \in [Ops -> [Reasons -> Calls]]
    PROVE  CommerceInv'
<1>1. CommerceTyped'
  BY DEF books, CommerceInv, CommerceTyped
<1> QED BY <1>1, BooksStay DEF CommerceInv

LEMMA ApplyKeepsBooks ==
    ASSUME CommerceInv, NEW o \in Ops, NEW why \in Reasons, Apply(o, why)
    PROVE  CommerceInv'
<1> DEFINE new == call[o][why].status
           b == PayerOf[o]
<1>1. /\ life' = life /\ call' \in [Ops -> [Reasons -> Calls]]
      /\ new \in Financial \cup {"none"}
  <2>1. call \in [Ops -> [Reasons -> Calls]] /\ call[o][why] \in Calls
    BY DEF CommerceInv, CommerceTyped
  <2>2. [call[o][why] EXCEPT !.phase = "applied"] \in Calls /\ new \in Financial \cup {"none"}
    BY <2>1 DEF Calls
  <2>3. call' = [call EXCEPT ![o] = [call[o] EXCEPT ![why] = [call[o][why] EXCEPT !.phase = "applied"]]]
    BY DEF Apply
  <2> QED BY <2>1, <2>2, <2>3 DEF Apply, object
<1>2. CASE UNCHANGED books
  <2>1. life' \in [Ops -> Financial \cup {"none"}]
    BY <1>1 DEF CommerceInv, CommerceTyped
  <2> QED BY <1>1, <1>2, <2>1, CallsKeepBooks
<1>3. CASE /\ Newer(row[o], new)
           /\ row' = [row EXCEPT ![o] = new]
           /\ totals' = Updated(totals, o, new, wallet[b])
           /\ wallet' = IF Delivers(o, new) THEN [wallet EXCEPT ![b] = @ + 1] ELSE wallet
           /\ Attribute(o, new)
  <2>1. Raised(o, new)
    <3>1. row \in [Ops -> Financial \cup {"none"}]
      BY DEF CommerceInv, CommerceTyped
    <3>2. new # "none" /\ row[o] # "succeeded"
      BY <1>1, <1>3, <3>1 DEF Newer, Rank, Financial
    <3> QED BY <1>1, <1>3, <3>1, <3>2 DEF Raised, CommerceInv
  <2>2. PICK n, t, e, u, g : n = new /\ t = totals /\ e = wallet /\ u = totals' /\ g = wallet'
    OBVIOUS
  <2>3. /\ t \in Money /\ e \in [Payers -> Nat] /\ SumsOf(t, Ops) /\ WalletsOf(t, e, Ops)
        /\ t.cash = t.recognized + t.liability
    BY <2>2 DEF CommerceInv, CommerceTyped, BooksAgree
  <2>4. /\ Raised(o, n) /\ u = Updated(t, o, n, e[PayerOf[o]])
        /\ g = IF Delivers(o, n) THEN [e EXCEPT ![PayerOf[o]] = @ + 1] ELSE e
    BY <1>3, <2>1, <2>2
  <2>5. u \in Money /\ g \in [Payers -> Nat] /\ SumsOf(u, Ops)' /\ WalletsOf(u, g, Ops)'
    BY <2>3, <2>4, BookFollows
  <2>6. u.cash = u.recognized + u.liability
    <3>1. e[PayerOf[o]] \in Nat
      BY <2>3, PayerAssumption
    <3>2. \A field \in Fields : u[field] = t[field] - Snapshot(o, row[o])[field] + Snapshot(o, n)[field]
      BY <2>3, <2>4, <3>1, UpdatedFits
    <3>3. /\ u.cash = t.cash - Snapshot(o, row[o]).cash + Snapshot(o, n).cash
          /\ u.recognized = t.recognized - Snapshot(o, row[o]).recognized + Snapshot(o, n).recognized
          /\ u.liability = t.liability - Snapshot(o, row[o]).liability + Snapshot(o, n).liability
      BY <3>2 DEF Fields
    <3>4. row[o] \in Financial \cup {"none"} /\ n \in Financial \cup {"none"}
      BY <2>4 DEF Raised, CommerceTyped
    <3>5. /\ Snapshot(o, row[o]).cash = Snapshot(o, row[o]).recognized + Snapshot(o, row[o]).liability
          /\ Snapshot(o, n).cash = Snapshot(o, n).recognized + Snapshot(o, n).liability
          /\ Snapshot(o, row[o]).recognized \in Nat /\ Snapshot(o, row[o]).liability \in Nat
          /\ Snapshot(o, n).recognized \in Nat /\ Snapshot(o, n).liability \in Nat
      BY <3>4, SnapshotFits DEF Fields
    <3>6. t.recognized \in Int /\ t.liability \in Int
      BY <2>3 DEF Money
    <3> QED BY <2>3, <3>3, <3>5, <3>6
  <2>7. /\ share' \in [Capabilities \cup Services -> Money]
        /\ bought' \in [Capabilities -> [Payers -> Nat]]
        /\ SharesAdd(share', Capabilities \cup Services)
        /\ SharesCount(share', bought', Capabilities)
    BY <1>3, <2>2, <2>4, AttributeKeeps
  <2>8. CommerceTyped'
    BY <1>1, <2>2, <2>4, <2>5, <2>7 DEF CommerceInv, CommerceTyped, Raised
  <2>9. SumsOf(totals, Ops)' /\ WalletsOf(totals, wallet, Ops)'
    BY <2>2, <2>5 DEF SumsOf, Total, WalletsOf, Buyers, Deliveries
  <2>10. DOMAIN share' = Capabilities \cup Services
    BY <2>7
  <2>11. ASSUME NEW c \in Capabilities \cup Services PROVE SumsOf(share[c], Sold(c))'
    <3>1. PICK v, T : v = share'[c] /\ T = Sold(c)
      OBVIOUS
    <3>2. SumsOf(v, T)'
      BY <2>7, <3>1 DEF SharesAdd
    <3> QED BY <3>1, <3>2 DEF SumsOf, Total, Sold
  <2>12. ASSUME NEW c \in Capabilities PROVE WalletsOf(share[c], bought[c], Sold(c))'
    <3>1. PICK v, h, T : v = share'[c] /\ h = bought'[c] /\ T = Sold(c)
      OBVIOUS
    <3>2. WalletsOf(v, h, T)'
      BY <2>7, <3>1 DEF SharesCount
    <3> QED BY <3>1, <3>2 DEF WalletsOf, Buyers, Deliveries, Sold
  <2>13. BooksAgree'
    BY <2>2, <2>6, <2>9, <2>10, <2>11, <2>12 DEF BooksAgree
  <2> QED BY <2>8, <2>13 DEF CommerceInv
<1> QED BY <1>2, <1>3 DEF Apply

LEMMA SendFits ==
    ASSUME CommerceTyped, NEW o \in Ops, NEW why \in Reasons, NEW status \in Financial \cup {"none"},
           Send(o, why, status)
    PROVE  call' \in [Ops -> [Reasons -> Calls]]
<1>1. [phase |-> "sent", status |-> status] \in Calls
  BY DEF Calls
<1> QED BY <1>1 DEF Send, CommerceTyped

LEMMA CommerceNextKeeps == CommerceInv /\ [Next]_vars => CommerceInv'
<1> SUFFICES ASSUME CommerceInv, [Next]_vars PROVE CommerceInv'
  OBVIOUS
<1>0. CommerceTyped /\ NoCall \in Calls
  BY DEF CommerceInv, NoCall, Calls
<1>1. ASSUME NEW o \in Ops, NEW status \in Financial, Advance(o, status) PROVE CommerceInv'
  <2>1. status \in Reasons
    BY DEF Reasons
  <2>2. call' \in [Ops -> [Reasons -> Calls]]
    BY <1>0, <1>1, <2>1, SendFits DEF Advance
  <2> QED BY <1>0, <1>1, <2>2, CallsKeepBooks DEF Advance, CommerceTyped
<1>2. ASSUME NEW o \in Ops, NEW why \in Reasons, Acknowledge(o, why) \/ Fail(o, why) PROVE CommerceInv'
  <2>1. call' = [call EXCEPT ![o] = [call[o] EXCEPT ![why] = NoCall]] /\ life' = life
    BY <1>2 DEF Acknowledge, Fail
  <2>2. UNCHANGED books
    BY <1>2 DEF Acknowledge, Fail
  <2>3. call' \in [Ops -> [Reasons -> Calls]]
    BY <1>0, <2>1 DEF CommerceTyped
  <2>4. life' \in [Ops -> Financial \cup {"none"}]
    BY <1>0, <2>1 DEF CommerceTyped
  <2> QED BY <2>2, <2>3, <2>4, CallsKeepBooks
<1>3. ASSUME NEW o \in Ops, Alarm(o) PROVE CommerceInv'
  <2>1. life[o] \in Financial \cup {"none"} /\ "alarm" \in Reasons
    BY <1>0 DEF CommerceTyped, Reasons
  <2>2. call' \in [Ops -> [Reasons -> Calls]]
    BY <1>0, <1>3, <2>1, SendFits DEF Alarm, CommerceTyped
  <2> QED BY <1>0, <1>3, <2>2, CallsKeepBooks DEF Alarm, CommerceTyped
<1>4. ASSUME NEW o \in Ops, Evict(o) PROVE CommerceInv'
  BY <1>0, <1>4, CallsKeepBooks DEF Evict, CommerceTyped
<1>5. CASE UNCHANGED vars
  BY <1>0, <1>5, CallsKeepBooks DEF vars, books, CommerceTyped
<1> QED BY <1>1, <1>2, <1>3, <1>4, <1>5, ApplyKeepsBooks DEF Next

LEMMA CommerceInitKeeps == Init => CommerceInv
<1> SUFFICES ASSUME Init PROVE CommerceInv
  OBVIOUS
<1>1. /\ row = [o \in Ops |-> "none"] /\ totals = NoBooks /\ wallet = [b \in Payers |-> 0]
      /\ share = [c \in Capabilities \cup Services |-> NoBooks]
      /\ bought = [c \in Capabilities |-> wallet]
  BY DEF Init
<1>2. CommerceTyped
  BY <1>1 DEF Init, CommerceTyped, NoBooks, Money, NoCall, Calls, Financial
<1>3. ASSUME NEW S \in SUBSET Ops PROVE SumsOf(NoBooks, S) /\ WalletsOf(NoBooks, wallet, S)
  <2>1. IsFiniteSet(S)
    BY DigestAssumption, FS_Subset
  <2>2. ASSUME NEW field \in Fields PROVE SumFunctionOnSet(SnapshotOf(field), S) = 0
    <3>1. \A o \in S : SnapshotOf(field)[o] = 0
      BY <1>1 DEF SnapshotOf, Snapshot, NoMoney, Fields
    <3> QED BY <2>1, <3>1, SumZero
  <2>3. ASSUME NEW b PROVE Deliveries(b, S) = 0
    <3>1. {o \in S : PayerOf[o] = b /\ row[o] = "succeeded"} = {}
      BY <1>1
    <3> QED BY <3>1, FS_EmptySet DEF Deliveries
  <2>4. Buyers(S, 1) = 0 /\ Buyers(S, 2) = 0
    <3>1. {b \in Payers : Deliveries(b, S) >= 1} = {} /\ {b \in Payers : Deliveries(b, S) >= 2} = {}
      BY <2>3
    <3> QED BY <3>1, FS_EmptySet DEF Buyers
  <2>5. SumsOf(NoBooks, S)
    BY <2>2 DEF SumsOf, Total, SnapshotOf, NoBooks, Fields
  <2> QED BY <1>1, <2>3, <2>4, <2>5 DEF WalletsOf, NoBooks
<1>4. \A c : Sold(c) \in SUBSET Ops
  BY DEF Sold
<1>5. BooksAgree
  <2>1. \A c \in DOMAIN share : SumsOf(share[c], Sold(c))
    BY <1>1, <1>3, <1>4
  <2>2. \A c \in Capabilities : WalletsOf(share[c], bought[c], Sold(c))
    BY <1>1, <1>3, <1>4
  <2> QED BY <1>1, <1>3, <2>1, <2>2 DEF BooksAgree, NoBooks
<1> QED BY <1>2, <1>5 DEF CommerceInv

(***************************************************************************)
(* The commerce books agree with the rows of the index, and through them   *)
(* with what each operation reached: for any number of operations, payers, *)
(* outcomes and services, and any loss, repetition and order of copies.    *)
(***************************************************************************)
THEOREM BooksAlwaysAgree == Spec => []BooksAgree
<1> QED BY CommerceInitKeeps, CommerceNextKeeps, PTL DEF Spec, CommerceInv

-----------------------------------------------------------------------------
(* The minimum price is exact: it is the least price that leaves the margin. *)

\* Rounding up: q is the least number with q * d >= n.
LEMMA CeilingIsLeast ==
    ASSUME NEW n \in Nat, NEW d \in Nat, d > 0, NEW p \in Nat
    PROVE  p >= (n + (d - 1)) \div d <=> p * d >= n
<1> DEFINE m == n + (d - 1)
           q == m \div d
           r == m % d
<1>1. m \in Nat /\ q \in Nat /\ r \in Nat /\ m = d * q + r /\ r < d
  BY SMT
<1> HIDE DEF q, r
<1>2. ASSUME p >= q PROVE p * d >= n
  <2>1. p * d >= q * d
    BY <1>1, <1>2, SMT
  <2>2. q * d > n - 1
    BY <1>1, SMT
  <2> QED BY <1>1, <2>1, <2>2, SMT
<1>3. ASSUME p < q PROVE p * d < n
  <2>1. (p + 1) * d <= q * d
    BY <1>1, <1>3, SMT
  <2>2. q * d <= n + (d - 1)
    BY <1>1, SMT
  <2>3. (p + 1) * d = p * d + d
    BY SMT
  <2>4. p * d \in Nat
    BY SMT
  <2> QED BY <1>1, <2>1, <2>2, <2>3, <2>4, SMT
<1>4. p * d \in Nat
  BY SMT
<1> QED BY <1>1, <1>2, <1>3, <1>4 DEF q

\* The margin is a multiple of the price.
LEMMA MarginAsMultiple ==
    ASSUME NEW c \in Nat, NEW m \in Nat, m < 10000, NEW p \in Nat
    PROVE  (p - c) * 10000 >= m * p <=> p * (10000 - m) >= c * 10000
<1>1. (p - c) * 10000 = p * 10000 - c * 10000
  BY SMT
<1>2. p * (10000 - m) = p * 10000 - m * p
  BY SMT
<1>3. m * p \in Nat
  BY SMT
<1> QED BY <1>1, <1>2, <1>3, SMT

\* A price is at or above minimum_price_usd_micros exactly when it leaves the
\* contribution margin that the operator asked for (pricingEconomics).
THEOREM MinimumIsExact ==
    ASSUME NEW b \in Budgets, NEW price \in Nat
    PROVE  price >= MinimumPrice(b) <=> LeavesMargin(b, price)
<1> DEFINE c == Cost(b)
           m == b.bps
           d == 10000 - m
<1>1. m \in Nat /\ m < 10000 /\ c \in Nat
  BY DEF Budgets, Cost
<1> HIDE DEF c, m
<1>2. d \in Nat /\ d > 0 /\ d - 1 = 9999 - m /\ c * 10000 \in Nat
  BY <1>1
<1> HIDE DEF d
<1>3. price >= (c * 10000 + (d - 1)) \div d <=> price * d >= c * 10000
  BY <1>2, CeilingIsLeast
<1>4. MinimumPrice(b) = (c * 10000 + (d - 1)) \div d
  BY <1>2 DEF MinimumPrice, c, m, d
<1>5. LeavesMargin(b, price) <=> price * d >= c * 10000
  <2>1. (price - c) * 10000 >= m * price <=> price * d >= c * 10000
    BY <1>1, MarginAsMultiple DEF d
  <2>2. LeavesMargin(b, price) <=> (price - c) * 10000 >= m * price
    BY DEF LeavesMargin, c, m
  <2> QED BY <2>1, <2>2
<1> QED BY <1>3, <1>4, <1>5

\* An execution that needs one attempt never loses money at a price that
\* pricingEconomics makes available.
THEOREM FirstAttemptPays ==
    ASSUME NEW b \in Budgets, NEW price \in Nat, Available(b, price)
    PROVE  Contribution(b, price, 1) >= 0
<1>1. LeavesMargin(b, price)
  BY MinimumIsExact DEF Available
<1>2. b.bps \in Nat /\ b.bps < 10000 /\ b.infra \in Nat /\ b.fees \in Nat
  BY DEF Budgets
<1>3. Cost(b) \in Nat
  BY <1>2 DEF Cost
<1>4. price >= Cost(b)
  <2> DEFINE c == Cost(b)
             m == b.bps
             k == m * price
  <2>1. c \in Nat /\ m \in Nat /\ m < 10000
    BY <1>2, <1>3
  <2>2. (price - c) * 10000 >= k
    BY <1>1 DEF LeavesMargin
  <2> HIDE DEF c, m
  <2>3. k \in Int /\ k >= 0
    BY <2>1, SMT
  <2> HIDE DEF k
  <2>4. price >= c
    BY <2>1, <2>2, <2>3, SMT
  <2> QED BY <2>4 DEF c
<1> QED BY <1>2, <1>3, <1>4 DEF Contribution, Cost

-----------------------------------------------------------------------------
(* The inductive invariant. *)

Checked == {"bound", "select", "begin"}
Begun == {"verify", "settle"}

ReqRecords ==
    [step : {"idle", "done"}]
    \cup [step : {"ready", "gated", "done"}, at : Isolates]
    \cup [step : Checked \cup Begun \cup {"done"}, at : Isolates, offer : Offers,
          input : Inputs, q : Quotes, auth : Auths, pays : AllTerms, rail : Rails]

OpRecords ==
    [status : {"none"}]
    \cup [status : {"pending", "verified", "failed", "settled", "ambiguous"}, q : Quotes,
          input : Inputs, terms : AllTerms, pays : AllTerms, budget : Budgets,
          floor : Budgets, keeps : Nat, rail : Rails]

QuoteRecords ==
    [known : {FALSE}]
    \cup [known : {TRUE}, offer : Offers, input : Inputs, terms : AllTerms, keeps : Nat,
          budget : Budgets, expires : Nat]

AdmissionTyped ==
    /\ now \in Nat
    /\ quote \in [Quotes -> QuoteRecords]
    /\ req \in [Requests -> ReqRecords]
    /\ op \in [Auths -> OpRecords]

\* A quote is issued above the floor.
QuotesPay == \A q \in Quotes : quote[q].known => LeavesMargin(quote[q].budget, quote[q].keeps)

\* A request that passed the checks serves the terms of its quote, above the
\* floor of its own deployment.
ChoicesBound ==
    \A r \in Requests : req[r].step \in Checked =>
        LET q == quote[req[r].q] IN
        /\ q.known /\ q.input = req[r].input
        /\ q.terms = Terms(req[r].at, req[r].offer)
        /\ LeavesMargin(BudgetOf(req[r].at, req[r].offer), EnvOf[req[r].at].keeps[req[r].offer])

\* A request at the facilitator has its record, which verifies what was signed.
BegunBound ==
    \A r \in Requests : req[r].step \in Begun =>
        /\ op[req[r].auth].status # "none"
        /\ op[req[r].auth].pays = req[r].pays
        /\ req[r].step = "settle" => req[r].pays = op[req[r].auth].terms

OpsQuoted == \A a \in Auths : op[a].status # "none" => quote[op[a].q].known

AdmissionInv == AdmissionTyped /\ QuotesPay /\ ChoicesBound /\ BegunBound /\ OpsQuoted /\ QuoteKept

-----------------------------------------------------------------------------
LEMMA EnvTyped ==
    ASSUME NEW d \in Isolates, NEW o \in Offers
    PROVE  /\ BudgetOf(d, o) \in Budgets
           /\ EnvOf[d].keeps[o] \in Nat
           /\ EnvOf[d].rail[Network(o)] \in Rails
           /\ Terms(d, o) \in AllTerms
<1>1. EnvOf[d] \in Environments
  BY EnvAssumption
<1>2. EnvOf[d].budget \in Budgets /\ EnvOf[d].liveInfra \in Nat
  BY <1>1 DEF Environments
<1>3. \A b \in Budgets : b.infra \in Nat /\ \A n \in Nat : [b EXCEPT !.infra = n] \in Budgets
  BY DEF Budgets
<1>4. EnvOf[d].budget.infra \in Nat
  BY <1>2, <1>3
<1>5. EnvOf[d].budget.infra * 6 \in Nat
  BY <1>4
<1>6. BudgetOf(d, o) \in Budgets
  BY <1>2, <1>3, <1>5 DEF BudgetOf
<1>7. EnvOf[d].keeps[o] \in Nat /\ EnvOf[d].rail[Network(o)] \in Rails
  BY <1>1 DEF Environments, Network
<1> QED BY <1>6, <1>7 DEF AllTerms

\* What gatewayConfig offers leaves its margin.
LEMMA ConfiguredPays ==
    ASSUME NEW d \in Isolates, NEW o \in Offers, Configured(d, o)
    PROVE  LeavesMargin(BudgetOf(d, o), EnvOf[d].keeps[o])
<1>1. BudgetOf(d, o) \in Budgets /\ EnvOf[d].keeps[o] \in Nat
  BY EnvTyped
<1>2. EnvOf[d].keeps[o] >= MinimumPrice(BudgetOf(d, o))
  BY DEF Configured, Available
<1> QED BY <1>1, <1>2, MinimumIsExact

-----------------------------------------------------------------------------
LEMMA AdmissionInitKeeps == AdmissionInit => AdmissionInv
<1> SUFFICES ASSUME AdmissionInit PROVE AdmissionInv
  OBVIOUS
<1>1. AdmissionTyped
  BY DEF AdmissionInit, AdmissionTyped, NoQuote, Waiting, NoOp, QuoteRecords, ReqRecords, OpRecords
<1>2. QuotesPay
  BY DEF AdmissionInit, QuotesPay, NoQuote
<1>3. ChoicesBound /\ BegunBound
  BY DEF AdmissionInit, ChoicesBound, BegunBound, Waiting, Checked, Begun
<1>4. OpsQuoted /\ QuoteKept
  BY DEF AdmissionInit, OpsQuoted, QuoteKept, NoOp
<1> QED BY <1>1, <1>2, <1>3, <1>4 DEF AdmissionInv

LEMMA IssueKeeps ==
    ASSUME AdmissionInv, NEW q \in Quotes, NEW d \in Isolates, NEW o \in Offers, NEW i \in Inputs,
           Issue(q, d, o, i)
    PROVE  AdmissionInv'
<1> DEFINE new == [known |-> TRUE, offer |-> o, input |-> i, terms |-> Terms(d, o),
                   keeps |-> EnvOf[d].keeps[o], budget |-> BudgetOf(d, o),
                   expires |-> now + QuoteFor]
<1>1. /\ BudgetOf(d, o) \in Budgets /\ EnvOf[d].keeps[o] \in Nat /\ Terms(d, o) \in AllTerms
      /\ LeavesMargin(BudgetOf(d, o), EnvOf[d].keeps[o])
  BY EnvTyped, ConfiguredPays DEF Issue
<1>2. new \in QuoteRecords
  <2>1. now + QuoteFor \in Nat
    BY AdmissionAssumption DEF AdmissionInv, AdmissionTyped
  <2>2. new \in [known : {TRUE}, offer : Offers, input : Inputs, terms : AllTerms, keeps : Nat,
                 budget : Budgets, expires : Nat]
    BY <1>1, <2>1, Zenon
  <2> QED BY <2>2 DEF QuoteRecords
<1>3. quote' = [quote EXCEPT ![q] = new] /\ ~quote[q].known
  BY DEF Issue
<1> HIDE DEF new
<1>4. UNCHANGED <<now, req, op>>
  BY DEF Issue
<1>5. quote \in [Quotes -> QuoteRecords]
  BY DEF AdmissionInv, AdmissionTyped
<1>6. \A k \in Quotes : quote[k].known => quote'[k] = quote[k]
  BY <1>3, <1>5
<1>7. AdmissionTyped'
  BY <1>2, <1>3, <1>4, <1>5 DEF AdmissionInv, AdmissionTyped
<1>8. QuotesPay'
  <2> SUFFICES ASSUME NEW k \in Quotes, quote'[k].known
               PROVE  LeavesMargin(quote'[k].budget, quote'[k].keeps)
    BY DEF QuotesPay
  <2>1. CASE k = q
    BY <2>1, <1>1, <1>3, <1>5 DEF new
  <2>2. CASE k # q
    BY <2>2, <1>3, <1>5 DEF AdmissionInv, QuotesPay
  <2> QED BY <2>1, <2>2
<1>9. ChoicesBound'
  BY <1>4, <1>6 DEF AdmissionInv, ChoicesBound, AdmissionTyped, ReqRecords, Checked, Begun
<1>10. BegunBound'
  BY <1>4 DEF AdmissionInv, BegunBound
<1>11. (OpsQuoted /\ QuoteKept)'
  <2> SUFFICES ASSUME NEW a \in Auths, op[a].status # "none"
               PROVE  quote'[op[a].q] = quote[op[a].q] /\ quote[op[a].q].known
    BY <1>4 DEF AdmissionInv, OpsQuoted, QuoteKept
  <2>1. op[a].q \in Quotes
    BY DEF AdmissionInv, AdmissionTyped, OpRecords
  <2> QED BY <2>1, <1>6 DEF AdmissionInv, OpsQuoted
<1> QED BY <1>7, <1>8, <1>9, <1>10, <1>11 DEF AdmissionInv

\* A request that only moves on, or that is refused, disturbs nothing.
LEMMA MoveKeeps ==
    ASSUME AdmissionInv, NEW r \in Requests, NEW s \in ReqRecords,
           req' = [req EXCEPT ![r] = s], UNCHANGED <<quote, op>>, now' \in Nat,
           s.step \notin Checked \cup Begun
           \/ /\ req[r].step \in Checked /\ s.step \in Checked
              /\ s.q = req[r].q /\ s.at = req[r].at /\ s.offer = req[r].offer
              /\ s.input = req[r].input
    PROVE  AdmissionInv'
<1>1. req'[r] = s /\ \A k \in Requests \ {r} : req'[k] = req[k]
  BY DEF AdmissionInv, AdmissionTyped
<1>2. AdmissionTyped'
  BY DEF AdmissionInv, AdmissionTyped
<1>3. QuotesPay' /\ OpsQuoted' /\ QuoteKept'
  BY DEF AdmissionInv, QuotesPay, OpsQuoted, QuoteKept
<1>4. ChoicesBound'
  BY <1>1 DEF AdmissionInv, ChoicesBound, Checked, Begun
<1>5. BegunBound'
  BY <1>1 DEF AdmissionInv, BegunBound, Checked, Begun
<1> QED BY <1>2, <1>3, <1>4, <1>5 DEF AdmissionInv

\* A request that passed the checks is bound to its quote.
LEMMA PresentKeeps ==
    ASSUME AdmissionInv, NEW r \in Requests, NEW d \in Isolates, NEW o \in Offers,
           NEW i \in Inputs, NEW q \in Quotes, Present(r, d, o, i, q)
    PROVE  AdmissionInv'
<1>1. PICK a \in Auths, pays \in AllTerms :
        req' = [req EXCEPT ![r] =
               [step |-> "bound", at |-> d, offer |-> o, input |-> i, q |-> q, auth |-> a,
                pays |-> pays, rail |-> EnvOf[d].rail[Network(o)]]]
  BY DEF Present
<1> DEFINE s == [step |-> "bound", at |-> d, offer |-> o, input |-> i, q |-> q, auth |-> a,
                 pays |-> pays, rail |-> EnvOf[d].rail[Network(o)]]
<1>2. s \in ReqRecords
  BY EnvTyped DEF ReqRecords, Checked
<1>3. /\ quote[q].known /\ quote[q].input = i /\ quote[q].terms = Terms(d, o)
      /\ LeavesMargin(BudgetOf(d, o), EnvOf[d].keeps[o])
  BY ConfiguredPays DEF Present, QuoteValid, SameTerms
<1>4. req'[r] = s /\ \A k \in Requests \ {r} : req'[k] = req[k]
  BY <1>1 DEF AdmissionInv, AdmissionTyped
<1>5. UNCHANGED <<now, quote, op>>
  BY DEF Present
<1>6. AdmissionTyped'
  BY <1>1, <1>2, <1>5 DEF AdmissionInv, AdmissionTyped
<1>7. QuotesPay' /\ OpsQuoted' /\ QuoteKept'
  BY <1>5 DEF AdmissionInv, QuotesPay, OpsQuoted, QuoteKept
<1>8. ChoicesBound'
  <2> SUFFICES ASSUME NEW k \in Requests, req'[k].step \in Checked
               PROVE  LET b == quote[req'[k].q] IN
                      /\ b.known /\ b.input = req'[k].input
                      /\ b.terms = Terms(req'[k].at, req'[k].offer)
                      /\ LeavesMargin(BudgetOf(req'[k].at, req'[k].offer),
                                      EnvOf[req'[k].at].keeps[req'[k].offer])
    BY <1>5 DEF ChoicesBound
  <2>1. CASE k = r
    BY <2>1, <1>3, <1>4
  <2>2. CASE k # r
    BY <2>2, <1>4 DEF AdmissionInv, ChoicesBound
  <2> QED BY <2>1, <2>2
<1>9. BegunBound'
  BY <1>4, <1>5 DEF AdmissionInv, BegunBound, Begun
<1> QED BY <1>6, <1>7, <1>8, <1>9 DEF AdmissionInv

\* What a request past the checks consists of, and that it may move on.
LEMMA RequestFields ==
    ASSUME AdmissionTyped, NEW r \in Requests, req[r].step \in Checked \cup Begun
    PROVE  /\ req[r].at \in Isolates /\ req[r].offer \in Offers /\ req[r].input \in Inputs
           /\ req[r].q \in Quotes /\ req[r].auth \in Auths /\ req[r].pays \in AllTerms
           /\ req[r].rail \in Rails
           /\ \A t \in Checked \cup Begun \cup {"done"} :
                LET n == [req[r] EXCEPT !.step = t] IN
                /\ n \in ReqRecords /\ n.step = t
                /\ n.at = req[r].at /\ n.offer = req[r].offer /\ n.input = req[r].input
                /\ n.q = req[r].q /\ n.auth = req[r].auth /\ n.pays = req[r].pays
<1>1. req[r] \in [step : Checked \cup Begun \cup {"done"}, at : Isolates, offer : Offers,
          input : Inputs, q : Quotes, auth : Auths, pays : AllTerms, rail : Rails]
  BY DEF AdmissionTyped, ReqRecords, Checked, Begun
<1> QED BY <1>1 DEF ReqRecords

\* The record of an operation is written from the quote and the configuration.
LEMMA BeginKeeps ==
    ASSUME AdmissionInv, NEW r \in Requests, Begin(r)
    PROVE  AdmissionInv'
<1> DEFINE a == req[r].auth
           q == req[r].q
           d == req[r].at
           o == req[r].offer
           new == [status |-> "pending", q |-> q, input |-> req[r].input, terms |-> Terms(d, o),
                   pays |-> req[r].pays, budget |-> quote[q].budget, floor |-> BudgetOf(d, o),
                   keeps |-> EnvOf[d].keeps[o], rail |-> req[r].rail]
<1>1. req[r].step = "begin" /\ UNCHANGED <<now, quote>>
  BY DEF Begin
<1>2. /\ a \in Auths /\ q \in Quotes /\ d \in Isolates /\ o \in Offers /\ req[r].input \in Inputs
      /\ req[r].pays \in AllTerms /\ req[r].rail \in Rails
  BY <1>1, RequestFields DEF AdmissionInv, Checked
<1>3. CASE op[a].status # "none" /\ UNCHANGED op /\ Goto(r, "done")
  <2> DEFINE s == [req[r] EXCEPT !.step = "done"]
  <2>0. AdmissionTyped /\ req[r].step \in Checked \cup Begun
    BY <1>1 DEF AdmissionInv, Checked
  <2>1. s \in ReqRecords /\ s.step = "done"
    BY <2>0, RequestFields
  <2>2. req' = [req EXCEPT ![r] = s]
    BY <1>3 DEF Goto
  <2>3. s.step \notin Checked \cup Begun
    BY <2>1 DEF Checked, Begun
  <2> HIDE DEF s
  <2> QED BY <1>1, <1>3, <2>1, <2>2, <2>3, MoveKeeps DEF AdmissionInv, AdmissionTyped
<1>4. CASE /\ op[a].status = "none" /\ op' = [op EXCEPT ![a] = new]
           /\ Goto(r, "verify")
  <2> DEFINE s == [req[r] EXCEPT !.step = "verify"]
  <2>1. /\ s \in ReqRecords /\ s.step = "verify" /\ s.auth = a /\ s.pays = req[r].pays
    BY <1>1, RequestFields DEF AdmissionInv, Checked, Begun
  <2>2. req' = [req EXCEPT ![r] = s]
    BY <1>4 DEF Goto
  <2> HIDE DEF s
  <2>3. /\ quote[q].known /\ quote[q].input = req[r].input /\ quote[q].terms = Terms(d, o)
        /\ LeavesMargin(BudgetOf(d, o), EnvOf[d].keeps[o])
    BY <1>1 DEF AdmissionInv, ChoicesBound, Checked
  <2>4. /\ BudgetOf(d, o) \in Budgets /\ EnvOf[d].keeps[o] \in Nat /\ Terms(d, o) \in AllTerms
    BY <1>2, EnvTyped
  <2>5. quote[q] \in QuoteRecords
    BY <1>2 DEF AdmissionInv, AdmissionTyped
  <2>6. quote[q].budget \in Budgets
    BY <2>3, <2>5 DEF QuoteRecords
  <2>7. LeavesMargin(quote[q].budget, quote[q].keeps)
    BY <1>2, <2>3 DEF AdmissionInv, QuotesPay
  <2>8. new \in OpRecords
    BY <1>2, <2>4, <2>6 DEF OpRecords
  <2>9. op'[a] = new /\ \A b \in Auths \ {a} : op'[b] = op[b]
    BY <1>2, <1>4 DEF AdmissionInv, AdmissionTyped
  <2>10. req'[r] = s /\ \A k \in Requests \ {r} : req'[k] = req[k]
    BY <2>2 DEF AdmissionInv, AdmissionTyped
  <2>11. AdmissionTyped'
    BY <1>1, <1>2, <1>4, <2>1, <2>2, <2>8 DEF AdmissionInv, AdmissionTyped
  <2>12. QuotesPay'
    BY <1>1 DEF AdmissionInv, QuotesPay
  <2>13. ChoicesBound'
    BY <1>1, <2>1, <2>10 DEF AdmissionInv, ChoicesBound, Checked
  <2>14. BegunBound'
    <3> SUFFICES ASSUME NEW k \in Requests, req'[k].step \in Begun
                 PROVE  /\ op'[req'[k].auth].status # "none"
                        /\ op'[req'[k].auth].pays = req'[k].pays
                        /\ req'[k].step = "settle" => req'[k].pays = op'[req'[k].auth].terms
      BY DEF BegunBound
    <3>1. CASE k = r
      BY <3>1, <2>1, <2>9, <2>10
    <3>2. CASE k # r
      <4>1. req[k].auth \in Auths
        BY <3>2, <2>10, RequestFields DEF AdmissionInv
      <4>2. req[k].auth # a
        BY <3>2, <2>10, <1>4 DEF AdmissionInv, BegunBound
      <4> QED BY <3>2, <4>1, <4>2, <2>9, <2>10 DEF AdmissionInv, BegunBound
    <3> QED BY <3>1, <3>2
  <2>15. OpsQuoted'
    BY <1>1, <2>3, <2>9 DEF AdmissionInv, OpsQuoted
  <2>16. QuoteKept'
    <3> SUFFICES ASSUME NEW b \in Auths, op'[b].status # "none"
                 PROVE  LET k == quote[op'[b].q] IN
                        /\ op'[b].terms = k.terms /\ op'[b].input = k.input
                        /\ LeavesMargin(k.budget, k.keeps)
                        /\ LeavesMargin(op'[b].floor, op'[b].keeps)
                        /\ op'[b].status \in {"verified", "settled", "ambiguous"} => op'[b].pays = k.terms
      BY <1>1 DEF QuoteKept
    <3>1. CASE b = a
      BY <3>1, <2>3, <2>7, <2>9
    <3>2. CASE b # a
      BY <3>2, <2>9 DEF AdmissionInv, QuoteKept
    <3> QED BY <3>1, <3>2
  <2> QED BY <2>11, <2>12, <2>13, <2>14, <2>15, <2>16 DEF AdmissionInv
<1> QED BY <1>3, <1>4 DEF Begin

\* The facilitator's verdict is stored; a payment is good only for its terms.
LEMMA ConcludeKeeps ==
    ASSUME AdmissionInv, NEW r \in Requests, req[r].step \in Begun,
           NEW status \in {"verified", "failed", "settled", "ambiguous"},
           NEW step \in {"settle", "done"}, Conclude(r, status, step),
           step = "settle" \/ status # "failed" => req[r].pays = op[req[r].auth].terms,
           UNCHANGED <<now, quote>>
    PROVE  AdmissionInv'
<1> DEFINE a == req[r].auth
           s == [req[r] EXCEPT !.step = step]
           new == [op[a] EXCEPT !.status = status]
<1>1. /\ a \in Auths /\ s \in ReqRecords /\ s.step = step /\ s.auth = a /\ s.pays = req[r].pays
  BY RequestFields DEF AdmissionInv, Begun
<1>2. op[a].status # "none" /\ op[a].pays = req[r].pays
  BY DEF AdmissionInv, BegunBound
<1>3. op[a] \in [status : {"pending", "verified", "failed", "settled", "ambiguous"}, q : Quotes,
          input : Inputs, terms : AllTerms, pays : AllTerms, budget : Budgets,
          floor : Budgets, keeps : Nat, rail : Rails]
  BY <1>1, <1>2 DEF AdmissionInv, AdmissionTyped, OpRecords
<1>4. /\ new \in OpRecords /\ new.status = status /\ new.q = op[a].q /\ new.input = op[a].input
      /\ new.terms = op[a].terms /\ new.pays = op[a].pays /\ new.floor = op[a].floor
      /\ new.keeps = op[a].keeps
  BY <1>3 DEF OpRecords
<1>5. req' = [req EXCEPT ![r] = s] /\ op' = [op EXCEPT ![a] = new]
  BY DEF Conclude, Goto
<1> HIDE DEF s, new
<1>6. op'[a] = new /\ \A b \in Auths \ {a} : op'[b] = op[b]
  BY <1>1, <1>5 DEF AdmissionInv, AdmissionTyped
<1>7. req'[r] = s /\ \A k \in Requests \ {r} : req'[k] = req[k]
  BY <1>5 DEF AdmissionInv, AdmissionTyped
<1>8. AdmissionTyped'
  BY <1>1, <1>4, <1>5 DEF AdmissionInv, AdmissionTyped
<1>9. QuotesPay'
  BY DEF AdmissionInv, QuotesPay
<1>10. ChoicesBound'
  BY <1>1, <1>7 DEF AdmissionInv, ChoicesBound, Checked
<1>11. \A b \in Auths : /\ op[b].status # "none" <=> op'[b].status # "none"
                        /\ op'[b].q = op[b].q /\ op'[b].input = op[b].input
                        /\ op'[b].terms = op[b].terms /\ op'[b].pays = op[b].pays
                        /\ op'[b].floor = op[b].floor /\ op'[b].keeps = op[b].keeps
  BY <1>2, <1>4, <1>6
<1>12. BegunBound'
  <2> SUFFICES ASSUME NEW k \in Requests, req'[k].step \in Begun
               PROVE  /\ op'[req'[k].auth].status # "none"
                      /\ op'[req'[k].auth].pays = req'[k].pays
                      /\ req'[k].step = "settle" => req'[k].pays = op'[req'[k].auth].terms
    BY DEF BegunBound
  <2>1. CASE k = r
    BY <2>1, <1>1, <1>2, <1>7, <1>11
  <2>2. CASE k # r
    <3>1. req[k].auth \in Auths
      BY <2>2, <1>7, RequestFields DEF AdmissionInv
    <3> QED BY <2>2, <3>1, <1>7, <1>11 DEF AdmissionInv, BegunBound
  <2> QED BY <2>1, <2>2
<1>13. OpsQuoted'
  BY <1>11 DEF AdmissionInv, OpsQuoted
<1>14. QuoteKept'
  <2> SUFFICES ASSUME NEW b \in Auths, op'[b].status # "none"
               PROVE  LET k == quote[op'[b].q] IN
                      /\ op'[b].terms = k.terms /\ op'[b].input = k.input
                      /\ LeavesMargin(k.budget, k.keeps)
                      /\ LeavesMargin(op'[b].floor, op'[b].keeps)
                      /\ op'[b].status \in {"verified", "settled", "ambiguous"} => op'[b].pays = k.terms
    BY DEF QuoteKept
  <2>1. op[b].status # "none"
    BY <1>11
  <2>2. LET k == quote[op[b].q] IN
        /\ op[b].terms = k.terms /\ op[b].input = k.input
        /\ LeavesMargin(k.budget, k.keeps) /\ LeavesMargin(op[b].floor, op[b].keeps)
        /\ op[b].status \in {"verified", "settled", "ambiguous"} => op[b].pays = k.terms
    BY <2>1 DEF AdmissionInv, QuoteKept
  <2>3. op'[b].status \in {"verified", "settled", "ambiguous"} => op[b].pays = quote[op[b].q].terms
    <3>1. CASE b = a
      BY <3>1, <2>2, <1>2, <1>4, <1>6
    <3>2. CASE b # a
      BY <3>2, <2>2, <1>6
    <3> QED BY <3>1, <3>2
  <2> QED BY <1>11, <2>2, <2>3
<1> QED BY <1>8, <1>9, <1>10, <1>12, <1>13, <1>14 DEF AdmissionInv

\* A step of a request.
LEMMA StepKeeps ==
    ASSUME AdmissionInv, NEW r \in Requests, Step(r)
    PROVE  AdmissionInv'
<1> DEFINE To(t) == [req[r] EXCEPT !.step = t]
<1>1. req[r].step \in {"idle", "ready", "gated"} =>
        To("done") \in ReqRecords /\ To("done").step = "done"
  <2>1. req[r] \in [step : {"idle", "done"}] \cup [step : {"ready", "gated", "done"}, at : Isolates]
        \/ req[r].step \notin {"idle", "ready", "gated"}
    BY DEF AdmissionInv, AdmissionTyped, ReqRecords, Checked, Begun
  <2> QED BY <2>1 DEF ReqRecords
<1>2. req[r].step = "ready" => To("gated") \in ReqRecords /\ To("gated").step = "gated"
  <2>1. req[r] \in [step : {"ready", "gated", "done"}, at : Isolates] \/ req[r].step # "ready"
    BY DEF AdmissionInv, AdmissionTyped, ReqRecords, Checked, Begun
  <2> QED BY <2>1 DEF ReqRecords
<1>3. CASE Regate(r)
  <2>1. req' = [req EXCEPT ![r] = To("gated")] \/ req' = [req EXCEPT ![r] = To("done")]
    BY <1>3 DEF Regate, Goto
  <2>2. UNCHANGED <<now, quote, op>> /\ req[r].step = "ready"
    BY <1>3 DEF Regate
  <2> HIDE DEF To
  <2> QED BY <1>1, <1>2, <2>1, <2>2, MoveKeeps DEF AdmissionInv, AdmissionTyped, Checked, Begun
<1>4. CASE Refuse(r)
  <2>1. req' = [req EXCEPT ![r] = To("done")]
    BY <1>4 DEF Refuse, Goto
  <2>2. UNCHANGED <<now, quote, op>> /\ req[r].step \in {"idle", "gated"}
    BY <1>4 DEF Refuse
  <2> HIDE DEF To
  <2> QED BY <1>1, <2>1, <2>2, MoveKeeps DEF AdmissionInv, AdmissionTyped, Checked, Begun
<1>5. CASE Reserve(r)
  <2>1. req' = [req EXCEPT ![r] = To("select")] \/ req' = [req EXCEPT ![r] = To("done")]
    BY <1>5 DEF Reserve, Goto
  <2>2. UNCHANGED <<now, quote, op>> /\ req[r].step \in Checked
    BY <1>5 DEF Reserve, Checked
  <2>3. \A t \in {"select", "done"} :
          /\ To(t) \in ReqRecords /\ To(t).step = t /\ To(t).q = req[r].q
          /\ To(t).at = req[r].at /\ To(t).offer = req[r].offer /\ To(t).input = req[r].input
    BY ZenonT(60), <2>2, RequestFields DEF AdmissionInv, Checked, Begun
  <2> HIDE DEF To
  <2> QED BY <2>1, <2>2, <2>3, MoveKeeps DEF AdmissionInv, AdmissionTyped, Checked, Begun
<1>6. CASE SelectFacilitator(r)
  <2> DEFINE On(v) == [req[r] EXCEPT !.rail = v, !.step = "begin"]
  <2>1. UNCHANGED <<now, quote, op>> /\ req[r].step = "select"
    BY <1>6 DEF SelectFacilitator
  <2>2. (\E v \in Rails : req' = [req EXCEPT ![r] = On(v)]) \/ req' = [req EXCEPT ![r] = To("done")]
    <3>1. req[r].rail \in Rails
      BY <2>1, RequestFields DEF AdmissionInv, Checked
    <3> QED BY <1>6, <3>1, FallbackAssumption DEF SelectFacilitator, Goto, Selectable
  <2>3. /\ To("done") \in ReqRecords /\ To("done").step = "done"
    BY <2>1, RequestFields DEF AdmissionInv, Checked, Begun
  <2>4. \A v \in Rails :
          /\ On(v) \in ReqRecords /\ On(v).step = "begin" /\ On(v).q = req[r].q
          /\ On(v).at = req[r].at /\ On(v).offer = req[r].offer /\ On(v).input = req[r].input
    <3>1. req[r] \in [step : Checked \cup Begun \cup {"done"}, at : Isolates, offer : Offers,
            input : Inputs, q : Quotes, auth : Auths, pays : AllTerms, rail : Rails]
      BY <2>1 DEF AdmissionInv, AdmissionTyped, ReqRecords
    <3> QED BY <3>1 DEF ReqRecords, Checked
  <2> HIDE DEF To, On
  <2> QED BY <2>1, <2>2, <2>3, <2>4, MoveKeeps DEF AdmissionInv, AdmissionTyped, Checked, Begun
<1>7. CASE Begin(r)
  BY <1>7, BeginKeeps
<1>8. CASE Verify(r)
  <2>1. req[r].step = "verify" /\ UNCHANGED <<now, quote>>
    BY <1>8 DEF Verify
  <2>2. \/ req[r].pays = op[req[r].auth].terms /\ Conclude(r, "verified", "settle")
        \/ Conclude(r, "failed", "done")
    BY <1>8 DEF Verify
  <2> QED BY <2>1, <2>2, ConcludeKeeps DEF Begun
<1>9. CASE Settle(r)
  <2>1. req[r].step = "settle" /\ UNCHANGED <<now, quote>>
    BY <1>9 DEF Settle
  <2>2. req[r].pays = op[req[r].auth].terms
    BY <2>1 DEF AdmissionInv, BegunBound, Begun
  <2>3. \E status \in {"settled", "failed", "ambiguous"} : Conclude(r, status, "done")
    BY <1>9 DEF Settle
  <2> QED BY <2>1, <2>2, <2>3, ConcludeKeeps DEF Begun
<1> QED BY <1>3, <1>4, <1>5, <1>6, <1>7, <1>8, <1>9 DEF Step

LEMMA AdmissionNextKeeps == AdmissionInv /\ [AdmissionNext]_admission => AdmissionInv'
<1> SUFFICES ASSUME AdmissionInv, [AdmissionNext]_admission PROVE AdmissionInv'
  OBVIOUS
<1>1. ASSUME NEW q \in Quotes, NEW d \in Isolates, NEW o \in Offers, NEW i \in Inputs,
             Issue(q, d, o, i)
      PROVE  AdmissionInv'
  BY <1>1, IssueKeeps
<1>2. ASSUME NEW r \in Requests, NEW d \in Isolates, AskReady(r, d)
      PROVE  AdmissionInv'
  <2>1. PICK t \in {"ready", "done"} : req' = [req EXCEPT ![r] = [step |-> t, at |-> d]]
    BY <1>2 DEF AskReady
  <2>2. UNCHANGED <<now, quote, op>>
    BY <1>2 DEF AskReady
  <2>3. [step |-> t, at |-> d] \in ReqRecords
    BY DEF ReqRecords
  <2> QED BY <2>1, <2>2, <2>3, MoveKeeps DEF AdmissionInv, AdmissionTyped, Checked, Begun
<1>3. ASSUME NEW r \in Requests, NEW d \in Isolates, NEW o \in Offers, NEW i \in Inputs,
             NEW q \in Quotes, Present(r, d, o, i, q)
      PROVE  AdmissionInv'
  BY <1>3, PresentKeeps
<1>4. ASSUME NEW r \in Requests, Step(r) PROVE AdmissionInv'
  BY <1>4, StepKeeps
<1>5. CASE Reset \/ Tick \/ UNCHANGED admission
  <2>1. UNCHANGED <<quote, req, op>> /\ now' \in Nat
    BY <1>5 DEF Reset, Tick, admission, AdmissionInv, AdmissionTyped
  <2>2. AdmissionTyped'
    BY <2>1 DEF AdmissionInv, AdmissionTyped
  <2>3. QuotesPay' /\ ChoicesBound' /\ BegunBound' /\ OpsQuoted' /\ QuoteKept'
    BY <2>1 DEF AdmissionInv, QuotesPay, ChoicesBound, BegunBound, OpsQuoted, QuoteKept
  <2> QED BY <2>2, <2>3 DEF AdmissionInv
<1> QED BY <1>1, <1>2, <1>3, <1>4, <1>5 DEF AdmissionNext

\* Whatever was deployed between the quote and the payment, the buyer pays the
\* terms that were quoted, for the input that was quoted, at a price above the
\* cost floor of the quote and of the deployment that serves it
\* (issueQuote, handlePaidWebFetch).
THEOREM BuysTheQuote == AdmissionSpec => []QuoteKept
<1>1. AdmissionInv => QuoteKept
  BY DEF AdmissionInv
<1> QED BY <1>1, AdmissionInitKeeps, AdmissionNextKeeps, PTL DEF AdmissionSpec
-----------------------------------------------------------------------------
(* The pause of the Live services. *)

\* No pause ends later than one that begins now, so a later failure extends it.
PauseBound ==
    /\ now \in Nat
    /\ live \in [known : BOOLEAN, since : Nat, failures : Nat, until : Nat]
    /\ live.until <= now + PauseFor

LEMMA PauseNat == PauseFor \in Nat /\ WindowFor \in Nat
  BY CircuitAssumption

LEMMA FailureExtends ==
    ASSUME PauseBound, LiveFailure
    PROVE  /\ live' \in [known : BOOLEAN, since : Nat, failures : Nat, until : Nat]
           /\ live'.until <= now + PauseFor /\ live'.until >= live.until
<1> DEFINE c == CurrentWindow(live)
<1>1. /\ c \in [known : BOOLEAN, since : Nat, failures : Nat, until : Nat]
      /\ c.until = live.until
  BY DEF PauseBound, CurrentWindow
<1>2. live' = [c EXCEPT !.failures = c.failures + 1,
                        !.until = IF c.failures + 1 >= TripAfter THEN now + PauseFor ELSE c.until]
  BY DEF LiveFailure
<1> HIDE DEF c
<1>3. live' = [known |-> c.known, since |-> c.since, failures |-> c.failures + 1,
               until |-> IF c.failures + 1 >= TripAfter THEN now + PauseFor ELSE c.until]
  BY <1>1, <1>2
<1>4. /\ c.known \in BOOLEAN /\ c.since \in Nat /\ c.failures \in Nat /\ c.until \in Nat
      /\ now \in Nat /\ c.until <= now + PauseFor
  BY <1>1 DEF PauseBound
<1>5. now + PauseFor \in Nat /\ c.failures + 1 \in Nat
  BY <1>4, PauseNat
<1>6. live'.until = now + PauseFor \/ live'.until = c.until
  BY <1>3
<1> QED BY <1>1, <1>3, <1>4, <1>5, <1>6

\* What a step does to the circuit of the Live services, and to the clock.
LEMMA LiveMoves ==
    ASSUME [AdmissionNext]_admission
    PROVE  \/ LiveFailure /\ now' = now
           \/ live' = NoLive /\ now' = now
           \/ live' = live /\ (now' = now \/ now' = now + 1)
<1>1. ASSUME NEW q \in Quotes, NEW d \in Isolates, NEW o \in Offers, NEW i \in Inputs,
             Issue(q, d, o, i)
      PROVE  live' = live /\ now' = now
  BY <1>1 DEF Issue, circuits
<1>2. ASSUME NEW r \in Requests, NEW d \in Isolates, AskReady(r, d)
      PROVE  live' = live /\ now' = now
  BY <1>2 DEF AskReady
<1>3. ASSUME NEW r \in Requests, NEW d \in Isolates, NEW o \in Offers, NEW i \in Inputs,
             NEW q \in Quotes, Present(r, d, o, i, q)
      PROVE  live' = live /\ now' = now
  BY <1>3 DEF Present, circuits
<1>4. ASSUME NEW r \in Requests, Step(r)
      PROVE  (LiveFailure \/ live' = live) /\ now' = now
  <2>1. CASE Regate(r) \/ Reserve(r) \/ Begin(r)
    BY <2>1 DEF Regate, Reserve, Begin, circuits
  <2>2. CASE Refuse(r) \/ Verify(r)
    BY <2>2 DEF Refuse, Verify
  <2>3. CASE SelectFacilitator(r)
    BY <2>3 DEF SelectFacilitator, Reported
  <2>4. CASE Settle(r)
    BY <2>4 DEF Settle, Reported
  <2> QED BY <1>4, <2>1, <2>2, <2>3, <2>4 DEF Step
<1>5. CASE Reset
  BY <1>5 DEF Reset, ResetLive
<1>6. CASE Tick
  BY <1>6 DEF Tick, circuits
<1>7. CASE UNCHANGED admission
  BY <1>7 DEF admission
<1> QED BY <1>1, <1>2, <1>3, <1>4, <1>5, <1>6, <1>7 DEF AdmissionNext

LEMMA PauseKeeps == PauseBound /\ [AdmissionNext]_admission => PauseBound' /\ PauseLasts
<1> SUFFICES ASSUME PauseBound, [AdmissionNext]_admission PROVE PauseBound' /\ PauseLasts
  OBVIOUS
<1>1. now \in Nat /\ live.until \in Nat /\ live.until <= now + PauseFor /\ PauseFor \in Nat
  BY PauseNat DEF PauseBound
<1>2. CASE LiveFailure /\ now' = now
  BY <1>2, FailureExtends DEF PauseBound, PauseLasts
<1>3. CASE live' = NoLive /\ now' = now
  BY <1>1, <1>3 DEF PauseBound, PauseLasts, NoLive
<1>4. CASE live' = live /\ (now' = now \/ now' = now + 1)
  <2>1. now' \in Nat /\ live'.until <= now' + PauseFor /\ live'.until >= live.until
    BY <1>1, <1>4
  <2> QED BY <1>4, <2>1 DEF PauseBound, PauseLasts
<1> QED BY <1>2, <1>3, <1>4, LiveMoves

\* A request passes its gate only in the step that asks the circuit.
LEMMA GateKeeps == AdmissionInv /\ [AdmissionNext]_admission => GateAsks
<1> SUFFICES ASSUME AdmissionInv, [AdmissionNext]_admission, NEW k \in Requests,
                    req[k].step # "gated", req'[k].step = "gated"
             PROVE  ~Paused
  BY DEF GateAsks
<1>0. req \in [Requests -> ReqRecords]
  BY DEF AdmissionInv, AdmissionTyped
<1>1. ASSUME NEW q \in Quotes, NEW d \in Isolates, NEW o \in Offers, NEW i \in Inputs,
             Issue(q, d, o, i)
      PROVE  FALSE
  BY <1>1 DEF Issue
<1>2. ASSUME NEW r \in Requests, NEW d \in Isolates, AskReady(r, d)
      PROVE  FALSE
  <2>1. PICK t \in {"ready", "done"} : req' = [req EXCEPT ![r] = [step |-> t, at |-> d]]
    BY <1>2 DEF AskReady
  <2> QED BY <1>0, <2>1
<1>3. ASSUME NEW r \in Requests, NEW d \in Isolates, NEW o \in Offers, NEW i \in Inputs,
             NEW q \in Quotes, Present(r, d, o, i, q)
      PROVE  FALSE
  <2>1. PICK s : req' = [req EXCEPT ![r] = s] /\ s.step = "bound"
    BY <1>3 DEF Present
  <2> QED BY <1>0, <2>1
<1>4. ASSUME NEW r \in Requests, NEW t, t # "gated", Goto(r, t)
      PROVE  FALSE
  <2>1. req[r] \in ReqRecords /\ req' = [req EXCEPT ![r] = [req[r] EXCEPT !.step = t]]
    BY <1>0, <1>4 DEF Goto
  <2>2. [req[r] EXCEPT !.step = t].step = t
    BY <2>1 DEF ReqRecords
  <2> QED BY <1>0, <1>4, <2>1, <2>2
<1>5. ASSUME NEW r \in Requests, Step(r) PROVE ~Paused
  <2>1. CASE Regate(r)
    <3>1. CASE MayBuy
      BY <3>1 DEF MayBuy
    <3>2. CASE ~MayBuy
      <4>1. Goto(r, "done")
        BY <2>1, <3>2 DEF Regate
      <4> QED BY <4>1, <1>4
    <3> QED BY <3>1, <3>2
  <2>2. CASE Refuse(r)
    BY <2>2, <1>4 DEF Refuse
  <2>3. CASE Reserve(r)
    BY <2>3, <1>4 DEF Reserve
  <2>4. CASE SelectFacilitator(r)
    <3>1. CASE Goto(r, "done")
      BY <3>1, <1>4
    <3>2. CASE \E v : req' = [req EXCEPT ![r] = [@ EXCEPT !.rail = v, !.step = "begin"]]
      <4>1. PICK v : req' = [req EXCEPT ![r] = [@ EXCEPT !.rail = v, !.step = "begin"]]
        BY <3>2
      <4>2. req[r] \in ReqRecords /\ (req'[r].step = "begin" \/ req'[k] = req[k])
        BY <1>0, <4>1 DEF ReqRecords
      <4> QED BY <1>0, <4>1, <4>2
    <3> QED BY <2>4, <3>1, <3>2 DEF SelectFacilitator
  <2>5. CASE Begin(r)
    BY <2>5, <1>4 DEF Begin
  <2>6. CASE Verify(r)
    BY <2>6, <1>4 DEF Verify, Conclude
  <2>7. CASE Settle(r)
    BY <2>7, <1>4 DEF Settle, Conclude
  <2> QED BY <1>5, <2>1, <2>2, <2>3, <2>4, <2>5, <2>6, <2>7 DEF Step
<1>6. CASE Reset \/ Tick \/ UNCHANGED admission
  BY <1>6 DEF Reset, Tick, admission
<1> QED BY <1>1, <1>2, <1>3, <1>5, <1>6 DEF AdmissionNext

-----------------------------------------------------------------------------
(* The circuit of a rail: its counter of failed settlements never says     *)
(* less than the observations it keeps.                                    *)

IsSettlement(e) == e.phase = "settle" /\ (e.ok \/ e.counted)
\* The settlements among observations s from number k on.
From(s, k) == {j \in k..Len(s) : IsSettlement(s[j])}
InOrder(s) == \A i, j \in DOMAIN s : i <= j => s[i].at <= s[j].at

\* The counter of a rail covers the failures since its last settled payment,
\* and while it is at the limit the circuit outlasts each of them.
Tells(health) ==
    /\ \A k \in DOMAIN health.seen :
          (\A j \in From(health.seen, k) : ~health.seen[j].ok)
          => Cardinality(From(health.seen, k)) <= health.fails["settle"]
    /\ health.fails["settle"] >= TripAfter =>
          \A j \in DOMAIN health.seen :
             IsSettlement(health.seen[j]) /\ ~health.seen[j].ok => health.seen[j].at + OpenFor <= health.until

RailRows == [known : BOOLEAN, seen : Seq(Events), fails : [Phases -> Nat], until : Nat]

RowFits(health, t) ==
    /\ health \in RailRows
    /\ InOrder(health.seen)
    /\ \A j \in DOMAIN health.seen : health.seen[j].at <= t
    /\ Tells(health)

RailsFit ==
    /\ now \in Nat
    /\ DOMAIN rail = Rails
    /\ \A u \in Rails : RowFits(rail[u], now)

LEMMA CircuitNat ==
    /\ KeptSeen \in Nat \ {0} /\ SeenFor \in Nat /\ TripAfter \in Nat \ {0} /\ OpenFor \in Nat
  BY CircuitAssumption

LEMMA ObservationsTyped ==
    ASSUME NEW s \in Seq(Events)
    PROVE  /\ Len(s) \in Nat /\ DOMAIN s = 1..Len(s)
           /\ \A j \in 1..Len(s) : s[j] \in Events /\ s[j].at \in Nat
<1>1. Len(s) \in Nat /\ DOMAIN s = 1..Len(s) /\ \A j \in 1..Len(s) : s[j] \in Events
  OBVIOUS
<1>2. \A e \in Events : e.at \in Nat
  BY DEF Events
<1> QED BY <1>1, <1>2

\* The observations that are kept are the last ones.
LEMMA RecentIsSuffix ==
    ASSUME NEW s \in Seq(Events), InOrder(s), now \in Nat
    PROVE  \E f \in 1..Len(s) + 1 : Recent(s) = SubSeq(s, f, Len(s))
<1> DEFINE n == Len(s)
           stays(j) == s[j].at + SeenFor >= now /\ j + KeptSeen > n + 1
           B == {f \in 1..n + 1 : \A j \in 1..n : j >= f => stays(j)}
<1>1. n \in Nat /\ DOMAIN s = 1..n /\ \A j \in 1..n : s[j] \in Events /\ s[j].at \in Nat
  BY ObservationsTyped
<1>2. B # {} /\ B \subseteq Nat
  <2>1. n + 1 \in B
    BY <1>1
  <2> QED BY <1>1, <2>1
<1>3. PICK f \in B : \A m \in B : ~(m < f)
  BY <1>2, LeastNumber
<1>4. ASSUME NEW j \in 1..n, j < f PROVE ~stays(j)
  <2>1. f - 1 \in 1..n /\ f - 1 < f
    BY <1>1, <1>3, <1>4
  <2>2. f - 1 \notin B
    BY <1>1, <1>3, <2>1
  <2>3. PICK i \in 1..n : i >= f - 1 /\ ~stays(i)
    BY <1>1, <2>1, <2>2
  <2>4. i = f - 1
    BY <1>1, <1>3, <2>3
  <2>5. s[j].at <= s[f - 1].at
    BY <1>1, <1>4, <2>1 DEF InOrder
  <2>6. s[j].at \in Nat /\ s[f - 1].at \in Nat
    BY <1>1, <2>1
  <2> QED BY <1>1, <1>4, <2>1, <2>3, <2>4, <2>5, <2>6, CircuitNat
<1>5. f \in 1..n + 1 /\ \A j \in DOMAIN s : stays(j) <=> j >= f
  BY <1>1, <1>3, <1>4
<1>6. \E g \in 1..Len(s) + 1 :
         \A j \in DOMAIN s : (s[j].at + SeenFor >= now /\ j + KeptSeen > Len(s) + 1) <=> j >= g
  BY <1>5
<1> DEFINE first == CHOOSE g \in 1..Len(s) + 1 :
         \A j \in DOMAIN s : (s[j].at + SeenFor >= now /\ j + KeptSeen > Len(s) + 1) <=> j >= g
<1>7. first \in 1..Len(s) + 1
  BY <1>6
<1>8. Recent(s) = SubSeq(s, first, Len(s))
  BY DEF Recent
<1> QED BY <1>7, <1>8

\* What a suffix and one observation more hold.
LEMMA Extended ==
    ASSUME NEW s \in Seq(Events), NEW f \in 1..Len(s) + 1, NEW e \in Events
    PROVE  LET t == Append(SubSeq(s, f, Len(s)), e)
               m == Len(s) - f + 1 IN
           /\ m \in Nat /\ t \in Seq(Events) /\ Len(t) = m + 1 /\ DOMAIN t = 1..m + 1
           /\ \A j \in 1..m : t[j] = s[j + f - 1] /\ j + f - 1 \in DOMAIN s
           /\ t[m + 1] = e
<1> DEFINE m == Len(s) - f + 1
           c == SubSeq(s, f, Len(s))
<1>1. m \in Nat /\ Len(s) \in Nat
  OBVIOUS
<1>2. c \in Seq(Events) /\ Len(c) = m
  BY <1>1
<1>3. \A j \in 1..m : c[j] = s[j + f - 1] /\ j + f - 1 \in DOMAIN s
  BY <1>1
<1> HIDE DEF c
<1>4. /\ Append(c, e) \in Seq(Events) /\ Len(Append(c, e)) = m + 1
      /\ DOMAIN Append(c, e) = 1..m + 1 /\ Append(c, e)[m + 1] = e
      /\ \A j \in 1..m : Append(c, e)[j] = c[j]
  BY <1>1, <1>2
<1> QED BY <1>1, <1>3, <1>4 DEF c

\* Its settlements are those of the suffix, and perhaps the new observation.
LEMMA ExtendedCount ==
    ASSUME NEW s \in Seq(Events), NEW f \in 1..Len(s) + 1, NEW e \in Events,
           NEW k \in 1..Len(s) - f + 1
    PROVE  LET t == Append(SubSeq(s, f, Len(s)), e) IN
           /\ IsFiniteSet(From(t, k)) /\ IsFiniteSet(From(s, k + f - 1))
           /\ Cardinality(From(t, k)) <= Cardinality(From(s, k + f - 1))
                                         + (IF IsSettlement(e) THEN 1 ELSE 0)
           /\ \A j \in From(s, k + f - 1) : j - f + 1 \in From(t, k) /\ t[j - f + 1] = s[j]
<1> DEFINE m == Len(s) - f + 1
           t == Append(SubSeq(s, f, Len(s)), e)
           old == {j \in k..m : IsSettlement(t[j])}
           shift == [j \in old |-> j + f - 1]
<1>1. /\ m \in Nat /\ Len(t) = m + 1 /\ t[m + 1] = e
      /\ \A j \in 1..m : t[j] = s[j + f - 1]
  BY Extended
<1>2. f \in Nat /\ f >= 1 /\ k \in Nat /\ k >= 1 /\ Len(s) \in Nat /\ m = Len(s) - f + 1
  OBVIOUS
<1> HIDE DEF t, m
<1>3. IsFiniteSet(From(t, k)) /\ IsFiniteSet(From(s, k + f - 1)) /\ IsFiniteSet(old)
  <2>1. IsFiniteSet(k..m + 1) /\ IsFiniteSet(k + f - 1..Len(s)) /\ IsFiniteSet(k..m)
    <3>1. k \in Int /\ m + 1 \in Int /\ k + f - 1 \in Int /\ Len(s) \in Int /\ m \in Int
      BY <1>1, <1>2
    <3> QED BY <3>1, FS_Interval
  <2> QED BY <1>1, <2>1, FS_Subset DEF From
<1>4. ASSUME NEW j \in old PROVE j + f - 1 \in From(s, k + f - 1)
  <2>1. j \in 1..m /\ j \in k..m /\ IsSettlement(t[j])
    BY <1>1, <1>2
  <2>2. j + f - 1 \in k + f - 1..Len(s)
    BY <1>2, <2>1
  <2> QED BY <1>1, <2>1, <2>2 DEF From
<1>5. shift \in Injection(old, From(s, k + f - 1))
  <2>1. shift \in [old -> From(s, k + f - 1)]
    BY <1>4
  <2>2. \A i, j \in old : shift[i] = shift[j] => i = j
    BY <1>1, <1>2
  <2> QED BY <2>1, <2>2 DEF Injection, IsInjective
<1>6. Cardinality(old) <= Cardinality(From(s, k + f - 1))
  BY <1>3, <1>5, FS_Injection
<1>7. From(t, k) = old \cup (IF IsSettlement(e) THEN {m + 1} ELSE {})
  BY <1>1, <1>2 DEF From
<1>8. Cardinality(From(t, k)) <= Cardinality(old) + (IF IsSettlement(e) THEN 1 ELSE 0)
  <2>1. CASE IsSettlement(e)
    <3>1. From(t, k) = old \cup {m + 1} /\ Cardinality(old) \in Nat
      BY <1>3, <1>7, <2>1, FS_CardinalityType
    <3>2. Cardinality(old \cup {m + 1}) =
             IF m + 1 \in old THEN Cardinality(old) ELSE Cardinality(old) + 1
      BY <1>3, FS_AddElement
    <3> QED BY <2>1, <3>1, <3>2
  <2>2. CASE ~IsSettlement(e)
    <3>1. From(t, k) = old /\ Cardinality(old) \in Nat
      BY <1>3, <1>7, <2>2, FS_CardinalityType
    <3> QED BY <2>2, <3>1
  <2> QED BY <2>1, <2>2
<1>9. ASSUME NEW j \in From(s, k + f - 1)
      PROVE  j - f + 1 \in From(t, k) /\ t[j - f + 1] = s[j]
  <2>1. j \in k + f - 1..Len(s) /\ IsSettlement(s[j])
    BY DEF From
  <2>2. j - f + 1 \in 1..m /\ j - f + 1 \in k..m + 1 /\ (j - f + 1) + f - 1 = j
    BY <1>2, <2>1
  <2>3. t[j - f + 1] = s[j]
    BY <1>1, <2>2
  <2> QED BY <1>1, <2>1, <2>2, <2>3 DEF From
<1>10. /\ Cardinality(old) \in Nat /\ Cardinality(From(t, k)) \in Nat
       /\ Cardinality(From(s, k + f - 1)) \in Nat
  BY <1>3, FS_CardinalityType
<1>11. Cardinality(From(t, k)) <= Cardinality(From(s, k + f - 1))
                                  + (IF IsSettlement(e) THEN 1 ELSE 0)
  BY <1>6, <1>8, <1>10
<1> QED BY <1>3, <1>9, <1>11 DEF t

\* One observation more keeps a row telling.
LEMMA ObservedFits ==
    ASSUME now \in Nat, NEW health, RowFits(health, now), NEW phase \in Phases, NEW ok \in BOOLEAN,
           NEW counted \in BOOLEAN
    PROVE  RowFits(Observed(health, phase, ok, counted), now)
<1> DEFINE s == health.seen
           e == [phase |-> phase, ok |-> ok, counted |-> counted, at |-> now]
           new == Observed(health, phase, ok, counted)
<1>1. /\ s \in Seq(Events) /\ e \in Events /\ health.fails \in [Phases -> Nat] /\ health.until \in Nat
      /\ InOrder(s) /\ (\A j \in DOMAIN s : s[j].at <= now) /\ Tells(health)
      /\ health.fails["settle"] \in Nat /\ health.fails["verify"] \in Nat
  BY DEF RowFits, RailRows, Events, Phases
<1>2. PICK f \in 1..Len(s) + 1 : Recent(s) = SubSeq(s, f, Len(s))
  BY <1>1, RecentIsSuffix
<1> DEFINE t == Append(SubSeq(s, f, Len(s)), e)
           m == Len(s) - f + 1
<1>3. /\ m \in Nat /\ t \in Seq(Events) /\ Len(t) = m + 1 /\ DOMAIN t = 1..m + 1
      /\ \A j \in 1..m : t[j] = s[j + f - 1] /\ j + f - 1 \in DOMAIN s
      /\ t[m + 1] = e
  BY <1>1, Extended
<1>4. /\ new.seen = t /\ new.known = TRUE
      /\ new.fails = [health.fails EXCEPT ![phase] =
            IF ok THEN 0 ELSE IF counted THEN health.fails[phase] + 1 ELSE health.fails[phase]]
      /\ new.until = IF ok THEN AfterSuccess(new.fails, health.until)
                     ELSE IF counted /\ new.fails[phase] >= TripAfter THEN now + OpenFor
                     ELSE health.until
  BY <1>2 DEF Observed
<1>5. new = [known |-> new.known, seen |-> new.seen, fails |-> new.fails, until |-> new.until]
  BY DEF Observed
<1>6. s \in Seq(Events) /\ f \in Nat /\ f >= 1 /\ Len(s) \in Nat /\ m = Len(s) - f + 1
  BY <1>1
<1>7. e.phase = phase /\ e.ok = ok /\ e.counted = counted /\ e.at = now
  OBVIOUS
<1>8. /\ new.fails \in [Phases -> Nat] /\ new.fails["settle"] \in Nat
      /\ phase = "settle" /\ ok => new.fails["settle"] = 0
      /\ IsSettlement(e) /\ ~ok => new.fails["settle"] = health.fails["settle"] + 1
      /\ ~IsSettlement(e) => new.fails["settle"] = health.fails["settle"]
  BY <1>1, <1>4, <1>7 DEF Phases, IsSettlement
<1>9. /\ new.until \in Nat
      /\ \/ new.until = health.until \/ new.until = now + OpenFor
         \/ new.fails["settle"] < TripAfter
      /\ IsSettlement(e) /\ ~ok /\ new.fails["settle"] >= TripAfter => new.until = now + OpenFor
  <2>1. new.until \in {0, health.until, now + OpenFor} /\ now + OpenFor \in Nat
    BY <1>4, CircuitNat DEF AfterSuccess
  <2>2. ASSUME ok PROVE new.until = health.until \/ new.fails["settle"] < TripAfter
    BY <1>4, <2>2 DEF AfterSuccess, Phases
  <2>3. ASSUME ~ok PROVE new.until = health.until \/ new.until = now + OpenFor
    BY <1>4, <2>3
  <2>4. IsSettlement(e) /\ ~ok => phase = "settle" /\ counted
    BY <1>7 DEF IsSettlement
  <2> QED BY <1>1, <1>4, <2>1, <2>2, <2>3, <2>4
<1>14. /\ m \in Nat /\ DOMAIN t = 1..m + 1
       /\ \A j \in 1..m + 1 : t[j] \in Events /\ t[j].at \in Nat
  BY <1>3, ObservationsTyped
<1> HIDE DEF t, m, e, new
<1>10. new \in RailRows
  BY <1>3, <1>4, <1>5, <1>8, <1>9 DEF RailRows
<1>11. (\A j \in DOMAIN t : t[j].at <= now) /\ InOrder(t)
  <2>1. \A j \in DOMAIN t : (j \in 1..m /\ t[j] = s[j + f - 1]) \/ (j = m + 1 /\ t[j].at = now)
    BY <1>3, <1>7
  <2>2. \A j \in DOMAIN t : t[j].at <= now /\ t[j].at \in Nat
    <3> SUFFICES ASSUME NEW j \in DOMAIN t PROVE t[j].at <= now /\ t[j].at \in Nat
      OBVIOUS
    <3>1. t[j].at \in Nat
      BY <1>14
    <3>2. CASE j \in 1..m
      <4>1. t[j] = s[j + f - 1] /\ j + f - 1 \in DOMAIN s
        BY <1>3, <3>2
      <4> QED BY <1>1, <3>1, <4>1
    <3>3. CASE j = m + 1
      BY <1>3, <1>7, <3>1, <3>3
    <3> QED BY <2>1, <3>2, <3>3
  <2>3. ASSUME NEW i \in DOMAIN t, NEW j \in DOMAIN t, i <= j PROVE t[i].at <= t[j].at
    <3>1. CASE j = m + 1
      BY <1>3, <1>7, <2>2, <3>1
    <3>2. CASE j # m + 1
      <4>1. i \in 1..m /\ j \in 1..m /\ i + f - 1 <= j + f - 1
        BY <1>6, <1>14, <2>3, <3>2
      <4> QED BY <1>1, <1>3, <4>1 DEF InOrder
    <3> QED BY <3>1, <3>2
  <2> QED BY <2>2, <2>3 DEF InOrder
<1>12. ASSUME NEW k \in DOMAIN t, \A j \in From(t, k) : ~t[j].ok
       PROVE  Cardinality(From(t, k)) <= new.fails["settle"]
  <2>1. IsSettlement(e) => ~ok
    <3>1. SUFFICES ASSUME IsSettlement(e) PROVE ~ok
      OBVIOUS
    <3>2. m + 1 \in From(t, k)
      BY <1>3, <3>1 DEF From
    <3> QED BY <1>3, <1>7, <1>12, <3>2
  <2>2. CASE k = m + 1
    <3>1. From(t, k) = IF IsSettlement(e) THEN {m + 1} ELSE {}
      BY <1>3, <2>2 DEF From
    <3>2. Cardinality({m + 1}) = 1 /\ Cardinality({}) = 0
      BY FS_EmptySet, FS_Singleton
    <3>3. CASE IsSettlement(e)
      BY <1>1, <1>8, <2>1, <3>1, <3>2, <3>3
    <3>4. CASE ~IsSettlement(e)
      BY <1>8, <3>1, <3>2, <3>4
    <3> QED BY <3>3, <3>4
  <2>3. CASE k # m + 1
    <3>0. k \in 1..m
      BY <1>14, <2>3
    <3>1. k \in 1..Len(s) - f + 1 /\ k + f - 1 \in DOMAIN s
      BY <1>3, <1>6, <3>0
    <3>2. /\ IsFiniteSet(From(t, k)) /\ IsFiniteSet(From(s, k + f - 1))
          /\ Cardinality(From(t, k)) <= Cardinality(From(s, k + f - 1))
                                        + (IF IsSettlement(e) THEN 1 ELSE 0)
          /\ \A j \in From(s, k + f - 1) : j - f + 1 \in From(t, k) /\ t[j - f + 1] = s[j]
      BY <1>1, <3>1, ExtendedCount DEF t
    <3>3. \A j \in From(s, k + f - 1) : ~s[j].ok
      BY <1>12, <3>2
    <3>4. Cardinality(From(s, k + f - 1)) <= health.fails["settle"]
      BY <1>1, <3>1, <3>3 DEF Tells
    <3>5. Cardinality(From(t, k)) \in Nat /\ Cardinality(From(s, k + f - 1)) \in Nat
      BY <3>2, FS_CardinalityType
    <3>6. CASE IsSettlement(e)
      BY <1>1, <1>8, <2>1, <3>2, <3>4, <3>5, <3>6
    <3>7. CASE ~IsSettlement(e)
      BY <1>1, <1>8, <3>2, <3>4, <3>5, <3>7
    <3> QED BY <3>6, <3>7
  <2> QED BY <2>2, <2>3
<1>13. ASSUME new.fails["settle"] >= TripAfter, NEW j \in DOMAIN t, IsSettlement(t[j]), ~t[j].ok
       PROVE  t[j].at + OpenFor <= new.until
  <2>1. t[j].at <= now /\ t[j].at \in Nat
    BY <1>11, <1>14
  <2>2. CASE new.until = now + OpenFor
    BY <2>1, <2>2, CircuitNat
  <2>3. CASE new.until # now + OpenFor
    <3>1. new.until = health.until /\ ~(IsSettlement(e) /\ ~ok)
      BY <1>8, <1>9, <1>13, <2>3, CircuitNat
    <3>2. ~IsSettlement(e)
      <4>1. ~(phase = "settle" /\ ok)
        BY <1>8, <1>13, CircuitNat
      <4> QED BY <1>7, <3>1, <4>1 DEF IsSettlement
    <3>3. health.fails["settle"] >= TripAfter
      BY <1>8, <1>13, <3>2
    <3>0. j # m + 1
      BY <1>3, <1>13, <3>2
    <3>5. j \in 1..m
      BY <1>14, <3>0
    <3>4. j \in 1..m /\ t[j] = s[j + f - 1] /\ j + f - 1 \in DOMAIN s
      BY <1>3, <3>5
    <3> QED BY <1>1, <1>13, <3>1, <3>3, <3>4 DEF Tells
  <2> QED BY <2>2, <2>3
<1> QED BY <1>4, <1>10, <1>11, <1>12, <1>13 DEF RowFits, Tells, new

LEMMA ObserveFits ==
    ASSUME RailsFit, NEW u \in Rails, NEW phase \in Phases, NEW ok \in BOOLEAN,
           NEW counted \in BOOLEAN, Observe(u, phase, ok, counted) \/ UNCHANGED rail, now' = now
    PROVE  RailsFit'
<1>1. CASE UNCHANGED rail
  BY <1>1 DEF RailsFit
<1>2. CASE rail' = [rail EXCEPT ![u] = Observed(rail[u], phase, ok, counted)]
  <2>1. RowFits(Observed(rail[u], phase, ok, counted), now)
    BY ObservedFits DEF RailsFit
  <2>2. /\ DOMAIN rail' = Rails /\ rail'[u] = Observed(rail[u], phase, ok, counted)
        /\ \A v \in Rails : v # u => rail'[v] = rail[v]
    BY <1>2 DEF RailsFit
  <2>3. \A v \in Rails : RowFits(rail'[v], now)
    BY <2>1, <2>2 DEF RailsFit
  <2> QED BY <2>2, <2>3 DEF RailsFit
<1> QED BY <1>1, <1>2 DEF Observe

\* Later, what a row tells is still true of what it keeps.
LEMMA RowStays ==
    ASSUME NEW health, NEW t \in Nat, RowFits(health, t)
    PROVE  RowFits(health, t + 1)
<1>1. \A j \in DOMAIN health.seen : health.seen[j].at \in Nat /\ health.seen[j].at <= t
  BY ObservationsTyped DEF RowFits, RailRows
<1> QED BY <1>1 DEF RowFits

LEMMA RailsInitFit == AdmissionInit => RailsFit
<1> SUFFICES ASSUME AdmissionInit PROVE RailsFit
  OBVIOUS
<1>1. now = 0 /\ rail = [u \in Rails |-> NoRail]
  BY DEF AdmissionInit
<1>2. /\ NoRail \in RailRows /\ DOMAIN NoRail.seen = {} /\ NoRail.fails["settle"] = 0
  BY DEF NoRail, RailRows, Phases
<1>3. RowFits(NoRail, 0)
  BY <1>2, CircuitNat DEF RowFits, InOrder, Tells
<1> QED BY <1>1, <1>3 DEF RailsFit

LEMMA RailsStayFit == AdmissionInv /\ RailsFit /\ [AdmissionNext]_admission => RailsFit'
<1> SUFFICES ASSUME AdmissionInv, RailsFit, [AdmissionNext]_admission PROVE RailsFit'
  OBVIOUS
<1>1. ASSUME NEW q \in Quotes, NEW d \in Isolates, NEW o \in Offers, NEW i \in Inputs,
             Issue(q, d, o, i)
      PROVE  rail' = rail /\ now' = now
  BY <1>1 DEF Issue, circuits
<1>2. ASSUME NEW r \in Requests, NEW d \in Isolates, AskReady(r, d)
      PROVE  rail' = rail /\ now' = now
  BY <1>2 DEF AskReady
<1>3. ASSUME NEW r \in Requests, NEW d \in Isolates, NEW o \in Offers, NEW i \in Inputs,
             NEW q \in Quotes, Present(r, d, o, i, q)
      PROVE  rail' = rail /\ now' = now
  BY <1>3 DEF Present, circuits
<1>4. ASSUME NEW r \in Requests, Step(r)
      PROVE  (rail' = rail /\ now' = now) \/ RailsFit'
  <2>1. CASE Regate(r) \/ Reserve(r) \/ Begin(r)
    BY <2>1 DEF Regate, Reserve, Begin, circuits
  <2>2. CASE Refuse(r) \/ SelectFacilitator(r)
    BY <2>2 DEF Refuse, SelectFacilitator
  <2>3. CASE Verify(r) \/ Settle(r)
    <3>1. req[r].rail \in Rails
      <4>1. req[r] \in ReqRecords /\ req[r].step \in {"verify", "settle"}
        BY <2>3 DEF AdmissionInv, AdmissionTyped, Verify, Settle
      <4> QED BY <4>1 DEF ReqRecords
    <3>2. /\ now' = now
          /\ \E phase \in Phases, ok, counted \in BOOLEAN :
                Observe(req[r].rail, phase, ok, counted) \/ UNCHANGED rail
      <4>1. CASE Verify(r)
        BY <4>1 DEF Verify, Seen, Phases
      <4>2. CASE Settle(r)
        BY <4>2 DEF Settle, Seen, Phases
      <4> QED BY <2>3, <4>1, <4>2
    <3> QED BY <3>1, <3>2, ObserveFits
  <2> QED BY <1>4, <2>1, <2>2, <2>3 DEF Step
<1>5. Reset \/ UNCHANGED admission => rail' = rail /\ now' = now
  BY DEF Reset, admission
<1>6. CASE Tick
  <2>1. rail' = rail /\ now' = now + 1 /\ now \in Nat
    BY <1>6 DEF Tick, circuits, RailsFit
  <2> QED BY <2>1, RowStays DEF RailsFit
<1>7. rail' = rail /\ now' = now => RailsFit'
  BY DEF RailsFit
<1> QED BY <1>1, <1>2, <1>3, <1>4, <1>5, <1>6, <1>7 DEF AdmissionNext

\* A failing rail has a counter at the limit, hence an open circuit.
LEMMA FailingIsOpen ==
    ASSUME RailsFit, NEW u \in Rails, Failing(u)
    PROVE  RailOpen(u)
<1> DEFINE s == rail[u].seen
<1>1. PICK k \in DOMAIN s :
          /\ Cardinality(Settlements(u, k)) >= TripAfter
          /\ \A j \in Settlements(u, k) : ~s[j].ok
          /\ \E j \in Settlements(u, k) : s[j].at + OpenFor > now
  BY DEF Failing
<1>2. Settlements(u, k) = From(s, k)
  BY DEF Settlements, From, IsSettlement
<1>3. /\ rail[u] \in RailRows /\ Tells(rail[u]) /\ s \in Seq(Events) /\ now \in Nat
      /\ rail[u].until \in Nat /\ rail[u].fails["settle"] \in Nat
  BY DEF RailsFit, RowFits, RailRows, Phases
<1>4. IsFiniteSet(From(s, k)) /\ k \in Nat /\ k >= 1 /\ DOMAIN s = 1..Len(s)
  <2>1. DOMAIN s = 1..Len(s) /\ Len(s) \in Nat
    BY <1>3, ObservationsTyped
  <2>2. IsFiniteSet(k..Len(s))
    BY <2>1, FS_Interval
  <2>3. From(s, k) \in SUBSET (k..Len(s))
    BY DEF From
  <2> QED BY <2>1, <2>2, <2>3, FS_Subset
<1>5. rail[u].fails["settle"] >= TripAfter
  <2>1. Cardinality(From(s, k)) \in Nat /\ Cardinality(From(s, k)) <= rail[u].fails["settle"]
    BY <1>1, <1>2, <1>3, <1>4, FS_CardinalityType DEF Tells
  <2> QED BY <1>1, <1>2, <1>3, <2>1, CircuitNat
<1>6. PICK j \in From(s, k) : s[j].at + OpenFor > now
  BY <1>1, <1>2
<1>7. j \in 1..Len(s) /\ IsSettlement(s[j]) /\ ~s[j].ok
  BY <1>1, <1>2, <1>4, <1>6 DEF From
<1>8. s[j].at \in Nat
  BY <1>3, <1>7, ObservationsTyped
<1>9. s[j].at + OpenFor <= rail[u].until
  <2>1. \A i \in DOMAIN s : IsSettlement(s[i]) /\ ~s[i].ok => s[i].at + OpenFor <= rail[u].until
    BY <1>3, <1>5 DEF Tells
  <2>2. j \in DOMAIN s
    BY <1>4, <1>7
  <2> HIDE DEF s
  <2> QED BY <1>7, <2>1, <2>2
<1> QED BY <1>3, <1>6, <1>8, <1>9, CircuitNat DEF RailOpen

FailingShut == \A u \in Rails : Failing(u) => RailOpen(u)

\* Whatever a rail verified since, once its last settlements failed its circuit
\* is open, however many rails, requests and observations there are; a pause of
\* the Live services lasts until it is over or the owner ends it, and no request
\* passes its gate while it does (recordPaymentHealth, /live/health,
\* livePaidFetch).
THEOREM CircuitsHold == AdmissionSpec => CircuitsKept
<1>1. AdmissionInit => PauseBound
  BY PauseNat DEF AdmissionInit, PauseBound, NoLive
<1>2. RailsFit => FailingShut
  BY FailingIsOpen DEF FailingShut
<1>3. AdmissionInv /\ PauseBound /\ FailingShut' /\ [AdmissionNext]_admission
      => [(\A u \in Rails : Failing(u)' => RailOpen(u)') /\ PauseLasts /\ GateAsks]_admission
  <2>1. FailingShut' => \A u \in Rails : Failing(u)' => RailOpen(u)'
    BY DEF FailingShut
  <2> QED BY <2>1, PauseKeeps, GateKeeps
<1> QED BY <1>1, <1>2, <1>3, AdmissionInitKeeps, AdmissionNextKeeps, PauseKeeps, RailsInitFit,
           RailsStayFit, PTL DEF AdmissionSpec, CircuitsKept
=============================================================================
