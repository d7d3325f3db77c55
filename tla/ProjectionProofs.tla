------------------------- MODULE ProjectionProofs -------------------------
(* What the fact tables hold, for any rigs, turns, batches and numbers of  *)
(* rows, failures and replays.                                             *)
EXTENDS Projection, FiniteSetTheorems, WellFoundedInduction, TLAPS

--------------------------------------------------------------------------
(* The least and the greatest of a set of ids.                             *)
LEMMA Least ==
    ASSUME NEW S, S \subseteq Nat, S # {}
    PROVE  Min(S) \in S /\ \A y \in S : Min(S) <= y
<1> DEFINE R == OpToRel(<, Nat)
<1>1. \A x, y \in Nat : <<y, x>> \in R <=> y < x
  BY DEF OpToRel
<1>2. IsWellFoundedOn(R, Nat)
  BY NatLessThanWellFounded
<1> HIDE DEF R
<1>3. PICK x \in S : \A y \in S : ~ (<<y, x>> \in R)
  BY <1>2, WFMin
<1>4. ASSUME NEW y \in S PROVE x <= y
  <2>1. x \in Nat /\ y \in Nat
    OBVIOUS
  <2>2. ~ (y < x)
    BY <1>1, <1>3, <2>1
  <2> QED BY <2>1, <2>2
<1> QED BY <1>4 DEF Min

LEMMA Greatest ==
    ASSUME NEW n \in Nat, NEW S, S \subseteq 1 .. n, S # {}
    PROVE  Max(S) \in S /\ \A y \in S : y <= Max(S)
<1> DEFINE T == {x \in 0 .. n : n - x \in S}
<1>1. T \subseteq Nat /\ T # {}
  <2>1. PICK y \in S : y \in 1 .. n
    OBVIOUS
  <2>2. n - y \in 0 .. n /\ n - (n - y) = y
    BY <2>1
  <2>3. n - y \in T
    BY <2>2
  <2>4. T \subseteq Nat
    OBVIOUS
  <2> HIDE DEF T
  <2> QED BY <2>3, <2>4
<1>2. Min(T) \in T /\ \A x \in T : Min(T) <= x
  BY <1>1, Least
<1>3. \A y \in S : n - y \in T
  OBVIOUS
<1>4. n - Min(T) \in S /\ \A y \in S : y <= n - Min(T)
  BY <1>2, <1>3
<1> QED BY <1>4 DEF Max

LEMMA LeastIs ==
    ASSUME NEW S, S \subseteq Nat, NEW m \in S, \A y \in S : m <= y
    PROVE  Min(S) = m
<1>1. Min(S) \in S /\ Min(S) <= m
  BY Least
<1>2. m <= Min(S) /\ m \in Nat /\ Min(S) \in Nat
  BY <1>1
<1> QED BY <1>1, <1>2

LEMMA LeastOfOne == \A i \in Nat : Min({i}) = i
BY LeastIs

--------------------------------------------------------------------------
(* What a set of rows leaves in the tables.                                *)
Recorded(f, S) ==
    /\ {i \in S : KindOf(i) \in Filed} \subseteq f.filed
    /\ {i \in S : KindOf(i) = "stint"} \subseteq DOMAIN f.block
    /\ \A i \in S : \E s \in DOMAIN f.session : Key(s) = Key(i)

Shaped(t) == t = [phase |-> t.phase, batch |-> t.batch, todo |-> t.todo, new |-> t.new,
                  loaded |-> t.loaded, doomed |-> t.doomed]

(* A transaction: it holds rows only while it reads them, has loaded only  *)
(* sessions that are still there, and has written what its rows leave.     *)
GoodTx(w) ==
    /\ Shaped(tx[w])
    /\ tx[w].phase \in {"idle", "batch", "wipe"}
    /\ tx[w].todo \subseteq tx[w].batch /\ tx[w].batch \subseteq Held \ projected
    /\ tx[w].phase = "batch" => tx[w].batch # {}
    /\ tx[w].phase # "batch" => tx[w].batch = {} /\ tx[w].loaded = None /\ tx[w].new = NoFacts
    /\ FactsType(tx[w].new, Held) /\ FactsType(tx[w].doomed, Held)
    /\ DOMAIN tx[w].loaded \subseteq DOMAIN tx[w].new.session \cup DOMAIN facts.session
    /\ Recorded(Written(w), tx[w].batch \ tx[w].todo)

Apart == \A u, w \in Worker : u # w => tx[u].batch \cap tx[w].batch = {}

IInv ==
    /\ ledger \in Seq(RowType)
    /\ projected \subseteq Held
    /\ FactsType(facts, Held)
    /\ spent \in [fails : 0..MaxFails, replays : 0..MaxReplays]
    /\ tx = [w \in Worker |-> tx[w]]
    /\ \A w \in Worker : GoodTx(w)
    /\ Apart
    /\ Recorded(facts, projected)

LEMMA TypesFollow == IInv => TypeOK /\ ProjectedHasFacts
<1> SUFFICES ASSUME IInv PROVE TypeOK /\ ProjectedHasFacts
  OBVIOUS
<1>1. TypeOK
  BY DEF IInv, GoodTx, Apart, TypeOK
<1>2. ProjectedHasFacts
  BY DEF IInv, Recorded, ProjectedHasFacts
<1> QED BY <1>1, <1>2

LEMMA Overs ==
    ASSUME NEW f, NEW g
    PROVE  /\ DOMAIN Over(f, g) = DOMAIN f \cup DOMAIN g
           /\ \A x \in DOMAIN f : Over(f, g)[x] = f[x]
           /\ \A x \in DOMAIN g \ DOMAIN f : Over(f, g)[x] = g[x]
BY DEF Over

LEMMA OverDomain == \A f, g : DOMAIN Over(f, g) = DOMAIN f \cup DOMAIN g
BY DEF Over

LEMMA OverOver ==
    ASSUME NEW f, NEW g, NEW h
    PROVE  Over(Over(f, g), h) = Over(f, Over(g, h))
BY DEF Over

LEMMA WrittenIs ==
    ASSUME NEW w
    PROVE  /\ Written(w).filed = tx[w].new.filed \cup facts.filed
           /\ DOMAIN Written(w).outage = DOMAIN tx[w].new.outage \cup DOMAIN facts.outage
           /\ DOMAIN Written(w).session = DOMAIN tx[w].new.session \cup DOMAIN facts.session
           /\ DOMAIN Written(w).block = DOMAIN tx[w].new.block \cup DOMAIN facts.block
BY Overs DEF Written

(* Ids and the rows of the ledger.                                         *)
LEMMA Ids ==
    ASSUME ledger \in Seq(RowType)
    PROVE  /\ Len(ledger) \in Nat /\ Id = 1 .. Len(ledger) /\ Held \subseteq Id
           /\ \A i \in Id : ledger[i] \in RowType /\ KindOf(i) \in Kind
<1>1. Len(ledger) \in Nat /\ DOMAIN ledger = 1 .. Len(ledger)
  OBVIOUS
<1>2. \A i \in DOMAIN ledger : ledger[i] \in RowType
  BY <1>1
<1> QED BY <1>1, <1>2 DEF Id, Held, KindOf, RowType

--------------------------------------------------------------------------
(* The ledger grows: rows stay what they are, and held rows stay held.     *)
Grows ==
    /\ ledger' \in Seq(RowType)
    /\ Held \subseteq Held'
    /\ \A i \in Id : /\ i \in Id' /\ ledger'[i].rig = ledger[i].rig
                     /\ ledger'[i].kind = ledger[i].kind /\ ledger'[i].turn = ledger[i].turn

LEMMA FactsGrow ==
    ASSUME NEW f, NEW S, NEW T, S \subseteq T, FactsType(f, S)
    PROVE  FactsType(f, T)
BY DEF FactsType

LEMMA LedgerStep ==
    ASSUME IInv, Grows, UNCHANGED <<projected, facts, tx, spent>>
    PROVE  IInv'
<1>1. Held \subseteq Id /\ Held \subseteq Held'
  BY DEF Held, Grows
<1>2. \A i \in Id : KindOf(i)' = KindOf(i) /\ Key(i)' = Key(i)
  BY DEF Grows, KindOf, Key
<1>3. FactsType(facts, Held)'
  BY <1>1, FactsGrow DEF IInv, FactsType
<1>4. Recorded(facts, projected)'
  <2>1. DOMAIN facts.session \subseteq Id /\ projected \subseteq Id
    BY <1>1 DEF IInv, FactsType
  <2> QED BY <1>2, <2>1 DEF IInv, Recorded
<1>5. ASSUME NEW w \in Worker PROVE GoodTx(w)'
  <2>1. GoodTx(w)
    BY DEF IInv
  <2>2. FactsType(tx[w].new, Held)' /\ FactsType(tx[w].doomed, Held)'
    BY <1>1, <2>1, FactsGrow DEF GoodTx, FactsType
  <2>3. Recorded(Written(w), tx[w].batch \ tx[w].todo)'
    <3>0. DOMAIN Written(w).session = DOMAIN tx[w].new.session \cup DOMAIN facts.session
      BY WrittenIs
    <3>1. DOMAIN Written(w).session \subseteq Id /\ tx[w].batch \subseteq Id
      BY <1>1, <2>1, <3>0 DEF IInv, FactsType, GoodTx
    <3>2. Written(w)' = Written(w)
      BY DEF Written
    <3> QED BY <1>2, <2>1, <3>1, <3>2 DEF GoodTx, Recorded
  <2> QED BY <1>1, <2>1, <2>2, <2>3 DEF GoodTx, Shaped
<1> QED BY <1>1, <1>3, <1>4, <1>5 DEF IInv, Grows, Apart

(* The three ends of a request.                                            *)
LEMMA IngestGrows ==
    ASSUME ledger \in Seq(RowType), NEW r \in Rig, Ingest(r)
    PROVE  Grows /\ UNCHANGED <<projected, facts, tx, spent>>
<1>1. ASSUME NEW f \in Filing, Insert(r, f[1], f[2])
      PROVE  Grows
  <2> DEFINE row == [rig |-> r, kind |-> f[1], turn |-> f[2], at |-> "open"]
  <2>1. row \in RowType
    BY FilingAssumption DEF RowType
  <2>2. ledger' = Append(ledger, row)
    BY <1>1 DEF Insert
  <2> HIDE DEF row
  <2>3. /\ ledger' \in Seq(RowType)
        /\ Len(ledger') = Len(ledger) + 1
        /\ \A i \in 1 .. Len(ledger) : ledger'[i] = ledger[i]
    BY <2>1, <2>2
  <2>4. Len(ledger) \in Nat /\ Id = 1 .. Len(ledger) /\ Id' = 1 .. Len(ledger) + 1
    BY <2>3 DEF Id
  <2> QED BY <2>3, <2>4 DEF Grows, Held
<1>2. ASSUME NEW outcome \in {"held", "gone"}, Settle(r, outcome)
      PROVE  Grows
  <2>1. Len(ledger) \in Nat /\ Id = 1 .. Len(ledger) /\ \A i \in Id : ledger[i] \in RowType
    BY Ids
  <2>2. /\ ledger' = [i \in 1 .. Len(ledger) |-> ledger'[i]]
        /\ \A i \in Id : /\ ledger'[i] \in RowType
                         /\ ledger'[i].rig = ledger[i].rig
                         /\ ledger'[i].kind = ledger[i].kind
                         /\ ledger'[i].turn = ledger[i].turn
                         /\ ledger[i].at = "held" => ledger'[i].at = "held"
    BY <1>2, <2>1 DEF Settle, RowType, Ingesting
  <2>3. ledger' \in Seq(RowType) /\ Id' = Id
    BY <2>1, <2>2 DEF Id
  <2> QED BY <2>2, <2>3 DEF Grows, Held
<1> QED BY <1>1, <1>2 DEF Ingest, Insert, IngestCommits, IngestFails

--------------------------------------------------------------------------
(* One worker's transaction moves and the tables stay.                     *)
LEMMA TxStep ==
    ASSUME IInv, NEW w \in Worker, UNCHANGED <<ledger, projected, facts>>,
           spent' \in [fails : 0..MaxFails, replays : 0..MaxReplays],
           tx' = [u \in Worker |-> tx'[u]],
           \A u \in Worker \ {w} : tx'[u] = tx[u],
           GoodTx(w)',
           \A u \in Worker \ {w} : tx'[w].batch \cap tx[u].batch = {}
    PROVE  IInv'
<1>1. ASSUME NEW u \in Worker PROVE GoodTx(u)'
  <2>1. CASE u = w
    BY <2>1
  <2>2. CASE u # w
    <3>1. GoodTx(u) /\ tx'[u] = tx[u]
      BY <2>2 DEF IInv
    <3>2. Written(u)' = Written(u)
      BY <3>1 DEF Written
    <3>3. Held' = Held /\ \A i : KindOf(i)' = KindOf(i) /\ Key(i)' = Key(i)
      BY DEF Held, Id, KindOf, Key
    <3> QED BY <3>1, <3>2, <3>3 DEF GoodTx, Shaped, FactsType, Recorded
  <2> QED BY <2>1, <2>2
<1>2. Apart'
  BY DEF IInv, Apart
<1>3. /\ ledger' \in Seq(RowType) /\ (projected \subseteq Held)'
      /\ FactsType(facts, Held)' /\ Recorded(facts, projected)'
  BY DEF IInv, Held, Id, FactsType, Recorded, KindOf, Key
<1> QED BY <1>1, <1>2, <1>3 DEF IInv

LEMMA ClaimIs ==
    ASSUME IInv, NEW w \in Worker, Claim(w),
           NEW rows, rows = {i \in Claimable(w) : Cardinality({j \in Claimable(w) : j < i}) < Limit}
    PROVE  /\ rows \subseteq Claimable(w) /\ rows # {} /\ tx[w].phase = "idle"
           /\ UNCHANGED <<ledger, projected, facts, spent>>
           /\ tx' = [u \in Worker |-> tx'[u]] /\ \A u \in Worker \ {w} : tx'[u] = tx[u]
           /\ tx'[w] = [phase |-> "batch", batch |-> rows, todo |-> rows, new |-> tx[w].new,
                        loaded |-> tx[w].loaded, doomed |-> tx[w].doomed]
<1>1. /\ rows \subseteq Claimable(w) /\ rows # {} /\ tx[w].phase = "idle"
      /\ tx' = [tx EXCEPT ![w].phase = "batch", ![w].batch = rows, ![w].todo = rows]
      /\ UNCHANGED <<ledger, projected, facts, spent>>
  BY DEF Claim
<1>2. GoodTx(w)
  BY DEF IInv
<1>3. /\ tx' = [u \in Worker |-> tx'[u]] /\ \A u \in Worker \ {w} : tx'[u] = tx[u]
      /\ tx'[w] = [phase |-> "batch", batch |-> rows, todo |-> rows, new |-> tx[w].new,
                   loaded |-> tx[w].loaded, doomed |-> tx[w].doomed]
  BY <1>1, <1>2 DEF IInv, GoodTx, Shaped
<1> QED BY <1>1, <1>3

LEMMA ClaimStep ==
    ASSUME IInv, NEW w \in Worker, Claim(w)
    PROVE  IInv'
<1> DEFINE rows == {i \in Claimable(w) : Cardinality({j \in Claimable(w) : j < i}) < Limit}
<1> HIDE DEF rows
<1>1. /\ rows \subseteq Claimable(w) /\ rows # {} /\ tx[w].phase = "idle"
      /\ UNCHANGED <<ledger, projected, facts, spent>>
      /\ tx' = [u \in Worker |-> tx'[u]] /\ \A u \in Worker \ {w} : tx'[u] = tx[u]
      /\ tx'[w] = [phase |-> "batch", batch |-> rows, todo |-> rows, new |-> tx[w].new,
                   loaded |-> tx[w].loaded, doomed |-> tx[w].doomed]
  BY ClaimIs DEF rows
<1>2. GoodTx(w)
  BY DEF IInv
<1>3. tx'[w] = [phase |-> "batch", batch |-> rows, todo |-> rows, new |-> tx[w].new,
                loaded |-> tx[w].loaded, doomed |-> tx[w].doomed]
  BY <1>1
<1>4. rows \subseteq Held \ projected /\ \A u \in Worker \ {w} : rows \cap tx[u].batch = {}
  BY <1>1 DEF Claimable
<1>5. Recorded(Written(w), tx[w].batch \ tx[w].todo)'
  BY <1>3 DEF Recorded
<1>6. GoodTx(w)'
  <2>1. Held' = Held
    BY <1>1 DEF Held, Id
  <2>2. Shaped(tx[w])'
    BY <1>3 DEF Shaped
  <2>3. FactsType(tx[w].new, Held)' /\ FactsType(tx[w].doomed, Held)'
    BY <1>2, <1>3, <2>1 DEF GoodTx, FactsType
  <2>4. DOMAIN tx'[w].loaded \subseteq DOMAIN tx'[w].new.session \cup DOMAIN facts'.session
    BY <1>1, <1>2, <1>3 DEF GoodTx
  <2>5. /\ tx'[w].phase = "batch" /\ tx'[w].todo = tx'[w].batch /\ tx'[w].batch # {}
        /\ tx'[w].batch \subseteq Held' \ projected'
    <3>1. tx'[w].phase = "batch" /\ tx'[w].todo = rows /\ tx'[w].batch = rows
      BY <1>3
    <3>2. rows # {} /\ projected' = projected
      BY <1>1
    <3> QED BY <1>4, <2>1, <3>1, <3>2
  <2> QED BY <1>5, <2>2, <2>3, <2>4, <2>5 DEF GoodTx
<1>7. \A u \in Worker \ {w} : tx'[w].batch \cap tx[u].batch = {}
  BY <1>3, <1>4
<1>8. spent' \in [fails : 0..MaxFails, replays : 0..MaxReplays]
  BY <1>1 DEF IInv
<1> QED BY <1>1, <1>6, <1>7, <1>8, TxStep

LEMMA GoodIdle ==
    ASSUME NEW w \in Worker, tx'[w] = Idle
    PROVE  GoodTx(w)'
BY DEF GoodTx, Idle, Shaped, FactsType, NoFacts, None, Recorded

LEMMA RollbackStep ==
    ASSUME IInv, NEW w \in Worker, Rollback(w),
           spent' \in [fails : 0..MaxFails, replays : 0..MaxReplays]
    PROVE  IInv'
<1>1. /\ tx' = [u \in Worker |-> tx'[u]] /\ \A u \in Worker \ {w} : tx'[u] = tx[u]
      /\ tx'[w] = Idle
  BY DEF Rollback, IInv
<1>2. GoodTx(w)' /\ tx'[w].batch = {}
  BY <1>1, GoodIdle DEF Idle
<1> QED BY <1>1, <1>2, TxStep DEF Rollback

LEMMA WipeStep ==
    ASSUME IInv, NEW w \in Worker, Wipe(w)
    PROVE  IInv'
<1>1. GoodTx(w)
  BY DEF IInv
<1>2. /\ tx' = [u \in Worker |-> tx'[u]] /\ \A u \in Worker \ {w} : tx'[u] = tx[u]
      /\ tx'[w] = [phase |-> "wipe", batch |-> tx[w].batch, todo |-> tx[w].todo, new |-> tx[w].new,
                   loaded |-> tx[w].loaded, doomed |-> facts]
      /\ tx[w].batch = {} /\ tx[w].todo = {} /\ tx[w].loaded = None /\ tx[w].new = NoFacts
  BY <1>1 DEF IInv, GoodTx, Shaped, Wipe
<1>3. Recorded(Written(w), tx[w].batch \ tx[w].todo)'
  BY <1>2 DEF Recorded
<1>4. FactsType(facts, Held)
  BY DEF IInv
<1>5. GoodTx(w)'
  <2>1. Held' = Held /\ projected' = projected
    BY DEF Held, Id, Wipe
  <2>2. Shaped(tx[w])'
    BY <1>2 DEF Shaped
  <2>3. FactsType(tx[w].new, Held)' /\ FactsType(tx[w].doomed, Held)'
    BY <1>1, <1>2, <1>4, <2>1 DEF GoodTx, FactsType
  <2>4. tx'[w].batch = {} /\ tx'[w].todo = {} /\ DOMAIN tx'[w].loaded = {}
    BY <1>2 DEF None
  <2> QED BY <1>2, <1>3, <2>1, <2>2, <2>3, <2>4 DEF GoodTx
<1>6. spent' \in [fails : 0..MaxFails, replays : 0..MaxReplays]
  BY BoundsAssumption DEF IInv, Wipe
<1>7. tx'[w].batch = {} /\ UNCHANGED <<ledger, projected, facts>>
  BY <1>2 DEF Wipe
<1> QED BY <1>2, <1>5, <1>6, <1>7, TxStep

--------------------------------------------------------------------------
(* What one row writes, and where.                                         *)
Sess(v, i) == IF SessionsOf(v, i) = {} THEN i ELSE Max(SessionsOf(v, i))

HeldRows(v) ==
    v.filed \subseteq Held /\ DOMAIN v.session \subseteq Held /\ DOMAIN v.outage \subseteq Held

Writing(v, i, s) ==
    /\ s \in Held /\ Key(s) = Key(i)
    /\ s \notin DOMAIN v.session => s = i
    /\ DOMAIN OutageWrites(v, i) \subseteq {i} \cup DOMAIN v.outage
    /\ \A d \in DOMAIN OutageWrites(v, i) : OutageWrites(v, i)[d] \in {0, i}
    /\ DOMAIN SessionWrites(v, i, s) \subseteq {s}
    /\ s \in DOMAIN SessionWrites(v, i, s) \cup DOMAIN v.session
    /\ \A x \in DOMAIN SessionWrites(v, i, s) : SessionWrites(v, i, s)[x] \in {0, i}
    /\ DOMAIN BlockWrites(v, i, s) = (IF KindOf(i) = "stint" THEN {i} ELSE {})
    /\ \A b \in DOMAIN BlockWrites(v, i, s) :
          BlockWrites(v, i, s)[b] \in [since : {s}, episodes : Nat]

LEMMA Writes ==
    ASSUME ledger \in Seq(RowType), NEW i \in Held, NEW v, HeldRows(v),
           NEW s, s = Sess(v, i)
    PROVE  Writing(v, i, s)
<1> USE DEF HeldRows
<1>1. Len(ledger) \in Nat /\ Held \subseteq 1 .. Len(ledger)
  BY Ids
<1>2. SessionsOf(v, i) \subseteq 1 .. Len(ledger) /\ SessionsOf(v, i) \subseteq DOMAIN v.session
  BY <1>1 DEF SessionsOf
<1>3. /\ SessionsOf(v, i) # {} => s \in SessionsOf(v, i)
      /\ SessionsOf(v, i) = {} => s = i
  BY <1>1, <1>2, Greatest DEF Sess
<1>4. s \in Held /\ Key(s) = Key(i) /\ (s \notin DOMAIN v.session => s = i)
  BY <1>2, <1>3 DEF SessionsOf
<1>5. /\ DOMAIN OutageWrites(v, i) \subseteq {i} \cup DOMAIN v.outage
      /\ \A d \in DOMAIN OutageWrites(v, i) : OutageWrites(v, i)[d] \in {0, i}
  <2>1. OpenOutages(v, i) \subseteq DOMAIN v.outage /\ DOMAIN v.outage \subseteq 1 .. Len(ledger)
    BY <1>1 DEF OpenOutages
  <2>2. OpenOutages(v, i) # {} => Max(OpenOutages(v, i)) \in OpenOutages(v, i)
    BY <1>1, <2>1, Greatest
  <2> QED BY <2>1, <2>2 DEF OutageWrites, Only, None
<1>6. /\ DOMAIN SessionWrites(v, i, s) \subseteq {s}
      /\ s \in DOMAIN SessionWrites(v, i, s) \cup DOMAIN v.session
      /\ \A x \in DOMAIN SessionWrites(v, i, s) : SessionWrites(v, i, s)[x] \in {0, i}
  BY DEF SessionWrites, Only, None
<1>7. Cardinality({j \in v.filed : Key(j) = Key(i) /\ KindOf(j) = "saved"}) \in Nat
  <2> DEFINE C == {j \in v.filed : Key(j) = Key(i) /\ KindOf(j) = "saved"}
  <2>1. C \subseteq 1 .. Len(ledger)
    BY <1>1
  <2> HIDE DEF C
  <2>2. IsFiniteSet(1 .. Len(ledger))
    BY <1>1, FS_Interval
  <2>3. Cardinality(C) \in Nat
    BY <2>1, <2>2, FS_Subset, FS_CardinalityType
  <2> QED BY <2>3 DEF C
<1>8. /\ DOMAIN BlockWrites(v, i, s) = (IF KindOf(i) = "stint" THEN {i} ELSE {})
      /\ \A b \in DOMAIN BlockWrites(v, i, s) :
            BlockWrites(v, i, s)[b] \in [since : {s}, episodes : Nat]
  BY <1>7 DEF BlockWrites, Only, None
<1> QED BY <1>4, <1>5, <1>6, <1>8 DEF Writing

(* Rows over rows.                                                         *)
Merge(f, g) == [filed |-> f.filed \cup g.filed, outage |-> Over(f.outage, g.outage),
                session |-> Over(f.session, g.session), block |-> Over(f.block, g.block)]

LEMMA MergeIs ==
    ASSUME NEW f, NEW g
    PROVE  /\ Merge(f, g).filed = f.filed \cup g.filed
           /\ DOMAIN Merge(f, g).outage = DOMAIN f.outage \cup DOMAIN g.outage
           /\ DOMAIN Merge(f, g).session = DOMAIN f.session \cup DOMAIN g.session
           /\ DOMAIN Merge(f, g).block = DOMAIN f.block \cup DOMAIN g.block
BY Overs DEF Merge

LEMMA OverIn ==
    ASSUME NEW f, NEW g, NEW T, \A x \in DOMAIN f : f[x] \in T, \A x \in DOMAIN g : g[x] \in T
    PROVE  \A x \in DOMAIN Over(f, g) : Over(f, g)[x] \in T
BY DEF Over

LEMMA MergeType ==
    ASSUME NEW f, NEW g, NEW S, FactsType(f, S), FactsType(g, S)
    PROVE  FactsType(Merge(f, g), S)
<1>1. /\ \A d \in DOMAIN Over(f.outage, g.outage) : Over(f.outage, g.outage)[d] \in {0} \cup S
      /\ \A d \in DOMAIN Over(f.session, g.session) : Over(f.session, g.session)[d] \in {0} \cup S
      /\ \A d \in DOMAIN Over(f.block, g.block) :
            Over(f.block, g.block)[d] \in [since : S, episodes : Nat]
  <2> DEFINE T == {0} \cup S
             B == [since : S, episodes : Nat]
  <2>1. /\ \A x \in DOMAIN f.outage : f.outage[x] \in T
        /\ \A x \in DOMAIN g.outage : g.outage[x] \in T
        /\ \A x \in DOMAIN f.session : f.session[x] \in T
        /\ \A x \in DOMAIN g.session : g.session[x] \in T
        /\ \A x \in DOMAIN f.block : f.block[x] \in B
        /\ \A x \in DOMAIN g.block : g.block[x] \in B
    BY DEF FactsType
  <2> HIDE DEF T, B
  <2>2. /\ \A d \in DOMAIN Over(f.outage, g.outage) : Over(f.outage, g.outage)[d] \in T
        /\ \A d \in DOMAIN Over(f.session, g.session) : Over(f.session, g.session)[d] \in T
        /\ \A d \in DOMAIN Over(f.block, g.block) : Over(f.block, g.block)[d] \in B
    BY <2>1, OverIn
  <2> QED BY <2>2 DEF T, B
<1>2. /\ Merge(f, g).outage = Over(f.outage, g.outage)
      /\ Merge(f, g).session = Over(f.session, g.session)
      /\ Merge(f, g).block = Over(f.block, g.block)
  BY DEF Merge
<1> QED BY <1>1, <1>2, MergeIs DEF FactsType

(* What a row writes, as tables.                                           *)
Row(v, i, s) ==
    [filed |-> IF KindOf(i) \in Filed THEN {i} ELSE {}, outage |-> OutageWrites(v, i),
     session |-> SessionWrites(v, i, s), block |-> BlockWrites(v, i, s)]

(* The step of project_one, taken apart.                                   *)
LEMMA ProjectIs ==
    ASSUME IInv, NEW w \in Worker, Project(w),
           NEW i, i = Min(tx[w].todo), NEW v, v = View(w), NEW s, s = Sess(v, i)
    PROVE  /\ tx[w].phase = "batch" /\ i \in tx[w].todo /\ \A j \in tx[w].todo : i <= j
           /\ tx' = [u \in Worker |-> tx'[u]] /\ \A u \in Worker \ {w} : tx'[u] = tx[u]
           /\ Shaped(tx[w])'
           /\ tx'[w].phase = "batch" /\ tx'[w].batch = tx[w].batch
           /\ tx'[w].todo = tx[w].todo \ {i} /\ tx'[w].doomed = tx[w].doomed
           /\ tx'[w].new = Merge(Row(v, i, s), tx[w].new)
           /\ tx'[w].loaded = IF s \in DOMAIN v.session
                              THEN Over(Only(s, v.session[s]), tx[w].loaded) ELSE tx[w].loaded
           /\ UNCHANGED <<ledger, projected, facts, spent>>
<1>1. GoodTx(w)
  BY DEF IInv
<1>2. Len(ledger) \in Nat /\ Held \subseteq 1 .. Len(ledger)
  BY Ids DEF IInv
<1>3. tx[w].phase = "batch" /\ i \in tx[w].todo /\ \A j \in tx[w].todo : i <= j
  <2>0. tx[w].phase = "batch" /\ tx[w].todo # {}
    BY DEF Project
  <2>1. tx[w].todo \subseteq Held
    BY <1>1 DEF GoodTx
  <2>2. tx[w].todo \subseteq Nat
    BY <1>2, <2>1
  <2> QED BY <2>0, <2>2, Least
<1> DEFINE n == [filed |-> IF KindOf(i) \in Filed THEN tx[w].new.filed \cup {i} ELSE tx[w].new.filed,
                 outage |-> Over(OutageWrites(v, i), tx[w].new.outage),
                 session |-> Over(SessionWrites(v, i, s), tx[w].new.session),
                 block |-> Over(BlockWrites(v, i, s), tx[w].new.block)]
           l == IF s \in DOMAIN v.session THEN Over(Only(s, v.session[s]), tx[w].loaded)
                ELSE tx[w].loaded
<1>4. /\ tx' = [tx EXCEPT ![w].todo = @ \ {i}, ![w].loaded = l, ![w].new = n]
      /\ UNCHANGED <<ledger, projected, facts, spent>>
  BY DEF Project, Sess
<1>5. n = Merge(Row(v, i, s), tx[w].new)
  BY DEF Merge, Row
<1> HIDE DEF n, l
<1>6. /\ tx' = [u \in Worker |-> tx'[u]] /\ \A u \in Worker \ {w} : tx'[u] = tx[u]
      /\ tx'[w] = [phase |-> tx[w].phase, batch |-> tx[w].batch, todo |-> tx[w].todo \ {i},
                   new |-> n, loaded |-> l, doomed |-> tx[w].doomed]
  BY <1>1, <1>4 DEF IInv, GoodTx, Shaped
<1>7. l = IF s \in DOMAIN v.session THEN Over(Only(s, v.session[s]), tx[w].loaded)
          ELSE tx[w].loaded
  BY DEF l
<1>8. Shaped(tx[w])'
  BY <1>6 DEF Shaped
<1>9. /\ tx'[w].phase = tx[w].phase /\ tx'[w].batch = tx[w].batch
      /\ tx'[w].todo = tx[w].todo \ {i} /\ tx'[w].doomed = tx[w].doomed
      /\ tx'[w].new = n /\ tx'[w].loaded = l
  BY <1>6
<1>10. /\ tx' = [u \in Worker |-> tx'[u]] /\ \A u \in Worker \ {w} : tx'[u] = tx[u]
       /\ UNCHANGED <<ledger, projected, facts, spent>>
  BY <1>4, <1>6
<1> QED BY <1>3, <1>5, <1>7, <1>8, <1>9, <1>10

LEMMA ViewIs ==
    ASSUME NEW w
    PROVE  /\ View(w).filed = Written(w).filed
           /\ View(w).outage = Written(w).outage
           /\ View(w).session = Over(tx[w].new.session, Over(tx[w].loaded, facts.session))
           /\ View(w).block = Written(w).block
BY DEF View, Written

LEMMA WrittenMerge == ASSUME NEW w PROVE Written(w) = Merge(tx[w].new, facts)
BY DEF Written, Merge

LEMMA ProjectWrites ==
    ASSUME IInv, NEW w \in Worker, Project(w),
           NEW i, i = Min(tx[w].todo), NEW v, v = View(w), NEW s, s = Sess(v, i)
    PROVE  /\ i \in Held /\ HeldRows(v) /\ Writing(v, i, s)
           /\ DOMAIN v.outage = DOMAIN tx[w].new.outage \cup DOMAIN facts.outage
           /\ DOMAIN v.session \subseteq DOMAIN tx[w].new.session \cup DOMAIN facts.session
<1>1. i = Min(tx[w].todo) /\ v = View(w) /\ s = Sess(v, i)
  OBVIOUS
<1>2. i \in tx[w].todo
  BY ProjectIs
<1>3. GoodTx(w)
  BY DEF IInv
<1>4. i \in Held
  BY <1>2, <1>3 DEF GoodTx
<1>5. /\ HeldRows(v)
      /\ DOMAIN v.outage = DOMAIN tx[w].new.outage \cup DOMAIN facts.outage
      /\ DOMAIN v.session \subseteq DOMAIN tx[w].new.session \cup DOMAIN facts.session
  <2>1. /\ tx[w].new.filed \subseteq Held /\ facts.filed \subseteq Held
        /\ DOMAIN tx[w].new.outage \subseteq Held /\ DOMAIN facts.outage \subseteq Held
        /\ DOMAIN tx[w].new.session \subseteq Held /\ DOMAIN facts.session \subseteq Held
        /\ DOMAIN tx[w].loaded \subseteq DOMAIN tx[w].new.session \cup DOMAIN facts.session
    BY <1>3 DEF IInv, GoodTx, FactsType
  <2>2. /\ View(w).filed = tx[w].new.filed \cup facts.filed
        /\ DOMAIN View(w).outage = DOMAIN tx[w].new.outage \cup DOMAIN facts.outage
        /\ DOMAIN View(w).session = DOMAIN tx[w].new.session \cup (DOMAIN tx[w].loaded \cup DOMAIN facts.session)
    <3>1. DOMAIN View(w).session = DOMAIN Over(tx[w].new.session, Over(tx[w].loaded, facts.session))
      BY ViewIs
    <3>2. DOMAIN View(w).outage = DOMAIN Written(w).outage /\ View(w).filed = Written(w).filed
      BY ViewIs
    <3>3. DOMAIN Over(tx[w].new.session, Over(tx[w].loaded, facts.session))
            = DOMAIN tx[w].new.session \cup (DOMAIN tx[w].loaded \cup DOMAIN facts.session)
      <4> DEFINE g == Over(tx[w].loaded, facts.session)
      <4>1. DOMAIN g = DOMAIN tx[w].loaded \cup DOMAIN facts.session
        BY OverDomain
      <4> HIDE DEF g
      <4>2. DOMAIN Over(tx[w].new.session, g) = DOMAIN tx[w].new.session \cup DOMAIN g
        BY OverDomain
      <4> QED BY <4>1, <4>2 DEF g
    <3> QED BY <3>1, <3>2, <3>3, WrittenIs
  <2>3. /\ HeldRows(View(w))
        /\ DOMAIN View(w).session \subseteq DOMAIN tx[w].new.session \cup DOMAIN facts.session
    BY <2>1, <2>2 DEF HeldRows
  <2> QED BY <1>1, <2>2, <2>3
<1>6. Writing(v, i, s)
  BY <1>1, <1>4, <1>5, Writes DEF IInv
<1> QED BY <1>4, <1>5, <1>6

LEMMA ProjectStep ==
    ASSUME IInv, NEW w \in Worker, Project(w)
    PROVE  IInv'
<1>1. PICK i, v, s : i = Min(tx[w].todo) /\ v = View(w) /\ s = Sess(v, i)
  OBVIOUS
<1>2. /\ tx[w].phase = "batch" /\ i \in tx[w].todo
      /\ tx' = [u \in Worker |-> tx'[u]] /\ \A u \in Worker \ {w} : tx'[u] = tx[u]
      /\ Shaped(tx[w])'
      /\ tx'[w].phase = "batch" /\ tx'[w].batch = tx[w].batch
      /\ tx'[w].todo = tx[w].todo \ {i} /\ tx'[w].doomed = tx[w].doomed
      /\ tx'[w].new = Merge(Row(v, i, s), tx[w].new)
      /\ tx'[w].loaded = IF s \in DOMAIN v.session
                         THEN Over(Only(s, v.session[s]), tx[w].loaded) ELSE tx[w].loaded
      /\ UNCHANGED <<ledger, projected, facts, spent>>
  BY <1>1, ProjectIs
<1>3. GoodTx(w)
  BY DEF IInv
<1>4. i \in Held /\ HeldRows(v) /\ Writing(v, i, s)
  BY <1>1, ProjectWrites
<1>5. HeldRows(v) /\ DOMAIN v.session \subseteq DOMAIN tx[w].new.session \cup DOMAIN facts.session
  BY <1>1, ProjectWrites
<1>6. Writing(v, i, s)
  BY <1>4
<1>7. /\ Row(v, i, s).filed = (IF KindOf(i) \in Filed THEN {i} ELSE {})
      /\ Row(v, i, s).outage = OutageWrites(v, i)
      /\ Row(v, i, s).session = SessionWrites(v, i, s)
      /\ Row(v, i, s).block = BlockWrites(v, i, s)
  BY DEF Row
<1>8. FactsType(Row(v, i, s), Held)
  BY <1>4, <1>5, <1>6, <1>7 DEF FactsType, Writing, HeldRows
<1>9. FactsType(tx'[w].new, Held)
  BY <1>2, <1>3, <1>8, MergeType DEF GoodTx
<1>10. /\ tx'[w].new.filed = Row(v, i, s).filed \cup tx[w].new.filed
       /\ DOMAIN tx'[w].new.session = DOMAIN SessionWrites(v, i, s) \cup DOMAIN tx[w].new.session
       /\ DOMAIN tx'[w].new.block = DOMAIN BlockWrites(v, i, s) \cup DOMAIN tx[w].new.block
  BY <1>2, <1>7, MergeIs
<1>11. DOMAIN tx'[w].loaded \subseteq DOMAIN tx'[w].new.session \cup DOMAIN facts.session
  <2>1. DOMAIN tx'[w].loaded \subseteq DOMAIN tx[w].loaded \cup ({s} \cap DOMAIN v.session)
    <3> DEFINE o == Only(s, v.session[s])
    <3>1. DOMAIN o = {s}
      BY DEF Only
    <3>2. ASSUME s \in DOMAIN v.session
          PROVE  DOMAIN tx'[w].loaded \subseteq DOMAIN tx[w].loaded \cup {s}
      <4>1. tx'[w].loaded = Over(o, tx[w].loaded)
        BY <1>2, <3>2
      <4> HIDE DEF o
      <4>2. DOMAIN Over(o, tx[w].loaded) = DOMAIN o \cup DOMAIN tx[w].loaded
        BY OverDomain
      <4> QED BY <3>1, <4>1, <4>2
    <3>3. CASE s \notin DOMAIN v.session
      BY <1>2, <3>3
    <3> QED BY <3>2, <3>3
  <2>2. /\ DOMAIN tx[w].loaded \subseteq DOMAIN tx[w].new.session \cup DOMAIN facts.session
        /\ DOMAIN tx[w].new.session \subseteq DOMAIN tx'[w].new.session
    BY <1>3, <1>10 DEF GoodTx
  <2> QED BY <1>5, <2>1, <2>2
<1>12. Recorded(Written(w), tx[w].batch \ tx[w].todo)'
  <2>1. /\ Written(w).filed \subseteq Written(w)'.filed
        /\ DOMAIN Written(w).session \subseteq DOMAIN Written(w)'.session
        /\ DOMAIN Written(w).block \subseteq DOMAIN Written(w)'.block
        /\ Row(v, i, s).filed \subseteq Written(w)'.filed
        /\ DOMAIN BlockWrites(v, i, s) \subseteq DOMAIN Written(w)'.block
        /\ s \in DOMAIN Written(w)'.session
    <3>1. /\ Written(w)'.filed = tx'[w].new.filed \cup facts.filed
          /\ DOMAIN Written(w)'.session = DOMAIN tx'[w].new.session \cup DOMAIN facts.session
          /\ DOMAIN Written(w)'.block = DOMAIN tx'[w].new.block \cup DOMAIN facts.block
      <4>1. /\ Written(w)'.filed = tx'[w].new.filed \cup facts'.filed
            /\ Written(w)'.session = Over(tx'[w].new.session, facts'.session)
            /\ Written(w)'.block = Over(tx'[w].new.block, facts'.block)
        BY DEF Written
      <4>2. facts' = facts
        BY <1>2
      <4> QED BY <4>1, <4>2, OverDomain
    <3> QED BY <1>5, <1>6, <1>10, <3>1, WrittenIs DEF Writing
  <2>2. tx'[w].batch \ tx'[w].todo = (tx[w].batch \ tx[w].todo) \cup {i}
    BY <1>2, <1>3 DEF GoodTx
  <2>3. \A j : KindOf(j)' = KindOf(j) /\ Key(j)' = Key(j)
    BY <1>2 DEF KindOf, Key
  <2>4. Recorded(Written(w), tx[w].batch \ tx[w].todo)
    BY <1>3 DEF GoodTx
  <2> QED BY <1>6, <1>7, <2>1, <2>2, <2>3, <2>4 DEF Recorded, Writing
<1>13. Held' = Held /\ projected' = projected
  BY <1>2 DEF Held, Id
<1>14. FactsType(tx[w].new, Held)' /\ FactsType(tx[w].doomed, Held)'
  BY <1>2, <1>3, <1>9, <1>13 DEF GoodTx, FactsType
<1>15. GoodTx(w)'
  BY <1>2, <1>3, <1>11, <1>12, <1>13, <1>14 DEF GoodTx
<1>16. /\ \A u \in Worker \ {w} : tx'[w].batch \cap tx[u].batch = {}
       /\ spent' \in [fails : 0..MaxFails, replays : 0..MaxReplays]
  BY <1>2 DEF IInv, Apart
<1> QED BY <1>2, <1>15, <1>16, TxStep

--------------------------------------------------------------------------
(* A batch is committed, and the tables are wiped.                         *)
LEMMA CommitStep ==
    ASSUME IInv, NEW w \in Worker, Commit(w)
    PROVE  IInv'
<1>1. /\ tx[w].phase = "batch" /\ tx[w].todo = {}
      /\ facts' = Written(w) /\ projected' = projected \cup tx[w].batch
      /\ tx' = [tx EXCEPT ![w] = Idle] /\ UNCHANGED <<ledger, spent>>
  BY DEF Commit, BatchRead
<1>2. GoodTx(w) /\ \A u \in Worker : GoodTx(u)
  BY DEF IInv
<1>3. /\ tx' = [u \in Worker |-> tx'[u]] /\ tx'[w] = Idle
      /\ \A u \in Worker \ {w} : tx'[u] = tx[u]
  BY <1>1 DEF IInv
<1>4. Held' = Held /\ \A j : KindOf(j)' = KindOf(j) /\ Key(j)' = Key(j)
  BY <1>1 DEF Held, Id, KindOf, Key
<1>5. FactsType(Written(w), Held)
  <2>1. FactsType(tx[w].new, Held) /\ FactsType(facts, Held)
    BY <1>2 DEF IInv, GoodTx
  <2> QED BY <2>1, MergeType, WrittenMerge
<1>6. FactsType(facts, Held)'
  BY <1>1, <1>4, <1>5 DEF FactsType
<1>7. /\ facts.filed \subseteq facts'.filed
      /\ DOMAIN facts.session \subseteq DOMAIN facts'.session
      /\ DOMAIN facts.block \subseteq DOMAIN facts'.block
  BY <1>1, WrittenIs
<1>8. Recorded(facts, projected)'
  <2>1. Recorded(Written(w), tx[w].batch)
    BY <1>1, <1>2 DEF GoodTx
  <2>2. Recorded(facts, projected)
    BY DEF IInv
  <2> QED BY <1>1, <1>4, <1>7, <2>1, <2>2 DEF Recorded
<1>9. ASSUME NEW u \in Worker PROVE GoodTx(u)'
  <2>1. CASE u = w
    BY <1>3, <2>1, GoodIdle
  <2>2. CASE u # w
    <3>1. GoodTx(u) /\ tx'[u] = tx[u] /\ tx[u].batch \cap tx[w].batch = {}
      BY <1>2, <1>3, <2>2 DEF IInv, Apart
    <3>2. Recorded(Written(u), tx[u].batch \ tx[u].todo)'
      <4>1. /\ Written(u)'.filed = tx'[u].new.filed \cup facts'.filed
            /\ Written(u)'.session = Over(tx'[u].new.session, facts'.session)
            /\ Written(u)'.block = Over(tx'[u].new.block, facts'.block)
        BY DEF Written
      <4>2. /\ DOMAIN Written(u)'.session = DOMAIN tx[u].new.session \cup DOMAIN facts'.session
            /\ DOMAIN Written(u)'.block = DOMAIN tx[u].new.block \cup DOMAIN facts'.block
        <5>1. /\ Written(u)'.session = Over(tx[u].new.session, facts'.session)
              /\ Written(u)'.block = Over(tx[u].new.block, facts'.block)
          BY <3>1, <4>1
        <5>2. /\ DOMAIN Over(tx[u].new.session, facts'.session)
                    = DOMAIN tx[u].new.session \cup DOMAIN facts'.session
              /\ DOMAIN Over(tx[u].new.block, facts'.block)
                    = DOMAIN tx[u].new.block \cup DOMAIN facts'.block
          BY OverDomain
        <5> QED BY <5>1, <5>2
      <4>3. /\ Written(u).filed \subseteq Written(u)'.filed
            /\ DOMAIN Written(u).session \subseteq DOMAIN Written(u)'.session
            /\ DOMAIN Written(u).block \subseteq DOMAIN Written(u)'.block
        BY <1>7, <3>1, <4>1, <4>2, WrittenIs
      <4>4. Recorded(Written(u), tx[u].batch \ tx[u].todo)
        BY <3>1 DEF GoodTx
      <4> QED BY <1>4, <3>1, <4>3, <4>4 DEF Recorded
    <3>3. FactsType(tx[u].new, Held)' /\ FactsType(tx[u].doomed, Held)'
      BY <1>4, <3>1 DEF GoodTx, FactsType
    <3>4. /\ Shaped(tx[u])' /\ tx'[u].phase \in {"idle", "batch", "wipe"}
          /\ tx'[u].todo \subseteq tx'[u].batch /\ tx'[u].batch \subseteq Held' \ projected'
          /\ tx'[u].phase = "batch" => tx'[u].batch # {}
          /\ tx'[u].phase # "batch" => tx'[u].batch = {} /\ tx'[u].loaded = None /\ tx'[u].new = NoFacts
          /\ DOMAIN tx'[u].loaded \subseteq DOMAIN tx'[u].new.session \cup DOMAIN facts'.session
      BY <1>1, <1>4, <1>7, <3>1 DEF GoodTx, Shaped
    <3> QED BY <3>2, <3>3, <3>4 DEF GoodTx
  <2> QED BY <2>1, <2>2
<1>10. (projected \subseteq Held)' /\ Apart'
  BY <1>1, <1>2, <1>3, <1>4 DEF IInv, GoodTx, Apart, Idle
<1> QED BY <1>1, <1>3, <1>6, <1>8, <1>9, <1>10 DEF IInv

LEMMA WipeCommitsStep ==
    ASSUME IInv, NEW w \in Worker, WipeCommits(w)
    PROVE  IInv'
<1>1. /\ tx[w].phase = "wipe" /\ \A u \in Worker : tx[u].batch = {}
      /\ projected' = {} /\ tx' = [tx EXCEPT ![w] = Idle] /\ UNCHANGED <<ledger, spent>>
  BY DEF WipeCommits
<1>2. /\ facts'.filed = facts.filed \ tx[w].doomed.filed
      /\ facts'.outage = Restrict(facts.outage, DOMAIN facts.outage \ DOMAIN tx[w].doomed.outage)
      /\ facts'.session = Restrict(facts.session, DOMAIN facts.session \ DOMAIN tx[w].doomed.session)
      /\ facts'.block = Restrict(facts.block, DOMAIN facts.block \ DOMAIN tx[w].doomed.block)
  BY DEF WipeCommits
<1>3. \A u \in Worker : GoodTx(u)
  BY DEF IInv
<1>4. /\ tx' = [u \in Worker |-> tx'[u]] /\ tx'[w] = Idle
      /\ \A u \in Worker \ {w} : tx'[u] = tx[u]
  BY <1>1 DEF IInv
<1>5. Held' = Held
  BY <1>1 DEF Held, Id
<1>6. FactsType(facts, Held)'
  <2>1. FactsType(facts, Held)
    BY DEF IInv
  <2>2. /\ DOMAIN facts'.outage \subseteq DOMAIN facts.outage
        /\ \A d \in DOMAIN facts'.outage : facts'.outage[d] = facts.outage[d]
    BY <1>2 DEF Restrict
  <2>3. /\ DOMAIN facts'.session \subseteq DOMAIN facts.session
        /\ \A d \in DOMAIN facts'.session : facts'.session[d] = facts.session[d]
    BY <1>2 DEF Restrict
  <2>4. /\ DOMAIN facts'.block \subseteq DOMAIN facts.block
        /\ \A d \in DOMAIN facts'.block : facts'.block[d] = facts.block[d]
    BY <1>2 DEF Restrict
  <2>5. facts'.filed \subseteq facts.filed
    BY <1>2
  <2> QED BY <1>5, <2>1, <2>2, <2>3, <2>4, <2>5 DEF FactsType
<1>7. ASSUME NEW u \in Worker PROVE GoodTx(u)'
  <2>1. CASE u = w
    BY <1>4, <2>1, GoodIdle
  <2>2. CASE u # w
    <3>1. GoodTx(u) /\ tx'[u] = tx[u] /\ tx[u].batch = {} /\ tx[u].todo = {} /\ tx[u].phase # "batch"
      BY <1>1, <1>3, <1>4, <2>2 DEF GoodTx
    <3>2. FactsType(tx[u].new, Held)' /\ FactsType(tx[u].doomed, Held)'
      BY <1>5, <3>1 DEF GoodTx, FactsType
    <3>3. DOMAIN tx'[u].loaded = {}
      BY <3>1 DEF GoodTx, None
    <3>4. Recorded(Written(u), tx[u].batch \ tx[u].todo)'
      BY <3>1 DEF Recorded
    <3> QED BY <1>1, <1>5, <3>1, <3>2, <3>3, <3>4 DEF GoodTx, Shaped
  <2> QED BY <2>1, <2>2
<1>8. /\ (projected \subseteq Held)' /\ Recorded(facts, projected)' /\ Apart'
  BY <1>1, <1>4 DEF Recorded, Apart, Idle
<1> QED BY <1>1, <1>4, <1>6, <1>7, <1>8 DEF IInv

LEMMA InitInv == Init => IInv
<1> SUFFICES ASSUME Init PROVE IInv
  OBVIOUS
<1>1. \A w \in Worker : tx[w] = Idle
  BY DEF Init
<1>2. FactsType(NoFacts, Held)
  BY DEF NoFacts, None, FactsType
<1>3. ASSUME NEW w \in Worker PROVE GoodTx(w)
  BY <1>1, <1>2 DEF GoodTx, Idle, Shaped, Recorded, None
<1>4. Apart /\ projected \subseteq Held /\ Recorded(facts, projected)
  BY <1>1 DEF Init, Apart, Idle, Recorded
<1>5. spent \in [fails : 0..MaxFails, replays : 0..MaxReplays]
  BY BoundsAssumption DEF Init
<1> QED BY <1>2, <1>3, <1>4, <1>5 DEF IInv, Init

LEMMA NextStep == IInv /\ [Next]_vars => IInv'
<1> SUFFICES ASSUME IInv, [Next]_vars PROVE IInv'
  OBVIOUS
<1>1. CASE UNCHANGED vars
  <2>1. Grows
    BY <1>1 DEF vars, Grows, Held, Id, IInv
  <2> QED BY <1>1, <2>1, LedgerStep DEF vars
<1>2. ASSUME NEW r \in Rig, Ingest(r) PROVE IInv'
  BY <1>2, IngestGrows, LedgerStep DEF IInv
<1>3. ASSUME NEW w \in Worker, Raises(w) \/ Fails(w) PROVE IInv'
  <2>1. Rollback(w)
    BY <1>3 DEF Raises, Fails
  <2>2. spent' \in [fails : 0..MaxFails, replays : 0..MaxReplays]
    BY <1>3, BoundsAssumption DEF Raises, Fails, IInv
  <2> QED BY <2>1, <2>2, RollbackStep
<1>4. ASSUME NEW w \in Worker, Step(w) \/ PollsEmpty(w) \/ Fails(w) \/ Wipe(w) PROVE IInv'
  <2>1. CASE PollsEmpty(w)
    BY <1>1, <2>1 DEF PollsEmpty
  <2> QED BY <1>3, <1>4, <2>1, ClaimStep, ProjectStep, CommitStep, WipeCommitsStep, WipeStep DEF Step
<1> QED BY <1>1, <1>2, <1>4 DEF Next

LEMMA Inductive == Spec => []IInv
BY InitInv, NextStep, PTL DEF Spec

(* Facts and batches speak only of rows whose ingest has committed, and    *)
(* SKIP LOCKED hands no row to two workers (project_batch).                *)
THEOREM TypeCorrect == Spec => []TypeOK
<1>1. IInv => TypeOK
  BY TypesFollow
<1> QED BY Inductive, <1>1, PTL

(* What is marked projected is in the tables, whichever batches fail and   *)
(* whichever wipes run beside them (project_batch, reset_projections).     *)
THEOREM NothingLost == Spec => []ProjectedHasFacts
<1>1. IInv => ProjectedHasFacts
  BY TypesFollow
<1> QED BY Inductive, <1>1, PTL

--------------------------------------------------------------------------
(* With no replay: what a transaction has written is of its own rows, or   *)
(* of rows that are projected.                                             *)
Rows(f) == f.filed \cup DOMAIN f.block \cup DOMAIN f.outage \cup DOMAIN f.session

Owned ==
    /\ \A w \in Worker : tx[w].phase # "wipe" /\ Rows(tx[w].new) \subseteq tx[w].batch \cup projected
    /\ Rows(facts) \subseteq projected

LEMMA OwnedStep ==
    ASSUME MaxReplays = 0, IInv, Owned, [Next]_vars
    PROVE  Owned'
<1>1. ASSUME UNCHANGED <<projected, facts, tx>> PROVE Owned'
  BY <1>1 DEF Owned, Rows
<1>2. ASSUME NEW w \in Worker, UNCHANGED <<projected, facts>>,
             \A u \in Worker \ {w} : tx'[u] = tx[u], tx'[w].phase # "wipe",
             Rows(tx'[w].new) \subseteq tx'[w].batch \cup projected
      PROVE  Owned'
  BY <1>2 DEF Owned, Rows
<1>3. ASSUME NEW w \in Worker, Claim(w) PROVE Owned'
  <2> DEFINE rows == {i \in Claimable(w) : Cardinality({j \in Claimable(w) : j < i}) < Limit}
  <2> HIDE DEF rows
  <2>1. /\ tx[w].phase = "idle" /\ UNCHANGED <<projected, facts>>
        /\ \A u \in Worker \ {w} : tx'[u] = tx[u]
        /\ tx'[w].phase = "batch" /\ tx'[w].new = tx[w].new
    <3>1. /\ tx[w].phase = "idle" /\ UNCHANGED <<projected, facts>>
          /\ \A u \in Worker \ {w} : tx'[u] = tx[u]
          /\ tx'[w] = [phase |-> "batch", batch |-> rows, todo |-> rows, new |-> tx[w].new,
                       loaded |-> tx[w].loaded, doomed |-> tx[w].doomed]
      BY <1>3, ClaimIs DEF rows
    <3> QED BY <3>1
  <2>2. Rows(tx'[w].new) = {}
    <3>1. tx[w].new = NoFacts
      BY <2>1 DEF IInv, GoodTx
    <3> QED BY <2>1, <3>1 DEF Rows, NoFacts, None
  <2> QED BY <1>2, <2>1, <2>2
<1>4. ASSUME NEW w \in Worker, Project(w) PROVE Owned'
  <2>1. PICK i, v, s : i = Min(tx[w].todo) /\ v = View(w) /\ s = Sess(v, i)
    OBVIOUS
  <2>2. /\ tx[w].phase = "batch" /\ i \in tx[w].todo
        /\ \A u \in Worker \ {w} : tx'[u] = tx[u]
        /\ tx'[w].phase = "batch" /\ tx'[w].batch = tx[w].batch
        /\ tx'[w].new = Merge(Row(v, i, s), tx[w].new)
        /\ UNCHANGED <<projected, facts>>
    BY <1>4, <2>1, ProjectIs
  <2>3. Rows(tx'[w].new) = Rows(Row(v, i, s)) \cup Rows(tx[w].new)
    BY <2>2, MergeIs DEF Rows
  <2>4. /\ Writing(v, i, s)
        /\ DOMAIN v.outage = DOMAIN tx[w].new.outage \cup DOMAIN facts.outage
        /\ DOMAIN v.session \subseteq DOMAIN tx[w].new.session \cup DOMAIN facts.session
    BY <1>4, <2>1, ProjectWrites
  <2>5. Rows(Row(v, i, s)) \subseteq {i, s} \cup DOMAIN v.outage
    <3>1. /\ Row(v, i, s).filed \subseteq {i} /\ Row(v, i, s).outage = OutageWrites(v, i)
          /\ Row(v, i, s).session = SessionWrites(v, i, s)
          /\ Row(v, i, s).block = BlockWrites(v, i, s)
      BY DEF Row
    <3> QED BY <2>4, <3>1 DEF Rows, Writing
  <2>6. i \in tx[w].batch
    BY <2>2 DEF IInv, GoodTx
  <2>7. s \in {i} \cup DOMAIN v.session
    BY <2>4 DEF Writing
  <2>8. /\ DOMAIN tx[w].new.outage \cup DOMAIN tx[w].new.session \subseteq Rows(tx[w].new)
        /\ DOMAIN facts.outage \cup DOMAIN facts.session \subseteq Rows(facts)
    BY DEF Rows
  <2>9. Rows(tx[w].new) \subseteq tx[w].batch \cup projected /\ Rows(facts) \subseteq projected
    BY DEF Owned
  <2> QED BY <1>2, <2>2, <2>3, <2>4, <2>5, <2>6, <2>7, <2>8, <2>9
<1>5. ASSUME NEW w \in Worker, Commit(w) PROVE Owned'
  <2>1. /\ facts' = Written(w) /\ projected' = projected \cup tx[w].batch
        /\ tx' = [tx EXCEPT ![w] = Idle]
    BY <1>5 DEF Commit
  <2>2. \A u \in Worker \ {w} : tx'[u] = tx[u]
    BY <2>1 DEF IInv
  <2>3. tx'[w] = Idle
    BY <2>1 DEF IInv
  <2>4. Rows(Written(w)) = Rows(tx[w].new) \cup Rows(facts)
    BY WrittenIs DEF Rows
  <2>5. Rows(facts)' \subseteq projected'
    BY <2>1, <2>4 DEF Owned, Rows
  <2>6. Rows(tx[w].new)' = {}
    BY <2>3 DEF Rows, Idle, NoFacts, None
  <2> QED BY <2>1, <2>2, <2>3, <2>5, <2>6 DEF Owned, Rows, Idle
<1>6. ASSUME NEW w \in Worker, Rollback(w) PROVE Owned'
  <2>1. \A u \in Worker \ {w} : tx'[u] = tx[u]
    BY <1>6 DEF Rollback, IInv
  <2>2. tx'[w] = Idle
    BY <1>6 DEF Rollback, IInv
  <2>3. Rows(tx'[w].new) = {} /\ tx'[w].phase # "wipe"
    BY <2>2 DEF Rows, Idle, NoFacts, None
  <2> QED BY <1>2, <1>6, <2>1, <2>3 DEF Rollback
<1>7. ASSUME NEW w \in Worker PROVE ~Wipe(w) /\ ~WipeCommits(w)
  BY DEF Wipe, WipeCommits, IInv, Owned
<1>8. ASSUME NEW r \in Rig, Ingest(r) PROVE Owned'
  BY <1>1, <1>8, IngestGrows DEF IInv
<1>9. ASSUME NEW w \in Worker, Step(w) \/ PollsEmpty(w) \/ Fails(w) \/ Wipe(w) PROVE Owned'
  <2>1. CASE PollsEmpty(w)
    BY <1>1, <2>1 DEF PollsEmpty, vars
  <2>2. CASE Raises(w) \/ Fails(w)
    BY <1>6, <2>2 DEF Raises, Fails
  <2> QED BY <1>3, <1>4, <1>5, <1>7, <1>9, <2>1, <2>2 DEF Step
<1> QED BY <1>1, <1>8, <1>9 DEF Next, vars

(* Where nobody replays, a row has its facts exactly when it is marked     *)
(* projected, however many workers run (project_batch).                    *)
THEOREM FactsCorrect == MaxReplays = 0 => (Spec => []FactsOfProjected)
<1> SUFFICES ASSUME MaxReplays = 0 PROVE Spec => []FactsOfProjected
  OBVIOUS
<1>1. Init => Owned
  BY DEF Init, Owned, Rows, Idle, NoFacts, None
<1>2. IInv /\ Owned /\ [Next]_vars => Owned'
  BY OwnedStep
<1>3. IInv /\ Owned => FactsOfProjected
  BY TypesFollow DEF Owned, Rows, FactsOfProjected
<1> QED BY Inductive, <1>1, <1>2, <1>3, PTL DEF Spec

--------------------------------------------------------------------------
(* One more row, after all that are read of its rig: project_one keeps     *)
(* the tables the reading of what has been read.                           *)
Comes(A, B) == \A i \in A, j \in B : SameRig(i, j) => j < i

LEMMA SameTurnSameRig == \A i, j : SameTurn(i, j) => SameRig(i, j)
BY DEF SameTurn, SameRig, Key, RigOf

(* The end of an interval moves only for the one that was open.            *)
LEMMA EarliestOfMore ==
    ASSUME NEW E \in SUBSET (Nat \ {0}), NEW i \in Nat \ {0}, \A j \in E : j < i
    PROVE  /\ Earliest(E) = 0 <=> E = {}
           /\ Earliest(E \cup {i}) = IF Earliest(E) = 0 THEN i ELSE Earliest(E)
<1>1. E # {} => Min(E) \in E /\ \A y \in E : Min(E) <= y
  BY Least
<1>2. Earliest(E) = 0 <=> E = {}
  BY <1>1 DEF Earliest
<1>3. CASE E = {}
  <2>1. Min({i}) = i
    BY LeastIs
  <2> QED BY <1>2, <1>3, <2>1 DEF Earliest
<1>4. CASE E # {}
  <2>1. Min(E \cup {i}) = Min(E)
    <3> DEFINE m == Min(E)
    <3>0. m \in E /\ m \in Nat /\ \A y \in E : m <= y
      BY <1>1, <1>4
    <3>1. m \in E \cup {i} /\ \A y \in E \cup {i} : m <= y
      <4> HIDE DEF m
      <4>1. m <= i
        BY <3>0
      <4> QED BY <3>0, <4>1
    <3>2. E \cup {i} \subseteq Nat
      OBVIOUS
    <3> HIDE DEF m
    <3> QED BY <3>1, <3>2, LeastIs DEF m
  <2> QED BY <1>2, <1>4, <2>1 DEF Earliest
<1> QED BY <1>2, <1>3, <1>4

LEMMA OutageMore ==
    ASSUME ledger \in Seq(RowType), NEW S, S \subseteq Id, NEW i \in Id \ S, Comes({i}, S),
           NEW v, v.outage = Reading(S).outage
    PROVE  Over(OutageWrites(v, i), v.outage) = Reading(S \cup {i}).outage
<1> DEFINE T == S \cup {i}
           K == Works \cup {"up"}
           open == OpenOutages(v, i)
<1>0. Id \subseteq Nat \ {0} /\ i \in Nat \ {0} /\ S \subseteq Nat \ {0}
  BY Ids
<1>1. \A j \in S : SameRig(i, j) => j < i
  BY DEF Comes
<1>2. v.outage = [d \in Outages(S) |-> Earliest(OutageEnds(S, d))]
  BY DEF Reading
<1>3. \A d \in S : DownBefore(T, d) <=> DownBefore(S, d)
  BY <1>0, <1>1 DEF DownBefore, SameRig
<1>4. \A d \in Outages(S) :
         OutageEnds(T, d) = OutageEnds(S, d) \cup (IF SameRig(d, i) /\ KindOf(i) \in K THEN {i} ELSE {})
  BY <1>0, <1>1 DEF OutageEnds, Outages, SameRig
<1>5. \A d \in Outages(S) : SameRig(d, i) =>
         /\ Earliest(OutageEnds(S, d)) = 0 <=> OutageEnds(S, d) = {}
         /\ Earliest(OutageEnds(S, d) \cup {i})
              = IF Earliest(OutageEnds(S, d)) = 0 THEN i ELSE Earliest(OutageEnds(S, d))
  <2> SUFFICES ASSUME NEW d \in Outages(S), SameRig(d, i)
               PROVE  /\ Earliest(OutageEnds(S, d)) = 0 <=> OutageEnds(S, d) = {}
                      /\ Earliest(OutageEnds(S, d) \cup {i})
                           = IF Earliest(OutageEnds(S, d)) = 0 THEN i ELSE Earliest(OutageEnds(S, d))
    OBVIOUS
  <2>1. OutageEnds(S, d) \in SUBSET (Nat \ {0}) /\ \A j \in OutageEnds(S, d) : j < i
    BY <1>0, <1>1 DEF OutageEnds, SameRig
  <2> QED BY <1>0, <2>1, EarliestOfMore
<1>6. open = {d \in Outages(S) : SameRig(d, i) /\ OutageEnds(S, d) = {}}
  BY <1>2, <1>5 DEF OpenOutages, SameRig
<1>7. \A d, e \in open : d = e
  <2>1. ASSUME NEW d \in open, NEW e \in open, d < e PROVE FALSE
    <3>1. /\ d \in S /\ e \in S /\ SameRig(d, e) /\ KindOf(d) = "down"
          /\ ~DownBefore(S, e) /\ OutageEnds(S, d) = {}
      BY <1>6 DEF Outages, SameRig
    <3>2. PICK c \in S : d < c /\ c < e /\ SameRig(c, e) /\ KindOf(c) \in K
      BY <2>1, <3>1 DEF DownBefore
    <3>3. c \in OutageEnds(S, d)
      BY <1>0, <3>1, <3>2 DEF OutageEnds, SameRig
    <3> QED BY <3>1, <3>3
  <2>2. open \subseteq Nat
    BY <1>0, <1>6 DEF Outages
  <2> HIDE DEF open
  <2>3. ASSUME NEW d \in open, NEW e \in open PROVE d < e \/ d = e \/ e < d
    <3>1. d \in Nat /\ e \in Nat
      BY <2>2
    <3> QED BY <3>1
  <2> QED BY <2>1, <2>3
<1>8. DownBefore(T, i) <=> open # {}
  <2>1. ASSUME open # {} PROVE DownBefore(T, i)
    <3>1. PICK d \in open : TRUE
      BY <2>1
    <3>2. d \in S /\ SameRig(d, i) /\ KindOf(d) = "down" /\ OutageEnds(S, d) = {}
      BY <1>6 DEF Outages
    <3>3. d < i
      BY <1>1, <3>2 DEF SameRig
    <3>4. ASSUME NEW c \in T, d < c, c < i, SameRig(c, i) PROVE KindOf(c) \notin K
      <4>1. c \in S /\ c >= d /\ SameRig(d, c)
        BY <1>0, <3>2, <3>4 DEF SameRig
      <4>2. c \notin OutageEnds(S, d)
        BY <3>2
      <4> QED BY <4>1, <4>2 DEF OutageEnds
    <3> QED BY <3>2, <3>3, <3>4 DEF DownBefore
  <2>2. ASSUME DownBefore(T, i) PROVE open # {}
    <3> DEFINE D == {d \in S : /\ d < i /\ SameRig(d, i) /\ KindOf(d) = "down"
                               /\ \A c \in S : d < c /\ c < i /\ SameRig(c, i) => KindOf(c) \notin K}
    <3>1. D # {} /\ D \subseteq Nat
      <4>1. PICK d \in T : /\ d < i /\ SameRig(d, i) /\ KindOf(d) = "down"
                           /\ \A c \in T : d < c /\ c < i /\ SameRig(c, i) => KindOf(c) \notin K
        BY <2>2 DEF DownBefore
      <4>2. d \in S
        BY <1>0, <4>1
      <4>3. d \in D
        BY <4>1, <4>2
      <4> QED BY <1>0, <4>3
    <3>2. Min(D) \in D /\ \A d \in D : Min(D) <= d
      BY <3>1, Least
    <3>3. PICK d \in D : \A e \in D : d <= e
      BY <3>2
    <3>4. ~DownBefore(S, d)
      <4> SUFFICES ASSUME NEW e \in S, e < d, SameRig(e, d), KindOf(e) = "down",
                          \A c \in S : e < c /\ c < d /\ SameRig(c, d) => KindOf(c) \notin K
                   PROVE  FALSE
        BY DEF DownBefore
      <4>1. SameRig(e, i) /\ e < i
        BY <1>0, <3>3 DEF SameRig
      <4>2. \A c \in S : e < c /\ c < i /\ SameRig(c, i) => KindOf(c) \notin K
        BY <1>0, <3>3 DEF SameRig, Works
      <4>3. e \in D
        BY <4>1, <4>2
      <4> QED BY <1>0, <3>3, <4>3
    <3>5. OutageEnds(S, d) = {}
      <4> SUFFICES ASSUME NEW j \in S, j >= d, SameRig(d, j), KindOf(j) \in K PROVE FALSE
        BY DEF OutageEnds
      <4>1. j # d /\ SameRig(j, i) /\ SameRig(i, j)
        BY <3>3 DEF SameRig, Works
      <4>2. d < j /\ j < i
        BY <1>0, <1>1, <4>1
      <4> QED BY <3>3, <4>1, <4>2
    <3> QED BY <1>6, <3>3, <3>4, <3>5 DEF Outages
  <2> QED BY <2>1, <2>2
<1>9. Outages(T) = Outages(S) \cup (IF KindOf(i) = "down" /\ open = {} THEN {i} ELSE {})
  BY <1>3, <1>8 DEF Outages
<1>10. open # {} => open = {Max(open)}
  <2>1. open \subseteq 1 .. Len(ledger)
    BY <1>6, Ids DEF Outages
  <2>2. Len(ledger) \in Nat
    BY Ids
  <2> HIDE DEF open
  <2> QED BY <1>7, <2>1, <2>2, Greatest
<1>11. /\ DOMAIN OutageWrites(v, i)
             = IF KindOf(i) \in K THEN open ELSE IF KindOf(i) = "down" /\ open = {} THEN {i} ELSE {}
       /\ \A d \in DOMAIN OutageWrites(v, i) : OutageWrites(v, i)[d] = IF d \in open THEN i ELSE 0
  <2>1. KindOf(i) \in K => KindOf(i) # "down"
    BY DEF Works
  <2>2. i \notin open
    BY <1>6 DEF Outages
  <2> HIDE DEF open
  <2> QED BY <1>10, <2>1, <2>2 DEF OutageWrites, Only, None, open
<1>12. Reading(T).outage = [d \in Outages(T) |-> Earliest(OutageEnds(T, d))]
  BY DEF Reading
<1>13. Outages(T) = DOMAIN OutageWrites(v, i) \cup Outages(S)
  <2>1. open \subseteq Outages(S)
    BY <1>6
  <2>2. KindOf(i) \in K => KindOf(i) # "down"
    BY DEF Works
  <2> HIDE DEF open
  <2> QED BY <1>9, <1>11, <2>1, <2>2
<1>14. ASSUME NEW d \in Outages(T)
       PROVE  Earliest(OutageEnds(T, d))
                = IF d \in DOMAIN OutageWrites(v, i) THEN OutageWrites(v, i)[d] ELSE v.outage[d]
  <2>1. CASE d \in Outages(S) /\ SameRig(d, i) /\ KindOf(i) \in K
    BY <1>2, <1>4, <1>5, <1>6, <1>11, <2>1
  <2>2. CASE d \in Outages(S) /\ ~(SameRig(d, i) /\ KindOf(i) \in K)
    <3>1. OutageEnds(T, d) = OutageEnds(S, d)
      BY <1>4, <2>2
    <3>2. d \notin DOMAIN OutageWrites(v, i)
      <4>1. d # i
        BY <2>2 DEF Outages
      <4>2. KindOf(i) \in K => d \notin open
        BY <1>6, <2>2
      <4> HIDE DEF open, K
      <4> QED BY <1>11, <4>1, <4>2
    <3>3. v.outage[d] = Earliest(OutageEnds(S, d))
      BY <1>2, <2>2
    <3> QED BY <3>1, <3>2, <3>3
  <2>3. CASE d \notin Outages(S)
    <3>1. d = i /\ KindOf(i) = "down" /\ open = {}
      BY <1>9, <2>3
    <3>2. OutageEnds(T, i) = {}
      <4> SUFFICES ASSUME NEW j \in T, j >= i, SameRig(i, j), KindOf(j) \in K PROVE FALSE
        BY DEF OutageEnds
      <4>1. j \in S
        BY <3>1 DEF Works
      <4>2. j < i /\ j \in Nat
        BY <1>0, <1>1, <4>1
      <4> QED BY <1>0, <4>2
    <3> QED BY <1>11, <3>1, <3>2 DEF Earliest, Works
  <2> QED BY <2>1, <2>2, <2>3
<1>15. v.outage = [d \in Outages(S) |-> v.outage[d]] /\ DOMAIN v.outage = Outages(S)
  BY <1>2
<1> QED BY <1>12, <1>13, <1>14, <1>15 DEF Over

(* The first row of a turn.                                                *)
FirstOf(T, i, s) == s \in T /\ SameTurn(i, s) /\ \A j \in T : SameTurn(i, j) => s <= j

LEMMA SessionMore ==
    ASSUME ledger \in Seq(RowType), NEW S, S \subseteq Id, NEW i \in Id \ S, Comes({i}, S),
           NEW v, v.session = Reading(S).session, NEW s, s = Sess(v, i)
    PROVE  /\ Over(SessionWrites(v, i, s), v.session) = Reading(S \cup {i}).session
           /\ FirstOf(S \cup {i}, i, s)
<1> DEFINE T == S \cup {i}
           K == {"stint", "ended"}
<1>0. Id \subseteq Nat \ {0} /\ i \in Nat \ {0} /\ S \subseteq Nat \ {0}
  BY Ids
<1>1. \A j \in S : SameTurn(i, j) => j < i
  BY SameTurnSameRig DEF Comes
<1>2. v.session = [x \in Sessions(S) |-> Earliest(SessionEnds(S, x))]
  BY DEF Reading
<1>3. SessionsOf(v, i) = {x \in Sessions(S) : SameTurn(x, i)}
  BY <1>2 DEF SessionsOf, SameTurn
<1>4. SessionsOf(v, i) # {} =>
         /\ s \in Sessions(S) /\ SameTurn(s, i) /\ SessionsOf(v, i) = {s}
         /\ \A j \in S : SameTurn(i, j) => s <= j
  <2> SUFFICES ASSUME SessionsOf(v, i) # {}
               PROVE  /\ s \in Sessions(S) /\ SameTurn(s, i) /\ SessionsOf(v, i) = {s}
                      /\ \A j \in S : SameTurn(i, j) => s <= j
    OBVIOUS
  <2>1. SessionsOf(v, i) \subseteq 1 .. Len(ledger) /\ Len(ledger) \in Nat
    BY <1>3, Ids DEF Sessions
  <2>2. s \in SessionsOf(v, i)
    BY <2>1, Greatest DEF Sess
  <2>3. s \in S /\ s \in Sessions(S) /\ SameTurn(s, i)
    BY <1>3, <2>2 DEF Sessions
  <2>4. ASSUME NEW j \in S, SameTurn(i, j) PROVE s <= j
    <3>1. SameTurn(s, j)
      BY <2>3, <2>4 DEF SameTurn
    <3>2. ~(j < s)
      BY <2>3, <3>1 DEF Sessions
    <3> QED BY <1>0, <2>3, <3>2
  <2>5. ASSUME NEW x \in SessionsOf(v, i) PROVE x = s
    <3>1. x \in S /\ x \in Sessions(S) /\ SameTurn(x, i)
      BY <1>3 DEF Sessions
    <3>2. SameTurn(x, s) /\ SameTurn(i, x)
      BY <2>3, <3>1 DEF SameTurn
    <3>3. ~(s < x) /\ s <= x
      BY <2>3, <2>4, <3>1, <3>2 DEF Sessions
    <3> QED BY <1>0, <2>3, <3>1, <3>3
  <2> QED BY <2>2, <2>3, <2>4, <2>5
<1>5. SessionsOf(v, i) = {} => s = i /\ \A j \in S : ~SameTurn(i, j)
  <2> SUFFICES ASSUME SessionsOf(v, i) = {}, NEW j \in S, SameTurn(i, j) PROVE FALSE
    BY DEF Sess
  <2> DEFINE D == {x \in S : SameTurn(i, x)}
  <2>1. D # {} /\ D \subseteq Nat
    BY <1>0
  <2>2. Min(D) \in D /\ \A x \in D : Min(D) <= x
    BY <2>1, Least
  <2>3. PICK m \in D : \A x \in D : m <= x
    BY <2>2
  <2>4. ASSUME NEW x \in S, x < m PROVE ~SameTurn(m, x)
    <3>1. x \notin D
      BY <1>0, <2>3, <2>4
    <3> QED BY <3>1 DEF SameTurn
  <2>5. m \in Sessions(S) /\ SameTurn(m, i)
    BY <2>4 DEF Sessions, SameTurn
  <2> QED BY <1>3, <2>5
<1>6. Sessions(T) = Sessions(S) \cup {s}
  <2>1. ASSUME NEW x \in S PROVE x \in Sessions(T) <=> x \in Sessions(S)
    <3>1. ~(i < x /\ SameTurn(x, i))
      BY <1>0, <1>1 DEF SameTurn
    <3> QED BY <3>1 DEF Sessions
  <2>2. i \in Sessions(T) <=> \A j \in S : ~SameTurn(i, j)
    BY <1>0, <1>1 DEF Sessions
  <2>3. CASE SessionsOf(v, i) = {}
    BY <1>5, <2>1, <2>2, <2>3 DEF Sessions
  <2>4. CASE SessionsOf(v, i) # {}
    <3>1. \E j \in S : SameTurn(i, j)
      BY <1>4, <2>4 DEF SameTurn, Sessions
    <3> QED BY <1>4, <2>1, <2>2, <2>4, <3>1 DEF Sessions
  <2> QED BY <2>3, <2>4
<1>7. /\ s \in T /\ SameTurn(i, s)
      /\ \A j \in T : SameTurn(i, j) => s <= j
  <2>1. CASE SessionsOf(v, i) = {}
    BY <1>0, <1>5, <2>1 DEF SameTurn
  <2>2. CASE SessionsOf(v, i) # {}
    <3>1. s \in S /\ SameTurn(i, s) /\ s < i
      BY <1>1, <1>4, <2>2 DEF Sessions, SameTurn
    <3> QED BY <1>0, <1>4, <2>2, <3>1
  <2> QED BY <2>1, <2>2
<1>8. /\ DOMAIN SessionWrites(v, i, s)
            = IF s \notin DOMAIN v.session \/ (KindOf(i) \in K /\ v.session[s] = 0) THEN {s} ELSE {}
      /\ \A x \in DOMAIN SessionWrites(v, i, s) :
            SessionWrites(v, i, s)[x] = IF KindOf(i) \in K THEN i ELSE 0
  BY DEF SessionWrites, Only, None
<1>9. ASSUME NEW x \in Sessions(S), ~SameTurn(x, i)
      PROVE  x # s /\ SessionEnds(T, x) = SessionEnds(S, x)
  BY <1>7, <1>9 DEF SameTurn, SessionEnds
<1>10. ASSUME SessionsOf(v, i) # {}
       PROVE  Earliest(SessionEnds(T, s)) = IF KindOf(i) \in K /\ v.session[s] = 0 THEN i ELSE v.session[s]
  <2>1. s \in Sessions(S) /\ SameTurn(s, i) /\ v.session[s] = Earliest(SessionEnds(S, s)) /\ s < i
    BY <1>1, <1>2, <1>4, <1>10 DEF SameTurn, Sessions
  <2>2. SessionEnds(T, s) = SessionEnds(S, s) \cup (IF KindOf(i) \in K THEN {i} ELSE {})
    <3>1. i \in SessionEnds(T, s) <=> KindOf(i) \in K
      <4>1. i \in Nat /\ s \in Nat /\ i >= s
        <5>1. s \in S
          BY <2>1 DEF Sessions
        <5>2. i \in Nat /\ s \in Nat /\ s < i
          BY <1>0, <2>1, <5>1
        <5> HIDE DEF T, K
        <5> QED BY ONLY <5>2
      <4> QED BY <2>1, <4>1 DEF SessionEnds
    <3>2. \A j \in S : j \in SessionEnds(T, s) <=> j \in SessionEnds(S, s)
      BY DEF SessionEnds
    <3>3. SessionEnds(T, s) \subseteq T /\ SessionEnds(S, s) \subseteq S
      BY DEF SessionEnds
    <3> HIDE DEF K
    <3> QED BY <3>1, <3>2, <3>3
  <2>3. SessionEnds(S, s) \in SUBSET (Nat \ {0}) /\ \A j \in SessionEnds(S, s) : j < i
    BY <1>0, <1>1, <2>1 DEF SessionEnds, SameTurn
  <2>4. /\ Earliest(SessionEnds(S, s) \cup {i})
              = IF Earliest(SessionEnds(S, s)) = 0 THEN i ELSE Earliest(SessionEnds(S, s))
    BY <1>0, <2>3, EarliestOfMore
  <2> QED BY <2>1, <2>2, <2>4
<1>11. ASSUME SessionsOf(v, i) = {}
       PROVE  /\ s = i /\ s \notin Sessions(S)
              /\ Earliest(SessionEnds(T, s)) = IF KindOf(i) \in K THEN i ELSE 0
  <2>1. s = i /\ \A j \in S : ~SameTurn(i, j)
    BY <1>5, <1>11
  <2>2. SessionEnds(T, i) = IF KindOf(i) \in K THEN {i} ELSE {}
    <3>1. i \in SessionEnds(T, i) <=> KindOf(i) \in K
      BY <1>0 DEF SessionEnds, SameTurn
    <3>2. \A j \in S : j \notin SessionEnds(T, i)
      BY <2>1 DEF SessionEnds
    <3>3. SessionEnds(T, i) \subseteq T
      BY DEF SessionEnds
    <3> HIDE DEF K
    <3> QED BY <3>1, <3>2, <3>3
  <2>3. Min({i}) = i
    BY <1>0, LeastOfOne
  <2>4. s \notin Sessions(S)
    BY <2>1 DEF Sessions
  <2> QED BY <2>1, <2>2, <2>3, <2>4 DEF Earliest
<1>12. ASSUME NEW x \in Sessions(T)
       PROVE  Earliest(SessionEnds(T, x))
                = IF x \in DOMAIN SessionWrites(v, i, s) THEN SessionWrites(v, i, s)[x] ELSE v.session[x]
  <2>1. CASE x = s /\ SessionsOf(v, i) # {}
    <3>1. s \in DOMAIN v.session
      BY <1>2, <1>4, <2>1
    <3> QED BY <1>8, <1>10, <2>1, <3>1
  <2>2. CASE x = s /\ SessionsOf(v, i) = {}
    <3>1. s \notin DOMAIN v.session
      BY <1>2, <1>11, <2>2
    <3> QED BY <1>8, <1>11, <2>2, <3>1
  <2>3. CASE x # s
    <3>1. x \in Sessions(S)
      BY <1>6, <2>3
    <3>2. ~SameTurn(x, i)
      <4>1. ASSUME SameTurn(x, i) PROVE FALSE
        <5>1. x \in SessionsOf(v, i)
          BY <1>3, <3>1, <4>1
        <5> QED BY <1>4, <2>3, <5>1
      <4> QED BY <4>1
    <3>3. x \notin DOMAIN SessionWrites(v, i, s)
      BY <1>8, <2>3
    <3> QED BY <1>2, <1>9, <3>1, <3>2, <3>3
  <2> QED BY <2>1, <2>2, <2>3
<1>13. Sessions(T) = DOMAIN SessionWrites(v, i, s) \cup Sessions(S)
  <2>1. DOMAIN v.session = Sessions(S)
    BY <1>2
  <2> QED BY <1>6, <1>8, <2>1
<1>14. Reading(T).session = [x \in Sessions(T) |-> Earliest(SessionEnds(T, x))]
  BY <1>2 DEF Reading
<1>15. DOMAIN v.session = Sessions(S)
  BY <1>2
<1>16. Over(SessionWrites(v, i, s), v.session) = Reading(T).session
  BY <1>12, <1>13, <1>14, <1>15 DEF Over
<1> QED BY <1>7, <1>16 DEF FirstOf

LEMMA BlockMore ==
    ASSUME ledger \in Seq(RowType), NEW S, S \subseteq Id, NEW i \in Id \ S, Comes({i}, S),
           NEW v, v.filed = Reading(S).filed, v.block = Reading(S).block,
           NEW s, FirstOf(S \cup {i}, i, s)
    PROVE  Over(BlockWrites(v, i, s), v.block) = Reading(S \cup {i}).block
<1> DEFINE T == S \cup {i}
<1> USE DEF FirstOf
<1>0. Id \subseteq Nat \ {0} /\ i \in Nat \ {0} /\ S \subseteq Nat \ {0} /\ s \in Nat
  BY Ids
<1>1. \A j \in S : SameTurn(i, j) => j < i
  BY SameTurnSameRig DEF Comes
<1>2. /\ v.block = [b \in {j \in S : KindOf(j) = "stint"} |-> BlockOf(S, b)]
      /\ v.filed = {j \in S : KindOf(j) \in Filed}
      /\ Reading(T).block = [b \in {j \in T : KindOf(j) = "stint"} |-> BlockOf(T, b)]
  BY DEF Reading
<1>3. ASSUME NEW b \in S PROVE BlockOf(T, b) = BlockOf(S, b)
  <2>1. Min({j \in T : SameTurn(b, j)}) = Min({j \in S : SameTurn(b, j)})
    <3> DEFINE D == {j \in S : SameTurn(b, j)}
    <3>1. b \in D /\ D \subseteq Nat
      BY <1>0 DEF SameTurn
    <3>2. Min(D) \in D /\ \A y \in D : Min(D) <= y
      BY <3>1, Least
    <3>3. PICK m \in D : m = Min(D) /\ \A y \in D : m <= y
      BY <3>2
    <3>4. CASE SameTurn(b, i)
      <4>1. b < i
        BY <1>1, <3>4 DEF SameTurn
      <4>2. m <= b /\ m \in Nat
        BY <3>1, <3>3
      <4>3. {j \in T : SameTurn(b, j)} = D \cup {i}
        BY <3>4
      <4>4. m \in D \cup {i} /\ D \cup {i} \subseteq Nat /\ \A y \in D \cup {i} : m <= y
        <5>1. m <= i
          BY <1>0, <4>1, <4>2
        <5>2. m \in D /\ D \subseteq Nat /\ \A y \in D : m <= y
          BY <3>1, <3>3
        <5> HIDE DEF D
        <5> QED BY <1>0, <5>1, <5>2
      <4> HIDE DEF D
      <4>5. Min(D \cup {i}) = m
        BY <4>4, LeastIs
      <4> QED BY <3>3, <4>3, <4>5 DEF D
    <3>5. CASE ~SameTurn(b, i)
      <4>1. {j \in T : SameTurn(b, j)} = D
        BY <3>5
      <4> QED BY <4>1
    <3> QED BY <3>4, <3>5
  <2>2. {j \in T : j < b /\ SameTurn(b, j) /\ KindOf(j) = "saved"}
          = {j \in S : j < b /\ SameTurn(b, j) /\ KindOf(j) = "saved"}
    <3>1. ~(i < b /\ SameTurn(b, i))
      BY <1>0, <1>1 DEF SameTurn
    <3> QED BY <3>1
  <2> QED BY <2>1, <2>2 DEF BlockOf
<1>4. KindOf(i) = "stint" =>
         BlockOf(T, i) = [since |-> s, episodes |-> Cardinality({j \in v.filed : /\ Key(j) = Key(i)
                                                                   /\ KindOf(j) = "saved"})]
  <2>1. Min({j \in T : SameTurn(i, j)}) = s
    <3> DEFINE D == {j \in T : SameTurn(i, j)}
    <3>1. D \subseteq Nat /\ s \in D /\ \A j \in D : s <= j
      BY <1>0
    <3> HIDE DEF D
    <3>2. Min(D) = s
      BY <3>1, LeastIs
    <3> QED BY <3>2 DEF D
  <2>2. {j \in T : j < i /\ SameTurn(i, j) /\ KindOf(j) = "saved"}
          = {j \in v.filed : Key(j) = Key(i) /\ KindOf(j) = "saved"}
    <3> DEFINE A == {j \in T : j < i /\ SameTurn(i, j) /\ KindOf(j) = "saved"}
               B == {j \in v.filed : Key(j) = Key(i) /\ KindOf(j) = "saved"}
    <3>1. \A j \in A : j \in B
      BY <1>0, <1>2 DEF SameTurn, Filed
    <3>2. \A j \in B : j \in A
      BY <1>0, <1>1, <1>2 DEF SameTurn
    <3> QED BY <3>1, <3>2
  <2> QED BY <2>1, <2>2 DEF BlockOf
<1>5. /\ DOMAIN BlockWrites(v, i, s) = IF KindOf(i) = "stint" THEN {i} ELSE {}
      /\ KindOf(i) = "stint" => BlockWrites(v, i, s)[i] = BlockOf(T, i)
  BY <1>4 DEF BlockWrites, Only, None
<1>6. /\ DOMAIN v.block = {j \in S : KindOf(j) = "stint"}
      /\ {j \in T : KindOf(j) = "stint"} = DOMAIN BlockWrites(v, i, s) \cup DOMAIN v.block
  BY <1>2, <1>5
<1>7. ASSUME NEW b \in {j \in T : KindOf(j) = "stint"}
      PROVE  BlockOf(T, b) = IF b \in DOMAIN BlockWrites(v, i, s) THEN BlockWrites(v, i, s)[b]
                             ELSE v.block[b]
  <2>1. CASE b = i
    BY <1>5, <2>1
  <2>2. CASE b # i
    <3>1. b \in S /\ b \notin DOMAIN BlockWrites(v, i, s)
      BY <1>5, <2>2
    <3>2. v.block[b] = BlockOf(S, b)
      BY <1>2, <3>1
    <3> QED BY <1>3, <3>1, <3>2
  <2> QED BY <2>1, <2>2
<1> QED BY <1>2, <1>6, <1>7 DEF Over

LEMMA ReadsOneMore ==
    ASSUME ledger \in Seq(RowType), NEW S, S \subseteq Id, NEW i \in Id \ S, Comes({i}, S),
           NEW v, v = Reading(S), NEW s, s = Sess(v, i)
    PROVE  Merge(Row(v, i, s), v) = Reading(S \cup {i})
<1>1. Over(OutageWrites(v, i), v.outage) = Reading(S \cup {i}).outage
  BY OutageMore
<1>2. /\ Over(SessionWrites(v, i, s), v.session) = Reading(S \cup {i}).session
      /\ FirstOf(S \cup {i}, i, s)
  <2>1. v.session = Reading(S).session
    OBVIOUS
  <2> QED BY <2>1, SessionMore
<1>3. Over(BlockWrites(v, i, s), v.block) = Reading(S \cup {i}).block
  BY <1>2, BlockMore
<1>4. (IF KindOf(i) \in Filed THEN {i} ELSE {}) \cup v.filed = Reading(S \cup {i}).filed
  BY DEF Reading
<1>5. Reading(S \cup {i}) = [filed |-> Reading(S \cup {i}).filed, outage |-> Reading(S \cup {i}).outage,
                            session |-> Reading(S \cup {i}).session, block |-> Reading(S \cup {i}).block]
  BY DEF Reading
<1> QED BY <1>1, <1>2, <1>3, <1>4, <1>5 DEF Merge, Row

--------------------------------------------------------------------------
(* One worker: it claims the lowest rows there are, and no rig's rows come *)
(* to be seen out of order.                                                *)
InOrder ==
    \A i, j \in Id : SameRig(i, j) /\ ledger[i].at = "held" /\ ledger[j].at = "open" => i < j

Done(w) == projected \cup (tx[w].batch \ tx[w].todo)

LoadedAsIs(w) ==
    \A s \in DOMAIN tx[w].loaded :
       \/ s \in DOMAIN tx[w].new.session
       \/ s \in DOMAIN facts.session /\ tx[w].loaded[s] = facts.session[s]

ReadInOrder(w) ==
    /\ InOrder
    /\ Comes(Held \ projected, projected)
    /\ Comes(Held \ (projected \cup tx[w].batch), tx[w].batch)
    /\ Comes(tx[w].todo, tx[w].batch \ tx[w].todo)
    /\ facts = Reading(projected)
    /\ Written(w) = Reading(Done(w))
    /\ LoadedAsIs(w)
    /\ tx[w].phase = "wipe" => tx[w].doomed = facts

LEMMA OverNothing == ASSUME NEW f, f = [x \in DOMAIN f |-> f[x]] PROVE Over(None, f) = f
BY DEF Over, None

Tables(R) ==
    /\ R.outage = [x \in DOMAIN R.outage |-> R.outage[x]]
    /\ R.session = [x \in DOMAIN R.session |-> R.session[x]]
    /\ R.block = [x \in DOMAIN R.block |-> R.block[x]]
    /\ R = [filed |-> R.filed, outage |-> R.outage, session |-> R.session, block |-> R.block]

LEMMA MergeNothing == ASSUME NEW R, Tables(R) PROVE Merge(NoFacts, R) = R
<1>1. /\ Over(None, R.outage) = R.outage /\ Over(None, R.session) = R.session
      /\ Over(None, R.block) = R.block
  BY OverNothing DEF Tables
<1> QED BY <1>1 DEF Merge, NoFacts, Tables

LEMMA MergeMerge ==
    ASSUME NEW f, NEW g, NEW h
    PROVE  Merge(Merge(f, g), h) = Merge(f, Merge(g, h))
<1>1. /\ Over(Over(f.outage, g.outage), h.outage) = Over(f.outage, Over(g.outage, h.outage))
      /\ Over(Over(f.session, g.session), h.session) = Over(f.session, Over(g.session, h.session))
      /\ Over(Over(f.block, g.block), h.block) = Over(f.block, Over(g.block, h.block))
  BY OverOver
<1>2. (f.filed \cup g.filed) \cup h.filed = f.filed \cup (g.filed \cup h.filed)
  OBVIOUS
<1> QED BY <1>1, <1>2 DEF Merge

(* A session loaded is the session as it is, for who works alone.          *)
LEMMA ViewIsWritten ==
    ASSUME IInv, NEW w \in Worker, LoadedAsIs(w)
    PROVE  View(w) = Written(w)
<1>1. DOMAIN tx[w].loaded \subseteq DOMAIN tx[w].new.session \cup DOMAIN facts.session
  BY DEF IInv, GoodTx
<1>2. Over(tx[w].new.session, Over(tx[w].loaded, facts.session)) = Over(tx[w].new.session, facts.session)
  BY <1>1 DEF LoadedAsIs, Over
<1> QED BY <1>2 DEF View, Written

LEMMA IdleReads ==
    ASSUME NEW w \in Worker, (facts = Reading(projected))', tx'[w] = Idle
    PROVE  /\ (Written(w) = Reading(Done(w)))' /\ LoadedAsIs(w)'
           /\ Comes(tx[w].todo, tx[w].batch \ tx[w].todo)'
           /\ tx'[w].phase # "wipe" /\ tx'[w].batch = {}
<1>1. tx'[w].new = NoFacts /\ tx'[w].batch = {} /\ tx'[w].todo = {} /\ tx'[w].loaded = None
  BY DEF Idle
<1>2. Written(w)' = Merge(NoFacts, facts')
  BY <1>1 DEF Written, Merge
<1>3. Done(w)' = projected'
  BY <1>1 DEF Done
<1>4. Merge(NoFacts, facts') = facts'
  <2>1. Tables(facts')
    BY DEF Reading, Tables
  <2> QED BY <2>1, MergeNothing
<1> QED BY <1>1, <1>2, <1>3, <1>4 DEF LoadedAsIs, Comes, None, Idle

(* Ingest keeps each rig in order: what comes to be held is after all of   *)
(* its rig that were, and after it everything still open.                  *)
LEMMA IngestInOrder ==
    ASSUME ledger \in Seq(RowType), InOrder, NEW r \in Rig, Ingest(r)
    PROVE  /\ InOrder'
           /\ \A i \in Held' \ Held, j \in Held : SameRig(i, j)' => j < i
<1>0. Len(ledger) \in Nat /\ Id = 1 .. Len(ledger) /\ \A i \in Id : ledger[i] \in RowType
  BY Ids
<1>1. ASSUME NEW f \in Filing, Insert(r, f[1], f[2])
      PROVE  InOrder' /\ Held' = Held
  <2> DEFINE row == [rig |-> r, kind |-> f[1], turn |-> f[2], at |-> "open"]
  <2>1. row \in RowType
    BY FilingAssumption DEF RowType
  <2>2. ledger' = Append(ledger, row) /\ row.at = "open"
    BY <1>1 DEF Insert
  <2> HIDE DEF row
  <2>3. /\ Len(ledger') = Len(ledger) + 1 /\ DOMAIN ledger' = 1 .. Len(ledger) + 1
        /\ \A i \in 1 .. Len(ledger) : ledger'[i] = ledger[i]
        /\ ledger'[Len(ledger) + 1].at = "open"
    BY <2>1, <2>2
  <2>4. Id' = Id \cup {Len(ledger) + 1}
    BY <1>0, <2>3 DEF Id
  <2>5. ASSUME NEW i \in Id', NEW j \in Id', SameRig(i, j)', ledger'[i].at = "held", ledger'[j].at = "open"
        PROVE  i < j
    <3>1. i \in Id
      BY <2>3, <2>4, <2>5
    <3>2. CASE j \in Id
      BY <1>0, <2>3, <2>5, <3>1, <3>2 DEF InOrder, SameRig, RigOf
    <3>3. CASE j = Len(ledger) + 1
      BY <1>0, <3>1, <3>3
    <3> QED BY <2>4, <3>2, <3>3
  <2>6. Held' = Held
    BY <1>0, <2>3, <2>4 DEF Held
  <2> QED BY <2>5, <2>6 DEF InOrder
<1>2. ASSUME NEW outcome \in {"held", "gone"}, Settle(r, outcome)
      PROVE  /\ InOrder'
             /\ \A i \in Held' \ Held, j \in Held : SameRig(i, j)' => j < i
  <2>1. /\ Id' = Id
        /\ \A i \in Id : /\ ledger'[i].rig = ledger[i].rig
                         /\ RigOf(i) = r /\ ledger[i].at = "open" => ledger'[i].at = outcome
                         /\ ~(RigOf(i) = r /\ ledger[i].at = "open") => ledger'[i].at = ledger[i].at
    BY <1>0, <1>2 DEF Settle, Id, Ingesting, RowType
  <2>2. \A i, j \in Id : SameRig(i, j)' <=> SameRig(i, j)
    BY <2>1 DEF SameRig, RigOf
  <2>3. ASSUME NEW i \in Id, NEW j \in Id, SameRig(i, j), ledger'[i].at = "held", ledger'[j].at = "open"
        PROVE  i < j
    <3>1. ledger[j].at = "open" /\ RigOf(j) # r
      BY <2>1, <2>3
    <3>2. ledger[i].at = "held"
      BY <2>1, <2>3, <3>1 DEF SameRig
    <3> QED BY <2>3, <3>1, <3>2 DEF InOrder
  <2>4. ASSUME NEW i \in Held' \ Held, NEW j \in Held, SameRig(i, j)'
        PROVE  j < i
    <3>1. i \in Id /\ j \in Id /\ SameRig(j, i) /\ ledger[i].at = "open" /\ ledger[j].at = "held"
      BY <2>1, <2>2, <2>4 DEF Held, SameRig
    <3> QED BY <3>1 DEF InOrder
  <2> QED BY <2>1, <2>2, <2>3, <2>4 DEF InOrder
<1> QED BY <1>1, <1>2 DEF Ingest, IngestCommits, IngestFails

(* What a set of rows says does not move with the rows that come.          *)
LEMMA ReadingStays ==
    ASSUME ledger \in Seq(RowType), Grows, NEW S, S \subseteq Id
    PROVE  Reading(S)' = Reading(S)
<1>1. \A i \in S : KindOf(i)' = KindOf(i)
  BY DEF Grows, KindOf
<1>2. \A i, j \in S : (SameRig(i, j)' <=> SameRig(i, j)) /\ (SameTurn(i, j)' <=> SameTurn(i, j))
  BY DEF Grows, SameRig, RigOf, SameTurn, Key
<1>3. \A i \in S : DownBefore(S, i)' <=> DownBefore(S, i)
  BY <1>1, <1>2 DEF DownBefore
<1>4. Outages(S)' = Outages(S)
  BY <1>1, <1>3 DEF Outages
<1>5. Sessions(S)' = Sessions(S)
  BY <1>2 DEF Sessions
<1>6. ASSUME NEW d \in S PROVE OutageEnds(S, d)' = OutageEnds(S, d) /\ SessionEnds(S, d)' = SessionEnds(S, d)
  BY <1>1, <1>2 DEF OutageEnds, SessionEnds
<1>7. ASSUME NEW b \in S PROVE BlockOf(S, b)' = BlockOf(S, b)
  <2>1. {j \in S : SameTurn(b, j)}' = {j \in S : SameTurn(b, j)}
    BY <1>2
  <2>2. {j \in S : j < b /\ SameTurn(b, j) /\ KindOf(j) = "saved"}'
          = {j \in S : j < b /\ SameTurn(b, j) /\ KindOf(j) = "saved"}
    BY <1>1, <1>2
  <2> QED BY <2>1, <2>2 DEF BlockOf
<1>8. Outages(S) \subseteq S /\ Sessions(S) \subseteq S
  BY DEF Outages, Sessions
<1>9. /\ [d \in Outages(S) |-> Earliest(OutageEnds(S, d))]' = [d \in Outages(S) |-> Earliest(OutageEnds(S, d))]
      /\ [x \in Sessions(S) |-> Earliest(SessionEnds(S, x))]' = [x \in Sessions(S) |-> Earliest(SessionEnds(S, x))]
  BY <1>4, <1>5, <1>6, <1>8
<1>10. {i \in S : KindOf(i) = "stint"}' = {i \in S : KindOf(i) = "stint"}
  BY <1>1
<1>11. [b \in {i \in S : KindOf(i) = "stint"} |-> BlockOf(S, b)]'
         = [b \in {i \in S : KindOf(i) = "stint"} |-> BlockOf(S, b)]
  BY <1>7, <1>10
<1>12. {i \in S : KindOf(i) \in Filed}' = {i \in S : KindOf(i) \in Filed}
  BY <1>1
<1> QED BY <1>9, <1>11, <1>12 DEF Reading

LEMMA IngestReads ==
    ASSUME IInv, NEW w \in Worker, ReadInOrder(w), NEW r \in Rig, Ingest(r)
    PROVE  ReadInOrder(w)'
<1>1. Grows /\ UNCHANGED <<projected, facts, tx, spent>>
  BY IngestGrows DEF IInv
<1>2. /\ InOrder'
      /\ \A i \in Held' \ Held, j \in Held : SameRig(i, j)' => j < i
  BY IngestInOrder DEF IInv, ReadInOrder
<1>3. Held \subseteq Id /\ projected \subseteq Held /\ tx[w].batch \subseteq Held /\ GoodTx(w)
  BY DEF Held, IInv, GoodTx
<1>4. PICK S : S = projected
  OBVIOUS
<1>5. PICK D : D = Done(w)
  OBVIOUS
<1>6. S \subseteq Id /\ D \subseteq Id
  BY <1>3, <1>4, <1>5 DEF Done
<1>7. Reading(S)' = Reading(S) /\ Reading(D)' = Reading(D)
  BY <1>1, <1>6, ReadingStays DEF IInv
<1>8. projected' = S /\ Done(w)' = D
  BY <1>1, <1>4, <1>5 DEF Done
<1>9. Reading(projected)' = Reading(S) /\ Reading(Done(w))' = Reading(D)
  BY <1>7, <1>8
<1>10. (facts = Reading(projected))' /\ (Written(w) = Reading(Done(w)))'
  <2>1. Written(w)' = Written(w)
    BY <1>1 DEF Written
  <2>2. facts = Reading(S) /\ Written(w) = Reading(D)
    BY <1>4, <1>5 DEF ReadInOrder
  <2> QED BY <1>1, <1>7, <1>9, <2>1, <2>2
<1>11. \A i, j \in Id : SameRig(i, j)' <=> SameRig(i, j)
  BY <1>1 DEF Grows, SameRig, RigOf
<1>12. tx[w].todo \subseteq tx[w].batch
  BY <1>3 DEF GoodTx
<1>13. /\ Comes(Held \ projected, projected)'
       /\ Comes(Held \ (projected \cup tx[w].batch), tx[w].batch)'
       /\ Comes(tx[w].todo, tx[w].batch \ tx[w].todo)'
  <2>1. /\ Comes(Held \ projected, projected)
        /\ Comes(Held \ (projected \cup tx[w].batch), tx[w].batch)
        /\ Comes(tx[w].todo, tx[w].batch \ tx[w].todo)
    BY DEF ReadInOrder
  <2>2. Comes(Held \ projected, projected)'
    BY <1>1, <1>2, <1>3, <1>11, <2>1 DEF Comes
  <2>3. Comes(Held \ (projected \cup tx[w].batch), tx[w].batch)'
    BY <1>1, <1>2, <1>3, <1>11, <2>1 DEF Comes
  <2>4. Comes(tx[w].todo, tx[w].batch \ tx[w].todo)'
    BY <1>1, <1>3, <1>11, <1>12, <2>1 DEF Comes
  <2> QED BY <2>2, <2>3, <2>4
<1>14. LoadedAsIs(w)' /\ (tx[w].phase = "wipe" => tx[w].doomed = facts)'
  BY <1>1 DEF ReadInOrder, LoadedAsIs
<1> QED BY <1>2, <1>10, <1>13, <1>14 DEF ReadInOrder

(* The worker's own steps leave the ledger alone.                          *)
LEMMA LedgerSame ==
    ASSUME UNCHANGED ledger
    PROVE  /\ Held' = Held /\ Id' = Id /\ InOrder' = InOrder
           /\ \A i, j : SameRig(i, j)' <=> SameRig(i, j)
           /\ \A S : Reading(S)' = Reading(S)
BY DEF Held, Id, InOrder, SameRig, RigOf, Reading, Outages, Sessions, DownBefore, SameTurn, Key,
       KindOf, OutageEnds, SessionEnds, BlockOf

LEMMA ClaimReads ==
    ASSUME IInv, NEW w \in Worker, Worker = {w}, ReadInOrder(w), Claim(w)
    PROVE  ReadInOrder(w)'
<1> DEFINE C == Held \ projected
           Below(i) == {j \in C : j < i}
           rows == {i \in C : Cardinality(Below(i)) < Limit}
<1>1. Claimable(w) = C
  BY DEF Claimable
<1>2. /\ tx[w].phase = "idle" /\ UNCHANGED <<ledger, projected, facts, spent>>
      /\ tx'[w] = [phase |-> "batch", batch |-> rows, todo |-> rows, new |-> tx[w].new,
                   loaded |-> tx[w].loaded, doomed |-> tx[w].doomed]
  <2>1. rows = {i \in Claimable(w) : Cardinality({j \in Claimable(w) : j < i}) < Limit}
    BY <1>1
  <2> HIDE DEF rows, C
  <2> QED BY <2>1, ClaimIs
<1>3. Len(ledger) \in Nat /\ C \subseteq 1 .. Len(ledger)
  BY Ids DEF IInv
<1>4. ASSUME NEW i \in C \ rows, NEW j \in rows PROVE j < i
  <2> SUFFICES ASSUME i <= j PROVE FALSE
    BY <1>3
  <2>1. Below(i) \in SUBSET Below(j) /\ Below(j) \subseteq 1 .. Len(ledger)
    BY <1>3
  <2>2. IsFiniteSet(1 .. Len(ledger))
    BY <1>3, FS_Interval
  <2> DEFINE A == Below(i)
             B == Below(j)
  <2>3. ~(Cardinality(A) < Limit) /\ Cardinality(B) < Limit
    OBVIOUS
  <2>4. A \in SUBSET B /\ B \in SUBSET (1 .. Len(ledger))
    BY <2>1
  <2> HIDE DEF A, B
  <2>5. IsFiniteSet(B) /\ IsFiniteSet(A) /\ Cardinality(A) <= Cardinality(B)
    BY <2>2, <2>4, FS_Subset
  <2>6. Cardinality(A) \in Nat /\ Cardinality(B) \in Nat
    BY <2>5, FS_CardinalityType
  <2> QED BY <2>3, <2>5, <2>6, LimitAssumption
<1> HIDE DEF rows
<1>5. rows \subseteq C
  BY DEF rows
<1>6. /\ tx'[w].phase = "batch" /\ tx'[w].batch = rows /\ tx'[w].todo = rows
      /\ tx'[w].new = tx[w].new /\ tx'[w].loaded = tx[w].loaded
  BY <1>2
<1>7. tx[w].batch = {} /\ tx[w].loaded = None
  BY <1>2 DEF IInv, GoodTx
<1>8. Written(w)' = Written(w) /\ Done(w)' = Done(w)
  <2>1. Done(w) = projected /\ Done(w)' = projected
    BY <1>2, <1>6, <1>7 DEF Done
  <2> QED BY <1>2, <1>6, <2>1 DEF Written
<1>9. PICK S, D : S = projected /\ D = Done(w)
  OBVIOUS
<1>10. (facts = Reading(projected))' /\ (Written(w) = Reading(Done(w)))'
  <2>1. Reading(S)' = Reading(S) /\ Reading(D)' = Reading(D)
    BY <1>2, LedgerSame
  <2>2. projected' = S /\ Done(w)' = D
    BY <1>2, <1>8, <1>9
  <2>3. Reading(projected)' = Reading(S) /\ Reading(Done(w))' = Reading(D)
    BY <2>1, <2>2
  <2>4. facts = Reading(S) /\ Written(w) = Reading(D)
    BY <1>9 DEF ReadInOrder
  <2> QED BY <1>2, <1>8, <2>3, <2>4
<1>11. /\ Comes(Held \ projected, projected)'
       /\ Comes(Held \ (projected \cup tx[w].batch), tx[w].batch)'
       /\ Comes(tx[w].todo, tx[w].batch \ tx[w].todo)'
  <2>1. Held' = Held /\ \A i, j : SameRig(i, j)' <=> SameRig(i, j)
    BY <1>2, LedgerSame
  <2>2. Comes(Held \ projected, projected)
    BY DEF ReadInOrder
  <2> QED BY <1>2, <1>4, <1>5, <1>6, <2>1, <2>2 DEF Comes
<1>12. LoadedAsIs(w)'
  BY <1>6, <1>7 DEF LoadedAsIs, None
<1>13. InOrder'
  BY <1>2, LedgerSame DEF ReadInOrder
<1> QED BY <1>6, <1>10, <1>11, <1>12, <1>13 DEF ReadInOrder

LEMMA ProjectReads ==
    ASSUME IInv, NEW w \in Worker, ReadInOrder(w), Project(w)
    PROVE  ReadInOrder(w)'
<1>1. PICK i, v, s : i = Min(tx[w].todo) /\ v = View(w) /\ s = Sess(v, i)
  OBVIOUS
<1>2. /\ i \in tx[w].todo /\ \A j \in tx[w].todo : i <= j
      /\ tx'[w].phase = "batch" /\ tx'[w].batch = tx[w].batch /\ tx'[w].todo = tx[w].todo \ {i}
      /\ tx'[w].new = Merge(Row(v, i, s), tx[w].new)
      /\ tx'[w].loaded = IF s \in DOMAIN v.session
                         THEN Over(Only(s, v.session[s]), tx[w].loaded) ELSE tx[w].loaded
      /\ UNCHANGED <<ledger, projected, facts, spent>>
  BY <1>1, ProjectIs
<1>3. GoodTx(w) /\ Held \subseteq Id /\ projected \subseteq Held
  BY DEF IInv, Held
<1>4. PICK D : D = Done(w)
  OBVIOUS
<1>5. /\ D \subseteq Id /\ i \in Id \ D /\ Comes({i}, D)
      /\ Done(w)' = D \cup {i}
  <2>1. i \in tx[w].batch /\ tx[w].todo \subseteq tx[w].batch /\ tx[w].batch \subseteq Held \ projected
    BY <1>2, <1>3 DEF GoodTx
  <2>2. Comes(Held \ projected, projected) /\ Comes(tx[w].todo, tx[w].batch \ tx[w].todo)
    BY DEF ReadInOrder
  <2>3. Comes({i}, D)
    BY <1>2, <1>4, <2>1, <2>2 DEF Comes, Done
  <2>4. D \subseteq Id /\ i \in Id \ D
    BY <1>2, <1>3, <1>4, <2>1 DEF Done
  <2>5. Done(w)' = D \cup {i}
    BY <1>2, <1>4, <2>1 DEF Done
  <2> QED BY <2>3, <2>4, <2>5
<1>6. v = Written(w) /\ v = Reading(D)
  <2>1. View(w) = Written(w) /\ Written(w) = Reading(Done(w))
    BY ViewIsWritten DEF ReadInOrder
  <2> QED BY <1>1, <1>4, <2>1
<1>7. Merge(Row(v, i, s), v) = Reading(D \cup {i})
  BY <1>1, <1>5, <1>6, ReadsOneMore DEF IInv
<1>8. Written(w)' = Merge(Row(v, i, s), v)
  <2>1. Written(w)' = Merge(tx'[w].new, facts')
    BY DEF Written, Merge
  <2>2. Merge(Merge(Row(v, i, s), tx[w].new), facts) = Merge(Row(v, i, s), Merge(tx[w].new, facts))
    BY MergeMerge
  <2>3. v = Merge(tx[w].new, facts)
    BY <1>6, WrittenMerge
  <2> QED BY <1>2, <2>1, <2>2, <2>3
<1>9. (Written(w) = Reading(Done(w)))'
  <2>1. PICK E : E = D \cup {i}
    OBVIOUS
  <2>2. Reading(E)' = Reading(E) /\ Done(w)' = E
    BY <1>2, <1>5, <2>1, LedgerSame
  <2>3. Reading(Done(w))' = Reading(E)
    BY <2>2
  <2> QED BY <1>7, <1>8, <2>1, <2>3
<1>10. (facts = Reading(projected))'
  <2>1. PICK S : S = projected
    OBVIOUS
  <2>2. Reading(S)' = Reading(S) /\ projected' = S
    BY <1>2, <2>1, LedgerSame
  <2>3. Reading(projected)' = Reading(S)
    BY <2>2
  <2>4. facts = Reading(S)
    BY <2>1 DEF ReadInOrder
  <2> QED BY <1>2, <2>3, <2>4
<1>11. LoadedAsIs(w)'
  <2>1. DOMAIN tx'[w].new.session = DOMAIN SessionWrites(v, i, s) \cup DOMAIN tx[w].new.session
    <3>1. Row(v, i, s).session = SessionWrites(v, i, s)
      BY DEF Row
    <3> QED BY <1>2, <3>1, MergeIs
  <2>2. v.session = Over(tx[w].new.session, facts.session)
    BY <1>6 DEF Written
  <2> SUFFICES ASSUME NEW x \in DOMAIN tx'[w].loaded, x \notin DOMAIN tx'[w].new.session
               PROVE  x \in DOMAIN facts.session /\ tx'[w].loaded[x] = facts.session[x]
    BY <1>2 DEF LoadedAsIs
  <2>3. x \notin DOMAIN tx[w].new.session
    BY <2>1
  <2>4. CASE x = s /\ s \in DOMAIN v.session
    <3>1. s \in DOMAIN facts.session /\ v.session[s] = facts.session[s]
      BY <2>2, <2>3, <2>4 DEF Over
    <3>2. tx'[w].loaded = Over(Only(s, v.session[s]), tx[w].loaded)
      BY <1>2, <2>4
    <3>3. tx'[w].loaded[s] = v.session[s]
      BY <2>4, <3>2 DEF Over, Only
    <3> QED BY <2>4, <3>1, <3>3
  <2>5. CASE ~(x = s /\ s \in DOMAIN v.session)
    <3>1. x \in DOMAIN tx[w].loaded /\ tx'[w].loaded[x] = tx[w].loaded[x]
      <4>1. CASE s \in DOMAIN v.session
        <5>1. tx'[w].loaded = Over(Only(s, v.session[s]), tx[w].loaded) /\ x # s
          BY <1>2, <2>5, <4>1
        <5> QED BY <5>1 DEF Over, Only
      <4>2. CASE s \notin DOMAIN v.session
        BY <1>2, <4>2
      <4> QED BY <4>1, <4>2
    <3> QED BY <2>3, <3>1 DEF ReadInOrder, LoadedAsIs
  <2> QED BY <2>4, <2>5
<1>12. /\ Comes(Held \ projected, projected)'
       /\ Comes(Held \ (projected \cup tx[w].batch), tx[w].batch)'
       /\ Comes(tx[w].todo, tx[w].batch \ tx[w].todo)'
  <2>1. Held' = Held /\ \A j, k : SameRig(j, k)' <=> SameRig(j, k)
    BY <1>2, LedgerSame
  <2>2. /\ Comes(Held \ projected, projected)
        /\ Comes(Held \ (projected \cup tx[w].batch), tx[w].batch)
        /\ Comes(tx[w].todo, tx[w].batch \ tx[w].todo)
    BY DEF ReadInOrder
  <2>3. Comes(Held \ projected, projected)' /\ Comes(Held \ (projected \cup tx[w].batch), tx[w].batch)'
    BY <1>2, <2>1, <2>2 DEF Comes
  <2>4. ASSUME NEW j \in tx[w].todo \ {i} PROVE i < j
    <3>1. j \in Nat /\ i \in Nat /\ i <= j
      BY <1>2, <1>3, Ids DEF GoodTx, IInv
    <3> QED BY <3>1
  <2>5. Comes(tx[w].todo, tx[w].batch \ tx[w].todo)'
    <3> SUFFICES ASSUME NEW j \in tx[w].todo \ {i}, NEW k \in tx[w].batch \ (tx[w].todo \ {i}), SameRig(j, k)
                 PROVE  k < j
      BY <1>2, <2>1 DEF Comes
    <3>1. CASE k = i
      BY <2>4, <3>1
    <3>2. CASE k # i
      BY <2>2, <3>2 DEF Comes
    <3> QED BY <3>1, <3>2
  <2> QED BY <2>3, <2>5
<1>13. InOrder'
  BY <1>2, LedgerSame DEF ReadInOrder
<1> QED BY <1>2, <1>9, <1>10, <1>11, <1>12, <1>13 DEF ReadInOrder

LEMMA CommitReads ==
    ASSUME IInv, NEW w \in Worker, ReadInOrder(w), Commit(w)
    PROVE  ReadInOrder(w)'
<1>1. /\ tx[w].todo = {} /\ facts' = Written(w) /\ projected' = projected \cup tx[w].batch
      /\ tx'[w] = Idle /\ UNCHANGED ledger
  BY DEF Commit, BatchRead, IInv
<1>2. PICK D : D = projected \cup tx[w].batch
  OBVIOUS
<1>3. Done(w) = D /\ projected' = D
  BY <1>1, <1>2 DEF Done
<1>4. (facts = Reading(projected))'
  <2>1. Written(w) = Reading(D)
    BY <1>3 DEF ReadInOrder
  <2>2. Reading(D)' = Reading(D)
    BY <1>1, LedgerSame
  <2>3. Reading(projected)' = Reading(D)
    BY <1>3, <2>2
  <2> QED BY <1>1, <2>1, <2>3
<1>5. /\ (Written(w) = Reading(Done(w)))' /\ LoadedAsIs(w)'
      /\ Comes(tx[w].todo, tx[w].batch \ tx[w].todo)'
      /\ tx'[w].phase # "wipe" /\ tx'[w].batch = {}
  BY <1>1, <1>4, IdleReads
<1>6. Comes(Held \ projected, projected)' /\ Comes(Held \ (projected \cup tx[w].batch), tx[w].batch)'
  <2>1. Held' = Held /\ \A j, k : SameRig(j, k)' <=> SameRig(j, k)
    BY <1>1, LedgerSame
  <2>2. /\ Comes(Held \ projected, projected)
        /\ Comes(Held \ (projected \cup tx[w].batch), tx[w].batch)
    BY DEF ReadInOrder
  <2> QED BY <1>1, <1>5, <2>1, <2>2 DEF Comes
<1>7. InOrder'
  BY <1>1, LedgerSame DEF ReadInOrder
<1> QED BY <1>4, <1>5, <1>6, <1>7 DEF ReadInOrder

LEMMA RollbackReads ==
    ASSUME IInv, NEW w \in Worker, ReadInOrder(w), Rollback(w)
    PROVE  ReadInOrder(w)'
<1>1. tx'[w] = Idle /\ UNCHANGED <<ledger, projected, facts>>
  BY DEF Rollback, IInv
<1>2. PICK S : S = projected
  OBVIOUS
<1>3. (facts = Reading(projected))'
  <2>1. Reading(S)' = Reading(S) /\ projected' = S
    BY <1>1, <1>2, LedgerSame
  <2>2. Reading(projected)' = Reading(S)
    BY <2>1
  <2>3. facts = Reading(S)
    BY <1>2 DEF ReadInOrder
  <2> QED BY <1>1, <2>2, <2>3
<1>4. /\ (Written(w) = Reading(Done(w)))' /\ LoadedAsIs(w)'
      /\ Comes(tx[w].todo, tx[w].batch \ tx[w].todo)'
      /\ tx'[w].phase # "wipe" /\ tx'[w].batch = {}
  BY <1>1, <1>3, IdleReads
<1>5. Comes(Held \ projected, projected)' /\ Comes(Held \ (projected \cup tx[w].batch), tx[w].batch)'
  <2>1. Held' = Held /\ \A j, k : SameRig(j, k)' <=> SameRig(j, k)
    BY <1>1, LedgerSame
  <2>2. Comes(Held \ projected, projected)
    BY DEF ReadInOrder
  <2> QED BY <1>1, <1>4, <2>1, <2>2 DEF Comes
<1>6. InOrder'
  BY <1>1, LedgerSame DEF ReadInOrder
<1> QED BY <1>3, <1>4, <1>5, <1>6 DEF ReadInOrder

(* A wipe that is alone deletes all there is, and marks every row.         *)
LEMMA WipeReads ==
    ASSUME IInv, NEW w \in Worker, ReadInOrder(w), Wipe(w)
    PROVE  ReadInOrder(w)'
<1>1. GoodTx(w)
  BY DEF IInv
<1>2. /\ UNCHANGED <<ledger, projected, facts>>
      /\ tx'[w] = [phase |-> "wipe", batch |-> tx[w].batch, todo |-> tx[w].todo, new |-> tx[w].new,
                   loaded |-> tx[w].loaded, doomed |-> facts]
  BY <1>1 DEF IInv, GoodTx, Shaped, Wipe
<1>3. /\ tx'[w].batch = tx[w].batch /\ tx'[w].todo = tx[w].todo /\ tx'[w].new = tx[w].new
      /\ tx'[w].loaded = tx[w].loaded /\ tx'[w].doomed = facts'
  BY <1>2
<1>4. PICK S, D : S = projected /\ D = Done(w)
  OBVIOUS
<1>5. (facts = Reading(projected))' /\ (Written(w) = Reading(Done(w)))'
  <2>1. Reading(S)' = Reading(S) /\ Reading(D)' = Reading(D)
    BY <1>2, LedgerSame
  <2>2. projected' = S /\ Done(w)' = D
    BY <1>2, <1>3, <1>4 DEF Done
  <2>3. Reading(projected)' = Reading(S) /\ Reading(Done(w))' = Reading(D)
    BY <2>1, <2>2
  <2>4. facts = Reading(S) /\ Written(w) = Reading(D)
    BY <1>4 DEF ReadInOrder
  <2>5. Written(w)' = Written(w)
    BY <1>2, <1>3 DEF Written
  <2> QED BY <1>2, <2>3, <2>4, <2>5
<1>6. /\ Comes(Held \ projected, projected)'
      /\ Comes(Held \ (projected \cup tx[w].batch), tx[w].batch)'
      /\ Comes(tx[w].todo, tx[w].batch \ tx[w].todo)'
  <2>1. Held' = Held /\ \A j, k : SameRig(j, k)' <=> SameRig(j, k)
    BY <1>2, LedgerSame
  <2> QED BY <1>2, <1>3, <2>1 DEF Comes, ReadInOrder
<1>7. LoadedAsIs(w)'
  BY <1>2, <1>3 DEF LoadedAsIs, ReadInOrder
<1>8. InOrder'
  BY <1>2, LedgerSame DEF ReadInOrder
<1> QED BY <1>3, <1>5, <1>6, <1>7, <1>8 DEF ReadInOrder

LEMMA ReadingOfNothing ==
    ASSUME NEW f, f.filed = {}, DOMAIN f.outage = {}, DOMAIN f.session = {}, DOMAIN f.block = {},
           Tables(f)
    PROVE  f = Reading({})
<1>1. /\ Outages({}) = {} /\ Sessions({}) = {} /\ {i \in {} : KindOf(i) = "stint"} = {}
      /\ {i \in {} : KindOf(i) \in Filed} = {}
  BY DEF Outages, Sessions
<1>2. /\ f.outage = [d \in Outages({}) |-> Earliest(OutageEnds({}, d))]
      /\ f.session = [s \in Sessions({}) |-> Earliest(SessionEnds({}, s))]
      /\ f.block = [b \in {i \in {} : KindOf(i) = "stint"} |-> BlockOf({}, b)]
  BY <1>1 DEF Tables
<1> QED BY <1>1, <1>2 DEF Tables, Reading

LEMMA WipeCommitsReads ==
    ASSUME IInv, NEW w \in Worker, ReadInOrder(w), WipeCommits(w)
    PROVE  ReadInOrder(w)'
<1>1. /\ tx[w].doomed = facts /\ projected' = {} /\ tx'[w] = Idle /\ UNCHANGED ledger
      /\ facts' = [filed   |-> facts.filed \ facts.filed,
                   outage  |-> Restrict(facts.outage, DOMAIN facts.outage \ DOMAIN facts.outage),
                   session |-> Restrict(facts.session, DOMAIN facts.session \ DOMAIN facts.session),
                   block   |-> Restrict(facts.block, DOMAIN facts.block \ DOMAIN facts.block)]
  BY DEF WipeCommits, IInv, ReadInOrder
<1>2. (facts = Reading(projected))'
  <2>1. PICK f : f = facts'
    OBVIOUS
  <2>2. /\ f.filed = {} /\ DOMAIN f.outage = {} /\ DOMAIN f.session = {} /\ DOMAIN f.block = {}
        /\ Tables(f)
    BY <1>1, <2>1 DEF Restrict, Tables
  <2>3. f = Reading({})
    BY <2>2, ReadingOfNothing
  <2>4. PICK S : S = {}
    OBVIOUS
  <2>5. Reading(S)' = Reading(S) /\ projected' = S
    BY <1>1, <2>4, LedgerSame
  <2>6. Reading(projected)' = Reading(S)
    BY <2>5
  <2> QED BY <2>1, <2>3, <2>4, <2>6
<1>3. /\ (Written(w) = Reading(Done(w)))' /\ LoadedAsIs(w)'
      /\ Comes(tx[w].todo, tx[w].batch \ tx[w].todo)'
      /\ tx'[w].phase # "wipe" /\ tx'[w].batch = {}
  BY <1>1, <1>2, IdleReads
<1>4. Comes(Held \ projected, projected)' /\ Comes(Held \ (projected \cup tx[w].batch), tx[w].batch)'
  BY <1>1, <1>3 DEF Comes
<1>5. InOrder'
  BY <1>1, LedgerSame DEF ReadInOrder
<1> QED BY <1>2, <1>3, <1>4, <1>5 DEF ReadInOrder

LEMMA InitReads == ASSUME Init, NEW w \in Worker PROVE ReadInOrder(w)
<1>1. Id = {} /\ Held = {} /\ projected = {} /\ facts = NoFacts /\ tx[w] = Idle
  BY DEF Init, Id, Held
<1>2. Tables(NoFacts) /\ NoFacts = Reading({})
  <2>1. PICK f : f = NoFacts
    OBVIOUS
  <2>2. /\ f.filed = {} /\ DOMAIN f.outage = {} /\ DOMAIN f.session = {} /\ DOMAIN f.block = {}
        /\ Tables(f)
    BY <2>1 DEF NoFacts, None, Tables
  <2>3. f = Reading({})
    BY <2>2, ReadingOfNothing
  <2> QED BY <2>1, <2>2, <2>3
<1>3. Written(w) = NoFacts /\ Done(w) = {}
  <2>1. Written(w) = Merge(NoFacts, NoFacts)
    BY <1>1 DEF Written, Merge, Idle
  <2>2. Merge(NoFacts, NoFacts) = NoFacts
    BY <1>2, MergeNothing
  <2>3. Done(w) = {}
    BY <1>1 DEF Done, Idle
  <2> QED BY <2>1, <2>2, <2>3
<1> QED BY <1>1, <1>2, <1>3 DEF ReadInOrder, InOrder, Comes, LoadedAsIs, Idle, None

LEMMA StillReads ==
    ASSUME IInv, NEW w \in Worker, ReadInOrder(w), UNCHANGED vars
    PROVE  ReadInOrder(w)'
<1>1. UNCHANGED <<ledger, projected, facts, tx, spent>>
  BY DEF vars
<1>2. PICK S, D : S = projected /\ D = Done(w)
  OBVIOUS
<1>3. (facts = Reading(projected))' /\ (Written(w) = Reading(Done(w)))'
  <2>1. Reading(S)' = Reading(S) /\ Reading(D)' = Reading(D)
    BY <1>1, LedgerSame
  <2>2. projected' = S /\ Done(w)' = D /\ Written(w)' = Written(w)
    BY <1>1, <1>2 DEF Done, Written
  <2>3. Reading(projected)' = Reading(S) /\ Reading(Done(w))' = Reading(D)
    BY <2>1, <2>2
  <2>4. facts = Reading(S) /\ Written(w) = Reading(D)
    BY <1>2 DEF ReadInOrder
  <2> QED BY <1>1, <2>2, <2>3, <2>4
<1>4. Held' = Held /\ (\A j, k : SameRig(j, k)' <=> SameRig(j, k)) /\ InOrder' = InOrder
  BY <1>1, LedgerSame
<1>5. /\ Comes(Held \ projected, projected)'
      /\ Comes(Held \ (projected \cup tx[w].batch), tx[w].batch)'
      /\ Comes(tx[w].todo, tx[w].batch \ tx[w].todo)'
  BY <1>1, <1>4 DEF Comes, ReadInOrder
<1>6. LoadedAsIs(w)' /\ (tx[w].phase = "wipe" => tx[w].doomed = facts)'
  BY <1>1 DEF ReadInOrder, LoadedAsIs
<1> QED BY <1>3, <1>4, <1>5, <1>6 DEF ReadInOrder

LEMMA NextReads ==
    ASSUME IInv, NEW w \in Worker, Worker = {w}, ReadInOrder(w), [Next]_vars
    PROVE  ReadInOrder(w)'
<1>1. ASSUME NEW r \in Rig, Ingest(r) PROVE ReadInOrder(w)'
  BY <1>1, IngestReads
<1>2. ASSUME Step(w) \/ PollsEmpty(w) \/ Fails(w) \/ Wipe(w) PROVE ReadInOrder(w)'
  <2>1. CASE Raises(w) \/ Fails(w)
    BY <2>1, RollbackReads DEF Raises, Fails
  <2>2. CASE PollsEmpty(w)
    BY <2>2, StillReads DEF PollsEmpty
  <2> QED BY <1>2, <2>1, <2>2, ClaimReads, ProjectReads, CommitReads, WipeReads, WipeCommitsReads
          DEF Step
<1>3. \A u \in Worker : u = w
  OBVIOUS
<1> QED BY <1>1, <1>2, <1>3, StillReads DEF Next

(* Where one worker runs, the tables are exactly what the projected rows   *)
(* say in the order of their ids, whatever rigs ingest beside one another, *)
(* whichever batches die and however often the tables are wiped: "the      *)
(* events are the truth, the tables are a reading of them".                *)
THEOREM ReadingCorrect == (\E w : Worker = {w}) => (Spec => []FactsAreTheReading)
<1> SUFFICES ASSUME NEW w, Worker = {w} PROVE Spec => []FactsAreTheReading
  OBVIOUS
<1>1. w \in Worker
  OBVIOUS
<1>2. Init => ReadInOrder(w)
  BY <1>1, InitReads
<1>3. IInv /\ ReadInOrder(w) /\ [Next]_vars => ReadInOrder(w)'
  BY <1>1, NextReads
<1>4. ReadInOrder(w) => FactsAreTheReading
  BY DEF ReadInOrder, FactsAreTheReading
<1> QED BY Inductive, <1>2, <1>3, <1>4, PTL DEF Spec
=============================================================================
