-------------------------- MODULE RollupsProofs ---------------------------
(***************************************************************************)
(* Proofs about module Rollups: what recomputing an aggregate may lose, and *)
(* that the gaps a query reports are right, for any tiers, limits, policies *)
(* and ranges.                                                             *)
(***************************************************************************)
EXTENDS Rollups, WellFoundedInduction, TLAPS

-----------------------------------------------------------------------------
(* Sets of numbers. *)

\* A set of natural numbers that is not empty has a least element.
LEMMA Least ==
    ASSUME NEW S \in SUBSET Nat, S # {}
    PROVE  \E m \in S : \A n \in S : m =< n
<1> DEFINE R == OpToRel(<, Nat)
<1>1. IsWellFoundedOn(R, Nat)
    BY NatLessThanWellFounded
<1>2. \A x, y \in Nat : x < y => <<x, y>> \in R
    BY DEF OpToRel
<1> HIDE DEF R
<1>3. PICK m \in S : \A n \in S : ~(<<n, m>> \in R)
    BY <1>1, WFMin
<1>4. \A n \in S : ~(n < m) /\ n \in Nat /\ m \in Nat
    BY <1>2, <1>3
<1>5. \A n \in S : m =< n
    BY <1>4
<1> QED
    BY <1>3, <1>5

\* One that is bounded has a greatest element.
LEMMA Greatest ==
    ASSUME NEW N \in Nat, NEW S \in SUBSET (0..N), S # {}
    PROVE  \E m \in S : \A n \in S : n =< m
<1> DEFINE T == {N - k : k \in S}
<1>1. \A k \in S : N - k \in Nat
    OBVIOUS
<1>2. T \in SUBSET Nat
    BY <1>1
<1>3. T # {}
  <2>1. PICK k \in S : TRUE
      OBVIOUS
  <2>2. N - k \in T
      BY <2>1
  <2> QED
      BY <2>2
<1>4. PICK d \in T : \A e \in T : d =< e
    BY <1>2, <1>3, Least
<1>5. PICK m \in S : d = N - m
    BY <1>4
<1>6. ASSUME NEW n \in S PROVE n =< m
  <2>1. N - n \in T
      OBVIOUS
  <2>2. d =< N - n
      BY <1>4, <2>1
  <2>3. n \in Nat /\ m \in Nat
      OBVIOUS
  <2> QED
      BY <1>5, <2>2, <2>3
<1> QED
    BY <1>6

\* What Min returns.
LEMMA MinOf ==
    ASSUME NEW S \in SUBSET Nat, S # {}
    PROVE  Min(S) \in S /\ \A n \in S : Min(S) =< n
BY Least DEF Min

\* What Max returns.
LEMMA MaxOf ==
    ASSUME NEW N \in Nat, NEW S \in SUBSET (0..N), S # {}
    PROVE  Max(S) \in S /\ \A n \in S : n =< Max(S)
<1>1. PICK m \in S : \A n \in S : n =< m
    BY Greatest
<1>2. \A n \in S : m >= n
    BY <1>1
<1>3. Max(S) \in S /\ \A n \in S : Max(S) >= n
    BY <1>2 DEF Max
<1>4. \A n \in S : n \in Nat
    OBVIOUS
<1>5. \A n \in S : n =< Max(S)
    BY <1>3, <1>4
<1> QED
    BY <1>3, <1>5

-----------------------------------------------------------------------------
(* Tiers and buckets. *)

\* What the tiers and the resolutions of a query are.
LEMMA TierFacts ==
    /\ Len(Tiers) \in Nat \ {0}
    /\ \A k \in Tier : Tiers[k] \in Nat /\ Tiers[k] > 0
    /\ RawStep \in Nat /\ RawStep > 0
    /\ MaxTime \in Nat /\ MaxFaults \in Nat
<1>1. Tiers \in Seq(Nat \ {0}) /\ Len(Tiers) > 0
    BY RollupsAssumption
<1>2. Len(Tiers) \in Nat
    BY <1>1
<1>3. \A k \in Tier : Tiers[k] \in Nat \ {0}
    BY <1>1 DEF Tier
<1>4. MaxTime \in Nat /\ MaxFaults \in Nat /\ RawStep \in Nat \ {0}
    BY RollupsAssumption
<1> QED
    BY <1>1, <1>2, <1>3, <1>4

\* Multiples of a number are apart by that number.
LEMMA MultiplesApart ==
    ASSUME NEW i \in Nat, NEW j \in Nat, NEW T \in Nat, i * T < j * T
    PROVE  i * T + T =< j * T
<1>1. i < j
  <2>1. ASSUME i >= j PROVE FALSE
    <3>1. PICK d \in Nat : i = j + d
      <4>1. i - j \in Nat /\ i = j + (i - j)
          BY <2>1
      <4> QED
          BY <4>1
    <3>2. i * T = j * T + d * T
        BY <3>1
    <3>3. d * T \in Nat /\ i * T \in Nat /\ j * T \in Nat
        OBVIOUS
    <3> QED
        BY <3>2, <3>3
  <2> QED
      BY <2>1
<1>2. PICK d \in Nat : j = i + 1 + d
  <2>1. j - i - 1 \in Nat /\ j = i + 1 + (j - i - 1)
      BY <1>1
  <2> QED
      BY <2>1
<1>3. j * T = i * T + T + d * T
    BY <1>2
<1>4. d * T \in Nat /\ i * T \in Nat
    OBVIOUS
<1> QED
    BY <1>3, <1>4

\* A bucket is a multiple of the size of its tier.
LEMMA BucketFacts ==
    ASSUME NEW k \in Tier, NEW t \in Nat
    PROVE  Bucket(t, k) \in Nat /\ \E i \in Nat : Bucket(t, k) = i * Tiers[k]
<1>1. Tiers[k] \in Nat /\ Tiers[k] > 0
    BY TierFacts
<1>2. t \div Tiers[k] \in Nat
    BY <1>1
<1>3. (t \div Tiers[k]) * Tiers[k] \in Nat
    BY <1>1, <1>2
<1> QED
    BY <1>2, <1>3 DEF Bucket

\* Two buckets of a tier are apart by its size.
LEMMA BucketsApart ==
    ASSUME NEW k \in Tier, NEW t \in Nat, NEW u \in Nat, Bucket(t, k) < Bucket(u, k)
    PROVE  Bucket(t, k) + Tiers[k] =< Bucket(u, k)
<1>1. PICK i \in Nat : Bucket(t, k) = i * Tiers[k]
    BY BucketFacts
<1>2. PICK j \in Nat : Bucket(u, k) = j * Tiers[k]
    BY BucketFacts
<1>3. Tiers[k] \in Nat
    BY TierFacts
<1> QED
    BY <1>1, <1>2, <1>3, MultiplesApart

-----------------------------------------------------------------------------
(* The tables. *)

\* The rows a tier may hold.
TierRow(k) == [ts : {Bucket(t, k) : t \in Time}, of : SUBSET Time]

\* The variables have their types, and there is a table for every tier.
TablesTyped == TypeOK /\ rollup \in [Tier -> SUBSET [ts : Nat, of : SUBSET Time]]

\* A time has at most one raw sample, deleted ones included.
SamplesApart == \A a, b \in raw \cup cut : a.ts = b.ts => a = b

\* A bucket has at most one row.
RowsApart == \A k \in Tier : \A a, b \in rollup[k] : a.ts = b.ts => a = b

\* A transition was written with a sample, so that a time has at most one.
LogApart ==
    /\ \A c \in transitions \cup pruned : \E s \in raw \cup cut : s.ts = c.ts
    /\ \A c, d \in transitions \cup pruned : c.ts = d.ts => c = d

\* A row aggregates values of its own bucket.
RowsSourced ==
    \A k \in Tier : \A row \in rollup[k] : \A x \in row.of :
        \E s \in raw \cup cut : s.ts = x /\ s.kind = "value" /\ Bucket(x, k) = row.ts

\* The inductive invariant.
TablesInv == TablesTyped /\ SamplesApart /\ RowsApart /\ LogApart /\ RowsSourced

\* The tables are empty at first.
LEMMA InitTables == Init => TablesInv
<1> SUFFICES ASSUME Init PROVE TablesInv
    OBVIOUS
<1>1. 0 \in Time /\ 0 \in 0..MaxFaults /\ 0 \in 0..Len(Tiers)
    BY TierFacts DEF Time
<1>2. TablesTyped
    BY <1>1 DEF Init, TablesTyped, TypeOK, Rest, Swept
<1>3. SamplesApart /\ RowsApart /\ LogApart /\ RowsSourced
    BY DEF Init, SamplesApart, RowsApart, LogApart, RowsSourced
<1> QED
    BY <1>2, <1>3 DEF TablesInv

\* A batch is written later than every sample before it.
LEMMA WriteBatchTables ==
    ASSUME TablesInv, NEW ts \in Time, NEW kind \in Kind, NEW change \in Changes(ts),
           WriteBatch(ts, kind, change)
    PROVE  TablesInv'
<1> DEFINE new == [ts |-> ts, kind |-> kind]
<1>1. /\ raw' = raw \cup {new} /\ cut' = cut /\ transitions' = transitions \cup change
      /\ pruned' = pruned /\ rollup' = rollup
      /\ clock' = clock /\ policy' = policy /\ roller' = roller /\ sweeper' = sweeper
      /\ faults' = faults
      /\ \A s \in raw \cup cut : s.ts < ts
    BY DEF WriteBatch
<1>2. \A c \in change : c \in Change /\ c.ts = ts
    BY DEF Changes, Change
<1>3. \A c, d \in change : c = d
    BY DEF Changes
<1>4. new \in Sample /\ new.ts = ts
    BY DEF Sample
<1>5. /\ raw \subseteq Sample /\ cut \subseteq Sample
      /\ transitions \subseteq Change /\ pruned \subseteq Change
    BY DEF TablesInv, TablesTyped, TypeOK
<1>6. \A s \in raw \cup cut : s.ts # ts
  <2>1. \A s \in raw \cup cut : s.ts \in Nat /\ ts \in Nat
      BY <1>5, TierFacts DEF Sample, Time
  <2> QED
      BY <1>1, <2>1
<1> HIDE DEF new
<1>7. TypeOK'
  <2>1. TypeOK
      BY DEF TablesInv, TablesTyped
  <2>2. raw' \subseteq Sample /\ transitions' \subseteq Change
      BY <1>1, <1>2, <1>4, <1>5
  <2> QED
      BY <1>1, <2>1, <2>2 DEF TypeOK
<1>8. TablesTyped'
    BY <1>1, <1>7 DEF TablesInv, TablesTyped
<1>9. SamplesApart'
    BY <1>1, <1>4, <1>6 DEF TablesInv, SamplesApart
<1>10. RowsApart'
    BY <1>1 DEF TablesInv, RowsApart
<1>11. LogApart'
  <2>1. \A c \in transitions \cup pruned : c.ts # ts
      BY <1>6 DEF TablesInv, LogApart
  <2>2. \A c \in (transitions \cup pruned)' : \E s \in (raw \cup cut)' : s.ts = c.ts
    <3>1. \A c \in change : \E s \in (raw \cup cut)' : s.ts = c.ts
        BY <1>1, <1>2, <1>4
    <3>2. \A c \in transitions \cup pruned : \E s \in raw \cup cut : s.ts = c.ts
        BY DEF TablesInv, LogApart
    <3> QED
        BY <1>1, <3>1, <3>2
  <2>3. \A c, d \in (transitions \cup pruned)' : c.ts = d.ts => c = d
    <3>1. \A c, d \in transitions \cup pruned : c.ts = d.ts => c = d
        BY DEF TablesInv, LogApart
    <3> QED
        BY <1>1, <1>2, <1>3, <2>1, <3>1
  <2> QED
      BY <2>2, <2>3 DEF LogApart
<1>12. RowsSourced'
    BY <1>1 DEF TablesInv, RowsSourced
<1> QED
    BY <1>8, <1>9, <1>10, <1>11, <1>12 DEF TablesInv

\* What a pass leaves in a tier: the rows of other buckets, and those recomputed.
LEMMA RowsFacts ==
    ASSUME NEW k, NEW cutoff, NEW row \in Rows(k, cutoff)
    PROVE  \/ row \in rollup[k] /\ \A b \in {Bucket(s.ts, k) : s \in {r \in raw : r.ts < cutoff}} :
                                      row.ts # b
           \/ \E s \in raw : s.ts < cutoff /\ row = Row(Bucket(s.ts, k), k)
BY DEF Rows

\* The row of a bucket.
LEMMA RowFacts ==
    ASSUME NEW b, NEW k
    PROVE  /\ Row(b, k).ts = b
           /\ \A x : x \in Row(b, k).of <=>
                 \E s \in raw : s.ts = x /\ s.kind = "value" /\ Bucket(s.ts, k) = b
BY DEF Row, Members

\* A pass recomputes rows of a tier from samples of their bucket.
LEMMA RollupTables ==
    ASSUME TablesInv, RollupOnce
    PROVE  TablesInv'
<1> DEFINE k == roller.tier
<1>1. /\ raw' = raw /\ cut' = cut /\ transitions' = transitions /\ pruned' = pruned
      /\ clock' = clock /\ policy' = policy /\ sweeper' = sweeper
    BY DEF RollupOnce
<1>2. k \in Tier
  <2>1. k \in 0..Len(Tiers) /\ k > 0
      BY DEF RollupOnce, TablesInv, TablesTyped, TypeOK
  <2> QED
      BY <2>1, TierFacts DEF Tier
<1>3. /\ roller' \in [now : Time, tier : 0..Len(Tiers)]
      /\ faults' \in 0..MaxFaults
  <2>1. roller \in [now : Time, tier : 0..Len(Tiers)] /\ faults \in 0..MaxFaults
      BY DEF TablesInv, TablesTyped, TypeOK
  <2>2. Rest \in [now : Time, tier : 0..Len(Tiers)]
      BY TierFacts DEF Rest, Time
  <2>3. roller' = Rest \/ (roller' = [roller EXCEPT !.tier = k + 1] /\ k < Len(Tiers))
      BY DEF RollupOnce
  <2>4. k + 1 \in 0..Len(Tiers) \/ ~(k < Len(Tiers))
      BY <1>2, TierFacts DEF Tier
  <2>5. roller' \in [now : Time, tier : 0..Len(Tiers)]
      BY <2>1, <2>2, <2>3, <2>4
  <2>6. faults' = faults \/ (faults < MaxFaults /\ faults' = faults + 1)
      BY DEF RollupOnce, Fault
  <2>7. faults' \in 0..MaxFaults
      BY <2>1, <2>6, TierFacts
  <2> QED
      BY <2>5, <2>7
<1>4. raw \subseteq Sample /\ rollup \in [Tier -> SUBSET [ts : Nat, of : SUBSET Time]]
      /\ \A j \in Tier : rollup[j] \subseteq TierRow(j)
    BY DEF TablesInv, TablesTyped, TypeOK, TierRow
<1>5. CASE rollup' = rollup
  <2>1. TypeOK'
      BY <1>1, <1>3, <1>5 DEF TablesInv, TablesTyped, TypeOK
  <2> QED
      BY <1>1, <1>5, <2>1
      DEF TablesInv, TablesTyped, SamplesApart, RowsApart, LogApart, RowsSourced
<1>6. CASE rollup' = [rollup EXCEPT ![k] = Rows(k, Bucket(roller.now, k))]
  <2> DEFINE rows == Rows(k, Bucket(roller.now, k))
             touched == {Bucket(s.ts, k) : s \in {r \in raw : r.ts < Bucket(roller.now, k)}}
  <2>1. rollup'[k] = rows /\ \A j \in Tier \ {k} : rollup'[j] = rollup[j]
      BY <1>2, <1>4, <1>6
  <2>2. \A row \in rows : \/ row \in rollup[k] /\ row.ts \notin touched
                          \/ \E s \in raw : /\ row = Row(Bucket(s.ts, k), k)
                                            /\ Bucket(s.ts, k) \in touched
      BY DEF Rows
  <2> HIDE DEF rows, touched
  <2>3. \A s \in raw : Row(Bucket(s.ts, k), k) \in TierRow(k)
      BY <1>4 DEF Row, Members, TierRow, Sample
  <2>4. rows \subseteq TierRow(k)
      BY <1>2, <1>4, <2>2, <2>3
  <2>5. \A j \in Tier : TierRow(j) \subseteq [ts : Nat, of : SUBSET Time]
    <3> SUFFICES ASSUME NEW j \in Tier, NEW row \in TierRow(j)
                 PROVE  row \in [ts : Nat, of : SUBSET Time]
        OBVIOUS
    <3>1. \A t \in Time : Bucket(t, j) \in Nat
        BY BucketFacts, TierFacts DEF Time
    <3> QED
        BY <3>1 DEF TierRow
  <2>6. \A j \in Tier : rollup'[j] \subseteq TierRow(j)
      BY <1>4, <2>1, <2>4
  <2>7. rollup' \in [Tier -> SUBSET [ts : Nat, of : SUBSET Time]]
    <3>1. rows \subseteq [ts : Nat, of : SUBSET Time]
        BY <1>2, <2>4, <2>5
    <3>2. rollup' = [rollup EXCEPT ![k] = rows]
        BY <1>6 DEF rows
    <3> QED
        BY <1>2, <1>4, <3>1, <3>2
  <2>8. TypeOK'
      BY <1>1, <1>3, <2>6 DEF TablesInv, TablesTyped, TypeOK, TierRow
  <2>9. RowsApart'
    <3> SUFFICES ASSUME NEW j \in Tier, NEW a \in rollup'[j], NEW b \in rollup'[j], a.ts = b.ts
                 PROVE  a = b
        BY DEF RowsApart
    <3>1. CASE j # k
        BY <2>1, <3>1 DEF TablesInv, RowsApart
    <3>2. CASE j = k
      <4>1. \A row \in rows : \/ row \in rollup[k] /\ row.ts \notin touched
                              \/ row.ts \in touched /\ row = Row(row.ts, k)
          BY <2>2, RowFacts
      <4>2. \A c, d \in rollup[k] : c.ts = d.ts => c = d
          BY <1>2 DEF TablesInv, RowsApart
      <4>3. a \in rows /\ b \in rows
          BY <2>1, <3>2
      <4> QED
          BY <4>1, <4>2, <4>3
    <3> QED
        BY <3>1, <3>2
  <2>10. RowsSourced'
    <3> SUFFICES ASSUME NEW j \in Tier, NEW row \in rollup'[j], NEW x \in row.of
                 PROVE  \E s \in (raw \cup cut)' :
                           s.ts = x /\ s.kind = "value" /\ Bucket(x, j) = row.ts
        BY DEF RowsSourced
    <3>1. CASE row \in rollup[j]
        BY <1>1, <3>1 DEF TablesInv, RowsSourced
    <3>2. CASE row \notin rollup[j]
      <4>1. j = k /\ row \in rows
          BY <2>1, <3>2
      <4>2. PICK r \in raw : row = Row(Bucket(r.ts, k), k)
          BY <2>2, <3>2, <4>1
      <4>3. row.ts = Bucket(r.ts, k)
          BY <4>2, RowFacts
      <4>4. PICK s \in raw : s.ts = x /\ s.kind = "value" /\ Bucket(s.ts, k) = Bucket(r.ts, k)
          BY <4>2, RowFacts
      <4> QED
          BY <1>1, <4>1, <4>3, <4>4
    <3> QED
        BY <3>1, <3>2
  <2> QED
      BY <1>1, <2>7, <2>8, <2>9, <2>10
      DEF TablesInv, TablesTyped, SamplesApart, LogApart
<1> QED
    BY <1>5, <1>6 DEF RollupOnce

\* Retention moves rows of one table out of it.
LEMMA DeleteTables ==
    ASSUME TablesInv, NEW t \in Table \cup {Log}, DeleteBatch(t)
    PROVE  TablesInv'
<1>1. PICK batch \in SUBSET Expired(t) : Delete(t, batch)
    BY DEF DeleteBatch, kSubset
<1>2. /\ clock' = clock /\ policy' = policy /\ roller' = roller /\ sweeper' = sweeper
      /\ faults' = faults
    BY DEF DeleteBatch
<1>3. batch \subseteq Contents(t)
    BY DEF Expired
<1>4. Log \notin Tier /\ Log # 0 /\ 0 \notin Tier /\ (t = 0 \/ t = Log \/ t \in Tier)
    BY TierFacts DEF Log, Tier, Table
<1>5. raw' \cup cut' = raw \cup cut
    BY <1>1, <1>3 DEF Delete, Contents
<1>6. transitions' \cup pruned' = transitions \cup pruned
    BY <1>1, <1>3, <1>4 DEF Delete, Contents
<1>7. rollup' \in [Tier -> SUBSET [ts : Nat, of : SUBSET Time]]
      /\ \A k \in Tier : rollup'[k] \subseteq rollup[k]
  <2>1. rollup \in [Tier -> SUBSET [ts : Nat, of : SUBSET Time]]
      BY DEF TablesInv, TablesTyped
  <2>2. rollup' = rollup \/ (t \in Tier /\ rollup' = [rollup EXCEPT ![t] = rollup[t] \ batch])
      BY <1>1 DEF Delete
  <2> QED
      BY <2>1, <2>2
<1>8. TypeOK'
  <2>1. TypeOK
      BY DEF TablesInv, TablesTyped
  <2>2. /\ raw' \cup cut' \subseteq Sample /\ transitions' \cup pruned' \subseteq Change
      BY <1>5, <1>6, <2>1 DEF TypeOK
  <2>3. \A k \in Tier : rollup'[k] \subseteq TierRow(k)
      BY <1>7, <2>1 DEF TypeOK, TierRow
  <2> QED
      BY <1>2, <2>1, <2>2, <2>3 DEF TypeOK, TierRow
<1>9. SamplesApart' /\ LogApart'
    BY <1>5, <1>6 DEF TablesInv, SamplesApart, LogApart
<1>10. RowsApart'
    BY <1>7 DEF TablesInv, RowsApart
<1>11. RowsSourced'
    BY <1>5, <1>7 DEF TablesInv, RowsSourced
<1> QED
    BY <1>7, <1>8, <1>9, <1>10, <1>11 DEF TablesInv, TablesTyped

\* The other steps leave the tables alone.
LEMMA OtherTables ==
    ASSUME TablesInv,
           \/ StartRollup \/ StartRetention \/ EndRetention \/ Tick
           \/ \E p \in Policy : SetRetention(p)
    PROVE  TablesInv'
<1>1. UNCHANGED <<raw, rollup, transitions, cut, pruned>>
    BY DEF StartRollup, StartRetention, EndRetention, Tick, SetRetention
<1>2. TypeOK
    BY DEF TablesInv, TablesTyped
<1>3. TypeOK'
  <2>1. CASE StartRollup
    <3>1. 1 \in 0..Len(Tiers)
        BY TierFacts
    <3> QED
        BY <1>2, <2>1, <3>1 DEF StartRollup, TypeOK
  <2>2. CASE StartRetention
      BY <1>2, <2>2 DEF StartRetention, TypeOK
  <2>3. CASE EndRetention
    <3>1. Swept \in [now : Time, policy : Policy \cup {NoPolicy}]
        BY TierFacts DEF Swept, Time
    <3>2. faults' \in 0..MaxFaults
      <4>1. faults' = faults \/ (faults < MaxFaults /\ faults' = faults + 1)
          BY <2>3 DEF EndRetention, Fault
      <4> QED
          BY <1>2, <4>1, TierFacts DEF TypeOK
    <3> QED
        BY <1>2, <2>3, <3>1, <3>2 DEF EndRetention, TypeOK
  <2>4. CASE Tick
    <3>1. clock' \in Time
        BY <1>2, <2>4, TierFacts DEF Tick, TypeOK, Time
    <3> QED
        BY <1>2, <2>4, <3>1 DEF Tick, TypeOK
  <2>5. CASE \E p \in Policy : SetRetention(p)
      BY <1>2, <2>5 DEF SetRetention, TypeOK
  <2> QED
      BY <2>1, <2>2, <2>3, <2>4, <2>5
<1> QED
    BY <1>1, <1>3
    DEF TablesInv, TablesTyped, SamplesApart, RowsApart, LogApart, RowsSourced

\* Every step keeps the invariant.
LEMMA NextTables == TablesInv /\ [Next]_vars => TablesInv'
<1> SUFFICES ASSUME TablesInv, [Next]_vars PROVE TablesInv'
    OBVIOUS
<1>1. CASE UNCHANGED vars
    BY <1>1
    DEF vars, TablesInv, TablesTyped, TypeOK, SamplesApart, RowsApart, LogApart, RowsSourced
<1>2. CASE Next
    BY <1>2, WriteBatchTables, RollupTables, DeleteTables, OtherTables DEF Next
<1> QED
    BY <1>1, <1>2

\* Writer, rollup pass and retention keep the tables as TablesInv has them.
THEOREM TablesStay == Spec => []TablesInv
BY InitTables, NextTables, PTL DEF Spec

-----------------------------------------------------------------------------
(* Aggregates. *)

\* A pass or a deletion takes no value out of a row that stays, unless it was cut.
LEMMA StepShrinksOnlyWhenCut ==
    ASSUME TablesInv, [Next]_vars,
           NEW k \in Tier, NEW row \in rollup[k], NEW new \in rollup'[k], row.ts = new.ts
    PROVE  row.of \subseteq new.of \/ \E s \in cut' : Bucket(s.ts, k) = row.ts
<1>1. CASE new \in rollup[k]
    BY <1>1 DEF TablesInv, RowsApart
<1>2. CASE new \notin rollup[k]
  <2>1. RollupOnce
    <3>1. ASSUME ~RollupOnce PROVE rollup'[k] \subseteq rollup[k]
      <4>1. CASE \E t \in Table \cup {Log} : DeleteBatch(t)
        <5>1. PICK t \in Table \cup {Log} : DeleteBatch(t)
            BY <4>1
        <5>2. PICK batch : Delete(t, batch)
            BY <5>1 DEF DeleteBatch
        <5>3. rollup' = rollup \/ (t \in Tier /\ rollup' = [rollup EXCEPT ![t] = rollup[t] \ batch])
            BY <5>2 DEF Delete
        <5>4. rollup \in [Tier -> SUBSET [ts : Nat, of : SUBSET Time]]
            BY DEF TablesInv, TablesTyped
        <5> QED
            BY <5>3, <5>4
      <4>2. CASE ~\E t \in Table \cup {Log} : DeleteBatch(t)
        <5>1. rollup' = rollup
            BY <3>1, <4>2
            DEF Next, vars, WriteBatch, StartRollup, StartRetention, EndRetention, Tick,
                SetRetention
        <5> QED
            BY <5>1
      <4> QED
          BY <4>1, <4>2
    <3> QED
        BY <1>2, <3>1
  <2>2. rollup' = [rollup EXCEPT ![roller.tier] = Rows(roller.tier, Bucket(roller.now, roller.tier))]
        /\ cut' = cut
      BY <1>2, <2>1 DEF RollupOnce
  <2>3. k = roller.tier /\ new \in Rows(k, Bucket(roller.now, k))
      BY <1>2, <2>2 DEF TablesInv, TablesTyped
  <2>4. PICK r \in raw : new = Row(Bucket(r.ts, k), k)
      BY <1>2, <2>3, RowsFacts
  <2>5. new = Row(row.ts, k)
      BY <2>4, RowFacts
  <2>6. ASSUME NEW x \in row.of, x \notin new.of
        PROVE  \E s \in cut : Bucket(s.ts, k) = row.ts
    <3>1. PICK s \in raw \cup cut : s.ts = x /\ s.kind = "value" /\ Bucket(x, k) = row.ts
        BY DEF TablesInv, RowsSourced
    <3>2. s \notin raw
        BY <2>5, <2>6, <3>1, RowFacts
    <3> QED
        BY <3>1, <3>2
  <2> QED
      BY <2>2, <2>6
<1> QED
    BY <1>1, <1>2

\* Rollup passes, late samples, errors and deletions of any number and order: an
\* aggregate that RollupOnce recomputes loses a value only when retention has cut
\* into its bucket.
THEOREM AggregatesShrinkOnlyWhenCut == Spec => ShrinksOnlyWhenCut
<1>1. TablesInv /\ [Next]_vars =>
        [\A k \in Tier : \A row \in rollup[k] : \A new \in rollup'[k] :
            row.ts = new.ts =>
                \/ row.of \subseteq new.of
                \/ \E s \in cut' : Bucket(s.ts, k) = row.ts]_vars
    BY StepShrinksOnlyWhenCut
<1> QED
    BY <1>1, TablesStay, PTL DEF Spec, ShrinksOnlyWhenCut

-----------------------------------------------------------------------------
(* Gaps in their order, and mergeGaps. *)

\* What classifyGap answers, and a gap with its reason.
Reason == {"collector_unavailable", "inactive", "missing"}
BlamedGap == [from : Nat, to : Nat, reason : Reason]

\* No gap is empty, and of two gaps the one that begins first ends first.
Ordered(gaps) ==
    /\ \A g \in gaps : g.from \in Nat /\ g.to \in Nat /\ g.from < g.to
    /\ \A g, h \in gaps : \/ g = h
                          \/ g.from < h.from /\ g.to < h.to
                          \/ h.from < g.from /\ h.to < g.to

\* Gaps in order that begin no later than a bound.
Laid(gaps, bound) == bound \in Nat /\ Ordered(gaps) /\ \A g \in gaps : g.from =< bound

\* A gap that continues no other, and one that no other continues.
IsHead(gaps, g) == g \in gaps /\ \A h \in gaps : ~Continues(gaps, g, h)
IsEnd(gaps, g) == g \in gaps /\ \A n \in gaps : ~Continues(gaps, n, g)

\* Of two gaps, the one that begins first ends first.
LEMMA OrderedFacts ==
    ASSUME NEW gaps, Ordered(gaps), NEW g \in gaps, NEW h \in gaps
    PROVE  /\ g.from \in Nat /\ g.to \in Nat /\ g.from < g.to
           /\ g.from < h.from => g.to < h.to
           /\ g.from = h.from => g = h
<1>1. g.from \in Nat /\ g.to \in Nat /\ g.from < g.to /\ h.from \in Nat /\ h.to \in Nat
    BY DEF Ordered
<1>2. g = h \/ (g.from < h.from /\ g.to < h.to) \/ (h.from < g.from /\ h.to < g.to)
    BY DEF Ordered
<1>3. g = h => g.from = h.from
    OBVIOUS
<1>4. g.from < h.from => g.to < h.to
    BY <1>1, <1>2, <1>3
<1>5. g.from = h.from => g = h
    BY <1>1, <1>2
<1> QED
    BY <1>1, <1>4, <1>5

\* Some of the gaps have a last one.
LEMMA LastGap ==
    ASSUME NEW gaps, NEW bound, Laid(gaps, bound), NEW P \in SUBSET gaps, P # {}
    PROVE  \E g \in P : \A h \in P : h.from =< g.from
<1> DEFINE S == {g.from : g \in P}
<1>1. bound \in Nat /\ \A g \in P : g.from \in Nat /\ g.from =< bound
    BY DEF Laid, Ordered
<1>2. \A g \in P : g.from \in 0..bound
    BY <1>1
<1>3. S \in SUBSET (0..bound) /\ S # {}
    BY <1>2
<1>4. PICK m \in S : \A n \in S : n =< m
    BY <1>1, <1>3, Greatest
<1> QED
    BY <1>4

\* Some of the gaps have a first one.
LEMMA FirstGap ==
    ASSUME NEW gaps, NEW bound, Laid(gaps, bound), NEW P \in SUBSET gaps, P # {}
    PROVE  \E g \in P : \A h \in P : g.from =< h.from
<1> DEFINE S == {g.from : g \in P}
<1>1. \A g \in P : g.from \in Nat
    BY DEF Laid, Ordered
<1>2. S \in SUBSET Nat /\ S # {}
    BY <1>1
<1>3. PICK m \in S : \A n \in S : m =< n
    BY <1>2, Least
<1> QED
    BY <1>3

\* A merged gap goes from a head to the first gap from there on that none continues.
LEMMA MergedFacts ==
    ASSUME NEW gaps \in SUBSET BlamedGap, NEW bound, Laid(gaps, bound),
           NEW head, IsHead(gaps, head)
    PROVE  \E end \in gaps :
              /\ IsEnd(gaps, end) /\ head.from =< end.from
              /\ \A h \in gaps : IsEnd(gaps, h) /\ head.from =< h.from => end.to =< h.to
              /\ [head EXCEPT !.to = end.to] \in mergeGaps(gaps)
              /\ \A m \in mergeGaps(gaps) :
                    m.from = head.from =>
                        m = [from |-> head.from, to |-> end.to, reason |-> head.reason]
<1> DEFINE E == {h \in gaps : head.from =< h.from /\ \A n \in gaps : ~Continues(gaps, n, h)}
           ends(hd) == {g.to : g \in {h \in gaps : /\ hd.from =< h.from
                                                   /\ \A n \in gaps : ~Continues(gaps, n, h)}}
<1>1. head \in gaps /\ head.from \in Nat
    BY DEF IsHead, BlamedGap
<1>2. E # {}
  <2> DEFINE P == {h \in gaps : head.from =< h.from}
  <2>1. P \in SUBSET gaps /\ head \in P
      BY <1>1
  <2>2. PICK g \in P : \A h \in P : h.from =< g.from
      BY <2>1, LastGap
  <2>3. ASSUME NEW n \in gaps, Continues(gaps, n, g) PROVE FALSE
    <3>1. g.from < n.from /\ g \in gaps /\ head.from =< g.from
        BY <2>3 DEF Continues
    <3>2. g.from \in Nat /\ n.from \in Nat
        BY <3>1 DEF BlamedGap
    <3>3. n \in P
        BY <1>1, <3>1, <3>2
    <3>4. n.from =< g.from
        BY <2>2, <3>3
    <3> QED
        BY <3>1, <3>2, <3>4
  <2>4. g \in E
      BY <2>3
  <2> QED
      BY <2>4
<1>3. ends(head) = {g.to : g \in E}
    OBVIOUS
<1>4. \A g \in E : g.to \in Nat /\ g \in gaps
    BY DEF BlamedGap
<1>5. ends(head) \in SUBSET Nat /\ ends(head) # {}
    BY <1>2, <1>3, <1>4
<1>6. Min(ends(head)) \in ends(head) /\ \A n \in ends(head) : Min(ends(head)) =< n
    BY <1>5, MinOf
<1>7. PICK end \in E : end.to = Min(ends(head))
    BY <1>3, <1>6
<1>8. \A g \in gaps : IsHead(gaps, g) <=> g \in {x \in gaps : \A h \in gaps : ~Continues(gaps, x, h)}
    BY DEF IsHead
<1>9. mergeGaps(gaps) = {[hd EXCEPT !.to = Min(ends(hd))] : hd \in {x \in gaps : IsHead(gaps, x)}}
    BY <1>8 DEF mergeGaps
<1> HIDE DEF ends, E
<1>10. \A hd \in gaps : [hd EXCEPT !.to = Min(ends(hd))]
                          = [from |-> hd.from, to |-> Min(ends(hd)), reason |-> hd.reason]
    BY DEF BlamedGap
<1>11. \A m \in mergeGaps(gaps) :
          m.from = head.from => m = [from |-> head.from, to |-> end.to, reason |-> head.reason]
  <2> SUFFICES ASSUME NEW m \in mergeGaps(gaps), m.from = head.from
               PROVE  m = [from |-> head.from, to |-> end.to, reason |-> head.reason]
      OBVIOUS
  <2>1. PICK hd \in gaps : IsHead(gaps, hd) /\ m = [hd EXCEPT !.to = Min(ends(hd))]
      BY <1>9
  <2>2. m.from = hd.from
      BY <1>10, <2>1
  <2>3. hd = head
      BY <1>1, <2>2, OrderedFacts DEF Laid
  <2> QED
      BY <1>1, <1>7, <1>10, <2>1, <2>3
<1>12. [head EXCEPT !.to = end.to] \in mergeGaps(gaps)
    BY <1>1, <1>7, <1>9, <1>10
<1>13. end \in gaps /\ IsEnd(gaps, end) /\ head.from =< end.from
    BY DEF E, IsEnd
<1>14. \A h \in gaps : IsEnd(gaps, h) /\ head.from =< h.from => end.to =< h.to
  <2>1. \A h \in gaps : IsEnd(gaps, h) /\ head.from =< h.from => h \in E
      BY DEF E, IsEnd
  <2> QED
      BY <1>3, <1>6, <1>7, <2>1
<1> QED
    BY <1>11, <1>12, <1>13, <1>14

\* Every merged gap begins with a head.
LEMMA MergedHead ==
    ASSUME NEW gaps \in SUBSET BlamedGap, NEW m \in mergeGaps(gaps)
    PROVE  \E head \in gaps : IsHead(gaps, head) /\ m.from = head.from
<1>1. PICK head \in {g \in gaps : \A h \in gaps : ~Continues(gaps, g, h)} :
          \E x : m = [head EXCEPT !.to = x]
    BY DEF mergeGaps
<1>2. m.from = head.from
    BY <1>1 DEF BlamedGap
<1> QED
    BY <1>1, <1>2 DEF IsHead

\* From a head to the first end there is no other end, so that every gap but the
\* last one is continued by the next.
LEMMA RunFacts ==
    ASSUME NEW gaps \in SUBSET BlamedGap, NEW bound, Laid(gaps, bound),
           NEW head \in gaps, NEW end \in gaps, head.from =< end.from,
           \A h \in gaps : IsEnd(gaps, h) /\ head.from =< h.from => end.to =< h.to,
           NEW k \in gaps, head.from =< k.from, k.from < end.from
    PROVE  \E n \in gaps : Continues(gaps, n, k) /\ n.from =< end.from
<1>1. k.to < end.to /\ k.to \in Nat /\ end.to \in Nat
    BY OrderedFacts DEF Laid
<1>2. ~(end.to =< k.to)
    BY <1>1
<1>3. ~IsEnd(gaps, k)
    BY <1>2
<1>4. PICK n \in gaps : Continues(gaps, n, k)
    BY <1>3 DEF IsEnd
<1>5. ~(end.from < n.from)
    BY <1>4 DEF Continues
<1>6. n.from \in Nat /\ end.from \in Nat
    BY DEF BlamedGap
<1>7. n.from =< end.from
    BY <1>5, <1>6
<1> QED
    BY <1>4, <1>7

\* The gaps of a run have one reason.
LEMMA RunReason ==
    ASSUME NEW gaps \in SUBSET BlamedGap, NEW bound, Laid(gaps, bound),
           NEW head \in gaps, NEW end \in gaps, head.from =< end.from,
           \A h \in gaps : IsEnd(gaps, h) /\ head.from =< h.from => end.to =< h.to,
           NEW k \in gaps, head.from =< k.from, k.from =< end.from
    PROVE  k.reason = head.reason
<1> DEFINE run == {g \in gaps : head.from =< g.from /\ g.from =< end.from}
           odd == {g \in run : g.reason # head.reason}
<1> SUFFICES ASSUME odd # {} PROVE FALSE
    OBVIOUS
<1>1. \A g \in gaps : g.from \in Nat /\ g.to \in Nat
    BY DEF BlamedGap
<1>2. odd \in SUBSET gaps
    OBVIOUS
<1>3. PICK b \in odd : \A g \in odd : b.from =< g.from
    BY <1>2, FirstGap
<1>4. b # head /\ b \in gaps /\ head.from =< b.from /\ b.from =< end.from
    OBVIOUS
<1>5. head.from < b.from
  <2>1. head.from # b.from
      BY <1>4, OrderedFacts DEF Laid
  <2> QED
      BY <1>1, <1>4, <2>1
<1> DEFINE before == {g \in run : g.from < b.from}
<1>6. before \in SUBSET gaps /\ head \in before
  <2>1. head.from =< head.from
      BY <1>1
  <2> QED
      BY <1>5, <2>1
<1>7. PICK g \in before : \A h \in before : h.from =< g.from
    BY <1>6, LastGap
<1>8. g \in gaps /\ head.from =< g.from /\ g.from < b.from
    OBVIOUS
<1>9. g.reason = head.reason
  <2>1. ASSUME g \in odd PROVE FALSE
    <3>1. b.from =< g.from
        BY <1>3, <2>1
    <3> QED
        BY <1>1, <1>4, <1>8, <3>1
  <2> QED
      BY <2>1
<1>10. g.from < end.from
    BY <1>1, <1>4, <1>8
<1>11. PICK n \in gaps : Continues(gaps, n, g)
    BY <1>8, <1>10, RunFacts
<1>12. g.from < n.from /\ n.reason = g.reason /\ ~(b.from < n.from)
    BY <1>4, <1>8, <1>11 DEF Continues
<1>13. n.from = b.from
  <2>1. ASSUME n.from # b.from PROVE FALSE
    <3>1. n.from < b.from /\ head.from =< n.from
        BY <1>1, <1>4, <1>8, <1>11, <1>12, <2>1
    <3>2. n.from =< end.from
        BY <1>1, <1>4, <1>11, <3>1
    <3>3. n \in before
        BY <1>11, <3>1, <3>2
    <3>4. n.from =< g.from
        BY <1>7, <3>3
    <3> QED
        BY <1>1, <1>8, <1>12, <3>4
  <2> QED
      BY <2>1
<1>14. n = b
    BY <1>4, <1>13, OrderedFacts DEF Laid
<1> QED
    BY <1>9, <1>12, <1>14

\* A time of a merged gap is a time of one of the gaps merged in it.
LEMMA MergedOf ==
    ASSUME NEW gaps \in SUBSET BlamedGap, NEW bound, Laid(gaps, bound),
           NEW m \in mergeGaps(gaps), NEW t \in Nat, Within(t, m)
    PROVE  \E k \in gaps : /\ Within(t, k) /\ k.reason = m.reason
                           /\ m.from =< k.from /\ k.to =< m.to
<1>1. PICK head \in gaps : IsHead(gaps, head) /\ m.from = head.from
    BY MergedHead
<1>2. PICK end \in gaps :
        /\ IsEnd(gaps, end) /\ head.from =< end.from
        /\ \A h \in gaps : IsEnd(gaps, h) /\ head.from =< h.from => end.to =< h.to
        /\ \A x \in mergeGaps(gaps) :
              x.from = head.from =>
                  x = [from |-> head.from, to |-> end.to, reason |-> head.reason]
    BY <1>1, MergedFacts
<1>3. m = [from |-> head.from, to |-> end.to, reason |-> head.reason]
    BY <1>1, <1>2
<1>4. head.from =< t /\ t < end.to /\ m.to = end.to /\ m.reason = head.reason
    BY <1>3 DEF Within
<1>5. \A g \in gaps : g.from \in Nat /\ g.to \in Nat
    BY DEF BlamedGap
<1> DEFINE P == {g \in gaps : head.from =< g.from /\ g.from =< end.from /\ g.from =< t}
<1>6. P \in SUBSET gaps /\ head \in P
  <2>1. head.from =< head.from
      BY <1>5
  <2> QED
      BY <1>2, <1>4, <2>1
<1>7. PICK k \in P : \A h \in P : h.from =< k.from
    BY <1>6, LastGap
<1>8. k \in gaps /\ head.from =< k.from /\ k.from =< t
    OBVIOUS
<1>9. k.from =< end.from
    OBVIOUS
<1>10. k.reason = head.reason
    BY <1>2, <1>8, <1>9, RunReason
<1>11. CASE k.from = end.from
  <2>1. k = end
      BY <1>8, <1>11, OrderedFacts DEF Laid
  <2>2. end.to =< end.to
      BY <1>5
  <2> QED
      BY <1>1, <1>4, <1>8, <1>10, <2>1, <2>2 DEF Within
<1>12. CASE k.from # end.from
  <2>1. k.from < end.from
      BY <1>5, <1>8, <1>9, <1>12
  <2>2. PICK n \in gaps : Continues(gaps, n, k) /\ n.from =< end.from
      BY <1>2, <1>8, <2>1, RunFacts
  <2>3. k.from < n.from /\ n.from =< k.to
      BY <2>2 DEF Continues
  <2>4. t < k.to
    <3>1. ASSUME k.to =< t PROVE FALSE
      <4>1. head.from =< n.from /\ n.from =< t
          BY <1>5, <1>8, <2>2, <2>3, <3>1
      <4>2. n.from =< k.from
          BY <1>7, <2>2, <4>1
      <4> QED
          BY <1>5, <1>8, <2>3, <4>2
    <3> QED
        BY <1>5, <1>8, <3>1
  <2>5. k.to =< end.to
    <3>1. k.to < end.to
        BY <1>8, <2>1, OrderedFacts DEF Laid
    <3> QED
        BY <1>5, <1>8, <3>1
  <2> QED
      BY <1>1, <1>4, <1>8, <1>10, <2>4, <2>5 DEF Within
<1> QED
    BY <1>11, <1>12

\* A time of a gap is a time of a merged one.
LEMMA MergeCovers ==
    ASSUME NEW gaps \in SUBSET BlamedGap, NEW bound, Laid(gaps, bound),
           NEW k \in gaps, NEW t \in Nat, Within(t, k)
    PROVE  \E m \in mergeGaps(gaps) : Within(t, m)
<1>1. \A g \in gaps : g.from \in Nat /\ g.to \in Nat
    BY DEF BlamedGap
<1>2. k.from =< t /\ t < k.to
    BY DEF Within
<1> DEFINE heads == {g \in gaps : IsHead(gaps, g) /\ g.from =< k.from}
<1>3. heads # {}
  <2>1. PICK g \in gaps : \A h \in gaps : g.from =< h.from
      BY FirstGap
  <2>2. ASSUME NEW h \in gaps, Continues(gaps, g, h) PROVE FALSE
    <3>1. h.from < g.from /\ g.from =< h.from
        BY <2>1, <2>2 DEF Continues
    <3> QED
        BY <1>1, <3>1
  <2>3. g \in heads
      BY <2>1, <2>2 DEF IsHead
  <2> QED
      BY <2>3
<1>4. PICK head \in heads : \A h \in heads : h.from =< head.from
  <2>1. heads \in SUBSET gaps
      OBVIOUS
  <2> QED
      BY <1>3, <2>1, LastGap
<1>5. head \in gaps /\ IsHead(gaps, head) /\ head.from =< k.from
    OBVIOUS
<1>6. PICK end \in gaps :
        /\ IsEnd(gaps, end) /\ head.from =< end.from
        /\ [head EXCEPT !.to = end.to] \in mergeGaps(gaps)
    BY <1>5, MergedFacts
<1>7. k.from =< end.from
  <2> SUFFICES ASSUME end.from < k.from PROVE FALSE
      BY <1>1
  <2> DEFINE later == {g \in gaps : end.from < g.from}
  <2>1. later \in SUBSET gaps /\ k \in later
      OBVIOUS
  <2>2. PICK n \in later : \A h \in later : n.from =< h.from
      BY <2>1, FirstGap
  <2>3. n \in gaps /\ end.from < n.from /\ n.from =< k.from
      BY <2>1, <2>2
  <2>4. ASSUME NEW h \in gaps, Continues(gaps, n, h) PROVE FALSE
    <3>1. h.from < n.from /\ ~(h.from < end.from)
        BY <2>3, <2>4 DEF Continues
    <3>2. ~(end.from < h.from)
      <4>1. ASSUME end.from < h.from PROVE FALSE
        <5>1. n.from =< h.from
            BY <2>2, <4>1
        <5> QED
            BY <1>1, <2>3, <3>1, <5>1
      <4> QED
          BY <4>1
    <3>3. h.from = end.from
        BY <1>1, <3>1, <3>2
    <3>4. h = end
        BY <3>3, OrderedFacts DEF Laid
    <3> QED
        BY <1>6, <2>3, <2>4, <3>4 DEF IsEnd
  <2>5. n \in heads
      BY <2>3, <2>4 DEF IsHead
  <2>6. n.from =< head.from
      BY <1>4, <2>5
  <2> QED
      BY <1>1, <1>5, <1>6, <2>3, <2>6
<1>8. k.to =< end.to
  <2>1. CASE k.from = end.from
    <3>1. k = end
        BY <2>1, OrderedFacts DEF Laid
    <3> QED
        BY <1>1, <3>1
  <2>2. CASE k.from < end.from
    <3>1. k.to < end.to
        BY <2>2, OrderedFacts DEF Laid
    <3> QED
        BY <1>1, <3>1
  <2> QED
      BY <1>1, <1>7, <2>1, <2>2
<1>9. head.from =< t /\ t < end.to
    BY <1>1, <1>2, <1>5, <1>8
<1>10. [head EXCEPT !.to = end.to].from = head.from /\ [head EXCEPT !.to = end.to].to = end.to
    BY <1>5 DEF BlamedGap
<1> QED
    BY <1>6, <1>9, <1>10 DEF Within

\* A merged gap begins with a gap of its reason.
LEMMA MergedStart ==
    ASSUME NEW gaps \in SUBSET BlamedGap, NEW bound, Laid(gaps, bound),
           NEW m \in mergeGaps(gaps)
    PROVE  /\ m.to \in Nat
           /\ \E k \in gaps : k.reason = m.reason /\ k.from = m.from /\ k.to =< m.to
<1>1. PICK head \in gaps : IsHead(gaps, head) /\ m.from = head.from
    BY MergedHead
<1>2. PICK end \in gaps :
        /\ head.from =< end.from
        /\ \A x \in mergeGaps(gaps) :
              x.from = head.from =>
                  x = [from |-> head.from, to |-> end.to, reason |-> head.reason]
    BY <1>1, MergedFacts
<1>3. m.to = end.to /\ m.reason = head.reason
    BY <1>1, <1>2
<1>4. head.from \in Nat /\ end.from \in Nat /\ head.to \in Nat /\ end.to \in Nat
    BY DEF BlamedGap
<1>5. head.from < end.from => head.to < end.to
    BY OrderedFacts DEF Laid
<1>6. head.from = end.from => head = end
    BY OrderedFacts DEF Laid
<1>7. head.to =< end.to
    BY <1>2, <1>4, <1>5, <1>6
<1> QED
    BY <1>1, <1>3, <1>4, <1>7

-----------------------------------------------------------------------------
(* The points of a query, and findGaps. *)

\* Points in the range, no two of them at the same time.
Dated(from, to, step, points) ==
    /\ from \in Nat /\ to \in Nat /\ from < to /\ step \in Nat /\ step > 0
    /\ \A p \in points : p.at \in Nat /\ from =< p.at /\ p.at =< to
    /\ \A p, o \in points : p.at = o.at => p = o

\* The cursor is the end of the last point before a time.
LEMMA CursorFacts ==
    ASSUME NEW from, NEW to, NEW step, NEW points, Dated(from, to, step, points), NEW t \in Nat
    PROVE  /\ Cursor(from, step, points, t) \in Nat
           /\ from =< Cursor(from, step, points, t)
           /\ \A p \in points : p.at < t => p.at + step =< Cursor(from, step, points, t)
           /\ \/ Cursor(from, step, points, t) = from
              \/ \E p \in points : p.at < t /\ Cursor(from, step, points, t) = p.at + step
<1> DEFINE earlier == {p.at : p \in {q \in points : q.at < t}}
           c == Cursor(from, step, points, t)
<1>1. /\ from \in Nat /\ to \in Nat /\ step \in Nat /\ step > 0
      /\ \A p \in points : p.at \in Nat /\ from =< p.at /\ p.at =< to
    BY DEF Dated
<1>2. CASE earlier = {}
  <2>1. c = from
      BY <1>2 DEF Cursor
  <2>2. \A p \in points : ~(p.at < t)
      BY <1>2
  <2>3. from =< from
      BY <1>1
  <2> QED
      BY <1>1, <2>1, <2>2, <2>3
<1>3. CASE earlier # {}
  <2>1. \A p \in points : p.at \in 0..to
      BY <1>1
  <2>2. earlier \in SUBSET (0..to)
      BY <2>1
  <2>3. Max(earlier) \in earlier /\ \A n \in earlier : n =< Max(earlier)
      BY <1>1, <1>3, <2>2, MaxOf
  <2>4. c = Max(earlier) + step
      BY <1>3 DEF Cursor
  <2>5. PICK p \in points : p.at < t /\ Max(earlier) = p.at
      BY <2>3
  <2>6. p.at \in Nat /\ from =< p.at
      BY <1>1
  <2>7. c \in Nat /\ from =< c /\ c = p.at + step
      BY <1>1, <2>4, <2>5, <2>6
  <2>8. \A o \in points : o.at < t => o.at =< p.at /\ o.at \in Nat
      BY <1>1, <2>3, <2>5
  <2>9. \A o \in points : o.at < t => o.at + step =< p.at + step
      BY <1>1, <2>6, <2>8
  <2> QED
      BY <2>5, <2>7, <2>9
<1> QED
    BY <1>2, <1>3

\* A gap findGaps reports is a stretch without a point, or a point without a value.
LEMMA FoundGap ==
    ASSUME NEW from, NEW to, NEW step, NEW points, NEW g \in findGaps(from, to, step, points)
    PROVE  \/ \E e : /\ e = to \/ \E p \in points : e = p.at
                     /\ g.from = Cursor(from, step, points, e) /\ g.to = e
                     /\ e - Cursor(from, step, points, e) > 2 * step
           \/ \E p \in points : p.nil /\ g.from = p.at /\ g.to = p.at + step
<1>1. CASE g \in Stretches(from, to, step, points)
    BY <1>1 DEF Stretches, Gap
<1>2. CASE g \notin Stretches(from, to, step, points)
    BY <1>2 DEF findGaps, Gap
<1> QED
    BY <1>1, <1>2

\* What FoundGap says, in numbers: a gap ends after it begins, and it is that of a
\* point without a value, or every point ends before it or begins after it.
LEMMA FoundFacts ==
    ASSUME NEW from, NEW to, NEW step, NEW points, Dated(from, to, step, points),
           NEW g \in findGaps(from, to, step, points)
    PROVE  /\ g.from \in Nat /\ g.to \in Nat /\ g.from < g.to /\ g.from =< to
           /\ \/ \E p \in points : p.nil /\ g.from = p.at /\ g.to = p.at + step
              \/ \A p \in points : p.at + step =< g.from \/ g.to =< p.at
<1>1. /\ from \in Nat /\ to \in Nat /\ step \in Nat /\ step > 0
      /\ \A p \in points : p.at \in Nat /\ from =< p.at /\ p.at =< to
    BY DEF Dated
<1>2. CASE \E e : /\ e = to \/ \E p \in points : e = p.at
                  /\ g.from = Cursor(from, step, points, e) /\ g.to = e
                  /\ e - Cursor(from, step, points, e) > 2 * step
  <2>1. PICK e : /\ e = to \/ \E p \in points : e = p.at
                 /\ g.from = Cursor(from, step, points, e) /\ g.to = e
                 /\ e - Cursor(from, step, points, e) > 2 * step
      BY <1>2
  <2>2. e \in Nat /\ e =< to
    <3>1. to =< to
        BY <1>1
    <3> QED
        BY <1>1, <2>1, <3>1
  <2>3. g.from \in Nat /\ \A p \in points : p.at < e => p.at + step =< g.from
      BY <2>1, <2>2, CursorFacts
  <2>4. g.from < e
    <3>1. e - g.from > 2 * step
        BY <2>1
    <3> QED
        BY <1>1, <2>2, <2>3, <3>1
  <2>5. g.from =< to
      BY <1>1, <2>2, <2>3, <2>4
  <2>6. \A p \in points : p.at < e \/ e =< p.at
      BY <1>1, <2>2
  <2> QED
      BY <2>1, <2>2, <2>3, <2>4, <2>5, <2>6
<1>3. CASE \E p \in points : p.nil /\ g.from = p.at /\ g.to = p.at + step
  <2>1. PICK p \in points : p.nil /\ g.from = p.at /\ g.to = p.at + step
      BY <1>3
  <2>2. g.from \in Nat /\ g.to \in Nat /\ g.from < g.to /\ g.from =< to
    <3>1. p.at \in Nat /\ p.at =< to
        BY <1>1
    <3> QED
        BY <1>1, <2>1, <3>1
  <2> QED
      BY <2>1, <2>2
<1> QED
    BY <1>2, <1>3, FoundGap

\* Of two gaps found, the one that begins first ends first.
LEMMA FoundOrdered ==
    ASSUME NEW from, NEW to, NEW step, NEW points, Dated(from, to, step, points),
           NEW g \in findGaps(from, to, step, points), NEW h \in findGaps(from, to, step, points)
    PROVE  \/ g.from = h.from /\ g.to = h.to
           \/ g.from < h.from /\ g.to < h.to
           \/ h.from < g.from /\ h.to < g.to
<1> DEFINE before(a, b) == a.from < b.from /\ a.to < b.to
<1>1. /\ from \in Nat /\ to \in Nat /\ step \in Nat /\ step > 0
      /\ \A p \in points : p.at \in Nat /\ from =< p.at /\ p.at =< to
    BY DEF Dated
<1>2. /\ g.from \in Nat /\ g.to \in Nat /\ g.from < g.to
      /\ h.from \in Nat /\ h.to \in Nat /\ h.from < h.to
    BY FoundFacts
\* a stretch is before or after any point
<1>3. ASSUME NEW a \in {g, h}, NEW b \in {g, h},
             \A p \in points : p.at + step =< a.from \/ a.to =< p.at,
             NEW p \in points, b.from = p.at, b.to = p.at + step
      PROVE  before(a, b) \/ before(b, a)
  <2>1. p.at + step =< a.from \/ a.to =< p.at
      BY <1>3
  <2>2. /\ a.from \in Nat /\ a.to \in Nat /\ a.from < a.to
        /\ b.from \in Nat /\ b.to \in Nat /\ b.from < b.to
      BY <1>2
  <2>3. p.at \in Nat
      BY <1>1
  <2> QED
      BY <1>1, <1>3, <2>1, <2>2, <2>3
\* two points
<1>4. ASSUME NEW p \in points, g.from = p.at, g.to = p.at + step,
             NEW o \in points, h.from = o.at, h.to = o.at + step
      PROVE  (g.from = h.from /\ g.to = h.to) \/ before(g, h) \/ before(h, g)
    BY <1>1, <1>4
\* two stretches, to e and to f
<1>5. ASSUME NEW e, NEW f,
             e = to \/ \E p \in points : e = p.at,
             f = to \/ \E p \in points : f = p.at,
             g.from = Cursor(from, step, points, e), g.to = e,
             h.from = Cursor(from, step, points, f), h.to = f
      PROVE  (g.from = h.from /\ g.to = h.to) \/ before(g, h) \/ before(h, g)
  <2>1. e \in Nat /\ f \in Nat /\ e =< to /\ f =< to
    <3>1. to =< to
        BY <1>1
    <3> QED
        BY <1>1, <1>5, <3>1
  <2>2. CASE e = f
      BY <1>5, <2>2
  <2>3. CASE e < f
    <3>1. e # to
        BY <1>1, <2>1, <2>3
    <3>2. PICK p \in points : e = p.at
        BY <1>5, <3>1
    <3>3. p.at + step =< h.from
        BY <1>5, <2>1, <2>3, <3>2, CursorFacts
    <3>4. before(g, h)
        BY <1>1, <1>2, <1>5, <2>1, <3>2, <3>3
    <3> QED
        BY <3>4
  <2>4. CASE f < e
    <3>1. f # to
        BY <1>1, <2>1, <2>4
    <3>2. PICK p \in points : f = p.at
        BY <1>5, <3>1
    <3>3. p.at + step =< g.from
        BY <1>5, <2>1, <2>4, <3>2, CursorFacts
    <3>4. before(h, g)
        BY <1>1, <1>2, <1>5, <2>1, <3>2, <3>3
    <3> QED
        BY <3>4
  <2> QED
      BY <2>1, <2>2, <2>3, <2>4
<1>6. ASSUME NEW a \in {g, h}
      PROVE  \/ \E e : /\ e = to \/ \E p \in points : e = p.at
                      /\ a.from = Cursor(from, step, points, e) /\ a.to = e
             \/ \E p \in points : a.from = p.at /\ a.to = p.at + step
    BY FoundGap
<1>7. ASSUME NEW a \in {g, h}
      PROVE  \/ \E p \in points : a.from = p.at /\ a.to = p.at + step
             \/ \A p \in points : p.at + step =< a.from \/ a.to =< p.at
    BY FoundFacts
<1>8. CASE \E p \in points : g.from = p.at /\ g.to = p.at + step
  <2>1. CASE \E o \in points : h.from = o.at /\ h.to = o.at + step
      BY <1>4, <1>8, <2>1
  <2>2. CASE \A o \in points : o.at + step =< h.from \/ h.to =< o.at
      BY <1>3, <1>8, <2>2
  <2> QED
      BY <1>7, <2>1, <2>2
<1>9. CASE ~\E p \in points : g.from = p.at /\ g.to = p.at + step
  <2>1. CASE \E o \in points : h.from = o.at /\ h.to = o.at + step
      BY <1>3, <1>7, <1>9, <2>1
  <2>2. CASE ~\E o \in points : h.from = o.at /\ h.to = o.at + step
      BY <1>5, <1>6, <1>9, <2>2
  <2> QED
      BY <2>1, <2>2
<1> QED
    BY <1>8, <1>9

\* A time that is in no gap is in a point with a value, or near the next point or
\* the end of the range.
LEMMA FoundComplete ==
    ASSUME NEW from, NEW to, NEW step, NEW points, Dated(from, to, step, points),
           NEW t \in Nat, from =< t, t < to
    PROVE  \/ \E g \in findGaps(from, to, step, points) : Within(t, g)
           \/ \E p \in points : ~p.nil /\ p.at =< t /\ t < p.at + step
           \/ \E e \in {p.at : p \in points} \cup {to} : t < e /\ e =< t + 2 * step
<1>1. /\ from \in Nat /\ to \in Nat /\ step \in Nat /\ step > 0
      /\ \A p \in points : p.at \in Nat /\ from =< p.at /\ p.at =< to
    BY DEF Dated
<1> DEFINE ends == {p.at : p \in points} \cup {to}
           next == {e \in ends : t < e}
<1>2. next \in SUBSET Nat /\ to \in next
    BY <1>1
<1>3. PICK e \in next : \A f \in next : e =< f
    BY <1>2, Least
<1>4. e \in ends /\ t < e /\ e \in Nat
    BY <1>2
<1> DEFINE c == Cursor(from, step, points, e)
<1>5. /\ c \in Nat /\ from =< c
      /\ c = from \/ \E p \in points : p.at < e /\ c = p.at + step
    BY <1>4, CursorFacts
<1> HIDE DEF c
<1>6. CASE t < c
  <2>1. PICK p \in points : p.at < e /\ c = p.at + step
      BY <1>1, <1>5, <1>6
  <2>2. p.at =< t
    <3>1. ASSUME t < p.at PROVE FALSE
      <4>1. p.at \in next
          BY <3>1
      <4>2. e =< p.at
          BY <1>3, <4>1
      <4> QED
          BY <1>1, <1>4, <2>1, <4>2
    <3> QED
        BY <1>1, <3>1
  <2>3. CASE p.nil
    <3>1. Gap(p.at, p.at + step) \in findGaps(from, to, step, points)
        BY <2>3 DEF findGaps
    <3>2. Within(t, Gap(p.at, p.at + step))
        BY <1>6, <2>1, <2>2 DEF Within, Gap
    <3> QED
        BY <3>1, <3>2
  <2> QED
      BY <1>6, <2>1, <2>2, <2>3
<1>7. CASE c =< t /\ e - c > 2 * step
  <2>1. Gap(c, e) \in findGaps(from, to, step, points)
      BY <1>4, <1>7 DEF findGaps, Stretches, c
  <2>2. Within(t, Gap(c, e))
      BY <1>4, <1>7 DEF Within, Gap
  <2> QED
      BY <2>1, <2>2
<1>8. CASE c =< t /\ ~(e - c > 2 * step)
  <2>1. e =< t + 2 * step
      BY <1>1, <1>4, <1>5, <1>8
  <2> QED
      BY <1>4, <2>1
<1> QED
    BY <1>5, <1>6, <1>7, <1>8

-----------------------------------------------------------------------------
(* The gaps of a query. *)

\* A query reads one of the tables, whose step is positive.
LEMMA Resolution ==
    ASSUME NEW from, NEW to
    PROVE  /\ selectResolution(from, to) = 0 \/ selectResolution(from, to) \in Tier
           /\ Step(selectResolution(from, to)) \in Nat
           /\ Step(selectResolution(from, to)) > 0
<1> DEFINE fits == {i \in 0..(Len(Tiers) - 1) : to - from =< Limits[i + 1]}
           res == selectResolution(from, to)
<1>1. res = 0 \/ res \in Tier
  <2>1. CASE fits = {}
    <3>1. res = Len(Tiers)
        BY <2>1 DEF selectResolution
    <3> QED
        BY <3>1, TierFacts DEF Tier
  <2>2. CASE fits # {}
    <3>1. fits \in SUBSET (0..(Len(Tiers) - 1))
        OBVIOUS
    <3>2. 0..(Len(Tiers) - 1) \subseteq Nat
        BY TierFacts
    <3>3. Min(fits) \in fits
        BY <2>2, <3>1, <3>2, MinOf
    <3>4. res = Min(fits)
        BY <2>2 DEF selectResolution
    <3>5. res \in 0..(Len(Tiers) - 1)
        BY <3>1, <3>3, <3>4
    <3> HIDE DEF res
    <3> QED
        BY <3>5, TierFacts DEF Tier
  <2> QED
      BY <2>1, <2>2
<1> HIDE DEF res
<1>2. Step(res) \in Nat /\ Step(res) > 0
    BY <1>1, TierFacts DEF Step
<1> QED
    BY <1>1, <1>2 DEF res

\* The points of a query: samples at different times, and rows of a tier, which are
\* a bucket apart.
LEMMA PointsDated ==
    ASSUME TablesInv, NEW q \in Query
    PROVE  LET res == selectResolution(q.from, q.to)
               points == metricPoints(q.from, q.to, res)
           IN /\ Dated(q.from, q.to, Step(res), points)
              /\ res # 0 => \A p, o \in points : p.at < o.at => p.at + Step(res) =< o.at
<1> DEFINE res == selectResolution(q.from, q.to)
           points == metricPoints(q.from, q.to, res)
<1>1. q.from \in Nat /\ q.to \in Nat /\ q.from < q.to
    BY RollupsAssumption
<1>2. (res = 0 \/ res \in Tier) /\ Step(res) \in Nat /\ Step(res) > 0
    BY Resolution
<1> HIDE DEF res
<1>3. CASE res = 0
  <2>1. \A p \in points : /\ q.from =< p.at /\ p.at =< q.to
                          /\ \E s \in raw : p = [at |-> s.ts, nil |-> s.kind # "value"]
      BY <1>3 DEF metricPoints
  <2>2. \A s \in raw : s.ts \in Nat
      BY TierFacts DEF TablesInv, TablesTyped, TypeOK, Sample, Time
  <2>3. \A r, s \in raw : r.ts = s.ts => r = s
      BY DEF TablesInv, SamplesApart
  <2> HIDE DEF points
  <2>4. \A p \in points : p.at \in Nat
      BY <2>1, <2>2
  <2>5. \A p, o \in points : p.at = o.at => p = o
      BY <2>1, <2>3
  <2>6. Dated(q.from, q.to, Step(res), points)
      BY <1>1, <1>2, <2>1, <2>4, <2>5 DEF Dated
  <2> QED
      BY <1>3, <2>6 DEF points, res
<1>4. CASE res \in Tier
  <2>1. Step(res) = Tiers[res] /\ res # 0
      BY <1>4, TierFacts DEF Step, Tier
  <2>2. \A p \in points : /\ q.from =< p.at /\ p.at =< q.to
                          /\ \E row \in rollup[res] : p = [at |-> row.ts, nil |-> row.of = {}]
      BY <2>1 DEF metricPoints
  <2>3. \A row \in rollup[res] : \E t \in Nat : row.ts = Bucket(t, res)
    <3>1. rollup[res] \subseteq [ts : {Bucket(t, res) : t \in Time}, of : SUBSET Time]
        BY <1>4 DEF TablesInv, TablesTyped, TypeOK
    <3>2. \A t \in Time : t \in Nat
        BY TierFacts DEF Time
    <3> QED
        BY <3>1, <3>2
  <2>4. \A r, s \in rollup[res] : r.ts = s.ts => r = s
      BY <1>4 DEF TablesInv, RowsApart
  <2> HIDE DEF points
  <2>5. \A p \in points : \E t \in Nat : p.at = Bucket(t, res)
      BY <2>2, <2>3
  <2>6. \A p \in points : p.at \in Nat
      BY <1>4, <2>5, BucketFacts
  <2>7. \A p, o \in points : p.at = o.at => p = o
      BY <2>2, <2>4
  <2>8. \A p, o \in points : p.at < o.at => p.at + Step(res) =< o.at
      BY <1>4, <2>1, <2>5, BucketsApart
  <2>9. Dated(q.from, q.to, Step(res), points)
      BY <1>1, <1>2, <2>2, <2>6, <2>7 DEF Dated
  <2> QED
      BY <2>8, <2>9 DEF points, res
<1> QED
    BY <1>2, <1>3, <1>4

\* The gaps of a query with their reasons, before they are merged.
Blamed(q) ==
    LET res == selectResolution(q.from, q.to)
        gaps == findGaps(q.from, q.to, Step(res), metricPoints(q.from, q.to, res))
    IN {[from |-> gap.from, to |-> gap.to, reason |-> classifyGap(gap)] : gap \in gaps}

\* The blame of a gap depends on its ends.
LEMMA ClassifyFacts ==
    ASSUME NEW gap
    PROVE  /\ classifyGap(gap) \in Reason
           /\ classifyGap(gap) = "collector_unavailable" <=>
                 \/ StateAt(transitions, gap.from) = "down"
                 \/ \E c \in transitions : gap.from =< c.ts /\ c.ts < gap.to /\ c.state = "down"
BY DEF classifyGap, Reason

\* They are gaps findGaps found, in their order.
LEMMA BlamedLaid ==
    ASSUME TablesInv, NEW q \in Query
    PROVE  Blamed(q) \in SUBSET BlamedGap /\ Laid(Blamed(q), q.to)
<1> DEFINE res == selectResolution(q.from, q.to)
           points == metricPoints(q.from, q.to, res)
           found == findGaps(q.from, q.to, Step(res), points)
<1>1. Dated(q.from, q.to, Step(res), points)
    BY PointsDated
<1>2. \A g \in Blamed(q) : \E f \in found :
          g = [from |-> f.from, to |-> f.to, reason |-> classifyGap(f)]
    BY DEF Blamed
<1> HIDE DEF res, points
<1>3. \A f \in found : /\ f.from \in Nat /\ f.to \in Nat /\ f.from < f.to /\ f.from =< q.to
                       /\ classifyGap(f) \in Reason
    BY <1>1, FoundFacts, ClassifyFacts
<1>4. \A f, g \in found : \/ f.from = g.from /\ f.to = g.to
                          \/ f.from < g.from /\ f.to < g.to
                          \/ g.from < f.from /\ g.to < f.to
    BY <1>1, FoundOrdered
<1> HIDE DEF found
<1>5. \A f, g : f.from = g.from /\ f.to = g.to => classifyGap(f) = classifyGap(g)
    BY DEF classifyGap
<1>6. Blamed(q) \in SUBSET BlamedGap
    BY <1>2, <1>3 DEF BlamedGap
<1>7. \A g \in Blamed(q) : g.from \in Nat /\ g.to \in Nat /\ g.from < g.to /\ g.from =< q.to
    BY <1>2, <1>3
<1>8. \A g, h \in Blamed(q) : \/ g = h
                              \/ g.from < h.from /\ g.to < h.to
                              \/ h.from < g.from /\ h.to < g.to
  <2> SUFFICES ASSUME NEW g \in Blamed(q), NEW h \in Blamed(q)
               PROVE  \/ g = h
                      \/ g.from < h.from /\ g.to < h.to
                      \/ h.from < g.from /\ h.to < g.to
      OBVIOUS
  <2>1. PICK f \in found : g = [from |-> f.from, to |-> f.to, reason |-> classifyGap(f)]
      BY <1>2
  <2>2. PICK e \in found : h = [from |-> e.from, to |-> e.to, reason |-> classifyGap(e)]
      BY <1>2
  <2>3. \/ f.from = e.from /\ f.to = e.to
        \/ f.from < e.from /\ f.to < e.to
        \/ e.from < f.from /\ e.to < f.to
      BY <1>4
  <2>4. f.from = e.from /\ f.to = e.to => classifyGap(f) = classifyGap(e)
      BY <1>5
  <2> QED
      BY <2>1, <2>2, <2>3, <2>4
<1>9. q.to \in Nat
    BY RollupsAssumption
<1> QED
    BY <1>6, <1>7, <1>8, <1>9 DEF Laid, Ordered

\* QueryMetrics merges them.
LEMMA QueryMerges ==
    ASSUME NEW q
    PROVE  QueryMetrics(q.from, q.to) = mergeGaps(Blamed(q))
BY DEF QueryMetrics, Blamed

\* The gaps of a query are right.
LEMMA TablesGapsRight == TablesInv => GapsRight
<1> SUFFICES ASSUME TablesInv, NEW q \in Query
             PROVE  LET res == selectResolution(q.from, q.to)
                        step == Step(res)
                        points == metricPoints(q.from, q.to, res)
                        gaps == QueryMetrics(q.from, q.to)
                    IN
                    /\ \A p \in points, gap \in gaps :
                          ~p.nil /\ Within(p.at, gap) =>
                              res = 0 /\ \E o \in points :
                                            o.nil /\ o.at < p.at /\ p.at < o.at + step
                    /\ \A t \in q.from..(q.to - 1) :
                          \/ \E gap \in gaps : Within(t, gap)
                          \/ \E p \in points : ~p.nil /\ p.at =< t /\ t < p.at + step
                          \/ \E e \in {p.at : p \in points} \cup {q.to} :
                                t < e /\ e =< t + 2 * step
    BY DEF GapsRight
<1> DEFINE res == selectResolution(q.from, q.to)
           step == Step(res)
           points == metricPoints(q.from, q.to, res)
           gaps == QueryMetrics(q.from, q.to)
           found == findGaps(q.from, q.to, step, points)
<1>1. /\ Dated(q.from, q.to, step, points)
      /\ res # 0 => \A p, o \in points : p.at < o.at => p.at + step =< o.at
    BY PointsDated
<1>2. Blamed(q) \in SUBSET BlamedGap /\ Laid(Blamed(q), q.to) /\ gaps = mergeGaps(Blamed(q))
    BY BlamedLaid, QueryMerges
<1>3. Blamed(q) = {[from |-> g.from, to |-> g.to, reason |-> classifyGap(g)] : g \in found}
    BY DEF Blamed
<1>4. q.from \in Nat /\ q.to \in Nat /\ step \in Nat /\ step > 0
      /\ \A p \in points : p.at \in Nat
    BY <1>1 DEF Dated
<1> HIDE DEF res, step, points, gaps, found
<1>5. ASSUME NEW p \in points, NEW gap \in gaps, ~p.nil, Within(p.at, gap)
      PROVE  res = 0 /\ \E o \in points : o.nil /\ o.at < p.at /\ p.at < o.at + step
  <2>1. PICK k \in Blamed(q) : Within(p.at, k)
      BY <1>2, <1>4, <1>5, MergedOf
  <2>2. PICK g \in found : g.from = k.from /\ g.to = k.to
      BY <1>3
  <2>3. g.from =< p.at /\ p.at < g.to
      BY <2>1, <2>2 DEF Within
  <2>4. /\ g.from \in Nat /\ g.to \in Nat
        /\ \/ \E o \in points : o.nil /\ g.from = o.at /\ g.to = o.at + step
           \/ p.at + step =< g.from \/ g.to =< p.at
    <3>1. g \in findGaps(q.from, q.to, step, points)
        BY DEF found
    <3> QED
        BY <1>1, <3>1, FoundFacts
  <2>5. p.at \in Nat /\ step \in Nat /\ step > 0
      BY <1>4
  <2>6. ~(p.at + step =< g.from \/ g.to =< p.at)
      BY <2>3, <2>4, <2>5
  <2>7. PICK o \in points : o.nil /\ g.from = o.at /\ g.to = o.at + step
      BY <2>4, <2>6
  <2>8. o.at # p.at
      BY <1>1, <1>5, <2>7 DEF Dated
  <2>9. o.at \in Nat
      BY <1>4
  <2>10. o.at < p.at /\ p.at < o.at + step
      BY <2>3, <2>5, <2>7, <2>8, <2>9
  <2>11. ~(o.at + step =< p.at)
      BY <2>5, <2>9, <2>10
  <2>12. res = 0
      BY <1>1, <2>10, <2>11
  <2> QED
      BY <2>7, <2>10, <2>12
<1>6. ASSUME NEW t \in q.from..(q.to - 1)
      PROVE  \/ \E gap \in gaps : Within(t, gap)
             \/ \E p \in points : ~p.nil /\ p.at =< t /\ t < p.at + step
             \/ \E e \in {p.at : p \in points} \cup {q.to} : t < e /\ e =< t + 2 * step
  <2>1. t \in Nat /\ q.from =< t /\ t < q.to
      BY <1>4
  <2>2. \/ \E g \in found : Within(t, g)
        \/ \E p \in points : ~p.nil /\ p.at =< t /\ t < p.at + step
        \/ \E e \in {p.at : p \in points} \cup {q.to} : t < e /\ e =< t + 2 * step
      BY <1>1, <2>1, FoundComplete DEF found
  <2>3. ASSUME NEW g \in found, Within(t, g)
        PROVE  \E gap \in gaps : Within(t, gap)
    <3> DEFINE k == [from |-> g.from, to |-> g.to, reason |-> classifyGap(g)]
    <3>1. k \in Blamed(q)
        BY <1>3
    <3>2. Within(t, k)
        BY <2>3 DEF Within
    <3> HIDE DEF k
    <3> QED
        BY <1>2, <2>1, <3>1, <3>2, MergeCovers
  <2> QED
      BY <2>2, <2>3
<1> QED
    BY <1>5, <1>6 DEF res, step, points, gaps

-----------------------------------------------------------------------------
(* The blame of a gap. *)

\* Transitions of which no two have the same time.
DatedLog(log) == log \subseteq Change /\ \A c, d \in log : c.ts = d.ts => c = d

\* The state at a time is that of the last transition until then.
LEMMA StateFacts ==
    ASSUME NEW log, DatedLog(log), NEW t \in Nat
    PROVE  \/ StateAt(log, t) = "up" /\ \A c \in log : ~(c.ts =< t)
           \/ \E c \in log : /\ c.ts =< t /\ StateAt(log, t) = c.state
                             /\ \A d \in log : d.ts =< t => d.ts =< c.ts
<1> DEFINE before == {c \in log : c.ts =< t}
<1>1. CASE before = {}
    BY <1>1 DEF StateAt
<1>2. CASE before # {}
  <2> DEFINE S == {c.ts : c \in before}
  <2>1. \A c \in log : c.ts \in 0..MaxTime
      BY DEF DatedLog, Change, Time
  <2>2. S \in SUBSET (0..MaxTime) /\ S # {}
      BY <1>2, <2>1
  <2>3. PICK m \in S : \A n \in S : n =< m
      BY <2>2, TierFacts, Greatest
  <2>4. PICK c \in before : \A d \in before : d.ts =< c.ts
      BY <2>3
  <2> DEFINE last == CHOOSE x \in before : \A d \in before : d.ts =< x.ts
  <2>5. last \in before /\ \A d \in before : d.ts =< last.ts
      BY <2>4
  <2>6. StateAt(log, t) = last.state
      BY <1>2 DEF StateAt
  <2> HIDE DEF last
  <2> QED
      BY <2>5, <2>6
<1> QED
    BY <1>1, <1>2

\* A log and one of which earlier transitions are gone agree on the state at a time
\* when one that is left is in force.
LEMMA StateKept ==
    ASSUME NEW log, DatedLog(log), NEW left \in SUBSET log, NEW t \in Nat, NEW s \in Nat, s =< t,
           \A c \in log \ left : \E d \in log : d.ts =< s /\ ~(d.ts =< c.ts)
    PROVE  StateAt(left, t) = StateAt(log, t)
<1>1. DatedLog(left)
    BY DEF DatedLog
<1>2. \A c \in log : c.ts \in Nat
    BY TierFacts DEF DatedLog, Change, Time
<1>3. \A d \in log : d.ts =< s => d.ts =< t
  <2> SUFFICES ASSUME NEW d \in log, d.ts =< s PROVE d.ts =< t
      OBVIOUS
  <2>1. d.ts \in Nat
      BY <1>2
  <2> QED
      BY <2>1
<1>4. CASE StateAt(log, t) = "up" /\ \A c \in log : ~(c.ts =< t)
    BY <1>1, <1>4, StateFacts
<1>5. CASE \E c \in log : /\ c.ts =< t /\ StateAt(log, t) = c.state
                          /\ \A d \in log : d.ts =< t => d.ts =< c.ts
  <2>1. PICK c \in log : /\ c.ts =< t /\ StateAt(log, t) = c.state
                         /\ \A d \in log : d.ts =< t => d.ts =< c.ts
      BY <1>5
  <2>2. c \in left
      BY <1>3, <2>1
  <2>3. PICK e \in left : /\ e.ts =< t /\ StateAt(left, t) = e.state
                          /\ \A d \in left : d.ts =< t => d.ts =< e.ts
      BY <1>1, <2>1, <2>2, StateFacts
  <2>4. e.ts =< c.ts /\ c.ts =< e.ts
      BY <2>1, <2>2, <2>3
  <2>5. e.ts = c.ts
    <3>1. e.ts \in Nat /\ c.ts \in Nat
        BY <1>2
    <3> QED
        BY <2>4, <3>1
  <2>6. e = c
      BY <2>5 DEF DatedLog
  <2> QED
      BY <2>1, <2>3, <2>6
<1> QED
    BY <1>4, <1>5, StateFacts

\* The collector was down at a time of a stretch exactly when it was at its start or
\* went down in it.
LEMMA DownWithin ==
    ASSUME NEW log, DatedLog(log), NEW from \in Nat, NEW to \in Nat, from < to
    PROVE  (\E t \in from..(to - 1) : StateAt(log, t) = "down") <=>
              \/ StateAt(log, from) = "down"
              \/ \E c \in log : from =< c.ts /\ c.ts < to /\ c.state = "down"
<1>1. \A c \in log : c.ts \in Nat
    BY TierFacts DEF DatedLog, Change, Time
<1>2. from \in from..(to - 1)
    OBVIOUS
<1>3. ASSUME NEW c \in log, from =< c.ts, c.ts < to, c.state = "down"
      PROVE  \E t \in from..(to - 1) : StateAt(log, t) = "down"
  <2>1. c.ts \in from..(to - 1) /\ c.ts \in Nat /\ c.ts =< c.ts
      BY <1>1, <1>3
  <2>2. PICK e \in log : /\ e.ts =< c.ts /\ StateAt(log, c.ts) = e.state
                         /\ \A d \in log : d.ts =< c.ts => d.ts =< e.ts
      BY <2>1, StateFacts
  <2>3. e.ts = c.ts
    <3>1. e.ts \in Nat /\ c.ts =< e.ts
        BY <1>1, <2>1, <2>2
    <3> QED
        BY <2>1, <2>2, <3>1
  <2>4. e = c
      BY <2>3 DEF DatedLog
  <2> QED
      BY <1>3, <2>1, <2>2, <2>4
<1>4. ASSUME NEW t \in from..(to - 1), StateAt(log, t) = "down",
             ~\E c \in log : from =< c.ts /\ c.ts < to /\ c.state = "down"
      PROVE  StateAt(log, from) = "down"
  <2>1. t \in Nat /\ from =< t /\ t < to
      OBVIOUS
  <2>2. PICK c \in log : /\ c.ts =< t /\ c.state = "down"
                         /\ \A d \in log : d.ts =< t => d.ts =< c.ts
      BY <1>4, <2>1, StateFacts
  <2>3. c.ts \in Nat /\ c.ts < to
    <3>1. c.ts \in Nat
        BY <1>1
    <3> QED
        BY <2>1, <2>2, <3>1
  <2>4. c.ts =< from
    <3>1. ~(from =< c.ts)
        BY <1>4, <2>2, <2>3
    <3> QED
        BY <2>3, <3>1
  <2>5. PICK e \in log : /\ e.ts =< from /\ StateAt(log, from) = e.state
                         /\ \A d \in log : d.ts =< from => d.ts =< e.ts
      BY <2>4, StateFacts
  <2>6. c.ts =< e.ts /\ e.ts \in Nat
      BY <1>1, <2>4, <2>5
  <2>7. e.ts =< t
      BY <2>1, <2>5, <2>6
  <2>8. e.ts =< c.ts
      BY <2>2, <2>7
  <2>9. e = c
    <3>1. e.ts = c.ts
        BY <2>3, <2>6, <2>8
    <3> QED
        BY <3>1 DEF DatedLog
  <2> QED
      BY <2>2, <2>5, <2>9
<1> QED
    BY <1>2, <1>3, <1>4

\* A gap of a query is blamed on the collector exactly when the transitions that are
\* left have it down in the gap.
LEMMA BlamedExact ==
    ASSUME TablesInv, NEW q \in Query, NEW k \in Blamed(q)
    PROVE  k.reason = "collector_unavailable" <=>
              \E t \in k.from..(k.to - 1) : StateAt(transitions, t) = "down"
<1>1. PICK g : k = [from |-> g.from, to |-> g.to, reason |-> classifyGap(g)]
    BY DEF Blamed
<1>2. k.from \in Nat /\ k.to \in Nat /\ k.from < k.to
    BY BlamedLaid DEF Laid, Ordered
<1>3. DatedLog(transitions)
    BY DEF DatedLog, TablesInv, TablesTyped, TypeOK, LogApart
<1>4. k.reason = "collector_unavailable" <=>
        \/ StateAt(transitions, k.from) = "down"
        \/ \E c \in transitions : k.from =< c.ts /\ c.ts < k.to /\ c.state = "down"
  <2>1. k.from = g.from /\ k.to = g.to /\ k.reason = classifyGap(g)
      BY <1>1
  <2> QED
      BY <2>1, ClassifyFacts
<1> QED
    BY <1>2, <1>3, <1>4, DownWithin

\* Gaps are blamed on the collector exactly when it was down.
LEMMA TablesBlameExact == TablesInv => BlameExact
<1> DEFINE log == transitions \cup pruned
<1> SUFFICES ASSUME TablesInv, NEW q \in Query, NEW gap \in QueryMetrics(q.from, q.to),
                    ~Forgotten(gap)
             PROVE  (\E t \in gap.from..(gap.to - 1) : StateAt(log, t) = "down")
                        <=> gap.reason = "collector_unavailable"
    BY DEF BlameExact
<1>1. Blamed(q) \in SUBSET BlamedGap /\ Laid(Blamed(q), q.to) /\ gap \in mergeGaps(Blamed(q))
    BY BlamedLaid, QueryMerges
<1>2. gap.to \in Nat /\ \E k \in Blamed(q) :
          k.reason = gap.reason /\ k.from = gap.from /\ k.to =< gap.to
    BY <1>1, MergedStart
<1>3. PICK first \in Blamed(q) :
          first.reason = gap.reason /\ first.from = gap.from /\ first.to =< gap.to
    BY <1>2
<1>4. \A k \in Blamed(q) : k.from \in Nat /\ k.to \in Nat
    BY <1>1 DEF BlamedGap
<1>5. DatedLog(log)
    BY DEF DatedLog, TablesInv, TablesTyped, TypeOK, LogApart
<1>6. \A c \in log \ transitions : \E d \in log : d.ts =< gap.from /\ ~(d.ts =< c.ts)
    BY DEF Forgotten
<1>7. ASSUME NEW t \in Nat, gap.from =< t
      PROVE  StateAt(transitions, t) = StateAt(log, t)
  <2>1. gap.from \in Nat /\ transitions \in SUBSET log
      BY <1>3, <1>4
  <2> HIDE DEF log
  <2> QED
      BY <1>5, <1>6, <1>7, <2>1, StateKept
<1> HIDE DEF log
<1>8. ASSUME NEW t \in gap.from..(gap.to - 1), StateAt(log, t) = "down"
      PROVE  gap.reason = "collector_unavailable"
  <2>1. t \in Nat /\ gap.from =< t /\ t < gap.to
      BY <1>2, <1>3, <1>4
  <2>2. PICK k \in Blamed(q) : Within(t, k) /\ k.reason = gap.reason
      BY <1>1, <2>1, MergedOf DEF Within
  <2>3. t \in k.from..(k.to - 1)
      BY <1>4, <2>1, <2>2 DEF Within
  <2>4. StateAt(transitions, t) = "down"
      BY <1>7, <1>8, <2>1
  <2> QED
      BY <2>2, <2>3, <2>4, BlamedExact
<1>9. ASSUME gap.reason = "collector_unavailable"
      PROVE  \E t \in gap.from..(gap.to - 1) : StateAt(log, t) = "down"
  <2>1. PICK t \in first.from..(first.to - 1) : StateAt(transitions, t) = "down"
      BY <1>3, <1>9, BlamedExact
  <2>2. first.from \in Nat /\ first.to \in Nat
      BY <1>4
  <2>3. t \in Nat /\ gap.from =< t /\ t \in gap.from..(gap.to - 1)
      BY <1>2, <1>3, <2>2
  <2> QED
      BY <1>7, <2>1, <2>3
<1> QED
    BY <1>8, <1>9

\* For any step, tiers, limits, policies and ranges, and after any number and order
\* of writes, passes, errors and deletions, the tables have their types, and the gaps
\* QueryMetrics reports hold a value only in the raw samples, less than a step after
\* a sample without one, leave out no stretch of three steps without a value, and are
\* blamed on the collector exactly when it was down.
THEOREM HistoryIsRight == Spec => []HistoryInv
<1>1. TablesInv => HistoryInv
    BY TablesGapsRight, TablesBlameExact DEF HistoryInv, TablesInv, TablesTyped
<1> QED
    BY <1>1, TablesStay, PTL
=============================================================================
