------------------------------ MODULE Rollups ------------------------------
(***************************************************************************)
(* The history of a metric (internal/storage/rollups.go, retention.go and  *)
(* history.go): raw samples, the rollups a goroutine recomputes from them  *)
(* every minute, the deletion of what is too old by another one, and the   *)
(* queries, which choose a table by the length of the range and report the *)
(* gaps they find.                                                         *)
(*                                                                         *)
(* The tables of the host and those of every resource go through the same  *)
(* statements: the module has the tables of one of them.  A sample carries *)
(* the time of its snapshot, which need not be a step of the raw table     *)
(* after the one before: the step is fixed, the interval of sampling is a  *)
(* setting.  A sample has a value, or none, or none because the resource   *)
(* was idle: it had no instance, or was paused or archived.  An aggregate  *)
(* is the set of the values it was computed from.                          *)
(***************************************************************************)
EXTENDS Integers, Sequences, FiniteSets, FiniteSetsExt

CONSTANTS
    RawStep,       \* step of the raw samples (10s in the code)
    Tiers,         \* sizes of the rollup tiers (1m, 15m and 1h in the code)
    Limits,        \* longest range of a query of raw samples and of every tier but the last
    Policy,        \* retention policies: [0..number of tiers -> Nat]
    BatchLimit,    \* rows a DELETE takes (500 in the code, 2000 when aggressive)
    OfResource,    \* the tables are a resource's, not the host's
    Query,         \* ranges that are asked for
    MaxDelay,      \* bound: how late a batch is written
    MaxTime, MaxSamples, MaxTransitions, MaxFaults    \* bounds

ASSUME RollupsAssumption ==
    /\ RawStep \in Nat \ {0}
    /\ Tiers \in Seq(Nat \ {0}) /\ Limits \in Seq(Nat)
    /\ Len(Tiers) > 0 /\ Len(Limits) = Len(Tiers)
    /\ \A p \in Policy : \A i \in 0..Len(Tiers) : p[i] \in Nat
    /\ BatchLimit \in Nat \ {0}
    /\ OfResource \in BOOLEAN
    /\ \A q \in Query : q.from \in Nat /\ q.to \in Nat /\ q.from < q.to
    /\ {MaxDelay, MaxTime, MaxSamples, MaxTransitions, MaxFaults} \subseteq Nat

Tier == 1..Len(Tiers)
Table == 0..Len(Tiers)       \* raw samples, and the rollups of every tier
Log == Len(Tiers) + 1        \* collector_state_events, which go with the raw samples
Time == 0..MaxTime
Kind == {"value", "none", "idle"}
Sample == [ts : Time, kind : Kind]
Change == [ts : Time, state : {"up", "down"}]
NoPolicy == [i \in Table |-> 0]

VARIABLES
    clock,
    raw,          \* raw samples
    rollup,       \* [Tier -> rows: the bucket's time and the values aggregated]
    transitions,  \* collector_state_events of the collector
    policy,       \* Manager.retention
    roller,       \* RollupOnce: its now, the tier it is at (0: waiting)
    sweeper,      \* applyRetention: its now and policy
    cut,          \* history: raw samples deleted
    pruned,       \* history: transitions deleted
    faults

vars == <<clock, raw, rollup, transitions, policy, roller, sweeper, cut, pruned, faults>>

Rest == [now |-> 0, tier |-> 0]
Swept == [now |-> 0, policy |-> NoPolicy]
Bucket(t, k) == (t \div Tiers[k]) * Tiers[k]
Fault == faults < MaxFaults /\ faults' = faults + 1

-----------------------------------------------------------------------------
(* The writer of module Persistence. *)

\* A batch is written after its snapshot was taken, with the state of the
\* collector when that changed.
WriteBatch(ts, kind, change) ==
    /\ Cardinality(raw) + Cardinality(cut) < MaxSamples
    /\ ts \in (clock - MaxDelay)..clock
    /\ \A s \in raw \cup cut : s.ts < ts
    /\ raw' = raw \cup {[ts |-> ts, kind |-> kind]}
    /\ transitions' = transitions \cup change
    /\ UNCHANGED <<clock, rollup, policy, roller, sweeper, cut, pruned, faults>>

StateAt(log, t) ==
    LET before == {c \in log : c.ts =< t} IN
    IF before = {} THEN "up"
    ELSE (CHOOSE c \in before : \A d \in before : d.ts =< c.ts).state

\* The collector's state is recorded with a batch, when it is not the last one.
Changes(ts) ==
    LET log == transitions \cup pruned
        to == IF StateAt(log, ts) = "up" THEN "down" ELSE "up"
    IN {{}} \cup IF Cardinality(log) < MaxTransitions THEN {{[ts |-> ts, state |-> to]}} ELSE {}

-----------------------------------------------------------------------------
(* Rollups. *)

StartRollup ==
    /\ roller = Rest
    /\ roller' = [now |-> clock, tier |-> 1]
    /\ UNCHANGED <<clock, raw, rollup, transitions, policy, sweeper, cut, pruned, faults>>

Members(b, k) == {s \in raw : Bucket(s.ts, k) = b}

\* Mutant: a row is computed from the values the tier does not have yet.
RowOfNew(b, k) ==
    [ts |-> b, of |-> {s.ts : s \in {m \in Members(b, k) :
                          m.kind = "value" /\ \A row \in rollup[k] : m.ts \notin row.of}}]

Row(b, k) == [ts |-> b, of |-> {s.ts : s \in {m \in Members(b, k) : m.kind = "value"}}]

\* Mutant: buckets that are still open are aggregated too, and never again.
RowsOnce(k, cutoff) ==
    LET old == {row.ts : row \in rollup[k]}
        new == {Bucket(s.ts, k) : s \in raw} \ old
    IN rollup[k] \cup {Row(b, k) : b \in new}

\* INSERT OR REPLACE ... SELECT ... WHERE ts<cutoff GROUP BY bucket.
Rows(k, cutoff) ==
    LET closed == {Bucket(s.ts, k) : s \in {r \in raw : r.ts < cutoff}}
    IN {row \in rollup[k] : row.ts \notin closed} \cup {Row(b, k) : b \in closed}

\* RollupOnce, a tier at a time; its first error ends it.
RollupOnce ==
    LET k == roller.tier IN
    /\ k > 0
    /\ \/ /\ rollup' = [rollup EXCEPT ![k] = Rows(k, Bucket(roller.now, k))]
          /\ roller' = IF k < Len(Tiers) THEN [roller EXCEPT !.tier = k + 1] ELSE Rest
          /\ UNCHANGED faults
       \/ Fault /\ roller' = Rest /\ UNCHANGED rollup
    /\ UNCHANGED <<clock, raw, transitions, policy, sweeper, cut, pruned>>

-----------------------------------------------------------------------------
(* Retention. *)

SetRetention(p) ==
    /\ policy' = p
    /\ UNCHANGED <<clock, raw, rollup, transitions, roller, sweeper, cut, pruned, faults>>

\* applyRetention: nothing without a policy for raw samples.
StartRetention ==
    /\ sweeper = Swept
    /\ policy[0] # 0
    /\ sweeper' = [now |-> clock, policy |-> policy]
    /\ UNCHANGED <<clock, raw, rollup, transitions, policy, roller, cut, pruned, faults>>

Duration(t) == sweeper.policy[IF t = Log THEN 0 ELSE t]

Contents(t) == IF t = 0 THEN raw ELSE IF t = Log THEN transitions ELSE rollup[t]

\* Rows before the cutoff; a duration of 0 keeps the table.
Expired(t) ==
    {row \in Contents(t) : Duration(t) > 0 /\ row.ts < sweeper.now - Duration(t)}

Delete(t, batch) ==
    /\ raw' = IF t = 0 THEN raw \ batch ELSE raw
    /\ cut' = IF t = 0 THEN cut \cup batch ELSE cut
    /\ transitions' = IF t = Log THEN transitions \ batch ELSE transitions
    /\ pruned' = IF t = Log THEN pruned \cup batch ELSE pruned
    /\ rollup' = IF t \in Tier THEN [rollup EXCEPT ![t] = @ \ batch] ELSE rollup

\* A batch of expired rows is deleted; the tables come in the order of a Go map.
DeleteBatch(t) ==
    LET count == Cardinality(Expired(t)) IN
    /\ sweeper # Swept
    /\ count > 0
    /\ \E batch \in kSubset(IF count < BatchLimit THEN count ELSE BatchLimit, Expired(t)) :
          Delete(t, batch)
    /\ UNCHANGED <<clock, policy, roller, sweeper, faults>>

\* The run ends with the last expired row, or with an error.
EndRetention ==
    /\ sweeper # Swept
    /\ \/ (\A t \in Table \cup {Log} : Expired(t) = {}) /\ UNCHANGED faults
       \/ Fault
    /\ sweeper' = Swept
    /\ UNCHANGED <<clock, raw, rollup, transitions, policy, roller, cut, pruned>>

Tick ==
    /\ clock < MaxTime
    /\ clock' = clock + 1
    /\ UNCHANGED <<raw, rollup, transitions, policy, roller, sweeper, cut, pruned, faults>>

-----------------------------------------------------------------------------
(* Queries. *)

\* The finest table whose longest range the query does not exceed.
selectResolution(from, to) ==
    LET fits == {i \in 0..(Len(Tiers) - 1) : to - from =< Limits[i + 1]} IN
    IF fits = {} THEN Len(Tiers) ELSE Min(fits)

Step(res) == IF res = 0 THEN RawStep ELSE Tiers[res]

\* metricPoints and metricSource: the rows of the table in the range, both ends
\* included; a point without a value has no average.  (No two of them are at the
\* same time, which is their order.)
metricPoints(from, to, res) ==
    LET rows == IF res = 0 THEN {[at |-> s.ts, nil |-> s.kind # "value"] : s \in raw}
                ELSE {[at |-> row.ts, nil |-> row.of = {}] : row \in rollup[res]}
    IN {p \in rows : from =< p.at /\ p.at =< to}

Gap(from, to) == [from |-> from, to |-> to]

\* The cursor of findGaps when it reaches time t: the end of the last point before
\* t, or the start of the range.
Cursor(from, step, points, t) ==
    LET earlier == {p.at : p \in {q \in points : q.at < t}} IN
    IF earlier = {} THEN from ELSE Max(earlier) + step

\* The stretches of more than two steps that end with a point or with the range.
Stretches(from, to, step, points) ==
    {Gap(Cursor(from, step, points, e), e) :
        e \in {t \in {p.at : p \in points} \cup {to} :
                  t - Cursor(from, step, points, t) > 2 * step}}

\* Mutant: a point without a value is a point like any other.
findLongGaps(from, to, step, points) == Stretches(from, to, step, points)

\* findGaps: more than two steps without a point, and every point without a value.
findGaps(from, to, step, points) ==
    Stretches(from, to, step, points)
        \cup {Gap(p.at, p.at + step) : p \in {q \in points : q.nil}}

\* Mutant: only the state at the start of the gap counts.
classifyAtStart(gap) ==
    IF StateAt(transitions, gap.from) = "down" THEN "collector_unavailable" ELSE "missing"

\* classifyGap.  (Nothing writes the events it looks for first.)
classifyGap(gap) ==
    LET earlier == {s \in raw : s.ts < gap.to}
        latest == CHOOSE s \in earlier : \A r \in earlier : r.ts =< s.ts
        began == \E c \in transitions : gap.from =< c.ts /\ c.ts < gap.to /\ c.state = "down"
    IN IF StateAt(transitions, gap.from) = "down" \/ began THEN "collector_unavailable"
       ELSE IF OfResource /\ (earlier = {} \/ latest.kind = "idle") THEN "inactive"
       ELSE "missing"

\* A gap that begins before the end of the one before it, or there, and has the
\* same reason.  (The gaps of points closer than a step overlap.)
Continues(gaps, gap, last) ==
    /\ last.from < gap.from /\ gap.from =< last.to /\ last.reason = gap.reason
    /\ \A g \in gaps : ~(last.from < g.from /\ g.from < gap.from)

\* mergeGaps: neighbours with the same reason become one, from a gap that continues
\* no other to the first one from there on that no other continues.  (A gap that
\* begins later ends later.)
mergeGaps(gaps) ==
    LET heads == {g \in gaps : \A h \in gaps : ~Continues(gaps, g, h)}
        ends(head) == {g.to : g \in {h \in gaps : /\ head.from =< h.from
                                                  /\ \A n \in gaps : ~Continues(gaps, n, h)}}
    IN {[head EXCEPT !.to = Min(ends(head))] : head \in heads}

\* The gaps QueryMetrics reports.
QueryMetrics(from, to) ==
    LET res == selectResolution(from, to)
        gaps == findGaps(from, to, Step(res), metricPoints(from, to, res))
    IN mergeGaps({[from |-> gap.from, to |-> gap.to, reason |-> classifyGap(gap)] : gap \in gaps})

-----------------------------------------------------------------------------
Init ==
    /\ clock = 0
    /\ raw = {} /\ rollup = [k \in Tier |-> {}] /\ transitions = {}
    /\ policy = NoPolicy
    /\ roller = Rest /\ sweeper = Swept
    /\ cut = {} /\ pruned = {} /\ faults = 0

Next ==
    \/ \E ts \in Time, kind \in Kind : \E change \in Changes(ts) : WriteBatch(ts, kind, change)
    \/ StartRollup \/ RollupOnce
    \/ \E p \in Policy : SetRetention(p)
    \/ StartRetention \/ EndRetention
    \/ \E t \in Table \cup {Log} : DeleteBatch(t)
    \/ Tick

Spec == Init /\ [][Next]_vars

\* The rollup loop runs every minute; retention and the writer may stop.
FairSpec == Spec /\ WF_vars(StartRollup) /\ WF_vars(RollupOnce)

-----------------------------------------------------------------------------
(* Properties. *)

\* The tables and the goroutines hold values of their types.
TypeOK ==
    /\ clock \in Time
    /\ raw \subseteq Sample /\ cut \subseteq Sample
    /\ \A k \in Tier : rollup[k] \subseteq [ts : {Bucket(t, k) : t \in Time}, of : SUBSET Time]
    /\ transitions \subseteq Change /\ pruned \subseteq Change
    /\ policy \in Policy \cup {NoPolicy}
    /\ roller \in [now : Time, tier : 0..Len(Tiers)]
    /\ sweeper \in [now : Time, policy : Policy \cup {NoPolicy}]
    /\ faults \in 0..MaxFaults

\* Values whose bucket has ended and does not have them.
Owed(k) ==
    {s \in raw : /\ s.kind = "value"
                 /\ clock >= Bucket(s.ts, k) + Tiers[k]
                 /\ \A row \in rollup[k] : s.ts \notin row.of}

\* An aggregate that is recomputed loses a value only when retention has cut into
\* its bucket: until then passes, late samples and errors only add to it.
ShrinksOnlyWhenCut ==
    [][\A k \in Tier : \A row \in rollup[k] : \A new \in rollup'[k] :
          row.ts = new.ts =>
              \/ row.of \subseteq new.of
              \/ \E s \in cut' : Bucket(s.ts, k) = row.ts]_vars

\* "Replacing an existing bucket is idempotent" (the comment on RollupOnce):
\* recomputing a bucket never loses a value it was computed from before.
ReplacingIsIdempotent ==
    [][\A k \in Tier : \A row \in rollup[k] : \A new \in rollup'[k] :
          row.ts = new.ts => row.of \subseteq new.of]_vars

\* Late samples repair the aggregate: every value whose bucket has ended is
\* aggregated in every tier in the end, unless retention deletes it first.
LateSamplesRepair ==
    \A k \in Tier : Owed(k) # {} ~> Owed(k) = {}

Within(t, gap) == gap.from =< t /\ t < gap.to
\* Whatever writer, rollups and retention have left of the tables, the gaps of a
\* query are right.  A value lies in one only in the raw samples, less than a step
\* after a sample without a value, whose gap is a step long whenever the next sample
\* came; and a time outside of them is less than a step after a value, or at most two
\* steps before the next point or the end of the range.
GapsRight ==
    \A q \in Query :
        LET res == selectResolution(q.from, q.to)
            step == Step(res)
            points == metricPoints(q.from, q.to, res)
            gaps == QueryMetrics(q.from, q.to)
        IN
        /\ \A p \in points, gap \in gaps :
              ~p.nil /\ Within(p.at, gap) =>
                  res = 0 /\ \E o \in points : o.nil /\ o.at < p.at /\ p.at < o.at + step
        /\ \A t \in q.from..(q.to - 1) :
              \/ \E gap \in gaps : Within(t, gap)
              \/ \E p \in points : ~p.nil /\ p.at =< t /\ t < p.at + step
              \/ \E e \in {p.at : p \in points} \cup {q.to} : t < e /\ e =< t + 2 * step

\* Transitions that were pruned although one of them was in force in the gap.
Forgotten(gap) ==
    LET log == transitions \cup pruned IN
    \E c \in pruned : \A d \in log : d.ts =< gap.from => d.ts =< c.ts

\* A gap is blamed on the collector when it was down at some time of the gap and
\* only then, as long as retention has left the transition that was in force.
BlameExact ==
    \A q \in Query : \A gap \in QueryMetrics(q.from, q.to) :
        LET down == \E t \in gap.from..(gap.to - 1) : StateAt(transitions \cup pruned, t) = "down"
        IN Forgotten(gap) \/ (down <=> gap.reason = "collector_unavailable")

\* In every state the writer, the rollup pass and retention can leave the tables
\* in, they are typed and every query reports its gaps where data is missing and
\* blames the collector for those it caused.
HistoryInv == TypeOK /\ GapsRight /\ BlameExact
=============================================================================
