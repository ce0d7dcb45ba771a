------------------------ MODULE CheckSchedulerProofs ------------------------
(***************************************************************************)
(* Machine-checked proofs about module CheckScheduler: reservations are    *)
(* exact for every set of checks, number of workers and requests, and      *)
(* capacity of the queue.                                                  *)
(***************************************************************************)
EXTENDS CheckScheduler, SequenceTheorems, TLAPS

-----------------------------------------------------------------------------
(* Sequences without repetitions. *)

Distinct(s) == \A i, j \in DOMAIN s : s[i] = s[j] => i = j

\* The elements of a sequence without the one at position i.
LEMMA RemoveAtElements ==
    ASSUME NEW S, NEW s \in Seq(S), NEW i \in 1..Len(s)
    PROVE  /\ RemoveAt(s, i) \in Seq(S) /\ Len(RemoveAt(s, i)) = Len(s) - 1
           /\ \A k \in 1..(Len(s) - 1) : RemoveAt(s, i)[k] = IF k < i THEN s[k] ELSE s[k + 1]
<1> DEFINE a == SubSeq(s, 1, i - 1)
           b == SubSeq(s, i + 1, Len(s))
<1>1. Len(s) \in Nat /\ \A k \in 1..Len(s) : s[k] \in S
  BY LenProperties, ElementOfSeq
<1>2. /\ a \in Seq(S) /\ Len(a) = i - 1 /\ \A k \in 1..(i - 1) : a[k] = s[k]
  <2>1. 1 \in Int /\ i - 1 \in Int /\ \A k \in 1..(i - 1) : s[k] \in S
    BY <1>1
  <2>2. /\ a \in Seq(S) /\ Len(a) = IF 1 =< i - 1 THEN (i - 1) - 1 + 1 ELSE 0
        /\ \A k \in 1..((i - 1) - 1 + 1) : a[k] = s[1 + k - 1]
    BY <2>1, SubSeqProperties
  <2>3. \A k \in 1..(i - 1) : 1 + k - 1 = k
    OBVIOUS
  <2> HIDE DEF a
  <2> QED BY <1>1, <2>2, <2>3
<1>3. /\ b \in Seq(S) /\ Len(b) = Len(s) - i /\ \A k \in 1..(Len(s) - i) : b[k] = s[i + k]
  <2>1. i + 1 \in Int /\ Len(s) \in Int /\ \A k \in (i + 1)..Len(s) : s[k] \in S
    BY <1>1
  <2>2. /\ b \in Seq(S) /\ Len(b) = IF i + 1 =< Len(s) THEN Len(s) - (i + 1) + 1 ELSE 0
        /\ \A k \in 1..(Len(s) - (i + 1) + 1) : b[k] = s[(i + 1) + k - 1]
    BY <2>1, SubSeqProperties
  <2>3. \A k \in 1..(Len(s) - i) : (i + 1) + k - 1 = i + k
    BY <1>1
  <2>4. Len(s) - (i + 1) + 1 = Len(s) - i
    BY <1>1
  <2> HIDE DEF b
  <2>5. Len(b) = Len(s) - i
    BY <1>1, <2>2
  <2>6. ASSUME NEW k \in 1..(Len(s) - i) PROVE b[k] = s[i + k]
    BY <1>1, <2>2, <2>3, <2>4
  <2> QED BY <2>2, <2>5, <2>6
<1>4. RemoveAt(s, i) = a \o b
  BY DEF RemoveAt
<1> HIDE DEF a, b
<1>5. /\ a \o b \in Seq(S) /\ Len(a \o b) = Len(a) + Len(b)
      /\ \A k \in 1..(Len(a) + Len(b)) : (a \o b)[k] = IF k =< Len(a) THEN a[k] ELSE b[k - Len(a)]
  BY <1>2, <1>3, ConcatProperties
<1>6. Len(a) + Len(b) = Len(s) - 1
  BY <1>1, <1>2, <1>3
<1>7. ASSUME NEW k \in 1..(Len(s) - 1)
      PROVE  (a \o b)[k] = IF k < i THEN s[k] ELSE s[k + 1]
  <2>1. CASE k < i
    BY <1>1, <1>2, <1>5, <1>6, <2>1
  <2>2. CASE ~(k < i)
    <3>1. k - (i - 1) \in 1..(Len(s) - i) /\ i + (k - (i - 1)) = k + 1 /\ ~(k =< i - 1)
      BY <1>1, <2>2
    <3>2. (a \o b)[k] = b[k - (i - 1)]
      BY <1>2, <1>5, <1>6, <3>1
    <3> QED BY <1>3, <2>2, <3>1, <3>2
  <2> QED BY <2>1, <2>2
<1> QED BY <1>4, <1>5, <1>6, <1>7

\* Removing an element of a sequence without repetitions.
LEMMA RemoveAtDistinct ==
    ASSUME NEW S, NEW s \in Seq(S), NEW i \in 1..Len(s), Distinct(s)
    PROVE  /\ RemoveAt(s, i) \in Seq(S)
           /\ Distinct(RemoveAt(s, i)) /\ ToSet(RemoveAt(s, i)) = ToSet(s) \ {s[i]}
<1> DEFINE t == RemoveAt(s, i)
           n == Len(s) - 1
<1>1. Len(s) \in Nat /\ DOMAIN s = 1..Len(s)
  BY LenProperties
<1>2. t \in Seq(S) /\ Len(t) = n /\ \A k \in 1..n : t[k] = IF k < i THEN s[k] ELSE s[k + 1]
  BY RemoveAtElements
<1> HIDE DEF t
<1>3. DOMAIN t = 1..n
  BY <1>2, LenProperties
<1>4. ASSUME NEW p \in 1..n, NEW q \in 1..n, t[p] = t[q] PROVE p = q
  <2> DEFINE At(k) == IF k < i THEN k ELSE k + 1
  <2>1. At(p) \in 1..Len(s) /\ At(q) \in 1..Len(s) /\ s[At(p)] = s[At(q)]
    BY <1>1, <1>2, <1>4
  <2>2. At(p) = At(q)
    <3> HIDE DEF At
    <3> QED BY <1>1, <2>1 DEF Distinct
  <2> QED BY <1>1, <2>2
<1>5. ASSUME NEW x \in ToSet(t) PROVE x \in ToSet(s) \ {s[i]}
  <2>1. PICK k \in 1..n : x = t[k]
    BY <1>3 DEF ToSet
  <2>2. PICK m \in 1..Len(s) : x = s[m] /\ m # i
    BY <1>1, <1>2, <2>1
  <2> QED BY <1>1, <2>2 DEF ToSet, Distinct
<1>6. ASSUME NEW x \in ToSet(s) \ {s[i]} PROVE x \in ToSet(t)
  <2>1. PICK m \in 1..Len(s) : x = s[m] /\ m # i
    BY <1>1 DEF ToSet
  <2>2. PICK k \in 1..n : x = t[k]
    <3>1. CASE m < i
      BY <1>1, <1>2, <2>1, <3>1
    <3>2. CASE m > i
      <4>1. m - 1 \in 1..n /\ ~(m - 1 < i) /\ (m - 1) + 1 = m
        BY <1>1, <3>2
      <4> QED BY <1>2, <2>1, <4>1
    <3> QED BY <1>1, <2>1, <3>1, <3>2
  <2> QED BY <1>3, <2>2 DEF ToSet
<1> QED BY <1>2, <1>3, <1>4, <1>5, <1>6 DEF t, Distinct

\* The elements of a sequence with one more at position i + 1.
LEMMA InsertAtElements ==
    ASSUME NEW S, NEW s \in Seq(S), NEW i \in 0..Len(s), NEW e \in S
    PROVE  /\ InsertAt(s, i + 1, e) \in Seq(S) /\ Len(InsertAt(s, i + 1, e)) = Len(s) + 1
           /\ \A k \in 1..i : InsertAt(s, i + 1, e)[k] = s[k]
           /\ \A k \in 1..(Len(s) + 1) : k = i + 1 => InsertAt(s, i + 1, e)[k] = e
           /\ \A k \in (i + 2)..(Len(s) + 1) : InsertAt(s, i + 1, e)[k] = s[k - 1]
<1> DEFINE a == SubSeq(s, 1, (i + 1) - 1)
           b == SubSeq(s, i + 1, Len(s))
           c == a \o <<e>>
<1>1. Len(s) \in Nat /\ \A k \in 1..Len(s) : s[k] \in S
  BY LenProperties, ElementOfSeq
<1>2. /\ a \in Seq(S) /\ Len(a) = i /\ \A k \in 1..i : a[k] = s[k]
  <2>1. 1 \in Int /\ (i + 1) - 1 \in Int /\ (i + 1) - 1 = i /\ \A k \in 1..((i + 1) - 1) : s[k] \in S
    BY <1>1
  <2>2. /\ a \in Seq(S) /\ Len(a) = IF 1 =< (i + 1) - 1 THEN ((i + 1) - 1) - 1 + 1 ELSE 0
        /\ \A k \in 1..(((i + 1) - 1) - 1 + 1) : a[k] = s[1 + k - 1]
    BY <2>1, SubSeqProperties
  <2>3. \A k \in 1..i : 1 + k - 1 = k
    OBVIOUS
  <2> HIDE DEF a
  <2> QED BY <1>1, <2>1, <2>2, <2>3
<1>3. /\ b \in Seq(S) /\ Len(b) = Len(s) - i /\ \A k \in 1..(Len(s) - i) : b[k] = s[i + k]
  <2>1. i + 1 \in Int /\ Len(s) \in Int /\ \A k \in (i + 1)..Len(s) : s[k] \in S
    BY <1>1
  <2>2. /\ b \in Seq(S) /\ Len(b) = IF i + 1 =< Len(s) THEN Len(s) - (i + 1) + 1 ELSE 0
        /\ \A k \in 1..(Len(s) - (i + 1) + 1) : b[k] = s[(i + 1) + k - 1]
    BY <2>1, SubSeqProperties
  <2>3. \A k \in 1..(Len(s) - i) : (i + 1) + k - 1 = i + k
    BY <1>1
  <2>4. Len(s) - (i + 1) + 1 = Len(s) - i
    BY <1>1
  <2> HIDE DEF b
  <2>5. Len(b) = Len(s) - i
    BY <1>1, <2>2
  <2>6. ASSUME NEW k \in 1..(Len(s) - i) PROVE b[k] = s[i + k]
    BY <1>1, <2>2, <2>3, <2>4
  <2> QED BY <2>2, <2>5, <2>6
<1>4. InsertAt(s, i + 1, e) = c \o b
  BY DEF InsertAt
<1>5. <<e>> \in Seq(S) /\ Len(<<e>>) = 1 /\ <<e>>[1] = e
  OBVIOUS
<1> HIDE DEF a, b
<1>6. /\ c \in Seq(S) /\ Len(c) = i + 1
      /\ \A k \in 1..(i + 1) : c[k] = IF k =< i THEN s[k] ELSE e
  <2>1. /\ c \in Seq(S) /\ Len(c) = Len(a) + Len(<<e>>)
        /\ \A k \in 1..(Len(a) + Len(<<e>>)) :
              c[k] = IF k =< Len(a) THEN a[k] ELSE <<e>>[k - Len(a)]
    BY <1>2, <1>5, ConcatProperties
  <2> HIDE DEF c
  <2>2. \A k \in 1..(i + 1) : ~(k =< i) => k - i = 1
    BY <1>1
  <2> QED BY <1>2, <1>5, <2>1, <2>2
<1> HIDE DEF c
<1>7. /\ c \o b \in Seq(S) /\ Len(c \o b) = Len(c) + Len(b)
      /\ \A k \in 1..(Len(c) + Len(b)) : (c \o b)[k] = IF k =< Len(c) THEN c[k] ELSE b[k - Len(c)]
  BY <1>3, <1>6, ConcatProperties
<1>8. Len(c) + Len(b) = Len(s) + 1
  BY <1>1, <1>3, <1>6
<1> DEFINE d == c \o b
<1>9. /\ Len(d) = Len(s) + 1
      /\ \A k \in 1..(Len(s) + 1) : d[k] = IF k =< i + 1 THEN c[k] ELSE b[k - (i + 1)]
  BY <1>6, <1>7, <1>8
<1> HIDE DEF d
<1>10. ASSUME NEW k \in 1..i PROVE d[k] = s[k]
  <2>1. k \in 1..(Len(s) + 1) /\ k =< i + 1 /\ k \in 1..(i + 1)
    BY <1>1
  <2> QED BY <1>6, <1>9, <2>1
<1>11. ASSUME NEW k \in 1..(Len(s) + 1), k = i + 1 PROVE d[k] = e
  <2>1. i + 1 \in 1..(Len(s) + 1) /\ i + 1 \in 1..(i + 1) /\ ~(i + 1 =< i) /\ i + 1 =< i + 1
    BY <1>1
  <2> QED BY <1>6, <1>9, <1>11, <2>1
<1>12. ASSUME NEW k \in (i + 2)..(Len(s) + 1) PROVE d[k] = s[k - 1]
  <2>1. k - (i + 1) \in 1..(Len(s) - i) /\ i + (k - (i + 1)) = k - 1 /\ ~(k =< i + 1)
    BY <1>1
  <2>2. d[k] = b[k - (i + 1)]
    BY <1>1, <1>9, <2>1
  <2> QED BY <1>3, <2>1, <2>2
<1> QED BY <1>4, <1>7, <1>9, <1>10, <1>11, <1>12 DEF d

\* Inserting a new element into a sequence without repetitions.
LEMMA InsertAtDistinct ==
    ASSUME NEW S, NEW s \in Seq(S), NEW i \in 0..Len(s), NEW e \in S, Distinct(s), e \notin ToSet(s)
    PROVE  /\ InsertAt(s, i + 1, e) \in Seq(S)
           /\ Distinct(InsertAt(s, i + 1, e)) /\ ToSet(InsertAt(s, i + 1, e)) = ToSet(s) \cup {e}
<1> DEFINE t == InsertAt(s, i + 1, e)
           n == Len(s) + 1
<1>1. Len(s) \in Nat /\ DOMAIN s = 1..Len(s)
  BY LenProperties
<1>2. /\ t \in Seq(S) /\ Len(t) = n
      /\ \A k \in 1..i : t[k] = s[k]
      /\ \A k \in 1..n : k = i + 1 => t[k] = e
      /\ \A k \in (i + 2)..n : t[k] = s[k - 1]
  <2>1. t \in Seq(S) /\ Len(t) = n
    BY InsertAtElements
  <2>2. \A k \in 1..i : t[k] = s[k]
    BY InsertAtElements
  <2>3. \A k \in 1..n : k = i + 1 => t[k] = e
    BY InsertAtElements
  <2>4. \A k \in (i + 2)..n : t[k] = s[k - 1]
    BY InsertAtElements
  <2> QED BY <2>1, <2>2, <2>3, <2>4
<1> HIDE DEF t
<1>3. DOMAIN t = 1..n
  BY <1>2, LenProperties
<1>4. \A k \in 1..Len(s) : s[k] # e
  BY <1>1 DEF ToSet
<1>5. ASSUME NEW p \in 1..n, NEW q \in 1..n, t[p] = t[q] PROVE p = q
  <2> DEFINE At(k) == IF k =< i THEN k ELSE k - 1
  <2>1. ASSUME NEW k \in 1..n, k # i + 1
        PROVE  At(k) \in 1..Len(s) /\ t[k] = s[At(k)]
    <3>1. CASE k =< i
      <4>1. k \in 1..i /\ k \in 1..Len(s) /\ At(k) = k
        BY <1>1, <3>1
      <4> QED BY <1>2, <4>1
    <3>2. CASE ~(k =< i)
      <4>1. k \in (i + 2)..n /\ k - 1 \in 1..Len(s) /\ At(k) = k - 1
        BY <1>1, <2>1, <3>2
      <4> QED BY <1>2, <4>1
    <3> QED BY <3>1, <3>2
  <2>2. CASE p # i + 1 /\ q # i + 1
    <3>1. At(p) \in 1..Len(s) /\ At(q) \in 1..Len(s) /\ s[At(p)] = s[At(q)]
      <4> HIDE DEF At
      <4> QED BY <1>5, <2>1, <2>2
    <3>2. At(p) = At(q)
      <4> HIDE DEF At
      <4> QED BY <1>1, <3>1 DEF Distinct
    <3> QED BY <1>1, <2>2, <3>2
  <2>3. ASSUME NEW k \in 1..n, k # i + 1 PROVE t[k] # e
    <3> HIDE DEF At
    <3> QED BY <1>4, <2>1, <2>3
  <2>4. i + 1 \in 1..n /\ t[i + 1] = e
    BY <1>1, <1>2
  <2> QED BY <1>5, <2>2, <2>3, <2>4
<1>6. ASSUME NEW x \in ToSet(t) PROVE x \in ToSet(s) \cup {e}
  <2>1. PICK k \in 1..n : x = t[k]
    BY <1>3 DEF ToSet
  <2>2. x = e \/ \E m \in 1..Len(s) : x = s[m]
    BY <1>1, <1>2, <2>1
  <2> QED BY <1>1, <2>2 DEF ToSet
<1>7. e \in ToSet(t)
  <2>1. i + 1 \in 1..n /\ t[i + 1] = e
    BY <1>1, <1>2
  <2> QED BY <1>3, <2>1 DEF ToSet
<1>8. ASSUME NEW x \in ToSet(s) PROVE x \in ToSet(t)
  <2>1. PICK m \in 1..Len(s) : x = s[m]
    BY <1>1 DEF ToSet
  <2>2. PICK k \in 1..n : x = t[k]
    <3>1. CASE m =< i
      BY <1>1, <1>2, <2>1, <3>1
    <3>2. CASE m > i
      <4>1. m + 1 \in 1..n /\ m + 1 \in (i + 2)..n /\ (m + 1) - 1 = m
        BY <1>1, <3>2
      <4> QED BY <1>2, <2>1, <4>1
    <3> QED BY <1>1, <2>1, <3>1, <3>2
  <2> QED BY <1>3, <2>2 DEF ToSet
<1> QED BY <1>2, <1>3, <1>5, <1>6, <1>7, <1>8 DEF t, Distinct

-----------------------------------------------------------------------------
(* Types.  The order of runs has every existing check once. *)

RunnerRow == [at : {"idle", "reserve", "run", "release"},
              check : Check \cup {NoCheck}, ahead : SUBSET Check]
Existing == {c \in Check : status[c] \in {"on", "off", "paused"}}

TableOK ==
    /\ status \in [Check -> {"absent", "on", "off", "paused", "deleted"}]
    /\ line \in Seq(Check) /\ Distinct(line) /\ ToSet(line) = Existing
    /\ fresh \subseteq due /\ due \subseteq Existing
QueueOK ==
    /\ scheduling \in BOOLEAN /\ batch \in Seq(Check)
    /\ queue \in Seq(Check) /\ Len(queue) =< QueueCapacity
    /\ active \subseteq Check /\ restarts \in 0..MaxRestarts
RunnerOK ==
    /\ runner \in [Runner -> RunnerRow]
    /\ \A r \in Runner : runner[r].at # "idle" => runner[r].check \in Check

Typed == TableOK /\ QueueOK /\ RunnerOK

\* The parts of the types.
LEMMA TypeParts == Typed => TypeOK
BY DEF Typed, TypeOK, TableOK, QueueOK, RunnerOK, RunnerRow, Existing

\* A check that exists has a place in line; without it, the others stay.
LEMMA WithoutCheck ==
    ASSUME TableOK, NEW c \in Existing
    PROVE  /\ Without(c) \in Seq(Check) /\ Distinct(Without(c))
           /\ ToSet(Without(c)) = Existing \ {c}
<1>1. line \in Seq(Check) /\ Distinct(line) /\ DOMAIN line = 1..Len(line)
  BY LenProperties DEF TableOK
<1>2. c \in ToSet(line)
  BY DEF TableOK
<1>3. \E i \in DOMAIN line : line[i] = c
  BY <1>2 DEF ToSet
<1>4. Rank(c) \in 1..Len(line) /\ line[Rank(c)] = c
  BY <1>1, <1>3 DEF Rank
<1>5. /\ RemoveAt(line, Rank(c)) \in Seq(Check) /\ Distinct(RemoveAt(line, Rank(c)))
      /\ ToSet(RemoveAt(line, Rank(c))) = ToSet(line) \ {line[Rank(c)]}
  BY <1>1, <1>4, RemoveAtDistinct
<1> QED BY <1>4, <1>5 DEF Without, TableOK

\* A run that moves to a row of its type leaves the runs typed.
LEMMA RunnerMoves ==
    ASSUME RunnerOK, NEW r \in Runner, NEW row \in RunnerRow, row.at # "idle" => row.check \in Check,
           runner' = [runner EXCEPT ![r] = row]
    PROVE  RunnerOK'
<1>1. runner' \in [Runner -> RunnerRow]
  BY DEF RunnerOK
<1>2. \A q \in Runner : runner'[q] = IF q = r THEN row ELSE runner[q]
  BY DEF RunnerOK
<1> QED BY <1>1, <1>2 DEF RunnerOK

\* The rows of an idle run, a run that starts, and one whose result is stored.
LEMMA IdleRow == Idle \in RunnerRow /\ Idle.at = "idle"
BY DEF Idle, RunnerRow

\* A runner that starts is at its check.
LEMMA StartedRow ==
    ASSUME TableOK, NEW c \in Check
    PROVE  Started(c) \in RunnerRow /\ Started(c).at = "run" /\ Started(c).check = c
BY DEF Started, RunnerRow, TableOK, Existing

\* A runner that has run still names its check.
LEMMA ReleasedRow ==
    ASSUME NEW row \in RunnerRow
    PROVE  /\ [row EXCEPT !.at = "release"] \in RunnerRow
           /\ [row EXCEPT !.at = "release"].at = "release"
           /\ [row EXCEPT !.at = "release"].check = row.check
BY DEF RunnerRow

\* The initial table, queue and runners are typed.
LEMMA TypedInit == Init => Typed
<1> SUFFICES ASSUME Init PROVE Typed
  OBVIOUS
<1>1. TableOK
  <2>1. line \in Seq(Check) /\ DOMAIN line = {} /\ Distinct(line) /\ ToSet(line) = {}
    BY DEF Init, Distinct, ToSet
  <2> QED BY <2>1 DEF Init, TableOK, Existing
<1>2. QueueOK
  <2>1. scheduling \in BOOLEAN
    BY DEF Init
  <2> QED BY <2>1, SchedulerAssumption DEF Init, QueueOK
<1>3. RunnerOK
  BY IdleRow DEF Init, RunnerOK
<1> QED BY <1>1, <1>2, <1>3 DEF Typed

\* Every step keeps the types.
LEMMA TypedStep == Typed /\ [Next]_vars => Typed'
<1> SUFFICES ASSUME Typed, [Next]_vars PROVE Typed'
  OBVIOUS
<1> USE DEF Typed
<1>1. ASSUME NEW c \in Check, Create(c) PROVE Typed'
  <2>1. QueueOK' /\ RunnerOK'
    BY <1>1 DEF Create, QueueOK, RunnerOK
  <2>2. PICK i \in 0..Len(line) : line' = InsertAt(line, i + 1, c)
    BY <1>1 DEF Create
  <2>3. line \in Seq(Check) /\ Distinct(line) /\ c \notin ToSet(line)
    BY <1>1 DEF Create, TableOK, Existing
  <2>4. line' \in Seq(Check) /\ Distinct(line)' /\ ToSet(line') = ToSet(line) \cup {c}
    BY <2>2, <2>3, InsertAtDistinct
  <2>5. Existing' = Existing \cup {c}
    BY <1>1 DEF Create, TableOK, Existing
  <2>6. TableOK'
    BY <1>1, <2>4, <2>5 DEF Create, TableOK
  <2> QED BY <2>1, <2>6
<1>2. ASSUME NEW c \in Check, NEW s \in {"on", "off", "paused"}, Update(c, s) PROVE Typed'
  <2>1. QueueOK' /\ RunnerOK'
    BY <1>2 DEF Update, QueueOK, RunnerOK
  <2>2. Existing' = Existing
    BY <1>2 DEF Update, TableOK, Existing
  <2>3. TableOK'
    BY <1>2, <2>2 DEF Update, TableOK
  <2> QED BY <2>1, <2>3
<1>3. ASSUME NEW c \in Check, Delete(c) PROVE Typed'
  <2>1. QueueOK' /\ RunnerOK'
    BY <1>3 DEF Delete, QueueOK, RunnerOK
  <2>2. c \in Existing /\ Existing' = Existing \ {c}
    BY <1>3 DEF Delete, TableOK, Existing
  <2>3. line' \in Seq(Check) /\ Distinct(line)' /\ ToSet(line') = Existing \ {c}
    BY <1>3, <2>2, WithoutCheck DEF Delete
  <2>4. TableOK'
    BY <1>3, <2>2, <2>3 DEF Delete, TableOK
  <2> QED BY <2>1, <2>4
<1>4. ASSUME BecomeDue PROVE Typed'
  <2>1. QueueOK' /\ RunnerOK'
    BY <1>4 DEF BecomeDue, QueueOK, RunnerOK
  <2>2. PICK k \in DOMAIN line : due' = due \cup {line[k]}
    BY <1>4 DEF BecomeDue
  <2>3. line[k] \in Existing
    BY <2>2 DEF TableOK, ToSet
  <2>4. TableOK'
    BY <1>4, <2>2, <2>3 DEF BecomeDue, TableOK, Existing
  <2> QED BY <2>1, <2>4
<1>5. ASSUME Select PROVE Typed'
  <2>1. TableOK' /\ RunnerOK'
    BY <1>5 DEF Select, table, TableOK, RunnerOK, Existing
  <2>2. PICK n \in 0..QueueCapacity : batch' \in [1..n -> Eligible]
    BY <1>5 DEF Select, Due, Queried
  <2>3. Eligible \subseteq Check
    BY DEF Eligible, TableOK, Existing
  <2>4. batch' \in Seq(Check)
    BY <2>2, <2>3, SchedulerAssumption
  <2>5. QueueOK'
    BY <1>5, <2>4 DEF Select, QueueOK
  <2> QED BY <2>1, <2>5
<1>6. ASSUME Enqueue PROVE Typed'
  <2>1. TableOK' /\ RunnerOK'
    BY <1>6 DEF Enqueue, table, TableOK, RunnerOK, Existing
  <2>2. Head(batch) \in Check /\ Tail(batch) \in Seq(Check)
    BY <1>6, HeadTailProperties DEF Enqueue, QueueOK
  <2>3. scheduling' \in BOOLEAN /\ restarts' \in 0..MaxRestarts
    BY <1>6 DEF Enqueue, QueueOK
  <2>4. batch' \in Seq(Check) /\ active' \subseteq Check
    <3>1. batch' = Tail(batch) \/ batch' = <<>>
      BY <1>6 DEF Enqueue
    <3>2. active' \subseteq active \cup {Head(batch)}
      BY <1>6 DEF Enqueue
    <3>3. batch' \in Seq(Check)
      BY <2>2, <3>1, EmptySeq
    <3> QED BY <2>2, <3>2, <3>3 DEF QueueOK
  <2>5. queue' \in Seq(Check) /\ Len(queue') =< QueueCapacity
    <3>1. CASE UNCHANGED queue
      BY <3>1 DEF QueueOK
    <3>2. CASE Len(queue) < QueueCapacity /\ queue' = Append(queue, Head(batch))
      <4>1. queue' \in Seq(Check) /\ Len(queue') = Len(queue) + 1 /\ Len(queue) \in Nat
        BY <2>2, <3>2, AppendProperties, LenProperties DEF QueueOK
      <4> QED BY <3>2, <4>1, SchedulerAssumption
    <3> QED BY <1>6, <3>1, <3>2 DEF Enqueue
  <2>6. QueueOK'
    BY <2>3, <2>4, <2>5 DEF QueueOK
  <2> QED BY <2>1, <2>6
<1>7. ASSUME NEW w \in Worker, Take(w) PROVE Typed'
  <2>1. TableOK'
    BY <1>7 DEF Take, table, TableOK, Existing
  <2>2. /\ Head(queue) \in Check /\ Tail(queue) \in Seq(Check)
        /\ Len(Tail(queue)) = Len(queue) - 1 /\ Len(queue) \in Nat
    BY <1>7, HeadTailProperties, LenProperties DEF Take, QueueOK
  <2>3. QueueOK'
    <3>1. queue' \in Seq(Check) /\ Len(queue') =< QueueCapacity
      BY <1>7, <2>2, SchedulerAssumption DEF Take, QueueOK
    <3> QED BY <1>7, <3>1 DEF Take, QueueOK
  <2>4. RunnerOK'
    <3>1. /\ Started(Head(queue)) \in RunnerRow /\ Started(Head(queue)).at = "run"
          /\ Started(Head(queue)).check = Head(queue)
      BY <2>2, StartedRow
    <3>2. w \in Runner /\ runner' = [runner EXCEPT ![w] = Started(Head(queue))]
      BY <1>7 DEF Take, Runner
    <3> QED BY <2>2, <3>1, <3>2, RunnerMoves
  <2> QED BY <2>1, <2>3, <2>4
<1>8. ASSUME NEW r \in Caller, NEW c \in Check, RunNow(r, c) PROVE Typed'
  <2>1. TableOK' /\ QueueOK'
    BY <1>8 DEF RunNow, table, TableOK, QueueOK, Existing
  <2>2. RunnerOK'
    <3> DEFINE row == [at |-> "reserve", check |-> c, ahead |-> {}]
    <3>1. row \in RunnerRow /\ row.check \in Check
      BY DEF RunnerRow
    <3>2. r \in Runner /\ runner' = [runner EXCEPT ![r] = row]
      BY <1>8 DEF RunNow, Runner
    <3> HIDE DEF row
    <3> QED BY <3>1, <3>2, RunnerMoves
  <2> QED BY <2>1, <2>2
<1>9. ASSUME NEW r \in Caller, Reserve(r) PROVE Typed'
  <2>1. TableOK'
    BY <1>9 DEF Reserve, table, TableOK, Existing
  <2>2. r \in Runner /\ runner[r].check \in Check
    BY <1>9 DEF Reserve, Runner, RunnerOK
  <2>3. QueueOK'
    BY <1>9, <2>2 DEF Reserve, QueueOK
  <2>4. RunnerOK'
    <3>1. CASE runner' = [runner EXCEPT ![r] = Idle]
      BY <2>2, <3>1, IdleRow, RunnerMoves
    <3>2. CASE runner' = [runner EXCEPT ![r] = Started(runner[r].check)]
      <4>1. /\ Started(runner[r].check) \in RunnerRow
            /\ Started(runner[r].check).check = runner[r].check
        BY <2>2, StartedRow
      <4> QED BY <2>2, <3>2, <4>1, RunnerMoves
    <3> QED BY <1>9, <3>1, <3>2 DEF Reserve
  <2> QED BY <2>1, <2>3, <2>4
<1>10. ASSUME NEW r \in Runner, SaveResult(r) PROVE Typed'
  <2> DEFINE c == runner[r].check
  <2>1. c \in Existing
    BY <1>10 DEF SaveResult, Listed, TableOK, ToSet
  <2>2. Without(c) \in Seq(Check) /\ Distinct(Without(c)) /\ ToSet(Without(c)) = Existing \ {c}
    BY <2>1, WithoutCheck
  <2> HIDE DEF c
  <2>3. PICK i \in Behind(c, runner[r].ahead) :
            line' = InsertAt(Without(c), i + 1, c) /\ (due' = due \cup {c} \/ due' = due \ {c})
    BY <1>10 DEF SaveResult, c
  <2>4. i \in 0..Len(Without(c)) /\ c \in Check
    BY <2>1 DEF Behind, Existing
  <2>5. line' \in Seq(Check) /\ Distinct(line)' /\ ToSet(line') = Existing
    <3>1. c \notin ToSet(Without(c))
      BY <2>2
    <3>2. /\ InsertAt(Without(c), i + 1, c) \in Seq(Check)
          /\ Distinct(InsertAt(Without(c), i + 1, c))
          /\ ToSet(InsertAt(Without(c), i + 1, c)) = ToSet(Without(c)) \cup {c}
      BY <2>2, <2>4, <3>1, InsertAtDistinct
    <3> QED BY <2>1, <2>2, <2>3, <3>2
  <2>6. TableOK'
    <3>1. UNCHANGED status /\ Existing' = Existing /\ fresh' = fresh \ {c}
      BY <1>10 DEF SaveResult, Existing, c
    <3> QED BY <2>1, <2>3, <2>5, <3>1 DEF TableOK
  <2>7. QueueOK'
    BY <1>10 DEF SaveResult, QueueOK
  <2>8. RunnerOK'
    <3> DEFINE row == [runner[r] EXCEPT !.at = "release"]
    <3>1. row \in RunnerRow /\ row.check = runner[r].check /\ runner[r].check \in Check
      BY <1>10, ReleasedRow DEF SaveResult, RunnerOK
    <3>2. runner' = [runner EXCEPT ![r] = row]
      BY <1>10 DEF SaveResult
    <3> HIDE DEF row
    <3> QED BY <3>1, <3>2, RunnerMoves
  <2> QED BY <2>6, <2>7, <2>8
<1>11. ASSUME NEW r \in Runner, SaveFails(r) PROVE Typed'
  <2>1. TableOK' /\ QueueOK'
    BY <1>11 DEF SaveFails, table, TableOK, QueueOK, Existing
  <2>2. RunnerOK'
    <3> DEFINE row == [runner[r] EXCEPT !.at = "release"]
    <3>1. row \in RunnerRow /\ row.check = runner[r].check /\ runner[r].check \in Check
      BY <1>11, ReleasedRow DEF SaveFails, RunnerOK
    <3>2. runner' = [runner EXCEPT ![r] = row]
      BY <1>11 DEF SaveFails
    <3> HIDE DEF row
    <3> QED BY <3>1, <3>2, RunnerMoves
  <2> QED BY <2>1, <2>2
<1>12. ASSUME NEW r \in Runner, Release(r) PROVE Typed'
  <2>1. TableOK'
    BY <1>12 DEF Release, table, TableOK, Existing
  <2>2. QueueOK'
    BY <1>12 DEF Release, QueueOK
  <2>3. RunnerOK'
    BY <1>12, IdleRow, RunnerMoves DEF Release
  <2> QED BY <2>1, <2>2, <2>3
<1>13. ASSUME Restart PROVE Typed'
  <2>1. TableOK'
    BY <1>13 DEF Restart, table, TableOK, Existing
  <2>2. QueueOK'
    <3>1. scheduling' \in BOOLEAN
      BY <1>13 DEF Restart
    <3> QED BY <1>13, <3>1, SchedulerAssumption DEF Restart, QueueOK
  <2>3. RunnerOK'
    BY <1>13, IdleRow DEF Restart, RunnerOK
  <2> QED BY <2>1, <2>2, <2>3
<1>14. CASE UNCHANGED vars
  BY <1>14 DEF vars, table, TableOK, QueueOK, RunnerOK, Existing
<1>15. Worker \subseteq Runner /\ Caller \subseteq Runner
  BY DEF Runner
<1> QED BY <1>1, <1>2, <1>3, <1>4, <1>5, <1>6, <1>7, <1>8, <1>9, <1>10, <1>11, <1>12, <1>13,
      <1>14, <1>15 DEF Next, Configure, Schedule, Work, Request

-----------------------------------------------------------------------------
(* Reservations. *)

Holds(r) == runner[r].at \in {"run", "release"}

\* The checks on the queue.
Queued == {queue[i] : i \in DOMAIN queue}

\* Reservations are exact.  This is the invariant itself: with the types it is inductive.
Reserved ==
    /\ Distinct(queue)
    /\ \A r \in Runner : Holds(r) => runner[r].check \notin Queued
    /\ \A r, s \in Runner : Holds(r) /\ Holds(s) /\ runner[r].check = runner[s].check => r = s
    /\ \A c \in Check : c \in active <=> c \in Queued \/ \E r \in Runner : Holds(r) /\ runner[r].check = c

ReservedInd == Typed /\ Reserved

\* A step that leaves the queue, the reservations and the runs that hold one alone.
LEMMA ReservedStays ==
    ASSUME Reserved, UNCHANGED <<queue, active>>,
           \A r \in Runner : /\ Holds(r)' <=> Holds(r)
                             /\ Holds(r) => runner'[r].check = runner[r].check
    PROVE  Reserved'
<1>1. Queued' = Queued /\ Distinct(queue)'
  BY DEF Queued, Reserved
<1>2. \A r \in Runner : Holds(r)' => runner'[r].check \notin Queued
  BY DEF Reserved
<1>3. \A r, s \in Runner : Holds(r)' /\ Holds(s)' /\ runner'[r].check = runner'[s].check => r = s
  BY DEF Reserved
<1>4. \A c \in Check : c \in active <=> c \in Queued \/ \E r \in Runner : Holds(r)' /\ runner'[r].check = c
  BY DEF Reserved
<1> QED BY <1>1, <1>2, <1>3, <1>4 DEF Reserved

\* What the head of a queue without repetitions leaves.
LEMMA TailOfQueue ==
    ASSUME QueueOK, Distinct(queue), queue # <<>>, queue' = Tail(queue)
    PROVE  Distinct(queue)' /\ Queued' = Queued \ {Head(queue)} /\ Head(queue) \in Queued
<1> DEFINE n == Len(queue)
<1>1. n \in Nat \ {0} /\ DOMAIN queue = 1..n /\ Head(queue) = queue[1]
  BY EmptySeq, LenProperties DEF QueueOK
<1>2. Tail(queue) \in Seq(Check) /\ Len(Tail(queue)) = n - 1
      /\ \A i \in 1..(n - 1) : Tail(queue)[i] = queue[i + 1]
  <2>1. /\ Tail(queue) \in Seq(Check) /\ Len(Tail(queue)) = Len(queue) - 1
        /\ \A i \in 1..Len(Tail(queue)) : Tail(queue)[i] = queue[i + 1]
    BY HeadTailProperties DEF QueueOK
  <2> QED BY <2>1
<1> HIDE DEF n
<1>3. queue' \in Seq(Check) /\ Len(queue') = n - 1 /\ \A i \in 1..(n - 1) : queue'[i] = queue[i + 1]
  BY <1>2
<1>4. DOMAIN queue' = 1..(n - 1)
  BY <1>3, LenProperties
<1>5. Distinct(queue)'
  BY <1>1, <1>3, <1>4 DEF Distinct
<1>6. ASSUME NEW x \in Queued' PROVE x \in Queued \ {Head(queue)}
  <2>1. PICK i \in 1..(n - 1) : x = queue'[i]
    BY <1>4 DEF Queued
  <2>2. i + 1 \in 1..n /\ i + 1 # 1 /\ x = queue[i + 1]
    BY <1>1, <1>3, <2>1
  <2> QED BY <1>1, <2>2 DEF Queued, Distinct
<1>7. ASSUME NEW x \in Queued \ {Head(queue)} PROVE x \in Queued'
  <2>1. PICK j \in 1..n : x = queue[j]
    BY <1>1 DEF Queued
  <2>2. j - 1 \in 1..(n - 1) /\ (j - 1) + 1 = j
    BY <1>1, <1>7, <2>1
  <2>3. x = queue'[j - 1]
    BY <1>3, <2>1, <2>2
  <2> QED BY <1>4, <2>2, <2>3 DEF Queued
<1>8. Head(queue) \in Queued
  BY <1>1 DEF Queued
<1> QED BY <1>5, <1>6, <1>7, <1>8

\* What a new check at the end of the queue adds.
LEMMA AppendToQueue ==
    ASSUME QueueOK, Distinct(queue), NEW c \in Check, c \notin Queued, queue' = Append(queue, c)
    PROVE  Distinct(queue)' /\ Queued' = Queued \cup {c}
<1> DEFINE n == Len(queue)
<1>1. n \in Nat /\ DOMAIN queue = 1..n
  BY LenProperties DEF QueueOK
<1>2. /\ queue' \in Seq(Check) /\ Len(queue') = n + 1
      /\ \A i \in 1..n : queue'[i] = queue[i]
      /\ queue'[n + 1] = c
  BY AppendProperties DEF QueueOK
<1> HIDE DEF n
<1>3. DOMAIN queue' = 1..(n + 1)
  BY <1>2, LenProperties
<1>4. \A i \in 1..n : queue'[i] # c
  BY <1>1, <1>2 DEF Queued
<1>5. \A i \in 1..(n + 1) : i \in 1..n \/ i = n + 1
  BY <1>1
<1>6. Distinct(queue)'
  BY <1>1, <1>2, <1>3, <1>4, <1>5 DEF Distinct
<1>7. Queued' \subseteq Queued \cup {c}
  BY <1>1, <1>2, <1>3, <1>5 DEF Queued
<1>8. n + 1 \in 1..(n + 1) /\ \A i \in 1..n : i \in 1..(n + 1)
  BY <1>1
<1>9. Queued \cup {c} \subseteq Queued'
  BY <1>1, <1>2, <1>3, <1>8 DEF Queued
<1> QED BY <1>6, <1>7, <1>9

\* Every step keeps reservations and runners together.
LEMMA ReservedStep == ReservedInd /\ [Next]_vars => ReservedInd'
<1> SUFFICES ASSUME ReservedInd, [Next]_vars PROVE ReservedInd'
  OBVIOUS
<1>0. Typed'
  BY TypedStep DEF ReservedInd
<1>a. QueueOK /\ RunnerOK /\ TableOK /\ Reserved
  BY DEF ReservedInd, Typed
<1>b. runner \in [Runner -> RunnerRow] /\ \A r \in Runner : Holds(r) => runner[r].check \in Check
  BY <1>a DEF RunnerOK, Holds
<1>1. ASSUME Configure \/ BecomeDue \/ Select \/ UNCHANGED vars PROVE Reserved'
  <2>1. UNCHANGED <<queue, active, runner>>
    BY <1>1 DEF Configure, Create, Update, Delete, BecomeDue, Select, vars
  <2> QED BY <1>a, <2>1, ReservedStays DEF Holds
<1>2. ASSUME Enqueue PROVE Reserved'
  <2>1. UNCHANGED runner
    BY <1>2 DEF Enqueue
  <2>2. CASE UNCHANGED <<queue, active>>
    BY <1>a, <2>1, <2>2, ReservedStays DEF Holds
  <2>3. CASE /\ Head(batch) \notin active
             /\ queue' = Append(queue, Head(batch))
             /\ active' = active \cup {Head(batch)}
    <3> DEFINE c == Head(batch)
    <3>1. c \in Check
      BY <1>a, <1>2, HeadTailProperties DEF Enqueue, QueueOK
    <3> HIDE DEF c
    <3>2. c \notin Queued /\ \A r \in Runner : Holds(r) => runner[r].check # c
      BY <1>a, <2>3, <3>1 DEF Reserved, c
    <3>3. Distinct(queue)' /\ Queued' = Queued \cup {c}
      BY <1>a, <2>3, <3>1, <3>2, AppendToQueue DEF Reserved, c
    <3>4. \A r \in Runner : Holds(r)' <=> Holds(r)
      BY <2>1 DEF Holds
    <3>5. \A d \in Check : d \in active' <=>
              d \in Queued' \/ \E r \in Runner : Holds(r)' /\ runner'[r].check = d
      BY <1>a, <2>1, <2>3, <3>3, <3>4 DEF Reserved, c
    <3> QED BY <1>a, <2>1, <3>2, <3>3, <3>4, <3>5 DEF Reserved
  <2> QED BY <1>2, <2>2, <2>3 DEF Enqueue
<1>3. ASSUME NEW w \in Worker, Take(w) PROVE Reserved'
  <2> DEFINE c == Head(queue)
  <2>1. w \in Runner /\ ~Holds(w) /\ UNCHANGED active
    BY <1>3 DEF Take, Runner, Holds
  <2>2. Distinct(queue)' /\ Queued' = Queued \ {c} /\ c \in Queued
    BY <1>a, <1>3, TailOfQueue DEF Take, Reserved
  <2>3. c \in Check
    BY <1>a, <1>3, HeadTailProperties DEF Take, QueueOK
  <2>4. runner' = [runner EXCEPT ![w] = Started(c)]
    BY <1>3 DEF Take
  <2> HIDE DEF c
  <2>5. /\ Holds(w)' /\ runner'[w].check = c
        /\ \A r \in Runner \ {w} : runner'[r] = runner[r] /\ (Holds(r)' <=> Holds(r))
    BY <1>a, <1>b, <2>1, <2>3, <2>4, StartedRow DEF Holds
  <2>6. \A r \in Runner : Holds(r)' => runner'[r].check \notin Queued'
    BY <1>a, <2>2, <2>5 DEF Reserved
  <2>7. \A r \in Runner \ {w} : Holds(r) => runner[r].check # c
    BY <1>a, <2>2 DEF Reserved
  <2>8. \A r, s \in Runner : Holds(r)' /\ Holds(s)' /\ runner'[r].check = runner'[s].check => r = s
    BY <1>a, <2>5, <2>7 DEF Reserved
  <2>9. ASSUME NEW d \in Check
        PROVE  d \in active' <=> d \in Queued' \/ \E r \in Runner : Holds(r)' /\ runner'[r].check = d
    <3>1. d \in active <=> d \in Queued \/ \E r \in Runner : Holds(r) /\ runner[r].check = d
      BY <1>a DEF Reserved
    <3>2. (\E r \in Runner : Holds(r)' /\ runner'[r].check = d)
          <=> d = c \/ \E r \in Runner : Holds(r) /\ runner[r].check = d
      BY <2>1, <2>5
    <3> QED BY <2>1, <2>2, <3>1, <3>2
  <2> QED BY <2>2, <2>6, <2>8, <2>9 DEF Reserved
<1>4. ASSUME NEW r \in Caller, NEW c \in Check, RunNow(r, c) PROVE Reserved'
  <2>1. r \in Runner /\ ~Holds(r) /\ ~Holds(r)' /\ UNCHANGED <<queue, active>>
    BY <1>b, <1>4 DEF RunNow, Runner, Holds
  <2>2. \A q \in Runner \ {r} : runner'[q] = runner[q]
    BY <1>b, <1>4 DEF RunNow
  <2> QED BY <1>a, <2>1, <2>2, ReservedStays DEF Holds
<1>5. ASSUME NEW r \in Caller, Reserve(r) PROVE Reserved'
  <2> DEFINE c == runner[r].check
  <2>1. r \in Runner /\ ~Holds(r) /\ UNCHANGED queue /\ c \in Check
    BY <1>a, <1>5 DEF Reserve, Runner, Holds, RunnerOK
  <2>2. CASE UNCHANGED active /\ runner' = [runner EXCEPT ![r] = Idle]
    <3>1. ~Holds(r)' /\ \A q \in Runner \ {r} : runner'[q] = runner[q]
      BY <1>b, <2>1, <2>2 DEF Holds, Idle
    <3> QED BY <1>a, <2>1, <2>2, <3>1, ReservedStays DEF Holds
  <2>3. CASE /\ c \notin active /\ active' = active \cup {c}
             /\ runner' = [runner EXCEPT ![r] = Started(c)]
    <3> HIDE DEF c
    <3>1. /\ Holds(r)' /\ runner'[r].check = c
          /\ \A q \in Runner \ {r} : runner'[q] = runner[q] /\ (Holds(q)' <=> Holds(q))
      BY <1>a, <1>b, <2>1, <2>3, StartedRow DEF Holds
    <3>2. c \notin Queued /\ \A q \in Runner : Holds(q) => runner[q].check # c
      BY <1>a, <2>1, <2>3 DEF Reserved
    <3>3. Queued' = Queued /\ Distinct(queue)'
      BY <1>a, <2>1 DEF Queued, Reserved
    <3>4. \A q \in Runner : Holds(q)' => runner'[q].check \notin Queued'
      BY <1>a, <3>1, <3>2, <3>3 DEF Reserved
    <3>5. \A q, s \in Runner : Holds(q)' /\ Holds(s)' /\ runner'[q].check = runner'[s].check => q = s
      BY <1>a, <3>1, <3>2 DEF Reserved
    <3>6. ASSUME NEW d \in Check
          PROVE  d \in active' <=> d \in Queued' \/ \E q \in Runner : Holds(q)' /\ runner'[q].check = d
      <4>1. d \in active <=> d \in Queued \/ \E q \in Runner : Holds(q) /\ runner[q].check = d
        BY <1>a DEF Reserved
      <4>2. (\E q \in Runner : Holds(q)' /\ runner'[q].check = d)
            <=> d = c \/ \E q \in Runner : Holds(q) /\ runner[q].check = d
        BY <2>1, <3>1
      <4> QED BY <2>3, <3>3, <4>1, <4>2
    <3> QED BY <3>3, <3>4, <3>5, <3>6 DEF Reserved
  <2> QED BY <1>5, <2>2, <2>3 DEF Reserve
<1>6. ASSUME NEW r \in Runner, SaveResult(r) \/ SaveFails(r) PROVE Reserved'
  <2>1. /\ UNCHANGED <<queue, active>> /\ runner[r].at = "run"
        /\ runner' = [runner EXCEPT ![r].at = "release"]
    BY <1>6 DEF SaveResult, SaveFails
  <2>2. /\ runner'[r].at = "release" /\ runner'[r].check = runner[r].check
        /\ \A q \in Runner \ {r} : runner'[q] = runner[q]
    BY <1>b, <2>1, ReleasedRow
  <2> QED BY <1>a, <2>1, <2>2, ReservedStays DEF Holds
<1>7. ASSUME NEW r \in Runner, Release(r) PROVE Reserved'
  <2> DEFINE c == runner[r].check
  <2>1. /\ Holds(r) /\ UNCHANGED queue /\ active' = active \ {c}
        /\ runner' = [runner EXCEPT ![r] = Idle]
    BY <1>7 DEF Release, Holds
  <2>2. /\ ~Holds(r)'
        /\ \A q \in Runner \ {r} : runner'[q] = runner[q] /\ (Holds(q)' <=> Holds(q))
    BY <1>b, <2>1, IdleRow DEF Holds
  <2> HIDE DEF c
  <2>3. Queued' = Queued /\ Distinct(queue)' /\ c \notin Queued
    BY <1>a, <2>1 DEF Queued, Reserved, c
  <2>4. \A q \in Runner \ {r} : Holds(q) => runner[q].check # c
    BY <1>a, <2>1 DEF Reserved, c
  <2>5. ASSUME NEW d \in Check
        PROVE  d \in active' <=> d \in Queued' \/ \E q \in Runner : Holds(q)' /\ runner'[q].check = d
    <3>1. d \in active <=> d \in Queued \/ \E q \in Runner : Holds(q) /\ runner[q].check = d
      BY <1>a DEF Reserved
    <3>2. (\E q \in Runner : Holds(q)' /\ runner'[q].check = d)
          <=> d # c /\ \E q \in Runner : Holds(q) /\ runner[q].check = d
      BY <2>1, <2>2, <2>4 DEF c
    <3> QED BY <2>1, <2>3, <3>1, <3>2
  <2>6. \A q \in Runner : Holds(q)' => runner'[q].check \notin Queued'
    BY <1>a, <2>2, <2>3 DEF Reserved
  <2>7. \A q, s \in Runner : Holds(q)' /\ Holds(s)' /\ runner'[q].check = runner'[s].check => q = s
    BY <1>a, <2>2 DEF Reserved
  <2> QED BY <2>3, <2>5, <2>6, <2>7 DEF Reserved
<1>8. ASSUME Restart PROVE Reserved'
  <2>1. queue' = <<>> /\ active' = {} /\ \A r \in Runner : ~Holds(r)'
    BY <1>8 DEF Restart, Holds, Idle
  <2>2. Queued' = {} /\ Distinct(queue)'
    BY <2>1 DEF Queued, Distinct
  <2> QED BY <2>1, <2>2 DEF Reserved
<1>9. Worker \subseteq Runner /\ Caller \subseteq Runner
  BY DEF Runner
<1>10. Reserved'
  BY <1>1, <1>2, <1>3, <1>4, <1>5, <1>6, <1>7, <1>8, <1>9 DEF ReservedInd, Next, Schedule, Work, Request
<1> QED BY <1>0, <1>10 DEF ReservedInd

\* Whatever the order of batches, manual runs, deletions, full queues and restarts, a check
\* is run by one goroutine at a time and never while it waits on the queue, and its id
\* is reserved exactly that long (Scheduler.schedule, worker, RunNow, reserve, release).
THEOREM ReservationsExact == Spec => []ReservationInv
<1>1. Init => ReservedInd
  <2> SUFFICES ASSUME Init PROVE ReservedInd
    OBVIOUS
  <2>1. Queued = {} /\ Distinct(queue) /\ active = {} /\ \A r \in Runner : ~Holds(r)
    BY DEF Init, Queued, Distinct, Holds, Idle
  <2> QED BY <2>1, TypedInit DEF ReservedInd, Reserved
<1>2. ReservedInd => ReservationInv
  <2> SUFFICES ASSUME ReservedInd PROVE ReservationInv
    OBVIOUS
  <2>1. TypeOK /\ active \subseteq Check
    BY TypeParts DEF ReservedInd, Typed, QueueOK
  <2>2. \A c : InQueue(c) <=> c \in Queued
    BY DEF InQueue, Queued
  <2>3. OneRunAtATime
    BY <2>2 DEF ReservedInd, Reserved, OneRunAtATime, Holds, Distinct
  <2>4. NoLeakedReservation
    <3>1. \A c \in Check : c \in active <=> InQueue(c) \/ Running(c)
      BY <2>2 DEF ReservedInd, Reserved, Running, Holds
    <3> QED BY <2>1, <3>1 DEF NoLeakedReservation
  <2> QED BY <2>1, <2>3, <2>4 DEF ReservationInv
<1> QED BY <1>1, <1>2, ReservedStep, PTL DEF Spec
=============================================================================
