----------------------- MODULE HistoryDeletionProofs -----------------------
(***************************************************************************)
(* Machine-checked proofs about module HistoryDeletion: a completed        *)
(* deletion has deleted what was confirmed but for samples of containers   *)
(* that changed hands, no row behind the fence or of another resource is   *)
(* deleted, and a cancelled one stops before its second batch, for any     *)
(* resources, containers, jobs and kinds of deletion, every batch size and *)
(* any number of writes, storage errors and restarts.                      *)
(***************************************************************************)
EXTENDS HistoryDeletion, FiniteSetTheorems, TLAPS

-----------------------------------------------------------------------------
(* The plan of a deletion. *)

Tables == {"host", "instance", "resource"}
KindName == {"resource", "before", "all", "archived_resource"}
WorkerAt == {"idle", "mark", "check", "batch", "finish"}
Working == {"check", "batch", "finish"}
JobState == {"none", "previewed"} \cup Active \cup Finished

\* The bounds are numbers, and a batch has room for a row.
LEMMA Bounds ==
    /\ Kind \subseteq KindName /\ BatchSize \in Nat \ {0} /\ MaxTime \in Nat /\ MaxWrites \in Nat
    /\ MaxFaults \in Nat /\ MaxRestarts \in Nat /\ IsFiniteSet(Resource) /\ Job # {}
    /\ IsFiniteSet(Container) /\ None \notin Resource
  BY DeletionAssumption DEF KindName, None

\* A sample that left the JOIN of a job when a container of S was taken.
Stray(job, S, row) == ForResource(job) /\ row.table = "instance" /\ row.container \in S

\* The rows that a job selects when f assigns the containers to resources, and those
\* that left its JOIN.
Covers(job, S, f, row) ==
    /\ InTime(job, row)
    /\ ForResource(job) =>
          \/ row.table = "resource" /\ row.resource = job.resource
          \/ row.table = "instance" /\ (f[row.container] = job.resource \/ row.container \in S)

\* What a job covers it selects, or it has escaped.
LEMMA CoversIs ==
    ASSUME NEW job, NEW S, NEW row
    PROVE  /\ Selects(job, row) => Covers(job, S, instances, row)
           /\ Covers(job, S, instances, row) => Selects(job, row) \/ Stray(job, S, row)
  BY DEF Selects, Covers, Stray

\* A plan has at most six tables, comes to every table of the scope, and passes the
\* samples before it comes to the containers.
LEMMA PlanFacts ==
    ASSUME NEW job \in JobRow
    PROVE  /\ Len(Plan(job)) \in 1..6
           /\ \A row \in Row : \A S, f : Covers(job, S, f, row) =>
                 \E k \in 1..Len(Plan(job)) : Plan(job)[k] = row.table
           /\ ForResource(job) => /\ Plan(job)[1] = "instance"
                                  /\ \A k \in 1..Len(Plan(job)) :
                                        Plan(job)[k] = "container_instances" => k > 1
<1>1. job.kind \in KindName
  BY Bounds DEF JobRow
<1>2. \A row \in Row : row.table \in Tables
  BY DEF Row, Tables
<1>3. CASE job.kind = "resource"
  <2>1. Plan(job) = <<"instance", "resource">>
    BY <1>3 DEF Plan, deletionTables, metadataDeletionTables
  <2>2. Len(Plan(job)) = 2 /\ Plan(job)[1] = "instance" /\ Plan(job)[2] = "resource"
    BY <2>1
  <2>3. \A row \in Row : \A S, f : Covers(job, S, f, row) => row.table \in {"instance", "resource"}
    BY <1>3 DEF Covers, ForResource
  <2> QED BY <2>2, <2>3
<1>4. CASE job.kind = "archived_resource"
  <2>1. Plan(job) = <<"instance", "resource">> \o <<"container_instances", "resources">>
    BY <1>4 DEF Plan, deletionTables, metadataDeletionTables
  <2>2. Len(Plan(job)) = 4 /\ Plan(job)[1] = "instance" /\ Plan(job)[2] = "resource"
    BY <2>1
  <2>3. \A row \in Row : \A S, f : Covers(job, S, f, row) => row.table \in {"instance", "resource"}
    BY <1>4 DEF Covers, ForResource
  <2> QED BY <2>2, <2>3
<1>5. CASE job.kind = "before"
  <2>1. Plan(job) = <<"host", "instance", "resource">>
    BY <1>5 DEF Plan, deletionTables, metadataDeletionTables
  <2>2. /\ Len(Plan(job)) = 3 /\ Plan(job)[1] = "host" /\ Plan(job)[2] = "instance"
        /\ Plan(job)[3] = "resource" /\ ~ForResource(job)
    BY <1>5, <2>1 DEF ForResource
  <2> QED BY <1>2, <2>2 DEF Tables
<1>6. CASE job.kind = "all"
  <2>1. Plan(job) = <<"host", "instance", "resource">> \o <<"container_instances", "resources", "hosts">>
    BY <1>6 DEF Plan, deletionTables, metadataDeletionTables
  <2>2. /\ Len(Plan(job)) = 6 /\ Plan(job)[1] = "host" /\ Plan(job)[2] = "instance"
        /\ Plan(job)[3] = "resource" /\ ~ForResource(job)
    BY <1>6, <2>1 DEF ForResource
  <2> QED BY <1>2, <2>2 DEF Tables
<1> QED BY <1>1, <1>3, <1>4, <1>5, <1>6 DEF KindName

\* Jobs with the same terms cover the same rows along the same plan.
SameTerms(new, old) ==
    /\ new.kind = old.kind /\ new.resource = old.resource
    /\ new.before = old.before /\ new.fence = old.fence

\* So an update of a job that keeps its terms keeps its scope.
LEMMA SameScope ==
    ASSUME NEW new, NEW old, SameTerms(new, old)
    PROVE  /\ Plan(new) = Plan(old)
           /\ \A S, f, row : Covers(new, S, f, row) <=> Covers(old, S, f, row)
           /\ \A S, row : Stray(new, S, row) <=> Stray(old, S, row)
  BY DEF SameTerms, Plan, deletionTables, metadataDeletionTables, Covers, Stray, ForResource, InTime

-----------------------------------------------------------------------------
(* The inductive invariant. *)

\* The tables are finite: a batch that deletes nothing found nothing.
FiniteRows == IsFiniteSet(rows)

\* The worker's job is the only one that is under way, and the worker is within its
\* plan.  A cancelled job has deleted at most one batch since, and none before it
\* is under way again.
WorkerInd ==
    /\ \A i, j \in Job : jobs[i].state \in Active /\ jobs[j].state \in Active => i = j
    /\ runner.at = "mark" => /\ jobs[runner.job].state \in {"queued", "cancelled"}
                             /\ jobs[runner.job].extra = 0
    /\ runner.at \in Working => jobs[runner.job].state \in {"running", "cancelling"}
    /\ runner.at \in {"check", "batch"} => runner.table =< Len(Plan(jobs[runner.job]))
    /\ runner.at = "finish" => runner.table = Len(Plan(jobs[runner.job])) + 1
    /\ runner.at = "batch" => jobs[runner.job].extra = 0
    /\ runner.at \in {"idle", "mark"} => runner.table = 1
    /\ \A j \in Job : jobs[j].state \in {"none", "previewed", "queued", "running"} => jobs[j].extra = 0

\* What is left of a confirmation is still stored, and in the scope of its job but
\* for what has escaped; only that is in a table the worker has passed.
LeftInd ==
    /\ \A j \in Job : jobs[j].state \in {"none", "previewed"} => jobs[j].left = {}
    /\ \A j \in Job : \A row \in jobs[j].left : row \in rows /\ Covers(jobs[j], strayed[j], instances, row)
    /\ runner.at \in Working => \A k \in 1..(runner.table - 1) : \A row \in jobs[runner.job].left :
                                     \/ row.table # Plan(jobs[runner.job])[k]
                                     \/ Stray(jobs[runner.job], strayed[runner.job], row)

\* Who a container was assigned to includes whose samples are stored of it, and its
\* present resource.
Attributed ==
    /\ \A row \in rows : row.table = "instance" => row.resource \in owners[row.container]
    /\ \A c \in Container : instances[c] # None => instances[c] \in owners[c]

\* CompletedDeletedAll with the strays written out.
OnlyStrays ==
    \A j \in Job : jobs[j].state = "completed" =>
        \A row \in jobs[j].left : Stray(jobs[j], strayed[j], row)

\* The inductive invariant of the whole module.
DeletionInd ==
    /\ TypeOK /\ FiniteRows /\ WorkerInd /\ LeftInd /\ Attributed
    /\ CancelIsPrompt /\ StrandedOnlyByFaults /\ OnlyStrays

-----------------------------------------------------------------------------
(* What a statement does to the jobs. *)

\* Job j changes its state to s, and nothing else about any job changes.
Becomes(j, s) ==
    /\ jobs' \in [Job -> JobRow]
    /\ jobs'[j].state = s /\ SameTerms(jobs'[j], jobs[j])
    /\ jobs'[j].left = jobs[j].left /\ jobs'[j].extra = jobs[j].extra
    /\ \A i \in Job \ {j} : jobs'[i] = jobs[i]

\* An UPDATE of one job row leaves the other rows as they are.
LEMMA OneRow ==
    ASSUME TypeOK, NEW j \in Job, NEW q \in JobRow, jobs' = [jobs EXCEPT ![j] = q]
    PROVE  /\ jobs' \in [Job -> JobRow] /\ jobs'[j] = q
           /\ \A i \in Job \ {j} : jobs'[i] = jobs[i]
  BY DEF TypeOK

\* An UPDATE of a job's state changes only that.
LEMMA StateOnly ==
    ASSUME TypeOK, NEW j \in Job, NEW s \in JobState, jobs' = [jobs EXCEPT ![j].state = s]
    PROVE  Becomes(j, s)
<1> DEFINE q == [jobs[j] EXCEPT !.state = s]
<1>1. jobs[j] \in JobRow
  BY DEF TypeOK
<1>2. /\ q \in JobRow /\ q.state = s /\ q.left = jobs[j].left /\ q.extra = jobs[j].extra
      /\ SameTerms(q, jobs[j])
  BY <1>1 DEF JobRow, SameTerms, JobState
<1>3. jobs' = [jobs EXCEPT ![j] = q]
  BY DEF TypeOK
<1> HIDE DEF q
<1> QED BY <1>2, <1>3, OneRow DEF Becomes

\* SetState is an UPDATE of the worker's job.
LEMMA SetStateOnly ==
    ASSUME TypeOK, NEW s \in JobState, SetState(s)
    PROVE  Becomes(runner.job, s)
<1>1. PICK j \in Job : j = runner.job
  BY DEF TypeOK
<1> QED BY <1>1, StateOnly DEF SetState

\* The worker's position is a record of its three parts.
LEMMA RunnerParts ==
    ASSUME TypeOK
    PROVE  /\ runner.at \in WorkerAt /\ runner.job \in Job /\ runner.table \in 1..7
           /\ \A p \in WorkerAt : GoTo(p) =>
                 /\ runner' \in [at : WorkerAt, job : Job, table : 1..7]
                 /\ runner'.at = p /\ runner'.job = runner.job /\ runner'.table = runner.table
  BY DEF TypeOK, GoTo, WorkerAt

\* A worker that has left is idle.
LEMMA IdleParts ==
    /\ Idle.at = "idle" /\ Idle.job \in Job /\ Idle.table = 1
    /\ Idle \in [at : WorkerAt, job : Job, table : 1..7]
<1>1. (CHOOSE j \in Job : TRUE) \in Job
  BY Bounds
<1> QED BY <1>1 DEF Idle, WorkerAt

\* Every state named is a state.
LEMMA Names ==
    ASSUME TypeOK, NEW j \in Job
    PROVE  jobs[j].state \in JobState /\ jobs[j] \in JobRow /\ jobs[j].extra \in Nat /\ jobs[j].left \subseteq Row
<1>1. jobs[j] \in JobRow
  BY DEF TypeOK
<1> QED BY <1>1 DEF JobRow, JobState

-----------------------------------------------------------------------------
(* The collector and the clock: no job and no worker moves. *)

\* A step keeps what the jobs cover: what leaves the JOIN of one strays.
CoverKept ==
    \A i \in Job :
        /\ strayed[i] \subseteq strayed'[i]
        /\ \A row \in jobs[i].left : Covers(jobs[i], strayed[i], instances, row)
                                    => Covers(jobs[i], strayed'[i], instances', row)

\* A longer list of containers taken has the strays of a shorter one.
LEMMA StrayMore ==
    ASSUME NEW job, NEW S, NEW T, NEW row, S \subseteq T, Stray(job, S, row)
    PROVE  Stray(job, T, row)
  BY DEF Stray

\* Steps that leave the jobs and the worker alone, and delete no row, keep the
\* invariant.
LEMMA Bystanders ==
    ASSUME DeletionInd, TypeOK', FiniteRows', rows \subseteq rows', UNCHANGED <<jobs, runner, faults>>,
           CoverKept, Attributed'
    PROVE  DeletionInd'
<1>1. WorkerInd'
  BY DEF DeletionInd, WorkerInd
<1>2. LeftInd'
  <2>1. \A j \in Job : \A row \in jobs'[j].left : row \in rows' /\ Covers(jobs'[j], strayed'[j], instances', row)
    BY DEF DeletionInd, LeftInd, CoverKept
  <2>2. runner.job \in Job
    BY DEF DeletionInd, TypeOK
  <2>3. runner'.at \in Working => \A k \in 1..(runner'.table - 1) : \A row \in jobs'[runner'.job].left :
                                     \/ row.table # Plan(jobs'[runner'.job])[k]
                                     \/ Stray(jobs'[runner'.job], strayed'[runner'.job], row)
    BY <2>2, StrayMore DEF DeletionInd, LeftInd, CoverKept
  <2>4. \A j \in Job : jobs'[j].state \in {"none", "previewed"} => jobs'[j].left = {}
    BY DEF DeletionInd, LeftInd
  <2> QED BY <2>1, <2>3, <2>4 DEF LeftInd
<1>3. CancelIsPrompt' /\ StrandedOnlyByFaults'
  BY DEF DeletionInd, CancelIsPrompt, StrandedOnlyByFaults
<1>4. OnlyStrays'
  BY StrayMore DEF DeletionInd, CoverKept, OnlyStrays
<1> QED BY <1>1, <1>2, <1>3, <1>4 DEF DeletionInd

\* Steps that assign no container keep what is covered and attributed.
LEMMA NothingAssigned ==
    ASSUME DeletionInd, UNCHANGED <<instances, owners, strayed>>, rows' \subseteq rows
    PROVE  CoverKept /\ Attributed'
  BY DEF DeletionInd, CoverKept, Attributed

\* An assignment of containers is recorded.
LEMMA AssignmentRecorded ==
    ASSUME TypeOK, Attributed, NEW J, instances' \in [Container -> Resource \cup {None}],
           Reassigned(instances', J)
    PROVE  /\ owners' \in [Container -> SUBSET Resource] /\ strayed' \in [Job -> SUBSET Container]
           /\ \A c \in Container : owners[c] \subseteq owners'[c]
           /\ \A c \in Container : instances'[c] # None => instances'[c] \in owners'[c]
           /\ \A i \in Job : strayed[i] \subseteq strayed'[i]
           /\ \A i \in Job : i \in J => strayed'[i] = strayed[i]
           /\ \A i \in Job, row \in Row : i \notin J /\ Covers(jobs[i], strayed[i], instances, row)
                                       => Covers(jobs[i], strayed'[i], instances', row)
<1>1. /\ owners' = [c \in Container |-> owners[c] \cup ({instances'[c]} \ {None})]
      /\ strayed' = [j \in Job |-> IF j \in J THEN strayed[j] ELSE strayed[j] \cup
            {c \in Container : instances[c] = jobs[j].resource /\ instances'[c] # jobs[j].resource}]
  BY DEF Reassigned
<1>2. \A c \in Container : /\ owners[c] \subseteq owners'[c] /\ owners'[c] \subseteq Resource
                           /\ instances'[c] # None => instances'[c] \in owners'[c]
  BY <1>1 DEF TypeOK
<1>3. owners' \in [Container -> SUBSET Resource]
  <2>1. owners' = [c \in Container |-> owners'[c]]
    BY <1>1
  <2> QED BY <1>2, <2>1
<1>4. \A i \in Job : /\ strayed[i] \subseteq strayed'[i] /\ strayed'[i] \subseteq Container
                     /\ i \in J => strayed'[i] = strayed[i]
  BY <1>1 DEF TypeOK
<1>5. strayed' \in [Job -> SUBSET Container]
  <2>1. strayed' = [i \in Job |-> strayed'[i]]
    BY <1>1
  <2> QED BY <1>4, <2>1
<1>6. ASSUME NEW i \in Job, NEW row \in Row, i \notin J, Covers(jobs[i], strayed[i], instances, row)
      PROVE  Covers(jobs[i], strayed'[i], instances', row)
  <2>1. CASE ForResource(jobs[i]) /\ row.table = "instance" /\ row.container \notin strayed'[i]
    <3>1. row.container \in Container
      BY <2>1 DEF Row
    <3>2. instances[row.container] = jobs[i].resource
      BY <1>4, <1>6, <2>1 DEF Covers
    <3>3. instances'[row.container] = jobs[i].resource
      BY <1>1, <1>6, <2>1, <3>1, <3>2
    <3> QED BY <1>6, <2>1, <3>3 DEF Covers
  <2>2. CASE ~(ForResource(jobs[i]) /\ row.table = "instance" /\ row.container \notin strayed'[i])
    BY <1>6, <2>2 DEF Covers
  <2> QED BY <2>1, <2>2
<1> QED BY <1>2, <1>3, <1>4, <1>5, <1>6

\* Samples of finitely many containers, one of each, are finitely many.
LEMMA FiniteSamples ==
    ASSUME NEW S, \A x \in S : x.container \in Container,
           \A x, y \in S : x.container = y.container => x = y
    PROVE  IsFiniteSet(S)
<1> DEFINE g == [x \in S |-> x.container]
<1>1. g \in Injection(S, Container)
  BY DEF Injection, IsInjective
<1> HIDE DEF g
<1> QED BY <1>1, Bounds, FS_Injection

\* A snapshot adds a row of the host, one of the resource, and one per component.
LEMMA WriteRows ==
    ASSUME TypeOK, FiniteRows, NEW r \in Resource, NEW C \in SUBSET Container, NEW ts \in Time,
           WriteBatch(r, C, ts)
    PROVE  /\ rows' \subseteq Row /\ FiniteRows' /\ rows \subseteq rows'
           /\ \A row \in rows' : row.table = "instance" => row \in rows \/ (row.container \in C /\ row.resource = r)
<1> DEFINE a == [table |-> "host", resource |-> None, container |-> None, ts |-> ts]
           b == [table |-> "resource", resource |-> r, container |-> None, ts |-> ts]
           D == [table : {"instance"}, resource : {r}, container : C, ts : {ts}]
<1>1. a \in Row /\ b \in Row /\ D \subseteq Row
  BY DEF Row
<1>2. rows' = rows \cup {a, b} \cup D
  BY DEF WriteBatch
<1>4. \A row \in {a, b} \cup D : row.table = "instance" => row.container \in C /\ row.resource = r
  OBVIOUS
<1>5. IsFiniteSet(D)
  <2>1. (\A x \in D : x.container \in Container) /\ \A x, y \in D : x.container = y.container => x = y
    OBVIOUS
  <2> HIDE DEF D
  <2> QED BY <2>1, FiniteSamples
<1> HIDE DEF a, b, D
<1>6. rows' = ((rows \cup {a}) \cup {b}) \cup D
  BY <1>2
<1>7. IsFiniteSet(rows \cup {a})
  BY FS_AddElement DEF FiniteRows
<1>8. IsFiniteSet((rows \cup {a}) \cup {b})
  BY <1>7, FS_AddElement
<1>9. IsFiniteSet(((rows \cup {a}) \cup {b}) \cup D)
  BY <1>5, <1>8, FS_Union
<1> QED BY <1>1, <1>2, <1>4, <1>6, <1>9 DEF TypeOK, FiniteRows

\* The collector, the checks and the clock keep the invariant.
LEMMA CollectKeeps ==
    ASSUME DeletionInd, Collect \/ Tick \/ UNCHANGED vars
    PROVE  DeletionInd'
<1> USE DEF DeletionInd
<1>1. CASE UNCHANGED vars
  <2>1. TypeOK' /\ FiniteRows'
    BY <1>1 DEF vars, data, TypeOK, FiniteRows
  <2>2. CoverKept /\ Attributed'
    BY <1>1, NothingAssigned DEF vars, data
  <2> QED BY <1>1, <2>1, <2>2, Bystanders DEF vars, data
<1>2. CASE Tick
  <2>1. clock' \in Time
    BY <1>2, Bounds DEF Tick, TypeOK, Time
  <2>2. TypeOK' /\ FiniteRows'
    BY <1>2, <2>1 DEF Tick, data, TypeOK, FiniteRows
  <2>3. CoverKept /\ Attributed'
    BY <1>2, NothingAssigned DEF Tick, data
  <2> QED BY <1>2, <2>2, <2>3, Bystanders DEF Tick, data
<1>3. ASSUME NEW r \in Resource, UpsertResource(r)
      PROVE  DeletionInd'
  <2>1. writes' \in 0..MaxWrites
    BY <1>3, Bounds DEF UpsertResource, TypeOK
  <2>2. TypeOK' /\ FiniteRows'
    BY <1>3, <2>1 DEF UpsertResource, TypeOK, FiniteRows
  <2>3. CoverKept /\ Attributed'
    BY <1>3, NothingAssigned DEF UpsertResource
  <2> QED BY <1>3, <2>2, <2>3, Bystanders DEF UpsertResource
<1>4. ASSUME NEW r \in Resource, ArchiveMissingResources(r)
      PROVE  DeletionInd'
  <2>2. TypeOK' /\ FiniteRows'
    BY <1>4 DEF ArchiveMissingResources, TypeOK, FiniteRows
  <2>3. CoverKept /\ Attributed'
    BY <1>4, NothingAssigned DEF ArchiveMissingResources
  <2> QED BY <1>4, <2>2, <2>3, Bystanders DEF ArchiveMissingResources
<1>5. ASSUME NEW r \in Resource, NEW C \in SUBSET Container, NEW ts \in Time, WriteBatch(r, C, ts)
      PROVE  DeletionInd'
  <2>1. writes' \in 0..MaxWrites
    BY <1>5, Bounds DEF WriteBatch, TypeOK
  <2>2. /\ rows' \subseteq Row /\ FiniteRows' /\ rows \subseteq rows'
        /\ \A row \in rows' : row.table = "instance" => row \in rows \/ (row.container \in C /\ row.resource = r)
    BY <1>5, WriteRows
  <2>3. /\ instances' \in [Container -> Resource \cup {None}]
        /\ \A c \in C : instances'[c] = r
        /\ Reassigned(instances', {})
    BY <1>5 DEF WriteBatch, Assign, TypeOK
  <2>4. /\ owners' \in [Container -> SUBSET Resource] /\ strayed' \in [Job -> SUBSET Container]
        /\ \A c \in Container : owners[c] \subseteq owners'[c]
        /\ \A c \in Container : instances'[c] # None => instances'[c] \in owners'[c]
        /\ \A i \in Job : strayed[i] \subseteq strayed'[i]
        /\ \A i \in Job, row \in Row : Covers(jobs[i], strayed[i], instances, row)
                                    => Covers(jobs[i], strayed'[i], instances', row)
    BY <2>3, AssignmentRecorded
  <2>5. TypeOK'
    BY <1>5, <2>1, <2>2, <2>3, <2>4 DEF WriteBatch, TypeOK
  <2>6. \A i \in Job : jobs[i].left \subseteq Row
    BY Names
  <2>7. CoverKept
    BY <2>4, <2>6 DEF CoverKept
  <2>8. Attributed'
    <3>1. ASSUME NEW row \in rows', row.table = "instance"
          PROVE  row.resource \in owners'[row.container]
      <4>1. row.container \in Container
        BY <2>2, <3>1 DEF Row
      <4>2. CASE row \in rows
        BY <2>4, <3>1, <4>1, <4>2 DEF Attributed
      <4>3. CASE row.container \in C /\ row.resource = r
        BY <2>3, <2>4, <4>1, <4>3, Bounds
      <4> QED BY <2>2, <3>1, <4>2, <4>3
    <3> QED BY <2>4, <3>1 DEF Attributed
  <2> QED BY <1>5, <2>2, <2>5, <2>7, <2>8, Bystanders DEF WriteBatch
<1>6. ASSUME NEW r \in Checked, NEW on \in BOOLEAN, ConfigureCheck(r, on)
      PROVE  DeletionInd'
  <2>1. checks' \subseteq Resource
    <3>1. r \in Resource
      BY DeletionAssumption
    <3> QED BY <1>6, <3>1, Zenon DEF ConfigureCheck, TypeOK
  <2>2. TypeOK' /\ FiniteRows'
    BY <1>6, <2>1 DEF ConfigureCheck, TypeOK, FiniteRows
  <2>3. CoverKept /\ Attributed'
    BY <1>6, NothingAssigned DEF ConfigureCheck
  <2> QED BY <1>6, <2>2, <2>3, Bystanders DEF ConfigureCheck
<1> QED BY <1>1, <1>2, <1>3, <1>4, <1>5, <1>6, Zenon DEF Collect

-----------------------------------------------------------------------------
(* The administrator: one job moves, the worker and the tables do not. *)

\* Steps on the jobs and the worker leave the rest of the types as they are.
LEMMA TypeRest ==
    ASSUME TypeOK, FiniteRows, Attributed, UNCHANGED <<data, clock, writes, restarts>>,
           jobs' \in [Job -> JobRow], faults' \in 0..MaxFaults,
           runner' \in [at : WorkerAt, job : Job, table : 1..7]
    PROVE  /\ TypeOK' /\ FiniteRows' /\ Attributed'
           /\ rows' = rows /\ instances' = instances /\ strayed' = strayed
  BY DEF TypeOK, FiniteRows, Attributed, data, WorkerAt

\* A preview names a scope and confirms nothing.
LEMMA PreviewKeeps ==
    ASSUME DeletionInd, NEW j \in Job, NEW kind \in Kind, NEW r \in Resource, NEW before \in Time,
           PreviewDeletion(j, kind, r, before)
    PROVE  DeletionInd'
<1> USE DEF DeletionInd
<1> DEFINE q == [jobs[j] EXCEPT !.state = "previewed", !.kind = kind, !.resource = r,
                                !.before = before, !.fence = clock]
<1>1. jobs[j].state = "none" /\ jobs[j] \in JobRow /\ clock \in Time
  BY Names DEF PreviewDeletion, TypeOK
<1>2. q \in JobRow /\ q.state = "previewed" /\ q.left = jobs[j].left /\ q.extra = jobs[j].extra
  BY <1>1 DEF JobRow
<1>3. jobs' = [jobs EXCEPT ![j] = q]
  BY DEF PreviewDeletion, TypeOK
<1> HIDE DEF q
<1>4. /\ jobs' \in [Job -> JobRow] /\ jobs'[j].state = "previewed"
      /\ jobs'[j].left = jobs[j].left /\ jobs'[j].extra = jobs[j].extra
      /\ \A i \in Job \ {j} : jobs'[i] = jobs[i]
  BY <1>2, <1>3, OneRow
<1>5. UNCHANGED <<data, runner, clock, writes, faults, restarts>>
  BY DEF PreviewDeletion
<1>6. TypeOK' /\ FiniteRows' /\ Attributed' /\ rows' = rows /\ instances' = instances /\ strayed' = strayed
  BY <1>4, <1>5, TypeRest DEF TypeOK, WorkerAt
<1>7. runner.at \in WorkerAt /\ runner.job \in Job
  BY RunnerParts
<1>8. runner.at # "idle" => runner.job # j
  BY <1>1, <1>7 DEF WorkerInd, Working, WorkerAt
<1>9. jobs'[j].extra = 0 /\ jobs'[j].left = {}
  BY <1>1, <1>4 DEF WorkerInd, LeftInd
<1>10. WorkerInd'
  BY <1>1, <1>4, <1>5, <1>7, <1>8, <1>9 DEF WorkerInd, Working, Active, WorkerAt
<1>11. LeftInd'
  BY <1>1, <1>4, <1>5, <1>6, <1>7, <1>8, <1>9 DEF LeftInd, Working, WorkerAt
<1>12. CancelIsPrompt' /\ StrandedOnlyByFaults' /\ OnlyStrays'
  BY <1>1, <1>4, <1>5, <1>6, <1>9 DEF CancelIsPrompt, StrandedOnlyByFaults, OnlyStrays
<1> QED BY <1>6, <1>10, <1>11, <1>12

\* A confirmed preview has its whole scope left.
LEMMA CreateKeeps ==
    ASSUME DeletionInd, NEW j \in Job, CreateDeletion(j)
    PROVE  DeletionInd'
<1> USE DEF DeletionInd
<1> DEFINE confirmed == Scope(jobs[j])
           q == [jobs[j] EXCEPT !.state = "queued", !.left = confirmed]
<1>1. jobs[j].state = "previewed" /\ jobs[j] \in JobRow
  BY Names DEF CreateDeletion
<1>2. /\ confirmed \subseteq Row
      /\ \A row \in confirmed : \A S : row \in rows /\ Covers(jobs[j], S, instances, row)
  BY CoversIs DEF Scope, TypeOK
<1>3. jobs' = [jobs EXCEPT ![j] = q]
  BY DEF CreateDeletion, TypeOK
<1> HIDE DEF confirmed
<1>4. q \in JobRow /\ q.state = "queued" /\ q.left = confirmed /\ q.extra = jobs[j].extra /\ SameTerms(q, jobs[j])
  BY <1>1, <1>2 DEF JobRow, SameTerms, Active
<1> HIDE DEF q
<1>5. /\ jobs' \in [Job -> JobRow] /\ jobs'[j] = q
      /\ \A i \in Job \ {j} : jobs'[i] = jobs[i]
  BY <1>3, <1>4, OneRow
<1>6. /\ UNCHANGED <<rows, resources, instances, host, checks, owners>>
      /\ UNCHANGED <<runner, clock, writes, faults, restarts>> /\ NoOtherActive(j)
      /\ strayed' \in [Job -> SUBSET Container] /\ \A i \in Job \ {j} : strayed'[i] = strayed[i]
  BY DEF CreateDeletion, TypeOK
<1>7. TypeOK' /\ FiniteRows' /\ Attributed' /\ rows' = rows
  BY <1>5, <1>6 DEF TypeOK, FiniteRows, Attributed
<1>8. runner.at \in WorkerAt /\ runner.job \in Job
  BY RunnerParts
<1>9. runner.at # "idle" => runner.job # j
  BY <1>1, <1>8 DEF WorkerInd, Working, WorkerAt
<1>10. jobs'[j].extra = 0 /\ \A row \in jobs'[j].left : row \in rows /\ Covers(jobs'[j], strayed'[j], instances, row)
  BY <1>1, <1>2, <1>4, <1>5, SameScope DEF WorkerInd
<1>11. \A i \in Job : i # j => jobs'[i].state \notin Active
  BY <1>5, <1>6 DEF NoOtherActive
<1>12. WorkerInd'
  BY <1>1, <1>4, <1>5, <1>6, <1>8, <1>9, <1>10, <1>11 DEF WorkerInd, Working, WorkerAt
<1>13. LeftInd'
  BY <1>1, <1>4, <1>5, <1>6, <1>7, <1>8, <1>9, <1>10 DEF LeftInd, Working, WorkerAt
<1>14. CancelIsPrompt' /\ StrandedOnlyByFaults' /\ OnlyStrays'
  BY <1>1, <1>4, <1>5, <1>6, <1>10 DEF CancelIsPrompt, StrandedOnlyByFaults, OnlyStrays
<1> QED BY <1>7, <1>12, <1>13, <1>14

\* A retried job starts its count of batches anew.
LEMMA RetryKeeps ==
    ASSUME DeletionInd, NEW j \in Job, RetryDeletion(j)
    PROVE  DeletionInd'
<1> USE DEF DeletionInd
<1> DEFINE q == [jobs[j] EXCEPT !.state = "queued", !.extra = 0]
<1>1. jobs[j].state \in {"cancelled", "failed"} /\ jobs[j] \in JobRow
  BY Names DEF RetryDeletion
<1>2. jobs' = [jobs EXCEPT ![j] = q]
  BY DEF RetryDeletion, TypeOK
<1>3. q \in JobRow /\ q.state = "queued" /\ q.left = jobs[j].left /\ q.extra = 0 /\ SameTerms(q, jobs[j])
  BY <1>1 DEF JobRow, SameTerms, Active
<1> HIDE DEF q
<1>5. /\ jobs' \in [Job -> JobRow] /\ jobs'[j] = q
      /\ \A i \in Job \ {j} : jobs'[i] = jobs[i]
  BY <1>2, <1>3, OneRow
<1>6. UNCHANGED <<data, runner, clock, writes, faults, restarts>> /\ NoOtherActive(j)
  BY DEF RetryDeletion
<1>7. TypeOK' /\ FiniteRows' /\ Attributed' /\ rows' = rows /\ instances' = instances /\ strayed' = strayed
  BY <1>5, <1>6, TypeRest DEF TypeOK, WorkerAt
<1>8. runner.at \in WorkerAt /\ runner.job \in Job
  BY RunnerParts
<1>9. runner.at \in Working => runner.job # j
  BY <1>1, <1>8 DEF WorkerInd, Working, WorkerAt
<1>10. jobs'[j].extra = 0 /\ \A row \in jobs'[j].left : row \in rows /\ Covers(jobs'[j], strayed[j], instances, row)
  BY <1>1, <1>3, <1>5, SameScope DEF LeftInd
<1>11. \A i \in Job : i # j => jobs'[i].state \notin Active
  BY <1>5, <1>6 DEF NoOtherActive
<1>12. WorkerInd'
  BY <1>1, <1>3, <1>5, <1>6, <1>8, <1>9, <1>10, <1>11 DEF WorkerInd, Working, WorkerAt
<1>13. LeftInd'
  BY <1>1, <1>3, <1>5, <1>6, <1>7, <1>8, <1>9, <1>10 DEF LeftInd, Working, WorkerAt
<1>14. CancelIsPrompt' /\ StrandedOnlyByFaults' /\ OnlyStrays'
  BY <1>1, <1>3, <1>5, <1>6, <1>7, <1>10 DEF CancelIsPrompt, StrandedOnlyByFaults, OnlyStrays
<1> QED BY <1>7, <1>12, <1>13, <1>14

\* A job that waits is cancelled, one that runs is being cancelled.
LEMMA CancelKeeps ==
    ASSUME DeletionInd, NEW j \in Job, CancelDeletion(j)
    PROVE  DeletionInd'
<1> USE DEF DeletionInd
<1>1. PICK s \in {"cancelled", "cancelling"} :
        /\ (jobs[j].state = "queued" /\ s = "cancelled") \/ (jobs[j].state = "running" /\ s = "cancelling")
        /\ jobs' = [jobs EXCEPT ![j].state = s]
  <2>1. CASE jobs[j].state = "queued"
    <3>1. jobs' = [jobs EXCEPT ![j].state = "cancelled"]
      BY <2>1 DEF CancelDeletion, TypeOK
    <3> QED BY <2>1, <3>1
  <2>2. CASE jobs[j].state = "running"
    <3>1. jobs' = [jobs EXCEPT ![j].state = "cancelling"]
      BY <2>2 DEF CancelDeletion, TypeOK
    <3> QED BY <2>2, <3>1
  <2> QED BY <2>1, <2>2 DEF CancelDeletion
<1>2. Becomes(j, s)
  BY <1>1, StateOnly DEF JobState, Active, Finished
<1>3. UNCHANGED <<data, runner, clock, writes, faults, restarts>>
  BY DEF CancelDeletion
<1>4. TypeOK' /\ FiniteRows' /\ Attributed' /\ rows' = rows /\ instances' = instances /\ strayed' = strayed
  BY <1>2, <1>3, TypeRest DEF TypeOK, WorkerAt, Becomes
<1>5. runner.at \in WorkerAt /\ runner.job \in Job
  BY RunnerParts
<1>6. /\ Plan(jobs'[j]) = Plan(jobs[j])
      /\ \A S, f, row : Covers(jobs'[j], S, f, row) <=> Covers(jobs[j], S, f, row)
      /\ \A S, row : Stray(jobs'[j], S, row) <=> Stray(jobs[j], S, row)
  BY <1>2, SameScope DEF Becomes
<1>7. jobs'[j].extra = 0
  BY <1>1, <1>2 DEF WorkerInd, Becomes
<1>8. WorkerInd'
  BY <1>1, <1>2, <1>3, <1>5, <1>6, <1>7 DEF WorkerInd, Working, WorkerAt, Becomes, Active
<1>9. LeftInd'
  BY <1>1, <1>2, <1>3, <1>4, <1>5, <1>6 DEF LeftInd, Working, WorkerAt, Becomes
<1>10. CancelIsPrompt' /\ StrandedOnlyByFaults' /\ OnlyStrays'
  BY <1>1, <1>2, <1>3, <1>4, <1>7 DEF CancelIsPrompt, StrandedOnlyByFaults, OnlyStrays, Becomes
<1> QED BY <1>4, <1>8, <1>9, <1>10

-----------------------------------------------------------------------------
(* The worker between batches: it moves on, or leaves its job. *)

\* A worker that leaves after a storage error, or before it has marked its job,
\* may leave the job as it is.
LEMMA LeavesAsItIs ==
    ASSUME DeletionInd, Leave, UNCHANGED <<data, jobs, clock, writes, restarts>>, faults' \in 0..MaxFaults,
           faults' # 0 \/ (runner.at = "mark" /\ faults' = faults)
    PROVE  DeletionInd'
<1> USE DEF DeletionInd
<1>1. runner' \in [at : WorkerAt, job : Job, table : 1..7] /\ runner'.at = "idle" /\ runner'.table = 1
  BY IdleParts DEF Leave
<1>2. TypeOK' /\ FiniteRows' /\ Attributed' /\ rows' = rows /\ instances' = instances /\ strayed' = strayed
  BY <1>1, TypeRest DEF TypeOK
<1>3. WorkerInd'
  BY <1>1 DEF WorkerInd, Working
<1>4. LeftInd'
  BY <1>1, <1>2 DEF LeftInd, Working
<1>5. StrandedOnlyByFaults'
  BY DEF StrandedOnlyByFaults
<1>6. CancelIsPrompt' /\ OnlyStrays'
  BY <1>2 DEF CancelIsPrompt, OnlyStrays
<1> QED BY <1>2, <1>3, <1>4, <1>5, <1>6

\* A worker that leaves may end its job, with nothing left of it if it says so.
LEMMA LeavesFinished ==
    ASSUME DeletionInd, Leave, UNCHANGED <<data, clock, writes, restarts>>, faults' \in 0..MaxFaults,
           NEW s \in Finished, SetState(s), runner.at \in Working, faults' = 0 => faults = 0,
           s = "completed" => \A row \in jobs[runner.job].left :
                                 Stray(jobs[runner.job], strayed[runner.job], row)
    PROVE  DeletionInd'
<1> USE DEF DeletionInd
<1>1. runner' \in [at : WorkerAt, job : Job, table : 1..7] /\ runner'.at = "idle" /\ runner'.table = 1
  BY IdleParts DEF Leave
<1>2. PICK j \in Job : j = runner.job
  BY RunnerParts
<1>3. Becomes(j, s)
  BY <1>2, SetStateOnly DEF JobState
<1>4. TypeOK' /\ FiniteRows' /\ Attributed' /\ rows' = rows /\ instances' = instances /\ strayed' = strayed
  BY <1>1, <1>3, TypeRest DEF Becomes
<1>5. /\ Plan(jobs'[j]) = Plan(jobs[j])
      /\ \A S, f, row : Covers(jobs'[j], S, f, row) <=> Covers(jobs[j], S, f, row)
      /\ \A S, row : Stray(jobs'[j], S, row) <=> Stray(jobs[j], S, row)
  BY <1>3, SameScope DEF Becomes
<1>6. s \notin Active /\ s \notin {"none", "previewed", "queued", "running", "cancelling"}
  BY DEF Finished, Active
<1>7. WorkerInd'
  BY <1>1, <1>3, <1>6 DEF WorkerInd, Working, Becomes
<1>8. LeftInd'
  BY <1>1, <1>3, <1>4, <1>5, <1>6 DEF LeftInd, Working, Becomes
<1>9. StrandedOnlyByFaults'
  BY <1>2, <1>3, <1>6 DEF StrandedOnlyByFaults, Becomes
<1>10. CancelIsPrompt'
  BY <1>3 DEF CancelIsPrompt, Becomes
<1>11. OnlyStrays'
  BY <1>2, <1>3, <1>4, <1>5 DEF OnlyStrays, Becomes
<1> QED BY <1>4, <1>7, <1>8, <1>9, <1>10, <1>11

\* A storage error is counted.
LEMMA FaultCounted ==
    ASSUME TypeOK, Fault
    PROVE  faults' \in 0..MaxFaults /\ faults' # 0
  BY Bounds DEF TypeOK, Fault

\* The worker reads a queued job.
LEMMA LoadKeeps ==
    ASSUME DeletionInd, NEW j \in Job, Load(j)
    PROVE  DeletionInd'
<1> USE DEF DeletionInd
<1>1. /\ runner' \in [at : WorkerAt, job : Job, table : 1..7]
      /\ runner'.at = "mark" /\ runner'.job = j /\ runner'.table = 1
  BY IdleParts DEF Load, WorkerAt
<1>2. UNCHANGED <<data, jobs, clock, writes, faults, restarts>> /\ jobs[j].state = "queued" /\ runner.at = "idle"
  BY DEF Load
<1>3. TypeOK' /\ FiniteRows' /\ Attributed' /\ rows' = rows /\ instances' = instances /\ strayed' = strayed
  BY <1>1, <1>2, TypeRest DEF TypeOK
<1>4. WorkerInd'
  BY <1>1, <1>2 DEF WorkerInd, Working
<1>5. LeftInd'
  BY <1>1, <1>2, <1>3 DEF LeftInd, Working
<1>6. StrandedOnlyByFaults' /\ CancelIsPrompt' /\ OnlyStrays'
  BY <1>1, <1>2, <1>3 DEF StrandedOnlyByFaults, CancelIsPrompt, OnlyStrays
<1> QED BY <1>3, <1>4, <1>5, <1>6

\* The worker marks its job as running, or leaves.
LEMMA MarkKeeps ==
    ASSUME DeletionInd, Mark
    PROVE  DeletionInd'
<1> USE DEF DeletionInd
<1>1. UNCHANGED <<data, clock, writes, restarts>> /\ runner.at = "mark" /\ faults \in 0..MaxFaults
  BY DEF Mark, TypeOK
<1>2. CASE NoOtherActive(runner.job) /\ SetState("running") /\ GoTo("check") /\ UNCHANGED faults
  <2>1. PICK j \in Job : j = runner.job
    BY RunnerParts
  <2>2. Becomes(j, "running")
    BY <1>2, <2>1, SetStateOnly DEF JobState, Active
  <2>3. /\ runner' \in [at : WorkerAt, job : Job, table : 1..7]
        /\ runner'.at = "check" /\ runner'.job = j /\ runner'.table = runner.table
    BY <1>2, <2>1, RunnerParts DEF WorkerAt
  <2>4. TypeOK' /\ FiniteRows' /\ Attributed' /\ rows' = rows /\ instances' = instances /\ strayed' = strayed
    BY <1>1, <1>2, <2>2, <2>3, TypeRest DEF Becomes
  <2>5. jobs'[j] \in JobRow
    BY <2>2 DEF Becomes
  <2>6. /\ Plan(jobs'[j]) = Plan(jobs[j])
        /\ \A S, f, row : Covers(jobs'[j], S, f, row) <=> Covers(jobs[j], S, f, row)
        /\ \A S, row : Stray(jobs'[j], S, row) <=> Stray(jobs[j], S, row)
    BY <2>2, SameScope DEF Becomes
  <2>7. runner.table = 1 /\ Len(Plan(jobs'[j])) \in 1..6
    BY <1>1, <2>5, PlanFacts DEF WorkerInd
  <2>8. \A i \in Job : i # j => jobs'[i].state \notin Active
    BY <1>2, <2>1, <2>2 DEF NoOtherActive, Becomes
  <2>9. jobs'[j].extra = 0
    BY <1>1, <2>1, <2>2 DEF WorkerInd, Becomes
  <2>10. runner'.table =< Len(Plan(jobs'[j]))
    <3>1. PICK len \in 1..6 : len = Len(Plan(jobs'[j]))
      BY <2>7
    <3>2. 1 =< len
      OBVIOUS
    <3> QED BY <2>3, <2>7, <3>1, <3>2
  <2>11. WorkerInd'
    BY <2>1, <2>2, <2>3, <2>8, <2>9, <2>10 DEF WorkerInd, Working, Becomes
  <2>12. LeftInd'
    <3>1. \A i \in Job : jobs'[i].state \in {"none", "previewed"} => jobs'[i].left = {}
      BY <2>2 DEF LeftInd, Becomes
    <3>2. \A i \in Job : \A row \in jobs'[i].left : row \in rows' /\ Covers(jobs'[i], strayed'[i], instances', row)
      BY <2>2, <2>4, <2>6 DEF LeftInd, Becomes
    <3>3. \A k \in 1..(runner'.table - 1) : FALSE
      BY <2>3, <2>7
    <3> QED BY <3>1, <3>2, <3>3 DEF LeftInd
  <2>13. StrandedOnlyByFaults'
    <3>1. \A i \in Job : jobs'[i].state \in {"running", "cancelling"} => i = j
      BY <2>8 DEF Active
    <3> QED BY <2>3, <3>1 DEF StrandedOnlyByFaults
  <2>14. CancelIsPrompt' /\ OnlyStrays'
    BY <2>2, <2>4, <2>9 DEF CancelIsPrompt, OnlyStrays, Becomes
  <2> QED BY <2>4, <2>11, <2>12, <2>13, <2>14
<1>3. CASE Leave /\ UNCHANGED <<jobs, faults>>
  BY <1>1, <1>3, LeavesAsItIs
<1>4. CASE Fault /\ Leave /\ UNCHANGED jobs
  BY <1>1, <1>4, FaultCounted, LeavesAsItIs
<1> QED BY <1>2, <1>3, <1>4 DEF Mark

\* The worker reads the state of its job before a batch.
LEMMA CheckKeeps ==
    ASSUME DeletionInd, Check
    PROVE  DeletionInd'
<1> USE DEF DeletionInd
<1>1. UNCHANGED <<data, clock, writes, restarts>> /\ runner.at = "check" /\ faults \in 0..MaxFaults
  BY DEF Check, TypeOK
<1>2. CASE SetState("cancelled") /\ Leave /\ UNCHANGED faults
  BY <1>1, <1>2, LeavesFinished DEF Finished, Working
<1>3. CASE Current.state # "cancelling" /\ GoTo("batch") /\ UNCHANGED <<jobs, faults>>
  <2>1. /\ runner' \in [at : WorkerAt, job : Job, table : 1..7] /\ runner.job \in Job
        /\ runner'.at = "batch" /\ runner'.job = runner.job /\ runner'.table = runner.table
    BY <1>3, RunnerParts DEF WorkerAt
  <2>2. TypeOK' /\ FiniteRows' /\ Attributed' /\ rows' = rows /\ instances' = instances /\ strayed' = strayed
    BY <1>1, <1>3, <2>1, TypeRest DEF TypeOK
  <2>3. jobs[runner.job].extra = 0
    BY <1>1, <1>3, <2>1 DEF WorkerInd, Working, Current
  <2>4. WorkerInd'
    BY <1>1, <1>3, <2>1, <2>3 DEF WorkerInd, Working
  <2>5. LeftInd'
    BY <1>1, <1>3, <2>1, <2>2 DEF LeftInd, Working
  <2>6. StrandedOnlyByFaults' /\ CancelIsPrompt' /\ OnlyStrays'
    BY <1>1, <1>3, <2>1, <2>2 DEF StrandedOnlyByFaults, CancelIsPrompt, OnlyStrays
  <2> QED BY <2>2, <2>4, <2>5, <2>6
<1>4. CASE Fault /\ Leave /\ UNCHANGED jobs
  BY <1>1, <1>4, FaultCounted, LeavesAsItIs
<1> QED BY <1>2, <1>3, <1>4 DEF Check

\* A failed batch ends the job, or strands it after a second error.
LEMMA BatchFailsKeeps ==
    ASSUME DeletionInd, BatchFails
    PROVE  DeletionInd'
<1> USE DEF DeletionInd
<1>1. UNCHANGED <<data, clock, writes, restarts>> /\ runner.at = "batch" /\ faults \in 0..MaxFaults /\ Leave
  BY DEF BatchFails, TypeOK, AtTable
<1>2. CASE SetState("failed") /\ UNCHANGED faults
  BY <1>1, <1>2, LeavesFinished DEF Finished, Working
<1>3. CASE SetState("failed") /\ Fault
  <2>1. faults' \in 0..MaxFaults /\ faults' # 0
    BY <1>3, FaultCounted
  <2> QED BY <1>1, <1>3, <2>1, LeavesFinished DEF Finished, Working
<1>4. CASE Fault /\ UNCHANGED jobs
  BY <1>1, <1>4, FaultCounted, LeavesAsItIs
<1> QED BY <1>2, <1>3, <1>4 DEF BatchFails

\* The worker that comes to the end of its plan has passed every table of its scope.
LEMMA FinishKeeps ==
    ASSUME DeletionInd, Finish
    PROVE  DeletionInd'
<1> USE DEF DeletionInd
<1>1. UNCHANGED <<data, clock, writes, restarts>> /\ runner.at = "finish" /\ faults \in 0..MaxFaults /\ Leave
  BY DEF Finish, TypeOK
<1>2. CASE SetState("completed") /\ UNCHANGED faults
  <2>1. PICK j \in Job : j = runner.job
    BY RunnerParts
  <2>2. runner.table = Len(Plan(jobs[j])) + 1 /\ jobs[j] \in JobRow /\ jobs[j].left \subseteq Row
    BY <1>1, <2>1, Names DEF WorkerInd
  <2>3. Len(Plan(jobs[j])) \in 1..6
    BY <2>2, PlanFacts
  <2>4. ASSUME NEW row \in jobs[j].left
        PROVE  Stray(jobs[j], strayed[j], row)
    <3>1. row \in Row /\ Covers(jobs[j], strayed[j], instances, row)
      BY <2>2 DEF LeftInd
    <3>2. PICK k \in 1..Len(Plan(jobs[j])) : Plan(jobs[j])[k] = row.table
      BY <2>2, <3>1, PlanFacts
    <3>3. k \in 1..(runner.table - 1)
      BY <2>2, <2>3, <3>2
    <3> QED BY <1>1, <2>1, <3>2, <3>3 DEF LeftInd, Working
  <2>5. \A row \in jobs[runner.job].left : Stray(jobs[runner.job], strayed[runner.job], row)
    BY <2>1, <2>4
  <2> QED BY <1>1, <1>2, <2>5, LeavesFinished DEF Finished, Working
<1>3. CASE Fault /\ UNCHANGED jobs
  BY <1>1, <1>3, FaultCounted, LeavesAsItIs
<1> QED BY <1>2, <1>3 DEF Finish

\* A restart gives every job that was under way back, and the worker starts anew.
LEMMA RecoverKeeps ==
    ASSUME DeletionInd, recoverDeletionJobs
    PROVE  DeletionInd'
<1> USE DEF DeletionInd
<1> DEFINE Back(s) == CASE s = "running" -> "queued" [] s = "cancelling" -> "cancelled" [] OTHER -> s
<1>1. runner' \in [at : WorkerAt, job : Job, table : 1..7] /\ runner'.at = "idle" /\ runner'.table = 1
  BY IdleParts DEF Leave, recoverDeletionJobs
<1>2. ASSUME NEW j \in Job
      PROVE  /\ jobs'[j] \in JobRow /\ jobs'[j].state = Back(jobs[j].state)
             /\ SameTerms(jobs'[j], jobs[j])
             /\ jobs'[j].left = jobs[j].left /\ jobs'[j].extra = jobs[j].extra
  <2> DEFINE q == [jobs[j] EXCEPT !.state = Back(jobs[j].state)]
  <2>1. jobs'[j] = q
    BY DEF recoverDeletionJobs
  <2>2. jobs[j] \in JobRow /\ jobs[j].state \in JobState
    BY Names
  <2>3. PICK s : s = Back(jobs[j].state)
    OBVIOUS
  <2>4. s \in JobState
    BY <2>2, <2>3 DEF JobState, Active, Finished
  <2>5. q = [jobs[j] EXCEPT !.state = s]
    BY <2>3
  <2> HIDE DEF Back
  <2>6. /\ q \in JobRow /\ q.state = s /\ q.left = jobs[j].left /\ q.extra = jobs[j].extra
        /\ SameTerms(q, jobs[j])
    BY <2>2, <2>4, <2>5 DEF JobRow, SameTerms, JobState
  <2> QED BY <2>1, <2>3, <2>6
<1>3. jobs' \in [Job -> JobRow]
  <2>1. jobs' = [j \in Job |-> jobs'[j]]
    BY DEF recoverDeletionJobs
  <2> QED BY <2>1, <1>2
<1>4. UNCHANGED <<data, clock, writes, faults>> /\ restarts' \in 0..MaxRestarts
  BY Bounds DEF recoverDeletionJobs, TypeOK
<1>5. TypeOK' /\ FiniteRows' /\ Attributed' /\ rows' = rows /\ instances' = instances /\ strayed' = strayed
  BY <1>1, <1>3, <1>4 DEF TypeOK, FiniteRows, Attributed, data, WorkerAt
<1>6. ASSUME NEW j \in Job
      PROVE  /\ jobs'[j].state \notin {"running", "cancelling"}
             /\ jobs'[j].state \in Active => jobs[j].state \in Active
             /\ jobs'[j].state \in {"none", "previewed", "completed"} => jobs'[j].state = jobs[j].state
             /\ jobs'[j].state = "queued" => jobs[j].state \in {"queued", "running"}
             /\ \A S, f, row : Covers(jobs'[j], S, f, row) <=> Covers(jobs[j], S, f, row)
             /\ \A S, row : Stray(jobs'[j], S, row) <=> Stray(jobs[j], S, row)
  <2>1. jobs'[j].state = Back(jobs[j].state) /\ jobs[j].state \in JobState
    BY <1>2, Names
  <2>2. /\ \A S, f, row : Covers(jobs'[j], S, f, row) <=> Covers(jobs[j], S, f, row)
        /\ \A S, row : Stray(jobs'[j], S, row) <=> Stray(jobs[j], S, row)
    BY <1>2, SameScope
  <2>3. /\ jobs'[j].state \notin {"running", "cancelling"}
        /\ jobs'[j].state \in Active => jobs[j].state \in Active
    BY <2>1 DEF Active, JobState, Finished
  <2>4. /\ jobs'[j].state \in {"none", "previewed", "completed"} => jobs'[j].state = jobs[j].state
        /\ jobs'[j].state = "queued" => jobs[j].state \in {"queued", "running"}
    BY <2>1 DEF Active, JobState, Finished
  <2> QED BY <2>2, <2>3, <2>4
<1> HIDE DEF Back
<1>7. WorkerInd'
  BY <1>1, <1>2, <1>6 DEF WorkerInd, Working
<1>8. LeftInd'
  BY <1>1, <1>2, <1>5, <1>6 DEF LeftInd, Working
<1>9. StrandedOnlyByFaults' /\ CancelIsPrompt' /\ OnlyStrays'
  BY <1>2, <1>5, <1>6 DEF StrandedOnlyByFaults, CancelIsPrompt, OnlyStrays
<1> QED BY <1>5, <1>7, <1>8, <1>9

-----------------------------------------------------------------------------
(* A batch: rows are deleted, the progress is stored. *)

\* What Progress stores: the rows deleted are no longer left of any job, the
\* worker's job has at most one batch more, and an empty batch passes its table.
LEMMA ProgressEffect ==
    ASSUME DeletionInd, runner.at = "batch", NEW n \in Nat, NEW removed, Progress(n, removed)
    PROVE  /\ jobs' \in [Job -> JobRow]
           /\ \A i \in Job : /\ SameTerms(jobs'[i], jobs[i]) /\ jobs'[i].state = jobs[i].state
                             /\ jobs'[i].left = jobs[i].left \ removed
                             /\ i # runner.job => jobs'[i].extra = jobs[i].extra
           /\ jobs'[runner.job].extra \in {0, 1}
           /\ jobs'[runner.job].extra = 1 => jobs[runner.job].state = "cancelling"
           /\ runner' \in [at : WorkerAt, job : Job, table : 1..7]
           /\ runner'.job = runner.job
           /\ n # 0 => runner'.at = "check" /\ runner'.table = runner.table
           /\ n = 0 => runner'.table = runner.table + 1
           /\ n = 0 => runner'.at = IF runner.table = Len(Plan(jobs[runner.job])) THEN "finish" ELSE "check"
<1> USE DEF DeletionInd
<1>1. PICK j \in Job : j = runner.job
  BY RunnerParts
<1>2. jobs[j].extra = 0 /\ runner.table \in 1..7 /\ runner.table =< Len(Plan(jobs[j])) /\ jobs[j] \in JobRow
  BY <1>1, RunnerParts, Names DEF WorkerInd
<1>3. Len(Plan(jobs[j])) \in 1..6
  BY <1>2, PlanFacts
<1>4. ASSUME NEW i \in Job, i # j
      PROVE  /\ jobs'[i] \in JobRow /\ SameTerms(jobs'[i], jobs[i]) /\ jobs'[i].state = jobs[i].state
             /\ jobs'[i].left = jobs[i].left \ removed /\ jobs'[i].extra = jobs[i].extra
  <2> DEFINE l == jobs[i].left \ removed
             q == [jobs[i] EXCEPT !.left = l]
  <2>1. jobs'[i] = q
    BY <1>1, <1>4 DEF Progress
  <2>2. jobs[i] \in JobRow /\ l \subseteq Row
    BY Names
  <2> HIDE DEF l
  <2>3. /\ q \in JobRow /\ q.left = l /\ q.state = jobs[i].state /\ q.extra = jobs[i].extra
        /\ SameTerms(q, jobs[i])
    BY <2>2 DEF JobRow, SameTerms
  <2> QED BY <2>1, <2>3 DEF l
<1>5. /\ jobs'[j] \in JobRow /\ SameTerms(jobs'[j], jobs[j]) /\ jobs'[j].state = jobs[j].state
      /\ jobs'[j].left = jobs[j].left \ removed /\ jobs'[j].extra \in {0, 1}
      /\ jobs'[j].extra = 1 => jobs[j].state = "cancelling"
  <2> DEFINE l == jobs[j].left \ removed
  <2>1. PICK e \in {0, 1} : /\ e = 1 => jobs[j].state = "cancelling"
                            /\ jobs'[j] = [jobs[j] EXCEPT !.left = l, !.extra = e]
    <3>1. PICK one : one = jobs[j].extra + 1
      OBVIOUS
    <3>2. one = 1
      BY <1>2, <3>1
    <3>3. CASE jobs[j].state = "cancelling" /\ n > 0
      <4>1. jobs'[j] = [jobs[j] EXCEPT !.left = l, !.extra = one]
        BY <1>1, <3>1, <3>3, Zenon DEF Progress
      <4> QED BY <3>2, <3>3, <4>1
    <3>4. CASE ~(jobs[j].state = "cancelling" /\ n > 0)
      <4>1. jobs'[j] = [jobs[j] EXCEPT !.left = l, !.extra = jobs[j].extra]
        BY <1>1, <3>4, Zenon DEF Progress
      <4> QED BY <1>2, <4>1
    <3> QED BY <3>3, <3>4
  <2> DEFINE q == [jobs[j] EXCEPT !.left = l, !.extra = e]
  <2>2. l \subseteq Row /\ e \in Nat
    BY Names
  <2> HIDE DEF l
  <2>3. /\ q \in JobRow /\ q.left = l /\ q.state = jobs[j].state /\ q.extra = e
        /\ SameTerms(q, jobs[j])
    BY <1>2, <2>2 DEF JobRow, SameTerms
  <2> QED BY <2>1, <2>3 DEF l
<1>6. jobs' \in [Job -> JobRow]
  <2>1. jobs' = [i \in Job |-> jobs'[i]]
    BY DEF Progress
  <2> QED BY <2>1, <1>4, <1>5
<1>7. CASE n = 0
  <2>1. PICK p \in {"finish", "check"} : p = IF runner.table = Len(Plan(jobs[j])) THEN "finish" ELSE "check"
    OBVIOUS
  <2>4. PICK t \in 1..7 : t = runner.table + 1
    <3>1. PICK len \in 1..6 : len = Len(Plan(jobs[j]))
      BY <1>3
    <3>2. PICK u \in 1..7 : u = runner.table
      BY <1>2
    <3>3. u =< len
      BY <1>2, <3>1, <3>2
    <3>4. u + 1 \in 1..7
      BY <3>3
    <3> QED BY <3>2, <3>4
  <2>2. runner' = [runner EXCEPT !.table = t, !.at = p]
    BY <1>1, <1>7, <2>1, <2>4 DEF Progress, Current, TypeOK
  <2>3. /\ runner' \in [at : WorkerAt, job : Job, table : 1..7]
        /\ runner'.job = runner.job /\ runner'.at = p /\ runner'.table = t
    BY <2>2 DEF TypeOK, WorkerAt
  <2> QED BY <1>1, <1>4, <1>5, <1>6, <1>7, <2>1, <2>3, <2>4
<1>8. CASE n # 0
  <2>1. runner' = [runner EXCEPT !.table = runner.table, !.at = "check"]
    BY <1>8 DEF Progress, TypeOK
  <2>2. /\ runner' \in [at : WorkerAt, job : Job, table : 1..7]
        /\ runner'.job = runner.job /\ runner'.at = "check" /\ runner'.table = runner.table
    BY <2>1 DEF TypeOK, WorkerAt
  <2> QED BY <1>1, <1>4, <1>5, <1>6, <1>8, <2>2
<1> QED BY <1>7, <1>8

\* A batch keeps the invariant when it deletes stored rows only, and when an empty
\* one leaves nothing of its job in the table.
LEMMA BatchKeeps ==
    ASSUME DeletionInd, runner.at = "batch", NEW n \in Nat, NEW removed, Progress(n, removed),
           rows' = rows \ removed, host' \in BOOLEAN, checks' = checks,
           resources' \in [Resource -> {"absent", "active", "archived"}],
           instances' \in [Container -> Resource \cup {None}], owners' \in [Container -> SUBSET Resource],
           strayed' \in [Job -> SUBSET Container], CoverKept, Attributed',
           n = 0 => \A row \in jobs[runner.job].left :
                        \/ row.table # Plan(jobs[runner.job])[runner.table]
                        \/ Stray(jobs[runner.job], strayed[runner.job], row)
    PROVE  DeletionInd'
<1> USE DEF DeletionInd
<1>1. PICK j \in Job : j = runner.job
  BY RunnerParts
<1>2. /\ jobs' \in [Job -> JobRow]
      /\ \A i \in Job : /\ SameTerms(jobs'[i], jobs[i]) /\ jobs'[i].state = jobs[i].state
                        /\ jobs'[i].left = jobs[i].left \ removed
                        /\ i # j => jobs'[i].extra = jobs[i].extra
      /\ jobs'[j].extra \in {0, 1}
      /\ jobs'[j].extra = 1 => jobs[j].state = "cancelling"
      /\ runner' \in [at : WorkerAt, job : Job, table : 1..7]
      /\ runner'.job = j
      /\ n # 0 => runner'.at = "check" /\ runner'.table = runner.table
      /\ n = 0 => runner'.table = runner.table + 1
      /\ n = 0 => runner'.at = IF runner.table = Len(Plan(jobs[j])) THEN "finish" ELSE "check"
  BY <1>1, ProgressEffect
<1>3. UNCHANGED <<clock, writes, faults, restarts>>
  BY DEF Progress
<1>4. rows' \subseteq rows /\ FiniteRows'
  BY FS_Subset DEF FiniteRows
<1>5. TypeOK'
  BY <1>2, <1>3, <1>4 DEF TypeOK, WorkerAt
<1>6. \A i \in Job : /\ Plan(jobs'[i]) = Plan(jobs[i])
                     /\ \A S, f, row : Covers(jobs'[i], S, f, row) <=> Covers(jobs[i], S, f, row)
                     /\ \A S, row : Stray(jobs'[i], S, row) <=> Stray(jobs[i], S, row)
  BY <1>2, SameScope
<1>7. PICK len \in 1..6 : len = Len(Plan(jobs[j]))
  BY Names, PlanFacts
<1>8. runner.table \in 1..7 /\ runner.table =< len /\ jobs[j].state \in {"running", "cancelling"}
  BY <1>1, <1>7, RunnerParts DEF WorkerInd, Working
<1>9. runner'.at \in {"check", "finish"}
  BY <1>2
<1>10. /\ runner'.at = "check" => runner'.table =< len
       /\ runner'.at = "finish" => runner'.table = len + 1
  <2>1. CASE n # 0
    BY <1>2, <1>8, <2>1
  <2>2. CASE n = 0 /\ runner.table = len
    <3>1. runner'.at = "finish" /\ runner'.table = runner.table + 1
      BY <1>2, <1>7, <2>2
    <3> QED BY <2>2, <3>1
  <2>3. CASE n = 0 /\ runner.table # len
    <3>1. runner'.at = "check" /\ runner'.table = runner.table + 1
      BY <1>2, <1>7, <2>3
    <3> QED BY <1>8, <2>3, <3>1
  <2> QED BY <2>1, <2>2, <2>3
<1>11. WorkerInd'
  <2>1. \A i, k \in Job : jobs'[i].state \in Active /\ jobs'[k].state \in Active => i = k
    BY <1>2 DEF WorkerInd
  <2>2. runner'.at \in {"check", "batch"} => runner'.table =< Len(Plan(jobs'[runner'.job]))
    BY <1>2, <1>6, <1>7, <1>9, <1>10
  <2>3. runner'.at = "finish" => runner'.table = Len(Plan(jobs'[runner'.job])) + 1
    BY <1>2, <1>6, <1>7, <1>10
  <2>4. \A i \in Job : jobs'[i].state \in {"none", "previewed", "queued", "running"} => jobs'[i].extra = 0
    <3>1. \A i \in Job \ {j} : jobs'[i].state \in {"none", "previewed", "queued", "running"} => jobs'[i].extra = 0
      BY <1>2 DEF WorkerInd
    <3>2. jobs'[j].state # "cancelling" => jobs'[j].extra = 0
      BY <1>2
    <3> QED BY <3>1, <3>2
  <2>5. jobs'[runner'.job].state \in {"running", "cancelling"}
    BY <1>2, <1>8
  <2> QED BY <1>9, <2>1, <2>2, <2>3, <2>4, <2>5 DEF WorkerInd
<1>12. LeftInd'
  <2>1. \A i \in Job : jobs'[i].state \in {"none", "previewed"} => jobs'[i].left = {}
    BY <1>2 DEF LeftInd
  <2>2. \A i \in Job : \A row \in jobs'[i].left : row \in rows' /\ Covers(jobs'[i], strayed'[i], instances', row)
    BY <1>2, <1>6 DEF LeftInd, CoverKept
  <2>3. ASSUME NEW k \in 1..(runner'.table - 1), NEW row \in jobs'[runner'.job].left
        PROVE  \/ row.table # Plan(jobs'[runner'.job])[k]
               \/ Stray(jobs'[runner'.job], strayed'[runner'.job], row)
    <3>1. /\ row \in jobs[j].left /\ Plan(jobs'[runner'.job]) = Plan(jobs[j])
          /\ Stray(jobs[j], strayed[j], row) => Stray(jobs'[runner'.job], strayed'[runner'.job], row)
      BY <1>2, <1>6, <2>3, StrayMore DEF CoverKept
    <3>2. CASE k \in 1..(runner.table - 1)
      BY <1>1, <3>1, <3>2 DEF LeftInd, Working
    <3>3. CASE k \notin 1..(runner.table - 1)
      <4>1. n = 0 /\ k = runner.table
        <5>1. CASE n # 0
          BY <1>2, <2>3, <3>3, <5>1
        <5>2. CASE n = 0
          <6>1. runner'.table = runner.table + 1
            BY <1>2, <5>2
          <6>2. k = runner.table
            BY <1>8, <2>3, <3>3, <6>1
          <6> QED BY <5>2, <6>2
        <5> QED BY <5>1, <5>2
      <4> QED BY <1>1, <3>1, <4>1
    <3> QED BY <3>2, <3>3
  <2> QED BY <2>1, <2>2, <2>3 DEF LeftInd
<1>13. StrandedOnlyByFaults'
  <2>1. \A i \in Job : jobs'[i].state \in {"running", "cancelling"} => i = j
    BY <1>2, <1>8 DEF WorkerInd, Active
  <2> QED BY <1>2, <1>9, <2>1 DEF StrandedOnlyByFaults
<1>14. CancelIsPrompt'
  <2>1. jobs'[j].extra =< 1
    BY <1>2
  <2> QED BY <1>2, <2>1 DEF CancelIsPrompt
<1>15. OnlyStrays'
  BY <1>2, <1>6, StrayMore DEF OnlyStrays, CoverKept
<1> QED BY <1>4, <1>5, <1>11, <1>12, <1>13, <1>14, <1>15

\* LIMIT leaves nothing of a finite selection only when there is nothing.
LEMMA LimitedFacts ==
    ASSUME NEW S, IsFiniteSet(S), NEW B \in Limited(S)
    PROVE  B \subseteq S /\ Cardinality(B) \in Nat /\ (Cardinality(B) = 0 => S = {} /\ B = {})
<1>1. /\ B \subseteq S
      /\ IF Cardinality(S) =< BatchSize THEN B = S ELSE Cardinality(B) = BatchSize
  BY DEF Limited
<1>2. IsFiniteSet(B)
  BY <1>1, FS_Subset
<1>3. Cardinality(B) \in Nat /\ (Cardinality(B) = 0 => B = {})
  BY <1>2, FS_CardinalityType, FS_EmptySet
<1>4. Cardinality(B) = 0 => S = B
  BY <1>1, Bounds
<1> QED BY <1>1, <1>3, <1>4

\* deleteBatch on a table of the plan.
LEMMA DeleteBatchKeeps ==
    ASSUME DeletionInd, NEW t \in Tables, DeleteBatch(t)
    PROVE  DeletionInd'
<1> USE DEF DeletionInd
<1> DEFINE selected == {row \in Scope(Current) : row.table = t}
<1>1. PICK j \in Job : j = runner.job
  BY RunnerParts
<1>2. selected \subseteq rows /\ \A row \in rows : Selects(jobs[j], row) /\ row.table = t => row \in selected
  BY <1>1 DEF Scope, Current
<1>3. /\ runner.at = "batch" /\ Plan(jobs[j])[runner.table] = t
      /\ UNCHANGED <<resources, instances, host, checks, owners, strayed>>
  BY <1>1 DEF DeleteBatch, AtTable, Current
<1>4. PICK B \in Limited(selected) : rows' = rows \ B /\ Progress(Cardinality(B), B)
  BY DEF DeleteBatch
<1> HIDE DEF selected
<1>5. IsFiniteSet(selected)
  BY <1>2, FS_Subset DEF FiniteRows
<1>6. PICK n \in Nat : n = Cardinality(B) /\ (n = 0 => selected = {})
  BY <1>4, <1>5, LimitedFacts
<1>7. ASSUME n = 0, NEW row \in jobs[runner.job].left
      PROVE  \/ row.table # Plan(jobs[runner.job])[runner.table]
             \/ Stray(jobs[runner.job], strayed[runner.job], row)
  <2>1. row \in rows /\ Covers(jobs[j], strayed[j], instances, row)
    BY <1>1 DEF LeftInd
  <2>2. Selects(jobs[j], row) \/ Stray(jobs[j], strayed[j], row)
    BY <2>1, CoversIs
  <2> QED BY <1>1, <1>2, <1>3, <1>6, <1>7, <2>1, <2>2
<1>8. /\ host' \in BOOLEAN /\ checks' = checks
      /\ resources' \in [Resource -> {"absent", "active", "archived"}]
      /\ instances' \in [Container -> Resource \cup {None}] /\ owners' \in [Container -> SUBSET Resource]
      /\ strayed' \in [Job -> SUBSET Container]
  BY <1>3 DEF TypeOK
<1>9. CoverKept /\ Attributed'
  BY <1>3, <1>4, NothingAssigned
<1>10. Progress(n, B)
  BY <1>4, <1>6
<1> QED BY <1>3, <1>4, <1>7, <1>8, <1>9, <1>10, BatchKeeps

\* No history row is in a metadata table.
LEMMA NoRowsThere ==
    ASSUME DeletionInd, NEW t, t \notin Tables, AtTable(t)
    PROVE  /\ runner.at = "batch"
           /\ \A row \in jobs[runner.job].left : row.table # Plan(jobs[runner.job])[runner.table]
<1>1. runner.job \in Job
  BY RunnerParts DEF DeletionInd
<1>2. jobs[runner.job].left \subseteq Row
  BY <1>1, Names DEF DeletionInd
<1>3. \A row \in Row : row.table \in Tables
  BY DEF Row, Tables
<1> QED BY <1>2, <1>3 DEF AtTable, Current

\* A job that comes to the containers has only strays left among their samples, so
\* the rows that JOIN them are no longer needed.
LEMMA ContainersNotNeeded ==
    ASSUME DeletionInd, AtTable("container_instances"), NEW row \in jobs[runner.job].left, NEW f
    PROVE  Covers(jobs[runner.job], strayed[runner.job], f, row)
<1> USE DEF DeletionInd
<1>1. PICK j \in Job : j = runner.job
  BY RunnerParts
<1>2. jobs[j] \in JobRow /\ Covers(jobs[j], strayed[j], instances, row)
  BY <1>1, Names DEF LeftInd
<1>3. CASE ~ForResource(jobs[j]) \/ row.table # "instance"
  BY <1>1, <1>2, <1>3 DEF Covers
<1>4. CASE ForResource(jobs[j]) /\ row.table = "instance"
  <2>1. PICK k \in 1..7 : k = runner.table
    BY RunnerParts
  <2>2. PICK len \in 1..6 : len = Len(Plan(jobs[j]))
    BY <1>2, PlanFacts
  <2>3. k =< len /\ Plan(jobs[j])[k] = "container_instances" /\ runner.at = "batch"
    BY <1>1, <2>1, <2>2 DEF AtTable, Current, WorkerInd
  <2>4. k > 1 /\ Plan(jobs[j])[1] = "instance"
    BY <1>2, <1>4, <2>2, <2>3, PlanFacts
  <2>5. 1 \in 1..(k - 1)
    BY <2>4
  <2>6. Stray(jobs[j], strayed[j], row)
    BY <1>1, <1>4, <2>1, <2>3, <2>4, <2>5 DEF LeftInd, Working
  <2> QED BY <1>1, <1>2, <1>4, <2>6 DEF Covers, Stray
<1> QED BY <1>3, <1>4

\* deleteMetadataBatch on each of its tables: no history row goes.
LEMMA MetadataKeeps ==
    ASSUME DeletionInd, DeleteInstances \/ DeleteResources \/ DeleteHosts
    PROVE  DeletionInd'
<1> USE DEF DeletionInd
<1>1. IsFiniteSet(Resource) /\ IsFiniteSet(Container)
  BY Bounds
<1>2. rows' = rows => rows' = rows \ {}
  OBVIOUS
<1>3. CASE DeleteInstances
  <2>1. PICK B \in Limited(ScopedInstances(Current)) :
          /\ instances' = [c \in Container |-> IF c \in B THEN None ELSE instances[c]]
          /\ Reassigned(instances', {runner.job})
          /\ Progress(Cardinality(B), {})
    BY <1>3 DEF DeleteInstances
  <2>2. IsFiniteSet(ScopedInstances(Current))
    <3>1. ScopedInstances(Current) \subseteq Container
      BY DEF ScopedInstances
    <3> QED BY <1>1, <3>1, FS_Subset
  <2>3. PICK n \in Nat : n = Cardinality(B)
    BY <2>2, LimitedFacts
  <2>4. /\ runner.at = "batch"
        /\ \A row \in jobs[runner.job].left : row.table # Plan(jobs[runner.job])[runner.table]
    BY <1>3, NoRowsThere DEF Tables, DeleteInstances
  <2>5. /\ host' \in BOOLEAN /\ checks' = checks /\ rows' = rows /\ rows' = rows \ {}
        /\ resources' \in [Resource -> {"absent", "active", "archived"}]
    BY <1>3 DEF TypeOK, DeleteInstances
  <2>6. instances' \in [Container -> Resource \cup {None}]
    BY <2>1 DEF TypeOK
  <2>7. /\ owners' \in [Container -> SUBSET Resource] /\ strayed' \in [Job -> SUBSET Container]
        /\ \A c \in Container : owners[c] \subseteq owners'[c]
        /\ \A c \in Container : instances'[c] # None => instances'[c] \in owners'[c]
        /\ \A i \in Job : strayed[i] \subseteq strayed'[i]
        /\ \A i \in Job : i = runner.job => strayed'[i] = strayed[i]
        /\ \A i \in Job, row \in Row : i # runner.job /\ Covers(jobs[i], strayed[i], instances, row)
                                    => Covers(jobs[i], strayed'[i], instances', row)
    BY <2>1, <2>6, AssignmentRecorded
  <2>8. CoverKept
    <3>1. ASSUME NEW i \in Job, NEW row \in jobs[i].left, Covers(jobs[i], strayed[i], instances, row)
          PROVE  Covers(jobs[i], strayed'[i], instances', row)
      <4>1. CASE i = runner.job
        <5>1. Covers(jobs[i], strayed[i], instances', row)
          BY <1>3, <3>1, <4>1, ContainersNotNeeded DEF DeleteInstances
        <5> QED BY <2>7, <4>1, <5>1
      <4>2. CASE i # runner.job
        BY <2>7, <3>1, <4>2, Names
      <4> QED BY <4>1, <4>2
    <3> QED BY <2>7, <3>1 DEF CoverKept
  <2>9. Attributed'
    <3>1. ASSUME NEW row \in rows, row.table = "instance"
          PROVE  row.resource \in owners'[row.container]
      <4>1. row.container \in Container
        BY <3>1 DEF TypeOK, Row
      <4> QED BY <2>7, <3>1, <4>1 DEF Attributed
    <3> QED BY <2>5, <2>7, <3>1 DEF Attributed
  <2>10. Progress(n, {})
    BY <2>1, <2>3
  <2> QED BY <2>4, <2>5, <2>6, <2>7, <2>8, <2>9, <2>10, BatchKeeps
<1>4. CASE DeleteResources
  <2>1. PICK B \in Limited(ScopedResources(Current)) :
          /\ resources' = [r \in Resource |-> IF r \in B THEN "absent" ELSE resources[r]]
          /\ Progress(Cardinality(B), {})
    BY <1>4 DEF DeleteResources
  <2>2. IsFiniteSet(ScopedResources(Current))
    <3>1. Current.resource \in Resource
      BY RunnerParts, Names DEF JobRow, Current
    <3>2. ScopedResources(Current) \subseteq Resource
      BY <3>1 DEF ScopedResources, TypeOK
    <3> QED BY <1>1, <3>2, FS_Subset
  <2>3. PICK n \in Nat : n = Cardinality(B)
    BY <2>2, LimitedFacts
  <2>4. /\ runner.at = "batch"
        /\ \A row \in jobs[runner.job].left : row.table # Plan(jobs[runner.job])[runner.table]
    BY <1>4, NoRowsThere DEF Tables, DeleteResources
  <2>5. /\ host' \in BOOLEAN /\ checks' = checks /\ rows' = rows /\ rows' = rows \ {}
        /\ UNCHANGED <<instances, owners, strayed>>
    BY <1>4 DEF TypeOK, DeleteResources
  <2>6. resources' \in [Resource -> {"absent", "active", "archived"}]
    BY <2>1 DEF TypeOK
  <2>7. CoverKept /\ Attributed'
    BY <2>5, NothingAssigned
  <2>8. /\ instances' \in [Container -> Resource \cup {None}] /\ owners' \in [Container -> SUBSET Resource]
        /\ strayed' \in [Job -> SUBSET Container]
    BY <2>5 DEF TypeOK
  <2>9. Progress(n, {})
    BY <2>1, <2>3
  <2> QED BY <2>4, <2>5, <2>6, <2>7, <2>8, <2>9, BatchKeeps
<1>5. CASE DeleteHosts
  <2>1. AtTable("hosts") /\ Progress(IF host THEN 1 ELSE 0, {})
    BY <1>5 DEF DeleteHosts
  <2>2. PICK n \in Nat : n = IF host THEN 1 ELSE 0
    OBVIOUS
  <2>3. Progress(n, {})
    BY <2>1, <2>2
  <2>4. /\ runner.at = "batch"
        /\ \A row \in jobs[runner.job].left : row.table # Plan(jobs[runner.job])[runner.table]
    BY <2>1, NoRowsThere DEF Tables
  <2>5. /\ host' \in BOOLEAN /\ checks' = checks /\ rows' = rows /\ rows' = rows \ {}
        /\ resources' \in [Resource -> {"absent", "active", "archived"}]
        /\ UNCHANGED <<instances, owners, strayed>>
    BY <1>5 DEF TypeOK, DeleteHosts
  <2>6. CoverKept /\ Attributed'
    BY <2>5, NothingAssigned
  <2>7. /\ instances' \in [Container -> Resource \cup {None}] /\ owners' \in [Container -> SUBSET Resource]
        /\ strayed' \in [Job -> SUBSET Container]
    BY <2>5 DEF TypeOK
  <2> QED BY <2>3, <2>4, <2>5, <2>6, <2>7, BatchKeeps
<1> QED BY <1>3, <1>4, <1>5

-----------------------------------------------------------------------------
(* The results. *)

\* No job exists before the first preview.
LEMMA DeletionInit == Init => DeletionInd
<1> SUFFICES ASSUME Init PROVE DeletionInd
  OBVIOUS
<1>1. PICK kind \in Kind, r \in Resource :
        jobs = [j \in Job |-> [state |-> "none", kind |-> kind, resource |-> r, before |-> 0,
                               fence |-> 0, left |-> {}, extra |-> 0]]
  BY DEF Init
<1>2. 0 \in Time /\ 0 \in 0..MaxWrites /\ 0 \in 0..MaxFaults /\ 0 \in 0..MaxRestarts
  BY Bounds DEF Time
<1>3. jobs \in [Job -> JobRow] /\ \A j \in Job : jobs[j].state = "none" /\ jobs[j].left = {} /\ jobs[j].extra = 0
  <2> DEFINE q == [state |-> "none", kind |-> kind, resource |-> r, before |-> 0,
                   fence |-> 0, left |-> {}, extra |-> 0]
  <2>1. q \in JobRow /\ q.state = "none" /\ q.left = {} /\ q.extra = 0
    BY <1>1, <1>2 DEF JobRow
  <2>2. jobs = [j \in Job |-> q]
    BY <1>1
  <2> HIDE DEF q
  <2> QED BY <2>1, <2>2
<1>4. runner.at = "idle" /\ runner.table = 1 /\ runner \in [at : WorkerAt, job : Job, table : 1..7]
  BY IdleParts DEF Init
<1>5. TypeOK
  <2>1. /\ instances \in [Container -> Resource \cup {None}] /\ owners \in [Container -> SUBSET Resource]
        /\ strayed \in [Job -> SUBSET Container] /\ rows \subseteq Row
    BY DeletionAssumption DEF Init
  <2> QED BY <1>2, <1>3, <1>4, <2>1 DEF Init, TypeOK, WorkerAt
<1>6. FiniteRows /\ Attributed
  <2> DEFINE host0 == [table |-> "host", resource |-> None, container |-> None, ts |-> 0]
             row0(x) == [table |-> "resource", resource |-> x, container |-> None, ts |-> 0]
             below == {row0(x) : x \in Resource}
             samples == {row \in rows : row.table = "instance"}
             f == [x \in Resource |-> row0(x)]
  <2>1. IsFiniteSet(below)
    <3>1. f \in Surjection(Resource, below)
      BY DEF Surjection
    <3> HIDE DEF f, below
    <3> QED BY <3>1, Bounds, FS_Surjection
  <2>2. IsFiniteSet(below \cup {host0})
    BY <2>1, FS_AddElement
  <2>3. IsFiniteSet(samples)
    <3>1. \A x \in samples : /\ x \in [table : {"instance"}, resource : Resource, container : Container, ts : Time]
                             /\ x.resource = instances[x.container] /\ x.ts = 0
      BY DEF Init, Row
    <3>2. \A x \in samples : x.container \in Container
      BY <3>1
    <3>3. \A x, y \in samples : x.container = y.container => x = y
      BY <3>1
    <3> HIDE DEF samples
    <3> QED BY <3>2, <3>3, FiniteSamples
  <2>4. rows \subseteq (below \cup {host0}) \cup samples
    BY DEF Init, Row
  <2>5. Attributed
    <3>1. ASSUME NEW row \in rows, row.table = "instance"
          PROVE  row.resource = instances[row.container] /\ row.container \in Container
      BY <3>1 DEF Init, Row
    <3> QED BY <3>1 DEF Init, Attributed
  <2> HIDE DEF below, host0, samples
  <2>6. IsFiniteSet((below \cup {host0}) \cup samples)
    BY <2>2, <2>3, FS_Union
  <2> QED BY <2>4, <2>5, <2>6, FS_Subset DEF FiniteRows
<1>7. WorkerInd /\ LeftInd
  BY <1>3, <1>4 DEF WorkerInd, LeftInd, Working, Active
<1>8. CancelIsPrompt /\ StrandedOnlyByFaults /\ OnlyStrays
  BY <1>3 DEF CancelIsPrompt, StrandedOnlyByFaults, OnlyStrays
<1> QED BY <1>5, <1>6, <1>7, <1>8 DEF DeletionInd

\* Every step keeps the invariant.
LEMMA DeletionStep == DeletionInd /\ [Next]_vars => DeletionInd'
<1> SUFFICES ASSUME DeletionInd, [Next]_vars PROVE DeletionInd'
  OBVIOUS
<1>1. CASE Administer
  BY <1>1, PreviewKeeps, CreateKeeps, CancelKeeps, RetryKeeps, Zenon DEF Administer
<1>2. CASE Run
  BY <1>2, LoadKeeps, MarkKeeps, CheckKeeps, DeleteBatchKeeps, MetadataKeeps, BatchFailsKeeps,
     FinishKeeps, Zenon DEF Run, Tables
<1>3. CASE recoverDeletionJobs
  BY <1>3, RecoverKeeps
<1>4. CASE Collect \/ Tick \/ UNCHANGED vars
  BY <1>4, CollectKeeps
<1> QED BY <1>1, <1>2, <1>3, <1>4 DEF Next

\* So it always holds.
LEMMA DeletionKept == Spec => []DeletionInd
  BY DeletionInit, DeletionStep, PTL DEF Spec

\* The life of a job (RunDeletion, CancelDeletion, recoverDeletionJobs): its states
\* are typed, a job cancelled while it runs deletes at most one more batch, and a
\* job is under way without its worker only after a storage error.
THEOREM JobsHold == Spec => []JobInv
<1>1. DeletionInd => JobInv
  BY DEF DeletionInd, JobInv
<1> QED BY <1>1, DeletionKept, PTL

\* A job that RunDeletion reports as completed has deleted every row that was
\* stored when it was confirmed and that its preview covers, but for the samples of
\* containers that WriteBatch gave to another resource, or another deletion removed,
\* after the confirmation: the JOIN of deleteBatch no longer finds those.
THEOREM CompletedDeleted == Spec => []CompletedDeletedAll
<1>1. DeletionInd => CompletedDeletedAll
  BY DEF DeletionInd, OnlyStrays, CompletedDeletedAll, Escaped, Stray
<1> QED BY <1>1, DeletionKept, PTL

\* deleteBatch takes no row newer than the preview of an active job, and for a job
\* limited to a resource only rows recorded for it, or samples of a container that
\* WriteBatch assigned to it and to the resource they were recorded for; no other
\* statement deletes a row.
THEOREM FenceKept == Spec => FenceHolds
<1> DEFINE Allowed == \A row \in rows \ rows' : \E j \in Job :
               /\ jobs[j].state \in Active /\ InTime(jobs[j], row)
               /\ ForResource(jobs[j]) =>
                     \/ row.resource = jobs[j].resource
                     \/ /\ row.table = "instance"
                        /\ {row.resource, jobs[j].resource} \subseteq owners[row.container]
<1>1. DeletionInd /\ [Next]_vars => [Allowed]_vars
  <2> SUFFICES ASSUME DeletionInd, Next PROVE Allowed
    OBVIOUS
  <2> USE DEF DeletionInd
  <2>1. ASSUME NEW t \in Tables, DeleteBatch(t)
        PROVE  Allowed
    <3>1. PICK j \in Job : j = runner.job
      BY RunnerParts
    <3>2. jobs[j].state \in Active
      BY <2>1, <3>1 DEF DeleteBatch, AtTable, WorkerInd, Working, Active
    <3>3. PICK gone \in SUBSET rows : gone = rows \ rows'
      OBVIOUS
    <3>4. \A row \in gone : Selects(jobs[j], row)
      BY <2>1, <3>1, <3>3 DEF DeleteBatch, Limited, Scope, Current
    <3>5. ASSUME NEW row \in gone
          PROVE  /\ InTime(jobs[j], row)
                 /\ ForResource(jobs[j]) =>
                       \/ row.resource = jobs[j].resource
                       \/ /\ row.table = "instance"
                          /\ {row.resource, jobs[j].resource} \subseteq owners[row.container]
      <4>1. InTime(jobs[j], row) /\ row \in Row /\ jobs[j].resource \in Resource
        BY <3>4, Names DEF Selects, TypeOK, JobRow
      <4>2. CASE ForResource(jobs[j]) /\ row.table = "instance"
        <5>1. row.container \in Container /\ instances[row.container] = jobs[j].resource
          BY <3>4, <4>1, <4>2 DEF Selects, Row
        <5> QED BY <4>1, <4>2, <5>1, Bounds DEF Attributed
      <4>3. CASE ~(ForResource(jobs[j]) /\ row.table = "instance")
        BY <3>4, <4>1, <4>3 DEF Selects
      <4> QED BY <4>2, <4>3
    <3> QED BY <3>2, <3>3, <3>5
  <2>2. CASE rows \subseteq rows'
    BY <2>2
  <2>3. ASSUME NEW r \in Resource, NEW C \in SUBSET Container, NEW ts \in Time, WriteBatch(r, C, ts)
        PROVE  Allowed
    BY <2>3, <2>2 DEF WriteBatch
  <2>4. rows' = rows => Allowed
    OBVIOUS
  <2>5. Administer \/ recoverDeletionJobs \/ Tick => rows' = rows
    BY DEF Administer, PreviewDeletion, CreateDeletion, CancelDeletion, RetryDeletion,
           recoverDeletionJobs, Tick, data
  <2>6. (\E j \in Job : Load(j)) \/ Mark \/ Check \/ BatchFails \/ Finish => rows' = rows
    BY DEF Load, Mark, Check, BatchFails, Finish, data
  <2>7. DeleteInstances \/ DeleteResources \/ DeleteHosts => rows' = rows
    BY DEF DeleteInstances, DeleteResources, DeleteHosts
  <2>8. \A r \in Resource : UpsertResource(r) \/ ArchiveMissingResources(r) => rows' = rows
    BY DEF UpsertResource, ArchiveMissingResources
  <2>9. \A r \in Checked, on \in BOOLEAN : ConfigureCheck(r, on) => rows' = rows
    BY DEF ConfigureCheck
  <2> HIDE DEF Allowed
  <2>10. Collect => Allowed
    BY <2>3, <2>4, <2>8, <2>9, Zenon DEF Collect
  <2>11. Run => Allowed
    BY <2>1, <2>4, <2>6, <2>7, Zenon DEF Run, Tables
  <2> QED BY <2>4, <2>5, <2>10, <2>11, Zenon DEF Next
<1> QED BY <1>1, DeletionKept, PTL DEF Spec, FenceHolds

=============================================================================
