-------------------------- MODULE HistoryDeletion --------------------------
(***************************************************************************)
(* Deletion of monitoring history (internal/storage/deletion.go): an       *)
(* administrator previews a scope, confirms it, and a background worker    *)
(* deletes the rows in batches while the collector goes on writing.  Every *)
(* statement the worker executes outside a transaction is a step of its    *)
(* own, so cancellation, retry, the collector and a restart come between   *)
(* any two of them.                                                        *)
(*                                                                         *)
(* Tables with the same WHERE clause are one table here: "host" for the    *)
(* host-wide history, "resource" for the history that names its resource.  *)
(* "instance" is container_instance_samples_10s, whose rows name only a    *)
(* container: the resource they belong to is the one container_instances   *)
(* has for that container when they are deleted.  Of the metadata tables   *)
(* boot_sessions is left out: nothing writes it.                           *)
(***************************************************************************)
EXTENDS Integers, Sequences, FiniteSets

CONSTANTS
    Resource,     \* resource ids
    Container,    \* container instance ids
    Home,         \* [Container -> the resource it is first a component of]
    Checked,      \* resources somebody configures health checks for
    Job,          \* previews, and the job each of them may become
    Kind,         \* the kinds of deletion requested
    BatchSize,    \* LIMIT of a batch (500 in the code)
    MaxTime,      \* bound: the clock
    MaxWrites,    \* bound: what the collector writes
    MaxFaults,    \* bound: storage errors
    MaxRestarts   \* bound: process restarts

ASSUME DeletionAssumption ==
    /\ IsFiniteSet(Resource) /\ IsFiniteSet(Container) /\ Job # {}
    /\ "none" \notin Resource /\ Checked \subseteq Resource
    /\ Home \in [Container -> Resource]
    /\ Kind \subseteq {"resource", "before", "all", "archived_resource"}
    /\ BatchSize \in Nat \ {0}
    /\ MaxTime \in Nat
    /\ MaxWrites \in Nat
    /\ MaxFaults \in Nat
    /\ MaxRestarts \in Nat

None == "none"    \* no resource, no container
Time == 0..MaxTime

\* Rows of the history tables.  The resource of an instance row is history: the
\* resource whose component the container was when the sample was taken.
Row == [table : {"host"}, resource : {None}, container : {None}, ts : Time]
         \cup [table : {"resource"}, resource : Resource, container : {None}, ts : Time]
         \cup [table : {"instance"}, resource : Resource, container : Container, ts : Time]
Active == {"queued", "running", "cancelling"}
Finished == {"completed", "cancelled", "failed"}

VARIABLES
    rows,        \* the history tables
    resources,   \* [Resource -> "absent", "active" or "archived"]
    instances,   \* container_instances: [Container -> its resource_id, or None]
    host,        \* the hosts row exists
    checks,      \* resources with health_checks rows
    jobs,        \* previews and jobs: [Job -> JobRow]
    runner,      \* where runDeletionWorker is
    clock, writes, faults, restarts,
    \* history
    owners,      \* [Container -> the resources it was ever assigned to]
    strayed      \* [Job -> containers taken from its resource since it was
                 \*         confirmed, by anyone but its own worker]

data == <<rows, resources, instances, host, checks, owners, strayed>>
vars == <<data, jobs, runner, clock, writes, faults, restarts>>

JobRow == [state : {"none", "previewed"} \cup Active \cup Finished,
           kind : Kind, resource : Resource, before : Time, fence : Time,
           left : SUBSET Row,   \* history: confirmed rows not deleted so far
           extra : Nat]         \* history: batches since the cancellation

Idle == [at |-> "idle", job |-> CHOOSE j \in Job : TRUE, table |-> 1]

-----------------------------------------------------------------------------
(* What a deletion covers. *)

deletionTables(kind) ==
    IF kind \in {"before", "all"} THEN <<"host", "instance", "resource">>
    ELSE <<"instance", "resource">>

metadataDeletionTables(kind) ==
    CASE kind = "archived_resource" -> <<"container_instances", "resources">>
      [] kind = "all"               -> <<"container_instances", "resources", "hosts">>
      [] OTHER                      -> <<>>

\* Mutant: the metadata goes first.
PlanMetadataFirst(job) == metadataDeletionTables(job.kind) \o deletionTables(job.kind)

Plan(job) == deletionTables(job.kind) \o metadataDeletionTables(job.kind)

ForResource(job) == job.kind \in {"resource", "archived_resource"}
InTime(job, row) == IF job.kind = "before" THEN row.ts < job.before ELSE row.ts =< job.fence

\* The rows a deletion selects: by their own resource_id, or through a JOIN with
\* container_instances.
Selects(job, row) ==
    /\ InTime(job, row)
    /\ ForResource(job) =>
          \/ row.table = "resource" /\ row.resource = job.resource
          \/ row.table = "instance" /\ instances[row.container] = job.resource

Scope(job) == {row \in rows : Selects(job, row)}

\* The metadata a deletion selects: not limited by the fence.
ScopedResources(job) ==
    IF job.kind = "all" THEN {r \in Resource : resources[r] # "absent"}
    ELSE {r \in {job.resource} : resources[r] = "archived"}
ScopedInstances(job) ==
    {c \in Container : IF job.kind = "all" THEN instances[c] # None
                       ELSE instances[c] = job.resource}

\* What LIMIT leaves of a selection.
Limited(S) ==
    {B \in SUBSET S : IF Cardinality(S) =< BatchSize THEN B = S ELSE Cardinality(B) = BatchSize}

\* The resources that other rows refer to.
Referenced == {instances[c] : c \in Container} \cup checks

\* The index one_active_history_deletion.
NoOtherActive(j) == \A i \in Job \ {j} : jobs[i].state \notin Active

-----------------------------------------------------------------------------
(* The administrator. *)

\* A preview fixes the scope; a date in the future is cut to the present (other
\* kinds have no date, and the resource of the kinds without one says nothing).
PreviewDeletion(j, kind, r, before) ==
    /\ jobs[j].state = "none"
    /\ IF kind \in {"resource", "archived_resource"} THEN resources[r] # "absent"
       ELSE r = CHOOSE x \in Resource : TRUE
    /\ kind = "archived_resource" => resources[r] = "archived"
    /\ before =< IF kind = "before" THEN clock ELSE 0
    /\ jobs' = [jobs EXCEPT ![j] =
            [@ EXCEPT !.state = "previewed", !.kind = kind, !.resource = r,
                      !.before = before,
                      !.fence = clock]]
    /\ UNCHANGED <<data, runner, clock, writes, faults, restarts>>

\* The confirmed preview becomes a job; it can be used once.
CreateDeletion(j) ==
    /\ jobs[j].state = "previewed"
    /\ NoOtherActive(j)
    /\ jobs' = [jobs EXCEPT ![j] =
            [@ EXCEPT !.state = "queued", !.left = Scope(jobs[j])]]
    /\ strayed' = [strayed EXCEPT ![j] = {}]
    /\ UNCHANGED <<rows, resources, instances, host, checks, owners>>
    /\ UNCHANGED <<runner, clock, writes, faults, restarts>>

CancelDeletion(j) ==
    /\ jobs[j].state \in {"queued", "running"}
    /\ jobs' = [jobs EXCEPT ![j].state = IF @ = "queued" THEN "cancelled" ELSE "cancelling"]
    /\ UNCHANGED <<data, runner, clock, writes, faults, restarts>>

RetryDeletion(j) ==
    /\ jobs[j].state \in {"cancelled", "failed"}
    /\ NoOtherActive(j)
    /\ jobs' = [jobs EXCEPT ![j] = [@ EXCEPT !.state = "queued", !.extra = 0]]
    /\ UNCHANGED <<data, runner, clock, writes, faults, restarts>>

-----------------------------------------------------------------------------
(* The worker: RunDeletion, statement by statement. *)

Current == jobs[runner.job]
Fault == faults < MaxFaults /\ faults' = faults + 1
GoTo(p) == runner' = [runner EXCEPT !.at = p]
Leave == runner' = Idle
SetState(s) == jobs' = [jobs EXCEPT ![runner.job].state = s]

\* The second ticker finds the queued job, and RunDeletion reads it.
Load(j) ==
    /\ runner.at = "idle"
    /\ jobs[j].state = "queued"
    /\ runner' = [Idle EXCEPT !.at = "mark", !.job = j]
    /\ UNCHANGED <<data, jobs, clock, writes, faults, restarts>>

\* The job is marked as running, whatever its state is by now.
Mark ==
    /\ runner.at = "mark"
    /\ \/ /\ NoOtherActive(runner.job)
          /\ SetState("running")
          /\ GoTo("check")
          /\ UNCHANGED faults
       \/ /\ ~NoOtherActive(runner.job)
          /\ Leave
          /\ UNCHANGED <<jobs, faults>>
       \/ Fault /\ Leave /\ UNCHANGED jobs
    /\ UNCHANGED <<data, clock, writes, restarts>>

\* Mutant: the state is read for the first table only.
CheckOnce ==
    /\ runner.at = "check"
    /\ \/ /\ Current.state = "cancelling" /\ runner.table = 1
          /\ SetState("cancelled")
          /\ Leave
       \/ /\ Current.state # "cancelling" \/ runner.table # 1
          /\ GoTo("batch")
          /\ UNCHANGED jobs
    /\ UNCHANGED <<data, clock, writes, faults, restarts>>

\* Before every batch the state is read again.
Check ==
    /\ runner.at = "check"
    /\ \/ /\ Current.state = "cancelling"
          /\ SetState("cancelled")
          /\ Leave
          /\ UNCHANGED faults
       \/ /\ Current.state # "cancelling"
          /\ GoTo("batch")
          /\ UNCHANGED <<jobs, faults>>
       \/ Fault /\ Leave /\ UNCHANGED jobs
    /\ UNCHANGED <<data, clock, writes, restarts>>

\* Mutant: an empty batch does not end its table.
ProgressNever(n, removed) ==
    /\ jobs' = [j \in Job |-> [jobs[j] EXCEPT !.left = @ \ removed]]
    /\ GoTo("check")
    /\ UNCHANGED <<clock, writes, faults, restarts>>

\* What is left to do after a batch of n rows: the progress is stored, and an
\* empty batch moves on to the next table.
Progress(n, removed) ==
    /\ jobs' = [j \in Job |->
            IF j # runner.job THEN [jobs[j] EXCEPT !.left = @ \ removed]
            ELSE [jobs[j] EXCEPT
                    !.left = @ \ removed,
                    !.extra = IF jobs[j].state = "cancelling" /\ n > 0 THEN @ + 1 ELSE @]]
    /\ runner' = [runner EXCEPT
            !.table = IF n = 0 THEN @ + 1 ELSE @,
            !.at = IF n = 0 /\ runner.table = Len(Plan(Current)) THEN "finish" ELSE "check"]
    /\ UNCHANGED <<clock, writes, faults, restarts>>

AtTable(t) == runner.at = "batch" /\ Plan(Current)[runner.table] = t

\* Mutant: a batch is not limited to the rows the fence covers.
BatchIgnoresFence(t) ==
    /\ AtTable(t)
    /\ \E B \in SUBSET {row \in rows : row.table = t} :
          /\ Cardinality(B) =< BatchSize
          /\ B = {} => Scope(Current) = {}
          /\ rows' = rows \ B
          /\ Progress(Cardinality(B), B)
    /\ UNCHANGED <<resources, instances, host, checks, owners, strayed>>

\* deleteBatch: up to BatchSize of the selected rows of a history table.
DeleteBatch(t) ==
    /\ AtTable(t)
    /\ \E B \in Limited({row \in Scope(Current) : row.table = t}) :
          /\ rows' = rows \ B
          /\ Progress(Cardinality(B), B)
    /\ UNCHANGED <<resources, instances, host, checks, owners, strayed>>

\* The history of an assignment f of containers to resources, for all jobs but those
\* of J: who owned a container, and from which jobs' resource it was taken.
Reassigned(f, J) ==
    /\ owners' = [c \in Container |-> owners[c] \cup ({f[c]} \ {None})]
    /\ strayed' = [j \in Job |-> IF j \in J THEN strayed[j] ELSE strayed[j] \cup
            {c \in Container : instances[c] = jobs[j].resource /\ f[c] # jobs[j].resource}]

\* deleteMetadataBatch.  Foreign keys without ON DELETE: instances and checks
\* refer to resources, resources refer to the host.
DeleteInstances ==
    /\ AtTable("container_instances")
    /\ \E B \in Limited(ScopedInstances(Current)) :
          /\ instances' = [c \in Container |-> IF c \in B THEN None ELSE instances[c]]
          /\ Reassigned(instances', {runner.job})
          /\ Progress(Cardinality(B), {})
    /\ UNCHANGED <<rows, resources, host, checks>>

DeleteResources ==
    /\ AtTable("resources")
    /\ \E B \in Limited(ScopedResources(Current)) :
          /\ B \cap Referenced = {}
          /\ resources' = [r \in Resource |-> IF r \in B THEN "absent" ELSE resources[r]]
          /\ Progress(Cardinality(B), {})
    /\ UNCHANGED <<rows, instances, host, checks, owners, strayed>>

DeleteHosts ==
    /\ AtTable("hosts")
    /\ host => \A r \in Resource : resources[r] = "absent"
    /\ host' = FALSE
    /\ Progress(IF host THEN 1 ELSE 0, {})
    /\ UNCHANGED <<rows, resources, instances, checks, owners, strayed>>

\* A batch fails on a foreign key, or with a storage error: the job fails (a
\* second error can keep even that from being stored).
BatchFails ==
    /\ \/ /\ AtTable("resources")
          /\ \E B \in Limited(ScopedResources(Current)) : B \cap Referenced # {}
          /\ SetState("failed")
          /\ UNCHANGED faults
       \/ /\ AtTable("hosts") /\ host
          /\ \E r \in Resource : resources[r] # "absent"
          /\ SetState("failed")
          /\ UNCHANGED faults
       \/ /\ runner.at = "batch"
          /\ Fault
          /\ SetState("failed") \/ UNCHANGED jobs
    /\ Leave
    /\ UNCHANGED <<data, clock, writes, restarts>>

Finish ==
    /\ runner.at = "finish"
    /\ \/ SetState("completed") /\ UNCHANGED faults
       \/ Fault /\ UNCHANGED jobs
    /\ Leave
    /\ UNCHANGED <<data, clock, writes, restarts>>

Run == \/ \E j \in Job : Load(j)
       \/ Mark \/ Check
       \/ \E t \in {"host", "instance", "resource"} : DeleteBatch(t)
       \/ DeleteInstances \/ DeleteResources \/ DeleteHosts \/ BatchFails \/ Finish

\* Mutant: cancelled jobs are forgotten by recovery.
RecoverRunningOnly ==
    /\ restarts < MaxRestarts
    /\ restarts' = restarts + 1
    /\ jobs' = [j \in Job |->
            [jobs[j] EXCEPT !.state = IF @ = "running" THEN "queued" ELSE @]]
    /\ Leave
    /\ UNCHANGED <<data, clock, writes, faults>>

\* The process restarts: recoverDeletionJobs, then a new worker.
recoverDeletionJobs ==
    /\ restarts < MaxRestarts
    /\ restarts' = restarts + 1
    /\ jobs' = [j \in Job |->
            [jobs[j] EXCEPT !.state = CASE @ = "running"    -> "queued"
                                        [] @ = "cancelling" -> "cancelled"
                                        [] OTHER            -> @]]
    /\ Leave
    /\ UNCHANGED <<data, clock, writes, faults>>

-----------------------------------------------------------------------------
(* The collector and the rest of the system. *)

\* The sampler upserts the host and the resources it sees,
UpsertResource(r) ==
    /\ writes < MaxWrites
    /\ writes' = writes + 1
    /\ host' = TRUE
    /\ resources' = [resources EXCEPT ![r] = "active"]
    /\ UNCHANGED <<rows, instances, checks, owners, strayed>>
    /\ UNCHANGED <<jobs, runner, clock, faults, restarts>>

\* and archives the ones it has not seen for some time.
ArchiveMissingResources(r) ==
    /\ resources[r] = "active"
    /\ resources' = [resources EXCEPT ![r] = "archived"]
    /\ UNCHANGED <<rows, instances, host, checks, owners, strayed>>
    /\ UNCHANGED <<jobs, runner, clock, writes, faults, restarts>>

\* Mutant: a container that is known keeps its resource (the UPDATE is missing).
AssignOnce(C, r) ==
    [c \in Container |-> IF c \in C /\ instances[c] = None THEN r ELSE instances[c]]

\* container_instances: INSERT OR IGNORE, then UPDATE.
Assign(C, r) == [c \in Container |-> IF c \in C THEN r ELSE instances[c]]

\* A snapshot with the components C of resource r, which may have waited in the
\* queue, is written: one transaction that fails as a whole when the resource's row
\* is missing.  At one time a container is a component of one resource.
WriteBatch(r, C, ts) ==
    /\ writes < MaxWrites
    /\ writes' = writes + 1
    /\ resources[r] # "absent"
    /\ \A row \in rows : row.container \in C /\ row.ts = ts => row.resource = r
    /\ rows' = rows \cup {[table |-> "host", resource |-> None, container |-> None, ts |-> ts],
                          [table |-> "resource", resource |-> r, container |-> None, ts |-> ts]}
                    \cup [table : {"instance"}, resource : {r}, container : C, ts : {ts}]
    /\ instances' = Assign(C, r)
    /\ Reassigned(instances', {})
    /\ UNCHANGED <<resources, host, checks, jobs, runner, clock, faults, restarts>>

\* Health checks are configured for existing resources.
ConfigureCheck(r, on) ==
    /\ on => resources[r] # "absent"
    /\ checks' = IF on THEN checks \cup {r} ELSE checks \ {r}
    /\ UNCHANGED <<rows, resources, instances, host, owners, strayed>>
    /\ UNCHANGED <<jobs, runner, clock, writes, faults, restarts>>

Tick ==
    /\ clock < MaxTime
    /\ clock' = clock + 1
    /\ UNCHANGED <<data, jobs, runner, writes, faults, restarts>>

-----------------------------------------------------------------------------
\* The collector has stored one snapshot of the host, of every resource and of every
\* container.
Init ==
    /\ resources = [r \in Resource |-> "active"]
    /\ instances = Home
    /\ rows = {row \in Row : /\ row.ts = 0
                             /\ row.table = "instance" => row.resource = instances[row.container]}
    /\ owners = [c \in Container |-> {instances[c]}]
    /\ strayed = [j \in Job |-> {}]
    /\ host = TRUE
    /\ checks = {}
    /\ \E kind \in Kind, r \in Resource :
          jobs = [j \in Job |-> [state |-> "none", kind |-> kind, resource |-> r,
                                 before |-> 0, fence |-> 0,
                                 left |-> {}, extra |-> 0]]
    /\ runner = Idle
    /\ clock = 0
    /\ writes = 0
    /\ faults = 0
    /\ restarts = 0

Administer ==
    \E j \in Job :
        \/ \E kind \in Kind, r \in Resource, before \in Time :
              PreviewDeletion(j, kind, r, before)
        \/ CreateDeletion(j)
        \/ CancelDeletion(j)
        \/ RetryDeletion(j)

Collect ==
    \/ \E r \in Resource : UpsertResource(r) \/ ArchiveMissingResources(r)
    \/ \E r \in Resource, C \in SUBSET Container, ts \in Time :
          ts \in {clock - 1, clock} /\ WriteBatch(r, C, ts)
    \/ \E r \in Checked, on \in BOOLEAN : ConfigureCheck(r, on)

Next == Administer \/ Run \/ recoverDeletionJobs \/ Collect \/ Tick

Spec == Init /\ [][Next]_vars

\* The worker's goroutine runs.
FairSpec == Spec /\ WF_vars(Run)

-----------------------------------------------------------------------------
(* Properties. *)

\* The tables, the jobs and the worker hold values of their types.
TypeOK ==
    /\ rows \subseteq Row
    /\ resources \in [Resource -> {"absent", "active", "archived"}]
    /\ instances \in [Container -> Resource \cup {None}]
    /\ host \in BOOLEAN
    /\ checks \subseteq Resource
    /\ jobs \in [Job -> JobRow]
    /\ runner \in [at : {"idle", "mark", "check", "batch", "finish"},
                   job : Job, table : 1..7]
    /\ clock \in Time
    /\ writes \in 0..MaxWrites
    /\ faults \in 0..MaxFaults
    /\ restarts \in 0..MaxRestarts
    /\ owners \in [Container -> SUBSET Resource]
    /\ strayed \in [Job -> SUBSET Container]

\* Sample row left the JOIN of job j after it was confirmed.
Escaped(j, row) ==
    ForResource(jobs[j]) /\ row.table = "instance" /\ row.container \in strayed[j]

\* A job that is reported as completed has deleted every row its confirmation
\* covered, although it may have been cancelled, failed, retried and restarted on the
\* way and the collector wrote rows meanwhile.  The one exception: samples of a
\* container which the writer gave to another resource, or whose container_instances
\* row another deletion removed, after the confirmation (deletion.go:263 finds them
\* through that row).
CompletedDeletedAll ==
    \A j \in Job : jobs[j].state = "completed" => \A row \in jobs[j].left : Escaped(j, row)

\* No deletion takes a row newer than its preview.  One that is limited to a resource
\* takes no host row, and a row recorded for another resource only when it is a sample
\* of a container that was assigned to both (a sample does not say which resource it
\* was recorded for).
FenceHolds ==
    [][\A row \in rows \ rows' : \E j \in Job :
          /\ jobs[j].state \in Active /\ InTime(jobs[j], row)
          /\ ForResource(jobs[j]) =>
                \/ row.resource = jobs[j].resource
                \/ /\ row.table = "instance"
                   /\ {row.resource, jobs[j].resource} \subseteq owners[row.container]]_vars

\* Once a running job is being cancelled, at most one more batch is deleted.
CancelIsPrompt == \A j \in Job : jobs[j].extra =< 1

\* A job is running or being cancelled only while the worker is at it, but for
\* storage errors: any other job would block all later deletions (the index
\* allows one active job) until a restart.
StrandedOnlyByFaults ==
    faults = 0 =>
        \A j \in Job : jobs[j].state \in {"running", "cancelling"}
            => runner.at \in {"check", "batch", "finish"} /\ runner.job = j

\* Without storage errors a job that is queued or being cancelled finishes,
\* although the collector keeps writing and the process may restart.
JobsFinish ==
    \A j \in Job : jobs[j].state \in Active ~> jobs[j].state \in Finished \/ faults > 0

\* A job that was cancelled runs again only when it is retried.
CancelledNeedsRetry ==
    [][\A j \in Job : jobs[j].state = "cancelled"
          => jobs'[j].state \in {"cancelled", "queued"}]_vars

\* The life of a job: its states are typed, a cancelled one stops before its second
\* batch, and none keeps the one active place after the worker left it, but for a
\* storage error.
JobInv == TypeOK /\ CancelIsPrompt /\ StrandedOnlyByFaults
=============================================================================
