------------------------------- MODULE Sampler -------------------------------
(***************************************************************************)
(* The production sampler (internal/collector/production/sampler.go) with  *)
(* the metadata cache of internal/collector/docker, the resources it       *)
(* groups containers into (internal/resources) and their table             *)
(* (internal/storage/resources.go).  One goroutine collects on a timer and *)
(* handles the events of the Docker daemon in between; it publishes to the *)
(* metrics engine of module Engine.                                        *)
(*                                                                         *)
(* Of the host's observation the module has one counter of the kernel,     *)
(* read as network traffic and as disk traffic; a rate is the growth since *)
(* the sample before (the code divides both sides by the elapsed time).    *)
(* The statistics of containers, names and categories are left out.        *)
(***************************************************************************)
EXTENDS Engine, FiniteSets

CONSTANTS
    Container,
    ResourceOf,      \* [Container -> the resource that identifies it]
    PendingCap,      \* events kept between two passes (128 in the code)
    ArchiveAfter,    \* age at which a missing resource is archived (5 minutes)
    DegradedAt, DownAt,   \* failures in a row (3 and 6 in the code)
    MaxSteps,        \* bound: steps of Docker, the clock and the browsers together
    MaxOutages       \* bound: statements and requests that fail

ASSUME SamplerAssumption ==
    /\ PendingCap \in Nat \ {0}
    /\ ArchiveAfter \in Nat
    /\ DegradedAt \in Nat \ {0} /\ DegradedAt < DownAt
    /\ DOMAIN ResourceOf = Container

VARIABLES
    \* the daemon and the kernel
    docker,         \* [Container -> its state and health]
    stream,         \* the event stream: connected, and the events not yet handled
    kernel,         \* the counter
    now,
    \* the sampler
    cache,          \* [Container -> cached state and health, or NoMetadata]
    pending,        \* numbers of the events for the next snapshot
    failures,       \* [host, docker -> failures in a row]
    lastResources,  \* [Resource -> status], also what the snapshot shows
    lastSample,     \* counters of the sample before, or -1
    rates,          \* published rates, or -1
    \* the table
    rows,           \* [Resource -> status and last_seen_at]
    \* history and bounds
    received,       \* events that were handled
    accepted,       \* numbers of those that count
    published,      \* numbers of the events published, in order
    unrefreshed,    \* containers whose refresh failed
    unread,         \* whether the disk counters of the last sample, and of the one
                    \* before, could not be read
    steps, outages

daemon == <<docker, stream, kernel, steps>>
host == <<lastSample, rates, unread>>
eventLog == <<pending, received, accepted, published>>
samplerVars == <<daemon, now, cache, failures, lastResources, host, rows, eventLog,
                 unrefreshed, outages>>
allVars == <<engineVars, samplerVars>>

Resource == {ResourceOf[c] : c \in Container}
Absent == "absent"
NoMetadata == [state |-> Absent, health |-> "none"]
NoRow == [status |-> Absent, seen |-> 0]
ContainerState == {"created", "running", "paused", "exited", "dead"}
ContainerHealth == {"starting", "healthy", "unhealthy"}
Outside == steps < MaxSteps /\ steps' = steps + 1
Fault == outages < MaxOutages /\ outages' = outages + 1

-----------------------------------------------------------------------------
(* The Docker daemon. *)

Listed == {c \in Container : docker[c].state \notin {Absent, "destroyed"}}

\* A container changes and, while the stream is connected, an event tells.
Change(c, value, action) ==
    /\ Outside
    /\ docker' = [docker EXCEPT ![c] = value]
    /\ stream' = IF stream.connected
                 THEN [stream EXCEPT !.events = Append(@, [id |-> c, action |-> action])]
                 ELSE stream
    /\ UNCHANGED <<engineVars, kernel, now, cache, failures, lastResources, host, rows,
                   eventLog, unrefreshed, outages>>

HealthStatus == [healthy |-> "health_status: healthy", unhealthy |-> "health_status: unhealthy"]

\* A container is created, started, paused, stopped and removed; "dead" is one that
\* an earlier removal left behind.
Lifecycle(c) ==
    LET state == docker[c].state
        to(s) == [docker[c] EXCEPT !.state = s]
    IN \/ state = Absent /\ Change(c, to("created"), "create")
       \/ state \in {"created", "exited"}
             /\ Change(c, [state |-> "running", health |-> "starting"], "start")
       \/ state \in {"created", "exited", "dead"} /\ Change(c, to("destroyed"), "destroy")
       \/ state = "running" /\ Change(c, to("exited"), "die")
       \/ state = "running" /\ Change(c, to("paused"), "pause")
       \/ state = "paused" /\ Change(c, to("running"), "unpause")
       \/ \E h \in DOMAIN HealthStatus :
             /\ state = "running" /\ docker[c].health # h
             /\ Change(c, [docker[c] EXCEPT !.health = h], HealthStatus[h])

\* The stream ends and nobody opens it again.
Disconnect ==
    /\ stream.connected
    /\ Outside
    /\ stream' = [stream EXCEPT !.connected = FALSE]
    /\ UNCHANGED <<engineVars, docker, kernel, now, cache, failures, lastResources,
                   host, rows, eventLog, unrefreshed, outages>>

-----------------------------------------------------------------------------
(* Events. *)

\* Mutant: an unpaused container is not inspected again.
RefreshingAtStart == {"start", "restart", "health_status"}

\* The actions that refresh; Docker tells of health as "health_status: healthy".
Refreshing == {"start", "unpause", "restart", "health_status"}

\* NormalizeDocker
NormalizeDocker(action) ==
    action \in {"create", "start", "die", "destroy",
                "health_status: healthy", "health_status: unhealthy"}

\* handleDockerEvent; the inspection of a refresh may fail.
handleDockerEvent(c, action, fails) ==
    CASE action = "destroy" -> [cache EXCEPT ![c] = NoMetadata]
      [] action \in {"die", "stop", "pause"} ->
            IF cache[c] = NoMetadata THEN cache ELSE [cache EXCEPT ![c].state = action]
      [] action \in Refreshing /\ ~fails /\ c \in Listed -> [cache EXCEPT ![c] = docker[c]]
      [] OTHER -> cache

\* Mutant: a full list takes no more.
KeepPendingOldest(n) == IF Len(pending) = PendingCap THEN pending ELSE Append(pending, n)

KeepPending(n) ==
    Append(IF Len(pending) = PendingCap THEN Tail(pending) ELSE pending, n)

\* The sampler takes an event between two passes.
DockerEvent(fails) ==
    LET e == Head(stream.events) IN
    /\ stream.events # <<>>
    /\ fails => e.action \in Refreshing /\ Fault
    /\ ~fails => UNCHANGED outages
    /\ stream' = [stream EXCEPT !.events = Tail(@)]
    /\ cache' = handleDockerEvent(e.id, e.action, fails)
    /\ received' = received + 1
    /\ IF NormalizeDocker(e.action)
       THEN pending' = KeepPending(received') /\ accepted' = accepted \cup {received'}
       ELSE UNCHANGED <<pending, accepted>>
    /\ unrefreshed' = IF fails THEN unrefreshed \cup {e.id}
                      ELSE IF e.action \in Refreshing \cup {"die", "pause", "destroy"}
                      THEN unrefreshed \ {e.id} ELSE unrefreshed
    /\ UNCHANGED <<engineVars, docker, kernel, steps, now, failures, lastResources, host,
                   rows, published>>

-----------------------------------------------------------------------------
(* A pass. *)

\* containerStatus
containerStatus(m) ==
    CASE m.state = "running" /\ m.health = "unhealthy" -> "down"
      [] m.state = "running" /\ m.health = "starting" -> "unknown"
      [] m.state = "running" /\ m.health \notin {"unhealthy", "starting"} -> "healthy"
      [] m.state = "paused" -> "paused"
      [] m.state \in {"exited", "dead"} -> "down"
      [] OTHER -> "unknown"

Rank == [healthy |-> 0, paused |-> 1, unknown |-> 2, degraded |-> 3, down |-> 4]

\* Mutant: the best one.
RollupBest(S) == CHOOSE s \in S : \A t \in S : Rank[s] =< Rank[t]

\* RollupStatus: the worst one.
RollupStatus(S) == CHOOSE s \in S : \A t \in S : Rank[t] =< Rank[s]

\* health
healthOf(n) == IF n >= DownAt THEN "down" ELSE IF n >= DegradedAt THEN "degraded" ELSE "healthy"

\* inspect asks the cache first.
inspect(c) == IF cache[c] # NoMetadata THEN cache[c] ELSE docker[c]

\* collectDocker: the resources of the listed containers.
collectDocker ==
    [r \in Resource |->
        LET group == {c \in Listed : ResourceOf[c] = r} IN
        IF group = {} THEN Absent
        ELSE RollupStatus({containerStatus(inspect(c)) : c \in group})]

\* Rate: none before the first sample, and none when the counter went back.
Rate(current, before) == IF before = -1 \/ current < before THEN -1 ELSE current - before

\* Mutant: the disk sample is kept although a later read fails.
collectHostKeepsEarly(fails, diskFails) ==
    LET disk == IF diskFails THEN 0 ELSE kernel IN
    /\ lastSample' = [network |-> IF fails THEN lastSample.network ELSE kernel, disk |-> disk]
    /\ unread' = [last |-> diskFails, before |-> unread.last]
    /\ rates' = IF fails THEN [network |-> -1, disk |-> -1]
                ELSE [network |-> Rate(kernel, lastSample.network),
                      disk |-> Rate(disk, lastSample.disk)]

\* collectHost: every required file is read before a sample is kept; the disk
\* counters are zero when their file cannot be read.
collectHost(fails, diskFails) ==
    LET disk == IF diskFails THEN 0 ELSE kernel IN
    IF fails THEN /\ rates' = [network |-> -1, disk |-> -1]
                  /\ UNCHANGED <<lastSample, unread>>
    ELSE /\ rates' = [network |-> Rate(kernel, lastSample.network),
                      disk |-> Rate(disk, lastSample.disk)]
         /\ lastSample' = [network |-> kernel, disk |-> disk]
         /\ unread' = [last |-> diskFails, before |-> unread.last]

Present(values) == {r \in Resource : values[r] # Absent}

\* UpsertResource, for the resources whose statement does not fail.
UpsertResource(values, failed) ==
    [r \in Resource |-> IF r \in Present(values) \ failed
                        THEN [status |-> values[r], seen |-> now] ELSE rows[r]]

\* Mutant: the resources of the pass are not excepted.
ArchiveOld(table, values) ==
    [r \in Resource |->
        IF table[r].status \notin {Absent, "archived"} /\ table[r].seen < now - ArchiveAfter
        THEN [table[r] EXCEPT !.status = "archived"] ELSE table[r]]

ArchiveMissingResources(table, values) ==
    [r \in Resource |->
        IF /\ table[r].status \notin {Absent, "archived"}
           /\ table[r].seen < now - ArchiveAfter
           /\ r \notin Present(values)
        THEN [table[r] EXCEPT !.status = "archived"] ELSE table[r]]

Count(n, failed) == IF failed THEN n + 1 ELSE 0

\* The snapshot is published with the pending events.
PublishPending ==
    /\ Publish(Len(pending))
    /\ published' = published \o pending
    /\ pending' = <<>>

\* collect, when Docker answers; the statements that write the table may fail, each
\* on its own.
Collect(hostFails, diskFails, failed, archiveFails) ==
    /\ outages' = outages + Cardinality(failed) + (IF archiveFails THEN 1 ELSE 0)
                          + (IF hostFails \/ diskFails THEN 1 ELSE 0)
    /\ outages' =< MaxOutages
    /\ collectHost(hostFails, diskFails)
    /\ lastResources' = collectDocker
    /\ cache' = [c \in Container |-> IF c \in Listed THEN inspect(c) ELSE cache[c]]
    /\ LET upserted == UpsertResource(collectDocker, failed) IN
       rows' = IF archiveFails THEN upserted
               ELSE ArchiveMissingResources(upserted, collectDocker)
    /\ failures' = [host |-> Count(failures.host, hostFails), docker |-> 0]
    /\ PublishPending
    /\ UNCHANGED <<daemon, now, received, accepted, unrefreshed>>

\* collect, when a list, an inspection or the statistics of a container fail: some
\* containers were inspected before.
CollectWithoutDocker(hostFails, diskFails, inspected) ==
    /\ outages' = outages + 1 + (IF hostFails \/ diskFails THEN 1 ELSE 0)
    /\ outages' =< MaxOutages
    /\ collectHost(hostFails, diskFails)
    /\ cache' = [c \in Container |-> IF c \in inspected THEN inspect(c) ELSE cache[c]]
    /\ failures' = [host |-> Count(failures.host, hostFails), docker |-> failures.docker + 1]
    /\ PublishPending
    /\ UNCHANGED <<daemon, now, lastResources, rows, received, accepted, unrefreshed>>

\* Time passes and the kernel counts.
Tick ==
    /\ Outside
    /\ now' = now + 1
    /\ kernel' \in {kernel, kernel + 1}
    /\ UNCHANGED <<engineVars, docker, stream, cache, failures, lastResources, host,
                   rows, eventLog, unrefreshed, outages>>

\* A browser connects, reads and leaves.
Connect(s) ==
    /\ Outside
    /\ Subscribe(s)
    /\ UNCHANGED <<docker, stream, kernel, now, cache, failures, lastResources, host, rows,
                   eventLog, unrefreshed, outages>>

Read(s) == (Replay(s) \/ Stream(s) \/ Leave(s)) /\ UNCHANGED samplerVars

-----------------------------------------------------------------------------
SamplerInit ==
    /\ EngineInit
    /\ docker \in [Container -> {NoMetadata} \cup [state : {"running", "paused", "dead"}, health : {"healthy"}]]
    /\ stream = [connected |-> TRUE, events |-> <<>>]
    /\ kernel = 1 /\ now = 0
    /\ cache = [c \in Container |-> NoMetadata]
    /\ pending = <<>> /\ published = <<>> /\ received = 0 /\ accepted = {}
    /\ failures = [host |-> 0, docker |-> 0]
    /\ lastResources = [r \in Resource |-> Absent]
    /\ lastSample = [network |-> -1, disk |-> -1] /\ rates = [network |-> -1, disk |-> -1]
    /\ unread = [last |-> FALSE, before |-> FALSE]
    /\ rows = [r \in Resource |-> NoRow]
    /\ unrefreshed = {} /\ steps = 0 /\ outages = 0

SamplerNext ==
    \/ \E c \in Container : Lifecycle(c)
    \/ Disconnect
    \/ \E fails \in BOOLEAN : DockerEvent(fails)
    \/ \E hostFails, diskFails \in BOOLEAN :
          \/ \E failed \in SUBSET Resource, archiveFails \in BOOLEAN :
                Collect(hostFails, diskFails, failed, archiveFails)
          \/ \E inspected \in SUBSET Listed : CollectWithoutDocker(hostFails, diskFails, inspected)
    \/ Tick
    \/ \E s \in Subscriber : Connect(s) \/ Read(s)

SamplerSpec == SamplerInit /\ [][SamplerNext]_allVars

-----------------------------------------------------------------------------
(* Properties. *)

\* The engine, the sampler and the table hold values of their types.
SamplerTypeOK ==
    /\ EngineTypeOK
    /\ \A c \in Container : /\ cache[c].state \in ContainerState \cup {Absent, "die", "stop", "pause"}
                            /\ cache[c].health \in ContainerHealth \cup {"none"}
    /\ Len(pending) =< PendingCap
    /\ \A r \in Resource : /\ lastResources[r] \in DOMAIN Rank \cup {Absent}
                           /\ rows[r].status \in DOMAIN Rank \cup {Absent, "archived"}
    /\ {healthOf(failures.host), healthOf(failures.docker)} \subseteq {"healthy", "degraded", "down"}

\* The cache is all the sampler looks at: as long as the stream is connected, and
\* once the events that wait are handled, it says "running" of the containers that
\* run and of no others, and knows only containers there are, although every
\* inspection may be newer than the events that come after it.  (A refresh whose
\* inspection fails leaves the container as it was.)
CacheFollowsDocker ==
    stream.connected /\ stream.events = <<>> =>
        \A c \in Container \ unrefreshed : cache[c] # NoMetadata =>
            /\ c \in Listed
            /\ cache[c].state = "running" <=> docker[c].state = "running"

\* Events are published once and in order, and none that counts is left out unless
\* PendingCap later ones were kept: what happened last before a pass is published.
PublishedOnce ==
    LET line == published \o pending IN
    /\ \A i, j \in DOMAIN line : i < j => line[i] < line[j]
    /\ \A a \in accepted \ ToSet(line) :
          Cardinality({i \in DOMAIN line : line[i] > a}) >= PendingCap

\* Whatever passes failed in between, the rate of the disk is the growth since the
\* sample before, as it is for the network; only after a sample without the disk
\* counters does it count from zero.
DiskRateTrue == rates.disk # -1 => rates.disk = rates.network \/ unread.before

\* With the events that were sent handled, a pass shows a resource as healthy only
\* if all of its containers run.
HealthyIsRunning ==
    [][(/\ stream.connected /\ stream.events = <<>> /\ unrefreshed = {}
        /\ sequence' # sequence /\ failures'.docker = 0) =>
            \A c \in Listed : lastResources'[ResourceOf[c]] = "healthy"
                                  => docker[c].state = "running"]_allVars

\* A resource that is there is never archived by a pass, whatever outages of Docker
\* and failed statements came before.
ArchivedOnlyWhenGone ==
    [][\A r \in Resource :
          rows[r].status # "archived" /\ rows'[r].status = "archived" =>
              lastResources'[r] = Absent /\ \A c \in Listed : ResourceOf[c] # r]_allVars

\* What the sampler looks at is typed and in step with Docker.
CacheInv == SamplerTypeOK /\ CacheFollowsDocker

\* What a browser is shown of it is the latest snapshot and every event, up to
\* those a snapshot displaced.
ReaderInv == LatestReachesReader /\ MissedOnlyByDisplacement

\* What a pass says of a resource is true of its containers: healthy only if all of
\* them run, archived only if none is there.
ResourcesTruthful == HealthyIsRunning /\ ArchivedOnlyWhenGone

\* What the comment in handleDockerEvent says, "Refresh metadata on lifecycle/health
\* changes.": with all events handled, the cached health of a container that runs
\* is its health.
HealthRefreshed ==
    stream.connected /\ stream.events = <<>> =>
        \A c \in Container \ unrefreshed :
            cache[c].state = "running" => cache[c].health = docker[c].health
=============================================================================
