------------------------------ MODULE Settings ------------------------------
(***************************************************************************)
(* The settings an administrator changes while the process runs            *)
(* (internal/settings/store.go, the resolution in load.go and settings.go, *)
(* internal/onboarding and their handlers): overrides in a table, with a   *)
(* revision that guards against lost updates and an audit log; the         *)
(* configuration they resolve to; and what the components of the process   *)
(* were told of it.                                                        *)
(*                                                                         *)
(* Of the settings the module has the retention preset, the raw tier, the  *)
(* idle timeout of sessions, and the URL of Coolify, which module Coolify  *)
(* stores in the same table.  Durations are small numbers.                 *)
(***************************************************************************)
EXTENDS Integers, FiniteSets

CONSTANTS
    Client,             \* requests that are served at the same time
    Preset,             \* retention presets: [name -> [raw, minute]]
    Base,               \* the deployment's configuration
    Change,             \* changes a client may ask for
    Https, Http,        \* URLs of Coolify servers
    AllowInsecureHTTP,
    MaxTries,           \* attempts of SetRetentionPreset (3 in the code)
    MaxRequests, MaxFaults, MaxRestarts    \* bounds

VARIABLES
    up,          \* Initialize has run: the process serves requests
    overrides,   \* the rows of table settings
    revision,    \* application_metadata's settings_revision
    audit,       \* rows of settings_audit
    onboarding,  \* the onboarding_state row
    current,     \* Service.current
    applied,     \* what sessions and retention were told by the apply callback
    client,      \* [Client -> where its handler is]
    requests, faults, restarts    \* counters of the bounds

stored == <<overrides, revision, audit>>
bounds == <<requests, faults, restarts>>
settingsVars == <<up, stored, onboarding, current, applied, client, bounds>>

Advanced == "advanced"
Unset == [preset |-> "", raw |-> -1, idle |-> -1, url |-> ""]
Key == DOMAIN Unset
Editable == Key \ {"url"}
Given(o, k) == o[k] # Unset[k]
Edits(o) == [o EXCEPT !.url = Unset.url]     \* the editable part

\* A change sets one or more of the editable settings (Patch refuses any other);
\* the bounds are numbers.
ASSUME SettingsAssumption ==
    /\ \A c \in Change : /\ DOMAIN c = Key /\ ~Given(c, "url")
                         /\ \E k \in Editable : Given(c, k)
    /\ "" \notin DOMAIN Preset
    /\ MaxTries \in Nat \ {0}
    /\ {MaxRequests, MaxFaults, MaxRestarts} \subseteq Nat
    /\ AllowInsecureHTTP \in BOOLEAN

NoOnboarding == [row |-> FALSE, preset |-> "", diagnosed |-> FALSE,
                 completed |-> FALSE, dismissed |-> FALSE]
Idle == [at |-> "idle", op |-> "patch", preset |-> "", revision |-> -1,
         seen |-> Unset, tries |-> 0]
Request == requests < MaxRequests /\ requests' = requests + 1
Fault == faults < MaxFaults /\ faults' = faults + 1
Done(c) == client' = [client EXCEPT ![c] = Idle]
GoTo(c, p) == client' = [client EXCEPT ![c].at = p]

-----------------------------------------------------------------------------
(* Resolution. *)

Or(o, k, default) == IF Given(o, k) THEN o[k] ELSE default

\* ResolveOverrides and apply: a preset replaces the tiers, then every override
\* replaces its value.
ResolveOverrides(o) ==
    LET tiers == IF Given(o, "preset") /\ o.preset \in DOMAIN Preset
                 THEN Preset[o.preset] ELSE [raw |-> Base.raw, minute |-> Base.minute]
    IN [preset |-> Or(o, "preset", Base.preset), raw |-> Or(o, "raw", tiers.raw),
        minute |-> tiers.minute, idle |-> Or(o, "idle", Base.idle),
        lifetime |-> Base.lifetime, url |-> o.url]

\* Validate: tiers are compared for the advanced preset only.
Validate(c) ==
    /\ c.preset \in DOMAIN Preset \cup {Advanced}
    /\ c.preset = Advanced => 0 < c.raw /\ c.raw < c.minute
    /\ 0 < c.idle /\ c.idle =< c.lifetime
    /\ c.url = "" \/ c.url \in Https \/ (AllowInsecureHTTP /\ c.url \in Http)

\* The deployment's own configuration is valid (Load refuses any other).
ASSUME BaseAssumption == Validate(ResolveOverrides(Unset))

\* The part of a configuration the apply callback hands on.
Effects(c) == [raw |-> c.raw, minute |-> c.minute, idle |-> c.idle]
NoEffects == [raw |-> 0, minute |-> 0, idle |-> Base.idle]

Merge(o, change) == [k \in Key |-> IF Given(change, k) THEN change[k] ELSE o[k]]

-----------------------------------------------------------------------------
(* Starting. *)

\* Initialize; what is stored and does not resolve keeps the process from
\* starting.
Initialize ==
    LET c == ResolveOverrides(overrides) IN
    /\ ~up
    /\ Validate(c)
    /\ up' = TRUE
    /\ current' = c
    /\ applied' = Effects(c)
    /\ UNCHANGED <<stored, onboarding, client, bounds>>

Restart ==
    /\ restarts < MaxRestarts
    /\ restarts' = restarts + 1
    /\ up' = FALSE
    /\ current' = ResolveOverrides(Unset)
    /\ applied' = NoEffects
    /\ client' = [c \in Client |-> Idle]
    /\ UNCHANGED <<stored, onboarding, requests, faults>>

-----------------------------------------------------------------------------
(* The settings handlers. *)

\* Snapshot, for a browser or for SetRetentionPreset.
Snapshot(c) ==
    /\ up
    /\ \/ client[c].at = "idle" /\ Request
       \/ client[c].at = "snapshot" /\ UNCHANGED requests
    /\ client' = [client EXCEPT ![c] =
            [@ EXCEPT !.at = "ready", !.revision = revision, !.seen = Edits(overrides)]]
    /\ UNCHANGED <<up, stored, onboarding, current, applied, faults, restarts>>

\* Mutant: the change is validated without the overrides it joins.
AcceptsAlone(c, change) ==
    /\ client[c].revision = revision
    /\ Validate(ResolveOverrides(change))

\* Mutant: the revision is not compared.
AcceptsStale(c, change) == Validate(ResolveOverrides(Merge(overrides, change)))

Accepts(c, change) ==
    /\ client[c].revision = revision
    /\ Validate(ResolveOverrides(Merge(overrides, change)))

\* Mutant: the audit row has the value in force, not the override.
RowsOfCurrent(change) ==
    {[revision |-> revision + 1, key |-> k, previous |-> current[k], new |-> change[k]] :
        k \in {e \in Editable : Given(change, e)}}

AuditRows(change) ==
    {[revision |-> revision + 1, key |-> k, previous |-> overrides[k], new |-> change[k]] :
        k \in {e \in Editable : Given(change, e)}}

\* Mutant: the components are not told.
CommitQuietly(change) ==
    /\ overrides' = Merge(overrides, change)
    /\ revision' = revision + 1
    /\ audit' = audit \cup AuditRows(change)
    /\ current' = ResolveOverrides(overrides')
    /\ UNCHANGED applied

\* The transaction of Patch and what follows it under the mutex.
Commit(change) ==
    /\ overrides' = Merge(overrides, change)
    /\ revision' = revision + 1
    /\ audit' = audit \cup AuditRows(change)
    /\ current' = ResolveOverrides(overrides')
    /\ applied' = Effects(current')

\* Patch by a browser: refused, rolled back by an error, or committed.
Patch(c, change) ==
    /\ client[c].at = "ready" /\ client[c].op = "patch"
    /\ \/ Accepts(c, change) /\ Commit(change) /\ UNCHANGED faults
       \/ ~Accepts(c, change) /\ UNCHANGED <<stored, current, applied, faults>>
       \/ Fault /\ UNCHANGED <<stored, current, applied>>
    /\ Done(c)
    /\ UNCHANGED <<up, onboarding, requests, restarts>>

\* Module Coolify stores its URL in the table, past the service and its revision.
StoreUrl(url) ==
    /\ url \in Https \/ (AllowInsecureHTTP /\ url \in Http)
    /\ overrides' = [overrides EXCEPT !.url = url]
    /\ UNCHANGED <<up, revision, audit, onboarding, current, applied, client, requests, restarts>>

-----------------------------------------------------------------------------
(* Onboarding. *)

\* Update begins SetRetentionPreset, which has nothing to do for the preset in
\* force.
Choose(c, preset) ==
    /\ up
    /\ client[c].at = "idle"
    /\ Request
    /\ client' = [client EXCEPT ![c] =
            [@ EXCEPT !.at = IF current.preset = preset THEN "insert" ELSE "snapshot",
                      !.op = "choose", !.preset = preset]]
    /\ UNCHANGED <<up, stored, onboarding, current, applied, faults, restarts>>

\* A conflict is tried again, MaxTries times in all; any other error ends it, one
\* of the snapshot after the commit included.
SetRetentionPreset(c) ==
    LET change == [Unset EXCEPT !.preset = client[c].preset] IN
    /\ client[c].at = "ready" /\ client[c].op = "choose"
    /\ \/ /\ Accepts(c, change)
          /\ Commit(change)
          /\ \/ GoTo(c, "insert") /\ UNCHANGED faults
             \/ Fault /\ Done(c)
       \/ /\ client[c].revision # revision
          /\ IF client[c].tries + 1 < MaxTries
             THEN client' = [client EXCEPT ![c].at = "snapshot", ![c].tries = @ + 1]
             ELSE Done(c)
          /\ UNCHANGED <<stored, current, applied, faults>>
       \/ /\ client[c].revision = revision /\ ~Accepts(c, change)
          /\ Done(c)
          /\ UNCHANGED <<stored, current, applied, faults>>
    /\ UNCHANGED <<up, onboarding, requests, restarts>>

\* The choice is stored, in a statement of its own.
InsertChoice(c) ==
    /\ client[c].at = "insert"
    /\ onboarding' = [onboarding EXCEPT !.row = TRUE, !.preset = client[c].preset]
    /\ Done(c)
    /\ UNCHANGED <<up, stored, current, applied, bounds>>

\* Diagnose
Diagnose ==
    /\ up
    /\ Request
    /\ onboarding' = [onboarding EXCEPT !.row = TRUE, !.diagnosed = TRUE]
    /\ UNCHANGED <<up, stored, current, applied, client, faults, restarts>>

\* Complete reads the state (the preset in force is never empty),
Complete(c) ==
    /\ up
    /\ client[c].at = "idle"
    /\ onboarding.diagnosed
    /\ Request
    /\ GoTo(c, "complete")
    /\ UNCHANGED <<up, stored, onboarding, current, applied, faults, restarts>>

\* and updates the row.
MarkCompleted(c) ==
    /\ client[c].at = "complete"
    /\ onboarding' = [onboarding EXCEPT !.completed = onboarding.row]
    /\ Done(c)
    /\ UNCHANGED <<up, stored, current, applied, bounds>>

\* Mutant: the checklist can be dismissed at any time.
DismissAlways ==
    /\ up
    /\ Request
    /\ onboarding' = [onboarding EXCEPT !.dismissed = onboarding.row]
    /\ UNCHANGED <<up, stored, current, applied, client, faults, restarts>>

DismissChecklist ==
    /\ up
    /\ Request
    /\ onboarding' = [onboarding EXCEPT !.dismissed = @ \/ onboarding.completed]
    /\ UNCHANGED <<up, stored, current, applied, client, faults, restarts>>

-----------------------------------------------------------------------------
SettingsInit ==
    /\ up = FALSE
    /\ overrides = Unset /\ revision = 0 /\ audit = {}
    /\ onboarding = NoOnboarding
    /\ current = ResolveOverrides(Unset) /\ applied = NoEffects
    /\ client = [c \in Client |-> Idle]
    /\ requests = 0 /\ faults = 0 /\ restarts = 0

\* The requests of the settings page,
Serve == \E c \in Client : Snapshot(c) \/ \E change \in Change : Patch(c, change)

\* and those of the onboarding pages.
Onboard ==
    \/ \E c \in Client :
          \/ \E preset \in DOMAIN Preset : Choose(c, preset)
          \/ SetRetentionPreset(c) \/ InsertChoice(c) \/ Complete(c) \/ MarkCompleted(c)
    \/ Diagnose \/ DismissChecklist

-----------------------------------------------------------------------------
(* Properties. *)

\* The tables, the service and its requests hold values of their types.
SettingsTypeOK ==
    /\ up \in BOOLEAN
    /\ DOMAIN overrides = Key
    /\ revision \in 0..MaxRequests
    /\ \A row \in audit : row.revision \in 1..revision /\ row.key \in Editable
    /\ onboarding \in [row : BOOLEAN, preset : {""} \cup DOMAIN Preset, diagnosed : BOOLEAN,
                       completed : BOOLEAN, dismissed : BOOLEAN]
    /\ \A c \in Client :
          /\ client[c].at \in {"idle", "snapshot", "ready", "insert", "complete"}
          /\ client[c].tries \in 0..(MaxTries - 1)

\* Whatever was patched, in whatever order, and whatever URL Coolify has stored in
\* the same table, the next process starts: what is stored resolves to a valid
\* configuration.
StoredLoads == Validate(ResolveOverrides(overrides))

\* While the process serves, the configuration in force is the stored one, and the
\* sessions and the retention work by it.  (The URL is Coolify's.)
AppliedInForce ==
    up => /\ [current EXCEPT !.url = ""] = ResolveOverrides(Edits(overrides))
          /\ applied = Effects(current)

History(k) == {row \in audit : row.key = k}

\* What the newest of some rows of a key says, if there is one.
Latest(S, k) ==
    IF S = {} THEN Unset[k] ELSE (CHOOSE r \in S : \A s \in S : s.revision =< r.revision).new

\* The audit log tells the whole story of a setting: the rows of a key follow each
\* other from "not set" to the stored value, and no revision is missing.
AuditTellsAll ==
    /\ {row.revision : row \in audit} = 1..revision
    /\ \A k \in Editable :
          /\ \A row \in History(k) :
                row.previous = Latest({r \in History(k) : r.revision < row.revision}, k)
          /\ overrides[k] = Latest(History(k), k)

\* Onboarding is completed only with diagnostics, and its checklist dismissed only
\* after that, whatever other requests do between the steps of one.
OnboardingInOrder ==
    /\ onboarding.dismissed => onboarding.completed
    /\ onboarding.completed => onboarding.diagnosed

Values(k) == {c[k] : c \in Change} \cup {Unset[k]}

Register == INSTANCE OptimisticRegister WITH
    Value <- [preset : Values("preset") \cup DOMAIN Preset, raw : Values("raw"),
              idle : Values("idle"), url : {""}],
    Initial <- Unset,
    version <- revision,
    value <- Edits(overrides),
    known <- [c \in Client |->
                 IF client[c].at = "ready"
                 THEN [version |-> client[c].revision, value |-> client[c].seen]
                 ELSE [version |-> -1, value |-> Unset]]

\* The service is the register: a patch, from a browser or from onboarding, takes
\* effect only on the settings its sender has seen.
IsRegister == Register!Spec
=============================================================================
