---------------------------- MODULE CoolifyProofs ----------------------------
(***************************************************************************)
(* Machine-checked proofs about modules Settings and Coolify: the settings *)
(* are an optimistic register whose audit log is complete, what is stored  *)
(* starts the next process, and the integration runs what is stored, for   *)
(* every set of clients, presets, changes, servers, tokens and deployments *)
(* and any number of requests, storage errors and restarts.                *)
(***************************************************************************)
EXTENDS Coolify, FiniteSetTheorems, TLAPS

-----------------------------------------------------------------------------
(* The settings and their resolution. *)

PresetValue == Values("preset") \cup DOMAIN Preset

\* What the register holds, and what the table holds.
Edited == [preset : PresetValue, raw : Values("raw"), idle : Values("idle"), url : {""}]
Stored == [preset : PresetValue, raw : Values("raw"), idle : Values("idle"), url : Url \cup {""}]

\* What a request may ask for: a change of a browser, or a preset of onboarding.
Asked == Change \cup {[Unset EXCEPT !.preset = p] : p \in DOMAIN Preset}

\* The settings by name, and a change that asks for nothing.
LEMMA Keys ==
    /\ Key = {"preset", "raw", "idle", "url"} /\ Editable = {"preset", "raw", "idle"}
    /\ Unset.preset = "" /\ Unset.raw = -1 /\ Unset.idle = -1 /\ Unset.url = ""
    /\ Unset = [k \in Key |-> Unset[k]]
  BY DEF Key, Editable, Unset

\* A change that asks for nothing is a row of both.
LEMMA UnsetStored == Unset \in Stored /\ Unset \in Edited /\ Edits(Unset) = Unset
<1>1. /\ Unset.preset \in Values("preset") /\ Unset.raw \in Values("raw")
      /\ Unset.idle \in Values("idle")
  BY DEF Values
<1>2. Unset.url = ""
  BY Keys
<1>3. Unset \in [preset : PresetValue, raw : Values("raw"), idle : Values("idle"), url : {""}]
  BY <1>1, <1>2 DEF PresetValue, Unset
<1> QED BY <1>2, <1>3 DEF Stored, Edited, Edits, Unset

\* The editable part of the table.
LEMMA EditsTyped ==
    ASSUME NEW o \in Stored
    PROVE  /\ Edits(o) \in Edited
           /\ \A k \in Editable : Edits(o)[k] = o[k]
           /\ o = [k \in Key |-> o[k]]
<1>1. Unset.url = "" /\ Editable = {"preset", "raw", "idle"}
  BY Keys
<1>2. Edits(o) \in Edited
  BY <1>1 DEF Edits, Edited, Stored
<1>3. \A k \in Editable : Edits(o)[k] = o[k]
  BY <1>1 DEF Edits, Stored
<1>4. o = [k \in Key |-> o[k]]
  BY Keys DEF Stored
<1> QED BY <1>2, <1>3, <1>4

\* A request gives at least one editable setting, and no URL.
LEMMA AskedGives ==
    ASSUME NEW change \in Asked
    PROVE  /\ ~Given(change, "url")
           /\ \E k \in Editable : Given(change, k)
           /\ Given(change, "preset") => change["preset"] \in PresetValue
           /\ Given(change, "raw") => change["raw"] \in Values("raw")
           /\ Given(change, "idle") => change["idle"] \in Values("idle")
<1>1. CASE change \in Change
  <2>1. ~Given(change, "url") /\ \E k \in Editable : Given(change, k)
    BY <1>1, SettingsAssumption
  <2> QED BY <1>1, <2>1 DEF PresetValue, Values
<1>2. CASE change \in {[Unset EXCEPT !.preset = p] : p \in DOMAIN Preset}
  <2>1. PICK p \in DOMAIN Preset : change = [Unset EXCEPT !.preset = p]
    BY <1>2
  <2>2. /\ change["preset"] = p /\ change["raw"] = Unset["raw"]
        /\ change["idle"] = Unset["idle"] /\ change["url"] = Unset["url"]
    BY <2>1 DEF Unset
  <2>3. p # Unset["preset"] /\ "preset" \in Editable
    BY Keys, SettingsAssumption
  <2> QED BY <2>2, <2>3 DEF Given, PresetValue
<1> QED BY <1>1, <1>2 DEF Asked

\* Merging a change keeps the URL and replaces the settings it gives.
LEMMA MergeTyped ==
    ASSUME NEW o \in Stored, NEW change \in Asked
    PROVE  /\ Merge(o, change) \in Stored
           /\ \A k \in Editable : Merge(o, change)[k] = IF Given(change, k) THEN change[k] ELSE o[k]
           /\ Merge(o, change).url = o.url
<1> DEFINE m == Merge(o, change)
<1>1. /\ ~Given(change, "url")
      /\ Given(change, "preset") => change["preset"] \in PresetValue
      /\ Given(change, "raw") => change["raw"] \in Values("raw")
      /\ Given(change, "idle") => change["idle"] \in Values("idle")
  BY AskedGives
<1>2. /\ m = [k \in Key |-> m[k]]
      /\ \A k \in Key : m[k] = IF Given(change, k) THEN change[k] ELSE o[k]
  BY DEF Merge
<1>3. /\ Key = {"preset", "raw", "idle", "url"} /\ Editable = {"preset", "raw", "idle"}
  BY Keys
<1>4. /\ o["preset"] \in PresetValue /\ o["raw"] \in Values("raw") /\ o["idle"] \in Values("idle")
      /\ o["url"] \in Url \cup {""}
  BY DEF Stored
<1> HIDE DEF m
<1>5. /\ m["preset"] \in PresetValue /\ m["raw"] \in Values("raw") /\ m["idle"] \in Values("idle")
      /\ m["url"] = o["url"]
  BY <1>1, <1>2, <1>3, <1>4
<1>6. m \in Stored
  BY <1>2, <1>3, <1>4, <1>5 DEF Stored
<1> QED BY <1>2, <1>3, <1>5, <1>6 DEF m

\* A configuration without its URL.
LEMMA WithoutUrl ==
    ASSUME NEW x, NEW u, x = [preset |-> x.preset, raw |-> x.raw, minute |-> x.minute, idle |-> x.idle,
                              lifetime |-> x.lifetime, url |-> u]
    PROVE  [x EXCEPT !.url = ""] = [preset |-> x.preset, raw |-> x.raw, minute |-> x.minute,
                                    idle |-> x.idle, lifetime |-> x.lifetime, url |-> ""]
<1> DEFINE y == [preset |-> x.preset, raw |-> x.raw, minute |-> x.minute, idle |-> x.idle,
                 lifetime |-> x.lifetime, url |-> ""]
           z == [x EXCEPT !.url = ""]
           D == {"preset", "raw", "minute", "idle", "lifetime", "url"}
<1>1. y = [k \in D |-> y[k]] /\ x = [k \in D |-> x[k]] /\ DOMAIN x = D
  OBVIOUS
<1>2. /\ y["preset"] = x["preset"] /\ y["raw"] = x["raw"] /\ y["minute"] = x["minute"]
      /\ y["idle"] = x["idle"] /\ y["lifetime"] = x["lifetime"] /\ y["url"] = ""
  OBVIOUS
<1> HIDE DEF y
<1>3. z = [k \in D |-> z[k]]
  BY <1>1
<1>4. /\ z["preset"] = x["preset"] /\ z["raw"] = x["raw"] /\ z["minute"] = x["minute"]
      /\ z["idle"] = x["idle"] /\ z["lifetime"] = x["lifetime"] /\ z["url"] = ""
  BY <1>1
<1> HIDE DEF z
<1>5. \A k \in D : z[k] = y[k]
  BY <1>2, <1>4
<1> HIDE DEF D
<1>6. z = y
  BY <1>1, <1>3, <1>5
<1> QED BY <1>6 DEF z, y

\* What a configuration takes from the overrides.
LEMMA Resolved ==
    ASSUME NEW o, NEW e, \A k \in Editable : e[k] = o[k]
    PROVE  LET c == ResolveOverrides(o)
           IN  ResolveOverrides(e) = [preset |-> c.preset, raw |-> c.raw, minute |-> c.minute,
                                      idle |-> c.idle, lifetime |-> c.lifetime, url |-> e.url]
<1>1. e["preset"] = o["preset"] /\ e["raw"] = o["raw"] /\ e["idle"] = o["idle"]
  BY Keys
<1>2. /\ \A d : Or(e, "preset", d) = Or(o, "preset", d)
      /\ \A d : Or(e, "raw", d) = Or(o, "raw", d)
      /\ \A d : Or(e, "idle", d) = Or(o, "idle", d)
  BY <1>1 DEF Or, Given
<1> DEFINE tiers(x) == IF Given(x, "preset") /\ x.preset \in DOMAIN Preset
                       THEN Preset[x.preset] ELSE [raw |-> Base.raw, minute |-> Base.minute]
           c == ResolveOverrides(o)
<1>3. tiers(e) = tiers(o)
  BY <1>1 DEF Given
<1>4. /\ c.preset = Or(o, "preset", Base.preset) /\ c.raw = Or(o, "raw", tiers(o).raw)
      /\ c.minute = tiers(o).minute /\ c.idle = Or(o, "idle", Base.idle)
      /\ c.lifetime = Base.lifetime
  BY DEF ResolveOverrides
<1>5. ResolveOverrides(e) =
        [preset |-> Or(e, "preset", Base.preset), raw |-> Or(e, "raw", tiers(e).raw),
         minute |-> tiers(e).minute, idle |-> Or(e, "idle", Base.idle),
         lifetime |-> Base.lifetime, url |-> e.url]
  BY DEF ResolveOverrides
<1> HIDE DEF c, tiers
<1>6. ResolveOverrides(e) = [preset |-> c.preset, raw |-> c.raw, minute |-> c.minute,
                             idle |-> c.idle, lifetime |-> c.lifetime, url |-> e.url]
  BY <1>2, <1>3, <1>4, <1>5
<1> QED BY <1>6 DEF c

\* The URL has no part in what the other settings resolve to.
LEMMA ResolveUrl ==
    ASSUME NEW o \in Stored
    PROVE  [ResolveOverrides(o) EXCEPT !.url = ""] = ResolveOverrides(Edits(o))
<1> DEFINE e == Edits(o)
           c == ResolveOverrides(o)
<1>1. e.url = "" /\ \A k \in Editable : e[k] = o[k]
  BY EditsTyped DEF Edited
<1> HIDE DEF e
<1>2. ResolveOverrides(e) = [preset |-> c.preset, raw |-> c.raw, minute |-> c.minute,
                             idle |-> c.idle, lifetime |-> c.lifetime, url |-> e.url]
  BY <1>1, Resolved
<1>3. c = [preset |-> c.preset, raw |-> c.raw, minute |-> c.minute,
           idle |-> c.idle, lifetime |-> c.lifetime, url |-> o.url]
  BY Resolved
<1> HIDE DEF c
<1>4. [c EXCEPT !.url = ""] = [preset |-> c.preset, raw |-> c.raw, minute |-> c.minute,
                               idle |-> c.idle, lifetime |-> c.lifetime, url |-> ""]
  BY <1>3, WithoutUrl
<1> QED BY <1>1, <1>2, <1>4 DEF c, e

\* A stored address that Configure accepts keeps the configuration valid.
LEMMA UrlStaysValid ==
    ASSUME NEW o \in Stored, NEW url \in Url, Validate(ResolveOverrides(o)),
           url \in Https \/ (AllowInsecureHTTP /\ url \in Http)
    PROVE  /\ [o EXCEPT !.url = url] \in Stored
           /\ Edits([o EXCEPT !.url = url]) = Edits(o)
           /\ Validate(ResolveOverrides([o EXCEPT !.url = url]))
<1> DEFINE q == [o EXCEPT !.url = url]
<1>1. q \in Stored /\ q.url = url
  BY DEF Stored
<1>2. Edits(q) = Edits(o)
  BY DEF Edits, Stored
<1>3. \A k \in Editable : q[k] = o[k]
  BY Keys DEF Stored
<1> DEFINE c == ResolveOverrides(o)
<1>4. ResolveOverrides(q) = [preset |-> c.preset, raw |-> c.raw, minute |-> c.minute,
                             idle |-> c.idle, lifetime |-> c.lifetime, url |-> url]
  BY <1>1, <1>3, Resolved
<1> HIDE DEF q, c
<1>5. Validate(ResolveOverrides(q))
  <2> DEFINE d == ResolveOverrides(q)
  <2>1. Validate(c)
    BY DEF c
  <2>2. /\ d.preset = c.preset /\ d.raw = c.raw /\ d.minute = c.minute /\ d.idle = c.idle
        /\ d.lifetime = c.lifetime /\ d.url = url
    BY <1>4
  <2> HIDE DEF d
  <2>3. d.url = "" \/ d.url \in Https \/ (AllowInsecureHTTP /\ d.url \in Http)
    BY <2>2
  <2>4. /\ d.preset \in DOMAIN Preset \cup {Advanced}
        /\ d.preset = Advanced => 0 < d.raw /\ d.raw < d.minute
        /\ 0 < d.idle /\ d.idle =< d.lifetime
    BY <2>1, <2>2 DEF Validate
  <2> QED BY <2>3, <2>4 DEF Validate, d
<1> QED BY <1>1, <1>2, <1>5 DEF q

-----------------------------------------------------------------------------
(* The service: its state is changed by its own handlers, by a start and a  *)
(* restart, and by the URL that Coolify stores.                             *)

service == <<up, stored, onboarding, current, applied, client>>

SettingsNext ==
    \/ Serve \/ Onboard \/ Initialize \/ Restart
    \/ \E url \in Url : StoreUrl(url)
    \/ Request /\ UNCHANGED service
    \/ UNCHANGED <<service, requests>>

\* Every step of the whole is a step of the service.
LEMMA SettingsSide ==
    ASSUME [Next]_vars
    PROVE  SettingsNext
<1> USE DEF settingsVars, stored, bounds, service
<1>1. CASE (Serve \/ Onboard) /\ UNCHANGED coolifyVars
  BY <1>1 DEF SettingsNext
<1>2. CASE Start
  BY <1>2 DEF Start, SettingsNext
<1>3. CASE Crash
  BY <1>3 DEF Crash, SettingsNext
<1>4. ASSUME NEW a \in Admin, Put(a)
      PROVE  SettingsNext
  <2>1. ASSUME NEW url \in Url, NEW token \in Token \cup {""}, Configure(a, url, token)
        PROVE  SettingsNext
    BY <2>1 DEF Configure, SettingsNext
  <2>2. CASE CommitUrl(a)
    <3>1. ASSUME StoreUrl(configure[a].url) PROVE SettingsNext
      <4>1. configure[a].url \in Url
        BY <3>1 DEF StoreUrl, Url
      <4> QED BY <3>1, <4>1 DEF SettingsNext
    <3> QED BY <2>2, <3>1 DEF CommitUrl, SettingsNext
  <2>3. CASE PutToken(a)
    BY <2>3 DEF PutToken, SettingsNext
  <2>4. CASE Activate(a)
    BY <2>4 DEF Activate, SettingsNext
  <2> QED BY <1>4, <2>1, <2>2, <2>3, <2>4 DEF Put
<1>5. CASE syncMetadata
  BY <1>5 DEF syncMetadata, SettingsNext
<1>6. CASE Deployments
  BY <1>6 DEF Deployments, SettingsNext
<1>7. ASSUME NEW d \in Deployment, Deploy(d)
      PROVE  SettingsNext
  BY <1>7 DEF Deploy, SettingsNext
<1>8. ASSUME NEW d \in Deployment, NEW status \in Status, Record(d, status)
      PROVE  SettingsNext
  BY <1>8 DEF Record, SettingsNext
<1>9. CASE UNCHANGED vars
  BY <1>9 DEF vars, SettingsNext
<1> QED BY <1>1, <1>2, <1>3, <1>4, <1>5, <1>6, <1>7, <1>8, <1>9 DEF Next

\* What a handler keeps of its request.
Session == [at : {"idle", "snapshot", "ready", "insert", "complete"}, op : {"patch", "choose"},
            preset : {""} \cup DOMAIN Preset, revision : Int, seen : Edited,
            tries : 0..(MaxTries - 1)]

\* The settings table, the snapshot and the clients hold values of their types.
ServiceTyped ==
    /\ overrides \in Stored
    /\ revision \in Nat
    /\ requests \in Nat /\ requests =< MaxRequests
    /\ client \in [Client -> Session]
    /\ \A c \in Client : client[c].op = "choose" => client[c].preset \in DOMAIN Preset

\* The bounds on tries and requests are numbers.
LEMMA Limits == MaxTries \in Nat \ {0} /\ MaxRequests \in Nat
<1>1. MaxTries \in Nat \ {0} /\ {MaxRequests, MaxFaults, MaxRestarts} \subseteq Nat
  BY SettingsAssumption
<1> QED BY <1>1

\* An idle client is a client.
LEMMA IdleTyped == Idle \in Session /\ Idle.at = "idle" /\ Idle.op = "patch"
<1>1. Unset \in Edited /\ 0 \in 0..(MaxTries - 1)
  BY UnsetStored, Limits
<1> QED BY <1>1 DEF Idle, Session

\* A request that is counted stays within the bound.
LEMMA RequestCounted ==
    ASSUME requests \in Nat, Request
    PROVE  requests' = requests + 1 /\ requests' \in Nat /\ requests' =< MaxRequests
  BY Limits DEF Request

\* The change onboarding asks for.
LEMMA ChosenAsked ==
    ASSUME ServiceTyped, NEW c \in Client, client[c].op = "choose"
    PROVE  [Unset EXCEPT !.preset = client[c].preset] \in Asked
  BY DEF ServiceTyped, Asked

\* What a commit leaves.
LEMMA Committed ==
    ASSUME ServiceTyped, NEW change \in Asked, Commit(change)
    PROVE  /\ overrides' \in Stored /\ revision' = revision + 1
           /\ overrides' = Merge(overrides, change)
  BY MergeTyped DEF ServiceTyped, Commit

\* The end of a handler.
LEMMA DoneTyped ==
    ASSUME ServiceTyped, NEW c \in Client, Done(c)
    PROVE  /\ client' \in [Client -> Session]
           /\ client'[c].at = "idle"
           /\ \A d \in Client : d # c => client'[d] = client[d]
           /\ \A d \in Client : client'[d].op = "choose" => client'[d].preset \in DOMAIN Preset
  BY IdleTyped DEF ServiceTyped, Done

\* A handler that goes on.
LEMMA GoToTyped ==
    ASSUME ServiceTyped, NEW c \in Client, NEW p \in {"insert", "complete"}, GoTo(c, p)
    PROVE  /\ client' \in [Client -> Session]
           /\ client'[c].at = p
           /\ \A d \in Client : d # c => client'[d] = client[d]
           /\ \A d \in Client : client'[d].op = "choose" => client'[d].preset \in DOMAIN Preset
<1>1. client' = [client EXCEPT ![c] = [client[c] EXCEPT !.at = p]]
  BY DEF GoTo
<1>2. /\ [client[c] EXCEPT !.at = p] \in Session /\ [client[c] EXCEPT !.at = p].at = p
      /\ [client[c] EXCEPT !.at = p].op = client[c].op
      /\ [client[c] EXCEPT !.at = p].preset = client[c].preset
  BY DEF ServiceTyped, Session
<1> HIDE DEF Session
<1> QED BY <1>1, <1>2 DEF ServiceTyped

\* The snapshot a handler takes.
LEMMA SnapshotTyped ==
    ASSUME ServiceTyped, NEW c \in Client, Snapshot(c)
    PROVE  /\ client' \in [Client -> Session]
           /\ client'[c] = [client[c] EXCEPT !.at = "ready", !.revision = revision,
                                             !.seen = Edits(overrides)]
           /\ client'[c].at = "ready" /\ client'[c].revision = revision
           /\ client'[c].seen = Edits(overrides)
           /\ \A d \in Client : d # c => client'[d] = client[d]
           /\ \A d \in Client : client'[d].op = "choose" => client'[d].preset \in DOMAIN Preset
<1> DEFINE s == [client[c] EXCEPT !.at = "ready", !.revision = revision, !.seen = Edits(overrides)]
<1>1. client' = [client EXCEPT ![c] = s]
  BY DEF Snapshot
<1>2. Edits(overrides) \in Edited /\ revision \in Int /\ client[c] \in Session
  BY EditsTyped DEF ServiceTyped
<1>3. /\ s \in Session /\ s.at = "ready" /\ s.revision = revision /\ s.seen = Edits(overrides)
      /\ s.op = client[c].op /\ s.preset = client[c].preset
  BY <1>2 DEF Session
<1> HIDE DEF s
<1>4. client'[c] = s /\ client' \in [Client -> Session]
  BY <1>1, <1>3 DEF ServiceTyped
<1>5. \A d \in Client : d # c => client'[d] = client[d]
  BY <1>1 DEF ServiceTyped
<1> QED BY <1>3, <1>4, <1>5 DEF ServiceTyped, s

\* The handler that Choose starts.
LEMMA ChooseTyped ==
    ASSUME ServiceTyped, NEW c \in Client, NEW preset \in DOMAIN Preset, Choose(c, preset)
    PROVE  /\ client' \in [Client -> Session]
           /\ client'[c].at \in {"insert", "snapshot"}
           /\ \A d \in Client : d # c => client'[d] = client[d]
           /\ \A d \in Client : client'[d].op = "choose" => client'[d].preset \in DOMAIN Preset
<1> DEFINE at == IF current.preset = preset THEN "insert" ELSE "snapshot"
           s == [client[c] EXCEPT !.at = at, !.op = "choose", !.preset = preset]
<1>1. client' = [client EXCEPT ![c] = s]
  BY DEF Choose
<1>2. client[c] \in Session /\ at \in {"insert", "snapshot"}
  BY DEF ServiceTyped
<1> HIDE DEF at
<1>3. s \in Session /\ s.at = at /\ s.op = "choose" /\ s.preset = preset
  BY <1>2 DEF Session
<1> HIDE DEF s
<1> QED BY <1>1, <1>2, <1>3 DEF ServiceTyped

\* The handler that tries again.
LEMMA RetryTyped ==
    ASSUME ServiceTyped, NEW c \in Client, client[c].tries + 1 < MaxTries,
           client' = [client EXCEPT ![c].at = "snapshot", ![c].tries = @ + 1]
    PROVE  /\ client' \in [Client -> Session]
           /\ client'[c].at = "snapshot"
           /\ \A d \in Client : d # c => client'[d] = client[d]
           /\ \A d \in Client : client'[d].op = "choose" => client'[d].preset \in DOMAIN Preset
<1> DEFINE s == [client[c] EXCEPT !.at = "snapshot", !.tries = @ + 1]
<1>1. client' = [client EXCEPT ![c] = s]
  OBVIOUS
<1>2. client[c] \in Session
  BY DEF ServiceTyped
<1>3. client[c].tries + 1 \in 0..(MaxTries - 1)
  <2>1. client[c].tries \in 0..(MaxTries - 1)
    BY <1>2 DEF Session
  <2> QED BY <2>1, Limits
<1>4. /\ s \in Session /\ s.at = "snapshot" /\ s.op = client[c].op
      /\ s.preset = client[c].preset
  BY <1>2, <1>3 DEF Session
<1> HIDE DEF s
<1> QED BY <1>1, <1>2, <1>4 DEF ServiceTyped

\* The service keeps its types.
LEMMA ServiceTypedStep ==
    ASSUME ServiceTyped, SettingsNext
    PROVE  ServiceTyped'
<1> USE DEF stored, bounds, service
<1>1. requests \in Nat /\ revision \in Nat /\ overrides \in Stored /\ requests =< MaxRequests
  BY DEF ServiceTyped
<1>2. ASSUME UNCHANGED <<overrides, revision, client>>,
             UNCHANGED requests \/ Request
      PROVE  ServiceTyped'
  BY <1>1, <1>2, RequestCounted DEF ServiceTyped
<1>3. ASSUME UNCHANGED <<overrides, revision>>, UNCHANGED requests \/ Request,
             client' \in [Client -> Session],
             \A d \in Client : client'[d].op = "choose" => client'[d].preset \in DOMAIN Preset
      PROVE  ServiceTyped'
  BY <1>1, <1>3, RequestCounted DEF ServiceTyped
<1>4. ASSUME NEW change \in Asked, Commit(change), UNCHANGED requests,
             client' \in [Client -> Session],
             \A d \in Client : client'[d].op = "choose" => client'[d].preset \in DOMAIN Preset
      PROVE  ServiceTyped'
  <2>1. overrides' \in Stored /\ revision' \in Nat
    BY <1>1, <1>4, Committed
  <2> QED BY <1>1, <1>4, <2>1 DEF ServiceTyped
<1>5. ASSUME NEW c \in Client, Snapshot(c)
      PROVE  ServiceTyped'
  <2>1. UNCHANGED <<overrides, revision>> /\ (UNCHANGED requests \/ Request)
    BY <1>5 DEF Snapshot
  <2>2. /\ client' \in [Client -> Session]
        /\ \A d \in Client : client'[d].op = "choose" => client'[d].preset \in DOMAIN Preset
    BY <1>5, SnapshotTyped
  <2> QED BY <1>3, <2>1, <2>2
<1>6. ASSUME NEW c \in Client, NEW change \in Change, Patch(c, change)
      PROVE  ServiceTyped'
  <2>1. Done(c) /\ UNCHANGED requests /\ (Commit(change) \/ UNCHANGED <<overrides, revision>>)
    BY <1>6 DEF Patch
  <2>2. /\ client' \in [Client -> Session]
        /\ \A d \in Client : client'[d].op = "choose" => client'[d].preset \in DOMAIN Preset
    BY <2>1, DoneTyped
  <2>3. change \in Asked
    BY DEF Asked
  <2> QED BY <1>3, <1>4, <2>1, <2>2, <2>3
<1>7. ASSUME NEW c \in Client, NEW preset \in DOMAIN Preset, Choose(c, preset)
      PROVE  ServiceTyped'
  <2>1. UNCHANGED <<overrides, revision>> /\ Request
    BY <1>7 DEF Choose
  <2>2. /\ client' \in [Client -> Session]
        /\ \A d \in Client : client'[d].op = "choose" => client'[d].preset \in DOMAIN Preset
    BY <1>7, ChooseTyped
  <2> QED BY <1>3, <2>1, <2>2
<1>8. ASSUME NEW c \in Client, SetRetentionPreset(c)
      PROVE  ServiceTyped'
  <2> DEFINE change == [Unset EXCEPT !.preset = client[c].preset]
  <2>1. /\ client[c].op = "choose" /\ UNCHANGED requests
        /\ Commit(change) \/ UNCHANGED <<overrides, revision>>
    BY <1>8 DEF SetRetentionPreset
  <2>2. \/ Done(c) \/ GoTo(c, "insert")
        \/ /\ client[c].tries + 1 < MaxTries
           /\ client' = [client EXCEPT ![c].at = "snapshot", ![c].tries = @ + 1]
    BY <1>8 DEF SetRetentionPreset
  <2>3. /\ client' \in [Client -> Session]
        /\ \A d \in Client : client'[d].op = "choose" => client'[d].preset \in DOMAIN Preset
    BY <2>2, DoneTyped, GoToTyped, RetryTyped
  <2>4. change \in Asked
    BY <2>1, ChosenAsked
  <2> HIDE DEF change
  <2> QED BY <1>3, <1>4, <2>1, <2>3, <2>4
<1>9. ASSUME NEW c \in Client, InsertChoice(c) \/ MarkCompleted(c)
      PROVE  ServiceTyped'
  <2>1. UNCHANGED <<overrides, revision, requests>> /\ Done(c)
    BY <1>9 DEF InsertChoice, MarkCompleted
  <2> QED BY <1>3, <2>1, DoneTyped
<1>10. ASSUME NEW c \in Client, Complete(c)
       PROVE  ServiceTyped'
  <2>1. UNCHANGED <<overrides, revision>> /\ Request /\ GoTo(c, "complete")
    BY <1>10 DEF Complete
  <2> QED BY <1>3, <2>1, GoToTyped
<1>11. CASE Diagnose \/ DismissChecklist
  BY <1>2, <1>11 DEF Diagnose, DismissChecklist
<1>12. CASE Initialize
  BY <1>2, <1>12 DEF Initialize
<1>13. CASE Restart
  <2>1. UNCHANGED <<overrides, revision, requests>> /\ client' = [c \in Client |-> Idle]
    BY <1>13 DEF Restart
  <2> QED BY <1>3, <2>1, IdleTyped
<1>14. ASSUME NEW url \in Url, StoreUrl(url)
       PROVE  ServiceTyped'
  <2>1. /\ UNCHANGED <<revision, requests, client>> /\ overrides' = [overrides EXCEPT !.url = url]
    BY <1>14 DEF StoreUrl
  <2>2. overrides' \in Stored
    BY <1>1, <2>1 DEF Stored
  <2> QED BY <1>1, <2>1, <2>2 DEF ServiceTyped
<1>15. CASE (Request /\ UNCHANGED service) \/ UNCHANGED <<service, requests>>
  BY <1>2, <1>15
<1>16. Serve => ServiceTyped'
  BY <1>5, <1>6 DEF Serve
<1>17. Onboard => ServiceTyped'
  BY <1>7, <1>8, <1>9, <1>10, <1>11 DEF Onboard
<1> QED BY <1>12, <1>13, <1>14, <1>15, <1>16, <1>17 DEF SettingsNext

\* A handler commits a change that was accepted, or stores nothing.
LEMMA HandlerKinds ==
    ASSUME ServiceTyped, Serve \/ Onboard
    PROVE  /\ UNCHANGED up
           /\ \/ \E c \in Client, change \in Asked : Accepts(c, change) /\ Commit(change)
              \/ UNCHANGED <<stored, current, applied>>
<1> USE DEF stored, bounds, service
<1> DEFINE Kinds == /\ UNCHANGED up
                    /\ \/ \E c \in Client, change \in Asked : Accepts(c, change) /\ Commit(change)
                       \/ UNCHANGED <<stored, current, applied>>
<1>1. ASSUME NEW c \in Client, NEW change \in Change, Patch(c, change) PROVE Kinds
  <2>1. change \in Asked
    BY DEF Asked
  <2> QED BY <1>1, <2>1 DEF Patch
<1>2. ASSUME NEW c \in Client, SetRetentionPreset(c) PROVE Kinds
  <2> DEFINE change == [Unset EXCEPT !.preset = client[c].preset]
  <2>1. change \in Asked
    BY <1>2, ChosenAsked DEF SetRetentionPreset
  <2>2. /\ UNCHANGED up
        /\ (Accepts(c, change) /\ Commit(change)) \/ UNCHANGED <<stored, current, applied>>
    BY <1>2 DEF SetRetentionPreset
  <2> HIDE DEF change
  <2> QED BY <2>1, <2>2
<1>3. ASSUME NEW c \in Client,
             \/ Snapshot(c) \/ \E preset \in DOMAIN Preset : Choose(c, preset)
             \/ InsertChoice(c) \/ Complete(c) \/ MarkCompleted(c)
      PROVE  Kinds
  BY <1>3 DEF Snapshot, Choose, InsertChoice, Complete, MarkCompleted
<1>4. Diagnose \/ DismissChecklist => Kinds
  BY DEF Diagnose, DismissChecklist
<1>5. Serve => Kinds
  BY <1>1, <1>3 DEF Serve
<1>6. Onboard => Kinds
  BY <1>2, <1>3, <1>4 DEF Onboard
<1> QED BY <1>5, <1>6

\* The service's stored state and configuration change in four ways.
LEMMA StoredKinds ==
    ASSUME ServiceTyped, SettingsNext
    PROVE  \/ \E c \in Client, change \in Asked :
                 Accepts(c, change) /\ Commit(change) /\ UNCHANGED up
           \/ \E url \in Url : StoreUrl(url)
           \/ Initialize
           \/ Restart
           \/ UNCHANGED <<up, stored, current, applied>>
  BY HandlerKinds DEF SettingsNext, service

\* What is stored stays valid, and what is in force stays what is stored.
LEMMA ForceStep ==
    ASSUME ServiceTyped, StoredLoads, AppliedInForce, SettingsNext
    PROVE  StoredLoads' /\ AppliedInForce'
<1>1. overrides \in Stored
  BY DEF ServiceTyped
<1>2. ASSUME NEW c \in Client, NEW change \in Asked,
             Accepts(c, change), Commit(change), UNCHANGED up
      PROVE  StoredLoads' /\ AppliedInForce'
  <2>1. /\ overrides' \in Stored /\ current' = ResolveOverrides(overrides')
        /\ applied' = Effects(current') /\ Validate(ResolveOverrides(overrides'))
    BY <1>2, Committed DEF Commit, Accepts
  <2>2. [current' EXCEPT !.url = ""] = ResolveOverrides(Edits(overrides'))
    BY <2>1, ResolveUrl
  <2> QED BY <2>1, <2>2 DEF StoredLoads, AppliedInForce
<1>3. ASSUME NEW url \in Url, StoreUrl(url)
      PROVE  StoredLoads' /\ AppliedInForce'
  <2>1. /\ overrides' = [overrides EXCEPT !.url = url]
        /\ url \in Https \/ (AllowInsecureHTTP /\ url \in Http)
        /\ UNCHANGED <<up, current, applied>>
    BY <1>3 DEF StoreUrl
  <2>2. Edits(overrides') = Edits(overrides) /\ Validate(ResolveOverrides(overrides'))
    BY <1>1, <2>1, UrlStaysValid DEF StoredLoads
  <2> QED BY <2>1, <2>2 DEF StoredLoads, AppliedInForce
<1>4. CASE Initialize
  <2>1. /\ UNCHANGED overrides /\ current' = ResolveOverrides(overrides)
        /\ applied' = Effects(current')
    BY <1>4 DEF Initialize, stored
  <2>2. [current' EXCEPT !.url = ""] = ResolveOverrides(Edits(overrides))
    BY <1>1, <2>1, ResolveUrl
  <2> QED BY <2>1, <2>2 DEF StoredLoads, AppliedInForce
<1>5. CASE Restart
  BY <1>5 DEF Restart, stored, StoredLoads, AppliedInForce
<1>6. CASE UNCHANGED <<up, stored, current, applied>>
  BY <1>6 DEF stored, StoredLoads, AppliedInForce
<1> QED BY <1>2, <1>3, <1>4, <1>5, <1>6, StoredKinds

-----------------------------------------------------------------------------
(* The audit log. *)

\* A revision has one row of a setting, and the rows are of past revisions.
AuditRowsTyped ==
    /\ \A row \in audit : row.revision \in 1..revision /\ row.key \in Editable
    /\ \A r, s \in audit : r.key = s.key /\ r.revision = s.revision => r = s

\* The rows a commit adds.
LEMMA AddedRows ==
    ASSUME revision \in Nat, NEW change \in Asked
    PROVE  /\ \A row \in AuditRows(change) :
                 /\ row.revision = revision + 1 /\ row.key \in Editable /\ Given(change, row.key)
                 /\ row.previous = overrides[row.key] /\ row.new = change[row.key]
           /\ \A k \in Editable : Given(change, k) => \E row \in AuditRows(change) : row.key = k
           /\ \A r, s \in AuditRows(change) : r.key = s.key => r = s
           /\ AuditRows(change) # {}
<1> DEFINE Made(k) == [revision |-> revision + 1, key |-> k, previous |-> overrides[k],
                       new |-> change[k]]
           Ks == {e \in Editable : Given(change, e)}
<1>1. AuditRows(change) = {Made(k) : k \in Ks}
  BY DEF AuditRows
<1>2. \A k : /\ Made(k).revision = revision + 1 /\ Made(k).key = k
             /\ Made(k).previous = overrides[k] /\ Made(k).new = change[k]
  OBVIOUS
<1> HIDE DEF Made
<1>3. \E k \in Editable : Given(change, k)
  BY AskedGives
<1>4. \A row \in AuditRows(change) :
         /\ row.revision = revision + 1 /\ row.key \in Editable /\ Given(change, row.key)
         /\ row.previous = overrides[row.key] /\ row.new = change[row.key]
  BY <1>1, <1>2
<1>5. \A k \in Editable : Given(change, k) => \E row \in AuditRows(change) : row.key = k
  BY <1>1, <1>2
<1>6. \A r, s \in AuditRows(change) : r.key = s.key => r = s
  BY <1>1, <1>2
<1> QED BY <1>3, <1>4, <1>5, <1>6

\* The newest row of a key is the one that was just added.
LEMMA LatestIsNew ==
    ASSUME NEW S, NEW row, NEW n \in Nat, NEW k, row.revision = n + 1,
           \A s \in S : s.revision \in Int /\ s.revision =< n
    PROVE  Latest(S \cup {row}, k) = row.new
<1> DEFINE T == S \cup {row}
           P(r) == \A s \in T : s.revision =< r.revision
<1>1. row \in T /\ P(row)
  OBVIOUS
<1>2. \A r \in T : P(r) => r = row
  OBVIOUS
<1>3. (CHOOSE r \in T : P(r)) = row
  BY <1>1, <1>2
<1>4. T # {}
  BY <1>1
<1> QED BY <1>3, <1>4 DEF Latest

\* A commit adds to the log what it does to the settings.
LEMMA AuditCommit ==
    ASSUME ServiceTyped, AuditRowsTyped, AuditTellsAll, NEW change \in Asked, Commit(change)
    PROVE  AuditRowsTyped' /\ AuditTellsAll'
<1> DEFINE R == AuditRows(change)
<1>1. revision \in Nat /\ overrides \in Stored
  BY DEF ServiceTyped
<1>2. /\ revision' = revision + 1 /\ audit' = audit \cup R /\ overrides' = Merge(overrides, change)
  BY DEF Commit
<1>3. /\ \A row \in R : row.revision = revision + 1 /\ row.key \in Editable /\ Given(change, row.key)
      /\ \A row \in R : row.previous = overrides[row.key] /\ row.new = change[row.key]
      /\ \A k \in Editable : Given(change, k) => \E row \in R : row.key = k
      /\ \A r, s \in R : r.key = s.key => r = s
      /\ R # {}
  BY <1>1, AddedRows
<1> HIDE DEF R
<1>4. /\ \A row \in audit : row.revision \in 1..revision /\ row.key \in Editable
      /\ \A r, s \in audit : r.key = s.key /\ r.revision = s.revision => r = s
  BY DEF AuditRowsTyped
<1>5. AuditRowsTyped'
  <2>1. \A row \in audit' : row.revision \in 1..revision' /\ row.key \in Editable
    BY <1>1, <1>2, <1>3, <1>4
  <2>2. ASSUME NEW r \in audit', NEW s \in audit', r.key = s.key, r.revision = s.revision
        PROVE  r = s
    <3>1. CASE r \in audit /\ s \in audit
      BY <1>4, <2>2, <3>1
    <3>2. CASE r \in R /\ s \in R
      BY <1>3, <2>2, <3>2
    <3>3. CASE (r \in audit /\ s \in R) \/ (r \in R /\ s \in audit)
      BY <1>1, <1>3, <1>4, <2>2, <3>3
    <3> QED BY <1>2, <3>1, <3>2, <3>3
  <2> QED BY <2>1, <2>2 DEF AuditRowsTyped
<1>6. {row.revision : row \in audit'} = 1..revision'
  <2>1. {row.revision : row \in audit} = 1..revision
    BY DEF AuditTellsAll
  <2>2. {row.revision : row \in R} = {revision + 1}
    BY <1>3
  <2>3. {row.revision : row \in audit'} = {row.revision : row \in audit} \cup {row.revision : row \in R}
    BY <1>2
  <2>4. 1..(revision + 1) = (1..revision) \cup {revision + 1}
    BY <1>1
  <2> QED BY <1>2, <2>1, <2>2, <2>3, <2>4
<1>7. ASSUME NEW k \in Editable
      PROVE  /\ \A row \in History(k)' :
                   row.previous = Latest({r \in History(k)' : r.revision < row.revision}, k)
             /\ overrides'[k] = Latest(History(k)', k)
  <2> DEFINE H == History(k)
             G == History(k)'
  <2>1. /\ \A row \in H : row.previous = Latest({r \in H : r.revision < row.revision}, k)
        /\ overrides[k] = Latest(H, k)
    BY DEF AuditTellsAll
  <2>2. /\ H \subseteq audit /\ G = H \cup {row \in R : row.key = k}
        /\ \A row \in H : row.key = k
    BY <1>2 DEF History
  <2>3. overrides'[k] = IF Given(change, k) THEN change[k] ELSE overrides[k]
    BY <1>1, <1>2, MergeTyped
  <2> HIDE DEF H, G
  <2>4. \A r \in H : r.revision \in Int /\ r.revision =< revision
    BY <1>1, <1>4, <2>2
  <2>5. ASSUME NEW row \in H
        PROVE  row.previous = Latest({r \in G : r.revision < row.revision}, k)
    <3>1. {r \in G : r.revision < row.revision} = {r \in H : r.revision < row.revision}
      BY <1>1, <1>3, <2>2, <2>4
    <3> QED BY <2>1, <3>1
  <2>6. ASSUME NEW row \in R, row.key = k
        PROVE  row.previous = Latest({r \in G : r.revision < row.revision}, k)
    <3>1. {r \in G : r.revision < row.revision} = H
      BY <1>1, <1>3, <2>2, <2>4, <2>6
    <3> QED BY <1>3, <2>1, <2>6, <3>1
  <2>7. overrides'[k] = Latest(G, k)
    <3>1. CASE Given(change, k)
      <4>1. PICK row \in R : row.key = k
        BY <1>3, <3>1
      <4>2. G = H \cup {row}
        BY <1>3, <2>2, <4>1
      <4>3. row.revision = revision + 1 /\ row.new = change[k]
        BY <1>3, <4>1
      <4>4. Latest(H \cup {row}, k) = row.new
        BY <1>1, <2>4, <4>3, LatestIsNew
      <4> QED BY <2>3, <3>1, <4>2, <4>3, <4>4
    <3>2. CASE ~Given(change, k)
      <4>1. G = H
        BY <1>3, <2>2, <3>2
      <4> QED BY <2>1, <2>3, <3>2, <4>1
    <3> QED BY <3>1, <3>2
  <2>8. \A row \in G : row.previous = Latest({r \in G : r.revision < row.revision}, k)
    BY <2>2, <2>5, <2>6
  <2> QED BY <2>7, <2>8 DEF G
<1>8. AuditTellsAll'
  BY <1>6, <1>7 DEF AuditTellsAll
<1> QED BY <1>5, <1>8

\* The log stays complete.
LEMMA AuditStep ==
    ASSUME ServiceTyped, AuditRowsTyped, AuditTellsAll, SettingsNext
    PROVE  AuditRowsTyped' /\ AuditTellsAll'
<1>1. ASSUME UNCHANGED <<audit, revision>>, \A k \in Editable : overrides'[k] = overrides[k]
      PROVE  AuditRowsTyped' /\ AuditTellsAll'
  <2>1. AuditRowsTyped'
    BY <1>1 DEF AuditRowsTyped
  <2>2. \A k : History(k)' = History(k)
    BY <1>1 DEF History
  <2> QED BY <1>1, <2>1, <2>2 DEF AuditTellsAll
<1>2. ASSUME NEW url \in Url, StoreUrl(url)
      PROVE  AuditRowsTyped' /\ AuditTellsAll'
  <2>1. /\ UNCHANGED <<audit, revision>> /\ overrides' = [overrides EXCEPT !.url = url]
        /\ overrides \in Stored
    BY <1>2 DEF StoreUrl, ServiceTyped
  <2>2. \A k \in Editable : overrides'[k] = overrides[k]
    BY <2>1, Keys DEF Stored
  <2> QED BY <1>1, <2>1, <2>2
<1>3. Initialize \/ Restart => AuditRowsTyped' /\ AuditTellsAll'
  BY <1>1 DEF Initialize, Restart, stored
<1>4. UNCHANGED <<up, stored, current, applied>> => AuditRowsTyped' /\ AuditTellsAll'
  BY <1>1 DEF stored
<1> QED BY <1>2, <1>3, <1>4, StoredKinds, AuditCommit

-----------------------------------------------------------------------------
(* Requests and onboarding. *)

\* The requests that may still commit.
Pending == {c \in Client : client[c].at \in {"snapshot", "ready"}}

\* A commit uses a request up.
Counted == IsFiniteSet(Pending) /\ revision + Cardinality(Pending) =< requests

\* One handler moves: what that does to the requests that may commit.
LEMMA PendingMoves ==
    ASSUME IsFiniteSet(Pending), NEW c \in Client,
           \A d \in Client : d # c => client'[d] = client[d]
    PROVE  /\ IsFiniteSet(Pending') /\ Cardinality(Pending) \in Nat /\ Cardinality(Pending') \in Nat
           /\ Cardinality(Pending') =< Cardinality(Pending) + 1
           /\ c \notin Pending' \/ c \in Pending => Cardinality(Pending') =< Cardinality(Pending)
           /\ c \in Pending /\ c \notin Pending' => Cardinality(Pending') + 1 =< Cardinality(Pending)
<1> DEFINE P == Pending
           Q == Pending'
<1>1. Q \ {c} = P \ {c} /\ Q \subseteq P \cup {c}
  BY DEF Pending
<1> HIDE DEF P, Q
<1>2. IsFiniteSet(P)
  BY DEF P
<1>3. /\ IsFiniteSet(P \cup {c})
      /\ Cardinality(P \cup {c}) = IF c \in P THEN Cardinality(P) ELSE Cardinality(P) + 1
      /\ IsFiniteSet(P \ {c})
      /\ Cardinality(P \ {c}) = IF c \in P THEN Cardinality(P) - 1 ELSE Cardinality(P)
  BY <1>2, FS_AddElement, FS_RemoveElement
<1>4. Q \in SUBSET (P \cup {c})
  BY <1>1
<1>5. IsFiniteSet(Q) /\ Cardinality(Q) =< Cardinality(P \cup {c})
  BY <1>3, <1>4, FS_Subset
<1>6. Cardinality(P) \in Nat /\ Cardinality(Q) \in Nat
  BY <1>2, <1>5, FS_CardinalityType
<1>7. c \notin Q => Q = P \ {c}
  BY <1>1
<1>8. Cardinality(Q) =< Cardinality(P) + 1
  BY <1>3, <1>5, <1>6
<1>9. c \in P => Cardinality(Q) =< Cardinality(P)
  BY <1>3, <1>5, <1>6
<1>10. c \notin Q => Cardinality(Q) = IF c \in P THEN Cardinality(P) - 1 ELSE Cardinality(P)
  BY <1>3, <1>7
<1>11. c \notin Q => Cardinality(Q) =< Cardinality(P)
  BY <1>6, <1>10
<1>12. c \in P /\ c \notin Q => Cardinality(Q) + 1 =< Cardinality(P)
  BY <1>6, <1>10
<1> QED BY <1>5, <1>6, <1>8, <1>9, <1>11, <1>12 DEF P, Q

\* The revision never exceeds the requests.
LEMMA CountedStep ==
    ASSUME ServiceTyped, Counted, SettingsNext
    PROVE  Counted'
<1> USE DEF stored, bounds, service
<1>1. /\ requests \in Nat /\ revision \in Nat /\ IsFiniteSet(Pending)
      /\ revision + Cardinality(Pending) =< requests
  BY DEF ServiceTyped, Counted
<1>2. Cardinality(Pending) \in Nat
  BY <1>1, FS_CardinalityType
<1>3. ASSUME UNCHANGED <<revision, client>>, UNCHANGED requests \/ Request
      PROVE  Counted'
  <2>1. Pending' = Pending
    BY <1>3 DEF Pending
  <2>2. requests' = requests \/ requests' = requests + 1
    BY <1>3 DEF Request
  <2> QED BY <1>1, <1>2, <1>3, <2>1, <2>2 DEF Counted
<1>4. ASSUME NEW c \in Client, \A d \in Client : d # c => client'[d] = client[d],
             revision' = revision, requests' = requests + 1
      PROVE  Counted'
  <2>1. /\ IsFiniteSet(Pending') /\ Cardinality(Pending') \in Nat
        /\ Cardinality(Pending') =< Cardinality(Pending) + 1
    BY <1>1, <1>4, PendingMoves
  <2> QED BY <1>1, <1>2, <1>4, <2>1 DEF Counted
<1>5. ASSUME NEW c \in Client, \A d \in Client : d # c => client'[d] = client[d],
             revision' = revision, requests' = requests, c \notin Pending' \/ c \in Pending
      PROVE  Counted'
  <2>1. /\ IsFiniteSet(Pending') /\ Cardinality(Pending') \in Nat
        /\ Cardinality(Pending') =< Cardinality(Pending)
    BY <1>1, <1>5, PendingMoves
  <2> QED BY <1>1, <1>2, <1>5, <2>1 DEF Counted
<1>6. ASSUME NEW c \in Client, \A d \in Client : d # c => client'[d] = client[d],
             revision' = revision + 1, requests' = requests, c \in Pending, c \notin Pending'
      PROVE  Counted'
  <2>1. /\ IsFiniteSet(Pending') /\ Cardinality(Pending') \in Nat
        /\ Cardinality(Pending') + 1 =< Cardinality(Pending)
    BY <1>1, <1>6, PendingMoves
  <2> QED BY <1>1, <1>2, <1>6, <2>1 DEF Counted
<1>7. ASSUME NEW c \in Client, Snapshot(c)
      PROVE  Counted'
  <2>1. \A d \in Client : d # c => client'[d] = client[d]
    BY <1>7, SnapshotTyped
  <2>2. revision' = revision
    BY <1>7 DEF Snapshot
  <2>3. CASE Request
    BY <1>4, <2>1, <2>2, <2>3, RequestCounted, <1>1
  <2>4. CASE client[c].at = "snapshot" /\ UNCHANGED requests
    <3>1. c \in Pending
      BY <2>4 DEF Pending
    <3> QED BY <1>5, <2>1, <2>2, <2>4, <3>1
  <2> QED BY <1>7, <2>3, <2>4 DEF Snapshot
<1>8. ASSUME NEW c \in Client, NEW change \in Change, Patch(c, change)
      PROVE  Counted'
  <2>1. /\ client'[c].at = "idle" /\ \A d \in Client : d # c => client'[d] = client[d]
    BY <1>8, DoneTyped DEF Patch
  <2>2. c \in Pending /\ c \notin Pending'
    BY <1>8, <2>1 DEF Patch, Pending
  <2>3. requests' = requests /\ (revision' = revision + 1 \/ revision' = revision)
    BY <1>8 DEF Patch, Commit
  <2> QED BY <1>5, <1>6, <2>1, <2>2, <2>3
<1>9. ASSUME NEW c \in Client, NEW preset \in DOMAIN Preset, Choose(c, preset)
      PROVE  Counted'
  <2>1. \A d \in Client : d # c => client'[d] = client[d]
    BY <1>9, ChooseTyped
  <2>2. revision' = revision /\ requests' = requests + 1
    BY <1>1, <1>9, RequestCounted DEF Choose
  <2> QED BY <1>4, <2>1, <2>2
<1>10. ASSUME NEW c \in Client, SetRetentionPreset(c)
       PROVE  Counted'
  <2>1. c \in Pending /\ requests' = requests
    BY <1>10 DEF SetRetentionPreset, Pending
  <2>2. ASSUME Done(c) \/ GoTo(c, "insert"), revision' = revision + 1 \/ revision' = revision
        PROVE  Counted'
    <3>1. client'[c].at \in {"idle", "insert"} /\ \A d \in Client : d # c => client'[d] = client[d]
      BY <2>2, DoneTyped, GoToTyped
    <3>2. c \notin Pending'
      BY <3>1 DEF Pending
    <3> QED BY <1>5, <1>6, <2>1, <2>2, <3>1, <3>2
  <2>3. ASSUME client[c].tries + 1 < MaxTries, revision' = revision,
               client' = [client EXCEPT ![c].at = "snapshot", ![c].tries = @ + 1]
        PROVE  Counted'
    <3>1. \A d \in Client : d # c => client'[d] = client[d]
      BY <2>3, RetryTyped
    <3> QED BY <1>5, <2>1, <2>3, <3>1
  <2> QED BY <1>10, <2>2, <2>3 DEF SetRetentionPreset, Commit
<1>11. ASSUME NEW c \in Client, InsertChoice(c) \/ MarkCompleted(c)
       PROVE  Counted'
  <2>1. UNCHANGED <<revision, requests>> /\ Done(c)
    BY <1>11 DEF InsertChoice, MarkCompleted
  <2>2. /\ client'[c].at = "idle" /\ \A d \in Client : d # c => client'[d] = client[d]
    BY <2>1, DoneTyped
  <2>3. c \notin Pending'
    BY <2>2 DEF Pending
  <2> QED BY <1>5, <2>1, <2>2, <2>3
<1>12. ASSUME NEW c \in Client, Complete(c)
       PROVE  Counted'
  <2>1. revision' = revision /\ requests' = requests + 1 /\ GoTo(c, "complete")
    BY <1>1, <1>12, RequestCounted DEF Complete
  <2>2. \A d \in Client : d # c => client'[d] = client[d]
    BY <2>1, GoToTyped
  <2> QED BY <1>4, <2>1, <2>2
<1>13. CASE Diagnose \/ DismissChecklist
  BY <1>3, <1>13 DEF Diagnose, DismissChecklist
<1>14. CASE Initialize
  BY <1>3, <1>14 DEF Initialize
<1>15. CASE Restart
  <2>1. UNCHANGED <<revision, requests>> /\ client' = [c \in Client |-> Idle]
    BY <1>15 DEF Restart
  <2>2. Pending' = {}
    BY <2>1, IdleTyped DEF Pending
  <2>3. IsFiniteSet(Pending') /\ Cardinality(Pending') = 0
    BY <2>2, FS_EmptySet
  <2> QED BY <1>1, <1>2, <2>1, <2>3 DEF Counted
<1>16. ASSUME NEW url \in Url, StoreUrl(url)
       PROVE  Counted'
  BY <1>3, <1>16 DEF StoreUrl
<1>17. CASE (Request /\ UNCHANGED service) \/ UNCHANGED <<service, requests>>
  BY <1>3, <1>17
<1>18. Serve => Counted'
  BY <1>7, <1>8 DEF Serve
<1>19. Onboard => Counted'
  BY <1>9, <1>10, <1>11, <1>12, <1>13 DEF Onboard
<1> QED BY <1>14, <1>15, <1>16, <1>17, <1>18, <1>19 DEF SettingsNext

OnboardingRow == [row : BOOLEAN, preset : {""} \cup DOMAIN Preset, diagnosed : BOOLEAN,
                  completed : BOOLEAN, dismissed : BOOLEAN]

\* A handler that is about to complete has seen the diagnostics, which are in the
\* row.
OnboardingInd ==
    /\ onboarding \in OnboardingRow
    /\ OnboardingInOrder
    /\ onboarding.diagnosed => onboarding.row
    /\ \A c \in Client : client[c].at = "complete" => onboarding.diagnosed

\* The onboarding row as the handlers change it.
LEMMA RowChanges ==
    ASSUME NEW o \in OnboardingRow, NEW p \in {""} \cup DOMAIN Preset
    PROVE  /\ [o EXCEPT !.row = TRUE, !.preset = p] \in OnboardingRow
           /\ [o EXCEPT !.row = TRUE, !.diagnosed = TRUE] \in OnboardingRow
           /\ [o EXCEPT !.completed = o.row] \in OnboardingRow
           /\ [o EXCEPT !.dismissed = @ \/ o.completed] \in OnboardingRow
<1>1. [o EXCEPT !.row = TRUE, !.preset = p] \in OnboardingRow
  BY DEF OnboardingRow
<1>2. [o EXCEPT !.row = TRUE, !.diagnosed = TRUE] \in OnboardingRow
  BY DEF OnboardingRow
<1>3. [o EXCEPT !.completed = o.row] \in OnboardingRow
  BY DEF OnboardingRow
<1>4. [o EXCEPT !.dismissed = @ \/ o.completed] \in OnboardingRow
  <2>1. (o.dismissed \/ o.completed) \in BOOLEAN
    OBVIOUS
  <2> QED BY <2>1 DEF OnboardingRow
<1> QED BY <1>1, <1>2, <1>3, <1>4

\* Onboarding stays in order.
LEMMA OnboardingStep ==
    ASSUME ServiceTyped, OnboardingInd, SettingsNext
    PROVE  OnboardingInd'
<1> USE DEF stored, bounds, service
<1>1. onboarding \in OnboardingRow
  BY DEF OnboardingInd
<1>2. ASSUME UNCHANGED onboarding,
             \A c \in Client : client'[c].at = "complete" =>
                 client[c].at = "complete" \/ onboarding.diagnosed
      PROVE  OnboardingInd'
  BY <1>2 DEF OnboardingInd, OnboardingInOrder
<1>3. ASSUME NEW c \in Client, Snapshot(c)
      PROVE  OnboardingInd'
  <2>1. client'[c].at = "ready" /\ \A d \in Client : d # c => client'[d] = client[d]
    BY <1>3, SnapshotTyped
  <2>2. UNCHANGED onboarding
    BY <1>3 DEF Snapshot
  <2> QED BY <1>2, <2>1, <2>2
<1>4. ASSUME NEW c \in Client, NEW change \in Change, Patch(c, change)
      PROVE  OnboardingInd'
  <2>1. client'[c].at = "idle" /\ \A d \in Client : d # c => client'[d] = client[d]
    BY <1>4, DoneTyped DEF Patch
  <2>2. UNCHANGED onboarding
    BY <1>4 DEF Patch
  <2> QED BY <1>2, <2>1, <2>2
<1>5. ASSUME NEW c \in Client, NEW preset \in DOMAIN Preset, Choose(c, preset)
      PROVE  OnboardingInd'
  <2>1. /\ client'[c].at \in {"insert", "snapshot"}
        /\ \A d \in Client : d # c => client'[d] = client[d]
    BY <1>5, ChooseTyped
  <2>2. UNCHANGED onboarding
    BY <1>5 DEF Choose
  <2> QED BY <1>2, <2>1, <2>2
<1>6. ASSUME NEW c \in Client, SetRetentionPreset(c)
      PROVE  OnboardingInd'
  <2>1. \/ Done(c) \/ GoTo(c, "insert")
        \/ /\ client[c].tries + 1 < MaxTries
           /\ client' = [client EXCEPT ![c].at = "snapshot", ![c].tries = @ + 1]
    BY <1>6 DEF SetRetentionPreset
  <2>2. /\ client'[c].at \in {"idle", "insert", "snapshot"}
        /\ \A d \in Client : d # c => client'[d] = client[d]
    BY <2>1, DoneTyped, GoToTyped, RetryTyped
  <2>3. UNCHANGED onboarding
    BY <1>6 DEF SetRetentionPreset
  <2> QED BY <1>2, <2>2, <2>3
<1>7. ASSUME NEW c \in Client, InsertChoice(c)
      PROVE  OnboardingInd'
  <2>1. /\ onboarding' = [onboarding EXCEPT !.row = TRUE, !.preset = client[c].preset] /\ Done(c)
    BY <1>7 DEF InsertChoice
  <2>2. client'[c].at = "idle" /\ \A d \in Client : d # c => client'[d] = client[d]
    BY <2>1, DoneTyped
  <2>3. client[c].preset \in {""} \cup DOMAIN Preset
    BY DEF ServiceTyped, Session
  <2>4. onboarding' \in OnboardingRow
    BY <1>1, <2>1, <2>3, RowChanges
  <2>5. /\ onboarding'.row = TRUE /\ onboarding'.diagnosed = onboarding.diagnosed
        /\ onboarding'.completed = onboarding.completed /\ onboarding'.dismissed = onboarding.dismissed
    BY <1>1, <2>1 DEF OnboardingRow
  <2> QED BY <2>2, <2>4, <2>5 DEF OnboardingInd, OnboardingInOrder
<1>8. ASSUME NEW c \in Client, Complete(c)
      PROVE  OnboardingInd'
  <2>1. UNCHANGED onboarding /\ onboarding.diagnosed /\ GoTo(c, "complete")
    BY <1>8 DEF Complete
  <2> QED BY <1>2, <2>1
<1>9. ASSUME NEW c \in Client, MarkCompleted(c)
      PROVE  OnboardingInd'
  <2>1. /\ client[c].at = "complete" /\ Done(c)
        /\ onboarding' = [onboarding EXCEPT !.completed = onboarding.row]
    BY <1>9 DEF MarkCompleted
  <2>2. client'[c].at = "idle" /\ \A d \in Client : d # c => client'[d] = client[d]
    BY <2>1, DoneTyped
  <2>3. onboarding.diagnosed /\ onboarding.row
    BY <2>1 DEF OnboardingInd
  <2>4. onboarding' \in OnboardingRow
    BY <1>1, <2>1, RowChanges
  <2>5. /\ onboarding'.row = onboarding.row /\ onboarding'.diagnosed = onboarding.diagnosed
        /\ onboarding'.completed = onboarding.row /\ onboarding'.dismissed = onboarding.dismissed
    BY <1>1, <2>1 DEF OnboardingRow
  <2> QED BY <2>2, <2>3, <2>4, <2>5 DEF OnboardingInd, OnboardingInOrder
<1>10. CASE Diagnose
  <2>1. /\ UNCHANGED client
        /\ onboarding' = [onboarding EXCEPT !.row = TRUE, !.diagnosed = TRUE]
    BY <1>10 DEF Diagnose
  <2>2. onboarding' \in OnboardingRow
    BY <1>1, <2>1, RowChanges
  <2>3. /\ onboarding'.row = TRUE /\ onboarding'.diagnosed = TRUE
        /\ onboarding'.completed = onboarding.completed /\ onboarding'.dismissed = onboarding.dismissed
    BY <1>1, <2>1 DEF OnboardingRow
  <2> QED BY <2>1, <2>2, <2>3 DEF OnboardingInd, OnboardingInOrder
<1>11. CASE DismissChecklist
  <2>1. /\ UNCHANGED client
        /\ onboarding' = [onboarding EXCEPT !.dismissed = @ \/ onboarding.completed]
    BY <1>11 DEF DismissChecklist
  <2>2. onboarding' \in OnboardingRow
    BY <1>1, <2>1, RowChanges
  <2>3. /\ onboarding'.row = onboarding.row /\ onboarding'.diagnosed = onboarding.diagnosed
        /\ onboarding'.completed = onboarding.completed
    BY <1>1, <2>1 DEF OnboardingRow
  <2>4. onboarding'.dismissed => onboarding.dismissed \/ onboarding.completed
    BY <1>1, <2>1 DEF OnboardingRow
  <2> QED BY <2>1, <2>2, <2>3, <2>4 DEF OnboardingInd, OnboardingInOrder
<1>12. CASE Initialize
  BY <1>2, <1>12 DEF Initialize
<1>13. CASE Restart
  <2>1. UNCHANGED onboarding /\ \A c \in Client : client'[c].at = "idle"
    BY <1>13, IdleTyped DEF Restart
  <2> QED BY <1>2, <2>1
<1>14. ASSUME NEW url \in Url, StoreUrl(url)
       PROVE  OnboardingInd'
  BY <1>2, <1>14 DEF StoreUrl
<1>15. CASE (Request /\ UNCHANGED service) \/ UNCHANGED <<service, requests>>
  BY <1>2, <1>15
<1>16. Serve => OnboardingInd'
  BY <1>3, <1>4 DEF Serve
<1>17. Onboard => OnboardingInd'
  BY <1>5, <1>6, <1>7, <1>8, <1>9, <1>10, <1>11 DEF Onboard
<1> QED BY <1>12, <1>13, <1>14, <1>15, <1>16, <1>17 DEF SettingsNext

-----------------------------------------------------------------------------
(* The service implements the register. *)

\* A handler that has the current revision has seen the settings it will change.
Seen ==
    \A c \in Client : client[c].at = "ready" =>
        /\ client[c].revision =< revision
        /\ client[c].revision = revision => client[c].seen = Edits(overrides)

\* A handler that moves to a place where it knows nothing.
LEMMA Forgets ==
    ASSUME NEW c \in Client, client'[c].at # "ready",
           \A d \in Client : d # c => client'[d] = client[d],
           UNCHANGED revision, Edits(overrides') = Edits(overrides)
    PROVE  Register!Next
<1>1. SUFFICES Register!Forget({c})
  BY DEF Register!Next
<1> QED BY DEF Register!Forget, Register!NotRead

\* A snapshot reads the register.
LEMMA Reads ==
    ASSUME NEW c \in Client, client'[c].at = "ready", client'[c].revision = revision,
           client'[c].seen = Edits(overrides),
           \A d \in Client : d # c => client'[d] = client[d],
           UNCHANGED <<revision, overrides>>
    PROVE  Register!Next
<1>1. SUFFICES Register!Read(c)
  BY DEF Register!Next
<1> QED BY DEF Register!Read

\* A commit of a handler that has the current revision writes the register.
LEMMA Writes ==
    ASSUME ServiceTyped, Seen, NEW c \in Client, client[c].at = "ready", client'[c].at # "ready",
           client[c].revision = revision, NEW change \in Asked, Commit(change),
           \A d \in Client : d # c => client'[d] = client[d]
    PROVE  Register!Next
<1>1. overrides' \in Stored /\ revision' = revision + 1
  BY Committed
<1>2. Edits(overrides') \in Edited
  BY <1>1, EditsTyped
<1>3. client[c].seen = Edits(overrides)
  BY DEF Seen
<1>4. PICK v \in Edited : v = Edits(overrides')
  BY <1>2
<1>5. Register!Write(c, v)
  BY <1>1, <1>3, <1>4 DEF Register!Write, Register!NotRead
<1>6. v \in [preset : Values("preset") \cup DOMAIN Preset, raw : Values("raw"),
             idle : Values("idle"), url : {""}]
  BY DEF Edited, PresetValue
<1> QED BY <1>5, <1>6, Zenon DEF Register!Next

\* What the other handlers know does not matter to the register.
LEMMA SameRegister ==
    ASSUME UNCHANGED revision, Edits(overrides') = Edits(overrides),
           \A c \in Client : client'[c] = client[c]
                             \/ (client'[c].at # "ready" /\ client[c].at # "ready")
    PROVE  UNCHANGED Register!vars
  BY DEF Register!vars

\* A commit makes every other snapshot stale.
LEMMA SeenCommit ==
    ASSUME ServiceTyped, Seen, NEW c \in Client, client'[c].at # "ready",
           revision' = revision + 1, \A d \in Client : d # c => client'[d] = client[d]
    PROVE  Seen'
<1>1. revision \in Nat
  BY DEF ServiceTyped
<1>2. ASSUME NEW d \in Client, client'[d].at = "ready"
      PROVE  client'[d].revision =< revision' /\ client'[d].revision # revision'
  <2>1. client'[d] = client[d]
    BY <1>2
  <2>2. client[d].revision =< revision /\ client[d].revision \in Int
    BY <1>2, <2>1 DEF Seen, ServiceTyped, Session
  <2> QED BY <1>1, <2>1, <2>2
<1> QED BY <1>2 DEF Seen

\* Steps that store nothing keep what the snapshots say.
LEMMA SeenKept ==
    ASSUME Seen, UNCHANGED revision, Edits(overrides') = Edits(overrides),
           \A c \in Client : client'[c] = client[c] \/ client'[c].at # "ready"
    PROVE  Seen'
  BY DEF Seen

\* Every step of the service is a step of the register, or none of it.
LEMMA RegisterStep ==
    ASSUME ServiceTyped, Seen, SettingsNext
    PROVE  Seen' /\ [Register!Next]_(Register!vars)
<1> USE DEF stored, bounds, service
<1>1. overrides \in Stored /\ revision \in Nat
  BY DEF ServiceTyped
<1>2. ASSUME NEW c \in Client, UNCHANGED <<revision, overrides>>, client'[c].at # "ready",
             \A d \in Client : d # c => client'[d] = client[d]
      PROVE  Seen' /\ [Register!Next]_(Register!vars)
  <2>1. Register!Next
    BY <1>2, Forgets
  <2>2. Seen'
    BY <1>2, SeenKept
  <2> QED BY <2>1, <2>2
<1>3. ASSUME NEW c \in Client, NEW change \in Asked, Accepts(c, change), Commit(change),
             client[c].at = "ready", client'[c].at # "ready",
             \A d \in Client : d # c => client'[d] = client[d]
      PROVE  Seen' /\ [Register!Next]_(Register!vars)
  <2>1. client[c].revision = revision /\ revision' = revision + 1
    BY <1>3 DEF Accepts, Commit
  <2>2. Register!Next
    BY <1>3, <2>1, Writes
  <2>3. Seen'
    BY <1>3, <2>1, SeenCommit
  <2> QED BY <2>2, <2>3
<1>4. ASSUME UNCHANGED <<revision, client>>, Edits(overrides') = Edits(overrides)
      PROVE  Seen' /\ [Register!Next]_(Register!vars)
  <2>1. UNCHANGED Register!vars
    BY <1>4, SameRegister
  <2>2. Seen'
    BY <1>4, SeenKept
  <2> QED BY <2>1, <2>2
<1>5. ASSUME NEW c \in Client, Snapshot(c)
      PROVE  Seen' /\ [Register!Next]_(Register!vars)
  <2>1. /\ client'[c].at = "ready" /\ client'[c].revision = revision
        /\ client'[c].seen = Edits(overrides)
        /\ \A d \in Client : d # c => client'[d] = client[d]
    BY <1>5, SnapshotTyped
  <2>2. UNCHANGED <<revision, overrides>>
    BY <1>5 DEF Snapshot
  <2>3. Register!Next
    BY <2>1, <2>2, Reads
  <2>4. Seen'
    BY <1>1, <2>1, <2>2 DEF Seen
  <2> QED BY <2>3, <2>4
<1>6. ASSUME NEW c \in Client, NEW change \in Change, Patch(c, change)
      PROVE  Seen' /\ [Register!Next]_(Register!vars)
  <2>1. /\ client'[c].at = "idle" /\ \A d \in Client : d # c => client'[d] = client[d]
        /\ client[c].at = "ready" /\ change \in Asked
    BY <1>6, DoneTyped DEF Patch, Asked
  <2>2. (Accepts(c, change) /\ Commit(change)) \/ UNCHANGED <<revision, overrides>>
    BY <1>6 DEF Patch
  <2> QED BY <1>2, <1>3, <2>1, <2>2
<1>7. ASSUME NEW c \in Client, NEW preset \in DOMAIN Preset, Choose(c, preset)
      PROVE  Seen' /\ [Register!Next]_(Register!vars)
  <2>1. /\ client'[c].at \in {"insert", "snapshot"}
        /\ \A d \in Client : d # c => client'[d] = client[d]
    BY <1>7, ChooseTyped
  <2>2. UNCHANGED <<revision, overrides>>
    BY <1>7 DEF Choose
  <2> QED BY <1>2, <2>1, <2>2
<1>8. ASSUME NEW c \in Client, SetRetentionPreset(c)
      PROVE  Seen' /\ [Register!Next]_(Register!vars)
  <2> DEFINE change == [Unset EXCEPT !.preset = client[c].preset]
  <2>1. \/ Done(c) \/ GoTo(c, "insert")
        \/ /\ client[c].tries + 1 < MaxTries
           /\ client' = [client EXCEPT ![c].at = "snapshot", ![c].tries = @ + 1]
    BY <1>8 DEF SetRetentionPreset
  <2>2. /\ client'[c].at \in {"idle", "insert", "snapshot"}
        /\ \A d \in Client : d # c => client'[d] = client[d]
    BY <2>1, DoneTyped, GoToTyped, RetryTyped
  <2>3. client[c].at = "ready" /\ change \in Asked
    BY <1>8, ChosenAsked DEF SetRetentionPreset
  <2>4. (Accepts(c, change) /\ Commit(change)) \/ UNCHANGED <<revision, overrides>>
    BY <1>8 DEF SetRetentionPreset
  <2> HIDE DEF change
  <2> QED BY <1>2, <1>3, <2>2, <2>3, <2>4
<1>9. ASSUME NEW c \in Client, InsertChoice(c) \/ MarkCompleted(c)
      PROVE  Seen' /\ [Register!Next]_(Register!vars)
  <2>1. UNCHANGED <<revision, overrides>> /\ Done(c)
    BY <1>9 DEF InsertChoice, MarkCompleted
  <2>2. client'[c].at = "idle" /\ \A d \in Client : d # c => client'[d] = client[d]
    BY <2>1, DoneTyped
  <2> QED BY <1>2, <2>1, <2>2
<1>10. ASSUME NEW c \in Client, Complete(c)
       PROVE  Seen' /\ [Register!Next]_(Register!vars)
  <2>1. UNCHANGED <<revision, overrides>> /\ GoTo(c, "complete")
    BY <1>10 DEF Complete
  <2>2. client'[c].at = "complete" /\ \A d \in Client : d # c => client'[d] = client[d]
    BY <2>1, GoToTyped
  <2> QED BY <1>2, <2>1, <2>2
<1>11. CASE Diagnose \/ DismissChecklist
  BY <1>4, <1>11 DEF Diagnose, DismissChecklist
<1>12. CASE Initialize
  BY <1>4, <1>12 DEF Initialize
<1>13. CASE Restart
  <2>1. UNCHANGED <<revision, overrides>> /\ \A c \in Client : client'[c].at = "idle"
    BY <1>13, IdleTyped DEF Restart
  <2>2. Register!Forget(Client)
    BY <2>1 DEF Register!Forget, Register!NotRead
  <2>3. Register!Next
    BY <2>2 DEF Register!Next
  <2>4. Seen'
    BY <2>1, SeenKept
  <2> QED BY <2>3, <2>4
<1>14. ASSUME NEW url \in Url, StoreUrl(url)
       PROVE  Seen' /\ [Register!Next]_(Register!vars)
  <2>1. UNCHANGED <<revision, client>> /\ overrides' = [overrides EXCEPT !.url = url]
    BY <1>14 DEF StoreUrl
  <2>2. Edits(overrides') = Edits(overrides)
    BY <1>1, <2>1 DEF Edits, Stored
  <2> QED BY <1>4, <2>1, <2>2
<1>15. CASE (Request /\ UNCHANGED service) \/ UNCHANGED <<service, requests>>
  BY <1>4, <1>15
<1>16. Serve => Seen' /\ [Register!Next]_(Register!vars)
  BY <1>5, <1>6 DEF Serve
<1>17. Onboard => Seen' /\ [Register!Next]_(Register!vars)
  BY <1>7, <1>8, <1>9, <1>10, <1>11 DEF Onboard
<1> QED BY <1>12, <1>13, <1>14, <1>15, <1>16, <1>17 DEF SettingsNext

-----------------------------------------------------------------------------
(* What follows for the service. *)

\* The first process.
LEMMA ServiceInit ==
    ASSUME Init
    PROVE  /\ ServiceTyped /\ StoredLoads /\ AppliedInForce /\ AuditRowsTyped /\ AuditTellsAll
           /\ Counted /\ OnboardingInd /\ Seen /\ Register!Init
<1>1. /\ up = FALSE /\ overrides = Unset /\ revision = 0 /\ audit = {}
      /\ onboarding = NoOnboarding /\ client = [c \in Client |-> Idle] /\ requests = 0
  BY DEF Init, SettingsInit
<1>2. \A c \in Client : client[c].at = "idle" /\ client[c].op = "patch"
  BY <1>1, IdleTyped
<1>3. ServiceTyped
  <2>1. overrides \in Stored
    BY <1>1, UnsetStored
  <2>2. client \in [Client -> Session]
    BY <1>1, IdleTyped
  <2>3. revision \in Nat /\ requests \in Nat /\ requests =< MaxRequests
    BY <1>1, Limits
  <2> QED BY <1>2, <2>1, <2>2, <2>3 DEF ServiceTyped
<1>4. StoredLoads
  BY <1>1, BaseAssumption DEF StoredLoads
<1>5. AppliedInForce
  BY <1>1 DEF AppliedInForce
<1>6. AuditRowsTyped
  BY <1>1 DEF AuditRowsTyped
<1>7. AuditTellsAll
  <2>1. {row.revision : row \in audit} = 1..revision
    BY <1>1
  <2>2. \A k : History(k) = {}
    BY <1>1 DEF History
  <2> QED BY <1>1, <2>1, <2>2 DEF AuditTellsAll, Latest
<1>8. Counted
  <2>1. Pending = {}
    BY <1>2 DEF Pending
  <2>2. IsFiniteSet(Pending) /\ Cardinality(Pending) = 0
    BY <2>1, FS_EmptySet
  <2> QED BY <1>1, <2>2 DEF Counted
<1>9. OnboardingInd
  <2>1. onboarding \in OnboardingRow
    BY <1>1 DEF NoOnboarding, OnboardingRow
  <2>2. ~onboarding.diagnosed /\ ~onboarding.completed /\ ~onboarding.dismissed
    BY <1>1 DEF NoOnboarding
  <2> QED BY <1>2, <2>1, <2>2 DEF OnboardingInd, OnboardingInOrder
<1>10. Seen
  BY <1>2 DEF Seen
<1>11. Register!Init
  <2>1. Edits(overrides) = Unset
    BY <1>1, UnsetStored
  <2> QED BY <1>1, <1>2, <2>1 DEF Register!Init, Register!NotRead
<1> QED BY <1>3, <1>4, <1>5, <1>6, <1>7, <1>8, <1>9, <1>10, <1>11

\* The audit log tells the whole story of every setting (settings/store.go: Patch):
\* whichever requests conflict, fail or are retried, the rows of a key follow each
\* other up to the stored value and no revision is missing.
THEOREM AuditComplete == Spec => []AuditTellsAll
<1> DEFINE Inv == ServiceTyped /\ AuditRowsTyped /\ AuditTellsAll
<1>1. Init => Inv
  BY ServiceInit
<1>2. Inv /\ [Next]_vars => Inv'
  BY SettingsSide, ServiceTypedStep, AuditStep
<1> QED BY <1>1, <1>2, PTL DEF Spec

\* The settings service is the optimistic register (settings/store.go: Snapshot,
\* Patch, SetRetentionPreset): a change takes effect only on the settings its sender
\* has seen, so that no administrator overwrites another's change unseen.
THEOREM ServiceIsRegister == Spec => IsRegister
<1> DEFINE Inv == ServiceTyped /\ Seen
<1>1. Init => Inv /\ Register!Init
  BY ServiceInit
<1>2. Inv /\ [Next]_vars => Inv' /\ [Register!Next]_(Register!vars)
  BY SettingsSide, ServiceTypedStep, RegisterStep
<1> QED BY <1>1, <1>2, PTL DEF Spec, IsRegister, Register!Spec

-----------------------------------------------------------------------------
(* The integration. *)

Conf == [at : {"idle", "url", "put", "activate"}, url : Url \cup {""}, token : Token \cup {""},
         given : BOOLEAN, alone : BOOLEAN]
Enricher == [url : Url \cup {""}, token : Token \cup {""},
             state : {"off", "unknown", "degraded", "healthy"}, metadata : Url \cup {""},
             at : {"idle", "metadata", "deployments", "record"},
             todo : SUBSET (Deployment \X Status)]

\* So do the integration, its enricher and the configuration requests.
IntegrationTyped ==
    /\ secret \in Token \cup {""} /\ cache \in Url \cup {""}
    /\ configure \in [Admin -> Conf]
    /\ enricher \in Enricher /\ (enricher.at = "record" <=> enricher.todo # {})
    /\ deployments \in [Deployment -> Status \cup {""}]
    /\ server \in [Deployment -> Status \cup {""}]
    /\ events \subseteq Deployment \X Terminal
    /\ seenRunning \subseteq Deployment

\* A handler leaves the URL alone.
LEMMA UrlKept ==
    ASSUME ServiceTyped, Serve \/ Onboard
    PROVE  overrides'.url = overrides.url /\ UNCHANGED up
<1>1. ASSUME NEW change \in Asked, Commit(change) PROVE overrides'.url = overrides.url
  BY <1>1, MergeTyped DEF Commit, ServiceTyped
<1> QED BY <1>1, HandlerKinds DEF stored

\* A new enricher shows what the cache has, and never says it is healthy.
LEMMA Activated ==
    ASSUME cache \in Url \cup {""}, NEW url \in Url \cup {""}, NEW token \in Token \cup {""}
    PROVE  /\ activate(url, token) \in Enricher
           /\ activate(url, token).url = url /\ activate(url, token).token = token
           /\ activate(url, token).state \in {"unknown", "degraded"}
           /\ activate(url, token).at = "metadata" /\ activate(url, token).todo = {}
<1>1. /\ loadCache.state \in {"unknown", "degraded"} /\ loadCache.metadata \in Url \cup {""}
  BY DEF loadCache
<1> HIDE DEF loadCache
<1> QED BY <1>1 DEF activate, Enricher

\* The integration that is switched off.
LEMMA OffTyped ==
    /\ Off \in Enricher /\ Off.state = "off" /\ Off.at = "idle" /\ Off.todo = {}
    /\ NoConfigure \in Conf /\ NoConfigure.at = "idle"
<1>1. Off \in Enricher /\ Off.state = "off" /\ Off.at = "idle" /\ Off.todo = {}
  BY DEF Off, Enricher
<1>2. NoConfigure \in Conf
  BY DEF NoConfigure, Conf
<1>3. NoConfigure.at = "idle"
  BY DEF NoConfigure
<1> QED BY <1>1, <1>2, <1>3

\* The end of a configuration.
LEMMA EndTyped ==
    ASSUME configure \in [Admin -> Conf], NEW a \in Admin, End(a)
    PROVE  /\ configure' \in [Admin -> Conf] /\ configure'[a].at = "idle"
           /\ \A b \in Admin : b # a => configure'[b] = configure[b]
  BY OffTyped DEF End

\* The next step of a configuration.
LEMMA MovesTyped ==
    ASSUME configure \in [Admin -> Conf], NEW a \in Admin, NEW p \in {"put", "activate"},
           configure' = [configure EXCEPT ![a].at = p]
    PROVE  /\ configure' \in [Admin -> Conf] /\ configure'[a].at = p
           /\ configure'[a].url = configure[a].url /\ configure'[a].token = configure[a].token
           /\ configure'[a].alone = configure[a].alone
           /\ \A b \in Admin : b # a => configure'[b] = configure[b]
<1> DEFINE r == [configure[a] EXCEPT !.at = p]
<1>1. configure' = [configure EXCEPT ![a] = r]
  OBVIOUS
<1>2. r \in Conf
  BY DEF Conf
<1>3. r.at = p /\ r.url = configure[a].url /\ r.token = configure[a].token
  BY DEF Conf
<1>4. r.alone = configure[a].alone
  BY DEF Conf
<1> HIDE DEF r
<1> QED BY <1>1, <1>2, <1>3, <1>4

\* A configuration begins: nobody is alone any more who was.
LEMMA BeginsTyped ==
    ASSUME IntegrationTyped, NEW a \in Admin, NEW url \in Url, NEW token \in Token \cup {""},
           Configure(a, url, token)
    PROVE  /\ configure' \in [Admin -> Conf] /\ configure'[a].at = "url"
           /\ configure'[a].url = url /\ (~configure'[a].given => configure'[a].token = secret)
           /\ configure'[a].alone => \A b \in Admin : configure[b].at = "idle"
           /\ \A b \in Admin : b # a => /\ configure'[b].at = configure[b].at
                                        /\ configure'[b].alone = FALSE
<1> DEFINE r == [at |-> "url", url |-> url, given |-> token # "",
                 token |-> IF token # "" THEN token ELSE secret, alone |-> InProgress = {}]
           q(b) == [configure[b] EXCEPT !.alone = FALSE]
<1>1. configure' = [b \in Admin |-> IF b = a THEN r ELSE q(b)]
  BY DEF Configure
<1>2. r \in Conf
  <2>1. (IF token # "" THEN token ELSE secret) \in Token \cup {""}
    BY DEF IntegrationTyped
  <2>2. (token # "") \in BOOLEAN /\ (InProgress = {}) \in BOOLEAN
    OBVIOUS
  <2>3. url \in Url \cup {""} /\ "url" \in {"idle", "url", "put", "activate"}
    OBVIOUS
  <2> QED BY <2>1, <2>2, <2>3 DEF Conf
<1>3. r.at = "url" /\ r.url = url /\ r.token = IF token # "" THEN token ELSE secret
  OBVIOUS
<1>4. r.given = (token # "") /\ r.alone = (InProgress = {})
  OBVIOUS
<1>5. ASSUME NEW b \in Admin
      PROVE  q(b) \in Conf /\ q(b).at = configure[b].at /\ q(b).alone = FALSE
  <2>1. configure[b] \in Conf
    BY DEF IntegrationTyped
  <2>2. q(b) \in Conf
    BY <2>1 DEF Conf
  <2>3. q(b).at = configure[b].at
    BY <2>1 DEF Conf
  <2>4. q(b).alone = FALSE
    BY <2>1 DEF Conf
  <2> QED BY <2>2, <2>3, <2>4
<1> HIDE DEF r, q
<1>6. configure'[a] = r /\ \A b \in Admin : b # a => configure'[b] = q(b)
  BY <1>1
<1>7. configure' \in [Admin -> Conf]
  BY <1>1, <1>2, <1>5
<1>8. ~configure'[a].given => configure'[a].token = secret
  BY <1>3, <1>4, <1>6
<1>9. configure'[a].alone => \A b \in Admin : configure[b].at = "idle"
  BY <1>4, <1>6 DEF InProgress
<1>10. configure'[a].at = "url" /\ configure'[a].url = url
  BY <1>3, <1>6
<1>11. \A b \in Admin : b # a => /\ configure'[b].at = configure[b].at
                                 /\ configure'[b].alone = FALSE
  BY <1>5, <1>6
<1> QED BY <1>7, <1>8, <1>9, <1>10, <1>11

\* The enricher has asked its server for metadata: if it says it is healthy it
\* shows the answer.
LEMMA SyncTyped ==
    ASSUME IntegrationTyped, syncMetadata
    PROVE  /\ enricher' \in Enricher /\ enricher'.at # "record" /\ enricher'.todo = enricher.todo
           /\ enricher'.url = enricher.url /\ enricher'.token = enricher.token
           /\ enricher.state # "off" /\ enricher'.state # "off" /\ enricher.at # "record"
           /\ enricher'.state = "healthy" => enricher'.metadata = enricher'.url
           /\ cache' \in Url \cup {""}
<1> DEFINE next == IF enricher.at = "metadata" THEN "deployments" ELSE "idle"
           h == [enricher EXCEPT !.at = next, !.state = "healthy", !.metadata = enricher.url]
           g == [enricher EXCEPT !.at = next, !.state = "degraded"]
<1>1. enricher \in Enricher /\ cache \in Url \cup {""} /\ next \in {"deployments", "idle"}
  BY DEF IntegrationTyped
<1>2. enricher.state # "off" /\ enricher.at # "record"
  BY DEF syncMetadata, Running
<1>3. (enricher' = h /\ cache' = enricher.url) \/ (enricher' = g /\ UNCHANGED cache)
  BY DEF syncMetadata
<1> HIDE DEF next
<1>4. /\ h \in Enricher /\ h.at = next /\ h.todo = enricher.todo /\ h.url = enricher.url
      /\ h.token = enricher.token /\ h.state = "healthy" /\ h.metadata = enricher.url
  BY <1>1 DEF Enricher
<1>5. /\ g \in Enricher /\ g.at = next /\ g.todo = enricher.todo /\ g.url = enricher.url
      /\ g.token = enricher.token /\ g.state = "degraded"
  BY <1>1 DEF Enricher
<1>6. enricher.url \in Url \cup {""}
  BY <1>1 DEF Enricher
<1> HIDE DEF h, g
<1> QED BY <1>1, <1>2, <1>3, <1>4, <1>5, <1>6

\* The enricher has asked its server for deployments.
LEMMA DeploymentsTyped ==
    ASSUME IntegrationTyped, Deployments
    PROVE  /\ enricher' \in Enricher /\ (enricher'.at = "record" <=> enricher'.todo # {})
           /\ enricher'.url = enricher.url /\ enricher'.token = enricher.token
           /\ enricher'.state = enricher.state /\ enricher'.metadata = enricher.metadata
           /\ \A t \in enricher'.todo : t[1] \in Deployment /\ t = <<t[1], server[t[1]]>>
<1> DEFINE values == {<<d, server[d]>> : d \in {e \in Deployment :
                          ServerOf[e] = enricher.url /\ server[e] # ""}}
           next(v) == [enricher EXCEPT !.at = IF v = {} THEN "idle" ELSE "record", !.todo = v]
<1>1. enricher \in Enricher
  BY DEF IntegrationTyped
<1>2. PICK answer \in {values, {}} : enricher' = next(answer)
  BY DEF Deployments
<1>3. ASSUME NEW t \in values
      PROVE  t \in Deployment \X Status /\ t[1] \in Deployment /\ t = <<t[1], server[t[1]]>>
  <2>1. PICK d \in Deployment : t = <<d, server[d]>> /\ server[d] # ""
    BY <1>3
  <2>2. server[d] \in Status
    BY <2>1 DEF IntegrationTyped
  <2>3. t[1] = d /\ t \in Deployment \X Status
    BY <2>1, <2>2
  <2> QED BY <2>1, <2>3
<1> HIDE DEF values
<1>4. \A t \in answer : t[1] \in Deployment /\ t = <<t[1], server[t[1]]>>
  BY <1>3
<1>5. answer \in SUBSET (Deployment \X Status)
  BY <1>3
<1> DEFINE at == IF answer = {} THEN "idle" ELSE "record"
<1>6. at \in {"idle", "record"} /\ (at = "record" <=> answer # {})
  OBVIOUS
<1>7. enricher' = [enricher EXCEPT !.at = at, !.todo = answer]
  BY <1>2
<1> HIDE DEF at, next
<1>8. /\ enricher' \in Enricher /\ enricher'.at = at /\ enricher'.todo = answer
      /\ enricher'.url = enricher.url /\ enricher'.token = enricher.token
      /\ enricher'.state = enricher.state /\ enricher'.metadata = enricher.metadata
  BY <1>1, <1>5, <1>6, <1>7 DEF Enricher
<1> QED BY <1>4, <1>6, <1>8

\* The enricher goes on with the rest of an answer.
LEMMA LeftTyped ==
    ASSUME IntegrationTyped, NEW todo \in SUBSET enricher.todo, Left(todo)
    PROVE  /\ enricher' \in Enricher /\ (enricher'.at = "record" <=> enricher'.todo # {})
           /\ enricher'.url = enricher.url /\ enricher'.token = enricher.token
           /\ enricher'.state = enricher.state /\ enricher'.metadata = enricher.metadata
           /\ enricher'.todo = todo
<1> DEFINE at == IF todo = {} THEN "idle" ELSE "record"
<1>1. enricher \in Enricher
  BY DEF IntegrationTyped
<1>2. todo \in SUBSET (Deployment \X Status)
  BY <1>1 DEF Enricher
<1>3. at \in {"idle", "record"} /\ (at = "record" <=> todo # {})
  OBVIOUS
<1>4. enricher' = [enricher EXCEPT !.todo = todo, !.at = at]
  BY DEF Left
<1> HIDE DEF at
<1>5. /\ enricher' \in Enricher /\ enricher'.at = at /\ enricher'.todo = todo
      /\ enricher'.url = enricher.url /\ enricher'.token = enricher.token
      /\ enricher'.state = enricher.state /\ enricher'.metadata = enricher.metadata
  BY <1>1, <1>2, <1>3, <1>4 DEF Enricher
<1> QED BY <1>3, <1>5

\* What a record leaves of the answer.
LEMMA RecordTyped ==
    ASSUME IntegrationTyped, NEW d \in Deployment, NEW status \in Status, Record(d, status)
    PROVE  /\ enricher' \in Enricher /\ (enricher'.at = "record" <=> enricher'.todo # {})
           /\ enricher'.url = enricher.url /\ enricher'.token = enricher.token
           /\ enricher'.state = enricher.state /\ enricher'.metadata = enricher.metadata
           /\ enricher'.todo \in {enricher.todo \ {<<d, status>>}, {}}
<1>1. Left(enricher.todo \ {<<d, status>>}) \/ Left({})
  BY DEF Record
<1>2. enricher.todo \ {<<d, status>>} \in SUBSET enricher.todo /\ {} \in SUBSET enricher.todo
  OBVIOUS
<1> QED BY <1>1, <1>2, LeftTyped

\* The enricher a start runs: the stored pair, or none.
LEMMA StartTyped ==
    ASSUME ServiceTyped, IntegrationTyped, Start
    PROVE  /\ enricher' \in Enricher /\ enricher'.at # "record" /\ enricher'.todo = {}
           /\ enricher'.state # "healthy"
           /\ enricher'.state # "off" => enricher'.url = overrides.url /\ enricher'.token = secret
<1>1. /\ overrides.url \in Url \cup {""} /\ secret \in Token \cup {""} /\ cache \in Url \cup {""}
  BY DEF ServiceTyped, Stored, IntegrationTyped
<1>2. enricher' = activate(overrides.url, secret) \/ enricher' = Off
  BY DEF Start
<1>3. CASE enricher' = activate(overrides.url, secret)
  <2>1. PICK url \in Url \cup {""}, token \in Token \cup {""} : url = overrides.url /\ token = secret
    BY <1>1
  <2>2. enricher' = activate(url, token)
    BY <1>3, <2>1
  <2>3. /\ activate(url, token) \in Enricher
        /\ activate(url, token).url = url /\ activate(url, token).token = token
        /\ activate(url, token).state \in {"unknown", "degraded"}
        /\ activate(url, token).at = "metadata" /\ activate(url, token).todo = {}
    BY <1>1, Activated
  <2> QED BY <2>1, <2>2, <2>3
<1>4. CASE enricher' = Off
  BY <1>4, OffTyped
<1> QED BY <1>2, <1>3, <1>4

\* The enricher that replaces the running one.
LEMMA ActivateTyped ==
    ASSUME IntegrationTyped, NEW a \in Admin, Activate(a)
    PROVE  /\ enricher' \in Enricher /\ enricher'.at # "record" /\ enricher'.todo = {}
           /\ enricher'.state # "healthy"
           /\ enricher'.url = configure[a].url /\ enricher'.token = configure[a].token
<1>1. /\ configure[a].url \in Url \cup {""} /\ configure[a].token \in Token \cup {""}
      /\ cache \in Url \cup {""}
  BY DEF IntegrationTyped, Conf
<1>2. PICK url \in Url \cup {""}, token \in Token \cup {""} :
          url = configure[a].url /\ token = configure[a].token
  BY <1>1
<1>3. enricher' = activate(url, token)
  BY <1>2 DEF Activate
<1>4. /\ activate(url, token) \in Enricher
      /\ activate(url, token).url = url /\ activate(url, token).token = token
      /\ activate(url, token).state \in {"unknown", "degraded"}
      /\ activate(url, token).at = "metadata" /\ activate(url, token).todo = {}
  BY <1>1, Activated
<1> QED BY <1>2, <1>3, <1>4

\* The integration keeps its types.
LEMMA IntegrationTypedStep ==
    ASSUME ServiceTyped, IntegrationTyped, [Next]_vars
    PROVE  IntegrationTyped'
<1> USE DEF rows
<1>1. ASSUME UNCHANGED coolifyVars PROVE IntegrationTyped'
  BY <1>1 DEF IntegrationTyped, coolifyVars
<1>2. CASE Start
  <2>1. enricher' \in Enricher /\ enricher'.at # "record" /\ enricher'.todo = {}
    BY <1>2, StartTyped
  <2>2. UNCHANGED <<secret, configure, cache, rows, server>>
    BY <1>2 DEF Start
  <2> QED BY <2>1, <2>2 DEF IntegrationTyped
<1>3. CASE Crash
  <2>1. /\ enricher' = Off /\ configure' = [a \in Admin |-> NoConfigure]
        /\ UNCHANGED <<secret, cache, rows, server>>
    BY <1>3 DEF Crash
  <2> QED BY <2>1, OffTyped DEF IntegrationTyped
<1>4. ASSUME NEW a \in Admin, Put(a)
      PROVE  IntegrationTyped'
  <2>1. ASSUME NEW url \in Url, NEW token \in Token \cup {""}, Configure(a, url, token)
        PROVE  IntegrationTyped'
    <3>1. configure' \in [Admin -> Conf]
      BY <2>1, BeginsTyped
    <3>2. UNCHANGED <<secret, enricher, cache, rows, server>>
      BY <2>1 DEF Configure
    <3> QED BY <3>1, <3>2 DEF IntegrationTyped
  <2>2. CASE CommitUrl(a)
    <3>1. \/ End(a)
          \/ configure' = [configure EXCEPT ![a].at = "put"]
          \/ configure' = [configure EXCEPT ![a].at = "activate"]
      BY <2>2 DEF CommitUrl
    <3>2. configure' \in [Admin -> Conf]
      BY <3>1, EndTyped, MovesTyped DEF IntegrationTyped
    <3>3. UNCHANGED <<secret, enricher, cache, rows, server>>
      BY <2>2 DEF CommitUrl
    <3> QED BY <3>2, <3>3 DEF IntegrationTyped
  <2>3. CASE PutToken(a)
    <3>1. End(a) \/ configure' = [configure EXCEPT ![a].at = "activate"]
      BY <2>3 DEF PutToken
    <3>2. configure' \in [Admin -> Conf]
      BY <3>1, EndTyped, MovesTyped DEF IntegrationTyped
    <3>3. secret' \in {secret, configure[a].token} /\ UNCHANGED <<enricher, cache, rows, server>>
      BY <2>3 DEF PutToken
    <3>4. configure[a].token \in Token \cup {""}
      BY DEF IntegrationTyped, Conf
    <3> QED BY <3>2, <3>3, <3>4 DEF IntegrationTyped
  <2>4. CASE Activate(a)
    <3>1. enricher' \in Enricher /\ enricher'.at # "record" /\ enricher'.todo = {}
      BY <2>4, ActivateTyped
    <3>2. UNCHANGED <<secret, cache, rows, server>> /\ End(a)
      BY <2>4 DEF Activate
    <3>3. configure' \in [Admin -> Conf]
      BY <3>2, EndTyped DEF IntegrationTyped
    <3> QED BY <3>1, <3>2, <3>3 DEF IntegrationTyped
  <2> QED BY <1>4, <2>1, <2>2, <2>3, <2>4 DEF Put
<1>5. CASE syncMetadata
  <2>1. /\ enricher' \in Enricher /\ enricher'.at # "record" /\ enricher'.todo = enricher.todo
        /\ enricher.at # "record" /\ cache' \in Url \cup {""}
    BY <1>5, SyncTyped
  <2>2. UNCHANGED <<secret, configure, rows, server>>
    BY <1>5 DEF syncMetadata
  <2> QED BY <2>1, <2>2 DEF IntegrationTyped
<1>6. CASE Deployments
  <2>1. enricher' \in Enricher /\ (enricher'.at = "record" <=> enricher'.todo # {})
    BY <1>6, DeploymentsTyped
  <2>2. UNCHANGED <<secret, configure, cache, rows, server>>
    BY <1>6 DEF Deployments
  <2> QED BY <2>1, <2>2 DEF IntegrationTyped
<1>7. ASSUME NEW d \in Deployment, Deploy(d)
      PROVE  IntegrationTyped'
  <2>1. \E s \in Status : server' = [server EXCEPT ![d] = s]
    BY <1>7 DEF Deploy, Status
  <2>2. server' \in [Deployment -> Status \cup {""}]
    BY <2>1 DEF IntegrationTyped
  <2>3. UNCHANGED <<secret, configure, enricher, cache, rows>>
    BY <1>7 DEF Deploy
  <2> QED BY <2>2, <2>3 DEF IntegrationTyped
<1>8. ASSUME NEW d \in Deployment, NEW status \in Status, Record(d, status)
      PROVE  IntegrationTyped'
  <2>1. enricher' \in Enricher /\ (enricher'.at = "record" <=> enricher'.todo # {})
    BY <1>8, RecordTyped
  <2>2. UNCHANGED <<secret, configure, cache, server>>
    BY <1>8 DEF Record
  <2>3. \/ UNCHANGED rows
        \/ /\ deployments' = [deployments EXCEPT ![d] = status]
           /\ seenRunning' = seenRunning \cup (IF status \in Terminal THEN {} ELSE {d})
           /\ events' = IF Ends(d, status) THEN events \cup {<<d, status>>} ELSE events
    BY <1>8 DEF Record
  <2>4. /\ deployments' \in [Deployment -> Status \cup {""}]
        /\ seenRunning' \subseteq Deployment
    BY <2>3 DEF IntegrationTyped
  <2>5. Ends(d, status) => <<d, status>> \in Deployment \X Terminal
    BY DEF Ends
  <2>6. events' \subseteq Deployment \X Terminal
    BY <2>3, <2>5 DEF IntegrationTyped
  <2> QED BY <2>1, <2>2, <2>4, <2>6 DEF IntegrationTyped
<1>9. CASE UNCHANGED vars
  BY <1>1, <1>9 DEF vars
<1> QED BY <1>1, <1>2, <1>3, <1>4, <1>5, <1>6, <1>7, <1>8, <1>9 DEF Next

-----------------------------------------------------------------------------
(* The server and the token that run are those that are stored.  While a     *)
(* configuration is between its commits they differ, so the invariant says   *)
(* what each step of one that met no other has stored already.               *)

\* Only a process that is up configures; one that is alone has met no other.
Alone ==
    \A a \in Admin : configure[a].at # "idle" =>
        /\ up
        /\ configure[a].alone => \A b \in Admin : b # a => configure[b].at = "idle"

\* What a configuration that is alone has stored.
Halfway ==
    \A a \in Admin : configure[a].alone =>
        /\ configure[a].at = "url" /\ ~configure[a].given => configure[a].token = secret
        /\ configure[a].at \in {"put", "activate"} => configure[a].url = overrides.url
        /\ configure[a].at = "activate" => configure[a].token = secret

\* The pair that runs is stored until a configuration commits its address.
PairRuns ==
    up /\ settled /\ enricher.state # "off" /\ (\A a \in Admin : configure[a].at \in {"idle", "url"})
        => enricher.url = overrides.url /\ enricher.token = secret

PairInd == Alone /\ Halfway /\ PairRuns

\* Configurations keep the pair together.
LEMMA PairStep ==
    ASSUME ServiceTyped, IntegrationTyped, PairInd, [Next]_vars
    PROVE  PairInd'
<1> USE DEF settingsVars, stored, bounds, rows
<1>1. configure \in [Admin -> Conf] /\ overrides \in Stored
  BY DEF IntegrationTyped, ServiceTyped
<1>2. ASSUME UNCHANGED <<up, configure, secret, settled>>, overrides'.url = overrides.url,
             enricher'.url = enricher.url, enricher'.token = enricher.token,
             enricher'.state # "off" => enricher.state # "off"
      PROVE  PairInd'
  <2>1. Alone' /\ Halfway'
    BY <1>2 DEF PairInd, Alone, Halfway
  <2>2. PairRuns'
    BY <1>2 DEF PairInd, PairRuns
  <2> QED BY <2>1, <2>2 DEF PairInd
<1>3. CASE (Serve \/ Onboard) /\ UNCHANGED coolifyVars
  BY <1>2, <1>3, UrlKept DEF coolifyVars
<1>4. CASE Start
  <2>1. /\ ~up /\ settled' = TRUE /\ UNCHANGED <<overrides, secret, configure>>
    BY <1>4 DEF Start, Initialize
  <2>2. \A a \in Admin : configure[a].at = "idle"
    BY <2>1 DEF PairInd, Alone
  <2>3. enricher'.state # "off" => enricher'.url = overrides.url /\ enricher'.token = secret
    BY <1>4, StartTyped
  <2>4. Alone' /\ Halfway'
    BY <2>1, <2>2 DEF Alone, Halfway
  <2>5. PairRuns'
    BY <2>1, <2>3 DEF PairRuns
  <2> QED BY <2>4, <2>5 DEF PairInd
<1>5. CASE Crash
  <2>1. /\ enricher' = Off /\ \A a \in Admin : configure'[a].at = "idle"
    BY <1>5, OffTyped DEF Crash
  <2>2. Alone' /\ Halfway'
    BY <2>1 DEF Alone, Halfway
  <2>3. PairRuns'
    BY <2>1, OffTyped DEF PairRuns
  <2> QED BY <2>2, <2>3 DEF PairInd
<1>6. ASSUME NEW a \in Admin, NEW url \in Url, NEW token \in Token \cup {""},
             Configure(a, url, token)
      PROVE  PairInd'
  <2>1. /\ configure'[a].at = "url"
        /\ ~configure'[a].given => configure'[a].token = secret
        /\ configure'[a].alone => \A b \in Admin : configure[b].at = "idle"
        /\ \A b \in Admin : b # a => /\ configure'[b].at = configure[b].at
                                     /\ configure'[b].alone = FALSE
    BY <1>6, BeginsTyped
  <2>2. up /\ configure[a].at = "idle" /\ UNCHANGED <<up, overrides, secret, enricher, settled>>
    BY <1>6 DEF Configure
  <2>3. Alone'
    BY <2>1, <2>2 DEF PairInd, Alone
  <2>4. Halfway'
    BY <2>1, <2>2 DEF Halfway
  <2>5. PairRuns'
    BY <2>1, <2>2 DEF PairInd, PairRuns
  <2> QED BY <2>3, <2>4, <2>5 DEF PairInd
<1>7. ASSUME NEW a \in Admin, CommitUrl(a)
      PROVE  PairInd'
  <2>1. /\ configure[a].at = "url" /\ up /\ UNCHANGED <<up, secret, enricher, settled>>
        /\ \A b \in Admin : configure[b].alone /\ b # a => configure[b].at = "idle"
    BY <1>7 DEF CommitUrl, StoreUrl, PairInd, Alone
  <2>2. ASSUME NEW p \in {"put", "activate"}, configure' = [configure EXCEPT ![a].at = p],
               p = "activate" => ~configure[a].given, StoreUrl(configure[a].url)
        PROVE  PairInd'
    <3>1. /\ configure'[a].at = p
          /\ configure'[a].url = configure[a].url /\ configure'[a].token = configure[a].token
          /\ configure'[a].alone = configure[a].alone
          /\ \A b \in Admin : b # a => configure'[b] = configure[b]
      BY <1>1, <2>2, MovesTyped
    <3>2. overrides'.url = configure[a].url
      BY <1>1, <2>2 DEF StoreUrl, Stored
    <3>3. Alone'
      BY <2>1, <3>1 DEF PairInd, Alone
    <3>4. Halfway'
      <4>1. p = "activate" /\ configure[a].alone => configure[a].token = secret
        BY <2>1, <2>2 DEF PairInd, Halfway
      <4> QED BY <2>1, <3>1, <3>2, <4>1 DEF PairInd, Halfway
    <3>5. PairRuns'
      BY <3>1 DEF PairRuns
    <3> QED BY <3>3, <3>4, <3>5 DEF PairInd
  <2>3. ASSUME End(a), UNCHANGED overrides
        PROVE  PairInd'
    <3>1. configure'[a].at = "idle" /\ \A b \in Admin : b # a => configure'[b] = configure[b]
      BY <1>1, <2>3, EndTyped
    <3>2. Alone' /\ Halfway'
      BY <2>1, <2>3, <3>1 DEF PairInd, Alone, Halfway
    <3>3. PairRuns'
      BY <2>1, <2>3, <3>1 DEF PairInd, PairRuns
    <3> QED BY <3>2, <3>3 DEF PairInd
  <2>4. \/ End(a) /\ UNCHANGED overrides
        \/ StoreUrl(configure[a].url) /\ configure' = [configure EXCEPT ![a].at =
                                              IF configure[a].given THEN "put" ELSE "activate"]
    BY <1>7 DEF CommitUrl
  <2>5. ASSUME StoreUrl(configure[a].url), configure' = [configure EXCEPT ![a].at =
                                              IF configure[a].given THEN "put" ELSE "activate"]
        PROVE  PairInd'
    <3>1. CASE configure[a].given
      BY <2>2, <2>5, <3>1
    <3>2. CASE ~configure[a].given
      BY <2>2, <2>5, <3>2
    <3> QED BY <3>1, <3>2
  <2> QED BY <2>3, <2>4, <2>5
<1>8. ASSUME NEW a \in Admin, PutToken(a)
      PROVE  PairInd'
  <2>1. /\ configure[a].at = "put" /\ up /\ UNCHANGED <<up, overrides, enricher>>
        /\ \A b \in Admin : configure[b].alone /\ b # a => configure[b].at = "idle"
    BY <1>8 DEF PutToken, PairInd, Alone
  <2>2. ASSUME secret' = configure[a].token, configure' = [configure EXCEPT ![a].at = "activate"]
        PROVE  PairInd'
    <3>1. /\ configure'[a].at = "activate"
          /\ configure'[a].url = configure[a].url /\ configure'[a].token = configure[a].token
          /\ configure'[a].alone = configure[a].alone
          /\ \A b \in Admin : b # a => configure'[b] = configure[b]
      BY <1>1, <2>2, MovesTyped
    <3>2. Alone'
      BY <2>1, <3>1 DEF PairInd, Alone
    <3>3. Halfway'
      BY <2>1, <2>2, <3>1 DEF PairInd, Halfway
    <3>4. PairRuns'
      BY <3>1 DEF PairRuns
    <3> QED BY <3>2, <3>3, <3>4 DEF PairInd
  <2>3. ASSUME End(a), settled' = FALSE, UNCHANGED secret
        PROVE  PairInd'
    <3>1. configure'[a].at = "idle" /\ \A b \in Admin : b # a => configure'[b] = configure[b]
      BY <1>1, <2>3, EndTyped
    <3>2. Alone' /\ Halfway'
      BY <2>1, <2>3, <3>1 DEF PairInd, Alone, Halfway
    <3>3. PairRuns'
      BY <2>3 DEF PairRuns
    <3> QED BY <3>2, <3>3 DEF PairInd
  <2> QED BY <1>8, <2>2, <2>3 DEF PutToken
<1>9. ASSUME NEW a \in Admin, Activate(a)
      PROVE  PairInd'
  <2>1. /\ configure[a].at = "activate" /\ UNCHANGED <<up, overrides, secret>>
        /\ settled' = configure[a].alone /\ End(a)
    BY <1>9 DEF Activate
  <2>2. enricher'.url = configure[a].url /\ enricher'.token = configure[a].token
    BY <1>9, ActivateTyped
  <2>3. configure'[a].at = "idle" /\ \A b \in Admin : b # a => configure'[b] = configure[b]
    BY <1>1, <2>1, EndTyped
  <2>4. Alone' /\ Halfway'
    BY <2>1, <2>3 DEF PairInd, Alone, Halfway
  <2>5. PairRuns'
    BY <2>1, <2>2 DEF PairInd, Halfway, PairRuns
  <2> QED BY <2>4, <2>5 DEF PairInd
<1>10. CASE syncMetadata
  <2>1. /\ enricher'.url = enricher.url /\ enricher'.token = enricher.token
        /\ enricher.state # "off"
    BY <1>10, SyncTyped
  <2> QED BY <1>2, <1>10, <2>1 DEF syncMetadata
<1>11. CASE Deployments
  <2>1. /\ enricher'.url = enricher.url /\ enricher'.token = enricher.token
        /\ enricher'.state = enricher.state
    BY <1>11, DeploymentsTyped
  <2> QED BY <1>2, <1>11, <2>1 DEF Deployments
<1>12. ASSUME NEW d \in Deployment, Deploy(d)
       PROVE  PairInd'
  BY <1>2, <1>12 DEF Deploy
<1>13. ASSUME NEW d \in Deployment, NEW status \in Status, Record(d, status)
       PROVE  PairInd'
  <2>1. /\ enricher'.url = enricher.url /\ enricher'.token = enricher.token
        /\ enricher'.state = enricher.state
    BY <1>13, RecordTyped
  <2> QED BY <1>2, <1>13, <2>1 DEF Record
<1>14. CASE UNCHANGED vars
  BY <1>2, <1>14 DEF vars, coolifyVars
<1>15. ASSUME NEW a \in Admin, Put(a) PROVE PairInd'
  BY <1>6, <1>7, <1>8, <1>9, <1>15 DEF Put
<1> QED BY <1>3, <1>4, <1>5, <1>10, <1>11, <1>12, <1>13, <1>14, <1>15 DEF Next

\* An ended deployment is recorded as its server has it, and what is still to be
\* recorded agrees with it.
DeploymentInd ==
    /\ \A d \in Deployment : deployments[d] \in Terminal => server[d] = deployments[d]
    /\ \A t \in enricher.todo : /\ t[2] \in Terminal => server[t[1]] = t[2]
                                /\ deployments[t[1]] \in Terminal => t[2] = deployments[t[1]]
    /\ \A t, u \in enricher.todo : t[1] = u[1] => t = u
    /\ \A d \in Deployment : deployments[d] = "running" => d \in seenRunning
    /\ \A d \in seenRunning : deployments[d] # ""

\* A step that records nothing and asks for nothing keeps what is recorded.
LEMMA RecordedKept ==
    ASSUME DeploymentInd, DeploymentEvents, UNCHANGED <<rows, server>>,
           enricher'.todo \subseteq enricher.todo
    PROVE  DeploymentInd' /\ DeploymentEvents'
  BY DEF DeploymentInd, DeploymentEvents, rows

\* A deployment is recorded, with its event if it ends.
LEMMA Recorded ==
    ASSUME IntegrationTyped, DeploymentInd, DeploymentEvents,
           NEW d \in Deployment, NEW status \in Status, <<d, status>> \in enricher.todo,
           deployments' = [deployments EXCEPT ![d] = status],
           seenRunning' = seenRunning \cup (IF status \in Terminal THEN {} ELSE {d}),
           events' = IF Ends(d, status) THEN events \cup {<<d, status>>} ELSE events,
           UNCHANGED server, enricher'.todo = enricher.todo \ {<<d, status>>}
    PROVE  DeploymentInd' /\ DeploymentEvents'
<1>1. /\ deployments'[d] = status /\ \A e \in Deployment : e # d => deployments'[e] = deployments[e]
  BY DEF IntegrationTyped
<1>2. /\ status \in Terminal => server[d] = status
      /\ deployments[d] \in Terminal => status = deployments[d]
  BY DEF DeploymentInd
<1>3. deployments[d] \in {"", "running"} \cup Terminal /\ (status = "running" \/ status \in Terminal)
  BY DEF IntegrationTyped, Status
<1>4. "running" \notin Terminal /\ "" \notin Terminal
  BY DEF Terminal
<1>5. /\ \A e \in Deployment : deployments'[e] \in Terminal => server'[e] = deployments'[e]
      /\ \A e \in Deployment : deployments'[e] = "running" => e \in seenRunning'
  <2>1. \A e \in Deployment : deployments'[e] \in Terminal => server'[e] = deployments'[e]
    BY <1>1, <1>2 DEF DeploymentInd
  <2>2. status = "running" => d \in seenRunning'
    BY <1>4
  <2>3. seenRunning \subseteq seenRunning'
    OBVIOUS
  <2>4. \A e \in Deployment : deployments'[e] = "running" => e \in seenRunning'
    BY <1>1, <2>2, <2>3 DEF DeploymentInd
  <2> QED BY <2>1, <2>4
<1>6. \A e \in seenRunning' : deployments'[e] # ""
  <2>1. status # ""
    BY <1>3, <1>4
  <2>2. seenRunning \subseteq Deployment
    BY DEF IntegrationTyped
  <2> QED BY <1>1, <2>1, <2>2 DEF DeploymentInd
<1>7. ASSUME NEW t \in enricher'.todo
      PROVE  /\ t[2] \in Terminal => server'[t[1]] = t[2]
             /\ deployments'[t[1]] \in Terminal => t[2] = deployments'[t[1]]
  <2>1. t \in enricher.todo /\ t # <<d, status>> /\ t[1] \in Deployment
    <3>1. enricher.todo \subseteq Deployment \X Status
      BY DEF IntegrationTyped, Enricher
    <3>2. t \in enricher.todo /\ t # <<d, status>>
      OBVIOUS
    <3> QED BY <3>1, <3>2
  <2>2. t[1] # d
    BY <2>1 DEF DeploymentInd
  <2> QED BY <1>1, <2>1, <2>2 DEF DeploymentInd
<1>8. \A t, u \in enricher'.todo : t[1] = u[1] => t = u
  BY DEF DeploymentInd
<1>9. DeploymentInd'
  BY <1>5, <1>6, <1>7, <1>8 DEF DeploymentInd
<1>10. ASSUME NEW e \in seenRunning', deployments'[e] \in Terminal
       PROVE  <<e, deployments'[e]>> \in events'
  <2>1. CASE e # d
    <3>1. e \in seenRunning /\ deployments'[e] = deployments[e]
      BY <1>1, <2>1 DEF IntegrationTyped
    <3> QED BY <1>10, <3>1 DEF DeploymentEvents
  <2>2. CASE e = d
    <3>1. deployments'[e] = status /\ status \in Terminal /\ d \in seenRunning
      BY <1>1, <1>10, <2>2
    <3>2. deployments[d] # ""
      BY <3>1 DEF DeploymentInd
    <3>3. CASE deployments[d] = status
      BY <2>2, <3>1, <3>3 DEF DeploymentEvents
    <3>4. CASE deployments[d] # status
      <4>1. Ends(d, status)
        BY <3>1, <3>2, <3>4 DEF Ends
      <4> QED BY <2>2, <3>1, <4>1
    <3> QED BY <3>3, <3>4
  <2> QED BY <2>1, <2>2
<1>11. ASSUME NEW e \in events'
       PROVE  e[1] \in seenRunning'
  <2>1. CASE e \in events
    BY <2>1 DEF DeploymentEvents
  <2>2. CASE e \notin events
    <3>1. e = <<d, status>> /\ deployments[d] \notin {"", status} /\ status \in Terminal
      BY <2>2 DEF Ends
    <3>2. deployments[d] = "running"
      BY <1>2, <1>3, <3>1
    <3> QED BY <3>1, <3>2 DEF DeploymentInd
  <2> QED BY <2>1, <2>2
<1> QED BY <1>9, <1>10, <1>11 DEF DeploymentEvents

\* Deployments are recorded as they are, and their ends have events.
LEMMA DeploymentStep ==
    ASSUME ServiceTyped, IntegrationTyped, DeploymentInd, DeploymentEvents, [Next]_vars
    PROVE  DeploymentInd' /\ DeploymentEvents'
<1> USE DEF rows
<1>1. CASE UNCHANGED coolifyVars
  BY <1>1, RecordedKept DEF coolifyVars
<1>2. CASE Start
  <2>1. enricher'.todo = {}
    BY <1>2, StartTyped
  <2> QED BY <1>2, <2>1, RecordedKept DEF Start
<1>3. CASE Crash
  <2>1. enricher'.todo = {}
    BY <1>3, OffTyped DEF Crash
  <2> QED BY <1>3, <2>1, RecordedKept DEF Crash
<1>4. ASSUME NEW a \in Admin, Put(a)
      PROVE  DeploymentInd' /\ DeploymentEvents'
  <2>1. UNCHANGED <<rows, server>>
    BY <1>4 DEF Put, Configure, CommitUrl, PutToken, Activate
  <2>2. Activate(a) \/ UNCHANGED enricher
    BY <1>4 DEF Put, Configure, CommitUrl, PutToken
  <2>3. enricher'.todo \subseteq enricher.todo
    BY <2>2, ActivateTyped
  <2> QED BY <2>1, <2>3, RecordedKept
<1>5. CASE syncMetadata
  <2>1. enricher'.todo = enricher.todo
    BY <1>5, SyncTyped
  <2> QED BY <1>5, <2>1, RecordedKept DEF syncMetadata
<1>6. CASE Deployments
  <2>1. \A t \in enricher'.todo : t[1] \in Deployment /\ t = <<t[1], server[t[1]]>>
    BY <1>6, DeploymentsTyped
  <2>2. UNCHANGED <<rows, server>>
    BY <1>6 DEF Deployments
  <2>3. \A t \in enricher'.todo : t[2] = server[t[1]]
    BY <2>1
  <2>4. \A t, u \in enricher'.todo : t[1] = u[1] => t = u
    BY <2>1
  <2> QED BY <2>1, <2>2, <2>3, <2>4 DEF DeploymentInd, DeploymentEvents
<1>7. ASSUME NEW d \in Deployment, Deploy(d)
      PROVE  DeploymentInd' /\ DeploymentEvents'
  <2>1. /\ server[d] \notin Terminal /\ UNCHANGED <<rows, enricher>>
    BY <1>7 DEF Deploy, Terminal
  <2>2. \A e \in Deployment : e # d => server'[e] = server[e]
    BY <1>7 DEF Deploy, IntegrationTyped
  <2>3. \A t \in enricher.todo : t[1] \in Deployment
    BY DEF IntegrationTyped, Enricher
  <2> QED BY <2>1, <2>2, <2>3 DEF DeploymentInd, DeploymentEvents
<1>8. ASSUME NEW d \in Deployment, NEW status \in Status, Record(d, status)
      PROVE  DeploymentInd' /\ DeploymentEvents'
  <2>1. <<d, status>> \in enricher.todo /\ UNCHANGED server
    BY <1>8 DEF Record
  <2>2. \/ UNCHANGED rows
        \/ /\ deployments' = [deployments EXCEPT ![d] = status]
           /\ seenRunning' = seenRunning \cup (IF status \in Terminal THEN {} ELSE {d})
           /\ events' = IF Ends(d, status) THEN events \cup {<<d, status>>} ELSE events
           /\ Left(enricher.todo \ {<<d, status>>})
    BY <1>8 DEF Record
  <2>3. enricher'.todo \subseteq enricher.todo
    BY <1>8, RecordTyped
  <2>4. Left(enricher.todo \ {<<d, status>>}) => enricher'.todo = enricher.todo \ {<<d, status>>}
    <3>1. enricher.todo \ {<<d, status>>} \in SUBSET enricher.todo
      OBVIOUS
    <3> QED BY <3>1, LeftTyped
  <2> QED BY <2>1, <2>2, <2>3, <2>4, RecordedKept, Recorded
<1>9. UNCHANGED vars => UNCHANGED coolifyVars
  BY DEF vars
<1> QED BY <1>1, <1>2, <1>3, <1>4, <1>5, <1>6, <1>7, <1>8, <1>9 DEF Next

\* An enricher that says it is healthy shows its own server's metadata.
LEMMA MetadataStep ==
    ASSUME ServiceTyped, IntegrationTyped, OwnMetadata, [Next]_vars
    PROVE  OwnMetadata'
<1>1. CASE UNCHANGED enricher
  BY <1>1 DEF OwnMetadata
<1>2. CASE Start
  BY <1>2, StartTyped DEF OwnMetadata
<1>3. CASE Crash
  BY <1>3, OffTyped DEF OwnMetadata, Crash
<1>4. ASSUME NEW a \in Admin, Put(a)
      PROVE  OwnMetadata'
  <2>1. Activate(a) \/ UNCHANGED enricher
    BY <1>4 DEF Put, Configure, CommitUrl, PutToken
  <2> QED BY <1>1, <2>1, ActivateTyped DEF OwnMetadata
<1>5. CASE syncMetadata
  BY <1>5, SyncTyped DEF OwnMetadata
<1>6. CASE Deployments
  BY <1>6, DeploymentsTyped DEF OwnMetadata
<1>7. ASSUME NEW d \in Deployment, NEW status \in Status, Record(d, status)
      PROVE  OwnMetadata'
  BY <1>7, RecordTyped DEF OwnMetadata
<1>8. ASSUME NEW d \in Deployment, Deploy(d) PROVE OwnMetadata'
  BY <1>1, <1>8 DEF Deploy
<1>9. UNCHANGED vars \/ UNCHANGED coolifyVars => UNCHANGED enricher
  BY DEF vars, coolifyVars
<1> QED BY <1>1, <1>2, <1>3, <1>4, <1>5, <1>6, <1>7, <1>8, <1>9 DEF Next

\* The integration before the first configuration.
LEMMA IntegrationInit ==
    ASSUME Init
    PROVE  IntegrationTyped /\ PairInd /\ DeploymentInd /\ DeploymentEvents /\ OwnMetadata
<1>1. /\ secret = "" /\ cache = "" /\ enricher = Off /\ configure = [a \in Admin |-> NoConfigure]
      /\ deployments = [d \in Deployment |-> ""] /\ server = [d \in Deployment |-> ""]
      /\ events = {} /\ seenRunning = {}
  BY DEF Init
<1>2. \A a \in Admin : configure[a].at = "idle"
  BY <1>1, OffTyped
<1>3. IntegrationTyped
  BY <1>1, OffTyped DEF IntegrationTyped
<1>4. PairInd
  BY <1>1, <1>2, OffTyped DEF PairInd, Alone, Halfway, PairRuns
<1>5. DeploymentInd /\ DeploymentEvents
  BY <1>1, OffTyped DEF DeploymentInd, DeploymentEvents, Terminal
<1>6. OwnMetadata
  BY <1>1, OffTyped DEF OwnMetadata
<1> QED BY <1>3, <1>4, <1>5, <1>6

-----------------------------------------------------------------------------
\* What is stored starts the next process and is in force in this one, and
\* onboarding ends in order (settings/store.go: Initialize, Patch,
\* SetRetentionPreset; onboarding/service.go), whatever Coolify stores in the same
\* table and whichever requests fail or meet.
THEOREM SettingsHold == Spec => []SettingsInv
<1> DEFINE Inv == /\ ServiceTyped /\ IntegrationTyped /\ AuditRowsTyped /\ AuditTellsAll
                  /\ Counted /\ OnboardingInd /\ StoredLoads /\ AppliedInForce /\ up \in BOOLEAN
<1>1. Init => Inv
  <2>1. Init => up \in BOOLEAN
    BY DEF Init, SettingsInit
  <2> QED BY <2>1, ServiceInit, IntegrationInit
<1>2. Inv /\ [Next]_vars => Inv'
  <2> SUFFICES ASSUME Inv, [Next]_vars PROVE Inv'
    OBVIOUS
  <2>1. SettingsNext
    BY SettingsSide
  <2>2. up' \in BOOLEAN
    BY <2>1, StoredKinds DEF Initialize, Restart, StoreUrl
  <2>3. ServiceTyped' /\ IntegrationTyped'
    BY <2>1, ServiceTypedStep, IntegrationTypedStep
  <2>4. AuditRowsTyped' /\ AuditTellsAll'
    BY <2>1, AuditStep
  <2>5. Counted'
    BY <2>1, CountedStep
  <2>6. OnboardingInd'
    BY <2>1, OnboardingStep
  <2>7. StoredLoads' /\ AppliedInForce'
    BY <2>1, ForceStep
  <2> QED BY <2>2, <2>3, <2>4, <2>5, <2>6, <2>7
<1>3. Inv => SettingsInv
  <2> SUFFICES ASSUME Inv PROVE SettingsInv
    OBVIOUS
  <2>1. revision \in 0..MaxRequests
    <3>1. Cardinality(Pending) \in Nat
      BY FS_CardinalityType DEF Counted
    <3>2. /\ revision \in Nat /\ requests \in Nat /\ requests =< MaxRequests
          /\ revision + Cardinality(Pending) =< requests
      BY DEF ServiceTyped, Counted
    <3> QED BY <3>1, <3>2, Limits
  <2>2. DOMAIN overrides = Key
    BY Keys DEF ServiceTyped, Stored
  <2>3. \A c \in Client : /\ client[c].at \in {"idle", "snapshot", "ready", "insert", "complete"}
                          /\ client[c].tries \in 0..(MaxTries - 1)
    BY DEF ServiceTyped, Session
  <2>4. SettingsTypeOK
    BY <2>1, <2>2, <2>3 DEF SettingsTypeOK, AuditRowsTyped, OnboardingInd, OnboardingRow
  <2>5. TypeOK
    <3>1. /\ {secret, enricher.token} \subseteq Token \cup {""}
          /\ {cache, enricher.metadata, enricher.url} \subseteq Url \cup {""}
          /\ enricher.state \in {"off", "unknown", "degraded", "healthy"}
          /\ enricher.at \in {"idle", "metadata", "deployments", "record"}
      BY DEF IntegrationTyped, Enricher
    <3>2. \A a \in Admin : configure[a].at \in {"idle", "url", "put", "activate"}
      BY DEF IntegrationTyped, Conf
    <3> QED BY <2>4, <3>1, <3>2 DEF TypeOK, IntegrationTyped
  <2> QED BY <2>5 DEF SettingsInv, OnboardingInd
<1> QED BY <1>1, <1>2, <1>3, PTL DEF Spec

\* The integration is of one piece (coolify/integration.go: Configure, activate;
\* enrichment.go: syncMetadata, syncDeployments): whatever crashes, fails or
\* configures at the same time, the server and the token of a configuration that met
\* no other are the stored ones, what a healthy enricher shows is its own server's,
\* and every end of a deployment seen before it has its event.
THEOREM IntegrationHolds == Spec => []IntegrationInv
<1> DEFINE Inv == /\ ServiceTyped /\ IntegrationTyped /\ PairInd /\ DeploymentInd
                  /\ DeploymentEvents /\ OwnMetadata
<1>1. Init => Inv
  BY ServiceInit, IntegrationInit
<1>2. Inv /\ [Next]_vars => Inv'
  BY SettingsSide, ServiceTypedStep, IntegrationTypedStep, PairStep, DeploymentStep, MetadataStep
<1>3. Inv => IntegrationInv
  <2>1. PairInd => PairKept
    BY DEF PairInd, PairRuns, PairKept, InProgress
  <2> QED BY <2>1 DEF IntegrationInv
<1> QED BY <1>1, <1>2, <1>3, PTL DEF Spec

=============================================================================
