------------------------------- MODULE Coolify -------------------------------
(***************************************************************************)
(* The Coolify integration (internal/coolify/integration.go and            *)
(* enrichment.go), over the settings service, with which it shares a       *)
(* table: an administrator gives it the address of a server and a token;   *)
(* an enricher keeps what the server knows of resources and records its    *)
(* deployments, and stores an event when one ends.                         *)
(*                                                                         *)
(* The environment configures nothing (it would be authoritative, and      *)
(* Configure refused), and the key that seals the token is there.          *)
(* Metadata is the address it came from.  A replaced enricher is gone: its *)
(* context is cancelled, so that it writes nothing more.                   *)
(***************************************************************************)
EXTENDS Settings

CONSTANTS
    Admin,               \* configuration requests served at the same time
    Token,
    Deployment,
    ServerOf             \* [Deployment -> the server it is on]

VARIABLES
    secret,      \* the sealed token, or ""
    configure,   \* [Admin -> where its Configure is]
    enricher,    \* the running Enricher
    cache,       \* the coolify_enrichment_cache row, or ""
    deployments, \* [Deployment -> last_status in coolify_deployments, or ""]
    events,      \* deployment events: <<deployment, status>>
    server,      \* [Deployment -> its status on its server, or ""]
    seenRunning, \* history: deployments that were recorded before they ended
    settled      \* history: the running pair was configured in one piece

rows == <<deployments, events, seenRunning>>
coolifyVars == <<secret, configure, enricher, cache, rows, server, settled>>
vars == <<settingsVars, coolifyVars>>

Url == Https \cup Http

\* A deployment is on a server that can be configured.
ASSUME CoolifyAssumption == ServerOf \in [Deployment -> Url] /\ "" \notin Url \cup Token

Terminal == {"finished", "failed"}
Status == {"running"} \cup Terminal
NoConfigure == [at |-> "idle", url |-> "", token |-> "", given |-> FALSE, alone |-> TRUE]
Off == [url |-> "", token |-> "", state |-> "off", metadata |-> "", at |-> "idle", todo |-> {}]
InProgress == {a \in Admin : configure[a].at # "idle"}
End(a) == configure' = [configure EXCEPT ![a] = NoConfigure]

-----------------------------------------------------------------------------
(* Starting and configuring. *)

\* Mutant: the cache counts as a fresh answer of the server.
loadCacheFresh ==
    IF cache = "" THEN [state |-> "unknown", metadata |-> ""]
                  ELSE [state |-> "healthy", metadata |-> cache]

loadCache ==
    IF cache = "" THEN [state |-> "unknown", metadata |-> ""]
                  ELSE [state |-> "degraded", metadata |-> cache]

\* activate: a new enricher loads the cache and begins with the metadata.
activate(url, token) ==
    [url |-> url, token |-> token, state |-> loadCache.state,
     metadata |-> loadCache.metadata, at |-> "metadata", todo |-> {}]

\* Start, after the settings are initialized and before requests are served.
Start ==
    /\ Initialize
    /\ enricher' = IF overrides.url # "" /\ secret # ""
                   THEN activate(overrides.url, secret) ELSE Off
    /\ settled' = TRUE
    /\ UNCHANGED <<secret, configure, cache, rows, server>>

\* The process ends wherever its goroutines are, and starts again.
Crash ==
    /\ Restart
    /\ enricher' = Off
    /\ configure' = [a \in Admin |-> NoConfigure]
    /\ UNCHANGED <<secret, cache, rows, server, settled>>

\* Configure with an acceptable address, and a token unless there is one.
Configure(a, url, token) ==
    /\ up
    /\ Request
    /\ configure[a].at = "idle"
    /\ token # "" \/ secret # ""
    /\ url \in Https \/ (AllowInsecureHTTP /\ url \in Http)
    /\ configure' = [b \in Admin |->
          IF b = a THEN [at |-> "url", url |-> url, given |-> token # "",
                         token |-> IF token # "" THEN token ELSE secret,
                         alone |-> InProgress = {}]
                   ELSE [configure[b] EXCEPT !.alone = FALSE]]
    /\ UNCHANGED <<up, stored, onboarding, current, applied, client, faults, restarts>>
    /\ UNCHANGED <<secret, enricher, cache, rows, server, settled>>

\* The address is committed,
CommitUrl(a) ==
    /\ configure[a].at = "url"
    /\ \/ /\ StoreUrl(configure[a].url)
          /\ configure' = [configure EXCEPT ![a].at =
                               IF configure[a].given THEN "put" ELSE "activate"]
          /\ UNCHANGED faults
       \/ /\ Fault /\ End(a)
          /\ UNCHANGED <<up, stored, onboarding, current, applied, client, requests, restarts>>
    /\ UNCHANGED <<secret, enricher, cache, rows, server, settled>>

\* Mutant: the token stays in memory.
PutNothing(a) ==
    /\ configure[a].at = "put"
    /\ configure' = [configure EXCEPT ![a].at = "activate"]
    /\ UNCHANGED <<settingsVars, secret, enricher, cache, rows, server, settled>>

\* then the token, on its own,
PutToken(a) ==
    /\ configure[a].at = "put"
    /\ \/ /\ secret' = configure[a].token
          /\ configure' = [configure EXCEPT ![a].at = "activate"]
          /\ UNCHANGED <<faults, settled>>
       \/ Fault /\ End(a) /\ settled' = FALSE /\ UNCHANGED secret
    /\ UNCHANGED <<up, stored, onboarding, current, applied, client, requests, restarts>>
    /\ UNCHANGED <<enricher, cache, rows, server>>

\* and an enricher replaces the running one.
Activate(a) ==
    /\ configure[a].at = "activate"
    /\ enricher' = activate(configure[a].url, configure[a].token)
    /\ settled' = configure[a].alone
    /\ End(a)
    /\ UNCHANGED <<settingsVars, secret, cache, rows, server>>

-----------------------------------------------------------------------------
(* The enricher's goroutine. *)

Running == up /\ enricher.state # "off"

\* syncMetadata: once at the start, then on a ticker; the answer is cached in the
\* transaction before it is used.
syncMetadata ==
    /\ Running
    /\ enricher.at \in {"metadata", "idle"}
    /\ LET next == IF enricher.at = "metadata" THEN "deployments" ELSE "idle" IN
       \/ /\ cache' = enricher.url
          /\ enricher' = [enricher EXCEPT !.at = next, !.state = "healthy",
                                          !.metadata = enricher.url]
       \/ /\ enricher' = [enricher EXCEPT !.at = next, !.state = "degraded"]
          /\ UNCHANGED cache
    /\ UNCHANGED <<settingsVars, secret, configure, rows, server, settled>>

\* syncDeployments asks the server,
Deployments ==
    /\ Running
    /\ enricher.at \in {"deployments", "idle"}
    /\ LET values == {<<d, server[d]>> : d \in {e \in Deployment :
                          ServerOf[e] = enricher.url /\ server[e] # ""}} IN
       \E answer \in {values, {}} :      \* {}: the request fails
           enricher' = [enricher EXCEPT !.at = IF answer = {} THEN "idle" ELSE "record",
                                        !.todo = answer]
    /\ UNCHANGED <<settingsVars, secret, configure, cache, rows, server, settled>>

Ends(d, status) == deployments[d] \notin {"", status} /\ status \in Terminal

Left(todo) == enricher' = [enricher EXCEPT !.todo = todo,
                                           !.at = IF todo = {} THEN "idle" ELSE "record"]

\* Mutant: the event is stored after the transaction of the row.
RecordThenEvent(d, status) ==
    /\ enricher.at = "record" /\ <<d, status>> \in enricher.todo
    /\ deployments' = [deployments EXCEPT ![d] = status]
    /\ seenRunning' = seenRunning \cup (IF status \in Terminal THEN {} ELSE {d})
    /\ \/ /\ events' = IF Ends(d, status) THEN events \cup {<<d, status>>} ELSE events
          /\ UNCHANGED faults
       \/ Fault /\ UNCHANGED events
    /\ Left(enricher.todo \ {<<d, status>>})
    /\ UNCHANGED <<up, stored, onboarding, current, applied, client, requests, restarts>>
    /\ UNCHANGED <<secret, configure, cache, server, settled>>

\* and records what it said, one deployment in a transaction; an error leaves out
\* that one, or all that are left.
Record(d, status) ==
    /\ enricher.at = "record" /\ <<d, status>> \in enricher.todo
    /\ \/ /\ deployments' = [deployments EXCEPT ![d] = status]
          /\ seenRunning' = seenRunning \cup (IF status \in Terminal THEN {} ELSE {d})
          /\ events' = IF Ends(d, status) THEN events \cup {<<d, status>>} ELSE events
          /\ Left(enricher.todo \ {<<d, status>>})
          /\ UNCHANGED faults
       \/ Fault /\ Left(enricher.todo \ {<<d, status>>}) /\ UNCHANGED rows
       \/ Fault /\ Left({}) /\ UNCHANGED rows
    /\ UNCHANGED <<up, stored, onboarding, current, applied, client, requests, restarts>>
    /\ UNCHANGED <<secret, configure, cache, server, settled>>

\* A deployment begins on a server, and ends.
Deploy(d) ==
    /\ \/ server[d] = "" /\ server' = [server EXCEPT ![d] = "running"]
       \/ server[d] = "running" /\ \E s \in Terminal : server' = [server EXCEPT ![d] = s]
    /\ UNCHANGED <<settingsVars, secret, configure, enricher, cache, rows, settled>>

-----------------------------------------------------------------------------
Init ==
    /\ SettingsInit
    /\ secret = "" /\ cache = "" /\ enricher = Off
    /\ configure = [a \in Admin |-> NoConfigure]
    /\ deployments = [d \in Deployment |-> ""] /\ server = [d \in Deployment |-> ""]
    /\ events = {} /\ seenRunning = {} /\ settled = TRUE

\* A request that configures the integration.
Put(a) ==
    \/ \E url \in Url, token \in Token \cup {""} : Configure(a, url, token)
    \/ CommitUrl(a) \/ PutToken(a) \/ Activate(a)

Next ==
    \/ (Serve \/ Onboard) /\ UNCHANGED coolifyVars
    \/ Start \/ Crash
    \/ \E a \in Admin : Put(a)
    \/ syncMetadata \/ Deployments
    \/ \E d \in Deployment : Deploy(d) \/ \E status \in Status : Record(d, status)

Spec == Init /\ [][Next]_vars

-----------------------------------------------------------------------------
(* Properties. *)

\* The settings and the state of the integration hold values of their types.
TypeOK ==
    /\ SettingsTypeOK
    /\ {secret, enricher.token} \subseteq Token \cup {""}
    /\ {cache, enricher.metadata, enricher.url} \subseteq Url \cup {""}
    /\ enricher.state \in {"off", "unknown", "degraded", "healthy"}
    /\ enricher.at \in {"idle", "metadata", "deployments", "record"}
    /\ enricher.at = "record" <=> enricher.todo # {}
    /\ \A a \in Admin : configure[a].at \in {"idle", "url", "put", "activate"}
    /\ deployments \in [Deployment -> Status \cup {""}]
    /\ events \subseteq Deployment \X Terminal

\* A configuration that came to its end, and met neither another one nor a
\* storage error, is the stored one: a restart runs the same server and token.
PairKept ==
    up /\ settled /\ InProgress = {} /\ enricher.state # "off" =>
        enricher.url = overrides.url /\ enricher.token = secret

\* An integration that says it is healthy shows what its own server said: never
\* what the cache kept of another one, after a change of the address or a restart.
OwnMetadata == enricher.state = "healthy" => enricher.metadata = enricher.url

\* Every deployment that was seen before it ended and is recorded as ended has
\* its event, whatever fails in between, and no other has one.
DeploymentEvents ==
    /\ \A d \in seenRunning : deployments[d] \in Terminal => <<d, deployments[d]>> \in events
    /\ \A e \in events : e[1] \in seenRunning

\* The configuration: typed, what is stored starts the next process and is in
\* force in this one, and onboarding ends in order.
SettingsInv == TypeOK /\ StoredLoads /\ AppliedInForce /\ OnboardingInOrder

\* What holds of the integration around its calls to Coolify: PairKept, of the
\* server and the token that run, after configurations that overlapped no other and
\* met no storage error; OwnMetadata, of what a healthy integration shows (a degraded
\* one may show what was cached of the server before); and DeploymentEvents.
IntegrationInv == PairKept /\ OwnMetadata /\ DeploymentEvents
=============================================================================
