-------------------------------- MODULE Auth --------------------------------
(***************************************************************************)
(* The administrator's account (internal/auth, internal/api/auth.go and    *)
(* setup.go): first-run setup and bootstrap, sessions, login, and the      *)
(* enrolment of a second factor.  A request is a sequence of statements    *)
(* against the database, and other requests, the clock, a storage error or *)
(* a restart come between any two of them.                                 *)
(*                                                                         *)
(* There is one administrator, whose password is right: a wrong one, a     *)
(* missing CSRF token or an exhausted rate limit ends a request without    *)
(* effect.  An enrolment is the number of its seed; a one-time password is *)
(* the number of the seed it was computed from.                            *)
(***************************************************************************)
EXTENDS Integers, FiniteSets

CONSTANTS
    Token,        \* session tokens
    Request,      \* requests that are served at the same time
    Code,         \* the recovery codes of an enrolment (10 in the code)
    Config,       \* session settings: [idle, lifetime]
    SetupTTL,     \* life of a setup token (24 h in the code)
    MaxTime, MaxSeeds, MaxFaults, MaxRestarts   \* bounds

ASSUME AuthAssumption ==
    /\ \A c \in Config : c.idle \in Nat /\ c.lifetime \in Nat
    /\ \E c \in Config : 0 < c.idle /\ c.idle =< c.lifetime
    /\ {SetupTTL, MaxTime, MaxSeeds, MaxFaults, MaxRestarts} \subseteq Nat

NoToken == "no token"  \* tokens are random, so none of them is this one
ASSUME TokenAssumption == NoToken \notin Token

VARIABLES
    boot,       \* where the start of the process is
    users,      \* rows of users
    setup,      \* the setup_state row
    config,     \* Sessions.cfg
    sessions,   \* [Token -> its row]
    refused,    \* history: tokens refused, and marked as ended
    mfa,        \* users.totp_enabled and the enrolment it stands for (0: none)
    secret,     \* encrypted_secrets["totp."]: the seed, 0 for none
    codes,      \* recovery_codes not used yet, as <<enrolment, code>>
    uses,       \* history: how often a recovery code was accepted
    pending,    \* MFA.pending: the seed and when it expires
    request,    \* [Request -> where its handler is]
    disturbed,  \* history: a change of the second factor overlapped another one,
                \* failed on a storage error or was cut off by a restart
    seeds, clock, faults, restarts

account == <<users, setup>>
factor == <<mfa, secret, codes, uses, pending, seeds>>
session == <<config, sessions, refused>>
bounds == <<clock, faults, restarts>>
vars == <<boot, account, session, factor, request, disturbed, bounds>>

Time == 0..MaxTime
NoCode == "totp"       \* a one-time password instead of a recovery code
NoSetup == [row |-> FALSE, token |-> FALSE, claimed |-> FALSE, until |-> 0]
Offered == [row |-> TRUE, token |-> TRUE, claimed |-> FALSE, until |-> SetupTTL]
Claimed == [row |-> TRUE, token |-> FALSE, claimed |-> TRUE, until |-> 0]
NoSession == [state |-> "none", expires |-> 0, absolute |-> 0]
Idle == [at |-> "idle", op |-> "visit", token |-> NoToken, seed |-> 0,
         until |-> 0, late |-> FALSE]
NoPending == [seed |-> 0, until |-> 0]

Valid(c) == c.idle > 0 /\ c.lifetime >= c.idle
Least(a, b) == IF a < b THEN a ELSE b
GoTo(r, p) == request' = [request EXCEPT ![r].at = p]
Done(r) == request' = [request EXCEPT ![r] = Idle]
Fault == faults < MaxFaults /\ faults' = faults + 1

-----------------------------------------------------------------------------
(* Starting: bootstrap, then setup, then the HTTP server. *)

\* BootstrapAdmin and CreateAdmin, with or without credentials in the environment.
BootstrapAdmin(given) ==
    /\ boot = "bootstrap"
    /\ IF users = 0 /\ given
       THEN users' = users + 1 /\ boot' = "disable"
       ELSE boot' = "setup" /\ UNCHANGED users
    /\ UNCHANGED <<setup, session, factor, request, disturbed, bounds>>

\* SetupService.Disable is a statement of its own.
DisableSetup ==
    /\ boot = "disable"
    /\ setup' = Claimed
    /\ boot' = "setup"
    /\ UNCHANGED <<users, session, factor, request, disturbed, bounds>>

\* SetupService.Initialize: the first start writes the token; a public listener
\* without one does not start.
InitializeSetup(token) ==
    /\ boot = "setup"
    /\ IF users > 0 \/ setup.row
       THEN boot' = "up" /\ UNCHANGED setup
       ELSE IF token
       THEN /\ setup' = [row |-> TRUE, token |-> TRUE, claimed |-> FALSE,
                         until |-> clock + SetupTTL]
            /\ boot' = "up"
       ELSE boot' = "down" /\ UNCHANGED setup
    /\ UNCHANGED <<users, session, factor, request, disturbed, bounds>>

-----------------------------------------------------------------------------
(* Sessions. *)

\* SetConfig, from the callback of the settings store.
SetConfig(c) ==
    /\ config' = IF Valid(c) THEN c ELSE config
    /\ UNCHANGED <<boot, account, sessions, refused, factor, request, disturbed, bounds>>

Live(t) == sessions[t].state = "live" /\ clock < sessions[t].expires
                                      /\ clock < sessions[t].absolute
Revoked(rows, t) ==
    IF t = NoToken THEN rows
    ELSE [rows EXCEPT ![t].state = IF @ = "live" THEN "revoked" ELSE @]
RevokedAll(rows) ==
    [t \in Token |-> [rows[t] EXCEPT !.state = IF @ = "live" THEN "revoked" ELSE @]]

\* Mutant: the idle timeout may go past the absolute expiry.
UntilIdle(absolute) == clock + config.idle
Until(absolute) == Least(clock + config.idle, absolute)

Issued(t) == [state |-> "live", absolute |-> clock + config.lifetime,
              expires |-> Until(clock + config.lifetime)]

\* Mutant: a session that ran out is refused but not marked.
AuthenticateForgets(r, t) ==
    /\ request[r].at = "idle"
    /\ boot = "up"
    /\ IF Live(t)
       THEN /\ request' = [request EXCEPT ![r] =
                  [Idle EXCEPT !.at = "extend", !.token = t,
                               !.until = Until(sessions[t].absolute),
                               !.late = t \in refused]]
            /\ UNCHANGED <<sessions, refused>>
       ELSE /\ refused' = refused \cup {t}
            /\ UNCHANGED <<sessions, request>>
    /\ UNCHANGED <<boot, account, config, factor, disturbed, bounds>>

\* Sessions.Authenticate reads the row: a session that has ended is refused, and
\* marked when it ran out (an error of that is ignored).
Authenticate(r, t) ==
    /\ request[r].at = "idle"
    /\ boot = "up"
    /\ IF Live(t)
       THEN /\ request' = [request EXCEPT ![r] =
                  [Idle EXCEPT !.at = "extend", !.token = t,
                               !.until = Until(sessions[t].absolute),
                               !.late = t \in refused]]
            /\ UNCHANGED <<sessions, refused, faults>>
       ELSE /\ \/ /\ sessions' = Revoked(sessions, t)
                  /\ refused' = refused \cup {t}
                  /\ UNCHANGED faults
               \/ Fault /\ UNCHANGED <<sessions, refused>>
            /\ UNCHANGED request
    /\ UNCHANGED <<boot, account, config, factor, disturbed, clock, restarts>>

\* It extends the row unless it was revoked meanwhile; the request goes on.
Extend(r) ==
    LET t == request[r].token IN
    /\ request[r].at = "extend"
    /\ sessions' = [sessions EXCEPT ![t].expires =
            IF sessions[t].state = "live" THEN request[r].until ELSE @]
    /\ Done(r)
    /\ UNCHANGED <<boot, account, config, refused, factor, disturbed, bounds>>

\* logout asks for a session that is not revoked (the row with the CSRF hash),
\* expired or not; logout-all authenticates it.
Logout(t) ==
    /\ boot = "up"
    /\ sessions[t].state = "live"
    /\ \/ sessions' = Revoked(sessions, t)
       \/ Live(t) /\ sessions' = RevokedAll(sessions)
    /\ UNCHANGED <<boot, account, config, refused, factor, request, disturbed, bounds>>

\* Cleanup: the hourly sweep deletes the rows of sessions that have ended.
Cleanup(t) ==
    /\ \/ sessions[t].state = "revoked"
       \/ /\ sessions[t].state = "live"
          /\ clock > sessions[t].expires \/ clock > sessions[t].absolute
    /\ sessions' = [sessions EXCEPT ![t] = NoSession]
    /\ UNCHANGED <<boot, account, config, refused, factor, request, disturbed, bounds>>

-----------------------------------------------------------------------------
(* Setup and login. *)

Begins(r, p, op, seed) ==
    /\ boot = "up"
    /\ request[r].at = "idle"
    /\ request' = [request EXCEPT ![r] = [Idle EXCEPT !.at = p, !.op = op, !.seed = seed]]

\* Mutant: the claim trusts the setup row alone.
ClaimUnchecked(r) ==
    /\ setup.row /\ setup.token /\ ~setup.claimed /\ clock < setup.until
    /\ users' = users + 1
    /\ setup' = Claimed
    /\ Begins(r, "issue", "login", 0)
    /\ UNCHANGED <<boot, session, factor, disturbed, bounds>>

\* SetupService.Claim with the right token.
Claim(r) ==
    /\ setup.row /\ setup.token /\ ~setup.claimed /\ clock < setup.until
    /\ users = 0
    /\ users' = users + 1
    /\ setup' = Claimed
    /\ Begins(r, "issue", "login", 0)
    /\ UNCHANGED <<boot, session, factor, disturbed, bounds>>

AfterVerify(op) == IF op = "login" THEN "issue" ELSE "disable"

\* MFA.Verify: no second factor is asked of an account that is not enrolled.
BeginsVerify(r, op) == Begins(r, IF mfa > 0 THEN "verify" ELSE AfterVerify(op), op, 0)

\* A login with the right password.
Login(r) ==
    /\ users > 0
    /\ BeginsVerify(r, "login")
    /\ UNCHANGED <<boot, account, session, factor, disturbed, bounds>>

\* A session for the identity the proxy vouches for: no second factor.
ExternalSession(r) ==
    /\ users > 0
    /\ Begins(r, "issue", "login", 0)
    /\ UNCHANGED <<boot, account, session, factor, disturbed, bounds>>

Passed(r) == GoTo(r, AfterVerify(request[r].op))

\* Mutant: a recovery code stays valid after it was used.
VerifyKeepsCode(r, seed, code) ==
    LET row == <<seed, code>> IN
    /\ request[r].at = "verify"
    /\ mfa > 0 /\ row \in codes
    /\ uses' = [uses EXCEPT ![row] = @ + 1]
    /\ Passed(r)
    /\ UNCHANGED <<boot, account, session, mfa, secret, codes, pending, seeds, disturbed, bounds>>

\* The one-time password is compared with the stored seed; otherwise a recovery
\* code is used up, in one UPDATE.
Verify(r, seed, code) ==
    LET row == <<seed, code>>
        totp == code = NoCode /\ secret = seed
    IN
    /\ request[r].at = "verify"
    /\ \/ /\ mfa > 0 /\ secret > 0 /\ totp
          /\ Passed(r)
          /\ UNCHANGED <<codes, uses>>
       \/ /\ mfa > 0 /\ row \in codes
          /\ codes' = codes \ {row}
          /\ uses' = [uses EXCEPT ![row] = @ + 1]
          /\ Passed(r)
       \/ /\ mfa = 0 \/ ~totp \/ secret = 0
          /\ mfa = 0 \/ row \notin codes
          /\ Done(r)
          /\ UNCHANGED <<codes, uses>>
    /\ UNCHANGED <<boot, account, session, mfa, secret, pending, seeds, disturbed, bounds>>

\* The session of the browser's cookie, if it has one, is revoked and a new one
\* issued: tokens are random, so one that nobody knows any more stands for it.
Issue(r, t, previous) ==
    /\ request[r].at = "issue"
    /\ sessions[t].state = "none"
    /\ \A q \in Request : request[q].token # t
    /\ sessions' = [Revoked(sessions, previous) EXCEPT ![t] = Issued(t)]
    /\ refused' = refused \ {t}
    /\ Done(r)
    /\ UNCHANGED <<boot, account, config, factor, disturbed, bounds>>

-----------------------------------------------------------------------------
(* The second factor. *)

Changing(r) == request[r].at \in {"put", "commit", "undo", "disable", "delete", "revoke"}
Disturb(r) == disturbed' = (disturbed \/ \E q \in Request \ {r} : Changing(q))

\* MFA.Begin replaces the pending enrolment of the account.
Begin(t) ==
    /\ boot = "up"
    /\ Live(t)
    /\ seeds < MaxSeeds
    /\ seeds' = seeds + 1
    /\ pending' = [seed |-> seeds + 1, until |-> clock + 1]
    /\ UNCHANGED <<boot, account, session, mfa, secret, codes, uses, request, disturbed, bounds>>

IsPending(seed) == pending.seed = seed /\ clock < pending.until

\* MFA.Confirm: the code is checked against the pending seed,
Confirm(r, t, seed) ==
    /\ Live(t)
    /\ seed > 0 /\ IsPending(seed)
    /\ Begins(r, "confirm", "confirm", seed)
    /\ UNCHANGED <<boot, account, session, factor, disturbed, bounds>>

\* and the enrolment is taken if it is the pending one still.
TakePending(r) ==
    /\ request[r].at = "confirm"
    /\ IF IsPending(request[r].seed)
       THEN pending' = NoPending /\ GoTo(r, "put") /\ Disturb(r)
       ELSE Done(r) /\ UNCHANGED <<pending, disturbed>>
    /\ UNCHANGED <<boot, account, session, mfa, secret, codes, uses, seeds, bounds>>

\* The seed is stored before the account refers to it.
PutSecret(r) ==
    /\ request[r].at = "put"
    /\ \/ secret' = request[r].seed /\ GoTo(r, "commit") /\ UNCHANGED <<faults, disturbed>>
       \/ Fault /\ Done(r) /\ UNCHANGED <<secret, disturbed>>
    /\ UNCHANGED <<boot, account, session, mfa, codes, uses, pending, seeds, clock, restarts>>

\* Mutant: the recovery codes of the last enrolment stay.
CommitKeepsCodes(r) ==
    /\ request[r].at = "commit"
    /\ mfa' = request[r].seed
    /\ codes' = codes \cup {request[r].seed} \X Code
    /\ GoTo(r, "revoke")
    /\ UNCHANGED <<boot, account, session, secret, uses, pending, seeds, disturbed, bounds>>

\* The transaction that replaces the recovery codes and enables the factor.
CommitEnrollment(r) ==
    /\ request[r].at = "commit"
    /\ \/ /\ mfa' = request[r].seed
          /\ codes' = {request[r].seed} \X Code
          /\ GoTo(r, "revoke")
          /\ UNCHANGED <<faults, disturbed>>
       \/ /\ Fault
          /\ GoTo(r, "undo")
          /\ disturbed' = TRUE
          /\ UNCHANGED <<mfa, codes>>
    /\ UNCHANGED <<boot, account, session, secret, uses, pending, seeds, clock, restarts>>

\* Its failure deletes the stored seed (an error of that is ignored).
UndoSecret(r) ==
    /\ request[r].at = "undo"
    /\ \/ secret' = 0 /\ UNCHANGED faults
       \/ Fault /\ UNCHANGED secret
    /\ Done(r)
    /\ UNCHANGED <<boot, account, session, mfa, codes, uses, pending, seeds, disturbed, clock, restarts>>

\* MFA.Disable, with password and code checked by the steps of a login,
DisableFactor(r, t) ==
    /\ Live(t)
    /\ BeginsVerify(r, "disable")
    /\ UNCHANGED <<boot, account, session, factor, disturbed, bounds>>

CommitDisable(r) ==
    /\ request[r].at = "disable"
    /\ \/ /\ mfa' = 0
          /\ codes' = {}
          /\ GoTo(r, IF mfa > 0 THEN "delete" ELSE "revoke")
          /\ Disturb(r)
          /\ UNCHANGED faults
       \/ Fault /\ Done(r) /\ UNCHANGED <<mfa, codes, disturbed>>
    /\ UNCHANGED <<boot, account, session, secret, uses, pending, seeds, clock, restarts>>

\* Mutant: the seed outlives the enrolment.
DeleteNothing(r) ==
    /\ request[r].at = "delete"
    /\ GoTo(r, "revoke")
    /\ UNCHANGED <<boot, account, session, factor, disturbed, bounds>>

\* then deletes the seed, whatever it is by now.
DeleteSecret(r) ==
    /\ request[r].at = "delete"
    /\ \/ secret' = 0 /\ UNCHANGED <<faults, disturbed>>
       \/ Fault /\ disturbed' = TRUE /\ UNCHANGED secret
    /\ GoTo(r, "revoke")
    /\ UNCHANGED <<boot, account, session, mfa, codes, uses, pending, seeds, clock, restarts>>

\* Both end every session of the account (an error is ignored).
RevokeAll(r) ==
    /\ request[r].at = "revoke"
    /\ \/ sessions' = RevokedAll(sessions) /\ UNCHANGED faults
       \/ Fault /\ UNCHANGED sessions
    /\ Done(r)
    /\ UNCHANGED <<boot, account, config, refused, factor, disturbed, clock, restarts>>

-----------------------------------------------------------------------------
Tick ==
    /\ clock < MaxTime
    /\ clock' = clock + 1
    /\ UNCHANGED <<boot, account, session, factor, request, disturbed, faults, restarts>>

Restart ==
    /\ restarts < MaxRestarts
    /\ restarts' = restarts + 1
    /\ boot' = "bootstrap"
    /\ pending' = NoPending
    /\ disturbed' = (disturbed \/ \E r \in Request : Changing(r))
    /\ request' = [r \in Request |-> Idle]
    /\ UNCHANGED <<account, session, mfa, secret, codes, uses, seeds, clock, faults>>

\* The first start, or the first after one that offered setup.
Init ==
    /\ boot = "bootstrap"
    /\ users = 0 /\ setup \in {NoSetup, Offered}
    /\ config \in {c \in Config : Valid(c)}
    /\ sessions = [t \in Token |-> NoSession]
    /\ refused = {}
    /\ mfa = 0 /\ secret = 0 /\ codes = {}
    /\ uses = [row \in (1..MaxSeeds) \X Code |-> 0]
    /\ pending = NoPending
    /\ request = [r \in Request |-> Idle]
    /\ disturbed = FALSE
    /\ seeds = 0 /\ clock = 0 /\ faults = 0 /\ restarts = 0

Boot == \E given \in BOOLEAN : BootstrapAdmin(given) \/ InitializeSetup(given)

Begun == 1..seeds

Handle(r) ==
    \/ \E t \in Token : Authenticate(r, t) \/ DisableFactor(r, t)
    \/ Extend(r) \/ Claim(r) \/ Login(r) \/ ExternalSession(r)
    \/ \E seed \in Begun, code \in Code \cup {NoCode} : Verify(r, seed, code)
    \/ \E t \in Token, previous \in Token \cup {NoToken} : Issue(r, t, previous)
    \/ \E t \in Token, seed \in Begun : Confirm(r, t, seed)
    \/ TakePending(r) \/ PutSecret(r) \/ CommitEnrollment(r) \/ UndoSecret(r)
    \/ CommitDisable(r) \/ DeleteSecret(r) \/ RevokeAll(r)

Next ==
    \/ Boot \/ DisableSetup
    \/ \E c \in Config : SetConfig(c)
    \/ \E r \in Request : Handle(r)
    \/ \E t \in Token : Logout(t) \/ Cleanup(t) \/ Begin(t)
    \/ Tick \/ Restart

Spec == Init /\ [][Next]_vars

-----------------------------------------------------------------------------
(* Properties. *)

\* The tables, the process and the requests hold values of their types.
TypeOK ==
    /\ boot \in {"bootstrap", "disable", "setup", "up", "down"}
    /\ users \in Nat
    /\ setup \in [row : BOOLEAN, token : BOOLEAN, claimed : BOOLEAN, until : Nat]
    /\ config \in Config /\ Valid(config)
    /\ sessions \in [Token -> [state : {"none", "live", "revoked"},
                               expires : Nat, absolute : Nat]]
    /\ refused \subseteq Token
    /\ mfa \in 0..MaxSeeds /\ secret \in 0..MaxSeeds /\ seeds \in 0..MaxSeeds
    /\ codes \subseteq (1..MaxSeeds) \X Code
    /\ uses \in [(1..MaxSeeds) \X Code -> Nat]
    /\ pending \in [seed : 0..MaxSeeds, until : Nat]
    /\ disturbed \in BOOLEAN
    /\ clock \in Time /\ faults \in 0..MaxFaults /\ restarts \in 0..MaxRestarts

\* There is one administrator at most, whichever of bootstrap and browser setup
\* come first and wherever a crash falls between them; and setup is over only once
\* there is one.
OneAdministrator == users =< 1 /\ (setup.claimed => users = 1)

\* No session outlives its absolute expiry, whatever settings are changed while it
\* is extended.
SessionBounded == \A t \in Token : sessions[t].expires =< sessions[t].absolute

\* A session that has once been refused because it ended is refused for good (but
\* for a mark that could not be stored), although requests that found it alive
\* earlier extend it later.
RefusedForGood == \A r \in Request : request[r].at = "extend" => ~request[r].late

\* A recovery code admits one request, however many present it at once.
RecoveryCodeOnce == \A row \in DOMAIN uses : uses[row] =< 1

\* An account that asks for a second factor always takes the recovery codes of the
\* enrolment it is in, the used ones excepted, and those only: no failure, crash
\* or overlap separates the codes from the switch.
RecoveryAlwaysPossible ==
    IF mfa = 0 THEN codes = {}
    ELSE /\ codes \subseteq {mfa} \X Code
         /\ {row \in {mfa} \X Code : uses[row] = 0} \subseteq codes

\* Enrolling, enrolling again and disabling one after the other, the stored seed is
\* the one of the enrolment, and there is none without an enrolment.
SeedMatchesEnrollment ==
    ~disturbed /\ (\A r \in Request : ~Changing(r)) => secret = mfa

\* Setup and bootstrap leave a typed state with one administrator at most.
AccountInv == TypeOK /\ OneAdministrator

\* A session ends: never later than its absolute expiry, and for good.
SessionInv == SessionBounded /\ RefusedForGood

\* The switch, the seed and the recovery codes of the second factor belong to one
\* enrolment, and a code is good for one login.
FactorInv == RecoveryCodeOnce /\ RecoveryAlwaysPossible /\ SeedMatchesEnrollment
=============================================================================
