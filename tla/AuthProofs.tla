----------------------------- MODULE AuthProofs -----------------------------
(***************************************************************************)
(* Machine-checked proofs about module Auth, for every set of tokens,      *)
(* requests and recovery codes and every value of the bounds.              *)
(***************************************************************************)
EXTENDS Auth, TLAPS

\* The assumptions, one number at a time.
LEMMA Bounds ==
    /\ SetupTTL \in Nat /\ MaxTime \in Nat /\ MaxSeeds \in Nat
    /\ MaxFaults \in Nat /\ MaxRestarts \in Nat
    /\ \A c \in Config : c.idle \in Nat /\ c.lifetime \in Nat
    /\ NoToken \notin Token
BY AuthAssumption, TokenAssumption

-----------------------------------------------------------------------------
(* Types. *)

SetupRow == [row : BOOLEAN, token : BOOLEAN, claimed : BOOLEAN, until : Nat]
SessionRow == [state : {"none", "live", "revoked"}, expires : Nat, absolute : Nat]
Position == {"idle", "extend", "issue", "verify", "confirm", "put", "commit",
             "undo", "disable", "delete", "revoke"}
RequestRow == [at : Position, op : {"visit", "login", "disable", "confirm"},
               token : Token \cup {NoToken}, seed : 0..MaxSeeds,
               until : Nat, late : BOOLEAN]
Row == (1..MaxSeeds) \X Code

\* The parts of TypeOK,
AccountOK ==
    /\ boot \in {"bootstrap", "disable", "setup", "up", "down"}
    /\ users \in Nat /\ setup \in SetupRow
SessionsOK ==
    /\ config \in Config /\ Valid(config)
    /\ sessions \in [Token -> SessionRow]
    /\ refused \subseteq Token
FactorOK ==
    /\ mfa \in 0..MaxSeeds /\ secret \in 0..MaxSeeds /\ seeds \in 0..MaxSeeds
    /\ codes \subseteq Row /\ uses \in [Row -> Nat]
    /\ pending \in [seed : 0..MaxSeeds, until : Nat]
CountOK ==
    /\ disturbed \in BOOLEAN
    /\ clock \in Time /\ faults \in 0..MaxFaults /\ restarts \in 0..MaxRestarts

\* and what it leaves out: the handlers hold values of their types; one that is about
\* to extend a session knows its token, and a seed was begun before a handler has it.
RequestOK ==
    /\ request \in [Request -> RequestRow]
    /\ \A r \in Request :
          /\ request[r].at = "extend" => request[r].token \in Token
          /\ request[r].at \in {"confirm", "put", "commit"} => request[r].seed \in 1..seeds

Typed == AccountOK /\ SessionsOK /\ FactorOK /\ CountOK /\ RequestOK

\* The parts make up the type invariant.
LEMMA TypeParts == Typed => TypeOK
BY DEF Typed, TypeOK, AccountOK, SessionsOK, FactorOK, CountOK, SetupRow, SessionRow, Row

\* The constant rows have their types.
LEMMA ConstantRows ==
    /\ NoSetup \in SetupRow /\ Offered \in SetupRow /\ Claimed \in SetupRow
    /\ NoSession \in SessionRow
    /\ Idle \in RequestRow
<1>1. NoSetup \in SetupRow
  BY DEF NoSetup, SetupRow
<1>2. Offered \in SetupRow
  BY Bounds DEF Offered, SetupRow
<1>3. Claimed \in SetupRow
  BY DEF Claimed, SetupRow
<1>4. NoSession \in SessionRow
  BY DEF NoSession, SessionRow
<1>5. Idle \in RequestRow
  BY Bounds DEF Idle, RequestRow, Position
<1> QED BY <1>1, <1>2, <1>3, <1>4, <1>5

\* The initial tables and requests are typed.
LEMMA TypedInit == Init => Typed
<1> SUFFICES ASSUME Init PROVE Typed
  OBVIOUS
<1> USE Bounds, ConstantRows DEF Init
<1>1. AccountOK
  BY DEF AccountOK
<1>2. SessionsOK
  BY DEF SessionsOK
<1>3. FactorOK
  BY DEF FactorOK, NoPending, Row
<1>4. CountOK
  <2>1. disturbed \in BOOLEAN
    OBVIOUS
  <2>2. clock \in Time /\ faults \in 0..MaxFaults /\ restarts \in 0..MaxRestarts
    BY DEF Time
  <2> QED BY <2>1, <2>2 DEF CountOK
<1>5. RequestOK
  BY DEF RequestOK, Idle
<1> QED BY <1>1, <1>2, <1>3, <1>4, <1>5 DEF Typed

-----------------------------------------------------------------------------
(* What the operators the actions are built from do to the types. *)

\* A handler that moves to a row of its type, with what the row needs, leaves the
\* handlers typed.
LEMMA RequestMoves ==
    ASSUME RequestOK, FactorOK, seeds' \in Nat, seeds =< seeds',
           NEW r \in Request, NEW row \in RequestRow,
           row.at = "extend" => row.token \in Token,
           row.at \in {"confirm", "put", "commit"} => row.seed \in 1..seeds,
           request' = [request EXCEPT ![r] = row]
    PROVE  RequestOK'
<1>1. request' \in [Request -> RequestRow]
  BY DEF RequestOK
<1>2. seeds \in Nat
  BY Bounds DEF FactorOK
<1>3. ASSUME NEW q \in Request
      PROVE  /\ request'[q].at = "extend" => request'[q].token \in Token
             /\ request'[q].at \in {"confirm", "put", "commit"}
                   => request'[q].seed \in 1..seeds'
  <2>1. request'[q] = IF q = r THEN row ELSE request[q]
    BY DEF RequestOK
  <2>2. request'[q].at = "extend" => request'[q].token \in Token
    BY <2>1 DEF RequestOK
  <2>3. request'[q].at \in {"confirm", "put", "commit"} => request'[q].seed \in 1..seeds
    BY <2>1 DEF RequestOK
  <2> QED BY <1>2, <2>2, <2>3
<1> QED BY <1>1, <1>3 DEF RequestOK

\* The handlers are typed after more seeds were begun.
LEMMA RequestStays ==
    ASSUME RequestOK, FactorOK, seeds' \in Nat, seeds =< seeds', UNCHANGED request
    PROVE  RequestOK'
<1>1. seeds \in Nat
  BY Bounds DEF FactorOK
<1> QED BY <1>1 DEF RequestOK

\* A handler that ends leaves the handlers typed.
LEMMA DoneTyped ==
    ASSUME RequestOK, FactorOK, UNCHANGED seeds, NEW r \in Request, Done(r)
    PROVE  RequestOK'
<1>1. Idle \in RequestRow /\ Idle.at = "idle"
  BY ConstantRows DEF Idle
<1>2. seeds' \in Nat /\ seeds =< seeds'
  BY Bounds DEF FactorOK
<1> QED BY <1>1, <1>2, RequestMoves DEF Done

\* So does one that goes on to a step it has the seed for.
LEMMA GoToTyped ==
    ASSUME RequestOK, FactorOK, UNCHANGED seeds, NEW r \in Request,
           NEW p \in Position \ {"extend", "confirm"},
           p \in {"put", "commit"} => request[r].seed \in 1..seeds,
           GoTo(r, p)
    PROVE  RequestOK'
<1> DEFINE row == [request[r] EXCEPT !.at = p]
<1>1. request[r] \in RequestRow
  BY DEF RequestOK
<1>2. row \in RequestRow /\ row.at = p /\ row.seed = request[r].seed
  BY <1>1 DEF RequestRow
<1>3. seeds' \in Nat /\ seeds =< seeds'
  BY Bounds DEF FactorOK
<1>4. request' = [request EXCEPT ![r] = row]
  BY DEF GoTo
<1> HIDE DEF row
<1> QED BY <1>2, <1>3, <1>4, RequestMoves

\* So does one that begins.
LEMMA BeginsTyped ==
    ASSUME RequestOK, FactorOK, UNCHANGED seeds, NEW r \in Request,
           NEW p \in Position \ {"extend", "put", "commit"},
           NEW op \in {"visit", "login", "disable", "confirm"},
           NEW seed \in 0..MaxSeeds, p = "confirm" => seed \in 1..seeds,
           Begins(r, p, op, seed)
    PROVE  RequestOK'
<1> DEFINE first == [Idle EXCEPT !.at = p]
           second == [first EXCEPT !.op = op]
           row == [second EXCEPT !.seed = seed]
<1>1. first \in RequestRow /\ first.at = p
  BY ConstantRows DEF RequestRow
<1>2. second \in RequestRow /\ second.at = p
  BY <1>1 DEF RequestRow
<1>3. row \in RequestRow /\ row.at = p /\ row.seed = seed
  <2> HIDE DEF second
  <2> QED BY <1>2 DEF RequestRow
<1>4. seeds' \in Nat /\ seeds =< seeds'
  BY Bounds DEF FactorOK
<1>5. request' = [request EXCEPT ![r] = row]
  BY DEF Begins
<1> HIDE DEF row
<1> QED BY <1>3, <1>4, <1>5, RequestMoves

\* The row of a request that is about to extend a session.
Visiting(t, n, late) ==
    [Idle EXCEPT !.at = "extend", !.token = t, !.until = n, !.late = late]
LEMMA VisitRow ==
    ASSUME NEW t \in Token, NEW n \in Nat, NEW late \in BOOLEAN
    PROVE  /\ Visiting(t, n, late) \in RequestRow
           /\ Visiting(t, n, late).at = "extend" /\ Visiting(t, n, late).token = t
           /\ Visiting(t, n, late).until = n /\ Visiting(t, n, late).late = late
<1> DEFINE first == [Idle EXCEPT !.at = "extend"]
           second == [first EXCEPT !.token = t]
           third == [second EXCEPT !.until = n]
<1>1. first \in RequestRow /\ first.at = "extend"
  BY ConstantRows DEF RequestRow, Position
<1>2. second \in RequestRow /\ second.at = "extend" /\ second.token = t
  BY <1>1 DEF RequestRow
<1>3. third \in RequestRow /\ third.at = "extend" /\ third.token = t /\ third.until = n
  <2> HIDE DEF second
  <2> QED BY <1>2 DEF RequestRow
<1>4. Visiting(t, n, late) = [third EXCEPT !.late = late]
  BY DEF Visiting
<1> HIDE DEF third
<1> QED BY <1>3, <1>4 DEF RequestRow

\* A login or a removal of the factor begins at a step of its own.
LEMMA BeginsVerifyTyped ==
    ASSUME RequestOK, FactorOK, UNCHANGED seeds, NEW r \in Request,
           NEW op \in {"login", "disable"}, BeginsVerify(r, op)
    PROVE  RequestOK'
<1> DEFINE p == IF mfa > 0 THEN "verify" ELSE AfterVerify(op)
<1>1. p \in {"verify", "issue", "disable"}
  BY DEF AfterVerify
<1>2. Begins(r, p, op, 0)
  BY DEF BeginsVerify
<1> HIDE DEF p
<1>3. p \in Position \ {"extend", "put", "commit"} /\ p # "confirm"
  BY <1>1 DEF Position
<1>4. 0 \in 0..MaxSeeds
  BY Bounds
<1> QED BY <1>2, <1>3, <1>4, BeginsTyped

\* A fault, or none, leaves the bounds kept.
LEMMA CountKept ==
    ASSUME CountOK, UNCHANGED <<clock, restarts>>, Fault \/ UNCHANGED faults,
           disturbed' \in BOOLEAN
    PROVE  CountOK'
<1>1. faults' \in 0..MaxFaults
  BY Bounds DEF CountOK, Fault
<1> QED BY <1>1 DEF CountOK, Time

\* The history variable of the second factor is a Boolean.
LEMMA DisturbTyped ==
    ASSUME NEW r, Disturb(r) \/ disturbed' = TRUE \/ (disturbed \in BOOLEAN /\ UNCHANGED disturbed)
    PROVE  disturbed' \in BOOLEAN
BY DEF Disturb

\* Revoking one session, or all of them, keeps the rows' types.
LEMMA RevokedTyped ==
    ASSUME NEW rows \in [Token -> SessionRow], NEW t \in Token \cup {NoToken}
    PROVE  Revoked(rows, t) \in [Token -> SessionRow] /\ RevokedAll(rows) \in [Token -> SessionRow]
<1>1. Revoked(rows, t) \in [Token -> SessionRow]
  BY DEF Revoked, SessionRow
<1>2. RevokedAll(rows) \in [Token -> SessionRow]
  BY DEF RevokedAll, SessionRow
<1> QED BY <1>1, <1>2

\* An expiry is a time, and never after the absolute one.
LEMMA UntilBounded ==
    ASSUME SessionsOK, CountOK, NEW absolute \in Nat
    PROVE  Until(absolute) \in Nat /\ Until(absolute) =< absolute
<1>1. config.idle \in Nat /\ clock \in Nat
  BY Bounds DEF SessionsOK, CountOK, Time
<1> QED BY <1>1 DEF Until, Least

\* A session is issued with an expiry within its absolute limit.
LEMMA IssuedBounded ==
    ASSUME SessionsOK, CountOK, NEW t
    PROVE  Issued(t) \in SessionRow /\ Issued(t).expires =< Issued(t).absolute
<1>1. clock + config.lifetime \in Nat
  BY Bounds DEF SessionsOK, CountOK, Time
<1>2. Until(clock + config.lifetime) \in Nat
      /\ Until(clock + config.lifetime) =< clock + config.lifetime
  BY <1>1, UntilBounded
<1> QED BY <1>1, <1>2 DEF Issued, SessionRow

\* Every step keeps the types.
LEMMA TypedStep == Typed /\ [Next]_vars => Typed'
<1> SUFFICES ASSUME Typed, [Next]_vars PROVE Typed'
  OBVIOUS
<1> USE Bounds, ConstantRows DEF Typed
<1>1. ASSUME NEW given \in BOOLEAN, BootstrapAdmin(given)
      PROVE  Typed'
  <2>1. SessionsOK' /\ FactorOK' /\ CountOK' /\ RequestOK'
    BY <1>1 DEF BootstrapAdmin, SessionsOK, FactorOK, CountOK, RequestOK, session, factor,
          bounds, Time
  <2>2. AccountOK'
    BY <1>1 DEF BootstrapAdmin, AccountOK
  <2> QED BY <2>1, <2>2
<1>2. ASSUME DisableSetup
      PROVE  Typed'
  <2>1. SessionsOK' /\ FactorOK' /\ CountOK' /\ RequestOK'
    BY <1>2 DEF DisableSetup, SessionsOK, FactorOK, CountOK, RequestOK, session, factor,
          bounds, Time
  <2>2. AccountOK'
    BY <1>2 DEF DisableSetup, AccountOK
  <2> QED BY <2>1, <2>2
<1>3. ASSUME NEW given \in BOOLEAN, InitializeSetup(given)
      PROVE  Typed'
  <2>1. SessionsOK' /\ FactorOK' /\ CountOK' /\ RequestOK'
    BY <1>3 DEF InitializeSetup, SessionsOK, FactorOK, CountOK, RequestOK, session, factor,
          bounds, Time
  <2>2. AccountOK'
    <3>1. clock + SetupTTL \in Nat
      BY DEF CountOK, Time
    <3>2. \A n \in Nat : [row |-> TRUE, token |-> TRUE, claimed |-> FALSE, until |-> n] \in SetupRow
      BY DEF SetupRow
    <3>3. setup' \in SetupRow
      BY <1>3, <3>1, <3>2 DEF InitializeSetup, AccountOK
    <3> QED BY <1>3, <3>3 DEF InitializeSetup, AccountOK
  <2> QED BY <2>1, <2>2
<1>4. ASSUME NEW c \in Config, SetConfig(c)
      PROVE  Typed'
  <2>1. AccountOK' /\ FactorOK' /\ CountOK' /\ RequestOK'
    BY <1>4 DEF SetConfig, AccountOK, FactorOK, CountOK, RequestOK, account, factor, bounds,
          Time
  <2>2. SessionsOK'
    BY <1>4 DEF SetConfig, SessionsOK
  <2> QED BY <2>1, <2>2
<1>5. ASSUME NEW r \in Request, NEW t \in Token, Authenticate(r, t)
      PROVE  Typed'
  <2>1. AccountOK' /\ FactorOK'
    BY <1>5 DEF Authenticate, AccountOK, FactorOK, account, factor
  <2>2. SessionsOK'
    BY <1>5, RevokedTyped DEF Authenticate, SessionsOK
  <2>3. CountOK'
    BY <1>5, CountKept DEF Authenticate, CountOK
  <2>4. RequestOK'
    <3>1. CASE UNCHANGED request
      BY <1>5, <3>1, RequestStays DEF Authenticate, factor, FactorOK
    <3>2. CASE Live(t)
      <4> DEFINE late == t \in refused
                 row == Visiting(t, Until(sessions[t].absolute), late)
      <4>1. Until(sessions[t].absolute) \in Nat
        BY UntilBounded DEF SessionsOK, SessionRow
      <4>2. late \in BOOLEAN
        OBVIOUS
      <4> HIDE DEF late
      <4>5. row \in RequestRow /\ row.at = "extend" /\ row.token = t
        BY <4>1, <4>2, VisitRow
      <4>6. request' = [request EXCEPT ![r] = row]
        BY <1>5, <3>2 DEF Authenticate, late, Visiting
      <4>7. seeds' = seeds /\ seeds \in Nat /\ seeds =< seeds'
        BY <1>5 DEF Authenticate, factor, FactorOK
      <4> HIDE DEF row
      <4> QED BY <4>5, <4>6, <4>7, RequestMoves
    <3> QED BY <1>5, <3>1, <3>2 DEF Authenticate
  <2> QED BY <2>1, <2>2, <2>3, <2>4
<1>6. ASSUME NEW r \in Request, Extend(r)
      PROVE  Typed'
  <2>1. AccountOK' /\ FactorOK' /\ CountOK'
    BY <1>6 DEF Extend, AccountOK, FactorOK, CountOK, account, factor, bounds, Time
  <2>2. SessionsOK'
    <3>1. request[r].token \in Token /\ request[r].until \in Nat
      BY <1>6 DEF Extend, RequestOK, RequestRow
    <3> QED BY <1>6, <3>1 DEF Extend, SessionsOK, SessionRow
  <2>3. RequestOK'
    BY <1>6, DoneTyped DEF Extend, factor
  <2> QED BY <2>1, <2>2, <2>3
<1>7. ASSUME NEW t \in Token, Logout(t)
      PROVE  Typed'
  <2>1. AccountOK' /\ FactorOK' /\ CountOK' /\ RequestOK'
    BY <1>7 DEF Logout, AccountOK, FactorOK, CountOK, RequestOK, account, factor, bounds, Time
  <2>2. SessionsOK'
    BY <1>7, RevokedTyped DEF Logout, SessionsOK
  <2> QED BY <2>1, <2>2
<1>8. ASSUME NEW t \in Token, Cleanup(t)
      PROVE  Typed'
  <2>1. AccountOK' /\ FactorOK' /\ CountOK' /\ RequestOK'
    BY <1>8 DEF Cleanup, AccountOK, FactorOK, CountOK, RequestOK, account, factor, bounds, Time
  <2>2. SessionsOK'
    BY <1>8 DEF Cleanup, SessionsOK
  <2> QED BY <2>1, <2>2
<1>9. ASSUME NEW r \in Request, Claim(r)
      PROVE  Typed'
  <2>1. SessionsOK' /\ FactorOK' /\ CountOK'
    BY <1>9 DEF Claim, SessionsOK, FactorOK, CountOK, session, factor, bounds, Time
  <2>2. AccountOK'
    BY <1>9 DEF Claim, Begins, AccountOK
  <2>3. RequestOK'
    <3>1. "issue" \in Position /\ 0 \in 0..MaxSeeds
      BY DEF Position
    <3> QED BY <1>9, <3>1, BeginsTyped DEF Claim, factor
  <2> QED BY <2>1, <2>2, <2>3
<1>10. ASSUME NEW r \in Request, Login(r)
      PROVE  Typed'
  <2>1. AccountOK' /\ SessionsOK' /\ FactorOK' /\ CountOK'
    BY <1>10 DEF Login, AccountOK, SessionsOK, FactorOK, CountOK, account, session, factor,
          bounds, Time
  <2>2. RequestOK'
    BY <1>10, BeginsVerifyTyped DEF Login, factor
  <2> QED BY <2>1, <2>2
<1>11. ASSUME NEW r \in Request, ExternalSession(r)
      PROVE  Typed'
  <2>1. AccountOK' /\ SessionsOK' /\ FactorOK' /\ CountOK'
    BY <1>11 DEF ExternalSession, AccountOK, SessionsOK, FactorOK, CountOK, account,
          session, factor, bounds, Time
  <2>2. RequestOK'
    <3>1. "issue" \in Position /\ 0 \in 0..MaxSeeds
      BY DEF Position
    <3> QED BY <1>11, <3>1, BeginsTyped DEF ExternalSession, factor
  <2> QED BY <2>1, <2>2
<1>12. ASSUME NEW r \in Request, NEW seed \in Begun, NEW code \in Code \cup {NoCode}, Verify(r, seed, code)
      PROVE  Typed'
  <2>1. AccountOK' /\ SessionsOK' /\ CountOK'
    BY <1>12 DEF Verify, AccountOK, SessionsOK, CountOK, account, session, bounds, Time
  <2>2. FactorOK'
    <3> DEFINE row == <<seed, code>>
    <3>1. codes' \subseteq codes /\ (uses' = uses \/ (row \in codes /\ uses' = [uses EXCEPT ![row] = @ + 1]))
      BY <1>12 DEF Verify
    <3>2. codes' \subseteq Row
      BY <3>1 DEF FactorOK
    <3>3. uses' \in [Row -> Nat]
      <4> HIDE DEF row
      <4> QED BY <3>1 DEF FactorOK
    <3>4. UNCHANGED <<mfa, secret, seeds, pending>>
      BY <1>12 DEF Verify
    <3> QED BY <3>2, <3>3, <3>4 DEF FactorOK
  <2>3. RequestOK'
    <3>1. CASE Done(r)
      BY <1>12, <3>1, DoneTyped DEF Verify
    <3>2. CASE Passed(r)
      <4> DEFINE p == AfterVerify(request[r].op)
      <4>1. p \in Position \ {"extend", "confirm"} /\ p \notin {"put", "commit"}
        BY DEF AfterVerify, Position
      <4>2. GoTo(r, p) /\ UNCHANGED seeds
        BY <1>12, <3>2 DEF Verify, Passed
      <4> HIDE DEF p
      <4> QED BY <4>1, <4>2, GoToTyped
    <3> QED BY <1>12, <3>1, <3>2 DEF Verify
  <2> QED BY <2>1, <2>2, <2>3
<1>13. ASSUME NEW r \in Request, NEW t \in Token, NEW previous \in Token \cup {NoToken}, Issue(r, t, previous)
      PROVE  Typed'
  <2>1. AccountOK' /\ FactorOK' /\ CountOK'
    BY <1>13 DEF Issue, AccountOK, FactorOK, CountOK, account, factor, bounds, Time
  <2>2. SessionsOK'
    <3>1. Revoked(sessions, previous) \in [Token -> SessionRow]
      BY RevokedTyped DEF SessionsOK
    <3>2. Issued(t) \in SessionRow
      BY IssuedBounded
    <3>3. sessions' = [Revoked(sessions, previous) EXCEPT ![t] = Issued(t)]
      BY <1>13 DEF Issue
    <3>4. sessions' \in [Token -> SessionRow]
      BY <3>1, <3>2, <3>3
    <3> QED BY <1>13, <3>4 DEF Issue, SessionsOK
  <2>3. RequestOK'
    BY <1>13, DoneTyped DEF Issue, factor
  <2> QED BY <2>1, <2>2, <2>3
<1>14. ASSUME NEW t \in Token, Begin(t)
      PROVE  Typed'
  <2>1. AccountOK' /\ SessionsOK' /\ CountOK'
    BY <1>14 DEF Begin, AccountOK, SessionsOK, CountOK, account, session, bounds, Time
  <2>2. FactorOK'
    <3>1. clock + 1 \in Nat
      BY DEF CountOK, Time
    <3>2. seeds + 1 \in 0..MaxSeeds
      BY <1>14 DEF Begin, FactorOK
    <3>3. pending' \in [seed : 0..MaxSeeds, until : Nat]
      BY <1>14, <3>1, <3>2 DEF Begin
    <3> QED BY <1>14, <3>2, <3>3 DEF Begin, FactorOK
  <2>3. RequestOK'
    BY <1>14, RequestStays DEF Begin, FactorOK
  <2> QED BY <2>1, <2>2, <2>3
<1>15. ASSUME NEW r \in Request, NEW t \in Token, NEW seed \in Begun, Confirm(r, t, seed)
      PROVE  Typed'
  <2>1. AccountOK' /\ SessionsOK' /\ FactorOK' /\ CountOK'
    BY <1>15 DEF Confirm, AccountOK, SessionsOK, FactorOK, CountOK, account, session,
          factor, bounds, Time
  <2>2. RequestOK'
    <3>1. seed \in 1..seeds /\ seed \in 0..MaxSeeds
      BY DEF Begun, FactorOK
    <3>2. "confirm" \in Position
      BY DEF Position
    <3> QED BY <1>15, <3>1, <3>2, BeginsTyped DEF Confirm, factor
  <2> QED BY <2>1, <2>2
<1>16. ASSUME NEW r \in Request, TakePending(r)
      PROVE  Typed'
  <2>1. AccountOK' /\ SessionsOK'
    BY <1>16 DEF TakePending, AccountOK, SessionsOK, account, session
  <2>2. FactorOK'
    <3>1. NoPending \in [seed : 0..MaxSeeds, until : Nat]
      BY DEF NoPending
    <3> QED BY <1>16, <3>1 DEF TakePending, FactorOK
  <2>3. CountOK'
    <3>1. disturbed' \in BOOLEAN
      BY <1>16, DisturbTyped DEF TakePending, CountOK
    <3>2. UNCHANGED <<clock, restarts>> /\ (Fault \/ UNCHANGED faults)
      BY <1>16 DEF TakePending, bounds
    <3> QED BY <3>1, <3>2, CountKept
  <2>4. RequestOK'
    <3>1. CASE Done(r)
      BY <1>16, <3>1, DoneTyped DEF TakePending
    <3>2. CASE GoTo(r, "put")
      <4>1. request[r].seed \in 1..seeds
        BY <1>16 DEF TakePending, RequestOK
      <4> QED BY <1>16, <3>2, <4>1, GoToTyped DEF TakePending, Position
    <3> QED BY <1>16, <3>1, <3>2 DEF TakePending
  <2> QED BY <2>1, <2>2, <2>3, <2>4
<1>17. ASSUME NEW r \in Request, PutSecret(r)
      PROVE  Typed'
  <2>1. AccountOK' /\ SessionsOK'
    BY <1>17 DEF PutSecret, AccountOK, SessionsOK, account, session
  <2>2. FactorOK'
    <3>1. request[r].seed \in 0..MaxSeeds
      BY DEF RequestOK, RequestRow
    <3> QED BY <1>17, <3>1 DEF PutSecret, FactorOK
  <2>3. CountOK'
    <3>1. disturbed' \in BOOLEAN
      BY <1>17, DisturbTyped DEF PutSecret, CountOK
    <3>2. UNCHANGED <<clock, restarts>> /\ (Fault \/ UNCHANGED faults)
      BY <1>17 DEF PutSecret, bounds
    <3> QED BY <3>1, <3>2, CountKept
  <2>4. RequestOK'
    <3>1. CASE Done(r)
      BY <1>17, <3>1, DoneTyped DEF PutSecret
    <3>2. CASE GoTo(r, "commit")
      <4>1. request[r].seed \in 1..seeds
        BY <1>17 DEF PutSecret, RequestOK
      <4> QED BY <1>17, <3>2, <4>1, GoToTyped DEF PutSecret, Position
    <3> QED BY <1>17, <3>1, <3>2 DEF PutSecret
  <2> QED BY <2>1, <2>2, <2>3, <2>4
<1>18. ASSUME NEW r \in Request, CommitEnrollment(r)
      PROVE  Typed'
  <2>1. AccountOK' /\ SessionsOK'
    BY <1>18 DEF CommitEnrollment, AccountOK, SessionsOK, account, session
  <2>2. FactorOK'
    <3>1. request[r].seed \in 1..MaxSeeds
      BY <1>18 DEF CommitEnrollment, RequestOK, FactorOK
    <3>2. {request[r].seed} \X Code \subseteq Row
      BY <3>1 DEF Row
    <3>3. mfa' \in 0..MaxSeeds /\ codes' \subseteq Row
      BY <1>18, <3>1, <3>2 DEF CommitEnrollment, FactorOK
    <3> QED BY <1>18, <3>3 DEF CommitEnrollment, FactorOK
  <2>3. CountOK'
    <3>1. disturbed' \in BOOLEAN
      BY <1>18, DisturbTyped DEF CommitEnrollment, CountOK
    <3>2. UNCHANGED <<clock, restarts>> /\ (Fault \/ UNCHANGED faults)
      BY <1>18 DEF CommitEnrollment, bounds
    <3> QED BY <3>1, <3>2, CountKept
  <2>4. RequestOK'
    <3>1. "revoke" \in Position /\ "undo" \in Position
      BY DEF Position
    <3> QED BY <1>18, <3>1, GoToTyped DEF CommitEnrollment
  <2> QED BY <2>1, <2>2, <2>3, <2>4
<1>19. ASSUME NEW r \in Request, UndoSecret(r)
      PROVE  Typed'
  <2>1. AccountOK' /\ SessionsOK'
    BY <1>19 DEF UndoSecret, AccountOK, SessionsOK, account, session
  <2>2. FactorOK'
    BY <1>19 DEF UndoSecret, FactorOK
  <2>3. CountOK'
    <3>1. disturbed' \in BOOLEAN
      BY <1>19, DisturbTyped DEF UndoSecret, CountOK
    <3>2. UNCHANGED <<clock, restarts>> /\ (Fault \/ UNCHANGED faults)
      BY <1>19 DEF UndoSecret, bounds
    <3> QED BY <3>1, <3>2, CountKept
  <2>4. RequestOK'
    BY <1>19, DoneTyped DEF UndoSecret
  <2> QED BY <2>1, <2>2, <2>3, <2>4
<1>20. ASSUME NEW r \in Request, NEW t \in Token, DisableFactor(r, t)
      PROVE  Typed'
  <2>1. AccountOK' /\ SessionsOK' /\ FactorOK' /\ CountOK'
    BY <1>20 DEF DisableFactor, AccountOK, SessionsOK, FactorOK, CountOK, account, session,
          factor, bounds, Time
  <2>2. RequestOK'
    BY <1>20, BeginsVerifyTyped DEF DisableFactor, factor
  <2> QED BY <2>1, <2>2
<1>21. ASSUME NEW r \in Request, CommitDisable(r)
      PROVE  Typed'
  <2>1. AccountOK' /\ SessionsOK'
    BY <1>21 DEF CommitDisable, AccountOK, SessionsOK, account, session
  <2>2. FactorOK'
    BY <1>21 DEF CommitDisable, FactorOK
  <2>3. CountOK'
    <3>1. disturbed' \in BOOLEAN
      BY <1>21, DisturbTyped DEF CommitDisable, CountOK
    <3>2. UNCHANGED <<clock, restarts>> /\ (Fault \/ UNCHANGED faults)
      BY <1>21 DEF CommitDisable, bounds
    <3> QED BY <3>1, <3>2, CountKept
  <2>4. RequestOK'
    <3>1. CASE Done(r)
      BY <1>21, <3>1, DoneTyped DEF CommitDisable
    <3>2. CASE GoTo(r, IF mfa > 0 THEN "delete" ELSE "revoke")
      <4> DEFINE p == IF mfa > 0 THEN "delete" ELSE "revoke"
      <4>1. p \in Position \ {"extend", "confirm"} /\ p \notin {"put", "commit"}
        BY DEF Position
      <4>2. GoTo(r, p) /\ UNCHANGED seeds
        BY <1>21, <3>2 DEF CommitDisable
      <4> HIDE DEF p
      <4> QED BY <4>1, <4>2, GoToTyped
    <3> QED BY <1>21, <3>1, <3>2 DEF CommitDisable
  <2> QED BY <2>1, <2>2, <2>3, <2>4
<1>22. ASSUME NEW r \in Request, DeleteSecret(r)
      PROVE  Typed'
  <2>1. AccountOK' /\ SessionsOK'
    BY <1>22 DEF DeleteSecret, AccountOK, SessionsOK, account, session
  <2>2. FactorOK'
    BY <1>22 DEF DeleteSecret, FactorOK
  <2>3. CountOK'
    <3>1. disturbed' \in BOOLEAN
      BY <1>22, DisturbTyped DEF DeleteSecret, CountOK
    <3>2. UNCHANGED <<clock, restarts>> /\ (Fault \/ UNCHANGED faults)
      BY <1>22 DEF DeleteSecret, bounds
    <3> QED BY <3>1, <3>2, CountKept
  <2>4. RequestOK'
    <3>1. "revoke" \in Position
      BY DEF Position
    <3> QED BY <1>22, <3>1, GoToTyped DEF DeleteSecret
  <2> QED BY <2>1, <2>2, <2>3, <2>4
<1>23. ASSUME NEW r \in Request, RevokeAll(r)
      PROVE  Typed'
  <2>1. AccountOK' /\ FactorOK'
    BY <1>23 DEF RevokeAll, AccountOK, FactorOK, account, factor
  <2>2. SessionsOK'
    BY <1>23, RevokedTyped DEF RevokeAll, SessionsOK
  <2>3. CountOK'
    BY <1>23, CountKept DEF RevokeAll, CountOK
  <2>4. RequestOK'
    BY <1>23, DoneTyped DEF RevokeAll, factor
  <2> QED BY <2>1, <2>2, <2>3, <2>4
<1>24. ASSUME Tick
      PROVE  Typed'
  <2>1. AccountOK' /\ SessionsOK' /\ FactorOK' /\ RequestOK'
    BY <1>24 DEF Tick, AccountOK, SessionsOK, FactorOK, RequestOK, account, session, factor
  <2>2. CountOK'
    <3>1. clock' \in Time
      BY <1>24 DEF Tick, CountOK, Time
    <3> QED BY <1>24, <3>1 DEF Tick, CountOK
  <2> QED BY <2>1, <2>2
<1>25. ASSUME Restart
      PROVE  Typed'
  <2>1. SessionsOK'
    BY <1>25 DEF Restart, SessionsOK, session
  <2>2. AccountOK'
    BY <1>25 DEF Restart, AccountOK, account
  <2>3. FactorOK'
    <3>1. NoPending \in [seed : 0..MaxSeeds, until : Nat]
      BY DEF NoPending
    <3> QED BY <1>25, <3>1 DEF Restart, FactorOK
  <2>4. CountOK'
    <3>1. disturbed' \in BOOLEAN
      BY <1>25 DEF Restart
    <3>2. restarts' \in 0..MaxRestarts
      BY <1>25 DEF Restart, CountOK
    <3> QED BY <1>25, <3>1, <3>2 DEF Restart, CountOK, Time
  <2>5. RequestOK'
    <3>1. request' = [q \in Request |-> Idle]
      BY <1>25 DEF Restart
    <3> QED BY <3>1 DEF RequestOK, Idle
  <2> QED BY <2>1, <2>2, <2>3, <2>4, <2>5
<1>26. CASE UNCHANGED vars
  BY <1>26 DEF vars, account, session, factor, bounds, AccountOK, SessionsOK, FactorOK,
        CountOK, RequestOK
<1> QED BY <1>1, <1>2, <1>3, <1>4, <1>5, <1>6, <1>7, <1>8, <1>9, <1>10, <1>11, <1>12, <1>13,
      <1>14, <1>15, <1>16, <1>17, <1>18, <1>19, <1>20, <1>21, <1>22, <1>23, <1>24, <1>25,
      <1>26
  DEF Next, Boot, Handle

-----------------------------------------------------------------------------
(* The administrator. *)

\* Setup is disabled by a statement of its own after bootstrap made the account; until
\* then only the place where the start is tells that there is one.
AccountInd == Typed /\ OneAdministrator /\ (boot = "disable" => users = 1)

\* Every step keeps setup, token and account together.
LEMMA AccountStep == AccountInd /\ [Next]_vars => AccountInd'
<1> SUFFICES ASSUME AccountInd, [Next]_vars PROVE AccountInd'
  OBVIOUS
<1>1. Typed'
  BY TypedStep DEF AccountInd
<1>2. users \in Nat
  BY DEF AccountInd, Typed, AccountOK
<1> DEFINE Rest == OneAdministrator /\ (boot = "disable" => users = 1)
<1> USE <1>2 DEF AccountInd, OneAdministrator
<1>3. ASSUME NEW given \in BOOLEAN, BootstrapAdmin(given) PROVE Rest'
  <2>1. CASE users = 0 /\ given
    <3>1. ~setup.claimed /\ setup' = setup /\ users' = 1
      BY <1>3, <2>1 DEF BootstrapAdmin
    <3> QED BY <3>1
  <2>2. CASE ~(users = 0 /\ given)
    BY <1>3, <2>2 DEF BootstrapAdmin
  <2> QED BY <2>1, <2>2
<1>4. ASSUME DisableSetup PROVE Rest'
  BY <1>4 DEF DisableSetup
<1>5. ASSUME NEW given \in BOOLEAN, InitializeSetup(given) PROVE Rest'
  BY <1>5 DEF InitializeSetup
<1>6. ASSUME NEW r \in Request, Claim(r) PROVE Rest'
  BY <1>6 DEF Claim, Begins
<1>7. ASSUME NEW r \in Request, Handle(r), ~Claim(r) PROVE Rest'
  <2>1. UNCHANGED <<boot, account>>
    BY <1>7 DEF Handle, Authenticate, DisableFactor, Extend, Login, ExternalSession, Verify,
          Issue, Confirm, TakePending, PutSecret, CommitEnrollment, UndoSecret,
          CommitDisable, DeleteSecret, RevokeAll
  <2> QED BY <2>1 DEF account
<1>8. ASSUME NEW c \in Config, SetConfig(c) PROVE Rest'
  BY <1>8 DEF SetConfig, account
<1>9. ASSUME NEW t \in Token, Logout(t) \/ Cleanup(t) \/ Begin(t) PROVE Rest'
  BY <1>9 DEF Logout, Cleanup, Begin, account
<1>10. ASSUME Tick \/ Restart PROVE Rest'
  BY <1>10 DEF Tick, Restart, account
<1>11. ASSUME UNCHANGED vars PROVE Rest'
  BY <1>11 DEF vars, account
<1>12. Rest'
  BY <1>3, <1>4, <1>5, <1>6, <1>7, <1>8, <1>9, <1>10, <1>11 DEF Next, Boot
<1> QED BY <1>1, <1>12

\* However the start, its bootstrap, browser setup and crashes between them interleave,
\* the tables stay typed, there is one administrator at most, and setup is over only once
\* there is one (SetupService.Claim, BootstrapAdmin, SetupService.Disable).
THEOREM OneAdministratorHolds == Spec => []AccountInv
<1>1. Init => AccountInd
  <2> SUFFICES ASSUME Init PROVE AccountInd
    OBVIOUS
  <2>1. ~setup.claimed
    BY DEF Init, NoSetup, Offered
  <2> QED BY <2>1, TypedInit DEF Init, AccountInd, OneAdministrator
<1>2. AccountInd => AccountInv
  BY TypeParts DEF AccountInd, AccountInv
<1> QED BY <1>1, <1>2, AccountStep, PTL DEF Spec

-----------------------------------------------------------------------------
(* Sessions. *)

\* A request that found a session alive still holds it while others revoke, sweep or
\* extend it.  What it is about to write is bounded as long as the row is live; and
\* a refused session is not, so nobody finds it alive again.
VisitBounded ==
    \A r \in Request : request[r].at = "extend" =>
        /\ ~request[r].late
        /\ sessions[request[r].token].state = "live" =>
              request[r].until =< sessions[request[r].token].absolute
\* A session that was refused is over.
RefusedDead == \A t \in refused : sessions[t].state # "live"
SessionRest == SessionBounded /\ VisitBounded /\ RefusedDead
SessionInd == Typed /\ SessionRest

\* No handler starts to extend a session in this step.
NoNewVisit == \A q \in Request : request'[q].at = "extend" => request'[q] = request[q]

\* The moves of the handlers but for Authenticate are of this kind.
LEMMA MoveNoVisit ==
    ASSUME RequestOK, NEW r \in Request,
           \/ Done(r)
           \/ \E p \in Position \ {"extend"} : GoTo(r, p)
           \/ \E p \in Position \ {"extend"} : \E op, seed : Begins(r, p, op, seed)
    PROVE  NoNewVisit
<1>1. CASE Done(r)
  BY <1>1 DEF NoNewVisit, Done, Idle, RequestOK
<1>2. ASSUME NEW p \in Position \ {"extend"}, GoTo(r, p) PROVE NoNewVisit
  <2>1. request[r] \in RequestRow
    BY DEF RequestOK
  <2>2. [request[r] EXCEPT !.at = p].at = p
    BY <2>1 DEF RequestRow
  <2> QED BY <1>2, <2>2 DEF NoNewVisit, GoTo, RequestOK
<1>3. ASSUME NEW p \in Position \ {"extend"}, NEW op, NEW seed, Begins(r, p, op, seed)
      PROVE NoNewVisit
  <2>1. [Idle EXCEPT !.at = p, !.op = op, !.seed = seed].at = p
    BY DEF Idle
  <2> QED BY <1>3, <2>1 DEF NoNewVisit, Begins, RequestOK
<1> QED BY <1>1, <1>2, <1>3

\* A step in which no session starts or comes back and nobody starts to extend one
\* keeps the invariant.
LEMMA SessionsEbb ==
    ASSUME Typed, SessionRest, NoNewVisit,
           \A t \in Token : sessions'[t].expires =< sessions'[t].absolute,
           \A t \in Token : sessions'[t].state = "live" =>
                sessions[t].state = "live" /\ sessions'[t].absolute = sessions[t].absolute,
           \A t \in refused' : t \in refused \/ sessions'[t].state # "live"
    PROVE  SessionRest'
<1>1. SessionBounded'
  BY DEF SessionBounded
<1>2. VisitBounded'
  <2> SUFFICES ASSUME NEW r \in Request, request'[r].at = "extend"
               PROVE  /\ ~request'[r].late
                      /\ sessions'[request'[r].token].state = "live" =>
                            request'[r].until =< sessions'[request'[r].token].absolute
    BY DEF VisitBounded
  <2>1. request'[r] = request[r] /\ request[r].at = "extend" /\ request[r].token \in Token
    BY DEF NoNewVisit, Typed, RequestOK
  <2>2. ~request[r].late
    BY <2>1 DEF SessionRest, VisitBounded
  <2>3. sessions[request[r].token].state = "live" =>
            request[r].until =< sessions[request[r].token].absolute
    BY <2>1 DEF SessionRest, VisitBounded
  <2> QED BY <2>1, <2>2, <2>3
<1>3. RefusedDead'
  BY DEF RefusedDead, SessionRest, Typed, SessionsOK
<1> QED BY <1>1, <1>2, <1>3 DEF SessionRest

\* The rows that Revoked and RevokedAll leave are as old as before, and none is live anew.
LEMMA RevokedEbbs ==
    ASSUME NEW rows \in [Token -> SessionRow], NEW u \in Token \cup {NoToken}, NEW t \in Token,
           NEW after \in {Revoked(rows, u), RevokedAll(rows)}
    PROVE  /\ after[t].expires = rows[t].expires /\ after[t].absolute = rows[t].absolute
           /\ after[t].state = "live" => rows[t].state = "live"
           /\ u = t => after[t].state # "live"
<1>1. rows[t] \in SessionRow
  OBVIOUS
<1>2. CASE after = Revoked(rows, u)
  BY <1>1, <1>2, Bounds DEF Revoked, SessionRow
<1>3. CASE after = RevokedAll(rows)
  BY <1>1, <1>3 DEF RevokedAll, SessionRow
<1> QED BY <1>2, <1>3

\* The step of a request that is not about sessions.
LEMMA OtherHandlersEbb ==
    ASSUME Typed, SessionRest, UNCHANGED <<sessions, refused>>, NoNewVisit
    PROVE  SessionRest'
<1>1. \A t \in Token : sessions'[t].expires =< sessions'[t].absolute
  BY DEF SessionRest, SessionBounded
<1>2. \A t \in Token : sessions'[t].state = "live" =>
          sessions[t].state = "live" /\ sessions'[t].absolute = sessions[t].absolute
  OBVIOUS
<1>3. \A t \in refused' : t \in refused \/ sessions'[t].state # "live"
  OBVIOUS
<1> QED BY <1>1, <1>2, <1>3, SessionsEbb

\* Every step keeps the sessions within their limits.
LEMMA SessionStep == SessionInd /\ [Next]_vars => SessionInd'
<1> SUFFICES ASSUME SessionInd, [Next]_vars PROVE SessionInd'
  OBVIOUS
<1>0. Typed'
  BY TypedStep DEF SessionInd
<1> USE DEF SessionInd
<1>a. SessionsOK /\ RequestOK /\ CountOK
  BY DEF Typed
<1>b. sessions \in [Token -> SessionRow] /\ refused \subseteq Token
  BY <1>a DEF SessionsOK
<1>c. \A t \in Token : sessions[t].expires =< sessions[t].absolute
  BY DEF SessionRest, SessionBounded
<1>1. ASSUME NEW r \in Request, NEW t \in Token, Authenticate(r, t) PROVE SessionRest'
  <2>1. CASE Live(t)
    <3> DEFINE late == t \in refused
               row == Visiting(t, Until(sessions[t].absolute), late)
    <3>1. UNCHANGED <<sessions, refused>> /\ request' = [request EXCEPT ![r] = row]
      BY <1>1, <2>1 DEF Authenticate, Visiting
    <3>2. t \notin refused
      BY <2>1 DEF Live, SessionRest, RefusedDead
    <3>3. Until(sessions[t].absolute) \in Nat /\ late \in BOOLEAN /\ ~late
          /\ Until(sessions[t].absolute) =< sessions[t].absolute
      BY <1>a, <1>b, <3>2, UntilBounded DEF SessionRow
    <3> HIDE DEF late
    <3>4. row.token = t /\ row.until = Until(sessions[t].absolute) /\ ~row.late
      BY <3>3, VisitRow
    <3> HIDE DEF row
    <3>5. VisitBounded'
      <4> SUFFICES ASSUME NEW q \in Request, request'[q].at = "extend"
                   PROVE  /\ ~request'[q].late
                          /\ sessions'[request'[q].token].state = "live" =>
                                request'[q].until =< sessions'[request'[q].token].absolute
        BY DEF VisitBounded
      <4>1. request'[q] = IF q = r THEN row ELSE request[q]
        BY <1>a, <3>1 DEF RequestOK
      <4>2. CASE q = r
        BY <3>1, <3>3, <3>4, <4>1, <4>2
      <4>3. CASE q # r
        BY <3>1, <4>1, <4>3 DEF SessionRest, VisitBounded
      <4> QED BY <4>2, <4>3
    <3> QED BY <3>1, <3>5 DEF SessionRest, SessionBounded, RefusedDead
  <2>2. CASE ~Live(t)
    <3>1. NoNewVisit
      BY <1>1, <2>2 DEF Authenticate, NoNewVisit
    <3>2. CASE sessions' = Revoked(sessions, t) /\ refused' = refused \cup {t}
      <4>1. \A u \in Token : sessions'[u].expires =< sessions'[u].absolute
        BY <1>b, <1>c, <3>2, RevokedEbbs
      <4>2. \A u \in Token : sessions'[u].state = "live" =>
                sessions[u].state = "live" /\ sessions'[u].absolute = sessions[u].absolute
        BY <1>b, <3>2, RevokedEbbs
      <4>3. \A u \in refused' : u \in refused \/ sessions'[u].state # "live"
        BY <1>b, <3>2, RevokedEbbs
      <4> QED BY <3>1, <4>1, <4>2, <4>3, SessionsEbb
    <3>3. CASE UNCHANGED <<sessions, refused>>
      BY <3>1, <3>3, OtherHandlersEbb
    <3> QED BY <1>1, <2>2, <3>2, <3>3 DEF Authenticate
  <2> QED BY <2>1, <2>2
<1>2. ASSUME NEW r \in Request, Extend(r) PROVE SessionRest'
  <2> DEFINE u == request[r].token
  <2>1. u \in Token
    BY <1>a, <1>2 DEF Extend, RequestOK
  <2>2. sessions[u].state = "live" => request[r].until =< sessions[u].absolute
    BY <1>2 DEF Extend, SessionRest, VisitBounded
  <2>3. \A t \in Token : /\ sessions'[t].absolute = sessions[t].absolute
                         /\ sessions'[t].state = sessions[t].state
                         /\ sessions'[t].expires =< sessions'[t].absolute
    BY <1>b, <1>c, <1>2, <2>1, <2>2 DEF Extend, SessionRow
  <2>4. NoNewVisit
    BY <1>a, <1>2, MoveNoVisit DEF Extend
  <2>5. UNCHANGED refused
    BY <1>2 DEF Extend
  <2> QED BY <2>3, <2>4, <2>5, SessionsEbb
<1>3. ASSUME NEW t \in Token, Logout(t) PROVE SessionRest'
  <2>1. sessions' \in {Revoked(sessions, t), RevokedAll(sessions)}
    BY <1>3 DEF Logout
  <2>2. UNCHANGED refused /\ NoNewVisit
    BY <1>3 DEF Logout, NoNewVisit
  <2>3. \A u \in Token : sessions'[u].expires =< sessions'[u].absolute
    BY <1>b, <1>c, <2>1, RevokedEbbs
  <2>4. \A u \in Token : sessions'[u].state = "live" =>
            sessions[u].state = "live" /\ sessions'[u].absolute = sessions[u].absolute
    BY <1>b, <2>1, RevokedEbbs
  <2> QED BY <2>2, <2>3, <2>4, SessionsEbb
<1>4. ASSUME NEW t \in Token, Cleanup(t) PROVE SessionRest'
  <2>1. UNCHANGED refused /\ NoNewVisit
    BY <1>4 DEF Cleanup, NoNewVisit
  <2>2. \A u \in Token : sessions'[u] = IF u = t THEN NoSession ELSE sessions[u]
    BY <1>b, <1>4 DEF Cleanup
  <2>3. \A u \in Token : sessions'[u].expires =< sessions'[u].absolute
    BY <1>c, <2>2 DEF NoSession
  <2>4. \A u \in Token : sessions'[u].state = "live" =>
            sessions[u].state = "live" /\ sessions'[u].absolute = sessions[u].absolute
    BY <2>2 DEF NoSession
  <2> QED BY <2>1, <2>3, <2>4, SessionsEbb
<1>5. ASSUME NEW r \in Request, NEW t \in Token, NEW previous \in Token \cup {NoToken},
             Issue(r, t, previous)
      PROVE SessionRest'
  <2> DEFINE rows == Revoked(sessions, previous)
  <2>1. rows \in [Token -> SessionRow]
    BY <1>b, RevokedTyped
  <2>2. \A u \in Token : sessions'[u] = IF u = t THEN Issued(t) ELSE rows[u]
    BY <1>5, <2>1 DEF Issue
  <2>3. \A u \in Token \ {t} :
            /\ sessions'[u].expires = sessions[u].expires
            /\ sessions'[u].absolute = sessions[u].absolute
            /\ sessions'[u].state = "live" => sessions[u].state = "live"
    BY <1>b, <2>2, RevokedEbbs
  <2>4. SessionBounded'
    BY <1>a, <1>c, <2>2, <2>3, IssuedBounded DEF SessionBounded
  <2>5. VisitBounded'
    <3> SUFFICES ASSUME NEW q \in Request, request'[q].at = "extend"
                 PROVE  /\ ~request'[q].late
                        /\ sessions'[request'[q].token].state = "live" =>
                              request'[q].until =< sessions'[request'[q].token].absolute
      BY DEF VisitBounded
    <3>1. NoNewVisit
      BY <1>a, <1>5, MoveNoVisit DEF Issue
    <3>2. request'[q] = request[q]
      BY <3>1 DEF NoNewVisit
    <3>3. request[q].token \in Token \ {t}
      BY <1>a, <1>5, <3>2 DEF Issue, RequestOK
    <3>4. ~request[q].late
      BY <3>2 DEF SessionRest, VisitBounded
    <3>5. sessions[request[q].token].state = "live" =>
              request[q].until =< sessions[request[q].token].absolute
      BY <3>2 DEF SessionRest, VisitBounded
    <3> QED BY <2>3, <3>2, <3>3, <3>4, <3>5
  <2>6. RefusedDead'
    <3>1. refused' = refused \ {t}
      BY <1>5 DEF Issue
    <3> QED BY <1>b, <2>3, <3>1 DEF RefusedDead, SessionRest
  <2> QED BY <2>4, <2>5, <2>6 DEF SessionRest
<1>6. ASSUME NEW r \in Request, RevokeAll(r) PROVE SessionRest'
  <2>1. UNCHANGED refused /\ NoNewVisit
    BY <1>a, <1>6, MoveNoVisit DEF RevokeAll
  <2>2. CASE UNCHANGED sessions
    BY <2>1, <2>2, OtherHandlersEbb
  <2>3. CASE sessions' = RevokedAll(sessions)
    <3>1. \A u \in Token : sessions'[u].expires =< sessions'[u].absolute
      BY <1>b, <1>c, <2>3, RevokedEbbs
    <3>2. \A u \in Token : sessions'[u].state = "live" =>
              sessions[u].state = "live" /\ sessions'[u].absolute = sessions[u].absolute
      BY <1>b, <2>3, RevokedEbbs
    <3> QED BY <2>1, <3>1, <3>2, SessionsEbb
  <2> QED BY <1>6, <2>2, <2>3 DEF RevokeAll
<1>7. ASSUME NEW r \in Request,
             Claim(r) \/ Login(r) \/ ExternalSession(r) \/ (\E t \in Token : DisableFactor(r, t))
             \/ (\E t \in Token, seed \in Begun : Confirm(r, t, seed))
      PROVE SessionRest'
  <2>1. UNCHANGED <<sessions, refused>>
    BY <1>7 DEF Claim, Login, ExternalSession, DisableFactor, Confirm, session
  <2>2. {"issue", "verify", "disable", "confirm"} \subseteq Position \ {"extend"}
    BY DEF Position
  <2>3. \E p \in Position \ {"extend"} : \E op, seed : Begins(r, p, op, seed)
    BY <1>7, <2>2 DEF Claim, Login, ExternalSession, DisableFactor, Confirm, BeginsVerify, AfterVerify
  <2> QED BY <1>a, <2>1, <2>3, MoveNoVisit, OtherHandlersEbb
<1>8. ASSUME NEW r \in Request,
             (\E seed \in Begun, code \in Code \cup {NoCode} : Verify(r, seed, code))
             \/ TakePending(r) \/ PutSecret(r) \/ CommitEnrollment(r) \/ UndoSecret(r)
             \/ CommitDisable(r) \/ DeleteSecret(r)
      PROVE SessionRest'
  <2>1. UNCHANGED <<sessions, refused>>
    BY <1>8 DEF Verify, TakePending, PutSecret, CommitEnrollment, UndoSecret, CommitDisable,
          DeleteSecret, session
  <2>2. {"issue", "disable", "put", "commit", "undo", "delete", "revoke"}
            \subseteq Position \ {"extend"}
    BY DEF Position
  <2>3. Done(r) \/ \E p \in Position \ {"extend"} : GoTo(r, p)
    BY <1>8, <2>2 DEF Verify, Passed, AfterVerify, TakePending, PutSecret, CommitEnrollment,
          UndoSecret, CommitDisable, DeleteSecret
  <2> QED BY <1>a, <2>1, <2>3, MoveNoVisit, OtherHandlersEbb
<1>9. ASSUME NEW r \in Request, Handle(r) PROVE SessionRest'
  BY <1>1, <1>2, <1>5, <1>6, <1>7, <1>8, <1>9 DEF Handle
<1>10. ASSUME Boot \/ DisableSetup \/ (\E c \in Config : SetConfig(c))
              \/ (\E t \in Token : Begin(t)) \/ Tick \/ UNCHANGED vars
       PROVE SessionRest'
  <2>1. UNCHANGED <<sessions, refused, request>>
    BY <1>10 DEF Boot, BootstrapAdmin, InitializeSetup, DisableSetup, SetConfig, Begin, Tick,
          session, vars
  <2> QED BY <2>1, OtherHandlersEbb DEF NoNewVisit
<1>11. ASSUME Restart PROVE SessionRest'
  <2>1. UNCHANGED <<sessions, refused>> /\ request' = [q \in Request |-> Idle]
    BY <1>11 DEF Restart, session
  <2> QED BY <2>1, OtherHandlersEbb DEF NoNewVisit, Idle
<1>12. SessionRest'
  BY <1>3, <1>4, <1>9, <1>10, <1>11 DEF Next
<1> QED BY <1>0, <1>12

\* No session outlives its absolute expiry and none that was refused is served again,
\* although a request extends the row long after it read it (Sessions.Authenticate,
\* Sessions.Issue, Sessions.Revoke, Sessions.Cleanup).
THEOREM SessionsEnd == Spec => []SessionInv
<1>1. Init => SessionInd
  <2> SUFFICES ASSUME Init PROVE SessionInd
    OBVIOUS
  <2>1. SessionBounded /\ RefusedDead
    BY DEF Init, SessionBounded, RefusedDead, NoSession
  <2>2. VisitBounded
    BY DEF Init, VisitBounded, Idle
  <2> QED BY <2>1, <2>2, TypedInit DEF SessionInd, SessionRest
<1>2. SessionInd => SessionInv
  BY DEF SessionInd, SessionRest, SessionInv, RefusedForGood, VisitBounded
<1> QED BY <1>1, <1>2, SessionStep, PTL DEF Spec

-----------------------------------------------------------------------------
(* The second factor. *)

\* A seed whose recovery codes nobody has used.
Fresh(seed) == \A code \in Code : uses[<<seed, code>>] = 0

\* The positions between taking the pending seed and committing it.
InHand(r) == request[r].at \in {"put", "commit"}

\* The seed an enrolment is about to commit has codes nobody used, because no other
\* handler, nor the account, nor the pending enrolment has that seed.
FreshSeeds ==
    /\ mfa =< seeds /\ pending.seed =< seeds
    /\ \A seed \in 1..MaxSeeds : seed > seeds => Fresh(seed)
    /\ pending.seed > 0 => pending.seed # mfa /\ Fresh(pending.seed)
    /\ \A r \in Request : InHand(r) =>
          /\ request[r].seed \notin {mfa, pending.seed}
          /\ Fresh(request[r].seed)
    /\ \A q, r \in Request :
          InHand(q) /\ InHand(r) /\ request[q].seed = request[r].seed => q = r

\* The codes on record are the unused ones of the enrolment.
CodesExact ==
    /\ \A row \in Row : uses[row] =< 1
    /\ mfa = 0 => codes = {}
    /\ mfa > 0 => \A row \in Row : row \in codes <=> row[1] = mfa /\ uses[row] = 0

\* Where the stored seed and the enrolment differ, as long as no change of the factor
\* overlapped another one or failed: one handler at a time is between the two writes.
Halfway(r) == request[r].at \in {"put", "commit", "delete"}
OneHalfway ==
    ~disturbed =>
        /\ \A q, r \in Request : Halfway(q) /\ Halfway(r) => q = r
        /\ \A r \in Request :
              /\ request[r].at # "undo"
              /\ request[r].at = "commit" => secret = request[r].seed
              /\ request[r].at = "delete" => mfa = 0
        /\ (\A r \in Request : request[r].at \notin {"commit", "delete"}) => secret = mfa

FactorRest == FreshSeeds /\ CodesExact /\ OneHalfway
FactorInd == Typed /\ FactorRest

\* The handlers that are between two writes of the factor stay where they are, and no
\* other one gets there.
Critical == {"put", "commit", "undo", "delete"}
QuietMoves ==
    \A q \in Request : request[q].at \in Critical \/ request'[q].at \in Critical =>
        request'[q] = request[q]

\* Where the handlers are after one of them went on, or ended, or began.
LEMMA AfterGoTo ==
    ASSUME RequestOK, NEW r \in Request, NEW p, GoTo(r, p)
    PROVE  /\ request'[r].at = p /\ request'[r].seed = request[r].seed
           /\ \A q \in Request \ {r} : request'[q] = request[q]
<1>1. request[r] \in RequestRow
  BY DEF RequestOK
<1>2. [request[r] EXCEPT !.at = p].at = p /\ [request[r] EXCEPT !.at = p].seed = request[r].seed
  BY <1>1 DEF RequestRow
<1> QED BY <1>2 DEF GoTo, RequestOK

\* A request that is done is idle, the others stay where they are.
LEMMA AfterDone ==
    ASSUME RequestOK, NEW r \in Request, Done(r)
    PROVE  request'[r].at = "idle" /\ \A q \in Request \ {r} : request'[q] = request[q]
BY DEF Done, Idle, RequestOK

\* A request that begins was idle, the others stay where they are.
LEMMA AfterBegins ==
    ASSUME RequestOK, NEW r \in Request, NEW p, NEW op, NEW seed, Begins(r, p, op, seed)
    PROVE  /\ request[r].at = "idle" /\ request'[r].at = p
           /\ \A q \in Request \ {r} : request'[q] = request[q]
<1>1. [Idle EXCEPT !.at = p, !.op = op, !.seed = seed].at = p
  BY DEF Idle
<1> QED BY <1>1 DEF Begins, RequestOK

\* A step that leaves the factor alone.
LEMMA FactorQuiet ==
    ASSUME FactorRest, UNCHANGED <<factor, disturbed>>, QuietMoves
    PROVE  FactorRest'
<1>1. FreshSeeds'
  <2>1. \A r \in Request : InHand(r)' => InHand(r) /\ request'[r] = request[r]
    BY DEF InHand, QuietMoves, Critical
  <2>2. \A seed : Fresh(seed)' <=> Fresh(seed)
    BY DEF Fresh, factor
  <2> QED BY <2>1, <2>2 DEF FreshSeeds, FactorRest, factor
<1>2. CodesExact'
  BY DEF CodesExact, FactorRest, factor
<1>3. OneHalfway'
  <2> SUFFICES ASSUME ~disturbed PROVE OneHalfway'
    BY DEF OneHalfway
  <2>1. \A r \in Request : Halfway(r)' => Halfway(r) /\ request'[r] = request[r]
    BY DEF Halfway, QuietMoves, Critical
  <2>2. \A q, r \in Request : Halfway(q)' /\ Halfway(r)' => q = r
    BY <2>1 DEF OneHalfway, FactorRest
  <2>3. \A r \in Request :
            /\ request'[r].at # "undo"
            /\ request'[r].at = "commit" => secret' = request'[r].seed
            /\ request'[r].at = "delete" => mfa' = 0
    BY DEF QuietMoves, Critical, OneHalfway, FactorRest, factor
  <2>4. ASSUME \A r \in Request : request'[r].at \notin {"commit", "delete"}
        PROVE  secret' = mfa'
    <3>1. \A r \in Request : request[r].at \notin {"commit", "delete"}
      BY <2>4 DEF QuietMoves, Critical
    <3> QED BY <3>1 DEF OneHalfway, FactorRest, factor
  <2> QED BY <2>2, <2>3, <2>4 DEF OneHalfway
<1> QED BY <1>1, <1>2, <1>3 DEF FactorRest

\* Every step keeps the factor, its codes and its requests together.
LEMMA FactorStep == FactorInd /\ [Next]_vars => FactorInd'
<1> SUFFICES ASSUME FactorInd, [Next]_vars PROVE FactorInd'
  OBVIOUS
<1>0. Typed'
  BY TypedStep DEF FactorInd
<1> USE DEF FactorInd
<1>a. RequestOK /\ FactorOK
  BY DEF Typed
<1>b. /\ mfa \in Nat /\ secret \in Nat /\ seeds \in Nat /\ pending.seed \in Nat
      /\ seeds =< MaxSeeds /\ MaxSeeds \in Nat
      /\ uses \in [Row -> Nat] /\ codes \subseteq Row
  BY <1>a, Bounds DEF FactorOK
<1>c. FreshSeeds /\ CodesExact /\ OneHalfway
  BY DEF FactorRest
<1>d. \A r \in Request : InHand(r) => request[r].seed \in 1..seeds
  BY <1>a DEF RequestOK, InHand
<1>1. ASSUME Boot \/ DisableSetup \/ (\E c \in Config : SetConfig(c))
             \/ (\E t \in Token : Logout(t) \/ Cleanup(t)) \/ Tick \/ UNCHANGED vars
      PROVE  FactorRest'
  <2>1. UNCHANGED <<factor, disturbed, request>>
    BY <1>1 DEF Boot, BootstrapAdmin, InitializeSetup, DisableSetup, SetConfig, Logout, Cleanup,
          Tick, vars
  <2> QED BY <2>1, FactorQuiet DEF QuietMoves
<1>2. ASSUME NEW r \in Request,
             \/ \E t \in Token, previous \in Token \cup {NoToken} : Issue(r, t, previous)
             \/ Extend(r) \/ RevokeAll(r)
      PROVE  FactorRest'
  <2>1. /\ UNCHANGED <<factor, disturbed>> /\ Done(r)
        /\ request[r].at \in {"issue", "extend", "revoke"}
    BY <1>2 DEF Issue, Extend, RevokeAll
  <2>2. QuietMoves
    BY <1>a, <2>1, AfterDone DEF QuietMoves, Critical
  <2> QED BY <2>1, <2>2, FactorQuiet
<1>3. ASSUME NEW r \in Request, NEW t \in Token, Authenticate(r, t) PROVE FactorRest'
  <2>1. UNCHANGED <<factor, disturbed>> /\ request[r].at = "idle"
    BY <1>3 DEF Authenticate
  <2>2. QuietMoves
    <3>1. CASE UNCHANGED request
      BY <3>1 DEF QuietMoves
    <3>2. CASE ~UNCHANGED request
      <4> DEFINE row == [Idle EXCEPT !.at = "extend", !.token = t,
                                     !.until = Until(sessions[t].absolute),
                                     !.late = t \in refused]
      <4>1. row.at = "extend"
        BY DEF Idle
      <4>2. request' = [request EXCEPT ![r] = row]
        BY <1>3, <3>2 DEF Authenticate
      <4> HIDE DEF row
      <4> QED BY <1>a, <2>1, <4>1, <4>2 DEF QuietMoves, Critical, RequestOK
    <3> QED BY <3>1, <3>2
  <2> QED BY <2>1, <2>2, FactorQuiet
<1>4. ASSUME NEW r \in Request,
             Claim(r) \/ Login(r) \/ ExternalSession(r) \/ (\E t \in Token : DisableFactor(r, t))
             \/ (\E t \in Token, seed \in Begun : Confirm(r, t, seed))
      PROVE FactorRest'
  <2>1. UNCHANGED <<factor, disturbed>>
    BY <1>4 DEF Claim, Login, ExternalSession, DisableFactor, Confirm
  <2>2. \E p \in {"issue", "verify", "disable", "confirm"} : \E op, seed : Begins(r, p, op, seed)
    BY <1>4 DEF Claim, Login, ExternalSession, DisableFactor, Confirm, BeginsVerify, AfterVerify
  <2>3. QuietMoves
    BY <1>a, <2>2, AfterBegins DEF QuietMoves, Critical
  <2> QED BY <2>1, <2>3, FactorQuiet
<1>5. ASSUME NEW r \in Request, NEW seed \in Begun, NEW code \in Code \cup {NoCode},
             Verify(r, seed, code)
      PROVE FactorRest'
  <2>1. request[r].at = "verify" /\ UNCHANGED <<mfa, secret, pending, seeds, disturbed>>
    BY <1>5 DEF Verify
  <2>2. Done(r) \/ \E p \in {"issue", "disable"} : GoTo(r, p)
    BY <1>5 DEF Verify, Passed, AfterVerify
  <2>3. QuietMoves
    BY <1>a, <2>1, <2>2, AfterDone, AfterGoTo DEF QuietMoves, Critical
  <2>4. CASE UNCHANGED <<codes, uses>>
    BY <2>1, <2>3, <2>4, FactorQuiet DEF factor
  <2> DEFINE row == <<seed, code>>
  <2>5. CASE /\ mfa > 0 /\ row \in codes
             /\ codes' = codes \ {row}
             /\ uses' = [uses EXCEPT ![row] = @ + 1]
    <3>1. row \in Row /\ row[1] = mfa /\ uses[row] = 0
      BY <1>b, <1>c, <2>5 DEF CodesExact
    <3>2. \A w \in Row : uses'[w] = IF w = row THEN 1 ELSE uses[w]
      BY <1>b, <2>5, <3>1
    <3>3. CodesExact'
      <4> HIDE DEF row
      <4>1. \A w \in Row : uses'[w] =< 1
        BY <1>c, <3>2 DEF CodesExact
      <4>2. \A w \in Row : w \in codes' <=> w[1] = mfa /\ uses'[w] = 0
        BY <1>b, <1>c, <2>5, <3>1, <3>2 DEF CodesExact
      <4> QED BY <2>1, <2>5, <4>1, <4>2 DEF CodesExact
    <3>4. ASSUME NEW s \in 1..MaxSeeds, s # mfa, Fresh(s) PROVE Fresh(s)'
      <4> SUFFICES ASSUME NEW c \in Code PROVE uses'[<<s, c>>] = 0
        BY DEF Fresh
      <4>1. <<s, c>> \in Row /\ <<s, c>> # row /\ uses[<<s, c>>] = 0
        BY <3>1, <3>4 DEF Row, Fresh
      <4> HIDE DEF row
      <4> QED BY <3>2, <4>1
    <3>5. FreshSeeds'
      <4>1. \A s \in 1..MaxSeeds : s > seeds => Fresh(s)'
        BY <1>b, <1>c, <3>4 DEF FreshSeeds
      <4>2. pending.seed > 0 => Fresh(pending.seed)'
        BY <1>b, <1>c, <2>1, <3>4 DEF FreshSeeds
      <4>3. ASSUME NEW q \in Request, InHand(q)'
            PROVE  /\ InHand(q) /\ request'[q].seed = request[q].seed
                   /\ Fresh(request[q].seed)'
        <5>1. InHand(q) /\ request'[q] = request[q]
          BY <2>3, <4>3 DEF QuietMoves, InHand, Critical
        <5>2. request[q].seed \in 1..MaxSeeds
          BY <1>b, <1>d, <5>1
        <5> QED BY <1>c, <3>4, <5>1, <5>2 DEF FreshSeeds
      <4> QED BY <1>c, <2>1, <4>1, <4>2, <4>3 DEF FreshSeeds
    <3>6. OneHalfway'
      <4> SUFFICES ASSUME ~disturbed PROVE OneHalfway'
        BY <2>1 DEF OneHalfway
      <4>1. \A q \in Request : Halfway(q)' => Halfway(q)
        BY <2>3 DEF Halfway, QuietMoves, Critical
      <4>2. \A q \in Request :
                /\ request'[q].at # "undo"
                /\ request'[q].at = "commit" => secret = request'[q].seed
                /\ request'[q].at = "delete" => mfa = 0
        BY <1>c, <2>3 DEF QuietMoves, Critical, OneHalfway
      <4>3. ASSUME \A q \in Request : request'[q].at \notin {"commit", "delete"}
            PROVE  secret = mfa
        <5>1. \A q \in Request : request[q].at \notin {"commit", "delete"}
          BY <2>3, <4>3 DEF QuietMoves, Critical
        <5> QED BY <1>c, <5>1 DEF OneHalfway
      <4> QED BY <1>c, <2>1, <4>1, <4>2, <4>3 DEF OneHalfway
    <3> QED BY <3>3, <3>5, <3>6 DEF FactorRest
  <2> QED BY <1>5, <2>4, <2>5 DEF Verify
<1>6. ASSUME NEW t \in Token, Begin(t) PROVE FactorRest'
  <2>1. /\ seeds < MaxSeeds /\ seeds' = seeds + 1 /\ pending'.seed = seeds + 1
        /\ UNCHANGED <<mfa, secret, codes, uses, request, disturbed>>
    BY <1>6 DEF Begin
  <2>2. \A s : Fresh(s)' <=> Fresh(s)
    BY <2>1 DEF Fresh
  <2>3. Fresh(seeds + 1)
    BY <1>b, <1>c, <2>1 DEF FreshSeeds
  <2>4. \A r \in Request : InHand(r)' <=> InHand(r)
    BY <2>1 DEF InHand
  <2>5. FreshSeeds'
    <3>1. mfa' =< seeds' /\ pending'.seed =< seeds' /\ pending'.seed # mfa'
      BY <1>b, <1>c, <2>1 DEF FreshSeeds
    <3>2. \A s \in 1..MaxSeeds : s > seeds' => Fresh(s)'
      BY <1>b, <1>c, <2>1, <2>2 DEF FreshSeeds
    <3>3. \A r \in Request : InHand(r)' =>
              request'[r].seed \notin {mfa', pending'.seed} /\ Fresh(request[r].seed)'
      BY <1>b, <1>c, <1>d, <2>1, <2>2, <2>4 DEF FreshSeeds
    <3>4. \A q, r \in Request :
              InHand(q)' /\ InHand(r)' /\ request'[q].seed = request'[r].seed => q = r
      BY <1>c, <2>1, <2>4 DEF FreshSeeds
    <3>5. Fresh(pending.seed)'
      BY <2>1, <2>2, <2>3
    <3> QED BY <3>1, <3>2, <3>3, <3>4, <3>5 DEF FreshSeeds
  <2>6. CodesExact' /\ OneHalfway'
    BY <1>c, <2>1 DEF CodesExact, OneHalfway, Halfway
  <2> QED BY <2>5, <2>6 DEF FactorRest
<1>7. ASSUME NEW r \in Request, TakePending(r) PROVE FactorRest'
  <2>1. request[r].at = "confirm" /\ UNCHANGED <<mfa, secret, codes, uses, seeds>>
    BY <1>7 DEF TakePending
  <2>2. CASE Done(r) /\ UNCHANGED <<pending, disturbed>>
    <3>1. QuietMoves
      BY <1>a, <2>1, <2>2, AfterDone DEF QuietMoves, Critical
    <3> QED BY <2>1, <2>2, <3>1, FactorQuiet DEF factor
  <2>3. CASE /\ IsPending(request[r].seed) /\ pending' = NoPending
             /\ GoTo(r, "put") /\ Disturb(r)
    <3>1. /\ request'[r].at = "put" /\ request'[r].seed = request[r].seed
          /\ \A q \in Request \ {r} : request'[q] = request[q]
      BY <1>a, <2>3, AfterGoTo
    <3>2. request[r].seed \in 1..seeds /\ pending.seed = request[r].seed /\ pending'.seed = 0
      BY <1>a, <2>1, <2>3 DEF IsPending, NoPending, RequestOK
    <3>3. \A s : Fresh(s)' <=> Fresh(s)
      BY <2>1 DEF Fresh
    <3>4. \A q \in Request \ {r} : InHand(q)' <=> InHand(q)
      BY <3>1 DEF InHand
    <3>5. FreshSeeds'
      <4>1. mfa' =< seeds' /\ pending'.seed =< seeds' /\ pending'.seed = 0
        BY <1>b, <1>c, <2>1, <3>2 DEF FreshSeeds
      <4>2. \A s \in 1..MaxSeeds : s > seeds' => Fresh(s)'
        BY <1>c, <2>1, <3>3 DEF FreshSeeds
      <4>3. \A q \in Request : InHand(q)' =>
                request'[q].seed \notin {mfa', pending'.seed} /\ Fresh(request[q].seed)'
        <5>1. request[r].seed # mfa /\ Fresh(request[r].seed)
          BY <1>b, <1>c, <3>2 DEF FreshSeeds
        <5>2. ASSUME NEW q \in Request \ {r}, InHand(q)
              PROVE  request[q].seed # mfa /\ request[q].seed # 0 /\ Fresh(request[q].seed)
          BY <1>b, <1>c, <1>d, <5>2 DEF FreshSeeds
        <5> QED BY <1>b, <2>1, <3>1, <3>2, <3>3, <3>4, <5>1, <5>2
      <4>4. \A p, q \in Request :
                InHand(p)' /\ InHand(q)' /\ request'[p].seed = request'[q].seed => p = q
        <5>1. \A q \in Request \ {r} : InHand(q) => request[q].seed # request[r].seed
          BY <1>c, <3>2 DEF FreshSeeds
        <5> QED BY <1>c, <3>1, <3>4, <5>1 DEF FreshSeeds
      <4> QED BY <4>1, <4>2, <4>3, <4>4 DEF FreshSeeds
    <3>6. CodesExact'
      BY <1>c, <2>1 DEF CodesExact
    <3>7. OneHalfway'
      <4> SUFFICES ASSUME ~disturbed' PROVE OneHalfway'
        BY DEF OneHalfway
      <4>1. ~disturbed /\ \A q \in Request \ {r} : ~Changing(q)
        BY <2>3 DEF Disturb
      <4>2. \A q \in Request : request[q].at \notin {"put", "commit", "undo", "delete"}
        BY <2>1, <4>1 DEF Changing
      <4>3. secret' = mfa'
        BY <1>c, <2>1, <4>1, <4>2 DEF OneHalfway
      <4>4. \A q \in Request : request'[q].at \notin {"commit", "undo", "delete"}
        BY <3>1, <4>2
      <4>5. \A q \in Request : Halfway(q)' => q = r
        BY <3>1, <4>2 DEF Halfway
      <4> QED BY <4>3, <4>4, <4>5 DEF OneHalfway
    <3> QED BY <3>5, <3>6, <3>7 DEF FactorRest
  <2> QED BY <1>7, <2>2, <2>3 DEF TakePending
<1>8. ASSUME NEW r \in Request, PutSecret(r) PROVE FactorRest'
  <2>1. request[r].at = "put" /\ UNCHANGED <<mfa, codes, uses, pending, seeds, disturbed>>
    BY <1>8 DEF PutSecret
  <2>2. /\ request'[r].at \in {"idle", "commit"}
        /\ request'[r].at = "commit" => request'[r].seed = request[r].seed
        /\ \A q \in Request \ {r} : request'[q] = request[q]
    BY <1>8, <1>a, AfterGoTo, AfterDone DEF PutSecret
  <2>3. \A s : Fresh(s)' <=> Fresh(s)
    BY <2>1 DEF Fresh
  <2>4. \A q \in Request : InHand(q)' => InHand(q) /\ request'[q].seed = request[q].seed
    BY <2>1, <2>2 DEF InHand
  <2>5. FreshSeeds'
    BY <1>c, <2>1, <2>3, <2>4 DEF FreshSeeds
  <2>6. CodesExact'
    BY <1>c, <2>1 DEF CodesExact
  <2>7. OneHalfway'
    <3> SUFFICES ASSUME ~disturbed PROVE OneHalfway'
      BY <2>1 DEF OneHalfway
    <3>1. \A q \in Request \ {r} : request[q].at \notin {"put", "commit", "undo", "delete"}
      BY <1>c, <2>1 DEF OneHalfway, Halfway
    <3>2. \A q \in Request : Halfway(q)' => q = r
      BY <2>2, <3>1 DEF Halfway
    <3>3. request'[r].at = "commit" => secret' = request'[r].seed
      BY <1>8, <1>a, <2>2, AfterDone DEF PutSecret
    <3>4. request'[r].at # "commit" => secret' = mfa'
      <4>1. secret = mfa
        BY <1>c, <2>1, <3>1 DEF OneHalfway
      <4> QED BY <1>8, <1>a, <2>1, <4>1, AfterGoTo DEF PutSecret
    <3> QED BY <2>2, <3>1, <3>2, <3>3, <3>4 DEF OneHalfway
  <2> QED BY <2>5, <2>6, <2>7 DEF FactorRest
<1>9. ASSUME NEW r \in Request, CommitEnrollment(r) PROVE FactorRest'
  <2>1. request[r].at = "commit" /\ UNCHANGED <<secret, uses, pending, seeds>>
    BY <1>9 DEF CommitEnrollment
  <2>2. \A s : Fresh(s)' <=> Fresh(s)
    BY <2>1 DEF Fresh
  <2>3. InHand(r) /\ request[r].seed \in 1..seeds
    BY <1>d, <2>1 DEF InHand
  <2>4. CASE mfa' = request[r].seed /\ codes' = {request[r].seed} \X Code
             /\ GoTo(r, "revoke") /\ UNCHANGED disturbed
    <3>1. request'[r].at = "revoke" /\ \A q \in Request \ {r} : request'[q] = request[q]
      BY <1>a, <2>4, AfterGoTo
    <3>2. \A q \in Request : InHand(q)' => q # r /\ InHand(q) /\ request'[q] = request[q]
      BY <3>1 DEF InHand
    <3>3. FreshSeeds'
      <4>1. mfa' =< seeds' /\ pending'.seed =< seeds' /\ pending'.seed # mfa'
        BY <1>b, <1>c, <2>1, <2>3, <2>4 DEF FreshSeeds
      <4>2. \A q \in Request : InHand(q)' =>
                request'[q].seed \notin {mfa', pending'.seed} /\ Fresh(request[q].seed)'
        BY <1>c, <2>1, <2>2, <2>3, <2>4, <3>2 DEF FreshSeeds
      <4> QED BY <1>c, <2>1, <2>2, <3>2, <4>1, <4>2 DEF FreshSeeds
    <3>4. CodesExact'
      <4>1. ASSUME NEW row \in Row
            PROVE  row \in codes' <=> row[1] = mfa' /\ uses'[row] = 0
        <5>1. PICK s \in 1..MaxSeeds, c \in Code : row = <<s, c>>
          BY DEF Row
        <5>2. row \in codes' <=> s = request[r].seed
          BY <2>4, <5>1
        <5>3. s = request[r].seed => uses[<<s, c>>] = 0
          BY <1>c, <2>3 DEF FreshSeeds, Fresh
        <5> QED BY <2>1, <2>4, <5>1, <5>2, <5>3
      <4>2. mfa' > 0
        BY <1>b, <2>3, <2>4
      <4> QED BY <1>c, <2>1, <4>1, <4>2 DEF CodesExact
    <3>5. OneHalfway'
      <4> SUFFICES ASSUME ~disturbed PROVE OneHalfway'
        BY <2>4 DEF OneHalfway
      <4>1. \A q \in Request \ {r} : request[q].at \notin {"put", "commit", "undo", "delete"}
        BY <1>c, <2>1 DEF OneHalfway, Halfway
      <4>2. \A q \in Request : request'[q].at \notin {"put", "commit", "undo", "delete"}
        BY <3>1, <4>1
      <4>3. secret' = mfa'
        BY <1>c, <2>1, <2>4 DEF OneHalfway
      <4> QED BY <4>2, <4>3 DEF OneHalfway, Halfway
    <3> QED BY <3>3, <3>4, <3>5 DEF FactorRest
  <2>5. CASE GoTo(r, "undo") /\ disturbed' = TRUE /\ UNCHANGED <<mfa, codes>>
    <3>1. request'[r].at = "undo" /\ \A q \in Request \ {r} : request'[q] = request[q]
      BY <1>a, <2>5, AfterGoTo
    <3>2. \A q \in Request : InHand(q)' => q # r /\ InHand(q) /\ request'[q] = request[q]
      BY <3>1 DEF InHand
    <3>3. FreshSeeds'
      BY <1>c, <2>1, <2>2, <2>5, <3>2 DEF FreshSeeds
    <3>4. CodesExact' /\ OneHalfway'
      BY <1>c, <2>1, <2>5 DEF CodesExact, OneHalfway
    <3> QED BY <3>3, <3>4 DEF FactorRest
  <2> QED BY <1>9, <2>4, <2>5 DEF CommitEnrollment
<1>10. ASSUME NEW r \in Request, UndoSecret(r) PROVE FactorRest'
  <2>1. /\ request[r].at = "undo" /\ Done(r)
        /\ UNCHANGED <<mfa, codes, uses, pending, seeds, disturbed>>
    BY <1>10 DEF UndoSecret
  <2>2. request'[r].at = "idle" /\ \A q \in Request \ {r} : request'[q] = request[q]
    BY <1>a, <2>1, AfterDone
  <2>3. disturbed
    BY <1>c, <2>1 DEF OneHalfway
  <2>4. \A q \in Request : InHand(q)' => InHand(q) /\ request'[q] = request[q]
    BY <2>2 DEF InHand
  <2>5. \A s : Fresh(s)' <=> Fresh(s)
    BY <2>1 DEF Fresh
  <2>6. FreshSeeds'
    BY <1>c, <2>1, <2>4, <2>5 DEF FreshSeeds
  <2>7. CodesExact' /\ OneHalfway'
    BY <1>c, <2>1, <2>3 DEF CodesExact, OneHalfway
  <2> QED BY <2>6, <2>7 DEF FactorRest
<1>11. ASSUME NEW r \in Request, CommitDisable(r) PROVE FactorRest'
  <2>1. request[r].at = "disable" /\ UNCHANGED <<secret, uses, pending, seeds>>
    BY <1>11 DEF CommitDisable
  <2>2. CASE Done(r) /\ UNCHANGED <<mfa, codes, disturbed>>
    <3>1. QuietMoves
      BY <1>a, <2>1, <2>2, AfterDone DEF QuietMoves, Critical
    <3> QED BY <2>1, <2>2, <3>1, FactorQuiet DEF factor
  <2>3. CASE /\ mfa' = 0 /\ codes' = {} /\ Disturb(r)
             /\ GoTo(r, IF mfa > 0 THEN "delete" ELSE "revoke")
    <3>1. /\ request'[r].at = (IF mfa > 0 THEN "delete" ELSE "revoke")
          /\ \A q \in Request \ {r} : request'[q] = request[q]
      BY <1>a, <2>3, AfterGoTo
    <3>2. \A q \in Request : InHand(q)' => InHand(q) /\ request'[q] = request[q]
      BY <3>1 DEF InHand
    <3>3. \A s : Fresh(s)' <=> Fresh(s)
      BY <2>1 DEF Fresh
    <3>4. FreshSeeds'
      <4>1. mfa' =< seeds' /\ pending'.seed =< seeds' /\ (pending'.seed > 0 => pending'.seed # mfa')
        BY <1>b, <1>c, <2>1, <2>3 DEF FreshSeeds
      <4>2. \A q \in Request : InHand(q)' =>
                request'[q].seed \notin {mfa', pending'.seed} /\ Fresh(request[q].seed)'
        BY <1>b, <1>c, <1>d, <2>1, <2>3, <3>2, <3>3 DEF FreshSeeds
      <4> QED BY <1>c, <2>1, <3>2, <3>3, <4>1, <4>2 DEF FreshSeeds
    <3>5. CodesExact'
      BY <1>c, <2>1, <2>3 DEF CodesExact
    <3>6. OneHalfway'
      <4> SUFFICES ASSUME ~disturbed' PROVE OneHalfway'
        BY DEF OneHalfway
      <4>1. ~disturbed /\ \A q \in Request \ {r} : ~Changing(q)
        BY <2>3 DEF Disturb
      <4>2. \A q \in Request : request[q].at \notin {"put", "commit", "undo", "delete"}
        BY <2>1, <4>1 DEF Changing
      <4>3. secret = mfa
        BY <1>c, <4>1, <4>2 DEF OneHalfway
      <4>4. \A q \in Request : request'[q].at \notin {"put", "commit", "undo"}
        BY <3>1, <4>2
      <4>5. \A q \in Request : Halfway(q)' => q = r
        BY <3>1, <4>2 DEF Halfway
      <4>6. request'[r].at = "delete" \/ secret' = mfa'
        BY <1>b, <2>1, <2>3, <3>1, <4>3
      <4> QED BY <2>3, <4>4, <4>5, <4>6 DEF OneHalfway
    <3> QED BY <3>4, <3>5, <3>6 DEF FactorRest
  <2> QED BY <1>11, <2>2, <2>3 DEF CommitDisable
<1>12. ASSUME NEW r \in Request, DeleteSecret(r) PROVE FactorRest'
  <2>1. request[r].at = "delete" /\ UNCHANGED <<mfa, codes, uses, pending, seeds>>
    BY <1>12 DEF DeleteSecret
  <2>2. request'[r].at = "revoke" /\ \A q \in Request \ {r} : request'[q] = request[q]
    BY <1>a, <1>12, AfterGoTo DEF DeleteSecret
  <2>3. \A q \in Request : InHand(q)' => InHand(q) /\ request'[q] = request[q]
    BY <2>2 DEF InHand
  <2>4. \A s : Fresh(s)' <=> Fresh(s)
    BY <2>1 DEF Fresh
  <2>5. FreshSeeds'
    BY <1>c, <2>1, <2>3, <2>4 DEF FreshSeeds
  <2>6. CodesExact'
    BY <1>c, <2>1 DEF CodesExact
  <2>7. OneHalfway'
    <3> SUFFICES ASSUME ~disturbed' PROVE OneHalfway'
      BY DEF OneHalfway
    <3>1. ~disturbed /\ secret' = 0
      BY <1>12 DEF DeleteSecret
    <3>2. \A q \in Request \ {r} : request[q].at \notin {"put", "commit", "undo", "delete"}
      BY <1>c, <2>1, <3>1 DEF OneHalfway, Halfway
    <3>3. mfa' = 0
      BY <1>c, <2>1, <3>1 DEF OneHalfway
    <3>4. \A q \in Request : request'[q].at \notin {"put", "commit", "undo", "delete"}
      BY <2>2, <3>2
    <3> QED BY <3>1, <3>3, <3>4 DEF OneHalfway, Halfway
  <2> QED BY <2>5, <2>6, <2>7 DEF FactorRest
<1>13. ASSUME Restart PROVE FactorRest'
  <2>1. /\ UNCHANGED <<mfa, secret, codes, uses, seeds>> /\ pending'.seed = 0
        /\ \A q \in Request : request'[q].at = "idle"
    BY <1>13 DEF Restart, NoPending, Idle
  <2>2. FreshSeeds'
    BY <1>b, <1>c, <2>1 DEF FreshSeeds, InHand, Fresh
  <2>3. CodesExact'
    BY <1>c, <2>1 DEF CodesExact
  <2>4. OneHalfway'
    <3> SUFFICES ASSUME ~disturbed' PROVE OneHalfway'
      BY DEF OneHalfway
    <3>1. ~disturbed /\ \A q \in Request : request[q].at \notin {"commit", "delete"}
      BY <1>13 DEF Restart, Changing
    <3>2. secret' = mfa'
      BY <1>c, <2>1, <3>1 DEF OneHalfway
    <3> QED BY <2>1, <3>2 DEF OneHalfway, Halfway
  <2> QED BY <2>2, <2>3, <2>4 DEF FactorRest
<1>14. ASSUME NEW r \in Request, Handle(r) PROVE FactorRest'
  BY <1>2, <1>3, <1>4, <1>5, <1>7, <1>8, <1>9, <1>10, <1>11, <1>12, <1>14 DEF Handle
<1>15. FactorRest'
  BY <1>1, <1>6, <1>13, <1>14 DEF Next
<1> QED BY <1>0, <1>15

\* Enrolling and disabling interleave with logins, faults and restarts, and still a recovery
\* code is good for one login, the codes on record are those of the enrolment, and the
\* stored seed is the one of the enrolment unless two changes overlapped or one was cut
\* off (MFA.Begin, MFA.Confirm, MFA.Disable, MFA.Verify).
THEOREM FactorConsistent == Spec => []FactorInv
<1>1. Init => FactorInd
  <2> SUFFICES ASSUME Init PROVE FactorInd
    OBVIOUS
  <2>1. Typed
    BY TypedInit
  <2>2. \A row \in Row : uses[row] = 0
    BY DEF Init, Row
  <2>3. FreshSeeds
    <3>1. \A s \in 1..MaxSeeds : Fresh(s)
      BY <2>2 DEF Fresh, Row
    <3> QED BY <3>1 DEF Init, FreshSeeds, InHand, NoPending, Idle
  <2>4. CodesExact /\ OneHalfway
    BY <2>2 DEF Init, CodesExact, OneHalfway, Halfway, Idle
  <2> QED BY <2>1, <2>3, <2>4 DEF FactorInd, FactorRest
<1>2. FactorInd => FactorInv
  <2> SUFFICES ASSUME FactorInd PROVE FactorInv
    OBVIOUS
  <2>1. mfa \in 0..MaxSeeds /\ uses \in [Row -> Nat] /\ codes \subseteq Row /\ MaxSeeds \in Nat
    BY Bounds DEF FactorInd, Typed, FactorOK
  <2>2. CodesExact /\ OneHalfway
    BY DEF FactorInd, FactorRest
  <2>3. RecoveryCodeOnce
    BY <2>1, <2>2 DEF RecoveryCodeOnce, CodesExact
  <2>4. RecoveryAlwaysPossible
    <3>1. CASE mfa = 0
      BY <2>2, <3>1 DEF RecoveryAlwaysPossible, CodesExact
    <3>2. CASE mfa > 0
      <4>1. ASSUME NEW row \in codes PROVE row \in {mfa} \X Code
        BY <2>1, <2>2, <3>2 DEF CodesExact, Row
      <4>2. {mfa} \X Code \subseteq Row
        BY <2>1, <3>2 DEF Row
      <4>3. ASSUME NEW row \in {mfa} \X Code, uses[row] = 0 PROVE row \in codes
        BY <2>2, <3>2, <4>2, <4>3 DEF CodesExact
      <4> QED BY <3>2, <4>1, <4>3 DEF RecoveryAlwaysPossible
    <3> QED BY <2>1, <3>1, <3>2
  <2>5. SeedMatchesEnrollment
    BY <2>2 DEF SeedMatchesEnrollment, OneHalfway, Changing
  <2> QED BY <2>3, <2>4, <2>5 DEF FactorInv
<1> QED BY <1>1, <1>2, FactorStep, PTL DEF Spec
=============================================================================
