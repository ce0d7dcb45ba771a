-------------------------- MODULE CheckScheduler --------------------------
(***************************************************************************)
(* The health check scheduler (internal/checks/scheduler.go) and the rows  *)
(* it works on (internal/checks/repository.go).  A goroutine reads the due *)
(* checks once a second and puts them on a bounded Go channel; a pool of   *)
(* goroutines runs them and stores the results; an administrator may run a *)
(* check by hand.  A set of reserved ids keeps them from running the same  *)
(* check twice.                                                            *)
(*                                                                         *)
(* next_run_at is abstracted to the order it gives: `line' holds the       *)
(* checks by next_run_at, and the due ones come first.  A result is stored *)
(* with next_run_at = start of the run + interval, so a check whose run    *)
(* took longer than its interval is due again at once, but always behind   *)
(* the checks that were due when its run started.                          *)
(***************************************************************************)
EXTENDS Integers, Sequences, SequencesExt

CONSTANTS
    Check,          \* check ids
    Worker,         \* the MaxConcurrency goroutines
    Caller,         \* requests that run a check by hand
    QueueCapacity,  \* cap(queue): twice MaxConcurrency in the code
    MaxRestarts     \* bound: process restarts

ASSUME SchedulerAssumption ==
    /\ QueueCapacity \in Nat \ {0}
    /\ MaxRestarts \in Nat

VARIABLES
    status,      \* [Check -> "absent", "on", "off", "paused" or "deleted"]
    line,        \* sequence of the existing checks by next_run_at
    due,         \* the checks with next_run_at =< now (or NULL)
    fresh,       \* the checks without a stored result: next_run_at is NULL
    scheduling,  \* the schedule goroutine has not returned
    batch,       \* due checks it has still to put on the queue
    queue,       \* the Go channel
    active,      \* the reserved ids
    runner,      \* [Worker \cup Caller -> where a run is]
    restarts

table == <<status, line, due, fresh>>
vars == <<table, scheduling, batch, queue, active, runner, restarts>>

Runner == Worker \cup Caller
NoCheck == "none"
Idle == [at |-> "idle", check |-> NoCheck, ahead |-> {}]

Rank(c) == CHOOSE i \in DOMAIN line : line[i] = c
Listed(c) == \E i \in DOMAIN line : line[i] = c
Without(c) == RemoveAt(line, Rank(c))
InQueue(c) == \E i \in DOMAIN queue : queue[i] = c

-----------------------------------------------------------------------------
(* Configuration and time. *)

\* A new check has no next_run_at: it is due, and comes before every check that
\* has one; the ids order the new ones.
Create(c) ==
    /\ status[c] = "absent"
    /\ status' = [status EXCEPT ![c] = "on"]
    /\ \E i \in 0..Len(line) :
          /\ \A k \in 1..i : line[k] \in fresh
          /\ line' = InsertAt(line, i + 1, c)
    /\ due' = due \cup {c}
    /\ fresh' = fresh \cup {c}
    /\ UNCHANGED <<scheduling, batch, queue, active, runner, restarts>>

\* A check is enabled or disabled, or its resource paused.
Update(c, s) ==
    /\ status[c] \in {"on", "off", "paused"}
    /\ status' = [status EXCEPT ![c] = s]
    /\ UNCHANGED <<line, due, fresh, scheduling, batch, queue, active, runner, restarts>>

Delete(c) ==
    /\ status[c] \in {"on", "off", "paused"}
    /\ status' = [status EXCEPT ![c] = "deleted"]
    /\ line' = Without(c)
    /\ due' = due \ {c}
    /\ fresh' = fresh \ {c}
    /\ UNCHANGED <<scheduling, batch, queue, active, runner, restarts>>

\* next_run_at of the next check in line passes.
BecomeDue ==
    /\ \E k \in DOMAIN line :
          /\ line[k] \notin due
          /\ \A j \in 1..(k - 1) : line[j] \in due
          /\ due' = due \cup {line[k]}
    /\ UNCHANGED <<status, line, fresh, scheduling, batch, queue, active, runner, restarts>>

-----------------------------------------------------------------------------
(* The schedule goroutine. *)

Eligible == {c \in due : status[c] = "on"}

\* The results of a query for QueueCapacity eligible checks at most: as many as there
\* are, or as the limit admits.
Queried == {b \in UNION {[1..n -> Eligible] : n \in 0..QueueCapacity} :
               Len(b) = QueueCapacity \/ ToSet(b) = Eligible}

\* Mutant: the query sorts by next_run_at in descending order.
DueLatestFirst ==
    {b \in Queried : /\ \A i, j \in DOMAIN b : i < j => Rank(b[j]) < Rank(b[i])
                     /\ \A i \in DOMAIN b, c \in Eligible \ ToSet(b) : Rank(c) < Rank(b[i])}

\* Due: the first cap(queue) eligible checks, by next_run_at.
Due ==
    {b \in Queried : /\ \A i, j \in DOMAIN b : i < j => Rank(b[i]) < Rank(b[j])
                     /\ \A i \in DOMAIN b, c \in Eligible \ ToSet(b) : Rank(b[i]) < Rank(c)}

\* The second ticker.
Select ==
    /\ scheduling
    /\ batch = <<>>
    /\ batch' \in Due \ {<<>>}
    /\ UNCHANGED <<table, scheduling, queue, active, runner, restarts>>

\* The next check of the batch: skipped when it is reserved, queued, or, when
\* the queue is full, the end of the goroutine.
Enqueue ==
    /\ scheduling
    /\ batch # <<>>
    /\ \/ /\ Head(batch) \in active
          /\ batch' = Tail(batch)
          /\ UNCHANGED <<scheduling, queue, active>>
       \/ /\ Head(batch) \notin active
          /\ Len(queue) < QueueCapacity
          /\ queue' = Append(queue, Head(batch))
          /\ active' = active \cup {Head(batch)}
          /\ batch' = Tail(batch)
          /\ UNCHANGED scheduling
       \/ /\ Head(batch) \notin active
          /\ Len(queue) = QueueCapacity
          /\ scheduling' = FALSE
          /\ batch' = <<>>
          /\ UNCHANGED <<queue, active>>
    /\ UNCHANGED <<table, runner, restarts>>

-----------------------------------------------------------------------------
(* Running a check. *)

\* A run of c starts; the checks due by now will stay ahead of it.
Started(c) == [at |-> "run", check |-> c, ahead |-> due \ {c}]

Take(w) ==
    /\ runner[w].at = "idle"
    /\ queue # <<>>
    /\ runner' = [runner EXCEPT ![w] = Started(Head(queue))]
    /\ queue' = Tail(queue)
    /\ UNCHANGED <<table, scheduling, batch, active, restarts>>

\* A request to run a check by hand finds it enabled.
RunNow(r, c) ==
    /\ runner[r].at = "idle"
    /\ status[c] \in {"on", "paused"}
    /\ runner' = [runner EXCEPT ![r] = [at |-> "reserve", check |-> c, ahead |-> {}]]
    /\ UNCHANGED <<table, scheduling, batch, queue, active, restarts>>

\* Mutant: a manual run does not look at the reservations.
ReserveTaken(r) ==
    /\ runner[r].at = "reserve"
    /\ active' = active \cup {runner[r].check}
    /\ runner' = [runner EXCEPT ![r] = Started(runner[r].check)]
    /\ UNCHANGED <<table, scheduling, batch, queue, restarts>>

\* It runs the check, which may be gone by now, unless it is reserved.
Reserve(r) ==
    LET c == runner[r].check IN
    /\ runner[r].at = "reserve"
    /\ \/ /\ c \in active
          /\ runner' = [runner EXCEPT ![r] = Idle]
          /\ UNCHANGED active
       \/ /\ c \notin active
          /\ active' = active \cup {c}
          /\ runner' = [runner EXCEPT ![r] = Started(c)]
    /\ UNCHANGED <<table, scheduling, batch, queue, restarts>>

\* Positions in the rest of the line that are behind the checks ahead.
Behind(c, ahead) ==
    LET rest == Without(c) IN
    {i \in 0..Len(rest) : \A k \in DOMAIN rest : rest[k] \in ahead => k =< i}

\* The result is stored and the check moves to its next run.
SaveResult(r) ==
    LET c == runner[r].check IN
    /\ runner[r].at = "run"
    /\ Listed(c)
    /\ \E i \in Behind(c, runner[r].ahead) :
          /\ line' = InsertAt(Without(c), i + 1, c)
          \* due when its time has come already, in the order of the line
          /\ LET before == {line'[k] : k \in 1..i}
                 after == {line'[k] : k \in (i + 2)..Len(line')}
             IN \/ before \subseteq due /\ due' = due \cup {c}
                \/ after \cap due = {} /\ due' = due \ {c}
    /\ fresh' = fresh \ {c}
    /\ runner' = [runner EXCEPT ![r].at = "release"]
    /\ UNCHANGED <<status, scheduling, batch, queue, active, restarts>>

\* The check was deleted (foreign key) or the storage fails; the error is ignored
\* by a worker and returned by RunNow.
SaveFails(r) ==
    /\ runner[r].at = "run"
    /\ runner' = [runner EXCEPT ![r].at = "release"]
    /\ UNCHANGED <<table, scheduling, batch, queue, active, restarts>>

\* Mutant: the reservation is kept when the check was deleted meanwhile.
ReleaseListed(r) ==
    /\ runner[r].at = "release"
    /\ active' = IF Listed(runner[r].check) THEN active \ {runner[r].check} ELSE active
    /\ runner' = [runner EXCEPT ![r] = Idle]
    /\ UNCHANGED <<table, scheduling, batch, queue, restarts>>

Release(r) ==
    /\ runner[r].at = "release"
    /\ active' = active \ {runner[r].check}
    /\ runner' = [runner EXCEPT ![r] = Idle]
    /\ UNCHANGED <<table, scheduling, batch, queue, restarts>>

\* The process stops, in the middle of whatever it was doing, and starts again.
Restart ==
    /\ restarts < MaxRestarts
    /\ restarts' = restarts + 1
    /\ scheduling' = TRUE
    /\ batch' = <<>>
    /\ queue' = <<>>
    /\ active' = {}
    /\ runner' = [r \in Runner |-> Idle]
    /\ UNCHANGED table

-----------------------------------------------------------------------------
Init ==
    /\ status = [c \in Check |-> "absent"]
    /\ line = <<>>
    /\ due = {}
    /\ fresh = {}
    /\ scheduling = TRUE
    /\ batch = <<>>
    /\ queue = <<>>
    /\ active = {}
    /\ runner = [r \in Runner |-> Idle]
    /\ restarts = 0

Configure ==
    \E c \in Check : \/ Create(c)
                     \/ \E s \in {"on", "off", "paused"} : Update(c, s)
                     \/ Delete(c)

Schedule == Select \/ Enqueue

Work(w) == Take(w) \/ SaveResult(w) \/ SaveFails(w) \/ Release(w)

Request(r) ==
    (\E c \in Check : RunNow(r, c)) \/ Reserve(r) \/ SaveResult(r) \/ SaveFails(r) \/ Release(r)

Next ==
    \/ Configure \/ BecomeDue \/ Schedule \/ Restart
    \/ \E w \in Worker : Work(w)
    \/ \E r \in Caller : Request(r)

Spec == Init /\ [][Next]_vars

\* The goroutines run; every run ends, because a check has a timeout; the storage
\* does not fail for ever.
Fairness ==
    /\ WF_vars(Schedule)
    /\ \A w \in Worker : WF_vars(Take(w)) /\ WF_vars(Release(w))
    /\ \A r \in Caller : WF_vars(Reserve(r)) /\ WF_vars(Release(r))
    /\ \A r \in Runner : WF_vars(SaveResult(r) \/ SaveFails(r)) /\ SF_vars(SaveResult(r))

FairSpec == Spec /\ Fairness

-----------------------------------------------------------------------------
(* Properties. *)

\* The rows, the queue and the goroutines hold values of their types; only checks
\* that exist have a place in the order of runs.
TypeOK ==
    /\ status \in [Check -> {"absent", "on", "off", "paused", "deleted"}]
    /\ line \in Seq(Check) /\ ToSet(line) = {c \in Check : status[c] \in {"on", "off", "paused"}}
    /\ fresh \subseteq due /\ due \subseteq ToSet(line)
    /\ scheduling \in BOOLEAN
    /\ batch \in Seq(Check)
    /\ queue \in Seq(Check) /\ Len(queue) =< QueueCapacity
    /\ active \subseteq Check
    /\ runner \in [Runner -> [at : {"idle", "reserve", "run", "release"},
                              check : Check \cup {NoCheck}, ahead : SUBSET Check]]
    /\ restarts \in 0..MaxRestarts

Running(c) == \E r \in Runner : runner[r].at \in {"run", "release"} /\ runner[r].check = c

\* A check is handled once at a time: it is not on the queue twice, not run by
\* two goroutines, and not run while it waits on the queue, although batches are
\* stale when they are used and manual runs come at any moment.
OneRunAtATime ==
    /\ \A i, j \in DOMAIN queue : queue[i] = queue[j] => i = j
    /\ \A r \in Runner : runner[r].at \in {"run", "release"} =>
          /\ ~InQueue(runner[r].check)
          /\ \A s \in Runner \ {r} :
                runner[s].at \in {"run", "release"} => runner[s].check # runner[r].check

\* An id is reserved exactly while its check is on the queue or being run: no
\* order of deletions, manual runs and full queues leaks a reservation, which
\* would keep the check from ever running again.
NoLeakedReservation ==
    active = {c \in Check : InQueue(c) \/ Running(c)}

Scheduled(c) == c \in due /\ status[c] = "on"

\* While the schedule goroutine lives (it ends for good at a full queue, until a
\* restart), a check that stays due and enabled is run, however many other checks
\* come due again in the meantime.
DueChecksRun ==
    []<>scheduling /\ <>[][~Configure]_vars =>
        \A c \in Check : [](Scheduled(c) => <>(Running(c) \/ ~Scheduled(c)))

\* The product document: under pressure work is discarded, while the system goes
\* on.  A full queue may drop a check, but scheduling continues.
SchedulingContinues == scheduling

\* Reservations are exact: typed, a check is run by one worker or request at a
\* time, and is reserved exactly as long as one has it or the queue does.
ReservationInv == TypeOK /\ OneRunAtATime /\ NoLeakedReservation
===========================================================================
