------------------------------- MODULE Outbox -------------------------------
(***************************************************************************)
(* The transactional outbox: the table outbox_tasks, the repository that   *)
(* claims, settles and recovers its rows, and the workers that drive it.   *)
(*                                                                         *)
(* Time is relative and saturating, so that a run may last for ever:       *)
(*   due[k]      next_attempt_at - now, not tracked below -RunBound;       *)
(*   age[k]      now - updated_at, not tracked above AgeCap;               *)
(*   elapsed[w]  now - current, for the `current` worker w read when it    *)
(*               entered run_once and uses until it leaves.                *)
(* A column ages only while its row is in a status whose query reads it.   *)
(***************************************************************************)
EXTENDS Integers, FiniteSets

CONSTANTS
    Keys,         \* idempotency keys: the tasks that may be enqueued
    Workers,      \* run_once loops, of one process or of overlapping ones
    NoTask,       \* what a worker that has selected nothing works on
    Unsupported,  \* tasks with no handler, or with a schema major other than 1
    MaxAttempts,  \* max_attempts
    BaseRetry,    \* base_retry_seconds
    Lease,        \* lease_timeout
    RunBound,     \* longest time between reading `current` and settling
    AgeCap,       \* where age saturates
    MaxAbandons,  \* bound: claims lost to a crash, a cancellation, a failed settle
    MaxRecoveries \* bound: recoveries of one task

(* Delay before attempt n + 1, measured from the clock read of attempt n. *)
Delay(n) == BaseRetry * 2^(n - 1)

ASSUME OutboxConstants ==
    /\ Unsupported \subseteq Keys /\ NoTask \notin Keys /\ IsFiniteSet(Workers)
    /\ MaxAttempts \in Nat \ {0}
    /\ BaseRetry \in Nat
    /\ Lease \in Nat \ {0}
    /\ RunBound \in Nat
    /\ AgeCap \in Nat
    /\ AgeCap >= Lease /\ AgeCap >= RunBound
    /\ \A n \in 1 .. (MaxAttempts - 1) :
         Delay(n) \in Nat /\ Delay(n) + RunBound <= AgeCap
    /\ MaxAbandons \in Nat
    /\ MaxRecoveries \in Nat

(* The lease outlives every run: what a five-minute lease is chosen for.   *)
LeaseCoversRun == RunBound < Lease

VARIABLES
    status, attempts, due, age, lastError,   \* columns of outbox_tasks
    pc, task, attempt, elapsed, outcome,     \* run_once, per worker
    effects,     \* history: handler successes of each task
    recoveries,  \* history: how often each task was recovered
    abandons     \* history: abandoned claims

rowVars    == <<status, attempts, due, age, lastError>>
workerVars == <<pc, task, attempt, elapsed, outcome>>
history    == <<effects, recoveries, abandons>>
vars       == <<rowVars, workerVars, history>>

Claimable == {"pending", "retry"}
Terminal  == {"completed", "dead_letter"}
Statuses  == {"absent", "processing"} \cup Claimable \cup Terminal
Failures  == {"transient", "permanent"}
Outcomes  == {"none", "ok"} \cup Failures
Errors    == {"none", "stale"} \cup Failures
Holding(w) == pc[w] \in {"running", "settling"}

-----------------------------------------------------------------------------
Init ==
    /\ status     = [k \in Keys |-> "absent"]
    /\ attempts   = [k \in Keys |-> 0]
    /\ due        = [k \in Keys |-> 0]
    /\ age        = [k \in Keys |-> 0]
    /\ lastError  = [k \in Keys |-> "none"]
    /\ pc         = [w \in Workers |-> "idle"]
    /\ task       = [w \in Workers |-> NoTask]
    /\ attempt    = [w \in Workers |-> 0]
    /\ elapsed    = [w \in Workers |-> 0]
    /\ outcome    = [w \in Workers |-> "none"]
    /\ effects    = [k \in Keys |-> 0]
    /\ recoveries = [k \in Keys |-> 0]
    /\ abandons   = 0

(* Definitions named Bad... are plausible mistakes in the definition that  *)
(* follows them; a check replaces the one by the other and must then fail. *)

BadEnqueue(k) ==   \* resets the row of a known key
    /\ status' = [status EXCEPT ![k] = "pending"]
    /\ due' = [due EXCEPT ![k] = 0]
    /\ UNCHANGED <<attempts, age, lastError, workerVars, history>>

(* enqueue: a row for a new key; for a known key, in whatever status, the  *)
(* existing row is returned and nothing changes.                           *)
Enqueue(k) ==
    /\ status[k] = "absent"
    /\ status' = [status EXCEPT ![k] = "pending"]
    /\ due' = [due EXCEPT ![k] = 0]
    /\ UNCHANGED <<attempts, age, lastError, workerVars, history>>

(* run_once returns, or is cut short.                                      *)
Release(w) == /\ pc' = [pc EXCEPT ![w] = "idle"]
              /\ task' = [task EXCEPT ![w] = NoTask]
              /\ attempt' = [attempt EXCEPT ![w] = 0]
              /\ elapsed' = [elapsed EXCEPT ![w] = 0]
              /\ outcome' = [outcome EXCEPT ![w] = "none"]

(* claim_next, its SELECT: read the clock, pick the earliest due row.      *)
BadDue(k) == status[k] = "pending" /\ due[k] <= 0   \* forgets retries
Due(k) == status[k] \in Claimable /\ due[k] <= 0
SelectDue(w) ==
    /\ pc[w] = "idle"
    /\ \E k \in Keys :
         /\ Due(k)
         /\ \A j \in Keys : Due(j) => due[k] <= due[j]
         /\ task' = [task EXCEPT ![w] = k]
    /\ pc' = [pc EXCEPT ![w] = "selected"]
    /\ elapsed' = [elapsed EXCEPT ![w] = 0]
    /\ UNCHANGED <<rowVars, attempt, outcome, history>>

(* claim_next, its conditional UPDATE.                                     *)
BadStillDue(w) == TRUE   \* updates by id alone
StillDue(w) == status[task[w]] \in Claimable /\ due[task[w]] <= -elapsed[w]
ClaimRow(w) ==
    /\ pc[w] = "selected"
    /\ StillDue(w)
    /\ status' = [status EXCEPT ![task[w]] = "processing"]
    /\ attempts' = [attempts EXCEPT ![task[w]] = @ + 1]
    /\ age' = [age EXCEPT ![task[w]] = elapsed[w]]
    /\ attempt' = [attempt EXCEPT ![w] = attempts[task[w]] + 1]
    /\ pc' = [pc EXCEPT ![w] = "running"]
    /\ UNCHANGED <<due, lastError, task, elapsed, outcome, history>>

(* The UPDATE matched no row: another worker was faster.                   *)
ClaimLost(w) ==
    /\ pc[w] = "selected"
    /\ ~StillDue(w)
    /\ Release(w)
    /\ UNCHANGED <<rowVars, history>>

(* The handler: an unsupported task fails for good without reaching one.   *)
Handle(w) ==
    /\ pc[w] = "running"
    /\ \E o \in IF task[w] \in Unsupported THEN {"permanent"} ELSE {"ok"} \cup Failures :
         /\ outcome' = [outcome EXCEPT ![w] = o]
         /\ effects' = IF o = "ok" THEN [effects EXCEPT ![task[w]] = @ + 1] ELSE effects
    /\ pc' = [pc EXCEPT ![w] = "settling"]
    /\ UNCHANGED <<rowVars, task, attempt, elapsed, recoveries, abandons>>

(* mark_completed: by id, whatever the row's status has become.            *)
MarkCompleted(w) ==
    /\ pc[w] = "settling" /\ outcome[w] = "ok"
    /\ status' = [status EXCEPT ![task[w]] = "completed"]
    /\ lastError' = [lastError EXCEPT ![task[w]] = "none"]
    /\ age' = [age EXCEPT ![task[w]] = elapsed[w]]
    /\ Release(w)
    /\ UNCHANGED <<attempts, due, history>>

(* mark_failed: the attempt number is the one read when the row was        *)
(* claimed, and both times are reckoned from `current`.  The due time of a *)
(* dead letter is written too, but no query reads it again.                *)
BadGivesUp(w)  == outcome[w] = "permanent" \/ attempt[w] > MaxAttempts
BadGivesUp2(w) == outcome[w] = "permanent" \/ attempt[w] >= MaxAttempts - 1
GivesUp(w) == outcome[w] = "permanent" \/ attempt[w] >= MaxAttempts

BadFailedStatus(w) == IF GivesUp(w) THEN "failed" ELSE "retry"
FailedStatus(w) == IF GivesUp(w) THEN "dead_letter" ELSE "retry"

BadNextDue(w) == 0   \* retries at once
NextDue(w) == IF Delay(attempt[w]) - elapsed[w] >= -RunBound
              THEN Delay(attempt[w]) - elapsed[w] ELSE -RunBound

MarkFailed(w) ==
    /\ pc[w] = "settling" /\ outcome[w] \in Failures
    /\ status' = [status EXCEPT ![task[w]] = FailedStatus(w)]
    /\ due' = IF GivesUp(w) THEN due ELSE [due EXCEPT ![task[w]] = NextDue(w)]
    /\ lastError' = [lastError EXCEPT ![task[w]] = outcome[w]]
    /\ age' = [age EXCEPT ![task[w]] = elapsed[w]]
    /\ Release(w)
    /\ UNCHANGED <<attempts, history>>

(* The process dies, the task is cancelled at shutdown, or the settling    *)
(* transaction fails: the claim stays in the table.                        *)
Abandon(w) ==
    /\ Holding(w)
    /\ abandons < MaxAbandons
    /\ abandons' = abandons + 1
    /\ Release(w)
    /\ UNCHANGED <<rowVars, effects, recoveries>>

(* recover_stale: one UPDATE over every claim older than the lease.        *)
Stale(k) == status[k] = "processing" /\ age[k] >= Lease
RecoverStale ==
    /\ \E k \in Keys : Stale(k)
    /\ \A k \in Keys : Stale(k) => recoveries[k] < MaxRecoveries
    /\ status' = [k \in Keys |-> IF Stale(k) THEN "retry" ELSE status[k]]
    /\ due' = [k \in Keys |-> IF Stale(k) THEN 0 ELSE due[k]]
    /\ age' = [k \in Keys |-> IF Stale(k) THEN 0 ELSE age[k]]
    /\ lastError' = [k \in Keys |-> IF Stale(k) THEN "stale" ELSE lastError[k]]
    /\ recoveries' = [k \in Keys |-> IF Stale(k) THEN recoveries[k] + 1 ELSE recoveries[k]]
    /\ UNCHANGED <<attempts, workerVars, effects, abandons>>

(* One unit of time; no run outlasts RunBound.                             *)
Tick ==
    /\ \A w \in Workers : pc[w] # "idle" => elapsed[w] < RunBound
    /\ due' = [k \in Keys |-> IF status[k] \in Claimable /\ due[k] > -RunBound
                              THEN due[k] - 1 ELSE due[k]]
    /\ age' = [k \in Keys |-> IF status[k] \in {"processing", "retry"} /\ age[k] < AgeCap
                              THEN age[k] + 1 ELSE age[k]]
    /\ elapsed' = [w \in Workers |-> IF pc[w] = "idle" THEN 0 ELSE elapsed[w] + 1]
    /\ UNCHANGED <<status, attempts, lastError, pc, task, attempt, outcome, history>>

WorkerStep(w) == \/ SelectDue(w) \/ ClaimRow(w) \/ ClaimLost(w) \/ Handle(w)
                 \/ MarkCompleted(w) \/ MarkFailed(w)

Next == \/ \E k \in Keys : Enqueue(k)
        \/ \E w \in Workers : WorkerStep(w) \/ Abandon(w)
        \/ RecoverStale
        \/ Tick

Spec == Init /\ [][Next]_vars

(* A worker keeps calling run_once, its caller keeps asking for stale      *)
(* claims, and time passes.  Nothing forces a crash or an enqueue.         *)
Fairness == /\ \A w \in Workers : WF_vars(WorkerStep(w))
            /\ WF_vars(RecoverStale)
            /\ WF_vars(Tick)
FairSpec == Spec /\ Fairness

-----------------------------------------------------------------------------
(* Types, and the range of every counter and clock. *)
TypeOK ==
    /\ status     \in [Keys -> Statuses]
    /\ attempts   \in [Keys -> Nat]
    /\ due        \in [Keys -> Int]
    /\ age        \in [Keys -> 0 .. AgeCap]
    /\ lastError  \in [Keys -> Errors]
    /\ pc         \in [Workers -> {"idle", "selected", "running", "settling"}]
    /\ task       \in [Workers -> Keys \cup {NoTask}]
    /\ attempt    \in [Workers -> Nat]
    /\ elapsed    \in [Workers -> 0 .. RunBound]
    /\ outcome    \in [Workers -> Outcomes]
    /\ effects    \in [Keys -> Nat]
    /\ recoveries \in [Keys -> Nat]
    /\ abandons   \in 0 .. MaxAbandons

(* At most one worker runs or settles a given task (claim_next's           *)
(* conditional UPDATE together with the lease): settling is by id with no  *)
(* fencing token, so a second holder could overwrite the first's verdict.  *)
ExclusiveHolder ==
    \A v, w \in Workers : Holding(v) /\ Holding(w) /\ task[v] = task[w] => v = w

(* A task is attempted at most max_attempts times, and once more for every *)
(* claim recover_stale took back, however claims, settles and recoveries   *)
(* interleave; and at-least-once delivery repeats an effect only where a   *)
(* claim was recovered.                                                    *)
DeliveryBudget == \A k \in Keys :
    /\ attempts[k] <= MaxAttempts + recoveries[k]
    /\ effects[k] <= 1 + recoveries[k]

(* A verdict is earned: completed only after a success, dead-lettered only *)
(* on a permanent error or with the attempts used up.                      *)
VerdictEarned == \A k \in Keys :
    /\ status[k] = "completed" => effects[k] > 0
    /\ status[k] = "dead_letter" => lastError[k] = "permanent" \/ attempts[k] >= MaxAttempts

(* A settled task is never claimed, recovered or re-opened again.          *)
TerminalIsFinal ==
    [][\A k \in Keys : status[k] \in Terminal => status'[k] = status[k]]_vars

(* Exponential backoff: between the clock reads of attempts n and n + 1 of *)
(* a task at least Delay(n) passes, unless recover_stale put it back.      *)
BackoffKept ==
    [][\A k \in Keys :
         (/\ status[k] = "retry" /\ status'[k] = "processing"
          /\ lastError[k] # "stale")
         => age[k] - age'[k] >= Delay(attempts[k])]_vars

(* Every enqueued task is settled, one way or the other.                   *)
EventuallySettled == \A k \in Keys : (status[k] = "pending") ~> (status[k] \in Terminal)

(* The abstract ledger this module implements.                             *)
Verdict == [k \in Keys |-> IF status[k] \in Claimable \cup {"processing"}
                           THEN "open" ELSE status[k]]
Ledger == INSTANCE TaskLedger WITH verdict <- Verdict
ImplementsLedger == Ledger!LedgerSpec
=============================================================================
