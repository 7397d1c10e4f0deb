---------------------------- MODULE OutboxProofs ----------------------------
(***************************************************************************)
(* The safety of the outbox for any number of tasks and workers and any    *)
(* time constants.  Budgets and verdicts hold whatever the lease: they     *)
(* rest on counting claims.  That a claim has one holder, that verdicts    *)
(* are final and backoff is kept holds as long as no run outlasts the      *)
(* lease: then each held claim agrees with its row, whose age is exactly   *)
(* the time its holder has been at it.                                     *)
(***************************************************************************)
EXTENDS Outbox, FiniteSetTheorems, TLAPS

-----------------------------------------------------------------------------
(* Part 1: whatever the lease.                                             *)

(* What a worker remembers of its claim.                                   *)
Marks == \A w \in Workers :
    /\ pc[w] # "idle" => task[w] \in Keys
    /\ Holding(w) => attempt[w] \in 1 .. attempts[task[w]]
    /\ pc[w] = "settling" <=> outcome[w] # "none"
    /\ pc[w] = "settling" /\ outcome[w] = "ok" => effects[task[w]] > 0

(* Holders of a task that may still take effect, and those whose failure   *)
(* would put it back.                                                      *)
Unfinished(k) == {w \in Workers : task[w] = k /\ Holding(w) /\ outcome[w] # "ok"}
Young(k)      == {w \in Workers : task[w] = k /\ Holding(w) /\ attempt[w] < MaxAttempts}
Open(k)       == IF status[k] \in {"absent"} \cup Claimable THEN 1 ELSE 0

(* Each claim takes a token: the first of them is there from the start, a  *)
(* recovery adds one, and a failure gives back that of its own claim.      *)
EffectTokens(k)  == effects[k] + Cardinality(Unfinished(k)) + Open(k) <= 1 + recoveries[k]
AttemptTokens(k) ==
    Open(k) + Cardinality(Young(k)) + (IF attempts[k] < MaxAttempts THEN 0
                                       ELSE attempts[k] - (MaxAttempts - 1))
    <= 1 + recoveries[k]

CInv == TypeOK /\ Marks /\ VerdictEarned /\ \A k \in Keys : EffectTokens(k) /\ AttemptTokens(k)

LEMMA InitCInv == Init => CInv
<1>1. SUFFICES ASSUME Init PROVE CInv
  OBVIOUS
<1>2. TypeOK /\ Marks /\ VerdictEarned
  BY <1>1, OutboxConstants DEF Init, TypeOK, Marks, VerdictEarned, Holding, Statuses, Claimable,
     Terminal, Outcomes, Errors, Failures
<1>3. ASSUME NEW k \in Keys PROVE EffectTokens(k) /\ AttemptTokens(k)
  <2>1. Unfinished(k) = {} /\ Young(k) = {}
    BY <1>1 DEF Init, Unfinished, Young, Holding
  <2>2. Open(k) = 1 /\ effects[k] = 0 /\ attempts[k] = 0 /\ recoveries[k] = 0
    BY <1>1 DEF Init, Open
  <2>3. Cardinality({}) = 0
    BY FS_EmptySet
  <2>4. QED
    BY <2>1, <2>2, <2>3, OutboxConstants DEF EffectTokens, AttemptTokens
<1>4. QED
  BY <1>2, <1>3 DEF CInv

LEMMA NextMarks ==
  ASSUME CInv, [Next]_vars
  PROVE  TypeOK' /\ Marks' /\ VerdictEarned'
<1> DEFINE Good == TypeOK' /\ Marks' /\ VerdictEarned'
<1> USE OutboxConstants DEF CInv, TypeOK, Marks, VerdictEarned, Holding, Statuses, Claimable,
        Terminal, Outcomes, Errors, Failures, rowVars, workerVars, history
<1>1. ASSUME NEW k \in Keys, Enqueue(k) PROVE Good
  BY <1>1 DEF Enqueue
<1>2. ASSUME NEW w \in Workers, SelectDue(w) PROVE Good
  BY <1>2 DEF SelectDue, Due
<1>3. ASSUME NEW w \in Workers, ClaimRow(w) PROVE Good
  BY <1>3 DEF ClaimRow, StillDue
<1>4. ASSUME NEW w \in Workers, ClaimLost(w) \/ Abandon(w) PROVE Good
  BY <1>4 DEF ClaimLost, Abandon, Release
<1>5. ASSUME NEW w \in Workers, Handle(w) PROVE Good
  BY <1>5 DEF Handle
<1>6. ASSUME NEW w \in Workers, MarkCompleted(w) PROVE Good
  BY <1>6 DEF MarkCompleted, Release
<1>7. ASSUME NEW w \in Workers, MarkFailed(w) PROVE Good
  <2>1. ~GivesUp(w) => attempt[w] \in 1 .. (MaxAttempts - 1)
    BY <1>7 DEF MarkFailed, GivesUp
  <2>2. ~GivesUp(w) => NextDue(w) \in Int
    BY <2>1 DEF NextDue
  <2>3. TypeOK'
    BY <1>7, <2>2 DEF MarkFailed, FailedStatus, Release
  <2>4. Marks'
    BY <1>7 DEF MarkFailed, Release
  <2>5. VerdictEarned'
    BY <1>7 DEF MarkFailed, FailedStatus, GivesUp
  <2>6. QED
    BY <2>3, <2>4, <2>5
<1>8. CASE RecoverStale
  BY <1>8 DEF RecoverStale, Stale
<1>9. CASE Tick
  BY <1>9 DEF Tick
<1>10. CASE UNCHANGED vars
  BY <1>10 DEF vars
<1>11. QED
  BY <1>1, <1>2, <1>3, <1>4, <1>5, <1>6, <1>7, <1>8, <1>9, <1>10 DEF Next, WorkerStep

(* Numbers of workers.                                                     *)
LEMMA Workforce ==
  \A S \in SUBSET Workers :
     /\ IsFiniteSet(S) /\ Cardinality(S) \in Nat
     /\ \A T \in SUBSET S : Cardinality(T) <= Cardinality(S) /\ Cardinality(T) \in Nat
     /\ \A w \in S : Cardinality(S \ {w}) = Cardinality(S) - 1
     /\ \A w \in Workers \ S : Cardinality(S \cup {w}) = Cardinality(S) + 1
  BY OutboxConstants, FS_CardinalityType, FS_Subset, FS_AddElement, FS_RemoveElement

(* The tokens of k once its holders and its row have changed: it is enough *)
(* that no token comes from nowhere.                                       *)
Tokens(k) == EffectTokens(k) /\ AttemptTokens(k)

LEMMA NextTokens ==
  ASSUME CInv, [Next]_vars, NEW k \in Keys
  PROVE  Tokens(k)'
<1> DEFINE U == Unfinished(k)
           Y == Young(k)
<1>1. /\ U \in SUBSET Workers /\ Y \in SUBSET Workers
      /\ U' \in SUBSET Workers /\ Y' \in SUBSET Workers
  BY DEF Unfinished, Young
<1>2. /\ Cardinality(U) \in Nat /\ Cardinality(Y) \in Nat
      /\ Cardinality(U') \in Nat /\ Cardinality(Y') \in Nat
      /\ U' \subseteq U => Cardinality(U') <= Cardinality(U)
      /\ Y' \subseteq Y => Cardinality(Y') <= Cardinality(Y)
  BY <1>1, Workforce
<1>3. /\ effects[k] \in Nat /\ attempts[k] \in Nat /\ recoveries[k] \in Nat
      /\ MaxAttempts \in Nat \ {0} /\ Open(k) \in {0, 1} /\ Open(k)' \in {0, 1}
  BY OutboxConstants DEF CInv, TypeOK, Open
<1>4. EffectTokens(k) /\ AttemptTokens(k)
  BY DEF CInv
<1> USE DEF Tokens
<1>5. ASSUME U' \subseteq U, Y' \subseteq Y, effects'[k] = effects[k], attempts'[k] = attempts[k],
             recoveries'[k] = recoveries[k], Open(k)' <= Open(k)
      PROVE  Tokens(k)'
  <2> HIDE DEF U, Y
  <2>1. EffectTokens(k)'
    BY <1>2, <1>3, <1>4, <1>5 DEF EffectTokens, U
  <2>2. AttemptTokens(k)'
    BY <1>2, <1>3, <1>4, <1>5 DEF AttemptTokens, Y
  <2>3. QED
    BY <2>1, <2>2
<1>6. ASSUME NEW j \in Keys, Enqueue(j) PROVE Tokens(k)'
  BY <1>5, <1>6 DEF Enqueue, Unfinished, Young, Holding, Open, workerVars, history, Claimable,
     CInv, TypeOK
<1>7. ASSUME NEW w \in Workers, SelectDue(w) \/ ClaimLost(w) \/ Abandon(w) PROVE Tokens(k)'
  BY <1>5, <1>7 DEF SelectDue, ClaimLost, Abandon, Release, rowVars, history, Unfinished, Young,
     Holding, Open, CInv, TypeOK, Marks
<1>8. ASSUME NEW w \in Workers, ClaimRow(w) PROVE Tokens(k)'
  <2>1. CASE task[w] # k
    BY <1>5, <1>8, <2>1 DEF ClaimRow, history, Unfinished, Young, Holding, Open, CInv, TypeOK
  <2>2. CASE task[w] = k
    <3>1. U' = U \cup {w} /\ w \in Workers \ U
      BY <1>8, <2>2 DEF ClaimRow, Unfinished, Holding, CInv, TypeOK, Marks
    <3>2. Cardinality(U') = Cardinality(U) + 1
      BY <1>1, <3>1, Workforce
    <3>3. /\ Y' \subseteq Y \cup {w} /\ w \in Workers \ Y
          /\ attempts[k] + 1 >= MaxAttempts => Y' \subseteq Y
      BY <1>8, <2>2, <1>3 DEF ClaimRow, Young, Holding, CInv, TypeOK, Marks
    <3>4. Cardinality(Y') <= Cardinality(Y) + 1
      <4>1. Cardinality(Y \cup {w}) = Cardinality(Y) + 1 /\ Y \cup {w} \in SUBSET Workers
        BY <1>1, <3>3, Workforce
      <4>2. QED
        BY <3>3, <4>1, Workforce
    <3>5. Open(k) = 1 /\ Open(k)' = 0
      BY <1>8, <2>2 DEF ClaimRow, StillDue, Open, Claimable, CInv, TypeOK
    <3>6. /\ attempts'[k] = attempts[k] + 1
          /\ effects'[k] = effects[k] /\ recoveries'[k] = recoveries[k]
      BY <1>8, <2>2 DEF ClaimRow, history, CInv, TypeOK
    <3> HIDE DEF U, Y
    <3>7. EffectTokens(k)'
      BY <1>2, <1>3, <1>4, <3>2, <3>5, <3>6 DEF EffectTokens, U
    <3>8. AttemptTokens(k)'
      BY <1>2, <1>3, <1>4, <3>3, <3>4, <3>5, <3>6 DEF AttemptTokens, Y
    <3>9. QED
      BY <3>7, <3>8
  <2>3. QED
    BY <2>1, <2>2
<1>9. ASSUME NEW w \in Workers, Handle(w) PROVE Tokens(k)'
  <2>1. CASE task[w] = k /\ outcome'[w] = "ok"
    <3>1. U' = U \ {w} /\ w \in U
      BY <1>9, <2>1 DEF Handle, Unfinished, Holding, CInv, TypeOK, Marks
    <3>2. Cardinality(U') = Cardinality(U) - 1
      BY <1>1, <3>1, Workforce
    <3>3. Y' \subseteq Y
      BY <1>9 DEF Handle, Young, Holding, CInv, TypeOK
    <3>4. /\ effects'[k] = effects[k] + 1 /\ attempts'[k] = attempts[k]
          /\ recoveries'[k] = recoveries[k] /\ Open(k)' = Open(k)
      BY <1>9, <2>1 DEF Handle, rowVars, Open, CInv, TypeOK, Failures
    <3> HIDE DEF U, Y
    <3>5. EffectTokens(k)'
      BY <1>2, <1>3, <1>4, <3>2, <3>4 DEF EffectTokens, U
    <3>6. AttemptTokens(k)'
      BY <1>2, <1>3, <1>4, <3>3, <3>4 DEF AttemptTokens, Y
    <3>7. QED
      BY <3>5, <3>6
  <2>2. CASE ~(task[w] = k /\ outcome'[w] = "ok")
    <3>1. effects'[k] = effects[k]
      BY <1>9, <2>2 DEF Handle, CInv, TypeOK
    <3>2. U' \subseteq U /\ Y' \subseteq Y
      BY <1>9, <2>2 DEF Handle, Unfinished, Young, Holding, CInv, TypeOK, Marks
    <3>3. QED
      BY <1>5, <1>9, <3>1, <3>2 DEF Handle, rowVars, Open
  <2>3. QED
    BY <2>1, <2>2
<1>10. ASSUME NEW w \in Workers, MarkCompleted(w) PROVE Tokens(k)'
  <2>1. U' \subseteq U /\ Y' \subseteq Y
    BY <1>10 DEF MarkCompleted, Release, Unfinished, Young, Holding, CInv, TypeOK
  <2>2. Open(k)' <= Open(k)
    BY <1>10 DEF MarkCompleted, Open, Claimable, CInv, TypeOK
  <2>3. QED
    BY <1>5, <1>10, <2>1, <2>2 DEF MarkCompleted, history
<1>11. ASSUME NEW w \in Workers, MarkFailed(w) PROVE Tokens(k)'
  <2>1. U' \subseteq U /\ Y' \subseteq Y
    BY <1>11 DEF MarkFailed, Release, Unfinished, Young, Holding, CInv, TypeOK
  <2>2. /\ effects'[k] = effects[k] /\ attempts'[k] = attempts[k]
        /\ recoveries'[k] = recoveries[k]
    BY <1>11 DEF MarkFailed, history
  <2>3. CASE task[w] # k \/ GivesUp(w)
    <3>1. Open(k)' <= Open(k)
      BY <1>11, <2>3 DEF MarkFailed, FailedStatus, Open, Claimable, CInv, TypeOK
    <3>2. QED
      BY <1>5, <2>1, <2>2, <3>1
  <2>4. CASE task[w] = k /\ ~GivesUp(w)
    <3>1. U' = U \ {w} /\ w \in U /\ Y' = Y \ {w} /\ w \in Y
      BY <1>11, <2>4, OutboxConstants DEF MarkFailed, GivesUp, Release, Unfinished, Young,
         Holding, CInv, TypeOK, Failures
    <3>2. Cardinality(U') = Cardinality(U) - 1 /\ Cardinality(Y') = Cardinality(Y) - 1
      BY <1>1, <3>1, Workforce
    <3> HIDE DEF U, Y
    <3>3. EffectTokens(k)'
      BY <1>2, <1>3, <1>4, <2>2, <3>2 DEF EffectTokens, U
    <3>4. AttemptTokens(k)'
      BY <1>2, <1>3, <1>4, <2>2, <3>2 DEF AttemptTokens, Y
    <3>5. QED
      BY <3>3, <3>4
  <2>5. QED
    BY <2>3, <2>4
<1>12. CASE RecoverStale
  <2>1. U' = U /\ Y' = Y
    BY <1>12 DEF RecoverStale, workerVars, Unfinished, Young, Holding
  <2>2. effects'[k] = effects[k] /\ attempts'[k] = attempts[k]
    BY <1>12 DEF RecoverStale
  <2>3. recoveries'[k] - Open(k)' >= recoveries[k] - Open(k) /\ recoveries'[k] \in Nat
    BY <1>12, <1>3 DEF RecoverStale, Stale, Open, Claimable, CInv, TypeOK
  <2> HIDE DEF U, Y
  <2>4. EffectTokens(k)'
    BY <1>2, <1>3, <1>4, <2>1, <2>2, <2>3 DEF EffectTokens, U
  <2>5. AttemptTokens(k)'
    BY <1>2, <1>3, <1>4, <2>1, <2>2, <2>3 DEF AttemptTokens, Y
  <2>6. QED
    BY <2>4, <2>5
<1>13. CASE Tick \/ UNCHANGED vars
  BY <1>5, <1>13, <1>3 DEF Tick, vars, rowVars, workerVars, history, Unfinished, Young, Holding,
     Open
<1>14. QED
  BY <1>6, <1>7, <1>8, <1>9, <1>10, <1>11, <1>12, <1>13 DEF Next, WorkerStep

LEMMA NextCInv == CInv /\ [Next]_vars => CInv'
<1>1. SUFFICES ASSUME CInv, [Next]_vars PROVE CInv'
  OBVIOUS
<1>2. \A k \in Keys : Tokens(k)'
  BY <1>1, NextTokens
<1>3. QED
  BY <1>1, <1>2, NextMarks DEF CInv, Tokens

(* Every column, counter and clock keeps its type (outbox_tasks, run_once). *)
THEOREM TypeCorrectness == Spec => []TypeOK
<1>1. CInv => TypeOK
  BY DEF CInv
<1>2. QED BY <1>1, InitCInv, NextCInv, PTL DEF Spec

(* attempt_count exceeds max_attempts only by the recoveries of stale      *)
(* claims, and a handler succeeds again only where a claim was recovered:  *)
(* however long runs take, and whatever late settles write over.           *)
THEOREM BoundedDelivery == Spec => []DeliveryBudget
<1>1. CInv => DeliveryBudget
  <2>1. SUFFICES ASSUME CInv, NEW k \in Keys
                 PROVE  /\ attempts[k] <= MaxAttempts + recoveries[k]
                        /\ effects[k] <= 1 + recoveries[k]
    BY DEF DeliveryBudget
  <2>2. EffectTokens(k) /\ AttemptTokens(k)
    BY <2>1 DEF CInv
  <2>3. Cardinality(Unfinished(k)) \in Nat /\ Cardinality(Young(k)) \in Nat /\ Open(k) \in {0, 1}
    BY Workforce DEF Unfinished, Young, Open
  <2>4. /\ attempts[k] \in Nat /\ effects[k] \in Nat /\ recoveries[k] \in Nat
        /\ MaxAttempts \in Nat \ {0}
    BY <2>1, OutboxConstants DEF CInv, TypeOK
  <2>5. QED
    BY <2>2, <2>3, <2>4 DEF EffectTokens, AttemptTokens
<1>2. QED BY <1>1, InitCInv, NextCInv, PTL DEF Spec

(* mark_completed follows a success; a dead letter follows a permanent     *)
(* error or the last permitted attempt.                                    *)
THEOREM EarnedVerdicts == Spec => []VerdictEarned
<1>1. CInv => VerdictEarned
  BY DEF CInv
<1>2. QED BY <1>1, InitCInv, NextCInv, PTL DEF Spec

-----------------------------------------------------------------------------
(* Part 2: as long as no run outlasts the lease.  Settling is by id, with  *)
(* no fencing token, so a claim recovered under its holder leaves two      *)
(* runs of one task, the later of which settles over the other's verdict.  *)
LeaseKept == \A w \in Workers : Holding(w) => elapsed[w] < Lease

(* A claim and its row agree: the row is still processing, under the       *)
(* attempt its holder remembers, and as old as its holder's run.           *)
ClaimMatchesRow == \A w \in Workers :
    Holding(w) => /\ status[task[w]] = "processing"
                  /\ attempt[w] = attempts[task[w]]
                  /\ age[task[w]] = elapsed[w]

IInv == CInv /\ ClaimMatchesRow /\ ExclusiveHolder

(* Runs shorter than the lease keep it.                                    *)
LEMMA ShortRuns == ASSUME LeaseCoversRun PROVE CInv => LeaseKept
  BY OutboxConstants DEF LeaseCoversRun, CInv, TypeOK, LeaseKept

LEMMA InitIInv == Init => IInv
  BY InitCInv DEF Init, IInv, ClaimMatchesRow, ExclusiveHolder, Holding

(* Every step but a recovery keeps claims and rows in agreement by itself; *)
(* a recovery does because a stale claim is older than any run, so that    *)
(* nobody holds it.                                                        *)
LEMMA NextIInv ==
  ASSUME IInv, LeaseKept, [Next]_vars
  PROVE  IInv'
<1> DEFINE Good == ClaimMatchesRow' /\ ExclusiveHolder'
<1> USE OutboxConstants DEF IInv, CInv, TypeOK, Marks, ClaimMatchesRow, ExclusiveHolder, Holding,
        Claimable, Failures, rowVars, workerVars, history
<1>1. CInv'
  BY NextCInv
<1>2. ASSUME NEW k \in Keys, Enqueue(k) PROVE Good
  BY <1>2 DEF Enqueue
<1>3. ASSUME NEW w \in Workers, SelectDue(w) PROVE Good
  BY <1>3 DEF SelectDue, Due
<1>4. ASSUME NEW w \in Workers, ClaimRow(w) PROVE Good
  BY <1>4 DEF ClaimRow, StillDue
<1>5. ASSUME NEW w \in Workers, ClaimLost(w) \/ Abandon(w) PROVE Good
  BY <1>5 DEF ClaimLost, Abandon, Release
<1>6. ASSUME NEW w \in Workers, Handle(w) PROVE Good
  BY <1>6 DEF Handle
<1>7. ASSUME NEW w \in Workers, MarkCompleted(w) PROVE Good
  BY <1>7 DEF MarkCompleted, Release
<1>8. ASSUME NEW w \in Workers, MarkFailed(w) PROVE Good
  BY <1>8 DEF MarkFailed, Release
<1>9. ASSUME RecoverStale PROVE Good
  BY <1>9 DEF RecoverStale, Stale, LeaseKept
<1>10. ASSUME Tick PROVE Good
  BY <1>10 DEF Tick
<1>11. ASSUME UNCHANGED vars PROVE Good
  BY <1>11 DEF vars
<1>12. QED
  BY <1>1, <1>2, <1>3, <1>4, <1>5, <1>6, <1>7, <1>8, <1>9, <1>10, <1>11 DEF Next, WorkerStep

LEMMA Invariance == Spec /\ []LeaseKept => []IInv
<1>1. IInv /\ LeaseKept /\ [Next]_vars => IInv'
  BY NextIInv
<1>2. QED BY <1>1, InitIInv, PTL DEF Spec

(* A lease_timeout longer than every run (recover_stale_claims and the     *)
(* document worker take five minutes) makes the theorems below apply.      *)
THEOREM LeaseIsKept == ASSUME LeaseCoversRun PROVE Spec => []LeaseKept
<1>1. CInv => LeaseKept
  BY ShortRuns
<1>2. QED BY <1>1, InitCInv, NextCInv, PTL DEF Spec

(* claim_next, the lease and recover_stale never let two workers run or    *)
(* settle the same task.                                                   *)
THEOREM MutualExclusion == Spec /\ []LeaseKept => []ExclusiveHolder
<1>1. IInv => ExclusiveHolder
  BY DEF IInv
<1>2. QED BY <1>1, Invariance, PTL

(* No enqueue, claim, late settle or recovery re-opens a settled task.     *)
THEOREM SettledForGood == Spec /\ []LeaseKept => TerminalIsFinal
<1> DEFINE Final == \A k \in Keys : status[k] \in Terminal => status'[k] = status[k]
<1>1. IInv /\ [Next]_vars => [Final]_vars
  <2> SUFFICES ASSUME IInv, Next PROVE Final
    OBVIOUS
  <2> USE DEF IInv, CInv, TypeOK, Marks, ClaimMatchesRow, Terminal, Claimable, Holding
  <2>1. ASSUME NEW k \in Keys, Enqueue(k) PROVE Final
    BY <2>1 DEF Enqueue
  <2>2. ASSUME NEW w \in Workers, WorkerStep(w) PROVE Final
    BY <2>2 DEF WorkerStep, SelectDue, ClaimRow, StillDue, ClaimLost, Handle,
                MarkCompleted, MarkFailed, rowVars
  <2>3. ASSUME NEW w \in Workers, Abandon(w) PROVE Final
    BY <2>3 DEF Abandon, rowVars
  <2>4. CASE RecoverStale
    BY <2>4 DEF RecoverStale, Stale
  <2>5. CASE Tick
    BY <2>5 DEF Tick
  <2>6. QED BY <2>1, <2>2, <2>3, <2>4, <2>5 DEF Next
<1>2. QED BY <1>1, Invariance, PTL DEF Spec, TerminalIsFinal

-----------------------------------------------------------------------------
(* A retry's due date: the time since the last clock read plus the time to *)
(* go never falls short of the delay, whatever saturates.                  *)
RetryIsSpaced == \A k \in Keys :
    /\ due[k] >= -RunBound
    /\ status[k] = "retry" /\ lastError[k] # "stale"
       => /\ attempts[k] \in 1 .. (MaxAttempts - 1)
          /\ age[k] + due[k] >= Delay(attempts[k])

(* No step shortens the wait of a retry.                                   *)
LEMMA RetryIsSpacedKept ==
  ASSUME IInv, RetryIsSpaced, [Next]_vars
  PROVE  RetryIsSpaced'
<1> USE OutboxConstants DEF IInv, CInv, TypeOK, RetryIsSpaced
<1>1. ASSUME NEW k \in Keys, Enqueue(k) PROVE RetryIsSpaced'
  BY <1>1 DEF Enqueue
<1>2. ASSUME NEW w \in Workers, SelectDue(w) \/ ClaimLost(w) \/ Handle(w) \/ Abandon(w)
      PROVE  RetryIsSpaced'
  BY <1>2 DEF SelectDue, ClaimLost, Handle, Abandon, rowVars
<1>3. ASSUME NEW w \in Workers, ClaimRow(w) PROVE RetryIsSpaced'
  BY <1>3 DEF ClaimRow
<1>4. ASSUME NEW w \in Workers, MarkCompleted(w) PROVE RetryIsSpaced'
  BY <1>4 DEF MarkCompleted
<1>5. ASSUME NEW w \in Workers, MarkFailed(w) PROVE RetryIsSpaced'
  <2>1. /\ task[w] \in Keys
        /\ attempt[w] = attempts[task[w]] /\ attempt[w] > 0
    BY <1>5 DEF MarkFailed, ClaimMatchesRow, Marks, Holding
  <2>2. CASE GivesUp(w)
    BY <1>5, <2>1, <2>2 DEF MarkFailed, FailedStatus
  <2>3. CASE ~GivesUp(w)
    <3>1. attempt[w] \in 1 .. (MaxAttempts - 1) /\ Delay(attempt[w]) \in Nat
      BY <2>1, <2>3 DEF GivesUp
    <3>2. QED BY <1>5, <2>1, <2>3, <3>1 DEF MarkFailed, FailedStatus, NextDue
  <2>4. QED BY <2>2, <2>3
<1>6. CASE RecoverStale
  BY <1>6 DEF RecoverStale
<1>7. CASE Tick
  BY <1>7 DEF Tick, Claimable
<1>8. CASE UNCHANGED vars
  BY <1>8 DEF vars, rowVars
<1>9. QED BY <1>1, <1>2, <1>3, <1>4, <1>5, <1>6, <1>7, <1>8 DEF Next, WorkerStep

(* A retry that no recovery put back is claimed no earlier than the        *)
(* exponential delay after the clock read of the attempt that failed.      *)
THEOREM ExponentialBackoff == Spec /\ []LeaseKept => BackoffKept
<1> DEFINE Spaced ==
      \A k \in Keys :
         (/\ status[k] = "retry" /\ status'[k] = "processing"
          /\ lastError[k] # "stale")
         => age[k] - age'[k] >= Delay(attempts[k])
<1>1. Init => RetryIsSpaced
  BY OutboxConstants DEF Init, RetryIsSpaced
<1>2. IInv /\ RetryIsSpaced /\ [Next]_vars => RetryIsSpaced'
  BY RetryIsSpacedKept
<1>3. IInv /\ RetryIsSpaced /\ [Next]_vars => [Spaced]_vars
  <2> SUFFICES ASSUME IInv, RetryIsSpaced, Next PROVE Spaced
    OBVIOUS
  <2> USE DEF IInv, CInv, TypeOK
  <2>1. ASSUME NEW w \in Workers, ClaimRow(w) PROVE Spaced
    BY <2>1, OutboxConstants DEF ClaimRow, StillDue, RetryIsSpaced, ClaimMatchesRow
  <2>2. ASSUME NEW k \in Keys, Enqueue(k) PROVE Spaced
    BY <2>2 DEF Enqueue
  <2>3. ASSUME NEW w \in Workers, WorkerStep(w) \/ Abandon(w), ~ClaimRow(w)
        PROVE  Spaced
    BY <2>3 DEF WorkerStep, SelectDue, ClaimLost, Handle, MarkCompleted, MarkFailed,
                FailedStatus, Abandon, rowVars
  <2>4. CASE RecoverStale
    BY <2>4 DEF RecoverStale, Stale
  <2>5. CASE Tick
    BY <2>5 DEF Tick
  <2>6. QED BY <2>1, <2>2, <2>3, <2>4, <2>5 DEF Next
<1>4. QED BY <1>1, <1>2, <1>3, Invariance, PTL DEF Spec, BackoffKept

-----------------------------------------------------------------------------
(* Every step of the outbox is a step of the abstract ledger or leaves it  *)
(* as it is: claims, retries and recoveries are invisible there.           *)
THEOREM Refinement == Spec /\ []LeaseKept => ImplementsLedger
<1>1. Init => Ledger!LedgerInit
  BY DEF Init, Ledger!LedgerInit, Verdict, Claimable
<1>2. IInv /\ [Next]_vars => [Ledger!LedgerNext]_(Ledger!ledgerVars)
  <2> SUFFICES ASSUME IInv, [Next]_vars
               PROVE  Ledger!LedgerNext \/ UNCHANGED <<Verdict, effects>>
    BY DEF Ledger!ledgerVars
  <2> DEFINE Stutter == UNCHANGED <<Verdict, effects>>
  <2>1. ASSUME NEW k \in Keys, Enqueue(k) PROVE Ledger!Post(k)
    BY <2>1 DEF Enqueue, Ledger!Post, history, IInv, CInv, TypeOK, Verdict, Claimable
  <2>2. ASSUME NEW w \in Workers, SelectDue(w) \/ ClaimLost(w) \/ Abandon(w)
        PROVE  Stutter
    BY <2>2 DEF SelectDue, ClaimLost, Abandon, rowVars, history, Verdict
  <2>3. ASSUME NEW w \in Workers, ClaimRow(w) PROVE Stutter
    BY <2>3 DEF ClaimRow, StillDue, history, IInv, CInv, TypeOK, Marks, ClaimMatchesRow,
                Verdict, Claimable
  <2>4. ASSUME NEW w \in Workers, Handle(w)
        PROVE  task[w] \in Keys /\ (Ledger!TakeEffect(task[w]) \/ Stutter)
    BY <2>4 DEF Handle, rowVars, Ledger!TakeEffect, IInv, CInv, TypeOK, Marks, ClaimMatchesRow,
                Holding, Verdict, Claimable, Failures
  <2>5. ASSUME NEW w \in Workers, MarkCompleted(w)
        PROVE  task[w] \in Keys /\ Ledger!Complete(task[w])
    BY <2>5 DEF MarkCompleted, history, Ledger!Complete, IInv, CInv, TypeOK,
                ClaimMatchesRow, Marks, Holding, Verdict, Claimable
  <2>6. ASSUME NEW w \in Workers, MarkFailed(w)
        PROVE  task[w] \in Keys /\ (Ledger!GiveUp(task[w]) \/ Stutter)
    BY <2>6 DEF MarkFailed, FailedStatus, history, Ledger!GiveUp, IInv, CInv, TypeOK,
                Marks, ClaimMatchesRow, Holding, Verdict, Claimable
  <2>7. CASE RecoverStale
    BY <2>7 DEF RecoverStale, Stale, IInv, CInv, TypeOK, Verdict, Claimable
  <2>8. CASE Tick
    BY <2>8 DEF Tick, history, Verdict
  <2>9. CASE UNCHANGED vars
    BY <2>9 DEF vars, rowVars, history, Verdict
  <2>10. QED
    BY <2>1, <2>2, <2>3, <2>4, <2>5, <2>6, <2>7, <2>8, <2>9
    DEF Next, WorkerStep, Ledger!LedgerNext
<1>3. QED BY <1>1, <1>2, Invariance, PTL
          DEF Spec, ImplementsLedger, Ledger!LedgerSpec

=============================================================================
