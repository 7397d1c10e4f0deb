--------------------------- MODULE RecoveryCentre ---------------------------
(***************************************************************************)
(* The recovery centre: the retry of a document that failed, recorded in   *)
(* an append-only ledger before and after the owner's command runs, and    *)
(* the incident that failing model calls of an activity open.              *)
(*                                                                         *)
(* A retry commits its request first; the owner's command and its result   *)
(* are a second transaction.  Processing itself is DocumentPipeline's;     *)
(* here a document under processing fails again, or does not.              *)
(***************************************************************************)
EXTENDS Integers, FiniteSets

CONSTANTS
    Requests,     \* HTTP requests in flight
    RecoveryKeys, \* idempotency keys of recovery commands
    NoOne,
    RetryBudget   \* retry_budget of a failed document (3 in the code)

ASSUME RecoveryConstants ==
    /\ NoOne \notin Requests
    /\ IsFiniteSet(Requests) /\ Requests # {}
    /\ RetryBudget \in Nat \ {0}

VARIABLES
    writer,    \* the request that holds SQLite's write lock between its steps
    document,  \* processing_status: "failed", "pending", "completed"
    replaced,  \* keys of the replacement tasks posted for the document
    requested, \* keys with an action_requested event
    results,   \* results recorded for a key
    incident,  \* latest event of the issue provider:activity
    action     \* recovery commands between their steps

recoveryVars == <<writer, document, replaced, requested, results, incident, action>>

Verdicts == {"succeeded", "failed"}
NoAction == [pc |-> "idle"]
Actions  == {NoAction} \cup [pc : {"asked", "dispatch", "write", "refused"}, key : RecoveryKeys]

RecoveryInit ==
    /\ writer    = NoOne
    /\ document  = "failed"
    /\ replaced  = {}
    /\ requested = {}
    /\ results   = [k \in RecoveryKeys |-> {}]
    /\ incident  = "none"
    /\ action    = [r \in Requests |-> NoAction]

Goto(r, pc) == action' = [action EXCEPT ![r].pc = pc]
Rest(r)     == action' = [action EXCEPT ![r] = NoAction]

(* manual_attempts of the query: replacement tasks count for good.         *)
BadOffered == document = "failed" /\ Cardinality(replaced) <= RetryBudget   \* off by one
Offered == document = "failed" /\ Cardinality(replaced) < RetryBudget

(* execute, up to its first write: no result is known for the key, and the *)
(* issue is listed, at the version the client was shown, with its retry    *)
(* still offered.  A key with a result only gets that result again.        *)
Ask(r, k) ==
    /\ action[r] = NoAction
    /\ results[k] = {} /\ Offered
    /\ action' = [action EXCEPT ![r] = [pc |-> "asked", key |-> k]]
    /\ UNCHANGED <<writer, document, replaced, requested, results, incident>>

(* The event action_requested is committed; there is one for each key      *)
(* (uq_recovery_action_event), so a repeated request ends in an error.     *)
BadUnrequested(k) == TRUE   \* no unique constraint
Unrequested(k) == k \notin requested
Request(r) ==
    /\ action[r].pc = "asked" /\ writer = NoOne
    /\ Unrequested(action[r].key)
    /\ requested' = requested \cup {action[r].key}
    /\ Goto(r, "dispatch")
    /\ UNCHANGED <<writer, document, replaced, results, incident>>

(* retry_failed_document reads the task of its key and the document, then  *)
(* the file; the refusal is recorded as the result.                        *)
Dispatch(r) ==
    /\ action[r].pc = "dispatch"
    /\ Goto(r, IF action[r].key \in replaced \/ document = "failed" THEN "write" ELSE "refused")
    /\ UNCHANGED <<writer, document, replaced, requested, results, incident>>

(* The file may be gone, or not be what was uploaded.                      *)
FileUnusable(r) ==
    /\ action[r].pc = "write"
    /\ Goto(r, "refused")
    /\ UNCHANGED <<writer, document, replaced, requested, results, incident>>

Record(k, verdict) == results' = [results EXCEPT ![k] = @ \cup {verdict}]

(* The replacement task and the result, in one transaction.  The document  *)
(* is written back as pending, whatever has become of it since the read.   *)
Replacing(k) == replaced \cup {k}
Replace(r) ==
    LET k == action[r].key IN
    /\ action[r].pc = "write" /\ writer = NoOne
    /\ document' = IF k \in replaced THEN document ELSE "pending"
    /\ replaced' = Replacing(k)
    /\ Record(k, "succeeded")
    /\ Rest(r)
    /\ UNCHANGED <<writer, requested, incident>>

Refuse(r) ==
    /\ action[r].pc = "refused" /\ writer = NoOne
    /\ Record(action[r].key, "failed")
    /\ Rest(r)
    /\ UNCHANGED <<writer, document, replaced, requested, incident>>

(* An error that is not the owner's (a collision, a lock not granted in    *)
(* time, the result that cannot be written): what is open rolls back.      *)
GiveUp(r) ==
    /\ action[r] # NoAction
    /\ Rest(r)
    /\ UNCHANGED <<writer, document, replaced, requested, results, incident>>

Processed ==
    /\ document = "pending" /\ writer = NoOne
    /\ document' \in {"failed", "completed"}
    /\ UNCHANGED <<writer, replaced, requested, results, incident, action>>

(* record_model_failure and resolve_model_issue, inside other requests.    *)
RecordModelFailure == writer = NoOne /\ incident' = "open"
BadResolveModelIssue == incident' = "closed"   \* a status the ledger does not know
ResolveModelIssue  == incident' = IF incident = "open" THEN "resolved" ELSE incident

RecoveryStep(r) ==
    \/ \E k \in RecoveryKeys : Ask(r, k)
    \/ Request(r) \/ Dispatch(r) \/ FileUnusable(r) \/ Replace(r) \/ Refuse(r) \/ GiveUp(r)

-----------------------------------------------------------------------------
RecoveryTypeOK ==
    /\ writer \in Requests \cup {NoOne}
    /\ document \in {"failed", "pending", "completed"}
    /\ replaced \subseteq RecoveryKeys /\ requested \subseteq RecoveryKeys
    /\ results \in [RecoveryKeys -> SUBSET Verdicts]
    /\ incident \in {"none", "open", "resolved"}
    /\ action \in [Requests -> Actions]

(* RECOVERY-AC-003 and section 5: a key has one result, which a repeated   *)
(* command is shown, and it tells the truth: it succeeded exactly if a     *)
(* replacement task was posted under that key, whatever crashed between.   *)
ResultTellsTruth ==
    \A k \in RecoveryKeys :
        /\ Cardinality(results[k]) <= 1
        /\ "succeeded" \in results[k] <=> k \in replaced

(* Section 4, the budget, as far as the code keeps it: it is checked on a  *)
(* list read before the command is requested, so commands under way at the *)
(* same time may each add one retry, and no more.                          *)
BudgetOverrun == Cardinality(replaced) <= RetryBudget + Cardinality(Requests) - 1
=============================================================================
