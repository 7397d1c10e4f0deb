-------------------------- MODULE DocumentPipeline --------------------------
(***************************************************************************)
(* How a Material gets from upload to published: the commands of           *)
(* DocumentService and MaterialLifecycleService, the tasks they post to    *)
(* the outbox, and the one DocumentProcessingRuntime of the server, which  *)
(* claims a task, runs it through several database commits with awaits in  *)
(* between, and settles it.  Commands run between any two of these commits *)
(* and the server may stop at any of them.                                 *)
(*                                                                         *)
(* The outbox appears without its clock (Outbox has it): a retry may be    *)
(* claimed as soon as it is written, and whether a claim found at a restart*)
(* is older than the lease is a choice made at that restart.               *)
(***************************************************************************)
EXTENDS Naturals, FiniteSets

CONSTANTS
    Docs,          \* documents that may be uploaded
    Hostile,       \* documents the current scanner quarantines
    Malformed,     \* documents the current scanner rejects
    Legacy,        \* documents an older scanner has quarantined
    Outdated,      \* documents published under an older extraction version
    Interrupted,   \* documents an older version of the server was processing
    Commands,      \* idempotency keys of recovery commands
    NoDoc, NoTask, \* none
    MaxAttempts,   \* max_attempts of the worker
    RetryBudget,   \* manual retries the recovery centre offers per document
    RestartGap,    \* "any", or "long": a restart comes after every lease lapsed
    MaxCrashes,    \* bound: how often the server stops
    MaxLost,       \* bound: how often the settling transaction fails
    MaxTrash       \* bound: how often documents are trashed or erased

(* The key of a "process" task names the versions; "earlier" is the one an *)
(* older version of the server posted.                                     *)
Posted == {"process", "reinspect", "after", "earlier"}
Kinds == Posted \cup Commands
Tasks == Docs \X Kinds
DocOf(t) == t[1]
KindOf(t) == t[2]

ASSUME PipelineConstants ==
    /\ Hostile \cup Malformed \cup Legacy \cup Outdated \subseteq Docs
    /\ Interrupted \subseteq Legacy \cup Outdated
    /\ Hostile \cap Malformed = {} /\ Legacy \cap Outdated = {}
    /\ Commands \cap Posted = {}
    /\ NoDoc \notin Docs /\ NoTask \notin Tasks
    /\ MaxAttempts \in Nat \ {0} /\ RetryBudget \in Nat
    /\ RestartGap \in {"any", "long"}
    /\ MaxCrashes \in Nat /\ MaxLost \in Nat /\ MaxTrash \in Nat

VARIABLES
    lifecycle,  \* documents: "absent" and "erased" (no row), "active", "trash"
    proc,       \* processing_status
    revision,   \* published revision: "none", "old", "current" extraction
    scanned,    \* scanner version of the last scan: "none", "old", "current"
    control,    \* status of the safety reinspection, "none" without one
    tstatus,    \* outbox_tasks: status
    attempts,   \* outbox_tasks: attempt_count
    phase,      \* the runtime: where its loop stands
    cur,        \* ... the task it has claimed
    seen, held, \* ... the processing_status and the reinspection it loaded
    result,     \* ... the handler's result
    reading,    \* recovery commands: document whose file each is reading
    crashes, lost, trashes  \* bounds

docVars  == <<lifecycle, proc, revision, scanned, control>>
taskVars == <<tstatus, attempts>>
runVars  == <<phase, cur, seen, held, result>>
bounds   == <<crashes, lost, trashes>>
vars     == <<docVars, taskVars, runVars, reading, bounds>>

Claimable == {"pending", "retry"}
Open      == Claimable \cup {"processing"}
Waiting   == {"pending", "processing"}     \* processing statuses
Blocked   == {"quarantined", "rejected"}
Failures  == {"transient", "permanent"}

Active(d) == lifecycle[d] = "active"
Exists(d) == lifecycle[d] \in {"active", "trash"}
Up == phase # "down"
doc == DocOf(cur)

Init ==
    /\ lifecycle = [d \in Docs |-> IF d \in Legacy \cup Outdated THEN "active" ELSE "absent"]
    /\ proc      = [d \in Docs |-> IF d \in Legacy THEN "quarantined"
                                   ELSE IF d \in Outdated THEN "completed" ELSE "pending"]
    /\ revision  = [d \in Docs |-> IF d \in Outdated THEN "old" ELSE "none"]
    /\ scanned   = [d \in Docs |-> IF d \in Legacy \cup Outdated THEN "old" ELSE "none"]
    /\ control   = [d \in Docs |-> "none"]
    /\ tstatus   = [t \in Tasks |-> IF KindOf(t) = "earlier" /\ DocOf(t) \in Interrupted
                                   THEN "processing" ELSE "absent"]
    /\ attempts  = [t \in Tasks |-> 0]
    /\ phase     = "down"
    /\ cur       = NoTask
    /\ seen      = "none"
    /\ held      = "none"
    /\ result    = "none"
    /\ reading   = [c \in Commands |-> NoDoc]
    /\ crashes   = 0
    /\ lost      = 0
    /\ trashes   = 0

(* Definitions named Bad... are plausible mistakes in the definition that  *)
(* follows them; a check replaces the one by the other and must then fail. *)

(* OutboxProducer.enqueue: a task already known, in any status, is left as *)
(* it is.                                                                  *)
Enqueued(ts, new) == [t \in Tasks |-> IF t \in new /\ ts[t] = "absent"
                                      THEN "pending" ELSE ts[t]]

-----------------------------------------------------------------------------
(* The runtime: start, stop and the loop. *)

NeedsProcessing(d) == \/ proc[d] \in Waiting
                      \/ proc[d] = "completed" /\ revision[d] # "current"

(* What recover_stale may find older than the lease at a restart.          *)
BadStaleSets == {{}}   \* stale claims are never recovered
StaleSets == LET claims == {t \in Tasks : tstatus[t] = "processing"}
             IN IF RestartGap = "long" THEN {claims} ELSE SUBSET claims

(* reconcile, then the loop starts.                                        *)
Start ==
    /\ phase = "down"
    /\ \E S \in StaleSets :
         tstatus' = Enqueued([t \in Tasks |-> IF t \in S THEN "retry" ELSE tstatus[t]],
                             {<<d, "process">> : d \in {e \in Docs : Active(e) /\ NeedsProcessing(e)}})
    /\ phase' = "idle"
    /\ UNCHANGED <<docVars, attempts, cur, seen, held, result, reading, bounds>>

Forget == cur' = NoTask /\ seen' = "none" /\ held' = "none" /\ result' = "none"
GoIdle == phase' = "idle" /\ Forget

(* The process dies, or stop() cancels the loop after its grace period:    *)
(* whatever is not committed is gone, commands under way included.         *)
Crash ==
    /\ Up /\ crashes < MaxCrashes
    /\ crashes' = crashes + 1
    /\ phase' = "down" /\ Forget
    /\ reading' = [c \in Commands |-> NoDoc]
    /\ UNCHANGED <<docVars, taskVars, lost, trashes>>

(* run_once: claim_next over the three document task types.                *)
Claim(t) ==
    /\ phase = "idle" /\ tstatus[t] \in Claimable
    /\ tstatus' = [tstatus EXCEPT ![t] = "processing"]
    /\ attempts' = [attempts EXCEPT ![t] = @ + 1]
    /\ phase' = "claimed" /\ cur' = t
    /\ UNCHANGED <<docVars, seen, held, result, reading, bounds>>

Return(r) == phase' = "settling" /\ result' = r /\ UNCHANGED <<cur, seen, held>>

-----------------------------------------------------------------------------
(* process_document. *)
Processing == KindOf(cur) # "reinspect"

(* No such row, or not active: a ValueError outside the try block.         *)
RefuseInactive ==
    /\ phase = "claimed" /\ Processing /\ ~Active(doc)
    /\ Return("permanent")
    /\ UNCHANGED <<docVars, taskVars, reading, bounds>>

LoadDocument ==
    /\ phase = "claimed" /\ Processing /\ Active(doc)
    /\ phase' = "loaded" /\ seen' = proc[doc] /\ held' = control[doc]
    /\ UNCHANGED <<docVars, taskVars, cur, result, reading, bounds>>

(* Nothing to do for a document it loaded as completed and current.        *)
AlreadyCurrent == seen = "completed" /\ revision[doc] = "current"
ReturnCurrent ==
    /\ phase = "loaded" /\ AlreadyCurrent
    /\ Return("ok")
    /\ UNCHANGED <<docVars, taskVars, reading, bounds>>

MarkProcessing ==
    /\ phase = "loaded" /\ ~AlreadyCurrent /\ Exists(doc)
    /\ proc' = [proc EXCEPT ![doc] = "processing"]
    /\ phase' = "scanning"
    /\ UNCHANGED <<lifecycle, revision, scanned, control, taskVars, cur, seen, held, result,
                   reading, bounds>>

(* The scanner's verdict.  moderation_details, which holds the scans and   *)
(* the reinspection, is written back as it was loaded, scan record added.  *)
BadBlocks(d) == d \in Hostile \cup Malformed /\ scanned[d] # "current"   \* trusts an earlier scan
Blocks(d) == d \in Hostile \cup Malformed
BadBlockedAs(d) == "blocked"
BlockedAs(d) == IF d \in Hostile THEN "quarantined" ELSE "rejected"

Block ==
    /\ phase = "scanning" /\ Exists(doc) /\ Blocks(doc)
    /\ proc' = [proc EXCEPT ![doc] = BlockedAs(doc)]
    /\ scanned' = [scanned EXCEPT ![doc] = "current"]
    /\ control' = [control EXCEPT ![doc] = held]
    /\ Return("ok")
    /\ UNCHANGED <<lifecycle, revision, taskVars, reading, bounds>>

(* Parse, publish and complete in one commit, by id: the lifecycle is not  *)
(* looked at again.                                                        *)
Publish ==
    /\ phase = "scanning" /\ Exists(doc) /\ ~Blocks(doc)
    /\ proc' = [proc EXCEPT ![doc] = "completed"]
    /\ revision' = [revision EXCEPT ![doc] = "current"]
    /\ scanned' = [scanned EXCEPT ![doc] = "current"]
    /\ control' = [control EXCEPT ![doc] = held]
    /\ Return("ok")
    /\ UNCHANGED <<lifecycle, taskVars, reading, bounds>>

(* Anything raised inside the try block: roll back, mark the row failed if *)
(* it is still there, raise again.  A ValueError is permanent.             *)
BadMarkedFailed == proc   \* only rolls back
MarkedFailed == IF Exists(doc) THEN [proc EXCEPT ![doc] = "failed"] ELSE proc
FailProcessing ==
    /\ phase \in {"loaded", "scanning"}
    /\ proc' = MarkedFailed
    /\ \E r \in Failures : Return(r)
    /\ UNCHANGED <<lifecycle, revision, scanned, control, taskVars, reading, bounds>>

-----------------------------------------------------------------------------
(* reinspect_document. *)

BadReinspected(d) == FALSE   \* a redelivered task starts over
Reinspected(d) == control[d] = "completed"

(* Its early returns, in their order. *)
ReinspectEarly ==
    /\ phase = "claimed" /\ ~Processing
    /\ \/ ~Active(doc) /\ Return("permanent")
       \/ Active(doc) /\ Reinspected(doc) /\ Return("ok")
       \/ /\ Active(doc) /\ ~Reinspected(doc)
          /\ proc[doc] # "quarantined" \/ scanned[doc] # "old"
          /\ Return("permanent")
    /\ UNCHANGED <<docVars, taskVars, reading, bounds>>

ReinspectBegin ==
    /\ phase = "claimed" /\ ~Processing
    /\ Active(doc) /\ ~Reinspected(doc)
    /\ proc[doc] = "quarantined" /\ scanned[doc] = "old"
    /\ control' = [control EXCEPT ![doc] = "processing"]
    /\ phase' = "reinspecting"
    /\ UNCHANGED <<lifecycle, proc, revision, scanned, taskVars, cur, seen, held, result,
                   reading, bounds>>

BadFollowUp(d) == {}   \* releases the document without posting its processing
FollowUp(d) == IF Blocks(d) THEN {} ELSE {<<d, "after">>}

(* The verdict, the completed reinspection and, for a clean file, the      *)
(* processing task, in one commit.                                         *)
ReinspectFinish ==
    /\ phase = "reinspecting" /\ Exists(doc)
    /\ control' = [control EXCEPT ![doc] = "completed"]
    /\ scanned' = [scanned EXCEPT ![doc] = "current"]
    /\ proc' = [proc EXCEPT ![doc] = IF Blocks(doc) THEN BlockedAs(doc) ELSE "pending"]
    /\ tstatus' = Enqueued(tstatus, FollowUp(doc))
    /\ Return("ok")
    /\ UNCHANGED <<lifecycle, revision, attempts, reading, bounds>>

(* The file is unreadable (transient) or its checksum differs (permanent). *)
ReinspectFail ==
    /\ phase = "reinspecting"
    /\ \E r \in Failures : Return(r)
    /\ UNCHANGED <<docVars, taskVars, reading, bounds>>

-----------------------------------------------------------------------------
(* Settling. *)
GivesUp == result = "permanent" \/ attempts[cur] >= MaxAttempts

SettleCompleted ==
    /\ phase = "settling" /\ result = "ok"
    /\ tstatus' = [tstatus EXCEPT ![cur] = "completed"]
    /\ GoIdle
    /\ UNCHANGED <<docVars, attempts, reading, bounds>>

SettleRetry ==
    /\ phase = "settling" /\ result \in Failures /\ ~GivesUp
    /\ tstatus' = [tstatus EXCEPT ![cur] = "retry"]
    /\ GoIdle
    /\ UNCHANGED <<docVars, attempts, reading, bounds>>

(* The settling transaction fails: the loop goes on, the claim stays.      *)
LoseSettlement ==
    /\ phase = "settling" /\ lost < MaxLost
    /\ lost' = lost + 1
    /\ GoIdle
    /\ UNCHANGED <<docVars, taskVars, reading, crashes, trashes>>

(* A reinspection given up is projected on its document in the same commit *)
(* (record_reinspection_task_failure).                                     *)
BadProjects == FALSE   \* the document is not told
Projects == ~Processing /\ Exists(doc) /\ control[doc] # "none"
SettleDeadLetter ==
    /\ phase = "settling" /\ result \in Failures /\ GivesUp
    /\ tstatus' = [tstatus EXCEPT ![cur] = "dead_letter"]
    /\ control' = IF Projects THEN [control EXCEPT ![doc] = "failed"] ELSE control
    /\ proc' = IF Projects THEN [proc EXCEPT ![doc] = "quarantined"] ELSE proc
    /\ GoIdle
    /\ UNCHANGED <<lifecycle, revision, scanned, attempts, reading, bounds>>

-----------------------------------------------------------------------------
(* Commands, served while the server is up. *)

Upload(d) ==
    /\ Up /\ lifecycle[d] = "absent"
    /\ lifecycle' = [lifecycle EXCEPT ![d] = "active"]
    /\ tstatus' = Enqueued(tstatus, {<<d, "process">>})
    /\ UNCHANGED <<proc, revision, scanned, control, attempts, runVars, reading, bounds>>

(* trash: the lifecycle only; tasks are left alone.                        *)
Trash(d) ==
    /\ Up /\ Active(d) /\ trashes < MaxTrash
    /\ trashes' = trashes + 1
    /\ lifecycle' = [lifecycle EXCEPT ![d] = "trash"]
    /\ UNCHANGED <<proc, revision, scanned, control, taskVars, runVars, reading, crashes, lost>>

(* restore: the lifecycle only, unless the document is completed, whose    *)
(* projections are then rebuilt.  No task is posted.                       *)
Restore(d) ==
    /\ Up /\ lifecycle[d] = "trash"
    /\ lifecycle' = [lifecycle EXCEPT ![d] = "active"]
    /\ UNCHANGED <<proc, revision, scanned, control, taskVars, runVars, reading, bounds>>

(* Permanent delete (from the trash) or the erasure of one document: the   *)
(* row goes, with its columns; outbox tasks stay.                          *)
Erase(d) ==
    /\ Up /\ Exists(d) /\ trashes < MaxTrash
    /\ trashes' = trashes + 1
    /\ lifecycle' = [lifecycle EXCEPT ![d] = "erased"]
    /\ proc' = [proc EXCEPT ![d] = "pending"]
    /\ revision' = [revision EXCEPT ![d] = "none"]
    /\ scanned' = [scanned EXCEPT ![d] = "none"]
    /\ control' = [control EXCEPT ![d] = "none"]
    /\ UNCHANGED <<taskVars, runVars, reading, crashes, lost>>

(* request_reinspection: a repeated request only posts the known task.     *)
RequestReinspection(d) ==
    /\ Up /\ Active(d) /\ proc[d] = "quarantined"
    /\ \/ /\ control[d] \in {"pending", "processing"}
          /\ UNCHANGED control
       \/ /\ control[d] \in {"none", "completed"} /\ scanned[d] = "old"
          /\ tstatus[<<d, "reinspect">>] \notin {"completed", "dead_letter"}
          /\ control' = [control EXCEPT ![d] = "pending"]
    /\ tstatus' = Enqueued(tstatus, {<<d, "reinspect">>})
    /\ UNCHANGED <<lifecycle, proc, revision, scanned, attempts, runVars, reading, bounds>>

(* retry_failed_document, in two steps: it checks the row, reads the file  *)
(* off the event loop, then writes what it decided.                        *)
ManualRetries(d) == Cardinality({c \in Commands : tstatus[<<d, c>>] # "absent"})
DeadLetters(d) == {t \in Tasks : DocOf(t) = d /\ KindOf(t) # "reinspect"
                                 /\ tstatus[t] = "dead_letter"}
(* The recovery centre offers a retry for the document, within a budget,   *)
(* and one for every dead letter not yet retried, outside it.  (That a     *)
(* retry for the document hides its dead letters is not tracked.)          *)
Offered(d) == \/ ManualRetries(d) < RetryBudget
              \/ ManualRetries(d) < Cardinality(DeadLetters(d))
RetryCheck(c, d) ==
    /\ Up /\ reading[c] = NoDoc /\ Active(d)
    /\ \A e \in Docs : tstatus[<<e, c>>] = "absent"
    /\ proc[d] = "failed" /\ Offered(d)
    /\ reading' = [reading EXCEPT ![c] = d]
    /\ UNCHANGED <<docVars, taskVars, runVars, bounds>>

RetryRefuse(c) ==   \* the file is missing, or its checksum differs
    /\ Up /\ reading[c] # NoDoc
    /\ reading' = [reading EXCEPT ![c] = NoDoc]
    /\ UNCHANGED <<docVars, taskVars, runVars, bounds>>

RetryWrite(c) ==
    LET d == reading[c]
    IN /\ Up /\ d # NoDoc
       /\ reading' = [reading EXCEPT ![c] = NoDoc]
       /\ IF Exists(d)
          THEN /\ proc' = [proc EXCEPT ![d] = "pending"]
               /\ tstatus' = Enqueued(tstatus, {<<d, c>>})
          ELSE UNCHANGED <<proc, tstatus>>
       /\ UNCHANGED <<lifecycle, revision, scanned, control, attempts, runVars, bounds>>

-----------------------------------------------------------------------------
RuntimeStep == \/ \E t \in Tasks : Claim(t)
               \/ RefuseInactive \/ LoadDocument \/ ReturnCurrent \/ MarkProcessing
               \/ Block \/ Publish \/ FailProcessing
               \/ ReinspectEarly \/ ReinspectBegin \/ ReinspectFinish \/ ReinspectFail
               \/ SettleCompleted \/ SettleRetry \/ SettleDeadLetter

Command == \/ \E d \in Docs : \/ Upload(d) \/ Trash(d) \/ Restore(d) \/ Erase(d)
                              \/ RequestReinspection(d)
           \/ \E c \in Commands : RetryWrite(c) \/ RetryRefuse(c) \/ \E d \in Docs : RetryCheck(c, d)

Next == Start \/ Crash \/ LoseSettlement \/ RuntimeStep \/ Command

Spec == Init /\ [][Next]_vars

(* The loop runs while the server is up, a stopped server is started       *)
(* again, and a command under way finishes.  No user has to act.           *)
Fairness == /\ WF_vars(RuntimeStep)
            /\ WF_vars(Start)
            /\ \A c \in Commands : WF_vars(RetryWrite(c) \/ RetryRefuse(c))
FairSpec == Spec /\ Fairness

-----------------------------------------------------------------------------
TypeOK ==
    /\ lifecycle \in [Docs -> {"absent", "active", "trash", "erased"}]
    /\ proc      \in [Docs -> Waiting \cup Blocked \cup {"completed", "failed"}]
    /\ revision  \in [Docs -> {"none", "old", "current"}]
    /\ scanned   \in [Docs -> {"none", "old", "current"}]
    /\ control   \in [Docs -> {"none", "pending", "processing", "completed", "failed"}]
    /\ tstatus   \in [Tasks -> Open \cup {"absent", "completed", "dead_letter"}]
    /\ attempts  \in [Tasks -> Nat]
    /\ phase     \in {"down", "idle", "claimed", "loaded", "scanning", "reinspecting", "settling"}
    /\ cur       \in Tasks \cup {NoTask}
    /\ held      \in {"none", "pending", "processing", "completed", "failed"}
    /\ seen      \in Waiting \cup Blocked \cup {"none", "completed", "failed"}
    /\ result    \in Failures \cup {"none", "ok"}
    /\ reading   \in [Commands -> Docs \cup {NoDoc}]
    /\ crashes \in 0 .. MaxCrashes /\ lost \in 0 .. MaxLost /\ trashes \in 0 .. MaxTrash

OpenTasks(d) == {t \in Tasks : DocOf(t) = d /\ KindOf(t) # "reinspect" /\ tstatus[t] \in Open}

(* No redelivery, retry or reinspection ever publishes what the current    *)
(* scanner blocks (process_document, reinspect_document).                  *)
PublishedIsClean == \A d \in Docs : revision[d] = "current" => d \notin Hostile \cup Malformed

(* A reinspection shown as under way has a task that will answer it: the   *)
(* owner is never told "already pending" for good (request_reinspection).  *)
ReinspectionTracked == \A d \in Docs :
    control[d] \in {"pending", "processing"} => tstatus[<<d, "reinspect">>] \in Open

(* A document that waits for processing has a task that will process it.   *)
NoOrphan == \A d \in Docs : Active(d) /\ proc[d] \in Waiting => OpenTasks(d) # {}

(* A reinspection that has reached its verdict is not turned into a failed *)
(* one by the same task delivered again.                                   *)
VerdictStands == [][\A d \in Docs : control[d] = "completed" => control'[d] = "completed"]_vars

(* A document waiting to be processed is published, blocked or marked      *)
(* failed in the end (or is no longer active).                             *)
DecisionReached ==
    \A d \in Docs : (Active(d) /\ proc[d] \in Waiting) ~> ~(Active(d) /\ proc[d] \in Waiting)

(* An accepted reinspection is answered. *)
ReinspectionAnswered ==
    \A d \in Docs : (control[d] = "pending") ~> (control[d] \notin {"pending", "processing"})

(* A claim does not stay in the table for good. *)
ClaimsResolve == \A t \in Tasks : (tstatus[t] = "processing") ~> (tstatus[t] # "processing")
=============================================================================
