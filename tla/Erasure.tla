------------------------------ MODULE Erasure ------------------------------
(***************************************************************************)
(* The erasure workflow of ErasureCoordinator: a confirmed erasure runs    *)
(* through a marker file that closes the product, a database commit that   *)
(* starts the workflow, a journal of the files to unlink, a second commit  *)
(* that deletes the rows and writes the receipt, and the unlinking itself. *)
(* Each request may fail, or be overtaken by another one, at every await,  *)
(* and the server may stop between any two steps: the tables, the files,   *)
(* the journals and the marker stay, requests and previews are gone.       *)
(*                                                                         *)
(* The scope is DOCUMENT: a target is a row and its file.  The other       *)
(* scopes run the same workflow with other tables in the plan.             *)
(***************************************************************************)
EXTENDS Integers, FiniteSets

CONSTANTS
    Targets,      \* documents
    Keys,         \* idempotency keys, one per command
    TargetOf,     \* the document each command is about
    Requests,     \* confirm calls and completions in flight
    Barrier,      \* an operational adapter completes workflows (not on SQLite)
    MaxCrashes,   \* bound: how often the server stops
    MaxFaults     \* bound: failed owner steps, file operations, first commits

ASSUME ErasureConstants ==
    /\ TargetOf \in [Keys -> Targets]
    /\ Barrier \in BOOLEAN /\ MaxCrashes \in Nat /\ MaxFaults \in Nat

NoMarker == -1
Unchecked == 0   \* the marker of a workflow without a checkpoint yet

VARIABLES
    rows,        \* documents whose rows are in the database
    wf,          \* data_erasure_workflows: status, "absent" without a row
    receipt,     \* data_erasure_receipts: its checkpoint, 0 without one
    checkpoint,  \* data_erasure_checkpoints
    files,       \* documents whose file is in storage
    journal,     \* workflows with a file journal
    marker,      \* erasure-pending.json: the checkpoint it names, NoMarker
    previews,    \* ErasurePreviewRegistry: documents with an unexpired preview
    pc, key,     \* per request: where it stands, and its command
    crashes, faults  \* bounds

database == <<rows, wf, receipt, checkpoint>>
disk     == <<files, journal, marker>>
requests == <<pc, key>>
vars     == <<database, disk, previews, requests, crashes, faults>>

Unfinished == {"running", "failed", "partial", "awaiting"}
Target(r) == TargetOf[key[r]]

Init ==
    /\ rows = Targets /\ files = Targets
    /\ wf = [k \in Keys |-> "absent"]
    /\ receipt = [k \in Keys |-> 0]
    /\ checkpoint = 0
    /\ journal = {} /\ marker = NoMarker /\ previews = {}
    /\ pc = [r \in Requests |-> "idle"]
    /\ key \in {[r \in Requests |-> k] : k \in Keys}
    /\ crashes = 0 /\ faults = 0

Goto(r, step) == pc' = [pc EXCEPT ![r] = step] /\ UNCHANGED key
SetStatus(r, s) == wf' = [wf EXCEPT ![key[r]] = s]
Fault == faults < MaxFaults /\ faults' = faults + 1

-----------------------------------------------------------------------------
(* Preview and the start of confirm. *)

Preview(t) ==
    /\ t \in rows \ previews
    /\ previews' = previews \cup {t}
    /\ UNCHANGED <<database, disk, requests, crashes, faults>>

Expire(t) ==
    /\ t \in previews
    /\ previews' = previews \ {t}
    /\ UNCHANGED <<database, disk, requests, crashes, faults>>

(* Definitions named Bad... are plausible mistakes in the definition that  *)
(* follows them; a check replaces the one by the other and must then fail. *)
BadRetryable == {}   \* a failed workflow is only reported
Retryable == {"failed"}

(* confirm: the proof is checked, then an existing workflow is looked at.  *)
(* A workflow in any other status is reported as it is: nothing changes.   *)
Confirm(r, k) ==
    /\ pc[r] = "idle" /\ TargetOf[k] \in previews
    /\ wf[k] \in {"absent", "partial"} \cup Retryable
    /\ pc' = [pc EXCEPT ![r] = CASE wf[k] = "absent"  -> "planning"
                                 [] wf[k] = "partial" -> "resuming"
                                 [] OTHER             -> "replanning"]
    /\ key' = [key EXCEPT ![r] = k]
    /\ UNCHANGED <<database, disk, previews, crashes, faults>>

(* The plan has changed since the preview. *)
RefuseStalePlan(r) ==
    /\ pc[r] \in {"planning", "replanning"} /\ Target(r) \notin rows
    /\ Goto(r, "idle")
    /\ UNCHANGED <<database, disk, previews, crashes, faults>>

(* The plan still matches: the marker is written before the workflow.      *)
BadBegin(r) ==   \* without closing the product
    /\ pc[r] = "planning" /\ Target(r) \in rows
    /\ Goto(r, "marked")
    /\ UNCHANGED <<database, disk, previews, crashes, faults>>
Begin(r) ==
    /\ pc[r] = "planning" /\ Target(r) \in rows
    /\ marker' = Unchecked
    /\ Goto(r, "marked")
    /\ UNCHANGED <<database, files, journal, previews, crashes, faults>>

Create(r) ==
    /\ pc[r] = "marked" /\ wf[key[r]] = "absent"
    /\ SetStatus(r, "running")
    /\ Goto(r, "started")
    /\ UNCHANGED <<rows, receipt, checkpoint, disk, previews, crashes, faults>>

(* Another request has created it (unique key): the error is raised.       *)
CreateLost(r) ==
    /\ pc[r] = "marked" /\ wf[key[r]] # "absent"
    /\ Goto(r, "idle")
    /\ UNCHANGED <<database, disk, previews, crashes, faults>>

CreateFails(r) ==
    /\ pc[r] = "marked" /\ Fault
    /\ Goto(r, "idle")
    /\ UNCHANGED <<database, disk, previews, crashes>>

(* A retry: the plan is compared, then the workflow set running again.     *)
Replan(r) ==
    /\ pc[r] = "replanning" /\ Target(r) \in rows
    /\ Goto(r, "restarting")
    /\ UNCHANGED <<database, disk, previews, crashes, faults>>

Restart(r) ==
    /\ pc[r] = "restarting"
    /\ SetStatus(r, "running")
    /\ Goto(r, "started")
    /\ UNCHANGED <<rows, receipt, checkpoint, disk, previews, crashes, faults>>

-----------------------------------------------------------------------------
(* _run_workflow. *)

BadJournaled(r) == journal   \* the files to unlink are not written down
Journaled(r) == journal \cup {key[r]}

BadPrepare(r) ==   \* unlinks the files at once
    /\ pc[r] = "started"
    /\ journal' = Journaled(r) /\ files' = files \ {Target(r)}
    /\ Goto(r, "journaled")
    /\ UNCHANGED <<database, marker, previews, crashes, faults>>
Prepare(r) ==
    /\ pc[r] = "started"
    /\ journal' = Journaled(r)
    /\ Goto(r, "journaled")
    /\ UNCHANGED <<database, files, marker, previews, crashes, faults>>

(* Writing the journal fails: it is outside the try block.                 *)
PrepareFails(r) ==
    /\ pc[r] = "started" /\ Fault
    /\ Goto(r, "idle")
    /\ UNCHANGED <<database, disk, previews, crashes>>

(* Rows, receipt, checkpoint and status in one commit; the receipt is      *)
(* unique per workflow.                                                    *)
Commit(r) ==
    /\ pc[r] = "journaled" /\ receipt[key[r]] = 0
    /\ rows' = rows \ {Target(r)}
    /\ checkpoint' = checkpoint + 1
    /\ receipt' = [receipt EXCEPT ![key[r]] = checkpoint + 1]
    /\ SetStatus(r, "awaiting")
    /\ Goto(r, "committed")
    /\ UNCHANGED <<disk, previews, crashes, faults>>

(* An owner step, or the commit, fails: rollback, the journal is dropped.  *)
Rollback(r) ==
    /\ pc[r] = "journaled"
    /\ IF receipt[key[r]] # 0 THEN UNCHANGED faults ELSE Fault
    /\ journal' = journal \ {key[r]}
    /\ Goto(r, "failing")
    /\ UNCHANGED <<database, files, marker, previews, crashes>>

RecordFailure(r) ==
    /\ pc[r] = "failing"
    /\ SetStatus(r, "failed")
    /\ Goto(r, "markFailed")
    /\ UNCHANGED <<rows, receipt, checkpoint, disk, previews, crashes, faults>>

(* The journal's files are unlinked; without a journal there are none.     *)
Unlinked(r) == IF key[r] \in journal THEN files \ {Target(r)} ELSE files

Purge(r) ==
    /\ pc[r] = "committed"
    /\ files' = Unlinked(r) /\ journal' = journal \ {key[r]}
    /\ marker' = receipt[key[r]]
    /\ Goto(r, "idle")
    /\ UNCHANGED <<database, previews, crashes, faults>>

(* Unlinking fails: at the file, at the journal, or after both.            *)
PurgedInPart(r) == \/ UNCHANGED <<files, journal>>
                   \/ /\ files' = Unlinked(r)
                      /\ journal' \in {journal, journal \ {key[r]}}
PurgeFails(r) ==
    /\ pc[r] = "committed" /\ Fault
    /\ PurgedInPart(r)
    /\ Goto(r, "leftover")
    /\ UNCHANGED <<database, marker, previews, crashes>>

BadPartialStatus == "incomplete"   \* a status nobody knows
PartialStatus == "partial"
RecordPartial(r) ==
    /\ pc[r] = "leftover"
    /\ SetStatus(r, PartialStatus)
    /\ Goto(r, "markDone")
    /\ UNCHANGED <<rows, receipt, checkpoint, disk, previews, crashes, faults>>

WriteMarker(r) ==
    /\ pc[r] \in {"markFailed", "markDone"}
    /\ marker' = IF pc[r] = "markDone" THEN receipt[key[r]] ELSE Unchecked
    /\ Goto(r, "idle")
    /\ UNCHANGED <<database, files, journal, previews, crashes, faults>>

-----------------------------------------------------------------------------
(* resume_committed_workflow: the unlinking again, then the status.        *)
ResumePurge(r) ==
    /\ pc[r] = "resuming"
    /\ files' = Unlinked(r) /\ journal' = journal \ {key[r]}
    /\ Goto(r, "resumed")
    /\ UNCHANGED <<database, marker, previews, crashes, faults>>

ResumeFails(r) ==
    /\ pc[r] = "resuming" /\ Fault
    /\ PurgedInPart(r)
    /\ Goto(r, "idle")
    /\ UNCHANGED <<database, marker, previews, crashes>>

ResumeWrite(r) ==
    /\ pc[r] = "resumed"
    /\ SetStatus(r, "awaiting")
    /\ Goto(r, "markDone")
    /\ UNCHANGED <<rows, receipt, checkpoint, disk, previews, crashes, faults>>

(* The commit that was to record an outcome fails: the error is raised.    *)
RecordFails(r) ==
    /\ pc[r] \in {"failing", "leftover", "resumed"} /\ Fault
    /\ Goto(r, "idle")
    /\ UNCHANGED <<database, disk, previews, crashes>>

(* complete_operational_no_resurrection, then its _remove_matching_marker. *)
BadCompletable(k) == wf[k] = "partial" \/ wf[k] = "awaiting"   \* files or not
Completable(k) == wf[k] = "awaiting"
Complete(r, k) ==
    /\ Barrier /\ pc[r] = "idle"
    /\ Completable(k) /\ receipt[k] = checkpoint
    /\ wf' = [wf EXCEPT ![k] = "completed"]
    /\ pc' = [pc EXCEPT ![r] = "unmark"] /\ key' = [key EXCEPT ![r] = k]
    /\ UNCHANGED <<rows, receipt, checkpoint, disk, previews, crashes, faults>>

RemoveMarker(r) ==
    /\ pc[r] = "unmark"
    /\ marker' = IF marker = receipt[key[r]] THEN NoMarker ELSE marker
    /\ Goto(r, "idle")
    /\ UNCHANGED <<database, files, journal, previews, crashes, faults>>

(* The server stops; nothing looks at workflows or the marker when it      *)
(* starts again.                                                           *)
Crash ==
    /\ crashes < MaxCrashes
    /\ crashes' = crashes + 1
    /\ pc' = [r \in Requests |-> "idle"] /\ previews' = {}
    /\ UNCHANGED <<database, disk, key, faults>>

-----------------------------------------------------------------------------
Progress(r) == \/ RefuseStalePlan(r) \/ Begin(r) \/ Create(r) \/ CreateLost(r)
               \/ Replan(r) \/ Restart(r) \/ Prepare(r) \/ Commit(r)
               \/ (receipt[key[r]] # 0 /\ Rollback(r)) \/ RecordFailure(r)
               \/ Purge(r) \/ RecordPartial(r) \/ WriteMarker(r)
               \/ ResumePurge(r) \/ ResumeWrite(r) \/ RemoveMarker(r)

Failure(r) == \/ CreateFails(r) \/ PrepareFails(r) \/ PurgeFails(r) \/ ResumeFails(r)
              \/ RecordFails(r)
              \/ (receipt[key[r]] = 0 /\ Rollback(r))

Next == \/ \E t \in Targets : Preview(t) \/ Expire(t)
        \/ \E r \in Requests : \/ Progress(r) \/ Failure(r)
                               \/ \E k \in Keys : Confirm(r, k) \/ Complete(r, k)
        \/ Crash

Spec == Init /\ [][Next]_vars

(* Requests run to their end, and the owner who wants a document gone      *)
(* keeps asking for a preview and confirming it: strong fairness, for a    *)
(* preview may expire before it is used, though not every time.            *)
Fairness == /\ \A r \in Requests : WF_vars(Progress(r))
            /\ \A t \in Targets : WF_vars(Preview(t))
            /\ \A k \in Keys : SF_vars(\E r \in Requests : Confirm(r, k))
FairSpec == Spec /\ Fairness

-----------------------------------------------------------------------------
TypeOK ==
    /\ rows \subseteq Targets /\ files \subseteq Targets /\ previews \subseteq Targets
    /\ wf \in [Keys -> {"absent", "completed"} \cup Unfinished]
    /\ receipt \in [Keys -> Nat] /\ checkpoint \in Nat
    /\ journal \subseteq Keys /\ marker \in {NoMarker} \cup Nat
    /\ pc \in [Requests -> {"idle", "planning", "replanning", "marked", "restarting",
                            "started", "journaled", "committed", "failing", "leftover",
                            "markFailed", "markDone", "resuming", "resumed", "unmark"}]
    /\ key \in [Requests -> Keys]
    /\ crashes \in 0 .. MaxCrashes /\ faults \in 0 .. MaxFaults

(* A file is unlinked only after its rows are gone for good: a failed,     *)
(* crashed or rolled-back erasure never costs a document its file.         *)
FileOutlivesRows == rows \subseteq files

(* No file is forgotten: while a document's rows are gone and its file is  *)
(* not, a journal on disk still names the file.                            *)
LeftoversJournaled ==
    \A t \in files \ rows : \E k \in journal : TargetOf[k] = t

(* The product stays closed while an erasure is begun and not finished.    *)
FailClosed == (\E k \in Keys : wf[k] \in Unfinished) => marker # NoMarker

(* One failure never lets an erasure complete with its file left behind.   *)
(* (A stop, or a second failure while the first is recorded, does: nothing *)
(* comes back for the file then.)                                          *)
CompletedIsGone ==
    crashes = 0 /\ faults <= 1 => \A k \in Keys : wf[k] = "completed" => TargetOf[k] \notin files \cup rows

(* A failed erasure, its command repeated, erases its rows in the end,     *)
(* once nothing fails or stops any more.                                   *)
FailureConverges ==
    \A k \in Keys : (wf[k] = "failed" /\ crashes = MaxCrashes /\ faults = MaxFaults)
                       ~> (TargetOf[k] \notin rows)
=============================================================================
