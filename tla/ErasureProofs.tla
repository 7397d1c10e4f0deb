---------------------------- MODULE ErasureProofs ----------------------------
(***************************************************************************)
(* For any number of documents, commands and overlapping requests, and any *)
(* crashes and faults: no file is unlinked before its rows are gone, and,  *)
(* as long as no adapter completes workflows, the product stays closed     *)
(* while an erasure is unfinished.  As long as no two requests run one     *)
(* workflow at once, a file that is left over is journaled; and where they *)
(* do not meet at all, one failure completes no workflow with its file     *)
(* left.  The inductive invariants say what each step of a request, and    *)
(* each stored status, has behind it.                                      *)
(***************************************************************************)
EXTENDS Erasure, TLAPS

(* A request past its commit, and a workflow that says it is, have erased  *)
(* their rows.                                                             *)
Past == {"committed", "leftover", "resuming", "resumed"}
RowsErased ==
    /\ \A r \in Requests : pc[r] \in Past => Target(r) \notin rows
    /\ \A k \in Keys : wf[k] \in {"awaiting", "partial", "completed"} => TargetOf[k] \notin rows

EInv == TypeOK /\ RowsErased /\ FileOutlivesRows

(* A request that has begun an erasure, and a workflow once created, have  *)
(* closed the product; no request is about to open it.                     *)
Outside == {"idle", "planning"}
Closed ==
    /\ \A r \in Requests : pc[r] \notin Outside => marker # NoMarker
    /\ \A k \in Keys : wf[k] # "absent" => marker # NoMarker
    /\ \A r \in Requests : pc[r] # "unmark"

-----------------------------------------------------------------------------
(* The initial state satisfies both invariants. *)
LEMMA InitEInv == Init => EInv /\ Closed
  BY ErasureConstants
     DEF Init, EInv, TypeOK, RowsErased, FileOutlivesRows, Closed, Outside, Past, Unfinished,
         NoMarker

(* Every step keeps the types. *)
LEMMA NextTypeOK ==
  ASSUME TypeOK, [Next]_vars
  PROVE  TypeOK'
<1> USE ErasureConstants DEF TypeOK, Unfinished, NoMarker, Unchecked, Goto, SetStatus, Fault,
        Target, database, disk, requests
<1>1. ASSUME NEW t \in Targets, Preview(t) \/ Expire(t) PROVE TypeOK'
  BY <1>1 DEF Preview, Expire
<1>2. ASSUME NEW r \in Requests, NEW k \in Keys, Confirm(r, k) PROVE TypeOK'
  BY <1>2 DEF Confirm
<1>3. ASSUME NEW r \in Requests, NEW k \in Keys, Complete(r, k) PROVE TypeOK'
  BY <1>3 DEF Complete
<1>4. ASSUME NEW r \in Requests,
             RefuseStalePlan(r) \/ Begin(r) \/ Create(r) \/ CreateLost(r) \/ CreateFails(r)
             \/ Replan(r) \/ Restart(r) \/ PrepareFails(r) \/ RecordFails(r)
      PROVE  TypeOK'
  BY <1>4 DEF RefuseStalePlan, Begin, Create, CreateLost, CreateFails, Replan, Restart,
              PrepareFails, RecordFails
<1>5. ASSUME NEW r \in Requests, Prepare(r) \/ Commit(r) \/ Rollback(r) \/ RecordFailure(r)
      PROVE  TypeOK'
  BY <1>5 DEF Prepare, Journaled, Commit, Rollback, RecordFailure
<1>6. ASSUME NEW r \in Requests,
             Purge(r) \/ PurgeFails(r) \/ RecordPartial(r) \/ ResumePurge(r) \/ ResumeFails(r)
             \/ ResumeWrite(r)
      PROVE  TypeOK'
  BY <1>6 DEF Purge, PurgeFails, PurgedInPart, Unlinked, RecordPartial, PartialStatus,
              ResumePurge, ResumeFails, ResumeWrite
<1>7. ASSUME NEW r \in Requests, WriteMarker(r) \/ RemoveMarker(r) PROVE TypeOK'
  BY <1>7 DEF WriteMarker, RemoveMarker
<1>8. CASE Crash
  BY <1>8 DEF Crash
<1>9. CASE UNCHANGED vars
  BY <1>9 DEF vars
<1>10. QED
  BY <1>1, <1>2, <1>3, <1>4, <1>5, <1>6, <1>7, <1>8, <1>9 DEF Next, Progress, Failure

(* Every step keeps the rows of committed plans erased and the files of    *)
(* documents that have rows.                                               *)
LEMMA NextEInv ==
  ASSUME EInv, [Next]_vars
  PROVE  EInv'
<1>1. TypeOK'
  BY NextTypeOK DEF EInv
<1>2. RowsErased' /\ FileOutlivesRows'
  <2> USE ErasureConstants DEF EInv, TypeOK, RowsErased, FileOutlivesRows, Past, Goto, SetStatus,
          Target, database, disk, requests
  <2>1. ASSUME NEW t \in Targets, Preview(t) \/ Expire(t)
        PROVE  RowsErased' /\ FileOutlivesRows'
    BY <2>1 DEF Preview, Expire
  <2>2. ASSUME NEW r \in Requests, NEW k \in Keys, Confirm(r, k)
        PROVE  RowsErased' /\ FileOutlivesRows'
    BY <2>2 DEF Confirm, Retryable
  <2>3. ASSUME NEW r \in Requests, NEW k \in Keys, Complete(r, k)
        PROVE  RowsErased' /\ FileOutlivesRows'
    BY <2>3 DEF Complete, Completable
  <2>4. ASSUME NEW r \in Requests,
               RefuseStalePlan(r) \/ Begin(r) \/ Create(r) \/ CreateLost(r) \/ CreateFails(r)
               \/ Replan(r) \/ Restart(r) \/ PrepareFails(r) \/ RecordFails(r)
        PROVE  RowsErased' /\ FileOutlivesRows'
    BY <2>4 DEF RefuseStalePlan, Begin, Create, CreateLost, CreateFails, Replan, Restart,
                PrepareFails, RecordFails
  <2>5. ASSUME NEW r \in Requests, Prepare(r) \/ Commit(r) \/ Rollback(r) \/ RecordFailure(r)
        PROVE  RowsErased' /\ FileOutlivesRows'
    BY <2>5 DEF Prepare, Commit, Rollback, RecordFailure
  <2>6. ASSUME NEW r \in Requests, Purge(r) \/ PurgeFails(r) \/ RecordPartial(r)
        PROVE  RowsErased' /\ FileOutlivesRows'
    BY <2>6 DEF Purge, PurgeFails, PurgedInPart, Unlinked, RecordPartial, PartialStatus
  <2>7. ASSUME NEW r \in Requests, ResumePurge(r) \/ ResumeFails(r) \/ ResumeWrite(r)
        PROVE  RowsErased' /\ FileOutlivesRows'
    BY <2>7 DEF ResumePurge, ResumeFails, PurgedInPart, Unlinked, ResumeWrite
  <2>8. ASSUME NEW r \in Requests, WriteMarker(r) \/ RemoveMarker(r)
        PROVE  RowsErased' /\ FileOutlivesRows'
    BY <2>8 DEF WriteMarker, RemoveMarker
  <2>9. CASE Crash
    BY <2>9 DEF Crash
  <2>10. CASE UNCHANGED vars
    BY <2>10 DEF vars
  <2>11. QED
    BY <2>1, <2>2, <2>3, <2>4, <2>5, <2>6, <2>7, <2>8, <2>9, <2>10 DEF Next, Progress, Failure
<1>3. QED BY <1>1, <1>2 DEF EInv

(* Without an adapter that completes workflows, every step keeps the       *)
(* product closed once it is.                                              *)
LEMMA NextClosed ==
  ASSUME ~Barrier, TypeOK, Closed, [Next]_vars
  PROVE  Closed'
<1> USE DEF TypeOK, Closed, Outside, NoMarker, Unchecked, Goto, SetStatus, database, disk, requests
<1>1. ASSUME NEW t \in Targets, Preview(t) \/ Expire(t) PROVE Closed'
  BY <1>1 DEF Preview, Expire
<1>2. ASSUME NEW r \in Requests, NEW k \in Keys, Confirm(r, k) PROVE Closed'
  BY <1>2 DEF Confirm, Retryable
<1>3. ASSUME NEW r \in Requests, NEW k \in Keys, Complete(r, k) PROVE FALSE
  BY <1>3 DEF Complete
<1>4. ASSUME NEW r \in Requests,
             RefuseStalePlan(r) \/ CreateLost(r) \/ CreateFails(r) \/ Replan(r)
             \/ PrepareFails(r) \/ RecordFails(r)
      PROVE  Closed'
  BY <1>4 DEF RefuseStalePlan, CreateLost, CreateFails, Replan, PrepareFails, RecordFails
<1>5. ASSUME NEW r \in Requests, Begin(r) PROVE Closed'
  BY <1>5 DEF Begin
<1>6. ASSUME NEW r \in Requests,
             Create(r) \/ Restart(r) \/ RecordFailure(r) \/ RecordPartial(r) \/ ResumeWrite(r)
      PROVE  Closed'
  BY <1>6 DEF Create, Restart, RecordFailure, RecordPartial, ResumeWrite
<1>7. ASSUME NEW r \in Requests,
             Prepare(r) \/ Commit(r) \/ Rollback(r) \/ PurgeFails(r) \/ ResumePurge(r)
             \/ ResumeFails(r)
      PROVE  Closed'
  BY <1>7 DEF Prepare, Commit, Rollback, PurgeFails, ResumePurge, ResumeFails
<1>8. ASSUME NEW r \in Requests, Purge(r) \/ WriteMarker(r) PROVE Closed'
  BY <1>8 DEF Purge, WriteMarker
<1>9. ASSUME NEW r \in Requests, RemoveMarker(r) PROVE FALSE
  BY <1>9 DEF RemoveMarker
<1>10. CASE Crash
  BY <1>10 DEF Crash
<1>11. CASE UNCHANGED vars
  BY <1>11 DEF vars
<1>12. QED
  BY <1>1, <1>2, <1>3, <1>4, <1>5, <1>6, <1>7, <1>8, <1>9, <1>10, <1>11
  DEF Next, Progress, Failure

-----------------------------------------------------------------------------
(* No two requests run the deletion of one workflow at once: two retries   *)
(* that do may drop the journal of a deletion that has been committed.     *)
Running == {"restarting", "started", "journaled"}
OneRunner == \A p, r \in Requests :
    p # r /\ key[p] = key[r] => ~(pc[p] \in Running /\ pc[r] \in Running)

(* Who runs a deletion has no receipt yet, and a journal by the time it    *)
(* commits; who is past it has the receipt.                                *)
Receipted ==
    /\ \A k \in Keys : /\ wf[k] \in {"awaiting", "partial", "completed"} => receipt[k] # 0
                       /\ wf[k] = "absent" => receipt[k] = 0
                       /\ receipt[k] # 0 => TargetOf[k] \notin rows
    /\ \A r \in Requests : /\ pc[r] \in Past => receipt[key[r]] # 0
                           /\ pc[r] \in Running => receipt[key[r]] = 0
                           /\ pc[r] = "journaled" => key[r] \in journal

(* The journal that names a leftover is that of a committed deletion, for  *)
(* another command's for the same document may still be dropped.           *)
CommittedJournal ==
    \A t \in files \ rows : \E k \in journal : TargetOf[k] = t /\ receipt[k] # 0

JInv == EInv /\ Receipted /\ CommittedJournal

LEMMA InitJInv == Init => JInv
  BY InitEInv, ErasureConstants
     DEF Init, JInv, Receipted, CommittedJournal, Past, Running, EInv, TypeOK

LEMMA NextReceipted ==
  ASSUME EInv, Receipted, OneRunner, [Next]_vars
  PROVE  Receipted'
<1> USE ErasureConstants DEF EInv, TypeOK, RowsErased, Receipted, Past, Running, Goto, SetStatus,
        Target, database, disk, requests
<1>1. ASSUME NEW t \in Targets, Preview(t) \/ Expire(t) PROVE Receipted'
  BY <1>1 DEF Preview, Expire
<1>2. ASSUME NEW r \in Requests, NEW k \in Keys, Confirm(r, k) PROVE Receipted'
  BY <1>2 DEF Confirm, Retryable
<1>3. ASSUME NEW r \in Requests, NEW k \in Keys, Complete(r, k) PROVE Receipted'
  BY <1>3 DEF Complete, Completable
<1>4. ASSUME NEW r \in Requests,
             RefuseStalePlan(r) \/ Begin(r) \/ CreateLost(r) \/ CreateFails(r) \/ PrepareFails(r)
             \/ RecordFails(r)
      PROVE  Receipted'
  BY <1>4 DEF RefuseStalePlan, Begin, CreateLost, CreateFails, PrepareFails, RecordFails
<1>5. ASSUME NEW r \in Requests, Create(r) PROVE Receipted'
  BY <1>5 DEF Create
<1>6. ASSUME NEW r \in Requests, Replan(r) \/ Restart(r) PROVE Receipted'
  BY <1>6 DEF Replan, Restart
<1>7. ASSUME NEW r \in Requests, Prepare(r) PROVE Receipted'
  BY <1>7 DEF Prepare, Journaled
<1>8. ASSUME NEW r \in Requests, Commit(r) PROVE Receipted'
  BY <1>8 DEF Commit, OneRunner
<1>9. ASSUME NEW r \in Requests, Rollback(r) PROVE Receipted'
  BY <1>9 DEF Rollback, OneRunner
<1>10. ASSUME NEW r \in Requests, RecordFailure(r) \/ RecordPartial(r) \/ ResumeWrite(r)
       PROVE  Receipted'
  BY <1>10 DEF RecordFailure, RecordPartial, PartialStatus, ResumeWrite
<1>11. ASSUME NEW r \in Requests, Purge(r) \/ PurgeFails(r) PROVE Receipted'
  BY <1>11 DEF Purge, PurgeFails, PurgedInPart, Unlinked
<1>12. ASSUME NEW r \in Requests, ResumePurge(r) \/ ResumeFails(r) PROVE Receipted'
  BY <1>12 DEF ResumePurge, ResumeFails, PurgedInPart, Unlinked
<1>13. ASSUME NEW r \in Requests, WriteMarker(r) \/ RemoveMarker(r) PROVE Receipted'
  BY <1>13 DEF WriteMarker, RemoveMarker
<1>14. CASE Crash
  BY <1>14 DEF Crash
<1>15. CASE UNCHANGED vars
  BY <1>15 DEF vars
<1>16. QED
  BY <1>1, <1>2, <1>3, <1>4, <1>5, <1>6, <1>7, <1>8, <1>9, <1>10, <1>11, <1>12, <1>13, <1>14, <1>15
  DEF Next, Progress, Failure

(* What a step does to the files and the journal: nothing, a journal more, *)
(* one of an uncommitted deletion less, or one less with its file.         *)
LEMMA NextJournal ==
  ASSUME EInv, Receipted, CommittedJournal, [Next]_vars
  PROVE  CommittedJournal'
<1> USE ErasureConstants DEF EInv, TypeOK, Receipted, CommittedJournal, Goto, SetStatus,
        Target, database, disk, requests
<1>1. ASSUME UNCHANGED <<rows, receipt, files, journal>> PROVE CommittedJournal'
  BY <1>1
<1>2. ASSUME NEW t \in Targets, Preview(t) \/ Expire(t) PROVE CommittedJournal'
  BY <1>1, <1>2 DEF Preview, Expire
<1>3. ASSUME NEW r \in Requests, NEW k \in Keys, Confirm(r, k) \/ Complete(r, k)
      PROVE  CommittedJournal'
  BY <1>1, <1>3 DEF Confirm, Complete
<1>4. ASSUME NEW r \in Requests,
             RefuseStalePlan(r) \/ Begin(r) \/ Create(r) \/ CreateLost(r) \/ CreateFails(r)
             \/ Replan(r) \/ Restart(r) \/ PrepareFails(r) \/ RecordFails(r)
      PROVE  CommittedJournal'
  BY <1>1, <1>4 DEF RefuseStalePlan, Begin, Create, CreateLost, CreateFails, Replan, Restart,
                    PrepareFails, RecordFails
<1>5. ASSUME NEW r \in Requests,
             RecordFailure(r) \/ RecordPartial(r) \/ ResumeWrite(r) \/ WriteMarker(r)
             \/ RemoveMarker(r)
      PROVE  CommittedJournal'
  BY <1>1, <1>5 DEF RecordFailure, RecordPartial, ResumeWrite, WriteMarker, RemoveMarker
<1>6. ASSUME NEW r \in Requests, Prepare(r) PROVE CommittedJournal'
  BY <1>6 DEF Prepare, Journaled
<1>7. ASSUME NEW r \in Requests, Commit(r) PROVE CommittedJournal'
  BY <1>7 DEF Commit
<1>8. ASSUME NEW r \in Requests, Rollback(r) PROVE CommittedJournal'
  BY <1>8 DEF Rollback, Running
<1>9. ASSUME NEW r \in Requests, Purge(r) \/ PurgeFails(r) \/ ResumePurge(r) \/ ResumeFails(r)
      PROVE  CommittedJournal'
  BY <1>9 DEF Purge, PurgeFails, ResumePurge, ResumeFails, PurgedInPart, Unlinked
<1>10. CASE Crash
  BY <1>1, <1>10 DEF Crash
<1>11. CASE UNCHANGED vars
  BY <1>1, <1>11 DEF vars
<1>12. QED
  BY <1>2, <1>3, <1>4, <1>5, <1>6, <1>7, <1>8, <1>9, <1>10, <1>11 DEF Next, Progress, Failure

LEMMA NextJInv == JInv /\ OneRunner /\ [Next]_vars => JInv'
  BY NextEInv, NextReceipted, NextJournal DEF JInv

-----------------------------------------------------------------------------
(* No two requests are under way with one workflow, whatever they do.      *)
OneRequest == \A p, r \in Requests :
    p # r /\ key[p] = key[r] => pc[p] = "idle" \/ pc[r] = "idle"

LEMMA OneRequestOneRunner == OneRequest => OneRunner
  BY DEF OneRequest, OneRunner, Running

(* Until the server stops, or a second failure: whoever is past the commit *)
(* still has the journal or has unlinked the file, and so has a workflow   *)
(* that is finished, unless its request still works on it.                 *)
InHand(k) == k \in journal \/ TargetOf[k] \notin files
Lucky == crashes = 0 /\ faults <= 1
Purged ==
    /\ \A r \in Requests : /\ pc[r] \in {"committed", "leftover", "resuming"} => InHand(key[r])
                           /\ pc[r] = "leftover" => faults # 0
                           /\ pc[r] = "resumed" => TargetOf[key[r]] \notin files
    /\ \A k \in Keys :
          /\ wf[k] = "partial" => InHand(k)
          /\ wf[k] = "awaiting" => \/ TargetOf[k] \notin files
                                   \/ \E r \in Requests : /\ key[r] = k
                                                          /\ pc[r] \in {"committed", "leftover"}
          /\ wf[k] = "completed" => TargetOf[k] \notin files

LEMMA NextPurged ==
  ASSUME JInv, Lucky => Purged, OneRequest, OneRequest', [Next]_vars, Lucky'
  PROVE  Purged'
<1>1. TypeOK /\ TypeOK' /\ Receipted /\ Lucky /\ Purged
  <2>1. TypeOK /\ TypeOK' /\ Receipted
    BY NextTypeOK DEF JInv, EInv
  <2>2. crashes' >= crashes /\ faults' >= faults
    <3> USE DEF TypeOK, Goto, SetStatus, Fault, database, disk, requests
    <3>1. ASSUME NEW t \in Targets, Preview(t) \/ Expire(t)
          PROVE  crashes' >= crashes /\ faults' >= faults
      BY <2>1, <3>1 DEF Preview, Expire
    <3>2. ASSUME NEW r \in Requests, NEW k \in Keys, Confirm(r, k) \/ Complete(r, k)
          PROVE  crashes' >= crashes /\ faults' >= faults
      BY <2>1, <3>2 DEF Confirm, Complete
    <3>3. ASSUME NEW r \in Requests, Progress(r) \/ Failure(r)
          PROVE  crashes' >= crashes /\ faults' >= faults
      BY <2>1, <3>3 DEF Progress, Failure, RefuseStalePlan, Begin, Create, CreateLost, CreateFails,
         Replan, Restart, Prepare, PrepareFails, Commit, Rollback, RecordFailure, Purge, PurgeFails,
         RecordPartial, WriteMarker, ResumePurge, ResumeFails, ResumeWrite, RecordFails, RemoveMarker
    <3>4. CASE Crash \/ UNCHANGED vars
      BY <2>1, <3>4 DEF Crash, vars
    <3>5. QED
      BY <3>1, <3>2, <3>3, <3>4 DEF Next
  <2>3. QED
    BY <2>1, <2>2 DEF Lucky, TypeOK
<1> USE ErasureConstants, <1>1 DEF TypeOK, Purged, InHand, Goto, SetStatus, Fault, Target, database,
        disk, requests
<1>2. ASSUME UNCHANGED <<wf, files, journal, pc, key, faults>> PROVE Purged'
  BY <1>2
<1>3. ASSUME NEW t \in Targets, Preview(t) \/ Expire(t) PROVE Purged'
  BY <1>2, <1>3 DEF Preview, Expire
<1>4. ASSUME NEW r \in Requests, NEW k \in Keys, Confirm(r, k) PROVE Purged'
  BY <1>4 DEF Confirm, Retryable
<1>5. ASSUME NEW r \in Requests, NEW k \in Keys, Complete(r, k) PROVE Purged'
  <2>1. ASSUME NEW p \in Requests, key[p] = k, pc[p] # "idle" PROVE FALSE
    BY <1>5, <2>1 DEF Complete, OneRequest
  <2>2. TargetOf[k] \notin files
    BY <1>5, <2>1 DEF Complete, Completable
  <2>3. QED
    BY <1>5, <2>2 DEF Complete
<1>6. ASSUME NEW r \in Requests,
             RefuseStalePlan(r) \/ Begin(r) \/ CreateLost(r) \/ CreateFails(r) \/ Replan(r)
             \/ PrepareFails(r)
      PROVE  Purged'
  BY <1>6 DEF RefuseStalePlan, Begin, CreateLost, CreateFails, Replan, PrepareFails
<1>7. ASSUME NEW r \in Requests, Create(r) \/ Restart(r) \/ Prepare(r) PROVE Purged'
  BY <1>7 DEF Create, Restart, Prepare, Journaled
<1>8. ASSUME NEW r \in Requests, Commit(r) PROVE Purged'
  BY <1>8 DEF Commit, Receipted
<1>9. ASSUME NEW r \in Requests, Rollback(r) PROVE Purged'
  BY <1>9 DEF Rollback, OneRequest, Receipted, Running
<1>10. ASSUME NEW r \in Requests, RecordFailure(r) PROVE Purged'
  BY <1>10 DEF RecordFailure
<1>11. ASSUME NEW r \in Requests, RecordPartial(r) PROVE Purged'
  BY <1>11 DEF RecordPartial, PartialStatus
<1>12. ASSUME NEW r \in Requests, RecordFails(r) PROVE Purged'
  BY <1>12 DEF RecordFails, Lucky
<1>13. ASSUME NEW r \in Requests, Purge(r) PROVE Purged'
  BY <1>13 DEF Purge, Unlinked
<1>14. ASSUME NEW r \in Requests, PurgeFails(r) PROVE Purged'
  BY <1>14 DEF PurgeFails, PurgedInPart, Unlinked
<1>15. ASSUME NEW r \in Requests, ResumePurge(r) PROVE Purged'
  BY <1>15 DEF ResumePurge, Unlinked
<1>16. ASSUME NEW r \in Requests, ResumeFails(r) PROVE Purged'
  BY <1>16 DEF ResumeFails, PurgedInPart, Unlinked
<1>17. ASSUME NEW r \in Requests, ResumeWrite(r) PROVE Purged'
  BY <1>17 DEF ResumeWrite
<1>18. ASSUME NEW r \in Requests, WriteMarker(r) \/ RemoveMarker(r) PROVE Purged'
  BY <1>18 DEF WriteMarker, RemoveMarker
<1>19. CASE Crash
  BY <1>19 DEF Crash, Lucky
<1>20. CASE UNCHANGED vars
  BY <1>2, <1>20 DEF vars
<1>21. QED
  BY <1>3, <1>4, <1>5, <1>6, <1>7, <1>8, <1>9, <1>10, <1>11, <1>12, <1>13, <1>14, <1>15, <1>16,
     <1>17, <1>18, <1>19, <1>20 DEF Next, Progress, Failure

-----------------------------------------------------------------------------
(* The tables, files and requests keep their types. *)
THEOREM ErasureTypes == Spec => []TypeOK
<1>1. EInv /\ [Next]_vars => EInv'
  BY NextEInv
<1>2. EInv => TypeOK
  BY DEF EInv
<1>3. QED BY <1>1, <1>2, InitEInv, PTL DEF Spec

(* _purge_file_journal, resume_committed_workflow and _discard_file_journal *)
(* never cost a document that still has rows its file.                      *)
THEOREM FilesAreSafe == Spec => []FileOutlivesRows
<1>1. EInv /\ [Next]_vars => EInv'
  BY NextEInv
<1>2. EInv => FileOutlivesRows
  BY DEF EInv
<1>3. QED BY <1>1, <1>2, InitEInv, PTL DEF Spec

(* On SQLite, where nothing completes a workflow, the marker stands from   *)
(* before a workflow exists until after it is finished.                    *)
THEOREM StaysClosed ==
  ASSUME ~Barrier PROVE Spec => []FailClosed
<1>1. TypeOK /\ Closed /\ [Next]_vars => Closed'
  BY NextClosed
<1>2. Closed => FailClosed
  BY DEF Closed, FailClosed, Unfinished
<1>3. QED BY <1>1, <1>2, InitEInv, ErasureTypes, PTL DEF Spec

(* As long as no two requests run the deletion of one workflow at once,    *)
(* the journal on disk names every file whose rows are gone, through all   *)
(* crashes and faults (_prepare_file_journal, _purge_file_journal).        *)
THEOREM NoFileForgotten == Spec /\ []OneRunner => []LeftoversJournaled
<1>1. JInv /\ OneRunner /\ [Next]_vars => JInv'
  BY NextJInv
<1>2. JInv => LeftoversJournaled
  BY DEF JInv, CommittedJournal, LeftoversJournaled
<1>3. QED BY <1>1, <1>2, InitJInv, PTL DEF Spec

(* Where no two requests are under way with one workflow, a single failure *)
(* completes none with its file or its rows left behind.                   *)
THEOREM CompletedAreGone == Spec /\ []OneRequest => []CompletedIsGone
<1> DEFINE KInv == JInv /\ (Lucky => Purged)
<1>1. Init => KInv
  BY InitJInv, ErasureConstants DEF Init, Purged
<1>2. KInv /\ OneRequest /\ OneRequest' /\ [Next]_vars => KInv'
  BY NextPurged, NextJInv, OneRequestOneRunner
<1>3. KInv => CompletedIsGone
  BY DEF JInv, EInv, RowsErased, Lucky, Purged, CompletedIsGone
<1> HIDE DEF KInv
<1>4. QED BY <1>1, <1>2, <1>3, PTL DEF Spec
=============================================================================
