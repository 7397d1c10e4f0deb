----------------------- MODULE DocumentPipelineProofs -----------------------
(***************************************************************************)
(* For any number of documents, recovery commands, attempts, stops and     *)
(* lost settlements: nothing the scanner blocks is published, a            *)
(* reinspection shown as under way has its task, and a document that is    *)
(* not trashed or erased is never left waiting without a task, nor the     *)
(* verdict of its reinspection undone, whatever becomes of the others.     *)
(***************************************************************************)
EXTENDS DocumentPipeline, TLAPS

LEMMA TaskFacts ==
  /\ Posted \subseteq Kinds /\ Commands \subseteq Kinds
  /\ \A t \in Tasks : DocOf(t) \in Docs /\ KindOf(t) \in Kinds /\ t = <<DocOf(t), KindOf(t)>>
  /\ \A d \in Docs, k \in Kinds : <<d, k>> \in Tasks /\ DocOf(<<d, k>>) = d
                                  /\ KindOf(<<d, k>>) = k
  BY DEF Tasks, Kinds, DocOf, KindOf

(* What OutboxProducer.enqueue changes, and what it leaves alone.          *)
LEMMA EnqueuedFacts ==
  ASSUME TypeOK, NEW new
  PROVE  /\ Enqueued(tstatus, new) \in [Tasks -> Open \cup {"absent", "completed", "dead_letter"}]
         /\ \A t \in Tasks : /\ tstatus[t] # "absent" => Enqueued(tstatus, new)[t] = tstatus[t]
                             /\ t \notin new => Enqueued(tstatus, new)[t] = tstatus[t]
                             /\ t \in new /\ tstatus[t] = "absent"
                                  => Enqueued(tstatus, new)[t] = "pending"
                             /\ tstatus[t] \in Open => Enqueued(tstatus, new)[t] \in Open
  BY DEF TypeOK, Enqueued, Open, Claimable

-----------------------------------------------------------------------------
(* Types, and the claim the loop holds. *)
Busy == phase \notin {"down", "idle"}

(* From the claim to its settlement the task is PROCESSING in the outbox,  *)
(* and a phase of a handler belongs to the handler of the task's kind.     *)
HoldsTask ==
    /\ Busy => cur \in Tasks /\ tstatus[cur] = "processing"
    /\ phase \in {"loaded", "scanning"} => Processing
    /\ phase = "reinspecting" => ~Processing

TInv == TypeOK /\ HoldsTask

LEMMA InitTInv == Init => TInv
  BY PipelineConstants DEF Init, TInv, TypeOK, HoldsTask, Busy, Waiting, Blocked, Open, Claimable,
     Failures

LEMMA TypesStep ==
  ASSUME TInv, [Next]_vars
  PROVE  TInv'
<1> USE PipelineConstants
<1>1. CASE UNCHANGED vars
  BY <1>1 DEF TInv, TypeOK, HoldsTask, Busy, Processing, vars, docVars, taskVars, runVars, bounds
<1>2. CASE Start
  <2>1. tstatus' \in [Tasks -> Open \cup {"absent", "completed", "dead_letter"}]
    BY <1>2 DEF Start, Enqueued, TInv, TypeOK, Open, Claimable
  <2>2. QED
    BY <1>2, <2>1 DEF Start, TInv, TypeOK, HoldsTask, Busy, docVars, bounds
<1>3. CASE Crash
  BY <1>3 DEF Crash, Up, Forget, TInv, TypeOK, HoldsTask, Busy, docVars, taskVars
<1>4. CASE LoseSettlement
  BY <1>4 DEF LoseSettlement, GoIdle, Forget, TInv, TypeOK, HoldsTask, Busy, docVars, taskVars
<1>5. CASE \E t \in Tasks : Claim(t)
  BY <1>5 DEF Claim, TInv, TypeOK, HoldsTask, Busy, docVars, bounds, Claimable, Open
<1>6. CASE RefuseInactive \/ LoadDocument \/ ReturnCurrent
  BY <1>6 DEF RefuseInactive, LoadDocument, ReturnCurrent, Return, TInv, TypeOK, HoldsTask, Busy,
     Processing, doc, docVars, taskVars, bounds, Failures, DocOf, KindOf, Tasks, Waiting, Blocked
<1>7. CASE MarkProcessing \/ Block \/ Publish
  BY <1>7 DEF MarkProcessing, Block, Publish, Return, TInv, TypeOK, HoldsTask, Busy, BlockedAs,
     Processing, taskVars, bounds, Failures, Waiting, Blocked
<1>8. CASE FailProcessing
  BY <1>8 DEF FailProcessing, MarkedFailed, Return, TInv, TypeOK, HoldsTask, Busy,
     Processing, taskVars, bounds, Failures, Waiting, Blocked
<1>9. CASE ReinspectEarly \/ ReinspectFail
  BY <1>9 DEF ReinspectEarly, ReinspectFail, Return, TInv, TypeOK, HoldsTask, Busy,
     Processing, docVars, taskVars, bounds, Failures
<1>10. CASE ReinspectBegin
  BY <1>10 DEF ReinspectBegin, TInv, TypeOK, HoldsTask, Busy, Processing, taskVars, bounds
<1>11. CASE ReinspectFinish
  <2>1. tstatus' \in [Tasks -> Open \cup {"absent", "completed", "dead_letter"}]
        /\ tstatus'[cur] = tstatus[cur]
    BY <1>11, EnqueuedFacts DEF ReinspectFinish, TInv, HoldsTask, Busy
  <2>2. QED
    BY <1>11, <2>1 DEF ReinspectFinish, Return, TInv, TypeOK, HoldsTask, Busy, BlockedAs,
       Processing, bounds, Failures, Waiting, Blocked
<1>12. CASE SettleCompleted \/ SettleRetry \/ SettleDeadLetter
  BY <1>12 DEF SettleCompleted, SettleRetry, SettleDeadLetter, Projects, GoIdle, Forget, TInv,
     TypeOK, HoldsTask, Busy, docVars, bounds, Open, Claimable, Waiting, Blocked
<1>13. ASSUME NEW d \in Docs, Upload(d) \/ RequestReinspection(d)
       PROVE  TInv'
  <2>1. /\ tstatus' \in [Tasks -> Open \cup {"absent", "completed", "dead_letter"}]
        /\ Busy => tstatus'[cur] = tstatus[cur]
    BY <1>13, EnqueuedFacts DEF Upload, RequestReinspection, TInv, HoldsTask
  <2>2. QED
    BY <1>13, <2>1 DEF Upload, RequestReinspection, TInv, TypeOK, HoldsTask, Busy, Processing,
       runVars, bounds
<1>14. ASSUME NEW d \in Docs, Trash(d) \/ Restore(d) \/ Erase(d)
       PROVE  TInv'
  BY <1>14 DEF Trash, Restore, Erase, TInv, TypeOK, HoldsTask, Busy, Processing, taskVars, runVars,
     bounds, Waiting
<1>15. ASSUME NEW c \in Commands, RetryRefuse(c) \/ \E d \in Docs : RetryCheck(c, d)
       PROVE  TInv'
  BY <1>15 DEF RetryRefuse, RetryCheck, TInv, TypeOK, HoldsTask, Busy, Processing, docVars,
     taskVars, runVars, bounds
<1>16. ASSUME NEW c \in Commands, RetryWrite(c)
       PROVE  TInv'
  <2>1. /\ tstatus' \in [Tasks -> Open \cup {"absent", "completed", "dead_letter"}]
        /\ Busy => tstatus'[cur] = tstatus[cur]
    BY <1>16, EnqueuedFacts DEF RetryWrite, TInv, TypeOK, HoldsTask
  <2>2. proc' \in [Docs -> Waiting \cup Blocked \cup {"completed", "failed"}]
    BY <1>16 DEF RetryWrite, TInv, TypeOK, Waiting
  <2>3. QED
    BY <1>16, <2>1, <2>2 DEF RetryWrite, TInv, TypeOK, HoldsTask, Busy, Processing, runVars, bounds
<1>17. QED
  BY <1>1, <1>2, <1>3, <1>4, <1>5, <1>6, <1>7, <1>8, <1>9, <1>10, <1>11, <1>12, <1>13, <1>14,
     <1>15, <1>16 DEF Next, RuntimeStep, Command

(* A document that was never uploaded has no task, whatever was posted.    *)
NoRowNoTask == \A t \in Tasks : lifecycle[DocOf(t)] = "absent" => tstatus[t] = "absent"

LInv == TypeOK /\ HoldsTask /\ NoRowNoTask

LEMMA InitLInv == Init => LInv
<1>1. Init => NoRowNoTask
  BY PipelineConstants, TaskFacts DEF Init, NoRowNoTask
<1>2. QED
  BY <1>1, InitTInv DEF LInv, TInv

LEMMA LoopStep ==
  ASSUME LInv, [Next]_vars
  PROVE  LInv'
<1>1. TypeOK' /\ HoldsTask'
  BY TypesStep DEF LInv, TInv
<1>2. \A d \in Docs : lifecycle'[d] = "absent" => lifecycle[d] = "absent"
  <2>1. ASSUME NEW d \in Docs, Upload(d) \/ Trash(d) \/ Restore(d) \/ Erase(d)
        PROVE  \A e \in Docs : lifecycle'[e] = "absent" => lifecycle[e] = "absent"
    BY <2>1 DEF Upload, Trash, Restore, Erase, LInv, TypeOK
  <2>2. QED
    BY <2>1 DEF Next, RuntimeStep, Command, vars, docVars, Start, Crash,
       LoseSettlement, Claim, RefuseInactive, LoadDocument, ReturnCurrent, MarkProcessing, Block,
       Publish, FailProcessing, ReinspectEarly, ReinspectBegin, ReinspectFinish, ReinspectFail,
       SettleCompleted, SettleRetry, SettleDeadLetter, RequestReinspection, RetryWrite,
       RetryRefuse, RetryCheck
<1>3. ASSUME NEW t \in Tasks, lifecycle'[DocOf(t)] = "absent"
      PROVE  tstatus'[t] = "absent"
  <2>1. DocOf(t) \in Docs /\ lifecycle[DocOf(t)] = "absent" /\ tstatus[t] = "absent"
    BY <1>2, <1>3, TaskFacts DEF LInv, NoRowNoTask
  <2>2. CASE UNCHANGED tstatus
    BY <2>1, <2>2
  <2>3. CASE Start
    BY <2>1, <2>3 DEF Start, StaleSets, Enqueued, Active, DocOf
  <2>4. ASSUME NEW u \in Tasks, Claim(u)
        PROVE  tstatus'[t] = "absent"
    BY <2>1, <2>4 DEF Claim, Claimable, LInv, TypeOK
  <2>5. CASE SettleCompleted \/ SettleRetry \/ SettleDeadLetter
    BY <2>1, <2>5 DEF SettleCompleted, SettleRetry, SettleDeadLetter, LInv, TypeOK, HoldsTask, Busy
  <2>6. CASE ReinspectFinish
    BY <2>1, <2>6 DEF ReinspectFinish, FollowUp, Enqueued, Exists, Active, DocOf
  <2>7. ASSUME NEW d \in Docs, Upload(d) \/ RequestReinspection(d)
        PROVE  tstatus'[t] = "absent"
    <3>1. DocOf(t) # d
      BY <1>3, <2>1, <2>7 DEF Upload, RequestReinspection, Active, LInv, TypeOK
    <3>2. QED
      BY <2>1, <2>7, <3>1 DEF Upload, RequestReinspection, Enqueued, DocOf
  <2>8. ASSUME NEW c \in Commands, RetryWrite(c)
        PROVE  tstatus'[t] = "absent"
    BY <2>1, <2>8 DEF RetryWrite, Enqueued, DocOf, Exists, Active
  <2>9. QED
    BY <2>2, <2>3, <2>4, <2>5, <2>6, <2>7, <2>8 DEF Next, RuntimeStep, Command, vars, taskVars,
       Crash, LoseSettlement, RefuseInactive, LoadDocument, ReturnCurrent, MarkProcessing, Block,
       Publish, FailProcessing, ReinspectEarly, ReinspectBegin, ReinspectFail, Trash, Restore,
       Erase, RetryRefuse, RetryCheck
<1>4. QED
  BY <1>1, <1>3 DEF LInv, NoRowNoTask

(* Every row stays in its domain: the types of the whole pipeline.         *)
THEOREM PipelineTypes == Spec => []TypeOK
<1>1. Spec => []LInv
  BY InitLInv, LoopStep, PTL DEF Spec
<1>2. LInv => TypeOK
  BY DEF LInv
<1>3. QED
  BY <1>1, <1>2, PTL

(* No sequence of redeliveries, retries and reinspections publishes a      *)
(* document the current scanner blocks: every way to a current revision is *)
(* a scan of its own (process_document).                                   *)
THEOREM CleanPublications == Spec => []PublishedIsClean
<1>1. Init => PublishedIsClean
  BY DEF Init, PublishedIsClean
<1>2. ASSUME LInv, PublishedIsClean, [Next]_vars
      PROVE  PublishedIsClean'
  <2>1. CASE Publish
    BY <1>2, <2>1 DEF Publish, Blocks, PublishedIsClean, LInv, TypeOK
  <2>2. ASSUME NEW d \in Docs, Erase(d)
        PROVE  PublishedIsClean'
    BY <1>2, <2>2 DEF Erase, PublishedIsClean, LInv, TypeOK
  <2>3. CASE UNCHANGED revision
    BY <1>2, <2>3 DEF PublishedIsClean
  <2>4. QED
    BY <1>2, <2>1, <2>2, <2>3 DEF Next, RuntimeStep, Command, vars, docVars, Start, Crash,
       LoseSettlement, Claim, RefuseInactive, LoadDocument, ReturnCurrent, MarkProcessing, Block,
       FailProcessing, ReinspectEarly, ReinspectBegin, ReinspectFinish, ReinspectFail,
       SettleCompleted, SettleRetry, SettleDeadLetter, Upload, Trash, Restore,
       RequestReinspection, RetryWrite, RetryRefuse, RetryCheck
<1>3. QED
  BY <1>1, <1>2, InitLInv, LoopStep, PTL DEF Spec
-----------------------------------------------------------------------------
(* Reinspections. *)
UnderWay == {"pending", "processing"}   \* a reinspection the owner is shown
ReinspectTask(d) == <<d, "reinspect">>

(* A row that is gone has no reinspection; one that has its verdict was    *)
(* scanned by the current scanner, so that no second one may be asked for. *)
ErasedBlank == \A d \in Docs : ~Exists(d) => control[d] = "none"
VerdictScanned == \A d \in Docs : control[d] = "completed" => scanned[d] = "current"

(* process_document writes back the reinspection it loaded: no other task  *)
(* can have run since, so that one's task is still open.                   *)
HeldTracked == phase \in {"loaded", "scanning"} /\ held \in UnderWay
                  => tstatus[ReinspectTask(doc)] \in Open

(* A reinspection task that succeeded has left its verdict.                *)
Answered == phase = "settling" /\ ~Processing /\ result = "ok"
               => control[doc] = "completed" \/ ~Exists(doc)

RInv == /\ LInv /\ ErasedBlank /\ VerdictScanned /\ HeldTracked /\ Answered
        /\ ReinspectionTracked

LEMMA InitRInv == Init => RInv
  BY InitLInv, PipelineConstants DEF Init, RInv, ErasedBlank, VerdictScanned, HeldTracked, Answered,
     ReinspectionTracked, Exists, Active

(* The task of the loop, in the terms of its document.                     *)
LEMMA LoopTask ==
  ASSUME LInv, Busy
  PROVE  /\ cur \in Tasks /\ doc \in Docs /\ tstatus[cur] = "processing"
         /\ ~Processing => cur = ReinspectTask(doc)
         /\ Processing => \A d \in Docs : cur # ReinspectTask(d)
         /\ \A d \in Docs : ReinspectTask(d) \in Tasks
         /\ \A d \in Docs : d # doc => cur # ReinspectTask(d)
  BY DEF LInv, HoldsTask, doc, Processing, Tasks, Kinds, Posted, DocOf, KindOf, ReinspectTask

(* The steps that post tasks or claim them and leave the rows alone.       *)
LEMMA RowsUntouched ==
  ASSUME RInv, LInv', UNCHANGED <<lifecycle, scanned, control>>,
         \A d \in Docs : tstatus[ReinspectTask(d)] \in Open
                            => tstatus'[ReinspectTask(d)] \in Open,
         \/ phase' \notin {"loaded", "scanning", "settling"}
         \/ UNCHANGED runVars
  PROVE  RInv'
<1>1. (ErasedBlank /\ VerdictScanned /\ ReinspectionTracked)'
  BY DEF RInv, ErasedBlank, VerdictScanned, ReinspectionTracked, Exists, Active, UnderWay,
     ReinspectTask
<1>2. HeldTracked' /\ Answered'
  <2>1. CASE phase' \notin {"loaded", "scanning", "settling"}
    BY <2>1 DEF HeldTracked, Answered
  <2>2. CASE UNCHANGED runVars /\ phase \in {"loaded", "scanning", "settling"}
    BY <2>2, LoopTask DEF RInv, HeldTracked, Answered, runVars, doc, Processing, Busy, Exists, Active
  <2>3. QED
    BY <2>1, <2>2 DEF runVars
<1>3. QED
  BY <1>1, <1>2 DEF RInv

LEMMA PostingSteps ==
  ASSUME RInv, LInv',
         \/ Start \/ Crash \/ LoseSettlement \/ SettleRetry \/ \E t \in Tasks : Claim(t)
         \/ \E c \in Commands : RetryWrite(c) \/ RetryRefuse(c) \/ \E d \in Docs : RetryCheck(c, d)
  PROVE  RInv'
<1>1. \A d \in Docs : ReinspectTask(d) \in Tasks
  BY DEF ReinspectTask, Tasks, Kinds, Posted
<1>2. CASE Start
  <2>1. \A t \in Tasks : tstatus[t] \in Open => tstatus'[t] \in Open
    BY <1>2 DEF Start, Enqueued, Open, Claimable
  <2>2. QED
    BY <1>1, <1>2, <2>1, RowsUntouched DEF Start, docVars
<1>3. CASE Crash \/ LoseSettlement
  BY <1>3, RowsUntouched DEF Crash, LoseSettlement, GoIdle, docVars, taskVars
<1>4. CASE SettleRetry \/ \E t \in Tasks : Claim(t)
  <2>1. \A t \in Tasks : tstatus[t] \in Open => tstatus'[t] \in Open
    BY <1>4 DEF SettleRetry, Claim, Open, Claimable, RInv, LInv, TypeOK
  <2>2. QED
    BY <1>1, <1>4, <2>1, RowsUntouched DEF SettleRetry, Claim, GoIdle, docVars
<1>5. ASSUME NEW c \in Commands, RetryWrite(c)
      PROVE  RInv'
  <2>1. \A t \in Tasks : tstatus[t] \in Open => tstatus'[t] \in Open
    BY <1>5, EnqueuedFacts DEF RetryWrite, RInv, LInv
  <2>2. QED
    BY <1>1, <1>5, <2>1, RowsUntouched DEF RetryWrite
<1>6. ASSUME NEW c \in Commands, RetryRefuse(c) \/ \E d \in Docs : RetryCheck(c, d)
      PROVE  RInv'
  BY <1>6, RowsUntouched DEF RetryRefuse, RetryCheck, docVars, taskVars
<1>7. QED
  BY <1>2, <1>3, <1>4, <1>5, <1>6

(* process_document. *)
LEMMA ProcessSteps ==
  ASSUME RInv, LInv',
         \/ RefuseInactive \/ LoadDocument \/ ReturnCurrent \/ MarkProcessing \/ FailProcessing
         \/ Block \/ Publish
  PROVE  RInv'
<1>1. doc \in Docs /\ doc' = doc /\ Processing /\ Processing' /\ tstatus' = tstatus
      /\ lifecycle' = lifecycle
  BY LoopTask DEF RefuseInactive, LoadDocument, ReturnCurrent, MarkProcessing, FailProcessing,
     Block, Publish, Return, docVars, taskVars, doc, Processing, RInv, LInv, HoldsTask, Busy
<1>2. CASE Block \/ Publish
  <2>1. /\ control' = [control EXCEPT ![doc] = held]
        /\ scanned' = [scanned EXCEPT ![doc] = "current"]
        /\ phase = "scanning" /\ phase' = "settling" /\ Exists(doc)
    BY <1>2 DEF Block, Publish, Return
  <2>2. ErasedBlank' /\ VerdictScanned'
    BY <1>1, <2>1 DEF RInv, LInv, TypeOK, ErasedBlank, VerdictScanned, Exists, Active
  <2>3. ReinspectionTracked'
    BY <1>1, <2>1 DEF RInv, LInv, TypeOK, ReinspectionTracked, HeldTracked, UnderWay, ReinspectTask
  <2>4. HeldTracked' /\ Answered'
    BY <1>1, <2>1 DEF HeldTracked, Answered
  <2>5. QED
    BY <2>2, <2>3, <2>4 DEF RInv
<1>3. CASE RefuseInactive \/ LoadDocument \/ ReturnCurrent \/ MarkProcessing \/ FailProcessing
  <2>1. UNCHANGED <<scanned, control>>
    BY <1>3 DEF RefuseInactive, LoadDocument, ReturnCurrent, MarkProcessing, FailProcessing, docVars
  <2>2. (ErasedBlank /\ VerdictScanned /\ ReinspectionTracked)'
    BY <1>1, <2>1 DEF RInv, ErasedBlank, VerdictScanned, ReinspectionTracked, Exists, Active
  <2>3. Answered'
    BY <1>1 DEF Answered
  <2>4. HeldTracked'
    BY <1>1, <1>3 DEF RefuseInactive, LoadDocument, ReturnCurrent, MarkProcessing, FailProcessing,
       Return, HeldTracked, RInv, ReinspectionTracked, UnderWay, ReinspectTask
  <2>5. QED
    BY <2>2, <2>3, <2>4 DEF RInv
<1>4. QED
  BY <1>2, <1>3

(* reinspect_document. *)
LEMMA ReinspectSteps ==
  ASSUME RInv, LInv', ReinspectEarly \/ ReinspectBegin \/ ReinspectFinish \/ ReinspectFail
  PROVE  RInv'
<1>1. /\ doc \in Docs /\ doc' = doc /\ ~Processing /\ ~Processing'
      /\ cur = ReinspectTask(doc) /\ cur \in Tasks /\ tstatus[cur] = "processing"
      /\ lifecycle' = lifecycle /\ phase' \notin {"loaded", "scanning"}
  BY LoopTask DEF ReinspectEarly, ReinspectBegin, ReinspectFinish, ReinspectFail, Return, docVars,
     doc, Processing, RInv, LInv, HoldsTask, Busy
<1>2. HeldTracked'
  BY <1>1 DEF HeldTracked
<1>3. \A d \in Docs : tstatus[ReinspectTask(d)] \in Open => tstatus'[ReinspectTask(d)] \in Open
  <2>1. ReinspectFinish => \A t \in Tasks : tstatus[t] \in Open => tstatus'[t] \in Open
    BY EnqueuedFacts DEF ReinspectFinish, RInv, LInv
  <2>2. QED
    BY <2>1 DEF ReinspectEarly, ReinspectBegin, ReinspectFail, taskVars, ReinspectTask, Tasks,
       Kinds, Posted
<1>4. CASE ReinspectEarly \/ ReinspectFail
  <2>1. UNCHANGED <<scanned, control>>
    BY <1>4 DEF ReinspectEarly, ReinspectFail, docVars
  <2>2. (ErasedBlank /\ VerdictScanned /\ ReinspectionTracked)'
    BY <1>1, <1>3, <2>1 DEF RInv, ErasedBlank, VerdictScanned, ReinspectionTracked, Exists, Active,
       ReinspectTask
  <2>3. Answered'
    BY <1>1, <1>4, <2>1 DEF ReinspectEarly, ReinspectFail, Return, Answered, Reinspected, Failures
  <2>4. QED
    BY <1>2, <2>2, <2>3 DEF RInv
<1>5. CASE ReinspectBegin
  <2>1. ErasedBlank' /\ VerdictScanned'
    BY <1>1, <1>5 DEF ReinspectBegin, RInv, LInv, TypeOK, ErasedBlank, VerdictScanned, Exists, Active
  <2>2. ReinspectionTracked'
    BY <1>1, <1>3, <1>5 DEF ReinspectBegin, RInv, LInv, TypeOK, ReinspectionTracked, ReinspectTask,
       Open, taskVars
  <2>3. Answered'
    BY <1>5 DEF ReinspectBegin, Answered
  <2>4. QED
    BY <1>2, <2>1, <2>2, <2>3 DEF RInv
<1>6. CASE ReinspectFinish
  <2>1. ErasedBlank' /\ VerdictScanned'
    BY <1>1, <1>6 DEF ReinspectFinish, RInv, LInv, TypeOK, ErasedBlank, VerdictScanned, Exists,
       Active
  <2>2. ReinspectionTracked'
    BY <1>1, <1>3, <1>6 DEF ReinspectFinish, RInv, LInv, TypeOK, ReinspectionTracked, ReinspectTask
  <2>3. Answered'
    BY <1>1, <1>6 DEF ReinspectFinish, Answered, RInv, LInv, TypeOK
  <2>4. QED
    BY <1>2, <2>1, <2>2, <2>3 DEF RInv
<1>7. QED
  BY <1>4, <1>5, <1>6

LEMMA SettleSteps ==
  ASSUME RInv, LInv', SettleCompleted \/ SettleDeadLetter
  PROVE  RInv'
<1>1. /\ doc \in Docs /\ cur \in Tasks
      /\ ~Processing => cur = ReinspectTask(doc)
      /\ \A d \in Docs : (Processing \/ d # doc) => cur # ReinspectTask(d)
      /\ UNCHANGED <<lifecycle, scanned>> /\ phase' = "idle"
  BY LoopTask DEF SettleCompleted, SettleDeadLetter, GoIdle, docVars, RInv, Busy
<1>2. HeldTracked' /\ Answered'
  BY <1>1 DEF HeldTracked, Answered
<1>3. ErasedBlank' /\ VerdictScanned'
  BY <1>1 DEF SettleCompleted, SettleDeadLetter, Projects, docVars, RInv, LInv, TypeOK, ErasedBlank,
     VerdictScanned, Exists, Active
<1>4. ASSUME NEW d \in Docs, Processing \/ d # doc
      PROVE  tstatus'[ReinspectTask(d)] = tstatus[ReinspectTask(d)] /\ control'[d] = control[d]
  <2>1. cur # ReinspectTask(d) /\ ReinspectTask(d) \in Tasks
    BY <1>1, <1>4 DEF ReinspectTask, Tasks, Kinds, Posted
  <2>2. tstatus'[ReinspectTask(d)] = tstatus[ReinspectTask(d)]
    BY <2>1 DEF SettleCompleted, SettleDeadLetter, RInv, LInv, TypeOK
  <2>3. control'[d] = control[d]
    BY <1>4 DEF SettleCompleted, SettleDeadLetter, Projects, docVars, RInv, LInv, TypeOK
  <2>4. QED
    BY <2>2, <2>3
<1>5. ~Processing => control'[doc] \notin UnderWay
  <2>1. CASE SettleCompleted
    BY <1>1, <2>1 DEF SettleCompleted, docVars, RInv, Answered, ErasedBlank, UnderWay
  <2>2. CASE SettleDeadLetter
    BY <1>1, <2>2 DEF SettleDeadLetter, Projects, RInv, LInv, TypeOK, ErasedBlank, UnderWay
  <2>3. QED
    BY <2>1, <2>2
<1>6. ReinspectionTracked'
  BY <1>1, <1>4, <1>5 DEF RInv, ReinspectionTracked, UnderWay, ReinspectTask
<1>7. QED
  BY <1>2, <1>3, <1>6 DEF RInv

(* upload, trash, restore and erasure of a row. *)
LEMMA RowSteps ==
  ASSUME RInv, LInv', NEW d \in Docs, Upload(d) \/ Trash(d) \/ Restore(d) \/ Erase(d)
  PROVE  RInv'
<1>1. \A t \in Tasks : tstatus[t] \in Open => tstatus'[t] \in Open
  BY EnqueuedFacts DEF Upload, Trash, Restore, Erase, taskVars, RInv, LInv
<1>2. /\ \A e \in Docs : (control'[e] = control[e] /\ scanned'[e] = scanned[e])
                          \/ (control'[e] = "none" /\ ~Exists(e)')
      /\ \A e \in Docs : Exists(e) => Exists(e)' \/ control'[e] = "none"
      /\ \A e \in Docs : ~Exists(e)' => ~Exists(e) \/ control'[e] = "none"
      /\ \A e \in Docs : ~Exists(e) /\ Exists(e)' => control'[e] = control[e]
      /\ runVars' = runVars
  <2>1. CASE Upload(d) \/ Trash(d) \/ Restore(d)
    BY <2>1 DEF Upload, Trash, Restore, Exists, Active, RInv, LInv, TypeOK
  <2>2. CASE Erase(d)
    BY <2>2 DEF Erase, Exists, Active, RInv, LInv, TypeOK
  <2>3. QED
    BY <2>1, <2>2
<1>3. \A e \in Docs : ReinspectTask(e) \in Tasks
  BY DEF ReinspectTask, Tasks, Kinds, Posted
<1>4. (ErasedBlank /\ VerdictScanned /\ ReinspectionTracked)'
  BY <1>1, <1>2, <1>3 DEF RInv, ErasedBlank, VerdictScanned, ReinspectionTracked, ReinspectTask
<1>5. HeldTracked'
  <2>1. CASE phase \in {"loaded", "scanning"}
    BY <1>1, <1>2, <1>3, <2>1, LoopTask DEF RInv, HeldTracked, runVars, doc, Busy
  <2>2. QED
    BY <1>2, <2>1 DEF HeldTracked, runVars
<1>6. Answered'
  <2>1. CASE phase = "settling"
    <3>1. doc \in Docs /\ doc' = doc /\ lifecycle[doc] # "absent"
      BY <1>2, <2>1, LoopTask DEF RInv, LInv, NoRowNoTask, Busy, runVars, doc
    <3>2. Exists(doc)' => Exists(doc)
      BY <3>1 DEF Upload, Trash, Restore, Erase, Exists, Active, RInv, LInv, TypeOK
    <3>3. QED
      BY <1>2, <2>1, <3>1, <3>2 DEF RInv, Answered, runVars, Processing, Exists, Active
  <2>2. QED
    BY <1>2, <2>1 DEF Answered, runVars
<1>7. QED
  BY <1>4, <1>5, <1>6 DEF RInv

(* request_reinspection. *)
LEMMA RequestStep ==
  ASSUME RInv, LInv', NEW d \in Docs, RequestReinspection(d)
  PROVE  RInv'
<1>1. /\ \A t \in Tasks : tstatus[t] \in Open => tstatus'[t] \in Open
      /\ \A e \in Docs : ReinspectTask(e) \in Tasks
  BY EnqueuedFacts DEF RequestReinspection, RInv, LInv, ReinspectTask, Tasks, Kinds, Posted
<1>2. /\ control[d] # "completed" /\ control'[d] # "completed" /\ Active(d)
      /\ \A e \in Docs \ {d} : control'[e] = control[e]
      /\ UNCHANGED <<lifecycle, scanned, runVars>>
  BY DEF RequestReinspection, RInv, LInv, TypeOK, VerdictScanned
<1>3. ErasedBlank' /\ VerdictScanned'
  BY <1>2 DEF RInv, ErasedBlank, VerdictScanned, Exists, Active
<1>4. HeldTracked'
  BY <1>1, <1>2, LoopTask DEF RInv, HeldTracked, runVars, doc, Busy
<1>5. Answered'
  BY <1>2, LoopTask DEF RInv, Answered, runVars, doc, Processing, Busy, Exists, Active
<1>6. tstatus'[ReinspectTask(d)] \in Open
  <2>1. CASE control[d] \in UnderWay
    BY <1>1, <2>1 DEF RInv, ReinspectionTracked, UnderWay, ReinspectTask
  <2>2. CASE control[d] \notin UnderWay
    <3>1. tstatus[ReinspectTask(d)] \in Open \cup {"absent"}
      BY <1>1, <2>2 DEF RequestReinspection, UnderWay, RInv, LInv, TypeOK, ReinspectTask
    <3>2. QED
      BY <1>1, <3>1, EnqueuedFacts DEF RequestReinspection, RInv, LInv, ReinspectTask, Open,
         Claimable
  <2>3. QED
    BY <2>1, <2>2
<1>7. ReinspectionTracked'
  BY <1>1, <1>2, <1>6 DEF RInv, ReinspectionTracked, ReinspectTask
<1>8. QED
  BY <1>3, <1>4, <1>5, <1>7 DEF RInv

LEMMA RInvStep == RInv /\ [Next]_vars => RInv'
<1> SUFFICES ASSUME RInv, [Next]_vars PROVE RInv'
  OBVIOUS
<1>1. LInv'
  BY LoopStep DEF RInv
<1>2. CASE UNCHANGED vars
  BY <1>1, <1>2 DEF vars, docVars, taskVars, runVars, RInv, ErasedBlank, VerdictScanned,
     HeldTracked, Answered, ReinspectionTracked, Exists, Active, Processing, doc
<1>3. QED
  BY <1>1, <1>2, PostingSteps, ProcessSteps, ReinspectSteps, SettleSteps, RowSteps, RequestStep
     DEF Next, RuntimeStep, Command

(* A reinspection the owner is told is under way has a task that will      *)
(* answer it, through crashes, lost settlements, redeliveries and          *)
(* documents trashed, restored or erased in between.                       *)
THEOREM ReinspectionsTracked == Spec => []ReinspectionTracked
<1>1. RInv => ReinspectionTracked
  BY DEF RInv
<1>2. QED
  BY <1>1, InitRInv, RInvStep, PTL DEF Spec

-----------------------------------------------------------------------------
(* A document that stays active.  Others may be trashed and erased.        *)
Stays(d) == lifecycle[d] = "active" => lifecycle'[d] = "active"

(* NoOrphan of one document.                                               *)
Tended(d) == Active(d) /\ proc[d] \in Waiting => OpenTasks(d) # {}

NotGone(d) == lifecycle[d] \in {"absent", "active"}

(* The task under a recovery command's key is posted by its last step, and *)
(* the one that follows a reinspection by its verdict: each once.          *)
KeysUnused == \A c \in Commands : reading[c] # NoDoc =>
                 \A d \in Docs : tstatus[<<d, c>>] = "absent"
FollowUpOnce(d) == tstatus[<<d, "after">>] # "absent" => scanned[d] = "current"

(* A handler of process_document that has returned, or is about to, leaves *)
(* its document decided or with another task.                              *)
Handling(d) == (phase = "settling" \/ (phase = "loaded" /\ seen = "completed")) /\ Processing
                  /\ doc = d
Decided(d) == proc[d] \notin Waiting \/ OpenTasks(d) \ {cur} # {}
LeavesDecided(d) == Handling(d) => Decided(d)

(* What it loaded of a completed reinspection is that it is completed; and *)
(* a reinspection that failed or may still fail has not been completed.    *)
HeldVerdict(d) == phase \in {"loaded", "scanning"} /\ doc = d /\ control[d] = "completed"
                     => held = "completed"
NoVerdictYet(d) ==
    /\ phase = "reinspecting" /\ doc = d => scanned[d] # "current"
    /\ phase = "settling" /\ ~Processing /\ result \in Failures /\ doc = d
         => control[d] # "completed"

SInv(d) == /\ RInv /\ KeysUnused
           /\ NotGone(d) /\ FollowUpOnce(d) /\ LeavesDecided(d) /\ HeldVerdict(d)
           /\ NoVerdictYet(d) /\ Tended(d)

LEMMA InitSInv == ASSUME NEW d \in Docs PROVE Init => SInv(d)
<1> SUFFICES ASSUME Init PROVE SInv(d)
  OBVIOUS
<1>1. KeysUnused /\ NotGone(d) /\ LeavesDecided(d) /\ HeldVerdict(d) /\ NoVerdictYet(d)
  BY DEF Init, KeysUnused, NotGone, LeavesDecided, Handling, HeldVerdict, NoVerdictYet
<1>2. FollowUpOnce(d)
  BY TaskFacts DEF Init, FollowUpOnce, Kinds, Posted
<1>3. Tended(d)
  BY PipelineConstants DEF Init, Tended, Active, Waiting
<1>4. QED
  BY <1>1, <1>2, <1>3, InitRInv DEF SInv

(* Its row is there from the upload on, whatever it may be in the middle   *)
(* of.                                                                     *)
LEMMA StaysActive ==
  ASSUME NEW d \in Docs, SInv(d), Stays(d)
  PROVE  /\ ~Trash(d) /\ ~Restore(d) /\ ~Erase(d)
         /\ Busy /\ doc = d => Active(d) /\ ~RefuseInactive
<1>1. ~Trash(d) /\ ~Restore(d) /\ ~Erase(d)
  BY DEF SInv, RInv, LInv, TypeOK, NotGone, Stays, Trash, Restore, Erase, Exists, Active
<1>2. Busy /\ doc = d => Active(d)
  BY LoopTask, TaskFacts DEF SInv, RInv, LInv, NoRowNoTask, NotGone, Active, doc
<1>3. QED
  BY <1>1, <1>2 DEF RefuseInactive, Busy

(* The tasks a step may post.                                              *)
LEMMA NewTasks ==
  ASSUME RInv, [Next]_vars, NEW t \in Tasks, tstatus[t] = "absent", tstatus'[t] # "absent"
  PROVE  \/ KindOf(t) \in {"process", "reinspect"}
         \/ ReinspectFinish /\ t = <<doc, "after">>
         \/ \E c \in Commands : RetryWrite(c) /\ KindOf(t) = c
<1>1. CASE Start
  BY <1>1 DEF Start, StaleSets, Enqueued, KindOf
<1>2. ASSUME NEW u \in Tasks, Claim(u)
      PROVE  FALSE
  BY <1>2 DEF Claim, Claimable, RInv, LInv, TypeOK
<1>3. CASE SettleCompleted \/ SettleRetry \/ SettleDeadLetter
  BY <1>3 DEF SettleCompleted, SettleRetry, SettleDeadLetter, RInv, LInv, TypeOK, HoldsTask,
     Busy
<1>4. CASE ReinspectFinish
  BY <1>4 DEF ReinspectFinish, FollowUp, Enqueued
<1>5. ASSUME NEW d \in Docs, Upload(d) \/ RequestReinspection(d)
      PROVE  KindOf(t) \in {"process", "reinspect"}
  BY <1>5 DEF Upload, RequestReinspection, Enqueued, KindOf
<1>6. ASSUME NEW c \in Commands, RetryWrite(c)
      PROVE  KindOf(t) = c
  BY <1>6 DEF RetryWrite, Enqueued, KindOf
<1>7. CASE UNCHANGED tstatus
  BY <1>7
<1>8. QED
  BY <1>1, <1>2, <1>3, <1>4, <1>5, <1>6, <1>7 DEF Next, RuntimeStep, Command, vars, taskVars,
     Crash, LoseSettlement, RefuseInactive, LoadDocument, ReturnCurrent, MarkProcessing, Block,
     Publish, FailProcessing, ReinspectEarly, ReinspectBegin, ReinspectFail, Trash, Restore,
     Erase, RetryRefuse, RetryCheck

(* Keys of recovery commands, whatever becomes of the documents.           *)
LEMMA KeysStep ==
  ASSUME RInv, KeysUnused, [Next]_vars
  PROVE  KeysUnused'
<1>1. ASSUME NEW c \in Commands, reading'[c] # NoDoc
      PROVE  ~RetryWrite(c) /\ \A d \in Docs : tstatus[<<d, c>>] = "absent"
  <2>1. ~RetryWrite(c) /\ ~Crash
    BY <1>1 DEF RetryWrite, Crash, RInv, LInv, TypeOK
  <2>2. ASSUME NEW b \in Commands, NEW d \in Docs, RetryCheck(b, d)
        PROVE  \A e \in Docs : tstatus[<<e, c>>] = "absent"
    BY <1>1, <2>2 DEF RetryCheck, KeysUnused, RInv, LInv, TypeOK
  <2>3. ASSUME NEW b \in Commands, RetryWrite(b) \/ RetryRefuse(b)
        PROVE  reading[c] # NoDoc
    BY <1>1, <2>1, <2>3 DEF RetryWrite, RetryRefuse, RInv, LInv, TypeOK
  <2>4. CASE UNCHANGED reading
    BY <1>1, <2>1, <2>4 DEF KeysUnused
  <2>5. QED
    BY <2>1, <2>2, <2>3, <2>4 DEF KeysUnused, Next, RuntimeStep, Command, vars, Start,
       LoseSettlement, Claim, RefuseInactive, LoadDocument, ReturnCurrent, MarkProcessing, Block,
       Publish, FailProcessing, ReinspectEarly, ReinspectBegin, ReinspectFinish, ReinspectFail,
       SettleCompleted, SettleRetry, SettleDeadLetter, RequestReinspection, Upload, Trash,
       Restore, Erase
<1>2. KeysUnused'
  <2>1. ASSUME NEW c \in Commands, reading'[c] # NoDoc, NEW d \in Docs
        PROVE  tstatus'[<<d, c>>] = "absent"
    <3>1. <<d, c>> \in Tasks /\ KindOf(<<d, c>>) = c /\ c \notin Posted
      BY TaskFacts, PipelineConstants
    <3>2. QED
      BY <1>1, <2>1, <3>1, NewTasks DEF Posted
  <2>2. QED
    BY <2>1 DEF KeysUnused
<1>3. QED
  BY <1>2

(* The row of a document that stays, and its one follow-up task.           *)
LEMMA RowStep ==
  ASSUME NEW d \in Docs, SInv(d), [Next]_vars, Stays(d)
  PROVE  NotGone(d)' /\ FollowUpOnce(d)'
<1>1. NotGone(d)'
  <2>1. ASSUME NEW e \in Docs, Upload(e)
        PROVE  NotGone(d)'
    BY <2>1 DEF Upload, SInv, NotGone, RInv, LInv, TypeOK
  <2>2. ASSUME NEW e \in Docs, e # d, Trash(e) \/ Restore(e) \/ Erase(e)
        PROVE  NotGone(d)'
    BY <2>2 DEF Trash, Restore, Erase, SInv, NotGone, RInv, LInv, TypeOK
  <2>3. CASE UNCHANGED lifecycle
    BY <2>3 DEF SInv, NotGone
  <2>4. QED
    BY <2>1, <2>2, <2>3, StaysActive DEF Next, RuntimeStep, Command, vars, docVars, Start, Crash,
       LoseSettlement, Claim, RefuseInactive, LoadDocument, ReturnCurrent, MarkProcessing, Block,
       Publish, FailProcessing, ReinspectEarly, ReinspectBegin, ReinspectFinish, ReinspectFail,
       SettleCompleted, SettleRetry, SettleDeadLetter, RequestReinspection, RetryWrite,
       RetryRefuse, RetryCheck
<1>2. scanned[d] = "current" => scanned'[d] = "current"
  <2>1. ASSUME NEW e \in Docs, e # d, Erase(e)
        PROVE  scanned'[d] = scanned[d]
    BY <2>1 DEF Erase, SInv, RInv, LInv, TypeOK
  <2>2. QED
    BY <2>1, StaysActive DEF SInv, RInv, LInv, TypeOK, Next, RuntimeStep, Command, vars, docVars,
       Start, Crash, LoseSettlement, Claim, RefuseInactive, LoadDocument, ReturnCurrent,
       MarkProcessing, Block, Publish, FailProcessing, ReinspectEarly, ReinspectBegin,
       ReinspectFinish, ReinspectFail, SettleCompleted, SettleRetry, SettleDeadLetter,
       RequestReinspection, Upload, Trash, Restore, RetryWrite, RetryRefuse, RetryCheck
<1>3. ASSUME tstatus'[<<d, "after">>] # "absent"
      PROVE  scanned'[d] = "current"
  <2>1. <<d, "after">> \in Tasks /\ KindOf(<<d, "after">>) = "after" /\ "after" \notin Commands
    BY TaskFacts, PipelineConstants DEF Posted
  <2>2. CASE tstatus[<<d, "after">>] # "absent"
    BY <1>2, <2>2 DEF SInv, FollowUpOnce
  <2>3. CASE tstatus[<<d, "after">>] = "absent"
    <3>1. ReinspectFinish /\ d = doc
      BY <1>3, <2>1, <2>3, NewTasks DEF SInv
    <3>2. QED
      BY <3>1 DEF ReinspectFinish, SInv, RInv, LInv, TypeOK
  <2>4. QED
    BY <2>2, <2>3
<1>4. QED
  BY <1>1, <1>3 DEF FollowUpOnce

-----------------------------------------------------------------------------
(* It is not left without a task. *)

(* Steps that decide nothing about it and close no task of it.             *)
LEMMA TasksStayOpen ==
  ASSUME NEW d \in Docs, SInv(d), proc'[d] = proc[d], Active(d)' = Active(d),
         \A t \in Tasks : DocOf(t) = d /\ tstatus[t] \in Open => tstatus'[t] \in Open,
         Handling(d)' => Handling(d) /\ cur' = cur
  PROVE  Tended(d)' /\ LeavesDecided(d)'
<1>1. OpenTasks(d) \subseteq OpenTasks(d)'
  BY DEF OpenTasks
<1>2. Tended(d)'
  BY <1>1 DEF SInv, Tended
<1>3. LeavesDecided(d)'
  BY <1>1 DEF SInv, LeavesDecided, Decided
<1>4. QED
  BY <1>2, <1>3

LEMMA WaitingProcess ==
  ASSUME NEW d \in Docs, SInv(d), Stays(d),
         \/ RefuseInactive \/ LoadDocument \/ ReturnCurrent \/ MarkProcessing \/ FailProcessing
         \/ Block \/ Publish
  PROVE  Tended(d)' /\ LeavesDecided(d)'
<1>1. /\ doc \in Docs /\ doc' = doc /\ cur' = cur /\ Processing /\ Processing' /\ Busy
      /\ cur \in OpenTasks(doc) /\ tstatus' = tstatus /\ lifecycle' = lifecycle
  BY LoopTask DEF SInv, RInv, LInv, HoldsTask, Busy, RefuseInactive, LoadDocument, ReturnCurrent,
     MarkProcessing, FailProcessing, Block, Publish, Return, docVars, taskVars, doc, Processing,
     OpenTasks, Open
<1>2. OpenTasks(d)' = OpenTasks(d) /\ Active(d)' = Active(d)
  BY <1>1 DEF OpenTasks, Active
<1>3. CASE d # doc
  <2>1. proc'[d] = proc[d]
    BY <1>3 DEF RefuseInactive, LoadDocument, ReturnCurrent, MarkProcessing, FailProcessing,
       MarkedFailed, Block, Publish, docVars, SInv, RInv, LInv, TypeOK
  <2>2. QED
    BY <1>1, <1>2, <1>3, <2>1 DEF SInv, Tended, LeavesDecided, Handling
<1>4. CASE d = doc
  <2>1. Active(d) /\ ~RefuseInactive /\ cur \in OpenTasks(d)
    BY <1>1, <1>4, StaysActive
  <2>2. Tended(d)'
    BY <1>2, <2>1 DEF Tended
  <2>3. CASE LoadDocument
    BY <1>4, <2>2, <2>3 DEF LoadDocument, LeavesDecided, Handling, Decided, Waiting, docVars
  <2>4. CASE ReturnCurrent
    BY <1>1, <1>2, <1>4, <2>2, <2>4 DEF ReturnCurrent, AlreadyCurrent, SInv, LeavesDecided, Handling,
       Decided, docVars
  <2>5. CASE MarkProcessing
    BY <2>2, <2>5 DEF MarkProcessing, LeavesDecided, Handling
  <2>6. CASE FailProcessing \/ Block \/ Publish
    <3>1. proc'[d] \notin Waiting
      BY <1>4, <2>1, <2>6 DEF FailProcessing, MarkedFailed, Block, BlockedAs, Publish, Exists,
         Active, Waiting, SInv, RInv, LInv, TypeOK
    <3>2. QED
      BY <2>2, <3>1 DEF LeavesDecided, Decided
  <2>7. QED
    BY <2>1, <2>2, <2>3, <2>4, <2>5, <2>6
<1>5. QED
  BY <1>3, <1>4

LEMMA WaitingReinspect ==
  ASSUME NEW d \in Docs, SInv(d), Stays(d),
         ReinspectEarly \/ ReinspectBegin \/ ReinspectFinish \/ ReinspectFail
  PROVE  Tended(d)' /\ LeavesDecided(d)'
<1>1. /\ doc \in Docs /\ ~Processing' /\ Active(d)' = Active(d)
  BY LoopTask DEF ReinspectEarly, ReinspectBegin, ReinspectFinish, ReinspectFail, Return, docVars,
     Processing, SInv, RInv, LInv, HoldsTask, Busy, Active
<1>2. LeavesDecided(d)'
  BY <1>1 DEF LeavesDecided, Handling
<1>3. CASE ReinspectEarly \/ ReinspectBegin \/ ReinspectFail
  BY <1>2, <1>3 DEF ReinspectEarly, ReinspectBegin, ReinspectFail, docVars, taskVars, SInv,
     Tended, Active, OpenTasks
<1>4. CASE ReinspectFinish
  <2>1. OpenTasks(d) \subseteq OpenTasks(d)'
    BY <1>4, EnqueuedFacts DEF ReinspectFinish, SInv, RInv, LInv, OpenTasks
  <2>2. CASE d # doc
    <3>1. proc'[d] = proc[d]
      BY <1>4, <2>2 DEF ReinspectFinish, SInv, RInv, LInv, TypeOK
    <3>2. QED
      BY <1>1, <1>2, <2>1, <3>1 DEF SInv, Tended
  <2>3. CASE d = doc /\ Blocks(d)
    <3>1. proc'[d] \notin Waiting
      BY <1>4, <2>3 DEF ReinspectFinish, BlockedAs, Waiting, SInv, RInv, LInv, TypeOK
    <3>2. QED
      BY <1>2, <3>1 DEF Tended
  <2>4. CASE d = doc /\ ~Blocks(d)
    <3>1. <<d, "after">> \in Tasks /\ DocOf(<<d, "after">>) = d
          /\ KindOf(<<d, "after">>) # "reinspect"
      BY TaskFacts DEF Posted
    <3>2. tstatus[<<d, "after">>] = "absent"
      BY <1>4, <2>4 DEF ReinspectFinish, SInv, NoVerdictYet, FollowUpOnce
    <3>3. tstatus'[<<d, "after">>] = "pending"
      BY <1>4, <2>4, <3>1, <3>2, EnqueuedFacts DEF ReinspectFinish, FollowUp, SInv, RInv, LInv
    <3>4. <<d, "after">> \in OpenTasks(d)'
      BY <3>1, <3>3 DEF OpenTasks, Open, Claimable
    <3>5. QED
      BY <1>2, <3>4 DEF Tended
  <2>5. QED
    BY <2>2, <2>3, <2>4
<1>5. QED
  BY <1>3, <1>4

LEMMA WaitingSettled ==
  ASSUME NEW d \in Docs, SInv(d), SettleCompleted \/ SettleDeadLetter
  PROVE  Tended(d)' /\ LeavesDecided(d)'
<1>1. /\ doc \in Docs /\ cur \in Tasks /\ phase = "settling" /\ phase' = "idle"
      /\ Active(d)' = Active(d)
  BY LoopTask DEF SettleCompleted, SettleDeadLetter, GoIdle, docVars, SInv, RInv, Busy, Active
<1>2. LeavesDecided(d)'
  BY <1>1 DEF LeavesDecided, Handling
<1>3. \A t \in Tasks \ {cur} : tstatus'[t] = tstatus[t]
  BY DEF SettleCompleted, SettleDeadLetter, SInv, RInv, LInv, TypeOK
<1>4. OpenTasks(d) \ {cur} \subseteq OpenTasks(d)'
  BY <1>3 DEF OpenTasks
<1>5. d # doc \/ ~Processing => cur \notin OpenTasks(d)
  BY DEF OpenTasks, doc, Processing
<1>6. proc'[d] = proc[d] \/ proc'[d] \notin Waiting
  BY DEF SettleCompleted, SettleDeadLetter, docVars, SInv, RInv, LInv, TypeOK, Waiting
<1>7. ASSUME Active(d)', proc'[d] \in Waiting
      PROVE  OpenTasks(d)' # {}
  <2>1. Active(d) /\ proc[d] \in Waiting
    BY <1>1, <1>6, <1>7
  <2>2. CASE d = doc /\ Processing
    BY <1>1, <1>4, <2>1, <2>2 DEF SInv, LeavesDecided, Handling, Decided
  <2>3. CASE d # doc \/ ~Processing
    BY <1>4, <1>5, <2>1, <2>3 DEF SInv, Tended
  <2>4. QED
    BY <2>2, <2>3
<1>8. QED
  BY <1>2, <1>7 DEF Tended

(* A task posted for it while it waits.                                    *)
LEMMA TaskPosted ==
  ASSUME NEW d \in Docs, SInv(d), NEW t \in OpenTasks(d)', tstatus[t] = "absent",
         UNCHANGED runVars
  PROVE  Tended(d)' /\ LeavesDecided(d)'
<1>1. Tended(d)'
  BY DEF Tended
<1>2. ASSUME Handling(d)'
      PROVE  cur' # t
  BY <1>2, LoopTask DEF Handling, Busy, SInv, RInv, runVars
<1>3. LeavesDecided(d)'
  BY <1>2 DEF LeavesDecided, Decided
<1>4. QED
  BY <1>1, <1>3

LEMMA WaitingCommands ==
  ASSUME NEW d \in Docs, SInv(d),
         \/ \E e \in Docs : Upload(e) \/ RequestReinspection(e)
         \/ \E c \in Commands : RetryWrite(c)
  PROVE  Tended(d)' /\ LeavesDecided(d)'
<1>1. \A t \in Tasks : tstatus[t] \in Open => tstatus'[t] \in Open
  BY EnqueuedFacts DEF Upload, RequestReinspection, RetryWrite, SInv, RInv, LInv
<1>2. runVars' = runVars /\ (Handling(d)' => Handling(d) /\ cur' = cur)
  BY DEF Upload, RequestReinspection, RetryWrite, runVars, Handling, doc, Processing
<1>3. ASSUME NEW e \in Docs, RequestReinspection(e)
      PROVE  Tended(d)' /\ LeavesDecided(d)'
  BY <1>1, <1>2, <1>3, TasksStayOpen DEF RequestReinspection, Active
<1>4. ASSUME NEW e \in Docs, Upload(e), e # d
      PROVE  Tended(d)' /\ LeavesDecided(d)'
  <2>1. proc'[d] = proc[d] /\ Active(d)' = Active(d)
    BY <1>4 DEF Upload, Active, SInv, RInv, LInv, TypeOK
  <2>2. QED
    BY <1>1, <1>2, <2>1, TasksStayOpen
<1>5. ASSUME Upload(d)
      PROVE  Tended(d)' /\ LeavesDecided(d)'
  <2>1. <<d, "process">> \in Tasks /\ DocOf(<<d, "process">>) = d
        /\ KindOf(<<d, "process">>) # "reinspect"
    BY TaskFacts DEF Posted
  <2>2. tstatus[<<d, "process">>] = "absent" /\ tstatus'[<<d, "process">>] = "pending"
    BY <1>5, <2>1, EnqueuedFacts DEF Upload, SInv, RInv, LInv, NoRowNoTask
  <2>3. <<d, "process">> \in OpenTasks(d)'
    BY <2>1, <2>2 DEF OpenTasks, Open, Claimable
  <2>4. QED
    BY <1>2, <2>2, <2>3, TaskPosted
<1>6. ASSUME NEW c \in Commands, RetryWrite(c)
      PROVE  Tended(d)' /\ LeavesDecided(d)'
  <2>1. CASE reading[c] = d /\ Exists(d)
    <3>1. <<d, c>> \in Tasks /\ DocOf(<<d, c>>) = d /\ KindOf(<<d, c>>) # "reinspect"
          /\ tstatus[<<d, c>>] = "absent"
      BY <1>6, <2>1, TaskFacts, PipelineConstants DEF RetryWrite, SInv, KeysUnused, Posted
    <3>2. tstatus'[<<d, c>>] = "pending"
      BY <1>6, <2>1, <3>1, EnqueuedFacts DEF RetryWrite, SInv, RInv, LInv
    <3>3. <<d, c>> \in OpenTasks(d)'
      BY <3>1, <3>2 DEF OpenTasks, Open, Claimable
    <3>4. QED
      BY <1>2, <3>1, <3>3, TaskPosted
  <2>2. CASE ~(reading[c] = d /\ Exists(d))
    <3>1. proc'[d] = proc[d] /\ Active(d)' = Active(d)
      BY <1>6, <2>2 DEF RetryWrite, Active, SInv, RInv, LInv, TypeOK
    <3>2. QED
      BY <1>1, <1>2, <3>1, TasksStayOpen
  <2>3. QED
    BY <2>1, <2>2
<1>7. QED
  BY <1>3, <1>4, <1>5, <1>6

LEMMA WaitingStep ==
  ASSUME NEW d \in Docs, SInv(d), [Next]_vars, Stays(d)
  PROVE  Tended(d)' /\ LeavesDecided(d)'
<1>1. CASE Start
  <2>1. \A t \in Tasks : tstatus[t] \in Open => tstatus'[t] \in Open
    BY <1>1 DEF Start, Enqueued, Open, Claimable
  <2>2. QED
    BY <1>1, <2>1, TasksStayOpen DEF Start, docVars, Handling, Active
<1>2. CASE SettleRetry \/ \E t \in Tasks : Claim(t)
  <2>1. \A t \in Tasks : tstatus[t] \in Open => tstatus'[t] \in Open
    BY <1>2 DEF SettleRetry, Claim, Open, Claimable, SInv, RInv, LInv, TypeOK
  <2>2. ~Handling(d)'
    BY <1>2 DEF SettleRetry, Claim, GoIdle, Handling
  <2>3. QED
    BY <1>2, <2>1, <2>2, TasksStayOpen DEF SettleRetry, Claim, docVars, Active
<1>3. CASE \/ Crash \/ LoseSettlement \/ UNCHANGED vars
           \/ \E c \in Commands : RetryRefuse(c) \/ \E e \in Docs : RetryCheck(c, e)
  BY <1>3, TasksStayOpen DEF Crash, LoseSettlement, GoIdle, RetryRefuse, RetryCheck, vars, docVars,
     taskVars, runVars, Handling, Active, doc, Processing
<1>4. ASSUME NEW e \in Docs, e # d, Trash(e) \/ Restore(e) \/ Erase(e)
      PROVE  Tended(d)' /\ LeavesDecided(d)'
  <2>1. proc'[d] = proc[d] /\ Active(d)' = Active(d) /\ tstatus' = tstatus /\ runVars' = runVars
    BY <1>4 DEF Trash, Restore, Erase, taskVars, Active, SInv, RInv, LInv, TypeOK
  <2>2. QED
    BY <2>1, TasksStayOpen DEF runVars, Handling, doc, Processing
<1>5. QED
  BY <1>1, <1>2, <1>3, <1>4, WaitingProcess, WaitingReinspect, WaitingSettled, WaitingCommands,
     StaysActive DEF Next, RuntimeStep, Command

-----------------------------------------------------------------------------
(* Its verdict stands. *)

(* A step outside the loop leaves what the loop relies on.                 *)
LEMMA VerdictBeside ==
  ASSUME NEW d \in Docs, SInv(d), UNCHANGED runVars, scanned'[d] = scanned[d],
         control[d] # "completed" => control'[d] # "completed"
  PROVE  HeldVerdict(d)' /\ NoVerdictYet(d)'
  BY DEF SInv, HeldVerdict, NoVerdictYet, runVars, doc, Processing

LEMMA VerdictLoop ==
  ASSUME NEW d \in Docs, SInv(d), Stays(d), RuntimeStep \/ Start \/ Crash \/ LoseSettlement
  PROVE  HeldVerdict(d)' /\ NoVerdictYet(d)'
<1>1. CASE \/ Start \/ Crash \/ LoseSettlement \/ SettleCompleted \/ SettleRetry
           \/ SettleDeadLetter \/ \E t \in Tasks : Claim(t)
  BY <1>1 DEF Start, Crash, LoseSettlement, SettleCompleted, SettleRetry, SettleDeadLetter, Claim,
     GoIdle, HeldVerdict, NoVerdictYet
<1>2. CASE RefuseInactive \/ ReturnCurrent \/ FailProcessing \/ Block \/ Publish
  BY <1>2 DEF RefuseInactive, ReturnCurrent, FailProcessing, Block, Publish, Return, SInv, RInv,
     LInv, HoldsTask, Processing, HeldVerdict, NoVerdictYet
<1>3. CASE LoadDocument \/ MarkProcessing
  BY <1>3 DEF LoadDocument, MarkProcessing, docVars, SInv, doc, HeldVerdict, NoVerdictYet
<1>4. CASE ReinspectEarly
  BY <1>4, StaysActive DEF ReinspectEarly, Return, Reinspected, docVars, Busy, doc, Failures,
     HeldVerdict, NoVerdictYet
<1>5. CASE ReinspectBegin \/ ReinspectFinish
  BY <1>5 DEF ReinspectBegin, ReinspectFinish, Return, doc, Failures, HeldVerdict, NoVerdictYet
<1>6. CASE ReinspectFail
  BY <1>6 DEF ReinspectFail, Return, docVars, SInv, RInv, VerdictScanned, doc, HeldVerdict,
     NoVerdictYet
<1>7. QED
  BY <1>1, <1>2, <1>3, <1>4, <1>5, <1>6 DEF RuntimeStep

LEMMA VerdictStep ==
  ASSUME NEW d \in Docs, SInv(d), [Next]_vars, Stays(d)
  PROVE  HeldVerdict(d)' /\ NoVerdictYet(d)'
<1>1. ASSUME NEW e \in Docs, \/ RequestReinspection(e)
                             \/ e # d /\ (Trash(e) \/ Restore(e) \/ Erase(e))
      PROVE  HeldVerdict(d)' /\ NoVerdictYet(d)'
  BY <1>1, VerdictBeside DEF RequestReinspection, Trash, Restore, Erase, SInv, RInv, LInv, TypeOK
<1>2. CASE \/ UNCHANGED vars
           \/ \E e \in Docs : Upload(e)
           \/ \E c \in Commands : \/ RetryWrite(c) \/ RetryRefuse(c)
                                   \/ \E e \in Docs : RetryCheck(c, e)
  BY <1>2, VerdictBeside DEF Upload, RetryWrite, RetryRefuse, RetryCheck, vars, docVars
<1>3. QED
  BY <1>1, <1>2, VerdictLoop, StaysActive DEF Next, Command

LEMMA SInvStep ==
  ASSUME NEW d \in Docs, SInv(d), [Next]_vars, [Stays(d)]_vars
  PROVE  SInv(d)'
<1>1. Stays(d)
  BY DEF vars, docVars, Stays
<1>2. QED
  BY <1>1, RInvStep, KeysStep, RowStep, WaitingStep, VerdictStep DEF SInv

(* A run that trashes nothing keeps every document.                        *)
LEMMA NothingTrashed == MaxTrash = 0 /\ Spec => [][\A d \in Docs : Stays(d)]_vars
<1>1. ASSUME MaxTrash = 0, LInv, [Next]_vars, NEW d \in Docs
      PROVE  Stays(d)
  <2>1. \A e \in Docs : ~Trash(e) /\ ~Erase(e)
    BY <1>1 DEF LInv, TypeOK, Trash, Erase
  <2>2. ASSUME NEW e \in Docs, Upload(e) \/ Restore(e)
        PROVE  Stays(d)
    BY <1>1, <2>2 DEF Upload, Restore, Stays, LInv, TypeOK
  <2>3. CASE UNCHANGED lifecycle
    BY <2>3 DEF Stays
  <2>4. QED
    BY <1>1, <2>1, <2>2, <2>3 DEF Next, RuntimeStep, Command, vars, docVars, Start, Crash,
       LoseSettlement, Claim, RefuseInactive, LoadDocument, ReturnCurrent, MarkProcessing, Block,
       Publish, FailProcessing, ReinspectEarly, ReinspectBegin, ReinspectFinish, ReinspectFail,
       SettleCompleted, SettleRetry, SettleDeadLetter, RequestReinspection, RetryWrite,
       RetryRefuse, RetryCheck
<1>2. CASE MaxTrash = 0
  <2>1. LInv /\ [Next]_vars => [\A d \in Docs : Stays(d)]_vars
    BY <1>1, <1>2
  <2>2. QED
    BY <2>1, InitLInv, LoopStep, PTL DEF Spec
<1>3. QED
  BY <1>2

(* A document that is not trashed or erased and waits for processing has a *)
(* task that will process it, whatever crashes, lost settlements,          *)
(* reinspections and manual retries come in between, and whatever becomes  *)
(* of the other documents.                                                 *)
THEOREM NeverOrphaned ==
  ASSUME NEW d \in Docs
  PROVE  Spec /\ [][Stays(d)]_vars => []Tended(d)
<1>1. SInv(d) /\ [Next]_vars /\ [Stays(d)]_vars => SInv(d)'
  BY SInvStep
<1>2. SInv(d) => Tended(d)
  BY DEF SInv
<1>3. Init => SInv(d)
  BY InitSInv
<1>4. QED
  BY <1>1, <1>2, <1>3, PTL DEF Spec

(* Where nothing is trashed or erased, no document is orphaned.            *)
THEOREM NothingOrphaned == MaxTrash = 0 /\ Spec => []NoOrphan
<1> DEFINE AllKept == \A d \in Docs : Stays(d)
           AllSInv == \A d \in Docs : SInv(d)
<1>1. AllSInv /\ [Next]_vars /\ [AllKept]_vars => AllSInv'
  BY SInvStep
<1>2. AllSInv => NoOrphan
  BY DEF SInv, Tended, NoOrphan
<1>3. Init => AllSInv
  BY InitSInv
<1>4. QED
  BY <1>1, <1>2, <1>3, NothingTrashed, PTL DEF Spec

(* The reinspection of a document, once it has reached its verdict, is not *)
(* undone by a step that leaves the document where it is.                  *)
LEMMA VerdictKept ==
  ASSUME NEW d \in Docs, SInv(d), [Next]_vars, Stays(d), control[d] = "completed"
  PROVE  control'[d] = "completed"
<1>1. CASE Block \/ Publish
  BY <1>1 DEF Block, Publish, SInv, RInv, LInv, TypeOK, HeldVerdict
<1>2. CASE ReinspectBegin \/ ReinspectFinish
  BY <1>2 DEF ReinspectBegin, ReinspectFinish, Reinspected, SInv, RInv, LInv, TypeOK
<1>3. CASE SettleDeadLetter
  BY <1>3 DEF SettleDeadLetter, Projects, SInv, RInv, LInv, TypeOK, NoVerdictYet
<1>4. ASSUME NEW e \in Docs, RequestReinspection(e)
      PROVE  control'[d] = "completed"
  BY <1>4 DEF RequestReinspection, SInv, RInv, LInv, TypeOK, VerdictScanned
<1>5. ASSUME NEW e \in Docs, e # d, Erase(e)
      PROVE  control'[d] = "completed"
  BY <1>5 DEF Erase, SInv, RInv, LInv, TypeOK
<1>6. CASE UNCHANGED control
  BY <1>6
<1>7. QED
  BY <1>1, <1>2, <1>3, <1>4, <1>5, <1>6, StaysActive DEF Next, RuntimeStep, Command, vars, docVars,
     Start, Crash, LoseSettlement, Claim, RefuseInactive, LoadDocument, ReturnCurrent,
     MarkProcessing, FailProcessing, ReinspectEarly, ReinspectFail, SettleCompleted, SettleRetry,
     Upload, Trash, Restore, RetryWrite, RetryRefuse, RetryCheck

(* A reinspection that reached its verdict is not turned into a failed     *)
(* one, by a redelivery or by a handler that writes back the details it    *)
(* had loaded, as long as its document is not trashed or erased.           *)
THEOREM VerdictOfOne ==
  ASSUME NEW d \in Docs
  PROVE  Spec /\ [][Stays(d)]_vars
           => [][control[d] = "completed" => control'[d] = "completed"]_vars
<1>1. SInv(d) /\ [Next]_vars /\ [Stays(d)]_vars => SInv(d)'
  BY SInvStep
<1>2. SInv(d) /\ [Next]_vars /\ [Stays(d)]_vars
        => [control[d] = "completed" => control'[d] = "completed"]_vars
  BY VerdictKept
<1>3. Init => SInv(d)
  BY InitSInv
<1>4. QED
  BY <1>1, <1>2, <1>3, PTL DEF Spec

(* Where nothing is trashed or erased, all verdicts stand.                 *)
THEOREM VerdictsStand == MaxTrash = 0 /\ Spec => VerdictStands
<1> DEFINE AllKept == \A d \in Docs : Stays(d)
           AllSInv == \A d \in Docs : SInv(d)
<1>1. AllSInv /\ [Next]_vars /\ [AllKept]_vars => AllSInv'
  BY SInvStep
<1>2. AllSInv /\ [Next]_vars /\ [AllKept]_vars
        => [\A d \in Docs : control[d] = "completed" => control'[d] = "completed"]_vars
  BY VerdictKept
<1>3. Init => AllSInv
  BY InitSInv
<1>4. QED
  BY <1>1, <1>2, <1>3, NothingTrashed, PTL DEF Spec, VerdictStands
=============================================================================
