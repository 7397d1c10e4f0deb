-------------------------------- MODULE Goals --------------------------------
(***************************************************************************)
(* Learning goals: drafts, previews, the plans they turn into, the         *)
(* activities of a plan, the focus, and the evidence for an achievement.   *)
(*                                                                         *)
(* Every table is an append-only stream whose primary key is id:version.   *)
(* On SQLite the reads of a command come before its transaction, which     *)
(* opens at its first write; a stream that another command has advanced    *)
(* makes that write collide.  A command that decides on streams it does    *)
(* not write is therefore a read and a write step (a request in req);      *)
(* every other one is a single step.  Versions named by the client, and    *)
(* idempotency keys, only turn a command into a refusal or a replay.       *)
(***************************************************************************)
EXTENDS Integers, Sequences, FiniteSets

CONSTANTS
    Goals,         \* goal ids
    Drafts,        \* draft ids
    GoalOf,        \* the goal of a draft
    Initial,       \* the draft a goal starts from; the others are edits
    Requests,      \* commands in flight
    NoGoal,
    Width,         \* activities of a plan
    MaxRows,       \* bound: rows of each draft
    MaxPlans,      \* bound: plans of a goal
    MaxDiagnosed,  \* bound: version of the last plan a diagnostic makes
    MaxDefinitions \* bound: definitions of a goal

ASSUME GoalConstants ==
    /\ NoGoal \notin Goals
    /\ GoalOf \in [Drafts -> Goals]
    /\ Initial \in [Goals -> Drafts]
    /\ \A g \in Goals : GoalOf[Initial[g]] = g
    /\ Width \in Nat \ {0}
    /\ MaxRows \in [Drafts -> Nat] /\ MaxPlans \in Nat /\ MaxDiagnosed \in 0 .. MaxPlans /\ MaxDefinitions \in Nat

VARIABLES
    goal,    \* latest LearningGoalState: status, defn, and the plan it names
    plans,   \* plan records of a goal, with the latest LearningPlanState and
             \* the latest LearningActivityState of each activity
    focus,   \* latest FocusedLearningGoalState
    rows,    \* statuses of the rows of a draft
    pinned,  \* the active activity that a draft's latest preview pins
    proof,   \* goal assessment of each definition
    verdict, \* eligibility in the latest achievement evaluation
    req      \* commands between their reads and their writes

tables == <<goal, plans, focus, rows, pinned, proof, verdict>>
vars   == <<tables, req>>

GoalStatuses == {"none", "active", "paused", "archived", "achieved"}
Terminal     == {"archived", "achieved"}
PlanStatuses == {"active", "completed", "superseded"}
PlanStates   == {"none", "active", "paused", "completed", "superseded"}
ActStatuses  == {"planned", "available", "active", "completed", "superseded"}
RowStatuses  == {"draft", "preview_ready", "approved_pending_boundary", "applied"}
Proofs       == {"none", "open", "passed"}

Acts    == 1 .. Width
NoAct   == <<0, 0>>
Plan    == [status : PlanStatuses, state : PlanStates, open : BOOLEAN,
            acts : [Acts -> ActStatuses]]
ActRefs == (Nat \X Acts) \cup {NoAct}

Idle     == [cmd |-> "idle"]
Commands ==
    {Idle}
    \cup [cmd : {"start", "select", "complete", "advance", "archive", "achieve"},
          g : Goals, at : ActRefs]
    \cup [cmd : {"apply"}, d : Drafts, row : Nat, defn : Nat]

DraftsOf(g) == {d \in Drafts : GoalOf[d] = g}
LastRow(d)  == rows[d][Len(rows[d])]
Act(g, at)  == plans[g][at[1]].acts[at[2]]

(* The newest plan record that is active, 0 if there is none.              *)
Newest(ps) ==
    LET active == {v \in DOMAIN ps : ps[v].status = "active"}
    IN  IF active = {} THEN 0 ELSE CHOOSE v \in active : \A w \in active : w <= v
Current(g) == Newest(plans[g])

(* _active_activity_ref: an active activity of that plan, if it has one.   *)
ActiveRefs(g) ==
    LET v == Current(g)
        running == IF v = 0 THEN {}
                   ELSE {<<v, a>> : a \in {b \in Acts : plans[g][v].acts[b] = "active"}}
    IN  IF running = {} THEN {NoAct} ELSE running

FirstOf(S) == CHOOSE a \in S : \A b \in S : a <= b
Planned(g, v) == {a \in Acts : plans[g][v].acts[a] = "planned"}

-----------------------------------------------------------------------------
Init ==
    /\ goal    = [g \in Goals |-> [status |-> "none", defn |-> 0, plan |-> 0]]
    /\ plans   = [g \in Goals |-> <<>>]
    /\ focus   = NoGoal
    /\ rows    = [d \in Drafts |-> <<>>]
    /\ pinned  = [d \in Drafts |-> NoAct]
    /\ proof   = [g \in Goals |-> [n \in 1 .. MaxDefinitions |-> "none"]]
    /\ verdict = [g \in Goals |-> FALSE]
    /\ req     = [r \in Requests |-> Idle]

Open(r, c) == req[r] = Idle /\ req' = [req EXCEPT ![r] = c]
Close(r)   == req' = [req EXCEPT ![r] = Idle]

(* The row after row i of the draft, whose key nobody has taken.           *)
BadFree(d, i) == TRUE   \* no key on draft and version
Free(d, i) == i = Len(rows[d])

SaveDraft(d, status) ==
    /\ Len(rows[d]) < MaxRows[d]
    /\ rows' = [rows EXCEPT ![d] = Append(@, status)]

SetAct(g, at, status) ==
    plans' = [plans EXCEPT ![g][at[1]].acts[at[2]] = status]

-----------------------------------------------------------------------------
(* Drafts and previews.                                                    *)

(* create_draft, and copy_archived_goal, which does it for a new goal.     *)
CreateDraft(g) ==
    /\ rows[Initial[g]] = <<>>
    /\ SaveDraft(Initial[g], "draft")
    /\ UNCHANGED <<goal, plans, focus, pinned, proof, verdict, req>>

(* create_edit_draft: of a goal in any state, the ended ones included.     *)
CreateEditDraft(d) ==
    /\ d # Initial[GoalOf[d]]
    /\ rows[d] = <<>>
    /\ goal[GoalOf[d]].status # "none"
    /\ SaveDraft(d, "draft")
    /\ UNCHANGED <<goal, plans, focus, pinned, proof, verdict, req>>

UpdateDraft(d) ==
    /\ rows[d] # <<>> /\ LastRow(d) # "applied"
    /\ SaveDraft(d, "draft")
    /\ UNCHANGED <<goal, plans, focus, pinned, proof, verdict, req>>

(* preview_draft: of a draft in any state; it pins the active activity.    *)
PreviewDraft(d) ==
    /\ rows[d] # <<>>
    /\ SaveDraft(d, "preview_ready")
    /\ \E at \in ActiveRefs(GoalOf[d]) : pinned' = [pinned EXCEPT ![d] = at]
    /\ UNCHANGED <<goal, plans, focus, proof, verdict, req>>

(* apply_draft, its checks.  An expired preview is one never applied.      *)
ReadApply(r, d) ==
    /\ rows[d] # <<>> /\ LastRow(d) = "preview_ready"
    /\ pinned[d] \in ActiveRefs(GoalOf[d])
    /\ Open(r, [cmd |-> "apply", d |-> d, row |-> Len(rows[d]),
                defn |-> goal[GoalOf[d]].defn])
    /\ UNCHANGED tables

-----------------------------------------------------------------------------
(* Plans.                                                                  *)

(* LearningPlanRepository.save supersedes the newest active record.        *)
BadRetired(ps) == ps   \* leaves it active
Retired(ps) ==
    [v \in DOMAIN ps |-> IF v = Newest(ps) THEN [ps[v] EXCEPT !.status = "superseded"]
                         ELSE ps[v]]
AddPlan(ps, state, open, acts) ==
    Append(Retired(ps), [status |-> "active", state |-> state, open |-> open, acts |-> acts])

(* _require_goal_active, inside select_next.                               *)
BadMayPlan(g) == TRUE   \* select_next does not look at the goal
MayPlan(g) == goal[g].status \in {"none", "active"}

(* The definition a change makes, with its mapping and subgraph.           *)
NextDefinition(g) == goal[g].defn + 1

(* _apply_now: definition, mapping, plan, its first activity, goal and     *)
(* plan state, focus, draft.  Nothing is known of the learner's mastery,   *)
(* so the plan asks for diagnostics only, which complete refuses.          *)
ApplyNow(g, d, ps, set_focused) ==
    /\ MayPlan(g)
    /\ goal[g].defn < MaxDefinitions /\ Len(ps) < MaxPlans
    /\ plans' = [plans EXCEPT ![g] = AddPlan(ps, "active", FALSE,
                   [a \in Acts |-> IF a = 1 THEN "available" ELSE "planned"])]
    /\ goal' = [goal EXCEPT ![g] = [status |-> "active", defn |-> NextDefinition(g),
                                    plan |-> Len(ps) + 1]]
    /\ focus' = IF set_focused THEN g ELSE focus
    /\ SaveDraft(d, "applied")
    /\ UNCHANGED <<pinned, proof, verdict>>

(* apply_draft, its transaction: the draft's next row and the goal's next  *)
(* definition must be free.  A preview that pins an activity waits for its *)
(* end, unless the client switches now; then it must still be active.      *)
Approve(r) ==
    /\ req[r].cmd = "apply" /\ pinned[req[r].d] # NoAct
    /\ Free(req[r].d, req[r].row)
    /\ SaveDraft(req[r].d, "approved_pending_boundary")
    /\ Close(r)
    /\ UNCHANGED <<goal, plans, focus, pinned, proof, verdict>>

CommitApply(r) ==
    LET d == req[r].d  g == GoalOf[d]  at == pinned[d] IN
    /\ req[r].cmd = "apply"
    /\ Free(d, req[r].row) /\ goal[g].defn = req[r].defn
    /\ at # NoAct => Act(g, at) = "active"
    /\ \E set_focused \in BOOLEAN :
         ApplyNow(g, d,
                  IF at = NoAct THEN plans[g]
                  ELSE [plans[g] EXCEPT ![at[1]].acts[at[2]] = "superseded"],
                  set_focused)
    /\ Close(r)

(* diagnostic_bootstrap._generate_plan: a plan for a confirmed mapping,    *)
(* whatever has become of the goal; mastery is known, so its activities    *)
(* may be such as complete takes (a plan with none only stalls earlier).   *)
DiagnosticPlan(g) ==
    /\ goal[g].defn > 0 /\ Len(plans[g]) < MaxDiagnosed
    /\ plans' = [plans EXCEPT ![g] = AddPlan(@, "none", TRUE, [a \in Acts |-> "planned"])]
    /\ UNCHANGED <<goal, focus, rows, pinned, proof, verdict, req>>

-----------------------------------------------------------------------------
(* The life of a goal.                                                     *)

(* _transition_goal: next state of the goal and of the plan it names, and  *)
(* a focus on it is cleared unless it becomes active.                      *)
BadClears == Terminal   \* forgets pause
Clears == Terminal \cup {"paused"}
Transition(g, ps, status, state) ==
    /\ goal' = [goal EXCEPT ![g].status = status]
    /\ plans' = [plans EXCEPT ![g] = [ps EXCEPT ![goal[g].plan].state = state]]
    /\ focus' = IF status \in Clears /\ focus = g THEN NoGoal ELSE focus
    /\ UNCHANGED <<rows, pinned, proof, verdict>>

PauseGoal(g) ==
    /\ goal[g].status = "active"
    /\ Transition(g, plans[g], "paused", "paused")
    /\ UNCHANGED req

(* resume_goal; it refuses when a source or its mapping has changed.       *)
ResumeGoal(g) ==
    /\ goal[g].status = "paused"
    /\ Transition(g, plans[g], "active", "active")
    /\ UNCHANGED req

(* archive_goal and confirm_goal_achievement look for an active activity   *)
(* first and end it together with the goal.  The confirmation reads the    *)
(* latest evaluation, not the definition it was made for.                  *)
ReadArchive(r, g) ==
    /\ goal[g].status \in {"active", "paused"}
    /\ \E at \in ActiveRefs(g) : Open(r, [cmd |-> "archive", g |-> g, at |-> at])
    /\ UNCHANGED tables

ReadAchieve(r, g) ==
    /\ verdict[g]
    /\ \E at \in ActiveRefs(g) : Open(r, [cmd |-> "achieve", g |-> g, at |-> at])
    /\ UNCHANGED tables

MayEnd(g, cmd) ==
    IF cmd = "archive" THEN goal[g].status \in {"active", "paused"}
    ELSE goal[g].status = "active"
CommitEnd(r) ==
    LET g == req[r].g  at == req[r].at  archive == req[r].cmd = "archive" IN
    /\ req[r].cmd \in {"archive", "achieve"}
    /\ MayEnd(g, req[r].cmd)
    /\ at # NoAct => Act(g, at) = "active"
    /\ Transition(g,
                  IF at = NoAct THEN plans[g]
                  ELSE [plans[g] EXCEPT ![at[1]].acts[at[2]] = "superseded"],
                  IF archive THEN "archived" ELSE "achieved",
                  IF archive THEN "superseded" ELSE "completed")
    /\ Close(r)

(* Evidence.  One assessment stands for the criteria of a definition.  It  *)
(* stays open when its scoring fails, asks for a review, or finds against  *)
(* the learner: then it is settled and stays like that for good.           *)
ScheduleAssessments(g) ==
    /\ goal[g].status = "active"
    /\ proof[g][goal[g].defn] = "none"
    /\ proof' = [proof EXCEPT ![g][goal[g].defn] = "open"]
    /\ UNCHANGED <<goal, plans, focus, rows, pinned, verdict, req>>

SubmitAssessment(g, n) ==
    /\ goal[g].status = "active"
    /\ proof[g][n] = "open"
    /\ proof' = [proof EXCEPT ![g][n] = "passed"]
    /\ UNCHANGED <<goal, plans, focus, rows, pinned, verdict, req>>

(* evaluate_goal_achievement; an active misconception withholds it too.    *)
BadSatisfied(g) == proof[g][goal[g].defn] # "none"   \* scheduled is enough
Satisfied(g) == proof[g][goal[g].defn] = "passed"
EvaluateAchievement(g) ==
    /\ goal[g].status = "active"
    /\ \E ok \in {FALSE, Satisfied(g)} :
         verdict' = [verdict EXCEPT ![g] = ok]
    /\ UNCHANGED <<goal, plans, focus, rows, pinned, proof, req>>

-----------------------------------------------------------------------------
(* Activities.                                                             *)

(* select_next: nothing available or active in the current plan, so the    *)
(* first planned activity becomes available.                               *)
ReadSelect(r, g) ==
    LET v == Current(g) IN
    /\ goal[g].status = "active" /\ v # 0
    /\ \A a \in Acts : plans[g][v].acts[a] \notin {"available", "active"}
    /\ Planned(g, v) # {}
    /\ Open(r, [cmd |-> "select", g |-> g, at |-> <<v, FirstOf(Planned(g, v))>>])
    /\ UNCHANGED tables

Executable(g, v) == goal[g].status = "active" /\ plans[g][v].status = "active"
ReadStart(r, g) ==
    /\ \E v \in DOMAIN plans[g], a \in Acts :
         /\ Executable(g, v) /\ plans[g][v].acts[a] = "available"
         /\ Open(r, [cmd |-> "start", g |-> g, at |-> <<v, a>>])
    /\ UNCHANGED tables

ReadComplete(r, g) ==
    /\ \E v \in DOMAIN plans[g], a \in Acts :
         /\ Executable(g, v) /\ plans[g][v].acts[a] = "active"
         /\ plans[g][v].open
         /\ Open(r, [cmd |-> "complete", g |-> g, at |-> <<v, a>>])
    /\ UNCHANGED tables

(* The append of the activity's next state, which commits on its own: it   *)
(* is the transaction's first statement and stands in a savepoint, and     *)
(* SQLite commits when the outermost savepoint is released.                *)
BadTo == [select |-> "available", start |-> "running", complete |-> "completed"]   \* no such status
From == [select |-> "planned", start |-> "available", complete |-> "active"]
To   == [select |-> "available", start |-> "active", complete |-> "completed"]
AppendState(r) ==
    LET c == req[r] IN
    /\ c.cmd \in DOMAIN From
    /\ Act(c.g, c.at) = From[c.cmd]
    /\ SetAct(c.g, c.at, To[c.cmd])
    /\ IF c.cmd = "complete" THEN req' = [req EXCEPT ![r].cmd = "advance"] ELSE Close(r)
    /\ UNCHANGED <<goal, focus, rows, pinned, proof, verdict>>

(* apply_pending_at_boundary: of all rows that ever waited for a boundary, *)
(* the one with the highest version; it is never taken off the list.       *)
WaitingRows(d) == {i \in DOMAIN rows[d] : rows[d][i] = "approved_pending_boundary"}
Waiting(g) == UNION {{<<d, i>> : i \in WaitingRows(d)} : d \in DraftsOf(g)}
ApplyPending(r) ==
    /\ req[r].cmd = "advance"
    /\ \E p \in Waiting(req[r].g) :
         /\ \A q \in Waiting(req[r].g) : q[2] <= p[2]
         /\ Free(p[1], p[2])
         /\ ApplyNow(req[r].g, p[1], plans[req[r].g], FALSE)
    /\ Close(r)

(* The rest of complete when nothing waits: the next planned activity      *)
(* becomes available, or the plan is completed if all is done.             *)
Advance(r) ==
    LET g == req[r].g  v == req[r].at[1]
        later == {a \in Planned(g, v) : a > req[r].at[2]}
        done == \A a \in Acts : plans[g][v].acts[a] \in {"completed", "superseded"}
    IN
    /\ req[r].cmd = "advance" /\ Waiting(g) = {}
    /\ plans' = IF later # {} THEN [plans EXCEPT ![g][v].acts[FirstOf(later)] = "available"]
                ELSE IF done THEN [plans EXCEPT ![g][v].status = "completed"]
                ELSE plans
    /\ Close(r)
    /\ UNCHANGED <<goal, focus, rows, pinned, proof, verdict>>

(* The command fails: a key is taken, a check fails, the client or the     *)
(* server goes away.  What it had not committed is gone.                   *)
Drop(r) == req[r] # Idle /\ Close(r) /\ UNCHANGED tables

Next ==
    \/ \E g \in Goals :
         \/ CreateDraft(g) \/ PauseGoal(g) \/ ResumeGoal(g)
         \/ ScheduleAssessments(g) \/ EvaluateAchievement(g) \/ DiagnosticPlan(g)
         \/ \E n \in 1 .. MaxDefinitions : SubmitAssessment(g, n)
    \/ \E d \in Drafts : CreateEditDraft(d) \/ UpdateDraft(d) \/ PreviewDraft(d)
    \/ \E r \in Requests :
         \/ \E d \in Drafts : ReadApply(r, d)
         \/ \E g \in Goals : \/ ReadArchive(r, g) \/ ReadAchieve(r, g)
                             \/ ReadSelect(r, g) \/ ReadStart(r, g) \/ ReadComplete(r, g)
         \/ Approve(r) \/ CommitApply(r) \/ CommitEnd(r)
         \/ AppendState(r) \/ ApplyPending(r) \/ Advance(r) \/ Drop(r)

Spec == Init /\ [][Next]_vars

-----------------------------------------------------------------------------
TypeOK ==
    /\ goal    \in [Goals -> [status : GoalStatuses, defn : Nat, plan : Nat]]
    /\ plans   \in [Goals -> Seq(Plan)]
    /\ focus   \in Goals \cup {NoGoal}
    /\ rows    \in [Drafts -> Seq(RowStatuses)]
    /\ pinned  \in [Drafts -> ActRefs]
    /\ proof   \in [Goals -> [1 .. MaxDefinitions -> Proofs]]
    /\ verdict \in [Goals -> BOOLEAN]
    /\ req     \in [Requests -> Commands]

(* GOAL-041, section 1: archived and achieved are final.  No draft, edit   *)
(* or approved change of an ended goal, no late pause and no command that  *)
(* had read the goal before it ended brings it back or re-plans it.        *)
TerminalGoal ==
    [][\A g \in Goals : goal[g].status \in Terminal => goal'[g] = goal[g]]_vars

(* GOAL-032 for the plan records: however applies, diagnostics, boundaries *)
(* and completions overlap, at most one is active, and a newer one has     *)
(* always taken its place before it stops being the newest.                *)
OneCurrentPlan ==
    \A g \in Goals : \A v \in DOMAIN plans[g] :
        plans[g][v].status = "active" => v = Len(plans[g])

(* GOAL-033: the focus is only ever on an active goal, whichever commands  *)
(* were under way when it stopped being active.                            *)
FocusIsActive == focus # NoGoal => goal[focus].status = "active"

(* A preview is approved, and applied, at most once: between two approvals *)
(* or applications of a draft lies a preview, however clicks, boundaries   *)
(* and retries interleave.                                                 *)
EachPreviewOnce ==
    \A d \in Drafts : \A j \in DOMAIN rows[d] : \A i \in 1 .. (j - 1) :
        rows[d][i] = rows[d][j] /\ rows[d][j] \in {"approved_pending_boundary", "applied"}
        => \E k \in i .. j : rows[d][k] = "preview_ready"

(* GOAL-052, as far as the code goes: an achieved goal was proved under    *)
(* one of its definitions, though a later one may have replaced it.        *)
AchievementEarned ==
    \A g \in Goals : goal[g].status = "achieved"
                     => \E n \in 1 .. goal[g].defn : proof[g][n] = "passed"

(* GOAL-032, "two current plans are forbidden", for LearningPlanState, the *)
(* current plan truth.  _apply_now never ends the state of the old plan.   *)
OnePlanState ==
    \A g \in Goals : \A v, w \in DOMAIN plans[g] :
        plans[g][v].state = "active" /\ plans[g][w].state = "active" => v = w
=============================================================================
