----------------------------- MODULE GoalsProofs -----------------------------
(***************************************************************************)
(* For any number of goals, drafts, activities and commands under way:     *)
(* what has ended stays ended, one plan record is current, the focus is on *)
(* an active goal, a preview counts once, an achievement was proved.       *)
(***************************************************************************)
EXTENDS Goals, SequenceTheorems, FiniteSetTheorems, WellFoundedInduction, TLAPS

-----------------------------------------------------------------------------
(* Facts about the helpers.                                                *)

(* Activities that are not none have a first one.  (The sets 0 .. n are    *)
(* well-founded by inclusion.)                                             *)
LEMMA FirstIsIn ==
  ASSUME NEW S \in SUBSET Nat, S # {}
  PROVE  FirstOf(S) \in S
<1> DEFINE T == {0 .. n : n \in S}
<1>1. T \subseteq FiniteSubsetsOf(Nat) /\ T # {}
  <2>1. \A n \in S : 0 .. n \in SUBSET Nat /\ IsFiniteSet(0 .. n)
    BY FS_Interval
  <2>2. QED
    BY <2>1 DEF FiniteSubsetsOf
<1>2. PICK X \in T : \A Y \in T : ~(<<Y, X>> \in StrictSubsetOrdering(Nat))
  <2> HIDE DEF T
  <2>1. QED
    BY <1>1, FS_StrictSubsetOrderingWellFounded, WFMin
<1>3. PICK x \in S : X = 0 .. x
  BY <1>2
<1>4. ASSUME NEW y \in S PROVE x <= y
  <2>1. SUFFICES ASSUME y < x PROVE FALSE
    OBVIOUS
  <2>2. 0 .. y \subseteq 0 .. x /\ 0 .. y # 0 .. x /\ 0 .. y \in SUBSET Nat /\ 0 .. x \in SUBSET Nat
    <3>1. x \in 0 .. x /\ x \notin 0 .. y
      BY <2>1
    <3>2. QED
      BY <2>1, <3>1
  <2>3. <<0 .. y, X>> \in StrictSubsetOrdering(Nat)
    BY <1>3, <2>2 DEF StrictSubsetOrdering
  <2>4. QED
    BY <1>2, <2>3
<1>5. QED
  BY <1>4 DEF FirstOf

(* What a command under way holds.                                         *)
LEMMA CommandFields ==
  ASSUME NEW c \in Commands
  PROVE  /\ c.cmd = "apply" => c.d \in Drafts /\ c.row \in Nat /\ c.defn \in Nat
         /\ c.cmd \in {"start", "select", "complete", "advance", "archive", "achieve"}
            => c.g \in Goals /\ c.at \in ActRefs
  BY DEF Commands, Idle

(* The plan history of a goal in which only the last record may be active. *)
LastOnly(ps) == \A v \in DOMAIN ps : ps[v].status = "active" => v = Len(ps)

(* A change to an activity, or to the state of a plan, leaves the records. *)
LEMMA ActChanged ==
  ASSUME NEW ps \in Seq(Plan), NEW v, NEW a \in Acts, NEW st \in ActStatuses
  PROVE  /\ [ps EXCEPT ![v].acts[a] = st] \in Seq(Plan)
         /\ LastOnly(ps) => LastOnly([ps EXCEPT ![v].acts[a] = st])
<1> DEFINE e == [ps[v] EXCEPT !.acts[a] = st]
           qs == [ps EXCEPT ![v].acts[a] = st]
<1>1. CASE v \in 1 .. Len(ps)
  <2>1. ps[v] \in Plan
    BY <1>1
  <2>2. e \in Plan /\ e.status = ps[v].status
    BY <2>1 DEF Plan
  <2> HIDE DEF e
  <2>3. qs = [ps EXCEPT ![v] = e]
    BY DEF e
  <2>4. QED
    BY <1>1, <2>2, <2>3, ExceptSeq DEF LastOnly
<1>2. CASE v \notin 1 .. Len(ps)
  <2>1. qs = ps
    BY <1>2
  <2>2. QED
    BY <2>1
<1>3. QED
  BY <1>1, <1>2

LEMMA StateChanged ==
  ASSUME NEW ps \in Seq(Plan), NEW v, NEW st \in PlanStates
  PROVE  /\ [ps EXCEPT ![v].state = st] \in Seq(Plan)
         /\ LastOnly(ps) => LastOnly([ps EXCEPT ![v].state = st])
<1> DEFINE e == [ps[v] EXCEPT !.state = st]
           qs == [ps EXCEPT ![v].state = st]
<1>1. CASE v \in 1 .. Len(ps)
  <2>1. ps[v] \in Plan
    BY <1>1
  <2>2. e \in Plan /\ e.status = ps[v].status
    BY <2>1 DEF Plan
  <2> HIDE DEF e
  <2>3. qs = [ps EXCEPT ![v] = e]
    BY DEF e
  <2>4. QED
    BY <1>1, <2>2, <2>3, ExceptSeq DEF LastOnly
<1>2. CASE v \notin 1 .. Len(ps)
  <2>1. qs = ps
    BY <1>2
  <2>2. QED
    BY <2>1
<1>3. QED
  BY <1>1, <1>2

(* A completed plan is not current, nor is any other for that.             *)
LEMMA PlanCompleted ==
  ASSUME NEW ps \in Seq(Plan), NEW v
  PROVE  /\ [ps EXCEPT ![v].status = "completed"] \in Seq(Plan)
         /\ LastOnly(ps) => LastOnly([ps EXCEPT ![v].status = "completed"])
<1> DEFINE e == [ps[v] EXCEPT !.status = "completed"]
           qs == [ps EXCEPT ![v].status = "completed"]
<1>1. CASE v \in 1 .. Len(ps)
  <2>1. ps[v] \in Plan
    BY <1>1
  <2>2. e \in Plan /\ e.status = "completed"
    BY <2>1 DEF Plan, PlanStatuses
  <2> HIDE DEF e
  <2>3. qs = [ps EXCEPT ![v] = e]
    BY DEF e
  <2>4. QED
    BY <1>1, <2>2, <2>3, ExceptSeq DEF LastOnly
<1>2. CASE v \notin 1 .. Len(ps)
  <2>1. qs = ps
    BY <1>2
  <2>2. QED
    BY <2>1
<1>3. QED
  BY <1>1, <1>2

(* The newest active record is the last one, if there is one at all.       *)
LEMMA NewestIsLast ==
  ASSUME NEW ps \in Seq(Plan), LastOnly(ps)
  PROVE  /\ Newest(ps) \in {0} \cup DOMAIN ps
         /\ \A v \in DOMAIN ps : ps[v].status = "active" => v = Newest(ps)
<1> DEFINE active == {v \in DOMAIN ps : ps[v].status = "active"}
<1>1. active \subseteq {Len(ps)} /\ Len(ps) \in Nat
  BY DEF LastOnly
<1>2. CASE active = {}
  BY <1>2 DEF Newest
<1>3. CASE active = {Len(ps)}
  <2>1. Newest(ps) = Len(ps)
    <3>1. Newest(ps) = CHOOSE v \in active : \A w \in active : w <= v
      BY <1>3 DEF Newest
    <3>2. QED
      BY <1>1, <1>3, <3>1
  <2>2. QED
    BY <1>3, <2>1 DEF LastOnly
<1>4. QED
  BY <1>1, <1>2, <1>3

(* A new plan retires the current one.                                     *)
LEMMA PlanAdded ==
  ASSUME NEW ps \in Seq(Plan), LastOnly(ps), NEW state \in PlanStates, NEW open \in BOOLEAN,
         NEW acts \in [Acts -> ActStatuses]
  PROVE  /\ AddPlan(ps, state, open, acts) \in Seq(Plan)
         /\ LastOnly(AddPlan(ps, state, open, acts))
<1> DEFINE new == [status |-> "active", state |-> state, open |-> open, acts |-> acts]
<1>1. new \in Plan
  BY DEF Plan, PlanStatuses
<1>2. \A v \in DOMAIN ps : Retired(ps)[v] \in Plan /\ Retired(ps)[v].status # "active"
  <2> TAKE v \in DOMAIN ps
  <2>1. ps[v] \in Plan
    OBVIOUS
  <2>2. QED
    BY <2>1, NewestIsLast DEF Retired, Plan, PlanStatuses
<1>3. Retired(ps) \in Seq(Plan) /\ Len(Retired(ps)) = Len(ps) /\ DOMAIN Retired(ps) = DOMAIN ps
  <2>1. Len(ps) \in Nat /\ DOMAIN ps = 1 .. Len(ps)
    OBVIOUS
  <2>2. Retired(ps) \in [1 .. Len(ps) -> Plan] /\ DOMAIN Retired(ps) = 1 .. Len(ps)
    BY <1>2, <2>1 DEF Retired
  <2>3. QED
    BY <2>1, <2>2
<1> HIDE DEF new
<1>4. AddPlan(ps, state, open, acts) = Append(Retired(ps), new)
  BY DEF AddPlan, new
<1>5. QED
  BY <1>1, <1>2, <1>3, <1>4, AppendProperties DEF LastOnly

-----------------------------------------------------------------------------
(* Types, and the one current plan: an active activity and the newest plan *)
(* can only be found because a plan that is not the last is not active.    *)
GoalTypes  == goal \in [Goals -> [status : GoalStatuses, defn : Nat, plan : Nat]]
PlanTypes  == plans \in [Goals -> Seq(Plan)] /\ OneCurrentPlan
RowTypes   == rows \in [Drafts -> Seq(RowStatuses)]
OtherTypes == /\ focus \in Goals \cup {NoGoal}
              /\ pinned \in [Drafts -> ActRefs]
              /\ proof \in [Goals -> [1 .. MaxDefinitions -> Proofs]]
              /\ verdict \in [Goals -> BOOLEAN]
PlanInv == /\ GoalTypes /\ PlanTypes /\ RowTypes /\ OtherTypes
           /\ req \in [Requests -> Commands]

LEMMA PlanInvImplies == PlanInv => TypeOK /\ OneCurrentPlan
  BY DEF PlanInv, TypeOK, GoalTypes, PlanTypes, RowTypes, OtherTypes

LEMMA InitPlanInv == Init => PlanInv
<1> SUFFICES ASSUME Init PROVE PlanInv
  OBVIOUS
<1>1. GoalTypes /\ RowTypes
  BY DEF Init, GoalTypes, RowTypes, GoalStatuses
<1>2. PlanTypes
  BY DEF Init, PlanTypes, OneCurrentPlan
<1>3. OtherTypes /\ req \in [Requests -> Commands]
  BY DEF Init, OtherTypes, ActRefs, NoAct, Proofs, Commands
<1>4. QED
  BY <1>1, <1>2, <1>3 DEF PlanInv

(* A draft's next row, and one goal's plans, keep the types.               *)
LEMMA RowSaved ==
  ASSUME RowTypes, NEW d \in Drafts, NEW status \in RowStatuses, SaveDraft(d, status)
  PROVE  RowTypes'
  BY AppendProperties DEF RowTypes, SaveDraft

LEMMA PlansChanged ==
  ASSUME PlanTypes, NEW g \in Goals, NEW ps \in Seq(Plan), LastOnly(ps),
         plans' = [plans EXCEPT ![g] = ps]
  PROVE  PlanTypes'
  BY DEF PlanTypes, OneCurrentPlan, LastOnly

LEMMA ActiveRefsAreRefs ==
  ASSUME PlanInv, NEW g \in Goals
  PROVE  ActiveRefs(g) \subseteq ActRefs
<1>1. plans[g] \in Seq(Plan) /\ LastOnly(plans[g])
  BY DEF PlanInv, PlanTypes, OneCurrentPlan, LastOnly
<1>2. Current(g) \in Nat
  BY <1>1, NewestIsLast DEF Current
<1>3. QED
  BY <1>2 DEF ActiveRefs, ActRefs, NoAct

(* The parts of a goal's row that a change to it brings.                   *)
LEMMA ApplyNowTypes ==
  ASSUME PlanInv, NEW d \in Drafts, NEW ps \in Seq(Plan), LastOnly(ps), NEW sf \in BOOLEAN,
         ApplyNow(GoalOf[d], d, ps, sf)
  PROVE  GoalTypes' /\ PlanTypes' /\ RowTypes' /\ OtherTypes'
<1> DEFINE g == GoalOf[d]
           acts == [a \in Acts |-> IF a = 1 THEN "available" ELSE "planned"]
<1>1. g \in Goals /\ GoalTypes /\ PlanTypes /\ RowTypes /\ OtherTypes
  BY GoalConstants DEF PlanInv
<1>2. GoalTypes'
  <2>1. Len(ps) \in Nat /\ NextDefinition(g) \in Nat
    BY <1>1 DEF GoalTypes, NextDefinition
  <2>2. QED
    BY <1>1, <2>1 DEF ApplyNow, GoalTypes, GoalStatuses
<1>3. PlanTypes'
  <2>1. acts \in [Acts -> ActStatuses]
    BY DEF ActStatuses
  <2>2. /\ AddPlan(ps, "active", FALSE, acts) \in Seq(Plan)
        /\ LastOnly(AddPlan(ps, "active", FALSE, acts))
    <3> HIDE DEF acts
    <3>1. QED
      BY <2>1, PlanAdded DEF PlanStates
  <2>3. QED
    BY <1>1, <2>2, PlansChanged DEF ApplyNow
<1>4. RowTypes'
  BY <1>1, RowSaved DEF ApplyNow, RowStatuses
<1>5. OtherTypes'
  BY <1>1 DEF ApplyNow, OtherTypes
<1>6. QED
  BY <1>2, <1>3, <1>4, <1>5

LEMMA TransitionTypes ==
  ASSUME PlanInv, NEW g \in Goals, NEW ps \in Seq(Plan), LastOnly(ps),
         NEW status \in GoalStatuses, NEW state \in PlanStates,
         Transition(g, ps, status, state)
  PROVE  GoalTypes' /\ PlanTypes' /\ RowTypes' /\ OtherTypes'
<1>1. GoalTypes /\ PlanTypes /\ RowTypes /\ OtherTypes
  BY DEF PlanInv
<1>2. GoalTypes' /\ RowTypes' /\ OtherTypes'
  BY <1>1 DEF Transition, GoalTypes, RowTypes, OtherTypes
<1>3. PlanTypes'
  BY <1>1, StateChanged, PlansChanged DEF Transition
<1>4. QED
  BY <1>2, <1>3

(* Every step keeps the types and the one current plan.                    *)
LEMMA NextPlanInv ==
  ASSUME PlanInv, [Next]_vars
  PROVE  PlanInv'
<1> USE DEF PlanInv
<1>0. /\ \A g \in Goals : plans[g] \in Seq(Plan) /\ LastOnly(plans[g])
      /\ \A r \in Requests : req[r] \in Commands
  BY DEF PlanTypes, OneCurrentPlan, LastOnly
<1>1. ASSUME NEW d \in Drafts, CreateDraft(GoalOf[d]) \/ CreateEditDraft(d) \/ UpdateDraft(d)
      PROVE  PlanInv'
  <2>1. \E c \in Drafts : SaveDraft(c, "draft")
    BY <1>1, GoalConstants DEF CreateDraft, CreateEditDraft, UpdateDraft
  <2>2. RowTypes'
    BY <2>1, RowSaved DEF RowStatuses
  <2>3. QED
    BY <1>1, <2>2 DEF CreateDraft, CreateEditDraft, UpdateDraft, GoalTypes, PlanTypes,
                      OneCurrentPlan, OtherTypes
<1>2. ASSUME NEW d \in Drafts, PreviewDraft(d) PROVE PlanInv'
  <2>1. RowTypes'
    BY <1>2, RowSaved DEF RowStatuses, PreviewDraft
  <2>2. PICK at \in ActRefs : pinned' = [pinned EXCEPT ![d] = at]
    BY <1>2, ActiveRefsAreRefs, GoalConstants DEF PreviewDraft
  <2>3. OtherTypes'
    BY <1>2, <2>2 DEF PreviewDraft, OtherTypes
  <2>4. QED
    BY <1>2, <2>1, <2>3 DEF PreviewDraft, GoalTypes, PlanTypes, OneCurrentPlan
<1>3. ASSUME NEW g \in Goals, CreateDraft(g) PROVE PlanInv'
  BY <1>1, <1>3, GoalConstants
<1>4. ASSUME NEW g \in Goals, PauseGoal(g) \/ ResumeGoal(g) PROVE PlanInv'
  <2>1. \E status \in GoalStatuses, state \in PlanStates : Transition(g, plans[g], status, state)
    BY <1>4 DEF PauseGoal, ResumeGoal, GoalStatuses, PlanStates
  <2>2. QED
    BY <1>0, <1>4, <2>1, TransitionTypes DEF PauseGoal, ResumeGoal
<1>5. ASSUME NEW g \in Goals, NEW n \in 1 .. MaxDefinitions, SubmitAssessment(g, n)
      PROVE  PlanInv'
  BY <1>5 DEF SubmitAssessment, GoalTypes, PlanTypes, OneCurrentPlan, RowTypes, OtherTypes, Proofs
<1>6. ASSUME NEW g \in Goals, ScheduleAssessments(g) PROVE PlanInv'
  BY <1>6 DEF ScheduleAssessments, GoalTypes, PlanTypes, OneCurrentPlan, RowTypes, OtherTypes,
               Proofs
<1>7. ASSUME NEW g \in Goals, EvaluateAchievement(g) PROVE PlanInv'
  <2>1. PICK ok \in BOOLEAN : verdict' = [verdict EXCEPT ![g] = ok]
    BY <1>7, Zenon DEF EvaluateAchievement, Satisfied
  <2>2. OtherTypes'
    BY <1>7, <2>1 DEF EvaluateAchievement, OtherTypes
  <2>3. QED
    BY <1>7, <2>2 DEF EvaluateAchievement, GoalTypes, PlanTypes, OneCurrentPlan, RowTypes
<1>8. ASSUME NEW g \in Goals, DiagnosticPlan(g) PROVE PlanInv'
  <2> DEFINE acts == [a \in Acts |-> "planned"]
  <2>1. acts \in [Acts -> ActStatuses]
    BY DEF ActStatuses
  <2>2. /\ AddPlan(plans[g], "none", TRUE, acts) \in Seq(Plan)
        /\ LastOnly(AddPlan(plans[g], "none", TRUE, acts))
    <3> HIDE DEF acts
    <3>1. QED
      BY <1>0, <2>1, PlanAdded DEF PlanStates
  <2>3. plans' = [plans EXCEPT ![g] = AddPlan(plans[g], "none", TRUE, acts)]
    BY <1>8 DEF DiagnosticPlan, PlanTypes
  <2>4. PlanTypes'
    BY <2>2, <2>3, PlansChanged
  <2>5. QED
    BY <1>8, <2>4 DEF DiagnosticPlan, GoalTypes, RowTypes, OtherTypes
<1>9. ASSUME NEW r \in Requests, NEW c \in Commands, Open(r, c), UNCHANGED tables PROVE PlanInv'
  <2>1. req' \in [Requests -> Commands]
    BY <1>9 DEF Open
  <2>2. QED
    BY <1>9, <2>1 DEF tables, GoalTypes, PlanTypes, OneCurrentPlan, RowTypes, OtherTypes
<1>10. ASSUME NEW r \in Requests, NEW d \in Drafts, ReadApply(r, d) PROVE PlanInv'
  <2>1. /\ Len(rows[d]) \in Nat /\ goal[GoalOf[d]].defn \in Nat
    BY GoalConstants DEF RowTypes, GoalTypes
  <2>2. [cmd |-> "apply", d |-> d, row |-> Len(rows[d]), defn |-> goal[GoalOf[d]].defn] \in Commands
    BY <2>1 DEF Commands
  <2>3. QED
    BY <1>9, <1>10, <2>2 DEF ReadApply
<1>11. ASSUME NEW r \in Requests, NEW g \in Goals, NEW at \in ActRefs,
             NEW cmd \in {"start", "select", "complete", "advance", "archive", "achieve"},
             Open(r, [cmd |-> cmd, g |-> g, at |-> at]), UNCHANGED tables
      PROVE  PlanInv'
  <2>1. [cmd |-> cmd, g |-> g, at |-> at] \in Commands
    BY DEF Commands
  <2>2. QED
    BY <1>9, <1>11, <2>1
<1>12. ASSUME NEW r \in Requests, NEW g \in Goals, ReadArchive(r, g) \/ ReadAchieve(r, g)
       PROVE  PlanInv'
  BY <1>11, <1>12, ActiveRefsAreRefs DEF ReadArchive, ReadAchieve
<1>13. ASSUME NEW r \in Requests, NEW g \in Goals, ReadSelect(r, g) PROVE PlanInv'
  <2> DEFINE v == Current(g)
  <2>1. v \in Nat
    BY <1>0, NewestIsLast DEF Current
  <2>2. FirstOf(Planned(g, v)) \in Acts
    BY <1>13, FirstIsIn DEF ReadSelect, Planned, Acts
  <2>3. <<v, FirstOf(Planned(g, v))>> \in ActRefs
    BY <2>1, <2>2 DEF ActRefs
  <2>4. QED
    BY <1>11, <1>13, <2>3 DEF ReadSelect
<1>14. ASSUME NEW r \in Requests, NEW g \in Goals, ReadStart(r, g) \/ ReadComplete(r, g)
       PROVE  PlanInv'
  <2>1. \A v \in DOMAIN plans[g], a \in Acts : <<v, a>> \in ActRefs
    BY <1>0 DEF ActRefs
  <2>2. QED
    BY <1>11, <1>14, <2>1 DEF ReadStart, ReadComplete
<1>15. ASSUME NEW r \in Requests, Close(r) PROVE req' \in [Requests -> Commands]
  BY <1>15 DEF Close, Commands
<1>16. ASSUME NEW r \in Requests, Approve(r) PROVE PlanInv'
  <2>1. RowTypes'
    BY <1>0, <1>16, CommandFields, RowSaved DEF Approve, RowStatuses
  <2>2. QED
    BY <1>15, <1>16, <2>1 DEF Approve, GoalTypes, PlanTypes, OneCurrentPlan, OtherTypes
<1>17. ASSUME NEW r \in Requests, CommitApply(r) PROVE PlanInv'
  <2> DEFINE d == req[r].d
             g == GoalOf[d]
             at == pinned[d]
             ps == IF at = NoAct THEN plans[g]
                   ELSE [plans[g] EXCEPT ![at[1]].acts[at[2]] = "superseded"]
  <2>1. d \in Drafts /\ g \in Goals /\ at \in ActRefs
    BY <1>0, <1>17, CommandFields, GoalConstants DEF CommitApply, OtherTypes
  <2>2. ps \in Seq(Plan) /\ LastOnly(ps)
    <3>1. CASE at = NoAct
      BY <1>0, <2>1, <3>1
    <3>2. CASE at # NoAct
      <4>1. at[2] \in Acts
        BY <2>1, <3>2 DEF ActRefs
      <4>2. QED
        BY <1>0, <2>1, <3>2, <4>1, ActChanged DEF ActStatuses
    <3>3. QED
      BY <3>1, <3>2
  <2>3. \E sf \in BOOLEAN : ApplyNow(g, d, ps, sf)
    BY <1>17 DEF CommitApply
  <2>4. GoalTypes' /\ PlanTypes' /\ RowTypes' /\ OtherTypes'
    <3> HIDE DEF ps, d
    <3>1. QED
      BY <2>1, <2>2, <2>3, ApplyNowTypes
  <2>5. QED
    BY <1>15, <1>17, <2>4 DEF CommitApply
<1>18. ASSUME NEW r \in Requests, CommitEnd(r) PROVE PlanInv'
  <2> DEFINE g == req[r].g
             at == req[r].at
             ps == IF at = NoAct THEN plans[g]
                   ELSE [plans[g] EXCEPT ![at[1]].acts[at[2]] = "superseded"]
  <2>1. g \in Goals /\ at \in ActRefs
    BY <1>0, <1>18, CommandFields DEF CommitEnd
  <2>2. ps \in Seq(Plan) /\ LastOnly(ps)
    <3>1. CASE at = NoAct
      BY <1>0, <2>1, <3>1
    <3>2. CASE at # NoAct
      <4>1. at[2] \in Acts
        BY <2>1, <3>2 DEF ActRefs
      <4>2. QED
        BY <1>0, <2>1, <3>2, <4>1, ActChanged DEF ActStatuses
    <3>3. QED
      BY <3>1, <3>2
  <2>3. \E status \in GoalStatuses, state \in PlanStates : Transition(g, ps, status, state)
    BY <1>18 DEF CommitEnd, GoalStatuses, PlanStates
  <2>4. GoalTypes' /\ PlanTypes' /\ RowTypes' /\ OtherTypes'
    <3> HIDE DEF ps, g
    <3>1. QED
      BY <2>1, <2>2, <2>3, TransitionTypes
  <2>5. QED
    BY <1>15, <1>18, <2>4 DEF CommitEnd
<1>19. ASSUME NEW r \in Requests, AppendState(r) PROVE PlanInv'
  <2> DEFINE c == req[r]
  <2>1. c \in Commands /\ c.cmd \in {"select", "start", "complete"} /\ c.g \in Goals
        /\ c.at \in ActRefs
    BY <1>0, <1>19, CommandFields DEF AppendState, From
  <2>2. To[c.cmd] \in ActStatuses
    BY <2>1 DEF To, ActStatuses
  <2>3. PlanTypes'
    <3>1. plans' = [plans EXCEPT ![c.g] = [plans[c.g] EXCEPT ![c.at[1]].acts[c.at[2]] = To[c.cmd]]]
      BY <1>19, <2>1 DEF AppendState, SetAct, PlanTypes
    <3>2. CASE c.at[2] \in Acts
      BY <1>0, <2>1, <2>2, <3>1, <3>2, ActChanged, PlansChanged
    <3>3. CASE c.at = NoAct
      <4>1. c.at[1] \notin DOMAIN plans[c.g]
        BY <1>0, <2>1, <3>3 DEF NoAct
      <4>2. [plans[c.g] EXCEPT ![c.at[1]].acts[c.at[2]] = To[c.cmd]] = plans[c.g]
        BY <1>0, <2>1, <4>1
      <4>3. QED
        BY <1>0, <2>1, <3>1, <4>2, PlansChanged
    <3>4. QED
      BY <2>1, <3>2, <3>3 DEF ActRefs
  <2>4. req' \in [Requests -> Commands]
    <3>1. CASE c.cmd = "complete"
      <4>1. [c EXCEPT !.cmd = "advance"] \in Commands
        <5>1. c \in [cmd : {"start", "select", "complete", "advance", "archive", "achieve"},
                     g : Goals, at : ActRefs]
          BY <2>1, <3>1 DEF Commands, Idle
        <5> HIDE DEF c
        <5>2. QED
          BY <5>1 DEF Commands
      <4>2. req' = [req EXCEPT ![r] = [c EXCEPT !.cmd = "advance"]]
        BY <1>19, <3>1 DEF AppendState
      <4>3. QED
        BY <4>1, <4>2
    <3>2. CASE c.cmd # "complete"
      BY <1>15, <1>19, <3>2 DEF AppendState
    <3>3. QED
      BY <3>1, <3>2
  <2>5. QED
    BY <1>19, <2>3, <2>4 DEF AppendState, GoalTypes, RowTypes, OtherTypes
<1>20. ASSUME NEW r \in Requests, ApplyPending(r) PROVE PlanInv'
  <2> DEFINE g == req[r].g
  <2>1. g \in Goals
    BY <1>0, <1>20, CommandFields DEF ApplyPending
  <2>2. PICK p \in Waiting(g) : ApplyNow(g, p[1], plans[g], FALSE)
    BY <1>20 DEF ApplyPending
  <2>3. p[1] \in Drafts /\ GoalOf[p[1]] = g
    BY DEF Waiting, DraftsOf
  <2>4. GoalTypes' /\ PlanTypes' /\ RowTypes' /\ OtherTypes'
    <3> HIDE DEF g
    <3>1. QED
      BY <1>0, <2>1, <2>2, <2>3, ApplyNowTypes
  <2>5. QED
    BY <1>15, <1>20, <2>4 DEF ApplyPending
<1>21. ASSUME NEW r \in Requests, Advance(r) PROVE PlanInv'
  <2> DEFINE g == req[r].g
             v == req[r].at[1]
             later == {a \in Planned(g, v) : a > req[r].at[2]}
  <2>1. g \in Goals
    BY <1>0, <1>21, CommandFields DEF Advance
  <2>2. ASSUME later # {} PROVE FirstOf(later) \in Acts
    BY <2>2, FirstIsIn DEF Planned, Acts
  <2>3. PlanTypes'
    <3>1. CASE later # {}
      <4>1. plans' = [plans EXCEPT ![g] = [plans[g] EXCEPT ![v].acts[FirstOf(later)] = "available"]]
        BY <1>21, <3>1, <2>1 DEF Advance, PlanTypes
      <4> HIDE DEF later, g, v
      <4>2. QED
        BY <1>0, <2>1, <2>2, <3>1, <4>1, ActChanged, PlansChanged DEF ActStatuses
    <3>2. CASE plans' = [plans EXCEPT ![g][v].status = "completed"]
      <4>1. plans' = [plans EXCEPT ![g] = [plans[g] EXCEPT ![v].status = "completed"]]
        BY <3>2, <2>1 DEF PlanTypes
      <4> HIDE DEF later, g, v
      <4>2. QED
        BY <1>0, <2>1, <4>1, PlanCompleted, PlansChanged
    <3>3. CASE plans' = plans
      BY <3>3 DEF PlanTypes, OneCurrentPlan
    <3>4. QED
      BY <1>21, <3>1, <3>2, <3>3 DEF Advance
  <2>4. QED
    BY <1>15, <1>21, <2>3 DEF Advance, GoalTypes, RowTypes, OtherTypes
<1>22. ASSUME NEW r \in Requests, Drop(r) PROVE PlanInv'
  BY <1>15, <1>22 DEF Drop, tables, GoalTypes, PlanTypes, OneCurrentPlan, RowTypes, OtherTypes
<1>23. CASE UNCHANGED vars
  BY <1>23 DEF vars, tables, GoalTypes, PlanTypes, OneCurrentPlan, RowTypes, OtherTypes
<1>24. QED
  <2>1. ASSUME NEW d \in Drafts, CreateEditDraft(d) \/ UpdateDraft(d) PROVE PlanInv'
    BY <1>1, <2>1
  <2>2. QED
    BY <1>2, <1>3, <1>4, <1>5, <1>8, <1>10, <1>12, <1>13, <1>14, <1>16, <1>17, <1>18, <1>19,
       <1>20, <1>21, <1>22, <1>23, <1>6, <1>7, <2>1 DEF Next

-----------------------------------------------------------------------------
(* Goals.  An achievement is earned by a definition the goal has, and stays *)
(* earned; a confirmation under way has read an evaluation that said so.    *)
Earned(g) == \E n \in 1 .. goal[g].defn : proof[g][n] = "passed"
Defined(g) == goal[g].defn \in 0 .. MaxDefinitions /\ (goal[g].status # "none" => goal[g].defn # 0)

GoalInv ==
    /\ FocusIsActive /\ AchievementEarned
    /\ \A g \in Goals : Defined(g) /\ (verdict[g] => Earned(g))
    /\ \A r \in Requests : req[r].cmd = "achieve" => Earned(req[r].g)

LEMMA InitGoalInv == Init => GoalInv
  BY GoalConstants DEF Init, GoalInv, FocusIsActive, AchievementEarned, Defined, Idle

(* What a command may do to the life of a goal.                            *)
Moves(g, status) ==
    /\ goal[g].status \in {"active", "paused"}
    /\ status \in {"active", "paused", "archived", "achieved"}
    /\ status = "achieved" => \E r \in Requests : req[r].cmd = "achieve" /\ req[r].g = g
    /\ goal' = [goal EXCEPT ![g].status = status]
    /\ focus' = IF status \in Clears /\ focus = g THEN NoGoal ELSE focus
    /\ UNCHANGED <<proof, verdict>>
Applies(g) ==
    /\ goal[g].status \in {"none", "active"} /\ goal[g].defn < MaxDefinitions
    /\ \E p : goal' = [goal EXCEPT ![g] = [status |-> "active", defn |-> goal[g].defn + 1,
                                            plan |-> p]]
    /\ focus' \in {focus, g}
    /\ UNCHANGED <<proof, verdict>>
Proves(g) == ScheduleAssessments(g) \/ \E n \in 1 .. MaxDefinitions : SubmitAssessment(g, n)
Rests == UNCHANGED <<goal, focus, proof, verdict>>

LEMMA ApplyNowApplies ==
  ASSUME NEW g, NEW d, NEW ps, NEW sf, ApplyNow(g, d, ps, sf)
  PROVE  Applies(g)
<1>1. goal' = [goal EXCEPT ![g] = [status |-> "active", defn |-> goal[g].defn + 1,
                                   plan |-> Len(ps) + 1]]
  BY DEF ApplyNow, NextDefinition
<1>2. \E p : goal' = [goal EXCEPT ![g] = [status |-> "active", defn |-> goal[g].defn + 1,
                                         plan |-> p]]
  BY <1>1
<1>3. focus' \in {focus, g}
  BY DEF ApplyNow
<1>4. QED
  BY <1>2, <1>3 DEF ApplyNow, Applies, MayPlan

LEMMA GoalSteps ==
  ASSUME PlanInv, [Next]_vars
  PROVE  \/ Rests
         \/ \E g \in Goals : \/ Applies(g) \/ Proves(g) \/ EvaluateAchievement(g)
                             \/ \E status \in GoalStatuses : Moves(g, status)
<1> USE DEF Rests
<1>0. \A r \in Requests : req[r] \in Commands
  BY DEF PlanInv
<1>1. ASSUME NEW g \in Goals, PauseGoal(g) \/ ResumeGoal(g)
      PROVE  \E status \in GoalStatuses : Moves(g, status)
  BY <1>1 DEF PauseGoal, ResumeGoal, Transition, Moves, GoalStatuses
<1>2. ASSUME NEW r \in Requests, CommitEnd(r)
      PROVE  \E g \in Goals, status \in GoalStatuses : Moves(g, status)
  <2>1. req[r].g \in Goals
    BY <1>0, <1>2, CommandFields DEF CommitEnd
  <2>2. CASE req[r].cmd = "archive"
    <3>1. Moves(req[r].g, "archived")
      BY <1>2, <2>2 DEF CommitEnd, MayEnd, Transition, Moves
    <3>2. QED
      BY <2>1, <3>1 DEF GoalStatuses
  <2>3. CASE req[r].cmd = "achieve"
    <3>1. Moves(req[r].g, "achieved")
      BY <1>2, <2>3 DEF CommitEnd, MayEnd, Transition, Moves
    <3>2. QED
      BY <2>1, <3>1 DEF GoalStatuses
  <2>4. QED
    BY <1>2, <2>2, <2>3 DEF CommitEnd
<1>3. ASSUME NEW r \in Requests, CommitApply(r) PROVE \E g \in Goals : Applies(g)
  <2>1. req[r].d \in Drafts /\ GoalOf[req[r].d] \in Goals
    BY <1>0, <1>3, CommandFields, GoalConstants DEF CommitApply
  <2>2. Applies(GoalOf[req[r].d])
    BY <1>3, ApplyNowApplies DEF CommitApply
  <2>3. QED
    BY <2>1, <2>2
<1>4. ASSUME NEW r \in Requests, ApplyPending(r) PROVE \E g \in Goals : Applies(g)
  <2>1. req[r].g \in Goals
    BY <1>0, <1>4, CommandFields DEF ApplyPending
  <2>2. Applies(req[r].g)
    BY <1>4, ApplyNowApplies DEF ApplyPending
  <2>3. QED
    BY <2>1, <2>2
<1>5. ASSUME NEW r \in Requests, Approve(r) \/ AppendState(r) \/ Advance(r) \/ Drop(r) PROVE Rests
  BY <1>5 DEF Approve, AppendState, Advance, Drop, tables
<1>6. ASSUME NEW r \in Requests, NEW g \in Goals,
             ReadArchive(r, g) \/ ReadAchieve(r, g) \/ ReadSelect(r, g) \/ ReadStart(r, g)
             \/ ReadComplete(r, g)
      PROVE  Rests
  BY <1>6 DEF ReadArchive, ReadAchieve, ReadSelect, ReadStart, ReadComplete, tables
<1>7. ASSUME NEW d \in Drafts,
             \/ CreateEditDraft(d) \/ UpdateDraft(d) \/ PreviewDraft(d)
             \/ \E r \in Requests : ReadApply(r, d)
      PROVE  Rests
  BY <1>7 DEF CreateEditDraft, UpdateDraft, PreviewDraft, ReadApply, tables
<1>8. ASSUME NEW g \in Goals, CreateDraft(g) \/ DiagnosticPlan(g) PROVE Rests
  BY <1>8 DEF CreateDraft, DiagnosticPlan
<1>9. CASE UNCHANGED vars
  BY <1>9 DEF vars, tables
<1>10. QED
  BY <1>1, <1>2, <1>3, <1>4, <1>5, <1>6, <1>7, <1>8, <1>9 DEF Next, Proves

(* A definition stays, and so does what it has earned.                     *)
LEMMA EarnedStays ==
  ASSUME PlanInv, GoalInv, [Next]_vars, NEW g \in Goals
  PROVE  Defined(g)' /\ (Earned(g) => Earned(g)')
<1>1. /\ goal \in [Goals -> [status : GoalStatuses, defn : Nat, plan : Nat]]
      /\ proof \in [Goals -> [1 .. MaxDefinitions -> Proofs]]
      /\ \A h \in Goals : Defined(h)
  BY DEF PlanInv, GoalTypes, OtherTypes, GoalInv
<1>2. CASE Rests
  BY <1>2 DEF Rests, GoalInv, Defined, Earned
<1>3. ASSUME NEW h \in Goals, Applies(h) PROVE Defined(g)' /\ (Earned(g) => Earned(g)')
  <2>1. PICK p : goal' = [goal EXCEPT ![h] = [status |-> "active", defn |-> goal[h].defn + 1,
                                               plan |-> p]]
    BY <1>3 DEF Applies
  <2>2. /\ goal[g].defn \in Nat
        /\ goal'[g].defn = (IF g = h THEN goal[g].defn + 1 ELSE goal[g].defn)
        /\ g # h => goal'[g].status = goal[g].status
    BY <1>1, <2>1
  <2>3. Defined(g)'
    BY <1>1, <1>3, <2>2, GoalConstants DEF Applies, Defined
  <2>4. proof' = proof /\ 1 .. goal[g].defn \subseteq 1 .. goal'[g].defn
    BY <1>3, <2>2 DEF Applies
  <2>5. QED
    BY <2>3, <2>4 DEF Earned
<1>4. ASSUME NEW h \in Goals, NEW status \in GoalStatuses, Moves(h, status)
      PROVE  Defined(g)' /\ (Earned(g) => Earned(g)')
  <2>1. goal'[g].defn = goal[g].defn /\ proof' = proof /\ (goal[g].status = "none" => goal'[g].status = "none")
    BY <1>1, <1>4 DEF Moves
  <2>2. QED
    BY <1>1, <2>1 DEF Defined, Earned
<1>5. ASSUME NEW h \in Goals, Proves(h) \/ EvaluateAchievement(h)
      PROVE  Defined(g)' /\ (Earned(g) => Earned(g)')
  <2>1. goal' = goal /\ \A n \in 1 .. MaxDefinitions : proof[g][n] = "passed" => proof'[g][n] = "passed"
    <3>1. CASE ScheduleAssessments(h)
      BY <1>1, <3>1, GoalConstants DEF ScheduleAssessments, Defined
    <3>2. ASSUME NEW m \in 1 .. MaxDefinitions, SubmitAssessment(h, m)
          PROVE  goal' = goal /\ \A n \in 1 .. MaxDefinitions :
                                   proof[g][n] = "passed" => proof'[g][n] = "passed"
      BY <1>1, <3>2 DEF SubmitAssessment
    <3>3. CASE EvaluateAchievement(h)
      BY <3>3 DEF EvaluateAchievement
    <3>4. QED
      BY <1>5, <3>1, <3>2, <3>3 DEF Proves
  <2>2. QED
    BY <1>1, <2>1, GoalConstants DEF Defined, Earned
<1>6. QED
  BY GoalSteps, <1>2, <1>3, <1>4, <1>5

(* What becomes of a command under way.                                    *)
Quiet == {"archive", "select", "start", "complete", "advance"}
LEMMA RequestSteps ==
  ASSUME PlanInv, [Next]_vars, NEW r \in Requests
  PROVE  \/ req'[r] = req[r] \/ req'[r] = Idle \/ req'[r].cmd \in Quiet
         \/ \E d \in Drafts : ReadApply(r, d)
         \/ \E g \in Goals : ReadAchieve(r, g)
<1> DEFINE Kept == req'[r] = req[r] \/ req'[r] = Idle \/ req'[r].cmd \in Quiet
<1>0. req[r] \in Commands /\ req \in [Requests -> Commands]
  BY DEF PlanInv
<1>1. ASSUME NEW q \in Requests, Close(q) PROVE Kept
  BY <1>0, <1>1 DEF Close
<1>2. ASSUME NEW q \in Requests, NEW c, Open(q, c) PROVE req'[r] = req[r] \/ (q = r /\ req'[r] = c)
  BY <1>0, <1>2 DEF Open
<1>3. ASSUME NEW q \in Requests, AppendState(q) PROVE Kept
  <2>1. CASE req[q].cmd = "complete" /\ q = r
    <3>1. req'[r] = [req[r] EXCEPT !.cmd = "advance"]
      BY <1>0, <1>3, <2>1 DEF AppendState
    <3>2. req[r] \in [cmd : {"start", "select", "complete", "advance", "archive", "achieve"},
                      g : Goals, at : ActRefs]
      BY <1>0, <2>1 DEF Commands, Idle
    <3>3. QED
      BY <3>1, <3>2 DEF Quiet
  <2>2. CASE req[q].cmd = "complete" /\ q # r
    BY <1>0, <1>3, <2>2 DEF AppendState
  <2>3. CASE req[q].cmd # "complete"
    BY <1>1, <1>3, <2>3 DEF AppendState
  <2>4. QED
    BY <2>1, <2>2, <2>3
<1>4. ASSUME NEW q \in Requests, NEW d \in Drafts, ReadApply(q, d) PROVE Kept \/ ReadApply(r, d)
  BY <1>2, <1>4 DEF ReadApply
<1>5. ASSUME NEW q \in Requests, NEW g \in Goals, ReadAchieve(q, g) PROVE Kept \/ ReadAchieve(r, g)
  BY <1>2, <1>5 DEF ReadAchieve
<1>6. ASSUME NEW q \in Requests, NEW g \in Goals,
             ReadArchive(q, g) \/ ReadSelect(q, g) \/ ReadStart(q, g) \/ ReadComplete(q, g)
      PROVE  Kept
  <2>1. ASSUME NEW cmd \in Quiet, NEW at, Open(q, [cmd |-> cmd, g |-> g, at |-> at]) PROVE Kept
    <3>1. req'[r] = req[r] \/ req'[r] = [cmd |-> cmd, g |-> g, at |-> at]
      BY <1>2, <2>1
    <3>2. QED
      BY <3>1
  <2>2. /\ "archive" \in Quiet /\ "select" \in Quiet
        /\ "start" \in Quiet /\ "complete" \in Quiet
    BY DEF Quiet
  <2> HIDE DEF Quiet, Kept
  <2>3. ASSUME ReadArchive(q, g) PROVE Kept
    BY <2>1, <2>2, <2>3 DEF ReadArchive
  <2>4. ASSUME ReadSelect(q, g) PROVE Kept
    BY <2>1, <2>2, <2>4 DEF ReadSelect
  <2>5. ASSUME ReadStart(q, g) PROVE Kept
    BY <2>1, <2>2, <2>5 DEF ReadStart
  <2>6. ASSUME ReadComplete(q, g) PROVE Kept
    BY <2>1, <2>2, <2>6 DEF ReadComplete
  <2>7. QED
    BY <1>6, <2>3, <2>4, <2>5, <2>6
<1>7. ASSUME NEW q \in Requests,
             Approve(q) \/ CommitApply(q) \/ CommitEnd(q) \/ ApplyPending(q) \/ Advance(q) \/ Drop(q)
      PROVE  Kept
  <2>1. Close(q)
    BY <1>7 DEF Approve, CommitApply, CommitEnd, ApplyPending, Advance, Drop
  <2>2. QED
    BY <1>1, <2>1
<1>8. ASSUME NEW g \in Goals, NEW n,
             CreateDraft(g) \/ PauseGoal(g) \/ ResumeGoal(g) \/ ScheduleAssessments(g)
             \/ EvaluateAchievement(g) \/ DiagnosticPlan(g) \/ SubmitAssessment(g, n)
      PROVE  Kept
  BY <1>8 DEF CreateDraft, PauseGoal, ResumeGoal, ScheduleAssessments, EvaluateAchievement,
              DiagnosticPlan, SubmitAssessment
<1>9. ASSUME NEW d \in Drafts, CreateEditDraft(d) \/ UpdateDraft(d) \/ PreviewDraft(d) PROVE Kept
  BY <1>9 DEF CreateEditDraft, UpdateDraft, PreviewDraft
<1>10. ASSUME UNCHANGED vars PROVE Kept
  BY <1>10 DEF vars
<1>11. QED
  BY <1>1, <1>3, <1>4, <1>5, <1>6, <1>7, <1>8, <1>9, <1>10 DEF Next

(* A confirmation that has read a verdict is of a goal that has earned it. *)
LEMMA AchieversEarned ==
  ASSUME PlanInv, GoalInv, [Next]_vars, NEW r \in Requests, req'[r].cmd = "achieve"
  PROVE  Earned(req[r].g)'
<1>1. req[r] \in Commands /\ req \in [Requests -> Commands]
  BY DEF PlanInv
<1>2. CASE req'[r] = req[r]
  <2>1. PICK g \in Goals : g = req[r].g /\ req[r].cmd = "achieve"
    BY <1>1, <1>2, CommandFields
  <2>2. Earned(g)'
    <3>1. Earned(g)
      BY <2>1 DEF GoalInv
    <3>2. QED
      BY <3>1, EarnedStays
  <2>3. QED
    BY <1>2, <2>1, <2>2 DEF Earned
<1>3. CASE req'[r] # req[r]
  <2>1. PICK g \in Goals : ReadAchieve(r, g)
    <3>1. \A d \in Drafts : ReadApply(r, d) => req'[r].cmd = "apply"
      BY <1>1 DEF ReadApply, Open
    <3>2. QED
      BY <1>3, <3>1, RequestSteps DEF Idle, Quiet
  <2>2. verdict[g] /\ UNCHANGED tables /\ req'[r].g = g
    BY <1>1, <2>1 DEF ReadAchieve, Open
  <2>3. Earned(g)'
    <3>1. Earned(g)
      BY <2>2 DEF GoalInv
    <3>2. QED
      BY <3>1, EarnedStays
  <2>4. QED
    BY <2>2, <2>3 DEF Earned
<1>4. QED
  BY <1>2, <1>3

LEMMA NextGoalInv ==
  ASSUME PlanInv, GoalInv, [Next]_vars
  PROVE  GoalInv'
<1>1. /\ goal \in [Goals -> [status : GoalStatuses, defn : Nat, plan : Nat]]
      /\ focus \in Goals \cup {NoGoal} /\ verdict \in [Goals -> BOOLEAN]
      /\ \A r \in Requests : req[r] \in Commands
  BY DEF PlanInv, GoalTypes, OtherTypes
<1>2. FocusIsActive'
  <2>1. CASE Rests
    BY <2>1 DEF Rests, GoalInv, FocusIsActive
  <2>2. ASSUME NEW g \in Goals, Applies(g) PROVE FocusIsActive'
    BY <1>1, <2>2, GoalConstants DEF Applies, GoalInv, FocusIsActive
  <2>3. ASSUME NEW g \in Goals, Proves(g) \/ EvaluateAchievement(g) PROVE FocusIsActive'
    BY <2>3 DEF Proves, ScheduleAssessments, SubmitAssessment, EvaluateAchievement, GoalInv,
                FocusIsActive
  <2>4. ASSUME NEW g \in Goals, NEW status \in GoalStatuses, Moves(g, status) PROVE FocusIsActive'
    BY <1>1, <2>4, GoalConstants DEF Moves, Clears, Terminal, GoalInv, FocusIsActive
  <2>5. QED
    BY GoalSteps, <2>1, <2>2, <2>3, <2>4
<1>3. ASSUME NEW g \in Goals, goal'[g].status = "achieved" PROVE Earned(g)'
  <2>1. goal[g].status = "achieved" \/ Earned(g)
    <3>1. CASE Rests
      BY <1>3, <3>1 DEF Rests
    <3>2. ASSUME NEW h \in Goals, Applies(h) PROVE goal[g].status = "achieved"
      BY <1>1, <1>3, <3>2 DEF Applies
    <3>3. ASSUME NEW h \in Goals, Proves(h) \/ EvaluateAchievement(h)
          PROVE  goal[g].status = "achieved"
      BY <1>3, <3>3 DEF Proves, ScheduleAssessments, SubmitAssessment, EvaluateAchievement
    <3>4. ASSUME NEW h \in Goals, NEW status \in GoalStatuses, Moves(h, status)
          PROVE  goal[g].status = "achieved" \/ Earned(g)
      BY <1>1, <1>3, <3>4 DEF Moves, GoalInv
    <3>5. QED
      BY GoalSteps, <3>1, <3>2, <3>3, <3>4
  <2>2. Earned(g)
    BY <2>1 DEF GoalInv, AchievementEarned, Earned
  <2>3. QED
    BY <2>2, EarnedStays
<1>4. ASSUME NEW g \in Goals, verdict'[g] PROVE Earned(g)'
  <2>1. Earned(g)
    <3>1. CASE verdict[g]
      BY <3>1 DEF GoalInv
    <3>2. CASE ~verdict[g]
      <4>1. ASSUME NEW h \in Goals, EvaluateAchievement(h) PROVE Earned(g)
        <5>1. g = h /\ Satisfied(g) /\ goal[g].status = "active"
          BY <1>1, <1>4, <3>2, <4>1 DEF EvaluateAchievement
        <5>2. goal[g].defn \in 1 .. goal[g].defn
          BY <1>1, <5>1 DEF GoalInv, Defined
        <5>3. QED
          BY <5>1, <5>2 DEF Satisfied, Earned
      <4>2. CASE verdict' = verdict
        BY <1>4, <3>2, <4>2
      <4>3. QED
        BY GoalSteps, <4>1, <4>2
           DEF Rests, Applies, Moves, Proves, ScheduleAssessments, SubmitAssessment
    <3>3. QED
      BY <3>1, <3>2
  <2>2. QED
    BY <2>1, EarnedStays
<1>5. AchievementEarned'
  BY <1>3 DEF AchievementEarned, Earned
<1>6. \A g \in Goals : Defined(g)' /\ (verdict'[g] => Earned(g)')
  BY <1>4, EarnedStays
<1>7. \A r \in Requests : req'[r].cmd = "achieve" => Earned(req[r].g)'
  BY AchieversEarned
<1>8. QED
  BY <1>2, <1>5, <1>6, <1>7 DEF GoalInv, Earned, Defined

-----------------------------------------------------------------------------
(* Drafts.  An approval follows a preview, an application a preview or an  *)
(* approval; a command that is to apply a draft has read a preview.        *)
Pending == "approved_pending_boundary"
Follows(d, j) ==
    /\ rows[d][j] = Pending => j > 1 /\ rows[d][j - 1] = "preview_ready"
    /\ rows[d][j] = "applied" => j > 1 /\ rows[d][j - 1] \in {"preview_ready", Pending}
RowInv ==
    /\ \A d \in Drafts : \A j \in DOMAIN rows[d] : Follows(d, j)
    /\ \A r \in Requests : req[r].cmd = "apply" =>
           req[r].row \in DOMAIN rows[req[r].d] /\ rows[req[r].d][req[r].row] = "preview_ready"

LEMMA InitRowInv == Init => RowInv
  BY DEF Init, RowInv, Idle

(* What may become of the rows of drafts.                                  *)
MayFollow(d, status) ==
    \/ status \in {"draft", "preview_ready"}
    \/ rows[d] # <<>> /\ LastRow(d) = "preview_ready"
    \/ rows[d] # <<>> /\ LastRow(d) = Pending /\ status = "applied"
LEMMA RowSteps ==
  ASSUME PlanInv, RowInv, [Next]_vars
  PROVE  \/ UNCHANGED rows
         \/ \E d \in Drafts, status \in RowStatuses : MayFollow(d, status) /\ SaveDraft(d, status)
<1>0. /\ \A r \in Requests : req[r] \in Commands
      /\ \A d \in Drafts : rows[d] \in Seq(RowStatuses)
  BY DEF PlanInv, RowTypes
<1>1. ASSUME NEW g \in Goals, CreateDraft(g)
      PROVE  \E d \in Drafts, status \in RowStatuses : MayFollow(d, status) /\ SaveDraft(d, status)
  BY <1>1, GoalConstants DEF CreateDraft, MayFollow, RowStatuses
<1>2. ASSUME NEW d \in Drafts, CreateEditDraft(d) \/ UpdateDraft(d) \/ PreviewDraft(d)
      PROVE  \E status \in RowStatuses : MayFollow(d, status) /\ SaveDraft(d, status)
  BY <1>2 DEF CreateEditDraft, UpdateDraft, PreviewDraft, MayFollow, RowStatuses
<1>3. ASSUME NEW r \in Requests, Approve(r) \/ CommitApply(r)
      PROVE  \E d \in Drafts, status \in RowStatuses : MayFollow(d, status) /\ SaveDraft(d, status)
  <2>1. req[r].d \in Drafts /\ req[r].cmd = "apply" /\ req[r].row = Len(rows[req[r].d])
    BY <1>0, <1>3, CommandFields DEF Approve, CommitApply, Free
  <2>2. rows[req[r].d] # <<>> /\ LastRow(req[r].d) = "preview_ready"
    BY <1>0, <2>1 DEF RowInv, LastRow
  <2>3. SaveDraft(req[r].d, Pending) \/ SaveDraft(req[r].d, "applied")
    BY <1>3 DEF Approve, CommitApply, ApplyNow, Pending
  <2>4. QED
    BY <2>1, <2>2, <2>3 DEF MayFollow, RowStatuses, Pending
<1>4. ASSUME NEW r \in Requests, ApplyPending(r)
      PROVE  \E d \in Drafts, status \in RowStatuses : MayFollow(d, status) /\ SaveDraft(d, status)
  <2>1. PICK p \in Waiting(req[r].g) : Free(p[1], p[2]) /\ SaveDraft(p[1], "applied")
    BY <1>4 DEF ApplyPending, ApplyNow
  <2>2. p[1] \in Drafts /\ p[2] \in DOMAIN rows[p[1]] /\ rows[p[1]][p[2]] = Pending
    BY DEF Waiting, WaitingRows, DraftsOf, Pending
  <2>3. rows[p[1]] # <<>> /\ LastRow(p[1]) = Pending
    BY <1>0, <2>1, <2>2 DEF Free, LastRow
  <2>4. QED
    BY <2>1, <2>2, <2>3 DEF MayFollow, RowStatuses
<1>5. ASSUME NEW r \in Requests, NEW d \in Drafts, ReadApply(r, d) PROVE UNCHANGED rows
  BY <1>5 DEF ReadApply, tables
<1>6. ASSUME NEW r \in Requests, CommitEnd(r) \/ AppendState(r) \/ Advance(r) \/ Drop(r)
      PROVE  UNCHANGED rows
  BY <1>6 DEF CommitEnd, Transition, AppendState, Advance, Drop, tables
<1>7. ASSUME NEW g \in Goals, NEW n,
             PauseGoal(g) \/ ResumeGoal(g) \/ ScheduleAssessments(g) \/ EvaluateAchievement(g)
             \/ DiagnosticPlan(g) \/ SubmitAssessment(g, n)
      PROVE  UNCHANGED rows
  BY <1>7 DEF PauseGoal, ResumeGoal, Transition, ScheduleAssessments, EvaluateAchievement,
              DiagnosticPlan, SubmitAssessment
<1>8. ASSUME UNCHANGED vars PROVE UNCHANGED rows
  BY <1>8 DEF vars, tables
<1>9. ASSUME NEW r \in Requests, NEW g \in Goals,
             ReadArchive(r, g) \/ ReadAchieve(r, g) \/ ReadSelect(r, g) \/ ReadStart(r, g)
             \/ ReadComplete(r, g)
      PROVE  UNCHANGED rows
  BY <1>9 DEF ReadArchive, ReadAchieve, ReadSelect, ReadStart, ReadComplete, tables
<1>10. QED
  BY <1>1, <1>2, <1>3, <1>4, <1>5, <1>6, <1>7, <1>8, <1>9 DEF Next

LEMMA NextRowInv ==
  ASSUME PlanInv, RowInv, [Next]_vars
  PROVE  RowInv'
<1>0. /\ \A r \in Requests : req[r] \in Commands
      /\ req \in [Requests -> Commands]
      /\ rows \in [Drafts -> Seq(RowStatuses)]
  BY DEF PlanInv, RowTypes
<1>1. \A d \in Drafts : \A j \in DOMAIN rows[d] : j \in DOMAIN rows'[d] /\ rows'[d][j] = rows[d][j]
  <2>1. ASSUME NEW d \in Drafts, NEW status \in RowStatuses, SaveDraft(d, status),
               NEW c \in Drafts, NEW j \in DOMAIN rows[c]
        PROVE  j \in DOMAIN rows'[c] /\ rows'[c][j] = rows[c][j]
    BY <1>0, <2>1, AppendProperties DEF SaveDraft
  <2>2. QED
    BY <2>1, RowSteps
<1>2. ASSUME NEW d \in Drafts, NEW j \in DOMAIN rows'[d] PROVE Follows(d, j)'
  <2>1. CASE UNCHANGED rows
    BY <1>2, <2>1 DEF RowInv, Follows
  <2>2. ASSUME NEW c \in Drafts, NEW status \in RowStatuses, MayFollow(c, status), SaveDraft(c, status)
        PROVE  Follows(d, j)'
    <3>1. CASE c # d
      <4>1. rows'[d] = rows[d]
        BY <1>0, <2>2, <3>1 DEF SaveDraft
      <4>2. QED
        BY <1>2, <4>1 DEF RowInv, Follows
    <3>2. CASE c = d
      <4>1. /\ rows'[d] = Append(rows[d], status) /\ rows[d] \in Seq(RowStatuses)
            /\ Len(rows[d]) \in Nat /\ j \in 1 .. Len(rows[d]) + 1
            /\ rows'[d][Len(rows[d]) + 1] = status
            /\ \A i \in 1 .. Len(rows[d]) : rows'[d][i] = rows[d][i]
        BY <1>0, <1>2, <2>2, <3>2, AppendProperties DEF SaveDraft
      <4>2. CASE j \in 1 .. Len(rows[d])
        <5>1. Follows(d, j)
          BY <4>1, <4>2 DEF RowInv
        <5>2. QED
          BY <4>1, <4>2, <5>1 DEF Follows
      <4>3. CASE j = Len(rows[d]) + 1
        <5>1. \/ status \in {"draft", "preview_ready"}
              \/ Len(rows[d]) > 0 /\ rows'[d][j - 1] = "preview_ready"
              \/ Len(rows[d]) > 0 /\ rows'[d][j - 1] = Pending /\ status = "applied"
          BY <2>2, <3>2, <4>1, <4>3 DEF MayFollow, LastRow
        <5>2. QED
          BY <4>1, <4>3, <5>1 DEF Follows, Pending
      <4>4. QED
        BY <4>1, <4>2, <4>3
    <3>3. QED
      BY <3>1, <3>2
  <2>3. QED
    BY <2>1, <2>2, RowSteps
<1>3. ASSUME NEW r \in Requests, req'[r].cmd = "apply"
      PROVE  req'[r].row \in DOMAIN rows'[req'[r].d] /\ rows'[req'[r].d][req'[r].row] = "preview_ready"
  <2>1. CASE req'[r] = req[r]
    <3>1. req[r].d \in Drafts /\ req[r].row \in DOMAIN rows[req[r].d]
          /\ rows[req[r].d][req[r].row] = "preview_ready"
      BY <1>0, <1>3, <2>1, CommandFields DEF RowInv
    <3>2. QED
      BY <1>1, <2>1, <3>1
  <2>2. ASSUME NEW d \in Drafts, ReadApply(r, d)
        PROVE  req'[r].row \in DOMAIN rows'[req'[r].d] /\ rows'[req'[r].d][req'[r].row] = "preview_ready"
    <3>1. req'[r].d = d /\ req'[r].row = Len(rows[d]) /\ rows' = rows
      BY <1>0, <2>2 DEF ReadApply, Open, tables
    <3>2. Len(rows[d]) \in DOMAIN rows[d] /\ rows[d][Len(rows[d])] = "preview_ready"
      BY <1>0, <2>2 DEF ReadApply, LastRow
    <3>3. QED
      BY <3>1, <3>2
  <2>3. \A g \in Goals : ReadAchieve(r, g) => req'[r].cmd = "achieve"
    BY <1>0 DEF ReadAchieve, Open
  <2>4. QED
    BY <1>3, <2>1, <2>2, <2>3, RequestSteps DEF Idle, Quiet
<1>4. QED
  BY <1>2, <1>3 DEF RowInv, Follows

(* So between two approvals, or two applications, lies a preview.          *)
LEMMA PreviewBetween == PlanInv /\ RowInv => EachPreviewOnce
<1> SUFFICES ASSUME PlanInv, RowInv, NEW d \in Drafts, NEW j \in DOMAIN rows[d], NEW i \in 1 .. (j - 1),
                    rows[d][i] = rows[d][j], rows[d][j] \in {"approved_pending_boundary", "applied"}
             PROVE  \E k \in i .. j : rows[d][k] = "preview_ready"
  BY DEF EachPreviewOnce
<1>1. DOMAIN rows[d] = 1 .. Len(rows[d]) /\ Len(rows[d]) \in Nat
  BY DEF PlanInv, RowTypes
<1>2. CASE rows[d][j - 1] = "preview_ready"
  BY <1>1, <1>2
<1>3. CASE rows[d][j - 1] = Pending /\ rows[d][j] = "applied"
  <2>1. i # j - 1
    BY <1>3 DEF Pending
  <2>2. j - 1 \in DOMAIN rows[d] /\ j - 2 \in i .. j
    BY <1>1, <2>1
  <2>3. rows[d][(j - 1) - 1] = "preview_ready"
    BY <1>3, <2>2 DEF RowInv, Follows
  <2>4. QED
    BY <1>1, <2>2, <2>3
<1>4. QED
  BY <1>2, <1>3 DEF RowInv, Follows, Pending

(* A goal that has ended is left as it is by every step.                   *)
LEMMA EndedStays ==
  ASSUME PlanInv, [Next]_vars, NEW g \in Goals, goal[g].status \in Terminal
  PROVE  goal'[g] = goal[g]
<1>1. goal \in [Goals -> [status : GoalStatuses, defn : Nat, plan : Nat]]
  BY DEF PlanInv, GoalTypes
<1>2. ASSUME NEW h \in Goals, Applies(h) PROVE goal'[g] = goal[g]
  BY <1>1, <1>2 DEF Applies, Terminal
<1>3. ASSUME NEW h \in Goals, NEW status \in GoalStatuses, Moves(h, status) PROVE goal'[g] = goal[g]
  BY <1>1, <1>3 DEF Moves, Terminal
<1>4. ASSUME NEW h \in Goals, Proves(h) \/ EvaluateAchievement(h) PROVE goal'[g] = goal[g]
  BY <1>4 DEF Proves, ScheduleAssessments, SubmitAssessment, EvaluateAchievement
<1>5. QED
  BY GoalSteps, <1>2, <1>3, <1>4 DEF Rests

-----------------------------------------------------------------------------
(* The history of a goal's plans.                                          *)

(* How the state of an activity may change.                                *)
Legal(s, t) ==
    \/ s = t
    \/ <<s, t>> \in {<<"planned", "available">>, <<"available", "active">>,
                     <<"active", "completed">>, <<"active", "superseded">>}

(* From ps to qs records are added, none is revived, and activities go on. *)
Onward(ps, qs) ==
    /\ Len(ps) <= Len(qs)
    /\ \A v \in DOMAIN ps :
         /\ ps[v].status # "active" => qs[v].status # "active"
         /\ \A a \in Acts : Legal(ps[v].acts[a], qs[v].acts[a])

(* ... and the activities stay where they are.                             *)
Onto(ps, qs) == Onward(ps, qs) /\ \A v \in DOMAIN ps : ps[v].acts = qs[v].acts

LEMMA OnwardThenOnto ==
  ASSUME NEW ps \in Seq(Plan), NEW qs \in Seq(Plan), NEW rs \in Seq(Plan),
         Onward(ps, qs), Onto(qs, rs)
  PROVE  Onward(ps, rs)
  BY DEF Onward, Onto

LEMMA OntoItself == ASSUME NEW ps \in Seq(Plan) PROVE Onto(ps, ps)
  BY DEF Onto, Onward, Legal

LEMMA ActOnward ==
  ASSUME NEW ps \in Seq(Plan), NEW v, NEW a \in Acts, NEW st \in ActStatuses,
         v \in DOMAIN ps => Legal(ps[v].acts[a], st)
  PROVE  Onward(ps, [ps EXCEPT ![v].acts[a] = st])
<1> DEFINE e == [ps[v] EXCEPT !.acts[a] = st]
           qs == [ps EXCEPT ![v].acts[a] = st]
<1>1. CASE v \in 1 .. Len(ps)
  <2>1. ps[v] \in Plan
    BY <1>1
  <2>2. /\ e \in Plan /\ e.status = ps[v].status
        /\ \A b \in Acts : e.acts[b] = IF b = a THEN st ELSE ps[v].acts[b]
    BY <2>1 DEF Plan
  <2> HIDE DEF e
  <2>3. qs = [ps EXCEPT ![v] = e]
    BY DEF e
  <2>4. /\ Len(qs) = Len(ps)
        /\ \A w \in DOMAIN ps : qs[w] = IF w = v THEN e ELSE ps[w]
    BY <1>1, <2>2, <2>3, ExceptSeq
  <2> HIDE DEF qs
  <2>5. QED
    BY <1>1, <2>2, <2>4 DEF Onward, Legal, qs
<1>2. CASE v \notin 1 .. Len(ps)
  <2>1. qs = ps
    BY <1>2
  <2>2. QED
    BY <2>1, OntoItself DEF Onto
<1>3. QED
  BY <1>1, <1>2

LEMMA StateOnto ==
  ASSUME NEW ps \in Seq(Plan), NEW v, NEW st
  PROVE  /\ Onto(ps, [ps EXCEPT ![v].state = st])
         /\ Onto(ps, [ps EXCEPT ![v].status = "completed"])
<1>1. ASSUME NEW e, v \in 1 .. Len(ps), e.acts = ps[v].acts,
             ps[v].status # "active" => e.status # "active"
      PROVE  Onto(ps, [ps EXCEPT ![v] = e])
  <2>1. Len([ps EXCEPT ![v] = e]) = Len(ps)
    OBVIOUS
  <2>2. \A w \in DOMAIN ps : [ps EXCEPT ![v] = e][w] = IF w = v THEN e ELSE ps[w]
    OBVIOUS
  <2>3. QED
    BY <1>1, <2>1, <2>2 DEF Onto, Onward, Legal
<1>2. CASE v \in 1 .. Len(ps)
  <2>1. ps[v] \in Plan
    BY <1>2
  <2>2. PICK e : e = [ps[v] EXCEPT !.state = st]
    OBVIOUS
  <2>3. e.acts = ps[v].acts /\ e.status = ps[v].status
    BY <2>1, <2>2 DEF Plan
  <2>4. PICK f : f = [ps[v] EXCEPT !.status = "completed"]
    OBVIOUS
  <2>5. f.acts = ps[v].acts /\ f.status = "completed"
    BY <2>1, <2>4 DEF Plan
  <2>6. /\ [ps EXCEPT ![v].state = st] = [ps EXCEPT ![v] = e]
        /\ [ps EXCEPT ![v].status = "completed"] = [ps EXCEPT ![v] = f]
    BY <2>2, <2>4
  <2>7. QED
    BY <1>1, <1>2, <2>3, <2>5, <2>6
<1>3. CASE v \notin 1 .. Len(ps)
  <2>1. [ps EXCEPT ![v].state = st] = ps /\ [ps EXCEPT ![v].status = "completed"] = ps
    BY <1>3
  <2>2. QED
    BY <2>1, OntoItself
<1>4. QED
  BY <1>2, <1>3

LEMMA AddOnto ==
  ASSUME NEW ps \in Seq(Plan), NEW state \in PlanStates, NEW open \in BOOLEAN,
         NEW acts \in [Acts -> ActStatuses]
  PROVE  Onto(ps, AddPlan(ps, state, open, acts))
<1> DEFINE new == [status |-> "active", state |-> state, open |-> open, acts |-> acts]
<1>1. \A v \in DOMAIN ps : /\ Retired(ps)[v].acts = ps[v].acts
                           /\ Retired(ps)[v].status \in {ps[v].status, "superseded"}
                           /\ Retired(ps)[v] \in Plan
  <2> TAKE v \in DOMAIN ps
  <2>1. ps[v] \in Plan
    OBVIOUS
  <2>2. QED
    BY <2>1 DEF Retired, Plan, PlanStatuses
<1>2. Retired(ps) \in Seq(Plan) /\ Len(Retired(ps)) = Len(ps)
  <2>1. Len(ps) \in Nat /\ DOMAIN ps = 1 .. Len(ps)
    OBVIOUS
  <2>2. Retired(ps) \in [1 .. Len(ps) -> Plan] /\ DOMAIN Retired(ps) = 1 .. Len(ps)
    BY <1>1, <2>1 DEF Retired
  <2>3. QED
    BY <2>1, <2>2
<1>3. new \in Plan
  BY DEF Plan, PlanStatuses
<1> HIDE DEF new
<1>4. AddPlan(ps, state, open, acts) = Append(Retired(ps), new)
  BY DEF AddPlan, new
<1>5. QED
  BY <1>1, <1>2, <1>3, <1>4, AppendProperties DEF Onto, Onward, Legal

(* No step shortens, revives or turns back the history of a goal: whatever *)
(* a command had read, it writes only where the rows are still as read.    *)
LEMMA NextOnward ==
  ASSUME PlanInv, [Next]_vars, NEW h \in Goals
  PROVE  Onward(plans[h], plans'[h])
<1> USE DEF PlanInv
<1>0. /\ \A g \in Goals : plans[g] \in Seq(Plan)
      /\ \A r \in Requests : req[r] \in Commands
      /\ plans \in [Goals -> Seq(Plan)]
  BY DEF PlanTypes
<1>1. ASSUME NEW g \in Goals, NEW qs, plans' = [plans EXCEPT ![g] = qs], Onward(plans[g], qs)
      PROVE  Onward(plans[h], plans'[h])
  BY <1>0, <1>1, OntoItself DEF Onto
<1>2. CASE UNCHANGED plans
  BY <1>0, <1>2, OntoItself DEF Onto
<1>3. ASSUME NEW g \in Goals, PauseGoal(g) \/ ResumeGoal(g)
      PROVE  Onward(plans[h], plans'[h])
  <2>1. PICK st : plans' = [plans EXCEPT ![g] = [plans[g] EXCEPT ![goal[g].plan].state = st]]
    BY <1>3 DEF PauseGoal, ResumeGoal, Transition
  <2> DEFINE qs == [plans[g] EXCEPT ![goal[g].plan].state = st]
  <2>2. Onto(plans[g], qs)
    BY <1>0, StateOnto
  <2>3. plans' = [plans EXCEPT ![g] = qs]
    BY <2>1
  <2> HIDE DEF qs
  <2>4. QED
    BY <1>1, <2>2, <2>3 DEF Onto
<1>4. ASSUME NEW g \in Goals, NEW d \in Drafts, NEW qs \in Seq(Plan), NEW sf \in BOOLEAN,
             Onward(plans[g], qs), ApplyNow(g, d, qs, sf)
      PROVE  Onward(plans[h], plans'[h])
  <2> DEFINE acts == [a \in Acts |-> IF a = 1 THEN "available" ELSE "planned"]
             rs == AddPlan(qs, "active", FALSE, acts)
  <2>1. acts \in [Acts -> ActStatuses]
    BY DEF ActStatuses
  <2>2. plans' = [plans EXCEPT ![g] = rs]
    BY <1>4 DEF ApplyNow
  <2> HIDE DEF acts
  <2>3. Onto(qs, rs)
    BY <2>1, AddOnto DEF PlanStates
  <2> HIDE DEF rs
  <2>4. Onward(plans[g], rs)
    BY <1>0, <1>4, <2>3 DEF Onward, Onto
  <2>5. QED
    BY <1>1, <2>2, <2>4
<1>5. ASSUME NEW g \in Goals, DiagnosticPlan(g)
      PROVE  Onward(plans[h], plans'[h])
  <2> DEFINE acts == [a \in Acts |-> "planned"]
  <2>1. acts \in [Acts -> ActStatuses]
    BY DEF ActStatuses
  <2>2. plans' = [plans EXCEPT ![g] = AddPlan(plans[g], "none", TRUE, acts)]
    BY <1>0, <1>5 DEF DiagnosticPlan
  <2> HIDE DEF acts
  <2>3. QED
    BY <1>0, <1>1, <2>1, <2>2, AddOnto DEF PlanStates, Onto
<1>6. ASSUME NEW g \in Goals, NEW at \in ActRefs, at # NoAct => Act(g, at) = "active",
             NEW qs, qs = IF at = NoAct THEN plans[g]
                          ELSE [plans[g] EXCEPT ![at[1]].acts[at[2]] = "superseded"]
      PROVE  qs \in Seq(Plan) /\ Onward(plans[g], qs)
  <2>1. CASE at = NoAct
    BY <1>0, <1>6, <2>1, OntoItself DEF Onto
  <2>2. CASE at # NoAct
    <3>1. at[2] \in Acts
      BY <2>2 DEF ActRefs
    <3>2. Legal(plans[g][at[1]].acts[at[2]], "superseded")
      BY <1>6, <2>2 DEF Act, Legal
    <3>3. QED
      BY <1>0, <1>6, <2>2, <3>1, <3>2, ActChanged, ActOnward DEF ActStatuses
  <2>3. QED
    BY <2>1, <2>2
<1>7. ASSUME NEW r \in Requests, CommitApply(r)
      PROVE  Onward(plans[h], plans'[h])
  <2> DEFINE d == req[r].d
             g == GoalOf[d]
             at == pinned[d]
             ps == IF at = NoAct THEN plans[g]
                   ELSE [plans[g] EXCEPT ![at[1]].acts[at[2]] = "superseded"]
  <2>1. d \in Drafts /\ g \in Goals /\ at \in ActRefs
    BY <1>0, <1>7, CommandFields, GoalConstants DEF CommitApply, OtherTypes
  <2>2. (at # NoAct => Act(g, at) = "active") /\ \E sf \in BOOLEAN : ApplyNow(g, d, ps, sf)
    BY <1>7 DEF CommitApply
  <2>3. ps \in Seq(Plan) /\ Onward(plans[g], ps)
    <3> HIDE DEF d
    <3>1. QED
      BY <1>6, <2>1, <2>2
  <2> HIDE DEF d, ps
  <2>4. QED
    BY <1>4, <2>1, <2>2, <2>3
<1>8. ASSUME NEW r \in Requests, CommitEnd(r)
      PROVE  Onward(plans[h], plans'[h])
  <2> DEFINE g == req[r].g
             at == req[r].at
             ps == IF at = NoAct THEN plans[g]
                   ELSE [plans[g] EXCEPT ![at[1]].acts[at[2]] = "superseded"]
  <2>1. g \in Goals /\ at \in ActRefs
    BY <1>0, <1>8, CommandFields DEF CommitEnd
  <2>2. /\ at # NoAct => Act(g, at) = "active"
        /\ \E status, state : Transition(g, ps, status, state)
    BY <1>8 DEF CommitEnd
  <2>3. ps \in Seq(Plan) /\ Onward(plans[g], ps)
    <3> HIDE DEF g, at
    <3>1. QED
      BY <1>6, <2>1, <2>2
  <2> HIDE DEF g, ps
  <2>4. PICK st : plans' = [plans EXCEPT ![g] = [ps EXCEPT ![goal[g].plan].state = st]]
    BY <2>2 DEF Transition
  <2>5. Onto(ps, [ps EXCEPT ![goal[g].plan].state = st])
    BY <2>3, StateOnto
  <2>6. Onward(plans[g], [ps EXCEPT ![goal[g].plan].state = st])
    BY <1>0, <2>1, <2>3, <2>5 DEF Onward, Onto
  <2>7. QED
    BY <1>1, <2>1, <2>4, <2>6
<1>9. ASSUME NEW r \in Requests, AppendState(r)
      PROVE  Onward(plans[h], plans'[h])
  <2> DEFINE c == req[r]
  <2>1. c \in Commands /\ c.cmd \in {"select", "start", "complete"} /\ c.g \in Goals
        /\ c.at \in ActRefs
    BY <1>0, <1>9, CommandFields DEF AppendState, From
  <2>2. To[c.cmd] \in ActStatuses /\ Legal(plans[c.g][c.at[1]].acts[c.at[2]], To[c.cmd])
    BY <1>9, <2>1 DEF AppendState, Act, From, To, ActStatuses, Legal
  <2>3. plans' = [plans EXCEPT ![c.g] = [plans[c.g] EXCEPT ![c.at[1]].acts[c.at[2]] = To[c.cmd]]]
    BY <1>0, <1>9, <2>1 DEF AppendState, SetAct
  <2> HIDE DEF c
  <2>4. CASE c.at[2] \in Acts
    <3> DEFINE qs == [plans[c.g] EXCEPT ![c.at[1]].acts[c.at[2]] = To[c.cmd]]
    <3>1. Onward(plans[c.g], qs)
      BY <1>0, <2>1, <2>2, <2>4, ActOnward
    <3>2. plans' = [plans EXCEPT ![c.g] = qs]
      BY <2>3
    <3> HIDE DEF qs
    <3>3. QED
      BY <1>1, <2>1, <3>1, <3>2
  <2>5. CASE c.at = NoAct
    <3>1. c.at[1] \notin DOMAIN plans[c.g]
      BY <1>0, <2>1, <2>5 DEF NoAct
    <3>2. [plans[c.g] EXCEPT ![c.at[1]].acts[c.at[2]] = To[c.cmd]] = plans[c.g]
      BY <1>0, <2>1, <3>1
    <3>3. QED
      BY <1>0, <1>1, <2>1, <2>3, <3>2, OntoItself DEF Onto
  <2>6. QED
    BY <2>1, <2>4, <2>5 DEF ActRefs
<1>10. ASSUME NEW r \in Requests, ApplyPending(r)
       PROVE  Onward(plans[h], plans'[h])
  <2> DEFINE g == req[r].g
  <2>1. g \in Goals
    BY <1>0, <1>10, CommandFields DEF ApplyPending
  <2>2. PICK p \in Waiting(g) : ApplyNow(g, p[1], plans[g], FALSE)
    BY <1>10 DEF ApplyPending
  <2>3. p[1] \in Drafts
    BY DEF Waiting, DraftsOf
  <2> HIDE DEF g
  <2>4. QED
    BY <1>0, <1>4, <2>1, <2>2, <2>3, OntoItself DEF Onto
<1>11. ASSUME NEW r \in Requests, Advance(r)
       PROVE  Onward(plans[h], plans'[h])
  <2> DEFINE g == req[r].g
             v == req[r].at[1]
             later == {a \in Planned(g, v) : a > req[r].at[2]}
             f == FirstOf(later)
  <2>1. g \in Goals
    BY <1>0, <1>11, CommandFields DEF Advance
  <2>2. CASE later # {}
    <3>1. f \in later
      <4>1. later \in SUBSET Nat
        BY DEF Planned, Acts
      <4> HIDE DEF later, g, v
      <4>2. FirstOf(later) \in later
        BY <2>2, <4>1, FirstIsIn
      <4>3. QED
        BY <4>2 DEF f
    <3>2. f \in Acts /\ Legal(plans[g][v].acts[f], "available")
      BY <3>1 DEF Planned, Legal
    <3>3. plans' = [plans EXCEPT ![g] = [plans[g] EXCEPT ![v].acts[f] = "available"]]
      BY <1>0, <1>11, <2>1, <2>2 DEF Advance
    <3> HIDE DEF f, g, v
    <3>4. QED
      BY <1>0, <1>1, <2>1, <3>2, <3>3, ActOnward DEF ActStatuses
  <2>3. CASE plans' = [plans EXCEPT ![g][v].status = "completed"]
    <3>1. plans' = [plans EXCEPT ![g] = [plans[g] EXCEPT ![v].status = "completed"]]
      BY <1>0, <2>1, <2>3
    <3> HIDE DEF later, g, v
    <3>2. QED
      BY <1>0, <1>1, <2>1, <3>1, StateOnto DEF Onto
  <2>4. QED
    BY <1>2, <1>11, <2>2, <2>3 DEF Advance
<1>12. QED
  <2>1. ASSUME NEW g \in Goals, \/ CreateDraft(g) \/ ScheduleAssessments(g)
                                \/ EvaluateAchievement(g)
                                \/ \E n \in 1 .. MaxDefinitions : SubmitAssessment(g, n)
        PROVE  UNCHANGED plans
    BY <2>1 DEF CreateDraft, ScheduleAssessments, EvaluateAchievement, SubmitAssessment
  <2>2. ASSUME NEW d \in Drafts, CreateEditDraft(d) \/ UpdateDraft(d) \/ PreviewDraft(d)
        PROVE  UNCHANGED plans
    BY <2>2 DEF CreateEditDraft, UpdateDraft, PreviewDraft
  <2>3. ASSUME NEW r \in Requests, \/ \E d \in Drafts : ReadApply(r, d)
                                   \/ \E g \in Goals : \/ ReadArchive(r, g) \/ ReadAchieve(r, g)
                                                       \/ ReadSelect(r, g) \/ ReadStart(r, g)
                                                       \/ ReadComplete(r, g)
                                   \/ Approve(r) \/ Drop(r)
        PROVE  UNCHANGED plans
    BY <2>3 DEF ReadApply, ReadArchive, ReadAchieve, ReadSelect, ReadStart, ReadComplete, Approve,
       Drop, tables
  <2>4. UNCHANGED vars => UNCHANGED plans
    BY DEF vars, tables
  <2>5. QED
    BY <1>2, <1>3, <1>5, <1>7, <1>8, <1>9, <1>10, <1>11, <2>1, <2>2, <2>3, <2>4 DEF Next

-----------------------------------------------------------------------------
(* The theorems.                                                           *)
THEOREM GoalInvariants == Spec => [](PlanInv /\ GoalInv /\ RowInv)
<1>1. Init => PlanInv /\ GoalInv /\ RowInv
  BY InitPlanInv, InitGoalInv, InitRowInv
<1>2. PlanInv /\ GoalInv /\ RowInv /\ [Next]_vars => (PlanInv /\ GoalInv /\ RowInv)'
  BY NextPlanInv, NextGoalInv, NextRowInv
<1>3. QED
  BY <1>1, <1>2, PTL DEF Spec

(* The type invariant, for every set of goals, drafts and commands.        *)
THEOREM GoalTypeCorrectness == Spec => []TypeOK
  BY GoalInvariants, PlanInvImplies, PTL

(* GOAL-032: one plan record of a goal is current, the newest.             *)
THEOREM OnePlanAtATime == Spec => []OneCurrentPlan
  BY GoalInvariants, PlanInvImplies, PTL

(* GOAL-033: the focus is only ever on an active goal.                     *)
THEOREM FocusOnActive == Spec => []FocusIsActive
<1>1. GoalInv => FocusIsActive
  BY DEF GoalInv
<1>2. QED
  BY <1>1, GoalInvariants, PTL

(* GOAL-052: an achievement was proved under a definition of the goal.     *)
THEOREM ProvedAchievements == Spec => []AchievementEarned
<1>1. GoalInv => AchievementEarned
  BY DEF GoalInv
<1>2. QED
  BY <1>1, GoalInvariants, PTL

(* Whatever clicks, boundaries and retries do, a preview counts once.      *)
THEOREM PreviewsCountOnce == Spec => []EachPreviewOnce
  BY GoalInvariants, PreviewBetween, PTL

(* GOAL-041: archived and achieved are final.                              *)
THEOREM EndsAreFinal == Spec => TerminalGoal
<1>1. PlanInv /\ [Next]_vars => [\A g \in Goals : goal[g].status \in Terminal => goal'[g] = goal[g]]_vars
  BY EndedStays
<1>2. QED
  BY <1>1, GoalInvariants, PTL DEF Spec, TerminalGoal

(* The history of a goal's plans only grows: no record is lost, a retired  *)
(* one is never current again, and no activity is taken up twice or moved  *)
(* back, whichever starts, completions, edits, boundaries and ends had     *)
(* read it before another changed it (select_next, start, complete,        *)
(* apply_draft, apply_pending_at_boundary, archive_goal).                  *)
THEOREM HistoryGoesOn == Spec => [][\A g \in Goals : Onward(plans[g], plans'[g])]_vars
<1>1. PlanInv /\ [Next]_vars => [\A g \in Goals : Onward(plans[g], plans'[g])]_vars
  BY NextOnward
<1>2. QED
  BY <1>1, GoalInvariants, PTL DEF Spec
=============================================================================
