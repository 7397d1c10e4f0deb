----------------------------- MODULE BookJourney -----------------------------
(***************************************************************************)
(* The way of one published book to its first teaching round: readiness    *)
(* names the next command, the page advances it (adopt a goal, map it,     *)
(* diagnose, plan, select) or the learner answers a diagnostic item.       *)
(*                                                                         *)
(* Every table is a stream of versions.  A command's reads come before the *)
(* transaction that its first write opens, so a command asks (readiness),  *)
(* reads (the version it will append and what it is made of) and commits;  *)
(* an answer scores in its transaction, so it only reads the need before   *)
(* it.  A version somebody else has taken is not written a second time:    *)
(* the repositories return the row they find.                              *)
(***************************************************************************)
EXTENDS Integers, Sequences, FiniteSets

CONSTANTS
    Requests,    \* requests in flight
    Keys,        \* idempotency keys that several advances may carry
    Fresh,       \* a key no other request carries
    Units,       \* hard prerequisites of the target, closed under Edges
    Target,      \* the knowledge unit the goal is mapped to
    Edges,       \* <<prerequisite, unit>> of the published relations
    Histories,   \* bound: what the learner's record may say before the book
    MaxAttempts, \* max_attempts of a diagnosis
    MaxOutside,  \* bound: later publications and goal assessments
    MaxOverlaps  \* bound: requests begun while another is under way

ASSUME JourneyConstants ==
    /\ Fresh \notin Keys /\ Target \notin Units /\ IsFiniteSet(Units) /\ IsFiniteSet(Requests)
    /\ Edges \subseteq Units \X (Units \cup {Target})
    /\ Histories \subseteq [Units -> {"unknown", "unmet", "sufficient"}]
    /\ MaxAttempts \in Nat \ {0} /\ MaxOutside \in Nat /\ MaxOverlaps \in Nat

VARIABLES
    goals,     \* status of the latest version of each goal made for the book
    shown,     \* the goal readiness shows, 0 if there is none
    published, \* graph version, and version of the hard relations in it
    mapping,   \* the mapping versions of each goal
    need,      \* latest DiagnosticNeed made from each mapping version
    plan,      \* latest LearningPlan of each goal
    learner,   \* latest LearnerState, and evidence it has not taken in
    mastery,   \* what the learner's record says of each prerequisite
    advances,  \* number of BookLearningAdvanceRecords of each key
    req,       \* requests under way
    overlaps,  \* requests begun so far while another was under way
    outside    \* publications and assessments so far

vars == <<goals, shown, published, mapping, need, plan, learner, mastery, advances, req, overlaps, outside>>
rest == <<goals, shown, published, mapping, mastery, learner, outside>>

Classes  == {"unknown", "unmet", "sufficient"}
Eligible == {"resolved", "remediation", "budget"}   \* generate_plan goes on from these
Stops    == Eligible \cup {"no_item", "low_confidence", "system"}

GoalIds == 1 .. Cardinality(Requests)   \* every goal is made by a request that saw none
Graphs  == 1 .. (1 + MaxOutside)
MapIds  == 1 .. ((1 + MaxOutside) * Cardinality(Requests))

NoNeed  == [v |-> 0, m |-> 0, stop |-> "none", used |-> 0, asked |-> Target, learner |-> 0]
NoPlan  == [v |-> 0, graph |-> 0, learner |-> 0, chosen |-> FALSE]
Need    == [v : Nat, m : {0} \cup MapIds, stop : Stops \cup {"none"}, used : 0 .. MaxAttempts,
            asked : Units \cup {Target}, learner : Nat]
Mapping == [graph : Graphs, rel : Graphs, confirmed : BOOLEAN]
Plan    == [v : Nat, graph : Nat, learner : Nat, chosen : BOOLEAN]

Idle == [at |-> "idle"]
Asked(c, k) == [at |-> "asked", cmd |-> c, g |-> shown, key |-> k]

(* A new request, alone or while another one is under way.                 *)
Begin(r, q) ==
    LET alone == \A p \in Requests : req[p] = Idle
    IN  /\ req[r] = Idle /\ (alone \/ overlaps < MaxOverlaps)
        /\ req' = [req EXCEPT ![r] = q]
        /\ overlaps' = IF alone THEN overlaps ELSE overlaps + 1

-----------------------------------------------------------------------------
(* The prerequisite diagnosis: which unknown prerequisites bear on what    *)
(* the learner is to do next.                                              *)
In(class, of) == {u \in Units : of[u] = class}
Under(u)      == {e[1] : e \in {d \in Edges : d[2] = u}}
Downstream(u) == Cardinality({e \in Edges : e[1] = u})

(* _first_unresolved_descendants: breadth first through unmet units, the   *)
(* unknown prerequisites of the first unit that has some (units at the     *)
(* same depth are visited in the order of their ids: any is the first).    *)
Layers(root, of) ==
    LET L[n \in 0 .. Cardinality(Units)] ==
            IF n = 0 THEN {root}
            ELSE (UNION {Under(u) : u \in L[n - 1]}) \cap In("unmet", of)
    IN  L
BadDeeper(root, of) == {Under(root) \cap In("unknown", of)}   \* does not descend
Deeper(root, of) ==
    LET L     == Layers(root, of)
        hits  == {n \in DOMAIN L : \E u \in L[n] : Under(u) \cap In("unknown", of) # {}}
        first == CHOOSE n \in hits : \A k \in hits : n <= k
    IN  IF hits = {} THEN {{}}
        ELSE {Under(u) \cap In("unknown", of) : u \in L[first]} \ {{}}

Candidates(of) ==
    LET unmet == Under(Target) \cap In("unmet", of)
    IN  {(Under(Target) \cap In("unknown", of)) \cup UNION {f[u] : u \in unmet} :
            f \in {h \in [unmet -> SUBSET Units] : \A u \in unmet : h[u] \in Deeper(u, of)}}

(* build_need and _attach_item_or_stop: the need's next version.           *)
BadSpent(used) == used > MaxAttempts   \* one attempt too many
Spent(used) == used >= MaxAttempts
Best(cands) == {u \in cands : \A w \in cands : Downstream(w) <= Downstream(u)}
BuiltNeeds(v, m, used, lv, of) ==
    LET row(stop, unit) == [v |-> v, m |-> m, stop |-> stop, used |-> used,
                            asked |-> unit, learner |-> lv]
    IN  UNION {IF cands = {}
               THEN {row(IF Under(Target) \cap In("unmet", of) # {} THEN "remediation"
                         ELSE "resolved", Target)}
               ELSE IF Spent(used) THEN {row("budget", Target)}
               ELSE {row(stop, u) : stop \in {"none", "no_item"}, u \in Best(cands)} :
               cands \in Candidates(of)}

-----------------------------------------------------------------------------
(* Readiness of the book, and the command it allows.                       *)
LatestMap(g) == mapping[g][Len(mapping[g])]

(* _latest_diagnostic and latest_for_mapping: by version alone, whichever  *)
(* mapping version it was made for (a tie goes to the older mapping).      *)
LatestNeed(g) ==
    LET m == CHOOSE i \in MapIds : \A j \in MapIds :
                need[g][j].v < need[g][i].v \/ (need[g][j].v = need[g][i].v /\ i <= j)
    IN  need[g][m]

PlanStale(g) == \/ plan[g].graph # LatestMap(g).graph
                \/ plan[g].learner # learner.v

State ==
    LET g == shown
        n == LatestNeed(g)
    IN  IF g = 0 THEN "READY_FOR_GOAL"
        ELSE IF goals[g] = "candidate" THEN "GOAL_CONFIRMATION_REQUIRED"
        ELSE IF mapping[g] = <<>> THEN "MAPPING_REQUIRED"
        ELSE IF ~LatestMap(g).confirmed THEN "BLOCKED"
        ELSE IF LatestMap(g).graph # published.graph THEN "MAPPING_REQUIRED"
        ELSE IF n.v = 0 THEN "DIAGNOSIS_REQUIRED"
        ELSE IF n.stop = "none" THEN "DIAGNOSING"
        ELSE IF n.stop \notin Eligible THEN "BLOCKED"
        ELSE IF plan[g].v = 0 \/ PlanStale(g) THEN "PLAN_REQUIRED"
        ELSE IF plan[g].chosen THEN "READY_TO_LEARN" ELSE "PLAN_READY"

Command == CASE State \in {"READY_FOR_GOAL", "GOAL_CONFIRMATION_REQUIRED"} -> "adopt"
             [] State = "MAPPING_REQUIRED"   -> "map"
             [] State = "DIAGNOSIS_REQUIRED" -> "diagnose"
             [] State = "PLAN_REQUIRED"      -> "plan"
             [] State = "PLAN_READY"         -> "select"
             [] OTHER                        -> "none"

Init ==
    /\ goals = <<>> /\ shown = 0
    /\ published = [graph |-> 1, rel |-> 1]
    /\ mapping = [g \in GoalIds |-> <<>>]
    /\ need = [g \in GoalIds |-> [m \in MapIds |-> NoNeed]]
    /\ plan = [g \in GoalIds |-> NoPlan]
    /\ learner = [v |-> 0, behind |-> FALSE]
    /\ mastery \in Histories
    /\ advances = [k \in Keys |-> 0]
    /\ req = [r \in Requests |-> Idle] /\ overlaps = 0 /\ outside = 0

-----------------------------------------------------------------------------
(* advance: a key that has its record is answered from it.                 *)
Advance(r, k) ==
    /\ Command # "none"
    /\ k \in Keys => advances[k] = 0
    /\ Begin(r, Asked(Command, k))
    /\ UNCHANGED <<rest, need, plan, advances>>

(* The candidate of a user who names the intent, instead of an advance.    *)
CreateCandidate(r) ==
    /\ State = "READY_FOR_GOAL"
    /\ Begin(r, Asked("candidate", Fresh))
    /\ UNCHANGED <<rest, need, plan, advances>>

(* confirm_goal: a candidate that has been adopted meanwhile is refused, or *)
(* its version is found taken; either way the goal is out of candidacy.     *)
ConfirmGoal(g) ==
    /\ g \in DOMAIN goals /\ goals[g] = "candidate"
    /\ goals' = [goals EXCEPT ![g] = "active"]
    /\ UNCHANGED <<shown, published, mapping, need, plan, learner, mastery, advances, req, overlaps, outside>>

(* LearnerState is made by the diagnostic services alone, of the evidence  *)
(* recorded so far: where it is behind, the command opens its transaction  *)
(* with the new version, and all it reads afterwards is current.           *)
Behind == learner.v = 0 \/ learner.behind
Ensured(l) == IF l.v = 0 \/ l.behind THEN [v |-> l.v + 1, behind |-> FALSE] ELSE l

(* What a command that has been asked for reads, and the row it makes of   *)
(* it: a set, for a mapping may be blocked and an item may be missing.     *)
BadMatches(p, graph, lv) == p.v # 0   \* any active plan will do
Matches(p, graph, lv) == p.v # 0 /\ p.learner = lv /\ p.graph = graph

NewMappings == {[graph |-> published.graph, rel |-> published.rel, confirmed |-> c] : c \in BOOLEAN}
NewNeeds(g) ==
    LET m == Len(mapping[g])
    IN  BuiltNeeds(need[g][m].v + 1, m, 0, Ensured(learner).v, mastery)
SameEdges(g, n) == mapping[g][n.m].rel = published.rel   \* else PREREQUISITE_GRAPH_STALE
NewPlan(g, m, lv) ==
    [v |-> plan[g].v + 1, graph |-> mapping[g][m].graph, learner |-> lv, chosen |-> FALSE]
Planned(g) ==
    LET n == LatestNeed(g)
        p == NewPlan(g, n.m, Ensured(learner).v)
    IN  IF Matches(plan[g], p.graph, p.learner) THEN plan[g] ELSE p

Readable(c, g) ==
    CASE c \in {"adopt", "candidate"} ->
            State \in {"READY_FOR_GOAL", "GOAL_CONFIRMATION_REQUIRED"}
      [] c = "map"      -> TRUE
      [] c = "diagnose" -> /\ mapping[g] # <<>> /\ LatestMap(g).confirmed
                           /\ LatestMap(g).rel = published.rel
      [] c = "plan"     -> LET n == LatestNeed(g)
                           IN  n.stop \in Eligible /\ SameEdges(g, n)
      [] c = "select"   -> State = "PLAN_READY"

Rows(c, g) ==
    CASE c \in {"adopt", "candidate"} -> {shown}
      [] c = "map"      -> NewMappings
      [] c = "diagnose" -> NewNeeds(g)
      [] c = "plan"     -> {Planned(g)}
      [] c = "select"   -> {plan[g]}

(* The reads of a command; it is refused where they do not allow it.       *)
Transacted(c) == c \in {"diagnose", "plan"} /\ Behind
Readied(q, row) ==
    [at |-> "read", cmd |-> q.cmd, g |-> q.g, key |-> q.key, row |-> row,
     n |-> IF q.cmd = "map" THEN Len(mapping[q.g]) ELSE 0]
Read(r) ==
    /\ req[r].at = "asked"
    /\ LET q == req[r] IN
       IF ~Readable(q.cmd, q.g) THEN req' = [req EXCEPT ![r] = Idle]
       ELSE /\ ~Transacted(q.cmd)
            /\ \E row \in Rows(q.cmd, q.g) : req' = [req EXCEPT ![r] = Readied(q, row)]
    /\ UNCHANGED <<rest, need, plan, advances, overlaps>>

(* The writes of a command that has read: each appends its row unless the  *)
(* version is taken.  A diagnosis always brings a plan of its own.         *)
Adopts(q) ==
    /\ IF q.row = 0
       THEN /\ goals' = Append(goals, IF q.cmd = "adopt" THEN "active" ELSE "candidate")
            /\ shown' \in {Len(goals) + 1} \cup ({shown} \ {0})
       ELSE /\ goals' = [goals EXCEPT ![q.row] = "active"]
            /\ UNCHANGED shown
    /\ UNCHANGED <<mapping, need, plan>>
Maps(q) ==
    /\ mapping' = IF Len(mapping[q.g]) = q.n THEN [mapping EXCEPT ![q.g] = Append(@, q.row)]
                  ELSE mapping
    /\ UNCHANGED <<goals, shown, need, plan>>
Diagnoses(q) ==
    /\ need' = IF q.row.v = need[q.g][q.row.m].v + 1
               THEN [need EXCEPT ![q.g][q.row.m] = q.row] ELSE need
    /\ plan' = [plan EXCEPT ![q.g] = NewPlan(q.g, q.row.m, q.row.learner)]
    /\ UNCHANGED <<goals, shown, mapping>>
Plans(q) ==
    /\ plan' = IF q.row.v = plan[q.g].v + 1 THEN [plan EXCEPT ![q.g] = q.row] ELSE plan
    /\ UNCHANGED <<goals, shown, mapping, need>>
Selects(q) ==
    /\ plan' = IF q.row = plan[q.g] THEN [plan EXCEPT ![q.g].chosen = TRUE] ELSE plan
    /\ UNCHANGED <<goals, shown, mapping, need>>

Writes(q) ==
    \/ q.cmd \in {"adopt", "candidate"} /\ Adopts(q)
    \/ q.cmd = "map" /\ Maps(q)
    \/ q.cmd = "diagnose" /\ Diagnoses(q)
    \/ q.cmd = "plan" /\ Plans(q)
    \/ q.cmd = "select" /\ Selects(q)

(* The command and its BookLearningAdvanceRecord, one for a key, in one    *)
(* transaction; an insert that collides, on that record or on a version    *)
(* taken since it was looked for, takes all of it back.                    *)
BadUnrecorded(q) == TRUE   \* append_advance returns the row it finds
Unrecorded(q) == q.key \in Keys => advances[q.key] = 0
Recorded(q) == IF q.key \in Keys THEN [advances EXCEPT ![q.key] = @ + 1] ELSE advances
Taken(q) == \/ q.cmd = "map" /\ Len(mapping[q.g]) # q.n
            \/ q.cmd = "diagnose" /\ q.row.v <= need[q.g][q.row.m].v
            \/ q.cmd = "plan" /\ q.row.v <= plan[q.g].v
            \/ q.cmd = "select" /\ q.row # plan[q.g]

Commit(r) ==
    /\ req[r].at = "read" /\ Unrecorded(req[r])
    /\ Writes(req[r]) /\ advances' = Recorded(req[r])
    /\ req' = [req EXCEPT ![r] = Idle]
    /\ UNCHANGED <<published, learner, mastery, overlaps, outside>>
Collide(r) ==
    /\ req[r].at = "read" /\ (~Unrecorded(req[r]) \/ Taken(req[r]))
    /\ req' = [req EXCEPT ![r] = Idle]
    /\ UNCHANGED <<rest, need, plan, advances, overlaps>>
ReadAndCommit(r) ==
    /\ req[r].at = "asked"
    /\ LET q == req[r] IN
       /\ Readable(q.cmd, q.g) /\ Transacted(q.cmd)
       /\ IF Unrecorded(q)
          THEN /\ \E row \in Rows(q.cmd, q.g) : Writes(Readied(q, row))
               /\ advances' = Recorded(q) /\ learner' = Ensured(learner)
               /\ UNCHANGED <<published, mastery, outside>>
          ELSE UNCHANGED <<rest, need, plan, advances>>
    /\ req' = [req EXCEPT ![r] = Idle]
    /\ UNCHANGED overlaps

-----------------------------------------------------------------------------
(* submit_response: it is for the version of the need that it names, which *)
(* it reads before it takes the answer down; the rest is one transaction.  *)
BeginAnswer(r, g, m) ==
    /\ need[g][m].v # 0 /\ need[g][m].stop = "none" /\ SameEdges(g, need[g][m])
    /\ Begin(r, [at |-> "answering", g |-> g, row |-> need[g][m]])
    /\ UNCHANGED <<rest, need, plan, advances>>

Supersede(g, row) == need' = [need EXCEPT ![g][row.m] = row]
Answered(r) ==
    /\ req' = [req EXCEPT ![r] = Idle]
    /\ UNCHANGED <<goals, shown, published, mapping, advances, overlaps, outside>>
NextNeed(q) == [q.row EXCEPT !.v = need[q.g][q.row.m].v + 1]

(* No item, or no grader: the need is blocked and nothing is learned of    *)
(* the learner.                                                            *)
NotScored(r) ==
    /\ req[r].at = "answering"
    /\ \E stop \in {"no_item", "system"} :
         /\ Supersede(req[r].g, [NextNeed(req[r]) EXCEPT !.stop = stop])
         /\ learner' \in {Ensured(learner)} \cup (IF stop = "no_item" THEN {learner} ELSE {})
    /\ UNCHANGED <<mastery, plan>> /\ Answered(r)

(* A result moves the learner's record and with it the LearnerState; a     *)
(* change that matters brings a plan.                                      *)
Projected(q, class) ==
    /\ mastery' = [mastery EXCEPT ![q.row.asked] = class]
    /\ learner' = [Ensured(learner) EXCEPT !.v = @ + 1]
Replanned(q) ==
    plan' \in {plan, [plan EXCEPT ![q.g] = NewPlan(q.g, q.row.m, learner'.v)]}

Scored(r) ==
    /\ req[r].at = "answering" /\ SameEdges(req[r].g, req[r].row)
    /\ LET q == req[r] IN
       \E class \in Classes :
         /\ Projected(q, class)
         /\ \E row \in BuiltNeeds(NextNeed(q).v, q.row.m, q.row.used + 1, learner'.v, mastery') :
              Supersede(q.g, row)
         /\ Replanned(q)
    /\ Answered(r)

(* Evidence that SYS03 rejects, or that was not earned alone, ends the     *)
(* diagnosis with the unknown kept.                                        *)
NotIndependent(r) ==
    /\ req[r].at = "answering"
    /\ LET q == req[r]
           row(lv) == [NextNeed(q) EXCEPT !.used = @ + 1, !.stop = "low_confidence", !.learner = lv]
       IN  \/ /\ \E class \in Classes : Projected(q, class)
              /\ IF SameEdges(q.g, q.row) THEN Replanned(q) ELSE UNCHANGED plan
              /\ Supersede(q.g, row(learner'.v))
           \/ /\ learner' = Ensured(learner) /\ UNCHANGED <<mastery, plan>>
              /\ Supersede(q.g, row(learner'.v))
    /\ Answered(r)

(* The relations were published anew since the need was read.              *)
RefuseStale(r) ==
    /\ req[r].at = "answering" /\ ~SameEdges(req[r].g, req[r].row)
    /\ UNCHANGED <<mastery, learner, need, plan>> /\ Answered(r)

-----------------------------------------------------------------------------
(* From outside: the content owner publishes a revision, a goal assessment *)
(* is scored into the learner's record.                                    *)
Publish ==
    /\ outside < MaxOutside /\ outside' = outside + 1
    /\ \E rel \in {published.rel, published.rel + 1} :
         published' = [graph |-> published.graph + 1, rel |-> rel]
    /\ UNCHANGED <<goals, shown, mapping, need, plan, learner, mastery, advances, req, overlaps>>
GoalAssessment ==
    /\ outside < MaxOutside /\ outside' = outside + 1
    /\ \E u \in Units, class \in Classes : mastery' = [mastery EXCEPT ![u] = class]
    /\ learner' = [learner EXCEPT !.behind = TRUE]
    /\ UNCHANGED <<goals, shown, published, mapping, need, plan, advances, req, overlaps>>

Serve(r) == \/ Read(r) \/ Commit(r) \/ Collide(r) \/ ReadAndCommit(r)
            \/ NotScored(r) \/ Scored(r) \/ NotIndependent(r) \/ RefuseStale(r)
Next == \/ \E r \in Requests :
              \/ \E k \in Keys \cup {Fresh} : Advance(r, k)
              \/ CreateCandidate(r) \/ Serve(r)
              \/ \E g \in GoalIds, m \in MapIds : BeginAnswer(r, g, m)
        \/ \E g \in GoalIds : ConfirmGoal(g)
        \/ Publish \/ GoalAssessment
Spec == Init /\ [][Next]_vars

(* The server ends what it has begun.  The page advances the book as long  *)
(* as readiness names a command, and the learner answers what it shows.    *)
OnThePage(r) == \/ Advance(r, Fresh)
                \/ State = "DIAGNOSING" /\ BeginAnswer(r, shown, LatestNeed(shown).m)
Fairness == /\ \A r \in Requests : WF_vars(Serve(r))
            /\ WF_vars(\E r \in Requests : OnThePage(r))
FairSpec == Spec /\ Fairness

-----------------------------------------------------------------------------
TypeOK ==
    /\ goals \in Seq({"candidate", "active"}) /\ shown \in {0} \cup DOMAIN goals
    /\ published \in [graph : Graphs, rel : Graphs]
    /\ mapping \in [GoalIds -> Seq(Mapping)]
    /\ need \in [GoalIds -> [MapIds -> Need]]
    /\ plan \in [GoalIds -> Plan]
    /\ learner \in [v : Nat, behind : BOOLEAN]
    /\ mastery \in [Units -> Classes]
    /\ advances \in [Keys -> Nat]
    /\ \A r \in Requests : req[r].at \in {"idle", "asked", "read", "answering"}
    /\ overlaps \in 0 .. MaxOverlaps /\ outside \in 0 .. MaxOutside

(* "Execute exactly one readiness-authorized owner command": requests that *)
(* race under one key, and find readiness moved on, run one command.       *)
KeyRunsOnce == \A k \in Keys : advances[k] <= 1

(* The unknown prerequisites that bear on the target: those reachable from *)
(* it through prerequisites known to be unmet.                             *)
Relevant(of) ==
    LET Reached == {S \in SUBSET Units :
            \A e \in Edges : (e[2] = Target \/ (e[2] \in S /\ of[e[2]] = "unmet")) => e[1] \in S}
    IN  {u \in Units : of[u] = "unknown" /\ \A S \in Reached : u \in S}

(* A diagnosis that claims an outcome has left nothing relevant unknown,   *)
(* by the learner's record as it is, whichever answers overtook each other *)
(* (for a need made from the record's latest state).                       *)
DiagnosisSound ==
    \A g \in GoalIds, m \in MapIds :
        LET n == need[g][m] IN
        n.stop \in {"resolved", "remediation"} /\ n.learner = learner.v /\ ~learner.behind
        => /\ Relevant(mastery) = {}
           /\ n.stop = "resolved" <=> \A u \in Under(Target) : mastery[u] = "sufficient"

(* Advancing and answering bring the book to its first round, or to a      *)
(* verdict that it is blocked -- unless it was published anew after its    *)
(* diagnosis began: that diagnosis stays the latest for every later        *)
(* mapping, and its plans are made for the old graph for good.             *)
Outdated == /\ shown # 0 /\ mapping[shown] # <<>> /\ LatestNeed(shown).v # 0
            /\ mapping[shown][LatestNeed(shown).m].graph # published.graph
Arrives == <>[](State \in {"READY_TO_LEARN", "BLOCKED"} \/ Outdated)
=============================================================================
