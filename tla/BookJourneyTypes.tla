--------------------------- MODULE BookJourneyTypes ---------------------------
(***************************************************************************)
(* The types of the journey's tables, for any number of requests and of    *)
(* publications.  Two bounds of the specification are part of them and are *)
(* what the proof is about: a request makes at most one goal, and one      *)
(* mapping of a goal in each publication of the book.                      *)
(***************************************************************************)
EXTENDS BookJourneyProofs

-----------------------------------------------------------------------------
(* Rows, by the tables they refer to.                                      *)
Adopting == {"adopt", "candidate"}
Commands == Adopting \cup {"map", "diagnose", "plan", "select"}

(* A need: made from one of the goal's mappings s, and with an attempt     *)
(* left while it is open.                                                  *)
NeedOK(n, s) == /\ n \in Need
                /\ n.v = 0 => n.stop = "none"
                /\ n.v # 0 => n.m \in DOMAIN s
                /\ n.stop = "none" => n.used < MaxAttempts

(* A request, when the goals are gs, their mappings maps, and p the graph  *)
(* that is published.                                                      *)
RowOK(q, gs, maps, p) ==
    /\ q.cmd \in Adopting  => q.row \in {0} \cup DOMAIN gs
    /\ q.cmd = "map"       => q.row \in Mapping /\ q.row.graph <= p /\ q.n \in 0 .. Len(maps[q.g])
    /\ q.cmd = "diagnose"  => NeedOK(q.row, maps[q.g]) /\ q.row.v # 0
    /\ q.cmd = "plan"      => q.row \in Plan
CommandOK(q, gs) == q.cmd \in Commands /\ (q.cmd \notin Adopting => q.g \in DOMAIN gs)
ReqOK(q, gs, maps, p) ==
    /\ q.at \in {"idle", "asked", "read", "answering"}
    /\ q.at \in {"asked", "read"} => CommandOK(q, gs)
    /\ q.at = "read" => RowOK(q, gs, maps, p)
    /\ q.at = "answering" => /\ q.g \in GoalIds /\ NeedOK(q.row, maps[q.g])
                             /\ q.row.v # 0 /\ q.row.stop = "none"

(* Requests that are about to make a goal, or a mapping of g; a mapping    *)
(* that was read before the last publication and can still be appended.    *)
Founds(q)    == q.at = "read" /\ q.cmd \in Adopting /\ q.row = 0
Founders(t)  == {r \in Requests : Founds(t[r])}
MapsFor(q, g)   == q.at \in {"asked", "read"} /\ q.cmd = "map" /\ q.g = g
Mappers(t, g)   == {r \in Requests : MapsFor(t[r], g)}
Late(q, s, p)   == q.at = "read" /\ q.n = Len(s) /\ q.row.graph # p
SomeLate(t, g, s, p) == \E r \in Requests : MapsFor(t[r], g) /\ Late(t[r], s, p)

(* Readiness asks for no further mapping of s in the publication p.        *)
Settled(s, p) == s # <<>> /\ (~s[Len(s)].confirmed \/ s[Len(s)].graph = p)

(* The pace of the mappings s of one goal, with n requests about to make   *)
(* one: settled, they end within the quota of this publication; unsettled, *)
(* they have the quota of all the earlier ones behind them.                *)
Quota(p) == p * Cardinality(Requests)
Paced(s, p, n, late) ==
    /\ s \in Seq(Mapping) /\ \A i \in DOMAIN s : s[i].graph <= p
    /\ Settled(s, p) => Len(s) + n <= Quota(p)
    /\ ~Settled(s, p) => Len(s) + (IF late THEN 1 ELSE 0) <= Quota(p - 1)
    /\ Settled(s, p) /\ late => Len(s) + n <= Quota(p - 1)

-----------------------------------------------------------------------------
(* The invariant.                                                          *)
Bounds  == /\ published \in [graph : 1 .. 1 + outside, rel : 1 .. 1 + outside]
           /\ outside \in 0 .. MaxOutside /\ overlaps \in 0 .. MaxOverlaps
GoalsOK == /\ goals \in Seq({"candidate", "active"}) /\ shown \in {0} \cup DOMAIN goals
           /\ shown = 0 => goals = <<>>
           /\ Len(goals) + Cardinality(Founders(req)) <= Cardinality(Requests)
MapsOK  == /\ mapping = [g \in GoalIds |-> mapping[g]]
           /\ \A g \in GoalIds :
                 Paced(mapping[g], published.graph, Cardinality(Mappers(req, g)),
                       SomeLate(req, g, mapping[g], published.graph))
NeedsOK == \A g \in GoalIds, m \in MapIds : NeedOK(need[g][m], mapping[g])
PlansOK == plan \in [GoalIds -> Plan]
ReqsOK  == \A r \in Requests : ReqOK(req[r], goals, mapping, published.graph)
TablesOK == Bounds /\ GoalsOK /\ MapsOK /\ NeedsOK /\ PlansOK /\ ReqsOK
TInv     == JInv /\ TablesOK

-----------------------------------------------------------------------------
(* Numbers of requests.                                                    *)
LEMMA HowMany ==
  /\ IsFiniteSet(Requests) /\ Cardinality(Requests) \in Nat
  /\ \A S \in SUBSET Requests : /\ IsFiniteSet(S) /\ Cardinality(S) \in Nat
                                /\ Cardinality(S) <= Cardinality(Requests)
                                /\ S # {} => Cardinality(S) >= 1
  /\ Requests # {} => Cardinality(Requests) >= 1
<1>1. IsFiniteSet(Requests) /\ Cardinality(Requests) \in Nat
  BY JourneyConstants, FS_CardinalityType
<1>2. ASSUME NEW S \in SUBSET Requests
      PROVE  /\ IsFiniteSet(S) /\ Cardinality(S) \in Nat
             /\ Cardinality(S) <= Cardinality(Requests)
             /\ S # {} => Cardinality(S) >= 1
  <2>1. IsFiniteSet(S) /\ Cardinality(S) \in Nat /\ Cardinality(S) <= Cardinality(Requests)
    BY <1>1, FS_Subset, FS_CardinalityType
  <2>2. Cardinality(S) = 0 <=> S = {}
    BY <2>1, FS_EmptySet
  <2>3. QED
    BY <2>1, <2>2
<1>3. QED
  BY <1>1, <1>2

LEMMA QuotaStep ==
  ASSUME NEW p \in Nat \ {0}
  PROVE  /\ Quota(p) \in Nat /\ Quota(p - 1) \in Nat /\ (p + 1) - 1 = p
         /\ Quota(p) = Quota(p - 1) + Cardinality(Requests)
         /\ Quota(p + 1) = Quota(p) + Cardinality(Requests)
<1> DEFINE R == Cardinality(Requests)
<1>1. R \in Nat
  BY HowMany
<1> HIDE DEF R
<1>2. /\ p * R \in Nat /\ (p - 1) * R \in Nat
      /\ p * R = (p - 1) * R + R /\ (p + 1) * R = p * R + R
  BY <1>1
<1>3. QED
  BY <1>2 DEF Quota, R

LEMMA QuotaGrows ==
  ASSUME NEW p \in Nat, NEW o \in Nat, p <= o
  PROVE  Quota(p) <= Quota(o) /\ Quota(o) \in Nat /\ Quota(p) \in Nat
<1> DEFINE R == Cardinality(Requests)
<1>1. R \in Nat
  BY HowMany
<1> HIDE DEF R
<1>2. p * R \in Nat /\ o * R \in Nat /\ (o - p) * R \in Nat /\ o * R = p * R + (o - p) * R
  BY <1>1
<1>3. QED
  BY <1>2 DEF Quota, R

(* One entry of a table of requests changes.                               *)
LEMMA Changed ==
  ASSUME NEW t, t = [x \in Requests |-> t[x]], NEW r \in Requests, NEW q
  PROVE  \A x \in Requests : [t EXCEPT ![r] = q][x] = IF x = r THEN q ELSE t[x]
  OBVIOUS

(* A request that stops being one of S leaves one less.                    *)
LEMMA OneLess ==
  ASSUME NEW S \in SUBSET Requests, NEW r \in S
  PROVE  Cardinality(S \ {r}) = Cardinality(S) - 1
  BY HowMany, FS_RemoveElement

LEMMA FewerOf ==
  ASSUME NEW S \in SUBSET Requests, NEW T \in SUBSET S
  PROVE  Cardinality(T) <= Cardinality(S) /\ Cardinality(T) \in Nat /\ Cardinality(S) \in Nat
  BY HowMany, FS_Subset

-----------------------------------------------------------------------------
(* The pace of the mappings of one goal.                                   *)
LEMMA PaceEases ==
  ASSUME NEW s, NEW p \in Nat \ {0}, NEW n \in Nat, NEW m \in Nat, NEW late, NEW later,
         Paced(s, p, n, late), m <= n, later => late
  PROVE  Paced(s, p, m, later)
<1>1. Len(s) \in Nat
  BY DEF Paced
<1>2. Quota(p) \in Nat /\ Quota(p - 1) \in Nat
  BY QuotaStep
<1>3. Settled(s, p) => Len(s) + m <= Quota(p)
  BY <1>1, <1>2 DEF Paced
<1>4. ~Settled(s, p) => Len(s) + (IF later THEN 1 ELSE 0) <= Quota(p - 1)
  BY <1>1, <1>2 DEF Paced
<1>5. Settled(s, p) /\ later => Len(s) + m <= Quota(p - 1)
  BY <1>1, <1>2 DEF Paced
<1>6. QED
  BY <1>3, <1>4, <1>5 DEF Paced

LEMMA PaceUnsettled ==
  ASSUME NEW s, NEW p, NEW n, NEW m, NEW late, Paced(s, p, n, late), ~Settled(s, p)
  PROVE  Paced(s, p, m, late)
  BY DEF Paced

LEMMA PacePublished ==
  ASSUME NEW s, NEW p \in Nat \ {0}, NEW n \in Nat, NEW late, NEW later,
         Paced(s, p, n, late), n <= Cardinality(Requests), later => n >= 1,
         Cardinality(Requests) >= 1
  PROVE  Paced(s, p + 1, n, later)
<1>1. s \in Seq(Mapping) /\ Len(s) \in Nat /\ \A i \in DOMAIN s : s[i].graph <= p
  BY DEF Paced
<1>2. \A i \in DOMAIN s : s[i].graph \in Nat
  <2>1. \A x \in Mapping : x.graph \in Nat
    BY JourneyConstants DEF Mapping, Graphs
  <2>2. \A i \in DOMAIN s : s[i] \in Mapping
    BY <1>1
  <2>3. QED
    BY <2>1, <2>2
<1>3. \A i \in DOMAIN s : s[i].graph <= p + 1 /\ s[i].graph # p + 1
  BY <1>1, <1>2
<1>4. s # <<>> => Len(s) \in DOMAIN s
  BY <1>1
<1>5. Settled(s, p + 1) => Settled(s, p)
  BY <1>3, <1>4 DEF Settled
<1>6. Cardinality(Requests) \in Nat
  BY HowMany
<1>7. /\ Quota(p) \in Nat /\ Quota(p - 1) \in Nat /\ (p + 1) - 1 = p
      /\ Quota(p) = Quota(p - 1) + Cardinality(Requests)
      /\ Quota(p + 1) = Quota(p) + Cardinality(Requests)
  BY QuotaStep
<1>8. Len(s) + (IF later THEN 1 ELSE 0) <= Quota(p)
  <2>1. CASE Settled(s, p)
    BY <2>1, <1>1, <1>7 DEF Paced
  <2>2. CASE ~Settled(s, p)
    BY <2>2, <1>1, <1>6, <1>7 DEF Paced
  <2>3. QED
    BY <2>1, <2>2
<1>9. Settled(s, p) => Len(s) + n <= Quota(p)
  BY DEF Paced
<1>10. QED
  BY <1>1, <1>3, <1>5, <1>6, <1>7, <1>8, <1>9 DEF Paced

LEMMA PaceAppended ==
  ASSUME NEW s, NEW p \in Nat \ {0}, NEW n \in Nat, NEW late, NEW row \in Mapping,
         Paced(s, p, n, late), n >= 1, n <= Cardinality(Requests),
         row.graph <= p, row.graph # p => late
  PROVE  Paced(Append(s, row), p, n - 1, FALSE)
<1> DEFINE z == Append(s, row)
<1>1. s \in Seq(Mapping) /\ Len(s) \in Nat /\ \A i \in DOMAIN s : s[i].graph <= p
  BY DEF Paced
<1>2. /\ z \in Seq(Mapping) /\ Len(z) = Len(s) + 1 /\ z # <<>> /\ z[Len(z)] = row
      /\ \A i \in DOMAIN z : z[i].graph <= p
  BY <1>1
<1> HIDE DEF z
<1>3. row.graph = p => Settled(z, p)
  BY <1>2 DEF Settled
<1>4. Cardinality(Requests) \in Nat
  BY HowMany
<1>5. /\ Quota(p) \in Nat /\ Quota(p - 1) \in Nat
      /\ Quota(p) = Quota(p - 1) + Cardinality(Requests)
  BY QuotaStep
<1>6. Len(z) + (n - 1) <= Quota(p)
  <2>1. CASE Settled(s, p)
    BY <2>1, <1>1, <1>2, <1>5 DEF Paced
  <2>2. CASE ~Settled(s, p)
    BY <2>2, <1>1, <1>2, <1>4, <1>5 DEF Paced
  <2>3. QED
    BY <2>1, <2>2
<1>7. row.graph # p => Len(z) <= Quota(p - 1)
  <2>1. CASE Settled(s, p)
    BY <2>1, <1>1, <1>2, <1>5 DEF Paced
  <2>2. CASE ~Settled(s, p)
    BY <2>2, <1>1, <1>2, <1>5 DEF Paced
  <2>3. QED
    BY <2>1, <2>2
<1>8. QED
  BY <1>2, <1>3, <1>5, <1>6, <1>7 DEF Paced, z

LEMMA PaceBounds ==
  ASSUME NEW s, NEW p \in Nat \ {0}, p <= 1 + MaxOutside, NEW n \in Nat, NEW late,
         Paced(s, p, n, late)
  PROVE  DOMAIN s \subseteq MapIds
<1>1. s \in Seq(Mapping) /\ Len(s) \in Nat
  BY DEF Paced
<1>2. Quota(p) \in Nat /\ Quota(p - 1) \in Nat /\ Cardinality(Requests) \in Nat
      /\ Quota(p - 1) <= Quota(p)
  BY QuotaStep, HowMany
<1>3. Len(s) <= Quota(p)
  BY <1>1, <1>2 DEF Paced
<1>4. Quota(p) <= Quota(1 + MaxOutside) /\ Quota(1 + MaxOutside) \in Nat
  BY QuotaGrows, JourneyConstants
<1>5. MapIds = 1 .. Quota(1 + MaxOutside)
  BY DEF MapIds, Quota
<1>6. QED
  BY <1>1, <1>2, <1>3, <1>4, <1>5

-----------------------------------------------------------------------------
(* What the invariant says of the tables at once.                          *)
LEMMA Tables ==
  ASSUME TInv
  PROVE  /\ published.graph \in Nat \ {0} /\ published.graph <= 1 + MaxOutside
         /\ published.graph \in Graphs /\ published.rel \in Graphs
         /\ DOMAIN goals \subseteq GoalIds /\ Len(goals) \in Nat
         /\ \A g \in GoalIds : /\ mapping[g] \in Seq(Mapping) /\ Len(mapping[g]) \in Nat
                               /\ DOMAIN mapping[g] \subseteq MapIds
         /\ req = [x \in Requests |-> req[x]]
         /\ need = [g \in GoalIds |-> [m \in MapIds |-> need[g][m]]]
         /\ learner \in [v : Nat, behind : BOOLEAN]
<1>1. /\ published.graph \in Nat \ {0} /\ published.graph <= 1 + MaxOutside
      /\ published.graph \in Graphs /\ published.rel \in Graphs
  BY JourneyConstants DEF TInv, TablesOK, Bounds, Graphs
<1>2. DOMAIN goals \subseteq GoalIds /\ Len(goals) \in Nat
  <2>1. Founders(req) \subseteq Requests
    BY DEF Founders
  <2>2. /\ goals \in Seq({"candidate", "active"}) /\ Cardinality(Founders(req)) \in Nat
        /\ Cardinality(Requests) \in Nat
        /\ Len(goals) + Cardinality(Founders(req)) <= Cardinality(Requests)
    BY <2>1, HowMany DEF TInv, TablesOK, GoalsOK
  <2>3. QED
    BY <2>2 DEF GoalIds
<1>3. ASSUME NEW g \in GoalIds
      PROVE  /\ mapping[g] \in Seq(Mapping) /\ Len(mapping[g]) \in Nat
             /\ DOMAIN mapping[g] \subseteq MapIds
  <2> DEFINE n == Cardinality(Mappers(req, g))
             late == SomeLate(req, g, mapping[g], published.graph)
  <2>1. n \in Nat
    BY HowMany DEF Mappers
  <2>2. Paced(mapping[g], published.graph, n, late)
    BY DEF TInv, TablesOK, MapsOK
  <2> HIDE DEF n, late
  <2>3. mapping[g] \in Seq(Mapping)
    BY <2>2 DEF Paced
  <2>4. QED
    BY <1>1, <2>1, <2>2, <2>3, PaceBounds
<1>4. /\ req = [x \in Requests |-> req[x]]
      /\ need = [g \in GoalIds |-> [m \in MapIds |-> need[g][m]]]
      /\ learner \in [v : Nat, behind : BOOLEAN]
  BY DEF TInv, TablesOK, JInv, Basics, NeedsSound, SoundTable
<1>5. QED
  BY <1>1, <1>2, <1>3, <1>4

-----------------------------------------------------------------------------
(* One request changes, and the tables grow.                               *)
Grown(gs, hs, maps, naps, p, o) ==
    /\ DOMAIN gs \subseteq DOMAIN hs /\ DOMAIN gs \subseteq GoalIds /\ p <= o
    /\ \A g \in GoalIds : /\ maps[g] \in Seq(Mapping) /\ naps[g] \in Seq(Mapping)
                          /\ Len(maps[g]) <= Len(naps[g])

LEMMA NeedKeeps ==
  ASSUME NEW n, NEW s \in Seq(Mapping), NEW z \in Seq(Mapping), Len(s) <= Len(z), NeedOK(n, s)
  PROVE  NeedOK(n, z)
<1>1. DOMAIN s \subseteq DOMAIN z
  OBVIOUS
<1>2. QED
  BY <1>1 DEF NeedOK

LEMMA ReqKeeps ==
  ASSUME NEW gs, NEW hs, NEW maps, NEW naps, NEW p \in Nat, NEW o \in Nat,
         Grown(gs, hs, maps, naps, p, o), NEW q, ReqOK(q, gs, maps, p)
  PROVE  ReqOK(q, hs, naps, o)
<1>1. DOMAIN gs \subseteq DOMAIN hs /\ DOMAIN gs \subseteq GoalIds /\ p <= o
  BY DEF Grown
<1>2. ASSUME NEW g \in GoalIds
      PROVE  /\ \A n : NeedOK(n, maps[g]) => NeedOK(n, naps[g])
             /\ 0 .. Len(maps[g]) \subseteq 0 .. Len(naps[g])
  <2>1. /\ maps[g] \in Seq(Mapping) /\ naps[g] \in Seq(Mapping)
        /\ Len(maps[g]) <= Len(naps[g])
    BY DEF Grown
  <2>2. Len(maps[g]) \in Nat /\ Len(naps[g]) \in Nat
    BY <2>1
  <2>3. QED
    BY <2>1, <2>2, NeedKeeps
<1>3. q.at \in {"asked", "read"} => CommandOK(q, hs)
  BY <1>1 DEF ReqOK, CommandOK
<1>4. ASSUME q.at = "read" PROVE RowOK(q, hs, naps, o)
  <2>1. CommandOK(q, gs) /\ RowOK(q, gs, maps, p)
    BY <1>4 DEF ReqOK
  <2>2. q.cmd \notin Adopting => q.g \in GoalIds
    BY <1>1, <2>1 DEF CommandOK
  <2>3. q.cmd \in Adopting => q.row \in {0} \cup DOMAIN hs
    BY <1>1, <2>1 DEF RowOK
  <2>4. q.cmd = "map" => q.row \in Mapping /\ q.row.graph <= o /\ q.n \in 0 .. Len(naps[q.g])
    <3>1. \A x \in Mapping : x.graph \in Nat
      BY JourneyConstants DEF Mapping, Graphs
    <3>2. q.cmd = "map" => q.row \in Mapping /\ q.row.graph <= p /\ q.n \in 0 .. Len(maps[q.g])
      BY <2>1 DEF RowOK
    <3>3. q.cmd = "map" => q.g \in GoalIds
      BY <2>2 DEF Adopting
    <3>4. q.cmd = "map" => q.n \in 0 .. Len(naps[q.g])
      BY <1>2, <3>2, <3>3
    <3>5. q.cmd = "map" => q.row.graph <= o
      BY <1>1, <3>1, <3>2
    <3>6. QED
      BY <3>2, <3>4, <3>5
  <2>5. q.cmd = "diagnose" => NeedOK(q.row, naps[q.g]) /\ q.row.v # 0
    <3>1. q.cmd = "diagnose" => q.g \in GoalIds
      BY <2>2 DEF Adopting
    <3>2. QED
      BY <1>2, <2>1, <3>1 DEF RowOK
  <2>6. QED
    BY <2>1, <2>3, <2>4, <2>5 DEF RowOK
<1>5. q.at = "answering" => /\ q.g \in GoalIds /\ NeedOK(q.row, naps[q.g])
                            /\ q.row.v # 0 /\ q.row.stop = "none"
  BY <1>2 DEF ReqOK
<1>6. QED
  BY <1>3, <1>4, <1>5 DEF ReqOK

LEMMA KeptReqs ==
  ASSUME TInv, published'.graph \in Nat,
         Grown(goals, goals', mapping, mapping', published.graph, published'.graph),
         \/ req' = req
         \/ \E r \in Requests : \E q : /\ req' = [req EXCEPT ![r] = q]
                                       /\ ReqOK(q, goals', mapping', published'.graph)
  PROVE  ReqsOK'
<1>1. published.graph \in Nat /\ req = [x \in Requests |-> req[x]]
  BY Tables
<1>2. \A x \in Requests : ReqOK(req[x], goals', mapping', published'.graph)
  BY <1>1, ReqKeeps DEF TInv, TablesOK, ReqsOK
<1>3. QED
  BY <1>1, <1>2, Changed DEF ReqsOK

LEMMA KeptNeeds ==
  ASSUME TInv, need' = need,
         Grown(goals, goals', mapping, mapping', published.graph, published'.graph)
  PROVE  NeedsOK'
<1>1. ASSUME NEW g \in GoalIds, NEW m \in MapIds PROVE NeedOK(need[g][m], mapping'[g])
  BY NeedKeeps DEF TInv, TablesOK, NeedsOK, Grown
<1>2. QED
  BY <1>1 DEF NeedsOK

LEMMA CalmTables ==
  ASSUME TInv, UNCHANGED <<goals, mapping, published>>
  PROVE  Grown(goals, goals', mapping, mapping', published.graph, published'.graph)
  BY Tables DEF Grown

LEMMA CalmGoals ==
  ASSUME TInv, NEW r \in Requests, NEW q, req' = [req EXCEPT ![r] = q], UNCHANGED <<goals, shown>>,
         Founds(q) => shown = 0 \/ Founds(req[r])
  PROVE  GoalsOK'
<1>1. /\ goals \in Seq({"candidate", "active"}) /\ shown \in {0} \cup DOMAIN goals
      /\ shown = 0 => goals = <<>>
      /\ Len(goals) + Cardinality(Founders(req)) <= Cardinality(Requests)
  BY DEF TInv, TablesOK, GoalsOK
<1>2. \A x \in Requests : req'[x] = IF x = r THEN q ELSE req[x]
  BY Tables, Changed
<1>3. Founders(req) \subseteq Requests /\ Founders(req') \subseteq Requests
  BY DEF Founders
<1>4. /\ Cardinality(Founders(req)) \in Nat /\ Cardinality(Founders(req')) \in Nat
      /\ Cardinality(Founders(req')) <= Cardinality(Requests) /\ Cardinality(Requests) \in Nat
  BY <1>3, HowMany
<1>5. Len(goals) + Cardinality(Founders(req')) <= Cardinality(Requests)
  <2>1. CASE shown = 0
    BY <1>1, <1>4, <2>1
  <2>2. CASE shown # 0
    <3>1. Founders(req') \subseteq Founders(req)
      BY <1>2, <2>2 DEF Founders
    <3>2. Cardinality(Founders(req')) <= Cardinality(Founders(req))
      BY <1>3, <3>1, FewerOf
    <3>3. QED
      BY <1>1, <1>4, <3>2
  <2>3. QED
    BY <2>1, <2>2
<1>6. QED
  BY <1>1, <1>5 DEF GoalsOK

LEMMA CalmMaps ==
  ASSUME TInv, NEW r \in Requests, NEW q, req' = [req EXCEPT ![r] = q],
         UNCHANGED <<mapping, published>>,
         \A g \in GoalIds :
            MapsFor(q, g) => /\ ~Late(q, mapping[g], published.graph)
                             /\ \/ MapsFor(req[r], g)
                                \/ ~Settled(mapping[g], published.graph)
  PROVE  MapsOK'
<1>1. \A x \in Requests : req'[x] = IF x = r THEN q ELSE req[x]
  BY Tables, Changed
<1>2. ASSUME NEW g \in GoalIds
      PROVE  Paced(mapping[g], published.graph, Cardinality(Mappers(req', g)),
                   SomeLate(req', g, mapping[g], published.graph))
  <2> DEFINE s == mapping[g]
             p == published.graph
             n == Cardinality(Mappers(req, g))
             m == Cardinality(Mappers(req', g))
             late == SomeLate(req, g, s, p)
             later == SomeLate(req', g, s, p)
  <2>1. Mappers(req, g) \subseteq Requests /\ Mappers(req', g) \subseteq Requests
    BY DEF Mappers
  <2>2. n \in Nat /\ m \in Nat /\ p \in Nat \ {0}
    BY <2>1, HowMany, Tables
  <2>3. Paced(s, p, n, late)
    BY DEF TInv, TablesOK, MapsOK
  <2>4. later => late
    BY <1>1 DEF SomeLate
  <2>5. CASE m <= n
    <3> HIDE DEF s, p, n, m, late, later
    <3>1. QED
      BY <2>2, <2>3, <2>4, <2>5, PaceEases DEF s, p, n, m, late, later
  <2>6. CASE ~Settled(s, p)
    <3>1. Paced(s, p, m, late)
      <4> HIDE DEF s, p, n, m, late
      <4>1. QED
        BY <2>3, <2>6, PaceUnsettled
    <3> HIDE DEF s, p, n, m, late, later
    <3>2. QED
      BY <2>2, <2>4, <3>1, PaceEases DEF s, p, n, m, late, later
  <2>7. CASE Settled(s, p)
    <3>1. Mappers(req', g) \subseteq Mappers(req, g)
      BY <1>1, <2>7 DEF Mappers
    <3>2. m <= n
      BY <2>1, <3>1, FewerOf
    <3>3. QED
      BY <2>5, <3>2
  <2>8. QED
    BY <2>6, <2>7
<1>3. QED
  BY <1>2 DEF TInv, TablesOK, MapsOK

(* A request that writes no goal and no mapping.                           *)
LEMMA Unwritten ==
  ASSUME TInv, NEW r \in Requests, NEW q, req' = [req EXCEPT ![r] = q],
         UNCHANGED <<goals, shown, mapping, published, outside>>,
         overlaps' \in 0 .. MaxOverlaps, NeedsOK', PlansOK',
         ReqOK(q, goals, mapping, published.graph),
         Founds(q) => shown = 0 \/ Founds(req[r]),
         \A g \in GoalIds :
            MapsFor(q, g) => /\ ~Late(q, mapping[g], published.graph)
                             /\ \/ MapsFor(req[r], g)
                                \/ ~Settled(mapping[g], published.graph)
  PROVE  TablesOK'
<1>1. Bounds'
  BY DEF TInv, TablesOK, Bounds
<1>2. GoalsOK' /\ MapsOK'
  BY CalmGoals, CalmMaps
<1>3. published'.graph \in Nat
  BY Tables
<1>4. ReqsOK'
  BY <1>3, CalmTables, KeptReqs
<1>5. QED
  BY <1>1, <1>2, <1>4 DEF TablesOK

(* A request that ends.                                                    *)
LEMMA IdleOK ==
  /\ \A gs, maps, p : ReqOK(Idle, gs, maps, p)
  /\ ~Founds(Idle) /\ \A g : ~MapsFor(Idle, g)
  BY DEF ReqOK, Idle, Founds, MapsFor

LEMMA EndsUnwritten ==
  ASSUME TInv, NEW r \in Requests, req' = [req EXCEPT ![r] = Idle],
         UNCHANGED <<goals, shown, mapping, published, outside>>,
         overlaps' \in 0 .. MaxOverlaps, NeedsOK', PlansOK'
  PROVE  TablesOK'
  BY Unwritten, IdleOK

LEMMA SameNeedsAndPlans ==
  ASSUME TInv, UNCHANGED <<goals, mapping, published>>
  PROVE  /\ need' = need => NeedsOK'
         /\ plan' = plan => PlansOK'
  BY CalmTables, KeptNeeds DEF TInv, TablesOK, PlansOK

-----------------------------------------------------------------------------
(* The rows that commands and answers make.                                *)
LEMMA BuiltFits ==
  ASSUME NEW v \in Nat \ {0}, NEW s, NEW m \in DOMAIN s, DOMAIN s \subseteq MapIds,
         NEW used \in 0 .. MaxAttempts, NEW lv \in Nat, NEW of,
         NEW n \in BuiltNeeds(v, m, used, lv, of)
  PROVE  NeedOK(n, s) /\ n.v # 0 /\ n.m = m
<1> DEFINE row(stop, unit) == [v |-> v, m |-> m, stop |-> stop, used |-> used,
                               asked |-> unit, learner |-> lv]
<1>1. PICK cands \in Candidates(of) :
         n \in IF cands = {}
               THEN {row(IF Under(Target) \cap In("unmet", of) # {} THEN "remediation"
                         ELSE "resolved", Target)}
               ELSE IF Spent(used) THEN {row("budget", Target)}
               ELSE {row(stop, u) : stop \in {"none", "no_item"}, u \in Best(cands)}
  BY DEF BuiltNeeds
<1>2. cands \subseteq Units
  <2> DEFINE unmet == Under(Target) \cap In("unmet", of)
  <2>1. PICK f \in [unmet -> SUBSET Units] :
           cands = (Under(Target) \cap In("unknown", of)) \cup UNION {f[u] : u \in unmet}
    BY DEF Candidates
  <2>2. QED
    BY <2>1 DEF In
<1>3. \E stop \in Stops \cup {"none"}, u \in Units \cup {Target} :
         n = row(stop, u) /\ (stop = "none" => ~Spent(used))
  <2>1. CASE cands = {}
    BY <1>1, <2>1 DEF Stops, Eligible
  <2>2. CASE cands # {} /\ Spent(used)
    BY <1>1, <2>2 DEF Stops, Eligible
  <2>3. CASE cands # {} /\ ~Spent(used)
    BY <1>1, <1>2, <2>3 DEF Stops, Best
  <2>4. QED
    BY <2>1, <2>2, <2>3
<1>4. PICK stop \in Stops \cup {"none"}, u \in Units \cup {Target} :
         n = row(stop, u) /\ (stop = "none" => ~Spent(used))
  BY <1>3
<1>5. ~Spent(used) => used < MaxAttempts
  BY JourneyConstants DEF Spent
<1>6. n \in Need /\ n.v = v /\ n.m = m /\ n.stop = stop /\ n.used = used
  BY <1>4 DEF Need
<1>7. QED
  BY <1>4, <1>5, <1>6 DEF NeedOK

LEMMA PlanFits ==
  ASSUME TInv, NEW g \in GoalIds, NEW m \in DOMAIN mapping[g], NEW lv \in Nat
  PROVE  NewPlan(g, m, lv) \in Plan
<1>1. mapping[g][m] \in Mapping
  BY Tables
<1>2. mapping[g][m].graph \in Nat
  BY <1>1, JourneyConstants DEF Mapping, Graphs
<1>3. plan[g].v + 1 \in Nat
  BY DEF TInv, TablesOK, PlansOK, Plan
<1>4. QED
  BY <1>2, <1>3 DEF NewPlan, Plan

(* Some mapping's need has the highest version, and of those the first.    *)
Highest(i, f, S) == \A j \in S : f[j].v < f[i].v \/ (f[j].v = f[i].v /\ i <= j)

LEMMA SomeHighest ==
  ASSUME NEW n \in Nat, NEW f, \A i \in 1 .. n : f[i].v \in Nat, n # 0
  PROVE  \E i \in 1 .. n : Highest(i, f, 1 .. n)
<1> DEFINE Bad == {k \in Nat \ {0} : k <= n /\ ~ \E i \in 1 .. k : Highest(i, f, 1 .. k)}
<1>1. SUFFICES ASSUME Bad # {} PROVE FALSE
  OBVIOUS
<1>2. PICK k \in Bad : \A j \in Bad : k <= j
  <2> HIDE DEF Bad
  <2>1. Bad \in SUBSET Nat
    BY DEF Bad
  <2>2. QED
    BY <1>1, <2>1, Least
<1>3. CASE k = 1
  <2>1. Highest(1, f, 1 .. 1)
    BY DEF Highest
  <2>2. QED
    BY <1>2, <1>3, <2>1
<1>4. CASE k # 1
  <2>1. k - 1 \in Nat \ {0} /\ k - 1 <= n /\ k - 1 \notin Bad
    BY <1>2, <1>4
  <2>2. PICK i \in 1 .. k - 1 : Highest(i, f, 1 .. k - 1)
    BY <2>1
  <2>3. i \in 1 .. k /\ k \in 1 .. k /\ 1 .. k = (1 .. k - 1) \cup {k}
        /\ f[i].v \in Nat /\ f[k].v \in Nat
    BY <1>2
  <2>4. CASE f[k].v <= f[i].v
    <3>1. Highest(i, f, 1 .. k)
      BY <2>2, <2>3, <2>4 DEF Highest
    <3>2. QED
      BY <1>2, <2>3, <3>1
  <2>5. CASE f[i].v < f[k].v
    <3>1. \A j \in 1 .. k - 1 : f[j].v < f[k].v
      <4>1. \A j \in 1 .. k - 1 : f[j].v \in Nat
        BY <1>2
      <4>2. QED
        BY <2>2, <2>3, <2>5, <4>1 DEF Highest
    <3>2. Highest(k, f, 1 .. k)
      BY <2>3, <3>1 DEF Highest
    <3>3. QED
      BY <1>2, <2>3, <3>2
  <2>6. QED
    BY <2>3, <2>4, <2>5
<1>5. QED
  BY <1>3, <1>4

(* So readiness finds a need of the goal, if only the absent one.          *)
LEMMA LatestFits ==
  ASSUME TInv, NEW g \in GoalIds, Requests # {}
  PROVE  \E m \in MapIds : LatestNeed(g) = need[g][m]
<1> DEFINE N == (1 + MaxOutside) * Cardinality(Requests)
<1>1. N \in Nat /\ N # 0 /\ MapIds = 1 .. N
  <2>1. Cardinality(Requests) \in Nat \ {0} /\ 1 + MaxOutside \in Nat \ {0}
    BY HowMany, JourneyConstants
  <2>2. \A a \in Nat \ {0}, b \in Nat \ {0} : a * b \in Nat /\ a * b # 0
    OBVIOUS
  <2>3. QED
    BY <2>1, <2>2 DEF MapIds
<1>2. \A i \in 1 .. N : need[g][i].v \in Nat
  BY <1>1 DEF TInv, TablesOK, NeedsOK, NeedOK, Need
<1> HIDE DEF N
<1>3. \E i \in MapIds : Highest(i, need[g], MapIds)
  BY <1>1, <1>2, SomeHighest
<1>4. QED
  BY <1>3 DEF LatestNeed, Highest

-----------------------------------------------------------------------------
(* Requests that begin.                                                    *)
LEMMA Allowed ==
  ASSUME Command # "none"
  PROVE  /\ Command \in Commands
         /\ Command \notin Adopting => shown # 0
         /\ Command = "map" => ~Settled(mapping[shown], published.graph)
<1>1. State \in {"READY_FOR_GOAL", "GOAL_CONFIRMATION_REQUIRED"} => Command = "adopt"
  BY DEF Command
<1>2. Command \in Commands
  BY DEF Command, Commands, Adopting
<1>3. shown = 0 => State = "READY_FOR_GOAL"
  BY DEF State
<1>4. Command = "map" => State = "MAPPING_REQUIRED"
  BY DEF Command
<1>5. State = "MAPPING_REQUIRED" => ~Settled(mapping[shown], published.graph)
  BY DEF State, Settled, LatestMap
<1>6. QED
  BY <1>1, <1>2, <1>3, <1>4, <1>5 DEF Adopting

LEMMA BeginTypes ==
  ASSUME TInv, NEW r \in Requests,
         \/ \E k \in Keys \cup {Fresh} : Advance(r, k)
         \/ CreateCandidate(r)
         \/ \E g \in GoalIds, m \in MapIds : BeginAnswer(r, g, m)
  PROVE  TablesOK'
<1>1. ASSUME NEW q, Begin(r, q), UNCHANGED <<rest, need, plan>>,
             ReqOK(q, goals, mapping, published.graph), q.at \in {"asked", "answering"},
             \A g \in GoalIds : MapsFor(q, g) => ~Settled(mapping[g], published.graph)
      PROVE  TablesOK'
  <2>1. req' = [req EXCEPT ![r] = q] /\ overlaps' \in 0 .. MaxOverlaps
    BY <1>1, JourneyConstants DEF Begin, TInv, TablesOK, Bounds
  <2>2. UNCHANGED <<goals, shown, mapping, published, outside>>
    BY <1>1 DEF rest
  <2>3. NeedsOK' /\ PlansOK'
    BY <1>1, <2>2, SameNeedsAndPlans
  <2>4. ~Founds(q) /\ \A g \in GoalIds : MapsFor(q, g) => ~Late(q, mapping[g], published.graph)
    BY <1>1 DEF Founds, MapsFor, Late
  <2>5. QED
    BY <1>1, <2>1, <2>2, <2>3, <2>4, Unwritten
<1>2. ASSUME NEW c \in Commands, NEW k, Begin(r, Asked(c, k)), UNCHANGED <<rest, need, plan>>,
             c \notin Adopting => shown # 0,
             c = "map" => ~Settled(mapping[shown], published.graph)
      PROVE  TablesOK'
  <2> DEFINE q == Asked(c, k)
  <2>1. q.at = "asked" /\ q.cmd = c /\ q.g = shown
    BY DEF Asked
  <2>2. c \notin Adopting => shown \in DOMAIN goals
    BY <1>2 DEF TInv, TablesOK, GoalsOK
  <2> HIDE DEF q
  <2>3. ReqOK(q, goals, mapping, published.graph)
    BY <2>1, <2>2 DEF ReqOK, CommandOK
  <2>4. \A g \in GoalIds : MapsFor(q, g) => ~Settled(mapping[g], published.graph)
    BY <1>2, <2>1 DEF MapsFor
  <2>5. QED
    BY <1>1, <1>2, <2>1, <2>3, <2>4 DEF q
<1>3. ASSUME NEW g \in GoalIds, NEW m \in MapIds, BeginAnswer(r, g, m)
      PROVE  TablesOK'
  <2> DEFINE q == [at |-> "answering", g |-> g, row |-> need[g][m]]
  <2>1. /\ Begin(r, q) /\ UNCHANGED <<rest, need, plan>>
        /\ need[g][m].v # 0 /\ need[g][m].stop = "none"
    BY <1>3 DEF BeginAnswer
  <2>2. NeedOK(need[g][m], mapping[g])
    BY DEF TInv, TablesOK, NeedsOK
  <2>3. q.at = "answering" /\ q.g = g /\ q.row = need[g][m]
    OBVIOUS
  <2> HIDE DEF q
  <2>4. ReqOK(q, goals, mapping, published.graph)
    BY <2>1, <2>2, <2>3 DEF ReqOK
  <2>5. \A h : ~MapsFor(q, h)
    BY <2>3 DEF MapsFor
  <2>6. QED
    BY <1>1, <2>1, <2>3, <2>4, <2>5
<1>4. ASSUME NEW k, Advance(r, k) PROVE TablesOK'
  BY <1>2, <1>4, Allowed DEF Advance
<1>5. CASE CreateCandidate(r)
  BY <1>2, <1>5 DEF CreateCandidate, Commands, Adopting
<1>6. QED
  BY <1>3, <1>4, <1>5

-----------------------------------------------------------------------------
(* Commands that read.  What they make of it fits the tables.              *)
LEMMA EnsuredNat ==
  ASSUME TInv
  PROVE  Ensured(learner).v \in Nat /\ learner.v \in Nat
  BY Tables, EnsuredType

LEMMA RowsFit ==
  ASSUME TInv, NEW r \in Requests, req[r].at = "asked",
         Readable(req[r].cmd, req[r].g), NEW row \in Rows(req[r].cmd, req[r].g)
  PROVE  /\ ReqOK(Readied(req[r], row), goals, mapping, published.graph)
         /\ req[r].cmd \in Adopting => row = shown
         /\ req[r].cmd = "map" => row.graph = published.graph
<1> DEFINE c == req[r].cmd
           g == req[r].g
           q == Readied(req[r], row)
<1>1. c \in Commands /\ (c \notin Adopting => g \in DOMAIN goals /\ g \in GoalIds)
  BY Tables DEF TInv, TablesOK, ReqsOK, ReqOK, CommandOK
<1>2. /\ q.at = "read" /\ q.cmd = c /\ q.g = g /\ q.row = row
      /\ q.n = IF c = "map" THEN Len(mapping[g]) ELSE 0
  BY DEF Readied
<1>3. c \in Adopting => row = shown /\ row \in {0} \cup DOMAIN goals
  BY DEF Rows, Adopting, TInv, TablesOK, GoalsOK
<1>4. c = "map" => /\ row \in Mapping /\ row.graph = published.graph /\ row.graph <= published.graph
                   /\ q.n \in 0 .. Len(mapping[g])
  <2>1. SUFFICES ASSUME c = "map"
                 PROVE  /\ row \in Mapping /\ row.graph = published.graph
                        /\ row.graph <= published.graph /\ q.n \in 0 .. Len(mapping[g])
    OBVIOUS
  <2>2. row \in NewMappings /\ g \in GoalIds
    BY <1>1, <2>1 DEF Rows, Adopting
  <2>3. row \in Mapping /\ row.graph = published.graph
    BY <2>2, Tables DEF NewMappings, Mapping
  <2>4. q.n = Len(mapping[g]) /\ Len(mapping[g]) \in Nat /\ published.graph \in Nat
    BY <1>2, <2>1, <2>2, Tables
  <2>5. QED
    BY <2>3, <2>4
<1>5. c = "diagnose" => NeedOK(row, mapping[g]) /\ row.v # 0
  <2>1. SUFFICES ASSUME c = "diagnose" PROVE NeedOK(row, mapping[g]) /\ row.v # 0
    OBVIOUS
  <2>2. row \in NewNeeds(g) /\ mapping[g] # <<>> /\ g \in GoalIds
    BY <1>1, <2>1 DEF Rows, Readable, Adopting
  <2> DEFINE m == Len(mapping[g])
  <2>3. mapping[g] \in Seq(Mapping) /\ DOMAIN mapping[g] \subseteq MapIds
    BY <2>2, Tables
  <2>4. m \in DOMAIN mapping[g] /\ m \in MapIds
    BY <2>2, <2>3
  <2>5. need[g][m].v + 1 \in Nat \ {0}
    <3>1. need[g][m] \in Need
      BY <2>2, <2>4 DEF TInv, TablesOK, NeedsOK, NeedOK
    <3>2. need[g][m].v \in Nat
      BY <3>1 DEF Need
    <3>3. \A k \in Nat : k + 1 \in Nat \ {0}
      OBVIOUS
    <3>4. QED
      BY <3>2, <3>3, Zenon
  <2>6. row \in BuiltNeeds(need[g][m].v + 1, m, 0, Ensured(learner).v, mastery)
    BY <2>2 DEF NewNeeds
  <2>7. 0 \in 0 .. MaxAttempts
    BY JourneyConstants
  <2> HIDE DEF m
  <2>8. QED
    BY <2>3, <2>4, <2>5, <2>6, <2>7, BuiltFits, EnsuredNat
<1>6. c = "plan" => row \in Plan
  <2>1. SUFFICES ASSUME c = "plan" PROVE row \in Plan
    OBVIOUS
  <2>2. row = Planned(g) /\ LatestNeed(g).stop \in Eligible /\ g \in GoalIds
    BY <1>1, <2>1 DEF Rows, Readable, Adopting
  <2>3. PICK m \in MapIds : LatestNeed(g) = need[g][m]
    BY <2>2, LatestFits
  <2>4. NeedOK(need[g][m], mapping[g])
    BY <2>2 DEF TInv, TablesOK, NeedsOK
  <2>5. LatestNeed(g).m \in DOMAIN mapping[g]
    BY <2>2, <2>3, <2>4 DEF NeedOK, Eligible
  <2>6. NewPlan(g, LatestNeed(g).m, Ensured(learner).v) \in Plan /\ plan[g] \in Plan
    BY <2>2, <2>5, PlanFits, EnsuredNat DEF TInv, TablesOK, PlansOK
  <2>7. QED
    BY <2>2, <2>6 DEF Planned
<1> HIDE DEF q
<1>7. ReqOK(q, goals, mapping, published.graph)
  <2>1. RowOK(q, goals, mapping, published.graph)
    BY <1>2, <1>3, <1>4, <1>5, <1>6 DEF RowOK
  <2>2. QED
    BY <1>1, <1>2, <2>1 DEF ReqOK, CommandOK
<1>8. QED
  BY <1>3, <1>4, <1>7 DEF q

LEMMA ReadTypes ==
  ASSUME TInv, NEW r \in Requests, Read(r)
  PROVE  TablesOK'
<1> DEFINE q == req[r]
<1>1. /\ UNCHANGED <<goals, shown, mapping, published, outside, need, plan, overlaps>>
      /\ overlaps' \in 0 .. MaxOverlaps /\ q.at = "asked"
  BY DEF Read, rest, TInv, TablesOK, Bounds
<1>2. NeedsOK' /\ PlansOK'
  BY <1>1, SameNeedsAndPlans
<1>3. CASE ~Readable(q.cmd, q.g)
  BY <1>1, <1>2, <1>3, EndsUnwritten DEF Read
<1>4. CASE Readable(q.cmd, q.g)
  <2>1. PICK row \in Rows(q.cmd, q.g) : req' = [req EXCEPT ![r] = Readied(q, row)]
    BY <1>4 DEF Read
  <2> DEFINE z == Readied(q, row)
  <2>2. /\ ReqOK(z, goals, mapping, published.graph)
        /\ q.cmd \in Adopting => row = shown
        /\ q.cmd = "map" => row.graph = published.graph
    BY <1>1, <1>4, RowsFit
  <2>3. z.at = "read" /\ z.cmd = q.cmd /\ z.g = q.g /\ z.row = row
    BY DEF Readied
  <2> HIDE DEF z
  <2>4. Founds(z) => shown = 0
    BY <2>2, <2>3 DEF Founds
  <2>5. \A g \in GoalIds : MapsFor(z, g) => /\ ~Late(z, mapping[g], published.graph)
                                            /\ MapsFor(q, g)
    BY <1>1, <2>2, <2>3 DEF MapsFor, Late
  <2>6. QED
    BY <1>1, <1>2, <2>1, <2>2, <2>4, <2>5, Unwritten DEF z
<1>5. QED
  BY <1>3, <1>4

-----------------------------------------------------------------------------
(* Commands that commit.                                                   *)
LEMMA Superseded ==
  ASSUME TInv, NEW g \in GoalIds, NEW row, NeedOK(row, mapping[g]),
         need' = [need EXCEPT ![g][row.m] = row], mapping' = mapping
  PROVE  NeedsOK'
<1>1. ASSUME NEW h \in GoalIds, NEW m \in MapIds
      PROVE  (need'[h][m] = row /\ h = g) \/ need'[h][m] = need[h][m]
  <2>1. need = [x \in GoalIds |-> [y \in MapIds |-> need[x][y]]]
    BY Tables
  <2>2. g \in DOMAIN need /\ h \in DOMAIN need /\ m \in DOMAIN need[h]
    BY <2>1
  <2>3. need'[h] = IF h = g THEN [need[g] EXCEPT ![row.m] = row] ELSE need[h]
    BY <2>2
  <2>4. QED
    BY <2>2, <2>3
<1>2. ASSUME NEW h \in GoalIds, NEW m \in MapIds PROVE NeedOK(need'[h][m], mapping'[h])
  BY <1>1 DEF TInv, TablesOK, NeedsOK
<1>3. QED
  BY <1>2 DEF NeedsOK

LEMMA DiagnosisTypes ==
  ASSUME TInv, NEW q, q.g \in GoalIds, NeedOK(q.row, mapping[q.g]), q.row.v # 0, Diagnoses(q)
  PROVE  NeedsOK' /\ PlansOK' /\ UNCHANGED <<goals, shown, mapping>>
<1>1. UNCHANGED <<goals, shown, mapping>>
  BY DEF Diagnoses
<1>2. NeedsOK'
  <2>1. \/ need' = [need EXCEPT ![q.g][q.row.m] = q.row]
        \/ need' = need
    BY DEF Diagnoses
  <2>2. CASE need' = need
    BY <1>1, <2>2 DEF TInv, TablesOK, NeedsOK
  <2>3. QED
    BY <1>1, <2>1, <2>2, Superseded
<1>3. PlansOK'
  <2>1. q.row.m \in DOMAIN mapping[q.g] /\ q.row.learner \in Nat
    BY DEF NeedOK, Need
  <2>2. NewPlan(q.g, q.row.m, q.row.learner) \in Plan
    BY <2>1, PlanFits
  <2>3. QED
    BY <2>2 DEF Diagnoses, TInv, TablesOK, PlansOK
<1>4. QED
  BY <1>1, <1>2, <1>3

LEMMA PlanTypes ==
  ASSUME TInv, NEW q, q.cmd = "plan" => q.row \in Plan, q.g \in GoalIds,
         \/ q.cmd = "plan" /\ Plans(q)
         \/ q.cmd = "select" /\ Selects(q)
  PROVE  NeedsOK' /\ PlansOK' /\ UNCHANGED <<goals, shown, mapping>>
<1>1. UNCHANGED <<goals, shown, mapping, need>>
  BY DEF Plans, Selects
<1>2. NeedsOK'
  BY <1>1 DEF TInv, TablesOK, NeedsOK
<1>3. plan \in [GoalIds -> Plan]
  BY DEF TInv, TablesOK, PlansOK
<1>4. CASE q.cmd = "plan" /\ Plans(q)
  BY <1>1, <1>2, <1>3, <1>4 DEF Plans, PlansOK
<1>5. CASE Selects(q)
  <2>1. [plan[q.g] EXCEPT !.chosen = TRUE] \in Plan
    BY <1>3 DEF Plan
  <2>2. [plan EXCEPT ![q.g].chosen = TRUE] = [plan EXCEPT ![q.g] = [plan[q.g] EXCEPT !.chosen = TRUE]]
    BY <1>3
  <2>3. [plan EXCEPT ![q.g].chosen = TRUE] \in [GoalIds -> Plan]
    BY <1>3, <2>1, <2>2
  <2>4. PlansOK'
    BY <1>3, <1>5, <2>3 DEF Selects, PlansOK
  <2>5. QED
    BY <1>1, <1>2, <2>4
<1>6. QED
  BY <1>4, <1>5

LEMMA AdoptTypes ==
  ASSUME TInv, NEW r \in Requests, Founds(req[r]) \/ req[r].row \in DOMAIN goals,
         req[r].at = "read", req[r].cmd \in Adopting, Adopts(req[r]),
         req' = [req EXCEPT ![r] = Idle], UNCHANGED <<published, outside, overlaps>>
  PROVE  TablesOK'
<1> DEFINE q == req[r]
<1>1. UNCHANGED <<mapping, need, plan>>
  BY DEF Adopts
<1>2. /\ goals \in Seq({"candidate", "active"}) /\ shown \in {0} \cup DOMAIN goals
      /\ shown = 0 => goals = <<>>
      /\ Len(goals) + Cardinality(Founders(req)) <= Cardinality(Requests)
  BY DEF TInv, TablesOK, GoalsOK
<1>3. Len(goals) \in Nat
  BY Tables
<1>4. \A x \in Requests : req'[x] = IF x = r THEN Idle ELSE req[x]
  BY Tables, Changed
<1>5. Founders(req) \subseteq Requests /\ Founders(req') = Founders(req) \ {r}
  BY <1>4, IdleOK DEF Founders
<1>6. /\ GoalsOK'
      /\ DOMAIN goals \subseteq DOMAIN goals'
  <2>1. CASE q.row = 0
    <3>1. PICK status \in {"candidate", "active"} : goals' = Append(goals, status)
      BY <2>1 DEF Adopts
    <3>2. shown' \in {Len(goals) + 1} \cup ({shown} \ {0})
      BY <2>1 DEF Adopts
    <3>3. /\ goals' \in Seq({"candidate", "active"}) /\ Len(goals') = Len(goals) + 1
          /\ DOMAIN goals \subseteq DOMAIN goals' /\ Len(goals) + 1 \in DOMAIN goals'
      BY <1>2, <1>3, <3>1
    <3>4. shown' \in DOMAIN goals' /\ shown' # 0
      BY <1>2, <1>3, <3>2, <3>3
    <3>5. Cardinality(Founders(req')) = Cardinality(Founders(req)) - 1
      <4>1. r \in Founders(req)
        BY <2>1 DEF Founders, Founds
      <4>2. QED
        BY <1>5, <4>1, OneLess
    <3>6. Cardinality(Founders(req)) \in Nat /\ Cardinality(Requests) \in Nat
      BY <1>5, HowMany
    <3>7. Len(goals') + Cardinality(Founders(req')) <= Cardinality(Requests)
      BY <1>2, <1>3, <3>3, <3>5, <3>6
    <3>8. QED
      BY <3>3, <3>4, <3>7 DEF GoalsOK
  <2>2. CASE q.row # 0
    <3>1. goals' = [goals EXCEPT ![q.row] = "active"] /\ shown' = shown /\ q.row \in DOMAIN goals
      BY <2>2 DEF Adopts, Founds
    <3>2. /\ goals' \in Seq({"candidate", "active"}) /\ Len(goals') = Len(goals)
          /\ DOMAIN goals' = DOMAIN goals
      BY <1>2, <3>1
    <3>3. shown' = 0 => goals' = <<>>
      BY <1>2, <1>3, <3>1, <3>2
    <3>4. Cardinality(Founders(req')) <= Cardinality(Founders(req))
      BY <1>5, FewerOf
    <3>5. /\ Cardinality(Founders(req)) \in Nat /\ Cardinality(Requests) \in Nat
          /\ Cardinality(Founders(req')) \in Nat
      BY <1>5, HowMany
    <3>6. Len(goals') + Cardinality(Founders(req')) <= Cardinality(Requests)
      BY <1>2, <1>3, <3>2, <3>4, <3>5
    <3>7. QED
      BY <1>2, <3>1, <3>2, <3>3, <3>6 DEF GoalsOK
  <2>3. QED
    BY <2>1, <2>2
<1>7. MapsOK'
  BY <1>1, CalmMaps, IdleOK
<1>8. Grown(goals, goals', mapping, mapping', published.graph, published'.graph)
  BY <1>1, <1>6, Tables DEF Grown
<1>9. NeedsOK' /\ ReqsOK'
  BY <1>1, <1>8, Tables, KeptNeeds, KeptReqs, IdleOK
<1>10. QED
  BY <1>1, <1>6, <1>7, <1>9 DEF TInv, TablesOK, Bounds, PlansOK

LEMMA MapTypes ==
  ASSUME TInv, NEW r \in Requests, req[r].at = "read", req[r].cmd = "map", Maps(req[r]),
         req' = [req EXCEPT ![r] = Idle], UNCHANGED <<published, outside, overlaps>>
  PROVE  TablesOK'
<1> DEFINE q == req[r]
           p == published.graph
           s == mapping[q.g]
<1>1. /\ q.g \in GoalIds /\ q.row \in Mapping /\ q.row.graph <= p
      /\ q.n \in 0 .. Len(s) /\ s \in Seq(Mapping) /\ Len(s) \in Nat
  <2>1. ReqOK(q, goals, mapping, p)
    BY DEF TInv, TablesOK, ReqsOK
  <2>2. CommandOK(q, goals) /\ RowOK(q, goals, mapping, p)
    BY <2>1 DEF ReqOK
  <2>3. q.g \in GoalIds
    BY <2>2, Tables DEF CommandOK, Adopting
  <2>4. QED
    BY <2>2, <2>3, Tables DEF RowOK
<1>2. UNCHANGED <<goals, shown, need, plan>>
  BY DEF Maps
<1>3. CASE Len(s) # q.n
  <2>1. mapping' = mapping
    BY <1>3 DEF Maps
  <2>2. overlaps' \in 0 .. MaxOverlaps
    BY DEF TInv, TablesOK, Bounds
  <2>3. QED
    BY <1>2, <2>1, <2>2, SameNeedsAndPlans, EndsUnwritten
<1>4. CASE Len(s) = q.n
  <2> DEFINE z == Append(s, q.row)
  <2>1. mapping' = [mapping EXCEPT ![q.g] = z]
    BY <1>4 DEF Maps
  <2>2. mapping = [g \in GoalIds |-> mapping[g]]
    BY DEF TInv, TablesOK, MapsOK
  <2>3. /\ mapping' = [g \in GoalIds |-> mapping'[g]]
        /\ \A g \in GoalIds : mapping'[g] = IF g = q.g THEN z ELSE mapping[g]
    BY <2>1, <2>2
  <2>4. z \in Seq(Mapping) /\ Len(z) = Len(s) + 1
    BY <1>1
  <2>5. \A x \in Requests : req'[x] = IF x = r THEN Idle ELSE req[x]
    BY Tables, Changed
  <2>6. p \in Nat \ {0} /\ published' = published
    BY Tables
  <2>7. ASSUME NEW g \in GoalIds
        PROVE  /\ Mappers(req, g) \subseteq Requests
               /\ Mappers(req', g) = Mappers(req, g) \ {r}
               /\ Cardinality(Mappers(req, g)) \in Nat /\ Cardinality(Mappers(req', g)) \in Nat
               /\ Cardinality(Mappers(req', g)) <= Cardinality(Mappers(req, g))
               /\ Paced(mapping[g], p, Cardinality(Mappers(req, g)),
                        SomeLate(req, g, mapping[g], p))
    <3>1. Mappers(req, g) \subseteq Requests /\ Mappers(req', g) = Mappers(req, g) \ {r}
      BY <2>5, IdleOK DEF Mappers
    <3>2. QED
      BY <3>1, FewerOf DEF TInv, TablesOK, MapsOK
  <2>8. Paced(z, p, Cardinality(Mappers(req', q.g)), SomeLate(req', q.g, z, p))
    <3> DEFINE n == Cardinality(Mappers(req, q.g))
               m == Cardinality(Mappers(req', q.g))
               late == SomeLate(req, q.g, s, p)
               later == SomeLate(req', q.g, z, p)
    <3>1. r \in Mappers(req, q.g)
      BY DEF Mappers, MapsFor
    <3>2. n >= 1 /\ n <= Cardinality(Requests) /\ n \in Nat
      BY <1>1, <2>7, <3>1, HowMany
    <3>3. m = n - 1
      BY <1>1, <2>7, <3>1, OneLess
    <3>4. q.row.graph # p => late
      BY <1>4 DEF SomeLate, MapsFor, Late
    <3>5. ~later
      <4>1. SUFFICES ASSUME NEW x \in Requests, MapsFor(req'[x], q.g), Late(req'[x], z, p)
                     PROVE  FALSE
        BY DEF SomeLate
      <4>2. x # r /\ req'[x] = req[x]
        BY <2>5, <4>1, IdleOK
      <4>3. req[x].at = "read" /\ req[x].cmd = "map" /\ req[x].g = q.g /\ req[x].n = Len(z)
        BY <4>1, <4>2 DEF MapsFor, Late
      <4>4. RowOK(req[x], goals, mapping, p)
        BY <4>3 DEF TInv, TablesOK, ReqsOK, ReqOK
      <4>5. req[x].n \in 0 .. Len(s)
        BY <4>3, <4>4 DEF RowOK
      <4>6. QED
        BY <1>1, <2>4, <4>3, <4>5
    <3>6. Paced(s, p, n, late)
      BY <1>1, <2>7
    <3> HIDE DEF s, p, n, m, late, later, z
    <3>7. Paced(z, p, n - 1, FALSE)
      BY <1>1, <2>6, <3>2, <3>4, <3>6, PaceAppended DEF z
    <3>8. Paced(z, p, m, later)
      <4>1. n - 1 \in Nat /\ m \in Nat /\ m <= n - 1
        BY <3>2, <3>3
      <4>2. QED
        BY <2>6, <3>5, <3>7, <4>1, PaceEases DEF p
    <3>9. QED
      BY <3>8 DEF m, later
  <2>9. ASSUME NEW g \in GoalIds, g # q.g
        PROVE  Paced(mapping[g], p, Cardinality(Mappers(req', g)),
                     SomeLate(req', g, mapping[g], p))
    <3> DEFINE n == Cardinality(Mappers(req, g))
               m == Cardinality(Mappers(req', g))
               late == SomeLate(req, g, mapping[g], p)
               later == SomeLate(req', g, mapping[g], p)
    <3>1. n \in Nat /\ m \in Nat /\ m <= n /\ Paced(mapping[g], p, n, late)
      BY <2>7
    <3>2. later => late
      BY <2>5, IdleOK DEF SomeLate
    <3> HIDE DEF p, n, m, late, later
    <3>3. Paced(mapping[g], p, m, later)
      BY <2>6, <3>1, <3>2, PaceEases
    <3>4. QED
      BY <3>3 DEF m, later
  <2> HIDE DEF z
  <2>10. MapsOK'
    BY <2>3, <2>6, <2>8, <2>9 DEF MapsOK, p
  <2>11. Grown(goals, goals', mapping, mapping', p, published'.graph)
    <3>1. ASSUME NEW g \in GoalIds
          PROVE  /\ mapping[g] \in Seq(Mapping) /\ mapping'[g] \in Seq(Mapping)
                 /\ Len(mapping[g]) <= Len(mapping'[g])
      BY <1>1, <2>3, <2>4, Tables
    <3>2. QED
      BY <1>2, <2>6, <3>1, Tables DEF Grown
  <2>12. NeedsOK' /\ ReqsOK'
    BY <1>2, <2>6, <2>11, KeptNeeds, KeptReqs, IdleOK
  <2>13. GoalsOK'
    BY <1>2, CalmGoals, IdleOK
  <2>14. QED
    BY <1>2, <2>10, <2>12, <2>13 DEF TInv, TablesOK, Bounds, PlansOK
<1>5. QED
  BY <1>3, <1>4

LEMMA CommitTypes ==
  ASSUME TInv, NEW r \in Requests, Commit(r) \/ Collide(r) \/ ReadAndCommit(r)
  PROVE  TablesOK'
<1> DEFINE q == req[r]
<1>1. overlaps' \in 0 .. MaxOverlaps /\ req' = [req EXCEPT ![r] = Idle]
      /\ UNCHANGED <<published, outside, overlaps>>
  BY DEF Commit, Collide, ReadAndCommit, rest, TInv, TablesOK, Bounds
<1>2. ASSUME UNCHANGED <<rest, need, plan>> PROVE TablesOK'
  BY <1>1, <1>2, SameNeedsAndPlans, EndsUnwritten DEF rest
<1>3. ASSUME NEW z, z.g \in GoalIds, z.row.v # 0, NeedOK(z.row, mapping[z.g]), Diagnoses(z)
      PROVE  TablesOK'
  BY <1>1, <1>3, DiagnosisTypes, EndsUnwritten
<1>4. ASSUME NEW z, z.g \in GoalIds, z.cmd = "plan" => z.row \in Plan,
             \/ z.cmd = "plan" /\ Plans(z)
             \/ z.cmd = "select" /\ Selects(z)
      PROVE  TablesOK'
  BY <1>1, <1>4, PlanTypes, EndsUnwritten
<1>5. ASSUME NEW z, ReqOK(z, goals, mapping, published.graph), z.at = "read",
             Writes(z), z.cmd \in {"diagnose", "plan", "select"}
      PROVE  TablesOK'
  <2>1. z.g \in GoalIds /\ RowOK(z, goals, mapping, published.graph)
    BY <1>5, Tables DEF ReqOK, CommandOK, Adopting
  <2>2. CASE z.cmd = "diagnose"
    BY <1>3, <1>5, <2>1, <2>2 DEF Writes, RowOK
  <2>3. CASE z.cmd = "plan" \/ z.cmd = "select"
    BY <1>4, <1>5, <2>1, <2>3 DEF Writes, RowOK
  <2>4. QED
    BY <1>5, <2>2, <2>3
<1>6. CASE Commit(r)
  <2>1. q.at = "read" /\ Writes(q) /\ ReqOK(q, goals, mapping, published.graph)
    BY <1>6 DEF Commit, TInv, TablesOK, ReqsOK
  <2>2. CASE q.cmd \in Adopting
    <3>1. Adopts(q) /\ RowOK(q, goals, mapping, published.graph)
      BY <2>1, <2>2 DEF Writes, Adopting, ReqOK
    <3>2. Founds(q) \/ q.row \in DOMAIN goals
      BY <2>1, <2>2, <3>1 DEF RowOK, Founds
    <3>3. QED
      BY <1>1, <2>1, <2>2, <3>1, <3>2, AdoptTypes
  <2>3. CASE q.cmd = "map"
    BY <1>1, <2>1, <2>3, MapTypes DEF Writes
  <2>4. CASE q.cmd \in {"diagnose", "plan", "select"}
    BY <1>5, <2>1, <2>4
  <2>5. QED
    BY <2>1, <2>2, <2>3, <2>4 DEF ReqOK, CommandOK, Commands
<1>7. CASE Collide(r)
  BY <1>2, <1>7 DEF Collide
<1>8. CASE ReadAndCommit(r)
  <2>1. q.at = "asked" /\ Readable(q.cmd, q.g) /\ q.cmd \in {"diagnose", "plan"}
    BY <1>8 DEF ReadAndCommit, Transacted
  <2>2. CASE ~Unrecorded(q)
    BY <1>2, <1>8, <2>2 DEF ReadAndCommit
  <2>3. CASE Unrecorded(q)
    <3>1. PICK row \in Rows(q.cmd, q.g) : Writes(Readied(q, row))
      BY <1>8, <2>3 DEF ReadAndCommit
    <3>2. ReqOK(Readied(q, row), goals, mapping, published.graph)
      BY <2>1, RowsFit
    <3>3. Readied(q, row).at = "read" /\ Readied(q, row).cmd = q.cmd
      BY DEF Readied
    <3>4. QED
      BY <1>5, <2>1, <3>1, <3>2, <3>3
  <2>4. QED
    BY <2>2, <2>3
<1>9. QED
  BY <1>6, <1>7, <1>8

-----------------------------------------------------------------------------
(* Answers.                                                                *)
LEMMA AnswerTypes ==
  ASSUME TInv, NEW r \in Requests,
         NotScored(r) \/ Scored(r) \/ NotIndependent(r) \/ RefuseStale(r)
  PROVE  TablesOK'
<1> DEFINE q == req[r]
           g == q.g
           n == q.row
           v == need[g][n.m].v + 1
<1>1. /\ q.at = "answering" /\ req' = [req EXCEPT ![r] = Idle]
      /\ UNCHANGED <<goals, shown, published, mapping, outside>> /\ overlaps' \in 0 .. MaxOverlaps
  BY DEF NotScored, Scored, NotIndependent, RefuseStale, Answered, TInv, TablesOK, Bounds
<1>2. /\ g \in GoalIds /\ NeedOK(n, mapping[g]) /\ n.v # 0 /\ n.stop = "none"
  BY <1>1 DEF TInv, TablesOK, ReqsOK, ReqOK
<1>3. /\ n \in Need /\ n.m \in DOMAIN mapping[g] /\ n.m \in MapIds
      /\ n.used \in 0 .. MaxAttempts /\ n.used + 1 \in 0 .. MaxAttempts
  <2>1. n \in Need /\ n.m \in DOMAIN mapping[g] /\ n.used < MaxAttempts
    BY <1>2 DEF NeedOK
  <2>2. n.used \in 0 .. MaxAttempts
    BY <2>1 DEF Need
  <2>3. QED
    BY <1>2, <2>1, <2>2, Tables, JourneyConstants
<1>4. v \in Nat \ {0}
  <2>1. NeedOK(need[g][n.m], mapping[g])
    BY <1>2, <1>3 DEF TInv, TablesOK, NeedsOK
  <2>2. need[g][n.m].v \in Nat
    BY <2>1 DEF NeedOK, Need
  <2>3. \A k \in Nat : k + 1 \in Nat \ {0}
    OBVIOUS
  <2>4. QED
    BY <2>2, <2>3, Zenon
<1>5. learner.v \in Nat /\ Ensured(learner).v \in Nat
  BY EnsuredNat
<1>6. ASSUME NEW class, Projected(q, class) PROVE learner'.v \in Nat
  <2>1. Ensured(learner) \in [v : Nat, behind : BOOLEAN]
    BY Tables, EnsuredType
  <2>2. QED
    BY <1>6, <2>1 DEF Projected
<1>7. ASSUME Replanned(q), learner'.v \in Nat PROVE PlansOK'
  <2>1. NewPlan(g, n.m, learner'.v) \in Plan
    BY <1>2, <1>3, <1>7, PlanFits
  <2>2. QED
    BY <1>2, <1>7, <2>1 DEF Replanned, TInv, TablesOK, PlansOK
<1>8. plan' = plan => PlansOK'
  BY DEF TInv, TablesOK, PlansOK
<1>9. ASSUME NEW row, NeedOK(row, mapping[g]), Supersede(g, row) PROVE NeedsOK'
  BY <1>1, <1>2, <1>9, Superseded DEF Supersede
<1> DEFINE next == NextNeed(q)
<1>10. /\ next.v = v /\ next.m = n.m /\ next.used = n.used /\ next \in Need
       /\ next.stop = n.stop
  BY <1>3, <1>4 DEF NextNeed, Need
<1>11. ASSUME NEW stop \in Stops, NEW u \in 0 .. MaxAttempts, NEW lv \in Nat
       PROVE  NeedOK([v |-> v, m |-> n.m, stop |-> stop, used |-> u, asked |-> n.asked,
                      learner |-> lv], mapping[g])
  <2>1. stop # "none"
    BY DEF Stops, Eligible
  <2>2. n.asked \in Units \cup {Target}
    BY <1>3 DEF Need
  <2> HIDE DEF v
  <2>3. QED
    BY <1>3, <1>4, <2>1, <2>2 DEF NeedOK, Need
<1> HIDE DEF next
<1>12. CASE NotScored(r)
  <2>1. PICK stop \in {"no_item", "system"} : Supersede(g, [next EXCEPT !.stop = stop])
    BY <1>12 DEF NotScored, next
  <2>2. [next EXCEPT !.stop = stop] =
           [v |-> v, m |-> n.m, stop |-> stop, used |-> n.used, asked |-> n.asked,
            learner |-> n.learner]
    <3>1. next = [v |-> v, m |-> n.m, stop |-> n.stop, used |-> n.used, asked |-> n.asked,
                  learner |-> n.learner]
      BY <1>3 DEF next, NextNeed, Need
    <3>2. QED
      BY <3>1
  <2>3. stop \in Stops /\ n.learner \in Nat
    BY <1>3 DEF Stops, Need
  <2>4. NeedOK([next EXCEPT !.stop = stop], mapping[g])
    BY <1>3, <1>11, <2>2, <2>3
  <2>5. NeedsOK' /\ PlansOK'
    BY <1>8, <1>9, <1>12, <2>1, <2>4 DEF NotScored
  <2>6. QED
    BY <1>1, <2>5, EndsUnwritten
<1>13. CASE Scored(r)
  <2>1. PICK class \in Classes :
           /\ Projected(q, class) /\ Replanned(q)
           /\ \E row \in BuiltNeeds(NextNeed(q).v, n.m, n.used + 1, learner'.v, mastery') :
                 Supersede(g, row)
    BY <1>13 DEF Scored
  <2>2. PICK row \in BuiltNeeds(v, n.m, n.used + 1, learner'.v, mastery') : Supersede(g, row)
    BY <1>10, <2>1 DEF next
  <2>3. learner'.v \in Nat
    BY <1>6, <2>1
  <2>4. NeedOK(row, mapping[g])
    <3> HIDE DEF v
    <3>1. DOMAIN mapping[g] \subseteq MapIds
      BY <1>2, Tables
    <3>2. QED
      BY <1>3, <1>4, <2>2, <2>3, <3>1, BuiltFits
  <2>5. NeedsOK' /\ PlansOK'
    BY <1>7, <1>9, <2>1, <2>2, <2>3, <2>4
  <2>6. QED
    BY <1>1, <2>5, EndsUnwritten
<1>14. CASE NotIndependent(r)
  <2> DEFINE row == [next EXCEPT !.used = @ + 1, !.stop = "low_confidence", !.learner = learner'.v]
  <2>1. Supersede(g, row)
    BY <1>14 DEF NotIndependent, next
  <2>2. learner'.v \in Nat
    BY <1>5, <1>6, <1>14 DEF NotIndependent
  <2>3. row = [v |-> v, m |-> n.m, stop |-> "low_confidence", used |-> n.used + 1,
               asked |-> n.asked, learner |-> learner'.v]
    <3>1. next = [v |-> v, m |-> n.m, stop |-> n.stop, used |-> n.used, asked |-> n.asked,
                  learner |-> n.learner]
      BY <1>3 DEF next, NextNeed, Need
    <3> DEFINE a1 == [next EXCEPT !.used = @ + 1]
               a2 == [a1 EXCEPT !.stop = "low_confidence"]
               a3 == [a2 EXCEPT !.learner = learner'.v]
    <3>2. row = a3
      OBVIOUS
    <3>3. a1 = [v |-> v, m |-> n.m, stop |-> n.stop, used |-> n.used + 1, asked |-> n.asked,
                learner |-> n.learner]
      BY <3>1
    <3> HIDE DEF a1
    <3>4. a2 = [v |-> v, m |-> n.m, stop |-> "low_confidence", used |-> n.used + 1,
                asked |-> n.asked, learner |-> n.learner]
      BY <3>3
    <3> HIDE DEF a2
    <3>5. a3 = [v |-> v, m |-> n.m, stop |-> "low_confidence", used |-> n.used + 1,
                asked |-> n.asked, learner |-> learner'.v]
      BY <3>4
    <3>6. QED
      BY <3>2, <3>5
  <2>4. NeedOK(row, mapping[g])
    <3> HIDE DEF row
    <3>1. "low_confidence" \in Stops
      BY DEF Stops
    <3>2. QED
      BY <1>3, <1>11, <2>2, <2>3, <3>1
  <2>5. NeedsOK'
    BY <1>9, <2>1, <2>4
  <2>6. PlansOK'
    BY <1>7, <1>8, <1>14, <2>2 DEF NotIndependent
  <2>7. QED
    BY <1>1, <2>5, <2>6, EndsUnwritten
<1>15. CASE RefuseStale(r)
  BY <1>1, <1>15, SameNeedsAndPlans, EndsUnwritten DEF RefuseStale
<1>16. QED
  BY <1>12, <1>13, <1>14, <1>15

-----------------------------------------------------------------------------
(* From outside.                                                           *)
LEMMA PublishTypes ==
  ASSUME TInv, Publish
  PROVE  TablesOK'
<1> DEFINE p == published.graph
<1>1. /\ UNCHANGED <<goals, shown, mapping, need, plan, req, overlaps>>
      /\ outside' = outside + 1 /\ outside < MaxOutside
      /\ \E rel \in {published.rel, published.rel + 1} :
            published' = [graph |-> p + 1, rel |-> rel]
  BY DEF Publish
<1>2. p \in Nat \ {0}
  BY Tables
<1>3. Bounds' /\ published'.graph = p + 1
  BY <1>1, JourneyConstants DEF TInv, TablesOK, Bounds
<1>4. ASSUME NEW g \in GoalIds
      PROVE  Paced(mapping[g], p + 1, Cardinality(Mappers(req, g)),
                   SomeLate(req, g, mapping[g], p + 1))
  <2> DEFINE n == Cardinality(Mappers(req, g))
             late == SomeLate(req, g, mapping[g], p)
             later == SomeLate(req, g, mapping[g], p + 1)
  <2>1. Mappers(req, g) \subseteq Requests
    BY DEF Mappers
  <2>2. n \in Nat /\ n <= Cardinality(Requests) /\ (Mappers(req, g) # {} => n >= 1)
    BY <2>1, HowMany
  <2>3. later => n >= 1
    BY <2>2 DEF SomeLate, Mappers
  <2>4. Cardinality(Requests) >= 1
    BY HowMany DEF GoalIds
  <2>5. Paced(mapping[g], p, n, late)
    BY DEF TInv, TablesOK, MapsOK
  <2> HIDE DEF p, n, late, later
  <2>6. Paced(mapping[g], p + 1, n, later)
    BY <1>2, <2>2, <2>3, <2>4, <2>5, PacePublished
  <2>7. QED
    BY <2>6 DEF n, later
<1>5. MapsOK'
  BY <1>1, <1>3, <1>4 DEF TInv, TablesOK, MapsOK
<1>6. Grown(goals, goals', mapping, mapping', p, published'.graph)
  BY <1>1, <1>2, <1>3, Tables DEF Grown
<1>7. NeedsOK' /\ ReqsOK'
  BY <1>1, <1>2, <1>3, <1>6, KeptNeeds, KeptReqs
<1>8. QED
  BY <1>1, <1>3, <1>5, <1>7 DEF TInv, TablesOK, GoalsOK, PlansOK

LEMMA OutsideTypes ==
  ASSUME TInv, GoalAssessment \/ \E g \in GoalIds : ConfirmGoal(g)
  PROVE  TablesOK'
<1>1. CASE GoalAssessment
  <2>1. /\ UNCHANGED <<goals, shown, published, mapping, need, plan, req, overlaps>>
        /\ outside' = outside + 1 /\ outside < MaxOutside
    BY <1>1 DEF GoalAssessment
  <2>2. Bounds'
    BY <2>1, JourneyConstants DEF TInv, TablesOK, Bounds
  <2>3. QED
    BY <2>1, <2>2 DEF TInv, TablesOK, GoalsOK, MapsOK, NeedsOK, PlansOK, ReqsOK
<1>2. ASSUME NEW g \in GoalIds, ConfirmGoal(g) PROVE TablesOK'
  <2>1. /\ g \in DOMAIN goals /\ goals' = [goals EXCEPT ![g] = "active"]
        /\ UNCHANGED <<shown, published, mapping, need, plan, req, overlaps, outside>>
    BY <1>2 DEF ConfirmGoal
  <2>2. goals \in Seq({"candidate", "active"})
    BY DEF TInv, TablesOK, GoalsOK
  <2>3. /\ goals' \in Seq({"candidate", "active"}) /\ Len(goals') = Len(goals)
        /\ DOMAIN goals' = DOMAIN goals /\ (goals = <<>> => goals' = <<>>)
    BY <2>1, <2>2
  <2>4. GoalsOK'
    BY <2>1, <2>3 DEF TInv, TablesOK, GoalsOK
  <2>5. Grown(goals, goals', mapping, mapping', published.graph, published'.graph)
    BY <2>1, <2>3, Tables DEF Grown
  <2>6. NeedsOK' /\ ReqsOK'
    BY <2>1, <2>5, Tables, KeptNeeds, KeptReqs
  <2>7. QED
    BY <2>1, <2>4, <2>6 DEF TInv, TablesOK, Bounds, MapsOK, PlansOK
<1>3. QED
  BY <1>1, <1>2

-----------------------------------------------------------------------------
LEMMA InitTInv == Init => TInv
<1>1. SUFFICES ASSUME Init PROVE TablesOK
  BY InitJInv DEF TInv
<1>2. Bounds
  BY <1>1, JourneyConstants DEF Init, Bounds
<1>3. /\ \A g : Mappers(req, g) = {}
      /\ Founders(req) = {}
      /\ \A g, s, p : ~SomeLate(req, g, s, p)
  BY <1>1, IdleOK DEF Init, Mappers, Founders, SomeLate
<1>4. Cardinality({}) = 0 /\ Cardinality(Requests) \in Nat
  BY FS_EmptySet, HowMany
<1>5. GoalsOK
  <2>1. goals = <<>> /\ shown = 0
    BY <1>1 DEF Init
  <2>2. goals \in Seq({"candidate", "active"}) /\ Len(goals) = 0
    BY <2>1
  <2>3. QED
    BY <1>3, <1>4, <2>1, <2>2 DEF GoalsOK
<1>6. MapsOK
  <2>1. Quota(1 - 1) = 0
    BY <1>4 DEF Quota
  <2>2. Paced(<<>>, 1, 0, FALSE)
    BY <2>1 DEF Paced, Settled
  <2>3. QED
    BY <1>1, <1>3, <1>4, <2>1, <2>2 DEF Init, MapsOK, Paced, Settled
<1>7. NeedsOK
  BY <1>1, JourneyConstants DEF Init, NeedsOK, NeedOK, NoNeed, Need, Stops, Eligible
<1>8. PlansOK
  BY <1>1 DEF Init, PlansOK, NoPlan, Plan
<1>9. ReqsOK
  BY <1>1, IdleOK DEF Init, ReqsOK
<1>10. QED
  BY <1>2, <1>5, <1>6, <1>7, <1>8, <1>9 DEF TablesOK

LEMMA TInvStep == TInv /\ [Next]_vars => TInv'
<1>1. SUFFICES ASSUME TInv, [Next]_vars PROVE TInv'
  OBVIOUS
<1>2. JInv'
  BY <1>1, JInvStep DEF TInv
<1>3. CASE UNCHANGED vars
  BY <1>1, <1>2, <1>3 DEF vars, TInv, TablesOK, Bounds, GoalsOK, MapsOK, NeedsOK, PlansOK, ReqsOK
<1>4. CASE Next
  <2>1. TablesOK'
    BY <1>1, <1>4, BeginTypes, ReadTypes, CommitTypes, AnswerTypes, PublishTypes, OutsideTypes
       DEF Next, Serve
  <2>2. QED
    BY <1>2, <2>1 DEF TInv
<1>5. QED
  BY <1>1, <1>3, <1>4

(* All tables keep their types, however many requests race: no goal is     *)
(* made beyond one for each request, and none is mapped more often than    *)
(* the requests allow in each publication of its book.                     *)
THEOREM JourneyTypes == Spec => []TypeOK
<1>1. TInv => TypeOK
  <2>1. SUFFICES ASSUME TInv PROVE TypeOK
    OBVIOUS
  <2>2. goals \in Seq({"candidate", "active"}) /\ shown \in {0} \cup DOMAIN goals
    BY <2>1 DEF TInv, TablesOK, GoalsOK
  <2>3. published \in [graph : Graphs, rel : Graphs]
    BY <2>1, JourneyConstants DEF TInv, TablesOK, Bounds, Graphs
  <2>4. mapping \in [GoalIds -> Seq(Mapping)]
    BY <2>1, Tables DEF TInv, TablesOK, MapsOK
  <2>5. need \in [GoalIds -> [MapIds -> Need]]
    BY <2>1, Tables DEF TInv, TablesOK, NeedsOK, NeedOK
  <2>6. /\ learner \in [v : Nat, behind : BOOLEAN] /\ mastery \in [Units -> Classes]
        /\ advances \in [Keys -> Nat]
    BY <2>1 DEF TInv, JInv, Basics
  <2>7. \A r \in Requests : req[r].at \in {"idle", "asked", "read", "answering"}
    BY <2>1 DEF TInv, TablesOK, ReqsOK, ReqOK
  <2>8. plan \in [GoalIds -> Plan] /\ overlaps \in 0 .. MaxOverlaps /\ outside \in 0 .. MaxOutside
    BY <2>1 DEF TInv, TablesOK, PlansOK, Bounds
  <2>9. QED
    BY <2>2, <2>3, <2>4, <2>5, <2>6, <2>7, <2>8 DEF TypeOK
<1>2. QED
  BY <1>1, InitTInv, TInvStep, PTL DEF Spec
=============================================================================
