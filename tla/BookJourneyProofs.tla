-------------------------- MODULE BookJourneyProofs --------------------------
(***************************************************************************)
(* For every graph of prerequisites, every learner's record and any number *)
(* of requests: a diagnosis that claims an outcome has left nothing that   *)
(* bears on the target unknown, and a key runs its command once.           *)
(***************************************************************************)
EXTENDS BookJourney, FiniteSetTheorems, WellFoundedInduction, TLAPS

-----------------------------------------------------------------------------
(* The search for unknown prerequisites.                                   *)

(* Numbers that are not none have a least one (the intervals 0 .. n are    *)
(* well-founded by inclusion).                                             *)
LEMMA Least ==
  ASSUME NEW S \in SUBSET Nat, S # {}
  PROVE  \E x \in S : \A y \in S : x <= y
<1> DEFINE T == {0 .. n : n \in S}
<1>1. T \subseteq FiniteSubsetsOf(Nat) /\ T # {}
  <2>1. \A n \in S : 0 .. n \in SUBSET Nat /\ IsFiniteSet(0 .. n)
    BY FS_Interval
  <2>2. QED
    BY <2>1 DEF FiniteSubsetsOf
<1>2. PICK X \in T : \A Y \in T : <<Y, X>> \notin StrictSubsetOrdering(Nat)
  <2> HIDE DEF T
  <2>1. QED
    BY <1>1, FS_StrictSubsetOrderingWellFounded, WFMin
<1>3. PICK x \in S : X = 0 .. x
  BY <1>2
<1>4. ASSUME NEW y \in S, y < x PROVE FALSE
  <2>1. 0 .. y \subseteq 0 .. x /\ x \in 0 .. x /\ x \notin 0 .. y
    BY <1>4
  <2>2. <<0 .. y, 0 .. x>> \in StrictSubsetOrdering(Nat)
    BY <2>1 DEF StrictSubsetOrdering
  <2>3. QED
    BY <1>2, <1>3, <2>2
<1>5. QED
  BY <1>4

(* The next layer of the search, and the equation of the layers.           *)
Beneath(X, of) == (UNION {Under(u) : u \in X}) \cap In("unmet", of)
AreLayers(L, m, root, of) ==
    L = [n \in 0 .. m |-> IF n = 0 THEN {root} ELSE Beneath(L[n - 1], of)]

LEMMA LayersExist ==
  ASSUME NEW root, NEW of, NEW m \in Nat
  PROVE  \E L : AreLayers(L, m, root, of)
<1> DEFINE Bad == {k \in Nat : ~ \E L : AreLayers(L, k, root, of)}
<1>1. SUFFICES ASSUME Bad # {} PROVE FALSE
  OBVIOUS
<1>2. PICK k \in Bad : \A j \in Bad : k <= j
  <2> HIDE DEF Bad
  <2>1. Bad \in SUBSET Nat
    BY DEF Bad
  <2>2. QED
    BY <1>1, <2>1, Least
<1>3. CASE k = 0
  <2>1. AreLayers([n \in 0 .. 0 |-> {root}], 0, root, of)
    BY DEF AreLayers
  <2>2. QED
    BY <1>2, <1>3, <2>1
<1>4. CASE k # 0
  <2>1. k - 1 \in Nat /\ k - 1 \notin Bad
    BY <1>2, <1>4
  <2>2. PICK L : AreLayers(L, k - 1, root, of)
    BY <2>1
  <2> DEFINE M == [n \in 0 .. k |-> IF n = k THEN Beneath(L[k - 1], of) ELSE L[n]]
  <2>3. ASSUME NEW n \in 0 .. k
        PROVE  M[n] = IF n = 0 THEN {root} ELSE Beneath(M[n - 1], of)
    <3>1. n # k => L[n] = IF n = 0 THEN {root} ELSE Beneath(L[n - 1], of)
      <4>1. n # k => n \in 0 .. k - 1
        OBVIOUS
      <4>2. QED
        BY <2>2, <4>1, Zenon DEF AreLayers
    <3>2. n # 0 => n - 1 \in 0 .. k /\ M[n - 1] = L[n - 1]
      OBVIOUS
    <3>3. QED
      BY <1>4, <3>1, <3>2
  <2>4. AreLayers(M, k, root, of)
    <3> HIDE DEF M
    <3>1. M = [n \in 0 .. k |-> M[n]]
      BY DEF M
    <3>2. QED
      BY <2>3, <3>1 DEF AreLayers
  <2>5. QED
    BY <1>2, <2>4
<1>5. QED
  BY <1>3, <1>4

LEMMA LayersUnfold ==
  ASSUME NEW root, NEW of
  PROVE  AreLayers(Layers(root, of), Cardinality(Units), root, of)
<1>1. Cardinality(Units) \in Nat
  BY JourneyConstants, FS_CardinalityType
<1>2. \E L : AreLayers(L, Cardinality(Units), root, of)
  BY <1>1, LayersExist
<1>3. Layers(root, of) = CHOOSE L : AreLayers(L, Cardinality(Units), root, of)
  BY DEF Layers, AreLayers, Beneath
<1>4. QED
  BY <1>2, <1>3

(* Whatever the search finds, it finds before the last layer: a unit that  *)
(* first came up in layer n needs n others that came up before it.         *)
LEMMA NoneIsLate ==
  ASSUME NEW of, NEW root \in Units, NEW x \in Layers(root, of)[Cardinality(Units)]
  PROVE  \E k \in 0 .. Cardinality(Units) - 1 : x \in Layers(root, of)[k]
<1> DEFINE N == Cardinality(Units)
           L == Layers(root, of)
           First(n) == {y \in L[n] : \A k \in 0 .. n - 1 : y \notin L[k]}
<1>1. N \in Nat
  BY JourneyConstants, FS_CardinalityType
<1>2. \A n \in 0 .. N : L[n] = IF n = 0 THEN {root} ELSE Beneath(L[n - 1], of)
  <2> HIDE DEF N, L
  <2>1. L = [n \in 0 .. N |-> IF n = 0 THEN {root} ELSE Beneath(L[n - 1], of)]
    BY LayersUnfold DEF AreLayers, L, N
  <2>2. QED
    BY <2>1, Zenon
<1> HIDE DEF N, L
<1>3. SUFFICES ASSUME x \in First(N) PROVE FALSE
  BY <1>1 DEF N, L
<1>4. \A n \in 0 .. N : First(n) # {}
  <2> DEFINE Bad == {j \in 0 .. N : First(N - j) = {}}
  <2>1. SUFFICES Bad = {}
    <3>1. ASSUME NEW n \in 0 .. N PROVE N - n \in 0 .. N /\ N - (N - n) = n
      BY <1>1
    <3>2. QED
      BY <3>1
  <2>2. SUFFICES ASSUME Bad # {} PROVE FALSE
    OBVIOUS
  <2>3. PICK b \in Bad : \A j \in Bad : b <= j
    <3>1. Bad \in SUBSET Nat
      BY <1>1
    <3> HIDE DEF Bad
    <3>2. QED
      BY <2>2, <3>1, Least
  <2>4. b # 0
    <3>1. N - 0 = N
      BY <1>1
    <3>2. QED
      BY <1>3, <3>1
  <2> DEFINE n == N - (b - 1)
  <2>5. n \in 1 .. N /\ n - 1 = N - b /\ b - 1 \in 0 .. N /\ ~(b <= b - 1)
    BY <1>1, <2>4
  <2>6. First(n) # {}
    BY <2>3, <2>5
  <2>7. PICK y : y \in First(n)
    BY <2>6
  <2> HIDE DEF n
  <2>8. y \in Beneath(L[n - 1], of)
    BY <1>2, <2>5, <2>7
  <2>9. PICK p \in L[n - 1] : y \in Under(p) /\ y \in In("unmet", of)
    BY <2>8 DEF Beneath
  <2>10. ASSUME NEW k \in 0 .. (n - 1) - 1, p \in L[k] PROVE FALSE
    <3>1. k + 1 \in 0 .. N /\ k + 1 # 0 /\ (k + 1) - 1 = k /\ k + 1 \in 0 .. n - 1
      BY <1>1, <2>5
    <3>2. L[k + 1] = Beneath(L[k], of)
      BY <1>2, <3>1
    <3>3. y \in L[k + 1]
      BY <2>9, <2>10, <3>2 DEF Beneath
    <3>4. QED
      BY <2>7, <3>1, <3>3
  <2>11. p \in First(n - 1)
    BY <2>10
  <2>12. QED
    BY <2>5, <2>11, <2>3
<1> DEFINE f == [n \in 0 .. N |-> CHOOSE y : y \in First(n)]
<1>5. \A n \in 0 .. N : f[n] \in First(n)
  BY <1>4
<1>6. \A n \in 0 .. N : L[n] \subseteq Units
  BY <1>2 DEF Beneath, In
<1>7. f \in [0 .. N -> Units]
  BY <1>5, <1>6
<1>8. PICK a \in 0 .. N, b \in 0 .. N : a # b /\ f[a] = f[b]
  <2>1. IsFiniteSet(0 .. N) /\ Cardinality(0 .. N) = N + 1
    BY <1>1, FS_Interval
  <2>2. Cardinality(Units) < Cardinality(0 .. N) /\ IsFiniteSet(Units)
    BY <1>1, <2>1, JourneyConstants DEF N
  <2> HIDE DEF f
  <2>3. \E a, b \in 0 .. N : a # b /\ f[a] = f[b]
    BY <1>7, <2>1, <2>2, FS_PigeonHole, Zenon
  <2>4. QED
    BY <2>3
<1>9. ASSUME NEW c \in 0 .. N, NEW d \in 0 .. N, c < d, f[c] = f[d] PROVE FALSE
  <2>1. f[d] \in First(d) /\ f[c] \in L[c] /\ c \in 0 .. d - 1
    BY <1>1, <1>5, <1>9
  <2> HIDE DEF f
  <2>2. QED
    BY <1>9, <2>1
<1>10. QED
  <2> HIDE DEF f
  <2>1. a < b \/ b < a
    BY <1>1, <1>8
  <2>2. QED
    BY <1>8, <1>9, <2>1

(* A search below an unmet unit that finds nothing has seen every unmet    *)
(* unit below it, and none of them has an unknown prerequisite.            *)
LEMMA SearchedAll ==
  ASSUME NEW of, NEW root \in In("unmet", of), {} \in Deeper(root, of)
  PROVE  \E V \in SUBSET In("unmet", of) :
            /\ root \in V
            /\ \A x \in V : Under(x) \cap In("unknown", of) = {}
            /\ \A x \in V : Under(x) \cap In("unmet", of) \subseteq V
<1> DEFINE N == Cardinality(Units)
           L == Layers(root, of)
           hits == {n \in DOMAIN L : \E u \in L[n] : Under(u) \cap In("unknown", of) # {}}
           V == UNION {L[n] : n \in 0 .. N}
<1>1. N \in Nat /\ root \in Units
  BY JourneyConstants, FS_CardinalityType DEF In
<1>2. /\ DOMAIN L = 0 .. N
      /\ \A n \in 0 .. N : L[n] = IF n = 0 THEN {root} ELSE Beneath(L[n - 1], of)
  <2> HIDE DEF N, L
  <2>1. L = [n \in 0 .. N |-> IF n = 0 THEN {root} ELSE Beneath(L[n - 1], of)]
    BY LayersUnfold DEF AreLayers, L, N
  <2>2. QED
    BY <2>1, Zenon
<1>3. hits = {}
  BY DEF Deeper
<1>4. ASSUME NEW n \in 0 .. N, NEW x \in L[n], NEW y \in Under(x) \cap In("unmet", of)
      PROVE  y \in V
  <2>1. PICK k \in 0 .. N - 1 : x \in L[k]
    <3>1. n = N \/ n \in 0 .. N - 1
      BY <1>1
    <3>2. QED
      BY <1>1, <3>1, NoneIsLate
  <2> HIDE DEF N, L
  <2>2. k + 1 \in 0 .. N /\ k + 1 # 0 /\ (k + 1) - 1 = k
    BY <1>1
  <2>3. L[k + 1] = Beneath(L[k], of)
    BY <1>2, <2>2
  <2>4. y \in L[k + 1]
    BY <2>1, <2>3, <1>4 DEF Beneath
  <2>5. QED
    BY <2>2, <2>4
<1>5. V \subseteq In("unmet", of)
  <2>1. ASSUME NEW n \in 0 .. N PROVE L[n] \subseteq In("unmet", of)
    <3> HIDE DEF N, L
    <3>1. n = 0 => L[n] = {root}
      BY <1>2
    <3>2. n # 0 => L[n] = Beneath(L[n - 1], of)
      BY <1>2
    <3>3. QED
      BY <3>1, <3>2 DEF Beneath
  <2> HIDE DEF N, L
  <2>2. QED
    BY <2>1
<1>6. root \in V
  <2> HIDE DEF N, L
  <2>1. 0 \in 0 .. N /\ root \in L[0]
    BY <1>1, <1>2
  <2>2. QED
    BY <2>1
<1>7. ASSUME NEW x \in V PROVE Under(x) \cap In("unknown", of) = {}
  <2>1. PICK n \in 0 .. N : x \in L[n]
    OBVIOUS
  <2> HIDE DEF N, L
  <2>2. QED
    BY <1>2, <1>3, <2>1
<1>8. ASSUME NEW x \in V PROVE Under(x) \cap In("unmet", of) \subseteq V
  BY <1>4
<1>9. QED
  <2> HIDE DEF V
  <2>1. QED
    BY <1>5, <1>6, <1>7, <1>8

(* No candidates: nothing unknown bears on the target.                     *)
LEMMA NothingRelevant ==
  ASSUME NEW of \in [Units -> Classes], {} \in Candidates(of)
  PROVE  Relevant(of) = {} /\ Under(Target) \cap In("unknown", of) = {}
<1> DEFINE top == Under(Target) \cap In("unmet", of)
<1>1. PICK f \in [top -> SUBSET Units] :
         /\ \A u \in top : f[u] \in Deeper(u, of)
         /\ {} = (Under(Target) \cap In("unknown", of)) \cup UNION {f[u] : u \in top}
  BY DEF Candidates
<1>2. Under(Target) \cap In("unknown", of) = {} /\ \A u \in top : f[u] = {}
  BY <1>1
<1> DEFINE Seen(u, V) == /\ V \subseteq In("unmet", of) /\ u \in V
                         /\ \A x \in V : Under(x) \cap In("unknown", of) = {}
                         /\ \A x \in V : Under(x) \cap In("unmet", of) \subseteq V
           W == {x \in Units : \E u \in top, V \in SUBSET In("unmet", of) : Seen(u, V) /\ x \in V}
           S == Under(Target) \cup UNION {Under(x) : x \in W}
<1>3. \A u \in top : \E V \in SUBSET In("unmet", of) : Seen(u, V)
  BY <1>1, <1>2, SearchedAll
<1>4. top \subseteq W
  BY <1>3 DEF In
<1>5. \A x \in W : /\ Under(x) \cap In("unknown", of) = {}
                   /\ Under(x) \cap In("unmet", of) \subseteq W
  BY DEF In
<1>6. S \subseteq Units /\ S \cap In("unknown", of) = {}
  <2>1. \A x : Under(x) \subseteq Units
    BY JourneyConstants DEF Under
  <2>2. S \subseteq Units
    BY <2>1
  <2> HIDE DEF W
  <2>3. QED
    BY <2>2, <1>2, <1>5
<1>7. ASSUME NEW e \in Edges, e[2] = Target \/ (e[2] \in S /\ of[e[2]] = "unmet")
      PROVE  e[1] \in S
  <2>1. e[1] \in Under(e[2])
    BY DEF Under
  <2>2. CASE e[2] = Target
    BY <2>1, <2>2
  <2>3. CASE e[2] \in S /\ of[e[2]] = "unmet"
    <3>1. e[2] \in In("unmet", of)
      BY <1>6, <2>3 DEF In
    <3>2. e[2] \in W
      <4> HIDE DEF W
      <4>1. QED
        BY <1>4, <1>5, <2>3, <3>1
    <3> HIDE DEF W
    <3>3. QED
      BY <2>1, <3>2
  <2>4. QED
    BY <1>7, <2>2, <2>3
<1> HIDE DEF S
<1>8. Relevant(of) = {}
  BY <1>6, <1>7 DEF Relevant, In
<1>9. QED
  BY <1>2, <1>8

-----------------------------------------------------------------------------
(* What a need claims, of the learner's state it was made from.            *)
IsNeed(n) == n = [v |-> n.v, m |-> n.m, stop |-> n.stop, used |-> n.used,
                  asked |-> n.asked, learner |-> n.learner]
TrueOf(stop, of) ==
    stop \in {"resolved", "remediation"}
    => /\ Relevant(of) = {}
       /\ (stop = "resolved" <=> \A u \in Under(Target) : of[u] = "sufficient")

(* A need is never ahead of the learner's state, and true while this is    *)
(* the state it was made from and no evidence is outstanding.              *)
SoundNeed(n, l, of) ==
    /\ IsNeed(n) /\ n.learner \in Nat /\ n.learner <= l.v
    /\ n.learner = l.v /\ ~l.behind => TrueOf(n.stop, of)

LEMMA BuiltIsSound ==
  ASSUME NEW of \in [Units -> Classes], NEW v, NEW m, NEW used, NEW l, l.v \in Nat,
         NEW n \in BuiltNeeds(v, m, used, l.v, of)
  PROVE  SoundNeed(n, l, of)
<1> DEFINE row(stop, unit) == [v |-> v, m |-> m, stop |-> stop, used |-> used,
                               asked |-> unit, learner |-> l.v]
           done == IF Under(Target) \cap In("unmet", of) # {} THEN "remediation" ELSE "resolved"
<1>1. PICK cands \in Candidates(of) :
         n \in IF cands = {} THEN {row(done, Target)}
               ELSE IF Spent(used) THEN {row("budget", Target)}
               ELSE {row(stop, u) : stop \in {"none", "no_item"}, u \in Best(cands)}
  BY DEF BuiltNeeds
<1>2. CASE cands = {}
  <2>1. Relevant(of) = {} /\ Under(Target) \cap In("unknown", of) = {}
    BY <1>2, NothingRelevant
  <2>2. Under(Target) \subseteq Units
    BY JourneyConstants DEF Under
  <2>3. done = "resolved" <=> \A u \in Under(Target) : of[u] = "sufficient"
    BY <2>1, <2>2 DEF In, Classes
  <2>4. n = row(done, Target)
    BY <1>1, <1>2
  <2>5. TrueOf(done, of)
    BY <2>1, <2>3 DEF TrueOf
  <2> HIDE DEF done
  <2>6. QED
    BY <2>4, <2>5 DEF SoundNeed, IsNeed
<1>3. CASE cands # {}
  <2>1. \E u : \E stop \in {"budget", "none", "no_item"} : n = row(stop, u)
    BY <1>1, <1>3
  <2>2. QED
    BY <2>1 DEF SoundNeed, IsNeed, TrueOf
<1>4. QED
  BY <1>2, <1>3

LEMMA EnsuredType ==
  ASSUME NEW l \in [v : Nat, behind : BOOLEAN]
  PROVE  Ensured(l) \in [v : Nat, behind : BOOLEAN] /\ Ensured(l).v >= l.v
<1>1. l.v \in Nat /\ l.v + 1 \in Nat /\ l.v + 1 >= l.v
  OBVIOUS
<1>2. QED
  BY <1>1 DEF Ensured

(* A need stays sound when the learner's state moves on, or falls behind.  *)
LEMMA StaysSound ==
  ASSUME NEW n, NEW l \in [v : Nat, behind : BOOLEAN], NEW of, SoundNeed(n, l, of)
  PROVE  /\ SoundNeed(n, Ensured(l), of)
         /\ \A k \in [v : Nat, behind : BOOLEAN] : \A other :
               k.v > l.v \/ (k.v = l.v /\ k.behind) => SoundNeed(n, k, other)
  BY DEF SoundNeed, Ensured

-----------------------------------------------------------------------------
(* The invariant: needs are sound, the ones of requests under way, too.    *)
Basics ==
    /\ mastery \in [Units -> Classes]
    /\ learner \in [v : Nat, behind : BOOLEAN]
    /\ req = [r \in Requests |-> req[r]]
    /\ advances \in [Keys -> {0, 1}]
SoundTable(table, l, of) ==
    /\ table = [g \in GoalIds |-> [m \in MapIds |-> table[g][m]]]
    /\ \A g \in GoalIds, m \in MapIds : SoundNeed(table[g][m], l, of)
NeedsSound == SoundTable(need, learner, mastery)
HeldSound == \A r \in Requests :
    req[r].at = "answering" \/ (req[r].at = "read" /\ req[r].cmd = "diagnose")
    => SoundNeed(req[r].row, learner, mastery)
JInv == Basics /\ NeedsSound /\ HeldSound

LEMMA InitJInv == Init => JInv
  BY JourneyConstants DEF Init, JInv, Basics, NeedsSound, HeldSound, SoundTable,
     SoundNeed, IsNeed, TrueOf,     NoNeed, Idle, Classes

(* What was sound stays sound when the learner's state becomes l and the   *)
(* record of, and a need written on the way is sound as well.              *)
Later(l, of) == \/ of = mastery /\ (l = learner \/ l = Ensured(learner))
                \/ l.v > learner.v \/ (l.v = learner.v /\ l.behind)

LEMMA StillSound ==
  ASSUME JInv, NEW l \in [v : Nat, behind : BOOLEAN], NEW of, Later(l, of)
  PROVE  /\ SoundTable(need, l, of)
         /\ \A r \in Requests :
               req[r].at = "answering" \/ (req[r].at = "read" /\ req[r].cmd = "diagnose")
               => SoundNeed(req[r].row, l, of)
<1>1. ASSUME NEW n, SoundNeed(n, learner, mastery) PROVE SoundNeed(n, l, of)
  <2>1. learner \in [v : Nat, behind : BOOLEAN]
    BY DEF JInv, Basics
  <2>2. SoundNeed(n, Ensured(learner), mastery)
    BY <1>1, <2>1, StaysSound
  <2>3. l.v > learner.v \/ (l.v = learner.v /\ l.behind) => SoundNeed(n, l, of)
    BY <1>1, <2>1, StaysSound
  <2>4. QED
    BY <1>1, <2>2, <2>3 DEF Later
<1>2. QED
  BY <1>1 DEF JInv, NeedsSound, SoundTable, HeldSound

LEMMA Written ==
  ASSUME JInv, NEW l \in [v : Nat, behind : BOOLEAN], NEW of, Later(l, of),
         NEW g, NEW row, SoundNeed(row, l, of)
  PROVE  SoundTable([need EXCEPT ![g][row.m] = row], l, of)
<1> DEFINE put == [need EXCEPT ![g][row.m] = row]
<1>1. SoundTable(need, l, of)
  BY StillSound
<1>2. DOMAIN need = GoalIds /\ \A h \in GoalIds : DOMAIN need[h] = MapIds
  <2>1. need = [h \in GoalIds |-> [m \in MapIds |-> need[h][m]]]
    BY <1>1 DEF SoundTable
  <2>2. QED
    BY <2>1
<1>3. put = [h \in GoalIds |-> [m \in MapIds |->
               IF h = g /\ m = row.m THEN row ELSE need[h][m]]]
  BY <1>1, <1>2 DEF SoundTable
<1> HIDE DEF put
<1>4. \A h \in GoalIds, m \in MapIds :
         put[h][m] = IF h = g /\ m = row.m THEN row ELSE need[h][m]
  BY <1>3
<1>5. put = [h \in GoalIds |-> [m \in MapIds |-> put[h][m]]]
  BY <1>3
<1>6. SoundTable(put, l, of)
  BY <1>1, <1>4, <1>5 DEF SoundTable
<1>7. QED
  BY <1>6 DEF put

(* A request that ends, and leaves everything else as it was.              *)
LEMMA Ends ==
  ASSUME JInv, NEW r \in Requests, req' = [req EXCEPT ![r] = Idle],
         learner' \in [v : Nat, behind : BOOLEAN], mastery' \in [Units -> Classes],
         Later(learner', mastery'), advances' \in [Keys -> {0, 1}],
         \/ need' = need
         \/ \E g, row : /\ need' = [need EXCEPT ![g][row.m] = row]
                        /\ SoundNeed(row, learner', mastery')
  PROVE  JInv'
<1>1. NeedsSound'
  <2>1. CASE need' = need
    BY <2>1, StillSound DEF JInv, NeedsSound
  <2>2. CASE \E g, row : /\ need' = [need EXCEPT ![g][row.m] = row]
                         /\ SoundNeed(row, learner', mastery')
    <3>1. PICK g, row : /\ need' = [need EXCEPT ![g][row.m] = row]
                        /\ SoundNeed(row, learner', mastery')
      BY <2>2
    <3>2. SoundTable([need EXCEPT ![g][row.m] = row], learner', mastery')
      BY <3>1, Written
    <3>3. QED
      BY <3>1, <3>2 DEF NeedsSound
  <2>3. QED
    BY <2>1, <2>2
<1>2. Basics'
  BY DEF JInv, Basics
<1>3. HeldSound'
  BY StillSound DEF JInv, Basics, HeldSound, Idle
<1>4. QED
  BY <1>1, <1>2, <1>3 DEF JInv

(* A request that begins or moves on, and has written nothing yet.         *)
LEMMA Moves ==
  ASSUME JInv, NEW r \in Requests, NEW q, req' = [req EXCEPT ![r] = q],
         UNCHANGED <<need, learner, mastery, advances>>,
         q.at = "answering" \/ (q.at = "read" /\ q.cmd = "diagnose")
         => SoundNeed(q.row, learner, mastery)
  PROVE  JInv'
  BY DEF JInv, Basics, NeedsSound, HeldSound

LEMMA BeginSteps ==
  ASSUME JInv, NEW r \in Requests,
         \/ \E k \in Keys \cup {Fresh} : Advance(r, k)
         \/ CreateCandidate(r)
         \/ \E g \in GoalIds, m \in MapIds : BeginAnswer(r, g, m)
  PROVE  JInv'
<1>1. ASSUME NEW c, NEW k, Begin(r, Asked(c, k)), UNCHANGED <<rest, need, plan, advances>>
      PROVE  JInv'
  BY <1>1, Moves DEF Begin, Asked, rest
<1>2. ASSUME NEW g \in GoalIds, NEW m \in MapIds, BeginAnswer(r, g, m)
      PROVE  JInv'
  <2> DEFINE q == [at |-> "answering", g |-> g, row |-> need[g][m]]
  <2>1. req' = [req EXCEPT ![r] = q] /\ UNCHANGED <<need, learner, mastery, advances>>
    BY <1>2 DEF BeginAnswer, Begin, rest
  <2>2. SoundNeed(q.row, learner, mastery)
    BY DEF JInv, NeedsSound, SoundTable
  <2> HIDE DEF q
  <2>3. QED
    BY <2>1, <2>2, Moves
<1>3. QED
  BY <1>1, <1>2 DEF Advance, CreateCandidate

(* The reads of a diagnosis that needs no new LearnerState.                *)
LEMMA NewNeedSound ==
  ASSUME JInv, NEW g, NEW row \in NewNeeds(g)
  PROVE  SoundNeed(row, Ensured(learner), mastery)
<1>1. mastery \in [Units -> Classes] /\ Ensured(learner).v \in Nat
  BY DEF JInv, Basics, Ensured
<1>2. QED
  BY <1>1, BuiltIsSound DEF NewNeeds

LEMMA ReadStep ==
  ASSUME JInv, NEW r \in Requests, Read(r)
  PROVE  JInv'
<1> DEFINE q == req[r]
<1>1. UNCHANGED <<need, learner, mastery, advances>>
  BY DEF Read, rest
<1>2. CASE ~Readable(q.cmd, q.g)
  BY <1>1, <1>2, Moves DEF Read, Idle
<1>3. CASE Readable(q.cmd, q.g)
  <2>1. PICK row \in Rows(q.cmd, q.g) :
           ~Transacted(q.cmd) /\ req' = [req EXCEPT ![r] = Readied(q, row)]
    BY <1>3 DEF Read
  <2>2. q.cmd = "diagnose" => SoundNeed(row, learner, mastery)
    <3>1. SUFFICES ASSUME q.cmd = "diagnose" PROVE SoundNeed(row, learner, mastery)
      OBVIOUS
    <3>2. row \in NewNeeds(q.g) /\ ~Behind
      BY <2>1, <3>1 DEF Rows, Transacted
    <3>3. Ensured(learner) = learner
      BY <3>2 DEF Behind, Ensured
    <3>4. QED
      BY <3>2, <3>3, NewNeedSound
  <2>3. /\ Readied(q, row).cmd = q.cmd /\ Readied(q, row).row = row
        /\ Readied(q, row).at = "read"
    BY DEF Readied
  <2>4. QED
    BY <1>1, <2>1, <2>2, <2>3, Moves
<1>4. QED
  BY <1>2, <1>3

(* What a command writes: a diagnosis a sound need, the others none.       *)
LEMMA WritesSound ==
  ASSUME NEW q, Writes(q), NEW l, NEW of, q.cmd = "diagnose" => SoundNeed(q.row, l, of)
  PROVE  \/ need' = need
         \/ \E g, row : need' = [need EXCEPT ![g][row.m] = row] /\ SoundNeed(row, l, of)
  BY DEF Writes, Adopts, Maps, Diagnoses, Plans, Selects

LEMMA RecordedOnce ==
  ASSUME JInv, NEW q, Unrecorded(q)
  PROVE  Recorded(q) \in [Keys -> {0, 1}]
  BY DEF JInv, Basics, Recorded, Unrecorded

LEMMA CommitSteps ==
  ASSUME JInv, NEW r \in Requests, Commit(r) \/ Collide(r) \/ ReadAndCommit(r)
  PROVE  JInv'
<1> DEFINE q == req[r]
<1>1. learner \in [v : Nat, behind : BOOLEAN] /\ mastery \in [Units -> Classes]
      /\ Ensured(learner) \in [v : Nat, behind : BOOLEAN]
  BY EnsuredType DEF JInv, Basics
<1>2. CASE Commit(r)
  <2>1. learner' = learner /\ mastery' = mastery /\ q.at = "read" /\ Writes(q)
        /\ req' = [req EXCEPT ![r] = Idle]
    BY <1>2 DEF Commit
  <2>2. advances' \in [Keys -> {0, 1}]
    BY <1>2, RecordedOnce DEF Commit
  <2>3. q.cmd = "diagnose" => SoundNeed(q.row, learner, mastery)
    BY <2>1 DEF JInv, HeldSound
  <2>4. \/ need' = need
        \/ \E g, row : need' = [need EXCEPT ![g][row.m] = row]
                       /\ SoundNeed(row, learner, mastery)
    BY <2>1, <2>3, WritesSound
  <2>5. QED
    BY <1>1, <2>1, <2>2, <2>4, Ends DEF Later
<1>3. CASE Collide(r)
  BY <1>1, <1>3, Moves DEF Collide, rest, Idle
<1>4. CASE ReadAndCommit(r)
  <2>1. CASE ~Unrecorded(q)
    BY <1>1, <1>4, <2>1, Moves DEF ReadAndCommit, rest, Idle
  <2>2. CASE Unrecorded(q)
    <3>1. PICK row \in Rows(q.cmd, q.g) :
             /\ Writes(Readied(q, row)) /\ learner' = Ensured(learner) /\ mastery' = mastery
             /\ advances' = Recorded(q) /\ req' = [req EXCEPT ![r] = Idle]
      BY <1>4, <2>2 DEF ReadAndCommit
    <3>2. q.cmd = "diagnose" => SoundNeed(row, Ensured(learner), mastery)
      BY <3>1, NewNeedSound DEF Rows
    <3>3. Readied(q, row).cmd = q.cmd /\ Readied(q, row).row = row
      BY DEF Readied
    <3>4. \/ need' = need
          \/ \E g, n : need' = [need EXCEPT ![g][n.m] = n]
                       /\ SoundNeed(n, Ensured(learner), mastery)
      BY <3>1, <3>2, <3>3, WritesSound
    <3>5. advances' \in [Keys -> {0, 1}]
      BY <2>2, <3>1, RecordedOnce
    <3>6. QED
      BY <1>1, <3>1, <3>4, <3>5, Ends DEF Later
  <2>3. QED
    BY <2>1, <2>2
<1>5. QED
  BY <1>2, <1>3, <1>4

(* submit_response.  A need that claims nothing is sound in any state it   *)
(* is not ahead of.                                                        *)
LEMMA ClaimsNothing ==
  ASSUME NEW n, NEW l \in [v : Nat, behind : BOOLEAN], NEW of, SoundNeed(n, l, of), NEW v,
         NEW stop \in {"no_item", "system", "low_confidence"}
  PROVE  LET next == [n EXCEPT !.v = v]
         IN  /\ SoundNeed([next EXCEPT !.stop = stop], l, of)
             /\ SoundNeed([next EXCEPT !.used = @ + 1, !.stop = stop, !.learner = l.v], l, of)
<1> DEFINE next == [n EXCEPT !.v = v]
<1>1. next = [v |-> v, m |-> n.m, stop |-> n.stop, used |-> n.used, asked |-> n.asked,
              learner |-> n.learner]
  BY DEF SoundNeed, IsNeed
<1>2. l.v \in Nat /\ n.learner \in Nat /\ n.learner <= l.v /\ TrueOf(stop, of)
  BY DEF SoundNeed, TrueOf
<1> HIDE DEF next
<1>3. SoundNeed([next EXCEPT !.stop = stop], l, of)
  BY <1>1, <1>2 DEF SoundNeed, IsNeed
<1>4. SoundNeed([next EXCEPT !.used = @ + 1, !.stop = stop, !.learner = l.v], l, of)
  <2> DEFINE a1 == [next EXCEPT !.used = @ + 1]
             a2 == [a1 EXCEPT !.stop = stop]
             a3 == [a2 EXCEPT !.learner = l.v]
  <2>1. [next EXCEPT !.used = @ + 1, !.stop = stop, !.learner = l.v] = a3
    OBVIOUS
  <2>2. a1 = [v |-> v, m |-> n.m, stop |-> n.stop, used |-> next.used + 1, asked |-> n.asked,
              learner |-> n.learner]
    BY <1>1
  <2> HIDE DEF a1
  <2>3. a2 = [v |-> v, m |-> n.m, stop |-> stop, used |-> next.used + 1, asked |-> n.asked,
              learner |-> n.learner]
    BY <2>2
  <2> HIDE DEF a2
  <2>4. a3 = [v |-> v, m |-> n.m, stop |-> stop, used |-> next.used + 1, asked |-> n.asked,
              learner |-> l.v]
    BY <2>3
  <2> HIDE DEF a3
  <2>5. SoundNeed(a3, l, of)
    BY <1>2, <2>4 DEF SoundNeed, IsNeed
  <2>6. QED
    BY <2>1, <2>5
<1>5. QED
  BY <1>3, <1>4 DEF next

LEMMA AnswerSteps ==
  ASSUME JInv, NEW r \in Requests,
         NotScored(r) \/ Scored(r) \/ NotIndependent(r) \/ RefuseStale(r)
  PROVE  JInv'
<1> DEFINE q == req[r]
           State2(l) == l \in [v : Nat, behind : BOOLEAN]
<1>1. /\ State2(learner) /\ State2(Ensured(learner)) /\ learner.v \in Nat
      /\ State2([Ensured(learner) EXCEPT !.v = @ + 1])
      /\ [Ensured(learner) EXCEPT !.v = @ + 1].v > learner.v
  <2>1. learner \in [v : Nat, behind : BOOLEAN]
    BY DEF JInv, Basics
  <2>2. Ensured(learner) \in [v : Nat, behind : BOOLEAN] /\ Ensured(learner).v >= learner.v
    BY <2>1, EnsuredType
  <2>3. QED
    BY <2>1, <2>2
<1>2. mastery \in [Units -> Classes] /\ advances \in [Keys -> {0, 1}]
  BY DEF JInv, Basics
<1>3. ASSUME NEW class \in Classes, Projected(q, class)
      PROVE  /\ State2(learner') /\ learner'.v > learner.v
             /\ mastery' \in [Units -> Classes] /\ Later(learner', mastery')
  BY <1>1, <1>2, <1>3 DEF Projected, Later
<1>4. ASSUME q.at = "answering", State2(learner'), Later(learner', mastery')
      PROVE  SoundNeed(q.row, learner', mastery')
  BY <1>4, StillSound
<1> HIDE DEF State2
<1>5. CASE NotScored(r)
  <2>1. PICK stop \in {"no_item", "system"} :
           /\ Supersede(q.g, [NextNeed(q) EXCEPT !.stop = stop])
           /\ learner' = Ensured(learner) \/ learner' = learner
    BY <1>5 DEF NotScored
  <2>2. /\ mastery' = mastery /\ advances' = advances /\ req' = [req EXCEPT ![r] = Idle]
        /\ q.at = "answering"
    BY <1>5 DEF NotScored, Answered
  <2>3. State2(learner') /\ Later(learner', mastery')
    BY <1>1, <2>1, <2>2 DEF Later
  <2>4. SoundNeed([NextNeed(q) EXCEPT !.stop = stop], learner', mastery')
    BY <1>4, <2>2, <2>3, ClaimsNothing DEF NextNeed, State2
  <2>5. QED
    BY <1>2, <2>1, <2>2, <2>3, <2>4, Ends DEF Supersede, State2
<1>6. CASE Scored(r)
  <2>1. PICK class \in Classes :
           /\ Projected(q, class)
           /\ \E row \in BuiltNeeds(NextNeed(q).v, q.row.m, q.row.used + 1, learner'.v, mastery') :
                 Supersede(q.g, row)
    BY <1>6 DEF Scored
  <2>2. PICK row \in BuiltNeeds(NextNeed(q).v, q.row.m, q.row.used + 1, learner'.v, mastery') :
           Supersede(q.g, row)
    BY <2>1
  <2>3. /\ State2(learner') /\ mastery' \in [Units -> Classes] /\ Later(learner', mastery')
    BY <1>3, <2>1
  <2>4. SoundNeed(row, learner', mastery')
    <3>1. learner'.v \in Nat
      BY <2>3 DEF State2
    <3>2. QED
      BY <2>2, <2>3, <3>1, BuiltIsSound
  <2>5. advances' = advances /\ req' = [req EXCEPT ![r] = Idle]
    BY <1>6 DEF Scored, Answered
  <2>6. QED
    BY <1>2, <2>2, <2>3, <2>4, <2>5, Ends DEF Supersede, State2
<1>7. CASE NotIndependent(r)
  <2> DEFINE row == [NextNeed(q) EXCEPT !.used = @ + 1, !.stop = "low_confidence",
                                        !.learner = learner'.v]
  <2>1. /\ Supersede(q.g, row) /\ q.at = "answering"
        /\ advances' = advances /\ req' = [req EXCEPT ![r] = Idle]
    BY <1>7 DEF NotIndependent, Answered
  <2>2. \/ \E class \in Classes : Projected(q, class)
        \/ learner' = Ensured(learner) /\ mastery' = mastery
    BY <1>7 DEF NotIndependent
  <2>3. /\ State2(learner') /\ mastery' \in [Units -> Classes] /\ Later(learner', mastery')
    BY <1>1, <1>2, <1>3, <2>2 DEF Later
  <2>4. SoundNeed(row, learner', mastery')
    BY <1>4, <2>1, <2>3, ClaimsNothing DEF NextNeed, State2
  <2> HIDE DEF row
  <2>5. QED
    BY <1>2, <2>1, <2>3, <2>4, Ends DEF Supersede, State2
<1>8. CASE RefuseStale(r)
  BY <1>8, Moves DEF RefuseStale, Answered, Idle
<1>9. QED
  BY <1>5, <1>6, <1>7, <1>8

-----------------------------------------------------------------------------
LEMMA OutsideSteps ==
  ASSUME JInv, Publish \/ GoalAssessment \/ \E g \in GoalIds : ConfirmGoal(g)
  PROVE  JInv'
<1>1. CASE Publish \/ \E g \in GoalIds : ConfirmGoal(g)
  BY <1>1 DEF Publish, ConfirmGoal, JInv, Basics, NeedsSound, HeldSound
<1>2. CASE GoalAssessment
  <2>1. /\ learner' = [learner EXCEPT !.behind = TRUE]
        /\ UNCHANGED <<need, advances, req>>
    BY <1>2 DEF GoalAssessment
  <2>2. learner' \in [v : Nat, behind : BOOLEAN] /\ Later(learner', mastery')
    BY <2>1 DEF JInv, Basics, Later
  <2>3. Basics'
    BY <1>2, <2>1, <2>2 DEF GoalAssessment, JInv, Basics
  <2>4. QED
    BY <2>1, <2>2, <2>3, StillSound DEF JInv, NeedsSound, HeldSound
<1>3. QED
  BY <1>1, <1>2

LEMMA JInvStep == JInv /\ [Next]_vars => JInv'
<1>1. SUFFICES ASSUME JInv, [Next]_vars PROVE JInv'
  OBVIOUS
<1>2. CASE UNCHANGED vars
  BY <1>1, <1>2 DEF vars, JInv, Basics, NeedsSound, HeldSound
<1>3. CASE Next
  BY <1>1, <1>3, BeginSteps, ReadStep, CommitSteps, AnswerSteps, OutsideSteps DEF Next, Serve
<1>4. QED
  BY <1>1, <1>2, <1>3

(* However answers, diagnoses and assessments overtake each other, and for *)
(* every graph of prerequisites: a diagnosis that calls the prerequisites  *)
(* resolved, or names what to repair, has searched all that bears on the   *)
(* target (build_need, _first_unresolved_descendants).                     *)
THEOREM DiagnosesSound == Spec => []DiagnosisSound
<1>1. JInv => DiagnosisSound
  BY DEF JInv, NeedsSound, SoundTable, SoundNeed, TrueOf, DiagnosisSound
<1>2. QED
  BY <1>1, InitJInv, JInvStep, PTL DEF Spec

(* Requests that race under one key run its command once, whatever         *)
(* readiness has moved on to (append_advance).                             *)
THEOREM KeysRunOnce == Spec => []KeyRunsOnce
<1>1. JInv => KeyRunsOnce
  BY DEF JInv, Basics, KeyRunsOnce
<1>2. QED
  BY <1>1, InitJInv, JInvStep, PTL DEF Spec
=============================================================================
