----------------------------- MODULE Workspaces -----------------------------
(***************************************************************************)
(* The courses (Workspaces) of the one owner, which of them is current,    *)
(* and the receipts of the commands that create, switch to and rename one. *)
(*                                                                         *)
(* A command reads receipt, courses and selection before it writes, and    *)
(* others commit meanwhile.  On SQLite the savepoint around the insert of  *)
(* a course, or around its new name, is the outermost one: releasing it    *)
(* commits, and what follows is a transaction of its own.  The server may  *)
(* stop between the two; its next start reconciles courses and selection,  *)
(* and refuses to come up if they contradict each other.                   *)
(***************************************************************************)
EXTENDS Naturals, Sequences, FiniteSets

CONSTANTS
    Requests,      \* HTTP requests in flight
    Keys,          \* idempotency keys
    MaxCourses,    \* bound: courses made by requests
    MaxSelections, \* bound: versions of the selection made by requests
    MaxVersions    \* bound: versions of a course

ASSUME WorkspaceConstants ==
    /\ IsFiniteSet(Requests)
    /\ MaxCourses \in Nat /\ MaxSelections \in Nat /\ MaxVersions \in Nat \ {0}

VARIABLES
    up,        \* the server has come up
    legacy,    \* has_legacy_workspace_data: there are business rows
    courses,   \* the workspaces table, by creation
    selection, \* workspace_selections: v is 0 without a row
    receipts,  \* workspace_command_receipts
    req,       \* commands under way
    made       \* history: who has made which version of the selection

vars == <<up, legacy, courses, selection, receipts, req, made>>

Types    == {"create", "switch", "rename"}
Reasons  == {"FIRST_CREATE", "EXPLICIT_SWITCH", "LEGACY_MIGRATION"}
Course   == [default : BOOLEAN, version : Nat]
Receipt  == [type : Types, key : Keys, digest : Nat \X Nat, w : Nat, v : Nat]
NoCourse == [v |-> 0, w |-> 0, reason |-> "none"]
Idle     == [at |-> "idle"]
Command  == [at : {"list", "check", "insert", "select", "load", "rename", "record"},
             type : Types, key : Keys, expected : Nat, target : Nat,
             first : BOOLEAN, same : BOOLEAN, seen : Nat]

Init ==
    /\ up = FALSE /\ legacy \in BOOLEAN
    /\ courses = <<>> /\ selection = NoCourse
    /\ receipts = {} /\ made = {}
    /\ req = [r \in Requests |-> Idle]

-----------------------------------------------------------------------------
Defaults == {w \in DOMAIN courses : courses[w].default}
Known(t, k) == {c \in receipts : c.type = t /\ c.key = k}

(* _digest: the command without its key.  Names are data; the course to    *)
(* rename is in the route and not in the digest.                           *)
Digest(c) == IF c.type = "rename" THEN <<c.expected, 0>> ELSE <<c.expected, c.target>>

NewReceipt(c, w, v) ==
    [type |-> c.type, key |-> c.key, digest |-> Digest(c), w |-> w, v |-> v]
(* append_receipt: INSERT ... ON CONFLICT DO NOTHING.                      *)
Receipted(c, w, v) ==
    IF Known(c.type, c.key) = {} THEN receipts \cup {NewReceipt(c, w, v)} ELSE receipts
Agrees(c) == \A k \in Known(c.type, c.key) : k.digest = Digest(c)

At(r, step)   == up /\ req[r] # Idle /\ req[r].at = step
Goto(r, step) == req' = [req EXCEPT ![r].at = step]
End(r)        == req' = [req EXCEPT ![r] = Idle]

(* A command arrives whose key has no receipt: one that has is answered    *)
(* with it or refused.  The client may have seen any selection.            *)
Begin(r, c) ==
    /\ up /\ req[r] = Idle /\ Known(c.type, c.key) = {}
    /\ req' = [req EXCEPT ![r] = c]
    /\ UNCHANGED <<up, legacy, courses, selection, receipts, made>>

Asked(t, k, expected, target) ==
    [at |-> CASE t = "create" -> "list" [] t = "switch" -> "check" [] OTHER -> "load",
     type |-> t, key |-> k, expected |-> expected, target |-> target,
     first |-> FALSE, same |-> FALSE, seen |-> 0]

Create(r, k) == \E v \in 0 .. selection.v : Begin(r, Asked("create", k, v, 0))
Switch(r, k) ==
    /\ \E v \in 1 .. selection.v, w \in DOMAIN courses : Begin(r, Asked("switch", k, v, w))
Rename(r, k) == \E w \in DOMAIN courses : Begin(r, Asked("rename", k, 0, w))

(* create: list_active_for_owner.                                          *)
ListCourses(r) ==
    /\ At(r, "list")
    /\ req' = [req EXCEPT ![r].at = "check", ![r].first = (courses = <<>>)]
    /\ UNCHANGED <<up, legacy, courses, selection, receipts, made>>

(* The selection is read and compared; a switch also looks at its target.  *)
Check(r) ==
    LET c == req[r] IN
    /\ At(r, "check") /\ selection.v = c.expected
    /\ req' = [req EXCEPT ![r].at = IF c.type = "create" THEN "insert" ELSE "select",
                          ![r].same = (c.type = "switch" /\ selection.w = c.target)]
    /\ UNCHANGED <<up, legacy, courses, selection, receipts, made>>

(* The course is inserted and its savepoint released: it is committed.     *)
(* uq_workspaces_one_active_default refuses a second default.              *)
BadAdmits(first) == TRUE   \* no unique index
Admits(first) == first => Defaults = {}
Insert(r) ==
    LET c == req[r] IN
    /\ At(r, "insert") /\ Len(courses) < MaxCourses /\ Admits(c.first)
    /\ courses' = Append(courses, [default |-> c.first, version |-> 1])
    /\ req' = [req EXCEPT ![r].at = "select", ![r].target = Len(courses) + 1]
    /\ UNCHANGED <<up, legacy, selection, receipts, made>>

(* WorkspaceSelectionRepository.set and the receipt: one transaction, that *)
(* a receipt with another digest takes back.                               *)
BadUnchanged(v) == TRUE   \* the row is updated whatever its version
Unchanged(v) == selection.v = v
Chosen(c) == IF c.type = "create" /\ c.first THEN "FIRST_CREATE" ELSE "EXPLICIT_SWITCH"
BadReason(c) == "SWITCHED"   \* the outcome of the command, not a reason
Reason(c) == Chosen(c)
Asking(c) == IF c.type = "create" THEN [c EXCEPT !.target = 0] ELSE c
Select(r) ==
    LET c == req[r]
        v == c.expected + 1 IN
    /\ At(r, "select") /\ ~c.same
    /\ Unchanged(c.expected) /\ v <= MaxSelections /\ Agrees(Asking(c))
    /\ selection' = [v |-> v, w |-> c.target, reason |-> Reason(c)]
    /\ made' = made \cup {[type |-> c.type, key |-> c.key, v |-> v, w |-> c.target]}
    /\ receipts' = Receipted(Asking(c), c.target, v)
    /\ End(r)
    /\ UNCHANGED <<up, legacy, courses>>

(* ALREADY_CURRENT: only the receipt is written.                           *)
KeepCurrent(r) ==
    LET c == req[r] IN
    /\ At(r, "select") /\ c.same
    /\ receipts' = Receipted(c, c.target, c.expected)
    /\ End(r)
    /\ UNCHANGED <<up, legacy, courses, selection, made>>

(* rename: the course is loaded, then written with the version after the   *)
(* one that was loaded; that commits too, and the receipt follows.         *)
Load(r) ==
    /\ At(r, "load")
    /\ req' = [req EXCEPT ![r].at = "rename", ![r].seen = courses[req[r].target].version]
    /\ UNCHANGED <<up, legacy, courses, selection, receipts, made>>
Name(r) ==
    LET c == req[r] IN
    /\ At(r, "rename") /\ c.seen < MaxVersions
    /\ courses' = [courses EXCEPT ![c.target].version = c.seen + 1]
    /\ Goto(r, "record")
    /\ UNCHANGED <<up, legacy, selection, receipts, made>>
RecordName(r) ==
    /\ At(r, "record")
    /\ receipts' = Receipted(req[r], req[r].target, selection.v)
    /\ End(r)
    /\ UNCHANGED <<up, legacy, courses, selection, made>>

(* Refused (a stale selection, an unresolved draft, the unique index),     *)
(* answered with a receipt found after a race, out of time for the lock.   *)
Refuse(r) ==
    /\ up /\ req[r] # Idle
    /\ End(r)
    /\ UNCHANGED <<up, legacy, courses, selection, receipts, made>>

(* create_default_if_absent, by whoever writes learner data or uploads to  *)
(* the library; an unassigned upload needs no course.                      *)
DefaultCourse ==
    IF Defaults = {} THEN Append(courses, [default |-> TRUE, version |-> 1]) ELSE courses
WriteLearnerData ==
    /\ up /\ legacy' = TRUE
    /\ courses' = DefaultCourse
    /\ UNCHANGED <<up, selection, receipts, req, made>>
UploadUnassigned ==
    /\ up /\ legacy' = TRUE
    /\ UNCHANGED <<up, courses, selection, receipts, req, made>>

Stop ==
    /\ up /\ up' = FALSE
    /\ req' = [r \in Requests |-> Idle]
    /\ UNCHANGED <<legacy, courses, selection, receipts, made>>

(* reconcile_course_workspace, one transaction; an integrity failure ends  *)
(* the start of the server.                                                *)
Reconcilable ==
    courses # <<>> => IF selection.v = 0 THEN Defaults # {}
                                         ELSE selection.w \in DOMAIN courses
EnsureSelection(w) ==
    IF selection.v # 0 THEN UNCHANGED <<selection, made>>
    ELSE /\ selection' = [v |-> 1, w |-> w, reason |-> "LEGACY_MIGRATION"]
         /\ made' = made \cup {[type |-> "start", key |-> "none", v |-> 1, w |-> w]}
Start ==
    /\ ~up /\ Reconcilable /\ up' = TRUE
    /\ \/ /\ courses = <<>> /\ ~legacy
          /\ UNCHANGED <<courses, selection, made>>
       \/ /\ courses = <<>> /\ legacy
          /\ courses' = DefaultCourse /\ EnsureSelection(1)
       \/ /\ courses # <<>>
          /\ \E w \in Defaults : EnsureSelection(w)
          /\ UNCHANGED courses
    /\ UNCHANGED <<legacy, receipts, req>>

Serve(r) == \/ \E k \in Keys : Create(r, k) \/ Switch(r, k) \/ Rename(r, k)
            \/ ListCourses(r) \/ Check(r) \/ Insert(r) \/ Select(r) \/ KeepCurrent(r)
            \/ Load(r) \/ Name(r) \/ RecordName(r) \/ Refuse(r)
Next == (\E r \in Requests : Serve(r)) \/ WriteLearnerData \/ UploadUnassigned \/ Stop \/ Start
Spec == Init /\ [][Next]_vars

-----------------------------------------------------------------------------
TypeOK ==
    /\ up \in BOOLEAN /\ legacy \in BOOLEAN
    /\ courses \in Seq(Course)
    /\ selection \in {NoCourse} \cup [v : Nat \ {0}, w : Nat \ {0}, reason : Reasons]
    /\ receipts \subseteq Receipt
    /\ req \in [Requests -> {Idle} \cup Command]

(* CWSP-011 and the checks of reconcile_course_workspace: whatever creates *)
(* race for the first course, and wherever the server stops, it can start  *)
(* again: one default among the courses, a current course that exists.     *)
Startable ==
    /\ courses # <<>> => Cardinality(Defaults) = 1
    /\ selection.v # 0 => selection.w \in DOMAIN courses

(* CWSP-012 and CWSP-033: a version of the selection was made by one       *)
(* command, a key makes one version at most, and a receipt names what its  *)
(* command selected or found selected: no switch is lost and no answer     *)
(* repeated later is untrue.                                               *)
ReceiptsTell ==
    /\ \A m, n \in made : m.v = n.v \/ (m.key = n.key /\ m.type = n.type) => m = n
    /\ \A c \in receipts : c.type # "rename" => \E m \in made : m.v = c.v /\ m.w = c.w
=============================================================================
