-------------------------- MODULE WorkspacesProofs --------------------------
(***************************************************************************)
(* For any number of requests, keys and courses: the server can always     *)
(* come up on the courses it finds, a version of the selection was made by *)
(* one command, and no receipt tells of a selection that never was.        *)
(***************************************************************************)
EXTENDS Workspaces, SequenceTheorems, FiniteSetTheorems, TLAPS

Makers == Types \cup {"start"}

(* The parts of the inductive invariant.                                   *)
OneDefault == courses # <<>> => \E d \in DOMAIN courses : Defaults = {d}

(* The current version was made, for a course that exists; none is newer.  *)
SelectionMade ==
    /\ selection.v # 0 => /\ selection.w \in DOMAIN courses
                          /\ \E m \in made : m.v = selection.v /\ m.w = selection.w
    /\ \A m \in made : /\ m.type \in Makers
                       /\ m.v \in Nat \ {0} /\ m.v <= selection.v
    /\ \A m, n \in made : m.v = n.v => m = n

(* Who made a version has a receipt, for a command that expected the       *)
(* version before: the same command is then answered and no other has the  *)
(* key, so that the key makes no second one.                               *)
MakersReceipted ==
    \A m \in made : m.type \in Types =>
        \E c \in receipts : c.type = m.type /\ c.key = m.key /\ c.digest[1] + 1 = m.v
KeysMakeOne == \A m, n \in made : m.key = n.key /\ m.type = n.type => m = n

ReceiptsMade ==
    \A c \in receipts : c.type # "rename" => \E m \in made : m.v = c.v /\ m.w = c.w

(* What a command has read and is still so when it writes.                 *)
Reads(c) ==
    /\ c.at \in {"list", "insert"} => c.type = "create"
    /\ c.at \in {"check", "select"} => c.type \in {"create", "switch"}
    /\ c.at \in {"load", "rename", "record"} => c.type = "rename"
    /\ c.type = "create" /\ c.at # "list" /\ ~c.first => courses # <<>>
    /\ c.type = "switch" => c.expected > 0
    /\ c.type # "create" \/ c.at = "select" => c.target \in DOMAIN courses
    /\ c.same => /\ c.at = "select" /\ c.type = "switch"
                 /\ \E m \in made : m.v = c.expected /\ m.w = c.target
CommandsRead == \A r \in Requests : req[r] # Idle => Reads(req[r])

WInv == /\ TypeOK /\ OneDefault /\ SelectionMade /\ MakersReceipted /\ KeysMakeOne
        /\ ReceiptsMade /\ CommandsRead

-----------------------------------------------------------------------------
(* A command under way, and the steps it goes through.                     *)
LEMMA Underway ==
  ASSUME TypeOK, NEW r \in Requests, req[r] # Idle
  PROVE  req[r] \in Command
  BY DEF TypeOK

LEMMA InitWInv == Init => WInv
<1> SUFFICES ASSUME Init PROVE WInv
  OBVIOUS
<1>1. TypeOK
  BY EmptySeq DEF Init, TypeOK
<1>2. OneDefault /\ SelectionMade /\ MakersReceipted /\ KeysMakeOne /\ ReceiptsMade
  BY DEF Init, OneDefault, SelectionMade, MakersReceipted, KeysMakeOne, ReceiptsMade, NoCourse
<1>3. CommandsRead
  BY DEF Init, CommandsRead
<1>4. QED
  BY <1>1, <1>2, <1>3 DEF WInv

(* What the steps of a command that only read leave as it was.             *)
LEMMA OnlyReads ==
  ASSUME WInv, UNCHANGED <<up, legacy, courses, selection, receipts, made>>,
         req' \in [Requests -> {Idle} \cup Command],
         NEW r \in Requests, \A q \in Requests \ {r} : req'[q] = req[q],
         req'[r] # Idle => Reads(req'[r])
  PROVE  WInv'
<1>1. TypeOK'
  BY DEF WInv, TypeOK
<1>2. (OneDefault /\ SelectionMade /\ MakersReceipted /\ KeysMakeOne /\ ReceiptsMade)'
  BY DEF WInv, OneDefault, SelectionMade, MakersReceipted, KeysMakeOne, ReceiptsMade, Defaults
<1>3. CommandsRead'
  BY DEF WInv, CommandsRead, Reads
<1>4. QED
  BY <1>1, <1>2, <1>3 DEF WInv

(* The commands whose courses and versions may only have grown in number.  *)
LEMMA StillRead ==
  ASSUME WInv, DOMAIN courses \subseteq DOMAIN courses', courses # <<>> => courses' # <<>>,
         made \subseteq made',
         NEW r \in Requests, req[r] # Idle, req'[r] = req[r]
  PROVE  Reads(req[r])'
  BY DEF WInv, CommandsRead, Reads

-----------------------------------------------------------------------------
(* Steps that read.                                                        *)
LEMMA BeginStep ==
  ASSUME WInv, NEW r \in Requests, NEW c \in Command, Begin(r, c), Reads(c)
  PROVE  WInv'
<1>1. req' \in [Requests -> {Idle} \cup Command] /\ req'[r] = c
      /\ \A q \in Requests \ {r} : req'[q] = req[q]
  BY DEF Begin, WInv, TypeOK
<1>2. Reads(req'[r])
  BY <1>1
<1>3. QED
  BY <1>1, <1>2, OnlyReads DEF Begin

LEMMA AskStep ==
  ASSUME WInv, NEW r \in Requests, NEW k \in Keys, Create(r, k) \/ Switch(r, k) \/ Rename(r, k)
  PROVE  WInv'
<1>1. selection.v \in Nat
  BY DEF WInv, TypeOK, NoCourse
<1>2. DOMAIN courses \subseteq Nat
  BY DEF WInv, TypeOK
<1>3. CASE Create(r, k)
  <2>1. PICK v \in 0 .. selection.v : Begin(r, Asked("create", k, v, 0))
    BY <1>3 DEF Create
  <2>2. Asked("create", k, v, 0) \in Command /\ Reads(Asked("create", k, v, 0))
    BY <1>1 DEF Asked, Command, Types, Reads
  <2>3. QED
    BY <2>1, <2>2, BeginStep
<1>4. CASE Switch(r, k)
  <2>1. PICK v \in 1 .. selection.v, w \in DOMAIN courses : Begin(r, Asked("switch", k, v, w))
    BY <1>4 DEF Switch
  <2>2. Asked("switch", k, v, w) \in Command /\ Reads(Asked("switch", k, v, w))
    BY <1>1, <1>2 DEF Asked, Command, Types, Reads
  <2>3. QED
    BY <2>1, <2>2, BeginStep
<1>5. CASE Rename(r, k)
  <2>1. PICK w \in DOMAIN courses : Begin(r, Asked("rename", k, 0, w))
    BY <1>5 DEF Rename
  <2>2. Asked("rename", k, 0, w) \in Command /\ Reads(Asked("rename", k, 0, w))
    BY <1>2 DEF Asked, Command, Types, Reads
  <2>3. QED
    BY <2>1, <2>2, BeginStep
<1>6. QED
  BY <1>3, <1>4, <1>5

LEMMA ListStep ==
  ASSUME WInv, NEW r \in Requests, ListCourses(r)
  PROVE  WInv'
<1> DEFINE c == req[r]
           d == [c EXCEPT !.at = "check", !.first = (courses = <<>>)]
<1>1. c \in Command /\ c.at = "list" /\ Reads(c) /\ c # Idle
  BY Underway DEF ListCourses, At, WInv, CommandsRead
<1>2. d \in Command /\ Reads(d)
  <2>1. (courses = <<>>) \in BOOLEAN
    OBVIOUS
  <2>2. QED
    BY <1>1, <2>1 DEF Command, Reads
<1>3. req' = [req EXCEPT ![r] = d]
  BY DEF ListCourses
<1> HIDE DEF d
<1>4. req' \in [Requests -> {Idle} \cup Command] /\ req'[r] = d
      /\ \A q \in Requests \ {r} : req'[q] = req[q]
  BY <1>2, <1>3 DEF WInv, TypeOK
<1>5. QED
  BY <1>2, <1>4, OnlyReads DEF ListCourses

LEMMA CheckStep ==
  ASSUME WInv, NEW r \in Requests, Check(r)
  PROVE  WInv'
<1> DEFINE c == req[r]
           d == [c EXCEPT !.at = IF c.type = "create" THEN "insert" ELSE "select",
                          !.same = (c.type = "switch" /\ selection.w = c.target)]
<1>1. c \in Command /\ c.at = "check" /\ Reads(c) /\ c # Idle /\ selection.v = c.expected
  BY Underway DEF Check, At, WInv, CommandsRead
<1>2. d \in Command
  <2>1. (c.type = "switch" /\ selection.w = c.target) \in BOOLEAN
    OBVIOUS
  <2>2. QED
    BY <1>1, <2>1 DEF Command
<1>3. Reads(d)
  <2>1. c.type = "switch" /\ selection.w = c.target =>
           \E m \in made : m.v = c.expected /\ m.w = c.target
    <3>1. c.type = "switch" => c.expected > 0
      BY <1>1 DEF Reads
    <3>2. c.expected \in Nat
      BY <1>1 DEF Command
    <3>3. QED
      BY <1>1, <3>1, <3>2 DEF WInv, SelectionMade
  <2>2. QED
    BY <1>1, <2>1 DEF Command, Reads
<1>4. req' = [req EXCEPT ![r] = d]
  BY DEF Check
<1> HIDE DEF d
<1>5. req' \in [Requests -> {Idle} \cup Command] /\ req'[r] = d
      /\ \A q \in Requests \ {r} : req'[q] = req[q]
  BY <1>2, <1>4 DEF WInv, TypeOK
<1>6. QED
  BY <1>3, <1>5, OnlyReads DEF Check

LEMMA LoadStep ==
  ASSUME WInv, NEW r \in Requests, Load(r)
  PROVE  WInv'
<1> DEFINE c == req[r]
           d == [c EXCEPT !.at = "rename", !.seen = courses[c.target].version]
<1>1. c \in Command /\ c.at = "load" /\ Reads(c) /\ c # Idle
  BY Underway DEF Load, At, WInv, CommandsRead
<1>2. courses[c.target].version \in Nat
  <2>1. c.target \in DOMAIN courses /\ courses \in Seq(Course)
    BY <1>1 DEF Reads, WInv, TypeOK
  <2>2. courses[c.target] \in Course
    BY <2>1
  <2>3. QED
    BY <2>2 DEF Course
<1>3. d \in Command /\ Reads(d)
  BY <1>1, <1>2 DEF Command, Reads
<1>4. req' = [req EXCEPT ![r] = d]
  BY DEF Load
<1> HIDE DEF d
<1>5. req' \in [Requests -> {Idle} \cup Command] /\ req'[r] = d
      /\ \A q \in Requests \ {r} : req'[q] = req[q]
  BY <1>3, <1>4 DEF WInv, TypeOK
<1>6. QED
  BY <1>3, <1>5, OnlyReads DEF Load

LEMMA RefuseStep ==
  ASSUME WInv, NEW r \in Requests, Refuse(r)
  PROVE  WInv'
<1>1. req' \in [Requests -> {Idle} \cup Command] /\ req'[r] = Idle
      /\ \A q \in Requests \ {r} : req'[q] = req[q]
  BY DEF Refuse, End, WInv, TypeOK
<1>2. QED
  BY <1>1, OnlyReads DEF Refuse
-----------------------------------------------------------------------------
(* Steps that write.                                                       *)

(* A course is added: the default if there is none, another only to some.  *)
LEMMA Added ==
  ASSUME courses \in Seq(Course), OneDefault, NEW first \in BOOLEAN,
         first => Defaults = {}, ~first => courses # <<>>,
         courses' = Append(courses, [default |-> first, version |-> 1])
  PROVE  /\ courses' \in Seq(Course) /\ OneDefault' /\ courses' # <<>>
         /\ DOMAIN courses \subseteq DOMAIN courses' /\ Len(courses) + 1 \in DOMAIN courses'
<1> DEFINE new == [default |-> first, version |-> 1]
<1>1. new \in Course
  BY DEF Course
<1> HIDE DEF new
<1>2. courses' = Append(courses, new)
  BY DEF new
<1>3. /\ courses' \in Seq(Course) /\ Len(courses') = Len(courses) + 1
      /\ \A i \in 1 .. Len(courses) : courses'[i] = courses[i]
      /\ courses'[Len(courses) + 1] = new
  BY <1>1, <1>2, AppendProperties
<1>4. /\ DOMAIN courses = 1 .. Len(courses) /\ DOMAIN courses' = 1 .. Len(courses')
      /\ Len(courses) \in Nat
  BY <1>3, LenProperties
<1>5. courses' # <<>> /\ Len(courses) + 1 \in DOMAIN courses' /\ DOMAIN courses \subseteq DOMAIN courses'
  BY <1>3, <1>4, EmptySeq
<1>6. OneDefault'
  <2>1. new.default = first
    BY DEF new
  <2>2. CASE first
    <3>1. courses = <<>>
      BY <2>2 DEF OneDefault
    <3>2. Len(courses) = 0
      BY <3>1
    <3>3. Defaults' = {1}
      BY <1>3, <1>4, <2>1, <2>2, <3>2 DEF Defaults
    <3>4. QED
      BY <1>4, <1>5, <3>2, <3>3 DEF OneDefault
  <2>3. CASE ~first
    <3>1. Defaults' = Defaults
      BY <1>3, <1>4, <2>1, <2>3 DEF Defaults
    <3>2. QED
      BY <1>5, <2>3, <3>1 DEF OneDefault
  <2>4. QED
    BY <2>2, <2>3
<1>7. QED
  BY <1>3, <1>5, <1>6

LEMMA InsertStep ==
  ASSUME WInv, NEW r \in Requests, Insert(r)
  PROVE  WInv'
<1> DEFINE c == req[r]
           d == [c EXCEPT !.at = "select", !.target = Len(courses) + 1]
<1>1. c \in Command /\ c.at = "insert" /\ Reads(c) /\ c # Idle
  BY Underway DEF Insert, At, WInv, CommandsRead
<1>2. c.type = "create" /\ ~c.same /\ c.first \in BOOLEAN /\ (~c.first => courses # <<>>)
  BY <1>1 DEF Reads, Command
<1>3. /\ courses' \in Seq(Course) /\ OneDefault' /\ courses' # <<>>
      /\ DOMAIN courses \subseteq DOMAIN courses' /\ Len(courses) + 1 \in DOMAIN courses'
  BY <1>2, Added DEF Insert, Admits, WInv, TypeOK
<1>4. d \in Command
  <2>1. Len(courses) + 1 \in Nat
    BY LenProperties DEF WInv, TypeOK
  <2>2. QED
    BY <1>1, <2>1 DEF Command
<1>5. req' = [req EXCEPT ![r] = d]
  BY DEF Insert
<1>6. d.type = "create" /\ d.at = "select" /\ ~d.same /\ d.target = Len(courses) + 1
  BY <1>1, <1>2 DEF Command
<1> HIDE DEF d
<1>7. req' \in [Requests -> {Idle} \cup Command] /\ req'[r] = d
      /\ \A q \in Requests \ {r} : req'[q] = req[q]
  BY <1>4, <1>5 DEF WInv, TypeOK
<1>8. TypeOK'
  BY <1>3, <1>7 DEF Insert, WInv, TypeOK
<1>9. CommandsRead'
  <2>1. ASSUME NEW q \in Requests, req'[q] # Idle PROVE Reads(req[q])'
    <3>1. CASE q = r
      BY <1>3, <1>6, <1>7, <3>1 DEF Reads
    <3>2. CASE q # r
      BY <1>3, <1>7, <2>1, <3>2, StillRead DEF Insert
    <3>3. QED
      BY <3>1, <3>2
  <2>2. QED
    BY <2>1 DEF CommandsRead
<1>10. (SelectionMade /\ MakersReceipted /\ KeysMakeOne /\ ReceiptsMade)'
  BY <1>3 DEF Insert, WInv, SelectionMade, MakersReceipted, KeysMakeOne, ReceiptsMade
<1>11. QED
  BY <1>3, <1>8, <1>9, <1>10 DEF WInv

(* What one command writes leaves what the others have read.               *)
LEMMA OthersRead ==
  ASSUME WInv, NEW r \in Requests, End(r), made \subseteq made',
         DOMAIN courses \subseteq DOMAIN courses', courses # <<>> => courses' # <<>>
  PROVE  CommandsRead' /\ req' \in [Requests -> {Idle} \cup Command]
<1>1. req' \in [Requests -> {Idle} \cup Command] /\ req'[r] = Idle
      /\ \A q \in Requests \ {r} : req'[q] = req[q]
  BY DEF End, WInv, TypeOK
<1>2. ASSUME NEW q \in Requests, req'[q] # Idle PROVE Reads(req[q])'
  BY <1>1, <1>2, StillRead
<1>3. QED
  BY <1>1, <1>2 DEF CommandsRead

LEMMA SelectStep ==
  ASSUME WInv, NEW r \in Requests, Select(r)
  PROVE  WInv'
<1> DEFINE c == req[r]
           a == Asking(c)
           v == c.expected + 1
           m == [type |-> c.type, key |-> c.key, v |-> v, w |-> c.target]
           n == NewReceipt(a, c.target, v)
<1>1. c \in Command /\ c.at = "select" /\ Reads(c) /\ c # Idle
  BY Underway DEF Select, At, WInv, CommandsRead
<1>2. /\ c.type \in {"create", "switch"} /\ c.key \in Keys /\ c.expected \in Nat /\ c.target \in Nat
      /\ c.target \in DOMAIN courses
  BY <1>1 DEF Reads, Command
<1>3. c.target \in Nat \ {0}
  BY <1>2, LenProperties DEF WInv, TypeOK
<1>4. /\ a.type = c.type /\ a.key = c.key /\ a.expected = c.expected /\ a.target \in Nat
  BY <1>1 DEF Asking, Command
<1>5. /\ Digest(a) \in Nat \X Nat /\ Digest(a)[1] = c.expected
  BY <1>2, <1>4 DEF Digest
<1>6. n \in Receipt /\ n.type = c.type /\ n.key = c.key /\ n.digest[1] = c.expected
      /\ n.v = v /\ n.w = c.target
  BY <1>2, <1>4, <1>5 DEF NewReceipt, Receipt, Types
<1>7. /\ selection' = [v |-> v, w |-> c.target, reason |-> Reason(c)]
      /\ selection.v = c.expected /\ made' = made \cup {m} /\ courses' = courses
      /\ receipts' = Receipted(a, c.target, v) /\ End(r)
      /\ \A k \in Known(c.type, c.key) : k.digest = Digest(a)
      /\ UNCHANGED <<up, legacy>>
  BY <1>4 DEF Select, Unchanged, Agrees
<1>8. \/ receipts' = receipts \cup {n} /\ Known(c.type, c.key) = {}
      \/ receipts' = receipts /\ Known(c.type, c.key) # {}
  BY <1>4, <1>7 DEF Receipted
<1>9. m.type = c.type /\ m.key = c.key /\ m.v = v /\ m.w = c.target
  OBVIOUS
<1>10. Reason(c) \in Reasons
  BY DEF Reason, Chosen, Reasons
<1> HIDE DEF n, a, m
<1>11. CommandsRead' /\ req' \in [Requests -> {Idle} \cup Command]
  BY <1>7, OthersRead
<1>12. TypeOK'
  BY <1>2, <1>3, <1>6, <1>7, <1>8, <1>10, <1>11 DEF WInv, TypeOK
<1>13. OneDefault'
  BY <1>7 DEF WInv, OneDefault, Defaults
<1>14. selection'.v = v /\ selection'.w = c.target
  BY <1>7
<1>15. SelectionMade'
  BY <1>2, <1>7, <1>9, <1>14 DEF WInv, SelectionMade, Makers, Types
<1>16. MakersReceipted'
  <2>1. SUFFICES ASSUME NEW x \in made', x.type \in Types
                 PROVE  \E k \in receipts' : k.type = x.type /\ k.key = x.key /\ k.digest[1] + 1 = x.v
    BY DEF MakersReceipted
  <2>2. CASE x \in made
    BY <1>8, <2>1, <2>2 DEF WInv, MakersReceipted
  <2>3. CASE x = m
    BY <1>5, <1>6, <1>7, <1>8, <1>9, <2>3 DEF Known
  <2>4. QED
    BY <1>7, <2>2, <2>3
<1>17. KeysMakeOne'
  <2>1. ASSUME NEW x \in made, x.key = c.key, x.type = c.type PROVE FALSE
    <3>1. PICK k \in receipts : k.type = x.type /\ k.key = x.key /\ k.digest[1] + 1 = x.v
      BY <1>2, <2>1 DEF WInv, MakersReceipted, Types
    <3>2. k.digest[1] = c.expected
      BY <1>5, <1>7, <2>1, <3>1 DEF Known
    <3>3. x.v <= c.expected
      BY <1>7 DEF WInv, SelectionMade
    <3>4. QED
      BY <1>2, <3>1, <3>2, <3>3
  <2>2. QED
    BY <1>7, <1>9, <2>1 DEF WInv, KeysMakeOne
<1>18. ReceiptsMade'
  BY <1>6, <1>7, <1>8, <1>9 DEF WInv, ReceiptsMade
<1>19. QED
  BY <1>11, <1>12, <1>13, <1>15, <1>16, <1>17, <1>18 DEF WInv

(* A receipt for a command that has made no version.                       *)
LEMMA ReceiptOnly ==
  ASSUME WInv, NEW r \in Requests, NEW c \in Command, NEW w \in Nat, NEW v \in Nat,
         receipts' = Receipted(c, w, v),
         c.type # "rename" => \E m \in made : m.v = v /\ m.w = w,
         End(r), UNCHANGED <<up, legacy, courses, selection, made>>
  PROVE  WInv'
<1> DEFINE n == NewReceipt(c, w, v)
<1>1. n \in Receipt /\ n.type = c.type /\ n.v = v /\ n.w = w
  BY DEF NewReceipt, Receipt, Command, Digest
<1>2. receipts' = receipts \cup {n} \/ receipts' = receipts
  BY DEF Receipted
<1> HIDE DEF n
<1>3. CommandsRead' /\ req' \in [Requests -> {Idle} \cup Command]
  BY OthersRead
<1>4. TypeOK'
  BY <1>1, <1>2, <1>3 DEF WInv, TypeOK
<1>5. (OneDefault /\ SelectionMade /\ MakersReceipted /\ KeysMakeOne)'
  BY <1>2 DEF WInv, OneDefault, SelectionMade, MakersReceipted, KeysMakeOne, Defaults
<1>6. ReceiptsMade'
  BY <1>1, <1>2 DEF WInv, ReceiptsMade
<1>7. QED
  BY <1>3, <1>4, <1>5, <1>6 DEF WInv

LEMMA ReceiptStep ==
  ASSUME WInv, NEW r \in Requests, KeepCurrent(r) \/ RecordName(r)
  PROVE  WInv'
<1>1. req[r] \in Command /\ Reads(req[r])
  BY Underway DEF KeepCurrent, RecordName, At, WInv, CommandsRead
<1>2. req[r].target \in Nat /\ req[r].expected \in Nat /\ selection.v \in Nat
  BY <1>1 DEF Command, WInv, TypeOK, NoCourse
<1>3. CASE KeepCurrent(r)
  BY <1>1, <1>2, <1>3, ReceiptOnly DEF KeepCurrent, Reads
<1>4. CASE RecordName(r)
  <2>1. req[r].type = "rename"
    BY <1>1, <1>4 DEF RecordName, At, Reads
  <2>2. QED
    BY <1>1, <1>2, <1>4, <2>1, ReceiptOnly DEF RecordName
<1>5. QED
  BY <1>3, <1>4

LEMMA NameStep ==
  ASSUME WInv, NEW r \in Requests, Name(r)
  PROVE  WInv'
<1> DEFINE c == req[r]
           d == [c EXCEPT !.at = "record"]
           e == [courses[c.target] EXCEPT !.version = c.seen + 1]
<1>1. c \in Command /\ c.at = "rename" /\ Reads(c) /\ c # Idle
  BY Underway DEF Name, At, WInv, CommandsRead
<1>2. c.type = "rename" /\ ~c.same /\ c.target \in DOMAIN courses /\ c.seen + 1 \in Nat
  BY <1>1 DEF Reads, Command
<1>3. d \in Command
  BY <1>1 DEF Command
<1>4. d.type = "rename" /\ d.at = "record" /\ ~d.same /\ d.target = c.target
  BY <1>1, <1>2 DEF Command
<1>5. e \in Course /\ e.default = courses[c.target].default
  <2>1. courses[c.target] \in Course
    BY <1>2 DEF WInv, TypeOK
  <2>2. QED
    BY <1>2, <2>1 DEF Course
<1>6. courses' = [courses EXCEPT ![c.target] = e] /\ req' = [req EXCEPT ![r] = d]
  BY DEF Name, Goto
<1> HIDE DEF d, e
<1>7. /\ courses' \in Seq(Course) /\ Len(courses') = Len(courses) /\ DOMAIN courses' = DOMAIN courses
      /\ \A i \in DOMAIN courses : courses'[i].default = courses[i].default
  BY <1>2, <1>5, <1>6, ExceptSeq, LenProperties DEF WInv, TypeOK
<1>8. courses' # <<>>
  <2>1. DOMAIN <<>> = {}
    OBVIOUS
  <2>2. QED
    BY <1>2, <1>7, <2>1
<1>9. req' \in [Requests -> {Idle} \cup Command] /\ req'[r] = d
      /\ \A q \in Requests \ {r} : req'[q] = req[q]
  BY <1>3, <1>6 DEF WInv, TypeOK
<1>10. TypeOK'
  BY <1>7, <1>9 DEF Name, WInv, TypeOK
<1>11. OneDefault'
  <2>1. courses # <<>>
    BY <1>2, EmptySeq
  <2>2. Defaults' = Defaults
    BY <1>7 DEF Defaults
  <2>3. QED
    BY <1>7, <2>1, <2>2 DEF WInv, OneDefault
<1>12. CommandsRead'
  <2>1. ASSUME NEW q \in Requests, req'[q] # Idle PROVE Reads(req[q])'
    <3>1. CASE q = r
      BY <1>2, <1>4, <1>7, <1>9, <3>1 DEF Reads
    <3>2. CASE q # r
      BY <1>7, <1>8, <1>9, <2>1, <3>2, StillRead DEF Name
    <3>3. QED
      BY <3>1, <3>2
  <2>2. QED
    BY <2>1 DEF CommandsRead
<1>13. (SelectionMade /\ MakersReceipted /\ KeysMakeOne /\ ReceiptsMade)'
  BY <1>7 DEF Name, WInv, SelectionMade, MakersReceipted, KeysMakeOne, ReceiptsMade
<1>14. QED
  BY <1>10, <1>11, <1>12, <1>13 DEF WInv

(* create_default_if_absent keeps the one default or makes it.             *)
LEMMA Defaulted ==
  ASSUME WInv, courses' = DefaultCourse
  PROVE  /\ courses' \in Seq(Course) /\ OneDefault' /\ courses' # <<>>
         /\ DOMAIN courses \subseteq DOMAIN courses'
         /\ courses = <<>> => 1 \in DOMAIN courses'
<1>1. CASE Defaults = {}
  <2>1. courses' = Append(courses, [default |-> TRUE, version |-> 1])
    BY <1>1 DEF DefaultCourse
  <2>2. courses = <<>> => Len(courses) + 1 = 1
    OBVIOUS
  <2>3. QED
    BY <1>1, <2>1, <2>2, Added DEF WInv, TypeOK
<1>2. CASE Defaults # {}
  <2>1. courses' = courses
    BY <1>2 DEF DefaultCourse
  <2>2. courses # <<>>
    BY <1>2, EmptySeq DEF Defaults
  <2>3. QED
    BY <2>1, <2>2 DEF WInv, TypeOK, OneDefault, Defaults
<1>3. QED
  BY <1>1, <1>2

LEMMA DataStep ==
  ASSUME WInv, WriteLearnerData \/ UploadUnassigned
  PROVE  WInv'
<1>1. /\ courses' \in Seq(Course) /\ OneDefault' /\ (courses # <<>> => courses' # <<>>)
      /\ DOMAIN courses \subseteq DOMAIN courses'
  <2>1. CASE courses' = courses
    BY <2>1 DEF WInv, TypeOK, OneDefault, Defaults
  <2>2. CASE courses' = DefaultCourse
    BY <2>2, Defaulted
  <2>3. QED
    BY <2>1, <2>2 DEF WriteLearnerData, UploadUnassigned
<1>2. legacy' = TRUE /\ UNCHANGED <<up, selection, receipts, req, made>>
  BY DEF WriteLearnerData, UploadUnassigned
<1>3. TypeOK'
  BY <1>1, <1>2 DEF WInv, TypeOK
<1>4. CommandsRead'
  BY <1>1, <1>2, StillRead DEF CommandsRead
<1>5. (SelectionMade /\ MakersReceipted /\ KeysMakeOne /\ ReceiptsMade)'
  BY <1>1, <1>2 DEF WInv, SelectionMade, MakersReceipted, KeysMakeOne, ReceiptsMade
<1>6. QED
  BY <1>1, <1>3, <1>4, <1>5 DEF WInv

LEMMA StopStep ==
  ASSUME WInv, Stop
  PROVE  WInv'
<1>1. TypeOK' /\ CommandsRead'
  BY DEF Stop, WInv, TypeOK, CommandsRead
<1>2. (OneDefault /\ SelectionMade /\ MakersReceipted /\ KeysMakeOne /\ ReceiptsMade)'
  BY DEF Stop, WInv, OneDefault, SelectionMade, MakersReceipted, KeysMakeOne, ReceiptsMade, Defaults
<1>3. QED
  BY <1>1, <1>2 DEF WInv

LEMMA StartStep ==
  ASSUME WInv, Start
  PROVE  WInv'
<1>1. UNCHANGED <<legacy, receipts, req>> /\ up' = TRUE
  BY DEF Start
<1>2. \/ UNCHANGED <<courses, selection, made>>
      \/ \E w \in Nat : EnsureSelection(w) /\ w \in DOMAIN courses'
                        /\ (courses' = courses \/ courses' = DefaultCourse)
  <2>1. CASE courses = <<>> /\ courses' = DefaultCourse /\ EnsureSelection(1)
    BY <2>1, Defaulted
  <2>2. CASE courses' = courses /\ \E w \in Defaults : EnsureSelection(w)
    BY <2>2 DEF Defaults, WInv, TypeOK
  <2>3. QED
    BY <2>1, <2>2 DEF Start
<1>3. /\ courses' \in Seq(Course) /\ OneDefault' /\ (courses # <<>> => courses' # <<>>)
      /\ DOMAIN courses \subseteq DOMAIN courses'
  <2>1. CASE courses' = courses
    BY <2>1 DEF WInv, TypeOK, OneDefault, Defaults
  <2>2. CASE courses' = DefaultCourse
    BY <2>2, Defaulted
  <2>3. QED
    BY <1>2, <2>1, <2>2
<1>4. CASE UNCHANGED <<selection, made>>
  <2>1. TypeOK' /\ CommandsRead'
    BY <1>1, <1>3, <1>4, StillRead DEF WInv, TypeOK, CommandsRead
  <2>2. (SelectionMade /\ MakersReceipted /\ KeysMakeOne /\ ReceiptsMade)'
    BY <1>1, <1>3, <1>4 DEF WInv, SelectionMade, MakersReceipted, KeysMakeOne, ReceiptsMade
  <2>3. QED
    BY <1>3, <2>1, <2>2 DEF WInv
<1>5. CASE ~UNCHANGED <<selection, made>>
  <2>1. PICK w \in Nat : EnsureSelection(w) /\ w \in DOMAIN courses'
    BY <1>2, <1>5
  <2> DEFINE m == [type |-> "start", key |-> "none", v |-> 1, w |-> w]
             s == [v |-> 1, w |-> w, reason |-> "LEGACY_MIGRATION"]
  <2>2. selection.v = 0 /\ selection' = s /\ made' = made \cup {m}
    BY <1>5, <2>1 DEF EnsureSelection
  <2>3. m.type = "start" /\ m.v = 1 /\ m.w = w /\ s.v = 1 /\ s.w = w
    OBVIOUS
  <2>4. made = {}
    BY <2>2 DEF WInv, SelectionMade
  <2>5. w \in Nat \ {0} /\ s \in [v : Nat \ {0}, w : Nat \ {0}, reason : Reasons]
    BY <1>3, <2>1, LenProperties DEF Reasons
  <2> HIDE DEF m, s
  <2>6. TypeOK' /\ CommandsRead'
    BY <1>1, <1>3, <2>2, <2>5, StillRead DEF WInv, TypeOK, CommandsRead
  <2>7. SelectionMade'
    BY <2>1, <2>2, <2>3, <2>4 DEF SelectionMade, Makers
  <2>8. (MakersReceipted /\ KeysMakeOne /\ ReceiptsMade)'
    BY <1>1, <2>2, <2>3, <2>4 DEF WInv, MakersReceipted, KeysMakeOne, ReceiptsMade, Types
  <2>9. QED
    BY <1>3, <2>6, <2>7, <2>8 DEF WInv
<1>6. QED
  BY <1>4, <1>5

-----------------------------------------------------------------------------
LEMMA NextWInv == WInv /\ [Next]_vars => WInv'
<1> SUFFICES ASSUME WInv, [Next]_vars PROVE WInv'
  OBVIOUS
<1>1. ASSUME NEW r \in Requests, Serve(r) PROVE WInv'
  BY <1>1, AskStep, ListStep, CheckStep, InsertStep, SelectStep, ReceiptStep, LoadStep, NameStep,
     RefuseStep DEF Serve
<1>2. CASE UNCHANGED vars
  BY <1>2 DEF vars, WInv, TypeOK, OneDefault, Defaults, SelectionMade, MakersReceipted,
     KeysMakeOne, ReceiptsMade, CommandsRead, Reads
<1>3. QED
  BY <1>1, <1>2, DataStep, StopStep, StartStep DEF Next

LEMMA Invariance == Spec => []WInv
  BY InitWInv, NextWInv, PTL DEF Spec

(* The tables and the commands under way have their types.                 *)
THEOREM WorkspaceTypes == Spec => []TypeOK
<1>1. WInv => TypeOK
  BY DEF WInv
<1>2. QED
  BY <1>1, Invariance, PTL

(* Whatever races for the first course, and wherever the server stops,     *)
(* reconcile_course_workspace finds one default course and a current one.  *)
THEOREM AlwaysStarts == Spec => []Startable
<1>1. WInv => Startable
  BY FS_Singleton DEF WInv, OneDefault, SelectionMade, Startable
<1>2. QED
  BY <1>1, Invariance, PTL

(* The compare-and-set of the selection and the receipts: one command for  *)
(* a version, one version for a key, and no receipt that is untrue.        *)
THEOREM ReceiptsAreTrue == Spec => []ReceiptsTell
<1>1. WInv => ReceiptsTell
  BY DEF WInv, SelectionMade, KeysMakeOne, ReceiptsMade, ReceiptsTell
<1>2. QED
  BY <1>1, Invariance, PTL
=============================================================================
