------------------------- MODULE TeachingTurnsProofs -------------------------
(***************************************************************************)
(* For any number of requests, keys and rounds: a key has one turn and its *)
(* answers stand, no lock is left behind, the results of recovery commands *)
(* tell the truth and their number keeps to the budget and its overrun.    *)
(***************************************************************************)
EXTENDS TeachingTurns, SequenceTheorems, FiniteSetTheorems, TLAPS

(* The parts of the inductive invariant.  From its first write a round     *)
(* holds the write lock, so that no other turn comes between its look for  *)
(* the key and its commit.                                                 *)
WritersHold == \A r \in Requests :
    /\ round[r].pc \in {"model", "commit"} => writer = r
    /\ round[r].pc = "commit" => ~Known(Send(r).key)
OneTurn   == \A i, j \in DOMAIN turns : turns[i].key = turns[j].key => i = j
ToldTurns == \A k \in Keys : told[k] \subseteq KeyTurns(k)
TurnInv   == LocksOwned /\ WritersHold /\ OneTurn /\ ToldTurns

(* A command past its request is the only one of its key, which has no     *)
(* result yet; every command under way was let in below the budget.        *)
Late(r) == action[r].pc \in {"dispatch", "write", "refused"}
OnlyOnce ==
    /\ \A r \in Requests : Late(r) =>
          /\ action[r].key \in requested \ replaced
          /\ results[action[r].key] = {}
    /\ \A r, q \in Requests : Late(r) /\ Late(q) /\ action[r].key = action[q].key => r = q
    /\ \A k \in RecoveryKeys : results[k] # {} => k \in requested
TruthTold == \A k \in RecoveryKeys :
    /\ k \in replaced => results[k] = {"succeeded"}
    /\ k \notin replaced => results[k] \subseteq {"failed"}
Underway == {r \in Requests : action[r] # NoAction}
LetIn ==
    /\ IsFiniteSet(replaced)
    /\ Cardinality(replaced) + Cardinality(Underway) <= RetryBudget + Cardinality(Requests) - 1
RecoveryInv == OnlyOnce /\ TruthTold /\ LetIn

TTInv == TypeOK /\ TurnInv /\ RecoveryInv

-----------------------------------------------------------------------------
(* Facts about the helpers.                                                *)
LEMMA RequestsCounted ==
  /\ Cardinality(Requests) \in Nat /\ Cardinality(Requests) > 0
  /\ \A S \in SUBSET Requests : IsFiniteSet(S) /\ Cardinality(S) \in Nat
                                /\ Cardinality(S) <= Cardinality(Requests)
<1>1. IsFiniteSet(Requests) /\ Requests # {}
  BY RecoveryConstants
<1>2. QED
  BY <1>1, FS_CardinalityType, FS_EmptySet, FS_Subset

LEMMA RoundFields ==
  ASSUME TypeOK, NEW r \in Requests
  PROVE  /\ round[r] = NoRound \/ round[r] \in [pc : Steps, send : Sends, seen : Nat, num : Nat]
         /\ round[r] # NoRound => /\ round[r].pc \in Steps /\ Send(r) \in Sends
                                  /\ Send(r).key \in Keys /\ round[r].seen \in Nat
         /\ round[r] = NoRound => round[r].pc = "idle"
  BY DEF TypeOK, Rounds, NoRound, Send, Keys

(* A round moves on.                                                       *)
LEMMA Moves ==
  ASSUME TypeOK, NEW r \in Requests, round[r] # NoRound, NEW pc \in Steps, Step(r, pc)
  PROVE  /\ round' \in [Requests -> Rounds]
         /\ round'[r].pc = pc /\ round'[r].send = round[r].send
         /\ \A q \in Requests \ {r} : round'[q] = round[q]
<1> DEFINE d == [round[r] EXCEPT !.pc = pc]
<1>1. d \in [pc : Steps, send : Sends, seen : Nat, num : Nat] /\ d.pc = pc /\ d.send = round[r].send
  BY RoundFields
<1>2. round' = [round EXCEPT ![r] = d]
  BY DEF Step
<1> HIDE DEF d
<1>3. QED
  BY <1>1, <1>2 DEF TypeOK, Rounds

(* A round ends.                                                           *)
LEMMA Leaves ==
  ASSUME TypeOK, NEW r \in Requests, Leave(r)
  PROVE  /\ round' \in [Requests -> Rounds] /\ round'[r] = NoRound /\ round'[r].pc = "idle"
         /\ \A q \in Requests \ {r} : round'[q] = round[q]
         /\ writer' \in Requests \cup {NoOne} /\ writer' # r
         /\ \A q \in Requests \ {r} : writer' = q <=> writer = q
         /\ lock' \in [Keys -> Requests \cup {NoOne}]
         /\ \A k \in Keys : lock'[k] # NoOne => lock'[k] = lock[k] /\ lock[k] # r
<1>1. NoOne \notin Requests
  BY RecoveryConstants
<1>2. round' = [round EXCEPT ![r] = NoRound] /\ NoRound.pc = "idle"
  BY DEF Leave, NoRound
<1>3. /\ round' \in [Requests -> Rounds] /\ round'[r] = NoRound /\ round'[r].pc = "idle"
      /\ \A q \in Requests \ {r} : round'[q] = round[q]
  <2>1. NoRound \in Rounds
    BY DEF Rounds
  <2>2. QED
    BY <1>2, <2>1 DEF TypeOK
<1>4. /\ writer' \in Requests \cup {NoOne} /\ writer' # r
      /\ \A q \in Requests \ {r} : writer' = q <=> writer = q
  BY <1>1 DEF Leave, TypeOK, RecoveryTypeOK
<1>5. /\ lock' \in [Keys -> Requests \cup {NoOne}]
      /\ \A k \in Keys : lock'[k] # NoOne => lock'[k] = lock[k] /\ lock[k] # r
  BY <1>1 DEF Leave, Unlocked, TypeOK
<1>6. QED
  BY <1>3, <1>4, <1>5

(* What a round that ends leaves to the others.                            *)
LEMMA LeavesLocks ==
  ASSUME TypeOK, TurnInv, NEW r \in Requests, Leave(r),
         turns' = turns \/ writer = r
  PROVE  LocksOwned' /\ WritersHold'
<1>1. NoOne \notin Requests
  BY RecoveryConstants
<1>2. LocksOwned'
  <2>1. ASSUME NEW k \in Keys, lock'[k] # NoOne
        PROVE  /\ \E pc \in {"start", "find", "number", "write", "model"} : At(lock[k], pc)'
               /\ Send(lock[k])'.key = k
    <3>1. lock'[k] = lock[k] /\ lock[k] \in Requests \ {r} /\ round'[lock[k]] = round[lock[k]]
      BY <2>1, Leaves DEF TypeOK
    <3>2. QED
      BY <3>1, <2>1 DEF TurnInv, LocksOwned, At, Send
  <2>2. ASSUME writer' # NoOne
        PROVE  \E pc \in {"find", "number", "write", "model", "commit"} : At(writer, pc)'
    <3>1. writer' = writer /\ writer \in Requests \ {r} /\ round'[writer] = round[writer]
      BY <2>2, Leaves
    <3>2. QED
      BY <1>1, <3>1 DEF TurnInv, LocksOwned, At
  <2>3. QED
    BY <2>1, <2>2 DEF LocksOwned, At, Send
<1>3. WritersHold'
  <2>1. SUFFICES ASSUME NEW q \in Requests
                 PROVE  /\ round'[q].pc \in {"model", "commit"} => writer' = q
                        /\ round'[q].pc = "commit" => ~Known(Send(q).key)'
    BY DEF WritersHold, Send
  <2>2. CASE q = r
    BY <2>2, Leaves
  <2>3. CASE q # r
    <3>1. round'[q] = round[q] /\ (writer' = q <=> writer = q)
      BY <2>3, Leaves
    <3>2. round[q].pc = "commit" => writer = q /\ ~Known(Send(q).key)
      BY DEF TurnInv, WritersHold
    <3>3. CASE turns' = turns
      <4>1. \A k : Known(k)' = Known(k)
        BY <3>3 DEF Known, KeyTurns
      <4>2. QED
        BY <3>1, <4>1 DEF TurnInv, WritersHold, Send
    <3>4. CASE writer = r
      BY <2>3, <3>1, <3>4 DEF TurnInv, WritersHold
    <3>5. QED
      BY <3>3, <3>4
  <2>4. QED
    BY <2>2, <2>3
<1>4. QED
  BY <1>2, <1>3

(* A round that only reads or takes a lock, and what it does not touch.    *)
LEMMA SameTurns ==
  ASSUME OneTurn, ToldTurns, turns' = turns, told' = told
  PROVE  OneTurn' /\ ToldTurns' /\ \A k : Known(k)' = Known(k)
  BY DEF OneTurn, ToldTurns, Known, KeyTurns

-----------------------------------------------------------------------------
(* The steps of a round keep types and locks.  roundRest is what they all  *)
(* leave to the recovery centre.                                           *)
roundRest == <<document, replaced, requested, results, action>>

(* A step of a round that stays under way.                                 *)
LEMMA StaysUnderway ==
  ASSUME TypeOK, TurnInv, NEW r \in Requests, NEW old, NEW pc \in Steps,
         round[r].pc = old, round[r] # NoRound, round' \in [Requests -> Rounds],
         round'[r].pc = pc, round'[r].send = round[r].send,
         \A q \in Requests \ {r} : round'[q] = round[q],
         turns' = turns, told' = told, activity' \in {"available", "active", "over"},
         incident' = incident, UNCHANGED roundRest,
         \/ lock' = lock /\ (old \in {"start", "find", "number", "write", "model"} =>
                             pc \in {"start", "find", "number", "write", "model"})
         \/ lock' = Unlocked(r)
         \/ lock' = [lock EXCEPT ![Send(r).key] = r] /\ lock[Send(r).key] = NoOne
            /\ pc \in {"start", "find", "number", "write", "model"},
         \/ writer' = writer
            /\ (old \in {"find", "number", "write", "model", "commit"} =>
                pc \in {"find", "number", "write", "model", "commit"})
         \/ writer \in {NoOne, r} /\ writer' = r
            /\ pc \in {"find", "number", "write", "model", "commit"}
         \/ writer = r /\ writer' = NoOne,
         pc \in {"model", "commit"} => writer' = r,
         pc = "commit" => ~Known(Send(r).key)
  PROVE  TypeOK' /\ TurnInv'
<1>1. NoOne \notin Requests
  BY RecoveryConstants
<1>2. Send(r).key \in Keys
  BY RoundFields
<1>3. lock' \in [Keys -> Requests \cup {NoOne}]
  BY <1>2 DEF TypeOK, Unlocked
<1>4. TypeOK'
  <2>1. writer' \in Requests \cup {NoOne}
    BY DEF TypeOK, RecoveryTypeOK
  <2>2. QED
    BY <1>3, <2>1 DEF TypeOK, RecoveryTypeOK, roundRest
<1>5. LocksOwned'
  <2>1. ASSUME NEW k \in Keys, lock'[k] # NoOne
        PROVE  /\ round'[lock'[k]].pc \in {"start", "find", "number", "write", "model"}
               /\ round'[lock'[k]].send.key = k
    <3>1. CASE lock'[k] = lock[k]
      <4>1. lock[k] \in Requests
        BY <2>1, <3>1, <1>3
      <4>2. /\ round[lock[k]].pc \in {"start", "find", "number", "write", "model"}
            /\ round[lock[k]].send.key = k
        BY <2>1, <3>1 DEF TurnInv, LocksOwned, At, Send
      <4>3. CASE lock[k] = r
        BY <1>1, <1>2, <2>1, <3>1, <4>2, <4>3 DEF Unlocked, Send, TypeOK
      <4>4. CASE lock[k] # r
        BY <3>1, <4>1, <4>2, <4>4
      <4>5. QED
        BY <4>3, <4>4
    <3>2. CASE lock'[k] # lock[k]
      BY <1>2, <2>1, <3>2 DEF Unlocked, Send, TypeOK
    <3>3. QED
      BY <3>1, <3>2
  <2>2. writer' # NoOne => round'[writer'].pc \in {"find", "number", "write", "model", "commit"}
    BY <1>1 DEF TypeOK, RecoveryTypeOK, TurnInv, LocksOwned, At
  <2>3. QED
    BY <2>1, <2>2 DEF LocksOwned, At, Send
<1>6. OneTurn' /\ ToldTurns' /\ \A k : Known(k)' = Known(k)
  BY SameTurns DEF TurnInv
<1>7. WritersHold'
  <2>1. ASSUME NEW q \in Requests \ {r}
        PROVE  /\ round'[q].pc \in {"model", "commit"} => writer' = q
               /\ round'[q].pc = "commit" => ~Known(round'[q].send.key)
    BY <1>1 DEF TurnInv, WritersHold, Send
  <2>2. QED
    BY <1>6, <2>1 DEF WritersHold, Send
<1>8. QED
  BY <1>4, <1>5, <1>6, <1>7 DEF TurnInv

(* A step that ends a round, whatever it says to the client.               *)
LEMMA Ends ==
  ASSUME TypeOK, TurnInv, NEW r \in Requests, Leave(r), turns' \in Seq(Turns),
         told' \in [Keys -> SUBSET Nat], activity' = activity,
         incident' \in {"none", "open", "resolved"}, UNCHANGED roundRest,
         turns' = turns \/ writer = r, OneTurn', ToldTurns'
  PROVE  TypeOK' /\ TurnInv'
<1>1. TypeOK'
  BY Leaves DEF TypeOK, RecoveryTypeOK, roundRest
<1>2. QED
  BY <1>1, LeavesLocks DEF TurnInv

LEMMA Beginning ==
  ASSUME TypeOK, TurnInv, NEW r \in Requests, NEW s \in Sends, Begin(r, s), UNCHANGED roundRest
  PROVE  TypeOK' /\ TurnInv'
<1> DEFINE d == [pc |-> "queued", send |-> s, seen |-> 0, num |-> 0]
<1>1. d \in [pc : Steps, send : Sends, seen : Nat, num : Nat] /\ d.pc = "queued"
  BY DEF Steps
<1>2. round' = [round EXCEPT ![r] = d] /\ round[r].pc = "idle"
  BY RoundFields DEF Begin
<1> HIDE DEF d
<1>3. /\ round' \in [Requests -> Rounds] /\ round'[r].pc = "queued"
      /\ \A q \in Requests \ {r} : round'[q] = round[q]
  BY <1>1, <1>2 DEF TypeOK, Rounds
<1>4. /\ writer' = writer /\ lock' = lock /\ turns' = turns /\ told' = told
      /\ activity' = activity /\ incident' = incident
  BY DEF Begin
<1>5. TypeOK'
  BY <1>3, <1>4 DEF TypeOK, RecoveryTypeOK, roundRest
<1>6. OneTurn' /\ ToldTurns' /\ \A k : Known(k)' = Known(k)
  BY <1>4, SameTurns DEF TurnInv
<1>7. LocksOwned'
  <2>1. ASSUME NEW k \in Keys, lock[k] # NoOne
        PROVE  /\ round'[lock[k]].pc \in {"start", "find", "number", "write", "model"}
               /\ round'[lock[k]].send.key = k
    <3>1. lock[k] \in Requests
      BY <2>1 DEF TypeOK
    <3>2. lock[k] # r /\ round'[lock[k]] = round[lock[k]]
      BY <1>2, <1>3, <2>1, <3>1 DEF TurnInv, LocksOwned, At
    <3>3. QED
      BY <2>1, <3>2 DEF TurnInv, LocksOwned, At, Send
  <2>2. writer # NoOne => round'[writer].pc \in {"find", "number", "write", "model", "commit"}
    BY <1>2, <1>3 DEF TypeOK, RecoveryTypeOK, TurnInv, LocksOwned, At
  <2>3. QED
    BY <1>4, <2>1, <2>2 DEF LocksOwned, At, Send
<1>8. WritersHold'
  <2>1. ASSUME NEW q \in Requests
        PROVE  /\ round'[q].pc \in {"model", "commit"} => writer' = q
               /\ round'[q].pc = "commit" => ~Known(round'[q].send.key)
    BY <1>3, <1>4 DEF TurnInv, WritersHold, Send
  <2>2. QED
    BY <1>6, <2>1 DEF WritersHold, Send
<1>9. QED
  BY <1>5, <1>6, <1>7, <1>8 DEF TurnInv

LEMMA Entering ==
  ASSUME TypeOK, TurnInv, NEW r \in Requests, Enter(r), UNCHANGED roundRest
  PROVE  TypeOK' /\ TurnInv'
<1> DEFINE pc == IF activity = "available" THEN "start" ELSE "find"
<1>1. /\ round[r].pc = "queued" /\ round[r] # NoRound /\ pc \in Steps /\ Step(r, pc)
      /\ pc \in {"start", "find", "number", "write", "model"} /\ pc \notin {"model", "commit"}
  BY RoundFields DEF Enter, At, Steps
<1>2. /\ lock' = [lock EXCEPT ![Send(r).key] = r] /\ lock[Send(r).key] = NoOne
      /\ turns' = turns /\ told' = told /\ activity' = activity /\ incident' = incident
      /\ writer' = writer
  BY DEF Enter
<1>3. activity' \in {"available", "active", "over"}
  BY <1>2 DEF TypeOK
<1> HIDE DEF pc
<1>4. /\ round' \in [Requests -> Rounds] /\ round'[r].pc = pc
      /\ round'[r].send = round[r].send /\ \A q \in Requests \ {r} : round'[q] = round[q]
  BY <1>1, Moves
<1>5. QED
  BY <1>1, <1>2, <1>3, <1>4, StaysUnderway

LEMMA Starting ==
  ASSUME TypeOK, TurnInv, NEW r \in Requests, StartActivity(r), UNCHANGED roundRest
  PROVE  TypeOK' /\ TurnInv'
<1>1. /\ round[r].pc = "start" /\ round[r] # NoRound /\ "find" \in Steps /\ Step(r, "find")
      /\ writer = NoOne /\ writer' = r /\ lock' = lock
      /\ turns' = turns /\ told' = told /\ activity' = "active" /\ incident' = incident
  BY RoundFields DEF StartActivity, At, Steps
<1>2. /\ round' \in [Requests -> Rounds] /\ round'[r].pc = "find"
      /\ round'[r].send = round[r].send /\ \A q \in Requests \ {r} : round'[q] = round[q]
  BY <1>1, Moves
<1>3. QED
  BY <1>1, <1>2, StaysUnderway

LEMMA Listing ==
  ASSUME TypeOK, TurnInv, NEW r \in Requests, List(r), UNCHANGED roundRest
  PROVE  TypeOK' /\ TurnInv'
<1> DEFINE d == [round[r] EXCEPT !.pc = "number", !.seen = Len(turns)]
<1>1. /\ round[r].pc = "find" /\ round[r] # NoRound /\ "number" \in Steps
      /\ writer' = writer /\ lock' = lock /\ turns' = turns /\ told' = told
      /\ activity' = activity /\ incident' = incident
  BY RoundFields DEF List, At, Steps
<1>2. Len(turns) \in Nat /\ activity' \in {"available", "active", "over"}
  BY <1>1 DEF TypeOK
<1>3. /\ d \in [pc : Steps, send : Sends, seen : Nat, num : Nat]
      /\ d.pc = "number" /\ d.send = round[r].send
  BY <1>1, <1>2, RoundFields
<1>4. round' = [round EXCEPT ![r] = d]
  BY DEF List
<1> HIDE DEF d
<1>5. /\ round' \in [Requests -> Rounds] /\ round'[r].pc = "number"
      /\ round'[r].send = round[r].send /\ \A q \in Requests \ {r} : round'[q] = round[q]
  BY <1>3, <1>4 DEF TypeOK, Rounds
<1>6. QED
  BY <1>1, <1>2, <1>5, StaysUnderway

LEMMA Numbering ==
  ASSUME TypeOK, TurnInv, NEW r \in Requests, Number(r), UNCHANGED roundRest
  PROVE  TypeOK' /\ TurnInv'
<1> DEFINE d == [round[r] EXCEPT !.pc = "write", !.num = Len(turns) + 1]
<1>1. /\ round[r].pc = "number" /\ round[r] # NoRound /\ "write" \in Steps
      /\ writer' = writer /\ lock' = lock /\ turns' = turns /\ told' = told
      /\ activity' = activity /\ incident' = incident
  BY RoundFields DEF Number, At, Steps
<1>2. Len(turns) + 1 \in Nat /\ activity' \in {"available", "active", "over"}
  BY <1>1 DEF TypeOK
<1>3. /\ d \in [pc : Steps, send : Sends, seen : Nat, num : Nat]
      /\ d.pc = "write" /\ d.send = round[r].send
  BY <1>1, <1>2, RoundFields
<1>4. round' = [round EXCEPT ![r] = d]
  BY DEF Number
<1> HIDE DEF d
<1>5. /\ round' \in [Requests -> Rounds] /\ round'[r].pc = "write"
      /\ round'[r].send = round[r].send /\ \A q \in Requests \ {r} : round'[q] = round[q]
  BY <1>3, <1>4 DEF TypeOK, Rounds
<1>6. QED
  BY <1>1, <1>2, <1>5, StaysUnderway

LEMMA Writing ==
  ASSUME TypeOK, TurnInv, NEW r \in Requests, Write(r), UNCHANGED roundRest
  PROVE  TypeOK' /\ TurnInv'
<1>1. /\ round[r].pc = "write" /\ round[r] # NoRound /\ "model" \in Steps /\ Step(r, "model")
      /\ writer \in {NoOne, r} /\ writer' = r /\ lock' = lock
      /\ turns' = turns /\ told' = told /\ activity' = activity /\ incident' = incident
  BY RoundFields DEF Write, At, Steps
<1>2. activity' \in {"available", "active", "over"}
  BY <1>1 DEF TypeOK
<1>3. /\ round' \in [Requests -> Rounds] /\ round'[r].pc = "model"
      /\ round'[r].send = round[r].send /\ \A q \in Requests \ {r} : round'[q] = round[q]
  BY <1>1, Moves
<1>4. QED
  BY <1>1, <1>2, <1>3, StaysUnderway

LEMMA Accepting ==
  ASSUME TypeOK, TurnInv, NEW r \in Requests, Accept(r), UNCHANGED roundRest
  PROVE  TypeOK' /\ TurnInv'
<1>1. /\ round[r].pc = "model" /\ round[r] # NoRound /\ "commit" \in Steps /\ Step(r, "commit")
      /\ writer' = writer /\ lock' = Unlocked(r) /\ ~Known(Send(r).key)
      /\ turns' = turns /\ told' = told /\ activity' = activity /\ incident' = incident
  BY RoundFields DEF Accept, At, Steps, Fresh
<1>2. activity' \in {"available", "active", "over"} /\ writer = r
  BY <1>1 DEF TypeOK, TurnInv, WritersHold
<1>3. /\ round' \in [Requests -> Rounds] /\ round'[r].pc = "commit"
      /\ round'[r].send = round[r].send /\ \A q \in Requests \ {r} : round'[q] = round[q]
  BY <1>1, Moves
<1>4. QED
  BY <1>1, <1>2, <1>3, StaysUnderway

LEMMA Failing ==
  ASSUME TypeOK, TurnInv, NEW r \in Requests, ModelFails(r), UNCHANGED roundRest
  PROVE  TypeOK' /\ TurnInv'
<1>1. /\ round[r].pc = "model" /\ round[r] # NoRound /\ "report" \in Steps /\ Step(r, "report")
      /\ writer' = NoOne /\ lock' = Unlocked(r)
      /\ turns' = turns /\ told' = told /\ activity' = activity /\ incident' = incident
  BY RoundFields DEF ModelFails, At, Steps
<1>2. activity' \in {"available", "active", "over"} /\ writer = r
  BY <1>1 DEF TypeOK, TurnInv, WritersHold
<1>3. /\ round' \in [Requests -> Rounds] /\ round'[r].pc = "report"
      /\ round'[r].send = round[r].send /\ \A q \in Requests \ {r} : round'[q] = round[q]
  BY <1>1, Moves
<1>4. QED
  BY <1>1, <1>2, <1>3, StaysUnderway

LEMMA Replaying ==
  ASSUME TypeOK, TurnInv, NEW r \in Requests, Replay(r), UNCHANGED roundRest
  PROVE  TypeOK' /\ TurnInv'
<1>1. /\ Leave(r) /\ turns' = turns /\ activity' = activity /\ incident' = incident
      /\ told' = [told EXCEPT ![Send(r).key] =
                    @ \cup {i \in KeyTurns(Send(r).key) : Same(Send(r), turns[i])}]
  BY DEF Replay
<1>2. turns' \in Seq(Turns) /\ incident' \in {"none", "open", "resolved"}
  BY <1>1 DEF TypeOK, RecoveryTypeOK
<1>3. \A k : KeyTurns(k) \subseteq Nat /\ KeyTurns(k)' = KeyTurns(k)
  BY <1>1 DEF TypeOK, KeyTurns
<1>4. Send(r).key \in Keys
  BY RoundFields DEF Replay, At
<1>5. told' \in [Keys -> SUBSET Nat]
  BY <1>1, <1>3, <1>4 DEF TypeOK
<1>6. OneTurn' /\ ToldTurns'
  BY <1>1, <1>3, <1>4 DEF TypeOK, TurnInv, OneTurn, ToldTurns
<1>7. QED
  BY <1>1, <1>2, <1>5, <1>6, Ends

LEMMA Reporting ==
  ASSUME TypeOK, TurnInv, NEW r \in Requests, Report(r) \/ Fail(r), UNCHANGED roundRest
  PROVE  TypeOK' /\ TurnInv'
<1>1. /\ Leave(r) /\ turns' = turns /\ told' = told /\ activity' = activity
      /\ incident' \in {"none", "open", "resolved"}
  BY DEF Report, Fail, RecordModelFailure, TypeOK, RecoveryTypeOK
<1>2. turns' \in Seq(Turns) /\ told' \in [Keys -> SUBSET Nat]
  BY <1>1 DEF TypeOK
<1>3. OneTurn' /\ ToldTurns'
  BY <1>1, SameTurns DEF TurnInv
<1>4. QED
  BY <1>1, <1>2, <1>3, Ends

(* The turn that is committed is the only one of its key.                  *)
LEMMA Committing ==
  ASSUME TypeOK, TurnInv, NEW r \in Requests, Commit(r), UNCHANGED roundRest
  PROVE  TypeOK' /\ TurnInv'
<1> DEFINE k == Send(r).key
           t == [key |-> Send(r).key, kind |-> Send(r).kind, turn |-> Send(r).turn,
                 from |-> round[r].seen]
<1>1. /\ turns' = Append(turns, t) /\ Leave(r) /\ activity' = activity
      /\ told' = [told EXCEPT ![k] = @ \cup {Len(turns) + 1}]
      /\ incident' \in {"none", "open", "resolved"}
  BY DEF Commit, ResolveModelIssue, TypeOK, RecoveryTypeOK
<1>2. round[r].pc = "commit" /\ round[r] # NoRound
  BY RoundFields DEF Commit, At
<1>3. writer = r /\ ~Known(k)
  BY <1>2 DEF TurnInv, WritersHold
<1>4. k \in Keys /\ t \in Turns /\ t.key = k
  <2>1. Send(r) \in Sends /\ round[r].seen \in Nat
    BY <1>2, RoundFields
  <2>2. Send(r).kind \in Kinds /\ k \in Keys /\ Send(r).turn \in {s.turn : s \in Sends}
    BY <2>1, SendConstants DEF Keys
  <2>3. QED
    BY <2>1, <2>2 DEF Turns
<1> HIDE DEF k, t
<1>5. turns \in Seq(Turns) /\ Len(turns) \in Nat /\ told \in [Keys -> SUBSET Nat]
  BY DEF TypeOK
<1>6. /\ turns' \in Seq(Turns) /\ Len(turns') = Len(turns) + 1
      /\ turns'[Len(turns) + 1] = t /\ \A i \in 1..Len(turns) : turns'[i] = turns[i]
  BY <1>1, <1>4, <1>5, AppendProperties
<1>7. DOMAIN turns = 1..Len(turns) /\ DOMAIN turns' = 1..(Len(turns) + 1)
  BY <1>5, <1>6, LenProperties
<1>8. \A i \in DOMAIN turns' : i \in DOMAIN turns \/ i = Len(turns) + 1
  BY <1>5, <1>7
<1>9. told' \in [Keys -> SUBSET Nat]
  <2>1. Len(turns) + 1 \in Nat
    BY <1>5
  <2> DEFINE n == Len(turns) + 1
  <2> HIDE DEF n
  <2>2. n \in Nat /\ told' = [told EXCEPT ![k] = @ \cup {n}]
    BY <1>1, <2>1 DEF n
  <2>3. QED
    BY <1>5, <2>2
<1>10. OneTurn'
  <2>1. \A i \in DOMAIN turns : turns[i].key # k
    BY <1>3 DEF Known, KeyTurns
  <2>2. \A i \in DOMAIN turns : turns'[i] = turns[i]
    BY <1>6, <1>7
  <2>3. SUFFICES ASSUME NEW i \in DOMAIN turns', NEW j \in DOMAIN turns',
                        turns'[i].key = turns'[j].key
                 PROVE  i = j
    BY DEF OneTurn
  <2>4. CASE i \in DOMAIN turns /\ j \in DOMAIN turns
    BY <2>2, <2>3, <2>4 DEF TurnInv, OneTurn
  <2>5. CASE ~(i \in DOMAIN turns /\ j \in DOMAIN turns)
    BY <1>4, <1>6, <1>8, <2>1, <2>2, <2>3, <2>5
  <2>6. QED
    BY <2>4, <2>5
<1>11. ToldTurns'
  <2>1. ASSUME NEW q \in Keys, NEW i \in told'[q]
        PROVE  i \in DOMAIN turns' /\ turns'[i].key = q
    <3>1. CASE i \in told[q]
      <4>1. i \in DOMAIN turns /\ turns[i].key = q
        BY <3>1 DEF TurnInv, ToldTurns, KeyTurns
      <4>2. QED
        BY <1>5, <1>6, <1>7, <4>1
    <3>2. CASE i \notin told[q]
      <4>1. q = k /\ i = Len(turns) + 1
        BY <1>1, <1>4, <1>5, <2>1, <3>2
      <4>2. QED
        BY <1>4, <1>5, <1>6, <1>7, <4>1
    <3>3. QED
      BY <3>1, <3>2
  <2>2. QED
    BY <2>1 DEF ToldTurns, KeyTurns
<1>12. QED
  BY <1>1, <1>3, <1>6, <1>9, <1>10, <1>11, Ends

LEMMA RoundsKeep ==
  ASSUME TypeOK, TurnInv, NEW r \in Requests, RoundStep(r)
  PROVE  TypeOK' /\ TurnInv'
<1>1. UNCHANGED roundRest
  BY DEF RoundStep, roundRest
<1>2. QED
  BY <1>1, Entering, Starting, Listing, Numbering, Writing, Accepting, Failing, Replaying,
     Reporting, Committing DEF RoundStep

(* Steps that are not of a round.                                          *)
LEMMA RoundsUntouched ==
  ASSUME TurnInv, UNCHANGED turnVars, writer' = writer
  PROVE  TurnInv'
<1>1. /\ turns' = turns /\ told' = told /\ lock' = lock /\ round' = round
  BY DEF turnVars
<1>2. OneTurn' /\ ToldTurns' /\ \A k : Known(k)' = Known(k)
  BY <1>1, SameTurns DEF TurnInv
<1>3. LocksOwned'
  BY <1>1 DEF TurnInv, LocksOwned, At, Send
<1>4. WritersHold'
  BY <1>1, <1>2 DEF TurnInv, WritersHold, Send
<1>5. QED
  BY <1>2, <1>3, <1>4 DEF TurnInv

LEMMA Restarting ==
  ASSUME TypeOK, TurnInv, Restart
  PROVE  TypeOK' /\ TurnInv'
<1>1. /\ round' = [r \in Requests |-> NoRound] /\ lock' = [k \in Keys |-> NoOne]
      /\ action' = [r \in Requests |-> NoAction] /\ writer' = NoOne
      /\ turns' = turns /\ told' = told
      /\ UNCHANGED <<activity, document, replaced, requested, results, incident>>
  BY DEF Restart
<1>2. OneTurn' /\ ToldTurns'
  BY <1>1, SameTurns DEF TurnInv
<1>3. TypeOK'
  BY <1>1 DEF TypeOK, RecoveryTypeOK, Rounds, Actions
<1>4. LocksOwned'
  BY <1>1 DEF LocksOwned
<1>5. WritersHold'
  BY <1>1 DEF WritersHold, NoRound
<1>6. QED
  BY <1>2, <1>3, <1>4, <1>5 DEF TurnInv

-----------------------------------------------------------------------------
(* The recovery centre.  Its steps touch nothing of the rounds.            *)
Open == {"asked", "dispatch", "write", "refused"}

LEMMA ActionFields ==
  ASSUME TypeOK, NEW r \in Requests
  PROVE  /\ action[r] = NoAction \/ action[r] \in [pc : Open, key : RecoveryKeys]
         /\ action[r] # NoAction => action[r].pc \in Open /\ action[r].key \in RecoveryKeys
         /\ action[r] = NoAction => action[r].pc = "idle"
  BY DEF TypeOK, RecoveryTypeOK, Actions, NoAction, Open

(* A command moves on, under way as before.                                *)
LEMMA Goes ==
  ASSUME TypeOK, NEW r \in Requests, action[r] # NoAction, NEW pc \in Open, Goto(r, pc)
  PROVE  /\ action' \in [Requests -> Actions]
         /\ action'[r].pc = pc /\ action'[r].key = action[r].key
         /\ \A q \in Requests \ {r} : action'[q] = action[q]
         /\ Underway' = Underway
<1> DEFINE d == [action[r] EXCEPT !.pc = pc]
<1>1. /\ d \in [pc : Open, key : RecoveryKeys] /\ d.pc = pc /\ d.key = action[r].key
      /\ d # NoAction
  <2>1. /\ d \in [pc : Open, key : RecoveryKeys] /\ d.pc = pc /\ d.key = action[r].key
    BY ActionFields
  <2>2. d # NoAction
    BY <2>1 DEF NoAction, Open
  <2>3. QED
    BY <2>1, <2>2
<1>2. action' = [action EXCEPT ![r] = d]
  BY DEF Goto
<1> HIDE DEF d
<1>3. /\ action' \in [Requests -> Actions] /\ action'[r] = d
      /\ \A q \in Requests \ {r} : action'[q] = action[q]
  BY <1>1, <1>2 DEF TypeOK, RecoveryTypeOK, Actions, Open
<1>4. Underway' = Underway
  BY <1>1, <1>3 DEF Underway
<1>5. QED
  BY <1>1, <1>3, <1>4

(* A command ends: one less is under way.                                  *)
LEMMA Rests ==
  ASSUME TypeOK, NEW r \in Requests, action[r] # NoAction, Rest(r)
  PROVE  /\ action' \in [Requests -> Actions]
         /\ action'[r] = NoAction /\ action'[r].pc = "idle"
         /\ \A q \in Requests \ {r} : action'[q] = action[q]
         /\ Cardinality(Underway) \in Nat
         /\ Cardinality(Underway') = Cardinality(Underway) - 1
<1>1. NoAction \in Actions /\ NoAction.pc = "idle"
  BY DEF Actions, NoAction
<1>2. /\ action' \in [Requests -> Actions] /\ action'[r] = NoAction
      /\ \A q \in Requests \ {r} : action'[q] = action[q]
  BY <1>1 DEF Rest, TypeOK, RecoveryTypeOK
<1>3. Underway' = Underway \ {r} /\ r \in Underway
  BY <1>2 DEF Underway
<1>4. IsFiniteSet(Underway) /\ Cardinality(Underway) \in Nat
  BY RequestsCounted DEF Underway
<1>5. Cardinality(Underway \ {r}) = Cardinality(Underway) - 1
  BY <1>3, <1>4, FS_RemoveElement
<1>6. QED
  BY <1>1, <1>2, <1>3, <1>4, <1>5

LEMMA Numbers ==
  ASSUME TypeOK, RecoveryInv
  PROVE  /\ RetryBudget \in Nat /\ RetryBudget > 0
         /\ Cardinality(Requests) \in Nat /\ Cardinality(Underway) \in Nat
         /\ IsFiniteSet(replaced) /\ Cardinality(replaced) \in Nat
         /\ Cardinality(replaced) + Cardinality(Underway) <= RetryBudget + Cardinality(Requests) - 1
<1>1. RetryBudget \in Nat /\ RetryBudget > 0
  BY RecoveryConstants
<1>2. Cardinality(Requests) \in Nat /\ Cardinality(Underway) \in Nat
  BY RequestsCounted DEF Underway
<1>3. IsFiniteSet(replaced) /\ Cardinality(replaced) \in Nat
  BY FS_CardinalityType DEF RecoveryInv, LetIn
<1>4. QED
  BY <1>1, <1>2, <1>3 DEF RecoveryInv, LetIn

LEMMA RecoveryUntouched ==
  ASSUME RecoveryInv, UNCHANGED <<replaced, requested, results, action>>
  PROVE  RecoveryInv'
<1>1. /\ replaced' = replaced /\ requested' = requested /\ results' = results /\ action' = action
  OBVIOUS
<1>2. Underway' = Underway
  BY <1>1 DEF Underway
<1>3. OnlyOnce' /\ TruthTold'
  BY <1>1 DEF RecoveryInv, OnlyOnce, TruthTold, Late
<1>4. LetIn'
  BY <1>1, <1>2 DEF RecoveryInv, LetIn
<1>5. QED
  BY <1>3, <1>4 DEF RecoveryInv

(* A command is let in below the budget.                                   *)
LEMMA Asking ==
  ASSUME TypeOK, RecoveryInv, NEW r \in Requests, NEW k \in RecoveryKeys, Ask(r, k)
  PROVE  action' \in [Requests -> Actions] /\ RecoveryInv'
<1> DEFINE d == [pc |-> "asked", key |-> k]
<1>1. d \in [pc : Open, key : RecoveryKeys] /\ d.pc = "asked" /\ d # NoAction
  BY DEF Open, NoAction
<1>2. /\ action[r] = NoAction /\ Cardinality(replaced) < RetryBudget
      /\ action' = [action EXCEPT ![r] = d]
      /\ replaced' = replaced /\ requested' = requested /\ results' = results
  BY DEF Ask, Offered
<1> HIDE DEF d
<1>3. /\ action' \in [Requests -> Actions] /\ action'[r] = d
      /\ \A q \in Requests \ {r} : action'[q] = action[q]
  BY <1>1, <1>2 DEF TypeOK, RecoveryTypeOK, Actions, Open
<1>4. \A q \in Requests : Late(q)' => q # r /\ Late(q)
  BY <1>1, <1>3 DEF Late
<1>5. OnlyOnce' /\ TruthTold'
  BY <1>2, <1>3, <1>4 DEF RecoveryInv, OnlyOnce, TruthTold, Late
<1>6. LetIn'
  <2>1. Underway' \in SUBSET Requests
    BY DEF Underway
  <2>2. Cardinality(Underway') \in Nat /\ Cardinality(Underway') <= Cardinality(Requests)
    BY <2>1, RequestsCounted
  <2>3. QED
    BY <1>2, <2>2, Numbers DEF LetIn
<1>7. QED
  BY <1>3, <1>5, <1>6 DEF RecoveryInv

(* The request is recorded: the first one of its key.                      *)
LEMMA Requesting ==
  ASSUME TypeOK, RecoveryInv, NEW r \in Requests, Request(r)
  PROVE  action' \in [Requests -> Actions] /\ requested' \subseteq RecoveryKeys /\ RecoveryInv'
<1> DEFINE k == action[r].key
<1>1. /\ action[r].pc = "asked" /\ action[r] # NoAction /\ k \in RecoveryKeys
      /\ k \notin requested /\ requested' = requested \cup {k} /\ Goto(r, "dispatch")
      /\ replaced' = replaced /\ results' = results /\ "dispatch" \in Open
  BY ActionFields DEF Request, Unrequested, Open
<1>2. /\ action' \in [Requests -> Actions] /\ action'[r].pc = "dispatch" /\ action'[r].key = k
      /\ \A q \in Requests \ {r} : action'[q] = action[q]
      /\ Underway' = Underway
  BY <1>1, Goes
<1> HIDE DEF k
<1>3. results[k] = {} /\ k \notin replaced
  BY <1>1 DEF RecoveryInv, OnlyOnce, TruthTold
<1>4. ASSUME NEW q \in Requests \ {r}
      PROVE  /\ action'[q] = action[q]
             /\ action'[q].pc \in {"dispatch", "write", "refused"} <=> Late(q)
             /\ Late(q) => action[q].key # k
  BY <1>1, <1>2 DEF Late, RecoveryInv, OnlyOnce
<1>5. OnlyOnce'
  <2>1. ASSUME NEW q \in Requests, Late(q)'
        PROVE  action'[q].key \in requested' \ replaced' /\ results'[action'[q].key] = {}
    <3>1. CASE q = r
      BY <1>1, <1>2, <1>3, <3>1
    <3>2. CASE q # r
      <4>1. Late(q) /\ action'[q].key = action[q].key
        BY <1>4, <2>1, <3>2 DEF Late
      <4>2. action[q].key \in requested \ replaced /\ results[action[q].key] = {}
        BY <4>1 DEF RecoveryInv, OnlyOnce
      <4>3. QED
        BY <1>1, <4>1, <4>2
    <3>3. QED
      BY <3>1, <3>2
  <2>2. \A p, q \in Requests : Late(p)' /\ Late(q)' /\ action'[p].key = action'[q].key => p = q
    BY <1>2, <1>4 DEF RecoveryInv, OnlyOnce, Late
  <2>3. QED
    BY <1>1, <2>1, <2>2 DEF RecoveryInv, OnlyOnce
<1>6. TruthTold' /\ LetIn'
  BY <1>1, <1>2 DEF RecoveryInv, TruthTold, LetIn
<1>7. QED
  BY <1>1, <1>2, <1>5, <1>6 DEF RecoveryInv, TypeOK, RecoveryTypeOK

(* The owner reads the task, the document and the file.                    *)
LEMMA Dispatching ==
  ASSUME TypeOK, RecoveryInv, NEW r \in Requests, Dispatch(r) \/ FileUnusable(r)
  PROVE  action' \in [Requests -> Actions] /\ RecoveryInv'
<1>1. PICK pc \in {"write", "refused"} : Goto(r, pc)
  BY DEF Dispatch, FileUnusable
<1>2. /\ action[r].pc \in {"dispatch", "write"} /\ action[r] # NoAction /\ pc \in Open
      /\ replaced' = replaced /\ results' = results /\ requested' = requested
  BY ActionFields DEF Dispatch, FileUnusable, Open
<1>3. /\ action' \in [Requests -> Actions] /\ action'[r].pc = pc
      /\ action'[r].key = action[r].key
      /\ \A q \in Requests \ {r} : action'[q] = action[q]
      /\ Underway' = Underway
  BY <1>1, <1>2, Goes
<1>4. ASSUME NEW q \in Requests
      PROVE  /\ action'[q].key = action[q].key
             /\ action'[q].pc \in {"dispatch", "write", "refused"} <=> Late(q)
  BY <1>1, <1>2, <1>3 DEF Late
<1>5. OnlyOnce'
  BY <1>2, <1>4 DEF RecoveryInv, OnlyOnce, Late
<1>6. TruthTold' /\ LetIn'
  BY <1>2, <1>3 DEF RecoveryInv, TruthTold, LetIn
<1>7. QED
  BY <1>3, <1>5, <1>6 DEF RecoveryInv

(* A command ends with a verdict on its key, true to whether a task was    *)
(* posted.                                                                 *)
LEMMA Concluding ==
  ASSUME TypeOK, RecoveryInv, NEW r \in Requests, Late(r), Rest(r), requested' = requested,
         \/ /\ replaced' = replaced \cup {action[r].key}
            /\ results' = [results EXCEPT ![action[r].key] = @ \cup {"succeeded"}]
         \/ /\ replaced' = replaced
            /\ results' = [results EXCEPT ![action[r].key] = @ \cup {"failed"}]
  PROVE  /\ action' \in [Requests -> Actions] /\ replaced' \subseteq RecoveryKeys
         /\ results' \in [RecoveryKeys -> SUBSET Verdicts] /\ RecoveryInv'
<1> DEFINE k == action[r].key
<1>1. action[r] # NoAction /\ k \in RecoveryKeys
  BY ActionFields DEF Late
<1>2. /\ k \in requested /\ k \notin replaced /\ results[k] = {}
      /\ \A q \in Requests \ {r} : Late(q) => action[q].key # k
  BY DEF RecoveryInv, OnlyOnce
<1>3. /\ action' \in [Requests -> Actions]
      /\ action'[r] = NoAction /\ action'[r].pc = "idle"
      /\ \A q \in Requests \ {r} : action'[q] = action[q]
      /\ Cardinality(Underway) \in Nat
      /\ Cardinality(Underway') = Cardinality(Underway) - 1
  BY <1>1, Rests
<1>4. \/ /\ replaced' = replaced \cup {k}
         /\ results' = [results EXCEPT ![k] = @ \cup {"succeeded"}]
      \/ /\ replaced' = replaced
         /\ results' = [results EXCEPT ![k] = @ \cup {"failed"}]
  OBVIOUS
<1> HIDE DEF k
<1>5. /\ replaced' \subseteq RecoveryKeys
      /\ results \in [RecoveryKeys -> SUBSET Verdicts]
      /\ results' \in [RecoveryKeys -> SUBSET Verdicts]
  BY <1>1, <1>4 DEF TypeOK, RecoveryTypeOK, Verdicts
<1>6. \A x \in RecoveryKeys \ {k} : results'[x] = results[x] /\ (x \in replaced' <=> x \in replaced)
  BY <1>4, <1>5
<1>7. \/ k \in replaced' /\ results'[k] = {"succeeded"}
      \/ k \notin replaced' /\ results'[k] = {"failed"}
  BY <1>1, <1>2, <1>4, <1>5
<1>8. ASSUME NEW q \in Requests, action'[q].pc \in {"dispatch", "write", "refused"}
      PROVE  /\ q # r /\ action'[q] = action[q] /\ Late(q) /\ action[q].key \in RecoveryKeys \ {k}
             /\ action[q].key \in requested \ replaced' /\ results'[action[q].key] = {}
  <2>1. q # r /\ action'[q] = action[q] /\ Late(q)
    BY <1>3, <1>8 DEF Late
  <2>2. action[q] # NoAction /\ action[q].key \in RecoveryKeys \ {k}
    BY <1>2, <2>1, ActionFields DEF Late
  <2>3. action[q].key \in requested \ replaced /\ results[action[q].key] = {}
    BY <2>1 DEF RecoveryInv, OnlyOnce
  <2>4. QED
    BY <1>6, <2>1, <2>2, <2>3
<1>9. OnlyOnce'
  <2>1. \A x \in RecoveryKeys : results'[x] # {} => x \in requested
    BY <1>2, <1>6 DEF RecoveryInv, OnlyOnce
  <2>2. ASSUME NEW p \in Requests, NEW q \in Requests,
               action'[p].pc \in {"dispatch", "write", "refused"},
               action'[q].pc \in {"dispatch", "write", "refused"},
               action'[p].key = action'[q].key
        PROVE  p = q
    BY <1>8, <2>2 DEF RecoveryInv, OnlyOnce
  <2>3. QED
    BY <1>8, <2>1, <2>2 DEF OnlyOnce, Late
<1>10. TruthTold'
  BY <1>6, <1>7 DEF RecoveryInv, TruthTold
<1>11. LetIn'
  <2>1. IsFiniteSet(replaced) /\ Cardinality(replaced) \in Nat
    BY Numbers
  <2>2. /\ IsFiniteSet(replaced \cup {k})
        /\ Cardinality(replaced \cup {k}) = Cardinality(replaced) + 1
    BY <1>2, <2>1, FS_AddElement
  <2>3. /\ IsFiniteSet(replaced') /\ Cardinality(replaced') \in Nat
        /\ Cardinality(replaced') <= Cardinality(replaced) + 1
    <3>1. CASE replaced' = replaced
      BY <2>1, <3>1
    <3>2. CASE replaced' = replaced \cup {k}
      BY <2>1, <2>2, <3>2
    <3>3. QED
      BY <1>4, <3>1, <3>2
  <2>4. QED
    BY <1>3, <2>3, Numbers DEF LetIn
<1>12. QED
  BY <1>3, <1>5, <1>9, <1>10, <1>11 DEF RecoveryInv

(* An error, or the end of the process, forgets commands and nothing else. *)
LEMMA Forgetting ==
  ASSUME TypeOK, RecoveryInv, UNCHANGED <<replaced, requested, results>>,
         action' \in [Requests -> Actions],
         \A r \in Requests : action'[r] = NoAction \/ action'[r] = action[r]
  PROVE  RecoveryInv'
<1>1. replaced' = replaced /\ requested' = requested /\ results' = results
  OBVIOUS
<1>2. ASSUME NEW q \in Requests, action'[q].pc \in {"dispatch", "write", "refused"}
      PROVE  action'[q] = action[q] /\ Late(q)
  BY <1>2 DEF Late, NoAction
<1>3. OnlyOnce' /\ TruthTold'
  BY <1>1, <1>2 DEF RecoveryInv, OnlyOnce, TruthTold, Late
<1>4. LetIn'
  <2>1. Underway' \subseteq Underway /\ Underway \in SUBSET Requests
    BY DEF Underway
  <2>2. IsFiniteSet(Underway) /\ Cardinality(Underway) \in Nat
    BY <2>1, RequestsCounted
  <2>3. Cardinality(Underway') \in Nat /\ Cardinality(Underway') <= Cardinality(Underway)
    BY <2>1, <2>2, FS_Subset, FS_CardinalityType
  <2>4. QED
    BY <1>1, <2>2, <2>3, Numbers DEF LetIn
<1>5. QED
  BY <1>3, <1>4 DEF RecoveryInv

LEMMA RecoveryKeeps ==
  ASSUME TypeOK, RecoveryInv, NEW r \in Requests, RecoveryStep(r)
  PROVE  RecoveryTypeOK' /\ RecoveryInv' /\ writer' = writer
<1>1. CASE \E k \in RecoveryKeys : Ask(r, k)
  <2>1. PICK k \in RecoveryKeys : Ask(r, k)
    BY <1>1
  <2>2. QED
    BY <2>1, Asking DEF Ask, TypeOK, RecoveryTypeOK
<1>2. CASE Request(r)
  BY <1>2, Requesting DEF Request, TypeOK, RecoveryTypeOK
<1>3. CASE Dispatch(r) \/ FileUnusable(r)
  BY <1>3, Dispatching DEF Dispatch, FileUnusable, TypeOK, RecoveryTypeOK
<1>4. CASE Replace(r)
  <2>1. /\ Late(r) /\ Rest(r) /\ requested' = requested /\ writer' = writer /\ incident' = incident
        /\ replaced' = replaced \cup {action[r].key}
        /\ results' = [results EXCEPT ![action[r].key] = @ \cup {"succeeded"}]
        /\ document' \in {document, "pending"}
    BY <1>4 DEF Replace, Replacing, Record, Late
  <2>2. QED
    BY <2>1, Concluding DEF TypeOK, RecoveryTypeOK
<1>5. CASE Refuse(r)
  <2>1. /\ Late(r) /\ Rest(r) /\ requested' = requested /\ writer' = writer /\ incident' = incident
        /\ replaced' = replaced /\ document' = document
        /\ results' = [results EXCEPT ![action[r].key] = @ \cup {"failed"}]
    BY <1>5 DEF Refuse, Record, Late
  <2>2. QED
    BY <2>1, Concluding DEF TypeOK, RecoveryTypeOK
<1>6. CASE GiveUp(r)
  <2>1. /\ action[r] # NoAction /\ Rest(r)
        /\ UNCHANGED <<writer, document, replaced, requested, results, incident>>
    BY <1>6 DEF GiveUp
  <2>2. /\ action' \in [Requests -> Actions]
        /\ \A q \in Requests : action'[q] = NoAction \/ action'[q] = action[q]
    BY <2>1, Rests
  <2>3. RecoveryInv'
    BY <2>1, <2>2, Forgetting
  <2>4. QED
    BY <2>1, <2>2, <2>3 DEF TypeOK, RecoveryTypeOK
<1>7. QED
  BY <1>1, <1>2, <1>3, <1>4, <1>5, <1>6 DEF RecoveryStep

-----------------------------------------------------------------------------
LEMMA InitHolds == Init => TTInv
<1> SUFFICES ASSUME Init PROVE TTInv
  OBVIOUS
<1>1. TypeOK
  <2>1. turns = <<>> /\ turns \in Seq(Turns)
    BY EmptySeq DEF Init
  <2>2. RecoveryTypeOK
    BY DEF Init, RecoveryInit, RecoveryTypeOK, Actions
  <2>3. /\ activity \in {"available", "active", "over"}
        /\ lock \in [Keys -> Requests \cup {NoOne}]
        /\ round \in [Requests -> Rounds]
        /\ told \in [Keys -> SUBSET Nat]
    BY DEF Init, Rounds
  <2>4. QED
    BY <2>1, <2>2, <2>3 DEF TypeOK
<1>2. TurnInv
  <2>1. LocksOwned
    BY DEF Init, RecoveryInit, LocksOwned
  <2>2. WritersHold
    BY DEF Init, WritersHold, NoRound
  <2>3. OneTurn /\ ToldTurns
    BY DEF Init, OneTurn, ToldTurns
  <2>4. QED
    BY <2>1, <2>2, <2>3 DEF TurnInv
<1>3. RecoveryInv
  <2>1. OnlyOnce /\ TruthTold
    BY DEF Init, RecoveryInit, OnlyOnce, TruthTold, Late, NoAction
  <2>2. replaced = {} /\ Underway = {}
    BY DEF Init, RecoveryInit, Underway
  <2>3. LetIn
    BY <2>2, FS_EmptySet, RequestsCounted, RecoveryConstants DEF LetIn
  <2>4. QED
    BY <2>1, <2>3 DEF RecoveryInv
<1>4. QED
  BY <1>1, <1>2, <1>3 DEF TTInv

LEMMA StepHolds == TTInv /\ [Next]_vars => TTInv'
<1> SUFFICES ASSUME TTInv, [Next]_vars PROVE TTInv'
  OBVIOUS
<1> USE DEF TTInv
<1>1. ASSUME NEW r \in Requests, NewRound(r)
      PROVE  TTInv'
  <2>1. PICK s \in Sends : Begin(r, s)
    BY <1>1 DEF NewRound
  <2>2. UNCHANGED roundRest
    BY <1>1 DEF NewRound, roundRest
  <2>3. RecoveryInv'
    BY <2>2, RecoveryUntouched DEF roundRest
  <2>4. QED
    BY <2>1, <2>2, <2>3, Beginning
<1>2. ASSUME NEW r \in Requests, RoundStep(r)
      PROVE  TTInv'
  <2>1. RecoveryInv'
    BY <1>2, RecoveryUntouched DEF RoundStep
  <2>2. QED
    BY <1>2, <2>1, RoundsKeep
<1>3. ASSUME NEW r \in Requests, Recover(r)
      PROVE  TTInv'
  <2>1. RecoveryStep(r) /\ UNCHANGED turnVars
    BY <1>3 DEF Recover
  <2>2. RecoveryTypeOK' /\ RecoveryInv' /\ writer' = writer
    BY <2>1, RecoveryKeeps
  <2>3. TurnInv'
    BY <2>1, <2>2, RoundsUntouched
  <2>4. TypeOK'
    BY <2>1, <2>2 DEF TypeOK, turnVars
  <2>5. QED
    BY <2>2, <2>3, <2>4
<1>4. CASE Processed /\ UNCHANGED turnVars
  <2>1. RecoveryInv'
    BY <1>4, RecoveryUntouched DEF Processed
  <2>2. TurnInv'
    BY <1>4, RoundsUntouched DEF Processed
  <2>3. TypeOK'
    BY <1>4 DEF Processed, TypeOK, RecoveryTypeOK, turnVars
  <2>4. QED
    BY <2>1, <2>2, <2>3
<1>5. CASE EndActivity
  <2>1. /\ activity' = "over" /\ UNCHANGED recoveryVars
        /\ turns' = turns /\ told' = told /\ lock' = lock /\ round' = round
        /\ writer' = writer
    BY <1>5 DEF EndActivity, recoveryVars
  <2>2. RecoveryInv'
    BY <2>1, RecoveryUntouched DEF recoveryVars
  <2>3. TurnInv'
    <3>1. OneTurn' /\ ToldTurns' /\ \A k : Known(k)' = Known(k)
      BY <2>1, SameTurns DEF TurnInv
    <3>2. LocksOwned'
      BY <2>1 DEF TurnInv, LocksOwned, At, Send
    <3>3. WritersHold'
      BY <2>1, <3>1 DEF TurnInv, WritersHold, Send
    <3>4. QED
      BY <3>1, <3>2, <3>3 DEF TurnInv
  <2>4. TypeOK'
    BY <2>1 DEF TypeOK, RecoveryTypeOK, recoveryVars
  <2>5. QED
    BY <2>2, <2>3, <2>4
<1>6. CASE Restart
  <2>1. action' \in [Requests -> Actions] /\ \A r \in Requests : action'[r] = NoAction
    BY <1>6 DEF Restart, Actions
  <2>2. UNCHANGED <<replaced, requested, results>>
    BY <1>6 DEF Restart
  <2>3. RecoveryInv'
    BY <2>1, <2>2, Forgetting
  <2>4. QED
    BY <1>6, <2>3, Restarting
<1>7. CASE UNCHANGED vars
  <2>1. UNCHANGED recoveryVars /\ UNCHANGED turnVars
    BY <1>7 DEF vars
  <2>2. RecoveryInv'
    BY <2>1, RecoveryUntouched DEF recoveryVars
  <2>3. TurnInv'
    BY <2>1, RoundsUntouched DEF recoveryVars
  <2>4. TypeOK'
    BY <2>1 DEF TypeOK, RecoveryTypeOK, recoveryVars, turnVars
  <2>5. QED
    BY <2>2, <2>3, <2>4
<1>8. QED
  BY <1>1, <1>2, <1>3, <1>4, <1>5, <1>6, <1>7 DEF Next

LEMMA Inductive == Spec => []TTInv
<1>1. QED
  BY InitHolds, StepHolds, PTL DEF Spec

-----------------------------------------------------------------------------
(* Rounds, locks, turns and recovery commands keep their types.            *)
THEOREM TurnTypes == Spec => []TypeOK
<1>1. TTInv => TypeOK
  BY DEF TTInv
<1>2. QED
  BY <1>1, Inductive, PTL

(* A key has one turn at most, and the answers given for it are that turn, *)
(* however many requests race with it, give up its lock early or are cut   *)
(* off by a restart (LCMS-054).                                            *)
THEOREM KeysAnswerOnce == Spec => []AnswersStand
<1>1. ASSUME TTInv PROVE AnswersStand
  <2>1. SUFFICES ASSUME NEW k \in Keys PROVE Cardinality(KeyTurns(k)) <= 1
    BY <1>1 DEF AnswersStand, TTInv, TurnInv, ToldTurns
  <2>2. CASE KeyTurns(k) = {}
    BY <2>2, FS_EmptySet
  <2>3. CASE KeyTurns(k) # {}
    <3>1. PICK i : i \in KeyTurns(k)
      BY <2>3
    <3>2. KeyTurns(k) = {i}
      BY <1>1, <3>1 DEF KeyTurns, TTInv, TurnInv, OneTurn
    <3>3. QED
      BY <3>2, FS_Singleton
  <2>4. QED
    BY <2>2, <2>3
<1>2. QED
  BY <1>1, Inductive, PTL

(* No key and no write lock outlives the round that took it.               *)
THEOREM LocksAreFreed == Spec => []LocksOwned
<1>1. TTInv => LocksOwned
  BY DEF TTInv, TurnInv
<1>2. QED
  BY <1>1, Inductive, PTL

(* The result of a recovery key says whether a replacement task was posted *)
(* under it, and there is one (RECOVERY-AC-003).                           *)
THEOREM ResultsAreTrue == Spec => []ResultTellsTruth
<1>1. ASSUME TTInv PROVE ResultTellsTruth
  <2>1. SUFFICES ASSUME NEW k \in RecoveryKeys
                 PROVE  /\ Cardinality(results[k]) <= 1
                        /\ "succeeded" \in results[k] <=> k \in replaced
    BY DEF ResultTellsTruth
  <2>2. results[k] \in {{}, {"succeeded"}, {"failed"}}
        /\ ("succeeded" \in results[k] <=> k \in replaced)
    BY <1>1 DEF TTInv, RecoveryInv, TruthTold
  <2>3. /\ Cardinality({}) = 0
        /\ Cardinality({"succeeded"}) = 1 /\ Cardinality({"failed"}) = 1
    BY FS_EmptySet, FS_Singleton
  <2>4. Cardinality(results[k]) \in {0, 1}
    BY <2>2, <2>3
  <2>5. QED
    BY <2>2, <2>4
<1>2. QED
  BY <1>1, Inductive, PTL

(* Concurrent retries exceed the budget by less than their number.         *)
THEOREM BudgetNearlyKept == Spec => []BudgetOverrun
<1>1. TTInv => BudgetOverrun
  BY Numbers DEF TTInv, BudgetOverrun
<1>2. QED
  BY <1>1, Inductive, PTL
=============================================================================
