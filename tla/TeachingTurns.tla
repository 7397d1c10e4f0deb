---------------------------- MODULE TeachingTurns ----------------------------
(***************************************************************************)
(* The teaching rounds of one activity: the transcript they append to, the *)
(* lock of an idempotency key, the call of the model inside the database   *)
(* transaction, and the incident a failed call opens (RecoveryCentre).     *)
(*                                                                         *)
(* Reads commit nothing and see what others have committed meanwhile; from *)
(* its first write to its commit, across the model's answer, a round holds *)
(* SQLite's write lock.  The key's lock is released before that commit.    *)
(***************************************************************************)
EXTENDS RecoveryCentre, Sequences

CONSTANTS
    Sends  \* rounds a client may ask for: key, kind and turn_id (for the text)

Kinds == {"system_start", "learner", "follow_up"}
ASSUME SendConstants ==
    /\ IsFiniteSet(Sends)
    /\ \A s \in Sends : s.kind \in Kinds /\ DOMAIN s = {"key", "kind", "turn"}

Keys == {s.key : s \in Sends}

VARIABLES
    activity, \* latest state of the activity: "available", "active", "over"
    turns,    \* book_learning_transcript_turns; turn_number is the index
    lock,     \* _BOOK_TURN_LOCKS
    round,    \* rounds between their steps
    told      \* history: the turns a key was answered with

turnVars == <<activity, turns, lock, round, told>>
vars     == <<recoveryVars, turnVars>>

NoRound == [pc |-> "idle"]
Steps   == {"queued", "start", "find", "number", "write", "model", "commit", "report"}
Rounds  == {NoRound} \cup [pc : Steps, send : Sends, seen : Nat, num : Nat]
Turns   == [key : Keys, kind : Kinds, turn : {s.turn : s \in Sends}, from : Nat]

Send(r)      == round[r].send
KeyTurns(k)  == {i \in DOMAIN turns : turns[i].key = k}
Known(k)     == KeyTurns(k) # {}

Init ==
    /\ RecoveryInit
    /\ activity = "available"
    /\ turns    = <<>>
    /\ lock     = [k \in Keys |-> NoOne]
    /\ round    = [r \in Requests |-> NoRound]
    /\ told     = [k \in Keys |-> {}]

-----------------------------------------------------------------------------
At(r, pc)   == round[r].pc = pc
Step(r, pc) == round' = [round EXCEPT ![r].pc = pc]
Unlocked(r) == [k \in Keys |-> IF lock[k] = r THEN NoOne ELSE lock[k]]

(* A round ends: async with releases the key, the session what it wrote.   *)
BadLeave(r) ==   \* an error path that keeps the key
    /\ round' = [round EXCEPT ![r] = NoRound]
    /\ writer' = IF writer = r THEN NoOne ELSE writer
    /\ lock' = lock
Leave(r) ==
    /\ round' = [round EXCEPT ![r] = NoRound]
    /\ writer' = IF writer = r THEN NoOne ELSE writer
    /\ lock' = Unlocked(r)

(* The request arrives.  A follow-up is asked of the latest message, or    *)
(* repeats one that was accepted (invoke_message_interaction).             *)
Begin(r, s) ==
    /\ round[r] = NoRound
    /\ s.kind = "follow_up" => turns # <<>>
    /\ round' = [round EXCEPT ![r] = [pc |-> "queued", send |-> s, seen |-> 0, num |-> 0]]
    /\ UNCHANGED <<writer, activity, turns, lock, told, incident>>

(* The key's lock, and the reads of _require_selected_activity.            *)
Enter(r) ==
    /\ At(r, "queued") /\ lock[Send(r).key] = NoOne
    /\ activity # "over"
    /\ lock' = [lock EXCEPT ![Send(r).key] = r]
    /\ Step(r, IF activity = "available" THEN "start" ELSE "find")
    /\ UNCHANGED <<writer, activity, turns, told, incident>>

(* An available activity is started: its state is committed, then the      *)
(* receipt opens the transaction that the round's end will close.          *)
StartActivity(r) ==
    /\ At(r, "start") /\ writer = NoOne /\ activity = "available"
    /\ activity' = "active"
    /\ writer' = r
    /\ Step(r, "find")
    /\ UNCHANGED <<turns, lock, told, incident>>

Same(s, t) == s.kind = t.kind /\ s.turn = t.turn

(* get_by_idempotency: a known key is answered with its turn, or refused   *)
(* when it comes with another content.                                     *)
BadReplay(r) ==   \* answers with the latest turn
    /\ At(r, "find") /\ Known(Send(r).key)
    /\ told' = [told EXCEPT ![Send(r).key] = @ \cup {Len(turns)}]
    /\ Leave(r)
    /\ UNCHANGED <<activity, turns, incident>>
Replay(r) ==
    /\ At(r, "find") /\ Known(Send(r).key)
    /\ told' = [told EXCEPT ![Send(r).key] =
                  @ \cup {i \in KeyTurns(Send(r).key) : Same(Send(r), turns[i])}]
    /\ Leave(r)
    /\ UNCHANGED <<activity, turns, incident>>

(* A new key: list_for_activity, whose last turn is the one the decision   *)
(* follows; its action and trace were committed with it.                   *)
List(r) ==
    /\ At(r, "find") /\ ~Known(Send(r).key)
    /\ Send(r).kind = "system_start" => turns = <<>>
    /\ round' = [round EXCEPT ![r].pc = "number", ![r].seen = Len(turns)]
    /\ UNCHANGED <<writer, activity, turns, lock, told, incident>>

(* next_turn_number: a second read.                                        *)
Number(r) ==
    /\ At(r, "number")
    /\ round' = [round EXCEPT ![r].pc = "write", ![r].num = Len(turns) + 1]
    /\ UNCHANGED <<writer, activity, turns, lock, told, incident>>

(* publish_policy_bundle and save_context: the context's id comes from the *)
(* key, and another one is there if a turn of that key is.                 *)
Fresh(k) == ~Known(k)
Write(r) ==
    /\ At(r, "write") /\ writer \in {NoOne, r}
    /\ Fresh(Send(r).key)
    /\ writer' = r
    /\ Step(r, "model")
    /\ UNCHANGED <<activity, turns, lock, told, incident>>

(* The model has answered: action, trace, events and the turn are written, *)
(* whose number, turn_id and key nobody has; the key's lock is released.   *)
Accept(r) ==
    /\ At(r, "model")
    /\ round[r].num = Len(turns) + 1
    /\ \A i \in DOMAIN turns : turns[i].turn # Send(r).turn
    /\ Fresh(Send(r).key)
    /\ Step(r, "commit")
    /\ lock' = Unlocked(r)
    /\ UNCHANGED <<writer, activity, turns, told, incident>>

(* The route's commit; start_teaching_round also resolves the incident.    *)
Commit(r) ==
    LET s == Send(r) IN
    /\ At(r, "commit")
    /\ turns' = Append(turns, [key |-> s.key, kind |-> s.kind, turn |-> s.turn,
                               from |-> round[r].seen])
    /\ told' = [told EXCEPT ![s.key] = @ \cup {Len(turns) + 1}]
    /\ IF s.kind = "follow_up" THEN UNCHANGED incident ELSE ResolveModelIssue
    /\ Leave(r)
    /\ UNCHANGED activity

(* ModelRenderingError: all is rolled back but the start of the activity;  *)
(* start_teaching_round then records the incident in a new transaction.    *)
ModelFails(r) ==
    /\ At(r, "model") /\ Send(r).kind # "follow_up"
    /\ Step(r, "report")
    /\ writer' = NoOne
    /\ lock' = Unlocked(r)
    /\ UNCHANGED <<activity, turns, told, incident>>

Report(r) ==
    /\ At(r, "report")
    /\ RecordModelFailure
    /\ Leave(r)
    /\ UNCHANGED <<activity, turns, told>>

(* Refused, in conflict, not ready to learn, out of time for the write     *)
(* lock: the round ends and leaves nothing.                                *)
Fail(r) ==
    /\ round[r] # NoRound
    /\ Leave(r)
    /\ UNCHANGED <<activity, turns, told, incident>>

(* The activity is completed, or its plan or goal ended (Goals).           *)
EndActivity ==
    /\ activity = "active" /\ writer = NoOne
    /\ activity' = "over"
    /\ UNCHANGED <<recoveryVars, turns, lock, round, told>>

(* The process ends and is started again.                                  *)
Restart ==
    /\ round' = [r \in Requests |-> NoRound]
    /\ action' = [r \in Requests |-> NoAction]
    /\ lock' = [k \in Keys |-> NoOne]
    /\ writer' = NoOne
    /\ UNCHANGED <<activity, turns, told, document, replaced, requested, results, incident>>

RoundStep(r) ==
    /\ \/ Enter(r) \/ StartActivity(r) \/ Replay(r) \/ List(r) \/ Number(r)
       \/ Write(r) \/ Accept(r) \/ Commit(r) \/ ModelFails(r) \/ Report(r) \/ Fail(r)
    /\ UNCHANGED <<document, replaced, requested, results, action>>
NewRound(r) ==
    /\ action[r] = NoAction
    /\ \E s \in Sends : Begin(r, s)
    /\ UNCHANGED <<document, replaced, requested, results, action>>
Recover(r) == round[r] = NoRound /\ RecoveryStep(r) /\ UNCHANGED turnVars

Next ==
    \/ \E r \in Requests : NewRound(r) \/ RoundStep(r) \/ Recover(r)
    \/ Processed /\ UNCHANGED turnVars
    \/ EndActivity \/ Restart

Spec == Init /\ [][Next]_vars

-----------------------------------------------------------------------------
TypeOK ==
    /\ RecoveryTypeOK
    /\ activity \in {"available", "active", "over"}
    /\ turns \in Seq(Turns)
    /\ lock \in [Keys -> Requests \cup {NoOne}]
    /\ round \in [Requests -> Rounds]
    /\ told \in [Keys -> SUBSET Nat]

(* LCMS-054, "duplicate idempotency key returns original receipt/result,   *)
(* not a second side effect": a key has one turn at most, though its lock  *)
(* is given up before the commit and lost in a restart; and whoever got an *)
(* answer for the key got that turn, which stays.                          *)
AnswersStand == \A k \in Keys :
    /\ Cardinality(KeyTurns(k)) <= 1
    /\ told[k] \subseteq KeyTurns(k)

(* Nothing is held for good: a key's lock belongs to a round of that key,  *)
(* the write lock to a round that will commit or roll back, whatever was   *)
(* replayed, refused, failed or restarted.                                 *)
LocksOwned ==
    /\ \A k \in Keys : lock[k] # NoOne =>
          /\ \E pc \in {"start", "find", "number", "write", "model"} : At(lock[k], pc)
          /\ Send(lock[k]).key = k
    /\ writer # NoOne => \E pc \in {"find", "number", "write", "model", "commit"} : At(writer, pc)

(* "A canonical previous TeachingAction already exists; the exact          *)
(* DecisionTrace is REQUIRED for a sequential decision ... never silently  *)
(* downgrade to a first-turn bootstrap kernel": every turn but the first   *)
(* is decided from a turn before it.  The list and the number of the next  *)
(* turn are two reads, and a round may commit between them.                *)
SequentialDecision == \A n \in DOMAIN turns : n > 1 => turns[n].from # 0
=============================================================================
