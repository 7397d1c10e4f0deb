----------------------------- MODULE TaskLedger -----------------------------
(***************************************************************************)
(* What the durable outbox promises to the code that posts work to it: a   *)
(* posted task stays open until it is closed, it is closed once, it is     *)
(* closed as completed only after its handler has succeeded at least once, *)
(* and no handler takes effect for a task that has been closed.  How       *)
(* claims, retries, leases and recovery achieve that is Outbox.            *)
(***************************************************************************)
EXTENDS Naturals

CONSTANT Keys       \* idempotency keys of the tasks

VARIABLES verdict,  \* verdict[k]: "absent", "open", "completed", "dead_letter"
          effects   \* effects[k]: how often a handler has succeeded for k

ledgerVars == <<verdict, effects>>

LedgerInit == /\ verdict = [k \in Keys |-> "absent"]
              /\ effects = [k \in Keys |-> 0]

(* A task enters the ledger once, whatever becomes of it. *)
Post(k) == /\ verdict[k] = "absent"
           /\ verdict' = [verdict EXCEPT ![k] = "open"]
           /\ UNCHANGED effects

(* A handler succeeds; delivery is at least once, so it may happen again. *)
TakeEffect(k) == /\ verdict[k] = "open"
                 /\ effects' = [effects EXCEPT ![k] = @ + 1]
                 /\ UNCHANGED verdict

Complete(k) == /\ verdict[k] = "open"
               /\ effects[k] > 0
               /\ verdict' = [verdict EXCEPT ![k] = "completed"]
               /\ UNCHANGED effects

GiveUp(k) == /\ verdict[k] = "open"
             /\ verdict' = [verdict EXCEPT ![k] = "dead_letter"]
             /\ UNCHANGED effects

LedgerNext == \E k \in Keys : Post(k) \/ TakeEffect(k) \/ Complete(k) \/ GiveUp(k)

LedgerSpec == LedgerInit /\ [][LedgerNext]_ledgerVars
=============================================================================
