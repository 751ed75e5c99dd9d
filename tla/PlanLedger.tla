----------------------------- MODULE PlanLedger -----------------------------
(***************************************************************************)
(* What executing a plan promises, without saying how: every step settles  *)
(* once, with a result or an error, and only after the steps it depends    *)
(* on.  An entry of the ledger is what execute_plan_streaming hands to its *)
(* durability hook and leaves on the blackboard for dependents.            *)
(***************************************************************************)

CONSTANT Step

VARIABLES
  deps,     \* the steps each step depends on, declared or by reference
  outcome   \* how each step settled, "none" until it does

Dependencies == [Step -> SUBSET Step]

Outcome == {"none", "ok", "error"}

Init ==
  /\ deps \in Dependencies
  /\ outcome = [s \in Step |-> "none"]

Settle(s) ==
  /\ outcome[s] = "none"
  /\ \A d \in deps[s] : outcome[d] # "none"
  /\ \E o \in {"ok", "error"} : outcome' = [outcome EXCEPT ![s] = o]
  /\ UNCHANGED deps

Next == \E s \in Step : Settle(s)

Spec == Init /\ [][Next]_<<deps, outcome>>
=============================================================================
