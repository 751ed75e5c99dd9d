----------------------------- MODULE ScopedWork -----------------------------
(***************************************************************************)
(* What is promised of the work done for a message, whatever models write: *)
(* a bounded number of plans, each of a bounded number of tools, all of    *)
(* them among the tools the message admits.                                *)
(***************************************************************************)
EXTENDS Naturals, FiniteSets

CONSTANTS
  Tool,      \* names of tools
  MaxPlans,  \* plans carried out for one message
  MaxTools   \* tools invoked by one plan

VARIABLES
  open,     \* a message is being worked on
  allowed,  \* the tools it admits
  plans,    \* plans carried out for it
  done      \* tools invoked for it

vars == <<open, allowed, plans, done>>

Init ==
  /\ open = FALSE
  /\ allowed = {}
  /\ plans = 0
  /\ done = {}

Accept(admitted) ==
  /\ ~open
  /\ open' = TRUE
  /\ allowed' = admitted
  /\ UNCHANGED <<plans, done>>

CarryOut(used) ==
  /\ open
  /\ plans < MaxPlans
  /\ used # {}
  /\ used \subseteq allowed
  /\ Cardinality(used) <= MaxTools
  /\ plans' = plans + 1
  /\ done' = done \cup used
  /\ UNCHANGED <<open, allowed>>

Close ==
  /\ open
  /\ open' = FALSE
  /\ allowed' = {}
  /\ plans' = 0
  /\ done' = {}

Next ==
  \/ \E admitted \in SUBSET Tool : Accept(admitted)
  \/ \E used \in SUBSET Tool : CarryOut(used)
  \/ Close

Spec == Init /\ [][Next]_vars
=============================================================================
