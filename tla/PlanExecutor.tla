---------------------------- MODULE PlanExecutor ----------------------------
(***************************************************************************)
(* execute_plan_streaming (node/src/planner/plan.rs): one plan, run with   *)
(* as much parallelism as its dependency graph allows.                     *)
(*                                                                         *)
(* All futures of a plan live in one FuturesUnordered polled by one task,  *)
(* so a completion is drained in the step in which its future becomes      *)
(* ready: the blackboard is written, the hook is called and the freed      *)
(* dependents are scheduled, with their arguments resolved against that    *)
(* blackboard, before any other future moves.  Which future is ready next  *)
(* is up to the network.                                                   *)
(***************************************************************************)
EXTENDS Naturals, FiniteSets

CONSTANTS
  Step,           \* the ids of the plan's steps
  Untimed,        \* those bound to a local MCP server, see Fairness
  MaxConcurrent   \* MAX_CONCURRENT_STEPS (4 in the code)

ASSUME StepAssumption == IsFiniteSet(Step) /\ Untimed \subseteq Step

ASSUME MaxConcurrentAssumption == MaxConcurrent \in Nat \ {0}

VARIABLES
  deps,       \* depends_on and the ids referenced by the arguments
  fieldRefs,  \* those referenced as ${id.field}, which an error lacks
  indeg,      \* indeg: dependencies of a step not yet settled
  stage,      \* where the step's future is
  outcome,    \* blackboard and trace: how the step settled
  started,    \* steps whose StepStart was sent
  returned    \* the executor has returned its PlanRun

vars == <<deps, fieldRefs, indeg, stage, outcome, started, returned>>

plan == <<deps, fieldRefs>>

(* A step waits for its dependencies; then its future either waits for a   *)
(* permit and runs, or is one that fails at once without taking a permit.  *)
Stage == {"waiting", "failing", "queued", "running", "done"}

(* The topological order of the steps is complete: among any steps, one    *)
(* depends on none of the others.                                          *)
Acyclic(g) ==
  \A T \in SUBSET Step : T # {} => \E s \in T : g[s] \cap T = {}

(* The graphs validate_plan accepts: a reference to a step's own output is *)
(* refused, a declared dependency of a step on itself is ignored.          *)
Plans ==
  {g \in [Step -> SUBSET Step] : Acyclic(g)}

(* collect_refs: the step of every reference in the arguments, whatever    *)
(* field it names, is a dependency.                                        *)
References(g) ==
  {refs \in [Step -> SUBSET Step] : \A s \in Step : refs[s] \subseteq g[s]}

-----------------------------------------------------------------------------
(* Scheduling a step: spawn_step *)

(* Mutant: the blackboard entry of a failed step resolves any field. *)
ResolvesAny(d, out) == out[d] # "none"

(* lookup_path: a field of step d is found in the result d left on the     *)
(* blackboard, not in the error of a failed step.                          *)
Resolves(d, out) == out[d] = "ok"

(* A reference that does not resolve is left in the arguments as it was    *)
(* written, where it is found and fails the step before it is invoked.     *)
Unresolved(s, out) == \E d \in fieldRefs[s] : ~Resolves(d, out)

(* Steps that settle without being invoked, of those scheduled: the ones   *)
(* with an unresolved reference, and any whose arguments, once resolved,   *)
(* do not conform to the capability's schema.  A step without dependencies *)
(* was fully checked by validate_plan.                                     *)
FailFast(scheduled, out) ==
  {F \in SUBSET scheduled :
     /\ \A s \in scheduled : Unresolved(s, out) => s \in F
     /\ \A s \in F : deps[s] # {}}

Schedule(stages, scheduled, failing) ==
  [s \in Step |-> IF s \in failing THEN "failing"
                  ELSE IF s \in scheduled THEN "queued"
                  ELSE stages[s]]

(* Mutant: inferred dependencies are not counted. *)
IndegreesDeclared(g) == [s \in Step |-> Cardinality(g[s] \ fieldRefs[s])]

(* Initial indegrees count declared and inferred dependencies once each. *)
Indegrees(g) == [s \in Step |-> Cardinality(g[s])]

Init ==
  /\ deps \in Plans
  /\ fieldRefs \in References(deps)
  /\ indeg = Indegrees(deps)
  /\ outcome = [s \in Step |-> "none"]
  /\ stage = Schedule([s \in Step |-> "waiting"],
                      {s \in Step : indeg[s] = 0}, {})
  /\ started = {}
  /\ returned = FALSE

-----------------------------------------------------------------------------
(* Draining a completion *)

Dependents(s) == {t \in Step : s \in deps[t]}

(* Mutant: an edge listed twice is released twice. *)
DecrementTwice(n) == IF n = 0 THEN 0 ELSE n - 2

(* saturating_sub *)
Decrement(n) == IF n = 0 THEN 0 ELSE n - 1

(* Mutant: only a success frees the dependents. *)
ReleaseOnSuccess(s, o) ==
  [t \in Step |-> IF o = "ok" /\ t \in Dependents(s) THEN Decrement(indeg[t])
                 ELSE indeg[t]]

(* The indegrees once s has settled, whether or not it succeeded. *)
Release(s, o) ==
  [t \in Step |-> IF t \in Dependents(s) THEN Decrement(indeg[t]) ELSE indeg[t]]

(* Record how s settled, then schedule the dependents it was the last to   *)
(* hold back.                                                              *)
Drain(s, o) ==
  LET freed == {t \in Dependents(s) : Release(s, o)[t] = 0} IN
  /\ outcome' = [outcome EXCEPT ![s] = o]
  /\ indeg' = Release(s, o)
  /\ \E failing \in FailFast(freed, outcome') :
       stage' = Schedule([stage EXCEPT ![s] = "done"], freed, failing)

Running == {s \in Step : stage[s] = "running"}

(* Mutant: a permit is not given back. *)
StartLeaking(s) ==
  /\ stage[s] = "queued"
  /\ Cardinality(started) < MaxConcurrent
  /\ stage' = [stage EXCEPT ![s] = "running"]
  /\ started' = started \cup {s}
  /\ UNCHANGED <<plan, indeg, outcome, returned>>

(* The future gets one of the semaphore's permits and reports StepStart. *)
Start(s) ==
  /\ stage[s] = "queued"
  /\ Cardinality(Running) < MaxConcurrent
  /\ stage' = [stage EXCEPT ![s] = "running"]
  /\ started' = started \cup {s}
  /\ UNCHANGED <<plan, indeg, outcome, returned>>

(* A local binding or backend, or a peer, answers; or it fails, times out, *)
(* or a blob of the arguments or of the result cannot be moved.            *)
Complete(s) ==
  /\ stage[s] = "running"
  /\ \E o \in {"ok", "error"} : Drain(s, o)
  /\ UNCHANGED <<plan, started, returned>>

(* The instantly ready future of a step that was never invoked. *)
CompleteFailed(s) ==
  /\ stage[s] = "failing"
  /\ Drain(s, "error")
  /\ UNCHANGED <<plan, started, returned>>

(* in_flight is empty: the loop ends and the run is returned. *)
Return ==
  /\ ~returned
  /\ \A s \in Step : stage[s] \in {"waiting", "done"}
  /\ returned' = TRUE
  /\ UNCHANGED <<plan, indeg, stage, outcome, started>>

Next ==
  \/ \E s \in Step : Start(s) \/ Complete(s) \/ CompleteFailed(s)
  \/ Return

(* The runtime polls a future that can move: permits are handed out first  *)
(* come, first served, and an invocation ends by an answer or by the       *)
(* timeout of its HTTP request, whether of a peer, an HTTP binding or a    *)
(* model server.  One of an MCP server does not have to: its reply is read *)
(* from the child's output without a timeout, under the session's lock,    *)
(* for which the other steps of that server wait as long.                  *)
Fairness ==
  /\ \A s \in Step : WF_vars(Start(s)) /\ WF_vars(CompleteFailed(s))
  /\ \A s \in Step \ Untimed : WF_vars(Complete(s))
  /\ WF_vars(Return)

Spec == Init /\ [][Next]_vars

FairSpec == Spec /\ Fairness

-----------------------------------------------------------------------------
(* Properties *)

(* The type of the state. *)
TypeOK ==
  /\ deps \in Plans
  /\ fieldRefs \in [Step -> SUBSET Step]
  /\ indeg \in [Step -> Nat]
  /\ stage \in [Step -> Stage]
  /\ outcome \in [Step -> {"none", "ok", "error"}]
  /\ started \subseteq Step
  /\ returned \in BOOLEAN

(* A step is scheduled exactly when the last of its dependencies settles:  *)
(* never before, so that its arguments resolve against their final values, *)
(* and never left behind, whatever the dependencies' outcomes.             *)
ScheduledWhenReady ==
  \A s \in Step :
    stage[s] = "waiting" <=> \E d \in deps[s] : outcome[d] = "none"

(* No capability is invoked with a reference to a field of a failed step   *)
(* still unresolved in its arguments.                                      *)
NoUnresolvedInvocation ==
  \A s \in started, d \in Step : d \in fieldRefs[s] => outcome[d] = "ok"

(* The run returned covers the whole plan: the loop never ends with a step *)
(* that was neither run nor failed.                                        *)
NothingLeftBehind == returned => \A s \in Step : outcome[s] # "none"

(* Invocations that have no timeout and have not returned. *)
Hanging == Running \cap Untimed

(* The steps that depend on one of H, directly or through others. *)
Behind(H) ==
  {s \in Step \ H :
     \A T \in SUBSET Step :
       H \subseteq T /\ (\A t \in Step : deps[t] \cap T # {} => t \in T) => s \in T}

(* An invocation that hangs holds up itself and what depends on it; with   *)
(* every permit taken by one that hangs, the steps in the queue as well.   *)
HeldUp ==
  IF Cardinality(Hanging) = MaxConcurrent THEN Step
  ELSE Hanging \cup Behind(Hanging)

(* A plan is run to its end, whichever steps fail, unless invocations hang *)
(* that have no timeout; and then everything else is: permits, failures    *)
(* and the order of completions hold up no step that does not wait for a   *)
(* hanging one (execute_plan_streaming has no timeout of its own).         *)
EndsOrHangs ==
  <>(\/ returned
     \/ [](Hanging # {} /\ \A s \in Step : outcome[s] = "none" => s \in HeldUp))

Ledger == INSTANCE PlanLedger

(* The executor implements the ledger: each step settles once, after its   *)
(* dependencies.                                                           *)
ImplementsLedger == Ledger!Spec
=============================================================================
