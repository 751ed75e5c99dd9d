------------------------- MODULE PlanExecutorProofs -------------------------
(***************************************************************************)
(* Proofs about the execution of plans: PlanExecutor, for plans of any     *)
(* size, and Dispatch, for any number of dispatches of a conversation.     *)
(*                                                                         *)
(* One plan: the invariant ties the counters to the graph.  The indegree   *)
(* of a step is the number of its unsettled dependencies, a step waits     *)
(* while there are some, and a settled step is one whose future is gone.   *)
(* A plan without a cycle then always has a step in flight until all have  *)
(* settled.                                                                *)
(*                                                                         *)
(* The dispatches of a conversation: the invariant gives every recorded    *)
(* turn its place relative to the dispatch under way, ties what is in      *)
(* memory or cached to what is recorded, and the rows of the journal to    *)
(* the rounds.                                                             *)
(***************************************************************************)
EXTENDS PlanExecutor, Dispatch, FiniteSetTheorems, TLAPS

(* The dependencies of s that have not settled. *)
Open(s, out) == {d \in deps[s] : out[d] = "none"}

IndegInv == \A s \in Step : indeg[s] = Cardinality(Open(s, outcome))

StageInv ==
  \A s \in Step : /\ stage[s] = "waiting" <=> indeg[s] # 0
                  /\ stage[s] = "done" <=> outcome[s] # "none"

Inv == TypeOK /\ IndegInv /\ StageInv

-----------------------------------------------------------------------------
(* Lemmas about a completion *)

(* The dependencies of a step are finitely many. *)
LEMMA OpenFinite ==
  ASSUME deps \in Plans, NEW s \in Step, NEW out
  PROVE  IsFiniteSet(Open(s, out)) /\ IsFiniteSet(deps[s])
<1>1. deps[s] \subseteq Step
  BY DEF Plans
<1>2. IsFiniteSet(deps[s]) /\ Open(s, out) \subseteq deps[s]
  BY <1>1, StepAssumption, FS_Subset DEF Open
<1>3. QED
  BY <1>2, FS_Subset

(* Settling s lowers by one the number of open dependencies of exactly the *)
(* steps that depend on it.                                                *)
LEMMA OpenAfter ==
  ASSUME TypeOK, NEW s \in Step, outcome[s] = "none", NEW o \in {"ok", "error"},
         NEW t \in Step
  PROVE  LET out == [outcome EXCEPT ![s] = o] IN
         /\ s \in deps[t] =>
              /\ Cardinality(Open(t, outcome)) # 0
              /\ Cardinality(Open(t, out)) = Cardinality(Open(t, outcome)) - 1
         /\ s \notin deps[t] => Open(t, out) = Open(t, outcome)
<1> DEFINE out == [outcome EXCEPT ![s] = o]
<1>1. CASE s \in deps[t]
  <2>1. s \in Open(t, outcome) /\ IsFiniteSet(Open(t, outcome))
    BY <1>1, OpenFinite DEF Open, TypeOK
  <2>2. Open(t, out) = Open(t, outcome) \ {s}
    BY <1>1 DEF Open, TypeOK, Plans
  <2>3. Cardinality(Open(t, outcome) \ {s}) = Cardinality(Open(t, outcome)) - 1
    BY <2>1, FS_RemoveElement
  <2>4. Cardinality(Open(t, outcome)) # 0
    BY <2>1, FS_EmptySet
  <2>5. QED
    BY <1>1, <2>2, <2>3, <2>4
<1>2. CASE s \notin deps[t]
  BY <1>2 DEF Open, TypeOK, Plans
<1>3. QED
  BY <1>1, <1>2

(* A completion keeps the counters equal to the number of open             *)
(* dependencies and every step in the stage its counter says.              *)
LEMMA DrainKeepsInv ==
  ASSUME Inv, NEW s \in Step, NEW o \in {"ok", "error"}, Drain(s, o),
         stage[s] \in {"running", "failing"},
         UNCHANGED <<deps, fieldRefs, started, returned>>
  PROVE  Inv'
<1> DEFINE out == [outcome EXCEPT ![s] = o]
           freed == {t \in Dependents(s) : Release(s, o)[t] = 0}
<1>1. outcome[s] = "none" /\ outcome' = out /\ indeg' = Release(s, o)
  BY DEF Inv, StageInv, Drain
<1>2. PICK failing \in FailFast(freed, outcome') :
        stage' = Schedule([stage EXCEPT ![s] = "done"], freed, failing)
  BY DEF Drain
<1>3. failing \subseteq freed /\ freed \subseteq Step
  BY <1>2 DEF FailFast, Dependents
<1>4. \A t \in Step : Cardinality(Open(t, outcome)) \in Nat
  BY OpenFinite, FS_CardinalityType DEF Inv, TypeOK
<1>5. \A t \in Step : indeg'[t] = Cardinality(Open(t, out))
  <2> SUFFICES ASSUME NEW t \in Step PROVE indeg'[t] = Cardinality(Open(t, out))
    OBVIOUS
  <2>1. CASE s \in deps[t]
    BY <1>1, <1>4, <2>1, OpenAfter
       DEF Inv, IndegInv, Release, Dependents, Decrement
  <2>2. CASE s \notin deps[t]
    BY <1>1, <2>2, OpenAfter DEF Inv, IndegInv, Release, Dependents
  <2>3. QED BY <2>1, <2>2
<1>6. TypeOK'
  <2>1. outcome' \in [Step -> {"none", "ok", "error"}]
    BY <1>1 DEF Inv, TypeOK
  <2>2. indeg' \in [Step -> Nat]
    BY <1>1 DEF Inv, TypeOK, Release, Decrement
  <2>3. stage' \in [Step -> Stage]
    BY <1>2 DEF Inv, TypeOK, Schedule, Stage
  <2>4. QED BY <2>1, <2>2, <2>3 DEF Inv, TypeOK
<1>7. IndegInv'
  BY <1>1, <1>5 DEF IndegInv, Open
<1>8. ASSUME NEW t \in Step
      PROVE  /\ stage'[t] = "waiting" <=> indeg'[t] # 0
             /\ stage'[t] = "done" <=> outcome'[t] # "none"
  <2>1. CASE t \in freed
    <3>1. indeg'[t] = 0 /\ stage'[t] \in {"failing", "queued"}
      BY <1>1, <1>2, <2>1 DEF Schedule
    <3>2. s \in deps[t] /\ indeg[t] # 0
      BY <1>1, <2>1, OpenAfter DEF Dependents, Inv, IndegInv
    <3>3. stage[t] = "waiting" /\ t # s
      BY <3>2 DEF Inv, StageInv
    <3>4. outcome'[t] = "none"
      BY <1>1, <3>3 DEF Inv, StageInv, TypeOK
    <3>5. QED BY <3>1, <3>4
  <2>2. CASE t \notin freed /\ t = s
    <3>1. stage'[t] = "done" /\ outcome'[t] = o
      BY <1>1, <1>2, <1>3, <2>2 DEF Schedule, Inv, TypeOK
    <3>2. indeg[t] = 0
      BY <2>2 DEF Inv, StageInv
    <3>3. indeg'[t] = 0
      BY <1>1, <3>2 DEF Release, Decrement
    <3>4. QED BY <3>1, <3>3
  <2>3. CASE t \notin freed /\ t # s
    <3>1. stage'[t] = stage[t] /\ outcome'[t] = outcome[t]
      BY <1>1, <1>2, <1>3, <2>3 DEF Schedule, Inv, TypeOK
    <3>2. indeg'[t] # 0 <=> indeg[t] # 0
      <4>1. CASE s \in deps[t]
        BY <1>1, <2>3, <4>1, OpenAfter DEF Dependents, Inv, IndegInv
      <4>2. CASE s \notin deps[t]
        BY <1>1, <4>2 DEF Release, Dependents
      <4>3. QED BY <4>1, <4>2
    <3>3. QED BY <3>1, <3>2 DEF Inv, StageInv
  <2>4. QED BY <2>1, <2>2, <2>3
<1>9. QED
  BY <1>6, <1>7, <1>8 DEF Inv, StageInv

-----------------------------------------------------------------------------
(* The invariant *)

LEMMA InitInv == Init => Inv
<1> SUFFICES ASSUME Init PROVE Inv
  OBVIOUS
<1>1. /\ deps \in Plans /\ indeg = [s \in Step |-> Cardinality(deps[s])]
      /\ outcome = [s \in Step |-> "none"] /\ started = {} /\ returned = FALSE
      /\ stage = Schedule([s \in Step |-> "waiting"],
                          {s \in Step : indeg[s] = 0}, {})
  BY DEF Init, Indegrees
<1>2. \A s \in Step : Cardinality(deps[s]) \in Nat
  BY <1>1, OpenFinite, FS_CardinalityType
<1>3. fieldRefs \in [Step -> SUBSET Step]
  BY DEF Init, References
<1>4. TypeOK
  BY <1>1, <1>2, <1>3 DEF TypeOK, Schedule, Stage
<1>5. IndegInv
  <2> SUFFICES ASSUME NEW s \in Step PROVE Open(s, outcome) = deps[s]
    BY <1>1 DEF IndegInv
  <2>1. deps[s] \subseteq Step
    BY <1>1 DEF Plans
  <2>2. QED BY <1>1, <2>1 DEF Open
<1>6. StageInv
  BY <1>1 DEF StageInv, Schedule
<1>7. QED
  BY <1>4, <1>5, <1>6 DEF Inv

LEMMA InvStep == Inv /\ [Next]_vars => Inv'
<1> SUFFICES ASSUME Inv, [Next]_vars PROVE Inv'
  OBVIOUS
<1>1. ASSUME NEW s \in Step, Start(s) PROVE Inv'
  BY <1>1 DEF Inv, TypeOK, IndegInv, StageInv, Open, Start, plan, Stage
<1>2. ASSUME NEW s \in Step, Complete(s) PROVE Inv'
  BY <1>2, DrainKeepsInv DEF Complete, plan
<1>3. ASSUME NEW s \in Step, CompleteFailed(s) PROVE Inv'
  BY <1>3, DrainKeepsInv DEF CompleteFailed, plan
<1>4. CASE Return
  BY <1>4 DEF Inv, TypeOK, IndegInv, StageInv, Open, Return, plan
<1>5. CASE UNCHANGED vars
  BY <1>5 DEF Inv, TypeOK, IndegInv, StageInv, Open, vars
<1>6. QED
  BY <1>1, <1>2, <1>3, <1>4, <1>5 DEF Next

LEMMA Invariance == Spec => []Inv
  BY InitInv, InvStep, PTL DEF Spec

(* Every variable keeps its type; in particular no counter goes below zero *)
(* and the plan stays the acyclic one that was validated.                  *)
THEOREM TypeCorrect == Spec => []TypeOK
<1>1. Inv => TypeOK
  BY DEF Inv
<1>2. QED
  BY <1>1, Invariance, PTL

(* A step has an open dependency exactly when its counter is not zero. *)
LEMMA OpenCounted ==
  ASSUME Inv, NEW s \in Step
  PROVE  indeg[s] # 0 <=> \E d \in deps[s] : outcome[d] = "none"
<1>1. IsFiniteSet(Open(s, outcome)) /\ indeg[s] = Cardinality(Open(s, outcome))
  BY OpenFinite DEF Inv, TypeOK, IndegInv
<1>2. indeg[s] # 0 <=> Open(s, outcome) # {}
  BY <1>1, FS_EmptySet
<1>3. QED
  BY <1>2 DEF Open

(* A step is scheduled when, and only when, its dependencies have settled. *)
THEOREM Scheduling == Spec => []ScheduledWhenReady
<1>1. Inv => ScheduledWhenReady
  <2> SUFFICES ASSUME Inv, NEW s \in Step
               PROVE  stage[s] = "waiting" <=> \E d \in deps[s] : outcome[d] = "none"
    BY DEF ScheduledWhenReady
  <2>1. stage[s] = "waiting" <=> indeg[s] # 0
    BY DEF Inv, StageInv
  <2>2. QED BY <2>1, OpenCounted
<1>2. QED
  BY <1>1, Invariance, PTL

(* While a step has not settled, some future of the plan can still move:   *)
(* take the unsettled steps; as there is no cycle, one of them waits for   *)
(* no other.                                                               *)
LEMMA InFlight ==
  ASSUME Inv, \A s \in Step : stage[s] \in {"waiting", "done"}
  PROVE  \A s \in Step : outcome[s] # "none"
<1> DEFINE unsettled == {s \in Step : outcome[s] = "none"}
<1>1. CASE unsettled = {}
  BY <1>1
<1>2. CASE unsettled # {}
  <2>1. PICK s \in unsettled : deps[s] \cap unsettled = {}
    BY <1>2 DEF Inv, TypeOK, Plans, Acyclic
  <2>2. \A d \in deps[s] : outcome[d] # "none"
    BY <2>1 DEF Inv, TypeOK, Plans
  <2>3. indeg[s] = 0
    BY <2>2, OpenCounted
  <2>4. stage[s] = "done"
    BY <2>3 DEF Inv, StageInv
  <2>5. QED BY <2>1, <2>4 DEF Inv, StageInv
<1>3. QED
  BY <1>1, <1>2

(* The returned run covers the whole plan. *)
THEOREM Coverage == Spec => []NothingLeftBehind
<1>1. Init => NothingLeftBehind
  BY DEF Init, NothingLeftBehind
<1>2. Inv /\ NothingLeftBehind /\ [Next]_vars => NothingLeftBehind'
  <2> SUFFICES ASSUME Inv, NothingLeftBehind, [Next]_vars
               PROVE  NothingLeftBehind'
    OBVIOUS
  <2>1. CASE Return
    BY <2>1, InFlight DEF Return, NothingLeftBehind
  <2>2. ASSUME NEW s \in Step, Start(s) PROVE NothingLeftBehind'
    BY <2>2 DEF Start, NothingLeftBehind
  <2>3. ASSUME NEW s \in Step, Complete(s) \/ CompleteFailed(s)
        PROVE NothingLeftBehind'
    <3>1. PICK o \in {"ok", "error"} : outcome' = [outcome EXCEPT ![s] = o]
      BY <2>3 DEF Complete, CompleteFailed, Drain
    <3>2. returned' = returned
      BY <2>3 DEF Complete, CompleteFailed
    <3>3. QED BY <3>1, <3>2 DEF NothingLeftBehind, Inv, TypeOK
  <2>4. CASE UNCHANGED vars
    BY <2>4 DEF vars, NothingLeftBehind
  <2>5. QED BY <2>1, <2>2, <2>3, <2>4 DEF Next
<1>3. QED
  BY <1>1, <1>2, Invariance, PTL DEF Spec

-----------------------------------------------------------------------------
(* References to failed steps *)

(* What is about to be invoked, or was, refers to results only. *)
RefsInv ==
  \A s \in Step :
    /\ fieldRefs[s] \subseteq deps[s]
    /\ stage[s] \in {"queued", "running"} \/ s \in started =>
         \A d \in fieldRefs[s] : outcome[d] = "ok"

LEMMA InitRefs == Init => RefsInv
<1> SUFFICES ASSUME Init, NEW s \in Step
             PROVE  /\ fieldRefs[s] \subseteq deps[s]
                    /\ stage[s] \in {"queued", "running"} \/ s \in started =>
                         fieldRefs[s] = {}
  BY DEF RefsInv
<1>1. fieldRefs[s] \subseteq deps[s]
  BY DEF Init, References
<1>2. CASE indeg[s] = 0
  <2>1. deps \in Plans /\ Cardinality(deps[s]) = 0
    BY <1>2 DEF Init, Indegrees
  <2>2. deps[s] = {}
    BY <2>1, OpenFinite, FS_EmptySet
  <2>3. QED BY <1>1, <2>2
<1>3. CASE indeg[s] # 0
  <2>1. stage[s] = "waiting" /\ started = {}
    BY <1>3 DEF Init, Schedule
  <2>2. QED BY <1>1, <2>1
<1>4. QED
  BY <1>2, <1>3

(* A completion leaves the results there were, and schedules for invocation *)
(* only steps whose references have just resolved.                          *)
LEMMA DrainKeepsRefs ==
  ASSUME Inv, RefsInv, NEW s \in Step, NEW o \in {"ok", "error"}, Drain(s, o),
         stage[s] \in {"running", "failing"},
         UNCHANGED <<deps, fieldRefs, started, returned>>
  PROVE  RefsInv'
<1> DEFINE freed == {t \in Dependents(s) : Release(s, o)[t] = 0}
<1>1. outcome[s] = "none" /\ outcome' = [outcome EXCEPT ![s] = o]
  BY DEF Inv, StageInv, Drain
<1>2. PICK failing \in FailFast(freed, outcome') :
        stage' = Schedule([stage EXCEPT ![s] = "done"], freed, failing)
  BY DEF Drain
<1>3. ASSUME NEW d \in Step, outcome[d] = "ok" PROVE outcome'[d] = "ok"
  BY <1>1, <1>3 DEF Inv, TypeOK
<1> SUFFICES ASSUME NEW t \in Step,
                    stage'[t] \in {"queued", "running"} \/ t \in started,
                    NEW d \in fieldRefs[t]
             PROVE  outcome'[d] = "ok"
  BY DEF RefsInv
<1>4. d \in Step
  BY DEF Inv, TypeOK
<1>5. CASE stage[t] \in {"queued", "running"} \/ t \in started
  BY <1>3, <1>4, <1>5 DEF RefsInv
<1>6. CASE ~(stage[t] \in {"queued", "running"} \/ t \in started)
  <2>1. t \in freed /\ t \notin failing
    BY <1>2, <1>6 DEF Schedule, Inv, TypeOK
  <2>2. ~Unresolved(t, outcome')
    BY <1>2, <2>1 DEF FailFast
  <2>3. QED BY <2>2 DEF Unresolved, Resolves
<1>7. QED
  BY <1>5, <1>6

LEMMA RefsStep == Inv /\ RefsInv /\ [Next]_vars => RefsInv'
<1> SUFFICES ASSUME Inv, RefsInv, [Next]_vars PROVE RefsInv'
  OBVIOUS
<1>1. ASSUME NEW s \in Step, Start(s) PROVE RefsInv'
  BY <1>1 DEF Inv, TypeOK, RefsInv, Start, plan
<1>2. ASSUME NEW s \in Step, Complete(s) PROVE RefsInv'
  BY <1>2, DrainKeepsRefs DEF Complete, plan
<1>3. ASSUME NEW s \in Step, CompleteFailed(s) PROVE RefsInv'
  BY <1>3, DrainKeepsRefs DEF CompleteFailed, plan
<1>4. CASE Return
  BY <1>4 DEF RefsInv, Return, plan
<1>5. CASE UNCHANGED vars
  BY <1>5 DEF RefsInv, vars
<1>6. QED
  BY <1>1, <1>2, <1>3, <1>4, <1>5 DEF Next

(* Whatever failed before it, a step is only ever invoked with arguments   *)
(* whose references were found in results.                                 *)
THEOREM Invocations == Spec => []NoUnresolvedInvocation
<1>1. TypeOK /\ RefsInv => NoUnresolvedInvocation
  BY DEF TypeOK, RefsInv, NoUnresolvedInvocation
<1>2. QED
  BY <1>1, InitRefs, RefsStep, TypeCorrect, Invariance, PTL DEF Spec

-----------------------------------------------------------------------------
(* Refinement *)

LEMMA InitRefines == Init => Ledger!Init
  BY DEF Init, Plans, Ledger!Init, Ledger!Dependencies

(* A completion settles a step none of whose dependencies is open. *)
LEMMA DrainRefines ==
  ASSUME Inv, NEW s \in Step, NEW o \in {"ok", "error"}, Drain(s, o),
         stage[s] \in {"running", "failing"}, UNCHANGED deps
  PROVE  Ledger!Next
<1>1. outcome[s] = "none" /\ indeg[s] = 0
  BY DEF Inv, StageInv
<1>2. \A d \in deps[s] : outcome[d] # "none"
  BY <1>1, OpenCounted
<1>3. outcome' = [outcome EXCEPT ![s] = o]
  BY DEF Drain
<1>4. Ledger!Settle(s)
  BY <1>1, <1>2, <1>3 DEF Ledger!Settle
<1>5. QED
  BY <1>4 DEF Ledger!Next

LEMMA StepRefines == Inv /\ [Next]_vars => [Ledger!Next]_<<deps, outcome>>
<1> SUFFICES ASSUME Inv, [Next]_vars
             PROVE  Ledger!Next \/ UNCHANGED <<deps, outcome>>
  OBVIOUS
<1>1. ASSUME NEW s \in Step, Start(s) PROVE UNCHANGED <<deps, outcome>>
  BY <1>1 DEF Start, plan
<1>2. ASSUME NEW s \in Step, Complete(s) PROVE Ledger!Next
  BY <1>2, DrainRefines DEF Complete, plan
<1>3. ASSUME NEW s \in Step, CompleteFailed(s) PROVE Ledger!Next
  BY <1>3, DrainRefines DEF CompleteFailed, plan
<1>4. CASE Return
  BY <1>4 DEF Return, plan
<1>5. CASE UNCHANGED vars
  BY <1>5 DEF vars
<1>6. QED
  BY <1>1, <1>2, <1>3, <1>4, <1>5 DEF Next

(* The concurrent executor implements the ledger: however its futures are  *)
(* interleaved, each step settles once, after what it depends on.          *)
THEOREM Refinement == Spec => ImplementsLedger
  BY InitRefines, StepRefines, Invariance, PTL
     DEF Spec, ImplementsLedger, Ledger!Spec

-----------------------------------------------------------------------------
(* The dispatches of a conversation *)

(* A conversation in memory is a record of its three fields, no more.      *)
Shape(s) == s = [turns |-> s.turns, next |-> s.next, loaded |-> s.loaded]

(* The record of a run, whatever its bounds.                               *)
RunType ==
  [round : Nat, base : Nat, size : Nat, deep : BOOLEAN, todo : SUBSET Nat,
   trace : Nat, failed : BOOLEAN]

(* The types, as records, and the ledger finite: it has a last turn, which *)
(* MaxSeq finds.                                                           *)
Types ==
  /\ DispatchTypeOK
  /\ run \in RunType
  /\ Shape(cache) /\ Shape(state)
  /\ \E m \in DOMAIN turns \cup {0} : \A q \in DOMAIN turns : q <= m

(* Each executed plan adds at most MAX_PLAN_STEPS steps, and one that is   *)
(* compiled may still be executed.                                         *)
StepsInv ==
  /\ run.trace + run.size <= run.round * MaxPlanSteps
  /\ pc # "executing" => run.size = 0
  /\ pc = "executing" => run.round # 0
  /\ Compiling => run.round < MaxRounds

(* The last number of the user turn and the tool turns mirrored in memory  *)
(* so far: what the dispatch inserts next comes after it.                  *)
End == run.base + 2 * run.trace

(* A tool turn.                                                            *)
IsCall(t) == t.kind \in {"call", "result"}

(* The place of a recorded turn relative to the dispatch under way: other  *)
(* dispatches' turns below its base, its user turn at the base, tool turns *)
(* of plans that have been mirrored up to End, then those of the steps     *)
(* done so far of the running plan, at the numbers reserved for them, or   *)
(* the reply.                                                              *)
Ours(q) ==
  /\ q < run.base => turns[q].by < dispatch
  /\ q = run.base => turns[q] = User(dispatch)
  /\ run.base < q /\ q <= End =>
       /\ IsCall(turns[q]) /\ turns[q].by = dispatch
       /\ turns[q].round <= run.round
       /\ pc = "executing" => turns[q].round < run.round
  /\ End < q =>
       \/ /\ pc = "executing"
          /\ \E i \in (0 .. run.size - 1) \ run.todo :
               \/ q = CallSeq(i) /\ turns[q] = Call(dispatch, run.round, i)
               \/ q = CallSeq(i) + 1 /\ turns[q] = Result(dispatch, run.round, i)
       \/ pc = "closing" /\ q = End + 1 /\ turns[q] = Reply(dispatch)

(* Every recorded turn of a dispatch under way is in its place.            *)
Placed ==
  /\ \A q \in DOMAIN turns : turns[q].by <= dispatch
  /\ pc # "idle" =>
       /\ run.base \in DOMAIN turns
       /\ \A q \in DOMAIN turns : Ours(q)
  /\ pc = "closing" => End + 1 \in DOMAIN turns

(* Up to its last number a conversation in memory has every recorded turn. *)
MirrorsUpTo(s) ==
  \A q \in DOMAIN turns : q <= s.next => q \in DOMAIN s.turns /\ s.turns[q] = turns[q]

(* The conversation the dispatch works on ends where its turns end.        *)
Memory ==
  pc # "idle" =>
    /\ state.next = IF pc = "closing" THEN End + 1 ELSE End
    /\ MirrorsUpTo(state)

(* Between dispatches a cached conversation has all of the recorded one;   *)
(* or a client has left and the number it would insert next is taken, so   *)
(* that its next dispatch fails and evicts it.  While a dispatch is under  *)
(* way the cached one ends before it.                                      *)
Cached ==
  cache.loaded =>
    /\ MirrorsUpTo(cache)
    /\ pc = "idle" => \/ \A q \in DOMAIN turns : q <= cache.next
                      \/ ~Stayed /\ cache.next + 1 \in DOMAIN turns
    /\ pc # "idle" => cache.next + 1 = run.base

(* Dispatch d was cut off, or could not update its rows.                   *)
Cuts(d) == \E e \in cut : e[1] = d

(* The rows of a dispatch under way are those of its rounds, and none but  *)
(* the first and the running one is open unless an update was lost.        *)
Closed ==
  \A r \in DOMAIN rows :
    /\ r[1] <= dispatch
    /\ r[1] = dispatch /\ pc # "idle" =>
         /\ r[2] <= run.round
         /\ rows[r] = "running" =>
              r[2] = 1 \/ Cuts(dispatch) \/ (pc = "executing" /\ r[2] = run.round)

(* The inductive invariant.                                                *)
IInv ==
  /\ Types /\ StepsInv /\ Placed /\ Memory /\ Cached /\ Closed
  /\ LedgerOrdered /\ JournalTells


-----------------------------------------------------------------------------
(* Memory *)

IsMemory(s) == IsState(s) /\ Shape(s)

(* A memory whose turns and last number have changed. *)
Changed(s, f, n) == [s EXCEPT !.turns = f, !.next = n]

(* What such a change leaves alone.                                        *)
LEMMA ChangedFacts ==
  ASSUME NEW s, Shape(s), NEW f, NEW n
  PROVE  /\ Shape(Changed(s, f, n))
         /\ Changed(s, f, n).turns = f
         /\ Changed(s, f, n).next = n
         /\ Changed(s, f, n).loaded = s.loaded
<1> DEFINE S == [turns : {s.turns, f}, next : {s.next, n}, loaded : {s.loaded}]
<1>1. s \in S
  BY DEF Shape
<1>2. Changed(s, f, n) \in S
  BY <1>1 DEF Changed
<1>3. /\ Changed(s, f, n).turns = f
      /\ Changed(s, f, n).next = n
      /\ Changed(s, f, n).loaded = s.loaded
  BY <1>1 DEF Changed
<1>4. \A v \in S : Shape(v)
  BY DEF Shape
<1> HIDE DEF S
<1> QED
  BY <1>2, <1>3, <1>4

(* Push adds a turn at the next number and keeps the others.               *)
LEMMA PushFacts ==
  ASSUME NEW s, IsMemory(s), NEW t \in Turn
  PROVE  LET u == Push(s, t) IN
         /\ IsMemory(u)
         /\ u.next = s.next + 1 /\ u.loaded = s.loaded
         /\ u.turns[u.next] = t
         /\ DOMAIN u.turns = DOMAIN s.turns \cup {u.next}
         /\ \A q \in DOMAIN s.turns : u.turns[q] = s.turns[q]
<1> DEFINE u == Push(s, t)
<1>1. /\ Shape(u) /\ u.turns = Extend(s.turns, s.next + 1, t)
      /\ u.next = s.next + 1 /\ u.loaded = s.loaded
  <2>1. u = Changed(s, Extend(s.turns, s.next + 1, t), s.next + 1)
    BY DEF Push, Changed
  <2> HIDE DEF u
  <2> QED
    BY <2>1, ChangedFacts DEF IsMemory
<1> HIDE DEF u
<1>3. /\ \A q \in DOMAIN s.turns : q <= s.next /\ q \in Nat \ {0} /\ s.turns[q] \in Turn
      /\ s.next \in Nat /\ s.loaded \in BOOLEAN
  BY DEF IsMemory, IsState, IsLedger
<1>4. /\ DOMAIN u.turns = DOMAIN s.turns \cup {u.next}
      /\ u.turns[u.next] = t
      /\ \A q \in DOMAIN s.turns : u.turns[q] = s.turns[q]
  BY <1>1, <1>3 DEF Extend
<1>5. IsState(u)
  BY <1>1, <1>3, <1>4 DEF IsState, IsLedger
<1> USE DEF u
<1> QED
  BY <1>1, <1>4, <1>5 DEF IsMemory

(* A loaded conversation has what is recorded up to its last number, and   *)
(* one read from the database reaches the last turn recorded.              *)
LEMMA LoadFacts ==
  ASSUME Types, Cached
  PROVE  /\ IsMemory(Load)
         /\ MirrorsUpTo(Load)
         /\ ~cache.loaded => \A q \in DOMAIN turns : q <= Load.next
<1>1. CASE cache.loaded
  BY <1>1 DEF Load, Types, DispatchTypeOK, Cached, IsMemory
<1>2. CASE ~cache.loaded
  <2> DEFINE s == [turns |-> turns, next |-> MaxSeq(turns), loaded |-> TRUE]
  <2>1. /\ MaxSeq(turns) \in DOMAIN turns \cup {0}
        /\ \A q \in DOMAIN turns : q <= MaxSeq(turns)
    BY DEF Types, MaxSeq
  <2>2. IsMemory(s)
    BY <2>1 DEF Types, DispatchTypeOK, IsMemory, IsState, IsLedger, Shape
  <2>3. CASE s.next \in DOMAIN s.turns /\ s.turns[s.next].kind = "call"
    <3> DEFINE t == [s.turns[s.next] EXCEPT !.kind = "result"]
    <3>1. s.turns[s.next] \in Turn
      BY <2>2, <2>3 DEF IsMemory, IsState, IsLedger
    <3>2. t \in Turn
      BY <3>1 DEF Turn
    <3>3. Load = Push(s, t)
      BY <1>2, <2>3 DEF Load, Validate
    <3> HIDE DEF s, t
    <3>4. /\ IsMemory(Load) /\ Load.next = s.next + 1
          /\ \A q \in DOMAIN s.turns : q \in DOMAIN Load.turns /\ Load.turns[q] = s.turns[q]
      BY <2>2, <3>2, <3>3, PushFacts
    <3> USE DEF s
    <3> QED
      BY <1>2, <2>1, <2>2, <3>4 DEF MirrorsUpTo, IsMemory, IsState, IsLedger, Types, DispatchTypeOK
  <2>4. CASE ~(s.next \in DOMAIN s.turns /\ s.turns[s.next].kind = "call")
    <3>1. Load = s
      BY <1>2, <2>4 DEF Load, Validate
    <3> QED
      BY <2>1, <2>2, <3>1 DEF MirrorsUpTo
  <2> QED
    BY <2>3, <2>4
<1> QED
  BY <1>1, <1>2

(* The numbers of the turns of n steps. *)
LEMMA Halves ==
  ASSUME NEW q \in Nat, NEW b \in Nat, NEW n \in Nat, b < q, q <= b + 2 * n
  PROVE  \/ \E i \in 0 .. n - 1 : q = b + 1 + 2 * i
         \/ \E i \in 0 .. n - 1 : q = b + 2 + 2 * i
<1> DEFINE i == (q - b - 1) \div 2
<1>1. i \in 0 .. n - 1 /\ (q = b + 1 + 2 * i \/ q = b + 2 + 2 * i)
  OBVIOUS
<1> QED
  BY <1>1

(* u is s with the turns of n steps of a round added.                      *)
Traced(u, s, d, r, n) ==
  /\ IsMemory(u)
  /\ u.next = s.next + 2 * n
  /\ DOMAIN u.turns = DOMAIN s.turns \cup (s.next + 1 .. s.next + 2 * n)
  /\ \A q \in DOMAIN s.turns : u.turns[q] = s.turns[q]
  /\ \A i \in 0 .. n - 1 : /\ u.turns[s.next + 1 + 2 * i] = Call(d, r, i)
                           /\ u.turns[s.next + 2 + 2 * i] = Result(d, r, i)

(* PushTrace adds the turns of a round in the plan's order.                *)
LEMMA PushTraceFacts ==
  ASSUME NEW s, IsMemory(s), NEW d \in 1 .. MaxDispatches, NEW r \in 0 .. MaxRounds,
         NEW n \in 0 .. MaxPlanSteps
  PROVE  Traced(PushTrace(s, d, r, n), s, d, r, n)
<1> DEFINE u == PushTrace(s, d, r, n)
           D == DOMAIN s.turns \cup (s.next + 1 .. s.next + 2 * n)
           T(q) == IF q <= s.next THEN s.turns[q]
                   ELSE IF (q - s.next) % 2 = 1
                        THEN Call(d, r, (q - s.next) \div 2)
                        ELSE Result(d, r, (q - s.next) \div 2 - 1)
           f == [q \in D |-> T(q)]
<1>1. Shape(u) /\ u.turns = f /\ u.next = s.next + 2 * n /\ u.loaded = s.loaded
  <2>1. u = Changed(s, f, s.next + 2 * n)
    BY DEF PushTrace, Changed
  <2> HIDE DEF u, f
  <2> QED
    BY <2>1, ChangedFacts DEF IsMemory
<1> HIDE DEF u
<1>2. /\ \A q \in DOMAIN s.turns : q <= s.next /\ q \in Nat \ {0} /\ s.turns[q] \in Turn
      /\ s.next \in Nat /\ s.loaded \in BOOLEAN /\ n \in Nat
  BY BoundsAssumption DEF IsMemory, IsState, IsLedger
<1>3. DOMAIN u.turns = D /\ \A q \in D : u.turns[q] = T(q)
  BY <1>1
<1>4. \A q \in DOMAIN s.turns : u.turns[q] = s.turns[q]
  BY <1>2, <1>3
<1>5. ASSUME NEW i \in 0 .. n - 1
      PROVE  /\ u.turns[s.next + 1 + 2 * i] = Call(d, r, i)
             /\ u.turns[s.next + 2 + 2 * i] = Result(d, r, i)
  <2> DEFINE c == s.next + 1 + 2 * i
             e == s.next + 2 + 2 * i
  <2>1. c \in D /\ e \in D /\ ~(c <= s.next) /\ ~(e <= s.next)
    BY <1>2
  <2>2. (c - s.next) % 2 = 1 /\ (c - s.next) \div 2 = i
    BY <1>2
  <2>3. (e - s.next) % 2 # 1 /\ (e - s.next) \div 2 - 1 = i
    BY <1>2
  <2> HIDE DEF c, e
  <2>4. T(c) = Call(d, r, i)
    BY <2>1, <2>2
  <2>6. T(e) = Result(d, r, i)
    BY <2>1, <2>3
  <2> USE DEF c, e
  <2> QED
    BY <1>3, <2>1, <2>4, <2>6
<1>6. ASSUME NEW i \in 0 .. n - 1
      PROVE  Call(d, r, i) \in Turn /\ Result(d, r, i) \in Turn
  BY BoundsAssumption DEF Turn, Call, Result
<1>7. ASSUME NEW q \in D PROVE q \in Nat \ {0} /\ q <= u.next /\ u.turns[q] \in Turn
  <2>1. CASE q \in DOMAIN s.turns
    BY <1>1, <1>2, <1>4, <2>1
  <2>2. CASE q \in s.next + 1 .. s.next + 2 * n
    <3>1. \/ \E i \in 0 .. n - 1 : q = s.next + 1 + 2 * i
          \/ \E i \in 0 .. n - 1 : q = s.next + 2 + 2 * i
      <4>1. q \in Nat /\ s.next < q /\ q <= s.next + 2 * n
        BY <1>2, <2>2
      <4> QED
        BY <1>2, <4>1, Halves, Zenon
    <3> QED
      BY <1>1, <1>2, <1>5, <1>6, <2>2, <3>1
  <2> QED
    BY <2>1, <2>2
<1> HIDE DEF D
<1>8. IsState(u)
  <2>1. u.next \in Nat /\ u.loaded \in BOOLEAN
    BY <1>1, <1>2
  <2> QED
    BY <1>3, <1>7, <2>1 DEF IsState, IsLedger
<1>9. Traced(u, s, d, r, n)
  BY <1>1, <1>3, <1>4, <1>5, <1>8 DEF IsMemory, Traced, D
<1> QED
  BY <1>9 DEF u

(* No conversation is a conversation without turns.                        *)
LEMMA NoStateMemory == IsMemory(NoState) /\ ~NoState.loaded
<1>1. NoState.turns = <<>> /\ NoState.next = 0 /\ NoState.loaded = FALSE /\ Shape(NoState)
  BY DEF NoState, Shape
<1>2. DOMAIN NoState.turns = {}
  BY <1>1
<1>3. IsState(NoState)
  <2> HIDE DEF NoState
  <2>1. NoState.next \in Nat /\ NoState.loaded \in BOOLEAN
    BY DEF NoState
  <2>2. IsLedger(NoState.turns)
    BY <1>2 DEF IsLedger
  <2> QED
    BY <1>2, <2>1, <2>2 DEF IsState
<1> QED
  BY <1>1, <1>3 DEF IsMemory

(* No run is one without rounds or steps.                                  *)
LEMMA NoRunType ==
  /\ NoRun \in RunType
  /\ NoRun.round = 0 /\ NoRun.base = 0 /\ NoRun.size = 0 /\ NoRun.todo = {}
  /\ NoRun.trace = 0
  BY DEF NoRun, RunType

-----------------------------------------------------------------------------
(* How a dispatch ends *)

(* Whatever ends a dispatch leaves its turns where they are. *)
LEMMA LeaveInv ==
  ASSUME IInv, Leave, UNCHANGED turns, IsMemory(cache'), Cached',
         DOMAIN rows' = DOMAIN rows,
         cut \subseteq cut', cut' \subseteq (1 .. MaxDispatches) \X {"left", "lost"},
         \A r \in DOMAIN rows :
           /\ rows'[r] \in {"running", "done", "failed"}
           /\ rows'[r] = "running" => Cuts(r[1])'
           /\ r[2] = 1 /\ rows'[r] = "done" => \E q \in DOMAIN turns : turns[q] = Reply(r[1])
  PROVE  IInv'
<1> USE NoStateMemory, NoRunType
<1>1. Types'
  <2>1. run' \in RunType /\ IsMemory(state)' /\ pc' = "idle"
    BY DEF Leave
  <2>2. /\ run'.round \in 0 .. MaxRounds /\ run'.base \in Nat /\ run'.deep \in BOOLEAN
        /\ run'.size \in 0 .. MaxPlanSteps /\ run'.failed \in BOOLEAN
        /\ run'.todo \subseteq 0 .. run'.size - 1
        /\ run'.trace \in 0 .. MaxRounds * MaxPlanSteps
    BY BoundsAssumption DEF Leave, RunType
  <2>3. /\ IsLedger(turns)' /\ IsState(cache)' /\ IsState(state)'
        /\ Shape(cache') /\ Shape(state')
    BY <2>1 DEF IInv, Types, DispatchTypeOK, IsMemory
  <2> QED
    BY <2>1, <2>2, <2>3 DEF Leave, IInv, Types, DispatchTypeOK
<1>2. StepsInv'
  BY BoundsAssumption DEF Leave, IInv, StepsInv, Compiling
<1>3. Placed'
  BY DEF Leave, IInv, Placed
<1>4. Memory'
  BY DEF Leave, Memory
<1>5. Closed'
  BY DEF Leave, IInv, Closed
<1>6. LedgerOrdered'
  BY DEF IInv, LedgerOrdered
<1>7. JournalTells'
  BY DEF Leave, IInv, JournalTells, RunsJournalled, Cuts
<1> QED
  BY <1>1, <1>2, <1>3, <1>4, <1>5, <1>6, <1>7 DEF IInv

-----------------------------------------------------------------------------
(* Recording a turn *)

(* A ledger of finitely many turns has a last one. *)
FiniteLedger(f) ==
  /\ IsLedger(f)
  /\ \E m \in DOMAIN f \cup {0} : \A q \in DOMAIN f : q <= m

(* A ledger in the order of the conversation.                              *)
Ordered(f) == \A p, q \in DOMAIN f : p < q => Before(f[p], f[q])

(* What Extend does to a ledger.                                           *)
LEMMA Inserted ==
  ASSUME NEW f, FiniteLedger(f), NEW q \in Nat \ {0}, NEW t \in Turn, q \notin DOMAIN f
  PROVE  /\ FiniteLedger(Extend(f, q, t))
         /\ DOMAIN Extend(f, q, t) = DOMAIN f \cup {q}
         /\ Extend(f, q, t)[q] = t
         /\ \A p \in DOMAIN f : Extend(f, q, t)[p] = f[p]
<1> DEFINE g == Extend(f, q, t)
<1>1. DOMAIN g = DOMAIN f \cup {q} /\ \A p \in DOMAIN g : g[p] = IF p = q THEN t ELSE f[p]
  BY DEF Extend
<1> HIDE DEF g
<1>2. DOMAIN f \subseteq Nat \ {0} /\ \A p \in DOMAIN f : f[p] \in Turn
  BY DEF FiniteLedger, IsLedger
<1>3. IsLedger(g)
  BY <1>1, <1>2 DEF IsLedger
<1>4. PICK m \in DOMAIN f \cup {0} : \A p \in DOMAIN f : p <= m
  BY DEF FiniteLedger
<1>5. \E k \in {m, q} : k \in DOMAIN g \cup {0} /\ \A p \in DOMAIN g : p <= k
  BY <1>1, <1>2, <1>4
<1> USE DEF g
<1> QED
  BY <1>1, <1>3, <1>5 DEF FiniteLedger

(* The order of the conversation survives a turn that comes after all      *)
(* those below its number and before all those above.                      *)
LEMMA StaysOrdered ==
  ASSUME NEW f, FiniteLedger(f), Ordered(f), NEW q \in Nat \ {0}, NEW t \in Turn,
         q \notin DOMAIN f,
         \A p \in DOMAIN f : (p < q => Before(f[p], t)) /\ (q < p => Before(t, f[p]))
  PROVE  Ordered(Extend(f, q, t))
<1> DEFINE g == Extend(f, q, t)
<1>1. /\ DOMAIN g = DOMAIN f \cup {q} /\ g[q] = t
      /\ \A p \in DOMAIN f : g[p] = f[p]
  <2>1. /\ DOMAIN Extend(f, q, t) = DOMAIN f \cup {q}
        /\ Extend(f, q, t)[q] = t
        /\ \A p \in DOMAIN f : Extend(f, q, t)[p] = f[p]
    BY ONLY FiniteLedger(f), q \in Nat \ {0}, t \in Turn, q \notin DOMAIN f, Inserted
  <2> QED
    BY <2>1
<1> HIDE DEF g
<1>2. DOMAIN f \subseteq Nat
  BY DEF FiniteLedger, IsLedger
<1>3. SUFFICES ASSUME NEW p \in DOMAIN g, NEW r \in DOMAIN g, p < r
               PROVE  Before(g[p], g[r])
  BY DEF Ordered, g
<1>4. CASE p = q /\ r = q
  BY <1>2, <1>3, <1>4
<1>5. CASE p = q /\ r \in DOMAIN f
  BY <1>1, <1>3, <1>5
<1>6. CASE p \in DOMAIN f /\ r = q
  BY <1>1, <1>3, <1>6
<1>7. CASE p \in DOMAIN f /\ r \in DOMAIN f
  BY <1>1, <1>3, <1>7 DEF Ordered
<1> QED
  BY <1>1, <1>4, <1>5, <1>6, <1>7

(* A dispatch that fails to begin has recorded nothing.                    *)
LEMMA BeginFailsInv ==
  ASSUME IInv, NEW k \in Requests, BeginFails(k)
  PROVE  IInv'
<1> USE NoStateMemory, NoRunType
<1>1. /\ pc = "idle" /\ pc' = "idle" /\ dispatch' = dispatch + 1 /\ dispatch' <= MaxDispatches
      /\ request' \in Request /\ cache' = NoState
      /\ UNCHANGED <<turns, rows, cut, state, run>>
  BY BoundsAssumption, RequestsAssumption
     DEF BeginFails, Begin, journal, IInv, Types, DispatchTypeOK
<1>2. Types'
  BY <1>1, BoundsAssumption DEF IInv, Types, DispatchTypeOK, IsMemory
<1>3. StepsInv'
  BY <1>1 DEF IInv, StepsInv, Compiling
<1>4. Placed'
  <2>1. \A q \in DOMAIN turns : turns[q].by \in Nat
    BY BoundsAssumption DEF IInv, Types, DispatchTypeOK, IsLedger, Turn
  <2> QED
    BY <1>1, <2>1 DEF IInv, Placed, Types, DispatchTypeOK
<1>5. Memory' /\ Cached'
  BY <1>1 DEF Memory, Cached
<1>6. Closed'
  <2>1. \A r \in DOMAIN rows : r[1] \in Nat
    BY BoundsAssumption DEF IInv, Types, DispatchTypeOK
  <2> QED
    BY <1>1, <2>1 DEF IInv, Closed, Types, DispatchTypeOK
<1>7. LedgerOrdered'
  BY <1>1 DEF IInv, LedgerOrdered
<1>8. JournalTells'
  BY <1>1 DEF IInv, JournalTells, RunsJournalled
<1> QED
  BY <1>2, <1>3, <1>4, <1>5, <1>6, <1>7, <1>8 DEF IInv

(* Between dispatches a cached conversation either has every turn that was *)
(* recorded, or its next number is taken.                                  *)
LEMMA RecordUserInv ==
  ASSUME IInv, NEW k \in Requests, RecordUser(k)
  PROVE  IInv'
<1> USE NoRunType
<1> DEFINE n == Load.next + 1
           t == User(dispatch + 1)
<1>1. /\ pc = "idle" /\ pc' = "compiling"
      /\ dispatch \in Nat /\ dispatch' = dispatch + 1 /\ dispatch' <= MaxDispatches
      /\ request' \in Request
      /\ cache' = Load /\ state' = Push(Load, t)
      /\ UNCHANGED <<rows, cut>>
  BY BoundsAssumption, RequestsAssumption
     DEF RecordUser, Begin, journal, IInv, Types, DispatchTypeOK
<1>2. /\ IsMemory(Load) /\ MirrorsUpTo(Load)
      /\ ~cache.loaded => \A q \in DOMAIN turns : q <= Load.next
  BY LoadFacts DEF IInv
<1>3. n \in Nat \ {0} /\ t \in Turn
  BY <1>1, <1>2, BoundsAssumption DEF IsMemory, IsState, Turn, User
<1>4. /\ IsMemory(state') /\ state'.next = n
      /\ state'.turns[n] = t /\ DOMAIN state'.turns = DOMAIN Load.turns \cup {n}
      /\ \A q \in DOMAIN Load.turns : state'.turns[q] = Load.turns[q]
  BY <1>1, <1>2, <1>3, PushFacts
<1>5. n \notin DOMAIN turns /\ turns' = Extend(turns, n, t) /\ run' = [NoRun EXCEPT !.base = n]
  BY <1>4, <1>1 DEF RecordUser
<1>6. /\ run' \in RunType /\ run'.base = n /\ run'.round = 0 /\ run'.size = 0
      /\ run'.todo = {} /\ run'.trace = 0
  BY <1>3, <1>5 DEF RunType
<1>7. /\ IsLedger(turns')
      /\ \E m \in DOMAIN turns' \cup {0} : \A q \in DOMAIN turns' : q <= m
      /\ DOMAIN turns' = DOMAIN turns \cup {n} /\ turns'[n] = t
      /\ \A q \in DOMAIN turns : turns'[q] = turns[q]
  <2> HIDE DEF n, t
  <2>1. FiniteLedger(turns)
    BY DEF IInv, Types, DispatchTypeOK, FiniteLedger
  <2>2. FiniteLedger(Extend(turns, n, t)) /\ DOMAIN turns' = DOMAIN turns \cup {n}
        /\ turns'[n] = t /\ \A q \in DOMAIN turns : turns'[q] = turns[q]
    <3>1. /\ FiniteLedger(Extend(turns, n, t))
          /\ DOMAIN Extend(turns, n, t) = DOMAIN turns \cup {n}
          /\ Extend(turns, n, t)[n] = t
          /\ \A q \in DOMAIN turns : Extend(turns, n, t)[q] = turns[q]
      <4>1. FiniteLedger(Extend(turns, n, t))
        BY <1>3, <1>5, <2>1, Inserted
      <4> QED
        BY <1>5, <4>1 DEF Extend
    <3> QED
      BY <1>5, <3>1
  <2> QED
    BY <1>5, <2>2 DEF FiniteLedger
<1>8. /\ \A q \in DOMAIN turns : q \in Nat /\ turns[q] \in Turn /\ turns[q].by \in Nat
      /\ \A q \in DOMAIN turns : turns[q].by <= dispatch
      /\ Load.next \in Nat
  BY <1>2, BoundsAssumption
     DEF IInv, Types, DispatchTypeOK, IsLedger, Turn, Placed, IsMemory, IsState
<1>9. \A q \in DOMAIN turns : q <= Load.next /\ q < n
  <2>1. CASE cache.loaded
    <3>1. Load = cache
      BY <2>1 DEF Load
    <3>2. cache.next + 1 \notin DOMAIN turns
      BY <1>5, <3>1
    <3> QED
      BY <1>1, <1>8, <2>1, <3>1, <3>2 DEF IInv, Cached
  <2>2. CASE ~cache.loaded
    BY <1>2, <1>8, <2>2
  <2> QED
    BY <2>1, <2>2
<1> HIDE DEF n, t
<1>10. Types'
  BY <1>1, <1>2, <1>4, <1>6, <1>7, BoundsAssumption
     DEF IInv, Types, DispatchTypeOK, IsMemory, RunType
<1>11. StepsInv'
  BY <1>1, <1>6, BoundsAssumption DEF StepsInv, Compiling
<1>12. Placed'
  BY <1>1, <1>3, <1>6, <1>7, <1>8, <1>9 DEF Placed, Ours, End, t, User
<1>13. Memory' /\ Cached'
  BY <1>1, <1>2, <1>3, <1>4, <1>6, <1>7, <1>8, <1>9
     DEF Memory, Cached, MirrorsUpTo, End, n
<1>14. Closed'
  <2>1. \A r \in DOMAIN rows : r[1] \in Nat /\ r[1] <= dispatch
    BY BoundsAssumption DEF IInv, Types, DispatchTypeOK, Closed
  <2> QED
    BY <1>1, <2>1 DEF Closed
<1>15. LedgerOrdered'
  <2>1. \A q \in DOMAIN turns : Before(turns[q], t)
    BY <1>1, <1>8 DEF Before, t, User
  <2>2. FiniteLedger(turns) /\ Ordered(turns)
    BY DEF IInv, Types, DispatchTypeOK, FiniteLedger, LedgerOrdered, Ordered
  <2>3. \A q \in DOMAIN turns : ~(n < q)
    BY <1>3, <1>8, <1>9
  <2>4. Ordered(turns')
    BY <1>3, <1>5, <2>1, <2>2, <2>3, StaysOrdered
  <2> QED
    BY <2>4 DEF Ordered, LedgerOrdered
<1>16. JournalTells'
  <2>1. RunsJournalled'
    BY <1>1, <1>7 DEF IInv, JournalTells, RunsJournalled, t, User
  <2> QED
    BY <1>1, <1>7, <2>1 DEF IInv, JournalTells
<1> QED
  BY <1>10, <1>11, <1>12, <1>13, <1>14, <1>15, <1>16 DEF IInv

-----------------------------------------------------------------------------
(* Compiling, executing, reconciling *)

(* Moving between stages without touching a turn, a row or a run.          *)
LEMMA PcInv ==
  ASSUME IInv, Compiling, pc' \in {"recompiling", "reflecting"},
         UNCHANGED <<turns, rows, cut, cache, state, dispatch, request, run>>
  PROVE  IInv'
<1>1. pc \notin {"idle", "executing", "closing"}
  BY DEF Compiling
<1>2. Types'
  BY DEF IInv, Types, DispatchTypeOK
<1>3. StepsInv'
  BY <1>1 DEF IInv, StepsInv, Compiling
<1>4. Placed'
  BY <1>1 DEF IInv, Placed, Ours, End, CallSeq
<1>5. Memory' /\ Cached'
  BY <1>1 DEF IInv, Memory, Cached, MirrorsUpTo, End, Stayed
<1>6. Closed'
  BY <1>1 DEF IInv, Closed, Cuts
<1>7. LedgerOrdered'
  BY DEF IInv, LedgerOrdered
<1>8. JournalTells'
  BY <1>1 DEF IInv, JournalTells, RunsJournalled
<1> QED
  BY <1>2, <1>3, <1>4, <1>5, <1>6, <1>7, <1>8 DEF IInv

(* A dispatch under way has recorded its user's turn. *)
LEMMA UnderWay ==
  ASSUME IInv, pc # "idle"
  PROVE  run.base \in DOMAIN turns /\ dispatch \in 1 .. MaxDispatches
<1>1. run.base \in DOMAIN turns /\ turns[run.base] = User(dispatch)
  BY DEF IInv, Placed, Ours, Types, RunType
<1>2. User(dispatch) \in Turn
  BY <1>1 DEF IInv, Types, DispatchTypeOK, IsLedger
<1> QED
  BY <1>1, <1>2 DEF User, Turn

(* The products in the bound on the steps of a dispatch. *)
LEMMA Rounds ==
  ASSUME NEW k \in Nat, NEW m \in Nat, NEW x \in Nat, x <= k * m
  PROVE  /\ \A n \in Nat : n <= m => x + n <= (k + 1) * m
         /\ \A j \in Nat : k <= j => x <= j * m
<1>1. (k + 1) * m = k * m + m
  OBVIOUS
<1>2. ASSUME NEW j \in Nat, k <= j PROVE k * m <= j * m
  BY <1>2
<1>3. k * m \in Nat /\ \A j \in Nat : j * m \in Nat
  OBVIOUS
<1> QED
  BY <1>1, <1>2, <1>3

(* The next round has no row yet, and its steps no turns.                  *)
LEMMA ExecuteInv ==
  ASSUME IInv, NEW n \in 1 .. MaxPlanSteps, NEW deep \in BOOLEAN, Execute(n, deep)
  PROVE  IInv'
<1> DEFINE row == <<dispatch, run.round + 1>>
<1>1. /\ Compiling /\ pc \notin {"idle", "executing", "closing"} /\ pc' = "executing"
      /\ UNCHANGED <<turns, cache, state, dispatch, request, cut>>
      /\ rows' = Extend(rows, row, "running")
  BY DEF Execute, Compiling, Journal
<1>2. /\ run \in RunType /\ run.size = 0 /\ run.round < MaxRounds
      /\ run.trace <= run.round * MaxPlanSteps
  BY <1>1 DEF IInv, Types, StepsInv, RunType
<1>3. /\ run' \in RunType
      /\ run'.round = run.round + 1 /\ run'.base = run.base /\ run'.trace = run.trace
      /\ run'.size = n /\ run'.deep = deep /\ run'.failed = run.failed
      /\ run'.todo = 0 .. n - 1
  <2>1. run' = [run EXCEPT !.round = @ + 1, !.size = n, !.deep = deep, !.todo = 0 .. n - 1]
    BY DEF Execute, Planned
  <2>2. run.round + 1 \in Nat /\ n \in Nat /\ 0 .. n - 1 \subseteq Nat
    BY <1>2, BoundsAssumption DEF RunType
  <2>3. run' \in RunType
    BY <1>2, <2>1, <2>2 DEF RunType
  <2> QED
    BY <1>2, <2>1, <2>3 DEF RunType
<1>4. /\ run.round \in Nat /\ run.trace \in Nat /\ run.base \in Nat /\ n \in Nat
      /\ MaxPlanSteps \in Nat /\ MaxRounds \in Nat /\ n <= MaxPlanSteps
  BY <1>2, BoundsAssumption DEF RunType
<1>5. run.trace + n <= (run.round + 1) * MaxPlanSteps
  BY <1>2, <1>4, Rounds
<1>6. run'.round \in 0 .. MaxRounds /\ run'.size \in 0 .. MaxPlanSteps
  BY <1>2, <1>3, <1>4
<1>7. /\ DOMAIN rows' = DOMAIN rows \cup {row} /\ rows'[row] = "running"
      /\ \A r \in DOMAIN rows : r # row => rows'[r] = rows[r]
  BY <1>1 DEF Extend
<1>8. dispatch \in 1 .. MaxDispatches
  BY <1>1, UnderWay
<1>9. row \in (1 .. MaxDispatches) \X (1 .. MaxRounds)
  BY <1>2, <1>4, <1>8
<1>10. row \notin DOMAIN rows
  BY <1>1, <1>4 DEF IInv, Closed
<1>11. row[1] = dispatch /\ row[2] = run.round + 1
  OBVIOUS
<1> HIDE DEF row
<1>12. Types'
  <2>1. /\ DOMAIN rows' \subseteq (1 .. MaxDispatches) \X (1 .. MaxRounds)
        /\ \A r \in DOMAIN rows' : rows'[r] \in {"running", "done", "failed"}
    BY <1>7, <1>9 DEF IInv, Types, DispatchTypeOK
  <2> QED
    BY <1>1, <1>3, <1>6, <2>1 DEF IInv, Types, DispatchTypeOK, RunType
<1>13. StepsInv'
  BY <1>1, <1>3, <1>4, <1>5 DEF StepsInv, Compiling
<1>14. Placed'
  <2>1. \A q \in DOMAIN turns : q <= End
    BY <1>1, <1>4 DEF IInv, Placed, Ours, End, Types, DispatchTypeOK, IsLedger
  <2>2. \A q \in DOMAIN turns : turns[q].round \in Nat /\ q \in Nat
    BY <1>4 DEF IInv, Types, DispatchTypeOK, IsLedger, Turn
  <2> QED
    BY <1>1, <1>3, <1>4, <2>1, <2>2 DEF IInv, Placed, Ours, End
<1>15. Memory' /\ Cached'
  BY <1>1, <1>3 DEF IInv, Memory, Cached, MirrorsUpTo, End, Stayed
<1>16. Closed'
  BY <1>1, <1>3, <1>4, <1>7, <1>10, <1>11 DEF IInv, Closed, Cuts, Types, DispatchTypeOK
<1>17. LedgerOrdered'
  BY <1>1 DEF IInv, LedgerOrdered
<1>18. JournalTells'
  <2>1. RunsJournalled'
    BY <1>1, <1>3, <1>7 DEF IInv, JournalTells, RunsJournalled, row
  <2> QED
    BY <1>1, <1>7, <1>10, <1>11, <2>1 DEF IInv, JournalTells
<1> QED
  BY <1>12, <1>13, <1>14, <1>15, <1>16, <1>17, <1>18 DEF IInv

(* The numbers reserved for a step are its own, and come after everything  *)
(* recorded before the plan ran.                                           *)
LEMMA Reserved ==
  ASSUME IInv, pc = "executing", NEW i \in run.todo
  PROVE  /\ CallSeq(i) \in Nat \ {0} /\ CallSeq(i) + 1 \in Nat \ {0}
         /\ End < CallSeq(i) /\ End \in Nat /\ run.base <= End
         /\ i \in 0 .. run.size - 1 /\ i \in 0 .. MaxPlanSteps - 1
         /\ dispatch \in 1 .. MaxDispatches
         /\ Call(dispatch, run.round, i) \in Turn /\ Result(dispatch, run.round, i) \in Turn
<1>1. /\ run.base \in Nat /\ run.trace \in Nat /\ run.size \in Nat /\ run.size <= MaxPlanSteps
      /\ run.round \in 0 .. MaxRounds /\ run.todo \subseteq 0 .. run.size - 1
      /\ MaxPlanSteps \in Nat
  BY BoundsAssumption DEF IInv, Types, DispatchTypeOK, RunType
<1>2. i \in 0 .. run.size - 1 /\ i \in 0 .. MaxPlanSteps - 1
  BY <1>1
<1>3. /\ CallSeq(i) \in Nat \ {0} /\ CallSeq(i) + 1 \in Nat \ {0}
      /\ End < CallSeq(i) /\ End \in Nat /\ run.base <= End
  BY <1>1, <1>2 DEF CallSeq, End
<1>4. dispatch \in 1 .. MaxDispatches
  BY UnderWay
<1> QED
  BY <1>1, <1>2, <1>3, <1>4 DEF Turn, Call, Result

(* The turns of a step come in their place among the recorded ones.        *)
LEMMA PairPlace ==
  ASSUME IInv, pc = "executing", NEW i \in run.todo, NEW p \in DOMAIN turns,
         NEW t \in {Call(dispatch, run.round, i), Result(dispatch, run.round, i)}
  PROVE  /\ p # CallSeq(i) /\ p # CallSeq(i) + 1
         /\ p < CallSeq(i) => Before(turns[p], t)
         /\ CallSeq(i) < p => Before(t, turns[p])
<1>1. /\ run.base \in Nat /\ run.trace \in Nat /\ run.size \in Nat
      /\ run.round \in Nat /\ dispatch \in Nat /\ i \in Nat
  BY Reserved DEF IInv, Types, DispatchTypeOK, RunType
<1>2. /\ p \in Nat /\ turns[p].by \in Nat /\ turns[p].round \in Nat /\ turns[p].step \in Nat
  BY BoundsAssumption DEF IInv, Types, DispatchTypeOK, IsLedger, Turn
<1>3. /\ t.by = dispatch /\ t.round = run.round /\ t.step = i
      /\ t.kind \in {"call", "result"}
  BY DEF Call, Result
<1>4. Ours(p)
  BY DEF IInv, Placed
<1>5. CASE p < run.base
  BY <1>1, <1>2, <1>3, <1>4, <1>5 DEF Ours, Before, CallSeq
<1>6. CASE p = run.base
  BY <1>1, <1>2, <1>3, <1>4, <1>6 DEF Ours, Before, CallSeq, User
<1>7. CASE run.base < p /\ p <= End
  BY <1>1, <1>2, <1>3, <1>4, <1>7 DEF Ours, Before, CallSeq, End, IsCall
<1>8. CASE End < p
  <2>1. PICK j \in (0 .. run.size - 1) \ run.todo :
          \/ p = CallSeq(j) /\ turns[p] = Call(dispatch, run.round, j)
          \/ p = CallSeq(j) + 1 /\ turns[p] = Result(dispatch, run.round, j)
    BY <1>4, <1>8 DEF Ours
  <2>2. /\ turns[p].by = dispatch /\ turns[p].round = run.round /\ turns[p].step = j
        /\ turns[p].kind \in {"call", "result"}
    BY <2>1 DEF Call, Result
  <2>3. j \in Nat /\ j # i
    BY <1>1, <2>1
  <2>4. /\ p # CallSeq(i) /\ p # CallSeq(i) + 1
        /\ p < CallSeq(i) => j < i
        /\ CallSeq(i) < p => i < j
    BY <1>1, <2>1, <2>3 DEF CallSeq
  <2> QED
    BY <1>3, <2>2, <2>4 DEF Before
<1> QED
  BY <1>1, <1>2, <1>5, <1>6, <1>7, <1>8 DEF End

(* Both turns of a step find their place, or neither is recorded.          *)
LEMMA StepDoneInv ==
  ASSUME IInv, NEW i \in 0 .. MaxPlanSteps - 1, StepDone(i)
  PROVE  IInv'
<1> DEFINE c == CallSeq(i)
           call == Call(dispatch, run.round, i)
           result == Result(dispatch, run.round, i)
<1>1. /\ pc = "executing" /\ pc' = "executing" /\ i \in run.todo
      /\ UNCHANGED <<rows, cut, cache, state, dispatch, request>>
  BY DEF StepDone, journal
<1>2. /\ run' \in RunType
      /\ run'.round = run.round /\ run'.base = run.base /\ run'.trace = run.trace
      /\ run'.size = run.size /\ run'.deep = run.deep /\ run'.failed \in BOOLEAN
      /\ run'.todo = run.todo \ {i}
  <2>1. PICK failed \in {run.failed, TRUE} :
          run' = [run EXCEPT !.todo = @ \ {i}, !.failed = failed]
    BY DEF StepDone
  <2>2. run \in RunType /\ failed \in BOOLEAN
    BY DEF IInv, Types, RunType
  <2> QED
    BY <2>1, <2>2 DEF RunType
<1>3. /\ c \in Nat \ {0} /\ c + 1 \in Nat \ {0} /\ End < c /\ End \in Nat
      /\ run.base <= End /\ i \in 0 .. run.size - 1
      /\ dispatch \in 1 .. MaxDispatches /\ call \in Turn /\ result \in Turn
  BY <1>1, Reserved
<1>4. End' = End /\ \A j : CallSeq(j)' = CallSeq(j)
  BY <1>2 DEF End, CallSeq
<1>5. FiniteLedger(turns) /\ Ordered(turns)
  BY DEF IInv, Types, DispatchTypeOK, FiniteLedger, LedgerOrdered, Ordered
<1>6. \A p \in DOMAIN turns :
        /\ p \in Nat
        /\ p # c /\ p # c + 1
        /\ p < c => Before(turns[p], call) /\ Before(turns[p], result)
        /\ c < p => Before(call, turns[p]) /\ Before(result, turns[p])
  BY <1>1, PairPlace DEF IInv, Types, DispatchTypeOK, IsLedger
<1>7. \/ UNCHANGED turns
      \/ turns' = Extend(Extend(turns, c, call), c + 1, result)
  BY DEF StepDone, PersistPair
<1> HIDE DEF c, call, result
<1>8. /\ FiniteLedger(turns') /\ Ordered(turns')
      /\ \A p \in DOMAIN turns : p \in DOMAIN turns' /\ turns'[p] = turns[p]
      /\ \A p \in DOMAIN turns' :
           p \in DOMAIN turns \/ (p = c /\ turns'[p] = call) \/ (p = c + 1 /\ turns'[p] = result)
  <2>1. CASE UNCHANGED turns
    BY <1>5, <2>1
  <2>2. CASE turns' = Extend(Extend(turns, c, call), c + 1, result)
    <3> DEFINE g == Extend(turns, c, call)
    <3>1. /\ FiniteLedger(g) /\ DOMAIN g = DOMAIN turns \cup {c} /\ g[c] = call
          /\ \A p \in DOMAIN turns : g[p] = turns[p]
      <4>1. c \notin DOMAIN turns
        BY <1>6
      <4>2. FiniteLedger(g)
        BY <1>3, <1>5, <4>1, Inserted
      <4> QED
        BY <4>1, <4>2 DEF Extend
    <3>2. Ordered(g)
      BY <1>3, <1>5, <1>6, StaysOrdered
    <3> HIDE DEF g
    <3>3. turns' = Extend(g, c + 1, result) /\ c + 1 \notin DOMAIN g
      BY <1>3, <1>6, <2>2, <3>1 DEF g
    <3>4. /\ FiniteLedger(turns') /\ DOMAIN turns' = DOMAIN g \cup {c + 1}
          /\ turns'[c + 1] = result
          /\ \A p \in DOMAIN g : turns'[p] = g[p]
      <4>1. FiniteLedger(turns')
        BY <1>3, <3>1, <3>3, Inserted
      <4> QED
        BY <3>3, <4>1 DEF Extend
    <3>5. Before(call, result)
      BY DEF Before, call, result, Call, Result
    <3>6. \A p \in DOMAIN g : /\ p < c + 1 => Before(g[p], result)
                              /\ c + 1 < p => Before(result, g[p])
      BY <1>3, <1>6, <3>1, <3>5
    <3>7. Ordered(turns')
      BY <1>3, <3>1, <3>2, <3>3, <3>6, StaysOrdered
    <3> QED
      BY <3>1, <3>4, <3>7
  <2> QED
    BY <1>7, <2>1, <2>2
<1>9. \A p \in DOMAIN turns' : p \in DOMAIN turns \/ End < p
  BY <1>3, <1>8
<1>10. Types'
  BY <1>1, <1>2, <1>3, <1>8 DEF IInv, Types, DispatchTypeOK, FiniteLedger, RunType
<1>11. StepsInv'
  BY <1>1, <1>2 DEF IInv, StepsInv, Compiling
<1>12. Placed'
  <2>1. \A q \in DOMAIN turns' : turns'[q].by <= dispatch
    <3>1. \A q \in DOMAIN turns : turns[q].by <= dispatch
      BY DEF IInv, Placed
    <3>2. call.by = dispatch /\ result.by = dispatch
      BY DEF call, result, Call, Result
    <3> QED
      BY <1>3, <1>8, <3>1, <3>2
  <2>2. run.base \in DOMAIN turns'
    BY <1>1, <1>8 DEF IInv, Placed
  <2>3. ASSUME NEW q \in DOMAIN turns PROVE Ours(q)'
    <3>1. Ours(q) /\ turns'[q] = turns[q]
      BY <1>1, <1>8 DEF IInv, Placed
    <3> QED
      BY <1>1, <1>2, <1>4, <3>1 DEF Ours
  <2>4. ASSUME NEW q \in DOMAIN turns',
               (q = c /\ turns'[q] = call) \/ (q = c + 1 /\ turns'[q] = result)
        PROVE  Ours(q)'
    <3>1. ~(q < run.base) /\ q # run.base /\ ~(q <= End)
      BY <1>2, <1>3, <2>4 DEF RunType
    <3>2. i \in (0 .. run'.size - 1) \ run'.todo
      BY <1>2, <1>3
    <3>3. \/ q = CallSeq(i)' /\ turns'[q] = Call(dispatch, run.round, i)
          \/ q = CallSeq(i)' + 1 /\ turns'[q] = Result(dispatch, run.round, i)
      BY <1>4, <2>4 DEF c, call, result
    <3> QED
      BY <1>1, <1>2, <1>4, <3>1, <3>2, <3>3 DEF Ours
  <2> QED
    BY <1>1, <1>2, <1>8, <2>1, <2>2, <2>3, <2>4 DEF Placed
<1>13. Memory'
  BY <1>1, <1>3, <1>4, <1>8, <1>9 DEF IInv, Memory, MirrorsUpTo
<1>14. Cached'
  <2>1. cache.loaded => cache.next + 1 = run.base /\ cache.next \in Nat
    BY <1>1 DEF IInv, Cached, Types, DispatchTypeOK, IsState
  <2>2. cache.loaded => \A p \in DOMAIN turns' : p <= cache.next => p \in DOMAIN turns
    BY <1>3, <1>8, <2>1
  <2> QED
    BY <1>1, <1>2, <1>8, <2>1, <2>2 DEF IInv, Cached, MirrorsUpTo
<1>15. Closed'
  BY <1>1, <1>2 DEF IInv, Closed, Cuts
<1>16. LedgerOrdered'
  BY <1>8 DEF Ordered, LedgerOrdered
<1>17. JournalTells'
  <2>1. <<dispatch, run.round>> \in DOMAIN rows
    BY <1>1 DEF IInv, JournalTells, RunsJournalled
  <2>2. /\ call.by = dispatch /\ call.round = run.round
        /\ result.by = dispatch /\ result.round = run.round
    BY DEF call, result, Call, Result
  <2>3. \A q \in DOMAIN turns' :
          turns'[q].kind \in {"call", "result"} => <<turns'[q].by, turns'[q].round>> \in DOMAIN rows
    <3> SUFFICES ASSUME NEW q \in DOMAIN turns', turns'[q].kind \in {"call", "result"}
                 PROVE  <<turns'[q].by, turns'[q].round>> \in DOMAIN rows
      OBVIOUS
    <3>1. CASE q \in DOMAIN turns
      BY <1>8, <3>1 DEF IInv, JournalTells, RunsJournalled
    <3>2. CASE turns'[q] = call \/ turns'[q] = result
      BY <2>1, <2>2, <3>2
    <3> QED
      BY <1>8, <3>1, <3>2
  <2>4. RunsJournalled'
    BY <1>1, <1>2, <2>3 DEF IInv, JournalTells, RunsJournalled
  <2> QED
    BY <1>1, <1>8, <2>4 DEF IInv, JournalTells
<1> QED
  BY <1>10, <1>11, <1>12, <1>13, <1>14, <1>15, <1>16, <1>17 DEF IInv

(* The mirrored trace has every recorded turn of the round.                *)
LEMMA ReconcileInv ==
  ASSUME IInv, Reconcile
  PROVE  IInv'
<1> DEFINE n == run.size
           row == <<dispatch, run.round>>
<1>1. /\ pc = "executing" /\ run.todo = {} /\ pc' \in {"reflecting", "compiling"}
      /\ pc' = "compiling" => run.round < MaxRounds
      /\ state' = PushTrace(state, dispatch, run.round, n)
      /\ run' = [run EXCEPT !.trace = @ + n, !.size = 0]
      /\ UNCHANGED <<turns, cache, dispatch, request>>
  BY DEF Reconcile, MayContinue
<1>2. /\ run \in RunType /\ run.round # 0 /\ run.trace + n <= run.round * MaxPlanSteps
      /\ n <= MaxPlanSteps
  BY <1>1, BoundsAssumption DEF IInv, Types, StepsInv, DispatchTypeOK
<1>3. /\ run' \in RunType
      /\ run'.round = run.round /\ run'.base = run.base /\ run'.trace = run.trace + n
      /\ run'.size = 0 /\ run'.deep = run.deep /\ run'.failed = run.failed
      /\ run'.todo = {}
  <2>1. run.trace + n \in Nat /\ 0 \in Nat
    BY <1>2 DEF RunType
  <2>2. run' \in RunType
    BY <1>1, <1>2, <2>1 DEF RunType
  <2> HIDE DEF n
  <2> QED
    BY <1>1, <1>2, <2>1, <2>2 DEF RunType
<1>4. /\ run.round \in 1 .. MaxRounds /\ run.trace \in Nat /\ run.base \in Nat
      /\ n \in 0 .. MaxPlanSteps /\ MaxPlanSteps \in Nat /\ MaxRounds \in Nat
  BY <1>2, BoundsAssumption DEF IInv, Types, DispatchTypeOK, RunType
<1>5. run.trace + n \in 0 .. MaxRounds * MaxPlanSteps
  BY <1>2, <1>4, Rounds
<1>6. End \in Nat /\ End' = End + 2 * n /\ run.base <= End
  BY <1>3, <1>4 DEF End
<1>7. run.base \in DOMAIN turns /\ dispatch \in 1 .. MaxDispatches
  BY <1>1, UnderWay
<1>8. IsMemory(state) /\ state.next = End /\ MirrorsUpTo(state)
  BY <1>1 DEF IInv, Types, DispatchTypeOK, Memory, IsMemory
<1>9. /\ IsMemory(state') /\ state'.next = End'
      /\ DOMAIN state'.turns = DOMAIN state.turns \cup (End + 1 .. End + 2 * n)
      /\ \A q \in DOMAIN state.turns : state'.turns[q] = state.turns[q]
      /\ \A i \in 0 .. n - 1 : /\ state'.turns[End + 1 + 2 * i] = Call(dispatch, run.round, i)
                               /\ state'.turns[End + 2 + 2 * i] = Result(dispatch, run.round, i)
  <2> DEFINE u == PushTrace(state, dispatch, run.round, n)
  <2>1. run.round \in 0 .. MaxRounds
    BY <1>4
  <2> HIDE DEF n
  <2>2. Traced(u, state, dispatch, run.round, n)
    BY <1>4, <1>7, <1>8, <2>1, PushTraceFacts
  <2>3. state' = u
    BY <1>1
  <2> HIDE DEF u
  <2> QED
    BY <1>6, <1>8, <2>2, <2>3 DEF Traced
<1>10. ASSUME NEW q \in DOMAIN turns, End < q
       PROVE  \E i \in 0 .. n - 1 :
                \/ q = End + 1 + 2 * i /\ turns[q] = Call(dispatch, run.round, i)
                \/ q = End + 2 + 2 * i /\ turns[q] = Result(dispatch, run.round, i)
  <2>1. PICK i \in 0 .. n - 1 :
          \/ q = CallSeq(i) /\ turns[q] = Call(dispatch, run.round, i)
          \/ q = CallSeq(i) + 1 /\ turns[q] = Result(dispatch, run.round, i)
    BY <1>1, <1>10 DEF IInv, Placed, Ours
  <2>2. CallSeq(i) = End + 1 + 2 * i /\ CallSeq(i) + 1 = End + 2 + 2 * i
    BY <1>4 DEF CallSeq, End
  <2> QED
    BY <2>1, <2>2
<1>11. \/ UNCHANGED <<rows, cut>> /\ run.round = 1
       \/ UNCHANGED cut /\ run.round # 1 /\ rows' = [rows EXCEPT ![row] = "done"]
       \/ UNCHANGED rows /\ cut' = cut \cup {<<dispatch, "lost">>}
  BY DEF Reconcile, SetStatus, journal
<1>12. row[1] = dispatch /\ row[2] = run.round
  OBVIOUS
<1> HIDE DEF n, row
<1>13. /\ DOMAIN rows' = DOMAIN rows /\ cut \subseteq cut'
       /\ cut' \subseteq (1 .. MaxDispatches) \X {"left", "lost"}
       /\ \A r \in DOMAIN rows :
            \/ rows'[r] = rows[r]
            \/ r = row /\ run.round # 1 /\ rows'[r] = "done"
       /\ run.round = 1 \/ (row \in DOMAIN rows => rows'[row] = "done") \/ Cuts(dispatch)'
  <2>1. cut \subseteq (1 .. MaxDispatches) \X {"left", "lost"}
    BY DEF IInv, Types, DispatchTypeOK
  <2>2. CASE UNCHANGED <<rows, cut>> /\ run.round = 1
    BY <2>1, <2>2
  <2>3. CASE UNCHANGED cut /\ run.round # 1 /\ rows' = [rows EXCEPT ![row] = "done"]
    BY <2>1, <2>3
  <2>4. CASE UNCHANGED rows /\ cut' = cut \cup {<<dispatch, "lost">>}
    <3>1. <<dispatch, "lost">> \in cut' /\ <<dispatch, "lost">>[1] = dispatch /\ dispatch' = dispatch
      BY <1>1, <2>4
    <3>2. Cuts(dispatch)'
      BY <3>1 DEF Cuts
    <3> QED
      BY <1>7, <2>1, <2>4, <3>2
  <2> QED
    BY <1>11, <2>2, <2>3, <2>4
<1>14. Types'
  <2>1. /\ IsState(state') /\ Shape(state') /\ run'.trace \in 0 .. MaxRounds * MaxPlanSteps
    BY <1>3, <1>5, <1>9 DEF IsMemory
  <2>2. /\ run'.todo \subseteq 0 .. run'.size - 1 /\ run'.size \in 0 .. MaxPlanSteps
        /\ run'.round \in 0 .. MaxRounds
    BY <1>3, <1>4
  <2>3. \A r \in DOMAIN rows' : rows'[r] \in {"running", "done", "failed"}
    BY <1>13 DEF IInv, Types, DispatchTypeOK
  <2> QED
    BY <1>1, <1>3, <1>13, <2>1, <2>2, <2>3 DEF IInv, Types, DispatchTypeOK, RunType
<1>15. StepsInv'
  BY <1>1, <1>2, <1>3, <1>4 DEF StepsInv, Compiling
<1>16. Placed'
  <2>1. ASSUME NEW q \in DOMAIN turns PROVE Ours(q)'
    <3>1. Ours(q) /\ q \in Nat /\ turns[q].round \in Nat
      BY <1>1, BoundsAssumption DEF IInv, Placed, Types, DispatchTypeOK, IsLedger, Turn
    <3>2. CASE q <= End
      BY <1>1, <1>3, <1>4, <1>6, <3>1, <3>2 DEF Ours
    <3>3. CASE End < q
      <4>1. /\ q <= End' /\ run.base < q
            /\ turns[q].by = dispatch /\ turns[q].round = run.round /\ IsCall(turns[q])
        BY <1>4, <1>6, <1>10, <3>1, <3>3 DEF Call, Result, IsCall
      <4> QED
        BY <1>1, <1>3, <1>4, <1>6, <3>1, <4>1 DEF Ours
    <3> QED
      BY <1>6, <3>1, <3>2, <3>3
  <2> QED
    BY <1>1, <1>3, <1>7, <2>1 DEF IInv, Placed
<1>17. Memory'
  <2>1. ASSUME NEW q \in DOMAIN turns, q <= End'
        PROVE  q \in DOMAIN state'.turns /\ state'.turns[q] = turns[q]
    <3>1. q \in Nat
      BY DEF IInv, Types, DispatchTypeOK, IsLedger
    <3>2. CASE q <= End
      BY <1>8, <1>9, <3>2 DEF MirrorsUpTo
    <3>3. CASE End < q
      <4>1. q \in DOMAIN state'.turns
        BY <1>6, <1>9, <2>1, <3>1, <3>3
      <4>2. state'.turns[q] = turns[q]
        BY <1>9, <1>10, <3>3
      <4> QED
        BY <4>1, <4>2
    <3> QED
      BY <1>6, <3>1, <3>2, <3>3
  <2> QED
    BY <1>1, <1>9, <2>1 DEF Memory, MirrorsUpTo
<1>18. Cached'
  BY <1>1, <1>3 DEF IInv, Cached, MirrorsUpTo
<1>19. Closed'
  <2>1. \A r \in DOMAIN rows :
          r[1] = dispatch /\ rows[r] = "running" => r[2] = 1 \/ Cuts(dispatch) \/ r = row
    <3>1. \A r \in DOMAIN rows : r = <<r[1], r[2]>>
      BY DEF IInv, Types, DispatchTypeOK
    <3> QED
      BY <1>1, <3>1 DEF IInv, Closed, row
  <2>2. Cuts(dispatch) => Cuts(dispatch)'
    BY <1>13, <1>1 DEF Cuts
  <2>3. ASSUME NEW r \in DOMAIN rows', r[1] = dispatch, rows'[r] = "running"
        PROVE  r[2] = 1 \/ Cuts(dispatch)'
    BY <1>12, <1>13, <2>1, <2>2, <2>3
  <2>4. dispatch' = dispatch /\ (\A r \in DOMAIN rows : r[1] <= dispatch)
        /\ \A r \in DOMAIN rows : r[1] = dispatch => r[2] <= run.round
    BY <1>1 DEF IInv, Closed
  <2> QED
    BY <1>1, <1>3, <1>13, <2>3, <2>4 DEF Closed, Cuts
<1>20. LedgerOrdered'
  BY <1>1 DEF IInv, LedgerOrdered
<1>21. JournalTells'
  <2>1. RunsJournalled'
    BY <1>1, <1>13 DEF IInv, JournalTells, RunsJournalled
  <2>2. ASSUME NEW r \in DOMAIN rows', r[2] = 1, rows'[r] = "done"
        PROVE  \E q \in DOMAIN turns' : turns'[q] = Reply(r[1])
    BY <1>1, <1>12, <1>13, <2>2 DEF IInv, JournalTells
  <2>3. ASSUME NEW r \in DOMAIN rows', rows'[r] = "running"
        PROVE  (\E e \in cut' : e[1] = r[1]) \/ r[1] = dispatch
    BY <1>13, <2>3 DEF IInv, JournalTells
  <2> QED
    BY <1>1, <2>1, <2>2, <2>3 DEF JournalTells
<1> QED
  BY <1>14, <1>15, <1>16, <1>17, <1>18, <1>19, <1>20, <1>21 DEF IInv

(* The reply comes last.                                                   *)
LEMMA RecordReplyInv ==
  ASSUME IInv, RecordReply
  PROVE  IInv'
<1> DEFINE n == state.next + 1
           t == Reply(dispatch)
<1>1. /\ pc = "reflecting" /\ pc' = "closing" /\ state' = Push(state, t)
      /\ UNCHANGED <<rows, cut, cache, dispatch, request, run>>
  BY DEF RecordReply, journal
<1>2. /\ run.base \in Nat /\ run.trace \in Nat /\ run.base <= End /\ End \in Nat
      /\ IsMemory(state) /\ state.next = End /\ MirrorsUpTo(state)
  BY <1>1 DEF IInv, Types, DispatchTypeOK, RunType, End, Memory, IsMemory
<1>3. run.base \in DOMAIN turns /\ dispatch \in 1 .. MaxDispatches
  BY <1>1, UnderWay
<1>4. n \in Nat \ {0} /\ n = End + 1 /\ t \in Turn
  BY <1>2, <1>3, BoundsAssumption DEF Turn, Reply
<1>5. /\ IsMemory(state') /\ state'.next = n
      /\ state'.turns[n] = t /\ DOMAIN state'.turns = DOMAIN state.turns \cup {n}
      /\ \A q \in DOMAIN state.turns : state'.turns[q] = state.turns[q]
  BY <1>1, <1>2, <1>4, PushFacts
<1>6. turns' = Extend(turns, n, t)
  BY <1>1, <1>5 DEF RecordReply
<1>7. \A q \in DOMAIN turns : q \in Nat /\ Ours(q) /\ q <= End /\ q < n
  BY <1>1, <1>2, <1>4 DEF IInv, Placed, Ours, Types, DispatchTypeOK, IsLedger
<1>8. FiniteLedger(turns) /\ Ordered(turns)
  BY DEF IInv, Types, DispatchTypeOK, FiniteLedger, LedgerOrdered, Ordered
<1> HIDE DEF n, t
<1>9. n \notin DOMAIN turns
  BY <1>4, <1>7
<1>10. /\ FiniteLedger(turns') /\ DOMAIN turns' = DOMAIN turns \cup {n} /\ turns'[n] = t
       /\ \A q \in DOMAIN turns : turns'[q] = turns[q]
  <2>1. FiniteLedger(turns')
    BY <1>4, <1>6, <1>8, <1>9, Inserted
  <2> QED
    BY <1>6, <1>9, <2>1 DEF Extend
<1>11. End' = End /\ \A i : CallSeq(i)' = CallSeq(i)
  BY <1>1 DEF End, CallSeq
<1>12. Types'
  BY <1>1, <1>5, <1>10 DEF IInv, Types, DispatchTypeOK, FiniteLedger, IsMemory
<1>13. StepsInv'
  BY <1>1 DEF IInv, StepsInv, Compiling
<1>14. Placed'
  <2>1. ASSUME NEW q \in DOMAIN turns PROVE Ours(q)'
    <3>1. turns'[q] = turns[q] /\ Ours(q) /\ q <= End /\ q \in Nat
      BY <1>7, <1>10
    <3> QED
      BY <1>1, <1>2, <1>11, <3>1 DEF Ours
  <2>2. ASSUME NEW q \in DOMAIN turns', q = n PROVE Ours(q)'
    BY <1>1, <1>2, <1>4, <1>10, <1>11, <2>2 DEF Ours, t
  <2>3. t.by = dispatch
    BY DEF t, Reply
  <2>4. \A q \in DOMAIN turns' : turns'[q].by <= dispatch
    BY <1>3, <1>10, <2>3 DEF IInv, Placed
  <2> QED
    BY <1>1, <1>3, <1>4, <1>10, <1>11, <2>1, <2>2, <2>4 DEF Placed
<1>15. Memory'
  <2>1. MirrorsUpTo(state)'
    BY <1>2, <1>5, <1>7, <1>10 DEF MirrorsUpTo
  <2> QED
    BY <1>1, <1>4, <1>5, <1>11, <2>1 DEF Memory
<1>16. Cached'
  <2>1. cache.loaded => cache.next + 1 = run.base /\ cache.next \in Nat
    BY <1>1 DEF IInv, Cached, Types, DispatchTypeOK, IsState
  <2>2. cache.loaded => \A p \in DOMAIN turns' : p <= cache.next => p \in DOMAIN turns
    BY <1>2, <1>4, <1>10, <2>1
  <2> QED
    BY <1>1, <1>10, <2>1, <2>2 DEF IInv, Cached, MirrorsUpTo
<1>17. Closed'
  BY <1>1 DEF IInv, Closed, Cuts
<1>18. LedgerOrdered'
  <2>1. ASSUME NEW q \in DOMAIN turns PROVE Before(turns[q], t)
    <3>1. /\ turns[q].by < dispatch \/ (turns[q].by = dispatch /\ turns[q].kind # "reply")
      BY <1>2, <1>7 DEF Ours, IsCall, User
    <3> QED
      BY <3>1 DEF Before, t, Reply
  <2>2. \A q \in DOMAIN turns : ~(n < q)
    BY <1>4, <1>7
  <2>3. Ordered(turns')
    BY <1>4, <1>6, <1>8, <1>9, <2>1, <2>2, StaysOrdered
  <2> QED
    BY <2>3 DEF Ordered, LedgerOrdered
<1>19. JournalTells'
  <2>1. t.kind = "reply"
    BY DEF t, Reply
  <2>2. RunsJournalled'
    BY <1>1, <1>10, <2>1 DEF IInv, JournalTells, RunsJournalled
  <2> QED
    BY <1>1, <1>10, <2>2 DEF IInv, JournalTells
<1> QED
  BY <1>12, <1>13, <1>14, <1>15, <1>16, <1>17, <1>18, <1>19 DEF IInv

-----------------------------------------------------------------------------
(* The endings *)

(* A dispatch without a plan has no row to close.                          *)
LEMMA NoFirstPlanInv ==
  ASSUME IInv, NoFirstPlan
  PROVE  IInv'
<1>1. /\ Leave /\ cache' = NoState /\ UNCHANGED <<turns, rows, cut>> /\ run.round = 0
      /\ pc # "idle"
  BY DEF NoFirstPlan, ReturnErr, Compiling, journal
<1>2. IsMemory(cache') /\ Cached'
  BY <1>1, NoStateMemory DEF Cached
<1>3. \A r \in DOMAIN rows : rows[r] = "running" => Cuts(r[1])
  <2>1. \A r \in DOMAIN rows : r[2] \in 1 .. MaxRounds
    BY DEF IInv, Types, DispatchTypeOK
  <2>2. \A r \in DOMAIN rows : r[1] # dispatch
    BY <1>1, <2>1, BoundsAssumption DEF IInv, Closed
  <2> QED
    BY <2>2 DEF IInv, JournalTells, Cuts
<1> QED
  BY <1>1, <1>2, <1>3, LeaveInv DEF IInv, Types, DispatchTypeOK, JournalTells, Cuts

(* Closing a dispatch's first row, or failing to, leaves no row of it      *)
(* running that is not accounted for.                                      *)
LEMMA RunClosed ==
  ASSUME IInv, pc \in {"reflecting", "closing"}, NEW status \in {"done", "failed"},
         CloseRun(status), dispatch' = dispatch
  PROVE  /\ DOMAIN rows' = DOMAIN rows /\ cut \subseteq cut'
         /\ cut' \subseteq (1 .. MaxDispatches) \X {"left", "lost"}
         /\ \A r \in DOMAIN rows :
              /\ rows'[r] \in {"running", "done", "failed"}
              /\ rows'[r] = "running" => Cuts(r[1])'
              /\ rows'[r] # rows[r] => r[1] = dispatch /\ rows'[r] = status
<1> DEFINE row == <<dispatch, 1>>
<1>1. /\ DOMAIN rows \subseteq (1 .. MaxDispatches) \X (1 .. MaxRounds)
      /\ cut \subseteq (1 .. MaxDispatches) \X {"left", "lost"}
      /\ \A r \in DOMAIN rows : rows[r] \in {"running", "done", "failed"}
  BY DEF IInv, Types, DispatchTypeOK
<1>2. dispatch \in 1 .. MaxDispatches
  BY UnderWay
<1>3. ASSUME NEW r \in DOMAIN rows, rows[r] = "running"
      PROVE  Cuts(r[1]) \/ (r = row /\ run.round # 0)
  <2>1. r = <<r[1], r[2]>> /\ r[2] \in 1 .. MaxRounds
    BY <1>1
  <2>2. Cuts(r[1]) \/ r[1] = dispatch
    BY <1>3 DEF IInv, JournalTells, Cuts
  <2>3. CASE r[1] = dispatch
    BY <1>3, <2>1, <2>3, BoundsAssumption DEF IInv, Closed, Types, DispatchTypeOK
  <2> QED
    BY <2>2, <2>3
<1>4. \/ UNCHANGED <<rows, cut>> /\ run.round = 0
      \/ rows' = [rows EXCEPT ![row] = status] /\ UNCHANGED cut
      \/ UNCHANGED rows /\ cut' = cut \cup {<<dispatch, "lost">>}
  BY DEF CloseRun, SetStatus, journal
<1>5. row[1] = dispatch
  OBVIOUS
<1> HIDE DEF row
<1>6. CASE UNCHANGED <<rows, cut>> /\ run.round = 0
  BY <1>1, <1>3, <1>6 DEF Cuts
<1>7. CASE rows' = [rows EXCEPT ![row] = status] /\ UNCHANGED cut
  BY <1>1, <1>3, <1>5, <1>7 DEF Cuts
<1>8. CASE UNCHANGED rows /\ cut' = cut \cup {<<dispatch, "lost">>}
  <2>1. Cuts(dispatch)'
    <3>1. <<dispatch, "lost">> \in cut' /\ <<dispatch, "lost">>[1] = dispatch
      BY <1>8
    <3> QED
      BY <3>1 DEF Cuts
  <2>2. \A d : Cuts(d) => Cuts(d)'
    BY <1>8 DEF Cuts
  <2> QED
    BY <1>1, <1>2, <1>3, <1>5, <1>8, <2>1, <2>2
<1> QED
  BY <1>4, <1>6, <1>7, <1>8

(* The endings with an error.                                              *)
LEMMA ReflectFailsInv ==
  ASSUME IInv, ReflectFails
  PROVE  IInv'
<1>1. /\ Leave /\ cache' = NoState /\ UNCHANGED turns /\ pc = "reflecting"
      /\ CloseRun("failed") /\ dispatch' = dispatch
  BY DEF ReflectFails, ReturnErr, Leave
<1>2. IsMemory(cache') /\ Cached'
  BY <1>1, NoStateMemory DEF Cached
<1>3. /\ DOMAIN rows' = DOMAIN rows /\ cut \subseteq cut'
      /\ cut' \subseteq (1 .. MaxDispatches) \X {"left", "lost"}
      /\ \A r \in DOMAIN rows :
           /\ rows'[r] \in {"running", "done", "failed"}
           /\ rows'[r] = "running" => Cuts(r[1])'
           /\ rows'[r] # rows[r] => r[1] = dispatch /\ rows'[r] = "failed"
  BY <1>1, RunClosed
<1>4. \A r \in DOMAIN rows : rows'[r] = "done" => rows[r] = "done"
  BY <1>3
<1> QED
  BY <1>1, <1>2, <1>3, <1>4, LeaveInv DEF IInv, JournalTells

(* The conversation put in the cache has every recorded turn.              *)
LEMMA ReturnOkInv ==
  ASSUME IInv, ReturnOk
  PROVE  IInv'
<1>1. /\ Leave /\ cache' = state /\ UNCHANGED turns /\ pc = "closing" /\ pc' = "idle"
      /\ CloseRun("done") /\ dispatch' = dispatch
  BY DEF ReturnOk, Leave
<1>2. IsMemory(cache') /\ Cached'
  <2>1. IsMemory(state)
    BY DEF IInv, Types, DispatchTypeOK, IsMemory
  <2>2. state.next = End + 1 /\ MirrorsUpTo(state)
    BY <1>1 DEF IInv, Memory
  <2>3. \A q \in DOMAIN turns : q <= End + 1
    BY <1>1 DEF IInv, Placed, Ours, Types, DispatchTypeOK, IsLedger, RunType, End
  <2>4. MirrorsUpTo(cache)'
    BY <1>1, <2>2 DEF MirrorsUpTo
  <2> QED
    BY <1>1, <2>1, <2>2, <2>3, <2>4 DEF Cached
<1>3. /\ DOMAIN rows' = DOMAIN rows /\ cut \subseteq cut'
      /\ cut' \subseteq (1 .. MaxDispatches) \X {"left", "lost"}
      /\ \A r \in DOMAIN rows :
           /\ rows'[r] \in {"running", "done", "failed"}
           /\ rows'[r] = "running" => Cuts(r[1])'
           /\ rows'[r] # rows[r] => r[1] = dispatch /\ rows'[r] = "done"
  BY <1>1, RunClosed
<1>4. \E q \in DOMAIN turns : turns[q] = Reply(dispatch)
  <2>1. End + 1 \in DOMAIN turns /\ Ours(End + 1)
    BY <1>1 DEF IInv, Placed
  <2>2. End \in Nat
    BY DEF IInv, Types, DispatchTypeOK, RunType, End
  <2>3. run.base <= End
    BY DEF IInv, Types, DispatchTypeOK, RunType, End
  <2>4. turns[End + 1] = Reply(dispatch)
    BY <1>1, <2>1, <2>2 DEF Ours
  <2> QED
    BY <2>1, <2>4
<1>5. \A r \in DOMAIN rows :
        r[2] = 1 /\ rows'[r] = "done" => \E q \in DOMAIN turns : turns[q] = Reply(r[1])
  BY <1>3, <1>4 DEF IInv, JournalTells
<1> QED
  BY <1>1, <1>2, <1>3, <1>5, LeaveInv

(* A dispatch that is cut off leaves its rows as they are, known as its.   *)
LEMMA CutOffInv ==
  ASSUME IInv, pc # "idle", Leave, UNCHANGED <<turns, rows>>, NEW why \in {"left", "lost"},
         cut' = cut \cup {<<dispatch, why>>}, IsMemory(cache'), Cached'
  PROVE  IInv'
<1>1. dispatch \in 1 .. MaxDispatches /\ dispatch' = dispatch
  BY UnderWay DEF Leave
<1>2. cut \subseteq cut' /\ cut' \subseteq (1 .. MaxDispatches) \X {"left", "lost"}
  BY <1>1 DEF IInv, Types, DispatchTypeOK
<1>3. <<dispatch, why>> \in cut' /\ <<dispatch, why>>[1] = dispatch
  OBVIOUS
<1>4. Cuts(dispatch)' /\ \A d : Cuts(d) => Cuts(d)'
  BY <1>1, <1>2, <1>3 DEF Cuts
<1>5. \A r \in DOMAIN rows : rows[r] = "running" => Cuts(r[1])'
  BY <1>4 DEF IInv, JournalTells, Cuts
<1> QED
  BY <1>2, <1>5, LeaveInv DEF IInv, Types, DispatchTypeOK, JournalTells

(* A client that leaves.                                                   *)
LEMMA AbandonInv ==
  ASSUME IInv, Abandon
  PROVE  IInv'
<1>1. /\ pc # "idle" /\ Leave /\ pc' = "idle" /\ UNCHANGED <<turns, rows, cache>>
      /\ cut' = cut \cup {<<dispatch, "left">>}
  BY DEF Abandon, Compiling, Leave
<1>2. IsMemory(cache') /\ Cached'
  <2>1. ~Stayed'
    <3>1. <<dispatch, "left">> \in cut' /\ <<dispatch, "left">>[2] = "left"
      BY <1>1
    <3> QED
      BY <3>1 DEF Stayed
  <2>2. cache.loaded => cache.next + 1 \in DOMAIN turns
    BY <1>1 DEF IInv, Cached, Placed
  <2>3. cache' = cache /\ turns' = turns /\ (cache.loaded => MirrorsUpTo(cache)) /\ IsMemory(cache)
    BY <1>1 DEF IInv, Cached, Types, DispatchTypeOK, IsMemory
  <2> QED
    BY <1>1, <2>1, <2>2, <2>3 DEF Cached, MirrorsUpTo
<1> QED
  BY <1>1, <1>2, CutOffInv

(* A crash.                                                                *)
LEMMA CrashInv ==
  ASSUME IInv, Crash
  PROVE  IInv'
<1>1. /\ Leave /\ cache' = NoState /\ UNCHANGED <<turns, rows>>
      /\ cut' = IF pc = "idle" THEN cut ELSE cut \cup {<<dispatch, "lost">>}
  BY DEF Crash
<1>2. IsMemory(cache') /\ Cached'
  BY <1>1, NoStateMemory DEF Cached
<1>3. CASE pc = "idle"
  <2>1. \A r \in DOMAIN rows : rows[r] = "running" => Cuts(r[1])
    BY <1>3 DEF IInv, JournalTells, Cuts
  <2> QED
    BY <1>1, <1>2, <1>3, <2>1, LeaveInv DEF IInv, Types, DispatchTypeOK, JournalTells, Cuts
<1>4. CASE pc # "idle"
  BY <1>1, <1>2, <1>4, CutOffInv
<1> QED
  BY <1>3, <1>4

(* An eviction.                                                            *)
LEMMA EvictInv ==
  ASSUME IInv, Evict
  PROVE  IInv'
<1>1. cache' = NoState /\ UNCHANGED <<turns, rows, cut, state, dispatch, request, run, pc>>
  BY DEF Evict, journal
<1>2. Types'
  BY <1>1, NoStateMemory DEF IInv, Types, DispatchTypeOK, IsMemory
<1>3. StepsInv' /\ Memory' /\ Cached' /\ Closed'
  BY <1>1, NoStateMemory
     DEF IInv, StepsInv, Compiling, Memory, MirrorsUpTo, End, Cached, Closed, Cuts
<1>4. Placed'
  BY <1>1 DEF IInv, Placed, Ours, End, CallSeq
<1>5. LedgerOrdered' /\ JournalTells'
  BY <1>1 DEF IInv, LedgerOrdered, JournalTells, RunsJournalled
<1> QED
  BY <1>2, <1>3, <1>4, <1>5 DEF IInv

-----------------------------------------------------------------------------
(* The invariant *)

(* Nothing has happened yet.                                               *)
LEMMA InitIInv == DispatchInit => IInv
<1> SUFFICES ASSUME DispatchInit PROVE IInv
  OBVIOUS
<1> USE NoStateMemory, NoRunType
<1>1. DOMAIN turns = {} /\ DOMAIN rows = {}
  BY DEF DispatchInit
<1>2. pc = "idle" /\ dispatch = 0 /\ cut = {} /\ cache = NoState /\ state = NoState /\ run = NoRun
  BY DEF DispatchInit
<1>3. Types
  <2>1. /\ run.round \in 0 .. MaxRounds /\ run.base \in Nat /\ run.deep \in BOOLEAN
        /\ run.size \in 0 .. MaxPlanSteps /\ run.failed \in BOOLEAN
        /\ run.todo \subseteq 0 .. run.size - 1
        /\ run.trace \in 0 .. MaxRounds * MaxPlanSteps /\ run \in RunType
    BY <1>2, BoundsAssumption DEF RunType
  <2>2. IsLedger(turns) /\ IsState(cache) /\ IsState(state) /\ Shape(cache) /\ Shape(state)
    BY <1>1, <1>2 DEF IsLedger, IsMemory
  <2> QED
    BY <1>1, <1>2, <2>1, <2>2, BoundsAssumption DEF DispatchInit, Types, DispatchTypeOK, Request
<1>4. StepsInv
  BY <1>2, BoundsAssumption DEF StepsInv, Compiling
<1>5. Placed /\ Memory /\ Cached /\ Closed
  BY <1>1, <1>2 DEF Placed, Memory, Cached, Closed
<1>6. LedgerOrdered /\ JournalTells
  BY <1>1, <1>2 DEF LedgerOrdered, JournalTells, RunsJournalled
<1> QED
  BY <1>3, <1>4, <1>5, <1>6 DEF IInv

(* Every step keeps the invariant.                                         *)
LEMMA IInvStep == IInv /\ [DispatchNext]_dispatchVars => IInv'
<1> SUFFICES ASSUME IInv, [DispatchNext]_dispatchVars PROVE IInv'
  OBVIOUS
<1>1. ASSUME NEW k \in Requests, BeginFails(k) \/ RecordUser(k) PROVE IInv'
  BY <1>1, BeginFailsInv, RecordUserInv
<1>2. CASE Recompile
  BY <1>2, PcInv DEF Recompile, Compiling, journal
<1>3. CASE NoFirstPlan
  BY <1>3, NoFirstPlanInv
<1>4. CASE NothingToRun \/ StopRounds
  BY <1>4, PcInv DEF NothingToRun, StopRounds, Reflect, journal
<1>5. ASSUME NEW n \in 1 .. MaxPlanSteps, NEW deep \in BOOLEAN, Execute(n, deep) PROVE IInv'
  BY <1>5, ExecuteInv
<1>6. ASSUME NEW i \in 0 .. MaxPlanSteps - 1, StepDone(i) PROVE IInv'
  BY <1>6, StepDoneInv
<1>7. CASE Reconcile
  BY <1>7, ReconcileInv
<1>8. CASE ReflectFails
  BY <1>8, ReflectFailsInv
<1>9. CASE RecordReply
  BY <1>9, RecordReplyInv
<1>10. CASE ReturnOk
  BY <1>10, ReturnOkInv
<1>11. CASE Abandon
  BY <1>11, AbandonInv
<1>12. CASE Crash
  BY <1>12, CrashInv
<1>13. CASE Evict
  BY <1>13, EvictInv
<1>14. CASE UNCHANGED dispatchVars
  <2>1. UNCHANGED <<turns, rows, cut, cache, state, dispatch, request, run, pc>>
    BY <1>14 DEF dispatchVars
  <2>2. Types' /\ StepsInv' /\ Memory' /\ Cached' /\ Closed'
    BY <2>1 DEF IInv, Types, DispatchTypeOK, StepsInv, Compiling, Memory, MirrorsUpTo, End,
                Cached, Stayed, Closed, Cuts
  <2>3. Placed'
    BY <2>1 DEF IInv, Placed, Ours, End, CallSeq
  <2>4. LedgerOrdered' /\ JournalTells'
    BY <2>1 DEF IInv, LedgerOrdered, JournalTells, RunsJournalled
  <2> QED
    BY <2>2, <2>3, <2>4 DEF IInv
<1> QED
  BY <1>1, <1>2, <1>3, <1>4, <1>5, <1>6, <1>7, <1>8, <1>9, <1>10, <1>11, <1>12, <1>13, <1>14
     DEF DispatchNext

(* So it holds throughout.                                                 *)
LEMMA DispatchInvariance == DispatchSpec => []IInv
  BY InitIInv, IInvStep, PTL DEF DispatchSpec

(* The state of a conversation and its dispatches keeps its types,         *)
(* whatever fails, crashes or is abandoned; in particular no dispatch      *)
(* executes more than MAX_PLAN_ROUNDS plans.                               *)
THEOREM DispatchTypeCorrect == DispatchSpec => []DispatchTypeOK
<1>1. IInv => DispatchTypeOK
  BY DEF IInv, Types
<1> QED
  BY <1>1, DispatchInvariance, PTL

(* However steps finish out of order, writes fail, the process crashes or  *)
(* a client leaves, the recorded turns are in the order of the             *)
(* conversation (persist_tool_pair_at).                                    *)
THEOREM TurnsInOrder == DispatchSpec => []LedgerOrdered
<1>1. IInv => LedgerOrdered
  BY DEF IInv
<1> QED
  BY <1>1, DispatchInvariance, PTL

(* What the plan journal says of a plan is true (plan_runs.rs): no tool    *)
(* turn without the row of its plan, no first plan done before its reply   *)
(* is recorded, no row left running but by an interrupted dispatch.        *)
THEOREM JournalTrue == DispatchSpec => []JournalTells
<1>1. IInv => JournalTells
  BY DEF IInv
<1> QED
  BY <1>1, DispatchInvariance, PTL

(* As long as no client has left, the conversation in memory and the       *)
(* recorded one agree, and no turn is about to be inserted at a taken      *)
(* number.                                                                 *)
THEOREM Agreement == DispatchSpec => []ViewsAgree
<1>1. IInv => ViewsAgree
  <2> SUFFICES ASSUME IInv, Stayed
               PROVE  /\ pc = "idle" /\ cache.loaded => Mirrors(cache)
                      /\ Compiling \/ pc \in {"reflecting", "closing"} => Mirrors(state)
                      /\ NextSeqFree
    BY DEF ViewsAgree
  <2>1. pc = "idle" /\ cache.loaded => Mirrors(cache) /\ \A q \in DOMAIN turns : q <= cache.next
    BY DEF IInv, Cached, Mirrors, MirrorsUpTo
  <2>2. ASSUME Compiling \/ pc \in {"reflecting", "closing"}
        PROVE  Mirrors(state) /\ \A q \in DOMAIN turns : q <= state.next
    <3>1. pc \notin {"idle", "executing"}
      BY <2>2 DEF Compiling
    <3>2. \A q \in DOMAIN turns : q <= state.next
      BY <3>1 DEF IInv, Memory, Placed, Ours, End, Types, DispatchTypeOK, IsLedger, RunType
    <3> QED
      BY <3>1, <3>2 DEF IInv, Memory, MirrorsUpTo, Mirrors
  <2>3. pc = "idle" => Load.next + 1 \notin DOMAIN turns
    <3>1. pc = "idle" => \A q \in DOMAIN turns : q <= Load.next
      BY <2>1, LoadFacts DEF IInv, Load
    <3>2. Load.next \in Nat
      BY LoadFacts DEF IInv, IsMemory, IsState
    <3> QED
      BY <3>1, <3>2
  <2>4. Compiling \/ pc = "reflecting" => state.next + 1 \notin DOMAIN turns
    <3>1. state.next \in Nat
      BY DEF IInv, Types, DispatchTypeOK, IsState
    <3> QED
      BY <2>2, <3>1
  <2>5. pc = "executing" =>
          \A i \in run.todo : {CallSeq(i), CallSeq(i) + 1} \cap DOMAIN turns = {}
    BY PairPlace
  <2> QED
    BY <2>1, <2>2, <2>3, <2>4, <2>5 DEF NextSeqFree
<1> QED
  BY <1>1, DispatchInvariance, PTL

(* Every turn has the question it belongs to.                              *)
Questioned == \A q \in DOMAIN turns : \E p \in DOMAIN turns : turns[p] = User(turns[q].by)

(* Recorded turns stay, new ones have their question.                      *)
LEMMA StaysQuestioned ==
  ASSUME Questioned, NEW f, turns' = f, DOMAIN turns \subseteq DOMAIN f,
         \A q \in DOMAIN turns : f[q] = turns[q],
         \A q \in DOMAIN f \ DOMAIN turns : \E p \in DOMAIN f : f[p] = User(f[q].by)
  PROVE  Questioned'
  BY DEF Questioned

(* The user turn of a dispatch under way.                                  *)
LEMMA QuestionAtBase ==
  ASSUME IInv, pc # "idle"
  PROVE  run.base \in DOMAIN turns /\ turns[run.base] = User(dispatch)
  BY DEF IInv, Placed, Ours

(* A user turn is its own question, and what a dispatch records after it   *)
(* is of that dispatch.                                                    *)
LEMMA QuestionedStep == IInv /\ Questioned /\ [DispatchNext]_dispatchVars => Questioned'
<1> SUFFICES ASSUME IInv, Questioned, [DispatchNext]_dispatchVars PROVE Questioned'
  OBVIOUS
<1>1. ASSUME NEW k \in Requests, RecordUser(k) PROVE Questioned'
  <2> DEFINE n == Push(Load, User(dispatch + 1)).next
             u == User(dispatch + 1)
  <2>1. turns' = Extend(turns, n, u)
    BY <1>1 DEF RecordUser
  <2>2. User(u.by) = u
    BY DEF User
  <2> HIDE DEF n, u
  <2>3. n \notin DOMAIN turns
    BY <1>1 DEF RecordUser, n, u
  <2> QED
    BY <2>1, <2>2, <2>3, StaysQuestioned DEF Extend
<1>2. ASSUME NEW i \in 0 .. MaxPlanSteps - 1, StepDone(i) PROVE Questioned'
  <2> DEFINE c == Call(dispatch, run.round, i)
             r == Result(dispatch, run.round, i)
  <2>1. CASE UNCHANGED turns
    BY <2>1 DEF Questioned
  <2>2. CASE ~UNCHANGED turns
    <3>1. /\ {CallSeq(i), CallSeq(i) + 1} \cap DOMAIN turns = {}
          /\ turns' = Extend(Extend(turns, CallSeq(i), c), CallSeq(i) + 1, r)
      BY <1>2, <2>2 DEF StepDone, PersistPair
    <3>2. run.base \in DOMAIN turns /\ turns[run.base] = User(dispatch)
      BY <1>2, QuestionAtBase DEF StepDone
    <3>3. c.by = dispatch /\ r.by = dispatch
      BY DEF Call, Result
    <3> HIDE DEF c, r
    <3>4. /\ DOMAIN turns' = DOMAIN turns \cup {CallSeq(i), CallSeq(i) + 1}
          /\ \A q \in DOMAIN turns : turns'[q] = turns[q]
          /\ turns'[CallSeq(i)] \in {c, r} /\ turns'[CallSeq(i) + 1] = r
      BY <3>1 DEF Extend
    <3> QED
      BY <3>2, <3>3, <3>4, StaysQuestioned
  <2> QED
    BY <2>1, <2>2
<1>3. CASE RecordReply
  <2> DEFINE n == Push(state, Reply(dispatch)).next
             u == Reply(dispatch)
  <2>1. turns' = Extend(turns, n, u) /\ n \notin DOMAIN turns
    BY <1>3 DEF RecordReply
  <2>2. run.base \in DOMAIN turns /\ turns[run.base] = User(dispatch)
    BY <1>3, QuestionAtBase DEF RecordReply
  <2>3. u.by = dispatch
    BY DEF Reply
  <2> HIDE DEF n, u
  <2> QED
    BY <2>1, <2>2, <2>3, StaysQuestioned DEF Extend
<1>4. CASE UNCHANGED turns
  BY <1>4 DEF Questioned
<1> QED
  BY <1>1, <1>2, <1>3, <1>4
     DEF DispatchNext, BeginFails, Recompile, NoFirstPlan, NothingToRun, StopRounds, Reflect,
         Execute, Reconcile, ReflectFails, ReturnOk, Abandon, Crash, Evict, dispatchVars

(* The recorded conversation is made of exchanges: each turn once, after   *)
(* its question, with no turn of another dispatch in between, whatever     *)
(* fails, crashes or is abandoned.                                         *)
THEOREM MadeOfExchanges == DispatchSpec => []Exchanges
<1>1. DispatchInit => Questioned
  BY DEF DispatchInit, Questioned
<1>2. IInv /\ Questioned => Exchanges
  <2> SUFFICES ASSUME IInv, Questioned PROVE Exchanges
    OBVIOUS
  <2>1. LedgerOrdered /\ \A q \in DOMAIN turns : q \in Nat /\ turns[q] \in Turn
    BY DEF IInv, Types, DispatchTypeOK, IsLedger
  <2>2. \A t \in Turn : ~Before(t, t)
    BY DEF Before, Turn
  <2>3. ASSUME NEW p \in DOMAIN turns, NEW q \in DOMAIN turns, turns[p] = turns[q]
        PROVE  p = q
    <3>1. ~(p < q) /\ ~(q < p)
      BY <2>1, <2>2, <2>3 DEF LedgerOrdered
    <3> QED
      BY <2>1, <3>1
  <2>4. ASSUME NEW q \in DOMAIN turns
        PROVE  \E p \in DOMAIN turns :
                 /\ p <= q /\ turns[p] = User(turns[q].by)
                 /\ \A x \in DOMAIN turns : p <= x /\ x <= q => turns[x].by = turns[q].by
    <3>1. PICK p \in DOMAIN turns : turns[p] = User(turns[q].by)
      BY DEF Questioned
    <3>2. turns[p].by = turns[q].by /\ turns[p].kind = "user" /\ turns[q].by \in Nat
      BY <2>1, <3>1 DEF User, Turn
    <3>3. p <= q
      <4>1. ~Before(turns[q], turns[p])
        BY <3>2 DEF Before
      <4> QED
        BY <2>1, <4>1 DEF LedgerOrdered
    <3>4. ASSUME NEW x \in DOMAIN turns, p <= x, x <= q PROVE turns[x].by = turns[q].by
      <4>1. x = p \/ Before(turns[p], turns[x])
        BY <2>1, <3>4 DEF LedgerOrdered
      <4>2. x = q \/ Before(turns[x], turns[q])
        BY <2>1, <3>4 DEF LedgerOrdered
      <4>3. turns[x].by \in Nat
        BY <2>1 DEF Turn
      <4> QED
        BY <3>2, <4>1, <4>2, <4>3 DEF Before
    <3> QED
      BY <3>1, <3>3, <3>4
  <2> QED
    BY <2>3, <2>4 DEF Exchanges
<1> QED
  BY <1>1, <1>2, QuestionedStep, DispatchInvariance, PTL DEF DispatchSpec
=============================================================================
