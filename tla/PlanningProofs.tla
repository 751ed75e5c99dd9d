--------------------------- MODULE PlanningProofs ---------------------------
(***************************************************************************)
(* Theorems about Planning, for any tools, messages, models and limits: a  *)
(* dispatch invokes tools its message admits, in a bounded number of       *)
(* bounded plans, and ranks tools by the texts it took them with.          *)
(***************************************************************************)
EXTENDS Planning, FiniteSetTheorems, TLAPS

USE ToolsAssumption, TokensAssumption DEF Tool

-----------------------------------------------------------------------------
(* Mentions and plans *)

LEMMA FromTextType ==
  ASSUME NEW m \in Message
  PROVE  FromText(m) \in Scope
BY DEF Message, Mention, Tail, Scope, FromText, Entities

(* A message none of whose mentions is unresolved keeps, of the tools, the *)
(* ones it admits.                                                         *)
LEMMA ScopedAdmits ==
  ASSUME NEW s \in Scope, NEW all \in SUBSET Tools, NEW dir \in SUBSET Peers,
         ~Unresolved(s, all, dir),
         NEW t \in Scoped(all, Resolved(s, all, dir))
  PROVE  t \in all /\ Admits(s, t)
<1> DEFINE res == Resolved(s, all, dir)
<1>1. t \in all
  BY DEF Scoped
<1>2. ASSUME s.peers # {}
      PROVE  \E k \in s.peers : t.peer \in Refers[k]
  <2>1. \A k \in s.peers : PeerNamed(k, dir) # {}
    BY DEF Unresolved
  <2>2. res.peers = UNION {PeerNamed(k, dir) : k \in s.peers}
    BY DEF Resolved
  <2>3. res.peers # {}
    BY <1>2, <2>1, <2>2
  <2>4. t.peer \in res.peers
    BY <2>3 DEF Scoped
  <2>5. PICK k \in s.peers : t.peer \in PeerNamed(k, dir)
    BY <2>2, <2>4
  <2>6. PeerNamed(k, dir) \subseteq Refers[k]
    BY DEF PeerNamed
  <2> QED
    BY <2>5, <2>6
<1>3. s.lobes # {} => t.lobes \cap s.lobes # {}
  BY DEF Unresolved, Scoped, Resolved
<1>4. s.caps # {} => t.cap \in s.caps
  BY DEF Unresolved, Scoped, Resolved
<1> QED
  BY <1>1, <1>2, <1>3, <1>4 DEF Admits

(* Whatever a model writes is a plan. *)
LEMMA AnsweredPlans ==
  ASSUME NEW c, NEW p \in LocalPlans(c) \cup RemotePlans(c)
  PROVE  p \in Plan /\ IsFiniteSet(p.calls)
<1>1. Empty \in Plan /\ IsFiniteSet(Empty.calls)
  BY FS_EmptySet DEF Empty, Plan
<1>2. p \in Plans \cup {Empty}
  BY DEF LocalPlans, RemotePlans, PlansWithin
<1> QED
  BY <1>1, <1>2, PlansAssumption

(* A call stays one when its arguments are resolved. *)
LEMMA TracedCall ==
  ASSUME NEW p \in Plan, NEW args \in [p.calls -> Args \cup {Ref}],
         NEW call \in p.calls
  PROVE  Traced(call, args) \in Call /\ Traced(call, args).name = call.name
BY DEF Plan, Call, Traced

-----------------------------------------------------------------------------
(* Types, and the tools of a dispatch *)

(* While another plan may come, a round is left. *)
RoundLeft == pc # "replying" => rounds < MaxRounds

NothingStays == pc = "idle" => rounds = 0 /\ trace = {}

(* Only what is being embedded is missing. *)
NothingMissing == pc # "embedding" => missing = {}

(* The catalogue of a dispatch holds tools its message admits. *)
Admitted == pc # "idle" => \A t \in cat : t.cap # PlanCap /\ Admits(msg, t)

(* What is run was validated. *)
Underway == pc = "executing" => Valid(plan, cat)

Inv == TypeOK /\ RoundLeft /\ NothingStays /\ NothingMissing /\ Admitted /\ Underway

LEMMA InvInit == Init => Inv
<1> SUFFICES ASSUME Init PROVE Inv
  OBVIOUS
<1>1. Empty \in Plan /\ IsFiniteSet(Empty.calls)
  BY FS_EmptySet DEF Empty, Plan
<1>2. Everything \in Scope
  BY DEF Everything, Scope
<1>3. MaxRounds \in Nat /\ 0 < MaxRounds /\ RetryLimit \in Nat /\ MaxChanges \in Nat
  BY LimitsAssumption
<1>4. TypeOK
  BY <1>1, <1>2, <1>3 DEF Init, TypeOK, Pc
<1> QED
  BY <1>3, <1>4 DEF Init, Inv, RoundLeft, NothingStays, NothingMissing, Admitted,
       Underway

(* A dispatch that is left leaves nothing. *)
LEMMA InvLeave ==
  ASSUME Inv, Leave, UNCHANGED <<setup, declared>>
  PROVE  Inv'
<1>1. Empty \in Plan /\ IsFiniteSet(Empty.calls)
  BY FS_EmptySet DEF Empty, Plan
<1>2. Everything \in Scope
  BY DEF Everything, Scope
<1>3. MaxRounds \in Nat /\ 0 < MaxRounds /\ RetryLimit \in Nat
  BY LimitsAssumption
<1>4. TypeOK'
  BY <1>1, <1>2, <1>3 DEF Inv, Leave, TypeOK, Pc, declared
<1> QED
  BY <1>3, <1>4 DEF Leave, Inv, RoundLeft, NothingStays, NothingMissing, Admitted,
       Underway

(* What changes around a dispatch. *)
LEMMA InvChange ==
  ASSUME Inv,
         \/ \E t \in Volatile : Redeclare(t) \/ Reword(t) \/ Toggle(t)
         \/ \E p \in Peers : Wander(p)
  PROVE  Inv'
<1>1. /\ UNCHANGED <<setup, pc, msg, cat, missing, plan, attempt, rounds, trace>>
      /\ changes < MaxChanges /\ changes' = changes + 1
  BY DEF Redeclare, Reword, Toggle, Wander, Change, ranking, work
<1>2. Volatile \subseteq Tools /\ MaxChanges \in Nat
  BY LimitsAssumption
<1>3. changes' \in 0 .. MaxChanges
  BY <1>1, <1>2 DEF Inv, TypeOK
<1>4. /\ listed' \subseteq Tools
      /\ known' \subseteq Peers
      /\ reworded' \subseteq Tools
  BY <1>2 DEF Redeclare, Reword, Toggle, Wander, Inv, TypeOK
<1>5. version' \in [Tools -> Nat] /\ text' \in [Tools -> Nat]
  BY <1>2 DEF Redeclare, Reword, Toggle, Wander, Inv, TypeOK
<1>6. TypeOK'
  BY <1>1, <1>3, <1>4, <1>5 DEF Inv, TypeOK
<1> QED
  BY <1>1, <1>6 DEF Inv, RoundLeft, NothingStays, NothingMissing, Admitted,
       Underway

LEMMA InvBegin ==
  ASSUME Inv, NEW m \in Messages, Begin(m)
  PROVE  Inv'
<1> DEFINE all == Build(listed, known)
           s == FromText(m)
<1>1. s \in Scope
  BY FromTextType, PlansAssumption
<1>2. all \subseteq Tools /\ \A t \in all : t.cap # PlanCap
  BY DEF Inv, TypeOK, Build
<1>3. known \subseteq Peers
  BY DEF Inv, TypeOK
<1>4. \A t \in cat' : t \in all /\ Admits(s, t)
  BY <1>1, <1>2, <1>3, ScopedAdmits DEF Begin
<1>5. /\ pc = "idle" /\ pc' = "scoring" /\ msg' = s
      /\ UNCHANGED <<setup, listed, known, version, text, reworded, changes,
                     missing, plan, attempt, rounds, trace>>
  BY DEF Begin, declared, work
<1>6. missing' \subseteq cat'
  BY <1>5 DEF Inv, TypeOK, NothingMissing, Begin
<1>7. TypeOK'
  BY <1>1, <1>2, <1>4, <1>5, <1>6 DEF Inv, TypeOK, Pc
<1> QED
  BY <1>2, <1>4, <1>5, <1>7 DEF Inv, RoundLeft, NothingStays, NothingMissing, Admitted,
       Underway

(* Scoring, and ranking, which drops tools but adds none. *)
LEMMA InvScore ==
  ASSUME Inv, ScoreLexically \/ LookUp \/ Embedded \/ EmbedFails \/ EmbeddedElsewhere
  PROVE  Inv'
<1>1. UNCHANGED <<setup, listed, known, version, text, reworded, changes, msg,
                  cat, plan, attempt, rounds, trace>>
  BY DEF ScoreLexically, LookUp, Embedded, EmbedFails, EmbeddedElsewhere,
         declared, work, ranking
<1>2. /\ pc' = pc \/ (pc \notin {"idle", "replying"} /\ pc' \in {"scored", "embedding"})
      /\ pc' \in Pc
      /\ missing' \subseteq cat
      /\ pc' # "embedding" => missing' = {}
  BY DEF ScoreLexically, LookUp, Embedded, EmbedFails, EmbeddedElsewhere,
         declared, work, ranking, Inv, TypeOK, NothingMissing, Pc
<1>3. TypeOK'
  BY <1>1, <1>2 DEF Inv, TypeOK
<1> QED
  BY <1>1, <1>2, <1>3 DEF Inv, RoundLeft, NothingStays, NothingMissing, Admitted,
       Underway

LEMMA InvRank ==
  ASSUME Inv, Rank
  PROVE  Inv'
<1>1. /\ pc = "scored" /\ pc' = "compiling"
      /\ UNCHANGED <<setup, listed, known, version, text, reworded, changes, msg,
                     missing, plan, attempt, rounds, trace>>
  BY DEF Rank, declared, work
<1>2. cat' \subseteq cat
  BY DEF Rank, Filtered, Top, Remote, Local
<1>3. missing' = {}
  BY <1>1 DEF Inv, NothingMissing
<1>4. TypeOK'
  BY <1>1, <1>2, <1>3 DEF Inv, TypeOK, Pc
<1> QED
  BY <1>1, <1>2, <1>3, <1>4 DEF Inv, RoundLeft, NothingStays, NothingMissing, Admitted,
       Underway

(* Compiling and deciding change the plan, the attempts or where it goes   *)
(* on, and no more.                                                        *)
LEMMA InvCompile ==
  ASSUME Inv,
         \/ PrimaryAnswers \/ FallbackAnswers \/ FallbackFails
         \/ Reject \/ Settle \/ (CompileFails /\ ~Leave)
  PROVE  Inv'
<1>1. UNCHANGED <<setup, listed, known, version, text, reworded, changes, msg,
                  cat, missing, rounds, trace>>
  BY DEF PrimaryAnswers, FallbackAnswers, FallbackFails, Reject, Settle,
         CompileFails, declared, work, ranking
<1>2. /\ pc \in {"compiling", "escalating", "deciding"}
      /\ pc' \in {"compiling", "escalating", "deciding", "replying"}
  BY DEF PrimaryAnswers, FallbackAnswers, FallbackFails, Reject, Settle, CompileFails
<1>3. plan' \in Plan /\ IsFiniteSet(plan'.calls)
  <2>1. CASE PrimaryAnswers
    <3>1. plan' \in LocalPlans(cat)
      BY <2>1 DEF PrimaryAnswers
    <3> QED
      BY <3>1, AnsweredPlans
  <2>2. CASE FallbackAnswers
    <3>1. PICK other \in RemotePlans(cat) : plan' = Kept(plan, other)
      BY <2>2 DEF FallbackAnswers
    <3>2. plan' \in {plan, other}
      BY <3>1 DEF Kept
    <3>3. other \in Plan /\ IsFiniteSet(other.calls)
      BY AnsweredPlans
    <3> QED
      BY <3>2, <3>3 DEF Inv, TypeOK
  <2>3. CASE ~PrimaryAnswers /\ ~FallbackAnswers
    <3>1. plan' = plan
      BY <2>3 DEF FallbackFails, Reject, Settle, CompileFails, work
    <3> QED
      BY <3>1 DEF Inv, TypeOK
  <2> QED
    BY <2>1, <2>2, <2>3
<1>4. attempt' \in 0 .. RetryLimit
  <2>1. RetryLimit \in Nat /\ attempt \in 0 .. RetryLimit
    BY LimitsAssumption DEF Inv, TypeOK
  <2>2. attempt' = attempt \/ (attempt < RetryLimit /\ attempt' = attempt + 1)
    BY DEF PrimaryAnswers, FallbackAnswers, FallbackFails, Reject, Settle,
           CompileFails, work
  <2> QED
    BY <2>1, <2>2
<1>5. TypeOK'
  BY <1>1, <1>2, <1>3, <1>4 DEF Inv, TypeOK, Pc
<1> QED
  BY <1>1, <1>2, <1>5 DEF Inv, RoundLeft, NothingStays, NothingMissing, Admitted,
       Underway

LEMMA InvUndertake ==
  ASSUME Inv, Undertake
  PROVE  Inv'
<1>1. /\ pc = "deciding" /\ pc' = "executing" /\ Valid(plan, cat)
      /\ UNCHANGED <<setup, listed, known, version, text, reworded, changes, msg,
                     cat, missing, plan, attempt, rounds, trace>>
  BY DEF Undertake, declared, ranking, work
<1>2. TypeOK'
  BY <1>1 DEF Inv, TypeOK, Pc
<1>3. Underway'
  BY <1>1 DEF Underway, Valid, Finds
<1> QED
  BY <1>1, <1>2, <1>3 DEF Inv, RoundLeft, NothingStays, NothingMissing, Admitted

LEMMA InvExecute ==
  ASSUME Inv, Execute
  PROVE  Inv'
<1>1. /\ pc = "executing" /\ pc' \in {NextRound, "replying"}
      /\ rounds' = rounds + 1 /\ attempt' = 0 /\ plan' = Empty
      /\ UNCHANGED <<setup, listed, known, version, text, reworded, changes, msg,
                     cat, missing>>
  BY DEF Execute, declared, ranking
<1>2. /\ MaxRounds \in Nat /\ rounds \in 0 .. MaxRounds /\ rounds < MaxRounds
      /\ RetryLimit \in Nat
  BY <1>1, LimitsAssumption DEF Inv, TypeOK, RoundLeft
<1>3. /\ rounds' \in 0 .. MaxRounds
      /\ attempt' \in 0 .. RetryLimit
      /\ pc' \in {"compiling", "replying"}
      /\ pc' # "replying" => rounds' < MaxRounds
  BY <1>1, <1>2 DEF NextRound
<1>4. trace' \subseteq Call
  <2>1. PICK args \in [plan.calls -> Args \cup {Ref}] :
          trace' = trace \cup {Traced(call, args) : call \in plan.calls}
    BY DEF Execute
  <2>2. trace \subseteq Call /\ plan \in Plan
    BY DEF Inv, TypeOK
  <2> QED
    BY <2>1, <2>2, TracedCall
<1>5. Empty \in Plan /\ IsFiniteSet(Empty.calls)
  BY FS_EmptySet DEF Empty, Plan
<1>6. TypeOK'
  BY <1>1, <1>3, <1>4, <1>5 DEF Inv, TypeOK, Pc
<1> QED
  BY <1>1, <1>3, <1>6 DEF Inv, RoundLeft, NothingStays, NothingMissing, Admitted,
       Underway

LEMMA InvStep == Inv /\ [Next]_vars => Inv'
<1> SUFFICES ASSUME Inv, [Next]_vars PROVE Inv'
  OBVIOUS
<1>1. CASE UNCHANGED vars
  BY <1>1 DEF vars, Inv, TypeOK, RoundLeft, NothingStays, NothingMissing, Admitted,
       Underway
<1>2. CASE \/ \E t \in Volatile : Redeclare(t) \/ Reword(t) \/ Toggle(t)
           \/ \E p \in Peers : Wander(p)
  BY <1>2, InvChange
<1>3. CASE \E m \in Messages : Begin(m)
  BY <1>3, InvBegin
<1>4. CASE EmbeddedElsewhere
  BY <1>4, InvScore
<1>5. CASE Advance
  <2>1. CASE CompileFails
    <3>1. CASE Leave
      BY <2>1, <3>1, InvLeave DEF CompileFails
    <3> QED
      BY <2>1, <3>1, InvCompile
  <2>2. CASE Unjournalled \/ Reply
    BY <2>2, InvLeave DEF Unjournalled, Reply
  <2>3. CASE ScoreLexically \/ LookUp \/ Embedded \/ EmbedFails
    BY <2>3, InvScore
  <2>4. CASE Rank
    BY <2>4, InvRank
  <2>5. CASE \/ PrimaryAnswers \/ FallbackAnswers \/ FallbackFails
             \/ Reject \/ Settle
    BY <2>5, InvCompile
  <2>6. CASE Undertake
    BY <2>6, InvUndertake
  <2> QED
    BY <1>5, <2>1, <2>2, <2>3, <2>4, <2>5, <2>6 DEF Advance
<1>6. CASE Abandon \/ Restart
  BY <1>6, InvLeave DEF Abandon, Restart
<1>7. CASE Execute
  BY <1>7, InvExecute
<1> QED
  BY <1>1, <1>2, <1>3, <1>4, <1>5, <1>6, <1>7 DEF Next

LEMMA Invariance == Spec => []Inv
BY InvInit, InvStep, PTL DEF Spec

(* TypeOK: the variables of a dispatch keep their types; it carries out    *)
(* MAX_PLAN_ROUNDS plans and corrects each COMPILE_RETRY_LIMIT times at    *)
(* most.                                                                   *)
THEOREM TypeCorrect == Spec => []TypeOK
<1>1. Inv => TypeOK
  BY DEF Inv
<1> QED
  BY <1>1, Invariance, PTL

-----------------------------------------------------------------------------
(* The work done for a message *)

LEMMA AdmittedNamesType == AdmittedNames \subseteq Names
BY DEF AdmittedNames, Names, Name

LEMMA WorkCardinality ==
  ASSUME NEW S
  PROVE  Work!Cardinality(S) = Cardinality(S)
BY DEF Work!Cardinality, Cardinality

LEMMA WorkInit == Init => Work!Init
BY DEF Init, Work!Init

LEMMA WorkBegin ==
  ASSUME Inv, NEW m \in Messages, Begin(m)
  PROVE  Work!Next
<1>1. /\ pc = "idle" /\ pc' = "scoring"
      /\ rounds' = rounds /\ trace' = trace
  BY DEF Begin, work
<1>2. AdmittedNames' \in SUBSET Names
  BY DEF AdmittedNames, Names, Name
<1> QED
  BY <1>1, <1>2 DEF Work!Next, Work!Accept

LEMMA WorkCarryOut ==
  ASSUME NEW used \in SUBSET Names, Work!CarryOut(used)
  PROVE  Work!Next
BY Zenon DEF Work!Next

(* The calls of a plan that is executed carry out one plan. *)
LEMMA WorkExecute ==
  ASSUME Inv, Execute
  PROVE  Work!Next
<1> DEFINE used == {call.name : call \in plan.calls}
           names(T) == {call.name : call \in T}
<1>1. /\ pc = "executing" /\ pc' # "idle" /\ msg' = msg
      /\ rounds' = rounds + 1 /\ rounds < MaxRounds
  BY DEF Execute, NextRound, Inv, RoundLeft
<1>2. plan \in Plan /\ IsFiniteSet(plan.calls) /\ Valid(plan, cat)
  BY <1>1 DEF Inv, TypeOK, Underway
<1>3. used # {} /\ used \subseteq Names
  BY <1>2 DEF Valid, Plan, Call
<1>4. used \subseteq AdmittedNames
  BY <1>1, <1>2 DEF Valid, Finds, AdmittedNames, Inv, TypeOK, Admitted
<1>5. Cardinality(used) <= MaxPlanSteps
  <2>1. /\ IsFiniteSet(used)
        /\ Cardinality(used) <= Cardinality(plan.calls)
    <3> DEFINE f == [call \in plan.calls |-> call.name]
    <3>1. f \in Surjection(plan.calls, used)
      BY Zenon DEF Surjection
    <3> QED
      BY <1>2, <3>1, FS_Surjection
  <2>2. /\ Cardinality(used) \in Nat
        /\ Cardinality(plan.calls) \in Nat
        /\ MaxPlanSteps \in Nat
    BY <1>2, <2>1, FS_CardinalityType, LimitsAssumption
  <2>3. Cardinality(plan.calls) <= MaxPlanSteps
    BY <1>2 DEF Valid
  <2> QED
    BY <2>1, <2>2, <2>3
<1>6. names(trace') = names(trace) \cup used
  <2>1. PICK args \in [plan.calls -> Args \cup {Ref}] :
          trace' = trace \cup {Traced(call, args) : call \in plan.calls}
    BY DEF Execute
  <2>2. \A call \in plan.calls : Traced(call, args).name = call.name
    BY <1>2, TracedCall
  <2> QED
    BY <2>1, <2>2
<1>7. AdmittedNames' = AdmittedNames
  BY <1>1 DEF AdmittedNames, Admits
<1>8. PICK u \in SUBSET Names : u = used
  BY <1>3
<1>9. Work!CarryOut(u)
  BY <1>1, <1>3, <1>4, <1>5, <1>6, <1>7, <1>8, WorkCardinality DEF Work!CarryOut
<1> QED
  BY <1>9, WorkCarryOut

(* Every dispatch that is left, closes its work. *)
LEMMA WorkLeave ==
  ASSUME Inv, Leave
  PROVE  [Work!Next]_(Work!vars)
<1>1. CASE pc = "idle"
  BY <1>1 DEF Leave, Inv, NothingStays, Work!vars
<1>2. CASE pc # "idle"
  BY <1>2 DEF Leave, Work!Next, Work!Close
<1> QED
  BY <1>1, <1>2

(* Anything else leaves it alone. *)
LEMMA WorkStutter ==
  ASSUME UNCHANGED <<msg, rounds, trace>>, pc = "idle" <=> pc' = "idle"
  PROVE  UNCHANGED Work!vars
<1>1. AdmittedNames' = AdmittedNames
  BY DEF AdmittedNames, Admits
<1> QED
  BY <1>1 DEF Work!vars

LEMMA WorkNext == Inv /\ [Next]_vars => [Work!Next]_(Work!vars)
<1> SUFFICES ASSUME Inv, [Next]_vars PROVE [Work!Next]_(Work!vars)
  OBVIOUS
<1>1. CASE Execute
  BY <1>1, WorkExecute
<1>2. CASE \E m \in Messages : Begin(m)
  BY <1>2, WorkBegin
<1>3. CASE Leave
  BY <1>3, WorkLeave
<1>4. CASE /\ ~Execute /\ ~Leave
           /\ ~\E m \in Messages : Begin(m)
  <2>1. UNCHANGED <<msg, rounds, trace>> /\ (pc = "idle" <=> pc' = "idle")
    <3>1. CASE UNCHANGED vars
      BY <3>1 DEF vars
    <3>2. CASE \/ \E t \in Volatile : Redeclare(t) \/ Reword(t) \/ Toggle(t)
               \/ \E p \in Peers : Wander(p)
      BY <3>2 DEF Redeclare, Reword, Toggle, Wander, Change, work
    <3>3. CASE \/ ScoreLexically \/ LookUp \/ Embedded \/ EmbedFails
               \/ EmbeddedElsewhere \/ Rank
      BY <3>3 DEF ScoreLexically, LookUp, Embedded, EmbedFails, EmbeddedElsewhere,
                  Rank, work
    <3>4. CASE \/ PrimaryAnswers \/ FallbackAnswers \/ FallbackFails
               \/ CompileFails \/ Reject \/ Settle \/ Undertake
      BY <1>4, <3>4 DEF PrimaryAnswers, FallbackAnswers, FallbackFails,
                        CompileFails, Reject, Settle, Undertake, work
    <3>5. CASE Unjournalled \/ Reply \/ Abandon \/ Restart
      BY <1>4, <3>5 DEF Unjournalled, Reply, Abandon, Restart
    <3> QED
      BY <1>4, <3>1, <3>2, <3>3, <3>4, <3>5 DEF Next, Advance
  <2> QED
    BY <2>1, WorkStutter
<1> QED
  BY <1>1, <1>2, <1>3, <1>4

(* ImplementsScopedWork: whatever the models write, also on a second try,  *)
(* in a second round or from another node, the tools invoked for a message *)
(* are among those it admits, in a bounded number of bounded plans.        *)
THEOREM Refinement == Spec => ImplementsScopedWork
BY Invariance, WorkInit, WorkNext, PTL DEF Spec, ImplementsScopedWork, Work!Spec

-----------------------------------------------------------------------------
(* Vectors *)

(* What is declared under a version is said by the version, as long as it  *)
(* is not reworded.                                                        *)
Told(s) ==
  /\ s.version \in [Tools -> Nat]
  /\ s.text \in [Tools -> Nat]
  /\ \A t \in Tools : t \notin reworded => s.text[t] = s.version[t]

CacheTold(cache) ==
  \A t \in Tools, n \in Nat :
    t \notin reworded /\ <<Name(t), n>> \in DOMAIN cache
      => cache[<<Name(t), n>>] = n

(* Tools that are not missing stay in the cache while the others are       *)
(* embedded.                                                               *)
HitsStay == pc = "embedding" => \A t \in cat \ missing : Key(t, snap) \in DOMAIN vectors

VectorsInv ==
  /\ Told(Declarations)
  /\ pc \in {"scoring", "embedding", "scored"} => Told(snap)
  /\ CacheTold(vectors)
  /\ HitsStay
  /\ pc # "scored" => compared = NoScores
  /\ VectorsCurrent

LEMMA InsertedTold ==
  ASSUME CacheTold(vectors), NEW tools \in SUBSET Tools, NEW s, Told(s)
  PROVE  CacheTold(Inserted(tools, s))
<1> SUFFICES ASSUME NEW t \in Tools, NEW n \in Nat, t \notin reworded,
                    <<Name(t), n>> \in DOMAIN Inserted(tools, s)
             PROVE  Inserted(tools, s)[<<Name(t), n>>] = n
  BY DEF CacheTold
<1> DEFINE k == <<Name(t), n>>
<1>1. Inserted(tools, s)[k] = IF \E u \in tools : Key(u, s) = k
                              THEN s.text[CHOOSE u \in tools : Key(u, s) = k]
                              ELSE vectors[k]
  BY DEF Inserted
<1>2. CASE \E u \in tools : Key(u, s) = k
  <2>1. PICK u \in tools : u = CHOOSE v \in tools : Key(v, s) = k
    BY <1>2
  <2>2. Key(u, s) = k
    BY <1>2, <2>1
  <2>3. u = t /\ s.version[t] = n
    BY <2>2 DEF Key
  <2> QED
    BY <1>1, <1>2, <2>1, <2>3 DEF Told
<1>3. CASE ~\E u \in tools : Key(u, s) = k
  BY <1>1, <1>3 DEF Inserted, CacheTold
<1> QED
  BY <1>2, <1>3

LEMMA VectorsInit == Init => VectorsInv
BY DEF Init, VectorsInv, Told, CacheTold, HitsStay, VectorsCurrent, NoScores,
       Declarations

(* Declarations change: what is told keeps being told of fewer tools.      *)
LEMMA VectorsChange ==
  ASSUME Inv, VectorsInv,
         \/ \E t \in Volatile : Redeclare(t) \/ Reword(t) \/ Toggle(t)
         \/ \E p \in Peers : Wander(p)
  PROVE  VectorsInv'
<1>1. /\ UNCHANGED <<vectors, pc, cat, snap, missing, compared>>
      /\ reworded \subseteq reworded'
  BY DEF Redeclare, Reword, Toggle, Wander, Change, ranking
<1>2. Told(Declarations)'
  BY LimitsAssumption
  DEF Redeclare, Reword, Toggle, Wander, VectorsInv, Told, Declarations
<1>3. pc' \in {"scoring", "embedding", "scored"} => Told(snap)'
  BY <1>1 DEF VectorsInv, Told
<1>4. CacheTold(vectors)'
  BY <1>1 DEF VectorsInv, CacheTold
<1>5. HitsStay'
  BY <1>1 DEF VectorsInv, HitsStay, Key
<1>6. VectorsCurrent'
  BY <1>1 DEF VectorsInv, VectorsCurrent
<1> QED
  BY <1>1, <1>2, <1>3, <1>4, <1>5, <1>6 DEF VectorsInv

LEMMA VectorsEmbedded ==
  ASSUME Inv, VectorsInv, Embedded
  PROVE  VectorsInv'
<1>1. /\ pc = "embedding" /\ pc' = "scored"
      /\ vectors' = Inserted(missing, snap)
      /\ compared' = [t \in cat |-> vectors'[Key(t, snap)]]
      /\ UNCHANGED <<version, text, reworded, cat, snap>>
  BY DEF Embedded, declared
<1>2. Told(snap) /\ missing \subseteq cat /\ cat \subseteq Tools
  BY <1>1 DEF VectorsInv, Inv, TypeOK
<1>3. CacheTold(vectors')
  BY <1>1, <1>2, InsertedTold DEF VectorsInv
<1>4. ASSUME NEW t \in cat, t \notin reworded
      PROVE  vectors'[Key(t, snap)] = snap.text[t]
  <2>1. Key(t, snap) \in DOMAIN vectors'
    BY <1>1 DEF VectorsInv, HitsStay, Inserted
  <2> QED
    BY <1>2, <1>3, <1>4, <2>1 DEF CacheTold, Told, Key
<1>5. VectorsCurrent'
  BY <1>1, <1>4 DEF VectorsCurrent
<1> QED
  BY <1>1, <1>2, <1>3, <1>5 DEF VectorsInv, Told, CacheTold, HitsStay, Declarations

LEMMA VectorsElsewhere ==
  ASSUME Inv, VectorsInv, EmbeddedElsewhere
  PROVE  VectorsInv'
<1> DEFINE seen == {t \in Build(listed, known) : Key(t, Declarations) \notin DOMAIN vectors}
<1>1. /\ vectors' = Inserted(seen, Declarations)
      /\ UNCHANGED <<version, text, reworded, pc, cat, snap, missing, compared>>
  BY DEF EmbeddedElsewhere, declared, ranking
<1>2. seen \in SUBSET Tools
  BY DEF Build, Inv, TypeOK
<1>3. CacheTold(vectors')
  BY <1>1, <1>2, InsertedTold DEF VectorsInv
<1>4. DOMAIN vectors \subseteq DOMAIN vectors'
  BY <1>1 DEF Inserted
<1>5. HitsStay'
  BY <1>1, <1>4 DEF VectorsInv, HitsStay, Key
<1> QED
  BY <1>1, <1>3, <1>5 DEF VectorsInv, Told, CacheTold, VectorsCurrent, Declarations

(* A dispatch that is left, or is past its scores, compares nothing.       *)
LEMMA VectorsLeave ==
  ASSUME Inv, VectorsInv, UNCHANGED declared,
         pc' \notin {"scoring", "embedding", "scored"},
         compared' = NoScores,
         vectors' \in {vectors, NoScores}
  PROVE  VectorsInv'
<1>1. CacheTold(vectors)'
  BY DEF VectorsInv, CacheTold, NoScores, declared
<1> QED
  BY <1>1 DEF VectorsInv, Told, HitsStay, VectorsCurrent, Declarations, declared

LEMMA VectorsScoring ==
  ASSUME Inv, VectorsInv,
         \/ \E m \in Messages : Begin(m)
         \/ LookUp \/ ScoreLexically \/ EmbedFails
  PROVE  VectorsInv'
<1>1. /\ pc \in {"idle", "scoring", "embedding"}
      /\ pc' \in {"scoring", "embedding", "scored"}
      /\ compared' = NoScores
      /\ UNCHANGED <<version, text, reworded, vectors>>
  BY DEF Begin, LookUp, ScoreLexically, EmbedFails, declared, VectorsInv
<1>2. Told(snap)'
  <2>1. (snap' = snap /\ pc # "idle") \/ snap' = Declarations
    BY DEF Begin, LookUp, ScoreLexically, EmbedFails
  <2> QED
    BY <1>1, <2>1 DEF VectorsInv, Told
<1>3. HitsStay'
  BY DEF HitsStay, Key, LookUp, Begin, ScoreLexically, EmbedFails
<1>4. VectorsCurrent'
  BY <1>1 DEF VectorsCurrent, NoScores
<1> QED
  BY <1>1, <1>2, <1>3, <1>4 DEF VectorsInv, Told, CacheTold, Declarations

LEMMA VectorsStep == Inv /\ VectorsInv /\ [Next]_vars => VectorsInv'
<1> SUFFICES ASSUME Inv, VectorsInv, [Next]_vars PROVE VectorsInv'
  OBVIOUS
<1>1. CASE UNCHANGED vars
  BY <1>1 DEF vars, VectorsInv, Told, CacheTold, HitsStay, Key, VectorsCurrent,
              Declarations
<1>2. CASE \/ \E t \in Volatile : Redeclare(t) \/ Reword(t) \/ Toggle(t)
           \/ \E p \in Peers : Wander(p)
  BY <1>2, VectorsChange
<1>3. CASE \/ \E m \in Messages : Begin(m)
           \/ LookUp \/ ScoreLexically \/ EmbedFails
  BY <1>3, VectorsScoring
<1>4. CASE EmbeddedElsewhere
  BY <1>4, VectorsElsewhere
<1>5. CASE Embedded
  BY <1>5, VectorsEmbedded
<1>6. CASE \/ Rank \/ PrimaryAnswers \/ FallbackAnswers \/ FallbackFails
           \/ CompileFails \/ Reject \/ Settle \/ Undertake \/ Execute
           \/ Unjournalled \/ Reply \/ Abandon \/ Restart
  <2>1. /\ UNCHANGED declared
        /\ pc' \notin {"scoring", "embedding", "scored"}
        /\ compared' = NoScores
        /\ vectors' \in {vectors, NoScores}
    BY <1>6
    DEF Rank, PrimaryAnswers, FallbackAnswers, FallbackFails, CompileFails, Reject,
        Settle, Undertake, Execute, NextRound, Unjournalled, Reply, Abandon, Restart, Leave,
        ranking, VectorsInv
  <2> QED
    BY <2>1, VectorsLeave
<1> QED
  BY <1>1, <1>2, <1>3, <1>4, <1>5, <1>6 DEF Next, Advance

(* VectorsCurrent: whatever is declared while embeddings are awaited and   *)
(* whoever fills the cache, a tool is scored by the text it was taken      *)
(* with, while its text changes with its version only.                     *)
THEOREM Current == Spec => []VectorsCurrent
<1>1. VectorsInv => VectorsCurrent
  BY DEF VectorsInv
<1> QED
  BY <1>1, Invariance, VectorsInit, VectorsStep, PTL DEF Spec

-----------------------------------------------------------------------------
(* Ranking *)

(* Every tool has a score once they are scored. *)
Scored == pc = "scored" => score \in [cat -> Scores]

LEMMA ScoredInit == Init => Scored
BY DEF Init, Scored

LEMMA ScoredStep == Scored /\ [Next]_vars => Scored'
<1> SUFFICES ASSUME Scored, [Next]_vars, pc' = "scored"
             PROVE  score' \in [cat' -> Scores]
  BY DEF Scored
<1>1. CASE UNCHANGED vars
  BY <1>1 DEF vars, Scored
<1>2. CASE \/ \E t \in Volatile : Redeclare(t) \/ Reword(t) \/ Toggle(t)
           \/ \E p \in Peers : Wander(p)
           \/ EmbeddedElsewhere
  BY <1>2 DEF Redeclare, Reword, Toggle, Wander, Change, EmbeddedElsewhere,
              ranking, Scored
<1>3. CASE ScoreLexically \/ Embedded \/ EmbedFails
  BY <1>3 DEF ScoreLexically, Embedded, EmbedFails
<1>4. CASE \/ \E m \in Messages : Begin(m)
           \/ LookUp \/ Rank \/ PrimaryAnswers \/ FallbackAnswers \/ FallbackFails
           \/ CompileFails \/ Reject \/ Settle \/ Undertake \/ Execute
           \/ Unjournalled \/ Reply \/ Abandon \/ Restart
  BY <1>4
  DEF Begin, LookUp, Rank, PrimaryAnswers, FallbackAnswers, FallbackFails,
      CompileFails, Reject, Settle, Undertake, Execute, NextRound, Unjournalled, Reply,
      Abandon, Restart, Leave
<1> QED
  BY <1>1, <1>2, <1>3, <1>4 DEF Next, Advance

(* The tools of a group that come before t. *)
Before(group, t, s) == {u \in group : Outranks(u, t, s)}

(* Scores and the order of the catalogue put the tools of a group in line: *)
(* who comes before another has fewer before it.                           *)
LEMMA InLine ==
  ASSUME NEW group \in SUBSET Tools, NEW s, \A t \in group : s[t] \in Int
  PROVE  /\ IsFiniteSet(group)
         /\ \A t \in group :
              /\ IsFiniteSet(Before(group, t, s))
              /\ Cardinality(Before(group, t, s)) \in Nat
              /\ Cardinality(Before(group, t, s)) < Cardinality(group)
         /\ \A t, u \in group :
              Outranks(u, t, s) =>
                Cardinality(Before(group, u, s)) < Cardinality(Before(group, t, s))
<1>1. IsFiniteSet(group)
  BY FS_Subset
<1>2. ASSUME NEW T \in SUBSET group
      PROVE  IsFiniteSet(T) /\ Cardinality(T) \in Nat
  BY <1>1, FS_Subset, FS_CardinalityType
<1>3. ASSUME NEW T \in SUBSET group, NEW U \in SUBSET T, NEW x \in T, x \notin U
      PROVE  Cardinality(U) < Cardinality(T)
  <2>1. IsFiniteSet(T) /\ Cardinality(T) \in Nat /\ Cardinality(U) \in Nat
    BY <1>2
  <2>2. Cardinality(U) <= Cardinality(T) /\ Cardinality(U) # Cardinality(T)
    BY <1>3, <2>1, FS_Subset
  <2> QED
    BY <2>1, <2>2
<1>4. \A t \in group : Order[t] \in Nat
  BY OrderAssumption
<1>5. ASSUME NEW t \in group
      PROVE  /\ IsFiniteSet(Before(group, t, s))
             /\ Cardinality(Before(group, t, s)) \in Nat
             /\ Cardinality(Before(group, t, s)) < Cardinality(group)
  <2>1. Before(group, t, s) \in SUBSET group
    BY DEF Before
  <2>2. t \notin Before(group, t, s)
    BY <1>4 DEF Before, Outranks
  <2> QED
    BY <1>2, <1>3, <2>1, <2>2
<1>6. ASSUME NEW t \in group, NEW u \in group, Outranks(u, t, s)
      PROVE  Cardinality(Before(group, u, s)) < Cardinality(Before(group, t, s))
  <2>1. Before(group, t, s) \in SUBSET group
    BY DEF Before
  <2>2. Before(group, u, s) \in SUBSET Before(group, t, s)
    BY <1>4, <1>6 DEF Before, Outranks
  <2>3. u \in Before(group, t, s) /\ u \notin Before(group, u, s)
    BY <1>4, <1>6 DEF Before, Outranks
  <2> QED
    BY <1>3, <2>1, <2>2, <2>3
<1> QED
  BY <1>1, <1>5, <1>6

(* Of a group over its bound k, k are kept: how many come before a tool is *)
(* a numbering of the group from zero.                                     *)
LEMMA TopSize ==
  ASSUME NEW group \in SUBSET Tools, NEW s, \A t \in group : s[t] \in Int,
         NEW k \in Nat, Cardinality(group) > k
  PROVE  Cardinality(Top(group, k, s)) = k
<1> DEFINE n == Cardinality(group)
           place == [t \in group |-> Cardinality(Before(group, t, s))]
           top == Top(group, k, s)
           shown == [t \in top |-> place[t]]
<1>1. /\ IsFiniteSet(group)
      /\ n \in Nat
  BY InLine, FS_CardinalityType
<1>2. place \in [group -> 0 .. n - 1]
  BY <1>1, InLine
<1>3. \A t, u \in group : place[t] = place[u] => t = u
  <2> SUFFICES ASSUME NEW t \in group, NEW u \in group, t # u
               PROVE  place[t] # place[u]
    OBVIOUS
  <2>1. Outranks(u, t, s) \/ Outranks(t, u, s)
    BY OrderAssumption DEF Outranks
  <2>2. place[t] \in Int /\ place[u] \in Int
    BY <1>2
  <2>3. place[t] < place[u] \/ place[u] < place[t]
    BY <2>1, InLine
  <2> QED
    BY <2>2, <2>3
<1>4. IsFiniteSet(0 .. n - 1) /\ Cardinality(0 .. n - 1) = n
  <2>1. n \in Nat
    BY <1>1
  <2> HIDE DEF n
  <2>2. n - 1 \in Int /\ 0 \in Int
    BY <2>1
  <2>3. /\ IsFiniteSet(0 .. n - 1)
        /\ Cardinality(0 .. n - 1) = IF 0 > n - 1 THEN 0 ELSE n - 1 - 0 + 1
    BY <2>2, FS_Interval, Zenon
  <2> QED
    BY <2>1, <2>3
<1>5. place \in Surjection(group, 0 .. n - 1)
  <2>1. place \in Injection(group, 0 .. n - 1)
    BY <1>2, <1>3 DEF Injection, IsInjective
  <2> HIDE DEF place
  <2> QED
    BY <1>4, <2>1, FS_Injection
<1>6. top = {t \in group : place[t] < k}
  BY <1>1 DEF Top, Before
<1>7. shown \in Bijection(top, 0 .. k - 1)
  <2>1. shown \in [top -> 0 .. k - 1]
    BY <1>2, <1>6
  <2>2. \A t, u \in top : shown[t] = shown[u] => t = u
    BY <1>3, <1>6
  <2>3. \A i \in 0 .. k - 1 : \E t \in top : shown[t] = i
    <3> SUFFICES ASSUME NEW i \in 0 .. k - 1 PROVE \E t \in top : shown[t] = i
      OBVIOUS
    <3>1. i \in 0 .. n - 1
      BY <1>1
    <3>2. PICK t \in group : place[t] = i
      BY <1>5, <3>1 DEF Surjection
    <3>3. t \in top
      BY <1>6, <3>2
    <3>4. shown[t] = i
      BY <3>2, <3>3
    <3> QED
      BY <3>3, <3>4
  <2> HIDE DEF shown
  <2> QED
    BY <2>1, <2>2, <2>3 DEF Bijection, Injection, Surjection, IsInjective
<1>8. IsFiniteSet(top)
  BY <1>1, <1>6, FS_Subset
<1>9. Cardinality(top) = Cardinality(0 .. k - 1)
  BY <1>7, <1>8, FS_Bijection DEF ExistsBijection
<1> QED
  BY <1>9, FS_Interval

(* Nobody dropped scores more than anybody kept. *)
LEMMA TopFair ==
  ASSUME NEW group \in SUBSET Tools, \A t \in group : score[t] \in Int,
         NEW k \in Nat
  PROVE  Fair(group, Top(group, k, score), k)
<1>1. CASE Cardinality(group) <= k
  BY <1>1 DEF Fair, Top
<1>2. CASE ~(Cardinality(group) <= k)
  <2>1. IsFiniteSet(group) /\ Cardinality(group) \in Nat
    BY InLine, FS_CardinalityType
  <2>2. Cardinality(group) > k
    BY <1>2, <2>1
  <2>3. Top(group, k, score) = {t \in group : Cardinality(Before(group, t, score)) < k}
    BY <1>2 DEF Top, Before
  <2>4. ASSUME NEW t \in Top(group, k, score),
               NEW u \in group \ Top(group, k, score)
        PROVE  score[t] >= score[u]
    <3> SUFFICES ASSUME score[u] > score[t] PROVE FALSE
      BY <2>3
    <3>1. Outranks(u, t, score)
      BY DEF Outranks
    <3>2. /\ Cardinality(Before(group, u, score)) < Cardinality(Before(group, t, score))
          /\ Cardinality(Before(group, u, score)) \in Nat
          /\ Cardinality(Before(group, t, score)) \in Nat
      BY <2>3, <3>1, InLine
    <3> QED
      BY <2>3, <3>2
  <2>5. Cardinality(Top(group, k, score)) = k
    BY <2>2, TopSize
  <2> QED
    BY <1>2, <2>3, <2>4, <2>5 DEF Fair
<1> QED
  BY <1>1, <1>2

LEMMA RankFair ==
  ASSUME Inv, Scored, Rank
  PROVE  /\ Fair(Local(cat), Local(cat'), LocalTopK)
         /\ Fair(Remote(cat), Remote(cat'), RemoteTopK)
<1> DEFINE localTop == Top(Local(cat), LocalTopK, score)
           remoteTop == Top(Remote(cat), RemoteTopK, score)
<1>1. cat' = localTop \cup remoteTop
  BY DEF Rank, Filtered
<1>2. localTop \subseteq Local(cat) /\ remoteTop \subseteq Remote(cat)
  BY DEF Top
<1>3. Local(cat') = localTop /\ Remote(cat') = remoteTop
  BY <1>1, <1>2 DEF Local, Remote
<1>4. Local(cat) \in SUBSET Tools /\ Remote(cat) \in SUBSET Tools
  BY DEF Inv, TypeOK, Local, Remote
<1>5. \A t \in cat : score[t] \in Int
  BY LimitsAssumption DEF Rank, Scored
<1>6. LocalTopK \in Nat /\ RemoteTopK \in Nat
  BY TopKAssumption
<1>7. Fair(Local(cat), localTop, LocalTopK)
  BY <1>4, <1>5, <1>6, TopFair DEF Local
<1>8. Fair(Remote(cat), remoteTop, RemoteTopK)
  BY <1>4, <1>5, <1>6, TopFair DEF Remote
<1> QED
  BY <1>3, <1>7, <1>8

LEMMA Ranked ==
  Inv /\ Scored /\ [Next]_vars =>
    [pc = "scored" /\ pc' = "compiling" =>
       /\ Fair(Local(cat), Local(cat'), LocalTopK)
       /\ Fair(Remote(cat), Remote(cat'), RemoteTopK)]_vars
<1> SUFFICES ASSUME Inv, Scored, [Next]_vars, pc = "scored", pc' = "compiling"
             PROVE  /\ Fair(Local(cat), Local(cat'), LocalTopK)
                    /\ Fair(Remote(cat), Remote(cat'), RemoteTopK)
  OBVIOUS
<1>1. Rank
  BY DEF Next, vars, Advance, Redeclare, Reword, Toggle, Wander, Change, Begin,
         EmbeddedElsewhere, ScoreLexically, LookUp, Embedded, EmbedFails,
         PrimaryAnswers, FallbackAnswers, FallbackFails, CompileFails, Reject,
         Settle, Undertake, Execute, Unjournalled, Reply, Abandon, Restart, Leave
<1> QED
  BY <1>1, RankFair

(* DropsTheWorst: ranking drops a tool only when its group is over its     *)
(* bound, leaves exactly as many as the bound allows, and keeps none that  *)
(* scores less than one it drops, whatever the scores are.                 *)
THEOREM WorstDropped == Spec => DropsTheWorst
BY Invariance, ScoredInit, ScoredStep, Ranked, PTL DEF Spec, DropsTheWorst
=============================================================================
