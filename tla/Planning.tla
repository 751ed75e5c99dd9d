------------------------------ MODULE Planning ------------------------------
(***************************************************************************)
(* How a dispatch comes to a plan: dispatch_inner and resolve_plan         *)
(* (node/src/planner/plan_exec.rs) with the retriever (retriever.rs) and   *)
(* the compilers (compiler.rs) they call.                                  *)
(*                                                                         *)
(* A dispatch takes the catalogue once, narrows it to what the message     *)
(* mentions, ranks it, and has a model compile a plan over what is left;   *)
(* a second compiler may be asked when the first is unsure, and the first  *)
(* again when its plan is rejected.  What is executed may be followed by   *)
(* one more round.  Meanwhile capabilities are declared, reworded and      *)
(* withdrawn, peers come and go, and other dispatches fill the cache of    *)
(* embeddings.  The turns and the plan journal are the matter of Dispatch, *)
(* the execution of a plan that of PlanExecutor: here they are one step.   *)
(***************************************************************************)
EXTENDS Catalog

CONSTANTS
  Messages,      \* the mentions of the messages sent
  Setups,        \* configurations of the planner, see Setup
  Args,          \* arguments of a call, in full
  Ref,           \* an argument that refers to the output of another step
  Plans,         \* plans a model may write, see PlansAssumption
  Scores,        \* the scores a tool may have for a query
  MaxPlanSteps,  \* MAX_PLAN_STEPS (8 in the code)
  MaxRounds,     \* MAX_PLAN_ROUNDS (2)
  RetryLimit,    \* COMPILE_RETRY_LIMIT (1)
  Volatile,      \* tools whose declarations may change
  Untimed,       \* tools of this node bound to an MCP server, see Fairness
  MaxChanges     \* bound: changes of declarations and of the directory

(* build_runtime_from_resolved: an embeddings endpoint or none, a remote   *)
(* compiler to fall back on or none, the confidence in tenths under which  *)
(* it is asked, and what the model's server honours of the grammars.       *)
Setup == [hybrid : BOOLEAN, fallback : BOOLEAN, threshold : Nat,
          decoding : Decoding]

Call == [name : Names, arg : Args \cup {Ref}]

(* sound: steps have ids of their own, arguments as the schema asks, and   *)
(* dependencies and references that exist and close no cycle.              *)
Plan == [calls : SUBSET Call, sound : BOOLEAN]

Empty == [calls |-> {}, sound |-> TRUE]

ASSUME PlansAssumption ==
  /\ Plans \subseteq Plan
  /\ \A p \in Plans : IsFiniteSet(p.calls)
  /\ Messages \subseteq Message
  /\ Setups \subseteq Setup
  /\ Ref \notin Args

ASSUME LimitsAssumption ==
  /\ MaxPlanSteps \in Nat
  /\ MaxRounds \in Nat \ {0}
  /\ RetryLimit \in Nat
  /\ Scores \subseteq Int
  /\ Volatile \subseteq Tools
  /\ \A t \in Untimed : t \in Tools /\ t.peer = Self
  /\ MaxChanges \in Nat

VARIABLES
  setup,     \* configuration of the planner
  listed,    \* what the registry and the descriptions of peers list
  known,     \* the peers of the directory
  version,   \* Tools -> version declared
  text,      \* Tools -> text a search sees, numbered
  reworded,  \* history: tools whose text changed under one version
  changes,   \* history: changes so far, up to MaxChanges
  vectors,   \* the retriever's cache: key -> text embedded
  pc,        \* what the dispatch is at
  msg,       \* the scope of its message
  cat,       \* its catalogue
  snap,      \* the versions and texts its catalogue was taken with
  missing,   \* the tools whose text it is having embedded
  compared,  \* tool -> text whose vector its score was computed from
  score,     \* tool -> score
  plan,      \* the plan at hand
  attempt,   \* corrective recompiles in this round
  rounds,    \* plans executed
  trace      \* the calls made, arguments resolved

vars == <<setup, listed, known, version, text, reworded, changes, vectors, pc,
          msg, cat, snap, missing, compared, score, plan, attempt, rounds,
          trace>>

declared == <<listed, known, version, text, reworded, changes>>

ranking == <<snap, missing, compared, score>>

work == <<plan, attempt, rounds, trace>>

Everything == [peers |-> {}, lobes |-> {}, caps |-> {}]

Declarations == [version |-> version, text |-> text]

NoScores == <<>>

Init ==
  /\ setup \in Setups
  /\ listed = Tools
  /\ known = Peers
  /\ version = [t \in Tools |-> 0]
  /\ text = [t \in Tools |-> 0]
  /\ reworded = {}
  /\ changes = 0
  /\ vectors = NoScores
  /\ pc = "idle"
  /\ msg = Everything /\ cat = {}
  /\ snap = NoScores /\ missing = {} /\ compared = NoScores /\ score = NoScores
  /\ plan = Empty /\ attempt = 0 /\ rounds = 0 /\ trace = {}

(* The dispatch is over; nothing of it stays. *)
Leave ==
  /\ pc' = "idle"
  /\ msg' = Everything /\ cat' = {}
  /\ snap' = NoScores /\ missing' = {} /\ compared' = NoScores /\ score' = NoScores
  /\ plan' = Empty /\ attempt' = 0 /\ rounds' = 0 /\ trace' = {}

-----------------------------------------------------------------------------
(* What changes around a dispatch *)

Change ==
  /\ changes < MaxChanges
  /\ changes' = changes + 1
  /\ UNCHANGED <<setup, vectors, pc, msg, cat, ranking, work>>

(* A publisher ships a new version of a capability, with its text. *)
Redeclare(t) ==
  /\ Change
  /\ version' = [version EXCEPT ![t] = @ + 1]
  /\ text' = [text EXCEPT ![t] = @ + 1]
  /\ UNCHANGED <<listed, known, reworded>>

(* The text is edited, the version stays. *)
Reword(t) ==
  /\ Change
  /\ text' = [text EXCEPT ![t] = @ + 1]
  /\ reworded' = reworded \cup {t}
  /\ UNCHANGED <<listed, known, version>>

(* A capability is no longer published, or again. *)
Toggle(t) ==
  /\ Change
  /\ listed' = IF t \in listed THEN listed \ {t} ELSE listed \cup {t}
  /\ UNCHANGED <<known, version, text, reworded>>

(* A peer leaves the directory, or comes back. *)
Wander(p) ==
  /\ Change
  /\ known' = IF p \in known THEN known \ {p} ELSE known \cup {p}
  /\ UNCHANGED <<listed, version, text, reworded>>

-----------------------------------------------------------------------------
(* Taking the catalogue *)

(* A mention that matches nothing is refused before anything is recorded;  *)
(* a message whose turn cannot be recorded ends there as well.             *)
Begin(m) ==
  LET all == Build(listed, known)
      scope == FromText(m) IN
  /\ pc = "idle"
  /\ ~Unresolved(scope, all, known)
  /\ pc' = "scoring"
  /\ msg' = scope
  /\ cat' = Scoped(all, Resolved(scope, all, known))
  /\ snap' = Declarations
  /\ UNCHANGED <<setup, declared, vectors, missing, compared, score, work>>

-----------------------------------------------------------------------------
(* Scoring and ranking *)

(* Mutant: vectors are filed under peer and capability alone. *)
KeyUnversioned(t, s) == <<Name(t), 0>>

(* Of the cache; the model's name, one for all, is left out. *)
Key(t, s) == <<Name(t), s.version[t]>>

(* No embeddings configured: BM25 alone. *)
ScoreLexically ==
  /\ pc = "scoring"
  /\ ~setup.hybrid
  /\ score' \in [cat -> Scores]
  /\ pc' = "scored"
  /\ UNCHANGED <<setup, declared, vectors, msg, cat, snap, missing, compared, work>>

(* The lock is released before the embeddings are asked for. *)
LookUp ==
  /\ pc = "scoring"
  /\ setup.hybrid
  /\ missing' = {t \in cat : Key(t, snap) \notin DOMAIN vectors}
  /\ pc' = "embedding"
  /\ UNCHANGED <<setup, declared, vectors, msg, cat, snap, compared, score, work>>

(* The cache with the texts of some tools, as s has them, inserted.        *)
Inserted(tools, s) ==
  [k \in DOMAIN vectors \cup {Key(t, s) : t \in tools} |->
     IF \E t \in tools : Key(t, s) = k
     THEN s.text[CHOOSE t \in tools : Key(t, s) = k]
     ELSE vectors[k]]

(* The vectors come: the cache is filled, then read. *)
Embedded ==
  /\ pc = "embedding"
  /\ vectors' = Inserted(missing, snap)
  /\ compared' = [t \in cat |-> vectors'[Key(t, snap)]]
  /\ score' \in [cat -> Scores]
  /\ missing' = {}
  /\ pc' = "scored"
  /\ UNCHANGED <<setup, declared, msg, cat, snap, work>>

(* The endpoint fails: BM25 alone, this time. *)
EmbedFails ==
  /\ pc = "embedding"
  /\ score' \in [cat -> Scores]
  /\ missing' = {}
  /\ pc' = "scored"
  /\ UNCHANGED <<setup, declared, vectors, msg, cat, snap, compared, work>>

(* A dispatch of another conversation has what it sees embedded. *)
EmbeddedElsewhere ==
  LET seen == {t \in Build(listed, known) : Key(t, Declarations) \notin DOMAIN vectors} IN
  /\ setup.hybrid
  /\ vectors' = Inserted(seen, Declarations)
  /\ UNCHANGED <<setup, declared, pc, msg, cat, ranking, work>>

(* The catalogue is what every compile of the dispatch sees from now on.   *)
Rank ==
  /\ pc = "scored"
  /\ cat' = Filtered(cat, score)
  /\ snap' = NoScores
  /\ compared' = NoScores
  /\ score' = NoScores
  /\ pc' = "compiling"
  /\ UNCHANGED <<setup, declared, vectors, msg, missing, work>>

-----------------------------------------------------------------------------
(* Compiling *)

(* validate_plan *)
Valid(p, c) ==
  /\ p.calls # {}
  /\ Cardinality(p.calls) <= MaxPlanSteps
  /\ p.sound
  /\ \A call \in p.calls : Finds(c, call.name)

(* In tenths, by the size of the plan alone. *)
Confidence(p) ==
  IF Cardinality(p.calls) > MaxPlanSteps THEN 3
  ELSE IF p.calls = {} THEN 5
  ELSE 9

RemoteConfidence(p, c) == Confidence(p) + IF Valid(p, c) THEN 1 ELSE 0

PlansWithin(names) == {p \in Plans : \A call \in p.calls : call.name \in names}

(* What the local model may write over a catalogue; what cannot be parsed  *)
(* is taken for the empty plan.                                            *)
LocalPlans(c) == PlansWithin(Sampled(c, setup.decoding)) \cup {Empty}

(* What the `plan` capability of another node may answer: it compiles over *)
(* the caller's catalogue, with a model and a server of its own.           *)
RemotePlans(c) ==
  {Empty} \cup UNION {PlansWithin(Sampled(c, d)) : d \in Decoding}

Unsure(p) == setup.fallback /\ Confidence(p) < setup.threshold

PrimaryAnswers ==
  /\ pc = "compiling"
  /\ plan' \in LocalPlans(cat)
  /\ pc' = IF Unsure(plan') THEN "escalating" ELSE "deciding"
  /\ UNCHANGED <<setup, declared, vectors, msg, cat, ranking, attempt, rounds, trace>>

(* The plan kept of two: the other one if it inspires more confidence. *)
Kept(held, other) ==
  IF RemoteConfidence(other, cat) > Confidence(held) THEN other ELSE held

FallbackAnswers ==
  /\ pc = "escalating"
  /\ \E other \in RemotePlans(cat) : plan' = Kept(plan, other)
  /\ pc' = "deciding"
  /\ UNCHANGED <<setup, declared, vectors, msg, cat, ranking, attempt, rounds, trace>>

FallbackFails ==
  /\ pc = "escalating"
  /\ pc' = "deciding"
  /\ UNCHANGED <<setup, declared, vectors, msg, cat, ranking, work>>

(* The first compile that fails ends the dispatch; a corrective one or a   *)
(* continuation that fails leaves it with what it has.                     *)
CompileFails ==
  /\ pc = "compiling"
  /\ \/ rounds = 0 /\ attempt = 0 /\ Leave
     \/ /\ rounds > 0 \/ attempt > 0
        /\ pc' = "replying"
        /\ UNCHANGED <<msg, cat, ranking, work>>
  /\ UNCHANGED <<setup, declared, vectors>>

-----------------------------------------------------------------------------
(* Deciding: resolve_plan and what follows from it *)

(* Mutant: a corrective recompile is not counted. *)
RejectUncounted ==
  /\ pc = "deciding"
  /\ plan.calls # {} /\ ~Valid(plan, cat)
  /\ attempt < RetryLimit
  /\ pc' = "compiling"
  /\ UNCHANGED <<setup, declared, vectors, msg, cat, ranking, work>>

(* A rejected plan is compiled again, by the same cascade, with the reason *)
(* it was rejected for.                                                    *)
Reject ==
  /\ pc = "deciding"
  /\ plan.calls # {} /\ ~Valid(plan, cat)
  /\ attempt < RetryLimit
  /\ attempt' = attempt + 1
  /\ pc' = "compiling"
  /\ UNCHANGED <<setup, declared, vectors, msg, cat, ranking, plan, rounds, trace>>

(* Every call was made before, with the same arguments. *)
AddsNothing == trace # {} /\ \A call \in plan.calls : call.arg # Ref /\ call \in trace

(* Nothing is to be run: the plan is empty, was rejected once too often,   *)
(* or continues by repeating; or its row in the journal fails, in a round  *)
(* after the first.                                                        *)
Settle ==
  /\ pc = "deciding"
  /\ \/ plan.calls = {}
     \/ ~Valid(plan, cat) /\ attempt >= RetryLimit
     \/ rounds > 0
  /\ pc' = "replying"
  /\ UNCHANGED <<setup, declared, vectors, msg, cat, ranking, work>>

(* The trace of a call: a reference in its arguments is resolved to a      *)
(* value, or is left when the step it refers to failed.                    *)
Traced(call, args) ==
  [call EXCEPT !.arg = IF call.arg = Ref THEN args[call] ELSE call.arg]

(* Mutant: rounds are bounded by the budgets of steps and time alone. *)
NextRoundUnbounded == "compiling"

(* Whether another round is planned: a step failed or the plan is deep,    *)
(* and time is left; of these only the number of rounds is told apart.     *)
NextRound == IF rounds + 1 < MaxRounds THEN "compiling" ELSE "replying"

(* The plan is in the journal, and is run. *)
Undertake ==
  /\ pc = "deciding"
  /\ Valid(plan, cat)
  /\ ~AddsNothing
  /\ pc' = "executing"
  /\ UNCHANGED <<setup, declared, vectors, msg, cat, ranking, work>>

(* Its steps have settled. *)
Execute ==
  /\ pc = "executing"
  /\ \E args \in [plan.calls -> Args \cup {Ref}] :
       trace' = trace \cup {Traced(call, args) : call \in plan.calls}
  /\ rounds' = rounds + 1
  /\ attempt' = 0
  /\ plan' = Empty
  /\ pc' \in {NextRound, "replying"}
  /\ UNCHANGED <<setup, declared, vectors, msg, cat, ranking>>

(* The first plan cannot be journalled: an error. *)
Unjournalled ==
  /\ pc = "deciding"
  /\ Valid(plan, cat)
  /\ rounds = 0
  /\ Leave
  /\ UNCHANGED <<setup, declared, vectors>>

(* The reply is composed and recorded, or is not. *)
Reply ==
  /\ pc = "replying"
  /\ Leave
  /\ UNCHANGED <<setup, declared, vectors>>

(* The client leaves, and the dispatch's future is dropped. *)
Abandon ==
  /\ pc # "idle"
  /\ Leave
  /\ UNCHANGED <<setup, declared, vectors>>

(* The process stops; its cache is lost with the dispatch. *)
Restart ==
  /\ Leave
  /\ vectors' = NoScores
  /\ UNCHANGED <<setup, declared>>

(* What a dispatch does by itself, but for the steps of its plan. *)
Advance ==
  \/ ScoreLexically \/ LookUp \/ Embedded \/ EmbedFails \/ Rank
  \/ PrimaryAnswers \/ FallbackAnswers \/ FallbackFails \/ CompileFails
  \/ Reject \/ Settle \/ Undertake \/ Unjournalled \/ Reply

Next ==
  \/ \E t \in Volatile : Redeclare(t) \/ Reword(t) \/ Toggle(t)
  \/ \E p \in Peers : Wander(p)
  \/ \E m \in Messages : Begin(m)
  \/ EmbeddedElsewhere
  \/ Advance
  \/ Execute
  \/ Abandon
  \/ Restart

Spec == Init /\ [][Next]_vars

(* The plan being run calls a tool of a local MCP server. *)
MayHang == \E t \in Untimed, call \in plan.calls : call.name = Name(t)

(* A call to a model, an embeddings endpoint, an HTTP binding or another   *)
(* node ends, if by its timeout.  A call to an MCP server has none, and so *)
(* a plan with one does not have to end: its steps are waited for without  *)
(* a timeout either.                                                       *)
Fairness == WF_vars(Advance \/ (Execute /\ ~MayHang))

FairSpec == Spec /\ Fairness

-----------------------------------------------------------------------------
(* Correctness *)

Pc == {"idle", "scoring", "embedding", "scored", "compiling", "escalating",
       "deciding", "executing", "replying"}

(* The state has its type: among the rest, a dispatch runs MAX_PLAN_ROUNDS *)
(* plans and corrects each COMPILE_RETRY_LIMIT times at most.              *)
TypeOK ==
  /\ setup \in Setups
  /\ listed \subseteq Tools
  /\ known \subseteq Peers
  /\ version \in [Tools -> Nat]
  /\ text \in [Tools -> Nat]
  /\ reworded \subseteq Tools
  /\ changes \in 0 .. MaxChanges
  /\ pc \in Pc
  /\ msg \in Scope
  /\ cat \subseteq Tools
  /\ missing \subseteq cat
  /\ plan \in Plan
  /\ IsFiniteSet(plan.calls)
  /\ attempt \in 0 .. RetryLimit
  /\ rounds \in 0 .. MaxRounds
  /\ trace \subseteq Call

(* The names of the tools the message at hand admits. *)
AdmittedNames == {Name(t) : t \in {u \in Tools : u.cap # PlanCap /\ Admits(msg, u)}}

(* The dispatch, seen as work within the scope of its message. *)
Work ==
  INSTANCE ScopedWork WITH
    Tool <- Names, MaxPlans <- MaxRounds, MaxTools <- MaxPlanSteps,
    open <- pc # "idle",
    allowed <- IF pc = "idle" THEN {} ELSE AdmittedNames,
    plans <- rounds,
    done <- {call.name : call \in trace}

(* Whatever the models write, also on a second try, in a second round or   *)
(* from another node, the tools invoked for a message are among those it   *)
(* admits, in MAX_PLAN_ROUNDS plans of MAX_PLAN_STEPS tools at most: "they *)
(* wrote one peer, the node used another and said nothing"                 *)
(* (dispatch_inner) does not come back.                                    *)
ImplementsScopedWork == Work!Spec

(* A group of tools, ranked down to k. *)
Fair(before, after, k) ==
  /\ after \subseteq before
  /\ IF Cardinality(before) <= k THEN after = before
     ELSE /\ Cardinality(after) = k
          /\ \A t \in after, u \in before \ after : score[t] >= score[u]

(* Ranking drops a tool only when its group is over its bound and no tool  *)
(* kept in its place scores less, whether or not embeddings were to be had *)
(* and also when no tool scores at all: "they only ever drop a cap when    *)
(* something else outranks it" (catalog.rs).                               *)
DropsTheWorst ==
  [][pc = "scored" /\ pc' = "compiling" =>
       /\ Fair(Local(cat), Local(cat'), LocalTopK)
       /\ Fair(Remote(cat), Remote(cat'), RemoteTopK)]_vars

(* A tool is scored by the text its dispatch took it with, whatever was    *)
(* declared while the embeddings were awaited and whoever filled the cache *)
(* before or meanwhile, as long as its text changes with its version only  *)
(* (retriever.rs, `cache`).                                                *)
VectorsCurrent ==
  pc = "scored" =>
    \A t \in DOMAIN compared :
      t \notin reworded => compared[t] = snap.text[t]

(* Every dispatch ends, whatever plans are written, rejected and continued *)
(* (resolve_plan's and dispatch_inner's loops), or is held for good by a   *)
(* plan in which a local MCP server was called; by nothing else.           *)
Answered ==
  pc # "idle" ~> \/ pc = "idle"
                 \/ [](pc = "executing" /\ MayHang)
=============================================================================
