------------------------------ MODULE Dispatch ------------------------------
(***************************************************************************)
(* PlanExecPlanner::dispatch_inner (node/src/planner/plan_exec.rs) and the *)
(* part of ConversationRuntime that keeps its result: the dispatches of    *)
(* one conversation, one at a time, against the turns and the plan journal *)
(* in SQLite.                                                              *)
(*                                                                         *)
(* A dispatch records the user's turn, compiles a plan, journals it, runs  *)
(* it, possibly compiles, journals and runs a continuation, and records    *)
(* the reply.  Tool turns reach the database while the plan runs, at       *)
(* sequence numbers reserved by the index of their step; the conversation  *)
(* in memory gets them afterwards.  Every write can fail, the process can  *)
(* crash between any two, and the future of a request whose client left is *)
(* dropped where it waits.                                                 *)
(***************************************************************************)
EXTENDS Naturals, FiniteSets

CONSTANTS
  Requests,        \* how dispatches are requested, see Request
  MaxPlanSteps,    \* MAX_PLAN_STEPS (8 in the code)
  MaxTotalSteps,   \* MAX_TOTAL_STEPS (12)
  MaxRounds,       \* MAX_PLAN_ROUNDS (2)
  DepthThreshold,  \* CONTINUATION_DEPTH_THRESHOLD (3)
  MaxDispatches    \* bound: dispatches of the conversation

(* A streamed request runs in a task of its own and outlives its client;   *)
(* the future of a waiting one is dropped with the connection.             *)
Request == {"streamed", "waiting"}

ASSUME RequestsAssumption == Requests \subseteq Request

ASSUME BoundsAssumption ==
  /\ MaxPlanSteps \in Nat \ {0}
  /\ MaxRounds \in Nat \ {0}
  /\ MaxTotalSteps \in Nat
  /\ DepthThreshold \in Nat
  /\ MaxDispatches \in Nat

VARIABLES
  turns,     \* conversation_turns: sequence number -> turn
  rows,      \* plan_runs: <<dispatch, round>> -> status
  cache,     \* the runtime's cached ConversationState, or NoState
  state,     \* the ConversationState the dispatch works on, or NoState
  dispatch,  \* number of the current or last dispatch
  request,   \* how the current dispatch was requested
  run,       \* the dispatch's plan and accumulated PlanRun
  pc,        \* what the dispatch awaits
  cut        \* history: <<dispatch, why>> when its journal could not be closed

dispatchVars == <<turns, rows, cache, state, dispatch, request, run, pc, cut>>

journal == <<rows, cut>>

-----------------------------------------------------------------------------
(* Turns *)

User(d) == [by |-> d, kind |-> "user", round |-> 0, step |-> 0]
Call(d, r, i) == [by |-> d, kind |-> "call", round |-> r, step |-> i]
Result(d, r, i) == [by |-> d, kind |-> "result", round |-> r, step |-> i]
Reply(d) == [by |-> d, kind |-> "reply", round |-> 0, step |-> 0]

(* A conversation in memory: its turns, at the sequence numbers they have, *)
(* and the highest number used.                                            *)
NoState == [turns |-> <<>>, next |-> 0, loaded |-> FALSE]

MaxSeq(t) ==
  CHOOSE m \in DOMAIN t \cup {0} : \A q \in DOMAIN t : q <= m

Extend(f, q, t) ==
  [p \in DOMAIN f \cup {q} |-> IF p = q THEN t ELSE f[p]]

Push(s, t) ==
  [s EXCEPT !.turns = Extend(@, s.next + 1, t), !.next = @ + 1]

(* A call left without its result is given one, in memory.                 *)
Validate(s) ==
  IF s.next \in DOMAIN s.turns /\ s.turns[s.next].kind = "call"
  THEN Push(s, [s.turns[s.next] EXCEPT !.kind = "result"])
  ELSE s

Load ==
  IF cache.loaded THEN cache
  ELSE Validate([turns |-> turns, next |-> MaxSeq(turns), loaded |-> TRUE])

(* The turns of a round's steps, two by two in the plan's order.           *)
PushTrace(s, d, r, n) ==
  [s EXCEPT
    !.turns = [q \in DOMAIN @ \cup (s.next + 1 .. s.next + 2 * n) |->
                 IF q <= s.next THEN @[q]
                 ELSE IF (q - s.next) % 2 = 1
                      THEN Call(d, r, (q - s.next) \div 2)
                      ELSE Result(d, r, (q - s.next) \div 2 - 1)],
    !.next = @ + 2 * n]

-----------------------------------------------------------------------------
(* The plan being run and what earlier rounds left *)

(* round: plans executed or being executed; base: sequence number of the   *)
(* user's turn; size, deep: of the current plan; todo: indexes of its      *)
(* steps not yet done; trace: steps of earlier rounds; failed: some step   *)
(* ended in an error.                                                      *)
NoRun == [round |-> 0, base |-> 0, size |-> 0, deep |-> FALSE, todo |-> {},
          trace |-> 0, failed |-> FALSE]

DispatchInit ==
  /\ turns = <<>>
  /\ rows = <<>>
  /\ cache = NoState
  /\ state = NoState
  /\ dispatch = 0
  /\ request = "streamed"
  /\ run = NoRun
  /\ pc = "idle"
  /\ cut = {}

(* The dispatch is over; no trace of it is left in memory.                 *)
Leave ==
  /\ pc' = "idle"
  /\ state' = NoState
  /\ run' = NoRun
  /\ UNCHANGED <<dispatch, request>>

(* Mutant: an error leaves the conversation in the cache. *)
ReturnErrCached == Leave /\ cache' = cache

(* The runtime evicts the conversation when the planner returns an error.  *)
ReturnErr == Leave /\ cache' = NoState

-----------------------------------------------------------------------------
(* Recording the user's turn *)

Begin(k) ==
  /\ pc = "idle"
  /\ dispatch < MaxDispatches
  /\ dispatch' = dispatch + 1
  /\ request' = k

(* A mention this node cannot resolve, or an insert that fails, also on a  *)
(* sequence number that is taken.                                          *)
BeginFails(k) ==
  /\ Begin(k)
  /\ cache' = NoState
  /\ UNCHANGED <<turns, journal, state, run, pc>>

RecordUser(k) ==
  LET s == Push(Load, User(dispatch + 1)) IN
  /\ Begin(k)
  /\ s.next \notin DOMAIN turns
  /\ turns' = Extend(turns, s.next, User(dispatch + 1))
  /\ cache' = Load
  /\ state' = s
  /\ run' = [NoRun EXCEPT !.base = s.next]
  /\ pc' = "compiling"
  /\ UNCHANGED journal

-----------------------------------------------------------------------------
(* Compiling and journalling a plan *)

Compiling == pc \in {"compiling", "recompiling"}

(* An invalid plan is compiled once more, with the validator's complaint;  *)
(* the second plan counts, whatever it is.                                 *)
Recompile ==
  /\ pc = "compiling"
  /\ pc' = "recompiling"
  /\ UNCHANGED <<turns, journal, cache, state, dispatch, request, run>>

(* The first compile of a dispatch fails, or the row of its first plan     *)
(* cannot be inserted: an error of the dispatch.                           *)
NoFirstPlan ==
  /\ Compiling
  /\ run.round = 0
  /\ ReturnErr
  /\ UNCHANGED <<turns, journal>>

Reflect ==
  /\ Compiling
  /\ pc' = "reflecting"
  /\ UNCHANGED <<turns, journal, cache, state, dispatch, request, run>>

(* The first plan is empty, or none could be made valid.                   *)
NothingToRun == run.round = 0 /\ Reflect

(* No continuation: also when it cannot be compiled, only repeats what ran *)
(* or cannot be journalled.                                                *)
StopRounds == run.round > 0 /\ Reflect

(* plan_depth: a chain of dependent steps is no longer than the plan.      *)
MayHaveDepth(n, deep) == deep => n >= DepthThreshold

Planned(n, deep) ==
  run' = [run EXCEPT !.round = @ + 1, !.size = n, !.deep = deep,
                     !.todo = 0 .. n - 1]

Journal(row) == rows' = Extend(rows, row, "running")

(* A valid plan of n steps, journalled as running before it is executed.   *)
Execute(n, deep) ==
  /\ Compiling
  /\ MayHaveDepth(n, deep)
  /\ Planned(n, deep)
  /\ Journal(<<dispatch, run.round + 1>>)
  /\ pc' = "executing"
  /\ UNCHANGED <<turns, cache, state, dispatch, request, cut>>

-----------------------------------------------------------------------------
(* Executing it *)

(* Mutant: numbers are handed out in the order in which steps finish. *)
CallSeqByCompletion(i) ==
  run.base + 1 + 2 * (run.trace + run.size - Cardinality(run.todo))

(* The number reserved for the call of step i; its result has the next.    *)
CallSeq(i) == run.base + 1 + 2 * (run.trace + i)

(* The durability hook: both turns in one transaction, or neither; its     *)
(* error is only logged.                                                   *)
PersistPair(i) ==
  \/ /\ {CallSeq(i), CallSeq(i) + 1} \cap DOMAIN turns = {}
     /\ turns' = Extend(Extend(turns, CallSeq(i), Call(dispatch, run.round, i)),
                        CallSeq(i) + 1, Result(dispatch, run.round, i))
  \/ UNCHANGED turns

(* The executor settles step i, in whatever order the graph allows.        *)
StepDone(i) ==
  /\ pc = "executing"
  /\ i \in run.todo
  /\ \E failed \in {run.failed, TRUE} :
       run' = [run EXCEPT !.todo = @ \ {i}, !.failed = failed]
  /\ PersistPair(i)
  /\ UNCHANGED <<journal, cache, state, dispatch, request, pc>>

(* Closing a row is best effort. *)
SetStatus(row, status) ==
  \/ rows' = [rows EXCEPT ![row] = status] /\ UNCHANGED cut
  \/ UNCHANGED rows /\ cut' = cut \cup {<<dispatch, "lost">>}

(* Mutant: only the step budget bounds the rounds. *)
MayContinueAnyRound ==
  /\ run.trace + run.size < MaxTotalSteps
  /\ run.failed \/ run.deep

(* continuation_reason, apart from the time already spent.                 *)
MayContinue ==
  /\ run.round < MaxRounds
  /\ run.trace + run.size < MaxTotalSteps
  /\ run.failed \/ run.deep

(* All steps settled: the trace is mirrored in memory, a continuation's    *)
(* row closed, and another round compiled if there is reason and budget.   *)
Reconcile ==
  /\ pc = "executing"
  /\ run.todo = {}
  /\ state' = PushTrace(state, dispatch, run.round, run.size)
  /\ run' = [run EXCEPT !.trace = @ + run.size, !.size = 0]
  /\ IF run.round = 1 THEN UNCHANGED journal
                      ELSE SetStatus(<<dispatch, run.round>>, "done")
  /\ \/ pc' = "reflecting"
     \/ MayContinue /\ pc' = "compiling"
  /\ UNCHANGED <<turns, cache, dispatch, request>>

-----------------------------------------------------------------------------
(* Replying *)

(* Mutant: the journal is left to the success path. *)
CloseOnSuccess(status) ==
  IF run.round = 0 \/ status = "failed" THEN UNCHANGED journal
  ELSE SetStatus(<<dispatch, 1>>, status)

(* The first plan's row stays open until the reply is known.               *)
CloseRun(status) ==
  IF run.round = 0 THEN UNCHANGED journal
  ELSE SetStatus(<<dispatch, 1>>, status)

(* The composer fails, or its reply cannot be recorded.                    *)
ReflectFails ==
  /\ pc = "reflecting"
  /\ CloseRun("failed")
  /\ ReturnErr
  /\ UNCHANGED turns

RecordReply ==
  LET s == Push(state, Reply(dispatch)) IN
  /\ pc = "reflecting"
  /\ s.next \notin DOMAIN turns
  /\ turns' = Extend(turns, s.next, Reply(dispatch))
  /\ state' = s
  /\ pc' = "closing"
  /\ UNCHANGED <<journal, cache, dispatch, request, run>>

(* The row is closed, the state replaces the cached one.                   *)
ReturnOk ==
  /\ pc = "closing"
  /\ CloseRun("done")
  /\ cache' = state
  /\ Leave
  /\ UNCHANGED turns

-----------------------------------------------------------------------------
(* What else befalls a conversation *)

(* The client of a waiting request leaves: its future is dropped where it  *)
(* awaits the compiler, the steps or the composer.                         *)
Abandon ==
  /\ request = "waiting"
  /\ \/ Compiling
     \/ pc = "executing" /\ run.todo # {}
     \/ pc = "reflecting"
  /\ Leave
  /\ cut' = cut \cup {<<dispatch, "left">>}
  /\ UNCHANGED <<turns, rows, cache>>

Crash ==
  /\ pc # "idle" \/ cache.loaded
  /\ Leave
  /\ cache' = NoState
  /\ cut' = IF pc = "idle" THEN cut ELSE cut \cup {<<dispatch, "lost">>}
  /\ UNCHANGED <<turns, rows>>

(* Other conversations push this one out of the LRU cache, or its title is *)
(* changed.                                                                *)
Evict ==
  /\ cache.loaded
  /\ cache' = NoState
  /\ UNCHANGED <<turns, journal, state, dispatch, request, run, pc>>

DispatchNext ==
  \/ \E k \in Requests : BeginFails(k) \/ RecordUser(k)
  \/ Recompile
  \/ NoFirstPlan
  \/ NothingToRun
  \/ StopRounds
  \/ \E n \in 1 .. MaxPlanSteps, deep \in BOOLEAN : Execute(n, deep)
  \/ \E i \in 0 .. MaxPlanSteps - 1 : StepDone(i)
  \/ Reconcile
  \/ ReflectFails
  \/ RecordReply
  \/ ReturnOk
  \/ Abandon
  \/ Crash
  \/ Evict

DispatchSpec == DispatchInit /\ [][DispatchNext]_dispatchVars

-----------------------------------------------------------------------------
(* Correctness *)

Turn ==
  [by : 1 .. MaxDispatches, kind : {"user", "call", "result", "reply"},
   round : 0 .. MaxRounds, step : 0 .. MaxPlanSteps - 1]

IsLedger(f) ==
  /\ DOMAIN f \subseteq Nat \ {0}
  /\ \A q \in DOMAIN f : f[q] \in Turn

IsState(s) ==
  /\ IsLedger(s.turns)
  /\ s.next \in Nat
  /\ s.loaded \in BOOLEAN
  /\ \A q \in DOMAIN s.turns : q <= s.next

(* The state has its type: among the rest, a dispatch executes at most     *)
(* MAX_PLAN_ROUNDS plans (dispatch_inner's loop).                          *)
DispatchTypeOK ==
  /\ IsLedger(turns)
  /\ DOMAIN rows \subseteq (1 .. MaxDispatches) \X (1 .. MaxRounds)
  /\ \A r \in DOMAIN rows : rows[r] \in {"running", "done", "failed"}
  /\ IsState(cache) /\ IsState(state)
  /\ dispatch \in 0 .. MaxDispatches
  /\ request \in Request
  /\ run.round \in 0 .. MaxRounds
  /\ run.base \in Nat
  /\ run.size \in 0 .. MaxPlanSteps
  /\ run.deep \in BOOLEAN
  /\ run.todo \subseteq 0 .. run.size - 1
  /\ run.trace \in 0 .. MaxRounds * MaxPlanSteps
  /\ run.failed \in BOOLEAN
  /\ pc \in {"idle", "compiling", "recompiling", "executing", "reflecting",
             "closing"}
  /\ cut \subseteq (1 .. MaxDispatches) \X {"left", "lost"}

(* The place a turn has in a dispatch replayed in memory: user turn, pairs *)
(* in the plans' order, reply.                                             *)
Before(t, u) ==
  \/ t.by < u.by
  \/ /\ t.by = u.by
     /\ \/ t.kind = "user" /\ u.kind # "user"
        \/ t.kind # "reply" /\ u.kind = "reply"
        \/ /\ {t.kind, u.kind} \subseteq {"call", "result"}
           /\ \/ t.round < u.round
              \/ t.round = u.round /\ t.step < u.step
              \/ /\ t.round = u.round /\ t.step = u.step
                 /\ t.kind = "call" /\ u.kind = "result"

(* Whatever crashed, failed or finished out of order, the recorded turns   *)
(* are in the order of the conversation: "a crash mid-run then leaves a    *)
(* partial but correctly-ordered trace" (persist_tool_pair_at).            *)
LedgerOrdered ==
  \A p, q \in DOMAIN turns : p < q => Before(turns[p], turns[q])

(* A conversation is made of exchanges: no turn is recorded twice, however *)
(* often plans are compiled and steps retried; a turn has its question     *)
(* before it, and between the two there are only turns of the same         *)
(* dispatch.                                                               *)
Exchanges ==
  /\ \A p, q \in DOMAIN turns : turns[p] = turns[q] => p = q
  /\ \A q \in DOMAIN turns : \E p \in DOMAIN turns :
       /\ p <= q /\ turns[p] = User(turns[q].by)
       /\ \A x \in DOMAIN turns : p <= x /\ x <= q => turns[x].by = turns[q].by

Mirrors(s) ==
  \A q \in DOMAIN turns : q \in DOMAIN s.turns /\ s.turns[q] = turns[q]

(* No client has left a dispatch of its own.                               *)
Stayed == \A e \in cut : e[2] # "left"

(* No turn is ever about to be inserted at a sequence number that is taken *)
(* ("stale cache must not cause duplicate seq insert", runtime.rs tests;   *)
(* the offset of the continuation's tool turns), whoever leaves.           *)
NextSeqFree ==
  /\ pc = "idle" => Load.next + 1 \notin DOMAIN turns
  /\ Compiling \/ pc = "reflecting" => state.next + 1 \notin DOMAIN turns
  /\ pc = "executing" =>
       \A i \in run.todo :
         {CallSeq(i), CallSeq(i) + 1} \cap DOMAIN turns = {}

(* The conversation in memory agrees with the recorded one turn by turn,   *)
(* whether cached between dispatches or reconciled within one, through     *)
(* failures, crashes and evictions: "so both views agree"                  *)
(* (dispatch_inner); and what is inserted next from it meets no taken      *)
(* number.  A client that leaves ends this.                                *)
ViewsAgree ==
  Stayed =>
    /\ pc = "idle" /\ cache.loaded => Mirrors(cache)
    /\ Compiling \/ pc \in {"reflecting", "closing"} => Mirrors(state)
    /\ NextSeqFree

(* No step runs under a plan the journal does not have as running, and no  *)
(* tool turn outlives a crash without the row of its plan ("a crash could  *)
(* leave work with no trace of the plan that caused it", dispatch_inner).  *)
RunsJournalled ==
  /\ pc = "executing" =>
       /\ <<dispatch, run.round>> \in DOMAIN rows
       /\ rows[<<dispatch, run.round>>] = "running"
  /\ \A q \in DOMAIN turns :
       turns[q].kind \in {"call", "result"} =>
         <<turns[q].by, turns[q].round>> \in DOMAIN rows

(* What the journal says of a plan is true.  What runs or has run is in    *)
(* it.  A dispatch's first plan is done only once its reply is recorded    *)
(* (the status set after reflect_only).  A row left running is the orphan  *)
(* of a dispatch that was interrupted or could not update it: one that     *)
(* returned closed its rows, also on its error paths (plan_runs.rs,        *)
(* header).                                                                *)
JournalTells ==
  /\ RunsJournalled
  /\ \A r \in DOMAIN rows :
       /\ r[2] = 1 /\ rows[r] = "done" => \E q \in DOMAIN turns : turns[q] = Reply(r[1])
       /\ rows[r] = "running" =>
            (\E e \in cut : e[1] = r[1]) \/ (r[1] = dispatch /\ pc # "idle")
=============================================================================
