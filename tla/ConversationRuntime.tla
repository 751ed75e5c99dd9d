------------------------- MODULE ConversationRuntime -------------------------
(***************************************************************************)
(* NodeRuntime (node/src/runtime.rs) under the HTTP handlers that use it   *)
(* (server/src/http.rs): many requests on many conversations, one lock per *)
(* conversation, a semaphore on dispatches, a cache of conversations, and  *)
(* the replacement of the whole runtime when the planner is reconfigured.  *)
(*                                                                         *)
(* A dispatch is its user turn and its reply (the planner for direct chat; *)
(* Dispatch.tla has the tool turns in between).  Turns are inserted at the *)
(* number after the last one the dispatch knows of, which the primary key  *)
(* refuses if it is taken.                                                 *)
(***************************************************************************)
EXTENDS Naturals, Sequences, FiniteSets

CONSTANTS
  Conv,           \* conversations
  Req,            \* requests, each a message to one conversation
  Waiting,        \* those whose client waits for the response
  MaxConcurrent,  \* max_concurrent_planners (4 in the code)
  MaxSwaps        \* bound: times the runtime is replaced

ASSUME WaitingAssumption == Waiting \subseteq Req

ASSUME BoundsAssumption == MaxConcurrent \in Nat \ {0} /\ MaxSwaps \in Nat

VARIABLES
  conv,    \* the conversation of each request
  ledger,  \* conversation_turns: the turns of each, as <<request, kind>>
  gen,     \* number of the runtime the handle points to
  cache,   \* <<runtime, conversation>> -> last number of the cached state
  pc,      \* where each request is
  rt,      \* the runtime it runs on
  last     \* the last number of the state it works on

vars == <<conv, ledger, gen, cache, pc, rt, last>>

Gen == 0 .. MaxSwaps

Finished == {"answered", "failed", "gone"}

(* Inside handle_user_message, with the conversation's lock.               *)
Holding == {"slot", "ready", "thinking"}

Holders(g, c) == {r \in Req : pc[r] \in Holding /\ rt[r] = g /\ conv[r] = c}

Dispatching(g) == {r \in Req : pc[r] \in {"ready", "thinking"} /\ rt[r] = g}

Init ==
  /\ conv \in [Req -> Conv]
  /\ ledger = [c \in Conv |-> <<>>]
  /\ gen = 0
  /\ cache = <<>>
  /\ pc = [r \in Req |-> "new"]
  /\ rt = [r \in Req |-> 0]
  /\ last = [r \in Req |-> 0]

-----------------------------------------------------------------------------
(* The cache *)

Key(r) == <<rt[r], conv[r]>>

(* load_state *)
Load(r) == IF Key(r) \in DOMAIN cache THEN cache[Key(r)] ELSE Len(ledger[conv[r]])

(* Mutant: the number of the next turn is taken for that of the last. *)
PutNext(k, n) ==
  cache' = [j \in DOMAIN cache \cup {k} |-> IF j = k THEN n + 1 ELSE cache[j]]

Put(k, n) ==
  cache' = [j \in DOMAIN cache \cup {k} |-> IF j = k THEN n ELSE cache[j]]

Pop(k) == cache' = [j \in DOMAIN cache \ {k} |-> cache[j]]

-----------------------------------------------------------------------------
(* A request *)

GoTo(r, p) == pc' = [pc EXCEPT ![r] = p]

(* prepare_dispatch takes the runtime of the moment.                       *)
Arrive(r) ==
  /\ pc[r] = "new"
  /\ rt' = [rt EXCEPT ![r] = gen]
  /\ GoTo(r, "lock")
  /\ UNCHANGED <<conv, ledger, gen, cache, last>>

(* Mutant: dispatches of a conversation are not serialised. *)
LockShared(r) ==
  /\ pc[r] = "lock"
  /\ GoTo(r, "slot")
  /\ UNCHANGED <<conv, ledger, gen, cache, rt, last>>

Lock(r) ==
  /\ pc[r] = "lock"
  /\ Holders(rt[r], conv[r]) = {}
  /\ GoTo(r, "slot")
  /\ UNCHANGED <<conv, ledger, gen, cache, rt, last>>

(* Mutant: the permits of finished dispatches are not returned. *)
TakeSlotLeaking(r) ==
  /\ pc[r] = "slot"
  /\ Cardinality({q \in Req : pc[q] \in {"ready", "thinking"} \cup Finished})
       < MaxConcurrent
  /\ GoTo(r, "ready")
  /\ UNCHANGED <<conv, ledger, gen, cache, rt, last>>

TakeSlot(r) ==
  /\ pc[r] = "slot"
  /\ Cardinality(Dispatching(rt[r])) < MaxConcurrent
  /\ GoTo(r, "ready")
  /\ UNCHANGED <<conv, ledger, gen, cache, rt, last>>

(* Mutant: a turn that cannot be recorded is only logged. *)
RecordLogged(r, n, kind) ==
  ledger' = [ledger EXCEPT ![conv[r]] =
               IF n = Len(@) THEN Append(@, <<r, kind>>) ELSE @]

(* The turn after the n-th is inserted, if that number is free.            *)
Record(r, n, kind) ==
  /\ n = Len(ledger[conv[r]])
  /\ ledger' = [ledger EXCEPT ![conv[r]] = Append(@, <<r, kind>>)]

(* The state is loaded and the user's turn recorded.                       *)
Begin(r) ==
  /\ pc[r] = "ready"
  /\ Record(r, Load(r), "user")
  /\ Put(Key(r), Load(r))
  /\ last' = [last EXCEPT ![r] = Load(r) + 1]
  /\ GoTo(r, "thinking")
  /\ UNCHANGED <<conv, gen, rt>>

(* Mutant: a failed dispatch keeps its conversation in the cache. *)
FailCached(r) ==
  /\ pc[r] \in {"ready", "thinking"}
  /\ GoTo(r, "failed")
  /\ UNCHANGED <<conv, ledger, gen, cache, rt, last>>

(* A turn cannot be recorded, the planner or its backend fails: the cached *)
(* conversation is evicted, lock and slot are released.                    *)
Fail(r) ==
  /\ pc[r] \in {"ready", "thinking"}
  /\ Pop(Key(r))
  /\ GoTo(r, "failed")
  /\ UNCHANGED <<conv, ledger, gen, rt, last>>

Answer(r) ==
  /\ pc[r] = "thinking"
  /\ Record(r, last[r], "reply")
  /\ Put(Key(r), last[r] + 1)
  /\ GoTo(r, "answered")
  /\ UNCHANGED <<conv, gen, rt, last>>

(* The connection of a waiting request closes and its future is dropped    *)
(* wherever it awaits, with the lock and the permit it holds.              *)
Abandon(r) ==
  /\ r \in Waiting
  /\ pc[r] \in {"lock", "slot", "thinking"}
  /\ GoTo(r, "gone")
  /\ UNCHANGED <<conv, ledger, gen, cache, rt, last>>

-----------------------------------------------------------------------------
(* The node around it *)

(* The least recently used conversation makes room for another, or its     *)
(* title is changed through the current runtime.                           *)
Evict(k) ==
  /\ k \in DOMAIN cache
  /\ Pop(k)
  /\ UNCHANGED <<conv, ledger, gen, pc, rt, last>>

(* The planner is reconfigured: a fresh NodeRuntime replaces the current   *)
(* one, which serves its requests to the end.                              *)
Swap ==
  /\ gen < MaxSwaps
  /\ gen' = gen + 1
  /\ UNCHANGED <<conv, ledger, cache, pc, rt, last>>

Step(r) == Lock(r) \/ TakeSlot(r) \/ Begin(r) \/ Answer(r) \/ Fail(r)

Next ==
  \/ \E r \in Req :
       \/ Arrive(r)
       \/ Lock(r)
       \/ TakeSlot(r)
       \/ Begin(r)
       \/ Fail(r)
       \/ Answer(r)
       \/ Abandon(r)
  \/ \E k \in Gen \X Conv : Evict(k)
  \/ Swap

Spec == Init /\ [][Next]_vars

(* Tokio runs every task that can run, its mutex and semaphore serve in    *)
(* order, and calls to the backend time out.                               *)
Fairness == \A r \in Req : WF_vars(Step(r))

FairSpec == Spec /\ Fairness

-----------------------------------------------------------------------------
(* Correctness *)

Turn == Req \X {"user", "reply"}

(* Types; no state in memory is ahead of the recorded conversation.        *)
TypeOK ==
  /\ conv \in [Req -> Conv]
  /\ ledger \in [Conv -> Seq(Turn)]
  /\ gen \in Gen
  /\ DOMAIN cache \subseteq Gen \X Conv
  /\ \A k \in DOMAIN cache : cache[k] \in 0 .. Len(ledger[k[2]])
  /\ pc \in [Req -> {"new", "lock"} \cup Holding \cup Finished]
  /\ rt \in [Req -> Gen]
  /\ \A r \in Req : last[r] \in 0 .. Len(ledger[conv[r]])

(* Whatever clients leave and however often the planner is reconfigured,  *)
(* a runtime has at most one dispatch at work on a conversation ("mutex    *)
(* per `conversation_id`", runtime.rs).                                    *)
Serialised ==
  \A q, r \in Req :
    /\ q # r
    /\ conv[q] = conv[r] /\ rt[q] = rt[r]
    /\ pc[q] \in {"ready", "thinking"}
    => pc[r] \notin {"ready", "thinking"}

(* The planner was not reconfigured and no client has left.                *)
Undisturbed == gen = 0 /\ \A r \in Req : pc[r] # "gone"

(* What a dispatch knows of its conversation is then all there is, through *)
(* evictions and failures, so that the turn it adds next has a number of   *)
(* its own: the reason for the eviction on errors in                       *)
(* handle_user_message_with_opts.                                          *)
UpToDate ==
  Undisturbed =>
    \A r \in Req :
      /\ pc[r] = "ready" => Load(r) = Len(ledger[conv[r]])
      /\ pc[r] = "thinking" => last[r] = Len(ledger[conv[r]])

Answering ==
  [k \in Gen \X Conv |->
     {r \in Req : rt[r] = k[1] /\ conv[r] = k[2] /\ pc[r] = "thinking"}]

ThreadView ==
  INSTANCE Thread WITH Server <- Gen, thread <- ledger, asking <- Answering

(* Locks, cache, evictions and primary key together implement the          *)
(* conversation's promise: a reply stands right after its question, and a  *)
(* runtime answers one question of a conversation at a time (the dispatch  *)
(* of handle_user_message_with_opts, whoever leaves or reconfigures).      *)
ImplementsThread == ThreadView!Spec

(* Lock, then slot, then answer: no request waits for ever, neither for    *)
(* its conversation's lock nor for a permit (acquire_planner_slot).        *)
Served == \A r \in Req : pc[r] = "lock" ~> pc[r] \in Finished
=============================================================================
