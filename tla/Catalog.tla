------------------------------ MODULE Catalog ------------------------------
(***************************************************************************)
(* The catalogue a planner chooses from (node/src/planner/catalog.rs), how *)
(* mentions narrow it (mention.rs, plan_exec.rs), how it is ranked, and    *)
(* what of it a model can be held to when it writes a plan (grammar.rs).   *)
(*                                                                         *)
(* A tool is a capability on a peer.  The twelve characters of a peer's id *)
(* that plans carry stand for the id.  The order of tools in the prompt is *)
(* left out: only what is kept and what is dropped is told apart.          *)
(***************************************************************************)
EXTENDS Integers, FiniteSets

CONSTANTS
  Self,        \* this node's id
  Peers,       \* ids of other nodes
  Caps,        \* names of capabilities
  Lobes,       \* lobe ids
  Tools,       \* every capability a node may ever declare, see ToolsAssumption
  Order,       \* Tools -> Nat: registry first, then directory
  Tokens,      \* what a user writes after "@peer:"
  Refers,      \* Tokens -> the ids that a token, a prefix of an id, matches
  LocalTopK,   \* LOCAL_TOP_K (12 in the code)
  RemoteTopK   \* REMOTE_TOP_K (20)

(* EXCLUDED_CAP_NAMES: the capability another node's planner is called by. *)
PlanCap == "plan"

Ids == Peers \cup {Self}

(* A tool name, <short_peer>::<capability>. *)
Names == Ids \X Caps

Name(t) == <<t.peer, t.cap>>

(* example: it carries one at least, as the catalogue asks. *)
Tool == [peer : Ids, cap : Caps, lobes : SUBSET Lobes, example : BOOLEAN]

ASSUME ToolsAssumption ==
  /\ Self \notin Peers
  /\ IsFiniteSet(Tools)
  /\ Tools \subseteq Tool
  /\ \A t, u \in Tools : Name(t) = Name(u) => t = u

ASSUME OrderAssumption ==
  /\ Order \in [Tools -> Nat]
  /\ \A t, u \in Tools : Order[t] = Order[u] => t = u

ASSUME TokensAssumption == Refers \in [Tokens -> SUBSET Ids]

ASSUME TopKAssumption == LocalTopK \in Nat /\ RemoteTopK \in Nat \ {0}

(* Catalog::build: what the registry and the descriptions of known peers   *)
(* list, but for the planners among it and what has no example.            *)
Build(listed, known) ==
  {t \in listed : /\ t.peer \in known \cup {Self}
                  /\ t.cap # PlanCap
                  /\ t.example}

-----------------------------------------------------------------------------
(* Mentions *)

Tail == {{}} \cup {{c} : c \in Caps}

(* @peer:entity, @peer:entity/capability, the same of a lobe, @cap:entity. *)
Mention ==
  [kind : {"peer"}, entity : Tokens, tail : Tail]
  \cup [kind : {"lobe"}, entity : Lobes, tail : Tail]
  \cup [kind : {"cap"}, entity : Caps, tail : {{}}]

(* A text, by the mentions parsed out of it. *)
Message == SUBSET Mention

(* What a text restricts the catalogue to. *)
Scope == [peers : SUBSET Tokens, lobes : SUBSET Lobes, caps : SUBSET Caps]

Entities(m, kind) == {x.entity : x \in {y \in m : y.kind = kind}}

(* Of each kind the mentions unite, and capabilities lose the entity they  *)
(* were written with.                                                      *)
FromText(m) ==
  [peers |-> Entities(m, "peer"), lobes |-> Entities(m, "lobe"),
   caps |-> Entities(m, "cap") \cup UNION {x.tail : x \in m}]

(* The tools a scope admits, by what its tokens may stand for. *)
Admits(msg, t) ==
  /\ msg.peers # {} => \E k \in msg.peers : t.peer \in Refers[k]
  /\ msg.lobes # {} => t.lobes \cap msg.lobes # {}
  /\ msg.caps # {} => t.cap \in msg.caps

(* This node before any other, and no peer rather than one of several. *)
PeerNamed(k, known) ==
  LET found == Refers[k] \cap known IN
  IF Self \in Refers[k] THEN {Self}
  ELSE IF Cardinality(found) = 1 THEN found
  ELSE {}

Resolved(msg, cat, known) ==
  [peers |-> UNION {PeerNamed(k, known) : k \in msg.peers},
   lobes |-> msg.lobes \cap UNION {t.lobes : t \in cat},
   caps  |-> msg.caps \cap {t.cap : t \in cat}]

(* Mutant: what a mention does not match is told in the reply, no more. *)
UnresolvedDisclosed(msg, cat, known) == FALSE

Unresolved(msg, cat, known) ==
  \/ \E k \in msg.peers : PeerNamed(k, known) = {}
  \/ ~(msg.lobes \subseteq Resolved(msg, cat, known).lobes)
  \/ ~(msg.caps \subseteq Resolved(msg, cat, known).caps)

Scoped(cat, scope) ==
  {t \in cat : /\ scope.peers # {} => t.peer \in scope.peers
               /\ scope.lobes # {} => t.lobes \cap scope.lobes # {}
               /\ scope.caps # {} => t.cap \in scope.caps}

-----------------------------------------------------------------------------
(* Ranking *)

Local(cat) == {t \in cat : t.peer = Self}

Remote(cat) == cat \ Local(cat)

(* Mutant: tools of one score shut each other out. *)
OutranksTied(u, t, score) == u # t /\ score[u] >= score[t]

(* The order a stable sort by descending score gives. *)
Outranks(u, t, score) ==
  \/ score[u] > score[t]
  \/ score[u] = score[t] /\ Order[u] < Order[t]

(* A group that fits its bound is not ranked at all. *)
Top(group, k, score) ==
  IF Cardinality(group) <= k THEN group
  ELSE {t \in group : Cardinality({u \in group : Outranks(u, t, score)}) < k}

(* Catalog::filter_with_scores, with a score for each tool. *)
Filtered(cat, score) ==
  Top(Local(cat), LocalTopK, score) \cup Top(Remote(cat), RemoteTopK, score)

-----------------------------------------------------------------------------
(* Names in a plan *)

(* Catalog::find *)
Finds(cat, name) == \E t \in cat : Name(t) = name

(* How firmly the model's server holds it to the catalogue: to the pairs,  *)
(* by the GBNF grammar; to peers and capabilities, each an enumeration of  *)
(* its own, by the JSON schema; or, ignoring both, not at all.             *)
Decoding == {"pairs", "fields", "free"}

PairNames(cat) == IF cat = {} THEN Names ELSE {Name(t) : t \in cat}

FieldNames(cat) ==
  IF cat = {} THEN Names ELSE {t.peer : t \in cat} \X {t.cap : t \in cat}

(* The names that may be sampled for a step. *)
Sampled(cat, decoding) ==
  CASE decoding = "pairs" -> PairNames(cat)
    [] decoding = "fields" -> FieldNames(cat)
    [] OTHER -> Names
=============================================================================
