----------------------------- MODULE MCPlanning -----------------------------
(* A small instance of Planning for TLC: two local tools, four of two       *)
(* peers, a planner among them.                                             *)
EXTENDS Planning

CONSTANTS self, alice, bob

MCTool(p, c, l, e) == [peer |-> p, cap |-> c, lobes |-> l, example |-> e]

LocalSum == MCTool(self, "sum", {"math"}, TRUE)
LocalChat == MCTool(self, "chat", {}, TRUE)
AliceSum == MCTool(alice, "sum", {"math"}, TRUE)
BobSum == MCTool(bob, "sum", {}, TRUE)
AliceChat == MCTool(alice, "chat", {"talk"}, TRUE)
BobPlan == MCTool(bob, "plan", {}, TRUE)

MCTools == {LocalSum, LocalChat, AliceSum, BobSum, AliceChat, BobPlan}

MCOrder ==
  [t \in MCTools |->
     CASE t = LocalSum -> 1 [] t = LocalChat -> 2 [] t = AliceSum -> 3
       [] t = AliceChat -> 4 [] t = BobSum -> 5 [] OTHER -> 6]

(* "bob" is an id, "ab" the beginning of two, "x" of none. *)
MCRefers ==
  [k \in {"self", "bob", "ab", "x"} |->
     CASE k = "self" -> {self} [] k = "bob" -> {bob}
       [] k = "ab" -> {alice, bob} [] OTHER -> {}]

MCMention(k, e, t) == [kind |-> k, entity |-> e, tail |-> t]

(* Nothing; @peer:bob/sum; @peer:ab; @lobe:math @peer:self;                *)
(* @lobe:math @peer:bob @peer:x                                            *)
MCMessages ==
  {{}, {MCMention("lobe", "math", {}), MCMention("peer", "self", {})},
   {MCMention("peer", "bob", {"sum"})}, {MCMention("peer", "ab", {})},
   {MCMention("lobe", "math", {}), MCMention("peer", "bob", {}), MCMention("peer", "x", {})}}

MCSetup(h, f, t, d) ==
  [hybrid |-> h, fallback |-> f, threshold |-> t, decoding |-> d]

MCSetups ==
  {MCSetup(TRUE, FALSE, 5, "pairs"), MCSetup(TRUE, TRUE, 5, "fields"),
   MCSetup(FALSE, TRUE, 6, "free")}

MCCall(t, a) == [name |-> Name(t), arg |-> a]

MCVolatile == {AliceSum}

MCUntimed == {LocalSum}

(* Tools alone, also one that crosses two; two tools, one fed by the       *)
(* other; one that is malformed; one too many.                             *)
MCPlans ==
  {[calls |-> {MCCall(t, "a")}, sound |-> TRUE] : t \in {LocalSum, BobSum, BobPlan}}
  \cup {[calls |-> {[name |-> <<bob, "chat">>, arg |-> "a"]}, sound |-> TRUE],
        [calls |-> {MCCall(LocalSum, "a"), MCCall(AliceSum, "ref")}, sound |-> TRUE],
        [calls |-> {MCCall(BobSum, "ref")}, sound |-> FALSE],
        [calls |-> {MCCall(BobSum, "a"), MCCall(BobSum, "ref"), MCCall(LocalSum, "a")},
         sound |-> TRUE]}
=============================================================================
