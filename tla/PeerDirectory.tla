--------------------------- MODULE PeerDirectory ---------------------------
(***************************************************************************)
(* A network of nodes, each with its directory of peers: the rows of table *)
(* `peers` (storage/peers.rs), written by the bootstrap walk, by cascades  *)
(* and by refreshes (node/discovery.rs), and by the announcement that      *)
(* every signed call carries (node/handler.rs).  All nodes run the same    *)
(* code, so a walk of one of them sets off pulls at the others.            *)
(*                                                                         *)
(* A task is a future of some node: a walk, a cascade or the refresh of    *)
(* one endpoint; it makes one call at a time.  Envelopes are valid and     *)
(* their nonces fresh (EnvelopeAdmission).  The handler of the callee does *)
(* not await between its answer and its reply, so a caller gives up before *)
(* or after it.  A directory fits in one page of get_known_peers.          *)
(***************************************************************************)
EXTENDS Naturals, Sequences, FiniteSets

CONSTANTS
  Node,        \* instances
  Address,     \* endpoints; one may be dead
  Home,        \* where each node listens
  Public,      \* nodes configured with their endpoint, which they announce
  Old,         \* <<node, address>>: where a node once listened
  Worlds,      \* sets of <<n, <<p, e>>>>: n knows p at e, as the directories may start
  Serves,      \* nodes that offer the capability a cascade looks for
  Seeds,       \* the seed lists a node may be given
  Task,        \* bound on the futures that run at once
  MaxDepth,    \* bootstrap_depth
  MaxPeers,    \* BOOTSTRAP_MAX_PEERS
  FanOut,      \* CASCADE_FAN_OUT
  MaxStarts,   \* bound on walks, cascades and refreshes asked for
  MaxEvents    \* bound on lost calls, failed writes, deleted rows and changes of alias

ASSUME HomeAssumption ==
  /\ Home \in [Node -> Address]
  /\ \A p, q \in Node : Home[p] = Home[q] => p = q

ASSUME NetworkAssumption ==
  /\ Public \subseteq Node /\ Serves \subseteq Node
  /\ Old \subseteq Node \X Address
  /\ Worlds \subseteq SUBSET (Node \X (Old \cup {<<p, Home[p]>> : p \in Node}))
  /\ \A w \in Worlds : \A k, l \in w :
       k[1] # k[2][1] /\ (k[1] = l[1] /\ k[2][1] = l[2][1] => k = l)
  /\ Seeds \subseteq SUBSET Address

\* A directory is a table of finitely many rows, a seed list is written by hand.
ASSUME FiniteAssumption == IsFiniteSet(Node) /\ \A es \in Seeds : IsFiniteSet(es)

ASSUME BoundAssumption ==
  /\ MaxDepth \in Nat /\ MaxPeers \in Nat /\ FanOut \in Nat
  /\ MaxStarts \in Nat /\ MaxEvents \in Nat

VARIABLES
  peers,    \* node -> peer -> row
  alias,    \* Node.alias
  job,      \* what each task is at
  call,     \* the call each task has under way
  starts, events,  \* counters of the bounds
  born,     \* history: who knew whom, rightly, at the start
  blurred   \* history: <<n, p>> of which two refreshes crossed, or one broke off

bounds == <<starts, events>>
history == <<born, blurred>>
vars == <<peers, alias, job, call, bounds, history>>

-----------------------------------------------------------------------------
NoAlias == "no alias"
Never == "never described"
NoNode == "unknown"
NoRow == [endpoint |-> "none"]
Idle == [kind |-> "idle"]
Silent == [at |-> "silent"]

ASSUME NameAssumption == Node \cap {NoAlias, Never, NoNode} = {}

\* A node's alias, when it has one, is written as the node.  A row keeps of
\* the descriptor what it says of the alias.
Row == [endpoint : Address, alias : Node \cup {NoAlias}, cached : Node \cup {NoAlias, Never}]
Coalesce(new, old, null) == IF new = null THEN old ELSE new

\* Mistaken form: an unconditional write of the alias.
UpsertedBlind(old, new) ==
  IF old = NoRow THEN new
  ELSE [new EXCEPT !.cached = Coalesce(@, old.cached, Never)]

\* peers::upsert; `alias` None stands for "this writer does not know".
Upserted(old, new) ==
  IF old = NoRow THEN new
  ELSE [new EXCEPT !.alias = Coalesce(@, old.alias, NoAlias),
                   !.cached = Coalesce(@, old.cached, Never)]

\* Mistaken form: an INSERT when there is no row.
AliasedInsert(old, a) ==
  IF old = NoRow THEN [endpoint |-> NoNode, alias |-> a, cached |-> Never]
  ELSE [old EXCEPT !.alias = a]

\* peers::set_alias, an UPDATE: without a row it does nothing.
Aliased(old, a) == IF old = NoRow THEN NoRow ELSE [old EXCEPT !.alias = a]

Knows(n, p) == peers[n][p] # NoRow
Write(n, p, row) == peers' = [peers EXCEPT ![n][p] = row]

\* peers::list, as get_known_peers answers it, for any capability or the one sought.
Listed(n) == {[id |-> p, endpoint |-> peers[n][p].endpoint] : p \in {q \in Node : Knows(n, q)}}
ListedFor(n) == {s \in Listed(n) : s.id \in Serves /\ peers[n][s.id].cached # Never}

Places == Old \cup {<<p, Home[p]>> : p \in Node}
Fresh(p, e) == [endpoint |-> e, alias |-> p, cached |-> p]

\* The directories start with what earlier refreshes left, peers that have
\* moved since included.
Init ==
  /\ \E known \in Worlds :
       peers = [n \in Node |-> [p \in Node |->
                 LET at == {e \in Address : <<n, <<p, e>>>> \in known}
                 IN  IF at = {} THEN NoRow ELSE Fresh(p, CHOOSE e \in at : TRUE)]]
  /\ alias = [n \in Node |-> n]
  /\ job = [t \in Task |-> Idle]
  /\ call = [t \in Task |-> Silent]
  /\ starts = 0 /\ events = 0
  /\ born = {e \in Node \X Node : Knows(e[1], e[2])
                                  /\ \A n \in Node : Knows(n, e[2])
                                       => peers[n][e[2]].endpoint = Home[e[2]]}
  /\ blurred = {}

-----------------------------------------------------------------------------
(* Tasks begin: asked for by a user, or at start-up. *)

Running(t, kind) == job[t].kind = kind
Free == {t \in Task : Running(t, "idle")}
FreeTask == IF Free = {} THEN {} ELSE {CHOOSE t \in Free : TRUE}
Hint(e) == [id |-> NoNode, endpoint |-> e]
Order(S) == {f \in [1..Cardinality(S) -> S] : \A i, k \in DOMAIN f : f[i] = f[k] => i = k}

NewJob(kind, n, frontier, es) ==
  [kind |-> kind, node |-> n, depth |-> 0, frontier |-> frontier, pending |-> {Hint(e) : e \in es},
   next |-> <<>>, visited |-> {n}, total |-> 0, seeds |-> es]

NewCall(verb, s) ==
  [at |-> "sent", verb |-> verb, to |-> s.endpoint, about |-> s.id, reply |-> Silent,
   knew |-> FALSE]

Asked == starts < MaxStarts /\ starts' = starts + 1

Starts(kind, n, frontier, es) ==
  /\ Asked
  /\ \E t \in FreeTask : job' = [job EXCEPT ![t] = NewJob(kind, n, frontier, es)]
  /\ UNCHANGED <<peers, alias, call, events, history>>

Bootstrap(n, es) == Starts("walk", n, <<>>, es)

\* The directory is listed and sampled once.
DiscoverCapability(n) ==
  \E S \in SUBSET {p \in Node : Knows(n, p)} :
    /\ S # {} /\ Cardinality(S) <= FanOut
    /\ \A p \in Node \ S : Knows(n, p) => Cardinality(S) = FanOut
    /\ \E f \in Order(S) :
         Starts("cascade", n, [i \in DOMAIN f |-> peers[n][f[i]].endpoint], {})

\* A refresh is one call; it is asked for here, or set off by an announcement.
Refresh(n, e) ==
  /\ Asked
  /\ \E t \in FreeTask :
       /\ job' = [job EXCEPT ![t] = NewJob("refresh", n, <<>>, {})]
       /\ call' = [call EXCEPT ![t] = NewCall("describe_self", Hint(e))]
  /\ UNCHANGED <<peers, alias, events, history>>

-----------------------------------------------------------------------------
(* A call: describe_self or get_known_peers. *)

Caller(t) == job[t].node
Dwellers(e) == {p \in Node : Home[p] = e}
CallAt(t, at) == call[t].at = at
CallGoes(t, at) == call' = [call EXCEPT ![t].at = at]
Calls(t, verb, s) == call' = [call EXCEPT ![t] = NewCall(verb, s)]

\* Mistaken form: `already_known` read after the upsert.
SightedLate(p, n) == TRUE

\* `already_known`
Sighted(p, n) == Knows(p, n)

Announces(t, p) == Caller(t) # p /\ Caller(t) \in Public

\* The verb is carried out: the answer is put together from what is there,
\* and a caller that announces itself is looked up.
Answer(t) ==
  /\ CallAt(t, "sent")
  /\ \E p \in Dwellers(call[t].to) :
       LET listed == CASE call[t].verb = "describe_self" -> {}
                       [] Running(t, "cascade") -> ListedFor(p)
                       [] OTHER -> Listed(p)
       IN  call' = [call EXCEPT ![t].reply = [id |-> p, alias |-> alias[p], listed |-> listed],
                                ![t].at = IF Announces(t, p) THEN "answered" ELSE "replied",
                                ![t].knew = Announces(t, p) /\ Sighted(p, Caller(t))]
  /\ UNCHANGED <<peers, alias, job, bounds, history>>

\* Mistaken form: every call sets off a pull.
PullsAlways(t) == TRUE

PullsBack(t) == ~call[t].knew

\* The reverse-announce: the caller's endpoint is filed, and a caller who was
\* not known is described in a task of its own.
Announce(t) ==
  LET p == call[t].reply.id
      n == Caller(t)
  IN  /\ CallAt(t, "answered")
      /\ Write(p, n, Upserted(peers[p][n],
                              [endpoint |-> Home[n], alias |-> NoAlias, cached |-> Never]))
      /\ IF PullsBack(t)
         THEN \E u \in FreeTask :
                /\ job' = [job EXCEPT ![u] = NewJob("refresh", p, <<>>, {})]
                /\ call' = [call EXCEPT ![t].at = "replied",
                                        ![u] = NewCall("describe_self", Hint(Home[n]))]
         ELSE CallGoes(t, "replied") /\ UNCHANGED job
      /\ UNCHANGED <<alias, bounds, history>>

-----------------------------------------------------------------------------
(* What a task does with the outcome of its call. *)

Event == events < MaxEvents /\ events' = events + 1

\* A refresh is over with its call, other tasks go on.
Closes(t, j) ==
  /\ job' = [job EXCEPT ![t] = IF Running(t, "refresh") THEN Idle ELSE j]
  /\ call' = [call EXCEPT ![t] = Silent]

\* An endpoint where nobody listens; otherwise a lost request or reply, a
\* timeout, or the row that could not be written.
Fails(t) ==
  /\ CallAt(t, "sent") \/ CallAt(t, "replied")
  /\ IF CallAt(t, "sent") /\ Dwellers(call[t].to) = {} THEN UNCHANGED events ELSE Event
  /\ Closes(t, job[t])
  /\ UNCHANGED <<peers, alias, starts, history>>

\* The upsert of an announcement fails: logged, and the reply goes out.
AnnounceFails(t) ==
  /\ CallAt(t, "answered")
  /\ Event
  /\ CallGoes(t, "replied")
  /\ UNCHANGED <<peers, alias, job, starts, history>>

\* refresh_peer returns Ok: a walk counts the peer, whoever it is, and expands it later.
Refreshed(t) ==
  Closes(t, [job[t] EXCEPT
               !.total = @ + 1, !.next = Append(@, call[t].to),
               !.visited = IF job[t].depth = 0 THEN @ \cup {call[t].reply.id} ELSE @])

\* "An instance is never its own peer."
Oneself(t) == call[t].reply.id = Caller(t)

Describes(t) == CallAt(t, "replied") /\ call[t].verb = "describe_self"

Self(t) ==
  /\ Describes(t) /\ Oneself(t)
  /\ Refreshed(t)
  /\ UNCHANGED <<peers, alias, bounds, history>>

\* Mistaken form: the id under which the endpoint was listed.
SubjectListed(t) == IF call[t].about = NoNode THEN call[t].reply.id ELSE call[t].about

\* A descriptor is filed under the id it states: nodes state their own.
Subject(t) == call[t].reply.id

\* Refreshes of one peer by one node between their two writes.
Halfway(t) ==
  {u \in Task : CallAt(u, "stored") /\ Caller(u) = Caller(t) /\ Subject(u) = Subject(t)}
Blur(t) == blurred' = blurred \cup {<<Caller(t), Subject(t)>>}

\* refresh_peer: the row, then its alias.
Store(t) ==
  /\ Describes(t) /\ ~Oneself(t)
  /\ Write(Caller(t), Subject(t),
           Upserted(peers[Caller(t)][Subject(t)],
                    [endpoint |-> call[t].to, alias |-> call[t].reply.alias,
                     cached |-> call[t].reply.alias]))
  /\ CallGoes(t, "stored")
  /\ IF Halfway(t) = {} THEN UNCHANGED blurred ELSE Blur(t)
  /\ UNCHANGED <<alias, job, bounds, born>>

SetAlias(t) ==
  /\ CallAt(t, "stored")
  /\ Write(Caller(t), Subject(t), Aliased(peers[Caller(t)][Subject(t)], call[t].reply.alias))
  /\ Refreshed(t)
  /\ UNCHANGED <<alias, bounds, history>>

SetAliasFails(t) ==
  /\ CallAt(t, "stored")
  /\ Event
  /\ Blur(t)
  /\ Closes(t, job[t])
  /\ UNCHANGED <<peers, alias, starts, born>>

\* The peers of an answer that are new: to the walk, which will not look at
\* these ids again, or other than oneself.
Listen(t) ==
  /\ CallAt(t, "replied") /\ call[t].verb = "get_known_peers"
  /\ LET fresh == {s \in call[t].reply.listed : s.id \notin job[t].visited}
     IN  Closes(t, [job[t] EXCEPT
                      !.pending = fresh,
                      !.visited = IF Running(t, "walk") THEN @ \cup {s.id : s \in fresh} ELSE @])
  /\ UNCHANGED <<peers, alias, bounds, history>>

-----------------------------------------------------------------------------
(* The task's next call, when none is under way. *)

Ready(t) == ~Running(t, "idle") /\ call[t] = Silent

\* A walk stops learning at BOOTSTRAP_MAX_PEERS, but for its seeds.
Room(j) == j.kind # "walk" \/ j.depth = 0 \/ j.total < MaxPeers

\* A hint of a walk is followed as it is; a cascade skips whom it knows by now.
Visit(t) ==
  /\ Ready(t) /\ Room(job[t])
  /\ \E s \in job[t].pending :
       /\ job' = [job EXCEPT ![t].pending = @ \ {s}]
       /\ IF Running(t, "cascade") /\ Knows(Caller(t), s.id)
          THEN UNCHANGED call ELSE Calls(t, "describe_self", s)
  /\ UNCHANGED <<peers, alias, bounds, history>>

\* Mistaken form: the last level left out.
DescendsShort(j) ==
  j.kind = "walk" /\ j.next # <<>> /\ j.total < MaxPeers /\ j.depth + 1 < MaxDepth

\* `for depth in 1..=max_depth`, unless the frontier is empty or the walk full.
Descends(j) == j.kind = "walk" /\ j.next # <<>> /\ j.total < MaxPeers /\ j.depth < MaxDepth

\* The job at its next level, when this one is done.
Level(j) ==
  IF j.frontier = <<>> /\ Descends(j)
  THEN [j EXCEPT !.depth = @ + 1, !.frontier = j.next, !.next = <<>>] ELSE j

HintsDone(t) == Ready(t) /\ (job[t].pending = {} \/ ~Room(job[t]))

Ask(t) ==
  LET j == Level(job[t])
  IN  /\ HintsDone(t) /\ j.frontier # <<>>
      /\ job' = [job EXCEPT ![t] = [j EXCEPT !.frontier = Tail(@), !.pending = {}]]
      /\ Calls(t, "get_known_peers", Hint(Head(j.frontier)))
      /\ UNCHANGED <<peers, alias, bounds, history>>

End(t) ==
  /\ HintsDone(t) /\ Level(job[t]).frontier = <<>>
  /\ job' = [job EXCEPT ![t] = Idle]
  /\ UNCHANGED <<peers, alias, call, bounds, history>>

-----------------------------------------------------------------------------
(* The owners of the nodes. *)

\* DELETE /peers/:id
Forget(n, p) ==
  /\ Knows(n, p)
  /\ Event
  /\ Write(n, p, NoRow)
  /\ UNCHANGED <<alias, job, call, starts, history>>

\* PUT /settings/alias: a name, or none.
Rename(n) ==
  /\ Event
  /\ alias' = [alias EXCEPT ![n] = IF @ = NoAlias THEN n ELSE NoAlias]
  /\ UNCHANGED <<peers, job, call, starts, history>>

Begin ==
  \E n \in Node : \/ \E es \in Seeds : Bootstrap(n, es)
                  \/ DiscoverCapability(n)
                  \/ \E e \in Address : Refresh(n, e)

Proceed(t) ==
  \/ Answer(t) \/ Announce(t) \/ AnnounceFails(t) \/ Fails(t)
  \/ Self(t) \/ Store(t) \/ SetAlias(t) \/ SetAliasFails(t) \/ Listen(t)
  \/ Visit(t) \/ Ask(t) \/ End(t)

Next ==
  \/ Begin
  \/ \E t \in Task : Proceed(t)
  \/ \E n \in Node : Rename(n) \/ \E p \in Node : Forget(n, p)

\* Every call is answered or times out (client.rs), and tasks are futures that tokio polls.
Fairness == \A t \in Task : WF_vars(Proceed(t))

Spec == Init /\ [][Next]_vars /\ Fairness

-----------------------------------------------------------------------------
Summary == [id : Node \cup {NoNode}, endpoint : Address]
Job == [kind : {"walk", "cascade", "refresh"}, node : Node, depth : 0..MaxDepth,
        frontier : Seq(Address), pending : SUBSET Summary, next : Seq(Address),
        visited : SUBSET Node, total : Nat, seeds : SUBSET Address]
Reply == [id : Node, alias : Node \cup {NoAlias}, listed : SUBSET Summary]
Call == [at : {"sent", "answered", "replied", "stored"},
         verb : {"describe_self", "get_known_peers"}, to : Address,
         about : Node \cup {NoNode}, reply : Reply \cup {Silent}, knew : BOOLEAN]

\* A walk learns no more than its cap and its seeds.
TypeOK ==
  /\ peers \in [Node -> [Node -> Row \cup {NoRow}]]
  /\ alias \in [Node -> Node \cup {NoAlias}]
  /\ \A t \in Task : job[t] = Idle \/ job[t] \in Job
  /\ \A t \in Task : call[t] = Silent \/ call[t] \in Call
  /\ \A t \in Task : Running(t, "walk")
       => job[t].total <= MaxPeers \/ job[t].total <= Cardinality(job[t].seeds)
  /\ starts \in 0..MaxStarts /\ events \in 0..MaxEvents
  /\ born \subseteq Node \X Node /\ blurred \subseteq Node \X Node

\* What a directory says of a peer comes from the peer: the endpoint is one it
\* has listened at, the name and the descriptor are its own.  Others only say
\* where to ask, and an answer may come from another instance than expected.
\* And "an instance is never its own peer" (refresh_peer), whatever it is
\* given as a seed, told by its peers or sent by itself.
FirstHand ==
  \A n, p \in Node : Knows(n, p) =>
    /\ p # n
    /\ <<p, peers[n][p].endpoint>> \in Places
    /\ peers[n][p].alias \in {p, NoAlias}
    /\ peers[n][p].cached \in {p, NoAlias, Never}

\* A described peer goes by the alias of its descriptor, none included, however
\* announcements fall between the writes of refreshes: unless two refreshes of
\* it crossed, or one broke off between its writes.
AliasMirrors ==
  \A n, p \in Node :
    \/ ~Knows(n, p) \/ peers[n][p].cached = Never \/ <<n, p>> \in blurred
    \/ peers[n][p].alias = peers[n][p].cached
    \/ \E t \in Task : CallAt(t, "stored") /\ Caller(t) = n /\ Subject(t) = p

AtRest == \A t \in Task : job[t] = Idle

\* A caller that announced itself ends up described, "without a manual
\* refresh": whichever calls met in the handler, one of them found it unknown
\* and set off the pull.
Described ==
  AtRest /\ events = 0 => \A n, p \in Node : Knows(n, p) => peers[n][p].cached # Never

\* Who is at most d steps from the seeds es, going by what was rightly known at
\* the start.  Told of its own node, the walk of n does not go there.
Within(n, es, d) ==
  {p \in Node : \E k \in 0..d : \E f \in [0..k -> Node] :
     /\ Home[f[0]] \in es /\ f[k] = p
     /\ \A i \in 1..k : f[i] # n /\ <<f[i - 1], f[i]>> \in born}

\* A walk that lost no call and did not fill up leaves in the directory every
\* peer within max_depth of its seeds about whose endpoint nobody was wrong.
WalkComplete ==
  [][\A t \in Task :
       End(t) /\ Running(t, "walk") /\ events = 0 /\ job[t].total < MaxPeers
         => \A p \in Within(Caller(t), job[t].seeds, MaxDepth) \ {Caller(t)} : Knows(Caller(t), p)]_vars

\* Pulls and announcements answer one another only so long: a caller already
\* known is not pulled again, and the network comes to rest.
Settles == <>[]AtRest
=============================================================================
