------------------------- MODULE PeerDirectoryProofs -------------------------
(***************************************************************************)
(* Proofs about PeerDirectory:  in networks of any size, whoever asks and  *)
(* whatever is lost, a directory keeps of a peer only what the peer said.  *)
(*                                                                         *)
(* The invariant follows a descriptor from the node that answers to the    *)
(* row it ends in: the reply a call carries names the node that listens    *)
(* where the call was sent, which need not be the node it was meant for.   *)
(* A second part follows a row to its alias, a third a caller without a    *)
(* descriptor to the task that asks for it, a fourth what a walk counts, a *)
(* fifth whom it reaches.                                                  *)
(***************************************************************************)
EXTENDS PeerDirectory, FiniteSetTheorems, WellFoundedInduction, TLAPS

(* A row that says of p what p said of itself. *)
Genuine(p, row) ==
  /\ row \in Row
  /\ <<p, row.endpoint>> \in Places
  /\ row.alias \in {p, NoAlias}
  /\ row.cached \in {p, NoAlias, Never}

RowsInv ==
  /\ peers \in [Node -> [Node -> Row \cup {NoRow}]]
  /\ \A n, p \in Node : Knows(n, p) => p # n /\ Genuine(p, peers[n][p])

AliasInv ==
  /\ alias = [n \in Node |-> alias[n]]
  /\ \A n \in Node : alias[n] \in {n, NoAlias}

(* What task, job j, has under way with call c: a reply comes from the     *)
(* node that listens where the call went, and one that is to be filed, by  *)
(* either side, is not the caller's own.                                   *)
Sound(j, c) ==
  /\ j.kind # "idle" => {"kind", "node"} \subseteq DOMAIN j /\ j.node \in Node
  /\ c.at # "silent" =>
       /\ j.kind # "idle"
       /\ {"at", "verb", "to", "about", "reply", "knew"} \subseteq DOMAIN c
  /\ c.at \in {"answered", "replied", "stored"} =>
       /\ c.reply.id \in Node
       /\ Home[c.reply.id] = c.to
       /\ c.reply.alias \in {c.reply.id, NoAlias}
  /\ c.at \in {"answered", "stored"} => c.reply.id # j.node

CallsInv ==
  /\ job = [t \in Task |-> job[t]]
  /\ call = [t \in Task |-> call[t]]
  /\ \A t \in Task : Sound(job[t], call[t])

IInv == RowsInv /\ AliasInv /\ CallsInv

-----------------------------------------------------------------------------
(* Writing a row *)

LEMMA HomeIsPlace ==
  ASSUME NEW p \in Node
  PROVE  Home[p] \in Address /\ <<p, Home[p]>> \in Places
BY HomeAssumption DEF Places

(* The upsert of a genuine row over a genuine one, or none, is genuine. *)
LEMMA UpsertGenuine ==
  ASSUME NEW p \in Node, NEW old, old = NoRow \/ Genuine(p, old),
         NEW e \in Address, <<p, e>> \in Places,
         NEW a \in {p, NoAlias}, NEW c \in {p, NoAlias, Never}
  PROVE  Genuine(p, Upserted(old, [endpoint |-> e, alias |-> a, cached |-> c]))
<1> DEFINE new == [endpoint |-> e, alias |-> a, cached |-> c]
<1>1. CASE old = NoRow
  BY <1>1 DEF Genuine, Upserted, Row
<1>2. CASE old # NoRow
  <2>1. Upserted(old, new) =
          [endpoint |-> e, alias |-> Coalesce(a, old.alias, NoAlias),
           cached |-> Coalesce(c, old.cached, Never)]
    BY <1>2 DEF Upserted
  <2>2. /\ Coalesce(a, old.alias, NoAlias) \in {p, NoAlias}
        /\ Coalesce(c, old.cached, Never) \in {p, NoAlias, Never}
    BY <1>2 DEF Genuine, Coalesce
  <2>3. QED BY <2>1, <2>2 DEF Genuine, Row
<1>3. QED
  BY <1>1, <1>2

LEMMA WriteKeepsRows ==
  ASSUME RowsInv, NEW n \in Node, NEW p \in Node, NEW row, Write(n, p, row),
         row = NoRow \/ (p # n /\ Genuine(p, row))
  PROVE  RowsInv'
<1>1. row \in Row \cup {NoRow}
  BY DEF Genuine
<1>2. peers' \in [Node -> [Node -> Row \cup {NoRow}]]
  BY <1>1 DEF RowsInv, Write
<1>3. ASSUME NEW m \in Node, NEW q \in Node, peers'[m][q] # NoRow
      PROVE  q # m /\ Genuine(q, peers'[m][q])
  <2>1. CASE m = n /\ q = p
    BY <1>3, <2>1 DEF RowsInv, Write
  <2>2. CASE ~(m = n /\ q = p)
    <3>1. peers'[m][q] = peers[m][q]
      BY <2>2 DEF RowsInv, Write
    <3>2. QED BY <1>3, <3>1 DEF RowsInv, Knows
  <2>3. QED BY <2>1, <2>2
<1>4. QED
  BY <1>2, <1>3 DEF RowsInv, Knows

-----------------------------------------------------------------------------
(* A step of one task *)

LEMMA OneTask ==
  ASSUME CallsInv, NEW t \in Task, NEW j, NEW c, Sound(j, c),
         job' = [job EXCEPT ![t] = j], call' = [call EXCEPT ![t] = c]
  PROVE  CallsInv'
<1>1. \A u \in Task : /\ job'[u] = IF u = t THEN j ELSE job[u]
                      /\ call'[u] = IF u = t THEN c ELSE call[u]
  BY DEF CallsInv
<1>2. /\ job' = [u \in Task |-> job'[u]]
      /\ call' = [u \in Task |-> call'[u]]
  BY DEF CallsInv
<1>3. QED
  BY <1>1, <1>2 DEF CallsInv

LEMMA FreeIsIdle ==
  ASSUME NEW t \in FreeTask
  PROVE  t \in Task /\ job[t].kind = "idle"
BY DEF FreeTask, Free, Running

(* A new job of a node, with a call to make or none. *)
LEMMA NewIsSound ==
  ASSUME NEW n \in Node, NEW k \in {"walk", "cascade", "refresh"}, NEW f, NEW es,
         NEW c, c = Silent \/ \E v, s : c = NewCall(v, s)
  PROVE  Sound(NewJob(k, n, f, es), c)
<1>1. /\ NewJob(k, n, f, es).kind # "idle" /\ NewJob(k, n, f, es).node = n
      /\ {"kind", "node"} \subseteq DOMAIN NewJob(k, n, f, es)
  BY DEF NewJob
<1>2. CASE c = Silent
  BY <1>1, <1>2 DEF Sound, Silent
<1>3. ASSUME NEW v, NEW s, c = NewCall(v, s) PROVE Sound(NewJob(k, n, f, es), c)
  BY <1>1, <1>3 DEF Sound, NewCall
<1>4. QED
  BY <1>2, <1>3

-----------------------------------------------------------------------------
(* The actions *)

LEMMA InitInv == Init => IInv
<1> SUFFICES ASSUME Init PROVE IInv
  OBVIOUS
<1>1. PICK known \in Worlds :
        peers = [n \in Node |-> [p \in Node |->
                  LET at == {e \in Address : <<n, <<p, e>>>> \in known}
                  IN  IF at = {} THEN NoRow ELSE Fresh(p, CHOOSE e \in at : TRUE)]]
  BY DEF Init
<1>2. ASSUME NEW n \in Node, NEW p \in Node, peers[n][p] # NoRow
      PROVE  p # n /\ Genuine(p, peers[n][p])
  <2> DEFINE at == {e \in Address : <<n, <<p, e>>>> \in known}
  <2>1. at # {} /\ peers[n][p] = Fresh(p, CHOOSE e \in at : TRUE)
    BY <1>1, <1>2
  <2>2. PICK e \in at : peers[n][p] = Fresh(p, e)
    BY <2>1
  <2>3. <<n, <<p, e>>>> \in known /\ e \in Address
    BY <2>2
  <2>4. p # n
    <3>1. \A k \in known : k[1] # k[2][1]
      BY <1>1, NetworkAssumption
    <3>2. QED BY <2>3, <3>1
  <2>5. <<p, e>> \in Places
    <3>1. known \subseteq Node \X (Old \cup {<<q, Home[q]>> : q \in Node})
      BY <1>1, NetworkAssumption
    <3>2. QED BY <2>3, <3>1 DEF Places
  <2>6. QED BY <2>2, <2>3, <2>4, <2>5 DEF Genuine, Fresh, Row
<1>3. peers \in [Node -> [Node -> Row \cup {NoRow}]]
  <2> SUFFICES ASSUME NEW n \in Node, NEW p \in Node
               PROVE  peers[n][p] \in Row \cup {NoRow}
    BY <1>1
  <2>1. QED BY <1>2 DEF Genuine
<1>4. RowsInv
  BY <1>2, <1>3 DEF RowsInv, Knows
<1>5. AliasInv
  BY DEF Init, AliasInv
<1>6. CallsInv
  BY DEF Init, CallsInv, Sound, Idle, Silent
<1>7. QED
  BY <1>4, <1>5, <1>6 DEF IInv

(* A free task is given a job. *)
LEMMA SpawnKeepsCalls ==
  ASSUME CallsInv, NEW t \in FreeTask, NEW n \in Node,
         NEW k \in {"walk", "cascade", "refresh"}, NEW f, NEW es,
         job' = [job EXCEPT ![t] = NewJob(k, n, f, es)], call' = call
  PROVE  CallsInv'
<1>1. t \in Task /\ job[t].kind = "idle"
  BY FreeIsIdle
<1>2. call' = [call EXCEPT ![t] = call[t]]
  BY <1>1 DEF CallsInv
<1>3. Sound(job[t], call[t])
  BY <1>1 DEF CallsInv
<1>4. call[t].at = "silent"
  BY <1>1, <1>3 DEF Sound
<1>5. Sound(NewJob(k, n, f, es), call[t])
  BY <1>4 DEF Sound, NewJob
<1>6. QED
  BY <1>1, <1>2, <1>5, OneTask

(* A free task is given a job and its first call. *)
LEMMA SpawnCallKeepsCalls ==
  ASSUME CallsInv, NEW t \in FreeTask, NEW n \in Node, NEW s,
         job' = [job EXCEPT ![t] = NewJob("refresh", n, <<>>, {})],
         call' = [call EXCEPT ![t] = NewCall("describe_self", s)]
  PROVE  CallsInv'
<1>1. t \in Task
  BY FreeIsIdle
<1>2. Sound(NewJob("refresh", n, <<>>, {}), NewCall("describe_self", s))
  BY NewIsSound
<1>3. QED
  BY <1>1, <1>2, OneTask

LEMMA BeginKeeps ==
  ASSUME IInv, Begin
  PROVE  IInv'
<1>1. UNCHANGED <<peers, alias>>
  BY DEF Begin, Bootstrap, DiscoverCapability, Refresh, Starts
<1>2. ASSUME NEW n \in Node, NEW es \in Seeds, Bootstrap(n, es)
      PROVE  CallsInv'
  BY <1>2, SpawnKeepsCalls DEF Bootstrap, Starts, IInv
<1>3. ASSUME NEW n \in Node, DiscoverCapability(n)
      PROVE  CallsInv'
  <2>1. PICK f : Starts("cascade", n, f, {})
    BY <1>3 DEF DiscoverCapability
  <2>2. QED BY <2>1, SpawnKeepsCalls DEF Starts, IInv
<1>4. ASSUME NEW n \in Node, NEW e \in Address, Refresh(n, e)
      PROVE  CallsInv'
  <2>1. PICK t \in FreeTask :
          /\ job' = [job EXCEPT ![t] = NewJob("refresh", n, <<>>, {})]
          /\ call' = [call EXCEPT ![t] = NewCall("describe_self", Hint(e))]
    BY <1>4 DEF Refresh
  <2>2. QED BY <2>1, SpawnCallKeepsCalls DEF IInv
<1>5. CallsInv'
  BY <1>2, <1>3, <1>4 DEF Begin
<1>6. QED
  BY <1>1, <1>5 DEF IInv, RowsInv, AliasInv, Knows

(* A task whose job goes on at the same node, or ends, when its call does. *)
LEMMA CloseKeepsCalls ==
  ASSUME CallsInv, NEW t \in Task, NEW j, Closes(t, j),
         job[t].kind # "idle",
         {"kind", "node"} \subseteq DOMAIN j, j.kind = job[t].kind, j.node = job[t].node
  PROVE  CallsInv'
<1>1. Sound(job[t], call[t])
  BY DEF CallsInv
<1>2. Sound(j, Silent) /\ Sound(Idle, Silent)
  BY <1>1 DEF Sound, Silent, Idle
<1>3. QED
  BY <1>2, OneTask DEF Closes

LEMMA RefreshedKeepsCalls ==
  ASSUME CallsInv, NEW t \in Task, Refreshed(t), job[t].kind # "idle"
  PROVE  CallsInv'
<1> DEFINE j == [job[t] EXCEPT
                   !.total = @ + 1, !.next = Append(@, call[t].to),
                   !.visited = IF job[t].depth = 0 THEN @ \cup {call[t].reply.id} ELSE @]
<1>1. {"kind", "node"} \subseteq DOMAIN job[t]
  BY DEF CallsInv, Sound
<1>2. {"kind", "node"} \subseteq DOMAIN j /\ j.kind = job[t].kind /\ j.node = job[t].node
  BY <1>1
<1>3. QED
  BY <1>2, CloseKeepsCalls DEF Refreshed

LEMMA AnswerKeeps ==
  ASSUME IInv, NEW t \in Task, Answer(t)
  PROVE  IInv'
<1>0. PICK p \in Dwellers(call[t].to) : \E listed :
        call' = [call EXCEPT
                   ![t].reply = [id |-> p, alias |-> alias[p], listed |-> listed],
                   ![t].at = IF Announces(t, p) THEN "answered" ELSE "replied",
                   ![t].knew = Announces(t, p) /\ Sighted(p, Caller(t))]
  BY DEF Answer
<1>1. PICK listed :
        call' = [call EXCEPT
                   ![t].reply = [id |-> p, alias |-> alias[p], listed |-> listed],
                   ![t].at = IF Announces(t, p) THEN "answered" ELSE "replied",
                   ![t].knew = Announces(t, p) /\ Sighted(p, Caller(t))]
  BY <1>0
<1> DEFINE c == [call[t] EXCEPT
                   !.reply = [id |-> p, alias |-> alias[p], listed |-> listed],
                   !.at = IF Announces(t, p) THEN "answered" ELSE "replied",
                   !.knew = Announces(t, p) /\ Sighted(p, Caller(t))]
<1>2. Sound(job[t], call[t]) /\ call[t].at = "sent"
  BY DEF IInv, CallsInv, Answer, CallAt
<1>3. p \in Node /\ Home[p] = call[t].to /\ alias[p] \in {p, NoAlias}
  BY DEF Dwellers, IInv, AliasInv
<1>4. Announces(t, p) => p # job[t].node
  BY DEF Announces, Caller
<1>5. Sound(job[t], c)
  BY <1>2, <1>3, <1>4 DEF Sound
<1>6. call' = [call EXCEPT ![t] = c]
  BY <1>1 DEF IInv, CallsInv
<1>7. job' = [job EXCEPT ![t] = job[t]]
  BY DEF Answer, IInv, CallsInv
<1>8. CallsInv'
  BY <1>5, <1>6, <1>7, OneTask DEF IInv
<1>9. QED
  BY <1>8 DEF Answer, IInv, RowsInv, AliasInv, Knows

(* The announcement files the caller where it listens; the task that is to  *)
(* pull it back is another than the caller's.                               *)
LEMMA AnnounceKeeps ==
  ASSUME IInv, NEW t \in Task, Announce(t)
  PROVE  IInv'
<1> DEFINE p == call[t].reply.id
           n == Caller(t)
           new == [endpoint |-> Home[n], alias |-> NoAlias, cached |-> Never]
           replied == [call[t] EXCEPT !.at = "replied"]
<1>1. Sound(job[t], call[t]) /\ call[t].at = "answered"
  BY DEF IInv, CallsInv, Announce, CallAt
<1>2. p \in Node /\ n \in Node /\ p # n /\ job[t].kind # "idle"
  BY <1>1 DEF Sound, Caller
<1>3. Write(p, n, Upserted(peers[p][n], new))
  BY DEF Announce
<1>4. peers[p][n] = NoRow \/ Genuine(n, peers[p][n])
  BY <1>2 DEF IInv, RowsInv, Knows
<1>5. Genuine(n, Upserted(peers[p][n], new))
  BY <1>2, <1>4, HomeIsPlace, UpsertGenuine
<1>6. RowsInv'
  BY <1>2, <1>3, <1>5, WriteKeepsRows DEF IInv
<1>7. AliasInv'
  BY DEF Announce, IInv, AliasInv
<1>8. Sound(job[t], replied)
  BY <1>1 DEF Sound
<1>9. CASE PullsBack(t)
  <2>1. PICK u \in FreeTask :
          /\ job' = [job EXCEPT ![u] = NewJob("refresh", p, <<>>, {})]
          /\ call' = [call EXCEPT ![t].at = "replied",
                                  ![u] = NewCall("describe_self", Hint(Home[n]))]
    BY <1>9 DEF Announce
  <2>2. u \in Task /\ u # t
    BY <1>2, FreeIsIdle
  <2>3. Sound(NewJob("refresh", p, <<>>, {}), NewCall("describe_self", Hint(Home[n])))
    BY <1>2, NewIsSound
  <2>4. /\ job' = [v \in Task |-> IF v = u THEN NewJob("refresh", p, <<>>, {})
                                  ELSE job[v]]
        /\ call' = [v \in Task |->
                      IF v = u THEN NewCall("describe_self", Hint(Home[n]))
                      ELSE IF v = t THEN replied ELSE call[v]]
    BY <2>1, <2>2 DEF IInv, CallsInv
  <2>5. \A v \in Task : Sound(job'[v], call'[v])
    BY <1>8, <2>2, <2>3, <2>4 DEF IInv, CallsInv
  <2>6. CallsInv'
    BY <2>4, <2>5 DEF CallsInv
  <2>7. QED BY <1>6, <1>7, <2>6 DEF IInv
<1>10. CASE ~PullsBack(t)
  <2>1. call' = [call EXCEPT ![t] = replied] /\ job' = [job EXCEPT ![t] = job[t]]
    BY <1>10 DEF Announce, CallGoes, IInv, CallsInv
  <2>2. CallsInv'
    BY <1>8, <2>1, OneTask DEF IInv
  <2>3. QED BY <1>6, <1>7, <2>2 DEF IInv
<1>11. QED
  BY <1>9, <1>10

(* A call that goes on without its reply or its task changing. *)
LEMMA GoesKeepsCalls ==
  ASSUME CallsInv, NEW t \in Task, NEW at \in {"replied", "stored"}, CallGoes(t, at),
         UNCHANGED job, call[t].at \in {"answered", "replied"},
         at = "stored" => call[t].reply.id # job[t].node
  PROVE  CallsInv'
<1> DEFINE c == [call[t] EXCEPT !.at = at]
<1>1. Sound(job[t], c)
  BY DEF CallsInv, Sound
<1>2. call' = [call EXCEPT ![t] = c] /\ job' = [job EXCEPT ![t] = job[t]]
  BY DEF CallGoes, CallsInv
<1>3. QED
  BY <1>1, <1>2, OneTask

(* A descriptor is filed under the id of whoever answered, where the call   *)
(* was sent.                                                                *)
LEMMA StoreKeeps ==
  ASSUME IInv, NEW t \in Task, Store(t)
  PROVE  IInv'
<1> DEFINE p == Subject(t)
           n == Caller(t)
           new == [endpoint |-> call[t].to, alias |-> call[t].reply.alias,
                   cached |-> call[t].reply.alias]
<1>1. Sound(job[t], call[t]) /\ call[t].at = "replied"
  BY DEF IInv, CallsInv, Store, Describes, CallAt
<1>2. p \in Node /\ n \in Node /\ p # n
  BY <1>1 DEF Sound, Caller, Subject, Store, Oneself
<1>3. /\ call[t].to \in Address /\ <<p, call[t].to>> \in Places
      /\ call[t].reply.alias \in {p, NoAlias}
  BY <1>1, <1>2, HomeIsPlace DEF Sound, Subject
<1>4. peers[n][p] = NoRow \/ Genuine(p, peers[n][p])
  BY <1>2 DEF IInv, RowsInv, Knows
<1>5. Genuine(p, Upserted(peers[n][p], new))
  BY <1>2, <1>3, <1>4, UpsertGenuine
<1>6. RowsInv'
  BY <1>2, <1>5, WriteKeepsRows DEF IInv, Store
<1>7. CallsInv'
  BY <1>1, <1>2, GoesKeepsCalls DEF IInv, Store, Subject, Caller
<1>8. QED
  BY <1>6, <1>7 DEF IInv, AliasInv, Store

LEMMA SetAliasKeeps ==
  ASSUME IInv, NEW t \in Task, SetAlias(t)
  PROVE  IInv'
<1> DEFINE p == Subject(t)
           n == Caller(t)
           row == Aliased(peers[n][p], call[t].reply.alias)
<1>1. Sound(job[t], call[t]) /\ call[t].at = "stored"
  BY DEF IInv, CallsInv, SetAlias, CallAt
<1>2. /\ p \in Node /\ n \in Node /\ p # n /\ job[t].kind # "idle"
      /\ call[t].reply.alias \in {p, NoAlias}
  BY <1>1 DEF Sound, Caller, Subject
<1>3. row = NoRow \/ Genuine(p, row)
  <2>1. CASE peers[n][p] = NoRow
    BY <2>1 DEF Aliased
  <2>2. CASE peers[n][p] # NoRow
    BY <1>2, <2>2 DEF Aliased, Genuine, Row, IInv, RowsInv, Knows
  <2>3. QED BY <2>1, <2>2
<1>4. RowsInv'
  BY <1>2, <1>3, WriteKeepsRows DEF IInv, SetAlias
<1>5. CallsInv'
  BY <1>2, RefreshedKeepsCalls DEF IInv, SetAlias
<1>6. QED
  BY <1>4, <1>5 DEF IInv, AliasInv, SetAlias

(* A step that leaves the directories and aliases alone. *)
LEMMA CallsOnly ==
  ASSUME IInv, UNCHANGED <<peers, alias>>, CallsInv'
  PROVE  IInv'
BY DEF IInv, RowsInv, AliasInv, Knows

LEMMA CloseKeeps ==
  ASSUME IInv, NEW t \in Task, Fails(t) \/ Self(t) \/ SetAliasFails(t) \/ Listen(t)
  PROVE  IInv'
<1>1. UNCHANGED <<peers, alias>>
  BY DEF Fails, Self, SetAliasFails, Listen
<1>2. Sound(job[t], call[t]) /\ call[t].at # "silent"
  BY DEF IInv, CallsInv, Fails, Self, SetAliasFails, Listen, Describes, CallAt
<1>3. job[t].kind # "idle" /\ {"kind", "node"} \subseteq DOMAIN job[t]
  BY <1>2 DEF Sound
<1>4. CASE Fails(t) \/ SetAliasFails(t)
  <2>1. Closes(t, job[t])
    BY <1>4 DEF Fails, SetAliasFails
  <2>2. QED BY <1>1, <1>3, <2>1, CloseKeepsCalls, CallsOnly DEF IInv
<1>5. CASE Self(t)
  BY <1>1, <1>3, <1>5, RefreshedKeepsCalls, CallsOnly DEF IInv, Self
<1>6. CASE Listen(t)
  <2>1. PICK fresh, seen :
          Closes(t, [job[t] EXCEPT !.pending = fresh, !.visited = seen])
    BY <1>6 DEF Listen
  <2>2. LET j == [job[t] EXCEPT !.pending = fresh, !.visited = seen]
        IN  /\ {"kind", "node"} \subseteq DOMAIN j
            /\ j.kind = job[t].kind /\ j.node = job[t].node
    BY <1>3
  <2>3. QED BY <1>1, <1>3, <2>1, <2>2, CloseKeepsCalls, CallsOnly DEF IInv
<1>7. QED
  BY <1>4, <1>5, <1>6

LEMMA AnnounceFailsKeeps ==
  ASSUME IInv, NEW t \in Task, AnnounceFails(t)
  PROVE  IInv'
BY GoesKeepsCalls, CallsOnly DEF AnnounceFails, CallAt, IInv

(* A task turns to its next hint or peer, or ends. *)
LEMMA ReadyKeeps ==
  ASSUME IInv, NEW t \in Task, Visit(t) \/ Ask(t) \/ End(t)
  PROVE  IInv'
<1>1. UNCHANGED <<peers, alias>>
  BY DEF Visit, Ask, End
<1>2. Sound(job[t], call[t]) /\ call[t] = Silent /\ job[t].kind # "idle"
  BY DEF IInv, CallsInv, Visit, Ask, End, HintsDone, Ready, Running
<1>3. {"kind", "node"} \subseteq DOMAIN job[t] /\ job[t].node \in Node
  BY <1>2 DEF Sound
<1>4. ASSUME NEW j, {"kind", "node"} \subseteq DOMAIN j, j.kind = job[t].kind,
             j.node = job[t].node, job' = [job EXCEPT ![t] = j],
             call' = call \/ \E v, s : call' = [call EXCEPT ![t] = NewCall(v, s)]
      PROVE  CallsInv'
  <2>1. CASE call' = call
    <3>1. call' = [call EXCEPT ![t] = Silent]
      BY <1>2, <2>1 DEF IInv, CallsInv
    <3>2. Sound(j, Silent)
      BY <1>3, <1>4 DEF Sound, Silent
    <3>3. QED BY <1>4, <3>1, <3>2, OneTask DEF IInv
  <2>2. ASSUME NEW v, NEW s, call' = [call EXCEPT ![t] = NewCall(v, s)]
        PROVE  CallsInv'
    <3>1. Sound(j, NewCall(v, s))
      BY <1>2, <1>3, <1>4 DEF Sound, NewCall
    <3>2. QED BY <1>4, <2>2, <3>1, OneTask DEF IInv
  <2>3. QED BY <1>4, <2>1, <2>2
<1>5. CASE Visit(t)
  <2>1. PICK s \in job[t].pending :
          /\ job' = [job EXCEPT ![t].pending = @ \ {s}]
          /\ call' = call \/ call' = [call EXCEPT ![t] = NewCall("describe_self", s)]
    BY <1>5 DEF Visit, Calls
  <2> DEFINE j == [job[t] EXCEPT !.pending = @ \ {s}]
  <2>2. {"kind", "node"} \subseteq DOMAIN j /\ j.kind = job[t].kind /\ j.node = job[t].node
    BY <1>3
  <2>3. job' = [job EXCEPT ![t] = j]
    BY <2>1
  <2>4. CallsInv'
    BY <1>4, <2>1, <2>2, <2>3
  <2>5. QED BY <1>1, <2>4, CallsOnly
<1>6. CASE Ask(t)
  <2> DEFINE k == Level(job[t])
             j == [k EXCEPT !.frontier = Tail(@), !.pending = {}]
  <2>1. {"kind", "node"} \subseteq DOMAIN k /\ k.kind = job[t].kind /\ k.node = job[t].node
    BY <1>3 DEF Level
  <2>2. {"kind", "node"} \subseteq DOMAIN j /\ j.kind = job[t].kind /\ j.node = job[t].node
    BY <2>1
  <2>3. /\ job' = [job EXCEPT ![t] = j]
        /\ \E v, s : call' = [call EXCEPT ![t] = NewCall(v, s)]
    BY <1>6 DEF Ask, Calls
  <2>4. CallsInv'
    BY <1>4, <2>2, <2>3
  <2>5. QED BY <1>1, <2>4, CallsOnly
<1>7. CASE End(t)
  <2>1. /\ job' = [job EXCEPT ![t] = Idle]
        /\ call' = [call EXCEPT ![t] = Silent]
    BY <1>2, <1>7 DEF End, IInv, CallsInv
  <2>2. Sound(Idle, Silent)
    BY DEF Sound, Idle, Silent
  <2>3. CallsInv'
    BY <2>1, <2>2, OneTask DEF IInv
  <2>4. QED BY <1>1, <2>3, CallsOnly
<1>8. QED
  BY <1>5, <1>6, <1>7

LEMMA OwnersKeep ==
  ASSUME IInv, NEW n \in Node, Rename(n) \/ \E p \in Node : Forget(n, p)
  PROVE  IInv'
<1>1. CallsInv'
  BY DEF IInv, CallsInv, Rename, Forget
<1>2. CASE Rename(n)
  <2>1. RowsInv'
    BY <1>2 DEF IInv, RowsInv, Rename, Knows
  <2>2. AliasInv'
    BY <1>2 DEF IInv, AliasInv, Rename
  <2>3. QED BY <1>1, <2>1, <2>2 DEF IInv
<1>3. ASSUME NEW p \in Node, Forget(n, p) PROVE IInv'
  <2>1. RowsInv'
    BY <1>3, WriteKeepsRows DEF IInv, Forget
  <2>2. AliasInv'
    BY <1>3 DEF IInv, AliasInv, Forget
  <2>3. QED BY <1>1, <2>1, <2>2 DEF IInv
<1>4. QED
  BY <1>2, <1>3

LEMMA InvStep == IInv /\ [Next]_vars => IInv'
<1> SUFFICES ASSUME IInv, [Next]_vars PROVE IInv'
  OBVIOUS
<1>1. CASE Begin
  BY <1>1, BeginKeeps
<1>2. ASSUME NEW t \in Task, Proceed(t) PROVE IInv'
  BY <1>2, AnswerKeeps, AnnounceKeeps, AnnounceFailsKeeps, StoreKeeps,
     SetAliasKeeps, CloseKeeps, ReadyKeeps
     DEF Proceed
<1>3. ASSUME NEW n \in Node, Rename(n) \/ \E p \in Node : Forget(n, p) PROVE IInv'
  BY <1>3, OwnersKeep
<1>4. CASE UNCHANGED vars
  BY <1>4 DEF vars, IInv, RowsInv, AliasInv, CallsInv, Knows
<1>5. QED
  BY <1>1, <1>2, <1>3, <1>4 DEF Next

(* What a directory says of a peer came from the peer, in a network of any *)
(* size, however hearsay, announcements and failures fall; and no instance *)
(* is ever its own peer.                                                   *)
THEOREM FirstHandAlways == Spec => []FirstHand
<1>1. IInv => FirstHand
  BY DEF IInv, RowsInv, Genuine, FirstHand
<1>2. QED
  BY <1>1, InitInv, InvStep, PTL DEF Spec

-----------------------------------------------------------------------------
(* Which tasks a step touches *)

Untouched(u) == job'[u] = job[u] /\ call'[u] = call[u]

(* Another task than the one that acts is left alone, or was free and is   *)
(* to refresh a peer, with its call to make.                               *)
LEMMA OthersStep ==
  ASSUME IInv, NEW t \in Task, Proceed(t), NEW u \in Task \ {t}
  PROVE  \/ Untouched(u)
         \/ job[u].kind = "idle" /\ job'[u].kind = "refresh" /\ call'[u].at = "sent"
<1>0. /\ job = [v \in Task |-> job[v]]
      /\ call = [v \in Task |-> call[v]]
  BY DEF IInv, CallsInv
<1>1. CASE Answer(t) \/ AnnounceFails(t) \/ Store(t)
  <2>1. CASE Answer(t)
    BY <1>0, <2>1 DEF Answer, Untouched
  <2>2. CASE AnnounceFails(t) \/ Store(t)
    BY <1>0, <2>2 DEF AnnounceFails, Store, CallGoes, Untouched
  <2> QED
    BY <1>1, <2>1, <2>2
<1>2. CASE Announce(t)
  <2>1. CASE PullsBack(t)
    <3>1. PICK v \in FreeTask :
            /\ job' = [job EXCEPT ![v] = NewJob("refresh", call[t].reply.id, <<>>, {})]
            /\ call' = [call EXCEPT ![t].at = "replied",
                                    ![v] = NewCall("describe_self", Hint(Home[Caller(t)]))]
      BY <1>2, <2>1 DEF Announce
    <3>2. v \in Task /\ job[v].kind = "idle"
      BY FreeIsIdle
    <3>3. CASE u = v
      <4>1. /\ job'[u] = NewJob("refresh", call[t].reply.id, <<>>, {})
            /\ call'[u] = NewCall("describe_self", Hint(Home[Caller(t)]))
        BY <1>0, <3>1, <3>2, <3>3
      <4> QED
        BY <3>2, <3>3, <4>1 DEF NewJob, NewCall
    <3>4. CASE u # v
      BY <1>0, <3>1, <3>4 DEF Untouched
    <3> QED
      BY <3>3, <3>4
  <2>2. CASE ~PullsBack(t)
    BY <1>0, <1>2, <2>2 DEF Announce, CallGoes, Untouched
  <2> QED
    BY <2>1, <2>2
<1>3. CASE Fails(t) \/ Self(t) \/ SetAlias(t) \/ SetAliasFails(t) \/ Listen(t)
  <2>1. \E j : Closes(t, j)
    BY <1>3 DEF Fails, Self, SetAlias, SetAliasFails, Listen, Refreshed
  <2> QED
    BY <1>0, <2>1 DEF Closes, Untouched
<1>4. CASE Visit(t) \/ Ask(t) \/ End(t)
  <2>1. /\ \E j : job' = [job EXCEPT ![t] = j]
        /\ call' = call \/ \E c : call' = [call EXCEPT ![t] = c]
    BY <1>0, <1>4 DEF Visit, Ask, End, Calls
  <2> QED
    BY <1>0, <2>1 DEF Untouched
<1> QED
  BY <1>1, <1>2, <1>3, <1>4 DEF Proceed

(* What begins, begins in a free task.                                     *)
LEMMA BeginsFree ==
  ASSUME IInv, Begin, NEW u \in Task
  PROVE  Untouched(u) \/ (job[u].kind = "idle" /\ call'[u].at \in {"silent", "sent"})
<1>0. /\ job = [v \in Task |-> job[v]]
      /\ call = [v \in Task |-> call[v]]
  BY DEF IInv, CallsInv
<1>1. ASSUME NEW k, NEW n, NEW f, NEW es, Starts(k, n, f, es)
      PROVE  Untouched(u) \/ (job[u].kind = "idle" /\ call'[u].at \in {"silent", "sent"})
  <2>1. PICK v \in FreeTask : job' = [job EXCEPT ![v] = NewJob(k, n, f, es)]
    BY <1>1 DEF Starts
  <2>2. call' = call
    BY <1>1 DEF Starts
  <2>3. v \in Task /\ job[v].kind = "idle"
    BY FreeIsIdle
  <2>4. job[u].kind = "idle" => call[u].at = "silent"
    BY DEF IInv, CallsInv, Sound
  <2> QED
    BY <1>0, <2>1, <2>2, <2>3, <2>4 DEF Untouched
<1>2. ASSUME NEW n \in Node, NEW e \in Address, Refresh(n, e)
      PROVE  Untouched(u) \/ (job[u].kind = "idle" /\ call'[u].at \in {"silent", "sent"})
  <2>1. PICK v \in FreeTask :
          /\ job' = [job EXCEPT ![v] = NewJob("refresh", n, <<>>, {})]
          /\ call' = [call EXCEPT ![v] = NewCall("describe_self", Hint(e))]
    BY <1>2 DEF Refresh
  <2>2. v \in Task /\ job[v].kind = "idle"
    BY FreeIsIdle
  <2>3. CASE u = v
    <3>1. call'[u] = NewCall("describe_self", Hint(e))
      BY <1>0, <2>1, <2>2, <2>3
    <3> QED
      BY <2>2, <2>3, <3>1 DEF NewCall
  <2>4. CASE u # v
    BY <1>0, <2>1, <2>4 DEF Untouched
  <2> QED
    BY <2>3, <2>4
<1> QED
  BY <1>1, <1>2 DEF Begin, Bootstrap, DiscoverCapability

(* The announcing call goes on to its reply, whoever is sent to pull.       *)
LEMMA AnnounceReplies ==
  ASSUME IInv, NEW t \in Task, Announce(t)
  PROVE  /\ job'[t] = job[t] /\ call'[t] = [call[t] EXCEPT !.at = "replied"]
         /\ call[t].at = "answered" /\ call'[t].at = "replied"
<1>0. /\ job = [v \in Task |-> job[v]]
      /\ call = [v \in Task |-> call[v]]
  BY DEF IInv, CallsInv
<1>1. call[t].at = "answered" /\ "at" \in DOMAIN call[t] /\ job[t].kind # "idle"
  BY DEF Announce, CallAt, IInv, CallsInv, Sound
<1>2. job'[t] = job[t] /\ call'[t] = [call[t] EXCEPT !.at = "replied"]
  <2>1. CASE PullsBack(t)
    <3>1. PICK v \in FreeTask :
            /\ job' = [job EXCEPT ![v] = NewJob("refresh", call[t].reply.id, <<>>, {})]
            /\ call' = [call EXCEPT ![t].at = "replied",
                                    ![v] = NewCall("describe_self", Hint(Home[Caller(t)]))]
      BY <2>1 DEF Announce
    <3>2. v \in Task /\ v # t
      BY <1>1, FreeIsIdle
    <3> QED
      BY <1>0, <3>1, <3>2
  <2>2. CASE ~PullsBack(t)
    BY <1>0, <2>2 DEF Announce, CallGoes
  <2> QED
    BY <2>1, <2>2
<1> QED
  BY <1>1, <1>2

-----------------------------------------------------------------------------
(* A row and its alias *)

(* t has stored p's row at n, and has yet to write its alias.              *)
Halves(t, n, p) == CallAt(t, "stored") /\ Caller(t) = n /\ Subject(t) = p

(* One refresh at most stands between the two writes, the descriptor kept  *)
(* is then its own, and else is of the alias kept.                         *)
Mirrored(n, p) ==
  <<n, p>> \notin blurred =>
    /\ \A t, u \in Task : Halves(t, n, p) /\ Halves(u, n, p) => t = u
    /\ \A t \in Task : Halves(t, n, p) /\ Knows(n, p)
         => peers[n][p].cached \in {Never, call[t].reply.alias}
    /\ Knows(n, p) /\ (\A t \in Task : ~Halves(t, n, p))
         => peers[n][p].cached \in {Never, peers[n][p].alias}

MirrorInv == \A n, p \in Node : Mirrored(n, p)

(* Refreshes of p stand where they stood, and its row keeps alias and      *)
(* descriptor or has no descriptor.                                        *)
LEMMA Follow ==
  ASSUME NEW n \in Node, NEW p \in Node, Mirrored(n, p), blurred \subseteq blurred',
         \A u \in Task : Halves(u, n, p)' <=> Halves(u, n, p),
         \A u \in Task : Halves(u, n, p) => call'[u].reply = call[u].reply,
         Knows(n, p)' => \/ peers'[n][p].cached = Never
                         \/ /\ Knows(n, p)
                            /\ peers'[n][p].cached = peers[n][p].cached
                            /\ peers'[n][p].alias = peers[n][p].alias
  PROVE  Mirrored(n, p)'
<1> SUFFICES ASSUME <<n, p>> \notin blurred'
             PROVE  /\ \A t, u \in Task : Halves(t, n, p)' /\ Halves(u, n, p)' => t = u
                    /\ \A t \in Task : Halves(t, n, p)' /\ Knows(n, p)'
                         => peers'[n][p].cached \in {Never, call'[t].reply.alias}
                    /\ Knows(n, p)' /\ (\A t \in Task : ~Halves(t, n, p)')
                         => peers'[n][p].cached \in {Never, peers'[n][p].alias}
  BY DEF Mirrored
<1>1. <<n, p>> \notin blurred
  OBVIOUS
<1>2. \A t, u \in Task : Halves(t, n, p)' /\ Halves(u, n, p)' => t = u
  BY <1>1 DEF Mirrored
<1>3. ASSUME NEW t \in Task, Halves(t, n, p)', Knows(n, p)'
      PROVE  peers'[n][p].cached \in {Never, call'[t].reply.alias}
  BY <1>1, <1>3 DEF Mirrored
<1>4. ASSUME Knows(n, p)', \A t \in Task : ~Halves(t, n, p)'
      PROVE  peers'[n][p].cached \in {Never, peers'[n][p].alias}
  BY <1>1, <1>4 DEF Mirrored
<1> QED
  BY <1>2, <1>3, <1>4

(* A task that neither was nor will be between the writes, or did not move.*)
LEMMA HalvesKept ==
  ASSUME NEW u \in Task, NEW n, NEW p,
         Untouched(u) \/ (call[u].at # "stored" /\ call'[u].at # "stored")
  PROVE  /\ Halves(u, n, p)' <=> Halves(u, n, p)
         /\ Halves(u, n, p) => call'[u].reply = call[u].reply
BY DEF Halves, CallAt, Caller, Subject, Untouched

(* The steps that are not a refresh's writes.                              *)
LEMMA ElsewhereMirrors ==
  ASSUME IInv, MirrorInv, blurred' = blurred,
         \A u \in Task : Untouched(u) \/ (call[u].at # "stored" /\ call'[u].at # "stored"),
         \A n, p \in Node :
           Knows(n, p)' => \/ peers'[n][p].cached = Never
                           \/ /\ Knows(n, p)
                              /\ peers'[n][p].cached = peers[n][p].cached
                              /\ peers'[n][p].alias = peers[n][p].alias
  PROVE  MirrorInv'
<1> SUFFICES ASSUME NEW n \in Node, NEW p \in Node PROVE Mirrored(n, p)'
  BY DEF MirrorInv
<1>1. /\ \A u \in Task : Halves(u, n, p)' <=> Halves(u, n, p)
      /\ \A u \in Task : Halves(u, n, p) => call'[u].reply = call[u].reply
  BY HalvesKept
<1> QED
  BY <1>1, Follow DEF MirrorInv

(* A row is written; the others are as they were.                          *)
LEMMA OtherRows ==
  ASSUME IInv, NEW n \in Node, NEW p \in Node, NEW row, Write(n, p, row)
  PROVE  /\ peers'[n][p] = row
         /\ \A m, q \in Node : <<m, q>> # <<n, p>> => peers'[m][q] = peers[m][q]
BY DEF Write, IInv, RowsInv

(* The two writes of a refresh, and the step that leaves the second out.   *)
LEMMA RefreshMirrors ==
  ASSUME IInv, MirrorInv, NEW t \in Task, Store(t) \/ SetAlias(t) \/ SetAliasFails(t)
  PROVE  MirrorInv'
<1>a. Sound(job[t], call[t]) /\ call[t].at \in {"replied", "stored"}
  BY DEF IInv, CallsInv, Store, SetAlias, SetAliasFails, Describes, CallAt
<1>b. PICK n \in Node, p \in Node : n = Caller(t) /\ p = Subject(t)
  BY <1>a DEF Sound, Caller, Subject
<1>0. n \in Node /\ p \in Node /\ call[t].reply.alias \in {p, NoAlias}
  BY <1>a, <1>b DEF Sound, Subject
<1>1. \A u \in Task \ {t} : Untouched(u)
  <2>1. \A u \in Task \ {t} : call'[u].at # "sent" \/ Untouched(u)
    BY DEF IInv, CallsInv, Store, SetAlias, SetAliasFails, CallGoes, Closes, Refreshed,
           Untouched
  <2> QED
    BY <2>1, OthersStep DEF Proceed
<1>2. call'[t].at = "stored" => Store(t) /\ Caller(t)' = n /\ Subject(t)' = p
  <2>1. CASE Store(t)
    <3>1. job' = job /\ call'[t] = [call[t] EXCEPT !.at = "stored"]
      BY <2>1 DEF Store, CallGoes, IInv, CallsInv
    <3> QED
      BY <1>a, <1>b, <2>1, <3>1 DEF Sound, Caller, Subject
  <2>2. CASE SetAlias(t) \/ SetAliasFails(t)
    <3>1. call'[t] = Silent
      BY <2>2 DEF SetAlias, SetAliasFails, Refreshed, Closes, IInv, CallsInv
    <3> QED
      BY <3>1 DEF Silent
  <2> QED
    BY <2>1, <2>2
<1>3. blurred \subseteq blurred'
  BY DEF Store, SetAlias, SetAliasFails, Blur, history
<1>4. ASSUME NEW m \in Node, NEW q \in Node, <<m, q>> # <<n, p>>
      PROVE  Mirrored(m, q)'
  <2>1. peers'[m][q] = peers[m][q]
    BY <1>0, <1>b, <1>4, OtherRows DEF Store, SetAlias, SetAliasFails
  <2>2. ~Halves(t, m, q) /\ ~Halves(t, m, q)'
    BY <1>2, <1>4, <1>b DEF Halves, CallAt
  <2>3. \A u \in Task : /\ Halves(u, m, q)' <=> Halves(u, m, q)
                        /\ Halves(u, m, q) => call'[u].reply = call[u].reply
    BY <1>1, <2>2, HalvesKept
  <2> QED
    BY <1>3, <2>1, <2>3, Follow DEF MirrorInv, Knows
<1>5. Mirrored(n, p)'
  <2> SUFFICES ASSUME <<n, p>> \notin blurred' PROVE Mirrored(n, p)'
    BY DEF Mirrored
  <2>0. <<n, p>> \notin blurred /\ Mirrored(n, p)
    BY <1>0, <1>3 DEF MirrorInv
  <2>1. CASE Store(t)
    <3>1. Halfway(t) = {}
      BY <1>b, <2>1 DEF Store, Blur
    <3>2. \A u \in Task \ {t} : ~Halves(u, n, p)'
      BY <1>1, <1>b, <3>1 DEF Halfway, Halves, CallAt, Caller, Subject, Untouched
    <3>3. call'[t].reply = call[t].reply /\ call'[t].at = "stored"
      BY <1>a, <2>1 DEF Store, CallGoes, IInv, CallsInv, Sound
    <3>4. Halves(t, n, p)'
      BY <1>2, <3>3 DEF Halves, CallAt
    <3>5. peers'[n][p] = Upserted(peers[n][p],
                                  [endpoint |-> call[t].to, alias |-> call[t].reply.alias,
                                   cached |-> call[t].reply.alias])
      BY <1>0, <1>b, <2>1, OtherRows DEF Store
    <3>6. call[t].reply.alias # Never
      BY <1>0, NameAssumption DEF NoAlias, Never
    <3>7. peers'[n][p].cached = call[t].reply.alias
      BY <3>5, <3>6 DEF Upserted, Coalesce
    <3> QED
      BY <3>2, <3>3, <3>4, <3>7 DEF Mirrored
  <2>2. CASE SetAlias(t)
    <3>1. Halves(t, n, p)
      BY <1>b, <2>2 DEF SetAlias, Halves
    <3>2. \A u \in Task : ~Halves(u, n, p)'
      <4>1. ~Halves(t, n, p)'
        BY <2>2 DEF SetAlias, Refreshed, Closes, IInv, CallsInv, Silent, Halves, CallAt
      <4>2. \A u \in Task \ {t} : ~Halves(u, n, p)
        BY <2>0, <3>1 DEF Mirrored
      <4> QED
        BY <1>1, <4>1, <4>2, HalvesKept
    <3>3. peers'[n][p] = Aliased(peers[n][p], call[t].reply.alias)
      BY <1>0, <1>b, <2>2, OtherRows DEF SetAlias
    <3>4. ASSUME Knows(n, p)' PROVE peers'[n][p].cached \in {Never, peers'[n][p].alias}
      <4>1. Knows(n, p)
        BY <3>3, <3>4 DEF Knows, Aliased
      <4>2. peers[n][p] \in Row
        BY <1>0, <4>1 DEF IInv, RowsInv, Genuine
      <4>3. /\ peers'[n][p].alias = call[t].reply.alias
            /\ peers'[n][p].cached = peers[n][p].cached
        BY <3>3, <4>1, <4>2 DEF Aliased, Knows, Row
      <4>4. peers[n][p].cached \in {Never, call[t].reply.alias}
        BY <2>0, <3>1, <4>1 DEF Mirrored
      <4> QED
        BY <4>3, <4>4
    <3> QED
      BY <3>2, <3>4 DEF Mirrored
  <2>3. CASE SetAliasFails(t)
    BY <1>b, <2>3 DEF SetAliasFails, Blur
  <2> QED
    BY <2>1, <2>2, <2>3
<1> QED
  BY <1>4, <1>5 DEF MirrorInv

(* An announcement tells nothing of the alias, a deletion takes the row.   *)
LEMMA MirrorStep ==
  ASSUME IInv, MirrorInv, [Next]_vars
  PROVE  MirrorInv'
<1>1. \A u \in Task : job[u].kind = "idle" => call[u].at # "stored"
  BY DEF IInv, CallsInv, Sound
<1>2. CASE Begin
  <2>1. UNCHANGED <<peers, blurred>>
    BY <1>2 DEF Begin, Bootstrap, DiscoverCapability, Refresh, Starts, history
  <2>2. \A u \in Task : Untouched(u) \/ (call[u].at # "stored" /\ call'[u].at # "stored")
    BY <1>1, <1>2, BeginsFree
  <2> QED
    BY <2>1, <2>2, ElsewhereMirrors DEF Knows
<1>3. ASSUME NEW t \in Task, Proceed(t) PROVE MirrorInv'
  <2>1. CASE Store(t) \/ SetAlias(t) \/ SetAliasFails(t)
    BY <2>1, RefreshMirrors
  <2>2. CASE ~(Store(t) \/ SetAlias(t) \/ SetAliasFails(t))
    <3>1. blurred' = blurred
      BY <1>3, <2>2 DEF Proceed, Answer, Announce, AnnounceFails, Fails, Self, Listen,
                        Visit, Ask, End, history
    <3>2. call[t].at # "stored" /\ call'[t].at # "stored"
      <4>1. CASE Answer(t) \/ Announce(t) \/ AnnounceFails(t)
        <5>1. call[t].at \in {"sent", "answered"}
          BY <4>1 DEF Answer, Announce, AnnounceFails, CallAt
        <5>2. CASE Answer(t)
          BY <5>1, <5>2 DEF Answer, IInv, CallsInv
        <5>3. CASE Announce(t)
          BY <5>1, <5>3, AnnounceReplies
        <5>4. CASE AnnounceFails(t)
          BY <5>1, <5>4 DEF AnnounceFails, CallGoes, IInv, CallsInv, Sound
        <5> QED
          BY <4>1, <5>2, <5>3, <5>4
      <4>2. CASE Fails(t) \/ Self(t) \/ Listen(t)
        <5>1. \E j : Closes(t, j)
          BY <4>2 DEF Fails, Self, Listen, Refreshed
        <5>2. call'[t] = Silent
          BY <5>1 DEF Closes, IInv, CallsInv
        <5>3. call[t].at \in {"sent", "replied"}
          BY <4>2 DEF Fails, Self, Listen, Describes, CallAt
        <5> QED
          BY <5>2, <5>3 DEF Silent
      <4>3. CASE Visit(t) \/ Ask(t) \/ End(t)
        <5>1. call[t] = Silent
          BY <4>3 DEF Visit, Ask, End, HintsDone, Ready
        <5>2. call' = call \/ \E v, s : Calls(t, v, s)
          BY <4>3 DEF Visit, Ask, End
        <5> QED
          BY <5>1, <5>2 DEF Calls, NewCall, Silent, IInv, CallsInv
      <4> QED
        BY <1>3, <2>2, <4>1, <4>2, <4>3 DEF Proceed
    <3>3. \A u \in Task : Untouched(u) \/ (call[u].at # "stored" /\ call'[u].at # "stored")
      BY <1>1, <1>3, <3>2, OthersStep
    <3>4. CASE peers' = peers
      BY <3>1, <3>3, <3>4, ElsewhereMirrors DEF Knows
    <3>5. CASE Announce(t)
      <4> DEFINE n == call[t].reply.id
                 p == Caller(t)
                 new == [endpoint |-> Home[p], alias |-> NoAlias, cached |-> Never]
      <4>1. n \in Node /\ p \in Node
        BY <3>5 DEF Announce, CallAt, IInv, CallsInv, Sound, Caller
      <4>2. Write(n, p, Upserted(peers[n][p], new))
        BY <3>5 DEF Announce
      <4>3. \A m, q \in Node : <<m, q>> # <<n, p>> => peers'[m][q] = peers[m][q]
        BY <4>1, <4>2, OtherRows
      <4>4. peers'[n][p] = Upserted(peers[n][p], new)
        BY <4>1, <4>2, OtherRows
      <4>5. \/ peers'[n][p].cached = Never
            \/ /\ Knows(n, p)
               /\ peers'[n][p].cached = peers[n][p].cached
               /\ peers'[n][p].alias = peers[n][p].alias
        BY <4>4 DEF Upserted, Coalesce, Knows
      <4> QED
        BY <3>1, <3>3, <4>3, <4>5, ElsewhereMirrors DEF Knows
    <3> QED
      BY <1>3, <2>2, <3>4, <3>5 DEF Proceed, Answer, AnnounceFails, Fails, Self, Listen,
                                    Visit, Ask, End
  <2> QED
    BY <2>1, <2>2
<1>4. ASSUME NEW n \in Node, Rename(n) PROVE MirrorInv'
  BY <1>4, ElsewhereMirrors DEF Rename, Untouched, Knows, history
<1>5. ASSUME NEW n \in Node, NEW p \in Node, Forget(n, p) PROVE MirrorInv'
  <2>1. peers'[n][p] = NoRow /\ \A m, q \in Node : <<m, q>> # <<n, p>> => peers'[m][q] = peers[m][q]
    BY <1>5, OtherRows DEF Forget
  <2> QED
    BY <1>5, <2>1, ElsewhereMirrors DEF Forget, Untouched, Knows, history
<1>6. CASE UNCHANGED vars
  BY <1>6, ElsewhereMirrors DEF vars, Untouched, Knows, history
<1> QED
  BY <1>2, <1>3, <1>4, <1>5, <1>6 DEF Next

(* A described peer goes by the alias of its descriptor (the upsert and    *)
(* set_alias of refresh_peer), however announcements and deletions fall    *)
(* between the two writes, unless two refreshes of it crossed or one broke *)
(* off.                                                                    *)
THEOREM AliasFollows == Spec => []AliasMirrors
<1>1. Init => MirrorInv
  <2> SUFFICES ASSUME Init, NEW n \in Node, NEW p \in Node PROVE Mirrored(n, p)
    BY DEF MirrorInv
  <2>1. \A t \in Task : ~Halves(t, n, p)
    BY DEF Init, Halves, CallAt, Silent
  <2>2. Knows(n, p) => peers[n][p].cached = peers[n][p].alias
    BY DEF Init, Knows, Fresh
  <2> QED
    BY <2>1, <2>2 DEF Mirrored
<1>2. IInv /\ MirrorInv /\ [Next]_vars => MirrorInv'
  BY MirrorStep
<1>3. MirrorInv => AliasMirrors
  BY DEF MirrorInv, Mirrored, Halves, AliasMirrors
<1> QED
  BY <1>1, <1>2, <1>3, InitInv, InvStep, PTL DEF Spec

-----------------------------------------------------------------------------
(* Whoever is known gets described *)

(* u is on its way to ask p, on behalf of n, for its descriptor.           *)
Pulling(u, n, p) ==
  /\ job[u].kind = "refresh" /\ Caller(u) = n
  /\ call[u].verb = "describe_self" /\ call[u].to = Home[p]
  /\ call[u].at \in {"sent", "answered", "replied"}

(* While nothing goes wrong, a handler that found its caller known still   *)
(* knows it, and a peer without a descriptor is being asked for it.        *)
Known == \A t \in Task : CallAt(t, "answered") /\ call[t].knew
                           => Knows(call[t].reply.id, Caller(t))
Pulled == \A n, p \in Node : Knows(n, p) /\ peers[n][p].cached = Never
                               => \E u \in Task : Pulling(u, n, p)
DescribedInv == events \in Nat /\ (events = 0 => Known /\ Pulled)

LEMMA RowIsSome == \A row \in Row : row # NoRow
<1> SUFFICES ASSUME NEW row \in Row PROVE row # NoRow
  OBVIOUS
<1>1. "alias" \in DOMAIN row
  BY DEF Row
<1>2. "alias" \notin DOMAIN NoRow
  BY DEF NoRow
<1> QED
  BY <1>1, <1>2

(* Nothing went wrong in a step: no event is counted.                      *)
LEMMA NoEvent ==
  ASSUME events \in Nat, events' = 0
  PROVE  ~Event
BY DEF Event

LEMMA EventsStep ==
  ASSUME events \in Nat, [Next]_vars
  PROVE  events' \in Nat /\ (events' = 0 => events = 0)
<1>1. events' = events \/ events' = events + 1
  <2>1. CASE Begin
    BY <2>1 DEF Begin, Bootstrap, DiscoverCapability, Refresh, Starts
  <2>2. ASSUME NEW t \in Task, Proceed(t) PROVE events' = events \/ events' = events + 1
    BY <2>2 DEF Proceed, Answer, Announce, AnnounceFails, Fails, Self, Store, SetAlias,
                SetAliasFails, Listen, Visit, Ask, End, Event, bounds
  <2>3. ASSUME NEW n \in Node, Rename(n) \/ \E p \in Node : Forget(n, p)
        PROVE  events' = events + 1
    BY <2>3 DEF Rename, Forget, Event
  <2>4. CASE UNCHANGED vars
    BY <2>4 DEF vars, bounds
  <2> QED
    BY <2>1, <2>2, <2>3, <2>4 DEF Next
<1> QED
  BY <1>1

(* A pull goes on until the descriptor is stored: its peer answers, and is *)
(* not the caller itself.                                                  *)
LEMMA PullGoesOn ==
  ASSUME IInv, events \in Nat, events' = 0, NEW n \in Node, NEW p \in Node, n # p,
         NEW u \in Task, Pulling(u, n, p), [Next]_vars
  PROVE  Pulling(u, n, p)' \/ (Store(u) /\ Subject(u) = p)
<1>0. /\ job = [v \in Task |-> job[v]]
      /\ call = [v \in Task |-> call[v]]
      /\ Sound(job[u], call[u])
  BY DEF IInv, CallsInv
<1>1. job[u].kind # "idle" /\ ~Event
  BY NoEvent DEF Pulling
<1>2. Untouched(u) => Pulling(u, n, p)'
  BY DEF Untouched, Pulling, Caller
<1>3. p \in Dwellers(call[u].to)
  BY DEF Dwellers, Pulling
<1>4. call[u].at = "replied" => call[u].reply.id = p
  BY <1>0, HomeAssumption DEF Sound, Pulling
<1>5. CASE Proceed(u)
  <2>1. CASE Answer(u)
    <3>1. job' = job /\ call[u].at = "sent"
      BY <2>1 DEF Answer, CallAt
    <3>2. PICK q, listed :
            call' = [call EXCEPT
                       ![u].reply = [id |-> q, alias |-> alias[q], listed |-> listed],
                       ![u].at = IF Announces(u, q) THEN "answered" ELSE "replied",
                       ![u].knew = Announces(u, q) /\ Sighted(q, Caller(u))]
      BY <2>1 DEF Answer
    <3>3. call'[u] = [call[u] EXCEPT
                        !.reply = [id |-> q, alias |-> alias[q], listed |-> listed],
                        !.at = IF Announces(u, q) THEN "answered" ELSE "replied",
                        !.knew = Announces(u, q) /\ Sighted(q, Caller(u))]
      BY <1>0, <3>2
    <3>4. "at" \in DOMAIN call[u]
      BY <1>0, <3>1 DEF Sound
    <3> QED
      BY <3>1, <3>3, <3>4 DEF Pulling, Caller
  <2>2. CASE Announce(u)
    <3>1. call[u].at = "answered" /\ {"at", "verb", "to"} \subseteq DOMAIN call[u]
      BY <1>0, <2>2 DEF Announce, CallAt, Sound
    <3>2. job'[u] = job[u] /\ call'[u] = [call[u] EXCEPT !.at = "replied"]
      BY <2>2, AnnounceReplies
    <3> QED
      BY <3>1, <3>2 DEF Pulling, Caller
  <2>3. ~AnnounceFails(u) /\ ~Fails(u)
    BY <1>1, <1>3 DEF AnnounceFails, Fails
  <2>4. ~Self(u)
    BY <1>4 DEF Self, Describes, CallAt, Oneself, Pulling
  <2>5. ~SetAlias(u) /\ ~SetAliasFails(u)
    BY DEF SetAlias, SetAliasFails, CallAt, Pulling
  <2>6. ~Listen(u)
    BY DEF Listen, Pulling
  <2>7. ~Visit(u) /\ ~Ask(u) /\ ~End(u)
    <3>1. call[u] # Silent
      BY DEF Pulling, Silent
    <3> QED
      BY <3>1 DEF Visit, Ask, End, HintsDone, Ready
  <2>8. CASE Store(u)
    BY <1>4, <2>8 DEF Store, Describes, CallAt, Subject
  <2> QED
    BY <1>5, <2>1, <2>2, <2>3, <2>4, <2>5, <2>6, <2>7, <2>8 DEF Proceed
<1>6. ASSUME NEW t \in Task \ {u}, Proceed(t) PROVE Pulling(u, n, p)'
  BY <1>1, <1>2, <1>6, OthersStep
<1>7. CASE Begin
  BY <1>1, <1>2, <1>7, BeginsFree
<1>8. ASSUME NEW m \in Node, Rename(m) \/ \E q \in Node : Forget(m, q) PROVE FALSE
  BY <1>1, <1>8 DEF Rename, Forget
<1>9. CASE UNCHANGED vars
  BY <1>2, <1>9 DEF vars, Untouched
<1> QED
  BY <1>5, <1>6, <1>7, <1>8, <1>9 DEF Next

(* Whose rows a step without event writes.                                 *)
LEMMA RowChange ==
  ASSUME IInv, events \in Nat, events' = 0, [Next]_vars, NEW n \in Node, NEW p \in Node
  PROVE  \/ peers'[n][p] = peers[n][p]
         \/ \E t \in Task : Store(t) /\ Caller(t) = n /\ Subject(t) = p
         \/ \E t \in Task : SetAlias(t) /\ Caller(t) = n /\ Subject(t) = p
         \/ \E t \in Task : Announce(t) /\ call[t].reply.id = n /\ Caller(t) = p
<1>1. ASSUME NEW t \in Task, Store(t) \/ SetAlias(t)
      PROVE  peers'[n][p] = peers[n][p] \/ (Caller(t) = n /\ Subject(t) = p)
  <2>1. Caller(t) \in Node /\ Subject(t) \in Node
    BY <1>1 DEF Store, SetAlias, Describes, CallAt, IInv, CallsInv, Sound, Caller, Subject
  <2>2. \E row : Write(Caller(t), Subject(t), row)
    BY <1>1 DEF Store, SetAlias
  <2> QED
    BY <2>1, <2>2, OtherRows
<1>2. ASSUME NEW t \in Task, Announce(t)
      PROVE  peers'[n][p] = peers[n][p] \/ (call[t].reply.id = n /\ Caller(t) = p)
  <2>1. call[t].reply.id \in Node /\ Caller(t) \in Node
    BY <1>2 DEF Announce, CallAt, IInv, CallsInv, Sound, Caller
  <2>2. \E row : Write(call[t].reply.id, Caller(t), row)
    BY <1>2 DEF Announce
  <2> QED
    BY <2>1, <2>2, OtherRows
<1>3. CASE Begin
  BY <1>3 DEF Begin, Bootstrap, DiscoverCapability, Refresh, Starts
<1>4. ASSUME NEW t \in Task, Proceed(t), ~Store(t), ~SetAlias(t), ~Announce(t)
      PROVE  peers' = peers
  BY <1>4 DEF Proceed, Answer, AnnounceFails, Fails, Self, SetAliasFails, Listen,
              Visit, Ask, End
<1>5. ASSUME NEW m \in Node, Rename(m) \/ \E q \in Node : Forget(m, q) PROVE FALSE
  BY NoEvent, <1>5 DEF Rename, Forget
<1>6. CASE UNCHANGED vars
  BY <1>6 DEF vars
<1> QED
  BY <1>1, <1>2, <1>3, <1>4, <1>5, <1>6 DEF Next

(* What a step without event does to a row.                                *)
LEMMA RowsStep ==
  ASSUME IInv, events \in Nat, events' = 0, [Next]_vars, NEW n \in Node, NEW p \in Node
  PROVE  /\ Knows(n, p) => Knows(n, p)'
         /\ \A t \in Task : Store(t) /\ Caller(t) = n /\ Subject(t) = p
              => Knows(n, p)' /\ peers'[n][p].cached # Never
         /\ Knows(n, p)' /\ peers'[n][p].cached = Never =>
              \/ Knows(n, p) /\ peers[n][p].cached = Never
              \/ /\ ~Knows(n, p)
                 /\ \E t \in Task : Announce(t) /\ call[t].reply.id = n /\ Caller(t) = p
<1>1. ASSUME NEW t \in Task, Store(t), Caller(t) = n, Subject(t) = p
      PROVE  peers'[n][p] \in Row /\ peers'[n][p].cached # Never
  <2>1. /\ Sound(job[t], call[t]) /\ call[t].at = "replied"
    BY <1>1 DEF IInv, CallsInv, Store, Describes, CallAt
  <2>2. /\ call[t].to \in Address /\ <<p, call[t].to>> \in Places
        /\ call[t].reply.alias \in {p, NoAlias}
    BY <1>1, <2>1, HomeIsPlace DEF Sound, Subject
  <2>3. peers'[n][p] = Upserted(peers[n][p],
                                [endpoint |-> call[t].to, alias |-> call[t].reply.alias,
                                 cached |-> call[t].reply.alias])
    BY <1>1, OtherRows DEF Store
  <2>4. peers[n][p] = NoRow \/ Genuine(p, peers[n][p])
    BY DEF IInv, RowsInv, Knows
  <2>5. Genuine(p, peers'[n][p])
    BY <2>2, <2>3, <2>4, UpsertGenuine
  <2>6. call[t].reply.alias # Never
    BY <2>2, NameAssumption DEF NoAlias, Never
  <2> QED
    BY <2>3, <2>5, <2>6 DEF Upserted, Coalesce, Genuine
<1>2. ASSUME NEW t \in Task, Announce(t), call[t].reply.id = n, Caller(t) = p
      PROVE  /\ peers'[n][p] \in Row
             /\ Knows(n, p) => peers'[n][p].cached = peers[n][p].cached
  <2>1. peers'[n][p] = Upserted(peers[n][p],
                                [endpoint |-> Home[p], alias |-> NoAlias, cached |-> Never])
    BY <1>2, OtherRows DEF Announce
  <2>2. peers[n][p] = NoRow \/ Genuine(p, peers[n][p])
    BY DEF IInv, RowsInv, Knows
  <2>3. Genuine(p, peers'[n][p])
    BY <2>1, <2>2, HomeIsPlace, UpsertGenuine
  <2> QED
    BY <2>1, <2>3 DEF Upserted, Coalesce, Genuine, Knows
<1>3. ASSUME NEW t \in Task, SetAlias(t), Caller(t) = n, Subject(t) = p
      PROVE  IF Knows(n, p) THEN peers'[n][p] \in Row /\ peers'[n][p].cached = peers[n][p].cached
             ELSE peers'[n][p] = NoRow
  <2>1. peers'[n][p] = Aliased(peers[n][p], call[t].reply.alias)
    BY <1>3, OtherRows DEF SetAlias
  <2>2. call[t].reply.alias \in Node \cup {NoAlias}
    BY <1>3 DEF SetAlias, CallAt, IInv, CallsInv, Sound
  <2>3. Knows(n, p) => peers[n][p] \in Row
    BY DEF IInv, RowsInv, Genuine
  <2> QED
    BY <2>1, <2>2, <2>3 DEF Aliased, Knows, Row
<1>4. \/ peers'[n][p] = peers[n][p]
      \/ \E t \in Task : Store(t) /\ Caller(t) = n /\ Subject(t) = p
      \/ \E t \in Task : SetAlias(t) /\ Caller(t) = n /\ Subject(t) = p
      \/ \E t \in Task : Announce(t) /\ call[t].reply.id = n /\ Caller(t) = p
  BY RowChange
<1>5. Knows(n, p) => Knows(n, p)'
  BY <1>1, <1>2, <1>3, <1>4, RowIsSome DEF Knows
<1>6. ASSUME Knows(n, p)', peers'[n][p].cached = Never,
             ~(Knows(n, p) /\ peers[n][p].cached = Never)
      PROVE  /\ ~Knows(n, p)
             /\ \E t \in Task : Announce(t) /\ call[t].reply.id = n /\ Caller(t) = p
  <2>1. peers'[n][p] # peers[n][p]
    BY <1>6 DEF Knows
  <2>2. ASSUME NEW t \in Task, SetAlias(t), Caller(t) = n, Subject(t) = p PROVE FALSE
    BY <1>3, <1>6, <2>2 DEF Knows
  <2>3. PICK t \in Task : Announce(t) /\ call[t].reply.id = n /\ Caller(t) = p
    BY <1>1, <1>4, <1>6, <2>1, <2>2
  <2> QED
    BY <1>2, <1>6, <2>3
<1> QED
  BY <1>1, <1>5, <1>6, RowIsSome DEF Knows

(* A caller that is new to the callee has it send for its descriptor.      *)
LEMMA AnnouncePulls ==
  ASSUME IInv, Known, NEW t \in Task, Announce(t), NEW n \in Node, NEW p \in Node,
         call[t].reply.id = n, Caller(t) = p, ~Knows(n, p)
  PROVE  \E u \in Task : Pulling(u, n, p)'
<1>1. PullsBack(t)
  BY DEF Known, PullsBack, Announce
<1>2. PICK u \in FreeTask :
        /\ job' = [job EXCEPT ![u] = NewJob("refresh", n, <<>>, {})]
        /\ call' = [call EXCEPT ![t].at = "replied",
                                ![u] = NewCall("describe_self", Hint(Home[p]))]
  BY <1>1 DEF Announce
<1>3. u \in Task
  BY FreeIsIdle
<1>4. job'[u] = NewJob("refresh", n, <<>>, {})
  BY <1>2, <1>3 DEF IInv, CallsInv
<1>5. call'[u] = NewCall("describe_self", Hint(Home[p]))
  BY <1>2, <1>3 DEF IInv, CallsInv
<1>6. Pulling(u, n, p)'
  BY <1>4, <1>5 DEF Pulling, NewJob, NewCall, Hint, Caller
<1> QED
  BY <1>3, <1>6

(* Who is found known stays known.                                         *)
LEMMA KnownStep ==
  ASSUME IInv, Known, events \in Nat, events' = 0, [Next]_vars
  PROVE  Known'
<1> SUFFICES ASSUME NEW t \in Task, CallAt(t, "answered")', call'[t].knew
             PROVE  Knows(call[t].reply.id, Caller(t))'
  BY DEF Known, CallAt
<1>1. CASE Untouched(t)
  <2>1. call'[t] = call[t] /\ Caller(t)' = Caller(t) /\ call[t].at = "answered"
    BY <1>1 DEF Untouched, Caller, CallAt
  <2>2. call[t].reply.id \in Node /\ Caller(t) \in Node
    BY <2>1 DEF IInv, CallsInv, Sound, Caller
  <2>3. PICK n \in Node, p \in Node : n = call[t].reply.id /\ p = Caller(t)
    BY <2>2
  <2>4. Knows(n, p)
    BY <2>1, <2>3 DEF Known, CallAt
  <2>5. Knows(n, p)'
    BY <2>4, RowsStep
  <2> QED
    BY <2>1, <2>3, <2>5 DEF Knows
<1>2. CASE ~Untouched(t)
  <2>1. Proceed(t)
    <3>1. ASSUME NEW u \in Task \ {t}, Proceed(u) PROVE FALSE
      BY <1>2, <3>1, OthersStep DEF CallAt
    <3>2. CASE Begin
      BY <1>2, <3>2, BeginsFree DEF CallAt
    <3>3. CASE UNCHANGED vars
      BY <1>2, <3>3 DEF vars, Untouched
    <3>4. ASSUME NEW n \in Node, Rename(n) \/ \E p \in Node : Forget(n, p) PROVE FALSE
      BY <1>2, <3>4 DEF Rename, Forget, Untouched
    <3> QED
      BY <3>1, <3>2, <3>3, <3>4 DEF Next
  <2>2. ~Announce(t)
    BY AnnounceReplies DEF CallAt
  <2>3. ~AnnounceFails(t) /\ ~SetAliasFails(t)
    BY NoEvent DEF AnnounceFails, SetAliasFails
  <2>4. ~Fails(t) /\ ~Self(t) /\ ~SetAlias(t) /\ ~Listen(t)
    <3>1. ASSUME NEW j, Closes(t, j) PROVE FALSE
      BY <3>1 DEF Closes, IInv, CallsInv, CallAt, Silent
    <3> QED
      BY <3>1 DEF Fails, Self, SetAlias, Listen, Refreshed
  <2>5. ~Store(t)
    <3>1. ASSUME CallGoes(t, "stored"), call[t].at = "replied" PROVE FALSE
      BY <3>1 DEF CallGoes, IInv, CallsInv, Sound, CallAt
    <3> QED
      BY <3>1 DEF Store, Describes, CallAt
  <2>6. ~Visit(t) /\ ~Ask(t) /\ ~End(t)
    <3>1. ASSUME call[t] = Silent, call' = call \/ \E v, s : Calls(t, v, s) PROVE FALSE
      BY <3>1 DEF Calls, NewCall, Silent, IInv, CallsInv, CallAt
    <3> QED
      BY <3>1 DEF Visit, Ask, End, HintsDone, Ready
  <2>7. Answer(t)
    BY <2>1, <2>2, <2>3, <2>4, <2>5, <2>6 DEF Proceed
  <2>8. PICK q, listed :
          call' = [call EXCEPT
                     ![t].reply = [id |-> q, alias |-> alias[q], listed |-> listed],
                     ![t].at = IF Announces(t, q) THEN "answered" ELSE "replied",
                     ![t].knew = Announces(t, q) /\ Sighted(q, Caller(t))]
    BY <2>7 DEF Answer
  <2>9. call'[t] = [call[t] EXCEPT
                      !.reply = [id |-> q, alias |-> alias[q], listed |-> listed],
                      !.at = IF Announces(t, q) THEN "answered" ELSE "replied",
                      !.knew = Announces(t, q) /\ Sighted(q, Caller(t))]
    BY <2>8 DEF IInv, CallsInv
  <2>10. {"reply", "knew"} \subseteq DOMAIN call[t] /\ UNCHANGED <<peers, job>>
    BY <2>7 DEF Answer, CallAt, IInv, CallsInv, Sound
  <2>11. call'[t].reply.id = q /\ Knows(q, Caller(t))
    <3>1. call'[t].reply.id = q
      BY <2>9, <2>10
    <3>2. call'[t].knew = (Announces(t, q) /\ Sighted(q, Caller(t)))
      BY <2>9, <2>10
    <3>3. Sighted(q, Caller(t))
      BY <3>2, Zenon
    <3> QED
      BY <3>1, <3>3 DEF Sighted
  <2> QED
    BY <2>10, <2>11 DEF Knows, Caller
<1> QED
  BY <1>1, <1>2

LEMMA DescribedStep ==
  ASSUME IInv, DescribedInv, [Next]_vars
  PROVE  DescribedInv'
<1>1. events' \in Nat /\ (events' = 0 => events = 0)
  BY EventsStep DEF DescribedInv
<1> SUFFICES ASSUME events' = 0 PROVE Known' /\ Pulled'
  BY <1>1 DEF DescribedInv
<1>2. events \in Nat /\ Known /\ Pulled
  BY <1>1 DEF DescribedInv
<1>3. Known'
  BY <1>2, KnownStep
<1>4. ASSUME NEW n \in Node, NEW p \in Node, Knows(n, p)', peers'[n][p].cached = Never
      PROVE  \E u \in Task : Pulling(u, n, p)'
  <2>1. \A t \in Task : ~(Store(t) /\ Caller(t) = n /\ Subject(t) = p)
    BY <1>2, <1>4, RowsStep
  <2>2. CASE Knows(n, p) /\ peers[n][p].cached = Never
    <3>1. PICK u \in Task : Pulling(u, n, p)
      BY <1>2, <2>2 DEF Pulled
    <3>2. n # p
      BY <2>2 DEF IInv, RowsInv
    <3>3. Caller(u) = n
      BY <3>1 DEF Pulling
    <3> QED
      BY <1>2, <2>1, <3>1, <3>2, <3>3, PullGoesOn
  <2>3. CASE ~(Knows(n, p) /\ peers[n][p].cached = Never)
    <3>1. PICK t \in Task : Announce(t) /\ call[t].reply.id = n /\ Caller(t) = p /\ ~Knows(n, p)
      BY <1>2, <1>4, <2>3, RowsStep
    <3> QED
      BY <1>2, <3>1, AnnouncePulls
  <2> QED
    BY <2>2, <2>3
<1> QED
  BY <1>3, <1>4 DEF Pulled

(* A caller that announced itself ends up described (the reverse-announce  *)
(* of handler.rs and the refresh it sets off), in networks of any size:    *)
(* once all tasks are done, and nothing was lost, no row is without its    *)
(* descriptor.                                                             *)
THEOREM DescribedAtRest == Spec => []Described
<1>1. Init => DescribedInv
  <2> SUFFICES ASSUME Init PROVE DescribedInv
    OBVIOUS
  <2>1. events = 0 /\ Known
    BY DEF Init, Known, CallAt, Silent
  <2>2. ASSUME NEW n \in Node, NEW p \in Node, Knows(n, p) PROVE peers[n][p].cached # Never
    <3>1. peers[n][p].cached = p
      BY <2>2 DEF Init, Knows, Fresh
    <3> QED
      BY <3>1, NameAssumption
  <2> QED
    BY <2>1, <2>2 DEF DescribedInv, Pulled
<1>2. IInv /\ DescribedInv /\ [Next]_vars => DescribedInv'
  BY DescribedStep
<1>3. DescribedInv => Described
  <2> SUFFICES ASSUME DescribedInv, AtRest, events = 0, NEW n \in Node, NEW p \in Node,
                      Knows(n, p), peers[n][p].cached = Never
               PROVE  FALSE
    BY DEF Described
  <2>1. PICK u \in Task : Pulling(u, n, p)
    BY DEF DescribedInv, Pulled
  <2> QED
    BY <2>1 DEF AtRest, Pulling, Idle
<1> QED
  BY <1>1, <1>2, <1>3, InitInv, InvStep, PTL DEF Spec

-----------------------------------------------------------------------------
(* The types *)

(* A call that asks for a descriptor is under way.                         *)
Asking(c) == c # Silent /\ c.verb = "describe_self"

(* A walk among its seeds has counted, is asking or has yet to visit no    *)
(* more of them than there are; beyond them it asks only while it has room.*)
WalkCounted(j, c) ==
  j.kind = "walk" =>
    /\ j.depth = 0 =>
         /\ IsFiniteSet(j.pending) /\ IsFiniteSet(j.seeds)
         /\ j.frontier = <<>>
         /\ c = Silent \/ Asking(c)
         /\ j.total + Cardinality(j.pending) + (IF Asking(c) THEN 1 ELSE 0)
              <= Cardinality(j.seeds)
    /\ j.depth # 0 => /\ j.total <= MaxPeers
                      /\ Asking(c) => j.total < MaxPeers

(* A peer as others list it.                                               *)
Entry == [id : Node, endpoint : Address]

(* What a task is at has its type; an answer names nodes, and what is      *)
(* being filed was asked for.                                              *)
Working(j, c) ==
  /\ j = Idle \/ j \in Job
  /\ c # Silent =>
       /\ j \in Job /\ c \in Call
       /\ c.at # "sent" => c.reply \in Reply /\ c.reply.listed \subseteq Entry
       /\ c.at = "stored" => c.verb = "describe_self"
  /\ WalkCounted(j, c)

(* Every task does.                                                        *)
WorkInv == \A t \in Task : Working(job[t], call[t])

(* A step of one task.                                                     *)
LEMMA OneWorks ==
  ASSUME IInv, WorkInv, NEW t \in Task, NEW j, NEW c, Working(j, c),
         job' = [job EXCEPT ![t] = j], call' = [call EXCEPT ![t] = c]
  PROVE  WorkInv'
<1>1. \A u \in Task : /\ job'[u] = IF u = t THEN j ELSE job[u]
                      /\ call'[u] = IF u = t THEN c ELSE call[u]
  BY DEF IInv, CallsInv
<1> QED
  BY <1>1, Zenon DEF WorkInv

(* A free task.                                                            *)
LEMMA IdleWorks == Working(Idle, Silent)
  BY DEF Working, WalkCounted, Idle

(* A job is not idle.                                                      *)
LEMMA JobKind ==
  ASSUME NEW j \in Job
  PROVE  j # Idle /\ j.kind # "idle"
  BY DEF Job, Idle

(* A call that is made.                                                    *)
LEMMA NewCallType ==
  ASSUME NEW v \in {"describe_self", "get_known_peers"}, NEW s \in Summary
  PROVE  /\ NewCall(v, s) \in Call
         /\ NewCall(v, s) # Silent
         /\ NewCall(v, s).at = "sent" /\ NewCall(v, s).verb = v
<1>1. NewCall(v, s) \in Call
  BY DEF NewCall, Call, Summary
<1>2. NewCall(v, s).at = "sent" /\ NewCall(v, s).verb = v
  BY DEF NewCall
<1>3. Silent.at = "silent"
  BY DEF Silent
<1> QED
  BY <1>1, <1>2, <1>3

(* There are no more hints than seeds.                                     *)
LEMMA HintsCounted ==
  ASSUME NEW es, IsFiniteSet(es)
  PROVE  /\ IsFiniteSet({Hint(e) : e \in es})
         /\ Cardinality({Hint(e) : e \in es}) <= Cardinality(es)
<1> DEFINE H == {Hint(e) : e \in es}
           f == [e \in es |-> Hint(e)]
<1>1. f \in Surjection(es, H)
  BY DEF Surjection
<1> HIDE DEF f
<1> QED
  BY <1>1, FS_Surjection

(* A job that begins, with its first call or none.                         *)
LEMMA NewWorks ==
  ASSUME NEW n \in Node, NEW k \in {"walk", "cascade", "refresh"},
         NEW f \in Seq(Address), NEW es \in SUBSET Address,
         k = "walk" => f = <<>> /\ IsFiniteSet(es),
         NEW c, c = Silent \/ (k # "walk" /\ \E s \in Summary : c = NewCall("describe_self", s))
  PROVE  Working(NewJob(k, n, f, es), c)
<1> DEFINE H == {Hint(e) : e \in es}
           j == NewJob(k, n, f, es)
<1>1. j = [kind |-> k, node |-> n, depth |-> 0, frontier |-> f, pending |-> H,
           next |-> <<>>, visited |-> {n}, total |-> 0, seeds |-> es]
  BY DEF NewJob
<1>2. H \in SUBSET Summary
  BY DEF Hint, Summary
<1> HIDE DEF H, j
<1>3. j \in Job
  BY <1>1, <1>2, BoundAssumption DEF Job
<1>4. c # Silent => /\ c \in Call /\ c.at = "sent"
  BY NewCallType
<1>5. WalkCounted(j, c)
  <2> SUFFICES ASSUME k = "walk" PROVE WalkCounted(j, c)
    BY <1>1 DEF WalkCounted
  <2>1. IsFiniteSet(H) /\ Cardinality(H) <= Cardinality(es)
    BY HintsCounted DEF H
  <2>2. Cardinality(H) \in Nat /\ Cardinality(es) \in Nat
    BY <2>1, FS_CardinalityType
  <2>3. /\ j.depth = 0 /\ j.pending = H /\ j.seeds = es /\ j.frontier = <<>> /\ j.total = 0
    BY <1>1
  <2> QED
    BY <2>1, <2>2, <2>3 DEF WalkCounted, Asking
<1>6. Working(j, c)
  BY <1>3, <1>4, <1>5 DEF Working
<1> QED
  BY <1>6 DEF j

(* What is asked for starts with no more hints than it has seeds.          *)
LEMMA BeginWorks ==
  ASSUME IInv, WorkInv, Begin
  PROVE  WorkInv'
<1>1. ASSUME NEW n \in Node, NEW k \in {"walk", "cascade"},
             NEW f \in Seq(Address), NEW es \in SUBSET Address,
             k = "walk" => f = <<>> /\ IsFiniteSet(es), Starts(k, n, f, es)
      PROVE  WorkInv'
  <2>1. PICK t \in FreeTask : job' = [job EXCEPT ![t] = NewJob(k, n, f, es)]
    BY <1>1 DEF Starts
  <2>2. t \in Task /\ job[t].kind = "idle"
    BY FreeIsIdle
  <2>3. call[t] = Silent
    BY <2>2, JobKind DEF WorkInv, Working
  <2>4. call' = [call EXCEPT ![t] = Silent]
    BY <1>1, <2>3 DEF Starts, IInv, CallsInv
  <2>5. Working(NewJob(k, n, f, es), Silent)
    BY <1>1, NewWorks
  <2> QED
    BY <2>1, <2>2, <2>4, <2>5, OneWorks
<1>2. ASSUME NEW n \in Node, NEW es \in Seeds, Bootstrap(n, es) PROVE WorkInv'
  <2>1. es \in SUBSET Address /\ IsFiniteSet(es)
    BY NetworkAssumption, FiniteAssumption
  <2>2. Starts("walk", n, <<>>, es) /\ <<>> \in Seq(Address)
    BY <1>2 DEF Bootstrap
  <2> QED
    BY <1>1, <2>1, <2>2
<1>3. ASSUME NEW n \in Node, DiscoverCapability(n) PROVE WorkInv'
  <2>1. PICK S \in SUBSET {p \in Node : Knows(n, p)} :
          \E f \in Order(S) : Starts("cascade", n, [i \in DOMAIN f |-> peers[n][f[i]].endpoint], {})
    BY <1>3 DEF DiscoverCapability
  <2>2. PICK f \in Order(S) : Starts("cascade", n, [i \in DOMAIN f |-> peers[n][f[i]].endpoint], {})
    BY <2>1
  <2>3. IsFiniteSet(S)
    BY FS_Subset, FiniteAssumption
  <2>4. Cardinality(S) \in Nat
    BY <2>3, FS_CardinalityType
  <2>5. f \in [1 .. Cardinality(S) -> S]
    BY <2>2 DEF Order
  <2>6. \A p \in S : peers[n][p].endpoint \in Address
    BY DEF IInv, RowsInv, Genuine, Row
  <2>7. [i \in DOMAIN f |-> peers[n][f[i]].endpoint] \in Seq(Address)
    BY <2>4, <2>5, <2>6
  <2> QED
    BY <1>1, <2>2, <2>7
<1>4. ASSUME NEW n \in Node, NEW e \in Address, Refresh(n, e) PROVE WorkInv'
  <2>1. PICK t \in FreeTask :
          /\ job' = [job EXCEPT ![t] = NewJob("refresh", n, <<>>, {})]
          /\ call' = [call EXCEPT ![t] = NewCall("describe_self", Hint(e))]
    BY <1>4 DEF Refresh
  <2>2. Hint(e) \in Summary
    BY DEF Hint, Summary
  <2>3. Working(NewJob("refresh", n, <<>>, {}), NewCall("describe_self", Hint(e)))
    <3>1. <<>> \in Seq(Address) /\ {} \in SUBSET Address
      OBVIOUS
    <3> QED
      BY <2>2, <3>1, NewWorks
  <2> QED
    BY <2>1, <2>3, FreeIsIdle, OneWorks
<1> QED
  BY <1>2, <1>3, <1>4 DEF Begin

-----------------------------------------------------------------------------
(* Calls under way *)

(* A call under way is that of a job.                                      *)
LEMMA UnderWay ==
  ASSUME WorkInv, NEW t \in Task, call[t].at # "silent"
  PROVE  /\ job[t] \in Job /\ call[t] \in Call /\ call[t] # Silent
         /\ Caller(t) \in Node /\ job[t].kind # "idle"
  BY JobKind DEF WorkInv, Working, Silent, Caller, Job

(* A call that goes on, its task where it was.                             *)
LEMMA CallWorks ==
  ASSUME IInv, WorkInv, NEW t \in Task, call[t].at # "silent",
         NEW c, call' = [call EXCEPT ![t] = c], UNCHANGED job,
         c \in Call, c # Silent, c.verb = call[t].verb,
         c.at # "sent", c.reply \in Reply, c.reply.listed \subseteq Entry,
         c.at = "stored" => c.verb = "describe_self"
  PROVE  WorkInv'
<1>1. job[t] \in Job /\ call[t] # Silent
  BY UnderWay
<1>2. WalkCounted(job[t], c)
  BY <1>1 DEF WorkInv, Working, WalkCounted, Asking
<1>3. Working(job[t], c)
  BY <1>1, <1>2 DEF Working
<1>4. job' = [job EXCEPT ![t] = job[t]]
  BY DEF IInv, CallsInv
<1> QED
  BY <1>3, <1>4, OneWorks

(* A directory lists nodes.                                                *)
LEMMA ListedEntries ==
  ASSUME IInv, NEW p \in Node
  PROVE  Listed(p) \subseteq Entry /\ ListedFor(p) \subseteq Entry
<1>1. \A q \in Node : Knows(p, q) => peers[p][q].endpoint \in Address
  BY DEF IInv, RowsInv, Genuine, Row
<1> QED
  BY <1>1 DEF Listed, ListedFor, Entry

(* The handler's answer.                                                   *)
LEMMA AnswerWorks ==
  ASSUME IInv, WorkInv, NEW t \in Task, Answer(t)
  PROVE  WorkInv'
<1> DEFINE listed(p) == CASE call[t].verb = "describe_self" -> {}
                          [] Running(t, "cascade") -> ListedFor(p)
                          [] OTHER -> Listed(p)
<1>1. call[t].at = "sent"
  BY DEF Answer, CallAt
<1>2. PICK p \in Dwellers(call[t].to) :
        call' = [call EXCEPT
                   ![t].reply = [id |-> p, alias |-> alias[p], listed |-> listed(p)],
                   ![t].at = IF Announces(t, p) THEN "answered" ELSE "replied",
                   ![t].knew = Announces(t, p) /\ Sighted(p, Caller(t))]
  BY DEF Answer
<1>3. p \in Node /\ alias[p] \in Node \cup {NoAlias}
  BY DEF Dwellers, IInv, AliasInv
<1>4. listed(p) \subseteq Entry
  BY <1>3, ListedEntries
<1> HIDE DEF listed
<1> DEFINE r == [id |-> p, alias |-> alias[p], listed |-> listed(p)]
           a == IF Announces(t, p) THEN "answered" ELSE "replied"
           k == Announces(t, p) /\ Sighted(p, Caller(t))
           c == [call[t] EXCEPT !.reply = r, !.at = a, !.knew = k]
<1>5. r \in Reply /\ r.listed \subseteq Entry
  BY <1>3, <1>4 DEF Reply, Entry, Summary
<1>6. a \in {"answered", "replied"} /\ k \in BOOLEAN
  BY DEF Announces, Sighted, Knows
<1>7. call' = [call EXCEPT ![t] = c]
  BY <1>2 DEF IInv, CallsInv
<1> HIDE DEF r, a, k
<1>8. call[t] \in Call
  BY <1>1, UnderWay
<1>9. c \in Call /\ c.verb = call[t].verb /\ c.at = a /\ c.reply = r
  BY <1>5, <1>6, <1>8 DEF Call
<1>10. c # Silent
  BY <1>6, <1>9 DEF Silent
<1> HIDE DEF c
<1> QED
  BY <1>1, <1>5, <1>6, <1>7, <1>9, <1>10, CallWorks DEF Answer

(* A call that only moves on.                                              *)
LEMMA GoesWorks ==
  ASSUME IInv, WorkInv, NEW t \in Task, NEW at \in {"replied", "stored"}, CallGoes(t, at),
         UNCHANGED job, call[t].at \notin {"silent", "sent"},
         at = "stored" => call[t].verb = "describe_self"
  PROVE  WorkInv'
<1> DEFINE c == [call[t] EXCEPT !.at = at]
<1>1. call[t] \in Call /\ call[t].reply \in Reply /\ call[t].reply.listed \subseteq Entry
  BY UnderWay DEF WorkInv, Working
<1>2. c \in Call /\ c.at = at /\ c.verb = call[t].verb /\ c.reply = call[t].reply
  BY <1>1 DEF Call
<1>3. call' = [call EXCEPT ![t] = c]
  BY DEF CallGoes, IInv, CallsInv
<1>4. c # Silent
  BY <1>2 DEF Silent
<1> HIDE DEF c
<1> QED
  BY <1>1, <1>2, <1>3, <1>4, CallWorks

(* The caller's call goes on, and a free task may be sent to pull.         *)
LEMMA AnnounceWorks ==
  ASSUME IInv, WorkInv, NEW t \in Task, Announce(t)
  PROVE  WorkInv'
<1>1. call[t].at = "answered"
  BY DEF Announce, CallAt
<1>2. CASE ~PullsBack(t)
  BY <1>1, <1>2, GoesWorks DEF Announce
<1>3. CASE PullsBack(t)
  <2> DEFINE j == NewJob("refresh", call[t].reply.id, <<>>, {})
             d == NewCall("describe_self", Hint(Home[Caller(t)]))
             c == [call[t] EXCEPT !.at = "replied"]
  <2>1. PICK u \in FreeTask :
          /\ job' = [job EXCEPT ![u] = j]
          /\ call' = [call EXCEPT ![t].at = "replied", ![u] = d]
    BY <1>3 DEF Announce
  <2>2. call[t] \in Call /\ job[t] \in Job /\ Caller(t) \in Node /\ job[t].kind # "idle"
    BY <1>1, UnderWay
  <2>3. u \in Task /\ u # t
    BY <2>2, FreeIsIdle
  <2>4. Working(j, d)
    <3>1. call[t].reply.id \in Node
      BY <1>1 DEF IInv, CallsInv, Sound
    <3>2. Hint(Home[Caller(t)]) \in Summary
      BY <2>2, HomeIsPlace DEF Hint, Summary
    <3>3. <<>> \in Seq(Address) /\ {} \in SUBSET Address
      OBVIOUS
    <3> QED
      BY <3>1, <3>2, <3>3, NewWorks
  <2>5. Working(job[t], c)
    <3>1. c \in Call /\ c.at = "replied" /\ c.verb = call[t].verb /\ c.reply = call[t].reply
      BY <2>2 DEF Call
    <3>2. c # Silent /\ call[t] # Silent
      BY <1>1, <3>1 DEF Silent
    <3> HIDE DEF c
    <3>3. Working(job[t], call[t])
      BY DEF WorkInv
    <3>4. WalkCounted(job[t], c)
      BY <3>1, <3>2, <3>3 DEF Working, WalkCounted, Asking
    <3> QED
      BY <1>1, <2>2, <3>1, <3>2, <3>3, <3>4 DEF Working
  <2>6. \A v \in Task : /\ job'[v] = IF v = u THEN j ELSE job[v]
                        /\ call'[v] = IF v = u THEN d ELSE IF v = t THEN c ELSE call[v]
    BY <2>1, <2>3 DEF IInv, CallsInv
  <2> HIDE DEF j, d, c
  <2> QED
    BY <2>3, <2>4, <2>5, <2>6 DEF WorkInv
<1> QED
  BY <1>2, <1>3

(* A call is over.                                                         *)
LEMMA ClosesWorks ==
  ASSUME IInv, WorkInv, NEW t \in Task, NEW j, Closes(t, j), Working(j, Silent)
  PROVE  WorkInv'
  BY IdleWorks, OneWorks DEF Closes

(* A call that fails leaves its walk with one peer fewer to come.          *)
LEMMA BreaksOff ==
  ASSUME IInv, WorkInv, NEW t \in Task, call[t].at # "silent", Closes(t, job[t])
  PROVE  WorkInv'
<1>1. job[t] \in Job /\ call[t] # Silent /\ Working(job[t], call[t])
  BY UnderWay DEF WorkInv
<1>2. WalkCounted(job[t], Silent)
  <2> SUFFICES ASSUME job[t].kind = "walk", job[t].depth = 0
               PROVE  job[t].total + Cardinality(job[t].pending) + 0 <= Cardinality(job[t].seeds)
    BY <1>1 DEF Working, WalkCounted, Asking
  <2>1. IsFiniteSet(job[t].pending) /\ IsFiniteSet(job[t].seeds) /\ job[t].total \in Nat
    BY <1>1 DEF Working, WalkCounted, Job
  <2>2. Cardinality(job[t].pending) \in Nat /\ Cardinality(job[t].seeds) \in Nat
    BY <2>1, FS_CardinalityType
  <2> QED
    BY <1>1, <2>1, <2>2 DEF Working, WalkCounted, Asking
<1>3. Working(job[t], Silent)
  BY <1>1, <1>2 DEF Working
<1> QED
  BY <1>3, ClosesWorks

(* The peer that answered is counted: it was among the seeds to come, or   *)
(* there was room for it.                                                  *)
LEMMA RefreshedWorks ==
  ASSUME IInv, WorkInv, NEW t \in Task, Refreshed(t),
         call[t].at \notin {"silent", "sent"}, call[t].verb = "describe_self"
  PROVE  WorkInv'
<1> DEFINE J == job[t]
           seen == IF J.depth = 0 THEN J.visited \cup {call[t].reply.id} ELSE J.visited
           next == Append(J.next, call[t].to)
           j == [J EXCEPT !.total = @ + 1, !.next = next, !.visited = seen]
<1>1. J \in Job /\ call[t] \in Call /\ call[t] # Silent /\ Working(J, call[t])
  BY UnderWay DEF WorkInv
<1>2. Closes(t, j)
  <2>1. j = [J EXCEPT !.total = @ + 1, !.next = Append(@, call[t].to),
                      !.visited = IF J.depth = 0 THEN @ \cup {call[t].reply.id} ELSE @]
    BY <1>1 DEF Job
  <2> HIDE DEF j
  <2> QED
    BY <2>1 DEF Refreshed
<1>3. seen \in SUBSET Node
  BY <1>1 DEF Working, Job, Reply
<1>4. next \in Seq(Address)
  BY <1>1 DEF Job, Call
<1> HIDE DEF J, seen, next
<1>5. /\ j \in Job /\ j.kind = J.kind /\ j.depth = J.depth /\ j.pending = J.pending
      /\ j.seeds = J.seeds /\ j.frontier = J.frontier /\ j.total = J.total + 1
  <2>1. J.total + 1 \in Nat
    BY <1>1 DEF Job
  <2>2. j \in Job
    BY <1>1, <1>3, <1>4, <2>1 DEF Job
  <2>3. /\ j.kind = J.kind /\ j.depth = J.depth /\ j.pending = J.pending
        /\ j.seeds = J.seeds /\ j.frontier = J.frontier /\ j.total = J.total + 1
    BY <1>1 DEF Job
  <2> QED
    BY <2>2, <2>3
<1> HIDE DEF j
<1>6. Asking(call[t])
  BY <1>1 DEF Asking
<1>7. J.total \in Nat
  BY <1>1 DEF Job
<1>8. ASSUME j.kind = "walk", j.depth = 0
      PROVE  /\ IsFiniteSet(j.pending) /\ IsFiniteSet(j.seeds) /\ j.frontier = <<>>
             /\ j.total + Cardinality(j.pending) + 0 <= Cardinality(j.seeds)
  <2>1. /\ IsFiniteSet(J.pending) /\ IsFiniteSet(J.seeds) /\ J.frontier = <<>>
        /\ J.total + Cardinality(J.pending) + 1 <= Cardinality(J.seeds)
    BY <1>1, <1>5, <1>6, <1>8 DEF Working, WalkCounted
  <2>2. Cardinality(J.pending) \in Nat /\ Cardinality(J.seeds) \in Nat
    BY <2>1, FS_CardinalityType
  <2> QED
    BY <1>5, <1>7, <2>1, <2>2
<1>9. j.kind = "walk" /\ j.depth # 0 => j.total <= MaxPeers
  BY <1>1, <1>5, <1>6, <1>7, BoundAssumption DEF Working, WalkCounted
<1>10. WalkCounted(j, Silent)
  BY <1>8, <1>9 DEF WalkCounted, Asking
<1>11. Working(j, Silent)
  BY <1>5, <1>10 DEF Working
<1> QED
  BY <1>2, <1>11, ClosesWorks

(* Hints are only listened to below the seeds, where the cap holds.        *)
LEMMA ListenWorks ==
  ASSUME IInv, WorkInv, NEW t \in Task, Listen(t)
  PROVE  WorkInv'
<1> DEFINE J == job[t]
           fresh == {s \in call[t].reply.listed : s.id \notin J.visited}
           seen == IF Running(t, "walk") THEN J.visited \cup {s.id : s \in fresh} ELSE J.visited
           j == [J EXCEPT !.pending = fresh, !.visited = seen]
<1>1. call[t].at = "replied" /\ call[t].verb = "get_known_peers"
  BY DEF Listen, CallAt
<1>2. J \in Job /\ call[t] # Silent /\ Working(J, call[t])
  BY <1>1, UnderWay DEF WorkInv
<1>3. Closes(t, j)
  <2>1. j = [J EXCEPT !.pending = fresh,
                      !.visited = IF Running(t, "walk") THEN @ \cup {s.id : s \in fresh} ELSE @]
    BY <1>2 DEF Job
  <2> HIDE DEF j
  <2> QED
    BY <2>1 DEF Listen
<1>4. fresh \in SUBSET Entry /\ fresh \in SUBSET Summary
  BY <1>1, <1>2 DEF Working, Entry, Summary
<1>5. seen \in SUBSET Node
  <2>1. {s.id : s \in fresh} \in SUBSET Node
    BY <1>4 DEF Entry
  <2> HIDE DEF fresh
  <2> QED
    BY <1>2, <2>1 DEF Job
<1> HIDE DEF J, fresh, seen
<1>6. j \in Job /\ j.kind = J.kind /\ j.depth = J.depth /\ j.total = J.total
  BY <1>2, <1>4, <1>5 DEF Job
<1> HIDE DEF j
<1>7. WalkCounted(j, Silent)
  <2>1. j.kind = "walk" => j.depth # 0 /\ j.total <= MaxPeers
    BY <1>1, <1>2, <1>6 DEF Working, WalkCounted, Asking
  <2> QED
    BY <2>1 DEF WalkCounted, Asking
<1>8. Working(j, Silent)
  BY <1>6, <1>7 DEF Working
<1> QED
  BY <1>3, <1>8, ClosesWorks

-----------------------------------------------------------------------------
(* The next call *)

(* A hint that is followed is no longer to come.                           *)
LEMMA VisitWorks ==
  ASSUME IInv, WorkInv, NEW t \in Task, Visit(t)
  PROVE  WorkInv'
<1> DEFINE J == job[t]
<1>1. J.kind # "idle" /\ call[t] = Silent /\ Room(J)
  BY DEF Visit, Ready, Running
<1>2. J \in Job /\ Working(J, Silent)
  BY <1>1 DEF WorkInv, Working, Idle
<1>3. PICK s \in J.pending :
        /\ job' = [job EXCEPT ![t].pending = @ \ {s}]
        /\ \/ call' = call
              /\ Running(t, "cascade")
           \/ call' = [call EXCEPT ![t] = NewCall("describe_self", s)]
  BY DEF Visit, Calls
<1> DEFINE j == [J EXCEPT !.pending = @ \ {s}]
<1>4. s \in Summary
  BY <1>2 DEF Job
<1>5. job' = [job EXCEPT ![t] = j]
  BY <1>3 DEF IInv, CallsInv
<1>6. Running(t, "cascade") => J.kind = "cascade"
  BY DEF Running
<1>7. Room(J) /\ J.kind = "walk" => J.depth = 0 \/ J.total < MaxPeers
  BY DEF Room
<1> HIDE DEF J
<1>8. /\ j \in Job /\ j.kind = J.kind /\ j.depth = J.depth /\ j.pending = J.pending \ {s}
      /\ j.seeds = J.seeds /\ j.frontier = J.frontier /\ j.total = J.total
  BY <1>2 DEF Job
<1> HIDE DEF j
<1>9. CASE call' = call /\ Running(t, "cascade")
  <2>1. Working(j, Silent)
    BY <1>8, <1>9, <1>6 DEF Working, WalkCounted
  <2>2. call' = [call EXCEPT ![t] = Silent]
    BY <1>1, <1>9 DEF IInv, CallsInv
  <2> QED
    BY <1>5, <2>1, <2>2, OneWorks
<1>10. CASE call' = [call EXCEPT ![t] = NewCall("describe_self", s)]
  <2> DEFINE c == NewCall("describe_self", s)
  <2>1. c \in Call /\ c # Silent /\ c.at = "sent" /\ c.verb = "describe_self"
    BY <1>4, NewCallType
  <2> HIDE DEF c
  <2>2. Asking(c)
    BY <2>1 DEF Asking
  <2>3. ASSUME j.kind = "walk", j.depth = 0
        PROVE  /\ IsFiniteSet(j.pending) /\ IsFiniteSet(j.seeds) /\ j.frontier = <<>>
               /\ j.total + Cardinality(j.pending) + 1 <= Cardinality(j.seeds)
    <3>1. /\ IsFiniteSet(J.pending) /\ IsFiniteSet(J.seeds) /\ J.frontier = <<>>
          /\ J.total + Cardinality(J.pending) + 0 <= Cardinality(J.seeds)
      BY <1>2, <1>8, <2>3 DEF Working, WalkCounted, Asking
    <3>2. Cardinality(J.pending) \in Nat /\ Cardinality(J.seeds) \in Nat /\ J.total \in Nat
      BY <1>2, <3>1, FS_CardinalityType DEF Job
    <3>3. IsFiniteSet(j.pending) /\ Cardinality(j.pending) = Cardinality(J.pending) - 1
      BY <1>3, <1>8, <3>1, FS_RemoveElement
    <3> QED
      BY <1>8, <3>1, <3>2, <3>3
  <2>4. j.kind = "walk" /\ j.depth # 0 => j.total <= MaxPeers /\ j.total < MaxPeers
    BY <1>1, <1>2, <1>8, <1>7 DEF Working, WalkCounted
  <2>5. WalkCounted(j, c)
    BY <2>2, <2>3, <2>4 DEF WalkCounted
  <2>6. Working(j, c)
    BY <1>8, <2>1, <2>5 DEF Working
  <2> QED
    BY <1>5, <1>10, <2>6, OneWorks DEF c
<1> QED
  BY <1>3, <1>9, <1>10

(* The level below is that of a walk with room.                            *)
LEMMA LevelWorks ==
  ASSUME NEW j, j \in Job, Working(j, Silent)
  PROVE  /\ Level(j) \in Job
         /\ Working(Level(j), Silent)
<1>1. CASE j.frontier = <<>> /\ Descends(j)
  <2> DEFINE k == [j EXCEPT !.depth = @ + 1, !.frontier = j.next, !.next = <<>>]
  <2>1. j.depth + 1 \in 0 .. MaxDepth /\ j.depth + 1 # 0 /\ j.total < MaxPeers /\ j.total \in Nat
    BY <1>1, BoundAssumption DEF Descends, Job
  <2>2. <<>> \in Seq(Address) /\ j.next \in Seq(Address)
    BY DEF Job
  <2>3. k \in Job /\ k.depth = j.depth + 1 /\ k.total = j.total
    BY <2>1, <2>2 DEF Job
  <2>4. Level(j) = k
    BY <1>1 DEF Level
  <2> HIDE DEF k
  <2>5. WalkCounted(k, Silent)
    BY <2>1, <2>3, BoundAssumption DEF WalkCounted, Asking
  <2> QED
    BY <2>3, <2>4, <2>5 DEF Working
<1>2. CASE ~(j.frontier = <<>> /\ Descends(j))
  BY <1>2 DEF Level
<1> QED
  BY <1>1, <1>2

(* The next peer of the frontier is asked for its peers.                   *)
LEMMA AskWorks ==
  ASSUME IInv, WorkInv, NEW t \in Task, Ask(t)
  PROVE  WorkInv'
<1> DEFINE k == Level(job[t])
           j == [k EXCEPT !.frontier = Tail(@), !.pending = {}]
           s == Hint(Head(k.frontier))
           c == NewCall("get_known_peers", s)
<1>1. job[t] \in Job /\ Working(job[t], Silent)
  BY DEF Ask, HintsDone, Ready, Running, WorkInv, Working, Idle
<1>2. /\ k.frontier # <<>>
      /\ job' = [job EXCEPT ![t] = j]
      /\ call' = [call EXCEPT ![t] = c]
  BY DEF Ask, Calls
<1>3. k \in Job /\ Working(k, Silent)
  BY <1>1, LevelWorks
<1> HIDE DEF k
<1>4. Tail(k.frontier) \in Seq(Address) /\ Head(k.frontier) \in Address
  BY <1>2, <1>3 DEF Job
<1>5. s \in Summary
  BY <1>4 DEF Hint, Summary
<1> HIDE DEF s
<1>6. c \in Call /\ c # Silent /\ c.at = "sent" /\ c.verb = "get_known_peers"
  BY <1>5, NewCallType
<1>7. j \in Job /\ j.kind = k.kind /\ j.depth = k.depth /\ j.total = k.total
  BY <1>3, <1>4 DEF Job
<1> HIDE DEF j, c
<1>8. WalkCounted(j, c)
  BY <1>2, <1>3, <1>6, <1>7 DEF Working, WalkCounted, Asking
<1>9. Working(j, c)
  BY <1>6, <1>7, <1>8 DEF Working
<1> QED
  BY <1>2, <1>9, OneWorks

(* A job that is done.                                                     *)
LEMMA EndWorks ==
  ASSUME IInv, WorkInv, NEW t \in Task, End(t)
  PROVE  WorkInv'
<1>1. call[t] = Silent
  BY DEF End, HintsDone, Ready
<1>2. call' = [call EXCEPT ![t] = Silent]
  BY <1>1 DEF End, IInv, CallsInv
<1> QED
  BY <1>2, IdleWorks, OneWorks DEF End

(* Every step keeps the types of jobs and calls.                           *)
LEMMA WorkStep == IInv /\ WorkInv /\ [Next]_vars => WorkInv'
<1> SUFFICES ASSUME IInv, WorkInv, [Next]_vars PROVE WorkInv'
  OBVIOUS
<1>1. CASE Begin
  BY <1>1, BeginWorks
<1>2. ASSUME NEW t \in Task, Proceed(t) PROVE WorkInv'
  <2>1. CASE AnnounceFails(t)
    BY <2>1, GoesWorks DEF AnnounceFails, CallAt
  <2>2. CASE Store(t)
    BY <2>2, GoesWorks DEF Store, Describes, CallAt
  <2>3. CASE Fails(t) \/ SetAliasFails(t)
    BY <2>3, BreaksOff DEF Fails, SetAliasFails, CallAt
  <2>4. CASE Self(t)
    BY <2>4, RefreshedWorks DEF Self, Describes, CallAt
  <2>5. CASE SetAlias(t)
    <3>1. call[t].at = "stored" /\ Refreshed(t)
      BY <2>5 DEF SetAlias, CallAt
    <3>2. call[t].verb = "describe_self"
      BY <3>1, UnderWay DEF WorkInv, Working
    <3> QED
      BY <3>1, <3>2, RefreshedWorks
  <2> QED
    BY <1>2, <2>1, <2>2, <2>3, <2>4, <2>5, AnswerWorks, AnnounceWorks, ListenWorks,
       VisitWorks, AskWorks, EndWorks DEF Proceed
<1>3. CASE UNCHANGED <<job, call>>
  BY <1>3 DEF WorkInv
<1> QED
  BY <1>1, <1>2, <1>3 DEF Next, Rename, Forget, vars

(* All tasks are free at the start.                                        *)
LEMMA WorkInit == Init => WorkInv
  BY IdleWorks DEF Init, WorkInv

(* The counters of the bounds and the histories.                           *)
HistoryOK ==
  /\ starts \in 0 .. MaxStarts /\ events \in 0 .. MaxEvents
  /\ born \subseteq Node \X Node /\ blurred \subseteq Node \X Node

(* Blurred are rows of nodes at nodes.                                     *)
LEMMA BlurType ==
  ASSUME IInv, WorkInv, NEW t \in Task, blurred \subseteq Node \X Node, Blur(t),
         call[t].at \in {"replied", "stored"}
  PROVE  blurred' \subseteq Node \X Node
<1>1. Caller(t) \in Node /\ Subject(t) \in Node
  BY UnderWay DEF IInv, CallsInv, Sound, Subject
<1> QED
  BY <1>1 DEF Blur

(* Counters stay within their bounds, histories speak of nodes.            *)
LEMMA HistoryStep ==
  ASSUME IInv, WorkInv, HistoryOK, [Next]_vars
  PROVE  HistoryOK'
<1>1. Asked => starts' \in 0 .. MaxStarts
  BY BoundAssumption DEF Asked, HistoryOK
<1>2. Event => events' \in 0 .. MaxEvents
  BY BoundAssumption DEF Event, HistoryOK
<1>3. CASE Begin
  BY <1>1, <1>3 DEF Begin, Bootstrap, DiscoverCapability, Refresh, Starts, history, HistoryOK
<1>4. ASSUME NEW t \in Task, Proceed(t) PROVE HistoryOK'
  <2>1. CASE Store(t)
    BY <2>1, BlurType DEF Store, Describes, CallAt, bounds, HistoryOK
  <2>2. CASE SetAliasFails(t)
    BY <1>2, <2>2, BlurType DEF SetAliasFails, CallAt, HistoryOK
  <2>3. CASE Fails(t) \/ AnnounceFails(t)
    BY <1>2, <2>3 DEF Fails, AnnounceFails, history, HistoryOK
  <2>4. CASE UNCHANGED <<bounds, history>>
    BY <2>4 DEF bounds, history, HistoryOK
  <2> QED
    BY <1>4, <2>1, <2>2, <2>3, <2>4
       DEF Proceed, Answer, Announce, Self, SetAlias, Listen, Visit, Ask, End
<1>5. ASSUME NEW n \in Node, Rename(n) \/ \E p \in Node : Forget(n, p) PROVE HistoryOK'
  BY <1>2, <1>5 DEF Rename, Forget, history, HistoryOK
<1>6. CASE UNCHANGED vars
  BY <1>6 DEF vars, bounds, history, HistoryOK
<1> QED
  BY <1>3, <1>4, <1>5, <1>6 DEF Next

(* Every variable keeps its type; in particular a walk counts no more      *)
(* peers than its cap, or than its seeds (bootstrap_from_seeds).           *)
THEOREM TypeCorrect == Spec => []TypeOK
<1>1. Init => HistoryOK
  BY BoundAssumption DEF Init, HistoryOK
<1>2. IInv /\ WorkInv /\ HistoryOK => TypeOK
  <2> SUFFICES ASSUME IInv, WorkInv, HistoryOK PROVE TypeOK
    OBVIOUS
  <2>1. alias \in [Node -> Node \cup {NoAlias}]
    BY DEF IInv, AliasInv
  <2>2. ASSUME NEW t \in Task, Running(t, "walk")
        PROVE  job[t].total <= MaxPeers \/ job[t].total <= Cardinality(job[t].seeds)
    <3>1. job[t] \in Job /\ job[t].kind = "walk" /\ WalkCounted(job[t], call[t])
      BY <2>2 DEF Running, WorkInv, Working, Idle
    <3>2. CASE job[t].depth # 0
      BY <3>1, <3>2 DEF WalkCounted
    <3>3. CASE job[t].depth = 0
      <4>1. IsFiniteSet(job[t].pending) /\ IsFiniteSet(job[t].seeds) /\ job[t].total \in Nat
        BY <3>1, <3>3 DEF WalkCounted, Job
      <4>2. Cardinality(job[t].pending) \in Nat /\ Cardinality(job[t].seeds) \in Nat
        BY <4>1, FS_CardinalityType
      <4> QED
        BY <3>1, <3>3, <4>1, <4>2 DEF WalkCounted
    <3> QED
      BY <3>2, <3>3
  <2> QED
    BY <2>1, <2>2 DEF TypeOK, IInv, RowsInv, WorkInv, Working, HistoryOK
<1>3. IInv /\ WorkInv /\ HistoryOK /\ [Next]_vars => HistoryOK'
  BY HistoryStep
<1> QED
  BY <1>1, <1>2, <1>3, InitInv, InvStep, WorkInit, WorkStep, PTL DEF Spec

-----------------------------------------------------------------------------
(* What a walk reaches *)

(* Job j was given p, or who is rightly known by somebody.                 *)
Seeded(j, p) == Home[p] \in j.seeds
Right(p) == \E q \in Node : <<q, p>> \in born
Met(j, p) == Seeded(j, p) \/ (Right(p) /\ p # j.node)

Members(s) == {s[i] : i \in DOMAIN s}

(* p is to be visited, or asked for its peers, at this level or the next.  *)
Coming(j, c, p) ==
  \/ \E s \in j.pending : s.endpoint = Home[p]
  \/ c # Silent /\ c.verb = "describe_self" /\ c.to = Home[p]
Queued(j, c, p) ==
  \/ Home[p] \in Members(j.frontier)
  \/ c # Silent /\ c.verb = "get_known_peers" /\ c.to = Home[p]
Queuing(j, p) == Home[p] \in Members(j.next)

(* The walk has seen whom p rightly knew.                                  *)
Heard(j, p) == \A r \in Node : <<p, r>> \in born => r \in j.visited

(* An answer tells of whom its sender rightly knew, and where they are.    *)
Told(c) ==
  /\ \A r \in Node : <<c.reply.id, r>> \in born => \E s \in c.reply.listed : s.id = r
  /\ \A s \in c.reply.listed : Right(s.id) => s.endpoint = Home[s.id]

(* Whom the walk has seen it has visited, and its node knows them (K), or  *)
(* will;  whom it has seen it has asked, or will.                          *)
Filed(j, c, K) ==
  \A p \in j.visited \ {j.node} : Right(p) \/ Seeded(j, p) => Coming(j, c, p) \/ p \in K
Followed(j, c) ==
  \A p \in j.visited : Met(j, p) =>
    Coming(j, c, p) \/ Queuing(j, p) \/ Queued(j, c, p) \/ Heard(j, p)
SeedsFollowed(j, c) ==
  \A p \in Node : Seeded(j, p) => Coming(j, c, p) \/ (p \in j.visited /\ Queuing(j, p))
Reached(j, c) ==
  \A p \in Within(j.node, j.seeds, j.depth - 1) :
    p \in j.visited /\ (Queued(j, c, p) \/ Heard(j, p))

Walked(j, c, K) ==
  /\ j.node \in j.visited
  /\ Filed(j, c, K)
  /\ Followed(j, c)
  /\ j.depth = 0 => SeedsFollowed(j, c)
  /\ j.depth # 0 => Reached(j, c)
  /\ c # Silent /\ c.verb = "get_known_peers" =>
       /\ j.pending = {}
       /\ c.at # "sent" => Told(c)
  /\ c # Silent /\ c.at = "stored" => c.reply.id \in K

(* The peers of n.                                                         *)
Roster(n) == {p \in Node : Knows(n, p)}

(* Who was rightly known stays known, and rightly.                         *)
RightInv ==
  \A q, p \in Node : <<q, p>> \in born =>
    /\ Knows(q, p)
    /\ \A m \in Node : Knows(m, p) => peers[m][p].endpoint = Home[p]

WalkedInv ==
  events = 0 =>
    /\ RightInv
    /\ \A t \in Task : Running(t, "walk") /\ job[t].total < MaxPeers
         => Walked(job[t], call[t], Roster(Caller(t)))

-----------------------------------------------------------------------------
(* The chains of Within *)

(* The seeds are at no distance.                                           *)
LEMMA SeedsWithin ==
  ASSUME NEW n \in Node, NEW es \in SUBSET Address, NEW d \in Nat, NEW p \in Node, Home[p] \in es
  PROVE  p \in Within(n, es, d)
<1> DEFINE f == [i \in 0 .. 0 |-> p]
<1>1. f \in [0 .. 0 -> Node] /\ f[0] = p /\ 0 \in 0 .. d
  OBVIOUS
<1>2. \A i \in 1 .. 0 : f[i] # n /\ <<f[i - 1], f[i]>> \in born
  OBVIOUS
<1> QED
  BY <1>1, <1>2 DEF Within

(* Who is within d + 1 steps is a seed, within d, or one step further.     *)
LEMMA WithinOneMore ==
  ASSUME NEW n \in Node, NEW es \in SUBSET Address, NEW d \in Nat,
         NEW p \in Within(n, es, d + 1)
  PROVE  \/ p \in Within(n, es, d)
         \/ p # n /\ \E r \in Within(n, es, d) : <<r, p>> \in born
<1>1. PICK k \in 0 .. d + 1 : \E f \in [0 .. k -> Node] :
        /\ Home[f[0]] \in es /\ f[k] = p
        /\ \A i \in 1 .. k : f[i] # n /\ <<f[i - 1], f[i]>> \in born
  BY DEF Within
<1>2. PICK f \in [0 .. k -> Node] :
        /\ Home[f[0]] \in es /\ f[k] = p
        /\ \A i \in 1 .. k : f[i] # n /\ <<f[i - 1], f[i]>> \in born
  BY <1>1
<1>3. CASE k # d + 1
  <2>1. k \in 0 .. d
    BY <1>3
  <2> QED
    BY <1>2, <2>1 DEF Within
<1>4. CASE k = d + 1
  <2> DEFINE g == [i \in 0 .. d |-> f[i]]
  <2>1. g \in [0 .. d -> Node] /\ g[0] = f[0] /\ g[d] = f[d] /\ d \in 0 .. d
    BY <1>4
  <2>2. \A i \in 1 .. d : g[i] # n /\ <<g[i - 1], g[i]>> \in born
    BY <1>2, <1>4
  <2>3. f[d] \in Within(n, es, d)
    <3> HIDE DEF g
    <3> QED
      BY <1>2, <2>1, <2>2 DEF Within
  <2>4. p # n /\ <<f[d], p>> \in born
    BY <1>2, <1>4
  <2> QED
    BY <2>3, <2>4
<1> QED
  BY <1>3, <1>4

(* Nobody but a seed is at no distance.                                    *)
LEMMA WithinZero ==
  ASSUME NEW n, NEW es, NEW p \in Within(n, es, 0)
  PROVE  p \in Node /\ Home[p] \in es
<1>1. PICK k \in 0 .. 0 : \E f \in [0 .. k -> Node] : Home[f[0]] \in es /\ f[k] = p
  BY DEF Within
<1> QED
  BY <1>1

(* A set of numbers has a least one, < being well-founded.                 *)
LEMMA LeastNumber ==
  ASSUME NEW T \in SUBSET Nat, T # {}
  PROVE  \E m \in T : \A k \in T : m <= k
<1> DEFINE R == {ss \in Nat \X Nat : ss[1] < ss[2]}
<1>1. IsWellFoundedOn(R, Nat)
  BY NatLessThanWellFounded DEF OpToRel
<1>2. \A x, y \in Nat : <<x, y>> \in R <=> x < y
  OBVIOUS
<1> HIDE DEF R
<1>3. PICK m \in T : \A k \in T : ~(<<k, m>> \in R)
  BY <1>1, WFMin
<1>4. \A k \in T : ~(k < m)
  BY <1>2, <1>3
<1> QED
  BY <1>2, <1>3, <1>4

(* A set with the seeds, and with whoever its members knew, has all that   *)
(* is within any distance.                                                 *)
LEMMA WithinClosed ==
  ASSUME NEW n \in Node, NEW es, NEW d \in Nat, NEW V,
         \A p \in Node : Home[p] \in es => p \in V,
         \A p \in V, r \in Node :
           <<p, r>> \in born /\ (Home[p] \in es \/ (Right(p) /\ p # n)) => r \in V,
         NEW p \in Within(n, es, d)
  PROVE  p \in V
<1>1. PICK k \in 0 .. d : \E f \in [0 .. k -> Node] :
        /\ Home[f[0]] \in es /\ f[k] = p
        /\ \A i \in 1 .. k : f[i] # n /\ <<f[i - 1], f[i]>> \in born
  BY DEF Within
<1>2. PICK f \in [0 .. k -> Node] :
        /\ Home[f[0]] \in es /\ f[k] = p
        /\ \A i \in 1 .. k : f[i] # n /\ <<f[i - 1], f[i]>> \in born
  BY <1>1
<1> DEFINE T == {i \in 0 .. k : f[i] \notin V}
<1> SUFFICES ASSUME p \notin V PROVE FALSE
  OBVIOUS
<1>3. k \in T /\ T \in SUBSET Nat
  BY <1>2
<1>4. PICK m \in T : \A i \in T : m <= i
  BY <1>3, LeastNumber
<1>5. m # 0
  BY <1>2, <1>4
<1>6. m - 1 \in 0 .. k /\ m \in 1 .. k /\ ~(m <= m - 1)
  BY <1>4, <1>5
<1>7. f[m - 1] \in V /\ f[m - 1] \in Node /\ f[m] \in Node /\ <<f[m - 1], f[m]>> \in born
  BY <1>2, <1>4, <1>6
<1>8. Home[f[m - 1]] \in es \/ (Right(f[m - 1]) /\ f[m - 1] # n)
  <2>1. CASE m - 1 = 0
    BY <1>2, <2>1
  <2>2. CASE m - 1 # 0
    <3>1. m - 1 \in 1 .. k /\ m - 1 - 1 \in 0 .. k
      BY <1>6, <2>2
    <3>2. f[m - 1] # n /\ <<f[m - 1 - 1], f[m - 1]>> \in born
      BY <1>2, <3>1
    <3> QED
      BY <1>2, <3>1, <3>2 DEF Right
  <2> QED
    BY <2>1, <2>2
<1> QED
  BY <1>4, <1>7, <1>8

-----------------------------------------------------------------------------
(* A walk from one call to the next *)

(* Who is in a queue.                                                      *)
LEMMA MembersOf ==
  ASSUME NEW s \in Seq(Address)
  PROVE  /\ \A e \in Address : Members(Append(s, e)) = Members(s) \cup {e}
         /\ s # <<>> => Members(s) = {Head(s)} \cup Members(Tail(s))
<1>1. ASSUME NEW e \in Address PROVE Members(Append(s, e)) = Members(s) \cup {e}
  <2> DEFINE a == Append(s, e)
  <2>1. /\ Len(s) \in Nat /\ DOMAIN s = 1 .. Len(s) /\ DOMAIN a = 1 .. Len(s) + 1
        /\ a[Len(s) + 1] = e /\ \A i \in 1 .. Len(s) : a[i] = s[i]
    OBVIOUS
  <2> HIDE DEF a
  <2>2. /\ \A i \in 1 .. Len(s) + 1 : i \in 1 .. Len(s) \/ i = Len(s) + 1
        /\ Len(s) + 1 \in 1 .. Len(s) + 1 /\ 1 .. Len(s) \subseteq 1 .. Len(s) + 1
    BY <2>1
  <2>3. Members(a) = Members(s) \cup {e}
    BY <2>1, <2>2 DEF Members
  <2> QED
    BY <2>3 DEF a
<1>2. ASSUME s # <<>> PROVE Members(s) = {Head(s)} \cup Members(Tail(s))
  <2>1. /\ Len(s) \in Nat /\ Len(s) # 0 /\ DOMAIN s = 1 .. Len(s) /\ Head(s) = s[1]
        /\ DOMAIN Tail(s) = 1 .. Len(s) - 1
        /\ \A i \in 1 .. Len(s) - 1 : Tail(s)[i] = s[i + 1]
    BY <1>2
  <2>2. ASSUME NEW i \in 1 .. Len(s) PROVE s[i] \in {Head(s)} \cup Members(Tail(s))
    <3>1. CASE i = 1
      BY <2>1, <3>1
    <3>2. CASE i # 1
      <4>1. i - 1 \in 1 .. Len(s) - 1 /\ Tail(s)[i - 1] = s[i]
        BY <2>1, <3>2
      <4> QED
        BY <2>1, <4>1 DEF Members
    <3> QED
      BY <3>1, <3>2
  <2>3. Head(s) \in Members(s)
    BY <2>1 DEF Members
  <2>4. ASSUME NEW i \in 1 .. Len(s) - 1 PROVE Tail(s)[i] \in Members(s)
    <3>1. i + 1 \in 1 .. Len(s) /\ Tail(s)[i] = s[i + 1]
      BY <2>1
    <3> QED
      BY <2>1, <3>1 DEF Members
  <2>5. Members(s) \subseteq {Head(s)} \cup Members(Tail(s))
    BY <2>1, <2>2 DEF Members
  <2>6. Members(Tail(s)) \subseteq Members(s)
    BY <2>1, <2>4 DEF Members
  <2> QED
    BY <2>3, <2>5, <2>6
<1> QED
  BY <1>1, <1>2

(* A walk as it begins.                                                    *)
LEMMA NewWalked ==
  ASSUME NEW n \in Node, NEW es \in SUBSET Address, NEW K
  PROVE  Walked(NewJob("walk", n, <<>>, es), Silent, K)
<1> DEFINE j == NewJob("walk", n, <<>>, es)
<1>1. /\ j.node = n /\ j.depth = 0 /\ j.visited = {n} /\ j.seeds = es
      /\ j.pending = {Hint(e) : e \in es}
  BY DEF NewJob
<1> HIDE DEF j
<1>2. ASSUME NEW p \in Node, Seeded(j, p) PROVE Coming(j, Silent, p)
  <2>1. Hint(Home[p]) \in j.pending /\ Hint(Home[p]).endpoint = Home[p]
    BY <1>1, <1>2 DEF Seeded, Hint
  <2> QED
    BY <2>1 DEF Coming
<1>3. Walked(j, Silent, K)
  BY <1>1, <1>2 DEF Walked, Filed, Followed, SeedsFollowed, Met
<1> QED
  BY <1>3 DEF j

(* The directory grows.                                                    *)
LEMMA WalkedGrows ==
  ASSUME NEW j, NEW c, NEW K, NEW L, K \subseteq L, Walked(j, c, K)
  PROVE  Walked(j, c, L)
  BY DEF Walked, Filed

(* The call goes on.                                                       *)
LEMMA WalkedCall ==
  ASSUME NEW j, NEW c \in Call, NEW d \in Call, NEW K, NEW L, K \subseteq L, Walked(j, c, K),
         c # Silent, d # Silent, d.verb = c.verb, d.to = c.to,
         d.verb = "get_known_peers" /\ d.at # "sent" => Told(d),
         d.at = "stored" => d.reply.id \in L
  PROVE  Walked(j, d, L)
<1>1. /\ \A p : Coming(j, d, p) <=> Coming(j, c, p)
      /\ \A p : Queued(j, d, p) <=> Queued(j, c, p)
  BY DEF Coming, Queued
<1> QED
  BY <1>1 DEF Walked, Filed, Followed, SeedsFollowed, Reached

(* The call reached nobody.                                                *)
LEMMA WalkedNobody ==
  ASSUME NEW j, NEW c, NEW K, Walked(j, c, K), Dwellers(c.to) = {}, j.visited \subseteq Node
  PROVE  Walked(j, Silent, K)
<1>1. \A p \in Node : /\ Coming(j, c, p) => Coming(j, Silent, p)
                      /\ Queued(j, c, p) => Queued(j, Silent, p)
  BY DEF Coming, Queued, Dwellers
<1>2. \A p \in j.visited : p \in Node
  OBVIOUS
<1>3. Filed(j, Silent, K) /\ Followed(j, Silent)
  BY <1>1, <1>2 DEF Walked, Filed, Followed
<1>4. j.depth = 0 => SeedsFollowed(j, Silent)
  BY <1>1 DEF Walked, SeedsFollowed
<1>5. j.depth # 0 => Reached(j, Silent)
  BY <1>1, <1>2 DEF Walked, Reached
<1> QED
  BY <1>3, <1>4, <1>5 DEF Walked

(* A peer was visited: q, who lives where the call went, is filed, unless  *)
(* it is the walk's own node, and will be asked.                           *)
LEMMA WalkedRefreshed ==
  ASSUME NEW J \in Job, NEW c \in Call, NEW K, NEW L, K \subseteq L, Walked(J, c, K),
         c # Silent, c.verb = "describe_self",
         NEW q \in Node, Home[q] = c.to, q = J.node \/ q \in L,
         NEW j \in Job, j.node = J.node, j.depth = J.depth, j.seeds = J.seeds,
         j.frontier = J.frontier, j.pending = J.pending, j.next = Append(J.next, c.to),
         j.visited = IF J.depth = 0 THEN J.visited \cup {q} ELSE J.visited
  PROVE  Walked(j, Silent, L)
<1>0. J.visited \subseteq j.visited /\ j.visited \subseteq J.visited \cup {q} /\ j.visited \subseteq Node
  BY DEF Job
<1>1. Members(j.next) = Members(J.next) \cup {Home[q]}
  <2>1. J.next \in Seq(Address) /\ c.to \in Address
    BY DEF Job, Call
  <2> QED
    BY <2>1, MembersOf
<1>2. \A p \in Node : Home[p] = c.to => p = q
  BY HomeAssumption
<1>3. \A p \in Node : /\ Coming(J, c, p) => p = q \/ Coming(j, Silent, p)
                      /\ Queuing(J, p) => Queuing(j, p)
                      /\ Queued(J, c, p) => Queued(j, Silent, p)
                      /\ Heard(J, p) => Heard(j, p)
                      /\ Seeded(j, p) <=> Seeded(J, p)
                      /\ Met(j, p) <=> Met(J, p)
  BY <1>0, <1>1, <1>2 DEF Coming, Queuing, Queued, Heard, Seeded, Met
<1>4. Queuing(j, q)
  BY <1>1 DEF Queuing
<1>5. Filed(j, Silent, L)
  BY <1>0, <1>3 DEF Walked, Filed
<1>6. Followed(j, Silent)
  BY <1>0, <1>3, <1>4 DEF Walked, Followed
<1>7. j.depth = 0 => SeedsFollowed(j, Silent)
  BY <1>0, <1>3, <1>4 DEF Walked, SeedsFollowed
<1>8. j.depth # 0 => Reached(j, Silent)
  BY <1>0, <1>3 DEF Walked, Reached
<1> QED
  BY <1>0, <1>5, <1>6, <1>7, <1>8 DEF Walked

(* A seed was visited among the seeds.                                     *)
LEMMA SeedsVisited ==
  ASSUME NEW j \in Job, NEW c, j.depth # 0, Reached(j, c), NEW p \in Node, Seeded(j, p)
  PROVE  p \in j.visited
<1>1. j.depth - 1 \in Nat /\ j.node \in Node /\ j.seeds \in SUBSET Address
  BY BoundAssumption DEF Job
<1>2. p \in Within(j.node, j.seeds, j.depth - 1)
  BY <1>1, SeedsWithin DEF Seeded
<1> QED
  BY <1>2 DEF Reached

(* A peer was asked for its peers: the new ones of its answer are to come. *)
LEMMA WalkedListened ==
  ASSUME NEW J \in Job, NEW c \in Call, NEW K, Walked(J, c, K), J.depth # 0,
         c # Silent, c.verb = "get_known_peers", c.at # "sent",
         NEW q \in Node, Home[q] = c.to, c.reply.id = q, c.reply.listed \subseteq Entry,
         NEW j \in Job, j.node = J.node, j.depth = J.depth, j.seeds = J.seeds,
         j.frontier = J.frontier, j.next = J.next,
         j.pending = {s \in c.reply.listed : s.id \notin J.visited},
         j.visited = J.visited \cup {s.id : s \in j.pending}
  PROVE  Walked(j, Silent, K)
<1>0. J.visited \subseteq j.visited /\ j.visited \subseteq Node
  BY DEF Job
<1>1. \A p \in Node : ~Coming(J, c, p)
  BY DEF Walked, Coming
<1>2. Told(c)
  BY DEF Walked
<1>3. Heard(j, q)
  BY <1>2 DEF Told, Heard
<1>4. \A p \in Node : Home[p] = c.to => p = q
  BY HomeAssumption
<1>5. \A p \in Node : /\ Queuing(J, p) => Queuing(j, p)
                      /\ Queued(J, c, p) => Queued(j, Silent, p) \/ Heard(j, p)
                      /\ Heard(J, p) => Heard(j, p)
                      /\ Seeded(j, p) <=> Seeded(J, p)
                      /\ Met(j, p) <=> Met(J, p)
  BY <1>0, <1>3, <1>4 DEF Queuing, Queued, Heard, Seeded, Met
<1>6. ASSUME NEW p \in j.visited, p \notin J.visited, Right(p) \/ Seeded(J, p)
      PROVE  Coming(j, Silent, p)
  <2>1. p \in Node /\ ~Seeded(J, p)
    BY <1>0, <1>6, SeedsVisited DEF Walked
  <2>2. PICK s \in j.pending : s.id = p
    BY <1>6
  <2>3. s.endpoint = Home[p]
    BY <1>2, <1>6, <2>1, <2>2 DEF Told
  <2> QED
    BY <2>2, <2>3 DEF Coming
<1>7. Filed(j, Silent, K)
  BY <1>0, <1>1, <1>5, <1>6 DEF Walked, Filed
<1>8. Followed(j, Silent)
  BY <1>0, <1>1, <1>5, <1>6 DEF Walked, Followed, Met
<1>9. Reached(j, Silent)
  BY <1>0, <1>5 DEF Walked, Reached
<1> QED
  BY <1>0, <1>7, <1>8, <1>9 DEF Walked

(* A hint is followed.                                                     *)
LEMMA WalkedVisits ==
  ASSUME NEW J \in Job, NEW K, Walked(J, Silent, K), NEW s \in J.pending,
         NEW c \in Call, c # Silent, c.at = "sent", c.verb = "describe_self", c.to = s.endpoint,
         NEW j \in Job, j.node = J.node, j.depth = J.depth, j.seeds = J.seeds,
         j.frontier = J.frontier, j.next = J.next, j.visited = J.visited,
         j.pending = J.pending \ {s}
  PROVE  Walked(j, c, K)
<1>1. \A p \in Node : /\ Coming(J, Silent, p) => Coming(j, c, p)
                      /\ Queued(J, Silent, p) => Queued(j, c, p)
  BY DEF Coming, Queued
<1>2. \A p \in Node : /\ Queuing(j, p) <=> Queuing(J, p)
                      /\ Heard(j, p) <=> Heard(J, p)
                      /\ Seeded(j, p) <=> Seeded(J, p)
                      /\ Met(j, p) <=> Met(J, p)
  BY DEF Queuing, Heard, Seeded, Met
<1>3. j.visited \subseteq Node
  BY DEF Job
<1>4. Filed(j, c, K)
  BY <1>1, <1>2, <1>3 DEF Walked, Filed
<1>5. Followed(j, c)
  BY <1>1, <1>2, <1>3 DEF Walked, Followed
<1>6. j.depth = 0 => SeedsFollowed(j, c)
  BY <1>1, <1>2 DEF Walked, SeedsFollowed
<1>7. j.depth # 0 => Reached(j, c)
  BY <1>1, <1>2, <1>3 DEF Walked, Reached
<1> QED
  BY <1>4, <1>5, <1>6, <1>7 DEF Walked

(* At the end of a level, whoever is one step further was visited.         *)
LEMMA LevelVisited ==
  ASSUME NEW j \in Job, NEW K, Walked(j, Silent, K), j.pending = {}, j.frontier = <<>>
  PROVE  \A p \in Within(j.node, j.seeds, j.depth) :
           p \in j.visited /\ (Queuing(j, p) \/ Heard(j, p))
<1> SUFFICES ASSUME NEW p \in Within(j.node, j.seeds, j.depth)
             PROVE  p \in j.visited /\ (Queuing(j, p) \/ Heard(j, p))
  OBVIOUS
<1>1. \A q : ~Coming(j, Silent, q) /\ ~Queued(j, Silent, q)
  BY DEF Coming, Queued, Members
<1>2. CASE j.depth = 0
  <2>1. p \in Node /\ Seeded(j, p)
    BY <1>2, WithinZero DEF Seeded
  <2> QED
    BY <1>1, <1>2, <2>1 DEF Walked, SeedsFollowed
<1>3. CASE j.depth # 0
  <2>1. /\ j.depth - 1 \in Nat /\ j.depth - 1 + 1 = j.depth
        /\ j.node \in Node /\ j.seeds \in SUBSET Address
    BY <1>3, BoundAssumption DEF Job
  <2>2. CASE p \in Within(j.node, j.seeds, j.depth - 1)
    BY <1>1, <1>3, <2>2 DEF Walked, Reached
  <2>3. CASE p \notin Within(j.node, j.seeds, j.depth - 1)
    <3>1. PICK r \in Within(j.node, j.seeds, j.depth - 1) : <<r, p>> \in born /\ p # j.node
      BY <2>1, <2>3, WithinOneMore
    <3>2. r \in Node /\ p \in Node
      BY DEF Within
    <3>3. p \in j.visited
      BY <1>1, <1>3, <3>1, <3>2 DEF Walked, Reached, Heard
    <3>4. Met(j, p)
      BY <3>1, <3>2 DEF Met, Right
    <3> QED
      BY <1>1, <3>3, <3>4 DEF Walked, Followed
  <2> QED
    BY <2>2, <2>3
<1> QED
  BY <1>2, <1>3

(* The next level.                                                         *)
LEMMA WalkedDescends ==
  ASSUME NEW J \in Job, NEW K, Walked(J, Silent, K), J.pending = {}, J.frontier = <<>>,
         NEW j \in Job, j.node = J.node, j.depth = J.depth + 1, j.seeds = J.seeds,
         j.frontier = J.next, j.visited = J.visited, j.pending = {}
  PROVE  Walked(j, Silent, K)
<1>1. \A p : ~Coming(J, Silent, p) /\ ~Queued(J, Silent, p)
  BY DEF Coming, Queued, Members
<1>2. \A p \in Node : /\ Queuing(J, p) => Queued(j, Silent, p)
                      /\ Heard(j, p) <=> Heard(J, p)
                      /\ Seeded(j, p) <=> Seeded(J, p)
                      /\ Met(j, p) <=> Met(J, p)
  BY DEF Queuing, Queued, Heard, Seeded, Met
<1>3. j.visited \subseteq Node
  BY DEF Job
<1>4. Filed(j, Silent, K)
  BY <1>1, <1>2, <1>3 DEF Walked, Filed
<1>5. Followed(j, Silent)
  BY <1>1, <1>2, <1>3 DEF Walked, Followed
<1>6. Reached(j, Silent) /\ j.depth # 0
  <2>1. J.depth \in Nat /\ J.depth + 1 - 1 = J.depth /\ J.depth + 1 # 0
    BY BoundAssumption DEF Job
  <2> QED
    BY <1>2, <1>3, <2>1, LevelVisited DEF Reached
<1> QED
  BY <1>4, <1>5, <1>6 DEF Walked

(* The head of the frontier is asked.                                      *)
LEMMA WalkedAsks ==
  ASSUME NEW J \in Job, NEW K, Walked(J, Silent, K), J.pending = {}, J.frontier # <<>>,
         NEW c \in Call, c # Silent, c.at = "sent", c.verb = "get_known_peers",
         c.to = Head(J.frontier),
         NEW j \in Job, j.node = J.node, j.depth = J.depth, j.seeds = J.seeds,
         j.frontier = Tail(J.frontier), j.next = J.next, j.visited = J.visited, j.pending = {}
  PROVE  Walked(j, c, K)
<1>1. Members(J.frontier) = {c.to} \cup Members(j.frontier)
  <2>1. J.frontier \in Seq(Address)
    BY DEF Job
  <2> QED
    BY <2>1, MembersOf
<1>2. \A p \in Node : /\ ~Coming(J, Silent, p)
                      /\ Queued(J, Silent, p) => Queued(j, c, p)
                      /\ Queuing(j, p) <=> Queuing(J, p)
                      /\ Heard(j, p) <=> Heard(J, p)
                      /\ Seeded(j, p) <=> Seeded(J, p)
                      /\ Met(j, p) <=> Met(J, p)
  BY <1>1 DEF Coming, Queued, Queuing, Heard, Seeded, Met
<1>3. j.visited \subseteq Node
  BY DEF Job
<1>4. Filed(j, c, K)
  BY <1>2, <1>3 DEF Walked, Filed
<1>5. Followed(j, c)
  BY <1>2, <1>3 DEF Walked, Followed
<1>6. j.depth = 0 => SeedsFollowed(j, c)
  BY <1>2 DEF Walked, SeedsFollowed
<1>7. j.depth # 0 => Reached(j, c)
  BY <1>2, <1>3 DEF Walked, Reached
<1> QED
  BY <1>4, <1>5, <1>6, <1>7 DEF Walked

(* The walk is over.                                                       *)
LEMMA WalkedAll ==
  ASSUME NEW j \in Job, NEW K, Walked(j, Silent, K), j.pending = {}, j.frontier = <<>>,
         j.next = <<>> \/ j.depth >= MaxDepth
  PROVE  \A p \in Within(j.node, j.seeds, MaxDepth) \ {j.node} : p \in K
<1>1. \A q : ~Coming(j, Silent, q) /\ ~Queued(j, Silent, q)
  BY DEF Coming, Queued, Members
<1>0. /\ j.node \in Node /\ j.seeds \in SUBSET Address /\ j.visited \subseteq Node
      /\ j.depth \in 0 .. MaxDepth
  BY DEF Job
<1>2. ASSUME NEW p \in Within(j.node, j.seeds, MaxDepth) PROVE p \in j.visited
  <2>1. CASE j.depth >= MaxDepth
    <3>1. j.depth = MaxDepth
      BY <1>0, <2>1, BoundAssumption
    <3> QED
      BY <1>2, <3>1, LevelVisited
  <2>2. CASE j.next = <<>>
    <3>1. \A q : ~Queuing(j, q)
      BY <2>2 DEF Queuing, Members
    <3>2. ASSUME NEW q \in Node, Home[q] \in j.seeds PROVE q \in j.visited
      BY <1>1, <3>1, <3>2, SeedsVisited DEF Walked, SeedsFollowed, Seeded
    <3>3. ASSUME NEW q \in j.visited, NEW r \in Node, <<q, r>> \in born,
                 Home[q] \in j.seeds \/ (Right(q) /\ q # j.node)
          PROVE  r \in j.visited
      BY <1>1, <3>1, <3>3 DEF Walked, Followed, Met, Seeded, Heard
    <3> QED
      <4> DEFINE V == j.visited
                 es == j.seeds
                 n == j.node
      <4>1. \A q \in Node : Home[q] \in es => q \in V
        BY <3>2
      <4>2. \A q \in V, r \in Node :
              <<q, r>> \in born /\ (Home[q] \in es \/ (Right(q) /\ q # n)) => r \in V
        BY <3>3
      <4>3. p \in Within(n, es, MaxDepth) /\ n \in Node /\ MaxDepth \in Nat
        BY <1>0, <1>2, BoundAssumption
      <4> HIDE DEF V, es, n
      <4>4. p \in V
        BY <4>1, <4>2, <4>3, WithinClosed
      <4> QED
        BY <4>4 DEF V
  <2> QED
    BY <2>1, <2>2
<1>3. ASSUME NEW p \in Within(j.node, j.seeds, MaxDepth), p # j.node
      PROVE  Right(p) \/ Seeded(j, p)
  <2>1. PICK k \in 0 .. MaxDepth : \E f \in [0 .. k -> Node] :
          /\ Home[f[0]] \in j.seeds /\ f[k] = p
          /\ \A i \in 1 .. k : f[i] # j.node /\ <<f[i - 1], f[i]>> \in born
    BY <1>3 DEF Within
  <2>2. PICK f \in [0 .. k -> Node] :
          /\ Home[f[0]] \in j.seeds /\ f[k] = p
          /\ \A i \in 1 .. k : f[i] # j.node /\ <<f[i - 1], f[i]>> \in born
    BY <2>1
  <2>3. CASE k = 0
    BY <2>2, <2>3 DEF Seeded
  <2>4. CASE k # 0
    <3>1. k \in 1 .. k /\ k - 1 \in 0 .. k
      BY <2>4, BoundAssumption
    <3> QED
      BY <2>2, <3>1 DEF Right
  <2> QED
    BY <2>3, <2>4
<1> QED
  BY <1>1, <1>2, <1>3 DEF Walked, Filed

-----------------------------------------------------------------------------
(* The steps *)

(* Who knew whom at the start is history.                                  *)
LEMMA BornStays == [Next]_vars => born' = born
  BY DEF Next, Begin, Bootstrap, DiscoverCapability, Refresh, Starts, Proceed, Answer, Announce,
         AnnounceFails, Fails, Self, Store, SetAlias, SetAliasFails, Listen, Visit, Ask, End,
         Rename, Forget, history, vars

(* Whoever writes a row of p writes where p is.                            *)
LEMMA RightStep ==
  ASSUME IInv, RightInv, events \in Nat, events' = 0, [Next]_vars
  PROVE  RightInv'
<1>1. ASSUME NEW q \in Node, NEW p \in Node, <<q, p>> \in born'
      PROVE  Knows(q, p) /\ Knows(q, p)'
             /\ \A m \in Node : Knows(m, p) => peers[m][p].endpoint = Home[p]
  BY <1>1, BornStays, RowsStep DEF RightInv
<1>2. ASSUME NEW m \in Node, NEW p \in Node, Knows(m, p)',
             Knows(m, p) => peers[m][p].endpoint = Home[p]
      PROVE  peers'[m][p].endpoint = Home[p]
  <2>1. peers[m][p] # NoRow => peers[m][p] \in Row
    BY DEF IInv, RowsInv
  <2>2. ASSUME NEW t \in Task, Store(t), Caller(t) = m, Subject(t) = p
        PROVE  peers'[m][p].endpoint = Home[p]
    <3>1. call[t].to = Home[p]
      BY <2>2 DEF Store, Describes, CallAt, IInv, CallsInv, Sound, Subject
    <3>2. peers'[m][p] = Upserted(peers[m][p],
                                  [endpoint |-> call[t].to, alias |-> call[t].reply.alias,
                                   cached |-> call[t].reply.alias])
      BY <2>2, OtherRows DEF Store
    <3> QED
      BY <3>1, <3>2 DEF Upserted
  <2>3. ASSUME NEW t \in Task, SetAlias(t), Caller(t) = m, Subject(t) = p
        PROVE  peers'[m][p].endpoint = Home[p]
    <3>1. peers'[m][p] = Aliased(peers[m][p], call[t].reply.alias)
      BY <2>3, OtherRows DEF SetAlias
    <3> QED
      BY <1>2, <2>1, <3>1 DEF Aliased, Knows, Row
  <2>4. ASSUME NEW t \in Task, Announce(t), call[t].reply.id = m, Caller(t) = p
        PROVE  peers'[m][p].endpoint = Home[p]
    <3>1. peers'[m][p] = Upserted(peers[m][p],
                                  [endpoint |-> Home[p], alias |-> NoAlias, cached |-> Never])
      BY <2>4, OtherRows DEF Announce
    <3> QED
      BY <3>1 DEF Upserted
  <2> QED
    BY <1>2, <2>2, <2>3, <2>4, RowChange DEF Knows
<1> QED
  BY <1>1, <1>2 DEF RightInv

(* A directory is told of as it is.                                        *)
LEMMA AnswerTells ==
  ASSUME IInv, WorkInv, RightInv, NEW t \in Task, Answer(t),
         Running(t, "walk"), call[t].verb = "get_known_peers"
  PROVE  Told(call'[t])
<1> DEFINE listed(p) == CASE call[t].verb = "describe_self" -> {}
                          [] Running(t, "cascade") -> ListedFor(p)
                          [] OTHER -> Listed(p)
<1>1. PICK p \in Dwellers(call[t].to) :
        call' = [call EXCEPT
                   ![t].reply = [id |-> p, alias |-> alias[p], listed |-> listed(p)],
                   ![t].at = IF Announces(t, p) THEN "answered" ELSE "replied",
                   ![t].knew = Announces(t, p) /\ Sighted(p, Caller(t))]
  BY DEF Answer
<1> DEFINE L == listed(p)
           r == [id |-> p, alias |-> alias[p], listed |-> L]
<1>2. p \in Node /\ r.id = p /\ r.listed = L /\ L = Listed(p)
  BY DEF Dwellers, Running
<1> HIDE DEF L, listed
<1>3. call'[t].reply = r
  <2>1. call[t].at = "sent"
    BY DEF Answer, CallAt
  <2>2. call[t] \in Call
    BY <2>1, UnderWay
  <2> HIDE DEF r
  <2> QED
    BY <1>1, <2>2 DEF IInv, CallsInv, Call, r, L
<1> HIDE DEF r
<1>4. ASSUME NEW q \in Node, <<p, q>> \in born PROVE \E s \in L : s.id = q
  <2>1. Knows(p, q)
    BY <1>2, <1>4 DEF RightInv
  <2>2. [id |-> q, endpoint |-> peers[p][q].endpoint] \in L
    BY <1>2, <2>1 DEF Listed
  <2> QED
    BY <2>2
<1>5. ASSUME NEW s \in L, Right(s.id) PROVE s.endpoint = Home[s.id]
  <2>1. PICK q \in Node : Knows(p, q) /\ s.id = q /\ s.endpoint = peers[p][q].endpoint
    BY <1>2 DEF Listed
  <2> QED
    BY <1>2, <1>5, <2>1 DEF Right, RightInv
<1> QED
  BY <1>2, <1>3, <1>4, <1>5 DEF Told

(* What a task is at, before a step and after it.                          *)
LEMMA Typed ==
  ASSUME WorkInv, WorkInv', NEW t \in Task
  PROVE  /\ job[t] = Idle \/ job[t] \in Job
         /\ job'[t] = Idle \/ job'[t] \in Job
         /\ call[t] = Silent \/ (call[t] \in Call /\ call[t] # Silent /\ call[t].at # "silent")
         /\ call'[t] = Silent \/ (call'[t] \in Call /\ call'[t] # Silent)
  BY DEF WorkInv, Working, Call

(* The answer of a peer that is asked for its peers tells of them.         *)
LEMMA WalkAnswer ==
  ASSUME IInv, WorkInv, WorkInv', RightInv, NEW t \in Task, Running(t, "walk"),
         NEW K, NEW L, K \subseteq L, Walked(job[t], call[t], K), Answer(t)
  PROVE  Walked(job'[t], call'[t], L)
<1>1. call[t].at = "sent"
  BY DEF Answer, CallAt
<1>2. call[t] \in Call /\ call[t] # Silent
  BY <1>1, UnderWay
<1>3. PICK p, r :
        call' = [call EXCEPT
                   ![t].reply = r,
                   ![t].at = IF Announces(t, p) THEN "answered" ELSE "replied",
                   ![t].knew = Announces(t, p) /\ Sighted(p, Caller(t))]
  BY DEF Answer
<1> DEFINE a == IF Announces(t, p) THEN "answered" ELSE "replied"
           k == Announces(t, p) /\ Sighted(p, Caller(t))
<1>4. a \in {"answered", "replied"}
  OBVIOUS
<1>5. call' = [call EXCEPT ![t].reply = r, ![t].at = a, ![t].knew = k]
  BY <1>3
<1> HIDE DEF a, k
<1>6. /\ call'[t].at = a /\ call'[t].verb = call[t].verb /\ call'[t].to = call[t].to
  BY <1>2, <1>5 DEF IInv, CallsInv, Call
<1>7. call'[t] # Silent
  BY <1>4, <1>6 DEF Silent
<1>8. call'[t] \in Call
  BY <1>7, Typed
<1>9. job'[t] = job[t]
  BY DEF Answer
<1>10. call'[t].verb = "get_known_peers" => Told(call'[t])
  BY <1>6, AnswerTells
<1> QED
  BY <1>2, <1>4, <1>6, <1>7, <1>8, <1>9, <1>10, WalkedCall

(* A call that goes on with its reply.                                     *)
LEMMA WalkGoes ==
  ASSUME IInv, WorkInv, WorkInv', NEW t \in Task,
         NEW K, NEW L, K \subseteq L, Walked(job[t], call[t], K),
         call[t].at \notin {"silent", "sent"}, job'[t] = job[t],
         NEW a \in {"replied", "stored"}, call'[t] = [call[t] EXCEPT !.at = a],
         a = "stored" => call[t].reply.id \in L
  PROVE  Walked(job'[t], call'[t], L)
<1>1. call[t] \in Call /\ call[t] # Silent
  BY UnderWay
<1>2. /\ call'[t].at = a /\ call'[t].verb = call[t].verb /\ call'[t].to = call[t].to
      /\ call'[t].reply = call[t].reply
  BY <1>1 DEF Call
<1>3. call'[t] # Silent
  BY <1>2 DEF Silent
<1>4. call'[t] \in Call
  BY <1>3, Typed
<1>5. call'[t].verb = "get_known_peers" => Told(call'[t])
  BY <1>1, <1>2 DEF Walked, Told
<1> QED
  BY <1>1, <1>2, <1>3, <1>4, <1>5, WalkedCall

(* A call that is over.                                                    *)
LEMMA WalkCloses ==
  ASSUME IInv, NEW t \in Task, Running(t, "walk"), NEW j, Closes(t, j)
  PROVE  job'[t] = j /\ call'[t] = Silent
  BY DEF Closes, Running, IInv, CallsInv

(* A peer that was visited.                                                *)
LEMMA WalkRefreshed ==
  ASSUME IInv, WorkInv, WorkInv', NEW t \in Task, Running(t, "walk"),
         NEW K, NEW L, K \subseteq L, Walked(job[t], call[t], K),
         call[t].at \in {"replied", "stored"}, call[t].verb = "describe_self", Refreshed(t),
         Oneself(t) \/ call[t].reply.id \in L
  PROVE  Walked(job'[t], call'[t], L)
<1> DEFINE J == job[t]
           q == call[t].reply.id
           seen == IF J.depth = 0 THEN J.visited \cup {q} ELSE J.visited
           next == Append(J.next, call[t].to)
           j == [J EXCEPT !.total = @ + 1, !.next = next, !.visited = seen]
<1>1. J \in Job /\ call[t] \in Call /\ call[t] # Silent
  BY UnderWay
<1>2. Closes(t, j)
  <2>1. j = [J EXCEPT !.total = @ + 1, !.next = Append(@, call[t].to),
                      !.visited = IF J.depth = 0 THEN @ \cup {q} ELSE @]
    BY <1>1 DEF Job
  <2> HIDE DEF j
  <2> QED
    BY <2>1 DEF Refreshed
<1>3. q \in Node /\ Home[q] = call[t].to
  BY DEF IInv, CallsInv, Sound
<1>4. q = J.node \/ q \in L
  BY DEF Oneself, Caller
<1> HIDE DEF seen, next, q
<1>5. /\ j.node = J.node /\ j.depth = J.depth /\ j.seeds = J.seeds /\ j.frontier = J.frontier
      /\ j.pending = J.pending /\ j.next = next /\ j.visited = seen /\ j.kind = J.kind
  BY <1>1 DEF Job
<1> HIDE DEF j
<1>6. job'[t] = j /\ call'[t] = Silent
  BY <1>2, WalkCloses
<1>7. j \in Job
  <2>1. j # Idle
    BY <1>5 DEF Idle, Running
  <2> QED
    BY <1>6, <2>1, Typed
<1> HIDE DEF J
<1> USE DEF seen, next
<1>8. Walked(j, Silent, L)
  BY <1>1, <1>3, <1>4, <1>5, <1>7, WalkedRefreshed DEF J
<1> QED
  BY <1>6, <1>8

(* The peers of a peer are heard of.                                       *)
LEMMA WalkListen ==
  ASSUME IInv, WorkInv, WorkInv', NEW t \in Task, Running(t, "walk"),
         NEW K, NEW L, K \subseteq L, Walked(job[t], call[t], K), Listen(t)
  PROVE  Walked(job'[t], call'[t], L)
<1> DEFINE J == job[t]
           fresh == {s \in call[t].reply.listed : s.id \notin J.visited}
           seen == J.visited \cup {s.id : s \in fresh}
           j == [J EXCEPT !.pending = fresh, !.visited = seen]
<1>1. call[t].at = "replied" /\ call[t].verb = "get_known_peers"
  BY DEF Listen, CallAt
<1>2. /\ J \in Job /\ call[t] \in Call /\ call[t] # Silent /\ J.depth # 0
      /\ call[t].reply.listed \subseteq Entry
  <2>1. J \in Job /\ call[t] \in Call /\ call[t] # Silent /\ Working(J, call[t])
    BY <1>1, UnderWay DEF WorkInv
  <2> QED
    BY <1>1, <2>1 DEF Working, WalkCounted, Asking, Running
<1>3. Closes(t, j)
  <2>1. j = [J EXCEPT !.pending = fresh,
                      !.visited = IF Running(t, "walk") THEN @ \cup {s.id : s \in fresh} ELSE @]
    BY <1>2 DEF Job
  <2> HIDE DEF j
  <2> QED
    BY <2>1 DEF Listen
<1>4. call[t].reply.id \in Node /\ Home[call[t].reply.id] = call[t].to
  BY <1>1 DEF IInv, CallsInv, Sound
<1> HIDE DEF fresh, seen
<1>5. /\ j.node = J.node /\ j.depth = J.depth /\ j.seeds = J.seeds /\ j.frontier = J.frontier
      /\ j.pending = fresh /\ j.next = J.next /\ j.visited = seen /\ j.kind = J.kind
  BY <1>2 DEF Job
<1> HIDE DEF j
<1>6. job'[t] = j /\ call'[t] = Silent
  BY <1>3, WalkCloses
<1>7. j \in Job
  <2>1. j # Idle
    BY <1>5 DEF Idle, Running
  <2> QED
    BY <1>6, <2>1, Typed
<1> HIDE DEF J
<1>8. Walked(j, Silent, K)
  BY <1>1, <1>2, <1>4, <1>5, <1>7, WalkedListened DEF J, fresh, seen
<1> QED
  BY <1>6, <1>8, WalkedGrows

(* A call that nobody takes.                                               *)
LEMMA WalkFails ==
  ASSUME IInv, WorkInv, NEW t \in Task, Running(t, "walk"), events \in Nat, events' = 0,
         NEW K, NEW L, K \subseteq L, Walked(job[t], call[t], K), Fails(t)
  PROVE  Walked(job'[t], call'[t], L)
<1>1. Dwellers(call[t].to) = {} /\ Closes(t, job[t]) /\ call[t].at # "silent"
  BY NoEvent DEF Fails, CallAt
<1>2. job'[t] = job[t] /\ call'[t] = Silent
  BY <1>1, WalkCloses
<1>3. job[t].visited \subseteq Node
  BY <1>1, UnderWay DEF Job
<1> QED
  BY <1>1, <1>2, <1>3, WalkedNobody, WalkedGrows

(* A hint is followed.                                                     *)
LEMMA WalkVisit ==
  ASSUME IInv, WorkInv, WorkInv', NEW t \in Task, Running(t, "walk"),
         NEW K, NEW L, K \subseteq L, Walked(job[t], call[t], K), Visit(t)
  PROVE  Walked(job'[t], call'[t], L)
<1> DEFINE J == job[t]
<1>1. call[t] = Silent /\ J \in Job
  BY Typed DEF Visit, Ready, Running, Idle
<1>2. PICK s \in J.pending :
        /\ job' = [job EXCEPT ![t].pending = @ \ {s}]
        /\ call' = [call EXCEPT ![t] = NewCall("describe_self", s)]
  BY DEF Visit, Calls, Running
<1> DEFINE c == NewCall("describe_self", s)
           j == [J EXCEPT !.pending = @ \ {s}]
<1>3. job'[t] = j /\ call'[t] = c
  BY <1>2 DEF IInv, CallsInv
<1>4. c \in Call /\ c # Silent /\ c.at = "sent" /\ c.verb = "describe_self" /\ c.to = s.endpoint
  <2>1. s \in Summary
    BY <1>1 DEF Job
  <2> QED
    BY <2>1, NewCallType DEF NewCall
<1>5. /\ j.node = J.node /\ j.depth = J.depth /\ j.seeds = J.seeds /\ j.frontier = J.frontier
      /\ j.pending = J.pending \ {s} /\ j.next = J.next /\ j.visited = J.visited
      /\ j.kind = J.kind
  BY <1>1 DEF Job
<1> HIDE DEF c, j
<1>6. j \in Job
  <2>1. j # Idle
    BY <1>5 DEF Idle, Running
  <2> QED
    BY <1>3, <2>1, Typed
<1> HIDE DEF J
<1>7. Walked(j, c, K)
  BY <1>1, <1>4, <1>5, <1>6, WalkedVisits DEF J
<1> QED
  BY <1>3, <1>7, WalkedGrows

(* The next peer is asked, at this level or the next.                      *)
LEMMA WalkAsk ==
  ASSUME IInv, WorkInv, WorkInv', NEW t \in Task, Running(t, "walk"),
         job[t].total < MaxPeers,
         NEW K, NEW L, K \subseteq L, Walked(job[t], call[t], K), Ask(t)
  PROVE  Walked(job'[t], call'[t], L)
<1> DEFINE J == job[t]
           k == Level(J)
           c == NewCall("get_known_peers", Hint(Head(k.frontier)))
           j == [k EXCEPT !.frontier = Tail(@), !.pending = {}]
<1>1. call[t] = Silent /\ J \in Job /\ J.pending = {}
  BY Typed DEF Ask, HintsDone, Ready, Room, Running, Idle
<1>2. k.frontier # <<>> /\ job'[t] = j /\ call'[t] = c
  BY DEF Ask, Calls, IInv, CallsInv
<1>3. k \in Job
  BY <1>1, LevelWorks DEF WorkInv
<1>4. Walked(k, Silent, K) /\ k.pending = {} /\ k.kind = J.kind
  <2>1. CASE J.frontier = <<>> /\ Descends(J)
    <3> HIDE DEF J
    <3>1. k = [J EXCEPT !.depth = @ + 1, !.frontier = J.next, !.next = <<>>]
      BY <2>1 DEF Level
    <3>2. /\ k.node = J.node /\ k.depth = J.depth + 1 /\ k.seeds = J.seeds
          /\ k.frontier = J.next /\ k.visited = J.visited /\ k.pending = {} /\ k.kind = J.kind
      BY <1>1, <3>1 DEF Job
    <3> HIDE DEF k
    <3>3. Walked(k, Silent, K)
      BY <1>1, <1>3, <2>1, <3>2, WalkedDescends DEF J
    <3> QED
      BY <3>2, <3>3
  <2>2. CASE ~(J.frontier = <<>> /\ Descends(J))
    <3>1. k = J
      BY <2>2 DEF Level
    <3> QED
      BY <1>1, <3>1
  <2> QED
    BY <2>1, <2>2
<1> HIDE DEF k
<1>5. /\ c \in Call /\ c # Silent /\ c.at = "sent" /\ c.verb = "get_known_peers"
      /\ c.to = Head(k.frontier)
  <2>1. Hint(Head(k.frontier)) \in Summary
    <3>1. Head(k.frontier) \in Address
      BY <1>2, <1>3 DEF Job
    <3> QED
      BY <3>1 DEF Hint, Summary
  <2> QED
    BY <2>1, NewCallType DEF NewCall, Hint
<1>6. /\ j.node = k.node /\ j.depth = k.depth /\ j.seeds = k.seeds
      /\ j.frontier = Tail(k.frontier) /\ j.pending = {} /\ j.next = k.next
      /\ j.visited = k.visited /\ j.kind = J.kind
  BY <1>3, <1>4 DEF Job
<1> HIDE DEF c, j
<1>7. j \in Job
  <2>1. j # Idle
    BY <1>6 DEF Idle, Running
  <2> QED
    BY <1>2, <2>1, Typed
<1>8. Walked(j, c, K)
  BY <1>2, <1>3, <1>4, <1>5, <1>6, <1>7, WalkedAsks
<1> QED
  BY <1>2, <1>8, WalkedGrows

(* A walk stays the walk of its node, and forgets no peer it counted.      *)
LEMMA WalkStays ==
  ASSUME IInv, WorkInv, NEW t \in Task, Proceed(t), Running(t, "walk")'
  PROVE  /\ Running(t, "walk") /\ job'[t].node = job[t].node
         /\ job'[t].total < MaxPeers => job[t].total < MaxPeers
<1> DEFINE J == job[t]
<1>0. /\ job = [v \in Task |-> job[v]]
      /\ J = Idle \/ J \in Job
      /\ job'[t].kind = "walk"
  BY DEF IInv, CallsInv, WorkInv, Working, Running
<1>1. CASE UNCHANGED job
  BY <1>0, <1>1 DEF Running
<1>2. CASE Announce(t)
  BY <1>0, <1>2, AnnounceReplies DEF Running
<1>3. CASE Fails(t) \/ SetAliasFails(t)
  <2>1. Closes(t, J)
    BY <1>3 DEF Fails, SetAliasFails
  <2>2. job'[t] = Idle \/ job'[t] = J
    BY <1>0, <2>1 DEF Closes
  <2> QED
    BY <1>0, <2>2 DEF Idle, Running
<1>4. CASE Self(t) \/ SetAlias(t) \/ Listen(t)
  <2>1. call[t].at # "silent"
    BY <1>4 DEF Self, SetAlias, Listen, Describes, CallAt
  <2>2. J \in Job /\ J.total \in Nat
    BY <2>1, UnderWay DEF Job
  <2>3. PICK j : /\ Closes(t, j) /\ j.kind = J.kind /\ j.node = J.node
                 /\ j.total = J.total \/ j.total = J.total + 1
    <3>1. CASE Listen(t)
      <4> DEFINE P == {s \in call[t].reply.listed : s.id \notin J.visited}
                 V == IF Running(t, "walk") THEN J.visited \cup {s.id : s \in P} ELSE J.visited
                 j == [J EXCEPT !.pending = P, !.visited = V]
      <4>1. Closes(t, j)
        <5>1. j = [J EXCEPT !.pending = P,
                     !.visited = IF Running(t, "walk") THEN @ \cup {s.id : s \in P} ELSE @]
          BY <2>2 DEF Job
        <5> HIDE DEF j
        <5> QED
          BY <3>1, <5>1 DEF Listen
      <4> HIDE DEF P, V
      <4>2. j.kind = J.kind /\ j.node = J.node /\ j.total = J.total
        BY <2>2 DEF Job
      <4> QED
        BY <4>1, <4>2
    <3>2. CASE Refreshed(t)
      <4> DEFINE V == IF J.depth = 0 THEN J.visited \cup {call[t].reply.id} ELSE J.visited
                 N == Append(J.next, call[t].to)
                 j == [J EXCEPT !.total = @ + 1, !.next = N, !.visited = V]
      <4>1. Closes(t, j)
        <5>1. j = [J EXCEPT !.total = @ + 1, !.next = Append(@, call[t].to),
                     !.visited = IF J.depth = 0 THEN @ \cup {call[t].reply.id} ELSE @]
          BY <2>2 DEF Job
        <5> HIDE DEF j
        <5> QED
          BY <3>2, <5>1 DEF Refreshed
      <4> HIDE DEF V, N
      <4>2. j.kind = J.kind /\ j.node = J.node /\ j.total = J.total + 1
        BY <2>2 DEF Job
      <4> QED
        BY <4>1, <4>2
    <3> QED
      BY <1>4, <3>1, <3>2 DEF Self, SetAlias
  <2>4. job'[t] = Idle \/ job'[t] = j
    BY <1>0, <2>3 DEF Closes
  <2>5. job'[t] = j
    BY <1>0, <2>4 DEF Idle
  <2> QED
    BY <1>0, <2>2, <2>3, <2>5, BoundAssumption DEF Running
<1>5. CASE Visit(t)
  <2>1. PICK P : job'[t] = [J EXCEPT !.pending = P]
    BY <1>0, <1>5 DEF Visit
  <2>2. J \in Job
    BY <1>0, <1>5 DEF Visit, Ready, Running, Idle
  <2> QED
    BY <1>0, <2>1, <2>2 DEF Job, Running
<1>6. CASE Ask(t)
  <2> DEFINE k == Level(J)
  <2>1. job'[t] = [k EXCEPT !.frontier = Tail(@), !.pending = {}]
    BY <1>0, <1>6 DEF Ask
  <2>2. J \in Job /\ k \in Job
    <3>1. J \in Job /\ Working(J, Silent)
      BY <1>6 DEF Ask, HintsDone, Ready, Running, WorkInv, Working, Idle
    <3> QED
      BY <3>1, LevelWorks
  <2>3. k.kind = J.kind /\ k.node = J.node /\ k.total = J.total
    <3> HIDE DEF J
    <3> QED
      BY <2>2 DEF Level, Job
  <2> HIDE DEF k
  <2> QED
    BY <1>0, <2>1, <2>2, <2>3 DEF Job, Running
<1>7. CASE End(t)
  BY <1>0, <1>7 DEF End, Idle
<1> QED
  BY <1>1, <1>2, <1>3, <1>4, <1>5, <1>6, <1>7 DEF Proceed, Answer, AnnounceFails, Store

(* The peers of n, after the step.                                         *)
Later(n) == {p \in Node : peers'[n][p] # NoRow}

(* A walk that nothing befalls goes on so.                                 *)
LEMMA WalkProceeds ==
  ASSUME IInv, WorkInv, WorkInv', RightInv, events \in Nat, events' = 0, [Next]_vars,
         NEW t \in Task, Proceed(t), Running(t, "walk"), job[t].total < MaxPeers,
         Walked(job[t], call[t], Roster(Caller(t))), Running(t, "walk")'
  PROVE  Walked(job'[t], call'[t], Later(Caller(t)))
<1> DEFINE K == Roster(Caller(t))
           L == Later(Caller(t))
<1> SUFFICES Walked(job'[t], call'[t], L)
  OBVIOUS
<1>0. /\ job = [v \in Task |-> job[v]]
      /\ call = [v \in Task |-> call[v]]
      /\ Caller(t) \in Node
      /\ ~Event
  <2>1. Caller(t) \in Node
    BY DEF IInv, CallsInv, Sound, Running, Caller
  <2> QED
    BY <2>1, NoEvent DEF IInv, CallsInv
<1>1. K \subseteq L
  BY <1>0, RowsStep DEF Roster, Later, Knows
<1>2. Walked(job[t], call[t], K)
  OBVIOUS
<1>3. call[t].at = "stored" => call[t].verb = "describe_self" /\ call[t].reply.id \in K
  BY <1>2, UnderWay DEF WorkInv, Working, Walked
<1> HIDE DEF K
<1>4. CASE Announce(t)
  <2>1. /\ call[t].at = "answered" /\ job'[t] = job[t]
        /\ call'[t] = [call[t] EXCEPT !.at = "replied"]
    BY <1>4, AnnounceReplies
  <2> HIDE DEF L
  <2> QED
    BY <1>1, <1>2, <2>1, WalkGoes
<1>5. CASE Store(t)
  <2>1. /\ call[t].at = "replied" /\ job'[t] = job[t]
        /\ call'[t] = [call[t] EXCEPT !.at = "stored"]
    BY <1>0, <1>5 DEF Store, Describes, CallAt, CallGoes
  <2>2. call[t].reply.id \in L
    <3>1. Subject(t) \in Node
      BY <2>1 DEF IInv, CallsInv, Sound, Subject
    <3>2. Knows(Caller(t), Subject(t))'
      <4> DEFINE n == Caller(t)
                 p == Subject(t)
      <4>1. Store(t) /\ Caller(t) = n /\ Subject(t) = p /\ n \in Node /\ p \in Node
        BY <1>0, <1>5, <3>1
      <4> HIDE DEF n, p
      <4>2. peers'[n][p] # NoRow
        BY <4>1, RowsStep DEF Knows
      <4>3. Caller(t)' = n /\ Subject(t)' = p
        <5>1. call'[t].reply = call[t].reply
          BY <2>1, UnderWay DEF Call
        <5> QED
          BY <2>1, <4>1, <5>1 DEF Caller, Subject
      <4> QED
        BY <4>2, <4>3 DEF Knows
    <3> QED
      BY <2>1, <3>1, <3>2, UnderWay DEF Later, Knows, Caller, Subject, Call
  <2> HIDE DEF L
  <2> QED
    BY <1>1, <1>2, <2>1, <2>2, WalkGoes
<1> HIDE DEF L
<1>6. CASE Answer(t)
  BY <1>1, <1>2, <1>6, WalkAnswer
<1>7. CASE Self(t) \/ SetAlias(t)
  <2>1. Refreshed(t) /\ call[t].at \in {"replied", "stored"} /\ call[t].verb = "describe_self"
    BY <1>3, <1>7 DEF Self, SetAlias, Describes, CallAt
  <2>2. Oneself(t) \/ call[t].reply.id \in L
    BY <1>1, <1>3, <1>7 DEF Self, SetAlias, CallAt
  <2> QED
    BY <1>1, <1>2, <2>1, <2>2, WalkRefreshed
<1>8. CASE Listen(t)
  BY <1>1, <1>2, <1>8, WalkListen
<1>9. CASE Fails(t)
  BY <1>1, <1>2, <1>9, WalkFails
<1>10. CASE Visit(t)
  BY <1>1, <1>2, <1>10, WalkVisit
<1>11. CASE Ask(t)
  BY <1>1, <1>2, <1>11, WalkAsk
<1>12. ~End(t)
  BY <1>0 DEF End, Running, Idle
<1>13. ~AnnounceFails(t) /\ ~SetAliasFails(t)
  BY <1>0 DEF AnnounceFails, SetAliasFails
<1> QED
  BY <1>4, <1>5, <1>6, <1>7, <1>8, <1>9, <1>10, <1>11, <1>12, <1>13 DEF Proceed

(* A walk that begins.                                                     *)
LEMMA WalkBegins ==
  ASSUME IInv, WorkInv, Begin, NEW u \in Task, Running(u, "walk")'
  PROVE  \/ Untouched(u)
         \/ \E n \in Node, es \in Seeds : job'[u] = NewJob("walk", n, <<>>, es) /\ call'[u] = Silent
<1>0. /\ job = [v \in Task |-> job[v]]
      /\ call = [v \in Task |-> call[v]]
      /\ job'[u].kind = "walk"
  BY DEF IInv, CallsInv, Running
<1>1. ASSUME NEW k, NEW n, NEW f, NEW es, Starts(k, n, f, es)
      PROVE  Untouched(u) \/ (job'[u] = NewJob(k, n, f, es) /\ call'[u] = Silent)
  <2>1. PICK v \in FreeTask : job' = [job EXCEPT ![v] = NewJob(k, n, f, es)]
    BY <1>1 DEF Starts
  <2>2. call' = call
    BY <1>1 DEF Starts
  <2>3. v \in Task /\ job[v].kind = "idle"
    BY FreeIsIdle
  <2>4. call[v] = Silent
    BY <2>3, JobKind DEF WorkInv, Working
  <2> QED
    BY <1>0, <2>1, <2>2, <2>3, <2>4 DEF Untouched
<1>2. ASSUME NEW n \in Node, NEW es \in Seeds, Bootstrap(n, es)
      PROVE  Untouched(u) \/ (job'[u] = NewJob("walk", n, <<>>, es) /\ call'[u] = Silent)
  BY <1>1, <1>2 DEF Bootstrap
<1>3. ASSUME NEW n \in Node, DiscoverCapability(n) PROVE Untouched(u)
  <2>1. PICK f : Starts("cascade", n, f, {})
    BY <1>3 DEF DiscoverCapability
  <2>2. Untouched(u) \/ job'[u] = NewJob("cascade", n, f, {})
    BY <1>1, <2>1
  <2> QED
    BY <1>0, <2>2 DEF NewJob
<1>4. ASSUME NEW n \in Node, NEW e \in Address, Refresh(n, e) PROVE Untouched(u)
  <2>1. PICK v \in FreeTask :
          /\ job' = [job EXCEPT ![v] = NewJob("refresh", n, <<>>, {})]
          /\ call' = [call EXCEPT ![v] = NewCall("describe_self", Hint(e))]
    BY <1>4 DEF Refresh
  <2>2. v # u
    BY <1>0, <2>1 DEF NewJob
  <2> QED
    BY <1>0, <2>1, <2>2 DEF Untouched
<1> QED
  BY <1>2, <1>3, <1>4 DEF Begin

(* Without event, walks with room go on as they do.                        *)
LEMMA WalkedStep ==
  ASSUME IInv, WorkInv, WorkInv', events \in Nat, WalkedInv, [Next]_vars
  PROVE  WalkedInv'
<1> SUFFICES ASSUME events' = 0 PROVE
      /\ RightInv'
      /\ \A t \in Task : Running(t, "walk")' /\ job'[t].total < MaxPeers
           => Walked(job[t], call[t], Roster(Caller(t)))'
  BY DEF WalkedInv
<1>1. events = 0 /\ born' = born
  BY EventsStep, BornStays
<1>2. RightInv
  BY <1>1 DEF WalkedInv
<1>3. ASSUME NEW u \in Task, Running(u, "walk")', job'[u].total < MaxPeers
      PROVE  Walked(job[u], call[u], Roster(Caller(u)))'
  <2>1. Walked(job'[u], call'[u], {p \in Node : peers'[job'[u].node][p] # NoRow})
    <3>1. CASE Untouched(u)
      <4>1. Running(u, "walk") /\ job[u].total < MaxPeers
        BY <1>3, <3>1 DEF Untouched, Running
      <4>2. Walked(job[u], call[u], Roster(Caller(u)))
        BY <1>1, <4>1 DEF WalkedInv
      <4>3. Caller(u) \in Node
        BY <4>1 DEF IInv, CallsInv, Sound, Running, Caller
      <4>4. Roster(Caller(u)) \subseteq Later(Caller(u))
        BY <4>3, RowsStep DEF Roster, Later, Knows
      <4>5. Walked(job[u], call[u], Later(Caller(u)))
        BY <4>2, <4>4, WalkedGrows
      <4> QED
        BY <3>1, <4>5 DEF Untouched, Later, Caller
    <3>2. ASSUME NEW n \in Node, NEW es \in Seeds,
                 job'[u] = NewJob("walk", n, <<>>, es), call'[u] = Silent
          PROVE  Walked(job'[u], call'[u], {p \in Node : peers'[job'[u].node][p] # NoRow})
      <4>1. es \in SUBSET Address
        BY NetworkAssumption
      <4> QED
        BY <3>2, <4>1, NewWalked
    <3>3. CASE Proceed(u)
      <4>1. Running(u, "walk") /\ job[u].total < MaxPeers /\ job'[u].node = job[u].node
        BY <1>3, <3>3, WalkStays
      <4>2. Walked(job[u], call[u], Roster(Caller(u)))
        BY <1>1, <4>1 DEF WalkedInv
      <4>3. Walked(job'[u], call'[u], Later(Caller(u)))
        BY <1>2, <1>3, <3>3, <4>1, <4>2, WalkProceeds
      <4> QED
        BY <4>1, <4>3 DEF Later, Caller
    <3>4. ASSUME NEW t \in Task \ {u}, Proceed(t) PROVE Untouched(u)
      BY <1>3, <3>4, OthersStep DEF Running
    <3>5. ASSUME NEW m \in Node, Rename(m) \/ \E q \in Node : Forget(m, q) PROVE FALSE
      BY NoEvent, <3>5 DEF Rename, Forget
    <3>6. CASE UNCHANGED vars
      BY <3>1, <3>6 DEF vars, Untouched
    <3>7. CASE Begin
      BY <1>3, <3>1, <3>2, <3>7, WalkBegins
    <3> QED
      BY <3>1, <3>3, <3>4, <3>5, <3>6, <3>7 DEF Next
  <2> QED
    BY <1>1, <2>1
       DEF Walked, Filed, Followed, SeedsFollowed, Reached, Told, Met, Seeded, Right, Coming,
           Queued, Queuing, Heard, Within, Members, Roster, Caller, Knows
<1> QED
  BY <1>1, <1>2, <1>3, RightStep

(* A walk (bootstrap_from_seeds) that lost no call and did not fill up     *)
(* knows, when it ends, everyone within max_depth of its seeds about whose *)
(* endpoint nobody was wrong:  in networks of any size, whatever other     *)
(* tasks do meanwhile.                                                     *)
THEOREM WalksReach == Spec => WalkComplete
<1>1. Init => WalkedInv
  <2> SUFFICES ASSUME Init PROVE WalkedInv
    OBVIOUS
  <2>1. \A t \in Task : ~Running(t, "walk")
    BY DEF Init, Running, Idle
  <2>2. RightInv
    BY DEF Init, RightInv
  <2> QED
    BY <2>1, <2>2 DEF WalkedInv
<1>2. IInv /\ WorkInv /\ HistoryOK /\ WalkedInv /\ [Next]_vars => WalkedInv'
  <2>1. HistoryOK => events \in Nat
    BY BoundAssumption DEF HistoryOK
  <2> QED
    BY <2>1, WorkStep, WalkedStep
<1>3. IInv /\ WorkInv /\ WalkedInv =>
        [\A t \in Task :
           End(t) /\ Running(t, "walk") /\ events = 0 /\ job[t].total < MaxPeers
             => \A p \in Within(Caller(t), job[t].seeds, MaxDepth) \ {Caller(t)} :
                  Knows(Caller(t), p)]_vars
  <2> SUFFICES ASSUME IInv, WorkInv, WalkedInv, NEW t \in Task,
                      End(t), Running(t, "walk"), events = 0, job[t].total < MaxPeers
               PROVE  \A p \in Within(Caller(t), job[t].seeds, MaxDepth) \ {Caller(t)} :
                        Knows(Caller(t), p)
    OBVIOUS
  <2> DEFINE j == job[t]
  <2>1. call[t] = Silent /\ j \in Job /\ j.pending = {} /\ Level(j).frontier = <<>>
    BY DEF End, HintsDone, Ready, Room, Running, WorkInv, Working, Idle
  <2>2. Walked(j, Silent, Roster(Caller(t)))
    BY <2>1 DEF WalkedInv
  <2>3. j.frontier = <<>> /\ (j.next = <<>> \/ j.depth >= MaxDepth)
    <3>1. CASE j.frontier = <<>> /\ Descends(j)
      <4> HIDE DEF j
      <4>1. Level(j).frontier = j.next
        BY <2>1, <3>1 DEF Level, Job
      <4> QED
        BY <2>1, <3>1, <4>1 DEF Descends
    <3>2. CASE ~(j.frontier = <<>> /\ Descends(j))
      BY <2>1, <3>2, BoundAssumption DEF Level, Descends, Running, Job
    <3> QED
      BY <3>1, <3>2
  <2>4. \A p \in Within(j.node, j.seeds, MaxDepth) \ {j.node} : p \in Roster(Caller(t))
    <3> HIDE DEF j
    <3> QED
      BY <2>1, <2>2, <2>3, WalkedAll
  <2> QED
    BY <2>4 DEF Roster, Caller
<1>4. Init => HistoryOK
  BY BoundAssumption DEF Init, HistoryOK
<1>5. IInv /\ WorkInv /\ HistoryOK /\ [Next]_vars => HistoryOK'
  BY HistoryStep
<1> QED
  BY <1>1, <1>2, <1>3, <1>4, <1>5, InitInv, InvStep, WorkInit, WorkStep, PTL DEF Spec, WalkComplete
=============================================================================
