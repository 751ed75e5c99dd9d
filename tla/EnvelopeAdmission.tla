------------------------- MODULE EnvelopeAdmission -------------------------
(***************************************************************************)
(* Admission of signed envelopes by one node: verification against the     *)
(* node's clock, the durable nonce table that refuses replays, the verb's  *)
(* execution, the call journal and the reverse announce of the caller's    *)
(* endpoint.  Both doors of the node share the nonce table: POST /messages *)
(* (node/src/handler.rs) and the ticket of every blob request              *)
(* (server/src/blobs.rs).                                                  *)
(*                                                                         *)
(* The network may deliver any envelope any number of times, to either     *)
(* door; requests run concurrently and are interleaved at every clock      *)
(* reading and database call; the process may crash between any two steps  *)
(* and loses its requests but not its tables.                              *)
(*                                                                         *)
(* Time is counted in half seconds, the coarsest unit in which the         *)
(* truncation to whole seconds shows.                                      *)
(***************************************************************************)
EXTENDS Integers

CONSTANTS
  Message,     \* the envelopes correctly signed by their senders
  NoMessage,   \* what an idle worker holds
  Worker,      \* concurrent request handlers
  Self,        \* this node's own identity
  Endpoint,    \* URLs a sender may announce
  NoEndpoint,  \* no sender_endpoint, or a peer not in the directory
  Skew,        \* VerifyConfig.clock_skew, in seconds (300 in the code)
  TTL,         \* NONCE_TTL_SECONDS (3600 in the code)
  StepBack,    \* how far, in all, the wall clock may be set back (ticks)
  Delay,       \* ticks that may pass between a clock check and its insert
  MaxClock     \* bound of the explored time

Door == {"messages", "blobs"}

Senders == {m.sender : m \in Message}

(* An envelope: who signed it, its nonce, its timestamp, the kind of verb, *)
(* whether it is addressed to this node, a ticket's own expiry (seconds)   *)
(* and the endpoint it announces.  A sender draws a fresh nonce each time. *)
ASSUME MessageAssumption ==
  /\ NoMessage \notin Message
  /\ \A m \in Message :
       /\ m.ts \in Nat
       /\ m.expires \in Nat
       /\ m.verb \in {"request", "ticket"}
       /\ m.forUs \in BOOLEAN
       /\ m.endpoint \in Endpoint \cup {NoEndpoint}
  /\ \A m, n \in Message : m.sender = n.sender /\ m.nonce = n.nonce => m = n

(* A nonce outlives every moment at which a copy of its envelope can still *)
(* pass the skew check: 2 * 300 s is well below 3600 s.                    *)
ASSUME WindowAssumption ==
  /\ Skew \in Nat /\ TTL \in Nat /\ StepBack \in Nat /\ Delay \in Nat
  /\ MaxClock \in Nat
  /\ 2 * TTL > 4 * Skew + 1 + 2 * StepBack + Delay

ASSUME NoEndpointAssumption == NoEndpoint \notin Endpoint

VARIABLES
  clock,      \* the node's wall clock, in ticks
  highest,    \* the highest reading it ever showed
  nonces,     \* table nonces: [sender, nonce, seenAt]
  req,        \* the request each worker handles
  admitted,   \* history: how often each envelope passed the nonce check
  executed,   \* history: how often each envelope's operation was carried out
  replayed,   \* history: the envelopes a copy of which was refused as a replay
  journal,    \* call journal of /messages: [msg, status]
  directory   \* peers: the endpoint held for each sender

vars == <<clock, highest, nonces, req, admitted, executed, replayed, journal,
          directory>>

Seconds(t) == t \div 2

(* Where a request is: signature and clock checked; the second clock       *)
(* reading taken; nonce inserted; expired nonces pruned; verb carried out; *)
(* journalled as a success.                                                *)
Pc == {"idle", "verified", "stamped", "admitted", "pruned", "executed",
       "recorded"}

Idle == [pc |-> "idle", msg |-> NoMessage, door |-> "messages",
         at |-> 0, now |-> 0]

(***************************************************************************)
(* verify_envelope's clock check: the difference truncated to whole        *)
(* seconds must not exceed the skew.                                       *)
(***************************************************************************)
Fresh(m, t) ==
  Seconds(IF t >= m.ts THEN t - m.ts ELSE m.ts - t) <= Skew

(* The primary key of the table is (sender_id, nonce). *)
SameKey(row, m) == row.sender = m.sender /\ row.nonce = m.nonce

Seen(m) == \E row \in nonces : SameKey(row, m)

Init ==
  /\ clock = 0 /\ highest = 0
  /\ nonces = {} /\ replayed = {} /\ journal = {}
  /\ req = [w \in Worker |-> Idle]
  /\ admitted = [m \in Message |-> 0]
  /\ executed = [m \in Message |-> 0]
  /\ directory = [s \in Senders |-> NoEndpoint]

-----------------------------------------------------------------------------
(* Environment *)

Unadmitted(w) == req[w].pc \in {"verified", "stamped"}

(* The clock advances.  A request does not stay between its clock check    *)
(* and its insert for longer than Delay: the only waits there are the      *)
(* pool's connection timeout and SQLite's busy timeout, and both end the   *)
(* request with an error.                                                  *)
Tick ==
  /\ clock < MaxClock
  /\ clock' = clock + 1
  /\ highest' = IF clock' > highest THEN clock' ELSE highest
  /\ \A w \in Worker : Unadmitted(w) => clock' <= req[w].at + Delay
  /\ UNCHANGED <<nonces, req, admitted, executed, replayed, journal, directory>>

(* The wall clock is set back, never by more than StepBack in all. *)
SetBack ==
  /\ clock > 0 /\ clock - 1 + StepBack >= highest
  /\ clock' = clock - 1
  /\ UNCHANGED <<highest, nonces, req, admitted, executed, replayed, journal,
                 directory>>

(* Requests in progress vanish; SQLite's committed rows stay. *)
Crash ==
  /\ \E w \in Worker : req[w].pc # "idle"
  /\ req' = [w \in Worker |-> Idle]
  /\ UNCHANGED <<clock, highest, nonces, admitted, executed, replayed, journal,
                 directory>>

-----------------------------------------------------------------------------
(* One request *)

(* An envelope arrives and verify_envelope accepts it.  One it refuses     *)
(* changes nothing and is not an action.  The blob door refuses any verb   *)
(* but a ticket before it looks at the nonce.                              *)
Verify(w, m, door) ==
  /\ req[w].pc = "idle"
  /\ m.forUs
  /\ Fresh(m, clock)
  /\ door = "blobs" => m.verb = "ticket"
  /\ req' = [req EXCEPT ![w] = [pc |-> "verified", msg |-> m, door |-> door,
                                at |-> clock, now |-> 0]]
  /\ UNCHANGED <<clock, highest, nonces, admitted, executed, replayed, journal,
                 directory>>

(* The second reading of the clock, the one the nonce row carries. *)
Stamp(w) ==
  /\ req[w].pc = "verified"
  /\ req' = [req EXCEPT ![w] = [@ EXCEPT !.pc = "stamped", !.now = clock]]
  /\ UNCHANGED <<clock, highest, nonces, admitted, executed, replayed, journal,
                 directory>>

(* INSERT OR IGNORE took effect: the envelope is admitted. *)
InsertNonce(w) ==
  LET m == req[w].msg IN
  /\ req[w].pc = "stamped"
  /\ ~Seen(m)
  /\ nonces' = nonces \cup {[sender |-> m.sender, nonce |-> m.nonce,
                             seenAt |-> Seconds(req[w].now)]}
  /\ admitted' = [admitted EXCEPT ![m] = @ + 1]
  /\ req' = [req EXCEPT ![w].pc = "admitted"]
  /\ UNCHANGED <<clock, highest, executed, replayed, journal, directory>>

(* The key was there: NodeError::Replay, or 409 at the blob door; the      *)
(* handler returns before it reaches record_audit.                         *)
RefuseReplay(w) ==
  /\ req[w].pc = "stamped"
  /\ Seen(req[w].msg)
  /\ replayed' = replayed \cup {req[w].msg}
  /\ req' = [req EXCEPT ![w] = Idle]
  /\ UNCHANGED <<clock, highest, nonces, admitted, executed, journal, directory>>

(* The pool or SQLite fails before the insert: the request ends, and the   *)
(* envelope may be sent again.                                             *)
StorageError(w) ==
  /\ req[w].pc = "stamped"
  /\ req' = [req EXCEPT ![w] = Idle]
  /\ UNCHANGED <<clock, highest, nonces, admitted, executed, replayed, journal,
                 directory>>

(* Mutant: the cutoff forgets the TTL. *)
ExpiredAtOnce(w) == {row \in nonces : row.seenAt < Seconds(req[w].now)}

(* Rows the best-effort prune of this request would delete. *)
Expired(w) == {row \in nonces : row.seenAt < Seconds(req[w].now) - TTL}

(* Only /messages prunes; a failing prune is logged and ignored. *)
Prune(w) ==
  /\ req[w].pc = "admitted" /\ req[w].door = "messages"
  /\ nonces' \in {nonces, nonces \ Expired(w)}
  /\ req' = [req EXCEPT ![w].pc = "pruned"]
  /\ UNCHANGED <<clock, highest, admitted, executed, replayed, journal,
                 directory>>

(* A verb other than blob_ticket is dispatched to its handler. *)
Execute(w) ==
  LET m == req[w].msg IN
  /\ req[w].pc = "pruned" /\ m.verb = "request"
  /\ executed' = [executed EXCEPT ![m] = @ + 1]
  /\ req' = [req EXCEPT ![w].pc = "executed"]
  /\ UNCHANGED <<clock, highest, nonces, admitted, replayed, journal, directory>>

(* The blob door carries out the operation of a ticket not yet expired.    *)
(* It writes no journal and announces nobody.                              *)
ExecuteTicket(w) ==
  LET m == req[w].msg IN
  /\ req[w].pc = "admitted" /\ req[w].door = "blobs"
  /\ m.expires >= Seconds(req[w].now)
  /\ executed' = [executed EXCEPT ![m] = @ + 1]
  /\ req' = [req EXCEPT ![w] = Idle]
  /\ UNCHANGED <<clock, highest, nonces, admitted, replayed, journal, directory>>

(* Wrong operation, wrong hash or expired: refused with its nonce spent. *)
RefuseTicket(w) ==
  /\ req[w].pc = "admitted" /\ req[w].door = "blobs"
  /\ req' = [req EXCEPT ![w] = Idle]
  /\ UNCHANGED <<clock, highest, nonces, admitted, executed, replayed, journal,
                 directory>>

(* Mutant: the error's text instead of its status. *)
JournalledText(m, status) ==
  journal' \in {journal, journal \cup {[msg |-> m, status |-> "no such capability"]}}

(* record_audit is best effort: a failing write is logged and ignored. *)
Journalled(m, status) ==
  journal' \in {journal, journal \cup {[msg |-> m, status |-> status]}}

(* The verb succeeded and its success is journalled. *)
Record(w) ==
  /\ req[w].pc = "executed"
  /\ Journalled(req[w].msg, "ok")
  /\ req' = [req EXCEPT ![w].pc = "recorded"]
  /\ UNCHANGED <<clock, highest, nonces, admitted, executed, replayed, directory>>

(* The verb failed, or was a ticket sent to the wrong door: `outcome?`     *)
(* returns the error before the announce.                                  *)
RecordFailure(w) ==
  /\ \/ req[w].pc = "executed"
     \/ req[w].pc = "pruned" /\ req[w].msg.verb = "ticket"
  /\ Journalled(req[w].msg, "error")
  /\ req' = [req EXCEPT ![w] = Idle]
  /\ UNCHANGED <<clock, highest, nonces, admitted, executed, replayed, directory>>

(* Reverse announce, then the signed reply.  The upsert may fail. *)
Announce(w) ==
  LET m == req[w].msg IN
  /\ req[w].pc = "recorded"
  /\ \/ UNCHANGED directory
     \/ /\ m.endpoint # NoEndpoint /\ m.sender # Self
        /\ directory' = [directory EXCEPT ![m.sender] = m.endpoint]
  /\ req' = [req EXCEPT ![w] = Idle]
  /\ UNCHANGED <<clock, highest, nonces, admitted, executed, replayed, journal>>

-----------------------------------------------------------------------------

Handle(w) ==
  \/ \E m \in Message, door \in Door : Verify(w, m, door)
  \/ Stamp(w)
  \/ InsertNonce(w)
  \/ RefuseReplay(w)
  \/ StorageError(w)
  \/ Prune(w)
  \/ Execute(w)
  \/ ExecuteTicket(w)
  \/ RefuseTicket(w)
  \/ Record(w)
  \/ RecordFailure(w)
  \/ Announce(w)

Next ==
  \/ Tick
  \/ SetBack
  \/ Crash
  \/ \E w \in Worker : Handle(w)

Spec == Init /\ [][Next]_vars

-----------------------------------------------------------------------------
(* Properties *)

NonceRow ==
  [sender : Senders, nonce : {m.nonce : m \in Message}, seenAt : Nat]

Request ==
  [pc : Pc, msg : Message \cup {NoMessage}, door : Door, at : Nat, now : Nat]

(* The type of the state; a worker past "idle" holds an envelope, and only *)
(* an envelope addressed to this node.                                     *)
TypeOK ==
  /\ clock \in Nat /\ highest \in Nat /\ clock <= highest
  /\ nonces \subseteq NonceRow
  /\ req \in [Worker -> Request]
  /\ \A w \in Worker : req[w].pc # "idle" => req[w].msg \in Message
  /\ admitted \in [Message -> Nat]
  /\ executed \in [Message -> Nat]
  /\ replayed \subseteq Message
  /\ journal \subseteq [msg : Message, status : {"ok", "error"}]
  /\ directory \in [Senders -> Endpoint \cup {NoEndpoint}]

(* An envelope's operation is carried out at most once, whatever copies of *)
(* it arrive at either door, however requests interleave with the prune,   *)
(* across crashes and a clock set back by at most StepBack.                *)
AtMostOnce == \A m \in Message : executed[m] <= 1

(* An envelope refused as a replay had been admitted: no sender is locked  *)
(* out by another sender's nonces or by a request that failed before the   *)
(* insert.                                                                 *)
ReplayWasAdmitted == \A m \in replayed : admitted[m] > 0

(* An endpoint in the directory was signed by its peer, in a request this  *)
(* node verified and carried out; the node itself never appears.           *)
DirectoryFromServed ==
  \A s \in Senders :
    directory[s] # NoEndpoint =>
      /\ s # Self
      /\ \E m \in Message : /\ m.sender = s /\ m.endpoint = directory[s]
                            /\ m.verb = "request" /\ executed[m] > 0
=============================================================================
