------------------------------ MODULE BlobStore ------------------------------
(***************************************************************************)
(* The content-addressed store of an instance: one index row per hash      *)
(* (table blobs) and one file per hash.  Four parties work on it at once,  *)
(* each in several steps that are not one transaction:                     *)
(*   - peers, through the signed PUT and DELETE of the wire surface;       *)
(*   - local users, through the files panel;                               *)
(*   - plan steps, which send local blobs out before an invocation and     *)
(*     take a capability's output blobs in after it;                       *)
(*   - the collector, which sweeps expired rows every ten minutes.         *)
(* GET and HEAD change nothing but last_access_at, which nothing reads:    *)
(* what they would answer is the operator Live and the set file.           *)
(* Tickets are those that EnvelopeAdmission lets through; hash and size    *)
(* checks have passed (a body that fails them changes nothing).            *)
(***************************************************************************)
EXTENDS Integers, FiniteSets, FiniteSetsExt

CONSTANTS
  Hashes,          \* content hashes
  Peers,           \* remote uploaders
  Users,           \* local users
  Workers,         \* request and step handlers that may run at once
  Size,            \* size of the bytes behind each hash
  PerPeerBytes,    \* DEFAULT_PER_PEER_BYTES
  PerPeerBlobs,    \* DEFAULT_PER_PEER_BLOBS
  InputTtl,        \* one hour
  OutputTtl,       \* a day
  WeekTtl,         \* MAX_GRANTED_TTL_SECS
  MaxTime,         \* bound on the clock
  MaxFaults        \* bound on storage errors and crashes

ASSUME SizeAssumption == Size \in [Hashes -> Nat]
ASSUME TtlAssumption ==
  /\ InputTtl \in Nat /\ OutputTtl \in Nat /\ WeekTtl \in Nat
  /\ 0 < InputTtl /\ InputTtl <= OutputTtl /\ OutputTtl <= WeekTtl
ASSUME BoundsAssumption == MaxTime \in Nat /\ MaxFaults \in Nat

Self == "self"
Nobody == "nobody"

VARIABLES
  now,      \* the clock, in units of the shortest retention
  row,      \* the index: a row or NoRow for each hash
  file,     \* the hashes whose bytes are on disk
  job,      \* what each worker is doing, and where it stands
  sweep,    \* where the collector stands
  faults    \* errors and crashes so far

vars == <<now, row, file, job, sweep, faults>>

-----------------------------------------------------------------------------
(* Types.  A class stands for the columns provenance, role and anchor_kind *)
(* (and user_visible, user_deletable, which follow from them):             *)
(*   A sent by us, B received as an output, C staged by a peer for one of  *)
(*   our capabilities, D uploaded locally and not sent yet.                *)

Class == {"A", "B", "C", "D"}
NoRow == [class |-> "none"]
Row == [class : Class, expires : Nat,
        uploader : Peers \cup {Self, Nobody}, owner : Users \cup {Nobody}]

Step == {"quota", "write", "index", "unlink", "unindex", "cache",
         "sent", "mark", "insert", "held", "store", "output"}
Idle == [at |-> "idle"]
Job == [at : Step, hash : Hashes, who : Peers \cup Users]
Resting == [at |-> "rest"]

TypeOK ==
  /\ now \in 0..MaxTime
  /\ row \in [Hashes -> Row \cup {NoRow}]
  /\ file \subseteq Hashes
  /\ job \in [Workers -> Job \cup {Idle}]
  /\ sweep \in [at : {"delete", "unlink"}, since : 0..MaxTime, rows : SUBSET Hashes]
               \cup {Resting}
  /\ faults \in 0..MaxFaults

Init ==
  /\ now = 0
  /\ row = [h \in Hashes |-> NoRow]
  /\ file = {}
  /\ job = [w \in Workers |-> Idle]
  /\ sweep = Resting
  /\ faults = 0

Indexed(h) == row[h] # NoRow
Live(h) == Indexed(h) /\ row[h].expires > now
Expired(h) == Indexed(h) /\ row[h].expires <= now

\* mistaken form: INSERT OR REPLACE
Replaced(h, new) == [row EXCEPT ![h] = new]

\* blobs::upsert: bytes already indexed keep their class, uploader and owner
Upserted(h, new) ==
  [row EXCEPT ![h] = IF @ = NoRow THEN new ELSE [@ EXCEPT !.expires = new.expires]]

Charged(p) == {h \in Hashes : Live(h) /\ row[h].uploader = p}
BytesOf(p) == MapThenSumSet(LAMBDA h : Size[h], Charged(p))

WithinQuota(p, h) ==
  /\ BytesOf(p) + Size[h] <= PerPeerBytes
  /\ Cardinality(Charged(p)) < PerPeerBlobs

-----------------------------------------------------------------------------
Begins(w, step, h, x) ==
  /\ job[w] = Idle
  /\ job' = [job EXCEPT ![w] = [at |-> step, hash |-> h, who |-> x]]
At(w, step) == job[w].at = step
Goes(w, step) == job' = [job EXCEPT ![w].at = step]
Ends(w) == job' = [job EXCEPT ![w] = Idle]

(* PUT by a peer: the row is read, the quota is read, the file is written, *)
(* the row is upserted.  A row still live is answered 200 at once.         *)

PutLookup(w, p, h) ==
  /\ ~Live(h)
  /\ Begins(w, "quota", h, p)
  /\ UNCHANGED <<now, row, file, sweep, faults>>

PutQuota(w) ==
  /\ At(w, "quota")
  /\ IF WithinQuota(job[w].who, job[w].hash) THEN Goes(w, "write") ELSE Ends(w)
  /\ UNCHANGED <<now, row, file, sweep, faults>>

PutWrite(w) ==
  /\ At(w, "write")
  /\ file' = file \cup {job[w].hash}
  /\ Goes(w, "index")
  /\ UNCHANGED <<now, row, sweep, faults>>

PutIndex(w) ==
  /\ At(w, "index")
  /\ \E ttl \in InputTtl..WeekTtl :
       row' = Upserted(job[w].hash, [class |-> "C", expires |-> now + ttl,
                                     uploader |-> job[w].who, owner |-> Nobody])
  /\ Ends(w)
  /\ UNCHANGED <<now, file, sweep, faults>>

(* DELETE, by the peer that uploaded or by the user that owns: the file    *)
(* goes first, the row after it.                                           *)

DeleteLookup(w, p, h) ==
  /\ Indexed(h)
  /\ row[h].uploader = p
  /\ Begins(w, "unlink", h, p)
  /\ UNCHANGED <<now, row, file, sweep, faults>>

LocalDeleteLookup(w, u, h) ==
  /\ Indexed(h)
  /\ row[h].class # "C"
  /\ row[h].owner = u
  /\ Begins(w, "unlink", h, u)
  /\ UNCHANGED <<now, row, file, sweep, faults>>

Unlink(w) ==
  /\ At(w, "unlink")
  /\ file' = file \ {job[w].hash}
  /\ Goes(w, "unindex")
  /\ UNCHANGED <<now, row, sweep, faults>>

\* mistaken form: the step of a deletion is not taken back to idle
UnindexOpen(w) ==
  /\ At(w, "unindex")
  /\ row' = [row EXCEPT ![job[w].hash] = NoRow]
  /\ Goes(w, "done")
  /\ UNCHANGED <<now, file, sweep, faults>>

Unindex(w) ==
  /\ At(w, "unindex")
  /\ row' = [row EXCEPT ![job[w].hash] = NoRow]
  /\ Ends(w)
  /\ UNCHANGED <<now, file, sweep, faults>>

(* A local upload (store_local_cache): the file is written whatever the    *)
(* index says, then the row is upserted as class D.                        *)

LocalWrite(w, u, h) ==
  /\ Begins(w, "cache", h, u)
  /\ file' = file \cup {h}
  /\ UNCHANGED <<now, row, sweep, faults>>

LocalIndex(w) ==
  /\ At(w, "cache")
  /\ row' = Upserted(job[w].hash, [class |-> "D", expires |-> now + InputTtl,
                                   uploader |-> Nobody, owner |-> job[w].who])
  /\ Ends(w)
  /\ UNCHANGED <<now, file, sweep, faults>>

(* A blob argument of a remote invocation (prepare_invoke_args): the bytes *)
(* are read and sent, and once the peer has them the row is promoted.      *)

SendBytes(w, u, h) ==
  /\ h \in file
  /\ Begins(w, "sent", h, u)
  /\ UNCHANGED <<now, row, file, sweep, faults>>

SendFails(w) ==
  /\ At(w, "sent") \/ At(w, "output")
  /\ Ends(w)
  /\ UNCHANGED <<now, row, file, sweep, faults>>

RecordLookup(w) ==
  /\ At(w, "sent")
  /\ Goes(w, IF Indexed(job[w].hash) THEN "mark" ELSE "insert")
  /\ UNCHANGED <<now, row, file, sweep, faults>>

\* mistaken form: mark_outbound without its guard on provenance and anchor
PromotedAny(h) ==
  [row EXCEPT ![h] = IF @ # NoRow
                     THEN [@ EXCEPT !.class = "A", !.expires = now + InputTtl] ELSE @]

\* mark_outbound: only a row of class A or D
Promoted(h) ==
  [row EXCEPT ![h] = IF @ # NoRow /\ @.class \in {"A", "D"}
                     THEN [@ EXCEPT !.class = "A", !.expires = now + InputTtl]
                     ELSE @]

MarkOutbound(w) ==
  /\ At(w, "mark")
  /\ row' = Promoted(job[w].hash)
  /\ Ends(w)
  /\ UNCHANGED <<now, file, sweep, faults>>

InsertOutbound(w) ==
  /\ At(w, "insert")
  /\ row' = Upserted(job[w].hash, [class |-> "A", expires |-> now + InputTtl,
                                   uploader |-> Self, owner |-> Nobody])
  /\ Ends(w)
  /\ UNCHANGED <<now, file, sweep, faults>>

(* An output blob of a remote invocation (fetch_output_blobs): bytes held  *)
(* already only move the row to class B, others are downloaded, written    *)
(* and indexed.                                                            *)

\* mark_inbound_output: any row but one of class C
Returned(h) ==
  [row EXCEPT ![h] = IF @ # NoRow /\ @.class # "C"
                     THEN [@ EXCEPT !.class = "B", !.expires = now + OutputTtl]
                     ELSE @]

OutputHeld(w, u, h) ==
  /\ h \in file
  /\ Begins(w, "held", h, u)
  /\ UNCHANGED <<now, row, file, sweep, faults>>

MarkInbound(w) ==
  /\ At(w, "held")
  /\ row' = Returned(job[w].hash)
  /\ Ends(w)
  /\ UNCHANGED <<now, file, sweep, faults>>

OutputMissing(w, u, h) ==
  /\ h \notin file
  /\ Begins(w, "output", h, u)
  /\ UNCHANGED <<now, row, file, sweep, faults>>

OutputWrite(w) ==
  /\ At(w, "output")
  /\ file' = file \cup {job[w].hash}
  /\ Goes(w, "store")
  /\ UNCHANGED <<now, row, sweep, faults>>

OutputIndex(w) ==
  /\ At(w, "store")
  /\ row' = Upserted(job[w].hash, [class |-> "B", expires |-> now + OutputTtl,
                                   uploader |-> Nobody, owner |-> job[w].who])
  /\ Ends(w)
  /\ UNCHANGED <<now, file, sweep, faults>>

-----------------------------------------------------------------------------
(* The collector: it reads the clock and the expired rows, deletes the     *)
(* rows expired at that time in a second statement, and then removes the   *)
(* files of the rows it had read.                                          *)

SweepSelect ==
  /\ sweep = Resting
  /\ \E h \in Hashes : Expired(h)
  /\ sweep' = [at |-> "delete", since |-> now, rows |-> {h \in Hashes : Expired(h)}]
  /\ UNCHANGED <<now, row, file, job, faults>>

Swept(h) == Indexed(h) /\ row[h].expires <= sweep.since

SweepDelete ==
  /\ sweep.at = "delete"
  /\ row' = [h \in Hashes |-> IF Swept(h) THEN NoRow ELSE row[h]]
  /\ sweep' = [sweep EXCEPT !.at = "unlink"]
  /\ UNCHANGED <<now, file, job, faults>>

SweepUnlink ==
  /\ sweep.at = "unlink"
  /\ \E h \in sweep.rows :
       /\ file' = file \ {h}
       /\ sweep' = IF sweep.rows = {h} THEN Resting
                   ELSE [sweep EXCEPT !.rows = @ \ {h}]
  /\ UNCHANGED <<now, row, job, faults>>

-----------------------------------------------------------------------------
Tick ==
  /\ now < MaxTime
  /\ now' = now + 1
  /\ UNCHANGED <<row, file, job, sweep, faults>>

Fault == faults < MaxFaults /\ faults' = faults + 1

\* a statement on the index fails: the handler answers an error as it stands
IndexFails(w) ==
  /\ Fault
  /\ \E s \in {"index", "unindex", "cache", "mark", "insert", "held", "store"} : At(w, s)
  /\ Ends(w)
  /\ UNCHANGED <<now, row, file, sweep>>

\* mistaken form: the collector's task ends on the first error
SweepStops ==
  /\ Fault
  /\ sweep.at = "delete"
  /\ sweep' = [sweep EXCEPT !.at = "unlink", !.rows = {}]
  /\ UNCHANGED <<now, row, file, job>>

\* the collector logs the error and waits for its next tick
SweepFails ==
  /\ Fault
  /\ sweep.at = "delete"
  /\ sweep' = Resting
  /\ UNCHANGED <<now, row, file, job>>

Crash ==
  /\ Fault
  /\ job' = [w \in Workers |-> Idle]
  /\ sweep' = Resting
  /\ UNCHANGED <<now, row, file>>

Wire(w, h) == \E p \in Peers : PutLookup(w, p, h) \/ DeleteLookup(w, p, h)
Local(w, h) ==
  \E u \in Users : \/ LocalDeleteLookup(w, u, h) \/ LocalWrite(w, u, h)
                   \/ SendBytes(w, u, h) \/ OutputHeld(w, u, h) \/ OutputMissing(w, u, h)
Proceed(w) ==
  \/ PutQuota(w) \/ PutWrite(w) \/ PutIndex(w) \/ Unlink(w) \/ Unindex(w)
  \/ LocalIndex(w) \/ SendFails(w) \/ RecordLookup(w) \/ MarkOutbound(w)
  \/ InsertOutbound(w) \/ MarkInbound(w) \/ OutputWrite(w) \/ OutputIndex(w)
Collect == SweepSelect \/ SweepDelete \/ SweepUnlink

Next ==
  \/ \E w \in Workers : Proceed(w) \/ IndexFails(w) \/ \E h \in Hashes : Wire(w, h) \/ Local(w, h)
  \/ Collect \/ SweepFails \/ Tick \/ Crash

Spec == Init /\ [][Next]_vars

\* The collector is a task of its own with a timer: it always runs again.
FairSpec == Spec /\ WF_vars(SweepSelect) /\ WF_vars(SweepDelete) /\ WF_vars(SweepUnlink)

-----------------------------------------------------------------------------
Stays(h) == Indexed(h) /\ row'[h] # NoRow

\* The class of indexed bytes only moves on from D to A to B: no write takes
\* an output back to the cache, and a blob a peer staged for a capability is
\* never relabelled as one of our own (the WHERE clauses of mark_outbound and
\* mark_inbound_output, the columns upsert leaves alone).
ClassOnlyAdvances ==
  [][\A h \in Hashes : Stays(h) =>
       \/ row'[h].class = row[h].class
       \/ <<row[h].class, row'[h].class>> \in {<<"D", "A">>, <<"D", "B">>, <<"A", "B">>}]_vars

\* Indexed bytes keep their uploader and their owner: another peer or user
\* that brings the same bytes does not take the row over (upsert).
NobodyTakesOver ==
  [][\A h \in Hashes : Stays(h) =>
       row'[h].uploader = row[h].uploader /\ row'[h].owner = row[h].owner]_vars

\* A row that has expired is renewed or swept in the end, whatever statement
\* of the collector failed before (blob_gc::spawn goes on after an error).
ExpiredLeaves == \A h \in Hashes : Expired(h) ~> ~Expired(h)

\* Bytes whose row is live and that no handler is removing are on disk: what
\* HEAD answers 200 for can be fetched.
LiveIsFetchable ==
  \A h \in Hashes : Live(h) /\ (\A w \in Workers : job[w] # Idle => job[w].hash # h)
                    => h \in file
=============================================================================
