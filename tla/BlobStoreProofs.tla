--------------------------- MODULE BlobStoreProofs ---------------------------
(***************************************************************************)
(* Theorems about BlobStore, for any contents, peers, users, handlers and  *)
(* retentions: the index keeps its types, and whichever writers meet on a  *)
(* row, its class only advances and nobody takes it over.                  *)
(***************************************************************************)
EXTENDS BlobStore, TLAPS

(* The steps of a handler that come from the wire, and those that only a   *)
(* local user's request or plan takes.                                     *)
PeerStep == {"quota", "write", "index"}
UserStep == {"cache", "output", "store"}

(* Who a handler works for: a peer becomes an uploader, a user an owner.   *)
JobInv ==
  \A w \in Workers :
    /\ job[w].at \in PeerStep => job[w].who \in Peers
    /\ job[w].at \in UserStep => job[w].who \in Users

Inv == TypeOK /\ JobInv

LEMMA InvInit == Init => Inv
<1> SUFFICES ASSUME Init PROVE Inv
  OBVIOUS
<1>1. TypeOK
  BY BoundsAssumption DEF Init, TypeOK
<1>2. JobInv
  BY DEF Init, JobInv, Idle, PeerStep, UserStep
<1> QED
  BY <1>1, <1>2 DEF Inv

(* A handler that is on its way knows what it works on. *)
LEMMA Working ==
  ASSUME TypeOK, NEW w \in Workers, job[w].at \in Step
  PROVE  job[w] \in Job /\ job[w].hash \in Hashes /\ job[w].who \in Peers \cup Users
<1>1. job[w] # Idle
  BY DEF Step, Idle
<1> QED
  BY <1>1 DEF TypeOK, Job

(* How a handler comes, goes on and ends. *)
LEMMA BeginsInv ==
  ASSUME Inv, NEW w \in Workers, NEW h \in Hashes, NEW x \in Peers \cup Users,
         NEW s \in Step, Begins(w, s, h, x),
         s \in PeerStep => x \in Peers,
         s \in UserStep => x \in Users
  PROVE  job' \in [Workers -> Job \cup {Idle}] /\ JobInv'
BY DEF Inv, TypeOK, JobInv, Begins, Job, Idle

LEMMA GoesInv ==
  ASSUME Inv, NEW w \in Workers, job[w].at \in Step, NEW s \in Step, Goes(w, s),
         s \in PeerStep => job[w].at \in PeerStep,
         s \in UserStep => job[w].at \in UserStep
  PROVE  job' \in [Workers -> Job \cup {Idle}] /\ JobInv'
<1>1. job[w] \in Job
  BY Working DEF Inv
<1>2. [job[w] EXCEPT !.at = s] \in Job
  BY <1>1 DEF Job
<1>3. /\ job' = [job EXCEPT ![w] = [job[w] EXCEPT !.at = s]]
      /\ job \in [Workers -> Job \cup {Idle}]
  BY DEF Goes, Inv, TypeOK
<1>4. [job[w] EXCEPT !.at = s].who = job[w].who /\ [job[w] EXCEPT !.at = s].at = s
  BY <1>1 DEF Job
<1>5. JobInv'
  BY <1>3, <1>4 DEF Inv, JobInv
<1> QED
  BY <1>2, <1>3, <1>5

LEMMA EndsInv ==
  ASSUME Inv, NEW w \in Workers, Ends(w)
  PROVE  job' \in [Workers -> Job \cup {Idle}] /\ JobInv'
BY DEF Inv, TypeOK, JobInv, Ends, Idle, PeerStep, UserStep

-----------------------------------------------------------------------------
(* The writes to the index *)

LEMMA RowType ==
  ASSUME TypeOK, NEW h \in Hashes
  PROVE  row[h] = NoRow \/ (row[h] \in Row /\ row[h] # NoRow)
BY DEF TypeOK, Row, NoRow, Class

LEMMA UpsertedType ==
  ASSUME TypeOK, NEW h \in Hashes, NEW new \in Row
  PROVE  Upserted(h, new) \in [Hashes -> Row \cup {NoRow}]
<1>1. new.expires \in Nat
  BY DEF Row
<1>2. row[h] # NoRow => [row[h] EXCEPT !.expires = new.expires] \in Row
  BY <1>1, RowType DEF Row
<1> QED
  BY <1>2 DEF TypeOK, Upserted

LEMMA PromotedType ==
  ASSUME TypeOK, NEW h \in Hashes
  PROVE  Promoted(h) \in [Hashes -> Row \cup {NoRow}]
<1>1. now + InputTtl \in Nat
  BY TtlAssumption, BoundsAssumption DEF TypeOK
<1>2. row[h] # NoRow => [row[h] EXCEPT !.class = "A", !.expires = now + InputTtl] \in Row
  BY <1>1, RowType DEF Row, Class
<1> QED
  BY <1>2 DEF TypeOK, Promoted

LEMMA ReturnedType ==
  ASSUME TypeOK, NEW h \in Hashes
  PROVE  Returned(h) \in [Hashes -> Row \cup {NoRow}]
<1>1. now + OutputTtl \in Nat
  BY TtlAssumption, BoundsAssumption DEF TypeOK
<1>2. row[h] # NoRow => [row[h] EXCEPT !.class = "B", !.expires = now + OutputTtl] \in Row
  BY <1>1, RowType DEF Row, Class
<1> QED
  BY <1>2 DEF TypeOK, Returned

(* Whoever handles a hash, the row is left, renewed, promoted, returned or *)
(* removed.                                                                *)
Written(h) ==
  \/ row' = row
  \/ \E new \in Row : row' = Upserted(h, new)
  \/ row' = Promoted(h)
  \/ row' = Returned(h)
  \/ row' = [row EXCEPT ![h] = NoRow]

LEMMA WrittenType ==
  ASSUME TypeOK, NEW h \in Hashes, Written(h)
  PROVE  row' \in [Hashes -> Row \cup {NoRow}]
<1>1. CASE \E new \in Row : row' = Upserted(h, new)
  BY <1>1, UpsertedType
<1>2. CASE row' = Promoted(h) \/ row' = Returned(h)
  BY <1>2, PromotedType, ReturnedType
<1>3. CASE row' = row \/ row' = [row EXCEPT ![h] = NoRow]
  BY <1>3 DEF TypeOK
<1> QED
  BY <1>1, <1>2, <1>3 DEF Written

(* A handler's steps, on the index, the files and itself. *)
HandlerStep(w) ==
  /\ \E h \in Hashes : Written(h)
  /\ file' \subseteq Hashes
  /\ job' \in [Workers -> Job \cup {Idle}]
  /\ JobInv'
  /\ UNCHANGED <<now, sweep, faults>>

LEMMA Arrives ==
  ASSUME Inv, NEW w \in Workers, NEW h \in Hashes, Wire(w, h) \/ Local(w, h)
  PROVE  HandlerStep(w)
<1>1. UNCHANGED <<now, row, sweep, faults>> /\ file' \subseteq Hashes
  BY DEF Wire, Local, PutLookup, DeleteLookup, LocalDeleteLookup, LocalWrite,
         SendBytes, OutputHeld, OutputMissing, Inv, TypeOK
<1>2. ASSUME NEW p \in Peers, PutLookup(w, p, h) \/ DeleteLookup(w, p, h)
      PROVE  job' \in [Workers -> Job \cup {Idle}] /\ JobInv'
  BY <1>2, BeginsInv DEF PutLookup, DeleteLookup, Step, PeerStep, UserStep
<1>3. ASSUME NEW u \in Users,
             \/ LocalDeleteLookup(w, u, h) \/ LocalWrite(w, u, h)
             \/ SendBytes(w, u, h) \/ OutputHeld(w, u, h) \/ OutputMissing(w, u, h)
      PROVE  job' \in [Workers -> Job \cup {Idle}] /\ JobInv'
  BY <1>3, BeginsInv
  DEF LocalDeleteLookup, LocalWrite, SendBytes, OutputHeld, OutputMissing,
      Step, PeerStep, UserStep
<1> QED
  BY <1>1, <1>2, <1>3 DEF Wire, Local, HandlerStep, Written

LEMMA Proceeds ==
  ASSUME Inv, NEW w \in Workers, Proceed(w)
  PROVE  HandlerStep(w)
<1>1. /\ UNCHANGED <<now, sweep, faults>>
      /\ job[w].at \in Step
  BY DEF Proceed, PutQuota, PutWrite, PutIndex, Unlink, Unindex, LocalIndex,
         SendFails, RecordLookup, MarkOutbound, InsertOutbound, MarkInbound,
         OutputWrite, OutputIndex, At, Step
<1>2. job[w].hash \in Hashes
  BY <1>1, Working DEF Inv
<1>3. file' \subseteq Hashes
  BY <1>2 DEF Proceed, PutQuota, PutWrite, PutIndex, Unlink, Unindex, LocalIndex,
         SendFails, RecordLookup, MarkOutbound, InsertOutbound, MarkInbound,
         OutputWrite, OutputIndex, Inv, TypeOK
<1>4. job' \in [Workers -> Job \cup {Idle}] /\ JobInv'
  <2>1. CASE Ends(w)
    BY <2>1, EndsInv
  <2>2. CASE ~Ends(w)
    <3>1. CASE PutQuota(w) \/ PutWrite(w)
      BY <1>1, <2>2, <3>1, GoesInv DEF PutQuota, PutWrite, At, Step, PeerStep, UserStep
    <3>2. CASE Unlink(w)
      BY <1>1, <3>2, GoesInv DEF Unlink, At, Step, PeerStep, UserStep
    <3>3. CASE RecordLookup(w)
      <4>1. \E s \in {"mark", "insert"} : Goes(w, s)
        BY <3>3 DEF RecordLookup
      <4> QED
        BY <1>1, <4>1, GoesInv DEF Step, PeerStep, UserStep
    <3>4. CASE OutputWrite(w)
      BY <1>1, <3>4, GoesInv DEF OutputWrite, At, Step, PeerStep, UserStep
    <3> QED
      BY <2>2, <3>1, <3>2, <3>3, <3>4
      DEF Proceed, PutIndex, Unindex, LocalIndex, SendFails, MarkOutbound,
          InsertOutbound, MarkInbound, OutputIndex
  <2> QED
    BY <2>1, <2>2
<1>5. Written(job[w].hash)
  <2>1. now \in Nat /\ InputTtl \in Nat /\ OutputTtl \in Nat
    BY TtlAssumption, BoundsAssumption DEF Inv, TypeOK
  <2>2. CASE PutIndex(w)
    <3>1. PICK ttl \in InputTtl .. WeekTtl :
            row' = Upserted(job[w].hash, [class |-> "C", expires |-> now + ttl,
                                          uploader |-> job[w].who, owner |-> Nobody])
      BY <2>2 DEF PutIndex
    <3>2. now + ttl \in Nat
      BY <2>1, TtlAssumption
    <3>3. job[w].who \in Peers
      BY <2>2 DEF PutIndex, At, Inv, JobInv, PeerStep
    <3> QED
      BY <3>1, <3>2, <3>3 DEF Written, Row, Class
  <2>3. CASE LocalIndex(w) \/ OutputIndex(w)
    <3>1. job[w].who \in Users
      BY <2>3 DEF LocalIndex, OutputIndex, At, Inv, JobInv, UserStep
    <3>2. now + InputTtl \in Nat /\ now + OutputTtl \in Nat
      BY <2>1
    <3> QED
      BY <2>3, <3>1, <3>2 DEF LocalIndex, OutputIndex, Written, Row, Class
  <2>4. CASE InsertOutbound(w)
    <3>1. now + InputTtl \in Nat
      BY <2>1
    <3> QED
      BY <2>4, <3>1 DEF InsertOutbound, Written, Row, Class
  <2>5. CASE \/ PutQuota(w) \/ PutWrite(w) \/ Unlink(w) \/ Unindex(w) \/ SendFails(w)
             \/ RecordLookup(w) \/ MarkOutbound(w) \/ MarkInbound(w) \/ OutputWrite(w)
    BY <2>5 DEF PutQuota, PutWrite, Unlink, Unindex, SendFails, RecordLookup,
                MarkOutbound, MarkInbound, OutputWrite, Written
  <2> QED
    BY <2>2, <2>3, <2>4, <2>5 DEF Proceed
<1> QED
  BY <1>1, <1>2, <1>3, <1>4, <1>5 DEF HandlerStep

-----------------------------------------------------------------------------
(* All steps *)

LEMMA HandlerInv ==
  ASSUME Inv, NEW w \in Workers, HandlerStep(w)
  PROVE  Inv'
<1>1. row' \in [Hashes -> Row \cup {NoRow}]
  BY WrittenType DEF HandlerStep, Inv
<1> QED
  BY <1>1 DEF HandlerStep, Inv, TypeOK

LEMMA CollectInv ==
  ASSUME Inv, Collect \/ SweepFails \/ Tick \/ Crash
  PROVE  Inv'
<1>1. CASE Tick
  BY <1>1, BoundsAssumption DEF Tick, Inv, TypeOK, JobInv
<1>2. CASE Crash
  BY <1>2, BoundsAssumption
  DEF Crash, Fault, Inv, TypeOK, JobInv, Idle, PeerStep, UserStep
<1>3. CASE SweepFails
  BY <1>3, BoundsAssumption DEF SweepFails, Fault, Inv, TypeOK, JobInv
<1>4. CASE SweepSelect
  BY <1>4, BoundsAssumption DEF SweepSelect, Inv, TypeOK, JobInv
<1>5. CASE SweepDelete
  BY <1>5 DEF SweepDelete, Inv, TypeOK, JobInv, Resting
<1>6. CASE SweepUnlink
  BY <1>6 DEF SweepUnlink, Inv, TypeOK, JobInv, Resting
<1> QED
  BY <1>1, <1>2, <1>3, <1>4, <1>5, <1>6 DEF Collect

LEMMA IndexFailsInv ==
  ASSUME Inv, NEW w \in Workers, IndexFails(w)
  PROVE  Inv'
<1>1. job' \in [Workers -> Job \cup {Idle}] /\ JobInv'
  BY EndsInv DEF IndexFails
<1> QED
  BY <1>1, BoundsAssumption DEF IndexFails, Fault, Inv, TypeOK

LEMMA InvStep == Inv /\ [Next]_vars => Inv'
<1> SUFFICES ASSUME Inv, [Next]_vars PROVE Inv'
  OBVIOUS
<1>1. CASE UNCHANGED vars
  BY <1>1 DEF vars, Inv, TypeOK, JobInv
<1>2. ASSUME NEW w \in Workers, Proceed(w) \/ \E h \in Hashes : Wire(w, h) \/ Local(w, h)
      PROVE  Inv'
  BY <1>2, Arrives, Proceeds, HandlerInv
<1>3. ASSUME NEW w \in Workers, IndexFails(w)
      PROVE  Inv'
  BY <1>3, IndexFailsInv
<1>4. CASE Collect \/ SweepFails \/ Tick \/ Crash
  BY <1>4, CollectInv
<1> QED
  BY <1>1, <1>2, <1>3, <1>4 DEF Next

LEMMA Invariance == Spec => []Inv
BY InvInit, InvStep, PTL DEF Spec

(* TypeOK: rows, files, handlers and the collector keep their types: what  *)
(* a row names as uploader is a peer or this node, as owner a user.        *)
THEOREM TypeCorrect == Spec => []TypeOK
<1>1. Inv => TypeOK
  BY DEF Inv
<1> QED
  BY <1>1, Invariance, PTL

-----------------------------------------------------------------------------
(* What a row that stays may become *)

Advances(h) ==
  \/ row'[h].class = row[h].class
  \/ <<row[h].class, row'[h].class>> \in {<<"D", "A">>, <<"D", "B">>, <<"A", "B">>}

KeepsHands(h) == row'[h].uploader = row[h].uploader /\ row'[h].owner = row[h].owner

LEMMA WriteKeeps ==
  ASSUME Inv, NEW g \in Hashes, Written(g), NEW h \in Hashes, Stays(h)
  PROVE  Advances(h) /\ KeepsHands(h)
<1>1. row[h] \in Row /\ row' # [row EXCEPT ![h] = NoRow]
  BY RowType DEF Stays, Indexed, Inv, TypeOK
<1>2. row \in [Hashes -> Row \cup {NoRow}]
  BY DEF Inv, TypeOK
<1>3. CASE row'[h] = row[h]
  BY <1>3 DEF Advances, KeepsHands
<1>4. CASE row'[h] # row[h]
  <2>1. g = h
    BY <1>2, <1>4 DEF Written, Upserted, Promoted, Returned
  <2>2. CASE \E new \in Row : row' = Upserted(h, new)
    <3>1. PICK new \in Row : row' = Upserted(h, new)
      BY <2>2
    <3>2. row'[h] = [row[h] EXCEPT !.expires = new.expires]
      BY <1>2, <3>1 DEF Upserted, Stays, Indexed
    <3> QED
      BY <1>1, <3>2 DEF Advances, KeepsHands, Row
  <2>3. CASE row' = Promoted(h)
    <3>1. /\ row[h].class \in {"A", "D"}
          /\ row'[h] = [row[h] EXCEPT !.class = "A", !.expires = now + InputTtl]
      BY <1>2, <1>4, <2>3 DEF Promoted
    <3> QED
      BY <1>1, <3>1 DEF Advances, KeepsHands, Row
  <2>4. CASE row' = Returned(h)
    <3>1. /\ row[h].class # "C"
          /\ row'[h] = [row[h] EXCEPT !.class = "B", !.expires = now + OutputTtl]
      BY <1>2, <1>4, <2>4 DEF Returned
    <3> QED
      BY <1>1, <3>1 DEF Advances, KeepsHands, Row, Class
  <2>5. ~(row' = [row EXCEPT ![h] = NoRow])
    BY <1>1
  <2> QED
    BY <1>4, <2>1, <2>2, <2>3, <2>4, <2>5 DEF Written
<1> QED
  BY <1>3, <1>4

LEMMA StepKeeps ==
  Inv /\ [Next]_vars => \A h \in Hashes : Stays(h) => Advances(h) /\ KeepsHands(h)
<1> SUFFICES ASSUME Inv, [Next]_vars, NEW h \in Hashes, Stays(h)
             PROVE  Advances(h) /\ KeepsHands(h)
  OBVIOUS
<1>1. ASSUME NEW w \in Workers, Proceed(w) \/ \E g \in Hashes : Wire(w, g) \/ Local(w, g)
      PROVE  Advances(h) /\ KeepsHands(h)
  <2>1. HandlerStep(w)
    BY <1>1, Arrives, Proceeds
  <2> QED
    BY <2>1, WriteKeeps DEF HandlerStep
<1>2. CASE SweepDelete
  BY <1>2 DEF SweepDelete, Stays, Advances, KeepsHands, Inv, TypeOK
<1>3. CASE UNCHANGED row
  BY <1>3 DEF Advances, KeepsHands
<1>4. CASE \/ UNCHANGED vars \/ \E w \in Workers : IndexFails(w)
           \/ SweepSelect \/ SweepUnlink \/ SweepFails \/ Tick \/ Crash
  BY <1>3, <1>4 DEF vars, IndexFails, SweepSelect, SweepUnlink, SweepFails, Tick, Crash
<1> QED
  BY <1>1, <1>2, <1>4 DEF Next, Collect

(* ClassOnlyAdvances: whichever of an upload, a local file, a sending, an  *)
(* output and the collector meet on one content, its class moves on from   *)
(* local to sent to received, and never back or to another's.              *)
THEOREM ClassAdvances == Spec => ClassOnlyAdvances
<1>1. Inv /\ [Next]_vars =>
        [\A h \in Hashes : Stays(h) =>
           \/ row'[h].class = row[h].class
           \/ <<row[h].class, row'[h].class>> \in
                {<<"D", "A">>, <<"D", "B">>, <<"A", "B">>}]_vars
  BY StepKeeps DEF Advances
<1> QED
  BY <1>1, Invariance, PTL DEF Spec, ClassOnlyAdvances

(* NobodyTakesOver: indexed bytes keep their uploader and their owner,     *)
(* whoever else brings the same bytes, and however its steps fall between  *)
(* another's.                                                              *)
THEOREM HandsKept == Spec => NobodyTakesOver
<1>1. Inv /\ [Next]_vars =>
        [\A h \in Hashes : Stays(h) =>
           row'[h].uploader = row[h].uploader /\ row'[h].owner = row[h].owner]_vars
  BY StepKeeps DEF KeepsHands
<1> QED
  BY <1>1, Invariance, PTL DEF Spec, NobodyTakesOver
=============================================================================
