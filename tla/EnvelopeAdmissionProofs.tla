----------------------- MODULE EnvelopeAdmissionProofs -----------------------
(***************************************************************************)
(* Proofs about EnvelopeAdmission, for any set of envelopes and workers    *)
(* and any times that satisfy WindowAssumption.                            *)
(*                                                                         *)
(* The argument for AtMostOnce: the row of an admitted envelope is pruned  *)
(* only once the clock can never again show a time at which the envelope   *)
(* is fresh, not even set back, and too late for a request that verified   *)
(* a copy earlier to be still short of its insert (NonceInv).  Until then  *)
(* the row refuses every copy, so an envelope is admitted at most once and *)
(* one request at most carries it out (OnceInv).                           *)
(***************************************************************************)
EXTENDS EnvelopeAdmission, TLAPS

(* The largest distance, in ticks, of a fresh envelope from the clock. *)
Reach == 2 * Skew + 1

(* No copy of m can be admitted any more. *)
Dead(m) == highest - StepBack > m.ts + Reach + Delay

ClockInv == highest - StepBack <= clock

(* What a request remembers of the clock is close to the envelope's time,  *)
(* and the clock has not moved on far while the request is unadmitted.     *)
HeldInv ==
  \A w \in Worker :
    /\ Unadmitted(w) =>
         /\ req[w].at - Reach <= req[w].msg.ts
         /\ req[w].msg.ts <= req[w].at + Reach
         /\ clock <= req[w].at + Delay
         /\ req[w].at <= highest
    /\ req[w].now <= highest
    /\ req[w].pc = "stamped" => req[w].msg.ts <= req[w].now + Reach + StepBack

Pending(w) == req[w].pc \in {"admitted", "pruned"}

Carried(w) == req[w].pc \in {"executed", "recorded"}

OnceInv ==
  /\ \A m \in Message : admitted[m] <= 1 /\ executed[m] <= admitted[m]
  /\ \A w \in Worker :
       Pending(w) => admitted[req[w].msg] = 1 /\ executed[req[w].msg] = 0
  /\ \A v, w \in Worker :
       Pending(v) /\ Pending(w) /\ req[v].msg = req[w].msg => v = w

(* A row belongs to an admitted envelope and is no older than it; an       *)
(* admitted envelope without a row is dead.                                *)
NonceInv ==
  /\ \A row \in nonces, m \in Message :
       SameKey(row, m) =>
         admitted[m] > 0 /\ m.ts <= 2 * row.seenAt + 1 + Reach + StepBack
  /\ \A m \in Message : admitted[m] > 0 /\ ~Seen(m) => Dead(m)

(* A request past its execution stands for one carried out. *)
CarriedInv ==
  \A w \in Worker :
    Carried(w) => req[w].msg.verb = "request" /\ executed[req[w].msg] > 0

Inv == ClockInv /\ HeldInv /\ OnceInv /\ NonceInv

-----------------------------------------------------------------------------
(* Types *)

(* Every step of a request keeps the types, and a worker past "idle" holds  *)
(* an envelope.                                                            *)
LEMMA HandleTypes == ASSUME TypeOK, NEW w \in Worker, Handle(w) PROVE TypeOK'
<1> USE DEF TypeOK, Request, Pc, Door, Idle
<1>1. ASSUME NEW m \in Message, NEW door \in Door, Verify(w, m, door)
      PROVE TypeOK'
  BY <1>1 DEF Verify
<1>2. CASE Stamp(w)
  BY <1>2 DEF Stamp
<1>3. CASE InsertNonce(w)
  <2> DEFINE m == req[w].msg
  <2>1. m \in Message /\ m.sender \in Senders /\ req[w].now \in Nat
    BY <1>3 DEF InsertNonce, Senders
  <2>2. Seconds(req[w].now) \in Nat
    BY <2>1 DEF Seconds
  <2>3. nonces' \subseteq NonceRow
    BY <1>3, <2>1, <2>2 DEF InsertNonce, NonceRow
  <2>4. admitted' \in [Message -> Nat]
    BY <1>3, <2>1 DEF InsertNonce
  <2>5. QED BY <1>3, <2>3, <2>4 DEF InsertNonce
<1>4. CASE RefuseReplay(w)
  BY <1>4 DEF RefuseReplay
<1>5. CASE StorageError(w)
  BY <1>5 DEF StorageError
<1>6. CASE Prune(w)
  BY <1>6 DEF Prune
<1>7. CASE Execute(w) \/ ExecuteTicket(w)
  BY <1>7 DEF Execute, ExecuteTicket
<1>8. CASE RefuseTicket(w)
  BY <1>8 DEF RefuseTicket
<1>9. CASE Record(w)
  BY <1>9 DEF Record, Journalled
<1>10. CASE RecordFailure(w)
  BY <1>10 DEF RecordFailure, Journalled
<1>11. CASE Announce(w)
  <2>1. req[w].msg \in Message /\ req[w].msg.sender \in Senders
    BY <1>11 DEF Announce, Senders
  <2>2. req[w].msg.endpoint \in Endpoint \cup {NoEndpoint}
    BY <2>1, MessageAssumption
  <2>3. directory' \in [Senders -> Endpoint \cup {NoEndpoint}]
    BY <1>11, <2>1, <2>2 DEF Announce
  <2>4. QED BY <1>11, <2>3 DEF Announce
<1>12. QED
  BY <1>1, <1>2, <1>3, <1>4, <1>5, <1>6, <1>7, <1>8, <1>9, <1>10, <1>11
  DEF Handle

(* Verification, admission, execution and announce keep every variable in  *)
(* its type, as do the clock and a crash.                                  *)
THEOREM TypeCorrect == Spec => []TypeOK
<1>1. Init => TypeOK
  BY WindowAssumption DEF Init, TypeOK, Idle, Request, Pc, Door
<1>2. ASSUME TypeOK, Tick \/ SetBack \/ Crash PROVE TypeOK'
  BY <1>2 DEF TypeOK, Tick, SetBack, Crash, Idle, Request, Pc, Door
<1>3. ASSUME TypeOK, UNCHANGED vars PROVE TypeOK'
  BY <1>3 DEF TypeOK, vars
<1>4. TypeOK /\ [Next]_vars => TypeOK'
  BY <1>2, <1>3, HandleTypes DEF Next
<1>5. QED
  BY <1>1, <1>4, PTL DEF Spec

-----------------------------------------------------------------------------
(* Preservation, one lemma per part of Inv *)

(* A fresh envelope is at most Reach ticks away from the clock. *)
LEMMA FreshReach ==
  ASSUME NEW m \in Message, NEW t \in Nat, Fresh(m, t)
  PROVE  t - Reach <= m.ts /\ m.ts <= t + Reach
  BY MessageAssumption, WindowAssumption DEF Fresh, Seconds, Reach

(* The clock stays within StepBack of its highest reading. *)
LEMMA ClockStep == TypeOK /\ ClockInv /\ [Next]_vars => ClockInv'
<1> SUFFICES ASSUME TypeOK, ClockInv, [Next]_vars PROVE ClockInv'
  OBVIOUS
<1> USE DEF TypeOK, ClockInv
<1>1. CASE Tick
  BY <1>1, WindowAssumption DEF Tick
<1>2. CASE SetBack
  BY <1>2, WindowAssumption DEF SetBack
<1>3. CASE UNCHANGED <<clock, highest>>
  BY <1>3
<1>4. QED
  BY <1>1, <1>2, <1>3 DEF Next, vars, Crash, Handle, Verify, Stamp, InsertNonce,
     RefuseReplay, StorageError, Prune, Execute, ExecuteTicket, RefuseTicket,
     Record, RecordFailure, Announce

(* What requests remember of the clock stays close to their envelopes. *)
LEMMA HeldStep == TypeOK /\ ClockInv /\ HeldInv /\ [Next]_vars => HeldInv'
<1> SUFFICES ASSUME TypeOK, ClockInv, HeldInv, [Next]_vars PROVE HeldInv'
  OBVIOUS
<1> USE DEF TypeOK, Request, Pc, HeldInv, Unadmitted
<1>1. CASE Tick
  BY <1>1, WindowAssumption DEF Tick
<1>2. CASE SetBack
  BY <1>2, WindowAssumption DEF SetBack
<1>3. CASE Crash
  BY <1>3 DEF Crash, Idle
<1>4. ASSUME NEW w \in Worker, Handle(w) PROVE HeldInv'
  <2>1. ASSUME NEW m \in Message, NEW door \in Door, Verify(w, m, door)
        PROVE HeldInv'
    <3>1. clock - Reach <= m.ts /\ m.ts <= clock + Reach
      BY <2>1, FreshReach DEF Verify
    <3>2. clock <= clock + Delay /\ 0 <= highest
      BY WindowAssumption
    <3>3. QED BY <2>1, <3>1, <3>2 DEF Verify
  <2>2. CASE Stamp(w)
    <3>1. req[w].msg \in Message /\ req[w].msg.ts \in Nat
      BY <2>2, MessageAssumption DEF Stamp
    <3>2. req[w].msg.ts <= clock + Reach + StepBack
      BY <2>2, <3>1, WindowAssumption DEF Stamp, ClockInv, Reach
    <3>3. QED BY <2>2, <3>2 DEF Stamp
  <2>3. CASE /\ UNCHANGED <<clock, highest>>
             /\ \/ req' = [req EXCEPT ![w] = Idle]
                \/ \E pc \in Pc \ {"verified", "stamped"} :
                     req' = [req EXCEPT ![w].pc = pc]
    <3>1. CASE req' = [req EXCEPT ![w] = Idle]
      BY <2>3, <3>1 DEF Idle
    <3>2. ASSUME NEW pc \in Pc \ {"verified", "stamped"},
                 req' = [req EXCEPT ![w].pc = pc]
          PROVE HeldInv'
      BY <2>3, <3>2
    <3>3. QED BY <2>3, <3>1, <3>2
  <2>4. QED
    BY <1>4, <2>1, <2>2, <2>3 DEF Handle, InsertNonce, RefuseReplay,
       StorageError, Prune, Execute, ExecuteTicket, RefuseTicket, Record,
       RecordFailure, Announce
<1>5. CASE UNCHANGED vars
  BY <1>5 DEF vars
<1>6. QED
  BY <1>1, <1>2, <1>3, <1>4, <1>5 DEF Next

(* An envelope is admitted once and pending in one request. *)
LEMMA OnceStep == TypeOK /\ Inv /\ [Next]_vars => OnceInv'
<1> SUFFICES ASSUME TypeOK, Inv, [Next]_vars PROVE OnceInv'
  OBVIOUS
<1> USE DEF TypeOK, Request, Pc, OnceInv, Pending
<1>1. CASE UNCHANGED <<admitted, executed>> /\ req' = [w \in Worker |-> Idle]
  BY <1>1 DEF Idle, Inv
<1>2. ASSUME NEW w \in Worker, Handle(w) PROVE OnceInv'
  <2>1. CASE InsertNonce(w)
    <3> DEFINE m == req[w].msg
    <3>1. m \in Message /\ m.ts \in Nat
      BY <2>1, MessageAssumption DEF InsertNonce
    <3>2. ~Dead(m)
      BY <2>1, <3>1, WindowAssumption
         DEF InsertNonce, Inv, ClockInv, HeldInv, Unadmitted, Dead, Reach
    <3>3. admitted[m] = 0 /\ executed[m] = 0
      BY <2>1, <3>1, <3>2 DEF InsertNonce, Inv, NonceInv
    <3>4. \A v \in Worker : Pending(v) => req[v].msg # m
      BY <3>3 DEF Inv
    <3>5. admitted' = [admitted EXCEPT ![m] = 1]
      BY <2>1, <3>3 DEF InsertNonce
    <3>6. QED BY <2>1, <3>1, <3>3, <3>4, <3>5 DEF InsertNonce, Inv
  <2>2. CASE Execute(w)
    <3> DEFINE m == req[w].msg
    <3>1. m \in Message /\ admitted[m] = 1 /\ executed[m] = 0
      BY <2>2 DEF Execute, Inv
    <3>2. executed' = [executed EXCEPT ![m] = 1]
      BY <2>2, <3>1 DEF Execute
    <3>3. \A v \in Worker : v # w /\ Pending(v) => req[v].msg # m
      BY <2>2 DEF Execute, Inv
    <3>4. QED BY <2>2, <3>1, <3>2, <3>3 DEF Execute, Inv
  <2>3. CASE ExecuteTicket(w)
    <3> DEFINE m == req[w].msg
    <3>1. m \in Message /\ admitted[m] = 1 /\ executed[m] = 0
      BY <2>3 DEF ExecuteTicket, Inv
    <3>2. executed' = [executed EXCEPT ![m] = 1]
      BY <2>3, <3>1 DEF ExecuteTicket
    <3>3. \A v \in Worker : v # w /\ Pending(v) => req[v].msg # m
      BY <2>3 DEF ExecuteTicket, Inv
    <3>4. QED BY <2>3, <3>1, <3>2, <3>3 DEF ExecuteTicket, Inv, Idle
  <2>4. CASE Prune(w)
    BY <2>4 DEF Prune, Inv
  <2>5. ASSUME NEW m \in Message, NEW door \in Door, Verify(w, m, door)
        PROVE OnceInv'
    BY <2>5 DEF Verify, Inv
  <2>6. CASE Stamp(w)
    BY <2>6 DEF Stamp, Inv
  <2>7. CASE Record(w)
    BY <2>7 DEF Record, Inv
  <2>8. CASE UNCHANGED <<admitted, executed>> /\ req' = [req EXCEPT ![w] = Idle]
    BY <2>8 DEF Idle, Inv
  <2>9. QED
    BY <1>2, <2>1, <2>2, <2>3, <2>4, <2>5, <2>6, <2>7, <2>8 DEF Handle,
       RefuseReplay, StorageError, RefuseTicket, RecordFailure, Announce
<1>3. CASE UNCHANGED <<admitted, executed, req>>
  BY <1>3 DEF Inv
<1>4. QED
  BY <1>1, <1>2, <1>3 DEF Next, Tick, SetBack, Crash, vars

(* A row leaves the table only when its envelope is dead. *)
LEMMA NonceStep == TypeOK /\ Inv /\ [Next]_vars => NonceInv'
<1> SUFFICES ASSUME TypeOK, Inv, [Next]_vars PROVE NonceInv'
  OBVIOUS
<1> USE DEF TypeOK, NonceInv, Seen, SameKey
<1>1. CASE UNCHANGED <<nonces, admitted>> /\ highest' >= highest /\ highest' \in Nat
  <2>1. \A m \in Message : Dead(m) => Dead(m)'
    BY <1>1, MessageAssumption, WindowAssumption DEF Dead, Reach
  <2>2. QED BY <1>1, <2>1 DEF Inv
<1>2. ASSUME NEW w \in Worker, InsertNonce(w) PROVE NonceInv'
  <2> DEFINE m == req[w].msg
             row == [sender |-> m.sender, nonce |-> m.nonce,
                     seenAt |-> Seconds(req[w].now)]
  <2>1. m \in Message /\ m.ts \in Nat /\ req[w].now \in Nat
    BY <1>2, MessageAssumption DEF InsertNonce, Request
  <2>2. m.ts <= req[w].now + Reach + StepBack
    BY <1>2 DEF InsertNonce, Inv, HeldInv
  <2>3. m.ts <= 2 * row.seenAt + 1 + Reach + StepBack
    BY <2>1, <2>2, WindowAssumption DEF Seconds, Reach
  <2>4. nonces' = nonces \cup {row} /\ highest' = highest
    BY <1>2 DEF InsertNonce
  <2>5. admitted' = [admitted EXCEPT ![m] = @ + 1] /\ admitted'[m] > 0
    BY <1>2, <2>1 DEF InsertNonce
  <2>6. \A n \in Message : SameKey(row, n) => n = m
    BY <2>1, MessageAssumption
  <2>7. \A n \in Message : admitted[n] > 0 => admitted'[n] > 0
    BY <2>1, <2>5
  <2>8. ASSUME NEW r \in nonces', NEW n \in Message, SameKey(r, n)
        PROVE admitted'[n] > 0 /\ n.ts <= 2 * r.seenAt + 1 + Reach + StepBack
    <3>1. CASE r \in nonces
      BY <3>1, <2>7, <2>8 DEF Inv
    <3>2. CASE r = row
      BY <3>2, <2>3, <2>5, <2>6, <2>8
    <3>3. QED BY <2>4, <3>1, <3>2
  <2>9. ASSUME NEW n \in Message, admitted'[n] > 0, ~Seen(n)' PROVE Dead(n)'
    <3>1. ~Seen(n) /\ n # m
      <4>1. row \in nonces' /\ SameKey(row, m)
        BY <2>4
      <4>2. ~Seen(n)
        BY <2>4, <2>9
      <4>3. QED BY <2>9, <4>1, <4>2
    <3>2. admitted[n] > 0
      BY <2>1, <2>5, <2>9, <3>1
    <3>3. QED BY <2>4, <3>1, <3>2 DEF Inv, Dead
  <2>10. QED BY <2>8, <2>9
<1>3. ASSUME NEW w \in Worker, Prune(w) PROVE NonceInv'
  <2>1. /\ nonces' \subseteq nonces /\ nonces \ nonces' \subseteq Expired(w)
        /\ UNCHANGED <<admitted, highest>>
    BY <1>3 DEF Prune
  <2>2. req[w].now \in Nat /\ req[w].now <= highest
    BY DEF Inv, HeldInv, Request
  <2>3. ASSUME NEW m \in Message, NEW r \in nonces, SameKey(r, m), r \notin nonces'
        PROVE Dead(m)
    <3>1. r.seenAt \in Nat /\ m.ts \in Nat
      BY MessageAssumption DEF NonceRow
    <3>2. r.seenAt < Seconds(req[w].now) - TTL
      BY <2>1, <2>3 DEF Expired
    <3>3. m.ts <= 2 * r.seenAt + 1 + Reach + StepBack
      BY <2>3 DEF Inv
    <3>4. 2 * Seconds(req[w].now) <= highest
      BY <2>2 DEF Seconds
    <3>5. Seconds(req[w].now) \in Nat
      BY <2>2 DEF Seconds
    <3>6. QED
      BY <3>1, <3>2, <3>3, <3>4, <3>5, WindowAssumption DEF Dead, Reach
  <2>4. ASSUME NEW m \in Message, admitted'[m] > 0, ~Seen(m)' PROVE Dead(m)'
    <3>1. CASE Seen(m)
      <4>1. PICK r \in nonces : SameKey(r, m)
        BY <3>1
      <4>2. r \notin nonces'
        BY <2>4, <4>1
      <4>3. QED BY <2>1, <2>3, <4>1, <4>2 DEF Dead
    <3>2. CASE ~Seen(m)
      BY <2>1, <2>4, <3>2 DEF Inv, Dead
    <3>3. QED BY <3>1, <3>2
  <2>5. QED BY <2>1, <2>4 DEF Inv
<1>4. CASE Tick
  BY <1>1, <1>4 DEF Tick
<1>5. CASE UNCHANGED <<nonces, admitted, highest>>
  BY <1>1, <1>5
<1>6. QED
  BY <1>2, <1>3, <1>4, <1>5 DEF Next, vars, SetBack, Crash, Handle, Verify,
     Stamp, RefuseReplay, StorageError, Execute, ExecuteTicket, RefuseTicket,
     Record, RecordFailure, Announce

LEMMA InvStep == TypeOK /\ Inv /\ [Next]_vars => Inv'
  BY ClockStep, HeldStep, OnceStep, NonceStep DEF Inv

LEMMA InitInv == Init => Inv
<1> SUFFICES ASSUME Init PROVE Inv
  OBVIOUS
<1>1. ClockInv
  BY WindowAssumption DEF Init, ClockInv
<1>2. HeldInv
  BY DEF Init, HeldInv, Idle, Unadmitted
<1>3. OnceInv
  BY DEF Init, OnceInv, Idle, Pending
<1>4. NonceInv
  BY DEF Init, NonceInv
<1>5. QED
  BY <1>1, <1>2, <1>3, <1>4 DEF Inv

-----------------------------------------------------------------------------
(* Theorems *)

(* No envelope's operation is carried out twice, for any number of copies, *)
(* doors, concurrent requests and crashes, if a nonce is kept for longer   *)
(* than twice the skew plus what the clock and a slow insert may add.      *)
THEOREM AdmittedOnce == Spec => []AtMostOnce
<1>1. TypeOK /\ Inv => AtMostOnce
  <2> SUFFICES ASSUME TypeOK, Inv, NEW m \in Message PROVE executed[m] <= 1
    BY DEF AtMostOnce
  <2>1. executed[m] \in Nat /\ admitted[m] \in Nat
    BY DEF TypeOK
  <2>2. executed[m] <= admitted[m] /\ admitted[m] <= 1
    BY DEF Inv, OnceInv
  <2>3. QED BY <2>1, <2>2
<1>2. QED
  BY <1>1, TypeCorrect, InitInv, InvStep, PTL DEF Spec

(* A request refused as a replay is a copy of an envelope admitted before. *)
THEOREM ReplaySound == Spec => []ReplayWasAdmitted
<1>1. Init => ReplayWasAdmitted
  BY DEF Init, ReplayWasAdmitted
<1>2. TypeOK /\ Inv /\ ReplayWasAdmitted /\ [Next]_vars => ReplayWasAdmitted'
  <2> SUFFICES ASSUME TypeOK, Inv, ReplayWasAdmitted, [Next]_vars
               PROVE ReplayWasAdmitted'
    OBVIOUS
  <2>1. \A m \in Message : admitted[m] > 0 => admitted'[m] > 0
    <3>1. ASSUME NEW w \in Worker, InsertNonce(w)
          PROVE \A m \in Message : admitted[m] > 0 => admitted'[m] > 0
      BY <3>1 DEF InsertNonce, TypeOK
    <3>2. QED
      BY <3>1 DEF Next, vars, Tick, SetBack, Crash, Handle, Verify, Stamp,
         RefuseReplay, StorageError, Prune, Execute, ExecuteTicket,
         RefuseTicket, Record, RecordFailure, Announce
  <2>2. ASSUME NEW w \in Worker, RefuseReplay(w) PROVE ReplayWasAdmitted'
    <3>1. req[w].msg \in Message /\ admitted[req[w].msg] > 0
      BY <2>2 DEF RefuseReplay, TypeOK, Inv, NonceInv, Seen
    <3>2. QED BY <2>2, <3>1 DEF RefuseReplay, ReplayWasAdmitted
  <2>3. CASE UNCHANGED replayed
    BY <2>1, <2>3 DEF ReplayWasAdmitted, TypeOK
  <2>4. QED
    BY <2>2, <2>3 DEF Next, vars, Tick, SetBack, Crash, Handle, Verify, Stamp,
       InsertNonce, StorageError, Prune, Execute, ExecuteTicket, RefuseTicket,
       Record, RecordFailure, Announce
<1>3. QED
  BY <1>1, <1>2, TypeCorrect, InitInv, InvStep, PTL DEF Spec

(* An operation carried out stays carried out, and a request past its      *)
(* execution is one of those.                                              *)
LEMMA CarriedStep ==
  TypeOK /\ CarriedInv /\ [Next]_vars =>
    CarriedInv' /\ \A m \in Message : executed[m] > 0 => executed'[m] > 0
<1> SUFFICES ASSUME TypeOK, CarriedInv, [Next]_vars
             PROVE  CarriedInv' /\ \A m \in Message :
                                     executed[m] > 0 => executed'[m] > 0
  OBVIOUS
<1> USE DEF TypeOK, Request, Pc, CarriedInv, Carried
<1>1. ASSUME NEW w \in Worker,
             executed' = [executed EXCEPT ![req[w].msg] = @ + 1],
             req[w].msg \in Message
      PROVE \A m \in Message : executed[m] > 0 => executed'[m] > 0
  BY <1>1
<1>2. ASSUME NEW w \in Worker, Execute(w) PROVE CarriedInv'
  <2>1. req[w].msg \in Message
    BY <1>2 DEF Execute
  <2>2. executed'[req[w].msg] > 0
    BY <1>2, <2>1 DEF Execute
  <2>3. QED BY <1>1, <1>2, <2>1, <2>2 DEF Execute
<1>3. ASSUME NEW w \in Worker, ExecuteTicket(w) PROVE CarriedInv'
  BY <1>1, <1>3 DEF ExecuteTicket, Idle
<1>4. CASE Crash
  BY <1>4 DEF Crash, Idle
<1>5. ASSUME NEW w \in Worker, UNCHANGED executed, Handle(w) PROVE CarriedInv'
  <2>1. CASE req' = [req EXCEPT ![w] = Idle]
    BY <1>5, <2>1 DEF Idle
  <2>2. CASE Record(w)
    BY <1>5, <2>2 DEF Record
  <2>3. ASSUME NEW m \in Message, NEW door \in Door, Verify(w, m, door)
        PROVE CarriedInv'
    BY <1>5, <2>3 DEF Verify
  <2>4. CASE Stamp(w)
    BY <1>5, <2>4 DEF Stamp
  <2>5. CASE InsertNonce(w)
    BY <1>5, <2>5 DEF InsertNonce
  <2>6. CASE Prune(w)
    BY <1>5, <2>6 DEF Prune
  <2>7. CASE Execute(w)
    BY <1>2, <2>7
  <2>8. QED
    BY <1>5, <2>1, <2>2, <2>3, <2>4, <2>5, <2>6, <2>7 DEF Handle,
       RefuseReplay, StorageError, ExecuteTicket, RefuseTicket, RecordFailure,
       Announce
<1>6. CASE UNCHANGED executed
  <2>1. CASE UNCHANGED req
    BY <1>6, <2>1
  <2>2. QED
    BY <1>4, <1>5, <1>6, <2>1 DEF Next, Tick, SetBack, vars
<1>7. ASSUME NEW w \in Worker, Execute(w) \/ ExecuteTicket(w)
      PROVE \A m \in Message : executed[m] > 0 => executed'[m] > 0
  BY <1>1, <1>7 DEF Execute, ExecuteTicket
<1>8. QED
  BY <1>2, <1>3, <1>6, <1>7 DEF Next, vars, Tick, SetBack, Crash, Handle,
     Verify, Stamp, InsertNonce, RefuseReplay, StorageError, Prune,
     RefuseTicket, Record, RecordFailure, Announce

(* Whatever endpoint the directory holds was announced, under the peer's   *)
(* signature, by a request that was carried out.                           *)
THEOREM DirectorySound == Spec => []DirectoryFromServed
<1>1. Init => CarriedInv /\ DirectoryFromServed
  BY DEF Init, CarriedInv, Carried, Idle, DirectoryFromServed
<1>2. TypeOK /\ CarriedInv /\ DirectoryFromServed /\ [Next]_vars =>
        CarriedInv' /\ DirectoryFromServed'
  <2> SUFFICES ASSUME TypeOK, CarriedInv, DirectoryFromServed, [Next]_vars
               PROVE  DirectoryFromServed'
    BY CarriedStep
  <2>1. \A m \in Message : executed[m] > 0 => executed'[m] > 0
    BY CarriedStep
  <2>2. CASE UNCHANGED directory
    BY <2>1, <2>2 DEF DirectoryFromServed
  <2>3. ASSUME NEW w \in Worker, Announce(w) PROVE DirectoryFromServed'
    <3> DEFINE m == req[w].msg
    <3>1. m \in Message /\ m.verb = "request" /\ executed[m] > 0
      BY <2>3 DEF Announce, TypeOK, CarriedInv, Carried
    <3>2. CASE m.endpoint # NoEndpoint /\ m.sender # Self
                 /\ directory' = [directory EXCEPT ![m.sender] = m.endpoint]
      <4> SUFFICES ASSUME NEW s \in Senders, directory'[s] # NoEndpoint
                   PROVE  /\ s # Self
                          /\ \E n \in Message :
                               /\ n.sender = s /\ n.endpoint = directory'[s]
                               /\ n.verb = "request" /\ executed'[n] > 0
        BY DEF DirectoryFromServed
      <4>1. CASE s = m.sender
        BY <3>1, <3>2, <4>1, <2>1 DEF TypeOK
      <4>2. CASE s # m.sender
        BY <3>2, <4>2, <2>1 DEF TypeOK, DirectoryFromServed
      <4>3. QED BY <4>1, <4>2
    <3>3. QED BY <2>2, <2>3, <3>2 DEF Announce
  <2>4. QED
    BY <2>2, <2>3 DEF Next, vars, Tick, SetBack, Crash, Handle, Verify, Stamp,
       InsertNonce, RefuseReplay, StorageError, Prune, Execute, ExecuteTicket,
       RefuseTicket, Record, RecordFailure
<1>3. QED
  BY <1>1, <1>2, TypeCorrect, PTL DEF Spec
=============================================================================
