---------------------- MODULE ConversationRuntimeProofs ----------------------
(***************************************************************************)
(* Theorems about ConversationRuntime, for any conversations, requests,    *)
(* clients that leave, permits and reconfigurations: a runtime's           *)
(* dispatches of a conversation do not overlap, while nothing disturbs     *)
(* them they never insert at a taken number, and together they implement   *)
(* Thread.                                                                 *)
(***************************************************************************)
EXTENDS ConversationRuntime, TLAPS

-----------------------------------------------------------------------------
(* The inductive invariant *)

(* Types; requests and cached states belong to runtimes that exist.        *)
TypeInv ==
  /\ conv \in [Req -> Conv]
  /\ ledger \in [Conv -> Seq(Turn)]
  /\ gen \in Gen
  /\ \A k \in DOMAIN cache : k \in Gen \X Conv /\ k[1] <= gen /\ cache[k] \in Nat
  /\ pc \in [Req -> {"new", "lock"} \cup Holding \cup Finished]
  /\ rt \in [Req -> Gen]
  /\ \A r \in Req : rt[r] <= gen
  /\ last \in [Req -> Nat]

(* The lock has one holder.                                                *)
ExclusiveInv ==
  \A q, r \in Req :
    q # r /\ conv[q] = conv[r] /\ rt[q] = rt[r] /\ pc[q] \in Holding
      => pc[r] \notin Holding

(* While nothing disturbs them, a conversation nobody is being answered in *)
(* is cached as it is recorded; the one being answered knows all turns.    *)
FreshInv ==
  Undisturbed =>
    /\ \A k \in DOMAIN cache :
         (\A r \in Req : conv[r] = k[2] => pc[r] # "thinking")
           => cache[k] = Len(ledger[k[2]])
    /\ \A r \in Req : pc[r] = "thinking" => last[r] = Len(ledger[conv[r]])

(* A request that has not begun has no turn.                               *)
UnaskedInv ==
  \A r \in Req : pc[r] \in {"new", "lock", "slot", "ready"} =>
    \A c \in Conv : \A i \in DOMAIN ledger[c] : ledger[c][i][1] # r

(* One that is being answered knows where its question is.                 *)
AskedInv ==
  \A r \in Req : pc[r] = "thinking" =>
    /\ last[r] \in DOMAIN ledger[conv[r]]
    /\ ledger[conv[r]][last[r]] = <<r, "user">>

Inv == TypeInv /\ ExclusiveInv /\ FreshInv /\ UnaskedInv /\ AskedInv

-----------------------------------------------------------------------------
(* One step *)

(* Before the first reconfiguration there is one runtime.                  *)
LEMMA OneRuntime ==
  ASSUME TypeInv, Undisturbed, NEW r \in Req
  PROVE  /\ rt[r] = 0
         /\ \A k \in DOMAIN cache : k[2] = conv[r] => k = Key(r)
         /\ \A q \in Req : rt[q] = rt[r]
<1>1. \A q \in Req : rt[q] \in Nat /\ rt[q] <= 0
  BY BoundsAssumption DEF TypeInv, Undisturbed, Gen
<1>2. \A k \in DOMAIN cache : k \in Nat \X Conv /\ k[1] <= 0
  BY BoundsAssumption DEF TypeInv, Undisturbed, Gen
<1>3. \A k \in DOMAIN cache : k = <<0, k[2]>>
  BY <1>2
<1>4. \A q \in Req : rt[q] = 0
  BY <1>1
<1> QED
  BY <1>3, <1>4 DEF Key

(* A request about to begin, alone on its conversation, loads all of it:   *)
(* the step FreshInv is there for.                                         *)
LEMMA LoadsAll ==
  ASSUME Inv, Undisturbed, NEW r \in Req, pc[r] = "ready"
  PROVE  Load(r) = Len(ledger[conv[r]])
<1>1. \A q \in Req : conv[q] = conv[r] => pc[q] # "thinking"
  BY OneRuntime DEF Inv, ExclusiveInv, Holding
<1>2. CASE Key(r) \in DOMAIN cache
  <2>1. Key(r)[2] = conv[r]
    BY DEF Key
  <2> QED
    BY <1>1, <1>2, <2>1 DEF Inv, FreshInv, Load
<1>3. CASE Key(r) \notin DOMAIN cache
  BY <1>3 DEF Load
<1> QED
  BY <1>2, <1>3

LEMMA RecordType ==
  ASSUME TypeInv, NEW r \in Req, NEW n, NEW kind \in {"user", "reply"},
         Record(r, n, kind)
  PROVE  /\ ledger' \in [Conv -> Seq(Turn)]
         /\ n \in Nat
         /\ n = Len(ledger[conv[r]])
         /\ Len(ledger'[conv[r]]) = n + 1
         /\ \A c \in Conv \ {conv[r]} : ledger'[c] = ledger[c]
         /\ \A c \in Conv : \A i \in DOMAIN ledger'[c] :
              \/ i \in DOMAIN ledger[c] /\ ledger'[c][i] = ledger[c][i]
              \/ ledger'[c][i] = <<r, kind>>
         /\ \A c \in Conv : \A i \in DOMAIN ledger[c] :
              i \in DOMAIN ledger'[c] /\ ledger'[c][i] = ledger[c][i]
         /\ n + 1 \in DOMAIN ledger'[conv[r]]
         /\ ledger'[conv[r]][n + 1] = <<r, kind>>
<1>1. conv[r] \in Conv /\ ledger[conv[r]] \in Seq(Turn) /\ <<r, kind>> \in Turn
  BY DEF TypeInv, Turn
<1>2. ledger' = [ledger EXCEPT ![conv[r]] = Append(ledger[conv[r]], <<r, kind>>)]
  BY DEF Record
<1>3. Append(ledger[conv[r]], <<r, kind>>) \in Seq(Turn)
  BY <1>1
<1>4. Len(Append(ledger[conv[r]], <<r, kind>>)) = Len(ledger[conv[r]]) + 1
  BY <1>1
<1>5. /\ n = Len(ledger[conv[r]])
      /\ n \in Nat
  BY <1>1 DEF Record
<1>6. \A i \in DOMAIN Append(ledger[conv[r]], <<r, kind>>) :
        \/ /\ i \in DOMAIN ledger[conv[r]]
           /\ Append(ledger[conv[r]], <<r, kind>>)[i] = ledger[conv[r]][i]
        \/ Append(ledger[conv[r]], <<r, kind>>)[i] = <<r, kind>>
  BY <1>1
<1>7. /\ ledger \in [Conv -> Seq(Turn)]
      /\ ledger'[conv[r]] = Append(ledger[conv[r]], <<r, kind>>)
      /\ \A c \in Conv \ {conv[r]} : ledger'[c] = ledger[c]
  BY <1>1, <1>2 DEF TypeInv
<1>8. ledger' \in [Conv -> Seq(Turn)]
  BY <1>2, <1>3, <1>7
<1>9. \A c \in Conv : \A i \in DOMAIN ledger'[c] :
         \/ i \in DOMAIN ledger[c] /\ ledger'[c][i] = ledger[c][i]
         \/ ledger'[c][i] = <<r, kind>>
  BY <1>6, <1>7
<1>10. /\ n + 1 \in DOMAIN Append(ledger[conv[r]], <<r, kind>>)
       /\ Append(ledger[conv[r]], <<r, kind>>)[n + 1] = <<r, kind>>
       /\ \A i \in DOMAIN ledger[conv[r]] :
            /\ i \in DOMAIN Append(ledger[conv[r]], <<r, kind>>)
            /\ Append(ledger[conv[r]], <<r, kind>>)[i] = ledger[conv[r]][i]
  BY <1>1, <1>5
<1>11. \A c \in Conv : \A i \in DOMAIN ledger[c] :
         i \in DOMAIN ledger'[c] /\ ledger'[c][i] = ledger[c][i]
  BY <1>7, <1>10
<1> QED
  BY <1>4, <1>5, <1>7, <1>8, <1>9, <1>10, <1>11

(* Moving one request without touching turns or the cache, to a place from *)
(* which it has not begun or in which it has finished.                     *)
LEMMA MoveKeepsInv ==
  ASSUME Inv, NEW r \in Req, NEW p \in {"lock", "slot", "ready", "gone"},
         pc[r] \in {"new", "lock", "slot"} \/ p = "gone",
         pc' = [pc EXCEPT ![r] = p],
         p \in Holding =>
           /\ \A q \in Req : q # r /\ conv[q] = conv[r] /\ rt[q] = rt[r]
                              => pc[q] \notin Holding
           /\ rt' = rt,
         rt' = [rt EXCEPT ![r] = gen] \/ rt' = rt,
         pc[r] # "gone",
         UNCHANGED <<conv, ledger, gen, cache, last>>
  PROVE  Inv'
<1> USE DEF Inv
<1>0. \A q \in Req : pc'[q] = IF q = r THEN p ELSE pc[q]
  BY DEF TypeInv
<1>1. TypeInv'
  <2>1. pc' \in [Req -> {"new", "lock"} \cup Holding \cup Finished]
    BY DEF TypeInv, Holding, Finished
  <2>2. rt' \in [Req -> Gen] /\ \A q \in Req : rt'[q] <= gen
    <3>1. CASE rt' = rt
      BY <3>1 DEF TypeInv
    <3>2. CASE rt' = [rt EXCEPT ![r] = gen]
      <4>1. gen \in Gen /\ gen <= gen
        BY BoundsAssumption DEF TypeInv, Gen
      <4>2. \A q \in Req : rt'[q] = IF q = r THEN gen ELSE rt[q]
        BY <3>2 DEF TypeInv
      <4> QED
        BY <3>2, <4>1, <4>2 DEF TypeInv
    <3> QED
      BY <3>1, <3>2
  <2> QED
    BY <2>1, <2>2 DEF TypeInv
<1>2. ExclusiveInv'
  <2>1. CASE p \in Holding
    BY <1>0, <2>1 DEF TypeInv, ExclusiveInv
  <2>2. CASE p \notin Holding
    <3>1. \A q \in Req : pc'[q] \in Holding => q # r /\ pc[q] \in Holding
      BY <1>0, <2>2
    <3>2. \A q \in Req : q # r => rt'[q] = rt[q]
      BY DEF TypeInv
    <3> QED
      BY <3>1, <3>2 DEF ExclusiveInv
  <2> QED
    BY <2>1, <2>2
<1>3. FreshInv'
  <2>1. CASE p = "gone"
    BY <1>0, <2>1 DEF FreshInv, Undisturbed
  <2>2. CASE p # "gone"
    BY <1>0, <2>2 DEF FreshInv, Undisturbed
  <2> QED
    BY <2>1, <2>2
<1>4. UnaskedInv'
  <2>1. \A q \in Req : pc'[q] \in {"new", "lock", "slot", "ready"}
                       => pc[q] \in {"new", "lock", "slot", "ready"}
    BY <1>0
  <2> QED
    BY <2>1 DEF UnaskedInv
<1>5. AskedInv'
  BY <1>0 DEF AskedInv
<1> QED
  BY <1>1, <1>2, <1>3, <1>4, <1>5

(* Each step of a dispatch keeps the invariant.                            *)
LEMMA BeginKeepsInv ==
  ASSUME Inv, NEW r \in Req, Begin(r)
  PROVE  Inv'
<1> USE DEF Inv
<1> DEFINE n == Load(r)
<1>1. pc[r] = "ready" /\ pc' = [pc EXCEPT ![r] = "thinking"]
  BY DEF Begin, GoTo
<1>2. Record(r, n, "user")
  BY DEF Begin
<1>3. /\ UNCHANGED <<conv, gen, rt>>
      /\ last' = [last EXCEPT ![r] = n + 1]
  BY DEF Begin
<1>4. cache' = [j \in DOMAIN cache \cup {Key(r)} |->
                  IF j = Key(r) THEN n ELSE cache[j]]
  BY DEF Begin, Put
<1> HIDE DEF n
<1>5. /\ ledger' \in [Conv -> Seq(Turn)]
      /\ n \in Nat
      /\ Len(ledger'[conv[r]]) = n + 1
      /\ \A c \in Conv \ {conv[r]} : ledger'[c] = ledger[c]
      /\ \A c \in Conv : \A i \in DOMAIN ledger'[c] :
           \/ i \in DOMAIN ledger[c] /\ ledger'[c][i] = ledger[c][i]
           \/ ledger'[c][i] = <<r, "user">>
      /\ \A c \in Conv : \A i \in DOMAIN ledger[c] :
           i \in DOMAIN ledger'[c] /\ ledger'[c][i] = ledger[c][i]
      /\ n + 1 \in DOMAIN ledger'[conv[r]]
      /\ ledger'[conv[r]][n + 1] = <<r, "user">>
  BY <1>2, RecordType
<1>6. TypeInv'
  <2>1. Key(r) \in Gen \X Conv /\ Key(r)[1] <= gen
    BY DEF TypeInv, Key
  <2>2. \A k \in DOMAIN cache' :
          k \in Gen \X Conv /\ k[1] <= gen /\ cache'[k] \in Nat
    BY <1>4, <1>5, <2>1 DEF TypeInv
  <2>3. last' \in [Req -> Nat]
    BY <1>3, <1>5 DEF TypeInv
  <2> QED
    BY <1>1, <1>3, <1>5, <2>2, <2>3 DEF TypeInv, Holding
<1>7. ExclusiveInv'
  BY <1>1, <1>3 DEF TypeInv, ExclusiveInv, Holding
<1>8. FreshInv'
  <2> SUFFICES ASSUME Undisturbed'
               PROVE  /\ \A k \in DOMAIN cache' :
                           (\A q \in Req : conv[q] = k[2] => pc'[q] # "thinking")
                             => cache'[k] = Len(ledger'[k[2]])
                      /\ \A q \in Req : pc'[q] = "thinking"
                           => last'[q] = Len(ledger'[conv[q]])
    BY <1>3 DEF FreshInv
  <2>0. Undisturbed
    BY <1>1, <1>3 DEF Undisturbed, TypeInv
  <2>1. ASSUME NEW k \in DOMAIN cache',
               \A q \in Req : conv[q] = k[2] => pc'[q] # "thinking"
        PROVE  cache'[k] = Len(ledger'[k[2]])
    <3>1. pc'[r] = "thinking"
      BY <1>1 DEF TypeInv
    <3>2. k[2] # conv[r] /\ k # Key(r)
      BY <2>1, <3>1 DEF Key
    <3>3. k \in DOMAIN cache /\ cache'[k] = cache[k] /\ k[2] \in Conv
      BY <1>4, <3>2 DEF TypeInv
    <3>4. \A q \in Req : conv[q] = k[2] => pc[q] # "thinking"
      BY <2>1, <1>1, <3>2 DEF TypeInv
    <3> QED
      BY <2>0, <3>2, <3>3, <3>4, <1>5 DEF FreshInv
  <2>2. ASSUME NEW q \in Req, pc'[q] = "thinking"
        PROVE  last'[q] = Len(ledger'[conv[q]])
    <3>1. CASE q = r
      BY <3>1, <1>3, <1>5 DEF TypeInv
    <3>2. CASE q # r
      <4>1. pc[q] = "thinking" /\ last'[q] = last[q] /\ conv[q] \in Conv
        BY <2>2, <3>2, <1>1, <1>3 DEF TypeInv
      <4>2. conv[q] # conv[r]
        BY <4>1, <3>2, <1>1, <2>0, OneRuntime DEF ExclusiveInv, Holding
      <4> QED
        BY <2>0, <4>1, <4>2, <1>5 DEF FreshInv
    <3> QED
      BY <3>1, <3>2
  <2> QED
    BY <2>1, <2>2
<1>9. UnaskedInv'
  <2>1. ASSUME NEW q \in Req, pc'[q] \in {"new", "lock", "slot", "ready"},
               NEW c \in Conv, NEW i \in DOMAIN ledger'[c]
        PROVE  ledger'[c][i][1] # q
    <3>1. q # r /\ pc[q] = pc'[q]
      BY <2>1, <1>1 DEF TypeInv
    <3>2. CASE ledger'[c][i] = <<r, "user">>
      BY <3>1, <3>2
    <3>3. CASE i \in DOMAIN ledger[c] /\ ledger'[c][i] = ledger[c][i]
      BY <2>1, <3>1, <3>3 DEF UnaskedInv
    <3> QED
      BY <3>2, <3>3, <1>5
  <2> QED
    BY <2>1 DEF UnaskedInv
<1>10. AskedInv'
  <2>1. ASSUME NEW q \in Req, pc'[q] = "thinking"
        PROVE  /\ last'[q] \in DOMAIN ledger'[conv[q]]
               /\ ledger'[conv[q]][last'[q]] = <<q, "user">>
    <3>1. CASE q = r
      BY <3>1, <1>3, <1>5 DEF TypeInv
    <3>2. CASE q # r
      <4>1. pc[q] = "thinking" /\ last'[q] = last[q] /\ conv[q] \in Conv
        BY <2>1, <3>2, <1>1, <1>3 DEF TypeInv
      <4> QED
        BY <4>1, <1>5 DEF AskedInv
    <3> QED
      BY <3>1, <3>2
  <2> QED
    BY <2>1, <1>3 DEF AskedInv
<1> QED
  BY <1>6, <1>7, <1>8, <1>9, <1>10

LEMMA AnswerKeepsInv ==
  ASSUME Inv, NEW r \in Req, Answer(r)
  PROVE  Inv'
<1> USE DEF Inv
<1> DEFINE n == last[r]
<1>1. pc[r] = "thinking" /\ pc' = [pc EXCEPT ![r] = "answered"]
  BY DEF Answer, GoTo
<1>2. Record(r, n, "reply")
  BY DEF Answer
<1>3. UNCHANGED <<conv, gen, rt, last>>
  BY DEF Answer
<1>4. cache' = [j \in DOMAIN cache \cup {Key(r)} |->
                  IF j = Key(r) THEN n + 1 ELSE cache[j]]
  BY DEF Answer, Put
<1> HIDE DEF n
<1>5. /\ ledger' \in [Conv -> Seq(Turn)]
      /\ n \in Nat
      /\ Len(ledger'[conv[r]]) = n + 1
      /\ \A c \in Conv \ {conv[r]} : ledger'[c] = ledger[c]
      /\ \A c \in Conv : \A i \in DOMAIN ledger'[c] :
           \/ i \in DOMAIN ledger[c] /\ ledger'[c][i] = ledger[c][i]
           \/ ledger'[c][i] = <<r, "reply">>
      /\ \A c \in Conv : \A i \in DOMAIN ledger[c] :
           i \in DOMAIN ledger'[c] /\ ledger'[c][i] = ledger[c][i]
  BY <1>2, RecordType
<1>6. TypeInv'
  <2>1. Key(r) \in Gen \X Conv /\ Key(r)[1] <= gen
    BY DEF TypeInv, Key
  <2>2. \A k \in DOMAIN cache' :
          k \in Gen \X Conv /\ k[1] <= gen /\ cache'[k] \in Nat
    BY <1>4, <1>5, <2>1 DEF TypeInv
  <2> QED
    BY <1>1, <1>3, <1>5, <2>2 DEF TypeInv, Finished
<1>7. ExclusiveInv'
  BY <1>1, <1>3 DEF TypeInv, ExclusiveInv, Holding
<1>8. FreshInv'
  <2> SUFFICES ASSUME Undisturbed'
               PROVE  /\ \A k \in DOMAIN cache' :
                           (\A q \in Req : conv[q] = k[2] => pc'[q] # "thinking")
                             => cache'[k] = Len(ledger'[k[2]])
                      /\ \A q \in Req : pc'[q] = "thinking"
                           => last'[q] = Len(ledger'[conv[q]])
    BY <1>3 DEF FreshInv
  <2>0. Undisturbed
    BY <1>1, <1>3 DEF Undisturbed, TypeInv
  <2>1. ASSUME NEW k \in DOMAIN cache',
               \A q \in Req : conv[q] = k[2] => pc'[q] # "thinking"
        PROVE  cache'[k] = Len(ledger'[k[2]])
    <3>1. CASE k = Key(r)
      BY <3>1, <1>4, <1>5 DEF Key
    <3>2. CASE k # Key(r)
      <4>1. k \in DOMAIN cache /\ cache'[k] = cache[k] /\ k[2] \in Conv
        BY <1>4, <3>2 DEF TypeInv
      <4>2. k[2] # conv[r]
        BY <2>0, <4>1, <3>2, OneRuntime
      <4>3. \A q \in Req : conv[q] = k[2] => pc[q] # "thinking"
        BY <2>1, <1>1, <4>2 DEF TypeInv
      <4> QED
        BY <2>0, <4>1, <4>2, <4>3, <1>5 DEF FreshInv
    <3> QED
      BY <3>1, <3>2
  <2>2. ASSUME NEW q \in Req, pc'[q] = "thinking"
        PROVE  last'[q] = Len(ledger'[conv[q]])
    <3>1. q # r /\ pc[q] = "thinking" /\ last'[q] = last[q] /\ conv[q] \in Conv
      BY <2>2, <1>1, <1>3 DEF TypeInv
    <3>2. conv[q] # conv[r]
      BY <2>0, <3>1, <1>1, OneRuntime DEF ExclusiveInv, Holding
    <3> QED
      BY <2>0, <3>1, <3>2, <1>5 DEF FreshInv
  <2> QED
    BY <2>1, <2>2
<1>9. UnaskedInv'
  <2>1. ASSUME NEW q \in Req, pc'[q] \in {"new", "lock", "slot", "ready"},
               NEW c \in Conv, NEW i \in DOMAIN ledger'[c]
        PROVE  ledger'[c][i][1] # q
    <3>1. q # r /\ pc[q] = pc'[q]
      BY <2>1, <1>1 DEF TypeInv
    <3>2. CASE ledger'[c][i] = <<r, "reply">>
      BY <3>1, <3>2
    <3>3. CASE i \in DOMAIN ledger[c] /\ ledger'[c][i] = ledger[c][i]
      BY <2>1, <3>1, <3>3 DEF UnaskedInv
    <3> QED
      BY <3>2, <3>3, <1>5
  <2> QED
    BY <2>1 DEF UnaskedInv
<1>10. AskedInv'
  <2>1. ASSUME NEW q \in Req, pc'[q] = "thinking"
        PROVE  /\ last'[q] \in DOMAIN ledger'[conv[q]]
               /\ ledger'[conv[q]][last'[q]] = <<q, "user">>
    <3>1. pc[q] = "thinking" /\ last'[q] = last[q] /\ conv[q] \in Conv
      BY <2>1, <1>1, <1>3 DEF TypeInv
    <3> QED
      BY <3>1, <1>5 DEF AskedInv
  <2> QED
    BY <2>1, <1>3 DEF AskedInv
<1> QED
  BY <1>6, <1>7, <1>8, <1>9, <1>10

LEMMA FailKeepsInv ==
  ASSUME Inv, NEW r \in Req, Fail(r)
  PROVE  Inv'
<1> USE DEF Inv
<1>1. /\ pc[r] \in {"ready", "thinking"}
      /\ pc' = [pc EXCEPT ![r] = "failed"]
      /\ UNCHANGED <<conv, ledger, gen, rt, last>>
  BY DEF Fail, GoTo
<1>2. cache' = [j \in DOMAIN cache \ {Key(r)} |-> cache[j]]
  BY DEF Fail, Pop
<1>3. TypeInv'
  BY <1>1, <1>2 DEF TypeInv, Finished
<1>4. ExclusiveInv'
  BY <1>1 DEF TypeInv, ExclusiveInv, Holding
<1>5. FreshInv'
  <2> SUFFICES ASSUME Undisturbed'
               PROVE  /\ \A k \in DOMAIN cache' :
                           (\A q \in Req : conv[q] = k[2] => pc'[q] # "thinking")
                             => cache'[k] = Len(ledger[k[2]])
                      /\ \A q \in Req : pc'[q] = "thinking"
                           => last[q] = Len(ledger[conv[q]])
    BY <1>1 DEF FreshInv
  <2>0. Undisturbed
    BY <1>1 DEF Undisturbed, TypeInv
  <2>1. ASSUME NEW k \in DOMAIN cache',
               \A q \in Req : conv[q] = k[2] => pc'[q] # "thinking"
        PROVE  cache'[k] = Len(ledger[k[2]])
    <3>1. k \in DOMAIN cache /\ k # Key(r) /\ cache'[k] = cache[k]
      BY <1>2
    <3>2. k[2] # conv[r]
      BY <2>0, <3>1, OneRuntime
    <3> QED
      BY <2>0, <2>1, <3>1, <3>2, <1>1 DEF TypeInv, FreshInv
  <2> QED
    BY <2>0, <2>1, <1>1 DEF TypeInv, FreshInv
<1>6. UnaskedInv'
  BY <1>1 DEF TypeInv, UnaskedInv
<1>7. AskedInv'
  BY <1>1 DEF TypeInv, AskedInv
<1> QED
  BY <1>3, <1>4, <1>5, <1>6, <1>7

LEMMA EvictKeepsInv ==
  ASSUME Inv, NEW k \in Gen \X Conv, Evict(k)
  PROVE  Inv'
<1> USE DEF Inv
<1>1. /\ cache' = [j \in DOMAIN cache \ {k} |-> cache[j]]
      /\ UNCHANGED <<conv, ledger, gen, pc, rt, last>>
  BY DEF Evict, Pop
<1>2. TypeInv'
  BY <1>1 DEF TypeInv
<1>3. FreshInv'
  BY <1>1 DEF FreshInv, Undisturbed
<1> QED
  BY <1>1, <1>2, <1>3 DEF ExclusiveInv, UnaskedInv, AskedInv

LEMMA SwapKeepsInv == Inv /\ Swap => Inv'
<1> SUFFICES ASSUME Inv, Swap PROVE Inv'
  OBVIOUS
<1> USE DEF Inv
<1>1. /\ gen' = gen + 1 /\ gen' \in Gen /\ gen' # 0
      /\ UNCHANGED <<conv, ledger, cache, pc, rt, last>>
  BY BoundsAssumption DEF Swap, TypeInv, Gen
<1>2. TypeInv'
  BY <1>1, BoundsAssumption DEF TypeInv, Gen
<1>3. FreshInv'
  BY <1>1 DEF FreshInv, Undisturbed
<1> QED
  BY <1>1, <1>2, <1>3 DEF ExclusiveInv, UnaskedInv, AskedInv

LEMMA InitInv == Init => Inv
<1> SUFFICES ASSUME Init PROVE Inv
  OBVIOUS
<1>1. TypeInv
  BY BoundsAssumption DEF Init, TypeInv, Gen
<1> QED
  BY <1>1 DEF Init, Inv, ExclusiveInv, FreshInv, UnaskedInv, AskedInv, Holding

LEMMA StepInv ==
  ASSUME Inv, [Next]_vars
  PROVE  Inv'
<1>1. CASE \E r \in Req : Arrive(r)
  <2>1. PICK r \in Req : Arrive(r)
    BY <1>1
  <2>2. /\ pc[r] = "new" /\ pc' = [pc EXCEPT ![r] = "lock"]
        /\ rt' = [rt EXCEPT ![r] = gen]
        /\ UNCHANGED <<conv, ledger, gen, cache, last>>
    BY <2>1 DEF Arrive, GoTo
  <2> QED
    BY <2>2, MoveKeepsInv DEF Holding
<1>2. CASE \E r \in Req : Lock(r)
  <2>1. PICK r \in Req : Lock(r)
    BY <1>2
  <2>2. \A q \in Req : conv[q] = conv[r] /\ rt[q] = rt[r] => pc[q] \notin Holding
    BY <2>1 DEF Lock, Holders, Inv, TypeInv
  <2>3. /\ pc[r] = "lock"
        /\ pc' = [pc EXCEPT ![r] = "slot"]
        /\ UNCHANGED <<conv, ledger, gen, cache, rt, last>>
    BY <2>1 DEF Lock, GoTo
  <2> QED
    BY <2>2, <2>3, MoveKeepsInv
<1>3. CASE \E r \in Req : TakeSlot(r)
  <2>1. PICK r \in Req : TakeSlot(r)
    BY <1>3
  <2>2. /\ pc[r] = "slot"
        /\ pc' = [pc EXCEPT ![r] = "ready"]
        /\ UNCHANGED <<conv, ledger, gen, cache, rt, last>>
    BY <2>1 DEF TakeSlot, GoTo
  <2>3. \A q \in Req : q # r /\ conv[q] = conv[r] /\ rt[q] = rt[r]
                         => pc[q] \notin Holding
    BY <2>2 DEF Inv, ExclusiveInv, Holding
  <2> QED
    BY <2>2, <2>3, MoveKeepsInv
<1>4. CASE \E r \in Req : Begin(r)
  BY <1>4, BeginKeepsInv
<1>5. CASE \E r \in Req : Fail(r)
  BY <1>5, FailKeepsInv
<1>6. CASE \E r \in Req : Answer(r)
  BY <1>6, AnswerKeepsInv
<1>7. CASE \E r \in Req : Abandon(r)
  <2>1. PICK r \in Req : Abandon(r)
    BY <1>7
  <2>2. /\ pc[r] # "gone" /\ pc' = [pc EXCEPT ![r] = "gone"]
        /\ UNCHANGED <<conv, ledger, gen, cache, rt, last>>
    BY <2>1 DEF Abandon, GoTo
  <2> QED
    BY <2>2, MoveKeepsInv DEF Holding
<1>8. CASE \E k \in Gen \X Conv : Evict(k)
  BY <1>8, EvictKeepsInv
<1>9. CASE Swap
  BY <1>9, SwapKeepsInv
<1>10. CASE UNCHANGED vars
  BY <1>10 DEF vars, Inv, TypeInv, ExclusiveInv, FreshInv, UnaskedInv, AskedInv,
               Undisturbed
<1> QED
  BY <1>1, <1>2, <1>3, <1>4, <1>5, <1>6, <1>7, <1>8, <1>9, <1>10 DEF Next

LEMMA Invariance == Spec => []Inv
<1>1. Inv /\ [Next]_vars => Inv'
  BY StepInv
<1> QED
  BY <1>1, InitInv, PTL DEF Spec

-----------------------------------------------------------------------------
(* The theorems *)

(* A runtime has at most one dispatch at work on a conversation (lock_for, *)
(* runtime.rs), whoever leaves and however often the planner is            *)
(* reconfigured.                                                           *)
THEOREM MutualExclusion == Spec => []Serialised
<1>1. Inv => Serialised
  BY DEF Inv, ExclusiveInv, Serialised, Holding
<1> QED
  BY <1>1, Invariance, PTL

(* And while nothing disturbs it, whichever of the cache and the database  *)
(* it starts from, a dispatch knows every turn of its conversation, so     *)
(* none of its inserts is refused for a taken sequence number (load_state, *)
(* and the eviction on errors).                                            *)
THEOREM Freshness == Spec => []UpToDate
<1>1. Inv => UpToDate
  BY LoadsAll DEF Inv, FreshInv, UpToDate
<1> QED
  BY <1>1, Invariance, PTL

-----------------------------------------------------------------------------
(* What is in memory *)

(* No cached state and no dispatch at work is ahead of the table.          *)
BehindInv ==
  /\ \A k \in DOMAIN cache : cache[k] <= Len(ledger[k[2]])
  /\ \A r \in Req : last[r] <= Len(ledger[conv[r]])

(* A turn is recorded, and then its number cached or remembered.           *)
LEMMA RecordKeepsBehind ==
  ASSUME Inv, BehindInv, NEW r \in Req, NEW n, NEW kind \in {"user", "reply"},
         Record(r, n, kind), NEW m \in {n, n + 1}, Put(Key(r), m), conv' = conv,
         \A q \in Req : last'[q] = last[q] \/ (q = r /\ last'[q] = n + 1)
  PROVE  BehindInv'
<1>1. /\ n \in Nat
      /\ Len(ledger'[conv[r]]) = n + 1 /\ Len(ledger[conv[r]]) = n
      /\ \A c \in Conv \ {conv[r]} : ledger'[c] = ledger[c]
  BY RecordType DEF Inv
<1>2. /\ last \in [Req -> Nat] /\ conv \in [Req -> Conv]
      /\ \A k \in DOMAIN cache : k[2] \in Conv /\ cache[k] \in Nat
  BY DEF Inv, TypeInv
<1>3. ASSUME NEW k \in DOMAIN cache' PROVE cache'[k] <= Len(ledger'[k[2]])
  <2>1. CASE k = Key(r)
    <3>1. k[2] = conv[r] /\ cache'[k] = m
      BY <2>1 DEF Key, Put
    <3> QED
      BY <3>1, <1>1
  <2>2. CASE k # Key(r)
    <3>1. k \in DOMAIN cache /\ cache'[k] = cache[k]
      BY <2>2 DEF Put
    <3>2. cache[k] <= Len(ledger[k[2]])
      BY <3>1 DEF BehindInv
    <3>3. CASE k[2] = conv[r]
      BY <3>1, <3>2, <3>3, <1>1, <1>2
    <3>4. CASE k[2] # conv[r]
      BY <3>1, <3>2, <3>4, <1>1, <1>2
    <3> QED
      BY <3>3, <3>4
  <2> QED
    BY <2>1, <2>2
<1>4. ASSUME NEW q \in Req PROVE last'[q] <= Len(ledger'[conv[q]])
  <2>1. last[q] <= Len(ledger[conv[q]]) /\ last[q] \in Nat /\ conv[q] \in Conv
    BY <1>2 DEF BehindInv
  <2>2. CASE conv[q] = conv[r]
    BY <2>1, <2>2, <1>1
  <2>3. CASE conv[q] # conv[r]
    BY <2>1, <2>3, <1>1
  <2> QED
    BY <2>2, <2>3
<1> QED
  BY <1>3, <1>4 DEF BehindInv

LEMMA BehindStep ==
  ASSUME Inv, BehindInv, [Next]_vars
  PROVE  BehindInv'
<1>1. ASSUME NEW r \in Req, Begin(r) PROVE BehindInv'
  <2>1. /\ Record(r, Load(r), "user") /\ Put(Key(r), Load(r)) /\ conv' = conv
        /\ last' = [last EXCEPT ![r] = Load(r) + 1]
    BY <1>1 DEF Begin
  <2>2. \A q \in Req : last'[q] = last[q] \/ (q = r /\ last'[q] = Load(r) + 1)
    BY <2>1 DEF Inv, TypeInv
  <2> QED
    BY <2>1, <2>2, RecordKeepsBehind
<1>2. ASSUME NEW r \in Req, Answer(r) PROVE BehindInv'
  <2>1. /\ Record(r, last[r], "reply") /\ Put(Key(r), last[r] + 1)
        /\ UNCHANGED <<conv, last>>
    BY <1>2 DEF Answer
  <2> QED
    BY <2>1, RecordKeepsBehind
<1>3. ASSUME NEW k, Pop(k), UNCHANGED <<conv, ledger, last>> PROVE BehindInv'
  BY <1>3 DEF Pop, BehindInv
<1>4. ASSUME UNCHANGED <<conv, ledger, cache, last>> PROVE BehindInv'
  BY <1>4 DEF BehindInv
<1>5. CASE \E r \in Req : Fail(r)
  BY <1>3, <1>5 DEF Fail
<1>6. CASE \E k \in Gen \X Conv : Evict(k)
  BY <1>3, <1>6 DEF Evict
<1>7. CASE \E r \in Req : Arrive(r) \/ Lock(r) \/ TakeSlot(r) \/ Abandon(r)
  BY <1>4, <1>7 DEF Arrive, Lock, TakeSlot, Abandon
<1>8. CASE Swap \/ UNCHANGED vars
  BY <1>4, <1>8 DEF Swap, vars
<1> QED
  BY <1>1, <1>2, <1>5, <1>6, <1>7, <1>8 DEF Next

(* Neither the cache nor a dispatch ever counts a turn that the table of   *)
(* turns does not hold (conversation_turns, load_state, store_in_cache):   *)
(* memory may lag behind a turn recorded elsewhere, but never runs ahead.  *)
THEOREM TypeCorrect == Spec => []TypeOK
<1>1. Init => BehindInv
  <2> SUFFICES ASSUME Init PROVE BehindInv
    OBVIOUS
  <2> QED
    BY DEF Init, BehindInv
<1>2. Inv /\ BehindInv /\ [Next]_vars => BehindInv'
  BY BehindStep
<1>3. Inv /\ BehindInv => TypeOK
  <2> SUFFICES ASSUME Inv, BehindInv PROVE TypeOK
    OBVIOUS
  <2>1. ASSUME NEW k \in DOMAIN cache PROVE cache[k] \in 0 .. Len(ledger[k[2]])
    <3>1. cache[k] \in Nat /\ k[2] \in Conv /\ cache[k] <= Len(ledger[k[2]])
      BY <2>1 DEF Inv, TypeInv, BehindInv
    <3>2. Len(ledger[k[2]]) \in Nat
      BY <3>1 DEF Inv, TypeInv
    <3> QED
      BY <3>1, <3>2
  <2>2. ASSUME NEW r \in Req PROVE last[r] \in 0 .. Len(ledger[conv[r]])
    <3>1. last[r] \in Nat /\ conv[r] \in Conv /\ last[r] <= Len(ledger[conv[r]])
      BY DEF Inv, TypeInv, BehindInv
    <3>2. Len(ledger[conv[r]]) \in Nat
      BY <3>1 DEF Inv, TypeInv
    <3> QED
      BY <3>1, <3>2
  <2> QED
    BY <2>1, <2>2 DEF Inv, TypeInv, TypeOK
<1> QED
  BY <1>1, <1>2, <1>3, Invariance, PTL DEF Spec

-----------------------------------------------------------------------------
(* The refinement *)

(* The mapped variable is a function, so it is updated point by point.     *)
LEMMA AnsweringUpdated ==
  ASSUME NEW s \in Gen, NEW d \in Conv, NEW S,
         \A g \in Gen, c \in Conv :
           Answering'[<<g, c>>] = IF g = s /\ c = d THEN S ELSE Answering[<<g, c>>]
  PROVE  Answering' = [Answering EXCEPT ![<<s, d>>] = S]
<1>1. Answering' = [k \in Gen \X Conv |-> Answering'[k]]
  BY DEF Answering
<1>2. Answering = [k \in Gen \X Conv |-> Answering[k]]
  BY DEF Answering
<1>3. \A k \in Gen \X Conv :
        Answering'[k] = IF k = <<s, d>> THEN S ELSE Answering[k]
  <2> SUFFICES ASSUME NEW g \in Gen, NEW c \in Conv
               PROVE  Answering'[<<g, c>>] =
                        IF <<g, c>> = <<s, d>> THEN S ELSE Answering[<<g, c>>]
    OBVIOUS
  <2> QED
    OBVIOUS
<1>4. Answering' = [k \in Gen \X Conv |-> IF k = <<s, d>> THEN S ELSE Answering[k]]
  BY <1>1, <1>3
<1> QED
  BY <1>2, <1>4

LEMMA InitThread == Init => ThreadView!Init
  BY DEF Init, ThreadView!Init, Answering

LEMMA StepThread ==
  ASSUME Inv, [Next]_vars
  PROVE  ThreadView!Next \/ UNCHANGED <<ledger, Answering>>
<1> USE DEF Inv
<1>1. ASSUME NEW r \in Req, pc[r] # "thinking", NEW p,
             p # "thinking", pc' = [pc EXCEPT ![r] = p],
             \A q \in Req : q # r => rt'[q] = rt[q],
             UNCHANGED <<conv, ledger>>
      PROVE  UNCHANGED <<ledger, Answering>>
  <2>1. \A q \in Req : pc'[q] = "thinking" <=> pc[q] = "thinking"
    BY <1>1 DEF TypeInv
  <2>2. \A q \in Req : pc'[q] = "thinking" => rt'[q] = rt[q]
    BY <1>1 DEF TypeInv
  <2>3. \A g \in Gen, c \in Conv :
          {q \in Req : rt'[q] = g /\ conv'[q] = c /\ pc'[q] = "thinking"} =
          {q \in Req : rt[q] = g /\ conv[q] = c /\ pc[q] = "thinking"}
    BY <1>1, <2>1, <2>2
  <2> QED
    BY <1>1, <2>3 DEF Answering
<1>2. CASE \E r \in Req : Arrive(r) \/ Lock(r) \/ TakeSlot(r)
  <2>1. PICK r \in Req : Arrive(r) \/ Lock(r) \/ TakeSlot(r)
    BY <1>2
  <2>2. /\ pc[r] # "thinking"
        /\ \E p \in {"lock", "slot", "ready"} : pc' = [pc EXCEPT ![r] = p]
        /\ \A q \in Req : q # r => rt'[q] = rt[q]
        /\ UNCHANGED <<conv, ledger>>
    BY <2>1 DEF Arrive, Lock, TakeSlot, GoTo, TypeInv
  <2> QED
    BY <1>1, <2>2
<1>3. ASSUME NEW r \in Req, NEW s \in Gen, NEW c \in Conv,
             rt[r] = s, conv[r] = c, Begin(r)
      PROVE  ThreadView!Ask(r, s, c)
  <2>1. /\ pc[r] = "ready" /\ pc' = [pc EXCEPT ![r] = "thinking"]
        /\ conv' = conv /\ rt' = rt
    BY <1>3 DEF Begin, GoTo
  <2>3. \A q \in Req : q # r /\ conv[q] = c /\ rt[q] = s => pc[q] # "thinking"
    BY <1>3, <2>1 DEF ExclusiveInv, Holding
  <2>4. Answering[<<s, c>>] = {}
    BY <2>1, <2>3 DEF Answering
  <2>5. r \notin ThreadView!Asked(c)
    BY <2>1 DEF UnaskedInv, ThreadView!Asked
  <2>6. ledger' = [ledger EXCEPT ![c] = Append(@, <<r, "user">>)]
    BY <1>3 DEF Begin, Record
  <2>7. \A q \in Req : pc'[q] = IF q = r THEN "thinking" ELSE pc[q]
    BY <2>1 DEF TypeInv
  <2>8. Answering' = [Answering EXCEPT ![<<s, c>>] = {r}]
    <3>1. ASSUME NEW g \in Gen, NEW d \in Conv
          PROVE  Answering'[<<g, d>>] = IF g = s /\ d = c THEN {r} ELSE Answering[<<g, d>>]
      <4>1. Answering'[<<g, d>>] =
              {q \in Req : rt[q] = g /\ conv[q] = d /\ pc'[q] = "thinking"}
        BY <2>1 DEF Answering
      <4>2. CASE g = s /\ d = c
        BY <1>3, <4>1, <4>2, <2>3, <2>7
      <4>3. CASE ~(g = s /\ d = c)
        BY <1>3, <4>1, <4>3, <2>7 DEF Answering
      <4> QED
        BY <4>2, <4>3
    <3> QED
      BY <3>1, AnsweringUpdated
  <2> QED
    BY <2>4, <2>5, <2>6, <2>8 DEF ThreadView!Ask
<1>4. ASSUME NEW r \in Req, NEW s \in Gen, NEW c \in Conv,
             rt[r] = s, conv[r] = c, pc[r] = "thinking", NEW p, p # "thinking",
             pc' = [pc EXCEPT ![r] = p], conv' = conv, rt' = rt
      PROVE  /\ r \in Answering[<<s, c>>]
             /\ Answering' = [Answering EXCEPT ![<<s, c>>] = {}]
  <2>2. \A q \in Req : q # r /\ conv[q] = c /\ rt[q] = s => pc[q] # "thinking"
    BY <1>4 DEF ExclusiveInv, Holding
  <2>3. \A q \in Req : pc'[q] = IF q = r THEN p ELSE pc[q]
    BY <1>4 DEF TypeInv
  <2>4. ASSUME NEW g \in Gen, NEW d \in Conv
        PROVE  Answering'[<<g, d>>] = IF g = s /\ d = c THEN {} ELSE Answering[<<g, d>>]
    <3>1. Answering'[<<g, d>>] =
            {q \in Req : rt[q] = g /\ conv[q] = d /\ pc'[q] = "thinking"}
      BY <1>4 DEF Answering
    <3>2. CASE g = s /\ d = c
      BY <3>1, <3>2, <2>2, <2>3, <1>4
    <3>3. CASE ~(g = s /\ d = c)
      <4>1. Answering[<<g, d>>] =
              {q \in Req : rt[q] = g /\ conv[q] = d /\ pc[q] = "thinking"}
        BY DEF Answering
      <4>2. \A q \in Req : rt[q] = g /\ conv[q] = d => q # r
        BY <3>3, <1>4
      <4> QED
        BY <3>1, <3>3, <4>1, <4>2, <2>3
    <3> QED
      BY <3>2, <3>3
  <2>5. Answering' = [Answering EXCEPT ![<<s, c>>] = {}]
    BY <2>4, AnsweringUpdated
  <2>6. r \in Answering[<<s, c>>]
    BY <1>4 DEF Answering
  <2> QED
    BY <2>5, <2>6
<1>5. ASSUME NEW r \in Req, NEW s \in Gen, NEW c \in Conv,
             rt[r] = s, conv[r] = c, Answer(r)
      PROVE  ThreadView!Answer(r, s, c)
  <2>1. /\ r \in Answering[<<s, c>>]
        /\ Answering' = [Answering EXCEPT ![<<s, c>>] = {}]
    <3>1. pc[r] = "thinking" /\ conv' = conv /\ rt' = rt
      BY <1>5 DEF Answer
    <3>2. PICK p \in {"answered"} : pc' = [pc EXCEPT ![r] = p]
      BY <1>5 DEF Answer, GoTo
    <3>3. p # "thinking"
      OBVIOUS
    <3> QED
      BY <1>4, <1>5, <3>1, <3>2, <3>3, Zenon
  <2>2. ledger' = [ledger EXCEPT ![c] = Append(@, <<r, "reply">>)]
    BY <1>5 DEF Answer, Record
  <2>3. pc[r] = "thinking" /\ last[r] = Len(ledger[c])
    BY <1>5 DEF Answer, Record
  <2>4. /\ Len(ledger[c]) \in DOMAIN ledger[c]
        /\ ledger[c][Len(ledger[c])] = <<r, "user">>
    BY <1>5, <2>3 DEF AskedInv
  <2> QED
    BY <2>1, <2>2, <2>4 DEF ThreadView!Answer
<1>6. ASSUME NEW r \in Req, NEW s \in Gen, NEW c \in Conv,
             rt[r] = s, conv[r] = c, Fail(r) \/ Abandon(r)
      PROVE  ThreadView!GiveUp(r, s, c) \/ UNCHANGED <<ledger, Answering>>
  <2>0. PICK p \in {"failed", "gone"} : pc' = [pc EXCEPT ![r] = p]
    BY <1>6 DEF Fail, Abandon, GoTo
  <2>1. UNCHANGED <<conv, ledger, rt>>
    BY <1>6 DEF Fail, Abandon
  <2>2. CASE pc[r] # "thinking"
    BY <1>1, <2>0, <2>1, <2>2
  <2>3. CASE pc[r] = "thinking"
    <3>1. /\ r \in Answering[<<s, c>>]
          /\ Answering' = [Answering EXCEPT ![<<s, c>>] = {}]
      <4>1. p # "thinking"
        OBVIOUS
      <4> QED
        BY <1>4, <1>6, <2>0, <2>1, <2>3, <4>1, Zenon
    <3> QED
      BY <3>1, <2>1 DEF ThreadView!GiveUp
  <2> QED
    BY <2>2, <2>3
<1>7. CASE \E r \in Req : Begin(r) \/ Answer(r) \/ Fail(r) \/ Abandon(r)
  <2>1. PICK r \in Req : Begin(r) \/ Answer(r) \/ Fail(r) \/ Abandon(r)
    BY <1>7
  <2>2. PICK s \in Gen, c \in Conv : rt[r] = s /\ conv[r] = c
    BY DEF TypeInv
  <2>3. /\ ThreadView!Ask(r, s, c) => ThreadView!Next
        /\ ThreadView!Answer(r, s, c) => ThreadView!Next
        /\ ThreadView!GiveUp(r, s, c) => ThreadView!Next
    BY Zenon DEF ThreadView!Next
  <2> QED
    BY <1>3, <1>5, <1>6, <2>1, <2>2, <2>3, Zenon
<1>8. CASE \/ \E k \in Gen \X Conv : Evict(k)
           \/ Swap
           \/ UNCHANGED vars
  BY <1>8 DEF Evict, Swap, vars, Answering
<1> QED
  BY <1>2, <1>7, <1>8 DEF Next

(* So what the owner of a conversation sees is exchanges, each of one      *)
(* request, its reply right after its question (Thread).                   *)
THEOREM Refinement == Spec => ImplementsThread
<1>1. Inv /\ [Next]_vars => [ThreadView!Next]_<<ledger, Answering>>
  BY StepThread
<1> QED
  BY <1>1, InitThread, Invariance, PTL
     DEF Spec, ImplementsThread, ThreadView!Spec
=============================================================================
