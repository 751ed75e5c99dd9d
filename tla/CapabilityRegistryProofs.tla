---------------------- MODULE CapabilityRegistryProofs ----------------------
(***************************************************************************)
(* Theorems about CapabilityRegistry, for any capabilities, backends,      *)
(* lobes, manifests and number of requests at once: what is served stays   *)
(* within the lobes, a node that serves is not reloaded into one that      *)
(* serves nothing, and a hot reload reaches what a restart would.          *)
(***************************************************************************)
EXTENDS CapabilityRegistry, TLAPS

-----------------------------------------------------------------------------
(* Files and registries as partial functions *)

LEMMA PartialFunction ==
  ASSUME NEW S, NEW T, NEW f
  PROVE  f \in Partial(S, T) <=> DOMAIN f \subseteq S /\ f \in [DOMAIN f -> T]
<1>1. ASSUME f \in Partial(S, T)
      PROVE  DOMAIN f \subseteq S /\ f \in [DOMAIN f -> T]
  <2>1. PICK D \in SUBSET S : f \in [D -> T]
    BY <1>1 DEF Partial
  <2> QED
    BY <2>1
<1>2. ASSUME DOMAIN f \subseteq S, f \in [DOMAIN f -> T]
      PROVE  f \in Partial(S, T)
  BY <1>2 DEF Partial
<1> QED
  BY <1>1, <1>2

LEMMA PutType ==
  ASSUME NEW S, NEW T, NEW f \in Partial(S, T), NEW k \in S, NEW v \in T
  PROVE  Put(f, k, v) \in Partial(S, T)
<1>1. DOMAIN f \subseteq S /\ f \in [DOMAIN f -> T]
  BY PartialFunction
<1>2. Put(f, k, v) \in [DOMAIN f \cup {k} -> T]
  BY <1>1 DEF Put
<1> QED
  BY <1>1, <1>2 DEF Partial

LEMMA DropType ==
  ASSUME NEW S, NEW T, NEW f \in Partial(S, T), NEW k
  PROVE  Drop(f, k) \in Partial(S, T)
<1>1. DOMAIN f \subseteq S /\ f \in [DOMAIN f -> T]
  BY PartialFunction
<1>2. Drop(f, k) \in [DOMAIN f \ {k} -> T]
  BY <1>1 DEF Drop
<1> QED
  BY <1>1, <1>2 DEF Partial

LEMMA BoundType ==
  ASSUME NEW caps \in Partial(Cap, Manifest), NEW bs \in Partial(Backend, Config)
  PROVE  Bound(caps, bs) \in Partial(Cap, Entry)
<1> DEFINE D == {x \in DOMAIN caps : Bindable(caps[x], bs)}
<1>1. DOMAIN caps \subseteq Cap /\ caps \in [DOMAIN caps -> Manifest]
  BY PartialFunction
<1>2. DOMAIN bs \subseteq Backend /\ bs \in [DOMAIN bs -> Config]
  BY PartialFunction
<1>3. \A c \in D : [lobes |-> caps[c].lobes, via |-> bs[caps[c].backend]] \in Entry
  BY <1>1, <1>2, ManifestAssumption DEF Bindable, Entry
<1>4. Bound(caps, bs) \in [D -> Entry]
  BY <1>3 DEF Bound
<1> QED
  BY <1>1, <1>4 DEF Partial

LEMMA EnforcedType ==
  ASSUME NEW entries \in Partial(Cap, Entry), NEW ls
  PROVE  /\ Enforced(entries, ls) \in Partial(Cap, Entry)
         /\ DOMAIN Enforced(entries, ls) = DOMAIN entries
         /\ \A c \in DOMAIN entries : Enforced(entries, ls)[c].lobes \subseteq ls
<1>1. DOMAIN entries \subseteq Cap /\ entries \in [DOMAIN entries -> Entry]
  BY PartialFunction
<1>2. \A c \in DOMAIN entries :
        /\ [entries[c] EXCEPT !.lobes = @ \cap ls] \in Entry
        /\ [entries[c] EXCEPT !.lobes = @ \cap ls].lobes \subseteq ls
  BY <1>1 DEF Entry
<1>3. Enforced(entries, ls) \in [DOMAIN entries -> Entry]
  BY <1>2 DEF Enforced
<1>4. \A c \in DOMAIN entries : Enforced(entries, ls)[c].lobes \subseteq ls
  BY <1>2 DEF Enforced
<1> QED
  BY <1>1, <1>3, <1>4 DEF Partial

LEMMA CompiledType == Compiled \in Partial(Cap, Entry)
<1>1. Compiled \in [Builtin -> Entry]
  BY DEF Compiled, Entry
<1> QED
  BY <1>1, BuiltinAssumption DEF Partial

LEMMA EmptyType == \A S, T : NoEntries \in Partial(S, T)
BY DEF NoEntries, Partial

-----------------------------------------------------------------------------
(* Requests *)

LEMMA Working ==
  ASSUME TypeOK, NEW w \in Worker, Active(w)
  PROVE  /\ req[w] \in Request
         /\ req[w].set \subseteq Lobe
         /\ req[w].built \in Partial(Backend, Config)
         /\ req[w].entries \in Partial(Cap, Entry)
BY DEF TypeOK, Active, Request

LEMMA AtActive ==
  ASSUME NEW w \in Worker, req[w].at # "idle"
  PROVE  Active(w)
BY DEF Active, Idle

(* A request's record after its step, if it is changed and nobody else's. *)
Becomes(w, r) == req' = [req EXCEPT ![w] = r]

LEMMA BecomesType ==
  ASSUME TypeOK, NEW w \in Worker, NEW r \in Request \cup {Idle}, Becomes(w, r)
  PROVE  req' \in [Worker -> Request \cup {Idle}]
BY DEF TypeOK, Becomes

LEMMA GoesType ==
  ASSUME TypeOK, NEW w \in Worker, Active(w), NEW s \in Step, Goes(w, s)
  PROVE  req' \in [Worker -> Request \cup {Idle}]
<1>1. [req[w] EXCEPT !.at = s] \in Request
  BY Working DEF Request
<1>2. Becomes(w, [req[w] EXCEPT !.at = s])
  BY DEF Goes, Becomes
<1> QED
  BY <1>1, <1>2, BecomesType

LEMMA EndsType ==
  ASSUME TypeOK, NEW w \in Worker, Ends(w)
  PROVE  req' \in [Worker -> Request \cup {Idle}]
BY BecomesType DEF Ends, Becomes

-----------------------------------------------------------------------------
(* What a step does to requests *)

(* One request comes in, which those under way are crossed with. *)
Comes(w) ==
  /\ ~Active(w)
  /\ \E r \in Request :
       /\ Becomes(w, r)
       /\ crossed' = IF \A v \in Worker : ~Active(v) THEN crossed
                     ELSE crossed \cup {r.kind}
                          \cup {req[v].kind : v \in {u \in Worker : Active(u)}}
       /\ r.at \in {"swap_lobes", "copy", "restore"} => r.kind = "lobes"
       /\ r.at \in {"swap_lobes", "scan_backends", "write", "reload"}
       /\ r.at = "write" => r.cap \in Cap /\ r.manifest \in Manifest

(* One request goes on, or ends. *)
GoesOn(w) ==
  /\ Active(w)
  /\ crossed' = crossed
  /\ \/ Becomes(w, Idle)
     \/ \E r \in Request :
          /\ Becomes(w, r)
          /\ r.kind = req[w].kind /\ r.set = req[w].set
          /\ r.at \in {"copy", "restore"} => req[w].at \in {"swap_lobes", "copy"}
          /\ r.at \notin {"write", "swap_lobes"}

LEMMA BeginsComes ==
  ASSUME TypeOK, NEW w \in Worker, NEW kind \in Kind,
         NEW step \in {"swap_lobes", "scan_backends", "write", "reload"},
         NEW c \in Cap \cup {NoCap}, NEW m \in Manifest \cup {NoManifest},
         NEW ls \in SUBSET Lobe, Begins(w, kind, step, c, m, ls),
         step = "swap_lobes" => kind = "lobes",
         step = "write" => c \in Cap /\ m \in Manifest
  PROVE  Comes(w)
<1> DEFINE r == [at |-> step, kind |-> kind, cap |-> c, manifest |-> m,
                 set |-> ls, built |-> backends, entries |-> NoEntries]
<1>1. r \in Request
  BY EmptyType DEF TypeOK, Request, Step
<1>2. /\ Becomes(w, r) /\ ~Active(w)
      /\ crossed' = IF \A v \in Worker : ~Active(v) THEN crossed
                    ELSE crossed \cup {r.kind}
                         \cup {req[v].kind : v \in {u \in Worker : Active(u)}}
  BY DEF Begins, Becomes
<1>3. /\ r.at \in {"swap_lobes", "copy", "restore"} => r.kind = "lobes"
      /\ r.at \in {"swap_lobes", "scan_backends", "write", "reload"}
      /\ r.at = "write" => r.cap \in Cap /\ r.manifest \in Manifest
  OBVIOUS
<1> HIDE DEF r
<1> QED
  BY <1>1, <1>2, <1>3 DEF Comes

(* The routes that begin a request. *)
Arrival(w) ==
  \/ \E ls \in SUBSET Lobe : PutLobes(w, ls)
  \/ \E b \in Backend : DeleteBackend(w, b) \/ \E x \in Config : SaveBackend(w, b, x)
  \/ \E c \in Cap : DeleteCap(w, c) \/ \E m \in Manifest : UpsertCap(w, c, m)

Progress(w) ==
  \/ Reload(w) \/ SwapLobes(w) \/ CopyRegistry(w) \/ RestoreRegistry(w)
  \/ ScanBackends(w) \/ BuildFails(w) \/ SwapBackends(w) \/ WriteCap(w)

LEMMA ArrivalComes ==
  ASSUME TypeOK, NEW w \in Worker, Arrival(w)
  PROVE  Comes(w)
<1>1. ASSUME NEW ls \in SUBSET Lobe, PutLobes(w, ls) PROVE Comes(w)
  BY <1>1, BeginsComes DEF PutLobes, Kind
<1>2. ASSUME NEW b \in Backend, DeleteBackend(w, b) \/ \E x \in Config : SaveBackend(w, b, x)
      PROVE  Comes(w)
  BY <1>2, BeginsComes DEF DeleteBackend, SaveBackend, Kind
<1>3. ASSUME NEW c \in Cap, DeleteCap(w, c) PROVE Comes(w)
  BY <1>3, BeginsComes DEF DeleteCap, Kind
<1>4. ASSUME NEW c \in Cap, NEW m \in Manifest, UpsertCap(w, c, m) PROVE Comes(w)
  BY <1>4, BeginsComes DEF UpsertCap, Kind
<1> QED
  BY <1>1, <1>2, <1>3, <1>4 DEF Arrival

LEMMA GoesGoesOn ==
  ASSUME TypeOK, NEW w \in Worker, Active(w),
         NEW s \in Step \ {"write", "swap_lobes"}, Goes(w, s),
         s \in {"copy", "restore"} => req[w].at \in {"swap_lobes", "copy"},
         crossed' = crossed
  PROVE  GoesOn(w)
<1> DEFINE r == [req[w] EXCEPT !.at = s]
<1>1. /\ r \in Request /\ r.kind = req[w].kind /\ r.set = req[w].set /\ r.at = s
  BY Working DEF Request
<1>2. Becomes(w, r)
  BY DEF Goes, Becomes
<1> HIDE DEF r
<1> QED
  BY <1>1, <1>2 DEF GoesOn

LEMMA ProgressGoesOn ==
  ASSUME TypeOK, NEW w \in Worker, Progress(w)
  PROVE  GoesOn(w)
<1>1. Active(w) /\ crossed' = crossed
  BY AtActive
  DEF Progress, Reload, TakeBackends, Scan, Count, Enforce, Store, Answer,
      SwapLobes, CopyRegistry, RestoreRegistry, ScanBackends, BuildFails,
      SwapBackends, WriteCap, At, history
<1>2. CASE Ends(w)
  BY <1>1, <1>2 DEF Ends, GoesOn, Becomes
<1>3. ASSUME NEW s \in Step \ {"write", "swap_lobes"}, Goes(w, s),
             s \in {"copy", "restore"} => req[w].at = "swap_lobes"
      PROVE  GoesOn(w)
  BY <1>1, <1>3, GoesGoesOn
<1>4. CASE TakeBackends(w) \/ ScanBackends(w)
  <2>1. PICK s \in {"scan", "swap_backends"}, bs \in Partial(Backend, Config) :
          req' = [req EXCEPT ![w].at = s, ![w].built = bs]
    BY <1>4 DEF TakeBackends, ScanBackends, TypeOK
  <2> DEFINE r == [req[w] EXCEPT !.at = s, !.built = bs]
  <2>2. /\ r \in Request /\ r.kind = req[w].kind /\ r.set = req[w].set
        /\ r.at = s
    BY <1>1, Working DEF Request, Step
  <2>3. Becomes(w, r)
    BY <2>1 DEF Becomes, TypeOK
  <2> HIDE DEF r
  <2> QED
    BY <1>1, <2>2, <2>3 DEF GoesOn
<1>5. CASE Scan(w) \/ Enforce(w) \/ CopyRegistry(w)
  <2>1. /\ Bound(capFile, req[w].built) \in Partial(Cap, Entry)
        /\ Enforced(req[w].entries, lobes) \in Partial(Cap, Entry)
        /\ Enforced(registry, req[w].set) \in Partial(Cap, Entry)
    BY <1>1, Working, BoundType, EnforcedType DEF TypeOK
  <2>2. PICK s \in {"count", "enforce", "store", "restore"}, e \in Partial(Cap, Entry) :
          /\ req' = [req EXCEPT ![w].at = s, ![w].entries = e]
          /\ s = "restore" => req[w].at = "copy"
    <3>1. CASE Scan(w)
      BY <2>1, <3>1, Zenon DEF Scan
    <3>2. CASE Enforce(w)
      BY <2>1, <3>2 DEF Enforce
    <3>3. CASE CopyRegistry(w)
      BY <2>1, <3>3 DEF CopyRegistry, At
    <3> QED
      BY <1>5, <3>1, <3>2, <3>3
  <2> DEFINE r == [req[w] EXCEPT !.at = s, !.entries = e]
  <2>3. /\ r \in Request /\ r.kind = req[w].kind /\ r.set = req[w].set
        /\ r.at = s
    BY <1>1, Working DEF Request, Step
  <2>4. Becomes(w, r)
    BY <2>2 DEF Becomes, TypeOK
  <2> HIDE DEF r
  <2> QED
    BY <1>1, <2>2, <2>3, <2>4 DEF GoesOn
<1> QED
  BY <1>2, <1>3, <1>4, <1>5
  DEF Progress, Reload, Count, Store, Answer, SwapLobes, RestoreRegistry,
      BuildFails, SwapBackends, WriteCap, At, Step

-----------------------------------------------------------------------------
(* Types *)

(* A capability about to be written is one the request came with. *)
Writing ==
  \A w \in Worker : At(w, "write") => req[w].cap \in Cap /\ req[w].manifest \in Manifest

LEMMA ComesType ==
  ASSUME TypeOK, Writing, NEW w \in Worker, Comes(w) \/ GoesOn(w)
  PROVE  /\ req' \in [Worker -> Request \cup {Idle}]
         /\ crossed' \subseteq Kind
         /\ Writing'
<1>1. PICK r \in Request \cup {Idle} :
        /\ Becomes(w, r)
        /\ r.at = "write" => r.cap \in Cap /\ r.manifest \in Manifest
  BY DEF Comes, GoesOn, Idle
<1>2. req' \in [Worker -> Request \cup {Idle}]
  BY <1>1, BecomesType
<1>3. \A v \in Worker : Active(v) => req[v].kind \in Kind
  BY Working DEF Request
<1>4. crossed' \subseteq Kind
  BY <1>3 DEF Comes, GoesOn, TypeOK, Request
<1>5. Writing'
  BY <1>1 DEF Writing, At, Becomes, TypeOK
<1> QED
  BY <1>2, <1>4, <1>5

LEMMA TypeInit == Init => TypeOK /\ Writing
<1> SUFFICES ASSUME Init PROVE TypeOK /\ Writing
  OBVIOUS
<1>1. /\ capFile \in Partial(Cap, Manifest)
      /\ backendFile \in Partial(Backend, Config)
      /\ backends \in Partial(Backend, Config)
  BY EmptyType DEF Init, NoEntries
<1>2. TypeOK
  BY <1>1, CompiledType, BoundsAssumption DEF Init, TypeOK
<1> QED
  BY <1>2 DEF Init, Writing, At, Idle

LEMMA ArrivalType ==
  ASSUME TypeOK, Writing, NEW w \in Worker, Arrival(w)
  PROVE  TypeOK' /\ Writing'
<1>1. /\ req' \in [Worker -> Request \cup {Idle}]
      /\ crossed' \subseteq Kind
      /\ Writing'
  BY ArrivalComes, ComesType
<1>2. requests' \in 0 .. MaxRequests
  BY BoundsAssumption
  DEF Arrival, PutLobes, DeleteBackend, SaveBackend, DeleteCap, UpsertCap, Begins, TypeOK
<1>3. capFile' \in Partial(Cap, Manifest)
  BY DropType
  DEF Arrival, PutLobes, DeleteBackend, SaveBackend, DeleteCap, UpsertCap, files, TypeOK
<1>4. backendFile' \in Partial(Backend, Config)
  BY DropType, PutType
  DEF Arrival, PutLobes, DeleteBackend, SaveBackend, DeleteCap, UpsertCap, files, TypeOK
<1>5. saved' \subseteq Lobe
  BY DEF Arrival, PutLobes, DeleteBackend, SaveBackend, DeleteCap, UpsertCap, files, TypeOK
<1>6. UNCHANGED <<lobes, backends, registry, failures>>
  BY DEF Arrival, PutLobes, DeleteBackend, SaveBackend, DeleteCap, UpsertCap, cells
<1> QED
  BY <1>1, <1>2, <1>3, <1>4, <1>5, <1>6 DEF TypeOK

LEMMA ProgressType ==
  ASSUME TypeOK, Writing, NEW w \in Worker, Progress(w)
  PROVE  TypeOK' /\ Writing'
<1>1. /\ req' \in [Worker -> Request \cup {Idle}]
      /\ crossed' \subseteq Kind
      /\ Writing'
  BY ProgressGoesOn, ComesType
<1>2. Active(w)
  BY ProgressGoesOn DEF GoesOn
<1>3. capFile' \in Partial(Cap, Manifest)
  BY PutType
  DEF Progress, Reload, TakeBackends, Scan, Count, Enforce, Store, Answer, SwapLobes,
      CopyRegistry, RestoreRegistry, ScanBackends, BuildFails, SwapBackends, WriteCap,
      files, Writing, TypeOK
<1>4. /\ UNCHANGED <<backendFile, saved, requests>>
      /\ lobes' \in {lobes, req[w].set}
      /\ backends' \in {backends, req[w].built}
      /\ registry' \in {registry, req[w].entries}
      /\ failures' = failures \/ (failures < MaxFailures /\ failures' = failures + 1)
  BY DEF Progress, Reload, TakeBackends, Scan, Count, Enforce, Store, Answer, SwapLobes,
         CopyRegistry, RestoreRegistry, ScanBackends, BuildFails, SwapBackends, WriteCap,
         files, cells, history
<1>5. failures' \in 0 .. MaxFailures
  BY <1>4, BoundsAssumption DEF TypeOK
<1> QED
  BY <1>1, <1>2, <1>3, <1>4, <1>5, Working DEF TypeOK

LEMMA RestartType ==
  ASSUME TypeOK, Restart
  PROVE  TypeOK' /\ Writing'
<1>1. Cold \in Partial(Cap, Entry)
  BY CompiledType, BoundType DEF Cold, TypeOK
<1>2. registry' \in Partial(Cap, Entry)
  BY <1>1, EnforcedType DEF Restart
<1>3. TypeOK'
  BY <1>2, BoundsAssumption DEF Restart, TypeOK, files
<1> QED
  BY <1>3 DEF Restart, Writing, At, Idle

LEMMA Steps ==
  ASSUME Next
  PROVE  Restart \/ \E w \in Worker : Arrival(w) \/ Progress(w)
BY DEF Next, Lobes, Backends, Caps, Arrival, Progress

-----------------------------------------------------------------------------
(* Requests that overlap no other *)

(* While no change of lobes has overlapped another request, one under way  *)
(* is alone; while no request has, any is.                                 *)
Alone ==
  \A v, w \in Worker :
    Active(v) /\ Active(w) /\ v # w =>
      /\ req[v].kind \in crossed
      /\ req[w].kind \in crossed

(* Only a change of lobes swaps them, and keeps to the set it came with.   *)
LobesAt(w) == At(w, "swap_lobes") \/ At(w, "copy") \/ At(w, "restore")

OwnKind == \A w \in Worker : LobesAt(w) => req[w].kind = "lobes"

Frame == TypeOK /\ Writing /\ Alone /\ OwnKind

LEMMA FrameInit == Init => Frame
<1>1. Init => Alone /\ OwnKind
  BY DEF Init, Alone, OwnKind, LobesAt, Active, At, Idle
<1> QED
  BY <1>1, TypeInit DEF Frame

LEMMA FrameMoves ==
  ASSUME Frame, NEW w \in Worker, Comes(w) \/ GoesOn(w)
  PROVE  Alone' /\ OwnKind'
<1>1. CASE Comes(w)
  <2>1. PICK r \in Request :
          /\ Becomes(w, r)
          /\ crossed' = IF \A v \in Worker : ~Active(v) THEN crossed
                        ELSE crossed \cup {r.kind}
                             \cup {req[v].kind : v \in {u \in Worker : Active(u)}}
          /\ r.at \in {"swap_lobes", "copy", "restore"} => r.kind = "lobes"
    BY <1>1 DEF Comes
  <2>2. req'[w] = r /\ \A v \in Worker \ {w} : req'[v] = req[v]
    BY <2>1 DEF Becomes, Frame, TypeOK
  <2>3. Alone'
    BY <2>1, <2>2 DEF Frame, Alone, Active
  <2>4. OwnKind'
    BY <2>1, <2>2 DEF Frame, OwnKind, LobesAt, At
  <2> QED
    BY <2>3, <2>4
<1>2. CASE GoesOn(w)
  <2>1. PICK r \in Request \cup {Idle} :
          /\ Becomes(w, r)
          /\ r # Idle => r.kind = req[w].kind
          /\ r.at \in {"swap_lobes", "copy", "restore"} =>
               r.kind = req[w].kind /\ req[w].at \in {"swap_lobes", "copy"}
    BY <1>2 DEF GoesOn, Idle
  <2>2. req'[w] = r /\ \A v \in Worker \ {w} : req'[v] = req[v]
    BY <2>1 DEF Becomes, Frame, TypeOK
  <2>3. Active(w) /\ crossed' = crossed
    BY <1>2 DEF GoesOn
  <2>4. Alone'
    BY <2>1, <2>2, <2>3 DEF Frame, Alone, Active
  <2>5. OwnKind'
    BY <2>1, <2>2 DEF Frame, OwnKind, LobesAt, At
  <2> QED
    BY <2>4, <2>5
<1> QED
  BY <1>1, <1>2

LEMMA FrameStep == Frame /\ [Next]_vars => Frame'
<1> SUFFICES ASSUME Frame, [Next]_vars PROVE Frame'
  OBVIOUS
<1>1. CASE UNCHANGED vars
  BY <1>1 DEF vars, files, cells, history, Frame, TypeOK, Writing, Alone, OwnKind,
              LobesAt, Active, At
<1>2. CASE Restart
  <2>1. Alone' /\ OwnKind'
    BY <1>2 DEF Restart, Alone, OwnKind, LobesAt, Active, At, Idle
  <2> QED
    BY <1>2, <2>1, RestartType DEF Frame
<1>3. ASSUME NEW w \in Worker, Arrival(w) \/ Progress(w)
      PROVE  Frame'
  BY <1>3, ArrivalComes, ProgressGoesOn, FrameMoves, ArrivalType, ProgressType DEF Frame
<1> QED
  BY <1>1, <1>2, <1>3, Steps

LEMMA FrameInvariance == Spec => []Frame
BY FrameInit, FrameStep, PTL DEF Spec

(* TypeOK: files, cells and requests keep their types: what is written is  *)
(* what a request came with, what is served a binding of a manifest.       *)
THEOREM TypeCorrect == Spec => []TypeOK
<1>1. Frame => TypeOK
  BY DEF Frame
<1> QED
  BY <1>1, FrameInvariance, PTL

(* A change of lobes under way has the node to itself. *)
LEMMA LobesAlone ==
  ASSUME Frame, "lobes" \notin crossed, NEW w \in Worker, LobesAt(w)
  PROVE  \A v \in Worker \ {w} : ~Active(v)
BY DEF Frame, Alone, OwnKind, LobesAt, Active, At, Idle

-----------------------------------------------------------------------------
(* Claims *)

Within(entries, ls) == \A c \in DOMAIN entries : entries[c].lobes \subseteq ls

Swapped(w) == At(w, "copy") \/ At(w, "restore")

(* What is about to be stored claims lobes of the instance, and a change   *)
(* of them that has been made is still the last one.                       *)
ClaimsInv ==
  "lobes" \notin crossed =>
    /\ \A w \in Worker : At(w, "store") \/ At(w, "restore") => Within(req[w].entries, lobes)
    /\ \A w \in Worker : Swapped(w) => lobes = req[w].set
    /\ (\A w \in Worker : ~Swapped(w)) => Within(registry, lobes)

(* A step of w leaves the other requests alone. *)
LEMMA Others ==
  ASSUME Frame, NEW w \in Worker, Comes(w) \/ GoesOn(w)
  PROVE  /\ \A v \in Worker \ {w} : req'[v] = req[v]
         /\ crossed \subseteq crossed'
BY DEF Comes, GoesOn, Becomes, Frame, TypeOK

LEMMA ClaimsInit == Init => ClaimsInv
BY DEF Init, ClaimsInv, Swapped, At, Idle, Within, Compiled

LEMMA ClaimsArrival ==
  ASSUME Frame, ClaimsInv, NEW w \in Worker, Arrival(w)
  PROVE  ClaimsInv'
<1>1. Comes(w) /\ (\A v \in Worker \ {w} : req'[v] = req[v]) /\ crossed \subseteq crossed'
  BY ArrivalComes, Others DEF Frame
<1>2. UNCHANGED <<lobes, registry>>
  BY DEF Arrival, PutLobes, DeleteBackend, SaveBackend, DeleteCap, UpsertCap, cells
<1>3. req[w].at = "idle" /\ req'[w].at \notin {"store", "copy", "restore"}
  BY <1>1 DEF Comes, Becomes, Active, Idle, Frame, TypeOK
<1> QED
  BY <1>1, <1>2, <1>3 DEF ClaimsInv, Swapped, At

LEMMA ClaimsProgress ==
  ASSUME Frame, ClaimsInv, NEW w \in Worker, Progress(w), "lobes" \notin crossed'
  PROVE  ClaimsInv'
<1>1. /\ Active(w) /\ "lobes" \notin crossed
      /\ \A v \in Worker \ {w} : req'[v] = req[v]
  BY ProgressGoesOn, Others DEF Frame, GoesOn
<1>2. CASE Enforce(w)
  <2>1. /\ UNCHANGED <<lobes, registry>>
        /\ req[w].at = "enforce" /\ req'[w].at = "store"
        /\ req'[w].entries = Enforced(req[w].entries, lobes)
    BY <1>1, <1>2, Working DEF Enforce, cells, At, Frame, TypeOK, Request
  <2>2. Within(req'[w].entries, lobes)
    BY <1>1, <2>1, Working, EnforcedType DEF Frame, Within
  <2> QED
    BY <1>1, <2>1, <2>2 DEF ClaimsInv, Swapped, At
<1>3. CASE Store(w)
  <2>1. /\ UNCHANGED lobes
        /\ req[w].at = "store" /\ req'[w].at = "answer"
        /\ registry' = req[w].entries
    BY <1>1, <1>3, Working DEF Store, At, Goes, Frame, TypeOK, Request
  <2> QED
    BY <1>1, <2>1 DEF ClaimsInv, Swapped, At
<1>4. CASE SwapLobes(w)
  <2>1. \A v \in Worker \ {w} : req'[v] = Idle
    BY <1>1, <1>4, LobesAlone DEF SwapLobes, LobesAt, Active
  <2>2. /\ lobes' = req[w].set
        /\ req'[w].at = "copy" /\ req'[w].set = req[w].set
    BY <1>1, <1>4, Working DEF SwapLobes, Goes, Frame, TypeOK, Request
  <2> QED
    BY <2>1, <2>2 DEF ClaimsInv, Swapped, At, Idle
<1>5. CASE CopyRegistry(w)
  <2>1. /\ UNCHANGED <<lobes, registry>>
        /\ req[w].at = "copy" /\ req'[w].at = "restore" /\ req'[w].set = req[w].set
        /\ req'[w].entries = Enforced(registry, req[w].set)
    BY <1>1, <1>5, Working DEF CopyRegistry, cells, At, Frame, TypeOK, Request
  <2>2. lobes = req[w].set
    BY <1>1, <2>1 DEF ClaimsInv, Swapped, At
  <2>3. Within(req'[w].entries, lobes)
    BY <2>1, <2>2, EnforcedType DEF Frame, TypeOK, Within
  <2> QED
    BY <1>1, <2>1, <2>2, <2>3 DEF ClaimsInv, Swapped, At
<1>6. CASE RestoreRegistry(w)
  <2>1. /\ UNCHANGED lobes
        /\ req[w].at = "restore" /\ req'[w].at = "reload"
        /\ registry' = req[w].entries
    BY <1>1, <1>6, Working DEF RestoreRegistry, At, Goes, Frame, TypeOK, Request
  <2> QED
    BY <1>1, <2>1 DEF ClaimsInv, Swapped, At
<1>7. CASE \/ TakeBackends(w) \/ Scan(w) \/ Count(w) \/ Answer(w)
           \/ ScanBackends(w) \/ BuildFails(w) \/ SwapBackends(w) \/ WriteCap(w)
  <2>1. UNCHANGED <<lobes, registry>>
    BY <1>7 DEF TakeBackends, Scan, Count, Answer, ScanBackends, BuildFails,
                SwapBackends, WriteCap, cells
  <2>2. req[w].at \notin {"copy", "restore"}
    BY <1>7 DEF TakeBackends, Scan, Count, Answer, ScanBackends, BuildFails,
                SwapBackends, WriteCap, At
  <2>3. req'[w].at \notin {"store", "copy", "restore"}
    BY <1>1, <1>7, Working
    DEF TakeBackends, Scan, Count, Answer, ScanBackends, BuildFails,
        SwapBackends, WriteCap, Goes, Ends, Idle, Frame, TypeOK, Request
  <2> QED
    BY <1>1, <2>1, <2>2, <2>3 DEF ClaimsInv, Swapped, At
<1> QED
  BY <1>2, <1>3, <1>4, <1>5, <1>6, <1>7 DEF Progress, Reload

LEMMA ClaimsStep == Frame /\ ClaimsInv /\ [Next]_vars => ClaimsInv'
<1> SUFFICES ASSUME Frame, ClaimsInv, [Next]_vars PROVE ClaimsInv'
  OBVIOUS
<1>1. CASE UNCHANGED vars
  BY <1>1 DEF vars, cells, history, ClaimsInv, Swapped, At
<1>2. CASE Restart
  <2>1. Cold \in Partial(Cap, Entry)
    BY CompiledType, BoundType DEF Cold, Frame, TypeOK
  <2>2. Within(registry', lobes')
    BY <1>2, <2>1, EnforcedType DEF Restart, Within
  <2> QED
    BY <1>2, <2>2 DEF Restart, ClaimsInv, Swapped, At, Idle
<1>3. ASSUME NEW w \in Worker, Arrival(w)
      PROVE  ClaimsInv'
  BY <1>3, ClaimsArrival
<1>4. ASSUME NEW w \in Worker, Progress(w)
      PROVE  ClaimsInv'
  <2>1. CASE "lobes" \in crossed'
    BY <2>1 DEF ClaimsInv
  <2> QED
    BY <1>4, <2>1, ClaimsProgress
<1> QED
  BY <1>1, <1>2, <1>3, <1>4, Steps

(* ClaimsWithinLobes: reloads of capabilities and backends may overlap,    *)
(* fail or be cut off; what is served claims no lobe the instance has      *)
(* left, while a change of lobes overlaps no other request.                *)
THEOREM Claims == Spec => []ClaimsWithinLobes
<1>1. ClaimsInv => ClaimsWithinLobes
  BY DEF ClaimsInv, ClaimsWithinLobes, Swapped, Within
<1> QED
  BY <1>1, FrameInvariance, ClaimsInit, ClaimsStep, PTL DEF Spec

-----------------------------------------------------------------------------
(* Serving something *)

(* A scan that goes on to a swap has found something, and a change of      *)
(* lobes puts back as many capabilities as it has copied.                  *)
ServingInv ==
  /\ \A w \in Worker : At(w, "enforce") \/ At(w, "store") => DOMAIN req[w].entries # {}
  /\ "lobes" \notin crossed =>
       \A w \in Worker : At(w, "restore") => DOMAIN req[w].entries = DOMAIN registry

LEMMA ServingInit == Init => ServingInv
BY DEF Init, ServingInv, At, Idle

LEMMA ServingArrival ==
  ASSUME Frame, ServingInv, NEW w \in Worker, Arrival(w)
  PROVE  ServingInv' /\ registry' = registry
<1>1. Comes(w) /\ (\A v \in Worker \ {w} : req'[v] = req[v]) /\ crossed \subseteq crossed'
  BY ArrivalComes, Others DEF Frame
<1>2. registry' = registry
  BY DEF Arrival, PutLobes, DeleteBackend, SaveBackend, DeleteCap, UpsertCap, cells
<1>3. req'[w].at \notin {"enforce", "store", "restore"}
  BY <1>1 DEF Comes, Becomes, Frame, TypeOK
<1> QED
  BY <1>1, <1>2, <1>3 DEF ServingInv, At

LEMMA ServingProgress ==
  ASSUME Frame, ServingInv, NEW w \in Worker, Progress(w)
  PROVE  /\ ServingInv'
         /\ DOMAIN registry # {} /\ DOMAIN registry' = {} => "lobes" \in crossed
<1>1. /\ Active(w) /\ crossed' = crossed
      /\ \A v \in Worker \ {w} : req'[v] = req[v]
  BY ProgressGoesOn, Others DEF Frame, GoesOn
<1>2. CASE Scan(w)
  <2>1. /\ UNCHANGED registry
        /\ req'[w].at \in {"count", "enforce"}
        /\ req'[w].at = "enforce" => DOMAIN req'[w].entries # {}
    BY <1>1, <1>2, Working DEF Scan, cells, Frame, TypeOK, Request
  <2> QED
    BY <1>1, <2>1 DEF ServingInv, At
<1>3. CASE Enforce(w)
  <2>1. /\ UNCHANGED registry
        /\ req[w].at = "enforce" /\ req'[w].at = "store"
        /\ req'[w].entries = Enforced(req[w].entries, lobes)
    BY <1>1, <1>3, Working DEF Enforce, cells, At, Frame, TypeOK, Request
  <2>2. DOMAIN req'[w].entries = DOMAIN req[w].entries
    BY <1>1, <2>1, Working, EnforcedType DEF Frame
  <2> QED
    BY <1>1, <2>1, <2>2 DEF ServingInv, At
<1>4. CASE Store(w)
  <2>1. /\ req[w].at = "store" /\ req'[w].at = "answer"
        /\ registry' = req[w].entries
    BY <1>1, <1>4, Working DEF Store, At, Goes, Frame, TypeOK, Request
  <2>2. DOMAIN registry' # {}
    BY <2>1 DEF ServingInv, At
  <2>3. ASSUME "lobes" \notin crossed, NEW v \in Worker, v # w
        PROVE  ~At(v, "restore")
    BY <1>1, <2>3, LobesAlone DEF LobesAt
  <2> QED
    BY <1>1, <2>1, <2>2, <2>3 DEF ServingInv, At
<1>5. CASE CopyRegistry(w)
  <2>1. /\ UNCHANGED registry
        /\ req'[w].at = "restore"
        /\ req'[w].entries = Enforced(registry, req[w].set)
    BY <1>1, <1>5, Working DEF CopyRegistry, cells, At, Frame, TypeOK, Request
  <2>2. DOMAIN req'[w].entries = DOMAIN registry
    BY <2>1, EnforcedType DEF Frame, TypeOK
  <2> QED
    BY <1>1, <2>1, <2>2 DEF ServingInv, At
<1>6. CASE RestoreRegistry(w)
  <2>1. /\ req[w].at = "restore" /\ req'[w].at = "reload"
        /\ registry' = req[w].entries
    BY <1>1, <1>6, Working DEF RestoreRegistry, At, Goes, Frame, TypeOK, Request
  <2>2. ASSUME "lobes" \notin crossed
        PROVE  DOMAIN registry' = DOMAIN registry
    BY <2>1, <2>2 DEF ServingInv, At
  <2> QED
    BY <1>1, <2>1, <2>2 DEF ServingInv, At
<1>7. CASE \/ TakeBackends(w) \/ Count(w) \/ Answer(w) \/ SwapLobes(w)
           \/ ScanBackends(w) \/ BuildFails(w) \/ SwapBackends(w) \/ WriteCap(w)
  <2>1. UNCHANGED registry
    BY <1>7 DEF TakeBackends, Count, Answer, SwapLobes, ScanBackends, BuildFails,
                SwapBackends, WriteCap, cells
  <2>2. req'[w].at \notin {"enforce", "store", "restore"}
    BY <1>1, <1>7, Working
    DEF TakeBackends, Count, Answer, SwapLobes, ScanBackends, BuildFails,
        SwapBackends, WriteCap, Goes, Ends, Idle, Frame, TypeOK, Request
  <2> QED
    BY <1>1, <2>1, <2>2 DEF ServingInv, At
<1> QED
  BY <1>2, <1>3, <1>4, <1>5, <1>6, <1>7 DEF Progress, Reload

LEMMA ServingStep ==
  Frame /\ ServingInv /\ [Next]_vars =>
    /\ ServingInv'
    /\ [DOMAIN capFile # {} /\ DOMAIN registry # {} /\ DOMAIN registry' = {}
          => Restart \/ "lobes" \in crossed]_vars
<1> SUFFICES ASSUME Frame, ServingInv, [Next]_vars
             PROVE  /\ ServingInv'
                    /\ DOMAIN registry # {} /\ DOMAIN registry' = {} =>
                         Restart \/ "lobes" \in crossed
  OBVIOUS
<1>1. CASE UNCHANGED vars
  BY <1>1 DEF vars, cells, history, ServingInv, At
<1>2. CASE Restart
  BY <1>2 DEF Restart, ServingInv, At, Idle
<1>3. ASSUME NEW w \in Worker, Arrival(w) \/ Progress(w)
      PROVE  /\ ServingInv'
             /\ DOMAIN registry # {} /\ DOMAIN registry' = {} => "lobes" \in crossed
  BY <1>3, ServingArrival, ServingProgress
<1> QED
  BY <1>1, <1>2, <1>3, Steps

(* NeverUnpublished: while there are manifests, whether they bind or not,  *)
(* a node that serves something is not reloaded into one that serves       *)
(* nothing, unless a change of lobes has overlapped another request.       *)
THEOREM StaysPublished == Spec => NeverUnpublished
BY FrameInvariance, ServingInit, ServingStep, PTL DEF Spec, NeverUnpublished

-----------------------------------------------------------------------------
(* Hot and cold *)

Disk == Bound(capFile, backendFile)

(* Served as a restart would, if anything on disk binds. *)
Fresh == DOMAIN Disk # {} => registry = Enforced(Disk, saved)

(* How far the node has followed the files when a request stands at r:     *)
(* what it has still to swap in, it holds.                                 *)
Following(r) ==
  /\ lobes = IF r.at = "swap_lobes" THEN lobes ELSE saved
  /\ r.at = "swap_lobes" => r.set = saved
  /\ r.at \notin {"scan_backends", "swap_backends"} => backends = backendFile
  /\ r.at \in {"swap_backends", "scan"} => r.built = backendFile
  /\ r.at = "count" => DOMAIN Disk = {}
  /\ r.at = "enforce" => r.entries = Disk
  /\ r.at = "store" => r.entries = Enforced(Disk, saved)
  /\ r.at \in {"idle", "answer", "write"} => Fresh

Sequential == crossed = {} /\ failures = 0

(* Of requests that follow one another. *)
FollowingInv ==
  Sequential =>
    /\ \A w \in Worker : Active(w) => Following(req[w])
    /\ Quiet => Following(Idle)

LEMMA FollowingInit == Init => FollowingInv
<1> SUFFICES ASSUME Init PROVE FollowingInv
  OBVIOUS
<1>1. Quiet
  BY DEF Init, Quiet, Active
<1>2. DOMAIN Disk = {}
  BY DEF Init, Disk, Bound
<1>3. lobes = saved /\ backends = backendFile
  BY DEF Init
<1> QED
  BY <1>1, <1>2, <1>3 DEF FollowingInv, Following, Fresh, Idle, Quiet

(* The one request there is moves: it is enough to look at where to. *)
LEMMA MovesAlone ==
  ASSUME Frame, FollowingInv, NEW w \in Worker, Comes(w) \/ GoesOn(w), Sequential'
  PROVE  /\ crossed = {}
         /\ \A v \in Worker \ {w} : ~Active(v) /\ req'[v] = Idle
         /\ failures = 0 => Following(req[w])
         /\ Following(req[w])' => FollowingInv'
<1>1. crossed = {} /\ \A v \in Worker \ {w} : req'[v] = req[v]
  BY Others DEF Sequential
<1>2. \A v \in Worker \ {w} : ~Active(v)
  <2>1. CASE Comes(w)
    BY <2>1 DEF Comes, Sequential, Active
  <2>2. CASE GoesOn(w)
    BY <1>1, <2>2 DEF GoesOn, Frame, Alone
  <2> QED
    BY <2>1, <2>2
<1>3. \A v \in Worker \ {w} : req'[v] = Idle
  BY <1>1, <1>2 DEF Active
<1>4. failures = 0 => Following(req[w])
  <2>1. CASE Active(w)
    BY <1>1, <2>1 DEF FollowingInv, Sequential
  <2>2. CASE ~Active(w)
    BY <1>1, <1>2, <2>2 DEF FollowingInv, Sequential, Quiet, Active
  <2> QED
    BY <2>1, <2>2
<1>5. Following(req[w])' => FollowingInv'
  BY <1>3 DEF FollowingInv, Quiet, Active
<1> QED
  BY <1>1, <1>2, <1>3, <1>4, <1>5

LEMMA FollowingArrival ==
  ASSUME Frame, FollowingInv, NEW w \in Worker, Arrival(w), Sequential'
  PROVE  FollowingInv'
<1>1. Comes(w)
  BY ArrivalComes DEF Frame
<1>2. failures' = failures /\ UNCHANGED cells
  BY DEF Arrival, PutLobes, DeleteBackend, SaveBackend, DeleteCap, UpsertCap
<1>3. Following(req[w]) /\ req[w].at = "idle"
  BY <1>1, <1>2, MovesAlone DEF Sequential, Comes, Active, Idle
<1>4. lobes = saved /\ backends = backendFile /\ Fresh
  BY <1>3 DEF Following
<1>5. Following(req[w])'
  <2>1. CASE \E ls \in SUBSET Lobe : PutLobes(w, ls)
    BY <1>4, <2>1 DEF PutLobes, Begins, cells, Following, Frame, TypeOK
  <2>2. CASE \E b \in Backend : DeleteBackend(w, b) \/ \E x \in Config : SaveBackend(w, b, x)
    BY <1>4, <2>2 DEF DeleteBackend, SaveBackend, Begins, cells, Following, Frame, TypeOK
  <2>3. CASE \E c \in Cap : DeleteCap(w, c)
    BY <1>4, <2>3 DEF DeleteCap, Begins, cells, Following, Frame, TypeOK
  <2>4. CASE \E c \in Cap, m \in Manifest : UpsertCap(w, c, m)
    BY <1>4, <2>4
    DEF UpsertCap, Begins, files, cells, Following, Fresh, Disk, Frame, TypeOK
  <2> QED
    BY <2>1, <2>2, <2>3, <2>4 DEF Arrival
<1> QED
  BY <1>1, <1>5, MovesAlone

LEMMA FollowingProgress ==
  ASSUME Frame, FollowingInv, NEW w \in Worker, Progress(w), Sequential'
  PROVE  FollowingInv'
<1>1. GoesOn(w) /\ Active(w) /\ req[w] \in Request
  BY ProgressGoesOn, Working DEF Frame, GoesOn
<1>2. failures = 0 /\ ~BuildFails(w)
  BY DEF Progress, Reload, TakeBackends, Scan, Count, Enforce, Store, Answer, SwapLobes,
         CopyRegistry, RestoreRegistry, ScanBackends, BuildFails, SwapBackends, WriteCap,
         Sequential, Frame, TypeOK
<1>3. Following(req[w])
  BY <1>1, <1>2, MovesAlone
<1>4. req \in [Worker -> Request \cup {Idle}]
  BY DEF Frame, TypeOK
<1>5. Following(req[w])'
  <2>1. CASE TakeBackends(w)
    <3>1. lobes = saved /\ backends = backendFile
      BY <1>3, <2>1 DEF TakeBackends, At, Following
    <3>2. req'[w].at = "scan" /\ req'[w].built = backends
      BY <1>1, <1>4, <2>1 DEF TakeBackends, Request
    <3>3. UNCHANGED <<saved, lobes, backends, backendFile>>
      BY <2>1 DEF TakeBackends, files, cells
    <3> QED
      BY <3>1, <3>2, <3>3 DEF Following
  <2>2. CASE Scan(w)
    <3>1. req[w].built = backendFile
      BY <1>3, <2>2 DEF Scan, At, Following
    <3>2. req'[w] = [req[w] EXCEPT !.at = IF DOMAIN Disk = {} THEN "count" ELSE "enforce",
                                   !.entries = Disk]
      BY <1>4, <2>2, <3>1 DEF Scan, Disk
    <3>3. UNCHANGED <<Disk, saved, lobes, backends, backendFile>>
      BY <2>2 DEF Scan, Disk, files, cells
    <3> HIDE DEF Disk
    <3>4. /\ req'[w].at \in {"count", "enforce"}
          /\ req'[w].at = "count" => DOMAIN Disk = {}
          /\ req'[w].entries = Disk
      BY <1>1, <3>2 DEF Request
    <3>5. lobes = saved /\ backends = backendFile
      BY <1>3, <2>2 DEF Scan, At, Following
    <3> QED
      BY <3>3, <3>4, <3>5 DEF Following
  <2>3. CASE Count(w)
    <3>1. /\ DOMAIN Disk = {}
          /\ lobes = saved /\ backends = backendFile
      BY <1>3, <2>3 DEF Count, At, Following
    <3>2. req'[w].at \in {"idle", "answer"}
      BY <1>1, <1>4, <2>3 DEF Count, Ends, Goes, Idle, Request
    <3>3. UNCHANGED <<Disk, saved, lobes, backends, backendFile>>
      BY <2>3 DEF Count, Disk, files, cells
    <3> QED
      BY <3>1, <3>2, <3>3 DEF Following, Fresh
  <2>4. CASE Enforce(w)
    <3>1. /\ req[w].entries = Disk
          /\ lobes = saved /\ backends = backendFile
      BY <1>3, <2>4 DEF Enforce, At, Following
    <3>2. req'[w].at = "store" /\ req'[w].entries = Enforced(Disk, saved)
      BY <1>1, <1>4, <2>4, <3>1 DEF Enforce, Request
    <3>3. UNCHANGED <<Disk, saved, lobes, backends, backendFile>>
      BY <2>4 DEF Enforce, Disk, files, cells
    <3>4. Enforced(Disk, saved)' = Enforced(Disk, saved)
      BY <3>3 DEF Enforced
    <3> QED
      BY <3>1, <3>2, <3>3, <3>4 DEF Following
  <2>5. CASE Store(w)
    <3>1. /\ req[w].entries = Enforced(Disk, saved)
          /\ lobes = saved /\ backends = backendFile
      BY <1>3, <2>5 DEF Store, At, Following
    <3>2. req'[w].at = "answer" /\ registry' = Enforced(Disk, saved)
      BY <1>1, <1>4, <2>5, <3>1 DEF Store, Goes, Request
    <3>3. UNCHANGED <<Disk, saved, lobes, backends, backendFile>>
      BY <2>5 DEF Store, Disk, files
    <3>4. Enforced(Disk, saved)' = Enforced(Disk, saved)
      BY <3>3 DEF Enforced
    <3> QED
      BY <3>1, <3>2, <3>3, <3>4 DEF Following, Fresh
  <2>6. CASE Answer(w)
    <3>1. lobes = saved /\ backends = backendFile /\ Fresh
      BY <1>3, <2>6 DEF Answer, At, Following
    <3>2. req'[w] = Idle
      BY <1>4, <2>6 DEF Answer, Ends
    <3>3. UNCHANGED <<capFile, backendFile, saved, lobes, backends, registry>>
      BY <2>6 DEF Answer, files, cells
    <3> QED
      BY <3>1, <3>2, <3>3 DEF Following, Fresh, Disk, Idle
  <2>7. CASE SwapLobes(w)
    <3>1. req[w].set = saved /\ backends = backendFile
      BY <1>3, <2>7 DEF SwapLobes, At, Following
    <3>2. req'[w].at = "copy" /\ lobes' = req[w].set
      BY <1>1, <1>4, <2>7 DEF SwapLobes, Goes, Request
    <3> QED
      BY <2>7, <3>1, <3>2 DEF SwapLobes, files, Following
  <2>8. CASE CopyRegistry(w) \/ RestoreRegistry(w)
    <3>1. lobes = saved /\ backends = backendFile
      BY <1>3, <2>8 DEF CopyRegistry, RestoreRegistry, At, Following
    <3>2. req'[w].at \in {"restore", "reload"}
      BY <1>1, <1>4, <2>8 DEF CopyRegistry, RestoreRegistry, Goes, Request
    <3>3. UNCHANGED <<saved, lobes, backends, backendFile>>
      BY <2>8 DEF CopyRegistry, RestoreRegistry, files, cells
    <3> QED
      BY <3>1, <3>2, <3>3 DEF Following
  <2>9. CASE ScanBackends(w) \/ SwapBackends(w)
    <3>1. lobes = saved /\ (At(w, "swap_backends") => req[w].built = backendFile)
      BY <1>3, <2>9 DEF ScanBackends, SwapBackends, At, Following
    <3>2. \/ req'[w].at = "swap_backends" /\ req'[w].built = backendFile
          \/ req'[w].at = "reload" /\ backends' = backendFile
      BY <1>1, <1>4, <2>9, <3>1 DEF ScanBackends, SwapBackends, Goes, Request
    <3>3. UNCHANGED <<saved, lobes, backendFile>>
      BY <2>9 DEF ScanBackends, SwapBackends, files, cells
    <3> QED
      BY <3>1, <3>2, <3>3 DEF Following
  <2>10. CASE WriteCap(w)
    <3>1. lobes = saved /\ backends = backendFile
      BY <1>3, <2>10 DEF WriteCap, At, Following
    <3>2. req'[w].at = "reload"
      BY <1>1, <1>4, <2>10 DEF WriteCap, Goes, Request
    <3>3. UNCHANGED <<saved, lobes, backends, backendFile>>
      BY <2>10 DEF WriteCap, cells
    <3> QED
      BY <3>1, <3>2, <3>3 DEF Following
  <2> QED
    BY <1>2, <2>1, <2>2, <2>3, <2>4, <2>5, <2>6, <2>7, <2>8, <2>9, <2>10
    DEF Progress, Reload
<1> QED
  BY <1>1, <1>5, MovesAlone

(* A manifest that binds retires the compile-time backend. *)
LEMMA ColdIsDisk == DOMAIN Disk # {} => Cold = Disk
BY DEF Cold, Disk, Bound

LEMMA FollowingStep == Frame /\ FollowingInv /\ [Next]_vars => FollowingInv'
<1> SUFFICES ASSUME Frame, FollowingInv, [Next]_vars, Sequential' PROVE FollowingInv'
  BY DEF FollowingInv
<1>1. CASE UNCHANGED vars
  BY <1>1 DEF vars, files, cells, history, FollowingInv, Following, Fresh, Disk,
              Sequential, Quiet, Active
<1>2. CASE Restart
  <2>1. \A w \in Worker : req'[w] = Idle
    BY <1>2 DEF Restart
  <2>2. lobes' = saved' /\ backends' = backendFile' /\ Fresh'
    BY <1>2, ColdIsDisk DEF Restart, files, Fresh, Disk
  <2> QED
    BY <2>1, <2>2 DEF FollowingInv, Following, Quiet, Active, Idle
<1>3. ASSUME NEW w \in Worker, Arrival(w) \/ Progress(w)
      PROVE  FollowingInv'
  BY <1>3, FollowingArrival, FollowingProgress
<1> QED
  BY <1>1, <1>2, <1>3, Steps

(* HotAsCold: after requests that followed one another, however many, the  *)
(* node serves what it would after a restart, if some manifest binds.      *)
THEOREM HotIsCold == Spec => []HotAsCold
<1>1. FollowingInv => HotAsCold
  BY ColdIsDisk
  DEF FollowingInv, Following, Fresh, Disk, Sequential, HotAsCold, Idle
<1> QED
  BY <1>1, FrameInvariance, FollowingInit, FollowingStep, PTL DEF Spec
=============================================================================
