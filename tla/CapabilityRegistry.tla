-------------------------- MODULE CapabilityRegistry --------------------------
(***************************************************************************)
(* What a node serves: the capability registry, bound to live backends,    *)
(* and the lobes the instance belongs to (node/src/node.rs), against the   *)
(* manifests and the lobe set on disk.  The settings routes write a file   *)
(* and then bring the node up to date without a restart.  Each of the      *)
(* three cells is an ArcSwap: a reload works on snapshots of them and      *)
(* stores its result, with nothing held in between, and requests run at    *)
(* once.                                                                   *)
(*                                                                         *)
(* A directory is read, and a file written, in one step.  A manifest that  *)
(* does not parse binds to nothing, like one that fits no backend.         *)
(***************************************************************************)
EXTENDS Naturals, FiniteSets

CONSTANTS
  Cap,          \* names of capabilities
  Backend,      \* names of backends
  Lobe,         \* lobe ids
  Manifest,     \* what a file of caps/ may say
  Config,       \* what a file of backends/ may say
  Builtin,      \* what the compile-time backend declares
  OneDir,       \* whether --manifest-dir is the configuration directory
  Worker,       \* requests that may run at once
  MaxRequests,  \* bound on the requests
  MaxFailures   \* bound on the backends that cannot be built

ASSUME ManifestAssumption ==
  \A m \in Manifest : m.backend \in Backend /\ m.lobes \subseteq Lobe

ASSUME BuiltinAssumption == Builtin \subseteq Cap

ASSUME OneDirAssumption == OneDir \in BOOLEAN

ASSUME BoundsAssumption == MaxRequests \in Nat /\ MaxFailures \in Nat

VARIABLES
  capFile,      \* caps/: name -> manifest
  backendFile,  \* backends/: name -> configuration
  saved,        \* the lobes in instance.toml
  lobes,        \* Node.lobes
  backends,     \* Node.backends: name -> configuration it was built from
  registry,     \* Node.registry: name -> entry
  req,          \* what each request is doing
  requests,     \* requests so far
  failures,     \* failed reloads of backends so far
  crossed       \* history: kinds of request that have overlapped another

files == <<capFile, backendFile, saved>>
cells == <<lobes, backends, registry>>
history == <<requests, crossed>>
vars == <<files, cells, req, failures, history>>

-----------------------------------------------------------------------------
NoEntries == [c \in {} |-> {}]
NoManifest == [kind |-> "none"]
NoCap == "none"

\* An entry claims lobes and is bound to a backend, or to the compile-time one.
CompiledBackend == [kind |-> "compiled"]
Entry == [lobes : SUBSET Lobe, via : Config \cup {CompiledBackend}]

Partial(S, T) == UNION {[D -> T] : D \in SUBSET S}

Put(f, k, v) == [x \in DOMAIN f \cup {k} |-> IF x = k THEN v ELSE f[x]]
Drop(f, k) == [x \in DOMAIN f \ {k} |-> f[x]]

\* build_binding: the spec's kind has to be the backend's.
Bindable(m, bs) == m.backend \in DOMAIN bs /\ bs[m.backend].kind = m.kind

\* The capabilities of caps/ that bind; the others are skipped.
Bound(caps, bs) ==
  [c \in {x \in DOMAIN caps : Bindable(caps[x], bs)} |->
     [lobes |-> caps[c].lobes, via |-> bs[caps[c].backend]]]

\* enforce_instance_lobes: cap.lobe_ids within instance.lobe_ids
Enforced(entries, ls) ==
  [c \in DOMAIN entries |-> [entries[c] EXCEPT !.lobes = @ \cap ls]]

Compiled == [c \in Builtin |-> [lobes |-> {}, via |-> CompiledBackend]]

Idle == [at |-> "idle"]
Active(w) == req[w] # Idle
At(w, step) == req[w].at = step
Ends(w) == req' = [req EXCEPT ![w] = Idle]
Goes(w, step) == req' = [req EXCEPT ![w].at = step]

\* A request of a kind comes in: what it works on, what it has read.
Begins(w, kind, step, c, m, ls) ==
  /\ ~Active(w)
  /\ requests < MaxRequests
  /\ requests' = requests + 1
  /\ LET others == {v \in Worker : Active(v)} IN
       crossed' = IF others = {} THEN crossed
                  ELSE crossed \cup {kind} \cup {req[v].kind : v \in others}
  /\ req' = [req EXCEPT ![w] = [at |-> step, kind |-> kind, cap |-> c, manifest |-> m,
                                set |-> ls, built |-> backends, entries |-> NoEntries]]

\* A node is started on an empty directory.
Init ==
  /\ capFile = [c \in {} |-> {}]
  /\ backendFile = [b \in {} |-> {}]
  /\ saved = {}
  /\ lobes = {}
  /\ backends = [b \in {} |-> {}]
  /\ registry = Compiled
  /\ req = [w \in Worker |-> Idle]
  /\ requests = 0
  /\ failures = 0
  /\ crossed = {}

-----------------------------------------------------------------------------
(* Reloading the capabilities: snapshot of the backends, scan of caps/,    *)
(* snapshot of the lobes, swap.                                            *)

TakeBackends(w) ==
  /\ At(w, "reload")
  /\ req' = [req EXCEPT ![w].at = "scan", ![w].built = backends]
  /\ UNCHANGED <<files, cells, failures, history>>

\* mistaken form: an empty result is swapped in like any other
ScanAny(w) ==
  /\ At(w, "scan")
  /\ req' = [req EXCEPT ![w].at = "enforce",
                        ![w].entries = Bound(capFile, req[w].built)]
  /\ UNCHANGED <<files, cells, failures, history>>

\* Nothing that binds: an error if there are manifests, and nothing to do if
\* there are none; the registry stays as it is.
Scan(w) ==
  /\ At(w, "scan")
  /\ LET found == Bound(capFile, req[w].built) IN
       req' = [req EXCEPT ![w].at = IF DOMAIN found = {} THEN "count" ELSE "enforce",
                          ![w].entries = found]
  /\ UNCHANGED <<files, cells, failures, history>>

\* The directory is read again, for the number of files.
Count(w) ==
  /\ At(w, "count")
  /\ IF DOMAIN capFile # {} THEN Ends(w) ELSE Goes(w, "answer")
  /\ UNCHANGED <<files, cells, failures, history>>

\* mistaken form: the lobes of the startup configuration
EnforceNone(w) ==
  /\ At(w, "enforce")
  /\ req' = [req EXCEPT ![w].at = "store"]
  /\ UNCHANGED <<files, cells, failures, history>>

Enforce(w) ==
  /\ At(w, "enforce")
  /\ req' = [req EXCEPT ![w].at = "store", ![w].entries = Enforced(@, lobes)]
  /\ UNCHANGED <<files, cells, failures, history>>

Store(w) ==
  /\ At(w, "store")
  /\ registry' = req[w].entries
  /\ Goes(w, "answer")
  /\ UNCHANGED <<files, lobes, backends, failures, history>>

\* The answer of a route that succeeded; saving a capability also looks it up.
Answer(w) ==
  /\ At(w, "answer")
  /\ Ends(w)
  /\ UNCHANGED <<files, cells, failures, history>>

-----------------------------------------------------------------------------
(* The lobes: saved, swapped, enforced on a copy of the registry, and the  *)
(* capabilities reloaded for the claims an earlier set had stripped.       *)

PutLobes(w, ls) ==
  /\ Begins(w, "lobes", "swap_lobes", NoCap, NoManifest, ls)
  /\ saved' = ls
  /\ UNCHANGED <<capFile, backendFile, cells, failures>>

SwapLobes(w) ==
  /\ At(w, "swap_lobes")
  /\ lobes' = req[w].set
  /\ Goes(w, "copy")
  /\ UNCHANGED <<files, backends, registry, failures, history>>

CopyRegistry(w) ==
  /\ At(w, "copy")
  /\ req' = [req EXCEPT ![w].at = "restore", ![w].entries = Enforced(registry, req[w].set)]
  /\ UNCHANGED <<files, cells, failures, history>>

RestoreRegistry(w) ==
  /\ At(w, "restore")
  /\ registry' = req[w].entries
  /\ Goes(w, "reload")
  /\ UNCHANGED <<files, lobes, backends, failures, history>>

-----------------------------------------------------------------------------
(* Backends: the file is written or removed, backends/ scanned, the new    *)
(* set swapped in, and the capabilities bound to it.                       *)

SaveBackend(w, b, x) ==
  /\ Begins(w, "backend", "scan_backends", NoCap, NoManifest, {})
  /\ backendFile' = Put(backendFile, b, x)
  /\ UNCHANGED <<capFile, saved, cells, failures>>

\* The file is looked for in the configuration directory, whereas the others
\* are kept in the manifests': elsewhere than there, a 404.
DeleteBackend(w, b) ==
  /\ OneDir
  /\ b \in DOMAIN backendFile
  /\ Begins(w, "backend", "scan_backends", NoCap, NoManifest, {})
  /\ backendFile' = Drop(backendFile, b)
  /\ UNCHANGED <<capFile, saved, cells, failures>>

ScanBackends(w) ==
  /\ At(w, "scan_backends")
  /\ req' = [req EXCEPT ![w].at = "swap_backends", ![w].built = backendFile]
  /\ UNCHANGED <<files, cells, failures, history>>

\* One backend that cannot be built fails the reload.
BuildFails(w) ==
  /\ At(w, "scan_backends")
  /\ failures < MaxFailures
  /\ DOMAIN backendFile # {}
  /\ failures' = failures + 1
  /\ Ends(w)
  /\ UNCHANGED <<files, cells, history>>

\* mistaken form: live bindings are left to the next reload of capabilities
SwapOnly(w) ==
  /\ At(w, "swap_backends")
  /\ backends' = req[w].built
  /\ Goes(w, "answer")
  /\ UNCHANGED <<files, lobes, registry, failures, history>>

SwapBackends(w) ==
  /\ At(w, "swap_backends")
  /\ backends' = req[w].built
  /\ Goes(w, "reload")
  /\ UNCHANGED <<files, lobes, registry, failures, history>>

-----------------------------------------------------------------------------
(* Capabilities: a manifest is checked against the lobes and written, or   *)
(* removed, and the capabilities reloaded.                                 *)

UpsertCap(w, c, m) ==
  /\ m.lobes \subseteq lobes
  /\ Begins(w, "save", "write", c, m, {})
  /\ UNCHANGED <<files, cells, failures>>

WriteCap(w) ==
  /\ At(w, "write")
  /\ capFile' = Put(capFile, req[w].cap, req[w].manifest)
  /\ Goes(w, "reload")
  /\ UNCHANGED <<backendFile, saved, cells, failures, history>>

DeleteCap(w, c) ==
  /\ c \in DOMAIN capFile
  /\ Begins(w, "delete", "reload", c, NoManifest, {})
  /\ capFile' = Drop(capFile, c)
  /\ UNCHANGED <<backendFile, saved, cells, failures>>

-----------------------------------------------------------------------------
\* mistaken form: what caps/ declares is served before it is bound
ColdUnbound == IF DOMAIN capFile = {} /\ DOMAIN backendFile = {} THEN Compiled ELSE capFile

\* What a start serves: manifests, of either kind, retire the compile-time
\* backend.
Cold ==
  IF DOMAIN capFile = {} /\ DOMAIN backendFile = {} THEN Compiled
  ELSE Bound(capFile, backendFile)

Restart ==
  /\ requests < MaxRequests
  /\ requests' = requests + 1
  /\ lobes' = saved
  /\ backends' = backendFile
  /\ registry' = Enforced(Cold, saved)
  /\ req' = [w \in Worker |-> Idle]
  /\ failures' = 0
  /\ crossed' = {}
  /\ UNCHANGED files

Reload(w) == TakeBackends(w) \/ Scan(w) \/ Count(w) \/ Enforce(w) \/ Store(w) \/ Answer(w)
Lobes(w) ==
  \/ \E ls \in SUBSET Lobe : PutLobes(w, ls)
  \/ SwapLobes(w) \/ CopyRegistry(w) \/ RestoreRegistry(w)
Backends(w) ==
  \/ \E b \in Backend : DeleteBackend(w, b) \/ \E x \in Config : SaveBackend(w, b, x)
  \/ ScanBackends(w) \/ BuildFails(w) \/ SwapBackends(w)
Caps(w) ==
  \/ \E c \in Cap : DeleteCap(w, c) \/ \E m \in Manifest : UpsertCap(w, c, m)
  \/ WriteCap(w)

Next == Restart \/ \E w \in Worker : Reload(w) \/ Lobes(w) \/ Backends(w) \/ Caps(w)

Spec == Init /\ [][Next]_vars

-----------------------------------------------------------------------------
Step == {"reload", "scan", "count", "enforce", "store", "answer", "swap_lobes", "copy",
         "restore", "scan_backends", "swap_backends", "write"}
Kind == {"lobes", "backend", "save", "delete"}
Request == [at : Step, kind : Kind, cap : Cap \cup {NoCap}, manifest : Manifest \cup {NoManifest},
            set : SUBSET Lobe, built : Partial(Backend, Config), entries : Partial(Cap, Entry)]

TypeOK ==
  /\ capFile \in Partial(Cap, Manifest)
  /\ backendFile \in Partial(Backend, Config) /\ backends \in Partial(Backend, Config)
  /\ saved \subseteq Lobe /\ lobes \subseteq Lobe
  /\ registry \in Partial(Cap, Entry)
  /\ req \in [Worker -> Request \cup {Idle}]
  /\ requests \in 0..MaxRequests /\ failures \in 0..MaxFailures
  /\ crossed \subseteq Kind

Quiet == \A w \in Worker : ~Active(w)

\* "cap.lobe_ids within instance.lobe_ids", read from the live set (Node.lobes):
\* whatever reloads of capabilities and backends overlap, fail or are cut off,
\* no served capability claims a lobe the instance has left, except while the
\* change of the lobes is itself under way; and provided that one overlaps
\* no other request.
ClaimsWithinLobes ==
  "lobes" \notin crossed /\ (\A w \in Worker : ~At(w, "copy") /\ ~At(w, "restore"))
    => \A c \in DOMAIN registry : registry[c].lobes \subseteq lobes

\* A node that serves something is never reloaded into one that serves nothing
\* while manifests are there, whichever of them break or lose their backend as
\* reloads are under way (the guard of reload_caps_from_manifest_dir: "unpublish
\* a working node silently").  It says nothing of an empty caps/: deleting the
\* last manifest leaves its capability served, where the capability manifest's
\* document has a suppression unload it.  And a change of the lobes has to have
\* overlapped no other request: set_lobes stores a copy of the registry it took
\* earlier.
NeverUnpublished ==
  [][DOMAIN capFile # {} /\ DOMAIN registry # {} /\ DOMAIN registry' = {}
       => Restart \/ "lobes" \in crossed]_vars

\* The hot reload reaches what a restart would: once requests have come one
\* after the other, and some manifest binds, the node serves what is on disk,
\* bound to backends as they are on disk, in the lobes saved there,
\* when no --lobe or N3UR0N_LOBES overrides those at the start.
HotAsCold ==
  Quiet /\ crossed = {} /\ failures = 0 /\ DOMAIN Bound(capFile, backendFile) # {}
    => /\ lobes = saved
       /\ backends = backendFile
       /\ registry = Enforced(Cold, saved)
=============================================================================
