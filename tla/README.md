# A verification of N3UR0N in TLA+

N3UR0N is a peer-to-peer network of nodes that serve *capabilities* to one
another. A node answers signed envelopes over HTTP, keeps what it knows in
SQLite and in a directory of content-addressed files, and offers its own user
a chat in which a planner turns each message into a plan of capability
invocations, runs it, and composes a reply. The code is Rust on tokio, under
`src/crates/`: `core` (protocol types), `storage` (SQLite), `adapters` (model
servers), `node` (the logic), `server` (HTTP), `desktop` (a shell).

This directory models the parts of a node in which order, concurrency and
failure matter: TLA+ modules translated from the code, TLC runs on small
instances, and theorems that TLAPS checks for every instance. `PROJECT.json`
has the index: components, runs, mutants, the lines each definition models,
disagreements found between code and documents, and hazards.

## 1. Inventory

| Component | State it keeps | Operations | What makes it hard | What makes it correct |
|---|---|---|---|---|
| Envelope admission (`node/handler.rs`, `server/blobs.rs`, `core/verify.rs`) | tables `nonces`, `call_log`, `peers` | verify, insert nonce, prune, execute, journal, announce | two doors over one nonce table, crash between admission and execution, pruning against a clock that moves | an envelope is carried out at most once; only what was served is announced |
| Plan executor (`node/planner/plan.rs`) | indegrees, blackboard, trace, a semaphore | schedule, invoke, complete, fail fast | completions in any order, failures that feed later steps | each step once, after its dependencies, none left behind |
| Planner dispatch (`node/planner/plan_exec.rs`, `node/conversation.rs`) | `conversation_turns`, `plan_runs`, the conversation in memory | record the question, compile, run, continue, reflect, reply | writes that fail, a crash or a dropped request at any await, numbers reserved ahead | the recorded turns are in order, memory and database agree, the journal is closed |
| Conversation runtime (`node/runtime.rs`, `server/http.rs`) | per-conversation locks, a cache, a semaphore | lock, take a slot, dispatch, evict, hot swap | cached state after an error, clients that leave, replacement of the runtime itself | dispatches of a conversation do not overlap and see every turn |
| Blob store (`server/blobs.rs`, `server/files_api.rs`, `server/blob_gc.rs`, `node/blob_resolve.rs`, `storage/blobs.rs`) | table `blobs`, files by hash | PUT, GET, HEAD, DELETE, local files, task inputs and outputs, collection | index and files are two stores, expiry, five writers | a row keeps its class and owner, what is live can be fetched |
| Accounts (`server/auth.rs`, `storage/auth.rs`) | tables `users`, `sessions` | bootstrap, login, logout, renewal, passwords, roles, deletion | checks and writes in separate statements, slow password hashing | a session belongs to an account and does not survive its revocation |
| Capability registry (`node/node.rs`, `node/registry.rs`, `server/settings.rs`) | three `ArcSwap` cells, manifests on disk | reload, change of lobes, CRUD of backends and capabilities | read-modify-store on snapshots, partial reloads | what is served is what is declared, within the instance's lobes |
| Peer directory and discovery (`node/discovery.rs`, `node/handler.rs`, `storage/peers.rs`) | table `peers` of every node | bootstrap walk, cascade, refresh, announcement, pull of a new caller, deletion | partial updates of a row by several tasks, hearsay that is out of date, calls that set off calls | what is kept of a peer comes from it, a caller gets described, a walk reaches whom it should, and it all ends |
| Plan compilation (`node/planner/compiler.rs`, `plan_exec.rs`, `grammar.rs`) | the plan at hand, counters of rounds and retries | compile locally, escalate to a remote planner, validate, correct, continue | two compilers and two nested retries, models that write anything, plans of other nodes | only tools the message admits are invoked, in a bounded number of bounded plans, and every dispatch ends |
| Catalog, retrieval, mentions (`node/planner/catalog.rs`, `retriever.rs`, `node/mention.rs`) | a snapshot of local and remote capabilities, a cache of embeddings | build, narrow to the mentions, score, rank | declarations that change while embeddings are awaited, a cache other dispatches fill, ties | a tool is scored by its own text, the worst are dropped, a mention is never silently widened |
| Identity and protocol types, adapters and bindings, call journal, configuration, desktop, web interface | files, none | I/O, parsing, presentation | cryptography and formatting | outside the models (section 7) |

How they interact: `POST /messages` admits an envelope and invokes a capability
through the *registry*; the blob routes admit a ticket through the same nonce
table and work on the *blob store*. A local user's message, let in by
*accounts*, goes through the *runtime*, which serialises it with the others of
its conversation and calls the *dispatch*; the dispatch *compiles* a plan
against the *catalog* and hands it to the *executor*, whose steps invoke local
bindings or remote peers and move blobs in and out; each finished step is
recorded through a hook of the dispatch. The settings routes change the
registry and may replace the runtime.

The hazards of the code, each at the line where it bites and with the property
that watches it, are listed under `hazards` in `PROJECT.json`.

## 2. Modules

| Module | Models | Instance | Proofs |
|---|---|---|---|
| `EnvelopeAdmission` | the two doors of a node | `MCEnvelopeAdmission` | `EnvelopeAdmissionProofs` |
| `PlanLedger` | abstract: steps settle once, after their dependencies | | |
| `PlanExecutor` | the executor, implements `PlanLedger` | `MCPlanExecutor` | `PlanExecutorProofs` |
| `Dispatch` | the dispatches of one conversation with their tool turns and plan journal | `MCDispatch` | `PlanExecutorProofs` |
| `Catalog` | the catalogue: mentions, ranking, what a plan may name (operators only) | | |
| `ScopedWork` | abstract: for a message, boundedly many plans of tools it admits | | |
| `Planning` | how a dispatch comes to a plan, implements `ScopedWork` | `MCPlanning` | `PlanningProofs` |
| `Thread` | abstract: a conversation is a sequence of exchanges | | |
| `ConversationRuntime` | many requests, conversations and runtimes, implements `Thread` | `MCConversationRuntime` | `ConversationRuntimeProofs` |
| `BlobStore` | the index and the files | `MCBlobStore` | `BlobStoreProofs` |
| `Accounts` | users, sessions and the requests on them | `MCAccounts` | `AccountsProofs` |
| `CapabilityRegistry` | registry, backends and lobes against the files | `MCCapabilityRegistry` | `CapabilityRegistryProofs` |
| `PeerDirectory` | the directories of a network of nodes, their walks, cascades, refreshes and announcements | `MCPeerDirectory` | `PeerDirectoryProofs` |

An action is what the code does between two points at which another task can
run or the process can die: two awaits, two SQL statements, two loads or stores
of a shared cell. So one handler is several actions that hand a small record or
program counter on. Definitions named "mutant" or "mistaken form" are plausible
bugs; no specification uses them. Each stands before the definition it would
replace, and `PROJECT.json` says which property it breaks.

**EnvelopeAdmission.** A worker is a request at `/messages` or a blob route.
`Verify` is `verify_envelope` with the first reading of the clock, `Stamp` the
second reading, `InsertNonce` the `INSERT OR IGNORE`, `Prune` the best-effort
`prune_older_than`, `Execute`/`ExecuteTicket` the operation, `Record` and
`RecordFailure` the call journal and the early return on errors, `Announce` the
upsert of the sender's endpoint. Envelopes are delivered any number of times at
either door; signatures are taken as valid, a forged one stops at `Verify`. Time
is in half seconds because `verify_envelope` truncates a difference where the
nonce row truncates a time.

**PlanExecutor.** The plan (`deps`, and `fieldRefs`, the dependencies used as
`${id.field}`) is chosen at the start among all acyclic ones. `Drain` is the
body of the loop on `FuturesUnordered`: it writes the blackboard, lowers the
indegrees and schedules the freed steps, in one step because one task polls the
futures. `Start` takes a permit inside the future. A step whose arguments keep
an unresolved reference, or do not conform once resolved, fails without being
invoked (`FailFast`). Arguments are abstracted to which steps they refer to
(`References`, the code's `collect_refs`) and whether a field of a step is found
on the blackboard (`Resolves`, its `lookup_path`). `Untimed` are the steps bound
to an MCP server, whose calls may never return.

**Dispatch.** One conversation and its dispatches one after the other (the lock
is `ConversationRuntime`'s). `turns` is the table, `state` the
`ConversationState` being worked on, `cache` the runtime's copy. `RecordUser`,
`Execute`, `StepDone`, `Reconcile`, `RecordReply` and `ReturnOk` are the stages
of `dispatch_inner` (`DispatchInit`, `DispatchNext` and the like are named so
that proofs can extend `PlanExecutor` and `Dispatch` at once); every write also
has its failure. A waiting request may be abandoned wherever it awaits, a
streamed one runs in a task of its own. What the compiler returns is any of an
error, an empty plan, an invalid one and a valid one of any size; `Recompile` is
the one corrective retry of `resolve_plan`, whose failure, unlike that of the
first compile, is not an error of the dispatch. `StopRounds` stands for the
breaks of the loop over rounds. `cut` remembers which dispatches could not close
their journal, and why.

**Catalog and Planning.** `Catalog` holds the pure part: `Build` is
`Catalog::build`, `FromText`, `Resolved`, `Unresolved` and `Scoped` are the
mentions of `mention.rs` and what `dispatch_inner` does with them, `Filtered` is
`filter_with_scores`, a group at a time, `Sampled` what a GBNF grammar, a JSON
schema or neither lets a model name. A message is the set of its mentions, a
tool its peer, capability and lobes, a score any number of a small set.
`Planning` is one dispatch at a time, from `Begin` (the catalogue is taken and
narrowed, or the message refused) over `LookUp`, `Embedded`, `EmbedFails` or
`ScoreLexically` to `Rank`, then the cascade: `PrimaryAnswers` with anything the
server's decoding allows, `FallbackAnswers` with the plan of another node,
`Reject` the corrective recompile of `resolve_plan`, `Settle` the ways to end
without a plan, `Undertake` a plan journalled and begun, `Execute` its steps
settled (the matter of `PlanExecutor` and `Dispatch`), after which another round
may follow. `Untimed` are the tools of this node that an MCP server serves.
Around it `Redeclare`, `Reword`, `Toggle` and `Wander` change what is declared
and who is known, `EmbeddedElsewhere` is another dispatch filling the shared
cache, `Abandon` and `Restart` end the dispatch anywhere. A plan is the set of
its calls, sound or not; the checks of ids, schemas, references and cycles are
the one bit `sound`.

**ConversationRuntime.** `Arrive` picks the runtime of the moment, `Lock` and
`TakeSlot` are the mutex and the semaphore, `Begin`, `Answer` and `Fail` the
direct planner with cache and eviction around it, `Abandon` the dropped future,
`Evict` the LRU or a change of title, `Swap` the replacement of the runtime.
Locks, slots and cache belong to a runtime, turns to the database.

**BlobStore.** A row has its class (A sent, B received, C staged by a peer, D
local and unsent), expiry, uploader and owner. A worker takes one of the six
routes or task steps, statement by statement; the collector is a process of its
own. Hash, size and ticket checks have passed: a body that fails them changes
nothing.

**Accounts.** A request carries what the middleware found (id, role, token) to
its handler, which may act on it much later. A password is its generation, so a
session knows with which password it was opened. A statement may
fail: where the session is extended or the administrators are counted this is
passed over and the request goes on (`StatementFails`, `DeleteCheck`), elsewhere
it ends. `spared` is history: the sessions that no change of password has to
end, of a login that the change overtook, of an account whose revocation failed,
and the one in which users change their own.

**CapabilityRegistry.** The cells `lobes`, `backends` and `registry` and the
files behind them. `TakeBackends`, `Scan`, `Count`, `Enforce`, `Store` are
`reload_caps_from_manifest_dir`, `SwapLobes`, `CopyRegistry`, `RestoreRegistry`
are `set_lobes`. A directory is read, and a file written, in one step.
`Restart` rebuilds everything from disk. `crossed` remembers which kinds of
request have overlapped another.

**PeerDirectory.** All nodes run the code, each with its rows. A task is a
future of a node and makes one call at a time: `Answer` and `Announce` are the
callee's handler around its upsert, `Store` and `SetAlias` the two writes of
`refresh_peer`, `Listen`, `Visit`, `Ask` and `End` the loops of
`bootstrap_from_seeds` and `discover_capability`, which differ in what they do
with a hint. A caller gives up before the handler or after it; an answer of
`get_known_peers` is one page. A node states its own id in its descriptor:
`core/src/protocol.rs:38` demands that it equal the sender's, the client does
not compare them, and the model assumes it. `born` and `blurred` are history:
who was rightly known at the start, and of whom two refreshes crossed.

## 3. Runs

All with TLC, breadth first. Deadlock checking is off where the system really
rests: when every request is done, or the bounds are reached.

| Run | Checks | Bounds, and why they are enough |
|---|---|---|
| `Envelopes` | `TypeOK` `AtMostOnce` | Two workers; four envelopes: two senders with one nonce, a ticket for both doors, one dated so that it is stale or fresh on either side of a pruning, one for another node. Skew 0, lifetime 2 s, six ticks: time runs past the life of a nonce, and the clock is set back once. |
| `PlanExecutor` | `TypeOK` `ScheduledWhenReady` `NoUnresolvedInvocation` `NothingLeftBehind` `ImplementsLedger` `EndsOrHangs` | Every acyclic graph on four steps with every choice of field references (diamonds, chains, forests), two permits for up to four ready steps; two of the steps may never return, so that none, one or both permits are held for good. |
| `Dispatch` | `DispatchTypeOK` `LedgerOrdered` `ViewsAgree` `JournalTells` | Two dispatches, so that what one leaves the other finds; plans of two steps, two rounds, so that steps finish out of order and a second round has an offset; each write failing or not. |
| `Planning` | `TypeOK` `VectorsCurrent` `ImplementsScopedWork` `DropsTheWorst` `Answered` | Two local and four remote tools of two peers, a planner among them; the ranking keeps one local and two remote, so that it cuts. Five messages: no mention, a peer with a capability, a prefix two peers share, a lobe with this node, a mention of nothing. Three setups that cover hybrid and lexical scoring, a fallback or none, and the three kinds of decoding. Plans of one and two steps, one that feeds a step to another, one crossing a peer with a capability it has not, one malformed, one too big; a local tool whose call may never return; two rounds, one correction, one change of declarations or directory. |
| `Runtime` | `TypeOK` `Serialised` `UpToDate` `ImplementsThread` `Served` | Three requests on up to three conversations with two slots (contention for lock and slot at once), two clients that may leave, one replacement. |
| `BlobStore` | `TypeOK` `ClassOnlyAdvances` `NobodyTakesOver` `ExpiredLeaves` | One content, two handlers and the collector, two peers and a user, three lifetimes, one fault. Rows of different contents meet only in the quota. |
| `Accounts` | `TypeOK` `SessionsOwned` `FormerPasswordsOut` `RevokedForGood` | Two requests, two accounts and two sessions, one change of password, expiry, one failing statement, with and without the development bypass. |
| `Capabilities` | `TypeOK` `ClaimsWithinLobes` `HotAsCold` `NeverUnpublished` | Two requests at once, four in all: a join, a backend, a capability and a departure are four. Two capabilities, one compiled in; a backend with three configurations of two kinds. |
| `PeerDirectory` | `TypeOK` `FirstHand` `AliasMirrors` `Described` `WalkComplete` `Settles` | Three nodes: one that may be seeded with itself, one, and one that announces nothing and that others may believe where the second is; a dead endpoint. One walk, cascade or refresh asked for and everything it sets off, which four tasks hold (with fewer an announcement would wait and `Settles` fail); one event (a lost call, a failed write, a deletion, a new alias). Depth 2, so that a walk has a middle; a cap of 3 peers, reached only when all are counted. |
| `DispatchStaleCache`, `BlobFetchable`, `AccountsLastAdmin` | one property each | expected violations, section 4 |

What the properties say, beyond the obvious:

- `AtMostOnce` depends on the prune: a nonce may only go when no copy of its
  envelope can be fresh again. The mutant prunes without the lifetime.
- `ScheduledWhenReady` is an equivalence: it forbids a step too early and a
  step forgotten. `NothingLeftBehind` adds that the loop's end means the plan's
  end although the loop only looks at what is in flight.
- `LedgerOrdered` says that the table never shows a turn before one it depends
  on, whatever failed or crashed; `ViewsAgree` that memory and table agree turn
  by turn, so that no insert meets a taken number, while no client has left a
  dispatch of the conversation.
- `ImplementsScopedWork`: whatever the models write, on a second try, in a second
  round or on another node, a tool that is invoked is one the message admits.
  Admission is stated on the mentions as written; the catalogue that validation
  consults was narrowed by what they resolved to.
- `VectorsCurrent`: the cache is looked up before the embeddings are awaited and
  read after, and others fill it in between. It holds because the key has the
  version; a tool reworded under one version (`reworded`) is exempt, and is
  scored by its former text (section 4).
- `DropsTheWorst`: with ties, or when every score is zero, exactly the bound is
  kept of a group, and nothing kept scores less than what is dropped.
- `EndsOrHangs`: a plan ends, or calls to MCP servers never return and then all
  that is left unsettled waits for one of them: by its dependencies, or, when
  such calls hold every permit, in the queue. Permits, failures and the order of
  completions hold up nothing. The mutant does not give a permit back.
- `Answered`: corrections are counted per round and rounds per dispatch; the
  mutant that does not count corrections never ends. A dispatch may be held for
  good only where it executes a plan with a call to a local MCP server.
- `Served` is of the direct planner. The other one runs its dispatches under the
  same lock and may hang in a step as above; then the requests of that
  conversation wait until the client leaves, or the
  process ends when the reply is streamed.
- `ImplementsThread`: lock, cache, evictions and hot swap together amount to
  exchanges, each reply right after its question.
- `FormerPasswordsOut` is about overlapping requests: while any session of a
  former password is there, a request that will revoke it is under way, except
  for the sessions in `spared`. The one of a login that the change overtook is
  really left behind (section 4).
- `RevokedForGood`: a request that was let in before a logout renews its
  session after it, and must not bring it back.
- `HotAsCold`: a node that was reconfigured live, by requests that follow one
  another, serves what it would serve after a restart, while some manifest binds
  and when no `--lobe` or `N3UR0N_LOBES` overrides what is saved (`cli.rs:208`).
- `NeverUnpublished`: manifests that break or lose their backend do not empty a
  node that serves something. It says nothing of a node without manifests, where
  the code keeps the last capability served against the document (section 4).
- `JournalTells`: a plan is `done` only with its reply recorded, and `running`
  only while its dispatch is, or as the orphan of one that was cut short.
- `FirstHand`: hearsay decides whom to ask, never what is kept, although an
  endpoint may answer under another id than the one it was listed with.
- `Described`: a caller that is new is pulled, and the condition is read before
  its row is written; several calls of one caller cannot each leave it to the
  other.
- `WalkComplete`: a walk marks an id as visited before anyone has answered under
  it. It is complete nevertheless for peers nobody is wrong about; a peer once
  listed with an old endpoint is not looked for elsewhere. A walk does
  not go through its own node when it is told of it, so the chains of `Within`
  pass through that node only as a seed.
- `Settles`: a pull is a call, which announces its caller, whom the callee may
  pull in turn.

Fairness. `PlanExecutor`: weak fairness of every future's start and of the
return, because tokio's semaphore is first come first served, and of the
completion of every step that is not `Untimed`: calls to peers, HTTP bindings
and model servers end in an answer or a timeout. A call to an MCP server does
not have to (`bindings/mcp_client.rs` reads the child's output in a loop without
a timeout, under the session's lock, and `plan.rs` has none around
`binding.invoke`), so nothing is assumed of the others. `Runtime`: weak fairness
of each request's next step, since locks and permits are first come first served
and a direct dispatch makes one call to a model, which has a timeout; nothing is
assumed of clients, evictions or swaps. `BlobStore`: weak fairness of the
collector only, which `tokio::time::interval` wakes again and again. `Planning`:
weak fairness of the dispatch's own steps, since a call to a model, an
embeddings endpoint or another node ends, if by its timeout, and of a plan that
is executed only if it calls no tool of a local MCP server; nothing is assumed
of what changes around it. `PeerDirectory`: weak fairness of each task, since
every call has a timeout (`client.rs`); nothing is assumed of what is asked for
or goes wrong. The other runs check safety and assume none.

## 4. Where code and documents disagree

Each is a run that TLC must find violated; `findings` quotes the sentence.

1. `DispatchStaleCache`: a dispatch dropped by its client leaves the cache
   behind the database, and the next dispatch of the conversation takes a
   number that is taken. Eviction covers errors, not drops.
2. `BlobFetchable`: the collector deletes rows, then files; an upload of the
   same bytes in between leaves a live row without its file.
3. `AccountsLastAdmin`: one of two administrators deletes the other, which counts
   two; before the deletion a second request takes the role from the first. The
   deletion goes on and leaves no administrator, against "Refuse deleting the
   last admin." (`auth.rs:523`). Two overlapping deletions do the same.

Met while modelling, and not runs of their own: saving the planner's
configuration replaces the locks along with the runtime, so that two dispatches
of a conversation may overlap, one on each runtime (`Serialised` is per
runtime); a comment gives 12 steps as the most of a message (`plan_exec.rs:72`),
but the budget is compared before a round only, and a second round of eight may
follow a first of eight; the catalogue is said to let local capabilities always
pass (`catalog.rs:141`, `plan_exec.rs:34`), but `LOCAL_TOP_K` cuts them too; a
capability reworded without a new version keeps the vector of its former text;
deleting the last manifest is answered with success and the capability served
until a restart (`node.rs:262`; `n3ur0n-capability-manifest-v0.md:414`:
"Suppression → unload. Cap retirée du registre."); `discover_capability` counts
refreshes, not "new entries" (`discovery.rs:266`); `BOOTSTRAP_MAX_PEERS` does
not bound the seeds; two refreshes of one peer that cross leave it the alias of
one and the descriptor of the other; a reference written `{id.field}`, without
the dollar sign, makes a dependency but is not recognised as unresolved when its
step failed; `default_confidence` never validates, although its comment gives
0.0 to a plan that "fails structural validation", so an invalid plan of the
local compiler is not escalated; a refused replay is not journalled, although
`handler.rs:54-57` says that refusals are; two uploads of one peer pass the
quota together; a peer that uploads bytes whose row has expired is not the row's
uploader; a local upload shortens the life of an output; a login that verified
the former password may issue its session after the change revoked the others;
`change_password` revokes the current session too, although its comment
(`auth.rs:431`) says "Revoke other sessions; keep the current one alive", and so
`FormerPasswordsOut` asks neither of that session; a pull that failed is not
made again, although `handler.rs:134` says "will retry on next call", since the
sender is known by then (`Described` is stated while nothing failed); with a
separate `--manifest-dir`, or the default one, `delete_backend` looks for the
file in the wrong directory; a change of lobes that overlaps a reload can lose
the reload, or be lost to it.

## 5. What is proved

`tlapm` checks every proof to its leaves; the constants are arbitrary within
the named assumptions of the modules.

**EnvelopeAdmissionProofs.** `TypeCorrect`, `AdmittedOnce` (`AtMostOnce`), and,
proved without a run of their own, `ReplaySound` (what is refused as a replay
was admitted before) and `DirectorySound` (only who was served is announced).
Assumed: a sender draws a nonce once (`MessageAssumption`) and the lifetime of a
nonce exceeds twice the skew plus what the clock may be set back and a request
may be delayed (`WindowAssumption`; 3600 s against twice 300 s). `AtMostOnce` is
not inductive: it says nothing of the rows. The invariant adds `ClockInv` (the
clock is not far below its highest reading), `HeldInv` (what a request remembers
of the clock is close to its envelope's time), `NonceInv` (a row is no older
than its envelope, and an admitted envelope without a row can never be admitted
again) and `OnceInv` (one request at most stands between an envelope's
admission and its execution).

**PlanExecutorProofs.** `TypeCorrect`, `Scheduling` (`ScheduledWhenReady`),
`Coverage` (`NothingLeftBehind`), `Invocations` (`NoUnresolvedInvocation`),
`Refinement` (`ImplementsLedger`), for finite plans and any number of permits.
The invariant equates each counter with the number of unsettled dependencies
(`IndegInv`) and a step's stage with its counter and outcome (`StageInv`).
Coverage follows by taking the set of steps that never settled: acyclicity gives
one that depends on none of the others, which then cannot be waiting.
Invocations need `RefsInv`: what is queued, running or was started refers only
to results, and a result never changes. The refinement is by the same variables:
a completion is a `Settle`, everything else a stutter.

Its second part is about `Dispatch`: `DispatchTypeCorrect`, `TurnsInOrder`
(`LedgerOrdered`), `Agreement` (`ViewsAgree`), `JournalTrue` (`JournalTells`), for
any number of dispatches, rounds and steps; assumed is only that the bounds are
numbers, and plans and rounds at least one. None of the four is inductive. To
know that an insert leaves the turns in order one has to know where every
recorded turn of the dispatch under way is (`Placed`): other dispatches' below
its user turn, the tool turns of rounds that were mirrored up to `End`, those of
the running round at the numbers reserved for the steps that are done, and
nothing beyond. `Memory` says that the state in memory ends exactly there.
`Cached` says what is left between dispatches: either the cache has every
recorded turn, or a client has left and the number it would use next is taken,
so that the stale cache makes one dispatch fail (the finding of
`DispatchStaleCache`) but never puts a turn out of order. `StepsInv` bounds the
steps by the rounds, `Closed` says which rows of the dispatch under way may
still be open. Order then follows from arithmetic on the reserved numbers:
`Reserved` keeps those of two steps apart, `PairPlace` puts a step's pair among
what is recorded, and the reply comes after the last.
Proved without a run of its own: `MadeOfExchanges`, what a reader of the
conversation relies on. No turn is recorded twice, and each comes after its
question with no turn of another dispatch between them (`Exchanges`); it follows
from the order and from every turn's having its question (`Questioned`), which is
where `RecordUser` precedes all that a dispatch records.

**PlanningProofs.** `TypeCorrect`, `Refinement` (`ImplementsScopedWork`),
`Current` (`VectorsCurrent`), `WorstDropped` (`DropsTheWorst`), for any tools,
messages, models, setups and limits; assumed are the shapes of the constants and
that names, places in the order and tokens are what they are (two tools of one
name are one tool, `Order` is injective). For the refinement the invariant says
of every tool of the catalogue that the message admits it, which `Begin`
establishes because an unresolved mention is refused, and that a round is left
while another plan may come. `VectorsCurrent` needs to know what a key of the
cache stands for: the text its version had, unless it was reworded. For
`WorstDropped`, the tools of a group are numbered by how many outrank each; the
numbering is injective, hence onto, and exactly the first k are kept.

**ConversationRuntimeProofs.** `TypeCorrect` (no state in memory is ahead of the
table), `MutualExclusion` (`Serialised`), `Freshness`
(`UpToDate`), `Refinement` (`ImplementsThread`), for any requests,
conversations, clients that leave, slots and reconfigurations. The invariant:
the lock has one holder per runtime (`ExclusiveInv`); while nothing disturbs
them, a conversation nobody is being answered in is cached as it is recorded
(`FreshInv`); a request that has not begun has no turn (`UnaskedInv`), one being
answered knows where its question is (`AskedInv`). The refinement maps `asking`
to the dispatches between question and reply; every step is a step or a stutter
of `Thread`.

**AccountsProofs.** `TypeCorrect`, `Owned` (`SessionsOwned`), `Revoked`
(`RevokedForGood`), `Changed` (`FormerPasswordsOut`), for any number of requests
at once, accounts and sessions; assumed is only that the bounds are numbers. The
invariant adds where a request may point (`Aimed`): one that is to issue a
session holds an id that an account once had, whether or not it still exists,
and the foreign key does the rest. Deletion keeps `SessionsOwned` because
account and sessions go in one step. That a deleted session stays away needs no
more than the types: everything but a login writes rows that exist, and a login
takes a token nobody had. `FormerPasswordsOut` is inductive beside the
invariant: a step that changes no password keeps what is due (`StaysDue`),
`SetPassword` makes only sessions of its own account due and is then about to
revoke them, `Revoke` leaves none of them, and a login either issues a session
of the stored password or was overtaken, which puts the session in `spared`.

**PeerDirectoryProofs.** `TypeCorrect`, `FirstHandAlways` (`FirstHand`),
`AliasFollows` (`AliasMirrors`), `DescribedAtRest` (`Described`), `WalksReach`
(`WalkComplete`), for networks of any finite size, any tasks, seeds and limits.
Assumed: no two nodes listen at one address at once (`HomeAssumption`), what is
known at the start are places peers had (`NetworkAssumption`), no node is called
as the marks for a missing name (`NameAssumption`), nodes and seed lists are
finite (`FiniteAssumption`). The invariant follows a descriptor to the row it
ends in: every reply a call carries names the node that listens where the call
was sent, and one that is to be filed is not the caller's own (`CallsInv`); every
row is genuine (`RowsInv`), which an upsert preserves column by column. For the
alias `MirrorInv` adds that between the two writes of a refresh, which is then
the only one of that row, the descriptor kept is the refresh's own. For
`Described` the invariant names, for each row without a descriptor, the task that
is on its way to ask for it (`Pulled`), and says that a handler that found its
caller known still knows it (`Known`). For the types, that a walk among its seeds
has counted, is asking or has yet to visit no more of them than there are, and
beyond them asks only while there is room (`WalkCounted`).

For `WalkComplete` the invariant (`WalkedInv`) says, while nothing was lost, of a
walk with room: whoever is marked as visited and rightly known is in the
directory or about to be called (`Filed`); whoever is marked is about to be
called, waits at this level or the next to be asked, or has been heard out, so
that all it rightly knew is marked too (`Followed`); and at depth d + 1 everyone
within d steps is marked and waits at this level or was heard out (`Reached`).
Rows of who was rightly known stay and stay right whoever writes them
(`RightInv`), so an answer tells of all its sender knew at the start (`Told`).
A level closes when the frontier is empty: then whoever is one step further is
marked (`LevelVisited`), which carries `Reached` to the next. A walk that ends
early, with nobody left to ask, has marked a set that contains the seeds and is
closed under what was known; on a chain that leaves it, the first node outside
contradicts that (`WithinClosed`, by the least number principle, which `<` being
well-founded on the naturals gives without induction over an operator).

**BlobStoreProofs.** `TypeCorrect`, `ClassAdvances` (`ClassOnlyAdvances`),
`HandsKept` (`NobodyTakesOver`), for any contents, peers, users, handlers and
retentions. The action properties follow from the types and from whom a handler
works for (`JobInv`: the steps of the wire for a peer, those of a local request
for a user), since a row's uploader and owner are told apart by it.

**CapabilityRegistryProofs.** `TypeCorrect`, `Claims` (`ClaimsWithinLobes`),
`StaysPublished` (`NeverUnpublished`), `HotIsCold` (`HotAsCold`), for any
capabilities, backends, lobes, manifests and requests. What a request carries is
what it came with (`Writing`), and requests that run together are recorded in
`crossed` (`Alone`); `ServingInv` says of a reload about to store that it serves
something; `FollowingInv` says, for each stage of the one request under way, how
far the three cells have followed the files, and `HotAsCold` is its last stage.

## 6. What is only model-checked

Liveness under fairness (`EndsOrHangs`, `Served`, `ExpiredLeaves`, `Answered`,
`Settles`) and `ENABLED` are out of the prover's reach and stay with TLC; every
invariant and every action property of a passing run is also proved. Induction
over data is out of reach too (the library's induction theorems take an operator
as parameter), and so is any `RECURSIVE` operator; the modules use none, and
where a proof goes along a chain (`WalkComplete`) it takes the first place where
the claim would fail.

## 7. What is not modelled

Cryptography and canonical JSON (a signature is valid or not). The wording of
prompts and the order of tools in them, streaming events and titles. BM25 and
cosine similarity: a score is any number. The parsing of mentions, and what
depends on the twelve characters of a short id standing for two peers. Two equal
calls in one plan, which the set of its calls does not tell from one. The
execution of a plan is one step of `Planning`, which composes with
`PlanExecutor` and `Dispatch` through what it hands on, not as one state
machine. Parsing of manifests and templates. The wire formats of model servers,
MCP and HTTP backends: to the models a call succeeds or fails, and one of an MCP
server may also never return. SQLite itself: a statement is atomic and durable,
a transaction is one step. The command line, the desktop shell and the web
interface. `N3UR0N_CAPS`, which narrows what is published at start-up but not at
a reload. A file is written in one step, so a reader never meets half of a
manifest.

## 8. Plan

Done, in the order of how much of the node rests on them: admission, executor,
dispatch, runtime, blob store, accounts, registry, peer directory, catalogue and
planning; and the proofs of all of them.

What would come next:

1. Composition of `Dispatch` with `ConversationRuntime`: a dispatch with tool
   turns implements the abstract exchange of `Thread`.
2. Two directories of different versions, and `get_known_peers` by pages.

## 9. Running it

    tlc -workers 2 -config Envelopes.cfg MCEnvelopeAdmission
    tlapm EnvelopeAdmissionProofs.tla

Each run of section 3 names its configuration; the instance it belongs to is
the `MC` module in section 2. The longest takes about two minutes.
