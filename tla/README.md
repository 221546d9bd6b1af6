# html-inbox: managed sync, modelled and proved

This directory holds TLA+ specifications of html-inbox, the TLC configurations
that check them on small instances, and proofs that hold for every instance.
Paths below are relative to `src/packages/cli/src/` unless they start with
`docs/` (the repository's `src/docs/`).

## 1. The system

html-inbox keeps HTML documents in *inboxes*, each a state directory (a *home*)
on somebody's machine. A command line publishes, lists and deletes; a viewer
serves the documents over HTTP; a remote backend may deploy them as a static
site. *Managed sync* copies documents between homes: every home keeps a ledger,
a worker process exchanges it with peers over configured *routes*, and the owner
of a document signs each of its states. Managed sync carries the system's own
protocol and has the deepest models; around it stand the processes of a home, each with its locks,
records and procedures.

| component | state | operations | interacts with |
|---|---|---|---|
| Managed ledger (`sync-store`, `sync-ledger`, `sync-ledger-policy`, `sync-model`) | `sync/ledger.json`: records, routes, outbox, receipts, checkpoints, the owner's version counter; body files | publish, delete, suppress, configure, revoke, apply, completeInventory, completeReconciliation, activateOutbound, observeOutboundState, acknowledge, reconcileHoldings, updateAttempt, retry, audit, quarantineRestore, fork | everything below, under the store lock |
| Reconciliation (`sync-reconciliation`) | a pass: session, cut, current entry | push and pull passes over routes, failure recording | peers over HTTPS, its own store |
| Ingestion server (`sync-http-server`, `sync-wire`, `sync-client`) | sessions, transfers, counters (in memory) | identity, manifest, holdings, offer, PUT and GET body | peers' passes, its own store |
| Durable files and store lock (`sync-files`) | lock and guard files, `uncertain` | replaceLedger, withStoreLock, acquireSyncOwnership, reclaim | all processes of one home |
| Ledger reader (`sync-ledger-reader`) | none | read without the lock | writers of the ledger |
| Enrollment and identity (`sync-enrollment`, part of `sync-store`) | `migration.phase`, `instance-id`, keys | enrol, recover, replace identity | legacy documents, the ledger |
| Staging (`sync-staging`) | stages and leases | reserve, release, cleanDead | uploads, dead processes |
| Worker (`sync-worker`, `-client`, `-records`, `-lifecycle`, `-supervisor`) | tickets, current attempt, ownership, control record | kick, drain, tick, quiesce, close, control requests | the store, its clients |
| Maintenance, publication (`sync-maintenance`, `sync-publication`) | none of their own | stop the worker, change the store, restart | worker, store |
| Legacy deletion (`document-deletion*`) | directory handles of a child process | checked removal of a document | the viewer, the CLI |
| Remote (`remote-*`, `cloudflare-*`, `backend`) | remote records, remote lock | deploy, verify, recover | the provider |
| Viewer (`viewer-*`) | start lock, process record, service record | start, stop, serve | CLI, service manager |
| Tailscale exposure (`viewer-tailscale`, `tailscale-*`) | exposure record | enable, disable, undo | the daemon |
| Catalog and selection (`inbox-*`, `preferences`) | catalog, preferences | create, select | CLI |
| Documents (`documents`, `publish-input`, `html-validation`, `static-export`) | document files | publish, export | CLI, viewer |

**How they interact.** Every store operation that changes the ledger is one
`mutate` call: under the home's store lock it reads the ledger, changes it,
cross-checks it (`parseLedger`) and replaces the file. The other processes of a home
meet in its lock files and records (start locks, worker and viewer records, catalog), in the document directory that an
enrollment replaces, and in the two journals of what they changed elsewhere (Tailscale route, remote site). Between homes there are only requests and responses; a pass at
the source drives push (the receiver's server applies), a pass at the
destination drives pull (the source's server answers).

**What is hard.** Each pass takes many lock acquisitions with awaits between
them, so everything it knows may be old when it is used; routes are
reconfigured, revoked and reconnected while messages of older revisions are under
way; processes crash between the two commits of one acknowledgement; bodies
disappear; receivers hide and show copies; owners are restored from backups and
forked; a relay may forward deletions only while it trusts that its own history
is complete. Around it, every procedure of a home takes several steps on files, each of which may be its last;
what it read before an await may be somebody else's afterwards; what it removes by name may have been replaced; and it tells its user
an outcome that must be true although answers get lost and helpers are killed.

**What makes a component correct.**
Ledger: it always parses, tombstones dominate, no version is signed twice, every
state that may be sent is owed. Reconciliation: confirmed means held, activation
means complete history, checkpoints mean held, deletions and missing bodies get
through. Lock: one holder, no lost reclamation, a crash never locks out.
Durable files: after a crash, one of the two ledgers. Enrollment: every document
once, from every crash point. Staging: no stage without an owner that can be read.
Worker: one worker per home, no lost wake, nothing runs after quiesce. Deletion:
only the document that was checked is removed. Remote: what was recorded is what is
deployed. Viewer: one viewer per home. Catalog: one name, one home.

## 2. The modules

| module | what it is |
|---|---|
| `SyncLedger` | the ledger record and, as pure operators, what each `mutate` call commits; the cross-checks of `parseLedger` |
| `Replication` | homes with their ledgers, the messages of push and pull passes, users, operators and faults: the state machine |
| `OriginHistory` | the abstract promise: owners sign, others adopt, nothing goes back |
| `ReplicationProperties` | the properties, and the refinement mapping to `OriginHistory` |
| `ReplicationLive` | fairness and the liveness properties |
| `StoreLock` | the store lock: queue, link, release, reclamation, crashes |
| `DurableStore` | the files below `sync/`: ledger, bodies, stages and leases, what a restart of the host leaves of them |
| `RecordReader` | one read, without a lock, of a record that others replace meanwhile |
| `SyncWorker` | one worker: its drain, its control operations, its tick, its shutdown |
| `WorkerLifecycle` | who may start, own, stop and maintain a home's worker |
| `ViewerLifecycle` | who may serve a home's viewer, and the Tailscale route that leads to it |
| `StartLock` | `viewer-start.lock`, file operation by file operation |
| `IngestionSessions` | sessions and transfers of the ingestion server, between the awaits of its handlers |
| `Enrollment` | a directory of documents becomes a ledger, while others publish and delete |
| `HomeIdentity` | quarantine, fork, copies of a home, and which home signs as which inbox |
| `InboxCatalog` | inboxes by name: registration, creation, identities, selection, default |
| `RemoteMutations` | init, publish, revoke and reconcile of the production site |
| `Publication` | one foreground publication and its exit code |
| `BootService` | installation and removal of the viewer's boot service, on systemd and launchd |
| `DocumentRemoval` | a deletion from the page through the helper process to the answer |
| `MCPair`, `MCPairLive`, `MCRelay` | topologies of homes for TLC |
| `MCProgress` | the store lock and the worker under the fairness of the event loop; the variable `part` names the one that is followed |
| `MCSharedFiles` | `StoreLock`, `RecordReader`, `InboxCatalog` and `StartLock` side by side; the variable `share` names the one that is followed |
| `MCHomeProcesses` | the other components of a home side by side; the variable `part` names the one that is followed |
| `SyncLedgerProofs` | lemmas of each ledger operator: its type, that it keeps tombstones, that it keeps a ledger sound |
| `SyncLedgerDelivery` | lemmas of each ledger operator: what it makes a home owe, what it leaves of the answers given to others |
| `ReplicationProofs` | types, tombstones, parsing, obligations and reconnection of every home |
| `ReplicationHistory` | what homes know of each other: signed states, the refinement of OriginHistory, deliveries |
| `StoreLockProofs` | the inductive invariant of the store lock; one holder, one call past the queue, no theft; that of the files below it: nothing promised is lost, no stage without an owner; a record read without the lock |
| `ProcessProofs` | what processes of a home share by files: the start lock, the worker's drain, the viewer and its route, the catalog of inboxes, the boot service |
| `RemoteMutationsProofs` | the inductive invariant of the mutation lock; one command changes the site; its records tell what the site serves |
| `HomeProofs` | the worker's lifecycle, the identities of homes and their forks, enrollment, deletion from the page, the ingestion sessions, publication from end to end |

`MCSharedFiles` and `MCHomeProcesses` are sums, not products: an initial state chooses a component, and the others stand still in one
of their initial states, since they share no variable. What one component relies on another for is said in their comments and is a
property of that other: `DurableStore`, `HomeIdentity` and `WorkerLifecycle` take their locks in one step because of OneHolder, `ViewerLifecycle`
because of OneStarter, and a commit of `Replication` is one step because of OneHolder and StoreSurvives.

### Replication: state

`ledger[h]` is `sync/ledger.json` of home `h`. Its fields are those of the code:
`rec` (`records`), `route` (`routes`: revision and state), `outbox`, `receipts`,
`history` (`historyCheckpoints`), `full` (`checkpoints`), `next`
(`nextOriginVersion`), `inbox`, `incarnation` (`storageIncarnation`),
`quarantined` (`worker.ownerQuarantined`). `wire` holds the requests and responses
in flight.

### Replication: actions and the code they stand for

| action | code |
|---|---|
| PublishDocument, DeleteDocument, SetSuppressed | `publishWithIntent`, `deleteDocument`, `setSuppressed` |
| ConfigureRoute, RevokeRoute, RetryRoute | `configureRoute`, `revokeRoute`, `retry` |
| FailAttempt | `recordFailure` and `updateAttempt` |
| AuditConflict, QuarantineRestored, ForkIdentity | `audit` finding a conflict, `quarantineRestore`, `fork` |
| OfferTerminal, OfferState | the two offer loops of `push` |
| SendManifest, FinishInventory, ApplyPageTerminal | `inventory` and the manifest pages; `completeInventory`; `apply` of each tombstone as its page arrives |
| ActivateRoute | `activateOutbound`, by the push pass or by the server of a pull (`op: "ready"`) |
| QueryHoldings, AnswerQuery, ObserveHolding, ReconcileHeld | the holdings loop of `push`; `holdingsCut`; `observeOutboundState`; `reconcileHoldings` and the custody receipts |
| ReceiveOffer, SendBody, ReceiveBody | `apply`, `pinOutgoing`, `applyStream` |
| AcknowledgeReceipt, CrashAfterReceipt, ObserveReceipt | `acknowledge`, the same cut short between its commits, `observeOutboundState` |
| PullDocument, FinishReconciliation | the live loop of `pull`, `completeReconciliation` |
| LoseBody, Lose | a body file disappears; a message is lost, refused or its pass gives up |

### The store lock

`StoreLock` is the layer under every commit of `Replication`, where each commit is one step. One *call* is one `withStoreLock`, which acquires
once; `Process` are process ids, given out again after a crash (`life`). The files are `lock`
(`mutation.lock`), `candidate` (the owner's own name of the same inode) and `guard` (`mutation.lock.reap`). Each
file operation is a step and a process may die between any two.

| action | code (`sync-files.ts`) |
|---|---|
| Begin, GiveUp | `withStoreLock`: joining the queue; the deadline |
| CreateCandidate, Link, RemoveCandidate, Enter | `acquireSyncOwnership`, `withProcessLock` |
| LeaveOperation, Release | `removeHeldLock`, in its validation and its removal |
| ReadLock, Judge | `reclaimDeadLock`, `isDeadOwner` |
| TakeGuard, Recheck, ClearCandidate, ValidateReaped, Reclaim, DropGuard | `reclaimCheckedDeadLock` with `removeHeldLock` |
| Crash, Reuse | a process dies; its id is given out again |

A snapshot of the lock file (`lockSnapshot`) is one step, since it is retried or given up when the file changes meanwhile. `Links` is the
link count a snapshot reads. Portable mode is modelled in `InboxCatalog`, as its users
meet it; abort signals and failing file operations are not modelled. `KnowsStart` FALSE is a platform that cannot tell a process's start (`processStart` returns null
off Linux): a reused id then keeps the lock, as "unknown ownership blocks instead of stealing" (`docs/phase2-sync/architecture.md:15`)
has it. The same file locks the worker's startup and lifetime.

### Replication: what is abstracted

- A signed state is a version and live/deleted. Keys, metadata, digests,
  history epochs, local ids and provenance are left out: no actor of the model forges
  a signature, and an inbox has one epoch until it forks.
- `generation` only grows, and so do the versions of a ledger's records: the order
  of two cuts of one ledger is the order of their versions (`Older`).
- Only the newest outbox entry of a (route, document) pair is kept. Entries of
  older revisions are retired by the fence and never looked up again.
- `first` on a receipt stands for insertion order: `currentCustodyReceipt` takes
  the first match of an object whose keys are in the order they were stored.
- A pass is not a state. Any chain of its steps may start when its guard holds,
  interleave with others (up to `MaxPasses` messages in flight) and stop anywhere;
  the order the code imposes within a pass is imposed by the guards on the ledger
  (active, ready, pending). This allows more behaviours than the code. Session
  nonces and leases bind a message to the revision it was authorized at, which each
  message carries.
- Attempt counters and retry times: `FailAttempt` may happen at any time and chooses
  whether the obligation stays pending or is blocked.
- A commit is one step, except for the two commits of `acknowledge`, which are
  separate because a crash between them is visible.
- `AuditConflict` and `QuarantineRestored` happen only while not quarantined, which bounds
  the revisions and incarnations they add. The order in which a fence detaches several
  routes makes no difference and is not modelled.
- The branch of `applyLocked` that fences an owner who receives a state ahead of its own
  counter needs a ledger rolled back to an old copy. The branch is in the model
  (`"fence"`), but no action rolls a ledger back yet, so it is never taken.

### The other components

Each table names the actions and the code they stand for; `PROJECT.json` gives the lines of every definition.

**`DurableStore`** (`sync-store.ts`, `sync-files.ts`, `sync-staging.ts`). State: the visible `ledger`, `bodies` and `staging`, and for
each of the three directories what a restart of the host may leave (`...Disk`); `left`, the steps each process's operation still has
to take; `lease`, what the file of a lease holds (empty, written, synced, torn); `uncertain`, `recovered`. The operations are publish, apply, speak (what calls `baseline` and tells somebody what is held) and
recover, each a list of steps; a step that throws leaves those of the finally blocks around it.

| action | code |
|---|---|
| OperationStarts, Mutate, ReadLedger, SetFlag | `mutate`, `baseline`, `recoverLocked` |
| CreateLease, FillLease, CreateStage, FillStage, DiscardStage, CleanDead, RefuseReservation | `reserve` with `exclusiveFile`, `stageBuffer`, `stageStream`, `release`, `cleanDead` with `readLease` |
| Install, MoveBody, Refer, MoveLedger, Flush | `installBody`, `applyLocked`, `replaceLedger`, `flushDirectory` |
| StepFails, UserKilled, UserExits, HostRestarts | a failing file operation; the end of a process or of the host |

The disk is that of `docs/phase2-sync/architecture.md:21`, and weaker: the changes of one directory reach it in their order, those of
different directories independently. Random file names are interchangeable. The explicit `recover()` is made only by a process that maintains the home; the
flushes of directories created at enrollment are left out; a failed release leaves a live lease until its process ends. A lease is
created, written and flushed in three steps, and a reservation that fails in them gives nothing back, as in the code, whose `try` begins after them.
`startCommunication`, `inventory`, `holdings` and `deliveryStatus` call `baseline` first, since responses "must not expose an unflushed receipt written
by another process" (`docs/phase2-sync/protocol-contract.md:21`), and StoreSurvives shows why: a ledger read between a
rename and its flush may be gone after a restart. A worker whose store becomes uncertain refuses until it is restarted.

**`RecordReader`** (`sync-ledger-reader.ts`, `sync-worker-record-reader.ts`, `inbox-catalog.ts`, `viewer-records.ts`). `kind` is the
record that is read, and with it the reader's looks and tries; `linked` is the file the name refers to, `found`, `opened` and `doubted` those the reader
remembers. An inode that lost its name may be given to a new file, which is what makes comparisons by inode worth checking.

**`SyncWorker`** (`sync-worker.ts`). One thread: a step is what runs between two awaits. `ledger` holds what the worker reads of it,
`seen` what the drain last read; `drain`, `job`, `left`, `route`, `attempt` say where it is.

| action | code |
|---|---|
| RequestRun, Cancel, RequestWake, RequestClose | the control operations |
| BeginDrain, Settle, Retire, Refuse, StartPass, LookAt, CredentialMissing, AlreadyStopped, FinishPass | `kick`, `drain` |
| Launch, StartRequest, FinishRequest, FinishAttempt, Expire | `openRouteAttempt`, the requests of an attempt, the end of a pass's time |
| DrainFails, FatalStop, Tick | the catch of `kick`, `tick` |
| Quiesce, QuiesceStore, QuiesceNoWorker, QuiesceTimesOut | `quiesce` at the worker, in the store, and without a worker |
| CloseListeners, Drained, RemoveRecord, ReleaseLifetime | `close` |
| Pause, Resume, RetryDue, RemoveMapping, Reconfigure, Disable | the commands of `sync-cli.ts`, and what they commit |

A ticket cancelled while the drain awaits its check of the lifecycle is later called "running" or "complete", but no request leaves
for it. A pass whose time ends records nothing for the routes it had left, which are due again.

**`WorkerLifecycle`** (`sync-worker-client.ts`, `-records.ts`, `sync-worker.ts`, `sync-maintenance.ts`). Actors are starters with their
child, standing workers, stops and maintenance; `startup`, `lifetime` and `runtime` are the three files. Inherit and Refused are the child
under its parent's lock, TakeLifetime and Publish the way to service, BeginClose, CloseRecord and CloseLifetime the way out; Poll is a stop that waits; Kill
any process at any step. `orphans` are the workers nobody can find by the record: a child whose parent was killed before it was ready, and
one that started beside a fork.

**`ViewerLifecycle`** (`viewer-server.ts`, `viewer-tailscale.ts`, `tailscale-records.ts`, `viewer-process.ts`).

| action | code |
|---|---|
| LockStart, InheritLock, Admit, Listen, PublishViewer | `startViewer` |
| ClearLock, ClearNothing, ClearOff, ClearDone | `cleanupTailscale` |
| Prepare, ServeLock, ServeJournal, ServeRoute, ServeVerify | `prepareTailscale`, `startTailscale` |
| BeginClosing, CloseReader, ReportFailure, Unlist | the close of a viewer |
| EnsureFound, SpawnViewer, EnsureReady, EnsureGivesUp, KillGroup, EnsureFailed, GiveBack | `ensureViewer` |
| SignalViewer, StopUnheard, Watch, StopDone | `stopViewer` |
| Sweep | the viewer's records that `maintainSyncIdentity` removes |
| LateCommand, ByHand, FreeNode, KillProcess | the daemon, other people, a dead process |

The node's lock left by a dead owner is removed by hand (FreeNode). Maintenance removes the journal of a crashed viewer of the home
without its route (`swept`); `strays` are viewers without a record, as `orphans` above.

**`StartLock`** (`viewer-start-lock.ts`). One action per file operation of `acquireViewerStartLock`, `recoverAbandonedLock` and
`release`. A file whose creator died before it wrote into it, and a guard left behind, are refused until somebody removes them. A process id that was
given out again makes a dead owner look alive: it is waited for.

**`IngestionSessions`** (`sync-http-server.ts`). `sess` and `trans` are the server's maps, `hand` the requests in progress, `revision` the
route in the store. Each action is what a handler does between two awaits: Authenticate, Identity, InventoryRead, ServePage, TakePage,
PageApplied, Activate, CompleteSession, Get, Pinned, Sent, Offer, OfferApplied, Put, Received; ChangeRoute, WatcherAborts and InvalidateRoute fence
the route; PeerGoes, Expiry and Slip are peers, time and storage; BeginServerClose and ServerClosed the close, which keeps ownership
when its handlers do not end in time ("stuck"). A push page that failed still counts its bytes, and invalidation removes busy sessions.
"sending" begins when `pinOutgoing` has authorized the body under the store lock: that is where BodyIsEarned speaks of the route's revision. Another process may
change the route before the head is written, and the body is sent all the same.

**`Enrollment`** (`sync-store.ts` `finishEnrollment`, `backend.ts`, `document-deletion*.ts`). `documents` is what that name is: the old directory, a
new one, a barrier. BeginEnroll to CompleteEnroll are the steps of the migration, ResumeEnroll its recovery; Stage and PublishLegacy a publication by path; Capture,
InspectDocument, LockDocument and RemoveDocument a deletion by path; ForkHome and FinishFork a fork of the home beside it. A barrier that was not
written before its process died is removed by hand.

**`HomeIdentity`** (`sync-store.ts` `fork`, `quarantineRestore`, `recoverLocked`; `sync-maintenance.ts`; `inbox-catalog.ts`). The files that name
an inbox are `owner`, `reader`, `keys`, `workerOf`, `catalog` and `transition`. Upkeep is the sequence of `maintainSyncIdentity`, one action per commit;
CopyHome copies a home with all it holds, RecoverHome is the recovery every use begins with, Sign the owner's signature.

**`InboxCatalog`** (`inbox-catalog.ts`, `inbox-selection.ts`, `private-storage.ts`). `entry` is the catalog, `ident` the libraries'
instance ids, `gate` the portable locks. EnterCatalog takes the registration lock; BeginRegister, BeginCreate, MakeLibrary, CheckEntry, PublishEntry
bind a name; ReadIdent, LockIdent, DrawIdent draw the identity; BeginFork to CloseIntent are `withCatalogIdentityTransition`; ScanCatalog to
PreferInbox select and set the default; CopyLibrary is a copy made by hand. Commands are numbered in the order they start and identities
drawn in order, which is symmetry. The scan of the catalog's files is one step, so the refusal of a reader that spans a fork and a
registration is not seen. A portable lock of a dead owner stays.

**`RemoteMutations`** (`remote-workflow.ts`, `remote-lock.ts`, `remote-records.ts`, `cloudflare-pages.ts`). State: `remoteState`, `operation` and
`work` are files, `project` and `deployed` the provider. CreateLock and WriteLock, GuardRecovery to Unguard are the lock; PrepareInit,
CreateProject, RecordIntent, Export, Deploy, Checkpoint, WriteState, RemoveOperation, RemoveWork the mutation; ReconcileInit,
ReconcileSnapshot, ReconcileFinished what reconcile finds. Assumed of the provider: a failed or killed deployment takes effect before its command has
ended, or never: the lock is recovered as soon as the process is gone (`docs/remote-migration.md:67`).

**`Publication`** (`sync-publication.ts`). `fate` is where each route is and `was` where it has been; Snapshot, Look and Concluded are one
inspection, Decide, Submit, Await, Settle, Cancel and Report the command, Interrupt and ClockMoves its signal and its two deadlines. An error
that is not a deadline, after the submission, is thrown without a cancellation; a ticket whose answer was lost ends by its own deadline at the worker.

**`BootService`** (`viewer-service.ts`, `viewer-service-manager.ts`). An installation, a removal and a rollback are lists of orders to the manager
(`remaining`); Ordered and OrderFails take the next of a command, Undone and UndoFails of a rollback. On launchd a rollback
begins with a query: SeenLoaded boots out what it finds loaded, NotSeen is the query that fails, which the code passes over (`overlooked`). The manager keeps its own copy of the definition, `Dropped` by systemd when nothing
runs by it. Administration is one command at a time, for which the code has no lock.

**`DocumentRemoval`** (`viewer-deletion-client.ts`, `viewer-http-server.ts`, `document-deletion.ts`, `document-deletion-worker.ts`). `shown` is
what the page says, `handling` the request at the server, `helper` the child process, `library` and `trash` the files. Every look and every
change of the helper is a step; ParentKills, HelperDies and PageGivesUp may come at any of them, and EnrollmentTakes renames the whole directory away.

## 3. The runs

| run | instance | checks | distinct states |
|---|---|---|---|
| `PairFaults` | a to b, one document; crash, failed attempts and retry at the source; hiding and body loss at the destination; two messages in flight | TypeOK, EveryStateOwed, ConfirmedIsHeld, TombstoneFinal | 163 000 |
| `PairRevisions` | two documents; push and pull; both ends reconfigure, revoke and detach, to revision 3 (2 once both documents are there) | LedgersParse, NothingResurrected, ActiveAtBothEnds, FullIsHeld | 842 000 |
| `Relays` | a to b and on to z, one of the two routes detached and connected again; or a is forked, and b sends back to the fork | NoStrandedWait, SignedOnce, ImplementsHistory | 382 000 |
| `PairLive` | as PairFaults with fairness, one lost message, and routes that a permanent failure stops | DeletionReaches, CopyRepaired | 20 600 |
| `Progress` | one worker, a ticket, a route, two faults; or two calls of p, of which one may leave at its deadline, one of q, each id given out twice; fairness | QuietAsReported, NoRequestAfterCancel, RunsEnd, DueServed, EveryCallServed | 422 000 |
| `SharedFiles` | the store lock, a record and its reader, the catalog, the start lock | OneHolder, OneAtATime, NeverStolen, AnswerIsOfItsTime, CatalogHolds, IdentityAgreed, OneStarter | 2 418 000 |
| `HomeProcesses` | the other components of a home, one after the other | WorkersExclude, ViewerIsAccounted, ForeignRouteKept, SessionsAccounted, BodyIsEarned, EnrollmentIsFaithful, OneSigner, ForkIsSound, MutationAlone, SiteFollowsRecords, StoreSurvives, StagesOwned, ExitIsTrue, ServiceIsAsTold, DeletionIsAsTold | 2 645 000 |
| `PairRepair` | reconfiguration, hiding and body loss, nothing lost | CopyRepaired is violated | |
| `ForkCompletes` | an interrupted enrollment and a fork | CandidatesBlockCompletion is violated | |
| `ForkExclusion` | as HomeProcesses | QuiescentForChange is violated | |
| `RollbackReport` | one definition, two mishaps | RollbackIsReported is violated | |
| `StagingLeftovers` | two processes, one killed | LeftoversHarmless is violated | |

**What the properties say.** *TombstoneFinal*: a late body cannot take back a
deletion. *EveryStateOwed*: no operation forgets to queue. *ConfirmedIsHeld*:
"delivered" is true. *LedgersParse*: no sequence of legal operations makes a ledger
its own reader refuses. *NothingResurrected*: membership waits for terminal history.
*ActiveAtBothEnds*: activation at one end implies complete history at the other.
*FullIsHeld*: item 100 does not vouch for item 99, two documents being the least that can show it. *NoStrandedWait*: nothing waits for
history that is there. *SignedOnce* and *ImplementsHistory*: an owner's history is one line
whatever copies, relays and forks do. *DeletionReaches* and *CopyRepaired*: what is owed
arrives, on a route that no permanent failure has stopped. *OneHolder*, *OneAtATime*, *NeverStolen*: no interleaving of reapers, crashes and deadlines lets two operations
in or takes the lock from the living. *EveryCallServed*: a dead owner never blocks the lock, even when its process id is in use again; the one exception is a reaper that
died holding its guard, which nobody may remove (`sync-ownership-publication.test.ts:402` expects the deadline).

Of the files: *AnswerIsOfItsTime*: a read without a lock gives what the record was at some moment of it, and gives up only for
changes that happened. *StoreSurvives*: a restart of the host keeps what was told and every body the ledger refers to. *StagesOwned*: no
stage is ever without a lease that can be read, there are never more leases than may be reserved, and the living never lose a stage. It does not say that the
dead leave only leases that can be read: they do not (`StagingLeftovers`). *CatalogHolds* and *IdentityAgreed*: names, places and identities stay
one to one under concurrent commands, copies and forks. *OneStarter*: one command at a time starts or stops a viewer.

Of the processes: *WorkersExclude* and *ViewerIsAccounted*: one worker and one viewer, each found by its record, and "stopped" is
true; the exceptions are named in the properties (`orphans`, `strays`, `swept`). *ForeignRouteKept*: a route somebody else set is
neither replaced nor removed. *SessionsAccounted* and *BodyIsEarned*: capacity is kept and given back, and no body leaves before the
history it needs is acknowledged. *QuietAsReported*: who was told the worker is quiet finds it so. *NoRequestAfterCancel*, *RunsEnd*,
*DueServed*: a cancelled run sends nothing more, nobody waits for ever, no due route is forgotten.

Of the identity: *EnrollmentIsFaithful*: what was published is listed and what was deleted stays deleted, from every
interruption. *OneSigner* and *ForkIsSound*: two homes never sign as one inbox, and a fork can be finished wherever it
stopped, unless the record of a dead worker still names the old inbox (section 4).

Of the commands: *MutationAlone* and *SiteFollowsRecords*: one command at a time changes the site, and the records know
what it serves. *ExitIsTrue*, *ServiceIsAsTold*, *DeletionIsAsTold*: what a command or a page says has happened.

**Bounds.** `MaxVersion` 2 lets the owner publish and delete one document (or publish two);
3 leaves room for a version after the fork. `MaxRevision` 1 is enough where the question is
about faults within a connection, 2 gives one reconnection, 3 reconfiguring after revoking.
`MaxPasses` 2 lets a late message meet a newer one; with 1 the pass still interleaves
with every local operation. `Disruption` says which faults a run allows at which home, so that
each run stays exhaustive. One document suffices wherever a property is about one document
at a time, since the operators treat documents independently. PairRevisions has two, which are interchangeable
(symmetry), so that a cut may have one item that is held and one that is not; `Crowded` keeps the last revision for states in which only one is there.
Relays follows two slices (`Relaying`, `Forking`), each with the bounds its question needs; no step may leave both.
For the lock, three calls of one id are needed for a waiter who leaves between two others, and two lives of an id for a successor that takes over
from its own id's dead owner while a slow reaper of another process still believes what it read. Four starters and two kills give the
start lock the same: one that recovers, one that recovers after it, a new owner, and one that waits. Three catalog commands with two places, two names and one kill let two writers meet a third
that reads, of which only the third selects; three inode numbers let a file's number come back while another is open.

In HomeProcesses: the worker has two starters with their children, one standing worker, one stop or one maintenance, and one kill; the viewer one command with its child, one in
the foreground, one stop or one maintenance, one death and one failure. Starting and stopping meet in pairs, and a third process arrives while a second waits for a first that died. The server has
capacity for one session and one transfer, so that two handlers contend, and two revisions. Enrollment has three documents, two from
before, one published meanwhile, and two interruptions: one of the enrollment, one of its recovery. The identity has two homes and three inboxes: an original, its copy, and one identity to draw for each.
The remote commands are three, so that a recovery meets both a crash and a competitor. The store has two processes, of which one is the worker, two documents, and one failure and one restart. A publication has two
routes that change twice; the boot service two definitions and three mishaps, since its rollback fails only after a failure; a deletion two requests for one document and two failures.
In Progress one ticket and one route suffice for the fences, each of which is about one; two faults let one arrive while the first is handled.

**Deadlock.** It is checked except where the system may really stop: in
PairRevisions both ends can be detached at the revision bound; in Relays every home can
be quarantined with no fresh identity left; in PairRepair a route can be stopped with nobody to retry it; in SharedFiles, HomeProcesses and Progress, and in the other violation runs,
commands, calls and workers come to an end.

**Fairness** (`ReplicationLive`). The worker of a home starts a pass at every reconcile
interval and after every wake (`sync-worker.ts` tick and kick), and each pass tries the
manifest, the holdings and each pending offer again. A request whose guard holds again and
again is therefore sent (strong fairness on SendManifest, QueryHoldings and OfferState,
per route and per document), but only for a route that is not stopped: a permanent failure that ends a pass, such as that of
a tombstone's offer (`sync-reconciliation.ts:199-208` and 109), is recorded by `recordRouteRun` as blocked, `isRouteDue` passes the route over
(`sync-ledger-policy.ts:97`), and no pass runs until somebody retries it or changes its revision. `stopped` is the set of
such routes; FailForGood and Refuse put a route there, RetriedAt and Renewed take it out, and `PassFairness` promises nothing for a route
that is stopped again and again. Nobody is assumed to retry: DeletionReaches and CopyRepaired
except a route that is stopped. A message that somebody can handle is handled, and one nobody can
handle is refused with an error response (weak fairness), which may stop its route. At most `MaxLosses` messages are
lost otherwise: a network that loses everything delivers nothing. Retry times are outside the model. Nothing is assumed of users, operators,
retries or faults.

`CallsGoOn` of `StoreLock`: each call that began goes on step by step (weak fairness), since the
queue, the retries and the file operations are one chain of awaits.

The worker, in `ProgressSpec` of `MCProgress`: what the event loop has ready it runs (weak fairness on WorkerStep); the requests of an attempt end with the time limit of the pass, however many it starts
(strong fairness on FinishAttempt, since new requests may be started in between); and the interval of the tick fires (weak fairness on Tick). Nothing is assumed of
commands, peers or faults.

## 4. What was found

`PairRepair`: a missing body may never be repaired. The destination imports a copy and loses the
body; the route is reconfigured at both ends; the destination hides the copy; the source's offer
is answered `suppressed`, the first receipt about that state at this revision; the destination shows
the copy again. From then on every pass asks for the holdings and learns that the body is neither
available nor hidden, together with the `suppressed` receipt (`currentCustodyReceipt` takes the first
of any disposition, `sync-ledger-policy.ts:20`). `reconcileHoldings` reopens the obligation, and the loop
after it acknowledges it at once, because only a `committed` receipt is held against
`holding.available` (`sync-reconciliation.ts:256`). The body is not offered again. The
documents say "Missing acknowledged bodies durably recreate repair obligations"
(`docs/phase2-sync/architecture.md:73`) and "Historical receipts do not hide missing body"
(`docs/phase2-sync/acceptance.md:12`). In `PairLive`, where the copy is never reconfigured, the first receipt is
`committed` and the property holds.

`ForkCompletes`: a fork completes an enrollment that was not complete. `fork` sets the migration's phase to "forking" and then to
"complete" whatever it was (`sync-store.ts:1144` and 1149, and recovery at 1357), and neither `quarantineRestore` nor `maintainSyncIdentity` looks at it. A home
whose enrollment was interrupted, or that a candidate had blocked, is afterwards a completed home whose remaining candidates nobody
reads again. "Unknown candidates and unsupported metadata fields block completion." (`docs/phase2-sync/storage-interface.md:9`).
EnrollmentIsFaithful therefore says nothing of homes forked before they were complete (`cutShort`).

`ForkExclusion`: a fork runs without its exclusions. Its promise is returned from inside the `try` whose `finally` releases the worker
exclusion and the start lock (`sync-maintenance.ts:111` and 129), and not awaited there: both are given back when the fork has been started. A worker or a viewer of the home can start
while the ledger, the key and the reader's identity are replaced. "Prove same-home runtimes quiescent and hold lifecycle/start exclusions
for an in-place identity change" (`docs/phase2-sync/worker-cli-contract.md:104`). The quarantine above it awaits its steps. WorkersExclude and ViewerIsAccounted
except what starts beside a fork.

`RollbackReport`: a rollback that left the service running is told as complete. On macOS `rollbackService` begins with a query whose failure is swallowed
(`viewer-service-manager.ts:115`): the bootout is skipped and, unlike for every other step, no error is kept. A fresh installation whose viewer is not confirmed in time and whose
rollback cannot query launchd removes the definition and disables the service, and reports only the first failure, while the service stays loaded and its viewer runs. "A failed
installation or removal restores the previous definition and service state when the manager permits rollback. An incomplete rollback is
reported explicitly." (`docs/self-hosting.md:61`). ServiceIsAsTold therefore says nothing of the running viewer after a rollback that did not see a loaded service (`overlooked`).

`StagingLeftovers`: a lease cut short blocks the staging area. `exclusiveFile` creates the lease, writes it and flushes it (`sync-files.ts:121`); a process killed after the first,
or a host restarted before the last, leaves a lease that `readLease` cannot parse. `cleanDead` throws on it (`sync-staging.ts:59`), and with it every later reservation and the recovery that the first
mutation of a new process begins with, until somebody removes the file. "Unreferenced staging/body files are harmless crash leftovers"
(`docs/phase2-sync/architecture.md:23`). That an unreadable owner blocks is meant (`docs/phase2-sync/architecture.md:15`); that an ordinary kill can leave one is not foreseen.

Observations that no run stands for:

- An interrupted fork cannot be run again when the record of a worker that died still names the old inbox: `maintainSyncIdentity` refuses
  before it gets there (`sync-maintenance.ts:41`), although "Re-run the same explicit fork command after interruption"
  (`docs/phase2-sync/worker-operations.md:74`). ForkIsSound has the exception.
- A library that is registered while its own fork is interrupted, with a journal that names no entry, cannot be forked any more, and
  there is no command to remove the entry.
- On Linux an installation killed between writing the definition and the restart is not repaired by "Reinstalling the same settings"
  (`docs/self-hosting.md:61`): the command finds the file as wanted and only enables and starts, and the viewer keeps running by the old one (`stale`).

## 5. What is proved

For every set of inboxes, homes, documents and routes and every bound:

- `TypeCorrect` (`ReplicationProofs`): `Spec => []TypeOK`.
- `TombstonesFinal`: `Spec => TombstoneFinal`. Each ledger operator *keeps* a tombstone
  (`...Kept` lemmas of `SyncLedgerProofs`); the type invariant provides that versions
  can be compared.
- `LedgersAlwaysParse`: `Spec => []LedgersParse`.
- `EveryStateOwedAlways`, `NoStrandedWaitAlways` and `NothingResurrectedAlways`.
- `HistoryImplemented` (`ReplicationHistory`): `Spec => ImplementsHistory`, the refinement of `OriginHistory`, step by step.
- `SignedOnceAlways`, `FullIsHeldAlways`, `ConfirmedIsHeldAlways` and `ActiveAtBothEndsAlways`.

The assumptions are `LedgerAssumption` (routes have two different ends and their source in scope)
and `ReplicationAssumption` (homes have different identities; the bounds are natural numbers).

**The argument for LedgersAlwaysParse.** `Parses` alone is not inductive. A revocation or a
fence must find obligations it can retire, and an operation that queues must not bring back one
that refers to an older fingerprint; so the invariant `Sound` adds that an obligation retired at the route's
current revision belongs to a route that may no longer send. A receipt that arrives from elsewhere is
stored as it is, so `ReceiptsTold` says that every receipt under way, in a reply or in a
holdings answer, agrees with the state it is about. `SyncLedgerProofs` has one lemma per ledger operator;
`ReplicationProofs` one step per action. TLC checked the invariant on the instances above before it was proved.

**The argument for obligations and reconnection.** `Served` adds to `Sound` what the queue owes (`AllDelivered`): on a route that may send, an
obligation exists for the present fingerprint, and if it waits for history, that history is missing. Each operation is a composition of a few
steps (fence, detach, write a record, queue one document on every route, queue everything on one route), and
`SyncLedgerDelivery` shows of each what it does to the entries it does not name: a queue step never loses an obligation, and
writing a record is followed by a queue step for that document. `Reconnected` says that an inbound route is active
only with an inventory completed at its revision, that a copy is attached only by a route that ends here, and that
nothing an inventory named deleted is live again.

**The argument for the history.** What a ledger knows of a document was signed by an identity that may since have been forked away, so no invariant that
compares with the owner's counter is inductive. `TrueTo(T)` speaks instead of a truth T, two versions per document: that of its live
state and that of its tombstone. Every state anywhere (records, checkpoints, messages, receipts) is one of the two and some home has
reached it; the owner leads; no two homes sign as one inbox. `Init` satisfies it with any T. A step either adopts genuine
states and keeps T, or signs one and chooses the version of T nobody knew yet, or forks; these are the three actions of
`OriginHistory`, so the same case split gives the refinement. `ForkIdentity` takes an identity that no home,
message or configured route names (`Fresh`): the code draws a random UUID.

**The argument for deliveries.** `Deliveries` relates a source's ledger and the messages to what the destination holds: a receipt, wherever it is (`Honest`), and an entry that was
confirmed (`ConfirmedHonest`) are about a state the destination holds or has passed; a message that calls a route ready, and a source that takes it for active
(`ActiveReady`), are about a revision the destination has activated, which it leaves only to a later one (`Ready`). A step is `Steady` if it moves one home on, does not
take back what that home could have told, and sends honest messages; every step but a fork is. A fork takes a fresh identity, so nobody was told anything of
it.

`StoreLockProofs`, for every set of processes and calls, either platform and any number of reused ids: `LockTypeCorrect`, `OneHolderAlways`,
`OneAtATimeAlways`, `NeverStolenEver`, under `StoreLockAssumption`.

**The argument for the lock.** OneHolder says nothing of the file, so it is not inductive. `Owned` ties the file to the call that may be in the operation; a
release is harmless because the name it removes is its own. A reaper's removal is harmless because of `Doomed`: what it is about to remove belongs to a call that crashed. That holds from the second look at the
owner on (`Recorded`: a live call has a live process, of the recorded start), and it stays true because the guard excludes other reapers (`Guarded`), and the name cannot change
hands without being removed first. `Queued` keeps, for any two calls of a process, who came first.

`ProcessProofs`, for every set of commands and any number of deaths: `OneStarterAlways`, under `StartLockAssumption` (no process is
the one that stands for none). **The argument for the start lock.** A removal by name is what could go wrong: it takes whatever has the name by then. The invariant ties
the file to the living process that created it (`StartIsOwn`) and the guard to the process that recovers, dead or alive (`GuardIsOwn`), so that one
process recovers at a time; and `RemovesTheDead` says that from its second look on, what it is about to remove belongs to the dead. Nobody else
can have replaced it: creating needs a free name, the owner does not release it any more, and another recovery needs the guard.

`RemoteMutationsProofs`, for every set of commands, any number of deaths and outages: `MutationAloneAlways`, under `RemoteAssumption` (no command is
the one that stands for none). **The argument for the mutation lock** is that of the start lock, with a guard that stays where it is when its owner dies: `LockIsOwn` and
`GuardIsOwn` tie the two files to their commands, and `RemovesAbandoned` covers the steps between the second look and the removal. What a
command does while it has the lock is one lemma, `InnerMoves`: it leaves the two files alone and stays inside or ends.

On top of it, `SiteFollowsRecordsAlways`. With one holder at a time, what a command relies on between two of its steps (`Relies`) is changed by nobody else; what
a dead command leaves is `Recorded`: production is what `state.json` or the pending operation says, an intent is either still to be deployed,
with its snapshot, or is what is served. Ids are drawn once, so that an operation that reconcile finds among the deployments is the last of them.

`StoreLockProofs` also has `StoreSurvivesAlways` and `StagesOwnedAlways`, for every set of processes, documents and file names and any faults and restarts, under `DurableAssumption`.
**The argument for the files.** An operation is a list of steps that recovery, cleaning and failures prolong or replace, so the invariant
cannot name program points: `Rule` says what the steps after a step must and must not contain, every operation starts with a list in that order and every action keeps it. What holds of the files then depends
on the steps still to come. Until it is moved and flushed, a file is leased to its operation and in no `bodies/` a restart could leave (`StageOf`), afterwards in all of
them (`BodyOf`); the copy of the ledger that is about to replace it refers only to such files, has all that the ledger has, and nobody else replaces the ledger meanwhile, the lock
being held from the read to the rename (`CopyOf`); what is about to be told is recorded, and on the disk once the flush is behind it (`TellsOf`). Two operations never have one file: a lease names one process, and a
new lease takes a name that is nowhere. A stage is created only after the flush of its lease, so that the lease of a stage is whole on whatever disk a restart leaves; leases that are
not whole have no stage. A new lease finds fewer than `MaxReserved`, on the disk as in memory.

`AnswerIsOfItsTimeAlways`, under `ReaderAssumption`, for every set of inode numbers and any number of changes. Each attempt that comes to nothing saw a change that no earlier
attempt counts as its own, so that giving up takes as many changes as attempts; and an inode number is given out again only after two changes, and never while the file is open, so that two looks
that agree on it with fewer changes in between saw one file.

`HomeProofs`, for every set of processes, homes, documents and requests; the components share no state and have an invariant each.

- `WorkersExcludeAlways`, under `WorkerLifecycleAssumption`. The lifetime lock alone gives one worker. That a worker can be found
  rests on the startup lock: until its record is there a worker is covered by that lock, its own or the parent's that waits for it. So who holds the lock and sees nobody alive
  in the record has seen all there is, but for a child that its dead parent left behind.
- `OneSignerAlways` and `ForkIsSoundAlways`, under `HomeIdentityAssumption`. A copy of a home keeps the anchor of the original, so that it is entitled to nothing until it is
  quarantined, and then signs only under an id that was drawn for it, is known to nobody and was signed by nobody. For each step of a fork the invariant says which files name the old inbox and which the
  new one, and what the recorded intent makes of that after a kill.
- `EnrollmentIsFaithfulAlways`, under `EnrollmentAssumption`. Before the barrier a publication or deletion by path meets the directory; what a process looked at earlier is
  still there or has been evacuated with it. From the barrier on the evacuated directory stands still, so what was enumerated is what there is.
- `DeletionIsAsToldAlways`, under `RemovalAssumption`. The library only shrinks, one helper removes a document, and the server answers and closes
  only after the helper is gone.
- `SessionsAccountedAlways` and `BodyIsEarnedAlways`, under `IngestionSessionsAssumption`. A handler that works on a session has it busy, and a session that is no longer kept is never kept again, so a
  handler that comes back from an await has either its own session or none. A handler that pins a body does so for an active session, and only a session that has served all its pages becomes active.
- `ExitIsTrueAlways`, under `PublicationAssumption`. What was told of a route was so at some moment of the command, a look never tells more than there was; and once a
  ticket may be with the worker, every way to the exit that does not wait for it leads through its cancellation.

`ProcessProofs` also has, each with an invariant of its own:

- `QuietAsReportedAlways` and `NoRequestAfterCancelAlways`, under `SyncWorkerAssumption`. There is an attempt exactly while a pass reconciles. An abort that came before the attempt is
  seen when the attempt is launched, and one that comes later finds it; a fence that is committed in the ledger is refused by every later launch, so that it is enough to wait for the attempt there is.
- `ViewerIsAccountedAlways` and `ForeignRouteKeptAlways`, under `ViewerLifecycleAssumption` (one process runs one command). A viewer on its way to publishing its record is covered by the start lock, its own or that of the
  command that waits for it, so that nobody else publishes, replaces or stops meanwhile. Whoever touches the route holds the lock of the node, and a command that outlives its
  process leaves that lock behind. `RouteInv` follows the route from the journal's first entry to its removal.
- `CatalogHoldsAlways` and `IdentityAgreedAlways`, under `InboxCatalogAssumption`. Only the holder of the registration lock changes an entry or the intent of a fork (`WriterHolds`), so what it checked under the lock still
  holds when it writes (`Checked`). An identity is drawn only where a second look finds none, and a place that has one is a library
  (`NamedIsLibrary`), which nobody copies over. No command removes an entry or moves it to another place; that is why names that were read without the lock last (`NameLasts`).
- `ServiceIsAsToldAlways`, under `BootAssumption` (no definition is a definition of its own). A command is a list of orders, and `BootInv` is the annotated program of an installation, a removal
  and a rollback on either platform: which orders can be left, and what file, manager and viewer are then. systemd's `start` leaves running what runs, so that
  before it nothing may run but the new definition; launchd runs only what it has loaded, and has loaded only what is on file (`LaunchdTied`), so that a rollback begins by
  unloading. A step of the rollback that failed makes `flawed` true, and then nothing is promised but that the command says so; only a first query
  that failed leaves no trace, and then (`overlooked`) nothing is promised of what runs (`RollbackReport`).

**Only model-checked.** Liveness: DeletionReaches, CopyRepaired, EveryCallServed, RunsEnd and DueServed; liveness under fairness and ENABLED are out of the
prover's reach. Every safety property of a passing run is a theorem.

## 6. The plan

Done: the ledger and its replication; the store lock; durable files, staging and the readers without a lock; enrollment and identity; the worker,
its lifecycle and the ingestion server; the viewer, its start lock, its route and its boot service; the catalog; the remote
mutations; a publication and a deletion from end to end.

Left, in this order:

1. `Replication` with owners rolled back to an old copy, for the fence branch.
2. Attempt counters and retry times as state, so that the failures in a row that stop a route are counted.
3. Two standing homes with their workers: the ingestion server of one composed with the passes of the other, without the reduction of
   a pass to its messages.

## 7. What is not modelled

- Parsing and dispatch of the command line (`index.ts`), rendering, the pages of the viewer and the hub, HTML validation and the static export: sequential
  code or pure output.
- The text of the definitions written for supervisors and service managers, and the checks of the account that owns them.
- Sizes: byte quotas, the capacity reserved for tombstones (`sync-store.ts:1495`), limits of messages and pages. The number of reservations, sessions, transfers
  and bodies is modelled.
- Attempt counts and retry times (`sync-ledger-policy.ts:92`): whether a failed attempt is due again or blocked is a choice.
- Of the checks of `parseLedger`, those of `publicationIntents`, of the revision in `routeRetries`, and of `historyEpoch` and `originKeys`: the ledger of the model has none of these fields.
- TLS, credentials, signatures and encodings: nobody in the models forges any.
- The read operations of the ledger that tell a user what is in it.
- Test helpers.
- Cloudflare, the Tailscale daemon, systemd and launchd are external: modelled from how the code uses them, with failures, late effects
  and changes by others.
