# Formal models of knowledge_management_by_slack

TLA+ modules that model the stateful core of this repository, the TLC runs that
check them on small instances, and theorems about them that TLAPS checks for
every value of the constants. Paths below are relative to the repository root.

## The system

Several Python processes serve Slack workspaces: the main bot with the
inventory and knowledge agents (`src/bot/app.py`), the frontend-support
assistant (`src/bot/frontend_support_app.py`), the builder app
(`src/bot/builder_app.py`) and the builder worker (`src/worker`), besides
scheduled reports and backups. They keep their state in SQLite, mostly in one
file (`platform.db`), and in a vector store. systemd restarts them when they
stop.

What interleaves differs from part to part, and the modules differ with it.

- *Inventory.* One asyncio process. Its handlers call synchronous services and
  await nothing after a command has been parsed, except the download of an
  attachment, which happens before anything is staged. Two commands never
  interleave inside a service call, and **one service call is one step**. What
  interleaves are whole calls: between staging something and confirming it any
  number of other commands may run; and a call that needs two transactions may
  end after the first.
- *Knowledge.* Two processes publish articles: the main bot when an upload is
  confirmed, the frontend application when an edit is approved. A publication is
  one synchronous call of its process, but several transactions on two stores:
  **every call on a store is a step**, and the other process, an exception or the
  end of the process may come between any two. Drafts are awaited from a
  language model while the other handlers of the frontend run.
- *Support threads.* One event loop: a handler runs alone up to its next `await`,
  so **the code between two awaits is a step**, and any number of other handlers
  run while it waits for Slack.
- *Builder.* Two processes on one table. **Every call of the store is a step**, and
  every phase of `_run_task` that others can see.
- *Progress cards.* Two threads of the worker. **Every database or Slack call of a
  publication is a step.**

| Component | State | Operations | What makes it correct |
|---|---|---|---|
| Quantity stock (`quantity_stock.py`, `stock_reconciliation.py`) | balances (`on_hand`, `reserved`), reservations, ledger, applied and staged counts | reserve, release, issue, return, transfer, count, stage / confirm / cancel a count | the `reserved` column equals the active reservations and is covered by the stock; the ledger explains the balance; a staged count applies once |
| Purchasing and receiving (`po_intake.py`, `procurement.py`, `assisted_receiving.py`, `receiving*.py`) | orders, lines, deliveries, staged orders and receipts | stage / confirm / cancel an order or a receipt; reconcile a delivery note | an order records as received what entered the inventory, never more than was ordered; a receipt acts exactly when it is confirmed |
| Serialized assets (`asset_lifecycle.py`, `asset_profile.py`) | asset rows, movement rows, disposal evidence | put away, issue, return, repair, quarantine, retire, dispose | custody columns agree with the status; movement rows explain the status |
| Losses (`lost_investigations.py`, `loss_governance.py`) | investigations, loss cases | open / close an investigation; request, approve, write off, recover a loss | two people agree to a write-off; a lost asset can be recovered; disposal waits for the write-off |
| Audits (`serialized_audit.py`, `audit_findings.py`, `audit_corrections.py`) | sessions with a snapshot, scans, findings, corrections | open, scan, close, materialize, resolve, reopen, correct | each finding is about the audit's snapshot and is corrected once; the findings of a closed audit stay its whole result |
| Service cases (`service_history.py`) | cases | open, complete, cancel | one open case per asset |
| Master data (`items.py`, `locations.py`, `customers.py`, `suppliers.py`) | active flags | create, activate, deactivate | nothing in use refers to an inactive row |
| Builder (`agents/builder`, `worker`) | turns and their status, worktrees, branches, pull requests | enqueue, claim, run, succeed, fail, cancel | a turn ends if its commands do; what is pushed was validated and stays in its thread; a success names what was pushed |
| Progress cards (`ux/background_activity.py`) | the card's timestamp, the heartbeat threads | publish, start, stop, join | the end of a turn replaces the working state; heartbeats end |
| Knowledge (`knowledge/catalog.py`, `governed_ingest.py`, `staging.py`) | versions, recorded chunk ids, chunks in the vector store, staged uploads | stage, confirm, cancel, publish | one active version, and it is the one retrieval sees |
| Edit requests (`knowledge/edit_requests.py`, `article_governance.py`, `bot/knowledge_*`, `bot/frontend_*edit*`) | requests, drafts, reviews, the owner | flag, draft, edit, review, apply feedback, approve, dismiss | an edit lands only on the version it was opened on; drafts do not overwrite decisions |
| Support threads (`agents/frontend_support`, `bot/frontend_*`) | thread state, clarifications, captured resolutions, knowledge tasks | observe, ask back, answer, capture, open a task | at most three questions; a captured resolution is the present one, confirmed by one of two people |

The components meet in the tables: receiving posts to the ledger and the
balances of quantity stock and creates assets; audit corrections move assets and
start investigations; investigations and loss cases set the status of assets and
decide whether they may be disposed of; deactivation of master data counts rows
of all of them; approved edits and confirmed uploads commit to one catalog and
one vector store; the worker's turns own the progress cards.

What is hard here: confirmation long after staging, on state that has moved on;
counters and columns that cache what other rows say (`reserved`, `on_hand`,
`quantity_received`, order status, the custody columns, `chunk_ids_json`);
operations over two transactions or two stores; identifiers that two documents
share; several open procedures about one asset; handlers that go on after an
await with what they knew before; threads left behind by a timed-out join.
`PROJECT.json` lists the hazards line by line.

## Modules

| Module | Models |
|---|---|
| `Totals` | the total of a column over a set of rows, as the number of unit tokens (no recursion, so that it can be proved about) |
| `StockClaims` | the abstract promise of quantity stock: units, claims and what may not happen to a claimed unit |
| `QuantityStock` | quantity stock with its tables; implements `StockClaims` |
| `Reconciliation` | the matching of a delivery note to an order, a pure function of both |
| `OrderFulfilment` | the abstract promise of receiving: orders commit quantities once, goods arrive within them |
| `Receiving` | orders, deliveries and both staging workflows; extends `Reconciliation`, implements `OrderFulfilment` |
| `AssetCustody` | serialized assets, movements, evidence, investigations, loss cases; implements `AssetLedger` |
| `AssetLedger` | the asset row as the services see it that only read it; implemented by `AssetCustody` |
| `AssetAudit` | physical audits, findings and corrections on a moving `AssetLedger` |
| `ServiceCases` | service cases on the same ledger |
| `AssetChecks` | the composition of the last two |
| `TurnQueue` | the abstract promise of the Builder: turns are taken up in order or withdrawn, and only a turn being worked on publishes |
| `BuilderQueue` | the task store and the Slack process that fills it |
| `BuilderWorker` | the worker with git and GitHub as it uses them; extends `BuilderQueue`, implements `TurnQueue` |
| `ProgressCard` | the main thread and the heartbeat threads publishing to one card |
| `KnowledgeCatalog` | versions, vector store, the steps of a publication, uploads |
| `ArticleRevisions` | the abstract promise of edit requests: compare-and-set on the content of the article |
| `ArticleEdits` | edit requests, drafting tasks, reviews and ownership; extends `KnowledgeCatalog`, implements `ArticleRevisions` |
| `SupportThread` | one support thread and its handlers |
| `..._proofs` | theorems about the module of that name |
| `MC...` | instances for TLC: identifiers as model values with symmetry, and the documents of the receiving runs |

A module's variables are the tables (comments name them), its actions the
operations, with the Slack command in a comment. Guards are the checks
the code raises errors for: an error leaves the state alone and is not a step.
`None` stands for an empty column or an absent row. `inventory_locations.active`
and its like are sets or functions of rows; rows themselves are never deleted by
the code. Variables marked "history" are not in the code; no guard but a bound
reads them.

`QuantityStock`. `Receive` is what a delivery posts. `IssueReserved` is `issue`
with a reservation id; it checks that the reservation is active and names the
same position and quantity. Two operations have no Slack command and are taken
in all the same: `release_reservation`, and the one-step `count_and_reconcile`
(the agent takes "count stock" for a staged count before it is reached). The
one-step count may write a figure below what is reserved; so `ReservedCovered`
and `ImplementsClaims` speak of the states in which none has been applied
(`DirectCounts`), and the other properties of all.

`Receiving`. A document is an input: `OrderDocuments` and `Notes` are what an
uploaded file may say once it is parsed. `Receive` is the transaction of
`AtomicReceivingService`; `ConfirmReceipt` is both transactions of a
confirmation, `ConfirmReceiptStopped` the first alone: any confirmation may end
there, any number of times, and be given again. `stopped` (history) names the
receipts this happened to. The delivery id is drawn with the receipt id, so one
identifier stands for both.

`AssetCustody`. `save_asset` is an upsert: `Receive` creates the asset, and where the
confirmation ended before its receipt was marked (`ReceiveStopped`, remembered in
`unconfirmed`) `ReceiveAgain` sets every column of the asset back, whatever became of it
and without a movement row, until the receipt is confirmed or cancelled
(`ReceiptEnds`). `Move` is `_transition` and what investigations and recoveries
do in its place: the new asset row and its movement row. `Row` keeps of a
movement row the states and the customer. `ReportMissing` and `Relocate` are the
audit corrections; here they may happen to any existing asset at any time, as
they may in the code once a finding is open.

`AssetAudit`, `ServiceCases`, `AssetChecks`. `Change` is any other service writing
to the asset row, with no more order than `AssetCustody` allows; statuses are
merged where the audits and the service cases do not tell them apart. A scanned
value is an asset id or a serial number, of an asset that may not have been
received yet. A finding keeps its status, its two locations, whether it was ever
corrected and its last event.

`BuilderQueue` and `BuilderWorker`. `turns` is `builder_tasks` in the order of
`created_at`; `worker` holds the local variables of `_run_task`; `worktrees`,
`commits` and `prs` are git and GitHub, which the code sees through
`workspace.py` and `github_client.py`. A branch is named by the turn it was made
for or by the pull request it belongs to, and a pull request by its branch.
`Abort` is any exception in the try block, `Stop` the end of the worker process
in a turn, `AppRestarts` the restart of the Slack process, which forgets what it
has seen; `Close` is a reviewer merging or closing. The removal of a worktree is
taken to succeed (a failure is logged and leaves it behind), a `git rev-parse` after
`git worktree add` not to fail on its own, and what the harness does inside the
worktree is reduced to whether files changed. `MayHang` names the phases that run
git or another command and may never return from it.

`ProgressCard`. A publication reads the stored timestamp, updates that card or
posts one, and stores its timestamp: three steps, in whichever thread. The main
thread stops an activity by setting its event and joining; `JoinTimesOut` is the
join giving up, which it can only while the heartbeat is inside a call.

`KnowledgeCatalog`. A version is named by its text (the code by its hash).
`Register` is `register_version`; `DeleteOld`, `AddBatch` and `RecordChunks` are
the rest of `commit_knowledge`, and `CutShort` its end by an exception or with the
process. `disturbed` remembers that a publication was cut short half way or that
another began before it was through: the two things after which index and
catalog may disagree.

`ArticleEdits`. The frontend does nothing else while it commits, which is the
guard `~ Busy("frontend")`. `MayAct` is what every button handler reads first. A
drafting task is scheduled when the card has been rendered, reads the article
when it starts, and writes only to a request still in its status (`Written`). An
approval expects the version the request was opened on, and `register_version`
compares it in its own transaction.

`SupportThread`. A message is reduced to its kind, to whether it names an
incident, and to whether it is taken for the answer to a question; what the
regular expressions and the language model would say is a free choice. The users
whom the summary of a captured resolution names are those of the last 50 events of
the thread (`collaboration.py` line 408): with events not counted, any participants
but none (`Capture`). `job` holds the handlers waiting at an await; the buttons of every question stay in `cards`
until their card is updated.

Definitions whose names say what they leave out or get wrong
(`ReleaseKeepingReserved`, `ApproveUnconditionally`, `JoinedAtOnce`, ...) are
plausible defects of the definition after them. No specification uses them; they
are there to see that each property notices the defect it is for.

## Runs

All runs are exhaustive breadth-first searches. Identifiers, users, assets,
locations and customers are model values under symmetry where nothing in the
specification orders them.

| Run | Module | Shows |
|---|---|---|
| `stock` | QuantityStock | two reservations and a count, staged or in one step, at two locations, with item, customer and location switched off and on: `ReservedIsHeld`, `ReservedCovered`, `LedgerExplainsStock`, `StagedCountsApplyOnce`, `ImplementsClaims` |
| `receiving` | Receiving | two orders, two receipts at once, six kinds of note, any confirmation ending half way and repeated, master data switched off meanwhile: `NeverOverReceived`, `GoodsMatchUnlessStopped`, `OrderStatusDerived`, `AppliedIffConfirmed`, `AwaitedGoodsAreActive`, `GoodsLieAtActiveLocations`, `AssetsStayPutAway`, `ImplementsFulfilment` |
| `asset_custody` | AssetCustody | one asset at two locations, two investigations, two loss cases, two users, received again at any moment after an interrupted confirmation, master data switched off and on: `HeldByActiveCustomers`, `InUseAtActiveLocations`, `MovementsExplainAssets`, `LostAssetsAreRecoverable`, `DisposalIsEvidenced`, `ImplementsLedger` |
| `asset_checks` | AssetChecks | an audit of two assets that change meanwhile, two scans, every finding resolved, reopened and corrected, two service cases: `FindingsAgreeWithTheSnapshot`, `FindingsAreTheResult`, `FindingsAreKept`, `OneRelocationPerFinding` |
| `builder` | BuilderWorker | two threads, one of which hands a pull request off; redelivery, cancellation, closed pull requests, failures and hanging commands of every phase that has them, one restart of the Slack process and any number of the worker: `PublishedIsVerified`, `PushesStayInTheirThread`, `SuccessNamesWhatWasPushed`, `WorktreesAreRemoved`, `TurnsEndUnlessStuck`, `ImplementsTurnQueue` |
| `progress_card` | ProgressCard | three activities, two failures: `EndIsShown`, `HeartbeatsEnd` |
| `knowledge` | ArticleEdits | two edit requests and a review of one article, an upload of it in the other process, one failure or stop anywhere: `OneActiveVersion`, `SearchFindsTheActiveVersion`, `DraftsMeetTheirRequest`, `ImplementsRevisions` |
| `support` | SupportThread | two users, two handlers waiting at once, two things to ask, three rounds: `AtMostThreeQuestions`, `ResolvedIsCaptured` |
| `receipt_applied_twice` | Receiving | finding, see below |
| `builder_failed` | BuilderWorker | finding |
| `builder_redelivered` | BuilderWorker | finding |
| `stale_card` | ProgressCard | finding |

Bounds and why they suffice.

- *Inventory.* Quantities up to 2 (3 on an order line) give zero, a part, exactly
  and too much. `MaxRows` bounds the ledger, `MaxMovements` the movement rows of
  an asset, `MaxLosses` the loss cases, `MaxCopies` how often a repeated
  confirmation raises the same exception; two or three rows of a kind are enough
  for two procedures to meet on one position, order or asset. Four movements take an
  asset from a loss through recovery and retirement to disposal, or from disposal
  through a late investigation to a loss. `Switched` names the master data a run
  switches.
- *Checks.* `MaxMoves` 1 bounds what other services do to the assets, `MaxScans` 2
  the scans of an audit: enough for an asset to be scanned by its id and its
  number with a change in between, or to be scanned before it is received, and
  any pair of findings about the two assets. Relocations come on top of
  `MaxMoves`. One change disposes of an asset but does not bring it back through
  a late investigation or a repeated receipt; the theorems, which hold for every `MaxMoves`, cover that.
- *Builder.* Two turns are enough for a follow-up (a message delivered again after a
  restart is one) that continues the first turn's pull request, for a redelivered
  message, and for a worktree left behind by the turn before; with `MaxRepairs` 1
  validation passes at once, after the repair, or never. `SeenLimit` (4096 in the
  code) is at least the number of messages, so no message is forgotten but by a restart.
- *Card.* Three activities give a heartbeat left behind by the first a second and a
  third to meet; `MaxFailures` 2 lets the main thread's and a heartbeat's call
  fail in one turn.
- *Knowledge.* Two texts let an article be edited and edited back; the edited one is
  embedded in two batches (`Batches`), so a publication can be cut short or
  overtaken inside the insertion. Two requests race, one staged copy (`Stages`) and
  one review meet them, and `MaxFailures` 1 cuts one publication, draft, rendering
  or process short.
- *Support.* `Keys` are the two things the code can ask about, `MaxRounds` its own
  limit, and `Jobs` two: one handler waiting while another goes by. Two users are
  a requester and a resolver.

The runs other than `stock` say `CHECK_DEADLOCK FALSE`: their instances run out of
identifiers, movement rows, turns or activities. `stock` checks deadlock.

No liveness is stated for inventory, knowledge and support threads: every step
is a user's action or waits for a model or a process that may never answer, and
no fairness is assumed in those modules. `BuilderWorker` assumes weak fairness of
the worker's steps outside `MayHang` and of nothing else: `run_forever` polls for
ever, the calls of the store, GitHub and Slack have timeouts, and
`builder-worker.service` restarts the process. The phases in `MayHang` may stay for
ever: `workspace.py` runs git without a timeout, and the timeouts of the harness and of
the validation end the shell but not what it has started, whose open pipes
`subprocess.run` goes on to read. A process that stops (`Stop` is not fair, and may
happen in every turn) does not take up the turn it stopped in. So
`TurnsEndUnlessStuck` says that a turn ends, or the process stopped in it, or the
worker stays in such a phase from some moment on, and that nothing else keeps a turn
from ending. `ProgressCard` assumes that a call once begun returns or raises
(`Publish`), that a heartbeat told to stop gets its turn (`EndHeartbeat`), and that a join returns once its
thread has ended (`Joined`): calls have timeouts and threads are scheduled. It
does not assume that an operation ends, that a heartbeat's wait times out, or that
a join ever gives up.

## What the runs found

- `receipt_applied_twice`: a receipt whose confirmation ended between its two
  transactions is confirmed again and receives serialized units twice.
- `builder_failed`: a turn that fails after its push (GitHub's answer lost, the
  result not recorded, the report not posted) is marked failed and reported as
  "stopped without publishing the change".
- `builder_redelivered`: a message delivered again after a restart of the Slack process
  becomes a second turn, against `docs/BUILDER_TRUSTED_INGRESS.md` line 50 ("One Slack
  message cannot produce two Builder tasks after reconnect/redelivery.").
- `stale_card`: a heartbeat whose Slack call outlasts the join of two seconds
  updates the card after the turn has ended, and the thread keeps saying that work
  is going on, against `docs/BACKGROUND_ACTIVITY_UX.md` line 13.

Also met while modelling, each visible in the models as they are:

- *Quantity stock.* Confirming a staged count does not look at the location again,
  so a location deactivated in between holds stock. A reservation of a deactivated
  customer can neither be issued nor, for want of a command, be released.
- *Receiving.* Documents that leave line ids to the parser collide in a table whose
  key is global, and so do default row ids of two delivery notes. A serialized unit
  received again by a repeated confirmation loses its place and its holder, even when
  it was disposed of, without the movement row that `docs/INVENTORY_ARCHITECTURE.md` line
  115 promises ("Every successful transition writes a **movement** log"). A receipt whose
  confirmation was interrupted can be cancelled with the answer that the inventory
  was not changed; a serialized row without a line id is received on the order
  without an asset.
- *Assets.* An investigation that outlives its asset's retirement or disposal, closed
  as a confirmed loss and recovered, brings the asset back into use, which
  `docs/INVENTORY_ARCHITECTURE.md` line 90 ("Written off / disposed") does not foresee. A dedicated asset can
  go to quarantine without a return; a recovered asset can never be disposed of,
  since its latest loss case is not written off; with two investigations of one
  asset the second loss case can be written off while the asset is back in use; a
  relocation writes no movement row.
- *Audits and service.* An asset received at or moved to the audited location after
  the audit was opened is reported "misplaced" there; a finding that is reopened
  after its correction cannot be corrected again, only resolved; an open service
  case survives the disposal of its asset.
- *Builder.* A turn the worker process stopped in stays `running` for ever, and its
  worktree makes every later turn on its branch fail; `cancel` answers "Cancelled"
  also when the worker claimed the turn in between; a follow-up queued before the
  first turn of its thread has published, or while GitHub cannot be asked, opens a
  second pull request; a git command that does not return keeps every later turn
  waiting; a push may go to a pull request that was closed since it was
  looked at; in a thread, `cancel <id>` is wrapped in the thread context and
  becomes a new turn. A card whose timestamp could not be stored is followed by a
  second card.
- *Knowledge.* A publication that fails half way has advanced the catalog: the card
  asks to retry (`bot/knowledge_edit_decisions.py` lines 223 to 233, "was not
  intentionally advanced"), the retry finds the request stale and says that
  nothing was published, while the text is active. Publications of the two
  processes that overlap can leave superseded chunks searchable or delete active
  ones, and a later publication deletes only what is recorded. Drafts are
  written from whatever the index holds. A request stays `drafting` for ever when
  the process stops under its draft or the card cannot be rendered. A stale card
  has no button to dismiss it although the handler would accept one. Feedback that
  was applied is not offered again after a later draft replaced it. Confirming a copy
  of the original upload reverts an edited article: uploads expect no version.
  Two staged copies of one file share a local path, so cancelling one makes the
  other fail. A confirmation says "could not commit" when only the incidents
  failed to be indexed. A review is attached to the version active when it is
  requested, not to the one the card showed.
- *Support.* Any reply by anyone is consumed as the answer to the pending question,
  which nobody may have seen because posting it failed; a button of an older
  question clears another one that is pending, which may then be asked again; a
  handler that waits at `bot/frontend_support_app.py` line 314 goes on to ask, to search
  and to post after the thread has been sent away, and a reply in such a thread is
  still taken for an answer and answered, against line 285 ("I'll stay out unless you
  call me back in.") and `docs/FRONTEND_SUPPORT_WEEKEND_MVP.md` line 25 ("The assistant
  acknowledges once, then continues capturing the thread without proactively
  replying."); a knowledge task keeps the
  resolution it was opened with when a later one is captured; a capture prompt
  is posted in a thread the assistant was sent away from.

## Theorems

TLAPS checks them for every value of the constants, that is, for any number of
rows, users, handlers, failures and so on. In each module the invariant is a
conjunction of named parts, one lemma per kind of step preserves it, and the
theorems follow from it. Type correctness is one of them in every module, so no
run spends a property on it.

`QuantityStock_proofs`:

- `TypeCorrect`: `Spec => []TypeOK`.
- `ReservedMatchesReservations`: `Spec => []ReservedIsHeld`. The column is an
  accumulated figure and the property a sum over rows, so each operation needs
  `TotalAdd` or `TotalRemove` for the row it opens or closes and
  `TotalSameWeights` for all other positions. The totals are cardinalities, and
  only of finite sets; that the held rows are finite is part of the invariant.
- `NoOversell`: `Spec => []ReservedCovered`. Its invariant is `TypeOK`, the two
  facts above, and the property itself; a step that leaves `DirectCounts` empty
  found it empty, because applied counts are never removed.
- `LedgerExplains`: `Spec => []LedgerExplainsStock`, and `CountsApplyOnce`: `Spec =>
  []StagedCountsApplyOnce`. Their invariant, `Books`, adds that every adjustment row
  refers to a count row that exists (`RowsRefer`): the sign of a row is read from
  its count, so the ledger says what it said only because count rows are written
  before and never rewritten. `LedgerGrows` is the one lemma about what one more
  row does to the replay; each operation then only says which row it writes.
- `StockImplementsClaims`: `Spec => ImplementsClaims`, the whole refinement: each
  operation is a step of `StockClaims` or leaves units and claims alone.

`Receiving_proofs`:

- `TypeCorrect`, `NothingOverReceived`, `GoodsAtActiveLocations`, `ConfirmedOnce` and
  `PutAwayForGood` hold of every behaviour, for any documents. The invariant `Records`
  says that receipts and lines have their orders, lines come from the document of
  their order, and goods from a delivery and a line of their kind; `Applied` adds
  that deliveries belong to receipts that are confirmed or stopped. `ReceiveShape`
  says what one delivery does to a line, and rests on `Accepted`, a total over the
  rows of a note.
- Under `LineIdsApart`: `StatusFollowsLines` and `AwaitedStayActive` (the second needs
  the first, since `DeactivateSupplier` looks at the status of an order and not
  at its lines), `ReceivingFulfils`, the whole refinement of `OrderFulfilment`, and
  `GoodsStayAccounted`: never more is in the inventory for a line than was received
  on it, and for quantity lines exactly that.
- Under `LineIdsApart` and `SerialsNamed`: `GoodsMatchOrders`, that is
  `GoodsMatchUnlessStopped`, with confirmations ending half way anywhere.
- `AcceptedDeliveryCompletes`: a delivery accepted without an exception leaves no
  line of its order awaiting goods. No run checks it; it ties `Discrepancies` to what
  is posted.

`LineIdsApart` (orders whose documents share no line id) and `SerialsNamed` (every
serialized row of a note names its line, alone) are not enforced by the code. Where
they fail the properties do: the colliding line ids and the serialized row without
a line are described above. `MCReceiving` states both as an assumption that TLC
evaluates, so every instance checked is one the theorems speak of.

`AssetCustody_proofs`:

- `CustodyTypeCorrect`: `Spec => []TypeOK`. `TypeOK` alone is not inductive: a
  recovery writes `assets[losses[i].asset]`, which is a row only because the
  loss case came from a confirmed investigation of a reported asset. `CasesSound`
  says that, that an investigation has at most one case, and that an approved
  case was approved by someone else; `TypeOK /\ CasesSound` is inductive.
- `StepKinds` then sorts every step into four kinds (nothing happens to assets,
  a receipt, for the first time or again, a relocation, a move to a *proper* row), and
  the invariants follow from what each kind writes: `HoldersAreActive`, `PlacesAreActive`,
  `MovementsExplain` (with `ChainExtends`, the one lemma about sequences).
- `LostCanBeRecovered` and `DisposalsAreEvidenced` rest on `StatusChanges`: only
  the closing of an investigation makes an asset lost, only `Dispose` disposes
  of it.
- `CustodyImplementsLedger`: `Spec => ImplementsLedger`. Every step that changes what
  audits and service cases see of an asset is a change `AssetLedger` allows for, or
  the relocation that `AssetAudit` models itself: only retired assets are disposed of,
  where they are, and only a confirmed loss or a repeated receipt takes one out of
  that state. So what
  `AssetChecks_proofs` shows on the ledger holds on the assets of `AssetCustody`.

`AssetChecks_proofs`: `ChecksTypeCorrect`, `FindingsAgree`, `FindingsAreFinal`, and the
action properties `FindingsStay` and `RelocatesOnce`; also `StatusIsExplained` and
`CasesAreAlone`, which no run spends time on. Findings can only be held against the snapshot because scans and snapshot do not change after
the closing, which is part of the invariant; that a misplaced finding exists only
for a scanned asset rests on `LastScan` existing, a fact about finite sequences.
`FindingsAreFinal` adds `FindingsAreTheResult` itself to that invariant: a decision
about a finding leaves it there, and whatever has findings is closed (`RecordedStands`).

`SupportThread_proofs`: `ThreadTypeCorrect`, `QuestionsEnd` and `CapturesAreSound`. The invariant `Sound` adds what the handlers rely on across their awaits: the
number of questions asked is the round that is stored, a shown prompt has a
resolver behind it, a handler waiting after a capture has a captured row, and the
requester and the resolver have taken part.

`ProgressCard_proofs`: `CardTypeCorrect` and `EndStaysShown`. The invariant
(`Orderly`) says which threads may be inside a call when nothing failed and no join
timed out: the main thread outside its activities, the heartbeat of the present
activity inside it; so there is one card at most, and whoever is about to send has
read its timestamp as it still is.

`ArticleEdits_proofs`:

- `EditsTypeCorrect`, `OneVersionIsActive`, `SearchFindsActive`, `DraftsMeet`. The
  invariant is `CatalogSound` (types, one active version, and `InStep`: what index
  and record hold in each phase of an undisturbed commit), `FilesSound`,
  `EditsSound` (each request with its draft and its reviews) and `Landing` (what
  the frontend is committing has landed).
- `EditsImplementRevisions`: `Spec => ImplementsRevisions`, the whole refinement. A
  registration is the abstract `Land` or `Overwrite`, and the comparison in
  `register_version` is what makes it a `Land`.

`BuilderWorker_proofs`: `BuilderTypeCorrect`, `PublishedWasVerified`, `PushesStay`,
`SuccessNames`, `WorktreesGo`, and `ImplementsQueue`, the refinement of
`TurnQueue`. The invariant relates the table (a continued branch belongs to an
earlier turn of the thread), the worker (the turn it works on is running, its
target is one `Resolve` may choose), the worktrees and the validation. `NewTurn`
takes the latest turn of a thread; that a nonempty set of turns has a latest one is
not in the library in a form the provers can use, and is derived from the
well-foundedness of the order on naturals. `OneTurnPerMessage`: under
`NoneForgotten`, that is, while the Slack process remembers every message
(`SeenLimit`), a message becomes at most one turn for each run of that process, and
`OneTaskPerMessage` holds as long as it has not been started again: the restart of
`builder_redelivered` is needed. Its invariant, `Counted`, is a budget: the turns of a
message, those its handlers may still add, and one while no run of the process has
seen it.

Assumptions: the constants' assumptions named in the modules, that is, the
bounds are natural numbers, every text has a batch, the tables of receiving are
finite and their identifiers of different kinds distinct, documents and notes
are well formed, and `None` is none of the values it is told from. TLC
evaluates them in the runs, and `LineIdsApart`, `SerialsNamed` and `NoneForgotten` with
them.

Only model-checked: the two liveness properties, `TurnsEndUnlessStuck` and
`HeartbeatsEnd`, which are out of the prover's reach, and the four violations. Every
invariant, action property and refinement that a passing run checks is a
theorem.

## Not modelled

Parsing, formatting, OCR, barcodes and the wording of answers; timestamps,
notes and references no guard reads; reorder rules, ageing and overview
reports; `state_machine.py`, which nothing but its test uses; the tree of
locations and the creation of master data. Retrieval, ranking and the extraction
of support evidence, which compute with floating-point scores and text and keep
no state others race for. What the language models answer, and what the coding
harness does in its worktree, which are free choices. The comments by which users
propose an edit, and that one reviewer answers a review once. Backups, reports,
start-up and access control. `PROJECT.json` gives the reason for each component.

The models take single SQLite statements and transactions as atomic and durable,
and one update of the vector store for a batch as atomic.

## Plan

1. `QuantityStock`, `StockClaims`: done.
2. `Receiving`, `Reconciliation`, `OrderFulfilment`: done. Resolving and reopening
   receiving exceptions is left.
3. `AssetCustody`, `AssetChecks`: done; the two meet in `ImplementsLedger`.
4. `BuilderQueue`, `BuilderWorker`, `TurnQueue`, `ProgressCard`: done.
5. `KnowledgeCatalog`, `ArticleEdits`, `ArticleRevisions`, `SupportThread`: done.
   Edit proposals in comments and the one answer of a reviewer are left.
