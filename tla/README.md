# Formal models of the Thetavas WhatsApp order bot

The backend under `src/backend/app` receives Shopify and WhatsApp webhooks,
sends template messages through an outbox, turns button taps into Shopify
mutations, and is driven for the rest by jobs that are called over HTTP. It
runs as short serverless invocations over one Postgres database: there is no
long-lived process, no transaction spans a database statement and a remote
call, and any invocation may be killed between two awaits. That is where its
hard behaviour is, and what the modules here are about.

## Inventory

| Component | Source (under `src/backend/app`) | State | Operations | Hard behaviour | Correct when |
|---|---|---|---|---|---|
| Outbound queue | `jobs/outbox_drain.py`, `store/postgres.py` 1158-1531, `core/send_policy.py` | `outbound_messages` | enqueue (dedupe key), claim in bulk, claim by id, send, mark, bump | overlapping drains and inline sends, kills, lost answers, stale reclaim | claims are exclusive, settled rows stay settled, copies are accounted for, every row settles |
| Order buttons | `core/order_actions.py`, `core/order_resolver.py` | `order_mappings.status`, `order_actions`, tags at Shopify | confirm, cancel, cancel-confirm, abort | decisions on an order fetched earlier, best-effort tag, async `orderCancel`, a tap is delivered once | nothing false is recorded or said of the order |
| Cancellation job | `jobs/reconcile.py` | the same status | claim, fetch, tag, close, audit, notify, release | overlapping runs, crash between writes, reclaim | no false `cancelled`, no repeated notice, every cancellation is settled |
| Reminder sweep | `jobs/reminders.py` | none of its own | find unanswered, enqueue | the stamp it relies on is written late | one reminder, and only for the unanswered |
| Delivery receipts | `core/apply_status.py`, `core/delivery_status.py`, `core/delivery_retry.py` | `delivery_status`, `template_wamid`, `retry_count` | apply, resend, give up | reordered and repeated receipts, a receipt before its row knows the wamid | a copy's status only moves forward, one resend per failure, no failure is forgotten |
| Delivery confirmation | `jobs/delivery_confirm.py`, `core/delivery_outcome.py` | `pending_delivery_confirmations`, `fulfillments.shipment_status` | park, sweep, send, abandon | overlapping sweeps without a claim, courier answers that change | a returned parcel is not congratulated |
| Order mirror | `store/postgres.py` 638-740, `channels/shopify_orders.py` | `orders`, `customers`, `order_items`, `fulfillments` | upserts behind `updated_at` guards | late, repeated, reordered webhooks | transactions statement by statement do what atomic, guarded writes do; line items match their header |
| Webhook intake | `channels/shopify_webhook.py`, `channels/whatsapp.py` | `processed_webhooks`, `processed_messages` | dedupe, dispatch | recorded before processed, shared time budget | an event acts at most once |
| Conversation engine | `core/conversation.py`, `agents/*` | `conversations`, `messages` | turn, pause, hand off, manual reply, resume | the pause is read before the model is asked; redelivery; kills; erasure of the chat in use | a promised hand-over is held, only turns in flight talk over it, answers are single and on record |
| Size exchanges | `agents/exchange.py`, `core/exchange_eligibility.py` | `exchange_requests` | create once, admin transitions | concurrent turns | one request per order |
| Shopify client | `shopify/client.py`, `shopify/token_manager.py` | the token and its expiry | query, retry after 401, grant | processes that share no lock | a token is used with its own expiry |
| Controls | `admin/controls.py`, `config/service.py` | `app_config` | load, save | saved key by key | a reader sees one version |
| Erasure, retention | `store/postgres.py` 1177-1310, `jobs/retention.py` | all tables | delete by phone, purge by age | invocations that hold deleted rows | nothing of the customer is left, or comes back |
| Admin chats page | `admin/router.py` 720-1281, `admin/static/chats.js` | the loaded list, its cursor and flags; the open thread, its pane and snapshots | page, search, load older, refresh, poll, open, reply | answers for a list or thread no longer on the screen | every thread is listed, the button comes back, the poll misses no entry |
| Other admin views, agents' prompts, providers, theme, scripts | `admin/`, `agents/`, `providers/`, `theme/` | - | - | - | not modelled |

How they interact. The `orders/create` handler writes the mapping and the
outbox row in one transaction and then sends that row inline. The drain, the
backstop, sends whatever is left. A sent confirmation stamps the mapping
`template_sent` and puts buttons into the customer's hands. A tap reads the
order from Shopify, tags it and writes the mapping. The job reads the mapping,
waits for Shopify, tags, closes and notifies. The reminder sweep reads the
mapping and feeds the outbox. All of them write `order_mappings.status`
with the same unconditional `UPDATE` (`set_mapping_status`), and that shared
variable is where most of what the comments promise too much comes from (see
"What the code's comments promise"). Fulfillment webhooks write the mirror and
park deliveries for the sweep; the sweep and the order-tracking agent write the
same `shipment_status`. A customer's text runs a turn of the conversation
engine, which may book an exchange, pause the chat and alert the owner; the
owner answers from the chats page, which polls the same tables. An erasure
deletes rows under all of them.

`PROJECT.json` lists the hazards at the line where each bites, with the
properties that would catch it.

## Modules

| Module | What it is |
|---|---|
| `Notification` | abstract: what the outbox promises about one notification |
| `Outbox` | the queue, its workers, the provider and the kill switch |
| `MCOutbox` | its instances for TLC |
| `OutboxProofs` | theorems about `Outbox`, and that it implements `Notification` |
| `ShopifyOrder` | what the order's actors share: the order at Shopify, the mapping's status, the audit rows |
| `OrderActions` | `dispatch_button`: the taps |
| `Reconcile` | `run_reconcile_cancels`: the runs |
| `Reminders` | the sends' stamps and `run_send_reminders` |
| `OrderLifecycle` | the composition of the four, its fairness and its properties |
| `MCOrderLifecycle` | its instances for TLC |
| `OrderLifecycleProofs` | theorems about `OrderLifecycle` |
| `Receipt` | abstract: the status of one copy of a message |
| `DeliveryReceipts` | receipts, the statuses they write and the resends they trigger |
| `MCDeliveryReceipts` | its instances for TLC |
| `DeliveryReceiptsProofs` | theorems about `DeliveryReceipts` |
| `Mirror` | abstract: the order mirror's four tables and writes that happen at once |
| `OrderMirror` | the same writes and the erasure as READ COMMITTED transactions, statement by statement |
| `MCOrderMirror` | its instance for TLC |
| `OrderMirrorProofs` | theorems about `OrderMirror` |
| `DeliveryConfirm` | parked deliveries, the sweeps, the assistant's live look-up, the fulfillment webhooks |
| `MCDeliveryConfirm` | its instances for TLC |
| `DeliveryConfirmProofs` | theorems about `DeliveryConfirm` |
| `SizeExchange` | the exchange requests and what may become of them |
| `Helpdesk` | abstract: what the assistant promises a customer who writes |
| `Conversation` | one customer's chat: turns, staff, erasure (uses `SizeExchange`) |
| `MCConversation` | its instance for TLC |
| `ConversationProofs` | theorems about `Conversation`, and that it implements `Helpdesk` |
| `ThreadList` | the chats page's list: the server's pages and the browser's loads |
| `MCThreadList` | its instance for TLC |
| `ThreadListProofs` | theorems about `ThreadList` |
| `ThreadView` | the chats page's open thread: reads, poll, what is drawn |
| `MCThreadView` | its instances for TLC |
| `ThreadViewProofs` | theorems about `ThreadView` |

A definition whose name begins with `Broken` is its neighbour with a plausible
bug. No action uses it; it is there so that each property can be shown to fail
when the code has that bug (`PROJECT.json`, "mutants").

### Outbox

A worker is one invocation: a webhook handler or an admin resend that queues a
row and sends it inline (`Ingest`, `StartInline`, `ClaimOutboundById`), or a run
of the drain (`StartDrain`, `ClaimQueuedOutbound`). Its `pc` names the await it
is at; `batch` is what it holds; `mode` is the kill switch as it read it when it
started. `send_one_outbound` is split where it awaits: `StartSend`, the
provider's verdict (`Provider`: the message is accepted *before* the worker
hears of it), then `MarkSent` and `SetTemplateSent`, `RetryImageless`,
`MarkUndeliverable`, `BumpRejected` or `TransportError`. `TransportError` and
`Abort` are possible at any verdict: that is a lost answer. `Abort` is also the
3-second `asyncio.wait_for`, a database error and the platform's kill.

Dedupe keys are model values. Families of keys are the constants `Confirmation`
(the rows whose send stamps the mapping), `Corrupt` (`_gid_from_dedupe_key`
gives nothing), `Unrenderable` (`parse_payload` gives nothing) and `WithImage`.
Wall-clock time is the set `stale`: a `processing` row that no live invocation
holds may become ten minutes old (`BecomeStale`). That a *held* row does not is
an assumption, the one the code's own comment makes: five rows of two sends of
20 s are 200 s, and an invocation does not survive 600 s.

### The order's life

A tap's `tapPc`, a run's `runPc` and a message's state name the next statement
or remote call; between two of them anybody else moves. The order is fetched
once per tap, so `HandleConfirm` and its siblings decide on the order as it is
in that step, and what follows rests on it. `AddTags` and `CancelOrder` have the
three outcomes a remote call has: done, refused, and unanswered, in which case
Shopify may or may not have done it. A tap is `record_if_new`'s one delivery:
`CutOffTap` drops it and nothing takes it up again. `dispatch_button` turns a
database error into the fallback copy, with no audit row; that is `CutOffTap`
too. Tags are one per list of `AdminControls.tags`; the mapping row exists from
the start (`InitOrder`), since nobody acts on an order before its ingest.

A reconcile run claims with one statement (`ClaimAwaiting`); the release, the
tag, the status, the audit row and the notice are steps of their own. `aged`
stands for the age of `updated_at`, which both the ten-minute reclaim and the
reminder's one-hour window read.

`Reminders` keeps of the outbox what touches the mapping: a message is accepted,
and its stamp lands later or never. That abstraction is justified by `Outbox`:
`SetTemplateSent` is a step after `MarkSent`, with `Abort` between them. A row
that is sent twice stamps twice there and once here; a second stamp only repeats
what the first (and the reminder's) already show.

### Delivery receipts

A hook is one webhook invocation at work on one receipt; its `pc` names the next
statement. `apply_*_delivery_status` is two statements, and is two steps: the
existence check (`Lookup`, which goes through both tables) and the guarded UPDATE
(`Apply`, whose WHERE clause is `Guard`). An "applied" failure goes on to
`GetRetryInfo`, the resend (`ResendFails`, or `ResendAccepted` with its answer or
without), `RecordRetry` or `BurnRetry`, `MarkUndeliverable` and `AlertOwner`.
`CutOff` is a kill or a database error at any of them: the webhook acks 200 in
either case, so the receipt is not delivered again on that account.

Rows are of `outbound_messages` (`Templates`) or of `messages`, some of them typed
by the owner (`Manual`). The n-th copy of row k that the provider accepts has the
wamid `<<k, n>>`, and `wamid[k]` is the n the row knows. The provider decides of
each copy whether it arrives; what it may then report (`Reports`) any hook may
receive at any time, any number of times or never: that is loss, repetition and
reordering. `"other"` is a status the code does not know. The queue's own
repeated sends are `Outbox`'s; here a row is first sent once. Error codes, which
payloads cannot be rendered and what becomes of the owner's alert are left out:
each is one of the outcomes of a step.

### The order mirror

A writer of `OrderMirror` is one webhook invocation or one order of the backfill;
its record in `tx` says which statement is next and what its guards said. Rows a
transaction wrote, or evaluated its `ON CONFLICT ... WHERE` on, are locked until
it commits or rolls back (`FreeCustomer`, `FreeOrder`, `FreeShip`), and what it
wrote is seen at its commit. `CutOff` is a kill or an error at any statement.
`customers/update` and `fulfillments/*` are a check and an upsert in two
statements. The erasure takes its rows and locks in the order of
`delete_by_phone`; `BreakDeadlock` is the detector's choice of a victim. A
*version* is a state of an order Shopify reported once; any version may arrive at
any time, any number of times, which is loss, repetition and reordering.
`ImplementsMirror` is the module `Mirror` itself, over the same tables: no
refinement mapping is needed, since a transaction's writes show at its commit.
The reads of the mirror (several statements outside a transaction, so that a
header may be read with another version's items) are not modelled.

### Delivery confirmation

A sweep's record holds the rows of its batch still to do, those it found too old,
and the row it is at. `ReadRow` decides what the stored row decides, `FetchTracking`
takes one of the classes of the courier's page (delivered, returned, moving,
unreadable), `AskShopify` takes any answer, and `Enqueue`, `Mark` and
`StoreStatus` are the three statements that conclude, in the order each branch has
them. Any of the row's statements may fail, which leaves the row to the next
sweep. The page only moves from "moving" to one of its ends. `guessed` observes
which shipments were concluded from Shopify's word alone. An erased order is not
mirrored again here.

### Conversation

A handler is one delivery of a text by Meta; its `pc` names the next await. The
controls are read key by key, so the gates come out either way; the classifier
and the model give any answer, of which only what the code acts on is kept: book
an exchange, hand over, reply. `AppendUser`, `AppendReply`, `SendText` and
`AlertOwner` are statements of their own, and `CutOff` is the turn's 55 s deadline,
a kill or an error at any of them. The staff's manual reply is store, send, pause.
`conv` is the id of the customer's row: an erasure ends it, later texts get a new
one, and turns keep the id they loaded. The wamid's storage is
`DeliveryReceipts`'; the unread stamp of a hand-off is not modelled.

`Helpdesk` is the contract without the awaits: texts are taken, said, answered and
told of one at a time, and the chat is held, given back and erased as a whole. It
promises more than the invariants do: that a reply is only ever recorded after its
text, and that what is on record goes only with the whole chat.

### The chats page

`ThreadList` is the server's page and the browser's state together. A request
reads its sources one statement after another (`ReadSource`), while rows arrive
(`Activity`); `AssemblePage` unions, orders and cuts, and `Boundary` gives the
cursor. What a source's statement goes over is an *entry*: a phone, or, in the
source that only a search asks, a mirrored order, which brings up two phones, the
buyer's and the recipient's, with the one stamp Shopify gave it. `messages` is
`conversations.last_active_at`. The browser's loads are the requests on their
way, each carrying the search it was asked for: first page, automatic pages,
"Load older", and the first page again. The timer's poll and the Refresh button
are one action (`RefreshFirstPage`): the button has no in-flight guard, so beside
a poll any number may be under way. What the code guards by generation and what
it does not is kept apart by the observer `crossed`: "Load older" checks no
generation, so its answer may be merged into another search's list, and such a
list is excepted from `WholeHistoryListed`. So is a row whose stamp is not its
phone's alone (`owners` keeps every phone a stamp was ever on): see "What the
code's comments promise".

`ThreadView` keeps of a thread three versions: `log` moves with every entry
(message, notification, tap, photo), `panel` with its orders, exchanges and pause,
`ticks` with the delivery status of entries already there. The activity signature
sees the later of the first two (`CompareActivity`), `threadEntriesKey` the first
and the third (`CompareEntries`). A read is served in steps, `MarkRead` last; its
queries before that are one step, which loses nothing: the signature is remembered
before the thread is read, so whatever a later query sees in addition is newer than
what the poll believes to have seen. `pane` is what is drawn, of which thread:
`ShowThread` draws every answer as `loadThread` does, whichever thread is open
and whatever was drawn since. `overdrawn` observes an answer drawn out of turn,
until the open thread is drawn up to date again; `lost`, a thread of which a read
or its mark failed since its last entry (the signature is remembered before the
read, so the next tick finds it unchanged). `NothingMissed` says when the poll may
stop asking, with these two exceptions; it is about entries, since the panel is
the subject of `view_stale`. The operator's reply is `Conversation`'s; here its row
is a `NewEntry`, its pause a `PanelChanges`, the mark of a failed send a
`StatusChanges`, and the load that follows a `LoadThread`.

## Runs

| Run | Shows | Result |
|---|---|---|
| `outbox_safety` | types, `ExclusiveClaim`, `CopiesAccounted`, `RetriesSpent`, `TerminalStays`, and `Outbox` implements `Notification` | holds |
| `outbox_liveness` | `EveryRowSettles`, on condition that somebody goes on invoking the drain | holds |
| `order_cancel` | types, `StatusBacked`, `NoticesAccounted`, `AuditTruthful` with two cancelling taps and two runs | holds |
| `order_liveness` | `CancelSettles`, and `StatusBacked` with a confirming tap against a cancelling one | holds |
| `receipts` | types, `ReportTruthful`, `OnlyFailuresResent`, `NoFailureForgotten`, and `DeliveryReceipts` implements `Receipt` | holds |
| `mirror` | types, `OneVersion`, and `OrderMirror` implements `Mirror`; deadlock is checked | holds |
| `confirm` | types, `VerdictsTruthful`, `SentIsDurable`, `TerminalStays` | holds |
| `confirm_live` | `EveryParkedRowSettles` behind a full batch of older rows | holds |
| `chat` | types, `PromiseKept`, `AnsweredOnRecord`, `ErasedStaysErased`, `ExchangeOnce`, `OnlyTurnsInFlightTalkOver`, and `Conversation` implements `Helpdesk` | holds |
| `threads` | types, `WholeHistoryListed`, `CursorDescends`, `ButtonComesBack` | holds |
| `view` | types, `NothingMissed` | holds |
| `view_stale` | `OneOfThemFollows`: that at least one of two comments, on the ticks and on the panel of an open thread, is right | violated |

The order runs, `confirm`, `confirm_live` and `chat` say `CHECK_DEADLOCK FALSE`:
their taps, texts, parked rows and erasures are finite, so when all are done the
system does stop.

### Bounds, and why they are enough

- `outbox_safety`: two workers are the least that can race for a row, and each
  claim, reclaim and update touches one row, whose holder is what matters. Two
  rows: one queued by a webhook, with an image and a mapping, and one of the
  backlog, so that a bulk claim holds two. `MaxAttempts` is 2 (5 in the code):
  one retry and the last attempt. `ClaimLimit` is 2 (5). One abort
  (`MaxAborts`), on top of any number of transport errors the attempts allow.
- `outbox_liveness`: one worker, three rows, so that the legacy and corrupt
  rows are there; `ClaimLimit` 2 leaves a row for a later drain.
- `order_cancel`: one order (no step touches two, and runs treat their orders
  one by one), the tap that asks, two that cancel, two runs, `MaxFaults` 2. A
  fault is a failed or unanswered call, a kill, a failed release, a failed
  cancellation job, a cancellation by staff or a redelivered webhook.
- `order_liveness`: the confirming tap against the cancelling one, one run and two
  faults, so that a crash can follow a failed release.
- `receipts`: a template and a manual reply (a receipt touches one row, so the two
  only share the hooks), two hooks, `MaxRetries` 2 (3 in the code): a resend of a
  resend, and the last. The number of receipts and of cut-offs is not bounded.
- `mirror`: two orders of one customer, one of them under the number to be
  erased, two versions each with and without stamps, a guest order that gets its
  customer later, a fulfillment that only the backfill brings; two writers. A
  guard relates two transactions, and the erasure is a third party.
- `confirm`: one shipment (a sweep treats its rows one by one), two sweeps, a
  turn and a webhook, any number of rounds of each. `confirm_live`: two rows
  already parked and a batch of one (50), the least where the older row keeps the
  younger out.
- `chat`: two texts, two handlers, redelivered without limit, a manual reply, one
  erasure (`MaxErasures`): the chat before it and the one after.
- `threads`: pages of one thread (50) over three phones and two orders, one of them
  with two phones, one of which nothing else in the search brings up; one layout of
  the rows at the start, in which every source is full once and a phone's rows
  straddle the cursor; new rows of one phone in one source (`Busy`, stamps up to
  6), two requests on their way (`MaxRequests`), two loads (`MaxLoads`), two
  automatic and two manual pages per run. Not in it: the NULL `updated_at` of
  orders mirrored before that column, which sort last and match no cursor,
  and raw ids that `normalize_phone` refuses. A phone with a row stored since the
  load began is exempt: it moves up to pages already read, and the poll of the
  first page brings it.
- `view`: two threads, two reads on their way, one delivery change, two new stamps,
  all in one thread: the other is the one the operator goes to and comes back from.
  One stamp orders entries and panel changes of all threads, which is finer than the
  signature's GREATEST of an order's Shopify time and the tables' own: a sync whose
  Shopify time lies before the thread's last stamp is a panel change that the poll
  does not even read, and `NothingMissed` does not speak of the panel. The limit of
  200 entries of a thread is left out. `view_stale`: one thread, one read at a time, one change of each kind.

The theorems below hold without these bounds.

### Fairness

`Outbox`: an invocation that is not cut off takes its next step, and time passes
over an abandoned row. Aborts are bounded, so some invocation gets through. That
the drain is invoked again and again is *not* something the code's scheduling
gives: `jobs/outbox_drain.py` (10-11) says that it is "currently WITHOUT a working
scheduler, so treat it as a manual backstop, not an automatic safety net", ADR-001's
amendment says the same, and `vercel.json` has no crons. It is therefore not part
of the fairness but a condition that `EveryRowSettles` states (`DrainIsInvoked`):
the property is what an operator who goes on calling the route can rely on. Without
that, a row the inline send leaves behind stays where it is. The other condition is
that the kill switch leaves `off` for good: with `off`, rows wait by design.

`OrderLifecycle`: an actor that is not cut off goes on, and time passes. That a
reconcile run starts again and again is an assumption: the repository calls the
path "never-reliably-scheduled" (`docs/FR/_pipeline_status.md`, 33), and the route
is all there is to call it by. Nothing is assumed of the customer,
of Shopify (a cancellation may stay pending for ever) or of the messages.
`CancelSettles` does not promise that the status *becomes* `cancelled`: a late
stamp may overwrite it.

`DeliveryConfirm`: the job is scheduled again and again, an assumption too: its
schedule is set up outside the repository, in the database's `pg_cron`
(`docs/FR/_pipeline_status.md`, 287). A sweep that is not cut
off takes its next step, and time passes (`Ages`). A sweep may be cut off any
number of times but not for ever (`SF` on the read of a row that is too old), and
the statement that abandons it is not refused for ever. Nothing is assumed of the
courier or of Shopify: a row nobody can decide is abandoned.

`ThreadList`: what a load that holds the button asks (automatic pages, "Load
older") is answered or fails, and the loop of the automatic load goes on. A load
that is superseded, the poll and the operator are not assumed to do anything.
`ThreadView` (`view_stale` only): the tab is visible, so the timer ticks, what is
asked is answered, and no read fails; even so ticks and panel stay stale.

## Proofs

All for every value of the constants, under the modules' named assumptions
(`OutboxAssumption`; `ShopifyOrderAssumption`, `OrderActionsAssumption`,
`ReconcileAssumption`; `ReceiptsAssumption`; `MirrorAssumption`;
`ConfirmAssumption`; `ConversationAssumption`; `ThreadListAssumption`;
`ThreadViewAssumption`), checked by TLAPS.

`OutboxProofs`. `TypeCorrect` is inductive by itself. `ClaimsAreExclusive` is
proved from an invariant that also says what a worker's `pc` and `cur` mean for
its `batch` (a worker that is not past its claim holds nothing; the row being
sent is one it holds), since the provider's verdict and the last UPDATE do not
mention the batch. `SettledRowsStay` follows: every UPDATE of the sender is for
a row it holds, a held row is `processing`, and `processing` is not terminal.
`CopiesAreAccounted` needs exclusiveness once more: only one worker can have the
answer of a row in hand, so writing it off or recording it changes the account
by exactly one. `RetriesAreSpent` strengthens `RetriesSpent` to rows not yet
queued (`AttemptLeft`): only a row in `processing` is bumped, which exclusiveness
gives, so a bump starts from an attempt that is left.

Last comes the refinement: `Refines` proves `ImplementsNotification`: under the
claim invariant a row in hand is pending and its answer is awaited by its holder
alone (`HeldRow`), so a settling UPDATE is `GiveUp` or `Confirm` of that row
(`SettleMoves`, `SentIsConfirm`), a lost answer is `WriteOff`, wherever it is lost
(`LossIsWriteOff`), and claims, reclaims and the second statement of a send are
stutters.

`OrderLifecycleProofs`. `TypeCorrect` comes with the fact that a run which is at
an order holds one (`AtHand`). `WhatIsSaidIsTrue` is strengthened with what each
actor is *about* to write (`AboutToWrite`): a tap at `confirming` has its tag at
Shopify, a run at `closing` a cancelled, tagged order; tags and cancellations
are never undone, so no interleaving takes that back. `AuditIsTruthful` ties each
tap's rows and observers to how far it has come (`RowsByProgress`).
`NoticesAreAccounted` is a counting argument (`NoticesOwed`): what is notified,
plus the runs about to notify, plus the order waiting in the mapping or in a
run's hands, never exceeds the cancellations taps wrote down. A finished
cancellation closes its account before the notice goes out, so a reclaim has
nothing to repeat. The comment at `reconcile.py:129-138` accepts a duplicate
notice after a crash; the theorem shows that a crash there loses a notice
(`SetCancelled` then no `NotifyCancelled`) or repeats only the tag.

`DeliveryReceiptsProofs`. `GuardsAgree` compares the SQL guard with
`should_apply_delivery_status` over all values. `ReportsAreTruthful` needs only
that a hook at work carries something the provider said of the hook's copy
(`CarriesReport`), since the UPDATE repeats the wamid. `ReceiptsInv` is the
argument for the rest: a hook past a fresh failure is the only one at its row
(`OneHandler`), because the UPDATE that let it pass made the row `failed` and no
second UPDATE passes over a failed row; `HookInv` says how many copies and
retries the row has at each of its steps, `RowInv` what is left when nobody is at
work. `ResendsOnlyFailures`, `FailuresAreNotForgotten` and the refinement
`Refines` are read off from it.

`OrderMirrorProofs`. The invariant `MInv` is about locks: two transactions never
hold one row (`Locks`), so what a guard said when its statement ran is what it
would say at the commit, and the line items to be deleted are all there are
(`CurrentAll`); what the erasure has deleted so far is still as it found it
(`Erasing`, `Linked`). `ItemsFollowTheirHeader` reads one conjunct of it. `Refines`
then goes step by step: every step but a commit leaves the tables alone, and a
commit is `Sync`, `UpdateCustomer`, `UpdateShip` or `Erase` of the abstract module
(`CommitIsSync`, `CommitEraseIsErase`).

`DeliveryConfirmProofs`. The invariant `DInv` says what each sweep and turn
carries is believed: a verdict or status in hand is backed by the page or by
Shopify's word (`Carries`, `Believed`), so it stays true however late it is
written, the page's ends being final. There is one lemma per action.

`ConversationProofs`. The invariant is `ChatInv`. A text is in one turn at most and
in none before it is recorded (`OneTurn`), is not answered before its turn's last
step (`Unanswered`), and what a turn has stored by now is in the chat as long as
that chat stands (`Stored`): together they give `OneAnswerOnRecord`. Rows are only
ever of the chat that stands (`RowsStand`), which makes `ErasureHolds` a matter of
ids that are never given out twice (`IdsInOrder`, `IdsCarried`). For
`HandoffSilences` the promise is traced back to the turn that makes it: past its
pause the chat is held, or the turn has lost it to an erasure or to a resumption
(`HandoverHeld`); the third case, a turn that has yet to store the text and whose
chat an erasure took, is the one without which the invariant is not inductive.
`HeldChatIsLeft` is an action property: in a held chat every turn past its look at
the pause is one of those that were ahead of it (`HeldBack`). `KeepsItsPromises`
proves `ImplementsHelpdesk`. The mapping forgets the turns, the staff's steps and
the erasure's two statements; of a turn only its text shows, while its handler is
ahead of the pause (`InFlight`), and of the rows who said what (`Said`), which loses
nothing since all rows are of one chat. `SendText` is `Answer`, with its guard read
off from `Stored`, `Unanswered`, `HeldBack` and `HandoverHeld` (`SendTextMaps`), a
pause of the chat that stands is `Hold`, an erasure that goes through is `Erase`, and
every step that only moves a turn on is `GiveUp` or a stutter (`QuietIsGiveUp`).

`ThreadListProofs`. `NothingLostBetweenPages` is the proof of the paging algorithm,
for any page size. A phone is *at rest* when it was not active since the load
began. What a request has gathered covers every phone at rest of the sources it has
read, unless it is behind a page's worth of later ones (`Gathers`); counting gives
that the page cut from it covers every such phone down to its own cursor
(`Answers`), although rows arrive between one source's statement and the next.
`Covered` then says of the screen that it lists everything at rest from the cursor
up, and everything when there is no more, and that an answer on its way starts
where the list ends. `LoadsInOrder` is why an answer of a superseded load cannot
count for the one that runs. `PagesDescend` needs `Descends`, which says the same
of what a request has gathered. Orders are covered
like the other sources, with both their phones. Nothing is assumed of the stamps: of a
row whose stamp was ever on another phone's row too (`owners`) nothing is said, since
the cursor's strict comparison may skip it. `OwnersKnown` keeps that observer in step.

`ThreadViewProofs`. `PollMissesNothing` says that the poll's two short cuts are
sound for entries. The invariant (`ReadOrder`) says of each that, when it would
pass, either the thread's last entry is on the pane or one of the two exceptions
holds (`Settled`), or a read is on its way that returns the latest entry
(`DrawnOrAsked`, `SeenOrAsked`); and that a read which is done and up to date has
marked its thread as read, and so has what was drawn from it (`ReadIsRead`). It
needs that one poll runs at a time (`OnePoll`) and that a stamp tells the thread it
was read from (`StampsUnique`), or the entries of one thread would do for another's.
When an answer that is not up to date is drawn over the pane, either it is out of
turn, or the pane was not up to date before and the read that the invariant speaks
of is still on its way (`ShowThreadKeeps`).

Every safety and action property that a passing run checks is stated by a
theorem. Model-checked only: the liveness properties (`EveryRowSettles`,
`CancelSettles`, `EveryParkedRowSettles`, `ButtonComesBack`), whose fairness the
prover cannot take. The maximum of a set, which `ThreadList` and `ThreadView` take
from the community modules as a CHOOSE, is shown to exist by well-foundedness of
the strict inclusion of finite sets (`MaxOfNumbers`, `MaxOfStamps`), since induction
over data is not available.

## What the code's comments promise

`view_stale` is a run of its own (see "findings" in `PROJECT.json`). It refutes two
comments of `chats.js` on the open thread at once, by one behaviour: a change of the
panel alone is read and dropped, then a change of the ticks alone is not even read.

- "without this the poll never detects a delivery/read change and the tick marks go
  stale on an open thread until a manual refresh" (974-976): they do, since the
  signature that is asked first does not move with them (`TicksFollow`).
- "without this the Resume-AI button could linger after the pause has actually
  lapsed" (1014-1017): it does linger, since the entries that are compared last do
  not move with the pause, an order or an exchange (`PanelFollows`).

The modules contradict some other comments too, by behaviours their specifications
allow; the properties above are what does hold instead.

- "only threads STRICTLY older than it, so the whole history is reachable page by
  page" (`router.py` 732-735): an order's two phones share its `updated_at`
  (`postgres.py` 1054-1066), so a page of a search that ends between them loses the
  second, unless something else brings it up. `WholeHistoryListed` exempts such rows,
  and any other two that share a microsecond.
- "never double-sent" (`postgres.py` 1366): a claim is not a send. A lost answer
  or a kill after the provider took the message has the row sent again;
  `CopiesAccounted` bounds how often.
- "a tapped order is excluded automatically" (`reminders.py` 12) and "so it is
  never lost" (`postgres.py` 1580): the late `template_sent` stamp overwrites a
  tap's status and a run's claim alike.
- "a racing second tap ... refuses a duplicate orderCancel" (`order_actions.py`
  247): each tap fetches the order once, before the other's tag. The tag is
  written before `orderCancel`, so it does not prove either that a cancellation
  was asked for (line 240).
- "two overlapping runs can NEVER both claim the same order" (`postgres.py` 1579):
  a second tap's status write puts a claimed order back. `NoticesAccounted` bounds
  what follows.
- "the existence check is race-free" (`postgres.py` 1413): a resend reassigns the
  wamid. The UPDATE repeats the wamid, so `ReportTruthful` holds.
- A returned shipment that the courier's page cannot tell is congratulated on
  Shopify's word; `VerdictsTruthful` has that exception and no other.
- `customers/update` after an erasure brings the customer back, linked from
  nothing (`shopify_webhook.py` 118). `Mirror` allows it.
- "incoming wins ... it carries the fresher" state (`chats.js` 692): an answer
  asked for earlier may arrive later, and the row stays as it says until the
  first page changes.

## Plan

Done: `Notification`, `Outbox`; the order's life; `Receipt`, `DeliveryReceipts`;
`Mirror`, `OrderMirror`; `DeliveryConfirm`; `SizeExchange`, `Helpdesk`,
`Conversation`; `ThreadList`, `ThreadView`; proofs of every safety and action
property of them, and of the four refinements.

Left:

1. `ThreadList` with the NULL stamps of orders mirrored before `updated_at` existed;
   the reply box of the open thread (draft, send, its guards).
2. The readers of the mirror between two syncs.
3. Pure operators: `estimate_delivery` and exchange eligibility, checked against
   reference definitions.

## Not modelled, and why

Signature and secret checks, payload parsing, template rendering and copy, the
agents' prompts and the language model, the settings, template and analytics
views of the admin panel, the storefront theme and one-off scripts: they keep no
state that interleaves, or are wording. The in-memory store is the tests' double
of the Postgres one; the models follow the Postgres statements. The token cache
(`shopify/token_manager.py`) is two writes that another process can read between;
the code answers a refused token with a refresh and one retry, and states nothing
that a property could hold it to. The nightly purge is one DELETE per table by
age. `Outbox`, the order's life and `DeliveryReceipts` assume that their rows are
not erased under them; the erasure is modelled beside the mirror, the sweep and
the conversation. `DeliveryReceipts` moves a sent row to `undeliverable` when its
resends are spent; `TerminalStays` of `Outbox` speaks of the queue's own steps.
`normalize_phone` is taken to give one phone for one customer; where two raw ids
collapse into one, the chats page's sources do too.
