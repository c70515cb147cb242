# SadarBencana: a formal model of its warning paths and its web client

SadarBencana collects hazard data and official warnings for Indonesia, scores
them, and tells subscribers about what concerns them. Most of the repository
fetches, converts and shows data. Two parts of it are modelled here:

* behind the API, the parts where a wrong interleaving means that a warning is
  lost, sent twice, sent after it was withdrawn, or sent by a source nobody
  approved;
* in the browser, the pages whose requests overlap, come late, fail or belong
  to an account that has left, so that a wrong order shows what was not read,
  not asked for or not allowed.

Everything is plain TLA+: specifications are checked with TLC on small
instances, and the central invariants are proved with TLAPS for every value of
the constants.

## 1. Inventory

### Components, their state and operations

| Component | Code | State | Operations |
|---|---|---|---|
| Lifecycle delivery queue | `apps/worker/alerts/lifecycle_delivery.py` | `ews_notification_log`, the claimed row of each process | enqueue, replay, expire, claim, send, mark, retry, acknowledge |
| CAP lifecycle graph | `apps/worker/db/official_alerts.py` (`bmkg_cap`) | `official_alerts` with identity, revision, current, status | ingest, reconcile, renumber the queue, expire |
| Other official revisions | same file, other sources | the same table | upsert, supersede, expire |
| Source control plane | `apps/api/internal/http/official_source_settings.go`, `official_source_onboarding.go`; `apps/worker/db/source_settings.py`, `main.py` | setting row, its versions, dry-run columns, shadow evidence, connector health, poll slot | update, rollback, dry-run, activate; resolve, poll, write, complete |
| Threshold alerts | `apps/worker/alerts/evaluator.py`, `dispatcher.py`, `db/alerts.py` | `alerts`, the rows of kind `alert` | evaluate, create, dispatch |
| AI usage limits | `apps/api/internal/http/ai_access.go` | `ai_usage_events`, two advisory locks | begin, finish |
| Quotas and organisations | `entitlements.go`, `personal_assets.go`, `contracts*.go`, `ews_channels.go` | counted rows | count, then insert |
| News signals | `apps/worker/news_alerts.py` | `alerts` by `geo_bucket` | select, insert or corroborate |
| Caches of the API | `response_cache.go`, `jwks.go` | entries and order; keys and time of the last refresh | get, put; lookup, refresh |
| Learning | `learning.go` | progress, points, streaks | complete a module |
| Loops of the worker | `apps/worker/schedulers/*.py` | task, stop flag, back-off | start, tick, stop |
| Connectors, normalizers, scoring, geography, read APIs | `apps/worker/connectors`, `normalizers`, `scoring`, `geo`; `apps/api/internal/http/operations_map*.go` ... | none worth a model | fetch, parse, compute, show |
| Executive overview | `apps/web/src/features/executive/ExecutiveOverview.tsx`, `components/RiskMap.tsx` | loads under way, what they brought, focus, replay; filters and page of the list | load, refresh, replay, click, search, filter |
| BMKG warnings | `features/executive/useBmkgWarnings.ts`, `BmkgWarningsPanel.tsx` | shared request, rows of three endpoints, their errors | load, retry, hide, show |
| Operational map | `features/map/OperationalMap.tsx`, `mapApi.ts`, `layers/*`, `MapDetailSheet.tsx`, `impactSummary.ts`, `CctvStreamPlayer.tsx` | viewport, enabled layers, revision of loads, private owner, themes, overlays, selection | move, toggle, load, apply, sign in and out, change the style, select |
| Briefings | `features/briefing/BriefingPage.tsx`, `apps/mastra/.../daily-briefing-workflow.ts` | the page's stream, its text, the steps of the workflow | load, start, receive, stop, fall back |
| Copilot | `features/copilot/CopilotPage.tsx` | messages, the request that can be stopped | ask, receive, stop, clear |
| Shell, session, login | `App.tsx`, `TopNav.tsx`, `AuthProvider.tsx`, `LoginGate.tsx`, `Turnstile.tsx` | section, menus, session, the gate and its one-time token | navigate, sign in, sign out, confirm, reset |
| Alerts page | `features/alerts/AlertsPage.tsx` | rows, counter, what is being acknowledged | read, acknowledge one or all, roll back |
| Source settings page | `features/settings/OfficialSourcesSettingsPage.tsx` | drafts, evidence, histories, busy source | load in two waves, edit, operate |
| User administration page | `features/settings/AdminUsersPage.tsx` | rows, search, busy row, question | search, block, delete, link |
| Early-warning page and the remaining pages | `features/ews`, `contracts`, `learning`, `evacuation`, ... | forms and lists | read, save |

### How they interact

* The API and the worker share nothing but PostgreSQL. A setting changed by the
  API is seen by a poll when it reads the row, and by a write when its
  transaction reads the row again.
* A poll of an official source hands every alert of the feed to
  `persist_official_alert_revision`: alert row, lifecycle graph and queue rows
  change in one transaction, under the advisory lock of the source.
* The queue is drained by `process_due_deliveries`, in any number of processes.
  The send transaction holds the same advisory lock while the provider is
  called, so containment, ingest and a send exclude one another.
* An ingest cycle upserts events, scores them, and evaluates alerts at its
  end; each new alert is dispatched to rows of the same queue.
* Operators act on all of it through endpoints: containment, channel switches,
  retry of a dead letter, rollback of a setting.
* A page of the browser and the API share nothing but requests. Between the
  click and the answer the page may be edited, hidden, left and opened again,
  and the account may change; most requests have no number, so that whichever
  answer comes last wins, and the exceptions (revisions of the map, the abort
  signal of a chat) are where the pages differ.
* Three parties of the browser know the account: the auth client, whose token a
  request reads when it is made, React's session, which an event sets later,
  and the map, which an effect tells later still.
* `App` hands a focus from one page to the dashboard, which hands it to one of
  two map engines; the engine may not be ready, nor the features be there.
* The stream of a briefing comes from the cache of the API, from the workflow
  of the Mastra service, or from a fallback text, under the limits of
  `ai_access.go`; the page applies its parts as they come.

### What is hard, and what must hold

| Component | Hard behaviour | Correct means |
|---|---|---|
| Delivery queue | claims in several processes, leases that run out, `now()` frozen before a lock wait, crashes around the send, containment at any moment | no send of a contained source or an older revision; at most one copy; withdrawals go to those who were warned; a row is settled in the end |
| CAP graph | messages out of order, a reference to something not yet seen, lifecycles that merge, queue rows that must follow | the table is a function of what is stored; nothing is revived; the queue follows; merged recipients are told |
| Control plane | a dry-run that calls the source without a lock, late polls of an older version, a slot that dies with its session | active only with what was proven; writes only by the version in force; a clean poll opens the gate; a due source is polled |
| Threshold alerts | overlapping cycles, an exception that ends a cycle, a fault between alert and dispatch | one row per target and alert; every event is alerted; only a fault loses a row |
| AI limits | count and insert behind locks with an older `NOW()`, lost leases | no minute, day or upstream over its limit |
| Quotas | count and insert in different statements or snapshots | a limit is a limit |
| Overview | overlapping loads, faults, a hidden tab, a replay, a focus before the map is there | it comes to show the data of the server; it looks where the last click said |
| BMKG panel | three endpoints that fail on their own, old rows beside new ones, two clocks | it is calm only when it knows |
| Map | answers for an older viewport or a layer switched off, styles fetched late, listeners that pile up, accounts that change during a request | drawn is what is enabled, chosen and mine |
| Detail sheet | layers refreshed under the selection, aborted loads that still report | details are of what is selected, and what is selected is what a layer holds |
| Briefing, copilot | streams replaced, stopped, cleared and left while parts arrive; reads of the context that fail | text stands under its own question and is made from what it needs |
| Login | a token good for one call, a gate left during it | a token is sent once; a busy gate has one call |
| Alerts page | optimistic acknowledgements that are refused, overlapping | a false "acknowledged" is shown only while its call or a read is under way, or with an error |
| Settings page | two waves of loads, operations and other administrators between them | an activation is offered with the evidence of a proven version only |
| User administration | a question open over a call | busy is a call on its way, and the only one unless a deletion was confirmed over it |

`PROJECT.json` lists the hazards that weigh most, each at its line, with the
properties about it or the reason why there is none; section 8 has the others.

## 2. Modules

| Module | What it is |
|---|---|
| `WarningFeed` | abstract: a feed whose revisions only move forward, and whose current revision is all that reaches a recipient, while the source is open |
| `LifecycleDelivery` | the queue and its workers; implements `WarningFeed` |
| `LifecycleDeliveryProofs` | its invariants for any number of workers, recipients, attempts, revisions, faults |
| `CapLifecycle` | the CAP graph with the queue rows that follow it |
| `CapLifecycleProofs` | the table is a function of the graph, nothing is revived, the queue follows, proved |
| `SourceControl` | the control plane, API and worker |
| `SourceControlProofs` | activation gate, write fence and what a clean poll reports, proved |
| `AlertDispatch` | overlapping ingest cycles that create and dispatch alerts |
| `AlertDispatchProofs` | no double row, no row lost but by a fault |
| `AIUsage` | admission of AI requests |
| `AIUsageProofs` | the three limits, proved |
| `OverviewLoads` | the loads of the dashboard |
| `MapFocus` | who decides where the map looks, for both map engines |
| `BmkgWarnings` | the hook and the panel of the BMKG warnings |
| `MapPublicLayers` | layers of the map by viewport and revision, aircraft |
| `MapPrivateLayers` | layers of the account |
| `MapStyle` | theme, overlays with frames and timers |
| `MapDetail` | sheet, estimate of the impact, camera |
| `BriefingStream` | the briefing page, its stream, the workflow behind it |
| `CopilotChat` | the copilot page and the tools of its agent |
| `WebShell` | sections, menus, session, login gate with its token |
| `SourceSettings` | the page of the official sources and what it offers |
| `AdminUsers`, `AlertsPage` | the two remaining pages with overlapping calls |
| `WebClient` | the components of the browser side by side, with the constants of all of them |
| `WebMapProofs`, `WebPagesProofs` | an inductive invariant of each of these components |
| `WebClientProofs` | the properties of `WebClient`, proved from them |
| `MCWebClient` | values for those constants |
| `MCLiveness` | what must happen in the end, in three components |
| other `MC*` | instances for TLC: feeds, limits, symmetry sets |

Definitions named "Mutant" are plausible mistakes in the code next to them. They
are used by no action; put in place of the definition they stand before, they
break the property they are meant for, which shows that the property can fail.

### LifecycleDelivery

`queue` is `ews_notification_log` restricted to one source alert, as a function
on its unique key (target, revision, action); `alert` the current row of
`official_alerts`; `active` and `on` the switches of source and channels;
`worker` the local variables of `process_due_deliveries`.

* A transaction without an external call is one action: `Publish`, `Replay`,
  `Expire` (with the enqueue they end in), `Claim`, `RetryDelivery`,
  `Acknowledge`, `SetSource`, `SetChannel`.
* The send transaction is split where others can be seen: `BeginSend` freezes
  `now()`; `StartSend`, `SkipClaimed` and `LeaseLost` are the three ends of
  `_lock_delivery_for_send`; then the provider answers (`SendSucceeds`,
  `SendFails`, `SendGivesUp`) and the mark commits, or `Crash` rolls it back
  with the message out or not.
* Locks are not variables: a worker in phase "sending" holds the source lock,
  the share locks and the row lock, every other holder is a single step.
* `next_attempt_at` is the Boolean `due`. Time may make it true at any moment
  (`Elapse`); only if the claimer has not begun its transaction does that cost
  a fault, since the lease is longer than the way from the claim to BEGIN.
* Abstracted: matching by zones is an arbitrary set of targets, `batch_size` is
  the loop of a process, correlation records and texts are left out. Deliveries
  are assumed enabled (`delivery_enabled`). Revisions of the alert arrive in
  order here; their order is the subject of `CapLifecycle`.

### CapLifecycle

`rows` maps a message to its row: `key` (the lifecycle identity), `rev`,
`prev`, `current`, `status`. `Ingest` is the whole of
`persist_official_alert_revision` for a CAP message: insert, component
(`Component`: the least set that the search over references in both directions,
also through identities that are only known from references, does not leave), root (`Canonical`), order
(`Before`), renumbering (`Reconciled`), queue (`Rekeyed`), enqueue
(`Enqueued`). `IngestAborts` is the same transaction when the loop that
renumbers the queue meets the unique key. A queue row is settled in one step;
that it is skipped although its alert is current stands for a contained source.
`Reachable` is the join with the enabled channels that both enqueue statements
have (`SetChannel` switches one): a recipient whose channel is off when a
message is ingested gets no row for it, which `MergedRecipientsAreTold` says.
Deliveries are assumed enabled here, too. References to other senders link nothing and are left out of a feed; a
reference carries the sent time of the message it names.

### SourceControl

`setting` is the row; the columns that decide what is ingested are one value,
`content`. Handlers that hold the row lock throughout are one action (`Update`,
`Activate`, `Rollback`); the dry-run handler calls the source in between and is
two. A poll is `Resolve`, `AcquireSlot` or `SkipPoll`, `Fetch`, then
`RecordShadow` or a series of `Write`/`WriteRefused`, then `CompletePoll`;
`LoseSession` and `Crash` may happen at any point. `Guarded` says which of the
two cycles polls the source: with slot, fence and evidence (`bmkg_cap`,
`bmkg_air_quality`), or plain. A dry-run poll is evidence only if the five row
counts of the source are the same before and after its fetch; the delivery loop
and the expiry job write these tables on connections of their own, so that a
fetch may end as `changed`: nothing was in error, the connector is healthy, and
yet the evidence is bad. `CleanPollOpensGate` is about the polls of which this
is not so. `dryOk`, `shadowOk` and `writes` are history
variables that no action reads.

### AlertDispatch

Every statement of `evaluate_alerts` and `dispatch_alert` is a transaction of
its own and therefore a step of its own. `wanted` is what zones, severities and
types say of an alert and its targets, fixed from the start; whether a row is
queued or skipped (quiet hours, no address) is left out, since either occupies
the unique key. `CreateRefused` is the unique violation, which nobody catches
before `IngestScheduler._tick`: the cycle ends there. Cycles overlap because
the scheduler and `POST /worker/ingest` start them independently.

### AIUsage

A request moves through the statements of `beginAIUsage`: BEGIN (`NOW()` is read
here), lock of the account, lock of the feature if it has limits, six counts,
insert. `Finish` completes the row; `LoseLease` is a death of the process or
the error of the final UPDATE, which the code ignores. Time is a tick counter;
`Minute`, `Day` and `Stale` are in ticks.

### The web client

The modules of the browser follow one pattern. A React state or ref is a
variable; a handler, an effect or the continuation of an `await` is an action,
with every setter it calls. A request is a record of a set or a sequence, in
stages: asked, served (the server's data of that moment are in it) and applied,
so that answers may overtake one another and the page may change in between. A
value that a closure has captured is kept in the request; a value that is read
from a ref is read when the answer is applied. Leaving a page takes its state
away and keeps its requests on their way, unless the code aborts them.
Rendering, texts and styling are left out, except where an operator computes
what a page shows from its state, because a property is about it.

* `OverviewLoads`: `Promise.all` over six reads is one answer; the four reads
  that have a stand-in are the flag `full`. The interval and the visibility
  handler are `Auto`, the button `Refresh`.
* `MapFocus`: what the dashboard holds is turned into one key; MapLibre flies
  when the key is new and the features are there, Leaflet when an effect is
  re-run. `flown` and `asked` are observations.
* `BmkgWarnings`: the server's clock and the instant of the last read are two
  variables; each endpoint keeps its rows when it fails.
* `MapPublicLayers`: a load carries its view, layers and revision; `Applies` is
  the test of the code. The aircraft timer asks outside of the revisions.
* `MapPrivateLayers`: the token is read in a step of its own after the load was
  begun, again for the one retry of a refused request, and the answer is drawn
  if the load is not void. The auth client changes first, React and the map
  follow in another step.
* `MapStyle`: the dark style is fetched and the light one is at hand; every
  exchange registers a listener and takes all overlays off the map.
* `BriefingStream`: a stream runs through cache, context, agent or fallback;
  which reads of the context may fail and which end it is that of the steps.
* `CopilotChat`: a chunk is appended to the last message, as in the code, so
  that it is the order of steps which keeps questions apart.
* `WebShell`: `spent` counts the calls that a token was sent with; a gate that
  was left has calls that are no longer `mine`. A build without a site key has
  no widget (`absent`) and sends no token. Sections and menus decide which gate
  is mounted; no property is about the menus themselves.
* `MapDetail`: `collections` is what each layer drew last. A map that keeps its
  own list of layers (`ToggleLayer`) only takes a hidden layer off the map and
  keeps its collection; one whose layers the page lists
  (`SynchronizeVisibleLayers`) forgets it. Every load ends in
  `synchronizeFocus`, which may select any feature that is held, be its layer
  hidden or not: what the page focuses on is any of them, at any time, so that
  the model has more behaviours than the program. Aircraft are moved and read
  again without the selection (`AircraftMove`), and are excepted from
  `SelectionIsHeld`. The hidden layer's feature that a focus selects, the score
  of another event at the same place, and a player that a late event calls
  ready with an empty element are in the model and are nothing the properties
  forbid. Collections that a page hands in itself (the evacuation page) are not
  modelled. An aborted load of the estimate may have come far enough to report,
  and then does.
* `SourceSettings`: the server's rows, shadow entries and polls change on their
  own. A shadow entry is of a version, which need not be the one in force when
  the run ends, and an entry that is no good leaves an older good one to be
  found. A poll counts for the version in force when it ended, as its time does
  in the code. What is offered is `activationReadiness`, computed from the
  page's copies.
* `AdminUsers`: the rows are disabled while a call is under way, the open
  question does not disable them, and its own button looks at nothing but its
  own deletion. `overlapped` records that a deletion was confirmed over another
  call: from then on an answer may free the page for the call of another.
* `AdminUsers`, `AlertsPage`: calls and reads in any number up to the bound; the
  list a roll-back restores is the one its click has captured.

These components share no state beyond what their modules model as inputs (a
session event, a handed-over focus), so `WebClient` puts them side by side:
`part` names the component a behaviour is of, the variables of the others stay,
and a property is the conjunction of its components' properties under their
`part`. Each component is an instance with constants and variables of its own;
`WebClientAssumption` collects what they assume of them. `MCWebClient` gives the
constants values.

## 3. Runs

| Run | Instance | Question |
|---|---|---|
| `delivery_race` | 1 target, 2 workers, 2 attempts, 1 fault, 1 retry, 1 revision | can two workers hurt a row? |
| `delivery_revisions` | 1 target, 2 workers, 2 revisions (warning, cancellation), 1 retry | is a newer revision ever overtaken, are the right people told, is `WarningFeed` implemented? |
| `cap` | 4 messages, 1 target, two series that are renumbered most, and eight trees of single references (two lifecycles, a chain, a star) with a clock that runs back; the channel is switched at will | is the table a function of what is stored, does the queue follow? |
| `control` | 2 workers, 1 open dry-run, 3 versions, 2 contents, 1 fault | can the gate or the fence be got around? |
| `dispatch` | 2 events, 2 overlapping cycles, 1 target, 1 fault | can a race lose or double a row, is every event alerted? |
| `ai_usage` | 4 requests, 2 accounts, minute 1, day 3, stale 2, 4 ticks | can a limit be exceeded? |
| `liveness` | queue: 2 workers, 2 attempts, no fault; control: 2 workers, 2 versions, 1 fault; dashboard: 2 loads at a time, 3 versions, 2 failures | is every row settled, a due source polled, and does the dashboard catch up? |
| `web` | the twelve components of `WebClient`; 1.3 million states | does a page ever show what was not read, asked for or allowed? |

Four more runs end in a violation; see section 6.

The properties of `web`:

| Property | Components | Says |
|---|---|---|
| `TypeOK` | all | types, and which values belong together |
| `CalmIsConfirmed` | BMKG panel | no "no warnings" and no "good air" while the feed is unread, failed or inactive |
| `FliesWhereAsked` | focus | both engines fly to the last place that was asked for |
| `DrawnIsWanted` | public layers, style | current layers are of this view, drawn ones enabled, overlays those chosen |
| `PrivateIsMine` | private layers | once React knows who is signed in, no other account's data are on the map |
| `TokenUsedOnce` | login | no token goes out with two calls |
| `TextIsOfItsRequest` | briefing, copilot | text stands under what it answers and has its context |
| `BusyHasRequest` | briefing, copilot, login, users, alerts | a busy flag has a request of its own on its way; in the login, the chat and the users' page exactly while it has, there until a deletion is confirmed over another call |
| `ShownIsAsked` | detail, alerts | the sheet tells of the selected place and stream, and shows a feature as its layer holds it; what is shown as acknowledged is, or will be, or a failure is said |
| `ReadyIsProven` | settings page | an activation is offered for proven versions only |

**Why the bounds are enough.** A race on a row needs two workers and a second
attempt; one fault and one retry are each enough to re-open a row while an
earlier worker is still on its way. Overtaking needs two revisions. Targets do
not interact except through the prior recipients, which are read per target, so
one target shows what more would. In the graph, three messages can be
out of order and four can merge two lifecycles of two; the renumbering
collision needs four. In the control plane a proof of one version, its
activation and a change are three versions, and two contents tell an old
configuration from a new one. Two cycles race for an alert, and the second
event is the one that the loser of the race has not looked at. Four requests
reach every limit of the instance, and four ticks hold a whole day and the
beginning of the next. For the web client, a late answer needs
two requests at a time, a stale one a change between them, and a lost account
two changes; hence two loads, streams, questions, calls or tokens, and two or
three changes each. Two layers in one map, two accounts, two users, two alerts
and an event that moves beside another one at its place are the smallest
instances in which one may be taken for the other. One source is enough on the settings page, whose copies
are by source; three versions are an old proof, a current one and none.
Bounds are constants in guards or in the configuration:
`MaxAttempts` (5 in the code, 2 or 1 here), `MaxRevision`, `MaxFaults`,
`MaxRetries`, `MaxVersion`, `MaxTime`, `Feed`, `Feeds`, `Lapsing`, `Slots`; in
the web client, where `MCWebClient` gives the values, `MaxAsks`, `MaxChanges`,
`MaxClock`, `MaxViews`, `MaxPresses`, `MaxLoads`, `MaxReads`, `MaxSwitches`,
`MaxEvents`, `MaxStreams`, `MaxQuestions`, `MaxVisits`, `MaxTokens`,
`MaxLeaves`, `MaxEdits`, `MaxCalls`, `MaxWork`.

**Deadlock** is checked for the delivery runs and for `dispatch`. It is not for
`cap` (all messages stored, all rows settled), for `control`, `control_plain`
and `liveness` (versions are used up and all workers wait for an administrator),
for `ai_usage` (the requests are done) and for `web` (a user who has used up the
bound): there the bounded instance ends.

**Symmetry** is used in runs without liveness only, over workers, contents,
accounts and requests, none of which is compared or ordered.

## 4. Fairness

`MCLiveness` states the fairness of each component for the steps of its `part`;
for the queue it speaks of the two rows that a single warning can have, itself
and its expiry.

* `LifecycleDelivery!Fairness`: each process drains the queue every 30 seconds
  and the claim takes the row that is due longest, so a row that is due again
  and again is claimed (strong fairness on the claim of each row). The advisory
  lock is a queue, so a worker that waits gets it (strong fairness). Every send
  has a timeout. Nothing is assumed of operators, sources or switches; the
  property itself makes an exception for a channel that is switched off.
* `SourceControl!FairSpec`: the scheduler starts a cycle every tick, fetches
  have timeouts, feeds are finite. `AcquireSlot` is strongly fair: the slot is
  a try-lock, and the worker tries at every tick.
* `OverviewLoads!FairSpec`: a request is answered or fails, an answer is
  applied, and the interval fires while the tab is visible and the timeline is
  not replayed. It is strongly fair, since a guard that is false for the moment
  does not stop the timer. Nothing is assumed of the button or of the user, and
  `CatchesUp` speaks of dashboards that are looked at from some time on; the
  failures of the model are finite.
* `AlertDispatch!FairSpec`: a cycle is started again and again and always ends,
  by its end or by an exception.

## 5. Proofs

All theorems hold for every value of the constants that satisfies the named
assumption of the module (`BoundsAssumption`, `FeedsAssumption`,
`ControlAssumption`, `DispatchAssumption`, `UsageAssumption`,
`WebClientAssumption`), which TLC evaluates in every run. The last one is the
conjunction of what the components say of their own constants, and that the
bounds of the model are natural numbers.

**LifecycleDelivery.** `TypeCorrect`; `SendsAreContained` and
`SendsOwnTheirRow` from `LockInv`: a worker that sends excludes every step that
could contain the source, replace the revision or touch its row. Two invariants
build on it. `ReceiptInv`: a delivery that is not excused was received at most
once, and not at all while its row is unsettled; this is what makes
`AtMostOneReceipt` inductive, since the count alone says nothing of a row that
may still be claimed. `ReachInv`: nothing was received that is newer than the
current revision, from which `RevisionsAreMonotone` follows for every step.
`QueueInv` is what the withdrawals rest on: no row is ahead of the alert, the
expiry of the current revision is queued by its expiry only, and every row that
is not a warning has a warning to the same target, of its revision or an earlier one.
`WithdrawalsFollow` is a part of it; `WithdrawalsReach` is the step property
that a change is queued, in its own transaction, for everyone who was told.
`ImplementsTheFeed` is the refinement: publishing maps to a step of
`WarningFeed`, a receipt to a receipt of the current revision while the source
is open, everything else to a stutter. The abstract `latest` of a target is a
choice among revisions, so `LatestInv` first shows that there is a newest one,
step by step, since the received revisions grow by the current one only.

**CapLifecycle.** The table is a function of what is stored: that is the
inductive invariant (`IsTable`: every row is what a rebuild of its component
would write), although an ingest rebuilds one component only.
`ComponentLeast`, `ComponentSame` and `ComponentGrows` are what is to be known
of the graph: two searches find the same set or nothing in common, and a
further message only joins what it links; hence a row outside the rebuilt
component has the component it had (`RebuiltAll`). That a set of
messages has a first and a last one (`First`, `Last`) needs no induction over
data: the sets of those sent before each message are finite, and the library has
it that strict inclusion of finite sets is well-founded; one less is counted
when an element is removed, which is a library theorem, too.
`KeysFollowTheGraph` adds that the root of a component is in it, so that
components that differ have roots that differ, and `RevisionsAreInOrder` that
the revision is the number of the messages sent before. `NothingIsRevived`
compares two rebuilds: the later message that made an alert a replaced one is in
the grown component as well, and a final status is computed again from the type,
which stays, and from `lapsed`, which only grows.

The queue follows because `Rekeyed` copies key and revision from the new rows,
settled or not, and every row it is given is in them; `Enqueued` adds rows with
the values just stored. That nobody is queued twice rests on `Rekeyed` keeping
message and action, and on `Enqueued` leaving out those who have a row: it looks
by identity and revision, which `QueueFollows` says are those of the message.
`MergedRecipientsGetTheUpdate` uses both: the prior recipients are looked up by
the identity the rebuild has just given to all the queue rows of the merged
lifecycles.

**SourceControl.** The inductive invariant has four parts: the newest version
of the history is the row (`CurrentIsRecorded`); whatever carries a version (a
dry-run, a poll) carries the content the history has for it (`CarriersAgree`);
dry-run columns and shadow rows are backed by a proof of that version and
content (`EvidenceAgrees`); active versions follow a proven one
(`ActiveWasProven`). `WritesAuthorised` and `CleanPollIsEnough` assume
`Guarded`; without it they are false. The second has an invariant of its own
(`PollInv`): as long as no session was lost, a poll has the slot and is alone,
a poll that writes was active when it began, and so a dry-run poll that closes
without an error has reported, and nobody has overwritten its report.

**AlertDispatch.** The unique key leaves one alert per event and kind
(`OnePerKey`); a cycle that dispatches has inserted its own alert and has only
targets of that alert left (`Dispatches`); rows belong to alerts
(`RowsBelong`). So an alert has one dispatcher, and `TellsOnce` and
`LosesOnlyByFault` follow.

**AIUsage.** The two advisory locks exclude (`LocksExclude`); a request has no
row before the insert, and the row of a running one carries its own `NOW()`
(`RowsOfRequests`); nothing open is older than its lease (`OpenIsFresh`); and
what a request has counted stays true until it inserts (`Decided`). The key
step is that every row that shares a minute, a day or an upstream with the new
one was counted, although rows are inserted out of the order of their times:
the counts look back from `NOW()` but have no upper end. The proof of
`RunningBounded` uses the assumption, which `Tick` states, that a request ends
before its lease is stale (150 seconds against 5 minutes).

**Web client.** `WebMapProofs` and `WebPagesProofs` give each component an
inductive invariant, for the very instance `WebClient` makes of it: its initial
states satisfy it, its steps keep it, and it implies the component's properties.
`WebClientProofs` composes them: the client's invariant is the one of its part
(`ClientInv`), it starts as that part does (`ClientInit`), and its steps are
those of the part or none (`ClientStep`). The ten properties of the run `web`
follow. What the invariants add to the properties:

* private layers: the account React knows and the one the map belongs to are
  the same between steps, and a load that is not void asks only for layers that
  are wanted, in the name of that account or of the one the auth client has
  changed to (`PrivateHarmless`); what is drawn is of these two
  (`PrivateDrawnIsKnown`). `auth` is needed beside `session`, because between
  the change and the event a request may well carry the new token.
* public layers: a load that is not superseded asks for the view that is shown
  (`PublicCurrentAsks`), and nothing is drawn on a map that is not up
  (`PublicNothingUnlessLoaded`).
* style: styles on their way and listeners are at most as many as the presses,
  so that nothing on the way is unaccounted for.
* focus: what the dashboard holds is of the place last asked for
  (`FocusFits`), for each of the two engines, so that data that come late cannot
  fly anywhere else.
* detail: a load of the estimate is for the place of the selected event
  (`DetailImpactFits`), and the stream a player has captured is the selected one
  or none, in which case it is neither loading nor ready (`DetailPlayerFits`);
  what a focus may select is held, be its layer hidden or not, so that the
  selection is held after every load, toggle and focus (`SelectionIsHeld`).
* BMKG warnings: an endpoint that failed in the last load, and was loaded
  before, is marked as uncertain (`WarningsFailedIsUncertain`).
* shell: a token in the gate that was sent before has its call on its way
  (`ShellSentIsOnItsWay`), a gate with a call of its own is busy and has just
  one (`ShellOneCall`), and a busy gate sends nothing; so the answer of a gate
  that was left frees nobody.
* settings page: that the worker ran a version without writing stays true of the
  past; every copy of a shadow entry, in a load or on the page, tells of such a
  version (`SettingsProven`), however many loads overlap.
* briefing: the stream that the page follows is the open one, and no final text
  is shown before it has sent its own (`BriefingFollowedIsOpen`,
  `BriefingNoTextYet`); text is of the last stream (`BriefingTextOfLast`), which
  is prompted with its context only (`BriefingPromptHasContext`).
* copilot: a request that may still say something is the one that can be
  stopped, and the last message is its answer (`CopilotOpenIsStoppable`,
  `CopilotLastAnswers`): a chunk is appended to the last message and so is put
  in place.
* users' page: `BusyIsThisCall` is inductive with the types: until a deletion is
  confirmed over another call (`overlapped`), at most one call is on its way and
  a deletion that is on its way has no question about another user beside it;
  after that, busy still names a call on its way.
* alerts: an answer on its way lists as acknowledged only what is
  (`AlertsAnswersAreTrue`), and what is shown as acknowledged is, or its request
  is on its way, or it is said or read again (`AlertsShownOrSaid`).

An instance has its own copies of the library's operators; `AlertsSameCounts`
says that they are the same.

**Only model-checked.** Liveness under fairness (`QueuedIsSettled`,
`DueIsPolled`, `EventIsAlerted`, `CatchesUp`), which is out of the prover's
reach. Every other property of a passing run is a theorem. The four runs that
end in a violation show what does not hold.

## 6. Where the code and its documents differ

* `cap_rejected`: a late CAP message that moves two queued updates up by one
  meets the unique key of the queue half way through the renumbering. The
  transaction is rolled back at every poll and the message is never stored,
  against `docs/official-alert-lifecycle.md:23`.
* `control_plain`: the sources of the plain cycle can never be activated,
  because nothing records the shadow evidence the gate asks for, against
  `docs/official-source-onboarding.md:12`.
* `delivery_exhausted`: a worker that dies after claiming the fifth attempt
  leaves a row that is never claimed again and never a dead letter, against
  `docs/ews-lifecycle-delivery.md:17`.
* `delivery_lost_cancel`: a recipient whose warning arrived although its
  outcome was ambiguous is not told of the cancellation, against
  `docs/disaster-operations-runbook.md:48`.

Seen in the web client while modelling, without a run of its own:

* A second failing acknowledgement puts back the list it has captured, in which
  the first one still looks done; if the read that follows fails as well, only
  the error message tells (`AcknowledgedOrSaid` claims no more than that).
* `apps/web/src/features/map/layers/satelliteGibs.ts` says in a comment that
  both probes must succeed, and is content with either; the model follows the
  code.
* The session that is read first may be put in after an event that was newer; a
  late snapshot of the aircraft may draw a layer that was switched off; a page
  of the briefing that is signed out stays loading; the busy source of the
  settings page may name an operation that is over; a second deletion or block
  may begin on the users' page under an open question. These are in the list of
  hazards, with what the properties claim beside them.

## 7. Not modelled, and the plan

Connectors, normalizers, scoring, geography, the read APIs and the language
model convert or show data and keep no state whose order matters. Wiring,
licences and deployment are configuration. The early-warning page is a set of
forms over single-row calls whose races are listed as hazards; what one would
claim of it mostly does not hold, so that only the list names them. The
remaining pages read once and show what they read. Of the pages that are
modelled, layout, texts and paint are left out, and of the overview the side
panels for regions, live video and air quality, the watchlist (search, filter,
pages, export) and what the Leaflet map draws: these are pure functions of what
was loaded and chosen, of which a model could say only what their definitions
say. The optional facts of the copilot's tools are in `CopilotChat`, but no
property asks which of them an answer had; that a briefing is not prompted
without its required reads (`AiTextHasContext`) follows mostly from the order of
the workflow's steps, and covers the partial failures of its reads only so far.

The rest is planned, most important first:

1. `OfficialRevisions`: the upsert of the other official sources (duplicates by
   checksum, current iff sent later, expiry), and the lemma that the current
   revision is the one sent last.
2. `AccountLimits`: assets, risks, invitations, members and test messages, as
   counts and inserts with the snapshots of READ COMMITTED statements. Promise:
   a limit is never exceeded; where it is, the smallest race that shows it.
3. `ApiCaches`: the response cache (order and entries name the same keys, no
   entry older than its time is served) and the signing keys (a later answer is
   not overwritten by an earlier one).
4. `NewsSignals` and the ingest scheduler (start, stop, tick), the OpenSky gate
   and the steps of the historical backfill.
5. `LearningProgress`: points are the sum over completed modules.
6. The pages of contracts and early warnings, as further components of
   `WebClient`.
7. Proofs: the invariants of the components of this list, each with its module.

A component that is added may share the run of a related one through an MC
module that extends both, if its questions need no instance of their own.

## 8. Further hazards

`PROJECT.json` lists the hazards that weigh most. These are the others, with the
properties about them in brackets, or the reason why there is none.

* `apps/worker/main.py:2035`: The operator's retry resets attempt_count to 0,
  so a later claim repeats an attempt number that an earlier worker may still
  hold. [`AtMostOnceUnlessExcused`, `SendOwnsItsRow`]
* `apps/worker/alerts/lifecycle_delivery.py:95`: An update that arrives before
  the warning it belongs to is addressed to the prior recipients, of whom there
  are none; when the warning arrives late, it is not current and is never
  enqueued. MergedRecipientsAreTold is about those who have a row; that nobody
  ever gets one is what the code does and no document promises otherwise.
* `apps/worker/alerts/lifecycle_delivery.py:119`: A channel that is switched
  off between the claim and the send is not looked at again, so one more
  message of it goes out. SetChannel may happen at any step of the delivery
  runs; the switch is read by the claim alone and no document promises more.
* `apps/worker/alerts/channels/email.py:136`: smtplib.SMTPException is an
  OSError, so even a definite refusal of the mail server is ambiguous and never
  retried. The class of an adapter's result is an input of the model
  (SendFails, SendGivesUp); planned as an operator of the adapters.
* `apps/api/internal/http/official_source_settings.go:217`: Updates and
  rollbacks of the setting race with dry-runs, activations and polls under way.
  [`ActiveWasProven`, `WritesAreAuthorised`]
* `apps/worker/main.py:870`: The plain cycle reads the setting once and writes
  until the end of the poll, after the source was disabled, too.
  WritesAreAuthorised holds for the guarded cycles only (Guarded = TRUE); the
  model with Guarded = FALSE breaks it, and no document promises the fence for
  these sources.
* `apps/worker/main.py:886`: The cycle of InaTEWS, PVMBG, BNPB and InaRISK
  records no shadow evidence, without which no activation passes.
  [`CleanPollOpensGate`]
* `apps/worker/main.py:522`: One error in the topology of the CAP feed drops
  all alerts of the poll. Planned with the CAP cycle; the poll is one Fetch
  with outcome failed today.
* `apps/api/internal/http/contracts_import.go:54`: The risk limit is counted
  before the transaction of the import begins. Planned as AccountLimits.
* `apps/api/internal/http/entitlements.go:397`: The member count is read in the
  statement that waits for the row lock of the organisation, with a snapshot
  from before the wait: two acceptances may exceed max_users. Planned as
  AccountLimits, with the snapshots of READ COMMITTED.
* `apps/api/internal/http/ews_channels.go:64`: The rate limit of test messages
  counts and inserts in one statement without a lock. Planned as AccountLimits.
* `apps/worker/news_alerts.py:97`: News alerts are selected by geo_bucket and
  inserted without a unique index: two cycles create the same alert twice.
  Planned; these alerts are never dispatched.
* `apps/api/internal/http/jwks.go:91`: Two refreshes overlap and the older
  answer is stored last, with keys the newer one had withdrawn. Planned with
  the caches of the API.
* `apps/api/internal/http/response_cache.go:62`: At 512 entries the first key
  of the order is evicted; order and entries must name the same keys through
  expiry and concurrent puts. Planned with the caches of the API.
* `apps/api/internal/http/learning.go:320`: Streaks and experience points are
  updated once per completed module although requests repeat and race. Planned;
  every path runs under the lock of the statistics row.
* `apps/web/src/features/executive/ExecutiveOverview.tsx:249`: Four of the six
  reads are replaced by an empty answer when they fail, so that a dashboard
  without alerts and one whose alerts could not be read look alike.
  OverviewLoads records which answers are empty stand-ins (Reject); no document
  says that the counts are to be marked, so that there is no claim to check.
* `apps/web/src/features/executive/useBmkgWarnings.ts:72`: Interval, tab, retry
  and the dashboard's refresh ask at the same time and share one request, whose
  answer may be older than the last question and may come after the panel was
  left. [`CalmIsConfirmed`, `TypeOK`]
* `apps/web/src/features/executive/BmkgWarningsPanel.tsx:298`: The staleness of
  the CAP feed is read once, when the panel is opened, and never again. The
  health of the connector is not part of BmkgWarnings; what the panel calls
  confirmed does not look at it either.
* `apps/web/src/features/executive/ExecutiveOverview.tsx:502`: The focus on a
  region clears the selected event and not the focused warning, which stays
  asked for beside it. [`FliesWhereAsked`]
* `apps/web/src/features/executive/ExecutiveOverview.tsx:447`: The list shrinks
  under the page the reader is on: the page shown is the nearest one, the
  stored one stays, and the first presses of the back button do nothing. The
  watchlist is not modelled: its page is computed from list and stored page in
  one line, without a state that steps could bring out of order.
* `apps/web/src/components/RiskMap.tsx:609`: Watch zones are coloured by the
  warnings of the chosen hour, class and peril; a selected overlay is kept
  although a filter hides it. The risk map is not modelled: what it draws is a
  pure function of overlays, filters and hour.
* `apps/web/src/features/map/OperationalMap.tsx:449`: One layer fails while the
  others answer; its old data must be kept and marked as stale, and come back
  as current. [`DrawnIsWanted`, `TypeOK`]
* `apps/web/src/features/map/OperationalMap.tsx:640`: The snapshot of the
  aircraft has neither revision nor abort: an answer for the viewport before is
  applied after the map has moved or the layer was switched off.
  MapPublicLayers has SnapAircraft and SnapAnswer; DrawnIsEnabled excludes the
  aircraft, whose late snapshot is the one way a hidden layer is drawn again.
* `apps/web/src/features/map/OperationalMap.tsx:769`: Every switch of the theme
  registers one more listener for the next style event, and the layers of the
  overlay must be there after the last of them whichever fires first.
  [`DrawnIsWanted`]
* `apps/web/src/features/map/impactSummary.ts:220`: The effect looks at the
  coordinates and not at the event: another event at the same place is shown
  with the score of the one before. [`ShownIsAsked`] DetailIsOfSelection claims
  the place of the impact; the event of its score is left out because the code
  does not keep to it.
* `apps/web/src/features/map/CctvStreamPlayer.tsx:48`: Listeners of the stream
  before stay on the video and set the status of the next one; an address that
  is not trusted leaves the player without its element. [`ShownIsAsked`]
  DetailIsOfSelection says that a player that is ready holds the stream of the
  selection; a late event may call it ready with an empty element or wrong
  after an error, which MapDetail reaches.
* `apps/web/src/lib/auth/AuthProvider.tsx:20`: The first session is read while
  events of signing in and out arrive; its late answer puts back the session
  from before. [`TypeOK`] WebShell has FirstSession after any AuthEvent; that
  the session is the last one announced does not hold until the next event.
* `apps/web/src/features/ews/LoginGate.tsx:39`: The address is edited while a
  registration is under way; its answer then offers to confirm the new one.
  WebShell has EditEmail during a call; the notice names the text of the moment
  and nothing says which address it ought to be.
* `apps/web/src/features/briefing/BriefingPage.tsx:246`: After an error there
  is no text and nothing is loading, so the effect asks again at once and as
  often as it fails, each time with a lease. AutoStart is enabled after Fail in
  BriefingStream; only the limits of AIUsage stop it, which MinuteIsBounded
  covers.
* `apps/web/src/features/briefing/BriefingPage.tsx:252`: Signing out closes the
  stream without a word: the page stays loading, and after the next sign-in no
  new one is started. [`BusyHasRequest`] LoadingHasStream excepts only a page
  whose last stream was closed before its end; the stuck flag is what the code
  does.
* `apps/mastra/src/mastra/shared/accumulation.ts:60`: A read of the exposure
  that fails becomes an exposure of zero, which the model is told as a fact.
  Optional in BriefingStream; that nothing is exposed and that it is not known
  are the same to the code, and no document tells them apart.
* `apps/web/src/features/alerts/AlertsPage.tsx:158`: One of many
  acknowledgements is refused: the list is put back although the others are
  done or still under way. [`ShownIsAsked`, `BusyHasRequest`]
* `apps/web/src/features/alerts/AlertsPage.tsx:81`: A list that was read before
  an acknowledgement arrives after it, and the alert is pending again until the
  next read. AlertsPage reaches it; a pending alert that is done is the safe
  side, and nothing claims more.
* `apps/api/internal/http/alerts.go:164`: The counter is a statement of its own
  whose failure counts nothing: at 0 the button that acknowledges all is
  disabled under a list of pending alerts. Served leaves both outcomes to the
  answer; counter and list belong together nowhere in the code.
* `apps/web/src/features/settings/OfficialSourcesSettingsPage.tsx:138`: One of
  the reads of the evidence fails: its absence must block the activation and
  not pass it. [`ReadyIsProven`]
* `apps/web/src/features/settings/OfficialSourcesSettingsPage.tsx:173`: One
  slot says which source is busy; the end of an operation on another source
  frees it, and reloads overlap. SourceSettings has the operations of two
  sources and of the workbook at the same time; that busy names an operation
  that is under way does not hold.
* `apps/web/src/features/settings/OfficialSourcesSettingsPage.tsx:125`: The
  reload after an operation on one source replaces the unsaved drafts of all
  the others. Edits are part of SourceSettings and lost there as well; no
  document promises that drafts survive.
* `apps/web/src/features/settings/AdminUsersPage.tsx:56`: Searches, the renewed
  session and the first load overlap: an older answer is shown under a newer
  search. AdminUsers has the overlapping loads; the code applies whichever
  comes last, so that the list need not match what is typed.
* `apps/web/src/features/settings/AdminUsersPage.tsx:118`: The answer of a
  deletion is lost: the row stays, and the second attempt fails because the
  user is gone. [`BusyHasRequest`]
* `apps/web/src/features/ews/EwsPage.tsx:207`: A preference is saved as a whole
  row made from what the page shows: two fields changed in a row, while the
  other channel's answer has freed the controls, undo one another.
  Early-warning page, not modelled.
* `apps/web/src/features/ews/EwsPage.tsx:193`: When one of the four reads fails
  nothing is shown as loaded; the switch of a channel then sends the defaults
  and overwrites stored severity, kinds and quiet hours. Early-warning page,
  not modelled.
* `apps/web/src/features/ews/EwsPage.tsx:221`: The profile is stored and the
  reload fails: the page says both that it was saved and that saving failed.
  Early-warning page, not modelled.
* `apps/web/src/features/ews/EwsPage.tsx:98`: A reload takes the whole tab off
  the page, the form of a new zone and what was typed with it, also while it is
  being saved: the zone can be created twice. Early-warning page, not modelled.
