# GeoSet: models, checks and proofs

GeoSet is a fork of Apache Superset that adds map charts: a single-layer chart
(*GeoSet Map Layer*) and a chart that puts several of them on one map (*GeoSet
Multi Map*). The fork's own program logic is the plugin
`src/superset-frontend/plugins/geoset-map-chart`; the rest of the repository is
the Superset platform. This directory holds TLA+ modules for the parts of that
plugin that have state and interleavings, and for four services of the platform
that its charts run on and that are concurrent by nature: the scheduler of
alerts and reports, asynchronous queries, the execution of a query in SQL Lab,
and the refresh of access tokens under the distributed lock. It also holds the
TLC configurations that check them, and proofs that TLAPS checks.

In what follows `Multi.tsx`, `multiUtils.ts` and other short names are files of
`src/superset-frontend/plugins/geoset-map-chart/src/`.

## 1. Inventory

| Component | State it keeps | Operations | What makes it hard |
|---|---|---|---|
| **Layer loading** (`GeoSetMultiMap/Multi.tsx`, `multiUtils.ts`) | metadata of the charts, one continuation chain per load, a generation counter, the list of layers, the cached autozoom viewport, the spinner | render with new props, metadata answer, layer answer, three phases, re-apply settings | loads overlap; a batch fails in part; answers in any order; values captured when a load starts |
| **Legend and visibility** (`Multi.tsx`, `components/MultiLegend.tsx`, `utils/hooks.ts`, `utils/legendHelpers.ts`) | visibility per layer and per category, what each layer was drawn with, groups by title | group, entry and category checkboxes, defaults of hidden layers | two effects write what the other reads; clicks while layers load; reloads with other categories |
| **Map tools** (`Multi.tsx`, `hooks/useLasso*.ts`, `components/useLassoLayer.ts`, `components/MapControls.tsx`, `DeckGLContainer.tsx`, `utils/lassoSelection.ts`) | ruler, lasso, draw mode and its timeout, shape, selection, running filters, mouse | buttons, dropdown, Escape, drawing, press, move, release, results bar | a filter that yields to the event loop; effects and a timeout set one mode; Escape between two mouse events |
| **Layer list control** (`DeckSlicesControl/index.tsx`) | items with a draft each, order | add, remove, drag, edit settings | drafts against props that change |
| **Single-layer chart** (`layers/GeoSetLayer/GeoSetLayer.tsx`, `components/Legend.tsx`) | the tools on one layer, a simple legend | as above | as above |
| **Data preparation** (`utils/colors.ts`, `utils/legendHelpers.ts`, `utils/lassoSelection.ts`) | none | pure functions | boundaries, missing values |
| **GeoSet server API** (`superset/geoset_map`) | none between requests | versioned schemas, upgrade of stored configurations | chains of upgrades |
| **Async queries** (`async_events`, `tasks/async_queries.py`, `middleware/asyncEvent.ts`) | event stream, last event id, listeners, retries | submit, report, trim, poll, retry, reload | events before their listener, lost polls, retries that move the last id back, trimmed events, silent tasks |
| **Report scheduler** (`commands/report/execute.py`, `tasks/scheduler.py`, `daos/report.py`, `commands/report/update.py`) | last state, log of executions, what each worker does | queue, execute, refuse, time out, mail errors, prune, deactivate, delete | overlapping workers without a lock, crashes, hard kills, stale reads of the last state |
| **SQL Lab** (`sql_lab.py`, `daos/query.py`, `SqlLab/actions/sqlLab.js`, `reducers/sqlLab.js`) | row of the query, stored result, the page's copy | run, stop, poll, fetch, fail, time out, die | stop against completion, late and lost answers, a result that cannot be stored |
| **Token refresh and distributed lock** (`utils/oauth2.py`, `distributed_lock`, `commands/distributed_lock`) | token row, lock row with an expiry | check, create, refresh, release, retry | expiry under a live holder, a release that deletes another's lock |
| **Upstream Superset** | database | dashboards, exploration, security, data sources | outside the fork's own logic |

The web socket server (`superset-websocket`), the other transport of
asynchronous queries, and the single-layer chart keep state of their own and are
not modelled (section 6).

How the first three work together: a render of `DeckMulti` fetches the metadata
of the charts in its deck; changed metadata starts a load; a load appends
layers to `subSlicesLayers`. Every layer has a legend entry; the visibility of
layers and categories decides what of the layers is drawn. The visible, loaded
and lasso-selectable layers are what the lasso offers; its shape is filtered
over the features of the selected layer. While a deck with autozoom layers has
no layer at all, the canvas and its controls are unmounted.

### What makes each component correct

- *Loading*: an answer of a superseded load changes nothing; a chart is on the
  map once; lazy layers come last and two at a time; the canvas never jumps; a
  load always ends with every layer shown or failed.
- *Visibility*: checkboxes, categories and the drawn layer agree whatever the
  order of clicks, answers and reloads; a layer hidden by default stays hidden
  on arrival; a click decides about its own layer or group only.
- *Tools*: one tool at a time, none of them stuck; shape, features and results
  bar belong together; an overtaken filter shows nothing; a shape is answered.
- *Async queries*: the page's position in the stream never passes an event that
  it still needs; a promise settles once and as the job reported; it does settle.
- *Reports*: the grace period of an alert is kept although executions take no
  lock, as long as the log keeps the success it is measured from; an execution
  that is refused harms nothing; a dead one does not block the schedule for ever.
- *SQL Lab*: a stop bounds the work that is still started; a query shown as
  successful shows its stored result; the page learns of the end while it polls.
- *Token refresh*: requests refresh one at a time as long as no lock expires
  under its holder, and every lock that does costs one more at most.

## 2. Modules

| Module | Models | Used by |
|---|---|---|
| `LayerReveal` | abstract promise of the loader: requested slices are revealed once each, and settled in the end | `LayerLoading` |
| `LayerLoading` | metadata effect, loads, phases, settings effect, viewport, spinner | `MCLayerLoading`, `LayerLoadingProofs` |
| `LayerLoadingProofs` | theorems about `LayerLoading` | |
| `LayerVisibility` | legend clicks, defaults, the two reconciling effects | `MCLayerVisibility`, `LayerVisibilityProofs` |
| `LayerVisibilityProofs` | theorems about `LayerVisibility` | |
| `MapTools` | ruler, lasso, drawing, filters, mouse | `MCMapTools`, `MapToolsProofs` |
| `MapToolsProofs` | theorems about `MapTools` | |
| `LayerPhasesProofs` | phases, batches and the viewport, on top of `LayerLoadingProofs` | |
| `AsyncPromise` | abstract promise of `waitForAsyncData`: settled once, as reported | `AsyncEvents` |
| `AsyncEvents` | tasks, the stream of a channel, polling, retries, reloads | `MCAsyncEvents`, `AsyncEventsProofs` |
| `AsyncEventsProofs` | theorems about `AsyncEvents` | |
| `ReportSchedule` | beat, workers, state machine, log, owner, time | `MCReportSchedule`, `ReportScheduleProofs` |
| `ReportScheduleProofs` | theorems about `ReportSchedule` | |
| `SqlLab` | execution, stop, page | `MCSqlLab`, `SqlLabProofs` |
| `SqlLabProofs` | theorems about `SqlLab` | |
| `TokenRefresh` | requests, lock, token | `MCTokenRefresh`, `TokenRefreshProofs` |
| `TokenRefreshProofs` | theorems about `TokenRefresh` | |
| `MC*` | decks, lists and values for the runs | the `.cfg` files |

### The grain of a step

JavaScript runs one task at a time. A step of a model of the map is one browser task (an
event handler, a resolved promise, a timeout) together with the React renders
and effects it causes and the promise continuations that need no further
answer. Nothing else can run inside it. Steps of different sources (user,
server answers, timeouts, the parent's renders) interleave freely. On the server
a step ends at a commit, at a read that a later step depends on, or at a call
that leaves the process; workers, requests and pages interleave freely.

### The host of the chart

The modules describe `DeckMulti` as a component: props come in whenever the
parent renders. What the parent does today is narrower. `Chart.tsx:376`
replaces the chart by a spinner while a query runs, so a saved change of the
layer list, a dashboard filter or a refresh unmounts `DeckMulti` and mounts a
new one, and the models start again from `Init`. What reaches a mounted chart
are the renders in between: its size, its theme, the static viewport
(`renderTrigger` in `Shared_DeckGL.jsx:404`). Each of them fetches the metadata
of all layers again, and the map is loaded again when the answer differs, which
it does when somebody has saved one of the charts or when one of the requests
failed. These are the reloads the runs rely on.

`ChangeDeck` (another layer list for a mounted chart) is in `LayerLoading` and
`LayerVisibility` because the code has an effect for it (`Multi.tsx:620`), as an
over-approximation: what is checked and proved with it holds without it. No
violation reported below needs it: `loading_spinner` and `visibility_redraw`
have a single deck.

### LayerLoading

A load is one element of the sequence `chains`: its index is the generation
(`++loadGenerationRef.current`), so `loadGeneration` is the length of the
sequence and `isStale(g)` compares the two. A chain records what its closures
captured (the settings and the order of the deck) and where
`loadLayersOrchestrated` waits: the phase, the members of the current
`Promise.all`, which of them have settled, and what has not been started.
`LayerSettles` is an answer that is not the last of its batch;
`AutozoomCompletes`, `EagerCompletes` and `LazyBatchCompletes` are the
continuations after each `await`, with their staleness tests; the first replaces
the list of layers and the others extend it. `MetadataArrives` is the `.then` of
the metadata effect, which has no staleness test, followed by the load effect;
it answers with each chart's metadata of some moment since the request, or
without the chart if its request failed. `ChangeOther` is a render with any
other new prop. `fitted` is the cached autozoom viewport, represented by the
slices it was computed from.

Abstracted: features, queries and colours (a layer is the slice, its settings
and the load it came from; the last is history); the metadata of a chart is the
number of times it was edited. Charts fail one by one, in the metadata and in
the layer requests. Not modelled: payloads that already hold the slices (the
query of the chart never produces them).

### LayerVisibility

Here a load is a set of slices, any part of which may settle together, because
phases do not matter to visibility; `LayerLoading` has them. `Rebuild` and
`Sync` are the two effects of `Multi.tsx` (rebuild layers when categories
change; show or hide a layer according to its categories), and `Settle` is the
state after a setter and both effects. `drawn` is what the deck.gl layer was
built with, which the map shows; `categoryVisibility` is what the legend shows.
Abstracted: the optimistic copy of the checkboxes (cleared on every change),
collapse and expand, the order of the legend, isolating by double click,
colours.

### MapTools

Shapes are numbered, 0 is "no shape"; the selection records the shape and the
layer it came from. `handleLassoComplete` is the end of a drawing with the
synchronous part of `handleLassoPolygonComplete`; a small layer is filtered at
once and a large one leaves an element in `filtering`, answered by
`FilterFinishes`. `handleLassoActivate` contains the effects of `useLassoLayer`
in their order: the second one that runs on activation overrides the first.
`Tap`, `MouseDown`, `MouseMove`, `MouseUp` are the mouse handlers with the refs
they keep; Escape may come between any two. `ChangeLayers` is the effect of a
load on the tools; `Gated` says whether the canvas is unmounted when no layer is
left. Abstracted: coordinates, draw modes (which change only while the lasso is
inactive), the export file, which features lie inside.

### ReportSchedule

One schedule and the Celery workers that execute it. `Schedule` is the beat,
which may queue an execution twice (a scheduler run is retried). `Start` is
`ReportScheduleStateMachine.run` up to its first commit: `FirstPlace` picks what
the execution will do from the state it reads, and the steps that follow commit
it. `seen` is the copy of `last_state` in the worker's session: SQLAlchemy writes
the column only when the new value differs from that copy (`Write`), which is
what keeps a refused execution from overwriting the result of the one it met.
`Refuse`, `TimeOut` and `EnterGrace` are the three ways to end at once;
`EnterWorking` to `LogMail` are the query, the notification and the error mail,
each with its failure. `Crash` is the death of a worker, `HardKill` Celery's
`time_limit` (the working timeout and a lag), `Orphaned` the schedule deleted
under an execution. `Deactivate`, `StartReset`, `CommitReset` and `Activate` are
the update command, which resets WORKING to NOOP on deactivation in a read and a
write of their own; `PruneLog` deletes every entry older than `log_retention`, the
last success and the last error mail included (`daos/report.py:285`).

The log is kept as what its queries can tell apart: the age of the newest entry
that entered WORKING, of the newest success, and of the newest error mail; ages
stop counting where no comparison tells them apart. `is_in_error_grace_period`
is the query as written: it looks for a success *before* the last error mail
(`daos/report.py:277`), although it means one after it. Of the entries that are
neither ERROR nor WORKING only the newest success has an age, so pruning may or
may not take the others. `since` (the time since the last success, as long as
nothing has met it) and `alone` are history. Abstracted: recipients, content, the query's own retries. A worker does
not die while it only commits what it has decided on (the places `Deciding`,
which take no time).

### AsyncEvents

One channel, one page and a task per job, over the polling transport. The id of
an event is its position in `stream`; `kept` is the oldest one that was not
trimmed (`xadd` trims about the limit, so any position the limit allows).
`SendPoll`, `ReadEvents` and `PollAnswered` are a request of
`fetchEvents`, the range read by `read_events` and its answer; `ProcessNext` is
one round of the loop in `processEvents`: `Heard`, `TriedAgain` and `Dropped` are
its three branches. Between two rounds only the servers move, because a page runs
one task at a time. `setLastId` ends each round, in a retry as well, so a retry
moves the page back and events are read again: `NothingSkipped` says that it
never moves past one the page needs. A task reports its result on the stream of
the channel and then on the stream of all channels; when the second write fails
its handler reports an error after the success (`TaskTurnsError`). A silent task
is a soft time limit or a dead worker. `Reload` is a new page, which starts from
an id that some tab stored. Abstracted: durations, the content of results, the
web socket.

### SqlLab

One query from `START_QUERY` on. `worker` is `execute_sql_statements`: `Check`
reads the row before each block, `StartBlock` runs it, `StoreResult` and
`StoreFails` write to the results backend, `Succeeds` writes SUCCESS over
whatever the row says. When synchronous the request itself executes and
`ExecAnswered` gets its answer; when asynchronous the page learns of the end from
its polls (`RefreshAnswered` is the reducer of `REFRESH_QUERIES` with its
exceptions, `NothingToRefresh` and `ClearInactive` that of
`CLEAR_INACTIVE_QUERIES`). A query that was started six hours ago is not polled
again, even if it is shown as running (`shouldCheckForQueries`); `GrowsOld` is
that moment, at any time of the execution. `Shows` is a change of the store with the effect of
`ResultSet` that fetches a result whose key is new. The stop is a request of its
own: `Cancel` reads the row and cancels the statement in the database,
`StopCommits` writes it, `StopAnswered` changes the page. Cancelling may always
fail, and so may any block. `SubmitFails` is a submission that never gets a
worker (`refused`): FAILED is set, but the exception takes the transaction back
(`commands/sql_lab/execute.py:94` and `:161`), so the row stays PENDING as it was
committed before, or does not exist. Stored results do not expire; durations are
not modelled; `late` is history.

The model has several faults of the code that no property hides: a stop before
the first block or after the last check is overwritten by RUNNING or SUCCESS; the
reducer's guard against a late success compares with `QueryState.STOPPED`, which
is undefined (`reducers/sqlLab.js:386`); the payload of a synchronous query names
the results key before the write to the backend, so when that write fails the
page fetches a key that does not exist and turns the result it had into a
failure; an asynchronous success without a stored result (CREATE TABLE AS) leaves
the page running; a worker that dies leaves RUNNING in the row; a submission that
fails leaves PENDING in the row for good, and only the answer to the request tells
the page (`RefusalIsShown`); and an asynchronous query that ends after six hours,
as one ended by its time limit does (`SQLLAB_ASYNC_TIME_LIMIT_SEC`,
`config.py:1203`), is no longer polled (`QueryAutoRefresh/index.tsx:42`), so the
page may show it as running for ever.

### TokenRefresh

Requests of one user that find the access token expired. `TokenToRefresh` is the
read of the row, *before* the lock is taken; `CheckLock` and `CreateLock` are the
lookup and the insert of the lock, of which the insert fails when the key is
there and not expired; `LockTaken` is the retry decorator of `utils/oauth2.py`.
`Release` deletes the key, whoever holds it, and commits the new token with it.
`Fails` is an exception or a death at any point: there is no `finally`, so the
lock stays until it expires. `LockExpires` and `TokenExpires` may happen at any
time. Assumed: reads see what was committed last, and the caller has no
transaction of its own open. The docstring of `get_oauth2_access_token` ("only the first process to
acquire the lock will perform the refresh") holds for requests that find the lock
taken and retry; one that has read the expired token and not yet looked for the
lock takes it after the release and refreshes again.

## 3. Runs

Runs that pass:

| Run | Question | Bounds |
|---|---|---|
| `loading_churn` | no answer of a superseded load reaches the map; nothing is shown twice or taken away; loading implements `LayerReveal` | two charts in four decks (each chart in several phases, reordered, removed, empty deck), two renders after the first, one edit per chart: three overlapping loads |
| `loading_phases` | lazy layers last, two at a time; the visible canvas does not jump; the fit waits for all autozoom layers; every layer is shown or failed in the end | four charts in two decks: three lazy layers and an eager one (two batches, the second short), two autozoom and two lazy ones; one render that changes the deck, toggles the static viewport or reloads; fairness |
| `visibility_legend` | checkbox, categories and map agree over a reload; a group moves together, a click stays local; a layer hidden by default arrives hidden | three layers (with one or two categories, without, and either) under two titles, hidden by default or not, one of them changing its group on arrival; two loads |
| `tools_churn` | exclusion, no stuck tool, a layer is selected, overtaken filters | two layers, one of them slow to filter; four lists of layers that come and go; two shapes |
| `tools_answers` | features and shape belong together; a shape is answered | the same two layers, which stay on the map; three shapes; fairness |
| `report_workers` | grace period, harmless refusals, unlocking of stalled schedules | two workers, an alert or a report, two queued executions, grace period 4, working timeout 1, lag 0 (ten seconds: less than a unit), retention 2, an execution per unit: executions overlap, one is killed or refused while the other runs, and entries that the next execution still needs are pruned, a success within its grace period among them; fairness |
| `async_events` | no needed event is skipped; promises are safe (`AsyncPromise`) and settle | two jobs, one retry, two events per poll, a stream of two: an event is trimmed, dropped, read twice, and read after a later one; fairness |
| `sql_query` | a stop bounds the work, a success shows its result, the page catches up | three blocks, synchronous or not, stored or not, refused, stopped or too old to be polled at any moment; fairness |
| `token_refresh` | how many refresh at a time | three requests (symmetric), three tries, two locks that expire under their holder, so that all three may refresh together |

The bounds are the smallest at which each hazard occurs: two layers make a
partial failure and an order, a third one makes a second batch and a group of
unequal members, a second reload makes a chain that is overtaken twice, and a
third shape may overtake a filter that has overtaken another. In `report_workers`
the retention is longer than the working timeout, so that a stalled execution can
be timed out before its entry goes, and the grace period is long enough for a
prune to take a success before it ends (an entry goes at age 3). In `async_events` two events per poll are the fewest for
which the claims are about the code: the limit is 100 there, and with one event
per poll a retry that moves the page back by one event can undo each poll for
ever. In `sql_query` a third block is the first that a stop could start late
after a late one. Every property of
a passing run is violated by a plausible mistake in the code (the definitions
marked "Faulty variant" in the modules, each put in the place of the definition
it follows or precedes): a run in which the hazard does not occur could not tell
them apart.

Deadlock is checked for the tools, the reports and the tokens, which never stop.
The environment of the map's other two modules is bounded (renders, edits,
loads), a page's jobs and a query of SQL Lab come to an end, and when everything
has been answered they may stop; their configurations say so.

Runs that find a violation, each of one statement of the documentation or of a
comment that the code does not keep:

| Run | Statement | What happens |
|---|---|---|
| `loading_spinner` | the canvas waits for phase 1 "to complete" (`Multi.tsx:1195`) | if all autozoom layers fail and there is no layer of a later phase, the spinner never goes away |
| `visibility_redraw` | a legend entry shows or hides its category (`wiki/GeoSet-Multi-Map.md:63`) | after a reload a layer is drawn with categories that are off in the legend, until some category is clicked |
| `tools_reset` | "Discard if the user reset the lasso while filtering" (`utils/lassoSelection.ts:324`) | Escape does not change the request id, so the result of a running filter appears after it, without a shape |

`visibility_redraw` and the theorem `CategoryChangesRedraw` are two sides of one
effect: it repairs every layer as soon as any category changes, and nothing
before.

Noticed while modelling, without a run: eager layers are appended when the
whole batch has settled (`multiUtils.ts:137`; the wiki says each as it
finishes); draw mode is on at once after the lasso is activated, because a later
effect overrides the delay (`useLassoLayer.ts:131`); and a press of Escape during
a ruler drag leaves the drag flag set (`DeckGLContainer.tsx:749`).

`GraceRespected` has two conditions. The first is that the log still has the entry
of the success: `log_retention` is counted in days, may be shorter than
`grace_period`, and "None" in the alert's form means 0
(`AlertReportModal.tsx:154`), which deletes every entry at the next pruning; then
`find_last_success_log` finds nothing and the alert is sent again. In the run this
happens: without the condition TLC finds the alert sent after a `PruneLog`. With a
log that is kept as long as the grace period it cannot (`LongLogKeepsGrace`). The
second is that no two executions, nor a deactivation and an execution, have met
since the success: `last_state` is then no longer the outcome of the newest entry.

`WorkingIsUnlocked` has two conditions, and the run found both. The schedule must
be active, and its entry of the log must not be pruned before the next execution
(`log.entered + Period <= Retention`): an execution that was already queued when
its owner deactivates the schedule enters WORKING; if its worker dies and the
schedule stays inactive until the log is pruned, there is no entry left to
measure the timeout by, and a schedule activated again is refused in WORKING for
ever, against the comment of `commands/report/update.py:80` that means to unlock
it.

## 4. Fairness

- `LayerLoading!FairSpec`: weak fairness of `Answer`. The client and the server
  time requests out, so each is answered with a result or an error; some answer
  is always possible while a request is open. Users owe nothing.
- `MapTools!FairSpec`: weak fairness of `Filter`. A filter goes on in
  `setTimeout(0)`, which the browser runs; it cannot fail.
- `ReportSchedule!FairSpec`: weak fairness of the beat, of time, of the steps of
  a worker that wait for nothing outside, and of the hard kill. Queries,
  screenshots and mails may hang for ever.
- `AsyncEvents!FairSpec`: the page goes on polling and processing (weak). A poll
  that is repeated is answered in the end, and timers and the answers to other
  requests come (strong, since a reload or another task may come in between).
  Nothing is assumed of the tasks.
- `SqlLab!FairSpec`: the page goes on polling a query that it shows as running
  until the query is six hours old, and the answers to its requests are handled
  (weak: `SendRefresh` is disabled for good once the query has aged, and
  `PageCatchesUp` then promises no more than that a fetch is answered); a poll that is repeated is read and answered in the end
  (strong). Nothing is assumed of the execution, of the stop or of the user.
- `TokenRefresh` states none: retries end in an exception, so a request that
  needs a token may not get one.

## 5. Proofs

All proofs are under the assumptions of the modules alone: a stored deck has at
most one item per chart, hidden charts are charts of the deck, lassoed layers
are layers of the map, the requests for a token are finitely many, and bounds and
durations are numbers. They hold for every set of charts, decks, labels, lists,
workers, jobs and requests and for every bound.

`LayerLoadingProofs`:

- `TypeCorrect`: `Spec => []TypeOK`;
- `NeverShowsStaleLayers`, `NeverShowsLayerTwice`: the invariants
  `NoStaleLayers` and `OneLayerPerSlice`;
- `StaleChainsDrain`, `LayersAccumulate`: the action properties
  `StaleChainStartsNothing` and `LayersOnlyGrow`;
- `LoadingRefinesReveal`: the refinement of `LayerReveal` (its safety part).

None of these is inductive by itself. `TypeInv` adds that each chain is well
formed: the slices of a load are settled, in the current batch or not started,
never two of these. `MapInv` adds that the layers are of the latest load, one
per chart. `LoadInv` adds that no layer is on the map that the current chain
still has to answer for: without it a batch could put a slice on the map again,
and the abstract state could not say what is unsettled. `StepKind` splits a step
into those that start a load, settle something, or leave the abstract state
alone; the action properties and the refinement follow case by case.

`LayerPhasesProofs`, on the same invariants:

- `LazyLayersLoadLast` and `LazyBatchesAreSmall`: the invariants `LazyLast` and
  `LazyBatchBound`;
- `LoadsNeverHang`: a load waits for an answer exactly until each of its slices
  was asked for and has settled;
- `EveryAnswerCounts`: a load changes only by an answer it was waiting for, which
  is settled for good. A load of n slices is therefore over after at most n
  answers, which is what `RevealSettles` needs besides fairness;
- `FitIsToTheWholePhase` and `NeverSnaps`: the action properties
  `FitWaitsForAutozoom` and `NoViewportJump`.

`PhaseInv` adds what a chain has in flight and not started in each phase
(`Phased`) and that a load has shown no lazy layer before its third phase
(`LazyNotYet`); a continuation leads to a later phase (`Advances`) with the same
slices and settings. `BatchInv` adds that a phase that waits has something in
flight, and how much (`Batched`). Its arithmetic is that of a prefix of an order:
a batch is the members with fewer than `LAZY_BATCH_SIZE` others before them, and
counting the others maps the batch one to one into `0..LAZY_BATCH_SIZE - 1`
(`RanksDiffer`, `FirstFew`), while the member at the least position has none
before it (`SomethingIsFirst`), so a batch is neither too large nor empty.
`FitInv` has three parts: after phase 1 no autozoom layer of a load is unsettled
(`Zoomed`); the layers on the map carry the settings of the deck as long as their
load does (`LayersSynced`, which is what the settings effect is for); and an
autozoom layer on the map has been fitted to (`FitCurrent`). A first fit is then
made by the step that ends phase 1, from all of its layers, and a map that is
visible either has its fit or has nothing to fit to.

The proof of `NeverSnaps` found a case in which the map does move: a chart taken
off the deck while its metadata was on its way is loaded with the default
settings, autozoom among them, behind a gate that does not wait for it. `Chart`
remounts the plugin when its deck is edited, so the user never sees it; the
property now leaves it out by a condition of its own (`LoadOfDeck`).

`LayerVisibilityProofs` proves every property of `visibility_legend`:
`TypeCorrect`, `LegendAndMapAgree`, `CategoriesDecide`, `CategoryChangesRedraw`,
`DefaultsHide`, `GroupsToggleTogether`, `ClicksAreLocal`. The lemma `SettleKeeps`
says once what a setter and the two effects do (the relation `Settled`), and
each action is shown to be a load or an instance of it. The inductive invariant
`LegendInv` has three parts: every layer hidden by default has an entry in
`layerVisibility` (so the different defaults of legend and map never meet); the
checkbox of a layer whose categories were set is what they say; a layer whose
categories were never set is drawn with all of them. The last one is what
`CategoryChangesRedraw` needs for the layers the rebuild skips.

`MapToolsProofs`: `TypeCorrect`, `ToolsExclude`, `RulerOffIsEmpty`,
`LassoCanDraw`, `LayerIsSelected`, and `OvertakenFilterIsSilent`, the action
property `NewestFilterWins`. Exclusion and the empty ruler are proved together
(`ToolInv`): a handler may switch a tool on only while switching the other one
off, and a late mouse event moves the ruler only while it is on. The others are
inductive with the type invariant; the last one follows from it: of all filters
that still run, only the one with the latest request id shows what it found, so
one that a newer shape has overtaken is silent, also when the newer shape has
been answered before. Two results are about the features of a shape:

- `ShapeCannotLoseItsFilter`: the filter of the shape on the map is the latest
  request and ends only by showing what it found, the safety part of
  `ShapeAnswered`. The shape on the map is the latest one (`ShapeInv`), and no
  filter of an earlier shape can have its request id;
- `ResultsMatchTheirShape`: `ResultMatchesShape`, in every behaviour in which
  shapes are drawn over a layer on the map (`DrawsOverLayer`). Without that it is
  false: a shape drawn when the selected layer has gone finds no layer, and the
  features of the shape before it remain. `ResultInv` says that each shape has
  had a request of its own.

`ReportScheduleProofs`: `TypeCorrect`, `GraceIsRespected`, `RefusalIsHarmless`,
for any number of workers and any durations, and `UnlockingIsSafe`, the safety
part of `WorkingIsUnlocked`: only the start of an execution takes the schedule to
WORKING, with a fresh entry in the log, and an execution that finds WORKING timed
out leaves ERROR. None is inductive. The invariant says what an execution holds
where it is (one that was refused, or found a timeout, has read WORKING, so the
write of the first changes nothing and that of the second is never skipped), that
an execution that met no other is the only one, and that within the grace period
of a success that nothing has met and that is still in the log the alert stays in
SUCCESS or GRACE, with no execution past the grace check (`CalmKeepsGrace`). Only
pruning takes the entry of such a success, and not before the retention is over
(`SinceIsLogged`), hence `LongLogKeepsGrace`: if the log is kept as long as the
grace period (`GracePeriod <= Retention + 1`), the grace period holds without the
condition on pruning.

`AsyncEventsProofs`: `TypeCorrect`, `NothingIsSkipped` and `EventsRefinePromise`,
the refinement of `AsyncPromise`, for any number of jobs and any limits.
`NothingSkipped` says of one position, the last id, what has to be known of every
position the page may move to: the poll's and those of the timers (`AllHandled`).
The refinement needs that a listener fetches only after its job reported
(`ReportsConsistent`). `NothingIsSkipped` is the safety part of `PromiseSettles`:
the event of a job that waits is still to be read, or a timer will try it again,
unless it was trimmed or given up.

`SqlLabProofs`, for scripts of any length: `TypeCorrect`, `StopIsBounded`,
`SuccessIsShown`, and the safety part of `PageCatchesUp`: `FetchesAreAwaited` (a
query shown as fetching has a fetch under way), `FreshPollsSettle` (an answer
to a poll that has seen the end of the execution leaves the query neither pending
nor running, unless it succeeded without a stored result) and `RefusalIsShown` (a
submission that was refused, whose row stays PENDING, is shown as failed or
stopped once its answer has come, whatever later polls say). `StopSeen` says that
after a late block every check finds the row stopped; `EndSeen` that the results
key comes with the end of the execution, and the end with a status that no poll
takes for a running query; `PageSound` that neither the page nor an answer under
way has a key of a query that still runs; `RefusalSeen` that a query no worker has
taken has no key anywhere, so that nothing but its answer and a stop moves the
page. A poll that says SUCCESS therefore finds
either no key in the page, and the result is fetched, or a state that it keeps.
Each step is reduced to its effect first (`ExecutionEffect`, `StoppingStep`,
`PageStep`), with what it leaves alone (`ExecutionFrame` and the like).

`TokenRefreshProofs`: `TypeCorrect`, `RefreshersAreBounded` and `LockIsOwn`. The
invariant counts the requests that refresh against the lock if its taker still
does (`Held`) and the overruns; releasing another's lock loses the first and has
been paid for by the second. While there was no overrun, whoever refreshes is
therefore the taker of the lock, and its release deletes its own.

Only model-checked: liveness (`RevealSettles`, `ShapeAnswered`, `PromiseSettles`,
`PageCatchesUp`, `WorkingIsUnlocked`), which the proof system cannot conclude from
fairness. For each of them the theorems above state the safety part: what is waited
for is under way, and when it comes it ends the wait. How often such a step is needed (the answers of a load, the timers of
an event) is counted by TLC alone, being an induction over data.

## 6. Plan

Done: the map (`LayerReveal`, `LayerLoading`, `LayerVisibility`, `MapTools`), then
the services its charts run on (`ReportSchedule`, `AsyncEvents` with
`AsyncPromise`, `SqlLab`, `TokenRefresh`), each with its run and its theorems. The
order follows what the fork's users depend on.

What would come next, in this order:

1. `DeckSlicesControl`: items, drafts, drag and drop and the settings popover,
   with the deck it saves as the input of `LayerLoading`; type and uniqueness of
   the items (the assumption `DeckAssumption`) as a theorem.
2. The web socket transport: the server's sockets, its garbage collection and the
   reconnecting page, as a second implementation of `AsyncPromise`.
3. The upgrades of stored layer configurations as a function over versions.
4. The isolation by double click and the order of the legend in `LayerVisibility`.

## 7. Not modelled

`PROJECT.json` lists the components with status `not_modelled`, with the reason
for each:

- the layer list control: its result is modelled, as what `RawDecks` may hold,
  its drafts and dragging are not;
- the single-layer chart: the same tools and a simpler legend on one layer;
- data preparation, styling and geometry: pure functions, of which the modules
  keep what the state machines read;
- the GeoSet server API: requests that keep no state, and conversions that rename
  fields;
- the Superset platform beyond the four services above: large, mostly requests
  over a database, not written by this project.

Left out of the modelled services: the web socket transport; the content, recipients
and screenshots of reports; the cost estimates, limits and parsing of SQL.
The refresh of tokens is the only user of the distributed lock.
