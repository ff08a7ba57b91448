# FiberScope: a TLA+ verification project

FiberScope (`src/`) is a Go + Vue application that imports offline OTDR traces
of fiber routes, detects events on them, compares a trace with the baseline of
its route, and leads a localization case through analysis, review and closing.
This directory models the parts of it whose correctness depends on order:
handlers that read and then write, transactions, workers that outlive their
lease, greedy algorithms, browser tabs that show what is no longer so. TLC checks
every model on small instances; TLAPS proves every invariant, action property and
refinement that the passing runs check for all values of the constants. What stays
with TLC alone is liveness.

## 1. The system

The server is one Go process (gin, GORM) over Postgres. Every HTTP request runs
in its own goroutine. The layers are router → middleware → handler → service →
repository; handlers only parse and answer, services decide, repositories issue
SQL. The only state kept in memory is that of the rate limiters; everything else
is in six tables.

| component | state | operations that change it | talks to |
|---|---|---|---|
| localization cases (`service/case_service.go`, `repository/case_repository.go`, `constants/case.go`) | row: status, version, updated_at (the lease), analysis_error, differences and parameters, estimate, reviewer, closed_at | Create, Analyze (recover, start, fail, complete), Confirm, Close | reads routes, traces and events; writes audits |
| events (`service/event_service.go`, `repository/event_repository.go`) | rows of a trace: algorithm values, revised values, reviewed flag; processing parameters on the trace row | Detect (replaces unreviewed rows), Review | reads trace and route; runs the signal pipeline; writes audits |
| fiber routes (`service/route_service.go`, `repository/fiber_route_repository.go`) | row: code, five editable columns, baseline trace | Create, Update (PATCH), SetBaseline | reads traces; writes audits |
| trace import (`service/trace_service.go`) | trace rows, never changed afterwards except by Detect | Import | reads the route; writes audits |
| signal pipeline (`algorithm/denoise.go`, `detect.go`, `distance.go`) | none (pure) | MovingMedian, DerivativePeaks, MergePeaks, Detect | called by import and detection |
| baseline comparison (`algorithm/compare.go`) | none (pure) | CompareBaseline, PrimaryDifference | called by Analyze |
| audit trail (`repository/audit_repository.go`) | append-only entries with actor, action, before, after | Create, always inside the transaction of the change | written by all services |
| rate limiter (`middleware/middleware.go`) | map of windows per scope and client, time of last sweep, a mutex | Allow | called before import, detection, analysis, login |
| authentication and RBAC (`service/auth_service.go`, `middleware`) | the users table; tokens are stateless and signed | Login, Parse (expiry, signature, then the account as it is now), the role list of each endpoint | runs before handlers |
| server process (`cmd/server/main.go`, `MigrateAndSeed` of `repository/user_repository.go`) | what main is doing; the accounts it seeds | start, seed, listen, shut down gracefully; died and started again by the container's restart policy | everything |
| session of a browser tab (`stores/auth.ts`, `api/client.ts`, `router/index.ts`) | token and user in localStorage, shared by the tabs; a copy of them in each tab's Pinia store | login, logout, the interceptors of requests and answers, the guard, reload | localStorage, HTTP |
| cases page (`pages/CasesPage.vue`, `ReviewDialog.vue`, `stores/cases.ts`) | rows served last, busy and loading flags, the case a dialog is open for | search, create, analyze, review, close; takes answers in any order, gives up after 30 s | HTTP only |

**What is hard.** Handlers read rows *outside* the transaction that writes them
(cases, events, routes): between the two anything may commit. The case workflow
answers with conditional updates and a version, events with row locks and
`WHERE reviewed = false`, routes with nothing but the unique index. An analysis
has a ten-minute lease, no heartbeat and no cancellation: a worker may come back
after somebody recovered its case. The process may stop between any two
statements. The limiter's callers read the clock before they wait for its mutex.
A role is looked up once per request and may be taken away while it runs. The tabs
of a browser share a token that any of them, or time, may take from the others, and
each shows rows that have moved on.
The two algorithms are greedy scans against a moving partner, whose results at
ties and boundaries are not obvious. `PROJECT.json` lists each hazard at its line
with the properties that cover it.

**What makes each part correct.** *Cases*: the audit trail is a legal path with
one entry per committed update; only one worker holds a version; a run reports
once; what is under review never changes; every analysis ends. *Events*:
unreviewed events are those of one detection, the last; reviews survive
detections and agree with the audit; no two transactions wait on each other.
*Routes*: one code, one route; a row is what its audit entries say; a baseline
is a trace of its own route. *Comparison*: every event is accounted for once and
no matchable pair is missed. *Pipeline*: dominant peaks survive, nothing vanishes
for nothing, a step is found where it is and as what it is, a spike is not. *Limiter*: a refusal is
earned, admissions are bounded, ended windows are forgotten. *Process*: nobody is served
before the accounts exist. *Sessions*: what runs was entitled by the account of
today, and a tab whose session is over finds its way to the login page. *Cases page*:
no button stays blocked, and stale rows keep nobody from getting a case closed.

## 2. The modules

| module | models | extends / instance |
|---|---|---|
| `CaseWorkflow` | abstract specification: the workflow of `constants/case.go` with a history, no requests, versions or leases | |
| `CaseLifecycle` | all five operations of the case service, one step per read and per transaction; faults, crash, lease expiry | `INSTANCE CaseWorkflow` with the audit trail as history |
| `CaseLifecycleProofs` | theorems about it | `CaseLifecycle`, `TLAPS` |
| `TraceEvents` | abstract specification: detection and review of one trace as single steps, with no requests, locks or statements | |
| `EventReview`, `EventReviewProofs` | Detect and Review of one trace, one step per statement, with row locks; theorems | `INSTANCE TraceEvents`; `TLAPS` |
| `RouteArchive`, `RouteArchiveProofs` | Create, Update, SetBaseline of routes, and trace import as far as it ties a trace to a route; theorems | `TLAPS` |
| `BaselineCompare`, `BaselineCompareProofs` | `CompareBaseline`, one step per baseline event, and `PrimaryDifference`, one step per difference; theorems | `TLAPS` |
| `SignalPipeline`, `SignalPipelineProofs` | `MovingMedian`, the noise floor, `DerivativePeaks`, `MergePeaks`, `ClassifyPeak` and the route bound of `Detect`; theorems | `TLAPS` |
| `RateLimiter`, `RateLimiterProofs` | `RateLimiter.Allow` and its callers; theorems | `TLAPS` |
| `ServerProcess` | start, seed, shutdown and death of the process; the users table | |
| `Sessions`, `SessionsProofs` | Login, Parse and RBAC of the server and the sessions of the tabs of one browser; theorems | `EXTENDS ServerProcess`; `TLAPS` |
| `CaseClient` | the cases page in several tabs, from the buttons to the answers | `INSTANCE CaseWorkflow` as its server |
| `MC*` | instances for TLC: roles, symmetry, candidate lists, traces | the module they are named after |

Three specifications thus meet at the workflow of a case: `CaseWorkflow` says what is
promised, `CaseLifecycle` shows (and `CaseLifecycleProofs` proves) that the handlers
keep it, and `CaseClient` is the page that relies on it.

Operators preceded by a comment that begins "Mutant:" are plausible
bugs of the definition below them. They are not part of any specification; they
serve to see that each property fails when the code is wrong.

### CaseLifecycle

`cases` is the table, `audits` the entries of each case, `req` what a handler
holds in local variables between two database calls. A read is a step; a
transaction is one step, because each updates one row and inserts one entry, and
Postgres evaluates the `WHERE` of an `UPDATE` on the newest committed row. That one
of the two statements takes effect without the other is therefore no behaviour of the
model: `AuditComplete` and `ImplementsWorkflow` rely on the transaction for it.

| action | code |
|---|---|
| `Create` | `CaseService.Create` |
| `AnalyzeGet`, `Recover`/`NotRecovered`, `Reload` | the read, `RecoverStaleAnalysis` and second read of `Analyze` |
| `StartAnalysis`/`StartConflict` | `Transition(draft → analyzing)` with the version |
| `AnalysisFailed`, `AnalysisCompleted`/`SaveConflict` | `SaveAnalysis`, conditional on the status only |
| `ConfirmGet`, `Confirm`/`ConfirmConflict`; `CloseGet`, `Close`/`CloseConflict` | the read and the conditional transition of `Confirm` and `Close` |
| `RequestFails`, `Crash`, `LeaseExpires` | a failing call or panic, a stop of the process, ten minutes without a write |

Abstractions: `result` stands for `differences_json` and `parameters_json`
(written together) and holds the version its run started under; the lease is one
bit; what `compareEvents` finds is a free choice among failure, no estimate and
an estimate; the client echoes any version it can have seen. The entries' `run`
field is not stored by the program and only tells runs apart.

### EventReview

Detect's transaction writes several rows in several statements, so statements
are steps: `DetectRead`, `DetectCompute`, `DetectLock` (`UpdateProcessing`, which
serialises detections of a trace), `DetectDelete` (one row at a time, each of which
may have to be waited for), `DetectDeleted`, `DetectCommit`; and
`ReviewRead`, `ReviewCheck`, `ReviewUpdate`, `ReviewCommit`. A statement waits for
rows another transaction has written and then looks at them again (READ
COMMITTED). `Candidates` gives the distances the pipeline finds with given
parameters, in the order of the samples and therefore of the distances, so those
`Within` a route are the first of them. `RouteUpdate` changes the length of the route at any time; `Abort`
ends a handler before its commit. `Analysts` and `Reviewers` are the roles the routers
ask for; an admin is in both.

`ImplementsTraceEvents` states that all of this looks like `TraceEvents`. A detection
takes place at its commit: the locks its statements hold, and the second look a
waiting DELETE takes, make what they wrote earlier appear at once. The length of the
route it goes by is the one that was read, at some moment before; that of a review is
not checked again, which is why `TraceEvents` lets a review give any distance (see
`event_beyond_route`).

### RouteArchive

`CreateCheck`, `CreateInsert` (waits on the unique index, then succeeds or fails),
`CreateCommit`; `UpdateRead`, `UpdateWrite`, `UpdateCommit`; `BaselineRead`,
`BaselineCheck`, `BaselineWrite`, `BaselineCommit`; `Import`; `Abort`. The columns a
PATCH may name are the constant `Fields`; the update writes all of them with the
values read earlier, but for those the PATCH names (`Patched`), and never the baseline.

### BaselineCompare and SignalPipeline

Sequential algorithms as state machines, one step per loop iteration whose
outcome matters, checked over all bounded inputs. Distances, losses and samples
are small integers (samples are multiples of four, so that means of two are exact). A sample's
distance grows with its index, so the route's length is an index. `Prefer` is one
turn of the loop of `PrimaryDifference`; it takes the differences in the order of
the final sort, which `sort.Slice` leaves open between two of one kind and
distance. `Sorted(bucket, k)` is what stands at place k of the sorted bucket, told by how many
samples are smaller. The pipeline's lists of peaks and events are always in the order
of the index that each element carries, so they are sets here, and `Merge` takes the
peak with the smallest index. `ClassifyPeak` goes by the place, the sign and the height
of a peak;
`NoiseFloor`, from which its reflectance is counted, is the median of the last fifth. Left out: confidence, attenuation, rounding, the
uncertainty that goes with the preferred difference.

`PrimaryDifference` prefers a difference that is surer *or* the first increase of
loss, a condition that is no order. No document says which difference it should end
with, so `FaultJustified` states what the loop does guarantee: no difference behind
the reported fault in the list, or at the same place of it, is surer, or an increase
where the fault is none; one before the fault is less sure or *displaced*: not before it the
list has one that is no increase and at least as sure as it, and behind that, not
behind the fault, an increase no surer than the fault, which takes the lead. So without
an increase the fault is the surest difference, and a fault of another kind stands
behind all increases. It is not more than that: over the list loss_increased 70,
new 90, loss_increased 60, disappeared 63 the loop ends with the last, although the
first, displaced, is both surer and an increase of loss. The bounds of
`baseline_compare` hold this case.

### RateLimiter

`Arrive` reads the clock, `Admit` and `Refuse` are the two ends of `Allow` under the
mutex with that reading, `Tick` lets time pass while nobody has waited longer
than `MaxDelay`. `admitted` is a history of the clock at each admission. `TableSwept`
compares each window in the map with all admissions since: a sweep that is omitted,
or made too seldom, leaves one behind that should have been gone.

### ServerProcess and Sessions

| action | code |
|---|---|
| `Boot`, `SeedExisting`, `SeedCreate`, `Listen` | `main` up to the listener; the turns of the loop of `MigrateAndSeed` |
| `Terminate`, `Exit`, `Crash` | SIGTERM and `server.Shutdown`, its end, a death between any two statements |
| `ChangeAccount` (`Operate`) | somebody at the database: the program has no endpoint for it |
| `LogIn`, `LoginRefused`; `LoginAnswered`, `Enter` | `AuthService.Login`; `login` of the store, then `submit` of the page |
| `SendCall` | the request interceptor, `AuthMiddleware` and the checks of `Parse` on the token itself |
| `Authorize`, `Forbid`, `RejectAccount`, `Handle` | the lookup of `Parse` with `RBACMiddleware`: through, 403, 401; the end of the handler |
| `Unauthorized`, `Logout`, `Reload` | the response interceptor on 401; `leave` of `App.vue`; a fresh load of the page |
| `Lapse` | the oldest token reaches its expiry |

Login, and the checks of a token before the lookup, are one server step each: the
answer depends on one moment only. Passwords and signatures are checks that
succeed or fail. Token and user are set and removed in localStorage by one
synchronous piece of code, so they are one value; the role kept beside them only
hides buttons and is left out. A refused login goes through the same interceptor as
any 401 and empties localStorage. A lookup that fails for any reason is answered
like an inactive account. When the process ends, what is in flight is lost, and the
tab gets an error that is not a 401. `entitled` is a history: the requests that the
users table has permitted at some moment since they arrived.

### CaseClient

Each tab has the rows it was served last (of a case, the status; two rows when a list
overtakes the answer to a creation), its flags, the case its dialog is open for, and
its requests with how far they have got. `Search`, `Create`, `Analyze`, `Open`,
`SubmitReview`, `Cancel`, `Close` and `Leave` are what a person can do, guarded by what
the page shows and covers; `Serve` is the server, through the actions of
`CaseWorkflow`; `Arrives`, `Errs` and `TimesOut` are the ends of a request, each with
its `finally`; `RequestFails` and `Crash` are faults of the server.

The version sent back with a row adds nothing here: `pending_review` and `confirmed`
are entered once, so a case that is in the status shown is in the version shown. The
confirmation box of `close` is one step with the click on its button. Left out: the
filter on the status (it only hides rows), the first mount of the page (`Leave` is
every later one), several requests of one kind by one tab, and an analysis that
outlives its lease, which `CaseLifecycle` has, and the limit of a list to its first
hundred rows.

## 3. The runs

| run | question | bounds and why they are enough |
|---|---|---|
| `case_safety` | rows, trail and abstract workflow under all interleavings, with one fault and expiring leases | two analysts and a reviewer, one case (no operation touches two), versions up to 6: a start, its recovery, a second start, a late save, confirmation and closing fit |
| `case_liveness` | requests end; an analysis without a fault ends by itself; with faults it ends once the lease has run out and somebody asks again | an analyst and an admin, who may also review; version 4; two faults |
| `case_optimistic_lock` | *violation*, see findings | as `case_safety` |
| `event_race` | two detections and reviews at once: results unmixed, reviews kept and audited, the abstract trace implemented, and all requests end although they wait for each other's row locks | an analyst, an admin and a reviewer; two parameter sets of one and two peaks and three event ids, so a detection may delete two rows; two reviews committed or in flight, so two of one event overlap and a detection waits for both |
| `event_before_image`, `event_beyond_route` | *violations* | two requests; two peaks, the second beyond the shorter route |
| `route_archive` | creations of routes with one code, updates, baseline changes, baselines of other routes | three requests, two routes and codes, one field of two values, two traces; no request begins once two entries of its route are logged, so up to four are |
| `baseline_compare` | all pairs of lists of up to three events at three distances with three readings | three events make a chain of stolen partners; the distances lie at, within and beyond the tolerance of 2; two events without loss of different confidence and one with a loss between them give increases of two confidences and surer differences of the other kinds |
| `signal_pipeline` | traces of 18 samples (16 are the program's minimum): those whose first seven vary over three levels, and those with one step, at any sample, between two of five levels; three windows (one even), two thresholds, two merge windows, two route ends | four adjacent peaks of different heights and a spike in the varied part; a step of each kind at every place; differences equal to a threshold and gaps equal to a window occur |
| `rate_limiter` | refusals, admissions and sweeps of two clients | limit and window 2, waits of one tick, six ticks, seven requests: three windows of one key met by one span, one of them reopened by a late request after a sweep; a window of a client that has gone ends long enough before the last admission of another to be missed if no sweep is made |
| `sessions` | seeding, entitlement, and the way back to the login page | two tabs, an analyst's and a reviewer's account, an endpoint for reviewers, so that roles matter and 403 occurs; two tokens, so that one replaces the other; one disturbance (a death, a shutdown or a change of an account) on top of any number of logouts, reloads, refusals and expiries |
| `case_client` | flags end; a case gets through | an analyst's and a reviewer's tab and one case (no operation touches two); two requests of a tab at a time, which is what lets an answer overtake another; one disturbance: a crash, a failing, slow or lost request (also an analysis that fails by itself), or a page left |

Symmetry is used for people, codes, values, and clients in safety runs only, and
never for the constants that roles or parameters tell apart. Deadlock is checked
in the runs of the cases, the events, the sessions and the cases page, where something
is always possible; the comparison and the pipeline end, and limiter and archive rest
once their bounds on time, requests or entries are used up. The disturbances of
`sessions` and `case_client` share one bound: each alone is what the properties are
about, and the liveness check grows with their product.

The limiter's bound is tight: with waits, two clients and `Limit = 2`, a span of one
window can hold admissions from three windows, because a sweep made with a later
reading drops a window that a request with an earlier reading then reopens. Twice
the limit, the usual bound of a fixed window, is violated.

### Fairness

* `HandlerFairness` (cases): weak fairness of the next step of every handler.
  net/http runs each accepted request in a goroutine that the Go scheduler runs,
  and no step of a case handler waits for a client.
* `Retried`, the hypothesis of `AnalysisEnds`: time passes (`LeaseExpires`) and an
  analyzing case is asked for again. The second is not the server's promise: it is
  the recovery the code offers (a repeated POST of `/analyze`), and without it a
  case whose worker died does stay in `analyzing`. `AnalysisEndsUnlessFault` shows
  how far one gets without it.
* `FairSpec` (events): strong fairness of each request, since a step that waits
  for a row lock is enabled and disabled again as others take the lock. Postgres
  queues the waiters of a row.

* `FairSpec` (sessions): the process is started again and gets on with its seed
  (`restart: unless-stopped` of the compose file), a shutdown ends
  (`ShutdownTimeout`), handlers are scheduled and answers reach the tab that waits
  for them. `Uses`, the hypothesis of `LostSessionEnds`, is a person who goes on
  asking and at some time stops reloading the page: nothing but a request tells a
  tab that its session is over.
* `FairSpec` (cases page): the requests of each kind of each tab proceed. `Persists`,
  the hypothesis of `CasesGetThrough`, is people who do not give up: they search
  again and again and use a button that is offered again and again. Both are
  strong, for buttons come and go with flags, dialogs and answers. `Stranded` is
  the one exception: the page offers no button for an analyzing case, so nobody
  asks again for an analysis the server has lost, although the server would
  recover it (`AnalysisEnds`).

Apart from these named hypotheses no fairness is assumed of clients, and none of
administrators or `RouteUpdate`.

## 4. Findings

Each is a run in which TLC refutes what a document of the repository says.

1. `case_optimistic_lock`: the README says transitions use conditional updates
   *and* the version. `SaveAnalysis` asks for the status only, so a worker that
   outlived its lease completes the run that replaced it. The trail stays legal
   and each run still reports at most once (`case_safety`), but the result under
   review can be that of the run that was given up.
2. `event_before_image`: the before-image of a review is read before its
   transaction; the second of two concurrent reviews logs a value it did not
   replace, and one that omits the distance writes the old one back.
3. `event_beyond_route`: the length a reviewed distance is checked against may be
   shortened before the review commits.

More places were met on the way that no document contradicts, or only if read
strictly. Baseline matching is greedy in the order of the baseline
(`algorithm/compare.go:32`): an event may lose the current event at exactly its own
distance to an earlier one; what does hold is that no pair within the tolerance is
left unmatched (`NoMissedPair`). The before-image of a baseline change is read outside
its transaction, as that of a review is (2). `MergePeaks` compares a peak with the
last kept one only, so a small one may survive just outside that one's window beside
a larger one that was merged away; what does hold is that kept peaks are apart and a
dropped one has a peak at least as large in reach (`signal_pipeline`). The cases page
never retries a lost analysis (`Stranded`), and shows a case twice when a list
overtakes the answer to its creation. A refused login or a late 401 of one tab
removes the newer token another tab has just stored.

## 5. What is proved

All theorems are of the form `Spec => ...`, for every value of the constants that
the module's `ASSUME` allows. They assume of the code what the modules say, and of
the constants that roles, routes and `None` are as declared, that the candidates of a
detection come in the order of their distances (`EventAssumption`), that a trace has
at least 16 samples and windows and thresholds pass the checks of the program
(`PipelineAssumption`), and that nobody waits for the limiter's mutex longer than a
window (`LimiterAssumption`). Every inductive invariant was checked with TLC on a
small instance before it was proved.

**`CaseLifecycleProofs`** — type correctness, all seven safety invariants of
`case_safety`, `ReviewedIsFrozen`, and `HandlersImplementWorkflow` (refinement).
Together these invariants are not inductive. `IInv` adds to them (it was first
checked with TLC in the configuration of `case_safety`):

* `ReqOK` and `AbsentOK`: what a handler between two calls may hold, and that a row
  that does not exist is empty;
* `Workers`: a running worker's version is that of a `started` entry of its own in
  the trail, with no outcome naming it yet — this gives `LeaseUnique` and
  `RunReportsOnce`, since an entry has one actor and a request slot runs one run;
* `Echoes`: the version a client sent is not newer than the row the handler read,
  nor that newer than the row now — so a confirmation that commits at the sent
  version replaces the row that was read (`BeforeImageAccurate`);
* `Stages`: which columns are filled in each status.

Every step is shown to be either `Quiet` (no row changes except its lease, no
entry) or `Commits` (one row gets version + 1 and one entry, under the
guard of one of the seven statements). Each part of `IInv` is then preserved by
these two shapes instead of by twenty actions, and the refinement maps `Commits`
to one workflow step and `Quiet` to a stutter.

**`RateLimiterProofs`** — `TypeOK`, `TableSwept` and `RefusalEarned` for every limit,
window, number of clients and delay up to a window. `IInv` adds `Readings` (a
waiting request's reading is at most `MaxDelay` old, and no sweep used a reading
from the future), `NoneEnded` and `SweptLately` (no window in the map had ended at
the last sweep, and no admission is more than a window and a wait later than that
sweep: together they are `TableSwept`) and `WindowsCounted` (a window with count n stands for the last n
admissions of its key, all decided since the reading it was opened with, and n is
at most the limit). A refused request then pays for `Limit` of them.

`AdmissionsBounded` needs a second invariant, `Ledgers`: each entry of a key's log can
be given the reading that opened the window it counted in, such that two windows are
opened at least `Gap` = `Window - MaxDelay + 1` apart, entries `Limit` apart count in
different windows, each was decided between that reading and `Window + MaxDelay` after
it, and the last ones are those of the open window; if there is none, all of them
ended before the last sweep. The gap is where delay costs something: a request that
reopens a swept window reads the clock up to `MaxDelay` before the sweep. Three gaps
less `Window + MaxDelay` exceed a window exactly when `4 * MaxDelay < Window + 3`.

**`SessionsProofs`** — `TypeOK`, `ServingSeeded` and `AuthorityCurrent` for every set of
accounts, tabs, endpoints and roles, every seed list and every number of tokens and
faults. `IInv` adds `SeededSoFar` (while seeding, the accounts before the current
one exist: accounts are changed but never removed) and `RequestOK` (a request is in
flight only while the process is up, carries a token that was issued, is
entitled as soon as the users table permits it, and stays so). A step of a tab
concerns its own request (`TabRequests`); only `Operate` can make a waiting request
permitted, and entitles it then (`ServerRequests`).

**`EventReviewProofs`** — `TypeOK`, `PendingMatchTrace`, `ReviewsAudited`,
`ReviewsSurvive` and the refinement `ImplementsTraceEvents`, for every set of people,
parameters, candidates and lengths. The properties speak of committed rows, which a
commit changes all at once with what its transaction wrote long before. `IInv`
therefore says of each request what it holds and why that is still so: `LocalsOK`
(its local variables; what it found is within *some* length of the route), `LocksOK`
(the trace row and the event rows are locked by exactly those who have written them)
and `WritesOK` (rows a detection has deleted are still pending, and once its DELETE has
ended they are all that are: nobody else can review or insert any, for one would
need a row lock and the other the trace lock). A commit of a detection then is one step
`Detect` of `TraceEvents`, that of a review one step `Review`, and every other step a
stutter.

**`RouteArchiveProofs`** — `TypeOK`, `CodesUnique`, `RowAsLogged` and
`BaselineBelongs` for every number of requests, routes, codes, fields and values.
`IInv` adds `LocksOK` (an inserted code and an updated row are locked by their
transaction and nobody else), `InsertOK` (an insert that is not committed has an id of
its own and a code no row has), and in `LocalsOK` that a checked baseline is a trace of
the route: no trace ever moves. `Logged` separates the two kinds of entries of a
trail: an update writes the fields and logs them, a baseline change writes the
baseline, and each holds the row from its write to its entry, so neither can log
what the other has overwritten.

**`BaselineCompareProofs`** — all four properties, for all lists, tolerances and
thresholds. `IInv` is the invariant of the two loops: `Partners` (one to one, within
the tolerance), `Leftover` (what was given up has no untaken event within the
tolerance), `Copies` (of equal lists each event so far is matched with its own copy,
because an earlier copy at the same place is taken by then), `Found` (the differences
are those of the partners) and `Chosen` (`FaultJustified` of the differences seen so
far, which stand before all others in the list). That list is a weak order
(`WeakOrder`), so a difference looked at next is behind the one preferred; if it is an
increase and no surer, it displaces it together with whatever was no surer than it,
and what was displaced before stays so (`JustifiedStill`). `NoMissedPair` follows from `Leftover`, since what is taken stays
taken.

**`SignalPipelineProofs`** — all four properties, for traces of any length and any
levels and for all parameters. For the merge, `Advancing` says that the open peak lies
beyond the reach of every closed one, and the rest beyond the open one, although the
open peak moves as larger ones replace it; `Covered` that each dropped peak has its
larger neighbour. For the filter, `Majority` is the fact about medians: a value that more
than half of a bucket holds is its median (`Ranked` shows that a sorted bucket has
something at every place, `Prevailing` that the value is what stands there). More than
half of each bucket lies on the sample's own side of a step that is further than half a
window from the ends (`StepUnmoved`), and all but one sample of a bucket of three or
more on the level of a disturbed trace (`SpikeFlattened`). So the filtered trace of a
step is the recorded one, with one peak, which `Covered` keeps since there is no other;
and the filtered trace of a spike is flat.

**Only model-checked**: the liveness properties (`RequestsEnd` of cases and events,
`AnalysisEnds`, `AnalysisEndsUnlessFault`, `LostSessionEnds`, `BusyEnds`,
`CasesGetThrough`), because the proof system has no `ENABLED` and so no fairness.

## 6. What is not modelled

* Listing and reading endpoints beyond what the cases page is served, pagination, DTO
  validation, error wording, the scrubbing of snapshots: no state, or formatting.
* The routers: declarations of paths and middleware, without state. The guards they
  name are the role constants of the models.
* Connection pool, migration of tables, logging, parsing and checking of the
  environment: I/O. Where only the end of the process matters, it is `Crash` or
  `Abort`; `ServerProcess` has its start and its shutdown.
* Confidence, attenuation, rounding, and `MovingAverage` and `DistanceUncertainty`
  (which nothing calls): floating point beside the modelled control.
* The numeric validation of routes and traces (ranges, the five percent coverage of
  an import): single comparisons, apart from the race of the length, which
  `EventReview` has.
* The other pages of the web client, which repeat the pattern of store, flag and
  dialog; charts and layout.
* Deletion: the program deletes nothing but unreviewed events.

## 7. Plan

Done, in this order: cases with their abstract workflow and proofs; comparison and
choice of the fault; limiter with proofs; signal pipeline with classification;
routes; events with their abstract trace; process and sessions with proofs; the
cases page over the abstract workflow; proofs about events with their refinement,
routes, comparison, pipeline, and the limiter's bound. Next:

1. Proofs about the cases page: what a tab may hold between request and answer, and
   that its server only ever takes steps of the abstract workflow.
2. `compareEvents` reads the events of two traces by two statements while detections
   replace them: which detection a difference refers to.
3. An abstract specification of a route that `RouteArchive` implements.
