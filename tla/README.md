# ADRO orchestration: TLA+ models and proofs

ADRO runs requirement execution plans: graphs of agent, squad, gate, merge,
repair and human nodes, frozen into a plan and driven by a scheduler that starts
provider runs, reconciles their results and routes along the graph's edges.
This directory holds a model of that engine, small instances that TLC checks,
and proofs that TLAPS checks. Paths below are relative to `src/`.

## The system and its parts

The engine is `internal/orchestration`:

| part | code | what it does |
|---|---|---|
| reducer | `transition.go`, parts of `scheduler.go` | pure transitions of a `PlanProjection`: start, finish, route, retry, takeover, repair rounds, `Validate` |
| validation | `validate.go` | which graphs a plan can be frozen from |
| scheduler, executor, worker | `scheduler.go`, `executor.go`, `worker.go`, `structural.go` | tick, structural nodes, dispatch, provider start, reconciliation, deadline |
| store | `repository.go`, `events.go` | event log, committed projection, replay |
| outbox | `repository.go`, `outbox_worker.go` | intents with leases, around every provider start |
| plan API | `internal/api/orchestration.go` | tick, approval, cancel, retry, takeover; starts the watcher |

Around it stand a second, SQL repository (`sql_repository.go`), definitions and
bundles (`model.go`, `definition_bundle.go`), the harness store
(`internal/harness`), the runtime kernel (`internal/runtime`,
`runtime/lifecycle`), the event stores (`adapters/eventstore`), the in-memory
store and its snapshots (`internal/store`), workspace bundles, the older
pipeline and its recovery (`internal/api/pipeline.go`, `recovery.go`),
comments and chat, provider adapters, runner, event bus, memory and context,
the HTTP server, plugins and SDKs, the web client, migrations and packaging.
`PROJECT.json` lists every one of them with its status.

How the parts interact: an *actor* (the watcher goroutine of a plan, a tick
request, an operator request) loads the committed projection, applies reducer
transitions to its own copy and writes the whole copy back together with one
event (`CommitEventProjection`). Nothing compares the stored projection with
the one the copy came from. Only events do: an event whose key is known is
dropped when its payload is the same and refused when it is not.

## Modules

| module | models | kind |
|---|---|---|
| `PlanReducer` | the reducer and `readyNodesAt` | operators over a projection record |
| `GraphValidation` | `ValidateGraph` | one predicate on the constants |
| `PlanExecution` | actors, store, event log, replay, plan API | state machine on top of `PlanReducer` |
| `AttemptLedger` | what the attempts of a plan promise | abstract specification |
| `Outbox` | the outbox and its three kinds of users | state machine |
| `MCPlanExecution`, `MCOutbox` | graphs and constants for TLC | instances |
| `PlanReducerProofs`, `PlanExecutionProofs`, `OutboxProofs` | | proofs |

**PlanReducer.** A Go method that mutates the projection and may fail is an
operator with value `[ok, p]`. `p` is what the method leaves in memory, which on
an error is not always what it was given: maps are shared and some errors come
after assignments. Names follow the code. Result texts, artifacts and contexts
are dropped; a predicate on an edge is the set of outcomes it accepts; usage is
kept, with the width of its counters (`IntMax`).

**PlanExecution.** `proj` and `log` are what is durable, `actor[x].p` is an
actor's copy. Every commit is a step of its own, and so is every point between
two commits where another actor or a crash can come in. The steps of one tick
are `BeginTick`, `StartStructural`, `DecideStructural`, `BeginDispatch`,
`DispatchReady`, `BindRun`, `EndTick`, with `StartRunFails`, `OutboxFails` and
`ResolveFails` for its error paths and `CloseAttempt`, `ClosePlan` for the
deadline. `ReconcileRun`, `ReconcileExpired`, `ReconcileWaits`,
`RecoverUnbound` and `ReconcileFails` visit one attempt each. `Faults` chooses
what goes wrong: `"crash"`, `"write"` (a refused write), `"outbox"`,
`"resolve"` and `"context"` (the watcher's context is cancelled). The watcher's
extra idle round after a reconciliation that changed something is left out; it
changes nothing. Identifiers are numbered as they are drawn (`NewID`), which the
log needs to name them; the code draws them at random, so where it sorts them
(closing attempts at a deadline, choosing a repair plan to dispatch) the model
takes any order.

**Outbox.** One action per repository call, each under the repository's lock.
Time is what is left of every lease, so no clock bound is needed. `lease` is the
lease of the attempt that an intent belongs to: recovery looks for an intent
only while that attempt is running and unbound.

An operator `X_slip` stands before `X` in some modules. It is `X` with a
plausible mistake, and nothing refers to it: it records what the properties
detect. `PROJECT.json` says which property detects which slip.

## What TLC checks

Twelve runs, each about one question. All graphs satisfy `ValidateGraph`, which
`MCPlanExecution` assumes and TLC evaluates.

| run | distinct states | shows |
|---|---|---|
| `Feedback` | 56,413 | gate, develop, test; a bug goes back once; two retries with backoff; crash, write, outbox and resolve faults. `TypeOK`, `UsageAccounted`, `ReplayAgrees`, `NotStranded`, `LedgerSpec` |
| `Approval` | 26,202 | an agent and a human decision side by side into an "all" join; approve, deny, cancel while no watcher runs, with and without a client key; crashes. `AttemptsAreLogged`, `NotStranded`, `LedgerSpec` |
| `Repair` | 131,401 | two repair rounds, a patch verified by two nodes in parallel, a bug reported by the target or by a verification, an exit reached beside the verifications. `SuccessIsVerified`; the watcher leaves the plan only when it is settled or after an error: `WatchSettles` |
| `Overlap` | 526,418 | approve, cancel, retry and takeover requests at any point of the watcher's loop, a human decision before an agent, crashes and outbox errors. `SingleFlight`, `AttemptsAreLogged` |
| `Deadline` | 12,611 | a development with retries, two parallel tests and a join. A watched plan that is open at its deadline ends: `DeadlineHonoured`; closing it closes all running attempts in whatever order: `ClosingIsComplete`. The context may end at any time |
| `Outbox` | 85,982 | executor, recovery and two dispatchers on one intent, crashes and failed writes. `OneLiveDelivery`, `AckedIsDelivered` |

Six runs end with a counterexample; each checks what a comment or document of
the repository says (quoted in `PROJECT.json`):

| run | the code does not guarantee |
|---|---|
| `TransientRepairFailure` | `AcceptedIsStorable`: after a transient failure of a repair target the reducer's result fails `Validate`, so the attempt cannot be closed |
| `OutcomeAfterTerminal` | `OutcomeFinal`: a branch that finishes after the plan has ended changes the outcome |
| `MissingResult` | `MissingResultFails`: a completed run without a structured result passes (a missing `break` in `worker.go`) |
| `SpentLoop` | `SpentLoopSettles`: when a feedback edge has used up its traversals, the result that asks for one more is refused; the attempt stays open, the watcher returns, and the human exit is not reached |
| `TakeoverLateResult` | `TakeoverFences`: a watcher that loaded before a takeover commits its late result over it |
| `OutboxPending` | `Converges`: an intent is never settled once its attempt was bound or finished without an acknowledgement |

### Further instances

These configurations are kept for reproduction; each shows one more behaviour of
the code with `tlc -config X.cfg MCPlanExecution` (`MCOutbox` for the last).

| configuration | shows |
|---|---|
| `CompetingTick` | a tick request beside the watcher overwrites committed attempts |
| `ApprovalOverwritten` | a watcher that loaded before an approval overwrites it, so that the projection no longer agrees with its log (`ReplayAgrees`) |
| `RolledBackAttempt` | a copy rolled back after `attempt.started` became durable deletes the attempt at its next commit |
| `TakeoverReplay` | the event of a takeover carries a token that replay refuses |
| `RetryReplay` | a second retry with the default key changes the projection without an event |
| `RetryReopens` | a retryable failure of one branch sets a plan running that another branch had ended; its "all" join then waits for the failed branch and nothing is left to do (`NotStranded`) |
| `LateStart` | a `StartRun` that fails after the lease of its attempt cannot be recorded (`ErrLeaseLost`); the watcher returns and leaves the plan open (`PlanSettles`) |
| `DeadlineReplay` | a deadline with nothing running ends the plan without an event |
| `DurationBudget` | an attempt over its duration budget cannot be closed, not even by the deadline |
| `ShortCircuitJoin` | an "all" join with a success and a failure edge per branch is never ready |
| `EntryLoop` | an entry node with a feedback edge is never ready |
| `WaitingReopened` | an edge reopens a human node that is waiting |
| `OpenExit` | a plan succeeds at its first exit, another still open |
| `DrainPoison` | `Drain` claims a failed intent again before the next one |

So the passing runs hold within stated limits:

* `ReplayAgrees` for one writer at a time: without requests that overlap the
  watcher, takeovers, repeated default-key retries and idle deadlines.
  `AttemptsAreLogged` is what is left of it with overlapping requests: nothing
  is committed that no event says, but what an event says may be overwritten.
* `LedgerSpec` without requests that overlap the watcher and without rollbacks
  beside a second running attempt.
* `UsageAccounted` compares the counters with the attempts that are committed. An
  attempt that is overwritten takes its charge with it, so the property does not
  say that no charge is lost when copies overlap, and it is not checked there.
* `NotStranded` for joins and entries as in the instances, and without a retrying
  branch beside one that ends the plan.
* `WatchSettles` and `DeadlineHonoured` except for a start that fails after its
  lease (`Unstarted`), `WatchSettles` also except for a result that is refused
  (`Unrecordable`). Then the watcher returns, and only another request goes on.

### Bounds

`MaxAttempts` lets every loop run to its limit: the feedback graph needs six
attempts for one bug with retries. The repair graph needs at most ten; the bound
is eleven, and no state has more than ten. Leases last one or two units and
`MaxTime` lets at least one lease and one backoff expire; in `Repair` it lies
beyond the last lease of the longest behaviour. The clock rests when nothing lies
ahead of it. `Overlap` has two nodes, one of them a human decision: its
interleavings are those of copies and not of nodes. `Deadline` has two attempts
running when the deadline comes, so that the order of closing matters. In the
`Outbox` run the interleavings are on one intent; two intents only matter for
the order in which `Drain` claims. Deadlock is not checked where a plan may
stop (terminal, or waiting for a person); in `Outbox` it is.

### Fairness

`LiveSpec` of `PlanExecution` assumes that a watcher that runs takes its next
step and that time passes. The watcher is a goroutine in a loop with a timer.
Once it has returned, only a tick or resume request starts another, and none is
assumed to come: nothing is assumed of clients. It is not assumed either that a
provider answers; a silent run is closed by its lease. The assumption is
suspended at the bound on attempts, so a bound that is too small shows as a
violation and cannot hide one. `LiveSpec` of `Outbox` assumes that workers finish
what they have begun and that time passes.

## What is proved

TLAPS proves these for every graph, any number of actors, requests, intents and
workers, and for all faults; the bounds `MaxTime` and `MaxAttempts` play no part.

* `TypeCorrectness`: `Spec => []TypeOK` (`PlanExecutionProofs`).
* `AttemptsAreSingleFlight`: `Spec => []SingleFlight`. A node has at most one
  running attempt, it is the current one, and the node says so.
* `DeliveriesAreExclusive`: `Spec => []OneLiveDelivery` (`OutboxProofs`). Two
  workers never deliver one intent under leases that are both good.

*Single flight.* `SingleFlight` alone is not inductive, since an actor may write
an older copy over the committed projection at any time. The invariant `IInv`
says that the committed projection *and every copy and rollback copy* is `Sane`
(typed, and single flight in itself). Then it does not matter which of them is
written. What is left is that each reducer operation preserves `Sane`, which
`PlanReducerProofs` shows. Routing, repair rounds and short circuits only make
`Moved` steps, which neither start nor touch a running node; the start and the
finish of an attempt change one node and its attempt together.

*Exclusive delivery.* `IInv` is `Types /\ Known /\ Matches`: a worker whose own
lease has time left is the one that the record names, with the same time left.
Two workers with good leases on one intent then have one name.

Assumptions: `GraphAssumption` (edges join nodes, `"tokens"` is counted),
`OutboxAssumption` (positive limits), and `OwnersDiffer`: workers that run at
the same time lease under different names. The code does not enforce the last
one. All watchers of a process share a name made from its pid, and a tick uses
the member's ID.

Only model-checked: liveness (`WatchSettles`, `DeadlineHonoured`,
`ClosingIsComplete`, and the counterexamples to `SpentLoopSettles` and
`Converges`), the implementation of `AttemptLedger`, `ReplayAgrees` and
`AttemptsAreLogged` (about the log), `UsageAccounted` (a fold over the attempts),
`NotStranded`, `SuccessIsVerified` and `AckedIsDelivered`.

## What is not modelled, and the plan

Within the engine: squad child plans, agent resolution (only that it may fail),
contracts and artifacts, the hash chain of the log, the state file, budgets that
refuse a start (modelled in the reducer, unlimited in the instances).

Next, in this order:

1. *Stores*: the state file protocol of `persistLocked` and the reload, mutate,
   save cycle of `sql_repository.go` with several processes; definition
   revisions.
2. *Event stores*: append with expected version, idempotency and subscriptions
   (`adapters/eventstore`), against the contract in `ports` and `conformance`.
3. *Harness store*: leases, checkpoints, transcript and its own outbox.
4. *Runtime kernel*: sessions, commands, effects and recovery.
5. *Workspace*: in-memory store, snapshots, bundle import and export.
6. *Pipeline and comments*: the sequential pipeline, its recovery, comment
   handoff and follow-ups.
7. *Proofs*: `AckedIsDelivered`; the action properties of the ledger under one
   writer; `SuccessIsVerified`; the safety invariants of each new module.

Not planned: the HTTP layer, provider adapters, telemetry, the web client, SDKs
and packaging, which are input and output around these components.
