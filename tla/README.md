# Verification of the parallel AI test orchestrator

TLA+ models of the orchestrator's gateway, reconciler, notification dispatcher,
artifact retention and runners, checked with TLC and, where that is possible, proved with TLAPS.
Paths below are relative to the repository (`src/`).

## The system

A client asks the gateway to *prepare* tests for a task. The gateway stores a
job, starts a runner in a Kubernetes Job that drafts a test plan, and waits for
code. When a commit is pushed, *verify* starts an attempt: a generate runner
writes tests for that commit, then a test runner executes them. Runners report
by HTTP callbacks. A newer push supersedes the attempt; an operator may cancel
it; a cron job, the reconciler, ends what has been idle for too long and cleans
up. Every outcome is announced to the client by a signed notification.

| component | state it keeps | operations | interacts by |
|---|---|---|---|
| status machine, `gateway/app/domain/test_jobs.py` | none | `is_transition_allowed` | called by every write of a job |
| job tables, `gateway/app/repositories` | job row with a version, verify attempts, event log, outbox, artifacts, idempotency keys | `record_event` (compare-and-set on the version), `claim_verify_attempt`, `set_latest_k8s_job`, `clear_k8s_job`, `enqueue` | SQL transactions |
| job service, `services/job_service.py` | none of its own | `prepare`, `verify`, `_supersede_and_verify`, `cancel`, `record_runner_event` | HTTP requests in; tables, Kubernetes and both dispatchers out |
| job dispatcher, `services/job_launcher.py` | a thread pool's queue, in memory | `_run_prepare`, `_run_generate`, `_run_test`, `_record_dispatch_error` | job service submits after its commit; creates Kubernetes Jobs |
| reconciler, `services/reconciler.py` | what a sweep has read | `expire_stale_jobs`, `release_finished_jobs`, `purge_expired_artifacts`, `retry_notifications` | tables, Kubernetes, artifact store, notification dispatcher |
| notification dispatcher, `services/notification_service.py` | a thread pool's queue, in memory; the outbox row | `submit`, `reconcile_pending`, `_deliver` | tables; HTTP to the client |
| artifact stores, `services/artifact_service.py`, `codex-runner/src/artifacts.ts`, `test-runner/runner.py` | write-once files | put, read, delete | runners upload through the gateway |
| runners, `codex-runner/src`, `test-runner/runner.py` | a workspace; the test runner a process group for each command | prepare, generate, test | callbacks to the gateway with retries |
| process runner, `codex-runner/src/process.ts` | one child process | run with timeout, abort, output limit | used by the codex runner |
| patch policy, `codex-runner/src/patch-policy.ts` and `verify_and_apply_patch` in `test-runner/runner.py` | none | validate a diff, check it again | BLOCKED or TEST_QUEUED callback; ERROR if the second check refuses |

What is hard: two gateway replicas and the reconciler share nothing but the
database, and each of their handlers reads a job, calls Kubernetes or the Git
host, and only then commits. Launches and notices wait in memory between the
commit that decided them and the thread that does them. Runners of superseded
attempts keep running and keep reporting. Callbacks and pushes are delivered
late, twice, out of order or never.

What makes each part correct:

- tables: no update is lost and no write is decided on a stale read; attempt,
  commit and result of the row belong together;
- job service: only the current attempt's runners move the job, a verdict is
  earned by the attempt that carries it, an attempt has one announced outcome;
- prepare: a task has one job, whoever hands it in and however often, and its runner
  is started at most once, for a committed job with its plan stored;
- dispatcher and reconciler: every job ends, also among many, every Kubernetes Job a finished job
  names is deleted, and a live attempt's Job is never taken for a finished one's;
- notification dispatcher: every notice is delivered or given up after its last
  attempt, and a settled notice is settled for good;
- artifact store and retention: what is purged is gone, what a job still needs is
  not purged, and everything that may go does go;
- runners: they do what the gateway expects of them, the verdict it stores is what
  the tests came to, and every runner ends;
- process runner: every call ends, and a result is whole;
- patch policy and test runner: both programs read the policy alike, a verdict names
  its reason, and no command keeps the runner from reporting.

## Modules

| module | models |
|---|---|
| `JobStatus` | `domain/test_jobs.py`: statuses, transitions, the status a runner of each phase reports, the failure class of an outcome |
| `JobTable` | the rows of one job and the conditions and effects of the repository statements: `CanRecord`/`Written`/`ClearedResult` are `record_event`, `Claimed` is `claim_verify_attempt`, `LaunchIsCurrent` is `set_latest_k8s_job` |
| `TestJobs` | the handlers, sweeps and launches over those rows. A handler is a record in `handlers`: it is put there by the action that reads the job (`VerifyRead`, `RunnerRead`, `CancelRead`, `ExpireScan`, `ExpireRead`, `ReleaseScan`, `DispatchErrorRead`) and removed by the one that commits (`VerifyFirst`, `VerifySupersede`, ...) or by `Abandon` (rejected, rolled back, or lost with its replica). A call to Kubernetes is a step of its own in between |
| `JobLifecycle` | the abstract specification: what a client that polls the job may rely on |
| `MCTestJobs` | what TLC checks of `TestJobs` beyond its own properties: a statement of the operations guide |
| `TestJobsProofs` | theorems about `TestJobs`: the row first, then the log, the outbox and the launches |
| `PrepareIntake` | `JobService.prepare` as the threads of several replicas: `FindPrepare`, `InsertJob` and `Join` are `create_or_get_prepare`, `ClaimKey` is `claim_idempotency_key`, `StorePlan` the plan's file and row, `Commit`, `Submit` and `Reply` the rest; `Lose` is an unhandled error or the replica's death at any step; `PrepareFails` is the job's end in `ERROR` or `TIMEOUT` later on, which no request asks for |
| `Intake` | the abstract specification of `PrepareIntake`: what a client that hands in a plan gets, which for a plan whose prepare has failed is not what the operations guide says (see "Findings") |
| `PrepareIntakeProofs` | theorems about `PrepareIntake` |
| `Batches` | the reconciler's two sweeps over several jobs: `ListStaleActive` and `ListFinishedWithK8sJob` are the queries with their order and limit, `ExpireOne` and `ReleaseOne` one turn of their loops |
| `BatchesProofs` | theorems about `Batches` |
| `Outbox` | delivery of one notice by the threads of all processes |
| `OutboxProofs` | theorems about `Outbox` |
| `Runners` | the programs of the prepare, generate and test Jobs (`prepare.ts`, `generate-tests.ts`, `runner.py`) composed with `TestJobs`: `runners` has a record for each Job that was created. `Post`, `PostAnswered`, `Accepted`, `Conflict` and `NoAnswer` are one try of `postCallback`/`post_callback` and the answer to it, `Retried` and `Failed` what the client does then, `Work` what lies between two reports, `Die` every other end |
| `RunnersProofs` | theorems about `Runners` |
| `Artifacts` | one job's artifact rows and files: upload, the callback that gives them rows, download by the next runner, and `purge_expired_artifacts` as a scan, one step for each file, and a commit |
| `ArtifactsProofs` | theorems about `Artifacts` |
| `ProcessRunner` | `runProcess` and a caller that runs one child after the other; one action for each callback (timer, signal, data, stream error, error, close) and for what the child may do |
| `ProcessRunnerProofs` | theorems about `ProcessRunner` |
| `PatchPolicy` | which patches are taken: `Validated` is `validateWorkspacePatch`, `Rechecked` the same policy as `verify_and_apply_patch` reads it; `MatchesGlob` and `GlobMatches` are the two glob matchers |
| `TestRunner` | the program of the test Job from the validated patch to the status it reports: `execute_commands` with its process groups, SIGTERM and SIGKILL, `parse_junit`, and `Status`, which is `classify_failure` and what `run` makes of it |
| `MCTestRunner` | the example policy's patterns and the paths and patches that TLC tries |
| `TestRunnerProofs` | theorems about `TestRunner` |

`JobStatus` is extended by `JobTable` and `JobLifecycle`, `JobTable` by
`TestJobs`, and `TestJobs` instantiates `JobLifecycle` with the row's columns as
its refinement mapping. Each notice in the `outbox` of `TestJobs` is delivered
by one instance of `Outbox`; the two share no other state, so they are checked
apart. `Runners` extends `TestJobs`: its steps are those of the gateway with the
runner's own change, and `ImplementsTestJobs` says that hiding the runners leaves a
behaviour of `TestJobs`. `Artifacts` abstracts the job to what retention asks of
it; `ProcessRunner` is what a codex runner's `Work` is made of and `TestRunner` the
test runner's. `PrepareIntake` ends where `TestJobs` begins: with a job in
`PREPARE_QUEUED` and a launch submitted or lost. `Batches` takes each step of a sweep
whole, `TestJobs` takes it apart for one job.

### Abstractions

- One job stands for all: jobs share no row. One notice stands for all.
- A commit is its position on the branch. A delivery ID is used for one commit,
  so the commit stands for its delivery.
- A transaction commits in one step. `record_event` reads the event table, then
  updates the row where the version is the one it was computed from; a conflict
  leaves the handler nothing but `Abandon`.
- Event IDs are what they are built from (`SameId`): phase, attempt and status for
  a runner, the delivery for a push, the version for a sweep or a cancellation. A
  dispatch error has a random ID; the version it applies to makes it unique.
- A runner is the environment: once its Job was created it may send any status of
  its phase at any time, any number of times, even after its Job is deleted. This
  covers retries, duplicates, delays, losses and runners that never stop.
- In `Runners`, two tries of one callback that were read at the same version are one
  handler of `TestJobs`; `overlaps` remembers that there was another, which is what
  decides whether a retry can be refused after its event was recorded.
- In `Artifacts`, a key stands for its content: the keys of uploads name job,
  attempt and kind, and one runner writes each once. A phase's several artifacts are
  one. A callback and its artifact rows commit together, as they do in the code.
- In `ProcessRunner`, output is counted in chunks; a child may ignore SIGTERM, end
  well in spite of it, or leave its output open.
- Idle times are not modelled: `ExpireScan` may find any job that has not ended.
- In `PrepareIntake`, a task stands for its ID, base commit and plan digest. The
  idempotency key is made of the same three and the plan fixes repository and branch,
  so two requests for a task can differ in their callback only. The database is read
  committed: an insert waits for a transaction that holds the same key (`Holds`).
  Plan validation comes first, reads nothing that changes, and is left out.
- In `Batches`, a job is active, overdue or ended. `order` is the order of
  `updated_at`: `record_event` moves a job to its end, bookkeeping does not.
- In `PatchPolicy`, a path is a sequence of symbols, "/" among them, a pattern a sequence
  of symbols, wildcards and classes in brackets: `fnmatch` takes a class for one of its
  members, `matchesGlob` takes it for its text (`Classes`; a bracket that opens no class
  is left out). The end of a line, which only the stars of `fnmatch` cross, is a symbol. The
  symbols are characters; the run takes names instead, none of which begins another. A
  change is a path and a kind. What git says of a patch beyond
  that (does it apply, is it too large) is `RefusePatch`.
- In `TestRunner`, the command is the environment: it may exit, hang, ignore SIGTERM,
  or leave a descendant that holds its output open and ignores SIGTERM too; one in a
  session of its own is not reached by SIGKILL either (`held`). What the
  program does not catch ends it without a report (`Crash`), and so may the Job's
  deadline at any time (`Deadline`).
- A request that changes nothing (404, 409, 422, a duplicate) is not started, or
  ends by `Abandon`.

## Runs

Bounds: `MaxSha` commits, `MaxRequests` requests and dispatch errors at work at
once, `MaxSweeps` sweeps at work at once (the CronJob forbids more than one),
`Events` the rarer things that may happen in this run; the event log is bounded
because every event moves the job towards an end and a commit is taken up once.
Two commits are what superseding needs, and two requests at once what a race on
one version needs; the third party of a race is a sweep or a launch. A launch that
was created records its name at once, unless `Events` has `slow_pool`, which `release`,
the run about names, has; a launch may wait for its turn, or never have one, in every run. Two threads are what overwriting a notice
takes; the proofs are for any number. A callback is tried `MaxTries` times (four in
the code; two make a retry). Two attempts and two failed purges let a purge
be interrupted, repeated and overtaken. Two children and two chunks let a signal
fall between children and output exceed its limit. Of three requests for a task, one
can wait for the second's transaction while the third's is already lost; two tasks
and two callbacks let them agree, differ and not meet. In `batches` a list takes
`Limit` = 2 of three jobs (100 in the code), one of which can never be deleted, and
after a sweep that died (`MaxDeaths` = 1 in a row) one is completed. `test_runner`
takes the example policy's patterns, all paths of up to three of seven names, and any
selection of three command slots; a slot's name decides nothing but the wording.

Every module's type invariant is proved for every value of the constants (see
"Proofs"), so the runs check none.

| run | bounds | shows |
|---|---|---|
| `supersede` | 2 commits, 2 requests, redelivery | pushes that supersede each other and callbacks of both attempts' runners: the log explains the row, attempts match, results belong, verdicts are earned, each attempt has one announced outcome, stale runners are ignored, outcomes are final |
| `stop` | 1 commit, 1 request, 1 sweep, cancel, expire, release, failing and lost launches | all who may end an attempt: its end is announced, once; implements `JobLifecycle`; every job ends; a finished job's Kubernetes Job is deleted and forgotten |
| `release` | 2 commits, 1 request, 1 sweep, slow pool | the release sweep spares a live attempt's Job; slow launches never put an earlier name over a later one |
| `outbox` | 2 threads, 4 attempts, 2 submissions | dead is earned, delivered is true, settled stays, every notice settles |
| `runners` | 1 commit, 2 requests, 2 tries | the runners implement what `TestJobs` assumes of them; no runner works for a job that does not know of it; the stored verdict is the one the tests came to; every runner ends |
| `artifacts` | 2 attempts, 2 failed purges | purged means gone; the current attempt keeps its artifacts; no patch without inputs; the bytes of a job that has ended for good are reclaimed |
| `process` | 2 children, 2 chunks | a result is whole; every call ends |
| `intake` | 3 requests, 2 tasks, 2 callbacks | whoever hands in a task is answered with the same job, failed or not, or refused; launches are of committed jobs with a stored plan, once; implements `Intake`; no request waits forever |
| `test_runner` | 3 command slots, paths of up to 3 names, patches of up to 3 files | `PASSED` is earned; a verdict names its reason; what the codex runner validates the test runner does not refuse; the run ends whatever its commands do |
| `batches` | 3 jobs, lists of 2, 1 dead sweep in a row | nothing overtakes a job that waits to be ended; a list of jobs to release has one that can be, or all; no overdue job starves; jobs that cannot be deleted do not keep the others from being released |

`runners` has one commit: runners of a superseded attempt are what `supersede`
checks, with the freest runners there are, and `ImplementsTestJobs`, which is proved
for any number of commits, carries that over. `redelivery_retries` and
`resubmission_retries` (2 requests for 1 task) refute what the operations guide says of
the code (see "Findings"). What `OneOutcomePerAttempt` says of a notice that an attempt was
superseded is checked by `supersede`, what it says of operator and sweep by `stop`.

The deadlock check is off in every run: a job that has ended with all its
commits taken up, and a settled notice, have nothing left to do; nor have requests that
are answered and a runner that has reported.

### Fairness

`EveryJobEnds` and `NamedJobsAreReleased` assume one specification, `SweepSpec`, which
is fair to the sweeps only: the
CronJob (`k8s/base/reconciler-cronjob.yaml`) runs every five minutes for as long
as the system lives, so a sweep that failed is tried again and again and does
not fail each time (strong fairness of its steps), and a run of it ends (weak
fairness of `SweepEnds`). Requests, runners, launches and operators owe nothing:
runners may die, launches may be lost. `EveryNoticeSettles` assumes that the scan
is repeated and time passes, and that processes do not die each time before a
thread has got anything done (strong fairness of a thread's steps).
`EveryRunnerExits` assumes that while a runner is left some runner takes a step
(its client's timeout and the Job's `activeDeadlineSeconds` see to that), and that a
pool thread that created a Job goes on to record its name; nothing is assumed of the
gateway's answers. `EventuallyReclaimed` assumes that the reconciler goes on and that
only finitely many purges fail (`MaxAborts`). `EveryCallEnds` assumes only that the
timer of `runProcess` fires. `EveryRequestEnds` assumes that each thread of
`prepare` runs on until it answers or is lost: a replica that dies has its
transaction ended by the database. `RunEnds` assumes that the test runner takes its
steps and its timers fire; nothing is assumed of the command or of the Job's deadline.
In `batches` the reconciler goes on (weak fairness of `Reconcile`), at most
`MaxDeaths` sweeps in a row die, and the assumption `Cardinality(Stuck) < Limit` is
essential: with 100 Kubernetes Jobs that can never be deleted the release sweep would
do nothing else.

## Proofs

`TestJobsProofs` proves, for every number of commits, requests and sweeps:
`TypeCorrect`, `LogAlwaysExplainsRow`, `AttemptsAlwaysMatchRow`,
`ResultAlwaysBelongs`, `OutcomeStaysFinal` and `GatewayImplementsLifecycle`. The
only assumptions are those on the constants (`MaxShaAssumption`,
`BoundsAssumption`).

None of those invariants is inductive alone. What a handler commits was computed
from what it read earlier, so the inductive invariant `IInv` says of every handler
that its read is either of an older version than the row's, in which case
`record_event` refuses it, or agrees with the row (`ReadsFresh`). With the types,
the shape of Kubernetes Jobs (`PodsFit`) and the row's own invariants (`RowInv`),
that is inductive. The proof then needs to look at each action once: every step
of `Next` leaves the row's status alone (`Stays`), advances it by one legal event
(`Advances`), or takes up another commit (`TakesUp`), and each theorem follows
from those three cases.

Its second half proves the other invariants and action properties of `TestJobs`:
`VerdictsAreEarned`, `OneOutcomeIsAnnounced`, `EveryEndIsAnnounced`,
`ReleaseNeverHitsLiveAttempt`, `StaleRunnersStayIgnored` and `NamesAlwaysAdvance`. They
relate the row to what happened before, so the invariant `HInv` adds to `IInv`: every
callback in hand is a runner's (`CallbacksFit`); what the release sweep has read is a
Job the row does not depend on and never will again (`ReleasesArePast`); the recorded
name is of this attempt or an earlier one and in the order of the pipeline
(`NameFits`); nothing was announced of the attempt that is under way (`OutboxFits`);
and a row's status implies the earlier stages in the log (`StagesReached`). A step either
leaves the log alone (`Quiet`), records an event of the current attempt (`Recorded`),
starts the first attempt (`First`), or replaces an attempt by the next (`Replaced`), and
each part of `HInv` is shown for those four. `OneOutcomeIsAnnounced` does not say that
an attempt has one notice: a commit that replaces an attempt that has ended announces that
it was superseded, besides the outcome it had. The outbox is a set of attempt, status and
commit because the code's event types are made of these and a job has one row for each.

`PrepareIntakeProofs` proves, for any number of requests, tasks and callbacks, that the
launches are backed (`LaunchesStayBacked`), that all are answered with the same job
(`AllGetTheSameJob`) and that `PrepareIntake` implements `Intake`
(`PrepareImplementsIntake`): each step is a step of `Intake` or a stutter. The refinement
includes failed prepares: that a plan is answered with the job that failed is proved as what
the code does, not as what its guide promises. The
inductive invariant says that at most one open transaction holds a task, that it holds
it only while the task has no row, that whoever joined a job knows the committed row,
and that a job and its key are committed together.

`RunnersProofs` proves, for any number of commits, requests, sweeps and tries, that the
runners with their gateway implement `TestJobs` (`RunnersImplementTestJobs`), that no
runner works for a job that has not recorded its start (`WorkIsAlwaysAnnounced`) and that
the stored verdict is what the tests of that attempt came to (`VerdictsAreTrue`). The only
assumption besides those of `TestJobs` is `MaxTriesAssumption`. The argument has two
halves. `KInv`, about `TestJobs` alone and on top of `HInv`: whatever goes by an attempt's
number, in Kubernetes, in flight or in the log, is of that attempt's commit, and what a
callback was read at is in the log; so at most one handler serves a callback, and a
refused one is `Abandon` or a stutter. `RInv`, about the runners: a verdict is written
down once, by `Work`, and everything that runner has sent since, answered or not, says the
same; so when the row shows a verdict it is that one (`ReportsTrue`, `CallbacksTrue`).
Each runner's step is then a step of `TestJobs` or a stutter, and all that is proved of
`TestJobs` holds of the composed system: `RunnersEarnVerdicts` says so of the earned
verdict.

`BatchesProofs` proves, for any number of jobs and any limit, that nothing overtakes a job
that waits to be ended (`OverdueJobsMoveUp`), and that as long as fewer Kubernetes Jobs
than the limit cannot be deleted (`BatchesAssumption`), every list of the release sweep has
one that can, or all there are (`EveryReleaseListGetsOn`). With the fairness of the run
these two are why no job starves. The first is what the comment on `set_latest_k8s_job`
asks for: recording a name must not touch `updated_at`.

`TestRunnerProofs` proves `PassesAreEarned` and `VerdictsNameTheirReason` for any
policy, any patches and any configured commands. The invariant is that every result
but the last is `ok` and that commands are left over only after one that is not. It also
proves `ValidatedIsNotRefused` (`ValidatedPatchesAreTaken`) for every policy that both
programs read alike, `ReadAlike`, and for paths without line ends (`PathsAreLines`): no
allowed pattern has a class in brackets or two `**/`, and a denied one has neither `*` nor `?`
nor a class, or begins with a name and every allowed one with another. Without such
conditions it is false (see "Findings"; `ReadingsDiffer` has examples); the run
evaluates that the example policy meets `ReadAlike`.

What a glob matches and what a sweep selects is defined by recursion on a sequence. The
prover cannot use the library's induction theorems, so both modules argue by the least
element that is not as claimed (`LeastElement`), which follows from the library's facts on
well-founded relations; that the recursion defines a function is proved the same way.

`OutboxProofs` proves `SettledRightly` (`DeadIsEarned`), `DeliveriesAreTrue`
(`DeliveredIsTrue`) and `SettledForGood` (`SettledStays`) for any number of threads and
attempts. The invariant it needs is that no count of attempts, in the row or in a
thread, ever exceeds the failures that really happened.

`ArtifactsProofs` proves the invariants of `Artifacts` for any number of
attempts and failed purges. The argument is about what a purge has in hand: it was
listed for an aged job, so it is of an earlier attempt than the job's or the job
is still ended and aged (`SweepIsSafe`), and rows are never of an attempt to come.

`ProcessRunnerProofs` proves `ResultsAreWhole` for any number of children and any limit; a pending call never has more output than the limit
(`PendingIsInBounds`), because the callback that finds too much terminates it.

Each of these modules also proves its module's type invariant.

Only model-checked: the liveness properties. Liveness under fairness and ENABLED are
beyond the prover.

## Findings

- `redelivery_retries`: the operations guide (`docs/operations.md:113`) advises to redeliver
  the push after an `ERROR`; the code answers it as a duplicate.
- `resubmission_retries`: it advises (`docs/operations.md:117` and `:264`) to submit a plan
  again when its prepare failed. The same plan is the same task and the same key: the answer
  is the job that has failed, and nothing runs. A corrected plan is another task.

Other behaviours of the models, without a run of their own, that a comment or a
document would not lead one to expect:

- A comment in `reconciler.py` says that a callback that lands between the scan and
  the sweep's write wins. `_expire_one` reads the job again and uses the version of
  that second read, so the callback wins only if it lands after it.
- `verify` never compares commits; the superseding one is only another one, so an old
  push delivered late takes over from a newer one.
- A thread whose last send fails after another thread has delivered the notice marks
  it `DEAD`.
- Files are deleted one by one and `purged_at` is committed at the end; a purge that
  fails in between leaves links to bytes that are gone, until the next.
- A signal that is aborted before `runProcess` is called is never noticed, and the
  child runs to its end or its timeout.

- A client gives a try of a callback up after ten seconds, the gateway does not. When the
  retry reads the job before the first try commits, it fails the compare-and-set and is
  answered 409, which is not tried again: the runner reports an `ERROR`, or ends, although
  its report was recorded. `VerdictIsTrue` and `ImplementsTestJobs` hold nevertheless.
- A purge does not look at a job again between listing its artifacts and deleting them, so
  a commit pushed meanwhile starts an attempt whose plan and draft are being deleted.
- A replica that dies between the commit of `prepare` and its thread pool leaves a job
  that no retry of the request launches; it ends by expiry.
- A command that timed out is killed with its group only if its leader outlives SIGTERM
  by two seconds. A descendant that ignores SIGTERM and holds the output open then keeps
  the runner until the Job's deadline, and no `TIMEOUT` is reported; so does one in a session
  of its own. `RunEnds` excepts exactly these (`OutputIsHeld`): it says that nothing else a
  command does has that effect.
- A skipped required test makes a run `FAILED` that timed out, which
  `VerdictNamesItsReason` allows as the code does; and a JUnit file that was
  cut off ends the program without a report (`docs/operations.md:137` has every
  per-command timeout reported as `TIMEOUT`).
- The two glob matchers differ: `fnmatch` lets `*` cross a "/", and takes either all
  `**/` out of a pattern or none. A path that a denied pattern with `*` misses in the codex
  runner, or that an allowed one with two `**/` matches there, can be refused by the
  test runner, which ends the job in `ERROR`; so can one that a class in brackets matches,
  or one with a line end in it. In the example policy no allowed path
  meets such a pattern, and `ReadAlike` says of which policies that is so.
- The file of a plan that was written before a rollback stays.

Also seen, without a promise in the repository that they break: a failed launch
of a superseded attempt ends the *new* attempt in `ERROR`
(`_record_dispatch_error` reads the current attempt); a dispatch error announces
nothing to the client; `cancel` and the expiry sweep delete the Kubernetes Job
before they know that they may end the job; a commit that is pushed after retention
has taken the plan and the draft starts an attempt that can only fail, because
`verify` asks for their rows and not for their bytes; bytes that were uploaded and
never reported have no row and are never reclaimed; a broken stream rejects a call
of `runProcess` without stopping its child.

## What is left

- The purge's limit of 500 artifacts: `Artifacts` follows one job, which has fewer;
  `Batches` shows the argument for the other two limits.
- The limit of 100 notices of `reconcile_pending`: `Outbox` follows one notice, as if it
  were always among the oldest that are due.
- Slow launches (`slow_pool`) are checked against the release sweep and new commits, not
  against the liveness of the sweeps, which would take TLC too long.
- `ReadAlike` is sufficient, not necessary: a policy outside it may be read alike too.

## Not modelled

- Plan and schema validation, repository policies, notification templates,
  authentication, link signing and request limits: checks of data and cryptography
  without state. What passes them is what the models take as input.
- `git_events.py` and `git_verifier.py`: a parser that no program of the repository
  calls, and a query of a remote. A push is a `verify` request of `TestJobs`, delivered in
  any order and any number of times.
- Settings, sessions, migrations, manifests, scripts, CI and the n8n workflows:
  configuration, or programs outside the repository. Where a manifest fixes something the
  models rely on (one reconciler at a time, `backoffLimit: 0`, two gateway replicas), the
  assumption is named where it is used.
- The content of prompts, drafts, patches and reports.
