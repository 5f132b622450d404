------------------------------ MODULE TestJobs ------------------------------
(***************************************************************************)
(* The life of one test job in the gateway: the HTTP handlers of           *)
(* services/job_service.py, the dispatch pool of services/job_launcher.py  *)
(* and the sweeps of services/reconciler.py, over the rows of JobTable.    *)
(*                                                                         *)
(* Gateway replicas and the reconciler share nothing but the database.  A  *)
(* handler reads the job in one step and commits in another, with its call *)
(* to Kubernetes or to the Git host in between; a commit is atomic.        *)
(*                                                                         *)
(* Runners are the environment here.  A Job that was ever created may send *)
(* any status of its phase, at any time and any number of times, even      *)
(* after it is gone: this covers retries, duplicates, delays and loss.     *)
(***************************************************************************)
EXTENDS JobTable

CONSTANTS
    MaxRequests,    \* bound on the requests and dispatch errors served at once
    MaxSweeps,      \* bound on the sweeps at work at once (concurrencyPolicy: Forbid)
    Events          \* what else may happen: a subset of AllEvents

AllEvents ==
    {"redeliver", "cancel", "expire", "release", "launch_failure", "lost_launch",
     "slow_pool"}

ASSUME BoundsAssumption ==
    /\ MaxRequests \in Nat
    /\ MaxSweeps \in Nat
    /\ Events \subseteq AllEvents

VARIABLES
    handlers,   \* requests and sweeps between their read and their commit
    dispatch,   \* launches submitted to the gateways' thread pools
    launched,   \* Kubernetes Jobs that were created
    deleted     \* Kubernetes Jobs a gateway or a sweep asked to delete

db == <<row, attempts, events, outbox>>
cluster == <<launched, deleted>>
vars == <<row, attempts, events, outbox, handlers, dispatch, launched, deleted>>

-----------------------------------------------------------------------------
(* A handler holds what it uses of the row it read, and the Kubernetes Job
   it will delete.  ref is the commit a verify request is for. *)

RequestOps == {"verify", "runner", "cancel", "cancel_deleted", "dispatch_error"}

SweepOps ==
    {"expire_scan", "expire", "expire_freed", "expire_kept", "release", "release_deleted"}

Ops == RequestOps \union SweepOps

Snapshot == [status : JobStatuses, version : Nat, verify_attempt : Nat, code_sha : ShaOrNull]

Snap == [status |-> row.status, version |-> row.version,
         verify_attempt |-> row.verify_attempt, code_sha |-> row.code_sha]

Verifier == [op : {"verify"}, snap : Snapshot, pod : {NoPod}, ref : Shas]

Callback == [op : {"runner"}, version : Nat, event : Event]

Releaser == [op : {"release", "release_deleted"}, snap : Snapshot, pod : Pods, ref : Nat]

Stopper == [op : Ops \ {"verify", "runner", "release", "release_deleted"},
            snap : Snapshot, pod : Pods \union {NoPod}, ref : Nat]

Handler == Verifier \union Callback \union Releaser \union Stopper

Holding(op, pod, ref) == [op |-> op, snap |-> Snap, pod |-> pod, ref |-> ref]

Tasks == [pod : Pods, stage : {"queued", "created", "failed"}]

Task(phase, attempt, sha) ==
    [pod |-> [phase |-> phase, attempt |-> attempt, sha |-> sha], stage |-> "queued"]

NewRow ==
    [status |-> "PREPARE_QUEUED", version |-> 0, verify_attempt |-> 0,
     code_sha |-> NoSha, tested_sha |-> NoSha, failure_class |-> NoFailure,
     completed |-> FALSE, k8s |-> NoPod]

\* prepare() has committed the new job and submitted its launch.
Init ==
    /\ row = NewRow
    /\ attempts = <<>>
    /\ events = <<>>
    /\ outbox = {}
    /\ handlers = {}
    /\ dispatch = {Task("PREPARE", PrepareAttempt, NoSha)}
    /\ launched = {}
    /\ deleted = {}

Serving(ops) == {h \in handlers : h.op \in ops}

Begin(h) ==
    /\ h.op \in RequestOps => Cardinality(Serving(RequestOps)) < MaxRequests
    /\ h.op \in SweepOps => Cardinality(Serving(SweepOps)) < MaxSweeps
    /\ handlers' = handlers \union {h}

End(h) == handlers' = handlers \ {h}

Continue(h, op) == handlers' = (handlers \ {h}) \union {[h EXCEPT !.op = op]}

\* A request ends without effect: rejected (409, 422), answered as a
\* duplicate, rolled back after an error, or lost with its replica.
Abandon(h) ==
    /\ End(h)
    /\ UNCHANGED <<db, dispatch, cluster>>

-----------------------------------------------------------------------------
(* verify(): a push was delivered for commit sha. *)

\* A commit that was claimed before is a duplicate from here on.
VerifyRead(sha) ==
    /\ \/ /\ \/ row.status = "WAITING_FOR_CODE"
             \/ row.code_sha # NoSha /\ row.verify_attempt >= 1
          /\ ~Claimed(sha)
       \/ /\ row.status # "WAITING_FOR_CODE"
          /\ row.code_sha = sha
          /\ "redeliver" \in Events
    /\ Begin(Holding("verify", NoPod, sha))
    /\ UNCHANGED <<db, dispatch, cluster>>

VerifyEvent(sha, from) ==
    [src |-> "verify", ref |-> sha, phase |-> "VERIFY", attempt |-> Len(attempts) + 1,
     from |-> from, to |-> "VERIFY_QUEUED", sha |-> sha]

\* The attempt is claimed, the job queued and the generate launch submitted.
QueueVerify(sha, r, from) ==
    LET e == VerifyEvent(sha, from) IN
    /\ ~Claimed(sha)
    /\ ~Seen(e)
    /\ row' = [Written(r, e) EXCEPT !.verify_attempt = e.attempt]
    /\ attempts' = Append(attempts, sha)
    /\ dispatch' = dispatch \union {Task("GENERATE", e.attempt, sha)}

\* The first verification of a prepared job.
VerifyFirst(h) ==
    LET e == VerifyEvent(h.ref, h.snap.status) IN
    /\ h.op = "verify"
    /\ h.snap.status = "WAITING_FOR_CODE"
    /\ CanRecord(h.snap.version, e)
    /\ QueueVerify(h.ref, row, h.snap.status)
    /\ events' = Append(events, e)
    /\ End(h)
    /\ UNCHANGED <<outbox, cluster>>

\* A delivery of the commit under verification: answered as a duplicate.
VerifySame(h) ==
    /\ h.op = "verify"
    /\ h.snap.status # "WAITING_FOR_CODE"
    /\ h.snap.code_sha = h.ref
    /\ attempts' = IF Claimed(h.ref) THEN attempts ELSE Append(attempts, h.ref)
    /\ End(h)
    /\ UNCHANGED <<row, events, outbox, dispatch, cluster>>

SupersedeEvent(h) ==
    [src |-> "supersede", ref |-> h.ref, phase |-> "SYSTEM",
     attempt |-> h.snap.verify_attempt, from |-> h.snap.status, to |-> "SUPERSEDED",
     sha |-> h.snap.code_sha]

\* Another commit: the current attempt is superseded, announced, and replaced
\* by the next one, in one transaction.
VerifySupersede(h) ==
    LET superseded == SupersedeEvent(h) IN
    /\ h.op = "verify"
    /\ h.snap.status # "WAITING_FOR_CODE"
    /\ h.snap.code_sha # h.ref
    /\ CanRecord(h.snap.version, superseded)
    /\ QueueVerify(h.ref, ClearedResult(Written(row, superseded)), "SUPERSEDED")
    /\ events' = events \o <<superseded, VerifyEvent(h.ref, "SUPERSEDED")>>
    /\ outbox' = outbox \union
          {[attempt |-> superseded.attempt, status |-> "SUPERSEDED", sha |-> superseded.sha]}
    /\ End(h)
    /\ UNCHANGED cluster

-----------------------------------------------------------------------------
(* record_runner_event(): a callback of a runner. *)

RunnerEvent(pod, status) ==
    [src |-> "runner", ref |-> 0, phase |-> pod.phase, attempt |-> pod.attempt,
     from |-> row.status, to |-> status, sha |-> pod.sha]

\* A gateway that takes a callback of any attempt.
AnyCallbackIsCurrent(e) == TRUE

\* The event names the commit and the attempt the job is on.
CallbackIsCurrent(e) ==
    /\ row.code_sha # NoSha => e.sha = row.code_sha
    /\ e.attempt = IF e.phase = "PREPARE" THEN PrepareAttempt ELSE row.verify_attempt

\* Any other callback is rejected or is a duplicate from here on.
RunnerRead(pod, status) ==
    LET e == RunnerEvent(pod, status) IN
    /\ CallbackIsCurrent(e)
    /\ CanRecord(row.version, e)
    /\ Begin([op |-> "runner", version |-> row.version, event |-> e])
    /\ UNCHANGED <<db, dispatch, cluster>>

\* A gateway that announces verdicts, and forgets what ends an attempt before one.
VerdictsOnly(attempt, status) ==
    {[attempt |-> attempt, status |-> s, sha |-> NoSha] :
        s \in {"PASSED", "FAILED"} \intersect {status}}

\* What an outcome enqueues: nothing unless the status is terminal.
Outcome(attempt, status) ==
    {[attempt |-> attempt, status |-> s, sha |-> NoSha] : s \in Terminal \intersect {status}}

\* TEST_QUEUED submits the test launch for the job's current commit.
TestLaunch(e) ==
    IF e.to = "TEST_QUEUED" THEN {Task("TEST", e.attempt, Written(row, e).code_sha)} ELSE {}

RunnerCommit(h) ==
    /\ h.op = "runner"
    /\ CanRecord(h.version, h.event)
    /\ row' = Written(row, h.event)
    /\ events' = Append(events, h.event)
    /\ outbox' = outbox \union Outcome(h.event.attempt, h.event.to)
    /\ dispatch' = dispatch \union TestLaunch(h.event)
    /\ End(h)
    /\ UNCHANGED <<attempts, cluster>>

-----------------------------------------------------------------------------
(* cancel() and the expiry sweep both delete the Kubernetes Job first and
   then try to end the job they read. *)

CurrentAttempt(r) == IF r.verify_attempt # 0 THEN r.verify_attempt ELSE PrepareAttempt

StopEvent(h, kind, status) ==
    [src |-> kind, ref |-> h.snap.version, phase |-> "SYSTEM",
     attempt |-> CurrentAttempt(h.snap), from |-> h.snap.status, to |-> status,
     sha |-> h.snap.code_sha]

Stop(h, kind, status, r) ==
    LET e == StopEvent(h, kind, status) IN
    /\ CanRecord(h.snap.version, e)
    /\ row' = Written(r, e)
    /\ events' = Append(events, e)
    /\ outbox' = outbox \union Outcome(e.attempt, status)
    /\ End(h)
    /\ UNCHANGED <<attempts, dispatch, cluster>>

CancelRead ==
    /\ "cancel" \in Events
    /\ row.status \notin Terminal
    /\ Begin(Holding("cancel", row.k8s, 0))
    /\ UNCHANGED <<db, dispatch, cluster>>

CancelDelete(h) ==
    /\ h.op = "cancel"
    /\ deleted' = deleted \union ({h.pod} \ {NoPod})
    /\ Continue(h, "cancel_deleted")
    /\ UNCHANGED <<db, dispatch, launched>>

CancelCommit(h) ==
    /\ h.op = "cancel_deleted"
    /\ Stop(h, "cancel", "CANCELLED", row)

-----------------------------------------------------------------------------
(* The reconciler's expiry sweep.  How long a row has been idle is not
   modelled: list_stale_active may return any job that is not terminal. *)

\* A sweep that takes WAITING_FOR_CODE for a job that never expires.
ExpireScanRunnersOnly ==
    /\ "expire" \in Events
    /\ row.status \notin Terminal \union {"WAITING_FOR_CODE"}
    /\ Begin(Holding("expire_scan", NoPod, 0))
    /\ UNCHANGED <<db, dispatch, cluster>>

ExpireScan ==
    /\ "expire" \in Events
    /\ row.status \notin Terminal
    /\ Begin(Holding("expire_scan", NoPod, 0))
    /\ UNCHANGED <<db, dispatch, cluster>>

\* _expire_one reads the job again and asks only whether it has ended.
ExpireRead(h) ==
    /\ h.op = "expire_scan"
    /\ row.status \notin Terminal
    /\ handlers' = (handlers \ {h}) \union {Holding("expire", row.k8s, 0)}
    /\ UNCHANGED <<db, dispatch, cluster>>

\* A failed deletion is logged and leaves the name for the release sweep.
ExpireDelete(h) ==
    /\ h.op = "expire"
    /\ \/ /\ h.pod # NoPod
          /\ deleted' = deleted \union {h.pod}
          /\ Continue(h, "expire_freed")
       \/ /\ Continue(h, "expire_kept")
          /\ UNCHANGED deleted
    /\ UNCHANGED <<db, dispatch, launched>>

\* A sweep that forgets to clear the name of the Job it deleted.
NeverCleared(r, pod) == r

\* clear_k8s_job
Cleared(r, pod) == IF r.k8s = pod THEN [r EXCEPT !.k8s = NoPod] ELSE r

ExpireCommit(h) ==
    \/ /\ h.op = "expire_freed"
       /\ Stop(h, "timeout", "TIMEOUT", Cleared(row, h.pod))
    \/ /\ h.op = "expire_kept"
       /\ Stop(h, "timeout", "TIMEOUT", row)

-----------------------------------------------------------------------------
(* The reconciler's release sweep: ended jobs lose their Kubernetes Job. *)

\* A sweep that takes any job with a recorded name for a finished one.
ReleaseScanAny ==
    /\ "release" \in Events
    /\ row.k8s # NoPod
    /\ Begin(Holding("release", row.k8s, 0))
    /\ UNCHANGED <<db, dispatch, cluster>>

ReleaseScan ==
    /\ "release" \in Events
    /\ row.status \in Terminal
    /\ row.k8s # NoPod
    /\ Begin(Holding("release", row.k8s, 0))
    /\ UNCHANGED <<db, dispatch, cluster>>

ReleaseDelete(h) ==
    /\ h.op = "release"
    /\ deleted' = deleted \union {h.pod}
    /\ Continue(h, "release_deleted")
    /\ UNCHANGED <<db, dispatch, launched>>

ReleaseClear(h) ==
    /\ h.op = "release_deleted"
    /\ row' = Cleared(row, h.pod)
    /\ End(h)
    /\ UNCHANGED <<attempts, events, outbox, dispatch, cluster>>

-----------------------------------------------------------------------------
(* JobDispatcher: a pool thread creates the Kubernetes Job, then records its
   name.  Creating a Job that exists already succeeds. *)

Launch(t) ==
    /\ t.stage = "queued"
    /\ launched' = launched \union {t.pod}
    /\ dispatch' = (dispatch \ {t}) \union {[t EXCEPT !.stage = "created"]}
    /\ UNCHANGED <<db, handlers, deleted>>

\* The API call fails, with or without the Job having been created.
LaunchFails(t) ==
    /\ t.stage = "queued"
    /\ "launch_failure" \in Events
    /\ \E made \in {{}, {t.pod}} : launched' = launched \union made
    /\ dispatch' = (dispatch \ {t}) \union {[t EXCEPT !.stage = "failed"]}
    /\ UNCHANGED <<db, handlers, deleted>>

SetLatestK8sJob(t) ==
    /\ t.stage = "created"
    /\ row' = IF LaunchIsCurrent(t.pod) THEN [row EXCEPT !.k8s = t.pod] ELSE row
    /\ dispatch' = dispatch \ {t}
    /\ UNCHANGED <<attempts, events, outbox, handlers, cluster>>

\* _record_dispatch_error reads whatever attempt the job is on by now.
DispatchErrorRead(t) ==
    /\ t.stage = "failed"
    /\ Begin(Holding("dispatch_error", NoPod, 0))
    /\ dispatch' = dispatch \ {t}
    /\ UNCHANGED <<db, cluster>>

DispatchError(h) ==
    [src |-> "dispatch", ref |-> h.snap.version, phase |-> "SYSTEM",
     attempt |-> PrepareAttempt, from |-> h.snap.status, to |-> "ERROR", sha |-> NoSha]

DispatchErrorCommit(h) ==
    LET e == DispatchError(h) IN
    /\ h.op = "dispatch_error"
    /\ CanRecord(h.snap.version, e)
    /\ row' = Written(row, e)
    /\ events' = Append(events, e)
    /\ End(h)
    /\ UNCHANGED <<attempts, outbox, dispatch, cluster>>

\* The replica dies with the launch still in its pool.
LoseTask(t) ==
    /\ "lost_launch" \in Events
    /\ dispatch' = dispatch \ {t}
    /\ UNCHANGED <<db, handlers, cluster>>

-----------------------------------------------------------------------------
RunnerSends == \E pod \in launched : \E s \in Reports(pod.phase) : RunnerRead(pod, s)

HandlerStep(h) ==
    \/ VerifyFirst(h)
    \/ VerifySame(h)
    \/ VerifySupersede(h)
    \/ RunnerCommit(h)
    \/ CancelDelete(h)
    \/ CancelCommit(h)
    \/ ExpireRead(h)
    \/ ExpireDelete(h)
    \/ ExpireCommit(h)
    \/ ReleaseDelete(h)
    \/ ReleaseClear(h)
    \/ DispatchErrorCommit(h)
    \/ Abandon(h)

TaskStep(t) ==
    \/ Launch(t)
    \/ LaunchFails(t)
    \/ SetLatestK8sJob(t)
    \/ DispatchErrorRead(t)
    \/ LoseTask(t)

\* Without "slow_pool" a thread records the name of the Job it created at once.
PoolIsPrompt == "slow_pool" \notin Events => \A t \in dispatch : t.stage # "created"

GatewayStep ==
    \/ \E sha \in Shas : VerifyRead(sha)
    \/ CancelRead
    \/ ExpireScan
    \/ ReleaseScan
    \/ \E h \in handlers : HandlerStep(h)

Next ==
    \/ PoolIsPrompt /\ GatewayStep
    \/ PoolIsPrompt /\ RunnerSends
    \/ \E t \in dispatch : TaskStep(t)

Spec == Init /\ [][Next]_vars

-----------------------------------------------------------------------------
(* Properties *)

\* Type correctness of every row, handler, launch and Kubernetes Job.
TypeOK ==
    /\ row \in Row
    /\ attempts \in Seq(Shas)
    /\ events \in Seq(Event)
    /\ outbox \subseteq Notice
    /\ handlers \subseteq Handler
    /\ dispatch \subseteq Tasks
    /\ launched \subseteq Pods
    /\ deleted \subseteq Pods

StatusAfter(log, n) == IF n = 0 THEN "PREPARE_QUEUED" ELSE log[n].to

Explains(log, r) ==
    /\ r.version = Len(log)
    /\ r.status = StatusAfter(log, Len(log))
    /\ \A i \in DOMAIN log : log[i].from = StatusAfter(log, i - 1)

\* The event log explains the row.  However many handlers read the job and race
\* to write it, each accepted event starts from the status the one before it
\* left, and the version counts them: the compare-and-set on version in
\* record_event loses no update and accepts no decision made on a stale read.
LogExplainsRow == Explains(events, row)

\* The job is on its latest verify attempt and on that attempt's commit, and no
\* commit has two attempts: the claim and the change of the row commit together
\* or not at all.
AttemptsMatchRow ==
    /\ row.verify_attempt = Len(attempts)
    /\ row.code_sha = IF attempts = <<>> THEN NoSha ELSE attempts[Len(attempts)]
    /\ \A m, n \in DOMAIN attempts : attempts[m] = attempts[n] => m = n

\* The result columns belong to the attempt the row is on: nothing of a
\* superseded attempt's result survives in the next one (clear_result), and a
\* verdict is about the commit the job is on.
ResultBelongsToStatus ==
    /\ row.completed <=> row.status \in Terminal
    /\ row.failure_class = FailureClass(row.status)
    /\ row.tested_sha \in {NoSha, row.code_sha}
    /\ row.status \in {"PASSED", "FAILED"} => row.tested_sha = row.code_sha /\ row.code_sha # NoSha

\* A verdict is earned by the attempt that carries it: the log holds every
\* stage of the pipeline for that same attempt and commit, so no callback of an
\* older attempt's runner took part in it.
VerdictIsEarned ==
    row.status \in {"PASSED", "FAILED"} =>
        \A s \in {"VERIFY_QUEUED", "GENERATING_TESTS", "TEST_QUEUED", "TESTING", row.status} :
            \E i \in DOMAIN events :
                /\ events[i].to = s
                /\ events[i].attempt = row.verify_attempt
                /\ events[i].sha = row.code_sha

\* Whoever ends an attempt (runner, operator, sweep, a newer commit), clients
\* are told at most one outcome of it, and at most once that it was superseded; both
\* are told of an attempt that a newer commit replaces after it has ended.
OneOutcomePerAttempt ==
    \A m, n \in outbox :
        /\ m.attempt = n.attempt
        /\ m.status = "SUPERSEDED" <=> n.status = "SUPERSEDED"
        => m = n

\* Nobody waits for an answer that is not coming: whatever ended an attempt, and
\* whoever else was trying to, the end is in the outbox.  Only the dispatch pool
\* ends jobs without a notice.
EndsAreAnnounced ==
    \A i \in DOMAIN events :
        events[i].to \in Terminal /\ events[i].src # "dispatch" =>
            \E m \in outbox : m.attempt = events[i].attempt /\ m.status = events[i].to

\* The release sweep acts on a job it read a while ago; the Kubernetes Job it is
\* about to delete is never one the job has come to depend on meanwhile.
ReleaseSparesLiveAttempt ==
    \A h \in handlers : h.op = "release" => ~LaunchIsCurrent(h.pod)

\* An attempt that has ended stays as it ended, until another commit starts the
\* next attempt.
OutcomeIsFinal ==
    [][row.status \in Terminal /\ row'.status # row.status =>
          /\ row'.status = "VERIFY_QUEUED"
          /\ row'.verify_attempt = row.verify_attempt + 1
          /\ row'.code_sha # row.code_sha]_vars

\* No callback of a superseded attempt, however late, is recorded.
StaleRunnersIgnored ==
    [][\A i \in DOMAIN events' \ DOMAIN events :
          events'[i].src = "runner" =>
              /\ events'[i].attempt = CurrentAttempt(row)
              /\ events'[i].sha = row.code_sha]_vars

Order(pod) ==
    IF pod.phase = "PREPARE" THEN 1 ELSE 2 * pod.attempt + (IF pod.phase = "TEST" THEN 1 ELSE 0)

\* A slow pool thread never puts the name of an earlier Kubernetes Job over the
\* name of a later one.
NamesOnlyAdvance ==
    [][row'.k8s # NoPod /\ row'.k8s # row.k8s =>
          row.k8s = NoPod \/ Order(row'.k8s) > Order(row.k8s)]_vars

\* A client polling the job sees what JobLifecycle promises.
Lifecycle == INSTANCE JobLifecycle WITH
    Commits <- Shas, NoCommit <- NoSha,
    status <- row.status, attempt <- row.verify_attempt, commit <- row.code_sha,
    tried <- {attempts[n] : n \in DOMAIN attempts}

ImplementsLifecycle == Lifecycle!Spec

-----------------------------------------------------------------------------
(* Liveness.  A sweep ends.  The reconciler runs every five minutes for as
   long as the system lives, so its sweeps do not fail or miss the job
   forever; nothing is assumed of requests, runners, launches or operators. *)

SweepEnds == \E h \in Serving(SweepOps) : HandlerStep(h)

ExpiryGoesOn ==
    /\ SF_vars(ExpireScan)
    /\ SF_vars(\E h \in handlers : ExpireRead(h))
    /\ SF_vars(\E h \in handlers : ExpireDelete(h))
    /\ SF_vars(\E h \in handlers : ExpireCommit(h))

ReleaseGoesOn ==
    /\ SF_vars(ReleaseScan)
    /\ SF_vars(\E h \in handlers : ReleaseDelete(h))
    /\ SF_vars(\E h \in handlers : ReleaseClear(h))

SweepSpec == Spec /\ WF_vars(SweepEnds) /\ ExpiryGoesOn /\ ReleaseGoesOn

\* Every job ends for good, even when a launch is lost between the commit and
\* the thread pool, a runner dies without reporting, or no commit is pushed.
EveryJobEnds == <>[](row.status \in Terminal)

\* A job that has ended does not keep the name of a Kubernetes Job forever: it
\* is deleted and cleared, or a new attempt has replaced it.
NamedJobsAreReleased ==
    (row.status \in Terminal /\ row.k8s # NoPod) ~> (row.status \notin Terminal \/ row.k8s = NoPod)

=============================================================================
