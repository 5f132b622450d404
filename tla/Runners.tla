------------------------------- MODULE Runners -------------------------------
(***************************************************************************)
(* The programs that run in the Kubernetes Jobs, composed with the gateway *)
(* of TestJobs: codex-runner's prepare.ts and generate-tests.ts, and       *)
(* test-runner/runner.py.                                                  *)
(*                                                                         *)
(* Each announces that it starts, works, and reports what came of it; a    *)
(* report is an HTTP request that is tried up to MaxTries times            *)
(* (postCallback, post_callback).  The client gives a try up after ten     *)
(* seconds, the gateway does not: a try and its retry may be served at the *)
(* same time by two replicas.                                              *)
(***************************************************************************)
EXTENDS TestJobs

CONSTANT MaxTries                   \* attempts: how often a callback is tried

ASSUME MaxTriesAssumption == MaxTries \in Nat \ {0}

VARIABLE runners    \* the runner of every Kubernetes Job that was created

system == <<vars, runners>>

\* Of the latest try: version is the job's version when the gateway read it, and
\* overlaps says that an earlier try, read at the same version, was still served.
\* verdict is what the tests came to.
Runner == [at : {"posting", "waiting", "working", "exited"}, report : JobStatuses,
           tries : 0..MaxTries - 1, version : Nat, overlaps : BOOLEAN,
           verdict : {"NONE", "PASSED", "FAILED", "TIMEOUT"}]

Start(phase) ==
    CASE phase = "PREPARE"  -> "PREPARING"
      [] phase = "GENERATE" -> "GENERATING_TESTS"
      [] phase = "TEST"     -> "TESTING"

Started(p) == [at |-> "posting", report |-> Start(p.phase), tries |-> 0, version |-> 0,
               overlaps |-> FALSE, verdict |-> "NONE"]

RunnersInit == Init /\ runners = [p \in {} |-> Started(p)]

Report(p) == RunnerEvent(p, runners[p].report)

\* What is known of the latest try matters only until it is answered.
Forget(r) == [r EXCEPT !.version = 0, !.overlaps = FALSE]

Becomes(p, r) ==
    runners' = [runners EXCEPT ![p] = IF r.at = "waiting" THEN r ELSE Forget(r)]

-----------------------------------------------------------------------------
(* What a runner does after a report. *)

Exited(r) == [r EXCEPT !.at = "exited"]

Reporting(r, status) == [r EXCEPT !.at = "posting", !.report = status, !.tries = 0]

Succeeded(p, r) ==
    IF r.report = Start(p.phase) THEN [r EXCEPT !.at = "working"] ELSE Exited(r)

\* A runner that reports failed tests when it cannot report what they came to.
FailedIsFAILED(r) ==
    IF r.report \in {"ERROR", "BLOCKED", "TESTING"} THEN Exited(r) ELSE Reporting(r, "FAILED")

\* A runner that reports TIMEOUT when it cannot reach the gateway.
FailedTimesOut(r) ==
    IF r.report \in {"TIMEOUT", "ERROR", "BLOCKED", "TESTING"} THEN Exited(r)
                                                             ELSE Reporting(r, "TIMEOUT")

\* A failed report is followed by ERROR, once; the test runner announces its
\* start outside the block that catches the failure.
Failed(r) ==
    IF r.report \in {"ERROR", "BLOCKED", "TESTING"} THEN Exited(r) ELSE Reporting(r, "ERROR")

\* A runner that never counts its tries.
RetriedForever(r) == [r EXCEPT !.at = "posting"]

\* Only a lost, late or 5xx answer is worth another try.
Retried(r) ==
    IF r.tries + 1 < MaxTries THEN [r EXCEPT !.at = "posting", !.tries = @ + 1] ELSE Failed(r)

-----------------------------------------------------------------------------
(* A report at the gateway. *)

\* The handler of a try.
HandlersOf(p, version) == {h \in Serving({"runner"}) : h.version = version /\ SameId(h.event, Report(p))}

\* The gateway reads the job: the report is current and new.
Post(p) ==
    /\ runners[p].at = "posting"
    /\ RunnerRead(p, runners[p].report)
    /\ Becomes(p, [runners[p] EXCEPT !.at = "waiting", !.version = row.version,
                                    !.overlaps = HandlersOf(p, row.version) # {}])

\* Answered at once: a duplicate is accepted (200), anything else is not (409).
PostAnswered(p) ==
    LET r == runners[p]
        current == CallbackIsCurrent(Report(p)) IN
    /\ r.at = "posting"
    /\ ~(current /\ CanRecord(row.version, Report(p)))
    /\ Becomes(p, IF current /\ Seen(Report(p)) THEN Succeeded(p, r) ELSE Failed(r))
    /\ UNCHANGED vars

\* The handlers that serve the latest try: one, or none when an earlier try
\* that overlaps it has been served instead.
Serves(p) ==
    IF runners[p].at = "waiting" THEN HandlersOf(p, runners[p].version) ELSE {}

Accepted(p) ==
    \E h \in Serves(p) :
        /\ RunnerCommit(h)
        /\ Becomes(p, Succeeded(p, runners[p]))

\* Somebody else has written the job meanwhile, perhaps another try.
IsConflict(p) ==
    /\ runners[p].at = "waiting"
    /\ runners[p].overlaps \/ Serves(p) # {}
    /\ ~CanRecord(runners[p].version, Report(p))
    /\ handlers' = handlers \ Serves(p)
    /\ UNCHANGED <<db, dispatch, cluster>>

\* A gateway that answers 200 to a callback it could not record.
ConflictAccepted(p) == IsConflict(p) /\ Becomes(p, Succeeded(p, runners[p]))

\* An event that was recorded from another try is seen as a duplicate or not,
\* depending on whether the gateway looked for it after that try's commit.
Conflict(p) ==
    /\ IsConflict(p)
    /\ \/ Becomes(p, Failed(runners[p]))
       \/ Seen(Report(p)) /\ Becomes(p, Succeeded(p, runners[p]))

\* The request or its answer is lost, too late, or a 5xx; what the gateway has
\* begun goes on.
NoAnswer(p) ==
    /\ runners[p].at \in {"posting", "waiting"}
    /\ Becomes(p, Retried(runners[p]))
    /\ UNCHANGED vars

-----------------------------------------------------------------------------
\* The work is done, or fails.
Work(p) ==
    /\ runners[p].at = "working"
    /\ \E s \in Reports(p.phase) \ {Start(p.phase)} :
          Becomes(p, [Reporting(runners[p], s) EXCEPT
                         !.verdict = IF p.phase = "TEST" /\ s # "ERROR" THEN s ELSE @])
    /\ UNCHANGED vars

\* Deleted, out of time, or ended by an exception nobody catches.
Die(p) ==
    /\ runners[p].at # "exited"
    /\ Becomes(p, Exited(runners[p]))
    /\ UNCHANGED vars

RunnerStep(p) ==
    \/ Post(p)
    \/ PostAnswered(p)
    \/ Accepted(p)
    \/ Conflict(p)
    \/ NoAnswer(p)
    \/ Work(p)
    \/ Die(p)

\* A Kubernetes Job runs its program once (backoffLimit: 0).
PoolStep ==
    /\ \E t \in dispatch : TaskStep(t)
    /\ runners' = [p \in launched' |-> IF p \in launched THEN runners[p] ELSE Started(p)]

RunnersNext ==
    \/ PoolStep
    \/ PoolIsPrompt /\ GatewayStep /\ UNCHANGED runners
    \/ PoolIsPrompt /\ \E p \in DOMAIN runners : RunnerStep(p)

RunnersSpec == RunnersInit /\ [][RunnersNext]_system

\* A client gives up a try after ten seconds and Kubernetes a Job after its
\* deadline: while a runner is left, some runner goes on, whatever the gateway does.
RunnersGoOn == WF_system(\E p \in DOMAIN runners : RunnerStep(p))

\* A pool thread that created a Job goes on to record its name.
ThreadsGoOn == WF_system(\E t \in dispatch : SetLatestK8sJob(t) /\ UNCHANGED runners)

RunnersLiveSpec == RunnersSpec /\ RunnersGoOn /\ ThreadsGoOn

-----------------------------------------------------------------------------
(* Properties *)

\* Type correctness: every Job that was created has a runner.
RunnersTypeOK ==
    /\ DOMAIN runners = launched
    /\ runners \in [launched -> Runner]

\* TestJobs is right about its environment: whatever these programs do, with
\* their retries and failures, is something TestJobs lets its runners do.
ImplementsTestJobs == Spec

\* The verdict a client sees is what the tests of this attempt came to, not a
\* stale runner's and not one made up by retries and errors.
VerdictIsTrue ==
    row.status \in {"PASSED", "FAILED"} =>
        LET p == [phase |-> "TEST", attempt |-> row.verify_attempt, sha |-> row.code_sha] IN
        p \in DOMAIN runners /\ runners[p].verdict = row.status

\* A runner works only when the job knows of it: its start is recorded, though
\* the answer that said so may have been one to a retry.
WorkIsAnnounced ==
    \A p \in DOMAIN runners : runners[p].at = "working" =>
        \E i \in DOMAIN events :
            /\ events[i].src = "runner"
            /\ events[i].to = Start(p.phase)
            /\ <<events[i].attempt, events[i].sha>> = <<p.attempt, p.sha>>

\* Every runner ends, whatever becomes of its job and of the gateway.
EveryRunnerExits ==
    <>[](\A p \in DOMAIN runners : runners[p].at = "exited")
=============================================================================
