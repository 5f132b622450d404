---------------------------- MODULE RunnersProofs ----------------------------
(***************************************************************************)
(* Theorems about Runners, for every number of commits, requests, sweeps   *)
(* and tries and every choice of Events: the programs in the Kubernetes    *)
(* Jobs do nothing that TestJobs does not let them do, so that what is     *)
(* proved of TestJobs holds of the composed system too; and what the job's *)
(* row and log say of a runner is so.                                      *)
(***************************************************************************)
EXTENDS Runners, TestJobsProofs

-----------------------------------------------------------------------------
(* What goes by the number of an attempt is of that attempt's commit: the
   Kubernetes Jobs, the callbacks in flight and the callbacks in the log. *)

OfAttempt(x) ==
    IF x.phase = "PREPARE"
      THEN x.sha = NoSha
      ELSE x.attempt \in DOMAIN attempts /\ x.sha = attempts[x.attempt]

PodsKnown ==
    /\ \A p \in launched : OfAttempt(p)
    /\ \A t \in dispatch : OfAttempt(t.pod)

\* A callback in flight starts from the status the log had at its version.
CallbackKnown(h) ==
    h.op = "runner" => OfAttempt(h.event) /\ h.event.from = StatusAfter(events, h.version)

CallbacksKnown == \A h \in handlers : CallbackKnown(h)

LogKnown == \A i \in DOMAIN events : events[i].src = "runner" => OfAttempt(events[i])

KInv == HInv /\ PodsKnown /\ CallbacksKnown /\ LogKnown

LEMMA InitKInv == Init => KInv
BY InitHInv DEF Init, KInv, PodsKnown, OfAttempt, CallbacksKnown, LogKnown, Task

\* Attempts are numbered for good.
LEMMA OfAttemptStays ==
    ASSUME IInv, Moves, NEW x, OfAttempt(x)
    PROVE  OfAttempt(x)'
<1>1. \A n \in DOMAIN attempts : n \in DOMAIN attempts' /\ attempts'[n] = attempts[n]
  BY DEF IInv, TypeOK, Moves, Stays, Advances, TakesUp
<1> QED
  BY <1>1 DEF OfAttempt

\* What names the attempt and the commit the job is on is of that attempt.
LEMMA CurrentIsOfAttempt ==
    ASSUME IInv, NEW x, x.sha = row.code_sha, x.phase = "PREPARE" => x.sha = NoSha,
           x.phase # "PREPARE" => x.attempt = row.verify_attempt /\ x.attempt # 0
    PROVE  OfAttempt(x)
BY DEF IInv, TypeOK, RowInv, AttemptsMatchRow, OfAttempt

\* The log is only ever added to.
LEMMA LogKept ==
    ASSUME IInv, Kinds
    PROVE  \A i \in DOMAIN events : i \in DOMAIN events' /\ events'[i] = events[i]
<1>1. events \in Seq(Event)
  BY DEF IInv, TypeOK
<1>2. CASE Quiet
  BY <1>2 DEF Quiet
<1>3. CASE \E e : Recorded(e)
  BY <1>1, <1>3, Appended DEF Recorded
<1>4. CASE \E v : First(v)
  BY <1>1, <1>4, Appended DEF First, Queued
<1>5. CASE \E s, v : Replaced(s, v)
  BY <1>1, <1>5, Appended DEF Replaced, Queued
<1> QED
  BY <1>2, <1>3, <1>4, <1>5 DEF Kinds

\* The status at a version that was reached does not change.
LEMMA PastStatusKept ==
    ASSUME IInv, Kinds, NEW n \in Nat, n <= row.version
    PROVE  StatusAfter(events, n)' = StatusAfter(events, n)
<1>1. n = 0 \/ n \in DOMAIN events
  BY DEF IInv, TypeOK, RowInv, LogExplainsRow, Explains
<1> QED
  BY <1>1, LogKept DEF StatusAfter

\* An event of a runner is one that a callback in flight carried.
LEMMA RunnerRecords ==
    ASSUME HInv, [Next]_vars, NEW i \in DOMAIN events' \ DOMAIN events,
           events'[i].src = "runner"
    PROVE  \E h \in handlers : RunnerCommit(h) /\ events'[i] = h.event
<1>1. IInv /\ events \in Seq(Event) /\ attempts \in Seq(Shas) /\ handlers \subseteq Handler
  BY DEF HInv, IInv, TypeOK
<1>2. events' # events
  OBVIOUS
<1>3. PICK h \in handlers : HandlerStep(h)
  <2>1. CASE \/ \E sha \in Shas : VerifyRead(sha)
             \/ CancelRead
             \/ ExpireScan
             \/ ReleaseScan
             \/ RunnerSends
             \/ \E t \in dispatch : TaskStep(t)
             \/ UNCHANGED vars
    BY <1>2, <2>1 DEF VerifyRead, CancelRead, ExpireScan, ReleaseScan, RunnerSends, RunnerRead,
       TaskStep, Launch, LaunchFails, SetLatestK8sJob, DispatchErrorRead, LoseTask, db, vars
  <2> QED
    BY <2>1 DEF Next, GatewayStep
<1>4. ASSUME NEW e \in Event, events' = Append(events, e)
      PROVE  events'[i] = e
  BY <1>1, <1>4, Appended
<1>5. CASE RunnerCommit(h)
  <2>1. h.event \in Event /\ events' = Append(events, h.event)
    BY <1>1, <1>5, HandlerShape DEF RunnerCommit, Callback
  <2> QED
    BY <1>4, <1>5, <2>1
<1>6. CASE VerifyFirst(h)
  <2>1. h.ref \in Shas /\ h.snap.status \in JobStatuses
    BY <1>1, <1>6, HandlerShape DEF VerifyFirst, Verifier, Snapshot
  <2>2. VerifyEvent(h.ref, h.snap.status) \in Event
    BY <1>1, <2>1, VerifyEventType
  <2> QED
    BY <1>4, <1>6, <2>2 DEF VerifyFirst, VerifyEvent
<1>7. CASE VerifySupersede(h)
  <2>1. PICK s \in Event, v \in Event : Replaced(s, v)
    BY <1>1, <1>7, VerifySupersedeKind DEF Replaced, Queued
  <2>2. /\ events' = Append(Append(events, s), v)
        /\ s.src = "supersede" /\ v.src = "verify"
    BY <2>1 DEF Replaced, Queued
  <2>3. events'[i] \in {s, v}
    BY <1>1, <2>2, Appended
  <2> QED
    BY <2>2, <2>3
<1>8. CASE CancelCommit(h) \/ ExpireCommit(h)
  <2>1. PICK kind, status, r :
            /\ kind \in {"cancel", "timeout"}
            /\ status \in {"CANCELLED", "TIMEOUT"}
            /\ Stop(h, kind, status, r)
    BY <1>8 DEF CancelCommit, ExpireCommit
  <2>2. h \in Stopper
    BY <1>1, <1>8, HandlerShape DEF CancelCommit, ExpireCommit
  <2>3. StopEvent(h, kind, status) \in Event
    BY <2>1, <2>2, StopEventType DEF Terminal
  <2> QED
    BY <1>4, <2>1, <2>3 DEF Stop, StopEvent
<1>9. CASE DispatchErrorCommit(h)
  <2>1. h \in Stopper
    BY <1>1, <1>9, HandlerShape DEF DispatchErrorCommit
  <2> QED
    BY <1>4, <1>9, <2>1, DispatchErrorType DEF DispatchErrorCommit, DispatchError
<1>10. CASE \/ VerifySame(h) \/ CancelDelete(h) \/ ExpireRead(h) \/ ExpireDelete(h)
            \/ ReleaseDelete(h) \/ ReleaseClear(h) \/ Abandon(h)
  BY <1>2, <1>10 DEF VerifySame, CancelDelete, ExpireRead, ExpireDelete, ReleaseDelete,
     ReleaseClear, Abandon, db
<1> QED
  BY <1>3, <1>5, <1>6, <1>7, <1>8, <1>9, <1>10 DEF HandlerStep

\* A launch is submitted for the attempt and the commit that a verification or a
\* callback has just put the job on.
LEMMA PodsStayKnown == ASSUME HInv, PodsKnown, [Next]_vars PROVE PodsKnown'
<1>1. IInv /\ Moves /\ TypeOK /\ IInv'
  BY NextMoves, NextInv DEF HInv, IInv
<1>2. \A x : OfAttempt(x) => OfAttempt(x)'
  BY <1>1, OfAttemptStays
<1>3. CASE \E t \in dispatch : TaskStep(t)
  <2>1. PICK t \in dispatch : TaskStep(t)
    BY <1>3
  <2>2. /\ launched' \subseteq launched \union {t.pod}
        /\ \A u \in dispatch' : u \in dispatch \/ u.pod = t.pod
    BY <1>1, <2>1 DEF TaskStep, Launch, LaunchFails, SetLatestK8sJob, DispatchErrorRead, LoseTask,
       cluster, TypeOK, Tasks
  <2> QED
    BY <1>2, <2>2 DEF PodsKnown
<1>4. CASE \E h \in handlers : VerifyFirst(h) \/ VerifySupersede(h)
  <2>1. PICK h \in handlers : VerifyFirst(h) \/ VerifySupersede(h)
    BY <1>4
  <2>2. PICK r, from : QueueVerify(h.ref, r, from)
    BY <2>1 DEF VerifyFirst, VerifySupersede
  <2>3. PICK t : t = Task("GENERATE", Len(attempts) + 1, h.ref)
    OBVIOUS
  <2>4. /\ dispatch' = dispatch \union {t} /\ launched' = launched
        /\ attempts' = Append(attempts, h.ref) /\ h.ref \in Shas
    BY <1>1, <2>1, <2>2, <2>3, HandlerShape
       DEF TypeOK, VerifyFirst, VerifySupersede, QueueVerify, VerifyEvent, cluster, Verifier
  <2>5. OfAttempt(t.pod)'
    BY <1>1, <2>3, <2>4 DEF TypeOK, Task, OfAttempt
  <2> QED
    BY <1>2, <2>4, <2>5 DEF PodsKnown
<1>5. CASE \E h \in handlers : RunnerCommit(h)
  <2>1. PICK h \in handlers : RunnerCommit(h)
    BY <1>5
  <2> DEFINE e == h.event
  <2>2. /\ h \in Callback /\ e \in Event /\ CallbackFresh(h) /\ h.version = row.version
        /\ dispatch' = dispatch \union TestLaunch(e) /\ launched' = launched
        /\ row \in Row
    BY <1>1, <2>1, HandlerShape
       DEF TypeOK, RunnerCommit, CanRecord, Callback, IInv, ReadsFresh, Fresh, cluster
  <2>3. /\ e.to = "TEST_QUEUED" => e.phase = "GENERATE"
        /\ e.sha = row.code_sha /\ PodFits(e.phase, e.attempt, e.sha)
        /\ e.phase # "PREPARE" => e.attempt = row.verify_attempt
    BY <2>2, ReportsFacts DEF CallbackFresh
  <2>4. Written(row, e).code_sha = row.code_sha
    BY <2>2, <2>3, WrittenRow
  <2> HIDE DEF e
  <2>5. ASSUME NEW t \in TestLaunch(e)
        PROVE  OfAttempt(t.pod)
    <3>1. /\ t.pod.phase = "TEST" /\ t.pod.attempt = row.verify_attempt
          /\ t.pod.sha = row.code_sha /\ t.pod.attempt # 0
      BY <2>3, <2>4, <2>5 DEF TestLaunch, Task, PodFits
    <3> QED
      BY <1>1, <3>1, CurrentIsOfAttempt
  <2> QED
    BY <1>2, <2>2, <2>5 DEF PodsKnown
<1>6. CASE UNCHANGED <<dispatch, launched>>
  BY <1>2, <1>6 DEF PodsKnown
<1>7. \/ \E t \in dispatch : TaskStep(t)
      \/ \E h \in handlers : VerifyFirst(h) \/ VerifySupersede(h) \/ RunnerCommit(h)
      \/ UNCHANGED <<dispatch, launched>>
  BY DEF Next, GatewayStep, HandlerStep, VerifyRead, CancelRead, ExpireScan, ReleaseScan,
     RunnerSends, RunnerRead, VerifySame, CancelDelete, CancelCommit, ExpireRead, ExpireDelete,
     ExpireCommit, Stop, ReleaseDelete, ReleaseClear, DispatchErrorCommit, Abandon, cluster, vars
<1> QED
  BY <1>3, <1>4, <1>5, <1>6, <1>7

\* Only a request of a runner begins a callback, ...
LEMMA NoCallbackBegins ==
    ASSUME TypeOK, GatewayStep \/ (\E t \in dispatch : TaskStep(t)) \/ UNCHANGED vars,
           NEW k \in handlers', k.op = "runner"
    PROVE  k \in handlers
<1>1. CASE \/ \E sha \in Shas : VerifyRead(sha)
           \/ CancelRead
           \/ ExpireScan
           \/ ReleaseScan
           \/ \E t \in dispatch : TaskStep(t)
           \/ UNCHANGED vars
  BY <1>1 DEF VerifyRead, CancelRead, ExpireScan, ReleaseScan, TaskStep, Launch, LaunchFails,
     SetLatestK8sJob, DispatchErrorRead, LoseTask, Begin, Holding, vars
<1>2. CASE \E h \in handlers : HandlerStep(h)
  <2>1. PICK h \in handlers : HandlerStep(h)
    BY <1>2
  <2>2. ASSUME NEW op, op # "runner", h.op \notin {"verify", "runner"}, Continue(h, op)
        PROVE  k \in handlers
    <3>1. h \in Stopper \union Releaser
      BY <2>2 DEF TypeOK, Handler, Verifier, Callback
    <3>2. [h EXCEPT !.op = op].op = op
      BY <3>1 DEF Stopper, Releaser
    <3> QED
      BY <2>2, <3>2 DEF Continue
  <2>3. CASE CancelDelete(h) \/ ExpireDelete(h) \/ ReleaseDelete(h)
    BY <2>2, <2>3 DEF CancelDelete, ExpireDelete, ReleaseDelete
  <2>4. CASE ExpireRead(h)
    BY <2>4 DEF ExpireRead, Holding
  <2>5. CASE \/ VerifyFirst(h) \/ VerifySame(h) \/ VerifySupersede(h) \/ RunnerCommit(h)
             \/ CancelCommit(h) \/ ExpireCommit(h) \/ ReleaseClear(h)
             \/ DispatchErrorCommit(h) \/ Abandon(h)
    BY <2>5 DEF VerifyFirst, VerifySame, VerifySupersede, RunnerCommit, CancelCommit,
       ExpireCommit, ReleaseClear, DispatchErrorCommit, Abandon, Stop, End
  <2> QED
    BY <2>1, <2>3, <2>4, <2>5 DEF HandlerStep
<1> QED
  BY <1>1, <1>2 DEF GatewayStep

\* ... and it begins on the row as it is.
LEMMA CallbacksBegin ==
    ASSUME TypeOK, [Next]_vars, NEW k \in handlers', k.op = "runner", k \notin handlers
    PROVE  \E pod \in launched : \E s \in Reports(pod.phase) :
              /\ RunnerRead(pod, s)
              /\ k = [op |-> "runner", version |-> row.version, event |-> RunnerEvent(pod, s)]
<1>1. RunnerSends
  BY NoCallbackBegins DEF Next
<1> QED
  BY <1>1 DEF RunnerSends, RunnerRead, Begin

LEMMA CallbacksStayKnown == ASSUME KInv, [Next]_vars PROVE CallbacksKnown'
<1> SUFFICES ASSUME NEW k \in handlers', k.op = "runner" PROVE CallbackKnown(k)'
  BY DEF CallbacksKnown, CallbackKnown
<1>1. IInv /\ Moves /\ TypeOK /\ Kinds
  BY NextMoves, StepKinds DEF KInv, HInv, IInv
<1>2. CASE k \in handlers
  <2>1. /\ k \in Callback /\ k.version \in Nat /\ k.version <= row.version
        /\ OfAttempt(k.event) /\ k.event.from = StatusAfter(events, k.version)
    BY <1>1, <1>2, HandlerShape
       DEF TypeOK, Callback, IInv, ReadsFresh, Fresh, CallbackFresh, KInv, CallbacksKnown,
           CallbackKnown
  <2> QED
    BY <1>1, <2>1, OfAttemptStays, PastStatusKept DEF CallbackKnown
<1>3. CASE k \notin handlers
  <2>1. PICK pod \in launched : \E s \in Reports(pod.phase) :
            /\ RunnerRead(pod, s)
            /\ k = [op |-> "runner", version |-> row.version, event |-> RunnerEvent(pod, s)]
    BY <1>1, <1>3, CallbacksBegin
  <2>2. PICK s \in Reports(pod.phase) :
            /\ RunnerRead(pod, s)
            /\ k = [op |-> "runner", version |-> row.version, event |-> RunnerEvent(pod, s)]
    BY <2>1
  <2>3. /\ k.event.phase = pod.phase /\ k.event.attempt = pod.attempt /\ k.event.sha = pod.sha
        /\ k.event.from = row.status /\ k.version = row.version
    BY <2>2 DEF RunnerEvent
  <2>4. OfAttempt(k.event)
    BY <2>3 DEF KInv, PodsKnown, OfAttempt
  <2>5. k.event.from = StatusAfter(events, k.version)
    BY <1>1, <2>3 DEF IInv, RowInv, LogExplainsRow, Explains
  <2>6. UNCHANGED <<events, attempts>>
    BY <2>2 DEF RunnerRead, db
  <2> QED
    BY <2>4, <2>5, <2>6 DEF CallbackKnown, OfAttempt, StatusAfter
<1> QED
  BY <1>2, <1>3

LEMMA LogStaysKnown == ASSUME KInv, [Next]_vars PROVE LogKnown'
<1> SUFFICES ASSUME NEW i \in DOMAIN events', NEW e, e = events'[i], e.src = "runner"
             PROVE  OfAttempt(e)'
  BY DEF LogKnown, OfAttempt
<1>1. IInv /\ Moves /\ Kinds /\ HInv
  BY NextMoves, StepKinds DEF KInv, HInv
<1>2. CASE i \in DOMAIN events
  BY <1>1, <1>2, LogKept, OfAttemptStays DEF KInv, LogKnown
<1>3. CASE i \notin DOMAIN events
  <2>1. PICK h \in handlers : RunnerCommit(h) /\ e = h.event
    BY <1>1, <1>3, RunnerRecords
  <2>2. OfAttempt(e)
    BY <2>1 DEF RunnerCommit, KInv, CallbacksKnown, CallbackKnown
  <2> QED
    BY <1>1, <2>2, OfAttemptStays
<1> QED
  BY <1>2, <1>3

LEMMA NextKInv == KInv /\ [Next]_vars => KInv'
<1> SUFFICES ASSUME KInv, [Next]_vars PROVE KInv'
  OBVIOUS
<1> QED
  BY NextHInv, PodsStayKnown, CallbacksStayKnown, LogStaysKnown DEF KInv

-----------------------------------------------------------------------------
(* The runners. *)

ReportsFit == \A p \in launched : runners[p].report \in Reports(p.phase)

\* A runner that works has announced it, and has no verdict before it did.
StartsAreFresh ==
    \A p \in launched :
        /\ runners[p].at = "working" => runners[p].report = Start(p.phase)
        /\ runners[p].report = Start(p.phase) => runners[p].verdict = "NONE"

\* A runner reports the verdict it came to ...
ReportsTrue ==
    \A p \in launched :
        runners[p].report \in Verdicts => runners[p].verdict = runners[p].report

\* ... and a callback in flight carries the verdict of its runner.
PodOf(e) == [phase |-> e.phase, attempt |-> e.attempt, sha |-> e.sha]

CallbacksTrue ==
    \A h \in handlers :
        h.op = "runner" /\ h.event.to \in Verdicts =>
            PodOf(h.event) \in launched /\ runners[PodOf(h.event)].verdict = h.event.to

RInv ==
    /\ KInv
    /\ RunnersTypeOK
    /\ ReportsFit
    /\ StartsAreFresh
    /\ ReportsTrue
    /\ CallbacksTrue
    /\ WorkIsAnnounced
    /\ VerdictIsTrue

\* What a step may do to a runner: leave its report and its verdict alone, ...
Kept(p, r) ==
    /\ r.report = runners[p].report
    /\ r.verdict = runners[p].verdict
    /\ r.at = "working" => r.report = Start(p.phase)

\* ... give up and report ERROR, ...
GaveUp(p, r) ==
    /\ r.report = "ERROR"
    /\ r.verdict = runners[p].verdict
    /\ r.at # "working"

\* ... or report what became of its work.
Worked(p, r) ==
    /\ runners[p].at = "working"
    /\ r.at # "working"
    /\ r.report \in Reports(p.phase) \ {Start(p.phase)}
    /\ r.verdict = IF p.phase = "TEST" /\ r.report # "ERROR" THEN r.report ELSE runners[p].verdict

Runs(p, r) == r \in Runner /\ (Kept(p, r) \/ GaveUp(p, r) \/ Worked(p, r))

LEMMA StartFacts ==
    ASSUME NEW p \in Pods
    PROVE  /\ Start(p.phase) \in Reports(p.phase)
           /\ Start(p.phase) \notin Verdicts \union {"ERROR"}
           /\ "ERROR" \in Reports(p.phase)
           /\ Reports(p.phase) \subseteq JobStatuses
           /\ p.phase = "TEST" => Reports(p.phase) \ {Start(p.phase), "ERROR"}
                                     \subseteq {"PASSED", "FAILED", "TIMEOUT"}
           /\ p.phase # "TEST" => Reports(p.phase) \intersect Verdicts = {}
BY DEF Pods, Start, Reports, Verdicts, JobStatuses, Active, Terminal

\* The helpers touch what they say, and a runner stays one.
LEMMA ExitedRunner ==
    ASSUME NEW r \in Runner
    PROVE  /\ Exited(r) \in Runner /\ Exited(r).at = "exited"
           /\ Exited(r).report = r.report /\ Exited(r).verdict = r.verdict
BY DEF Exited, Runner

LEMMA ForgottenRunner ==
    ASSUME NEW r \in Runner
    PROVE  /\ Forget(r) \in Runner /\ Forget(r).at = r.at
           /\ Forget(r).report = r.report /\ Forget(r).verdict = r.verdict
BY DEF Forget, Runner

LEMMA ReportingRunner ==
    ASSUME NEW r \in Runner, NEW status \in JobStatuses
    PROVE  /\ Reporting(r, status) \in Runner /\ Reporting(r, status).at = "posting"
           /\ Reporting(r, status).report = status
           /\ Reporting(r, status).verdict = r.verdict
<1>1. 0 \in 0..MaxTries - 1
  BY MaxTriesAssumption
<1> QED
  BY <1>1, Zenon DEF Reporting, Runner

LEMMA SucceededRunner ==
    ASSUME NEW p, NEW r \in Runner
    PROVE  /\ Succeeded(p, r) \in Runner
           /\ Succeeded(p, r).report = r.report /\ Succeeded(p, r).verdict = r.verdict
           /\ Succeeded(p, r).at = "working" => r.report = Start(p.phase)
BY ExitedRunner DEF Succeeded, Runner

LEMMA FailedRunner ==
    ASSUME NEW r \in Runner
    PROVE  /\ Failed(r) \in Runner /\ Failed(r).verdict = r.verdict
           /\ Failed(r).report \in {r.report, "ERROR"} /\ Failed(r).at # "working"
<1>1. "ERROR" \in JobStatuses
  BY DEF JobStatuses, Terminal
<1> QED
  BY <1>1, ExitedRunner, ReportingRunner DEF Failed

LEMMA RetriedRunner ==
    ASSUME NEW r \in Runner
    PROVE  /\ Retried(r) \in Runner /\ Retried(r).verdict = r.verdict
           /\ Retried(r).report \in {r.report, "ERROR"} /\ Retried(r).at # "working"
<1>1. CASE r.tries + 1 < MaxTries
  <2>1. r.tries + 1 \in 0..MaxTries - 1
    BY <1>1, MaxTriesAssumption DEF Runner
  <2>2. Retried(r) = [r EXCEPT !.at = "posting", !.tries = @ + 1]
    BY <1>1 DEF Retried
  <2> QED
    BY <2>1, <2>2 DEF Runner
<1>2. CASE ~(r.tries + 1 < MaxTries)
  BY <1>2, FailedRunner DEF Retried
<1> QED
  BY <1>1, <1>2

LEMMA StartedRunner ==
    ASSUME NEW p \in Pods
    PROVE  /\ Started(p) \in Runner /\ Started(p).at = "posting"
           /\ Started(p).report = Start(p.phase) /\ Started(p).verdict = "NONE"
<1>1. 0 \in 0..MaxTries - 1 /\ Start(p.phase) \in JobStatuses
  BY MaxTriesAssumption, StartFacts
<1> QED
  BY <1>1 DEF Started, Runner

\* The step of a runner is one of the three, and no other runner's.
LEMMA RunnerStepRuns ==
    ASSUME TypeOK, RunnersTypeOK, ReportsFit, StartsAreFresh, NEW p \in launched, RunnerStep(p)
    PROVE  \E r : Runs(p, r) /\ runners' = [runners EXCEPT ![p] = r]
<1> DEFINE c == runners[p]
<1>1. p \in Pods /\ c \in Runner /\ row.version \in Nat
  BY DEF TypeOK, Row, RunnersTypeOK
<1>2. /\ Start(p.phase) # "ERROR"
      /\ c.at = "working" => c.report = Start(p.phase)
  BY <1>1, StartFacts DEF StartsAreFresh
<1>3. ASSUME NEW r, Runs(p, r), Becomes(p, r)
      PROVE  \E q : Runs(p, q) /\ runners' = [runners EXCEPT ![p] = q]
  <2>1. Runs(p, Forget(r))
    BY <1>3, ForgottenRunner DEF Runs, Kept, GaveUp, Worked
  <2> QED
    BY <1>3, <2>1 DEF Becomes
<1>4. CASE Post(p)
  <2>1. PICK overlaps \in BOOLEAN :
            Becomes(p, [c EXCEPT !.at = "waiting", !.version = row.version, !.overlaps = overlaps])
    BY <1>4 DEF Post
  <2> DEFINE r == [c EXCEPT !.at = "waiting", !.version = row.version, !.overlaps = overlaps]
  <2>2. r \in Runner /\ r.at = "waiting" /\ r.report = c.report /\ r.verdict = c.verdict
    BY <1>1 DEF Runner
  <2>3. Runs(p, r)
    BY <2>2 DEF Runs, Kept
  <2> QED
    BY <1>3, <2>1, <2>3
<1>5. Runs(p, Succeeded(p, c))
  BY <1>1, SucceededRunner DEF Runs, Kept
<1>6. Runs(p, Failed(c)) /\ Runs(p, Retried(c)) /\ Runs(p, Exited(c))
  BY <1>1, FailedRunner, RetriedRunner, ExitedRunner DEF Runs, Kept, GaveUp
<1>7. CASE PostAnswered(p) \/ Accepted(p) \/ Conflict(p) \/ NoAnswer(p) \/ Die(p)
  <2>1. \/ Becomes(p, Succeeded(p, c))
        \/ Becomes(p, Failed(c))
        \/ Becomes(p, Retried(c))
        \/ Becomes(p, Exited(c))
    BY <1>7 DEF PostAnswered, Accepted, Conflict, NoAnswer, Die
  <2> QED
    BY <1>3, <1>5, <1>6, <2>1
<1>8. CASE Work(p)
  <2>1. PICK s \in Reports(p.phase) \ {Start(p.phase)} :
            Becomes(p, [Reporting(c, s) EXCEPT
                           !.verdict = IF p.phase = "TEST" /\ s # "ERROR" THEN s ELSE @])
    BY <1>8 DEF Work
  <2> DEFINE w == Reporting(c, s)
             verdict == IF p.phase = "TEST" /\ s # "ERROR" THEN s ELSE c.verdict
             r == [w EXCEPT !.verdict = verdict]
  <2>2. w \in Runner /\ w.at = "posting" /\ w.report = s /\ w.verdict = c.verdict
    BY <1>1, <2>1, StartFacts, ReportingRunner
  <2>3. verdict \in {"NONE", "PASSED", "FAILED", "TIMEOUT"}
    BY <1>1, <2>1, StartFacts DEF Runner
  <2>4. Becomes(p, r)
    BY <2>1, <2>2
  <2> HIDE DEF w
  <2>5. r \in Runner /\ r.at = "posting" /\ r.report = s /\ r.verdict = verdict
    <3> HIDE DEF verdict
    <3> QED
      BY <2>2, <2>3 DEF Runner
  <2>6. Runs(p, r)
    BY <1>8, <2>1, <2>5 DEF Runs, Worked, Work
  <2> QED
    BY <1>3, <2>4, <2>6
<1> QED
  BY <1>4, <1>7, <1>8 DEF RunnerStep

\* A callback is served by one handler.
LEMMA OneServes ==
    ASSUME KInv, NEW p, NEW v, NEW g \in HandlersOf(p, v), NEW h \in HandlersOf(p, v)
    PROVE  g = h
<1>1. /\ g \in Callback /\ h \in Callback
      /\ g.op = "runner" /\ h.op = "runner"
      /\ g.version = v /\ h.version = v
      /\ SameId(g.event, Report(p)) /\ SameId(h.event, Report(p))
      /\ g \in handlers /\ h \in handlers
  BY HandlerShape DEF HandlersOf, Serving, KInv, HInv, IInv, TypeOK
<1>2. /\ g.event \in Event /\ h.event \in Event
      /\ g.event.src = h.event.src /\ g.event.ref = h.event.ref
      /\ g.event.phase = h.event.phase /\ g.event.attempt = h.event.attempt
      /\ g.event.to = h.event.to
  BY <1>1 DEF Callback, SameId, Report, RunnerEvent
<1>3. g.event.from = h.event.from /\ g.event.sha = h.event.sha
  BY <1>1, <1>2 DEF KInv, CallbacksKnown, CallbackKnown, OfAttempt
<1>4. g.event = h.event
  BY <1>2, <1>3 DEF Event
<1> QED
  BY <1>1, <1>4 DEF Callback

\* What a runner does to the gateway is what TestJobs lets its runners do.
LEMMA RunnerStepImplements ==
    ASSUME KInv, RunnersTypeOK, ReportsFit, PoolIsPrompt, NEW p \in launched, RunnerStep(p)
    PROVE  [Next]_vars
<1>1. CASE Post(p)
  <2>1. runners[p].report \in Reports(p.phase) /\ RunnerRead(p, runners[p].report)
    BY <1>1 DEF Post, ReportsFit
  <2> QED
    BY <2>1 DEF RunnerSends, Next
<1>2. CASE PostAnswered(p) \/ NoAnswer(p) \/ Work(p) \/ Die(p)
  BY <1>2 DEF PostAnswered, NoAnswer, Work, Die
<1>3. CASE Accepted(p)
  BY <1>3 DEF Accepted, Serves, HandlersOf, Serving, HandlerStep, GatewayStep, Next
<1>4. CASE Conflict(p)
  <2>1. handlers' = handlers \ Serves(p) /\ UNCHANGED <<db, dispatch, cluster>>
    BY <1>4 DEF Conflict, IsConflict
  <2>2. CASE Serves(p) = {}
    BY <2>1, <2>2 DEF db, cluster, vars
  <2>3. CASE Serves(p) # {}
    <3>1. PICK h : h \in Serves(p)
      BY <2>3
    <3>2. h \in handlers /\ Serves(p) = {h}
      BY <3>1, OneServes DEF Serves, HandlersOf, Serving
    <3>3. Abandon(h)
      BY <2>1, <3>2 DEF Abandon, End
    <3> QED
      BY <3>2, <3>3 DEF HandlerStep, GatewayStep, Next
  <2> QED
    BY <2>2, <2>3
<1> QED
  BY <1>1, <1>2, <1>3, <1>4 DEF RunnerStep

LEMMA SystemStepImplements ==
    ASSUME KInv, RunnersTypeOK, ReportsFit, [RunnersNext]_system
    PROVE  [Next]_vars
<1>1. CASE PoolStep
  BY <1>1 DEF PoolStep, Next
<1>2. CASE PoolIsPrompt /\ GatewayStep
  BY <1>2 DEF Next
<1>3. CASE PoolIsPrompt /\ \E p \in DOMAIN runners : RunnerStep(p)
  BY <1>3, RunnerStepImplements DEF RunnersTypeOK
<1>4. CASE UNCHANGED system
  BY <1>4 DEF system
<1> QED
  BY <1>1, <1>2, <1>3, <1>4 DEF RunnersNext

\* A Kubernetes Job comes with its runner, and no step takes a runner away.
LEMMA SystemRuns ==
    ASSUME KInv, RunnersTypeOK, ReportsFit, StartsAreFresh, [RunnersNext]_system
    PROVE  /\ launched \subseteq launched' /\ DOMAIN runners' = launched'
           /\ runners' = [q \in launched' |-> runners'[q]]
           /\ \A q \in launched : runners'[q] = runners[q] \/ Runs(q, runners'[q])
           /\ \A q \in launched' \ launched : runners'[q] = Started(q)
<1>1. TypeOK /\ DOMAIN runners = launched /\ runners \in [launched -> Runner]
  BY DEF KInv, HInv, IInv, RunnersTypeOK
<1>2. CASE PoolStep
  <2>1. launched \subseteq launched'
    BY <1>2 DEF PoolStep, TaskStep, Launch, LaunchFails, SetLatestK8sJob, DispatchErrorRead,
       LoseTask, cluster
  <2> QED
    BY <1>1, <1>2, <2>1 DEF PoolStep
<1>3. CASE GatewayStep /\ UNCHANGED runners
  <2>1. launched' = launched
    BY <1>3 DEF GatewayStep, HandlerStep, VerifyRead, CancelRead, ExpireScan, ReleaseScan,
       VerifyFirst, VerifySame, VerifySupersede, RunnerCommit, CancelDelete, CancelCommit,
       ExpireRead, ExpireDelete, ExpireCommit, Stop, ReleaseDelete, ReleaseClear,
       DispatchErrorCommit, Abandon, cluster
  <2> QED
    BY <1>1, <1>3, <2>1
<1>4. CASE \E p \in DOMAIN runners : RunnerStep(p)
  <2>1. PICK p \in launched : RunnerStep(p)
    BY <1>1, <1>4
  <2>2. launched' = launched
    BY <2>1 DEF RunnerStep, Post, RunnerRead, PostAnswered, Accepted, RunnerCommit, Conflict,
       IsConflict, NoAnswer, Work, Die, cluster, vars
  <2>3. PICK r : Runs(p, r) /\ runners' = [runners EXCEPT ![p] = r]
    BY <1>1, <2>1, RunnerStepRuns
  <2> QED
    BY <1>1, <2>2, <2>3
<1>5. CASE UNCHANGED system
  BY <1>1, <1>5 DEF system, vars
<1> QED
  BY <1>2, <1>3, <1>4, <1>5 DEF RunnersNext

\* A verdict is a runner's last.
LEMMA VerdictKept ==
    ASSUME RInv, [RunnersNext]_system, NEW p \in launched, runners[p].verdict # "NONE"
    PROVE  p \in launched' /\ runners'[p].verdict = runners[p].verdict
<1>1. p \in launched' /\ (runners'[p] = runners[p] \/ Runs(p, runners'[p]))
  BY SystemRuns DEF RInv
<1>2. runners[p].at # "working"
  BY DEF RInv, StartsAreFresh
<1> QED
  BY <1>1, <1>2 DEF Runs, Kept, GaveUp, Worked

LEMMA RunnersStayTyped ==
    ASSUME RInv, [RunnersNext]_system
    PROVE  RunnersTypeOK' /\ ReportsFit' /\ StartsAreFresh' /\ ReportsTrue'
<1>1. launched' \subseteq Pods /\ launched \subseteq Pods
  BY SystemStepImplements, NextType DEF RInv, KInv, HInv, IInv, TypeOK
<1>2. /\ DOMAIN runners' = launched' /\ runners' = [q \in launched' |-> runners'[q]]
      /\ \A q \in launched : runners'[q] = runners[q] \/ Runs(q, runners'[q])
      /\ \A q \in launched' \ launched : runners'[q] = Started(q)
  BY SystemRuns DEF RInv
<1>3. ASSUME NEW q \in launched'
      PROVE  /\ runners'[q] \in Runner
             /\ runners'[q].report \in Reports(q.phase)
             /\ runners'[q].at = "working" => runners'[q].report = Start(q.phase)
             /\ runners'[q].report = Start(q.phase) => runners'[q].verdict = "NONE"
             /\ runners'[q].report \in Verdicts => runners'[q].verdict = runners'[q].report
  <2>1. /\ Start(q.phase) \in Reports(q.phase) /\ Start(q.phase) \notin Verdicts
        /\ "ERROR" \in Reports(q.phase) /\ Start(q.phase) # "ERROR"
        /\ q.phase # "TEST" => Reports(q.phase) \intersect Verdicts = {}
    BY <1>1, StartFacts
  <2>2. "ERROR" \notin Verdicts
    BY DEF Verdicts
  <2>3. CASE q \in launched
    <3>1. /\ runners[q] \in Runner
          /\ runners[q].report \in Reports(q.phase)
          /\ runners[q].at = "working" => runners[q].report = Start(q.phase)
          /\ runners[q].report = Start(q.phase) => runners[q].verdict = "NONE"
          /\ runners[q].report \in Verdicts => runners[q].verdict = runners[q].report
      BY <2>3 DEF RInv, RunnersTypeOK, ReportsFit, StartsAreFresh, ReportsTrue
    <3> QED
      BY <1>2, <2>1, <2>2, <2>3, <3>1 DEF Runs, Kept, GaveUp, Worked
  <2>4. CASE q \notin launched
    BY <1>1, <1>2, <2>1, <2>4, StartedRunner
  <2> QED
    BY <2>3, <2>4
<1> QED
  BY <1>2, <1>3 DEF RunnersTypeOK, ReportsFit, StartsAreFresh, ReportsTrue

\* A callback that begins is the report of its runner.
LEMMA CallbackIsReport ==
    ASSUME RInv, [RunnersNext]_system, NEW k \in handlers', k.op = "runner", k \notin handlers
    PROVE  \E p \in launched :
              /\ Post(p)
              /\ PodOf(k.event) = p /\ k.event.to = runners[p].report
<1>1. TypeOK /\ launched \subseteq Pods /\ DOMAIN runners = launched
  BY DEF RInv, KInv, HInv, IInv, TypeOK, RunnersTypeOK
<1>2. ~(GatewayStep \/ (\E t \in dispatch : TaskStep(t)) \/ UNCHANGED vars)
  BY <1>1, NoCallbackBegins
<1>3. PICK p \in launched : RunnerStep(p)
  BY <1>1, <1>2 DEF RunnersNext, PoolStep, system
<1>4. Post(p)
  BY <1>2, <1>3 DEF RunnerStep, PostAnswered, Accepted, RunnerCommit, End, Conflict, IsConflict,
     NoAnswer, Work, Die
<1>5. k.event = RunnerEvent(p, runners[p].report)
  BY <1>4 DEF Post, RunnerRead, Begin
<1>6. PodOf(k.event) = p
  BY <1>1, <1>5 DEF PodOf, RunnerEvent, Pods
<1> QED
  BY <1>4, <1>5, <1>6 DEF RunnerEvent

LEMMA CallbacksStayTrue == ASSUME RInv, [RunnersNext]_system PROVE CallbacksTrue'
<1> SUFFICES ASSUME NEW k \in handlers', k.op = "runner", k.event.to \in Verdicts
             PROVE  PodOf(k.event) \in launched' /\ runners'[PodOf(k.event)].verdict = k.event.to
  BY DEF CallbacksTrue, PodOf
<1>1. PodOf(k.event) \in launched /\ runners[PodOf(k.event)].verdict = k.event.to
  <2>1. CASE k \in handlers
    BY <2>1 DEF RInv, CallbacksTrue
  <2>2. CASE k \notin handlers
    <3>1. PICK p \in launched : PodOf(k.event) = p /\ k.event.to = runners[p].report
      BY <2>2, CallbackIsReport
    <3> QED
      BY <3>1 DEF RInv, ReportsTrue
  <2> QED
    BY <2>1, <2>2
<1> QED
  BY <1>1, VerdictKept DEF Verdicts

\* The log tells of a runner that it started.
Announced(p) ==
    \E i \in DOMAIN events :
        /\ events[i].src = "runner"
        /\ events[i].to = Start(p.phase)
        /\ <<events[i].attempt, events[i].sha>> = <<p.attempt, p.sha>>

\* An event that has the ID of a runner's report is about the runner's commit.
LEMMA SameIdSameCommit ==
    ASSUME KInv, NEW p \in launched, NEW e, OfAttempt(e), SameId(e, Report(p))
    PROVE  /\ e.src = "runner" /\ e.to = runners[p].report
           /\ e.attempt = p.attempt /\ e.sha = p.sha
<1>1. /\ e.src = "runner" /\ e.to = runners[p].report
      /\ e.phase = p.phase /\ e.attempt = p.attempt
  BY DEF SameId, Report, RunnerEvent
<1>2. OfAttempt(p)
  BY DEF KInv, PodsKnown
<1> QED
  BY <1>1, <1>2 DEF OfAttempt

LEMMA SeenIsAnnounced ==
    ASSUME KInv, NEW p \in launched, runners[p].report = Start(p.phase), Seen(Report(p))
    PROVE  Announced(p)
<1>1. PICK i \in DOMAIN events : SameId(events[i], Report(p))
  BY DEF Seen
<1>2. events[i].src = "runner"
  BY <1>1 DEF SameId, Report, RunnerEvent
<1>3. OfAttempt(events[i])
  BY <1>2 DEF KInv, LogKnown
<1> QED
  BY <1>1, <1>3, SameIdSameCommit DEF Announced

\* Whatever answer lets a runner begin its work, its start is recorded.
LEMMA WorkBegins ==
    ASSUME RInv, NEW p \in launched, RunnerStep(p), runners'[p].at = "working"
    PROVE  Announced(p)'
<1> DEFINE c == runners[p]
<1>1. /\ KInv /\ TypeOK /\ p \in Pods /\ c \in Runner
      /\ p \in DOMAIN runners
  BY DEF RInv, KInv, HInv, IInv, TypeOK, RunnersTypeOK
<1>2. ASSUME NEW r \in Runner, Becomes(p, r)
      PROVE  r.at = "working"
  BY <1>1, <1>2, ForgottenRunner DEF Becomes
<1>3. ~Becomes(p, Failed(c)) /\ ~Becomes(p, Retried(c)) /\ ~Becomes(p, Exited(c))
  BY <1>1, <1>2, FailedRunner, RetriedRunner, ExitedRunner
<1>4. ~Post(p)
  <2>1. ASSUME NEW b \in BOOLEAN,
               Becomes(p, [c EXCEPT !.at = "waiting", !.version = row.version, !.overlaps = b])
        PROVE  FALSE
    <3> DEFINE r == [c EXCEPT !.at = "waiting", !.version = row.version, !.overlaps = b]
    <3>1. r \in Runner /\ r.at = "waiting"
      BY <1>1 DEF Runner, TypeOK, Row
    <3> QED
      BY <1>2, <2>1, <3>1
  <2> QED
    BY <2>1 DEF Post
<1>5. ~Work(p)
  <2>1. ASSUME Work(p) PROVE FALSE
    <3>1. PICK s \in Reports(p.phase) :
              Becomes(p, [Reporting(c, s) EXCEPT
                             !.verdict = IF p.phase = "TEST" /\ s # "ERROR" THEN s ELSE @])
      BY <2>1 DEF Work
    <3> DEFINE w == Reporting(c, s)
               v == IF p.phase = "TEST" /\ s # "ERROR" THEN s ELSE w.verdict
               r == [w EXCEPT !.verdict = v]
    <3>2. w \in Runner /\ w.at = "posting"
      BY <1>1, StartFacts, ReportingRunner
    <3>3. Becomes(p, r)
      BY <3>1
    <3> HIDE DEF w, v
    <3>4. r.at = "posting" /\ Forget(r).at = r.at /\ r.at # "waiting"
      BY <3>2 DEF Runner, Forget
    <3> QED
      BY <1>1, <3>3, <3>4 DEF Becomes, RInv, RunnersTypeOK
  <2> QED
    BY <2>1
<1>6. Becomes(p, Succeeded(p, c))
  BY <1>3, <1>4, <1>5 DEF RunnerStep, PostAnswered, Accepted, Conflict, NoAnswer, Die
<1>7. c.report = Start(p.phase)
  BY <1>1, <1>2, <1>6, SucceededRunner
<1>8. CASE PostAnswered(p) \/ Conflict(p)
  <2>1. Seen(Report(p)) /\ UNCHANGED events
    BY <1>3, <1>8 DEF PostAnswered, Conflict, IsConflict, db, vars
  <2> QED
    BY <1>1, <1>7, <2>1, SeenIsAnnounced DEF Announced
<1>9. CASE Accepted(p)
  <2>1. PICK h \in Serves(p) : RunnerCommit(h)
    BY <1>9 DEF Accepted
  <2>2. /\ h \in handlers /\ h.op = "runner" /\ SameId(h.event, Report(p))
        /\ h.event \in Event /\ events \in Seq(Event) /\ events' = Append(events, h.event)
    BY <1>1, <2>1, HandlerShape
       DEF Serves, HandlersOf, Serving, TypeOK, RunnerCommit, Callback
  <2>3. OfAttempt(h.event)
    BY <1>1, <2>2 DEF KInv, CallbacksKnown, CallbackKnown
  <2>4. /\ h.event.src = "runner" /\ h.event.to = Start(p.phase)
        /\ h.event.attempt = p.attempt /\ h.event.sha = p.sha
    BY <1>1, <1>7, <2>2, <2>3, SameIdSameCommit
  <2>5. Len(events) + 1 \in DOMAIN events' /\ events'[Len(events) + 1] = h.event
    BY <2>2, Appended
  <2> QED
    BY <2>4, <2>5 DEF Announced
<1> QED
  BY <1>3, <1>4, <1>5, <1>8, <1>9 DEF RunnerStep, NoAnswer, Die

LEMMA WorkStaysAnnounced == ASSUME RInv, [RunnersNext]_system PROVE WorkIsAnnounced'
<1> SUFFICES ASSUME NEW q \in DOMAIN runners', runners'[q].at = "working"
             PROVE  Announced(q)'
  BY DEF WorkIsAnnounced, Announced
<1>1. /\ launched' \subseteq Pods /\ launched \subseteq Pods /\ DOMAIN runners = launched
      /\ IInv /\ HInv /\ Kinds
  BY SystemStepImplements, NextType, StepKinds DEF RInv, KInv, HInv, IInv, TypeOK, RunnersTypeOK
<1>2. q \in launched
  <2>1. q \in launched' /\ (q \notin launched => runners'[q] = Started(q))
    BY SystemRuns DEF RInv
  <2> QED
    BY <1>1, <2>1, StartedRunner
<1>3. CASE runners'[q] = runners[q]
  <2>1. Announced(q)
    BY <1>1, <1>2, <1>3 DEF RInv, WorkIsAnnounced, Announced
  <2> QED
    BY <1>1, <2>1, LogKept DEF Announced
<1>4. CASE runners'[q] # runners[q]
  <2>1. PICK p \in launched : RunnerStep(p)
    BY <1>1, <1>2, <1>4 DEF RunnersNext, PoolStep, TaskStep, Launch, LaunchFails,
       SetLatestK8sJob, DispatchErrorRead, LoseTask, cluster, system
  <2>2. q = p
    BY <1>1, <1>2, <1>4, <2>1, RunnerStepRuns DEF RInv, KInv, HInv, IInv
  <2> QED
    BY <2>1, <2>2, WorkBegins
<1> QED
  BY <1>3, <1>4

\* The verdict on the row is one that a callback carried there.
LEMMA VerdictStaysTrue == ASSUME RInv, [RunnersNext]_system PROVE VerdictIsTrue'
<1> DEFINE p == [phase |-> "TEST", attempt |-> row'.verify_attempt, sha |-> row'.code_sha]
<1> SUFFICES ASSUME row'.status \in Verdicts
             PROVE  p \in DOMAIN runners' /\ runners'[p].verdict = row'.status
  BY DEF VerdictIsTrue, Verdicts
<1>1. /\ DOMAIN runners = launched /\ DOMAIN runners' = launched' /\ [Next]_vars
      /\ HInv /\ IInv /\ CallbacksFit /\ Kinds /\ TypeOK /\ events \in Seq(Event)
  BY SystemRuns, SystemStepImplements, StepKinds
     DEF RInv, KInv, HInv, IInv, TypeOK, RunnersTypeOK
<1>2. p \in launched /\ runners[p].verdict = row'.status
  <2>1. CASE Quiet
    BY <1>1, <2>1 DEF Quiet, Stays, RInv, VerdictIsTrue, Verdicts
  <2>2. CASE \E e : Recorded(e)
    <3>1. PICK e : Recorded(e)
      BY <2>2
    <3>2. /\ e \in Event /\ events' = Append(events, e) /\ row'.status = e.to
          /\ e.src = "runner"
          /\ row'.verify_attempt = row.verify_attempt /\ row'.code_sha = row.code_sha
      BY <3>1 DEF Recorded, Verdicts
    <3>3. Len(events) + 1 \in DOMAIN events' \ DOMAIN events /\ events'[Len(events) + 1] = e
      BY <1>1, <3>2, Appended
    <3>4. PICK h \in handlers : RunnerCommit(h) /\ e = h.event
      BY <1>1, <3>2, <3>3, RunnerRecords
    <3>5. /\ h.op = "runner" /\ CallbackFresh(h) /\ h.version = row.version
      BY <1>1, <3>4 DEF RunnerCommit, CanRecord, IInv, ReadsFresh, Fresh
    <3>6. /\ e.phase = "TEST" /\ e.attempt = row.verify_attempt /\ e.sha = row.code_sha
      BY <3>2, <3>4, <3>5, ReportsFacts DEF CallbackFresh, Verdicts
    <3>7. PodOf(e) = p
      BY <3>2, <3>6 DEF PodOf
    <3> QED
      BY <3>2, <3>4, <3>5, <3>7 DEF RInv, CallbacksTrue
  <2>3. CASE (\E v : First(v)) \/ (\E s, v : Replaced(s, v))
    BY <2>3 DEF First, Replaced, Queued, Verdicts
  <2> QED
    BY <1>1, <2>1, <2>2, <2>3 DEF Kinds
<1> HIDE DEF p
<1> QED
  BY <1>1, <1>2, VerdictKept DEF Verdicts

LEMMA InitRInv == RunnersInit => RInv
<1> SUFFICES ASSUME RunnersInit PROVE RInv
  OBVIOUS
<1>1. KInv
  BY InitKInv DEF RunnersInit
<1>2. launched = {} /\ handlers = {} /\ row.status = "PREPARE_QUEUED"
  BY DEF RunnersInit, Init, NewRow
<1>3. runners = [p \in {} |-> Started(p)] /\ DOMAIN runners = {}
  BY DEF RunnersInit
<1>4. RunnersTypeOK
  BY <1>2, <1>3 DEF RunnersTypeOK
<1> QED
  BY <1>1, <1>2, <1>3, <1>4
     DEF RInv, ReportsFit, StartsAreFresh, ReportsTrue, CallbacksTrue, WorkIsAnnounced, VerdictIsTrue

LEMMA NextRInv == RInv /\ [RunnersNext]_system => RInv'
<1> SUFFICES ASSUME RInv, [RunnersNext]_system PROVE RInv'
  OBVIOUS
<1>1. KInv'
  BY SystemStepImplements, NextKInv DEF RInv
<1> QED
  BY <1>1, RunnersStayTyped, CallbacksStayTrue, WorkStaysAnnounced, VerdictStaysTrue DEF RInv

LEMMA RInductive == RunnersSpec => []RInv
BY InitRInv, NextRInv, PTL DEF RunnersSpec

-----------------------------------------------------------------------------
(* The theorems. *)

\* Every Kubernetes Job that was ever created has one runner, and a runner tries
\* a report no more than MaxTries times.
THEOREM RunnersTyped == RunnersSpec => []RunnersTypeOK
<1>1. RInv => RunnersTypeOK
  BY DEF RInv
<1> QED
  BY <1>1, RInductive, PTL

\* The runners' programs, with their retries, failures and late answers, do
\* nothing to the gateway but what TestJobs allows its environment: the composed
\* system implements TestJobs.
THEOREM RunnersImplementTestJobs == RunnersSpec => ImplementsTestJobs
<1>1. RunnersInit => Init
  BY DEF RunnersInit
<1>2. RInv /\ [RunnersNext]_system => [Next]_vars
  BY SystemStepImplements DEF RInv
<1> QED
  BY <1>1, <1>2, RInductive, PTL DEF RunnersSpec, ImplementsTestJobs, Spec

\* No runner works for a job that does not know of it, even when the answer that
\* let it begin was one to a retry.
THEOREM WorkIsAlwaysAnnounced == RunnersSpec => []WorkIsAnnounced
<1>1. RInv => WorkIsAnnounced
  BY DEF RInv
<1> QED
  BY <1>1, RInductive, PTL

\* The verdict of a job is what the tests of its attempt came to, for any number
\* of attempts, tries and callbacks in flight.
THEOREM VerdictsAreTrue == RunnersSpec => []VerdictIsTrue
<1>1. RInv => VerdictIsTrue
  BY DEF RInv
<1> QED
  BY <1>1, RInductive, PTL

\* What is proved of TestJobs therefore holds of a gateway with these runners:
\* a verdict passed every stage of its own attempt.
THEOREM RunnersEarnVerdicts == RunnersSpec => []VerdictIsEarned
BY RunnersImplementTestJobs, VerdictsAreEarned, PTL DEF ImplementsTestJobs
=============================================================================
