--------------------------- MODULE TestJobsProofs ---------------------------
(***************************************************************************)
(* Theorems about TestJobs, for every number of commits, requests, sweeps  *)
(* and every choice of Events.  Typing comes first, then the inductive     *)
(* invariant IInv that the properties of the row follow from.  The second  *)
(* half is about what the log, the outbox and the names of Kubernetes Jobs *)
(* say of an attempt; it rests on IInv, by which a handler that commits    *)
(* does so on the row it read, and adds HInv.                              *)
(***************************************************************************)
EXTENDS TestJobs, TLAPS

-----------------------------------------------------------------------------
(* The statements of JobTable: which columns they write, and with what. *)

\* record_event's UPDATE: the columns it writes, and that the row stays a row.
LEMMA WrittenRow ==
    ASSUME NEW r \in Row, NEW e \in Event
    PROVE  /\ Written(r, e) \in Row
           /\ Written(r, e).status = e.to
           /\ Written(r, e).version = r.version + 1
           /\ Written(r, e).verify_attempt = r.verify_attempt
           /\ Written(r, e).code_sha = (IF e.sha = NoSha THEN r.code_sha ELSE e.sha)
           /\ Written(r, e).tested_sha = (IF e.phase = "TEST" THEN e.sha ELSE r.tested_sha)
           /\ Written(r, e).failure_class =
                (IF FailureClass(e.to) = NoFailure THEN r.failure_class ELSE FailureClass(e.to))
           /\ Written(r, e).completed = (r.completed \/ e.to \in Terminal)
           /\ Written(r, e).k8s = r.k8s
<1> DEFINE code    == IF e.sha = NoSha THEN r.code_sha ELSE e.sha
           tested  == IF e.phase = "TEST" THEN e.sha ELSE r.tested_sha
           failure == IF FailureClass(e.to) = NoFailure
                        THEN r.failure_class ELSE FailureClass(e.to)
           ended   == r.completed \/ e.to \in Terminal
           next    == r.version + 1
<1>1. Written(r, e) =
        [r EXCEPT !.status = e.to, !.version = next, !.code_sha = code,
                  !.tested_sha = tested, !.failure_class = failure, !.completed = ended]
  BY DEF Written
<1>2. code \in ShaOrNull /\ tested \in ShaOrNull
  BY DEF Row, Event
<1>3. failure \in FailureClasses \union {NoFailure}
  BY DEF FailureClass, FailureClasses, Row
<1>4. ended \in BOOLEAN
  OBVIOUS
<1>5. next \in Nat /\ e.to \in JobStatuses
  BY DEF Row, Event
<1> HIDE DEF code, tested, failure, ended, next
<1>6. Written(r, e) \in Row
  BY <1>1, <1>2, <1>3, <1>4, <1>5, Zenon DEF Row
<1>7. /\ Written(r, e).status = e.to
      /\ Written(r, e).version = next
      /\ Written(r, e).verify_attempt = r.verify_attempt
      /\ Written(r, e).code_sha = code
      /\ Written(r, e).tested_sha = tested
      /\ Written(r, e).failure_class = failure
      /\ Written(r, e).completed = ended
      /\ Written(r, e).k8s = r.k8s
  BY <1>1, Zenon DEF Row
<1> QED
  BY <1>6, <1>7 DEF code, tested, failure, ended, next

\* clear_result empties the result columns and touches no other.
LEMMA ClearedResultRow ==
    ASSUME NEW r \in Row
    PROVE  /\ ClearedResult(r) \in Row
           /\ ClearedResult(r).status = r.status
           /\ ClearedResult(r).version = r.version
           /\ ClearedResult(r).verify_attempt = r.verify_attempt
           /\ ClearedResult(r).code_sha = r.code_sha
           /\ ClearedResult(r).k8s = r.k8s
           /\ ClearedResult(r).tested_sha = NoSha
           /\ ClearedResult(r).failure_class = NoFailure
           /\ ClearedResult(r).completed = FALSE
<1>1. NoSha \in ShaOrNull
  BY DEF ShaOrNull
<1> QED
  BY <1>1, Zenon DEF Row, ClearedResult

\* clear_k8s_job touches the name of the Kubernetes Job only.
LEMMA ClearedRow ==
    ASSUME NEW r \in Row, NEW p
    PROVE  /\ Cleared(r, p) \in Row
           /\ Cleared(r, p).status = r.status
           /\ Cleared(r, p).version = r.version
           /\ Cleared(r, p).verify_attempt = r.verify_attempt
           /\ Cleared(r, p).code_sha = r.code_sha
           /\ Cleared(r, p).tested_sha = r.tested_sha
           /\ Cleared(r, p).failure_class = r.failure_class
           /\ Cleared(r, p).completed = r.completed
<1>1. CASE r.k8s = p
  <2>1. Cleared(r, p) = [r EXCEPT !.k8s = NoPod]
    BY <1>1 DEF Cleared
  <2> QED
    BY <2>1, Zenon DEF Row
<1>2. CASE r.k8s # p
  BY <1>2 DEF Cleared
<1> QED
  BY <1>1, <1>2

\* set_latest_k8s_job touches the name of the Kubernetes Job only.
LEMMA NamedRow ==
    ASSUME NEW r \in Row, NEW p \in Pods
    PROVE  /\ [r EXCEPT !.k8s = p] \in Row
           /\ [r EXCEPT !.k8s = p].status = r.status
           /\ [r EXCEPT !.k8s = p].version = r.version
           /\ [r EXCEPT !.k8s = p].verify_attempt = r.verify_attempt
           /\ [r EXCEPT !.k8s = p].code_sha = r.code_sha
           /\ [r EXCEPT !.k8s = p].tested_sha = r.tested_sha
           /\ [r EXCEPT !.k8s = p].failure_class = r.failure_class
           /\ [r EXCEPT !.k8s = p].completed = r.completed
BY Zenon DEF Row

\* Starting a verification sets the attempt number and touches no other column.
LEMMA NumberedRow ==
    ASSUME NEW r \in Row, NEW n \in Nat
    PROVE  /\ [r EXCEPT !.verify_attempt = n] \in Row
           /\ [r EXCEPT !.verify_attempt = n].verify_attempt = n
           /\ [r EXCEPT !.verify_attempt = n].status = r.status
           /\ [r EXCEPT !.verify_attempt = n].version = r.version
           /\ [r EXCEPT !.verify_attempt = n].code_sha = r.code_sha
           /\ [r EXCEPT !.verify_attempt = n].tested_sha = r.tested_sha
           /\ [r EXCEPT !.verify_attempt = n].failure_class = r.failure_class
           /\ [r EXCEPT !.verify_attempt = n].completed = r.completed
BY Zenon DEF Row

-----------------------------------------------------------------------------
(* Typing of what the actions build. *)

LEMMA SnapType == ASSUME row \in Row PROVE Snap \in Snapshot
BY DEF Row, Snap, Snapshot

LEMMA TaskType ==
    ASSUME NEW phase \in {"PREPARE", "GENERATE", "TEST"}, NEW attempt \in Nat,
           NEW sha \in ShaOrNull
    PROVE  Task(phase, attempt, sha) \in Tasks
BY DEF Task, Tasks, Pods

LEMMA ContinueType ==
    ASSUME handlers \subseteq Handler, NEW h \in Stopper,
           NEW op \in Ops \ {"verify", "runner", "release", "release_deleted"},
           Continue(h, op)
    PROVE  handlers' \subseteq Handler
<1>1. [h EXCEPT !.op = op] \in Stopper
  BY DEF Stopper
<1> QED
  BY <1>1 DEF Continue, Handler

LEMMA EndType ==
    ASSUME handlers \subseteq Handler, NEW h, End(h)
    PROVE  handlers' \subseteq Handler
BY DEF End

LEMMA BeginType ==
    ASSUME handlers \subseteq Handler, NEW h \in Handler, Begin(h)
    PROVE  handlers' \subseteq Handler
BY DEF Begin

LEMMA HoldingType ==
    ASSUME row \in Row, NEW op \in Ops \ {"verify", "runner", "release", "release_deleted"},
           NEW pod \in Pods \union {NoPod}, NEW ref \in Nat
    PROVE  Holding(op, pod, ref) \in Stopper
BY SnapType DEF Holding, Stopper

LEMMA ShaFacts == NoSha \in ShaOrNull /\ Shas \subseteq ShaOrNull /\ Shas \subseteq Nat \ {NoSha}
BY MaxShaAssumption DEF ShaOrNull, NoSha, Shas

LEMMA TerminalType == Terminal \subseteq JobStatuses
BY DEF JobStatuses

LEMMA ReportsType ==
    ASSUME NEW phase \in {"PREPARE", "GENERATE", "TEST"}
    PROVE  Reports(phase) \subseteq JobStatuses
BY DEF Reports, JobStatuses, Active, Terminal

LEMMA RunnerEventType ==
    ASSUME row \in Row, NEW pod \in Pods, NEW status \in Reports(pod.phase)
    PROVE  RunnerEvent(pod, status) \in Event
<1>1. status \in JobStatuses
  BY ReportsType DEF Pods
<1> QED
  BY <1>1 DEF RunnerEvent, Event, Row, Pods, EventPhases

LEMMA VerifyEventType ==
    ASSUME attempts \in Seq(Shas), NEW sha \in Shas, NEW from \in JobStatuses
    PROVE  VerifyEvent(sha, from) \in Event
<1>1. Len(attempts) + 1 \in Nat /\ sha \in Nat /\ sha \in ShaOrNull
  BY ShaFacts
<1>2. "VERIFY_QUEUED" \in JobStatuses
  BY DEF JobStatuses, Active
<1> QED
  BY <1>1, <1>2 DEF VerifyEvent, Event, EventPhases

LEMMA SupersedeEventType ==
    ASSUME NEW h \in Verifier
    PROVE  SupersedeEvent(h) \in Event
<1>1. h.ref \in Nat
  BY ShaFacts DEF Verifier
<1>2. "SUPERSEDED" \in JobStatuses
  BY DEF JobStatuses, Terminal
<1> QED
  BY <1>1, <1>2 DEF SupersedeEvent, Event, EventPhases, Verifier, Snapshot

LEMMA StopEventType ==
    ASSUME NEW h \in Stopper, NEW kind \in {"cancel", "timeout"}, NEW status \in Terminal
    PROVE  StopEvent(h, kind, status) \in Event
<1>1. h.snap \in Snapshot
  BY DEF Stopper
<1>2. CurrentAttempt(h.snap) \in Nat
  BY <1>1 DEF CurrentAttempt, PrepareAttempt, Snapshot
<1> QED
  BY <1>1, <1>2, TerminalType DEF StopEvent, Event, EventPhases, Snapshot

LEMMA DispatchErrorType ==
    ASSUME NEW h \in Stopper
    PROVE  DispatchError(h) \in Event
<1>1. h.snap \in Snapshot
  BY DEF Stopper
<1>2. "ERROR" \in JobStatuses
  BY DEF JobStatuses, Terminal
<1> QED
  BY <1>1, <1>2, ShaFacts DEF DispatchError, Event, EventPhases, Snapshot, PrepareAttempt

\* What an outcome enqueues is a set of notices.
LEMMA OutcomeType ==
    ASSUME NEW attempt \in Nat, NEW status
    PROVE  Outcome(attempt, status) \subseteq Notice
BY ShaFacts DEF Outcome, Notice

LEMMA QueueVerifyType ==
    ASSUME TypeOK, NEW r \in Row, NEW sha \in Shas, NEW from \in JobStatuses,
           QueueVerify(sha, r, from)
    PROVE  row' \in Row /\ attempts' \in Seq(Shas) /\ dispatch' \subseteq Tasks
<1> DEFINE e == VerifyEvent(sha, from)
<1>1. e \in Event /\ e.attempt \in Nat
  BY VerifyEventType DEF TypeOK, Event
<1>2. Written(r, e) \in Row
  BY <1>1, WrittenRow
<1>3. row' \in Row
  BY <1>1, <1>2, NumberedRow DEF QueueVerify
<1>4. Task("GENERATE", e.attempt, sha) \in Tasks
  BY <1>1, ShaFacts, TaskType
<1> QED
  BY <1>3, <1>4 DEF QueueVerify, TypeOK

-----------------------------------------------------------------------------
(* Type correctness. *)

LEMMA InitType == Init => TypeOK
<1> SUFFICES ASSUME Init PROVE TypeOK
  OBVIOUS
<1>1. row \in Row
  BY ShaFacts DEF Init, NewRow, Row, JobStatuses, Active
<1>2. dispatch \subseteq Tasks
  BY TaskType, ShaFacts DEF Init, PrepareAttempt
<1> QED
  BY <1>1, <1>2 DEF Init, TypeOK

LEMMA RequestType ==
    ASSUME TypeOK,
           \/ \E sha \in Shas : VerifyRead(sha)
           \/ RunnerSends
           \/ CancelRead
           \/ ExpireScan
           \/ ReleaseScan
    PROVE  TypeOK'
<1>1. handlers' \subseteq Handler
  <2>1. CASE \E sha \in Shas : VerifyRead(sha)
    <3>1. PICK sha \in Shas : VerifyRead(sha)
      BY <2>1
    <3>2. Holding("verify", NoPod, sha) \in Handler
      BY SnapType DEF Holding, Handler, Verifier, TypeOK
    <3> QED
      BY <3>1, <3>2, BeginType DEF VerifyRead, TypeOK
  <2>2. CASE RunnerSends
    <3>1. PICK pod \in launched : \E s \in Reports(pod.phase) : RunnerRead(pod, s)
      BY <2>2 DEF RunnerSends
    <3>3. PICK s \in Reports(pod.phase) : RunnerRead(pod, s)
      BY <3>1
    <3> DEFINE h == [op |-> "runner", version |-> row.version, event |-> RunnerEvent(pod, s)]
    <3>2. h \in Handler
      BY RunnerEventType DEF Handler, Callback, TypeOK, Row
    <3> QED
      BY <3>3, <3>2, BeginType DEF RunnerRead, TypeOK
  <2>3. CASE CancelRead
    BY <2>3, BeginType, HoldingType DEF CancelRead, TypeOK, Handler, Row, Ops, RequestOps
  <2>4. CASE ExpireScan
    BY <2>4, BeginType, HoldingType DEF ExpireScan, TypeOK, Handler, Row, Ops, SweepOps
  <2>5. CASE ReleaseScan
    <3>1. Holding("release", row.k8s, 0) \in Handler
      BY <2>5, SnapType DEF ReleaseScan, Holding, Handler, Releaser, TypeOK, Row
    <3> QED
      BY <2>5, <3>1, BeginType DEF ReleaseScan, TypeOK
  <2> QED
    BY <2>1, <2>2, <2>3, <2>4, <2>5
<1>2. UNCHANGED <<row, attempts, events, outbox, dispatch, launched, deleted>>
  BY DEF VerifyRead, RunnerSends, RunnerRead, CancelRead, ExpireScan, ReleaseScan, db, cluster
<1> QED
  BY <1>1, <1>2 DEF TypeOK

\* Which of the four shapes a handler has is told by its op.
LEMMA HandlerShape ==
    ASSUME NEW h \in Handler
    PROVE  /\ h.op = "verify" => h \in Verifier
           /\ h.op = "runner" => h \in Callback
           /\ h.op \in {"release", "release_deleted"} => h \in Releaser
           /\ h.op \notin {"verify", "runner", "release", "release_deleted"} => h \in Stopper
BY DEF Handler, Verifier, Callback, Releaser, Stopper

LEMMA StopType ==
    ASSUME TypeOK, NEW h \in Stopper, NEW kind \in {"cancel", "timeout"},
           NEW status \in Terminal, NEW r \in Row, Stop(h, kind, status, r)
    PROVE  TypeOK'
<1> DEFINE e == StopEvent(h, kind, status)
<1>1. e \in Event /\ e.attempt \in Nat
  BY StopEventType DEF Event
<1>2. row' \in Row
  BY <1>1, WrittenRow DEF Stop
<1>3. events' \in Seq(Event)
  BY <1>1 DEF Stop, TypeOK
<1>4. outbox' \subseteq Notice
  BY <1>1, OutcomeType DEF Stop, TypeOK
<1>5. handlers' \subseteq Handler
  BY EndType DEF Stop, TypeOK
<1> QED
  BY <1>2, <1>3, <1>4, <1>5 DEF Stop, TypeOK, cluster

LEMMA HandlerType ==
    ASSUME TypeOK, NEW h \in handlers, HandlerStep(h)
    PROVE  TypeOK'
<1> USE HandlerShape DEF TypeOK
<1>1. CASE VerifyFirst(h)
  <2>1. h \in Verifier
    BY <1>1 DEF VerifyFirst
  <2>2. h.ref \in Shas /\ h.snap.status \in JobStatuses
    BY <2>1 DEF Verifier, Snapshot
  <2>3. VerifyEvent(h.ref, h.snap.status) \in Event
    BY <2>2, VerifyEventType
  <2>4. row' \in Row /\ attempts' \in Seq(Shas) /\ dispatch' \subseteq Tasks
    BY <1>1, <2>2, QueueVerifyType DEF VerifyFirst
  <2> QED
    BY <1>1, <2>3, <2>4, EndType DEF VerifyFirst, cluster
<1>2. CASE VerifySame(h)
  <2>1. h.ref \in Shas
    BY <1>2 DEF VerifySame, Verifier
  <2> QED
    BY <1>2, <2>1, EndType DEF VerifySame, cluster
<1>3. CASE VerifySupersede(h)
  <2> DEFINE s == SupersedeEvent(h)
             v == VerifyEvent(h.ref, "SUPERSEDED")
  <2>1. h \in Verifier /\ h.ref \in Shas
    BY <1>3 DEF VerifySupersede, Verifier
  <2>2. "SUPERSEDED" \in JobStatuses /\ "SUPERSEDED" \in Terminal
    BY DEF JobStatuses, Terminal
  <2>3. s \in Event /\ v \in Event
    BY <2>1, <2>2, SupersedeEventType, VerifyEventType
  <2>4. ClearedResult(Written(row, s)) \in Row
    BY <2>3, WrittenRow, ClearedResultRow
  <2>5. row' \in Row /\ attempts' \in Seq(Shas) /\ dispatch' \subseteq Tasks
    BY <1>3, <2>1, <2>2, <2>4, QueueVerifyType DEF VerifySupersede
  <2>6. outbox' \subseteq Notice
    BY <1>3, <2>2, <2>3 DEF VerifySupersede, Notice, Event
  <2>7. events' \in Seq(Event)
    BY <1>3, <2>3 DEF VerifySupersede
  <2> QED
    BY <1>3, <2>5, <2>6, <2>7, EndType DEF VerifySupersede, cluster
<1>4. CASE RunnerCommit(h)
  <2> DEFINE e == h.event
  <2>1. e \in Event /\ e.attempt \in Nat
    BY <1>4 DEF RunnerCommit, Callback, Event
  <2>2. row' \in Row /\ Written(row, e) \in Row
    BY <1>4, <2>1, WrittenRow DEF RunnerCommit
  <2>3. TestLaunch(e) \subseteq Tasks
    BY <2>1, <2>2, TaskType DEF TestLaunch, Row
  <2>4. outbox' \subseteq Notice
    BY <1>4, <2>1, OutcomeType DEF RunnerCommit
  <2>5. events' \in Seq(Event) /\ dispatch' \subseteq Tasks
    BY <1>4, <2>1, <2>3 DEF RunnerCommit
  <2>6. handlers' \subseteq Handler
    BY <1>4, EndType DEF RunnerCommit
  <2>7. UNCHANGED <<attempts, launched, deleted>>
    BY <1>4 DEF RunnerCommit, cluster
  <2> QED
    BY <2>2, <2>4, <2>5, <2>6, <2>7
<1>5. CASE CancelDelete(h)
  <2>1. h.pod \in Pods \union {NoPod}
    BY <1>5 DEF CancelDelete, Stopper
  <2> QED
    BY <1>5, <2>1, ContinueType DEF CancelDelete, db, Ops, RequestOps
<1>6. CASE CancelCommit(h)
  BY <1>6, StopType DEF CancelCommit, Terminal
<1>7. CASE ExpireRead(h)
  <2>1. Holding("expire", row.k8s, 0) \in Handler
    BY HoldingType DEF Row, Ops, SweepOps, Handler
  <2> QED
    BY <1>7, <2>1 DEF ExpireRead, db, cluster
<1>8. CASE ExpireDelete(h)
  <2>1. h.pod \in Pods \union {NoPod}
    BY <1>8 DEF ExpireDelete, Stopper
  <2>2. handlers' \subseteq Handler
    BY <1>8, ContinueType DEF ExpireDelete, Ops, SweepOps
  <2> QED
    BY <1>8, <2>1, <2>2 DEF ExpireDelete, db
<1>9. CASE ExpireCommit(h)
  <2>1. Cleared(row, h.pod) \in Row
    BY ClearedRow
  <2> QED
    BY <1>9, <2>1, StopType DEF ExpireCommit, Terminal
<1>10. CASE ReleaseDelete(h)
  <2>1. h \in Releaser /\ h.pod \in Pods
    BY <1>10 DEF ReleaseDelete, Releaser
  <2>2. [h EXCEPT !.op = "release_deleted"] \in Releaser
    BY <2>1 DEF Releaser
  <2> QED
    BY <1>10, <2>1, <2>2 DEF ReleaseDelete, Continue, Handler, db
<1>11. CASE ReleaseClear(h)
  BY <1>11, ClearedRow, EndType DEF ReleaseClear, cluster
<1>12. CASE DispatchErrorCommit(h)
  <2>1. DispatchError(h) \in Event
    BY <1>12, DispatchErrorType DEF DispatchErrorCommit
  <2>2. row' \in Row
    BY <1>12, <2>1, WrittenRow DEF DispatchErrorCommit
  <2> QED
    BY <1>12, <2>1, <2>2, EndType DEF DispatchErrorCommit, cluster
<1>13. CASE Abandon(h)
  BY <1>13, EndType DEF Abandon, db, cluster
<1> QED
  BY <1>1, <1>2, <1>3, <1>4, <1>5, <1>6, <1>7, <1>8, <1>9, <1>10, <1>11, <1>12, <1>13
     DEF HandlerStep

LEMMA TaskStepType ==
    ASSUME TypeOK, NEW t \in dispatch, TaskStep(t)
    PROVE  TypeOK'
<1> USE DEF TypeOK
<1>1. t \in Tasks /\ t.pod \in Pods
  BY DEF Tasks
<1>2. \A stage \in {"queued", "created", "failed"} : [t EXCEPT !.stage = stage] \in Tasks
  BY <1>1 DEF Tasks
<1>3. CASE Launch(t)
  BY <1>1, <1>2, <1>3 DEF Launch, db
<1>4. CASE LaunchFails(t)
  BY <1>1, <1>2, <1>4 DEF LaunchFails, db
<1>5. CASE SetLatestK8sJob(t)
  BY <1>1, <1>5, NamedRow DEF SetLatestK8sJob, cluster
<1>6. CASE DispatchErrorRead(t)
  <2>1. Holding("dispatch_error", NoPod, 0) \in Handler
    BY HoldingType DEF Ops, RequestOps, Handler
  <2> QED
    BY <1>6, <2>1, BeginType DEF DispatchErrorRead, db, cluster
<1>7. CASE LoseTask(t)
  BY <1>7 DEF LoseTask, db, cluster
<1> QED
  BY <1>3, <1>4, <1>5, <1>6, <1>7 DEF TaskStep

LEMMA NextType == TypeOK /\ [Next]_vars => TypeOK'
<1> SUFFICES ASSUME TypeOK, [Next]_vars PROVE TypeOK'
  OBVIOUS
<1>1. CASE Next
  BY <1>1, RequestType, HandlerType, TaskStepType DEF GatewayStep, Next
<1>2. CASE UNCHANGED vars
  BY <1>2 DEF TypeOK, vars
<1> QED
  BY <1>1, <1>2

\* Every reachable state is well typed, for any number of commits, requests and
\* sweeps: in particular no handler ever holds a row, an event or a Kubernetes
\* Job of a shape the database could not.
THEOREM TypeCorrect == Spec => []TypeOK
BY InitType, NextType, PTL DEF Spec

-----------------------------------------------------------------------------
(* The inductive invariant.  A handler that commits relies on a row it read
   earlier: what makes the compare-and-set safe is that a row of the same
   version is the same row. *)

\* A Job for the prepare phase has no commit; one of a verify attempt is
\* numbered from 1.
PodFits(phase, attempt, sha) ==
    IF phase = "PREPARE" THEN sha = NoSha ELSE attempt # 0

PodsFit ==
    /\ \A p \in launched : PodFits(p.phase, p.attempt, p.sha)
    /\ \A t \in dispatch : PodFits(t.pod.phase, t.pod.attempt, t.pod.sha)

\* A callback in flight was decided on the row as it is, or on an older one.
CallbackFresh(h) ==
    /\ h.event.phase \in {"PREPARE", "GENERATE", "TEST"}
    /\ h.event.to \in Reports(h.event.phase)
    /\ PodFits(h.event.phase, h.event.attempt, h.event.sha)
    /\ h.version <= row.version
    /\ h.version = row.version =>
          /\ h.event.from = row.status
          /\ h.event.sha = row.code_sha
          /\ h.event.phase # "PREPARE" => h.event.attempt = row.verify_attempt

\* So was any other handler; a commit it saw on the row has its attempt, and a
\* request to verify another commit saw one.
SnapFresh(h) ==
    /\ h.snap.version <= row.version
    /\ h.snap.version = row.version =>
          /\ h.snap.status = row.status
          /\ h.snap.code_sha = row.code_sha
          /\ h.snap.verify_attempt = row.verify_attempt
    /\ h.snap.code_sha # NoSha => Claimed(h.snap.code_sha)
    /\ h.op = "verify" /\ h.snap.status # "WAITING_FOR_CODE" => h.snap.code_sha # NoSha

Fresh(h) == IF h.op = "runner" THEN CallbackFresh(h) ELSE SnapFresh(h)

ReadsFresh == \A h \in handlers : Fresh(h)

\* Until the first verification the job is on no commit.
PreparingHasNoCode ==
    row.status \in {"PREPARE_QUEUED", "PREPARING", "WAITING_FOR_CODE"} => row.code_sha = NoSha

RowInv ==
    /\ LogExplainsRow
    /\ AttemptsMatchRow
    /\ ResultBelongsToStatus
    /\ PreparingHasNoCode

IInv == TypeOK /\ RowInv /\ PodsFit /\ ReadsFresh

\* What a step may do to what a handler read of the row: leave it alone, ...
Stays ==
    /\ row'.version = row.version
    /\ row'.status = row.status
    /\ row'.code_sha = row.code_sha
    /\ row'.verify_attempt = row.verify_attempt
    /\ attempts' = attempts

\* ... change the status of the attempt it is on, ...
Advances ==
    /\ row'.version > row.version
    /\ row'.status \in JobStatuses \ {"SUPERSEDED", "VERIFY_QUEUED"}
    /\ IsTransitionAllowed(row.status, row'.status)
    /\ row'.code_sha = row.code_sha
    /\ row'.verify_attempt = row.verify_attempt
    /\ attempts' = attempts

\* ... or start the next attempt, for a commit that had none.
TakesUp ==
    /\ row'.version > row.version
    /\ row.status = "WAITING_FOR_CODE" \/ row.verify_attempt > 0
    /\ row'.status = "VERIFY_QUEUED"
    /\ row'.verify_attempt = row.verify_attempt + 1
    /\ row'.code_sha \in Shas /\ ~Claimed(row'.code_sha)
    /\ attempts' = Append(attempts, row'.code_sha)

Moves == Stays \/ Advances \/ TakesUp

LEMMA ReportsFacts ==
    ASSUME NEW phase \in {"PREPARE", "GENERATE", "TEST"}, NEW to \in Reports(phase)
    PROVE  /\ to \notin {"SUPERSEDED", "VERIFY_QUEUED", "CANCELLED"}
           /\ to \in {"PASSED", "FAILED"} => phase = "TEST"
           /\ to = "TEST_QUEUED" => phase = "GENERATE"
           /\ to \in {"PREPARING", "WAITING_FOR_CODE"} => phase = "PREPARE"
BY DEF Reports

\* Only another commit's verification takes a job out of a terminal status.
LEMMA TransitionFacts ==
    ASSUME NEW from, NEW to, IsTransitionAllowed(from, to)
    PROVE  /\ to \notin {"SUPERSEDED", "VERIFY_QUEUED"} => from \notin Terminal
           /\ to # "PREPARE_QUEUED"
BY DEF IsTransitionAllowed, PrimaryTransitions, Terminal

\* A statement that writes no column but the name keeps the row explained.
LEMMA RowKept ==
    ASSUME TypeOK, RowInv, UNCHANGED <<attempts, events>>,
           row'.status = row.status, row'.version = row.version,
           row'.verify_attempt = row.verify_attempt, row'.code_sha = row.code_sha,
           row'.tested_sha = row.tested_sha, row'.failure_class = row.failure_class,
           row'.completed = row.completed
    PROVE  RowInv'
BY DEF RowInv, LogExplainsRow, Explains, AttemptsMatchRow, ResultBelongsToStatus,
       PreparingHasNoCode

\* Appending an event that starts where the log ends keeps the log a chain.
LEMMA LogGrows ==
    ASSUME NEW log \in Seq(Event), NEW r, NEW e \in Event, NEW s,
           Explains(log, r), e.from = r.status,
           s.version = r.version + 1, s.status = e.to
    PROVE  Explains(Append(log, e), s)
<1> DEFINE longer == Append(log, e)
<1>1. /\ Len(longer) = Len(log) + 1
      /\ longer[Len(longer)] = e
      /\ \A i \in DOMAIN log : longer[i] = log[i]
  OBVIOUS
<1>2. s.version = Len(longer) /\ s.status = StatusAfter(longer, Len(longer))
  BY <1>1 DEF Explains, StatusAfter
<1>3. ASSUME NEW i \in DOMAIN longer
      PROVE  longer[i].from = StatusAfter(longer, i - 1)
  <2>1. i - 1 = 0 \/ i - 1 \in DOMAIN log
    BY <1>1
  <2>2. StatusAfter(longer, i - 1) = StatusAfter(log, i - 1)
    BY <1>1, <2>1 DEF StatusAfter
  <2>3. CASE i \in DOMAIN log
    BY <1>1, <2>2, <2>3 DEF Explains
  <2>4. CASE i = Len(longer)
    BY <1>1, <2>2, <2>4 DEF Explains
  <2> QED
    BY <1>1, <2>3, <2>4
<1> QED
  BY <1>2, <1>3 DEF Explains

\* A change of status within an attempt: r is the row, or the row without the
\* name of its Kubernetes Job.
LEMMA RowRecorded ==
    ASSUME TypeOK, RowInv, NEW e \in Event, NEW r \in Row,
           r.status = row.status, r.version = row.version,
           r.verify_attempt = row.verify_attempt, r.code_sha = row.code_sha,
           r.tested_sha = row.tested_sha, r.failure_class = row.failure_class,
           r.completed = row.completed,
           e.from = row.status, e.to \notin {"SUPERSEDED", "VERIFY_QUEUED"},
           IsTransitionAllowed(e.from, e.to),
           e.sha \in {NoSha, row.code_sha},
           e.phase = "TEST" => e.sha = row.code_sha,
           e.to \in {"PASSED", "FAILED"} => e.phase = "TEST" /\ row.code_sha # NoSha,
           e.to \in {"PREPARING", "WAITING_FOR_CODE"} => row.code_sha = NoSha,
           row' = Written(r, e), events' = Append(events, e), attempts' = attempts
    PROVE  RowInv' /\ Moves
<1>1. /\ row'.status = e.to
      /\ row'.version = row.version + 1
      /\ row'.verify_attempt = row.verify_attempt
      /\ row'.code_sha = row.code_sha
      /\ row'.tested_sha = (IF e.phase = "TEST" THEN e.sha ELSE row.tested_sha)
      /\ row'.failure_class =
           (IF FailureClass(e.to) = NoFailure THEN row.failure_class ELSE FailureClass(e.to))
      /\ row'.completed = (row.completed \/ e.to \in Terminal)
  BY WrittenRow
<1>2. row.status \notin Terminal /\ e.to # "PREPARE_QUEUED"
  BY TransitionFacts
<1>3. ~row.completed /\ row.failure_class = NoFailure
  BY <1>2 DEF RowInv, ResultBelongsToStatus, FailureClass, Terminal
<1>4. LogExplainsRow'
  BY <1>1, LogGrows DEF RowInv, LogExplainsRow, TypeOK
<1>5. AttemptsMatchRow'
  BY <1>1 DEF RowInv, AttemptsMatchRow
<1>6. row'.completed <=> row'.status \in Terminal
  BY <1>1, <1>3
<1>7. row'.failure_class = FailureClass(row'.status)
  BY <1>1, <1>3
<1>8. /\ row'.tested_sha \in {NoSha, row'.code_sha}
      /\ row'.status \in {"PASSED", "FAILED"} =>
            row'.tested_sha = row'.code_sha /\ row'.code_sha # NoSha
  BY <1>1 DEF RowInv, ResultBelongsToStatus
<1>9. PreparingHasNoCode'
  BY <1>1, <1>2 DEF PreparingHasNoCode
<1>10. Moves
  BY <1>1 DEF Moves, Advances, Event, TypeOK, Row
<1> QED
  BY <1>4, <1>5, <1>6, <1>7, <1>8, <1>9, <1>10 DEF RowInv, ResultBelongsToStatus

\* A queued verification is the job's next attempt, for a commit that had none.
LEMMA VerifyQueued ==
    ASSUME TypeOK, AttemptsMatchRow, NEW r \in Row, NEW sha \in Shas,
           NEW from \in JobStatuses, QueueVerify(sha, r, from)
    PROVE  /\ AttemptsMatchRow'
           /\ attempts' = Append(attempts, sha) /\ ~Claimed(sha)
           /\ row'.verify_attempt = row.verify_attempt + 1
           /\ row'.status = "VERIFY_QUEUED"
           /\ row'.version = r.version + 1
           /\ row'.code_sha = sha
           /\ row'.tested_sha = r.tested_sha
           /\ row'.failure_class = r.failure_class
           /\ row'.completed = r.completed
<1> DEFINE e == VerifyEvent(sha, from)
<1>1. e \in Event /\ e.attempt = Len(attempts) + 1 /\ e.attempt \in Nat
  BY VerifyEventType DEF TypeOK, VerifyEvent
<1>2. /\ e.to = "VERIFY_QUEUED" /\ e.phase = "VERIFY" /\ e.sha = sha
      /\ sha # NoSha
  BY ShaFacts DEF VerifyEvent
<1>3. FailureClass(e.to) = NoFailure /\ e.to \notin Terminal
  BY <1>2 DEF FailureClass, Terminal
<1>4. row' = [Written(r, e) EXCEPT !.verify_attempt = e.attempt] /\ Written(r, e) \in Row
  BY <1>1, WrittenRow DEF QueueVerify
<1>5. /\ row'.status = Written(r, e).status
      /\ row'.version = Written(r, e).version
      /\ row'.verify_attempt = e.attempt
      /\ row'.code_sha = Written(r, e).code_sha
      /\ row'.tested_sha = Written(r, e).tested_sha
      /\ row'.failure_class = Written(r, e).failure_class
      /\ row'.completed = Written(r, e).completed
  BY <1>1, <1>4, NumberedRow
<1>6. /\ row'.status = "VERIFY_QUEUED"
      /\ row'.version = r.version + 1
      /\ row'.code_sha = sha
      /\ row'.tested_sha = r.tested_sha
      /\ row'.failure_class = r.failure_class
  BY <1>1, <1>2, <1>3, <1>5, WrittenRow
<1>7. row'.completed = r.completed
  <2>1. r.completed \in BOOLEAN
    BY DEF Row
  <2> QED
    BY <1>1, <1>3, <1>5, <2>1, WrittenRow
<1>8. AttemptsMatchRow'
  <2>1. attempts \in Seq(Shas) /\ attempts' = Append(attempts, sha) /\ ~Claimed(sha)
    BY DEF TypeOK, QueueVerify
  <2>2. /\ Len(attempts') = Len(attempts) + 1
        /\ attempts'[Len(attempts')] = sha
        /\ \A n \in DOMAIN attempts : attempts'[n] = attempts[n]
    BY <2>1
  <2>3. row'.verify_attempt = Len(attempts') /\ attempts' # <<>>
    BY <1>1, <1>5, <2>1, <2>2
  <2>4. \A m, n \in DOMAIN attempts' : attempts'[m] = attempts'[n] => m = n
    BY <2>1, <2>2 DEF Claimed, AttemptsMatchRow
  <2> QED
    BY <1>6, <2>2, <2>3, <2>4 DEF AttemptsMatchRow
<1>9. /\ attempts' = Append(attempts, sha) /\ ~Claimed(sha)
      /\ row'.verify_attempt = row.verify_attempt + 1
  BY <1>1, <1>5 DEF QueueVerify, AttemptsMatchRow
<1> QED
  BY <1>6, <1>7, <1>8, <1>9

\* A row of a job that waits for its first commit carries no result.
LEMMA VerifyFirstRow ==
    ASSUME TypeOK, RowInv, ReadsFresh, NEW h \in handlers, VerifyFirst(h)
    PROVE  RowInv' /\ TakesUp
<1> DEFINE e == VerifyEvent(h.ref, h.snap.status)
<1>1. h \in Verifier /\ h.ref \in Shas /\ h.snap.status \in JobStatuses
  BY HandlerShape DEF VerifyFirst, TypeOK, Verifier, Snapshot
<1>2. row.version = h.snap.version /\ e.from = row.status /\ row.status = "WAITING_FOR_CODE"
  BY <1>1 DEF VerifyFirst, CanRecord, ReadsFresh, Fresh, SnapFresh, VerifyEvent
<1>3. ~row.completed /\ row.failure_class = NoFailure /\ row.tested_sha = NoSha
  BY <1>2 DEF RowInv, ResultBelongsToStatus, PreparingHasNoCode, Terminal, FailureClass
<1>4. QueueVerify(h.ref, row, h.snap.status) /\ events' = Append(events, e)
  BY DEF VerifyFirst
<1>5. /\ AttemptsMatchRow'
      /\ attempts' = Append(attempts, h.ref) /\ ~Claimed(h.ref)
      /\ row'.verify_attempt = row.verify_attempt + 1
      /\ row'.code_sha = h.ref
      /\ row'.status = "VERIFY_QUEUED"
      /\ row'.version = row.version + 1
      /\ row'.tested_sha = NoSha
      /\ row'.failure_class = NoFailure
      /\ row'.completed = row.completed
  BY <1>1, <1>3, <1>4, VerifyQueued DEF RowInv, TypeOK
<1>6. e \in Event /\ e.to = "VERIFY_QUEUED"
  BY <1>1, VerifyEventType DEF TypeOK, VerifyEvent
<1>7. LogExplainsRow'
  BY <1>2, <1>4, <1>5, <1>6, LogGrows DEF RowInv, LogExplainsRow, TypeOK
<1>8. ResultBelongsToStatus' /\ PreparingHasNoCode'
  BY <1>3, <1>5 DEF ResultBelongsToStatus, PreparingHasNoCode, FailureClass, Terminal
<1>9. TakesUp
  BY <1>1, <1>2, <1>5 DEF TakesUp, TypeOK, Row
<1> QED
  BY <1>7, <1>5, <1>8, <1>9 DEF RowInv

\* Both events of a supersede are in the log, and nothing of the old result is
\* in the row.
LEMMA VerifySupersedeRow ==
    ASSUME TypeOK, RowInv, ReadsFresh, NEW h \in handlers, VerifySupersede(h)
    PROVE  RowInv' /\ TakesUp
<1> DEFINE s == SupersedeEvent(h)
           v == VerifyEvent(h.ref, "SUPERSEDED")
           w == Written(row, s)
           r == ClearedResult(w)
<1>1. h \in Verifier /\ h.ref \in Shas /\ "SUPERSEDED" \in JobStatuses
  BY HandlerShape DEF VerifySupersede, TypeOK, Verifier, JobStatuses, Terminal
<1>2. row.version = h.snap.version /\ s.from = row.status
  BY <1>1 DEF VerifySupersede, CanRecord, ReadsFresh, Fresh, SnapFresh, SupersedeEvent
<1>3. /\ s \in Event /\ s.to = "SUPERSEDED"
      /\ v \in Event /\ v.from = "SUPERSEDED" /\ v.to = "VERIFY_QUEUED"
  BY <1>1, SupersedeEventType, VerifyEventType DEF TypeOK, SupersedeEvent, VerifyEvent
<1>4. row \in Row /\ w \in Row /\ w.status = "SUPERSEDED" /\ w.version = row.version + 1
  BY <1>3, WrittenRow DEF TypeOK
<1>5. /\ r \in Row
      /\ r.status = "SUPERSEDED"
      /\ r.version = row.version + 1
      /\ r.tested_sha = NoSha
      /\ r.failure_class = NoFailure
      /\ r.completed = FALSE
  <2> HIDE DEF w
  <2> QED
    BY <1>4, ClearedResultRow
<1>6. QueueVerify(h.ref, r, "SUPERSEDED") /\ events' = events \o <<s, v>>
  BY DEF VerifySupersede
<1> HIDE DEF s, v, w, r
<1>7. /\ AttemptsMatchRow'
      /\ attempts' = Append(attempts, h.ref) /\ ~Claimed(h.ref)
      /\ row'.verify_attempt = row.verify_attempt + 1
      /\ row'.code_sha = h.ref
      /\ row'.status = "VERIFY_QUEUED"
      /\ row'.version = r.version + 1
      /\ row'.tested_sha = NoSha
      /\ row'.failure_class = NoFailure
      /\ row'.completed = FALSE
  BY <1>1, <1>5, <1>6, VerifyQueued DEF RowInv
<1>8. LogExplainsRow'
  <2>1. events \in Seq(Event) /\ events' = Append(Append(events, s), v)
    BY <1>3, <1>6 DEF TypeOK
  <2>2. Explains(Append(events, s), r) /\ Append(events, s) \in Seq(Event)
    BY <1>2, <1>3, <1>5, <2>1, LogGrows DEF RowInv, LogExplainsRow
  <2> QED
    BY <1>3, <1>5, <1>7, <2>1, <2>2, LogGrows DEF LogExplainsRow
<1>9. ResultBelongsToStatus' /\ PreparingHasNoCode'
  BY <1>7 DEF ResultBelongsToStatus, PreparingHasNoCode, FailureClass, Terminal
<1>10. row.verify_attempt > 0
  <2>1. row.code_sha # NoSha
    BY <1>1, <1>2 DEF VerifySupersede, ReadsFresh, Fresh, SnapFresh
  <2>2. attempts \in Seq(Shas) /\ attempts # <<>>
    BY <2>1 DEF TypeOK, RowInv, AttemptsMatchRow
  <2> QED
    BY <2>2 DEF RowInv, AttemptsMatchRow
<1>11. TakesUp
  BY <1>1, <1>4, <1>5, <1>7, <1>10 DEF TakesUp, Row
<1> QED
  BY <1>7, <1>8, <1>9, <1>11 DEF RowInv

-----------------------------------------------------------------------------
(* Every step preserves IInv. *)

LEMMA ReadsKept ==
    ASSUME TypeOK, TypeOK', Moves, \A k \in handlers' : Fresh(k)
    PROVE  ReadsFresh'
<1> SUFFICES ASSUME NEW k \in handlers' PROVE Fresh(k)'
  BY DEF ReadsFresh
<1>1. k \in Handler /\ Fresh(k) /\ row \in Row /\ row' \in Row
  BY DEF TypeOK
<1>moved. /\ Stays \/ row'.version > row.version
      /\ \A n \in DOMAIN attempts : n \in DOMAIN attempts' /\ attempts'[n] = attempts[n]
  BY DEF Moves, Stays, Advances, TakesUp, TypeOK
<1>2. CASE k.op = "runner"
  <2>1. k.version \in Nat
    BY <1>1, <1>2, HandlerShape DEF Callback
  <2> QED
    BY <1>moved, <1>1, <1>2, <2>1 DEF Fresh, CallbackFresh, Stays, Row
<1>3. CASE k.op # "runner"
  <2>1. k.snap.version \in Nat
    BY <1>1, <1>3, HandlerShape DEF Verifier, Releaser, Stopper, Snapshot
  <2>2. Claimed(k.snap.code_sha) => Claimed(k.snap.code_sha)'
    BY <1>moved DEF Claimed
  <2> QED
    BY <1>moved, <1>1, <1>3, <2>1, <2>2 DEF Fresh, SnapFresh, Stays, Row
<1> QED
  BY <1>2, <1>3

LEMMA RowUnmoved == ASSUME UNCHANGED <<row, attempts>> PROVE Moves
BY DEF Moves, Stays

\* A handler that has just read the row is up to date with it.
LEMMA HoldingFresh ==
    ASSUME TypeOK, RowInv, NEW op, op # "runner", NEW pod, NEW ref,
           op = "verify" => row.status = "WAITING_FOR_CODE" \/ row.code_sha # NoSha
    PROVE  Fresh(Holding(op, pod, ref))
<1>1. row.code_sha # NoSha => Claimed(row.code_sha)
  BY DEF TypeOK, RowInv, AttemptsMatchRow, Claimed
<1> QED
  BY <1>1 DEF Fresh, SnapFresh, Holding, Snap, TypeOK, Row

LEMMA ContinueFresh ==
    ASSUME ReadsFresh, NEW h \in handlers, h \in Stopper \union Releaser,
           NEW op, op \notin {"runner", "verify"}, Continue(h, op)
    PROVE  \A k \in handlers' : Fresh(k)
<1> DEFINE g == [h EXCEPT !.op = op]
<1>1. g.op = op /\ g.snap = h.snap /\ h.op # "runner"
  BY DEF Stopper, Releaser
<1>2. Fresh(g)
  BY <1>1 DEF ReadsFresh, Fresh, SnapFresh
<1> QED
  BY <1>2 DEF Continue, ReadsFresh

\* A callback that passes the gateway's checks names the commit the job is on,
\* and its attempt.
LEMMA RunnerReadFresh ==
    ASSUME IInv, NEW pod \in launched, NEW s \in Reports(pod.phase), RunnerRead(pod, s)
    PROVE  \A k \in handlers' : Fresh(k)
<1> DEFINE e == RunnerEvent(pod, s)
           h == [op |-> "runner", version |-> row.version, event |-> e]
<1>1. /\ pod \in Pods /\ e.phase = pod.phase /\ e.attempt = pod.attempt
      /\ e.sha = pod.sha /\ e.to = s /\ e.from = row.status
  BY DEF IInv, TypeOK, RunnerEvent
<1>2. PodFits(e.phase, e.attempt, e.sha)
  BY <1>1 DEF IInv, PodsFit
<1>3. e.phase # "PREPARE" => e.attempt = row.verify_attempt
  BY DEF RunnerRead, CallbackIsCurrent
<1>4. e.sha = row.code_sha
  <2>1. CASE row.code_sha # NoSha
    BY <2>1 DEF RunnerRead, CallbackIsCurrent
  <2>2. CASE row.code_sha = NoSha
    <3>1. attempts \in Seq(Shas)
      BY DEF IInv, TypeOK
    <3>2. attempts = <<>>
      BY <2>2, <3>1, ShaFacts DEF IInv, RowInv, AttemptsMatchRow
    <3>3. row.verify_attempt = 0
      BY <3>2 DEF IInv, RowInv, AttemptsMatchRow
    <3> QED
      BY <1>2, <1>3, <2>2, <3>3 DEF PodFits
  <2> QED
    BY <2>1, <2>2
<1>5. row.version \in Nat
  BY DEF IInv, TypeOK, Row
<1>6. Fresh(h)
  BY <1>1, <1>2, <1>3, <1>4, <1>5 DEF Fresh, CallbackFresh, Pods
<1> QED
  BY <1>6 DEF RunnerRead, Begin, IInv, ReadsFresh

LEMMA RequestInv ==
    ASSUME IInv,
           \/ \E sha \in Shas : VerifyRead(sha)
           \/ RunnerSends
           \/ CancelRead
           \/ ExpireScan
           \/ ReleaseScan
    PROVE  IInv'
<1>1. TypeOK /\ RowInv /\ ReadsFresh /\ PodsFit
  BY DEF IInv
<1>2. TypeOK'
  BY <1>1, RequestType
<1>3. UNCHANGED <<row, attempts, events, dispatch, launched>>
  BY DEF VerifyRead, RunnerSends, RunnerRead, CancelRead, ExpireScan, ReleaseScan, db, cluster
<1>4. RowInv' /\ PodsFit' /\ Moves
  BY <1>1, <1>3, RowKept, RowUnmoved DEF PodsFit
<1>5. \A k \in handlers' : Fresh(k)
  <2>1. CASE \E sha \in Shas : VerifyRead(sha)
    <3>1. PICK sha \in Shas : VerifyRead(sha)
      BY <2>1
    <3>2. row.status = "WAITING_FOR_CODE" \/ row.code_sha # NoSha
      BY <3>1, ShaFacts DEF VerifyRead
    <3> QED
      BY <1>1, <3>1, <3>2, HoldingFresh DEF VerifyRead, Begin, ReadsFresh
  <2>2. CASE RunnerSends
    BY <2>2, RunnerReadFresh DEF RunnerSends
  <2>3. CASE CancelRead
    BY <1>1, <2>3, HoldingFresh DEF CancelRead, Begin, ReadsFresh
  <2>4. CASE ExpireScan
    BY <1>1, <2>4, HoldingFresh DEF ExpireScan, Begin, ReadsFresh
  <2>5. CASE ReleaseScan
    BY <1>1, <2>5, HoldingFresh DEF ReleaseScan, Begin, ReadsFresh
  <2> QED
    BY <2>1, <2>2, <2>3, <2>4, <2>5
<1> QED
  BY <1>1, <1>2, <1>4, <1>5, ReadsKept DEF IInv

\* A launch writes the name of a Kubernetes Job at most.
LEMMA TaskStepMoves ==
    ASSUME TypeOK, RowInv, NEW t \in dispatch, TaskStep(t)
    PROVE  RowInv' /\ Moves
<1>1. CASE SetLatestK8sJob(t)
  <2>1. t.pod \in Pods /\ row \in Row
    BY DEF TypeOK, Tasks
  <2>2. \/ row' = row
        \/ row' = [row EXCEPT !.k8s = t.pod]
    BY <1>1 DEF SetLatestK8sJob
  <2>3. /\ row'.status = row.status /\ row'.version = row.version
        /\ row'.verify_attempt = row.verify_attempt /\ row'.code_sha = row.code_sha
        /\ row'.tested_sha = row.tested_sha /\ row'.failure_class = row.failure_class
        /\ row'.completed = row.completed
    <3>1. CASE row' = row
      BY <3>1
    <3>2. CASE row' = [row EXCEPT !.k8s = t.pod]
      BY <2>1, <3>2, NamedRow
    <3> QED
      BY <2>2, <3>1, <3>2
  <2>4. UNCHANGED <<attempts, events>>
    BY <1>1 DEF SetLatestK8sJob
  <2> QED
    BY <2>3, <2>4, RowKept DEF Moves, Stays
<1>2. CASE ~SetLatestK8sJob(t)
  <2>1. UNCHANGED <<row, attempts, events>>
    BY <1>2 DEF TaskStep, Launch, LaunchFails, DispatchErrorRead, LoseTask, db
  <2> QED
    BY <2>1, RowKept, RowUnmoved
<1> QED
  BY <1>1, <1>2

\* A task that is queued, created or lost leaves its Job as it was.
LEMMA TaskStepInv ==
    ASSUME IInv, NEW t \in dispatch, TaskStep(t)
    PROVE  IInv'
<1>1. TypeOK /\ RowInv /\ ReadsFresh /\ PodsFit
  BY DEF IInv
<1>2. TypeOK'
  BY <1>1, TaskStepType
<1>3. PodsFit'
  <2>1. /\ launched' \subseteq launched \union {t.pod}
        /\ \A u \in dispatch' : u \in dispatch \/ u.pod = t.pod
    BY <1>1 DEF TaskStep, Launch, LaunchFails, SetLatestK8sJob, DispatchErrorRead, LoseTask,
       cluster, TypeOK, Tasks
  <2> QED
    BY <1>1, <2>1 DEF PodsFit
<1>4. RowInv' /\ Moves
  BY <1>1, TaskStepMoves
<1>5. \A k \in handlers' : Fresh(k)
  BY <1>1, HoldingFresh DEF TaskStep, Launch, LaunchFails, SetLatestK8sJob,
     DispatchErrorRead, LoseTask, Begin, ReadsFresh
<1> QED
  BY <1>1, <1>2, <1>3, <1>4, <1>5, ReadsKept DEF IInv

\* An ended handler takes nothing with it.
LEMMA EndFresh == ASSUME ReadsFresh, NEW h, End(h) PROVE \A k \in handlers' : Fresh(k)
BY DEF End, ReadsFresh

LEMMA QueueVerifyKeeps ==
    ASSUME TypeOK, PodsFit, NEW r, NEW sha, NEW from, QueueVerify(sha, r, from),
           launched' = launched
    PROVE  PodsFit'
<1> DEFINE t == Task("GENERATE", Len(attempts) + 1, sha)
<1>1. attempts \in Seq(Shas) /\ attempts' = Append(attempts, sha) /\ dispatch' = dispatch \union {t}
  BY DEF TypeOK, QueueVerify, VerifyEvent
<1>2. PodFits(t.pod.phase, t.pod.attempt, t.pod.sha)
  BY <1>1 DEF PodFits, Task
<1> HIDE DEF t
<1> QED
  BY <1>1, <1>2 DEF PodsFit

LEMMA StopInv ==
    ASSUME IInv, NEW h \in handlers, h \in Stopper, NEW kind \in {"cancel", "timeout"},
           NEW status \in {"CANCELLED", "TIMEOUT"}, NEW r \in {row, Cleared(row, h.pod)},
           Stop(h, kind, status, r)
    PROVE  RowInv' /\ Moves /\ PodsFit' /\ \A k \in handlers' : Fresh(k)
<1> DEFINE e == StopEvent(h, kind, status)
<1>1. TypeOK /\ RowInv /\ ReadsFresh /\ PodsFit /\ row \in Row
  BY DEF IInv, TypeOK
<1>2. e \in Event /\ e.to = status /\ e.phase = "SYSTEM" /\ e.sha = h.snap.code_sha
  BY StopEventType DEF StopEvent, Terminal
<1>3. e.from = row.status /\ e.sha = row.code_sha
  BY <1>1, <1>2 DEF Stop, CanRecord, ReadsFresh, Fresh, SnapFresh, StopEvent, Stopper
<1>4. /\ IsTransitionAllowed(e.from, e.to) /\ row' = Written(r, e)
      /\ events' = Append(events, e) /\ attempts' = attempts
      /\ dispatch' = dispatch /\ launched' = launched /\ End(h)
  BY DEF Stop, CanRecord, cluster
<1>5. /\ r \in Row /\ r.status = row.status /\ r.version = row.version
      /\ r.verify_attempt = row.verify_attempt /\ r.code_sha = row.code_sha
      /\ r.tested_sha = row.tested_sha /\ r.failure_class = row.failure_class
      /\ r.completed = row.completed
  BY <1>1, ClearedRow
<1> HIDE DEF e
<1>6. RowInv' /\ Moves
  BY <1>1, <1>2, <1>3, <1>4, <1>5, RowRecorded
<1> QED
  BY <1>1, <1>4, <1>6, EndFresh DEF PodsFit

LEMMA DispatchErrorInv ==
    ASSUME IInv, NEW h \in handlers, DispatchErrorCommit(h)
    PROVE  RowInv' /\ Moves /\ PodsFit' /\ \A k \in handlers' : Fresh(k)
<1> DEFINE e == DispatchError(h)
<1>1. TypeOK /\ RowInv /\ ReadsFresh /\ PodsFit /\ row \in Row
  BY DEF IInv, TypeOK
<1>2. h \in Stopper
  BY <1>1, HandlerShape DEF DispatchErrorCommit, TypeOK
<1>3. e \in Event /\ e.to = "ERROR" /\ e.phase = "SYSTEM" /\ e.sha = NoSha
  BY <1>2, DispatchErrorType DEF DispatchError
<1>4. e.from = row.status
  BY <1>1, <1>2 DEF DispatchErrorCommit, CanRecord, ReadsFresh, Fresh, SnapFresh, DispatchError
<1>5. /\ IsTransitionAllowed(e.from, e.to) /\ row' = Written(row, e)
      /\ events' = Append(events, e) /\ attempts' = attempts
      /\ dispatch' = dispatch /\ launched' = launched /\ End(h)
  BY DEF DispatchErrorCommit, CanRecord, cluster
<1> HIDE DEF e
<1>6. RowInv' /\ Moves
  BY <1>1, <1>3, <1>4, <1>5, RowRecorded
<1> QED
  BY <1>1, <1>5, <1>6, EndFresh DEF PodsFit

LEMMA RunnerCommitInv ==
    ASSUME IInv, NEW h \in handlers, RunnerCommit(h)
    PROVE  RowInv' /\ Moves /\ PodsFit' /\ \A k \in handlers' : Fresh(k)
<1> DEFINE e == h.event
<1>1. TypeOK /\ RowInv /\ ReadsFresh /\ PodsFit /\ row \in Row
  BY DEF IInv, TypeOK
<1>2. h \in Callback /\ e \in Event
  BY <1>1, HandlerShape DEF RunnerCommit, TypeOK, Callback
<1>3. /\ CallbackFresh(h) /\ h.version = row.version
      /\ IsTransitionAllowed(e.from, e.to) /\ row' = Written(row, e)
      /\ events' = Append(events, e) /\ attempts' = attempts
      /\ dispatch' = dispatch \union TestLaunch(e) /\ launched' = launched /\ End(h)
  BY <1>1 DEF RunnerCommit, CanRecord, ReadsFresh, Fresh, cluster
<1>4. /\ e.phase \in {"PREPARE", "GENERATE", "TEST"} /\ e.to \in Reports(e.phase)
      /\ PodFits(e.phase, e.attempt, e.sha)
      /\ e.from = row.status /\ e.sha = row.code_sha
      /\ e.phase # "PREPARE" => e.attempt = row.verify_attempt
  BY <1>3 DEF CallbackFresh
<1> HIDE DEF e
<1>5. /\ e.to \notin {"SUPERSEDED", "VERIFY_QUEUED"}
      /\ e.to \in {"PASSED", "FAILED"} => e.phase = "TEST"
      /\ e.to = "TEST_QUEUED" => e.phase = "GENERATE"
      /\ e.to \in {"PREPARING", "WAITING_FOR_CODE"} => e.phase = "PREPARE"
  BY <1>4, ReportsFacts
<1>6. e.phase = "TEST" => row.code_sha # NoSha
  <2> SUFFICES ASSUME e.phase = "TEST" PROVE row.code_sha # NoSha
    OBVIOUS
  <2>1. Len(attempts) # 0 /\ attempts \in Seq(Shas)
    BY <1>1, <1>4 DEF PodFits, RowInv, AttemptsMatchRow, TypeOK
  <2>2. row.code_sha = attempts[Len(attempts)]
    BY <1>1, <2>1 DEF RowInv, AttemptsMatchRow
  <2>3. row.code_sha \in Shas
    BY <2>1, <2>2
  <2> QED
    BY <2>3, ShaFacts
<1>7. e.to \in {"PREPARING", "WAITING_FOR_CODE"} => row.code_sha = NoSha
  BY <1>4, <1>5 DEF PodFits
<1>8. RowInv' /\ Moves
  BY <1>1, <1>2, <1>3, <1>4, <1>5, <1>6, <1>7, RowRecorded
<1>9. PodsFit'
  <2>1. \A t \in TestLaunch(e) : t.pod.phase = "TEST" /\ t.pod.attempt # 0
    BY <1>4, <1>5 DEF TestLaunch, Task, PodFits
  <2>2. \A t \in TestLaunch(e) : PodFits(t.pod.phase, t.pod.attempt, t.pod.sha)
    BY <2>1 DEF PodFits
  <2> QED
    BY <1>1, <1>3, <2>2 DEF PodsFit
<1> QED
  BY <1>1, <1>3, <1>8, <1>9, EndFresh

LEMMA HandlerStepKeeps ==
    ASSUME IInv, NEW h \in handlers, HandlerStep(h)
    PROVE  RowInv' /\ Moves /\ PodsFit' /\ \A k \in handlers' : Fresh(k)
<1>1. TypeOK /\ RowInv /\ ReadsFresh /\ PodsFit /\ row \in Row /\ h \in Handler
  BY DEF IInv, TypeOK
<1>2. CASE VerifyFirst(h)
  <2>1. RowInv' /\ Moves
    BY <1>1, <1>2, VerifyFirstRow DEF Moves
  <2>2. QueueVerify(h.ref, row, h.snap.status) /\ launched' = launched /\ End(h)
    BY <1>2 DEF VerifyFirst, cluster
  <2> QED
    BY <1>1, <2>1, <2>2, QueueVerifyKeeps, EndFresh
<1>3. CASE VerifySupersede(h)
  <2>1. RowInv' /\ Moves
    BY <1>1, <1>3, VerifySupersedeRow DEF Moves
  <2>2. PICK r : QueueVerify(h.ref, r, "SUPERSEDED")
    BY <1>3 DEF VerifySupersede
  <2>3. launched' = launched /\ End(h)
    BY <1>3 DEF VerifySupersede, cluster
  <2> QED
    BY <1>1, <2>1, <2>2, <2>3, QueueVerifyKeeps, EndFresh
<1>4. CASE VerifySame(h)
  <2>1. h.ref \in Shas /\ Fresh(h) /\ h.op = "verify" /\ h.snap.code_sha = h.ref
    BY <1>1, <1>4, HandlerShape DEF VerifySame, Verifier, ReadsFresh
  <2>2. Claimed(h.ref)
    BY <2>1, ShaFacts DEF Fresh, SnapFresh
  <2>3. UNCHANGED <<row, attempts, events, dispatch, launched>> /\ End(h)
    BY <1>4, <2>2 DEF VerifySame, cluster
  <2> QED
    BY <1>1, <2>3, RowKept, RowUnmoved, EndFresh DEF PodsFit
<1>5. CASE RunnerCommit(h)
  BY <1>5, RunnerCommitInv
<1>6. CASE CancelCommit(h)
  BY <1>1, <1>6, HandlerShape, StopInv DEF CancelCommit
<1>7. CASE ExpireCommit(h)
  BY <1>1, <1>7, HandlerShape, StopInv DEF ExpireCommit
<1>8. CASE DispatchErrorCommit(h)
  BY <1>8, DispatchErrorInv
<1>9. CASE CancelDelete(h) \/ ExpireDelete(h) \/ ReleaseDelete(h)
  <2>1. h \in Stopper \union Releaser
    BY <1>1, <1>9, HandlerShape DEF CancelDelete, ExpireDelete, ReleaseDelete
  <2>2. \A k \in handlers' : Fresh(k)
    BY <1>1, <1>9, <2>1, ContinueFresh DEF CancelDelete, ExpireDelete, ReleaseDelete
  <2>3. UNCHANGED <<row, attempts, events, dispatch, launched>>
    BY <1>9 DEF CancelDelete, ExpireDelete, ReleaseDelete, db
  <2> QED
    BY <1>1, <2>2, <2>3, RowKept, RowUnmoved DEF PodsFit
<1>10. CASE ExpireRead(h)
  <2>1. \A k \in handlers' : Fresh(k)
    BY <1>1, <1>10, HoldingFresh DEF ExpireRead, ReadsFresh
  <2>2. UNCHANGED <<row, attempts, events, dispatch, launched>>
    BY <1>10 DEF ExpireRead, db, cluster
  <2> QED
    BY <1>1, <2>1, <2>2, RowKept, RowUnmoved DEF PodsFit
<1>11. CASE ReleaseClear(h)
  <2>1. /\ row' = Cleared(row, h.pod) /\ UNCHANGED <<attempts, events, dispatch, launched>>
        /\ End(h)
    BY <1>11 DEF ReleaseClear, cluster
  <2>2. /\ row'.status = row.status /\ row'.version = row.version
        /\ row'.verify_attempt = row.verify_attempt /\ row'.code_sha = row.code_sha
        /\ row'.tested_sha = row.tested_sha /\ row'.failure_class = row.failure_class
        /\ row'.completed = row.completed
    BY <1>1, <2>1, ClearedRow
  <2> QED
    BY <1>1, <2>1, <2>2, RowKept, EndFresh DEF PodsFit, Moves, Stays
<1>12. CASE Abandon(h)
  <2>1. UNCHANGED <<row, attempts, events, dispatch, launched>> /\ End(h)
    BY <1>12 DEF Abandon, db, cluster
  <2> QED
    BY <1>1, <2>1, RowKept, RowUnmoved, EndFresh DEF PodsFit
<1> QED
  BY <1>2, <1>3, <1>4, <1>5, <1>6, <1>7, <1>8, <1>9, <1>10, <1>11, <1>12 DEF HandlerStep

LEMMA HandlerStepInv ==
    ASSUME IInv, NEW h \in handlers, HandlerStep(h)
    PROVE  IInv'
<1>1. TypeOK /\ TypeOK'
  BY HandlerType DEF IInv
<1> QED
  BY <1>1, HandlerStepKeeps, ReadsKept DEF IInv

LEMMA InitInv == Init => IInv
<1> SUFFICES ASSUME Init PROVE IInv
  OBVIOUS
<1>1. TypeOK
  BY InitType
<1>2. RowInv
  BY DEF Init, NewRow, RowInv, LogExplainsRow, Explains, StatusAfter, AttemptsMatchRow,
     ResultBelongsToStatus, PreparingHasNoCode, Terminal, FailureClass
<1>3. PodsFit /\ ReadsFresh
  BY DEF Init, PodsFit, PodFits, ReadsFresh, Task
<1> QED
  BY <1>1, <1>2, <1>3 DEF IInv

LEMMA NextInv == IInv /\ [Next]_vars => IInv'
<1> SUFFICES ASSUME IInv, [Next]_vars PROVE IInv'
  OBVIOUS
<1>1. CASE Next
  BY <1>1, RequestInv, HandlerStepInv, TaskStepInv DEF GatewayStep, Next
<1>2. CASE UNCHANGED vars
  <2>1. TypeOK' /\ RowInv' /\ Moves /\ handlers' = handlers
    BY <1>2, NextType, RowKept, RowUnmoved DEF IInv, vars
  <2>2. PodsFit' /\ \A k \in handlers' : Fresh(k)
    BY <1>2, <2>1 DEF IInv, vars, PodsFit, ReadsFresh
  <2> QED
    BY <2>1, <2>2, ReadsKept DEF IInv
<1> QED
  BY <1>1, <1>2

LEMMA Inductive == Spec => []IInv
BY InitInv, NextInv, PTL DEF Spec

-----------------------------------------------------------------------------
(* The theorems. *)

\* However many requests, callbacks, sweeps and dispatch errors race on the row,
\* the event log explains it: no accepted event was decided on a stale read.
THEOREM LogAlwaysExplainsRow == Spec => []LogExplainsRow
<1>1. IInv => LogExplainsRow
  BY DEF IInv, RowInv
<1> QED
  BY <1>1, Inductive, PTL

\* The row is always on its latest attempt and that attempt's commit, and no
\* commit is ever given two attempts, for any number of commits.
THEOREM AttemptsAlwaysMatchRow == Spec => []AttemptsMatchRow
<1>1. IInv => AttemptsMatchRow
  BY DEF IInv, RowInv
<1> QED
  BY <1>1, Inductive, PTL

\* No result column ever outlives the attempt it belongs to, and a verdict is
\* always about the commit the job is on.
THEOREM ResultAlwaysBelongs == Spec => []ResultBelongsToStatus
<1>1. IInv => ResultBelongsToStatus
  BY DEF IInv, RowInv
<1> QED
  BY <1>1, Inductive, PTL

\* A committed step changes the job along the status machine, or starts its next
\* attempt.
LEMMA NextMoves == IInv /\ [Next]_vars => Moves
<1> SUFFICES ASSUME IInv, [Next]_vars PROVE Moves
  OBVIOUS
<1>1. CASE \E h \in handlers : HandlerStep(h)
  BY <1>1, HandlerStepKeeps
<1>2. CASE \E t \in dispatch : TaskStep(t)
  BY <1>2, TaskStepMoves DEF IInv
<1>3. CASE \/ \E sha \in Shas : VerifyRead(sha)
           \/ RunnerSends
           \/ CancelRead
           \/ ExpireScan
           \/ ReleaseScan
  BY <1>3, RowUnmoved
     DEF VerifyRead, RunnerSends, RunnerRead, CancelRead, ExpireScan, ReleaseScan, db
<1>4. CASE UNCHANGED vars
  BY <1>4, RowUnmoved DEF vars
<1> QED
  BY <1>1, <1>2, <1>3, <1>4 DEF GatewayStep, Next

\* An attempt that has ended, by whichever of its racing enders, stays as it
\* ended until another commit starts the next attempt.
THEOREM OutcomeStaysFinal == Spec => OutcomeIsFinal
<1>1. IInv /\ Moves =>
        (row.status \in Terminal /\ row'.status # row.status =>
            /\ row'.status = "VERIFY_QUEUED"
            /\ row'.verify_attempt = row.verify_attempt + 1
            /\ row'.code_sha # row.code_sha)
  <2> SUFFICES ASSUME IInv, Moves, row.status \in Terminal, row'.status # row.status
               PROVE  /\ row'.status = "VERIFY_QUEUED"
                      /\ row'.verify_attempt = row.verify_attempt + 1
                      /\ row'.code_sha # row.code_sha
    OBVIOUS
  <2>1. TakesUp
    BY TransitionFacts DEF Moves, Stays, Advances
  <2>2. row'.code_sha # NoSha
    BY <2>1, ShaFacts DEF TakesUp
  <2>3. row.code_sha # NoSha => Claimed(row.code_sha)
    BY DEF IInv, TypeOK, RowInv, AttemptsMatchRow, Claimed
  <2> QED
    BY <2>1, <2>2, <2>3 DEF TakesUp
<1>2. IInv /\ [Next]_vars =>
        [row.status \in Terminal /\ row'.status # row.status =>
            /\ row'.status = "VERIFY_QUEUED"
            /\ row'.verify_attempt = row.verify_attempt + 1
            /\ row'.code_sha # row.code_sha]_vars
  BY <1>1, NextMoves
<1> QED
  BY <1>2, Inductive, PTL DEF Spec, OutcomeIsFinal

\* The gateway implements the life cycle its clients may rely on.
THEOREM GatewayImplementsLifecycle == Spec => ImplementsLifecycle
<1> DEFINE tried == {attempts[n] : n \in DOMAIN attempts}
<1>1. Init => Lifecycle!Init
  BY DEF Init, NewRow, Lifecycle!Init
<1>2. IInv /\ [Next]_vars => [Lifecycle!Next]_(Lifecycle!lifecycle)
  <2> SUFFICES ASSUME IInv, Moves PROVE [Lifecycle!Next]_(Lifecycle!lifecycle)
    BY NextMoves
  <2>1. CASE Stays
    BY <2>1 DEF Stays, Lifecycle!lifecycle
  <2>2. CASE Advances
    <3>1. Lifecycle!IsTransitionAllowed(row.status, row'.status)
      BY <2>2 DEF Advances, IsTransitionAllowed, Lifecycle!IsTransitionAllowed,
         PrimaryTransitions, Lifecycle!PrimaryTransitions, Terminal, Lifecycle!Terminal
    <3>2. tried' = tried
      BY <2>2 DEF Advances
    <3>3. Lifecycle!Advance(row'.status)
      BY <2>2, <3>1, <3>2 DEF Advances, Lifecycle!Advance
    <3>4. row'.status \in Lifecycle!JobStatuses \ {"VERIFY_QUEUED", "SUPERSEDED"}
      BY <2>2 DEF Advances, JobStatuses, Lifecycle!JobStatuses, Active, Lifecycle!Active,
         Terminal, Lifecycle!Terminal
    <3> QED
      BY <3>3, <3>4 DEF Lifecycle!Next
  <2>3. CASE TakesUp
    <3>1. PICK c \in Shas : c = row'.code_sha
      BY <2>3 DEF TakesUp
    <3>2. attempts \in Seq(Shas) /\ c \notin tried
      BY <2>3, <3>1 DEF IInv, TypeOK, TakesUp, Claimed
    <3>3. tried' = tried \union {c}
      BY <2>3, <3>1, <3>2 DEF TakesUp
    <3>4. Lifecycle!TakeUp(c)
      BY <2>3, <3>1, <3>2, <3>3 DEF TakesUp, Lifecycle!TakeUp
    <3>5. Lifecycle!Verify(c) \/ Lifecycle!Supersede(c)
      BY <2>3, <3>4 DEF TakesUp, Lifecycle!Verify, Lifecycle!Supersede
    <3> QED
      BY <3>5 DEF Lifecycle!Next
  <2> QED
    BY <2>1, <2>2, <2>3 DEF Moves
<1> QED
  BY <1>1, <1>2, Inductive, PTL DEF Spec, ImplementsLifecycle, Lifecycle!Spec

-----------------------------------------------------------------------------
(* The kinds of steps.  Every step leaves log and outbox alone, records one
   event about the attempt the job is on, or starts the next attempt. *)

\* The name may be cleared, or become that of a launch that is current.
Named ==
    \/ row'.k8s \in {row.k8s, NoPod}
    \/ /\ row'.k8s \in Pods
       /\ LaunchIsCurrent(row'.k8s)
       /\ PodFits(row'.k8s.phase, row'.k8s.attempt, row'.k8s.sha)

Quiet ==
    /\ UNCHANGED <<events, outbox>>
    /\ Stays
    /\ Named

Recorded(e) ==
    /\ e \in Event
    /\ events' = Append(events, e)
    /\ e.from = row.status /\ row'.status = e.to
    /\ IsTransitionAllowed(e.from, e.to)
    /\ e.to \notin {"SUPERSEDED", "VERIFY_QUEUED"}
    /\ e.src # "runner" => e.to \in {"CANCELLED", "TIMEOUT", "ERROR"}
    /\ IF e.src = "dispatch"
         THEN outbox' = outbox
         ELSE /\ outbox' = outbox \union Outcome(e.attempt, e.to)
              /\ e.attempt = CurrentAttempt(row)
              /\ e.sha = row.code_sha
    /\ row'.verify_attempt = row.verify_attempt
    /\ row'.code_sha = row.code_sha
    /\ row'.k8s \in {row.k8s, NoPod}

Queued(v) ==
    /\ v \in Event
    /\ v.src = "verify" /\ v.to = "VERIFY_QUEUED"
    /\ v.attempt = row'.verify_attempt /\ v.sha = row'.code_sha
    /\ row'.status = "VERIFY_QUEUED"
    /\ row'.verify_attempt = row.verify_attempt + 1
    /\ row'.k8s = row.k8s

First(v) ==
    /\ Queued(v)
    /\ row.status = "WAITING_FOR_CODE"
    /\ events' = Append(events, v)
    /\ outbox' = outbox

Replaced(s, v) ==
    /\ Queued(v)
    /\ row.verify_attempt > 0
    /\ s \in Event
    /\ s.src = "supersede" /\ s.to = "SUPERSEDED" /\ s.attempt = row.verify_attempt
    /\ events' = Append(Append(events, s), v)
    /\ outbox' = outbox \union
          {[attempt |-> row.verify_attempt, status |-> "SUPERSEDED", sha |-> s.sha]}

\* A callback is a runner's; one of the prepare phase is of the only attempt
\* there is.
CallbackFits(h) ==
    h.op = "runner" =>
        /\ h.event.src = "runner"
        /\ h.event.phase = "PREPARE" => h.event.attempt = PrepareAttempt

CallbacksFit == \A h \in handlers : CallbackFits(h)

\* The columns of a row that a statement did not mean to write.
LEMMA QueuedRow ==
    ASSUME TypeOK, AttemptsMatchRow, NEW r \in Row, r.k8s = row.k8s, NEW sha \in Shas,
           NEW from \in JobStatuses, QueueVerify(sha, r, from)
    PROVE  Queued(VerifyEvent(sha, from))
<1> DEFINE v == VerifyEvent(sha, from)
<1>1. v \in Event /\ v.src = "verify" /\ v.to = "VERIFY_QUEUED" /\ v.sha = sha
      /\ v.attempt = Len(attempts) + 1 /\ v.attempt \in Nat
  BY VerifyEventType DEF TypeOK, VerifyEvent
<1>2. Written(r, v) \in Row /\ Written(r, v).k8s = row.k8s
  BY <1>1, WrittenRow
<1>3. row' = [Written(r, v) EXCEPT !.verify_attempt = v.attempt]
  BY DEF QueueVerify
<1>4. /\ row'.status = "VERIFY_QUEUED" /\ row'.verify_attempt = row.verify_attempt + 1
      /\ row'.code_sha = sha
  BY VerifyQueued
<1>5. row'.verify_attempt = v.attempt
  BY <1>1, <1>4 DEF AttemptsMatchRow
<1> HIDE DEF v
<1>6. row'.k8s = row.k8s
  BY <1>2, <1>3 DEF Row
<1> QED
  BY <1>1, <1>4, <1>5, <1>6 DEF Queued, v

LEMMA ClearedKeepsName ==
    ASSUME NEW r \in Row PROVE ClearedResult(r).k8s = r.k8s
BY DEF ClearedResult, Row

LEMMA VerifyFirstKind ==
    ASSUME IInv, NEW h \in handlers, VerifyFirst(h)
    PROVE  \E v : First(v)
<1>1. h \in Verifier /\ h.ref \in Shas /\ h.snap.status \in JobStatuses
  BY HandlerShape DEF VerifyFirst, IInv, TypeOK, Verifier, Snapshot
<1>2. row.status = "WAITING_FOR_CODE"
  BY <1>1 DEF VerifyFirst, CanRecord, IInv, ReadsFresh, Fresh, SnapFresh
<1>3. Queued(VerifyEvent(h.ref, h.snap.status))
  BY <1>1, QueuedRow DEF VerifyFirst, IInv, RowInv, TypeOK
<1> QED
  BY <1>2, <1>3 DEF VerifyFirst, First

LEMMA VerifySupersedeKind ==
    ASSUME IInv, NEW h \in handlers, VerifySupersede(h)
    PROVE  \E s, v : Replaced(s, v)
<1> DEFINE s == SupersedeEvent(h)
           v == VerifyEvent(h.ref, "SUPERSEDED")
           w == Written(row, s)
           r == ClearedResult(w)
<1>1. h \in Verifier /\ h.ref \in Shas /\ "SUPERSEDED" \in JobStatuses
  BY HandlerShape DEF VerifySupersede, IInv, TypeOK, Verifier, JobStatuses, Terminal
<1>2. s \in Event /\ s.src = "supersede" /\ s.to = "SUPERSEDED"
  BY <1>1, SupersedeEventType DEF SupersedeEvent
<1>3. s.attempt = row.verify_attempt /\ row.code_sha # NoSha
  BY <1>1 DEF VerifySupersede, CanRecord, IInv, ReadsFresh, Fresh, SnapFresh, SupersedeEvent
<1>4. row.verify_attempt > 0
  BY <1>3 DEF IInv, TypeOK, RowInv, AttemptsMatchRow
<1>5. w \in Row /\ w.k8s = row.k8s
  BY <1>2, WrittenRow DEF IInv, TypeOK
<1>6. r \in Row /\ r.k8s = row.k8s
  <2> HIDE DEF w
  <2> QED
    BY <1>5, ClearedResultRow, ClearedKeepsName
<1>7. /\ QueueVerify(h.ref, r, "SUPERSEDED") /\ events' = events \o <<s, v>>
      /\ outbox' = outbox \union
            {[attempt |-> s.attempt, status |-> "SUPERSEDED", sha |-> s.sha]}
  BY DEF VerifySupersede
<1> HIDE DEF s, w, r
<1>8. Queued(v)
  BY <1>1, <1>6, <1>7, QueuedRow DEF IInv, RowInv
<1>9. events' = Append(Append(events, s), v)
  BY <1>2, <1>7, <1>8 DEF IInv, TypeOK, Queued
<1> HIDE DEF v
<1> QED
  BY <1>2, <1>3, <1>4, <1>7, <1>8, <1>9 DEF Replaced

\* The attempt a current callback is of is the one the job is on.
LEMMA RunnerCommitKind ==
    ASSUME IInv, CallbacksFit, NEW h \in handlers, RunnerCommit(h)
    PROVE  Recorded(h.event) /\ h.event.src = "runner"
<1> DEFINE e == h.event
<1>1. h \in Callback /\ e \in Event /\ row \in Row /\ h.op = "runner"
  BY HandlerShape DEF RunnerCommit, IInv, TypeOK, Callback
<1>2. /\ CallbackFresh(h) /\ h.version = row.version
      /\ IsTransitionAllowed(e.from, e.to) /\ row' = Written(row, e)
      /\ events' = Append(events, e) /\ outbox' = outbox \union Outcome(e.attempt, e.to)
  BY <1>1 DEF RunnerCommit, CanRecord, IInv, ReadsFresh, Fresh
<1>3. /\ e.phase \in {"PREPARE", "GENERATE", "TEST"} /\ e.to \in Reports(e.phase)
      /\ PodFits(e.phase, e.attempt, e.sha)
      /\ e.from = row.status /\ e.sha = row.code_sha
      /\ e.phase # "PREPARE" => e.attempt = row.verify_attempt
      /\ e.phase = "PREPARE" => e.attempt = PrepareAttempt
  BY <1>1, <1>2 DEF CallbackFresh, CallbacksFit, CallbackFits
<1>4. e.to \notin {"SUPERSEDED", "VERIFY_QUEUED"}
  BY <1>3, ReportsFacts
<1>5. e.attempt = CurrentAttempt(row)
  <2>1. CASE e.phase # "PREPARE"
    BY <1>3, <2>1 DEF PodFits, CurrentAttempt
  <2>2. CASE e.phase = "PREPARE"
    <3>1. row.code_sha = NoSha /\ attempts \in Seq(Shas)
      BY <1>3, <2>2 DEF PodFits, IInv, TypeOK
    <3>2. attempts = <<>>
      BY <3>1, ShaFacts DEF IInv, RowInv, AttemptsMatchRow
    <3>3. row.verify_attempt = 0
      BY <3>2 DEF IInv, RowInv, AttemptsMatchRow
    <3> QED
      BY <1>3, <2>2, <3>3 DEF CurrentAttempt
  <2> QED
    BY <2>1, <2>2
<1>6. /\ row'.status = e.to /\ row'.verify_attempt = row.verify_attempt
      /\ row'.code_sha = row.code_sha /\ row'.k8s = row.k8s
  BY <1>1, <1>2, <1>3, WrittenRow
<1>7. e.src = "runner"
  BY <1>1 DEF CallbacksFit, CallbackFits
<1> HIDE DEF e
<1> QED
  BY <1>1, <1>2, <1>3, <1>4, <1>5, <1>6, <1>7 DEF Recorded, e

LEMMA StopKind ==
    ASSUME IInv, NEW h \in handlers, h \in Stopper, NEW kind \in {"cancel", "timeout"},
           NEW status \in {"CANCELLED", "TIMEOUT"}, NEW r \in {row, Cleared(row, h.pod)},
           Stop(h, kind, status, r)
    PROVE  \E e : Recorded(e)
<1> DEFINE e == StopEvent(h, kind, status)
<1>1. e \in Event /\ e.to = status /\ e.src = kind /\ h.op # "runner" /\ row \in Row
  BY StopEventType DEF StopEvent, Terminal, Stopper, IInv, TypeOK
<1>2. e.from = row.status /\ e.sha = row.code_sha /\ e.attempt = CurrentAttempt(row)
  BY <1>1 DEF Stop, CanRecord, IInv, ReadsFresh, Fresh, SnapFresh, StopEvent, CurrentAttempt
<1>3. /\ IsTransitionAllowed(e.from, e.to) /\ row' = Written(r, e)
      /\ events' = Append(events, e) /\ outbox' = outbox \union Outcome(e.attempt, e.to)
  BY <1>1 DEF Stop, CanRecord
<1>4. /\ r \in Row /\ r.verify_attempt = row.verify_attempt /\ r.code_sha = row.code_sha
      /\ r.k8s \in {row.k8s, NoPod}
  <2>1. Cleared(row, h.pod).k8s \in {row.k8s, NoPod}
    BY <1>1 DEF Cleared, Row
  <2> QED
    BY <1>1, <2>1, ClearedRow
<1> HIDE DEF e
<1>5. /\ row'.status = e.to /\ row'.verify_attempt = row.verify_attempt
      /\ row'.code_sha = row.code_sha /\ row'.k8s \in {row.k8s, NoPod}
  BY <1>1, <1>2, <1>3, <1>4, WrittenRow
<1>6. Recorded(e)
  BY <1>1, <1>2, <1>3, <1>5 DEF Recorded
<1> QED
  BY <1>6

LEMMA DispatchErrorKind ==
    ASSUME IInv, NEW h \in handlers, DispatchErrorCommit(h)
    PROVE  \E e : Recorded(e)
<1> DEFINE e == DispatchError(h)
<1>1. h \in Stopper /\ row \in Row
  BY HandlerShape DEF DispatchErrorCommit, IInv, TypeOK
<1>2. e \in Event /\ e.to = "ERROR" /\ e.src = "dispatch" /\ e.sha = NoSha
  BY <1>1, DispatchErrorType DEF DispatchError
<1>3. e.from = row.status
  BY <1>1 DEF DispatchErrorCommit, CanRecord, IInv, ReadsFresh, Fresh, SnapFresh, DispatchError
<1>4. /\ IsTransitionAllowed(e.from, e.to) /\ row' = Written(row, e)
      /\ events' = Append(events, e) /\ outbox' = outbox
  BY DEF DispatchErrorCommit, CanRecord
<1> HIDE DEF e
<1>5. /\ row'.status = e.to /\ row'.verify_attempt = row.verify_attempt
      /\ row'.code_sha = row.code_sha /\ row'.k8s = row.k8s
  BY <1>1, <1>2, <1>4, WrittenRow
<1>6. Recorded(e)
  BY <1>2, <1>3, <1>4, <1>5 DEF Recorded
<1> QED
  BY <1>6

LEMMA TaskStepKind ==
    ASSUME IInv, NEW t \in dispatch, TaskStep(t)
    PROVE  Quiet
<1>1. CASE SetLatestK8sJob(t)
  <2>1. t.pod \in Pods /\ row \in Row /\ PodFits(t.pod.phase, t.pod.attempt, t.pod.sha)
    BY DEF IInv, TypeOK, Tasks, PodsFit
  <2>2. UNCHANGED <<attempts, events, outbox>>
    BY <1>1 DEF SetLatestK8sJob
  <2>3. CASE LaunchIsCurrent(t.pod)
    <3>1. row' = [row EXCEPT !.k8s = t.pod]
      BY <1>1, <2>3 DEF SetLatestK8sJob
    <3>2. Stays /\ row'.k8s = t.pod
      BY <2>1, <2>2, <3>1, NamedRow DEF Stays, Row
    <3> QED
      BY <2>1, <2>2, <2>3, <3>2 DEF Quiet, Named
  <2>4. CASE ~LaunchIsCurrent(t.pod)
    BY <1>1, <2>2, <2>4 DEF SetLatestK8sJob, Quiet, Stays, Named
  <2> QED
    BY <2>3, <2>4
<1>2. CASE ~SetLatestK8sJob(t)
  <2>1. UNCHANGED <<row, attempts, events, outbox>>
    BY <1>2 DEF TaskStep, Launch, LaunchFails, DispatchErrorRead, LoseTask, db
  <2> QED
    BY <2>1 DEF Quiet, Stays, Named
<1> QED
  BY <1>1, <1>2

Kinds ==
    \/ Quiet
    \/ \E e : Recorded(e)
    \/ \E v : First(v)
    \/ \E s, v : Replaced(s, v)

LEMMA HandlerStepKind ==
    ASSUME IInv, CallbacksFit, NEW h \in handlers, HandlerStep(h)
    PROVE  Kinds
<1>1. row \in Row /\ h \in Handler
  BY DEF IInv, TypeOK
<1>2. CASE VerifyFirst(h)
  BY <1>2, VerifyFirstKind DEF Kinds
<1>3. CASE VerifySupersede(h)
  BY <1>3, VerifySupersedeKind DEF Kinds
<1>4. CASE VerifySame(h)
  <2>1. h.ref \in Shas /\ Fresh(h) /\ h.op = "verify" /\ h.snap.code_sha = h.ref
    BY <1>1, <1>4, HandlerShape DEF VerifySame, Verifier, IInv, ReadsFresh
  <2>2. Claimed(h.ref)
    BY <2>1, ShaFacts DEF Fresh, SnapFresh
  <2> QED
    BY <1>4, <2>2 DEF VerifySame, Kinds, Quiet, Stays, Named
<1>5. CASE RunnerCommit(h)
  BY <1>5, RunnerCommitKind DEF Kinds
<1>6. CASE CancelCommit(h)
  BY <1>1, <1>6, HandlerShape, StopKind DEF CancelCommit, Kinds
<1>7. CASE ExpireCommit(h)
  BY <1>1, <1>7, HandlerShape, StopKind DEF ExpireCommit, Kinds
<1>8. CASE DispatchErrorCommit(h)
  BY <1>8, DispatchErrorKind DEF Kinds
<1>9. CASE \/ CancelDelete(h)
           \/ ExpireRead(h)
           \/ ExpireDelete(h)
           \/ ReleaseDelete(h)
           \/ Abandon(h)
  <2>1. UNCHANGED <<row, attempts, events, outbox>>
    BY <1>9 DEF CancelDelete, ExpireRead, ExpireDelete, ReleaseDelete, Abandon, db
  <2> QED
    BY <2>1 DEF Kinds, Quiet, Stays, Named
<1>10. CASE ReleaseClear(h)
  <2>1. row' = Cleared(row, h.pod) /\ UNCHANGED <<attempts, events, outbox>>
    BY <1>10 DEF ReleaseClear
  <2>2. row'.k8s \in {row.k8s, NoPod}
    BY <1>1, <2>1 DEF Cleared, Row
  <2> QED
    BY <1>1, <2>1, <2>2, ClearedRow DEF Kinds, Quiet, Stays, Named
<1> QED
  BY <1>2, <1>3, <1>4, <1>5, <1>6, <1>7, <1>8, <1>9, <1>10 DEF HandlerStep

LEMMA StepKinds == IInv /\ CallbacksFit /\ [Next]_vars => Kinds
<1> SUFFICES ASSUME IInv, CallbacksFit, [Next]_vars PROVE Kinds
  OBVIOUS
<1>1. CASE \E h \in handlers : HandlerStep(h)
  BY <1>1, HandlerStepKind
<1>2. CASE \E t \in dispatch : TaskStep(t)
  BY <1>2, TaskStepKind DEF Kinds
<1>3. CASE \/ \E sha \in Shas : VerifyRead(sha)
           \/ RunnerSends
           \/ CancelRead
           \/ ExpireScan
           \/ ReleaseScan
           \/ UNCHANGED vars
  <2>1. UNCHANGED <<row, attempts, events, outbox>>
    BY <1>3 DEF VerifyRead, RunnerSends, RunnerRead, CancelRead, ExpireScan, ReleaseScan, db, vars
  <2> QED
    BY <2>1 DEF Kinds, Quiet, Stays, Named
<1> QED
  BY <1>1, <1>2, <1>3 DEF GatewayStep, Next

-----------------------------------------------------------------------------
(* The inductive invariant, on top of IInv. *)

\* A Kubernetes Job the row does not depend on and never will again.
Past(pod) ==
    IF pod.phase = "PREPARE"
      THEN row.status \notin {"PREPARE_QUEUED", "PREPARING"}
      ELSE \/ pod.attempt < row.verify_attempt
           \/ pod.attempt = row.verify_attempt /\ row.status \in Terminal

ReleasesArePast == \A h \in handlers : h.op = "release" => Past(h.pod)

\* The name of the row is of this attempt or of an earlier one, and the test
\* launch is named after the generate launch.
NameFits ==
    row.k8s # NoPod =>
        /\ PodFits(row.k8s.phase, row.k8s.attempt, row.k8s.sha)
        /\ row.k8s.phase = "PREPARE" => row.k8s.attempt = PrepareAttempt
        /\ row.k8s.phase # "PREPARE" => row.k8s.attempt <= row.verify_attempt
        /\ row.k8s.phase # "PREPARE" /\ row.k8s.attempt = row.verify_attempt =>
              /\ row.k8s.sha = row.code_sha
              /\ row.k8s.phase = "TEST" =>
                    row.status \notin {"VERIFY_QUEUED", "GENERATING_TESTS"}

\* Nothing was announced of the attempt that is under way, and only of an
\* earlier one that it was superseded.
OutboxFits ==
    \A m \in outbox :
        /\ m.status = "SUPERSEDED" => m.attempt < row.verify_attempt
        /\ m.status # "SUPERSEDED" =>
              /\ m.sha = NoSha
              /\ m.attempt <= CurrentAttempt(row)
              /\ m.attempt = CurrentAttempt(row) => row.status \in Terminal

\* The log tells of the attempt the job is on that it reached a status.
Reached(status) ==
    \E i \in DOMAIN events :
        /\ events[i].to = status
        /\ events[i].attempt = row.verify_attempt
        /\ events[i].sha = row.code_sha

Verdicts == {"PASSED", "FAILED"}

StagesReached ==
    /\ row.status \in {"VERIFY_QUEUED", "GENERATING_TESTS", "TEST_QUEUED", "TESTING"}
                       \union Verdicts =>
          row.verify_attempt # 0 /\ Reached("VERIFY_QUEUED")
    /\ row.status \in {"GENERATING_TESTS", "TEST_QUEUED", "TESTING"} \union Verdicts =>
          Reached("GENERATING_TESTS")
    /\ row.status \in {"TEST_QUEUED", "TESTING"} \union Verdicts => Reached("TEST_QUEUED")
    /\ row.status \in {"TESTING"} \union Verdicts => Reached("TESTING")
    /\ row.status \in Verdicts => Reached(row.status)

HInv ==
    /\ IInv
    /\ CallbacksFit
    /\ ReleasesArePast
    /\ NameFits
    /\ OutboxFits
    /\ OneOutcomePerAttempt
    /\ EndsAreAnnounced
    /\ StagesReached

LEMMA InitHInv == Init => HInv
<1> SUFFICES ASSUME Init PROVE HInv
  OBVIOUS
<1>1. IInv
  BY InitInv
<1>2. CallbacksFit /\ ReleasesArePast /\ NameFits
  BY DEF Init, NewRow, CallbacksFit, ReleasesArePast, NameFits
<1>3. OutboxFits /\ OneOutcomePerAttempt /\ EndsAreAnnounced /\ StagesReached
  BY DEF Init, NewRow, OutboxFits, OneOutcomePerAttempt, EndsAreAnnounced, StagesReached, Verdicts
<1> QED
  BY <1>1, <1>2, <1>3 DEF HInv

\* What a handler may have begun with.
Began(k) ==
    /\ CallbackFits(k)
    /\ k.op = "release" =>
          row.status \in Terminal /\ row.k8s # NoPod /\ k.pod = row.k8s

LEMMA ContinueBegan ==
    ASSUME TypeOK, NEW h \in handlers, h.op \notin {"verify", "runner"},
           NEW op, op \notin {"runner", "release"}, Continue(h, op)
    PROVE  \A k \in handlers' : k \in handlers \/ Began(k)
<1>1. h \in Stopper \union Releaser
  BY DEF TypeOK, Handler, Verifier, Callback
<1>2. [h EXCEPT !.op = op].op = op
  BY <1>1 DEF Stopper, Releaser
<1> QED
  BY <1>2 DEF Continue, Began, CallbackFits

LEMMA HandlersBegan ==
    ASSUME IInv, [Next]_vars
    PROVE  \A k \in handlers' : k \in handlers \/ Began(k)
<1>1. TypeOK
  BY DEF IInv
<1>2. CASE \/ \E sha \in Shas : VerifyRead(sha)
           \/ CancelRead
           \/ ExpireScan
           \/ ReleaseScan
           \/ \E t \in dispatch : TaskStep(t)
           \/ UNCHANGED vars
  BY <1>2 DEF VerifyRead, CancelRead, ExpireScan, ReleaseScan, TaskStep, Launch, LaunchFails,
     SetLatestK8sJob, DispatchErrorRead, LoseTask, Begin, Holding, Began, CallbackFits, vars
<1>3. CASE RunnerSends
  BY <1>3 DEF RunnerSends, RunnerRead, RunnerEvent, CallbackIsCurrent, Begin, Began, CallbackFits
<1>4. CASE \E h \in handlers : HandlerStep(h)
  <2> SUFFICES ASSUME NEW h \in handlers, HandlerStep(h)
               PROVE  \A k \in handlers' : k \in handlers \/ Began(k)
    BY <1>4
  <2>1. CASE CancelDelete(h)
    BY <1>1, <2>1, ContinueBegan DEF CancelDelete
  <2>2. CASE ExpireDelete(h)
    BY <1>1, <2>2, ContinueBegan DEF ExpireDelete
  <2>3. CASE ReleaseDelete(h)
    BY <1>1, <2>3, ContinueBegan DEF ReleaseDelete
  <2>4. CASE ExpireRead(h)
    BY <2>4 DEF ExpireRead, Holding, Began, CallbackFits
  <2>5. CASE \/ VerifyFirst(h) \/ VerifySame(h) \/ VerifySupersede(h) \/ RunnerCommit(h)
             \/ CancelCommit(h) \/ ExpireCommit(h) \/ ReleaseClear(h)
             \/ DispatchErrorCommit(h) \/ Abandon(h)
    BY <2>5 DEF VerifyFirst, VerifySame, VerifySupersede, RunnerCommit, CancelCommit,
       ExpireCommit, ReleaseClear, DispatchErrorCommit, Abandon, Stop, End
  <2> QED
    BY <2>1, <2>2, <2>3, <2>4, <2>5 DEF HandlerStep
<1> QED
  BY <1>2, <1>3, <1>4 DEF Next, GatewayStep

LEMMA CallbacksStayFit ==
    ASSUME HInv, [Next]_vars PROVE CallbacksFit'
BY HandlersBegan DEF HInv, CallbacksFit, CallbackFits, Began

\* What recording an event about an attempt can do to its status.
LEMMA RecordedFacts ==
    ASSUME NEW e, Recorded(e)
    PROVE  /\ row.status \notin Terminal
           /\ row'.status # "PREPARE_QUEUED" /\ row'.status # "VERIFY_QUEUED"
           /\ row'.status = "PREPARING" => row.status = "PREPARE_QUEUED"
           /\ row'.status = "GENERATING_TESTS" => row.status = "VERIFY_QUEUED"
           /\ row'.status = "TEST_QUEUED" => row.status = "GENERATING_TESTS"
           /\ row'.status = "TESTING" => row.status = "TEST_QUEUED"
           /\ row'.status \in Verdicts => row.status = "TESTING"
BY DEF Recorded, IsTransitionAllowed, PrimaryTransitions, Terminal, Verdicts

\* What is past stays past.
LEMMA PastStays ==
    ASSUME IInv, Kinds, NEW pod \in Pods, Past(pod)
    PROVE  Past(pod)'
<1>1. row.verify_attempt \in Nat /\ pod.attempt \in Nat
  BY DEF IInv, TypeOK, Row, Pods
<1>2. CASE Quiet
  BY <1>2 DEF Quiet, Stays, Past
<1>3. CASE \E e : Recorded(e)
  <2>1. PICK e : Recorded(e)
    BY <1>3
  <2> QED
    BY <2>1, RecordedFacts DEF Recorded, Past
<1>4. CASE (\E v : First(v)) \/ (\E s, v : Replaced(s, v))
  <2>1. row'.status = "VERIFY_QUEUED" /\ row'.verify_attempt = row.verify_attempt + 1
    BY <1>4 DEF First, Replaced, Queued
  <2> QED
    BY <1>1, <2>1 DEF Past
<1> QED
  BY <1>2, <1>3, <1>4 DEF Kinds

\* The Kubernetes Job of a job that has ended is past.
LEMMA NamedIsPast ==
    ASSUME IInv, NameFits, row.k8s # NoPod, row.status \in Terminal
    PROVE  Past(row.k8s)
<1>1. row.k8s \in Pods /\ row.verify_attempt \in Nat
  BY DEF IInv, TypeOK, Row
<1>2. row.k8s.attempt \in Nat
  BY <1>1 DEF Pods
<1> QED
  BY <1>1, <1>2 DEF NameFits, Past, Terminal

LEMMA ReleasesStayPast ==
    ASSUME HInv, [Next]_vars, Kinds PROVE ReleasesArePast'
<1> SUFFICES ASSUME NEW k \in handlers', k.op = "release" PROVE Past(k.pod)'
  BY DEF ReleasesArePast
<1>1. Past(k.pod)
  BY HandlersBegan, NamedIsPast DEF HInv, Began, ReleasesArePast
<1>2. k.pod \in Pods
  <2>1. k \in handlers => k \in Releaser
    BY DEF HInv, IInv, TypeOK, Handler, Verifier, Callback, Stopper, Ops
  <2>2. row.k8s \in Pods \union {NoPod}
    BY DEF HInv, IInv, TypeOK, Row
  <2> QED
    BY <2>1, <2>2, HandlersBegan DEF HInv, Began, Releaser
<1> QED
  BY <1>1, <1>2, PastStays DEF HInv

\* The attempt of a job that is on no commit is none.
LEMMA NoCodeNoAttempt ==
    ASSUME IInv, row.code_sha = NoSha PROVE row.verify_attempt = 0
<1>1. attempts \in Seq(Shas)
  BY DEF IInv, TypeOK
<1>2. attempts = <<>>
  BY <1>1, ShaFacts DEF IInv, RowInv, AttemptsMatchRow
<1> QED
  BY <1>2 DEF IInv, RowInv, AttemptsMatchRow

LEMMA NameStaysFit ==
    ASSUME HInv, Kinds PROVE NameFits'
<1>1. /\ row.verify_attempt \in Nat
      /\ row.k8s \in Pods \union {NoPod} /\ \A p \in Pods : p.attempt \in Nat
  BY DEF HInv, IInv, TypeOK, Row, Pods
<1>2. CASE Quiet
  <2>1. CASE row'.k8s \in {row.k8s, NoPod}
    BY <1>2, <2>1 DEF Quiet, Stays, HInv, NameFits
  <2>2. CASE LaunchIsCurrent(row'.k8s) /\ row'.k8s \in Pods
             /\ PodFits(row'.k8s.phase, row'.k8s.attempt, row'.k8s.sha)
    <3> DEFINE p == row'.k8s
    <3>1. p.phase \in {"PREPARE", "GENERATE", "TEST"}
      BY <2>2 DEF Pods
    <3> QED
      BY <1>1, <1>2, <2>2, <3>1 DEF Quiet, Stays, LaunchIsCurrent, PhaseStatuses, NameFits
  <2> QED
    BY <1>2, <2>1, <2>2 DEF Quiet, Named
<1>3. CASE \E e : Recorded(e)
  <2>1. PICK e : Recorded(e)
    BY <1>3
  <2>2. /\ row'.verify_attempt = row.verify_attempt /\ row'.code_sha = row.code_sha
        /\ row'.k8s \in {row.k8s, NoPod}
        /\ row'.status \in {"VERIFY_QUEUED", "GENERATING_TESTS"} => row.status = "VERIFY_QUEUED"
    BY <2>1, RecordedFacts DEF Recorded
  <2> HIDE <2>1
  <2> QED
    BY <2>2 DEF HInv, NameFits
<1>4. CASE (\E v : First(v)) \/ (\E s, v : Replaced(s, v))
  <2>1. row'.k8s = row.k8s /\ row'.verify_attempt = row.verify_attempt + 1
    BY <1>4 DEF First, Replaced, Queued
  <2> QED
    BY <1>1, <2>1 DEF HInv, NameFits
<1> QED
  BY <1>2, <1>3, <1>4 DEF Kinds

\* What a step adds to the outbox.
LEMMA OutcomeFacts ==
    ASSUME NEW attempt, NEW status, NEW m \in Outcome(attempt, status)
    PROVE  m = [attempt |-> attempt, status |-> status, sha |-> NoSha] /\ status \in Terminal
BY DEF Outcome

LEMMA EndHasOutcome ==
    ASSUME NEW attempt, NEW status \in Terminal
    PROVE  \E m \in Outcome(attempt, status) : m.attempt = attempt /\ m.status = status
<1> DEFINE m == [attempt |-> attempt, status |-> status, sha |-> NoSha]
<1>1. m \in Outcome(attempt, status)
  BY DEF Outcome
<1> QED
  BY <1>1

LEMMA OutboxStaysFit ==
    ASSUME HInv, Kinds PROVE OutboxFits' /\ OneOutcomePerAttempt'
<1>1. /\ row.verify_attempt \in Nat /\ CurrentAttempt(row) \in Nat
      /\ \A m \in outbox : m.attempt \in Nat
  BY DEF HInv, IInv, TypeOK, Row, Notice, CurrentAttempt, PrepareAttempt
<1>2. OutboxFits /\ OneOutcomePerAttempt
  BY DEF HInv
<1>3. CASE Quiet
  <2>1. /\ outbox' = outbox /\ row'.verify_attempt = row.verify_attempt
        /\ row'.status = row.status
    BY <1>3 DEF Quiet, Stays
  <2> QED
    BY <1>2, <2>1 DEF OutboxFits, OneOutcomePerAttempt, CurrentAttempt
<1>4. CASE \E e : Recorded(e)
  <2>1. PICK e : Recorded(e)
    BY <1>4
  <2>2. row.status \notin Terminal /\ row'.status = e.to /\ e.to # "SUPERSEDED"
    BY <2>1, RecordedFacts DEF Recorded
  <2>3. CurrentAttempt(row)' = CurrentAttempt(row) /\ row'.verify_attempt = row.verify_attempt
    BY <2>1 DEF Recorded, CurrentAttempt
  <2>4. CASE outbox' = outbox
    BY <1>2, <2>2, <2>3, <2>4 DEF OutboxFits, OneOutcomePerAttempt
  <2>5. CASE outbox' = outbox \union Outcome(e.attempt, e.to) /\ e.attempt = CurrentAttempt(row)
    <3>1. \A m \in outbox' : m \in outbox \/
             /\ m = [attempt |-> CurrentAttempt(row), status |-> e.to, sha |-> NoSha]
             /\ row'.status \in Terminal
      BY <2>2, <2>5, OutcomeFacts
    <3>2. \A m \in outbox : m.status # "SUPERSEDED" => m.attempt # CurrentAttempt(row)
      BY <1>2, <2>2 DEF OutboxFits
    <3>3. OutboxFits'
      BY <1>1, <1>2, <2>2, <2>3, <3>1, <3>2 DEF OutboxFits
    <3>4. OneOutcomePerAttempt'
      BY <1>2, <2>2, <3>1, <3>2 DEF OneOutcomePerAttempt
    <3> QED
      BY <3>3, <3>4
  <2> QED
    BY <2>1, <2>4, <2>5 DEF Recorded
<1>5. CASE \E v : First(v)
  <2>1. /\ outbox' = outbox /\ row.status = "WAITING_FOR_CODE"
        /\ row'.verify_attempt = row.verify_attempt + 1
    BY <1>5 DEF First, Queued
  <2>2. \A m \in outbox : m.status # "SUPERSEDED" => m.attempt < CurrentAttempt(row)
    BY <1>1, <1>2, <2>1 DEF OutboxFits, Terminal
  <2>3. CurrentAttempt(row)' \in Nat /\ CurrentAttempt(row)' >= CurrentAttempt(row)
    BY <1>1, <2>1 DEF CurrentAttempt, PrepareAttempt
  <2> QED
    BY <1>1, <1>2, <2>1, <2>2, <2>3 DEF OutboxFits, OneOutcomePerAttempt
<1>6. CASE \E s, v : Replaced(s, v)
  <2>1. PICK s, v : Replaced(s, v)
    BY <1>6
  <2> DEFINE new == [attempt |-> row.verify_attempt, status |-> "SUPERSEDED", sha |-> s.sha]
  <2>2. /\ outbox' = outbox \union {new} /\ row.verify_attempt > 0
        /\ row'.verify_attempt = row.verify_attempt + 1
    BY <2>1 DEF Replaced, Queued
  <2>3. /\ new.attempt = row.verify_attempt /\ new.status = "SUPERSEDED"
    OBVIOUS
  <2>4. CurrentAttempt(row)' = row.verify_attempt + 1 /\ CurrentAttempt(row) = row.verify_attempt
    BY <1>1, <2>2 DEF CurrentAttempt
  <2> HIDE DEF new
  <2>5. OutboxFits'
    BY <1>1, <1>2, <2>2, <2>3, <2>4 DEF OutboxFits
  <2>6. OneOutcomePerAttempt'
    BY <1>1, <1>2, <2>2, <2>3 DEF OutboxFits, OneOutcomePerAttempt
  <2> QED
    BY <2>5, <2>6
<1> QED
  BY <1>3, <1>4, <1>5, <1>6 DEF Kinds

\* An event that is added to the log is the last of it.
LEMMA Appended ==
    ASSUME NEW log \in Seq(Event), NEW e \in Event
    PROVE  /\ Append(log, e) \in Seq(Event)
           /\ DOMAIN Append(log, e) = DOMAIN log \union {Len(log) + 1}
           /\ Append(log, e)[Len(log) + 1] = e
           /\ \A i \in DOMAIN log : Append(log, e)[i] = log[i]
OBVIOUS

LEMMA EndsStayAnnounced ==
    ASSUME HInv, Kinds PROVE EndsAreAnnounced'
<1>1. events \in Seq(Event) /\ EndsAreAnnounced
  BY DEF HInv, IInv, TypeOK
<1>2. CASE Quiet
  BY <1>1, <1>2 DEF Quiet, EndsAreAnnounced
<1>3. CASE \E e : Recorded(e)
  <2>1. PICK e : Recorded(e)
    BY <1>3
  <2>2. e \in Event /\ events' = Append(events, e) /\ outbox \subseteq outbox'
    BY <2>1 DEF Recorded
  <2>3. e.to \in Terminal /\ e.src # "dispatch" =>
            \E m \in outbox' : m.attempt = e.attempt /\ m.status = e.to
    BY <2>1, EndHasOutcome DEF Recorded
  <2> HIDE <2>1
  <2> QED
    BY <1>1, <2>2, <2>3, Appended DEF EndsAreAnnounced
<1>4. CASE \E v : First(v)
  <2>1. PICK v \in Event : events' = Append(events, v) /\ outbox' = outbox /\ v.to = "VERIFY_QUEUED"
    BY <1>4 DEF First, Queued
  <2> QED
    BY <1>1, <2>1, Appended DEF EndsAreAnnounced, Terminal
<1>5. CASE \E s, v : Replaced(s, v)
  <2>1. PICK s \in Event, v \in Event : Replaced(s, v)
    BY <1>5 DEF Replaced, Queued
  <2> DEFINE new == [attempt |-> row.verify_attempt, status |-> "SUPERSEDED", sha |-> s.sha]
  <2>2. /\ events' = Append(Append(events, s), v)
        /\ v.to \notin Terminal
        /\ new \in outbox' /\ outbox \subseteq outbox'
        /\ new.attempt = s.attempt /\ new.status = s.to
    BY <2>1 DEF Replaced, Queued, Terminal
  <2> HIDE DEF new
  <2>3. \A i \in DOMAIN events' :
            \/ i \in DOMAIN events /\ events'[i] = events[i]
            \/ events'[i] = s
            \/ events'[i] = v
    BY <1>1, <2>2, Appended
  <2> QED
    BY <1>1, <2>2, <2>3 DEF EndsAreAnnounced
<1> QED
  BY <1>2, <1>3, <1>4, <1>5 DEF Kinds

LEMMA StagesStayReached ==
    ASSUME HInv, Kinds PROVE StagesReached'
<1>1. events \in Seq(Event) /\ row.verify_attempt \in Nat /\ StagesReached
  BY DEF HInv, IInv, TypeOK, Row
<1>2. CASE Quiet
  BY <1>1, <1>2 DEF Quiet, Stays, StagesReached, Reached
<1>3. CASE \E e : Recorded(e)
  <2>1. PICK e : Recorded(e)
    BY <1>3
  <2>2. /\ e \in Event /\ events' = Append(events, e)
        /\ row'.verify_attempt = row.verify_attempt /\ row'.code_sha = row.code_sha
        /\ row'.status = e.to
    BY <2>1 DEF Recorded
  <2>3. \A s : Reached(s) => Reached(s)'
    BY <1>1, <2>2, Appended DEF Reached
  <2>4. row'.status \in {"GENERATING_TESTS", "TEST_QUEUED", "TESTING"} \union Verdicts
            /\ row.verify_attempt # 0 => Reached(e.to)'
    <3> SUFFICES ASSUME row'.status \in {"GENERATING_TESTS", "TEST_QUEUED", "TESTING"} \union Verdicts,
                        row.verify_attempt # 0
                 PROVE  Reached(e.to)'
      OBVIOUS
    <3>1. e.attempt = row.verify_attempt /\ e.sha = row.code_sha
      <4>1. e.src = "runner"
        BY <2>1 DEF Recorded, Verdicts
      <4> QED
        BY <2>1, <4>1 DEF Recorded, CurrentAttempt
    <3>2. Len(events) + 1 \in DOMAIN events' /\ events'[Len(events) + 1] = e
      BY <1>1, <2>2, Appended
    <3> QED
      BY <2>2, <3>1, <3>2 DEF Reached
  <2>5. /\ row'.status # "VERIFY_QUEUED"
        /\ row'.status = "GENERATING_TESTS" => row.status = "VERIFY_QUEUED"
        /\ row'.status = "TEST_QUEUED" => row.status = "GENERATING_TESTS"
        /\ row'.status = "TESTING" => row.status = "TEST_QUEUED"
        /\ row'.status \in Verdicts => row.status = "TESTING"
    BY <2>1, RecordedFacts
  <2> HIDE <2>1
  <2> QED
    BY <1>1, <2>2, <2>3, <2>4, <2>5 DEF StagesReached, Verdicts
<1>4. CASE (\E v : First(v)) \/ (\E s, v : Replaced(s, v))
  <2>1. PICK v \in Event : Queued(v) /\ \E log \in Seq(Event) : events' = Append(log, v)
    BY <1>1, <1>4, Appended DEF First, Replaced, Queued
  <2>2. Reached("VERIFY_QUEUED")'
    BY <2>1, Appended DEF Queued, Reached
  <2>3. row'.verify_attempt # 0 /\ row'.status = "VERIFY_QUEUED"
    BY <1>1, <2>1 DEF Queued
  <2> QED
    BY <2>2, <2>3 DEF StagesReached, Verdicts
<1> QED
  BY <1>2, <1>3, <1>4 DEF Kinds

LEMMA NextHInv == HInv /\ [Next]_vars => HInv'
<1> SUFFICES ASSUME HInv, [Next]_vars PROVE HInv'
  OBVIOUS
<1>1. IInv'
  BY NextInv DEF HInv
<1>2. Kinds
  BY StepKinds DEF HInv
<1> QED
  BY <1>1, <1>2, CallbacksStayFit, ReleasesStayPast, NameStaysFit, OutboxStaysFit,
     EndsStayAnnounced, StagesStayReached DEF HInv

LEMMA HInductive == Spec => []HInv
BY InitHInv, NextHInv, PTL DEF Spec

-----------------------------------------------------------------------------
(* The theorems. *)

\* For any number of commits and callbacks, a verdict was reached by every stage
\* of the attempt and the commit it is of.
THEOREM VerdictsAreEarned == Spec => []VerdictIsEarned
<1>1. HInv => VerdictIsEarned
  BY DEF HInv, StagesReached, Reached, Verdicts, VerdictIsEarned
<1> QED
  BY <1>1, HInductive, PTL

\* Whoever raced to end it, an attempt has at most one outcome among its notices.
\* Besides it there may be one that it was superseded, also when it had ended before:
\* VerifySupersede announces that of every attempt it replaces.
THEOREM OneOutcomeIsAnnounced == Spec => []OneOutcomePerAttempt
<1>1. HInv => OneOutcomePerAttempt
  BY DEF HInv
<1> QED
  BY <1>1, HInductive, PTL

\* Clients hear of every end but a failed launch's.
THEOREM EveryEndIsAnnounced == Spec => []EndsAreAnnounced
<1>1. HInv => EndsAreAnnounced
  BY DEF HInv
<1> QED
  BY <1>1, HInductive, PTL

\* No release sweep, however old its list, deletes a Kubernetes Job that the job
\* depends on.
THEOREM ReleaseNeverHitsLiveAttempt == Spec => []ReleaseSparesLiveAttempt
<1>1. HInv => ReleaseSparesLiveAttempt
  <2> SUFFICES ASSUME HInv, NEW h \in handlers, h.op = "release" PROVE ~LaunchIsCurrent(h.pod)
    BY DEF ReleaseSparesLiveAttempt
  <2>1. Past(h.pod) /\ h.pod \in Pods
    BY DEF HInv, ReleasesArePast, IInv, TypeOK, Handler, Verifier, Callback, Stopper, Releaser, Ops
  <2>2. row.verify_attempt \in Nat /\ h.pod.attempt \in Nat
    BY <2>1 DEF HInv, IInv, TypeOK, Row, Pods
  <2>3. h.pod.phase \in {"PREPARE", "GENERATE", "TEST"}
    BY <2>1 DEF Pods
  <2> QED
    BY <2>1, <2>2, <2>3 DEF Past, LaunchIsCurrent, PhaseStatuses, Terminal
<1> QED
  BY <1>1, HInductive, PTL

\* No callback of a superseded attempt is ever recorded, however late it comes.
THEOREM StaleRunnersStayIgnored == Spec => StaleRunnersIgnored
<1> DEFINE Ignored ==
        \A i \in DOMAIN events' \ DOMAIN events :
            events'[i].src = "runner" =>
                /\ events'[i].attempt = CurrentAttempt(row)
                /\ events'[i].sha = row.code_sha
<1>1. HInv /\ [Next]_vars => [Ignored]_vars
  <2> SUFFICES ASSUME HInv, [Next]_vars PROVE Ignored
    OBVIOUS
  <2>1. Kinds /\ events \in Seq(Event)
    BY StepKinds DEF HInv, IInv, TypeOK
  <2>2. CASE Quiet
    BY <2>2 DEF Quiet
  <2>3. CASE \E e : Recorded(e)
    BY <2>1, <2>3, Appended DEF Recorded
  <2>4. CASE \E v : First(v)
    BY <2>1, <2>4, Appended DEF First, Queued
  <2>5. CASE \E s, v : Replaced(s, v)
    <3>1. PICK s \in Event, v \in Event :
              /\ events' = Append(Append(events, s), v)
              /\ s.src = "supersede" /\ v.src = "verify"
      BY <2>5 DEF Replaced, Queued
    <3>2. \A i \in DOMAIN events' \ DOMAIN events : events'[i] \in {s, v}
      BY <2>1, <3>1, Appended
    <3> QED
      BY <3>1, <3>2
  <2> QED
    BY <2>1, <2>2, <2>3, <2>4, <2>5 DEF Kinds
<1> QED
  BY <1>1, HInductive, PTL DEF Spec, StaleRunnersIgnored

\* The name of a Kubernetes Job only ever gives way to that of a later one.
THEOREM NamesAlwaysAdvance == Spec => NamesOnlyAdvance
<1> DEFINE Advanced ==
        row'.k8s # NoPod /\ row'.k8s # row.k8s =>
            row.k8s = NoPod \/ Order(row'.k8s) > Order(row.k8s)
<1>1. HInv /\ [Next]_vars => [Advanced]_vars
  <2> SUFFICES ASSUME HInv, [Next]_vars, row'.k8s # NoPod, row'.k8s # row.k8s, row.k8s # NoPod
               PROVE  Order(row'.k8s) > Order(row.k8s)
    OBVIOUS
  <2> DEFINE p == row.k8s
             q == row'.k8s
  <2>1. Kinds
    BY StepKinds DEF HInv
  <2>2. q \in Pods /\ LaunchIsCurrent(q) /\ PodFits(q.phase, q.attempt, q.sha)
    BY <2>1 DEF Kinds, Quiet, Named, Recorded, First, Replaced, Queued
  <2>3. p \in Pods /\ row.verify_attempt \in Nat
    BY DEF HInv, IInv, TypeOK, Row
  <2>4. /\ p.attempt \in Nat /\ q.attempt \in Nat
        /\ p.phase \in {"PREPARE", "GENERATE", "TEST"}
        /\ q.phase \in {"PREPARE", "GENERATE", "TEST"}
        /\ p = q <=> p.phase = q.phase /\ p.attempt = q.attempt /\ p.sha = q.sha
    BY <2>2, <2>3 DEF Pods
  <2>5. /\ PodFits(p.phase, p.attempt, p.sha)
        /\ p.phase = "PREPARE" => p.attempt = PrepareAttempt
        /\ p.phase # "PREPARE" => p.attempt <= row.verify_attempt
        /\ p.phase # "PREPARE" /\ p.attempt = row.verify_attempt =>
              /\ p.sha = row.code_sha
              /\ p.phase = "TEST" => row.status \notin {"VERIFY_QUEUED", "GENERATING_TESTS"}
    BY DEF HInv, NameFits
  <2>6. q.phase = "PREPARE" => row.verify_attempt = 0 /\ q.attempt = PrepareAttempt
    <3> SUFFICES ASSUME q.phase = "PREPARE" PROVE row.verify_attempt = 0 /\ q.attempt = PrepareAttempt
      OBVIOUS
    <3>1. row.status \in {"PREPARE_QUEUED", "PREPARING"} /\ q.attempt = PrepareAttempt
      BY <2>2 DEF LaunchIsCurrent, PhaseStatuses
    <3> QED
      BY <3>1, NoCodeNoAttempt DEF HInv, IInv, RowInv, PreparingHasNoCode
  <2>7. q.phase # "PREPARE" =>
            /\ q.attempt = row.verify_attempt /\ q.sha = row.code_sha
            /\ q.phase = "GENERATE" => row.status \in {"VERIFY_QUEUED", "GENERATING_TESTS"}
    BY <2>2, <2>4 DEF LaunchIsCurrent, PhaseStatuses
  <2> HIDE DEF p, q
  <2>8. p # q
    BY DEF p, q
  <2>9. CASE q.phase = "PREPARE"
    BY <2>2, <2>4, <2>5, <2>6, <2>8, <2>9 DEF PodFits
  <2>10. CASE q.phase # "PREPARE" /\ p.phase = "PREPARE"
    BY <2>2, <2>4, <2>10 DEF PodFits, Order, p, q
  <2>11. CASE q.phase # "PREPARE" /\ p.phase # "PREPARE"
    <3>1. p.attempt < q.attempt \/ (p.attempt = q.attempt /\ p.phase = "GENERATE" /\ q.phase = "TEST")
      BY <2>3, <2>4, <2>5, <2>7, <2>8, <2>11
    <3>2. Order(q) > Order(p)
      BY <2>4, <2>11, <3>1 DEF Order
    <3> QED
      BY <3>2 DEF p, q
  <2> QED
    BY <2>9, <2>10, <2>11
<1> QED
  BY <1>1, HInductive, PTL DEF Spec, NamesOnlyAdvance
=============================================================================
