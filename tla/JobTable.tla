------------------------------ MODULE JobTable ------------------------------
(***************************************************************************)
(* What PostgreSQL holds for one test job, and the statements that write   *)
(* it: gateway/app/repositories/{models,test_job_repository,               *)
(* notification_repository}.py.  Jobs share no row, so one job stands for  *)
(* all of them.                                                            *)
(*                                                                         *)
(* A commit is the number of its position on the branch: 1 is older than   *)
(* 2.  NoSha is the NULL of a nullable SHA column.  A delivery ID is used  *)
(* for one commit only, so the commit stands for its delivery.             *)
(***************************************************************************)
EXTENDS JobStatus, Integers, Sequences, FiniteSets

CONSTANT MaxSha                     \* how many commits are pushed

ASSUME MaxShaAssumption == MaxSha \in Nat \ {0}

VARIABLES
    row,        \* the job's row in ai_test_jobs
    attempts,   \* ai_test_verify_attempts: attempt n verifies commit attempts[n]
    events,     \* ai_test_job_events, in the order they were committed
    outbox      \* ai_test_notifications: what was enqueued for delivery

-----------------------------------------------------------------------------
Shas == 1..MaxSha
NoSha == 0
ShaOrNull == Shas \union {NoSha}

\* prepare_attempt is written once, with the row, and never incremented.
PrepareAttempt == 1

\* A Kubernetes Job: phase and attempt make its name, and the commit it works
\* on is fixed in its environment when it is created.
Pods == [phase : {"PREPARE", "GENERATE", "TEST"}, attempt : Nat, sha : ShaOrNull]
NoPod == [phase |-> "NONE", attempt |-> 0, sha |-> NoSha]

Row == [status : JobStatuses, version : Nat, verify_attempt : Nat,
        code_sha : ShaOrNull, tested_sha : ShaOrNull,
        failure_class : FailureClasses \union {NoFailure},
        completed : BOOLEAN, k8s : Pods \union {NoPod}]

\* src and ref make the event ID.  A runner's ID is built from its phase,
\* attempt and status, so that a retried callback carries the same one; the
\* gateway's own are derived from the delivered commit ("verify",
\* "supersede") or from the version they apply to ("cancel", "timeout"; a
\* "dispatch" error's is random, and the version makes it unique here too).
Event == [src : {"runner", "verify", "supersede", "cancel", "timeout", "dispatch"},
          ref : Nat, phase : EventPhases, attempt : Nat,
          from : JobStatuses, to : JobStatuses, sha : ShaOrNull]

Notice == [attempt : Nat, status : Terminal, sha : ShaOrNull]

-----------------------------------------------------------------------------
(* record_event *)

SameId(e, f) ==
    /\ e.src = f.src
    /\ e.ref = f.ref
    /\ e.src = "runner" => <<e.phase, e.attempt, e.to>> = <<f.phase, f.attempt, f.to>>

Seen(e) == \E i \in DOMAIN events : SameId(events[i], e)

\* An update that forgets the version it was computed from.
CanRecordUnlocked(version, e) ==
    /\ ~Seen(e)
    /\ IsTransitionAllowed(e.from, e.to)

\* The event is new, the status it was decided on may change this way, and the
\* UPDATE ... WHERE version = expected_version finds its row.
CanRecord(version, e) ==
    /\ ~Seen(e)
    /\ IsTransitionAllowed(e.from, e.to)
    /\ row.version = version

\* An update that leaves a stale code_sha of a retried verification in place.
WrittenKeepsSha(r, e) ==
    [r EXCEPT !.status = e.to, !.version = @ + 1,
              !.tested_sha = IF e.phase = "TEST" THEN e.sha ELSE @,
              !.failure_class = IF FailureClass(e.to) = NoFailure THEN @ ELSE FailureClass(e.to),
              !.completed = @ \/ e.to \in Terminal]

\* The columns record_event writes; it leaves a column alone when the event
\* brings no value for it.
Written(r, e) ==
    [r EXCEPT !.status = e.to,
              !.version = @ + 1,
              !.code_sha = IF e.sha = NoSha THEN @ ELSE e.sha,
              !.tested_sha = IF e.phase = "TEST" THEN e.sha ELSE @,
              !.failure_class = IF FailureClass(e.to) = NoFailure THEN @ ELSE FailureClass(e.to),
              !.completed = @ \/ e.to \in Terminal]

\* A re-verification that keeps the result of the attempt it replaces.
KeptResult(r) == r

\* clear_result
ClearedResult(r) ==
    [r EXCEPT !.tested_sha = NoSha, !.failure_class = NoFailure, !.completed = FALSE]

-----------------------------------------------------------------------------
(* claim_verify_attempt: under the row lock, one attempt per commit. *)

Claimed(sha) == \E n \in DOMAIN attempts : attempts[n] = sha

-----------------------------------------------------------------------------
(* set_latest_k8s_job: the name is recorded only while the launch is current. *)

PhaseStatuses(phase) ==
    CASE phase = "PREPARE"  -> {"PREPARE_QUEUED", "PREPARING"}
      [] phase = "GENERATE" -> {"VERIFY_QUEUED", "GENERATING_TESTS"}
      [] phase = "TEST"     -> {"TEST_QUEUED", "TESTING"}

\* A launch that checks its phase only, not its attempt.
PhaseIsCurrent(pod) == row.status \in PhaseStatuses(pod.phase)

LaunchIsCurrent(pod) ==
    /\ row.status \in PhaseStatuses(pod.phase)
    /\ IF pod.phase = "PREPARE"
         THEN pod.attempt = PrepareAttempt
         ELSE row.verify_attempt = pod.attempt /\ row.code_sha = pod.sha
=============================================================================
