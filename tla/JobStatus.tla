------------------------------ MODULE JobStatus ------------------------------
(***************************************************************************)
(* The status machine of one test job, from                                *)
(* gateway/app/domain/test_jobs.py: which statuses there are, which end an *)
(* attempt, and which change of status the gateway will persist.           *)
(***************************************************************************)

Terminal ==
    {"PASSED", "FAILED", "BLOCKED", "ERROR", "TIMEOUT", "SUPERSEDED", "CANCELLED"}

Active ==
    {"PREPARE_QUEUED", "PREPARING", "WAITING_FOR_CODE", "VERIFY_QUEUED",
     "GENERATING_TESTS", "TEST_QUEUED", "TESTING"}

JobStatuses == Active \union Terminal

EventPhases == {"PREPARE", "VERIFY", "GENERATE", "TEST", "SYSTEM"}

\* PRIMARY_TRANSITIONS as a relation.
PrimaryTransitions ==
    {<<"PREPARE_QUEUED", "PREPARING">>,    <<"PREPARE_QUEUED", "ERROR">>,
     <<"PREPARING", "WAITING_FOR_CODE">>,  <<"PREPARING", "ERROR">>,
     <<"WAITING_FOR_CODE", "VERIFY_QUEUED">>,
     <<"VERIFY_QUEUED", "GENERATING_TESTS">>, <<"VERIFY_QUEUED", "ERROR">>,
     <<"GENERATING_TESTS", "TEST_QUEUED">>, <<"GENERATING_TESTS", "BLOCKED">>,
     <<"GENERATING_TESTS", "ERROR">>,
     <<"TEST_QUEUED", "TESTING">>, <<"TEST_QUEUED", "ERROR">>,
     <<"TESTING", "PASSED">>, <<"TESTING", "FAILED">>, <<"TESTING", "ERROR">>,
     <<"SUPERSEDED", "VERIFY_QUEUED">>}

\* A transition check that forgets that a finished job stays finished.
AnyCanEnd(from, to) ==
    /\ from # to
    /\ \/ to \in {"SUPERSEDED", "TIMEOUT", "CANCELLED"}
       \/ <<from, to>> \in PrimaryTransitions

IsTransitionAllowed(from, to) ==
    /\ from # to
    /\ \/ to = "SUPERSEDED"
       \/ from \notin Terminal /\ to \in {"TIMEOUT", "CANCELLED"}
       \/ <<from, to>> \in PrimaryTransitions

\* The statuses a runner of each phase puts in its callbacks.
Reports(phase) ==
    CASE phase = "PREPARE"  -> {"PREPARING", "WAITING_FOR_CODE", "ERROR"}
      [] phase = "GENERATE" -> {"GENERATING_TESTS", "TEST_QUEUED", "BLOCKED", "ERROR"}
      [] phase = "TEST"     -> {"TESTING", "PASSED", "FAILED", "TIMEOUT", "ERROR"}

FailureClasses ==
    {"TEST_FAILURE", "POLICY", "TIMEOUT", "INFRASTRUCTURE", "CANCELLED"}

NoFailure == "NONE"

FailureClass(status) ==
    CASE status = "FAILED"    -> "TEST_FAILURE"
      [] status = "BLOCKED"   -> "POLICY"
      [] status = "TIMEOUT"   -> "TIMEOUT"
      [] status = "ERROR"     -> "INFRASTRUCTURE"
      [] status = "CANCELLED" -> "CANCELLED"
      [] OTHER                -> NoFailure
=============================================================================
