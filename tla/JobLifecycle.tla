---------------------------- MODULE JobLifecycle ----------------------------
(***************************************************************************)
(* What a client polling GET /api/v1/test-jobs/{id} may rely on: the       *)
(* status moves along the transitions of domain/test_jobs.py only, a       *)
(* commit is taken up at most once and always as a new attempt, and an     *)
(* attempt that has ended stays ended.                                     *)
(*                                                                         *)
(* SUPERSEDED is never seen: the attempt that replaces the superseded one  *)
(* is queued in the same transaction.                                      *)
(***************************************************************************)
EXTENDS JobStatus, Naturals

CONSTANTS Commits, NoCommit

VARIABLES status, attempt, commit, tried

lifecycle == <<status, attempt, commit, tried>>

Init ==
    /\ status = "PREPARE_QUEUED"
    /\ attempt = 0
    /\ commit = NoCommit
    /\ tried = {}

Advance(to) ==
    /\ IsTransitionAllowed(status, to)
    /\ status' = to
    /\ UNCHANGED <<attempt, commit, tried>>

TakeUp(c) ==
    /\ c \notin tried
    /\ status' = "VERIFY_QUEUED"
    /\ attempt' = attempt + 1
    /\ commit' = c
    /\ tried' = tried \union {c}

Verify(c) ==
    /\ status = "WAITING_FOR_CODE"
    /\ TakeUp(c)

Supersede(c) ==
    /\ attempt > 0
    /\ TakeUp(c)

Next ==
    \/ \E to \in JobStatuses \ {"VERIFY_QUEUED", "SUPERSEDED"} : Advance(to)
    \/ \E c \in Commits : Verify(c) \/ Supersede(c)

Spec == Init /\ [][Next]_lifecycle
=============================================================================
