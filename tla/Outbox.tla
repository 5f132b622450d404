------------------------------- MODULE Outbox -------------------------------
(***************************************************************************)
(* The delivery of one completion notice: NotificationDispatcher of        *)
(* services/notification_service.py over a row of ai_test_notifications.   *)
(* Notices share no row, so one stands for all.                            *)
(*                                                                         *)
(* Both gateway replicas and the reconciler deliver, each from a pool of   *)
(* threads of its own, and nothing keeps two threads off the same notice:  *)
(* _deliver reads the row, sends, and commits what it makes of the row it  *)
(* read.  SQLAlchemy writes only the columns that differ from that read.   *)
(***************************************************************************)
EXTENDS Naturals

CONSTANTS
    Deliverers,     \* the threads of all pools
    MaxAttempts,    \* max_attempts
    MaxSubmitted    \* bound on the submissions waiting for a thread

ASSUME MaxAttemptsAssumption == MaxAttempts \in Nat \ {0}
ASSUME MaxSubmittedAssumption == MaxSubmitted \in Nat \ {0}

VARIABLES
    notice,     \* the row; next tells next_attempt_at: NULL, in the future, or past
    submitted,  \* how many times the notice is queued on a pool
    workers,    \* what each thread is doing, and the attempts it read
    acked,      \* the sink has accepted the notice, and the sender knows it
    failures    \* sends that failed, counted up to MaxAttempts

vars == <<notice, submitted, workers, acked, failures>>

Notices == [status : {"PENDING", "DELIVERED", "DEAD"}, attempts : 0..MaxAttempts,
            next : {"none", "later", "due"}]

Workers == [at : {"idle", "sending", "accepted", "failed", "sleeping"},
            attempts : 0..MaxAttempts]

Idle == [at |-> "idle", attempts |-> 0]

\* The notice was committed, and submitted to the pool after the commit.
Init ==
    /\ notice = [status |-> "PENDING", attempts |-> 0, next |-> "none"]
    /\ submitted = 1
    /\ workers = [d \in Deliverers |-> Idle]
    /\ acked = FALSE
    /\ failures = 0

-----------------------------------------------------------------------------
\* A sweep that forgets the notices whose retry has become due.
ScanNeverTried ==
    /\ notice.status = "PENDING"
    /\ notice.next = "none"
    /\ submitted < MaxSubmitted
    /\ submitted' = submitted + 1
    /\ UNCHANGED <<notice, workers, acked, failures>>

\* reconcile_pending: at a gateway's start and in every run of the reconciler.  It
\* takes the 100 oldest notices that are due; one notice is followed here, as if it
\* were always among them.
Scan ==
    /\ notice.status = "PENDING"
    /\ notice.next # "later"
    /\ submitted < MaxSubmitted
    /\ submitted' = submitted + 1
    /\ UNCHANGED <<notice, workers, acked, failures>>

\* The top of _deliver's loop: a notice that is settled is left alone.
ReadRow(d) ==
    workers' = [workers EXCEPT ![d] =
        IF notice.status = "PENDING" THEN [at |-> "sending", attempts |-> notice.attempts]
                                     ELSE Idle]

PickUp(d) ==
    /\ workers[d].at = "idle"
    /\ submitted > 0
    /\ submitted' = submitted - 1
    /\ ReadRow(d)
    /\ UNCHANGED <<notice, acked, failures>>

Wake(d) ==
    /\ workers[d].at = "sleeping"
    /\ ReadRow(d)
    /\ UNCHANGED <<notice, submitted, acked, failures>>

\* A sender that takes any answer of the sink for an acceptance.
SendAnyAnswer(d) ==
    /\ workers[d].at = "sending"
    /\ \/ /\ workers' = [workers EXCEPT ![d].at = "accepted"]
          /\ acked' \in BOOLEAN
          /\ UNCHANGED failures
       \/ /\ workers' = [workers EXCEPT ![d].at = "failed"]
          /\ failures' = IF failures < MaxAttempts THEN failures + 1 ELSE failures
          /\ UNCHANGED acked
    /\ UNCHANGED <<notice, submitted>>

\* The sink accepts; or it rejects, fails, or its answer is lost.
Send(d) ==
    /\ workers[d].at = "sending"
    /\ \/ /\ workers' = [workers EXCEPT ![d].at = "accepted"]
          /\ acked' = TRUE
          /\ UNCHANGED failures
       \/ /\ workers' = [workers EXCEPT ![d].at = "failed"]
          /\ failures' = IF failures < MaxAttempts THEN failures + 1 ELSE failures
          /\ UNCHANGED acked
    /\ UNCHANGED <<notice, submitted>>

RecordDelivered(d) ==
    /\ workers[d].at = "accepted"
    /\ notice' = [status |-> "DELIVERED", attempts |-> workers[d].attempts + 1, next |-> "none"]
    /\ workers' = [workers EXCEPT ![d] = Idle]
    /\ UNCHANGED <<submitted, acked, failures>>

\* An off-by-one in the number of attempts.
DeadEarly(attempts) == attempts + 2 >= MaxAttempts

Dead(attempts) == attempts + 1 >= MaxAttempts

\* A failure that writes every column, as a plain UPDATE of the row would.
FailedWholeRow(attempts) ==
    [status |-> IF Dead(attempts) THEN "DEAD" ELSE "PENDING",
     attempts |-> attempts + 1, next |-> IF Dead(attempts) THEN "none" ELSE "later"]

\* The row was PENDING when it was read: unless it is dead its status is not
\* written, so a status another thread has written meanwhile stays.
Failed(attempts) ==
    [status |-> IF Dead(attempts) THEN "DEAD" ELSE notice.status,
     attempts |-> attempts + 1, next |-> IF Dead(attempts) THEN "none" ELSE "later"]

RecordFailure(d) ==
    LET read == workers[d].attempts IN
    /\ workers[d].at = "failed"
    /\ notice' = Failed(read)
    /\ workers' = [workers EXCEPT ![d] = IF Dead(read) THEN Idle ELSE [at |-> "sleeping", attempts |-> 0]]
    /\ UNCHANGED <<submitted, acked, failures>>

\* next_attempt_at passes.
BecomesDue ==
    /\ notice.next = "later"
    /\ notice' = [notice EXCEPT !.next = "due"]
    /\ UNCHANGED <<submitted, workers, acked, failures>>

\* The process dies, or the thread dies of an error of the database.
Crash(d) ==
    /\ workers[d].at # "idle"
    /\ workers' = [workers EXCEPT ![d] = Idle]
    /\ UNCHANGED <<notice, submitted, acked, failures>>

\* The process dies with the submission still queued.
Forget ==
    /\ submitted > 0
    /\ submitted' = submitted - 1
    /\ UNCHANGED <<notice, workers, acked, failures>>

Deliver(d) == PickUp(d) \/ Wake(d) \/ Send(d) \/ RecordDelivered(d) \/ RecordFailure(d)

Next ==
    \/ Scan
    \/ BecomesDue
    \/ Forget
    \/ \E d \in Deliverers : Deliver(d) \/ Crash(d)

Spec == Init /\ [][Next]_vars

\* The reconciler sweeps every five minutes and time passes; processes may die
\* again and again, but not each time before a thread has got anything done.
Fairness ==
    /\ SF_vars(Scan)
    /\ WF_vars(BecomesDue)
    /\ \A d \in Deliverers :
          /\ SF_vars(PickUp(d) \/ Wake(d))
          /\ SF_vars(Send(d))
          /\ SF_vars(RecordDelivered(d) \/ RecordFailure(d))

FairSpec == Spec /\ Fairness

-----------------------------------------------------------------------------
\* Type correctness; attempts never exceeds max_attempts, whatever the threads
\* write over each other.
TypeOK ==
    /\ notice \in Notices
    /\ submitted \in 0..MaxSubmitted
    /\ workers \in [Deliverers -> Workers]
    /\ acked \in BOOLEAN
    /\ failures \in 0..MaxAttempts

\* A notice is given up only after max_attempts sends have failed, although the
\* threads overwrite each other's count of them.
DeadIsEarned == notice.status = "DEAD" => failures = MaxAttempts

\* A notice is marked delivered only when the sink has accepted it.
DeliveredIsTrue == notice.status = "DELIVERED" => acked

\* A settled notice is never retried: a slow thread that fails after another one
\* has settled the notice does not put it back to PENDING.
SettledStays == [][notice.status # "PENDING" => notice'.status # "PENDING"]_vars

\* Every notice is delivered or given up, through crashes and lost submissions.
EveryNoticeSettles == <>(notice.status # "PENDING")
=============================================================================
