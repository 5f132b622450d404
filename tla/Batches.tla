------------------------------- MODULE Batches -------------------------------
(***************************************************************************)
(* The reconciler among many jobs.  TestJobs follows one job through every *)
(* interleaving; here several compete for sweeps that each take the first  *)
(* Limit jobs of a query, oldest update first (limit = 100 in              *)
(* test_job_repository.py), while other jobs come and go, deletions of     *)
(* some Kubernetes Jobs always fail, and sweeps die half way.              *)
(*                                                                         *)
(* A job is taken as one of three: active, overdue (idle for longer than   *)
(* its phase allows) or ended.  A sweep's step for one job is one step here;   *)
(* TestJobs takes it apart.                                                *)
(***************************************************************************)
EXTENDS Naturals, Sequences, SequencesExt, FiniteSets

CONSTANTS
    Jobs,
    Stuck,          \* the jobs whose Kubernetes Job cannot be deleted
    Limit,          \* the jobs a sweep takes at most
    MaxDeaths       \* the sweeps in a row that may die

ASSUME BatchesAssumption ==
    /\ IsFiniteSet(Jobs)
    /\ Stuck \subseteq Jobs
    /\ Limit \in Nat
    /\ Cardinality(Stuck) < Limit
    /\ MaxDeaths \in Nat

VARIABLES
    order,      \* the jobs by updated_at
    status,
    named,      \* the jobs with a latest_k8s_job_name
    sweep,      \* what the reconciler is at, and the jobs of its list to come
    deaths      \* the sweeps that died since one was completed

vars == <<order, status, named, sweep, deaths>>

\* Every job, once.
Orders == Bijection(1..Cardinality(Jobs), Jobs)

Init ==
    /\ order \in Orders
    /\ status = [j \in Jobs |-> "active"]
    /\ named = {}
    /\ sweep = [at |-> "idle", todo |-> <<>>]
    /\ deaths = 0

\* The elements of a sequence that were chosen.
Selected(seq, chosen) ==
    LET upTo[n \in 0..Len(seq)] ==
            IF n = 0 THEN <<>>
            ELSE IF seq[n] \in chosen THEN Append(upTo[n - 1], seq[n])
            ELSE upTo[n - 1]
    IN  upTo[Len(seq)]

\* record_event stamps updated_at; clear_k8s_job and set_latest_k8s_job do not.
Stamped(job) == Append(Selected(order, Jobs \ {job}), job)

-----------------------------------------------------------------------------
(* The gateway *)

\* A callback, a verify request or a cancellation is recorded.
RecordEvent(job) ==
    /\ status[job] # "ended"
    /\ order' = Stamped(job)
    /\ \E next \in {"active", "ended"} : status' = [status EXCEPT ![job] = next]
    /\ UNCHANGED <<named, sweep, deaths>>

\* A new commit starts another attempt of an ended job.
Reopen(job) ==
    /\ status[job] = "ended"
    /\ order' = Stamped(job)
    /\ status' = [status EXCEPT ![job] = "active"]
    /\ UNCHANGED <<named, sweep, deaths>>

\* A name that is recorded as a change of the job.
SetLatestAndStamp(job) ==
    /\ status[job] # "ended"
    /\ named' = named \union {job}
    /\ order' = Stamped(job)
    /\ UNCHANGED <<status, sweep, deaths>>

\* A launch records the name; a sweep that listed the former one clears nothing.
SetLatestK8sJob(job) ==
    /\ status[job] # "ended"
    /\ named' = named \union {job}
    /\ sweep' = IF sweep.at = "release"
                THEN [sweep EXCEPT !.todo = Selected(@, Jobs \ {job})]
                ELSE sweep
    /\ UNCHANGED <<order, status, deaths>>

\* A job that is not heard of outlives its deadline.
Age(job) ==
    /\ status[job] = "active"
    /\ status' = [status EXCEPT ![job] = "overdue"]
    /\ UNCHANGED <<order, named, sweep, deaths>>

-----------------------------------------------------------------------------
(* The reconciler *)

InOrder(rows) == Selected(order, rows)

\* A limit that is one too low.
FirstFew(seq) == SubSeq(seq, 1, IF Len(seq) < Limit THEN Len(seq) ELSE Limit - 1)

FirstN(seq) == SubSeq(seq, 1, IF Len(seq) < Limit THEN Len(seq) ELSE Limit)

\* A query of the newest.
FirstOfNewest(rows) == FirstN(Reverse(InOrder(rows)))

\* ORDER BY updated_at LIMIT Limit
FirstOf(rows) == FirstN(InOrder(rows))

ListStaleActive == FirstOf({j \in Jobs : status[j] = "overdue"})

ListFinishedWithK8sJob == FirstOf({j \in named : status[j] = "ended"})

SweepBegins ==
    /\ sweep.at = "idle"
    /\ sweep' = [at |-> "expire", todo |-> ListStaleActive]
    /\ UNCHANGED <<order, status, named, deaths>>

\* The rest of _expire_one: the deletion may fail, the timeout is recorded.
Expire(job) ==
    /\ named' = named \ ({job} \ Stuck)
    /\ order' = Stamped(job)
    /\ status' = [status EXCEPT ![job] = "ended"]

\* A job that has ended since the list was read is left alone.
ExpireOne ==
    /\ sweep.at = "expire"
    /\ sweep.todo # <<>>
    /\ LET job == Head(sweep.todo)
       IN  IF status[job] = "ended" THEN UNCHANGED <<order, status, named>> ELSE Expire(job)
    /\ sweep' = [sweep EXCEPT !.todo = Tail(@)]
    /\ UNCHANGED deaths

ExpiryDone ==
    /\ sweep.at = "expire"
    /\ sweep.todo = <<>>
    /\ sweep' = [at |-> "release", todo |-> ListFinishedWithK8sJob]
    /\ UNCHANGED <<order, status, named, deaths>>

\* A sweep that stops at the first deletion that fails.
AfterReleaseStops(job) == IF job \in Stuck THEN <<>> ELSE Tail(sweep.todo)

\* The jobs to come, whether or not this one's deletion worked.
AfterRelease(job) == Tail(sweep.todo)

ReleaseOne ==
    /\ sweep.at = "release"
    /\ sweep.todo # <<>>
    /\ LET job == Head(sweep.todo)
       IN  /\ named' = named \ ({job} \ Stuck)
           /\ sweep' = [sweep EXCEPT !.todo = AfterRelease(job)]
    /\ UNCHANGED <<order, status, deaths>>

SweepEnds ==
    /\ sweep.at = "release"
    /\ sweep.todo = <<>>
    /\ sweep' = [at |-> "idle", todo |-> <<>>]
    /\ deaths' = 0
    /\ UNCHANGED <<order, status, named>>

\* The CronJob's Pod is killed, or the database refuses a statement.
SweepDies ==
    /\ sweep.at # "idle"
    /\ deaths < MaxDeaths
    /\ sweep' = [at |-> "idle", todo |-> <<>>]
    /\ deaths' = deaths + 1
    /\ UNCHANGED <<order, status, named>>

Reconcile == SweepBegins \/ ExpireOne \/ ExpiryDone \/ ReleaseOne \/ SweepEnds

Gateway == \E job \in Jobs : RecordEvent(job) \/ Reopen(job) \/ SetLatestK8sJob(job) \/ Age(job)

Next == Gateway \/ Reconcile \/ SweepDies

\* The CronJob starts a sweep every five minutes and none waits for another;
\* nothing is assumed of the gateway's clients.
FairSpec == Init /\ [][Next]_vars /\ WF_vars(Reconcile)

-----------------------------------------------------------------------------
(* Properties *)

\* Type correctness: every job is in the order once, and a list is of at most
\* Limit jobs.
TypeOK ==
    /\ order \in Orders
    /\ status \in [Jobs -> {"active", "overdue", "ended"}]
    /\ named \subseteq Jobs
    /\ sweep \in [at : {"idle", "expire", "release"}, todo : BoundedSeq(Jobs, Limit)]
    /\ deaths \in 0..MaxDeaths

Before(seq, i, j) == \E p, q \in DOMAIN seq : p < q /\ seq[p] = i /\ seq[q] = j

\* Nothing overtakes a job that is waiting to be ended: whoever comes before it
\* in the order of the lists did so already.
NoneOvertakesOverdue ==
    [][\A j \in Jobs : status[j] = "overdue" /\ status'[j] = "overdue" =>
          \A i \in Jobs : Before(order', i, j) => Before(order, i, j)]_vars

\* Every list of jobs to release gets on: it has all there are, or one at least that
\* can be deleted.
ReleaseListsGetOn ==
    [][ExpiryDone =>
          \/ \A j \in named : status[j] = "ended" => j \in ToSet(sweep'.todo)
          \/ ToSet(sweep'.todo) \ Stuck # {}]_vars

\* No job starves: however many jobs there are, however often other jobs come
\* before the sweep and whatever deletions fail, an overdue job is ended, unless it
\* is heard of first.
OverdueJobsEnd == \A job \in Jobs : status[job] = "overdue" ~> status[job] # "overdue"

\* Jobs that cannot be deleted, and keep their place at the head of every list, do
\* not keep the others from being deleted and forgotten.
FinishedJobsAreReleased ==
    \A job \in Jobs \ Stuck :
        (status[job] = "ended" /\ job \in named) ~> (status[job] # "ended" \/ job \notin named)
=============================================================================
