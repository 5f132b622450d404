---------------------------- MODULE PrepareIntake ----------------------------
(***************************************************************************)
(* JobService.prepare() as the threads of several gateway replicas run it  *)
(* at once: create_or_get_prepare, claim_idempotency_key, the plan's file, *)
(* the commit, and the launch that is submitted after it.  That a prepare  *)
(* failed later is in the job's row, and no request for its task asks.     *)
(*                                                                         *)
(* A task is what identifies a job: task ID, base commit and plan digest.  *)
(* The idempotency key is built from the same three, so a task is its own  *)
(* key; the plan fixes repository and branch, so of the routing data only  *)
(* the callback can differ.  A job is named by the request that made it.   *)
(* The database reads what is committed; an insert waits for a transaction *)
(* that has inserted the same key and not ended yet.                       *)
(***************************************************************************)
EXTENDS Naturals, FiniteSets

CONSTANTS
    Requests,       \* the requests ever made, retries included
    Tasks,
    Callbacks,
    None

ASSUME NoneAssumption ==
    /\ None \notin Requests
    /\ None \notin [task : Tasks, callback : Callbacks]
    /\ None \notin [job : Requests, callback : Callbacks]
    /\ "refused" \notin Requests \union {None}

VARIABLES
    threads,    \* the requests, each served by a thread of its own
    jobs,       \* committed job rows, with their plan's artifact row
    keys,       \* committed idempotency keys
    files,      \* jobs whose plan is in the artifact store
    launches,   \* prepare launches submitted, with who submitted them
    failed      \* jobs whose prepare has failed; nothing here reads it

vars == <<threads, jobs, keys, files, launches, failed>>

Steps == {"new", "find", "insert", "claim", "store", "commit", "submit", "reply",
          "accepted", "refused", "lost"}

Ended == {"accepted", "refused", "lost"}

Thread == [step : Steps, asked : [task : Tasks, callback : Callbacks] \union {None},
           job : Requests \union {None}, created : BOOLEAN]

Rows == [job : Requests, callback : Callbacks]

Init ==
    /\ threads = [r \in Requests |->
           [step |-> "new", asked |-> None, job |-> None, created |-> FALSE]]
    /\ jobs = [t \in Tasks |-> None]
    /\ keys = [t \in Tasks |-> None]
    /\ files = {}
    /\ launches = {}
    /\ failed = {}

At(r, step) == threads[r].step = step

Goto(r, step) == threads' = [threads EXCEPT ![r].step = step]

Task(r) == threads[r].asked.task

Callback(r) == threads[r].asked.callback

\* A transaction that has inserted the row of task t and has not ended.
Holds(r, t) ==
    /\ threads[r].step \in {"claim", "store", "commit"}
    /\ threads[r].created
    /\ Task(r) = t

Arrive(r, t, c) ==
    /\ At(r, "new")
    /\ threads' = [threads EXCEPT ![r].step = "find",
                                  ![r].asked = [task |-> t, callback |-> c]]
    /\ UNCHANGED <<jobs, keys, files, launches, failed>>

\* The task has a job: _assert_prepare_matches.
Join(r) ==
    LET job == jobs[Task(r)] IN
    IF job.callback = Callback(r)
    THEN threads' = [threads EXCEPT ![r].step = "claim", ![r].job = job.job]
    ELSE Goto(r, "refused")

FindPrepare(r) ==
    /\ At(r, "find")
    /\ IF jobs[Task(r)] # None THEN Join(r) ELSE Goto(r, "insert")
    /\ UNCHANGED <<jobs, keys, files, launches, failed>>

Created(r) ==
    threads' = [threads EXCEPT ![r].step = "claim", ![r].job = r, ![r].created = TRUE]

\* A table without the unique constraint on the task.
InsertUnlocked(r) ==
    /\ At(r, "insert")
    /\ Created(r)
    /\ UNCHANGED <<jobs, keys, files, launches, failed>>

\* A replica that answers with whatever job won the race.
InsertAnswersWinner(r) ==
    /\ At(r, "insert")
    /\ \A o \in Requests : ~Holds(o, Task(r))
    /\ IF jobs[Task(r)] = None
       THEN Created(r)
       ELSE threads' = [threads EXCEPT ![r].step = "reply", ![r].job = jobs[Task(r)].job]
    /\ UNCHANGED <<jobs, keys, files, launches, failed>>

\* A replica that tries the insert until it succeeds.
InsertPersists(r) ==
    /\ At(r, "insert")
    /\ \A o \in Requests : ~Holds(o, Task(r))
    /\ jobs[Task(r)] = None
    /\ Created(r)
    /\ UNCHANGED <<jobs, keys, files, launches, failed>>

\* The unique constraint on the task decides who creates the job; IntegrityError
\* sends the others to the row that was committed meanwhile.
InsertJob(r) ==
    /\ At(r, "insert")
    /\ \A o \in Requests : ~Holds(o, Task(r))
    /\ IF jobs[Task(r)] = None THEN Created(r) ELSE Join(r)
    /\ UNCHANGED <<jobs, keys, files, launches, failed>>

\* claim_idempotency_key, and prepare()'s own check of the job it names.  A key
\* that is not there is inserted and committed with the job.
ClaimKey(r) ==
    LET key == keys[Task(r)] IN
    /\ At(r, "claim")
    /\ IF key # None /\ (key.callback # Callback(r) \/ key.job # threads[r].job)
       THEN Goto(r, "refused")
       ELSE Goto(r, IF threads[r].created THEN "store" ELSE "commit")
    /\ UNCHANGED <<jobs, keys, files, launches, failed>>

\* A gateway that starts the runner as soon as the plan is in place.
StorePlanAndSubmit(r) ==
    /\ At(r, "store")
    /\ files' = files \union {threads[r].job}
    /\ launches' = launches \union {[job |-> threads[r].job, by |-> r]}
    /\ Goto(r, "commit")
    /\ UNCHANGED <<jobs, keys, failed>>

\* put_bytes and add_artifact; an error of either is Lose.
StorePlan(r) ==
    /\ At(r, "store")
    /\ files' = files \union {threads[r].job}
    /\ Goto(r, "commit")
    /\ UNCHANGED <<jobs, keys, launches, failed>>

Committed(r, table) ==
    IF table[Task(r)] = None
    THEN [table EXCEPT ![Task(r)] = [job |-> threads[r].job, callback |-> Callback(r)]]
    ELSE table

Commit(r) ==
    /\ At(r, "commit")
    /\ jobs' = IF threads[r].created THEN Committed(r, jobs) ELSE jobs
    /\ keys' = Committed(r, keys)
    /\ Goto(r, IF threads[r].created THEN "submit" ELSE "reply")
    /\ UNCHANGED <<files, launches, failed>>

\* submit_prepare, which only the request that created the job calls.
Submit(r) ==
    /\ At(r, "submit")
    /\ launches' = launches \union {[job |-> threads[r].job, by |-> r]}
    /\ Goto(r, "reply")
    /\ UNCHANGED <<jobs, keys, files, failed>>

Reply(r) ==
    /\ At(r, "reply")
    /\ Goto(r, "accepted")
    /\ UNCHANGED <<jobs, keys, files, launches, failed>>

\* An error that is not handled (500), or the replica dies: what is not
\* committed is rolled back, a file that was written stays.
Lose(r) ==
    /\ threads[r].step \notin Ended \union {"new"}
    /\ Goto(r, "lost")
    /\ UNCHANGED <<jobs, keys, files, launches, failed>>

\* A launch or a runner fails, or nobody ever launches the job and it expires, long
\* after the thread that created it: the job ends in ERROR or TIMEOUT.
PrepareFails(t) ==
    /\ jobs[t] # None
    /\ jobs[t].job \notin failed
    /\ \A r \in Requests : ~ (At(r, "submit") /\ Task(r) = t)
    /\ failed' = failed \union {jobs[t].job}
    /\ UNCHANGED <<threads, jobs, keys, files, launches>>

Serve(r) ==
    \/ FindPrepare(r)
    \/ InsertJob(r)
    \/ ClaimKey(r)
    \/ StorePlan(r)
    \/ Commit(r)
    \/ Submit(r)
    \/ Reply(r)

Request(r) ==
    \/ \E t \in Tasks, c \in Callbacks : Arrive(r, t, c)
    \/ Serve(r)
    \/ Lose(r)

Next ==
    \/ \E r \in Requests : Request(r)
    \/ \E t \in Tasks : PrepareFails(t)

Spec == Init /\ [][Next]_vars

-----------------------------------------------------------------------------
(* Properties *)

\* Type correctness of threads, rows, files, launches and failures.
TypeOK ==
    /\ threads \in [Requests -> Thread]
    /\ jobs \in [Tasks -> Rows \union {None}]
    /\ keys \in [Tasks -> Rows \union {None}]
    /\ files \subseteq Requests
    /\ launches \subseteq [job : Requests, by : Requests]
    /\ failed \subseteq Requests

Accepted(r) == At(r, "accepted")

\* However the replicas race for the row, all who hand in a task are answered
\* with the same job, and nobody is answered with a job whose outcome is
\* announced elsewhere than where he asked.
SameJobForAll ==
    \A r, o \in Requests :
        Accepted(r) /\ Accepted(o) /\ Task(r) = Task(o) =>
            threads[r].job = threads[o].job /\ Callback(r) = Callback(o)

\* A runner is started once for a job, and whenever it is started the job is
\* committed and its plan is stored: a launch never outlives a rollback.
LaunchesAreBacked ==
    \A l \in launches :
        /\ \E t \in Tasks : jobs[t] # None /\ jobs[t].job = l.job
        /\ l.job \in files
        /\ \A other \in launches : other.job = l.job => other = l

AnswerOf(r) ==
    IF At(r, "accepted") THEN threads[r].job ELSE IF At(r, "refused") THEN "refused" ELSE None

ClientView == INSTANCE Intake WITH
    asked <- [r \in Requests |-> threads[r].asked],
    registered <- jobs,
    started <- {l.job : l \in launches},
    failed <- failed,
    answers <- [r \in Requests |-> AnswerOf(r)]

\* Whatever the interleaving of replicas, retries and crashes, clients see what
\* Intake says: one job for a task, started once, and the same answer for all.  It
\* is that job also when its prepare has failed, which is not what the operations
\* guide leads one to expect; ResubmissionRetries is.
ImplementsIntake == ClientView!Spec

\* A thread runs on until it answers or is lost; the database ends the
\* transactions of replicas that die.
Fairness == \A r \in Requests : WF_vars(Serve(r))

FairSpec == Spec /\ Fairness

\* Nobody waits forever for a transaction of somebody else.
EveryRequestEnds ==
    \A r \in Requests : At(r, "find") ~> threads[r].step \in Ended

HasFailed(t) == jobs[t] # None /\ jobs[t].job \in failed

\* "If prepare failed for a plan you still want, fix the cause and submit the plan
\* again": a request that is made after the failure, and accepted, starts a runner.
ResubmissionRetries ==
    \A r \in Requests, t \in Tasks :
        [](At(r, "new") /\ HasFailed(t) =>
             [](Accepted(r) /\ Task(r) = t => \E l \in launches : l.by = r))
=============================================================================
