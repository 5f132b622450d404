------------------------------- MODULE Intake -------------------------------
(***************************************************************************)
(* What a client that hands in a plan gets.  A task (a task ID, a base     *)
(* commit and the digest of a plan) has one job.  However often and        *)
(* however concurrently it is handed in, everybody is answered with that   *)
(* job, or refused for asking that its outcome be announced elsewhere.     *)
(* Work is started for registered jobs only, once: a job whose work has    *)
(* failed stays the job of its task, and handing the plan in again, as     *)
(* the operations guide advises, starts nothing.                           *)
(***************************************************************************)
CONSTANTS
    Requests,       \* the requests ever made; a job is named by the one that made it
    Tasks,          \* identities of plans
    Callbacks,      \* where outcomes may be announced
    None

VARIABLES
    asked,          \* what each request asks for
    registered,     \* the job of each task
    started,        \* the jobs work was started for
    failed,         \* the jobs whose work failed, or never came
    answers         \* the job each request was answered with

vars == <<asked, registered, started, failed, answers>>

Refused == "refused"

Init ==
    /\ asked = [r \in Requests |-> None]
    /\ registered = [t \in Tasks |-> None]
    /\ started = {}
    /\ failed = {}
    /\ answers = [r \in Requests |-> None]

Ask(r, t, c) ==
    /\ asked[r] = None
    /\ asked' = [asked EXCEPT ![r] = [task |-> t, callback |-> c]]
    /\ UNCHANGED <<registered, started, failed, answers>>

Register(r) ==
    /\ asked[r] # None
    /\ registered[asked[r].task] = None
    /\ registered' = [registered EXCEPT ![asked[r].task] =
                         [job |-> r, callback |-> asked[r].callback]]
    /\ UNCHANGED <<asked, started, failed, answers>>

Start(t) ==
    /\ registered[t] # None
    /\ registered[t].job \notin started
    /\ started' = started \union {registered[t].job}
    /\ UNCHANGED <<asked, registered, failed, answers>>

Fail(t) ==
    /\ registered[t] # None
    /\ failed' = failed \union {registered[t].job}
    /\ UNCHANGED <<asked, registered, started, answers>>

\* The answer is the task's job, failed or not.
Answer(r) ==
    /\ asked[r] # None
    /\ answers[r] = None
    /\ LET job == registered[asked[r].task] IN
       /\ job # None
       /\ answers' = [answers EXCEPT ![r] =
              IF job.callback = asked[r].callback THEN job.job ELSE Refused]
    /\ UNCHANGED <<asked, registered, started, failed>>

Next ==
    \/ \E r \in Requests :
          \/ \E t \in Tasks, c \in Callbacks : Ask(r, t, c)
          \/ Register(r)
          \/ Answer(r)
    \/ \E t \in Tasks : Start(t) \/ Fail(t)

Spec == Init /\ [][Next]_vars
=============================================================================
