------------------------------ MODULE Artifacts ------------------------------
(***************************************************************************)
(* The artifacts of one test job and their retention: the bytes in         *)
(* FilesystemArtifactStore, the rows of ai_test_artifacts, the runners     *)
(* that upload and download them, and purge_expired_artifacts, which       *)
(* deletes files one by one and commits its rows only at the end.          *)
(*                                                                         *)
(* An object key names its attempt and its one writer, so a key stands for *)
(* its content and digests are left out.                                   *)
(***************************************************************************)
EXTENDS Naturals, FiniteSets

CONSTANTS
    MaxAttempts,    \* bound on the verify attempts
    MaxAborts       \* bound on the sweeps that fail half way

ASSUME ArtifactBounds == MaxAttempts \in Nat /\ MaxAborts \in Nat

VARIABLES
    job,        \* the job: its status, verify attempt, and whether it is past the cutoff
    rows,       \* the artifact rows
    objects,    \* the files of the artifact store
    started,    \* runners that have downloaded what they work on
    sweep,      \* the purge under way: the rows it listed, and what it deleted
    aborts      \* how many purges have failed so far

vars == <<job, rows, objects, started, sweep, aborts>>

Attempts == 1..MaxAttempts

Keys == [type : {"PLAN", "DRAFT"}, attempt : {1}] \union
        [type : {"PATCH", "RESULT"}, attempt : Attempts]

Key(type, n) == [type |-> type, attempt |-> n]

Prepared == {Key("PLAN", 1), Key("DRAFT", 1)}

Statuses == {"PREPARING", "WAITING_FOR_CODE", "GENERATING_TESTS", "TESTING", "ENDED"}

Runners == [phase : {"PREPARE"}, attempt : {1}] \union
           [phase : {"GENERATE", "TEST"}, attempt : Attempts]

Runner(phase, n) == [phase |-> phase, attempt |-> n]

Rows(state) == {k \in Keys : rows[k] = state}

Idle == [active |-> FALSE, todo |-> {}, deleted |-> {}]

\* prepare() has stored the plan and committed.
Init ==
    /\ job = [status |-> "PREPARING", attempt |-> 0, old |-> FALSE]
    /\ rows = [k \in Keys |-> IF k.type = "PLAN" THEN "stored" ELSE "none"]
    /\ objects = {Key("PLAN", 1)}
    /\ started = {}
    /\ sweep = Idle
    /\ aborts = 0

-----------------------------------------------------------------------------
(* Runners.  One that was created may go on after its attempt has ended. *)

Launched(p) ==
    CASE p.phase = "PREPARE"  -> TRUE
      [] p.phase = "GENERATE" -> p.attempt <= job.attempt
      [] p.phase = "TEST"     -> rows[Key("PATCH", p.attempt)] # "none"

Inputs(p) ==
    CASE p.phase = "PREPARE"  -> {Key("PLAN", 1)}
      [] p.phase = "GENERATE" -> Prepared
      [] p.phase = "TEST"     -> {Key("PATCH", p.attempt)}

\* The runner downloads its inputs; without them it ends with an ERROR.
Download(p) ==
    /\ Launched(p)
    /\ p \notin started
    /\ Inputs(p) \subseteq objects
    /\ started' = started \union {p}
    /\ UNCHANGED <<job, rows, objects, sweep, aborts>>

\* The plan is the gateway's own.
Writers(k) ==
    CASE k.type = "PLAN"   -> {}
      [] k.type = "DRAFT"  -> {Runner("PREPARE", 1)}
      [] k.type = "PATCH"  -> {Runner("GENERATE", k.attempt)}
      [] k.type = "RESULT" -> {Runner("TEST", k.attempt)}

\* put_bytes: what is stored before the callback that reports it.
Upload(k) ==
    /\ Writers(k) \intersect started # {}
    /\ rows[k] = "none"
    /\ objects' = objects \union {k}
    /\ UNCHANGED <<job, rows, started, sweep, aborts>>

\* A gateway that takes the runner's word for what is stored.
ReportUnchecked(k, from, to) ==
    /\ job.status = from
    /\ rows[k] = "none"
    /\ rows' = [rows EXCEPT ![k] = "stored"]
    /\ job' = [job EXCEPT !.status = to]
    /\ UNCHANGED <<objects, started, sweep, aborts>>

\* The bytes a reported artifact has must be there, and get a row.
Report(k, from, to) ==
    /\ job.status = from
    /\ k \in objects
    /\ rows[k] = "none"
    /\ rows' = [rows EXCEPT ![k] = "stored"]
    /\ job' = [job EXCEPT !.status = to]
    /\ UNCHANGED <<objects, started, sweep, aborts>>

ReportDraft == Report(Key("DRAFT", 1), "PREPARING", "WAITING_FOR_CODE")

\* The test launch is built from the plan, whose bytes are read again.
ReportPatch ==
    /\ Key("PLAN", 1) \in objects
    /\ Report(Key("PATCH", job.attempt), "GENERATING_TESTS", "TESTING")

ReportResult == Report(Key("RESULT", job.attempt), "TESTING", "ENDED")

\* ERROR, BLOCKED, REJECTED, CANCELLED or TIMEOUT.
EndWithoutArtifact ==
    /\ job.status # "ENDED"
    /\ job' = [job EXCEPT !.status = "ENDED"]
    /\ UNCHANGED <<rows, objects, started, sweep, aborts>>

-----------------------------------------------------------------------------
(* The job. *)

\* A new commit.  The plan and the draft must have rows, purged or not.
Verify ==
    /\ job.status = "WAITING_FOR_CODE" \/ job.attempt >= 1
    /\ job.attempt < MaxAttempts
    /\ \A k \in Prepared : rows[k] # "none"
    /\ job' = [status |-> "GENERATING_TESTS", attempt |-> job.attempt + 1, old |-> FALSE]
    /\ UNCHANGED <<rows, objects, started, sweep, aborts>>

\* completed_at falls behind the retention cutoff.
Age ==
    /\ job.status = "ENDED"
    /\ ~job.old
    /\ job' = [job EXCEPT !.old = TRUE]
    /\ UNCHANGED <<rows, objects, started, sweep, aborts>>

-----------------------------------------------------------------------------
(* purge_expired_artifacts.  concurrencyPolicy: Forbid, so one at a time. *)

\* A purge that takes any job's artifacts once they are stored.
ListedAnyJob == Rows("stored")

\* list_purgeable_artifacts
Listed == IF job.old THEN Rows("stored") ELSE {}

PurgeScan ==
    /\ ~sweep.active
    /\ Listed # {}
    /\ sweep' = [active |-> TRUE, todo |-> Listed, deleted |-> {}]
    /\ UNCHANGED <<job, rows, objects, started, aborts>>

\* A purge that passes over a file that is gone already.
PurgeDeleteSkips(k) ==
    /\ k \in sweep.todo
    /\ objects' = objects \ {k}
    /\ sweep' = [sweep EXCEPT !.todo = @ \ {k}, !.deleted = @ \union ({k} \intersect objects)]
    /\ UNCHANGED <<job, rows, started, aborts>>

\* FilesystemArtifactStore.delete: a file that is gone already is no error.
PurgeDelete(k) ==
    /\ k \in sweep.todo
    /\ objects' = objects \ {k}
    /\ sweep' = [sweep EXCEPT !.todo = @ \ {k}, !.deleted = @ \union {k}]
    /\ UNCHANGED <<job, rows, started, aborts>>

\* A purge that commits its rows whatever it has deleted.
PurgeCommitsEarly ==
    /\ sweep.active
    /\ rows' = [k \in Keys |->
                   IF k \in sweep.deleted \union sweep.todo THEN "purged" ELSE rows[k]]
    /\ sweep' = Idle
    /\ UNCHANGED <<job, objects, started, aborts>>

PurgeCommit ==
    /\ sweep.active
    /\ sweep.todo = {}
    /\ rows' = [k \in Keys |-> IF k \in sweep.deleted THEN "purged" ELSE rows[k]]
    /\ sweep' = Idle
    /\ UNCHANGED <<job, objects, started, aborts>>

\* Any error but ArtifactError, or the Pod's end: the rows roll back, the files
\* that were deleted stay deleted.
PurgeAbort ==
    /\ sweep.active
    /\ aborts < MaxAborts
    /\ sweep' = Idle
    /\ aborts' = aborts + 1
    /\ UNCHANGED <<job, rows, objects, started>>

Purge == PurgeScan \/ (\E k \in Keys : PurgeDelete(k)) \/ PurgeCommit

Next ==
    \/ \E p \in Runners : Download(p)
    \/ \E k \in Keys : Upload(k)
    \/ ReportDraft
    \/ ReportPatch
    \/ ReportResult
    \/ EndWithoutArtifact
    \/ Verify
    \/ Age
    \/ Purge
    \/ PurgeAbort

Spec == Init /\ [][Next]_vars

\* The reconciler runs every five minutes.
PurgeGoesOn == WF_vars(Purge)

RetentionSpec == Spec /\ PurgeGoesOn

-----------------------------------------------------------------------------
(* Properties *)

\* Type correctness of the job, its rows and files, and the sweep.
TypeOK ==
    /\ job \in [status : Statuses, attempt : 0..MaxAttempts, old : BOOLEAN]
    /\ rows \in [Keys -> {"none", "stored", "purged"}]
    /\ objects \subseteq Keys
    /\ started \subseteq Runners
    /\ sweep \in [active : BOOLEAN, todo : SUBSET Keys, deleted : SUBSET Keys]
    /\ aborts \in 0..MaxAborts

\* Purged means gone: however a purge is interrupted and run again, an artifact
\* that is listed as purged has no bytes left that nothing would ever delete.
PurgedMeansGone == \A k \in Rows("purged") : k \notin objects

\* Retention never takes an artifact of the attempt the job is on unless the
\* job has ended and aged, though a purge acts on rows it listed a while ago
\* and the job may be on another attempt by now.
CurrentAttemptKeepsItsArtifacts ==
    \A k \in Keys :
        /\ k.type \in {"PATCH", "RESULT"} /\ k.attempt = job.attempt
        /\ rows[k] # "none" /\ k \notin objects
        => job.status = "ENDED" /\ job.old

\* An attempt that has reached its tests did so on a plan and a draft that were
\* there: a commit that is pushed after retention took them gets no verdict.
NoVerdictWithoutInputs ==
    \A k \in Keys :
        k.type = "PATCH" /\ rows[k] # "none" => Runner("GENERATE", k.attempt) \in started

\* The bytes of a job that has ended for good are reclaimed, and all its rows
\* say so, even when purges fail half way.
EventuallyReclaimed ==
    <>[](job.old) => <>[](Rows("stored") = {} /\ objects \subseteq Rows("none"))
=============================================================================
