--------------------------- MODULE ArtifactsProofs ---------------------------
(***************************************************************************)
(* Theorems about Artifacts: its safety invariants for any number of       *)
(* attempts and of purges that fail.                                       *)
(***************************************************************************)
EXTENDS Artifacts, TLAPS

\* Only an ended job is past the cutoff.
OldIsEnded == job.old => job.status = "ENDED"

\* Patches and results, the artifacts of one verify attempt.
OfAttempt(k) == k.type \in {"PATCH", "RESULT"}

\* No row is of an attempt to come.
RowsAreOfAttempts ==
    \A k \in Keys : OfAttempt(k) /\ rows[k] # "none" => k.attempt <= job.attempt

\* What a purge works on may go: it has a row, and it is of an earlier attempt
\* or the job has ended and aged.
SweepIsSafe ==
    \A k \in sweep.todo \union sweep.deleted :
        /\ rows[k] # "none"
        /\ OfAttempt(k) => k.attempt < job.attempt \/ job.old

DeletedIsGone == \A k \in sweep.deleted : k \notin objects

\* A patch has been stored by a runner that had its inputs.
PatchesAreGenerated ==
    \A k \in Keys : k.type = "PATCH" /\ (k \in objects \/ rows[k] # "none") =>
        Runner("GENERATE", k.attempt) \in started

IInv ==
    /\ TypeOK
    /\ OldIsEnded
    /\ RowsAreOfAttempts
    /\ SweepIsSafe
    /\ DeletedIsGone
    /\ PatchesAreGenerated
    /\ PurgedMeansGone
    /\ CurrentAttemptKeepsItsArtifacts

\* Keys that the actions build are keys.
LEMMA KeyType ==
    /\ Prepared \subseteq Keys
    /\ \A n \in Attempts : Key("PATCH", n) \in Keys /\ Key("RESULT", n) \in Keys
    /\ \A k \in Keys : /\ k.type \in {"PLAN", "DRAFT", "PATCH", "RESULT"}
                       /\ k.attempt \in Nat
                       /\ k.type \in {"PATCH", "RESULT"} => k.attempt \in Attempts
BY ArtifactBounds DEF Prepared, Keys, Key, Attempts

\* The initial state has only the plan.
LEMMA InitIInv == Init => IInv
<1> SUFFICES ASSUME Init PROVE IInv
    OBVIOUS
<1> USE DEF Init
<1>1. TypeOK
    BY ArtifactBounds DEF TypeOK, Keys, Key, Statuses, Runners, Idle, Attempts
<1>2. OldIsEnded /\ SweepIsSafe /\ DeletedIsGone
    BY DEF OldIsEnded, SweepIsSafe, DeletedIsGone, Idle
<1>3. \A k \in Keys : rows[k] # "none" => k.type = "PLAN" /\ rows[k] = "stored"
    OBVIOUS
<1>4. RowsAreOfAttempts /\ PurgedMeansGone /\ CurrentAttemptKeepsItsArtifacts
    BY <1>3 DEF RowsAreOfAttempts, OfAttempt, PurgedMeansGone, Rows,
                CurrentAttemptKeepsItsArtifacts
<1>5. PatchesAreGenerated
    BY <1>3 DEF PatchesAreGenerated, Key
<1> QED
    BY <1>1, <1>2, <1>4, <1>5 DEF IInv

\* A runner's download adds to those that have their inputs, nothing else.
LEMMA DownloadIInv == IInv /\ (\E p \in Runners : Download(p)) => IInv'
<1> SUFFICES ASSUME IInv, NEW p \in Runners, Download(p) PROVE IInv'
    OBVIOUS
<1> USE DEF IInv, Download
<1>1. TypeOK'
    BY DEF TypeOK
<1>2. PatchesAreGenerated'
    BY DEF PatchesAreGenerated
<1>3. (OldIsEnded /\ RowsAreOfAttempts /\ SweepIsSafe /\ DeletedIsGone)'
    BY DEF OldIsEnded, RowsAreOfAttempts, SweepIsSafe, DeletedIsGone
<1>4. (PurgedMeansGone /\ CurrentAttemptKeepsItsArtifacts)'
    BY DEF PurgedMeansGone, CurrentAttemptKeepsItsArtifacts, Rows
<1> QED
    BY <1>1, <1>2, <1>3, <1>4

\* An upload is of an artifact without a row, so nothing a purge works on.
LEMMA UploadIInv == IInv /\ (\E k \in Keys : Upload(k)) => IInv'
<1> SUFFICES ASSUME IInv, NEW k \in Keys, Upload(k) PROVE IInv'
    OBVIOUS
<1> USE DEF IInv, Upload
<1>1. TypeOK'
    BY DEF TypeOK
<1>2. PatchesAreGenerated'
    BY DEF PatchesAreGenerated, Writers
<1>3. (OldIsEnded /\ RowsAreOfAttempts)'
    BY DEF OldIsEnded, RowsAreOfAttempts
<1>4. SweepIsSafe'
    BY DEF SweepIsSafe
<1>5. DeletedIsGone'
    BY DEF DeletedIsGone, SweepIsSafe
<1>6. (PurgedMeansGone /\ CurrentAttemptKeepsItsArtifacts)'
    BY DEF PurgedMeansGone, CurrentAttemptKeepsItsArtifacts, Rows
<1> QED
    BY <1>1, <1>2, <1>3, <1>4, <1>5, <1>6

\* A report gives a row to an artifact of the current attempt that is stored.
LEMMA ReportIInv ==
    ASSUME IInv, NEW k \in Keys, NEW from, NEW to \in Statuses, Report(k, from, to),
           from # "ENDED", OfAttempt(k) => k.attempt = job.attempt
    PROVE  IInv'
<1> USE DEF IInv, Report
<1>0. ~job.old
    BY DEF OldIsEnded
<1>1. TypeOK'
    BY DEF TypeOK, Statuses
<1>2. PatchesAreGenerated'
    BY DEF PatchesAreGenerated, TypeOK
<1>3. OldIsEnded'
    BY <1>0 DEF OldIsEnded, TypeOK
<1>4. RowsAreOfAttempts'
    BY KeyType DEF RowsAreOfAttempts, TypeOK
<1>5. SweepIsSafe'
    BY DEF SweepIsSafe, TypeOK
<1>6. DeletedIsGone'
    BY DEF DeletedIsGone
<1>7. PurgedMeansGone'
    BY DEF PurgedMeansGone, Rows, TypeOK
<1>8. CurrentAttemptKeepsItsArtifacts'
    BY <1>0 DEF CurrentAttemptKeepsItsArtifacts, TypeOK
<1> QED
    BY <1>1, <1>2, <1>3, <1>4, <1>5, <1>6, <1>7, <1>8

\* The three reports of the runners.
LEMMA ReportsIInv == IInv /\ (ReportDraft \/ ReportPatch \/ ReportResult) => IInv'
<1> SUFFICES ASSUME IInv, ReportDraft \/ ReportPatch \/ ReportResult PROVE IInv'
    OBVIOUS
<1>0. TypeOK /\ objects \subseteq Keys
    BY DEF IInv, TypeOK
<1>1. CASE ReportDraft
  <2>1. Key("DRAFT", 1) \in Keys /\ ~OfAttempt(Key("DRAFT", 1))
    BY DEF Keys, Key, OfAttempt
  <2> QED
    BY <1>1, <2>1, ReportIInv DEF ReportDraft, Statuses
<1>2. CASE ReportPatch
  <2>1. Key("PATCH", job.attempt) \in Keys
    BY <1>0, <1>2 DEF ReportPatch, Report
  <2>2. Key("PATCH", job.attempt).attempt = job.attempt
    BY DEF Key
  <2> QED
    BY <1>2, <2>1, <2>2, ReportIInv DEF ReportPatch, Statuses
<1>3. CASE ReportResult
  <2>1. Key("RESULT", job.attempt) \in Keys
    BY <1>0, <1>3 DEF ReportResult, Report
  <2>2. Key("RESULT", job.attempt).attempt = job.attempt
    BY DEF Key
  <2> QED
    BY <1>3, <2>1, <2>2, ReportIInv DEF ReportResult, Statuses
<1> QED
    BY <1>1, <1>2, <1>3

\* An attempt ends without an artifact: it was not old, so nothing was missing.
LEMMA EndIInv == IInv /\ EndWithoutArtifact => IInv'
<1> SUFFICES ASSUME IInv, EndWithoutArtifact PROVE IInv'
    OBVIOUS
<1> USE DEF IInv, EndWithoutArtifact
<1>0. ~job.old /\ job' = [job EXCEPT !.status = "ENDED"]
    BY DEF OldIsEnded
<1>1. TypeOK'
    BY DEF TypeOK, Statuses
<1>2. (OldIsEnded /\ RowsAreOfAttempts /\ SweepIsSafe /\ DeletedIsGone)'
    BY <1>0 DEF OldIsEnded, RowsAreOfAttempts, SweepIsSafe, DeletedIsGone, TypeOK
<1>3. (PatchesAreGenerated /\ PurgedMeansGone)'
    BY DEF PatchesAreGenerated, PurgedMeansGone, Rows
<1>4. CurrentAttemptKeepsItsArtifacts'
    BY <1>0 DEF CurrentAttemptKeepsItsArtifacts, TypeOK
<1> QED
    BY <1>1, <1>2, <1>3, <1>4

\* A new attempt has no artifacts yet; those of the last one, which a purge may
\* be working on, are those of an earlier attempt now.
LEMMA VerifyIInv == IInv /\ Verify => IInv'
<1> SUFFICES ASSUME IInv, Verify PROVE IInv'
    OBVIOUS
<1> USE DEF IInv, Verify
<1>0. /\ job.attempt \in Nat
      /\ job'.attempt = job.attempt + 1
      /\ job'.status = "GENERATING_TESTS"
      /\ ~job'.old
    BY ArtifactBounds DEF TypeOK
<1>1. TypeOK'
    BY ArtifactBounds DEF TypeOK, Statuses
<1>2. (OldIsEnded /\ DeletedIsGone /\ PatchesAreGenerated /\ PurgedMeansGone)'
    BY <1>0 DEF OldIsEnded, DeletedIsGone, PatchesAreGenerated, PurgedMeansGone, Rows
<1>3. RowsAreOfAttempts'
    BY <1>0, KeyType DEF RowsAreOfAttempts, OfAttempt
<1>4. SweepIsSafe'
  <2> SUFFICES ASSUME NEW k \in sweep.todo \union sweep.deleted
               PROVE  /\ rows[k] # "none"
                      /\ OfAttempt(k) => k.attempt < job'.attempt
      BY DEF SweepIsSafe, OfAttempt
  <2>1. k \in Keys /\ rows[k] # "none"
      BY DEF SweepIsSafe, TypeOK
  <2>2. OfAttempt(k) => k.attempt <= job.attempt
      BY <2>1 DEF RowsAreOfAttempts
  <2> QED
      BY <1>0, <2>1, <2>2, KeyType
<1>5. CurrentAttemptKeepsItsArtifacts'
    BY <1>0, KeyType DEF CurrentAttemptKeepsItsArtifacts, RowsAreOfAttempts, OfAttempt
<1> QED
    BY <1>1, <1>2, <1>3, <1>4, <1>5

\* Time passes for an ended job.
LEMMA AgeIInv == IInv /\ Age => IInv'
<1> SUFFICES ASSUME IInv, Age PROVE IInv'
    OBVIOUS
<1> USE DEF IInv, Age
<1>0. job'.old /\ job'.status = "ENDED" /\ job'.attempt = job.attempt
    BY DEF TypeOK
<1>1. TypeOK'
    BY DEF TypeOK
<1>2. (OldIsEnded /\ RowsAreOfAttempts /\ SweepIsSafe /\ DeletedIsGone)'
    BY <1>0 DEF OldIsEnded, RowsAreOfAttempts, SweepIsSafe, DeletedIsGone
<1>3. (PatchesAreGenerated /\ PurgedMeansGone /\ CurrentAttemptKeepsItsArtifacts)'
    BY <1>0 DEF PatchesAreGenerated, PurgedMeansGone, CurrentAttemptKeepsItsArtifacts, Rows
<1> QED
    BY <1>1, <1>2, <1>3

\* A purge lists what is stored for an old job, deletes it, and marks what it
\* has deleted.
LEMMA PurgeIInv == IInv /\ Purge => IInv'
<1> SUFFICES ASSUME IInv, Purge PROVE IInv'
    OBVIOUS
<1> USE DEF IInv
<1>1. CASE PurgeScan
  <2> USE <1>1 DEF PurgeScan
  <2>0. job.old /\ Listed = Rows("stored")
      BY DEF Listed
  <2>1. TypeOK'
      BY <2>0 DEF TypeOK, Rows
  <2>2. (SweepIsSafe /\ DeletedIsGone)'
      BY <2>0 DEF SweepIsSafe, DeletedIsGone, Rows, TypeOK
  <2>3. (OldIsEnded /\ RowsAreOfAttempts /\ PatchesAreGenerated)'
      BY DEF OldIsEnded, RowsAreOfAttempts, PatchesAreGenerated
  <2>4. (PurgedMeansGone /\ CurrentAttemptKeepsItsArtifacts)'
      BY DEF PurgedMeansGone, CurrentAttemptKeepsItsArtifacts, Rows
  <2> QED
      BY <2>1, <2>2, <2>3, <2>4
<1>2. ASSUME NEW k \in Keys, PurgeDelete(k) PROVE IInv'
  <2> USE <1>2 DEF PurgeDelete
  <2>0. /\ sweep'.todo = sweep.todo \ {k}
        /\ sweep'.deleted = sweep.deleted \union {k}
      BY DEF TypeOK
  <2>1. TypeOK'
      BY DEF TypeOK
  <2>2. (SweepIsSafe /\ DeletedIsGone)'
      BY <2>0 DEF SweepIsSafe, DeletedIsGone
  <2>3. (OldIsEnded /\ RowsAreOfAttempts /\ PatchesAreGenerated /\ PurgedMeansGone)'
      BY DEF OldIsEnded, RowsAreOfAttempts, PatchesAreGenerated, PurgedMeansGone, Rows
  <2>4. OfAttempt(k) /\ k.attempt = job.attempt => job.status = "ENDED" /\ job.old
      BY KeyType DEF SweepIsSafe, OldIsEnded, TypeOK
  <2>5. CurrentAttemptKeepsItsArtifacts'
      BY <2>4 DEF CurrentAttemptKeepsItsArtifacts, OfAttempt
  <2> QED
      BY <2>1, <2>2, <2>3, <2>5
<1>3. CASE PurgeCommit
  <2> USE <1>3 DEF PurgeCommit
  <2>1. TypeOK'
      BY DEF TypeOK, Idle
  <2>2. (SweepIsSafe /\ DeletedIsGone)'
      BY DEF SweepIsSafe, DeletedIsGone, Idle
  <2>3. \A k \in Keys : rows'[k] = "none" <=> rows[k] = "none"
      BY DEF SweepIsSafe
  <2>4. (OldIsEnded /\ RowsAreOfAttempts /\ PatchesAreGenerated)'
      BY <2>3 DEF OldIsEnded, RowsAreOfAttempts, PatchesAreGenerated
  <2>5. CurrentAttemptKeepsItsArtifacts'
      BY <2>3 DEF CurrentAttemptKeepsItsArtifacts
  <2>6. PurgedMeansGone'
      BY DEF PurgedMeansGone, DeletedIsGone, Rows
  <2> QED
      BY <2>1, <2>2, <2>4, <2>5, <2>6
<1> QED
    BY <1>1, <1>2, <1>3 DEF Purge

\* A purge that fails leaves the files it deleted deleted, of which no row said
\* more than that they were stored.
LEMMA AbortIInv == IInv /\ PurgeAbort => IInv'
<1> SUFFICES ASSUME IInv, PurgeAbort PROVE IInv'
    OBVIOUS
<1> USE DEF IInv, PurgeAbort
<1>1. TypeOK'
    BY ArtifactBounds DEF TypeOK, Idle
<1>2. (SweepIsSafe /\ DeletedIsGone)'
    BY DEF SweepIsSafe, DeletedIsGone, Idle
<1>3. (OldIsEnded /\ RowsAreOfAttempts /\ PatchesAreGenerated)'
    BY DEF OldIsEnded, RowsAreOfAttempts, PatchesAreGenerated
<1>4. (PurgedMeansGone /\ CurrentAttemptKeepsItsArtifacts)'
    BY DEF PurgedMeansGone, CurrentAttemptKeepsItsArtifacts, Rows
<1> QED
    BY <1>1, <1>2, <1>3, <1>4

\* A step that changes nothing.
LEMMA StutterIInv == IInv /\ UNCHANGED vars => IInv'
BY DEF IInv, vars, TypeOK, OldIsEnded, RowsAreOfAttempts, SweepIsSafe, DeletedIsGone,
       PatchesAreGenerated, PurgedMeansGone, CurrentAttemptKeepsItsArtifacts, Rows

\* The invariant holds in every state the artifacts can be in.
LEMMA IInvHolds == Spec => []IInv
<1>1. IInv /\ [Next]_vars => IInv'
    BY DownloadIInv, UploadIInv, ReportsIInv, EndIInv, VerifyIInv, AgeIInv, PurgeIInv,
       AbortIInv, StutterIInv DEF Next
<1> QED
    BY <1>1, InitIInv, PTL DEF Spec

\* Every variable keeps its type, for any number of attempts and failed purges.
THEOREM ArtifactsTypeOK == Spec => []TypeOK
BY IInvHolds, PTL DEF IInv

\* An artifact that is listed as purged has no bytes left.
THEOREM PurgedAreGone == Spec => []PurgedMeansGone
BY IInvHolds, PTL DEF IInv

\* Retention takes nothing of the attempt the job is on, unless it has ended and
\* aged, whenever the purge listed what it deletes.
THEOREM RetentionSparesCurrentAttempt == Spec => []CurrentAttemptKeepsItsArtifacts
BY IInvHolds, PTL DEF IInv

\* Every patch was made by a runner that had the plan and the draft.
THEOREM PatchesHadInputs == Spec => []NoVerdictWithoutInputs
<1>1. IInv => NoVerdictWithoutInputs
    BY DEF IInv, PatchesAreGenerated, NoVerdictWithoutInputs
<1> QED
    BY <1>1, IInvHolds, PTL
=============================================================================
