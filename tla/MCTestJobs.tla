----------------------------- MODULE MCTestJobs -----------------------------
(***************************************************************************)
(* TLC checks TestJobs here; the MC*.cfg files give its constants small    *)
(* values.  RedeliveryRetries is what the operations guide says of the     *)
(* gateway; a run refutes it.                                              *)
(***************************************************************************)
EXTENDS TestJobs

\* "Same commit, infrastructure failure (ERROR): re-deliver the push event": the
\* delivery starts a new attempt.
RedeliveryRetries ==
    [][\A h \in handlers :
          VerifySame(h) /\ h.snap.status = "ERROR" => row'.status = "VERIFY_QUEUED"]_vars
=============================================================================
