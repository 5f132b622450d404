---------------------------- MODULE ProcessRunner ----------------------------
(***************************************************************************)
(* runProcess of codex-runner/src/process.ts, and a caller that runs one   *)
(* child after the other, as the git and Codex steps of the codex runner   *)
(* do.  Every callback runs to its end, but in what order the timeout, the *)
(* abort signal, output, stream errors and the child's end are seen is     *)
(* left open.                                                              *)
(***************************************************************************)
EXTENDS Naturals

CONSTANTS
    MaxCalls,   \* bound on the children the caller runs
    MaxOutput   \* maxOutputBytes, in chunks

ASSUME ProcessBounds == MaxCalls \in Nat /\ MaxOutput \in Nat

VARIABLES
    calls,      \* how many children were started
    child,      \* the latest child
    promise,    \* what runProcess returned for it
    outputRead, \* outputBytes: the output collect() has seen
    forceKill,  \* SIGKILL is due two seconds after SIGTERM
    aborted     \* the caller's signal

vars == <<calls, child, promise, outputRead, forceKill, aborted>>

\* told is the strongest signal sent; written, the output in chunks.
Child == [state : {"running", "exited"}, code : {"zero", "other"},
          told : {"nothing", "TERM", "KILL"}, written : 0..MaxOutput + 1]

Fresh == [state |-> "running", code |-> "other", told |-> "nothing", written |-> 0]

NotStarted == [state |-> "exited", code |-> "other", told |-> "nothing", written |-> 0]

Init ==
    /\ calls = 0
    /\ child = NotStarted
    /\ promise = "resolved"
    /\ outputRead = 0
    /\ forceKill = FALSE
    /\ aborted = FALSE

completed == promise # "pending"

\* The next child is started when the one before it has succeeded.  Its timer
\* runs from here on; a signal that is aborted already never fires again.
RunProcess ==
    /\ promise = "resolved"
    /\ calls < MaxCalls
    /\ calls' = calls + 1
    /\ promise' = "pending"
    /\ child' = Fresh
    /\ outputRead' = 0
    /\ forceKill' = FALSE
    /\ UNCHANGED aborted

Reject ==
    /\ ~completed
    /\ promise' = "rejected"

-----------------------------------------------------------------------------
(* terminate() *)

Signalled(signal) == IF child.state = "running" THEN [child EXCEPT !.told = signal] ELSE child

\* A terminate() that leaves the answer to the child's close event.
TerminateWaits ==
    /\ child' = Signalled("TERM")
    /\ forceKill' = TRUE
    /\ UNCHANGED promise

Terminate ==
    /\ Reject
    /\ child' = Signalled("TERM")
    /\ forceKill' = TRUE

Timeout ==
    /\ ~completed
    /\ Terminate
    /\ UNCHANGED <<calls, outputRead, aborted>>

\* SIGTERM reaches the runner: the child of the moment is terminated.
Abort ==
    /\ ~aborted
    /\ aborted' = TRUE
    /\ Terminate \/ (completed /\ UNCHANGED <<promise, child, forceKill>>)
    /\ UNCHANGED <<calls, outputRead>>

ForceKill ==
    /\ forceKill
    /\ forceKill' = FALSE
    /\ child' = Signalled("KILL")
    /\ UNCHANGED <<calls, promise, outputRead, aborted>>

-----------------------------------------------------------------------------
(* Streams *)

\* A chunk arrives: too much output terminates the child.
Data ==
    /\ outputRead < child.written
    /\ outputRead' = outputRead + 1
    /\ \/ outputRead' > MaxOutput /\ Terminate
       \/ /\ outputRead' <= MaxOutput \/ completed
          /\ UNCHANGED <<promise, child, forceKill>>
    /\ UNCHANGED <<calls, aborted>>

\* A stream breaks.  Nothing stops the child.
StreamError ==
    /\ Reject
    /\ UNCHANGED <<calls, child, outputRead, forceKill, aborted>>

\* The child could not be started.
StartFails ==
    /\ child = Fresh
    /\ Reject
    /\ child' = NotStarted
    /\ UNCHANGED <<calls, outputRead, forceKill, aborted>>

Settled(code) == IF code = "zero" THEN "resolved" ELSE "rejected"

\* A child's end taken from its exit event, which may precede its last output.
CloseAtExit ==
    /\ child.state = "exited"
    /\ ~completed
    /\ promise' = Settled(child.code)
    /\ UNCHANGED <<calls, child, outputRead, forceKill, aborted>>

\* The child has ended and its output was read to the end.
Close ==
    /\ child.state = "exited"
    /\ outputRead = child.written
    /\ ~completed
    /\ promise' = Settled(child.code)
    /\ UNCHANGED <<calls, child, outputRead, forceKill, aborted>>

-----------------------------------------------------------------------------
(* The child *)

Write ==
    /\ child.state = "running"
    /\ child.written <= MaxOutput
    /\ child' = [child EXCEPT !.written = @ + 1]
    /\ UNCHANGED <<calls, promise, outputRead, forceKill, aborted>>

\* A child may ignore SIGTERM, or end well in spite of it.
Exit ==
    /\ child.state = "running"
    /\ \E code \in (IF child.told = "KILL" THEN {"other"} ELSE {"zero", "other"}) :
          child' = [child EXCEPT !.state = "exited", !.code = code]
    /\ UNCHANGED <<calls, promise, outputRead, forceKill, aborted>>

Next ==
    \/ RunProcess
    \/ Timeout
    \/ Abort
    \/ ForceKill
    \/ Data
    \/ StreamError
    \/ StartFails
    \/ Close
    \/ Write
    \/ Exit

Spec == Init /\ [][Next]_vars

\* The timer fires, unless the child has settled before; a child may run, stay
\* silent or keep its output open for as long as it likes.
TimedSpec == Spec /\ WF_vars(Timeout)

-----------------------------------------------------------------------------
(* Properties *)

\* Type correctness of the call and its child.
TypeOK ==
    /\ calls \in 0..MaxCalls
    /\ child \in Child
    /\ promise \in {"pending", "resolved", "rejected"}
    /\ outputRead \in 0..child.written
    /\ forceKill \in BOOLEAN
    /\ aborted \in BOOLEAN

\* A result is whole: whatever the timeout, the signal and the streams did, the
\* child it is of has ended well, all its output is in it, and it is in bounds.
ResultIsWhole ==
    promise = "resolved" /\ calls > 0 =>
        /\ child.state = "exited"
        /\ child.code = "zero"
        /\ outputRead = child.written
        /\ outputRead <= MaxOutput

\* Every call ends, though its child ignores SIGTERM or leaves its output to a
\* process of its own that never ends.
EveryCallEnds == promise = "pending" ~> promise # "pending"
=============================================================================
