------------------------- MODULE ProcessRunnerProofs -------------------------
(***************************************************************************)
(* Theorems about ProcessRunner, for any number of children and any limit  *)
(* on their output.                                                        *)
(***************************************************************************)
EXTENDS ProcessRunner, TLAPS

\* A call that exceeds the limit is terminated at once.
PendingIsInBounds == promise = "pending" => outputRead <= MaxOutput

IInv == TypeOK /\ PendingIsInBounds /\ ResultIsWhole

\* A child that was just started, or was not, has written nothing.
LEMMA NewChild ==
    /\ Fresh \in Child /\ Fresh.written = 0
    /\ NotStarted \in Child /\ NotStarted.written = 0
BY ProcessBounds DEF Fresh, NotStarted, Child

\* No child has been started.
LEMMA InitIInv == Init => IInv
<1> SUFFICES ASSUME Init PROVE IInv
    OBVIOUS
<1>1. child \in Child /\ outputRead \in 0..child.written /\ calls \in 0..MaxCalls
    BY ProcessBounds, NewChild DEF Init
<1>2. TypeOK
    BY <1>1 DEF Init, TypeOK
<1>3. ResultIsWhole /\ PendingIsInBounds
    BY DEF Init, ResultIsWhole, PendingIsInBounds
<1> QED
    BY <1>2, <1>3 DEF IInv

\* A pending call is terminated: it is not resolved, and its child is told.
LEMMA TerminateTypes ==
    ASSUME TypeOK, Terminate
    PROVE  /\ promise' = "rejected"
           /\ child' \in Child
           /\ child'.written = child.written
           /\ forceKill' = TRUE
BY DEF TypeOK, Terminate, Reject, Signalled, Child

\* Every step keeps types and results.
LEMMA NextIInv == IInv /\ [Next]_vars => IInv'
<1> SUFFICES ASSUME IInv, [Next]_vars PROVE IInv'
    OBVIOUS
<1> USE ProcessBounds DEF IInv
<1>1. CASE RunProcess
  <2>1. child' \in Child /\ outputRead' \in 0..child'.written /\ calls' \in 0..MaxCalls
      BY <1>1, NewChild DEF RunProcess, TypeOK
  <2>2. TypeOK'
      BY <1>1, <2>1 DEF RunProcess, TypeOK
  <2> QED
      BY <1>1, <2>2, ProcessBounds DEF RunProcess, ResultIsWhole, PendingIsInBounds
<1>2. CASE Timeout
    BY <1>2, TerminateTypes DEF Timeout, TypeOK, ResultIsWhole, PendingIsInBounds
<1>3. CASE Abort
  <2>1. CASE Terminate
      BY <1>3, <2>1, TerminateTypes DEF Abort, TypeOK, ResultIsWhole, PendingIsInBounds
  <2>2. CASE UNCHANGED <<promise, child, forceKill>>
      BY <1>3, <2>2 DEF Abort, TypeOK, ResultIsWhole, PendingIsInBounds
  <2> QED
      BY <1>3, <2>1, <2>2 DEF Abort
<1>4. CASE ForceKill
    BY <1>4 DEF ForceKill, Signalled, TypeOK, ResultIsWhole, PendingIsInBounds, Child
<1>5. CASE Data
  <2>1. outputRead' \in 0..child.written /\ UNCHANGED <<calls, aborted>>
      BY <1>5 DEF Data, TypeOK, Child
  <2>2. CASE Terminate
      BY <2>1, <2>2, TerminateTypes DEF TypeOK, ResultIsWhole, PendingIsInBounds
  <2>3. CASE /\ outputRead' <= MaxOutput \/ completed
             /\ UNCHANGED <<promise, child, forceKill>>
    <3>1. TypeOK'
        BY <2>1, <2>3 DEF TypeOK
    <3>2. (ResultIsWhole /\ PendingIsInBounds)'
        BY <1>5, <2>1, <2>3 DEF Data, TypeOK, ResultIsWhole, PendingIsInBounds, Child,
                                completed
    <3> QED
        BY <3>1, <3>2
  <2> QED
      BY <1>5, <2>2, <2>3 DEF Data
<1>6. CASE StreamError
    BY <1>6 DEF StreamError, Reject, TypeOK, ResultIsWhole, PendingIsInBounds
<1>7. CASE StartFails
  <2>1. child' \in Child /\ child'.written = 0 /\ child.written = 0
      BY <1>7, NewChild DEF StartFails
  <2>2. outputRead' \in 0..child'.written
      BY <1>7, <2>1 DEF StartFails, TypeOK
  <2>3. promise' = "rejected" /\ UNCHANGED <<calls, forceKill, aborted>>
      BY <1>7 DEF StartFails, Reject
  <2>4. TypeOK'
      BY <2>1, <2>2, <2>3 DEF TypeOK
  <2> QED
      BY <2>3, <2>4 DEF ResultIsWhole, PendingIsInBounds
<1>8. CASE Close
  <2>1. /\ promise' \in {"resolved", "rejected"}
        /\ promise' = "resolved" => child.code = "zero"
        /\ UNCHANGED <<calls, child, outputRead, forceKill, aborted>>
      BY <1>8 DEF Close, Settled
  <2>2. TypeOK'
      BY <2>1 DEF TypeOK
  <2>3. ResultIsWhole'
      BY <1>8, <2>1 DEF Close, PendingIsInBounds, ResultIsWhole, TypeOK, completed
  <2> QED
      BY <2>1, <2>2, <2>3 DEF PendingIsInBounds
<1>9. CASE Write
    BY <1>9 DEF Write, TypeOK, ResultIsWhole, PendingIsInBounds, Child
<1>10. CASE Exit
    BY <1>10 DEF Exit, TypeOK, ResultIsWhole, PendingIsInBounds, Child
<1>11. CASE UNCHANGED vars
    BY <1>11 DEF vars, TypeOK, ResultIsWhole, PendingIsInBounds
<1> QED
    BY <1>1, <1>2, <1>3, <1>4, <1>5, <1>6, <1>7, <1>8, <1>9, <1>10, <1>11 DEF Next

\* The call, its child and its output keep their types.
THEOREM ProcessTypeOK == Spec => []TypeOK
<1> QED
    BY InitIInv, NextIInv, PTL DEF Spec, IInv

\* A call resolves only with a child that ended well and with all of its output,
\* within the limit; types are kept.
THEOREM ResultsAreWhole == Spec => []ResultIsWhole
<1> QED
    BY InitIInv, NextIInv, PTL DEF Spec, IInv
=============================================================================
