---------------------------- MODULE OutboxProofs ----------------------------
(***************************************************************************)
(* Theorems about Outbox, for any set of delivering threads and any number *)
(* of attempts.                                                            *)
(***************************************************************************)
EXTENDS Outbox, TLAPS

\* What a thread that is at work knows: the attempts it read left room for one
\* more and were all spent on sends that failed.
WorkerInv(d) ==
    LET w == workers[d] IN
    /\ w.at \in {"sending", "accepted", "failed"} => w.attempts < MaxAttempts
    /\ w.at \in {"sending", "failed"} => w.attempts <= failures
    /\ w.at = "failed" => w.attempts + 1 <= failures
    /\ w.at = "accepted" => acked

IInv ==
    /\ TypeOK
    /\ DeadIsEarned
    /\ DeliveredIsTrue
    /\ notice.status = "PENDING" => notice.attempts < MaxAttempts /\ notice.attempts <= failures
    /\ \A d \in Deliverers : WorkerInv(d)

LEMMA InitInv == Init => IInv
<1> SUFFICES ASSUME Init PROVE IInv
  OBVIOUS
<1> USE MaxAttemptsAssumption, MaxSubmittedAssumption DEF Init
<1>1. notice \in Notices /\ Idle \in Workers /\ submitted \in 0..MaxSubmitted
  BY DEF Notices, Workers, Idle
<1>2. acked \in BOOLEAN
  OBVIOUS
<1>3. TypeOK
  BY <1>1, <1>2 DEF TypeOK
<1>4. \A d \in Deliverers : WorkerInv(d)
  BY DEF WorkerInv, Idle
<1> QED
  BY <1>3, <1>4 DEF IInv, DeadIsEarned, DeliveredIsTrue

\* A thread that reads the row sends only what is still pending.
LEMMA ReadRowInv ==
    ASSUME IInv, NEW d \in Deliverers, ReadRow(d), submitted' \in 0..MaxSubmitted,
           UNCHANGED <<notice, acked, failures>>
    PROVE  IInv'
<1> USE DEF IInv, TypeOK, Notices
<1> DEFINE w == IF notice.status = "PENDING"
                  THEN [at |-> "sending", attempts |-> notice.attempts] ELSE Idle
<1>1. w \in Workers
  BY MaxAttemptsAssumption DEF Workers, Idle
<1>2. workers' = [workers EXCEPT ![d] = w]
  BY DEF ReadRow
<1>3. TypeOK'
  BY <1>1, <1>2
<1>4. ASSUME NEW e \in Deliverers PROVE WorkerInv(e)'
  <2>1. CASE e = d
    BY <1>2, <2>1 DEF WorkerInv, Idle
  <2>2. CASE e # d
    BY <1>2, <2>2 DEF WorkerInv
  <2> QED
    BY <2>1, <2>2
<1> QED
  BY <1>3, <1>4 DEF DeadIsEarned, DeliveredIsTrue

LEMMA SendInv ==
    ASSUME IInv, NEW d \in Deliverers, Send(d)
    PROVE  IInv'
<1> USE MaxAttemptsAssumption DEF IInv, TypeOK, Notices
<1>1. notice' = notice /\ submitted' = submitted /\ workers[d] \in Workers
  BY DEF Send
<1>2. /\ failures' \in 0..MaxAttempts /\ failures <= failures'
      /\ acked => acked'
      /\ acked' \in BOOLEAN
  <2>1. failures' \in 0..MaxAttempts /\ failures <= failures'
    BY DEF Send
  <2>2. (acked => acked') /\ acked' \in BOOLEAN
    <3>1. acked' = TRUE \/ acked' = acked
      BY DEF Send
    <3>2. acked \in BOOLEAN
      OBVIOUS
    <3>3. CASE acked' = TRUE
      BY <3>3
    <3>4. CASE acked' = acked
      BY <3>2, <3>4
    <3> QED
      BY <3>1, <3>3, <3>4
  <2> QED
    BY <2>1, <2>2
<1>3. workers' \in [Deliverers -> Workers]
  BY DEF Send, Workers
<1>4. ASSUME NEW e \in Deliverers PROVE WorkerInv(e)'
  <2>1. workers[e] \in Workers
    OBVIOUS
  <2>2. CASE e # d
    <3>1. workers'[e] = workers[e]
      BY <2>2 DEF Send
    <3> QED
      BY <1>2, <2>1, <3>1 DEF WorkerInv, Workers
  <2>3. CASE e = d /\ workers' = [workers EXCEPT ![d].at = "accepted"] /\ acked' = TRUE
    BY <1>1, <2>3 DEF WorkerInv, Workers, Send
  <2>4. CASE /\ e = d
             /\ workers' = [workers EXCEPT ![d].at = "failed"]
             /\ failures' = IF failures < MaxAttempts THEN failures + 1 ELSE failures
    <3>1. /\ workers'[e].at = "failed" /\ workers'[e].attempts = workers[d].attempts
          /\ workers[d].at = "sending" /\ workers[d].attempts \in 0..MaxAttempts
      BY <1>1, <2>4 DEF Workers, Send
    <3>2. workers[d].attempts < MaxAttempts /\ workers[d].attempts <= failures
      BY <3>1 DEF WorkerInv
    <3>3. workers[d].attempts + 1 <= failures'
      BY <2>4, <3>1, <3>2
    <3> QED
      BY <1>2, <3>1, <3>2, <3>3 DEF WorkerInv
  <2> QED
    BY <2>2, <2>3, <2>4 DEF Send
<1>5. DeadIsEarned' /\ DeliveredIsTrue'
  BY <1>1, <1>2 DEF DeadIsEarned, DeliveredIsTrue
<1> QED
  BY <1>1, <1>2, <1>3, <1>4, <1>5

\* A thread that records, or dies, goes idle or to sleep; the others are where
\* they were.
LEMMA RecordWorkers ==
    ASSUME IInv, NEW d \in Deliverers, NEW w \in Workers, w.at \in {"idle", "sleeping"},
           workers' = [workers EXCEPT ![d] = w], UNCHANGED <<acked, failures>>
    PROVE  workers' \in [Deliverers -> Workers] /\ \A e \in Deliverers : WorkerInv(e)'
<1>1. ASSUME NEW e \in Deliverers PROVE WorkerInv(e)'
  <2>1. CASE e = d
    BY <2>1 DEF IInv, TypeOK, WorkerInv
  <2>2. CASE e # d
    BY <2>2 DEF IInv, TypeOK, WorkerInv
  <2> QED
    BY <2>1, <2>2
<1> QED
  BY <1>1 DEF IInv, TypeOK

LEMMA IdleType ==
    ASSUME NEW at \in {"idle", "sleeping"}
    PROVE  Idle \in Workers /\ Idle.at = "idle" /\ [at |-> at, attempts |-> 0] \in Workers
BY MaxAttemptsAssumption DEF Idle, Workers

LEMMA RecordDeliveredInv ==
    ASSUME IInv, NEW d \in Deliverers, RecordDelivered(d)
    PROVE  IInv' /\ notice'.status # "PENDING"
<1>1. workers' \in [Deliverers -> Workers] /\ \A e \in Deliverers : WorkerInv(e)'
  BY IdleType, RecordWorkers DEF RecordDelivered
<1>2. workers[d].attempts \in 0..MaxAttempts /\ workers[d].attempts < MaxAttempts /\ acked
  BY DEF RecordDelivered, IInv, TypeOK, Workers, WorkerInv
<1>3. notice' \in Notices /\ notice'.status = "DELIVERED"
  BY <1>2, MaxAttemptsAssumption DEF RecordDelivered, Notices
<1> QED
  BY <1>1, <1>2, <1>3 DEF RecordDelivered, IInv, TypeOK, DeadIsEarned, DeliveredIsTrue

LEMMA RecordFailureInv ==
    ASSUME IInv, NEW d \in Deliverers, RecordFailure(d)
    PROVE  IInv' /\ (notice.status # "PENDING" => notice'.status # "PENDING")
<1> DEFINE read == workers[d].attempts
           w == IF Dead(read) THEN Idle ELSE [at |-> "sleeping", attempts |-> 0]
<1>1. w \in Workers /\ w.at \in {"idle", "sleeping"}
  BY IdleType
<1>2. workers' \in [Deliverers -> Workers] /\ \A e \in Deliverers : WorkerInv(e)'
  <2>1. workers' = [workers EXCEPT ![d] = w] /\ UNCHANGED <<acked, failures>>
    BY DEF RecordFailure
  <2> HIDE DEF w
  <2> QED
    BY <1>1, <2>1, RecordWorkers
<1>3. /\ read \in 0..MaxAttempts /\ read < MaxAttempts /\ read + 1 <= failures
      /\ failures \in 0..MaxAttempts /\ notice \in Notices
  BY DEF RecordFailure, IInv, TypeOK, Workers, WorkerInv
<1>4. /\ notice'.status = (IF Dead(read) THEN "DEAD" ELSE notice.status)
      /\ notice'.attempts = read + 1
      /\ notice' \in Notices
  BY <1>3, MaxAttemptsAssumption DEF RecordFailure, Failed, Notices
<1>5. DeadIsEarned'
  BY <1>3, <1>4, MaxAttemptsAssumption DEF RecordFailure, IInv, DeadIsEarned, Dead
<1>6. DeliveredIsTrue'
  BY <1>4 DEF RecordFailure, IInv, DeliveredIsTrue
<1>7. notice'.status = "PENDING" =>
        /\ notice.status = "PENDING"
        /\ notice'.attempts < MaxAttempts
        /\ notice'.attempts <= failures
  BY <1>3, <1>4, MaxAttemptsAssumption DEF Dead
<1> QED
  BY <1>2, <1>4, <1>5, <1>6, <1>7 DEF RecordFailure, IInv, TypeOK

LEMMA NextInv ==
    IInv /\ [Next]_vars => IInv' /\ (notice.status # "PENDING" => notice'.status # "PENDING")
<1> SUFFICES ASSUME IInv, [Next]_vars
             PROVE  IInv' /\ (notice.status # "PENDING" => notice'.status # "PENDING")
  OBVIOUS
<1>1. CASE Scan \/ Forget \/ UNCHANGED vars
  <2>1. submitted' \in 0..MaxSubmitted /\ UNCHANGED <<notice, workers, acked, failures>>
    BY <1>1, MaxSubmittedAssumption DEF Scan, Forget, vars, IInv, TypeOK
  <2> QED
    BY <2>1 DEF IInv, TypeOK, DeadIsEarned, DeliveredIsTrue, WorkerInv
<1>2. CASE BecomesDue
  <2>1. /\ notice' \in Notices /\ notice'.status = notice.status
        /\ notice'.attempts = notice.attempts
        /\ UNCHANGED <<submitted, workers, acked, failures>>
    BY <1>2 DEF BecomesDue, IInv, TypeOK, Notices
  <2> QED
    BY <2>1 DEF IInv, TypeOK, DeadIsEarned, DeliveredIsTrue, WorkerInv
<1>3. ASSUME NEW d \in Deliverers, Deliver(d) \/ Crash(d)
      PROVE  IInv' /\ (notice.status # "PENDING" => notice'.status # "PENDING")
  <2>1. CASE PickUp(d)
    <3>1. submitted' \in 0..MaxSubmitted
      BY <2>1, MaxSubmittedAssumption DEF PickUp, IInv, TypeOK
    <3> QED
      BY <2>1, <3>1, ReadRowInv DEF PickUp
  <2>2. CASE Wake(d)
    BY <2>2, ReadRowInv DEF Wake, IInv, TypeOK
  <2>3. CASE Send(d)
    BY <2>3, SendInv DEF Send
  <2>4. CASE RecordDelivered(d)
    BY <2>4, RecordDeliveredInv
  <2>5. CASE RecordFailure(d)
    BY <2>5, RecordFailureInv
  <2>6. CASE Crash(d)
    <3>1. workers' \in [Deliverers -> Workers] /\ \A e \in Deliverers : WorkerInv(e)'
      BY <2>6, IdleType, RecordWorkers DEF Crash
    <3> QED
      BY <2>6, <3>1 DEF Crash, IInv, TypeOK, DeadIsEarned, DeliveredIsTrue
  <2> QED
    BY <1>3, <2>1, <2>2, <2>3, <2>4, <2>5, <2>6 DEF Deliver
<1> QED
  BY <1>1, <1>2, <1>3 DEF Next

\* The notice and its threads keep their types.
THEOREM OutboxTypeOK == Spec => []TypeOK
<1>1. IInv => TypeOK
  BY DEF IInv
<1> QED
  BY <1>1, InitInv, NextInv, PTL DEF Spec

\* A notice is given up only after max_attempts failures, whatever the threads
\* write over each other's counts.
THEOREM SettledRightly == Spec => []DeadIsEarned
<1>1. IInv => DeadIsEarned
  BY DEF IInv
<1> QED
  BY <1>1, InitInv, NextInv, PTL DEF Spec

\* A notice is delivered only after the sink has accepted it.
THEOREM DeliveriesAreTrue == Spec => []DeliveredIsTrue
<1>1. IInv => DeliveredIsTrue
  BY DEF IInv
<1> QED
  BY <1>1, InitInv, NextInv, PTL DEF Spec

\* No thread, however slow, puts a settled notice back among the pending ones.
THEOREM SettledForGood == Spec => SettledStays
<1>1. IInv /\ [Next]_vars => [notice.status # "PENDING" => notice'.status # "PENDING"]_vars
  BY NextInv
<1> QED
  BY <1>1, InitInv, NextInv, PTL DEF Spec, SettledStays
=============================================================================
