------------------------- MODULE PrepareIntakeProofs -------------------------
(***************************************************************************)
(* Theorems about PrepareIntake, for any sets of requests, tasks and       *)
(* callbacks.                                                              *)
(*                                                                         *)
(* The argument: a thread between its claim and its commit either made the *)
(* row, and then holds its task's lock and the table has no row yet, or    *)
(* joined the row that the table has.  Keys are committed with their jobs, *)
(* so the key's own check can refuse nobody who came past the row's.       *)
(***************************************************************************)
EXTENDS PrepareIntake, TLAPS

RowOf(r) == [job |-> threads[r].job, callback |-> Callback(r)]

Inserting(r) == threads[r].created /\ threads[r].step \in {"claim", "store", "commit"}

Served(r) == threads[r].step \in {"claim", "store", "commit", "submit", "reply", "accepted"}

\* What a thread knows of its task's row.
ThreadInv ==
    \A r \in Requests :
        /\ threads[r].step = "new" <=> threads[r].asked = None
        /\ threads[r].created => threads[r].job = r
        /\ threads[r].step \in {"store", "submit"} => threads[r].created
        /\ threads[r].step \in {"new", "find", "insert"} => ~threads[r].created
        /\ Served(r) => threads[r].job # None
        /\ Inserting(r) => jobs[Task(r)] = None
        /\ Served(r) /\ ~Inserting(r) => jobs[Task(r)] = RowOf(r)
        /\ threads[r].step = "refused" =>
               jobs[Task(r)] # None /\ jobs[Task(r)].callback # Callback(r)
        /\ threads[r].created /\ threads[r].step \in {"commit", "submit", "reply", "accepted"} =>
               r \in files

OneHolder ==
    \A r, o \in Requests : Inserting(r) /\ Inserting(o) /\ Task(r) = Task(o) => r = o

TableInv ==
    /\ keys = jobs
    /\ \A t \in Tasks : jobs[t] # None => jobs[t].job \in files

LaunchInv ==
    \A l \in launches :
        /\ l.by = l.job
        /\ threads[l.job].created
        /\ threads[l.job].step \in {"reply", "accepted", "lost"}
        /\ l.job \in files
        /\ jobs[Task(l.job)] # None
        /\ jobs[Task(l.job)].job = l.job

IInv == TypeOK /\ ThreadInv /\ OneHolder /\ TableInv /\ LaunchInv

-----------------------------------------------------------------------------
(* Every action changes the thread of one request. *)

\* The thread of request r moves to step s, has job j and flag c from now on,
\* and no other thread changes.
Moves(r, s, j, c) ==
    /\ threads' \in [Requests -> Thread]
    /\ \A o \in Requests \ {r} : threads'[o] = threads[o]
    /\ threads'[r].step = s
    /\ threads'[r].asked = threads[r].asked
    /\ threads'[r].job = j
    /\ threads'[r].created = c

LEMMA NoneIsNoRow ==
    /\ None \notin Requests
    /\ None \notin [task : Tasks, callback : Callbacks]
    /\ None \notin Rows
BY NoneAssumption DEF Rows

\* Goto, Join and Created are such moves.
LEMMA GotoMoves ==
    ASSUME TypeOK, NEW r \in Requests, NEW s \in Steps, Goto(r, s)
    PROVE  Moves(r, s, threads[r].job, threads[r].created)
BY DEF TypeOK, Thread, Goto, Moves

LEMMA CreatedMoves ==
    ASSUME TypeOK, NEW r \in Requests, Created(r)
    PROVE  Moves(r, "claim", r, TRUE)
BY DEF TypeOK, Thread, Created, Moves, Steps

LEMMA JoinMoves ==
    ASSUME TypeOK, NEW r \in Requests, Join(r), jobs[Task(r)] \in Rows
    PROVE  IF jobs[Task(r)].callback = Callback(r)
           THEN Moves(r, "claim", jobs[Task(r)].job, threads[r].created)
           ELSE Moves(r, "refused", threads[r].job, threads[r].created)
<1>1. CASE jobs[Task(r)].callback = Callback(r)
  BY <1>1 DEF TypeOK, Thread, Join, Moves, Steps, Rows
<1>2. CASE jobs[Task(r)].callback # Callback(r)
  BY <1>2, GotoMoves DEF Join, Steps
<1> QED
  BY <1>1, <1>2

\* A move that changes nothing but the thread keeps the invariant, if what the
\* thread is to know of its row is so and its launch, if it has one, is behind it.
LEMMA MoveKeeps ==
    ASSUME IInv, NEW r \in Requests, NEW s \in Steps \ {"new"},
           NEW j \in Requests \union {None}, NEW c \in BOOLEAN,
           Moves(r, s, j, c), UNCHANGED <<jobs, keys, launches, failed>>,
           files' = files \/ files' = files \union {r},
           threads[r].asked # None,
           c => j = r,
           s \in {"store", "submit"} => c,
           s \in {"find", "insert"} => ~c,
           s \in {"claim", "store", "commit", "submit", "reply", "accepted"} =>
               IF c /\ s \in {"claim", "store", "commit"}
               THEN /\ jobs[Task(r)] = None
                    /\ \A o \in Requests \ {r} : ~(Inserting(o) /\ Task(o) = Task(r))
               ELSE jobs[Task(r)] = [job |-> j, callback |-> Callback(r)],
           s \in {"claim", "store", "commit", "submit", "reply", "accepted"} => j # None,
           s = "refused" => jobs[Task(r)] # None /\ jobs[Task(r)].callback # Callback(r),
           c /\ s \in {"commit", "submit", "reply", "accepted"} => r \in files',
           threads[r].step \in {"reply", "accepted", "lost"} =>
               s \in {"reply", "accepted", "lost"} /\ c = threads[r].created
    PROVE  IInv'
<1>1. /\ \A o \in Requests \ {r} : threads'[o] = threads[o]
      /\ threads'[r].step = s
      /\ threads'[r].asked = threads[r].asked
      /\ threads'[r].job = j
      /\ threads'[r].created = c
      /\ threads' \in [Requests -> Thread]
  BY DEF Moves
<1>2. /\ Task(r)' = Task(r) /\ Callback(r)' = Callback(r)
      /\ \A o \in Requests : Task(o)' = Task(o) /\ Callback(o)' = Callback(o)
  BY <1>1 DEF Task, Callback
<1>3. TypeOK'
  BY <1>1 DEF IInv, TypeOK
<1>4. ThreadInv'
  <2> SUFFICES ASSUME NEW o \in Requests PROVE ThreadInv!(o)'
    BY DEF ThreadInv
  <2>1. CASE o = r
    BY <1>1, <1>2, <2>1 DEF Inserting, Served, RowOf
  <2>2. CASE o # r
    BY <1>1, <1>2, <2>2 DEF IInv, ThreadInv, Inserting, Served, RowOf
  <2> QED
    BY <2>1, <2>2
<1>5. OneHolder'
  <2> SUFFICES ASSUME NEW o \in Requests, NEW p \in Requests, Inserting(o)', Inserting(p)',
                      Task(o)' = Task(p)', o # p
               PROVE  FALSE
    BY DEF OneHolder
  <2>1. CASE o = r
    <3>1. c /\ s \in {"claim", "store", "commit"}
      BY <1>1, <2>1 DEF Inserting
    <3>2. ~(Inserting(p) /\ Task(p) = Task(r))
      BY <2>1, <3>1
    <3> QED
      BY <1>1, <1>2, <2>1, <3>2 DEF Inserting
  <2>2. CASE p = r
    <3>1. c /\ s \in {"claim", "store", "commit"}
      BY <1>1, <2>2 DEF Inserting
    <3>2. ~(Inserting(o) /\ Task(o) = Task(r))
      BY <2>2, <3>1
    <3> QED
      BY <1>1, <1>2, <2>2, <3>2 DEF Inserting
  <2>3. CASE o # r /\ p # r
    BY <1>1, <1>2, <2>3 DEF Inserting, IInv, OneHolder
  <2> QED
    BY <2>1, <2>2, <2>3
<1>6. TableInv'
  BY DEF IInv, TableInv
<1>7. LaunchInv'
  <2> SUFFICES ASSUME NEW l \in launches PROVE LaunchInv!(l)'
    BY DEF LaunchInv
  <2>1. l.job \in Requests
    BY DEF IInv, TypeOK
  <2> QED
    BY <1>1, <1>2, <2>1 DEF IInv, LaunchInv
<1> QED
  BY <1>3, <1>4, <1>5, <1>6, <1>7 DEF IInv

LEMMA InitInv == Init => IInv
<1> SUFFICES ASSUME Init PROVE IInv
  OBVIOUS
<1>1. TypeOK
  BY DEF Init, TypeOK, Thread, Steps
<1>2. ThreadInv
  BY DEF Init, ThreadInv, Served, Inserting
<1>3. OneHolder
  BY DEF Init, OneHolder, Inserting
<1>4. TableInv /\ LaunchInv
  BY DEF Init, TableInv, LaunchInv
<1> QED
  BY <1>1, <1>2, <1>3, <1>4 DEF IInv

\* What IInv says of a thread that is past its arrival.
LEMMA Asking ==
    ASSUME IInv, NEW r \in Requests, threads[r].step # "new"
    PROVE  /\ threads[r].asked \in [task : Tasks, callback : Callbacks]
           /\ Task(r) \in Tasks /\ Callback(r) \in Callbacks
           /\ jobs[Task(r)] \in Rows \union {None}
           /\ keys[Task(r)] = jobs[Task(r)]
           /\ threads[r].job \in Requests \union {None}
           /\ threads[r].created \in BOOLEAN
<1>1. threads[r].asked \in [task : Tasks, callback : Callbacks]
  BY DEF IInv, TypeOK, Thread, ThreadInv
<1>2. Task(r) \in Tasks /\ Callback(r) \in Callbacks
  BY <1>1 DEF Task, Callback
<1> QED
  BY <1>1, <1>2 DEF IInv, TypeOK, Thread, TableInv

\* Whoever finds a committed row joins it, or is refused.
LEMMA JoinKeeps ==
    ASSUME IInv, NEW r \in Requests, threads[r].step \in {"find", "insert"},
           jobs[Task(r)] # None, Join(r), UNCHANGED <<jobs, keys, files, launches, failed>>
    PROVE  IInv'
<1>1. /\ threads[r].asked # None /\ ~threads[r].created
      /\ threads[r].job \in Requests \union {None} /\ jobs[Task(r)] \in Rows
  BY Asking, NoneIsNoRow DEF IInv, ThreadInv
<1>2. CASE jobs[Task(r)].callback = Callback(r)
  <2>1. Moves(r, "claim", jobs[Task(r)].job, FALSE)
    BY <1>1, <1>2, JoinMoves DEF IInv, ThreadInv, TypeOK, Thread
  <2>2. /\ jobs[Task(r)].job \in Requests
        /\ jobs[Task(r)] = [job |-> jobs[Task(r)].job, callback |-> Callback(r)]
    BY <1>1, <1>2 DEF Rows
  <2> QED
    BY <1>1, <2>1, <2>2, MoveKeeps, NoneIsNoRow DEF Steps
<1>3. CASE jobs[Task(r)].callback # Callback(r)
  <2>1. Moves(r, "refused", threads[r].job, FALSE)
    BY <1>1, <1>3, JoinMoves DEF IInv, ThreadInv, TypeOK, Thread
  <2> QED
    BY <1>1, <1>3, <2>1, MoveKeeps DEF Steps
<1> QED
  BY <1>2, <1>3

LEMMA FindPrepareKeeps ==
    ASSUME IInv, NEW r \in Requests, FindPrepare(r)
    PROVE  IInv'
<1>1. threads[r].step = "find" /\ UNCHANGED <<jobs, keys, files, launches, failed>>
  BY DEF FindPrepare, At
<1>2. CASE jobs[Task(r)] # None
  BY <1>1, <1>2, JoinKeeps DEF FindPrepare
<1>3. CASE jobs[Task(r)] = None
  <2>1. /\ threads[r].asked # None /\ threads[r].created = FALSE
        /\ threads[r].job \in Requests \union {None}
    BY <1>1, Asking DEF IInv, ThreadInv
  <2>2. Moves(r, "insert", threads[r].job, FALSE)
    BY <1>3, <2>1, GotoMoves DEF FindPrepare, IInv, Steps
  <2> QED
    BY <1>1, <2>1, <2>2, MoveKeeps DEF Steps
<1> QED
  BY <1>2, <1>3

\* An insert into a task without a row takes the lock that nobody holds.
LEMMA InsertJobKeeps ==
    ASSUME IInv, NEW r \in Requests, InsertJob(r)
    PROVE  IInv'
<1>1. threads[r].step = "insert" /\ UNCHANGED <<jobs, keys, files, launches, failed>>
  BY DEF InsertJob, At
<1>2. CASE jobs[Task(r)] # None
  BY <1>1, <1>2, JoinKeeps DEF InsertJob
<1>3. CASE jobs[Task(r)] = None
  <2>1. threads[r].asked # None
    BY <1>1 DEF IInv, ThreadInv
  <2>2. Moves(r, "claim", r, TRUE)
    BY <1>3, CreatedMoves DEF InsertJob, IInv
  <2>3. \A o \in Requests \ {r} : ~(Inserting(o) /\ Task(o) = Task(r))
    BY DEF InsertJob, Holds, Inserting
  <2> QED
    BY <1>1, <1>3, <2>1, <2>2, <2>3, MoveKeeps, NoneIsNoRow DEF Steps
<1> QED
  BY <1>2, <1>3

\* The key is committed with the job, so it names the job that was found.
LEMMA ClaimKeyKeeps ==
    ASSUME IInv, NEW r \in Requests, ClaimKey(r)
    PROVE  IInv'
<1>1. threads[r].step = "claim" /\ UNCHANGED <<jobs, keys, files, launches, failed>>
  BY DEF ClaimKey, At
<1>2. /\ threads[r].asked # None /\ keys[Task(r)] = jobs[Task(r)]
      /\ threads[r].job \in Requests /\ threads[r].created \in BOOLEAN
      /\ threads[r].created => threads[r].job = r
  BY <1>1, Asking DEF IInv, ThreadInv, Served
<1>3. CASE threads[r].created
  <2>1. jobs[Task(r)] = None
    BY <1>1, <1>3 DEF IInv, ThreadInv, Inserting
  <2>2. Moves(r, "store", r, TRUE)
    BY <1>2, <1>3, <2>1, GotoMoves DEF ClaimKey, IInv, Steps
  <2>3. \A o \in Requests \ {r} : ~(Inserting(o) /\ Task(o) = Task(r))
    BY <1>1, <1>3 DEF IInv, OneHolder, Inserting
  <2> QED
    BY <1>1, <1>2, <2>1, <2>2, <2>3, MoveKeeps, NoneIsNoRow DEF Steps
<1>4. CASE ~threads[r].created
  <2>1. jobs[Task(r)] = [job |-> threads[r].job, callback |-> Callback(r)]
    BY <1>1, <1>4 DEF IInv, ThreadInv, Inserting, Served, RowOf
  <2>2. keys[Task(r)].job = threads[r].job /\ keys[Task(r)].callback = Callback(r)
    BY <1>2, <2>1
  <2>3. Moves(r, "commit", threads[r].job, FALSE)
    BY <1>2, <1>4, <2>2, GotoMoves DEF ClaimKey, IInv, Steps
  <2> QED
    BY <1>1, <1>2, <2>1, <2>3, MoveKeeps, NoneIsNoRow DEF Steps
<1> QED
  BY <1>3, <1>4

LEMMA StorePlanKeeps ==
    ASSUME IInv, NEW r \in Requests, StorePlan(r)
    PROVE  IInv'
<1>1. /\ threads[r].step = "store" /\ UNCHANGED <<jobs, keys, launches, failed>>
      /\ files' = files \union {threads[r].job}
  BY DEF StorePlan, At
<1>2. /\ threads[r].asked # None /\ threads[r].created = TRUE
      /\ threads[r].job = r
      /\ jobs[Task(r)] = None
  BY <1>1, Asking DEF IInv, ThreadInv, Inserting
<1>3. Moves(r, "commit", r, TRUE)
  BY <1>2, GotoMoves DEF StorePlan, IInv, Steps
<1>4. \A o \in Requests \ {r} : ~(Inserting(o) /\ Task(o) = Task(r))
  BY <1>1, <1>2 DEF IInv, OneHolder, Inserting
<1> QED
  BY <1>1, <1>2, <1>3, <1>4, MoveKeeps, NoneIsNoRow DEF Steps

\* The commit of a thread that joined changes no table.
LEMMA CommitJoinedKeeps ==
    ASSUME IInv, NEW r \in Requests, Commit(r), ~threads[r].created
    PROVE  IInv' /\ UNCHANGED <<jobs, keys, files, launches, failed>>
<1>1. threads[r].step = "commit" /\ UNCHANGED <<jobs, files, launches, failed>>
  BY DEF Commit, At
<1>2. /\ threads[r].asked # None /\ keys[Task(r)] = jobs[Task(r)]
      /\ jobs[Task(r)] = [job |-> threads[r].job, callback |-> Callback(r)]
      /\ threads[r].job \in Requests /\ Callback(r) \in Callbacks
  BY <1>1, Asking DEF IInv, ThreadInv, Inserting, Served, RowOf
<1>3. jobs[Task(r)] # None
  BY <1>2, NoneIsNoRow DEF Rows
<1>4. keys' = keys
  BY <1>2, <1>3 DEF Commit, Committed
<1>5. Moves(r, "reply", threads[r].job, FALSE)
  BY <1>1, Asking, GotoMoves DEF Commit, IInv, Steps
<1>6. IInv'
  BY <1>1, <1>2, <1>4, <1>5, MoveKeeps, NoneIsNoRow DEF Steps
<1> QED
  BY <1>1, <1>4, <1>6

\* The commit of the thread that made the row: it gives up the lock and the row
\* is in the table, in one step.
LEMMA CommitCreatedKeeps ==
    ASSUME IInv, NEW r \in Requests, Commit(r), threads[r].created
    PROVE  /\ IInv'
           /\ jobs[Task(r)] = None
           /\ jobs' = [jobs EXCEPT ![Task(r)] = [job |-> r, callback |-> Callback(r)]]
<1>1. threads[r].step = "commit" /\ UNCHANGED <<files, launches, failed>>
  BY DEF Commit, At
<1>2. /\ threads[r].asked # None /\ keys = jobs
      /\ Task(r) \in Tasks /\ Callback(r) \in Callbacks
      /\ jobs[Task(r)] = None /\ threads[r].job = r /\ r \in files
  BY <1>1, Asking DEF IInv, ThreadInv, TableInv, Inserting
<1>3. /\ jobs' = [jobs EXCEPT ![Task(r)] = [job |-> r, callback |-> Callback(r)]]
      /\ keys' = jobs'
  BY <1>2 DEF Commit, Committed
<1>4. Moves(r, "submit", r, TRUE)
  BY <1>2, Asking, <1>1, GotoMoves DEF Commit, IInv, Steps
<1>5. \A o \in Requests : Task(o)' = Task(o) /\ Callback(o)' = Callback(o)
  BY <1>4 DEF Moves, Task, Callback
<1>6. /\ jobs' \in [Tasks -> Rows \union {None}]
      /\ jobs'[Task(r)] = [job |-> r, callback |-> Callback(r)]
      /\ jobs'[Task(r)] # None
      /\ \A t \in Tasks \ {Task(r)} : jobs'[t] = jobs[t]
  BY <1>2, <1>3, NoneIsNoRow DEF IInv, TypeOK, Rows
<1>7. TypeOK'
  BY <1>1, <1>3, <1>4, <1>6 DEF IInv, TypeOK, Moves
<1>8. ThreadInv'
  <2> SUFFICES ASSUME NEW o \in Requests PROVE ThreadInv!(o)'
    BY DEF ThreadInv
  <2>1. CASE o = r
    BY <1>1, <1>2, <1>4, <1>5, <1>6, <2>1, NoneIsNoRow
       DEF Moves, Inserting, Served, RowOf
  <2>2. CASE o # r
    <3>1. threads'[o] = threads[o]
      BY <1>4, <2>2 DEF Moves
    <3>2. CASE threads[o].step = "new"
      BY <3>1, <3>2 DEF IInv, ThreadInv, Inserting, Served
    <3>3. CASE threads[o].step # "new" /\ Task(o) # Task(r)
      <4>1. jobs'[Task(o)] = jobs[Task(o)]
        BY <1>6, <3>3, Asking
      <4> QED
        BY <1>1, <1>5, <3>1, <4>1 DEF IInv, ThreadInv, Inserting, Served, RowOf
    <3>4. CASE threads[o].step # "new" /\ Task(o) = Task(r)
      <4>1. ~Inserting(o)
        BY <1>1, <2>2, <3>4 DEF IInv, OneHolder, Inserting
      <4>2. ASSUME Served(o) PROVE FALSE
        <5>1. threads[o].job \in Requests /\ Callback(o) \in Callbacks
          BY <3>4, <4>2, Asking DEF IInv, ThreadInv
        <5>2. RowOf(o) \in Rows
          BY <5>1 DEF RowOf, Rows
        <5>3. jobs[Task(o)] = RowOf(o)
          BY <4>1, <4>2 DEF IInv, ThreadInv
        <5> QED
          BY <1>2, <3>4, <5>2, <5>3, NoneIsNoRow
      <4>3. threads[o].step # "refused"
        BY <1>2, <3>4 DEF IInv, ThreadInv
      <4> QED
        BY <1>1, <3>1, <4>1, <4>2, <4>3 DEF IInv, ThreadInv, Inserting, Served
    <3> QED
      BY <3>2, <3>3, <3>4
  <2> QED
    BY <2>1, <2>2
<1>9. OneHolder'
  BY <1>4, <1>5 DEF Moves, Inserting, IInv, OneHolder
<1>10. TableInv'
  BY <1>1, <1>2, <1>3, <1>6 DEF IInv, TableInv
<1>11. LaunchInv'
  <2> SUFFICES ASSUME NEW l \in launches PROVE LaunchInv!(l)'
    BY <1>1 DEF LaunchInv
  <2>1. /\ l.job \in Requests /\ l.job # r
        /\ threads[l.job].step # "new"
        /\ jobs[Task(l.job)] # None
    BY <1>1 DEF IInv, TypeOK, LaunchInv
  <2>2. jobs'[Task(l.job)] = jobs[Task(l.job)]
    BY <1>2, <1>6, <2>1, Asking
  <2> QED
    BY <1>1, <1>4, <1>5, <2>1, <2>2 DEF Moves, IInv, LaunchInv
<1> QED
  BY <1>2, <1>3, <1>7, <1>8, <1>9, <1>10, <1>11 DEF IInv

LEMMA SubmitKeeps ==
    ASSUME IInv, NEW r \in Requests, Submit(r)
    PROVE  /\ IInv'
           /\ jobs[Task(r)] # None /\ jobs[Task(r)].job = r
           /\ Task(r) \in Tasks
           /\ launches' = launches \union {[job |-> r, by |-> r]}
           /\ \A l \in launches : l.job # r
<1>1. /\ threads[r].step = "submit" /\ UNCHANGED <<jobs, keys, files, failed>>
      /\ launches' = launches \union {[job |-> threads[r].job, by |-> r]}
  BY DEF Submit, At
<1>2. /\ threads[r].asked # None /\ threads[r].created = TRUE /\ threads[r].job = r
      /\ jobs[Task(r)] = [job |-> r, callback |-> Callback(r)]
      /\ Task(r) \in Tasks /\ Callback(r) \in Callbacks /\ r \in files
  BY <1>1, Asking DEF IInv, ThreadInv, Inserting, Served, RowOf
<1>3. jobs[Task(r)] # None /\ jobs[Task(r)].job = r
  BY <1>2, NoneIsNoRow DEF Rows
<1>4. \A l \in launches : l.job # r
  BY <1>1 DEF IInv, LaunchInv
<1>5. Moves(r, "reply", r, TRUE)
  BY <1>2, GotoMoves DEF Submit, IInv, Steps
<1>6. \A o \in Requests : Task(o)' = Task(o) /\ Callback(o)' = Callback(o)
  BY <1>5 DEF Moves, Task, Callback
<1>7. TypeOK'
  BY <1>1, <1>2, <1>5 DEF IInv, TypeOK, Moves
<1>8. ThreadInv'
  <2> SUFFICES ASSUME NEW o \in Requests PROVE ThreadInv!(o)'
    BY DEF ThreadInv
  <2>1. CASE o = r
    BY <1>1, <1>2, <1>5, <1>6, <2>1, NoneIsNoRow DEF Moves, Inserting, Served, RowOf
  <2>2. CASE o # r
    BY <1>1, <1>5, <1>6, <2>2 DEF Moves, IInv, ThreadInv, Inserting, Served, RowOf
  <2> QED
    BY <2>1, <2>2
<1>9. OneHolder' /\ TableInv'
  BY <1>1, <1>5, <1>6 DEF Moves, Inserting, IInv, OneHolder, TableInv
<1>10. LaunchInv'
  <2> SUFFICES ASSUME NEW l \in launches' PROVE LaunchInv!(l)'
    BY DEF LaunchInv
  <2>1. CASE l = [job |-> r, by |-> r]
    BY <1>1, <1>2, <1>3, <1>5, <1>6, <2>1 DEF Moves
  <2>2. CASE l \in launches
    BY <1>1, <1>4, <1>5, <1>6, <2>2 DEF Moves, IInv, TypeOK, LaunchInv
  <2> QED
    BY <1>1, <1>2, <2>1, <2>2
<1> QED
  BY <1>1, <1>2, <1>3, <1>4, <1>7, <1>8, <1>9, <1>10 DEF IInv

LEMMA ReplyKeeps ==
    ASSUME IInv, NEW r \in Requests, Reply(r)
    PROVE  IInv' /\ jobs[Task(r)] = RowOf(r) /\ jobs[Task(r)] \in Rows
<1>1. threads[r].step = "reply" /\ UNCHANGED <<jobs, keys, files, launches, failed>>
  BY DEF Reply, At
<1>2. /\ threads[r].asked # None /\ jobs[Task(r)] = RowOf(r)
      /\ threads[r].job \in Requests /\ threads[r].created \in BOOLEAN
      /\ threads[r].created => threads[r].job = r /\ r \in files
      /\ jobs[Task(r)] \in Rows
  BY <1>1, Asking DEF IInv, ThreadInv, Inserting, Served, RowOf, Rows
<1>3. Moves(r, "accepted", threads[r].job, threads[r].created)
  BY GotoMoves DEF Reply, IInv, Steps
<1> QED
  BY <1>1, <1>2, <1>3, MoveKeeps, NoneIsNoRow DEF Steps, RowOf

LEMMA LoseKeeps ==
    ASSUME IInv, NEW r \in Requests, Lose(r)
    PROVE  IInv'
<1>1. threads[r].step # "new" /\ UNCHANGED <<jobs, keys, files, launches, failed>>
  BY DEF Lose
<1>2. /\ threads[r].asked # None
      /\ threads[r].job \in Requests \union {None} /\ threads[r].created \in BOOLEAN
      /\ threads[r].created => threads[r].job = r
  BY <1>1, Asking DEF IInv, ThreadInv
<1>3. Moves(r, "lost", threads[r].job, threads[r].created)
  BY GotoMoves DEF Lose, IInv, Steps
<1>4. CASE threads[r].created
  <2>1. Moves(r, "lost", r, TRUE)
    BY <1>2, <1>3, <1>4
  <2> QED
    BY <1>1, <1>2, <1>4, <2>1, MoveKeeps DEF Steps
<1>5. CASE ~threads[r].created
  <2>1. Moves(r, "lost", threads[r].job, FALSE)
    BY <1>2, <1>3, <1>5
  <2> QED
    BY <1>1, <1>2, <1>5, <2>1, MoveKeeps DEF Steps
<1> QED
  BY <1>4, <1>5

LEMMA ArriveKeeps ==
    ASSUME IInv, NEW r \in Requests, NEW t \in Tasks, NEW c \in Callbacks, Arrive(r, t, c)
    PROVE  /\ IInv'
           /\ \A o \in Requests \ {r} : threads'[o] = threads[o]
           /\ threads[r].asked = None => threads'[r].asked = [task |-> t, callback |-> c]
           /\ threads'[r].step = "find"
<1>1. threads[r].step = "new" /\ UNCHANGED <<jobs, keys, files, launches, failed>>
  BY DEF Arrive, At
<1>2. /\ threads' \in [Requests -> Thread]
      /\ \A o \in Requests \ {r} : threads'[o] = threads[o]
      /\ threads'[r].step = "find" /\ threads'[r].created = FALSE
      /\ threads'[r].asked = [task |-> t, callback |-> c]
  <2>1. threads[r] \in Thread /\ threads[r].created = FALSE
    BY <1>1 DEF IInv, TypeOK, ThreadInv, Thread
  <2> DEFINE found == [threads EXCEPT ![r].step = "find"]
  <2>2. /\ found \in [Requests -> Thread]
        /\ found[r].step = "find" /\ found[r].created = FALSE
        /\ \A o \in Requests \ {r} : found[o] = threads[o]
    BY <2>1 DEF IInv, TypeOK, Thread, Steps
  <2>3. threads' = [found EXCEPT ![r].asked = [task |-> t, callback |-> c]]
    BY DEF Arrive
  <2> HIDE DEF found
  <2> QED
    BY <2>2, <2>3 DEF Thread
<1>3. TypeOK'
  BY <1>1, <1>2 DEF IInv, TypeOK
<1>4. ThreadInv'
  <2> SUFFICES ASSUME NEW o \in Requests PROVE ThreadInv!(o)'
    BY DEF ThreadInv
  <2>1. CASE o = r
    BY <1>2, <2>1, NoneIsNoRow DEF Inserting, Served
  <2>2. CASE o # r
    BY <1>1, <1>2, <2>2 DEF IInv, ThreadInv, Inserting, Served, RowOf, Task, Callback
  <2> QED
    BY <2>1, <2>2
<1>5. OneHolder'
  BY <1>2 DEF IInv, OneHolder, Inserting, Task
<1>6. TableInv' /\ LaunchInv'
  BY <1>1, <1>2 DEF IInv, TableInv, LaunchInv, TypeOK, Task
<1> QED
  BY <1>2, <1>3, <1>4, <1>5, <1>6 DEF IInv

\* A failure changes nothing that a request sees.
LEMMA PrepareFailsKeeps ==
    ASSUME IInv, NEW t \in Tasks, PrepareFails(t)
    PROVE  IInv'
<1>1. /\ jobs[t] \in Rows /\ failed' = failed \union {jobs[t].job}
      /\ UNCHANGED <<threads, jobs, keys, files, launches>>
  BY DEF PrepareFails, IInv, TypeOK
<1>2. TypeOK'
  BY <1>1 DEF IInv, TypeOK, Rows
<1>3. (ThreadInv /\ OneHolder /\ TableInv /\ LaunchInv)'
  BY <1>1 DEF IInv, ThreadInv, OneHolder, TableInv, LaunchInv, Inserting, Served, RowOf,
              Task, Callback
<1> QED
  BY <1>2, <1>3 DEF IInv

LEMMA StepInv == IInv /\ [Next]_vars => IInv'
<1> SUFFICES ASSUME IInv, [Next]_vars PROVE IInv'
  OBVIOUS
<1>1. CASE UNCHANGED vars
  BY <1>1 DEF vars, IInv, TypeOK, ThreadInv, OneHolder, TableInv, LaunchInv, Inserting,
              Served, RowOf, Task, Callback
<1>2. ASSUME NEW r \in Requests, NEW t \in Tasks, NEW c \in Callbacks, Arrive(r, t, c)
      PROVE  IInv'
  BY <1>2, ArriveKeeps
<1>3. ASSUME NEW r \in Requests, Serve(r)
      PROVE  IInv'
  BY <1>3, FindPrepareKeeps, InsertJobKeeps, ClaimKeyKeeps, StorePlanKeeps, CommitJoinedKeeps,
     CommitCreatedKeeps, SubmitKeeps, ReplyKeeps DEF Serve
<1>4. ASSUME NEW r \in Requests, Lose(r)
      PROVE  IInv'
  BY <1>4, LoseKeeps
<1>5. ASSUME NEW t \in Tasks, PrepareFails(t)
      PROVE  IInv'
  BY <1>5, PrepareFailsKeeps
<1> QED
  BY <1>1, <1>2, <1>3, <1>4, <1>5 DEF Next, Request

THEOREM Invariance == Spec => []IInv
BY InitInv, StepInv, PTL DEF Spec

\* Threads, rows, files, launches and failures keep their types.
THEOREM TypeCorrect == Spec => []TypeOK
<1>1. IInv => TypeOK
  BY DEF IInv
<1> QED
  BY <1>1, Invariance, PTL

\* For any number of replicas and retries, all who hand in a task are answered
\* with the same job, whose outcome goes where they asked.
THEOREM AllGetTheSameJob == Spec => []SameJobForAll
<1>1. IInv => SameJobForAll
  <2> SUFFICES ASSUME IInv, NEW r \in Requests, NEW o \in Requests,
                      Accepted(r), Accepted(o), Task(r) = Task(o)
               PROVE  threads[r].job = threads[o].job /\ Callback(r) = Callback(o)
    BY DEF SameJobForAll
  <2>1. jobs[Task(r)] = RowOf(r) /\ jobs[Task(o)] = RowOf(o)
    BY DEF Accepted, At, IInv, ThreadInv, Served, Inserting
  <2> QED
    BY <2>1 DEF RowOf
<1> QED
  BY <1>1, Invariance, PTL

\* A launch never outlives a rollback: its job is committed and its plan stored,
\* and it is submitted once.
THEOREM LaunchesStayBacked == Spec => []LaunchesAreBacked
<1>1. IInv => LaunchesAreBacked
  <2> SUFFICES ASSUME IInv, NEW l \in launches PROVE LaunchesAreBacked!(l)
    BY DEF LaunchesAreBacked
  <2>1. /\ l.job \in Requests /\ l.by = l.job /\ l.job \in files
        /\ threads[l.job].step # "new"
        /\ jobs[Task(l.job)] # None /\ jobs[Task(l.job)].job = l.job
    BY DEF IInv, TypeOK, LaunchInv
  <2>2. Task(l.job) \in Tasks
    BY <2>1, Asking
  <2>3. ASSUME NEW other \in launches, other.job = l.job PROVE other = l
    BY <2>1, <2>3 DEF IInv, TypeOK, LaunchInv
  <2> QED
    BY <2>1, <2>2, <2>3
<1> QED
  BY <1>1, Invariance, PTL

-----------------------------------------------------------------------------
(* prepare() implements Intake: a job is registered by the commit of the
   request that made it, started by that request's submission, and every
   answer is the one Intake gives. *)

\* A move to a step that is no answer changes nothing that Intake sees of threads.
LEMMA SilentMove ==
    ASSUME IInv, NEW r \in Requests, NEW s, NEW j, NEW c, Moves(r, s, j, c),
           s \notin {"accepted", "refused"}, threads[r].step \notin {"accepted", "refused"}
    PROVE  \A o \in Requests : threads'[o].asked = threads[o].asked /\ AnswerOf(o)' = AnswerOf(o)
BY DEF Moves, AnswerOf, At

\* An action that moves a thread to a step that is no answer, and changes neither
\* jobs nor launches, is a stutter of Intake.
LEMMA SilentStep ==
    ASSUME IInv, NEW r \in Requests, NEW s, NEW j, NEW c, Moves(r, s, j, c),
           s \notin {"accepted", "refused"}, threads[r].step \notin {"accepted", "refused"},
           UNCHANGED <<jobs, launches, failed>>
    PROVE  UNCHANGED ClientView!vars
BY SilentMove DEF ClientView!vars

\* A refusal is Intake's answer to a request that asks for another callback.
LEMMA RefusalAnswers ==
    ASSUME IInv, NEW r \in Requests, NEW j, NEW c, Moves(r, "refused", j, c),
           threads[r].step \notin {"new", "accepted", "refused"},
           jobs[Task(r)] # None, jobs[Task(r)].callback # Callback(r),
           UNCHANGED <<jobs, launches, failed>>
    PROVE  ClientView!Next
<1>1. threads[r].asked # None
  BY DEF IInv, ThreadInv
<1>2. \A o \in Requests : threads'[o].asked = threads[o].asked
  BY DEF Moves
<1>3. AnswerOf(r) = None /\ AnswerOf(r)' = "refused"
  BY DEF Moves, AnswerOf, At
<1>4. \A o \in Requests \ {r} : AnswerOf(o)' = AnswerOf(o)
  BY DEF Moves, AnswerOf, At
<1>5. ClientView!Answer(r)
  BY <1>1, <1>2, <1>3, <1>4 DEF ClientView!Answer, ClientView!Refused, Task, Callback
<1> QED
  BY <1>5 DEF ClientView!Next

LEMMA JoinImplements ==
    ASSUME IInv, NEW r \in Requests, threads[r].step \in {"find", "insert"},
           jobs[Task(r)] # None, Join(r), UNCHANGED <<jobs, keys, files, launches, failed>>
    PROVE  [ClientView!Next]_ClientView!vars
<1>1. jobs[Task(r)] \in Rows
  BY Asking
<1>2. CASE jobs[Task(r)].callback = Callback(r)
  <2>1. Moves(r, "claim", jobs[Task(r)].job, threads[r].created)
    BY <1>1, <1>2, JoinMoves DEF IInv
  <2> QED
    BY <2>1, SilentStep
<1>3. CASE jobs[Task(r)].callback # Callback(r)
  <2>1. Moves(r, "refused", threads[r].job, threads[r].created)
    BY <1>1, <1>3, JoinMoves DEF IInv
  <2> QED
    BY <1>3, <2>1, RefusalAnswers
<1> QED
  BY <1>2, <1>3

LEMMA ServeImplements ==
    ASSUME IInv, NEW r \in Requests, Serve(r)
    PROVE  [ClientView!Next]_ClientView!vars
<1>1. CASE FindPrepare(r)
  <2>1. CASE jobs[Task(r)] # None
    BY <1>1, <2>1, JoinImplements DEF FindPrepare, At
  <2>2. CASE jobs[Task(r)] = None
    <3>1. Moves(r, "insert", threads[r].job, threads[r].created)
      BY <1>1, <2>2, GotoMoves DEF FindPrepare, IInv, Steps
    <3> QED
      BY <1>1, <3>1, SilentStep DEF FindPrepare, At
  <2> QED
    BY <2>1, <2>2
<1>2. CASE InsertJob(r)
  <2>1. CASE jobs[Task(r)] # None
    BY <1>2, <2>1, JoinImplements DEF InsertJob, At
  <2>2. CASE jobs[Task(r)] = None
    <3>1. Moves(r, "claim", r, TRUE)
      BY <1>2, <2>2, CreatedMoves DEF InsertJob, IInv
    <3> QED
      BY <1>2, <3>1, SilentStep DEF InsertJob, At
  <2> QED
    BY <2>1, <2>2
<1>3. CASE ClaimKey(r)
  <2>1. keys[Task(r)] = None \/ keys[Task(r)] = RowOf(r)
    BY <1>3, Asking DEF ClaimKey, At, IInv, ThreadInv, Inserting, Served
  <2>2. \E s \in {"store", "commit"} : Goto(r, s)
    BY <1>3, <2>1 DEF ClaimKey, RowOf
  <2>3. PICK s \in {"store", "commit"} : Goto(r, s)
    BY <2>2
  <2>4. Moves(r, s, threads[r].job, threads[r].created)
    BY <2>3, GotoMoves DEF IInv, Steps
  <2> QED
    BY <1>3, <2>4, SilentStep DEF ClaimKey, At
<1>4. CASE StorePlan(r)
  <2>1. Moves(r, "commit", threads[r].job, threads[r].created)
    BY <1>4, GotoMoves DEF StorePlan, IInv, Steps
  <2> QED
    BY <1>4, <2>1, SilentStep DEF StorePlan, At
<1>5. CASE Commit(r) /\ ~threads[r].created
  <2>1. Moves(r, "reply", threads[r].job, threads[r].created)
    BY <1>5, GotoMoves DEF Commit, IInv, Steps
  <2> QED
    BY <1>5, <2>1, SilentStep, CommitJoinedKeeps DEF Commit, At
<1>6. CASE Commit(r) /\ threads[r].created
  <2>1. Moves(r, "submit", threads[r].job, threads[r].created)
    BY <1>6, GotoMoves DEF Commit, IInv, Steps
  <2>2. \A o \in Requests : threads'[o].asked = threads[o].asked /\ AnswerOf(o)' = AnswerOf(o)
    <3>1. threads[r].step = "commit"
      BY <1>6 DEF Commit, At
    <3> QED
      BY <2>1, <3>1, SilentMove
  <2>3. /\ jobs[Task(r)] = None /\ UNCHANGED <<launches, failed>>
        /\ jobs' = [jobs EXCEPT ![Task(r)] = [job |-> r, callback |-> Callback(r)]]
    BY <1>6, CommitCreatedKeeps DEF Commit
  <2>4. threads[r].asked # None
    BY <1>6 DEF Commit, At, IInv, ThreadInv
  <2>5. ClientView!Register(r)
    BY <2>2, <2>3, <2>4 DEF ClientView!Register, Task, Callback
  <2> QED
    BY <2>5 DEF ClientView!Next
<1>7. CASE Submit(r)
  <2>1. Moves(r, "reply", threads[r].job, threads[r].created)
    BY <1>7, GotoMoves DEF Submit, IInv, Steps
  <2>2. \A o \in Requests : threads'[o].asked = threads[o].asked /\ AnswerOf(o)' = AnswerOf(o)
    BY <1>7, <2>1, SilentMove DEF Submit, At
  <2>3. /\ jobs[Task(r)] # None /\ jobs[Task(r)].job = r /\ Task(r) \in Tasks
        /\ UNCHANGED <<jobs, failed>>
        /\ launches' = launches \union {[job |-> r, by |-> r]}
        /\ \A l \in launches : l.job # r
    BY <1>7, SubmitKeeps DEF Submit
  <2>4. {l.job : l \in launches'} = {l.job : l \in launches} \union {r}
    <3>1. \A l : l \in launches' <=> l \in launches \/ l = [job |-> r, by |-> r]
      BY <2>3
    <3>2. [job |-> r, by |-> r].job = r
      OBVIOUS
    <3> QED
      BY <3>1, <3>2
  <2>5. r \notin {l.job : l \in launches}
    BY <2>3
  <2>6. PICK t \in Tasks : t = Task(r)
    BY <2>3
  <2>7. ClientView!Start(t)
    BY <2>2, <2>3, <2>4, <2>5, <2>6 DEF ClientView!Start
  <2> QED
    BY <2>7 DEF ClientView!Next
<1>8. CASE Reply(r)
  <2>1. Moves(r, "accepted", threads[r].job, threads[r].created)
    BY <1>8, GotoMoves DEF Reply, IInv, Steps
  <2>2. /\ jobs[Task(r)] # None /\ jobs[Task(r)].job = threads[r].job
        /\ jobs[Task(r)].callback = Callback(r)
        /\ threads[r].asked # None /\ UNCHANGED <<jobs, launches, failed>>
    <3>1. threads[r].step = "reply" /\ UNCHANGED <<jobs, launches, failed>>
      BY <1>8 DEF Reply, At
    <3>2. jobs[Task(r)] = RowOf(r) /\ jobs[Task(r)] \in Rows
      BY <1>8, ReplyKeeps
    <3>3. threads[r].asked # None
      BY <3>1 DEF IInv, ThreadInv
    <3> QED
      BY <3>1, <3>2, <3>3, NoneIsNoRow DEF RowOf
  <2>3. \A o \in Requests : threads'[o].asked = threads[o].asked
    BY <2>1 DEF Moves
  <2>4. AnswerOf(r) = None /\ AnswerOf(r)' = threads[r].job
    BY <1>8, <2>1 DEF Moves, AnswerOf, At, Reply
  <2>5. \A o \in Requests \ {r} : AnswerOf(o)' = AnswerOf(o)
    BY <2>1 DEF Moves, AnswerOf, At
  <2>6. ClientView!Answer(r)
    BY <2>2, <2>3, <2>4, <2>5 DEF ClientView!Answer, ClientView!Refused, Task, Callback
  <2> QED
    BY <2>6 DEF ClientView!Next
<1> QED
  BY <1>1, <1>2, <1>3, <1>4, <1>5, <1>6, <1>7, <1>8 DEF Serve

LEMMA StepImplements == IInv /\ [Next]_vars => [ClientView!Next]_ClientView!vars
<1> SUFFICES ASSUME IInv, [Next]_vars PROVE [ClientView!Next]_ClientView!vars
  OBVIOUS
<1>1. CASE UNCHANGED vars
  BY <1>1 DEF vars, ClientView!vars, AnswerOf, At
<1>2. ASSUME NEW r \in Requests, NEW t \in Tasks, NEW c \in Callbacks, Arrive(r, t, c)
      PROVE  [ClientView!Next]_ClientView!vars
  <2>1. /\ threads[r].asked = None /\ threads[r].step = "new"
        /\ UNCHANGED <<jobs, launches, failed>>
    BY <1>2 DEF Arrive, At, IInv, ThreadInv
  <2>2. /\ \A o \in Requests \ {r} : threads'[o] = threads[o]
        /\ threads'[r].asked = [task |-> t, callback |-> c]
        /\ threads'[r].step = "find"
    BY <1>2, <2>1, ArriveKeeps
  <2>3. \A o \in Requests : AnswerOf(o)' = AnswerOf(o)
    BY <2>1, <2>2 DEF AnswerOf, At
  <2>4. ClientView!Ask(r, t, c)
    BY <2>1, <2>2, <2>3 DEF ClientView!Ask
  <2> QED
    BY <2>4 DEF ClientView!Next
<1>3. ASSUME NEW r \in Requests, Serve(r)
      PROVE  [ClientView!Next]_ClientView!vars
  BY <1>3, ServeImplements
<1>4. ASSUME NEW r \in Requests, Lose(r)
      PROVE  [ClientView!Next]_ClientView!vars
  <2>1. Moves(r, "lost", threads[r].job, threads[r].created)
    BY <1>4, GotoMoves DEF Lose, IInv, Steps
  <2> QED
    BY <1>4, <2>1, SilentStep DEF Lose, Ended
<1>5. ASSUME NEW t \in Tasks, PrepareFails(t)
      PROVE  [ClientView!Next]_ClientView!vars
  <2>1. \A o \in Requests : threads'[o].asked = threads[o].asked /\ AnswerOf(o)' = AnswerOf(o)
    BY <1>5 DEF PrepareFails, AnswerOf, At
  <2>2. ClientView!Fail(t)
    BY <1>5, <2>1 DEF PrepareFails, ClientView!Fail
  <2> QED
    BY <2>2 DEF ClientView!Next
<1> QED
  BY <1>1, <1>2, <1>3, <1>4, <1>5 DEF Next, Request

\* prepare() answers clients as Intake does, for any number of replicas, retries,
\* tasks and callbacks: one job for a task, launched once, whether or not it fails.
THEOREM PrepareImplementsIntake == Spec => ImplementsIntake
<1>1. Init => ClientView!Init
  <2> SUFFICES ASSUME Init PROVE ClientView!Init
    OBVIOUS
  <2>1. \A r \in Requests : threads[r].asked = None /\ AnswerOf(r) = None
    BY DEF Init, AnswerOf, At
  <2> QED
    BY <2>1 DEF Init, ClientView!Init
<1>2. IInv /\ [Next]_vars => [ClientView!Next]_ClientView!vars
  BY StepImplements
<1> QED
  BY <1>1, <1>2, Invariance, PTL DEF Spec, ClientView!Spec, ImplementsIntake

=============================================================================
