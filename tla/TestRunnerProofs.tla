-------------------------- MODULE TestRunnerProofs --------------------------
(***************************************************************************)
(* Theorems about TestRunner, for any policy, any patches and any number   *)
(* of configured commands.                                                 *)
(***************************************************************************)
EXTENDS TestRunner, WellFoundedInduction, TLAPS

AllOk == \A i \in DOMAIN results : results[i].ended = "ok"

\* A command runs only while there is one left, and those before it succeeded.
CommandsInOrder ==
    /\ stage \in {"generated", "validated"} => results = <<>>
    /\ stage \in {"commands", "running", "grace", "collecting"} => AllOk
    /\ stage \in {"running", "grace", "collecting"} => commands # <<>>
    /\ stage = "running" => process.leader \in {"running", "ok", "failed"}

\* Only the last result may be a failure.
FailureEndsTheRun == \A i \in DOMAIN results : i # Len(results) => results[i].ended = "ok"

\* Commands are left only when one failed.
Complete == commands = <<>> \/ ~AllOk

\* A report is ERROR or the classification of complete results.
ReportIsOfResults ==
    /\ stage \in {"parsing", "classified"} => Complete
    /\ stage # "reported" => report = None
    /\ report \notin {None, "ERROR"} =>
           Complete /\ report = Status(results, junit = "skipped")

IInv == TypeOK /\ CommandsInOrder /\ FailureEndsTheRun /\ ReportIsOfResults

\* Nothing has run yet.
LEMMA InitIInv == Init => IInv
<1> SUFFICES ASSUME Init PROVE IInv
    OBVIOUS
<1>1. TypeOK
    BY RunnerAssumption DEF Init, TypeOK, Stages, Groups, NoProcess
<1>2. CommandsInOrder /\ FailureEndsTheRun
    BY DEF Init, CommandsInOrder, FailureEndsTheRun
<1>3. ReportIsOfResults
    BY DEF Init, ReportIsOfResults
<1> QED
    BY <1>1, <1>2, <1>3 DEF IInv

\* A result is added to results that were all successes, and only a success lets
\* the commands go on.
LEMMA ResultIInv ==
    ASSUME IInv, stage \in {"running", "collecting"},
           NEW ended \in {"ok", "failed", "timeout"}, Result(ended)
    PROVE  IInv'
<1> DEFINE new == [slot |-> Head(commands), ended |-> ended]
<1>1. new \in Results /\ Tail(commands) \in Seq(STRING) /\ results \in Seq(Results)
    BY DEF IInv, TypeOK, CommandsInOrder, Results
<1>2. /\ results' = Append(results, new)
      /\ results' \in Seq(Results)
      /\ Len(results') = Len(results) + 1
      /\ results'[Len(results')] = new
      /\ \A i \in DOMAIN results' : i # Len(results') => i \in DOMAIN results /\ results'[i] = results[i]
    BY <1>1 DEF Result
<1>3. FailureEndsTheRun'
    BY <1>2 DEF IInv, FailureEndsTheRun, CommandsInOrder, AllOk
<1>4. AllOk' <=> ended = "ok"
    BY <1>1, <1>2 DEF IInv, CommandsInOrder, AllOk
<1>5. TypeOK'
    BY <1>1, <1>2 DEF IInv, TypeOK, Result, Stages, Groups, NoProcess
<1>6. CommandsInOrder'
    BY <1>4 DEF Result, CommandsInOrder
<1>7. ReportIsOfResults'
    BY <1>4 DEF IInv, Result, ReportIsOfResults, Complete
<1> QED
    BY <1>3, <1>5, <1>6, <1>7 DEF IInv

\* Steps that leave the results alone keep what is true of them.
LEMMA SameResults ==
    ASSUME results' = results
    PROVE  /\ AllOk' <=> AllOk
           /\ FailureEndsTheRun' <=> FailureEndsTheRun
BY DEF AllOk, FailureEndsTheRun

\* Every step keeps the invariant.
LEMMA NextIInv == IInv /\ [Next]_vars => IInv'
<1> SUFFICES ASSUME IInv, [Next]_vars PROVE IInv'
    OBVIOUS
<1> USE RunnerAssumption DEF IInv
<1>1. CASE ValidatePatch
    BY <1>1, SameResults DEF ValidatePatch, TypeOK, Stages, CommandsInOrder, ReportIsOfResults, Complete
<1>2. CASE BlockPatch
    BY <1>2, SameResults DEF BlockPatch, TypeOK, Stages, CommandsInOrder, ReportIsOfResults, Complete
<1>3. CASE RefusePatch
    BY <1>3, SameResults DEF RefusePatch, Errors, TypeOK, Stages, Reports, CommandsInOrder,
                             ReportIsOfResults, Complete
<1>4. CASE VerifyAndApplyPatch
  <2>1. AllOk
      BY <1>4 DEF VerifyAndApplyPatch, CommandsInOrder, AllOk
  <2> QED
      BY <1>4, <2>1, SameResults DEF VerifyAndApplyPatch, TypeOK, Stages, CommandsInOrder,
                                     ReportIsOfResults, Complete
<1>5. CASE StartCommand
    BY <1>5, SameResults DEF StartCommand, TypeOK, Stages, Groups, CommandsInOrder,
                             ReportIsOfResults, Complete
<1>18. CASE RefuseCommand
    BY <1>18, SameResults DEF RefuseCommand, Errors, TypeOK, Stages, Reports, CommandsInOrder,
                              ReportIsOfResults, Complete
<1>6. CASE CommandEnds
  <2>1. process.leader \in {"ok", "failed"}
      BY <1>6 DEF CommandEnds, Finished, CommandsInOrder
  <2> QED
      BY <1>6, <2>1, ResultIInv DEF CommandEnds
<1>7. CASE CommandTimesOut
  <2>1. process' \in Groups
      BY <1>7 DEF CommandTimesOut, TypeOK, Groups
  <2> QED
      BY <1>7, <2>1, SameResults DEF CommandTimesOut, TypeOK, Stages, CommandsInOrder,
                                     ReportIsOfResults, Complete
<1>8. CASE KillProcessTree
  <2>1. process' \in Groups
      BY <1>8 DEF KillProcessTree, TypeOK, Groups
  <2> QED
      BY <1>8, <2>1, SameResults DEF KillProcessTree, TypeOK, Stages, CommandsInOrder,
                                     ReportIsOfResults, Complete
<1>9. CASE CollectOutput
    BY <1>9, ResultIInv DEF CollectOutput
<1>10. CASE CommandsDone
    BY <1>10, SameResults DEF CommandsDone, TypeOK, Stages, CommandsInOrder,
                              ReportIsOfResults, Complete
<1>11. CASE ParseJunit
    BY <1>11, SameResults DEF ParseJunit, TypeOK, Stages, CommandsInOrder,
                              ReportIsOfResults, Complete
<1>12. CASE Report
  <2>1. Status(results, junit = "skipped")' = Status(results, junit = "skipped")
      BY <1>12 DEF Report, Status
  <2>2. Status(results, junit = "skipped") \in Reports
      BY DEF Status, Reports
  <2> QED
      BY <1>12, <2>1, <2>2, SameResults DEF Report, TypeOK, Stages, CommandsInOrder,
                                            ReportIsOfResults, Complete
<1>13. CASE PersistFails
    BY <1>13, SameResults DEF PersistFails, Errors, TypeOK, Stages, Reports, CommandsInOrder,
                              ReportIsOfResults, Complete
<1>14. CASE Crash
    BY <1>14, SameResults DEF Crash, TypeOK, Stages, CommandsInOrder, ReportIsOfResults, Complete
<1>15. CASE Deadline
    BY <1>15, SameResults DEF Deadline, TypeOK, Stages, Over, Groups, NoProcess, CommandsInOrder,
                              ReportIsOfResults, Complete
<1>16. CASE Command
  <2>1. /\ process' \in Groups
        /\ stage = "running" => process'.leader \in {"running", "ok", "failed"}
        /\ UNCHANGED <<stage, patch, commands, results, junit, report>>
      BY <1>16 DEF Command, Spawn, Exit, Release, TypeOK, Groups, CommandsInOrder
  <2>2. ReportIsOfResults'
      BY <2>1, SameResults DEF ReportIsOfResults, Complete, Status
  <2> QED
      BY <2>1, <2>2, SameResults DEF TypeOK, CommandsInOrder
<1>17. CASE UNCHANGED vars
  <2>1. ReportIsOfResults'
      BY <1>17, SameResults DEF vars, ReportIsOfResults, Complete, Status
  <2> QED
      BY <1>17, <2>1, SameResults DEF vars, TypeOK, CommandsInOrder
<1> QED
    BY <1>1, <1>2, <1>3, <1>4, <1>5, <1>6, <1>7, <1>8, <1>9, <1>10, <1>11, <1>12, <1>13,
       <1>14, <1>15, <1>16, <1>17, <1>18 DEF Next, Runner

\* The invariant holds in every reachable state.
THEOREM Invariance == Spec => []IInv
BY InitIInv, NextIInv, PTL DEF Spec

-----------------------------------------------------------------------------
\* The state of the test runner keeps its type.
THEOREM TypeCorrect == Spec => []TypeOK
<1>1. IInv => TypeOK
    BY DEF IInv
<1> QED
    BY <1>1, Invariance, PTL

\* A PASSED that run() returns was earned by every configured command.
THEOREM PassesAreEarned == Spec => []PassedIsEarned
<1>1. IInv => PassedIsEarned
  <2> SUFFICES ASSUME IInv, report = "PASSED" PROVE PassedIsEarned
      BY DEF PassedIsEarned
  <2>1. Complete /\ Status(results, junit = "skipped") = "PASSED"
      BY RunnerAssumption DEF IInv, ReportIsOfResults
  <2>2. \A i \in DOMAIN results : results[i].ended \notin {"timeout", "failed"}
      BY <2>1 DEF Status
  <2>3. \A i \in DOMAIN results : results[i] \in Results
      BY DEF IInv, TypeOK
  <2>4. AllOk
      BY <2>2, <2>3 DEF AllOk, Results
  <2>5. ~Skipped
      BY <2>1 DEF Status, Skipped
  <2> QED
      BY <2>1, <2>4, <2>5 DEF PassedIsEarned, Complete, AllOk
<1> QED
    BY <1>1, Invariance, PTL

\* A FAILED or TIMEOUT that run() returns names what happened to the last command.
THEOREM VerdictsNameTheirReason == Spec => []VerdictNamesItsReason
<1>1. IInv => VerdictNamesItsReason
  <2> SUFFICES ASSUME IInv, report \in {"FAILED", "TIMEOUT"}, ~Skipped
               PROVE  /\ results # <<>>
                      /\ results[Len(results)].ended = (IF report = "TIMEOUT" THEN "timeout" ELSE "failed")
      BY DEF VerdictNamesItsReason, IInv, FailureEndsTheRun
  <2>1. report = Status(results, junit = "skipped")
      BY RunnerAssumption DEF IInv, ReportIsOfResults
  <2>2. PICK i \in DOMAIN results :
            results[i].ended = (IF report = "TIMEOUT" THEN "timeout" ELSE "failed")
      BY <2>1 DEF Status, Skipped
  <2>3. i = Len(results)
      BY <2>2 DEF IInv, FailureEndsTheRun
  <2>4. results # <<>>
      BY <2>2
  <2> QED
      BY <2>2, <2>3, <2>4
<1> QED
    BY <1>1, Invariance, PTL
-----------------------------------------------------------------------------
(* The two readings of a policy.  What a pattern matches is defined by recursion *)
(* on its tokens, so the argument goes from the last token to the first.         *)

Less == {pair \in Nat \X Nat : pair[1] < pair[2]}

\* Every nonempty set of natural numbers has a least element.
LEMMA LeastElement ==
    ASSUME NEW T \in SUBSET Nat, T # {}
    PROVE  \E x \in T : \A y \in T : x <= y
<1>1. OpToRel(<, Nat) = Less
    BY DEF OpToRel, Less
<1>2. IsWellFoundedOn(Less, Nat)
    BY <1>1, NatLessThanWellFounded
<1>3. PICK x \in T : \A y \in T : ~ (<<y, x>> \in Less)
    BY <1>2, WFMin, Zenon
<1>4. ASSUME NEW y \in T PROVE x <= y
  <2>1. x \in Nat /\ y \in Nat
      OBVIOUS
  <2>2. ~ (y < x)
      BY <1>3, <2>1 DEF Less
  <2> QED
      BY <2>1, <2>2
<1> QED
    BY <1>4

\* What holds of the last, and of each one if of the next, holds of the first.
LEMMA DownToFirst ==
    ASSUME NEW last \in Nat, NEW Good \in SUBSET (1..last),
           last \in Good,
           \A i \in 1..last : i + 1 \in Good => i \in Good
    PROVE  1 \in Good
<1>1. PICK least \in Good : \A i \in Good : least <= i
    BY LeastElement
<1>2. CASE least # 1
  <2>1. least - 1 \in 1..last /\ least - 1 < least /\ (least - 1) + 1 = least
      BY <1>2
  <2> QED
      BY <1>1, <2>1
<1> QED
    BY <1>1, <1>2

\* Where token i may begin, given where the next one may.
BeginningsOf(reading, path, pattern, next, i) ==
    IF i > Len(pattern) THEN {Len(path) + 1}
    ELSE {j \in 1..(Len(path) + 1) :
             \E k \in j..(Len(path) + 1) :
                 /\ StandsFor(reading, pattern[i], SubSeq(path, j, k - 1))
                 /\ k \in next[i + 1]}

\* The recursion defines a function: it can be built up from the last token.
LEMMA BeginningsRecur ==
    ASSUME NEW reading, NEW path \in Seq(STRING), NEW pattern \in Seq(STRING),
           NEW i \in 1..(Len(pattern) + 1)
    PROVE  Beginnings(reading, path, pattern)[i] =
               BeginningsOf(reading, path, pattern, Beginnings(reading, path, pattern), i)
<1> DEFINE last == Len(pattern) + 1
           Of(next, m) == BeginningsOf(reading, path, pattern, next, m)
           Built(n) == \E f : f = [m \in n..last |-> Of(f, m)]
           T == {n \in 1..last : Built(n)}
<1>1. Len(pattern) \in Nat /\ last \in Nat
    OBVIOUS
<1>2. last \in T
  <2> DEFINE f == [m \in last..last |-> {Len(path) + 1}]
  <2>1. f = [m \in last..last |-> Of(f, m)]
      BY <1>1 DEF BeginningsOf
  <2>2. Built(last)
    <3> HIDE DEF f, Of
    <3> QED
        BY <2>1
  <2> HIDE DEF Built
  <2> QED
      BY <1>1, <2>2
<1>3. ASSUME NEW n \in 1..last, n + 1 \in T PROVE n \in T
  <2>1. PICK f : f = [m \in (n + 1)..last |-> Of(f, m)]
      BY <1>3
  <2> DEFINE g == [m \in n..last |-> IF m = n THEN Of(f, m) ELSE f[m]]
  <2>2. ASSUME NEW m \in n..last PROVE Of(g, m) = Of(f, m)
    <3>1. CASE m > Len(pattern)
        BY <3>1 DEF BeginningsOf
    <3>2. CASE ~(m > Len(pattern))
      <4>1. m + 1 \in n..last /\ m + 1 # n
          BY <1>1, <3>2
      <4>2. g[m + 1] = f[m + 1]
          BY <4>1
      <4> HIDE DEF g
      <4> QED
          BY <3>2, <4>2 DEF BeginningsOf
    <3> QED
        BY <3>1, <3>2
  <2>3. ASSUME NEW m \in n..last PROVE g[m] = Of(g, m)
    <3> HIDE DEF Of
    <3>1. CASE m = n
        BY <2>2, <3>1
    <3>2. CASE m # n
      <4>1. m \in (n + 1)..last
          BY <1>1, <3>2
      <4> QED
          BY <2>1, <2>2, <3>2, <4>1
    <3> QED
        BY <3>1, <3>2
  <2>4. g = [m \in n..last |-> Of(g, m)]
    <3> HIDE DEF Of
    <3> QED
        BY <2>3
  <2> HIDE DEF g, Of
  <2> QED
      BY <2>4
<1>4. 1 \in T
  <2>1. T \in SUBSET (1..last)
      OBVIOUS
  <2> HIDE DEF T
  <2> QED
      BY <1>1, <1>2, <1>3, <2>1, DownToFirst
<1>5. PICK f : f = [m \in 1..last |-> Of(f, m)]
    BY <1>4
<1>6. Beginnings(reading, path, pattern) =
          [m \in 1..last |-> Of(Beginnings(reading, path, pattern), m)]
    BY <1>5 DEF Beginnings, BeginningsOf
<1> HIDE DEF Of
<1>7. Beginnings(reading, path, pattern)[i] = Of(Beginnings(reading, path, pattern), i)
    BY <1>6
<1> QED
    BY <1>7 DEF Of

\* After the last token the path is at its end.
LEMMA LastBeginning ==
    ASSUME NEW reading, NEW path \in Seq(STRING), NEW pattern \in Seq(STRING)
    PROVE  Beginnings(reading, path, pattern)[Len(pattern) + 1] = {Len(path) + 1}
<1>1. Len(pattern) + 1 \in 1..(Len(pattern) + 1) /\ Len(pattern) + 1 > Len(pattern)
    OBVIOUS
<1> QED
    BY <1>1, BeginningsRecur DEF BeginningsOf

\* A token begins where what it stands for is followed by the next.
LEMMA TokenBegins ==
    ASSUME NEW reading, NEW path \in Seq(STRING), NEW pattern \in Seq(STRING),
           NEW i \in 1..Len(pattern), NEW j
    PROVE  j \in Beginnings(reading, path, pattern)[i] <=>
               /\ j \in 1..(Len(path) + 1)
               /\ \E k \in j..(Len(path) + 1) :
                     /\ StandsFor(reading, pattern[i], SubSeq(path, j, k - 1))
                     /\ k \in Beginnings(reading, path, pattern)[i + 1]
<1>1. i \in 1..(Len(pattern) + 1) /\ ~(i > Len(pattern))
    OBVIOUS
<1>2. Beginnings(reading, path, pattern)[i] =
          BeginningsOf(reading, path, pattern, Beginnings(reading, path, pattern), i)
    BY <1>1, BeginningsRecur
<1> QED
    BY <1>1, <1>2 DEF BeginningsOf

Readings == {"matchesGlob", "fnmatch", "without"}

\* A pattern that begins with a name matches only paths that begin with it.
LEMMA NamesStandForThemselves ==
    ASSUME NEW reading \in Readings, NEW path \in Seq(STRING), NEW pattern \in Seq(STRING),
           BeginsWithName(pattern), Matches(reading, path, pattern)
    PROVE  path[1] = pattern[1]
<1>1. 1 \in 1..Len(pattern)
    BY DEF BeginsWithName
<1>2. PICK k \in 1..(Len(path) + 1) : StandsFor(reading, pattern[1], SubSeq(path, 1, k - 1))
    BY <1>1, TokenBegins DEF Matches
<1>3. SubSeq(path, 1, k - 1) = <<pattern[1]>>
    BY <1>2 DEF StandsFor, StandsForTs, StandsForPy, StandsForWithout, Readings,
                BeginsWithName, Wildcards
<1>4. k - 1 \in Nat /\ k - 1 <= Len(path)
    OBVIOUS
<1>5. Len(SubSeq(path, 1, k - 1)) = k - 1
    BY <1>4
<1>6. k - 1 = 1
    BY <1>3, <1>5
<1>7. SubSeq(path, 1, 1)[1] = path[1]
    BY <1>4, <1>6
<1>8. SubSeq(path, 1, 1) = <<pattern[1]>>
    BY <1>3, <1>6, Zenon
<1>9. <<pattern[1]>>[1] = pattern[1]
    OBVIOUS
<1> QED
    BY <1>7, <1>8, <1>9, Zenon

\* What is cut out of one line is one line.
LEMMA OneLinePart ==
    ASSUME NEW path \in Seq(STRING), OneLine(path),
           NEW j \in 1..(Len(path) + 1), NEW k \in j..(Len(path) + 1)
    PROVE  OneLine(SubSeq(path, j, k - 1))
<1>1. \A i \in DOMAIN SubSeq(path, j, k - 1) :
          j + i - 1 \in DOMAIN path /\ SubSeq(path, j, k - 1)[i] = path[j + i - 1]
    OBVIOUS
<1> QED
    BY <1>1 DEF OneLine

\* A pattern without "*", "?" and classes matches for fnmatch only what it matches
\* for matchesGlob, if the path has no line ends.
LEMMA DeniedByBoth ==
    ASSUME NEW path \in Seq(STRING), NEW pattern \in Seq(STRING), OneLine(path),
           \A i \in DOMAIN pattern : pattern[i] \notin {"*", "?"} \union ClassTokens,
           GlobMatches(path, pattern)
    PROVE  MatchesGlob(path, pattern)
<1> DEFINE Ts == Beginnings("matchesGlob", path, pattern)
           Py(reading) == Beginnings(reading, path, pattern)
           last == Len(pattern) + 1
<1>1. PICK reading \in {"fnmatch", "without"} : 1 \in Py(reading)[1]
    BY DEF GlobMatches, Matches
<1> DEFINE T == {i \in 1..last : Py(reading)[i] \subseteq Ts[i]}
<1>2. last \in T
    BY LastBeginning
<1>3. ASSUME NEW i \in 1..last, i + 1 \in T PROVE i \in T
  <2>1. i \in 1..Len(pattern) /\ Py(reading)[i + 1] \subseteq Ts[i + 1]
      BY <1>3
  <2> SUFFICES ASSUME NEW j \in Py(reading)[i] PROVE j \in Ts[i]
      OBVIOUS
  <2>2. /\ j \in 1..(Len(path) + 1)
        /\ \E k \in j..(Len(path) + 1) :
              /\ StandsFor(reading, pattern[i], SubSeq(path, j, k - 1))
              /\ k \in Py(reading)[i + 1]
      BY <2>1, TokenBegins
  <2>3. PICK k \in j..(Len(path) + 1) :
              /\ StandsFor(reading, pattern[i], SubSeq(path, j, k - 1))
              /\ k \in Py(reading)[i + 1]
      BY <2>2
  <2>4. pattern[i] \notin {"*", "?"} \union ClassTokens
      BY <2>1
  <2>5. OneLine(SubSeq(path, j, k - 1))
      BY <2>2, <2>3, OneLinePart
  <2>6. StandsFor("matchesGlob", pattern[i], SubSeq(path, j, k - 1))
      BY <2>3, <2>4, <2>5 DEF StandsFor, StandsForTs, StandsForPy, StandsForWithout
  <2> QED
      BY <2>1, <2>2, <2>3, <2>6, TokenBegins
<1>4. 1 \in T
  <2>1. last \in Nat
      OBVIOUS
  <2> HIDE DEF T
  <2>2. T \in SUBSET (1..last)
      BY DEF T
  <2> QED
      BY <1>2, <1>3, <2>1, <2>2, DownToFirst
<1> QED
    BY <1>1, <1>4 DEF MatchesGlob, Matches

\* A pattern without classes and with at most one "**/" matches for fnmatch whatever
\* it matches for matchesGlob: as it is, or without its "**/".
LEMMA AllowedByBoth ==
    ASSUME NEW path \in Seq(STRING), NEW pattern \in Seq(STRING),
           \A i \in DOMAIN pattern : pattern[i] \notin ClassTokens,
           \A i, j \in DOMAIN pattern : pattern[i] = "**/" /\ pattern[j] = "**/" => i = j,
           MatchesGlob(path, pattern)
    PROVE  GlobMatches(path, pattern)
<1> DEFINE Ts == Beginnings("matchesGlob", path, pattern)
           Fn == Beginnings("fnmatch", path, pattern)
           Wo == Beginnings("without", path, pattern)
           last == Len(pattern) + 1
           Plain(i) == \A n \in i..Len(pattern) : pattern[n] # "**/"
           T == {i \in 1..last : /\ Ts[i] \subseteq Fn[i] \union Wo[i]
                                 /\ Plain(i) => Ts[i] \subseteq Fn[i] \intersect Wo[i]}
<1>1. last \in T
    BY LastBeginning
<1>2. ASSUME NEW i \in 1..last, i + 1 \in T PROVE i \in T
  <2>1. /\ i \in 1..Len(pattern)
        /\ Ts[i + 1] \subseteq Fn[i + 1] \union Wo[i + 1]
        /\ Plain(i + 1) => Ts[i + 1] \subseteq Fn[i + 1] \intersect Wo[i + 1]
      BY <1>2
  <2> SUFFICES ASSUME NEW j \in Ts[i]
               PROVE  /\ j \in Fn[i] \/ j \in Wo[i]
                      /\ Plain(i) => j \in Fn[i] /\ j \in Wo[i]
      OBVIOUS
  <2>2. /\ j \in 1..(Len(path) + 1)
        /\ \E k \in j..(Len(path) + 1) :
              /\ StandsFor("matchesGlob", pattern[i], SubSeq(path, j, k - 1))
              /\ k \in Ts[i + 1]
      BY <2>1, TokenBegins
  <2>3. PICK k \in j..(Len(path) + 1) :
              /\ StandsFor("matchesGlob", pattern[i], SubSeq(path, j, k - 1))
              /\ k \in Ts[i + 1]
      BY <2>2
  <2>4. k \in Fn[i + 1] /\ StandsFor("fnmatch", pattern[i], SubSeq(path, j, k - 1)) => j \in Fn[i]
      BY <2>1, <2>2, TokenBegins
  <2>5. k \in Wo[i + 1] /\ StandsFor("without", pattern[i], SubSeq(path, j, k - 1)) => j \in Wo[i]
      BY <2>1, <2>2, TokenBegins
  <2>6. CASE pattern[i] = "**/"
    <3>1. Plain(i + 1) /\ ~Plain(i)
        BY <2>1, <2>6
    <3>2. k \in Fn[i + 1] /\ k \in Wo[i + 1]
        BY <2>1, <2>3, <3>1
    <3>3. \/ StandsFor("fnmatch", pattern[i], SubSeq(path, j, k - 1))
          \/ StandsFor("without", pattern[i], SubSeq(path, j, k - 1))
      <4>1. pattern[i] \notin ClassTokens
          BY <2>1
      <4> DEFINE text == SubSeq(path, j, k - 1)
      <4>2. text # <<>> => text[Len(text)] = "/"
          BY <2>3, <2>6, <4>1 DEF StandsFor, StandsForTs
      <4>3. text = <<>> => StandsFor("without", pattern[i], text)
          BY <2>6 DEF StandsFor, StandsForWithout
      <4>4. text # <<>> => StandsFor("fnmatch", pattern[i], text)
          BY <2>6, <4>1, <4>2 DEF StandsFor, StandsForPy
      <4> QED
          BY <4>3, <4>4
    <3> QED
        BY <2>4, <2>5, <3>1, <3>2, <3>3
  <2>7. CASE pattern[i] # "**/"
    <3>1. /\ StandsFor("fnmatch", pattern[i], SubSeq(path, j, k - 1))
          /\ StandsFor("without", pattern[i], SubSeq(path, j, k - 1))
      <4>1. pattern[i] \notin ClassTokens
          BY <2>1
      <4> DEFINE text == SubSeq(path, j, k - 1)
      <4>2. StandsForTs(pattern[i], text)
          BY <2>3 DEF StandsFor
      <4>3. StandsForPy(pattern[i], text)
        <5>1. CASE pattern[i] \in {"**", "*"}
            BY <5>1, <4>1 DEF StandsForPy
        <5>2. CASE pattern[i] = "?"
            BY <5>2, <4>1, <4>2 DEF StandsForPy, StandsForTs
        <5>3. CASE pattern[i] \notin Wildcards
            BY <5>3, <4>1, <4>2 DEF StandsForPy, StandsForTs, Wildcards
        <5> QED
            BY <2>7, <5>1, <5>2, <5>3 DEF Wildcards
      <4> QED
          BY <2>7, <4>3 DEF StandsFor, StandsForWithout
    <3>2. Plain(i) => Plain(i + 1)
        BY <2>1
    <3> QED
        BY <2>1, <2>3, <2>4, <2>5, <3>1, <3>2
  <2> QED
      BY <2>6, <2>7
<1>3. 1 \in T
  <2>1. last \in Nat
      OBVIOUS
  <2> HIDE DEF T
  <2>2. T \in SUBSET (1..last)
      BY DEF T
  <2> QED
      BY <1>1, <1>2, <2>1, <2>2, DownToFirst
<1> QED
    BY <1>3 DEF MatchesGlob, GlobMatches, Matches

\* A patch that passes the first check passes the second.
LEMMA ReadingsAgree ==
    ASSUME ReadAlike, PathsAreLines, NEW changes \in Patches, Validated(changes)
    PROVE  Rechecked(changes)
<1> SUFFICES ASSUME NEW c \in changes
             PROVE  /\ RelativePath(c.path)
                    /\ \E p \in Allowed : GlobMatches(c.path, p)
                    /\ ~ \E d \in Denied : GlobMatches(c.path, d)
    BY DEF Rechecked
<1>1. /\ c.path \in Seq(STRING) /\ OneLine(c.path)
      /\ \A p \in Allowed \union Denied : p \in Seq(STRING)
    BY RunnerAssumption, PolicyAssumption DEF PathsAreLines
<1>2. PICK p \in Allowed : MatchesGlob(c.path, p)
    BY DEF Validated
<1>3. GlobMatches(c.path, p)
    BY <1>1, <1>2, AllowedByBoth DEF ReadAlike
<1>4. ASSUME NEW d \in Denied, GlobMatches(c.path, d) PROVE FALSE
  <2>1. ~MatchesGlob(c.path, d)
      BY DEF Validated
  <2>2. BeginsWithName(d) /\ BeginsWithName(p) /\ p[1] # d[1]
      BY <1>1, <1>4, <2>1, DeniedByBoth DEF ReadAlike
  <2>3. c.path[1] = p[1]
      BY <1>1, <1>2, <2>2, NamesStandForThemselves DEF MatchesGlob, Readings
  <2>4. c.path[1] = d[1]
      BY <1>1, <1>4, <2>2, NamesStandForThemselves DEF GlobMatches, Readings
  <2> QED
      BY <2>2, <2>3, <2>4
<1>5. RelativePath(c.path)
    BY DEF Validated, SafePath
<1> QED
    BY <1>2, <1>3, <1>4, <1>5

\* What is validated is still the patch that was.
AsValidated == stage = "validated" => patch \in Patches /\ Validated(patch)

\* A patch that the codex runner validated is not refused by the test runner, for
\* every policy that the two programs read alike and all paths without line ends:
\* the job does not end in ERROR for it.
THEOREM ValidatedPatchesAreTaken ==
    ReadAlike /\ PathsAreLines => (Spec => []ValidatedIsNotRefused)
<1> SUFFICES ASSUME ReadAlike, PathsAreLines PROVE Spec => []ValidatedIsNotRefused
    OBVIOUS
<1>1. Init => AsValidated
    BY DEF Init, AsValidated
<1>2. IInv /\ AsValidated /\ [Next]_vars => AsValidated'
  <2> SUFFICES ASSUME IInv, AsValidated, [Next]_vars, stage' = "validated"
               PROVE  patch' \in Patches /\ Validated(patch')
      BY DEF AsValidated
  <2>1. CASE ValidatePatch
    <3>1. patch \in Patches
        BY <2>1 DEF IInv, TypeOK, ValidatePatch, Validated
    <3> QED
        BY <2>1, <3>1 DEF ValidatePatch
  <2>2. CASE stage = "validated" /\ UNCHANGED <<stage, patch>>
      BY <2>2 DEF AsValidated
  <2> QED
      BY <2>1, <2>2 DEF Next, Runner, Command, vars, BlockPatch, RefusePatch, Errors,
         VerifyAndApplyPatch, StartCommand, RefuseCommand, CommandEnds, CommandTimesOut,
         KillProcessTree, CollectOutput, CommandsDone, ParseJunit, Report, PersistFails, Crash, Deadline,
         Result, Spawn, Exit, Release
<1>3. AsValidated => ValidatedIsNotRefused
    BY ReadingsAgree DEF AsValidated, ValidatedIsNotRefused
<1> QED
    BY <1>1, <1>2, <1>3, Invariance, PTL DEF Spec
=============================================================================
