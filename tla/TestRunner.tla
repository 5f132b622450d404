----------------------------- MODULE TestRunner -----------------------------
(***************************************************************************)
(* The program of the test Job, test-runner/runner.py, from the patch that *)
(* the codex runner validated to the status it reports: the patch's second *)
(* check, the configured commands with their process groups and timeouts,  *)
(* the JUnit summary, and the classification of it all.                    *)
(*                                                                         *)
(* The command is the environment: it exits, ignores SIGTERM, leaves a     *)
(* descendant with its output open, or writes a broken report.  An error   *)
(* the program does not catch ends it without a report; so does the Job's  *)
(* deadline.                                                               *)
(***************************************************************************)
EXTENDS PatchPolicy

CONSTANTS
    Patches,            \* sets of changes that may be generated
    Configurations,     \* the slots that policies configure, in the order of
                        \* execute_commands
    AllowSkipped,       \* allow_skipped_required_tests
    None

ASSUME RunnerAssumption ==
    /\ \A changes \in Patches : \A c \in changes : c.path \in Seq(STRING)
    /\ \A slots \in Configurations : slots \in Seq(STRING)
    /\ AllowSkipped \in BOOLEAN
    /\ None \notin {"clean", "skipped", "PASSED", "FAILED", "TIMEOUT", "ERROR"}

\* No generated path has a line end in it.
PathsAreLines == \A changes \in Patches : \A c \in changes : OneLine(c.path)

VARIABLES
    stage,      \* where the program is
    patch,      \* the patch, until it has been checked again
    commands,   \* the configured commands that have no result yet
    process,    \* the current command's process group
    results,    \* the results of the commands that ended
    junit,      \* what the JUnit files say
    report      \* the status that is reported

vars == <<stage, patch, commands, process, results, junit, report>>

Stages == {"generated", "validated", "commands", "running", "grace", "collecting",
           "parsing", "classified", "blocked", "reported", "crashed", "killed"}

Over == {"blocked", "reported", "crashed", "killed"}

Reports == {"PASSED", "FAILED", "TIMEOUT", "ERROR"}

\* A group: its leader, who else holds the output open (a descendant in the group,
\* or one in a session of its own, which the group's signals do not reach), and who
\* ignores SIGTERM.
NoProcess == [leader |-> "none", held |-> "nobody", deaf |-> {}]

Groups == [leader : {"none", "running", "ok", "failed", "killed"},
           held : {"nobody", "group", "session"},
           deaf : SUBSET {"leader", "others"}]

Results == [slot : STRING, ended : {"ok", "failed", "timeout"}]

Init ==
    /\ stage = "generated"
    /\ patch \in Patches
    /\ commands = <<>>
    /\ process = NoProcess
    /\ results = <<>>
    /\ junit = None
    /\ report = None

\* Every change of the patch passes.
ValidatePatch ==
    /\ stage = "generated"
    /\ Validated(patch)
    /\ stage' = "validated"
    /\ UNCHANGED <<patch, commands, process, results, junit, report>>

\* PatchPolicyError: the codex runner reports BLOCKED, and there is no test Job.
BlockPatch ==
    /\ stage = "generated"
    /\ ~Validated(patch)
    /\ stage' = "blocked"
    /\ patch' = {}
    /\ UNCHANGED <<commands, process, results, junit, report>>

\* RunnerError: the program reports ERROR, with the class of the error.
Errors ==
    /\ stage' = "reported"
    /\ report' = "ERROR"

\* The checkout failed, the patch does not apply, or the policy refuses it.
RefusePatch ==
    /\ stage = "validated"
    /\ Errors
    /\ patch' = {}
    /\ UNCHANGED <<commands, process, results, junit>>

VerifyAndApplyPatch ==
    /\ stage = "validated"
    /\ Rechecked(patch)
    /\ stage' = "commands"
    /\ patch' = {}
    /\ commands' \in Configurations
    /\ UNCHANGED <<process, results, junit, report>>

-----------------------------------------------------------------------------
(* execute_commands *)

StartCommand ==
    /\ stage = "commands"
    /\ commands # <<>>
    /\ stage' = "running"
    /\ \E deaf \in SUBSET {"leader", "others"} :
          process' = [leader |-> "running", held |-> "nobody", deaf |-> deaf]
    /\ UNCHANGED <<patch, commands, results, junit, report>>

\* RunnerError: the slot's command ID has no argv mapping.
RefuseCommand ==
    /\ stage = "commands"
    /\ commands # <<>>
    /\ Errors
    /\ UNCHANGED <<patch, commands, process, results, junit>>

\* communicate() returns at the end of the output; its result is the leader's.
Finished == process.leader # "running" /\ process.held = "nobody"

\* A runner that carries on after a command that failed.
ResultKeepsGoing(ended) ==
    /\ results' = Append(results, [slot |-> Head(commands), ended |-> ended])
    /\ commands' = Tail(commands)
    /\ process' = NoProcess
    /\ stage' = IF ended # "timeout" THEN "commands" ELSE "parsing"
    /\ UNCHANGED <<patch, junit, report>>

\* The first command that does not succeed is the last.
Result(ended) ==
    /\ results' = Append(results, [slot |-> Head(commands), ended |-> ended])
    /\ commands' = Tail(commands)
    /\ process' = NoProcess
    /\ stage' = IF ended = "ok" THEN "commands" ELSE "parsing"
    /\ UNCHANGED <<patch, junit, report>>

CommandEnds ==
    /\ stage = "running"
    /\ Finished
    /\ Result(process.leader)

\* The timeout: SIGTERM to the group.
CommandTimesOut ==
    /\ stage = "running"
    /\ stage' = "grace"
    /\ process' = [process EXCEPT
           !.leader = IF @ = "running" /\ "leader" \notin process.deaf THEN "killed" ELSE @,
           !.held = IF @ = "group" /\ "others" \notin process.deaf THEN "nobody" ELSE @]
    /\ UNCHANGED <<patch, commands, results, junit, report>>

\* A runner that sends SIGTERM and leaves it at that.
KillNever ==
    /\ stage = "grace"
    /\ process.leader # "running"
    /\ stage' = "collecting"
    /\ UNCHANGED <<patch, commands, process, results, junit, report>>

\* wait(2) returns as soon as the leader is gone; only if it is not, the group
\* is killed.
KillProcessTree ==
    /\ stage = "grace"
    /\ stage' = "collecting"
    /\ process' = IF process.leader # "running" THEN process
                  ELSE [process EXCEPT !.leader = "killed",
                                       !.held = IF @ = "group" THEN "nobody" ELSE @]
    /\ UNCHANGED <<patch, commands, results, junit, report>>

\* The second communicate() has no timeout.
CollectOutput ==
    /\ stage = "collecting"
    /\ Finished
    /\ Result("timeout")

CommandsDone ==
    /\ stage = "commands"
    /\ commands = <<>>
    /\ stage' = "parsing"
    /\ UNCHANGED <<patch, commands, process, results, junit, report>>

-----------------------------------------------------------------------------
(* The rest of run() and of main() *)

ParseJunit ==
    /\ stage = "parsing"
    /\ junit' \in {"clean", "skipped"}
    /\ stage' = "classified"
    /\ UNCHANGED <<patch, commands, process, results, report>>

\* A classification of the summary when there is one.
StatusOfSummary(ends, skipped) == IF skipped THEN "FAILED" ELSE "PASSED"

\* classify_failure; a skipped required test fails whatever the commands did.
Status(ends, skipped) ==
    IF skipped /\ ~AllowSkipped THEN "FAILED"
    ELSE IF \E i \in DOMAIN ends : ends[i].ended = "timeout" THEN "TIMEOUT"
    ELSE IF \E i \in DOMAIN ends : ends[i].ended = "failed" THEN "FAILED"
    ELSE "PASSED"

Report ==
    /\ stage = "classified"
    /\ stage' = "reported"
    /\ report' = Status(results, junit = "skipped")
    /\ UNCHANGED <<patch, commands, process, results, junit>>

\* The results could not be stored.
PersistFails ==
    /\ stage = "classified"
    /\ Errors
    /\ UNCHANGED <<patch, commands, process, results, junit>>

\* What main() does not catch: git apply that times out, a command that cannot be
\* started, a JUnit file that is cut off, a full disk.
Crash ==
    /\ stage \in {"validated", "commands", "parsing", "classified"}
    /\ stage' = "crashed"
    /\ patch' = {}
    /\ UNCHANGED <<commands, process, results, junit, report>>

\* activeDeadlineSeconds
Deadline ==
    /\ stage \notin Over \union {"generated"}
    /\ stage' = "killed"
    /\ patch' = {}
    /\ process' = NoProcess
    /\ UNCHANGED <<commands, results, junit, report>>

-----------------------------------------------------------------------------
(* The command *)

Alive == process.leader = "running"

\* A descendant keeps the output open.
Spawn ==
    /\ Alive
    /\ process.held = "nobody"
    /\ \E holder \in {"group", "session"} : process' = [process EXCEPT !.held = holder]
    /\ UNCHANGED <<stage, patch, commands, results, junit, report>>

Exit ==
    /\ Alive
    /\ \E code \in {"ok", "failed"} : process' = [process EXCEPT !.leader = code]
    /\ UNCHANGED <<stage, patch, commands, results, junit, report>>

Release ==
    /\ process.held # "nobody"
    /\ process' = [process EXCEPT !.held = "nobody"]
    /\ UNCHANGED <<stage, patch, commands, results, junit, report>>

Runner ==
    \/ ValidatePatch
    \/ BlockPatch
    \/ RefusePatch
    \/ VerifyAndApplyPatch
    \/ StartCommand
    \/ RefuseCommand
    \/ CommandEnds
    \/ CommandTimesOut
    \/ KillProcessTree
    \/ CollectOutput
    \/ CommandsDone
    \/ ParseJunit
    \/ Report
    \/ PersistFails
    \/ Crash

Command == Spawn \/ Exit \/ Release

Next == Runner \/ Deadline \/ Command

Spec == Init /\ [][Next]_vars

-----------------------------------------------------------------------------
(* Properties *)

\* Type correctness of the program's state.
TypeOK ==
    /\ stage \in Stages
    /\ patch \in Patches \union {{}}
    /\ commands \in Seq(STRING)
    /\ process \in Groups
    /\ results \in Seq(Results)
    /\ junit \in {None, "clean", "skipped"}
    /\ report \in Reports \union {None}

Skipped == junit = "skipped" /\ ~AllowSkipped

\* PASSED is earned: every configured command was run and succeeded, none was
\* skipped over or left running, and no required test was skipped.
PassedIsEarned ==
    report = "PASSED" =>
        /\ commands = <<>>
        /\ \A i \in DOMAIN results : results[i].ended = "ok"
        /\ ~Skipped

\* FAILED and TIMEOUT are about the command that ended the run, the last one;
\* those before it succeeded, and there is a reason for either.  A skipped test is
\* a reason for FAILED whatever the commands did, so a run that timed out may be
\* reported as FAILED.
VerdictNamesItsReason ==
    /\ \A i \in DOMAIN results : i # Len(results) => results[i].ended = "ok"
    /\ report \in {"FAILED", "TIMEOUT"} =>
           \/ Skipped
           \/ /\ results # <<>>
              /\ results[Len(results)].ended = (IF report = "TIMEOUT" THEN "timeout" ELSE "failed")

\* The two programs read the policy's globs alike where it matters: a patch that
\* the codex runner validated is not refused by the test runner, so the job does
\* not end in ERROR for it.
ValidatedIsNotRefused == stage = "validated" => Rechecked(patch)

\* A timed-out command may leave a descendant that holds the output open, and that
\* SIGTERM does not end or does not reach.
OutputIsHeld == stage = "collecting" /\ process.held # "nobody"

\* The program takes its steps, its timers fire; nothing is assumed of the command
\* and nothing of the Job's deadline.
FairSpec == Spec /\ WF_vars(Runner)

\* A command that hangs, forks or ignores SIGTERM cannot keep the runner from its
\* report, with one exception, where it waits for as long as the Job lasts and no
\* TIMEOUT is reported: a descendant that keeps the output open (OutputIsHeld).
RunEnds == stage = "validated" ~> (stage \in Over \/ OutputIsHeld)
=============================================================================
