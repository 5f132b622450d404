----------------------------- MODULE PatchPolicy -----------------------------
(***************************************************************************)
(* Which generated patches are taken: validateWorkspacePatch of the codex  *)
(* runner decides first, verify_and_apply_patch of the test runner decides *)
(* again with globs of its own.                                            *)
(*                                                                         *)
(* A path is a sequence of symbols, "/" one of them; a pattern a sequence  *)
(* of symbols, wildcards and bracketed classes.  Symbols are characters,   *)
(* or names of which none begins another where no pattern has a class.     *)
(* What git prints of a change is abstracted to its path and its kind.     *)
(***************************************************************************)
EXTENDS Naturals, Sequences, FiniteSets

CONSTANTS
    Allowed,        \* the policy's allowed_paths, patterns
    Denied,         \* its denied_paths
    Permitted,      \* the kinds of change it permits
    MaxFiles,
    Classes         \* "[seq]" and "[!seq]": what each is as text, and its members

Wildcards == {"**/", "**", "*", "?"}

ClassTokens == DOMAIN Classes

ASSUME PolicyAssumption ==
    /\ Allowed # {}
    /\ Allowed \union Denied \subseteq Seq(STRING)
    /\ MaxFiles \in Nat
    /\ \A class \in ClassTokens :
          /\ class \notin Wildcards
          /\ Classes[class].text \in Seq(STRING)
          /\ \A i \in DOMAIN Classes[class].text : Classes[class].text[i] \notin Wildcards
    \* A bracket opens a class, or is not there.
    /\ \A p \in Allowed \union Denied : \A i \in DOMAIN p : p[i] # "["

\* What the dot of a JavaScript regular expression does not match.
LineEnds == {"LF", "CR", "LS", "PS"}

OneLine(text) == \A i \in DOMAIN text : text[i] \notin LineEnds

\* A symbol stands for itself, and so do brackets; matchesGlob's wildcards for
\* these texts.
StandsForTs(token, text) ==
    CASE token = "**/" -> text # <<>> => text[Len(text)] = "/" /\ OneLine(text)
      [] token = "**" -> OneLine(text)
      [] token = "*" -> \A i \in DOMAIN text : text[i] # "/"
      [] token = "?" -> Len(text) = 1 /\ text[1] # "/"
      [] token \in ClassTokens -> text = Classes[token].text
      [] OTHER -> text = <<token>>

\* fnmatchcase knows no directories: its stars cross them.  A class stands for one
\* of its members.
StandsForPy(token, text) ==
    CASE token = "**/" -> text # <<>> /\ text[Len(text)] = "/"
      [] token \in {"**", "*"} -> TRUE
      [] token = "?" -> Len(text) = 1
      [] token \in ClassTokens -> Len(text) = 1 /\ text[1] \in Classes[token].members
      [] OTHER -> text = <<token>>

\* pattern.replace("**/", ""): as if "**/" stood for nothing.
StandsForWithout(token, text) ==
    IF token = "**/" THEN text = <<>> ELSE StandsForPy(token, text)

StandsFor(reading, token, text) ==
    CASE reading = "matchesGlob" -> StandsForTs(token, text)
      [] reading = "fnmatch" -> StandsForPy(token, text)
      [] reading = "without" -> StandsForWithout(token, text)

\* For every token, where in the path it may begin so that the tokens from it on
\* can stand for the rest of the path.
Beginnings(reading, path, pattern) ==
    LET end == Len(path) + 1
        from[i \in 1..(Len(pattern) + 1)] ==
            IF i > Len(pattern) THEN {end}
            ELSE {j \in 1..end :
                     \E k \in j..end :
                         /\ StandsFor(reading, pattern[i], SubSeq(path, j, k - 1))
                         /\ k \in from[i + 1]}
    IN  from

\* The whole path can be cut into pieces the pattern's tokens stand for.
Matches(reading, path, pattern) == 1 \in Beginnings(reading, path, pattern)[1]

MatchesGlob(path, pattern) == Matches("matchesGlob", path, pattern)

\* A recheck that forgets that "**/" may stand for nothing.
GlobMatchesAsIs(path, pattern) == Matches("fnmatch", path, pattern)

\* The pattern as it is, or with every "**/" taken out of it.
GlobMatches(path, pattern) ==
    \E reading \in {"fnmatch", "without"} : Matches(reading, path, pattern)

\* ensure_safe_path of the test runner: relative, no parent component.
RelativePath(path) ==
    /\ path # <<>>
    /\ path[1] # "/"
    /\ \A i \in DOMAIN path : path[i] # ".."

\* assertSafePath of the codex runner: no empty component either.
SafePath(path) ==
    /\ RelativePath(path)
    /\ path[Len(path)] # "/"
    /\ \A i \in 1..(Len(path) - 1) : ~(path[i] = "/" /\ path[i + 1] = "/")

\* validateWorkspacePatch
Validated(changes) ==
    /\ changes # {}
    /\ Cardinality(changes) <= MaxFiles
    /\ \A c \in changes :
          /\ c.kind \in Permitted
          /\ SafePath(c.path)
          /\ \E p \in Allowed : MatchesGlob(c.path, p)
          /\ ~ \E p \in Denied : MatchesGlob(c.path, p)

\* What verify_and_apply_patch asks of the paths it finds changed.
Rechecked(changes) ==
    \A c \in changes :
        /\ RelativePath(c.path)
        /\ \E p \in Allowed : GlobMatches(c.path, p)
        /\ ~ \E p \in Denied : GlobMatches(c.path, p)

BeginsWithName(pattern) ==
    pattern # <<>> /\ pattern[1] \notin Wildcards \union ClassTokens

\* A policy for which it makes no difference that the two programs read "*", "?",
\* classes and several "**/" differently: no allowed pattern has a class or two
\* "**/", and a denied pattern has neither "*" nor "?" nor a class, or begins with
\* a name and every allowed one with another.
ReadAlike ==
    /\ \A p \in Allowed :
          /\ \A i \in DOMAIN p : p[i] \notin ClassTokens
          /\ \A i, j \in DOMAIN p : p[i] = "**/" /\ p[j] = "**/" => i = j
    /\ \A d \in Denied :
          \/ \A i \in DOMAIN d : d[i] \notin {"*", "?"} \union ClassTokens
          \/ /\ BeginsWithName(d)
             /\ \A p \in Allowed : BeginsWithName(p) /\ p[1] # d[1]
=============================================================================
