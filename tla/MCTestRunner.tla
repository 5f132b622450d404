---------------------------- MODULE MCTestRunner ----------------------------
(***************************************************************************)
(* TLC checks TestRunner with the patterns of the example policy           *)
(* (config/repository-policies.example.yaml) and paths of up to three      *)
(* names.                                                                  *)
(***************************************************************************)
EXTENDS TestRunner

ExampleAllowed ==
    { <<"tests", "/", "**/", "*", ".py">>,
      <<"tests", "/", "fixtures", "/", "**">> }

ExampleDenied ==
    { <<"app", "/", "**">>,
      <<".env", "*">> }

ExampleSlots == <<"install", "unit", "integration">>

AnyOfTheSlots ==
    {SelectSeq(ExampleSlots, LAMBDA slot : slot \in chosen) :
        chosen \in SUBSET {"install", "unit", "integration"}}

\* The example policy has no class in brackets; this one shows what is made of one.
ExampleClasses == [class \in {"[ab]"} |-> [text |-> <<"[", "a", "b", "]">>, members |-> {"a", "b"}]]

\* A class, and a path of two lines, that only the test runner matches; a "*" that
\* only it lets cross a directory.
ASSUME ReadingsDiffer ==
    \A pair \in { <<<<"tests", "/", "a">>, <<"tests", "/", "[ab]">>>>,
                   <<<<"tests", "/", "a", "LF", "b">>, <<"tests", "/", "**">>>>,
                   <<<<"tests", "/", "a", "/", "b">>, <<"tests", "/", "*">>>> } :
        GlobMatches(pair[1], pair[2]) /\ ~MatchesGlob(pair[1], pair[2])

\* The example policy is one of those whose two readings agree.
ASSUME ExampleIsReadAlike == ReadAlike

Names == {<<"tests">>, <<"fixtures">>, <<"app">>, <<".env">>, <<".py">>,
          <<"app", ".py">>, <<".env", "app">>}

Slash(left, right) == left \o <<"/">> \o right

TwoNames == {Slash(a, b) : a \in Names, b \in Names}

UnsafePaths == {<<"/", "tests", "/", ".py">>, <<"tests", "/", "/", ".py">>,
                <<"tests", "/", "..", "/", "app", "/", ".py">>,
               <<"tests", "/", "fixtures", "/", "LF", ".py">>}

Paths == Names \union TwoNames \union {Slash(a, b) : a \in Names, b \in TwoNames}
         \union UnsafePaths

Change(path, kind) == [path |-> path, kind |-> kind]

TestFile == Change(<<"tests", "/", ".py">>, "edit")

GeneratedPatches ==
    {{}} \union {{Change(p, "edit")} : p \in Paths}
         \union {{TestFile, Change(p, kind)} :
                    p \in {<<"tests", "/", "app", "/", ".py">>, <<"app", "/", ".py">>},
                    kind \in {"edit", "delete"}}
         \union {{TestFile} \union {Change(<<"tests", "/", s, ".py">>, "edit") :
                    s \in {"tests", "app"}}}
=============================================================================
