---------------------------- MODULE MCGraphBuild ----------------------------
(* Small instances of GraphBuild.                                           *)
EXTENDS GraphBuild

ThreeFiles == <<"a", "b", "c">>
LargestLast == <<"c", "a", "b">>

\* b and c differ in their extension only.
SharedStem == [f \in {"a", "b", "c"} |-> IF f = "c" THEN "b" ELSE f]
OwnStem    == [f \in {"a", "b", "c"} |-> f]
\* c belongs to a directory that is its module.
PackageOfC == [f \in {"a", "b", "c"} |-> IF f = "c" THEN "dir" ELSE f]

TextOf(defs, calls, used) ==
    [defs |-> defs, calls |-> calls, channels |-> used, routes |-> used]

\* Two texts that define f and two that define g, so that a file may change
\* and leave its definitions in place.
Library  == TextOf(<<"f">>, {}, <<>>)
Library2 == TextOf(<<"f">>, {"g"}, <<"x">>)
Client   == TextOf(<<"g">>, {"f"}, <<>>)
Client2  == TextOf(<<"g">>, {}, <<"x">>)
FourTexts == {Library, Library2, Client, Client2}

\* For SamePick: f has two definitions, and c calls it.
LibraryUse == TextOf(<<"f">>, {}, <<"x">>)
Caller     == TextOf(<<>>, {"f"}, <<>>)
CallerUse  == TextOf(<<>>, {"f"}, <<"x">>)
Rivals == {Library, LibraryUse, Caller, CallerUse}
TwoLibraries ==
    {[f \in {"a", "b", "c"} |-> IF f = "c" THEN Caller ELSE Library]}

Mixed ==
    {[f \in {"a", "b", "c"} |->
        CASE f = "a" -> x [] f = "b" -> y [] f = "c" -> z] :
        x \in {Library, Client}, y \in {Library, Client2, Absent},
        z \in {Client, Absent}}
=============================================================================
