--------------------------- MODULE MCProjectStore ---------------------------
(* Small instances of ProjectStore.                                         *)
EXTENDS ProjectStore

CONSTANTS p1, p2

OneProject == {p1}
TwoProjects == {p1, p2}

\* Every tool on one project from both sides; the second one is there to be
\* switched to.
AllCalls ==
    {Main, Ui} \X Tools \X {p1} \cup {<<Main, "query", p2>>}

NoIndexOnUi == AllCalls \ {<<Ui, "index", p1>>, <<Ui, "adr", p1>>}
=============================================================================
