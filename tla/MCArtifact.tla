----------------------------- MODULE MCArtifact -----------------------------
(* Small instances of Artifact.                                             *)
EXTENDS Artifact, TLC

CONSTANTS app, lib, c1, c2

TwoProjects == {app, lib}
OneProject  == {app}
TwoClients  == {c1, c2}

OneProcess == [c \in {c1, c2} |-> "server"]
\* Threads of one process, and projects, are alike.
Alike == Permutations(TwoClients) \cup Permutations(TwoProjects)

Apart      == [c \in {c1, c2} |-> IF c = c1 THEN "server" ELSE "other"]
=============================================================================
