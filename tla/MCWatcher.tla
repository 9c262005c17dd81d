----------------------------- MODULE MCWatcher -----------------------------
(* Small instances of Watcher: one repository.                              *)
EXTENDS Watcher

CONSTANT repo

OneRepo == {repo}
=============================================================================
