---------------------------- MODULE MCCloneFinish ----------------------------
(* CloneFinish for TLC: five specs that between them have every part of the *)
(* preflight script and of the finish path.                                 *)
EXTENDS CloneFinish

MCSpecs ==
  {[flags |-> {"owner", "schema", "data", "superuser target", "extensions", "comments", "dbProperties"}],
   [flags |-> {"data", "sameMajor", "synchronousCommit", "deferIndexes"}],
   [flags |-> {"follow", "superuser source", "superuser target"}],
   [flags |-> {"follow", "dryRun", "owner", "superuser source", "superuser target"}],
   [flags |-> {"allDatabases", "schema", "extensions"}]}

MCCollected == {"worker", "catalog"}
=============================================================================
