---------------------------- MODULE MCToolCalls ----------------------------
(* Instances of ToolCalls for TLC.                                         *)
EXTENDS ToolCalls, TLC

CONSTANTS k1, k2, a1, a2

\* One of the keys is also sent with other arguments, and some calls have no key.
OneConflict == {<<k1, a1>>, <<k1, a2>>, <<k2, a1>>, <<NoKey, a1>>}
OneRequest == {<<k1, a1>>}

Hosted == [backend |-> "database", dialect |-> "postgres"]
LocalStore == [backend |-> "database", dialect |-> "sqlite"]
LocalFiles == [backend |-> "local", dialect |-> "sqlite"]

EveryDeployment == {Hosted, LocalStore, LocalFiles}
OnlyLocalFiles == {LocalFiles}
=============================================================================
