---------------------------- MODULE MCDurableLog ----------------------------
(* Instances of DurableLog for TLC.                                        *)
EXTENDS DurableLog

\* Level full: failing writes, cuts, barriers, file writes and reopens; power loss.
FullFailing ==
    [level |-> "full", uses |-> {"save", "online"},
     faults |-> {"append", "barrier", "cut", "file", "dirsync", "reopen"},
     crashes |-> {"power"}]

\* Level normal, direct writes included: what either kind of crash leaves.
NormalDirect ==
    [level |-> "normal", uses |-> {"online", "sync", "direct"},
     faults |-> {"append", "cut", "file", "dirsync", "reopen", "logdir"},
     crashes |-> {"process", "power"}]

\* Level normal: what sync() and a finished checkpoint promise.
NormalSynced ==
    [level |-> "normal", uses |-> {"save", "online", "sync"},
     faults |-> {"file", "dirsync", "reopen"}, crashes |-> {"power"}]

AllScenarios == {FullFailing, NormalDirect, NormalSynced}
=============================================================================
