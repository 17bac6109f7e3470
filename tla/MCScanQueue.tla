---------------------------- MODULE MCScanQueue -----------------------------
\* Constants for model checking ScanQueue.
EXTENDS ScanQueue, TLC

CONSTANTS e1, r1, r2, main, release, w1, w2

DefaultOnly == {{}}
BothBranches == {{}, {main, release}}
AllPairs == Pairs
FirstRepo == {<<e1, r1>>}
NoFaults == {}
BusyDatabase == {"busy"}
Crashes == {"crash"}
AllFaults == {"crash", "busy"}
NoOverlaps == {}

\* For safety only.
RepoSymmetry == Permutations({r1, r2})
WorkerSymmetry == Permutations({w1, w2})
=============================================================================
