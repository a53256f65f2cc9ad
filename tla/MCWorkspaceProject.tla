-------------------------- MODULE MCWorkspaceProject --------------------------
EXTENDS WorkspaceProject, TLC

MCPaths == 1..3

\* The first change rewrites a file, the second adds one, the third deletes one.
MCBefore == <<"old", Absent, "old">>
MCAfter == <<"new", "new", Absent>>
MCEdits == {"old", "mine"}

\* The processes are interchangeable.
MCSymmetry == Permutations(Sessions)
=============================================================================
