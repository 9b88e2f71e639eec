------------------------------ MODULE MCRunDeps ------------------------------
(* Runs of one repository.  1 and 2 name each other, 3 names 2.  Of three runs *)
(* 1 and 3 declare a file and its directory, 2 a file elsewhere; two runs      *)
(* declare the file and the directory, so that they wait for both reasons.     *)
EXTENDS RunDeps, TLC

CONSTANT N  \* how many runs there are

MCRuns == 1 .. N
MCDeps == [r \in MCRuns |-> (<<{2}, {1}, {2}>>[r]) \cap MCRuns]
MCPaths == {"src/", "src/a", "doc"}
MCInside == {<<"src/a", "src/">>}
MCFiles == [r \in MCRuns |-> IF r = 1 THEN {"src/a"} ELSE IF r = N THEN {"src/"} ELSE {"doc"}]
MCRepo == [r \in MCRuns |-> "repo"]
=============================================================================
