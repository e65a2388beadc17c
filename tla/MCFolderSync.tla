---------------------------- MODULE MCFolderSync ----------------------------
(* Instance of FolderSync for TLC: two processes; a folder a, in it an        *)
(* unreadable one with one inside; no depth limit.                             *)
EXTENDS FolderSync, TLC

MCOrder   == [d \in Dirs |-> CASE d = "." -> 0 [] d = "a" -> 1 [] d = "a/u" -> 2 [] d = "a/u/v" -> 3]
MCWithin  == [d \in Folders |-> {e \in Folders : MCOrder[e] <= MCOrder[d]}]
MCDepth   == [d \in Folders |-> MCOrder[d]]
(* A folder with a user's files; a project that was synced before the user
   wrote CLAUDE.md files, with the translator on and off. *)
Synced    == Body([facts |-> 1, md |-> 0])
MCFound   == {<<Custom, Absent, "none">>, <<Synced, Custom, "on">>, <<Synced, Custom, "off">>}
Symmetry  == Permutations(Runners)
=============================================================================
