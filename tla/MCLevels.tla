------------------------------ MODULE MCLevels ------------------------------
(* Modes for Levels.  The passing ones keep apart the two things that together
   break the levels: an output cut between two entries of one user key, and a
   snapshot that keeps both alive. *)
EXTENDS Levels

Mode == [memLevel |-> 2, entries |-> Keys \X BOOLEAN, writes |-> 3, snaps |-> 0, split |-> FALSE]
mcModes == {[Mode EXCEPT !.snaps = 1], [Mode EXCEPT !.split = TRUE],
            [Mode EXCEPT !.split = TRUE, !.writes = 4, !.entries = {1, 2} \X {FALSE}],
            [Mode EXCEPT !.memLevel = 0, !.entries = {1, 2} \X BOOLEAN]}
mcSplit == {[Mode EXCEPT !.snaps = 1, !.split = TRUE]}
=============================================================================
