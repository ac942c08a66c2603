---------------------------- MODULE MCConfigFile ----------------------------
(* Constants and bounds of the ConfigFile runs: two configurations sing-box
   accepts, of different length, and one it refuses. *)
EXTENDS ConfigFile, TLC

CONSTANTS short, long, bad

MCConfigs == {short, long, bad}
MCAccepted(c) == c # bad
MCSize(c) == IF c = short THEN 1 ELSE 2

(* What is left in a file that no name and no descriptor refers to can never be
   read again: states that differ in it only are counted once. *)
View == <<[i \in Inodes |-> IF i \in Unused THEN Blank ELSE inode[i]],
          tmp, conf, pc, viewer, cfg, fd, svc, alone, overlapped, littered, owed>>

(* Files are interchangeable, and so are the goroutines; no liveness property is
   checked under this symmetry. *)
Symmetry == Permutations(Inodes) \cup Permutations(Writers)
=============================================================================
