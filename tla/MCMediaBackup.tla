---------------------------- MODULE MCMediaBackup ----------------------------
(* Small instances of MediaBackup for TLC. *)
EXTENDS MediaBackup, TLC

(* All uploads of one device and month, or each in a folder of its own. *)
OneFolder == [d \in Dests |-> CHOOSE f \in Folders : TRUE]
OwnFolder == [d \in Dests |-> d]

(* Keys, paths and threads are interchangeable; a folder of its own moves   *)
(* with its path.  Sound for the safety runs.                               *)
Symmetry == Permutations(Keys) \cup Permutations(Dests)
              \cup Permutations(Temps) \cup Permutations(Workers)
=============================================================================
