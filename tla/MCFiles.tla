------------------------------- MODULE MCFiles -------------------------------
(* Open files for TLC: the descriptors and slots of FileTable above, the open  *)
(* inodes of InodeCache below.  Each property is about one of the two, so that *)
(* a behaviour has steps of one of them only.                                  *)
EXTENDS FileTable, InodeCache

VARIABLE part

MCInit == FileTableInit /\ Init /\ part \in {"slots", "inodes"}

MCNext ==
    \/ part = "slots" /\ FileTableNext /\ UNCHANGED <<vars, part>>
    \/ part = "inodes" /\ Next /\ UNCHANGED <<file_vars, part>>

MCSpec == MCInit /\ [][MCNext]_<<file_vars, vars, part>>
=============================================================================
