------------------------------ MODULE MCStorage ------------------------------
(* The two stores of the kernel for TLC.  The disk: any of the disks of Format *)
(* is formatted first, then Fs has three names in the root directory, and one  *)
(* in a subdirectory.  The memory: KMem.  Each property is about one of them,  *)
(* so that a behaviour has steps of one of them only.                          *)
EXTENDS Fs, Format, KMem

VARIABLE part

MCInit ==
    /\ Init /\ KMemInit
    /\ \/ part = "disk" /\ FormatInit
       \/ part = "memory" /\ geometry = NoDisk

MCNext ==
    \/ part = "disk" /\ filesys_init /\ UNCHANGED <<vars, kmem_vars, part>>
    \/ part = "disk" /\ geometry = NoDisk /\ Next /\ UNCHANGED <<geometry, kmem_vars, part>>
    \/ part = "memory" /\ KMemNext /\ UNCHANGED <<vars, geometry, part>>

MCSpec == MCInit /\ [][MCNext]_<<vars, geometry, kmem_vars, part>>

SmallPaths == {<<"f">>, <<"g">>, <<"h">>, <<"f", "g">>}
=============================================================================
