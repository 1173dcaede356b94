------------------------------- MODULE MCUMem --------------------------------
(* UMem for TLC.  A page has two units of 2048 bytes, the buffer of printf().  *)
(* As ld lays them out, /shell has a data segment, whose last page its heap    *)
(* begins in, and /init has none.                                              *)
EXTENDS UMem, TLC

CONSTANTS p1, p2

MCProgram ==
    "/init"  :> <<[vaddr |-> 2, memsz |-> 1]>> @@
    "/shell" :> <<[vaddr |-> 2, memsz |-> 2], [vaddr |-> 4, memsz |-> 1]>>

ProcSymmetry == Permutations({p1, p2})
=============================================================================
