------------------------------ MODULE MCWorkQueue ------------------------------
(* Instances of a work queue: flags, threads and clients are set in each cfg. *)
EXTENDS WorkQueueProperties

CONSTANTS i1, i2, i3, main, reader

MCOne == {i1}
MCThree == {i1, i2, i3}

\* blocks of memory are interchangeable
MCMemory == Permutations(Items)

================================================================================
