---------------------------- MODULE MCChdCompressor ----------------------------
(* Files of a few hunks of two units, for a ring of four hunks. *)
EXTENDS ChdCompressor

\* numbers the hunks of a sequence from 0
MCFile(hunks) == [h \in 0..(Len(hunks) - 1) |-> hunks[h + 1]]

MCBlank == <<0, 0>>

\* with hunks that occur twice, one that is in the parent across a hunk's border, one
\* of zeros, and an odd number of hunks, so that the last half is not full
MCChild == MCFile(<< <<1, 2>>, <<3, 1>>, <<1, 2>>, <<2, 3>>, <<4, 4>>, <<0, 0>>, <<4, 4>> >>)
MCParent == MCFile(<< <<1, 2>>, <<3, 3>>, <<4, 2>>, <<3, 1>>, <<5, 5>>, <<4, 4>>, <<6, 6>> >>)
MCNone == MCFile(<<>>)

MCSetup(parent, compressed, threads, prompt) ==
  [parent |-> parent, compressed |-> compressed, threads |-> threads, prompt |-> prompt]

\* against a parent, alone with a reader that may be late, and raw without threads,
\* alone and against the parent, which does not have the zeros
MCSetups == {MCSetup(MCParent, TRUE, 2, TRUE), MCSetup(MCNone, TRUE, 2, FALSE),
             MCSetup(MCNone, FALSE, 0, TRUE), MCSetup(MCParent, FALSE, 0, TRUE)}

\* alone, with a reader that may be late
MCLate == {MCSetup(MCNone, TRUE, 1, FALSE)}

================================================================================
