----------------------------- MODULE MCImageCells -----------------------------
(***************************************************************************)
(* Images whose lengths are around every boundary of the padding: a whole  *)
(* beat, the last length whose pad holds the count within the beat, and    *)
(* the limit up to which a file is read.                                   *)
(***************************************************************************)
EXTENDS ImageCells

Lengths == {0, 1, 11, 12, 13, 15, 16, 17, 28, 29, 32, 35}

MCImages == {[i \in 1..n |-> i % 256] : n \in Lengths}

==============================================================================
