---------------------------- MODULE MCBlockCache ----------------------------
(* Small images for BlockCache: sectors of 2 bytes, a size_t of 64 values. *)
EXTENDS BlockCache

\* Reads that start inside a sector as well: shorter and longer than the rest of
\* the image.
AnyRequests == {[off |-> 0, len |-> 4], [off |-> 3, len |-> 1], [off |-> 3, len |-> 8], [off |-> 9, len |-> 2]}

\* One read inside the image and one that goes past its end.
FewRequests == {[off |-> 0, len |-> 2], [off |-> 2, len |-> 9]}

\* The read-ahead of the device's start.
FirstSectors == [off |-> 0, len |-> 4]

\* Nothing is claimed once an eviction has overlapped a locked section.
StopAtOverlap == ~overlap

ReaderSymmetry == Permutations(Readers)
=============================================================================
