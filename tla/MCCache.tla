------------------------------ MODULE MCCache -------------------------------
(* Two readers, two files of two blocks; inserts evict, and hash tables      *)
(* start with one bucket, so that the second entry resizes them.             *)
EXTENDS Cache, TLC
ReaderSymmetry == Permutations(Readers)
MCBlockSize == [o \in Offsets |-> o + 1]
\* A key is a file number, or an id and an offset.
MCHash(key) == IF Len(key) = 1 THEN key[1] % 2 ELSE (key[1] + key[2]) % 4
=============================================================================
