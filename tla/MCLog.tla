------------------------------- MODULE MCLog -------------------------------
(* Blocks of 7 bytes with 3-byte headers: fragments hold up to 4 bytes, and *)
(* records of 0 and 6 bytes take one to three of them.  The assumptions of  *)
(* Coding are evaluated on bytes of 4 bits, numbers of 2 and of 4 bytes.    *)
EXTENDS Log, Coding
=============================================================================
