----------------------------- MODULE MCRecovery -----------------------------
(* Bounds for TLC.  The database is created with the default options; later *)
(* calls of Open may reuse its files.                                       *)
EXTENDS Recovery

\* A group of a Delete and a Put, and a Put.
TwoBatches == <<<<"delete", "put">>, <<"put">>>>
=============================================================================
