-------------------------- MODULE MCReadCommitted --------------------------
(* The server's connections to one PostgreSQL database.                    *)
EXTENDS ReadCommitted

CONSTANTS t1, t2, t3
MCThresholds == [failures |-> 2, recoveries |-> 1]
=============================================================================
