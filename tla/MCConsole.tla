------------------------------ MODULE MCConsole ------------------------------
(* One browser with one tab, whose session the control plane issues once.   *)
EXTENDS Console

MCListable == {1, 2}
=============================================================================
