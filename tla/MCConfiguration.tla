--------------------------- MODULE MCConfiguration ---------------------------
(***************************************************************************)
(* One TCP monitor at one location, with every host of up to three         *)
(* characters: what its storing and reading make of the schedule.          *)
(***************************************************************************)
EXTENDS Configuration

x == <<"x">>
MCLocationName == {x}
MCRequest ==
  {[kind |-> "tcp", name |-> x, target |-> t, interval |-> 5, timeout |-> 100,
    failures |-> 1, recoveries |-> 1, secret |-> FALSE] :
       t \in UNION {[1 .. k -> {"x", ".", " "}] : k \in 0 .. 3}}
=============================================================================
