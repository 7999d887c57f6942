----------------------------- MODULE RunPromise -----------------------------
(***************************************************************************)
(* What the run tables promise, without clocks, tokens or statements: each *)
(* run is opened at most once; it then has one holder at a time, a new     *)
(* holder taking the next ticket; and it is resolved once, by the holder   *)
(* of its last ticket, after which nothing about it changes.               *)
(***************************************************************************)
EXTENDS Naturals

CONSTANTS Run, Agent, NoAgent

VARIABLES phase, ticket, holder, winner

promiseVars == <<phase, ticket, holder, winner>>

PromiseInit ==
  /\ phase = [r \in Run |-> "absent"]
  /\ ticket = [r \in Run |-> 0]
  /\ holder = [r \in Run |-> NoAgent]
  /\ winner = [r \in Run |-> NoAgent]

Open(r) ==
  /\ phase[r] = "absent"
  /\ phase' = [phase EXCEPT ![r] = "available"]
  /\ UNCHANGED <<ticket, holder, winner>>

Hold(r, a) ==
  /\ phase[r] \in {"available", "leased"}
  /\ phase' = [phase EXCEPT ![r] = "leased"]
  /\ ticket' = [ticket EXCEPT ![r] = @ + 1]
  /\ holder' = [holder EXCEPT ![r] = a]
  /\ UNCHANGED winner

Resolve(r) ==
  /\ phase[r] = "leased"
  /\ phase' = [phase EXCEPT ![r] = "resolved"]
  /\ winner' = [winner EXCEPT ![r] = holder[r]]
  /\ UNCHANGED <<ticket, holder>>

PromiseNext == \E r \in Run : \/ Open(r) \/ Resolve(r)
                              \/ \E a \in Agent : Hold(r, a)

PromiseSpec == PromiseInit /\ [][PromiseNext]_promiseVars
=============================================================================
