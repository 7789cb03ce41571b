------------------------------ MODULE StepLedger ------------------------------
(***************************************************************************)
(* What a computer workflow promises to whoever approved it, however many  *)
(* requests work on it: its steps are carried out one at a time and in     *)
(* their order; a step that requires a confirmation waits for one; what is *)
(* recorded is never carried out again; a step whose record is lost is the *)
(* next one again; and the result is delivered once, with the last record. *)
(* ComputerWorkflow is shown to implement it.                              *)
(***************************************************************************)
EXTENDS Naturals

CONSTANTS N,        \* number of steps
          Guarded   \* steps that require a confirmation

VARIABLES recorded,   \* how many steps are recorded as carried out
          delivered,  \* how many results were delivered
          acting,     \* is a step being carried out, not yet recorded?
          confirmed,  \* steps that somebody has allowed
          performed   \* how often each step was carried out

ledger == <<recorded, delivered, acting, confirmed, performed>>

SLInit ==
  /\ recorded = 0 /\ delivered = 0
  /\ acting = FALSE
  /\ confirmed = {}
  /\ performed = [n \in 1 .. N |-> 0]

Confirm(n) ==
  /\ confirmed' = confirmed \cup {n}
  /\ UNCHANGED <<recorded, delivered, acting, performed>>

CarryOut ==
  LET n == recorded + 1 IN
  /\ ~acting
  /\ n <= N
  /\ n \in Guarded => n \in confirmed
  /\ acting' = TRUE
  /\ performed' = [performed EXCEPT ![n] = @ + 1]
  /\ UNCHANGED <<recorded, delivered, confirmed>>

Record ==
  /\ acting
  /\ acting' = FALSE
  /\ recorded' = recorded + 1
  /\ delivered' = IF recorded' = N THEN delivered + 1 ELSE delivered
  /\ UNCHANGED <<confirmed, performed>>

Lose ==
  /\ acting
  /\ acting' = FALSE
  /\ UNCHANGED <<recorded, delivered, confirmed, performed>>

SLNext == (\E n \in 1 .. N : Confirm(n)) \/ CarryOut \/ Record \/ Lose

SLSpec == SLInit /\ [][SLNext]_ledger
===============================================================================
