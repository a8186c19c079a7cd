------------------------------ MODULE JobPanel ------------------------------
(***************************************************************************)
(* What an operator may rely on when he looks at the panel of a background *)
(* job, whatever pools, requests and saves do behind it: the batch on      *)
(* display counts up and never down, a stop sticks until the next start,   *)
(* only a restart says "error", a restart never says "running", and no     *)
(* batch is on display as running for ever.                                *)
(*                                                                         *)
(* That a start waits for the batch before it is NOT promised: two         *)
(* requests can pass the 409 guard together, and the second then takes the *)
(* display over.                                                           *)
(***************************************************************************)
EXTENDS Naturals

VARIABLES
  state,    \* of the job on display; "down" while no process answers
  total,    \* the length of its list
  handled   \* how much of it is done, skipped or failed

vars == <<state, total, handled>>

Init == state = "idle" /\ total = 0 /\ handled = 0

Start ==
  /\ state # "down"
  /\ state' = "running"
  /\ total' \in Nat
  /\ handled' = 0

\* What the workers still had in hand counts after a stop too.
Count ==
  /\ state # "down"
  /\ handled' = handled + 1
  /\ UNCHANGED <<state, total>>

Finish ==
  /\ state \notin {"down", "stopped"}
  /\ state' = "done"
  /\ UNCHANGED <<total, handled>>

Stop ==
  /\ state = "running"
  /\ state' = "stopped"
  /\ UNCHANGED <<total, handled>>

Die ==
  /\ state # "down"
  /\ state' = "down"
  /\ total' = 0 /\ handled' = 0

\* How far a batch had come that was cut short is told as the last save had it.
Restart ==
  /\ state = "down"
  /\ state' \in {"idle", "stopped", "done", "error"}
  /\ total' \in Nat /\ handled' \in Nat

Next == Start \/ Count \/ Finish \/ Stop \/ Die \/ Restart

Spec == Init /\ [][Next]_vars

FairSpec == Spec /\ (state = "running" ~> state # "running")
=============================================================================
