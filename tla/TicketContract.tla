--------------------------- MODULE TicketContract ---------------------------
(***************************************************************************)
(* What asynchronous publishing promises of each ticket, whatever threads, *)
(* locks and queues implement it.  A ticket is opened once and leaves the  *)
(* store once; in between it is decided once.  The effect of its publish   *)
(* happens at most once, while the ticket is open, and never for a ticket  *)
(* that was told it is cancelled.                                          *)
(***************************************************************************)
CONSTANT Tickets

VARIABLES
    phase,      \* where each ticket is in its life
    effect      \* whether its publish has changed the ledger

contractVars == <<phase, effect>>

Phases == {"none", "open", "cancelled", "completed", "failed", "gone"}
Decided == {"cancelled", "completed", "failed"}

ContractTypeOK ==
    /\ phase \in [Tickets -> Phases]
    /\ effect \in [Tickets -> BOOLEAN]

ContractInit ==
    /\ phase = [id \in Tickets |-> "none"]
    /\ effect = [id \in Tickets |-> FALSE]

-----------------------------------------------------------------------------
Stays(id) == phase'[id] = phase[id] /\ effect'[id] = effect[id]

(* The ticket is inserted in the store.                                     *)
Opens(id) == phase[id] = "none" /\ phase'[id] = "open" /\ effect'[id] = effect[id]

(* The publish commits.                                                     *)
TakesEffect(id) ==
    /\ phase[id] = "open" /\ ~effect[id]
    /\ phase'[id] = "open" /\ effect'[id] = TRUE

(* The ticket is told it is cancelled.                                      *)
IsCancelled(id) ==
    /\ phase[id] = "open" /\ ~effect[id]
    /\ phase'[id] = "cancelled" /\ effect'[id] = effect[id]

(* The ticket reports success or failure.                                   *)
IsDecided(id) ==
    /\ phase[id] = "open"
    /\ phase'[id] \in {"completed", "failed"} /\ effect'[id] = effect[id]

(* The ticket leaves the store: it was decided, or its job was refused.     *)
(* One that the full store refused never entered it.                        *)
IsForgotten(id) ==
    /\ phase[id] \in Decided \cup {"none"} \/ (phase[id] = "open" /\ ~effect[id])
    /\ phase'[id] = "gone" /\ effect'[id] = effect[id]

(* One step of the program may move several tickets.                        *)
ContractNext ==
    /\ ContractTypeOK'
    /\ \A id \in Tickets :
        \/ Stays(id) \/ Opens(id) \/ TakesEffect(id) \/ IsCancelled(id)
        \/ IsDecided(id) \/ IsForgotten(id)

Spec == ContractInit /\ [][ContractNext]_contractVars
=============================================================================
