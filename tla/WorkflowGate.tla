---------------------------- MODULE WorkflowGate ----------------------------
(***************************************************************************)
(* What the human gate in front of system D promises, with no files,       *)
(* processes or monitors: records are offered at most once, a decision can *)
(* only grant offered records while the gate is open, system D receives    *)
(* exactly what was granted, and the gate closes for good on a rejection   *)
(* or on the first load D answers.                                         *)
(***************************************************************************)
EXTENDS FiniteSets

CONSTANTS Calls, Ids

VARIABLES
    gate,      \* "shut" before an offer, then "open", then "closed"
    offered,   \* the patent ids of the checkpoint
    granted,   \* <<call, ids>> of every accepted approval
    batches    \* <<call, ids>> of every batch system D received

vars == <<gate, offered, granted, batches>>

Init ==
    /\ gate = "shut"
    /\ offered = {} /\ granted = {} /\ batches = {}

Offer(ids) ==
    /\ gate = "shut" /\ ids # {}
    /\ gate' = "open" /\ offered' = ids
    /\ UNCHANGED <<granted, batches>>

Grant(c, ids) ==
    /\ gate = "open" /\ ids \subseteq offered
    /\ \A g \in granted : g[1] # c
    /\ granted' = granted \cup {<<c, ids>>}
    /\ UNCHANGED <<gate, offered, batches>>

(* D took the batch and answered, or took it and failed to say so.         *)
Load(g) ==
    /\ gate = "open" /\ g \in granted
    /\ batches' = batches \cup {g}
    /\ gate' \in {"open", "closed"}
    /\ UNCHANGED <<offered, granted>>

Reject ==
    /\ gate = "open" /\ gate' = "closed"
    /\ UNCHANGED <<offered, granted, batches>>

Next ==
    \/ \E ids \in SUBSET Ids : Offer(ids) \/ \E c \in Calls : Grant(c, ids)
    \/ \E g \in granted : Load(g)
    \/ Reject

Spec == Init /\ [][Next]_vars
=============================================================================
