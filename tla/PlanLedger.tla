----------------------------- MODULE PlanLedger -----------------------------
(***************************************************************************)
(* What the execution of a plan promises, with no queue, attempts, prompt  *)
(* or files: every step gets at most one entry, for good, and only after   *)
(* all it depends on has one; handlers run one step at a time; a refused   *)
(* call halts the plan, after which nothing is called and what is left is  *)
(* void; and a plan that returns leaves no step that was ready.            *)
(***************************************************************************)
CONSTANTS Steps, Plans   \* the steps; what they may depend on

VARIABLES
    depends,   \* depends[s]: the steps s depends on, and others
    entry,     \* entry[s]: what the ledger says of s
    halted,    \* whether a step has aborted the plan
    end        \* "running", "returned" or "raised"

vars == <<depends, entry, halted, end>>

Unsettled == {s \in Steps : entry[s] \in {"open", "called"}}

Ready(s) == entry[s] = "open" /\ depends[s] \cap Unsettled = {}

NobodyCalled == \A s \in Steps : entry[s] # "called"

Enter(s, e) == entry' = [entry EXCEPT ![s] = e] /\ UNCHANGED depends

Init ==
    /\ depends \in Plans
    /\ entry = [s \in Steps |-> "open"]
    /\ halted = FALSE /\ end = "running"

(* The handler of the step's tool runs for the first time; what is said of *)
(* it may get lost.                                                        *)
Call(s) ==
    /\ end = "running" /\ ~ halted /\ Ready(s) /\ NobodyCalled
    /\ Enter(s, "called") /\ end' \in {"running", "raised"}
    /\ UNCHANGED halted

(* Its result may halt the plan.                                           *)
Settle(s) ==
    /\ end = "running" /\ ~ halted /\ entry[s] = "called"
    /\ Enter(s, "done") /\ halted' \in BOOLEAN
    /\ UNCHANGED end

Refuse(s) ==
    /\ end = "running" /\ ~ halted /\ Ready(s) /\ NobodyCalled
    /\ Enter(s, "refused") /\ halted' = TRUE
    /\ UNCHANGED end

(* No consent, or no tool.                                                 *)
PassOver(s) ==
    /\ end = "running" /\ ~ halted /\ Ready(s) /\ NobodyCalled
    /\ Enter(s, "skipped")
    /\ UNCHANGED <<halted, end>>

Void(s) ==
    /\ end = "running" /\ halted /\ Ready(s) /\ NobodyCalled
    /\ Enter(s, "void")
    /\ UNCHANGED <<halted, end>>

Return ==
    /\ end = "running" /\ NobodyCalled /\ \A s \in Steps : ~ Ready(s)
    /\ end' = "returned"
    /\ UNCHANGED <<depends, entry, halted>>

Raise ==
    /\ end = "running" /\ end' = "raised"
    /\ UNCHANGED <<depends, entry, halted>>

Next ==
    \/ \E s \in Steps : Call(s) \/ Settle(s) \/ Refuse(s) \/ PassOver(s) \/ Void(s)
    \/ Return \/ Raise

Spec == Init /\ [][Next]_vars
=============================================================================
