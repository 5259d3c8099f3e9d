---------------------------- MODULE ApprovalGate ----------------------------
(***************************************************************************)
(* What the approval flow of the agent promises, whatever the number of    *)
(* requests, crashes and lost clients: a change is decided once, and only  *)
(* an approved change reaches the workspace, at most once.  READ calls     *)
(* need no decision and change nothing.                                    *)
(***************************************************************************)
EXTENDS Naturals

CONSTANT Calls

VARIABLES
    decision,   \* what is known of each call
    effect      \* how often its change was made

gateVars == <<decision, effect>>

Init ==
    /\ decision = [c \in Calls |-> "none"]
    /\ effect = [c \in Calls |-> 0]

Ask(c, kind) ==
    /\ decision[c] = "none"
    /\ decision' = [decision EXCEPT ![c] = kind]
    /\ UNCHANGED effect

Decide(c, d) ==
    /\ decision[c] = "pending"
    /\ decision' = [decision EXCEPT ![c] = d]
    /\ UNCHANGED effect

Apply(c) ==
    /\ decision[c] = "approved" /\ effect[c] = 0
    /\ effect' = [effect EXCEPT ![c] = 1]
    /\ UNCHANGED decision

Next ==
    \E c \in Calls :
        \/ \E kind \in {"pending", "not_required"} : Ask(c, kind)
        \/ \E d \in {"approved", "rejected"} : Decide(c, d)
        \/ Apply(c)

Spec == Init /\ [][Next]_gateVars
=============================================================================
