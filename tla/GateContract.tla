---------------------------- MODULE GateContract ----------------------------
(***************************************************************************)
(* What every commit status gate promises to the policy that reads it: the *)
(* policy finds success for a commit only after the gate's condition was   *)
(* met for that commit.  When the policy looks, whether it finds the news, *)
(* and whether a success is withdrawn again, is left open.                 *)
(***************************************************************************)
CONSTANT Shas

VARIABLES
    met,   \* commits for which the condition has been met
    view   \* what the policy last found: a commit, and whether it has success

Init == met \subseteq Shas /\ view.ok = FALSE

Meet == met \subseteq met' /\ met' \subseteq Shas /\ view' = view

Look ==
    /\ view'.sha \in Shas /\ view'.ok \in BOOLEAN
    /\ view'.ok => view'.sha \in met
    /\ met' = met

Spec == Init /\ [][Meet \/ Look]_<<met, view>>
=============================================================================
