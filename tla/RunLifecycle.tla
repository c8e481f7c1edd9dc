---------------------------- MODULE RunLifecycle ----------------------------
(***************************************************************************)
(* What the core promises about a run, from the outside (section 15.2 of   *)
(* docs/protocol-server-agent-core-json-rpc.md): an accepted run alternates *)
(* between running and waiting for a permission until it reaches exactly   *)
(* one of completed, cancelled and failed, and stays there.  A cancel may  *)
(* be requested at any time after the run is accepted; from then on the    *)
(* run can no longer become completed.                                     *)
(***************************************************************************)
CONSTANT Runs

VARIABLES
    status,     \* where the run is in its life
    wanted      \* a cancel of the run has taken effect

vars == <<status, wanted>>

Live == {"running", "waiting_permission"}
Final == {"completed", "cancelled", "failed"}

Init ==
    /\ status = [r \in Runs |-> "none"]
    /\ wanted = [r \in Runs |-> FALSE]

Accept(r) ==
    /\ status[r] = "none"
    /\ status' = [status EXCEPT ![r] = "running"]
    /\ UNCHANGED wanted

AskPermission(r) ==
    /\ status[r] = "running"
    /\ status' = [status EXCEPT ![r] = "waiting_permission"]
    /\ UNCHANGED wanted

Resume(r) ==
    /\ status[r] = "waiting_permission"
    /\ status' = [status EXCEPT ![r] = "running"]
    /\ UNCHANGED wanted

Cancel(r) ==
    /\ status[r] # "none"
    /\ wanted' = [wanted EXCEPT ![r] = TRUE]
    /\ UNCHANGED status

End(r, final) ==
    /\ status[r] \in Live
    /\ final = "completed" => ~wanted[r]
    /\ status' = [status EXCEPT ![r] = final]
    /\ UNCHANGED wanted

Finish(r) == \E final \in Final : End(r, final)

Next == \E r \in Runs : \/ Accept(r) \/ AskPermission(r) \/ Resume(r)
                        \/ Cancel(r) \/ Finish(r)

SafeSpec == Init /\ [][Next]_vars

Spec == SafeSpec /\ \A r \in Runs : WF_vars(Finish(r))
=============================================================================
