---------------------------- MODULE MCCoreClient ----------------------------
(* The client of one shared core, and the runner with a core per run: the  *)
(* two ways the server can be set up, of which a behaviour follows one.    *)
EXTENDS CoreClient, ProcessRunner

VARIABLE mode   \* RunnerMode

allVars == <<vars, runnerVars, mode>>

MCInit == Init /\ RunnerInit /\ mode \in {"single_core", "per_run_process"}

MCNext ==
    /\ \/ mode = "single_core" /\ Next /\ UNCHANGED runnerVars
       \/ mode = "per_run_process" /\ RunnerNext /\ UNCHANGED vars
    /\ UNCHANGED mode

MCSpec == /\ MCInit /\ [][MCNext]_allVars
          /\ WF_allVars(mode = "single_core" /\ Progress /\ UNCHANGED <<runnerVars, mode>>)
          /\ WF_allVars(mode = "per_run_process" /\ RunnerProgress /\ UNCHANGED <<vars, mode>>)
          /\ \A c \in RunCalls : WF_allVars(RunCallEnds(c) /\ UNCHANGED <<vars, mode>>)
=============================================================================
