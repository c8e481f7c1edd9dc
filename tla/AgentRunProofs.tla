--------------------------- MODULE AgentRunProofs ---------------------------
(***************************************************************************)
(* The safety properties of AgentRun, for any number of runs, permission   *)
(* requests, turns, retries and tools; and that it implements RunLifecycle *)
(* (the last part).                                                        *)
(***************************************************************************)
EXTENDS AgentRun, TLAPS

\* Every step keeps every variable in its type.
LEMMA TypeStep ==
    TypeOK /\ [Next]_vars => TypeOK'
<1> SUFFICES ASSUME TypeOK, [Next]_vars PROVE TypeOK'
  OBVIOUS
<1> USE NoPermAssumption, BoundsAssumption DEF vars, turnVars, toolVars,
      handleVars, endVars, lateVars, TypeOK, RpcStates, NoRpc, Positions,
      InLoop
<1>1. CASE Initialize
  BY <1>1 DEF Initialize
<1>2. CASE StopReading
  BY <1>2 DEF StopReading
<1>3. CASE Exit
  BY <1>3 DEF Exit
<1>4. CASE Exited
  BY <1>4 DEF Exited
<1>5. CASE UNCHANGED vars
  BY <1>5
<1>6. ASSUME NEW r \in Runs, AgentReply(r) PROVE TypeOK'
  BY <1>6 DEF AgentReply, Goto
<1>7. ASSUME NEW r \in Runs, AgentCancel(r) PROVE TypeOK'
  BY <1>7 DEF AgentCancel
<1>8. ASSUME NEW r \in Runs, CancelStore(r) PROVE TypeOK'
  BY <1>8 DEF CancelStore
<1>9. ASSUME NEW r \in Runs, CancelDeny(r) PROVE TypeOK'
  BY <1>9 DEF CancelDeny, DenyPendingPermissionsForRun, PendingOf, Pending
<1>10. ASSUME NEW r \in Runs, NEW p \in Perms,
             NEW decision \in {"Approve", "Deny"},
             PermissionResolve(r, p, decision) PROVE TypeOK'
  BY <1>10 DEF PermissionResolve
<1>11. ASSUME NEW r \in Runs, RunStarted(r) PROVE TypeOK'
  BY <1>11 DEF RunStarted, Goto
<1>12. ASSUME NEW r \in Runs, ProviderMissing(r) PROVE TypeOK'
  BY <1>12 DEF ProviderMissing, Leave
<1>13. ASSUME NEW r \in Runs, TurnsUsedUp(r) PROVE TypeOK'
  BY <1>13 DEF TurnsUsedUp, Leave
<1>14. ASSUME NEW r \in Runs, TurnCancelled(r) PROVE TypeOK'
  BY <1>14 DEF TurnCancelled, Leave
<1>15. ASSUME NEW r \in Runs, BeginTurn(r) PROVE TypeOK'
  BY <1>15 DEF BeginTurn, Goto
<1>16. ASSUME NEW r \in Runs, OpenStream(r) PROVE TypeOK'
  BY <1>16 DEF OpenStream, Goto
<1>17. ASSUME NEW r \in Runs, StreamItem(r) PROVE TypeOK'
  BY <1>17 DEF StreamItem
<1>18. ASSUME NEW r \in Runs, StreamCancelled(r) PROVE TypeOK'
  BY <1>18 DEF StreamCancelled, Leave
<1>19. ASSUME NEW r \in Runs, NEW res \in {"Err", "ErrCancelled"},
             AttemptFails(r, res) PROVE TypeOK'
  BY <1>19 DEF AttemptFails, Leave
<1>20. ASSUME NEW r \in Runs, RetryAttempt(r) PROVE TypeOK'
  BY <1>20 DEF RetryAttempt, Goto
<1>21. ASSUME NEW r \in Runs, Backoff(r) PROVE TypeOK'
  BY <1>21 DEF Backoff, Goto
<1>22. ASSUME NEW r \in Runs, EmptyTurn(r) PROVE TypeOK'
  BY <1>22 DEF EmptyTurn, Leave
<1>23. ASSUME NEW r \in Runs, TurnReceived(r) PROVE TypeOK'
  BY <1>23 DEF TurnReceived, Goto
<1>24. ASSUME NEW r \in Runs, NEW followup \in BOOLEAN, GoOn(r, followup) PROVE TypeOK'
  BY <1>24 DEF GoOn, Goto
<1>25. ASSUME NEW r \in Runs, LastTurn(r) PROVE TypeOK'
  BY <1>25 DEF LastTurn, Leave
<1>26. ASSUME NEW r \in Runs, SkipTool(r) PROVE TypeOK'
  BY <1>26 DEF SkipTool
<1>27. ASSUME NEW r \in Runs, TaskTool(r) PROVE TypeOK'
  BY <1>27 DEF TaskTool
<1>28. ASSUME NEW r \in Runs, NEW kind \in {"builtin", "agent"},
             DispatchTool(r, kind) PROVE TypeOK'
  BY <1>28 DEF DispatchTool, Goto
<1>29. ASSUME NEW r \in Runs, NEW allow \in BOOLEAN,
             PolicyDecides(r, allow) PROVE TypeOK'
  BY <1>29 DEF PolicyDecides, Goto
<1>30. ASSUME NEW r \in Runs, AskForCall(r) PROVE TypeOK'
  BY <1>30 DEF AskForCall, InsertHandle, Fresh, Goto
<1>31. ASSUME NEW r \in Runs, AnnouncePermission(r) PROVE TypeOK'
  BY <1>31 DEF AnnouncePermission, Goto
<1>32. ASSUME NEW r \in Runs, CallDecided(r) PROVE TypeOK'
  BY <1>32 DEF CallDecided, Goto
<1>33. ASSUME NEW r \in Runs, OutputDecided(r) PROVE TypeOK'
  BY <1>33 DEF OutputDecided, Goto
<1>34. ASSUME NEW r \in Runs, PermissionTimeout(r) PROVE TypeOK'
  BY <1>34 DEF PermissionTimeout, Goto
<1>35. ASSUME NEW r \in Runs, CheckBeforeTool(r) PROVE TypeOK'
  BY <1>35 DEF CheckBeforeTool, Goto
<1>36. ASSUME NEW r \in Runs, StartTool(r) PROVE TypeOK'
  BY <1>36 DEF StartTool, Goto
<1>37. ASSUME NEW r \in Runs, ToolReturns(r) PROVE TypeOK'
  BY <1>37 DEF ToolReturns, Goto
<1>38. ASSUME NEW r \in Runs, AskForOutput(r) PROVE TypeOK'
  BY <1>38 DEF AskForOutput, InsertHandle, Fresh, Goto
<1>39. ASSUME NEW r \in Runs, ClassifyResult(r) PROVE TypeOK'
  BY <1>39 DEF ClassifyResult, Goto
<1>40. ASSUME NEW r \in Runs, BuildTerminal(r) PROVE TypeOK'
  BY <1>40 DEF BuildTerminal, Goto
<1>41. ASSUME NEW r \in Runs, SendTerminal(r) PROVE TypeOK'
  BY <1>41 DEF SendTerminal, Goto
<1>42. ASSUME NEW r \in Runs, CleanupRemove(r) PROVE TypeOK'
  BY <1>42 DEF CleanupRemove, Goto
<1>43. ASSUME NEW r \in Runs, CleanupDeny(r) PROVE TypeOK'
  BY <1>43 DEF CleanupDeny, DenyPendingPermissionsForRun, PendingOf, Pending,
      Goto
<1>44. ASSUME NEW r \in Runs, TotalTimeout(r) PROVE TypeOK'
  BY <1>44 DEF TotalTimeout, Leave
<1> HIDE DEF vars, turnVars, toolVars, handleVars, endVars, lateVars, TypeOK,
      RpcStates, NoRpc, Positions, InLoop
<1> QED BY <1>1, <1>2, <1>3, <1>4, <1>5, <1>6, <1>7, <1>8, <1>9, <1>10,
      <1>11, <1>12, <1>13, <1>14, <1>15, <1>16, <1>17, <1>18, <1>19, <1>20,
      <1>21, <1>22, <1>23, <1>24, <1>25, <1>26, <1>27, <1>28, <1>29, <1>30,
      <1>31, <1>32, <1>33, <1>34, <1>35, <1>36, <1>37, <1>38, <1>39, <1>40,
      <1>41, <1>42, <1>43, <1>44
      DEF Next, Requests, TurnStep, ToolStep, EndStep

\* The types hold in the initial state.
LEMMA TypeInit == Init => TypeOK
BY NoPermAssumption, BoundsAssumption
   DEF Init, TypeOK, RpcStates, NoRpc, Positions, InLoop

\* Every variable keeps its type in every state of every behaviour.
THEOREM TypeCorrect == Spec => []TypeOK
BY TypeInit, TypeStep, PTL DEF Spec

-----------------------------------------------------------------------------
\* Why the work after a cancel is bounded: a run that has already opened a
\* provider request (or started a builtin tool) after the cancel is past the
\* last place from which it could do so without reading the flag again.
WorkInv ==
    \A r \in Runs :
        /\ ~cancelled[r] => lateReqs[r] = 0 /\ lateTools[r] = 0
        /\ lateReqs[r] <= 1 /\ lateTools[r] <= 1
        /\ pc[r] \in {"idle", "request", "backoff"} => lateReqs[r] = 0
        /\ pc[r] = "idle" => lateTools[r] = 0
        /\ pc[r] = "ready" /\ tool[r] = "builtin" => lateTools[r] = 0

\* Every step preserves WorkInv.
LEMMA WorkKept ==
    TypeOK /\ WorkInv /\ [Next]_vars => WorkInv'
<1> SUFFICES ASSUME TypeOK, WorkInv, [Next]_vars PROVE WorkInv'
  OBVIOUS
<1> USE NoPermAssumption, BoundsAssumption DEF vars, turnVars, toolVars,
      handleVars, endVars, lateVars, TypeOK, RpcStates, NoRpc, Positions,
      InLoop, WorkInv
<1>1. CASE Initialize
  BY <1>1 DEF Initialize
<1>2. CASE StopReading
  BY <1>2 DEF StopReading
<1>3. CASE Exit
  BY <1>3 DEF Exit
<1>4. CASE Exited
  BY <1>4 DEF Exited
<1>5. CASE UNCHANGED vars
  BY <1>5
<1>6. ASSUME NEW r \in Runs, AgentReply(r) PROVE WorkInv'
  BY <1>6 DEF AgentReply, Goto
<1>7. ASSUME NEW r \in Runs, AgentCancel(r) PROVE WorkInv'
  BY <1>7 DEF AgentCancel
<1>8. ASSUME NEW r \in Runs, CancelStore(r) PROVE WorkInv'
  BY <1>8 DEF CancelStore
<1>9. ASSUME NEW r \in Runs, CancelDeny(r) PROVE WorkInv'
  BY <1>9 DEF CancelDeny, DenyPendingPermissionsForRun, PendingOf, Pending
<1>10. ASSUME NEW r \in Runs, NEW p \in Perms,
             NEW decision \in {"Approve", "Deny"},
             PermissionResolve(r, p, decision) PROVE WorkInv'
  BY <1>10 DEF PermissionResolve
<1>11. ASSUME NEW r \in Runs, RunStarted(r) PROVE WorkInv'
  BY <1>11 DEF RunStarted, Goto
<1>12. ASSUME NEW r \in Runs, ProviderMissing(r) PROVE WorkInv'
  BY <1>12 DEF ProviderMissing, Leave
<1>13. ASSUME NEW r \in Runs, TurnsUsedUp(r) PROVE WorkInv'
  BY <1>13 DEF TurnsUsedUp, Leave
<1>14. ASSUME NEW r \in Runs, TurnCancelled(r) PROVE WorkInv'
  BY <1>14 DEF TurnCancelled, Leave
<1>15. ASSUME NEW r \in Runs, BeginTurn(r) PROVE WorkInv'
  BY <1>15 DEF BeginTurn, Goto
<1>16. ASSUME NEW r \in Runs, OpenStream(r) PROVE WorkInv'
  BY <1>16 DEF OpenStream, Goto
<1>17. ASSUME NEW r \in Runs, StreamItem(r) PROVE WorkInv'
  BY <1>17 DEF StreamItem
<1>18. ASSUME NEW r \in Runs, StreamCancelled(r) PROVE WorkInv'
  BY <1>18 DEF StreamCancelled, Leave
<1>19. ASSUME NEW r \in Runs, NEW res \in {"Err", "ErrCancelled"},
             AttemptFails(r, res) PROVE WorkInv'
  BY <1>19 DEF AttemptFails, Leave
<1>20. ASSUME NEW r \in Runs, RetryAttempt(r) PROVE WorkInv'
  BY <1>20 DEF RetryAttempt, Goto
<1>21. ASSUME NEW r \in Runs, Backoff(r) PROVE WorkInv'
  BY <1>21 DEF Backoff, Goto
<1>22. ASSUME NEW r \in Runs, EmptyTurn(r) PROVE WorkInv'
  BY <1>22 DEF EmptyTurn, Leave
<1>23. ASSUME NEW r \in Runs, TurnReceived(r) PROVE WorkInv'
  BY <1>23 DEF TurnReceived, Goto
<1>24. ASSUME NEW r \in Runs, NEW followup \in BOOLEAN, GoOn(r, followup) PROVE WorkInv'
  BY <1>24 DEF GoOn, Goto
<1>25. ASSUME NEW r \in Runs, LastTurn(r) PROVE WorkInv'
  BY <1>25 DEF LastTurn, Leave
<1>26. ASSUME NEW r \in Runs, SkipTool(r) PROVE WorkInv'
  BY <1>26 DEF SkipTool
<1>27. ASSUME NEW r \in Runs, TaskTool(r) PROVE WorkInv'
  BY <1>27 DEF TaskTool
<1>28. ASSUME NEW r \in Runs, NEW kind \in {"builtin", "agent"},
             DispatchTool(r, kind) PROVE WorkInv'
  BY <1>28 DEF DispatchTool, Goto
<1>29. ASSUME NEW r \in Runs, NEW allow \in BOOLEAN,
             PolicyDecides(r, allow) PROVE WorkInv'
  BY <1>29 DEF PolicyDecides, Goto
<1>30. ASSUME NEW r \in Runs, AskForCall(r) PROVE WorkInv'
  BY <1>30 DEF AskForCall, InsertHandle, Fresh, Goto
<1>31. ASSUME NEW r \in Runs, AnnouncePermission(r) PROVE WorkInv'
  BY <1>31 DEF AnnouncePermission, Goto
<1>32. ASSUME NEW r \in Runs, CallDecided(r) PROVE WorkInv'
  BY <1>32 DEF CallDecided, Goto
<1>33. ASSUME NEW r \in Runs, OutputDecided(r) PROVE WorkInv'
  BY <1>33 DEF OutputDecided, Goto
<1>34. ASSUME NEW r \in Runs, PermissionTimeout(r) PROVE WorkInv'
  BY <1>34 DEF PermissionTimeout, Goto
<1>35. ASSUME NEW r \in Runs, CheckBeforeTool(r) PROVE WorkInv'
  BY <1>35 DEF CheckBeforeTool, Goto
<1>36. ASSUME NEW r \in Runs, StartTool(r) PROVE WorkInv'
  BY <1>36 DEF StartTool, Goto
<1>37. ASSUME NEW r \in Runs, ToolReturns(r) PROVE WorkInv'
  BY <1>37 DEF ToolReturns, Goto
<1>38. ASSUME NEW r \in Runs, AskForOutput(r) PROVE WorkInv'
  BY <1>38 DEF AskForOutput, InsertHandle, Fresh, Goto
<1>39. ASSUME NEW r \in Runs, ClassifyResult(r) PROVE WorkInv'
  BY <1>39 DEF ClassifyResult, Goto
<1>40. ASSUME NEW r \in Runs, BuildTerminal(r) PROVE WorkInv'
  BY <1>40 DEF BuildTerminal, Goto
<1>41. ASSUME NEW r \in Runs, SendTerminal(r) PROVE WorkInv'
  BY <1>41 DEF SendTerminal, Goto
<1>42. ASSUME NEW r \in Runs, CleanupRemove(r) PROVE WorkInv'
  BY <1>42 DEF CleanupRemove, Goto
<1>43. ASSUME NEW r \in Runs, CleanupDeny(r) PROVE WorkInv'
  BY <1>43 DEF CleanupDeny, DenyPendingPermissionsForRun, PendingOf, Pending,
      Goto
<1>44. ASSUME NEW r \in Runs, TotalTimeout(r) PROVE WorkInv'
  BY <1>44 DEF TotalTimeout, Leave
<1> HIDE DEF vars, turnVars, toolVars, handleVars, endVars, lateVars, TypeOK,
      RpcStates, NoRpc, Positions, InLoop, WorkInv
<1> QED BY <1>1, <1>2, <1>3, <1>4, <1>5, <1>6, <1>7, <1>8, <1>9, <1>10,
      <1>11, <1>12, <1>13, <1>14, <1>15, <1>16, <1>17, <1>18, <1>19, <1>20,
      <1>21, <1>22, <1>23, <1>24, <1>25, <1>26, <1>27, <1>28, <1>29, <1>30,
      <1>31, <1>32, <1>33, <1>34, <1>35, <1>36, <1>37, <1>38, <1>39, <1>40,
      <1>41, <1>42, <1>43, <1>44
      DEF Next, Requests, TurnStep, ToolStep, EndStep

-----------------------------------------------------------------------------
\* The permission table: a request that was answered has left it, a request
\* that exists belongs to a run that was started.
TableInv ==
    \A p \in Perms :
        /\ answer[p] # "none" => perm[p] = "taken"
        /\ perm[p] # "unused" => owner[p] \in Runs /\ pc[owner[p]] # "idle"

\* Every step preserves TableInv.
LEMMA TableKept ==
    TypeOK /\ TableInv /\ [Next]_vars => TableInv'
<1> SUFFICES ASSUME TypeOK, TableInv, [Next]_vars PROVE TableInv'
  OBVIOUS
<1> USE NoPermAssumption, BoundsAssumption DEF vars, turnVars, toolVars,
      handleVars, endVars, lateVars, TypeOK, RpcStates, NoRpc, Positions,
      InLoop, TableInv
<1>1. CASE Initialize
  BY <1>1 DEF Initialize
<1>2. CASE StopReading
  BY <1>2 DEF StopReading
<1>3. CASE Exit
  BY <1>3 DEF Exit
<1>4. CASE Exited
  BY <1>4 DEF Exited
<1>5. CASE UNCHANGED vars
  BY <1>5
<1>6. ASSUME NEW r \in Runs, AgentReply(r) PROVE TableInv'
  BY <1>6 DEF AgentReply, Goto
<1>7. ASSUME NEW r \in Runs, AgentCancel(r) PROVE TableInv'
  BY <1>7 DEF AgentCancel
<1>8. ASSUME NEW r \in Runs, CancelStore(r) PROVE TableInv'
  BY <1>8 DEF CancelStore
<1>9. ASSUME NEW r \in Runs, CancelDeny(r) PROVE TableInv'
  BY <1>9 DEF CancelDeny, DenyPendingPermissionsForRun, PendingOf, Pending
<1>10. ASSUME NEW r \in Runs, NEW p \in Perms,
             NEW decision \in {"Approve", "Deny"},
             PermissionResolve(r, p, decision) PROVE TableInv'
  BY <1>10 DEF PermissionResolve
<1>11. ASSUME NEW r \in Runs, RunStarted(r) PROVE TableInv'
  BY <1>11 DEF RunStarted, Goto
<1>12. ASSUME NEW r \in Runs, ProviderMissing(r) PROVE TableInv'
  BY <1>12 DEF ProviderMissing, Leave
<1>13. ASSUME NEW r \in Runs, TurnsUsedUp(r) PROVE TableInv'
  BY <1>13 DEF TurnsUsedUp, Leave
<1>14. ASSUME NEW r \in Runs, TurnCancelled(r) PROVE TableInv'
  BY <1>14 DEF TurnCancelled, Leave
<1>15. ASSUME NEW r \in Runs, BeginTurn(r) PROVE TableInv'
  BY <1>15 DEF BeginTurn, Goto
<1>16. ASSUME NEW r \in Runs, OpenStream(r) PROVE TableInv'
  BY <1>16 DEF OpenStream, Goto
<1>17. ASSUME NEW r \in Runs, StreamItem(r) PROVE TableInv'
  BY <1>17 DEF StreamItem
<1>18. ASSUME NEW r \in Runs, StreamCancelled(r) PROVE TableInv'
  BY <1>18 DEF StreamCancelled, Leave
<1>19. ASSUME NEW r \in Runs, NEW res \in {"Err", "ErrCancelled"},
             AttemptFails(r, res) PROVE TableInv'
  BY <1>19 DEF AttemptFails, Leave
<1>20. ASSUME NEW r \in Runs, RetryAttempt(r) PROVE TableInv'
  BY <1>20 DEF RetryAttempt, Goto
<1>21. ASSUME NEW r \in Runs, Backoff(r) PROVE TableInv'
  BY <1>21 DEF Backoff, Goto
<1>22. ASSUME NEW r \in Runs, EmptyTurn(r) PROVE TableInv'
  BY <1>22 DEF EmptyTurn, Leave
<1>23. ASSUME NEW r \in Runs, TurnReceived(r) PROVE TableInv'
  BY <1>23 DEF TurnReceived, Goto
<1>24. ASSUME NEW r \in Runs, NEW followup \in BOOLEAN, GoOn(r, followup) PROVE TableInv'
  BY <1>24 DEF GoOn, Goto
<1>25. ASSUME NEW r \in Runs, LastTurn(r) PROVE TableInv'
  BY <1>25 DEF LastTurn, Leave
<1>26. ASSUME NEW r \in Runs, SkipTool(r) PROVE TableInv'
  BY <1>26 DEF SkipTool
<1>27. ASSUME NEW r \in Runs, TaskTool(r) PROVE TableInv'
  BY <1>27 DEF TaskTool
<1>28. ASSUME NEW r \in Runs, NEW kind \in {"builtin", "agent"},
             DispatchTool(r, kind) PROVE TableInv'
  BY <1>28 DEF DispatchTool, Goto
<1>29. ASSUME NEW r \in Runs, NEW allow \in BOOLEAN,
             PolicyDecides(r, allow) PROVE TableInv'
  BY <1>29 DEF PolicyDecides, Goto
<1>30. ASSUME NEW r \in Runs, AskForCall(r) PROVE TableInv'
  BY <1>30 DEF AskForCall, InsertHandle, Fresh, Goto
<1>31. ASSUME NEW r \in Runs, AnnouncePermission(r) PROVE TableInv'
  BY <1>31 DEF AnnouncePermission, Goto
<1>32. ASSUME NEW r \in Runs, CallDecided(r) PROVE TableInv'
  BY <1>32 DEF CallDecided, Goto
<1>33. ASSUME NEW r \in Runs, OutputDecided(r) PROVE TableInv'
  BY <1>33 DEF OutputDecided, Goto
<1>34. ASSUME NEW r \in Runs, PermissionTimeout(r) PROVE TableInv'
  BY <1>34 DEF PermissionTimeout, Goto
<1>35. ASSUME NEW r \in Runs, CheckBeforeTool(r) PROVE TableInv'
  BY <1>35 DEF CheckBeforeTool, Goto
<1>36. ASSUME NEW r \in Runs, StartTool(r) PROVE TableInv'
  BY <1>36 DEF StartTool, Goto
<1>37. ASSUME NEW r \in Runs, ToolReturns(r) PROVE TableInv'
  BY <1>37 DEF ToolReturns, Goto
<1>38. ASSUME NEW r \in Runs, AskForOutput(r) PROVE TableInv'
  BY <1>38 DEF AskForOutput, InsertHandle, Fresh, Goto
<1>39. ASSUME NEW r \in Runs, ClassifyResult(r) PROVE TableInv'
  BY <1>39 DEF ClassifyResult, Goto
<1>40. ASSUME NEW r \in Runs, BuildTerminal(r) PROVE TableInv'
  BY <1>40 DEF BuildTerminal, Goto
<1>41. ASSUME NEW r \in Runs, SendTerminal(r) PROVE TableInv'
  BY <1>41 DEF SendTerminal, Goto
<1>42. ASSUME NEW r \in Runs, CleanupRemove(r) PROVE TableInv'
  BY <1>42 DEF CleanupRemove, Goto
<1>43. ASSUME NEW r \in Runs, CleanupDeny(r) PROVE TableInv'
  BY <1>43 DEF CleanupDeny, DenyPendingPermissionsForRun, PendingOf, Pending,
      Goto
<1>44. ASSUME NEW r \in Runs, TotalTimeout(r) PROVE TableInv'
  BY <1>44 DEF TotalTimeout, Leave
<1> HIDE DEF vars, turnVars, toolVars, handleVars, endVars, lateVars, TypeOK,
      RpcStates, NoRpc, Positions, InLoop, TableInv
<1> QED BY <1>1, <1>2, <1>3, <1>4, <1>5, <1>6, <1>7, <1>8, <1>9, <1>10,
      <1>11, <1>12, <1>13, <1>14, <1>15, <1>16, <1>17, <1>18, <1>19, <1>20,
      <1>21, <1>22, <1>23, <1>24, <1>25, <1>26, <1>27, <1>28, <1>29, <1>30,
      <1>31, <1>32, <1>33, <1>34, <1>35, <1>36, <1>37, <1>38, <1>39, <1>40,
      <1>41, <1>42, <1>43, <1>44
      DEF Next, Requests, TurnStep, ToolStep, EndStep

-----------------------------------------------------------------------------
\* What a run knows about its own request, by where it is.
AskInv ==
    \A r \in Runs :
        /\ ask[r] # NoPerm => perm[ask[r]] # "unused" /\ owner[ask[r]] = r
        /\ pc[r] \in {"asking", "waiting"} => ask[r] # NoPerm
        /\ pc[r] = "permit" => ask[r] = NoPerm
        /\ (ask[r] # NoPerm /\ pc[r] \in {"granted", "ready", "exec"})
                => answer[ask[r]] = "Approve"
        /\ raw[r] => /\ answer[ask[r]] = "Approve"
                     /\ ask[r] # NoPerm
                     /\ pc[r] \notin {"permit", "asking", "waiting", "granted",
                                      "ready", "exec"}

\* Every step preserves AskInv.
LEMMA AskKept ==
    TypeOK /\ TableInv /\ AskInv /\ [Next]_vars => AskInv'
<1> SUFFICES ASSUME TypeOK, TableInv, AskInv, [Next]_vars PROVE AskInv'
  OBVIOUS
<1> USE NoPermAssumption, BoundsAssumption DEF vars, turnVars, toolVars,
      handleVars, endVars, lateVars, TypeOK, RpcStates, NoRpc, Positions,
      InLoop, AskInv, TableInv
<1>1. CASE Initialize
  BY <1>1 DEF Initialize
<1>2. CASE StopReading
  BY <1>2 DEF StopReading
<1>3. CASE Exit
  BY <1>3 DEF Exit
<1>4. CASE Exited
  BY <1>4 DEF Exited
<1>5. CASE UNCHANGED vars
  BY <1>5
<1>6. ASSUME NEW r \in Runs, AgentReply(r) PROVE AskInv'
  BY <1>6 DEF AgentReply, Goto
<1>7. ASSUME NEW r \in Runs, AgentCancel(r) PROVE AskInv'
  BY <1>7 DEF AgentCancel
<1>8. ASSUME NEW r \in Runs, CancelStore(r) PROVE AskInv'
  BY <1>8 DEF CancelStore
<1>9. ASSUME NEW r \in Runs, CancelDeny(r) PROVE AskInv'
  BY <1>9 DEF CancelDeny, DenyPendingPermissionsForRun, PendingOf, Pending
<1>10. ASSUME NEW r \in Runs, NEW p \in Perms,
             NEW decision \in {"Approve", "Deny"},
             PermissionResolve(r, p, decision) PROVE AskInv'
  BY <1>10 DEF PermissionResolve
<1>11. ASSUME NEW r \in Runs, RunStarted(r) PROVE AskInv'
  BY <1>11 DEF RunStarted, Goto
<1>12. ASSUME NEW r \in Runs, ProviderMissing(r) PROVE AskInv'
  BY <1>12 DEF ProviderMissing, Leave
<1>13. ASSUME NEW r \in Runs, TurnsUsedUp(r) PROVE AskInv'
  BY <1>13 DEF TurnsUsedUp, Leave
<1>14. ASSUME NEW r \in Runs, TurnCancelled(r) PROVE AskInv'
  BY <1>14 DEF TurnCancelled, Leave
<1>15. ASSUME NEW r \in Runs, BeginTurn(r) PROVE AskInv'
  BY <1>15 DEF BeginTurn, Goto
<1>16. ASSUME NEW r \in Runs, OpenStream(r) PROVE AskInv'
  BY <1>16 DEF OpenStream, Goto
<1>17. ASSUME NEW r \in Runs, StreamItem(r) PROVE AskInv'
  BY <1>17 DEF StreamItem
<1>18. ASSUME NEW r \in Runs, StreamCancelled(r) PROVE AskInv'
  BY <1>18 DEF StreamCancelled, Leave
<1>19. ASSUME NEW r \in Runs, NEW res \in {"Err", "ErrCancelled"},
             AttemptFails(r, res) PROVE AskInv'
  BY <1>19 DEF AttemptFails, Leave
<1>20. ASSUME NEW r \in Runs, RetryAttempt(r) PROVE AskInv'
  BY <1>20 DEF RetryAttempt, Goto
<1>21. ASSUME NEW r \in Runs, Backoff(r) PROVE AskInv'
  BY <1>21 DEF Backoff, Goto
<1>22. ASSUME NEW r \in Runs, EmptyTurn(r) PROVE AskInv'
  BY <1>22 DEF EmptyTurn, Leave
<1>23. ASSUME NEW r \in Runs, TurnReceived(r) PROVE AskInv'
  BY <1>23 DEF TurnReceived, Goto
<1>24. ASSUME NEW r \in Runs, NEW followup \in BOOLEAN, GoOn(r, followup) PROVE AskInv'
  BY <1>24 DEF GoOn, Goto
<1>25. ASSUME NEW r \in Runs, LastTurn(r) PROVE AskInv'
  BY <1>25 DEF LastTurn, Leave
<1>26. ASSUME NEW r \in Runs, SkipTool(r) PROVE AskInv'
  BY <1>26 DEF SkipTool
<1>27. ASSUME NEW r \in Runs, TaskTool(r) PROVE AskInv'
  BY <1>27 DEF TaskTool
<1>28. ASSUME NEW r \in Runs, NEW kind \in {"builtin", "agent"},
             DispatchTool(r, kind) PROVE AskInv'
  BY <1>28 DEF DispatchTool, Goto
<1>29. ASSUME NEW r \in Runs, NEW allow \in BOOLEAN,
             PolicyDecides(r, allow) PROVE AskInv'
  BY <1>29 DEF PolicyDecides, Goto
<1>30. ASSUME NEW r \in Runs, AskForCall(r) PROVE AskInv'
  BY <1>30 DEF AskForCall, InsertHandle, Fresh, Goto
<1>31. ASSUME NEW r \in Runs, AnnouncePermission(r) PROVE AskInv'
  BY <1>31 DEF AnnouncePermission, Goto
<1>32. ASSUME NEW r \in Runs, CallDecided(r) PROVE AskInv'
  BY <1>32 DEF CallDecided, Goto
<1>33. ASSUME NEW r \in Runs, OutputDecided(r) PROVE AskInv'
  BY <1>33 DEF OutputDecided, Goto
<1>34. ASSUME NEW r \in Runs, PermissionTimeout(r) PROVE AskInv'
  BY <1>34 DEF PermissionTimeout, Goto
<1>35. ASSUME NEW r \in Runs, CheckBeforeTool(r) PROVE AskInv'
  BY <1>35 DEF CheckBeforeTool, Goto
<1>36. ASSUME NEW r \in Runs, StartTool(r) PROVE AskInv'
  BY <1>36 DEF StartTool, Goto
<1>37. ASSUME NEW r \in Runs, ToolReturns(r) PROVE AskInv'
  BY <1>37 DEF ToolReturns, Goto
<1>38. ASSUME NEW r \in Runs, AskForOutput(r) PROVE AskInv'
  BY <1>38 DEF AskForOutput, InsertHandle, Fresh, Goto
<1>39. ASSUME NEW r \in Runs, ClassifyResult(r) PROVE AskInv'
  BY <1>39 DEF ClassifyResult, Goto
<1>40. ASSUME NEW r \in Runs, BuildTerminal(r) PROVE AskInv'
  BY <1>40 DEF BuildTerminal, Goto
<1>41. ASSUME NEW r \in Runs, SendTerminal(r) PROVE AskInv'
  BY <1>41 DEF SendTerminal, Goto
<1>42. ASSUME NEW r \in Runs, CleanupRemove(r) PROVE AskInv'
  BY <1>42 DEF CleanupRemove, Goto
<1>43. ASSUME NEW r \in Runs, CleanupDeny(r) PROVE AskInv'
  BY <1>43 DEF CleanupDeny, DenyPendingPermissionsForRun, PendingOf, Pending,
      Goto
<1>44. ASSUME NEW r \in Runs, TotalTimeout(r) PROVE AskInv'
  BY <1>44 DEF TotalTimeout, Leave
<1> HIDE DEF vars, turnVars, toolVars, handleVars, endVars, lateVars, TypeOK,
      RpcStates, NoRpc, Positions, InLoop, AskInv, TableInv
<1> QED BY <1>1, <1>2, <1>3, <1>4, <1>5, <1>6, <1>7, <1>8, <1>9, <1>10,
      <1>11, <1>12, <1>13, <1>14, <1>15, <1>16, <1>17, <1>18, <1>19, <1>20,
      <1>21, <1>22, <1>23, <1>24, <1>25, <1>26, <1>27, <1>28, <1>29, <1>30,
      <1>31, <1>32, <1>33, <1>34, <1>35, <1>36, <1>37, <1>38, <1>39, <1>40,
      <1>41, <1>42, <1>43, <1>44
      DEF Next, Requests, TurnStep, ToolStep, EndStep

-----------------------------------------------------------------------------
\* A run between its start and CleanupRemove has its handle, and a request
\* is in the table only while its run does or has yet to clean up.
HandleInv ==
    /\ \A r \in Runs : pc[r] \notin {"idle", "removed", "done"} => r \in runs
    /\ \A p \in Pending : owner[p] \in runs \/ pc[owner[p]] = "removed"

\* Every step preserves HandleInv.
LEMMA HandleKept ==
    TypeOK /\ TableInv /\ AskInv /\ HandleInv /\ [Next]_vars => HandleInv'
<1> SUFFICES ASSUME TypeOK, TableInv, AskInv, HandleInv, [Next]_vars PROVE HandleInv'
  OBVIOUS
<1> USE NoPermAssumption, BoundsAssumption DEF vars, turnVars, toolVars,
      handleVars, endVars, lateVars, TypeOK, RpcStates, NoRpc, Positions,
      InLoop, HandleInv, TableInv, AskInv, Pending
<1>1. CASE Initialize
  BY <1>1 DEF Initialize
<1>2. CASE StopReading
  BY <1>2 DEF StopReading
<1>3. CASE Exit
  BY <1>3 DEF Exit
<1>4. CASE Exited
  BY <1>4 DEF Exited
<1>5. CASE UNCHANGED vars
  BY <1>5
<1>6. ASSUME NEW r \in Runs, AgentReply(r) PROVE HandleInv'
  BY <1>6 DEF AgentReply, Goto
<1>7. ASSUME NEW r \in Runs, AgentCancel(r) PROVE HandleInv'
  BY <1>7 DEF AgentCancel
<1>8. ASSUME NEW r \in Runs, CancelStore(r) PROVE HandleInv'
  BY <1>8 DEF CancelStore
<1>9. ASSUME NEW r \in Runs, CancelDeny(r) PROVE HandleInv'
  BY <1>9 DEF CancelDeny, DenyPendingPermissionsForRun, PendingOf
<1>10. ASSUME NEW r \in Runs, NEW p \in Perms,
             NEW decision \in {"Approve", "Deny"},
             PermissionResolve(r, p, decision) PROVE HandleInv'
  BY <1>10 DEF PermissionResolve
<1>11. ASSUME NEW r \in Runs, RunStarted(r) PROVE HandleInv'
  BY <1>11 DEF RunStarted, Goto
<1>12. ASSUME NEW r \in Runs, ProviderMissing(r) PROVE HandleInv'
  BY <1>12 DEF ProviderMissing, Leave
<1>13. ASSUME NEW r \in Runs, TurnsUsedUp(r) PROVE HandleInv'
  BY <1>13 DEF TurnsUsedUp, Leave
<1>14. ASSUME NEW r \in Runs, TurnCancelled(r) PROVE HandleInv'
  BY <1>14 DEF TurnCancelled, Leave
<1>15. ASSUME NEW r \in Runs, BeginTurn(r) PROVE HandleInv'
  BY <1>15 DEF BeginTurn, Goto
<1>16. ASSUME NEW r \in Runs, OpenStream(r) PROVE HandleInv'
  BY <1>16 DEF OpenStream, Goto
<1>17. ASSUME NEW r \in Runs, StreamItem(r) PROVE HandleInv'
  BY <1>17 DEF StreamItem
<1>18. ASSUME NEW r \in Runs, StreamCancelled(r) PROVE HandleInv'
  BY <1>18 DEF StreamCancelled, Leave
<1>19. ASSUME NEW r \in Runs, NEW res \in {"Err", "ErrCancelled"},
             AttemptFails(r, res) PROVE HandleInv'
  BY <1>19 DEF AttemptFails, Leave
<1>20. ASSUME NEW r \in Runs, RetryAttempt(r) PROVE HandleInv'
  BY <1>20 DEF RetryAttempt, Goto
<1>21. ASSUME NEW r \in Runs, Backoff(r) PROVE HandleInv'
  BY <1>21 DEF Backoff, Goto
<1>22. ASSUME NEW r \in Runs, EmptyTurn(r) PROVE HandleInv'
  BY <1>22 DEF EmptyTurn, Leave
<1>23. ASSUME NEW r \in Runs, TurnReceived(r) PROVE HandleInv'
  BY <1>23 DEF TurnReceived, Goto
<1>24. ASSUME NEW r \in Runs, NEW followup \in BOOLEAN, GoOn(r, followup) PROVE HandleInv'
  BY <1>24 DEF GoOn, Goto
<1>25. ASSUME NEW r \in Runs, LastTurn(r) PROVE HandleInv'
  BY <1>25 DEF LastTurn, Leave
<1>26. ASSUME NEW r \in Runs, SkipTool(r) PROVE HandleInv'
  BY <1>26 DEF SkipTool
<1>27. ASSUME NEW r \in Runs, TaskTool(r) PROVE HandleInv'
  BY <1>27 DEF TaskTool
<1>28. ASSUME NEW r \in Runs, NEW kind \in {"builtin", "agent"},
             DispatchTool(r, kind) PROVE HandleInv'
  BY <1>28 DEF DispatchTool, Goto
<1>29. ASSUME NEW r \in Runs, NEW allow \in BOOLEAN,
             PolicyDecides(r, allow) PROVE HandleInv'
  BY <1>29 DEF PolicyDecides, Goto
<1>30. ASSUME NEW r \in Runs, AskForCall(r) PROVE HandleInv'
  BY <1>30 DEF AskForCall, InsertHandle, Fresh, Goto
<1>31. ASSUME NEW r \in Runs, AnnouncePermission(r) PROVE HandleInv'
  BY <1>31 DEF AnnouncePermission, Goto
<1>32. ASSUME NEW r \in Runs, CallDecided(r) PROVE HandleInv'
  BY <1>32 DEF CallDecided, Goto
<1>33. ASSUME NEW r \in Runs, OutputDecided(r) PROVE HandleInv'
  BY <1>33 DEF OutputDecided, Goto
<1>34. ASSUME NEW r \in Runs, PermissionTimeout(r) PROVE HandleInv'
  BY <1>34 DEF PermissionTimeout, Goto
<1>35. ASSUME NEW r \in Runs, CheckBeforeTool(r) PROVE HandleInv'
  BY <1>35 DEF CheckBeforeTool, Goto
<1>36. ASSUME NEW r \in Runs, StartTool(r) PROVE HandleInv'
  BY <1>36 DEF StartTool, Goto
<1>37. ASSUME NEW r \in Runs, ToolReturns(r) PROVE HandleInv'
  BY <1>37 DEF ToolReturns, Goto
<1>38. ASSUME NEW r \in Runs, AskForOutput(r) PROVE HandleInv'
  BY <1>38 DEF AskForOutput, InsertHandle, Fresh, Goto
<1>39. ASSUME NEW r \in Runs, ClassifyResult(r) PROVE HandleInv'
  BY <1>39 DEF ClassifyResult, Goto
<1>40. ASSUME NEW r \in Runs, BuildTerminal(r) PROVE HandleInv'
  BY <1>40 DEF BuildTerminal, Goto
<1>41. ASSUME NEW r \in Runs, SendTerminal(r) PROVE HandleInv'
  BY <1>41 DEF SendTerminal, Goto
<1>42. ASSUME NEW r \in Runs, CleanupRemove(r) PROVE HandleInv'
  BY <1>42 DEF CleanupRemove, Goto
<1>43. ASSUME NEW r \in Runs, CleanupDeny(r) PROVE HandleInv'
  BY <1>43 DEF CleanupDeny, DenyPendingPermissionsForRun, PendingOf, Goto
<1>44. ASSUME NEW r \in Runs, TotalTimeout(r) PROVE HandleInv'
  BY <1>44 DEF TotalTimeout, Leave
<1> HIDE DEF vars, turnVars, toolVars, handleVars, endVars, lateVars, TypeOK,
      RpcStates, NoRpc, Positions, InLoop, HandleInv, TableInv, AskInv,
      Pending
<1> QED BY <1>1, <1>2, <1>3, <1>4, <1>5, <1>6, <1>7, <1>8, <1>9, <1>10,
      <1>11, <1>12, <1>13, <1>14, <1>15, <1>16, <1>17, <1>18, <1>19, <1>20,
      <1>21, <1>22, <1>23, <1>24, <1>25, <1>26, <1>27, <1>28, <1>29, <1>30,
      <1>31, <1>32, <1>33, <1>34, <1>35, <1>36, <1>37, <1>38, <1>39, <1>40,
      <1>41, <1>42, <1>43, <1>44
      DEF Next, Requests, TurnStep, ToolStep, EndStep

-----------------------------------------------------------------------------
\* Whom the core may have refused by itself: a cancelled run, or one that
\* is over.  The cancel under way has stored the flag before it denies.
DenyInv ==
    /\ rpc.op # "none" => pc[rpc.run] # "idle"
    /\ rpc.op = "deny" => cancelled[rpc.run]
    /\ \A p \in Perms : answer[p] = "AutoDeny" =>
            cancelled[owner[p]] \/ pc[owner[p]] = "done"
    /\ \A r \in runs : pc[r] # "idle"

\* Every step preserves DenyInv.
LEMMA DenyKept ==
    TypeOK /\ TableInv /\ AskInv /\ HandleInv /\ DenyInv /\ [Next]_vars => DenyInv'
<1> SUFFICES ASSUME TypeOK, TableInv, AskInv, HandleInv, DenyInv, [Next]_vars PROVE DenyInv'
  OBVIOUS
<1> USE NoPermAssumption, BoundsAssumption DEF vars, turnVars, toolVars,
      handleVars, endVars, lateVars, TypeOK, RpcStates, NoRpc, Positions,
      InLoop, DenyInv, TableInv, AskInv, HandleInv, Pending
<1>1. CASE Initialize
  BY <1>1 DEF Initialize
<1>2. CASE StopReading
  BY <1>2 DEF StopReading
<1>3. CASE Exit
  BY <1>3 DEF Exit
<1>4. CASE Exited
  BY <1>4 DEF Exited
<1>5. CASE UNCHANGED vars
  BY <1>5
<1>6. ASSUME NEW r \in Runs, AgentReply(r) PROVE DenyInv'
  BY <1>6 DEF AgentReply, Goto
<1>7. ASSUME NEW r \in Runs, AgentCancel(r) PROVE DenyInv'
  BY <1>7 DEF AgentCancel
<1>8. ASSUME NEW r \in Runs, CancelStore(r) PROVE DenyInv'
  BY <1>8 DEF CancelStore
<1>9. ASSUME NEW r \in Runs, CancelDeny(r) PROVE DenyInv'
  BY <1>9 DEF CancelDeny, DenyPendingPermissionsForRun, PendingOf
<1>10. ASSUME NEW r \in Runs, NEW p \in Perms,
             NEW decision \in {"Approve", "Deny"},
             PermissionResolve(r, p, decision) PROVE DenyInv'
  BY <1>10 DEF PermissionResolve
<1>11. ASSUME NEW r \in Runs, RunStarted(r) PROVE DenyInv'
  BY <1>11 DEF RunStarted, Goto
<1>12. ASSUME NEW r \in Runs, ProviderMissing(r) PROVE DenyInv'
  BY <1>12 DEF ProviderMissing, Leave
<1>13. ASSUME NEW r \in Runs, TurnsUsedUp(r) PROVE DenyInv'
  BY <1>13 DEF TurnsUsedUp, Leave
<1>14. ASSUME NEW r \in Runs, TurnCancelled(r) PROVE DenyInv'
  BY <1>14 DEF TurnCancelled, Leave
<1>15. ASSUME NEW r \in Runs, BeginTurn(r) PROVE DenyInv'
  BY <1>15 DEF BeginTurn, Goto
<1>16. ASSUME NEW r \in Runs, OpenStream(r) PROVE DenyInv'
  BY <1>16 DEF OpenStream, Goto
<1>17. ASSUME NEW r \in Runs, StreamItem(r) PROVE DenyInv'
  BY <1>17 DEF StreamItem
<1>18. ASSUME NEW r \in Runs, StreamCancelled(r) PROVE DenyInv'
  BY <1>18 DEF StreamCancelled, Leave
<1>19. ASSUME NEW r \in Runs, NEW res \in {"Err", "ErrCancelled"},
             AttemptFails(r, res) PROVE DenyInv'
  BY <1>19 DEF AttemptFails, Leave
<1>20. ASSUME NEW r \in Runs, RetryAttempt(r) PROVE DenyInv'
  BY <1>20 DEF RetryAttempt, Goto
<1>21. ASSUME NEW r \in Runs, Backoff(r) PROVE DenyInv'
  BY <1>21 DEF Backoff, Goto
<1>22. ASSUME NEW r \in Runs, EmptyTurn(r) PROVE DenyInv'
  BY <1>22 DEF EmptyTurn, Leave
<1>23. ASSUME NEW r \in Runs, TurnReceived(r) PROVE DenyInv'
  BY <1>23 DEF TurnReceived, Goto
<1>24. ASSUME NEW r \in Runs, NEW followup \in BOOLEAN, GoOn(r, followup) PROVE DenyInv'
  BY <1>24 DEF GoOn, Goto
<1>25. ASSUME NEW r \in Runs, LastTurn(r) PROVE DenyInv'
  BY <1>25 DEF LastTurn, Leave
<1>26. ASSUME NEW r \in Runs, SkipTool(r) PROVE DenyInv'
  BY <1>26 DEF SkipTool
<1>27. ASSUME NEW r \in Runs, TaskTool(r) PROVE DenyInv'
  BY <1>27 DEF TaskTool
<1>28. ASSUME NEW r \in Runs, NEW kind \in {"builtin", "agent"},
             DispatchTool(r, kind) PROVE DenyInv'
  BY <1>28 DEF DispatchTool, Goto
<1>29. ASSUME NEW r \in Runs, NEW allow \in BOOLEAN,
             PolicyDecides(r, allow) PROVE DenyInv'
  BY <1>29 DEF PolicyDecides, Goto
<1>30. ASSUME NEW r \in Runs, AskForCall(r) PROVE DenyInv'
  BY <1>30 DEF AskForCall, InsertHandle, Fresh, Goto
<1>31. ASSUME NEW r \in Runs, AnnouncePermission(r) PROVE DenyInv'
  BY <1>31 DEF AnnouncePermission, Goto
<1>32. ASSUME NEW r \in Runs, CallDecided(r) PROVE DenyInv'
  BY <1>32 DEF CallDecided, Goto
<1>33. ASSUME NEW r \in Runs, OutputDecided(r) PROVE DenyInv'
  BY <1>33 DEF OutputDecided, Goto
<1>34. ASSUME NEW r \in Runs, PermissionTimeout(r) PROVE DenyInv'
  BY <1>34 DEF PermissionTimeout, Goto
<1>35. ASSUME NEW r \in Runs, CheckBeforeTool(r) PROVE DenyInv'
  BY <1>35 DEF CheckBeforeTool, Goto
<1>36. ASSUME NEW r \in Runs, StartTool(r) PROVE DenyInv'
  BY <1>36 DEF StartTool, Goto
<1>37. ASSUME NEW r \in Runs, ToolReturns(r) PROVE DenyInv'
  BY <1>37 DEF ToolReturns, Goto
<1>38. ASSUME NEW r \in Runs, AskForOutput(r) PROVE DenyInv'
  BY <1>38 DEF AskForOutput, InsertHandle, Fresh, Goto
<1>39. ASSUME NEW r \in Runs, ClassifyResult(r) PROVE DenyInv'
  BY <1>39 DEF ClassifyResult, Goto
<1>40. ASSUME NEW r \in Runs, BuildTerminal(r) PROVE DenyInv'
  BY <1>40 DEF BuildTerminal, Goto
<1>41. ASSUME NEW r \in Runs, SendTerminal(r) PROVE DenyInv'
  BY <1>41 DEF SendTerminal, Goto
<1>42. ASSUME NEW r \in Runs, CleanupRemove(r) PROVE DenyInv'
  BY <1>42 DEF CleanupRemove, Goto
<1>43. ASSUME NEW r \in Runs, CleanupDeny(r) PROVE DenyInv'
  BY <1>43 DEF CleanupDeny, DenyPendingPermissionsForRun, PendingOf, Goto
<1>44. ASSUME NEW r \in Runs, TotalTimeout(r) PROVE DenyInv'
  BY <1>44 DEF TotalTimeout, Leave
<1> HIDE DEF vars, turnVars, toolVars, handleVars, endVars, lateVars, TypeOK,
      RpcStates, NoRpc, Positions, InLoop, DenyInv, TableInv, AskInv,
      HandleInv, Pending
<1> QED BY <1>1, <1>2, <1>3, <1>4, <1>5, <1>6, <1>7, <1>8, <1>9, <1>10,
      <1>11, <1>12, <1>13, <1>14, <1>15, <1>16, <1>17, <1>18, <1>19, <1>20,
      <1>21, <1>22, <1>23, <1>24, <1>25, <1>26, <1>27, <1>28, <1>29, <1>30,
      <1>31, <1>32, <1>33, <1>34, <1>35, <1>36, <1>37, <1>38, <1>39, <1>40,
      <1>41, <1>42, <1>43, <1>44
      DEF Next, Requests, TurnStep, ToolStep, EndStep

-----------------------------------------------------------------------------
\* Why a good ending leaves nothing behind: while the loop is between turns,
\* awaiting remembers whether the last turn had tool requests.
TurnInv ==
    \A r \in Runs :
        /\ pc[r] \in InLoop \cup {"idle", "started"} => result[r] = "none"
        /\ pc[r] \in {"idle", "started", "turn", "request", "stream", "backoff"}
                => (hasTools[r] => awaiting[r])
        /\ result[r] = "Ok" /\ turn[r] < MaxTurns
                => ~hasTools[r] /\ (got[r] => ~openTasks[r])

\* Every step preserves TurnInv.
LEMMA TurnKept ==
    TypeOK /\ TurnInv /\ [Next]_vars => TurnInv'
<1> SUFFICES ASSUME TypeOK, TurnInv, [Next]_vars PROVE TurnInv'
  OBVIOUS
<1> USE NoPermAssumption, BoundsAssumption DEF vars, turnVars, toolVars,
      handleVars, endVars, lateVars, TypeOK, RpcStates, NoRpc, Positions,
      InLoop, TurnInv
<1>1. CASE Initialize
  BY <1>1 DEF Initialize
<1>2. CASE StopReading
  BY <1>2 DEF StopReading
<1>3. CASE Exit
  BY <1>3 DEF Exit
<1>4. CASE Exited
  BY <1>4 DEF Exited
<1>5. CASE UNCHANGED vars
  BY <1>5
<1>6. ASSUME NEW r \in Runs, AgentReply(r) PROVE TurnInv'
  BY <1>6 DEF AgentReply, Goto
<1>7. ASSUME NEW r \in Runs, AgentCancel(r) PROVE TurnInv'
  BY <1>7 DEF AgentCancel
<1>8. ASSUME NEW r \in Runs, CancelStore(r) PROVE TurnInv'
  BY <1>8 DEF CancelStore
<1>9. ASSUME NEW r \in Runs, CancelDeny(r) PROVE TurnInv'
  BY <1>9 DEF CancelDeny, DenyPendingPermissionsForRun, PendingOf, Pending
<1>10. ASSUME NEW r \in Runs, NEW p \in Perms,
             NEW decision \in {"Approve", "Deny"},
             PermissionResolve(r, p, decision) PROVE TurnInv'
  BY <1>10 DEF PermissionResolve
<1>11. ASSUME NEW r \in Runs, RunStarted(r) PROVE TurnInv'
  BY <1>11 DEF RunStarted, Goto
<1>12. ASSUME NEW r \in Runs, ProviderMissing(r) PROVE TurnInv'
  BY <1>12 DEF ProviderMissing, Leave
<1>13. ASSUME NEW r \in Runs, TurnsUsedUp(r) PROVE TurnInv'
  BY <1>13 DEF TurnsUsedUp, Leave
<1>14. ASSUME NEW r \in Runs, TurnCancelled(r) PROVE TurnInv'
  BY <1>14 DEF TurnCancelled, Leave
<1>15. ASSUME NEW r \in Runs, BeginTurn(r) PROVE TurnInv'
  BY <1>15 DEF BeginTurn, Goto
<1>16. ASSUME NEW r \in Runs, OpenStream(r) PROVE TurnInv'
  BY <1>16 DEF OpenStream, Goto
<1>17. ASSUME NEW r \in Runs, StreamItem(r) PROVE TurnInv'
  BY <1>17 DEF StreamItem
<1>18. ASSUME NEW r \in Runs, StreamCancelled(r) PROVE TurnInv'
  BY <1>18 DEF StreamCancelled, Leave
<1>19. ASSUME NEW r \in Runs, NEW res \in {"Err", "ErrCancelled"},
             AttemptFails(r, res) PROVE TurnInv'
  BY <1>19 DEF AttemptFails, Leave
<1>20. ASSUME NEW r \in Runs, RetryAttempt(r) PROVE TurnInv'
  BY <1>20 DEF RetryAttempt, Goto
<1>21. ASSUME NEW r \in Runs, Backoff(r) PROVE TurnInv'
  BY <1>21 DEF Backoff, Goto
<1>22. ASSUME NEW r \in Runs, EmptyTurn(r) PROVE TurnInv'
  BY <1>22 DEF EmptyTurn, Leave
<1>23. ASSUME NEW r \in Runs, TurnReceived(r) PROVE TurnInv'
  BY <1>23 DEF TurnReceived, Goto
<1>24. ASSUME NEW r \in Runs, NEW followup \in BOOLEAN, GoOn(r, followup) PROVE TurnInv'
  BY <1>24 DEF GoOn, Goto
<1>25. ASSUME NEW r \in Runs, LastTurn(r) PROVE TurnInv'
  BY <1>25 DEF LastTurn, Leave
<1>26. ASSUME NEW r \in Runs, SkipTool(r) PROVE TurnInv'
  BY <1>26 DEF SkipTool
<1>27. ASSUME NEW r \in Runs, TaskTool(r) PROVE TurnInv'
  BY <1>27 DEF TaskTool
<1>28. ASSUME NEW r \in Runs, NEW kind \in {"builtin", "agent"},
             DispatchTool(r, kind) PROVE TurnInv'
  BY <1>28 DEF DispatchTool, Goto
<1>29. ASSUME NEW r \in Runs, NEW allow \in BOOLEAN,
             PolicyDecides(r, allow) PROVE TurnInv'
  BY <1>29 DEF PolicyDecides, Goto
<1>30. ASSUME NEW r \in Runs, AskForCall(r) PROVE TurnInv'
  BY <1>30 DEF AskForCall, InsertHandle, Fresh, Goto
<1>31. ASSUME NEW r \in Runs, AnnouncePermission(r) PROVE TurnInv'
  BY <1>31 DEF AnnouncePermission, Goto
<1>32. ASSUME NEW r \in Runs, CallDecided(r) PROVE TurnInv'
  BY <1>32 DEF CallDecided, Goto
<1>33. ASSUME NEW r \in Runs, OutputDecided(r) PROVE TurnInv'
  BY <1>33 DEF OutputDecided, Goto
<1>34. ASSUME NEW r \in Runs, PermissionTimeout(r) PROVE TurnInv'
  BY <1>34 DEF PermissionTimeout, Goto
<1>35. ASSUME NEW r \in Runs, CheckBeforeTool(r) PROVE TurnInv'
  BY <1>35 DEF CheckBeforeTool, Goto
<1>36. ASSUME NEW r \in Runs, StartTool(r) PROVE TurnInv'
  BY <1>36 DEF StartTool, Goto
<1>37. ASSUME NEW r \in Runs, ToolReturns(r) PROVE TurnInv'
  BY <1>37 DEF ToolReturns, Goto
<1>38. ASSUME NEW r \in Runs, AskForOutput(r) PROVE TurnInv'
  BY <1>38 DEF AskForOutput, InsertHandle, Fresh, Goto
<1>39. ASSUME NEW r \in Runs, ClassifyResult(r) PROVE TurnInv'
  BY <1>39 DEF ClassifyResult, Goto
<1>40. ASSUME NEW r \in Runs, BuildTerminal(r) PROVE TurnInv'
  BY <1>40 DEF BuildTerminal, Goto
<1>41. ASSUME NEW r \in Runs, SendTerminal(r) PROVE TurnInv'
  BY <1>41 DEF SendTerminal, Goto
<1>42. ASSUME NEW r \in Runs, CleanupRemove(r) PROVE TurnInv'
  BY <1>42 DEF CleanupRemove, Goto
<1>43. ASSUME NEW r \in Runs, CleanupDeny(r) PROVE TurnInv'
  BY <1>43 DEF CleanupDeny, DenyPendingPermissionsForRun, PendingOf, Pending,
      Goto
<1>44. ASSUME NEW r \in Runs, TotalTimeout(r) PROVE TurnInv'
  BY <1>44 DEF TotalTimeout, Leave
<1> HIDE DEF vars, turnVars, toolVars, handleVars, endVars, lateVars, TypeOK,
      RpcStates, NoRpc, Positions, InLoop, TurnInv
<1> QED BY <1>1, <1>2, <1>3, <1>4, <1>5, <1>6, <1>7, <1>8, <1>9, <1>10,
      <1>11, <1>12, <1>13, <1>14, <1>15, <1>16, <1>17, <1>18, <1>19, <1>20,
      <1>21, <1>22, <1>23, <1>24, <1>25, <1>26, <1>27, <1>28, <1>29, <1>30,
      <1>31, <1>32, <1>33, <1>34, <1>35, <1>36, <1>37, <1>38, <1>39, <1>40,
      <1>41, <1>42, <1>43, <1>44
      DEF Next, Requests, TurnStep, ToolStep, EndStep

-----------------------------------------------------------------------------
\* What the refinement needs: the terminal event exists from BuildTerminal
\* on, and a run that was not accepted yet is not cancelled.
TermInv ==
    \A r \in Runs :
        /\ term[r] = "none" <=> pc[r] \notin {"built", "sent", "removed", "done"}
        /\ pc[r] = "idle" => ~cancelled[r]

\* Every step preserves TermInv.
LEMMA TermKept ==
    TypeOK /\ DenyInv /\ TermInv /\ [Next]_vars => TermInv'
<1> SUFFICES ASSUME TypeOK, DenyInv, TermInv, [Next]_vars PROVE TermInv'
  OBVIOUS
<1> USE NoPermAssumption, BoundsAssumption DEF vars, turnVars, toolVars,
      handleVars, endVars, lateVars, TypeOK, RpcStates, NoRpc, Positions,
      InLoop, TermInv, DenyInv
<1>1. CASE Initialize
  BY <1>1 DEF Initialize
<1>2. CASE StopReading
  BY <1>2 DEF StopReading
<1>3. CASE Exit
  BY <1>3 DEF Exit
<1>4. CASE Exited
  BY <1>4 DEF Exited
<1>5. CASE UNCHANGED vars
  BY <1>5
<1>6. ASSUME NEW r \in Runs, AgentReply(r) PROVE TermInv'
  BY <1>6 DEF AgentReply, Goto
<1>7. ASSUME NEW r \in Runs, AgentCancel(r) PROVE TermInv'
  BY <1>7 DEF AgentCancel
<1>8. ASSUME NEW r \in Runs, CancelStore(r) PROVE TermInv'
  BY <1>8 DEF CancelStore
<1>9. ASSUME NEW r \in Runs, CancelDeny(r) PROVE TermInv'
  BY <1>9 DEF CancelDeny, DenyPendingPermissionsForRun, PendingOf, Pending
<1>10. ASSUME NEW r \in Runs, NEW p \in Perms,
             NEW decision \in {"Approve", "Deny"},
             PermissionResolve(r, p, decision) PROVE TermInv'
  BY <1>10 DEF PermissionResolve
<1>11. ASSUME NEW r \in Runs, RunStarted(r) PROVE TermInv'
  BY <1>11 DEF RunStarted, Goto
<1>12. ASSUME NEW r \in Runs, ProviderMissing(r) PROVE TermInv'
  BY <1>12 DEF ProviderMissing, Leave
<1>13. ASSUME NEW r \in Runs, TurnsUsedUp(r) PROVE TermInv'
  BY <1>13 DEF TurnsUsedUp, Leave
<1>14. ASSUME NEW r \in Runs, TurnCancelled(r) PROVE TermInv'
  BY <1>14 DEF TurnCancelled, Leave
<1>15. ASSUME NEW r \in Runs, BeginTurn(r) PROVE TermInv'
  BY <1>15 DEF BeginTurn, Goto
<1>16. ASSUME NEW r \in Runs, OpenStream(r) PROVE TermInv'
  BY <1>16 DEF OpenStream, Goto
<1>17. ASSUME NEW r \in Runs, StreamItem(r) PROVE TermInv'
  BY <1>17 DEF StreamItem
<1>18. ASSUME NEW r \in Runs, StreamCancelled(r) PROVE TermInv'
  BY <1>18 DEF StreamCancelled, Leave
<1>19. ASSUME NEW r \in Runs, NEW res \in {"Err", "ErrCancelled"},
             AttemptFails(r, res) PROVE TermInv'
  BY <1>19 DEF AttemptFails, Leave
<1>20. ASSUME NEW r \in Runs, RetryAttempt(r) PROVE TermInv'
  BY <1>20 DEF RetryAttempt, Goto
<1>21. ASSUME NEW r \in Runs, Backoff(r) PROVE TermInv'
  BY <1>21 DEF Backoff, Goto
<1>22. ASSUME NEW r \in Runs, EmptyTurn(r) PROVE TermInv'
  BY <1>22 DEF EmptyTurn, Leave
<1>23. ASSUME NEW r \in Runs, TurnReceived(r) PROVE TermInv'
  BY <1>23 DEF TurnReceived, Goto
<1>24. ASSUME NEW r \in Runs, NEW followup \in BOOLEAN, GoOn(r, followup) PROVE TermInv'
  BY <1>24 DEF GoOn, Goto
<1>25. ASSUME NEW r \in Runs, LastTurn(r) PROVE TermInv'
  BY <1>25 DEF LastTurn, Leave
<1>26. ASSUME NEW r \in Runs, SkipTool(r) PROVE TermInv'
  BY <1>26 DEF SkipTool
<1>27. ASSUME NEW r \in Runs, TaskTool(r) PROVE TermInv'
  BY <1>27 DEF TaskTool
<1>28. ASSUME NEW r \in Runs, NEW kind \in {"builtin", "agent"},
             DispatchTool(r, kind) PROVE TermInv'
  BY <1>28 DEF DispatchTool, Goto
<1>29. ASSUME NEW r \in Runs, NEW allow \in BOOLEAN,
             PolicyDecides(r, allow) PROVE TermInv'
  BY <1>29 DEF PolicyDecides, Goto
<1>30. ASSUME NEW r \in Runs, AskForCall(r) PROVE TermInv'
  BY <1>30 DEF AskForCall, InsertHandle, Fresh, Goto
<1>31. ASSUME NEW r \in Runs, AnnouncePermission(r) PROVE TermInv'
  BY <1>31 DEF AnnouncePermission, Goto
<1>32. ASSUME NEW r \in Runs, CallDecided(r) PROVE TermInv'
  BY <1>32 DEF CallDecided, Goto
<1>33. ASSUME NEW r \in Runs, OutputDecided(r) PROVE TermInv'
  BY <1>33 DEF OutputDecided, Goto
<1>34. ASSUME NEW r \in Runs, PermissionTimeout(r) PROVE TermInv'
  BY <1>34 DEF PermissionTimeout, Goto
<1>35. ASSUME NEW r \in Runs, CheckBeforeTool(r) PROVE TermInv'
  BY <1>35 DEF CheckBeforeTool, Goto
<1>36. ASSUME NEW r \in Runs, StartTool(r) PROVE TermInv'
  BY <1>36 DEF StartTool, Goto
<1>37. ASSUME NEW r \in Runs, ToolReturns(r) PROVE TermInv'
  BY <1>37 DEF ToolReturns, Goto
<1>38. ASSUME NEW r \in Runs, AskForOutput(r) PROVE TermInv'
  BY <1>38 DEF AskForOutput, InsertHandle, Fresh, Goto
<1>39. ASSUME NEW r \in Runs, ClassifyResult(r) PROVE TermInv'
  BY <1>39 DEF ClassifyResult, Goto
<1>40. ASSUME NEW r \in Runs, BuildTerminal(r) PROVE TermInv'
  BY <1>40 DEF BuildTerminal, Goto
<1>41. ASSUME NEW r \in Runs, SendTerminal(r) PROVE TermInv'
  BY <1>41 DEF SendTerminal, Goto
<1>42. ASSUME NEW r \in Runs, CleanupRemove(r) PROVE TermInv'
  BY <1>42 DEF CleanupRemove, Goto
<1>43. ASSUME NEW r \in Runs, CleanupDeny(r) PROVE TermInv'
  BY <1>43 DEF CleanupDeny, DenyPendingPermissionsForRun, PendingOf, Pending,
      Goto
<1>44. ASSUME NEW r \in Runs, TotalTimeout(r) PROVE TermInv'
  BY <1>44 DEF TotalTimeout, Leave
<1> HIDE DEF vars, turnVars, toolVars, handleVars, endVars, lateVars, TypeOK,
      RpcStates, NoRpc, Positions, InLoop, TermInv, DenyInv
<1> QED BY <1>1, <1>2, <1>3, <1>4, <1>5, <1>6, <1>7, <1>8, <1>9, <1>10,
      <1>11, <1>12, <1>13, <1>14, <1>15, <1>16, <1>17, <1>18, <1>19, <1>20,
      <1>21, <1>22, <1>23, <1>24, <1>25, <1>26, <1>27, <1>28, <1>29, <1>30,
      <1>31, <1>32, <1>33, <1>34, <1>35, <1>36, <1>37, <1>38, <1>39, <1>40,
      <1>41, <1>42, <1>43, <1>44
      DEF Next, Requests, TurnStep, ToolStep, EndStep

-----------------------------------------------------------------------------
(* The theorems                                                            *)

\* All parts of the inductive invariant.
IInv == /\ TypeOK
        /\ WorkInv
        /\ TableInv
        /\ AskInv
        /\ HandleInv
        /\ DenyInv
        /\ TurnInv
        /\ TermInv

\* The inductive invariant holds in every state of every behaviour.
THEOREM Inductive == Spec => []IInv
<1>1. Init => IInv
  BY TypeInit DEF Init, IInv, WorkInv, TableInv, AskInv, HandleInv, DenyInv,
      TurnInv, TermInv, Pending, NoRpc
<1>2. IInv /\ [Next]_vars => IInv'
  BY TypeStep, WorkKept, TableKept, AskKept, HandleKept, DenyKept, TurnKept,
      TermKept DEF IInv
<1> QED BY <1>1, <1>2, PTL DEF Spec

\* After a cancel a run opens at most one more provider request and starts
\* at most one more builtin tool, whatever max_turns and the retries are.
THEOREM WorkBounded == Spec => []BoundedWorkAfterCancel
<1>1. IInv => BoundedWorkAfterCancel
  BY DEF IInv, WorkInv, BoundedWorkAfterCancel
<1> QED BY <1>1, Inductive, PTL

\* No confirmed tool runs and no sensitive output is returned unredacted
\* without the approval of that very request (ensure_tool_permission,
\* resolve_sensitive_output).
THEOREM ApprovalNeeded == Spec => []GrantedMeansApproved
<1>1. IInv => GrantedMeansApproved
  BY DEF IInv, AskInv, GrantedMeansApproved
<1> QED BY <1>1, Inductive, PTL

\* No permission handle outlives its run (cleanup_run).
THEOREM NoOrphans == Spec => []NoOrphanPermission
<1>1. IInv => NoOrphanPermission
  BY DEF IInv, HandleInv, NoOrphanPermission
<1> QED BY <1>1, Inductive, PTL

\* The core denies by itself only requests of cancelled or finished runs
\* (deny_pending_permissions_for_run).
THEOREM OthersNotDenied == Spec => []OnlyOwnRunDenied
<1>1. IInv => OnlyOwnRunDenied
  BY DEF IInv, DenyInv, OnlyOwnRunDenied
<1> QED BY <1>1, Inductive, PTL

\* A run that ends well before max_turns has had every tool result read and
\* its task list closed, or the model went silent.
THEOREM NothingDangling == Spec => []NothingLeftDangling
<1>1. IInv => NothingLeftDangling
  BY DEF IInv, TurnInv, NothingLeftDangling
<1> QED BY <1>1, Inductive, PTL

-----------------------------------------------------------------------------
(* AgentRun implements the safety part of RunLifecycle: every step of the  *)
(* run engine is a step of the protocol's run state machine, or changes    *)
(* nothing that machine sees.                                              *)

\* A step of the abstract specification, or none.
AbstractStep == [Lifecycle!Next]_(Lifecycle!vars)

\* What the abstract specification sees of a state is determined by pc,
\* term and cancelled.
LEMMA SameView ==
    ASSUME \A x \in Runs : RunStatus'[x] = RunStatus[x], cancelled' = cancelled
    PROVE  AbstractStep
<1>1. RunStatus' = RunStatus
  BY DEF RunStatus
<1> QED BY <1>1 DEF AbstractStep, Lifecycle!vars

\* The view of run r alone changes, to v.
LEMMA OneViewChanges ==
    ASSUME NEW r \in Runs, NEW v \in Lifecycle!Live \cup Lifecycle!Final,
           \A x \in Runs : RunStatus'[x] = IF x = r THEN v ELSE RunStatus[x]
    PROVE  RunStatus' = [RunStatus EXCEPT ![r] = v]
BY DEF RunStatus

\* Every step of the run engine is a step of the protocol's machine.
LEMMA StepRefines == TypeOK /\ DenyInv /\ TermInv /\ [Next]_vars => AbstractStep
<1> SUFFICES ASSUME TypeOK, DenyInv, TermInv, [Next]_vars PROVE AbstractStep
  OBVIOUS
<1> USE DEF vars, turnVars, toolVars, handleVars, endVars, lateVars
<1> USE DEF TypeOK, RpcStates, NoRpc, Positions, InLoop, TermInv, DenyInv
<1>1. CASE Initialize
  BY <1>1, SameView DEF Initialize, RunStatus
<1>2. CASE StopReading
  BY <1>2, SameView DEF StopReading, RunStatus
<1>3. CASE Exit
  BY <1>3, SameView DEF Exit, RunStatus
<1>4. CASE Exited
  BY <1>4, SameView DEF Exited, RunStatus
<1>5. CASE UNCHANGED vars
  BY <1>5, SameView DEF RunStatus
<1>6. ASSUME NEW r \in Runs, AgentReply(r) PROVE AbstractStep
  <2>1. RunStatus[r] = "none" /\ cancelled' = cancelled
    BY <1>6 DEF AgentReply, Goto, RunStatus
  <2>2. \A x \in Runs : RunStatus'[x] = IF x = r THEN "running"
                                            ELSE RunStatus[x]
    BY <1>6 DEF AgentReply, Goto, RunStatus
  <2>3. RunStatus' = [RunStatus EXCEPT ![r] = "running"]
    BY <2>2, OneViewChanges DEF Lifecycle!Live
  <2> QED BY <2>1, <2>3 DEF AbstractStep, Lifecycle!Next, Lifecycle!Accept
<1>7. ASSUME NEW r \in Runs, AgentCancel(r) PROVE AbstractStep
  BY <1>7, SameView DEF AgentCancel, RunStatus
<1>8. ASSUME NEW r \in Runs, CancelStore(r) PROVE AbstractStep
  <2>1. Lifecycle!Cancel(r)
    BY <1>8 DEF CancelStore, RunStatus, Lifecycle!Cancel
  <2> QED BY <2>1 DEF AbstractStep, Lifecycle!Next
<1>9. ASSUME NEW r \in Runs, CancelDeny(r) PROVE AbstractStep
  BY <1>9, SameView DEF CancelDeny, DenyPendingPermissionsForRun, PendingOf,
      Pending, RunStatus
<1>10. ASSUME NEW r \in Runs, NEW p \in Perms,
             NEW decision \in {"Approve", "Deny"},
             PermissionResolve(r, p, decision) PROVE AbstractStep
  BY <1>10, SameView DEF PermissionResolve, RunStatus
<1>11. ASSUME NEW r \in Runs, RunStarted(r) PROVE AbstractStep
  BY <1>11, SameView DEF RunStarted, Goto, RunStatus
<1>12. ASSUME NEW r \in Runs, ProviderMissing(r) PROVE AbstractStep
  BY <1>12, SameView DEF ProviderMissing, Leave, RunStatus
<1>13. ASSUME NEW r \in Runs, TurnsUsedUp(r) PROVE AbstractStep
  BY <1>13, SameView DEF TurnsUsedUp, Leave, RunStatus
<1>14. ASSUME NEW r \in Runs, TurnCancelled(r) PROVE AbstractStep
  BY <1>14, SameView DEF TurnCancelled, Leave, RunStatus
<1>15. ASSUME NEW r \in Runs, BeginTurn(r) PROVE AbstractStep
  BY <1>15, SameView DEF BeginTurn, Goto, RunStatus
<1>16. ASSUME NEW r \in Runs, OpenStream(r) PROVE AbstractStep
  BY <1>16, SameView DEF OpenStream, Goto, RunStatus
<1>17. ASSUME NEW r \in Runs, StreamItem(r) PROVE AbstractStep
  BY <1>17, SameView DEF StreamItem, RunStatus
<1>18. ASSUME NEW r \in Runs, StreamCancelled(r) PROVE AbstractStep
  BY <1>18, SameView DEF StreamCancelled, Leave, RunStatus
<1>19. ASSUME NEW r \in Runs, NEW res \in {"Err", "ErrCancelled"},
             AttemptFails(r, res) PROVE AbstractStep
  BY <1>19, SameView DEF AttemptFails, Leave, RunStatus
<1>20. ASSUME NEW r \in Runs, RetryAttempt(r) PROVE AbstractStep
  BY <1>20, SameView DEF RetryAttempt, Goto, RunStatus
<1>21. ASSUME NEW r \in Runs, Backoff(r) PROVE AbstractStep
  BY <1>21, SameView DEF Backoff, Goto, RunStatus
<1>22. ASSUME NEW r \in Runs, EmptyTurn(r) PROVE AbstractStep
  BY <1>22, SameView DEF EmptyTurn, Leave, RunStatus
<1>23. ASSUME NEW r \in Runs, TurnReceived(r) PROVE AbstractStep
  BY <1>23, SameView DEF TurnReceived, Goto, RunStatus
<1>24. ASSUME NEW r \in Runs, NEW followup \in BOOLEAN,
             GoOn(r, followup) PROVE AbstractStep
  BY <1>24, SameView DEF GoOn, Goto, RunStatus
<1>25. ASSUME NEW r \in Runs, LastTurn(r) PROVE AbstractStep
  BY <1>25, SameView DEF LastTurn, Leave, RunStatus
<1>26. ASSUME NEW r \in Runs, SkipTool(r) PROVE AbstractStep
  BY <1>26, SameView DEF SkipTool, RunStatus
<1>27. ASSUME NEW r \in Runs, TaskTool(r) PROVE AbstractStep
  BY <1>27, SameView DEF TaskTool, RunStatus
<1>28. ASSUME NEW r \in Runs, NEW kind \in {"builtin", "agent"},
             DispatchTool(r, kind) PROVE AbstractStep
  BY <1>28, SameView DEF DispatchTool, Goto, RunStatus
<1>29. ASSUME NEW r \in Runs, NEW allow \in BOOLEAN,
             PolicyDecides(r, allow) PROVE AbstractStep
  BY <1>29, SameView DEF PolicyDecides, Goto, RunStatus
<1>30. ASSUME NEW r \in Runs, AskForCall(r) PROVE AbstractStep
  BY <1>30, SameView DEF AskForCall, InsertHandle, Fresh, Goto, RunStatus
<1>31. ASSUME NEW r \in Runs, AnnouncePermission(r) PROVE AbstractStep
  <2>1. RunStatus[r] = "running" /\ cancelled' = cancelled
    BY <1>31 DEF AnnouncePermission, Goto, RunStatus
  <2>2. \A x \in Runs : RunStatus'[x] = IF x = r THEN "waiting_permission"
                                            ELSE RunStatus[x]
    BY <1>31 DEF AnnouncePermission, Goto, RunStatus
  <2>3. RunStatus' = [RunStatus EXCEPT ![r] = "waiting_permission"]
    BY <2>2, OneViewChanges DEF Lifecycle!Live
  <2> QED BY <2>1, <2>3 DEF AbstractStep, Lifecycle!Next, Lifecycle!AskPermission
<1>32. ASSUME NEW r \in Runs, CallDecided(r) PROVE AbstractStep
  <2>1. RunStatus[r] = "waiting_permission" /\ cancelled' = cancelled
    BY <1>32 DEF CallDecided, Goto, RunStatus
  <2>2. \A x \in Runs : RunStatus'[x] = IF x = r THEN "running"
                                            ELSE RunStatus[x]
    BY <1>32 DEF CallDecided, Goto, RunStatus
  <2>3. RunStatus' = [RunStatus EXCEPT ![r] = "running"]
    BY <2>2, OneViewChanges DEF Lifecycle!Live
  <2> QED BY <2>1, <2>3 DEF AbstractStep, Lifecycle!Next, Lifecycle!Resume
<1>33. ASSUME NEW r \in Runs, OutputDecided(r) PROVE AbstractStep
  <2>1. RunStatus[r] = "waiting_permission" /\ cancelled' = cancelled
    BY <1>33 DEF OutputDecided, Goto, RunStatus
  <2>2. \A x \in Runs : RunStatus'[x] = IF x = r THEN "running"
                                            ELSE RunStatus[x]
    BY <1>33 DEF OutputDecided, Goto, RunStatus
  <2>3. RunStatus' = [RunStatus EXCEPT ![r] = "running"]
    BY <2>2, OneViewChanges DEF Lifecycle!Live
  <2> QED BY <2>1, <2>3 DEF AbstractStep, Lifecycle!Next, Lifecycle!Resume
<1>34. ASSUME NEW r \in Runs, PermissionTimeout(r) PROVE AbstractStep
  <2>1. RunStatus[r] = "waiting_permission" /\ cancelled' = cancelled
    BY <1>34 DEF PermissionTimeout, Goto, RunStatus
  <2>2. \A x \in Runs : RunStatus'[x] = IF x = r THEN "running"
                                            ELSE RunStatus[x]
    BY <1>34 DEF PermissionTimeout, Goto, RunStatus
  <2>3. RunStatus' = [RunStatus EXCEPT ![r] = "running"]
    BY <2>2, OneViewChanges DEF Lifecycle!Live
  <2> QED BY <2>1, <2>3 DEF AbstractStep, Lifecycle!Next, Lifecycle!Resume
<1>35. ASSUME NEW r \in Runs, CheckBeforeTool(r) PROVE AbstractStep
  BY <1>35, SameView DEF CheckBeforeTool, Goto, RunStatus
<1>36. ASSUME NEW r \in Runs, StartTool(r) PROVE AbstractStep
  BY <1>36, SameView DEF StartTool, Goto, RunStatus
<1>37. ASSUME NEW r \in Runs, ToolReturns(r) PROVE AbstractStep
  BY <1>37, SameView DEF ToolReturns, Goto, RunStatus
<1>38. ASSUME NEW r \in Runs, AskForOutput(r) PROVE AbstractStep
  BY <1>38, SameView DEF AskForOutput, InsertHandle, Fresh, Goto, RunStatus
<1>39. ASSUME NEW r \in Runs, ClassifyResult(r) PROVE AbstractStep
  BY <1>39, SameView DEF ClassifyResult, Goto, RunStatus
<1>40. ASSUME NEW r \in Runs, BuildTerminal(r) PROVE AbstractStep
  <2>1. PICK final \in Lifecycle!Final :
            /\ RunStatus[r] \in Lifecycle!Live
            /\ final = "completed" => ~cancelled[r]
            /\ RunStatus' = [RunStatus EXCEPT ![r] = final]
    <3>1. PICK final \in Lifecycle!Final :
            /\ final = "completed" => ~cancelled[r]
            /\ \A x \in Runs : RunStatus'[x] = IF x = r THEN final ELSE RunStatus[x]
      BY <1>40 DEF BuildTerminal, Goto, RunStatus, Lifecycle!Final
    <3>2. RunStatus' = [RunStatus EXCEPT ![r] = final]
      BY <3>1, OneViewChanges
    <3> QED BY <1>40, <3>1, <3>2 DEF BuildTerminal, RunStatus, Lifecycle!Live
  <2>2. Lifecycle!Finish(r)
    BY <1>40, <2>1 DEF BuildTerminal, Lifecycle!Finish, Lifecycle!End
  <2> QED BY <2>2 DEF AbstractStep, Lifecycle!Next
<1>41. ASSUME NEW r \in Runs, SendTerminal(r) PROVE AbstractStep
  BY <1>41, SameView DEF SendTerminal, Goto, RunStatus
<1>42. ASSUME NEW r \in Runs, CleanupRemove(r) PROVE AbstractStep
  BY <1>42, SameView DEF CleanupRemove, Goto, RunStatus
<1>43. ASSUME NEW r \in Runs, CleanupDeny(r) PROVE AbstractStep
  BY <1>43, SameView DEF CleanupDeny, DenyPendingPermissionsForRun,
      PendingOf, Pending, Goto, RunStatus
<1>44. ASSUME NEW r \in Runs, TotalTimeout(r) PROVE AbstractStep
  <2>1. CASE pc[r] = "waiting"
    <3>1. RunStatus[r] = "waiting_permission" /\ cancelled' = cancelled
      BY <1>44, <2>1 DEF TotalTimeout, RunStatus
    <3>2. \A x \in Runs : RunStatus'[x] = IF x = r THEN "running"
                                             ELSE RunStatus[x]
      BY <1>44, <2>1 DEF TotalTimeout, Leave, RunStatus
    <3>3. RunStatus' = [RunStatus EXCEPT ![r] = "running"]
      BY <3>2, OneViewChanges DEF Lifecycle!Live
    <3> QED BY <3>1, <3>3 DEF AbstractStep, Lifecycle!Next, Lifecycle!Resume
  <2>2. CASE pc[r] # "waiting"
    BY <1>44, <2>2, SameView DEF TotalTimeout, Leave, RunStatus
  <2> QED BY <2>1, <2>2
<1> HIDE DEF vars, turnVars, toolVars, handleVars, endVars, lateVars
<1> HIDE DEF TypeOK, RpcStates, NoRpc, Positions, InLoop, TermInv, DenyInv
<1> QED BY <1>1, <1>2, <1>3, <1>4, <1>5, <1>6, <1>7, <1>8, <1>9, <1>10,
      <1>11, <1>12, <1>13, <1>14, <1>15, <1>16, <1>17, <1>18, <1>19, <1>20,
      <1>21, <1>22, <1>23, <1>24, <1>25, <1>26, <1>27, <1>28, <1>29, <1>30,
      <1>31, <1>32, <1>33, <1>34, <1>35, <1>36, <1>37, <1>38, <1>39, <1>40,
      <1>41, <1>42, <1>43, <1>44
      DEF Next, Requests, TurnStep, ToolStep, EndStep

\* The run engine implements the protocol's run state machine: one terminal
\* outcome per run, and no completed run once its cancel has taken effect.
THEOREM RefinesLifecycle == Spec => KeepsLifecycle
<1>1. Init => Lifecycle!Init
  BY DEF Init, Lifecycle!Init, RunStatus
<1>2. IInv /\ [Next]_vars => AbstractStep
  BY StepRefines DEF IInv
<1> QED
  BY <1>1, <1>2, Inductive, PTL
     DEF Spec, AbstractStep, KeepsLifecycle, Lifecycle!SafeSpec
=============================================================================
