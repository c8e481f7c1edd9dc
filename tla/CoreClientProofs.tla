-------------------------- MODULE CoreClientProofs --------------------------
(***************************************************************************)
(* The safety properties of CoreClient, for any number of calls, restarts  *)
(* and faults.                                                             *)
(***************************************************************************)
EXTENDS CoreClient, TLAPS

\* The steps of a caller before its id is entered in pending.
BeforeInsert == {"idle", "registered", "bumped", "rejectedAll", "clearedAll",
                 "killed", "spawned", "stdinSet", "ready"}

\* An id is in pending only while its call is between the insertion and the
\* return, and it has no answer; a call that has not come so far has none
\* either, so that the answer of a call is always its own.
PendingIsOpen ==
    \A c \in Callers :
        /\ c \in pending => pc[c] \in {"inserted", "waiting"} /\ answer[c] = "none"
        /\ pc[c] \in BeforeInsert => answer[c] = "none"

\* A reply that was refused has taken its channel out.
RefusedIsClosed ==
    \A c \in Replies : pc[c] = "err" => c \notin senders

\* The inductive invariant.
CallInv == PendingIsOpen /\ RefusedIsClosed

\* Every step keeps every variable in its type.
LEMMA TypeStep ==
    TypeOK /\ [Next]_vars => TypeOK'
<1> SUFFICES ASSUME TypeOK, [Next]_vars PROVE TypeOK'
  OBVIOUS
<1>a. /\ Restarters \subseteq Gens /\ Restarters \subseteq Callers
      /\ Replies \subseteq Callers
  BY ClientAssumption DEF Restarters, Gens, Callers
<1>b. /\ \A c \in Callers : /\ [type |-> "response", call |-> c] \in Lines
                             /\ [type |-> "finish", call |-> c] \in Lines
      /\ [type |-> "garbage"] \in Lines
  BY DEF Lines
<1>c. \A n \in 0..MaxFaults : n < MaxFaults => n + 1 \in 0..MaxFaults
  BY ClientAssumption
<1>d. \A s \in Seq(Lines) : /\ \A l \in Lines : Append(s, l) \in Seq(Lines)
                           /\ s # <<>> => Tail(s) \in Seq(Lines)
  OBVIOUS
<1> USE <1>a DEF vars, clientVars, coreVars, callVars, TypeOK,
      ProcStates, ReaderStates, CallStates, RestartStates
<1>1. ASSUME NEW c \in Callers, Register(c) PROVE TypeOK'
  BY <1>1 DEF Register, MayStart, Goto
<1>2. ASSUME NEW c \in Callers, Insert(c) PROVE TypeOK'
  BY <1>2 DEF Insert, MayStart, Goto
<1>3. ASSUME NEW c \in Callers, Write(c) PROVE TypeOK'
  <2>1. generation' \in Gens /\ stdin' \in Gens \cup {NoGen} /\ child' \in Gens
    BY <1>3 DEF Write, Failing, Goto
  <2>2. status' \in BOOLEAN /\ slot' \in BOOLEAN
    BY <1>3 DEF Write, Failing, Goto
  <2>3. pending' \subseteq Callers /\ senders' \subseteq Replies
    BY <1>3 DEF Write, Failing, Goto
  <2>4. proc' \in [Gens -> ProcStates]
    BY <1>3 DEF Write, Failing, Goto
  <2>5. inbox' \in [Gens -> SUBSET Callers] /\ runs' \in [Gens -> SUBSET Replies]
    <3>1. \/ inbox' = inbox
          \/ inbox' = [inbox EXCEPT ![stdin] = @ \cup {c}]
      BY <1>3 DEF Write
    <3>2. runs' = runs
      BY <1>3 DEF Write
    <3>3. /\ inbox \in [Gens -> SUBSET Callers]
          /\ runs \in [Gens -> SUBSET Replies]
      OBVIOUS
    <3> HIDE DEF TypeOK
    <3> QED
      BY <3>1, <3>2, <3>3
  <2>6. stdout' \in [Gens -> Seq(Lines)]
    BY <1>3, <1>b, <1>d DEF Write, Failing, Goto
  <2>7. reader' \in [Gens -> ReaderStates]
    BY <1>3 DEF Write, Failing, Goto
  <2>8. pc' \in [Callers -> CallStates \cup RestartStates]
    <3>1. \E s \in {"waiting", "err", "failed"} : pc' = [pc EXCEPT ![c] = s]
      BY <1>3 DEF Write, Goto, Failing
    <3> QED
      BY <3>1
  <2>9. answer' \in [Callers -> {"none", "result", "error"}]
    BY <1>3 DEF Write, Failing, Goto
  <2>10. wrote' \in [Callers -> Gens \cup {NoGen}]
    BY <1>3 DEF Write, Failing, Goto
  <2>11. faults' \in 0..MaxFaults
    BY <1>3, <1>c DEF Write, Failing, Goto
  <2> QED
    BY <2>1, <2>2, <2>3, <2>4, <2>5, <2>6, <2>7, <2>8, <2>9, <2>10, <2>11
<1>4. ASSUME NEW c \in Callers, Receive(c) PROVE TypeOK'
  BY <1>4 DEF Receive, Failing, Goto
<1>5. ASSUME NEW c \in Callers, Timeout(c) PROVE TypeOK'
  BY <1>5 DEF Timeout, Failing, Goto
<1>6. ASSUME NEW c \in Callers, Unregister(c) PROVE TypeOK'
  BY <1>6 DEF Unregister, Goto
<1>7. ASSUME NEW r \in Restarters, Bump(r) PROVE TypeOK'
  <2>1. generation' \in Gens /\ stdin' \in Gens \cup {NoGen} /\ child' \in Gens
    BY <1>7 DEF Bump, MayStart, Goto
  <2>2. status' \in BOOLEAN /\ slot' \in BOOLEAN
    BY <1>7 DEF Bump, MayStart, Goto
  <2>3. pending' \subseteq Callers /\ senders' \subseteq Replies
    BY <1>7 DEF Bump, MayStart, Goto
  <2>4. proc' \in [Gens -> ProcStates]
    BY <1>7 DEF Bump, MayStart, Goto
  <2>5. inbox' \in [Gens -> SUBSET Callers] /\ runs' \in [Gens -> SUBSET Replies]
    BY <1>7 DEF Bump, MayStart, Goto
  <2>6. stdout' \in [Gens -> Seq(Lines)]
    BY <1>7, <1>b, <1>d DEF Bump, MayStart, Goto
  <2>7. reader' \in [Gens -> ReaderStates]
    BY <1>7 DEF Bump, MayStart, Goto
  <2>8. pc' \in [Callers -> CallStates \cup RestartStates]
    BY <1>7 DEF Bump, MayStart, Goto
  <2>9. answer' \in [Callers -> {"none", "result", "error"}]
    BY <1>7 DEF Bump, MayStart, Goto
  <2>10. wrote' \in [Callers -> Gens \cup {NoGen}]
    BY <1>7 DEF Bump, MayStart, Goto
  <2>11. faults' \in 0..MaxFaults
    BY <1>7, <1>c DEF Bump, MayStart, Goto
  <2> QED
    BY <2>1, <2>2, <2>3, <2>4, <2>5, <2>6, <2>7, <2>8, <2>9, <2>10, <2>11
<1>8. ASSUME NEW r \in Restarters, RestartRejects(r) PROVE TypeOK'
  BY <1>8 DEF RestartRejects, RejectAll, Goto
<1>9. ASSUME NEW r \in Restarters, RestartClears(r) PROVE TypeOK'
  BY <1>9 DEF RestartClears, Goto
<1>10. ASSUME NEW r \in Restarters, KillChild(r) PROVE TypeOK'
  BY <1>10 DEF KillChild, Exit, Goto
<1>11. ASSUME NEW r \in Restarters, SpawnChild(r) PROVE TypeOK'
  <2>1. generation' \in Gens /\ stdin' \in Gens \cup {NoGen} /\ child' \in Gens
    BY <1>11 DEF SpawnChild, Goto
  <2>2. status' \in BOOLEAN /\ slot' \in BOOLEAN
    BY <1>11 DEF SpawnChild, Goto
  <2>3. pending' \subseteq Callers /\ senders' \subseteq Replies
    BY <1>11 DEF SpawnChild, Goto
  <2>4. proc' \in [Gens -> ProcStates]
    BY <1>11 DEF SpawnChild, Goto
  <2>5. inbox' \in [Gens -> SUBSET Callers] /\ runs' \in [Gens -> SUBSET Replies]
    BY <1>11 DEF SpawnChild, Goto
  <2>6. stdout' \in [Gens -> Seq(Lines)]
    BY <1>11, <1>b, <1>d DEF SpawnChild, Goto
  <2>7. reader' \in [Gens -> ReaderStates]
    BY <1>11 DEF SpawnChild, Goto
  <2>8. pc' \in [Callers -> CallStates \cup RestartStates]
    <3>1. \E s \in {"spawned", "failed"} : pc' = [pc EXCEPT ![r] = s]
      BY <1>11 DEF SpawnChild, Goto
    <3> QED
      BY <3>1
  <2>9. answer' \in [Callers -> {"none", "result", "error"}]
    BY <1>11 DEF SpawnChild, Goto
  <2>10. wrote' \in [Callers -> Gens \cup {NoGen}]
    BY <1>11 DEF SpawnChild, Goto
  <2>11. faults' \in 0..MaxFaults
    BY <1>11, <1>c DEF SpawnChild, Goto
  <2> QED
    BY <2>1, <2>2, <2>3, <2>4, <2>5, <2>6, <2>7, <2>8, <2>9, <2>10, <2>11
<1>12. ASSUME NEW r \in Restarters, SetStdin(r) PROVE TypeOK'
  <2>1. generation' \in Gens /\ stdin' \in Gens \cup {NoGen} /\ child' \in Gens
    BY <1>12 DEF SetStdin, Goto
  <2>2. status' \in BOOLEAN /\ slot' \in BOOLEAN
    BY <1>12 DEF SetStdin, Goto
  <2>3. pending' \subseteq Callers /\ senders' \subseteq Replies
    BY <1>12 DEF SetStdin, Goto
  <2>4. proc' \in [Gens -> ProcStates]
    BY <1>12 DEF SetStdin, Goto
  <2>5. inbox' \in [Gens -> SUBSET Callers] /\ runs' \in [Gens -> SUBSET Replies]
    BY <1>12 DEF SetStdin, Goto
  <2>6. stdout' \in [Gens -> Seq(Lines)]
    BY <1>12, <1>b, <1>d DEF SetStdin, Goto
  <2>7. reader' \in [Gens -> ReaderStates]
    BY <1>12 DEF SetStdin, Goto
  <2>8. pc' \in [Callers -> CallStates \cup RestartStates]
    BY <1>12 DEF SetStdin, Goto
  <2>9. answer' \in [Callers -> {"none", "result", "error"}]
    BY <1>12 DEF SetStdin, Goto
  <2>10. wrote' \in [Callers -> Gens \cup {NoGen}]
    BY <1>12 DEF SetStdin, Goto
  <2>11. faults' \in 0..MaxFaults
    BY <1>12, <1>c DEF SetStdin, Goto
  <2> QED
    BY <2>1, <2>2, <2>3, <2>4, <2>5, <2>6, <2>7, <2>8, <2>9, <2>10, <2>11
<1>13. ASSUME NEW r \in Restarters, SetChild(r) PROVE TypeOK'
  <2>1. generation' \in Gens /\ stdin' \in Gens \cup {NoGen} /\ child' \in Gens
    BY <1>13 DEF SetChild, Goto
  <2>2. status' \in BOOLEAN /\ slot' \in BOOLEAN
    BY <1>13 DEF SetChild, Goto
  <2>3. pending' \subseteq Callers /\ senders' \subseteq Replies
    BY <1>13 DEF SetChild, Goto
  <2>4. proc' \in [Gens -> ProcStates]
    BY <1>13 DEF SetChild, Goto
  <2>5. inbox' \in [Gens -> SUBSET Callers] /\ runs' \in [Gens -> SUBSET Replies]
    BY <1>13 DEF SetChild, Goto
  <2>6. stdout' \in [Gens -> Seq(Lines)]
    BY <1>13, <1>b, <1>d DEF SetChild, Goto
  <2>7. reader' \in [Gens -> ReaderStates]
    BY <1>13 DEF SetChild, Goto
  <2>8. pc' \in [Callers -> CallStates \cup RestartStates]
    BY <1>13 DEF SetChild, Goto
  <2>9. answer' \in [Callers -> {"none", "result", "error"}]
    BY <1>13 DEF SetChild, Goto
  <2>10. wrote' \in [Callers -> Gens \cup {NoGen}]
    BY <1>13 DEF SetChild, Goto
  <2>11. faults' \in 0..MaxFaults
    BY <1>13, <1>c DEF SetChild, Goto
  <2> QED
    BY <2>1, <2>2, <2>3, <2>4, <2>5, <2>6, <2>7, <2>8, <2>9, <2>10, <2>11
<1>14. ASSUME NEW r \in Restarters, StoreStatus(r) PROVE TypeOK'
  BY <1>14 DEF StoreStatus, Goto
<1>15. ASSUME NEW r \in Restarters, SetSlot(r) PROVE TypeOK'
  BY <1>15 DEF SetSlot, Goto
<1>16. ASSUME NEW g \in Gens, ReadLine(g) PROVE TypeOK'
  <2>1. generation' \in Gens /\ stdin' \in Gens \cup {NoGen} /\ child' \in Gens
    BY <1>16 DEF ReadLine
  <2>2. status' \in BOOLEAN /\ slot' \in BOOLEAN
    BY <1>16 DEF ReadLine
  <2>3. pending' \subseteq Callers /\ senders' \subseteq Replies
    BY <1>16 DEF ReadLine
  <2>4. proc' \in [Gens -> ProcStates]
    BY <1>16 DEF ReadLine
  <2>5. inbox' \in [Gens -> SUBSET Callers] /\ runs' \in [Gens -> SUBSET Replies]
    BY <1>16 DEF ReadLine
  <2>6. stdout' \in [Gens -> Seq(Lines)]
    <3>1. stdout' = [stdout EXCEPT ![g] = Tail(stdout[g])] /\ stdout[g] # <<>>
      BY <1>16 DEF ReadLine
    <3>2. stdout \in [Gens -> Seq(Lines)]
      OBVIOUS
    <3> HIDE DEF TypeOK
    <3> QED
      BY <3>1, <3>2, <1>d
  <2>7. reader' \in [Gens -> ReaderStates]
    BY <1>16 DEF ReadLine
  <2>8. pc' \in [Callers -> CallStates \cup RestartStates]
    BY <1>16 DEF ReadLine
  <2>9. answer' \in [Callers -> {"none", "result", "error"}]
    BY <1>16 DEF ReadLine
  <2>10. wrote' \in [Callers -> Gens \cup {NoGen}]
    BY <1>16 DEF ReadLine
  <2>11. faults' \in 0..MaxFaults
    BY <1>16, <1>c DEF ReadLine
  <2> QED
    BY <2>1, <2>2, <2>3, <2>4, <2>5, <2>6, <2>7, <2>8, <2>9, <2>10, <2>11
<1>17. ASSUME NEW g \in Gens, ReadEof(g) PROVE TypeOK'
  BY <1>17 DEF ReadEof
<1>18. ASSUME NEW g \in Gens, CloseReject(g) PROVE TypeOK'
  BY <1>18 DEF CloseReject, RejectAll
<1>19. ASSUME NEW g \in Gens, CloseClear(g) PROVE TypeOK'
  BY <1>19 DEF CloseClear
<1>20. ASSUME NEW g \in Gens, NEW c \in Callers, Answer(g, c) PROVE TypeOK'
  <2>1. generation' \in Gens /\ stdin' \in Gens \cup {NoGen} /\ child' \in Gens
    BY <1>20 DEF Answer
  <2>2. status' \in BOOLEAN /\ slot' \in BOOLEAN
    BY <1>20 DEF Answer
  <2>3. pending' \subseteq Callers /\ senders' \subseteq Replies
    BY <1>20 DEF Answer
  <2>4. proc' \in [Gens -> ProcStates]
    BY <1>20 DEF Answer
  <2>5. inbox' \in [Gens -> SUBSET Callers] /\ runs' \in [Gens -> SUBSET Replies]
    BY <1>20 DEF Answer
  <2>6. stdout' \in [Gens -> Seq(Lines)]
    <3> DEFINE line == [type |-> "response", call |-> c]
    <3>1. stdout' = [stdout EXCEPT ![g] = Append(stdout[g], line)]
      BY <1>20 DEF Answer
    <3>2. stdout \in [Gens -> Seq(Lines)]
      OBVIOUS
    <3> HIDE DEF TypeOK
    <3>3. line \in Lines
      BY <1>b
    <3> HIDE DEF line
    <3>4. Append(stdout[g], line) \in Seq(Lines)
      BY <3>2, <3>3, <1>d
    <3> QED
      BY <3>1, <3>2, <3>4
  <2>7. reader' \in [Gens -> ReaderStates]
    BY <1>20 DEF Answer
  <2>8. pc' \in [Callers -> CallStates \cup RestartStates]
    BY <1>20 DEF Answer
  <2>9. answer' \in [Callers -> {"none", "result", "error"}]
    BY <1>20 DEF Answer
  <2>10. wrote' \in [Callers -> Gens \cup {NoGen}]
    BY <1>20 DEF Answer
  <2>11. faults' \in 0..MaxFaults
    BY <1>20, <1>c DEF Answer
  <2> QED
    BY <2>1, <2>2, <2>3, <2>4, <2>5, <2>6, <2>7, <2>8, <2>9, <2>10, <2>11
<1>21. ASSUME NEW g \in Gens, NEW c \in Callers, FinishRun(g, c) PROVE TypeOK'
  <2>1. generation' \in Gens /\ stdin' \in Gens \cup {NoGen} /\ child' \in Gens
    BY <1>21 DEF FinishRun
  <2>2. status' \in BOOLEAN /\ slot' \in BOOLEAN
    BY <1>21 DEF FinishRun
  <2>3. pending' \subseteq Callers /\ senders' \subseteq Replies
    BY <1>21 DEF FinishRun
  <2>4. proc' \in [Gens -> ProcStates]
    BY <1>21 DEF FinishRun
  <2>5. inbox' \in [Gens -> SUBSET Callers] /\ runs' \in [Gens -> SUBSET Replies]
    BY <1>21 DEF FinishRun
  <2>6. stdout' \in [Gens -> Seq(Lines)]
    <3> DEFINE line == [type |-> "finish", call |-> c]
    <3>1. stdout' = [stdout EXCEPT ![g] = Append(stdout[g], line)]
      BY <1>21 DEF FinishRun
    <3>2. stdout \in [Gens -> Seq(Lines)]
      OBVIOUS
    <3> HIDE DEF TypeOK
    <3>3. line \in Lines
      BY <1>b
    <3> HIDE DEF line
    <3>4. Append(stdout[g], line) \in Seq(Lines)
      BY <3>2, <3>3, <1>d
    <3> QED
      BY <3>1, <3>2, <3>4
  <2>7. reader' \in [Gens -> ReaderStates]
    BY <1>21 DEF FinishRun
  <2>8. pc' \in [Callers -> CallStates \cup RestartStates]
    BY <1>21 DEF FinishRun
  <2>9. answer' \in [Callers -> {"none", "result", "error"}]
    BY <1>21 DEF FinishRun
  <2>10. wrote' \in [Callers -> Gens \cup {NoGen}]
    BY <1>21 DEF FinishRun
  <2>11. faults' \in 0..MaxFaults
    BY <1>21, <1>c DEF FinishRun
  <2> QED
    BY <2>1, <2>2, <2>3, <2>4, <2>5, <2>6, <2>7, <2>8, <2>9, <2>10, <2>11
<1>22. ASSUME NEW g \in Gens, ExitOnEof(g) PROVE TypeOK'
  BY <1>22 DEF ExitOnEof, Exit
<1>23. ASSUME NEW g \in Gens, Crash(g) PROVE TypeOK'
  <2>1. generation' \in Gens /\ stdin' \in Gens \cup {NoGen} /\ child' \in Gens
    BY <1>23 DEF Crash, Exit
  <2>2. status' \in BOOLEAN /\ slot' \in BOOLEAN
    BY <1>23 DEF Crash, Exit
  <2>3. pending' \subseteq Callers /\ senders' \subseteq Replies
    BY <1>23 DEF Crash, Exit
  <2>4. proc' \in [Gens -> ProcStates]
    BY <1>23 DEF Crash, Exit
  <2>5. inbox' \in [Gens -> SUBSET Callers] /\ runs' \in [Gens -> SUBSET Replies]
    BY <1>23 DEF Crash, Exit
  <2>6. stdout' \in [Gens -> Seq(Lines)]
    BY <1>23, <1>b, <1>d DEF Crash, Exit
  <2>7. reader' \in [Gens -> ReaderStates]
    BY <1>23 DEF Crash, Exit
  <2>8. pc' \in [Callers -> CallStates \cup RestartStates]
    BY <1>23 DEF Crash, Exit
  <2>9. answer' \in [Callers -> {"none", "result", "error"}]
    BY <1>23 DEF Crash, Exit
  <2>10. wrote' \in [Callers -> Gens \cup {NoGen}]
    BY <1>23 DEF Crash, Exit
  <2>11. faults' \in 0..MaxFaults
    BY <1>23, <1>c DEF Crash, Exit
  <2> QED
    BY <2>1, <2>2, <2>3, <2>4, <2>5, <2>6, <2>7, <2>8, <2>9, <2>10, <2>11
<1>24. ASSUME NEW g \in Gens, BadLine(g) PROVE TypeOK'
  <2>1. generation' \in Gens /\ stdin' \in Gens \cup {NoGen} /\ child' \in Gens
    BY <1>24 DEF BadLine
  <2>2. status' \in BOOLEAN /\ slot' \in BOOLEAN
    BY <1>24 DEF BadLine
  <2>3. pending' \subseteq Callers /\ senders' \subseteq Replies
    BY <1>24 DEF BadLine
  <2>4. proc' \in [Gens -> ProcStates]
    BY <1>24 DEF BadLine
  <2>5. inbox' \in [Gens -> SUBSET Callers] /\ runs' \in [Gens -> SUBSET Replies]
    BY <1>24 DEF BadLine
  <2>6. stdout' \in [Gens -> Seq(Lines)]
    <3> DEFINE line == [type |-> "garbage"]
    <3>1. stdout' = [stdout EXCEPT ![g] = Append(stdout[g], line)]
      BY <1>24 DEF BadLine
    <3>2. stdout \in [Gens -> Seq(Lines)]
      OBVIOUS
    <3> HIDE DEF TypeOK
    <3>3. line \in Lines
      BY <1>b
    <3> HIDE DEF line
    <3>4. Append(stdout[g], line) \in Seq(Lines)
      BY <3>2, <3>3, <1>d
    <3> QED
      BY <3>1, <3>2, <3>4
  <2>7. reader' \in [Gens -> ReaderStates]
    BY <1>24 DEF BadLine
  <2>8. pc' \in [Callers -> CallStates \cup RestartStates]
    BY <1>24 DEF BadLine
  <2>9. answer' \in [Callers -> {"none", "result", "error"}]
    BY <1>24 DEF BadLine
  <2>10. wrote' \in [Callers -> Gens \cup {NoGen}]
    BY <1>24 DEF BadLine
  <2>11. faults' \in 0..MaxFaults
    BY <1>24, <1>c DEF BadLine
  <2> QED
    BY <2>1, <2>2, <2>3, <2>4, <2>5, <2>6, <2>7, <2>8, <2>9, <2>10, <2>11
<1>25. CASE CheckStatus
  BY <1>25 DEF CheckStatus
<1>26. CASE DropClient
  BY <1>26 DEF DropClient, RejectAll, Exit
<1>27. CASE UNCHANGED vars
  BY <1>27
<1> HIDE DEF vars, clientVars, coreVars, callVars, TypeOK,
      ProcStates, ReaderStates, CallStates, RestartStates
<1> QED BY <1>1, <1>2, <1>3, <1>4, <1>5, <1>6, <1>7, <1>8, <1>9, <1>10,
      <1>11, <1>12, <1>13, <1>14, <1>15, <1>16, <1>17, <1>18, <1>19,
      <1>20, <1>21, <1>22, <1>23, <1>24, <1>25, <1>26, <1>27
      DEF Next, Call, Restart, Reader, Core

\* Every step keeps the invariant.
LEMMA CallStep ==
    TypeOK /\ CallInv /\ [Next]_vars => CallInv'
<1> SUFFICES ASSUME TypeOK, CallInv, [Next]_vars PROVE CallInv'
  OBVIOUS
<1> USE ClientAssumption DEF vars, clientVars, coreVars, callVars, TypeOK,
      CallInv, PendingIsOpen, RefusedIsClosed, BeforeInsert, Callers
<1>1. ASSUME NEW c \in Callers, Register(c) PROVE CallInv'
  BY <1>1 DEF Register, MayStart, Goto
<1>2. ASSUME NEW c \in Callers, Insert(c) PROVE CallInv'
  BY <1>2 DEF Insert, MayStart, Goto
<1>3. ASSUME NEW c \in Callers, Write(c) PROVE CallInv'
  <2>1. CASE proc[stdin] = "running"
    <3>1. /\ pc' = [pc EXCEPT ![c] = "waiting"]
          /\ UNCHANGED <<pending, answer, senders>>
      BY <1>3, <2>1 DEF Write, Goto
    <3>2. pc[c] = "inserted"
      BY <1>3 DEF Write
    <3> QED
      BY <3>1, <3>2
  <2>2. CASE proc[stdin] # "running"
    <3>1. /\ pc' = [pc EXCEPT ![c] = IF c \in Requests THEN "err" ELSE "failed"]
          /\ pending' = pending \ {c}
          /\ UNCHANGED <<answer, senders>>
      BY <1>3, <2>2 DEF Write, Goto, Failing
    <3> QED
      BY <3>1
  <2> QED
    BY <2>1, <2>2
<1>4. ASSUME NEW c \in Callers, Receive(c) PROVE CallInv'
  <2>1. /\ pc[c] = "waiting" /\ answer[c] # "none" /\ c \notin pending
        /\ UNCHANGED <<pending, answer, senders>>
    BY <1>4 DEF Receive
  <2>2. PICK s \in {"err", "failed", "available", "ok"} :
           pc' = [pc EXCEPT ![c] = s] /\ (s = "err" => c \in Requests)
    BY <1>4 DEF Receive, Failing, Goto
  <2>3. \A d \in Callers : d # c => pc'[d] = pc[d]
    BY <2>2
  <2>4. pc'[c] = s
    BY <2>2
  <2> QED
    BY <2>1, <2>2, <2>3, <2>4
<1>5. ASSUME NEW c \in Callers, Timeout(c) PROVE CallInv'
  BY <1>5 DEF Timeout, Failing, Goto
<1>6. ASSUME NEW c \in Callers, Unregister(c) PROVE CallInv'
  BY <1>6 DEF Unregister, Goto
<1>7. ASSUME NEW r \in Restarters, Bump(r) PROVE CallInv'
  BY <1>7 DEF Bump, MayStart, Goto
<1>8. ASSUME NEW r \in Restarters, RestartRejects(r) PROVE CallInv'
  BY <1>8 DEF RestartRejects, RejectAll, Goto
<1>9. ASSUME NEW r \in Restarters, RestartClears(r) PROVE CallInv'
  BY <1>9 DEF RestartClears, Goto
<1>10. ASSUME NEW r \in Restarters, KillChild(r) PROVE CallInv'
  BY <1>10 DEF KillChild, Exit, Goto
<1>11. ASSUME NEW r \in Restarters, SpawnChild(r) PROVE CallInv'
  BY <1>11 DEF SpawnChild, Goto
<1>12. ASSUME NEW r \in Restarters, SetStdin(r) PROVE CallInv'
  BY <1>12 DEF SetStdin, Goto
<1>13. ASSUME NEW r \in Restarters, SetChild(r) PROVE CallInv'
  BY <1>13 DEF SetChild, Goto
<1>14. ASSUME NEW r \in Restarters, StoreStatus(r) PROVE CallInv'
  BY <1>14 DEF StoreStatus, Goto
<1>15. ASSUME NEW r \in Restarters, SetSlot(r) PROVE CallInv'
  BY <1>15 DEF SetSlot, Goto
<1>16. ASSUME NEW g \in Gens, ReadLine(g) PROVE CallInv'
  BY <1>16 DEF ReadLine
<1>17. ASSUME NEW g \in Gens, ReadEof(g) PROVE CallInv'
  BY <1>17 DEF ReadEof
<1>18. ASSUME NEW g \in Gens, CloseReject(g) PROVE CallInv'
  BY <1>18 DEF CloseReject, RejectAll
<1>19. ASSUME NEW g \in Gens, CloseClear(g) PROVE CallInv'
  BY <1>19 DEF CloseClear
<1>20. ASSUME NEW g \in Gens, NEW c \in Callers, Answer(g, c) PROVE CallInv'
  BY <1>20 DEF Answer
<1>21. ASSUME NEW g \in Gens, NEW c \in Callers, FinishRun(g, c) PROVE CallInv'
  BY <1>21 DEF FinishRun
<1>22. ASSUME NEW g \in Gens, ExitOnEof(g) PROVE CallInv'
  BY <1>22 DEF ExitOnEof, Exit
<1>23. ASSUME NEW g \in Gens, Crash(g) PROVE CallInv'
  BY <1>23 DEF Crash, Exit
<1>24. ASSUME NEW g \in Gens, BadLine(g) PROVE CallInv'
  BY <1>24 DEF BadLine
<1>25. CASE CheckStatus
  BY <1>25 DEF CheckStatus
<1>26. CASE DropClient
  BY <1>26 DEF DropClient, RejectAll, Exit
<1>27. CASE UNCHANGED vars
  BY <1>27
<1> HIDE DEF vars, clientVars, coreVars, callVars, TypeOK, CallInv,
      PendingIsOpen, RefusedIsClosed, BeforeInsert, Callers
<1> QED BY <1>1, <1>2, <1>3, <1>4, <1>5, <1>6, <1>7, <1>8, <1>9, <1>10,
      <1>11, <1>12, <1>13, <1>14, <1>15, <1>16, <1>17, <1>18, <1>19,
      <1>20, <1>21, <1>22, <1>23, <1>24, <1>25, <1>26, <1>27
      DEF Next, Call, Restart, Reader, Core

\* The types hold in the initial state, and the invariant with them.
LEMMA CoreInit ==
    Init => TypeOK /\ CallInv
<1>1. 1 \in Gens /\ 0 \in 0..MaxFaults
  BY ClientAssumption DEF Gens
<1>2. <<>> \in Seq(Lines)
  OBVIOUS
<1>3. Init => TypeOK
  BY <1>1, <1>2 DEF Init, TypeOK, ProcStates, ReaderStates, CallStates,
        RestartStates
<1>4. Init => CallInv
  BY DEF Init, CallInv, PendingIsOpen, RefusedIsClosed
<1> QED
  BY <1>3, <1>4

\* Every variable of the client, of the children and of the calls keeps its
\* type, however calls, restarts, readers and children interleave.
THEOREM CoreTypes == Spec => []TypeOK
<1> QED
  BY CoreInit, TypeStep, PTL DEF Spec

\* The invariant says of a call that has returned that its id is gone, and of
\* a refused reply that its channel is.
LEMMA CallInvSuffices ==
    CallInv => CallLeavesNothing
BY DEF CallInv, PendingIsOpen, RefusedIsClosed, CallLeavesNothing, Over,
       Callers

\* A call of the client (call, reply, restart's initialize) that has returned
\* has left no id in pending, and a refused reply no channel, whichever of
\* the reader, the timeout, the restart and the write error ended it.
THEOREM CallsLeaveNothing == Spec => []CallLeavesNothing
<1> QED
  BY CoreInit, TypeStep, CallStep, CallInvSuffices, PTL DEF Spec
=============================================================================
