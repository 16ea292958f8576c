------------------------- MODULE LeadershipProofs -------------------------
(***************************************************************************)
(* Theorems about Leadership, for every number of processes and every      *)
(* choice of the periods that ConstantsAssumption allows.                  *)
(***************************************************************************)
EXTENDS Leadership, TLAPS

\* A task is a pair of a generation and a kind.
LEMMA TaskParts ==
    ASSUME NEW t \in Task
    PROVE  t = <<t[1], t[2]>> /\ t[1] \in Gen /\ t[2] \in Kind
BY DEF Task

\* Entering withLeaderLock keeps the types of the task variables.
LEMMA EnterWaitType ==
    ASSUME TaskTypeOK, NEW t \in Task, EnterWait(t) PROVE TaskTypeOK'
<1>1. waited' \in [Task -> 0 .. LockTimeout]
  BY ConstantsAssumption DEF ConstantsAssumption, EnterWait, TaskTypeOK
<1>2. QED
  BY <1>1 DEF EnterWait, TaskTypeOK, Pc

\* Types of the process variables.
LEMMA ProcTypeStep ==
    ASSUME TypeOK, [Next]_vars PROVE ProcTypeOK'
<1> USE DEF TypeOK, ProcTypeOK, Phase, procVars, taskVars
<1>1. ASSUME NEW t \in Task, TaskStep(t) PROVE ProcTypeOK'
  <2>0. t = <<t[1], t[2]>> /\ t[1] \in Gen /\ t[2] \in Kind
    BY TaskParts
  <2>1. CASE Lock(t)
    BY <2>0, <2>1, ConstantsAssumption DEF Lock
  <2>2. CASE StatStale(t)
    BY <2>0, <2>2, ConstantsAssumption DEF StatStale
  <2>3. CASE Reap(t)
    BY <2>0, <2>3, ConstantsAssumption DEF Reap
  <2>4. CASE Timeout(t)
    BY <2>0, <2>4, ConstantsAssumption DEF Timeout, AfterCall
  <2>5. CASE Read(t)
    BY <2>0, <2>5, ConstantsAssumption DEF Read, ReadTakeover, ReadOwned
  <2>6. CASE Probe(t)
    BY <2>0, <2>6, ConstantsAssumption DEF Probe
  <2>7. CASE Write(t)
    BY <2>0, <2>7, ConstantsAssumption DEF Write, NextLease
  <2>8. CASE Unlock(t)
    BY <2>0, <2>8, ConstantsAssumption DEF Unlock, UnlockTakeover, UnlockRenew, UnlockRelease, AfterCall
  <2>9. QED
    BY <1>1, <2>1, <2>2, <2>3, <2>4, <2>5, <2>6, <2>7, <2>8 DEF TaskStep
<1>2. ASSUME NEW g \in Gen, ProcStep(g) \/ Crash(g) \/ Stall(g) \/ Resume(g)
      PROVE ProcTypeOK'
  <2>1. CASE Start(g)
    BY <2>1, ConstantsAssumption DEF Start, Listed
  <2>2. CASE Ready(g)
    BY <2>2, ConstantsAssumption DEF Ready
  <2>3. CASE BeginTakeover(g)
    BY <2>3, ConstantsAssumption DEF BeginTakeover, EnterWait
  <2>4. CASE Heartbeat(g)
    BY <2>4, ConstantsAssumption DEF Heartbeat, EnterWait
  <2>5. CASE Retire(g)
    BY <2>5, ConstantsAssumption DEF Retire, EnterWait
  <2>6. CASE Stop(g)
    BY <2>6, ConstantsAssumption DEF Stop
  <2>7. CASE StopForwarding(g)
    BY <2>7, ConstantsAssumption DEF StopForwarding
  <2>8. CASE BeginRelease(g)
    BY <2>8, ConstantsAssumption DEF BeginRelease, EnterWait
  <2>9. CASE Exit(g)
    BY <2>9, ConstantsAssumption DEF Exit
  <2>10. CASE Crash(g)
    BY <2>10, ConstantsAssumption DEF Crash
  <2>11. CASE Stall(g)
    BY <2>11, ConstantsAssumption DEF Stall
  <2>12. CASE Resume(g)
    BY <2>12, ConstantsAssumption DEF Resume
  <2>13. QED
    BY <1>2, <2>1, <2>2, <2>3, <2>4, <2>5, <2>6, <2>7, <2>8, <2>9, <2>10, <2>11, <2>12 DEF ProcStep
<1>3. CASE Tick
  BY <1>3, ConstantsAssumption DEF Tick, Up, Down
<1>4. CASE UNCHANGED vars
  BY <1>4, ConstantsAssumption DEF vars
<1>5. QED
  BY <1>1, <1>2, <1>3, <1>4 DEF Next

\* Types of the records, the lease and the lock.
LEMMA FileTypeStep ==
    ASSUME TypeOK, [Next]_vars PROVE FileTypeOK'
<1> USE DEF TypeOK, FileTypeOK, Absent, ConstantsAssumption, procVars, taskVars
<1>1. ASSUME NEW t \in Task, TaskStep(t) PROVE FileTypeOK'
  <2>0. t = <<t[1], t[2]>> /\ t[1] \in Gen /\ t[2] \in Kind
    BY TaskParts
  <2>1. CASE Lock(t)
    BY <2>0, <2>1, ConstantsAssumption DEF Lock
  <2>2. CASE StatStale(t)
    BY <2>0, <2>2, ConstantsAssumption DEF StatStale
  <2>3. CASE Reap(t)
    <3>1. UNCHANGED <<record, pruning, beatAge, lease>>
      BY <2>3 DEF Reap
    <3>2. lockAge' \in 0 .. LockStale
      BY <2>3, ConstantsAssumption DEF Reap
    <3>3. lockDir' \in BOOLEAN
      BY <2>3 DEF Reap
    <3>4. QED
      BY <3>1, <3>2, <3>3
  <2>4. CASE Timeout(t)
    BY <2>0, <2>4, ConstantsAssumption DEF Timeout, AfterCall
  <2>5. CASE Read(t)
    BY <2>0, <2>5, ConstantsAssumption DEF Read, ReadTakeover, ReadOwned
  <2>6. CASE Probe(t)
    BY <2>0, <2>6, ConstantsAssumption DEF Probe
  <2>7. CASE Write(t)
    <3>1. UNCHANGED <<record, pruning, beatAge, lockDir, lockAge>>
      BY <2>7 DEF Write
    <3>2. age[t] \in 0 .. LeaderTtl
      BY DEF TaskTypeOK
    <3>3. lease' \in [gen : Gen \cup {None}, ttl : 0 .. LeaderTtl]
      BY <2>0, <2>7, <3>2, ConstantsAssumption DEF Write, NextLease
    <3>4. QED
      BY <3>1, <3>3
  <2>8. CASE Unlock(t)
    <3>1. UNCHANGED <<pruning, beatAge, lease>> /\ lockDir' = FALSE /\ lockAge' = 0
      BY <2>8 DEF Unlock
    <3>2. \/ UNCHANGED record
          \/ record' = [record EXCEPT ![t[1]] = GenTtl]
          \/ record' = [record EXCEPT ![t[1]] = Absent]
      BY <2>8 DEF Unlock, UnlockTakeover, UnlockRenew, UnlockRelease
    <3>3. record' \in [Gen -> Absent .. GenTtl]
      BY <2>0, <3>2, ConstantsAssumption
    <3>4. lockAge' \in 0 .. LockStale
      BY <3>1, ConstantsAssumption
    <3>5. lockDir' \in BOOLEAN
      BY <3>1
    <3>6. QED
      BY <3>1, <3>3, <3>4, <3>5
  <2>9. QED
    BY <1>1, <2>1, <2>2, <2>3, <2>4, <2>5, <2>6, <2>7, <2>8 DEF TaskStep
<1>2. ASSUME NEW g \in Gen, ProcStep(g) \/ Crash(g) \/ Stall(g) \/ Resume(g)
      PROVE FileTypeOK'
  <2>1. CASE Start(g)
    BY <2>1, ConstantsAssumption DEF Start, Listed
  <2>2. CASE Ready(g)
    BY <2>2, ConstantsAssumption DEF Ready
  <2>3. CASE BeginTakeover(g)
    BY <2>3, ConstantsAssumption DEF BeginTakeover, EnterWait
  <2>4. CASE Heartbeat(g)
    BY <2>4, ConstantsAssumption DEF Heartbeat, EnterWait
  <2>5. CASE Retire(g)
    BY <2>5, ConstantsAssumption DEF Retire, EnterWait
  <2>6. CASE Stop(g)
    BY <2>6, ConstantsAssumption DEF Stop
  <2>7. CASE StopForwarding(g)
    BY <2>7, ConstantsAssumption DEF StopForwarding
  <2>8. CASE BeginRelease(g)
    BY <2>8, ConstantsAssumption DEF BeginRelease, EnterWait
  <2>9. CASE Exit(g)
    BY <2>9, ConstantsAssumption DEF Exit
  <2>10. CASE Crash(g)
    BY <2>10, ConstantsAssumption DEF Crash
  <2>11. CASE Stall(g)
    BY <2>11, ConstantsAssumption DEF Stall
  <2>12. CASE Resume(g)
    BY <2>12, ConstantsAssumption DEF Resume
  <2>13. QED
    BY <1>2, <2>1, <2>2, <2>3, <2>4, <2>5, <2>6, <2>7, <2>8, <2>9, <2>10, <2>11, <2>12 DEF ProcStep
<1>3. CASE Tick
  BY <1>3, ConstantsAssumption DEF Tick, Up, Down
<1>4. CASE UNCHANGED vars
  BY <1>4, ConstantsAssumption DEF vars
<1>5. QED
  BY <1>1, <1>2, <1>3, <1>4 DEF Next

\* Types of the task variables.
LEMMA TaskTypeStep ==
    ASSUME TypeOK, [Next]_vars PROVE TaskTypeOK'
<1> USE DEF TypeOK, TaskTypeOK, Pc, Kind, ConstantsAssumption, procVars, taskVars
<1>1. ASSUME NEW t \in Task, TaskStep(t) PROVE TaskTypeOK'
  <2>0. t = <<t[1], t[2]>> /\ t[1] \in Gen /\ t[2] \in Kind
    BY TaskParts
  <2>1. CASE Lock(t)
    BY <2>0, <2>1, ConstantsAssumption DEF Lock
  <2>2. CASE StatStale(t)
    BY <2>0, <2>2, ConstantsAssumption DEF StatStale
  <2>3. CASE Reap(t)
    BY <2>0, <2>3, ConstantsAssumption DEF Reap
  <2>4. CASE Timeout(t)
    BY <2>0, <2>4, ConstantsAssumption DEF Timeout, AfterCall
  <2>5. CASE Read(t)
    <3>1. UNCHANGED waited /\ (UNCHANGED ok \/ ok' = [ok EXCEPT ![t] = FALSE])
      BY <2>5 DEF Read, ReadTakeover, ReadOwned
    <3>2. \E p \in Pc : pc' = [pc EXCEPT ![t] = p]
      BY <2>5 DEF Read, ReadTakeover, ReadOwned
    <3>3. seen' \in [Task -> Gen \cup {None}] /\ age' \in [Task -> 0 .. LeaderTtl]
      BY <2>5, ConstantsAssumption DEF Read, FileTypeOK
    <3>4. QED
      BY <3>1, <3>2, <3>3
  <2>6. CASE Probe(t)
    BY <2>0, <2>6, ConstantsAssumption DEF Probe
  <2>7. CASE Write(t)
    BY <2>0, <2>7, ConstantsAssumption DEF Write, NextLease
  <2>8. CASE Unlock(t)
    BY <2>0, <2>8, ConstantsAssumption DEF Unlock, UnlockTakeover, UnlockRenew, UnlockRelease, AfterCall
  <2>9. QED
    BY <1>1, <2>1, <2>2, <2>3, <2>4, <2>5, <2>6, <2>7, <2>8 DEF TaskStep
<1>2. ASSUME NEW g \in Gen, ProcStep(g) \/ Crash(g) \/ Stall(g) \/ Resume(g)
      PROVE TaskTypeOK'
  <2>1. CASE Start(g)
    BY <2>1, ConstantsAssumption DEF Start, Listed
  <2>2. CASE Ready(g)
    BY <2>2, ConstantsAssumption DEF Ready
  <2>3. CASE BeginTakeover(g)
    BY <2>3, EnterWaitType DEF BeginTakeover, Task
  <2>4. CASE Heartbeat(g)
    BY <2>4, ConstantsAssumption DEF Heartbeat, EnterWait
  <2>5. CASE Retire(g)
    BY <2>5, EnterWaitType DEF Retire, Task
  <2>6. CASE Stop(g)
    BY <2>6, ConstantsAssumption DEF Stop
  <2>7. CASE StopForwarding(g)
    BY <2>7, ConstantsAssumption DEF StopForwarding
  <2>8. CASE BeginRelease(g)
    BY <2>8, EnterWaitType DEF BeginRelease, Task
  <2>9. CASE Exit(g)
    BY <2>9, ConstantsAssumption DEF Exit
  <2>10. CASE Crash(g)
    <3>1. pc' \in [Task -> Pc] /\ seen' \in [Task -> Gen \cup {None}] /\ ok' \in [Task -> BOOLEAN]
      BY <2>10 DEF Crash
    <3>2. waited' \in [Task -> 0 .. LockTimeout] /\ age' \in [Task -> 0 .. LeaderTtl]
      BY <2>10, ConstantsAssumption DEF Crash
    <3>3. QED
      BY <3>1, <3>2
  <2>11. CASE Stall(g)
    BY <2>11, ConstantsAssumption DEF Stall
  <2>12. CASE Resume(g)
    BY <2>12, ConstantsAssumption DEF Resume
  <2>13. QED
    BY <1>2, <2>1, <2>2, <2>3, <2>4, <2>5, <2>6, <2>7, <2>8, <2>9, <2>10, <2>11, <2>12 DEF ProcStep
<1>3. CASE Tick
  BY <1>3, ConstantsAssumption DEF Tick, Up, Down
<1>4. CASE UNCHANGED vars
  BY <1>4, ConstantsAssumption DEF vars
<1>5. QED
  BY <1>1, <1>2, <1>3, <1>4 DEF Next

\* The initial values have their types.
LEMMA InitType ==
    ASSUME Init PROVE TypeOK
<1>1. ProcTypeOK
  BY ConstantsAssumption DEF ConstantsAssumption, Init, ProcTypeOK, Phase
<1>2. FileTypeOK
  <2>1. lockDir \in BOOLEAN
    BY DEF Init
  <2>2. QED
    BY <2>1, ConstantsAssumption
    DEF ConstantsAssumption, Init, FileTypeOK, Absent
<1>3. pc \in [Task -> Pc]
  BY DEF Init, Pc
<1>4. seen \in [Task -> Gen \cup {None}] /\ ok \in [Task -> BOOLEAN]
  BY DEF Init
<1>5. TaskTypeOK
  BY <1>3, <1>4, ConstantsAssumption DEF ConstantsAssumption, Init, TaskTypeOK
<1>6. QED
  BY <1>1, <1>2, <1>5 DEF TypeOK

\* Every variable keeps its type.
THEOREM TypeCorrect == Spec => []TypeOK
<1>1. Init => TypeOK
  BY InitType
<1>2. TypeOK /\ [Next]_vars => TypeOK'
  BY ProcTypeStep, FileTypeStep, TaskTypeStep DEF TypeOK
<1>3. QED
  BY <1>1, <1>2, PTL DEF Spec

\* The parts of every task, as one fact.
LEMMA Tasks ==
    /\ \A t \in Task : t = <<t[1], t[2]>> /\ t[1] \in Gen /\ t[2] \in Kind
    /\ \A g \in Gen, k \in Kind : <<g, k>> \in Task /\ <<g, k>>[1] = g /\ <<g, k>>[2] = k
BY DEF Task

\* When time passes no task is inside withLeaderLock or waits for it.
LEMMA QuietTick ==
    ASSUME TypeOK, LockInv, Tick
    PROVE  /\ \A t \in Task : pc[t] \in {"idle", "sleep"}
           /\ ~lockDir
<1> USE DEF LockInv, Critical, InLock
<1>1. \A g \in Gen : Alive(g) => Settled(g)
  BY DEF Tick
<1>2. ASSUME NEW t \in Task, Critical(t) PROVE FALSE
  <2>1. Settled(t[1])
    BY <1>1, <1>2, Tasks
  <2>2. pc[<<t[1], t[2]>>] \in {"idle", "sleep", "wait"}
    BY <2>1, Tasks DEF Settled
  <2>3. QED
    BY <2>2, <1>2, Tasks
<1>3. ~lockDir
  BY <1>2
<1>4. ASSUME NEW t \in Task PROVE pc[t] \in {"idle", "sleep"}
  <2>1. CASE Alive(t[1])
    <3>1. Settled(t[1])
      BY <1>1, <2>1, Tasks
    <3>2. pc[<<t[1], t[2]>>] \in {"idle", "sleep"}
      BY <3>1, <1>3, Tasks DEF Settled, Orphaned
    <3>3. QED
      BY <3>2, Tasks
  <2>2. CASE ~Alive(t[1])
    BY <2>2
  <2>3. QED
    BY <2>1, <2>2
<1>5. QED
  BY <1>3, <1>4

\* A task that starts to wait does not disturb the lock.
LEMMA EnterWaitLock ==
    ASSUME TypeOK, LockInv, NEW t \in Task, EnterWait(t), pc[t] = "idle",
           Alive(t[1])', phase'[t[1]] # "starting",
           \A g \in Gen : /\ Alive(g) => Alive(g)'
                          /\ phase[g] # "starting" => phase'[g] # "starting",
           UNCHANGED <<stalls, stalled, lockDir, lockAge>>
    PROVE  LockInv'
<1> USE DEF LockInv, TypeOK, TaskTypeOK, ProcTypeOK, Critical, InLock, LockExcludes
<1>1. \A u \in Task : pc'[u] = IF u = t THEN "wait" ELSE pc[u]
  BY DEF EnterWait
<1>2. \A u \in Task : pc'[u] # "reap" /\ waited'[u] = 0 /\ age'[u] = 0
  BY <1>1 DEF EnterWait
<1>3. ASSUME NEW u \in Task PROVE Critical(u)' <=> Critical(u)
  BY <1>1
<1>4. ASSUME NEW u \in Task, pc'[u] \notin {"idle", "sleep"}
      PROVE  Alive(u[1])' /\ phase'[u[1]] # "starting"
  BY <1>1, <1>4, Tasks
<1>5. QED
  BY <1>2, <1>3, <1>4

\* LockInv is inductive.
LEMMA LockStep ==
    ASSUME TypeOK, LockInv, TaskInv, "crashInLock" \notin Events, [Next]_vars PROVE LockInv'
<1> USE DEF TypeOK, ProcTypeOK, TaskTypeOK, Pc, Phase, Kind, LockInv, LockExcludes, Critical, InLock, Alive, procVars, taskVars
<1>1. ASSUME NEW t \in Task, TaskStep(t) PROVE LockInv'
  <2>0. t = <<t[1], t[2]>> /\ t[1] \in Gen /\ t[2] \in Kind
    BY TaskParts
  <2>1. CASE Lock(t)
    BY <2>0, <2>1 DEF Lock
  <2>2. CASE StatStale(t)
    BY <2>2, ConstantsAssumption DEF StatStale, ConstantsAssumption
  <2>3. CASE Reap(t)
    BY <2>0, <2>3 DEF Reap
  <2>4. CASE Timeout(t)
    BY <2>0, <2>4 DEF Timeout, AfterCall
  <2>5. CASE Read(t)
    BY <2>0, <2>5 DEF Read, ReadTakeover, ReadOwned
  <2>6. CASE Probe(t)
    BY <2>0, <2>6 DEF Probe
  <2>7. CASE Write(t)
    BY <2>0, <2>7 DEF Write, NextLease
  <2>8. CASE Unlock(t)
    <3>1. /\ lockDir' = FALSE /\ lockAge' = 0
          /\ pc' = [pc EXCEPT ![t] = AfterCall(t)] /\ AfterCall(t) \in {"idle", "sleep"}
          /\ age' = [age EXCEPT ![t] = 0]
          /\ UNCHANGED <<stalled, stalls, waited>>
      BY <2>8 DEF Unlock, AfterCall
    <3>3. \A u \in Task : u # t => pc'[u] = pc[u]
      BY <3>1
    <3>2. \A u \in Task : ~Critical(u)'
      <4>1. Critical(t)
        BY <2>8 DEF Unlock
      <4>2. pc'[t] \notin InLock
        BY <3>1
      <4>3. QED
        BY <3>3, <4>1, <4>2
    <3>4. \A g \in Gen : /\ Alive(g) => Alive(g)'
                         /\ phase[g] # "starting" => phase'[g] # "starting"
      <4>1. UNCHANGED phase \/ phase' = [phase EXCEPT ![t[1]] = "released"]
        BY <2>8 DEF Unlock, UnlockTakeover, UnlockRenew, UnlockRelease
      <4>2. QED
        BY <4>1, <2>0
    <3>5. \A u \in Task : pc'[u] \notin {"idle", "sleep"}
                            => Alive(u[1])' /\ phase'[u[1]] # "starting"
      BY <3>1, <3>3, <3>4, Tasks
    <3>6. \A u \in Task : pc'[u] # "reap" /\ waited'[u] = 0 /\ age'[u] = 0
      BY <3>1, <3>3
    <3>7. QED
      BY <3>1, <3>2, <3>5, <3>6
  <2>9. QED
    BY <1>1, <2>1, <2>2, <2>3, <2>4, <2>5, <2>6, <2>7, <2>8 DEF TaskStep
<1>2. ASSUME NEW g \in Gen, ProcStep(g) \/ Crash(g) \/ Stall(g) \/ Resume(g)
      PROVE LockInv'
  <2>1. CASE Start(g)
    BY <2>1 DEF Start, Listed
  <2>2. CASE Ready(g)
    BY <2>2, Tasks DEF Ready
  <2>3. CASE BeginTakeover(g)
    <3>1. <<g, "takeover">> \in Task /\ <<g, "takeover">>[1] = g
      BY Tasks DEF Kind
    <3>2. QED
      BY <2>3, <3>1, EnterWaitLock DEF BeginTakeover
  <2>4. CASE Heartbeat(g)
    <3>1. <<g, "renew">> \in Task /\ <<g, "renew">>[1] = g
      BY Tasks DEF Kind
    <3>2. CASE UNCHANGED taskVars
      BY <2>4, <3>2 DEF Heartbeat
    <3>3. CASE EnterWait(<<g, "renew">>) /\ pc[<<g, "renew">>] = "idle"
      BY <2>4, <3>1, <3>3, EnterWaitLock DEF Heartbeat
    <3>4. QED
      BY <2>4, <3>2, <3>3 DEF Heartbeat
  <2>5. CASE Retire(g)
    <3>1. <<g, "release">> \in Task /\ <<g, "release">>[1] = g
      BY Tasks DEF Kind
    <3>2. QED
      BY <2>5, <3>1, EnterWaitLock DEF Retire, TaskInv
  <2>6. CASE Stop(g)
    BY <2>6 DEF Stop
  <2>7. CASE StopForwarding(g)
    BY <2>7 DEF StopForwarding
  <2>8. CASE BeginRelease(g)
    <3>1. <<g, "release">> \in Task /\ <<g, "release">>[1] = g
      BY Tasks DEF Kind
    <3>2. QED
      BY <2>8, <3>1, EnterWaitLock DEF BeginRelease
  <2>9. CASE Exit(g)
    <3>1. ASSUME NEW u \in Task, u[1] = g PROVE pc[u] \in {"idle", "sleep"}
      <4>1. u = <<g, u[2]>> /\ u[2] \in Kind
        BY <3>1, Tasks
      <4>2. pc[<<g, u[2]>>] \in {"idle", "sleep"}
        BY <2>9, <4>1 DEF Exit
      <4>3. QED
        BY <4>1, <4>2
    <3>2. \A u \in Task : pc[u] \notin {"idle", "sleep"}
                            => Alive(u[1])' /\ phase'[u[1]] # "starting"
      BY <2>9, <3>1, Tasks DEF Exit
    <3>3. QED
      BY <2>9, <3>2 DEF Exit
  <2>10. CASE Crash(g)
    <3>1. ASSUME NEW u \in Task, u[1] = g PROVE ~Critical(u)
      <4>1. u = <<g, u[2]>> /\ u[2] \in Kind
        BY <3>1, Tasks
      <4>2. ~Critical(<<g, u[2]>>)
        BY <2>10, <4>1 DEF Crash
      <4>3. QED
        BY <4>1, <4>2
    <3>2. \A u \in Task : pc'[u] = IF u[1] = g THEN "idle" ELSE pc[u]
      BY <2>10 DEF Crash
    <3>3. ASSUME NEW u \in Task PROVE Critical(u)' <=> Critical(u)
      BY <3>1, <3>2
    <3>4. \A u \in Task : pc'[u] \notin {"idle", "sleep"}
                            => Alive(u[1])' /\ phase'[u[1]] # "starting"
      BY <2>10, <3>2, Tasks DEF Crash
    <3>5. \A u \in Task : pc'[u] # "reap" /\ waited'[u] = 0 /\ age'[u] = 0
      BY <2>10, <3>2 DEF Crash
    <3>6. \A h \in Gen : ~stalled'[h]
      BY <2>10 DEF Crash
    <3>7. stalls' = stalls /\ lockAge' = lockAge /\ lockDir' = lockDir
      BY <2>10 DEF Crash
    <3>8. QED
      BY <3>3, <3>4, <3>5, <3>6, <3>7
  <2>11. CASE Stall(g)
    BY <2>11 DEF Stall
  <2>12. CASE Resume(g)
    BY <2>12 DEF Resume
  <2>13. QED
    BY <1>2, <2>1, <2>2, <2>3, <2>4, <2>5, <2>6, <2>7, <2>8, <2>9, <2>10, <2>11, <2>12 DEF ProcStep
<1>3. CASE Tick
  <2>1. \A t \in Task : pc'[t] = "idle" /\ waited'[t] = waited[t] /\ age'[t] = age[t]
    BY <1>3, QuietTick DEF Tick
  <2>2. QED
    BY <1>3, <2>1, QuietTick DEF Tick
<1>4. CASE UNCHANGED vars
  BY <1>4 DEF vars
<1>5. QED
  BY <1>1, <1>2, <1>3, <1>4 DEF Next

\* RecordInv is inductive.
LEMMA RecordStep ==
    ASSUME TypeOK, LockInv, TaskInv, RecordInv, LeaseInv,
           "probeFails" \notin Events, [Next]_vars PROVE RecordInv'
<1> USE DEF RecordInv, TypeOK, ProcTypeOK, FileTypeOK, Phase, Absent, procVars, taskVars
<1>1. ASSUME NEW t \in Task, TaskStep(t) PROVE RecordInv'
  <2>0. t = <<t[1], t[2]>> /\ t[1] \in Gen /\ t[2] \in Kind
    BY TaskParts
  <2>1. CASE Lock(t)
    BY <2>0, <2>1 DEF Lock
  <2>2. CASE StatStale(t)
    BY <2>0, <2>2 DEF StatStale
  <2>3. CASE Reap(t)
    BY <2>0, <2>3 DEF Reap
  <2>4. CASE Timeout(t)
    BY <2>0, <2>4 DEF Timeout, AfterCall
  <2>5. CASE Read(t)
    BY <2>0, <2>5 DEF Read, ReadTakeover, ReadOwned
  <2>6. CASE Probe(t)
    BY <2>0, <2>6 DEF Probe
  <2>7. CASE Write(t)
    BY <2>0, <2>7 DEF Write, NextLease
  <2>8. CASE Unlock(t)
    <3>1. Alive(t[1]) /\ phase[t[1]] # "starting"
      BY <2>8, <2>0 DEF Unlock, LockInv
    <3>2. UNCHANGED <<endpoint, beatAge, pruning, retiring>>
      BY <2>8 DEF Unlock
    <3>3. /\ \/ UNCHANGED leader
             \/ \E b \in BOOLEAN : leader' = [leader EXCEPT ![t[1]] = b]
          /\ \/ UNCHANGED <<phase, record>>
             \/ UNCHANGED phase /\ record' = [record EXCEPT ![t[1]] = GenTtl]
             \/ /\ phase[t[1]] = "releasing"
                /\ phase' = [phase EXCEPT ![t[1]] = "released"]
                /\ record' = [record EXCEPT ![t[1]] = Absent]
      BY <2>8, <2>0 DEF Unlock, UnlockTakeover, UnlockRenew, UnlockRelease, TaskTypeOK
    <3>4. \A g \in Gen : g # t[1] => leader'[g] = leader[g]
      BY <3>3, <2>0
    <3>5. QED
      BY <2>0, <3>1, <3>2, <3>3, <3>4, ConstantsAssumption DEF Alive, ConstantsAssumption
  <2>9. QED
    BY <1>1, <2>1, <2>2, <2>3, <2>4, <2>5, <2>6, <2>7, <2>8 DEF TaskStep
<1>2. ASSUME NEW g \in Gen, ProcStep(g) \/ Crash(g) \/ Stall(g) \/ Resume(g)
      PROVE RecordInv'
  <2>1. CASE Start(g)
    <3>1. PICK stale \in SUBSET Listed :
            /\ \A h \in stale : RecordLive(h) => FALSE \in ProbeAnswers(h)
            /\ pruning' = [pruning EXCEPT ![g] = stale]
      BY <2>1 DEF Start
    <3>2. ASSUME NEW x \in stale PROVE phase[x] \notin {"off", "starting", "up"}
      <4>1. x \in Gen /\ record[x] # Absent
        BY DEF Listed
      <4>2. CASE phase[x] = "up"
        <5>1. record[x] + beatAge[x] >= GenTtl /\ endpoint[x]
          BY <4>1, <4>2
        <5>2. record[x] > 0
          BY <4>1, <5>1, ConstantsAssumption DEF ConstantsAssumption
        <5>3. RecordLive(x) /\ ProbeAnswers(x) = {TRUE}
          BY <4>1, <4>2, <5>1, <5>2 DEF RecordLive, ProbeAnswers, Alive, LockInv
        <5>4. QED
          BY <3>1, <5>3
      <4>3. QED
        BY <4>1, <4>2
    <3>3. phase[g] = "off" /\ phase' = [phase EXCEPT ![g] = "starting"]
          /\ endpoint' = [endpoint EXCEPT ![g] = TRUE]
          /\ UNCHANGED <<record, beatAge, leader, retiring>>
      BY <2>1 DEF Start
    <3>4. \A x, h \in Gen : x \in pruning'[h] => phase'[x] \notin {"off", "starting", "up"}
      BY <3>1, <3>2, <3>3 DEF Listed
    <3>5. QED
      BY <3>3, <3>4
  <2>2. CASE Ready(g)
    <3>1. /\ phase[g] = "starting" /\ phase' = [phase EXCEPT ![g] = "up"]
          /\ \A h \in Gen : record'[h] = IF h = g THEN GenTtl
                              ELSE IF h \in pruning[g] THEN Absent ELSE record[h]
          /\ pruning' = [pruning EXCEPT ![g] = {}]
          /\ beatAge' = [beatAge EXCEPT ![g] = 0]
          /\ UNCHANGED <<endpoint, leader, retiring>>
      BY <2>2 DEF Ready
    <3>2. \A x, h \in Gen : x \in pruning'[h] => phase'[x] \notin {"off", "starting", "up"}
      BY <3>1
    <3>3. ASSUME NEW x \in Gen
          PROVE  /\ phase'[x] \in {"off", "starting"} => record'[x] = Absent /\ ~leader'[x]
                 /\ phase'[x] = "starting" => endpoint'[x]
                 /\ phase'[x] = "up" => endpoint'[x] /\ record'[x] + beatAge'[x] >= GenTtl
      <4>1. CASE x = g
        BY <3>1, <4>1, ConstantsAssumption DEF ConstantsAssumption
      <4>2. CASE x # g
        BY <3>1, <4>2
      <4>3. QED
        BY <4>1, <4>2
    <3>4. \A x \in Gen : phase'[x] \in {"stopping", "closing", "releasing"} => retiring'[x]
      BY <3>1
    <3>5. QED
      BY <3>2, <3>3, <3>4
  <2>3. CASE BeginTakeover(g)
    BY <2>3 DEF BeginTakeover, EnterWait
  <2>4. CASE Heartbeat(g)
    <3>1. /\ phase[g] \notin {"off", "starting"}
          /\ record' = [record EXCEPT ![g] = GenTtl]
          /\ beatAge' = [beatAge EXCEPT ![g] = 0]
          /\ UNCHANGED <<phase, leader, retiring, endpoint, pruning>>
      BY <2>4 DEF Heartbeat
    <3>2. QED
      BY <3>1, ConstantsAssumption DEF ConstantsAssumption
  <2>5. CASE Retire(g)
    BY <2>5 DEF Retire, EnterWait
  <2>6. CASE Stop(g)
    BY <2>6 DEF Stop
  <2>7. CASE StopForwarding(g)
    BY <2>7 DEF StopForwarding
  <2>8. CASE BeginRelease(g)
    BY <2>8 DEF BeginRelease, EnterWait
  <2>9. CASE Exit(g)
    BY <2>9 DEF Exit
  <2>10. CASE Crash(g)
    BY <2>10 DEF Crash
  <2>11. CASE Stall(g)
    BY <2>11 DEF Stall
  <2>12. CASE Resume(g)
    BY <2>12 DEF Resume
  <2>13. QED
    BY <1>2, <2>1, <2>2, <2>3, <2>4, <2>5, <2>6, <2>7, <2>8, <2>9, <2>10, <2>11, <2>12 DEF ProcStep
<1>3. CASE Tick
  BY <1>3, ConstantsAssumption DEF Tick, Up, Down, Settled, Alive, LockInv, ConstantsAssumption
<1>4. CASE UNCHANGED vars
  BY <1>4 DEF vars
<1>5. QED
  BY <1>1, <1>2, <1>3, <1>4 DEF Next

\* A leader owns a live lease, has a live record, and answers probes.
LEMMA LedIsLive ==
    ASSUME TypeOK, LockInv, RecordInv, LeaseInv, "probeFails" \notin Events,
           NEW g \in Gen, Led(g)
    PROVE  /\ lease.gen = g /\ lease.ttl > 0 /\ LeaseLive /\ RecordLive(g)
           /\ ProbeAnswers(g) = {TRUE}
<1> USE ConstantsAssumption
    DEF TypeOK, FileTypeOK, ProcTypeOK, Led, Absent, ConstantsAssumption
<1>1. lease.gen = g /\ lease.ttl > 0
  <2>1. beatAge[g] \in 0 .. HeartbeatPeriod /\ lease.ttl \in 0 .. LeaderTtl
    OBVIOUS
  <2>2. /\ lease.gen = g
        /\ \/ lease.ttl + beatAge[g] >= LeaderTtl
           \/ lease.ttl + HeartbeatPeriod >= LeaderTtl
    BY DEF LeaseInv, LeaseFresh
  <2>3. QED
    BY <2>1, <2>2
<1>2. Alive(g) /\ endpoint[g] /\ ~stalled[g]
  BY DEF Alive, RecordInv, LockInv
<1>3. record[g] > 0
  BY DEF RecordInv
<1>4. lease.gen # None
  BY <1>1
<1>5. QED
  BY <1>1, <1>2, <1>3, <1>4 DEF LeaseLive, RecordLive, ProbeAnswers

\* Only one task is inside withLeaderLock: the others have no obligations.
LEMMA OthersIdle ==
    ASSUME LockInv, NEW t \in Task, Critical(t), NEW u \in Task, u # t
    PROVE  pc[u] \notin InLock
BY DEF LockInv, LockExcludes, Critical

\* TaskInv is inductive.
LEMMA TaskStepInv ==
    ASSUME TypeOK, LockInv, TaskInv, RecordInv, LeaseInv,
           "probeFails" \notin Events, [Next]_vars PROVE TaskInv'
<1> USE DEF TaskInv, WriteOfWhatWasRead, TypeOK, ProcTypeOK, FileTypeOK, TaskTypeOK, Pc, Kind, Led, procVars, taskVars
<1>1. ASSUME NEW t \in Task, TaskStep(t) PROVE TaskInv'
  <2>0. t = <<t[1], t[2]>> /\ t[1] \in Gen /\ t[2] \in Kind
    BY TaskParts
  <2>1. CASE Lock(t)
    BY <2>0, <2>1, Tasks DEF Lock
  <2>2. CASE StatStale(t)
    BY <2>0, <2>2, Tasks DEF StatStale
  <2>3. CASE Reap(t)
    BY <2>0, <2>3, Tasks DEF Reap
  <2>4. CASE Timeout(t)
    BY <2>0, <2>4, Tasks DEF Timeout, AfterCall
  <2>5. CASE Read(t)
    <3>0. Critical(t) /\ \A u \in Task : u # t => pc[u] \notin InLock
      BY <2>5, OthersIdle DEF Read, Critical, InLock
    <3>1. /\ seen' = [seen EXCEPT ![t] = lease.gen]
          /\ UNCHANGED <<phase, leader, retiring, lease>>
          /\ \A u \in Task : u # t => pc'[u] = pc[u]
      BY <2>5 DEF Read, ReadTakeover, ReadOwned
    <3>2. /\ pc'[t] \in {"write", "probe", "unlock"}
          /\ pc'[t] = "unlock" => t[2] # "takeover"
          /\ pc'[t] = "write" /\ t[2] # "takeover" => lease.gen = t[1]
          /\ pc'[t] = "write" /\ t[2] = "takeover"
               => ~(LeaseLive /\ RecordLive(lease.gen))
      BY <2>5 DEF Read, ReadTakeover, ReadOwned
    <3>3. ASSUME NEW g \in Gen, Led(g), pc'[t] = "write", t[2] = "takeover"
          PROVE  g = t[1]
      BY <3>2, <3>3, LedIsLive
    <3>4. t[2] = "release" => retiring[t[1]]
      BY <2>5 DEF Read
    <3>5. seen'[t] = lease'.gen
      BY <3>1
    <3>6. ASSUME NEW u \in Task, u # t
          PROVE  pc'[u] = pc[u] /\ pc[u] \notin {"probe", "write", "unlock"}
      BY <3>0, <3>1, <3>6 DEF InLock
    <3>7. \A h \in Gen : Led(h)' <=> Led(h)
      BY <3>1
    <3>8. pc[t] = "read"
      BY <2>5 DEF Read
    <3>9. ASSUME NEW u \in Task
          PROVE  /\ pc'[u] \in {"probe", "write"} => lease'.gen = seen'[u]
                 /\ pc'[u] = "probe" => u[2] = "takeover"
                 /\ pc'[u] = "write" /\ u[2] # "takeover" => lease'.gen = u[1]
                 /\ pc'[u] # "idle" /\ u[2] = "release" => retiring'[u[1]]
      <4>1. CASE u = t
        <5>1. pc'[t] = "probe" => t[2] = "takeover"
          BY <2>5 DEF Read, ReadTakeover, ReadOwned
        <5>2. QED
          BY <4>1, <5>1, <3>1, <3>2, <3>4, <3>5
      <4>2. CASE u # t
        BY <4>2, <3>1, <3>6
      <4>3. QED
        BY <4>1, <4>2
    <3>10. ASSUME NEW u \in Task, pc'[u] = "write", u[2] = "takeover", NEW h \in Gen,
                 Led(h)'
           PROVE h = u[1]
      BY <3>3, <3>6, <3>7, <3>10
    <3>11. \A u \in Task : ~(pc'[u] = "unlock" /\ u[2] = "takeover")
      BY <3>2, <3>6
    <3>12. QED
      BY <3>9, <3>10, <3>11
  <2>6. CASE Probe(t)
    <3>0. Critical(t) /\ \A u \in Task : u # t => pc[u] \notin InLock
      BY <2>6, OthersIdle DEF Probe, Critical, InLock
    <3>1. /\ UNCHANGED <<phase, leader, retiring, lease, seen>>
          /\ \A u \in Task : u # t => pc'[u] = pc[u]
          /\ ok'[t] = FALSE
      BY <2>6 DEF Probe
    <3>2. lease.gen = seen[t]
      BY <2>6 DEF Probe
    <3>3. PICK answer \in ProbeAnswers(seen[t]) :
            pc'[t] = IF answer /\ seen[t] # t[1] THEN "unlock" ELSE "write"
      BY <2>6 DEF Probe
    <3>4. ASSUME NEW g \in Gen, Led(g), pc'[t] = "write"
          PROVE  g = t[1]
      <4>1. seen[t] = g /\ ProbeAnswers(g) = {TRUE}
        BY <3>2, <3>4, LedIsLive
      <4>2. QED
        BY <3>3, <3>4, <4>1
    <3>5. t[2] = "takeover"
      BY <2>6 DEF Probe
    <3>6. QED
      BY <3>0, <3>1, <3>2, <3>3, <3>4, <3>5 DEF InLock
  <2>7. CASE Write(t)
    <3>0. Critical(t) /\ \A u \in Task : u # t => pc[u] \notin InLock
      BY <2>7, OthersIdle DEF Write, Critical, InLock
    <3>1. /\ lease' = NextLease(t)
          /\ pc'[t] = "unlock"
          /\ \A u \in Task : u # t => pc'[u] = pc[u]
          /\ UNCHANGED <<phase, leader, retiring, seen>>
      BY <2>7 DEF Write
    <3>2. age[t] = 0
      BY DEF LockInv
    <3>3. t[2] = "takeover" => lease'.gen = t[1] /\ lease'.ttl = LeaderTtl
      BY <3>1, <3>2, ConstantsAssumption DEF NextLease, ConstantsAssumption
    <3>4. t[2] = "release" => retiring[t[1]]
      BY <2>7 DEF Write
    <3>5. QED
      BY <3>0, <3>1, <3>3, <3>4 DEF InLock
  <2>8. CASE Unlock(t)
    <3>0. Critical(t) /\ \A u \in Task : u # t => pc[u] \notin InLock
      BY <2>8, OthersIdle DEF Unlock, Critical, InLock
    <3>1. /\ pc'[t] \in {"idle", "sleep"}
          /\ t[2] = "release" => pc'[t] = "idle"
          /\ \A u \in Task : u # t => pc'[u] = pc[u]
          /\ UNCHANGED retiring
      BY <2>8 DEF Unlock, AfterCall
    <3>2. \A u \in Task : pc'[u] \notin InLock
      <4>1. pc'[t] \notin InLock
        BY <3>1 DEF InLock
      <4>2. QED
        BY <3>0, <3>1, <4>1
    <3>3. \A u \in Task : pc'[u] # "idle" /\ u[2] = "release" => retiring'[u[1]]
      BY <3>1
    <3>4. QED
      BY <3>2, <3>3 DEF InLock
  <2>9. QED
    BY <1>1, <2>1, <2>2, <2>3, <2>4, <2>5, <2>6, <2>7, <2>8 DEF TaskStep
<1>2. ASSUME NEW g \in Gen, ProcStep(g) \/ Crash(g) \/ Stall(g) \/ Resume(g)
      PROVE TaskInv'
  <2>1. CASE Start(g)
    BY <2>1, Tasks DEF Start, Listed
  <2>2. CASE Ready(g)
    <3>1. /\ \A h \in Gen : Led(h)' => Led(h)
          /\ UNCHANGED <<pc, seen, lease, ok, retiring>>
      BY <2>2 DEF Ready, RecordInv
    <3>2. QED
      BY <3>1
  <2>3. CASE BeginTakeover(g)
    BY <2>3, Tasks DEF BeginTakeover, EnterWait
  <2>4. CASE Heartbeat(g)
    <3>1. /\ \A u \in Task : pc'[u] = pc[u] \/ (pc'[u] = "wait" /\ u[2] = "renew")
          /\ UNCHANGED <<phase, leader, retiring, seen, lease, ok>>
      <4>1. UNCHANGED taskVars \/ EnterWait(<<g, "renew">>)
        BY <2>4 DEF Heartbeat
      <4>2. \A u \in Task : pc'[u] = pc[u] \/ (pc'[u] = "wait" /\ u = <<g, "renew">>)
        <5>1. <<g, "renew">> \in Task
          BY Tasks
        <5>2. QED
          BY <4>1, <5>1 DEF EnterWait
      <4>3. UNCHANGED <<phase, leader, retiring, seen, lease, ok>>
        BY <2>4, <4>1 DEF Heartbeat, EnterWait
      <4>4. QED
        BY <4>2, <4>3
    <3>2. QED
      BY <3>1
  <2>5. CASE Retire(g)
    BY <2>5, Tasks DEF Retire, EnterWait
  <2>6. CASE Stop(g)
    BY <2>6, Tasks DEF Stop
  <2>7. CASE StopForwarding(g)
    BY <2>7, Tasks DEF StopForwarding
  <2>8. CASE BeginRelease(g)
    <3>1. \A u \in Task : pc'[u] = pc[u] \/ (pc'[u] = "wait" /\ u = <<g, "release">>)
      <4>1. <<g, "release">> \in Task
        BY Tasks
      <4>2. EnterWait(<<g, "release">>)
        BY <2>8 DEF BeginRelease
      <4>3. QED
        BY <4>1, <4>2 DEF EnterWait
    <3>2. retiring[g]
      BY <2>8 DEF BeginRelease, RecordInv
    <3>3. \A h \in Gen : Led(h)' => Led(h)
      BY <2>8 DEF BeginRelease
    <3>4. UNCHANGED <<retiring, seen, lease, ok>>
      BY <2>8 DEF BeginRelease, EnterWait
    <3>5. QED
      BY <3>1, <3>2, <3>3, <3>4
  <2>9. CASE Exit(g)
    BY <2>9, Tasks DEF Exit
  <2>10. CASE Crash(g)
    BY <2>10, Tasks DEF Crash
  <2>11. CASE Stall(g)
    BY <2>11, Tasks DEF Stall
  <2>12. CASE Resume(g)
    BY <2>12, Tasks DEF Resume
  <2>13. QED
    BY <1>2, <2>1, <2>2, <2>3, <2>4, <2>5, <2>6, <2>7, <2>8, <2>9, <2>10, <2>11, <2>12 DEF ProcStep
<1>3. CASE Tick
  <2>1. /\ \A t \in Task : pc'[t] = "idle"
        /\ lease'.gen = lease.gen
    BY <1>3, QuietTick DEF Tick
  <2>2. QED
    BY <2>1
<1>4. CASE UNCHANGED vars
  BY <1>4, Tasks DEF vars
<1>5. QED
  BY <1>1, <1>2, <1>3, <1>4 DEF Next

\* An action that leaves the lease and the timer alone, makes nobody a leader
\* and starts no renewal keeps the leases fresh.
LEMMA LeaseFrame ==
    ASSUME NEW g \in Gen, LeaseFresh(g), UNCHANGED <<lease, beatAge>>,
           Led(g)' => Led(g),
           pc'[<<g, "renew">>] # "idle" => pc[<<g, "renew">>] # "idle",
           Led(g)' /\ pc[<<g, "renew">>] \in {"wait", "read", "write"}
             => pc'[<<g, "renew">>] \in {"wait", "read", "write"}
    PROVE  LeaseFresh(g)'
BY DEF LeaseFresh

\* LeaseInv is inductive.
LEMMA LeaseStep ==
    ASSUME TypeOK, LockInv, TaskInv, RecordInv, LeaseInv, [Next]_vars PROVE LeaseInv'
<1> USE DEF LeaseInv, TypeOK, ProcTypeOK, FileTypeOK, TaskTypeOK, Pc, Kind, Led, procVars, taskVars
<1>1. ASSUME NEW t \in Task, TaskStep(t) PROVE LeaseInv'
  <2>0. t = <<t[1], t[2]>> /\ t[1] \in Gen /\ t[2] \in Kind
    BY TaskParts
  <2>1. CASE Lock(t)
    <3> SUFFICES ASSUME NEW h \in Gen PROVE LeaseFresh(h)'
      OBVIOUS
    <3> <<h, "renew">> \in Task
      BY Tasks DEF Kind
    <3>1. /\ UNCHANGED <<lease, beatAge, phase, leader, retiring>>
          /\ pc[t] = "wait" /\ pc' = [pc EXCEPT ![t] = "read"]
      BY <2>1 DEF Lock
    <3>2. Led(h)' => Led(h)
      BY <3>1
    <3> QED
      BY LeaseFrame, <3>1, <3>2
  <2>2. CASE StatStale(t)
    BY <2>2, ConstantsAssumption DEF StatStale, LockInv
  <2>3. CASE Reap(t)
    BY <2>3 DEF Reap, LockInv
  <2>4. CASE Timeout(t)
    BY <2>4, ConstantsAssumption DEF Timeout, LockInv
  <2>5. CASE Read(t)
    <3> SUFFICES ASSUME NEW h \in Gen PROVE LeaseFresh(h)'
      OBVIOUS
    <3> <<h, "renew">> \in Task
      BY Tasks DEF Kind
    <3>1. /\ UNCHANGED <<lease, beatAge, phase, leader, retiring>>
          /\ pc[t] = "read"
          /\ \A u \in Task : u # t => pc'[u] = pc[u]
      BY <2>5 DEF Read, ReadTakeover, ReadOwned
    <3>2. t = <<h, "renew">> => pc'[t] = IF lease.gen = h THEN "write" ELSE "unlock"
      BY <2>5 DEF Read, ReadTakeover, ReadOwned
    <3>3. Led(h) => lease.gen = h
      BY DEF LeaseFresh
    <3>4. Led(h)' => Led(h)
      BY <3>1
    <3> QED
      BY LeaseFrame, <3>1, <3>2, <3>3, <3>4
  <2>6. CASE Probe(t)
    <3> SUFFICES ASSUME NEW h \in Gen PROVE LeaseFresh(h)'
      OBVIOUS
    <3> <<h, "renew">> \in Task
      BY Tasks DEF Kind
    <3>1. /\ UNCHANGED <<lease, beatAge, phase, leader, retiring>>
          /\ t[2] = "takeover"
          /\ \A u \in Task : u # t => pc'[u] = pc[u]
      BY <2>6 DEF Probe, TaskInv
    <3>2. t # <<h, "renew">>
      BY <3>1
    <3>3. Led(h)' => Led(h)
      BY <3>1
    <3> QED
      BY LeaseFrame, <3>1, <3>2, <3>3
  <2>7. CASE Write(t)
    <3> SUFFICES ASSUME NEW h \in Gen PROVE LeaseFresh(h)'
      OBVIOUS
    <3> <<h, "renew">> \in Task
      BY Tasks DEF Kind
    <3>1. /\ UNCHANGED <<beatAge, phase, leader, retiring>>
          /\ pc[t] = "write" /\ pc' = [pc EXCEPT ![t] = "unlock"]
          /\ lease' = NextLease(t)
      BY <2>7 DEF Write
    <3>2. pc'[<<h, "renew">>] # "idle" => beatAge'[h] < HeartbeatPeriod
      BY <3>1 DEF LeaseFresh
    <3>3. CASE Led(h)' /\ h = t[1]
      <4>1. Led(h) /\ beatAge'[h] \in 0 .. HeartbeatPeriod
        BY <3>1, <3>3
      <4>2. t[2] # "release"
        BY <3>1, <3>3, <4>1 DEF TaskInv
      <4>3. age[t] = 0
        BY DEF LockInv
      <4>4. lease' = [gen |-> h, ttl |-> LeaderTtl]
        BY <3>1, <3>3, <4>2, <4>3, ConstantsAssumption DEF NextLease, ConstantsAssumption
      <4>5. lease'.ttl + beatAge'[h] >= LeaderTtl
        BY <4>1, <4>4, ConstantsAssumption DEF ConstantsAssumption
      <4>6. QED
        BY <3>2, <4>4, <4>5 DEF LeaseFresh
    <3>4. ASSUME Led(h)', h # t[1] PROVE FALSE
      <4>1. Led(h) /\ lease.gen = h
        BY <3>1, <3>4 DEF LeaseFresh
      <4>2. QED
        BY <3>1, <3>4, <4>1 DEF TaskInv
    <3>5. QED
      BY <3>2, <3>3, <3>4 DEF LeaseFresh
  <2>8. CASE Unlock(t)
    <3> SUFFICES ASSUME NEW h \in Gen PROVE LeaseFresh(h)'
      OBVIOUS
    <3> <<h, "renew">> \in Task
      BY Tasks DEF Kind
    <3>1. /\ UNCHANGED <<lease, beatAge, retiring>>
          /\ pc[t] = "unlock"
          /\ pc' = [pc EXCEPT ![t] = AfterCall(t)]
      BY <2>8 DEF Unlock
    <3>2. /\ UNCHANGED phase \/ (phase' = [phase EXCEPT ![t[1]] = "released"])
          /\ t[2] = "takeover" => leader' = [leader EXCEPT ![t[1]] = leader[t[1]] \/ ok[t]]
          /\ t[2] = "renew" => leader' = [leader EXCEPT ![t[1]] = leader[t[1]] /\ (ok[t] \/ retiring[t[1]])]
          /\ t[2] = "release" => leader' = leader
      BY <2>8, <2>0 DEF Unlock, UnlockTakeover, UnlockRenew, UnlockRelease
    <3>3. t = <<h, "renew">> => pc'[t] = "idle"
      BY <3>1 DEF AfterCall
    <3>4. CASE Led(h)' => Led(h)
      <4>1. CASE t = <<h, "renew">> /\ Led(h)
        <5>1. lease.gen = h /\ lease.ttl + beatAge[h] >= LeaderTtl
          BY <3>1, <4>1 DEF LeaseFresh
        <5>2. QED
          BY <3>1, <3>3, <4>1, <5>1 DEF LeaseFresh
      <4>2. CASE t # <<h, "renew">>
        BY <3>1, <3>4, <4>2, LeaseFrame
      <4>3. CASE t = <<h, "renew">> /\ ~Led(h)
        BY <3>1, <3>3, <3>4, <4>3, LeaseFrame
      <4>4. QED
        BY <4>1, <4>2, <4>3
    <3>5. CASE Led(h)' /\ ~Led(h)
      <4>1. t[2] = "takeover" /\ h = t[1] /\ ok[t]
        BY <2>0, <3>1, <3>2, <3>5 DEF Kind
      <4>2. lease.gen = h /\ lease.ttl = LeaderTtl
        BY <3>1, <4>1 DEF TaskInv
      <4>3. lease'.ttl + beatAge'[h] >= LeaderTtl
        BY <3>1, <4>2, ConstantsAssumption DEF ConstantsAssumption
      <4>4. pc'[<<h, "renew">>] = pc[<<h, "renew">>]
        BY <3>1, <4>1
      <4>5. QED
        BY <3>1, <4>2, <4>3, <4>4 DEF LeaseFresh
    <3>6. QED
      BY <3>4, <3>5
  <2>9. QED
    BY <1>1, <2>1, <2>2, <2>3, <2>4, <2>5, <2>6, <2>7, <2>8 DEF TaskStep
<1>2. ASSUME NEW g \in Gen, ProcStep(g) \/ Crash(g) \/ Stall(g) \/ Resume(g)
      PROVE LeaseInv'
  <2>1. CASE Start(g)
    <3> SUFFICES ASSUME NEW h \in Gen PROVE LeaseFresh(h)'
      OBVIOUS
    <3> <<h, "renew">> \in Task
      BY Tasks DEF Kind
    <3>1. UNCHANGED <<pc, lease, beatAge>>
      BY <2>1 DEF Start
    <3>2. Led(h)' => Led(h)
      BY <2>1 DEF Start
    <3> QED
      BY LeaseFrame, <3>1, <3>2
  <2>2. CASE Ready(g)
    <3> SUFFICES ASSUME NEW h \in Gen PROVE LeaseFresh(h)'
      OBVIOUS
    <3>1. /\ UNCHANGED <<pc, lease, leader, retiring>>
          /\ phase[g] = "starting"
          /\ phase' = [phase EXCEPT ![g] = "up"]
          /\ beatAge' = [beatAge EXCEPT ![g] = 0]
      BY <2>2 DEF Ready
    <3>2. ~Led(g)'
      BY <3>1 DEF RecordInv
    <3>3. CASE h = g
      BY <3>1, <3>2, <3>3, ConstantsAssumption DEF LeaseFresh, ConstantsAssumption
    <3>4. CASE h # g
      BY <3>1, <3>4 DEF LeaseFresh
    <3>5. QED
      BY <3>3, <3>4
  <2>3. CASE BeginTakeover(g)
    <3> SUFFICES ASSUME NEW h \in Gen PROVE LeaseFresh(h)'
      OBVIOUS
    <3> <<h, "renew">> \in Task
      BY Tasks DEF Kind
    <3>1. UNCHANGED <<lease, beatAge>>
      BY <2>3 DEF BeginTakeover
    <3>2. Led(h)' => Led(h)
      BY <2>3 DEF BeginTakeover
    <3>3. pc'[<<h, "renew">>] = pc[<<h, "renew">>]
      <4>1. <<g, "takeover">> \in Task /\ <<g, "takeover">> # <<h, "renew">>
        BY Tasks DEF Kind
      <4>2. EnterWait(<<g, "takeover">>)
        BY <2>3 DEF BeginTakeover
      <4>3. QED
        BY <4>1, <4>2 DEF EnterWait
    <3> QED
      BY LeaseFrame, <3>1, <3>2, <3>3
  <2>4. CASE Heartbeat(g)
    <3> SUFFICES ASSUME NEW h \in Gen PROVE LeaseFresh(h)'
      OBVIOUS
    <3> /\ <<h, "renew">> \in Task
        /\ <<g, "renew">> \in Task
      BY Tasks DEF Kind
    <3>1. /\ UNCHANGED <<lease, leader, retiring, phase>>
          /\ beatAge[g] = HeartbeatPeriod
          /\ beatAge' = [beatAge EXCEPT ![g] = 0]
      BY <2>4 DEF Heartbeat
    <3>2. pc[<<g, "renew">>] = "idle"
      BY <3>1, ConstantsAssumption DEF LeaseFresh, ConstantsAssumption
    <3>3. /\ leader[g] => pc' = [pc EXCEPT ![<<g, "renew">>] = "wait"]
          /\ ~leader[g] => UNCHANGED pc
      BY <2>4, <3>2 DEF Heartbeat, EnterWait
    <3>4. CASE h = g
      <4>1. beatAge'[g] < HeartbeatPeriod
        BY <3>1, ConstantsAssumption DEF ConstantsAssumption
      <4>2. ASSUME Led(g)'
            PROVE  /\ lease'.gen = g
                   /\ lease'.ttl + HeartbeatPeriod >= LeaderTtl
                   /\ pc'[<<g, "renew">>] = "wait"
        <5>1. Led(g)
          BY <3>1, <4>2
        <5>2. lease.gen = g /\ lease.ttl + HeartbeatPeriod >= LeaderTtl
          BY <3>1, <3>2, <5>1 DEF LeaseFresh
        <5>3. QED
          BY <3>1, <3>3, <5>1, <5>2
      <4>3. QED
        BY <3>4, <4>1, <4>2 DEF LeaseFresh
    <3>5. CASE h # g
      <4>1. pc'[<<h, "renew">>] = pc[<<h, "renew">>] /\ beatAge'[h] = beatAge[h]
        BY <3>1, <3>3, <3>5
      <4>2. QED
        BY <3>1, <4>1 DEF LeaseFresh
    <3>6. QED
      BY <3>4, <3>5
  <2>5. CASE Retire(g)
    <3> SUFFICES ASSUME NEW h \in Gen PROVE LeaseFresh(h)'
      OBVIOUS
    <3> <<h, "renew">> \in Task
      BY Tasks DEF Kind
    <3>1. UNCHANGED <<lease, beatAge>>
      BY <2>5 DEF Retire
    <3>2. Led(h)' => Led(h)
      BY <2>5 DEF Retire
    <3>3. pc'[<<h, "renew">>] = pc[<<h, "renew">>]
      <4>1. <<g, "release">> \in Task /\ <<g, "release">> # <<h, "renew">>
        BY Tasks DEF Kind
      <4>2. EnterWait(<<g, "release">>)
        BY <2>5 DEF Retire
      <4>3. QED
        BY <4>1, <4>2 DEF EnterWait
    <3> QED
      BY LeaseFrame, <3>1, <3>2, <3>3
  <2>6. CASE Stop(g)
    <3> SUFFICES ASSUME NEW h \in Gen PROVE LeaseFresh(h)'
      OBVIOUS
    <3> <<h, "renew">> \in Task
      BY Tasks DEF Kind
    <3>1. UNCHANGED <<pc, lease, beatAge>>
      BY <2>6 DEF Stop
    <3>2. Led(h)' => Led(h)
      BY <2>6 DEF Stop
    <3> QED
      BY LeaseFrame, <3>1, <3>2
  <2>7. CASE StopForwarding(g)
    <3> SUFFICES ASSUME NEW h \in Gen PROVE LeaseFresh(h)'
      OBVIOUS
    <3> <<h, "renew">> \in Task
      BY Tasks DEF Kind
    <3>1. UNCHANGED <<pc, lease, beatAge>>
      BY <2>7 DEF StopForwarding
    <3>2. Led(h)' => Led(h)
      BY <2>7 DEF StopForwarding
    <3> QED
      BY LeaseFrame, <3>1, <3>2
  <2>8. CASE BeginRelease(g)
    <3> SUFFICES ASSUME NEW h \in Gen PROVE LeaseFresh(h)'
      OBVIOUS
    <3> <<h, "renew">> \in Task
      BY Tasks DEF Kind
    <3>1. UNCHANGED <<lease, beatAge>>
      BY <2>8 DEF BeginRelease
    <3>2. Led(h)' => Led(h)
      BY <2>8 DEF BeginRelease
    <3>3. pc'[<<h, "renew">>] = pc[<<h, "renew">>]
      <4>1. <<g, "release">> \in Task /\ <<g, "release">> # <<h, "renew">>
        BY Tasks DEF Kind
      <4>2. EnterWait(<<g, "release">>)
        BY <2>8 DEF BeginRelease
      <4>3. QED
        BY <4>1, <4>2 DEF EnterWait
    <3> QED
      BY LeaseFrame, <3>1, <3>2, <3>3
  <2>9. CASE Exit(g)
    <3> SUFFICES ASSUME NEW h \in Gen PROVE LeaseFresh(h)'
      OBVIOUS
    <3> <<h, "renew">> \in Task
      BY Tasks DEF Kind
    <3>1. UNCHANGED <<pc, lease, beatAge>>
      BY <2>9 DEF Exit
    <3>2. Led(h)' => Led(h)
      BY <2>9 DEF Exit
    <3> QED
      BY LeaseFrame, <3>1, <3>2
  <2>10. CASE Crash(g)
    <3> SUFFICES ASSUME NEW h \in Gen PROVE LeaseFresh(h)'
      OBVIOUS
    <3> <<h, "renew">> \in Task
      BY Tasks DEF Kind
    <3>1. UNCHANGED <<lease, beatAge>>
      BY <2>10 DEF Crash
    <3>2. Led(h)' => Led(h) /\ h # g
      BY <2>10 DEF Crash
    <3>3. pc'[<<h, "renew">>] = IF h = g THEN "idle" ELSE pc[<<h, "renew">>]
      BY <2>10 DEF Crash
    <3> QED
      BY LeaseFrame, <3>1, <3>2, <3>3
  <2>11. CASE Stall(g)
    <3> SUFFICES ASSUME NEW h \in Gen PROVE LeaseFresh(h)'
      OBVIOUS
    <3> <<h, "renew">> \in Task
      BY Tasks DEF Kind
    <3>1. UNCHANGED <<pc, lease, beatAge>>
      BY <2>11 DEF Stall
    <3>2. Led(h)' => Led(h)
      BY <2>11 DEF Stall
    <3> QED
      BY LeaseFrame, <3>1, <3>2
  <2>12. CASE Resume(g)
    <3> SUFFICES ASSUME NEW h \in Gen PROVE LeaseFresh(h)'
      OBVIOUS
    <3> <<h, "renew">> \in Task
      BY Tasks DEF Kind
    <3>1. UNCHANGED <<pc, lease, beatAge>>
      BY <2>12 DEF Resume
    <3>2. Led(h)' => Led(h)
      BY <2>12 DEF Resume
    <3> QED
      BY LeaseFrame, <3>1, <3>2
  <2>13. QED
    BY <1>2, <2>1, <2>2, <2>3, <2>4, <2>5, <2>6, <2>7, <2>8, <2>9, <2>10, <2>11, <2>12 DEF ProcStep
<1>3. CASE Tick
  <2> SUFFICES ASSUME NEW h \in Gen PROVE LeaseFresh(h)'
    OBVIOUS
  <2> <<h, "renew">> \in Task
    BY Tasks DEF Kind
  <2>1. /\ UNCHANGED <<phase, leader, retiring>>
        /\ lease' = [lease EXCEPT !.ttl = Down(@)]
        /\ pc'[<<h, "renew">>] = "idle"
        /\ beatAge'[h] = IF Alive(h) /\ phase[h] # "starting"
                         THEN Up(beatAge[h], HeartbeatPeriod) ELSE beatAge[h]
    BY <1>3, QuietTick DEF Tick
  <2>2. pc[<<h, "renew">>] \in {"idle", "sleep"}
    BY <1>3, QuietTick
  <2>3. ASSUME Led(h)'
        PROVE  lease'.gen = h /\ lease'.ttl + beatAge'[h] >= LeaderTtl
    <3>1. Led(h) /\ Alive(h) /\ phase[h] # "starting"
      BY <2>1, <2>3 DEF Alive
    <3>2. beatAge[h] < HeartbeatPeriod
      BY <1>3, <3>1 DEF Tick, Settled, LockInv
    <3>3. lease.gen = h /\ lease.ttl + beatAge[h] >= LeaderTtl
      BY <2>2, <3>1 DEF LeaseFresh
    <3>4. beatAge'[h] = beatAge[h] + 1
      BY <2>1, <3>1, <3>2 DEF Up
    <3>5. lease'.gen = lease.gen /\ lease'.ttl = Down(lease.ttl)
      BY <2>1
    <3>6. lease.ttl \in Nat /\ beatAge[h] \in Nat
      BY ConstantsAssumption DEF ConstantsAssumption
    <3>7. QED
      BY <3>3, <3>4, <3>5, <3>6, ConstantsAssumption DEF Down, ConstantsAssumption
  <2>4. QED
    BY <2>1, <2>3 DEF LeaseFresh
<1>4. CASE UNCHANGED vars
    <3> SUFFICES ASSUME NEW h \in Gen PROVE LeaseFresh(h)'
      OBVIOUS
    <3> <<h, "renew">> \in Task
      BY Tasks DEF Kind
    <3>1. UNCHANGED <<pc, lease, beatAge, phase, leader, retiring>>
      BY <1>4 DEF vars
    <3>2. Led(h)' => Led(h)
      BY <3>1
    <3> QED
      BY LeaseFrame, <3>1, <3>2
<1>5. QED
  BY <1>1, <1>2, <1>3, <1>4 DEF Next

----------------------------------------------------------------------------
(* The punctual system: nothing is killed inside withLeaderLock, a healthy *)
(* process answers its probes, and no event loop stalls.                   *)

Punctual ==
    /\ "crashInLock" \notin Events
    /\ "probeFails" \notin Events
    /\ MaxStalls = 0

LEMMA InitInv ==
    ASSUME Punctual, Init PROVE IInv
<1>1. TypeOK
  BY InitType
<1>2. LockInv
  BY DEF Punctual, Init, LockInv, LockExcludes, Critical, InLock
<1>3. TaskInv
  BY DEF Init, TaskInv, WriteOfWhatWasRead
<1>4. RecordInv
  BY DEF Init, RecordInv
<1>5. LeaseInv
  BY Tasks DEF Init, LeaseInv, LeaseFresh, Led, Kind
<1>6. QED
  BY <1>1, <1>2, <1>3, <1>4, <1>5 DEF IInv

\* The strengthening that makes the safety properties inductive, for any
\* number of processes and any choice of the periods.
THEOREM InductiveInvariant ==
    ASSUME Punctual PROVE Spec => []IInv
<1>1. Init => IInv
  BY InitInv
<1>2. IInv /\ [Next]_vars => IInv'
  BY ProcTypeStep, FileTypeStep, TaskTypeStep, LockStep, TaskStepInv, RecordStep, LeaseStep
  DEF IInv, TypeOK, Punctual
<1>3. QED
  BY <1>1, <1>2, PTL DEF Spec

\* withLeaderLock is a mutual exclusion: its stale-directory sweep never
\* hits a directory in use while nobody dies inside the lock.
THEOREM LockIsExclusive ==
    ASSUME Punctual PROVE Spec => []LockExcludes
<1>1. IInv => LockExcludes
  BY DEF IInv, LockInv
<1>2. QED
  BY <1>1, InductiveInvariant, PTL

\* Takeover, renewal and release never write over a lease that changed since
\* they read it.
THEOREM NoLostUpdate ==
    ASSUME Punctual PROVE Spec => []WriteOfWhatWasRead
<1>1. IInv => WriteOfWhatWasRead
  BY DEF IInv, TaskInv
<1>2. QED
  BY <1>1, InductiveInvariant, PTL

\* A process issues getUpdates only under an unexpired lease of its own.
THEOREM PollingIsLeased ==
    ASSUME Punctual PROVE Spec => []PollerHoldsLease
<1>1. IInv => PollerHoldsLease
  BY LedIsLive DEF IInv, PollerHoldsLease, Polling, Led, Punctual
<1>2. QED
  BY <1>1, InductiveInvariant, PTL

\* Two processes never issue getUpdates at once, through takeover, hand-over,
\* retirement, shutdown and crash.
THEOREM OnePoller ==
    ASSUME Punctual PROVE Spec => []AtMostOnePoller
<1>1. PollerHoldsLease => AtMostOnePoller
  BY DEF PollerHoldsLease, AtMostOnePoller
<1>2. QED
  BY <1>1, PollingIsLeased, PTL
============================================================================
