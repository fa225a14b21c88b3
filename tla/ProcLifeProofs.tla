--------------------------- MODULE ProcLifeProofs ---------------------------
(***************************************************************************)
(* The proof that Proc implements ProcLife.  The refinement mapping reads  *)
(* the process table by pid, through the slots in use; Mapped says what it *)
(* shows of the one slot that has a pid, and of a pid that no slot has.    *)
(* Most steps keep the kind of every slot (SameKinds) and are stutters of  *)
(* ProcLife; there is one lemma for each of the others.                    *)
(***************************************************************************)
EXTENDS ProcProofs

\* The pids of the slots in use are those given out so far, and init has 1.
PidRange ==
  /\ nextpid \in 2..MaxPid + 1
  /\ pid[initproc] = 1
  /\ \A s \in Slot : state[s] # "UNUSED" => pid[s] \in 1..MaxPid

\* What ProcLife knows of the state of a process.
Kind(st) ==
  IF st \in Live THEN "alive"
  ELSE IF st = "ZOMBIE" THEN "zombie" ELSE IF st = "EMBRYO" THEN "unborn" ELSE "none"

ParentPid(s) == IF parent[s] # 0 THEN pid[parent[s]] ELSE 0

\* No slot in use has the pid n.
Free(n) == \A s \in Slot : state[s] # "UNUSED" => pid[s] # n

\* What the refinement mapping shows.
Mapped ==
  /\ life = [n \in 1..MaxPid |-> life[n]]
  /\ parentOf = [n \in 1..MaxPid |-> parentOf[n]]
  /\ code = [n \in 1..MaxPid |-> code[n]]
  /\ \A s \in Slot : state[s] # "UNUSED" =>
       /\ life[pid[s]] = Kind(state[s])
       /\ parentOf[pid[s]] = ParentPid(s)
       /\ code[pid[s]] = IF state[s] = "ZOMBIE" THEN ret[s] ELSE 0
  /\ \A n \in 1..MaxPid : Free(n) =>
       /\ life[n] = IF n >= nextpid THEN "unborn" ELSE "gone"
       /\ parentOf[n] = 0
       /\ code[n] = 0

\* A parent is alive.
LEMMA LiveParent ==
  ASSUME IInv
  PROVE  \A t \in Slot : parent[t] # 0 => parent[t] \in Slot /\ state[parent[t]] \in Live
<1> SUFFICES ASSUME NEW t \in Slot, parent[t] # 0
             PROVE  parent[t] \in Slot /\ state[parent[t]] \in Live
  OBVIOUS
<1>1. parent[t] \in Slot
  BY DEF IInv, TypeOK
<1>2. t # initproc
  BY DEF IInv, TreeInv
<1> QED  BY <1>1, <1>2 DEF IInv, TreeInv, NoOrphan

\* The mapping, read off the table.
LEMMA MapIs == IInv /\ PidRange => Mapped
<1> SUFFICES ASSUME IInv, PidRange PROVE Mapped
  OBVIOUS
<1>1. /\ state \in [Slot -> States] /\ pid \in [Slot -> Nat] /\ nextpid \in Nat
      /\ MaxPid \in Nat
  BY ProcAssumption DEF IInv, TypeOK
<1>2. ASSUME NEW s \in Slot, state[s] # "UNUSED"
      PROVE  /\ life[pid[s]] = Kind(state[s])
             /\ parentOf[pid[s]] = ParentPid(s)
             /\ code[pid[s]] = IF state[s] = "ZOMBIE" THEN ret[s] ELSE 0
  <2> DEFINE n == pid[s]
  <2>1. n \in 1..MaxPid /\ ~(n >= nextpid)
    BY <1>1, <1>2 DEF PidRange, IInv, PidInv
  <2>2. \A t \in Slot : state[t] # "UNUSED" /\ pid[t] = n => t = s
    BY <1>2 DEF IInv, PidInv, UniquePids
  <2>3. \A S : "UNUSED" \notin S => Holder(n, S) = IF state[s] \in S THEN {s} ELSE {}
    BY <2>2 DEF Holder
  <2>4. /\ Holder(n, Live) = IF state[s] \in Live THEN {s} ELSE {}
        /\ Holder(n, {"ZOMBIE"}) = IF state[s] = "ZOMBIE" THEN {s} ELSE {}
        /\ Holder(n, {"EMBRYO"}) = IF state[s] = "EMBRYO" THEN {s} ELSE {}
        /\ Holder(n, Live \cup {"ZOMBIE"}) = IF state[s] \in Live \cup {"ZOMBIE"} THEN {s} ELSE {}
    <3>1. "UNUSED" \notin Live /\ "UNUSED" \notin {"ZOMBIE"} /\ "UNUSED" \notin {"EMBRYO"}
          /\ "UNUSED" \notin Live \cup {"ZOMBIE"}
      BY DEF Live
    <3> QED  BY <2>3, <3>1
  <2>5. state[s] \in Live \cup {"ZOMBIE", "EMBRYO"}
    BY <1>1, <1>2 DEF States, Live
  <2>6. life[n] = Kind(state[s])
    <3> HIDE DEF n
    <3>1. life[n] = IF Holder(n, Live) # {} THEN "alive"
                    ELSE IF Holder(n, {"ZOMBIE"}) # {} THEN "zombie"
                    ELSE IF n >= nextpid \/ Holder(n, {"EMBRYO"}) # {} THEN "unborn"
                    ELSE "gone"
      BY <2>1 DEF life
    <3> QED  BY <2>1, <2>4, <2>5, <3>1 DEF Kind
  <2>7. state[s] \in Live \cup {"ZOMBIE"} => ThePid(n) = s
    <3> HIDE DEF n
    <3> SUFFICES ASSUME state[s] \in Live \cup {"ZOMBIE"} PROVE ThePid(n) = s
      OBVIOUS
    <3>1. Holder(n, Live \cup {"ZOMBIE"}) = {s}
      BY <2>4
    <3> QED  BY <3>1 DEF ThePid
  <2>8. parentOf[n] = IF life[n] \in {"alive", "zombie"} /\ parent[ThePid(n)] # 0
                      THEN pid[parent[ThePid(n)]] ELSE 0
    BY <2>1 DEF parentOf
  <2>9. code[n] = IF life[n] = "zombie" THEN ret[ThePid(n)] ELSE 0
    BY <2>1 DEF code
  <2>10. life[n] \in {"alive", "zombie"} <=> state[s] \in Live \cup {"ZOMBIE"}
    BY <2>5, <2>6 DEF Kind, Live
  <2>11. life[n] = "zombie" <=> state[s] = "ZOMBIE"
    BY <2>5, <2>6 DEF Kind, Live
  <2>12. state[s] = "EMBRYO" => parent[s] = 0
    BY DEF IInv, TreeInv, NoOrphan
  <2>13. parentOf[n] = ParentPid(s)
    <3> HIDE DEF n
    <3> QED  BY <2>5, <2>7, <2>8, <2>10, <2>12 DEF ParentPid
  <2>14. code[n] = IF state[s] = "ZOMBIE" THEN ret[s] ELSE 0
    BY <2>7, <2>9, <2>11
  <2> QED  BY <2>6, <2>13, <2>14
<1>3. ASSUME NEW n \in 1..MaxPid, Free(n)
      PROVE  /\ life[n] = IF n >= nextpid THEN "unborn" ELSE "gone"
             /\ parentOf[n] = 0
             /\ code[n] = 0
  <2>1. Holder(n, Live) = {} /\ Holder(n, {"ZOMBIE"}) = {} /\ Holder(n, {"EMBRYO"}) = {}
    BY <1>3 DEF Holder, Free, Live
  <2>2. life[n] = IF n >= nextpid THEN "unborn" ELSE "gone"
    BY <2>1 DEF life
  <2>3. life[n] \notin {"alive", "zombie"}
    BY <2>2
  <2> QED  BY <2>2, <2>3 DEF parentOf, code
<1>4. /\ life = [n \in 1..MaxPid |-> life[n]]
      /\ parentOf = [n \in 1..MaxPid |-> parentOf[n]]
      /\ code = [n \in 1..MaxPid |-> code[n]]
  BY DEF life, parentOf, code
<1> QED  BY <1>2, <1>3, <1>4 DEF Mapped

\* The same after a step.
LEMMA MapIsNext == IInv' /\ PidRange' => Mapped'
BY MapIs, PTL

\* ProcLife does not see a step that keeps the kind of every slot.
SameKinds ==
  /\ UNCHANGED <<pid, parent, ret, nextpid>>
  /\ \A t \in Slot : Kind(state'[t]) = Kind(state[t])

\* A slot that is not in use has a kind of its own.
LEMMA Kinds ==
  /\ \A st \in States : Kind(st) = "none" <=> st = "UNUSED"
  /\ \A st \in States : Kind(st) = "zombie" <=> st = "ZOMBIE"
  /\ \A st \in Live : Kind(st) = "alive"
  /\ Live \subseteq States
BY DEF Kind, States, Live

\* wakeup1() keeps the kinds.
LEMMA WakeKinds ==
  ASSUME NEW st \in [Slot -> States], NEW ch
  PROVE  /\ wakeup1(st, ch) \in [Slot -> States]
         /\ \A t \in Slot : Kind(wakeup1(st, ch)[t]) = Kind(st[t])
         /\ \A t \in Slot : wakeup1(st, ch)[t] = "ZOMBIE" <=> st[t] = "ZOMBIE"
BY DEF wakeup1, Kind, States, Live

\* A dispatch makes a RUNNABLE process RUNNING.
LEMMA schedulerKinds ==
  ASSUME IInv, NEW c \in CPU, scheduler(c)
  PROVE  SameKinds
<1>1. UNCHANGED <<pid, parent, ret, nextpid>>
  BY DEF scheduler
<1>2. \/ state' = state
      \/ \E s \in Slot : state[s] = "RUNNABLE" /\ state' = [state EXCEPT ![s] = "RUNNING"]
  <2>1. PassEnds(c) => state' = state
    BY DEF PassEnds
  <2>2. ASSUME NEW s \in Slot, NEW S, First(s, RunnableIn(S)) \/ First(s, HighIn(S)), Dispatch(c, s)
        PROVE  state[s] = "RUNNABLE" /\ state' = [state EXCEPT ![s] = "RUNNING"]
    BY <2>2 DEF First, RunnableIn, HighIn, Dispatch
  <2>3. ASSUME NEW p, NEW pn, SecondLoop(c, p, pn)
        PROVE  PassEnds(c) \/ \E s \in Slot : First(s, RunnableIn(p..NPROC)) /\ Dispatch(c, s)
    BY <2>3, Zenon DEF SecondLoop
  <2>4. ASSUME NEW p, NEW n, FirstLoop(c, p, n)
        PROVE  \/ PassEnds(c)
               \/ \E s \in Slot : First(s, HighIn(p..NPROC)) /\ Dispatch(c, s)
               \/ \E pn \in Slot \cup {0} : SecondLoop(c, pn, pn)
    BY <2>4, Zenon DEF FirstLoop
  <2>5. \/ \E p, n : FirstLoop(c, p, n)
        \/ \E p, pn : SecondLoop(c, p, pn)
    BY Zenon DEF scheduler
  <2>6. \/ PassEnds(c)
        \/ \E s \in Slot : \E S :
             (First(s, RunnableIn(S)) \/ First(s, HighIn(S))) /\ Dispatch(c, s)
    BY <2>3, <2>4, <2>5, Zenon
  <2> QED  BY <2>1, <2>2, <2>6, Zenon
<1>3. state \in [Slot -> States]
  BY DEF IInv, TypeOK
<1>4. \A t \in Slot : Kind(state'[t]) = Kind(state[t])
  BY <1>2, <1>3 DEF Kind, Live
<1> QED  BY <1>1, <1>4 DEF SameKinds

\* fork(), exit() and wait() are the only steps that ProcLife sees, and
\* allocproc() is the only other one that changes the kind of a slot.
LEMMA KindsOfSteps ==
  ASSUME IInv, [Next]_vars
  PROVE  \/ SameKinds
         \/ \E c \in CPU, s \in Slot :
              \/ allocproc(c, s) \/ ForkFails(c, s) \/ fork(c, s) \/ WaitReaps(c, s)
              \/ \E status \in Status : exit(c, s, status)
<1>1. state \in [Slot -> States]
  BY DEF IInv, TypeOK
<1>2. ASSUME UNCHANGED procVars PROVE SameKinds
  BY <1>2 DEF procVars, SameKinds
<1>3. ASSUME UNCHANGED <<state, pid, parent, ret, nextpid>> PROVE SameKinds
  BY <1>3 DEF SameKinds
<1>4. ASSUME UNCHANGED <<pid, parent, ret, nextpid>>, NEW s \in Slot, NEW st \in Live,
             state[s] = "RUNNING", state' = [state EXCEPT ![s] = st]
      PROVE  SameKinds
  <2>1. \A t \in Slot : Kind(state'[t]) = Kind(state[t])
    BY <1>1, <1>4 DEF Kind, Live
  <2> QED  BY <1>4, <2>1 DEF SameKinds
<1>5. ASSUME NEW c \in CPU, NEW s \in Slot, UserStep(c, s) PROVE SameKinds
  <2>1. CASE SyscallEntry(c, s)
    BY <1>2, <2>1 DEF SyscallEntry
  <2>2. CASE UserFault(c, s)
    BY <1>3, <2>2 DEF UserFault
  <2> QED  BY <1>5, <2>1, <2>2 DEF UserStep
<1>6. ASSUME NEW c \in CPU, NEW s \in Slot, Preempt(c, s) PROVE SameKinds
  <2>1. CASE TickKills(c, s)
    BY <1>2, <2>1 DEF TickKills
  <2>2. CASE yield(c, s)
    <3>1. state[s] = "RUNNING"
      BY <2>2, OnCpu DEF yield, Running, IInv
    <3>2. "RUNNABLE" \in Live
      BY DEF Live
    <3> QED  BY <1>4, <2>2, <3>1, <3>2 DEF yield
  <2> QED  BY <1>6, <2>1, <2>2 DEF Preempt
<1>7. ASSUME NEW c \in CPU, NEW s \in Slot, KernelStep(c, s)
      PROVE  \/ SameKinds
             \/ allocproc(c, s) \/ ForkFails(c, s) \/ fork(c, s) \/ WaitReaps(c, s)
             \/ \E status \in Status : exit(c, s, status)
  <2>a. "SLEEPING" \in Live
    BY DEF Live
  <2>1. CASE SyscallReturn(c, s)
    BY <1>2, <2>1 DEF SyscallReturn
  <2>2. CASE Release(c, s)
    BY <1>2, <2>2 DEF Release
  <2>3. CASE TableFull(c, s)
    BY <1>2, <2>3 DEF TableFull
  <2>4. CASE sys_exit(c, s)
    BY <1>2, <2>4 DEF sys_exit
  <2>5. CASE ExitPanics(c, s)
    BY <1>2, <2>5 DEF ExitPanics
  <2>6. CASE wait(c, s)
    <3>1. CASE WaitFails(c, s)
      BY <1>3, <3>1 DEF WaitFails, WaitReturns
    <3>2. CASE WaitSleeps(c, s)
      <4>1. state[s] = "RUNNING"
        BY <3>2, WaitingLock DEF WaitSleeps, IInv
      <4> QED  BY <1>4, <2>a, <3>2, <4>1 DEF WaitSleeps
    <3> QED  BY <2>6, <3>1, <3>2 DEF wait
  <2>7. CASE sys_sleep(c, s)
    BY <1>2, <2>7 DEF sys_sleep
  <2>8. CASE sleep(c, s)
    <3>1. state[s] = "RUNNING"
      BY <2>8, OnCpu DEF sleep, Running, IInv
    <3> QED  BY <1>4, <2>a, <2>8, <3>1 DEF sleep
  <2>9. CASE SleepReturns(c, s)
    BY <1>3, <2>9 DEF SleepReturns
  <2>10. ASSUME NEW n \in KillPids, kill(c, s, n) PROVE SameKinds
    <3>1. UNCHANGED <<pid, parent, ret, nextpid>>
      BY <2>10 DEF kill
    <3>2. PICK p \in Slot : state' = [state EXCEPT ![p] = IF @ = "SLEEPING" THEN "RUNNABLE" ELSE @]
      BY <2>10 DEF kill
    <3>3. \A t \in Slot : Kind(state'[t]) = Kind(state[t])
      BY <1>1, <3>2 DEF Kind, Live
    <3> QED  BY <3>1, <3>3 DEF SameKinds
  <2>11. ASSUME NEW n \in KillPids, NoSuchPid(c, s, n) PROVE SameKinds
    BY <1>2, <2>11 DEF NoSuchPid
  <2>12. ASSUME NEW pr \in Prios, BadPrio(c, s, pr) PROVE SameKinds
    BY <1>2, <2>12 DEF BadPrio
  <2>13. ASSUME NEW pr \in Prios, NEW n \in PrioPids, setprocprio(c, s, n, pr) PROVE SameKinds
    BY <1>3, <2>13 DEF setprocprio
  <2> QED  BY <1>7, <2>1, <2>2, <2>3, <2>4, <2>5, <2>6, <2>7, <2>8, <2>9, <2>10, <2>11, <2>12, <2>13,
              Zenon DEF KernelStep
<1>8. CASE Tick
  <2>1. UNCHANGED <<pid, parent, ret, nextpid>> /\ state' = wakeup1(state, Ticks)
    BY <1>8 DEF Tick
  <2> QED  BY <1>1, <2>1, WakeKinds DEF SameKinds
<1>9. CASE UNCHANGED vars
  BY <1>2, <1>9 DEF vars
<1> QED  BY <1>5, <1>6, <1>7, <1>8, <1>9, schedulerKinds, Zenon DEF Next

\* exit() makes a zombie of its caller and keeps the other kinds.
LEMMA ExitKinds ==
  ASSUME IInv, NEW c \in CPU, NEW s \in Slot, NEW x \in Status, exit(c, s, x)
  PROVE  /\ state[s] = "RUNNING" /\ s # initproc
         /\ state' \in [Slot -> States] /\ state'[s] = "ZOMBIE"
         /\ \A t \in Slot \ {s} : Kind(state'[t]) = Kind(state[t])
<1> DEFINE woken == wakeup1(state, parent[s])
           initwoken == IF \E p \in Kids(s) : woken[p] = "ZOMBIE"
                          THEN wakeup1(woken, initproc) ELSE woken
<1>1. state[s] = "RUNNING" /\ s # initproc
  BY OnCpu DEF exit, Running, IInv
<1>2. state' = [initwoken EXCEPT ![s] = "ZOMBIE"]
  BY DEF exit
<1>3. state \in [Slot -> States]
  BY DEF IInv, TypeOK
<1>4. woken \in [Slot -> States] /\ \A t \in Slot : Kind(woken[t]) = Kind(state[t])
  BY <1>3, WakeKinds
<1>5. initwoken \in [Slot -> States] /\ \A t \in Slot : Kind(initwoken[t]) = Kind(state[t])
  <2> HIDE DEF woken
  <2> QED  BY <1>4, WakeKinds
<1>6. "ZOMBIE" \in States
  BY DEF States
<1> HIDE DEF initwoken
<1> QED  BY <1>1, <1>2, <1>5, <1>6

\* Pids stay in their range.
LEMMA RangeKept == IInv /\ IInv' /\ PidRange /\ [Next]_vars => PidRange'
<1> SUFFICES ASSUME IInv, IInv', PidRange, [Next]_vars PROVE PidRange'
  OBVIOUS
<1>1. /\ state \in [Slot -> States] /\ pid \in [Slot -> Nat] /\ nextpid \in Nat
      /\ state' \in [Slot -> States] /\ MaxPid \in Nat
      /\ initproc \in Slot /\ state[initproc] \in Live
  BY ProcAssumption DEF IInv, TypeOK, TreeInv, Slot, initproc
<1>2. ASSUME UNCHANGED <<pid, nextpid>>, \A t \in Slot : state[t] = "UNUSED" => state'[t] = "UNUSED"
      PROVE  PidRange'
  BY <1>2 DEF PidRange
<1>3. CASE SameKinds
  <2>1. \A t \in Slot : state[t] = "UNUSED" => state'[t] = "UNUSED"
    BY <1>1, <1>3, Kinds DEF SameKinds
  <2> QED  BY <1>2, <1>3, <2>1 DEF SameKinds
<1>4. ASSUME NEW c \in CPU, NEW s \in Slot, allocproc(c, s) PROVE PidRange'
  <2>1. PICK p \in Slot : /\ state[p] = "UNUSED"
                          /\ state' = [state EXCEPT ![p] = "EMBRYO"]
                          /\ pid' = [pid EXCEPT ![p] = nextpid]
    BY <1>4 DEF allocproc, First, WithState
  <2>2. nextpid' = nextpid + 1 /\ nextpid <= MaxPid
    BY <1>4 DEF allocproc
  <2>3. p # initproc
    BY <1>1, <2>1 DEF Live
  <2>4. nextpid' \in 2..MaxPid + 1
    BY <1>1, <2>2 DEF PidRange
  <2>5. nextpid \in 1..MaxPid
    BY <1>1, <2>2 DEF PidRange
  <2>6. pid'[initproc] = 1
    BY <1>1, <2>1, <2>3 DEF PidRange
  <2>7. \A t \in Slot : state'[t] # "UNUSED" => pid'[t] \in 1..MaxPid
    BY <1>1, <2>1, <2>5 DEF PidRange
  <2> QED  BY <2>4, <2>6, <2>7 DEF PidRange
<1>5. ASSUME NEW c \in CPU, NEW s \in Slot, ForkFails(c, s) \/ fork(c, s) PROVE PidRange'
  <2>1. UNCHANGED <<pid, nextpid>> /\ pc[s] = "fork"
    BY <1>5 DEF ForkFails, fork
  <2>2. np[s] \in Slot /\ state[np[s]] = "EMBRYO"
    BY <2>1 DEF IInv, ForkInv
  <2>3. \A t \in Slot \ {np[s]} : state'[t] = state[t]
    BY <1>1, <1>5, <2>2 DEF ForkFails, fork
  <2> QED  BY <1>2, <2>1, <2>2, <2>3
<1>6. ASSUME NEW c \in CPU, NEW s \in Slot, WaitReaps(c, s) PROVE PidRange'
  <2>1. PICK p \in Slot : /\ state[p] = "ZOMBIE"
                          /\ state' = [state EXCEPT ![p] = "UNUSED"]
                          /\ pid' = [pid EXCEPT ![p] = 0]
    BY <1>6 DEF WaitReaps, First, Zombies
  <2>2. nextpid' = nextpid
    BY <1>6 DEF WaitReaps, WaitReturns
  <2>3. p # initproc
    BY <1>1, <2>1 DEF Live
  <2> QED  BY <1>1, <2>1, <2>2, <2>3 DEF PidRange
<1>7. ASSUME NEW c \in CPU, NEW s \in Slot, NEW x \in Status, exit(c, s, x) PROVE PidRange'
  <2>1. UNCHANGED <<pid, nextpid>>
    BY <1>7 DEF exit
  <2>2. \A t \in Slot \ {s} : Kind(state'[t]) = Kind(state[t])
    BY <1>7, ExitKinds
  <2>3. state[s] = "RUNNING"
    BY <1>7, ExitKinds
  <2>4. \A t \in Slot : state[t] = "UNUSED" => state'[t] = "UNUSED"
    BY <1>1, <2>2, <2>3, Kinds
  <2> QED  BY <1>2, <2>1, <2>4
<1> QED  BY <1>3, <1>4, <1>5, <1>6, <1>7, KindsOfSteps, Zenon

\* What the table shows of a pid n whose slot t a step leaves alone.
LEMMA SameAt ==
  ASSUME Mapped, Mapped', state \in [Slot -> States], state' \in [Slot -> States],
         NEW t \in Slot, state[t] # "UNUSED",
         Kind(state'[t]) = Kind(state[t]), pid'[t] = pid[t], ret'[t] = ret[t]
  PROVE  /\ life'[pid[t]] = life[pid[t]]
         /\ parentOf[pid[t]] = ParentPid(t) /\ parentOf'[pid[t]] = ParentPid(t)'
         /\ code'[pid[t]] = code[pid[t]]
<1>1. state'[t] # "UNUSED" /\ (state'[t] = "ZOMBIE" <=> state[t] = "ZOMBIE")
  BY Kinds
<1>2. /\ life[pid[t]] = Kind(state[t])
      /\ parentOf[pid[t]] = ParentPid(t)
      /\ code[pid[t]] = IF state[t] = "ZOMBIE" THEN ret[t] ELSE 0
  BY DEF Mapped
<1>3. /\ life'[pid'[t]] = Kind(state'[t])
      /\ parentOf'[pid'[t]] = ParentPid(t)'
      /\ code'[pid'[t]] = IF state'[t] = "ZOMBIE" THEN ret'[t] ELSE 0
  BY <1>1 DEF Mapped
<1> QED  BY <1>1, <1>2, <1>3

\* What it shows of a pid that no slot has, before and after a step.
LEMMA SameFree ==
  ASSUME Mapped, Mapped', NEW n \in 1..MaxPid, Free(n), Free(n)', n >= nextpid <=> n >= nextpid'
  PROVE  life'[n] = life[n] /\ parentOf'[n] = parentOf[n] /\ code'[n] = code[n]
BY DEF Mapped

\* Two functions on pids that agree everywhere.
LEMMA Pointwise ==
  ASSUME NEW f, NEW g, f = [n \in 1..MaxPid |-> f[n]], g = [n \in 1..MaxPid |-> g[n]],
         \A n \in 1..MaxPid : f[n] = g[n]
  PROVE  f = g
OBVIOUS

\* A step that keeps the kinds is a stutter of ProcLife.
LEMMA KindsStutter ==
  ASSUME IInv, IInv', Mapped, Mapped', SameKinds
  PROVE  UNCHANGED <<life, parentOf, code>>
<1>1. state \in [Slot -> States] /\ state' \in [Slot -> States]
  BY DEF IInv, TypeOK
<1>2. ASSUME NEW n \in 1..MaxPid
      PROVE  life'[n] = life[n] /\ parentOf'[n] = parentOf[n] /\ code'[n] = code[n]
  <2>1. CASE Free(n)
    <3>1. \A t \in Slot : state[t] = "UNUSED" <=> state'[t] = "UNUSED"
      BY <1>1, Kinds DEF SameKinds
    <3>2. Free(n)' /\ (n >= nextpid <=> n >= nextpid')
      BY <2>1, <3>1 DEF Free, SameKinds
    <3> QED  BY <2>1, <3>2, SameFree
  <2>2. CASE ~Free(n)
    <3>1. PICK t \in Slot : state[t] # "UNUSED" /\ pid[t] = n
      BY <2>2 DEF Free
    <3>2. Kind(state'[t]) = Kind(state[t]) /\ pid'[t] = pid[t] /\ ret'[t] = ret[t]
      BY DEF SameKinds
    <3>3. ParentPid(t)' = ParentPid(t)
      BY DEF ParentPid, SameKinds
    <3>4. /\ life'[pid[t]] = life[pid[t]]
          /\ parentOf[pid[t]] = ParentPid(t) /\ parentOf'[pid[t]] = ParentPid(t)'
          /\ code'[pid[t]] = code[pid[t]]
      BY <1>1, <3>1, <3>2, SameAt, Zenon
    <3> QED  BY <3>1, <3>3, <3>4
  <2> QED  BY <2>1, <2>2
<1> QED  BY <1>2, Pointwise DEF Mapped

\* allocproc() takes a pid for a process that is still unborn.
LEMMA allocprocRefines ==
  ASSUME IInv, IInv', PidRange, Mapped, Mapped', NEW c \in CPU, NEW s \in Slot, allocproc(c, s)
  PROVE  UNCHANGED <<life, parentOf, code>>
<1>1. /\ state \in [Slot -> States] /\ state' \in [Slot -> States]
      /\ pid \in [Slot -> Nat] /\ nextpid \in Nat /\ MaxPid \in Nat
  BY ProcAssumption DEF IInv, TypeOK
<1>2. PICK p \in Slot : /\ state[p] = "UNUSED"
                        /\ state' = [state EXCEPT ![p] = "EMBRYO"]
                        /\ pid' = [pid EXCEPT ![p] = nextpid]
  BY DEF allocproc, First, WithState
<1>3. nextpid' = nextpid + 1 /\ nextpid <= MaxPid /\ parent' = parent /\ ret' = ret
  BY DEF allocproc
<1>4. nextpid \in 1..MaxPid /\ \A t \in Slot : pid[t] < nextpid
  BY <1>1, <1>3 DEF PidRange, IInv, PidInv
<1>5. ASSUME NEW n \in 1..MaxPid
      PROVE  life'[n] = life[n] /\ parentOf'[n] = parentOf[n] /\ code'[n] = code[n]
  <2>1. CASE n = nextpid
    <3>1. Free(n)
      BY <1>1, <1>4, <2>1 DEF Free
    <3>2. life[n] = "unborn" /\ parentOf[n] = 0 /\ code[n] = 0
      BY <1>1, <2>1, <3>1 DEF Mapped
    <3>3. state'[p] = "EMBRYO" /\ pid'[p] = n /\ parent'[p] = 0
      <4>1. parent[p] = 0
        BY <1>2 DEF IInv, TreeInv, NoOrphan
      <4> QED  BY <1>1, <1>2, <1>3, <2>1, <4>1
    <3>4. ParentPid(p)' = 0
      BY <3>3 DEF ParentPid
    <3>5. life'[n] = Kind("EMBRYO") /\ parentOf'[n] = 0 /\ code'[n] = 0
      BY <3>3, <3>4 DEF Mapped
    <3> QED  BY <3>2, <3>5 DEF Kind, Live
  <2>2. CASE n # nextpid /\ Free(n)
    <3>1. Free(n)'
      BY <1>1, <1>2, <2>2 DEF Free
    <3>2. n >= nextpid <=> n >= nextpid'
      BY <1>1, <1>3, <2>2
    <3> QED  BY <2>2, <3>1, <3>2, SameFree
  <2>3. CASE ~Free(n)
    <3>1. PICK t \in Slot : state[t] # "UNUSED" /\ pid[t] = n
      BY <2>3 DEF Free
    <3>2. t # p /\ state'[t] = state[t] /\ pid'[t] = pid[t] /\ ret'[t] = ret[t]
      BY <1>1, <1>2, <1>3, <3>1
    <3>3. parent[t] # 0 => parent[t] \in Slot /\ parent[t] # p
      BY <1>2, LiveParent DEF Live
    <3>4. ParentPid(t)' = ParentPid(t)
      BY <1>1, <1>2, <1>3, <3>3 DEF ParentPid
    <3>5. Kind(state'[t]) = Kind(state[t])
      BY <3>2
    <3>6. /\ life'[pid[t]] = life[pid[t]]
          /\ parentOf[pid[t]] = ParentPid(t) /\ parentOf'[pid[t]] = ParentPid(t)'
          /\ code'[pid[t]] = code[pid[t]]
      BY <1>1, <3>1, <3>2, <3>5, SameAt, Zenon
    <3> QED  BY <3>1, <3>4, <3>6
  <2> QED  BY <2>1, <2>2, <2>3
<1> QED  BY <1>5, Pointwise DEF Mapped

\* A step that changes one slot p, and the parent of no other.
LEMMA OthersSame ==
  ASSUME IInv, IInv', Mapped, Mapped', NEW p \in Slot, nextpid' = nextpid,
         state[p] # "UNUSED", state[p] \notin Live,
         \A t \in Slot \ {p} : /\ state'[t] = state[t] /\ pid'[t] = pid[t]
                               /\ ret'[t] = ret[t] /\ parent'[t] = parent[t],
         pid'[p] \notin 1..MaxPid \/ pid'[p] = pid[p]
  PROVE  \A n \in 1..MaxPid \ {pid[p]} :
           life'[n] = life[n] /\ parentOf'[n] = parentOf[n] /\ code'[n] = code[n]
<1>1. state \in [Slot -> States] /\ state' \in [Slot -> States]
  BY DEF IInv, TypeOK
<1> SUFFICES ASSUME NEW n \in 1..MaxPid, n # pid[p]
             PROVE  life'[n] = life[n] /\ parentOf'[n] = parentOf[n] /\ code'[n] = code[n]
  OBVIOUS
<1>2. CASE Free(n)
  <2>1. Free(n)' /\ (n >= nextpid <=> n >= nextpid')
    BY <1>2 DEF Free
  <2> QED  BY <1>2, <2>1, SameFree
<1>3. CASE ~Free(n)
  <2>1. PICK t \in Slot : state[t] # "UNUSED" /\ pid[t] = n
    BY <1>3 DEF Free
  <2>2. t # p
    BY <2>1
  <2>3. parent[t] # 0 => parent[t] \in Slot /\ parent[t] # p
    BY LiveParent
  <2>4. ParentPid(t)' = ParentPid(t)
    BY <2>2, <2>3 DEF ParentPid
  <2>5. state'[t] = state[t] /\ pid'[t] = pid[t] /\ ret'[t] = ret[t]
    BY <2>2
  <2>6. Kind(state'[t]) = Kind(state[t])
    BY <2>5
  <2>7. /\ life'[pid[t]] = life[pid[t]]
        /\ parentOf[pid[t]] = ParentPid(t) /\ parentOf'[pid[t]] = ParentPid(t)'
        /\ code'[pid[t]] = code[pid[t]]
    BY <1>1, <2>1, <2>5, <2>6, SameAt, Zenon
  <2> QED  BY <2>1, <2>4, <2>7
<1> QED  BY <1>2, <1>3

\* A fork that fails uses up the pid of its EMBRYO.
LEMMA ForkFailsRefines ==
  ASSUME IInv, IInv', PidRange, Mapped, Mapped', NEW c \in CPU, NEW s \in Slot, ForkFails(c, s)
  PROVE  \E n \in 1..MaxPid : Life!ForkFails(n)
<1>1. /\ state \in [Slot -> States] /\ pid \in [Slot -> Nat] /\ nextpid \in Nat
  BY DEF IInv, TypeOK
<1>2. UNCHANGED <<pid, parent, ret, nextpid>>
  BY DEF ForkFails
<1>3. PICK p \in Slot : state[p] = "EMBRYO" /\ state' = [state EXCEPT ![p] = "UNUSED"]
  BY DEF ForkFails, IInv, ForkInv
<1>4. PICK n \in 1..MaxPid : n = pid[p] /\ ~(n >= nextpid)
  BY <1>1, <1>3 DEF PidRange, IInv, PidInv
<1>5. \A t \in Slot : state[t] # "UNUSED" /\ pid[t] = n => t = p
  BY <1>3, <1>4 DEF IInv, PidInv, UniquePids
<1>6. state'[p] = "UNUSED" /\ \A t \in Slot \ {p} : state'[t] = state[t]
  BY <1>1, <1>3
<1>7. \A m \in 1..MaxPid \ {n} :
        life'[m] = life[m] /\ parentOf'[m] = parentOf[m] /\ code'[m] = code[m]
  <2>1. state[p] # "UNUSED" /\ state[p] \notin Live
    BY <1>3 DEF Live
  <2> QED  BY <1>2, <1>4, <1>6, <2>1, OthersSame
<1>8. life[n] = "unborn" /\ parentOf[n] = 0 /\ code[n] = 0
  <2>1. parent[p] = 0
    BY <1>3 DEF IInv, TreeInv, NoOrphan
  <2>2. ParentPid(p) = 0
    BY <2>1 DEF ParentPid
  <2>3. life[n] = Kind("EMBRYO") /\ parentOf[n] = 0 /\ code[n] = 0
    BY <1>3, <1>4, <2>2 DEF Mapped
  <2> QED  BY <2>3 DEF Kind, Live
<1>9. Free(n)'
  BY <1>2, <1>5, <1>6 DEF Free
<1>10. life'[n] = "gone" /\ parentOf'[n] = 0 /\ code'[n] = 0
  BY <1>2, <1>4, <1>9 DEF Mapped
<1>11. life' = [life EXCEPT ![n] = "gone"]
  BY <1>4, <1>7, <1>10 DEF Mapped
<1>12. parentOf' = parentOf /\ code' = code
  BY <1>7, <1>8, <1>10, Pointwise DEF Mapped
<1> QED  BY <1>4, <1>8, <1>11, <1>12 DEF Life!ForkFails

\* fork() gives birth to a child of its caller.
LEMMA forkRefines ==
  ASSUME IInv, IInv', PidRange, Mapped, Mapped', NEW c \in CPU, NEW s \in Slot, fork(c, s)
  PROVE  \E q, n \in 1..MaxPid : Life!Fork(q, n)
<1>1. /\ state \in [Slot -> States] /\ pid \in [Slot -> Nat] /\ nextpid \in Nat
      /\ parent \in [Slot -> Slot \cup {0}] /\ 0 \notin Slot
  <2>1. 0 \notin Slot
    BY DEF Slot
  <2>2. TypeOK
    BY DEF IInv
  <2> QED  BY <2>1, <2>2 DEF TypeOK
<1>2. UNCHANGED <<pid, ret, nextpid>>
  BY DEF fork
<1>3. PICK p \in Slot : /\ state[p] = "EMBRYO"
                        /\ state' = [state EXCEPT ![p] = "RUNNABLE"]
                        /\ parent' = [parent EXCEPT ![p] = s]
  BY DEF fork, IInv, ForkInv
<1>4. state[s] = "RUNNING"
  BY OnCpu DEF fork, Running, IInv
<1>5. PICK n \in 1..MaxPid : n = pid[p]
  BY <1>3 DEF PidRange
<1>6. PICK q \in 1..MaxPid : q = pid[s]
  BY <1>4 DEF PidRange
<1>7. /\ state'[p] = "RUNNABLE" /\ parent'[p] = s
      /\ \A t \in Slot \ {p} : state'[t] = state[t] /\ parent'[t] = parent[t]
  BY <1>1, <1>3
<1>8. \A m \in 1..MaxPid \ {n} :
        life'[m] = life[m] /\ parentOf'[m] = parentOf[m] /\ code'[m] = code[m]
  <2>1. state[p] # "UNUSED" /\ state[p] \notin Live
    BY <1>3 DEF Live
  <2> QED  BY <1>2, <1>5, <1>7, <2>1, OthersSame
<1>9. life[q] = "alive"
  <2>1. life[q] = Kind("RUNNING")
    BY <1>4, <1>6 DEF Mapped
  <2> QED  BY <2>1 DEF Kind, Live
<1>10. life[n] = "unborn" /\ code[n] = 0
  <2>1. life[n] = Kind("EMBRYO") /\ code[n] = 0
    BY <1>3, <1>5 DEF Mapped
  <2> QED  BY <2>1 DEF Kind, Live
<1>11. life'[n] = "alive" /\ parentOf'[n] = q /\ code'[n] = 0
  <2>1. ParentPid(p)' = q
    BY <1>1, <1>2, <1>6, <1>7 DEF ParentPid
  <2>2. life'[n] = Kind("RUNNABLE") /\ parentOf'[n] = q /\ code'[n] = 0
    BY <1>2, <1>5, <1>7, <2>1 DEF Mapped
  <2> QED  BY <2>2 DEF Kind, Live
<1>12. life' = [life EXCEPT ![n] = "alive"]
  BY <1>8, <1>11 DEF Mapped
<1>13. parentOf' = [parentOf EXCEPT ![n] = q]
  BY <1>8, <1>11 DEF Mapped
<1>14. code' = code
  BY <1>8, <1>10, <1>11, Pointwise DEF Mapped
<1> QED  BY <1>9, <1>10, <1>12, <1>13, <1>14 DEF Life!Fork

\* wait() reaps a zombie of its caller, which is gone for good.
LEMMA WaitReapsRefines ==
  ASSUME IInv, IInv', PidRange, Mapped, Mapped', NEW c \in CPU, NEW s \in Slot, WaitReaps(c, s)
  PROVE  \E q, n \in 1..MaxPid : Life!Wait(q, n)
<1>1. /\ state \in [Slot -> States] /\ pid \in [Slot -> Nat] /\ nextpid \in Nat
      /\ parent \in [Slot -> Slot \cup {0}] /\ 0 \notin Slot /\ 0 \notin 1..MaxPid
  <2>1. 0 \notin Slot /\ 0 \notin 1..MaxPid
    BY DEF Slot
  <2>2. TypeOK
    BY DEF IInv
  <2> QED  BY <2>1, <2>2 DEF TypeOK
<1>2. UNCHANGED <<ret, nextpid>>
  BY DEF WaitReaps, WaitReturns
<1>3. PICK p \in Slot : /\ state[p] = "ZOMBIE" /\ parent[p] = s
                        /\ pid' = [pid EXCEPT ![p] = 0]
                        /\ parent' = [parent EXCEPT ![p] = 0]
                        /\ state' = [state EXCEPT ![p] = "UNUSED"]
  BY DEF WaitReaps, First, Zombies, Kids
<1>4. state[s] = "RUNNING"
  BY WaitingLock DEF WaitReaps, IInv
<1>5. PICK n \in 1..MaxPid : n = pid[p] /\ ~(n >= nextpid)
  BY <1>1, <1>3 DEF PidRange, IInv, PidInv
<1>6. PICK q \in 1..MaxPid : q = pid[s]
  BY <1>4 DEF PidRange
<1>7. /\ state'[p] = "UNUSED" /\ pid'[p] = 0
      /\ \A t \in Slot \ {p} : state'[t] = state[t] /\ pid'[t] = pid[t] /\ parent'[t] = parent[t]
  BY <1>1, <1>3
<1>8. \A m \in 1..MaxPid \ {n} :
        life'[m] = life[m] /\ parentOf'[m] = parentOf[m] /\ code'[m] = code[m]
  <2>1. state[p] # "UNUSED" /\ state[p] \notin Live
    BY <1>3 DEF Live
  <2> QED  BY <1>1, <1>2, <1>5, <1>7, <2>1, OthersSame
<1>9. life[q] = "alive"
  <2>1. life[q] = Kind("RUNNING")
    BY <1>4, <1>6 DEF Mapped
  <2> QED  BY <2>1 DEF Kind, Live
<1>10. life[n] = "zombie" /\ parentOf[n] = q
  <2>1. ParentPid(p) = q
    BY <1>1, <1>3, <1>6 DEF ParentPid
  <2>2. life[n] = Kind("ZOMBIE") /\ parentOf[n] = q
    BY <1>3, <1>5, <2>1 DEF Mapped
  <2> QED  BY <2>2 DEF Kind, Live
<1>11. \A t \in Slot : state[t] # "UNUSED" /\ pid[t] = n => t = p
  BY <1>3, <1>5 DEF IInv, PidInv, UniquePids
<1>12. Free(n)'
  BY <1>7, <1>11 DEF Free
<1>13. life'[n] = "gone" /\ parentOf'[n] = 0 /\ code'[n] = 0
  BY <1>2, <1>5, <1>12 DEF Mapped
<1>14. life' = [life EXCEPT ![n] = "gone"]
  BY <1>8, <1>13 DEF Mapped
<1>15. parentOf' = [parentOf EXCEPT ![n] = 0]
  BY <1>8, <1>13 DEF Mapped
<1>16. code' = [code EXCEPT ![n] = 0]
  BY <1>8, <1>13 DEF Mapped
<1> QED  BY <1>9, <1>10, <1>14, <1>15, <1>16 DEF Life!Wait

\* exit() leaves a zombie with its status, and its children to init.
LEMMA exitRefines ==
  ASSUME IInv, IInv', PidRange, Mapped, Mapped',
         NEW c \in CPU, NEW s \in Slot, NEW x \in Status, exit(c, s, x)
  PROVE  \E q \in 1..MaxPid, y \in Status : Life!Exit(q, y)
<1>1. /\ state \in [Slot -> States] /\ state' \in [Slot -> States] /\ pid \in [Slot -> Nat]
      /\ parent \in [Slot -> Slot \cup {0}] /\ 0 \notin Slot /\ 0 \notin 1..MaxPid
      /\ initproc \in Slot /\ state[initproc] \in Live /\ ret \in [Slot -> Status \cup {0}]
  <2>1. 0 \notin Slot /\ 0 \notin 1..MaxPid /\ initproc \in Slot
    BY ProcAssumption DEF Slot, initproc
  <2>2. TypeOK /\ TypeOK' /\ TreeInv
    BY DEF IInv
  <2> QED  BY <2>1, <2>2 DEF TypeOK, TreeInv
<1>2. /\ UNCHANGED <<pid, nextpid>>
      /\ parent' = [p \in Slot |-> IF parent[p] = s THEN initproc ELSE parent[p]]
      /\ ret' = [ret EXCEPT ![s] = x]
  BY DEF exit
<1>3. /\ state[s] = "RUNNING" /\ s # initproc /\ state'[s] = "ZOMBIE"
      /\ \A t \in Slot \ {s} : Kind(state'[t]) = Kind(state[t])
  BY ExitKinds
<1>4. PICK q \in 1..MaxPid : q = pid[s]
  BY <1>3 DEF PidRange
<1>5. \A t \in Slot : state[t] # "UNUSED" /\ pid[t] = q => t = s
  BY <1>3, <1>4 DEF IInv, PidInv, UniquePids
<1>6. q # 1 /\ pid[initproc] = 1
  BY <1>1, <1>3, <1>5 DEF PidRange, Live
<1>7. ASSUME NEW t \in Slot
      PROVE  ParentPid(t)' = IF ParentPid(t) = q THEN 1 ELSE ParentPid(t)
  <2>1. CASE parent[t] = 0
    BY <1>1, <1>2, <2>1 DEF ParentPid
  <2>2. CASE parent[t] = s
    BY <1>1, <1>2, <1>4, <1>6, <2>2 DEF ParentPid
  <2>3. CASE parent[t] # 0 /\ parent[t] # s
    <3>1. parent[t] \in Slot /\ state[parent[t]] # "UNUSED"
      BY <2>3, LiveParent DEF Live
    <3>2. pid[parent[t]] # q
      BY <1>5, <2>3, <3>1
    <3> QED  BY <1>1, <1>2, <2>3, <3>1, <3>2 DEF ParentPid
  <2> QED  BY <2>1, <2>2, <2>3
<1>8. ASSUME NEW n \in 1..MaxPid, n # q
      PROVE  /\ life'[n] = life[n] /\ code'[n] = code[n]
             /\ parentOf'[n] = IF parentOf[n] = q THEN 1 ELSE parentOf[n]
  <2>1. CASE Free(n)
    <3>1. \A t \in Slot \ {s} : state'[t] # "UNUSED" => state[t] # "UNUSED"
      BY <1>1, <1>3, Kinds
    <3>2. Free(n)' /\ (n >= nextpid <=> n >= nextpid')
      BY <1>2, <1>4, <1>8, <2>1, <3>1 DEF Free
    <3>3. parentOf[n] = 0
      BY <2>1 DEF Mapped
    <3>4. life'[n] = life[n] /\ parentOf'[n] = parentOf[n] /\ code'[n] = code[n]
      BY <2>1, <3>2, SameFree
    <3> QED  BY <1>1, <3>3, <3>4
  <2>2. CASE ~Free(n)
    <3>1. PICK t \in Slot : state[t] # "UNUSED" /\ pid[t] = n
      BY <2>2 DEF Free
    <3>2. t # s
      BY <1>4, <1>8, <3>1
    <3>3. Kind(state'[t]) = Kind(state[t]) /\ pid'[t] = pid[t] /\ ret'[t] = ret[t]
      BY <1>1, <1>2, <1>3, <3>2
    <3>4. /\ life'[pid[t]] = life[pid[t]]
          /\ parentOf[pid[t]] = ParentPid(t) /\ parentOf'[pid[t]] = ParentPid(t)'
          /\ code'[pid[t]] = code[pid[t]]
      BY <1>1, <3>1, <3>3, SameAt, Zenon
    <3> QED  BY <1>7, <3>1, <3>4
  <2> QED  BY <2>1, <2>2
<1>9. life[q] = "alive"
  <2>1. life[q] = Kind("RUNNING")
    BY <1>3, <1>4 DEF Mapped
  <2> QED  BY <2>1 DEF Kind, Live
<1>10. /\ life'[q] = "zombie" /\ code'[q] = x
       /\ parentOf'[q] = IF parentOf[q] = q THEN 1 ELSE parentOf[q]
  <2>1. ret'[s] = x /\ pid'[s] = q
    BY <1>1, <1>2, <1>4
  <2>2. life'[q] = Kind("ZOMBIE") /\ parentOf'[q] = ParentPid(s)' /\ code'[q] = x
    BY <1>3, <2>1 DEF Mapped
  <2>3. parentOf[q] = ParentPid(s)
    BY <1>3, <1>4 DEF Mapped
  <2> QED  BY <1>7, <2>2, <2>3 DEF Kind, Live
<1>11. life' = [life EXCEPT ![q] = "zombie"]
  BY <1>8, <1>10 DEF Mapped
<1>12. code' = [code EXCEPT ![q] = x]
  BY <1>8, <1>10 DEF Mapped
<1>13. parentOf' = [n \in 1..MaxPid |-> IF parentOf[n] = q THEN 1 ELSE parentOf[n]]
  <2>1. \A n \in 1..MaxPid : parentOf'[n] = IF parentOf[n] = q THEN 1 ELSE parentOf[n]
    BY <1>8, <1>10
  <2> QED  BY <2>1 DEF Mapped
<1> QED  BY <1>6, <1>9, <1>11, <1>12, <1>13 DEF Life!Exit

\* Every step of the table is a step of ProcLife or a stutter.
LEMMA StepRefines == IInv /\ IInv' /\ PidRange /\ PidRange' /\ [Next]_vars => [Life!Next]_(Life!vars)
<1> SUFFICES ASSUME IInv, IInv', PidRange, PidRange', [Next]_vars
             PROVE  Life!Next \/ UNCHANGED <<life, parentOf, code>>
  BY DEF Life!vars
<1>1. Mapped /\ Mapped'
  BY MapIs, MapIsNext
<1>2. CASE SameKinds
  BY <1>1, <1>2, KindsStutter
<1>3. ASSUME NEW c \in CPU, NEW s \in Slot, allocproc(c, s)
      PROVE  UNCHANGED <<life, parentOf, code>>
  BY <1>1, <1>3, allocprocRefines
<1>4. ASSUME NEW c \in CPU, NEW s \in Slot, ForkFails(c, s) PROVE Life!Next
  BY <1>1, <1>4, ForkFailsRefines, Zenon DEF Life!Next
<1>5. ASSUME NEW c \in CPU, NEW s \in Slot, fork(c, s) PROVE Life!Next
  BY <1>1, <1>5, forkRefines, Zenon DEF Life!Next
<1>6. ASSUME NEW c \in CPU, NEW s \in Slot, WaitReaps(c, s) PROVE Life!Next
  BY <1>1, <1>6, WaitReapsRefines, Zenon DEF Life!Next
<1>7. ASSUME NEW c \in CPU, NEW s \in Slot, NEW x \in Status, exit(c, s, x) PROVE Life!Next
  BY <1>1, <1>7, exitRefines, Zenon DEF Life!Next
<1> QED  BY <1>2, <1>3, <1>4, <1>5, <1>6, <1>7, KindsOfSteps, Zenon

\* The table starts with init alone.
LEMMA InitRefines == Init => PidRange /\ Life!Init
<1> SUFFICES ASSUME Init PROVE PidRange /\ Life!Init
  OBVIOUS
<1>1. initproc \in Slot /\ MaxPid \in Nat \ {0}
  BY ProcAssumption DEF Slot, initproc
<1>2. /\ nextpid = 2 /\ pid[initproc] = 1 /\ state[initproc] = "RUNNABLE"
      /\ \A t \in Slot : t # initproc => state[t] = "UNUSED"
      /\ parent[initproc] = 0
  BY <1>1 DEF Init
<1>3. PidRange
  <2>1. 2 \in 2..MaxPid + 1 /\ 1 \in 1..MaxPid
    BY <1>1
  <2>2. \A t \in Slot : state[t] # "UNUSED" => pid[t] \in 1..MaxPid
    BY <1>2, <2>1
  <2> QED  BY <1>2, <2>1, <2>2 DEF PidRange
<1>4. Mapped
  BY <1>3, InitKeeps, MapIs
<1>5. life[1] = "alive" /\ parentOf[1] = 0 /\ code[1] = 0
  <2>1. ParentPid(initproc) = 0
    BY <1>2 DEF ParentPid
  <2>2. life[1] = Kind("RUNNABLE") /\ parentOf[1] = 0 /\ code[1] = 0
    BY <1>1, <1>2, <1>4, <2>1 DEF Mapped
  <2> QED  BY <2>2 DEF Kind, Live
<1>6. ASSUME NEW n \in 1..MaxPid, n # 1
      PROVE  life[n] = "unborn" /\ parentOf[n] = 0 /\ code[n] = 0
  <2>1. Free(n)
    BY <1>2, <1>6 DEF Free
  <2> QED  BY <1>1, <1>2, <1>4, <1>6, <2>1 DEF Mapped
<1>7. life = [n \in 1..MaxPid |-> IF n = 1 THEN "alive" ELSE "unborn"]
  BY <1>4, <1>5, <1>6 DEF Mapped
<1>8. parentOf = [n \in 1..MaxPid |-> 0]
  BY <1>4, <1>5, <1>6 DEF Mapped
<1>9. code = [n \in 1..MaxPid |-> 0]
  BY <1>4, <1>5, <1>6 DEF Mapped
<1> QED  BY <1>3, <1>7, <1>8, <1>9 DEF Life!Init

\* fork(), exit() and wait() implement the life cycle of a process: born once
\* to a living parent, exited once, reaped once with the status it exited
\* with, by its parent or by init, for any number of slots, CPUs and pids.
THEOREM LifeCycleHolds == Spec => LifeCycle
BY Invariance, InitRefines, RangeKept, StepRefines, PTL DEF Spec, LifeCycle, Life!Spec
=============================================================================
