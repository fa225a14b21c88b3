----------------------------- MODULE ProcProofs -----------------------------
(***************************************************************************)
(* The steps by which a process acts on other slots (allocproc(), fork(),  *)
(* kill(), the clock tick and exit()) and those of the scheduler keep IInv. *)
(* The theorems at the end state the properties of Proc for every table    *)
(* size and every set of processors.                                       *)
(***************************************************************************)
EXTENDS ProcInv

\* Steps that change the state of processes that are on no CPU.
LEMMA allocprocKeeps ==
  ASSUME IInv, NEW c \in CPU, NEW s \in Slot, allocproc(c, s)
  PROVE  IInv'
<1> USE ProcAssumption DEF IInv, cpuVars
<1>1. ctx[c] = "proc" /\ cproc[c] = s /\ lock = 0 /\ pc[s] = "kernel"
  BY DEF allocproc, Running
<1>2. state[s] = "RUNNING"
  BY <1>1, OnCpu
<1>3. PICK p \in Slot :
        /\ state[p] = "UNUSED"
        /\ state' = [state EXCEPT ![p] = "EMBRYO"]
        /\ pid' = [pid EXCEPT ![p] = nextpid]
        /\ np' = [np EXCEPT ![s] = p]
  BY DEF allocproc, First, WithState
<1>4. /\ nextpid' = nextpid + 1 /\ pc' = [pc EXCEPT ![s] = "fork"]
      /\ UNCHANGED <<parent, killed, prio, chan, ret, lock, susp, cproc, ctx, nalta, pnormal, second, panicked>>
  BY DEF allocproc, Goto
<1>5. TypeOK'
  <2>1. state' \in [Slot -> States] /\ pc' \in [Slot -> Pcs]
    BY <1>3, <1>4 DEF TypeOK, States, Pcs
  <2>2. pid' \in [Slot -> Nat] /\ nextpid' \in Nat /\ np' \in [Slot -> Slot \cup {0}]
    BY <1>3, <1>4 DEF TypeOK
  <2> QED  BY <1>4, <2>1, <2>2 DEF TypeOK
<1>6. CpuInv'
  <2>1. \A d \in CPU : ctx[d] # "back"
    BY <1>1 DEF CpuInv
  <2>2. state' \in [Slot -> States] /\ susp' \in [Slot -> Susps]
    BY <1>5 DEF TypeOK
  <2>3. \A t \in Slot : state[t] = "RUNNING" <=> state'[t] = "RUNNING"
    BY <1>3 DEF TypeOK
  <2> QED  BY <1>4, <2>1, <2>2, <2>3, StayOnCpu
<1>7. ThreadInv'
  BY <1>3, <1>4 DEF ThreadInv, TypeOK
<1>8. ForkInv'
  <2>1. \A t \in Slot : pc[t] = "fork" => t # s /\ np[t] # p
    BY <1>1, <1>3 DEF ForkInv
  <2>2. \A t \in Slot \ {s} : pc'[t] = pc[t] /\ np'[t] = np[t]
    BY <1>3, <1>4 DEF TypeOK
  <2>3. np'[s] = p /\ state'[p] = "EMBRYO" /\ \A t \in Slot \ {p} : state'[t] = state[t]
    BY <1>3 DEF TypeOK
  <2>4. ASSUME NEW t \in Slot, pc'[t] = "fork"
        PROVE  np'[t] \in Slot /\ state'[np'[t]] = "EMBRYO"
    <3>1. CASE t = s
      BY <2>3, <3>1
    <3>2. CASE t # s
      <4>1. pc[t] = "fork" /\ np'[t] = np[t]
        BY <2>2, <2>4, <3>2
      <4>2. np[t] \in Slot \ {p} /\ state[np[t]] = "EMBRYO"
        BY <2>1, <4>1 DEF ForkInv
      <4> QED  BY <2>3, <4>1, <4>2
    <3> QED  BY <3>1, <3>2
  <2>5. ASSUME NEW t \in Slot, NEW u \in Slot, pc'[t] = "fork", pc'[u] = "fork", np'[u] = np'[t]
        PROVE  t = u
    BY <2>1, <2>2, <2>3, <2>5 DEF ForkInv
  <2> QED  BY <2>4, <2>5 DEF ForkInv
<1>9. TreeInv'
  BY <1>3, <1>4 DEF TreeInv, NoOrphan, Live, TypeOK
<1>10. NoLostExit'
  BY <1>3, <1>4 DEF NoLostExit, Kids, TypeOK
<1>11. PidInv'
  <2>1. pid \in [Slot -> Nat] /\ nextpid \in Nat /\ state \in [Slot -> States]
    BY DEF TypeOK
  <2>2. \A t \in Slot : pid'[t] < nextpid'
    BY <1>3, <1>4, <2>1 DEF PidInv
  <2>3. \A t \in Slot \ {p} : pid'[t] = pid[t] /\ pid'[t] # pid'[p] /\ state'[t] = state[t]
    BY <1>3, <2>1 DEF PidInv
  <2>4. UniquePids'
    BY <2>3 DEF PidInv, UniquePids
  <2> QED  BY <2>2, <2>4 DEF PidInv
<1>12. SchedInv'
  BY <1>4 DEF SchedInv
<1> QED  BY <1>5, <1>6, <1>7, <1>8, <1>9, <1>10, <1>11, <1>12

\* A failed fork() gives back a slot that only it knows of, without the lock.
LEMMA ForkFailsKeeps ==
  ASSUME IInv, NEW c \in CPU, NEW s \in Slot, ForkFails(c, s)
  PROVE  IInv'
<1> USE ProcAssumption DEF IInv, cpuVars
<1>1. state[s] = "RUNNING"
  BY OnCpu DEF ForkFails, Running
<1>2. PICK p \in Slot : p = np[s] /\ state[p] = "EMBRYO"
  BY DEF ForkFails, ForkInv
<1>3. /\ state' = [state EXCEPT ![p] = "UNUSED"]
      /\ np' = [np EXCEPT ![s] = 0] /\ pc' = [pc EXCEPT ![s] = "ret"]
      /\ UNCHANGED <<pid, parent, killed, prio, chan, ret, nextpid, lock, susp, cproc, ctx, nalta, pnormal, second, panicked>>
  BY <1>2 DEF ForkFails, Goto
<1>4. TypeOK'
  <2>1. state' \in [Slot -> States] /\ pc' \in [Slot -> Pcs] /\ np' \in [Slot -> Slot \cup {0}]
    BY <1>3 DEF TypeOK, States, Pcs
  <2> QED  BY <1>3, <2>1 DEF TypeOK
<1>5. CpuInv'
  <2>1. \A d \in CPU : ctx[d] = "back" => state'[cproc[d]] = state[cproc[d]]
    <3>1. \A d \in CPU : ctx[d] = "back" => cproc[d] \in Slot \ {p}
      BY <1>2, BusyCpu DEF CpuInv
    <3> QED  BY <1>3, <3>1 DEF TypeOK
  <2>2. state' \in [Slot -> States] /\ susp' \in [Slot -> Susps]
    BY <1>4 DEF TypeOK
  <2>3. \A t \in Slot : state[t] = "RUNNING" <=> state'[t] = "RUNNING"
    BY <1>2, <1>3 DEF TypeOK
  <2> QED  BY <1>3, <2>1, <2>2, <2>3, StayOnCpu
<1>6. ThreadInv'
  BY <1>2, <1>3 DEF ThreadInv, TypeOK
<1>7. ForkInv'
  <2>1. \A t \in Slot \ {s} : pc'[t] = pc[t] /\ np'[t] = np[t]
    BY <1>3 DEF TypeOK
  <2>2. pc[s] = "fork" /\ pc'[s] # "fork"
    BY <1>3 DEF ForkFails, TypeOK
  <2>3. \A t \in Slot \ {s} : pc[t] = "fork" => np[t] # p
    BY <1>2, <2>2 DEF ForkInv
  <2>4. \A t \in Slot \ {p} : state'[t] = state[t]
    BY <1>3 DEF TypeOK
  <2>5. ASSUME NEW t \in Slot, pc'[t] = "fork"
        PROVE  pc[t] = "fork" /\ np'[t] = np[t] /\ np'[t] \in Slot /\ state'[np'[t]] = "EMBRYO"
    <3>1. t # s /\ pc[t] = "fork" /\ np'[t] = np[t]
      BY <2>1, <2>2, <2>5
    <3>2. np[t] \in Slot \ {p} /\ state[np[t]] = "EMBRYO"
      BY <2>3, <3>1 DEF ForkInv
    <3> QED  BY <2>4, <3>1, <3>2
  <2>6. \A t, u \in Slot : pc'[t] = "fork" /\ pc'[u] = "fork" /\ np'[u] = np'[t] => t = u
    BY <2>5 DEF ForkInv
  <2> QED  BY <2>5, <2>6 DEF ForkInv
<1>8. TreeInv'
  BY <1>2, <1>3 DEF TreeInv, NoOrphan, Live, TypeOK
<1>9. NoLostExit'
  BY <1>2, <1>3 DEF NoLostExit, Kids, TypeOK
<1>10. PidInv'
  BY <1>2, <1>3 DEF PidInv, UniquePids, TypeOK
<1>11. SchedInv'
  BY <1>3 DEF SchedInv
<1> QED  BY <1>4, <1>5, <1>6, <1>7, <1>8, <1>9, <1>10, <1>11

\* fork() links the new process to its parent, which is running.
LEMMA forkKeeps ==
  ASSUME IInv, NEW c \in CPU, NEW s \in Slot, fork(c, s)
  PROVE  IInv'
<1> USE ProcAssumption DEF IInv, cpuVars
<1>1. state[s] = "RUNNING" /\ lock = 0 /\ pc[s] = "fork"
  BY OnCpu DEF fork, Running
<1>2. PICK p \in Slot : p = np[s] /\ state[p] = "EMBRYO" /\ p # s
  BY <1>1 DEF ForkInv
<1>3. /\ parent' = [parent EXCEPT ![p] = s]
      /\ prio' = [prio EXCEPT ![p] = prio[s]]
      /\ state' = [state EXCEPT ![p] = "RUNNABLE"]
      /\ pc' = [pc EXCEPT ![p] = "user", ![s] = "ret"]
      /\ susp' = [susp EXCEPT ![p] = "forkret"]
      /\ np' = [np EXCEPT ![s] = 0]
      /\ UNCHANGED <<pid, killed, chan, ret, nextpid, lock, cproc, ctx, nalta, pnormal, second, panicked>>
  BY <1>2 DEF fork
<1>4. TypeOK'
  <2>1. state' \in [Slot -> States] /\ pc' \in [Slot -> Pcs] /\ np' \in [Slot -> Slot \cup {0}]
    BY <1>3 DEF TypeOK, States, Pcs
  <2>2. prio' \in [Slot -> 0..2] /\ parent' \in [Slot -> Slot \cup {0}] /\ susp' \in [Slot -> Susps]
    BY <1>3 DEF TypeOK, Susps
  <2> QED  BY <1>3, <2>1, <2>2 DEF TypeOK
<1>5. CpuInv'
  <2>1. \A d \in CPU : ctx[d] # "back"
    BY <1>1 DEF CpuInv
  <2>2. state' \in [Slot -> States] /\ susp' \in [Slot -> Susps]
    BY <1>4 DEF TypeOK
  <2>3. \A t \in Slot : state[t] = "RUNNING" <=> state'[t] = "RUNNING"
    BY <1>2, <1>3 DEF TypeOK
  <2>4. \A t \in Slot : state[t] = "RUNNING" => susp'[t] = susp[t]
    BY <1>2, <1>3 DEF TypeOK
  <2> QED  BY <1>3, <2>1, <2>2, <2>3, <2>4, StayOnCpu
<1>6. ThreadInv'
  BY <1>2, <1>3 DEF ThreadInv, TypeOK
<1>7. ForkInv'
  <2>1. pc'[s] # "fork" /\ pc'[p] # "fork"
    BY <1>2, <1>3 DEF TypeOK
  <2>2. \A t \in Slot \ {s, p} : pc'[t] = pc[t] /\ np'[t] = np[t]
    BY <1>3 DEF TypeOK
  <2>3. \A t \in Slot \ {s} : pc[t] = "fork" => np[t] \in Slot /\ np[t] # p
    BY <1>1, <1>2 DEF ForkInv
  <2>4. \A t \in Slot \ {p} : state'[t] = state[t]
    BY <1>3 DEF TypeOK
  <2>5. ASSUME NEW t \in Slot, pc'[t] = "fork"
        PROVE  pc[t] = "fork" /\ np'[t] = np[t] /\ np'[t] \in Slot /\ state'[np'[t]] = "EMBRYO"
    <3>1. t \notin {s, p} /\ pc[t] = "fork" /\ np'[t] = np[t]
      BY <2>1, <2>2, <2>5
    <3>2. np[t] \in Slot \ {p} /\ state[np[t]] = "EMBRYO"
      BY <2>3, <3>1 DEF ForkInv
    <3> QED  BY <2>4, <3>1, <3>2
  <2>6. \A t, u \in Slot : pc'[t] = "fork" /\ pc'[u] = "fork" /\ np'[u] = np'[t] => t = u
    BY <2>5 DEF ForkInv
  <2> QED  BY <2>5, <2>6 DEF ForkInv
<1>8. TreeInv'
  <2>1. \A t \in Slot \ {p} : parent'[t] = parent[t] /\ state'[t] = state[t]
    BY <1>3 DEF TypeOK
  <2>2. parent'[p] = s /\ state'[p] = "RUNNABLE" /\ state'[s] = "RUNNING"
    BY <1>1, <1>2, <1>3 DEF TypeOK
  <2>3. initproc \in Slot /\ p # initproc
    BY <1>2 DEF TreeInv, Live, Slot, initproc
  <2>4. NoOrphan'
    <3> SUFFICES ASSUME NEW t \in Slot
                 PROVE  IF state'[t] \in {"UNUSED", "EMBRYO"} THEN parent'[t] = 0
                        ELSE t # initproc => parent'[t] # 0 /\ state'[parent'[t]] \in Live
      BY DEF NoOrphan
    <3>1. CASE t = p
      BY <2>2, <3>1 DEF Live, Slot
    <3>2. CASE t # p
      BY <1>2, <2>1, <3>2 DEF TreeInv, NoOrphan, Live, TypeOK
    <3> QED  BY <3>1, <3>2
  <2> QED  BY <1>2, <2>1, <2>2, <2>3, <2>4 DEF TreeInv
<1>9. NoLostExit'
  <2>1. \A t \in Slot : Kids(t)' = IF t = s THEN Kids(t) \cup {p} ELSE Kids(t)
    <3>1. parent[p] = 0 /\ s # 0
      BY <1>2 DEF TreeInv, NoOrphan, Slot
    <3>2. parent'[p] = s /\ \A u \in Slot \ {p} : parent'[u] = parent[u]
      BY <1>3 DEF TypeOK
    <3>3. \A t \in Slot : t # 0
      BY DEF Slot
    <3> QED  BY <3>1, <3>2, <3>3 DEF Kids
  <2>2. \A t \in Slot : t # p => state'[t] = state[t]
    BY <1>3 DEF TypeOK
  <2>3. state'[p] = "RUNNABLE" /\ state'[s] = "RUNNING"
    BY <1>1, <1>2, <1>3 DEF TypeOK
  <2> QED  BY <1>3, <2>1, <2>2, <2>3 DEF NoLostExit, Kids
<1>10. PidInv'
  BY <1>2, <1>3 DEF PidInv, UniquePids, TypeOK
<1>11. SchedInv'
  BY <1>3 DEF SchedInv
<1> QED  BY <1>4, <1>5, <1>6, <1>7, <1>8, <1>9, <1>10, <1>11

\* kill() wakes the process it marks, so that no marked process sleeps in wait().
LEMMA killKeeps ==
  ASSUME IInv, NEW c \in CPU, NEW s \in Slot, NEW n \in KillPids, kill(c, s, n)
  PROVE  IInv'
<1> USE ProcAssumption DEF IInv, cpuVars
<1>1. lock = 0 /\ pc[s] = "kernel"
  BY DEF kill, Running
<1>2. PICK p \in Slot :
        /\ killed' = [killed EXCEPT ![p] = TRUE]
        /\ state' = [state EXCEPT ![p] = IF state[p] = "SLEEPING" THEN "RUNNABLE" ELSE state[p]]
  BY DEF kill
<1>3. /\ pc' = [pc EXCEPT ![s] = "ret"]
      /\ UNCHANGED <<pid, parent, prio, chan, ret, nextpid, lock, susp, np, cproc, ctx, nalta, pnormal, second, panicked>>
  BY DEF kill, Goto
<1>4. /\ state' \in [Slot -> States] /\ state'[p] # "SLEEPING"
      /\ \A t \in Slot : \/ state'[t] = state[t]
                         \/ state[t] = "SLEEPING" /\ state'[t] = "RUNNABLE"
  BY <1>2 DEF TypeOK, States
<1>5. TypeOK'
  <2>1. pc' \in [Slot -> Pcs] /\ killed' \in [Slot -> BOOLEAN]
    BY <1>2, <1>3 DEF TypeOK, Pcs
  <2> QED  BY <1>3, <1>4, <2>1 DEF TypeOK
<1>6. CpuInv'
  <2>1. \A d \in CPU : ctx[d] # "back"
    BY <1>1 DEF CpuInv
  <2>2. susp' \in [Slot -> Susps]
    BY <1>5 DEF TypeOK
  <2> QED  BY <1>3, <1>4, <2>1, <2>2, StayOnCpu
<1>7. ThreadInv'
  BY <1>3, <1>4 DEF ThreadInv
<1>8. ForkInv'
  BY <1>3, <1>4, SameForks DEF TypeOK
<1>9. TreeInv'
  BY <1>3, <1>4, SameTree DEF Live
<1>10. NoLostExit'
  <2>1. \A t \in Slot \ {p} : killed'[t] = killed[t]
    BY <1>2 DEF TypeOK
  <2> QED  BY <1>3, <1>4, <2>1, SameWaits
<1>11. PidInv'
  BY <1>3, <1>4 DEF PidInv, UniquePids
<1>12. SchedInv'
  BY <1>3 DEF SchedInv
<1> QED  BY <1>5, <1>6, <1>7, <1>8, <1>9, <1>10, <1>11, <1>12, SMTT(30)

\* A clock tick only wakes processes.
LEMMA TickKeeps ==
  ASSUME IInv, Tick
  PROVE  IInv'
<1> USE ProcAssumption DEF IInv, cpuVars, threadVars
<1>1. /\ lock = 0
      /\ UNCHANGED <<pid, parent, killed, prio, chan, ret, nextpid, lock, pc, susp, np, cproc, ctx, nalta, pnormal, second, panicked>>
  BY DEF Tick
<1>2. /\ state' \in [Slot -> States]
      /\ \A t \in Slot : \/ state'[t] = state[t]
                         \/ state[t] = "SLEEPING" /\ state'[t] = "RUNNABLE"
  BY DEF Tick, wakeup1, TypeOK, States
<1>3. TypeOK'
  BY <1>1, <1>2 DEF TypeOK
<1>4. CpuInv'
  <2>1. \A d \in CPU : ctx[d] # "back"
    BY <1>1 DEF CpuInv
  <2>2. susp' \in [Slot -> Susps]
    BY <1>3 DEF TypeOK
  <2> QED  BY <1>1, <1>2, <2>1, <2>2, StayOnCpu
<1>5. ThreadInv'
  BY <1>1, <1>2 DEF ThreadInv
<1>6. ForkInv'
  BY <1>1, <1>2, SameForks
<1>7. TreeInv'
  BY <1>1, <1>2, SameTree DEF Live
<1>8. NoLostExit'
  BY <1>1, <1>2, SameWaits
<1>9. PidInv'
  BY <1>1, <1>2 DEF PidInv, UniquePids
<1>10. SchedInv'
  BY <1>1 DEF SchedInv
<1> QED  BY <1>3, <1>4, <1>5, <1>6, <1>7, <1>8, <1>9, <1>10

\* exit(): the parent is awake before there is a zombie to reap, and init is
\* awake if it inherits one.
LEMMA exitKeeps ==
  ASSUME IInv, NEW c \in CPU, NEW s \in Slot, NEW x \in Status, exit(c, s, x)
  PROVE  IInv'
<1> USE ProcAssumption DEF IInv, cpuVars
<1> DEFINE woken == wakeup1(state, parent[s])
           initwoken == IF \E p \in Kids(s) : woken[p] = "ZOMBIE"
                          THEN wakeup1(woken, initproc) ELSE woken
<1>1. ctx[c] = "proc" /\ cproc[c] = s /\ lock = 0 /\ pc[s] = "exit" /\ s # initproc
  BY DEF exit, Running
<1>2. state[s] = "RUNNING"
  BY <1>1, OnCpu
<1>3. /\ state' = [initwoken EXCEPT ![s] = "ZOMBIE"]
      /\ parent' = [p \in Slot |-> IF parent[p] = s THEN initproc ELSE parent[p]]
      /\ ret' = [ret EXCEPT ![s] = x]
      /\ pc' = [pc EXCEPT ![s] = "none"]
      /\ sched(c, s, "none")
      /\ UNCHANGED <<pid, killed, prio, chan, nextpid, np, panicked>>
  BY DEF exit, Goto
<1>4. /\ woken \in [Slot -> States]
      /\ \A t \in Slot : \/ woken[t] = state[t]
                         \/ state[t] = "SLEEPING" /\ woken[t] = "RUNNABLE"
      /\ \A t \in Slot : woken[t] = "SLEEPING" => chan[t] # parent[s]
  <2>1. state \in [Slot -> States]
    BY SMTT(30) DEF TypeOK
  <2> QED  BY <2>1 DEF wakeup1, States
<1>5. /\ initwoken \in [Slot -> States]
      /\ \A t \in Slot : \/ initwoken[t] = state[t]
                         \/ state[t] = "SLEEPING" /\ initwoken[t] = "RUNNABLE"
      /\ \A t \in Slot : initwoken[t] = "SLEEPING" => chan[t] # parent[s]
      /\ (\E p \in Kids(s) : state[p] = "ZOMBIE") =>
           \A t \in Slot : initwoken[t] = "SLEEPING" => chan[t] # initproc
  <2>1. CASE \E p \in Kids(s) : woken[p] = "ZOMBIE"
    <3>1. initwoken = [t \in Slot |-> IF woken[t] = "SLEEPING" /\ chan[t] = initproc
                                      THEN "RUNNABLE" ELSE woken[t]]
      BY <2>1 DEF wakeup1
    <3> HIDE DEF woken, initwoken
    <3> QED  BY <1>4, <3>1, Zenon DEF States
  <2>2. CASE ~\E p \in Kids(s) : woken[p] = "ZOMBIE"
    BY <1>4, <2>2 DEF Kids
  <2> QED  BY <2>1, <2>2, ZenonT(30)
<1> HIDE DEF woken, initwoken
<1>6. /\ state' \in [Slot -> States] /\ state'[s] = "ZOMBIE"
      /\ \A t \in Slot \ {s} : \/ state'[t] = state[t]
                               \/ state[t] = "SLEEPING" /\ state'[t] = "RUNNABLE"
  BY <1>3, <1>5 DEF States
<1>7. initproc \in Slot
  BY SMTT(30) DEF Slot, initproc
<1>8. TypeOK'
  <2>1. parent' \in [Slot -> Slot \cup {0}]
    BY <1>3, <1>7 DEF TypeOK
  <2>2. pc' \in [Slot -> Pcs] /\ ret' \in [Slot -> Status \cup {0}]
    BY <1>3, SMTT(30) DEF TypeOK, Pcs
  <2>3. susp' \in [Slot -> Susps] /\ lock' \in CPU \cup {0}
        /\ ctx' \in [CPU -> {"top", "proc", "back"}] /\ UNCHANGED <<cproc, nalta, pnormal, second>>
    <3>1. susp' \in [Slot -> Susps]
      BY <1>3 DEF sched, TypeOK, Susps
    <3>2. ctx' \in [CPU -> {"top", "proc", "back"}]
      BY <1>3, SMTT(30) DEF sched, TypeOK
    <3> QED  BY <1>3, <3>1, <3>2 DEF sched
  <2> QED  BY <1>3, <1>6, <2>1, <2>2, <2>3 DEF TypeOK
<1>9. CpuInv'
  BY <1>1, <1>3, <1>6, LeaveCpu DEF Susps
<1>10. ThreadInv'
  <2>1. susp'[s] = "none" /\ \A t \in Slot \ {s} : susp'[t] = susp[t]
    BY <1>3 DEF sched, TypeOK
  <2> QED  BY <1>6, <2>1 DEF ThreadInv
<1>11. ForkInv'
  <2>1. \A t \in Slot : pc'[t] = "fork" => pc[t] = "fork"
    BY <1>3 DEF TypeOK
  <2>2. \A t \in Slot : state[t] = "EMBRYO" => state'[t] = "EMBRYO"
    BY <1>2, <1>6
  <2> QED  BY <1>3, <2>1, <2>2, SameForks
<1>12. TreeInv'
  <2>1. parent'[initproc] = 0
    BY <1>3, <1>7 DEF TreeInv, Slot
  <2>2. \A t \in Slot : parent'[t] # t
    BY <1>3, <1>7 DEF TreeInv, Slot
  <2>3. state'[initproc] \in Live
    BY <1>1, <1>6, <1>7 DEF TreeInv, Live
  <2>4. ASSUME NEW t \in Slot, state'[t] \in {"UNUSED", "EMBRYO"} PROVE parent'[t] = 0
    BY <1>3, <1>6, <2>4 DEF TreeInv, NoOrphan, Slot
  <2>5. ASSUME NEW t \in Slot, t # initproc, state'[t] \notin {"UNUSED", "EMBRYO"}
        PROVE  parent'[t] # 0 /\ state'[parent'[t]] \in Live
    <3>1. parent[t] \in Slot /\ state[parent[t]] \in Live
      BY <1>2, <1>6, <2>5 DEF TreeInv, NoOrphan, TypeOK
    <3>2. CASE parent[t] = s
      BY <1>3, <1>7, <2>3, <3>2 DEF Slot
    <3>3. CASE parent[t] # s
      BY <1>3, <1>6, <3>1, <3>3 DEF Live, Slot
    <3> QED  BY <3>2, <3>3
  <2> QED  BY <2>1, <2>2, <2>3, <2>4, <2>5 DEF TreeInv, NoOrphan
<1>13. NoLostExit'
  <2> SUFFICES ASSUME NEW t \in Slot, state'[t] = "SLEEPING", chan'[t] = t
               PROVE  ~killed'[t] /\ Kids(t)' # {} /\ \A u \in Kids(t)' : state'[u] # "ZOMBIE"
    BY DEF NoLostExit
  <2>1. t # s /\ state[t] = "SLEEPING" /\ chan[t] = t
    BY <1>3, <1>6
  <2>2. ~killed[t] /\ Kids(t) # {} /\ \A u \in Kids(t) : state[u] # "ZOMBIE"
    BY <2>1, Zenon DEF NoLostExit
  <2>3. parent[s] # t
    BY <1>3, <1>5, <2>1
  <2>4. Kids(t) \subseteq Kids(t)'
    BY <1>3, <2>1 DEF Kids
  <2>5. ASSUME NEW u \in Kids(t)' PROVE state'[u] # "ZOMBIE"
    <3>1. u \in Slot /\ u # s
      BY <1>3, <2>3, <2>5 DEF Kids, TreeInv
    <3>2. CASE parent[u] = s
      <4>1. t = initproc
        BY <1>3, <2>5, <3>1, <3>2, SMTT(30) DEF Kids
      <4>2. state[u] # "ZOMBIE"
        <5>1. initwoken[t] = "SLEEPING" /\ chan[t] = initproc
          BY <1>3, <2>1, <4>1
        <5>2. ~\E p \in Kids(s) : state[p] = "ZOMBIE"
          BY <1>5, <5>1, Zenon
        <5> QED  BY <3>1, <3>2, <5>2 DEF Kids
      <4> QED  BY <1>6, <3>1, <4>2
    <3>3. CASE parent[u] # s
      BY <1>3, <1>6, <2>2, <2>5, <3>1, <3>3 DEF Kids
    <3> QED  BY <3>2, <3>3
  <2> QED  BY <1>3, <2>2, <2>4, <2>5
<1>14. PidInv'
  BY <1>2, <1>3, <1>6 DEF PidInv, UniquePids
<1>15. SchedInv'
  BY <1>1, <1>3 DEF sched, SchedInv, TypeOK
<1> QED  BY <1>8, <1>9, <1>10, <1>11, <1>12, <1>13, <1>14, <1>15, Zenon

-----------------------------------------------------------------------------
(* scheduler(). *)

\* What a step of the scheduler of CPU c leaves alone.
OnlySched(c) ==
  /\ UNCHANGED <<pid, parent, killed, prio, chan, ret, nextpid, pc, susp, np, panicked>>
  /\ nalta' \in [CPU -> BOOLEAN] /\ second' \in [CPU -> BOOLEAN]
  /\ pnormal' \in [CPU -> Slot \cup {0}]
  /\ \A d \in CPU \ {c} :
       nalta'[d] = nalta[d] /\ second'[d] = second[d] /\ pnormal'[d] = pnormal[d]

\* The scheduler runs on c: nobody else has the lock.
LEMMA LockIsMine ==
  ASSUME IInv, NEW c \in CPU, \/ ctx[c] = "top" /\ lock = 0
                              \/ ctx[c] = "back"
  PROVE  /\ lock \in {0, c}
         /\ \A d \in CPU \ {c} :
              /\ lock # d /\ ctx[d] # "back"
              /\ ctx[d] = "proc" => susp[cproc[d]] = "run"
<1> USE ProcAssumption
<1>1. lock \in {0, c}
  BY DEF IInv, CpuInv
<1>2. \A d \in CPU \ {c} : lock # d
  BY <1>1
<1> QED  BY <1>1, <1>2 DEF IInv, CpuInv

\* swtch() to a runnable process: no other CPU is still on its stack, because
\* such a CPU would have ptable.lock.
LEMMA DispatchKeeps ==
  ASSUME IInv, NEW c \in CPU, NEW s \in Slot,
         (ctx[c] = "top" /\ lock = 0) \/ ctx[c] = "back",
         state[s] = "RUNNABLE", Dispatch(c, s), OnlySched(c),
         ~second'[c] => nalta'[c]
  PROVE  IInv'
<1> USE ProcAssumption DEF IInv
<1>1. /\ cproc' = [cproc EXCEPT ![c] = s]
      /\ ctx' = [ctx EXCEPT ![c] = "proc"]
      /\ state' = [state EXCEPT ![s] = "RUNNING"]
      /\ lock' = c
  BY DEF Dispatch
<1>2. UNCHANGED <<pid, parent, killed, prio, chan, ret, nextpid, pc, susp, np, panicked>>
  BY DEF OnlySched
<1>3. state'[s] = "RUNNING" /\ \A t \in Slot \ {s} : state'[t] = state[t]
  BY <1>1 DEF TypeOK
<1>4. /\ ctx'[c] = "proc" /\ cproc'[c] = s
      /\ \A d \in CPU \ {c} : ctx'[d] = ctx[d] /\ cproc'[d] = cproc[d]
  BY <1>1 DEF TypeOK
<1>5. TypeOK'
  <2>1. state' \in [Slot -> States] /\ cproc' \in [CPU -> Slot \cup {0}]
        /\ ctx' \in [CPU -> {"top", "proc", "back"}]
    BY <1>1 DEF TypeOK, States
  <2> QED  BY <1>1, <1>2, <2>1 DEF TypeOK, OnlySched
<1>6. CpuInv'
  <2>1. \A d \in CPU \ {c} :
          /\ lock' # d /\ ctx[d] # "back"
          /\ ctx[d] = "proc" => susp'[cproc[d]] = "run"
    BY <1>1, <1>2, LockIsMine
  <2>2. susp'[s] # "run" /\ s # 0
    BY <1>2 DEF ThreadInv, Slot
  <2>3. \A d \in CPU : ctx[d] = "proc" => cproc[d] \in Slot \ {s} /\ state[cproc[d]] = "RUNNING"
    BY BusyCpu DEF CpuInv
  <2>4. \A d \in CPU : ctx[d] = "top" <=> cproc[d] = 0
    BY DEF CpuInv
  <2>5. \A d \in CPU \ {c} : ctx[d] = "top" \/ ctx[d] = "proc"
    BY <2>1 DEF TypeOK
  <2>6. \A d \in CPU : ctx'[d] = "top" <=> cproc'[d] = 0
    BY <1>4, <2>2, <2>4
  <2>7. \A d, e \in CPU : cproc'[d] # 0 /\ cproc'[d] = cproc'[e] => d = e
    <3>1. \A d \in CPU \ {c} : cproc[d] # s
      BY <2>2, <2>3, <2>4, <2>5
    <3>2. \A d, e \in CPU : cproc[d] # 0 /\ cproc[d] = cproc[e] => d = e
      BY DEF CpuInv
    <3> QED  BY <1>4, <3>1, <3>2
  <2>8. \A d \in CPU : lock' = d <=> \/ ctx'[d] = "back"
                                     \/ ctx'[d] = "proc" /\ susp'[cproc'[d]] # "run"
    BY <1>1, <1>4, <2>1, <2>2
  <2>9. \A d \in CPU : ctx'[d] = "proc" => state'[cproc'[d]] = "RUNNING"
    <3>1. ASSUME NEW d \in CPU, d # c, ctx'[d] = "proc"
          PROVE  state'[cproc'[d]] = "RUNNING"
      <4>1. cproc'[d] = cproc[d] /\ ctx[d] = "proc"
        BY <1>4, <3>1
      <4>2. cproc[d] \in Slot \ {s} /\ state[cproc[d]] = "RUNNING"
        BY <2>3, <4>1, Zenon
      <4> QED  BY <1>3, <4>1, <4>2
    <3> QED  BY <1>3, <1>4, <3>1
  <2>10. \A d \in CPU : ctx'[d] # "back"
    <3>1. ctx'[c] # "back"
      BY <1>4
    <3>2. \A d \in CPU \ {c} : ctx'[d] # "back"
      BY <1>4, <2>1, Zenon
    <3> QED  BY <3>1, <3>2, Zenon
  <2>11. ASSUME NEW t \in Slot, state'[t] = "RUNNING"
         PROVE  \E d \in CPU : ctx'[d] = "proc" /\ cproc'[d] = t
    <3>1. CASE t = s
      BY <1>4, <3>1
    <3>2. CASE t # s
      <4>1. state[t] = "RUNNING"
        BY <1>3, <2>11, <3>2
      <4>2. PICK d \in CPU : ctx[d] = "proc" /\ cproc[d] = t
        BY <4>1 DEF CpuInv
      <4> QED  BY <1>4, <4>2
    <3> QED  BY <3>1, <3>2
  <2> QED  BY <2>6, <2>7, <2>8, <2>9, <2>10, <2>11 DEF CpuInv
<1>7. ThreadInv'
  BY <1>2, <1>3 DEF ThreadInv
<1>8. ForkInv'
  BY <1>2, <1>3, SameForks
<1>9. TreeInv'
  BY <1>2, <1>3, SameTree DEF Live
<1>10. NoLostExit'
  BY <1>2, <1>3, SameWaits
<1>11. PidInv'
  BY <1>2, <1>3 DEF PidInv, UniquePids
<1>12. SchedInv'
  <2>1. \A d \in CPU \ {c} : nalta'[d] = nalta[d] /\ second'[d] = second[d] /\ pnormal'[d] = pnormal[d]
    BY DEF OnlySched
  <2> SUFFICES ASSUME NEW d \in CPU
               PROVE  /\ ctx'[d] = "top" => pnormal'[d] = 0 /\ ~second'[d]
                      /\ ctx'[d] # "top" /\ ~second'[d] => nalta'[d]
    BY DEF SchedInv
  <2>2. CASE d = c
    BY <1>4, <2>2, Zenon
  <2>3. CASE d # c
    BY <1>4, <2>1, <2>3 DEF SchedInv
  <2> QED  BY <2>2, <2>3
<1> QED  BY <1>5, <1>6, <1>7, <1>8, <1>9, <1>10, <1>11, <1>12

\* The end of a pass of scheduler().
LEMMA PassEndsKeeps ==
  ASSUME IInv, NEW c \in CPU,
         (ctx[c] = "top" /\ lock = 0) \/ ctx[c] = "back",
         PassEnds(c),
         UNCHANGED <<pid, parent, killed, prio, chan, ret, nextpid, pc, susp, np, panicked>>
  PROVE  IInv'
<1> USE ProcAssumption DEF IInv
<1>1. /\ cproc' = [cproc EXCEPT ![c] = 0]
      /\ ctx' = [ctx EXCEPT ![c] = "top"]
      /\ lock' = 0
      /\ state' = state
  BY DEF PassEnds
<1>2. /\ ctx'[c] = "top" /\ cproc'[c] = 0
      /\ \A d \in CPU \ {c} : ctx'[d] = ctx[d] /\ cproc'[d] = cproc[d]
  BY <1>1 DEF TypeOK
<1>3. TypeOK'
  BY <1>1 DEF TypeOK, PassEnds
<1>4. CpuInv'
  <2>1. \A d \in CPU \ {c} : ctx[d] # "back" /\ (ctx[d] = "proc" => susp[cproc[d]] = "run")
    BY LockIsMine
  <2>2. \A d \in CPU : lock' # d
    BY <1>1
  <2>3. \A d \in CPU : lock' = d <=> \/ ctx'[d] = "back"
                                     \/ ctx'[d] = "proc" /\ susp'[cproc'[d]] # "run"
    BY <1>2, <2>1, <2>2
  <2>4. ASSUME NEW t \in Slot, state'[t] = "RUNNING"
        PROVE  \E d \in CPU : ctx'[d] = "proc" /\ cproc'[d] = t
    <3>1. PICK d \in CPU : ctx[d] = "proc" /\ cproc[d] = t
      BY <1>1, <2>4 DEF CpuInv
    <3> QED  BY <1>2, <3>1
  <2>5. \A d \in CPU : ctx'[d] = "top" <=> cproc'[d] = 0
    BY <1>2 DEF CpuInv
  <2>6. \A d, e \in CPU : cproc'[d] # 0 /\ cproc'[d] = cproc'[e] => d = e
    BY <1>2 DEF CpuInv
  <2>7. \A d \in CPU : ctx'[d] = "proc" => state'[cproc'[d]] = "RUNNING"
    BY <1>1, <1>2 DEF CpuInv
  <2>8. \A d \in CPU : ctx'[d] # "back"
    BY <1>2, <2>1
  <2> QED  BY <2>3, <2>4, <2>5, <2>6, <2>7, <2>8 DEF CpuInv
<1>5. ThreadInv' /\ ForkInv'
  BY <1>1 DEF ThreadInv, ForkInv
<1>6. TreeInv' /\ NoLostExit'
  BY <1>1, SameTree, SameWaits
<1>7. PidInv'
  BY <1>1 DEF PidInv, UniquePids
<1>8. SchedInv'
  BY <1>2 DEF SchedInv, TypeOK, PassEnds
<1> QED  BY <1>3, <1>4, <1>5, <1>6, <1>7, <1>8

\* The second loop of scheduler().
LEMMA SecondLoopKeeps ==
  ASSUME IInv, NEW c \in CPU, NEW p \in Nat, NEW pn \in Slot \cup {0},
         (ctx[c] = "top" /\ lock = 0) \/ ctx[c] = "back",
         SecondLoop(c, p, pn),
         UNCHANGED <<pid, parent, killed, prio, chan, ret, nextpid, pc, susp, np, panicked>>
  PROVE  IInv'
<1>1. CASE RunnableIn(p..NPROC) = {}
  BY <1>1, PassEndsKeeps DEF SecondLoop
<1>2. CASE RunnableIn(p..NPROC) # {}
  <2>1. PICK s \in Slot : state[s] = "RUNNABLE" /\ Dispatch(c, s)
    BY <1>2 DEF SecondLoop, First, RunnableIn
  <2>2. /\ second' = [second EXCEPT ![c] = TRUE]
        /\ pnormal' = [pnormal EXCEPT ![c] = pn]
        /\ nalta' = [nalta EXCEPT ![c] = FALSE]
    BY <1>2 DEF SecondLoop
  <2>3. OnlySched(c) /\ second'[c]
    BY <2>2 DEF OnlySched, IInv, TypeOK
  <2> QED  BY <2>1, <2>3, DispatchKeeps
<1> QED  BY <1>1, <1>2

\* The first loop of scheduler().
LEMMA FirstLoopKeeps ==
  ASSUME IInv, NEW c \in CPU, NEW p \in Nat, NEW n \in BOOLEAN,
         (ctx[c] = "top" /\ lock = 0) \/ ctx[c] = "back",
         FirstLoop(c, p, n),
         UNCHANGED <<pid, parent, killed, prio, chan, ret, nextpid, pc, susp, np, panicked>>
  PROVE  IInv'
<1>1. CASE HighIn(p..NPROC) # {}
  <2>1. PICK s \in Slot, pn \in Slot \cup {0} :
          /\ First(s, HighIn(p..NPROC))
          /\ Dispatch(c, s)
          /\ pnormal' = [pnormal EXCEPT ![c] = pn]
          /\ nalta' = [nalta EXCEPT ![c] = TRUE]
          /\ UNCHANGED second
    BY <1>1 DEF FirstLoop
  <2>2. state[s] = "RUNNABLE"
    BY <2>1 DEF First, HighIn, RunnableIn
  <2>3. OnlySched(c) /\ nalta'[c]
    BY <2>1 DEF OnlySched, IInv, TypeOK
  <2> QED  BY <2>1, <2>2, <2>3, DispatchKeeps
<1>2. CASE HighIn(p..NPROC) = {}
  <2>1. PICK pn \in Slot \cup {0} : IF ~n /\ pn # 0 THEN SecondLoop(c, pn, pn) ELSE PassEnds(c)
    BY <1>2 DEF FirstLoop
  <2>2. pn \in Nat
    BY DEF Slot
  <2> QED  BY <2>1, <2>2, SecondLoopKeeps, PassEndsKeeps
<1> QED  BY <1>1, <1>2

\* scheduler(), at the start of a pass and after swtch() returns.
LEMMA schedulerKeeps ==
  ASSUME IInv, NEW c \in CPU, scheduler(c)
  PROVE  IInv'
<1>1. UNCHANGED <<pid, parent, killed, prio, chan, ret, nextpid, pc, susp, np, panicked>>
  BY DEF scheduler, threadVars
<1>2. cproc[c] + 1 \in Nat /\ nalta[c] \in BOOLEAN /\ pnormal[c] \in Slot \cup {0}
  <2>1. cproc[c] \in Slot \cup {0} /\ nalta[c] \in BOOLEAN /\ pnormal[c] \in Slot \cup {0}
    BY DEF IInv, TypeOK
  <2>2. cproc[c] + 1 \in Nat
    BY <2>1 DEF Slot
  <2> QED  BY <2>1, <2>2
<1>3. CASE ctx[c] = "top" /\ lock = 0 /\ FirstLoop(c, 1, FALSE)
  BY <1>1, <1>3, FirstLoopKeeps
<1>4. CASE ctx[c] = "back" /\ FirstLoop(c, cproc[c] + 1, nalta[c])
  BY <1>1, <1>2, <1>4, FirstLoopKeeps
<1>5. CASE ctx[c] = "back" /\ SecondLoop(c, cproc[c] + 1, pnormal[c])
  BY <1>1, <1>2, <1>5, SecondLoopKeeps
<1> QED  BY <1>3, <1>4, <1>5 DEF scheduler

-----------------------------------------------------------------------------
(* The theorems. *)

\* The invariant holds once userinit() has run.
LEMMA InitKeeps == Init => IInv
<1> SUFFICES ASSUME Init PROVE IInv
  OBVIOUS
<1> USE ProcAssumption DEF Init, IInv
<1>1. initproc \in Slot
  BY DEF initproc, Slot
<1>2. TypeOK
  <2>1. state \in [Slot -> States] /\ pc \in [Slot -> Pcs] /\ susp \in [Slot -> Susps]
    BY DEF States, Pcs, Susps
  <2>2. pid \in [Slot -> Nat] /\ nextpid \in Nat /\ prio \in [Slot -> 0..2]
    BY DEF NORMAL
  <2>3. chan \in [Slot -> 0..NPROC + 1]
    OBVIOUS
  <2>4. ctx \in [CPU -> {"top", "proc", "back"}]
    OBVIOUS
  <2>5. nalta \in [CPU -> BOOLEAN] /\ second \in [CPU -> BOOLEAN] /\ killed \in [Slot -> BOOLEAN]
        /\ panicked \in BOOLEAN
    OBVIOUS
  <2>6. parent \in [Slot -> Slot \cup {0}] /\ np \in [Slot -> Slot \cup {0}]
        /\ ret \in [Slot -> Status \cup {0}] /\ lock \in CPU \cup {0}
    OBVIOUS
  <2>7. cproc \in [CPU -> Slot \cup {0}] /\ pnormal \in [CPU -> Slot \cup {0}]
    OBVIOUS
  <2> QED  BY <2>1, <2>2, <2>3, <2>4, <2>5, <2>6, <2>7 DEF TypeOK
<1>3. CpuInv
  BY DEF CpuInv
<1>4. ThreadInv /\ ForkInv /\ SchedInv
  BY DEF ThreadInv, ForkInv, SchedInv
<1>5. TreeInv
  <2>1. \A s \in Slot : s # 0
    BY DEF Slot
  <2> QED  BY <1>1, <2>1 DEF TreeInv, NoOrphan, Live
<1>6. NoLostExit /\ PidInv
  BY DEF NoLostExit, PidInv, UniquePids
<1> QED  BY <1>2, <1>3, <1>4, <1>5, <1>6

\* It does not depend on anything but the variables.
LEMMA StutterKeeps == IInv /\ UNCHANGED vars => IInv'
<1> SUFFICES ASSUME IInv, UNCHANGED vars PROVE IInv'
  OBVIOUS
<1> USE DEF IInv, vars, procVars, threadVars, cpuVars
<1>1. TypeOK'
  BY DEF TypeOK
<1>2. CpuInv'
  <2>1. ctx' = ctx /\ cproc' = cproc /\ lock' = lock /\ susp' = susp /\ state' = state
    OBVIOUS
  <2>2. CpuInv
    OBVIOUS
  <2> HIDE DEF IInv, vars
  <2> QED  BY <2>1, <2>2 DEF CpuInv
<1>3. ThreadInv' /\ ForkInv' /\ SchedInv'
  BY DEF ThreadInv, ForkInv, SchedInv
<1>4. TreeInv'
  BY DEF TreeInv, NoOrphan
<1>5. NoLostExit' /\ PidInv'
  BY DEF NoLostExit, Kids, PidInv, UniquePids
<1> QED  BY <1>1, <1>2, <1>3, <1>4, <1>5

\* Every step keeps the invariant.
LEMMA NextKeeps == IInv /\ Next => IInv'
<1> SUFFICES ASSUME IInv, Next PROVE IInv'
  OBVIOUS
<1>1. ASSUME NEW c \in CPU, NEW s \in Slot, UserStep(c, s) PROVE IInv'
  BY <1>1, QuietSteps DEF UserStep
<1>2. ASSUME NEW c \in CPU, NEW s \in Slot, Preempt(c, s) PROVE IInv'
  BY <1>2, QuietSteps, yieldKeeps DEF Preempt
<1>3. ASSUME NEW c \in CPU, NEW s \in Slot, KernelStep(c, s) PROVE IInv'
  <2>1. CASE SyscallReturn(c, s) \/ TableFull(c, s) \/ sys_exit(c, s) \/ sys_sleep(c, s)
    BY <2>1, QuietSteps
  <2>2. CASE Release(c, s) \/ SleepReturns(c, s)
    BY <2>2, ReleaseKeeps
  <2>3. CASE allocproc(c, s) \/ ForkFails(c, s) \/ fork(c, s)
    BY <2>3, allocprocKeeps, ForkFailsKeeps, forkKeeps
  <2>4. CASE ExitPanics(c, s) \/ sleep(c, s)
    BY <2>4, ExitPanicsKeeps, sleepKeeps
  <2>5. CASE \E status \in Status : exit(c, s, status)
    BY <2>5, exitKeeps
  <2>6. CASE wait(c, s)
    BY <2>6, WaitReapsKeeps, WaitFailsKeeps, WaitSleepsKeeps DEF wait
  <2>7. CASE \E n \in KillPids : kill(c, s, n) \/ NoSuchPid(c, s, n)
    BY <2>7, killKeeps, QuietSteps
  <2>8. CASE \E pr \in Prios : BadPrio(c, s, pr) \/ \E n \in PrioPids : setprocprio(c, s, n, pr)
    BY <2>8, QuietSteps
  <2> QED  BY <1>3, <2>1, <2>2, <2>3, <2>4, <2>5, <2>6, <2>7, <2>8 DEF KernelStep
<1>4. ASSUME NEW c \in CPU, scheduler(c) PROVE IInv'
  BY <1>4, schedulerKeeps
<1>5. CASE Tick
  BY <1>5, TickKeeps
<1> QED  BY <1>1, <1>2, <1>3, <1>4, <1>5 DEF Next

\* IInv is an invariant of the process table.
THEOREM Invariance == Spec => []IInv
<1>1. IInv /\ [Next]_vars => IInv'
  BY NextKeeps, StutterKeeps
<1> QED  BY InitKeeps, <1>1, PTL DEF Spec

\* The variables of proc.c keep their types, whatever the size of the table.
THEOREM TypeCorrect == Spec => []TypeOK
<1>1. IInv => TypeOK
  BY DEF IInv
<1> QED  BY Invariance, <1>1, PTL

\* No process is on two CPUs, and no CPU is on the stack of a process that is
\* not RUNNING without holding ptable.lock.
THEOREM OneCpuHolds == Spec => []OneCpu
<1>1. IInv => OneCpu
  <2> SUFFICES ASSUME TypeOK, CpuInv PROVE OneCpu
    BY DEF IInv
  <2>1. \A c \in CPU : ctx[c] \in {"top", "proc", "back"}
    BY DEF TypeOK
  <2>2. \A c \in CPU : cproc[c] # 0 /\ state[cproc[c]] # "RUNNING" => lock = c
    BY <2>1 DEF CpuInv
  <2> QED  BY <2>2 DEF OneCpu, CpuInv
<1> QED  BY Invariance, <1>1, PTL

\* No kernel stack is freed, and no slot given out, while a CPU is on it.
THEOREM StackInUseHolds == Spec => []StackInUse
<1>1. IInv => StackInUse
  <2> SUFFICES ASSUME TypeOK, CpuInv PROVE StackInUse
    BY DEF IInv
  <2>1. \A c \in CPU : ctx[c] \in {"top", "proc", "back"}
    BY DEF TypeOK
  <2> QED  BY <2>1 DEF StackInUse, CpuInv
<1> QED  BY Invariance, <1>1, PTL

\* No parent sleeps in wait() past the exit of a child or its own kill.
THEOREM NoLostExitHolds == Spec => []NoLostExit
<1>1. IInv => NoLostExit
  BY DEF IInv
<1> QED  BY Invariance, <1>1, PTL

\* Every process but init has a living parent.
THEOREM NoOrphanHolds == Spec => []NoOrphan
<1>1. IInv => NoOrphan
  BY DEF IInv, TreeInv
<1> QED  BY Invariance, <1>1, PTL

\* allocproc() gives no pid to two slots in use.
THEOREM UniquePidsHolds == Spec => []UniquePids
<1>1. IInv => UniquePids
  BY DEF IInv, PidInv
<1> QED  BY Invariance, <1>1, PTL

\* Only scheduler(c) moves the loop that the scheduler of c is in.
LEMMA OnlySchedulerSeconds ==
  ASSUME Next, NEW c \in CPU, IInv, ~second[c], second'[c]
  PROVE  scheduler(c)
<1> USE DEF cpuVars, procVars, threadVars
<1>1. ASSUME NEW d \in CPU, NEW s \in Slot, UserStep(d, s) \/ Preempt(d, s) PROVE second' = second
  BY <1>1 DEF UserStep, Preempt, SyscallEntry, UserFault, TickKills, yield, sched
<1>2. ASSUME NEW d \in CPU, NEW s \in Slot, KernelStep(d, s) PROVE second' = second
  <2>1. CASE wait(d, s) \/ sleep(d, s) \/ SleepReturns(d, s) \/ Release(d, s)
             \/ \E status \in Status : exit(d, s, status)
    BY <2>1 DEF wait, WaitReaps, WaitFails, WaitSleeps, WaitReturns, sleep, SleepReturns, Release,
         exit, sched
  <2>2. CASE allocproc(d, s) \/ TableFull(d, s) \/ ForkFails(d, s) \/ fork(d, s)
    <3>1. CASE allocproc(d, s)
      BY <3>1 DEF allocproc
    <3>2. CASE TableFull(d, s)
      BY <3>2 DEF TableFull
    <3>3. CASE ForkFails(d, s)
      BY <3>3 DEF ForkFails
    <3>4. CASE fork(d, s)
      BY <3>4 DEF fork
    <3> QED  BY <2>2, <3>1, <3>2, <3>3, <3>4
  <2>3. CASE SyscallReturn(d, s) \/ sys_exit(d, s) \/ ExitPanics(d, s) \/ sys_sleep(d, s)
    BY <2>3 DEF SyscallReturn, sys_exit, ExitPanics, sys_sleep
  <2>4. CASE \/ \E n \in KillPids : kill(d, s, n) \/ NoSuchPid(d, s, n)
             \/ \E pr \in Prios : BadPrio(d, s, pr) \/ \E n \in PrioPids : setprocprio(d, s, n, pr)
    <3>1. ASSUME NEW n \in KillPids, kill(d, s, n) PROVE second' = second
      BY <3>1 DEF kill
    <3>2. ASSUME NEW n \in KillPids, NoSuchPid(d, s, n) PROVE second' = second
      BY <3>2 DEF NoSuchPid
    <3>3. ASSUME NEW pr \in Prios, BadPrio(d, s, pr) PROVE second' = second
      BY <3>3 DEF BadPrio
    <3>4. ASSUME NEW pr \in Prios, NEW n \in PrioPids, setprocprio(d, s, n, pr) PROVE second' = second
      BY <3>4 DEF setprocprio
    <3> QED  BY <2>4, <3>1, <3>2, <3>3, <3>4, Zenon
  <2> QED  BY <1>2, <2>1, <2>2, <2>3, <2>4 DEF KernelStep
<1>3. ASSUME NEW d \in CPU, d # c, scheduler(d) PROVE second'[c] = second[c]
  BY <1>3 DEF scheduler, FirstLoop, SecondLoop, PassEnds, IInv, TypeOK
<1>4. CASE Tick
  BY <1>4 DEF Tick
<1> QED  BY <1>1, <1>2, <1>3, <1>4 DEF Next

\* The second loop of scheduler() starts at a process that is still runnable.
THEOREM PnormalFreshHolds == Spec => PnormalFresh
<1>1. ASSUME IInv, Next, NEW c \in CPU, ~second[c], second'[c]
      PROVE  cproc'[c] = pnormal'[c]
  <2>1. scheduler(c)
    BY <1>1, OnlySchedulerSeconds
  <2>2. ~PassEnds(c)
    BY <1>1 DEF PassEnds, IInv, TypeOK
  <2>3. ~FirstLoop(c, cproc[c] + 1, TRUE)
    BY <1>1, <2>2 DEF FirstLoop
  <2>4. ctx[c] = "top" /\ FirstLoop(c, 1, FALSE)
    BY <1>1, <2>1, <2>3, ZenonT(30) DEF scheduler, IInv, SchedInv, TypeOK
  <2>5. PICK pn \in Slot \cup {0} : Pnormal(c, 1..NPROC, pn) /\ pn # 0 /\ SecondLoop(c, pn, pn)
    BY <1>1, <2>2, <2>4 DEF FirstLoop
  <2>6. pn \in Slot /\ state[pn] = "RUNNABLE"
    BY <1>1, <2>4, <2>5 DEF Pnormal, First, RunnableIn, IInv, SchedInv
  <2>7. PICK s \in Slot : First(s, RunnableIn(pn..NPROC)) /\ Dispatch(c, s)
                          /\ pnormal' = [pnormal EXCEPT ![c] = pn]
    BY <2>2, <2>5 DEF SecondLoop
  <2>8. s = pn
    BY <2>6, <2>7, ProcAssumption DEF First, RunnableIn, Slot
  <2> QED  BY <1>1, <2>7, <2>8 DEF Dispatch, IInv, TypeOK
<1>2. IInv /\ [Next]_vars => [\A c \in CPU : ~second[c] /\ second'[c] => cproc'[c] = pnormal'[c]]_vars
  BY <1>1
<1> QED  BY Invariance, <1>2, PTL DEF Spec, PnormalFresh

=============================================================================
