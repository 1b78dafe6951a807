--------------------------- MODULE EnvSchedProofs ---------------------------
(***************************************************************************)
(* Proofs about EnvSched for any number of CPUs, environments and          *)
(* generations, under the full discipline.                                 *)
(***************************************************************************)
EXTENDS EnvSched, TLAPS

(* A CPU counts as halted exactly when it is, and so takes the lock once. *)
HaltedAgrees ==
  \A c \in CPUs : /\ cpu_status[c] = "HALTED" <=> pc[c] = "halted"
                  /\ pc[c] \notin {"spin_twice", "panic"}

(* What CPUs and environments agree on. *)
CpuInv ==
  /\ LockProtectsKernel
  /\ HaltedAgrees
  /\ CurenvIsLive
  /\ OneCpuPerEnv
  /\ RunningIsOnCpu

(* An environment in use has had an id assigned. *)
AllocatedHasId ==
  \A e \in Slots : env_status[e] # "FREE" => env_gen[e] >= 1

(* A child that its creator has not started yet has never run. *)
UnstartedIsBlocked ==
  \A e \in Slots :
    env_status[e] # "FREE" /\ env_parent_id[e] # NoId /\ e \notin started =>
      env_status[e] = "NOT_RUNNABLE" /\ ~ env_ipc_recving[e]

EnvInv ==
  /\ FreeListExact
  /\ AllocatedHasId
  /\ UnstartedIsBlocked
  /\ ReceiverIsBlocked

(* The progress of boot_aps(). *)
Booting == pc[BSP] \in {"spin_boot", "boot", "boot_wait"}

BootInv ==
  /\ \A c \in CPUs : pc[c] \in {"spin_boot", "boot", "boot_wait"} => c = BSP
  /\ pc[BSP] \notin {"off", "mpentry", "mp_main", "spin_mp"}
  /\ \A c \in CPUs : pc[c] \in {"off", "mpentry", "mp_main"} <=> cpu_status[c] = "UNUSED"
  /\ \A c \in CPUs : pc[c] \in {"mpentry", "mp_main"} =>
       pc[BSP] = "boot_wait" /\ next_ap = c /\ mpentry_kstack = c
  /\ \A c \in CPUs : pc[c] = "off" =>
       Booting /\ c >= next_ap /\ (pc[BSP] = "boot_wait" => c > next_ap)
  /\ Booting => \A c \in CPUs :
       /\ c = BSP \/ pc[c] \in {"off", "mpentry", "mp_main", "spin_mp"}
       /\ c > next_ap => pc[c] = "off"
  /\ pc[BSP] = "spin_boot" => next_ap = 1
  /\ pc[BSP] \in {"spin_boot", "boot"} /\ next_ap \in CPUs => pc[next_ap] = "off"
  /\ pc[BSP] = "boot_wait" => next_ap \in CPUs /\ pc[next_ap] # "off"
  /\ OwnKernelStack

IInv == TypeOK /\ CpuInv /\ EnvInv /\ BootInv /\ MonitorOnlyWhenIdle

----------------------------------------------------------------------------
(* Leaving the kernel.  A handler on CPU c calls the scheduler with a table
   of statuses st and a curenv cur that fit together.                      *)
Ready(c, st, cur) ==
  /\ cur \in Slots => st[cur] \in {"RUNNING", "RUNNABLE", "NOT_RUNNABLE"}
  /\ \A d \in CPUs \ {c} : curenv[d] \in Slots =>
       curenv[d] # cur /\ st[curenv[d]] \in {"RUNNING", "DYING"}
  /\ \A e \in Slots : st[e] \in {"RUNNING", "DYING"} =>
       e = cur \/ \E d \in CPUs \ {c} : curenv[d] = e

CpuTypeOK ==
  /\ lock \in CPUs \cup {NoCpu}
  /\ pc \in [CPUs -> PCs]
  /\ cpu_status \in [CPUs -> {"UNUSED", "STARTED", "HALTED"}]
  /\ curenv \in [CPUs -> Slots \cup {NoEnv}]
  /\ env_status \in [Slots -> Statuses]

(* What the scheduler leaves as the handler wanted it: which slots are free
   and which are blocked.                                                  *)
KeepsFreeAndBlocked(st) ==
  \A e \in Slots :
    /\ env_status'[e] = "FREE" <=> st[e] = "FREE"
    /\ env_status'[e] = "NOT_RUNNABLE" <=> st[e] = "NOT_RUNNABLE"

(* How the scheduler moves the CPU it runs on. *)
CpuLeaves(c) ==
  /\ \E p \in {"popping", "halted", "monitor"} : pc' = [pc EXCEPT ![c] = p]
  /\ \/ UNCHANGED cpu_status
     \/ cpu_status' = [cpu_status EXCEPT ![c] = "HALTED"]
  /\ pc'[c] = "monitor" =>
       \A e \in Slots : env_status'[e] \in {"FREE", "NOT_RUNNABLE"}

(* env_run() establishes the agreement between CPUs and environments. *)
LEMMA EnvRunCorrect ==
  ASSUME CpuTypeOK, CpuInv,
         NEW c \in CPUs, lock = c,
         NEW st \in [Slots -> Statuses],
         NEW cur \in Slots \cup {NoEnv},
         NEW e \in Slots,
         Ready(c, st, cur),
         st[e] = "RUNNABLE" \/ (e = cur /\ st[e] = "RUNNING"),
         env_run(c, e, st, cur)
  PROVE  CpuTypeOK' /\ CpuInv' /\ KeepsFreeAndBlocked(st) /\ CpuLeaves(c)
<1> USE DEF NoEnv, NoCpu, CPUs, Slots
<1>1. CpuTypeOK'
  BY DEF CpuTypeOK, env_run, PCs, Statuses
<1>2. LockProtectsKernel'
  BY DEF CpuTypeOK, CpuInv, LockProtectsKernel, env_run, Holding
<1>3. OneCpuPerEnv'
  BY DEF CpuTypeOK, CpuInv, OneCpuPerEnv, env_run, Ready
<1>4. CurenvIsLive'
  <2> SUFFICES ASSUME NEW d \in CPUs
               PROVE  /\ pc'[d] \in OnCpu => curenv'[d] \in Slots
                      /\ curenv'[d] \in Slots /\ pc'[d] # "monitor" =>
                           pc'[d] \in OnCpu /\ env_status'[curenv'[d]] \in {"RUNNING", "DYING"}
    BY DEF CurenvIsLive
  <2>1. CASE d = c
    BY <2>1 DEF CpuTypeOK, env_run, OnCpu
  <2>2. CASE d # c
    <3>1. pc'[d] = pc[d] /\ curenv'[d] = curenv[d]
      BY <2>2 DEF CpuTypeOK, env_run
    <3>2. /\ pc[d] \in OnCpu => curenv[d] \in Slots
          /\ curenv[d] \in Slots /\ pc[d] # "monitor" => pc[d] \in OnCpu
      BY DEF CpuInv, CurenvIsLive
    <3>3. ASSUME curenv[d] \in Slots
          PROVE  env_status'[curenv[d]] \in {"RUNNING", "DYING"}
      BY <3>3, <2>2 DEF env_run, Ready
    <3> QED BY <3>1, <3>2, <3>3
  <2> QED BY <2>1, <2>2
<1>5. RunningIsOnCpu'
  <2> SUFFICES ASSUME NEW s \in Slots, env_status'[s] \in {"RUNNING", "DYING"}
               PROVE  \E d \in CPUs : curenv'[d] = s
    BY DEF RunningIsOnCpu
  <2>1. CASE s = e
    BY <2>1 DEF CpuTypeOK, env_run
  <2>2. CASE s # e
    <3>1. st[s] \in {"RUNNING", "DYING"} /\ s # cur
      BY <2>2 DEF env_run, Ready
    <3>2. PICK d \in CPUs \ {c} : curenv[d] = s
      BY <3>1 DEF Ready
    <3>3. curenv'[d] = s
      BY <3>2 DEF CpuTypeOK, env_run
    <3> QED BY <3>3
  <2> QED BY <2>1, <2>2
<1>6. KeepsFreeAndBlocked(st)
  BY DEF KeepsFreeAndBlocked, env_run, Ready
<1>7. CpuLeaves(c)
  BY DEF CpuLeaves, CpuTypeOK, env_run
<1>8. HaltedAgrees'
  <2>1. pc[c] # "halted"
    BY DEF CpuInv, LockProtectsKernel, Holding
  <2> QED BY <2>1 DEF CpuTypeOK, CpuInv, HaltedAgrees, env_run
<1> QED BY <1>1, <1>2, <1>3, <1>4, <1>5, <1>6, <1>7, <1>8 DEF CpuInv

(* So does sched_halt(), when there is nothing to run on this CPU. *)
LEMMA SchedHaltCorrect ==
  ASSUME CpuTypeOK, CpuInv,
         NEW c \in CPUs, lock = c,
         NEW st \in [Slots -> Statuses],
         NEW cur \in Slots \cup {NoEnv},
         Ready(c, st, cur),
         \A e \in Slots : st[e] # "RUNNABLE",
         cur \in Slots => st[cur] # "RUNNING",
         sched_halt(c, st, cur)
  PROVE  CpuTypeOK' /\ CpuInv' /\ KeepsFreeAndBlocked(st) /\ CpuLeaves(c)
<1> USE DEF NoEnv, NoCpu, CPUs, Slots
<1> DEFINE idle == \A s \in Slots : st[s] \notin {"RUNNABLE", "RUNNING", "DYING"}
<1>1. CpuTypeOK'
  BY DEF CpuTypeOK, sched_halt, PCs, Holding
<1>a. ASSUME idle PROVE LockProtectsKernel' /\ OneCpuPerEnv' /\ pc'[c] = "monitor"
  <2>1. /\ env_status' = st /\ lock' = lock
        /\ curenv' = [curenv EXCEPT ![c] = cur]
        /\ pc' = [pc EXCEPT ![c] = "monitor"]
    BY <1>a DEF sched_halt
  <2>2. LockProtectsKernel'
    BY <2>1 DEF CpuTypeOK, CpuInv, LockProtectsKernel, Holding
  <2>3. OneCpuPerEnv'
    BY <2>1 DEF CpuTypeOK, CpuInv, OneCpuPerEnv, Ready
  <2> QED BY <2>1, <2>2, <2>3 DEF CpuTypeOK
<1>b. ASSUME ~ idle PROVE LockProtectsKernel' /\ OneCpuPerEnv' /\ pc'[c] = "halted" /\ curenv'[c] = NoEnv
  <2>1. /\ env_status' = st /\ lock' = NoCpu
        /\ curenv' = [curenv EXCEPT ![c] = NoEnv]
        /\ pc' = [pc EXCEPT ![c] = "halted"]
    BY <1>b DEF sched_halt
  <2>2. LockProtectsKernel'
    BY <2>1 DEF CpuTypeOK, CpuInv, LockProtectsKernel, Holding
  <2>3. OneCpuPerEnv'
    BY <2>1 DEF CpuTypeOK, CpuInv, OneCpuPerEnv
  <2> QED BY <2>1, <2>2, <2>3 DEF CpuTypeOK
<1>2. LockProtectsKernel'
  BY <1>a, <1>b
<1>3. OneCpuPerEnv'
  BY <1>a, <1>b
<1>4. CurenvIsLive'
  <2> SUFFICES ASSUME NEW d \in CPUs
               PROVE  /\ pc'[d] \in OnCpu => curenv'[d] \in Slots
                      /\ curenv'[d] \in Slots /\ pc'[d] # "monitor" =>
                           pc'[d] \in OnCpu /\ env_status'[curenv'[d]] \in {"RUNNING", "DYING"}
    BY DEF CurenvIsLive
  <2>1. CASE d = c
    BY <2>1, <1>a, <1>b DEF OnCpu
  <2>2. CASE d # c
    <3>1. pc'[d] = pc[d] /\ curenv'[d] = curenv[d] /\ env_status' = st
      BY <2>2 DEF CpuTypeOK, sched_halt
    <3>2. /\ pc[d] \in OnCpu => curenv[d] \in Slots
          /\ curenv[d] \in Slots /\ pc[d] # "monitor" => pc[d] \in OnCpu
      BY DEF CpuInv, CurenvIsLive
    <3> QED BY <3>1, <3>2, <2>2 DEF Ready
  <2> QED BY <2>1, <2>2
<1>5. RunningIsOnCpu'
  <2> SUFFICES ASSUME NEW s \in Slots, env_status'[s] \in {"RUNNING", "DYING"}
               PROVE  \E d \in CPUs : curenv'[d] = s
    BY DEF RunningIsOnCpu
  <2>1. st[s] \in {"RUNNING", "DYING"} /\ s # cur /\ ~ idle
    BY DEF sched_halt, Ready
  <2>2. PICK d \in CPUs \ {c} : curenv[d] = s
    BY <2>1 DEF Ready
  <2>3. curenv'[d] = s
    BY <2>1, <2>2 DEF CpuTypeOK, sched_halt
  <2> QED BY <2>3
<1>6. KeepsFreeAndBlocked(st)
  BY DEF KeepsFreeAndBlocked, sched_halt
<1>7. CpuLeaves(c)
  <2>1. idle => \A e \in Slots : env_status'[e] \in {"FREE", "NOT_RUNNABLE"}
    BY DEF sched_halt, Statuses
  <2> QED BY <1>a, <1>b, <2>1 DEF CpuLeaves, sched_halt
<1>8. HaltedAgrees'
  <2>1. pc[c] # "halted"
    BY DEF CpuInv, LockProtectsKernel, Holding
  <2>2. CASE idle
    BY <2>1, <2>2 DEF CpuTypeOK, CpuInv, HaltedAgrees, sched_halt
  <2>3. CASE ~ idle
    BY <2>3 DEF CpuTypeOK, CpuInv, HaltedAgrees, sched_halt
  <2> QED BY <2>2, <2>3
<1> QED BY <1>1, <1>2, <1>3, <1>4, <1>5, <1>6, <1>7, <1>8 DEF CpuInv

(* Hence sched_yield() does, whichever environment it chooses. *)
LEMMA SchedYieldCorrect ==
  ASSUME CpuTypeOK, CpuInv,
         NEW c \in CPUs, lock = c,
         NEW st \in [Slots -> Statuses],
         NEW cur \in Slots \cup {NoEnv},
         Ready(c, st, cur),
         sched_yield(c, st, cur)
  PROVE  CpuTypeOK' /\ CpuInv' /\ KeepsFreeAndBlocked(st) /\ CpuLeaves(c)
<1>1. CASE \E e \in Slots : st[e] = "RUNNABLE" /\ env_run(c, e, st, cur)
  BY <1>1, EnvRunCorrect
<1>2. CASE cur # NoEnv /\ st[cur] = "RUNNING" /\ env_run(c, cur, st, cur)
  BY <1>2, EnvRunCorrect
<1>3. CASE /\ \A e \in Slots : st[e] # "RUNNABLE"
           /\ ~ (cur # NoEnv /\ st[cur] = "RUNNING")
           /\ sched_halt(c, st, cur)
  <2>1. cur \in Slots => st[cur] # "RUNNING"
    BY <1>3 DEF NoEnv, Slots
  <2> QED BY <1>3, <2>1, SchedHaltCorrect
<1> QED BY <1>1, <1>2, <1>3 DEF sched_yield

(* And so does the end of trap(). *)
LEMMA TrapReturnCorrect ==
  ASSUME CpuTypeOK, CpuInv,
         NEW c \in CPUs, lock = c, curenv[c] \in Slots,
         NEW st \in [Slots -> Statuses],
         Ready(c, st, curenv[c]),
         trap_return(c, st)
  PROVE  CpuTypeOK' /\ CpuInv' /\ KeepsFreeAndBlocked(st) /\ CpuLeaves(c)
<1>1. CASE st[curenv[c]] = "RUNNING" /\ env_run(c, curenv[c], st, curenv[c])
  BY <1>1, EnvRunCorrect
<1>2. CASE sched_yield(c, st, curenv[c])
  BY <1>2, SchedYieldCorrect
<1> QED BY <1>1, <1>2 DEF trap_return

----------------------------------------------------------------------------
(* Handlers call the scheduler with tables that fit. *)

(* A CPU that serves a trap owns the lock and runs a live environment. *)
LEMMA TrapContext ==
  ASSUME CpuTypeOK, CpuInv, NEW c \in CPUs, pc[c] \in {"irq", "trap"}
  PROVE  /\ lock = c
         /\ curenv[c] \in Slots
         /\ env_status[curenv[c]] \in {"RUNNING", "DYING"}
         /\ \A d \in CPUs \ {c} : pc[d] # "monitor"
<1>1. lock = c
  BY DEF CpuInv, LockProtectsKernel, Holding
<1>2. curenv[c] \in Slots /\ env_status[curenv[c]] \in {"RUNNING", "DYING"}
  BY DEF CpuInv, CurenvIsLive, OnCpu
<1>3. \A d \in CPUs \ {c} : pc[d] # "monitor"
  BY <1>1 DEF CpuInv, LockProtectsKernel, Holding
<1> QED BY <1>1, <1>2, <1>3

(* A change of one status that does not start or stop an environment behind
   another CPU's back.                                                     *)
LEMMA ReadyExcept ==
  ASSUME CpuTypeOK, CpuInv, NEW c \in CPUs, pc[c] \in {"irq", "trap"},
         env_status[curenv[c]] = "RUNNING",
         NEW e \in Slots, NEW x \in Statuses,
         e = curenv[c] => x \in {"RUNNING", "RUNNABLE", "NOT_RUNNABLE"},
         e # curenv[c] => (x \in {"RUNNING", "DYING"} <=>
                           env_status[e] \in {"RUNNING", "DYING"})
  PROVE  Ready(c, [env_status EXCEPT ![e] = x], curenv[c])
<1> DEFINE st == [env_status EXCEPT ![e] = x]
<1> USE DEF NoEnv, Slots
<1>1. /\ curenv[c] \in Slots
      /\ \A d \in CPUs \ {c} : pc[d] # "monitor"
  BY TrapContext
<1>2. st \in [Slots -> Statuses] /\ \A s \in Slots : st[s] = IF s = e THEN x ELSE env_status[s]
  BY DEF CpuTypeOK
<1>3. st[curenv[c]] \in {"RUNNING", "RUNNABLE", "NOT_RUNNABLE"}
  BY <1>1, <1>2
<1>4. ASSUME NEW d \in CPUs \ {c}, curenv[d] \in Slots
      PROVE  curenv[d] # curenv[c] /\ st[curenv[d]] \in {"RUNNING", "DYING"}
  <2>1. curenv[d] # curenv[c]
    BY <1>4, <1>1 DEF CpuInv, OneCpuPerEnv
  <2>2. env_status[curenv[d]] \in {"RUNNING", "DYING"}
    BY <1>4, <1>1 DEF CpuInv, CurenvIsLive
  <2> QED BY <2>1, <2>2, <1>2, <1>4
<1>5. ASSUME NEW s \in Slots, st[s] \in {"RUNNING", "DYING"}
      PROVE  s = curenv[c] \/ \E d \in CPUs \ {c} : curenv[d] = s
  <2>1. s = curenv[c] \/ env_status[s] \in {"RUNNING", "DYING"}
    BY <1>2, <1>5
  <2> QED BY <2>1 DEF CpuInv, RunningIsOnCpu
<1> HIDE DEF st
<1>6. Ready(c, st, curenv[c])
  BY <1>3, <1>4, <1>5 DEF Ready
<1> QED BY <1>6 DEF st

(* The unchanged table fits as well. *)
LEMMA ReadyUnchanged ==
  ASSUME CpuTypeOK, CpuInv, NEW c \in CPUs, pc[c] \in {"irq", "trap"},
         env_status[curenv[c]] = "RUNNING"
  PROVE  Ready(c, env_status, curenv[c])
<1>1. curenv[c] \in Slots
  BY TrapContext
<1>2. [env_status EXCEPT ![curenv[c]] = "RUNNING"] = env_status
  BY <1>1 DEF CpuTypeOK
<1>3. Ready(c, [env_status EXCEPT ![curenv[c]] = "RUNNING"], curenv[c])
  BY <1>1, ReadyExcept DEF Statuses
<1> QED BY <1>2, <1>3

(* Freeing the current environment leaves this CPU without one. *)
LEMMA ReadyFreed ==
  ASSUME CpuTypeOK, CpuInv, NEW c \in CPUs, pc[c] \in {"irq", "trap"}
  PROVE  Ready(c, Freed(curenv[c]), NoEnv)
<1> USE DEF NoEnv, Slots
<1>1. /\ curenv[c] \in Slots
      /\ \A d \in CPUs \ {c} : pc[d] # "monitor"
  BY TrapContext
<1>2. \A s \in Slots : Freed(curenv[c])[s] =
        IF s = curenv[c] THEN "FREE" ELSE env_status[s]
  BY DEF CpuTypeOK, Freed
<1>3. ASSUME NEW d \in CPUs \ {c}, curenv[d] \in Slots
      PROVE  curenv[d] # NoEnv /\ Freed(curenv[c])[curenv[d]] \in {"RUNNING", "DYING"}
  <2>1. curenv[d] # curenv[c]
    BY <1>3, <1>1 DEF CpuInv, OneCpuPerEnv
  <2>2. env_status[curenv[d]] \in {"RUNNING", "DYING"}
    BY <1>3, <1>1 DEF CpuInv, CurenvIsLive
  <2> QED BY <2>1, <2>2, <1>2, <1>3
<1>4. ASSUME NEW s \in Slots, Freed(curenv[c])[s] \in {"RUNNING", "DYING"}
      PROVE  \E d \in CPUs \ {c} : curenv[d] = s
  <2>1. s # curenv[c] /\ env_status[s] \in {"RUNNING", "DYING"}
    BY <1>2, <1>4
  <2> QED BY <2>1 DEF CpuInv, RunningIsOnCpu
<1> QED BY <1>3, <1>4 DEF Ready

(* A CPU that calls the scheduler without a current environment. *)
LEMMA ReadySched ==
  ASSUME CpuTypeOK, CpuInv, NEW c \in CPUs, pc[c] = "sched"
  PROVE  lock = c /\ curenv[c] = NoEnv /\ Ready(c, env_status, curenv[c])
<1> USE DEF NoEnv, Slots
<1>1. lock = c
  BY DEF CpuInv, LockProtectsKernel, Holding
<1>2. \A d \in CPUs \ {c} : pc[d] # "monitor"
  BY <1>1 DEF CpuInv, LockProtectsKernel, Holding
<1>3. curenv[c] = NoEnv
  BY DEF CpuTypeOK, CpuInv, CurenvIsLive, OnCpu
<1>4. \A d \in CPUs \ {c} : curenv[d] \in Slots =>
        curenv[d] # NoEnv /\ env_status[curenv[d]] \in {"RUNNING", "DYING"}
  BY <1>2 DEF CpuInv, CurenvIsLive
<1>5. \A s \in Slots : env_status[s] \in {"RUNNING", "DYING"} =>
        \E d \in CPUs \ {c} : curenv[d] = s
  BY <1>3 DEF CpuInv, RunningIsOnCpu
<1> QED BY <1>1, <1>3, <1>4, <1>5 DEF Ready

----------------------------------------------------------------------------
(* The free list and the other fields of the table *)

EnvTypeOK ==
  /\ env_gen \in [Slots -> 0 .. MaxGen]
  /\ env_parent_id \in [Slots -> EnvIds \cup {NoId}]
  /\ env_ipc_recving \in [Slots -> BOOLEAN]
  /\ env_free_list \in Seq(Slots)
  /\ started \in SUBSET Slots

(* Freeing a slot that is in use keeps the free list exact. *)
LEMMA FreePushes ==
  ASSUME EnvTypeOK, FreeListExact, NEW e \in Slots, env_free(e),
         \A s \in Slots : env_status'[s] = "FREE" <=> s = e \/ env_status[s] = "FREE"
  PROVE  env_free_list' \in Seq(Slots) /\ FreeListExact'
<1> DEFINE l == env_free_list
           m == <<e>> \o l
<1>1. l \in Seq(Slots) /\ m \in Seq(Slots)
  BY DEF EnvTypeOK
<1>2. Len(m) = Len(l) + 1 /\ m[1] = e /\ \A i \in 1 .. Len(l) : m[i + 1] = l[i]
  BY <1>1
<1>3. DOMAIN l = 1 .. Len(l) /\ DOMAIN m = 1 .. Len(m) /\ Len(l) \in Nat
  BY <1>1
<1>4. env_free_list' = m /\ \A i \in DOMAIN l : l[i] # e
  BY DEF env_free
<1>5. \A i, j \in DOMAIN l : i # j => l[i] # l[j]
  BY DEF FreeListExact
<1>6. \A s \in Slots : env_status[s] = "FREE" <=> \E i \in DOMAIN l : l[i] = s
  BY DEF FreeListExact
<1> HIDE DEF l, m
<1>a. \A i \in 2 .. Len(m) : i - 1 \in 1 .. Len(l) /\ m[i] = l[i - 1]
  BY <1>2, <1>3
<1>7. \A i, j \in DOMAIN m : i # j => m[i] # m[j]
  <2> SUFFICES ASSUME NEW i \in DOMAIN m, NEW j \in DOMAIN m, i # j
               PROVE  m[i] # m[j]
    OBVIOUS
  <2>1. CASE i = 1
    BY <2>1, <1>a, <1>2, <1>3, <1>4
  <2>2. CASE j = 1
    BY <2>2, <1>a, <1>2, <1>3, <1>4
  <2>3. CASE i # 1 /\ j # 1
    <3>1. i \in 2 .. Len(m) /\ j \in 2 .. Len(m)
      BY <2>3, <1>3, <1>2
    <3>2. m[i] = l[i - 1] /\ m[j] = l[j - 1] /\ i - 1 # j - 1
      BY <3>1, <1>a
    <3>3. i - 1 \in DOMAIN l /\ j - 1 \in DOMAIN l
      BY <3>1, <1>a, <1>3
    <3> QED BY <3>2, <3>3, <1>5
  <2> QED BY <2>1, <2>2, <2>3
<1>8. ASSUME NEW s \in Slots
      PROVE  env_status'[s] = "FREE" <=> \E i \in DOMAIN m : m[i] = s
  <2>1. CASE s = e
    BY <2>1, <1>2, <1>3
  <2>2. CASE s # e
    <3>1. (\E i \in DOMAIN m : m[i] = s) => \E i \in DOMAIN l : l[i] = s
      BY <2>2, <1>2, <1>3, <1>a
    <3>2. (\E i \in DOMAIN l : l[i] = s) => \E i \in DOMAIN m : m[i] = s
      BY <1>2, <1>3
    <3> QED BY <3>1, <3>2, <2>2, <1>6
  <2> QED BY <2>1, <2>2
<1> QED BY <1>1, <1>4, <1>7, <1>8 DEF FreeListExact

(* Allocating takes a free slot off the list and gives it an id. *)
LEMMA AllocPops ==
  ASSUME EnvTypeOK, FreeListExact, NEW e \in Slots,
         NEW parent \in EnvIds \cup {NoId}, env_alloc(e, parent),
         \A s \in Slots : env_status'[s] = "FREE" <=> s # e /\ env_status[s] = "FREE"
  PROVE  EnvTypeOK' /\ FreeListExact' /\ env_status[e] = "FREE" /\ env_gen'[e] >= 1
<1> DEFINE l == env_free_list
           t == Tail(l)
<1>1. l \in Seq(Slots) /\ l # <<>> /\ t \in Seq(Slots)
  BY DEF EnvTypeOK, env_alloc
<1>2. Len(l) \in Nat /\ Len(l) > 0 /\ Len(t) = Len(l) - 1 /\ \A i \in 1 .. Len(t) : t[i] = l[i + 1]
  BY <1>1
<1>3. DOMAIN l = 1 .. Len(l) /\ DOMAIN t = 1 .. Len(t)
  BY <1>1
<1>4. env_free_list' = t /\ e = l[1]
  BY <1>1 DEF env_alloc
<1>5. \A i, j \in DOMAIN l : i # j => l[i] # l[j]
  BY DEF FreeListExact
<1>6. \A s \in Slots : env_status[s] = "FREE" <=> \E i \in DOMAIN l : l[i] = s
  BY DEF FreeListExact
<1>7. EnvTypeOK' /\ env_gen'[e] >= 1
  <2>1. NextGen(env_gen[e]) \in 1 .. MaxGen
    BY MaxGenAssumption DEF NextGen, EnvTypeOK
  <2> QED BY <1>1, <2>1, <1>4, MaxGenAssumption DEF EnvTypeOK, env_alloc
<1> HIDE DEF l, t
<1>8. \A i \in DOMAIN t : i + 1 \in DOMAIN l /\ i + 1 # 1 /\ t[i] = l[i + 1]
  BY <1>2, <1>3
<1>9. \A i, j \in DOMAIN t : i # j => t[i] # t[j]
  <2> SUFFICES ASSUME NEW i \in DOMAIN t, NEW j \in DOMAIN t, i # j
               PROVE  t[i] # t[j]
    OBVIOUS
  <2>1. i + 1 # j + 1
    BY <1>2, <1>3
  <2> QED BY <2>1, <1>5, <1>8
<1>10. env_status[e] = "FREE" /\ 1 \in DOMAIN l
  BY <1>2, <1>3, <1>4, <1>6
<1>11. ASSUME NEW s \in Slots
       PROVE  env_status'[s] = "FREE" <=> \E i \in DOMAIN t : t[i] = s
  <2>1. (\E i \in DOMAIN t : t[i] = s) => s # e /\ \E i \in DOMAIN l : l[i] = s
    BY <1>4, <1>5, <1>8, <1>10
  <2>2. ASSUME NEW i \in DOMAIN l, l[i] = s, s # e
        PROVE  \E j \in DOMAIN t : t[j] = s
    <3>1. i - 1 \in DOMAIN t /\ (i - 1) + 1 = i
      BY <2>2, <1>2, <1>3, <1>4
    <3> QED BY <3>1, <2>2, <1>8
  <2> QED BY <2>1, <2>2, <1>6
<1> QED BY <1>4, <1>7, <1>9, <1>10, <1>11 DEF FreeListExact

----------------------------------------------------------------------------
(* Start-up and the monitor *)

(* A CPU that leaves the kernel does so after the start-up of all CPUs, and
   enters the monitor only if no other CPU can be running anything.        *)
LEMMA LeavingKeepsBoot ==
  ASSUME IInv, NEW c \in CPUs, pc[c] \in {"sched", "irq", "trap"},
         CpuTypeOK', CpuInv', CpuLeaves(c), UNCHANGED bootVars
  PROVE  BootInv' /\ MonitorOnlyWhenIdle'
<1> USE DEF BSP
<1>1. BSP \in CPUs
  BY NCPUAssumption DEF CPUs
<1>2. ~ Booting
  BY DEF IInv, BootInv, Booting
<1>3. \A d \in CPUs : pc[d] \notin {"off", "mpentry", "mp_main", "spin_boot", "boot", "boot_wait"}
  BY <1>1, <1>2 DEF IInv, BootInv, Booting
<1>4. \A d \in CPUs : /\ d # c => pc'[d] = pc[d] /\ cpu_status'[d] = cpu_status[d]
                      /\ d = c => pc'[d] \in {"popping", "halted", "monitor"}
  BY DEF CpuLeaves, IInv, TypeOK
<1>5. \A d \in CPUs : cpu_status'[d] # "UNUSED"
  BY <1>3 DEF CpuLeaves, IInv, TypeOK, BootInv
<1>6. \A d \in CPUs : pc'[d] \notin {"off", "mpentry", "mp_main", "spin_boot", "boot", "boot_wait"}
  BY <1>3, <1>4
<1>7. pc'[BSP] # "spin_mp" /\ OwnKernelStack'
  BY <1>1, <1>3, <1>4 DEF IInv, BootInv, OwnKernelStack, bootVars
<1>8. BootInv'
  BY <1>1, <1>5, <1>6, <1>7 DEF BootInv, Booting
<1>9. \A d \in CPUs \ {c} : pc[d] # "monitor"
  BY DEF IInv, CpuInv, LockProtectsKernel, Holding
<1>10. ASSUME NEW k \in CPUs, pc'[k] = "monitor"
       PROVE  /\ \A e \in Slots : env_status'[e] \in {"FREE", "NOT_RUNNABLE"}
              /\ \A d \in CPUs \ {k} : pc'[d] \in {"halted", "spin_mp", "spin_halt"}
  <2>1. k = c
    BY <1>4, <1>9, <1>10
  <2>2. \A e \in Slots : env_status'[e] \in {"FREE", "NOT_RUNNABLE"}
    BY <2>1, <1>10 DEF CpuLeaves
  <2>3. ASSUME NEW d \in CPUs \ {c}
        PROVE  pc'[d] \in {"halted", "spin_mp", "spin_halt"}
    <3>1. pc'[d] \in PCs /\ pc'[d] # "monitor"
      BY <1>4, <1>9 DEF CpuTypeOK
    <3>2. pc'[d] \notin OnCpu
      BY <2>2, <3>1 DEF CpuInv, CurenvIsLive
    <3>3. pc'[d] \notin Holding
      BY <2>1, <1>10 DEF CpuInv, LockProtectsKernel, Holding
    <3>4. pc'[d] \notin {"spin_twice", "panic"}
      BY DEF CpuInv, HaltedAgrees
    <3> QED BY <3>1, <3>2, <3>3, <3>4, <1>6 DEF PCs, Spinning, OnCpu, Holding
  <2> QED BY <2>1, <2>2, <2>3
<1> QED BY <1>8, <1>10 DEF MonitorOnlyWhenIdle

(* Steps that move a CPU without touching the lock, the environments or the
   start-up.                                                               *)
LEMMA QuietStep ==
  ASSUME IInv, NEW c \in CPUs,
         \/ pc[c] = "popping" /\ pc' = [pc EXCEPT ![c] = "user"]
         \/ pc[c] = "user" /\ pc' = [pc EXCEPT ![c] = "spin_irq"]
         \/ pc[c] = "user" /\ pc' = [pc EXCEPT ![c] = "spin_trap"],
         UNCHANGED <<lock, cpu_status, curenv, env_status>>,
         UNCHANGED <<bootVars, envVars>>
  PROVE  IInv'
<1> USE DEF BSP
<1>0. BSP \in CPUs
  BY NCPUAssumption DEF CPUs
<1>1. TypeOK'
  BY DEF IInv, TypeOK, bootVars, envVars, PCs, Spinning
<1>2. \A d \in CPUs : /\ d # c => pc'[d] = pc[d]
                      /\ d = c => pc[d] \in {"popping", "user"} /\ pc'[d] \in {"user", "spin_irq", "spin_trap"}
  BY DEF IInv, TypeOK
<1>3. CpuInv'
  <2>1. LockProtectsKernel'
    BY <1>2 DEF IInv, CpuInv, LockProtectsKernel, Holding
  <2>2. CurenvIsLive'
    BY <1>2 DEF IInv, CpuInv, CurenvIsLive, OnCpu
  <2>3. OneCpuPerEnv' /\ RunningIsOnCpu'
    BY DEF IInv, CpuInv, OneCpuPerEnv, RunningIsOnCpu
  <2>4. HaltedAgrees'
    BY <1>2 DEF IInv, CpuInv, HaltedAgrees
  <2> QED BY <2>1, <2>2, <2>3, <2>4 DEF CpuInv
<1>4. EnvInv'
  BY DEF IInv, EnvInv, FreeListExact, AllocatedHasId, UnstartedIsBlocked,
         ReceiverIsBlocked, envVars
<1>5. BootInv'
  <2>1. Booting <=> Booting'
    BY <1>0, <1>2 DEF Booting
  <2>2. ~ Booting
    BY <1>2 DEF IInv, BootInv, Booting
  <2>3. \A d \in CPUs : pc[d] \notin {"off", "mpentry", "mp_main", "spin_boot", "boot", "boot_wait"}
    BY <1>0, <2>2 DEF IInv, BootInv, Booting
  <2>4. \A d \in CPUs : pc'[d] \notin {"off", "mpentry", "mp_main", "spin_boot", "boot", "boot_wait"}
    BY <2>3, <1>2
  <2>5. OwnKernelStack' /\ pc'[BSP] # "spin_mp" /\ \A d \in CPUs : cpu_status'[d] # "UNUSED"
    BY <2>3, <1>0, <1>2 DEF IInv, BootInv, OwnKernelStack, bootVars
  <2> QED BY <1>0, <2>1, <2>2, <2>4, <2>5 DEF BootInv, Booting
<1>6. MonitorOnlyWhenIdle'
  BY <1>2 DEF IInv, MonitorOnlyWhenIdle
<1> QED BY <1>1, <1>3, <1>4, <1>5, <1>6 DEF IInv

(* The beginning of trap() finds a CPU in user mode started. *)
LEMMA EnterFacts ==
  ASSUME IInv, NEW c \in CPUs
  PROVE  /\ pc[c] = "user" => cpu_status[c] = "STARTED"
                              /\ [cpu_status EXCEPT ![c] = "STARTED"] = cpu_status
         /\ pc[c] = "halted" => cpu_status[c] = "HALTED"
<1>1. pc[c] = "user" => cpu_status[c] \notin {"UNUSED", "HALTED"}
  BY DEF IInv, CpuInv, HaltedAgrees, BootInv
<1>2. pc[c] = "user" => cpu_status[c] = "STARTED"
  BY <1>1 DEF IInv, TypeOK
<1>3. pc[c] = "halted" => cpu_status[c] = "HALTED"
  BY DEF IInv, CpuInv, HaltedAgrees
<1> QED BY <1>2, <1>3 DEF IInv, TypeOK

(* A trap from user mode makes the CPU wait for the lock. *)
LEMMA UserTrapStep ==
  ASSUME IInv, NEW c \in CPUs, timer_irq(c) \/ user_trap(c)
  PROVE  IInv'
<1>1. CASE timer_irq(c)
  <2>1. pc[c] = "user" /\ pc' = [pc EXCEPT ![c] = "spin_irq"]
    BY <1>1, EnterFacts DEF timer_irq, enter_kernel
  <2>2. UNCHANGED <<lock, cpu_status, curenv, env_status>> /\ UNCHANGED <<bootVars, envVars>>
    BY <1>1, <2>1, EnterFacts DEF timer_irq, enter_kernel
  <2> QED BY <2>1, <2>2, QuietStep
<1>2. CASE user_trap(c)
  <2>1. pc[c] = "user" /\ pc' = [pc EXCEPT ![c] = "spin_trap"]
    BY <1>2, EnterFacts DEF user_trap, enter_kernel
  <2>2. UNCHANGED <<lock, cpu_status, curenv, env_status>> /\ UNCHANGED <<bootVars, envVars>>
    BY <1>2, <2>1, EnterFacts DEF user_trap, enter_kernel
  <2> QED BY <2>1, <2>2, QuietStep
<1> QED BY <1>1, <1>2

(* The environments do not notice a step that leaves them alone. *)
LEMMA EnvInvUnchanged ==
  ASSUME EnvInv, UNCHANGED env_status, UNCHANGED envVars
  PROVE  EnvInv'
BY DEF EnvInv, FreeListExact, AllocatedHasId, UnstartedIsBlocked,
       ReceiverIsBlocked, envVars

(* Taking the lock. *)
LEMMA LockKernelStep ==
  ASSUME IInv, NEW c \in CPUs, lock_kernel(c)
  PROVE  IInv'
<1> USE DEF BSP
<1>0. BSP \in CPUs
  BY NCPUAssumption DEF CPUs
<1>a. /\ pc[c] \in Spinning \ {"spin_twice"}
      /\ lock = NoCpu /\ lock' = c /\ c # NoCpu
      /\ pc' = [pc EXCEPT ![c] = AfterLock[pc[c]]]
  <2>1. pc[c] \in Spinning /\ pc[c] # "spin_twice"
    BY DEF lock_kernel, IInv, CpuInv, HaltedAgrees
  <2>2. lock # c
    BY <2>1 DEF IInv, CpuInv, LockProtectsKernel, Spinning, Holding
  <2> QED BY <2>1, <2>2 DEF lock_kernel, CPUs, NoCpu
<1>b. UNCHANGED <<cpu_status, curenv, env_status>> /\ UNCHANGED <<bootVars, envVars>>
  BY DEF lock_kernel
<1>1. TypeOK'
  BY <1>a, <1>b DEF IInv, TypeOK, bootVars, envVars, PCs, Spinning, Holding, AfterLock
<1>2. \/ pc[c] = "spin_boot" /\ pc'[c] = "boot"
      \/ pc[c] \in {"spin_mp", "spin_halt"} /\ pc'[c] = "sched"
      \/ pc[c] = "spin_irq" /\ pc'[c] = "irq"
      \/ pc[c] = "spin_trap" /\ pc'[c] = "trap"
  BY <1>a DEF IInv, TypeOK, Spinning, AfterLock
<1>3. \A d \in CPUs : d # c => pc'[d] = pc[d] /\ pc[d] \notin Holding
  BY <1>a DEF IInv, TypeOK, CpuInv, LockProtectsKernel, CPUs, NoCpu
<1>4. CpuInv'
  <2>1. LockProtectsKernel'
    BY <1>a, <1>2, <1>3 DEF LockProtectsKernel, Holding
  <2>2. CurenvIsLive'
    BY <1>b, <1>2, <1>3 DEF IInv, CpuInv, CurenvIsLive, OnCpu
  <2>3. OneCpuPerEnv' /\ RunningIsOnCpu'
    BY <1>b DEF IInv, CpuInv, OneCpuPerEnv, RunningIsOnCpu
  <2>4. HaltedAgrees'
    BY <1>b, <1>2, <1>3 DEF IInv, CpuInv, HaltedAgrees
  <2> QED BY <2>1, <2>2, <2>3, <2>4 DEF CpuInv
<1>5. EnvInv'
  BY <1>b, EnvInvUnchanged DEF IInv
<1>6. BootInv'
  <2>1. UNCHANGED <<cpu_status, mpentry_kstack, kstack, next_ap>>
    BY <1>b DEF bootVars
  <2>2. CASE pc[c] = "spin_boot"
    BY <2>1, <2>2, <1>0, <1>2, <1>3 DEF IInv, BootInv, Booting, OwnKernelStack
  <2>3. CASE pc[c] # "spin_boot"
    <3>1. pc[BSP] \notin Holding \/ c = BSP
      BY <1>0, <1>3
    <3>2. c = BSP => ~ Booting
      BY <2>3, <1>2 DEF Booting
    <3>3. Booting => pc[BSP] = "spin_boot"
      BY <3>1, <3>2 DEF Booting, Holding
    <3>4. Booting => c # BSP /\ pc[c] \in {"off", "mpentry", "mp_main", "spin_mp"}
      BY <3>2 DEF IInv, BootInv
    <3>5. c = BSP => pc'[c] \in {"sched", "irq", "trap"}
      BY <2>3, <1>2
    <3>6. c # BSP => c >= 1 /\ c \in Int
      BY DEF CPUs
    <3>7. ~ Booting
      <4> SUFFICES ASSUME Booting PROVE FALSE
        OBVIOUS
      <4>1. pc[BSP] = "spin_boot" /\ next_ap = 1 /\ c # BSP
        BY <3>3, <3>4 DEF IInv, BootInv
      <4>2. pc[c] = "off"
        BY <4>1, <3>6 DEF IInv, BootInv
      <4> QED BY <4>2, <1>2
    <3> QED BY <2>1, <2>3, <3>7, <3>5, <1>0, <1>2, <1>3
            DEF IInv, BootInv, Booting, OwnKernelStack
  <2> QED BY <2>2, <2>3
<1>7. MonitorOnlyWhenIdle'
  BY <1>2, <1>3 DEF MonitorOnlyWhenIdle, Holding
<1> QED BY <1>1, <1>4, <1>5, <1>6, <1>7 DEF IInv

(* The steps of the start-up that only move CPUs. *)
BootStep(c) ==
  boot_aps_start(c) \/ boot_aps_wait(c) \/ mpentry(c) \/ mp_main(c) \/ timer_wakes(c)

(* Start-up keeps the invariant of processors and environments. *)
LEMMA BootStepCpus ==
  ASSUME IInv, NEW c \in CPUs, BootStep(c)
  PROVE  TypeOK' /\ CpuInv' /\ EnvInv'
<1> USE DEF BSP
<1>0. BSP \in CPUs /\ \A d \in CPUs : d \in Int
  BY NCPUAssumption DEF CPUs
<1>1. UNCHANGED <<lock, curenv, env_status>> /\ UNCHANGED envVars
  BY DEF BootStep, boot_aps_start, boot_aps_wait, mpentry, mp_main, timer_wakes, enter_kernel
<1>2. EnvInv'
  BY <1>1, EnvInvUnchanged DEF IInv
<1>3. OneCpuPerEnv' /\ RunningIsOnCpu'
  BY <1>1 DEF IInv, CpuInv, OneCpuPerEnv, RunningIsOnCpu
<1>4. ASSUME boot_aps_start(c)
      PROVE  TypeOK' /\ LockProtectsKernel' /\ HaltedAgrees' /\ CurenvIsLive'
  <2>1. c = BSP /\ next_ap \in CPUs /\ next_ap # c /\ pc[next_ap] = "off"
    <3>1. pc[c] = "boot" /\ next_ap < NCPU /\ next_ap \in 1 .. NCPU
      BY <1>4 DEF boot_aps_start, IInv, TypeOK
    <3>2. c = BSP
      BY <3>1 DEF IInv, BootInv
    <3>3. next_ap \in CPUs /\ next_ap # BSP
      BY <3>1, NCPUAssumption DEF CPUs
    <3>4. pc[next_ap] = "off"
      BY <3>1, <3>2, <3>3 DEF IInv, BootInv
    <3> QED BY <3>2, <3>3, <3>4
  <2>0. pc[c] = "boot"
    BY <1>4 DEF boot_aps_start
  <2>2. \A d \in CPUs : pc'[d] = IF d = c THEN "boot_wait"
                                 ELSE IF d = next_ap THEN "mpentry" ELSE pc[d]
    BY <1>4, <2>1 DEF IInv, TypeOK, boot_aps_start
  <2>3. TypeOK'
    BY <1>4, <1>1, <2>1 DEF IInv, TypeOK, boot_aps_start, PCs, Holding, envVars
  <2>4. LockProtectsKernel'
    BY <2>0, <1>1, <2>1, <2>2 DEF IInv, CpuInv, LockProtectsKernel, Holding
  <2>5. CurenvIsLive'
    BY <2>0, <1>1, <2>1, <2>2 DEF IInv, CpuInv, CurenvIsLive, OnCpu
  <2>6. HaltedAgrees'
    <3>1. UNCHANGED cpu_status /\ cpu_status[c] # "HALTED" /\ cpu_status[next_ap] # "HALTED"
      BY <1>4, <2>0, <2>1 DEF IInv, CpuInv, HaltedAgrees, boot_aps_start
    <3> QED BY <3>1, <2>1, <2>2 DEF IInv, CpuInv, HaltedAgrees
  <2> QED BY <2>3, <2>4, <2>5, <2>6
<1>5. ASSUME boot_aps_wait(c)
      PROVE  TypeOK' /\ LockProtectsKernel' /\ HaltedAgrees' /\ CurenvIsLive'
  <2>1. c = BSP /\ next_ap \in CPUs
    BY <1>5 DEF IInv, BootInv, boot_aps_wait
  <2>2. \A d \in CPUs : pc'[d] = IF d = c THEN "boot" ELSE pc[d]
    BY <1>5 DEF IInv, TypeOK, boot_aps_wait
  <2>a. next_ap + 1 \in 1 .. NCPU
    BY <2>1, NCPUAssumption DEF IInv, TypeOK, CPUs
  <2>3. TypeOK'
    BY <1>5, <1>1, <2>a DEF IInv, TypeOK, boot_aps_wait, PCs, Holding, envVars
  <2>4. LockProtectsKernel'
    BY <1>5, <1>1, <2>2 DEF IInv, CpuInv, LockProtectsKernel, Holding, boot_aps_wait
  <2>5. CurenvIsLive'
    BY <1>5, <1>1, <2>2 DEF IInv, CpuInv, CurenvIsLive, OnCpu, boot_aps_wait
  <2>6. HaltedAgrees'
    BY <1>5, <2>2 DEF IInv, CpuInv, HaltedAgrees, boot_aps_wait
  <2> QED BY <2>3, <2>4, <2>5, <2>6
<1>6. ASSUME mpentry(c)
      PROVE  TypeOK' /\ LockProtectsKernel' /\ HaltedAgrees' /\ CurenvIsLive'
  <2>2. \A d \in CPUs : pc'[d] = IF d = c THEN "mp_main" ELSE pc[d]
    BY <1>6 DEF IInv, TypeOK, mpentry
  <2>3. TypeOK'
    BY <1>6, <1>1 DEF IInv, TypeOK, mpentry, PCs, envVars
  <2>4. LockProtectsKernel' /\ CurenvIsLive'
    BY <1>6, <1>1, <2>2 DEF IInv, CpuInv, LockProtectsKernel, Holding, CurenvIsLive, OnCpu, mpentry
  <2>5. HaltedAgrees'
    BY <1>6, <2>2 DEF IInv, CpuInv, HaltedAgrees, mpentry
  <2> QED BY <2>3, <2>4, <2>5
<1>7. ASSUME mp_main(c)
      PROVE  TypeOK' /\ LockProtectsKernel' /\ HaltedAgrees' /\ CurenvIsLive'
  <2>2. \A d \in CPUs : pc'[d] = IF d = c THEN "spin_mp" ELSE pc[d]
    BY <1>7 DEF IInv, TypeOK, mp_main
  <2>3. TypeOK'
    BY <1>7, <1>1 DEF IInv, TypeOK, mp_main, PCs, Spinning, envVars, bootVars
  <2>4. LockProtectsKernel' /\ CurenvIsLive'
    BY <1>7, <1>1, <2>2 DEF IInv, CpuInv, LockProtectsKernel, Holding, CurenvIsLive, OnCpu, mp_main
  <2>5. HaltedAgrees'
    BY <1>7, <2>2 DEF IInv, TypeOK, CpuInv, HaltedAgrees, mp_main
  <2> QED BY <2>3, <2>4, <2>5
<1>8. ASSUME timer_wakes(c)
      PROVE  TypeOK' /\ LockProtectsKernel' /\ HaltedAgrees' /\ CurenvIsLive'
  <2>1. pc[c] = "halted" /\ cpu_status[c] = "HALTED"
    BY <1>8, EnterFacts DEF timer_wakes
  <2>2. /\ \A d \in CPUs : pc'[d] = IF d = c THEN "spin_halt" ELSE pc[d]
        /\ pc' = [pc EXCEPT ![c] = "spin_halt"]
        /\ cpu_status' = [cpu_status EXCEPT ![c] = "STARTED"] /\ UNCHANGED bootVars
    BY <1>8, <2>1 DEF IInv, TypeOK, timer_wakes, enter_kernel
  <2>3. TypeOK'
    BY <2>2, <1>1 DEF IInv, TypeOK, PCs, Spinning, envVars, bootVars
  <2>4. LockProtectsKernel' /\ CurenvIsLive'
    BY <1>1, <2>1, <2>2 DEF IInv, CpuInv, LockProtectsKernel, Holding, CurenvIsLive, OnCpu
  <2>5. HaltedAgrees'
    BY <2>2 DEF IInv, TypeOK, CpuInv, HaltedAgrees
  <2> QED BY <2>3, <2>4, <2>5
<1> QED BY <1>2, <1>3, <1>4, <1>5, <1>6, <1>7, <1>8 DEF BootStep, CpuInv

(* The handshake of boot_aps() and mp_main() keeps the order of the start-up:
   one AP at a time, each with the stack it was given.                     *)
LEMMA BootStepOrder ==
  ASSUME IInv, NEW c \in CPUs, BootStep(c)
  PROVE  BootInv' /\ MonitorOnlyWhenIdle'
<1> USE DEF BSP
<1>0. BSP \in CPUs /\ \A d \in CPUs : d \in Int /\ d >= 0 /\ d < NCPU
  BY NCPUAssumption DEF CPUs
<1>a. next_ap \in 1 .. NCPU /\ NCPU \in Nat
  BY NCPUAssumption DEF IInv, TypeOK
<1>b. OwnKernelStack
  BY DEF IInv, BootInv
<1>1. ASSUME boot_aps_start(c)
      PROVE  BootInv' /\ \A d \in CPUs : pc'[d] # "monitor"
  <2>0. pc[BSP] = "boot" /\ c = BSP
    BY <1>1 DEF boot_aps_start, IInv, BootInv
  <2>1. next_ap \in CPUs /\ next_ap # c /\ pc[next_ap] = "off"
    BY <1>1, <1>a, <2>0 DEF boot_aps_start, CPUs, IInv, BootInv
  <2>2. \A d \in CPUs : pc'[d] = IF d = c THEN "boot_wait"
                                 ELSE IF d = next_ap THEN "mpentry" ELSE pc[d]
    BY <1>1, <2>1 DEF IInv, TypeOK, boot_aps_start
  <2>3. UNCHANGED <<cpu_status, kstack, next_ap>> /\ mpentry_kstack' = next_ap
    BY <1>1 DEF boot_aps_start
  <2>4. \A d \in CPUs : d = BSP \/ pc[d] \in {"off", "spin_mp"}
    BY <2>0 DEF IInv, BootInv, Booting
  <2>5. \A d \in CPUs : /\ pc[d] = "off" => d >= next_ap
                        /\ d > next_ap => pc[d] = "off"
    BY <2>0 DEF IInv, BootInv, Booting
  <2>6. \A d \in CPUs : pc[d] \in {"off", "mpentry", "mp_main"} <=> cpu_status[d] = "UNUSED"
    BY DEF IInv, BootInv
  <2>7. OwnKernelStack'
    BY <1>b, <2>0, <2>2, <2>3 DEF OwnKernelStack
  <2>8. \A d \in CPUs : /\ pc'[d] = "off" => d > next_ap
                        /\ d > next_ap => pc'[d] = "off"
    BY <2>0, <2>1, <2>2, <2>5, <1>0, <1>a
  <2>9. \A d \in CPUs : d = BSP \/ pc'[d] \in {"off", "mpentry", "spin_mp"}
    BY <2>0, <2>2, <2>4
  <2> HIDE DEF BSP
  <2>10. BootInv'
    <3>1. pc'[BSP] = "boot_wait" /\ next_ap' = next_ap /\ pc'[next_ap] = "mpentry"
      BY <2>0, <2>1, <2>2, <2>3, <1>0
    <3>2. \A d \in CPUs : pc'[d] \in {"off", "mpentry", "mp_main"} <=> cpu_status'[d] = "UNUSED"
      BY <2>0, <2>1, <2>2, <2>3, <2>6
    <3>3. \A d \in CPUs : pc'[d] \in {"mpentry", "mp_main"} => d = next_ap
      BY <2>0, <2>2, <2>4, <1>0
    <3>4. \A d \in CPUs : pc'[d] \in {"spin_boot", "boot", "boot_wait"} => d = BSP
      BY <2>9
    <3> QED BY <3>1, <3>2, <3>3, <3>4, <2>1, <2>3, <2>7, <2>8, <2>9, <1>0, <1>a DEF BootInv, Booting
  <2> QED BY <2>10, <2>0, <2>2, <2>9, <1>0
<1>2. ASSUME boot_aps_wait(c)
      PROVE  BootInv' /\ \A d \in CPUs : pc'[d] # "monitor"
  <2>0. pc[BSP] = "boot_wait" /\ c = BSP /\ next_ap \in CPUs /\ cpu_status[next_ap] = "STARTED"
    BY <1>2 DEF boot_aps_wait, IInv, BootInv
  <2>2. \A d \in CPUs : pc'[d] = IF d = c THEN "boot" ELSE pc[d]
    BY <1>2 DEF IInv, TypeOK, boot_aps_wait
  <2>3. UNCHANGED <<cpu_status, kstack, mpentry_kstack>> /\ next_ap' = next_ap + 1
    BY <1>2 DEF boot_aps_wait
  <2>4. \A d \in CPUs : pc[d] \notin {"mpentry", "mp_main"}
    BY <2>0 DEF IInv, BootInv
  <2>5. \A d \in CPUs : d = BSP \/ pc[d] \in {"off", "spin_mp"}
    BY <2>0, <2>4 DEF IInv, BootInv, Booting
  <2>6. \A d \in CPUs : /\ pc[d] = "off" => d > next_ap
                        /\ d > next_ap => pc[d] = "off"
    BY <2>0 DEF IInv, BootInv, Booting
  <2>7. \A d \in CPUs : pc[d] \in {"off", "mpentry", "mp_main"} <=> cpu_status[d] = "UNUSED"
    BY DEF IInv, BootInv
  <2>8. OwnKernelStack'
    BY <1>b, <2>0, <2>2, <2>3 DEF OwnKernelStack
  <2>9. \A d \in CPUs : /\ pc'[d] = "off" => d >= next_ap'
                        /\ d > next_ap' => pc'[d] = "off"
                        /\ d = next_ap' => pc'[d] = "off"
    BY <2>0, <2>2, <2>3, <2>6, <1>0, <1>a
  <2>10. \A d \in CPUs : d = BSP \/ pc'[d] \in {"off", "spin_mp"}
    BY <2>2, <2>5, <2>0
  <2> HIDE DEF BSP
  <2>11. BootInv'
    BY <2>0, <2>2, <2>3, <2>7, <2>8, <2>9, <2>10, <1>0, <1>a DEF BootInv, Booting
  <2> QED BY <2>11, <2>0, <2>2, <2>10, <1>0
<1>3. ASSUME mpentry(c)
      PROVE  BootInv' /\ \A d \in CPUs : pc'[d] # "monitor"
  <2>0. pc[BSP] = "boot_wait" /\ next_ap = c /\ mpentry_kstack = c /\ pc[c] = "mpentry" /\ c # BSP
    BY <1>3 DEF mpentry, IInv, BootInv
  <2>2. \A d \in CPUs : pc'[d] = IF d = c THEN "mp_main" ELSE pc[d]
    BY <1>3 DEF IInv, TypeOK, mpentry
  <2>3. UNCHANGED <<cpu_status, next_ap, mpentry_kstack>> /\ kstack' = [kstack EXCEPT ![c] = c]
    BY <1>3, <2>0 DEF mpentry
  <2>8. OwnKernelStack'
    BY <1>b, <2>0, <2>2, <2>3 DEF OwnKernelStack, IInv, TypeOK
  <2>9. BootInv'
    BY <2>0, <2>2, <2>3, <2>8, <1>0, <1>a DEF IInv, BootInv, Booting
  <2> QED BY <2>9, <2>0, <2>2 DEF IInv, BootInv, Booting
<1>4. ASSUME mp_main(c)
      PROVE  BootInv' /\ \A d \in CPUs : pc'[d] # "monitor"
  <2>0. pc[BSP] = "boot_wait" /\ next_ap = c /\ mpentry_kstack = c /\ pc[c] = "mp_main" /\ c # BSP
    BY <1>4 DEF mp_main, IInv, BootInv
  <2>2. \A d \in CPUs : pc'[d] = IF d = c THEN "spin_mp" ELSE pc[d]
    BY <1>4 DEF IInv, TypeOK, mp_main
  <2>3. UNCHANGED <<kstack, next_ap, mpentry_kstack>> /\ cpu_status' = [cpu_status EXCEPT ![c] = "STARTED"]
    BY <1>4, <2>0 DEF mp_main, bootVars
  <2>8. OwnKernelStack'
    BY <1>b, <2>0, <2>2, <2>3 DEF OwnKernelStack
  <2>a. cpu_status' \in [CPUs -> {"UNUSED", "STARTED", "HALTED"}] /\ cpu_status'[c] = "STARTED"
        /\ \A d \in CPUs \ {c} : cpu_status'[d] = cpu_status[d]
    BY <2>3 DEF IInv, TypeOK
  <2>9. BootInv'
    BY <2>0, <2>2, <2>3, <2>a, <2>8, <1>0, <1>a DEF IInv, BootInv, Booting
  <2> QED BY <2>9, <2>0, <2>2 DEF IInv, BootInv, Booting
<1>5. ASSUME timer_wakes(c)
      PROVE  BootInv' /\ MonitorOnlyWhenIdle'
  <2>1. pc[c] = "halted" /\ cpu_status[c] = "HALTED"
    BY <1>5, EnterFacts DEF timer_wakes
  <2>2. /\ pc[c] = "halted" /\ \A d \in CPUs : pc'[d] = IF d = c THEN "spin_halt" ELSE pc[d]
        /\ cpu_status' = [cpu_status EXCEPT ![c] = "STARTED"] /\ UNCHANGED <<bootVars, env_status>>
    BY <1>5, <2>1 DEF IInv, TypeOK, timer_wakes, enter_kernel
  <2>3. ~ Booting
    BY <2>2 DEF IInv, BootInv, Booting
  <2>4. \A d \in CPUs : pc[d] \notin {"off", "mpentry", "mp_main", "spin_boot", "boot", "boot_wait"}
    BY <1>0, <2>3 DEF IInv, BootInv, Booting
  <2>5. \A d \in CPUs : pc'[d] \notin {"off", "mpentry", "mp_main", "spin_boot", "boot", "boot_wait"}
    BY <2>2, <2>4
  <2>6. \A d \in CPUs : cpu_status'[d] # "UNUSED"
    BY <2>2, <2>4 DEF IInv, TypeOK, BootInv
  <2>7. OwnKernelStack' /\ pc'[BSP] # "spin_mp"
    BY <1>0, <2>2, <2>4 DEF IInv, BootInv, OwnKernelStack, bootVars
  <2>8. BootInv'
    BY <1>0, <2>5, <2>6, <2>7 DEF BootInv, Booting
  <2>9. MonitorOnlyWhenIdle'
    BY <2>2 DEF IInv, MonitorOnlyWhenIdle
  <2> QED BY <2>8, <2>9
<1> QED BY <1>1, <1>2, <1>3, <1>4, <1>5 DEF BootStep, MonitorOnlyWhenIdle
(* i386_init() creates the first environment when every AP has reported in. *)
LEMMA EnvCreateStep ==
  ASSUME IInv, NEW c \in CPUs, env_create(c)
  PROVE  IInv'
<1> USE DEF BSP
<1>0. BSP \in CPUs /\ \A d \in CPUs : d \in Int /\ d < NCPU
  BY NCPUAssumption DEF CPUs
<1>1. pc[BSP] = "boot" /\ c = BSP /\ next_ap = NCPU
  BY DEF env_create, IInv, BootInv
<1>2. \A d \in CPUs : d = BSP \/ pc[d] = "spin_mp"
  <2> SUFFICES ASSUME NEW d \in CPUs, d # BSP
               PROVE  pc[d] = "spin_mp"
    OBVIOUS
  <2>1. pc[d] \in {"off", "mpentry", "mp_main", "spin_mp"}
    BY <1>1 DEF IInv, BootInv, Booting
  <2>2. pc[d] \notin {"mpentry", "mp_main"}
    BY <1>1 DEF IInv, BootInv
  <2>3. pc[d] = "off" => d >= NCPU
    BY <1>1 DEF IInv, BootInv
  <2> QED BY <2>1, <2>2, <2>3, <1>0, NCPUAssumption
<1>3. \A d \in CPUs : pc'[d] = IF d = c THEN "sched" ELSE "spin_mp"
  BY <1>1, <1>2 DEF env_create, IInv, TypeOK
<1>4. UNCHANGED <<lock, cpu_status, curenv, mpentry_kstack, kstack, next_ap>>
  BY DEF env_create, bootVars
<1>5. PICK e \in Slots : /\ env_alloc(e, NoId)
                         /\ env_status' = [env_status EXCEPT ![e] = "RUNNABLE"]
  BY DEF env_create
<1>6. \A s \in Slots : env_status'[s] = IF s = e THEN "RUNNABLE" ELSE env_status[s]
  BY <1>5 DEF IInv, TypeOK
<1>7. EnvTypeOK' /\ FreeListExact' /\ env_status[e] = "FREE" /\ env_gen'[e] >= 1
  BY <1>5, <1>6, AllocPops DEF IInv, TypeOK, EnvTypeOK, EnvInv
<1>8. TypeOK'
  BY <1>4, <1>5, <1>7 DEF IInv, TypeOK, EnvTypeOK, env_create, PCs, Holding, Statuses
<1>9. CpuInv'
  <2>1. LockProtectsKernel'
    BY <1>1, <1>2, <1>3, <1>4 DEF IInv, CpuInv, LockProtectsKernel, Holding
  <2>2. \A d \in CPUs : curenv[d] \notin Slots
    BY <1>1, <1>2 DEF IInv, CpuInv, CurenvIsLive, OnCpu
  <2>3. CurenvIsLive'
    BY <2>2, <1>3, <1>4 DEF CurenvIsLive, OnCpu
  <2>4. OneCpuPerEnv' /\ RunningIsOnCpu'
    BY <1>4, <1>6 DEF IInv, CpuInv, OneCpuPerEnv, RunningIsOnCpu
  <2>5. HaltedAgrees'
    BY <1>1, <1>2, <1>3, <1>4 DEF IInv, CpuInv, HaltedAgrees
  <2> QED BY <2>1, <2>3, <2>4, <2>5 DEF CpuInv
<1>10. EnvInv'
  <2>1. /\ \A s \in Slots : s # e => env_gen'[s] = env_gen[s] /\ env_parent_id'[s] = env_parent_id[s]
                                     /\ env_ipc_recving'[s] = env_ipc_recving[s]
        /\ env_parent_id'[e] = NoId /\ ~ env_ipc_recving'[e]
        /\ \A s \in Slots : s # e => (s \in started' <=> s \in started)
    BY <1>5 DEF env_alloc, IInv, TypeOK
  <2>2. AllocatedHasId'
    BY <2>1, <1>6, <1>7 DEF IInv, EnvInv, AllocatedHasId
  <2>3. UnstartedIsBlocked'
    BY <2>1, <1>6 DEF IInv, EnvInv, UnstartedIsBlocked
  <2>4. ReceiverIsBlocked'
    BY <2>1, <1>6 DEF IInv, EnvInv, ReceiverIsBlocked
  <2> QED BY <1>7, <2>2, <2>3, <2>4 DEF EnvInv
<1>11. BootInv'
  <2>1. OwnKernelStack'
    BY <1>1, <1>2, <1>3, <1>4 DEF IInv, BootInv, OwnKernelStack
  <2>2. \A d \in CPUs : cpu_status'[d] # "UNUSED"
    BY <1>1, <1>2, <1>4 DEF IInv, BootInv
  <2> QED BY <2>1, <2>2, <1>0, <1>1, <1>3 DEF BootInv, Booting
<1>12. MonitorOnlyWhenIdle'
  BY <1>3 DEF MonitorOnlyWhenIdle
<1> QED BY <1>8, <1>9, <1>10, <1>11, <1>12 DEF IInv

----------------------------------------------------------------------------
(* Handlers *)

(* A handler that hands a fitting table to the scheduler and keeps the
   environments consistent keeps the whole invariant.                      *)
LEMMA HandlerDone ==
  ASSUME IInv, NEW c \in CPUs, pc[c] \in {"sched", "irq", "trap"},
         CpuTypeOK', CpuInv', CpuLeaves(c), UNCHANGED bootVars,
         EnvTypeOK', EnvInv'
  PROVE  IInv'
<1>1. BootInv' /\ MonitorOnlyWhenIdle'
  BY LeavingKeepsBoot
<1>2. TypeOK'
  BY DEF IInv, TypeOK, CpuTypeOK, EnvTypeOK, bootVars
<1> QED BY <1>1, <1>2 DEF IInv

(* Handing over a table in which no slot is freed, allocated or unblocked. *)
LEMMA EnvInvKept ==
  ASSUME IInv, NEW st, KeepsFreeAndBlocked(st), UNCHANGED envVars,
         \A e \in Slots : /\ st[e] = "FREE" <=> env_status[e] = "FREE"
                          /\ env_status[e] = "NOT_RUNNABLE" => st[e] = "NOT_RUNNABLE"
  PROVE  EnvTypeOK' /\ EnvInv'
<1>1. \A e \in Slots : /\ env_status'[e] = "FREE" <=> env_status[e] = "FREE"
                       /\ env_status[e] = "NOT_RUNNABLE" => env_status'[e] = "NOT_RUNNABLE"
  BY DEF KeepsFreeAndBlocked
<1>2. EnvTypeOK'
  BY DEF EnvTypeOK, IInv, TypeOK, envVars
<1>3. FreeListExact' /\ AllocatedHasId'
  BY <1>1 DEF IInv, EnvInv, FreeListExact, AllocatedHasId, envVars
<1>4. UnstartedIsBlocked' /\ ReceiverIsBlocked'
  BY <1>1 DEF IInv, EnvInv, UnstartedIsBlocked, ReceiverIsBlocked, envVars
<1> QED BY <1>2, <1>3, <1>4 DEF EnvInv

(* Handing over a table in which one slot has been freed. *)
LEMMA EnvInvFreed ==
  ASSUME IInv, NEW e \in Slots, env_free(e), KeepsFreeAndBlocked(Freed(e))
  PROVE  EnvTypeOK' /\ EnvInv'
<1>0. \A s \in Slots : Freed(e)[s] = IF s = e THEN "FREE" ELSE env_status[s]
  BY DEF Freed, IInv, TypeOK
<1>1. \A s \in Slots : /\ env_status'[s] = "FREE" <=> s = e \/ env_status[s] = "FREE"
                       /\ s # e => (env_status[s] = "NOT_RUNNABLE" <=> env_status'[s] = "NOT_RUNNABLE")
  BY <1>0 DEF KeepsFreeAndBlocked
<1>2. env_free_list' \in Seq(Slots) /\ FreeListExact'
  BY <1>1, FreePushes DEF IInv, TypeOK, EnvTypeOK, EnvInv
<1>3. UNCHANGED <<env_gen, env_parent_id, env_ipc_recving, started>>
  BY DEF env_free
<1>4. EnvTypeOK'
  BY <1>2, <1>3 DEF IInv, TypeOK, EnvTypeOK
<1>5. AllocatedHasId'
  BY <1>1, <1>3 DEF IInv, EnvInv, AllocatedHasId
<1>6. UnstartedIsBlocked' /\ ReceiverIsBlocked'
  BY <1>1, <1>3 DEF IInv, EnvInv, UnstartedIsBlocked, ReceiverIsBlocked
<1> QED BY <1>2, <1>4, <1>5, <1>6 DEF EnvInv

(* The invariant gives the facts the scheduler's lemmas start from. *)
LEMMA HandlerContext ==
  ASSUME IInv, NEW c \in CPUs
  PROVE  /\ CpuTypeOK /\ CpuInv /\ EnvInv /\ EnvTypeOK
         /\ env_status \in [Slots -> Statuses]
         /\ curenv[c] \in Slots \cup {NoEnv}
         /\ Serving(c) => /\ pc[c] \in {"irq", "trap"}
                          /\ lock = c
                          /\ curenv[c] \in Slots
                          /\ env_status[curenv[c]] = "RUNNING"
<1>1. CpuTypeOK /\ CpuInv /\ EnvInv /\ EnvTypeOK
  BY DEF IInv, TypeOK, CpuTypeOK, EnvTypeOK
<1>2. env_status \in [Slots -> Statuses] /\ curenv[c] \in Slots \cup {NoEnv}
  BY DEF IInv, TypeOK
<1>3. Serving(c) => pc[c] \in {"irq", "trap"}
  BY DEF Serving
<1>4. Serving(c) => lock = c /\ curenv[c] \in Slots /\ env_status[curenv[c]] = "RUNNING"
  BY <1>1, <1>3, TrapContext DEF Serving
<1> QED BY <1>1, <1>2, <1>3, <1>4

(* Steps that hand the table over as it is: the scheduler, the timer interrupt
   and the system calls that change no status.                             *)
LEMMA PlainHandlers ==
  ASSUME IInv, NEW c \in CPUs,
         schedule(c) \/ preempt(c) \/ sys_return(c) \/ sys_yield(c)
  PROVE  IInv'
<1>1. /\ CpuTypeOK /\ CpuInv /\ EnvInv /\ EnvTypeOK
      /\ env_status \in [Slots -> Statuses]
      /\ curenv[c] \in Slots \cup {NoEnv}
  BY HandlerContext
<1>2. UNCHANGED envVars /\ UNCHANGED bootVars
  BY DEF schedule, preempt, sys_return, sys_yield
<1>3. pc[c] \in {"sched", "irq", "trap"}
  BY DEF schedule, preempt, sys_return, sys_yield, Serving
<1>4. lock = c /\ Ready(c, env_status, curenv[c])
  <2>1. CASE pc[c] = "sched"
    BY <2>1, <1>1, ReadySched
  <2>2. CASE pc[c] # "sched"
    <3>1. pc[c] \in {"irq", "trap"} /\ env_status[curenv[c]] # "DYING"
      BY <2>2 DEF schedule, preempt, sys_return, sys_yield, Serving
    <3>2. lock = c /\ env_status[curenv[c]] = "RUNNING"
      BY <3>1, <1>1, TrapContext
    <3> QED BY <3>1, <3>2, <1>1, ReadyUnchanged
  <2> QED BY <2>1, <2>2
<1>5. CpuTypeOK' /\ CpuInv' /\ KeepsFreeAndBlocked(env_status) /\ CpuLeaves(c)
  <2>1. CASE sched_yield(c, env_status, curenv[c])
    BY <2>1, <1>1, <1>4, SchedYieldCorrect
  <2>2. CASE sys_return(c)
    <3>1. curenv[c] \in Slots /\ trap_return(c, env_status)
      BY <2>2, HandlerContext DEF sys_return
    <3> QED BY <3>1, <1>1, <1>4, TrapReturnCorrect
  <2> QED BY <2>1, <2>2 DEF schedule, preempt, sys_yield
<1>6. EnvTypeOK' /\ EnvInv'
  BY <1>2, <1>5, EnvInvKept
<1> QED BY <1>2, <1>3, <1>5, <1>6, HandlerDone
(* trap() collects a zombie: its slot is freed before the next is chosen. *)
LEMMA CollectZombieStep ==
  ASSUME IInv, NEW c \in CPUs, collect_zombie(c)
  PROVE  IInv'
<1>1. /\ CpuTypeOK /\ CpuInv /\ EnvInv /\ EnvTypeOK
      /\ env_status \in [Slots -> Statuses]
  BY HandlerContext
<1>2. /\ pc[c] \in {"irq", "trap"} /\ env_free(curenv[c])
      /\ sched_yield(c, Freed(curenv[c]), NoEnv) /\ UNCHANGED bootVars
  BY DEF collect_zombie, InTrap
<1>3. lock = c /\ curenv[c] \in Slots
  BY <1>1, <1>2, TrapContext
<1>4. Ready(c, Freed(curenv[c]), NoEnv) /\ Freed(curenv[c]) \in [Slots -> Statuses]
  BY <1>1, <1>2, <1>3, ReadyFreed DEF Freed, Statuses
<1>5. CpuTypeOK' /\ CpuInv' /\ KeepsFreeAndBlocked(Freed(curenv[c])) /\ CpuLeaves(c)
  BY <1>1, <1>2, <1>3, <1>4, SchedYieldCorrect
<1>6. EnvTypeOK' /\ EnvInv'
  BY <1>2, <1>3, <1>5, EnvInvFreed
<1> QED BY <1>2, <1>5, <1>6, HandlerDone

(* sys_exofork() leaves a child that cannot run yet. *)
LEMMA ExoforkStep ==
  ASSUME IInv, NEW c \in CPUs, sys_exofork(c)
  PROVE  IInv'
<1>1. /\ CpuTypeOK /\ CpuInv /\ EnvInv /\ EnvTypeOK
      /\ env_status \in [Slots -> Statuses]
      /\ pc[c] \in {"irq", "trap"} /\ lock = c /\ curenv[c] \in Slots
      /\ env_status[curenv[c]] = "RUNNING"
  BY HandlerContext DEF sys_exofork
<1>2. PICK e \in Slots : /\ env_alloc(e, IdOf(curenv[c]))
                         /\ trap_return(c, [env_status EXCEPT ![e] = "NOT_RUNNABLE"])
  BY DEF sys_exofork
<1> DEFINE st == [env_status EXCEPT ![e] = "NOT_RUNNABLE"]
<1>3. IdOf(curenv[c]) \in EnvIds
  <2>1. env_gen[curenv[c]] >= 1 /\ env_gen[curenv[c]] \in 0 .. MaxGen
    BY <1>1 DEF EnvInv, AllocatedHasId, EnvTypeOK
  <2> QED BY <1>1, <2>1, MaxGenAssumption DEF IdOf, EnvIds
<1>4. env_status[e] = "FREE"
  <2>1. e = env_free_list[1] /\ 1 \in DOMAIN env_free_list
    BY <1>1, <1>2 DEF env_alloc, EnvTypeOK
  <2> QED BY <2>1, <1>1 DEF EnvInv, FreeListExact
<1>5. st \in [Slots -> Statuses] /\ Ready(c, st, curenv[c])
  BY <1>1, <1>4, ReadyExcept DEF Statuses
<1>6. CpuTypeOK' /\ CpuInv' /\ KeepsFreeAndBlocked(st) /\ CpuLeaves(c)
  BY <1>1, <1>2, <1>5, TrapReturnCorrect
<1>7. \A s \in Slots : st[s] = IF s = e THEN "NOT_RUNNABLE" ELSE env_status[s]
  BY <1>1
<1> HIDE DEF st
<1>8. \A s \in Slots : /\ env_status'[s] = "FREE" <=> s # e /\ env_status[s] = "FREE"
                       /\ s # e => (env_status[s] = "NOT_RUNNABLE" <=> env_status'[s] = "NOT_RUNNABLE")
                       /\ env_status'[e] = "NOT_RUNNABLE"
  BY <1>6, <1>7 DEF KeepsFreeAndBlocked
<1>9. EnvTypeOK' /\ FreeListExact' /\ env_gen'[e] >= 1
  BY <1>1, <1>2, <1>3, <1>8, AllocPops DEF EnvInv
<1>10. EnvInv'
  <2>1. /\ \A s \in Slots : s # e => env_gen'[s] = env_gen[s] /\ env_parent_id'[s] = env_parent_id[s]
                                     /\ env_ipc_recving'[s] = env_ipc_recving[s]
        /\ ~ env_ipc_recving'[e]
        /\ \A s \in Slots : s # e => (s \in started' <=> s \in started)
    BY <1>1, <1>2 DEF env_alloc, EnvTypeOK
  <2>2. AllocatedHasId'
    BY <2>1, <1>1, <1>8, <1>9 DEF EnvInv, AllocatedHasId
  <2>3. UnstartedIsBlocked'
    BY <2>1, <1>1, <1>8 DEF EnvInv, UnstartedIsBlocked
  <2>4. ReceiverIsBlocked'
    BY <2>1, <1>1, <1>8 DEF EnvInv, ReceiverIsBlocked
  <2> QED BY <1>9, <2>2, <2>3, <2>4 DEF EnvInv
<1> QED BY <1>1, <1>6, <1>9, <1>10, HandlerDone DEF sys_exofork

(* What envid2env() with checkperm lets through: the caller, or an allocated
   environment whose parent is the caller.                                 *)
LEMMA Envid2envChecks ==
  ASSUME NEW c \in CPUs, curenv[c] \in Slots, NEW id, NEW e \in Slots,
         envid2env(c, id, TRUE, e), e # curenv[c]
  PROVE  env_status[e] # "FREE" /\ env_parent_id[e] # NoId
<1>1. env_status[e] # "FREE" /\ env_parent_id[e] = <<curenv[c], env_gen[curenv[c]]>>
  BY DEF envid2env, IdOf
<1>2. curenv[c] # -1
  BY DEF Slots
<1> QED BY <1>1, <1>2 DEF NoId

(* sys_env_set_status() by a disciplined creator. *)
LEMMA SetStatusStep ==
  ASSUME IInv, Discipline = FullDiscipline, NEW c \in CPUs, NEW id, NEW s,
         sys_env_set_status(c, id, s)
  PROVE  IInv'
<1>1. /\ CpuTypeOK /\ CpuInv /\ EnvInv /\ EnvTypeOK
      /\ env_status \in [Slots -> Statuses]
      /\ pc[c] \in {"irq", "trap"} /\ lock = c /\ curenv[c] \in Slots
      /\ env_status[curenv[c]] = "RUNNING"
  BY HandlerContext DEF sys_env_set_status
<1>2. PICK e \in Slots :
        /\ envid2env(c, id, TRUE, e)
        /\ e = curenv[c] => UNCHANGED started
        /\ e # curenv[c] => s = "RUNNABLE" /\ e \notin started /\ started' = started \cup {e}
        /\ trap_return(c, [env_status EXCEPT ![e] = s])
  BY DEF sys_env_set_status, FullDiscipline
<1>3. s \in {"RUNNABLE", "NOT_RUNNABLE"} /\ UNCHANGED bootVars
      /\ UNCHANGED <<env_gen, env_parent_id, env_ipc_recving, env_free_list>>
  BY DEF sys_env_set_status
<1>4. e # curenv[c] => env_status[e] = "NOT_RUNNABLE" /\ ~ env_ipc_recving[e]
  BY <1>1, <1>2, Envid2envChecks DEF EnvInv, UnstartedIsBlocked
<1> DEFINE st == [env_status EXCEPT ![e] = s]
<1>5. st \in [Slots -> Statuses] /\ Ready(c, st, curenv[c])
  BY <1>1, <1>2, <1>3, <1>4, ReadyExcept DEF Statuses
<1>6. CpuTypeOK' /\ CpuInv' /\ KeepsFreeAndBlocked(st) /\ CpuLeaves(c)
  BY <1>1, <1>2, <1>5, TrapReturnCorrect
<1>7. \A x \in Slots : st[x] = IF x = e THEN s ELSE env_status[x]
  BY <1>1
<1> HIDE DEF st
<1>8. \A x \in Slots : /\ env_status'[x] = "FREE" <=> env_status[x] = "FREE"
                       /\ x # e => (env_status[x] = "NOT_RUNNABLE" <=> env_status'[x] = "NOT_RUNNABLE")
  BY <1>1, <1>3, <1>4, <1>6, <1>7 DEF KeepsFreeAndBlocked
<1>9. EnvTypeOK'
  BY <1>1, <1>2, <1>3 DEF EnvTypeOK
<1>10. EnvInv'
  <2>1. FreeListExact' /\ AllocatedHasId'
    BY <1>1, <1>3, <1>8 DEF EnvInv, FreeListExact, AllocatedHasId
  <2>2. UnstartedIsBlocked'
    BY <1>1, <1>2, <1>3, <1>8 DEF EnvInv, UnstartedIsBlocked
  <2>3. ~ env_ipc_recving[e]
    BY <1>1, <1>4 DEF EnvInv, ReceiverIsBlocked
  <2>4. ReceiverIsBlocked'
    BY <2>3, <1>1, <1>3, <1>8 DEF EnvInv, ReceiverIsBlocked
  <2> QED BY <2>1, <2>2, <2>4 DEF EnvInv
<1> QED BY <1>1, <1>3, <1>6, <1>9, <1>10, HandlerDone

(* sys_env_destroy() by a disciplined creator, or by the environment itself. *)
LEMMA DestroyStep ==
  ASSUME IInv, Discipline = FullDiscipline, NEW c \in CPUs, NEW id,
         sys_env_destroy(c, id)
  PROVE  IInv'
<1>1. /\ CpuTypeOK /\ CpuInv /\ EnvInv /\ EnvTypeOK
      /\ env_status \in [Slots -> Statuses]
      /\ pc[c] \in {"irq", "trap"} /\ lock = c /\ curenv[c] \in Slots
      /\ env_status[curenv[c]] = "RUNNING"
  BY HandlerContext DEF sys_env_destroy
<1>2. PICK e \in Slots :
        /\ envid2env(c, id, TRUE, e)
        /\ e # curenv[c] => env_status[e] # "DYING"
        /\ env_destroy(c, e)
  BY DEF sys_env_destroy, FullDiscipline
<1>3. UNCHANGED bootVars
  BY DEF sys_env_destroy
<1>4. Freed(e) \in [Slots -> Statuses]
  BY <1>1 DEF Freed, Statuses
<1>5. CASE e = curenv[c]
  <2>1. env_free(e) /\ sched_yield(c, Freed(e), NoEnv)
    BY <1>2, <1>5 DEF env_destroy
  <2>2. CpuTypeOK' /\ CpuInv' /\ KeepsFreeAndBlocked(Freed(e)) /\ CpuLeaves(c)
    BY <2>1, <1>1, <1>4, <1>5, ReadyFreed, SchedYieldCorrect
  <2> QED BY <2>1, <2>2, <1>1, <1>3, EnvInvFreed, HandlerDone
<1>6. CASE e # curenv[c] /\ env_status[e] = "RUNNING"
  <2> DEFINE st == [env_status EXCEPT ![e] = "DYING"]
  <2>1. trap_return(c, st) /\ UNCHANGED envVars
    BY <1>2, <1>6 DEF env_destroy
  <2>2. st \in [Slots -> Statuses] /\ Ready(c, st, curenv[c])
    BY <1>1, <1>6, ReadyExcept DEF Statuses
  <2>3. \A s \in Slots : st[s] = IF s = e THEN "DYING" ELSE env_status[s]
    BY <1>1
  <2> HIDE DEF st
  <2>4. CpuTypeOK' /\ CpuInv' /\ KeepsFreeAndBlocked(st) /\ CpuLeaves(c)
    BY <2>1, <2>2, <1>1, TrapReturnCorrect
  <2>5. EnvTypeOK' /\ EnvInv'
    BY <2>1, <2>3, <2>4, <1>6, EnvInvKept
  <2> QED BY <2>4, <2>5, <1>1, <1>3, HandlerDone
<1>7. CASE e # curenv[c] /\ env_status[e] # "RUNNING"
  <2>1. env_free(e) /\ trap_return(c, Freed(e))
    BY <1>2, <1>7 DEF env_destroy
  <2>2. Ready(c, Freed(e), curenv[c])
    BY <1>1, <1>2, <1>7, ReadyExcept DEF Freed, Statuses
  <2>3. CpuTypeOK' /\ CpuInv' /\ KeepsFreeAndBlocked(Freed(e)) /\ CpuLeaves(c)
    BY <2>1, <2>2, <1>1, <1>4, TrapReturnCorrect
  <2> QED BY <2>1, <2>3, <1>1, <1>3, EnvInvFreed, HandlerDone
<1> QED BY <1>5, <1>6, <1>7

(* sys_ipc_try_send() wakes only an environment that waits. *)
LEMMA TrySendStep ==
  ASSUME IInv, NEW c \in CPUs, NEW id, sys_ipc_try_send(c, id)
  PROVE  IInv'
<1>1. /\ CpuTypeOK /\ CpuInv /\ EnvInv /\ EnvTypeOK
      /\ env_status \in [Slots -> Statuses]
      /\ pc[c] \in {"irq", "trap"} /\ lock = c /\ curenv[c] \in Slots
      /\ env_status[curenv[c]] = "RUNNING"
  BY HandlerContext DEF sys_ipc_try_send
<1>2. PICK e \in Slots :
        /\ envid2env(c, id, FALSE, e)
        /\ env_ipc_recving[e]
        /\ env_ipc_recving' = [env_ipc_recving EXCEPT ![e] = FALSE]
        /\ trap_return(c, [env_status EXCEPT ![e] = "RUNNABLE"])
  BY DEF sys_ipc_try_send
<1>3. UNCHANGED bootVars /\ UNCHANGED <<env_gen, env_parent_id, env_free_list, started>>
  BY DEF sys_ipc_try_send
<1>4. e # curenv[c] /\ env_status[e] = "NOT_RUNNABLE"
  <2>1. env_status[e] # "FREE"
    BY <1>1, <1>2 DEF envid2env
  <2> QED BY <2>1, <1>1, <1>2 DEF EnvInv, ReceiverIsBlocked
<1> DEFINE st == [env_status EXCEPT ![e] = "RUNNABLE"]
<1>5. st \in [Slots -> Statuses] /\ Ready(c, st, curenv[c])
  BY <1>1, <1>4, ReadyExcept DEF Statuses
<1>6. CpuTypeOK' /\ CpuInv' /\ KeepsFreeAndBlocked(st) /\ CpuLeaves(c)
  BY <1>1, <1>2, <1>5, TrapReturnCorrect
<1>7. \A x \in Slots : /\ st[x] = IF x = e THEN "RUNNABLE" ELSE env_status[x]
                       /\ env_ipc_recving'[x] = IF x = e THEN FALSE ELSE env_ipc_recving[x]
  BY <1>1, <1>2 DEF EnvTypeOK
<1> HIDE DEF st
<1>8. \A x \in Slots : /\ env_status'[x] = "FREE" <=> env_status[x] = "FREE"
                       /\ x # e => (env_status[x] = "NOT_RUNNABLE" <=> env_status'[x] = "NOT_RUNNABLE")
  BY <1>4, <1>6, <1>7 DEF KeepsFreeAndBlocked
<1>9. EnvTypeOK'
  BY <1>1, <1>2, <1>3 DEF EnvTypeOK
<1>10. EnvInv'
  <2>1. FreeListExact' /\ AllocatedHasId'
    BY <1>1, <1>3, <1>8 DEF EnvInv, FreeListExact, AllocatedHasId
  <2>2. UnstartedIsBlocked'
    BY <1>1, <1>2, <1>3, <1>7, <1>8 DEF EnvInv, UnstartedIsBlocked
  <2>3. ReceiverIsBlocked'
    BY <1>1, <1>7, <1>8 DEF EnvInv, ReceiverIsBlocked
  <2> QED BY <2>1, <2>2, <2>3 DEF EnvInv
<1> QED BY <1>1, <1>3, <1>6, <1>9, <1>10, HandlerDone

(* sys_ipc_recv() blocks the caller before it gives up the CPU. *)
LEMMA RecvStep ==
  ASSUME IInv, NEW c \in CPUs, sys_ipc_recv(c)
  PROVE  IInv'
<1>1. /\ CpuTypeOK /\ CpuInv /\ EnvInv /\ EnvTypeOK
      /\ env_status \in [Slots -> Statuses]
      /\ pc[c] \in {"irq", "trap"} /\ lock = c /\ curenv[c] \in Slots
      /\ env_status[curenv[c]] = "RUNNING"
  BY HandlerContext DEF sys_ipc_recv
<1> DEFINE e == curenv[c]
           st == [env_status EXCEPT ![e] = "NOT_RUNNABLE"]
<1>2. /\ env_ipc_recving' = [env_ipc_recving EXCEPT ![e] = TRUE]
      /\ sched_yield(c, st, e) /\ UNCHANGED bootVars
      /\ UNCHANGED <<env_gen, env_parent_id, env_free_list, started>>
  BY DEF sys_ipc_recv
<1>3. st \in [Slots -> Statuses] /\ Ready(c, st, e)
  BY <1>1, ReadyExcept DEF Statuses
<1>4. CpuTypeOK' /\ CpuInv' /\ KeepsFreeAndBlocked(st) /\ CpuLeaves(c)
  BY <1>1, <1>2, <1>3, SchedYieldCorrect
<1>5. \A x \in Slots : /\ st[x] = IF x = e THEN "NOT_RUNNABLE" ELSE env_status[x]
                       /\ env_ipc_recving'[x] = IF x = e THEN TRUE ELSE env_ipc_recving[x]
  BY <1>1, <1>2 DEF EnvTypeOK
<1>6. e \in Slots /\ env_status[e] = "RUNNING"
  BY <1>1
<1> HIDE DEF st, e
<1>7. \A x \in Slots : /\ env_status'[x] = "FREE" <=> env_status[x] = "FREE"
                       /\ env_status'[x] = "NOT_RUNNABLE" <=> x = e \/ env_status[x] = "NOT_RUNNABLE"
  BY <1>4, <1>5, <1>6 DEF KeepsFreeAndBlocked
<1>8. EnvTypeOK'
  BY <1>1, <1>2, <1>6 DEF EnvTypeOK
<1>9. EnvInv'
  <2>1. FreeListExact' /\ AllocatedHasId'
    BY <1>1, <1>2, <1>7 DEF EnvInv, FreeListExact, AllocatedHasId
  <2>2. env_parent_id[e] # NoId => e \in started
    BY <1>1, <1>6 DEF EnvInv, UnstartedIsBlocked
  <2>3. UnstartedIsBlocked'
    BY <2>2, <1>1, <1>2, <1>5, <1>7 DEF EnvInv, UnstartedIsBlocked
  <2>4. ReceiverIsBlocked'
    BY <1>1, <1>5, <1>7 DEF EnvInv, ReceiverIsBlocked
  <2> QED BY <2>1, <2>3, <2>4 DEF EnvInv
<1> QED BY <1>1, <1>2, <1>4, <1>8, <1>9, HandlerDone

(* A breakpoint keeps the lock and the environment for ever. *)
LEMMA BreakpointStep ==
  ASSUME IInv, NEW c \in CPUs, breakpoint(c)
  PROVE  IInv'
<1> USE DEF BSP
<1>0. BSP \in CPUs
  BY NCPUAssumption DEF CPUs
<1>1. /\ pc[c] \in {"irq", "trap"} /\ lock = c /\ curenv[c] \in Slots
      /\ env_status[curenv[c]] = "RUNNING"
  BY HandlerContext DEF breakpoint
<1>2. /\ UNCHANGED <<lock, cpu_status, curenv, env_status>>
      /\ UNCHANGED envVars /\ UNCHANGED <<mpentry_kstack, kstack, next_ap>>
      /\ pc' = [pc EXCEPT ![c] = "monitor"] /\ "brkpt" \in Calls
  BY DEF breakpoint, bootVars
<1>3. \A d \in CPUs : pc'[d] = IF d = c THEN "monitor" ELSE pc[d]
  BY <1>2 DEF IInv, TypeOK
<1>4. TypeOK'
  BY <1>2 DEF IInv, TypeOK, envVars, PCs, Holding
<1>5. LockProtectsKernel' /\ CurenvIsLive'
  BY <1>1, <1>2, <1>3 DEF IInv, CpuInv, LockProtectsKernel, Holding, CurenvIsLive, OnCpu
<1>6. OneCpuPerEnv' /\ RunningIsOnCpu'
  BY <1>2 DEF IInv, CpuInv, OneCpuPerEnv, RunningIsOnCpu
<1>7. EnvInv'
  BY <1>2, EnvInvUnchanged DEF IInv
<1>8. BootInv'
  <2>1. ~ Booting
    BY <1>1 DEF IInv, BootInv, Booting
  <2>2. \A d \in CPUs : pc[d] \notin {"off", "mpentry", "mp_main", "spin_boot", "boot", "boot_wait"}
    BY <1>0, <2>1 DEF IInv, BootInv, Booting
  <2>3. \A d \in CPUs : pc'[d] \notin {"off", "mpentry", "mp_main", "spin_boot", "boot", "boot_wait"}
    BY <2>2, <1>3
  <2>4. OwnKernelStack' /\ pc'[BSP] # "spin_mp" /\ \A d \in CPUs : cpu_status'[d] # "UNUSED"
    BY <2>2, <1>0, <1>2, <1>3 DEF IInv, BootInv, OwnKernelStack
  <2> QED BY <2>3, <2>4, <1>0 DEF BootInv, Booting
<1>9. MonitorOnlyWhenIdle'
  BY <1>2 DEF MonitorOnlyWhenIdle
<1>10. HaltedAgrees'
  BY <1>1, <1>2, <1>3 DEF IInv, CpuInv, HaltedAgrees
<1> QED BY <1>4, <1>5, <1>6, <1>7, <1>8, <1>9, <1>10 DEF IInv, CpuInv

----------------------------------------------------------------------------
(* The invariant *)

(* The state i386_init() finds satisfies the invariant. *)
LEMMA InitIInv == Init => IInv
<1> SUFFICES ASSUME Init PROVE IInv
  OBVIOUS
<1> USE DEF BSP
<1>0. BSP \in CPUs /\ NCPU \in Nat /\ NCPU >= 1 /\ \A d \in CPUs : d \in Int /\ d >= 0 /\ d < NCPU
  BY NCPUAssumption DEF CPUs
<1>1. \A d \in CPUs : pc[d] = IF d = BSP THEN "spin_boot" ELSE "off"
  BY DEF Init, BootPC
<1>2. env_free_list \in Seq(Slots) /\ DOMAIN env_free_list = 1 .. NENV
      /\ \A i \in 1 .. NENV : env_free_list[i] = i - 1
  BY NENVAssumption DEF Init, Slots
<1>3. TypeOK
  <2>1. pc \in [CPUs -> PCs] /\ cpu_status \in [CPUs -> {"UNUSED", "STARTED", "HALTED"}]
    BY DEF Init, BootPC, PCs, Spinning
  <2>2. env_gen \in [Slots -> 0 .. MaxGen]
    BY MaxGenAssumption DEF Init
  <2>3. lock \in CPUs \cup {NoCpu} /\ curenv \in [CPUs -> Slots \cup {NoEnv}]
        /\ mpentry_kstack \in CPUs /\ kstack \in [CPUs -> CPUs] /\ next_ap \in 1 .. NCPU
    BY <1>0 DEF Init
  <2>4. env_status \in [Slots -> Statuses] /\ env_parent_id \in [Slots -> EnvIds \cup {NoId}]
        /\ env_ipc_recving \in [Slots -> BOOLEAN] /\ started \in SUBSET Slots
    BY DEF Init, Statuses
  <2> QED BY <1>2, <2>1, <2>2, <2>3, <2>4 DEF TypeOK
<1>4. CpuInv
  <2>1. LockProtectsKernel
    BY <1>0, <1>1 DEF Init, LockProtectsKernel, Holding, NoCpu
  <2>2. CurenvIsLive /\ OneCpuPerEnv
    BY <1>1 DEF Init, CurenvIsLive, OneCpuPerEnv, OnCpu, NoEnv, Slots
  <2>3. RunningIsOnCpu
    BY DEF Init, RunningIsOnCpu
  <2>4. HaltedAgrees
    BY <1>1 DEF Init, HaltedAgrees
  <2> QED BY <2>1, <2>2, <2>3, <2>4 DEF CpuInv
<1>5. EnvInv
  <2>1. FreeListExact
    <3>1. \A i, j \in DOMAIN env_free_list : i # j => env_free_list[i] # env_free_list[j]
      BY <1>2, NENVAssumption
    <3>2. ASSUME NEW e \in Slots
          PROVE  \E i \in DOMAIN env_free_list : env_free_list[i] = e
      <4>1. e + 1 \in 1 .. NENV /\ env_free_list[e + 1] = e
        BY <1>2, NENVAssumption DEF Slots
      <4> QED BY <4>1, <1>2
    <3> QED BY <3>1, <3>2 DEF FreeListExact, Init
  <2> QED BY <2>1 DEF Init, EnvInv, AllocatedHasId, UnstartedIsBlocked, ReceiverIsBlocked
<1>6. BootInv
  BY <1>0, <1>1 DEF Init, BootInv, Booting, OwnKernelStack, CPUs
<1>7. MonitorOnlyWhenIdle
  BY <1>1 DEF MonitorOnlyWhenIdle
<1> QED BY <1>3, <1>4, <1>5, <1>6, <1>7 DEF IInv

(* Every step of every CPU keeps it. *)
LEMMA NextIInv ==
  ASSUME IInv, Discipline = FullDiscipline, [Next]_vars
  PROVE  IInv'
<1>1. CASE UNCHANGED vars
  BY <1>1 DEF vars, IInv, TypeOK, CpuInv, LockProtectsKernel, HaltedAgrees, CurenvIsLive, OneCpuPerEnv,
       RunningIsOnCpu, EnvInv, FreeListExact, AllocatedHasId, UnstartedIsBlocked,
       ReceiverIsBlocked, BootInv, Booting, OwnKernelStack, MonitorOnlyWhenIdle
<1>2. ASSUME NEW c \in CPUs, KernelStep(c) \/ timer_irq(c) \/ user_trap(c) \/ monitor(c)
      PROVE  IInv'
  <2>1. CASE lock_kernel(c)
    BY <2>1, LockKernelStep
  <2>2. CASE boot_aps_start(c) \/ boot_aps_wait(c) \/ mpentry(c) \/ mp_main(c) \/ timer_wakes(c)
    BY <2>2, BootStepCpus, BootStepOrder DEF BootStep, IInv
  <2>3. CASE env_create(c)
    BY <2>3, EnvCreateStep
  <2>4. CASE schedule(c) \/ preempt(c) \/ sys_return(c) \/ sys_yield(c)
    BY <2>4, PlainHandlers
  <2>5. CASE collect_zombie(c)
    BY <2>5, CollectZombieStep
  <2>6. CASE sys_exofork(c)
    BY <2>6, ExoforkStep
  <2>7. CASE \E id \in EnvIds \cup {NoId}, s \in Statuses : sys_env_set_status(c, id, s)
    BY <2>7, SetStatusStep
  <2>8. CASE \E id \in EnvIds \cup {NoId} : sys_env_destroy(c, id)
    BY <2>8, DestroyStep
  <2>9. CASE \E id \in EnvIds \cup {NoId} : sys_ipc_try_send(c, id)
    BY <2>9, TrySendStep
  <2>10. CASE sys_ipc_recv(c)
    BY <2>10, RecvStep
  <2>11. CASE breakpoint(c)
    BY <2>11, BreakpointStep
  <2>12. CASE env_pop_tf(c)
    BY <2>12, QuietStep DEF env_pop_tf
  <2>13. CASE timer_irq(c)
    BY <2>13, UserTrapStep
  <2>14. CASE user_trap(c)
    BY <2>14, UserTrapStep
  <2>15. CASE monitor(c)
    BY <2>15, <1>1 DEF monitor
  <2> QED BY <1>2, <2>1, <2>2, <2>3, <2>4, <2>5, <2>6, <2>7, <2>8, <2>9, <2>10,
             <2>11, <2>12, <2>13, <2>14, <2>15 DEF KernelStep, syscall
<1> QED BY <1>1, <1>2 DEF Next

(* The invariant holds in every reachable state, whatever the number of CPUs,
   of slots and of generations, when creators keep to the discipline.      *)
THEOREM Invariance ==
  ASSUME Discipline = FullDiscipline
  PROVE  Spec => []IInv
<1>1. IInv /\ [Next]_vars => IInv'
  BY NextIInv
<1> QED BY <1>1, InitIInv, PTL DEF Spec

(* The kernel's state is always well typed. *)
THEOREM TypeCorrect ==
  ASSUME Discipline = FullDiscipline
  PROVE  Spec => []TypeOK
<1>1. IInv => TypeOK
  BY DEF IInv
<1> QED BY <1>1, Invariance, PTL

(* The big kernel lock does its work: only its owner runs kernel code. *)
THEOREM LockCorrect ==
  ASSUME Discipline = FullDiscipline
  PROVE  Spec => []LockProtectsKernel
<1>1. IInv => LockProtectsKernel
  BY DEF IInv, CpuInv
<1> QED BY <1>1, Invariance, PTL

(* The scheduler never runs an environment on two CPUs at once. *)
THEOREM SchedulerCorrect ==
  ASSUME Discipline = FullDiscipline
  PROVE  Spec => []OneCpuPerEnv
<1>1. IInv => OneCpuPerEnv
  BY DEF IInv, CpuInv
<1> QED BY <1>1, Invariance, PTL

(* curenv of a CPU that runs user code is never freed or rescheduled. *)
THEOREM CurenvCorrect ==
  ASSUME Discipline = FullDiscipline
  PROVE  Spec => []CurenvIsLive
<1>1. IInv => CurenvIsLive
  BY DEF IInv, CpuInv
<1> QED BY <1>1, Invariance, PTL

(* A RUNNING or DYING mark is never left behind by a CPU that goes on. *)
THEOREM RunningCorrect ==
  ASSUME Discipline = FullDiscipline
  PROVE  Spec => []RunningIsOnCpu
<1>1. IInv => RunningIsOnCpu
  BY DEF IInv, CpuInv
<1> QED BY <1>1, Invariance, PTL

(* env_free_list holds the free slots, each of them once. *)
THEOREM FreeListCorrect ==
  ASSUME Discipline = FullDiscipline
  PROVE  Spec => []FreeListExact
<1>1. IInv => FreeListExact
  BY DEF IInv, EnvInv
<1> QED BY <1>1, Invariance, PTL

(* A receiver stays blocked until it is sent to. *)
THEOREM ReceiverCorrect ==
  ASSUME Discipline = FullDiscipline
  PROVE  Spec => []ReceiverIsBlocked
<1>1. IInv => ReceiverIsBlocked
  BY DEF IInv, EnvInv
<1> QED BY <1>1, Invariance, PTL

(* However many APs there are, no two CPUs share a kernel stack. *)
THEOREM StackCorrect ==
  ASSUME Discipline = FullDiscipline
  PROVE  Spec => []OwnKernelStack
<1>1. IInv => OwnKernelStack
  BY DEF IInv, BootInv
<1> QED BY <1>1, Invariance, PTL

(* sched_halt() gives the machine to the monitor only when it is idle. *)
THEOREM MonitorCorrect ==
  ASSUME Discipline = FullDiscipline
  PROVE  Spec => []MonitorOnlyWhenIdle
<1>1. IInv => MonitorOnlyWhenIdle
  BY DEF IInv
<1> QED BY <1>1, Invariance, PTL
----------------------------------------------------------------------------
(* What a step may do to a status *)

(* The scheduler neither ends an environment nor revives a zombie. *)
KeepsEnded(st) ==
  \A e \in Slots : /\ env_status'[e] = "FREE" <=> st[e] = "FREE"
                   /\ env_status'[e] = "DYING" <=> st[e] = "DYING"

(* sched_yield() ends no environment. *)
LEMMA SchedYieldKeepsEnded ==
  ASSUME NEW c, NEW st \in [Slots -> Statuses], NEW cur, sched_yield(c, st, cur)
  PROVE  KeepsEnded(st)
BY DEF sched_yield, env_run, sched_halt, KeepsEnded

(* The same for the end of trap(). *)
LEMMA TrapReturnKeepsEnded ==
  ASSUME NEW c, NEW st \in [Slots -> Statuses], trap_return(c, st)
  PROVE  KeepsEnded(st)
<1>1. CASE st[curenv[c]] = "RUNNING" /\ env_run(c, curenv[c], st, curenv[c])
  BY <1>1 DEF env_run, KeepsEnded
<1>2. CASE sched_yield(c, st, curenv[c])
  BY <1>2, SchedYieldKeepsEnded
<1> QED BY <1>1, <1>2 DEF trap_return

(* The bodies of the two action properties. *)
ZombieStep ==
  \A e \in Slots :
       env_status[e] = "DYING" /\ env_status'[e] # "DYING" =>
         /\ env_status'[e] = "FREE"
         /\ lock \in CPUs
         /\ curenv[lock] = e

EndStep ==
  \A e \in Slots :
       env_status'[e] # env_status[e] /\ env_status'[e] \in {"FREE", "DYING"} =>
         /\ lock \in CPUs
         /\ \/ curenv[lock] = e
            \/ env_parent_id[e] = IdOf(curenv[lock])

(* A step that ends no environment satisfies both. *)
LEMMA NothingEnds ==
  ASSUME \A e \in Slots :
           /\ env_status[e] = "DYING" => env_status'[e] = "DYING"
           /\ env_status'[e] = "FREE" => env_status[e] = "FREE"
           /\ env_status'[e] = "DYING" => env_status[e] = "DYING"
  PROVE  ZombieStep /\ EndStep
BY DEF ZombieStep, EndStep

(* A handler that ends one environment, its own or a child, and no zombie but
   its own, satisfies both.                                                *)
LEMMA OneEnds ==
  ASSUME NEW c \in CPUs, lock = c, NEW x \in Slots,
         env_status \in [Slots -> Statuses],
         x = curenv[c] \/ (env_parent_id[x] = IdOf(curenv[c]) /\ env_status[x] # "DYING"),
         \/ KeepsEnded(Freed(x))
         \/ KeepsEnded([env_status EXCEPT ![x] = "DYING"])
  PROVE  ZombieStep /\ EndStep
<1>1. /\ \A s \in Slots : Freed(x)[s] = IF s = x THEN "FREE" ELSE env_status[s]
      /\ \A s \in Slots : [env_status EXCEPT ![x] = "DYING"][s] = IF s = x THEN "DYING" ELSE env_status[s]
  BY DEF Freed
<1>2. \A s \in Slots : s # x =>
        /\ env_status'[s] = "FREE" <=> env_status[s] = "FREE"
        /\ env_status'[s] = "DYING" <=> env_status[s] = "DYING"
  BY <1>1 DEF KeepsEnded
<1>3. env_status'[x] \in {"FREE", "DYING"}
  BY <1>1 DEF KeepsEnded
<1>4. ZombieStep
  BY <1>2, <1>3 DEF ZombieStep
<1>5. EndStep
  BY <1>2 DEF EndStep
<1> QED BY <1>4, <1>5

(* Every step satisfies both. *)
LEMMA NextEnds ==
  ASSUME IInv, Discipline = FullDiscipline, Next
  PROVE  ZombieStep /\ EndStep
<1> SUFFICES ASSUME NEW c \in CPUs, KernelStep(c) \/ timer_irq(c) \/ user_trap(c) \/ monitor(c)
             PROVE  ZombieStep /\ EndStep
  BY DEF Next
<1>0. /\ env_status \in [Slots -> Statuses] /\ CpuTypeOK /\ CpuInv /\ EnvInv /\ EnvTypeOK
      /\ Serving(c) => lock = c /\ curenv[c] \in Slots /\ env_status[curenv[c]] = "RUNNING"
  BY HandlerContext
<1>1. CASE UNCHANGED env_status
  BY <1>1, NothingEnds
<1>2. CASE KeepsEnded(env_status)
  BY <1>2, NothingEnds DEF KeepsEnded
<1>3. ASSUME NEW e \in Slots, NEW x \in Statuses \ {"FREE", "DYING"},
             env_status[e] # "DYING", KeepsEnded([env_status EXCEPT ![e] = x])
      PROVE  ZombieStep /\ EndStep
  <2>1. \A s \in Slots : [env_status EXCEPT ![e] = x][s] = IF s = e THEN x ELSE env_status[s]
    BY <1>0
  <2> QED BY <2>1, <1>3, NothingEnds DEF KeepsEnded
<1>4. CASE env_create(c)
  <2>1. PICK e \in Slots : /\ env_alloc(e, NoId)
                           /\ env_status' = [env_status EXCEPT ![e] = "RUNNABLE"]
    BY <1>4 DEF env_create
  <2>2. e = env_free_list[1] /\ 1 \in DOMAIN env_free_list
    BY <1>0, <2>1 DEF env_alloc, EnvTypeOK
  <2>3. env_status[e] = "FREE"
    BY <2>2, <1>0 DEF EnvInv, FreeListExact
  <2> QED BY <2>1, <2>3, <1>0, NothingEnds
<1>5. CASE schedule(c) \/ preempt(c) \/ sys_yield(c) \/ sys_return(c)
  BY <1>5, <1>0, <1>2, SchedYieldKeepsEnded, TrapReturnKeepsEnded
     DEF schedule, preempt, sys_yield, sys_return
<1>6. CASE collect_zombie(c)
  <2>1. lock = c /\ curenv[c] \in Slots
    BY <1>6, <1>0, TrapContext DEF collect_zombie, InTrap
  <2>2. Freed(curenv[c]) \in [Slots -> Statuses]
    BY <1>0 DEF Freed, Statuses
  <2>3. KeepsEnded(Freed(curenv[c]))
    BY <1>6, <2>2, SchedYieldKeepsEnded DEF collect_zombie
  <2> QED BY <2>1, <2>3, <1>0, OneEnds
<1>7. CASE sys_exofork(c)
  <2>1. PICK e \in Slots : /\ env_alloc(e, IdOf(curenv[c]))
                           /\ trap_return(c, [env_status EXCEPT ![e] = "NOT_RUNNABLE"])
    BY <1>7 DEF sys_exofork
  <2>2. e = env_free_list[1] /\ 1 \in DOMAIN env_free_list
    BY <1>0, <2>1 DEF env_alloc, EnvTypeOK
  <2>3. env_status[e] = "FREE"
    BY <2>2, <1>0 DEF EnvInv, FreeListExact
  <2>4. KeepsEnded([env_status EXCEPT ![e] = "NOT_RUNNABLE"])
    BY <1>0, <2>1, TrapReturnKeepsEnded DEF Statuses
  <2> QED BY <2>3, <2>4, <1>3 DEF Statuses
<1>8. CASE \E id \in EnvIds \cup {NoId}, s \in Statuses : sys_env_set_status(c, id, s)
  <2>1. PICK id \in EnvIds \cup {NoId}, s \in Statuses : sys_env_set_status(c, id, s)
    BY <1>8
  <2>2. Serving(c) /\ s \in {"RUNNABLE", "NOT_RUNNABLE"}
    BY <2>1 DEF sys_env_set_status
  <2>3. PICK e \in Slots : /\ envid2env(c, id, TRUE, e)
                           /\ e # curenv[c] => e \notin started
                           /\ trap_return(c, [env_status EXCEPT ![e] = s])
    BY <2>1 DEF sys_env_set_status, FullDiscipline
  <2>4. env_status[e] # "DYING"
    BY <2>2, <2>3, <1>0, Envid2envChecks DEF EnvInv, UnstartedIsBlocked
  <2>5. KeepsEnded([env_status EXCEPT ![e] = s])
    BY <1>0, <2>3, TrapReturnKeepsEnded
  <2> QED BY <2>2, <2>4, <2>5, <1>3
<1>9. CASE \E id \in EnvIds \cup {NoId} : sys_env_destroy(c, id)
  <2>1. PICK id \in EnvIds \cup {NoId} : sys_env_destroy(c, id)
    BY <1>9
  <2>2. Serving(c)
    BY <2>1 DEF sys_env_destroy
  <2>3. PICK e \in Slots : /\ envid2env(c, id, TRUE, e)
                           /\ e # curenv[c] => env_status[e] # "DYING"
                           /\ env_destroy(c, e)
    BY <2>1 DEF sys_env_destroy, FullDiscipline
  <2>4. e = curenv[c] \/ (env_parent_id[e] = IdOf(curenv[c]) /\ env_status[e] # "DYING")
    BY <2>3 DEF envid2env
  <2>5. Freed(e) \in [Slots -> Statuses] /\ [env_status EXCEPT ![e] = "DYING"] \in [Slots -> Statuses]
    BY <1>0 DEF Freed, Statuses
  <2>6. \/ sched_yield(c, Freed(e), NoEnv)
        \/ trap_return(c, Freed(e))
        \/ trap_return(c, [env_status EXCEPT ![e] = "DYING"])
    BY <2>3 DEF env_destroy
  <2>7. KeepsEnded(Freed(e)) \/ KeepsEnded([env_status EXCEPT ![e] = "DYING"])
    BY <2>5, <2>6, SchedYieldKeepsEnded, TrapReturnKeepsEnded
  <2> QED BY <2>2, <2>4, <2>7, <1>0, OneEnds
<1>10. CASE \E id \in EnvIds \cup {NoId} : sys_ipc_try_send(c, id)
  <2>1. PICK id \in EnvIds \cup {NoId} : sys_ipc_try_send(c, id)
    BY <1>10
  <2>2. PICK e \in Slots : /\ envid2env(c, id, FALSE, e)
                           /\ env_ipc_recving[e]
                           /\ trap_return(c, [env_status EXCEPT ![e] = "RUNNABLE"])
    BY <2>1 DEF sys_ipc_try_send
  <2>3. env_status[e] # "DYING"
    BY <2>2, <1>0 DEF EnvInv, ReceiverIsBlocked
  <2>4. KeepsEnded([env_status EXCEPT ![e] = "RUNNABLE"])
    BY <1>0, <2>2, TrapReturnKeepsEnded DEF Statuses
  <2> QED BY <2>3, <2>4, <1>3 DEF Statuses
<1>11. CASE sys_ipc_recv(c)
  <2>1. curenv[c] \in Slots /\ env_status[curenv[c]] = "RUNNING"
    BY <1>0, <1>11 DEF sys_ipc_recv
  <2>2. KeepsEnded([env_status EXCEPT ![curenv[c]] = "NOT_RUNNABLE"])
    BY <1>0, <1>11, SchedYieldKeepsEnded DEF sys_ipc_recv, Statuses
  <2> QED BY <2>1, <2>2, <1>3 DEF Statuses
<1> QED BY <1>1, <1>4, <1>5, <1>6, <1>7, <1>8, <1>9, <1>10, <1>11
        DEF KernelStep, syscall, lock_kernel, boot_aps_start, boot_aps_wait, mpentry, mp_main,
            timer_wakes, enter_kernel, breakpoint, env_pop_tf, timer_irq, user_trap, monitor,
            vars

(* A zombie is collected by the CPU it runs on, and in no other way. *)
THEOREM ZombieCorrect ==
  ASSUME Discipline = FullDiscipline
  PROVE  Spec => ZombieFreedByItsCpu
<1>1. IInv /\ [Next]_vars => [ZombieStep]_vars
  BY NextEnds
<1> QED BY <1>1, Invariance, PTL DEF Spec, ZombieFreedByItsCpu, ZombieStep

(* Permission: nobody but itself or its creator ends an environment, however
   often slots and generations are reused.                                 *)
THEOREM PermissionCorrect ==
  ASSUME Discipline = FullDiscipline
  PROVE  Spec => EndedBySelfOrCreator
<1>1. IInv /\ [Next]_vars => [EndStep]_vars
  BY NextEnds
<1> QED BY <1>1, Invariance, PTL DEF Spec, EndedBySelfOrCreator, EndStep
=============================================================================
