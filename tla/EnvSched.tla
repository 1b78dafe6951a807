------------------------------ MODULE EnvSched ------------------------------
(***************************************************************************)
(* The multiprocessor core of the kernel: the big kernel lock              *)
(* (kern/spinlock.c), the start-up of the application processors           *)
(* (kern/init.c), the trap path (kern/trap.c), the round-robin scheduler   *)
(* (kern/sched.c), the life cycle of environments (kern/env.c) and the     *)
(* system calls that change an environment's status (kern/syscall.c).      *)
(*                                                                         *)
(* A CPU takes the big lock in one step and runs the whole handler, up to  *)
(* the unlock_kernel() in env_run() or sched_halt(), in a second one: every*)
(* variable a handler touches is protected by the lock.  What a CPU does   *)
(* without the lock (user mode, spinning, restoring a trap frame, halting, *)
(* starting up) is a step of its own and interleaves freely.               *)
(***************************************************************************)
EXTENDS Integers, Sequences

CONSTANTS
  NCPU,          \* number of processors; CPU 0 is the boot CPU
  NENV,          \* size of the envs[] table
  MaxGen,        \* number of generations of an env_id before it wraps round
  Calls,         \* what user code may do: a subset of AllCalls
  Discipline     \* what user code restrains itself to: see FullDiscipline

AllCalls == {"yield", "exofork", "set_status", "set_status_self", "destroy",
             "exit", "try_send", "recv", "brkpt"}

(* How lib/fork.c, user/dumbfork.c and user/spin.c use the system calls on a
   child: it is made runnable once, after sys_exofork() and before it has ever
   run, and destroyed at most once.  The kernel does not enforce it.       *)
FullDiscipline == {"start_once", "destroy_once"}

ASSUME NCPUAssumption == NCPU \in Nat \ {0}
ASSUME NENVAssumption == NENV \in Nat \ {0}
ASSUME MaxGenAssumption == MaxGen \in Nat \ {0}
ASSUME CallsAssumption == Calls \subseteq AllCalls
ASSUME DisciplineAssumption == Discipline \subseteq FullDiscipline

CPUs == 0 .. NCPU - 1
BSP == 0
Slots == 0 .. NENV - 1          \* indices into envs[]
NoEnv == -1                     \* curenv == NULL
NoCpu == -1                     \* kernel_lock.cpu == 0
NoId == <<-1, 0>>               \* envid 0

EnvIds == Slots \X (1 .. MaxGen)

Statuses == {"FREE", "DYING", "RUNNABLE", "RUNNING", "NOT_RUNNABLE"}

(***************************************************************************)
(* Where a CPU is.  The spin_* states wait in spin_lock() for kernel_lock,  *)
(* in spin_twice to take it a second time afterwards; the states in Holding *)
(* own it.  A CPU that takes a lock it owns panics and keeps it.            *)
(***************************************************************************)
Spinning == {"spin_boot", "spin_mp", "spin_irq", "spin_trap", "spin_halt", "spin_twice"}
Holding == {"boot", "boot_wait", "sched", "irq", "trap", "monitor"}
PCs == Spinning \cup Holding \cup
       {"off", "mpentry", "mp_main", "popping", "user", "halted", "panic"}

VARIABLES
  lock,             \* kernel_lock: the CPU holding it, or NoCpu
  pc,               \* what each CPU executes
  cpu_status,       \* cpus[c].cpu_status
  curenv,           \* cpus[c].cpu_env
  mpentry_kstack,   \* the stack boot_aps() hands to the next AP
  kstack,           \* the per-CPU kernel stack each CPU runs on
  next_ap,          \* the loop variable of boot_aps()
  env_status,       \* envs[e].env_status
  env_gen,          \* the uniqueifier in envs[e].env_id; 0: never allocated
  env_parent_id,    \* envs[e].env_parent_id
  env_ipc_recving,  \* envs[e].env_ipc_recving
  env_free_list,    \* the list linked through env_link
  started           \* children whose creator has made them runnable

cpuVars == <<lock, pc, cpu_status, curenv>>
bootVars == <<mpentry_kstack, kstack, next_ap>>
envVars == <<env_gen, env_parent_id, env_ipc_recving, env_free_list, started>>
vars == <<lock, pc, cpu_status, curenv, mpentry_kstack, kstack, next_ap,
          env_status, env_gen, env_parent_id, env_ipc_recving, env_free_list,
          started>>

(* i386_init() calls lock_kernel() before boot_aps(). *)
BootPC(c) == IF c = BSP THEN "spin_boot" ELSE "off"

(* env_init(): every slot free, the free list in the order of the table.
   mp_init() has marked the boot CPU as started; it runs i386_init().      *)
Init ==
  /\ lock = NoCpu
  /\ pc = [c \in CPUs |-> BootPC(c)]
  /\ cpu_status = [c \in CPUs |-> IF c = BSP THEN "STARTED" ELSE "UNUSED"]
  /\ curenv = [c \in CPUs |-> NoEnv]
  /\ mpentry_kstack = BSP
  /\ kstack = [c \in CPUs |-> BSP]
  /\ next_ap = BSP + 1
  /\ env_status = [e \in Slots |-> "FREE"]
  /\ env_gen = [e \in Slots |-> 0]
  /\ env_parent_id = [e \in Slots |-> NoId]
  /\ env_ipc_recving = [e \in Slots |-> FALSE]
  /\ env_free_list = [i \in 1 .. NENV |-> i - 1]
  /\ started = {}

----------------------------------------------------------------------------
(* Environment identifiers *)

IdOf(e) == <<e, env_gen[e]>>

(* Faulty variant: the uniqueifier is not kept in range. *)
NextGen_NoWrap(g) == g + 1

(* The next uniqueifier of a slot: it wraps to 1, never to 0 or below. *)
NextGen(g) == IF g + 1 > MaxGen THEN 1 ELSE g + 1

(* Faulty variant: the creator is recognised by its slot alone. *)
envid2env_SlotOnly(c, id, checkperm, e) ==
  IF id = NoId
  THEN e = curenv[c]
  ELSE /\ e = id[1]
       /\ env_status[e] # "FREE"
       /\ IdOf(e) = id
       /\ checkperm => e = curenv[c] \/ env_parent_id[e][1] = curenv[c]

(* envid2env(id, &e, checkperm) called on CPU c succeeds and yields e. *)
envid2env(c, id, checkperm, e) ==
  IF id = NoId
  THEN e = curenv[c]
  ELSE /\ e = id[1]
       /\ env_status[e] # "FREE"
       /\ IdOf(e) = id
       /\ checkperm => \/ e = curenv[c]
                       \/ env_parent_id[e] = IdOf(curenv[c])

----------------------------------------------------------------------------
(* Leaving the kernel.  Handlers compute the table of statuses st and the
   value cur of this CPU's curenv, and end in one of these.                *)

(* Faulty variant: the environment that is switched away from stays RUNNING. *)
env_run_LeavesRunning(c, e, st, cur) ==
  /\ env_status' = [st EXCEPT ![e] = "RUNNING"]
  /\ curenv' = [curenv EXCEPT ![c] = e]
  /\ pc' = [pc EXCEPT ![c] = "popping"]
  /\ lock' = NoCpu
  /\ UNCHANGED cpu_status

(* env_run(e): switch CPU c to e and release the lock.  The trap frame is
   restored afterwards, without the lock, by env_pop_tf().                 *)
env_run(c, e, st, cur) ==
  /\ env_status' = [s \in Slots |->
       IF s = e THEN "RUNNING"
       ELSE IF s = cur /\ st[s] = "RUNNING" THEN "RUNNABLE"
       ELSE st[s]]
  /\ curenv' = [curenv EXCEPT ![c] = e]
  /\ pc' = [pc EXCEPT ![c] = "popping"]
  /\ lock' = NoCpu
  /\ UNCHANGED cpu_status

(* Faulty variant: environments that run on other CPUs are overlooked. *)
sched_halt_IgnoresOthers(c, st, cur) ==
  /\ env_status' = st
  /\ curenv' = [curenv EXCEPT ![c] = cur]
  /\ pc' = [pc EXCEPT ![c] = "monitor"]
  /\ UNCHANGED <<lock, cpu_status>>

(* sched_halt(): the monitor when no environment can ever run, otherwise
   give up the lock and wait for the next timer interrupt.                 *)
sched_halt(c, st, cur) ==
  /\ env_status' = st
  /\ IF \A s \in Slots : st[s] \notin {"RUNNABLE", "RUNNING", "DYING"}
     THEN /\ curenv' = [curenv EXCEPT ![c] = cur]
          /\ pc' = [pc EXCEPT ![c] = "monitor"]
          /\ UNCHANGED <<lock, cpu_status>>
     ELSE /\ curenv' = [curenv EXCEPT ![c] = NoEnv]
          /\ cpu_status' = [cpu_status EXCEPT ![c] = "HALTED"]
          /\ pc' = [pc EXCEPT ![c] = "halted"]
          /\ lock' = NoCpu

(* Faulty variant: every search starts at the same slot. *)
SearchStart_Fixed(cur) == 1

(* Where the circular search of sched_yield() begins, and how far a slot is
   from there.                                                             *)
SearchStart(cur) == IF cur = NoEnv THEN 1 ELSE cur + 1

Distance(start, e) == (e - start + 2 * NENV) % NENV

(* Faulty variant: an environment that runs on another CPU may be chosen. *)
sched_yield_AnyRunning(c, st, cur) ==
  LET runnable == {e \in Slots : st[e] \in {"RUNNABLE", "RUNNING"}}
      start == SearchStart(cur)
  IN \/ \E e \in runnable :
          /\ \A f \in runnable : Distance(start, e) <= Distance(start, f)
          /\ env_run(c, e, st, cur)
     \/ /\ runnable = {}
        /\ sched_halt(c, st, cur)

(* sched_yield(): the first runnable slot in circular order, otherwise the
   current environment if it is still running, otherwise halt.             *)
sched_yield(c, st, cur) ==
  LET runnable == {e \in Slots : st[e] = "RUNNABLE"}
      start == SearchStart(cur)
  IN \/ \E e \in runnable :
          /\ \A f \in runnable : Distance(start, e) <= Distance(start, f)
          /\ env_run(c, e, st, cur)
     \/ /\ runnable = {}
        /\ IF cur # NoEnv /\ st[cur] = "RUNNING"
           THEN env_run(c, cur, st, cur)
           ELSE sched_halt(c, st, cur)

(* The end of trap(): resume the current environment if it still runs. *)
trap_return(c, st) ==
  IF st[curenv[c]] = "RUNNING"
  THEN env_run(c, curenv[c], st, curenv[c])
  ELSE sched_yield(c, st, curenv[c])

----------------------------------------------------------------------------
(* Allocating and freeing environments *)

(* Faulty variants of env_alloc(): the slot stays on the free list; a receive
   that was pending in the slot is not forgotten.                          *)
env_alloc_NotUnlinked(e, parent) ==
  /\ env_free_list # <<>>
  /\ e = Head(env_free_list)
  /\ env_gen' = [env_gen EXCEPT ![e] = NextGen(@)]
  /\ env_parent_id' = [env_parent_id EXCEPT ![e] = parent]
  /\ env_ipc_recving' = [env_ipc_recving EXCEPT ![e] = FALSE]
  /\ started' = started \ {e}
  /\ UNCHANGED env_free_list

env_alloc_KeepsRecving(e, parent) ==
  /\ env_free_list # <<>>
  /\ e = Head(env_free_list)
  /\ env_free_list' = Tail(env_free_list)
  /\ env_gen' = [env_gen EXCEPT ![e] = NextGen(@)]
  /\ env_parent_id' = [env_parent_id EXCEPT ![e] = parent]
  /\ started' = started \ {e}
  /\ UNCHANGED env_ipc_recving

(* env_alloc(): take the first free slot, give it a new id and a parent.
   The caller sets its status; a receive pending in the slot is cancelled. *)
env_alloc(e, parent) ==
  /\ env_free_list # <<>>
  /\ e = Head(env_free_list)
  /\ env_free_list' = Tail(env_free_list)
  /\ env_gen' = [env_gen EXCEPT ![e] = NextGen(@)]
  /\ env_parent_id' = [env_parent_id EXCEPT ![e] = parent]
  /\ env_ipc_recving' = [env_ipc_recving EXCEPT ![e] = FALSE]
  /\ started' = started \ {e}

(* env_free(): put the slot back.  A slot that was already freed has no page
   tables: env_free() faults on it and this CPU stops with the lock held.  *)
env_free(e) ==
  /\ \A i \in DOMAIN env_free_list : env_free_list[i] # e
  /\ env_free_list' = <<e>> \o env_free_list
  /\ UNCHANGED <<env_gen, env_parent_id, env_ipc_recving, started>>

Freed(e) == [env_status EXCEPT ![e] = "FREE"]

----------------------------------------------------------------------------
(* Start-up: i386_init(), boot_aps() and mp_main() *)

(* boot_aps(): hand a stack to the next AP and send it a STARTUP IPI. *)
boot_aps_start(c) ==
  /\ pc[c] = "boot"
  /\ next_ap < NCPU
  /\ mpentry_kstack' = next_ap
  /\ pc' = [pc EXCEPT ![c] = "boot_wait", ![next_ap] = "mpentry"]
  /\ UNCHANGED <<lock, cpu_status, curenv, kstack, next_ap, env_status>>
  /\ UNCHANGED envVars

(* Faulty variant: the next AP is started without waiting. *)
boot_aps_wait_NoWait(c) ==
  /\ pc[c] = "boot_wait"
  /\ next_ap' = next_ap + 1
  /\ pc' = [pc EXCEPT ![c] = "boot"]
  /\ UNCHANGED <<lock, cpu_status, curenv, mpentry_kstack, kstack, env_status>>
  /\ UNCHANGED envVars

(* boot_aps(): wait until that AP has reported in. *)
boot_aps_wait(c) ==
  /\ pc[c] = "boot_wait"
  /\ cpu_status[next_ap] = "STARTED"
  /\ next_ap' = next_ap + 1
  /\ pc' = [pc EXCEPT ![c] = "boot"]
  /\ UNCHANGED <<lock, cpu_status, curenv, mpentry_kstack, kstack, env_status>>
  /\ UNCHANGED envVars

(* mpentry.S: the AP loads its stack pointer from mpentry_kstack. *)
mpentry(c) ==
  /\ pc[c] = "mpentry"
  /\ kstack' = [kstack EXCEPT ![c] = mpentry_kstack]
  /\ pc' = [pc EXCEPT ![c] = "mp_main"]
  /\ UNCHANGED <<lock, cpu_status, curenv, mpentry_kstack, next_ap, env_status>>
  /\ UNCHANGED envVars

(* mp_main(): set up this CPU, report in, then wait for the kernel lock. *)
mp_main(c) ==
  /\ pc[c] = "mp_main"
  /\ cpu_status' = [cpu_status EXCEPT ![c] = "STARTED"]
  /\ pc' = [pc EXCEPT ![c] = "spin_mp"]
  /\ UNCHANGED <<lock, curenv, env_status>>
  /\ UNCHANGED <<bootVars, envVars>>

(* i386_init(): create the first environment, then call the scheduler. *)
env_create(c) ==
  /\ pc[c] = "boot"
  /\ next_ap = NCPU
  /\ \E e \in Slots :
       /\ env_alloc(e, NoId)
       /\ env_status' = [env_status EXCEPT ![e] = "RUNNABLE"]
  /\ pc' = [pc EXCEPT ![c] = "sched"]
  /\ UNCHANGED <<lock, cpu_status, curenv>>
  /\ UNCHANGED bootVars

----------------------------------------------------------------------------
(* Entering the kernel *)

(* Where a CPU continues once it has the lock. *)
AfterLock == [spin_boot |-> "boot", spin_mp |-> "sched", spin_halt |-> "sched",
              spin_irq |-> "irq", spin_trap |-> "trap", spin_twice |-> "spin_trap"]

(* spin_lock(&kernel_lock): a panic if this CPU holds it already, otherwise the
   xchg that finds the lock free.                                          *)
lock_kernel(c) ==
  /\ pc[c] \in Spinning
  /\ lock \in {NoCpu, c}
  /\ lock' = c
  /\ pc' = [pc EXCEPT ![c] = IF lock = c THEN "panic" ELSE AfterLock[pc[c]]]
  /\ UNCHANGED <<cpu_status, curenv, env_status>>
  /\ UNCHANGED <<bootVars, envVars>>

(* env_pop_tf(): restore the frame of curenv and enter user mode. *)
env_pop_tf(c) ==
  /\ pc[c] = "popping"
  /\ pc' = [pc EXCEPT ![c] = "user"]
  /\ UNCHANGED <<lock, cpu_status, curenv, env_status>>
  /\ UNCHANGED <<bootVars, envVars>>

(* Faulty variant: the status is read but not exchanged. *)
enter_kernel_KeepsStatus(c, started_at, halted_at) ==
  /\ pc' = [pc EXCEPT ![c] = IF cpu_status[c] = "HALTED" THEN halted_at ELSE started_at]
  /\ UNCHANGED <<lock, cpu_status, curenv, env_status>>
  /\ UNCHANGED <<bootVars, envVars>>

(* The beginning of trap(): the xchg of cpu_status decides whether this CPU takes
   the lock because it was halted.                                         *)
enter_kernel(c, started_at, halted_at) ==
  /\ pc' = [pc EXCEPT ![c] = IF cpu_status[c] = "HALTED" THEN halted_at ELSE started_at]
  /\ cpu_status' = [cpu_status EXCEPT ![c] = "STARTED"]
  /\ UNCHANGED <<lock, curenv, env_status>>
  /\ UNCHANGED <<bootVars, envVars>>

(* trap() entered from user mode, by the timer or by the program: it takes the
   lock, for the second time if the CPU counted as halted.                 *)
timer_irq(c) ==
  /\ pc[c] = "user"
  /\ enter_kernel(c, "spin_irq", "spin_twice")

user_trap(c) ==
  /\ pc[c] = "user"
  /\ enter_kernel(c, "spin_trap", "spin_twice")

(* trap() entered from sched_halt(): without the lock if the CPU did not count as
   halted.                                                                 *)
timer_wakes(c) ==
  /\ pc[c] = "halted"
  /\ enter_kernel(c, "sched", "spin_halt")

(* sched_yield() called by mp_main(), i386_init() or the timer interrupt of
   a halted CPU.                                                           *)
schedule(c) ==
  /\ pc[c] = "sched"
  /\ sched_yield(c, env_status, curenv[c])
  /\ UNCHANGED <<bootVars, envVars>>

----------------------------------------------------------------------------
(* Handlers: what CPU c does for a trap from user mode, holding the lock *)

InTrap(c) == pc[c] \in {"irq", "trap"}

(* A trap raised by the program itself, which is not a zombie. *)
Serving(c) ==
  /\ pc[c] = "trap"
  /\ env_status[curenv[c]] # "DYING"

(* Faulty variant: a zombie is only stopped, and never freed. *)
collect_zombie_NotFreed(c) ==
  /\ InTrap(c)
  /\ env_status[curenv[c]] = "DYING"
  /\ sched_yield(c, [env_status EXCEPT ![curenv[c]] = "NOT_RUNNABLE"], NoEnv)
  /\ UNCHANGED <<bootVars, envVars>>

(* trap(): a zombie is collected instead of being served. *)
collect_zombie(c) ==
  /\ InTrap(c)
  /\ env_status[curenv[c]] = "DYING"
  /\ env_free(curenv[c])
  /\ sched_yield(c, Freed(curenv[c]), NoEnv)
  /\ UNCHANGED bootVars

(* trap_dispatch(): the timer interrupt preempts the environment. *)
preempt(c) ==
  /\ pc[c] = "irq"
  /\ env_status[curenv[c]] # "DYING"
  /\ sched_yield(c, env_status, curenv[c])
  /\ UNCHANGED <<bootVars, envVars>>

(* Calls that leave all of this state alone: those that fail, cputs, cgetc,
   getenvid, the calls on pages, a page fault with an upcall, IRQ 7.       *)
sys_return(c) ==
  /\ Serving(c)
  /\ trap_return(c, env_status)
  /\ UNCHANGED <<bootVars, envVars>>

sys_yield(c) ==
  /\ Serving(c)
  /\ "yield" \in Calls
  /\ sched_yield(c, env_status, curenv[c])
  /\ UNCHANGED <<bootVars, envVars>>

sys_exofork(c) ==
  /\ Serving(c)
  /\ "exofork" \in Calls
  /\ \E e \in Slots :
       /\ env_alloc(e, IdOf(curenv[c]))
       /\ trap_return(c, [env_status EXCEPT ![e] = "NOT_RUNNABLE"])
  /\ UNCHANGED bootVars

(* sys_env_set_status() on a child or, with "set_status_self", on the caller.
   A disciplined creator makes a child runnable once and never stops it.   *)
sys_env_set_status(c, id, s) ==
  /\ Serving(c)
  /\ s \in {"RUNNABLE", "NOT_RUNNABLE"}
  /\ \E e \in Slots :
       /\ envid2env(c, id, TRUE, e)
       /\ IF e = curenv[c]
          THEN /\ "set_status_self" \in Calls
               /\ UNCHANGED started
          ELSE /\ "set_status" \in Calls
               /\ "start_once" \in Discipline =>
                    s = "RUNNABLE" /\ e \notin started
               /\ started' = started \cup {e}
       /\ trap_return(c, [env_status EXCEPT ![e] = s])
  /\ UNCHANGED <<env_gen, env_parent_id, env_ipc_recving, env_free_list>>
  /\ UNCHANGED bootVars

(* Faulty variant: an environment is freed even if it runs elsewhere. *)
env_destroy_Always(c, e) ==
  /\ env_free(e)
  /\ IF e = curenv[c]
     THEN sched_yield(c, Freed(e), NoEnv)
     ELSE trap_return(c, Freed(e))

(* env_destroy(e): an environment that runs on another CPU only becomes a
   zombie; any other one is freed here.                                    *)
env_destroy(c, e) ==
  IF e = curenv[c]
  THEN /\ env_free(e)
       /\ sched_yield(c, Freed(e), NoEnv)
  ELSE IF env_status[e] = "RUNNING"
       THEN /\ trap_return(c, [env_status EXCEPT ![e] = "DYING"])
            /\ UNCHANGED envVars
       ELSE /\ env_free(e)
            /\ trap_return(c, Freed(e))

(* sys_env_destroy() on a child ("destroy") or on the caller ("exit", which
   also stands for a fault without an upcall and for an unexpected trap).
   A disciplined creator destroys a child once.                            *)
sys_env_destroy(c, id) ==
  /\ Serving(c)
  /\ \E e \in Slots :
       /\ envid2env(c, id, TRUE, e)
       /\ IF e = curenv[c]
          THEN "exit" \in Calls
          ELSE /\ "destroy" \in Calls
               /\ "destroy_once" \in Discipline => env_status[e] # "DYING"
       /\ env_destroy(c, e)
  /\ UNCHANGED bootVars

(* sys_ipc_try_send(): wake a receiver.  No permission is needed. *)
sys_ipc_try_send(c, id) ==
  /\ Serving(c)
  /\ "try_send" \in Calls
  /\ \E e \in Slots :
       /\ envid2env(c, id, FALSE, e)
       /\ env_ipc_recving[e]
       /\ env_ipc_recving' = [env_ipc_recving EXCEPT ![e] = FALSE]
       /\ trap_return(c, [env_status EXCEPT ![e] = "RUNNABLE"])
  /\ UNCHANGED <<env_gen, env_parent_id, env_free_list, started>>
  /\ UNCHANGED bootVars

sys_ipc_recv(c) ==
  /\ Serving(c)
  /\ "recv" \in Calls
  /\ env_ipc_recving' = [env_ipc_recving EXCEPT ![curenv[c]] = TRUE]
  /\ sched_yield(c, [env_status EXCEPT ![curenv[c]] = "NOT_RUNNABLE"], curenv[c])
  /\ UNCHANGED <<env_gen, env_parent_id, env_free_list, started>>
  /\ UNCHANGED bootVars

(* A breakpoint enters the monitor, which keeps the lock and never returns. *)
breakpoint(c) ==
  /\ Serving(c)
  /\ "brkpt" \in Calls
  /\ pc' = [pc EXCEPT ![c] = "monitor"]
  /\ UNCHANGED <<lock, cpu_status, curenv, env_status>>
  /\ UNCHANGED <<bootVars, envVars>>

(* The monitor's endless command loop. *)
monitor(c) ==
  /\ pc[c] = "monitor"
  /\ UNCHANGED vars

----------------------------------------------------------------------------
syscall(c) ==
  \/ sys_return(c)
  \/ sys_yield(c)
  \/ sys_exofork(c)
  \/ \E id \in EnvIds \cup {NoId}, s \in Statuses : sys_env_set_status(c, id, s)
  \/ \E id \in EnvIds \cup {NoId} : sys_env_destroy(c, id)
  \/ \E id \in EnvIds \cup {NoId} : sys_ipc_try_send(c, id)
  \/ sys_ipc_recv(c)

(* The steps a CPU takes by itself once it runs kernel code. *)
KernelStep(c) ==
  \/ lock_kernel(c)
  \/ boot_aps_start(c)
  \/ boot_aps_wait(c)
  \/ mpentry(c)
  \/ mp_main(c)
  \/ env_create(c)
  \/ schedule(c)
  \/ collect_zombie(c)
  \/ preempt(c)
  \/ syscall(c)
  \/ breakpoint(c)
  \/ env_pop_tf(c)
  \/ timer_wakes(c)

Next ==
  \E c \in CPUs :
    \/ KernelStep(c)
    \/ timer_irq(c)
    \/ user_trap(c)
    \/ monitor(c)

Spec == Init /\ [][Next]_vars

(* Every CPU keeps executing, and the periodic LAPIC timer interrupts user
   code again and again: an interrupt that arrives in the kernel stays
   pending until the iret.  Nothing is assumed about who wins the lock.    *)
Fairness ==
  \A c \in CPUs : WF_vars(KernelStep(c)) /\ SF_vars(timer_irq(c))

LiveSpec == Spec /\ Fairness

----------------------------------------------------------------------------
(* Properties *)

(* Every variable has its type: generations stay in range when env_alloc()
   wraps them, and curenv and the free list name slots of the table.        *)
TypeOK ==
  /\ lock \in CPUs \cup {NoCpu}
  /\ pc \in [CPUs -> PCs]
  /\ cpu_status \in [CPUs -> {"UNUSED", "STARTED", "HALTED"}]
  /\ curenv \in [CPUs -> Slots \cup {NoEnv}]
  /\ mpentry_kstack \in CPUs
  /\ kstack \in [CPUs -> CPUs]
  /\ next_ap \in 1 .. NCPU
  /\ env_status \in [Slots -> Statuses]
  /\ env_gen \in [Slots -> 0 .. MaxGen]
  /\ env_parent_id \in [Slots -> EnvIds \cup {NoId}]
  /\ env_ipc_recving \in [Slots -> BOOLEAN]
  /\ env_free_list \in Seq(Slots)
  /\ started \in SUBSET Slots

(* Exactly the CPU that owns kernel_lock executes kernel code that touches
   shared state: cpu_status tells trap() rightly whether to take the lock, and no
   CPU takes it twice, which spin_lock() panics on.                        *)
LockProtectsKernel ==
  \A c \in CPUs : pc[c] \in Holding <=> lock = c

(* A CPU that runs, saves or restores an environment has a curenv (the
   assert in trap()); that environment is RUNNING or DYING, so nobody has
   freed it or scheduled it elsewhere.                                     *)
OnCpu == {"popping", "user", "spin_irq", "spin_trap", "irq", "trap"}

CurenvIsLive ==
  \A c \in CPUs :
    /\ pc[c] \in OnCpu => curenv[c] \in Slots
    /\ curenv[c] \in Slots /\ pc[c] # "monitor" =>
         pc[c] \in OnCpu /\ env_status[curenv[c]] \in {"RUNNING", "DYING"}

(* sched_yield() never chooses an environment that runs on another CPU: no
   environment is the curenv of two CPUs.                                  *)
OneCpuPerEnv ==
  \A c, d \in CPUs : c # d /\ curenv[c] = curenv[d] => curenv[c] = NoEnv

(* An environment marked RUNNING or DYING is on some CPU, which will one day
   collect it or put it back: the mark is never left behind.               *)
RunningIsOnCpu ==
  \A e \in Slots :
    env_status[e] \in {"RUNNING", "DYING"} => \E c \in CPUs : curenv[c] = e

(* The free list holds every ENV_FREE slot exactly once and no other. *)
FreeListExact ==
  /\ \A i, j \in DOMAIN env_free_list :
       i # j => env_free_list[i] # env_free_list[j]
  /\ \A e \in Slots :
       env_status[e] = "FREE" <=> \E i \in DOMAIN env_free_list : env_free_list[i] = e

(* An environment that waits in sys_ipc_recv() is not scheduled before a
   sender has answered it.                                                 *)
ReceiverIsBlocked ==
  \A e \in Slots :
    env_ipc_recving[e] /\ env_status[e] # "FREE" => env_status[e] = "NOT_RUNNABLE"

(* The handshake of boot_aps() and mp_main(): every AP runs on its own kernel
   stack although all of them read theirs from mpentry_kstack.             *)
OwnKernelStack ==
  \A c \in CPUs : pc[c] \notin {"off", "mpentry"} => kstack[c] = c

(* A CPU that gives up in sched_halt() and enters the monitor, keeping the
   lock for ever, does so when nothing can run and nothing runs.           *)
MonitorOnlyWhenIdle ==
  "brkpt" \notin Calls =>
    \A c \in CPUs : pc[c] = "monitor" =>
      /\ \A e \in Slots : env_status[e] \in {"FREE", "NOT_RUNNABLE"}
      /\ \A d \in CPUs \ {c} : pc[d] \in {"halted", "spin_mp", "spin_halt"}

(* env_destroy(): a zombie is freed by the CPU it runs on when that CPU traps,
   and leaves the DYING state in no other way.                             *)
ZombieFreedByItsCpu ==
  [][\A e \in Slots :
       env_status[e] = "DYING" /\ env_status'[e] # "DYING" =>
         /\ env_status'[e] = "FREE"
         /\ lock \in CPUs
         /\ curenv[lock] = e]_vars

(* envid2env() with checkperm: an environment is ended only by itself or by
   the environment that created it, which still has the same id.           *)
EndedBySelfOrCreator ==
  [][\A e \in Slots :
       env_status'[e] # env_status[e] /\ env_status'[e] \in {"FREE", "DYING"} =>
         /\ lock \in CPUs
         /\ \/ curenv[lock] = e
            \/ env_parent_id[e] = IdOf(curenv[lock])]_vars

(* Round robin: an environment that can run does run.  *)
RunnableRuns ==
  \A e \in Slots : env_status[e] = "RUNNABLE" ~> env_status[e] # "RUNNABLE"

(* No CPU keeps the kernel lock, unless sched_halt() has entered the monitor
   because no environment is left that could run.                          *)
LockIsReleased ==
  \A c \in CPUs :
    lock = c ~> \/ lock # c
                \/ /\ pc[c] = "monitor"
                   /\ \A e \in Slots : env_status[e] \in {"FREE", "NOT_RUNNABLE"}
=============================================================================
