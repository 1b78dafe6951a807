# A verification of the JOS kernel (lab 4, 64-bit)

This directory holds TLA+ models of the boot loader in `src/boot`, the kernel in
`src/kern` and the user library in `src/lib`, the TLC configurations that check
them on small instances, and TLAPS proofs of the properties that matter most.  Every definition is translated from the C code;
`PROJECT.json` gives the source lines of each one under `map`.

## 1. The system

JOS is an exokernel for x86-64 multiprocessors.  *Environments* (processes) are
slots of a fixed table; the kernel offers them scheduling, physical pages and
page tables, and a rendezvous message.  `fork`, page-fault handling and
`ipc_send`/`ipc_recv` are user-level libraries on top.  All kernel code runs
under one *big kernel lock*, with interrupts disabled.

| Component | State | Operations | Interacts with |
|---|---|---|---|
| Big lock (`spinlock.c`) | `kernel_lock` | `lock_kernel`, `unlock_kernel` | every entry to and exit from the kernel |
| Start-up (`init.c`, `mpentry.S`, `lapic.c`, `mpconfig.c`) | `cpus[].cpu_status`, `mpentry_kstack` | `i386_init`, `boot_aps`, `mp_main` | boot CPU and APs share `mpentry_kstack` and `cpu_status` without the lock |
| Scheduler (`sched.c`) | `curenv` per CPU, `env_status` | `sched_yield`, `sched_halt` | called by traps, system calls, start-up |
| Environments (`env.c`) | `envs[]`, `env_free_list`, ids, parents | `env_alloc`, `env_free`, `env_destroy`, `env_run`, `env_pop_tf`, `envid2env` | page tables, scheduler |
| Trap path (`trap.c`, `trapentry.S`) | saved trap frame | `trap`, `trap_dispatch`, `page_fault_handler` | lock, scheduler, system calls |
| System calls (`syscall.c`) | -- | 13 calls | all of the above |
| Page allocator (`pmap.c`) | `page_free_list`, `pp_ref` | `page_alloc`, `page_free`, `page_decref` | page tables |
| Page tables (`pmap.c`) | four levels per environment | `pml4e_walk`, `pdpe_walk`, `pgdir_walk`, `page_insert`, `page_lookup`, `page_remove` | allocator, TLB |
| Kernel IPC (`syscall.c`) | `env_ipc_*` | `sys_ipc_recv`, `sys_ipc_try_send` | scheduler, page tables |
| User library (`lib/`) | `_pgfault_handler`, COW bits | `fork`, `pgfault`, `set_pgfault_handler`, `ipc_send`, `ipc_recv` | system calls only |
| TLB (`pmap.c`, hardware) | translations per CPU, `cr3` | `tlb_invalidate`, `lcr3` | page tables, scheduler |
| User memory checks (`pmap.c`) | -- | `user_mem_check`, `user_mem_assert` | `sys_cputs`, page faults |
| Exception stack (`trap.c`, `pfentry.S`) | frames on one page | `page_fault_handler`, `_pgfault_upcall` | `fork`, user stack |
| Console input (`console.c`) | ring buffer, shift state | `kbd_proc_data`, `cons_intr`, `cons_getc` | `sys_cgetc`, monitor |
| Text (`string.c`, `printfmt.c`, `printf.c`, `console.c`, `readline.c`, `monitor.c`) | screen, line buffer | string routines, `vprintfmt`, `cga_putc`, `readline`, `runcmd` | everything that prints or reads |
| Boot (`boot/main.c`, `pmap.c`, `mpconfig.c`, `lapic.c`) | memory map, first page lists, kernel mappings, `cpus[]` | `bootmain`, `multiboot_read`, `page_init`, `x64_vm_init`, `mp_init`, `lapic_init` | hands all state to the rest |

What is hard here:

* **Interleaving.**  CPUs meet only at the lock, at `mpentry_kstack` and at
  `cpu_status`.  Between a trap and the lock, and between the unlock and the
  `iret`, a CPU depends on state that others may change: its `curenv` may be
  destroyed meanwhile and becomes a zombie (`ENV_DYING`).
* **Reuse.**  Slots and identifiers are reused, pages move between
  environments, a receive may be pending in a slot that is reallocated.
* **Exhaustion.**  A system call that runs out of memory half way must leave the
  address space as it was.  `pp_ref` has 16 bits.
* **Waiting.**  A CPU with nothing to do halts until the next timer interrupt,
  or enters the monitor for ever with the lock held.

* **Caches and copies.**  A TLB is flushed on one CPU only; a message is read by
  three loads after the wake-up; a fault frame lies on the stack it must return
  through.
* **Edges.**  Ranges of bytes are checked page by page, segments are read by
  whole sectors, free pages are told from the kernel's by their numbers.

The hazards, each at its line and with the properties that catch it, are listed
in `PROJECT.json` under `hazards`.

## 2. Modules

| Module | Models | Role |
|---|---|---|
| `EnvSched` | lock, start-up, traps, scheduler, life cycle of environments, calls on environments, blocking part of IPC | core specification |
| `MCEnvSched` | -- | the module TLC runs |
| `EnvSchedProofs` | -- | inductive invariant and theorems about `EnvSched` |
| `Pmap` | page allocator, page tables, address spaces, calls on pages | second specification |
| `MCPmap` | -- | addresses and allocation order for TLC |
| `PmapProofs` | -- | theorems about `Pmap` |
| `CowFork` | copy-on-write `fork` and `pgfault` of the user library | third specification |
| `ForkAbs` | -- | what `fork` promises: a copy of the memory |
| `MCCowFork` | -- | symmetries for TLC |
| `CowForkProofs` | -- | theorems about `CowFork`; that it implements `ForkAbs` |
| `Ipc` | `sys_ipc_recv`, `sys_ipc_try_send`, `ipc_recv`, `ipc_send` | messages with value, permission and page |
| `IpcAbs` | -- | what messages promise: a rendezvous |
| `IpcProofs` | -- | theorems about `Ipc`; that it implements `IpcAbs` |
| `UxStack` | `page_fault_handler`, `pfentry.S`, `set_pgfault_handler` | nested page faults |
| `UxStackProofs` | -- | theorems about `UxStack` |
| `Console` | keyboard, serial port, ring buffer | console input |
| `ConsoleProofs` | -- | theorems about `Console` |
| `Text` | `string.c`, `printfmt.c`, `printf.c`, the screen, `readline`, `runcmd` | functions against reference definitions |
| `Tlb` | TLBs, `cr3`, `user_mem_check`, `sys_cputs` | address translation on several CPUs |
| `TlbProofs` | -- | theorems about `Tlb` |
| `Boot` | `bootmain`, memory detection, `page_init`, kernel mappings, `mp_init`, `lapic_init` | start-up on different machines |
| `BootProofs` | -- | theorems about `Boot` |
| `MCIpc`, `MCUxStack`, `MCConsole`, `MCText`, `MCTlb`, `MCBoot` | -- | instances for TLC |

### 2.1 EnvSched

Every variable carries the name of the C variable or field it stands for.
`pc[c]` says where CPU `c` is: started or not, spinning on the lock (`spin_*`),
inside the kernel with the lock (`boot`, `boot_wait`, `sched`, `irq`, `trap`,
`monitor`), restoring a frame (`popping`), in `user` mode or `halted`.

*Atomicity.*  Taking the lock is one step (`lock_kernel`: the `xchg` that finds
0).  The handler that follows is a second step that ends with the release of the
lock in `env_run` or `sched_halt`: everything it touches is protected by the
lock, which `LockProtectsKernel` checks.  Everything done without the lock is a
step of its own: `timer_irq`, `user_trap`, `timer_wakes`, `env_pop_tf`, and the
start-up steps `mpentry` and `mp_main`.  `boot_aps` runs with the lock but shares
variables with the APs, so each of its iterations is two steps.

*Handlers.*  A handler computes the new table of statuses and ends in
`trap_return`, `sched_yield` or (from there) `env_run` or `sched_halt`, as the C
code does.  `trap()` frees a zombie instead of serving it (`collect_zombie`);
`env_destroy` marks an environment that runs elsewhere and frees any other.
`sys_return` stands for every call that leaves this state alone, failed ones
included; `sys_env_destroy` on the caller also stands for `env_destroy(curenv)`
in `page_fault_handler`, `user_mem_assert` and the end of `trap_dispatch`.  The
trap frame, registers, `env_runs` and output are left out.  `env_free` of a slot
that is already free is disabled: the code would fault on `env_pml4e == 0`.
Whether `trap()` takes the lock on its way in depends on its exchange of
`cpu_status` (`enter_kernel`) and, from user mode, it takes it a second time if
the CPU counted as halted (`spin_twice`); `spin_lock()` panics on a lock its own
CPU holds.  `LockProtectsKernel` shows that neither happens.
After a `panic()` the machine stops; no behaviour after it is modelled.

*Identifiers.*  An id is a pair of slot and generation; the generation wraps from
`MaxGen` to 1 as in `env_alloc`.

*Discipline.*  Three calls trust the program: `sys_env_set_status` overwrites any
status, and `env_destroy` frees a zombie that is destroyed again.  The constant
`Discipline` says what programs restrain themselves to.  `FullDiscipline` is how
`lib/fork.c:209`, `user/dumbfork.c:75` and `user/spin.c:29` use the calls: a
child is made runnable once, after `sys_exofork`, and destroyed at most once.
The runs and the theorems assume it; section 5 says what the kernel does when one
half is dropped.

### 2.2 Pmap

A virtual address is the tuple of its four table indices; a prefix of it names a
table.  `mem.entry[<<e, q>>]` is the page that environment `e`'s entry for the
table or address `q` points to, `mem.ref` is `pp_ref` and `mem.free` is
`page_free_list`, as a set: the constant `First` says which free pages
`page_alloc` may return for an entry, so that the specification covers every
order of the list.  All of this runs under the big lock, so a system call is one
step.

`WalkTables` gives what a walk with `create` may allocate: the missing tables
from the top down, as far as the free pages go, none being given back when it
fails.  `Walkable` is a walk without `create`, including the test of entry 0 in
`pml4e_walk` and `pdpe_walk` that makes it give up too early.  `Unref` is the
triple loop of `env_free`, with `TableVisited` and `PageVisited` for the entries
the loops miss.  System calls that are rejected by their checks change nothing
and are not steps.  A page sent by `sys_ipc_try_send` goes through the same
`page_insert` as `sys_page_map`.  The contents of pages, the static mappings
above `UTOP` and the TLB are left out here (`CowFork`, `Boot` and `Tlb` have
them).

`Discipline` again says what programs do not do: map a page onto itself where it
is mapped nowhere else, unmap what is not mapped, destroy an environment that
was never given memory.  `SpecAny` adds the steps of programs that do; a panic
is then the last step.

### 2.3 CowFork and ForkAbs

Each environment is a sequential program.  Inside `fork` or `pgfault` it goes
through one step per system call or copy, and the steps of different
environments interleave; in its own code it stores to its memory, unmaps a page,
replaces one by a read-only page, forks or exits at any time.  `page[e][va]` and
`perm[e][va]` are the last-level page table entry; the tables above it, the
reference counts and the kernel's own bookkeeping are `Pmap`'s subject.  A page
is free when nothing maps it.  A page holds one value, so a store and a copy act
on a whole page.

* `page_fault_handler` decides between destroying the environment, calling
  `pgfault` and (in `pgfault`) giving up.  A fault inside the library is not
  possible in this model: `fork` and `pgfault` touch the stack, the exception
  stack and `PFTEMP` only.  The one other store, to `_pgfault_handler` in
  `set_pgfault_handler`, precedes `sys_exofork` and counts as a store of the
  program.
* A call that fails ends in the library's `panic`, whose breakpoint takes the
  machine into the kernel monitor.  `sys_exofork` is the exception: `fork`
  returns an error.  The other exception is `duppage`, whose result `fork`
  ignores; `DupMayFail` says whether it can fail.
* The calls `pgfault_map`, `pgfault_unmap`, `remap` and `stack_unmap` cannot
  fail: the tables and the page they need are there.
* Everything but the pages from `UTEXT` to `end` and the top page of the stack
  stays behind in the parent, as `fork` copies nothing else.

`ForkAbs` has no pages: a store changes the memory of one environment, `Fork`
copies the whole memory at once, and an environment inside the library changes
no memory.  `ForkCopiesMemory` says that `CowFork` implements it, with the memory
an environment sees (`View`) for `mem`.

### 2.4 Ipc and IpcAbs

A system call is one step; what the library does in between is not atomic.
`ipc_send` loops through `try_send` and `yield`; after a wake-up `ipc_recv` loads
sender, permission and value in three steps (`from`, `perm`, `value`).  `Invalid`
collects the checks of `sys_ipc_try_send` on address, permission and source page
in their order; an error other than "not receiving" makes `ipc_send` panic, which
takes the machine into the monitor (`Halted`).  `page_insert` may fail for lack
of memory.  Environments exit while others send to them.

`IpcAbs` knows no retries and no fields: `Meet` hands a message over at one
instant, `Return` gives the receiver that message.  `MessagesMeet` is the
refinement.  Programs number their messages, so a message that is
lost, duplicated or mixed with another one breaks it.  What a receiver is told of
the permission when no page came is the parameter `NoPagePerms`: `MessagesMeet`
leaves it open, and `PermissionAsPromised` takes the 0 that the comments promise,
which the code does not keep (run `Ipc_perm`).

### 2.5 UxStack

Memory is a row of words with the user stack and the page of the exception stack.
The state has the registers (`cpu`), the words and, as history, the stack `ctx`
of what was interrupted: registers and memory at the time of each fault.  A fault
may come from the program, from the handler's body (`data_fault`), and from a
`push` of the program or the upcall's own store when the program has mapped its
stack without `PTE_W` (`sys_page_map`, `stack_fault`); `fork` itself copies the
stack.  The upcall is split where a fault can
happen: `adjust`, `store`, `return`.  `prologue` and `leave` are the compiled
handler with some words of locals.  The code is compiled with `-mno-red-zone`
(`GNUmakefile:89`), so nothing lives below a stack pointer.

### 2.6 Console

`kbd` and `com1` are what waits in the devices, `cons` is the ring buffer,
`shift` the static variable of `kbd_proc_data`.  The devices are polled by
`cons_getc` alone, at any time: `serial_intr` and `kbd_intr` are the loop of
`cons_intr` for each of them, one byte a step, so that keys are also pressed while
the kernel polls (`poll` says which device it is at).  Up to `KbdFifo` bytes wait.
Ctrl-Alt-Del ends the behaviour.  The history variables say what a person did:
`held` and `lock` which keys are down and whether Caps Lock is on, `meant` what is
meant by each byte that waits, `unread` what was meant by those that the kernel has
taken and nobody has read.  The properties compare the program's state with
that; no history variable is read by the code's part of an action.

### 2.7 Text

The routines are operators on memory or text, written as the code's loops, and
each is compared with a definition of what it is for: a copy through a second
buffer, the digits of a number, the window on the lines written so far.
A behaviour is a single call, with its input chosen from `Inputs`.  `Wide` stands
for 2^64 and is small, so that both ends of the range are reached; the recursion
uses `RECURSIVE` operators, so this module has no theorems.

`memmove` and `memset` choose between words and bytes as the code does.  The
references for `vprintfmt` and the buffers follow the comments, not the code:
`-` pads on the right, the width covers the sign, `%e` prints a text, a line is
one system call.  Where the code does otherwise `FormatsDirective` and
`BuffersHold` name the case (a padded number with a sign or `-`, the codes in
`Untold`, a text that fills its buffer), and `NumbersPadRight`, `NumbersFillField`,
`ErrorsHaveText` and `OneCallPerLine` state the comment without the exception;
section 5 has what TLC says of them.  A precision says nothing for numbers.

### 2.8 Tlb

`pt[e]` has the entries of the pages, `dirs[e]` the page directories there are
above them, `tlb[c]` what CPU `c` has cached, `cr3[c]` what it has loaded.
`access` is the hardware: it fills the TLB from the loaded tables and raises
permissions only by reading the table again.  `Walk` is the kernel's own look at
a table: it gives up without the first directory, whichever it needs
(`pmap.c:589`, `pmap.c:639`), so a page may be accessible and yet refused, skipped
or overwritten.  Every system call that changes a table calls `tlb_invalidate` on
the CPU it runs on, and nobody else is told.  What saves the kernel is who changes
whose tables: a program changes its own, or those of a child it has not started
(`fork.c`, `dumbfork.c`); a message changes those of a blocked receiver, which no
CPU has loaded.  The guards say so.  Without them `TlbCoherent` is violated.
`sched_halt` has both branches: a CPU that stays in the monitor keeps `curenv` and
the tables of an environment that waits for a message, which `TablesInUse` allows
for.

`user_mem_check` is translated page by page, for ranges of 0 bytes and more.
`CheckIsExact` compares it with a definition byte by byte in every reachable page
table.  What it lets through is accessible, whatever table it is asked about; that
it refuses nothing else holds for the environments that call it.  They have a first
directory, in which their text is: one without is destroyed at its first
instruction (`page_fault`).  The property also says where the code is not exact: an
empty range inside a page counts as one byte, and from `ULIM` on the address it
names is the start of the page.  `FirstErroneousAddress` is the comment's promise
without that exception (section 5).

`sys_cputs` models what `"%.*s"` reads: `vprintfmt` loads a character before it
tests the precision, so one byte behind the checked range is read.  `PaddedText`
says that it is mapped, as it always is in the library's own buffers.

### 2.9 Boot

One sequence of steps on many `Machines`: kernel images whose segments meet inside
a sector, memory maps in any order with adjoining, reserved and overlapping
regions, CMOS sizes, processor tables with disabled processors and with more than
`NCPU`.  A round of a loop is one step: over segments, regions (three loops of
`multiboot_read`), pages, stacks, the pages of `check_page_free_list` and the
entries of the processor table; `loop` is the loop's variable.  The self-tests are
steps too, with what they change and what they assert: `check_page_free_list`
reorders the list, `check_page_alloc` needs three free pages, `page_check` six; it
gives back three of them, and the next one becomes the table of the MMIO region,
where its three mappings stay.  `ListAsserts` and `MapAsserts` are the assertions
about list and mappings.  Assertions about permissions that read the word at address 0
depend on what is there: `machine.vector0`.  Addresses are
scaled down; `ASSUME BootAssumption` keeps the relations
between them that `memlayout.h` has.  A failed `panic`, `assert` or bad image
stops the machine (stages `panic`, `bad`).  The insertion sort may write behind its
list: what that hits depends on the compiler, so it ends start-up (`corrupt`) or has
no effect.  `Regular` describes the machines the
code is written for; `FreeIsRam` is claimed on those.  They have RAM from 0 and
from 1 MB upwards without gaps, and a usable region overlaps at most the region
before or behind it in the order of their starts (`Neighbours`; section 5 says what
happens otherwise).

## 3. Runs

| Run | Instance | Shows |
|---|---|---|
| `EnvSched_smp` | 3 CPUs, 2 slots, 2 generations, all calls | start-up, lock, scheduler, zombies, free list, receivers, permissions while slots and ids are reused |
| `EnvSched_live` | 2 CPUs, 3 slots, no `exit` | round robin, release of the lock, the monitor only when all is idle |
| `Pmap` | 2 environments, 3 addresses in 2 directories, 10 pages: 14,098 states up to names | references, private and connected tables, failed calls, walks that give up early |
| `Pmap_remap` | one rule of `Discipline` dropped | violation: page freed while mapped |
| `CowFork` | 3 environments, 9 pages, 1 data page and the stack | `fork` implements a copy of the memory; sharing is always read-only |
| `Ipc` | a server, two clients with 2 and 1 sends, one page and address | `ipc_*` implement a rendezvous; every sender gets through; read-only pages stay so |
| `UxStack` | 2 words of user stack, 33 of exception stack | returns restore everything, frames do not overlap |
| `Console` | 6 keys, two serial bytes, ring buffer of 3 | input is what was typed; modifiers do not stick |
| `Ipc_perm` | the instance of `Ipc` | violation: the permission of an earlier page comes with a message without one |
| `Text` | all small inputs of each group of routines | each equals its reference definition, in the cases in which the code keeps its comments |
| `Tlb` | 2 CPUs, 2 environments, 2 frames, 2 pages of 2 bytes, each in a directory of its own: 22,635 states | no stale translation or freed table in use; the check of user memory is sound for all and exact for callers |
| `Boot` | 181,871 states over all images, memory maps and tables of `MCBoot` | kernel loaded whole, free pages are unused RAM and four are gone besides the tables, stacks and APIC mapped, processors numbered |

*Bounds.*  Two CPUs are enough for every race over an environment; the third is
for the start-up protocol, where the second AP could disturb the first, and for a
CPU that looks for work while a creator and its child run on the others.
`MaxGen` = 2 makes slots be reused and generations wrap.  Three slots in
`EnvSched_live` make the order of the circular search matter.  In `Pmap`, the pages
are fewer than two full address spaces need, so every allocation fails in some
state; one environment can fill both directories, or two can share a page.
`MaxRef` bounds the mappings of one page; `LastIndex` = 2 and `TopDir` = 1 stand
for 511 and 3.  `RefWrap` stands for 65536 and is larger than `MaxRef`.  Pages and
environments are interchangeable, so `Least` takes the first free page, and `VIEW
UpToPageNames` and `SYMMETRY` make TLC treat states that differ in names as one.

In `CowFork` nine pages let three environments share one page and then each take a
copy of its own; every allocation may also fail.  Pages are interchangeable and
so are the environments other than the first: `VIEW UpToPageNames` and
`SYMMETRY` make TLC treat such states as one.  `CHECK_DEADLOCK` is off because
all environments may exit or the machine may stop in the monitor.

`Ipc` has two senders at once, each of which may also receive, from the other;
`MaxSends` bounds the calls of each, since a sender may lose for ever against one
that never stops.  33 words in `UxStack` hold the first fault's frame with a
handler and a nested one with its own, and run out in the third.  In `Console`
the ring buffer wraps after three characters, and `MaxUnread` < `CONSBUFSIZE`
keeps it from overflowing.  `Text` has strings up to 3, all lengths and alignments
of `memmove` within 16 bytes, lines longer than their buffers (`BUFLEN`,
`PrintBuf`, `MAXARGS`) and a screen of 3 by 3.  In `Tlb` ranges start anywhere in
the user pages or just above them and cover up to three pages.

Views leave out what is written before it is read again: words below the stack
pointers (`UpToDeadWords`), ring buffer slots already read (`UpToReadSlots`).
`CHECK_DEADLOCK` is off in `Ipc` (all may exit or wait for ever), `Text` (one call),
`Tlb` (all may wait for a message, with a CPU in the monitor) and `Boot` (start-up
ends).

*Fairness.*  In `Ipc`, an environment inside the library keeps executing and a
server calls `ipc_recv` again: the scheduler serves every runnable environment,
which `EnvSched_live` shows.  Nothing is assumed of the other programs, nor of
which of two senders comes first.  `LiveSpec` in `EnvSched` assumes that a CPU inside the kernel keeps executing
(weak fairness of `KernelStep`, including `lock_kernel` while the lock stays
free) and that the periodic LAPIC timer interrupts user code again and again
(strong fairness of `timer_irq`: an interrupt that arrives while the kernel has
interrupts disabled stays pending until the `iret`).  Nothing is assumed about
which spinning CPU wins the lock.  A CPU that always loses the race does not
hurt `RunnableRuns`, because the winner schedules.

*Mutants.*  Each property of a passing run is broken by a faulty variant of a
definition it depends on; the variants stand before the definition in the module
and are listed in `PROJECT.json`.

## 4. Proofs

The theorems hold for every value of the constants that satisfies the `ASSUME`s of
the module, which TLC evaluates on every run.  In each module the same three
steps lead to them: the properties are not inductive one by one, so a stronger
`IInv` is stated, shown to hold initially and to be preserved by every action,
and the properties follow.  Operators that many actions share have lemmas of
their own.

| Module | Theorems | Assumed beyond the constants' `ASSUME`s |
|---|---|---|
| `EnvSchedProofs` | all safety properties of the `EnvSched` runs | `Discipline = FullDiscipline` |
| `PmapProofs` | `MappedNotFree`, `RefCoversMappings`, `TablesWellFormed`, `FailureKeepsMappings` | `"no_self_remap" \in Discipline` |
| `CowForkProofs` | `WritableIsPrivate`, `CanHandleFaults` | -- |
| | `ForkCopiesMemory` | `~ DupMayFail` |
| `IpcProofs` | `MessagesMeet`, `ReadOnlyStays` | -- |
| `TlbProofs` | `TlbCoherent`, `TablesInUse`, `CheckIsExact` | `PaddedText` for the last |
| `UxStackProofs` | `SuspendedIntact`, `FaultsReturn` | `Overrun = FALSE` |
| `ConsoleProofs` | `InputIsTyped`, `ShiftFollowsKeys` | -- |
| `BootProofs` | `SegmentsLoaded`, `FreeIsRam`, `LayoutHolds`, `ProcessorsKnown` | -- |

Each assumption of the last column is needed: section 5 gives the violation
without it.

### 4.1 EnvSched

`EnvSchedProofs` proves, for every number of CPUs, slots and generations and for
every set of calls, under the four `ASSUME`s of `EnvSched` on its constants and
`Discipline = FullDiscipline`, that all the safety properties of the `EnvSched`
runs hold.  The properties are not inductive one by one.  The inductive invariant
`IInv` joins them and adds what they rest on:

* the lock, the `pc` and `cpu_status` of each CPU agree, and start-up is ordered:
  an AP is off until `next_ap` reaches it, and at most one AP is between
  `mpentry` and its report (needed for `OwnKernelStack`);
* a CPU that is not in `OnCpu` or the monitor has no `curenv`, so the scheduler's
  choice of a RUNNABLE slot cannot collide with another CPU;
* a child that its creator has not started has never run: it is neither RUNNING
  nor waiting for a message (needed because `sys_env_set_status` writes the
  status without looking at it);
* while a CPU is in the monitor it holds the lock, so every other CPU is stuck
  before its own `lock_kernel`.

`Invariance` proves `Init => IInv` and `IInv /\ [Next]_vars => IInv'`, with one
lemma for each way out of the kernel (`env_run`, `sched_halt`, `sched_yield`,
`trap_return`) that every handler then cites.  The state properties follow from
`IInv`; the action properties `ZombieFreedByItsCpu` and `EndedBySelfOrCreator`
are proved step by step from the same invariant.

### 4.2 Pmap

`RefAssumption` has `MaxRef` < `RefWrap`: `pp_ref` does not wrap (section 5).  The
order of the free list is free: `First` only chooses among the free pages.  The
invariant is `Good(mem)` with the type of the other variables:

* `Counted`: a page's `pp_ref` is at least the number of entries that point to it,
  and 0 if it is free.  Not "equal": `region_alloc` counts twice, and `env_free`
  loses pages.  `MappedNotFree` follows, and needs it, since `page_decref` decides
  by the count alone.
* `Private`: the page of a table is in no other entry.  It makes the loops of
  `env_free` and a walk that allocates independent of other environments.
* `Closed`: an entry that is present has all the tables above it, so that a walk
  that stops at a missing table misses nothing.

`Good` is shown to be kept by each way the memory changes: an entry filled with a
fresh page (`WalkTables`, for any number of levels), an entry filled or emptied
with its count (`page_insert`, `page_remove`), and all entries of an environment
emptied at once (`Unref`), where the cardinality of the owners of every page is
compared with what is subtracted from its count.  `Starting` adds that loading the
first program has not failed yet while it goes on.

### 4.3 CowFork

Between two calls of the library a page is mapped twice and yet writable:
in `duppage` after the child's mapping and before the parent's is made
copy-on-write, and at `PFTEMP` until it is unmapped.  `Sharing` in `IInv` says
that these are the only exceptions; `Families` (an embryo is built by one parent)
makes the exceptions of different environments disjoint.  `Temp`, `Cursor` and
`Present` say which pages the next call will find.  `Handlers` has the upcall
come before the first copy-on-write page and last as long.  None of this depends
on whether `duppage` fails.

The refinement of `ForkAbs` adds that free pages are zeroed, and `Copies`: how much of
the parent's memory the child has at each point of `fork`, and what `PFTEMP`
holds during a copy.  The parent's memory does not change meanwhile, because a
page it shares is not writable by anybody: that is `Sharing` again.  `start` then
maps to `Fork` of `ForkAbs`, a store to a private page to its store, a whole
`pgfault` to stutters.

### 4.4 Ipc

`IInv` links the two halves: `env_ipc_recving` is set exactly while the library
is blocked, and what `ipc_recv` has loaded is still what the kernel has stored,
since nothing is delivered unless the flag is set.  With it every step is `Meet`,
`Return`, another step of `IpcAbs` or a stutter.  `ReadOnlyStays` is an
action property, proved from the same invariant and the checks of
`sys_ipc_try_send`.

### 4.5 Tlb

`IInv` is `TablesInUse /\ TlbCoherent /\ DirsThere`.  The first two are not inductive alone:
coherence survives a change of a table only because at most one CPU has it loaded,
and that one is the CPU that makes the change.  A CPU in the monitor is the
exception to "loaded tables belong to one that runs": it makes no more calls, and
nobody is left to send to the environment it holds.  `DirsThere` (no page without its
directory) ties what `Walk` sees to what the hardware sees: what `Walk` finds is
there, and with the first directory it misses nothing.  A change that misses an
entry concerns a table without a first directory, so not the caller's own but one
that no CPU has loaded.  `CheckIsExact` is then a statement about
`user_mem_check` for any page size, any number of directories and any range: the
page that the loop stops at is the smallest bad one, and its first byte in the
range, or the start of the range, is the smallest bad byte; the least element exists
by the well-ordering of the naturals.

### 4.6 UxStack

The theorems are about any sizes of the stacks (with room for one frame), any
number of nested faults and handlers with any locals.  `Chain` says what each
fault interrupted, and that the stack pointers go down; `Running` relates a fault
to the code that handles it, by where that code is: where its frame lies, what the
frame holds, and, once the upcall has adjusted it, that the saved `rsp` points
to the free word in which the return address will be.  It must hold not only of
the current handler but of every suspended one (`Suspended`), since a return makes
it the current one.  `Intact` is the property itself; the inductive step shows
that each store is below everything live, the one of the upcall included: it hits
the word that the kernel left free in front of a nested frame, or the user stack
below the interrupted program.

### 4.7 Console

`SizeAssumption` has `MaxUnread` < `CONSBUFSIZE`: the ring buffer never fills up
(section 5).  The invariant relates the bytes that wait to what they were meant
for.  `Chain` runs `kbd_proc_data` over them: each byte, read in the shift state
that the one before leaves, gives the character that was meant by it, and the last
leaves the modifiers as the keys are now.  Pressing or releasing a key adds to the
end of the chain, for which there is one lemma about the tables of scan codes
(`PressDoes`, `ReleaseDoes`); reading a byte takes its head away; neither disturbs
the rest.  `Pairs` (not both Shift keys at once) is needed since one bit stands for
both.  `Room` counts the characters in the ring buffer, in the keyboard and in the serial
port together, and so leaves a slot free for each that is still to come: with it the
contents of the ring buffer are `unread`, wherever it wraps.

### 4.8 Boot

The theorems are about any machine whose data have the types of
`MachinesAssumption`: memory maps, processor tables and kernel images of any
length, memory of any size.  One step per round of a loop is what makes this
possible, for a loop invariant is then an ordinary invariant.

* `SegmentsLoaded`: `SegmentInv` says that the segments read so far are in place.
  A later segment may write into an earlier one's last sector, but, `WellLinked`,
  it writes the same bytes of the file there.
* `LayoutHolds`: `LayoutInv` has the stacks mapped so far and every gap empty,
  `MmioInv` ties the next MMIO address to the number of processors that are up.
  The work is in the addresses: which of the regions a page is in, and that two
  stacks with their gaps do not meet.
* `ProcessorsKnown`: `ProcInv` is the property for the entries read so far, with
  the number of a processor as the cardinality of the usable ones before it.
* `FreeIsRam` needs the whole of start-up.  `FreeInv` joins, in the order of the
  code: `SortInv`, the list has each region once and is sorted by base; `SaneInv`,
  a merged region is made of the regions it replaces, and on a `Regular` machine no byte of what is
  still usable is in a reserved one; `SumInv`, `basemem` and
  `extmem` are the cardinalities of the sets of bytes counted so far, so that with
  RAM without gaps (`RamInv`) they are the ends of it; `MemInv`, pages are counted
  rounding down; `ListInv`, the list is ascending and has the pages that
  `page_init` may give away (`FreePages`), loses some at its front to the tables, and
  is split into two ascending parts and joined again, with each page once
  (`OnceEach`, `Remaining`).  `check_page_alloc` puts back what it took
  (`Reattached`), `page_check` leaves four pages out (`Shortened`), so that from then
  on `Remaining(NTables + 4)` holds.  `PagesMapped` and `NcpuInv` are about the tables
  and MMIO addresses the assertions look at.  `PanicInv` follows: on a regular
  machine with `NTables + 7` pages behind the kernel, `NTables + 6` of them are free,
  so the demands for three and six pages are met, the list still has one above the
  hole after each loss, and every assertion holds but the one about the word at
  address 0.

### 4.9 Only model-checked

* Liveness (`RunnableRuns`, `LockIsReleased`, `SenderGetsThrough`,
  `BlockedIsServed`): the prover does not handle fairness.
* `Text`: its routines are `RECURSIVE`, and what they compute for every input
  would need induction over it.
* `MappedNotFree` after `pp_ref` wraps, and all behaviours of `SpecAny`.

## 5. Where the code departs from its comments

Two runs are violated (`findings` in `PROJECT.json` quotes the comments):

* `Pmap_remap`: `page_insert` of a page over its only mapping frees it and leaves it
  mapped;
* `Ipc_perm`: `env_ipc_perm` is not reset when no page comes (`syscall.c:424`), so
  `ipc_recv` reports the permission of an earlier message; `lib/ipc.c:11` and
  `syscall.c:347` say it is 0 then.

The same models show more.  TLC finds these violated when they are put in place of
the invariants of the run of their module:

* `NumbersPadRight`: `%-4d` of 7 is `---7`; `printfmt.c:116` calls `-` the flag to
  pad on the right;
* `NumbersFillField`: the sign is printed before the padding and not counted, so -7 in
  `%3d` takes four characters; `printfmt.c:13` says a field width is supported;
* `ErrorsHaveText`: the codes 7 (`E_NO_SYS`) and 17 to 21 are printed as numbers;
  `inc/error.h:7` asks to keep the two lists in sync;
* `OneCallPerLine`: `cprintf` empties its buffer when one place is left and makes one
  more call at the end, so 255 characters take two; `lib/printf.c:14-18` says up to
  256 take ONE;
* `FirstErroneousAddress`: for an address at or above `ULIM`, `user_mem_check` names
  the start of the page, in front of the range; `pmap.c:936-937` says the first
  erroneous address;
* `PrintsWhatItChecked` (with `PaddedText` = FALSE): `sys_cputs` reads one byte behind
  the range it has checked, and the kernel panics if it is not mapped;
  `syscall.c:22` says the environment is destroyed on memory errors;
* `SelfTestsGiveBack`: `page_check` takes six pages and frees three
  (`pmap.c:1270-1275`, `pmap.c:1427-1432`); `pp1`, `pp4` and `pp5` are on no list and
  in no table, although `pmap.c:1426` says "give free list back";
* `MappingsCleared`: `boot_pml4e[0]` is 0 from `pmap.c:1424` on, so the walks of
  `pmap.c:1464-1466` return NULL and the three mappings that they are to clear stay;
* `SortStaysInList`: the insertion sort moves elements from one place behind the list
  on (`pmap.c:73`), and with a region to put in front of others the last round
  writes `mmap_list[n]` of `n`.

And these with a configuration changed as given:

* `sys_env_set_status` on a running child makes it run on two CPUs
  (`OneCpuPerEnv`, without `start_once`), although `sched.c:27` says never to
  choose an environment that runs on another CPU;
* destroying a zombie again frees it under the CPU that runs it
  (`ZombieFreedByItsCpu`, without `destroy_once`), although `env.c:507` says it is
  freed when it next traps;
* after an environment ended, the search starts at slot 1, so slot 0 may wait for
  ever (`RunnableRuns` with `exit`); `sched.c:20` says the search starts after the
  environment last run;
* `page_remove` of an empty entry dereferences NULL (`NoPanic`, without
  `unmap_mapped`, under `SpecAny`); `pmap.c:828` says it silently does nothing;
* `env_free` does not give back pages outside the first page directory (`NoLeak`
  with `VAs <- TwoDirs`), a page in the last entry of a table (`LastPage`), nor the
  first program's image, which `region_alloc` counts twice (`BootVAs <- OnePage`);
  `env.c:427` says it frees all memory the environment uses;
* `env_free` of an environment without user memory takes physical page 0 for its
  page of PDPEs and releases it, or panics (`Page0Reserved`, without
  `destroy_nonempty`, under `SpecAny`);
* the child of a `fork` whose `duppage` failed runs with a page missing
  (`ForkCopiesMemory` with `DupMayFail` = TRUE), although `fork.c:121` promises a
  negative result on error;
* `RefCoversMappings` fails once `pp_ref` wraps (`RefWrap` = 3 in `Pmap`);
* a handler whose locals reach below the exception stack page and fault there is
  taken for a first fault (`trap.c:441`) and its frame overwrites the outer one
  (`SuspendedIntact` with `Overrun` = TRUE); `trap.c:419` expects such an overflow
  to destroy the environment;
* `multiboot_read` compares a region with the next one only (`pmap.c:84`), so
  memory that is usable according to one region and reserved according to another
  counts as RAM when a third starts between them: usable `[4,8)` and `[8,24)` with
  reserved `[0,24)` (`FreeIsRam` without `Neighbours` in `Regular`).

Seen while modelling, and part of the models:

* `sys_page_map` never compares `PTE_W` with the source entry, which
  `syscall.c:242` asks for; `sys_ipc_try_send` does.
* A full ring buffer (`CONSBUFSIZE` unread characters) looks empty.
* One bit stands for both Shift keys, and one for both Ctrl keys: releasing one
  releases both.  Ctrl-Home gives no character: `ctlmap` has it at 0x97 and not at
  0xC7.
* In formats, `%d`, `%u`, `%o` and `%x` read 64 bits whatever the argument is; the 0
  of `%.0s` is read as a flag (a `%e` of the smallest int is not tried); the kernel's `cprintf` returns 0,
  since its `putch` advances the pointer instead of the count.  `runcmd` refuses
  the last argument that `MAXARGS` has room for.  DEL on an empty line enters the
  line as a character.
* `user_mem_check` checks one page for a length of 0 at an unaligned address.
* With more than 512 MB, an assertion of `check_boot_pml4e` fails: one table is
  mapped at `UPAGES` while `i386_detect_memory` allows for more.  Holes in memory
  above 1 MB are counted as memory.  `boot_alloc` never panics, although
  `pmap.c:207` says so.
* `cpu_id` is the index in the table and not the APIC id, so a disabled processor
  before the last makes `boot_aps` wait for ever; `bootcpu` is set even for a
  processor that is disabled or beyond `NCPU`; without a table `ncpu` stays 0.
* Each CPU maps the local APIC anew and overwrites the shared pointer; all the
  mappings lead to the same registers, which `LayoutHolds` checks.

## 6. Not modelled

Assembly before `bootmain` (`boot.S`: the memory map from the firmware, the mode
switch) and `bootstrap.S`: no state of the kernel exists yet.  Interrupt
controller, clock and parallel port, APIC registers other than its mapping,
descriptor tables, the saving of registers in `trapentry.S`: hardware I/O and
tables.  The DWARF and ELF readers and `kdebug.c`, used for backtraces: a fifth of
the source, third-party.  The monitor's commands, which only print.  What the
self-tests in `pmap.c` assert of contents, reference counts and translations of
pages they have just written (their effects and their assertions about the list and the
kernel's mappings are in `Boot`).
`ipc_find_env`, a search of a read-only table.  The user test programs, whose use
of the calls justifies the `Discipline` constants.  `components` in `PROJECT.json`
has a line for each.

## 7. Plan

Every safety property of the runs is proved, except those of `Text`.  What could
come next is more of the system: the contents of pages in `Pmap`, so that it could
be composed with `CowFork`, and the parallel port and output devices of the
console.
