-------------------------------- MODULE Tlb ---------------------------------
(***************************************************************************)
(* Address translation on several processors: the page tables of the       *)
(* environments in memory, the translation caches (TLBs) of the processors, *)
(* and the check of user memory before the kernel reads it.                *)
(*                                                                         *)
(* A TLB keeps what the hardware once read from a page table until invlpg() *)
(* or lcr3() on the SAME processor.  tlb_invalidate() in kern/pmap.c flushes *)
(* the processor that changes a table and no other, so whether translations *)
(* go stale depends on who changes whose tables while who is running.      *)
(*                                                                         *)
(* System calls are atomic: the big kernel lock is held throughout, and user *)
(* code on other processors does not walk the tables they change.  Of the   *)
(* levels of a page table there are the pages and the page directories,     *)
(* whose absence misleads the walks of the kernel (Pmap has the others); the *)
(* scheduler picks any runnable environment (EnvSched has its order).      *)
(***************************************************************************)
EXTENDS Integers, FiniteSets

CONSTANTS
  CPU, Env,
  NUser,      \* pages below ULIM
  DIRPAGES,   \* pages that one page directory covers
  Frame,      \* physical pages for user data
  PGSIZE,     \* bytes in a page
  PaddedText, \* whether the byte behind every text that is printed is mapped
  NoEnv       \* a null environment; as a value of cr3, boot_pml4e

ASSUME TlbAssumption == /\ NUser \in Nat \ {0} /\ PGSIZE \in Nat \ {0}
                        /\ DIRPAGES \in Nat \ {0}
                        /\ NoEnv \notin Env /\ PaddedText \in BOOLEAN
                        /\ "none" \notin Frame

VARIABLES
  pt,         \* pt[e][p]: the entry of user page p in e's page table
  dirs,       \* dirs[e]: the page directories there are in e's page table
  parent,     \* env_parent_id
  status,     \* env_status; ENV_NOT_RUNNABLE is "new" before the first run and
              \* "recv" in sys_ipc_recv()
  curenv,     \* curenv of each processor
  cr3,        \* the page table each processor has loaded
  tlb,        \* tlb[c][p]: what processor c has cached for page p
  monitor,    \* a processor stays in the monitor for ever, holding the lock
  kfault      \* the kernel has faulted on user memory

processors == <<curenv, cr3, tlb, monitor>>
vars == <<pt, dirs, parent, status, processors, kfault>>

Page == 0 .. NUser - 1
Dir(p) == p \div DIRPAGES
Dirs == {Dir(p) : p \in Page}
None == [pa |-> "none", w |-> FALSE]
Entry == {None} \cup [pa : Frame, w : BOOLEAN]
Empty == [p \in Page |-> None]
Status == {"free", "new", "recv", "runnable", "running", "dying"}
FreeFrames == {f \in Frame : \A e \in Env, p \in Page : pt[e][p].pa # f}

(* Processor c executes user code. *)
InUser(c) == curenv[c] # NoEnv /\ status[curenv[c]] \in {"running", "dying"}

(* A program's text is at UTEXT, in the first directory, and its stack in the
   last one.                                                               *)
Init ==
  \E e \in Env, c \in CPU :
    /\ pt = [x \in Env |-> Empty] /\ parent = [x \in Env |-> NoEnv]
    /\ dirs = [x \in Env |-> IF x = e THEN {0, Dir(NUser - 1)} ELSE {}]
    /\ status = [x \in Env |-> IF x = e THEN "running" ELSE "free"]
    /\ curenv = [x \in CPU |-> IF x = c THEN e ELSE NoEnv] /\ cr3 = curenv
    /\ tlb = [x \in CPU |-> Empty] /\ monitor = FALSE /\ kfault = FALSE

----------------------------------------------------------------------------
(* The hardware *)

(* What an access to page p on processor c leaves in its TLB: a hit, or the
   entry of the loaded table; None is a page fault.                        *)
Translate(c, p, write) ==
  LET hit == tlb[c][p] IN
  IF hit # None /\ (write => hit.w) THEN hit
  ELSE LET e == pt[cr3[c]][p] IN IF write => e.w THEN e ELSE None

(* User code on c touches page p (or the processor does, ahead of it). *)
access(c, p, write) ==
  /\ InUser(c) /\ Translate(c, p, write) # None
  /\ tlb' = [tlb EXCEPT ![c][p] = Translate(c, p, write)]
  /\ UNCHANGED <<pt, dirs, parent, status, curenv, cr3, monitor, kfault>>

----------------------------------------------------------------------------
(* kern/pmap.c *)

(* Faulty variant: the test is for a processor without an environment only. *)
tlb_invalidate_Idle(c, e, p) ==
  IF curenv[c] = NoEnv THEN [tlb EXCEPT ![c][p] = None] ELSE tlb

tlb_invalidate(c, e, p) ==
  IF curenv[c] \in {NoEnv, e} THEN [tlb EXCEPT ![c][p] = None] ELSE tlb

(* pml4e_walk(va, 0): the entry of page p, where the kernel finds it: a walk that
   creates nothing gives up if the first directory is missing, whichever it
   needs.                                                                  *)
Walk(e, p) ==
  IF p \in Page /\ {0, Dir(p)} \subseteq dirs[e] THEN pt[e][p] ELSE None

(* page_insert() removes a present page first, and so flushes it, if the walk of
   page_remove() finds it.                                                 *)
page_insert(c, e, p, f, w) ==
  /\ pt' = [pt EXCEPT ![e][p] = [pa |-> f, w |-> w]]
  /\ dirs' = [dirs EXCEPT ![e] = @ \cup {Dir(p)}]
  /\ tlb' = IF Walk(e, p) # None THEN tlb_invalidate(c, e, p) ELSE tlb

(* page_insert() without memory for the tables: the directory may be there. *)
insert_fails(e, p) ==
  /\ dirs' \in {dirs, [dirs EXCEPT ![e] = @ \cup {Dir(p)}]}
  /\ UNCHANGED <<pt, tlb>>

page_remove(c, e, p) ==
  IF Walk(e, p) # None
  THEN /\ pt' = [pt EXCEPT ![e][p] = None]
       /\ tlb' = tlb_invalidate(c, e, p)
  ELSE UNCHANGED <<pt, tlb>>

(* user_mem_check() of [va, va + len) against e's table, for ranges that do not
   wrap around the address space: the first bad address, or -1.             *)
PageOf(a) == a \div PGSIZE
PagesTested(va, len) == PageOf(va) .. PageOf(va + len + PGSIZE - 1) - 1
BadPage(e, p, write) == p >= NUser \/ Walk(e, p) = None \/ (write /\ ~ Walk(e, p).w)

(* Faulty variant: the end is rounded down. *)
user_mem_check_Down(e, va, len, write) ==
  LET bad == {p \in PageOf(va) .. PageOf(va + len) - 1 : BadPage(e, p, write)} IN
  IF bad = {} THEN -1
  ELSE LET p == CHOOSE p \in bad : \A q \in bad : p <= q IN p * PGSIZE

user_mem_check(e, va, len, write) ==
  LET bad == {p \in PagesTested(va, len) : BadPage(e, p, write)} IN
  IF bad = {} THEN -1
  ELSE LET p == CHOOSE p \in bad : \A q \in bad : p <= q
       IN IF p < NUser /\ p * PGSIZE < va THEN va ELSE p * PGSIZE

----------------------------------------------------------------------------
(* kern/sched.c, kern/env.c: st is the status so far in the call, and cur what
   curenv is, NULL after env_free(curenv), which has loaded boot_pml4e.     *)

(* curenv is set, and lcr3() loads its tables or boot_pml4e, with nothing cached. *)
load(c, e) ==
  /\ curenv' = [curenv EXCEPT ![c] = e]
  /\ cr3' = [cr3 EXCEPT ![c] = e]
  /\ tlb' = [tlb EXCEPT ![c] = Empty]

env_run(c, e, st, cur) ==
  /\ status' = [x \in Env |-> IF x = e THEN "running"
                              ELSE IF x = cur /\ st[x] = "running" THEN "runnable"
                              ELSE st[x]]
  /\ load(c, e)
  /\ UNCHANGED monitor

(* If nothing can run, not even elsewhere, the processor stays in the monitor, with
   curenv and its tables as they are.                                      *)
NothingRuns(st) == \A e \in Env : st[e] \notin {"runnable", "running", "dying"}
sched_halt(c, st, cur) ==
  /\ status' = st
  /\ IF NothingRuns(st) /\ cur # NoEnv THEN UNCHANGED <<curenv, cr3, tlb>> ELSE load(c, NoEnv)
  /\ monitor' = (monitor \/ NothingRuns(st))

sched_yield(c, st, cur) ==
  \/ \E e \in Env : st[e] = "runnable" /\ env_run(c, e, st, cur)
  \/ /\ \A e \in Env : st[e] # "runnable"
     /\ IF cur # NoEnv /\ st[cur] = "running"
        THEN env_run(c, cur, st, cur) ELSE sched_halt(c, st, cur)

(* env_free(): every page is removed; a processor that frees its own
   environment has left its tables, and goes on to sched_yield().  A frame that
   env_free() loses (see Pmap) may be used again here.                     *)
env_free(c, e) ==
  /\ pt' = [pt EXCEPT ![e] = Empty]
  /\ dirs' = [dirs EXCEPT ![e] = {}]
  /\ parent' = [x \in Env |-> IF e \in {x, parent[x]} THEN NoEnv ELSE parent[x]]
  /\ LET st == [status EXCEPT ![e] = "free"] IN
     IF curenv[c] = e THEN sched_yield(c, st, NoEnv)
                      ELSE status' = st /\ UNCHANGED processors

(* Faulty variant: an environment that runs elsewhere is freed at once. *)
env_destroy_AtOnce(c, e) == env_free(c, e)

env_destroy(c, e) ==
  IF status[e] = "running" /\ curenv[c] # e
  THEN status' = [status EXCEPT ![e] = "dying"] /\ UNCHANGED <<pt, dirs, parent, processors>>
  ELSE env_free(c, e)

----------------------------------------------------------------------------
(* System calls and interrupts.  A zombie only gets as far as trap(). *)

Up == ~ monitor /\ ~ kfault

(* A program calls from its text, so there is a first directory. *)
Calls(c) == Up /\ InUser(c) /\ status[curenv[c]] = "running" /\ 0 \in dirs[curenv[c]]

(* Without one its first instruction faults, and it is destroyed, whether it has
   an upcall or not.                                                       *)
page_fault(c) ==
  /\ Up /\ InUser(c) /\ status[curenv[c]] = "running" /\ 0 \notin dirs[curenv[c]]
  /\ env_destroy(c, curenv[c])
  /\ UNCHANGED kfault

(* Whose mappings user code changes: its own, and those of a child it has
   forked and not yet started (lib/fork.c).                                *)
Target(c) == {curenv[c]} \cup {e \in Env : parent[e] = curenv[c] /\ status[e] = "new"}

sys_page_alloc(c, e, p, w) ==
  /\ Calls(c) /\ e \in Target(c)
  /\ (\E f \in FreeFrames : page_insert(c, e, p, f, w)) \/ insert_fails(e, p)
  /\ UNCHANGED <<parent, status, curenv, cr3, monitor, kfault>>

sys_page_map(c, se, sp, de, dp, w) ==
  /\ Calls(c) /\ {se, de} \subseteq Target(c) /\ Walk(se, sp) # None
  /\ page_insert(c, de, dp, Walk(se, sp).pa, w) \/ insert_fails(de, dp)
  /\ UNCHANGED <<parent, status, curenv, cr3, monitor, kfault>>

sys_page_unmap(c, e, p) ==
  /\ Calls(c) /\ e \in Target(c) /\ pt[e][p] # None
  /\ page_remove(c, e, p)
  /\ UNCHANGED <<dirs, parent, status, curenv, cr3, monitor, kfault>>

sys_exofork(c) ==
  /\ Calls(c)
  /\ \E e \in Env : /\ status[e] = "free"
                    /\ status' = [status EXCEPT ![e] = "new"]
                    /\ parent' = [parent EXCEPT ![e] = curenv[c]]
  /\ UNCHANGED <<pt, dirs, processors, kfault>>

sys_env_set_status(c, e) ==
  /\ Calls(c) /\ e \in Target(c) /\ status[e] = "new"
  /\ status' = [status EXCEPT ![e] = "runnable"]
  /\ UNCHANGED <<pt, dirs, parent, processors, kfault>>

sys_ipc_recv(c) ==
  /\ Calls(c)
  /\ sched_yield(c, [status EXCEPT ![curenv[c]] = "recv"], curenv[c])
  /\ UNCHANGED <<pt, dirs, parent, kfault>>

(* A page is sent; without memory for the tables nothing is delivered. *)
sys_ipc_try_send(c, e, sp, dp, w) ==
  /\ Calls(c) /\ status[e] = "recv" /\ Walk(curenv[c], sp) # None
  /\ w => Walk(curenv[c], sp).w
  /\ \/ /\ page_insert(c, e, dp, Walk(curenv[c], sp).pa, w)
        /\ status' = [status EXCEPT ![e] = "runnable"]
     \/ insert_fails(e, dp) /\ UNCHANGED status
  /\ UNCHANGED <<parent, curenv, cr3, monitor, kfault>>

sys_env_destroy(c, e) ==
  /\ Calls(c) /\ (e = curenv[c] \/ parent[e] = curenv[c]) /\ status[e] # "dying"
  /\ env_destroy(c, e)
  /\ UNCHANGED kfault

(* sys_cputs(): check len bytes, then print with "%.*s" through this processor's
   TLB.  vprintfmt() loads a byte before it looks at the precision, so it reads up
   to the NUL at va + nul or, if there is none, the byte at va + len too.  The
   library prints from buffers in which that byte exists (PaddedText).      *)
Filled(c, pages) ==
  [tlb EXCEPT ![c] = [p \in Page |-> IF p \in pages THEN Translate(c, p, FALSE) ELSE @[p]]]
sys_cputs(c, va, len, nul) ==
  /\ Calls(c) /\ nul <= len
  /\ LET read == {PageOf(a) : a \in va .. va + nul} IN
     IF user_mem_check(curenv[c], va, len, FALSE) # -1
     THEN env_destroy(c, curenv[c]) /\ UNCHANGED kfault
     ELSE /\ PaddedText => Walk(curenv[c], PageOf(va + len)) # None
          /\ kfault' = \E p \in read : p \notin Page \/ Translate(c, p, FALSE) = None
          /\ tlb' = Filled(c, read \cap Page)
          /\ UNCHANGED <<pt, dirs, parent, status, curenv, cr3, monitor>>

(* The timer, on a processor that runs or is halted; trap() frees a zombie. *)
timer(c) ==
  /\ Up
  /\ IF curenv[c] # NoEnv /\ status[curenv[c]] = "dying" THEN env_free(c, curenv[c])
     ELSE sched_yield(c, status, curenv[c]) /\ UNCHANGED <<pt, dirs, parent>>
  /\ UNCHANGED kfault

Next ==
  \E c \in CPU :
    \/ \E p \in Page, b \in BOOLEAN : access(c, p, b)
    \/ \E e \in Env, p \in Page, b \in BOOLEAN : sys_page_alloc(c, e, p, b)
    \/ \E se, de \in Env, sp, dp \in Page, b \in BOOLEAN : sys_page_map(c, se, sp, de, dp, b)
    \/ \E e \in Env, p \in Page : sys_page_unmap(c, e, p)
    \/ sys_exofork(c)
    \/ \E e \in Env : sys_env_set_status(c, e)
    \/ sys_ipc_recv(c)
    \/ \E e \in Env, sp, dp \in Page, b \in BOOLEAN : sys_ipc_try_send(c, e, sp, dp, b)
    \/ \E e \in Env : sys_env_destroy(c, e)
    \/ \E va \in 0 .. (NUser + 1) * PGSIZE, len, nul \in 0 .. 2 * PGSIZE :
         sys_cputs(c, va, len, nul)
    \/ page_fault(c)
    \/ timer(c)

Spec == Init /\ [][Next]_vars

----------------------------------------------------------------------------
(* Properties *)

(* The variables have their types. *)
TypeOK ==
  /\ pt \in [Env -> [Page -> Entry]] /\ dirs \in [Env -> SUBSET Dirs]
  /\ parent \in [Env -> Env \cup {NoEnv}]
  /\ status \in [Env -> Status] /\ curenv \in [CPU -> Env \cup {NoEnv}]
  /\ cr3 = curenv /\ tlb \in [CPU -> [Page -> Entry]]
  /\ monitor \in BOOLEAN /\ kfault \in BOOLEAN

(* No processor has a stale translation that could be used: what a TLB holds is
   in the loaded page table, with at least its permissions.  tlb_invalidate()
   need not reach other processors as long as user code changes only tables that
   no other processor has loaded.                                          *)
TlbCoherent ==
  \A c \in CPU, p \in Page :
    tlb[c][p] # None =>
      /\ cr3[c] # NoEnv
      /\ tlb[c][p].pa = pt[cr3[c]][p].pa
      /\ tlb[c][p].w => pt[cr3[c]][p].w

(* No processor runs on page tables that have been freed, and no two on the
   same: env_free() hands the tables to the allocator.  The environment they
   belong to is running, or has been ended elsewhere meanwhile, or waits for a
   message that nobody is left to send, with the processor in the monitor.  (The
   type invariant is part of it.)                                          *)
TablesInUse ==
  TypeOK /\ \A c \in CPU : cr3[c] # NoEnv =>
    /\ \/ status[cr3[c]] \in {"running", "dying"}
       \/ monitor /\ status[cr3[c]] = "recv"
    /\ \A d \in CPU : cr3[d] = cr3[c] => d = c

Bytes == 0 .. (NUser + 1) * PGSIZE       \* the addresses tried
Accessible(e, a, write) ==
  PageOf(a) \in Page /\ pt[e][PageOf(a)] # None /\ (write => pt[e][PageOf(a)].w)

(* What user_mem_check() lets through, of whatever environment, is accessible to
   the last byte.  So the kernel prints what it has checked without a page fault,
   which trap() would panic on.                                            *)
CheckIsSound ==
  ~ kfault /\ \A e \in Env, va \in Bytes, len \in 0 .. 2 * PGSIZE, write \in BOOLEAN :
    user_mem_check(e, va, len, write) = -1 =>
      \A a \in va .. va + len - 1 : Accessible(e, a, write)

(* And of an environment that calls it refuses nothing else: it returns 0 exactly
   when every byte is accessible, and otherwise names the first byte that is not,
   or the start of its page from ULIM on (see FirstErroneousAddress).  An empty
   range that does not begin a page counts as one byte.                    *)
Tested(va, len) == va .. va + len - (IF len = 0 /\ va % PGSIZE # 0 THEN 0 ELSE 1)
CheckIsExact ==
  CheckIsSound /\ \A c \in CPU : Calls(c) =>
    \A va \in Bytes, len \in 0 .. 2 * PGSIZE, write \in BOOLEAN :
      LET bad == {a \in Tested(va, len) : ~ Accessible(curenv[c], a, write)}
          r == user_mem_check(curenv[c], va, len, write)
      IN IF bad = {} THEN r = -1
         ELSE IF va < NUser * PGSIZE THEN r \in bad /\ \A a \in bad : r <= a
         ELSE r = PageOf(va) * PGSIZE

(* kern/pmap.c:936-937: on an error user_mem_check_addr is the first erroneous
   address.  From ULIM on it is the start of the page, which need not be in the
   range.                                                                  *)
FirstErroneousAddress ==
  \A c \in CPU, va \in Bytes, len \in 1 .. 2 * PGSIZE :
    LET r == user_mem_check(curenv[c], va, len, FALSE) IN
    Calls(c) => r = -1 \/ r \in va .. va + len - 1

(* kern/syscall.c:21-22: sys_cputs() prints a string of exactly len characters and
   destroys the environment on memory errors.  It loads one byte more than it has
   checked, and the kernel panics if that byte is not mapped.              *)
PrintsWhatItChecked == ~ kfault
=============================================================================
