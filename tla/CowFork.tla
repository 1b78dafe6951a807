------------------------------ MODULE CowFork ------------------------------
(***************************************************************************)
(* Copy-on-write fork at user level: fork(), duppage() and pgfault() of    *)
(* lib/fork.c, set_pgfault_handler() of lib/pgfault.c, and what the system *)
(* calls they make do to pages and environments.  Each environment is a    *)
(* sequential program; a step is one system call or one access to memory,  *)
(* and the steps of different environments interleave.                     *)
(*                                                                         *)
(* A page holds one value.  The addresses are the pages from UTEXT to end, *)
(* the stack, the exception stack and PFTEMP.                              *)
(***************************************************************************)
EXTENDS Integers

CONSTANTS
  Envs,         \* slots for environments
  Root,         \* the first environment
  Pages,        \* physical pages
  NData,        \* number of pages from UTEXT to end
  Values,       \* contents of a page
  Zero,         \* a page of zeros
  DupMayFail,   \* whether sys_page_map() may fail in duppage()
  Null

Data == 1 .. NData
STACK == 0
PFTEMP == -1
UXSTACK == -2
UserVAs == Data \cup {STACK}
VAs == UserVAs \cup {PFTEMP, UXSTACK}

ASSUME EnvsAssumption == Root \in Envs /\ Null \notin Envs
ASSUME NDataAssumption == NData \in Nat
ASSUME ValuesAssumption == Zero \in Values
ASSUME PagesAssumption == Null \notin Pages
ASSUME NullAssumption == Null \notin [UserVAs -> Values \cup {Null}]
ASSUME DupAssumption == DupMayFail \in BOOLEAN

VARIABLES
  pc,        \* where each environment is
  page,      \* page[e][va]: the page mapped there, or Null
  perm,      \* perm[e][va]: PTE_W, PTE_COW or neither
  content,   \* what each page holds; Zero while it is free
  upcall,    \* the environments with a page fault upcall
  child,     \* fork(): the environment being built
  addr       \* fork(): the loop variable; pgfault(): the faulting page

vars == <<pc, page, perm, content, upcall, child, addr>>

PCs == {"free", "embryo", "user", "panic",
        "pf_alloc", "pf_copy", "pf_map", "pf_unmap",
        "exofork", "duppage", "remap",
        "st_copy", "st_map", "st_unmap", "uxstack", "start"}

Unmapped == [va \in VAs |-> Null]
NoPerms == [va \in VAs |-> "RO"]

(* The first program: load_icode() maps its image and stack writable. *)
Init ==
  /\ pc = [e \in Envs |-> IF e = Root THEN "user" ELSE "free"]
  /\ \E f \in [UserVAs -> Pages] :
       /\ \A v, w \in UserVAs : f[v] = f[w] => v = w
       /\ page = [e \in Envs |-> IF e = Root
                                 THEN [va \in VAs |-> IF va \in UserVAs THEN f[va] ELSE Null]
                                 ELSE Unmapped]
  /\ perm = [e \in Envs |-> IF e = Root
                            THEN [va \in VAs |-> IF va \in UserVAs THEN "W" ELSE "RO"]
                            ELSE NoPerms]
  /\ content = [p \in Pages |-> Zero]
  /\ upcall = {}
  /\ child = [e \in Envs |-> Null]
  /\ addr = [e \in Envs |-> STACK]

----------------------------------------------------------------------------
(* System calls *)

(* Environment e is at l.  After a panic() of some program the kernel monitor
   keeps the kernel lock and everything stops; what others still store until
   their next trap is left out.                                            *)
At(e, l) ==
  /\ pc[e] = l
  /\ \A f \in Envs : pc[f] # "panic"

Mapped(pg, p) == \E e \in Envs, va \in VAs : pg[e][va] = p
Free == {p \in Pages : ~ Mapped(page, p)}

(* page_alloc(ALLOC_ZERO) clears a page when it hands it out.  Nobody can see
   a free page, so the model clears it when its last mapping goes.         *)
Cleared(pg, ct) == [p \in Pages |-> IF Mapped(pg, p) THEN ct[p] ELSE Zero]

Goto(e, l) == pc' = [pc EXCEPT ![e] = l]

(* sys_page_map(): put p at va in e.  Whatever was there loses a mapping. *)
page_map(e, va, p, prm) ==
  /\ page' = [page EXCEPT ![e][va] = p]
  /\ perm' = [perm EXCEPT ![e][va] = prm]
  /\ content' = Cleared(page', content)

(* sys_page_alloc(): a fresh page. *)
page_alloc(e, va, prm) == \E p \in Free : page_map(e, va, p, prm)

(* A call that fails; page tables need memory too, so it may fail while some
   pages are free.  The library panics.                                    *)
panic(e) ==
  /\ Goto(e, "panic")
  /\ UNCHANGED <<page, perm, content, upcall, child, addr>>

----------------------------------------------------------------------------
(* The program itself *)

(* A store to a writable page. *)
write(e, va, v) ==
  /\ At(e, "user")
  /\ page[e][va] # Null /\ perm[e][va] = "W"
  /\ content' = [content EXCEPT ![page[e][va]] = v]
  /\ UNCHANGED <<pc, page, perm, upcall, child, addr>>

(* The program's own calls: a fresh read-only page, or none, at an address. *)
sys_page_alloc(e, va) ==
  /\ At(e, "user")
  /\ page_alloc(e, va, "RO")
  /\ UNCHANGED <<pc, upcall, child, addr>>

sys_page_unmap(e, va) ==
  /\ At(e, "user")
  /\ page[e][va] # Null
  /\ page_map(e, va, Null, "RO")
  /\ UNCHANGED <<pc, upcall, child, addr>>

(* Every mapping of e goes.  The kernel loses some of the pages (NoLeak of
   Pmap); that they can all be used again is the harder case here.         *)
env_free(e) ==
  /\ pc' = [pc EXCEPT ![e] = "free"]
  /\ page' = [page EXCEPT ![e] = Unmapped]
  /\ perm' = [perm EXCEPT ![e] = NoPerms]
  /\ content' = Cleared(page', content)
  /\ upcall' = upcall \ {e}
  /\ child' = [child EXCEPT ![e] = Null]
  /\ addr' = [addr EXCEPT ![e] = STACK]

exit(e) ==
  /\ At(e, "user")
  /\ env_free(e)

(* A store to any other page: page_fault_handler() destroys an environment
   without upcall or exception stack, and calls pgfault() in the others, which
   goes on if the page is copy-on-write.                                   *)
page_fault_handler(e, va) ==
  /\ At(e, "user")
  /\ page[e][va] = Null \/ perm[e][va] # "W"
  /\ IF e \notin upcall \/ page[e][UXSTACK] = Null \/ perm[e][UXSTACK] # "W"
     THEN env_free(e)
     ELSE IF page[e][va] # Null /\ perm[e][va] = "COW"
          THEN /\ Goto(e, "pf_alloc")
               /\ addr' = [addr EXCEPT ![e] = va]
               /\ UNCHANGED <<page, perm, content, upcall, child>>
          ELSE panic(e)

----------------------------------------------------------------------------
(* pgfault() *)

pgfault_alloc(e) ==
  /\ At(e, "pf_alloc")
  /\ \/ /\ page_alloc(e, PFTEMP, "W")
        /\ Goto(e, "pf_copy")
        /\ UNCHANGED <<upcall, child, addr>>
     \/ panic(e)

(* Faulty variant: the copy is forgotten. *)
pgfault_copy_Nothing(e) ==
  /\ At(e, "pf_copy")
  /\ Goto(e, "pf_map")
  /\ UNCHANGED <<page, perm, content, upcall, child, addr>>

pgfault_copy(e) ==
  /\ At(e, "pf_copy")
  /\ content' = [content EXCEPT ![page[e][PFTEMP]] = content[page[e][addr[e]]]]
  /\ Goto(e, "pf_map")
  /\ UNCHANGED <<page, perm, upcall, child, addr>>

pgfault_map(e) ==
  /\ At(e, "pf_map")
  /\ page_map(e, addr[e], page[e][PFTEMP], "W")
  /\ Goto(e, "pf_unmap")
  /\ UNCHANGED <<upcall, child, addr>>

(* The faulting store is executed again. *)
pgfault_unmap(e) ==
  /\ At(e, "pf_unmap")
  /\ page_map(e, PFTEMP, Null, "RO")
  /\ Goto(e, "user")
  /\ addr' = [addr EXCEPT ![e] = STACK]
  /\ UNCHANGED <<upcall, child>>

----------------------------------------------------------------------------
(* fork() *)

(* set_pgfault_handler(): an exception stack and the upcall, the first time. *)
fork(e) ==
  /\ At(e, "user")
  /\ IF e \in upcall
     THEN /\ Goto(e, "exofork")
          /\ UNCHANGED <<page, perm, content, upcall, child, addr>>
     ELSE \/ /\ page_alloc(e, UXSTACK, "W")
             /\ upcall' = upcall \cup {e}
             /\ Goto(e, "exofork")
             /\ UNCHANGED <<child, addr>>
          \/ panic(e)

(* sys_exofork(); fork() returns an error if it fails. *)
exofork(e) ==
  /\ At(e, "exofork")
  /\ \/ \E c \in Envs :
          /\ pc[c] = "free"
          /\ pc' = [pc EXCEPT ![e] = "duppage", ![c] = "embryo"]
          /\ child' = [child EXCEPT ![e] = c]
          /\ addr' = [addr EXCEPT ![e] = 1]
     \/ /\ Goto(e, "user")
        /\ UNCHANGED <<child, addr>>
  /\ UNCHANGED <<page, perm, content, upcall>>

NextPage(e) == addr' = [addr EXCEPT ![e] = @ + 1]

(* fork()'s loop and the first half of duppage(): share the page with the
   child.  The loop ignores a failure and goes on.                         *)
duppage(e) ==
  /\ At(e, "duppage") /\ addr[e] \in Data
  /\ LET va == addr[e]
     IN \/ /\ page[e][va] # Null /\ perm[e][va] \in {"W", "COW"}
           /\ page_map(child[e], va, page[e][va], "COW")
           /\ Goto(e, "remap")
           /\ UNCHANGED addr
        \/ /\ page[e][va] # Null /\ perm[e][va] = "RO"
           /\ page_map(child[e], va, page[e][va], "RO")
           /\ NextPage(e)
           /\ UNCHANGED pc
        \/ /\ page[e][va] = Null \/ DupMayFail
           /\ NextPage(e)
           /\ UNCHANGED <<pc, page, perm, content>>
  /\ UNCHANGED <<upcall, child>>

(* Faulty variant: the parent keeps its page writable. *)
remap_Writable(e) ==
  /\ At(e, "remap")
  /\ NextPage(e)
  /\ Goto(e, "duppage")
  /\ UNCHANGED <<page, perm, content, upcall, child>>

(* The second half of duppage(): the parent's page becomes copy-on-write. *)
remap(e) ==
  /\ At(e, "remap")
  /\ page_map(e, addr[e], page[e][addr[e]], "COW")
  /\ NextPage(e)
  /\ Goto(e, "duppage")
  /\ UNCHANGED <<upcall, child>>

(* The stack is copied through PFTEMP. *)
stack_alloc(e) ==
  /\ At(e, "duppage") /\ addr[e] \notin Data
  /\ \/ /\ page_alloc(e, PFTEMP, "W")
        /\ Goto(e, "st_copy")
        /\ UNCHANGED <<upcall, child, addr>>
     \/ panic(e)

stack_copy(e) ==
  /\ At(e, "st_copy")
  /\ content' = [content EXCEPT ![page[e][PFTEMP]] = content[page[e][STACK]]]
  /\ Goto(e, "st_map")
  /\ UNCHANGED <<page, perm, upcall, child, addr>>

stack_map(e) ==
  /\ At(e, "st_map")
  /\ \/ /\ page_map(child[e], STACK, page[e][PFTEMP], "W")
        /\ Goto(e, "st_unmap")
        /\ UNCHANGED <<upcall, child, addr>>
     \/ panic(e)

stack_unmap(e) ==
  /\ At(e, "st_unmap")
  /\ page_map(e, PFTEMP, Null, "RO")
  /\ Goto(e, "uxstack")
  /\ UNCHANGED <<upcall, child, addr>>

(* The child's exception stack is a page of its own. *)
uxstack_alloc(e) ==
  /\ At(e, "uxstack")
  /\ \/ /\ page_alloc(child[e], UXSTACK, "W")
        /\ Goto(e, "start")
        /\ UNCHANGED <<upcall, child, addr>>
     \/ panic(e)

(* Faulty variant: the child has no upcall. *)
start_NoUpcall(e) ==
  /\ At(e, "start")
  /\ pc' = [pc EXCEPT ![e] = "user", ![child[e]] = "user"]
  /\ child' = [child EXCEPT ![e] = Null]
  /\ addr' = [addr EXCEPT ![e] = STACK]
  /\ UNCHANGED <<page, perm, content, upcall>>

(* sys_env_set_pgfault_upcall(child), then sys_env_set_status(child,
   ENV_RUNNABLE): both environments return from fork().                    *)
start(e) ==
  /\ At(e, "start")
  /\ pc' = [pc EXCEPT ![e] = "user", ![child[e]] = "user"]
  /\ child' = [child EXCEPT ![e] = Null]
  /\ upcall' = upcall \cup {child[e]}
  /\ addr' = [addr EXCEPT ![e] = STACK]
  /\ UNCHANGED <<page, perm, content>>

----------------------------------------------------------------------------
Next ==
  \E e \in Envs :
    \/ \E va \in UserVAs, v \in Values : write(e, va, v)
    \/ \E va \in UserVAs : page_fault_handler(e, va)
    \/ \E va \in Data : sys_page_alloc(e, va) \/ sys_page_unmap(e, va)
    \/ exit(e)
    \/ pgfault_alloc(e) \/ pgfault_copy(e) \/ pgfault_map(e) \/ pgfault_unmap(e)
    \/ fork(e) \/ exofork(e) \/ duppage(e) \/ remap(e)
    \/ stack_alloc(e) \/ stack_copy(e) \/ stack_map(e) \/ stack_unmap(e)
    \/ uxstack_alloc(e) \/ start(e)

Spec == Init /\ [][Next]_vars

----------------------------------------------------------------------------
(* Properties *)

(* Every variable has its type; the loop of fork() stops right after the last
   page before end.                                                        *)
TypeOK ==
  /\ pc \in [Envs -> PCs]
  /\ page \in [Envs -> [VAs -> Pages \cup {Null}]]
  /\ perm \in [Envs -> [VAs -> {"W", "COW", "RO"}]]
  /\ content \in [Pages -> Values]
  /\ upcall \subseteq Envs
  /\ child \in [Envs -> Envs \cup {Null}]
  /\ addr \in [Envs -> 0 .. NData + 1]

(* While a program runs its own code, a page it can write is mapped nowhere
   else: neither by another environment nor at a second address.           *)
WritableIsPrivate ==
  \A e, f \in Envs, v, w \in VAs :
    /\ pc[e] = "user"
    /\ page[e][v] # Null /\ perm[e][v] = "W"
    /\ page[f][w] = page[e][v]
    => e = f /\ v = w

(* A running environment that shares a page copy-on-write can handle the fault
   it will take: it has an upcall and a writable exception stack.  (The type
   invariant is part of it.)                                               *)
CanHandleFaults ==
  TypeOK /\ \A e \in Envs : pc[e] # "embryo" /\ (\E va \in VAs : page[e][va] # Null /\ perm[e][va] = "COW") =>
    /\ e \in upcall
    /\ page[e][UXSTACK] # Null
    /\ perm[e][UXSTACK] = "W"

(* The memory a running program sees. *)
View(e) == [va \in UserVAs |->
              IF page[e][va] = Null THEN Null ELSE content[page[e][va]]]

(* fork() is as good as a copy: the child starts with its parent's memory, no
   environment sees another's writes, and neither fork() nor pgfault() changes
   anyone's memory.                                                        *)
Abs == INSTANCE ForkAbs WITH
  VAs <- UserVAs,
  mem <- [e \in Envs |-> IF pc[e] \in {"free", "embryo"} THEN Null ELSE View(e)],
  lib <- {e \in Envs : pc[e] \notin {"free", "embryo", "user"}}

ForkCopiesMemory == Abs!Spec
=============================================================================
