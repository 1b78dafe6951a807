------------------------------ MODULE UxStack ------------------------------
(***************************************************************************)
(* The user exception stack: page_fault_handler() of kern/trap.c pushes a  *)
(* frame and starts the upcall, _pgfault_upcall of lib/pfentry.S calls the *)
(* C handler and returns to the interrupted code through the interrupted   *)
(* stack.  A handler may fault again, and so may the upcall itself when it *)
(* stores to a user stack whose page the program has mapped read-only; fork() *)
(* of lib/fork.c copies the stack and leaves it writable.                  *)
(*                                                                         *)
(* Memory is a row of words: the user stack, a gap, the page of the        *)
(* exception stack.  Three registers stand for the fifteen that are saved: *)
(* the two the upcall works with and the frame pointer.                    *)
(***************************************************************************)
EXTENDS Integers, Sequences

CONSTANTS
  NU,        \* words of the user stack
  NX,        \* words of the exception stack page
  Locals,    \* numbers of words of local variables a handler may have
  Overrun,   \* whether the locals may reach below the exception stack page
  Values     \* what registers and words may hold

ASSUME LocalsAssumption == Locals \subseteq Nat /\ Overrun \in BOOLEAN
ASSUME ValuesAssumption == Values \subseteq Nat

USTACKTOP == NU + 1            \* the user stack is 1 .. NU
UXBASE == NU + 100             \* UXSTACKTOP - PGSIZE
UXSTACKTOP == UXBASE + NX
UserStack == 1 .. NU
UxPage == UXBASE .. UXSTACKTOP - 1
Addrs == UserStack \cup UxPage

(* struct UTrapframe, in words. *)
utf_fault_va == 0
utf_err == 1
utf_rbp == 2
utf_rbx == 3
utf_rax == 4
utf_rip == 5
utf_eflags == 6
utf_rsp == 7
FrameSize == 8

ASSUME SizesAssumption == NU \in Nat \ {0} /\ NX \in Nat /\ NX >= FrameSize

(* Code addresses: two of the program, those of the upcall and the handler. *)
UserCode == {-1, -2}
UPCALL == -3
PROLOGUE == -4
BODY == -5
LEAVE == -6
AFTER == -7    \* after the call of the handler
STORE == -8    \* movq %rax, (%rbx)
POP == -9
DEAD == -10
Codes == UserCode \cup {UPCALL, PROLOGUE, BODY, LEAVE, AFTER, STORE, POP, DEAD}

(* Fault addresses: a page of data, the user stack, the page below either
   stack.                                                                  *)
DATA == 11
STACK == 12
GUARD == 13

VARIABLES
  cpu,      \* the registers
  mem,      \* the words of the two stacks
  readonly, \* whether the user stack is mapped without PTE_W
  uxpage,   \* whether the exception stack page is mapped
  upcall,   \* whether env_pgfault_upcall is set
  ctx       \* history: what each fault that has not returned interrupted

vars == <<cpu, mem, readonly, uxpage, upcall, ctx>>

(* The registers of code at r with stack pointer sp: no two hold the same. *)
Registers(r, sp, v) ==
  [rip |-> r, rsp |-> sp, rax |-> v, rbx |-> v + 20, rbp |-> v + 30, fl |-> v]

Init ==
  /\ \E v \in Values :
       cpu = [rip |-> -1, rsp |-> USTACKTOP, rax |-> v, rbx |-> v, rbp |-> v, fl |-> v]
  /\ mem = [a \in Addrs |-> 0]
  /\ readonly = FALSE /\ uxpage = FALSE /\ upcall = FALSE
  /\ ctx = <<>>

At(rip) == cpu.rip = rip

----------------------------------------------------------------------------
(* The kernel *)

(* What is on the exception stack after a fault with the frame at new_rsp. *)
Frame(new_rsp, va) ==
  LET word(i) == CASE i = utf_fault_va -> va
                   [] i = utf_err -> 0
                   [] i = utf_rbp -> cpu.rbp
                   [] i = utf_rbx -> cpu.rbx
                   [] i = utf_rax -> cpu.rax
                   [] i = utf_rip -> cpu.rip
                   [] i = utf_eflags -> cpu.fl
                   [] i = utf_rsp -> cpu.rsp
  IN [a \in DOMAIN mem |-> IF a \in new_rsp .. new_rsp + FrameSize - 1
                           THEN word(a - new_rsp) ELSE mem[a]]

Nested == UXBASE <= cpu.rsp /\ cpu.rsp <= UXSTACKTOP - 1

(* Faulty variant: every frame at the top. *)
FrameAt_Top == UXSTACKTOP - FrameSize

(* Where the frame goes; a nested fault leaves one word free. *)
FrameAt == IF Nested THEN cpu.rsp - 1 - FrameSize ELSE UXSTACKTOP - FrameSize

(* user_mem_assert() of one byte for writing; below UXBASE nothing is mapped. *)
user_mem_ok(a) == uxpage /\ a \in UxPage

page_fault_handler(va) ==
  /\ cpu.rip # DEAD
  /\ IF upcall /\ user_mem_ok(FrameAt)
     THEN /\ mem' = Frame(FrameAt, va)
          /\ ctx' = Append(ctx, [cpu |-> cpu, mem |-> mem])
          /\ cpu' = [cpu EXCEPT !.rip = UPCALL, !.rsp = FrameAt]
     ELSE /\ cpu' = [cpu EXCEPT !.rip = DEAD]      \* env_destroy()
          /\ UNCHANGED <<mem, ctx>>
  /\ UNCHANGED <<readonly, uxpage, upcall>>

----------------------------------------------------------------------------
(* The program *)

InUser == cpu.rip \in UserCode

(* It computes; it pushes and pops; a push to a read-only stack faults. *)
compute(v) ==
  /\ InUser
  /\ \E r \in UserCode : cpu' = Registers(r, cpu.rsp, v)
  /\ UNCHANGED <<mem, readonly, uxpage, upcall, ctx>>

push(v) ==
  /\ InUser /\ ~ readonly
  /\ cpu.rsp - 1 \in UserStack
  /\ mem' = [mem EXCEPT ![cpu.rsp - 1] = v]
  /\ cpu' = [cpu EXCEPT !.rsp = @ - 1]
  /\ UNCHANGED <<readonly, uxpage, upcall, ctx>>

pop ==
  /\ InUser
  /\ cpu.rsp < USTACKTOP
  /\ cpu' = [cpu EXCEPT !.rsp = @ + 1]
  /\ UNCHANGED <<mem, readonly, uxpage, upcall, ctx>>

(* The two system calls of set_pgfault_handler(). *)
set_pgfault_handler ==
  /\ InUser
  /\ \/ ~ uxpage /\ uxpage' = TRUE /\ UNCHANGED upcall
     \/ uxpage /\ ~ upcall /\ upcall' = TRUE /\ UNCHANGED uxpage
  /\ UNCHANGED <<cpu, mem, readonly, ctx>>

(* With a handler that maps it writable again, the program may map the page of its
   stack without PTE_W, as duppage() does with other pages.                *)
sys_page_map ==
  /\ InUser /\ uxpage /\ upcall
  /\ readonly' = TRUE
  /\ UNCHANGED <<cpu, mem, uxpage, upcall, ctx>>

(* Code of the program or of the handler touches a page that is not there. *)
data_fault ==
  /\ InUser \/ At(BODY)
  /\ page_fault_handler(DATA)

stack_fault ==
  /\ InUser /\ readonly
  /\ cpu.rsp - 1 \in UserStack
  /\ page_fault_handler(STACK)

----------------------------------------------------------------------------
(* _pgfault_upcall and the handler *)

(* call *%rax. *)
call_handler ==
  /\ At(UPCALL)
  /\ IF cpu.rsp - 1 \in UxPage
     THEN /\ mem' = [mem EXCEPT ![cpu.rsp - 1] = AFTER]
          /\ cpu' = [cpu EXCEPT !.rip = PROLOGUE, !.rsp = @ - 1]
          /\ UNCHANGED <<readonly, uxpage, upcall, ctx>>
     ELSE page_fault_handler(GUARD)

(* push %rbp; mov %rsp, %rbp; sub $n, %rsp. *)
prologue(n) ==
  /\ At(PROLOGUE)
  /\ IF cpu.rsp - 1 \in UxPage
     THEN /\ Overrun \/ cpu.rsp - 1 - n \in UxPage
          /\ mem' = [mem EXCEPT ![cpu.rsp - 1] = cpu.rbp]
          /\ cpu' = [cpu EXCEPT !.rip = BODY, !.rsp = @ - 1 - n, !.rbp = cpu.rsp - 1]
          /\ UNCHANGED <<readonly, uxpage, upcall, ctx>>
     ELSE page_fault_handler(GUARD)

(* The handler stores to its locals, maps the page it was called for writable,
   which the frame above its return address names, and leaves its own values
   in the registers it may change.  For a page it does not know it panics. *)
body(v) ==
  /\ At(BODY)
  /\ IF cpu.rsp \in UxPage
     THEN LET fault_va == mem[cpu.rbp + 2 + utf_fault_va] IN
          /\ mem' = IF cpu.rsp < cpu.rbp THEN [mem EXCEPT ![cpu.rsp] = v] ELSE mem
          /\ readonly' = (readonly /\ fault_va # STACK)
          /\ cpu' = [cpu EXCEPT !.rip = IF fault_va = GUARD THEN DEAD ELSE LEAVE,
                                !.rax = v, !.fl = v]
          /\ UNCHANGED <<uxpage, upcall, ctx>>
     ELSE page_fault_handler(GUARD)

(* leave; ret. *)
leave ==
  /\ At(LEAVE)
  /\ cpu' = [cpu EXCEPT !.rip = mem[cpu.rbp + 1], !.rsp = cpu.rbp + 2,
                        !.rbp = mem[cpu.rbp]]
  /\ UNCHANGED <<mem, readonly, uxpage, upcall, ctx>>

(* The three instructions that make room for a return address on the
   interrupted stack.                                                      *)
adjust ==
  /\ At(AFTER)
  /\ mem' = [mem EXCEPT ![cpu.rsp + utf_rsp] = @ - 1]
  /\ cpu' = [cpu EXCEPT !.rip = STORE,
                        !.rax = mem[cpu.rsp + utf_rip],
                        !.rbx = mem[cpu.rsp + utf_rsp] - 1]
  /\ UNCHANGED <<readonly, uxpage, upcall, ctx>>

(* movq %rax, (%rbx): may itself fault on the user stack, or just below it. *)
store ==
  /\ At(STORE)
  /\ IF cpu.rbx \notin Addrs \/ (cpu.rbx \in UserStack /\ readonly)
     THEN page_fault_handler(IF cpu.rbx \in UserStack THEN STACK ELSE GUARD)
     ELSE /\ mem' = [mem EXCEPT ![cpu.rbx] = cpu.rax]
          /\ cpu' = [cpu EXCEPT !.rip = POP]
          /\ UNCHANGED <<readonly, uxpage, upcall, ctx>>

(* Faulty variant: the flags are popped before the last arithmetic. *)
return_FlagsEarly ==
  /\ At(POP)
  /\ LET word(i) == mem[cpu.rsp + i]
         rsp == word(utf_rsp)
     IN cpu' = [rip |-> mem[rsp], rsp |-> rsp + 1, rax |-> word(utf_rax),
                rbx |-> word(utf_rbx), rbp |-> word(utf_rbp), fl |-> cpu.fl]
  /\ ctx' = SubSeq(ctx, 1, Len(ctx) - 1)
  /\ UNCHANGED <<mem, readonly, uxpage, upcall>>

(* POPA_; popfq; popq %rsp; ret. *)
return ==
  /\ At(POP)
  /\ LET word(i) == mem[cpu.rsp + i]
         rsp == word(utf_rsp)
     IN cpu' = [rip |-> mem[rsp], rsp |-> rsp + 1, rax |-> word(utf_rax),
                rbx |-> word(utf_rbx), rbp |-> word(utf_rbp), fl |-> word(utf_eflags)]
  /\ ctx' = SubSeq(ctx, 1, Len(ctx) - 1)
  /\ UNCHANGED <<mem, readonly, uxpage, upcall>>

----------------------------------------------------------------------------
Next ==
  \/ \E v \in Values : compute(v) \/ push(v) \/ body(v)
  \/ pop \/ set_pgfault_handler \/ sys_page_map \/ data_fault \/ stack_fault
  \/ call_handler
  \/ \E n \in Locals : prologue(n)
  \/ leave \/ adjust \/ store \/ return
  \/ At(DEAD) /\ UNCHANGED vars

Spec == Init /\ [][Next]_vars

----------------------------------------------------------------------------
(* Properties *)

(* Every variable has its type; the stack pointer stays within a stack. *)
TypeOK ==
  /\ cpu.rip \in Codes
  /\ cpu.rsp \in Addrs \cup {USTACKTOP}
  /\ mem \in [Addrs -> Int]
  /\ <<readonly, uxpage, upcall>> \in BOOLEAN \X BOOLEAN \X BOOLEAN
  /\ ctx = <<>> <=> cpu.rip \in UserCode \/ ~ upcall

(* A return from the upcall restores all registers of the code that the fault
   interrupted, be it the program, a handler or the upcall itself.         *)
FaultsReturn ==
  [][Len(ctx') < Len(ctx) => cpu' = ctx[Len(ctx)].cpu]_vars

(* While a fault is handled, nothing that is on the stack of interrupted code
   changes: frames do not overlap, and the word that a return pushes is free.
   (The type invariant is part of it.)                                     *)
Live(c) == {a \in Addrs : /\ a >= c.cpu.rsp
                          /\ c.cpu.rsp < UXBASE => a \in UserStack}
SuspendedIntact ==
  /\ TypeOK
  /\ \A i \in DOMAIN ctx : \A a \in Live(ctx[i]) : mem[a] = ctx[i].mem[a]
=============================================================================
