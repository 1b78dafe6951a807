--------------------------- MODULE UxStackProofs ---------------------------
(***************************************************************************)
(* Proofs about UxStack for stacks of any size, any depth of nested faults *)
(* and handlers with any locals that fit the exception stack: what faults  *)
(* interrupted stays intact, and a return restores it.                     *)
(***************************************************************************)
EXTENDS UxStack, TLAPS, SequenceTheorems

----------------------------------------------------------------------------
(* The inductive invariant *)

Words == [Addrs -> Int]
Regs == [rip : Codes, rsp : Int, rax : Int, rbx : Int, rbp : Int, fl : Int]
Contexts == [cpu : Regs, mem : Words]

(* Where the frame of a fault that interrupted c is. *)
FrameOf(c) == IF c.rsp < UXBASE THEN UXSTACKTOP - FrameSize ELSE c.rsp - 1 - FrameSize

(* The frame with f at its bottom holds the registers c, apart from rsp. *)
Saved(c, f, m) ==
  /\ m[f + utf_rbp] = c.rbp /\ m[f + utf_rbx] = c.rbx /\ m[f + utf_rax] = c.rax
  /\ m[f + utf_rip] = c.rip /\ m[f + utf_eflags] = c.fl

(* Registers x in the upcall or the handler for the fault with the frame at f:
   the saved rsp makes room for the return address once adjust has run.    *)
Progress(c, f, x, m) ==
  /\ x.rip \in {UPCALL, PROLOGUE, BODY, LEAVE, AFTER, STORE, POP}
  /\ x.rsp \in UxPage /\ x.rsp <= f
  /\ x.rip \in {UPCALL, AFTER, STORE, POP} => x.rsp = f
  /\ x.rip = PROLOGUE => x.rsp = f - 1
  /\ x.rip \in {BODY, LEAVE} => x.rbp = f - 2 /\ x.rsp <= f - 2
  /\ x.rip \in {PROLOGUE, BODY, LEAVE} => m[f - 1] = AFTER
  /\ m[f + utf_rsp] = IF x.rip \in {STORE, POP} THEN c.rsp - 1 ELSE c.rsp
  /\ x.rip = STORE => x.rax = c.rip /\ x.rbx = c.rsp - 1
  /\ x.rip = POP => m[c.rsp - 1] = c.rip

Running(c, x, m) == Saved(c, FrameOf(c), m) /\ Progress(c, FrameOf(c), x, m)

Types ==
  /\ cpu \in Regs /\ mem \in Words /\ ctx \in Seq(Contexts)
  /\ readonly \in BOOLEAN /\ uxpage \in BOOLEAN /\ upcall \in BOOLEAN
  /\ cpu.rsp \in Addrs \cup {USTACKTOP}
  /\ upcall => uxpage
  /\ ctx # <<>> => upcall /\ cpu.rip \notin UserCode
  /\ ctx = <<>> => /\ cpu.rip \in UserCode \/ (cpu.rip = DEAD /\ ~ upcall)
                   /\ cpu.rsp \in 1 .. USTACKTOP

(* The first fault interrupted the program, later ones a handler or the upcall
   at its store; each is further down the exception stack.                 *)
Chain ==
  /\ \A i \in 1 .. Len(ctx) :
       IF i = 1 THEN ctx[i].cpu.rip \in UserCode /\ ctx[i].cpu.rsp \in 1 .. USTACKTOP
                ELSE ctx[i].cpu.rip \in {BODY, STORE} /\ ctx[i].cpu.rsp \in UxPage
  /\ \A i \in 2 .. Len(ctx) : \A j \in i .. Len(ctx) : ctx[j].cpu.rsp <= ctx[i].cpu.rsp

Suspended ==
  \A i \in 1 .. Len(ctx) - 1 : Running(ctx[i].cpu, ctx[i + 1].cpu, mem)

Current ==
  ctx # <<>> /\ cpu.rip # DEAD => Running(ctx[Len(ctx)].cpu, cpu, mem)

Intact == \A i \in 1 .. Len(ctx) : \A a \in Live(ctx[i]) : mem[a] = ctx[i].mem[a]

IInv == Types /\ Chain /\ Suspended /\ Current /\ Intact

----------------------------------------------------------------------------
(* Addresses and frames *)

USE DEF FrameSize, utf_fault_va, utf_err, utf_rbp, utf_rbx, utf_rax, utf_rip, utf_eflags, utf_rsp

(* The user stack is below the exception stack, which has room for a frame. *)
LEMMA Geometry ==
  /\ NU \in Nat /\ UXBASE \in Int /\ UXSTACKTOP \in Int /\ USTACKTOP \in Int
  /\ 1 <= USTACKTOP /\ USTACKTOP < UXBASE /\ UXBASE + 8 <= UXSTACKTOP
  /\ UserStack = 1 .. USTACKTOP - 1
  /\ UxPage = UXBASE .. UXSTACKTOP - 1
  /\ Addrs = UserStack \cup UxPage
BY SizesAssumption DEF UXBASE, UXSTACKTOP, USTACKTOP, UserStack, UxPage, Addrs

(* The places of the code are different from each other. *)
LEMMA Labels ==
  /\ Codes \subseteq Int
  /\ UserCode \cap {UPCALL, PROLOGUE, BODY, LEAVE, AFTER, STORE, POP, DEAD} = {}
  /\ UPCALL \notin {PROLOGUE, BODY, LEAVE, AFTER, STORE, POP, DEAD}
  /\ PROLOGUE \notin {BODY, LEAVE, AFTER, STORE, POP, DEAD}
  /\ BODY \notin {LEAVE, AFTER, STORE, POP, DEAD}
  /\ LEAVE \notin {AFTER, STORE, POP, DEAD}
  /\ AFTER \notin {STORE, POP, DEAD}
  /\ STORE \notin {POP, DEAD} /\ POP # DEAD
  /\ Codes = UserCode \cup {UPCALL, PROLOGUE, BODY, LEAVE, AFTER, STORE, POP, DEAD}
BY DEF Codes, UserCode, UPCALL, PROLOGUE, BODY, LEAVE, AFTER, STORE, POP, DEAD

(* A frame is on the exception stack page or reaches below it. *)
LEMMA FrameOfFacts ==
  ASSUME NEW c \in Regs, c.rsp \in 1 .. USTACKTOP \/ c.rsp \in UxPage
  PROVE  /\ FrameOf(c) \in Int /\ FrameOf(c) + 7 < UXSTACKTOP
         /\ c.rsp \in UxPage => FrameOf(c) = c.rsp - 9
         /\ c.rsp \in 1 .. USTACKTOP => FrameOf(c) = UXSTACKTOP - 8 /\ c.rsp \notin UxPage
<1>1. c.rsp \in Int
  BY DEF Regs
<1> QED BY <1>1, Geometry DEF FrameOf

(* page_fault_handler() writes the frame and nothing else. *)
LEMMA FrameFacts ==
  ASSUME cpu \in Regs, mem \in Words, NEW f \in Int, UXBASE <= f, f + 7 < UXSTACKTOP,
         NEW va \in Int
  PROVE  /\ Frame(f, va) \in Words
         /\ \A a \in Addrs : a \notin f .. f + 7 => Frame(f, va)[a] = mem[a]
         /\ Saved(cpu, f, Frame(f, va)) /\ Frame(f, va)[f + utf_rsp] = cpu.rsp
<1> DEFINE word(i) == CASE i = utf_fault_va -> va
                        [] i = utf_err -> 0
                        [] i = utf_rbp -> cpu.rbp
                        [] i = utf_rbx -> cpu.rbx
                        [] i = utf_rax -> cpu.rax
                        [] i = utf_rip -> cpu.rip
                        [] i = utf_eflags -> cpu.fl
                        [] i = utf_rsp -> cpu.rsp
<1>1. Frame(f, va) = [a \in Addrs |-> IF a \in f .. f + 7 THEN word(a - f) ELSE mem[a]]
  <2>1. DOMAIN mem = Addrs /\ f + FrameSize - 1 = f + 7
    BY DEF Words
  <2> QED BY <2>1 DEF Frame
<1>2. /\ word(0) = va /\ word(1) = 0 /\ word(2) = cpu.rbp /\ word(3) = cpu.rbx
      /\ word(4) = cpu.rax /\ word(5) = cpu.rip /\ word(6) = cpu.fl /\ word(7) = cpu.rsp
  OBVIOUS
<1>3. /\ cpu.rbp \in Int /\ cpu.rbx \in Int /\ cpu.rax \in Int /\ cpu.rip \in Int
      /\ cpu.fl \in Int /\ cpu.rsp \in Int
  BY Labels DEF Regs
<1> HIDE DEF word
<1>4. \A i \in 0 .. 7 : word(i) \in Int
  BY <1>2, <1>3
<1>5. \A a \in f .. f + 7 : a \in Addrs /\ a - f \in 0 .. 7
  BY Geometry
<1>6. Frame(f, va) \in Words
  BY <1>1, <1>4, <1>5 DEF Words
<1>7. \A i \in 0 .. 7 : f + i \in f .. f + 7 /\ (f + i) - f = i
  OBVIOUS
<1>8. \A i \in 0 .. 7 : Frame(f, va)[f + i] = word(i)
  BY <1>1, <1>5, <1>7
<1>9. Saved(cpu, f, Frame(f, va)) /\ Frame(f, va)[f + utf_rsp] = cpu.rsp
  BY <1>2, <1>8 DEF Saved
<1> QED BY <1>1, <1>6, <1>9

(* What is known of the handler of a suspended fault depends on the words at
   and above its stack pointer only.                                       *)
LEMMA RunningStays ==
  ASSUME NEW c \in Regs, NEW x \in Regs, NEW m \in Words, NEW k \in Words,
         c.rsp \in 1 .. USTACKTOP \/ c.rsp \in UxPage,
         Running(c, x, m), x.rip # POP,
         \A a \in UxPage : a >= x.rsp => k[a] = m[a]
  PROVE  Running(c, x, k)
<1>1. PICK f \in Int : f = FrameOf(c) /\ f + 7 < UXSTACKTOP
  BY FrameOfFacts
<1>2. Saved(c, f, m) /\ Progress(c, f, x, m)
  BY <1>1 DEF Running
<1>3. x.rsp \in Int /\ x.rsp \in UxPage /\ x.rsp <= f
  BY <1>2 DEF Progress, Regs
<1>4. \A i \in 0 .. 7 : f + i \in UxPage /\ f + i >= x.rsp
  BY SMTT(30), <1>1, <1>3, Geometry
<1>5. \A i \in 0 .. 7 : k[f + i] = m[f + i]
  BY <1>4
<1>6. Saved(c, f, k)
  BY <1>2, <1>5 DEF Saved
<1>7. x.rip \in {PROLOGUE, BODY, LEAVE} => k[f - 1] = m[f - 1]
  <2>1. x.rip \in {PROLOGUE, BODY, LEAVE} => x.rsp <= f - 1
    BY <1>2, <1>3 DEF Progress
  <2>2. x.rsp <= f - 1 => f - 1 \in UxPage /\ f - 1 >= x.rsp
    BY <1>1, <1>3, Geometry
  <2> QED BY <2>1, <2>2
<1>8. Progress(c, f, x, k)
  <2>1. k[f + utf_rsp] = m[f + utf_rsp]
    BY <1>5
  <2> QED BY <1>2, <1>7, <2>1 DEF Progress
<1> QED BY <1>1, <1>6, <1>8 DEF Running

----------------------------------------------------------------------------
(* Writes of the handler *)

(* The words that the handler of the last fault may use. *)
Scratch ==
  {a \in Addrs : IF Len(ctx) = 1 THEN a \in UxPage \/ a < ctx[1].cpu.rsp
                                 ELSE a \in UxPage /\ a < ctx[Len(ctx)].cpu.rsp}

(* The types of the contexts. *)
LEMMA ContextFacts ==
  ASSUME IInv, NEW i \in 1 .. Len(ctx)
  PROVE  /\ ctx[i].cpu \in Regs /\ ctx[i].mem \in Words /\ ctx[i].cpu.rsp \in Int
         /\ ctx[i].cpu.rsp \in 1 .. USTACKTOP \/ ctx[i].cpu.rsp \in UxPage
<1>1. ctx[i] \in Contexts
  BY DEF IInv, Types
<1> QED BY <1>1 DEF IInv, Chain, Contexts, Regs

(* A handler that keeps to those words disturbs nothing suspended. *)
LEMMA WritesStay ==
  ASSUME IInv, ctx # <<>>, NEW k \in Words,
         \A a \in Addrs : a \notin Scratch => k[a] = mem[a]
  PROVE  /\ \A i \in 1 .. Len(ctx) - 1 : Running(ctx[i].cpu, ctx[i + 1].cpu, k)
         /\ \A i \in 1 .. Len(ctx) : \A a \in Live(ctx[i]) : k[a] = ctx[i].mem[a]
<1>0. Len(ctx) \in Nat /\ Len(ctx) >= 1 /\ mem \in Words
  BY DEF IInv, Types
<1>1. ASSUME NEW i \in 2 .. Len(ctx), NEW a \in UxPage, a >= ctx[i].cpu.rsp
      PROVE  k[a] = mem[a]
  <2>1. ctx[Len(ctx)].cpu.rsp <= ctx[i].cpu.rsp /\ Len(ctx) # 1
    BY <1>0 DEF IInv, Chain
  <2>2. a \in Int /\ ctx[i].cpu.rsp \in Int /\ ctx[Len(ctx)].cpu.rsp \in Int
    BY <1>0, ContextFacts, Geometry
  <2>3. ~ (a < ctx[Len(ctx)].cpu.rsp)
    BY <1>1, <2>1, <2>2
  <2>4. a \in Addrs /\ a \notin Scratch
    BY <2>1, <2>3, Geometry DEF Scratch
  <2> QED BY <2>4
<1>2. ASSUME NEW i \in 1 .. Len(ctx) - 1
      PROVE  Running(ctx[i].cpu, ctx[i + 1].cpu, k)
  <2>1. i \in 1 .. Len(ctx) /\ i + 1 \in 2 .. Len(ctx) /\ i + 1 \in 1 .. Len(ctx) /\ i + 1 # 1
    BY <1>0
  <2>2. \A a \in UxPage : a >= ctx[i + 1].cpu.rsp => k[a] = mem[a]
    BY <1>1, <2>1
  <2>3. ctx[i + 1].cpu.rip # POP
    BY <2>1, Labels DEF IInv, Chain
  <2>4. Running(ctx[i].cpu, ctx[i + 1].cpu, mem)
    BY DEF IInv, Suspended
  <2> QED BY <1>0, <2>1, <2>2, <2>3, <2>4, ContextFacts, RunningStays
<1>3. ASSUME NEW i \in 1 .. Len(ctx), NEW a \in Live(ctx[i])
      PROVE  k[a] = mem[a]
  <2>1. a \in Addrs /\ a >= ctx[i].cpu.rsp /\ (ctx[i].cpu.rsp < UXBASE => a \in UserStack)
    BY DEF Live
  <2>2. CASE i = 1
    <3>1. ctx[1].cpu.rsp \in 1 .. USTACKTOP
      BY <1>0, <2>2 DEF IInv, Chain
    <3>2. a \in UserStack /\ a \in Int /\ ~ (a < ctx[1].cpu.rsp) /\ a \notin UxPage
      BY <2>1, <2>2, <3>1, Geometry
    <3>3. a \notin Scratch
      BY <3>2 DEF Scratch
    <3> QED BY <2>1, <3>3
  <2>3. CASE i # 1
    <3>1. ctx[i].cpu.rsp \in UxPage /\ i \in 2 .. Len(ctx)
      BY <1>0, <2>3 DEF IInv, Chain
    <3>2. CASE a \in UxPage
      BY <1>1, <2>1, <3>1, <3>2
    <3>3. CASE a \notin UxPage
      BY <2>1, <3>1, <3>3, Geometry
    <3> QED BY <3>2, <3>3
  <2> QED BY <2>2, <2>3
<1>4. \A i \in 1 .. Len(ctx) : \A a \in Live(ctx[i]) : k[a] = ctx[i].mem[a]
  BY <1>3 DEF IInv, Intact
<1> QED BY <1>2, <1>4

(* The fault that is being handled, and where its handler may write. *)
LEMMA Top ==
  ASSUME IInv, cpu.rip \notin UserCode, cpu.rip # DEAD
  PROVE  /\ ctx # <<>> /\ Len(ctx) \in Nat /\ Len(ctx) >= 1
         /\ \E c \in Regs, f \in Int :
              /\ c = ctx[Len(ctx)].cpu /\ f = FrameOf(c)
              /\ Saved(c, f, mem) /\ Progress(c, f, cpu, mem)
              /\ UXBASE <= f /\ f + 7 < UXSTACKTOP
              /\ \A a \in UxPage : a <= f + 7 => a \in Scratch
              /\ c.rsp - 1 \in Addrs => c.rsp - 1 \in Scratch
              /\ Len(ctx) # 1 => f < c.rsp
<1>1. ctx # <<>>
  BY DEF IInv, Types
<1>2. Len(ctx) \in Nat /\ Len(ctx) >= 1
  BY <1>1 DEF IInv, Types
<1>3. PICK n \in 1 .. Len(ctx) : n = Len(ctx)
  BY <1>2
<1>4. PICK c \in Regs : c = ctx[n].cpu
  BY ContextFacts
<1>5. /\ c.rsp \in Int
      /\ n = 1 => c.rsp \in 1 .. USTACKTOP
      /\ n # 1 => c.rsp \in UxPage
  BY <1>4, ContextFacts DEF IInv, Chain
<1>6. PICK f \in Int : /\ f = FrameOf(c) /\ f + 7 < UXSTACKTOP
                       /\ n = 1 => f = UXSTACKTOP - 8
                       /\ n # 1 => f = c.rsp - 9
  BY <1>5, FrameOfFacts
<1>7. Saved(c, f, mem) /\ Progress(c, f, cpu, mem)
  BY <1>1, <1>3, <1>4, <1>6 DEF IInv, Current, Running
<1>8. UXBASE <= f
  BY <1>6, <1>7, Geometry DEF Progress
<1>9. \A a \in UxPage : a <= f + 7 => a \in Scratch
  <2> SUFFICES ASSUME NEW a \in UxPage, a <= f + 7 PROVE a \in Scratch
    OBVIOUS
  <2>1. a \in Addrs /\ (n # 1 => a < c.rsp)
    BY <1>5, <1>6, Geometry
  <2> QED BY <1>3, <1>4, <2>1 DEF Scratch
<1>10. c.rsp - 1 \in Addrs => c.rsp - 1 \in Scratch
  <2>1. n # 1 => c.rsp - 1 \in UxPage /\ c.rsp - 1 < c.rsp
    BY SMTT(30), <1>5, <1>6, <1>8, Geometry
  <2>2. n = 1 => c.rsp - 1 < c.rsp
    BY <1>5
  <2> QED BY <1>3, <1>4, <2>1, <2>2 DEF Scratch
<1>11. Len(ctx) # 1 => f < c.rsp
  BY <1>3, <1>5, <1>6
<1> QED BY <1>1, <1>2, <1>3, <1>4, <1>6, <1>7, <1>8, <1>9, <1>10, <1>11

(* A step of the upcall or the handler that returns from no fault. *)
LEMMA HandlerStep ==
  ASSUME IInv, ctx # <<>>, cpu' \in Regs, mem' \in Words, readonly' \in BOOLEAN,
         UNCHANGED <<uxpage, upcall, ctx>>,
         cpu'.rsp \in UxPage, cpu'.rip \notin UserCode,
         \A a \in Addrs : a \notin Scratch => mem'[a] = mem[a],
         cpu'.rip = DEAD \/ Running(ctx[Len(ctx)].cpu, cpu', mem')
  PROVE  IInv'
<1>1. Types'
  BY Geometry DEF IInv, Types
<1>2. Chain'
  BY DEF IInv, Chain
<1>3. /\ \A i \in 1 .. Len(ctx) - 1 : Running(ctx[i].cpu, ctx[i + 1].cpu, mem')
      /\ \A i \in 1 .. Len(ctx) : \A a \in Live(ctx[i]) : mem'[a] = ctx[i].mem[a]
  BY WritesStay
<1>4. Suspended' /\ Intact' /\ Current'
  BY <1>3 DEF Suspended, Intact, Current, Live
<1> QED BY <1>1, <1>2, <1>4 DEF IInv

----------------------------------------------------------------------------
(* The steps *)

(* The program starts with an empty stack and no handler. *)
LEMMA InitIInv == Init => IInv
<1> SUFFICES ASSUME Init PROVE IInv
  OBVIOUS
<1>1. ctx = <<>> /\ Len(ctx) = 0 /\ ctx \in Seq(Contexts)
  BY DEF Init
<1>2. /\ cpu \in Regs /\ cpu.rip \in UserCode /\ cpu.rsp = USTACKTOP /\ mem \in Words
      /\ readonly = FALSE /\ uxpage = FALSE /\ upcall = FALSE
  BY ValuesAssumption, Geometry DEF Init, Regs, Words, UserCode, Codes
<1>3. Types
  <2>1. cpu.rsp \in Addrs \cup {USTACKTOP} /\ cpu.rsp \in 1 .. USTACKTOP
    BY <1>2, Geometry
  <2> QED BY <1>1, <1>2, <2>1 DEF Types
<1> QED BY <1>1, <1>3 DEF IInv, Chain, Suspended, Current, Intact

(* Whatever the program does between faults. *)
LEMMA UserStep ==
  ASSUME IInv, cpu.rip \in UserCode, ctx' = ctx, cpu' \in Regs, cpu'.rip \in UserCode,
         cpu'.rsp \in 1 .. USTACKTOP, mem' \in Words, readonly' \in BOOLEAN, uxpage' \in BOOLEAN,
         upcall' \in BOOLEAN, upcall' => uxpage'
  PROVE  IInv'
<1>1. ctx = <<>> /\ Len(ctx) = 0
  BY DEF IInv, Types
<1>2. Types'
  BY <1>1, Geometry DEF IInv, Types
<1> QED BY <1>1, <1>2 DEF IInv, Chain, Suspended, Current, Intact

(* env_destroy() *)
LEMMA DeadStep ==
  ASSUME IInv, ctx # <<>> \/ ~ upcall, cpu' = [cpu EXCEPT !.rip = DEAD],
         UNCHANGED <<mem, ctx, readonly, uxpage, upcall>>
  PROVE  IInv'
<1>1. cpu' \in Regs /\ cpu'.rip = DEAD /\ cpu'.rsp = cpu.rsp
  BY Labels DEF IInv, Types, Regs
<1>2. Types'
  BY <1>1, Labels DEF IInv, Types
<1>3. Chain' /\ Suspended' /\ Intact' /\ Current'
  BY <1>1 DEF IInv, Chain, Suspended, Intact, Current, Live
<1> QED BY <1>2, <1>3 DEF IInv

(* A frame is pushed for code at the end of the chain. *)
LEMMA PushStep ==
  ASSUME IInv, NEW va \in Int, NEW f \in Int, UXBASE <= f, f + 7 < UXSTACKTOP,
         f = FrameOf(cpu), upcall,
         mem' = Frame(f, va),
         ctx' = Append(ctx, [cpu |-> cpu, mem |-> mem]),
         cpu' = [cpu EXCEPT !.rip = UPCALL, !.rsp = f],
         UNCHANGED <<readonly, uxpage, upcall>>,
         cpu.rip \in UserCode \cup {BODY, STORE}
  PROVE  IInv'
<1>0. cpu \in Regs /\ mem \in Words /\ ctx \in Seq(Contexts) /\ cpu.rsp \in Int
  BY DEF IInv, Types, Regs
<1>1. /\ mem' \in Words
      /\ \A a \in Addrs : a \notin f .. f + 7 => mem'[a] = mem[a]
      /\ Saved(cpu, f, mem') /\ mem'[f + utf_rsp] = cpu.rsp
  BY <1>0, FrameFacts
<1>2. cpu' \in Regs /\ cpu'.rip = UPCALL /\ cpu'.rsp = f /\ f \in UxPage
  <2>1. UPCALL \in Codes
    BY Labels
  <2>2. f \in UxPage
    BY Geometry
  <2>3. cpu' \in Regs
    BY <1>0, <2>1 DEF Regs
  <2>4. cpu'.rip = UPCALL /\ cpu'.rsp = f
    BY <1>0 DEF Regs
  <2> QED BY <2>2, <2>3, <2>4
<1>3. /\ ctx' \in Seq(Contexts) /\ Len(ctx') = Len(ctx) + 1 /\ Len(ctx) \in Nat
      /\ \A i \in 1 .. Len(ctx) : ctx'[i] = ctx[i]
      /\ ctx'[Len(ctx) + 1] = [cpu |-> cpu, mem |-> mem]
      /\ ctx' # <<>>
  BY <1>0 DEF Contexts
<1>4. Types'
  BY SMTT(30), <1>1, <1>2, <1>3, Labels, Geometry DEF IInv, Types
<1>5. Running(cpu, cpu', mem')
  BY <1>1, <1>2, Labels DEF Running, Progress
<1>6. Current'
  BY <1>3, <1>5 DEF Current
<1>7. CASE ctx = <<>>
  <2>1. Len(ctx) = 0 /\ cpu.rip \in UserCode /\ cpu.rsp \in 1 .. USTACKTOP
    BY <1>7, Labels DEF IInv, Types
  <2>2. Chain'
    BY <1>3, <2>1 DEF Chain
  <2>3. Suspended'
    BY <1>3, <2>1 DEF Suspended
  <2>4. Intact'
    <3>1. ASSUME NEW a \in Live(ctx'[1]) PROVE mem'[a] = ctx'[1].mem[a]
      <4>1. ctx'[1].cpu = cpu /\ ctx'[1].mem = mem
        BY <1>3, <2>1
      <4>2. a \in UserStack /\ a \in Addrs
        BY <2>1, <4>1, Geometry DEF Live
      <4>3. a \notin f .. f + 7
        BY <4>2, Geometry
      <4> QED BY <1>1, <4>1, <4>2, <4>3
    <3>2. \A i \in 1 .. Len(ctx') : i = 1
      BY <1>3, <2>1
    <3> QED BY <3>1, <3>2 DEF Intact, Live
  <2> QED BY <1>4, <1>6, <2>2, <2>3, <2>4 DEF IInv
<1>8. CASE ctx # <<>>
  <2>1. cpu.rip \in {BODY, STORE}
    BY <1>8 DEF IInv, Types
  <2>2. cpu.rip \notin UserCode /\ cpu.rip # DEAD /\ cpu.rip # POP
    BY <2>1, Labels
  <2>3. PICK c \in Regs, g \in Int :
          /\ c = ctx[Len(ctx)].cpu /\ g = FrameOf(c)
          /\ Saved(c, g, mem) /\ Progress(c, g, cpu, mem)
          /\ UXBASE <= g /\ g + 7 < UXSTACKTOP
          /\ \A a \in UxPage : a <= g + 7 => a \in Scratch
          /\ Len(ctx) # 1 => g < c.rsp
    BY <2>2, Top
  <2>4. /\ Len(ctx) >= 1 /\ Len(ctx) \in 1 .. Len(ctx)
        /\ c.rsp \in Int /\ (c.rsp \in 1 .. USTACKTOP \/ c.rsp \in UxPage)
    BY <1>0, <1>8, <2>3, ContextFacts
  <2>5. cpu.rsp \in UxPage /\ cpu.rsp <= g
    BY <2>3 DEF Progress
  <2>6. f = cpu.rsp - 9
    BY <1>0, <2>5, FrameOfFacts
  <2>7. \A a \in f .. f + 7 : a \in UxPage /\ a <= g + 7 /\ ~ (a >= cpu.rsp)
    <3>1. f <= g /\ \A a \in f .. f + 7 : a <= g + 7 /\ ~ (a >= cpu.rsp)
      BY <1>0, <2>5, <2>6
    <3>2. \A a \in f .. f + 7 : a \in UxPage
      BY Geometry
    <3> QED BY <3>1, <3>2
  <2>8. \A a \in Addrs : a \notin Scratch => mem'[a] = mem[a]
    BY <1>1, <2>3, <2>7
  <2>9. /\ \A i \in 1 .. Len(ctx) - 1 : Running(ctx[i].cpu, ctx[i + 1].cpu, mem')
        /\ \A i \in 1 .. Len(ctx) : \A a \in Live(ctx[i]) : mem'[a] = ctx[i].mem[a]
    BY <1>1, <1>8, <2>8, WritesStay
  <2>10. \A a \in UxPage : a >= cpu.rsp => mem'[a] = mem[a]
    BY <1>1, <2>7, Geometry
  <2>11. Running(c, cpu, mem')
    <3>1. Running(c, cpu, mem)
      BY <2>3 DEF Running
    <3> QED BY <1>0, <1>1, <2>2, <2>4, <2>10, <3>1, RunningStays
  <2>12. Suspended'
    <3> SUFFICES ASSUME NEW i \in 1 .. Len(ctx)
                 PROVE  Running(ctx'[i].cpu, ctx'[i + 1].cpu, mem')
      BY <1>3 DEF Suspended
    <3>1. CASE i = Len(ctx)
      BY <1>3, <2>3, <2>11, <3>1
    <3>2. CASE i # Len(ctx)
      <4>1. i \in 1 .. Len(ctx) - 1 /\ i + 1 \in 1 .. Len(ctx)
        BY <1>3, <3>2
      <4> QED BY <1>3, <2>9, <4>1
    <3> QED BY <3>1, <3>2
  <2>13. Chain'
    <3>1. \A i \in 2 .. Len(ctx) : cpu.rsp <= ctx[i].cpu.rsp
      <4> SUFFICES ASSUME NEW i \in 2 .. Len(ctx) PROVE cpu.rsp <= ctx[i].cpu.rsp
        OBVIOUS
      <4>1. Len(ctx) \in i .. Len(ctx) /\ Len(ctx) # 1 /\ i \in 1 .. Len(ctx)
        BY <1>3
      <4>2. c.rsp <= ctx[i].cpu.rsp
        BY <2>3, <4>1 DEF IInv, Chain
      <4>3. ctx[i].cpu.rsp \in Int
        BY <4>1, ContextFacts
      <4> QED BY SMTT(30), <1>0, <2>3, <2>4, <2>5, <4>1, <4>2, <4>3
    <3>2. ASSUME NEW i \in 1 .. Len(ctx')
          PROVE  IF i = 1 THEN ctx'[i].cpu.rip \in UserCode /\ ctx'[i].cpu.rsp \in 1 .. USTACKTOP
                          ELSE ctx'[i].cpu.rip \in {BODY, STORE} /\ ctx'[i].cpu.rsp \in UxPage
      <4>1. CASE i = Len(ctx) + 1
        BY <1>3, <2>1, <2>4, <2>5, <4>1
      <4>2. CASE i # Len(ctx) + 1
        <5>1. i \in 1 .. Len(ctx) /\ ctx'[i] = ctx[i]
          BY <1>3, <4>2
        <5> QED BY <5>1 DEF IInv, Chain
      <4> QED BY <4>1, <4>2
    <3>3. ASSUME NEW i \in 2 .. Len(ctx'), NEW j \in i .. Len(ctx')
          PROVE  ctx'[j].cpu.rsp <= ctx'[i].cpu.rsp
      <4>1. CASE j = Len(ctx) + 1 /\ i # j
        <5>1. i \in 2 .. Len(ctx) /\ i \in 1 .. Len(ctx)
          BY <1>3, <4>1
        <5> QED BY <1>3, <3>1, <4>1, <5>1
      <4>2. CASE j # Len(ctx) + 1
        <5>1. i \in 2 .. Len(ctx) /\ j \in i .. Len(ctx) /\ i \in 1 .. Len(ctx) /\ j \in 1 .. Len(ctx)
          BY <1>3, <4>2
        <5> QED BY <1>3, <5>1 DEF IInv, Chain
      <4>3. CASE j = Len(ctx) + 1 /\ i = j
        BY <1>0, <1>3, <4>3
      <4> QED BY <4>1, <4>2, <4>3
    <3> QED BY <3>2, <3>3 DEF Chain
  <2>14. Intact'
    <3>1. ASSUME NEW i \in 1 .. Len(ctx'), NEW a \in Live(ctx'[i])
          PROVE  mem'[a] = ctx'[i].mem[a]
      <4>1. CASE i = Len(ctx) + 1
        <5>1. ctx'[i].cpu = cpu /\ ctx'[i].mem = mem
          BY <1>3, <4>1
        <5>2. a \in Addrs /\ a >= cpu.rsp
          BY <5>1 DEF Live
        <5>3. a \notin f .. f + 7
          BY <2>7, <5>2
        <5> QED BY <1>1, <5>1, <5>2, <5>3
      <4>2. CASE i # Len(ctx) + 1
        <5>1. i \in 1 .. Len(ctx) /\ ctx'[i] = ctx[i]
          BY <1>3, <4>2
        <5> QED BY <2>9, <5>1
      <4> QED BY <4>1, <4>2
    <3> QED BY <3>1 DEF Intact, Live
  <2> QED BY <1>4, <1>6, <2>12, <2>13, <2>14 DEF IInv
<1> QED BY <1>7, <1>8

(* page_fault_handler(), from code that may fault and go on. *)
LEMMA FaultStep ==
  ASSUME IInv, NEW va \in Int, page_fault_handler(va), cpu.rip \in UserCode \cup {BODY, STORE}
  PROVE  IInv'
<1>1. UNCHANGED <<readonly, uxpage, upcall>> /\ cpu \in Regs /\ cpu.rsp \in Int
  BY DEF page_fault_handler, IInv, Types, Regs
<1>2. /\ cpu.rip \in UserCode => ctx = <<>> /\ cpu.rsp \in 1 .. USTACKTOP
      /\ cpu.rip \notin UserCode => ctx # <<>> /\ cpu.rsp \in UxPage
  <2>1. cpu.rip \in UserCode => ctx = <<>> /\ cpu.rsp \in 1 .. USTACKTOP
    BY DEF IInv, Types
  <2>2. cpu.rip \notin UserCode => ctx # <<>> /\ cpu.rsp \in UxPage
    BY Labels, Top DEF Progress
  <2> QED BY <2>1, <2>2
<1>3. FrameAt = FrameOf(cpu)
  BY <1>1, <1>2, Geometry DEF FrameAt, FrameOf, Nested
<1>4. FrameOf(cpu) \in Int /\ FrameOf(cpu) + 7 < UXSTACKTOP
      /\ (cpu.rip \in UserCode => FrameOf(cpu) = UXSTACKTOP - 8)
  BY <1>1, <1>2, FrameOfFacts
<1>5. CASE upcall /\ user_mem_ok(FrameAt)
  <2>1. PICK f \in Int : f = FrameOf(cpu) /\ f = FrameAt
    BY <1>3, <1>4
  <2>2. UXBASE <= f /\ f + 7 < UXSTACKTOP
    BY <1>4, <1>5, <2>1, Geometry DEF user_mem_ok
  <2>3. /\ mem' = Frame(f, va)
        /\ ctx' = Append(ctx, [cpu |-> cpu, mem |-> mem])
        /\ cpu' = [cpu EXCEPT !.rip = UPCALL, !.rsp = f]
    BY <1>5, <2>1 DEF page_fault_handler
  <2> QED BY <1>1, <1>5, <2>1, <2>2, <2>3, PushStep
<1>6. CASE ~ (upcall /\ user_mem_ok(FrameAt))
  <2>1. cpu' = [cpu EXCEPT !.rip = DEAD] /\ UNCHANGED <<mem, ctx>>
    BY <1>6 DEF page_fault_handler
  <2>2. ctx # <<>> \/ ~ upcall
    <3>1. CASE cpu.rip \in UserCode /\ upcall
      <4>1. uxpage /\ FrameAt \in UxPage
        BY <1>3, <1>4, <3>1, Geometry DEF IInv, Types
      <4> QED BY <1>6, <3>1, <4>1 DEF user_mem_ok
    <3> QED BY <1>2, <3>1
  <2> QED BY <1>1, <2>1, <2>2, DeadStep
<1> QED BY <1>5, <1>6

(* A fault of the upcall or the handler at the bottom of the page is the end. *)
LEMMA BottomStep ==
  ASSUME IInv, NEW va \in Int, page_fault_handler(va), cpu.rip \in {UPCALL, PROLOGUE},
         cpu.rsp - 1 \notin UxPage
  PROVE  IInv'
<1>1. cpu.rip \notin UserCode /\ cpu.rip # DEAD
  BY Labels
<1>2. ctx # <<>> /\ cpu.rsp \in UxPage
  BY <1>1, Top DEF Progress
<1>3. cpu.rsp \in Int /\ cpu.rsp = UXBASE
  BY <1>2, Geometry DEF IInv, Types, Regs
<1>4. FrameAt = cpu.rsp - 1 - 8
  BY <1>3, Geometry DEF FrameAt, Nested
<1>5. ~ user_mem_ok(FrameAt)
  BY <1>3, <1>4, Geometry DEF user_mem_ok
<1>6. cpu' = [cpu EXCEPT !.rip = DEAD] /\ UNCHANGED <<mem, ctx, readonly, uxpage, upcall>>
  BY <1>5 DEF page_fault_handler
<1> QED BY <1>2, <1>6, DeadStep

(* What the program does between faults. *)
LEMMA ProgramStep ==
  ASSUME IInv, NEW v,
         (v \in Values /\ (compute(v) \/ push(v))) \/ pop \/ set_pgfault_handler \/ sys_page_map
  PROVE  IInv'
<1>1. cpu.rip \in UserCode
  BY DEF compute, push, pop, set_pgfault_handler, sys_page_map, InUser
<1>2. /\ ctx = <<>> /\ cpu \in Regs /\ mem \in Words /\ cpu.rsp \in 1 .. USTACKTOP
      /\ readonly \in BOOLEAN /\ uxpage \in BOOLEAN /\ upcall \in BOOLEAN /\ (upcall => uxpage)
  BY <1>1 DEF IInv, Types
<1>3. v \in Values => v \in Int
  BY ValuesAssumption
<1>4. CASE v \in Values /\ compute(v)
  <2>1. PICK r \in UserCode :
          cpu' = [rip |-> r, rsp |-> cpu.rsp, rax |-> v, rbx |-> v + 20, rbp |-> v + 30, fl |-> v]
    BY <1>4 DEF compute, Registers
  <2>2. cpu' \in Regs /\ cpu'.rip \in UserCode /\ cpu'.rsp = cpu.rsp
    <3>1. r \in Codes /\ cpu.rsp \in Int /\ v \in Int /\ v + 20 \in Int /\ v + 30 \in Int
      BY <1>2, <1>3, <1>4, Labels DEF Regs
    <3> QED BY <2>1, <3>1 DEF Regs
  <2>3. UNCHANGED <<mem, readonly, uxpage, upcall, ctx>>
    BY <1>4 DEF compute
  <2> QED BY <1>1, <1>2, <2>2, <2>3, UserStep
<1>5. CASE v \in Values /\ push(v)
  <2>1. /\ cpu.rsp - 1 \in UserStack /\ mem' = [mem EXCEPT ![cpu.rsp - 1] = v]
        /\ cpu' = [cpu EXCEPT !.rsp = cpu.rsp - 1] /\ UNCHANGED <<readonly, uxpage, upcall, ctx>>
    BY <1>5, <1>2 DEF push
  <2>2. mem' \in Words
    BY <1>2, <1>3, <1>5, <2>1 DEF Words
  <2>3. cpu' \in Regs /\ cpu'.rip = cpu.rip /\ cpu'.rsp = cpu.rsp - 1
    BY <1>2, <2>1 DEF Regs
  <2>4. cpu.rsp - 1 \in 1 .. USTACKTOP
    BY <1>2, <2>1, Geometry
  <2> QED BY <1>1, <1>2, <2>1, <2>2, <2>3, <2>4, UserStep
<1>6. CASE pop
  <2>1. /\ cpu.rsp < USTACKTOP /\ cpu' = [cpu EXCEPT !.rsp = cpu.rsp + 1]
        /\ UNCHANGED <<mem, readonly, uxpage, upcall, ctx>>
    BY <1>6 DEF pop
  <2>2. cpu' \in Regs /\ cpu'.rip = cpu.rip /\ cpu'.rsp = cpu.rsp + 1
    BY <1>2, <2>1 DEF Regs
  <2>3. cpu.rsp + 1 \in 1 .. USTACKTOP
    BY <1>2, <2>1, Geometry
  <2> QED BY <1>1, <1>2, <2>1, <2>2, <2>3, UserStep
<1>7. CASE set_pgfault_handler
  <2>1. /\ UNCHANGED <<cpu, mem, readonly, ctx>> /\ uxpage' \in BOOLEAN /\ upcall' \in BOOLEAN
        /\ upcall' => uxpage'
    <3>1. UNCHANGED <<cpu, mem, readonly, ctx>>
      BY <1>7 DEF set_pgfault_handler
    <3>2. CASE ~ uxpage /\ uxpage' = TRUE /\ UNCHANGED upcall
      BY <1>2, <3>1, <3>2
    <3>3. CASE uxpage /\ ~ upcall /\ upcall' = TRUE /\ UNCHANGED uxpage
      BY <1>2, <3>1, <3>3
    <3> QED BY <1>7, <3>2, <3>3 DEF set_pgfault_handler
  <2> QED BY <1>1, <1>2, <2>1, UserStep
<1>8. CASE sys_page_map
  <2>1. UNCHANGED <<cpu, mem, uxpage, upcall, ctx>> /\ readonly' \in BOOLEAN
    BY <1>8 DEF sys_page_map
  <2> QED BY <1>1, <1>2, <2>1, UserStep
<1> QED BY <1>4, <1>5, <1>6, <1>7, <1>8

(* Faults of the program and of handlers. *)
LEMMA FaultsStep ==
  ASSUME IInv, data_fault \/ stack_fault
  PROVE  IInv'
BY FaultStep DEF data_fault, stack_fault, InUser, At, DATA, STACK

(* The upcall calls the handler: the return address is below the frame. *)
LEMMA CallStep ==
  ASSUME IInv, call_handler
  PROVE  IInv'
<1>1. cpu.rip = UPCALL /\ cpu.rip \notin UserCode /\ cpu.rip # DEAD
  BY Labels DEF call_handler, At
<1>2. CASE cpu.rsp - 1 \notin UxPage
  BY <1>1, <1>2, BottomStep DEF call_handler, GUARD
<1>3. CASE cpu.rsp - 1 \in UxPage
  <2>1. /\ mem' = [mem EXCEPT ![cpu.rsp - 1] = AFTER]
        /\ cpu' = [cpu EXCEPT !.rip = PROLOGUE, !.rsp = cpu.rsp - 1]
        /\ UNCHANGED <<readonly, uxpage, upcall, ctx>>
    BY <1>3 DEF call_handler
  <2>2. PICK c \in Regs, f \in Int :
          /\ c = ctx[Len(ctx)].cpu /\ f = FrameOf(c)
          /\ Saved(c, f, mem) /\ Progress(c, f, cpu, mem)
          /\ UXBASE <= f /\ f + 7 < UXSTACKTOP
          /\ \A a \in UxPage : a <= f + 7 => a \in Scratch
    BY <1>1, Top
  <2>3. /\ cpu \in Regs /\ mem \in Words /\ readonly \in BOOLEAN /\ ctx # <<>> /\ cpu.rsp = f
    BY <1>1, <2>2, Top DEF IInv, Types, Progress
  <2>4. cpu' \in Regs /\ cpu'.rip = PROLOGUE /\ cpu'.rsp = f - 1 /\ PROLOGUE \notin UserCode
    <3>1. PROLOGUE \in Codes /\ PROLOGUE \notin UserCode
      BY Labels
    <3>2. cpu.rsp - 1 = f - 1 /\ f - 1 \in Int
      BY <2>3
    <3>3. cpu' = [cpu EXCEPT !.rip = PROLOGUE, !.rsp = f - 1]
      BY <2>1, <3>2
    <3> QED BY <2>3, <3>1, <3>2, <3>3 DEF Regs
  <2>5. f - 1 \in UxPage /\ f - 1 \in Addrs /\ f - 1 \in Scratch
    BY <1>3, <2>2, <2>3, Geometry
  <2>6. mem' \in Words /\ mem'[f - 1] = AFTER /\ \A a \in Addrs : a # f - 1 => mem'[a] = mem[a]
    <3>1. AFTER \in Int
      BY Labels DEF AFTER
    <3> QED BY <2>1, <2>3, <2>5, <3>1 DEF Words
  <2>7. \A i \in 0 .. 7 : mem'[f + i] = mem[f + i]
    <3>1. \A i \in 0 .. 7 : f + i \in Addrs /\ f + i # f - 1
      BY <2>2, Geometry
    <3> QED BY <2>6, <3>1
  <2>8. Saved(c, f, mem') /\ mem'[f + utf_rsp] = c.rsp
    BY <1>1, <2>2, <2>7, Labels DEF Saved, Progress
  <2>9. Running(c, cpu', mem')
    BY <2>2, <2>4, <2>5, <2>6, <2>8, Labels DEF Running, Progress
  <2> QED BY <2>1, <2>2, <2>3, <2>4, <2>5, <2>6, <2>9, HandlerStep
<1> QED BY <1>2, <1>3

(* The handler makes room for local variables that fit the page. *)
LEMMA PrologueStep ==
  ASSUME IInv, Overrun = FALSE, NEW n \in Locals, prologue(n)
  PROVE  IInv'
<1>1. cpu.rip = PROLOGUE /\ cpu.rip \notin UserCode /\ cpu.rip # DEAD
  BY Labels DEF prologue, At
<1>2. CASE cpu.rsp - 1 \notin UxPage
  BY <1>1, <1>2, BottomStep DEF prologue, GUARD
<1>3. CASE cpu.rsp - 1 \in UxPage
  <2>1. /\ cpu.rsp - 1 - n \in UxPage
        /\ mem' = [mem EXCEPT ![cpu.rsp - 1] = cpu.rbp]
        /\ cpu' = [cpu EXCEPT !.rip = BODY, !.rsp = cpu.rsp - 1 - n, !.rbp = cpu.rsp - 1]
        /\ UNCHANGED <<readonly, uxpage, upcall, ctx>>
    BY <1>3 DEF prologue
  <2>2. PICK c \in Regs, f \in Int :
          /\ c = ctx[Len(ctx)].cpu /\ f = FrameOf(c)
          /\ Saved(c, f, mem) /\ Progress(c, f, cpu, mem)
          /\ UXBASE <= f /\ f + 7 < UXSTACKTOP
          /\ \A a \in UxPage : a <= f + 7 => a \in Scratch
    BY <1>1, Top
  <2>3. /\ cpu \in Regs /\ mem \in Words /\ readonly \in BOOLEAN /\ ctx # <<>> /\ cpu.rsp = f - 1
        /\ mem[f - 1] = AFTER
    BY <1>1, <2>2, Top DEF IInv, Types, Progress
  <2>4. PICK r \in Int : r = cpu.rsp - 1 - n /\ r \in UxPage /\ r <= f - 2
    <3>1. n \in Nat
      BY LocalsAssumption
    <3> QED BY <2>1, <2>3, <3>1, Geometry
  <2>5. /\ cpu' \in Regs /\ cpu'.rip = BODY /\ cpu'.rsp = r /\ cpu'.rbp = f - 2
        /\ BODY \notin UserCode
    <3>1. BODY \in Codes /\ BODY \notin UserCode
      BY Labels
    <3>2. cpu.rsp - 1 = f - 2 /\ f - 2 \in Int
      BY <2>3
    <3>3. cpu' = [cpu EXCEPT !.rip = BODY, !.rsp = r, !.rbp = f - 2]
      BY <2>1, <2>4, <3>2
    <3> QED BY <2>3, <3>1, <3>2, <3>3 DEF Regs
  <2>6. f - 2 \in UxPage /\ f - 2 \in Addrs /\ f - 2 \in Scratch /\ cpu.rsp - 1 = f - 2
    <3>1. cpu.rsp - 1 = f - 2
      BY <2>3
    <3> QED BY <1>3, <2>2, <3>1, Geometry
  <2>7. mem' \in Words /\ \A a \in Addrs : a # f - 2 => mem'[a] = mem[a]
    <3>1. cpu.rbp \in Int
      BY <2>3 DEF Regs
    <3> QED BY <2>1, <2>3, <2>6, <3>1 DEF Words
  <2>8. /\ \A i \in 0 .. 7 : mem'[f + i] = mem[f + i]
        /\ mem'[f - 1] = AFTER
    <3>1. f - 1 \in Addrs /\ f - 1 # f - 2
      BY <2>2, <2>6, Geometry
    <3>2. \A i \in 0 .. 7 : f + i \in Addrs /\ f + i # f - 2
      BY SMTT(30), <2>2, Geometry
    <3> QED BY <2>3, <2>7, <3>1, <3>2
  <2>9. Saved(c, f, mem') /\ mem'[f + utf_rsp] = c.rsp
    BY <1>1, <2>2, <2>8, Labels DEF Saved, Progress
  <2>10. Running(c, cpu', mem')
    <3>1. r <= f
      BY <2>4
    <3>2. Progress(c, f, cpu', mem')
      BY <2>4, <2>5, <2>8, <2>9, <3>1, Labels DEF Progress
    <3> QED BY <2>2, <2>9, <3>2 DEF Running
  <2> QED BY <2>1, <2>2, <2>3, <2>4, <2>5, <2>6, <2>7, <2>10, HandlerStep
<1> QED BY <1>2, <1>3

(* The handler writes to its local variables only. *)
LEMMA BodyStep ==
  ASSUME IInv, NEW v \in Values, body(v)
  PROVE  IInv'
<1>1. cpu.rip = BODY /\ cpu.rip \notin UserCode /\ cpu.rip # DEAD
  BY Labels DEF body, At
<1>2. PICK c \in Regs, f \in Int :
        /\ c = ctx[Len(ctx)].cpu /\ f = FrameOf(c)
        /\ Saved(c, f, mem) /\ Progress(c, f, cpu, mem)
        /\ UXBASE <= f /\ f + 7 < UXSTACKTOP
        /\ \A a \in UxPage : a <= f + 7 => a \in Scratch
  BY <1>1, Top
<1>3. /\ cpu \in Regs /\ mem \in Words /\ readonly \in BOOLEAN /\ ctx # <<>>
      /\ cpu.rsp \in UxPage /\ cpu.rsp <= f - 2 /\ cpu.rbp = f - 2 /\ mem[f - 1] = AFTER
      /\ cpu.rsp \in Int
  BY <1>1, <1>2, Top DEF IInv, Types, Progress, Regs
<1>4. PICK l \in {LEAVE, DEAD} : cpu' = [cpu EXCEPT !.rip = l, !.rax = v, !.fl = v]
  BY <1>3 DEF body
<1>5. /\ mem' = IF cpu.rsp < cpu.rbp THEN [mem EXCEPT ![cpu.rsp] = v] ELSE mem
      /\ readonly' \in BOOLEAN /\ UNCHANGED <<uxpage, upcall, ctx>>
  BY <1>3 DEF body
<1>6. /\ cpu' \in Regs /\ cpu'.rip = l /\ cpu'.rsp = cpu.rsp /\ cpu'.rbp = f - 2
      /\ l \notin UserCode
  <2>1. l \in Codes /\ l \notin UserCode /\ v \in Int
    BY Labels, ValuesAssumption
  <2> QED BY <1>3, <1>4, <2>1 DEF Regs
<1>7. cpu.rsp \in Scratch /\ cpu.rsp \in Addrs
  BY <1>2, <1>3, Geometry
<1>8. mem' \in Words /\ \A a \in Addrs : a # cpu.rsp \/ ~ (cpu.rsp < cpu.rbp) => mem'[a] = mem[a]
  <2>1. v \in Int
    BY ValuesAssumption
  <2> QED BY <1>3, <1>5, <1>7, <2>1 DEF Words
<1>9. \A i \in 0 .. 7 : mem'[f + i] = mem[f + i]
  <2>1. \A i \in 0 .. 7 : f + i \in Addrs
    BY <1>2, Geometry
  <2>2. cpu.rsp \in Int /\ cpu.rsp <= f - 2
    BY <1>3
  <2>3. \A i \in 0 .. 7 : f + i # cpu.rsp
    BY <2>2
  <2> QED BY <1>8, <2>1, <2>3
<1>10. mem'[f - 1] = AFTER
  <2>1. UXBASE <= cpu.rsp
    BY <1>3, Geometry
  <2>2. f - 1 # cpu.rsp /\ UXBASE <= f - 1 /\ f - 1 < UXSTACKTOP
    BY <1>2, <1>3, <2>1, Geometry
  <2>3. f - 1 \in Addrs
    BY <2>2, Geometry
  <2> QED BY <1>3, <1>8, <2>2, <2>3
<1>11. Saved(c, f, mem') /\ mem'[f + utf_rsp] = c.rsp
  BY <1>1, <1>2, <1>9, Labels DEF Saved, Progress
<1>12. l = LEAVE => Running(c, cpu', mem')
  BY <1>2, <1>3, <1>6, <1>10, <1>11, Labels DEF Running, Progress
<1>13. \A a \in Addrs : a \notin Scratch => mem'[a] = mem[a]
  BY <1>7, <1>8
<1> QED BY <1>2, <1>3, <1>5, <1>6, <1>8, <1>12, <1>13, HandlerStep

(* The handler returns to the upcall with rsp at the frame. *)
LEMMA LeaveStep ==
  ASSUME IInv, leave
  PROVE  IInv'
<1>1. cpu.rip = LEAVE /\ cpu.rip \notin UserCode /\ cpu.rip # DEAD
  BY Labels DEF leave, At
<1>2. PICK c \in Regs, f \in Int :
        /\ c = ctx[Len(ctx)].cpu /\ f = FrameOf(c)
        /\ Saved(c, f, mem) /\ Progress(c, f, cpu, mem)
        /\ UXBASE <= f /\ f + 7 < UXSTACKTOP
  BY <1>1, Top
<1>3. /\ cpu \in Regs /\ mem \in Words /\ readonly \in BOOLEAN /\ ctx # <<>>
      /\ cpu.rsp \in UxPage /\ cpu.rsp <= f - 2 /\ cpu.rbp = f - 2 /\ mem[f - 1] = AFTER
      /\ mem[f + utf_rsp] = c.rsp
  BY <1>1, <1>2, Top, Labels DEF IInv, Types, Progress
<1>4. /\ cpu' = [cpu EXCEPT !.rip = mem[cpu.rbp + 1], !.rsp = cpu.rbp + 2, !.rbp = mem[cpu.rbp]]
      /\ UNCHANGED <<mem, readonly, uxpage, upcall, ctx>>
  BY DEF leave
<1>5. cpu.rbp + 1 = f - 1 /\ cpu.rbp + 2 = f
  BY <1>3
<1>6. f - 2 \in Addrs /\ f \in UxPage
  <2>1. cpu.rsp \in Int /\ UXBASE <= cpu.rsp
    BY <1>3, Geometry
  <2>2. UXBASE <= f - 2 /\ f - 2 < UXSTACKTOP
    BY <1>2, <1>3, <2>1, Geometry
  <2> QED BY <1>2, <2>2, Geometry
<1>7. PICK b \in Int : b = mem[cpu.rbp]
  BY <1>3, <1>6 DEF Words
<1>8. cpu' = [cpu EXCEPT !.rip = AFTER, !.rsp = f, !.rbp = b]
  BY <1>3, <1>4, <1>5, <1>7
<1>9. cpu' \in Regs /\ cpu'.rip = AFTER /\ cpu'.rsp = f /\ AFTER \notin UserCode
  <2>1. AFTER \in Codes /\ AFTER \notin UserCode
    BY Labels
  <2> QED BY <1>3, <1>8, <2>1 DEF Regs
<1>10. Running(c, cpu', mem')
  BY <1>2, <1>3, <1>4, <1>6, <1>9, Labels DEF Running, Progress
<1> QED BY <1>2, <1>3, <1>4, <1>6, <1>9, <1>10, HandlerStep

(* The saved rsp makes room for the return address. *)
LEMMA AdjustStep ==
  ASSUME IInv, adjust
  PROVE  IInv'
<1>1. cpu.rip = AFTER /\ cpu.rip \notin UserCode /\ cpu.rip # DEAD
  BY Labels DEF adjust, At
<1>2. PICK c \in Regs, f \in Int :
        /\ c = ctx[Len(ctx)].cpu /\ f = FrameOf(c)
        /\ Saved(c, f, mem) /\ Progress(c, f, cpu, mem)
        /\ UXBASE <= f /\ f + 7 < UXSTACKTOP
        /\ \A a \in UxPage : a <= f + 7 => a \in Scratch
  BY <1>1, Top
<1>3. /\ cpu \in Regs /\ mem \in Words /\ readonly \in BOOLEAN /\ ctx # <<>> /\ cpu.rsp = f
      /\ mem[f + utf_rsp] = c.rsp /\ mem[f + utf_rip] = c.rip /\ c.rsp \in Int /\ c.rip \in Int
  BY ZenonT(60), <1>1, <1>2, Top, Labels DEF IInv, Types, Progress, Saved, Regs
<1>4. /\ mem' = [mem EXCEPT ![f + 7] = mem[f + 7] - 1]
      /\ cpu' = [cpu EXCEPT !.rip = STORE, !.rax = mem[f + 5], !.rbx = mem[f + 7] - 1]
      /\ UNCHANGED <<readonly, uxpage, upcall, ctx>>
  BY <1>3 DEF adjust
<1>5. f + 7 \in UxPage /\ f + 7 \in Addrs /\ f \in UxPage /\ f + 7 \in Scratch
  <2>1. f + 7 \in UxPage /\ f \in UxPage
    BY <1>2, Geometry
  <2> QED BY <1>2, <2>1, Geometry
<1>6. PICK q \in Int : q = c.rsp - 1
  BY <1>3
<1>7. cpu' = [cpu EXCEPT !.rip = STORE, !.rax = c.rip, !.rbx = q] /\ mem' = [mem EXCEPT ![f + 7] = q]
  BY <1>3, <1>4, <1>6
<1>8. /\ cpu' \in Regs /\ cpu'.rip = STORE /\ cpu'.rsp = f /\ cpu'.rax = c.rip /\ cpu'.rbx = q
      /\ STORE \notin UserCode
  <2>1. STORE \in Codes /\ STORE \notin UserCode
    BY Labels
  <2> QED BY <1>3, <1>7, <2>1 DEF Regs
<1>9. mem' \in Words /\ mem'[f + 7] = q /\ \A a \in Addrs : a # f + 7 => mem'[a] = mem[a]
  BY <1>3, <1>5, <1>7 DEF Words
<1>10. Saved(c, f, mem')
  <2>1. \A i \in 0 .. 6 : f + i \in Addrs /\ f + i # f + 7
    BY <1>2, Geometry
  <2>2. \A i \in 0 .. 6 : mem'[f + i] = mem[f + i]
    BY <1>9, <2>1
  <2> QED BY <1>2, <2>2 DEF Saved
<1>11. Running(c, cpu', mem')
  BY <1>2, <1>5, <1>6, <1>8, <1>9, <1>10, Labels DEF Running, Progress
<1>12. \A a \in Addrs : a \notin Scratch => mem'[a] = mem[a]
  BY <1>5, <1>9
<1> QED BY <1>2, <1>3, <1>4, <1>5, <1>8, <1>9, <1>11, <1>12, HandlerStep

(* The return address goes to the word that is free for it. *)
LEMMA StoreStep ==
  ASSUME IInv, store
  PROVE  IInv'
<1>1. cpu.rip = STORE /\ cpu.rip \notin UserCode /\ cpu.rip # DEAD
  BY Labels DEF store, At
<1>2. CASE cpu.rbx \notin Addrs \/ (cpu.rbx \in UserStack /\ readonly)
  BY <1>1, <1>2, FaultStep DEF store, STACK, GUARD
<1>3. CASE ~ (cpu.rbx \notin Addrs \/ (cpu.rbx \in UserStack /\ readonly))
  <2>1. /\ mem' = [mem EXCEPT ![cpu.rbx] = cpu.rax] /\ cpu' = [cpu EXCEPT !.rip = POP]
        /\ UNCHANGED <<readonly, uxpage, upcall, ctx>> /\ cpu.rbx \in Addrs
    BY <1>3 DEF store
  <2>2. PICK c \in Regs, f \in Int :
          /\ c = ctx[Len(ctx)].cpu /\ f = FrameOf(c)
          /\ Saved(c, f, mem) /\ Progress(c, f, cpu, mem)
          /\ UXBASE <= f /\ f + 7 < UXSTACKTOP
          /\ c.rsp - 1 \in Addrs => c.rsp - 1 \in Scratch
    BY <1>1, Top
  <2>3. /\ cpu \in Regs /\ mem \in Words /\ readonly \in BOOLEAN /\ ctx # <<>> /\ cpu.rsp = f
        /\ cpu.rax = c.rip /\ cpu.rbx = c.rsp - 1 /\ mem[f + utf_rsp] = c.rsp - 1
        /\ cpu.rax \in Int
    BY <1>1, <2>2, Top, Labels DEF IInv, Types, Progress, Regs
  <2>4. PICK q \in Addrs : q = c.rsp - 1 /\ q \in Scratch /\ q = cpu.rbx
    BY <2>1, <2>2, <2>3
  <2>5. cpu' \in Regs /\ cpu'.rip = POP /\ cpu'.rsp = f /\ POP \notin UserCode /\ f \in UxPage
    <3>1. POP \in Codes /\ POP \notin UserCode
      BY Labels
    <3>2. f \in UxPage
      BY <2>2, Geometry
    <3> QED BY <2>1, <2>3, <3>1, <3>2 DEF Regs
  <2>6. mem' \in Words /\ mem'[q] = c.rip /\ \A a \in Addrs : a # q => mem'[a] = mem[a]
    BY <2>1, <2>3, <2>4 DEF Words
  <2>7. \A i \in 0 .. 7 : f + i \in Addrs /\ f + i # q
    <3>1. \A i \in 0 .. 7 : f + i \in UxPage
      BY <2>2, Geometry
    <3>2. c.rsp \in 1 .. USTACKTOP \/ (c.rsp \in UxPage /\ f = c.rsp - 9)
      <4>1. c.rsp \in 1 .. USTACKTOP \/ c.rsp \in UxPage
        <5>1. Len(ctx) \in 1 .. Len(ctx)
          BY <1>1, Top
        <5> QED BY <2>2, <5>1, ContextFacts
      <4> QED BY <2>2, <4>1, FrameOfFacts
    <3>3. CASE c.rsp \in 1 .. USTACKTOP
      <4>1. q < UXBASE
        BY <2>4, <3>3, Geometry
      <4>2. \A i \in 0 .. 7 : ~ (f + i < UXBASE)
        BY <2>2, Geometry
      <4> QED BY <3>1, <4>1, <4>2, Geometry
    <3>4. CASE c.rsp \in UxPage /\ f = c.rsp - 9
      <4>1. c.rsp \in Int
        BY <3>4, Geometry
      <4>2. q = f + 8
        BY <2>4, <3>4, <4>1
      <4> QED BY <3>1, <4>2, Geometry
    <3> QED BY <3>2, <3>3, <3>4
  <2>8. \A i \in 0 .. 7 : mem'[f + i] = mem[f + i]
    BY <2>6, <2>7
  <2>9. Saved(c, f, mem') /\ mem'[f + utf_rsp] = c.rsp - 1
    BY <2>2, <2>3, <2>8 DEF Saved
  <2>10. Running(c, cpu', mem')
    BY <2>2, <2>4, <2>5, <2>6, <2>9, Labels DEF Running, Progress
  <2>11. \A a \in Addrs : a \notin Scratch => mem'[a] = mem[a]
    BY <2>4, <2>6
  <2> QED BY <2>1, <2>2, <2>3, <2>5, <2>6, <2>10, <2>11, HandlerStep
<1> QED BY <1>2, <1>3

(* The return: the registers are those of the code the fault interrupted. *)
LEMMA ReturnStep ==
  ASSUME IInv, return
  PROVE  IInv' /\ cpu' = ctx[Len(ctx)].cpu
<1>1. cpu.rip = POP /\ cpu.rip \notin UserCode /\ cpu.rip # DEAD
  BY Labels DEF return, At
<1>2. PICK c \in Regs, f \in Int :
        /\ c = ctx[Len(ctx)].cpu /\ f = FrameOf(c)
        /\ Saved(c, f, mem) /\ Progress(c, f, cpu, mem)
  BY <1>1, Top
<1>3. /\ cpu.rsp = f /\ mem[f + utf_rsp] = c.rsp - 1 /\ mem[c.rsp - 1] = c.rip /\ c.rsp \in Int
  BY <1>1, <1>2, Labels DEF Progress, Regs
<1>4. cpu' = [rip |-> mem[mem[f + 7]], rsp |-> mem[f + 7] + 1, rax |-> mem[f + 4],
              rbx |-> mem[f + 3], rbp |-> mem[f + 2], fl |-> mem[f + 6]]
  BY <1>3 DEF return
<1>5. cpu' = [rip |-> c.rip, rsp |-> c.rsp, rax |-> c.rax, rbx |-> c.rbx, rbp |-> c.rbp, fl |-> c.fl]
  <2>1. mem[f + 7] + 1 = c.rsp /\ mem[mem[f + 7]] = c.rip
    BY <1>3
  <2> QED BY <1>2, <1>4, <2>1 DEF Saved
<1>6. cpu' = c
  BY <1>5 DEF Regs
<1>7. ctx' = SubSeq(ctx, 1, Len(ctx) - 1) /\ UNCHANGED <<mem, readonly, uxpage, upcall>>
  BY DEF return
<1>8. ctx \in Seq(Contexts) /\ Len(ctx) \in Nat /\ Len(ctx) >= 1 /\ upcall /\ uxpage
  BY <1>1, Top DEF IInv, Types
<1>9. /\ ctx' \in Seq(Contexts) /\ Len(ctx') = Len(ctx) - 1
      /\ \A i \in 1 .. Len(ctx) - 1 : ctx'[i] = ctx[i]
  <2>1. PICK n \in Nat : n = Len(ctx) - 1
    BY <1>8
  <2>2. \A i \in 1 .. n : ctx[i] \in Contexts
    BY <1>8, <2>1
  <2>3. /\ SubSeq(ctx, 1, n) \in Seq(Contexts) /\ Len(SubSeq(ctx, 1, n)) = n
        /\ \A i \in 1 .. n : SubSeq(ctx, 1, n)[i] = ctx[i]
    BY <1>8, <2>1, <2>2, SubSeqProperties
  <2> QED BY <1>7, <2>1, <2>3
<1>10. PICK n \in Nat : n = Len(ctx) - 1
  BY <1>8
<1>11. /\ n + 1 = 1 => c.rip \in UserCode /\ c.rsp \in 1 .. USTACKTOP
       /\ n + 1 # 1 => c.rip \in {BODY, STORE} /\ c.rsp \in UxPage
  <2>1. n + 1 = Len(ctx) /\ Len(ctx) \in 1 .. Len(ctx)
    BY <1>8, <1>10
  <2> QED BY <1>2, <2>1 DEF IInv, Chain
<1>12. Types'
  <2>1. c.rsp \in Addrs \cup {USTACKTOP}
    BY <1>3, <1>11, Geometry
  <2>2. ctx' = <<>> <=> n = 0
    BY <1>9, <1>10
  <2>3. n = 0 => c.rip \in UserCode /\ c.rsp \in 1 .. USTACKTOP
    BY <1>11
  <2>4. n # 0 => c.rip \notin UserCode
    BY <1>11, Labels
  <2> QED BY <1>6, <1>7, <1>8, <1>9, <2>1, <2>2, <2>3, <2>4 DEF IInv, Types
<1>13. \A i \in 1 .. n : i \in 1 .. Len(ctx) /\ i \in 1 .. Len(ctx) - 1 /\ ctx'[i] = ctx[i]
  BY <1>9, <1>10
<1>14. Len(ctx') = n
  BY <1>9, <1>10
<1>15. Chain'
  <2>1. ASSUME NEW i \in 2 .. n, NEW j \in i .. n PROVE ctx'[j].cpu.rsp <= ctx'[i].cpu.rsp
    <3>1. i \in 1 .. n /\ j \in 1 .. n /\ i \in 2 .. Len(ctx) /\ j \in i .. Len(ctx)
      BY <1>10
    <3> QED BY <1>13, <3>1 DEF IInv, Chain
  <2>2. ASSUME NEW i \in 1 .. n
        PROVE  IF i = 1 THEN ctx'[i].cpu.rip \in UserCode /\ ctx'[i].cpu.rsp \in 1 .. USTACKTOP
                        ELSE ctx'[i].cpu.rip \in {BODY, STORE} /\ ctx'[i].cpu.rsp \in UxPage
    BY <1>13 DEF IInv, Chain
  <2> QED BY <1>14, <2>1, <2>2 DEF Chain
<1>16. Suspended'
  <2>1. ASSUME NEW i \in 1 .. n - 1 PROVE Running(ctx'[i].cpu, ctx'[i + 1].cpu, mem')
    <3>1. i \in 1 .. n /\ i + 1 \in 1 .. n
      BY <1>10
    <3> QED BY <1>7, <1>13, <3>1 DEF IInv, Suspended
  <2> QED BY <1>14, <2>1 DEF Suspended
<1>17. Current'
  <2>1. ASSUME ctx' # <<>> PROVE Running(ctx'[n].cpu, c, mem)
    <3>1. n \in 1 .. n /\ n \in 1 .. Len(ctx) - 1 /\ n + 1 = Len(ctx)
      BY <1>9, <1>10, <1>14, <2>1
    <3>2. Running(ctx[n].cpu, ctx[n + 1].cpu, mem)
      BY <3>1 DEF IInv, Suspended
    <3> QED BY <1>2, <1>13, <3>1, <3>2
  <2> QED BY <1>6, <1>7, <1>14, <2>1 DEF Current
<1>18. Intact'
  BY <1>7, <1>13, <1>14 DEF IInv, Intact, Live
<1> QED BY <1>2, <1>6, <1>12, <1>15, <1>16, <1>17, <1>18 DEF IInv

(* Only a return makes the chain shorter, and it restores the registers. *)
Restores == Len(ctx') < Len(ctx) => cpu' = ctx[Len(ctx)].cpu

(* Whatever shortens the chain is a return. *)
LEMMA CtxStep ==
  ASSUME IInv, Next
  PROVE  Restores
<1>1. Len(ctx) \in Nat /\ \A r : Len(Append(ctx, r)) = Len(ctx) + 1
  BY DEF IInv, Types
<1>2. CASE return
  BY <1>2, ReturnStep DEF Restores
<1>3. CASE ctx' = ctx \/ \E r : ctx' = Append(ctx, r)
  BY <1>1, <1>3 DEF Restores
<1>4. \A va : page_fault_handler(va) => ctx' = ctx \/ \E r : ctx' = Append(ctx, r)
  BY DEF page_fault_handler
<1>5. return \/ ctx' = ctx \/ \E r : ctx' = Append(ctx, r)
  BY <1>4 DEF Next, compute, push, body, pop, set_pgfault_handler, sys_page_map, data_fault,
              stack_fault, call_handler, prologue, leave, adjust, store, vars
<1> QED BY <1>2, <1>3, <1>5

(* Every step keeps the invariant. *)
LEMMA StepIInv ==
  ASSUME IInv, Overrun = FALSE, [Next]_vars
  PROVE  IInv'
<1>1. CASE UNCHANGED vars
  BY <1>1 DEF vars, IInv, Types, Chain, Suspended, Current, Intact, Live
<1>2. CASE Next
  <2>1. ASSUME NEW v \in Values, compute(v) \/ push(v) PROVE IInv'
    BY <2>1, ProgramStep
  <2>2. CASE pop \/ set_pgfault_handler \/ sys_page_map
    BY <2>2, ProgramStep
  <2>3. ASSUME NEW v \in Values, body(v) PROVE IInv'
    BY <2>3, BodyStep
  <2>4. ASSUME NEW n \in Locals, prologue(n) PROVE IInv'
    BY <2>4, PrologueStep
  <2>5. CASE data_fault \/ stack_fault \/ call_handler \/ leave \/ adjust \/ store \/ return
    BY <2>5, FaultsStep, CallStep, LeaveStep, AdjustStep, StoreStep, ReturnStep
  <2>6. CASE UNCHANGED vars
    BY <1>1, <2>6
  <2> QED BY <1>2, <2>1, <2>2, <2>3, <2>4, <2>5, <2>6 DEF Next
<1> QED BY <1>1, <1>2

(* The invariant implies the properties of UxStack. *)
LEMMA IInvImplies ==
  ASSUME IInv
  PROVE  SuspendedIntact
<1>1. TypeOK
  <2>1. cpu.rip \in Codes /\ mem \in [Addrs -> Int]
    BY DEF IInv, Types, Regs, Words
  <2>2. ctx = <<>> <=> cpu.rip \in UserCode \/ ~ upcall
    BY DEF IInv, Types
  <2> QED BY <2>1, <2>2 DEF TypeOK, IInv, Types
<1>2. DOMAIN ctx = 1 .. Len(ctx)
  BY DEF IInv, Types
<1> QED BY <1>1, <1>2 DEF SuspendedIntact, IInv, Intact

----------------------------------------------------------------------------
(* The invariant holds as long as the handlers' local variables fit the page of
   the exception stack.                                                    *)
LEMMA Invariance ==
  ASSUME Overrun = FALSE
  PROVE  Spec => []IInv
<1>1. IInv /\ [Next]_vars => IInv'
  BY StepIInv
<1> QED BY <1>1, InitIInv, PTL DEF Spec

(* While faults are handled, at any depth, no word on the stack of the code that
   they interrupted changes.                                               *)
THEOREM SuspendedCorrect ==
  ASSUME Overrun = FALSE
  PROVE  Spec => []SuspendedIntact
BY Invariance, IInvImplies, PTL

(* _pgfault_upcall returns to the interrupted code with all its registers. *)
THEOREM ReturnCorrect ==
  ASSUME Overrun = FALSE
  PROVE  Spec => FaultsReturn
<1>1. IInv /\ [Next]_vars => [Restores]_vars
  BY CtxStep
<1> QED BY <1>1, Invariance, PTL DEF Spec, FaultsReturn, Restores
=============================================================================
