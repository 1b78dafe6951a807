----------------------------- MODULE TlbProofs ------------------------------
(***************************************************************************)
(* Proofs about Tlb for any number of processors, environments, frames and *)
(* pages of any size.                                                      *)
(***************************************************************************)
EXTENDS Tlb, TLAPS, NaturalsInduction, WellFoundedInduction

(* A page is in a directory. *)
DirsThere == \A e \in Env, p \in Page : pt[e][p] # None => Dir(p) \in dirs[e]

(* The inductive invariant: translations are coherent because tables in use
   belong to one processor, and the kernel does not fault because they are.
   Where the walk of page_remove() gives up, the processor has nothing to flush:
   its own environment has the first directory.                            *)
IInv == TablesInUse /\ TlbCoherent /\ DirsThere

----------------------------------------------------------------------------
(* Entries *)

(* Entries of page tables, and the empty table. *)
LEMMA EntryFacts ==
  /\ None \in Entry
  /\ \A x \in Entry : x = None <=> x.pa = "none"
  /\ \A f \in Frame, w \in BOOLEAN : [pa |-> f, w |-> w] \in Entry
  /\ \A x \in Entry : x.w \in BOOLEAN
  /\ None.w = FALSE
  /\ Empty \in [Page -> Entry]
<1>1. None \in Entry /\ None.w = FALSE /\ None.pa = "none"
  BY DEF Entry, None
<1>2. Empty \in [Page -> Entry]
  BY <1>1 DEF Empty
<1>3. \A x \in Entry : x = None <=> x.pa = "none"
  BY <1>1, TlbAssumption DEF Entry
<1>4. \A f \in Frame, w \in BOOLEAN : [pa |-> f, w |-> w] \in Entry
  BY DEF Entry
<1>5. \A x \in Entry : x.w \in BOOLEAN
  BY <1>1 DEF Entry
<1> QED BY <1>1, <1>2, <1>3, <1>4, <1>5

(* What every state of the invariant says about types. *)
LEMMA Types ==
  ASSUME TypeOK
  PROVE  /\ pt \in [Env -> [Page -> Entry]]
         /\ tlb \in [CPU -> [Page -> Entry]]
         /\ curenv \in [CPU -> Env \cup {NoEnv}]
         /\ cr3 \in [CPU -> Env \cup {NoEnv}]
         /\ cr3 = curenv
         /\ status \in [Env -> Status]
         /\ parent \in [Env -> Env \cup {NoEnv}]
         /\ dirs \in [Env -> SUBSET Dirs]
         /\ monitor \in BOOLEAN
BY DEF TypeOK

(* The directories of pages; the first is that of page 0. *)
LEMMA DirFacts ==
  /\ \A p \in Page : Dir(p) \in Dirs
  /\ 0 \in Page /\ 0 \in Dirs /\ NUser - 1 \in Page
<1>1. 0 \in Page /\ NUser - 1 \in Page
  BY TlbAssumption DEF Page
<1>2. Dir(0) = 0
  BY TlbAssumption DEF Dir
<1>3. \A p \in Page : Dir(p) \in Dirs
  BY DEF Dirs
<1> QED BY <1>1, <1>2, <1>3

(* page_insert() adds a directory at most. *)
LEMMA DirsStep ==
  ASSUME TypeOK, NEW e \in Env, NEW p \in Page,
         dirs' \in {dirs, [dirs EXCEPT ![e] = @ \cup {Dir(p)}]}
  PROVE  dirs' \in [Env -> SUBSET Dirs] /\ \A x \in Env : dirs[x] \subseteq dirs'[x]
BY Types, DirFacts

----------------------------------------------------------------------------
(* Leaving the kernel: a call on processor c that has made the statuses st
   may go to the scheduler.                                                *)
Ready(c, st) ==
  /\ st \in [Env -> Status]
  /\ \A d \in CPU \ {c} : curenv[d] # NoEnv =>
       curenv[d] # curenv[c] /\ st[curenv[d]] \in {"running", "dying"}

(* The processor has loaded other tables, or the same ones again. *)
Switched(c) ==
  /\ tlb' = [tlb EXCEPT ![c] = Empty]
  /\ \E e \in Env \cup {NoEnv} : /\ curenv' = [curenv EXCEPT ![c] = e]
                                 /\ cr3' = [cr3 EXCEPT ![c] = e]

InUse == \A c \in CPU : cr3[c] # NoEnv =>
           /\ \/ status[cr3[c]] \in {"running", "dying"}
              \/ monitor /\ status[cr3[c]] = "recv"
           /\ \A d \in CPU : cr3[d] = cr3[c] => d = c

(* env_run() keeps every environment on one processor. *)
LEMMA EnvRunCorrect ==
  ASSUME TypeOK, ~ monitor, NEW c \in CPU, NEW st, Ready(c, st),
         NEW e \in Env, NEW cur \in {NoEnv, curenv[c]}, env_run(c, e, st, cur),
         st[e] = "runnable" \/ (e = cur /\ st[e] = "running"),
         InUse
  PROVE  Switched(c) /\ status' \in [Env -> Status] /\ InUse' /\ monitor' = monitor
<1>1. Switched(c) /\ monitor' = monitor
  BY DEF env_run, load, Switched
<1>2. status' \in [Env -> Status]
  BY DEF env_run, Ready, Status
<1>3. InUse'
  <2> SUFFICES ASSUME NEW d \in CPU, cr3'[d] # NoEnv
               PROVE  /\ status'[cr3'[d]] \in {"running", "dying"}
                      /\ \A x \in CPU : cr3'[x] = cr3'[d] => x = d
    BY DEF InUse
  <2>1. \A x \in CPU \ {c} : /\ cr3'[x] = cr3[x]
                             /\ cr3[x] # NoEnv => /\ cr3[x] \in Env \ {e, curenv[c]}
                                                  /\ st[cr3[x]] \in {"running", "dying"}
    BY Types, TlbAssumption DEF env_run, load, Ready
  <2>2. cr3'[c] = e /\ status'[e] = "running" /\ e # NoEnv
    BY Types, TlbAssumption DEF env_run, load
  <2>3. \A x \in Env \ {e, curenv[c]} : status'[x] = st[x]
    BY TlbAssumption DEF env_run
  <2>4. CASE d = c
    BY <2>4, <2>1, <2>2
  <2>5. CASE d # c
    BY <2>5, <2>1, <2>2, <2>3 DEF InUse
  <2> QED BY <2>4, <2>5
<1> QED BY <1>1, <1>2, <1>3

(* sched_halt() leaves no tables loaded, or stays in the monitor with those of a
   receiver, when no other processor has any loaded.                       *)
LEMMA SchedHaltCorrect ==
  ASSUME TypeOK, ~ monitor, NEW c \in CPU, NEW st, Ready(c, st),
         NEW cur \in {NoEnv, curenv[c]}, cur # NoEnv => st[cur] \in {"running", "recv"},
         sched_halt(c, st, cur), InUse
  PROVE  /\ Switched(c) \/ (cur # NoEnv /\ UNCHANGED <<curenv, cr3, tlb>>)
         /\ status' \in [Env -> Status] /\ InUse' /\ monitor' \in BOOLEAN
<1>1. status' = st /\ st \in [Env -> Status] /\ monitor' \in BOOLEAN
  BY Types DEF sched_halt, Ready
<1>2. CASE NothingRuns(st) /\ cur # NoEnv
  <2>1. UNCHANGED <<curenv, cr3, tlb>> /\ monitor' = TRUE
    BY <1>2, Types DEF sched_halt
  <2>2. \A d \in CPU \ {c} : cr3[d] = NoEnv
    BY <1>2, Types DEF Ready, NothingRuns
  <2>3. cr3[c] = cur /\ cur \in Env /\ st[cur] = "recv"
    BY <1>2, Types DEF NothingRuns
  <2>4. InUse'
    BY <1>1, <2>1, <2>2, <2>3 DEF InUse
  <2> QED BY <1>1, <1>2, <2>1, <2>4
<1>3. CASE ~ (NothingRuns(st) /\ cur # NoEnv)
  <2>1. load(c, NoEnv)
    BY <1>3 DEF sched_halt
  <2>2. Switched(c)
    BY <2>1 DEF load, Switched
  <2>3. cr3'[c] = NoEnv /\ \A x \in CPU \ {c} : cr3'[x] = cr3[x]
    BY <2>1, Types DEF load
  <2>4. InUse'
    BY <1>1, <2>3, Types DEF InUse, Ready
  <2> QED BY <1>1, <2>2, <2>4
<1> QED BY <1>2, <1>3

(* sched_yield() leaves the CPU with tables that are in use. *)
LEMMA SchedYieldCorrect ==
  ASSUME TypeOK, ~ monitor, NEW c \in CPU, NEW st, Ready(c, st),
         NEW cur \in {NoEnv, curenv[c]}, cur # NoEnv => st[cur] \in {"running", "recv"},
         sched_yield(c, st, cur), InUse
  PROVE  /\ Switched(c) \/ (cur # NoEnv /\ UNCHANGED <<curenv, cr3, tlb>>)
         /\ status' \in [Env -> Status] /\ InUse' /\ monitor' \in BOOLEAN
<1>1. CASE \E e \in Env : st[e] = "runnable" /\ env_run(c, e, st, cur)
  BY <1>1, EnvRunCorrect, Types
<1>2. CASE cur # NoEnv /\ st[cur] = "running" /\ env_run(c, cur, st, cur)
  <2>1. cur \in Env
    BY <1>2, Types
  <2> QED BY <1>2, <2>1, EnvRunCorrect, Types
<1>3. CASE sched_halt(c, st, cur)
  BY <1>3, SchedHaltCorrect
<1> QED BY <1>1, <1>2, <1>3 DEF sched_yield

(* A processor that switches tables keeps nothing cached, and the others keep
   what they have if their own tables stay as they are.                    *)
LEMMA SwitchCoherent ==
  ASSUME TypeOK, TlbCoherent, NEW c \in CPU, Switched(c),
         \A d \in CPU \ {c} : cr3[d] # NoEnv => pt'[cr3[d]] = pt[cr3[d]]
  PROVE  TlbCoherent' /\ tlb' \in [CPU -> [Page -> Entry]]
           /\ curenv' \in [CPU -> Env \cup {NoEnv}] /\ cr3' = curenv'
<1>1. tlb' \in [CPU -> [Page -> Entry]] /\ curenv' \in [CPU -> Env \cup {NoEnv}]
        /\ cr3' = curenv'
  BY Types, EntryFacts DEF Switched
<1>2. TlbCoherent'
  <2> SUFFICES ASSUME NEW d \in CPU, NEW p \in Page, tlb'[d][p] # None
               PROVE  /\ cr3'[d] # NoEnv
                      /\ tlb'[d][p].pa = pt'[cr3'[d]][p].pa
                      /\ tlb'[d][p].w => pt'[cr3'[d]][p].w
    BY DEF TlbCoherent
  <2>1. d # c
    BY Types DEF Switched, Empty
  <2>2. tlb'[d] = tlb[d] /\ cr3'[d] = cr3[d]
    BY <2>1, Types DEF Switched
  <2> QED BY <2>1, <2>2 DEF TlbCoherent
<1> QED BY <1>1, <1>2

----------------------------------------------------------------------------
(* Changing an entry *)

(* The tables of e may be changed from processor c: no other has them loaded. *)
Private(c, e) == \A d \in CPU \ {c} : cr3[d] # e

(* An entry that is not None names a frame. *)
LEMMA MappedFrame ==
  ASSUME TypeOK, NEW e \in Env, NEW p \in Page, pt[e][p] # None
  PROVE  pt[e][p].pa \in Frame
BY Types DEF Entry

(* tlb_invalidate() on the local processor is enough. *)
LEMMA InvalidateCoherent ==
  ASSUME TypeOK, TlbCoherent, NEW c \in CPU, NEW e \in Env, NEW p \in Page,
         NEW x \in Entry, Private(c, e),
         pt' = [pt EXCEPT ![e][p] = x],
         \/ tlb' = tlb_invalidate(c, e, p)
         \/ tlb' = tlb /\ (pt[e][p] = None \/ curenv[c] # e),
         UNCHANGED cr3
  PROVE  TlbCoherent' /\ tlb' \in [CPU -> [Page -> Entry]] /\ pt' \in [Env -> [Page -> Entry]]
<1>1. tlb' \in [CPU -> [Page -> Entry]]
  <2>1. [tlb EXCEPT ![c][p] = None] \in [CPU -> [Page -> Entry]]
    BY Types, EntryFacts
  <2> QED BY <2>1, Types DEF tlb_invalidate
<1>2. pt' \in [Env -> [Page -> Entry]]
  BY Types
<1>3. TlbCoherent'
  <2> SUFFICES ASSUME NEW d \in CPU, NEW q \in Page, tlb'[d][q] # None
               PROVE  /\ cr3[d] # NoEnv
                      /\ tlb'[d][q].pa = pt'[cr3[d]][q].pa
                      /\ tlb'[d][q].w => pt'[cr3[d]][q].w
    BY DEF TlbCoherent
  <2>1. tlb'[d][q] = tlb[d][q]
    BY Types DEF tlb_invalidate
  <2>2. /\ cr3[d] # NoEnv
        /\ tlb[d][q].pa = pt[cr3[d]][q].pa
        /\ tlb[d][q].w => pt[cr3[d]][q].w
    BY <2>1 DEF TlbCoherent
  <2>3. cr3[d] # e \/ q # p
    <3> SUFFICES ASSUME cr3[d] = e, q = p  PROVE FALSE
      OBVIOUS
    <3>1. d = c /\ curenv[c] = e
      BY Types DEF Private
    <3>2. CASE tlb' = tlb_invalidate(c, e, p)
      BY <3>1, <3>2, Types DEF tlb_invalidate
    <3>3. CASE tlb' = tlb /\ (pt[e][p] = None \/ curenv[c] # e)
      BY <3>1, <3>3, <2>1, <2>2, EntryFacts, Types
    <3> QED BY <3>2, <3>3
  <2>4. pt'[cr3[d]][q] = pt[cr3[d]][q]
    BY <2>2, <2>3, Types
  <2> QED BY <2>1, <2>2, <2>4
<1> QED BY <1>1, <1>2, <1>3

(* An entry that a walk of the kernel does not find is none, or that of an
   environment without the first directory, which the calling one has.     *)
LEMMA WalkFacts ==
  ASSUME DirsThere, NEW e \in Env, NEW p \in Page
  PROVE  /\ Walk(e, p) # None => Walk(e, p) = pt[e][p]
         /\ Walk(e, p) = None => pt[e][p] = None \/ 0 \notin dirs[e]
BY DEF Walk, DirsThere

(* page_insert() of a frame keeps translations coherent. *)
LEMMA InsertCoherent ==
  ASSUME TypeOK, TlbCoherent, DirsThere, NEW c \in CPU, NEW e \in Env, NEW p \in Page,
         NEW f \in Frame, NEW w \in BOOLEAN, Private(c, e), 0 \in dirs[curenv[c]],
         page_insert(c, e, p, f, w), UNCHANGED cr3
  PROVE  /\ TlbCoherent' /\ tlb' \in [CPU -> [Page -> Entry]] /\ pt' \in [Env -> [Page -> Entry]]
         /\ DirsThere' /\ dirs' \in [Env -> SUBSET Dirs]
<1>1. [pa |-> f, w |-> w] \in Entry
  BY EntryFacts
<1>2. pt' = [pt EXCEPT ![e][p] = [pa |-> f, w |-> w]]
  BY DEF page_insert
<1>3. \/ tlb' = tlb_invalidate(c, e, p)
      \/ tlb' = tlb /\ (pt[e][p] = None \/ curenv[c] # e)
  BY WalkFacts DEF page_insert
<1>4. TlbCoherent' /\ tlb' \in [CPU -> [Page -> Entry]] /\ pt' \in [Env -> [Page -> Entry]]
  BY <1>1, <1>2, <1>3, InvalidateCoherent
<1>5. dirs' = [dirs EXCEPT ![e] = @ \cup {Dir(p)}]
  BY DEF page_insert
<1>6. dirs' \in [Env -> SUBSET Dirs] /\ \A x \in Env : dirs[x] \subseteq dirs'[x]
  BY <1>5, DirsStep
<1>7. DirsThere'
  <2> SUFFICES ASSUME NEW x \in Env, NEW q \in Page, pt'[x][q] # None
               PROVE  Dir(q) \in dirs'[x]
    BY DEF DirsThere
  <2>1. CASE x = e /\ q = p
    BY <2>1, <1>5, Types
  <2>2. CASE x # e \/ q # p
    <3>1. pt'[x][q] = pt[x][q]
      BY <2>2, <1>2, Types
    <3> QED BY <3>1, <1>6 DEF DirsThere
  <2> QED BY <2>1, <2>2
<1> QED BY <1>4, <1>6, <1>7

(* A program may change its own tables and those of a child that is new. *)
LEMMA TargetPrivate ==
  ASSUME TypeOK, InUse, NEW c \in CPU, Calls(c), NEW e \in Env,
         e \in Target(c) \/ status[e] = "recv"
  PROVE  Private(c, e)
BY Types, TlbAssumption DEF InUse, Calls, Up, InUser, Target, Private

----------------------------------------------------------------------------
(* Reading user memory *)

(* Pages of bytes. *)
LEMMA PageOfFacts ==
  ASSUME NEW a \in Nat
  PROVE  /\ PageOf(a) \in Nat
         /\ PageOf(a) * PGSIZE <= a
         /\ a < PageOf(a) * PGSIZE + PGSIZE
BY TlbAssumption DEF PageOf

(* An address is in one page. *)
LEMMA PageOfUnique ==
  ASSUME NEW a \in Nat, NEW q \in Nat, q * PGSIZE <= a, a < q * PGSIZE + PGSIZE
  PROVE  PageOf(a) = q
BY TlbAssumption DEF PageOf

(* A higher address is in no lower page. *)
LEMMA PageOfMonotone ==
  ASSUME NEW a \in Nat, NEW b \in Nat, a <= b
  PROVE  PageOf(a) <= PageOf(b)
BY TlbAssumption DEF PageOf

(* Multiplication by a natural number is monotone. *)
LEMMA TimesMonotone ==
  ASSUME NEW i \in Nat, NEW j \in Nat, NEW k \in Nat, i <= j
  PROVE  i * k \in Nat /\ j * k \in Nat /\ i * k <= j * k
OBVIOUS

(* PGSIZE further is the next page. *)
LEMMA PageOfNext ==
  ASSUME NEW a \in Nat
  PROVE  PageOf(a + PGSIZE) = PageOf(a) + 1
BY TlbAssumption DEF PageOf

(* A set of natural numbers that is not empty has a least element. *)
LEMMA LeastNat ==
  ASSUME NEW S \in SUBSET Nat, S # {}
  PROVE  \E m \in S : \A n \in S : m <= n
<1>1. PICK m \in S : \A n \in S : <<n, m>> \notin OpToRel(<, Nat)
  BY NatLessThanWellFounded, WFMin
<1>2. \A n \in S : ~ (n < m)
  BY <1>1 DEF OpToRel
<1> QED BY <1>2

(* The pages that user_mem_check() tests are those of the bytes it is asked about:
   every byte is on one of them, and each of them holds one of the bytes.   *)
LEMMA TestedPages ==
  ASSUME NEW va \in Nat, NEW len \in Nat \ {0}
  PROVE  /\ \A a \in va .. va + len - 1 : PageOf(a) \in PagesTested(va, len)
         /\ \A p \in PagesTested(va, len) :
              LET a == IF p * PGSIZE < va THEN va ELSE p * PGSIZE
              IN  a \in va .. va + len - 1 /\ PageOf(a) = p
         /\ PagesTested(va, len) \subseteq Nat
<1> DEFINE last == va + len - 1
<1>1. last \in Nat /\ va <= last /\ va + len + PGSIZE - 1 = last + PGSIZE
  BY TlbAssumption
<1>2. PagesTested(va, len) = PageOf(va) .. PageOf(last)
  <2>1. PageOf(last + PGSIZE) - 1 = PageOf(last)
    BY <1>1, PageOfNext, PageOfFacts
  <2> QED BY <1>1, <2>1 DEF PagesTested
<1>3. \A a \in va .. last : PageOf(a) \in PageOf(va) .. PageOf(last)
  BY <1>1, PageOfFacts, PageOfMonotone
<1>4. ASSUME NEW p \in PageOf(va) .. PageOf(last)
      PROVE  LET a == IF p * PGSIZE < va THEN va ELSE p * PGSIZE
             IN  a \in va .. last /\ PageOf(a) = p
  <2>1. p \in Nat /\ PageOf(va) <= p /\ p <= PageOf(last) /\ PGSIZE \in Nat \ {0}
    BY <1>1, PageOfFacts, TlbAssumption
  <2>2. /\ p * PGSIZE \in Nat
        /\ p * PGSIZE <= PageOf(last) * PGSIZE
        /\ PageOf(last) * PGSIZE \in Nat
    <3>1. PageOf(last) \in Nat
      BY <1>1, PageOfFacts
    <3> QED BY <3>1, <2>1, TimesMonotone
  <2>3. p * PGSIZE <= last
    <3>1. PageOf(last) * PGSIZE <= last
      BY <1>1, PageOfFacts
    <3> QED BY <3>1, <2>2, <1>1
  <2>4. CASE p * PGSIZE < va
    <3>1. va < p * PGSIZE + PGSIZE
      <4>1. /\ PageOf(va) * PGSIZE <= p * PGSIZE
            /\ PageOf(va) * PGSIZE \in Nat
        <5>1. PageOf(va) \in Nat
          BY PageOfFacts
        <5> QED BY <5>1, <2>1, TimesMonotone
      <4>2. va < PageOf(va) * PGSIZE + PGSIZE
        BY PageOfFacts
      <4> QED BY <4>1, <4>2, <2>1, <2>2
    <3> QED BY <2>4, <3>1, <2>1, <1>1, PageOfUnique
  <2>5. CASE ~ (p * PGSIZE < va)
    <3>1. PageOf(p * PGSIZE) = p
      BY <2>1, <2>2, PageOfUnique
    <3> QED BY <3>1, <2>5, <2>2, <2>3, <1>1
  <2> QED BY <2>4, <2>5
<1>5. PageOf(va) .. PageOf(last) \subseteq Nat
  BY <1>1, PageOfFacts
<1> QED BY <1>2, <1>3, <1>4, <1>5

(* What the walk of a page table tells user_mem_check() about a page: all that it
   needs, if the environment has the first directory.                      *)
LEMMA BadPageFacts ==
  ASSUME TypeOK, DirsThere, NEW e \in Env, NEW p \in Nat, NEW write \in BOOLEAN
  PROVE  /\ ~ BadPage(e, p, write) => /\ p \in Page /\ pt[e][p] # None
                                      /\ write => pt[e][p].w
         /\ 0 \in dirs[e] /\ p \in Page /\ pt[e][p] # None /\ (write => pt[e][p].w)
              => ~ BadPage(e, p, write)
BY TlbAssumption DEF BadPage, Walk, Page, DirsThere

(* The pages tested are numbers. *)
LEMMA TestedNat ==
  ASSUME NEW va \in Nat, NEW len \in Nat
  PROVE  PagesTested(va, len) \subseteq Nat
<1>1. PageOf(va) \in Nat
  BY PageOfFacts
<1>2. PageOf(va + len + PGSIZE - 1) \in Nat
  <2>1. va + len + PGSIZE - 1 \in Nat
    BY TlbAssumption
  <2> QED BY <2>1, PageOfFacts
<1> QED BY <1>1, <1>2 DEF PagesTested

(* An empty range is tested as none, or as one byte if it does not begin a page. *)
LEMMA EmptyRange ==
  ASSUME NEW va \in Nat
  PROVE  PagesTested(va, 0) = IF va % PGSIZE = 0 THEN {} ELSE PagesTested(va, 1)
<1> DEFINE q == PageOf(va)
<1>1. q \in Nat /\ q * PGSIZE \in Nat /\ q * PGSIZE <= va /\ va < q * PGSIZE + PGSIZE
        /\ PGSIZE \in Nat \ {0}
  BY PageOfFacts, TlbAssumption, TimesMonotone
<1>2. va % PGSIZE = va - q * PGSIZE
  BY TlbAssumption DEF PageOf
<1> HIDE DEF q
<1>3. CASE va % PGSIZE = 0
  <2>1. PageOf(va + PGSIZE - 1) = q
    BY <1>1, <1>2, <1>3, PageOfUnique
  <2>2. q .. q - 1 = {}
    BY <1>1
  <2>3. va + 0 + PGSIZE - 1 = va + PGSIZE - 1
    BY <1>1
  <2> QED BY <1>3, <2>1, <2>2, <2>3 DEF PagesTested, q
<1>4. CASE va % PGSIZE # 0
  <2>1. va - 1 \in Nat /\ PageOf(va - 1) = q
    BY <1>1, <1>2, <1>4, PageOfUnique
  <2>2. PageOf((va - 1) + PGSIZE) = q + 1 /\ PageOf(va + PGSIZE) = q + 1
    BY <2>1, PageOfNext DEF q
  <2>3. va + 0 + PGSIZE - 1 = (va - 1) + PGSIZE /\ va + 1 + PGSIZE - 1 = va + PGSIZE
    BY <1>1
  <2> QED BY <1>4, <2>2, <2>3 DEF PagesTested, q
<1> QED BY <1>3, <1>4

(* user_mem_check() reports the least bad page, if there is one. *)
LEMMA CheckResult ==
  ASSUME NEW e \in Env, NEW va \in Nat, NEW len \in Nat, NEW write \in BOOLEAN
  PROVE  LET badp == {p \in PagesTested(va, len) : BadPage(e, p, write)}
             r == user_mem_check(e, va, len, write)
         IN \/ badp = {} /\ r = -1
            \/ r \in Nat /\ \E p \in badp :
                 /\ \A x \in badp : p <= x
                 /\ r = IF p < NUser /\ p * PGSIZE < va THEN va ELSE p * PGSIZE
<1> DEFINE badp == {p \in PagesTested(va, len) : BadPage(e, p, write)}
           r == user_mem_check(e, va, len, write)
<1>1. badp \subseteq Nat
  BY TestedNat
<1>2. CASE badp = {}
  BY <1>2 DEF user_mem_check
<1>3. CASE badp # {}
  <2> DEFINE p == CHOOSE q \in badp : \A x \in badp : q <= x
  <2>1. p \in badp /\ \A x \in badp : p <= x
    <3>1. \E q \in badp : \A x \in badp : q <= x
      BY <1>1, <1>3, LeastNat
    <3> QED BY <3>1
  <2>2. r = IF p < NUser /\ p * PGSIZE < va THEN va ELSE p * PGSIZE
    BY <1>3 DEF user_mem_check
  <2> HIDE DEF p
  <2>3. p \in Nat /\ p * PGSIZE \in Nat
    BY <2>1, <1>1, TlbAssumption, TimesMonotone
  <2> QED BY <2>1, <2>2, <2>3
<1> QED BY <1>2, <1>3

(* What user_mem_check() lets through is accessible. *)
LEMMA CheckSound ==
  ASSUME TypeOK, DirsThere, NEW e \in Env, NEW va \in Nat, NEW len \in Nat,
         NEW write \in BOOLEAN, user_mem_check(e, va, len, write) = -1,
         NEW a \in va .. va + len - 1
  PROVE  Accessible(e, a, write)
<1>1. len \in Nat \ {0} /\ a \in Nat /\ PageOf(a) \in Nat
  BY PageOfFacts
<1>2. PageOf(a) \in PagesTested(va, len)
  BY <1>1, TestedPages
<1>3. {p \in PagesTested(va, len) : BadPage(e, p, write)} = {}
  <2>1. user_mem_check(e, va, len, write) \notin Nat
    OBVIOUS
  <2> QED BY <2>1, CheckResult, Zenon
<1> QED BY <1>1, <1>2, <1>3, BadPageFacts DEF Accessible

(* user_mem_check() is exact on every range of at least one byte, of an environment
   that has the first directory.                                           *)
LEMMA CheckExact ==
  ASSUME TypeOK, DirsThere, NEW e \in Env, 0 \in dirs[e], NEW va \in Nat,
         NEW len \in Nat \ {0}, NEW write \in BOOLEAN
  PROVE  LET bad == {a \in va .. va + len - 1 : ~ Accessible(e, a, write)}
             r == user_mem_check(e, va, len, write)
         IN IF bad = {} THEN r = -1
            ELSE IF va < NUser * PGSIZE THEN r \in bad /\ \A a \in bad : r <= a
            ELSE r = PageOf(va) * PGSIZE
<1> DEFINE bad == {a \in va .. va + len - 1 : ~ Accessible(e, a, write)}
           badp == {p \in PagesTested(va, len) : BadPage(e, p, write)}
           r == user_mem_check(e, va, len, write)
<1>1. \A a \in va .. va + len - 1 : a \in Nat /\ PageOf(a) \in Nat
  BY PageOfFacts
<1>2. \A a \in va .. va + len - 1 : a \in bad <=> PageOf(a) \in badp
  <2> SUFFICES ASSUME NEW a \in va .. va + len - 1
               PROVE  ~ Accessible(e, a, write) <=> BadPage(e, PageOf(a), write)
    BY TestedPages
  <2> QED BY <1>1, BadPageFacts DEF Accessible
<1>3. badp \subseteq Nat
  BY TestedPages
<1>4. CASE badp = {} /\ r = -1
  BY <1>2, <1>4
<1>5. CASE \E p \in badp : /\ \A x \in badp : p <= x
                          /\ r = IF p < NUser /\ p * PGSIZE < va THEN va ELSE p * PGSIZE
  <2>1. PICK p \in badp : /\ \A x \in badp : p <= x
                          /\ r = IF p < NUser /\ p * PGSIZE < va THEN va ELSE p * PGSIZE
    BY <1>5
  <2> DEFINE first == IF p * PGSIZE < va THEN va ELSE p * PGSIZE
  <2>3. p \in Nat /\ PGSIZE \in Nat \ {0} /\ NUser \in Nat /\ p * PGSIZE \in Nat
          /\ NUser * PGSIZE \in Nat
    BY <2>1, <1>3, TlbAssumption, TimesMonotone
  <2>4. first \in va .. va + len - 1 /\ PageOf(first) = p
    BY <2>1, TestedPages
  <2>5. first \in bad
    BY <2>1, <2>4, <1>2
  <2>6. \A a \in bad : first <= a
    <3> SUFFICES ASSUME NEW a \in bad PROVE first <= a
      OBVIOUS
    <3>1. a \in Nat /\ PageOf(a) \in Nat /\ p <= PageOf(a) /\ va <= a
      BY <1>1, <1>2, <2>1
    <3>2. PageOf(a) * PGSIZE <= a
      BY <3>1, PageOfFacts
    <3>3. p * PGSIZE <= PageOf(a) * PGSIZE /\ PageOf(a) * PGSIZE \in Nat
      BY <3>1, <2>3, TimesMonotone
    <3> QED BY <3>1, <3>2, <3>3, <2>3
  <2>7. CASE va < NUser * PGSIZE
    <3>1. p >= NUser => NUser * PGSIZE <= p * PGSIZE
      BY <2>3, TimesMonotone
    <3>2. r = first
      BY <2>1, <2>3, <2>7, <3>1
    <3> QED BY <2>5, <2>6, <2>7, <3>2
  <2>8. CASE ~ (va < NUser * PGSIZE)
    <3>1. PageOf(va) \in Nat /\ va \in va .. va + len - 1 /\ PageOf(va) <= p
      <4>1. PageOf(va) \in Nat /\ va \in va .. va + len - 1 /\ first \in Nat /\ va <= first
        BY <2>4, PageOfFacts
      <4> QED BY <4>1, <2>4, PageOfMonotone
    <3>2. NUser <= PageOf(va)
      <4>1. PageOf(NUser * PGSIZE) = NUser
        BY <2>3, PageOfUnique
      <4> QED BY <4>1, <2>3, <2>8, PageOfMonotone
    <3>3. PageOf(va) \notin Page
      BY <3>1, <3>2, <2>3 DEF Page
    <3>4. PageOf(va) \in badp
      BY <3>1, <3>3, <1>2 DEF Accessible
    <3>5. p = PageOf(va)
      BY <2>1, <2>3, <3>1, <3>4
    <3>6. r = p * PGSIZE
      BY <2>1, <2>3, <3>2, <3>5
    <3> QED BY <2>5, <2>8, <3>5, <3>6
  <2> QED BY <2>7, <2>8
<1> QED BY <1>4, <1>5, CheckResult

(* And of an empty one, in the sense of Tested(). *)
LEMMA CheckTested ==
  ASSUME TypeOK, DirsThere, NEW e \in Env, 0 \in dirs[e], NEW va \in Nat,
         NEW len \in Nat, NEW write \in BOOLEAN
  PROVE  LET bad == {a \in Tested(va, len) : ~ Accessible(e, a, write)}
             r == user_mem_check(e, va, len, write)
         IN IF bad = {} THEN r = -1
            ELSE IF va < NUser * PGSIZE THEN r \in bad /\ \A a \in bad : r <= a
            ELSE r = PageOf(va) * PGSIZE
<1>1. CASE len # 0
  <2>1. Tested(va, len) = va .. va + len - 1
    BY <1>1 DEF Tested
  <2> QED BY <1>1, <2>1, CheckExact
<1>2. CASE len = 0 /\ va % PGSIZE = 0
  <2>1. Tested(va, len) = {}
    BY <1>2 DEF Tested
  <2>2. PagesTested(va, len) = {}
    BY <1>2, EmptyRange
  <2>3. user_mem_check(e, va, len, write) = -1
    BY <2>2 DEF user_mem_check
  <2> QED BY <2>1, <2>3
<1>3. CASE len = 0 /\ va % PGSIZE # 0
  <2>1. Tested(va, len) = va .. va + 1 - 1
    BY <1>3 DEF Tested
  <2>2. PagesTested(va, len) = PagesTested(va, 1)
    BY <1>3, EmptyRange
  <2>3. user_mem_check(e, va, len, write) = user_mem_check(e, va, 1, write)
    BY <2>2 DEF user_mem_check
  <2>4. LET bad == {a \in va .. va + 1 - 1 : ~ Accessible(e, a, write)}
            r == user_mem_check(e, va, 1, write)
        IN IF bad = {} THEN r = -1
           ELSE IF va < NUser * PGSIZE THEN r \in bad /\ \A a \in bad : r <= a
           ELSE r = PageOf(va) * PGSIZE
    BY CheckExact
  <2> QED BY <2>1, <2>3, <2>4
<1> QED BY <1>1, <1>2, <1>3

(* What an access leaves in the TLB is coherent with the loaded tables. *)
LEMMA TranslateCoherent ==
  ASSUME TypeOK, TlbCoherent, NEW c \in CPU, NEW p \in Page, cr3[c] \in Env,
         NEW write \in BOOLEAN
  PROVE  LET x == Translate(c, p, write) IN
         /\ x \in Entry
         /\ x # None => /\ x.pa = pt[cr3[c]][p].pa
                        /\ x.w => pt[cr3[c]][p].w
BY Types, EntryFacts DEF Translate, TlbCoherent

(* Filling the TLB of a processor in user code from its tables is coherent. *)
LEMMA FillCoherent ==
  ASSUME TypeOK, TlbCoherent, NEW c \in CPU, cr3[c] \in Env, UNCHANGED <<pt, cr3>>,
         tlb' \in [CPU -> [Page -> Entry]],
         \A d \in CPU \ {c} : tlb'[d] = tlb[d],
         \A p \in Page : \/ tlb'[c][p] = tlb[c][p]
                         \/ \E b \in BOOLEAN : tlb'[c][p] = Translate(c, p, b)
  PROVE  TlbCoherent'
<1> SUFFICES ASSUME NEW d \in CPU, NEW p \in Page, tlb'[d][p] # None
             PROVE  /\ cr3[d] # NoEnv
                    /\ tlb'[d][p].pa = pt[cr3[d]][p].pa
                    /\ tlb'[d][p].w => pt[cr3[d]][p].w
  BY DEF TlbCoherent
<1>1. CASE tlb'[d][p] = tlb[d][p]
  BY <1>1 DEF TlbCoherent
<1>2. CASE tlb'[d][p] # tlb[d][p]
  <2>1. d = c
    BY <1>2
  <2>2. PICK b \in BOOLEAN : tlb'[c][p] = Translate(c, p, b)
    BY <1>2, <2>1
  <2> QED BY <2>1, <2>2, TranslateCoherent, TlbAssumption
<1> QED BY <1>1, <1>2

----------------------------------------------------------------------------
(* The invariant holds initially. *)
LEMMA InitIInv == Init => IInv
<1> SUFFICES ASSUME Init PROVE IInv
  OBVIOUS
<1>1. PICK e \in Env, c \in CPU :
        /\ pt = [x \in Env |-> Empty] /\ parent = [x \in Env |-> NoEnv]
        /\ dirs = [x \in Env |-> IF x = e THEN {0, Dir(NUser - 1)} ELSE {}]
        /\ status = [x \in Env |-> IF x = e THEN "running" ELSE "free"]
        /\ curenv = [x \in CPU |-> IF x = c THEN e ELSE NoEnv] /\ cr3 = curenv
        /\ tlb = [x \in CPU |-> Empty] /\ monitor = FALSE /\ kfault = FALSE
  BY DEF Init
<1>2. TypeOK
  <2>1. dirs \in [Env -> SUBSET Dirs]
    BY <1>1, DirFacts
  <2> QED BY <1>1, <2>1, EntryFacts DEF TypeOK, Status
<1>3. InUse
  BY <1>1, TlbAssumption DEF InUse
<1>4. TlbCoherent
  BY <1>1 DEF TlbCoherent, Empty
<1>5. DirsThere
  BY <1>1 DEF DirsThere, Empty
<1> QED BY <1>2, <1>3, <1>4, <1>5 DEF IInv, TablesInUse, InUse

(* The parts of the invariant, and how they are put together again. *)
LEMMA Parts ==
  /\ IInv => TypeOK /\ InUse /\ TlbCoherent /\ DirsThere
  /\ IInv' <=> TypeOK' /\ InUse' /\ TlbCoherent' /\ DirsThere'
<1>1. IInv => TypeOK /\ InUse /\ TlbCoherent /\ DirsThere
  BY DEF IInv, TablesInUse, InUse
<1>2. IInv' <=> TypeOK' /\ InUse' /\ TlbCoherent' /\ DirsThere'
  BY DEF IInv, TablesInUse, InUse
<1> QED BY <1>1, <1>2

(* A step that leaves processors and tables alone and takes no environment in
   use out of use.                                                         *)
LEMMA StatusStep ==
  ASSUME IInv, ~ monitor, UNCHANGED <<curenv, cr3, monitor>>, status' \in [Env -> Status],
         \A x \in Env : status[x] \in {"running", "dying"} =>
           status'[x] \in {"running", "dying"}
  PROVE  InUse'
BY Parts, Types DEF InUse

(* A processor in user code runs on the tables of its environment. *)
LEMMA InUserEnv ==
  ASSUME IInv, NEW c \in CPU, InUser(c)
  PROVE  curenv[c] \in Env /\ cr3[c] = curenv[c] /\ cr3[c] \in Env
BY Parts, Types DEF InUser

(* A load or store of a program fills the TLB from the tables in use. *)
LEMMA AccessIInv ==
  ASSUME IInv, NEW c \in CPU, NEW p \in Page, NEW b \in BOOLEAN, access(c, p, b)
  PROVE  IInv'
<1>1. cr3[c] \in Env
  BY InUserEnv DEF access
<1>2. Translate(c, p, b) \in Entry
  BY <1>1, TranslateCoherent, Parts
<1>3. tlb' = [tlb EXCEPT ![c][p] = Translate(c, p, b)] /\ UNCHANGED <<pt, cr3>>
  BY DEF access
<1>4. tlb' \in [CPU -> [Page -> Entry]]
  BY <1>2, <1>3, Parts, Types
<1>5. /\ \A d \in CPU \ {c} : tlb'[d] = tlb[d]
      /\ \A q \in Page : \/ tlb'[c][q] = tlb[c][q]
                         \/ tlb'[c][q] = Translate(c, q, b)
  BY <1>3, Parts, Types
<1>6. TlbCoherent'
  BY <1>1, <1>3, <1>4, <1>5, FillCoherent, Parts
<1>7. TypeOK'
  BY <1>4, Parts DEF TypeOK, access
<1>8. InUse'
  BY Parts DEF InUse, access
<1>9. DirsThere'
  BY Parts DEF DirsThere, access
<1> QED BY <1>6, <1>7, <1>8, <1>9, Parts

(* page_insert() by a system call into tables that are private to it. *)
LEMMA InsertIInv ==
  ASSUME IInv, NEW c \in CPU, Calls(c), NEW e \in Env, NEW p \in Page, NEW f \in Frame,
         NEW w \in BOOLEAN, Private(c, e), page_insert(c, e, p, f, w),
         UNCHANGED <<parent, curenv, cr3, monitor, kfault>>,
         status' \in [Env -> Status],
         \A x \in Env : status[x] \in {"running", "dying"} =>
           status'[x] \in {"running", "dying"}
  PROVE  IInv'
<1>1. /\ TlbCoherent' /\ tlb' \in [CPU -> [Page -> Entry]] /\ pt' \in [Env -> [Page -> Entry]]
      /\ DirsThere' /\ dirs' \in [Env -> SUBSET Dirs]
  BY InsertCoherent, Parts DEF Calls
<1>2. InUse'
  BY StatusStep DEF Calls, Up
<1>3. TypeOK'
  BY <1>1, Parts DEF TypeOK
<1> QED BY <1>1, <1>2, <1>3, Parts

(* page_insert() that fails may leave a directory behind. *)
LEMMA InsertFailsIInv ==
  ASSUME IInv, NEW e \in Env, NEW p \in Page, insert_fails(e, p),
         UNCHANGED <<parent, status, curenv, cr3, monitor, kfault>>
  PROVE  IInv'
<1>1. dirs' \in {dirs, [dirs EXCEPT ![e] = @ \cup {Dir(p)}]} /\ UNCHANGED <<pt, tlb>>
  BY DEF insert_fails
<1>2. dirs' \in [Env -> SUBSET Dirs] /\ \A x \in Env : dirs[x] \subseteq dirs'[x]
  BY <1>1, DirsStep, Parts
<1>3. TypeOK'
  BY <1>1, <1>2, Parts DEF TypeOK
<1>4. InUse' /\ TlbCoherent'
  BY <1>1, Parts DEF InUse, TlbCoherent
<1>5. DirsThere'
  BY <1>1, <1>2, Parts DEF DirsThere
<1> QED BY <1>3, <1>4, <1>5, Parts

(* sys_page_alloc() invalidates the entry that it replaces. *)
LEMMA PageAllocIInv ==
  ASSUME IInv, NEW c \in CPU, NEW e \in Env, NEW p \in Page, NEW b \in BOOLEAN,
         sys_page_alloc(c, e, p, b)
  PROVE  IInv'
<1>1. Calls(c) /\ UNCHANGED <<parent, status, curenv, cr3, monitor, kfault>>
        /\ status \in [Env -> Status]
  BY Parts, Types DEF sys_page_alloc
<1>2. CASE \E f \in FreeFrames : page_insert(c, e, p, f, b)
  <2>1. PICK f \in FreeFrames : page_insert(c, e, p, f, b)
    BY <1>2
  <2>2. f \in Frame
    BY DEF FreeFrames
  <2>3. Private(c, e)
    BY TargetPrivate, Parts DEF sys_page_alloc
  <2> QED BY <2>1, <2>2, <2>3, <1>1, InsertIInv
<1>3. CASE insert_fails(e, p)
  BY <1>1, <1>3, InsertFailsIInv
<1> QED BY <1>2, <1>3 DEF sys_page_alloc

(* sys_page_map() likewise. *)
LEMMA PageMapIInv ==
  ASSUME IInv, NEW c \in CPU, NEW se \in Env, NEW de \in Env, NEW sp \in Page,
         NEW dp \in Page, NEW b \in BOOLEAN, sys_page_map(c, se, sp, de, dp, b)
  PROVE  IInv'
<1>1. Walk(se, sp).pa \in Frame
  BY MappedFrame, WalkFacts, Parts DEF sys_page_map
<1>2. Private(c, de)
  BY TargetPrivate, Parts DEF sys_page_map
<1>3. Calls(c) /\ UNCHANGED <<parent, status, curenv, cr3, monitor, kfault>>
        /\ status \in [Env -> Status]
  BY Parts, Types DEF sys_page_map
<1>4. CASE page_insert(c, de, dp, Walk(se, sp).pa, b)
  BY <1>1, <1>2, <1>3, <1>4, InsertIInv
<1>5. CASE insert_fails(de, dp)
  BY <1>3, <1>5, InsertFailsIInv
<1> QED BY <1>4, <1>5 DEF sys_page_map

(* sys_page_unmap() likewise. *)
LEMMA PageUnmapIInv ==
  ASSUME IInv, NEW c \in CPU, NEW e \in Env, NEW p \in Page, sys_page_unmap(c, e, p)
  PROVE  IInv'
<1>1. Private(c, e)
  BY TargetPrivate, Parts DEF sys_page_unmap
<1>2. ~ monitor /\ UNCHANGED <<dirs, parent, status, curenv, cr3, monitor, kfault>>
  BY DEF sys_page_unmap, Calls, Up
<1>3. CASE Walk(e, p) # None
  <2>1. pt' = [pt EXCEPT ![e][p] = None] /\ tlb' = tlb_invalidate(c, e, p)
    BY <1>3 DEF sys_page_unmap, page_remove
  <2>2. TlbCoherent' /\ tlb' \in [CPU -> [Page -> Entry]] /\ pt' \in [Env -> [Page -> Entry]]
    BY <1>1, <1>2, <2>1, InvalidateCoherent, Parts, EntryFacts
  <2>3. InUse'
    BY <1>2, StatusStep, Parts, Types
  <2>4. TypeOK'
    BY <1>2, <2>2, Parts DEF TypeOK
  <2>5. DirsThere'
    BY <1>2, <2>1, Parts, Types DEF DirsThere
  <2> QED BY <2>2, <2>3, <2>4, <2>5, Parts
<1>4. CASE Walk(e, p) = None
  <2>1. UNCHANGED <<pt, tlb>>
    BY <1>4 DEF sys_page_unmap, page_remove
  <2> QED BY <1>2, <2>1, Parts DEF TypeOK, InUse, TlbCoherent, DirsThere
<1> QED BY <1>3, <1>4

(* sys_ipc_try_send() changes the page of a receiver that no CPU runs. *)
LEMMA TrySendIInv ==
  ASSUME IInv, NEW c \in CPU, NEW e \in Env, NEW sp \in Page, NEW dp \in Page,
         NEW b \in BOOLEAN, sys_ipc_try_send(c, e, sp, dp, b)
  PROVE  IInv'
<1>1. curenv[c] \in Env /\ Calls(c)
  BY InUserEnv DEF sys_ipc_try_send, Calls
<1>2. Walk(curenv[c], sp).pa \in Frame
  BY <1>1, MappedFrame, WalkFacts, Parts DEF sys_ipc_try_send
<1>3. Private(c, e)
  BY TargetPrivate, Parts DEF sys_ipc_try_send
<1>4. UNCHANGED <<parent, curenv, cr3, monitor, kfault>>
  BY DEF sys_ipc_try_send
<1>5. CASE page_insert(c, e, dp, Walk(curenv[c], sp).pa, b)
             /\ status' = [status EXCEPT ![e] = "runnable"]
  <2>1. status' \in [Env -> Status]
    BY <1>5, Parts, Types DEF Status
  <2>2. \A x \in Env : status[x] \in {"running", "dying"} =>
           status'[x] \in {"running", "dying"}
    BY <1>5, Parts, Types DEF sys_ipc_try_send
  <2> QED BY <1>1, <1>2, <1>3, <1>4, <1>5, <2>1, <2>2, InsertIInv
<1>6. CASE insert_fails(e, dp) /\ UNCHANGED status
  BY <1>4, <1>6, InsertFailsIInv
<1> QED BY <1>5, <1>6 DEF sys_ipc_try_send

(* A step that changes no table and no processor. *)
LEMMA QuietIInv ==
  ASSUME IInv, ~ monitor, UNCHANGED <<pt, dirs, processors>>, kfault' \in BOOLEAN,
         parent' \in [Env -> Env \cup {NoEnv}], status' \in [Env -> Status],
         \A x \in Env : status[x] \in {"running", "dying"} =>
           status'[x] \in {"running", "dying"}
  PROVE  IInv'
<1>1. UNCHANGED <<pt, dirs, curenv, cr3, tlb, monitor>>
  BY DEF processors
<1>2. InUse'
  BY <1>1, StatusStep
<1>3. TypeOK'
  BY <1>1, Parts DEF TypeOK
<1>4. TlbCoherent' /\ DirsThere'
  BY <1>1, Parts DEF TlbCoherent, DirsThere
<1> QED BY <1>2, <1>3, <1>4, Parts

(* sys_exofork() starts with empty tables. *)
LEMMA ExoforkIInv ==
  ASSUME IInv, NEW c \in CPU, sys_exofork(c)
  PROVE  IInv'
<1>1. curenv[c] \in Env
  BY InUserEnv DEF sys_exofork, Calls
<1>2. PICK e \in Env : /\ status[e] = "free"
                       /\ status' = [status EXCEPT ![e] = "new"]
                       /\ parent' = [parent EXCEPT ![e] = curenv[c]]
  BY DEF sys_exofork
<1>3. status' \in [Env -> Status] /\ parent' \in [Env -> Env \cup {NoEnv}]
  BY <1>1, <1>2, Parts, Types DEF Status
<1>4. \A x \in Env : status[x] \in {"running", "dying"} =>
           status'[x] \in {"running", "dying"}
  BY <1>2, Parts, Types
<1>5. ~ monitor /\ UNCHANGED <<pt, dirs, processors>> /\ kfault' \in BOOLEAN
  BY Parts DEF sys_exofork, TypeOK, Calls, Up
<1> QED BY <1>3, <1>4, <1>5, QuietIInv

(* sys_env_set_status() touches neither tables nor TLB. *)
LEMMA SetStatusIInv ==
  ASSUME IInv, NEW c \in CPU, NEW e \in Env, sys_env_set_status(c, e)
  PROVE  IInv'
<1>1. status' \in [Env -> Status] /\ parent' \in [Env -> Env \cup {NoEnv}]
  BY Parts, Types DEF sys_env_set_status, Status
<1>2. \A x \in Env : status[x] \in {"running", "dying"} =>
           status'[x] \in {"running", "dying"}
  BY Parts, Types DEF sys_env_set_status
<1>3. ~ monitor /\ UNCHANGED <<pt, dirs, processors>> /\ kfault' \in BOOLEAN
  BY Parts DEF sys_env_set_status, TypeOK, Calls, Up
<1> QED BY <1>1, <1>2, <1>3, QuietIInv

(* A call that ends in the scheduler, and changed at most the tables of an
   environment that no processor has loaded, or this one and left.         *)
LEMMA YieldIInv ==
  ASSUME IInv, ~ monitor, NEW c \in CPU, NEW st, Ready(c, st),
         NEW cur \in {NoEnv, curenv[c]}, cur # NoEnv => st[cur] \in {"running", "recv"},
         sched_yield(c, st, cur),
         pt' \in [Env -> [Page -> Entry]], dirs' \in [Env -> SUBSET Dirs], DirsThere',
         parent' \in [Env -> Env \cup {NoEnv}],
         UNCHANGED kfault,
         \A d \in CPU \ {c} : cr3[d] # NoEnv => pt'[cr3[d]] = pt[cr3[d]],
         cur # NoEnv => pt' = pt
  PROVE  IInv'
<1>1. /\ Switched(c) \/ (cur # NoEnv /\ UNCHANGED <<curenv, cr3, tlb>>)
      /\ status' \in [Env -> Status] /\ InUse' /\ monitor' \in BOOLEAN
  BY SchedYieldCorrect, Parts
<1>2. TlbCoherent' /\ tlb' \in [CPU -> [Page -> Entry]]
        /\ curenv' \in [CPU -> Env \cup {NoEnv}] /\ cr3' = curenv'
  <2>1. CASE Switched(c)
    BY <2>1, SwitchCoherent, Parts
  <2>2. CASE cur # NoEnv /\ UNCHANGED <<curenv, cr3, tlb>>
    BY <2>2, Parts, Types DEF TlbCoherent
  <2> QED BY <1>1, <2>1, <2>2
<1>3. TypeOK'
  BY <1>1, <1>2, Parts DEF TypeOK
<1> QED BY <1>1, <1>2, <1>3, Parts

(* sys_ipc_recv() gives up the CPU. *)
LEMMA RecvIInv ==
  ASSUME IInv, NEW c \in CPU, sys_ipc_recv(c)
  PROVE  IInv'
<1> DEFINE st == [status EXCEPT ![curenv[c]] = "recv"]
<1>1. curenv[c] \in Env /\ ~ monitor
  BY InUserEnv DEF sys_ipc_recv, Calls, Up
<1>2. Ready(c, st)
  <2>1. st \in [Env -> Status]
    BY Parts, Types DEF Status
  <2>2. \A d \in CPU \ {c} : curenv[d] # NoEnv =>
          curenv[d] # curenv[c] /\ status[curenv[d]] \in {"running", "dying"}
    BY <1>1, Parts, Types, TlbAssumption DEF InUse
  <2> QED BY <1>1, <2>1, <2>2, Parts, Types DEF Ready
<1>3. sched_yield(c, st, curenv[c]) /\ UNCHANGED <<pt, dirs, parent, kfault>>
  BY DEF sys_ipc_recv
<1>4. st[curenv[c]] = "recv"
  BY <1>1, Parts, Types
<1>5. DirsThere'
  BY <1>3, Parts DEF DirsThere
<1> HIDE DEF st
<1> QED BY <1>1, <1>2, <1>3, <1>4, <1>5, Parts, Types, YieldIInv

(* env_free() of an environment that no other processor runs. *)
LEMMA FreeIInv ==
  ASSUME IInv, ~ monitor, NEW c \in CPU, NEW e \in Env, Private(c, e), env_free(c, e),
         UNCHANGED kfault
  PROVE  IInv'
<1> DEFINE st == [status EXCEPT ![e] = "free"]
<1>1. pt' = [pt EXCEPT ![e] = Empty] /\ pt' \in [Env -> [Page -> Entry]]
  BY Parts, Types, EntryFacts DEF env_free
<1>2. /\ parent' \in [Env -> Env \cup {NoEnv}] /\ dirs' = [dirs EXCEPT ![e] = {}]
      /\ dirs' \in [Env -> SUBSET Dirs]
  BY Parts, Types DEF env_free
<1>7. DirsThere'
  BY <1>1, <1>2, Parts, Types DEF DirsThere, Empty
<1>3. st \in [Env -> Status]
  BY Parts, Types DEF Status
<1>4. \A d \in CPU \ {c} : cr3[d] # NoEnv =>
        cr3[d] \in Env \ {e} /\ pt'[cr3[d]] = pt[cr3[d]] /\ st[cr3[d]] = status[cr3[d]]
  BY <1>1, Parts, Types DEF Private
<1>5. CASE curenv[c] = e
  <2>1. Ready(c, st)
    BY <1>3, <1>4, <1>5, Parts, Types DEF Ready, InUse
  <2>2. sched_yield(c, st, NoEnv)
    BY <1>5 DEF env_free
  <2> HIDE DEF st
  <2> QED BY <2>1, <2>2, <1>1, <1>2, <1>4, <1>7, YieldIInv
<1>6. CASE curenv[c] # e
  <2>1. status' = st /\ UNCHANGED <<curenv, cr3, tlb, monitor>>
    BY <1>6 DEF env_free, processors
  <2>2. \A d \in CPU : cr3[d] # NoEnv =>
          pt'[cr3[d]] = pt[cr3[d]] /\ st[cr3[d]] = status[cr3[d]]
    BY <1>1, <1>4, <1>6, Parts, Types
  <2>3. InUse'
    BY <2>1, <2>2, Parts DEF InUse
  <2>4. TlbCoherent'
    BY <2>1, <2>2, Parts DEF TlbCoherent
  <2>5. TypeOK'
    BY <1>1, <1>2, <1>3, <2>1, Parts DEF TypeOK
  <2> QED BY <1>7, <2>3, <2>4, <2>5, Parts
<1> QED BY <1>5, <1>6

(* env_destroy() reloads cr3 before the tables are freed. *)
LEMMA DestroyIInv ==
  ASSUME IInv, ~ monitor, NEW c \in CPU, NEW e \in Env, env_destroy(c, e), UNCHANGED kfault,
         status[e] # "dying" \/ curenv[c] = e
  PROVE  IInv'
<1>1. CASE status[e] = "running" /\ curenv[c] # e
  <2>1. status' = [status EXCEPT ![e] = "dying"] /\ UNCHANGED <<pt, dirs, parent, processors>>
    BY <1>1 DEF env_destroy
  <2>2. status' \in [Env -> Status]
    BY <2>1, Parts, Types DEF Status
  <2>3. \A x \in Env : status[x] \in {"running", "dying"} =>
           status'[x] \in {"running", "dying"}
    BY <2>1, Parts, Types
  <2>4. kfault' \in BOOLEAN /\ parent' \in [Env -> Env \cup {NoEnv}]
    BY <2>1, Parts DEF TypeOK
  <2> QED BY <2>1, <2>2, <2>3, <2>4, QuietIInv
<1>2. CASE ~ (status[e] = "running" /\ curenv[c] # e)
  <2>1. env_free(c, e)
    BY <1>2 DEF env_destroy
  <2>2. Private(c, e)
    BY <1>2, Parts, Types, TlbAssumption DEF Private, InUse
  <2> QED BY <2>1, <2>2, FreeIInv
<1> QED BY <1>1, <1>2

(* sys_env_destroy() of oneself or of a child. *)
LEMMA SysDestroyIInv ==
  ASSUME IInv, NEW c \in CPU, NEW e \in Env, sys_env_destroy(c, e)
  PROVE  IInv'
BY DestroyIInv DEF sys_env_destroy, Calls, Up

(* A program without text is destroyed when it faults. *)
LEMMA PageFaultIInv ==
  ASSUME IInv, NEW c \in CPU, page_fault(c)
  PROVE  IInv'
<1>1. curenv[c] \in Env
  BY InUserEnv DEF page_fault
<1> QED BY <1>1, DestroyIInv DEF page_fault, Up

(* A timer interrupt gives up the CPU. *)
LEMMA TimerIInv ==
  ASSUME IInv, NEW c \in CPU, timer(c)
  PROVE  IInv'
<1>1. CASE curenv[c] # NoEnv /\ status[curenv[c]] = "dying"
  <2>1. curenv[c] \in Env /\ Private(c, curenv[c])
    BY <1>1, Parts, Types, TlbAssumption DEF Private, InUse
  <2> QED BY <1>1, <2>1, FreeIInv DEF timer, Up
<1>2. CASE ~ (curenv[c] # NoEnv /\ status[curenv[c]] = "dying")
  <2>1. sched_yield(c, status, curenv[c]) /\ UNCHANGED <<pt, dirs, parent, kfault>> /\ ~ monitor
    BY <1>2 DEF timer, Up
  <2>2. Ready(c, status)
    BY <2>1, Parts, Types DEF Ready, InUse
  <2>3. curenv[c] # NoEnv => status[curenv[c]] = "running"
    BY <1>2, <2>1, Parts, Types DEF InUse
  <2>4. DirsThere'
    BY <2>1, Parts DEF DirsThere
  <2> QED BY <2>1, <2>2, <2>3, <2>4, Parts, Types, YieldIInv
<1> QED BY <1>1, <1>2

(* sys_cputs() reads through the tables it has checked. *)
LEMMA CputsIInv ==
  ASSUME IInv, NEW c \in CPU, NEW va \in Nat, NEW len \in Nat, NEW nul \in Nat,
         sys_cputs(c, va, len, nul)
  PROVE  IInv'
<1>1. curenv[c] \in Env /\ cr3[c] = curenv[c] /\ ~ monitor
  BY InUserEnv DEF sys_cputs, Calls, Up
<1>2. CASE user_mem_check(curenv[c], va, len, FALSE) # -1
  BY <1>1, <1>2, DestroyIInv DEF sys_cputs
<1>3. CASE user_mem_check(curenv[c], va, len, FALSE) = -1
  <2> DEFINE read == {PageOf(a) : a \in va .. va + nul} \cap Page
  <2>1. /\ tlb' = Filled(c, read)
        /\ UNCHANGED <<pt, dirs, parent, status, curenv, cr3, monitor>>
        /\ kfault' \in BOOLEAN
    BY <1>3 DEF sys_cputs
  <2>2. \A p \in Page : Translate(c, p, FALSE) \in Entry
    BY <1>1, TranslateCoherent, Parts
  <2>3. [p \in Page |-> IF p \in read THEN Translate(c, p, FALSE) ELSE tlb[c][p]]
           \in [Page -> Entry]
    BY <2>2, Parts, Types
  <2>4. tlb' = [tlb EXCEPT ![c] =
                  [p \in Page |-> IF p \in read THEN Translate(c, p, FALSE) ELSE tlb[c][p]]]
    BY <2>1 DEF Filled
  <2> HIDE DEF read
  <2>5. tlb' \in [CPU -> [Page -> Entry]]
    BY <2>3, <2>4, Parts, Types
  <2>6. /\ \A d \in CPU \ {c} : tlb'[d] = tlb[d]
        /\ \A q \in Page : \/ tlb'[c][q] = tlb[c][q]
                           \/ tlb'[c][q] = Translate(c, q, FALSE)
    BY <2>4, Parts, Types
  <2>7. TlbCoherent'
    BY <1>1, <2>1, <2>5, <2>6, FillCoherent, Parts
  <2>8. TypeOK'
    BY <2>1, <2>5, Parts DEF TypeOK
  <2>9. InUse' /\ DirsThere'
    BY <2>1, Parts DEF InUse, DirsThere
  <2> QED BY <2>7, <2>8, <2>9, Parts
<1> QED BY <1>2, <1>3

(* Every step keeps the invariant. *)
LEMMA NextIInv == IInv /\ [Next]_vars => IInv'
<1> SUFFICES ASSUME IInv, [Next]_vars PROVE IInv'
  OBVIOUS
<1>1. CASE Next
  <2> PICK c \in CPU :
    \/ \E p \in Page, b \in BOOLEAN : access(c, p, b)
    \/ \E e \in Env, p \in Page, b \in BOOLEAN : sys_page_alloc(c, e, p, b)
    \/ \E se, de \in Env, sp, dp \in Page, b \in BOOLEAN : sys_page_map(c, se, sp, de, dp, b)
    \/ \E e \in Env, p \in Page : sys_page_unmap(c, e, p)
    \/ sys_exofork(c)
    \/ \E e \in Env : sys_env_set_status(c, e)
    \/ sys_ipc_recv(c)
    \/ \E e \in Env, sp, dp \in Page, b \in BOOLEAN : sys_ipc_try_send(c, e, sp, dp, b)
    \/ \E e \in Env : sys_env_destroy(c, e)
    \/ \E va \in 0 .. (NUser + 1) * PGSIZE, len, nul \in 0 .. 2 * PGSIZE :
         sys_cputs(c, va, len, nul)
    \/ page_fault(c)
    \/ timer(c)
    BY <1>1 DEF Next
  <2>1. CASE \E p \in Page, b \in BOOLEAN : access(c, p, b)
    BY <2>1, AccessIInv
  <2>2. CASE \E e \in Env, p \in Page, b \in BOOLEAN : sys_page_alloc(c, e, p, b)
    BY <2>2, PageAllocIInv
  <2>3. CASE \E se, de \in Env, sp, dp \in Page, b \in BOOLEAN :
               sys_page_map(c, se, sp, de, dp, b)
    BY <2>3, PageMapIInv
  <2>4. CASE \E e \in Env, p \in Page : sys_page_unmap(c, e, p)
    BY <2>4, PageUnmapIInv
  <2>5. CASE sys_exofork(c)
    BY <2>5, ExoforkIInv
  <2>6. CASE \E e \in Env : sys_env_set_status(c, e)
    BY <2>6, SetStatusIInv
  <2>7. CASE sys_ipc_recv(c)
    BY <2>7, RecvIInv
  <2>8. CASE \E e \in Env, sp, dp \in Page, b \in BOOLEAN : sys_ipc_try_send(c, e, sp, dp, b)
    BY <2>8, TrySendIInv
  <2>9. CASE \E e \in Env : sys_env_destroy(c, e)
    BY <2>9, SysDestroyIInv
  <2>10. CASE \E va \in 0 .. (NUser + 1) * PGSIZE, len, nul \in 0 .. 2 * PGSIZE :
                sys_cputs(c, va, len, nul)
    BY <2>10, CputsIInv
  <2>11. CASE page_fault(c)
    BY <2>11, PageFaultIInv
  <2>12. CASE timer(c)
    BY <2>12, TimerIInv
  <2> QED BY <2>1, <2>2, <2>3, <2>4, <2>5, <2>6, <2>7, <2>8, <2>9, <2>10, <2>11, <2>12
<1>2. CASE UNCHANGED vars
  BY <1>2 DEF vars, processors, IInv, TablesInUse, TypeOK, TlbCoherent, DirsThere
<1> QED BY <1>1, <1>2

(* No processor can use a stale translation, although tlb_invalidate() reaches the
   local TLB only (kern/pmap.c).                                           *)
THEOREM TlbCorrect == Spec => []TlbCoherent
<1>1. IInv => TlbCoherent
  BY DEF IInv
<1> QED BY <1>1, InitIInv, NextIInv, PTL DEF Spec

(* Loaded page tables belong to an environment that has not been freed, and no
   two processors load the same.                                           *)
THEOREM TablesCorrect == Spec => []TablesInUse
<1>1. IInv => TablesInUse
  BY DEF IInv
<1> QED BY <1>1, InitIInv, NextIInv, PTL DEF Spec

----------------------------------------------------------------------------
(* The kernel does not fault on a text that it has checked, if the byte behind the
   text is mapped: vprintfmt() reads at most that one more.                *)
LEMMA CputsNoFault ==
  ASSUME IInv, PaddedText, ~ kfault, NEW c \in CPU, NEW va \in Nat, NEW len \in Nat,
         NEW nul \in Nat, sys_cputs(c, va, len, nul)
  PROVE  ~ kfault'
<1> DEFINE e == curenv[c]
<1>1. e \in Env /\ cr3[c] = e /\ nul <= len
  BY InUserEnv DEF sys_cputs, Calls
<1>2. CASE user_mem_check(e, va, len, FALSE) # -1
  BY <1>2 DEF sys_cputs
<1>3. CASE user_mem_check(e, va, len, FALSE) = -1
  <2> SUFFICES ASSUME NEW a \in va .. va + nul
               PROVE  PageOf(a) \in Page /\ Translate(c, PageOf(a), FALSE) # None
    BY <1>3 DEF sys_cputs
  <2>1. a \in Nat /\ va <= a /\ a <= va + len /\ va + len \in Nat
    BY <1>1
  <2>2. Walk(e, PageOf(va + len)) # None
    BY <1>3 DEF sys_cputs
  <2>3. \A p \in PagesTested(va, len) : ~ BadPage(e, p, FALSE)
    <3>1. user_mem_check(e, va, len, FALSE) \notin Nat
      <4>1. -1 \notin Nat
        OBVIOUS
      <4> QED BY <4>1, <1>3, Zenon
    <3> QED BY <1>1, <3>1, CheckResult, Zenon
  <2>4. /\ PageOf(a) \in Nat /\ PageOf(va + len) \in Nat /\ PageOf(va) \in Nat
        /\ PageOf(va) <= PageOf(a) /\ PageOf(a) <= PageOf(va + len)
    BY <2>1, PageOfFacts, PageOfMonotone
  <2>5. PageOf(va + len) <= PageOf(va + len + PGSIZE - 1)
          /\ PageOf(va + len + PGSIZE - 1) \in Nat
    <3>1. va + len + PGSIZE - 1 \in Nat /\ va + len <= va + len + PGSIZE - 1
      BY TlbAssumption
    <3> QED BY <3>1, <2>1, PageOfFacts, PageOfMonotone
  <2>6. PageOf(a) = PageOf(va + len) \/ PageOf(a) \in PagesTested(va, len)
    BY <2>4, <2>5 DEF PagesTested
  <2>7. Walk(e, PageOf(a)) # None
    BY <2>2, <2>3, <2>6 DEF BadPage
  <2>8. PageOf(a) \in Page /\ pt[e][PageOf(a)] # None
    BY <2>7 DEF Walk
  <2> QED BY <2>8, <1>1 DEF Translate
<1> QED BY <1>2, <1>3

(* No other step reads user memory from the kernel. *)
LEMMA NextNoFault ==
  ASSUME IInv, PaddedText, ~ kfault, [Next]_vars
  PROVE  ~ kfault'
<1>1. CASE UNCHANGED vars
  BY <1>1 DEF vars
<1>2. CASE \E c \in CPU : \E va \in 0 .. (NUser + 1) * PGSIZE, len, nul \in 0 .. 2 * PGSIZE :
                sys_cputs(c, va, len, nul)
  BY <1>2, CputsNoFault
<1>3. CASE UNCHANGED kfault
  BY <1>3
<1> QED
  BY ZenonT(60), <1>1, <1>2, <1>3
  DEF Next, access, sys_page_alloc, sys_page_map, sys_page_unmap, sys_exofork,
      sys_env_set_status, sys_ipc_recv, sys_ipc_try_send, sys_env_destroy, page_fault, timer

(* In every reachable state user_mem_check() is sound, and exact for an environment
   that calls, and the kernel prints what it has checked without a page fault. *)
THEOREM CheckCorrect ==
  ASSUME PaddedText
  PROVE  Spec => []CheckIsExact
<1> DEFINE J == IInv /\ ~ kfault
<1>1. Init => J
  BY InitIInv DEF Init
<1>2. J /\ [Next]_vars => J'
  BY NextIInv, NextNoFault
<1>3. J => CheckIsExact
  <2> SUFFICES ASSUME J PROVE CheckIsExact
    OBVIOUS
  <2>1. TypeOK /\ DirsThere
    BY Parts
  <2>2. Bytes \subseteq Nat /\ 0 .. 2 * PGSIZE \subseteq Nat
    BY DEF Bytes
  <2>3. CheckIsSound
    <3> SUFFICES ASSUME NEW e \in Env, NEW va \in Bytes, NEW len \in 0 .. 2 * PGSIZE,
                        NEW write \in BOOLEAN, user_mem_check(e, va, len, write) = -1,
                        NEW a \in va .. va + len - 1
                 PROVE  Accessible(e, a, write)
      BY Zenon DEF CheckIsSound
    <3> QED BY <2>1, <2>2, CheckSound
  <2>4. ASSUME NEW c \in CPU, Calls(c), NEW va \in Bytes, NEW len \in 0 .. 2 * PGSIZE,
               NEW write \in BOOLEAN
        PROVE  LET bad == {a \in Tested(va, len) : ~ Accessible(curenv[c], a, write)}
                   r == user_mem_check(curenv[c], va, len, write)
               IN IF bad = {} THEN r = -1
                  ELSE IF va < NUser * PGSIZE THEN r \in bad /\ \A a \in bad : r <= a
                  ELSE r = PageOf(va) * PGSIZE
    <3>1. curenv[c] \in Env /\ 0 \in dirs[curenv[c]] /\ va \in Nat /\ len \in Nat
      BY <2>2, <2>4, InUserEnv DEF Calls
    <3> QED BY <2>1, <3>1, CheckTested
  <2> QED BY <2>3, <2>4, Zenon DEF CheckIsExact
<1> QED BY <1>1, <1>2, <1>3, PTL DEF Spec
=============================================================================
