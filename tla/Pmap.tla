-------------------------------- MODULE Pmap --------------------------------
(***************************************************************************)
(* Physical pages and the page tables of the environments: the page        *)
(* allocator and the page-table functions of kern/pmap.c, the part of      *)
(* kern/env.c that builds and tears down an address space, and the system  *)
(* calls on pages of kern/syscall.c.  All of this runs under the big       *)
(* kernel lock, so an operation is one step.                               *)
(*                                                                         *)
(* A virtual address is the tuple <<pml4, pdpe, pde, pte>> of its indices; *)
(* user addresses have pml4 index 0.  A prefix of it names a page table:   *)
(* <<>> is the PML4 page, <<0>> the page of PDPEs, <<0, d>> a page         *)
(* directory and <<0, d, t>> a page table.  entry[<<e, q>>] is the page    *)
(* that the entry of environment e for q points to, or Null.               *)
(***************************************************************************)
EXTENDS Integers, Sequences, FiniteSets

CONSTANTS
  Envs,          \* environments
  Pages,         \* the pages page_init() puts on the free list
  Page0,         \* physical page 0, which page_init() keeps in use
  First(_, _),   \* which pages of a free list page_alloc() may return
  VAs,           \* page-aligned user addresses
  BootVAs,       \* those the first program's image and stack occupy
  LastIndex,     \* the last index of a table: 511
  TopDir,        \* the pdpe index of the addresses just below UTOP: 3
  Perms,         \* values of PTE_W in the calls: a subset of BOOLEAN
  RefWrap,       \* pp_ref is a uint16_t: 65536
  MaxRef,        \* bound on the number of mappings of a page
  Discipline,    \* what user code restrains itself to: see FullDiscipline
  Null

(* User programs remap a page at its own address only while it is mapped
   elsewhere too (lib/fork.c), unmap only what they mapped, and destroy a
   child only after giving it memory.  The kernel enforces none of it.     *)
FullDiscipline == {"no_self_remap", "unmap_mapped", "destroy_nonempty"}

Prefixes(va) == {SubSeq(va, 1, k) : k \in 1 .. 3}

Tables == {<<>>} \cup (UNION {Prefixes(va) : va \in VAs}) \cup {<<0>>, <<0, 0>>}
Slots == Envs \X (Tables \cup VAs)
AllPages == Pages \cup {Page0}

ASSUME EnvsAssumption == IsFiniteSet(Envs) /\ Null \notin Envs
ASSUME PagesAssumption == Page0 \notin Pages /\ Null \notin Pages /\ Null # Page0
ASSUME FirstAssumption ==
  \A s \in Slots, S \in SUBSET AllPages :
    First(s, S) \subseteq S /\ (S # {} => First(s, S) # {})
ASSUME RefAssumption == RefWrap \in Nat /\ MaxRef \in 1 .. RefWrap - 1 /\ RefWrap > 2
ASSUME VAsAssumption ==
  /\ \A va \in VAs : va \in {0} \X (0 .. TopDir) \X (0 .. LastIndex) \X (0 .. LastIndex)
  /\ BootVAs \subseteq VAs /\ IsFiniteSet(VAs)
ASSUME PermsAssumption == Perms \subseteq BOOLEAN
ASSUME DisciplineAssumption == Discipline \subseteq FullDiscipline

VARIABLES
  mem,        \* [entry, ref, free]: page tables, pp_ref and page_free_list
  writable,   \* the leaf entries with PTE_W
  loading,    \* the environment load_icode() fills, or Null
  toload,     \* the addresses it still has to fill
  retval,     \* what the last operation returned
  panicked    \* the kernel has panicked

vars == <<mem, writable, loading, toload, retval, panicked>>

Init ==
  /\ mem = [entry |-> [s \in Slots |-> Null],
            ref   |-> [p \in AllPages |-> IF p = Page0 THEN 1 ELSE 0],
            free  |-> Pages]
  /\ writable = {}
  /\ loading = Null
  /\ toload = BootVAs
  /\ retval = "0"
  /\ panicked = FALSE

----------------------------------------------------------------------------
(* The page allocator.  The order of page_free_list is left open: the list is
   a set, and First(s, S) are the pages of S that page_alloc() may return when
   it is called for the entry s.                                           *)

(* Pages f taken from the free list become what the entries DOMAIN f point to,
   each with one reference.                                                *)
Link(m, f) ==
  [entry |-> [s \in Slots |-> IF s \in DOMAIN f THEN f[s] ELSE m.entry[s]],
   ref   |-> [p \in AllPages |-> IF \E s \in DOMAIN f : f[s] = p
                                 THEN (m.ref[p] + 1) % RefWrap ELSE m.ref[p]],
   free  |-> {p \in m.free : \A s \in DOMAIN f : f[s] # p}]

(* page_decref(p), n times: free the page when no reference is left. *)
page_decref(m, p, n) ==
  [m EXCEPT !.ref[p] = (@ - n) % RefWrap,
            !.free = IF m.ref[p] = n THEN @ \cup {p} ELSE @]

----------------------------------------------------------------------------
(* Walking the tables *)

(* pml4e_walk(va, 0) finds a page-table entry.  pml4e_walk() and pdpe_walk()
   also give up when the first entry of their table is empty.              *)
Walkable(m, e, va) ==
  \A q \in Prefixes(va) \cup {<<0, 0>>} : m.entry[<<e, q>>] # Null

Missing(m, e, va) == {q \in Prefixes(va) : m.entry[<<e, q>>] = Null}

(* Faulty variant: all tables get the same page. *)
WalkTables_SamePage(m, e, va) ==
  IF m.free = {}
  THEN {[s \in {} |-> Null]}
  ELSE {[s \in {<<e, q>> : q \in Missing(m, e, va)} |-> p] : p \in First(<<e, va>>, m.free)}

(* pml4e_walk(va, 1): the missing tables are allocated from the top down, as
   far as there are free pages.  WalkTables: what it may allocate.         *)
WalkTables(m, e, va) ==
  LET need == Missing(m, e, va)
      got == {D \in SUBSET need :
                /\ Cardinality(D) <= Cardinality(m.free)
                /\ \A q \in D, r \in need : Len(r) < Len(q) => r \in D
                /\ Cardinality(D) = Cardinality(m.free) \/ D = need}
      InOrder(f, q) ==
        f[<<e, q>>] \in
          First(<<e, q>>, m.free \ {f[s] : s \in {t \in DOMAIN f : Len(t[2]) < Len(q)}})
  IN UNION {{f \in [{<<e, q>> : q \in D} -> m.free] :
               \A s \in DOMAIN f : InOrder(f, s[2])} : D \in got}

Walked(m, e, va) == \A q \in Prefixes(va) : m.entry[<<e, q>>] # Null

----------------------------------------------------------------------------
(* page_insert() and page_remove() *)

(* Faulty variant: the reference is dropped even if the entry is not found. *)
page_remove_Unfound(m, e, va) ==
  page_decref(IF Walkable(m, e, va) THEN [m EXCEPT !.entry[<<e, va>>] = Null] ELSE m,
              m.entry[<<e, va>>], 1)

(* page_remove() of an address at which a page is mapped. *)
page_remove(m, e, va) ==
  IF Walkable(m, e, va)
  THEN page_decref([m EXCEPT !.entry[<<e, va>>] = Null], m.entry[<<e, va>>], 1)
  ELSE m

(* page_insert(p, va), once the tables are there. *)
page_insert(m, p, e, va) ==
  LET r == IF m.entry[<<e, va>>] # Null THEN page_remove(m, e, va) ELSE m
  IN [r EXCEPT !.entry[<<e, va>>] = p, !.ref[p] = (@ + 1) % RefWrap]

(* Map page p at va, allocating tables as needed: what page_insert() may leave
   behind.  If a table cannot be allocated, m.entry[va] is as before.      *)
Inserted(m, p, e, va) ==
  {LET n == Link(m, f)
   IN IF Walked(n, e, va)
      THEN [mem |-> page_insert(n, p, e, va), ok |-> TRUE]
      ELSE [mem |-> n, ok |-> FALSE] : f \in WalkTables(m, e, va)}

(* The PTE_W bits after an insertion at s. *)
SetWritable(s, w) == IF w THEN writable \cup {s} ELSE writable \ {s}

----------------------------------------------------------------------------
(* Building an address space *)

Alive(e) == mem.entry[<<e, <<>> >>] # Null

(* The kernel is up: the first program is loaded and nothing has panicked. *)
Loaded == ~ panicked /\ loading # Null /\ toload = {}

(* env_setup_vm(e): a page for the PML4.  env_create() panics without one,
   sys_exofork() returns the error.                                        *)
env_setup_vm(e) ==
  /\ ~ panicked /\ ~ Alive(e)
  /\ loading = Null \/ Loaded
  /\ loading' = IF loading = Null THEN e ELSE loading
  /\ IF mem.free = {}
     THEN /\ retval' = "E_NO_MEM"
          /\ panicked' = (loading = Null)
          /\ UNCHANGED mem
     ELSE /\ retval' = "0"
          /\ \E p \in First(<<e, <<>> >>, mem.free) : mem' = Link(mem, [s \in {<<e, <<>> >>} |-> p])
          /\ UNCHANGED panicked
  /\ UNCHANGED <<writable, toload>>

(* region_alloc(): a page of the first program, during start-up.  It counts
   the page once itself and once more in page_insert().                    *)
region_alloc(e, va) ==
  /\ ~ panicked /\ e = loading
  /\ va \in toload
  /\ toload' = toload \ {va}
  /\ IF mem.free = {}
     THEN panicked' = TRUE /\ UNCHANGED <<mem, writable>>
     ELSE \E p \in First(<<e, va>>, mem.free) :
            \E i \in Inserted([mem EXCEPT !.free = @ \ {p}, !.ref[p] = @ + 1], p, e, va) :
              /\ mem' = i.mem
              /\ panicked' = ~ i.ok
              /\ writable' = SetWritable(<<e, va>>, i.ok)
  /\ UNCHANGED <<loading, retval>>

----------------------------------------------------------------------------
(* The system calls on pages *)

(* Faulty variant: the old page is removed before the tables are walked. *)
sys_page_alloc_RemoveFirst(e, va, w) ==
  /\ Loaded /\ Alive(e)
  /\ LET m == IF mem.entry[<<e, va>>] # Null THEN page_remove(mem, e, va) ELSE mem
     IN IF mem.free = {}
        THEN retval' = "E_NO_MEM" /\ mem' = m /\ UNCHANGED writable
        ELSE \E p \in First(<<e, va>>, mem.free) :
               \E i \in Inserted([m EXCEPT !.free = @ \ {p}], p, e, va) :
                 /\ mem' = IF i.ok THEN i.mem ELSE [i.mem EXCEPT !.free = @ \cup {p}]
                 /\ writable' = IF i.ok THEN SetWritable(<<e, va>>, w) ELSE writable
                 /\ retval' = IF i.ok THEN "0" ELSE "E_NO_MEM"
  /\ UNCHANGED <<loading, toload, panicked>>

(* sys_page_alloc(e, va, perm): the page is allocated first, then the tables;
   it is given back if they cannot be.                                     *)
sys_page_alloc(e, va, w) ==
  /\ Loaded /\ Alive(e)
  /\ IF mem.free = {}
     THEN retval' = "E_NO_MEM" /\ UNCHANGED <<mem, writable>>
     ELSE \E p \in First(<<e, va>>, mem.free) :
            \E i \in Inserted([mem EXCEPT !.free = @ \ {p}], p, e, va) :
              /\ mem' = IF i.ok THEN i.mem ELSE [i.mem EXCEPT !.free = @ \cup {p}]
              /\ writable' = IF i.ok THEN SetWritable(<<e, va>>, w) ELSE writable
              /\ retval' = IF i.ok THEN "0" ELSE "E_NO_MEM"
  /\ UNCHANGED <<loading, toload, panicked>>

(* sys_page_map(se, sva, de, dva, perm).  Write permission is not compared
   with that of the source.                                                *)
sys_page_map(se, sva, de, dva, w) ==
  /\ Loaded /\ Alive(se) /\ Alive(de)
  /\ Walkable(mem, se, sva)
  /\ mem.entry[<<se, sva>>] # Null
  /\ LET p == mem.entry[<<se, sva>>]
     IN /\ mem.ref[p] < MaxRef
        /\ "no_self_remap" \in Discipline /\ mem.entry[<<de, dva>>] = p =>
             \E s \in Slots \ {<<de, dva>>} : mem.entry[s] = p
        /\ \E i \in Inserted(mem, p, de, dva) :
             /\ mem' = i.mem
             /\ writable' = IF i.ok THEN SetWritable(<<de, dva>>, w) ELSE writable
             /\ retval' = IF i.ok THEN "0" ELSE "E_NO_MEM"
  /\ UNCHANGED <<loading, toload, panicked>>

(* sys_page_unmap(e, va) of a mapped page. *)
sys_page_unmap(e, va) ==
  /\ Loaded /\ Alive(e)
  /\ mem.entry[<<e, va>>] # Null
  /\ mem' = page_remove(mem, e, va)
  /\ writable' = IF Walkable(mem, e, va) THEN writable \ {<<e, va>>} ELSE writable
  /\ retval' = "0"
  /\ UNCHANGED <<loading, toload, panicked>>

(* sys_page_unmap(e, va) of an empty entry: page_remove() passes the NULL it
   got from page_lookup() to page_decref(), and the kernel faults: programs
   have nothing mapped at virtual address 0.                               *)
sys_page_unmap_empty(e, va) ==
  /\ "unmap_mapped" \notin Discipline
  /\ Loaded /\ Alive(e)
  /\ mem.entry[<<e, va>>] = Null
  /\ panicked' = Walkable(mem, e, va)
  /\ retval' = "0"
  /\ UNCHANGED <<mem, writable, loading, toload>>

----------------------------------------------------------------------------
(* env_free() *)

(* The page tables and pages env_free() visits: its loops stop short of the
   last entry of a table, and of a directory below the top one.            *)
TableVisited(q) ==
  Len(q) >= 3 => q[3] # LastIndex \/ q[2] = TopDir

(* A mapped page is released by page_remove(), which finds it only as long as
   the first page directory is there: env_free() clears it before it comes to
   the others.                                                             *)
PageVisited(va) ==
  TableVisited(va) /\ va[4] # LastIndex /\ va[2] = 0

(* The entries of e that env_free() gives up.  Those it does not visit are
   forgotten with the tables they are in, and their pages stay counted.    *)
Released(m, e) ==
  {s \in Slots : /\ s[1] = e
                 /\ m.entry[s] # Null
                 /\ IF s[2] \in VAs THEN PageVisited(s[2]) ELSE TableVisited(s[2])}

(* Faulty variant: pages are freed whoever else refers to them. *)
Unref_Forced(m, e) ==
  LET gone == {m.entry[s] : s \in Released(m, e)}
  IN [entry |-> [s \in Slots |-> IF s[1] = e THEN Null ELSE m.entry[s]],
      ref   |-> [p \in AllPages |-> IF p \in gone THEN 0 ELSE m.ref[p]],
      free  |-> m.free \cup gone]

(* env_free(): every entry it gives up drops one reference. *)
Unref(m, e) ==
  LET n(p) == Cardinality({s \in Released(m, e) : m.entry[s] = p})
  IN [entry |-> [s \in Slots |-> IF s[1] = e THEN Null ELSE m.entry[s]],
      ref   |-> [p \in AllPages |-> (m.ref[p] - n(p)) % RefWrap],
      free  |-> m.free \cup {p \in AllPages : n(p) > 0 /\ m.ref[p] = n(p)}]

(* env_free(e) of an environment that has been given memory. *)
env_free(e) ==
  /\ Loaded /\ Alive(e)
  /\ mem.entry[<<e, <<0>> >>] # Null
  /\ mem' = Unref(mem, e)
  /\ writable' = {s \in writable : s[1] # e}
  /\ retval' = "0"
  /\ UNCHANGED <<loading, toload, panicked>>

(* env_free(e) of an environment without a page of PDPEs: it takes physical
   page 0 for one.  What is there decides whether KADDR() panics or page 0 is
   released.                                                               *)
env_free_empty(e) ==
  /\ "destroy_nonempty" \notin Discipline
  /\ Loaded /\ Alive(e)
  /\ mem.entry[<<e, <<0>> >>] = Null
  /\ \/ panicked' = TRUE /\ UNCHANGED mem
     \/ mem' = page_decref(Unref(mem, e), Page0, 1) /\ UNCHANGED panicked
  /\ retval' = "0"
  /\ UNCHANGED <<writable, loading, toload>>

----------------------------------------------------------------------------
Next ==
  \/ \E e \in Envs : env_setup_vm(e)
  \/ \E e \in Envs, va \in VAs : region_alloc(e, va)
  \/ \E e \in Envs, va \in VAs, w \in Perms : sys_page_alloc(e, va, w)
  \/ \E se, de \in Envs, sva, dva \in VAs, w \in Perms :
       sys_page_map(se, sva, de, dva, w)
  \/ \E e \in Envs, va \in VAs : sys_page_unmap(e, va)
  \/ \E e \in Envs : env_free(e)

(* The calls that only undisciplined programs make; a panic is final. *)
NextAny ==
  \/ Next
  \/ \E e \in Envs, va \in VAs : sys_page_unmap_empty(e, va)
  \/ \E e \in Envs : env_free_empty(e)
  \/ panicked /\ UNCHANGED vars

Spec == Init /\ [][Next]_vars
SpecAny == Init /\ [][NextAny]_vars

----------------------------------------------------------------------------
(* Properties *)

Refs(p) == Cardinality({s \in Slots : mem.entry[s] = p})

(* Every variable has its type: entries point to pages, pp_ref stays within its
   width, and a call returns 0 or -E_NO_MEM.                               *)
TypeOK ==
  /\ mem.entry \in [Slots -> AllPages \cup {Null}]
  /\ mem.ref \in [AllPages -> 0 .. RefWrap - 1]
  /\ mem.free \subseteq AllPages
  /\ writable \subseteq Envs \X VAs
  /\ loading \in Envs \cup {Null}
  /\ toload \subseteq BootVAs
  /\ panicked \in BOOLEAN
  /\ retval \in {"0", "E_NO_MEM"}

(* A page that an entry of some page table points to is not on the free list,
   so it is never handed out a second time.                                *)
MappedNotFree ==
  \A s \in Slots : mem.entry[s] # Null => mem.entry[s] \notin mem.free

(* pp_ref counts at least the pointers to a page (it may count more: pages
   leak), and a free page has none.                                        *)
RefCoversMappings ==
  \A p \in Pages : mem.ref[p] >= Refs(p) /\ (p \in mem.free => mem.ref[p] = 0)

(* A page that serves as a page table is pointed to once: it is not mapped as
   user memory and belongs to one address space.                           *)
TablesArePrivate ==
  \A s, t \in Slots :
    s # t /\ s[2] \in Tables /\ mem.entry[s] # Null => mem.entry[t] # mem.entry[s]

(* Page tables form a tree in every address space: tables are private, and a
   mapped page can be reached, since all the tables above it exist.  (The type
   invariant is part of it.)                                               *)
TablesWellFormed ==
  /\ TypeOK /\ TablesArePrivate
  /\ \A s \in Slots : mem.entry[s] # Null =>
       \A k \in 0 .. Len(s[2]) : mem.entry[<<s[1], SubSeq(s[2], 1, k)>>] # Null

(* page_init() rule 1: physical page 0 stays in use. *)
Page0Reserved == mem.ref[Page0] = 1 /\ Page0 \notin mem.free

(* sys_page_unmap() and page_remove(): no page mapped is not an error. *)
NoPanic == ~ panicked

(* A call that runs out of memory keeps every mapping and every permission,
   and whatever left the free list now serves as a page table.             *)
FailureKeepsMappings ==
  [][retval' = "E_NO_MEM" =>
       /\ \A s \in Slots : mem.entry[s] # Null => mem'.entry[s] = mem.entry[s]
       /\ writable' = writable
       /\ \A p \in mem.free \ mem'.free :
            \E s \in Slots : s[2] \in Tables /\ mem'.entry[s] = p]_vars

(* env_free(): all memory of an environment comes back.  Nothing but the free
   list and the page tables holds on to a page.                            *)
NoLeak ==
  \A p \in Pages : p \in mem.free \/ Refs(p) > 0
=============================================================================
