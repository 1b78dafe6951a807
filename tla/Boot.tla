-------------------------------- MODULE Boot --------------------------------
(***************************************************************************)
(* From the boot loader to the last processor: boot/main.c loads the kernel, *)
(* kern/pmap.c finds out how much memory there is, builds the page allocator *)
(* and the kernel's part of the address space, kern/mpconfig.c reads the    *)
(* processor table, and each processor maps its local APIC (kern/lapic.c).  *)
(*                                                                         *)
(* Start-up is one sequence of steps; what varies is the machine it meets:  *)
(* its memory map, its CMOS, its processor table, the kernel image on disk. *)
(* A loop over segments, regions, pages, processors or table entries is one *)
(* step for each round, counted by loop.  Addresses are small numbers,      *)
(* physical addresses in bytes and virtual ones of the kernel's part in     *)
(* pages.                                                                  *)
(***************************************************************************)
EXTENDS Integers, Sequences, FiniteSets, FiniteSetsExt

CONSTANTS
  SECTSIZE, PGSIZE,
  MPENTRY,                    \* the page at MPENTRY_PADDR
  IOPHYSMEM, EXTPHYSMEM,      \* the hole for devices
  SixteenMB,                  \* what the CMOS counts the rest of memory from
  End,                        \* end[]: where the kernel image ends
  SizePageInfo, SizeEnvs,     \* sizeof(struct PageInfo), of the array envs
  MaxPages, Spare,            \* upper limit of npages, and what is left below it
  NTables,                    \* tables that boot_map_region() allocates
  PTPAGES, NPDENTRIES,        \* pages per table, entries per directory
  NCPU, KSTK, KGAP,           \* stack and gap, in pages
  Machines                    \* the machines started

ASSUME SizesAssumption ==
  /\ \A n \in {SECTSIZE, PGSIZE, SizePageInfo, SizeEnvs, PTPAGES, NPDENTRIES, NCPU, KSTK} :
       n \in Nat \ {0}
  /\ \A n \in {MPENTRY, IOPHYSMEM, EXTPHYSMEM, SixteenMB, End, MaxPages, Spare, NTables, KGAP} :
       n \in Nat
ASSUME BootAssumption ==
  /\ IOPHYSMEM % PGSIZE = 0 /\ EXTPHYSMEM % PGSIZE = 0 /\ IOPHYSMEM < EXTPHYSMEM
  /\ MPENTRY * PGSIZE < IOPHYSMEM /\ EXTPHYSMEM < End
  /\ EXTPHYSMEM <= SixteenMB /\ Spare <= MaxPages
  /\ NCPU * (KSTK + KGAP) <= PTPAGES /\ NCPU + 3 <= PTPAGES /\ SizeEnvs <= PTPAGES * PGSIZE

(* What varies: program headers, the memory map, the CMOS, the structures that may
   point to a processor table, and whether the first word of memory, an interrupt
   vector of the BIOS, looks like the page table entry of a device.        *)
Segment == [pa : Nat, off : Nat, memsz : Nat]
Region == [base : Nat, len : Nat, type : Nat]
TableEntry == [kind : {"proc", "other", "unknown"}, apicid : Nat, enabled : BOOLEAN, boot : BOOLEAN]
Pointer == [good : BOOLEAN, type : Int, valid : BOOLEAN, table : Seq(TableEntry)]
ASSUME MachinesAssumption ==
  \A m \in Machines :
    /\ m.elf \in BOOLEAN /\ m.vector0 \in BOOLEAN /\ m.segs \in Seq(Segment) /\ m.mmap \in Seq(Region)
    /\ m.nvram \in [base : Nat, ext : Nat, full : BOOLEAN, above16 : Nat]
    /\ m.mp \in [ebda : Seq(Pointer), last : Seq(Pointer), rom : Seq(Pointer), lapic : Nat]

VARIABLES
  machine,    \* the machine, chosen once
  stage,      \* how far start-up has come
  loop,       \* the loop variable
  ram,        \* the kernel image in memory: byte of the file at each address
  mmap,       \* the memory map, which multiboot_read() changes
  mmap_list,  \* the regions by address: numbers of entries of mmap
  merged,     \* the places of mmap_list that have become NULL
  basemem, extmem,
  mem,        \* npages, npages_basemem, nextfree, where pages[] and envs[] are
  page_free_list,
  listed,     \* history: the pages page_init() put on it
  pp,         \* check_page_free_list(): the list of low pages and that of the others
  kmap,       \* boot_pml4e: what each page above UTOP maps to
  mp,         \* ncpu, bootcpu, ismp, cpu_id of each CpuInfo, lapicaddr, and
              \* how many processors are up
  mmio        \* base of the next MMIO region, and every value lapic has had

e820 == <<mmap, mmap_list, merged, basemem, extmem>>
lists == <<page_free_list, listed, pp>>
vars == <<machine, stage, loop, ram, e820, mem, lists, kmap, mp, mmio>>

ROUNDDOWN(a, n) == (a \div n) * n
ROUNDUP(a, n) == ROUNDDOWN(a + n - 1, n)

(* The kernel's part of the address space, in pages (inc/memlayout.h). *)
UENVS == 0
UPAGES == PTPAGES
MMIOBASE == 2 * PTPAGES
MMIOLIM == 3 * PTPAGES
KERNBASE == 4 * PTPAGES
KSTACKTOP == KERNBASE
Unmapped == [pa |-> -1, perm |-> "none"]

NoMemory == [npages |-> 0, basemem |-> 0, nextfree |-> ROUNDUP(End, PGSIZE),
             pages |-> 0, envs |-> 0]
NoMp == [ncpu |-> 0, bootcpu |-> 0, ismp |-> FALSE, ids |-> [i \in 0 .. NCPU - 1 |-> 0],
         lapicaddr |-> 0, up |-> 0]

Init ==
  /\ machine \in Machines /\ stage = "bios" /\ loop = 0
  /\ ram = [a \in {} |-> 0] /\ mem = NoMemory /\ mp = NoMp
  /\ mmap = machine.mmap /\ mmap_list = <<>> /\ merged = {} /\ basemem = 0 /\ extmem = 0
  /\ page_free_list = <<>> /\ listed = {} /\ pp = <<<<>>, <<>>>>
  /\ kmap = [v \in 0 .. KERNBASE + MaxPages |-> Unmapped]
  /\ mmio = [base |-> MMIOBASE, lapics |-> {}]

(* A round of the loop of stage s, or the step after its last. *)
Round(s, last) == stage = s /\ loop <= last /\ loop' = loop + 1 /\ UNCHANGED stage
Done(s, last, next, first) == stage = s /\ loop > last /\ stage' = next /\ loop' = first

----------------------------------------------------------------------------
(* boot/main.c *)

(* Faulty variant: the address is not rounded down to a sector. *)
readseg_NoRound(m, seg) ==
  LET end == seg.pa + ROUNDUP(seg.memsz, SECTSIZE) - 1 IN
  [a \in DOMAIN m \cup seg.pa .. end |->
     IF a < seg.pa \/ a > end THEN m[a] ELSE ROUNDDOWN(seg.off, SECTSIZE) + a - seg.pa]

(* Whole sectors, from the one that holds the offset, to the one the address is
   in; the image starts in the second sector of the disk.                  *)
readseg(m, seg) ==
  LET pa == ROUNDDOWN(seg.pa, SECTSIZE)
      end == ROUNDUP(seg.pa + seg.memsz, SECTSIZE) - 1
  IN [a \in DOMAIN m \cup pa .. end |->
        IF a < pa \/ a > end THEN m[a] ELSE ROUNDDOWN(seg.off, SECTSIZE) + a - pa]

bootmain ==
  /\ stage = "bios"
  /\ stage' = IF machine.elf THEN "loading" ELSE "bad"
  /\ loop' = 1
  /\ UNCHANGED <<machine, ram, e820, mem, lists, kmap, mp, mmio>>

load_segment ==
  /\ \/ Round("loading", Len(machine.segs)) /\ ram' = readseg(ram, machine.segs[loop])
     \/ Done("loading", Len(machine.segs), "kernel", 0) /\ UNCHANGED ram
  /\ UNCHANGED <<machine, e820, mem, lists, kmap, mp, mmio>>

----------------------------------------------------------------------------
(* kern/pmap.c: the memory of the machine *)

Usable == 1
Reserved == 2
Reclaimable == 3

(* BAD over ACPI NVS over reserved over reclaimable over usable. *)
restrictive_type(t, u) ==
  CASE 5 \in {t, u} -> 5 [] 5 \notin {t, u} /\ 4 \in {t, u} -> 4
    [] {t, u} \cap {4, 5} = {} /\ 2 \in {t, u} -> 2
    [] {t, u} \subseteq {1, 3} /\ 3 \in {t, u} -> 3
    [] OTHER -> 1

(* multiboot_read(): the region is put behind all that do not start after it.
   The ones it is put before move up, from one place further than there are: in
   the last round that place is behind the array, in padding or in whatever the
   compiler has put there, and then nothing is known of what follows.      *)
above == {k \in DOMAIN mmap_list : mmap[mmap_list[k]].base > mmap[loop].base}
insert_region ==
  /\ \/ /\ Round("insert", Len(mmap))
        /\ LET j == Min(above \cup {loop})
           IN mmap_list' = [k \in 1 .. loop |-> IF k < j THEN mmap_list[k]
                                               ELSE IF k = j THEN loop ELSE mmap_list[k - 1]]
        /\ mmap' = [mmap EXCEPT ![loop].type = IF @ \in 1 .. 5 THEN @ ELSE Reserved]
     \/ /\ stage = "insert" /\ loop = Len(mmap) /\ above # {}
        /\ stage' = "corrupt" /\ UNCHANGED <<loop, mmap_list, mmap>>
     \/ Done("insert", Len(mmap), "sanitize", 2) /\ UNCHANGED <<mmap_list, mmap>>
  /\ UNCHANGED <<machine, ram, merged, basemem, extmem, mem, lists, kmap, mp, mmio>>

(* Adjacent regions of a type become one, overlapping ones share a type. *)
sanitize_region ==
  /\ \/ /\ Round("sanitize", Len(mmap))
        /\ LET p == mmap_list[loop - 1]   t == mmap_list[loop]
               prev == mmap[p]   this == mmap[t]   end == prev.base + prev.len
               type == restrictive_type(prev.type, this.type)
           IN \/ /\ end = this.base /\ prev.type = this.type
                 /\ mmap' = [mmap EXCEPT ![t].base = prev.base, ![t].len = prev.len + @]
                 /\ merged' = merged \cup {loop - 1}
              \/ /\ end > this.base
                 /\ mmap' = [mmap EXCEPT ![p].type = type, ![t].type = type]
                 /\ UNCHANGED merged
              \/ /\ end <= this.base /\ ~ (end = this.base /\ prev.type = this.type)
                 /\ UNCHANGED <<mmap, merged>>
     \/ Done("sanitize", Len(mmap), "sum", 1) /\ UNCHANGED <<mmap, merged>>
  /\ UNCHANGED <<machine, ram, mmap_list, basemem, extmem, mem, lists, kmap, mp, mmio>>

(* The bytes of RAM in the regions that start below 1 MB, and in the others. *)
add_region ==
  /\ \/ /\ Round("sum", Len(mmap))
        /\ LET r == mmap[mmap_list[loop]]
               n == IF loop \notin merged /\ r.type \in {Usable, Reclaimable} THEN r.len ELSE 0
               low == r.base < EXTPHYSMEM
           IN /\ basemem' = IF low THEN basemem + n ELSE basemem
              /\ extmem' = IF low THEN extmem ELSE extmem + n
     \/ Done("sum", Len(mmap), "sized", 0) /\ UNCHANGED <<basemem, extmem>>
  /\ UNCHANGED <<machine, ram, mmap, mmap_list, merged, mem, lists, kmap, mp, mmio>>

(* The memory map if the loader passed one, or what the CMOS says. *)
i386_detect_memory ==
  /\ stage = "kernel" /\ loop' = 1
  /\ \/ /\ mmap # <<>> /\ stage' = "insert"
        /\ UNCHANGED <<basemem, extmem>>
     \/ /\ mmap = <<>> /\ stage' = "sized"
        /\ basemem' = machine.nvram.base /\ extmem' = machine.nvram.ext
  /\ UNCHANGED <<machine, ram, mmap, mmap_list, merged, mem, lists, kmap, mp, mmio>>

(* The second half of it. *)
count_pages ==
  /\ stage = "sized" /\ UNCHANGED loop
  /\ LET nv == machine.nvram
         ext == IF nv.full THEN (SixteenMB + nv.above16 - EXTPHYSMEM) \div PGSIZE
                ELSE extmem \div PGSIZE
         n == IF ext # 0 THEN EXTPHYSMEM \div PGSIZE + ext ELSE basemem \div PGSIZE
     IN IF basemem = 0 THEN stage' = "panic" /\ UNCHANGED mem
        ELSE /\ stage' = "detected"
             /\ mem' = [mem EXCEPT !.basemem = basemem \div PGSIZE,
                                   !.npages = IF n > MaxPages THEN MaxPages - Spare ELSE n]
  /\ UNCHANGED <<machine, ram, e820, lists, kmap, mp, mmio>>

(* boot_alloc(): nextfree afterwards. *)
boot_alloc(next, n) == IF n > 0 THEN ROUNDUP(next + n, PGSIZE) ELSE next

(* Faulty variant: the page for the other processors' entry code is given away. *)
page_init_free_NoEntry(i, m) ==
  i # 0 /\ (i < m.basemem \/ i > boot_alloc(m.nextfree, 0) \div PGSIZE)

page_init_free(i, m) ==
  /\ i # 0 /\ i # MPENTRY
  /\ i < m.basemem \/ i > boot_alloc(m.nextfree, 0) \div PGSIZE

(* The directory page, pages[] and envs[]. *)
boot_arrays ==
  /\ stage = "detected" /\ stage' = "page_init" /\ loop' = 0
  /\ LET pml4 == boot_alloc(mem.nextfree, PGSIZE)
         envs == boot_alloc(pml4, mem.npages * SizePageInfo)
     IN mem' = [mem EXCEPT !.pages = pml4, !.envs = envs, !.nextfree = boot_alloc(envs, SizeEnvs)]
  /\ UNCHANGED <<machine, ram, e820, lists, kmap, mp, mmio>>

(* Free pages go to the end of the list. *)
page_init ==
  /\ \/ /\ Round("page_init", mem.npages - 1)
        /\ page_free_list' = IF page_init_free(loop, mem) THEN Append(page_free_list, loop)
                             ELSE page_free_list
        /\ UNCHANGED listed
     \/ /\ Done("page_init", mem.npages - 1, "allocator", 0)
        /\ UNCHANGED page_free_list
        /\ listed' = {page_free_list[k] : k \in DOMAIN page_free_list}
  /\ UNCHANGED <<machine, ram, e820, mem, pp, kmap, mp, mmio>>

----------------------------------------------------------------------------
(* kern/pmap.c: the kernel's mappings *)

boot_map_region(k, la, n, pa, perm) ==
  [v \in DOMAIN k |-> IF v \in la .. la + n - 1 THEN [pa |-> pa + v - la, perm |-> perm] ELSE k[v]]

(* percpu_kstacks is part of the kernel image. *)
percpu_kstacks(i) == 1000 + i * KSTK
bootstack == 1000 + NCPU * KSTK

(* Faulty variant: mapped like pages[], for reading only. *)
mem_init_mp_ReadOnly(k, i) ==
  boot_map_region(k, KSTACKTOP - i * (KSTK + KGAP) - KSTK, KSTK, percpu_kstacks(i), "u")

mem_init_mp(k, i) ==
  boot_map_region(k, KSTACKTOP - i * (KSTK + KGAP) - KSTK, KSTK, percpu_kstacks(i), "w")

(* x64_vm_init() after page_init(): four regions and the stacks. *)
x64_vm_init ==
  /\ stage = "allocator" /\ stage' = "stacks" /\ loop' = 0
  /\ LET k1 == boot_map_region(kmap, UPAGES, PTPAGES, mem.pages \div PGSIZE, "u")
         k2 == boot_map_region(k1, UENVS, PTPAGES, mem.envs \div PGSIZE, "u")
         k3 == boot_map_region(k2, KSTACKTOP - KSTK, KSTK, bootstack, "w")
     IN kmap' = boot_map_region(k3, KERNBASE, mem.npages, 0, "w")
  /\ UNCHANGED <<machine, ram, e820, mem, lists, mp, mmio>>

map_stack ==
  /\ Round("stacks", NCPU - 1)
  /\ kmap' = mem_init_mp(kmap, loop)
  /\ UNCHANGED <<machine, ram, e820, mem, lists, mp, mmio>>

(* The tables for all these mappings have come from the front of the free list;
   boot_map_region() does not look at whether there was one.               *)
take_tables ==
  /\ stage = "stacks" /\ loop > NCPU - 1 /\ loop' = 1
  /\ IF Len(page_free_list) < NTables
     THEN stage' = "panic" /\ UNCHANGED page_free_list
     ELSE /\ stage' = "reorder"
          /\ page_free_list' = SubSeq(page_free_list, NTables + 1, Len(page_free_list))
  /\ UNCHANGED <<machine, ram, e820, mem, listed, pp, kmap, mp, mmio>>

(* Pages in the first entry of a page directory go to the front of the list. *)
PDX(i) == (i \div PTPAGES) % NPDENTRIES
reorder_page ==
  /\ Round("reorder", Len(page_free_list))
  /\ LET i == page_free_list[loop]
         pagetype == IF PDX(i) >= 1 THEN 2 ELSE 1
     IN pp' = [pp EXCEPT ![pagetype] = Append(@, i)]
  /\ UNCHANGED <<machine, ram, e820, mem, page_free_list, listed, kmap, mp, mmio>>

(* The assertions about the list in check_page_free_list(). *)
ListAsserts(free) ==
  /\ \A k \in DOMAIN free : LET i == free[k] IN
       /\ i \notin {0, MPENTRY} /\ i < mem.npages
       /\ i * PGSIZE \notin {IOPHYSMEM, EXTPHYSMEM - PGSIZE, EXTPHYSMEM}
       /\ i * PGSIZE < EXTPHYSMEM \/ i * PGSIZE >= mem.nextfree
  /\ \E k \in DOMAIN free : free[k] * PGSIZE >= EXTPHYSMEM

check_page_free_list ==
  /\ stage = "reorder" /\ loop > Len(page_free_list) /\ loop' = 0
  /\ page_free_list' = pp[1] \o pp[2]
  /\ stage' = IF ListAsserts(pp[1] \o pp[2]) THEN "page_alloc" ELSE "panic"
  /\ UNCHANGED <<machine, ram, e820, mem, listed, pp, kmap, mp, mmio>>

(* The self-tests that take pages from the list: its page n, and what is left. *)
taken(n) == page_free_list[n + 1]
left(n) == SubSeq(page_free_list, n + 1, Len(page_free_list))

(* Three pages are freed and allocated twice over, and given back in the order
   that puts them where they were.                                         *)
check_page_alloc ==
  /\ stage = "page_alloc"
  /\ IF Len(page_free_list) < 3
     THEN stage' = "panic" /\ UNCHANGED page_free_list
     ELSE /\ stage' = "page_check"
          /\ page_free_list' = <<taken(0), taken(1), taken(2)>> \o left(3)
  /\ UNCHANGED <<machine, loop, ram, e820, mem, listed, pp, kmap, mp, mmio>>

(* page_check() takes pp0 to pp5 and gives back pp0, pp2 and pp3; the first on the
   list then becomes the table of the MMIO region.  boot_pml4e[0] is 0 by now, so
   that pml4e_walk() without create returns NULL: the assertions about the
   permissions of the mappings are about the word at address 0, and clearing the
   three mappings clears that word instead.                                *)
page_check ==
  /\ stage = "page_check"
  /\ IF Len(page_free_list) < 6
     THEN stage' = "panic" /\ UNCHANGED <<page_free_list, kmap, mmio>>
     ELSE /\ stage' = IF machine.vector0 THEN "recheck" ELSE "panic"
          /\ page_free_list' = Tail(<<taken(3), taken(2), taken(0)>> \o left(6))
          /\ kmap' = boot_map_region(boot_map_region(kmap, mmio.base, 2, 0, "device"),
                                     mmio.base + 2, 1, 0, "device")
          /\ mmio' = [mmio EXCEPT !.base = @ + 3]
  /\ UNCHANGED <<machine, loop, ram, e820, mem, listed, pp, mp>>

(* The assertions of check_boot_pml4e(). *)
MapAsserts ==
  /\ \A i \in 0 .. ROUNDUP(mem.npages * SizePageInfo, PGSIZE) \div PGSIZE - 1 :
       kmap[UPAGES + i].pa = mem.pages \div PGSIZE + i
  /\ \A i \in 0 .. ROUNDUP(SizeEnvs, PGSIZE) \div PGSIZE - 1 :
       kmap[UENVS + i].pa = mem.envs \div PGSIZE + i
  /\ \A i \in 0 .. mem.npages - 1 : kmap[KERNBASE + i].pa = i
  /\ \A i \in 0 .. NCPU - 1 : LET top == KSTACKTOP - i * (KSTK + KGAP) IN
       /\ \A p \in 1 .. KSTK : kmap[top - p].pa = percpu_kstacks(i) + KSTK - p
       /\ \A p \in KSTK + 1 .. KSTK + KGAP : kmap[top - p].pa = Unmapped.pa

(* check_page_free_list(0), which leaves the order alone, and check_boot_pml4e(). *)
check_boot_pml4e ==
  /\ stage = "recheck"
  /\ stage' = IF ListAsserts(page_free_list) /\ MapAsserts THEN "vm" ELSE "panic"
  /\ UNCHANGED <<machine, loop, ram, e820, mem, lists, kmap, mp, mmio>>

----------------------------------------------------------------------------
(* kern/mpconfig.c and kern/lapic.c *)

(* mpsearch(): the first structure with signature and checksum, in the first KB
   of the EBDA, or the last of base memory if there is none, then in the ROM. *)
mpsearch(m) ==
  LET area == (IF m.ebda # <<>> THEN m.ebda ELSE m.last) \o m.rom
      good == {i \in DOMAIN area : area[i].good}
  IN IF good = {} THEN [type |-> -1, table |-> <<>>, valid |-> FALSE] ELSE area[Min(good)]

mpconfig(fp) == fp.type = 0 /\ fp.valid

(* Faulty variant: a processor that cannot be used is counted. *)
Entry_CountAll(s, e) ==
  LET counted == e.kind = "proc" /\ s.ncpu < NCPU IN
  [s EXCEPT !.bootcpu = IF e.kind = "proc" /\ e.boot THEN s.ncpu ELSE @,
            !.ids = IF counted THEN [@ EXCEPT ![s.ncpu] = s.ncpu] ELSE @,
            !.ncpu = IF counted THEN @ + 1 ELSE @,
            !.ismp = @ /\ e.kind # "unknown"]

(* One entry of the table; the first of an unknown kind ends the loop. *)
Entry(s, e) ==
  LET counted == e.kind = "proc" /\ s.ncpu < NCPU /\ e.enabled IN
  [s EXCEPT !.bootcpu = IF e.kind = "proc" /\ e.boot THEN s.ncpu ELSE @,
            !.ids = IF counted THEN [@ EXCEPT ![s.ncpu] = s.ncpu] ELSE @,
            !.ncpu = IF counted THEN @ + 1 ELSE @,
            !.ismp = @ /\ e.kind # "unknown"]

mp_init ==
  /\ stage = "vm" /\ loop' = 1
  /\ IF mpconfig(mpsearch(machine.mp))
     THEN /\ stage' = "entries"
          /\ mp' = [mp EXCEPT !.ismp = TRUE, !.lapicaddr = machine.mp.lapic]
     ELSE stage' = "mp" /\ UNCHANGED mp
  /\ UNCHANGED <<machine, ram, e820, mem, lists, kmap, mmio>>

mp_entry ==
  /\ LET table == mpsearch(machine.mp).table IN
     \/ mp.ismp /\ Round("entries", Len(table)) /\ mp' = Entry(mp, table[loop])
     \/ mp.ismp /\ Done("entries", Len(table), "mp", 0) /\ UNCHANGED mp
     \/ /\ ~ mp.ismp /\ stage = "entries" /\ stage' = "mp" /\ loop' = 0
        /\ mp' = [mp EXCEPT !.ncpu = 1, !.lapicaddr = 0]
  /\ UNCHANGED <<machine, ram, e820, mem, lists, kmap, mmio>>

(* mmio_map_region() of one page at pa, for lapic_init(). *)
lapic_init ==
  IF mp.lapicaddr = 0 THEN UNCHANGED <<kmap, mmio>>
  ELSE /\ kmap' = boot_map_region(kmap, mmio.base, 1, mp.lapicaddr \div PGSIZE, "device")
       /\ mmio' = [base |-> mmio.base + 1, lapics |-> mmio.lapics \cup {mmio.base}]

(* The boot processor, and then one after the other the rest (mp_main()).  A
   region behind MMIOLIM is a panic.                                       *)
bsp_lapic_init ==
  /\ stage = "mp" /\ stage' = "aps"
  /\ lapic_init /\ mp' = [mp EXCEPT !.up = 1]
  /\ UNCHANGED <<machine, loop, ram, e820, mem, lists>>

ap_lapic_init ==
  /\ stage = "aps" /\ mp.up < mp.ncpu
  /\ IF mmio.base + 1 > MMIOLIM
     THEN stage' = "panic" /\ UNCHANGED <<kmap, mmio, mp>>
     ELSE lapic_init /\ mp' = [mp EXCEPT !.up = @ + 1] /\ UNCHANGED stage
  /\ UNCHANGED <<machine, loop, ram, e820, mem, lists>>

Next == \/ bootmain \/ load_segment
        \/ i386_detect_memory \/ insert_region \/ sanitize_region \/ add_region \/ count_pages
        \/ boot_arrays \/ page_init \/ x64_vm_init \/ map_stack \/ take_tables
        \/ reorder_page \/ check_page_free_list \/ check_page_alloc \/ page_check
        \/ check_boot_pml4e
        \/ mp_init \/ mp_entry \/ bsp_lapic_init \/ ap_lapic_init
Spec == Init /\ [][Next]_vars

----------------------------------------------------------------------------
(* Properties *)

(* A kernel linked so that addresses and offsets agree within a sector, segments
   in increasing order, and one distance between both wherever two segments meet
   in a sector.                                                            *)
WellLinked(segs) ==
  /\ \A i \in DOMAIN segs : segs[i].pa % SECTSIZE = segs[i].off % SECTSIZE
  /\ \A i, j \in DOMAIN segs : i < j =>
       /\ segs[i].pa + segs[i].memsz <= segs[j].pa
       /\ \/ ROUNDUP(segs[i].pa + segs[i].memsz, SECTSIZE) <= ROUNDDOWN(segs[j].pa, SECTSIZE)
          \/ segs[i].pa - segs[i].off = segs[j].pa - segs[j].off

(* bootmain(): every byte of every segment is in memory where its header says,
   although whole sectors are read over the edges of neighbouring segments. *)
SegmentsLoaded ==
  stage \notin {"bios", "bad", "loading"} /\ WellLinked(machine.segs) =>
    \A i \in DOMAIN machine.segs :
      LET s == machine.segs[i] IN
      \A b \in 0 .. s.memsz - 1 : ram[s.pa + b] = s.off + b

(* What the memory map says of address a; a byte of a region. *)
InRegion(a, r) == r.base <= a /\ a < r.base + r.len
IsUsable(r) == r.type \in {Usable, Reclaimable}
Map == machine.mmap
IsRam(a) == IF Map # <<>>
            THEN /\ \E i \in DOMAIN Map : InRegion(a, Map[i])
                 /\ \A i \in DOMAIN Map : InRegion(a, Map[i]) => IsUsable(Map[i])
            ELSE a < machine.nvram.base \/ a \in EXTPHYSMEM .. EXTPHYSMEM + machine.nvram.ext - 1
PageIsRam(i) == \A a \in i * PGSIZE .. (i + 1) * PGSIZE - 1 : IsRam(a)

(* Two regions overlap, and no other one starts between their starts. *)
Overlap(r, s) == r.base < s.base + s.len /\ s.base < r.base + r.len /\ r.len > 0 /\ s.len > 0
Neighbours(i, j) ==
  \A k \in DOMAIN Map \ {i, j} : \/ Map[k].base < Map[i].base /\ Map[k].base < Map[j].base
                                 \/ Map[k].base > Map[i].base /\ Map[k].base > Map[j].base

(* A machine as the code takes it to be: RAM from 0 upwards with nothing usable
   in the hole, RAM from EXTPHYSMEM upwards without gaps, regions that do not
   overlap except for a neighbour of another type.                         *)
Regular ==
  /\ ~ machine.nvram.full /\ machine.nvram.base <= IOPHYSMEM
  /\ \A i, j \in DOMAIN Map : i # j /\ Overlap(Map[i], Map[j]) =>
       /\ ~ (IsUsable(Map[i]) /\ IsUsable(Map[j]))
       /\ IsUsable(Map[i]) \/ IsUsable(Map[j]) => Neighbours(i, j)
  /\ \A i \in DOMAIN Map : IsUsable(Map[i]) =>
       \/ Map[i].base + Map[i].len <= IOPHYSMEM
       \/ /\ Map[i].base >= EXTPHYSMEM
          /\ \A a \in EXTPHYSMEM .. Map[i].base + Map[i].len - 1 : IsRam(a)
  /\ \A a \in 0 .. IOPHYSMEM - 1 : IsRam(a) => \A b \in 0 .. a : IsRam(b)

(* On such a machine every page the allocator will hand out is RAM that nothing
   else uses: not page 0, not the entry code of the other processors, not the
   hole, not the kernel, its arrays or its tables.  On any machine no page is
   listed twice, low ones come first until the self-tests take pages, and besides
   the tables four are gone after these: three that page_check() does not give
   back and the table of the MMIO region.  On a regular machine no assertion
   fails as long as memory reaches NTables + 7 pages past the kernel.      *)
Listing == {"page_alloc", "page_check"}
Tested == {"recheck", "vm", "entries", "mp", "aps"}
FreeIsRam ==
  /\ Regular => \A k \in DOMAIN page_free_list :
       LET i == page_free_list[k] IN
         /\ PageIsRam(i) /\ i \notin {0, MPENTRY}
         /\ i * PGSIZE < IOPHYSMEM \/ i * PGSIZE >= mem.nextfree
  /\ stage \in Listing \cup Tested =>
       /\ Len(page_free_list) + NTables + (IF stage \in Tested THEN 4 ELSE 0) = Cardinality(listed)
       /\ \A j, k \in DOMAIN page_free_list :
            /\ page_free_list[j] \in listed
            /\ page_free_list[j] = page_free_list[k] => j = k
            /\ stage \in Listing =>
                 (page_free_list[j] < PTPAGES /\ page_free_list[k] >= PTPAGES => j < k)
  /\ Regular /\ stage = "panic" =>
       \/ mem.npages = 0
       \/ mem.npages * PGSIZE < mem.nextfree + (NTables + 7) * PGSIZE
       \/ mem.npages * SizePageInfo > PTPAGES * PGSIZE
       \/ ~ machine.vector0

(* "give free list back", "free the pages we took" (page_check()): what is not on
   the list after the self-tests is in a table.                            *)
SelfTestsGiveBack ==
  stage \in Tested => Len(page_free_list) + NTables + 1 = Cardinality(listed)

(* "clear the mappings" (page_check()): in the MMIO region only the local APIC is
   mapped after the self-tests.                                            *)
MappingsCleared ==
  stage \in Tested =>
    \A v \in MMIOBASE .. MMIOLIM - 1 : kmap[v] # Unmapped => v \in mmio.lapics

(* multiboot_read() inserts the regions into mmap_list, which has as many places
   as there are regions, and writes nothing else.                          *)
SortStaysInList == stage # "corrupt"

(* The kernel's address space once start-up is over: every processor has a stack
   of its own with nothing mapped below it, all physical memory is at KERNBASE,
   and every address lapic has ever had still leads to the local APIC, since a
   processor may have read it before another one mapped it again.          *)
LayoutHolds ==
  stage \in {"mp", "aps"} =>
    /\ \A i \in 0 .. NCPU - 1 :
         LET top == KSTACKTOP - i * (KSTK + KGAP) IN
         /\ \A p \in 1 .. KSTK : kmap[top - p] = [pa |-> percpu_kstacks(i) + KSTK - p, perm |-> "w"]
         /\ \A p \in KSTK + 1 .. KSTK + KGAP : kmap[top - p] = Unmapped
    /\ \A i \in 0 .. mem.npages - 1 : kmap[KERNBASE + i] = [pa |-> i, perm |-> "w"]
    /\ \A v \in mmio.lapics : /\ v \in MMIOBASE .. MMIOLIM - 1
                              /\ kmap[v] = [pa |-> mp.lapicaddr \div PGSIZE, perm |-> "device"]
    /\ mp.lapicaddr # 0 => Cardinality(mmio.lapics) = mp.up

(* mp_init(): where the usable processors are numbered from 0 in the order of the
   table and the boot processor is among the first NCPU of them, every processor
   finds its own CpuInfo at cpus[cpunum()], and bootcpu is that of the one that
   runs this code.                                                         *)
ProcTable == mpsearch(machine.mp).table
On == {k \in DOMAIN ProcTable : ProcTable[k].kind = "proc" /\ ProcTable[k].enabled}
Number(k) == Cardinality({j \in On : j < k})
ProcessorsKnown ==
  stage \in {"mp", "aps"} /\ mp.ismp =>
    \A b \in On :
      /\ \A k \in On : ProcTable[k].apicid = Number(k)
      /\ Number(b) < NCPU
      /\ \A k \in DOMAIN ProcTable : ProcTable[k].kind = "proc" => (ProcTable[k].boot <=> k = b)
      => /\ mp.ncpu = Min({NCPU, Cardinality(On)})
         /\ \A k \in On : Number(k) < mp.ncpu => mp.ids[Number(k)] = ProcTable[k].apicid
         /\ mp.bootcpu < mp.ncpu /\ mp.ids[mp.bootcpu] = ProcTable[b].apicid
=============================================================================
