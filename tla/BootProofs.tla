----------------------------- MODULE BootProofs ------------------------------
(***************************************************************************)
(* Proofs about Boot for any number of segments, regions, pages, table     *)
(* entries and processors, of machines of any size.                        *)
(***************************************************************************)
EXTENDS Boot, TLAPS, FiniteSetTheorems, SequenceTheorems, NaturalsInduction, WellFoundedInduction

----------------------------------------------------------------------------
(* Arithmetic *)

(* What sizes and limits are. *)
LEMMA Sizes ==
  /\ SECTSIZE \in Nat /\ SECTSIZE > 0 /\ PGSIZE \in Nat /\ PGSIZE > 0
  /\ SizePageInfo \in Nat /\ SizePageInfo > 0 /\ SizeEnvs \in Nat /\ SizeEnvs > 0
  /\ PTPAGES \in Nat /\ PTPAGES > 0 /\ NPDENTRIES \in Nat /\ NPDENTRIES > 0
  /\ NCPU \in Nat /\ NCPU > 0 /\ KSTK \in Nat /\ KSTK > 0 /\ KGAP \in Nat
  /\ MPENTRY \in Nat /\ IOPHYSMEM \in Nat /\ EXTPHYSMEM \in Nat /\ SixteenMB \in Nat
  /\ End \in Nat /\ MaxPages \in Nat /\ Spare \in Nat /\ NTables \in Nat
<1>1. \A n \in {SECTSIZE, PGSIZE, SizePageInfo, SizeEnvs, PTPAGES, NPDENTRIES, NCPU, KSTK} :
        n \in Nat /\ n > 0
  BY SizesAssumption
<1>2. \A n \in {MPENTRY, IOPHYSMEM, EXTPHYSMEM, SixteenMB, End, MaxPages, Spare, NTables, KGAP} :
        n \in Nat
  BY SizesAssumption
<1> QED BY <1>1, <1>2

(* Rounding down gives the multiple next below. *)
LEMMA DownFacts ==
  ASSUME NEW a \in Nat, NEW n \in Nat, n > 0
  PROVE  /\ a \div n \in Nat /\ ROUNDDOWN(a, n) \in Nat
         /\ ROUNDDOWN(a, n) <= a /\ a < ROUNDDOWN(a, n) + n
BY DEF ROUNDDOWN

(* Numbers with one remainder are as far from what they are rounded down to. *)
LEMMA SameOffset ==
  ASSUME NEW a \in Nat, NEW b \in Nat, NEW n \in Nat, n > 0, a % n = b % n
  PROVE  a - ROUNDDOWN(a, n) = b - ROUNDDOWN(b, n)
BY DEF ROUNDDOWN

(* Rounding up gives the multiple next above. *)
LEMMA UpFacts ==
  ASSUME NEW a \in Nat, NEW n \in Nat, n > 0
  PROVE  ROUNDUP(a, n) \in Nat /\ a <= ROUNDUP(a, n) /\ ROUNDUP(a, n) < a + n
<1>1. a + n - 1 \in Nat
  OBVIOUS
<1>2. /\ ROUNDDOWN(a + n - 1, n) \in Nat /\ ROUNDDOWN(a + n - 1, n) <= a + n - 1
      /\ a + n - 1 < ROUNDDOWN(a + n - 1, n) + n
  BY <1>1, DownFacts
<1> QED BY <1>2 DEF ROUNDUP

(* A product of natural numbers is one, and grows with its factors. *)
LEMMA TimesMonotone ==
  ASSUME NEW i \in Nat, NEW j \in Nat, NEW k \in Nat, i <= j
  PROVE  i * k \in Nat /\ j * k \in Nat /\ i * k <= j * k
OBVIOUS

(* A set of natural numbers that is not empty has a least element, which Min is. *)
LEMMA LeastNat ==
  ASSUME NEW S \in SUBSET Nat, S # {}
  PROVE  Min(S) \in S /\ \A n \in S : Min(S) <= n
<1>1. PICK m \in S : \A n \in S : <<n, m>> \notin OpToRel(<, Nat)
  BY NatLessThanWellFounded, WFMin
<1>2. \A n \in S : ~ (n < m)
  BY <1>1 DEF OpToRel
<1>3. \A n \in S : m <= n
  BY <1>2
<1> QED BY <1>3 DEF Min

----------------------------------------------------------------------------
(* Types *)

Early == {"bios", "bad", "loading", "kernel"}
Perms == {"none", "u", "w", "device"}
E820Types ==
  /\ mmap \in Seq(Region) /\ Len(mmap) = Len(machine.mmap)
  /\ mmap_list \in Seq(1 .. Len(mmap)) /\ merged \subseteq Nat
  /\ basemem \in Nat /\ extmem \in Nat
  /\ stage \in Early => /\ mmap = machine.mmap /\ mmap_list = <<>> /\ merged = {}
                       /\ basemem = 0 /\ extmem = 0
  /\ stage = "insert" =>
       Len(mmap) > 0 /\ Len(mmap_list) = loop - 1 /\ loop \in 1 .. Len(mmap) + 1
  /\ stage \in {"sanitize", "sum"} => Len(mmap_list) = Len(mmap) /\ Len(mmap) > 0
  /\ stage = "sanitize" => loop \in 2 .. Len(mmap) + 1
  /\ stage = "sum" => loop \in 1 .. Len(mmap) + 1
MemTypes ==
  /\ mem \in [npages : Nat, basemem : Nat, nextfree : Nat, pages : Nat, envs : Nat]
  /\ mem.npages <= MaxPages
ListTypes ==
  /\ page_free_list \in Seq(Nat) /\ listed \subseteq Nat
  /\ pp \in [1 .. 2 -> Seq(Nat)]
MapTypes ==
  /\ kmap \in [0 .. KERNBASE + MaxPages -> [pa : Int, perm : Perms]]
  /\ mmio \in [base : Nat, lapics : SUBSET Nat]
MpTypes ==
  mp \in [ncpu : Nat, bootcpu : Nat, ismp : BOOLEAN, ids : [0 .. NCPU - 1 -> Nat],
          lapicaddr : Nat, up : Nat]
BootTypes ==
  /\ machine \in Machines /\ loop \in Nat
  /\ stage \in {"loading", "reorder", "entries"} => loop > 0
  /\ E820Types /\ MemTypes /\ ListTypes /\ MapTypes /\ MpTypes

(* What a machine is. *)
LEMMA MachineTypes ==
  ASSUME machine \in Machines
  PROVE  /\ machine.segs \in Seq(Segment) /\ machine.mmap \in Seq(Region)
         /\ machine.nvram \in [base : Nat, ext : Nat, full : BOOLEAN, above16 : Nat]
         /\ machine.mp \in [ebda : Seq(Pointer), last : Seq(Pointer), rom : Seq(Pointer), lapic : Nat]
BY MachinesAssumption

(* The table found by mpsearch() has entries. *)
LEMMA TableTypes ==
  ASSUME machine \in Machines
  PROVE  ProcTable \in Seq(TableEntry)
<1> DEFINE m == machine.mp
           area == (IF m.ebda # <<>> THEN m.ebda ELSE m.last) \o m.rom
           good == {i \in DOMAIN area : area[i].good}
<1>1. m.ebda \in Seq(Pointer) /\ m.last \in Seq(Pointer) /\ m.rom \in Seq(Pointer)
  BY MachineTypes
<1>2. area \in Seq(Pointer)
  BY <1>1, ConcatProperties
<1> HIDE DEF area
<1>3. CASE good = {}
  <2>1. mpsearch(m).table = <<>>
    BY <1>3 DEF mpsearch, area
  <2> QED BY <2>1 DEF ProcTable
<1>4. CASE good # {}
  <2>1. good \subseteq Nat
    BY <1>2
  <2>2. Min(good) \in good
    BY <2>1, <1>4, LeastNat
  <2>3. mpsearch(m) = area[Min(good)]
    BY <1>4 DEF mpsearch, area
  <2>4. area[Min(good)] \in Pointer
    BY <2>2, <1>2
  <2> QED BY <2>3, <2>4 DEF ProcTable, Pointer
<1> QED BY <1>3, <1>4

(* boot_alloc() moves nextfree up, and at least as far as was asked for. *)
LEMMA AllocFacts ==
  ASSUME NEW next \in Nat, NEW n \in Nat
  PROVE  boot_alloc(next, n) \in Nat /\ next + n <= boot_alloc(next, n)
<1>1. next + n \in Nat
  OBVIOUS
<1> QED BY <1>1, Sizes, UpFacts DEF boot_alloc

(* Mapping a region keeps the type of kmap. *)
LEMMA RegionTypes ==
  ASSUME NEW k, k \in [0 .. KERNBASE + MaxPages -> [pa : Int, perm : Perms]],
         NEW la \in Int, NEW n \in Int, NEW pa \in Int, NEW perm \in Perms
  PROVE  boot_map_region(k, la, n, pa, perm) \in [0 .. KERNBASE + MaxPages -> [pa : Int, perm : Perms]]
<1>1. KERNBASE + MaxPages \in Nat
  BY Sizes DEF KERNBASE
<1>2. ASSUME NEW v \in 0 .. KERNBASE + MaxPages
      PROVE  (IF v \in la .. la + n - 1 THEN [pa |-> pa + v - la, perm |-> perm] ELSE k[v])
             \in [pa : Int, perm : Perms]
  <2>1. k[v] \in [pa : Int, perm : Perms] /\ v \in Int
    BY <1>1
  <2> QED BY <2>1
<1> QED BY <1>2 DEF boot_map_region

(* An entry of the processor table keeps the type of mp. *)
LEMMA EntryTypes ==
  ASSUME MpTypes, NEW e \in TableEntry
  PROVE  Entry(mp, e) \in [ncpu : Nat, bootcpu : Nat, ismp : BOOLEAN, ids : [0 .. NCPU - 1 -> Nat],
                           lapicaddr : Nat, up : Nat]
<1> DEFINE counted == e.kind = "proc" /\ mp.ncpu < NCPU /\ e.enabled
           boot == IF e.kind = "proc" /\ e.boot THEN mp.ncpu ELSE mp.bootcpu
           ids == IF counted THEN [mp.ids EXCEPT ![mp.ncpu] = mp.ncpu] ELSE mp.ids
           ncpu == IF counted THEN mp.ncpu + 1 ELSE mp.ncpu
<1>1. Entry(mp, e) = [mp EXCEPT !.bootcpu = boot, !.ids = ids, !.ncpu = ncpu,
                                !.ismp = mp.ismp /\ e.kind # "unknown"]
  BY DEF Entry, MpTypes
<1>2. boot \in Nat /\ ncpu \in Nat /\ ids \in [0 .. NCPU - 1 -> Nat]
  BY Sizes DEF MpTypes
<1> HIDE DEF boot, ids, ncpu
<1> QED BY <1>1, <1>2 DEF MpTypes

(* Fields of a region. *)
LEMMA RegionFields ==
  ASSUME NEW r \in Region, NEW ty \in Nat, NEW b \in Nat, NEW n \in Nat
  PROVE  /\ r.type \in Nat /\ r.base \in Nat /\ r.len \in Nat
         /\ [r EXCEPT !.type = ty] \in Region
         /\ [r EXCEPT !.base = b, !.len = n] \in Region
BY DEF Region

(* The types hold in every initial state. *)
LEMMA TypesInit == Init => BootTypes
<1> SUFFICES ASSUME Init PROVE BootTypes
  OBVIOUS
<1> USE DEF Init
<1>1. E820Types
  BY MachineTypes DEF E820Types, Early
<1>2. MemTypes
  BY Sizes, UpFacts DEF MemTypes, NoMemory
<1>3. ListTypes
  <2>1. pp \in Seq(Seq(Nat)) /\ Len(pp) = 2
    OBVIOUS
  <2>2. pp \in [1 .. 2 -> Seq(Nat)]
    BY <2>1, LenProperties
  <2> QED BY <2>2 DEF ListTypes
<1>4. MapTypes
  BY Sizes DEF MapTypes, Unmapped, Perms, MMIOBASE
<1>5. MpTypes
  BY Sizes DEF MpTypes, NoMp
<1> QED BY <1>1, <1>2, <1>3, <1>4, <1>5 DEF BootTypes

(* They are kept by the boot loader, ... *)
LEMMA TypesLoader ==
  ASSUME BootTypes, bootmain \/ load_segment
  PROVE  BootTypes'
<1>1. machine' = machine /\ UNCHANGED <<e820, mem, lists, kmap, mp, mmio>>
  BY DEF bootmain, load_segment
<1>2. loop' \in Nat /\ (stage' \in {"loading", "reorder", "entries"} => loop' > 0)
      /\ stage \in Early /\ stage' \in Early
  BY DEF bootmain, load_segment, BootTypes, Round, Done, Early
<1> QED BY <1>1, <1>2
    DEF Early, BootTypes, E820Types, MemTypes, ListTypes, MapTypes, MpTypes, e820, lists

(* ... while the memory map is read and made sane, ... *)
LEMMA TypesMemory ==
  ASSUME BootTypes, i386_detect_memory \/ insert_region \/ sanitize_region \/ add_region
  PROVE  BootTypes'
<1>1. machine' = machine /\ UNCHANGED <<mem, lists, kmap, mp, mmio>>
  BY DEF i386_detect_memory, insert_region, sanitize_region, add_region
<1>2. loop' \in Nat /\ stage' \notin {"loading", "reorder", "entries"}
  BY DEF i386_detect_memory, insert_region, sanitize_region, add_region, BootTypes, Round, Done
<1>3. E820Types'
  <2> USE DEF Early
  <2>1. CASE i386_detect_memory
    <3>1. /\ stage' \in {"insert", "sized"} /\ loop' = 1 /\ (stage' = "insert" => mmap # <<>>)
          /\ UNCHANGED <<mmap, mmap_list, merged>>
          /\ mmap \in Seq(Region) /\ Len(mmap) = Len(machine.mmap)
          /\ mmap_list = <<>> /\ merged = {} /\ mmap_list \in Seq(1 .. Len(mmap))
      BY <2>1 DEF i386_detect_memory, BootTypes, E820Types
    <3>2. basemem' \in Nat /\ extmem' \in Nat
      BY <2>1, MachineTypes DEF i386_detect_memory, BootTypes, E820Types
    <3>3. mmap # <<>> => Len(mmap) > 0
      BY <3>1
    <3> QED BY <3>1, <3>2, <3>3, <1>1 DEF E820Types
  <2>2. CASE insert_region
    <3>1. CASE Round("insert", Len(mmap))
      <4> DEFINE j == Min(above \cup {loop})
      <4>1. /\ mmap_list' = [k \in 1 .. loop |-> IF k < j THEN mmap_list[k]
                                            ELSE IF k = j THEN loop ELSE mmap_list[k - 1]]
            /\ mmap' = [mmap EXCEPT ![loop].type = IF @ \in 1 .. 5 THEN @ ELSE Reserved]
            /\ loop' = loop + 1 /\ stage' = "insert" /\ stage = "insert" /\ loop <= Len(mmap)
            /\ UNCHANGED <<merged, basemem, extmem>>
        BY <2>2, <3>1 DEF insert_region, Round, Done
      <4>2. /\ mmap_list \in Seq(1 .. Len(mmap)) /\ Len(mmap_list) = loop - 1
            /\ loop \in 1 .. Len(mmap) /\ mmap \in Seq(Region)
            /\ merged \subseteq Nat /\ basemem \in Nat /\ extmem \in Nat
            /\ Len(mmap) = Len(machine.mmap)
        BY <4>1 DEF BootTypes, E820Types
      <4>3. above \subseteq 1 .. loop - 1
        BY <4>2 DEF above
      <4>4. j \in 1 .. loop
        <5>1. above \cup {loop} \in SUBSET Nat
          BY <4>3, <4>2
        <5>2. j \in above \cup {loop}
          BY <5>1, LeastNat
        <5> HIDE DEF j
        <5> QED BY <5>2, <4>3, <4>2
      <4> HIDE DEF j
      <4>5. mmap_list' \in [1 .. loop -> 1 .. Len(mmap)]
        <5> SUFFICES ASSUME NEW k \in 1 .. loop
                     PROVE  (IF k < j THEN mmap_list[k]
                             ELSE IF k = j THEN loop ELSE mmap_list[k - 1]) \in 1 .. Len(mmap)
          BY <4>1
        <5>1. CASE k < j
          BY <5>1, <4>2, <4>4
        <5>2. CASE k = j
          BY <5>2, <4>2, <4>4
        <5>3. CASE k > j
          <6>1. k - 1 \in 1 .. Len(mmap_list)
            BY <5>3, <4>2, <4>4
          <6>2. mmap_list[k - 1] \in 1 .. Len(mmap)
            BY <6>1, <4>2
          <6> QED BY <5>3, <6>2, <4>4
        <5> QED BY <5>1, <5>2, <5>3, <4>4
      <4>6. mmap_list' \in Seq(1 .. Len(mmap)) /\ Len(mmap_list') = loop
        BY <4>5, <4>2
      <4>7. mmap' \in Seq(Region) /\ Len(mmap') = Len(mmap)
        <5>1. PICK ty \in Nat : mmap' = [mmap EXCEPT ![loop] = [mmap[loop] EXCEPT !.type = ty]]
          <6>1. mmap[loop].type \in Nat
            BY <4>2, ElementOfSeq, RegionFields
          <6> QED BY <4>1, <6>1 DEF Reserved
        <5>2. [mmap[loop] EXCEPT !.type = ty] \in Region
          BY <4>2, ElementOfSeq, RegionFields
        <5> QED BY <5>1, <5>2, <4>2, ExceptSeq
      <4> QED BY <4>1, <4>2, <4>6, <4>7, <1>1 DEF E820Types
    <3>2. CASE Done("insert", Len(mmap), "sanitize", 2)
      BY <2>2, <3>2, <1>1 DEF insert_region, Round, Done, BootTypes, E820Types
    <3>3. CASE stage = "insert" /\ stage' = "corrupt" /\ UNCHANGED <<loop, mmap_list, mmap>>
      BY <2>2, <3>3, <1>1 DEF insert_region, BootTypes, E820Types
    <3> QED BY <2>2, <3>1, <3>2, <3>3 DEF insert_region
  <2>3. CASE sanitize_region
    <3>1. CASE Round("sanitize", Len(mmap))
      <4> DEFINE p == mmap_list[loop - 1]
                 t == mmap_list[loop]
                 type == restrictive_type(mmap[p].type, mmap[t].type)
      <4>1. /\ loop' = loop + 1 /\ stage' = "sanitize" /\ stage = "sanitize" /\ loop <= Len(mmap)
            /\ UNCHANGED <<mmap_list, basemem, extmem>>
        BY <2>3, <3>1 DEF sanitize_region, Round, Done
      <4>2. \/ /\ mmap' = [mmap EXCEPT ![t].base = mmap[p].base, ![t].len = mmap[p].len + @]
               /\ merged' = merged \cup {loop - 1}
            \/ mmap' = [mmap EXCEPT ![p].type = type, ![t].type = type] /\ merged' = merged
            \/ mmap' = mmap /\ merged' = merged
        BY <2>3, <3>1 DEF sanitize_region, Round, Done
      <4>3. /\ mmap_list \in Seq(1 .. Len(mmap)) /\ Len(mmap_list) = Len(mmap)
            /\ loop \in 2 .. Len(mmap) /\ mmap \in Seq(Region)
            /\ merged \subseteq Nat /\ basemem \in Nat /\ extmem \in Nat
            /\ Len(mmap) = Len(machine.mmap)
        BY <4>1 DEF BootTypes, E820Types
      <4>4. p \in 1 .. Len(mmap) /\ t \in 1 .. Len(mmap) /\ type \in Nat
        <5>1. p \in 1 .. Len(mmap) /\ t \in 1 .. Len(mmap)
          <6>1. loop - 1 \in 1 .. Len(mmap_list) /\ loop \in 1 .. Len(mmap_list)
            BY <4>3
          <6> QED BY <6>1, <4>3, ElementOfSeq
        <5>2. type \in Nat
          BY DEF restrictive_type
        <5> QED BY <5>1, <5>2
      <4> HIDE DEF p, t, type
      <4>5. mmap' \in Seq(Region) /\ Len(mmap') = Len(mmap) /\ merged' \subseteq Nat
        <5>1. mmap[p] \in Region /\ mmap[t] \in Region
          BY <4>3, <4>4, ElementOfSeq
        <5>2. CASE mmap' = [mmap EXCEPT ![t].base = mmap[p].base, ![t].len = mmap[p].len + @]
                   /\ merged' = merged \cup {loop - 1}
          <6> DEFINE x == [mmap[t] EXCEPT !.base = mmap[p].base, !.len = mmap[p].len + @]
          <6>1. x \in Region
            <7>1. mmap[p].base \in Nat /\ mmap[p].len + mmap[t].len \in Nat
              BY <5>1 DEF Region
            <7>2. x = [mmap[t] EXCEPT !.base = mmap[p].base, !.len = mmap[p].len + mmap[t].len]
              BY <5>1 DEF Region
            <7> HIDE DEF x
            <7> QED BY <7>1, <7>2, <5>1, RegionFields
          <6>2. mmap' = [mmap EXCEPT ![t] = x]
            BY <5>2, <4>3, <4>4
          <6> HIDE DEF x
          <6> QED BY <6>1, <6>2, <5>2, <4>3, <4>4, ExceptSeq, SMTT(30)
        <5>3. CASE mmap' = [mmap EXCEPT ![p].type = type, ![t].type = type] /\ merged' = merged
          <6> DEFINE s == [mmap EXCEPT ![p] = [mmap[p] EXCEPT !.type = type]]
          <6>1. [mmap[p] EXCEPT !.type = type] \in Region
            BY <5>1, <4>4 DEF Region
          <6>2. s \in Seq(Region) /\ Len(s) = Len(mmap)
            BY <6>1, <4>3, <4>4, ExceptSeq
          <6>3. mmap' = [s EXCEPT ![t].type = type]
            BY <5>3, <4>3, <4>4
          <6> HIDE DEF s
          <6>4. mmap' = [s EXCEPT ![t] = [s[t] EXCEPT !.type = type]]
            BY <6>3
          <6>5. [s[t] EXCEPT !.type = type] \in Region
            BY <6>2, <4>4, ElementOfSeq, RegionFields
          <6> QED BY <6>2, <6>4, <6>5, <4>4, <4>3, <5>3, ExceptSeq
        <5>4. CASE mmap' = mmap /\ merged' = merged
          BY <5>4, <4>3
        <5> QED BY <5>2, <5>3, <5>4, <4>2
      <4> QED BY <4>1, <4>3, <4>5, <1>1 DEF E820Types
    <3>2. CASE Done("sanitize", Len(mmap), "sum", 1)
      BY <2>3, <3>2, <1>1 DEF sanitize_region, Round, Done, BootTypes, E820Types
    <3> QED BY <2>3, <3>1, <3>2 DEF sanitize_region
  <2>4. CASE add_region
    <3>1. CASE Round("sum", Len(mmap))
      <4>1. /\ loop' = loop + 1 /\ stage' = "sum" /\ stage = "sum" /\ loop <= Len(mmap)
            /\ UNCHANGED <<mmap, mmap_list, merged>>
        BY <2>4, <3>1 DEF add_region, Round, Done
      <4>2. /\ mmap_list \in Seq(1 .. Len(mmap)) /\ Len(mmap_list) = Len(mmap)
            /\ loop \in 1 .. Len(mmap) /\ mmap \in Seq(Region)
        BY <4>1 DEF BootTypes, E820Types
      <4>3. mmap_list[loop] \in 1 .. Len(mmap)
        BY <4>2
      <4>4. mmap[mmap_list[loop]] \in Region
        BY <4>2, <4>3
      <4>5. mmap[mmap_list[loop]].len \in Nat
        BY <4>4 DEF Region
      <4>6. basemem' \in Nat /\ extmem' \in Nat
        BY <2>4, <3>1, <4>5, SMTT(30) DEF add_region, Round, Done, BootTypes, E820Types
      <4> QED BY <4>1, <4>6, <1>1 DEF BootTypes, E820Types
    <3>2. CASE Done("sum", Len(mmap), "sized", 0)
      BY <2>4, <3>2, <1>1 DEF add_region, Round, Done, BootTypes, E820Types
    <3> QED BY <2>4, <3>1, <3>2 DEF add_region
  <2> QED BY <2>1, <2>2, <2>3, <2>4
<1> QED BY <1>1, <1>2, <1>3
    DEF BootTypes, MemTypes, ListTypes, MapTypes, MpTypes, lists

(* ... while the allocator is built, ... *)
LEMMA TypesAllocator ==
  ASSUME BootTypes, count_pages \/ boot_arrays \/ page_init
  PROVE  BootTypes'
<1>1. machine' = machine /\ UNCHANGED <<e820, kmap, mp, mmio>>
  BY DEF count_pages, boot_arrays, page_init
<1>2. /\ loop' \in Nat
      /\ stage' \notin Early \cup {"loading", "reorder", "entries", "insert", "sanitize", "sum"}
  BY DEF count_pages, boot_arrays, page_init, BootTypes, Round, Done, Early
<1>3. MemTypes'
  <2>1. CASE count_pages
    <3> DEFINE nv == machine.nvram
               ext == IF nv.full THEN (SixteenMB + nv.above16 - EXTPHYSMEM) \div PGSIZE
                      ELSE extmem \div PGSIZE
               n == IF ext # 0 THEN EXTPHYSMEM \div PGSIZE + ext ELSE basemem \div PGSIZE
    <3>1. nv.above16 \in Nat /\ basemem \in Nat /\ extmem \in Nat
      BY MachineTypes DEF BootTypes, E820Types
    <3>2. SixteenMB + nv.above16 - EXTPHYSMEM \in Nat
      BY <3>1, Sizes, BootAssumption
    <3>3. ext \in Nat /\ basemem \div PGSIZE \in Nat /\ EXTPHYSMEM \div PGSIZE \in Nat
      BY <3>1, <3>2, Sizes, DownFacts
    <3>4. n \in Nat
      BY <3>3
    <3>5. \/ mem' = mem
          \/ mem' = [mem EXCEPT !.basemem = basemem \div PGSIZE,
                                !.npages = IF n > MaxPages THEN MaxPages - Spare ELSE n]
      BY <2>1 DEF count_pages
    <3>6. MaxPages - Spare \in Nat /\ MaxPages - Spare <= MaxPages
      BY Sizes, BootAssumption
    <3> DEFINE pages == IF n > MaxPages THEN MaxPages - Spare ELSE n
    <3>7. pages \in Nat /\ pages <= MaxPages
      BY <3>4, <3>6, Sizes
    <3>8. basemem \div PGSIZE \in Nat
      BY <3>3
    <3>9. \/ mem' = mem
          \/ mem' = [mem EXCEPT !.basemem = basemem \div PGSIZE, !.npages = pages]
      BY <3>5
    <3> HIDE DEF pages
    <3> QED BY <3>7, <3>8, <3>9 DEF BootTypes, MemTypes
  <2>2. CASE boot_arrays
    <3> DEFINE pml4 == boot_alloc(mem.nextfree, PGSIZE)
               envs == boot_alloc(pml4, mem.npages * SizePageInfo)
               next == boot_alloc(envs, SizeEnvs)
    <3>1. mem.nextfree \in Nat /\ mem.npages * SizePageInfo \in Nat
      BY Sizes, TimesMonotone DEF BootTypes, MemTypes
    <3>2. pml4 \in Nat
      BY <3>1, Sizes, AllocFacts
    <3>3. envs \in Nat
      BY <3>1, <3>2, AllocFacts
    <3>4. next \in Nat
      BY <3>3, Sizes, AllocFacts
    <3>5. mem' = [mem EXCEPT !.pages = pml4, !.envs = envs, !.nextfree = next]
      BY <2>2 DEF boot_arrays
    <3> HIDE DEF pml4, envs, next
    <3> QED BY <3>2, <3>3, <3>4, <3>5 DEF BootTypes, MemTypes
  <2>3. CASE page_init
    BY <2>3 DEF page_init, BootTypes, MemTypes
  <2> QED BY <2>1, <2>2, <2>3
<1>4. ListTypes'
  <2>1. CASE count_pages \/ boot_arrays
    BY <2>1 DEF count_pages, boot_arrays, lists, BootTypes, ListTypes
  <2>2. CASE page_init
    <3>1. pp' = pp /\ pp \in [1 .. 2 -> Seq(Nat)] /\ page_free_list \in Seq(Nat)
          /\ loop \in Nat /\ listed \subseteq Nat
      BY <2>2 DEF page_init, BootTypes, ListTypes
    <3>2. Append(page_free_list, loop) \in Seq(Nat)
      BY <3>1, AppendProperties
    <3>3. page_free_list' \in Seq(Nat)
      BY <2>2, <3>1, <3>2 DEF page_init
    <3>4. {page_free_list[k] : k \in DOMAIN page_free_list} \subseteq Nat
      BY <3>1
    <3>5. listed' \subseteq Nat
      BY <2>2, <3>1, <3>4 DEF page_init
    <3> QED BY <3>1, <3>3, <3>5 DEF ListTypes
  <2> QED BY <2>1, <2>2
<1> QED BY <1>1, <1>2, <1>3, <1>4 DEF BootTypes, E820Types, MapTypes, MpTypes, e820, Early

(* The self-tests of the allocator and of the mappings change the list, and one
   of them the MMIO region.                                                *)
SelfTest == check_page_free_list \/ check_page_alloc \/ page_check \/ check_boot_pml4e
LEMMA SelfTestSteps ==
  ASSUME SelfTest
  PROVE  /\ stage \in {"reorder", "page_alloc", "page_check", "recheck"}
         /\ stage' \in {"page_alloc", "page_check", "recheck", "vm", "panic"}
         /\ loop' \in {0, loop} /\ UNCHANGED <<machine, ram, e820, mem, listed, pp, mp>>
<1>1. CASE check_page_free_list
  BY <1>1 DEF check_page_free_list
<1>2. CASE check_page_alloc
  BY <1>2 DEF check_page_alloc
<1>3. CASE page_check
  BY <1>3 DEF page_check
<1>4. CASE check_boot_pml4e
  BY <1>4 DEF check_boot_pml4e, lists
<1> QED BY <1>1, <1>2, <1>3, <1>4 DEF SelfTest

(* ... while the kernel's mappings are made and the list is checked, ... *)
LEMMA TypesMappings ==
  ASSUME BootTypes, x64_vm_init \/ map_stack \/ take_tables \/ reorder_page \/ SelfTest
  PROVE  BootTypes'
<1>1. machine' = machine /\ UNCHANGED <<e820, mem, mp>>
  BY SelfTestSteps DEF x64_vm_init, map_stack, take_tables, reorder_page
<1>2. /\ loop' \in Nat /\ (stage' = "reorder" => loop' > 0)
      /\ stage' \notin Early \cup {"loading", "entries", "insert", "sanitize", "sum"}
  <2>1. CASE SelfTest
    BY <2>1, SelfTestSteps DEF Early, BootTypes
  <2>2. CASE x64_vm_init \/ map_stack \/ take_tables \/ reorder_page
    BY <2>2 DEF x64_vm_init, map_stack, take_tables, reorder_page, BootTypes, Round, Early
  <2> QED BY <2>1, <2>2
<1>3. ListTypes'
  <2> USE DEF BootTypes, ListTypes
  <2>1. CASE x64_vm_init \/ map_stack
    BY <2>1 DEF x64_vm_init, map_stack, lists
  <2>2. CASE take_tables
    <3> DEFINE rest == SubSeq(page_free_list, NTables + 1, Len(page_free_list))
    <3>1. NTables + 1 \in Int /\ Len(page_free_list) \in Int
          /\ \A i \in NTables + 1 .. Len(page_free_list) : page_free_list[i] \in Nat
      BY Sizes
    <3>2. rest \in Seq(Nat)
      BY <3>1, SubSeqProperties
    <3>3. page_free_list' \in {page_free_list, rest} /\ listed' = listed /\ pp' = pp
      BY <2>2 DEF take_tables
    <3> HIDE DEF rest
    <3> QED BY <3>2, <3>3
  <2>3. CASE reorder_page
    <3> DEFINE i == page_free_list[loop]
    <3>1. i \in Nat /\ UNCHANGED <<page_free_list, listed>>
      BY <2>3 DEF reorder_page, Round
    <3>2. \/ pp' = [pp EXCEPT ![1] = Append(@, i)]
          \/ pp' = [pp EXCEPT ![2] = Append(@, i)]
      BY <2>3 DEF reorder_page
    <3> HIDE DEF i
    <3>3. Append(pp[1], i) \in Seq(Nat) /\ Append(pp[2], i) \in Seq(Nat)
      BY <3>1, AppendProperties
    <3> QED BY <3>1, <3>2, <3>3
  <2>4. CASE check_page_free_list
    BY <2>4, ConcatProperties DEF check_page_free_list
  <2>5. CASE check_page_alloc
    <3>1. CASE Len(page_free_list) < 3
      BY <2>5, <3>1 DEF check_page_alloc
    <3>2. CASE Len(page_free_list) >= 3
      <4> DEFINE front == <<taken(0), taken(1), taken(2)>>
      <4>1. taken(0) \in Nat /\ taken(1) \in Nat /\ taken(2) \in Nat /\ left(3) \in Seq(Nat)
        BY <3>2 DEF taken, left
      <4>2. front \in Seq(Nat)
        BY <4>1
      <4>3. page_free_list' = front \o left(3) /\ UNCHANGED <<listed, pp>>
        BY <2>5, <3>2 DEF check_page_alloc
      <4> HIDE DEF front
      <4>4. front \o left(3) \in Seq(Nat)
        BY <4>1, <4>2, ConcatProperties
      <4> QED BY <4>3, <4>4
    <3> QED BY <3>1, <3>2
  <2>6. CASE page_check
    <3>1. CASE Len(page_free_list) < 6
      BY <2>6, <3>1 DEF page_check
    <3>2. CASE ~ (Len(page_free_list) < 6)
      <4> DEFINE front == <<taken(3), taken(2), taken(0)>>
                 whole == front \o left(6)
      <4>0. taken(0) \in Nat /\ taken(2) \in Nat /\ taken(3) \in Nat /\ left(6) \in Seq(Nat)
        <5>1. Len(page_free_list) >= 6 /\ page_free_list \in Seq(Nat)
          BY <3>2
        <5>2. taken(0) \in Nat /\ taken(2) \in Nat /\ taken(3) \in Nat
          BY <5>1 DEF taken
        <5>3. left(6) \in Seq(Nat)
          <6>1. /\ 6 + 1 \in Int /\ Len(page_free_list) \in Int
                /\ \A i \in 6 + 1 .. Len(page_free_list) : page_free_list[i] \in Nat
            BY <5>1
          <6> QED BY <6>1, SubSeqProperties DEF left
        <5> QED BY <5>2, <5>3
      <4>1. front \in Seq(Nat) /\ Len(front) = 3 /\ left(6) \in Seq(Nat)
        BY <4>0
      <4>2. page_free_list' = Tail(whole) /\ UNCHANGED <<listed, pp>>
        BY <2>6, <3>2, Zenon DEF page_check
      <4> HIDE DEF front
      <4> DEFINE rest == left(6)
      <4> HIDE DEF rest
      <4>3. front \o rest \in Seq(Nat) /\ Len(front \o rest) = Len(front) + Len(rest)
        BY <4>1, ConcatProperties DEF rest
      <4>4. whole \in Seq(Nat) /\ Len(whole) = 3 + Len(rest) /\ Len(rest) \in Nat
        BY <4>1, <4>3, LenProperties DEF rest
      <4> HIDE DEF whole
      <4>5. whole # <<>> /\ Tail(whole) \in Seq(Nat)
        BY <4>4, HeadTailProperties
      <4> QED BY <4>2, <4>5
    <3> QED BY <3>1, <3>2
  <2>7. CASE check_boot_pml4e
    BY <2>7 DEF check_boot_pml4e, lists
  <2> QED BY <2>1, <2>2, <2>3, <2>4, <2>5, <2>6, <2>7 DEF SelfTest
<1>4. MapTypes'
  <2> USE DEF BootTypes, MapTypes
  <2>1. CASE x64_vm_init
    <3> DEFINE k1 == boot_map_region(kmap, UPAGES, PTPAGES, mem.pages \div PGSIZE, "u")
               k2 == boot_map_region(k1, UENVS, PTPAGES, mem.envs \div PGSIZE, "u")
               k3 == boot_map_region(k2, KSTACKTOP - KSTK, KSTK, bootstack, "w")
    <3>1. /\ mem.pages \div PGSIZE \in Int /\ mem.envs \div PGSIZE \in Int
          /\ mem.npages \in Int /\ bootstack \in Int
      BY Sizes, DownFacts DEF MemTypes, bootstack
    <3>2. /\ UPAGES \in Int /\ UENVS \in Int /\ KSTACKTOP - KSTK \in Int /\ KERNBASE \in Int
          /\ PTPAGES \in Int /\ KSTK \in Int
      BY Sizes DEF UPAGES, UENVS, KSTACKTOP, KERNBASE
    <3>3. "u" \in Perms /\ "w" \in Perms
      BY DEF Perms
    <3>4. kmap' = boot_map_region(k3, KERNBASE, mem.npages, 0, "w") /\ mmio' = mmio
      BY <2>1 DEF x64_vm_init
    <3>5. k1 \in [0 .. KERNBASE + MaxPages -> [pa : Int, perm : Perms]]
      BY <3>1, <3>2, <3>3, RegionTypes
    <3> HIDE DEF k1
    <3>6. k2 \in [0 .. KERNBASE + MaxPages -> [pa : Int, perm : Perms]]
      BY <3>1, <3>2, <3>3, <3>5, RegionTypes
    <3> HIDE DEF k2
    <3>7. k3 \in [0 .. KERNBASE + MaxPages -> [pa : Int, perm : Perms]]
      BY <3>1, <3>2, <3>3, <3>6, RegionTypes
    <3> HIDE DEF k3
    <3> QED BY <3>1, <3>2, <3>3, <3>4, <3>7, RegionTypes
  <2>2. CASE map_stack
    <3>1. loop * (KSTK + KGAP) \in Int /\ loop * KSTK \in Int /\ KSTACKTOP \in Int /\ KSTK \in Int
      BY Sizes DEF KSTACKTOP, KERNBASE
    <3>2. /\ KSTACKTOP - loop * (KSTK + KGAP) - KSTK \in Int /\ percpu_kstacks(loop) \in Int
          /\ "w" \in Perms
      BY <3>1 DEF percpu_kstacks, Perms
    <3>3. kmap' = mem_init_mp(kmap, loop) /\ mmio' = mmio
      BY <2>2 DEF map_stack
    <3> QED BY <3>1, <3>2, <3>3, RegionTypes DEF mem_init_mp
  <2>3. CASE take_tables \/ reorder_page \/ check_page_free_list \/ check_page_alloc
             \/ check_boot_pml4e
    BY <2>3 DEF take_tables, reorder_page, check_page_free_list, check_page_alloc,
       check_boot_pml4e
  <2>4. CASE page_check
    <3> DEFINE k1 == boot_map_region(kmap, mmio.base, 2, 0, "device")
    <3>1. mmio.base \in Int /\ mmio.base + 2 \in Int /\ "device" \in Perms
      BY DEF Perms
    <3>2. k1 \in [0 .. KERNBASE + MaxPages -> [pa : Int, perm : Perms]]
      BY <3>1, RegionTypes
    <3>3. \/ UNCHANGED <<kmap, mmio>>
          \/ /\ kmap' = boot_map_region(k1, mmio.base + 2, 1, 0, "device")
             /\ mmio' = [mmio EXCEPT !.base = @ + 3]
      BY <2>4 DEF page_check
    <3> HIDE DEF k1
    <3>4. boot_map_region(k1, mmio.base + 2, 1, 0, "device")
          \in [0 .. KERNBASE + MaxPages -> [pa : Int, perm : Perms]]
      BY <3>1, <3>2, RegionTypes
    <3> QED BY <3>3, <3>4
  <2> QED BY <2>1, <2>2, <2>3, <2>4 DEF SelfTest
<1> QED BY <1>1, <1>2, <1>3, <1>4 DEF BootTypes, E820Types, MemTypes, MpTypes, e820, Early

(* ... and while the processors are found and started. *)
LEMMA TypesProcessors ==
  ASSUME BootTypes, mp_init \/ mp_entry \/ bsp_lapic_init \/ ap_lapic_init
  PROVE  BootTypes'
<1>1. machine' = machine /\ UNCHANGED <<e820, mem, lists>>
  BY DEF mp_init, mp_entry, bsp_lapic_init, ap_lapic_init
<1>2. /\ loop' \in Nat /\ (stage' = "entries" => loop' > 0)
      /\ stage' \notin Early \cup {"loading", "reorder", "insert", "sanitize", "sum"}
  BY DEF mp_init, mp_entry, bsp_lapic_init, ap_lapic_init, BootTypes, Round, Done, Early
<1>3. MpTypes'
  <2>1. CASE mp_init
    BY <2>1, MachineTypes DEF mp_init, BootTypes, MpTypes
  <2>2. CASE mp_entry
    <3>1. CASE Round("entries", Len(ProcTable)) /\ mp' = Entry(mp, ProcTable[loop])
      <4>1. ProcTable[loop] \in TableEntry
        BY <3>1, TableTypes DEF BootTypes, Round
      <4> QED BY <3>1, <4>1, EntryTypes DEF BootTypes, MpTypes
    <3>2. CASE mp' = mp
      BY <3>2 DEF BootTypes, MpTypes
    <3>3. CASE mp' = [mp EXCEPT !.ncpu = 1, !.lapicaddr = 0]
      BY <3>3 DEF BootTypes, MpTypes
    <3> QED BY <2>2, <3>1, <3>2, <3>3 DEF mp_entry, ProcTable
  <2>3. CASE bsp_lapic_init \/ ap_lapic_init
    BY <2>3 DEF bsp_lapic_init, ap_lapic_init, BootTypes, MpTypes
  <2> QED BY <2>1, <2>2, <2>3
<1>4. MapTypes'
  <2> USE DEF BootTypes, MapTypes
  <2>1. CASE mp_init \/ mp_entry
    BY <2>1 DEF mp_init, mp_entry
  <2>2. CASE lapic_init
    <3>1. /\ mp.lapicaddr \div PGSIZE \in Int /\ mmio.base \in Int /\ 1 \in Int /\ "device" \in Perms
      BY Sizes, DownFacts DEF MpTypes, Perms
    <3>2. boot_map_region(kmap, mmio.base, 1, mp.lapicaddr \div PGSIZE, "device")
          \in [0 .. KERNBASE + MaxPages -> [pa : Int, perm : Perms]]
      BY <3>1, RegionTypes
    <3> QED BY <2>2, <3>2 DEF lapic_init
  <2>3. CASE UNCHANGED <<kmap, mmio>>
    BY <2>3
  <2> QED BY <2>1, <2>2, <2>3 DEF bsp_lapic_init, ap_lapic_init
<1> QED BY <1>1, <1>2, <1>3, <1>4 DEF BootTypes, E820Types, MemTypes, ListTypes, e820, lists, Early

(* ... and by every step. *)
LEMMA TypesStep == BootTypes /\ [Next]_vars => BootTypes'
<1> SUFFICES ASSUME BootTypes, [Next]_vars PROVE BootTypes'
  OBVIOUS
<1>1. CASE UNCHANGED vars
  BY <1>1 DEF vars, e820, lists, BootTypes, E820Types, MemTypes, ListTypes, MapTypes, MpTypes
<1> QED BY <1>1, TypesLoader, TypesMemory, TypesAllocator, TypesMappings, TypesProcessors
  DEF Next, SelfTest

(* Whatever start-up does, its variables keep their types. *)
THEOREM TypesHold == Spec => []BootTypes
<1>1. Init => BootTypes
  BY TypesInit
<1>2. BootTypes /\ [Next]_vars => BootTypes'
  BY TypesStep
<1> QED BY <1>1, <1>2, PTL DEF Spec

----------------------------------------------------------------------------
(* Segments *)

(* The bytes of segment s are in memory m where its header says. *)
HasSegment(m, s) ==
  \A b \in 0 .. s.memsz - 1 : s.pa + b \in DOMAIN m /\ m[s.pa + b] = s.off + b
SegmentInv ==
  WellLinked(machine.segs) =>
    \A i \in DOMAIN machine.segs :
      \/ stage = "loading" /\ i < loop
      \/ stage \notin {"bios", "bad", "loading"}
      => HasSegment(ram, machine.segs[i])

(* The address reading starts at and the one before which it stops. *)
LEMMA ReadFacts ==
  ASSUME NEW m, NEW s \in Segment
  PROVE  LET pa == ROUNDDOWN(s.pa, SECTSIZE)
             end == ROUNDUP(s.pa + s.memsz, SECTSIZE)
         IN /\ pa \in Nat /\ end \in Nat /\ pa <= s.pa /\ s.pa + s.memsz <= end
            /\ \A a \in DOMAIN m : a \in Int /\ (a < pa \/ a >= end) =>
                 a \in DOMAIN readseg(m, s) /\ readseg(m, s)[a] = m[a]
            /\ \A a \in Int : pa <= a /\ a < end =>
                 /\ a \in DOMAIN readseg(m, s)
                 /\ s.pa % SECTSIZE = s.off % SECTSIZE => readseg(m, s)[a] = s.off + a - s.pa
<1> DEFINE pa == ROUNDDOWN(s.pa, SECTSIZE)
           end == ROUNDUP(s.pa + s.memsz, SECTSIZE)
           off == ROUNDDOWN(s.off, SECTSIZE)
<1>1. s.pa \in Nat /\ s.off \in Nat /\ s.memsz \in Nat /\ s.pa + s.memsz \in Nat
  BY DEF Segment
<1>2. /\ pa \in Nat /\ end \in Nat /\ pa <= s.pa /\ s.pa + s.memsz <= end
      /\ off \in Nat
  BY <1>1, Sizes, DownFacts, UpFacts
<1>3. readseg(m, s) = [a \in DOMAIN m \cup pa .. (end - 1) |->
                         IF a < pa \/ a > end - 1 THEN m[a] ELSE off + a - pa]
  BY DEF readseg
<1>4. s.pa % SECTSIZE = s.off % SECTSIZE => s.pa - pa = s.off - off
  BY <1>1, Sizes, SameOffset
<1> HIDE DEF pa, end, off
<1>5. ASSUME s.pa % SECTSIZE = s.off % SECTSIZE, NEW a \in Int
      PROVE  off + a - pa = s.off + a - s.pa
  <2>1. s.pa - pa = s.off - off
    BY <1>4, <1>5
  <2> QED BY <2>1, <1>1, <1>2
<1>6. ASSUME NEW a \in DOMAIN m, a \in Int, a < pa \/ a >= end
      PROVE  a \in DOMAIN readseg(m, s) /\ readseg(m, s)[a] = m[a]
  BY <1>2, <1>3, <1>6
<1>7. ASSUME NEW a \in Int, pa <= a, a < end
      PROVE  a \in DOMAIN readseg(m, s) /\ readseg(m, s)[a] = off + a - pa
  BY <1>2, <1>3, <1>7
<1>8. /\ \A a \in DOMAIN m : a \in Int /\ (a < pa \/ a >= end) =>
           a \in DOMAIN readseg(m, s) /\ readseg(m, s)[a] = m[a]
      /\ \A a \in Int : pa <= a /\ a < end =>
           /\ a \in DOMAIN readseg(m, s)
           /\ s.pa % SECTSIZE = s.off % SECTSIZE => readseg(m, s)[a] = s.off + a - s.pa
  BY <1>5, <1>6, <1>7
<1> QED BY <1>2, <1>8 DEF pa, end

(* Reading a segment leaves the bytes of an earlier one as they are, or writes the
   same ones again.                                                        *)
LEMMA EarlierKept ==
  ASSUME NEW m, NEW s \in Segment, NEW t \in Segment, HasSegment(m, s),
         t.pa % SECTSIZE = t.off % SECTSIZE,
         \/ ROUNDUP(s.pa + s.memsz, SECTSIZE) <= ROUNDDOWN(t.pa, SECTSIZE)
         \/ s.pa - s.off = t.pa - t.off
  PROVE  HasSegment(readseg(m, t), s)
<1> DEFINE pa == ROUNDDOWN(t.pa, SECTSIZE)
           end == ROUNDUP(t.pa + t.memsz, SECTSIZE)
<1> SUFFICES ASSUME NEW b \in 0 .. s.memsz - 1
             PROVE  s.pa + b \in DOMAIN readseg(m, t) /\ readseg(m, t)[s.pa + b] = s.off + b
  BY DEF HasSegment
<1> DEFINE a == s.pa + b
<1>1. /\ s.pa \in Nat /\ s.off \in Nat /\ s.memsz \in Nat /\ t.pa \in Nat /\ t.off \in Nat
      /\ s.pa + s.memsz \in Nat /\ a \in Nat /\ b \in Nat /\ a < s.pa + s.memsz
  BY DEF Segment
<1>2. a \in DOMAIN m /\ m[a] = s.off + b
  BY DEF HasSegment
<1>3. /\ pa \in Nat /\ end \in Nat
      /\ a < pa \/ a >= end => a \in DOMAIN readseg(m, t) /\ readseg(m, t)[a] = m[a]
      /\ pa <= a /\ a < end => a \in DOMAIN readseg(m, t) /\ readseg(m, t)[a] = t.off + a - t.pa
  BY <1>1, <1>2, ReadFacts
<1>4. CASE a < pa \/ a >= end
  BY <1>2, <1>3, <1>4
<1>5. CASE pa <= a /\ a < end
  <2>1. s.pa + s.memsz <= ROUNDUP(s.pa + s.memsz, SECTSIZE)
        /\ ROUNDUP(s.pa + s.memsz, SECTSIZE) \in Nat
    BY <1>1, Sizes, UpFacts
  <2>2. ~ (ROUNDUP(s.pa + s.memsz, SECTSIZE) <= pa)
    BY <2>1, <1>1, <1>3, <1>5
  <2>3. s.pa - s.off = t.pa - t.off
    BY <2>2
  <2>4. t.off + a - t.pa = s.off + b
    BY <2>3, <1>1
  <2> QED BY <2>4, <1>3, <1>5
<1> HIDE DEF pa, end, a
<1>6. a \in Nat
  BY <1>1 DEF a
<1> QED BY <1>3, <1>4, <1>5, <1>6 DEF a

(* Reading a segment puts its own bytes where they belong. *)
LEMMA OwnLoaded ==
  ASSUME NEW m, NEW s \in Segment, s.pa % SECTSIZE = s.off % SECTSIZE
  PROVE  HasSegment(readseg(m, s), s)
<1> SUFFICES ASSUME NEW b \in 0 .. s.memsz - 1
             PROVE  s.pa + b \in DOMAIN readseg(m, s) /\ readseg(m, s)[s.pa + b] = s.off + b
  BY DEF HasSegment
<1> DEFINE pa == ROUNDDOWN(s.pa, SECTSIZE)
           end == ROUNDUP(s.pa + s.memsz, SECTSIZE)
<1>1. s.pa \in Nat /\ s.off \in Nat /\ s.memsz \in Nat /\ b \in Nat /\ s.pa + b \in Int
  BY DEF Segment
<1>2. /\ pa \in Nat /\ end \in Nat /\ pa <= s.pa /\ s.pa + s.memsz <= end
      /\ \A a \in Int : pa <= a /\ a < end =>
           a \in DOMAIN readseg(m, s) /\ readseg(m, s)[a] = s.off + a - s.pa
  BY ReadFacts
<1> HIDE DEF pa, end
<1>3. pa <= s.pa + b /\ s.pa + b < end
  BY <1>1, <1>2
<1>4. s.off + (s.pa + b) - s.pa = s.off + b
  BY <1>1
<1> QED BY <1>1, <1>2, <1>3, <1>4

(* Reading a segment keeps the earlier ones and adds its own bytes. *)
LEMMA SegmentStep ==
  ASSUME BootTypes, SegmentInv, load_segment
  PROVE  SegmentInv'
<1> DEFINE segs == machine.segs
<1> SUFFICES ASSUME WellLinked(segs)' PROVE
               \A i \in DOMAIN segs' :
                 \/ stage' = "loading" /\ i < loop'
                 \/ stage' \notin {"bios", "bad", "loading"}
                 => HasSegment(ram', segs'[i])
  BY DEF SegmentInv
<1>1. machine' = machine /\ stage = "loading" /\ segs \in Seq(Segment) /\ loop \in Nat /\ loop > 0
  BY MachineTypes DEF load_segment, BootTypes, Round, Done
<1>2. WellLinked(segs)
  BY <1>1
<1>3. \A i \in DOMAIN segs : i < loop => HasSegment(ram, segs[i])
  BY <1>1, <1>2 DEF SegmentInv
<1>4. CASE Round("loading", Len(segs)) /\ ram' = readseg(ram, segs[loop])
  <2>1. loop \in DOMAIN segs /\ loop' = loop + 1 /\ stage' = "loading"
    BY <1>1, <1>4 DEF Round
  <2>2. segs[loop] \in Segment /\ segs[loop].pa % SECTSIZE = segs[loop].off % SECTSIZE
    BY <1>1, <1>2, <2>1 DEF WellLinked
  <2>3. HasSegment(ram', segs[loop])
    BY <1>4, <2>2, OwnLoaded
  <2>4. ASSUME NEW i \in DOMAIN segs, i < loop
        PROVE  HasSegment(ram', segs[i])
    <3>1. segs[i] \in Segment /\ HasSegment(ram, segs[i])
      BY <1>1, <1>3, <2>4
    <3>2. \/ ROUNDUP(segs[i].pa + segs[i].memsz, SECTSIZE) <= ROUNDDOWN(segs[loop].pa, SECTSIZE)
          \/ segs[i].pa - segs[i].off = segs[loop].pa - segs[loop].off
      BY <1>2, <2>1, <2>4 DEF WellLinked
    <3> QED BY <1>4, <2>2, <3>1, <3>2, EarlierKept
  <2>5. \A i \in DOMAIN segs : i < loop + 1 => i < loop \/ i = loop
    BY <1>1
  <2> QED BY <1>1, <2>1, <2>3, <2>4, <2>5
<1>5. CASE Done("loading", Len(segs), "kernel", 0) /\ ram' = ram
  <2>1. \A i \in DOMAIN segs : i < loop
    BY <1>1, <1>5 DEF Done
  <2> QED BY <1>1, <1>3, <1>5, <2>1
<1> QED BY <1>4, <1>5 DEF load_segment

(* bootmain() of boot/main.c: every byte of a well linked kernel is in memory
   where its program header says, however many segments share sectors.     *)
THEOREM SegmentsHold == Spec => []SegmentsLoaded
<1>1. Init => SegmentInv
  BY DEF Init, SegmentInv
<1>2. BootTypes /\ SegmentInv /\ [Next]_vars => SegmentInv'
  <2> SUFFICES ASSUME BootTypes, SegmentInv, [Next]_vars PROVE SegmentInv'
    OBVIOUS
  <2>1. CASE load_segment
    BY <2>1, SegmentStep
  <2>2. CASE bootmain
    <3>1. machine' = machine /\ stage' \in {"bad", "loading"} /\ loop' = 1
      BY <2>2 DEF bootmain
    <3>2. \A i \in DOMAIN machine.segs : ~ (i < 1)
      BY MachineTypes DEF BootTypes
    <3> QED BY <3>1, <3>2 DEF SegmentInv
  <2>3. CASE UNCHANGED vars
    BY <2>3 DEF vars, SegmentInv
  <2>4. CASE Next /\ ~ load_segment /\ ~ bootmain
    <3>1. machine' = machine /\ ram' = ram /\ stage \notin {"bios", "bad", "loading"}
      BY <2>4, SelfTestSteps
      DEF Next, SelfTest, i386_detect_memory, insert_region, sanitize_region, add_region,
           count_pages, boot_arrays, page_init, x64_vm_init, map_stack, take_tables,
           reorder_page, mp_init, mp_entry, bsp_lapic_init,
           ap_lapic_init, Round, Done
    <3> QED BY <3>1 DEF SegmentInv
  <2> QED BY <2>1, <2>2, <2>3, <2>4
<1>3. SegmentInv => SegmentsLoaded
  BY DEF SegmentInv, SegmentsLoaded, HasSegment
<1> QED BY <1>1, <1>2, <1>3, TypesHold, PTL DEF Spec

----------------------------------------------------------------------------
(* The kernel's address space *)

Top(i) == KSTACKTOP - i * (KSTK + KGAP)
StackAt(i) ==
  \A p \in 1 .. KSTK : kmap[Top(i) - p] = [pa |-> percpu_kstacks(i) + KSTK - p, perm |-> "w"]
GapAt(i) == \A p \in KSTK + 1 .. KSTK + KGAP : kmap[Top(i) - p] = Unmapped
Direct == \A i \in 0 .. mem.npages - 1 : kmap[KERNBASE + i] = [pa |-> i, perm |-> "w"]

(* Stages before x64_vm_init() maps anything, and after mem_init_mp(). *)
Unbuilt == Early \cup {"insert", "sanitize", "sum", "sized", "detected", "page_init", "allocator"}
Built == {"reorder", "page_alloc", "page_check", "recheck", "vm", "entries", "mp", "aps"}

(* The stacks mapped so far are in place, and no gap is ever mapped. *)
LayoutInv ==
  /\ stage \in Unbuilt => kmap = [v \in 0 .. KERNBASE + MaxPages |-> Unmapped]
  /\ stage \in {"stacks"} \cup Built =>
       /\ Direct
       /\ \A i \in 0 .. NCPU - 1 : GapAt(i) /\ (stage \in Built \/ i < loop => StackAt(i))

(* The local APIC is mapped once for each processor that is up. *)
MmioInv ==
  /\ stage \in Unbuilt \cup {"stacks", "reorder", "page_alloc", "page_check"} =>
       mmio.base = MMIOBASE /\ mmio.lapics = {} /\ mp.up = 0
  /\ stage \in {"recheck", "vm", "entries", "mp"} =>
       mmio.base = MMIOBASE + 3 /\ mmio.lapics = {} /\ mp.up = 0
  /\ stage = "aps" =>
       /\ mp.up > 0
       /\ mp.lapicaddr = 0 => mmio.base = MMIOBASE + 3 /\ mmio.lapics = {}
       /\ mp.lapicaddr # 0 =>
            /\ mmio.base = MMIOBASE + 3 + mp.up /\ mmio.base <= MMIOLIM
            /\ mmio.lapics = MMIOBASE + 3 .. MMIOBASE + 2 + mp.up
            /\ \A v \in mmio.lapics :
                 kmap[v] = [pa |-> mp.lapicaddr \div PGSIZE, perm |-> "device"]

(* What boot_map_region() maps and what it leaves. *)
LEMMA RegionMaps ==
  ASSUME NEW k, NEW D, DOMAIN k = D, NEW la, NEW n, NEW pa, NEW perm, NEW v \in D
  PROVE  boot_map_region(k, la, n, pa, perm)[v] =
           IF v \in la .. la + n - 1 THEN [pa |-> pa + v - la, perm |-> perm] ELSE k[v]
BY DEF boot_map_region

(* Places in the address space. *)
LEMMA Places ==
  /\ KERNBASE \in Nat /\ KSTACKTOP = KERNBASE /\ MMIOBASE \in Nat /\ MMIOLIM \in Nat
  /\ UENVS = 0 /\ UPAGES = PTPAGES /\ MMIOBASE = PTPAGES + PTPAGES
  /\ MMIOLIM = MMIOBASE + PTPAGES /\ KERNBASE = MMIOLIM + PTPAGES
  /\ MMIOBASE + 4 <= MMIOLIM
  /\ \A v \in Nat : v < MMIOLIM => v \in 0 .. KERNBASE + MaxPages
<1>1. NCPU + 3 <= PTPAGES
  BY BootAssumption
<1> QED BY <1>1, Sizes DEF KERNBASE, KSTACKTOP, MMIOBASE, MMIOLIM, UENVS, UPAGES

(* A stack and its gap lie between MMIOLIM and KSTACKTOP. *)
LEMMA StackPlace ==
  ASSUME NEW i \in 0 .. NCPU - 1, NEW p \in 1 .. KSTK + KGAP
  PROVE  Top(i) \in Int /\ Top(i) - p \in Int /\ MMIOLIM <= Top(i) - p /\ Top(i) - p < KSTACKTOP
<1> DEFINE g == KSTK + KGAP
<1>1. i \in Nat /\ i + 1 \in Nat /\ i + 1 <= NCPU /\ g \in Nat /\ p \in Nat /\ p > 0 /\ p <= g
  BY Sizes
<1>2. i * g \in Nat /\ (i + 1) * g \in Nat /\ NCPU * g \in Nat /\ (i + 1) * g <= NCPU * g
  <2> HIDE DEF g
  <2> QED BY <1>1, Sizes, TimesMonotone
<1>3. (i + 1) * g = i * g + g
  <2> HIDE DEF g
  <2> QED BY <1>1
<1>4. NCPU * g <= PTPAGES
  BY BootAssumption
<1>5. Top(i) = KSTACKTOP - i * g
  BY DEF Top
<1> DEFINE x == i * g
           y == NCPU * g
<1>6. x \in Nat /\ x + g <= y /\ y <= PTPAGES /\ y \in Nat /\ Top(i) = KSTACKTOP - x
  BY <1>2, <1>3, <1>4, <1>5
<1> HIDE DEF x, y, g
<1> QED BY <1>1, <1>6, Places, Sizes

(* Stacks do not meet, nor does one meet the gap of another. *)
LEMMA StacksApart ==
  ASSUME NEW i \in 0 .. NCPU - 1, NEW j \in 0 .. NCPU - 1, i # j, NEW p \in 1 .. KSTK + KGAP
  PROVE  ~ (Top(j) - KSTK <= Top(i) - p /\ Top(i) - p < Top(j))
<1> DEFINE g == KSTK + KGAP
<1>1. i \in Nat /\ j \in Nat /\ g \in Nat /\ p \in Nat /\ p > 0 /\ p <= g /\ KSTK \in Nat /\ KSTK <= g
  BY Sizes
<1> DEFINE x == i * g
           y == j * g
<1>2. x \in Nat /\ y \in Nat
  <2> HIDE DEF g
  <2> QED BY <1>1
<1>3. CASE i < j
  <2>1. (i + 1) * g <= y /\ (i + 1) * g = x + g
    <3> HIDE DEF g
    <3> QED BY <1>1, <1>3, TimesMonotone
  <2>2. Top(i) = KSTACKTOP - x /\ Top(j) = KSTACKTOP - y
    BY DEF Top
  <2> HIDE DEF x, y, g
  <2>3. x + g <= y
    BY <2>1
  <2> QED BY <1>1, <1>2, <2>2, <2>3, Places
<1>4. CASE j < i
  <2>1. (j + 1) * g <= x /\ (j + 1) * g = y + g
    <3> HIDE DEF g
    <3> QED BY <1>1, <1>4, TimesMonotone
  <2>2. Top(i) = KSTACKTOP - x /\ Top(j) = KSTACKTOP - y
    BY DEF Top
  <2> HIDE DEF x, y, g
  <2>3. y + g <= x
    BY <2>1
  <2> QED BY <1>1, <1>2, <2>2, <2>3, Places
<1> QED BY <1>1, <1>3, <1>4

(* Until x64_vm_init() nothing is mapped. *)
LEMMA EarlySteps ==
  ASSUME BootTypes,
         \/ bootmain \/ load_segment \/ i386_detect_memory \/ insert_region \/ sanitize_region
         \/ add_region \/ count_pages \/ boot_arrays \/ page_init
  PROVE  /\ stage \in Unbuilt /\ stage' \in Unbuilt \cup {"panic", "corrupt"}
         /\ UNCHANGED <<machine, kmap, mp, mmio>>
<1>1. CASE bootmain \/ load_segment \/ i386_detect_memory \/ count_pages \/ boot_arrays
  BY <1>1 DEF bootmain, load_segment, i386_detect_memory, count_pages, boot_arrays, Round, Done,
     Unbuilt, Early
<1>2. CASE insert_region \/ sanitize_region \/ add_region \/ page_init
  BY <1>2 DEF insert_region, sanitize_region, add_region, page_init, Round, Done, Unbuilt, Early
<1> QED BY <1>1, <1>2

(* What x64_vm_init() maps: physical memory, the boot stack, envs[] and pages[]. *)
LEMMA BuiltMaps ==
  ASSUME BootTypes, LayoutInv, x64_vm_init, NEW v \in 0 .. KERNBASE + MaxPages
  PROVE  kmap'[v] =
           IF v \in KERNBASE .. KERNBASE + mem.npages - 1
           THEN [pa |-> 0 + v - KERNBASE, perm |-> "w"]
           ELSE IF v \in KSTACKTOP - KSTK .. KSTACKTOP - KSTK + KSTK - 1
           THEN [pa |-> bootstack + v - (KSTACKTOP - KSTK), perm |-> "w"]
           ELSE IF v \in UENVS .. UENVS + PTPAGES - 1
           THEN [pa |-> mem.envs \div PGSIZE + v - UENVS, perm |-> "u"]
           ELSE IF v \in UPAGES .. UPAGES + PTPAGES - 1
           THEN [pa |-> mem.pages \div PGSIZE + v - UPAGES, perm |-> "u"]
           ELSE Unmapped
<1> DEFINE D == 0 .. KERNBASE + MaxPages
           k1 == boot_map_region(kmap, UPAGES, PTPAGES, mem.pages \div PGSIZE, "u")
           k2 == boot_map_region(k1, UENVS, PTPAGES, mem.envs \div PGSIZE, "u")
           k3 == boot_map_region(k2, KSTACKTOP - KSTK, KSTK, bootstack, "w")
<1>1. /\ stage = "allocator"
      /\ kmap' = boot_map_region(k3, KERNBASE, mem.npages, 0, "w")
  BY DEF x64_vm_init
<1>2. kmap = [w \in D |-> Unmapped]
  BY <1>1 DEF LayoutInv, Unbuilt
<1>3. DOMAIN kmap = D /\ DOMAIN k1 = D /\ DOMAIN k2 = D /\ DOMAIN k3 = D
  BY <1>2 DEF boot_map_region
<1>4. kmap[v] = Unmapped /\ v \in D
  BY <1>2
<1> HIDE DEF D
<1>5. k1[v] = IF v \in UPAGES .. UPAGES + PTPAGES - 1
              THEN [pa |-> mem.pages \div PGSIZE + v - UPAGES, perm |-> "u"] ELSE kmap[v]
  BY <1>3, <1>4, RegionMaps
<1>6. k2[v] = IF v \in UENVS .. UENVS + PTPAGES - 1
              THEN [pa |-> mem.envs \div PGSIZE + v - UENVS, perm |-> "u"] ELSE k1[v]
  <2> HIDE DEF k1
  <2> QED BY <1>3, <1>4, RegionMaps
<1>7. k3[v] = IF v \in KSTACKTOP - KSTK .. KSTACKTOP - KSTK + KSTK - 1
              THEN [pa |-> bootstack + v - (KSTACKTOP - KSTK), perm |-> "w"] ELSE k2[v]
  <2> HIDE DEF k2
  <2> QED BY <1>3, <1>4, RegionMaps
<1>8. kmap'[v] = IF v \in KERNBASE .. KERNBASE + mem.npages - 1
                 THEN [pa |-> 0 + v - KERNBASE, perm |-> "w"] ELSE k3[v]
  <2> HIDE DEF k3
  <2> QED BY <1>1, <1>3, <1>4, RegionMaps
<1> HIDE DEF k1, k2, k3
<1> QED BY <1>4, <1>5, <1>6, <1>7, <1>8

(* x64_vm_init() maps all of physical memory and no gap of a stack. *)
LEMMA LayoutBuilt ==
  ASSUME BootTypes, LayoutInv, x64_vm_init
  PROVE  LayoutInv'
<1>1. stage = "allocator" /\ stage' = "stacks" /\ loop' = 0 /\ mem' = mem
  BY DEF x64_vm_init
<1>2. mem.npages \in Nat /\ mem.npages <= MaxPages
  BY DEF BootTypes, MemTypes
<1>3. ASSUME NEW i \in 0 .. mem.npages - 1
      PROVE  kmap'[KERNBASE + i] = [pa |-> i, perm |-> "w"]
  <2> DEFINE v == KERNBASE + i
  <2>1. v \in 0 .. KERNBASE + MaxPages /\ v \in KERNBASE .. KERNBASE + mem.npages - 1
    BY <1>2, Sizes, Places
  <2>2. 0 + v - KERNBASE = i
    BY Places
  <2> HIDE DEF v
  <2>3. kmap'[v] = [pa |-> i, perm |-> "w"]
    BY <2>1, <2>2, BuiltMaps
  <2> QED BY <2>3 DEF v
<1>4. ASSUME NEW i \in 0 .. NCPU - 1, NEW p \in KSTK + 1 .. KSTK + KGAP
      PROVE  kmap'[Top(i) - p] = Unmapped
  <2> DEFINE v == Top(i) - p
  <2>1. p \in 1 .. KSTK + KGAP
    BY Sizes
  <2>2. v \in Int /\ MMIOLIM <= v /\ v < KSTACKTOP
    BY <2>1, StackPlace
  <2>3. ~ (KSTACKTOP - KSTK <= v)
    <3>1. CASE i = 0
      <4>1. Top(i) = KSTACKTOP
        BY <3>1, Sizes, Places DEF Top
      <4> QED BY <4>1, Places, Sizes
    <3>2. CASE i # 0
      <4>1. 0 \in 0 .. NCPU - 1 /\ Top(0) = KSTACKTOP
        BY Sizes, Places DEF Top
      <4>2. ~ (Top(0) - KSTK <= v /\ v < Top(0))
        BY <3>2, <4>1, <2>1, StacksApart
      <4> QED BY <4>1, <4>2, <2>2
    <3> QED BY <3>1, <3>2
  <2> HIDE DEF v
  <2>4. v \in 0 .. KERNBASE + MaxPages
    BY <2>2, Places, Sizes
  <2>5. kmap'[v] = Unmapped
    <3>1. /\ ~ (v \in KERNBASE .. KERNBASE + mem.npages - 1)
          /\ ~ (v \in KSTACKTOP - KSTK .. KSTACKTOP - KSTK + KSTK - 1)
          /\ ~ (v \in UENVS .. UENVS + PTPAGES - 1) /\ ~ (v \in UPAGES .. UPAGES + PTPAGES - 1)
      BY <2>2, <2>3, <1>2, Places, Sizes
    <3> QED BY <3>1, <2>4, BuiltMaps
  <2> QED BY <2>5 DEF v
<1>5. \A i \in 0 .. NCPU - 1 : GapAt(i)' /\ ~ (i < 0)
  BY <1>4, Sizes DEF GapAt, Top
<1>6. Direct'
  <2>1. mem'.npages = mem.npages
    BY <1>1
  <2>2. \A i \in 0 .. mem'.npages - 1 : kmap'[KERNBASE + i] = [pa |-> i, perm |-> "w"]
    BY <1>3, <2>1, Zenon
  <2> QED BY <2>2, Zenon DEF Direct
<1> QED BY <1>1, <1>5, <1>6 DEF LayoutInv, Unbuilt, Built, Early

(* mem_init_mp() maps one more stack and leaves the others and all gaps. *)
LEMMA LayoutStack ==
  ASSUME BootTypes, LayoutInv, map_stack
  PROVE  LayoutInv'
<1> DEFINE D == 0 .. KERNBASE + MaxPages
           la == Top(loop) - KSTK
<1>1. /\ stage = "stacks" /\ stage' = "stacks" /\ loop' = loop + 1 /\ mem' = mem
      /\ loop \in 0 .. NCPU - 1
      /\ kmap' = boot_map_region(kmap, la, KSTK, percpu_kstacks(loop), "w")
  BY Sizes DEF map_stack, Round, mem_init_mp, BootTypes, Top
<1>2. DOMAIN kmap = D
  BY DEF BootTypes, MapTypes
<1>3. ASSUME NEW v \in D
      PROVE  kmap'[v] = IF v \in la .. la + KSTK - 1
                        THEN [pa |-> percpu_kstacks(loop) + v - la, perm |-> "w"] ELSE kmap[v]
  <2> HIDE DEF la, D
  <2> QED BY <1>1, <1>2, RegionMaps
<1>4. Direct /\ \A i \in 0 .. NCPU - 1 : GapAt(i) /\ (i < loop => StackAt(i))
  BY <1>1 DEF LayoutInv, Built
<1>5. Top(loop) \in Int /\ Top(loop) - 1 < KSTACKTOP
  <2>1. 1 \in 1 .. KSTK + KGAP
    BY Sizes
  <2> QED BY <1>1, <2>1, StackPlace
<1>6. mem.npages \in Nat /\ mem.npages <= MaxPages
  BY DEF BootTypes, MemTypes
<1>7. Direct'
  <2> SUFFICES ASSUME NEW i \in 0 .. mem.npages - 1
               PROVE  kmap'[KERNBASE + i] = kmap[KERNBASE + i]
    BY <1>1, <1>4 DEF Direct
  <2>1. KERNBASE + i \in D /\ ~ (KERNBASE + i \in la .. la + KSTK - 1)
    BY <1>5, <1>6, Sizes, Places
  <2> HIDE DEF la, D
  <2> QED BY <2>1, <1>3
<1>8. ASSUME NEW i \in 0 .. NCPU - 1, NEW p \in 1 .. KSTK + KGAP, i # loop \/ p > KSTK
      PROVE  kmap'[Top(i) - p] = kmap[Top(i) - p]
  <2> DEFINE v == Top(i) - p
  <2>1. v \in Int /\ MMIOLIM <= v /\ v < KSTACKTOP
    BY StackPlace
  <2>2. ~ (v \in la .. la + KSTK - 1)
    <3>1. CASE i # loop
      <4>1. ~ (la <= v /\ v < Top(loop))
        BY <3>1, <1>1, StacksApart
      <4> QED BY <4>1, <1>5, Sizes
    <3>2. CASE i = loop /\ p > KSTK
      BY <3>2, <1>5, Sizes
    <3> QED BY <3>1, <3>2, <1>8
  <2> HIDE DEF v, la
  <2>3. v \in D
    BY <2>1, Places, Sizes
  <2> HIDE DEF D
  <2>4. kmap'[v] = kmap[v]
    BY <2>2, <2>3, <1>3
  <2> QED BY <2>4 DEF v
<1>9. \A i \in 0 .. NCPU - 1 : GapAt(i)'
  <2> SUFFICES ASSUME NEW i \in 0 .. NCPU - 1, NEW p \in KSTK + 1 .. KSTK + KGAP
               PROVE  kmap'[Top(i) - p] = Unmapped
    BY DEF GapAt, Top
  <2>1. p \in 1 .. KSTK + KGAP /\ p > KSTK
    BY Sizes
  <2>2. kmap[Top(i) - p] = Unmapped
    BY <1>4 DEF GapAt
  <2> QED BY <2>1, <2>2, <1>8
<1>10. \A i \in 0 .. NCPU - 1 : i < loop + 1 => StackAt(i)'
  <2> SUFFICES ASSUME NEW i \in 0 .. NCPU - 1, i < loop + 1, NEW p \in 1 .. KSTK
               PROVE  kmap'[Top(i) - p] = [pa |-> percpu_kstacks(i) + KSTK - p, perm |-> "w"]
    BY DEF StackAt, Top, percpu_kstacks
  <2>1. p \in 1 .. KSTK + KGAP
    BY Sizes
  <2>2. CASE i < loop
    <3>1. kmap[Top(i) - p] = [pa |-> percpu_kstacks(i) + KSTK - p, perm |-> "w"]
      BY <2>2, <1>4 DEF StackAt
    <3>2. i # loop
      BY <2>2, <1>1
    <3> QED BY <3>1, <3>2, <2>1, <1>8
  <2>3. CASE i = loop
    <3> DEFINE v == Top(loop) - p
    <3>1. v \in Int /\ MMIOLIM <= v /\ v < KSTACKTOP
      BY <2>1, <1>1, StackPlace
    <3>2. v \in la .. la + KSTK - 1
      BY <1>5, Sizes
    <3>3. percpu_kstacks(loop) \in Int
      BY <1>1, Sizes DEF percpu_kstacks
    <3>4. percpu_kstacks(loop) + v - la = percpu_kstacks(loop) + KSTK - p
      <4> HIDE DEF percpu_kstacks
      <4> QED BY <3>3, <1>5, Sizes
    <3>5. v \in D
      <4> HIDE DEF v
      <4> QED BY <3>1, Places, Sizes
    <3> HIDE DEF v, la, D
    <3>6. kmap'[v] = [pa |-> percpu_kstacks(loop) + KSTK - p, perm |-> "w"]
      BY <3>2, <3>4, <3>5, <1>3
    <3> QED BY <3>6, <2>3 DEF v
  <2>4. i \in Int /\ loop \in Int
    BY <1>1
  <2> QED BY <2>2, <2>3, <2>4
<1> QED BY <1>1, <1>7, <1>9, <1>10 DEF LayoutInv, Unbuilt, Built, Early

(* The stages after that keep all this, and map the local APIC below the stacks. *)
LEMMA LayoutKept ==
  ASSUME LayoutInv, stage \in {"stacks"} \cup Built, stage = "stacks" => loop > NCPU - 1,
         loop \in Nat, stage' \in Built \cup {"panic"}, mem' = mem,
         DOMAIN kmap = 0 .. KERNBASE + MaxPages, mem.npages \in Nat, mem.npages <= MaxPages,
         \A v \in 0 .. KERNBASE + MaxPages : v >= MMIOLIM => kmap'[v] = kmap[v]
  PROVE  LayoutInv'
<1>1. Direct /\ \A i \in 0 .. NCPU - 1 : GapAt(i) /\ StackAt(i)
  <2>1. stage \in Built \/ \A i \in 0 .. NCPU - 1 : i < loop
    BY Sizes
  <2> QED BY <2>1 DEF LayoutInv
<1>2. Direct'
  <2> SUFFICES ASSUME NEW i \in 0 .. mem.npages - 1
               PROVE  kmap'[KERNBASE + i] = kmap[KERNBASE + i]
    BY <1>1 DEF Direct
  <2>1. KERNBASE + i \in 0 .. KERNBASE + MaxPages /\ KERNBASE + i >= MMIOLIM
    BY Places, Sizes
  <2> QED BY <2>1
<1>3. \A i \in 0 .. NCPU - 1, p \in 1 .. KSTK + KGAP : kmap'[Top(i) - p] = kmap[Top(i) - p]
  <2> SUFFICES ASSUME NEW i \in 0 .. NCPU - 1, NEW p \in 1 .. KSTK + KGAP
               PROVE  kmap'[Top(i) - p] = kmap[Top(i) - p]
    OBVIOUS
  <2>1. Top(i) - p \in Int /\ MMIOLIM <= Top(i) - p /\ Top(i) - p < KSTACKTOP
    BY StackPlace
  <2>2. Top(i) - p \in 0 .. KERNBASE + MaxPages /\ Top(i) - p >= MMIOLIM
    BY <2>1, Places, Sizes
  <2> QED BY <2>2
<1>4. ASSUME NEW i \in 0 .. NCPU - 1
      PROVE  GapAt(i)' /\ StackAt(i)'
  <2>1. /\ \A p \in KSTK + 1 .. KSTK + KGAP : p \in 1 .. KSTK + KGAP
        /\ \A p \in 1 .. KSTK : p \in 1 .. KSTK + KGAP
    BY Sizes
  <2>2. GapAt(i)'
    BY <2>1, <1>1, <1>3 DEF GapAt, Top
  <2>3. StackAt(i)'
    BY <2>1, <1>1, <1>3 DEF StackAt, Top
  <2> QED BY <2>2, <2>3
<1> QED BY <1>2, <1>4 DEF LayoutInv, Unbuilt, Built, Early

(* A local APIC is mapped at the next page of the MMIO region. *)
LEMMA LapicMapped ==
  ASSUME BootTypes, lapic_init, MMIOBASE <= mmio.base, mmio.base < MMIOLIM
  PROVE  /\ mp.lapicaddr = 0 => kmap' = kmap /\ mmio' = mmio
         /\ mp.lapicaddr # 0 =>
              /\ mmio' = [base |-> mmio.base + 1, lapics |-> mmio.lapics \cup {mmio.base}]
              /\ kmap'[mmio.base] = [pa |-> mp.lapicaddr \div PGSIZE, perm |-> "device"]
         /\ \A v \in 0 .. KERNBASE + MaxPages : v # mmio.base => kmap'[v] = kmap[v]
<1> DEFINE D == 0 .. KERNBASE + MaxPages
           pa == mp.lapicaddr \div PGSIZE
<1>1. DOMAIN kmap = D /\ mmio.base \in Nat /\ pa \in Nat
  BY DownFacts, Sizes DEF BootTypes, MapTypes, MpTypes
<1>2. mmio.base \in D /\ mmio.base \in mmio.base .. mmio.base + 1 - 1
  BY <1>1, Places, Sizes
<1>3. \A v \in D : v # mmio.base => ~ (v \in mmio.base .. mmio.base + 1 - 1)
  BY <1>1
<1> HIDE DEF D, pa
<1>4. CASE mp.lapicaddr # 0
  <2>1. /\ kmap' = boot_map_region(kmap, mmio.base, 1, pa, "device")
        /\ mmio' = [base |-> mmio.base + 1, lapics |-> mmio.lapics \cup {mmio.base}]
    BY <1>4 DEF lapic_init, pa
  <2>2. kmap'[mmio.base] = [pa |-> pa + mmio.base - mmio.base, perm |-> "device"]
    BY <2>1, <1>1, <1>2, RegionMaps
  <2>3. pa + mmio.base - mmio.base = pa
    BY <1>1
  <2>4. \A v \in D : v # mmio.base => kmap'[v] = kmap[v]
    <3> SUFFICES ASSUME NEW v \in D, v # mmio.base PROVE kmap'[v] = kmap[v]
      OBVIOUS
    <3>1. ~ (v \in mmio.base .. mmio.base + 1 - 1)
      BY <1>3
    <3>2. kmap'[v] = IF v \in mmio.base .. mmio.base + 1 - 1
                     THEN [pa |-> pa + v - mmio.base, perm |-> "device"] ELSE kmap[v]
      BY <2>1, <1>1, RegionMaps
    <3> QED BY <3>1, <3>2
  <2> QED BY <2>1, <2>2, <2>3, <2>4, <1>4 DEF D, pa
<1>5. CASE mp.lapicaddr = 0
  BY <1>5 DEF lapic_init
<1> QED BY <1>4, <1>5

(* A processor that comes up has its local APIC mapped, and keeps the others'. *)
LEMMA MmioAdvance ==
  ASSUME BootTypes, lapic_init, stage' = "aps", MMIOBASE + 3 <= mmio.base, mmio.base < MMIOLIM,
         mp' = [mp EXCEPT !.up = mp.up + 1],
         mp.lapicaddr = 0 => mmio.base = MMIOBASE + 3 /\ mmio.lapics = {},
         mp.lapicaddr # 0 =>
            /\ mmio.base = MMIOBASE + 3 + mp.up
            /\ mmio.lapics = MMIOBASE + 3 .. MMIOBASE + 2 + mp.up
            /\ \A v \in mmio.lapics :
                 kmap[v] = [pa |-> mp.lapicaddr \div PGSIZE, perm |-> "device"]
  PROVE  MmioInv'
<1> DEFINE apic == [pa |-> mp.lapicaddr \div PGSIZE, perm |-> "device"]
           last == MMIOBASE + 2 + mp.up
<1>1. /\ mp'.up = mp.up + 1 /\ mp'.lapicaddr = mp.lapicaddr /\ mp.up \in Nat
      /\ mmio.base \in Nat /\ MMIOBASE \in Nat /\ MMIOLIM \in Nat
  BY Places DEF BootTypes, MpTypes, MapTypes
<1>2. /\ mp.lapicaddr = 0 => kmap' = kmap /\ mmio' = mmio
      /\ mp.lapicaddr # 0 =>
           /\ mmio' = [base |-> mmio.base + 1, lapics |-> mmio.lapics \cup {mmio.base}]
           /\ kmap'[mmio.base] = apic
      /\ \A v \in 0 .. KERNBASE + MaxPages : v # mmio.base => kmap'[v] = kmap[v]
  <2>1. MMIOBASE <= mmio.base
    BY <1>1
  <2> QED BY <2>1, LapicMapped
<1>3. CASE mp.lapicaddr = 0
  BY <1>1, <1>2, <1>3 DEF MmioInv, Unbuilt, Early
<1>4. CASE mp.lapicaddr # 0
  <2>1. mmio.base = last + 1 /\ last \in Nat
    BY <1>1, <1>4
  <2>2. mmio'.base = MMIOBASE + 3 + (mp.up + 1) /\ mmio'.base <= MMIOLIM
    BY <1>1, <1>2, <1>4
  <2>3. mmio'.lapics = MMIOBASE + 3 .. MMIOBASE + 2 + (mp.up + 1)
    <3>1. mmio'.lapics = (MMIOBASE + 3 .. last) \cup {last + 1}
      <4>1. mmio.lapics = MMIOBASE + 3 .. last /\ mmio'.lapics = mmio.lapics \cup {mmio.base}
        BY <1>2, <1>4
      <4> QED BY <4>1, <2>1
    <3>2. MMIOBASE + 2 + (mp.up + 1) = last + 1 /\ MMIOBASE + 3 <= last + 1
      BY <1>1
    <3> HIDE DEF last
    <3>3. (MMIOBASE + 3 .. last) \cup {last + 1} = MMIOBASE + 3 .. last + 1
      BY <1>1, <2>1, <3>2
    <3> QED BY <3>1, <3>2, <3>3
  <2>4. \A v \in mmio'.lapics : kmap'[v] = apic
    <3> SUFFICES ASSUME NEW v \in mmio'.lapics PROVE kmap'[v] = apic
      OBVIOUS
    <3>1. CASE v = mmio.base
      BY <3>1, <1>2, <1>4
    <3>2. CASE v # mmio.base
      <4>1. v \in mmio.lapics
        BY <3>2, <1>2, <1>4
      <4>2. v \in Nat /\ v < mmio.base
        BY <4>1, <1>1, <1>4
      <4>3. v \in 0 .. KERNBASE + MaxPages
        <5>1. v < MMIOLIM
          BY <4>2, <1>1
        <5> QED BY <5>1, <4>2, Places
      <4> QED BY <3>2, <4>1, <4>3, <1>2, <1>4
    <3> QED BY <3>1, <3>2
  <2> QED BY <1>1, <2>2, <2>3, <2>4, <1>4, SMTT(30) DEF MmioInv, Unbuilt, Early
<1> QED BY <1>3, <1>4

(* page_check() maps three pages of the MMIO region and moves its base behind them. *)
LEMMA TestMaps ==
  ASSUME BootTypes, MmioInv, page_check
  PROVE  /\ \A v \in 0 .. KERNBASE + MaxPages : ~ (v \in MMIOBASE .. MMIOLIM - 1) => kmap'[v] = kmap[v]
         /\ stage' = "recheck" =>
              mmio'.base = MMIOBASE + 3 /\ mmio'.lapics = {} /\ mp'.up = 0
<1> DEFINE D == 0 .. KERNBASE + MaxPages
           k1 == boot_map_region(kmap, mmio.base, 2, 0, "device")
           k2 == boot_map_region(k1, mmio.base + 2, 1, 0, "device")
<1>1. mmio.base = MMIOBASE /\ mmio.lapics = {} /\ mp.up = 0 /\ mp' = mp
  BY DEF page_check, MmioInv
<1>2. CASE Len(page_free_list) < 6
  BY <1>2 DEF page_check
<1>3. CASE ~ (Len(page_free_list) < 6)
  <2>1. kmap' = k2 /\ mmio' = [mmio EXCEPT !.base = @ + 3]
    BY <1>3 DEF page_check
  <2>2. DOMAIN kmap = D /\ DOMAIN k1 = D
    BY DEF BootTypes, MapTypes, boot_map_region
  <2>3. mmio'.base = MMIOBASE + 3 /\ mmio'.lapics = {}
    BY <2>1, <1>1 DEF BootTypes, MapTypes
  <2>4. ASSUME NEW v \in D, ~ (v \in MMIOBASE .. MMIOLIM - 1)
        PROVE  k2[v] = kmap[v]
    <3>1. ~ (v \in mmio.base .. mmio.base + 2 - 1) /\ ~ (v \in mmio.base + 2 .. mmio.base + 2 + 1 - 1)
      BY <2>4, <1>1, Places
    <3>2. k1[v] = kmap[v]
      <4>1. k1[v] = IF v \in mmio.base .. mmio.base + 2 - 1
                    THEN [pa |-> 0 + v - mmio.base, perm |-> "device"] ELSE kmap[v]
        <5> HIDE DEF D
        <5> QED BY <2>2, RegionMaps
      <4> HIDE DEF k1
      <4> QED BY <3>1, <4>1
    <3> HIDE DEF k1, D
    <3>3. k2[v] = IF v \in mmio.base + 2 .. mmio.base + 2 + 1 - 1
                  THEN [pa |-> 0 + v - (mmio.base + 2), perm |-> "device"] ELSE k1[v]
      BY <2>2, RegionMaps
    <3> HIDE DEF k2
    <3> QED BY <3>1, <3>2, <3>3
  <2> HIDE DEF k1, k2
  <2> QED BY <2>1, <2>3, <2>4, <1>1
<1> QED BY <1>2, <1>3

(* The address space holds its layout through every step ... *)
LEMMA LayoutStep ==
  ASSUME BootTypes, LayoutInv, MmioInv, [Next]_vars
  PROVE  LayoutInv'
<1>1. /\ DOMAIN kmap = 0 .. KERNBASE + MaxPages /\ mem.npages \in Nat /\ mem.npages <= MaxPages
      /\ loop \in Nat
  BY DEF BootTypes, MapTypes, MemTypes
<1>2. CASE bootmain \/ load_segment \/ i386_detect_memory \/ insert_region \/ sanitize_region
           \/ add_region \/ count_pages \/ boot_arrays \/ page_init
  <2>1. /\ stage \in Unbuilt /\ stage' \in Unbuilt \cup {"panic", "corrupt"} /\ kmap' = kmap
        /\ {"panic", "corrupt"} \cap ({"stacks"} \cup Built) = {}
        /\ Unbuilt \cap ({"stacks"} \cup Built) = {}
    BY <1>2, EarlySteps DEF Unbuilt, Built, Early
  <2> QED BY <2>1 DEF LayoutInv
<1>3. CASE x64_vm_init \/ map_stack
  BY <1>3, LayoutBuilt, LayoutStack
<1>4. CASE take_tables \/ reorder_page \/ SelfTest \/ mp_init \/ mp_entry
  <2>1. /\ stage \in {"stacks"} \cup Built
        /\ stage = "stacks" => loop > NCPU - 1
        /\ stage' \in Built \cup {"panic"} /\ mem' = mem
    <3>1. CASE take_tables \/ reorder_page \/ mp_init \/ mp_entry
      BY <3>1 DEF take_tables, reorder_page, mp_init, mp_entry, Round, Done, Built
    <3>2. CASE SelfTest
      BY <3>2, SelfTestSteps DEF Built
    <3> QED BY <1>4, <3>1, <3>2
  <2>2. \A v \in 0 .. KERNBASE + MaxPages : v >= MMIOLIM => kmap'[v] = kmap[v]
    <3>1. CASE page_check
      <4>1. \A v \in 0 .. KERNBASE + MaxPages : v >= MMIOLIM => ~ (v \in MMIOBASE .. MMIOLIM - 1)
        BY Places
      <4> QED BY <3>1, <4>1, TestMaps
    <3>2. CASE ~ page_check
      <4>1. kmap' = kmap
        BY <1>4, <3>2 DEF SelfTest, take_tables, reorder_page, mp_init, mp_entry,
           check_page_free_list, check_page_alloc, check_boot_pml4e
      <4> QED BY <4>1
    <3> QED BY <3>1, <3>2
  <2> QED BY <1>1, <2>1, <2>2, LayoutKept
<1>5. CASE bsp_lapic_init \/ ap_lapic_init
  <2>1. stage \in Built /\ stage # "stacks" /\ stage' \in Built \cup {"panic"} /\ mem' = mem
    BY <1>5 DEF bsp_lapic_init, ap_lapic_init, Built
  <2>2. \A v \in 0 .. KERNBASE + MaxPages : v >= MMIOLIM => kmap'[v] = kmap[v]
    <3>1. CASE kmap' = kmap
      BY <3>1
    <3>2. CASE lapic_init /\ (stage = "mp" \/ (stage = "aps" /\ ~ (mmio.base + 1 > MMIOLIM)))
      <4>0. mmio.base \in Nat /\ mp.up \in Nat
        BY DEF BootTypes, MapTypes, MpTypes
      <4>1. CASE mmio.base < MMIOLIM
        <5>1. MMIOBASE <= mmio.base
          BY <3>2, <4>0, Places DEF MmioInv
        <5>2. \A v \in 0 .. KERNBASE + MaxPages : v # mmio.base => kmap'[v] = kmap[v]
          BY <3>2, <4>1, <5>1, LapicMapped
        <5>3. \A v \in 0 .. KERNBASE + MaxPages : v >= MMIOLIM => v # mmio.base
          BY <4>0, <4>1, Places
        <5> QED BY <5>2, <5>3
      <4>2. CASE ~ (mmio.base < MMIOLIM)
        BY <3>2, <4>2, <4>0, Places DEF MmioInv
      <4> QED BY <4>1, <4>2
    <3> QED BY <1>5, <3>1, <3>2 DEF bsp_lapic_init, ap_lapic_init
  <2> QED BY <1>1, <2>1, <2>2, LayoutKept
<1>6. CASE UNCHANGED vars
  BY <1>6 DEF vars, LayoutInv, Direct, GapAt, StackAt
<1> QED BY <1>2, <1>3, <1>4, <1>5, <1>6 DEF Next, SelfTest

(* ... and so does the MMIO region. *)
LEMMA MmioStep ==
  ASSUME BootTypes, MmioInv, [Next]_vars
  PROVE  MmioInv'
<1> USE DEF MmioInv, Unbuilt, Early
<1>1. CASE bootmain \/ load_segment \/ i386_detect_memory \/ insert_region \/ sanitize_region
           \/ add_region \/ count_pages \/ boot_arrays \/ page_init
  <2>1. stage \in Unbuilt /\ stage' \in Unbuilt \cup {"panic", "corrupt"} /\ UNCHANGED <<mp, mmio>>
    BY <1>1, EarlySteps
  <2> QED BY <2>1
<1>2. CASE x64_vm_init \/ map_stack \/ take_tables \/ reorder_page
  BY <1>2 DEF x64_vm_init, map_stack, take_tables, reorder_page, Round, lists
<1>3. CASE SelfTest
  <2>1. CASE check_page_free_list
    BY <2>1 DEF check_page_free_list
  <2>2. CASE check_page_alloc
    BY <2>2 DEF check_page_alloc
  <2>3. CASE page_check
    <3>1. stage' \in {"recheck", "panic"}
      BY <2>3 DEF page_check
    <3> QED BY <2>3, <3>1, TestMaps
  <2>4. CASE check_boot_pml4e
    BY <2>4 DEF check_boot_pml4e
  <2> QED BY <1>3, <2>1, <2>2, <2>3, <2>4 DEF SelfTest
<1>4. CASE mp_init
  <2>1. stage = "vm" /\ stage' \in {"entries", "mp"} /\ mmio' = mmio /\ mp'.up = mp.up
    BY <1>4 DEF mp_init, BootTypes, MpTypes
  <2> QED BY <2>1
<1>5. CASE mp_entry
  <2>1. stage = "entries" /\ stage' \in {"entries", "mp"} /\ mmio' = mmio
    BY <1>5 DEF mp_entry, Round, Done
  <2>2. mp'.up = mp.up
    BY <1>5 DEF mp_entry, BootTypes, MpTypes, Entry
  <2> QED BY <2>1, <2>2
<1>6. CASE bsp_lapic_init
  <2>1. stage = "mp" /\ stage' = "aps" /\ lapic_init /\ mp' = [mp EXCEPT !.up = 1]
    BY <1>6 DEF bsp_lapic_init
  <2>2. mp.up = 0 /\ mmio.base = MMIOBASE + 3 /\ mmio.lapics = {}
    BY <2>1
  <2>3. mp' = [mp EXCEPT !.up = mp.up + 1]
    BY <2>1, <2>2
  <2>4. MMIOBASE + 3 <= mmio.base /\ mmio.base < MMIOLIM
    BY <2>2, Places
  <2>5. mmio.base = MMIOBASE + 3 + mp.up /\ mmio.lapics = MMIOBASE + 3 .. MMIOBASE + 2 + mp.up
    BY <2>2, Places
  <2> HIDE DEF MmioInv
  <2> QED BY <2>1, <2>2, <2>3, <2>4, <2>5, MmioAdvance
<1>7. CASE ap_lapic_init
  <2>0. mmio.base \in Nat /\ mp.up \in Nat
    BY DEF BootTypes, MapTypes, MpTypes
  <2>1. CASE stage' = "panic"
    BY <2>1
  <2>2. CASE stage' # "panic"
    <3>1. /\ stage = "aps" /\ stage' = "aps" /\ lapic_init /\ ~ (mmio.base + 1 > MMIOLIM)
          /\ mp' = [mp EXCEPT !.up = mp.up + 1]
      BY <1>7, <2>2 DEF ap_lapic_init
    <3>2. MMIOBASE + 3 <= mmio.base /\ mmio.base < MMIOLIM
      BY <3>1, <2>0, Places, SMTT(30)
    <3> QED BY <3>1, <3>2, MmioAdvance
  <2> QED BY <2>1, <2>2
<1>8. CASE UNCHANGED vars
  BY <1>8 DEF vars
<1> QED BY <1>1, <1>2, <1>3, <1>4, <1>5, <1>6, <1>7, <1>8 DEF Next, SelfTest

(* x64_vm_init(), mem_init_mp() and lapic_init(): once start-up is over every
   processor has its own stack above an unmapped gap, physical memory is mapped
   at KERNBASE, and every address lapic has had leads to the local APIC.   *)
THEOREM LayoutKeeps == Spec => []LayoutHolds
<1>1. Init => LayoutInv /\ MmioInv
  <2> SUFFICES ASSUME Init PROVE LayoutInv /\ MmioInv
    OBVIOUS
  <2>1. stage = "bios" /\ mmio.base = MMIOBASE /\ mmio.lapics = {} /\ mp.up = 0
    BY DEF Init, NoMp
  <2> QED BY <2>1 DEF Init, LayoutInv, MmioInv, Unbuilt, Built, Early
<1>2. BootTypes /\ LayoutInv /\ MmioInv /\ [Next]_vars => LayoutInv' /\ MmioInv'
  BY LayoutStep, MmioStep
<1>3. BootTypes /\ LayoutInv /\ MmioInv => LayoutHolds
  <2> SUFFICES ASSUME BootTypes, LayoutInv, MmioInv, stage \in {"mp", "aps"} PROVE LayoutHolds
    BY DEF LayoutHolds
  <2>1. /\ \A i \in 0 .. NCPU - 1 :
             LET top == KSTACKTOP - i * (KSTK + KGAP) IN
             /\ \A p \in 1 .. KSTK : kmap[top - p] = [pa |-> percpu_kstacks(i) + KSTK - p, perm |-> "w"]
             /\ \A p \in KSTK + 1 .. KSTK + KGAP : kmap[top - p] = Unmapped
        /\ \A i \in 0 .. mem.npages - 1 : kmap[KERNBASE + i] = [pa |-> i, perm |-> "w"]
    BY DEF LayoutInv, Built, StackAt, GapAt, Top, Direct
  <2>2. mp.up \in Nat /\ mmio.base \in Nat
    BY DEF BootTypes, MpTypes, MapTypes
  <2>3. \A v \in mmio.lapics :
          v \in MMIOBASE .. MMIOLIM - 1 /\ kmap[v] = [pa |-> mp.lapicaddr \div PGSIZE, perm |-> "device"]
    <3>1. CASE mmio.lapics = {}
      BY <3>1
    <3>2. CASE mmio.lapics # {}
      <4>1. /\ mmio.base = MMIOBASE + 3 + mp.up /\ mmio.base <= MMIOLIM
            /\ mmio.lapics = MMIOBASE + 3 .. MMIOBASE + 2 + mp.up
            /\ \A v \in mmio.lapics :
                 kmap[v] = [pa |-> mp.lapicaddr \div PGSIZE, perm |-> "device"]
        BY <3>2 DEF MmioInv
      <4>2. \A v \in mmio.lapics : v \in MMIOBASE .. MMIOLIM - 1
        BY <4>1, <2>2, Places, SMTT(30)
      <4> QED BY <4>1, <4>2
    <3> QED BY <3>1, <3>2
  <2>4. ASSUME mp.lapicaddr # 0 PROVE Cardinality(mmio.lapics) = mp.up
    <3>1. CASE stage = "mp"
      BY <3>1, FS_EmptySet DEF MmioInv
    <3>2. CASE stage = "aps"
      <4>1. mmio.lapics = MMIOBASE + 3 .. MMIOBASE + 2 + mp.up /\ mp.up > 0
        BY <2>4, <3>2 DEF MmioInv
      <4>2. MMIOBASE + 3 \in Int /\ MMIOBASE + 2 + mp.up \in Int
        BY <2>2, Places
      <4>3. Cardinality(mmio.lapics) = (MMIOBASE + 2 + mp.up) - (MMIOBASE + 3) + 1
        <5>1. ~ (MMIOBASE + 3 > MMIOBASE + 2 + mp.up)
          BY <4>1, <2>2, Places
        <5> QED BY <5>1, <4>1, <4>2, FS_Interval
      <4> QED BY <4>3, <2>2, Places
    <3> QED BY <3>1, <3>2
  <2> QED BY <2>1, <2>3, <2>4 DEF LayoutHolds
<1> QED BY <1>1, <1>2, <1>3, TypesHold, PTL DEF Spec

----------------------------------------------------------------------------
(* Processors *)

(* How many usable processors the first n entries of the table are. *)
Before(n) == Cardinality({j \in On : j <= n})

(* The usable processors are numbered in the order of the table, and the boot
   processor is the one of entry b.                                        *)
Numbered(b) ==
  /\ \A k \in On : ProcTable[k].apicid = Number(k)
  /\ Number(b) < NCPU
  /\ \A k \in DOMAIN ProcTable : ProcTable[k].kind = "proc" => (ProcTable[k].boot <=> k = b)

(* What mp holds once n entries have been read. *)
Read(n) ==
  /\ mp.ncpu = IF Before(n) < NCPU THEN Before(n) ELSE NCPU
  /\ \A i \in 0 .. mp.ncpu - 1 : mp.ids[i] = i
  /\ \A b \in On : Numbered(b) /\ b <= n => mp.bootcpu = Number(b)
ProcInv ==
  /\ stage \notin {"entries", "mp", "aps", "panic"} => mp = NoMp
  /\ stage = "entries" => loop <= Len(ProcTable) + 1
  /\ stage = "entries" /\ mp.ismp => Read(loop - 1)
  /\ stage \in {"mp", "aps"} /\ mp.ismp => Read(Len(ProcTable))

(* Counting usable processors entry by entry. *)
LEMMA BeforeFacts ==
  ASSUME machine \in Machines
  PROVE  /\ \A j \in On : j \in 1 .. Len(ProcTable)
         /\ IsFiniteSet(On)
         /\ Before(0) = 0
         /\ \A n \in Nat : Before(n) \in Nat
         /\ \A n \in Nat : n + 1 \in On => Before(n + 1) = Before(n) + 1 /\ Number(n + 1) = Before(n)
         /\ \A n \in Nat : n + 1 \notin On => Before(n + 1) = Before(n)
         /\ Before(Len(ProcTable)) = Cardinality(On)
         /\ \A b \in On : Number(b) \in Nat /\ Number(b) < Cardinality(On)
<1>1. Len(ProcTable) \in Nat /\ \A j \in On : j \in 1 .. Len(ProcTable)
  BY TableTypes DEF On
<1>2. IsFiniteSet(On)
  <2>1. On \in SUBSET (1 .. Len(ProcTable)) /\ IsFiniteSet(1 .. Len(ProcTable))
    BY <1>1, FS_Interval
  <2> QED BY <2>1, FS_Subset
<1>3. \A n \in Nat : IsFiniteSet({j \in On : j <= n}) /\ Before(n) \in Nat
  <2> TAKE n \in Nat
  <2>1. {j \in On : j <= n} \subseteq On
    OBVIOUS
  <2>2. IsFiniteSet({j \in On : j <= n})
    BY <2>1, <1>2, FS_Subset
  <2> QED BY <2>2, FS_CardinalityType DEF Before
<1>4. Before(0) = 0
  <2>1. {j \in On : j <= 0} = {}
    BY <1>1
  <2> QED BY <2>1, FS_EmptySet DEF Before
<1>5. ASSUME NEW n \in Nat, n + 1 \in On
      PROVE  Before(n + 1) = Before(n) + 1 /\ Number(n + 1) = Before(n)
  <2>1. {j \in On : j < n + 1} = {j \in On : j <= n}
    BY <1>1
  <2>2. {j \in On : j <= n + 1} = {j \in On : j <= n} \cup {n + 1}
    BY <1>1, <1>5
  <2>3. n + 1 \notin {j \in On : j <= n}
    OBVIOUS
  <2>4. Cardinality({j \in On : j <= n} \cup {n + 1}) = Cardinality({j \in On : j <= n}) + 1
    BY <2>3, <1>3, FS_AddElement
  <2> QED BY <2>1, <2>2, <2>4 DEF Before, Number
<1>6. ASSUME NEW n \in Nat, n + 1 \notin On
      PROVE  Before(n + 1) = Before(n)
  <2>1. {j \in On : j <= n + 1} = {j \in On : j <= n}
    BY <1>1, <1>6
  <2> QED BY <2>1 DEF Before
<1>7. Before(Len(ProcTable)) = Cardinality(On)
  <2>1. {j \in On : j <= Len(ProcTable)} = On
    BY <1>1
  <2> QED BY <2>1 DEF Before
<1>8. ASSUME NEW b \in On
      PROVE  Number(b) \in Nat /\ Number(b) < Cardinality(On)
  <2>1. {j \in On : j < b} \subseteq On /\ {j \in On : j < b} # On
    BY <1>1
  <2>2. IsFiniteSet({j \in On : j < b})
    BY <2>1, <1>2, FS_Subset
  <2>3. Cardinality({j \in On : j < b}) < Cardinality(On)
    <3>1. /\ Cardinality({j \in On : j < b}) <= Cardinality(On)
          /\ Cardinality({j \in On : j < b}) = Cardinality(On) => {j \in On : j < b} = On
      BY <2>1, <1>2, FS_Subset
    <3> QED BY <3>1, <2>1, <2>2, <1>2, FS_CardinalityType
  <2> QED BY <2>2, <2>3, FS_CardinalityType DEF Number
<1> QED BY <1>1, <1>2, <1>3, <1>4, <1>5, <1>6, <1>7, <1>8

(* One more entry. *)
LEMMA ReadStep ==
  ASSUME BootTypes, NEW n \in Nat, n < Len(ProcTable), Read(n), mp' = Entry(mp, ProcTable[n + 1]),
         mp'.ismp, machine' = machine
  PROVE  Read(n + 1)'
<1> DEFINE e == ProcTable[n + 1]
           counted == e.kind = "proc" /\ mp.ncpu < NCPU /\ e.enabled
<1>1. e \in TableEntry /\ n + 1 \in DOMAIN ProcTable
  BY TableTypes DEF BootTypes
<1>2. /\ mp'.bootcpu = IF e.kind = "proc" /\ e.boot THEN mp.ncpu ELSE mp.bootcpu
      /\ mp'.ids = IF counted THEN [mp.ids EXCEPT ![mp.ncpu] = mp.ncpu] ELSE mp.ids
      /\ mp'.ncpu = IF counted THEN mp.ncpu + 1 ELSE mp.ncpu
  BY DEF Entry, BootTypes, MpTypes
<1>3. mp.ncpu \in Nat /\ mp.ids \in [0 .. NCPU - 1 -> Nat] /\ NCPU \in Nat
  BY Sizes DEF BootTypes, MpTypes
<1>4. /\ Before(n) \in Nat
      /\ n + 1 \in On => Before(n + 1) = Before(n) + 1 /\ Number(n + 1) = Before(n)
      /\ n + 1 \notin On => Before(n + 1) = Before(n)
      /\ \A b \in On : b \in Nat
  <2>1. machine \in Machines
    BY DEF BootTypes
  <2>2. \A b \in On : b \in Nat
    BY <2>1, BeforeFacts
  <2>3. /\ Before(n) \in Nat
        /\ n + 1 \in On => Before(n + 1) = Before(n) + 1 /\ Number(n + 1) = Before(n)
        /\ n + 1 \notin On => Before(n + 1) = Before(n)
    BY <2>1, BeforeFacts
  <2> QED BY <2>2, <2>3
<1>5. n + 1 \in On <=> e.kind = "proc" /\ e.enabled
  BY <1>1 DEF On
<1>6. ProcTable' = ProcTable /\ On' = On
  BY DEF ProcTable, On
<1>7. /\ Before(n + 1)' = Before(n + 1)
      /\ \A b : Number(b)' = Number(b) /\ (Numbered(b)' <=> Numbered(b))
  BY <1>6 DEF Before, Number, Numbered
<1> HIDE DEF e
<1>8. mp.ncpu = IF Before(n) < NCPU THEN Before(n) ELSE NCPU
  BY DEF Read
<1>9. mp'.ncpu = IF Before(n + 1) < NCPU THEN Before(n + 1) ELSE NCPU
  BY <1>2, <1>3, <1>4, <1>5, <1>8
<1>10. \A i \in 0 .. mp'.ncpu - 1 : mp'.ids[i] = i
  <2> SUFFICES ASSUME NEW i \in 0 .. mp'.ncpu - 1 PROVE mp'.ids[i] = i
    OBVIOUS
  <2>1. CASE counted
    <3>1. CASE i = mp.ncpu
      BY <2>1, <3>1, <1>2, <1>3
    <3>2. CASE i # mp.ncpu
      <4>1. i \in 0 .. mp.ncpu - 1
        BY <2>1, <3>2, <1>2, <1>3
      <4>2. mp.ids[i] = i
        BY <4>1 DEF Read
      <4>3. [mp.ids EXCEPT ![mp.ncpu] = mp.ncpu][i] = mp.ids[i]
        BY <3>2, <4>1, <1>3, <2>1
      <4> QED BY <2>1, <4>2, <4>3, <1>2
    <3> QED BY <3>1, <3>2
  <2>2. CASE ~ counted
    BY <2>2, <1>2 DEF Read
  <2> QED BY <2>1, <2>2
<1>11. ASSUME NEW b \in On, Numbered(b), b <= n + 1
       PROVE  mp'.bootcpu = Number(b)
  <2>1. CASE b = n + 1
    <3>1. e.kind = "proc" /\ e.boot
      BY <2>1, <1>1, <1>5, <1>11 DEF Numbered, e
    <3>2. Number(b) < NCPU /\ Number(b) = Before(n)
      BY <2>1, <1>4, <1>11 DEF Numbered
    <3> QED BY <3>1, <3>2, <1>2, <1>8
  <2>2. CASE b <= n
    <3>1. ~ (e.kind = "proc" /\ e.boot)
      BY <2>2, <1>1, <1>4, <1>11 DEF Numbered, e
    <3> QED BY <3>1, <2>2, <1>2, <1>11 DEF Read
  <2> QED BY <2>1, <2>2, <1>4, <1>11
<1> QED BY <1>6, <1>7, <1>9, <1>10, <1>11 DEF Read

(* No processor is read before mp_init(), and later steps leave what was read. *)
LEMMA ProcStep ==
  ASSUME BootTypes, ProcInv, [Next]_vars
  PROVE  ProcInv'
<1> DEFINE last == Len(ProcTable)
<1>1. machine \in Machines /\ last \in Nat /\ loop \in Nat /\ (stage = "entries" => loop > 0)
  BY TableTypes DEF BootTypes
<1>2. CASE mp_init
  <2>1. /\ stage = "vm" /\ loop' = 1 /\ machine' = machine /\ mp = NoMp
        /\ \/ stage' = "entries" /\ mp' = [mp EXCEPT !.ismp = TRUE, !.lapicaddr = machine.mp.lapic]
           \/ stage' = "mp" /\ mp' = mp
    BY <1>2 DEF mp_init, ProcInv
  <2>2. ProcTable' = ProcTable /\ On' = On
    BY <2>1 DEF ProcTable, On
  <2>3. CASE stage' = "entries"
    <3>1. mp'.ncpu = 0
      BY <2>1, <2>3 DEF NoMp
    <3>2. Before(0) = 0 /\ \A b \in On : ~ (b <= 0)
      BY <1>1, BeforeFacts
    <3>3. Before(0)' = 0
      BY <2>2, <3>2 DEF Before
    <3>4. Read(0)'
      BY <2>2, <3>1, <3>2, <3>3, Sizes DEF Read
    <3>5. loop' <= Len(ProcTable)' + 1 /\ loop' - 1 = 0
      BY <2>1, <2>2, <1>1
    <3>6. Read(loop - 1)'
      BY <3>4, <3>5
    <3> QED BY <2>3, <3>5, <3>6 DEF ProcInv
  <2>4. CASE stage' = "mp"
    BY <2>1, <2>4 DEF ProcInv, NoMp
  <2> QED BY <2>1, <2>3, <2>4
<1>3. CASE mp_entry
  <2>1. stage = "entries" /\ machine' = machine
    BY <1>3 DEF mp_entry, Round, Done
  <2>2. ProcTable' = ProcTable
    BY <2>1 DEF ProcTable
  <2>3. CASE mp.ismp /\ Round("entries", last) /\ mp' = Entry(mp, ProcTable[loop])
    <3>1. loop <= last /\ loop' = loop + 1 /\ stage' = "entries"
      BY <2>3 DEF Round
    <3>2. loop' <= Len(ProcTable)' + 1
      BY <3>1, <2>2, <1>1
    <3>3. ASSUME mp'.ismp PROVE Read(loop - 1)'
      <4>1. PICK n \in Nat : n = loop - 1
        BY <1>1, <2>1
      <4>2. n < Len(ProcTable) /\ ProcTable[loop] = ProcTable[n + 1] /\ loop' - 1 = n + 1
        BY <3>1, <4>1, <1>1
      <4>3. Read(n)
        BY <2>1, <2>3, <4>1 DEF ProcInv
      <4>4. Read(n + 1)'
        BY <2>1, <2>3, <3>3, <4>2, <4>3, ReadStep
      <4> QED BY <4>2, <4>4
    <3> QED BY <3>1, <3>2, <3>3 DEF ProcInv
  <2>4. CASE mp.ismp /\ Done("entries", last, "mp", 0) /\ mp' = mp
    <3>1. loop = last + 1 /\ loop - 1 = last /\ stage' = "mp"
      BY <2>4, <2>1, <1>1 DEF Done, ProcInv
    <3>2. Read(last)
      BY <2>1, <2>4, <3>1 DEF ProcInv
    <3>3. Read(last)'
      BY <3>2, <2>1, <2>2, <2>4 DEF Read, Before, On, Numbered, Number
    <3>4. Read(Len(ProcTable))'
      BY <3>3, <2>2
    <3> QED BY <3>1, <3>4 DEF ProcInv
  <2>5. CASE stage' = "mp" /\ mp' = [mp EXCEPT !.ncpu = 1, !.lapicaddr = 0] /\ ~ mp.ismp
    <3>1. ~ mp'.ismp
      BY <2>5 DEF BootTypes, MpTypes
    <3> QED BY <2>5, <3>1 DEF ProcInv
  <2> QED BY <1>3, <2>3, <2>4, <2>5 DEF mp_entry, ProcTable
<1>4. CASE bsp_lapic_init \/ ap_lapic_init
  <2>1. /\ stage \in {"mp", "aps"} /\ stage' \in {"aps", "panic"} /\ machine' = machine
        /\ mp'.ncpu = mp.ncpu /\ mp'.ids = mp.ids /\ mp'.bootcpu = mp.bootcpu /\ mp'.ismp = mp.ismp
    BY <1>4 DEF bsp_lapic_init, ap_lapic_init, BootTypes, MpTypes
  <2>2. ProcTable' = ProcTable
    BY <2>1 DEF ProcTable
  <2>3. Read(Len(ProcTable)) => Read(Len(ProcTable))'
    BY <2>1, <2>2 DEF Read, Before, On, Numbered, Number
  <2> QED BY <2>1, <2>2, <2>3 DEF ProcInv
<1>5. CASE UNCHANGED vars
  <2>1. ProcTable' = ProcTable /\ UNCHANGED <<mp, stage, loop>>
    BY <1>5 DEF vars, ProcTable
  <2>2. (Read(last) => Read(last)') /\ (Read(loop - 1) => Read(loop - 1)')
    BY <2>1 DEF Read, Before, On, Numbered, Number
  <2> QED BY <2>1, <2>2 DEF ProcInv
<1>6. CASE Next /\ ~ (mp_init \/ mp_entry \/ bsp_lapic_init \/ ap_lapic_init)
  <2>1. stage \notin {"entries", "mp", "aps", "panic"} /\ stage' \notin {"entries", "mp", "aps"}
        /\ mp' = mp
    <3>1. CASE bootmain \/ load_segment \/ i386_detect_memory \/ insert_region \/ sanitize_region
               \/ add_region \/ count_pages \/ boot_arrays \/ page_init
      BY <3>1, EarlySteps DEF Unbuilt, Early
    <3>2. CASE x64_vm_init \/ map_stack \/ take_tables \/ reorder_page
      BY <3>2 DEF x64_vm_init, map_stack, take_tables, reorder_page, Round
    <3>3. CASE SelfTest
      BY <3>3, SelfTestSteps
    <3> QED BY <1>6, <3>1, <3>2, <3>3 DEF Next, SelfTest
  <2> QED BY <2>1 DEF ProcInv
<1> QED BY <1>2, <1>3, <1>4, <1>5, <1>6

(* mp_init() of kern/mpconfig.c: every usable processor finds its own CpuInfo at
   its number, and bootcpu is that of the boot processor, for tables of any
   length and any NCPU.                                                    *)
THEOREM ProcessorsFound == Spec => []ProcessorsKnown
<1>1. Init => ProcInv
  BY DEF Init, ProcInv
<1>2. BootTypes /\ ProcInv /\ [Next]_vars => ProcInv'
  BY ProcStep
<1>3. BootTypes /\ ProcInv => ProcessorsKnown
  <2> SUFFICES ASSUME BootTypes, ProcInv, stage \in {"mp", "aps"}, mp.ismp,
                      NEW b \in On, Numbered(b)
               PROVE  /\ mp.ncpu = Min({NCPU, Cardinality(On)})
                      /\ \A k \in On : Number(k) < mp.ncpu => mp.ids[Number(k)] = ProcTable[k].apicid
                      /\ mp.bootcpu < mp.ncpu /\ mp.ids[mp.bootcpu] = ProcTable[b].apicid
    BY DEF ProcessorsKnown, Numbered
  <2>1. /\ \A j \in On : j \in 1 .. Len(ProcTable)
        /\ IsFiniteSet(On) /\ Before(Len(ProcTable)) = Cardinality(On)
        /\ \A k \in On : Number(k) \in Nat /\ Number(k) < Cardinality(On)
    BY BeforeFacts DEF BootTypes
  <2>2. Cardinality(On) \in Nat /\ NCPU \in Nat
    BY <2>1, FS_CardinalityType, Sizes
  <2>3. /\ mp.ncpu = IF Cardinality(On) < NCPU THEN Cardinality(On) ELSE NCPU
        /\ \A i \in 0 .. mp.ncpu - 1 : mp.ids[i] = i
        /\ mp.bootcpu = Number(b)
    <3>1. b <= Len(ProcTable)
      BY <2>1, TableTypes DEF BootTypes
    <3> QED BY <2>1, <3>1 DEF ProcInv, Read
  <2>4. mp.ncpu = Min({NCPU, Cardinality(On)})
    <3> DEFINE S == {NCPU, Cardinality(On)}
    <3>1. S \in SUBSET Nat /\ S # {}
      BY <2>2
    <3>2. Min(S) \in S /\ \A n \in S : Min(S) <= n
      BY <3>1, LeastNat
    <3>3. Min(S) <= NCPU /\ Min(S) <= Cardinality(On)
      BY <3>2
    <3> QED BY <3>2, <3>3, <2>2, <2>3
  <2>5. \A k \in On : Number(k) < mp.ncpu => mp.ids[Number(k)] = ProcTable[k].apicid
    <3> SUFFICES ASSUME NEW k \in On, Number(k) < mp.ncpu
                 PROVE  mp.ids[Number(k)] = ProcTable[k].apicid
      OBVIOUS
    <3>1. Number(k) \in 0 .. mp.ncpu - 1
      BY <2>1, <2>2, <2>3
    <3> QED BY <3>1, <2>3 DEF Numbered
  <2>6. Number(b) < mp.ncpu
    BY <2>1, <2>2, <2>3 DEF Numbered
  <2> QED BY <2>3, <2>4, <2>5, <2>6
<1> QED BY <1>1, <1>2, <1>3, TypesHold, PTL DEF Spec

----------------------------------------------------------------------------
(* The memory map *)

(* The region at place q of the list: as the loader passed it, and as it is now. *)
Orig(q) == machine.mmap[mmap_list[q]]
Cur(q) == mmap[mmap_list[q]]
EndOf(r) == r.base + r.len
Normal(r) == [r EXCEPT !.type = IF @ \in 1 .. 5 THEN @ ELSE Reserved]

(* The list holds the first n regions in the order of their bases. *)
Listed(n) ==
  /\ \A p \in 1 .. n : mmap_list[p] \in 1 .. n
  /\ \A p, q \in 1 .. n : mmap_list[p] = mmap_list[q] => p = q
  /\ \A k \in 1 .. n : \E p \in 1 .. n : mmap_list[p] = k
  /\ \A p, q \in 1 .. n : p < q => Orig(p).base <= Orig(q).base
SortInv ==
  /\ stage = "insert" =>
       /\ Listed(loop - 1)
       /\ \A k \in 1 .. Len(mmap) :
            mmap[k] = IF k < loop THEN Normal(machine.mmap[k]) ELSE machine.mmap[k]
  /\ stage \in {"sanitize", "sum"} => Listed(Len(mmap))

(* Byte a of the region at place q comes from a usable region that was merged
   into it.                                                                *)
Covered(a, q) ==
  \E p \in 1 .. q : /\ \A r \in p .. q - 1 : r \in merged
                    /\ IsUsable(Orig(p)) /\ InRegion(a, Orig(p))

(* What holds of the regions when the places below m have been compared. *)
Shape(m) ==
  /\ merged \subseteq 1 .. m - 2
  /\ \A q \in 1 .. Len(mmap) :
       /\ EndOf(Cur(q)) = EndOf(Orig(q)) /\ Cur(q).base <= Orig(q).base
       /\ Cur(q).type \in 1 .. 5 /\ (IsUsable(Cur(q)) => IsUsable(Orig(q)))
       /\ q >= m => Cur(q) = Normal(Orig(q))
Pure(m) ==
  \A q \in 1 .. m - 1, a \in Nat :
    q \notin merged /\ IsUsable(Cur(q)) /\ InRegion(a, Cur(q)) =>
      /\ Covered(a, q)
      /\ \A p \in 1 .. m - 1 : InRegion(a, Orig(p)) => IsUsable(Orig(p))
SaneInv ==
  /\ stage \in {"insert", "sanitize"} => basemem = 0 /\ extmem = 0
  /\ stage = "insert" => merged = {}
  /\ stage = "sanitize" => Shape(loop) /\ (Regular => Pure(loop))
  /\ stage = "sum" => Shape(Len(mmap) + 1) /\ (Regular => Pure(Len(mmap) + 1))

(* The bytes of usable memory in the first n regions, by where the regions start. *)
Counted(q) == q \notin merged /\ IsUsable(Cur(q))
LowBytes(n) ==
  {a \in Nat : \E q \in 1 .. n : Counted(q) /\ InRegion(a, Cur(q)) /\ Cur(q).base < EXTPHYSMEM}
HighBytes(n) ==
  {a \in Nat : \E q \in 1 .. n : Counted(q) /\ InRegion(a, Cur(q)) /\ ~ (Cur(q).base < EXTPHYSMEM)}
SumInv ==
  stage = "sum" /\ Regular =>
    /\ IsFiniteSet(LowBytes(loop - 1)) /\ basemem = Cardinality(LowBytes(loop - 1))
    /\ IsFiniteSet(HighBytes(loop - 1)) /\ extmem = Cardinality(HighBytes(loop - 1))
RamInv ==
  stage \notin Early \cup {"insert", "corrupt", "sanitize", "sum"} /\ Regular =>
    /\ basemem <= IOPHYSMEM
    /\ \A a \in 0 .. basemem - 1 : IsRam(a)
    /\ \A a \in EXTPHYSMEM .. EXTPHYSMEM + extmem - 1 : IsRam(a)

(* L holds the numbers up to n in the order of their values in B; M has number l
   at place j and L before and after it.                                   *)
SortedList(L, B, n) ==
  /\ \A p \in 1 .. n : L[p] \in 1 .. n
  /\ \A p, q \in 1 .. n : L[p] = L[q] => p = q
  /\ \A k \in 1 .. n : \E p \in 1 .. n : L[p] = k
  /\ \A p, q \in 1 .. n : p < q => B[L[p]] <= B[L[q]]
InsertedAt(L, M, B, l, j) ==
  /\ \A k \in 1 .. l : B[k] \in Nat
  /\ j # l => B[L[j]] > B[l]
  /\ \A p \in 1 .. l - 1 : p < j => B[L[p]] <= B[l]
  /\ \A k \in 1 .. l : M[k] = IF k < j THEN L[k] ELSE IF k = j THEN l ELSE L[k - 1]

(* Putting number l into a sorted list of the numbers below it. *)
LEMMA Inserted ==
  ASSUME NEW l \in Nat, l > 0, NEW L, NEW M, NEW B, NEW j \in 1 .. l,
         SortedList(L, B, l - 1), InsertedAt(L, M, B, l, j)
  PROVE  SortedList(M, B, l)
<1> USE DEF SortedList, InsertedAt
<1>1. ASSUME NEW k \in 1 .. l
      PROVE  /\ k < j => k \in 1 .. l - 1 /\ M[k] = L[k]
             /\ k = j => M[k] = l
             /\ k > j => k - 1 \in 1 .. l - 1 /\ M[k] = L[k - 1]
  OBVIOUS
<1>2. \A p \in 1 .. l : M[p] \in 1 .. l /\ (M[p] = l => p = j)
  <2> SUFFICES ASSUME NEW p \in 1 .. l PROVE M[p] \in 1 .. l /\ (M[p] = l => p = j)
    OBVIOUS
  <2>1. CASE p < j
    <3>1. M[p] = L[p] /\ L[p] \in 1 .. l - 1
      BY <1>1, <2>1
    <3> QED BY <3>1
  <2>2. CASE p = j
    BY <1>1, <2>2
  <2>3. CASE p > j
    <3>1. M[p] = L[p - 1] /\ L[p - 1] \in 1 .. l - 1
      BY <1>1, <2>3
    <3> QED BY <3>1
  <2> QED BY <2>1, <2>2, <2>3
<1>3. \A p, q \in 1 .. l : M[p] = M[q] => p = q
  <2> SUFFICES ASSUME NEW p \in 1 .. l, NEW q \in 1 .. l, M[p] = M[q] PROVE p = q
    OBVIOUS
  <2>1. CASE p = j \/ q = j
    BY <2>1, <1>1, <1>2
  <2>2. CASE p # j /\ q # j
    <3> DEFINE x == IF p < j THEN p ELSE p - 1
               y == IF q < j THEN q ELSE q - 1
    <3>1. x \in 1 .. l - 1 /\ y \in 1 .. l - 1 /\ M[p] = L[x] /\ M[q] = L[y]
      BY <2>2, <1>1
    <3>2. x = y
      <4>1. L[x] = L[y]
        BY <3>1
      <4> HIDE DEF x, y
      <4> QED BY <3>1, <4>1, Zenon
    <3>3. p \in Int /\ q \in Int /\ j \in Int
      OBVIOUS
    <3>4. (p < j => x = p) /\ (p > j => x = p - 1) /\ (q < j => y = q) /\ (q > j => y = q - 1)
      BY <3>3
    <3> HIDE DEF x, y
    <3> QED BY <3>2, <3>3, <3>4, <2>2
  <2> QED BY <2>1, <2>2
<1>4. \A k \in 1 .. l : \E p \in 1 .. l : M[p] = k
  <2> SUFFICES ASSUME NEW k \in 1 .. l PROVE \E p \in 1 .. l : M[p] = k
    OBVIOUS
  <2>1. CASE k = l
    BY <2>1, <1>1
  <2>2. CASE k # l
    <3>1. PICK p \in 1 .. l - 1 : L[p] = k
      BY <2>2
    <3>2. CASE p < j
      <4>1. p \in 1 .. l /\ M[p] = L[p]
        BY <3>1, <3>2, <1>1
      <4> QED BY <3>1, <4>1
    <3>3. CASE ~ (p < j)
      <4>1. p + 1 \in 1 .. l /\ p + 1 > j /\ p + 1 - 1 = p
        BY <3>3
      <4>2. M[p + 1] = k
        BY <4>1, <3>1, <1>1
      <4> QED BY <4>1, <4>2
    <3> QED BY <3>2, <3>3
  <2> QED BY <2>1, <2>2
<1>5. ASSUME NEW p \in 1 .. l, NEW q \in 1 .. l, p < q
      PROVE  B[M[p]] <= B[M[q]]
  <2>1. CASE q < j
    BY <2>1, <1>1, <1>5
  <2>2. CASE q = j
    BY <2>2, <1>1, <1>5
  <2>3. CASE p < j /\ q > j
    <3>1. p \in 1 .. l - 1 /\ q - 1 \in 1 .. l - 1 /\ p < q - 1 /\ M[p] = L[p] /\ M[q] = L[q - 1]
      BY <2>3, <1>1, <1>5
    <3> QED BY <3>1
  <2>4. CASE p = j
    <3>1. q - 1 \in 1 .. l - 1 /\ M[q] = L[q - 1] /\ M[p] = l /\ j # l /\ j <= q - 1 /\ j \in 1 .. l - 1
      BY <2>4, <1>1, <1>5
    <3>2. B[L[j]] > B[l] /\ B[L[j]] <= B[L[q - 1]]
      <4>1. B[L[j]] \in Nat
        BY <3>1
      <4>2. CASE j = q - 1
        BY <3>1, <4>1, <4>2
      <4>3. CASE j < q - 1
        BY <3>1, <4>3
      <4> QED BY <4>2, <4>3, <3>1
    <3>3. B[L[j]] \in Nat /\ B[l] \in Nat /\ B[L[q - 1]] \in Nat
      <4>1. L[j] \in 1 .. l /\ L[q - 1] \in 1 .. l /\ l \in 1 .. l
        BY <3>1
      <4> QED BY <4>1
    <3> QED BY <3>1, <3>2, <3>3
  <2>5. CASE p > j
    <3>1. p - 1 \in 1 .. l - 1 /\ q - 1 \in 1 .. l - 1 /\ p - 1 < q - 1
          /\ M[p] = L[p - 1] /\ M[q] = L[q - 1]
      BY <2>5, <1>1, <1>5
    <3> QED BY <3>1
  <2> QED BY <2>1, <2>2, <2>3, <2>4, <2>5, <1>5
<1> QED BY <1>2, <1>3, <1>4, <1>5

(* What is left of a region that has only been given a type. *)
LEMMA NormalFacts ==
  ASSUME NEW r \in Region
  PROVE  /\ Normal(r) \in Region /\ Normal(r).type \in 1 .. 5
         /\ Normal(r).base = r.base /\ Normal(r).len = r.len /\ EndOf(Normal(r)) = EndOf(r)
         /\ IsUsable(Normal(r)) <=> IsUsable(r)
BY DEF Region, Normal, EndOf, IsUsable, Usable, Reserved, Reclaimable

(* The extent of a region. *)
LEMMA ExtentFacts ==
  ASSUME NEW r \in Region
  PROVE  /\ r.base \in Nat /\ r.len \in Nat /\ r.type \in Nat /\ EndOf(r) \in Nat
         /\ EndOf(r) = r.base + r.len /\ r.base <= EndOf(r)
         /\ \A a \in Nat : InRegion(a, r) <=> r.base <= a /\ a < EndOf(r)
BY DEF Region, EndOf, InRegion

(* Two regions that meet, as one. *)
LEMMA JoinedFacts ==
  ASSUME NEW r \in Region, NEW s \in Region, NEW x, EndOf(r) = s.base,
         x = [base |-> r.base, len |-> r.len + s.len, type |-> s.type]
  PROVE  /\ EndOf(x) = EndOf(s) /\ x.base = r.base /\ x.base <= s.base /\ x.type = s.type
         /\ \A a \in Nat : InRegion(a, x) => InRegion(a, r) \/ InRegion(a, s)
BY DEF Region, EndOf, InRegion

(* insert_region puts one more region in its place. *)
LEMMA SortRound ==
  ASSUME BootTypes, SortInv, stage = "insert", NEW l \in Nat, l = loop, l <= Len(mmap), insert_region,
         stage' # "corrupt"
  PROVE  /\ machine' = machine /\ stage' = "insert" /\ loop' = l + 1 /\ merged' = merged
         /\ Listed(l)'
         /\ \A k \in 1 .. Len(mmap') :
              mmap'[k] = IF k < l + 1 THEN Normal(machine.mmap[k]) ELSE machine.mmap[k]
<1> DEFINE j == Min(above \cup {loop})
           B == [k \in 1 .. l |-> machine.mmap[k].base]
<1>1. /\ mmap_list' = [k \in 1 .. loop |-> IF k < j THEN mmap_list[k]
                                      ELSE IF k = j THEN loop ELSE mmap_list[k - 1]]
      /\ mmap' = [mmap EXCEPT ![loop].type = IF @ \in 1 .. 5 THEN @ ELSE Reserved]
      /\ loop' = loop + 1 /\ stage' = "insert" /\ machine' = machine /\ merged' = merged
  <2> HIDE DEF j
  <2>1. loop <= Len(mmap) /\ loop \in Nat /\ Len(mmap) \in Nat
    BY MachineTypes, LenProperties DEF BootTypes, E820Types
  <2>2. ~ (loop > Len(mmap))
    BY <2>1
  <2> QED BY <2>2, Zenon DEF insert_region, Round, Done, j
<1>2. /\ mmap_list \in Seq(1 .. Len(mmap)) /\ Len(mmap_list) = l - 1 /\ DOMAIN mmap_list = 1 .. l - 1
      /\ l \in 1 .. Len(mmap) /\ mmap \in Seq(Region) /\ machine.mmap \in Seq(Region)
      /\ Len(mmap) = Len(machine.mmap)
  BY MachineTypes DEF BootTypes, E820Types
<1>3. \A k \in 1 .. Len(mmap) :
        mmap[k] = IF k < l THEN Normal(machine.mmap[k]) ELSE machine.mmap[k]
  BY DEF SortInv
<1>4. \A k \in 1 .. Len(mmap) : /\ machine.mmap[k] \in Region /\ machine.mmap[k].base \in Nat
                                /\ mmap[k].base = machine.mmap[k].base
  <2> SUFFICES ASSUME NEW k \in 1 .. Len(mmap)
               PROVE  /\ machine.mmap[k] \in Region /\ machine.mmap[k].base \in Nat
                      /\ mmap[k].base = machine.mmap[k].base
    OBVIOUS
  <2>1. machine.mmap[k] \in Region
    BY <1>2, ElementOfSeq
  <2>2. machine.mmap[k].base \in Nat
    BY <2>1 DEF Region
  <2> QED BY <1>3, <2>1, <2>2, NormalFacts
<1>5. /\ \A p \in 1 .. l - 1 : mmap_list[p] \in 1 .. l - 1
      /\ \A p, q \in 1 .. l - 1 : mmap_list[p] = mmap_list[q] => p = q
      /\ \A k \in 1 .. l - 1 : \E p \in 1 .. l - 1 : mmap_list[p] = k
      /\ \A p, q \in 1 .. l - 1 : p < q => B[mmap_list[p]] <= B[mmap_list[q]]
  <2>1. Listed(l - 1)
    BY DEF SortInv
  <2>2. \A p \in 1 .. l - 1 : mmap_list[p] \in 1 .. l - 1
    BY <2>1 DEF Listed
  <2>3. \A p \in 1 .. l - 1 : B[mmap_list[p]] = Orig(p).base
    <3> SUFFICES ASSUME NEW p \in 1 .. l - 1 PROVE B[mmap_list[p]] = Orig(p).base
      OBVIOUS
    <3>1. mmap_list[p] \in 1 .. l
      BY <2>2
    <3> QED BY <3>1 DEF Orig
  <2> HIDE DEF B
  <2> QED BY <2>1, <2>2, <2>3 DEF Listed
<1>6. /\ \A k \in above : k \in 1 .. l - 1
      /\ \A k \in 1 .. l - 1 : k \in above <=> B[mmap_list[k]] > B[l]
  <2>1. \A k \in above : k \in 1 .. l - 1
    BY <1>2 DEF above
  <2>2. ASSUME NEW k \in 1 .. l - 1
        PROVE  k \in above <=> B[mmap_list[k]] > B[l]
    <3>1. mmap_list[k] \in 1 .. l /\ mmap_list[k] \in 1 .. Len(mmap) /\ l \in 1 .. l
      <4> HIDE DEF B
      <4>1. mmap_list[k] \in 1 .. l - 1
        BY <1>5
      <4> QED BY <4>1, <1>2
    <3>2. mmap[mmap_list[k]].base = B[mmap_list[k]] /\ mmap[l].base = B[l]
      BY <3>1, <1>2, <1>4
    <3>3. k \in above <=> mmap[mmap_list[k]].base > mmap[l].base
      BY <1>2 DEF above
    <3> HIDE DEF B
    <3> QED BY <3>2, <3>3
  <2> QED BY <2>1, <2>2
<1>7. /\ j \in 1 .. l /\ (j # l => j \in above)
      /\ \A k \in above : j <= k
  <2>1. above \cup {loop} \in SUBSET Nat /\ above \cup {loop} # {}
    BY <1>2, <1>6
  <2>2. j \in above \cup {loop} /\ \A k \in above \cup {loop} : j <= k
    BY <2>1, LeastNat
  <2> HIDE DEF j
  <2> QED BY <2>2, <1>2, <1>6
<1> HIDE DEF j, B
<1>8. \A k \in 1 .. l : B[k] \in Nat
  BY <1>2, <1>4 DEF B
<1>9. j # l => B[mmap_list[j]] > B[l]
  <2>1. ASSUME j # l PROVE j \in above /\ j \in 1 .. l - 1
    BY <2>1, <1>7, <1>6
  <2> QED BY <2>1, <1>6
<1>10. \A p \in 1 .. l - 1 : p < j => B[mmap_list[p]] <= B[l]
  <2> SUFFICES ASSUME NEW p \in 1 .. l - 1, p < j PROVE B[mmap_list[p]] <= B[l]
    OBVIOUS
  <2>1. p \notin above
    BY <1>7
  <2>2. ~ (B[mmap_list[p]] > B[l]) /\ mmap_list[p] \in 1 .. l /\ l \in 1 .. l
    <3>1. ~ (B[mmap_list[p]] > B[l])
      <4> HIDE DEF B
      <4> QED BY <2>1, <1>6
    <3>2. mmap_list[p] \in 1 .. l - 1
      BY <1>5
    <3> QED BY <3>1, <3>2, <1>2
  <2>3. B[mmap_list[p]] \in Nat /\ B[l] \in Nat
    BY <2>2, <1>8
  <2> HIDE DEF B
  <2> QED BY <2>2, <2>3
<1>11. \A k \in 1 .. l : mmap_list'[k] = IF k < j THEN mmap_list[k]
                                     ELSE IF k = j THEN l ELSE mmap_list[k - 1]
  BY <1>1
<1>12. SortedList(mmap_list', B, l)
  <2>1. l > 0 /\ j \in 1 .. l
    BY <1>2, <1>7
  <2>2. SortedList(mmap_list, B, l - 1)
    BY <1>5 DEF SortedList
  <2>3. InsertedAt(mmap_list, mmap_list', B, l, j)
    BY <1>8, <1>9, <1>10, <1>11 DEF InsertedAt
  <2> QED BY <2>1, <2>2, <2>3, Inserted
<1>13. Listed(l)'
  <2>1. \A p \in 1 .. l : mmap_list'[p] \in 1 .. l
    BY <1>12 DEF SortedList
  <2>2. \A p \in 1 .. l : B[mmap_list'[p]] = machine'.mmap[mmap_list'[p]].base
    BY <2>1, <1>1 DEF B
  <2> QED BY <2>1, <2>2, <1>12 DEF Listed, Orig, SortedList
<1>14. ASSUME NEW k \in 1 .. Len(mmap')
       PROVE  mmap'[k] = IF k < l + 1 THEN Normal(machine.mmap[k]) ELSE machine.mmap[k]
  <2>1. k \in 1 .. Len(mmap) /\ l \in DOMAIN mmap
    BY <1>1, <1>2
  <2>2. CASE k = l
    <3>1. mmap'[l] = [mmap[l] EXCEPT !.type = IF @ \in 1 .. 5 THEN @ ELSE Reserved]
      BY <2>1, <1>1
    <3>2. mmap[l] = machine.mmap[l]
      BY <1>2, <1>3
    <3> QED BY <2>2, <3>1, <3>2 DEF Normal
  <2>3. CASE k # l
    <3>1. mmap'[k] = mmap[k]
      BY <2>1, <2>3, <1>1
    <3> QED BY <2>1, <2>3, <3>1, <1>3
  <2> QED BY <2>2, <2>3
<1> QED BY <1>1, <1>13, <1>14

(* All other steps are not about the memory map. *)
LEMMA OtherSteps ==
  ASSUME Next, ~ (i386_detect_memory \/ insert_region \/ sanitize_region \/ add_region)
  PROVE  stage' \notin {"insert", "sanitize", "sum"} /\ machine' = machine /\ UNCHANGED e820
<1>1. CASE bootmain \/ load_segment \/ count_pages \/ boot_arrays \/ page_init
  BY <1>1 DEF bootmain, load_segment, count_pages, boot_arrays, page_init, Round, Done
<1>2. CASE x64_vm_init \/ map_stack \/ take_tables \/ reorder_page
  BY <1>2 DEF x64_vm_init, map_stack, take_tables, reorder_page, Round
<1>3. CASE SelfTest
  BY <1>3, SelfTestSteps
<1>4. CASE mp_init \/ mp_entry \/ bsp_lapic_init \/ ap_lapic_init
  BY <1>4 DEF mp_init, mp_entry, bsp_lapic_init, ap_lapic_init, Round, Done
<1> QED BY <1>1, <1>2, <1>3, <1>4 DEF Next, SelfTest

(* multiboot_read() sorts the regions by their bases, and the rest of it keeps
   the order.                                                              *)
LEMMA SortStep ==
  ASSUME BootTypes, SortInv, [Next]_vars
  PROVE  SortInv'
<1>1. CASE i386_detect_memory
  <2>1. /\ stage = "kernel" /\ stage' \in {"insert", "sized"} /\ loop' = 1 /\ machine' = machine
        /\ UNCHANGED <<mmap, mmap_list>>
    BY <1>1 DEF i386_detect_memory
  <2>2. mmap = machine.mmap /\ \A k \in 1 .. Len(mmap) : ~ (k < 1)
    BY <2>1 DEF BootTypes, E820Types, Early
  <2>3. \A p \in 1 .. loop' - 1 : FALSE
    BY <2>1
  <2>4. Listed(loop - 1)'
    BY <2>3 DEF Listed
  <2> QED BY <2>1, <2>2, <2>4 DEF SortInv
<1>2. CASE insert_region
  <2>1. stage = "insert" /\ loop \in Nat /\ Len(mmap) \in Nat
    BY <1>2 DEF insert_region, Round, Done, BootTypes, E820Types
  <2>0. CASE stage' = "corrupt"
    BY <2>0 DEF SortInv
  <2>2. CASE loop <= Len(mmap) /\ stage' # "corrupt"
    <3>1. PICK l \in Nat : l = loop
      BY <2>1
    <3>2. /\ machine' = machine /\ stage' = "insert" /\ loop' = l + 1 /\ Listed(l)'
          /\ \A k \in 1 .. Len(mmap') :
               mmap'[k] = IF k < l + 1 THEN Normal(machine.mmap[k]) ELSE machine.mmap[k]
      BY <1>2, <2>1, <2>2, <3>1, SortRound
    <3>3. loop' - 1 = l
      BY <3>2
    <3>4. Listed(loop - 1)'
      BY <3>2, <3>3
    <3> QED BY <3>2, <3>4 DEF SortInv
  <2>3. CASE ~ (loop <= Len(mmap))
    <3>1. /\ stage' = "sanitize" /\ machine' = machine /\ UNCHANGED <<mmap_list, mmap>>
      BY <1>2, <2>1, <2>3 DEF insert_region, Round, Done
    <3>2. loop - 1 = Len(mmap)
      BY <2>1, <2>3 DEF BootTypes, E820Types
    <3>3. Listed(Len(mmap))
      BY <2>1, <3>2 DEF SortInv
    <3>4. Listed(Len(mmap))'
      BY <3>1, <3>3 DEF Listed, Orig
    <3> QED BY <3>1, <3>4 DEF SortInv
  <2> QED BY <2>0, <2>2, <2>3
<1>3. CASE sanitize_region \/ add_region
  <2>1. /\ stage \in {"sanitize", "sum"} /\ stage' \in {"sanitize", "sum", "sized"}
        /\ machine' = machine /\ mmap_list' = mmap_list
    BY <1>3 DEF sanitize_region, add_region, Round, Done
  <2>2. Len(mmap') = Len(mmap)
    <3>1. BootTypes'
      BY <1>3, TypesMemory
    <3> QED BY <2>1, <3>1 DEF BootTypes, E820Types
  <2>3. Listed(Len(mmap))'
    BY <2>1, <2>2 DEF SortInv, Listed, Orig
  <2> QED BY <2>1, <2>3 DEF SortInv
<1>4. CASE UNCHANGED vars
  <2>1. UNCHANGED <<machine, stage, loop, mmap, mmap_list>>
    BY <1>4 DEF vars, e820
  <2> QED BY <2>1 DEF SortInv, Listed, Orig
<1>5. CASE Next /\ ~ (i386_detect_memory \/ insert_region \/ sanitize_region \/ add_region)
  <2>1. stage' \notin {"insert", "sanitize", "sum"}
    BY <1>5, OtherSteps
  <2> QED BY <2>1 DEF SortInv
<1> QED BY <1>1, <1>2, <1>3, <1>4, <1>5

(* Regions at places of the list. *)
LEMMA PlaceTypes ==
  ASSUME BootTypes, stage \in {"sanitize", "sum"}
  PROVE  /\ Len(mmap) \in Nat /\ Len(mmap) = Len(machine.mmap) /\ Len(mmap_list) = Len(mmap)
         /\ \A q \in 1 .. Len(mmap) :
              /\ mmap_list[q] \in 1 .. Len(mmap)
              /\ Orig(q) \in Region /\ Cur(q) \in Region
<1>1. /\ mmap \in Seq(Region) /\ machine.mmap \in Seq(Region) /\ Len(mmap) = Len(machine.mmap)
      /\ mmap_list \in Seq(1 .. Len(mmap)) /\ Len(mmap_list) = Len(mmap)
  BY MachineTypes DEF BootTypes, E820Types
<1>2. ASSUME NEW q \in 1 .. Len(mmap)
      PROVE  mmap_list[q] \in 1 .. Len(mmap) /\ Orig(q) \in Region /\ Cur(q) \in Region
  <2>1. mmap_list[q] \in 1 .. Len(mmap)
    BY <1>1, ElementOfSeq
  <2> QED BY <1>1, <2>1, ElementOfSeq DEF Orig, Cur
<1> QED BY <1>1, <1>2

(* The more restrictive of two types is usable only if both are. *)
LEMMA RestrictiveFacts ==
  ASSUME NEW t \in 1 .. 5, NEW u \in 1 .. 5
  PROVE  /\ restrictive_type(t, u) \in 1 .. 5
         /\ restrictive_type(t, u) \in {Usable, Reclaimable} =>
              t \in {Usable, Reclaimable} /\ u \in {Usable, Reclaimable}
<1>1. t \in Int /\ u \in Int /\ t \in {1, 2, 3, 4, 5} /\ u \in {1, 2, 3, 4, 5}
  OBVIOUS
<1>2. CASE t = 5 \/ u = 5
  <2>1. 5 \in {t, u} /\ ~ ({t, u} \subseteq {1, 3})
    BY <1>2
  <2>2. ~ ({t, u} \cap {4, 5} = {})
    BY <1>2
  <2>3. restrictive_type(t, u) = 5
    BY <2>1, <2>2 DEF restrictive_type
  <2> QED BY <2>3 DEF Usable, Reclaimable
<1>3. CASE t # 5 /\ u # 5 /\ (t = 4 \/ u = 4)
  <2>1. 4 \in {t, u} /\ ~ (5 \in {t, u}) /\ ~ ({t, u} \subseteq {1, 3})
    BY <1>3
  <2>2. ~ ({t, u} \cap {4, 5} = {})
    BY <1>3
  <2>3. restrictive_type(t, u) = 4
    BY <2>1, <2>2 DEF restrictive_type
  <2> QED BY <2>3 DEF Usable, Reclaimable
<1>4. CASE t \in {1, 2, 3} /\ u \in {1, 2, 3} /\ (t = 2 \/ u = 2)
  <2>1. restrictive_type(t, u) = 2
    BY <1>4 DEF restrictive_type
  <2> QED BY <2>1 DEF Usable, Reclaimable
<1>5. CASE t \in {1, 3} /\ u \in {1, 3}
  <2>1. restrictive_type(t, u) \in {1, 3}
    BY <1>5 DEF restrictive_type
  <2> QED BY <1>5, <2>1 DEF Usable, Reclaimable
<1> QED BY <1>1, <1>2, <1>3, <1>4, <1>5

(* In a regular map two regions that share a byte are next to each other in the
   list if one of them is usable, and not both are.                        *)
LEMMA Adjacent ==
  ASSUME BootTypes, SortInv, Regular, stage \in {"sanitize", "sum"},
         NEW p \in 1 .. Len(mmap), NEW q \in 1 .. Len(mmap), p < q, NEW a \in Nat,
         InRegion(a, Orig(p)), InRegion(a, Orig(q))
  PROVE  /\ ~ (IsUsable(Orig(p)) /\ IsUsable(Orig(q)))
         /\ IsUsable(Orig(p)) \/ IsUsable(Orig(q)) => q = p + 1
<1> DEFINE i == mmap_list[p]
           j == mmap_list[q]
           k == mmap_list[p + 1]
<1>1. Listed(Len(mmap)) /\ Len(mmap) \in Nat /\ DOMAIN machine.mmap = 1 .. Len(mmap)
  BY PlaceTypes, MachineTypes DEF SortInv, BootTypes
<1>2. i \in DOMAIN machine.mmap /\ j \in DOMAIN machine.mmap /\ i # j
  <2>1. i \in DOMAIN machine.mmap /\ j \in DOMAIN machine.mmap
    BY <1>1, PlaceTypes
  <2>2. \A x, y \in 1 .. Len(mmap) : mmap_list[x] = mmap_list[y] => x = y
    BY <1>1 DEF Listed
  <2>3. p # q
    BY <1>1
  <2> QED BY <2>1, <2>2, <2>3
<1>3. Orig(p) \in Region /\ Orig(q) \in Region
  BY PlaceTypes
<1>4. Overlap(Orig(p), Orig(q))
  <2>1. /\ Orig(p).base \in Nat /\ Orig(p).len \in Nat
        /\ Orig(q).base \in Nat /\ Orig(q).len \in Nat
    BY <1>3 DEF Region
  <2> QED BY <2>1 DEF Overlap, InRegion
<1>5. Orig(p) = machine.mmap[i] /\ Orig(q) = machine.mmap[j]
  BY DEF Orig
<1> HIDE DEF i, j
<1>6. /\ ~ (IsUsable(Orig(p)) /\ IsUsable(Orig(q)))
      /\ IsUsable(Orig(p)) \/ IsUsable(Orig(q)) => Neighbours(i, j)
  BY <1>2, <1>4, <1>5 DEF Regular, Map
<1>7. ASSUME Neighbours(i, j) PROVE q = p + 1
  <2> SUFFICES ASSUME p + 1 < q PROVE FALSE
    OBVIOUS
  <2>1. p + 1 \in 1 .. Len(mmap) /\ p < p + 1
    BY <1>1
  <2>2. k \in DOMAIN machine.mmap /\ k # i /\ k # j
    BY <2>1, <1>1, PlaceTypes DEF Listed, i, j
  <2>3. Orig(p).base <= Orig(p + 1).base /\ Orig(p + 1).base <= Orig(q).base
    BY <2>1, <1>1 DEF Listed
  <2>4. Orig(p + 1) = machine.mmap[k] /\ Orig(p + 1) \in Region
    BY <2>1, PlaceTypes DEF Orig
  <2> HIDE DEF k
  <2>5. \/ machine.mmap[k].base < machine.mmap[i].base
        \/ machine.mmap[k].base > machine.mmap[j].base
    BY <1>7, <2>2 DEF Neighbours, Map
  <2>6. /\ Orig(p).base \in Nat /\ Orig(p + 1).base \in Nat /\ Orig(q).base \in Nat
    BY <1>3, <2>4 DEF Region
  <2> QED BY <2>3, <2>4, <2>5, <2>6, <1>5
<1> QED BY <1>6, <1>7

(* One comparison of neighbours: m is the place of the second, and all other
   regions stay as they are.                                               *)
Merges(m) ==
  /\ EndOf(Cur(m - 1)) = Cur(m).base /\ Cur(m - 1).type = Cur(m).type
  /\ Cur(m - 1)' = Cur(m - 1) /\ merged' = merged \cup {m - 1}
  /\ Cur(m)' = [base |-> Cur(m - 1).base, len |-> Cur(m - 1).len + Cur(m).len,
                type |-> Cur(m).type]
Restricts(m) ==
  LET type == restrictive_type(Cur(m - 1).type, Cur(m).type) IN
  /\ EndOf(Cur(m - 1)) > Cur(m).base /\ merged' = merged
  /\ Cur(m - 1)' = [Cur(m - 1) EXCEPT !.type = type]
  /\ Cur(m)' = [Cur(m) EXCEPT !.type = type]
Leaves(m) ==
  /\ EndOf(Cur(m - 1)) <= Cur(m).base /\ merged' = merged
  /\ Cur(m - 1)' = Cur(m - 1) /\ Cur(m)' = Cur(m)

(* sanitize_region is one such comparison. *)
LEMMA SanitizeRound ==
  ASSUME BootTypes, SortInv, stage = "sanitize", NEW m \in Nat, m = loop, m <= Len(mmap),
         sanitize_region
  PROVE  /\ machine' = machine /\ stage' = "sanitize" /\ loop' = m + 1 /\ mmap_list' = mmap_list
         /\ Len(mmap') = Len(mmap) /\ m - 1 \in 1 .. Len(mmap) /\ m \in 1 .. Len(mmap)
         /\ Merges(m) \/ Restricts(m) \/ Leaves(m)
         /\ \A q \in 1 .. Len(mmap) : q # m - 1 /\ q # m => Cur(q)' = Cur(q)
<1> DEFINE p == mmap_list[m - 1]
           t == mmap_list[m]
           type == restrictive_type(mmap[p].type, mmap[t].type)
<1>1. /\ machine' = machine /\ stage' = "sanitize" /\ loop' = m + 1 /\ mmap_list' = mmap_list
      /\ \/ /\ EndOf(mmap[p]) = mmap[t].base /\ mmap[p].type = mmap[t].type
            /\ mmap' = [mmap EXCEPT ![t].base = mmap[p].base, ![t].len = mmap[p].len + @]
            /\ merged' = merged \cup {m - 1}
         \/ /\ EndOf(mmap[p]) > mmap[t].base
            /\ mmap' = [mmap EXCEPT ![p].type = type, ![t].type = type]
            /\ UNCHANGED merged
         \/ /\ EndOf(mmap[p]) <= mmap[t].base /\ UNCHANGED <<mmap, merged>>
  <2>1. /\ machine' = machine /\ stage' = "sanitize" /\ loop' = m + 1 /\ mmap_list' = mmap_list
        /\ \/ /\ mmap[p].base + mmap[p].len = mmap[t].base /\ mmap[p].type = mmap[t].type
              /\ mmap' = [mmap EXCEPT ![t].base = mmap[p].base, ![t].len = mmap[p].len + @]
              /\ merged' = merged \cup {m - 1}
           \/ /\ mmap[p].base + mmap[p].len > mmap[t].base
              /\ mmap' = [mmap EXCEPT ![p].type = type, ![t].type = type]
              /\ UNCHANGED merged
           \/ /\ mmap[p].base + mmap[p].len <= mmap[t].base /\ UNCHANGED <<mmap, merged>>
    <3>1. m \in Nat /\ Len(mmap) \in Nat /\ ~ (m > Len(mmap))
      BY DEF BootTypes, E820Types
    <3>2. ~ Done("sanitize", Len(mmap), "sum", 1)
      BY <3>1 DEF Done
    <3> QED BY <3>2 DEF sanitize_region, Round
  <2> QED BY <2>1 DEF EndOf
<1>2. /\ m - 1 \in 1 .. Len(mmap) /\ m \in 1 .. Len(mmap) /\ m - 1 # m
  BY DEF BootTypes, E820Types
<1>3. /\ \A q \in 1 .. Len(mmap) : mmap_list[q] \in 1 .. Len(mmap)
      /\ \A x, y \in 1 .. Len(mmap) : mmap_list[x] = mmap_list[y] => x = y
      /\ DOMAIN mmap = 1 .. Len(mmap)
  <2>1. \A q \in 1 .. Len(mmap) : mmap_list[q] \in 1 .. Len(mmap)
    BY PlaceTypes
  <2>2. \A x, y \in 1 .. Len(mmap) : mmap_list[x] = mmap_list[y] => x = y
    BY DEF SortInv, Listed
  <2>3. DOMAIN mmap = 1 .. Len(mmap)
    BY DEF BootTypes, E820Types
  <2> QED BY <2>1, <2>2, <2>3
<1>4. p \in DOMAIN mmap /\ t \in DOMAIN mmap /\ p # t
  BY <1>2, <1>3
<1>5. mmap[p] = Cur(m - 1) /\ mmap[t] = Cur(m) /\ mmap'[p] = Cur(m - 1)' /\ mmap'[t] = Cur(m)'
  BY <1>1 DEF Cur
<1>6. Cur(m) \in Region /\ Cur(m - 1) \in Region
  BY <1>2, PlaceTypes
<1>7. \A q \in 1 .. Len(mmap) : q # m - 1 /\ q # m => mmap_list[q] # p /\ mmap_list[q] # t
  BY <1>2, <1>3
<1> HIDE DEF p, t, type
<1>8. \A k \in DOMAIN mmap : k # p /\ k # t => mmap'[k] = mmap[k]
  BY <1>1, <1>4
<1>9. \A q \in 1 .. Len(mmap) : q # m - 1 /\ q # m => Cur(q)' = Cur(q)
  <2> SUFFICES ASSUME NEW q \in 1 .. Len(mmap), q # m - 1, q # m PROVE Cur(q)' = Cur(q)
    OBVIOUS
  <2>1. mmap_list[q] \in DOMAIN mmap /\ mmap_list[q] # p /\ mmap_list[q] # t
    BY <1>3, <1>7
  <2>2. mmap'[mmap_list[q]] = mmap[mmap_list[q]]
    BY <2>1, <1>8
  <2> QED BY <2>2, <1>1 DEF Cur
<1>10. Merges(m) \/ Restricts(m) \/ Leaves(m)
  <2>1. CASE /\ EndOf(mmap[p]) = mmap[t].base /\ mmap[p].type = mmap[t].type
             /\ mmap' = [mmap EXCEPT ![t].base = mmap[p].base, ![t].len = mmap[p].len + @]
             /\ merged' = merged \cup {m - 1}
    <3>1. mmap'[p] = mmap[p]
          /\ mmap'[t] = [mmap[t] EXCEPT !.base = mmap[p].base, !.len = mmap[p].len + mmap[t].len]
      BY <2>1, <1>4
    <3>2. mmap'[t] = [base |-> mmap[p].base, len |-> mmap[p].len + mmap[t].len, type |-> mmap[t].type]
      BY <3>1, <1>5, <1>6 DEF Region
    <3> QED BY <2>1, <3>1, <3>2, <1>5 DEF Merges
  <2>2. CASE /\ EndOf(mmap[p]) > mmap[t].base
             /\ mmap' = [mmap EXCEPT ![p].type = type, ![t].type = type]
             /\ UNCHANGED merged
    <3>1. /\ mmap'[p] = [mmap[p] EXCEPT !.type = type]
          /\ mmap'[t] = [mmap[t] EXCEPT !.type = type]
      BY <2>2, <1>4
    <3> QED BY <2>2, <3>1, <1>5 DEF Restricts, type
  <2>3. CASE EndOf(mmap[p]) <= mmap[t].base /\ UNCHANGED <<mmap, merged>>
    BY <2>3, <1>5 DEF Leaves
  <2> QED BY <1>1, <2>1, <2>2, <2>3
<1>11. Len(mmap') = Len(mmap)
  <2>1. BootTypes'
    BY TypesMemory
  <2> QED BY <1>1, <2>1 DEF BootTypes, E820Types
<1> QED BY <1>1, <1>2, <1>9, <1>10, <1>11

(* The comparison keeps the shape of the regions ... *)
LEMMA ShapeRound ==
  ASSUME BootTypes, SortInv, stage = "sanitize", NEW m \in Nat, m = loop, m <= Len(mmap),
         sanitize_region, Shape(m)
  PROVE  Shape(m + 1)'
<1>1. /\ machine' = machine /\ mmap_list' = mmap_list /\ Len(mmap') = Len(mmap)
      /\ m - 1 \in 1 .. Len(mmap) /\ m \in 1 .. Len(mmap)
      /\ Merges(m) \/ Restricts(m) \/ Leaves(m)
      /\ \A q \in 1 .. Len(mmap) : q # m - 1 /\ q # m => Cur(q)' = Cur(q)
  BY SanitizeRound
<1>2. \A q \in 1 .. Len(mmap) : Orig(q)' = Orig(q) /\ Orig(q) \in Region /\ Cur(q) \in Region
  BY <1>1, PlaceTypes DEF Orig
<1>3. merged' \subseteq 1 .. (m + 1) - 2
  BY <1>1 DEF Shape, Merges, Restricts, Leaves
<1>4. /\ EndOf(Cur(m - 1)) = EndOf(Orig(m - 1)) /\ Cur(m - 1).base <= Orig(m - 1).base
      /\ Cur(m - 1).type \in 1 .. 5 /\ (IsUsable(Cur(m - 1)) => IsUsable(Orig(m - 1)))
      /\ EndOf(Cur(m)) = EndOf(Orig(m)) /\ Cur(m).base <= Orig(m).base
      /\ Cur(m).type \in 1 .. 5 /\ (IsUsable(Cur(m)) => IsUsable(Orig(m)))
  BY <1>1 DEF Shape
<1> DEFINE type == restrictive_type(Cur(m - 1).type, Cur(m).type)
<1>5. type \in 1 .. 5 /\ (type \in {Usable, Reclaimable} => IsUsable(Cur(m - 1)) /\ IsUsable(Cur(m)))
  BY <1>4, RestrictiveFacts DEF IsUsable
<1> HIDE DEF type
<1>6. /\ EndOf(Cur(m - 1)') = EndOf(Orig(m - 1)) /\ Cur(m - 1)'.base <= Orig(m - 1).base
      /\ Cur(m - 1)'.type \in 1 .. 5 /\ (IsUsable(Cur(m - 1)') => IsUsable(Orig(m - 1)))
  <2>1. CASE Restricts(m)
    <3>1. Cur(m - 1)' = [Cur(m - 1) EXCEPT !.type = type]
      BY <2>1 DEF Restricts, type
    <3>2. /\ Cur(m - 1)'.base = Cur(m - 1).base /\ Cur(m - 1)'.len = Cur(m - 1).len
          /\ Cur(m - 1)'.type = type
      BY <3>1, <1>1, <1>2 DEF Region
    <3> QED BY <3>2, <1>4, <1>5 DEF EndOf, IsUsable
  <2>2. CASE Merges(m) \/ Leaves(m)
    <3>1. Cur(m - 1)' = Cur(m - 1)
      BY <2>2 DEF Merges, Leaves
    <3> QED BY <3>1, <1>4
  <2> QED BY <1>1, <2>1, <2>2
<1>7. /\ EndOf(Cur(m)') = EndOf(Orig(m)) /\ Cur(m)'.base <= Orig(m).base
      /\ Cur(m)'.type \in 1 .. 5 /\ (IsUsable(Cur(m)') => IsUsable(Orig(m)))
  <2>1. CASE Restricts(m)
    <3>1. Cur(m)' = [Cur(m) EXCEPT !.type = type]
      BY <2>1 DEF Restricts, type
    <3>2. /\ Cur(m)'.base = Cur(m).base /\ Cur(m)'.len = Cur(m).len
          /\ Cur(m)'.type = type
      BY <3>1, <1>1, <1>2 DEF Region
    <3> QED BY <3>2, <1>4, <1>5 DEF EndOf, IsUsable
  <2>2. CASE Leaves(m)
    <3>1. Cur(m)' = Cur(m)
      BY <2>2 DEF Leaves
    <3> QED BY <3>1, <1>4
  <2>3. CASE Merges(m)
    <3>1. /\ EndOf(Cur(m - 1)) = Cur(m).base /\ Cur(m) \in Region /\ Cur(m - 1) \in Region
          /\ Cur(m)' = [base |-> Cur(m - 1).base, len |-> Cur(m - 1).len + Cur(m).len,
                        type |-> Cur(m).type]
      BY <2>3, <1>1, <1>2 DEF Merges
    <3>2. /\ EndOf(Cur(m)') = EndOf(Cur(m)) /\ Cur(m)'.base <= Cur(m).base
          /\ Cur(m)'.base = Cur(m - 1).base /\ Cur(m)'.type = Cur(m).type
      BY <3>1, JoinedFacts
    <3>3. /\ Cur(m).base \in Nat /\ Orig(m).base \in Nat /\ Cur(m - 1).base \in Nat
      BY <1>1, <1>2, ExtentFacts
    <3>4. Cur(m)'.base <= Orig(m).base
      BY <3>2, <3>3, <1>4
    <3> QED BY <3>2, <3>4, <1>4 DEF IsUsable
  <2> QED BY <1>1, <2>1, <2>2, <2>3
<1>8. ASSUME NEW q \in 1 .. Len(mmap)
      PROVE  /\ EndOf(Cur(q)') = EndOf(Orig(q)) /\ Cur(q)'.base <= Orig(q).base
             /\ Cur(q)'.type \in 1 .. 5 /\ (IsUsable(Cur(q)') => IsUsable(Orig(q)))
             /\ q >= m + 1 => Cur(q)' = Normal(Orig(q))
  <2>1. CASE q = m - 1
    BY <2>1, <1>1, <1>6
  <2>2. CASE q = m
    BY <2>2, <1>1, <1>7
  <2>3. CASE q # m - 1 /\ q # m
    <3>1. Cur(q)' = Cur(q) /\ (q >= m + 1 => q >= m)
      BY <2>3, <1>1
    <3> QED BY <3>1 DEF Shape
  <2> QED BY <2>1, <2>2, <2>3
<1>9. \A q \in 1 .. Len(mmap) :
        /\ EndOf(Cur(q)') = EndOf(Orig(q)') /\ Cur(q)'.base <= Orig(q)'.base
        /\ Cur(q)'.type \in 1 .. 5 /\ (IsUsable(Cur(q)') => IsUsable(Orig(q)'))
        /\ q >= m + 1 => Cur(q)' = Normal(Orig(q)')
  BY <1>8, <1>2
<1> QED BY <1>1, <1>3, <1>9 DEF Shape, EndOf, IsUsable, Normal

(* ... and, in a regular map, that usable bytes are usable in every region. *)
LEMMA PureRound ==
  ASSUME BootTypes, SortInv, Regular, stage = "sanitize", NEW m \in Nat, m = loop, m <= Len(mmap),
         sanitize_region, Shape(m), Pure(m)
  PROVE  Pure(m + 1)'
<1>1. /\ machine' = machine /\ mmap_list' = mmap_list /\ Len(mmap') = Len(mmap)
      /\ m - 1 \in 1 .. Len(mmap) /\ m \in 1 .. Len(mmap)
      /\ Merges(m) \/ Restricts(m) \/ Leaves(m)
      /\ \A q \in 1 .. Len(mmap) : q # m - 1 /\ q # m => Cur(q)' = Cur(q)
  BY SanitizeRound
<1>2. \A q \in 1 .. Len(mmap) : Orig(q)' = Orig(q) /\ Orig(q) \in Region /\ Cur(q) \in Region
  BY <1>1, PlaceTypes DEF Orig
<1>3. \A q \in 1 .. m : q \in 1 .. Len(mmap)
  BY <1>1
<1>4. /\ merged \subseteq merged' /\ m \notin merged /\ m - 1 \notin merged
      /\ \A r \in merged : r <= m - 2
  BY <1>1 DEF Shape, Merges, Restricts, Leaves
<1>5. /\ EndOf(Cur(m - 1)) = EndOf(Orig(m - 1)) /\ EndOf(Cur(m)) = EndOf(Orig(m))
      /\ Cur(m) = Normal(Orig(m)) /\ Cur(m - 1).type \in 1 .. 5 /\ Cur(m).type \in 1 .. 5
      /\ IsUsable(Cur(m - 1)) => IsUsable(Orig(m - 1))
  BY <1>1 DEF Shape
<1>6. Cur(m).base = Orig(m).base /\ Cur(m).len = Orig(m).len /\ (IsUsable(Cur(m)) <=> IsUsable(Orig(m)))
  BY <1>1, <1>2, <1>5, NormalFacts
<1> DEFINE type == restrictive_type(Cur(m - 1).type, Cur(m).type)
<1>7. type \in {Usable, Reclaimable} => IsUsable(Cur(m - 1)) /\ IsUsable(Cur(m))
  BY <1>5, RestrictiveFacts DEF IsUsable
<1> HIDE DEF type
<1>8. /\ Restricts(m) => /\ EndOf(Cur(m - 1)) > Cur(m).base /\ merged' = merged
                         /\ Cur(m - 1)'.base = Cur(m - 1).base /\ Cur(m - 1)'.len = Cur(m - 1).len
                         /\ Cur(m)'.base = Cur(m).base /\ Cur(m)'.len = Cur(m).len
                         /\ Cur(m - 1)'.type = type /\ Cur(m)'.type = type
      /\ Leaves(m) => EndOf(Cur(m - 1)) <= Cur(m).base /\ Cur(m - 1)' = Cur(m - 1)
                      /\ Cur(m)' = Cur(m) /\ merged' = merged
      /\ Merges(m) => /\ EndOf(Cur(m - 1)) = Cur(m).base /\ Cur(m - 1).type = Cur(m).type
                      /\ merged' = merged \cup {m - 1}
                      /\ Cur(m)'.base = Cur(m - 1).base /\ Cur(m)'.len = Cur(m - 1).len + Cur(m).len
                      /\ Cur(m)'.type = Cur(m).type
  <2>1. Cur(m) \in Region /\ Cur(m - 1) \in Region
    BY <1>1, <1>2
  <2>2. CASE Restricts(m)
    <3>1. Cur(m - 1)' = [Cur(m - 1) EXCEPT !.type = type] /\ Cur(m)' = [Cur(m) EXCEPT !.type = type]
      BY <2>2 DEF Restricts, type
    <3>2. /\ Cur(m - 1)'.base = Cur(m - 1).base /\ Cur(m - 1)'.len = Cur(m - 1).len
          /\ Cur(m)'.base = Cur(m).base /\ Cur(m)'.len = Cur(m).len
          /\ Cur(m - 1)'.type = type /\ Cur(m)'.type = type
      BY <3>1, <2>1 DEF Region
    <3> QED BY <2>2, <3>2, <1>1 DEF Restricts, Leaves, Merges
  <2> QED BY <2>2 DEF Leaves, Merges
<1>9. /\ Cur(m).base \in Nat /\ EndOf(Cur(m)) \in Nat
      /\ Cur(m - 1).base \in Nat /\ EndOf(Cur(m - 1)) \in Nat
      /\ \A a \in Nat : /\ InRegion(a, Orig(m)) <=> Orig(m).base <= a /\ a < EndOf(Orig(m))
                        /\ InRegion(a, Cur(m)) <=> Cur(m).base <= a /\ a < EndOf(Cur(m))
                        /\ InRegion(a, Orig(m - 1)) <=> Orig(m - 1).base <= a /\ a < EndOf(Orig(m - 1))
                        /\ InRegion(a, Cur(m - 1)) <=> Cur(m - 1).base <= a /\ a < EndOf(Cur(m - 1))
  BY <1>1, <1>2, ExtentFacts
<1>10. ASSUME NEW q \in 1 .. m, NEW a \in Nat, q \notin merged', IsUsable(Cur(q)'), InRegion(a, Cur(q)')
       PROVE  /\ \E p \in 1 .. q : /\ \A r \in p .. q - 1 : r \in merged'
                                   /\ IsUsable(Orig(p)) /\ InRegion(a, Orig(p))
              /\ \A p \in 1 .. m : InRegion(a, Orig(p)) => IsUsable(Orig(p))
  <2>1. CASE q < m - 1
    <3>1. q \in 1 .. m - 1 /\ q \in 1 .. Len(mmap) /\ Cur(q)' = Cur(q) /\ q \notin merged
      BY <2>1, <1>1, <1>3, <1>4, <1>10
    <3>2. Covered(a, q) /\ \A p \in 1 .. m - 1 : InRegion(a, Orig(p)) => IsUsable(Orig(p))
      BY <3>1, <1>10 DEF Pure
    <3>3. PICK c \in 1 .. q : /\ \A r \in c .. q - 1 : r \in merged
                              /\ IsUsable(Orig(c)) /\ InRegion(a, Orig(c))
      BY <3>2 DEF Covered
    <3>4. ASSUME InRegion(a, Orig(m)) PROVE IsUsable(Orig(m))
      <4>1. c \in 1 .. Len(mmap) /\ c < m /\ m # c + 1
        BY <2>1, <3>3, <1>3, <1>1
      <4> QED BY <4>1, <3>3, <3>4, <1>1, Adjacent
    <3>5. \A p \in 1 .. m : p \in 1 .. m - 1 \/ p = m
      OBVIOUS
    <3> QED BY <3>2, <3>3, <3>4, <3>5, <1>4
  <2>2. CASE q = m - 1
    <3>1. ~ Merges(m)
      BY <2>2, <1>8, <1>10
    <3>2. /\ merged' = merged /\ IsUsable(Cur(m - 1)) /\ InRegion(a, Cur(m - 1))
          /\ (Restricts(m) /\ IsUsable(Cur(m))) \/ Leaves(m)
      BY <2>2, <3>1, <1>1, <1>7, <1>8, <1>10 DEF IsUsable, InRegion
    <3>3. Covered(a, q) /\ \A p \in 1 .. m - 1 : InRegion(a, Orig(p)) => IsUsable(Orig(p))
      <4>1. m - 1 \in 1 .. m - 1
        BY <1>1
      <4> QED BY <4>1, <2>2, <3>2, <1>4 DEF Pure
    <3>4. ASSUME InRegion(a, Orig(m)) PROVE IsUsable(Orig(m))
      <4>1. ~ Leaves(m)
        BY <3>2, <3>4, <1>6, <1>8, <1>9
      <4> QED BY <4>1, <3>2, <1>6
    <3>5. \A p \in 1 .. m : p \in 1 .. m - 1 \/ p = m
      OBVIOUS
    <3> QED BY <3>2, <3>3, <3>4, <3>5 DEF Covered
  <2>3. CASE q = m /\ InRegion(a, Orig(m))
    <3>1. IsUsable(Orig(m))
      BY <2>3, <1>1, <1>6, <1>7, <1>8, <1>10 DEF IsUsable
    <3>2. ASSUME NEW p \in 1 .. m, InRegion(a, Orig(p)) PROVE IsUsable(Orig(p))
      <4> SUFFICES ASSUME p # m, ~ IsUsable(Orig(p)) PROVE FALSE
        BY <3>1
      <4>1. p \in 1 .. Len(mmap) /\ p < m
        BY <1>3
      <4>2. m = p + 1
        BY <4>1, <3>1, <3>2, <2>3, <1>1, Adjacent
      <4>3. p = m - 1
        BY <4>2
      <4>4. EndOf(Cur(m - 1)) > Cur(m).base
        BY <4>3, <3>2, <2>3, <1>5, <1>6, <1>9
      <4>6. Restricts(m)
        BY <4>4, <1>1, <1>8, <1>9
      <4>7. IsUsable(Cur(m - 1))
        BY <4>6, <2>3, <1>7, <1>8, <1>10 DEF IsUsable
      <4> QED BY <4>3, <4>7, <1>5
    <3>3. \A r \in m .. m - 1 : r \in merged'
      OBVIOUS
    <3>4. m \in 1 .. m
      BY <1>1
    <3> QED BY <2>3, <3>1, <3>2, <3>3, <3>4
  <2>4. CASE q = m /\ ~ InRegion(a, Orig(m))
    <3>1. Merges(m)
      BY <2>4, <1>1, <1>6, <1>8, <1>10 DEF InRegion
    <3>2. InRegion(a, Cur(m - 1)) /\ IsUsable(Cur(m - 1)) /\ merged' = merged \cup {m - 1}
      <4>1. /\ EndOf(Cur(m - 1)) = Cur(m).base /\ Cur(m) \in Region /\ Cur(m - 1) \in Region
            /\ Cur(m)' = [base |-> Cur(m - 1).base, len |-> Cur(m - 1).len + Cur(m).len,
                          type |-> Cur(m).type]
        BY <3>1, <1>1, <1>2 DEF Merges
      <4>2. InRegion(a, Cur(m - 1)) \/ InRegion(a, Cur(m))
        BY <4>1, <2>4, <1>10, JoinedFacts
      <4>3. ~ InRegion(a, Cur(m))
        BY <2>4, <1>6 DEF InRegion
      <4> QED BY <4>2, <4>3, <2>4, <3>1, <1>8, <1>10 DEF IsUsable
    <3>3. Covered(a, m - 1) /\ \A p \in 1 .. m - 1 : InRegion(a, Orig(p)) => IsUsable(Orig(p))
      <4>1. m - 1 \in 1 .. m - 1
        BY <1>1
      <4> QED BY <4>1, <3>2, <1>4 DEF Pure
    <3>4. PICK c \in 1 .. m - 1 : /\ \A r \in c .. (m - 1) - 1 : r \in merged
                                  /\ IsUsable(Orig(c)) /\ InRegion(a, Orig(c))
      BY <3>3 DEF Covered
    <3>5. \A r \in c .. m - 1 : r \in merged'
      <4>1. \A r \in c .. m - 1 : r = m - 1 \/ r \in c .. (m - 1) - 1
        OBVIOUS
      <4> QED BY <4>1, <3>2, <3>4
    <3>6. \A p \in 1 .. m : p \in 1 .. m - 1 \/ p = m
      OBVIOUS
    <3>7. c \in 1 .. m
      OBVIOUS
    <3> QED BY <2>4, <3>3, <3>4, <3>5, <3>6, <3>7
  <2> QED BY <2>1, <2>2, <2>3, <2>4
<1>11. \A q \in 1 .. m : \A p \in 1 .. q : Orig(p)' = Orig(p)
  BY <1>2, <1>3
<1>12. (m + 1) - 1 = m
  OBVIOUS
<1>13. ASSUME NEW q \in 1 .. m, NEW a \in Nat, q \notin merged', IsUsable(Cur(q)'), InRegion(a, Cur(q)')
       PROVE  /\ \E p \in 1 .. q : /\ \A r \in p .. q - 1 : r \in merged'
                                   /\ IsUsable(Orig(p)') /\ InRegion(a, Orig(p)')
              /\ \A p \in 1 .. m : InRegion(a, Orig(p)') => IsUsable(Orig(p)')
  BY <1>10, <1>11, <1>13, <1>2, <1>3
<1> QED BY <1>12, <1>13 DEF Pure, Covered, IsUsable, InRegion

(* Being regular, and what RAM is, depend on the machine alone. *)
LEMMA SameMachine ==
  ASSUME machine' = machine
  PROVE  (Regular' <=> Regular) /\ \A a \in Int : IsRam(a)' <=> IsRam(a)
BY DEF Regular, Map, IsRam, Neighbours

(* Sanitizing starts with the regions in order and each of a known type. *)
LEMMA SaneStart ==
  ASSUME BootTypes, SortInv, stage = "insert", merged = {}, loop > Len(mmap), insert_region
  PROVE  Shape(2)' /\ Pure(2)'
<1>1. /\ stage' = "sanitize" /\ machine' = machine /\ UNCHANGED <<mmap_list, mmap, merged>>
  <2>1. loop \in Nat /\ Len(mmap) \in Nat /\ ~ (loop <= Len(mmap))
    BY DEF BootTypes, E820Types
  <2> QED BY <2>1 DEF insert_region, Round, Done
<1>2. BootTypes' /\ SortInv'
  BY TypesMemory, SortStep DEF Next
<1>3. /\ Len(mmap') \in Nat
      /\ \A q \in 1 .. Len(mmap') : /\ mmap_list'[q] \in 1 .. Len(mmap')
                                    /\ Orig(q)' \in Region /\ Cur(q)' \in Region
  <2>1. /\ mmap' \in Seq(Region) /\ machine'.mmap \in Seq(Region)
        /\ Len(mmap') = Len(machine'.mmap) /\ Len(mmap') \in Nat
        /\ mmap_list' \in Seq(1 .. Len(mmap')) /\ Len(mmap_list') = Len(mmap')
    BY <1>1, <1>2, MachineTypes, SMTT(30) DEF BootTypes, E820Types
  <2>2. ASSUME NEW q \in 1 .. Len(mmap')
        PROVE  mmap_list'[q] \in 1 .. Len(mmap') /\ Orig(q)' \in Region /\ Cur(q)' \in Region
    <3>1. mmap_list'[q] \in 1 .. Len(mmap')
      BY <2>1, ElementOfSeq
    <3> QED BY <2>1, <3>1, ElementOfSeq DEF Orig, Cur
  <2> QED BY <2>1, <2>2
<1>4. \A k \in 1 .. Len(mmap') : mmap'[k] = Normal(machine'.mmap[k])
  <2>1. loop \in Nat /\ Len(mmap) \in Nat
    BY DEF BootTypes, E820Types
  <2>2. \A k \in 1 .. Len(mmap) : k < loop
    BY <2>1
  <2> QED BY <2>2, <1>1 DEF SortInv
<1>5. \A q \in 1 .. Len(mmap') : Cur(q)' = Normal(Orig(q)')
  BY <1>3, <1>4 DEF Cur, Orig
<1>6. \A q \in 1 .. Len(mmap') :
        /\ EndOf(Cur(q)') = EndOf(Orig(q)') /\ Cur(q)'.base = Orig(q)'.base
        /\ Cur(q)'.type \in 1 .. 5 /\ (IsUsable(Cur(q)') => IsUsable(Orig(q)'))
        /\ Orig(q)'.base \in Nat
        /\ \A a \in Nat : InRegion(a, Cur(q)') => InRegion(a, Orig(q)')
  <2> SUFFICES ASSUME NEW q \in 1 .. Len(mmap')
               PROVE  /\ EndOf(Cur(q)') = EndOf(Orig(q)') /\ Cur(q)'.base = Orig(q)'.base
                      /\ Cur(q)'.type \in 1 .. 5 /\ (IsUsable(Cur(q)') => IsUsable(Orig(q)'))
                      /\ Orig(q)'.base \in Nat
                      /\ \A a \in Nat : InRegion(a, Cur(q)') => InRegion(a, Orig(q)')
    OBVIOUS
  <2>1. Orig(q)' \in Region /\ Cur(q)' = Normal(Orig(q)')
    BY <1>3, <1>5
  <2> QED BY <2>1, NormalFacts, ExtentFacts
<1>7. Shape(2)'
  <2>1. \A q \in 1 .. Len(mmap') : Cur(q)'.base <= Orig(q)'.base
    BY <1>6
  <2> QED BY <2>1, <1>1, <1>5, <1>6 DEF Shape, EndOf, IsUsable, Normal
<1>8. Pure(2)'
  <2>0. 1 \in 1 .. Len(mmap')
    <3>1. Len(mmap') > 0
      BY <1>1, <1>2 DEF BootTypes, E820Types
    <3> QED BY <3>1, <1>3
  <2>1. \A q \in 1 .. 2 - 1 : q = 1
    OBVIOUS
  <2>2. ASSUME NEW q \in 1 .. 2 - 1, NEW a \in Nat, IsUsable(Cur(q)'), InRegion(a, Cur(q)')
        PROVE  /\ Covered(a, q)'
               /\ \A p \in 1 .. 2 - 1 : InRegion(a, Orig(p)') => IsUsable(Orig(p)')
    <3>1. q = 1 /\ IsUsable(Orig(1)') /\ InRegion(a, Orig(1)')
      BY <2>0, <2>1, <2>2, <1>6
    <3>2. \A r \in 1 .. 1 - 1 : r \in merged'
      OBVIOUS
    <3>3. Covered(a, 1)'
      BY <3>1, <3>2 DEF Covered, IsUsable, InRegion
    <3> QED BY <2>1, <3>1, <3>3
  <2> QED BY <2>2 DEF Pure, IsUsable, InRegion
<1> QED BY <1>7, <1>8

(* The memory map stays sane from then on. *)
LEMMA SaneStep ==
  ASSUME BootTypes, SortInv, SaneInv, [Next]_vars
  PROVE  SaneInv'
<1>1. CASE i386_detect_memory
  <2>1. /\ stage = "kernel" /\ stage' \in {"insert", "sized"} /\ merged' = merged
        /\ stage' = "insert" => UNCHANGED <<basemem, extmem>>
    BY <1>1 DEF i386_detect_memory
  <2> QED BY <2>1 DEF SaneInv, BootTypes, E820Types, Early
<1>2. CASE insert_region
  <2>1. /\ stage = "insert" /\ loop \in Nat /\ Len(mmap) \in Nat
        /\ UNCHANGED <<merged, basemem, extmem>>
    BY <1>2 DEF insert_region, Round, Done, BootTypes, E820Types
  <2>2. CASE loop <= Len(mmap)
    <3>1. stage' \in {"insert", "corrupt"}
      BY <1>2, <2>1, <2>2 DEF insert_region, Round, Done
    <3> QED BY <2>1, <3>1 DEF SaneInv
  <2>3. CASE loop > Len(mmap)
    <3>1. stage' = "sanitize" /\ loop' = 2
      BY <1>2, <2>1, <2>3 DEF insert_region, Round, Done
    <3>2. Shape(2)' /\ Pure(2)'
      BY <1>2, <2>1, <2>3, SaneStart DEF SaneInv
    <3> QED BY <2>1, <3>1, <3>2 DEF SaneInv, Shape, Pure
  <2> QED BY <2>1, <2>2, <2>3
<1>3. CASE sanitize_region
  <2>1. /\ stage = "sanitize" /\ loop \in Nat /\ Len(mmap) \in Nat /\ loop <= Len(mmap) + 1
        /\ machine' = machine /\ UNCHANGED <<basemem, extmem>>
    <3>1. stage = "sanitize" /\ machine' = machine /\ UNCHANGED <<basemem, extmem>>
      BY <1>3 DEF sanitize_region, Round, Done
    <3> QED BY <3>1 DEF BootTypes, E820Types
  <2>2. PICK m \in Nat : m = loop
    BY <2>1
  <2>3. Shape(m) /\ (Regular => Pure(m)) /\ (Regular' <=> Regular)
    BY <2>1, <2>2, SameMachine DEF SaneInv, Shape, Pure
  <2>4. CASE loop <= Len(mmap)
    <3>1. stage' = "sanitize" /\ loop' = m + 1
      BY <1>3, <2>1, <2>2, <2>4, SanitizeRound
    <3>2. Shape(m + 1)' /\ (Regular' => Pure(m + 1)')
      BY <1>3, <2>1, <2>2, <2>3, <2>4, ShapeRound, PureRound
    <3> QED BY <2>1, <3>1, <3>2 DEF SaneInv, Shape, Pure
  <2>5. CASE loop > Len(mmap)
    <3>1. stage' = "sum" /\ UNCHANGED <<mmap, merged, mmap_list>>
      BY <1>3, <2>1, <2>5 DEF sanitize_region, Round, Done
    <3>2. m = Len(mmap) + 1
      BY <2>1, <2>2, <2>5
    <3>3. Shape(m)' /\ (Regular' => Pure(m)')
      BY <2>1, <2>3, <3>1 DEF Shape, Pure, Covered, Cur, Orig
    <3>4. Shape(Len(mmap) + 1)' /\ (Regular' => Pure(Len(mmap) + 1)')
      BY <3>1, <3>2, <3>3 DEF Shape, Pure
    <3> QED BY <3>1, <3>4 DEF SaneInv
  <2> QED BY <2>1, <2>4, <2>5
<1>4. CASE add_region
  <2>1. /\ stage = "sum" /\ stage' \in {"sum", "sized"} /\ machine' = machine
        /\ UNCHANGED <<mmap, merged, mmap_list>>
    BY <1>4 DEF add_region, Round, Done
  <2>2. Shape(Len(mmap) + 1)' /\ (Regular' => Pure(Len(mmap) + 1)')
    BY <2>1, SameMachine DEF SaneInv, Shape, Pure, Covered, Cur, Orig
  <2> QED BY <2>1, <2>2 DEF SaneInv
<1>5. CASE UNCHANGED vars
  <2>1. UNCHANGED <<machine, stage, loop, mmap, mmap_list, merged, basemem, extmem>>
    BY <1>5 DEF vars, e820
  <2>2. Regular' <=> Regular
    BY <2>1, SameMachine
  <2> QED BY <2>1, <2>2 DEF SaneInv, Shape, Pure, Covered, Cur, Orig
<1>6. CASE Next /\ ~ (i386_detect_memory \/ insert_region \/ sanitize_region \/ add_region)
  BY <1>6, OtherSteps DEF SaneInv
<1> QED BY <1>1, <1>2, <1>3, <1>4, <1>5, <1>6

(* The bytes of a region that are not in a set yet are as many as its length. *)
LEMMA MoreBytes ==
  ASSUME NEW S, S \subseteq Nat, IsFiniteSet(S), NEW r \in Region, \A a \in S : ~ InRegion(a, r),
         NEW T, T = S \cup {a \in Nat : InRegion(a, r)}
  PROVE  IsFiniteSet(T) /\ Cardinality(T) = Cardinality(S) + r.len
<1> DEFINE I == r.base .. r.base + r.len - 1
<1>1. r.base \in Nat /\ r.len \in Nat
  BY DEF Region
<1>2. {a \in Nat : InRegion(a, r)} = I
  BY <1>1 DEF InRegion
<1>3. IsFiniteSet(I) /\ Cardinality(I) = r.len
  <2>1. r.base \in Int /\ r.base + r.len - 1 \in Int
    BY <1>1
  <2>2. /\ IsFiniteSet(I)
        /\ Cardinality(I) = IF r.base > r.base + r.len - 1 THEN 0
                            ELSE (r.base + r.len - 1) - r.base + 1
    BY <2>1, FS_Interval
  <2> HIDE DEF I
  <2> QED BY <1>1, <2>2
<1>4. S \cap I = {}
  BY <1>2
<1> HIDE DEF I
<1>5. Cardinality(S \cap I) = 0
  BY <1>4, FS_EmptySet
<1>6. Cardinality(S) \in Nat
  BY FS_CardinalityType
<1>7. T = S \cup I
  BY <1>2
<1>8. IsFiniteSet(T) /\ Cardinality(T) = Cardinality(S) + Cardinality(I) - Cardinality(S \cap I)
  BY <1>3, <1>7, FS_Union
<1> QED BY <1>1, <1>3, <1>5, <1>6, <1>8

(* No byte is counted twice: two regions that are left do not share one. *)
LEMMA CountedOnce ==
  ASSUME BootTypes, SortInv, Regular, stage = "sum", Pure(Len(mmap) + 1),
         NEW q \in 1 .. Len(mmap), NEW n \in 1 .. Len(mmap), q < n, Counted(q), Counted(n),
         NEW a \in Nat, InRegion(a, Cur(q)), InRegion(a, Cur(n))
  PROVE  FALSE
<1>1. Len(mmap) \in Nat /\ (Len(mmap) + 1) - 1 = Len(mmap)
  BY PlaceTypes
<1>2. Covered(a, q) /\ Covered(a, n)
  BY <1>1 DEF Pure, Counted
<1>3. PICK c \in 1 .. q : /\ \A r \in c .. q - 1 : r \in merged
                          /\ IsUsable(Orig(c)) /\ InRegion(a, Orig(c))
  BY <1>2 DEF Covered
<1>4. PICK d \in 1 .. n : /\ \A r \in d .. n - 1 : r \in merged
                          /\ IsUsable(Orig(d)) /\ InRegion(a, Orig(d))
  BY <1>2 DEF Covered
<1>5. q < d
  <2> SUFFICES ASSUME d <= q PROVE FALSE
    OBVIOUS
  <2>1. q \in d .. n - 1
    BY <1>1
  <2> QED BY <2>1, <1>4 DEF Counted
<1>6. c < d /\ c \in 1 .. Len(mmap) /\ d \in 1 .. Len(mmap)
  BY <1>1, <1>5
<1> QED BY <1>3, <1>4, <1>6, Adjacent

(* A round of add_region adds the bytes of one region. *)
LEMMA SumRound ==
  ASSUME BootTypes, SortInv, SaneInv, SumInv, Regular, stage = "sum",
         NEW n \in Nat, n = loop, n <= Len(mmap), add_region
  PROVE  /\ IsFiniteSet(LowBytes(n)) /\ basemem' = Cardinality(LowBytes(n))
         /\ IsFiniteSet(HighBytes(n)) /\ extmem' = Cardinality(HighBytes(n))
         /\ machine' = machine /\ stage' = "sum" /\ loop' = n + 1
         /\ UNCHANGED <<mmap, mmap_list, merged>>
<1> DEFINE r == Cur(n)
           low == LowBytes(n - 1)
           high == HighBytes(n - 1)
           here == {a \in Nat : InRegion(a, r)}
           len == IF n \notin merged /\ r.type \in {Usable, Reclaimable} THEN r.len ELSE 0
<1>1. /\ machine' = machine /\ stage' = "sum" /\ loop' = n + 1
      /\ UNCHANGED <<mmap, mmap_list, merged>>
      /\ basemem' = IF r.base < EXTPHYSMEM THEN basemem + len ELSE basemem
      /\ extmem' = IF r.base < EXTPHYSMEM THEN extmem ELSE extmem + len
  <2>1. n \in Nat /\ Len(mmap) \in Nat /\ ~ (n > Len(mmap))
    BY DEF BootTypes, E820Types
  <2>2. ~ Done("sum", Len(mmap), "sized", 0)
    BY <2>1 DEF Done
  <2> QED BY <2>2 DEF add_region, Round, Cur
<1>2. n \in 1 .. Len(mmap) /\ n - 1 \in Nat /\ Len(mmap) \in Nat
  BY DEF BootTypes, E820Types
<1>3. r \in Region /\ r.len \in Nat
  BY <1>2, PlaceTypes, ExtentFacts
<1>4. /\ IsFiniteSet(low) /\ basemem = Cardinality(low) /\ low \subseteq Nat
      /\ IsFiniteSet(high) /\ extmem = Cardinality(high) /\ high \subseteq Nat
  BY DEF SumInv, LowBytes, HighBytes
<1>5. basemem \in Nat /\ extmem \in Nat
  BY DEF BootTypes, E820Types
<1>6. \A q \in 1 .. n : q = n \/ q \in 1 .. n - 1
  BY <1>2
<1>7. \A q \in 1 .. n - 1 : q \in 1 .. n /\ q < n /\ q \in 1 .. Len(mmap)
  BY <1>2
<1>8. CASE ~ Counted(n)
  <2>1. len = 0
    BY <1>8 DEF Counted, IsUsable
  <2>2. LowBytes(n) = low /\ HighBytes(n) = high
    BY <1>6, <1>7, <1>8 DEF LowBytes, HighBytes
  <2> HIDE DEF len, low, high
  <2> QED BY <2>1, <2>2, <1>1, <1>4, <1>5
<1>9. CASE Counted(n)
  <2>1. len = r.len
    BY <1>9 DEF Counted, IsUsable
  <2>2. \A a \in low \cup high : ~ InRegion(a, r)
    <3> SUFFICES ASSUME NEW a \in low \cup high, InRegion(a, r) PROVE FALSE
      OBVIOUS
    <3>1. PICK q \in 1 .. n - 1 : Counted(q) /\ InRegion(a, Cur(q))
      BY DEF LowBytes, HighBytes
    <3>2. a \in Nat /\ q \in 1 .. Len(mmap) /\ q < n /\ Pure(Len(mmap) + 1)
      BY <1>4, <1>7 DEF SaneInv
    <3> QED BY <3>1, <3>2, <1>2, <1>9, CountedOnce
  <2>3. CASE r.base < EXTPHYSMEM
    <3>1. LowBytes(n) = low \cup here
      BY <2>3, <1>2, <1>6, <1>7, <1>9 DEF LowBytes
    <3>2. HighBytes(n) = high
      BY <2>3, <1>6, <1>7 DEF HighBytes
    <3> HIDE DEF r, low, high, len
    <3>3. IsFiniteSet(LowBytes(n)) /\ Cardinality(LowBytes(n)) = Cardinality(low) + r.len
      BY <3>1, <2>2, <1>3, <1>4, MoreBytes
    <3> QED BY <3>2, <3>3, <2>1, <2>3, <1>1, <1>4
  <2>4. CASE ~ (r.base < EXTPHYSMEM)
    <3>1. HighBytes(n) = high \cup here
      BY <2>4, <1>2, <1>6, <1>7, <1>9 DEF HighBytes
    <3>2. LowBytes(n) = low
      BY <2>4, <1>6, <1>7 DEF LowBytes
    <3> HIDE DEF r, low, high, len
    <3>3. IsFiniteSet(HighBytes(n)) /\ Cardinality(HighBytes(n)) = Cardinality(high) + r.len
      BY <3>1, <2>2, <1>3, <1>4, MoreBytes
    <3> QED BY <3>2, <3>3, <2>1, <2>4, <1>1, <1>4
  <2> QED BY <2>3, <2>4
<1> QED BY <1>1, <1>8, <1>9

(* While the regions are added up, basemem and extmem are what they hold. *)
LEMMA SumStep ==
  ASSUME BootTypes, SortInv, SaneInv, SumInv, [Next]_vars
  PROVE  SumInv'
<1> SUFFICES ASSUME stage' = "sum", Regular' PROVE SumInv'
  BY DEF SumInv
<1>1. CASE sanitize_region
  <2>1. /\ stage = "sanitize" /\ loop' = 1 /\ basemem' = 0 /\ extmem' = 0
    BY <1>1 DEF sanitize_region, Round, Done, SaneInv
  <2>2. \A q \in 1 .. loop' - 1 : FALSE
    BY <2>1
  <2>3. LowBytes(loop - 1)' = {} /\ HighBytes(loop - 1)' = {}
    BY <2>2 DEF LowBytes, HighBytes
  <2> QED BY <2>1, <2>3, FS_EmptySet DEF SumInv
<1>2. CASE add_region
  <2>1. stage = "sum" /\ loop <= Len(mmap) /\ machine' = machine
    BY <1>2 DEF add_region, Round, Done
  <2>2. PICK n \in Nat : n = loop
    BY DEF BootTypes
  <2>3. Regular
    BY <2>1, SameMachine
  <2>4. /\ IsFiniteSet(LowBytes(n)) /\ basemem' = Cardinality(LowBytes(n))
        /\ IsFiniteSet(HighBytes(n)) /\ extmem' = Cardinality(HighBytes(n))
        /\ loop' = n + 1 /\ UNCHANGED <<mmap, mmap_list, merged>>
    BY <1>2, <2>1, <2>2, <2>3, SumRound
  <2>5. loop' - 1 = n
    BY <2>4
  <2>6. LowBytes(n)' = LowBytes(n) /\ HighBytes(n)' = HighBytes(n)
    BY <2>4 DEF LowBytes, HighBytes, Counted, Cur
  <2>7. LowBytes(loop - 1)' = LowBytes(n) /\ HighBytes(loop - 1)' = HighBytes(n)
    BY <2>5, <2>6 DEF LowBytes, HighBytes
  <2> QED BY <2>4, <2>7 DEF SumInv
<1>3. CASE UNCHANGED vars
  <2>1. UNCHANGED <<machine, stage, loop, mmap, mmap_list, merged, basemem, extmem>>
    BY <1>3 DEF vars, e820
  <2>2. Regular
    BY <2>1, SameMachine
  <2>3. LowBytes(loop - 1)' = LowBytes(loop - 1) /\ HighBytes(loop - 1)' = HighBytes(loop - 1)
    BY <2>1 DEF LowBytes, HighBytes, Counted, Cur
  <2> QED BY <2>1, <2>2, <2>3 DEF SumInv
<1>4. CASE i386_detect_memory \/ insert_region
  BY <1>4 DEF i386_detect_memory, insert_region, Round, Done
<1>5. CASE Next /\ ~ (i386_detect_memory \/ insert_region \/ sanitize_region \/ add_region)
  BY <1>5, OtherSteps
<1> QED BY <1>1, <1>2, <1>3, <1>4, <1>5

(* A byte that is counted is RAM; one above the hole has only RAM between it and
   the hole.                                                               *)
LEMMA CountedIsRam ==
  ASSUME BootTypes, SortInv, Regular, stage = "sum", Pure(Len(mmap) + 1),
         NEW q \in 1 .. Len(mmap), Counted(q), NEW a \in Nat, InRegion(a, Cur(q))
  PROVE  /\ IsRam(a)
         /\ a < IOPHYSMEM \/ (a >= EXTPHYSMEM /\ \A b \in EXTPHYSMEM .. a : IsRam(b))
<1>1. /\ Len(mmap) \in Nat /\ (Len(mmap) + 1) - 1 = Len(mmap) /\ Len(mmap) = Len(Map)
      /\ Map \in Seq(Region) /\ DOMAIN Map = 1 .. Len(mmap)
  BY PlaceTypes, MachineTypes DEF BootTypes, Map
<1>2. Covered(a, q) /\ \A p \in 1 .. Len(mmap) : InRegion(a, Orig(p)) => IsUsable(Orig(p))
  BY <1>1 DEF Pure, Counted
<1>3. PICK c \in 1 .. q : IsUsable(Orig(c)) /\ InRegion(a, Orig(c))
  BY <1>2 DEF Covered
<1>4. c \in 1 .. Len(mmap)
  BY <1>1
<1>5. PICK i \in DOMAIN Map : i = mmap_list[c] /\ Orig(c) = Map[i]
  BY <1>1, <1>4, PlaceTypes DEF Orig, Map
<1>6. ASSUME NEW k \in DOMAIN Map, InRegion(a, Map[k]) PROVE IsUsable(Map[k])
  <2>1. PICK p \in 1 .. Len(mmap) : mmap_list[p] = k
    BY <1>1 DEF SortInv, Listed
  <2>2. Orig(p) = Map[k]
    BY <2>1 DEF Orig, Map
  <2> QED BY <2>2, <1>2, <1>6
<1>7. IsRam(a)
  <2>1. Map # <<>>
    BY <1>1, <1>5
  <2> QED BY <2>1, <1>3, <1>5, <1>6 DEF IsRam
<1>8. PICK r \in Region : r = Map[i]
  BY <1>1
<1>9. /\ r.base \in Nat /\ EndOf(r) \in Nat
      /\ r.base <= a /\ a < EndOf(r)
  BY <1>3, <1>5, <1>8, ExtentFacts
<1> DEFINE e == EndOf(r)
           Place(b, n) == \/ b + n <= IOPHYSMEM
                          \/ b >= EXTPHYSMEM /\ \A x \in EXTPHYSMEM .. b + n - 1 : IsRam(x)
<1>10. Place(Map[i].base, Map[i].len)
  BY <1>3, <1>5 DEF Regular
<1>11. \/ e <= IOPHYSMEM
       \/ r.base >= EXTPHYSMEM /\ \A b \in EXTPHYSMEM .. e - 1 : IsRam(b)
  <2>1. Place(r.base, r.len)
    BY <1>8, <1>10
  <2>2. e = r.base + r.len /\ r.base + (r.len - 1) = e - 1
    BY <1>8 DEF Region, EndOf
  <2> HIDE DEF e
  <2> QED BY <2>1, <2>2
<1>12. IOPHYSMEM \in Nat /\ EXTPHYSMEM \in Nat /\ e \in Nat /\ r.base \in Nat /\ r.base <= a /\ a < e
  BY <1>9, Sizes
<1> HIDE DEF e
<1>13. CASE e <= IOPHYSMEM
  <2>1. a < IOPHYSMEM
    BY <1>12, <1>13
  <2> QED BY <2>1, <1>7
<1>14. CASE r.base >= EXTPHYSMEM /\ \A b \in EXTPHYSMEM .. e - 1 : IsRam(b)
  <2>1. a >= EXTPHYSMEM
    BY <1>12, <1>14
  <2>2. \A b \in EXTPHYSMEM .. a : b \in EXTPHYSMEM .. e - 1
    BY <1>12
  <2> QED BY <1>7, <1>14, <2>1, <2>2
<1> QED BY <1>11, <1>13, <1>14

(* The bytes of regions that start below the hole end are below the hole, those of
   the others above it.                                                    *)
LEMMA CountedPlace ==
  ASSUME BootTypes, SortInv, Regular, stage = "sum", Pure(Len(mmap) + 1),
         NEW q \in 1 .. Len(mmap), Counted(q), NEW a \in Nat, InRegion(a, Cur(q))
  PROVE  Cur(q).base < EXTPHYSMEM <=> a < IOPHYSMEM
<1>1. /\ Cur(q).base \in Nat /\ EndOf(Cur(q)) \in Nat
      /\ \A b \in Nat : InRegion(b, Cur(q)) <=> Cur(q).base <= b /\ b < EndOf(Cur(q))
  BY PlaceTypes, ExtentFacts
<1>2. IOPHYSMEM \in Nat /\ EXTPHYSMEM \in Nat /\ IOPHYSMEM < EXTPHYSMEM
  BY Sizes, BootAssumption
<1>3. a < IOPHYSMEM \/ a >= EXTPHYSMEM
  BY CountedIsRam
<1>4. ASSUME Cur(q).base < EXTPHYSMEM, a >= EXTPHYSMEM PROVE FALSE
  <2>1. PICK b \in Nat : b = EXTPHYSMEM - 1
    BY <1>2
  <2>2. InRegion(b, Cur(q))
    <3>1. Cur(q).base <= a /\ a < EndOf(Cur(q))
      BY <1>1
    <3>2. Cur(q).base <= b /\ b < EndOf(Cur(q))
      BY <2>1, <3>1, <1>1, <1>2, <1>4
    <3> QED BY <3>2, <1>1
  <2>3. b < IOPHYSMEM \/ b >= EXTPHYSMEM
    BY <2>2, CountedIsRam
  <2> QED BY <2>1, <2>3, <1>2
<1>5. ASSUME a < IOPHYSMEM PROVE Cur(q).base < EXTPHYSMEM
  BY <1>1, <1>2, <1>5
<1> QED BY <1>3, <1>4, <1>5

(* So many bytes of RAM, of which nothing is missing from 0 or from the end of the
   hole on, are that many from there on.                                   *)
LEMMA RamTotal ==
  ASSUME BootTypes, SortInv, SaneInv, SumInv, Regular, stage = "sum", loop = Len(mmap) + 1
  PROVE  /\ basemem <= IOPHYSMEM
         /\ \A a \in 0 .. basemem - 1 : IsRam(a)
         /\ \A a \in EXTPHYSMEM .. EXTPHYSMEM + extmem - 1 : IsRam(a)
<1> DEFINE low == LowBytes(Len(mmap))
           high == HighBytes(Len(mmap))
<1>1. IOPHYSMEM \in Nat /\ EXTPHYSMEM \in Nat /\ IOPHYSMEM < EXTPHYSMEM
  BY Sizes, BootAssumption
<1>2. Len(mmap) \in Nat /\ loop - 1 = Len(mmap) /\ Pure(Len(mmap) + 1)
  BY PlaceTypes DEF SaneInv
<1>3. /\ IsFiniteSet(low) /\ basemem = Cardinality(low) /\ basemem \in Nat
      /\ IsFiniteSet(high) /\ extmem = Cardinality(high) /\ extmem \in Nat
  <2>1. LowBytes(loop - 1) = low /\ HighBytes(loop - 1) = high
    BY <1>2
  <2> QED BY <2>1 DEF SumInv, BootTypes, E820Types
<1>4. \A a \in low : a \in Nat /\ a < IOPHYSMEM /\ IsRam(a)
  <2> SUFFICES ASSUME NEW a \in low PROVE a \in Nat /\ a < IOPHYSMEM /\ IsRam(a)
    OBVIOUS
  <2>1. PICK q \in 1 .. Len(mmap) : Counted(q) /\ InRegion(a, Cur(q)) /\ Cur(q).base < EXTPHYSMEM
    BY DEF LowBytes
  <2>2. a \in Nat
    BY DEF LowBytes
  <2> QED BY <2>1, <2>2, <1>2, CountedIsRam, CountedPlace
<1>5. \A a \in high : a \in Nat /\ a >= EXTPHYSMEM /\ \A b \in EXTPHYSMEM .. a : IsRam(b)
  <2> SUFFICES ASSUME NEW a \in high
               PROVE  a \in Nat /\ a >= EXTPHYSMEM /\ \A b \in EXTPHYSMEM .. a : IsRam(b)
    OBVIOUS
  <2>1. PICK q \in 1 .. Len(mmap) : Counted(q) /\ InRegion(a, Cur(q)) /\ ~ (Cur(q).base < EXTPHYSMEM)
    BY DEF HighBytes
  <2>2. a \in Nat
    BY DEF HighBytes
  <2> QED BY <2>1, <2>2, <1>2, CountedIsRam, CountedPlace
<1> HIDE DEF low, high
<1>6. basemem <= IOPHYSMEM
  <2>1. low \subseteq 0 .. IOPHYSMEM - 1
    BY <1>1, <1>4
  <2>2. IsFiniteSet(0 .. IOPHYSMEM - 1) /\ Cardinality(0 .. IOPHYSMEM - 1) = IOPHYSMEM
    BY <1>1, FS_Interval
  <2>3. Cardinality(low) <= Cardinality(0 .. IOPHYSMEM - 1)
    BY <2>1, <2>2, FS_Subset
  <2> QED BY <2>2, <2>3, <1>3
<1>7. ASSUME NEW c \in 0 .. basemem - 1 PROVE IsRam(c)
  <2> SUFFICES ASSUME ~ IsRam(c) PROVE FALSE
    OBVIOUS
  <2>1. \A a \in low : a \in 0 .. c - 1
    <3> SUFFICES ASSUME NEW a \in low PROVE a < c
      BY <1>4, <1>3
    <3>1. a \in 0 .. IOPHYSMEM - 1 /\ IsRam(a)
      BY <1>1, <1>4
    <3>2. \A b \in 0 .. a : IsRam(b)
      BY <3>1 DEF Regular
    <3>3. c \notin 0 .. a
      BY <3>2
    <3> QED BY <3>1, <3>3, <1>1
  <2>2. c \in Nat /\ c < basemem
    BY <1>3
  <2>3. IsFiniteSet(0 .. c - 1) /\ Cardinality(0 .. c - 1) = c
    <3>1. 0 \in Int /\ c - 1 \in Int
      BY <2>2
    <3>2. IsFiniteSet(0 .. c - 1) /\ Cardinality(0 .. c - 1) = IF 0 > c - 1 THEN 0 ELSE c - 1 - 0 + 1
      BY <3>1, FS_Interval
    <3> QED BY <2>2, <3>2
  <2>4. Cardinality(low) <= Cardinality(0 .. c - 1)
    BY <2>1, <2>3, FS_Subset
  <2> QED BY <2>2, <2>3, <2>4, <1>3
<1>8. ASSUME NEW c \in EXTPHYSMEM .. EXTPHYSMEM + extmem - 1 PROVE IsRam(c)
  <2> SUFFICES ASSUME ~ IsRam(c) PROVE FALSE
    OBVIOUS
  <2>0. EXTPHYSMEM \in Nat /\ extmem \in Nat
    BY <1>1, <1>3
  <2>1. c \in Nat /\ c >= EXTPHYSMEM /\ c - EXTPHYSMEM < extmem
    BY <2>0
  <2>2. \A a \in high : a \in EXTPHYSMEM .. c - 1
    <3> SUFFICES ASSUME NEW a \in high PROVE a < c
      BY <1>1, <1>5, <2>1
    <3>1. a \in Nat /\ c \notin EXTPHYSMEM .. a
      BY <1>5
    <3> QED BY <3>1, <2>1, <1>1
  <2>3. IsFiniteSet(EXTPHYSMEM .. c - 1) /\ Cardinality(EXTPHYSMEM .. c - 1) = c - EXTPHYSMEM
    <3>1. c - 1 \in Int /\ EXTPHYSMEM \in Int
      BY <1>1, <2>1
    <3>2. /\ IsFiniteSet(EXTPHYSMEM .. c - 1)
          /\ Cardinality(EXTPHYSMEM .. c - 1) = IF EXTPHYSMEM > c - 1 THEN 0 ELSE c - 1 - EXTPHYSMEM + 1
      BY <3>1, FS_Interval
    <3> QED BY <3>2, <2>1, <1>1
  <2>4. Cardinality(high) <= Cardinality(EXTPHYSMEM .. c - 1)
    BY <2>2, <2>3, FS_Subset
  <2> QED BY <2>1, <2>3, <2>4, <1>1, <1>3
<1> QED BY <1>6, <1>7, <1>8

(* What i386_detect_memory() counts is RAM. *)
LEMMA RamStep ==
  ASSUME BootTypes, SortInv, SaneInv, SumInv, RamInv, [Next]_vars
  PROVE  RamInv'
<1>0. machine' = machine
  <2>1. CASE i386_detect_memory \/ insert_region \/ sanitize_region \/ add_region
    BY <2>1 DEF i386_detect_memory, insert_region, sanitize_region, add_region
  <2> QED BY <2>1, OtherSteps DEF vars
<1> SUFFICES ASSUME stage' \notin Early \cup {"insert", "corrupt", "sanitize", "sum"}, Regular
             PROVE  RamInv'
  BY <1>0, SameMachine DEF RamInv
<1> DEFINE Counts(b, e) == /\ b <= IOPHYSMEM
                           /\ \A a \in 0 .. b - 1 : IsRam(a)
                           /\ \A a \in EXTPHYSMEM .. EXTPHYSMEM + e - 1 : IsRam(a)
<1>1. ASSUME Counts(basemem', extmem') PROVE RamInv'
  <2>1. \A a \in Int : IsRam(a)' <=> IsRam(a)
    BY <1>0, SameMachine
  <2>2. \A b, e : \A a \in b .. e : a \in Int
    OBVIOUS
  <2> QED BY <1>1, <2>1, <2>2 DEF RamInv
<1>2. CASE i386_detect_memory
  <2>1. /\ stage = "kernel" /\ mmap = <<>>
        /\ basemem' = machine.nvram.base /\ extmem' = machine.nvram.ext
    BY <1>2 DEF i386_detect_memory
  <2>2. Map = <<>>
    BY <2>1 DEF BootTypes, E820Types, Early, Map
  <2>3. Counts(machine.nvram.base, machine.nvram.ext)
    <3>1. machine.nvram.base <= IOPHYSMEM
      BY DEF Regular
    <3>2. machine.nvram.base \in Nat
      BY MachineTypes DEF BootTypes
    <3>3. \A a \in 0 .. machine.nvram.base - 1 : a < machine.nvram.base
      BY <3>2
    <3> QED BY <2>2, <3>1, <3>3 DEF IsRam
  <2> QED BY <2>1, <2>3, <1>1
<1>3. CASE insert_region \/ sanitize_region
  BY <1>3 DEF insert_region, sanitize_region, Round, Done
<1>4. CASE add_region
  <2>1. stage = "sum" /\ loop > Len(mmap) /\ UNCHANGED <<basemem, extmem>>
    BY <1>4 DEF add_region, Round, Done
  <2>2. loop = Len(mmap) + 1
    BY <2>1 DEF BootTypes, E820Types
  <2>3. Counts(basemem, extmem)
    BY <2>1, <2>2, RamTotal
  <2> QED BY <2>1, <2>3, <1>1
<1>5. CASE /\ Next /\ ~ (i386_detect_memory \/ insert_region \/ sanitize_region \/ add_region)
  <2>1. UNCHANGED <<basemem, extmem>>
    BY <1>5, OtherSteps DEF e820
  <2>2. stage \notin Early \cup {"insert", "corrupt", "sanitize", "sum"}
    <3>1. CASE bootmain \/ load_segment
      BY <3>1 DEF bootmain, load_segment, Round, Done, Early
    <3>2. CASE count_pages \/ boot_arrays \/ page_init
      BY <3>2 DEF count_pages, boot_arrays, page_init, Round, Done, Early
    <3>3. CASE x64_vm_init \/ map_stack \/ take_tables \/ reorder_page
      BY <3>3 DEF x64_vm_init, map_stack, take_tables, reorder_page, Round, Early
    <3>4. CASE SelfTest
      BY <3>4, SelfTestSteps DEF Early
    <3>5. CASE mp_init \/ mp_entry \/ bsp_lapic_init \/ ap_lapic_init
      BY <3>5 DEF mp_init, mp_entry, bsp_lapic_init, ap_lapic_init, Round, Done, Early
    <3> QED BY <1>5, <3>1, <3>2, <3>3, <3>4, <3>5 DEF Next, SelfTest
  <2>3. Counts(basemem, extmem)
    BY <2>2 DEF RamInv
  <2> QED BY <2>1, <2>3, <1>1
<1>6. CASE UNCHANGED vars
  <2>1. UNCHANGED <<stage, basemem, extmem>>
    BY <1>6 DEF vars, e820
  <2>2. Counts(basemem, extmem)
    BY <2>1 DEF RamInv
  <2> QED BY <2>1, <2>2, <1>1
<1> QED BY <1>2, <1>3, <1>4, <1>5, <1>6

----------------------------------------------------------------------------
(* The page allocator *)

(* Stages before the pages are counted, and before page_init(). *)
Sizing == Early \cup {"insert", "corrupt", "sanitize", "sum", "sized"}
Unlisted == Sizing \cup {"detected"}

(* What is counted in pages is there in bytes. *)
MemInv ==
  /\ stage \in Sizing => mem.npages = 0 /\ mem.basemem = 0
  /\ mem.nextfree >= End
  /\ Regular => /\ mem.basemem * PGSIZE <= basemem
                /\ mem.npages * PGSIZE <= basemem \/ mem.npages * PGSIZE <= EXTPHYSMEM + extmem

(* A multiple is a whole number of times its factor. *)
LEMMA MultipleFacts ==
  ASSUME NEW a \in Nat, NEW n \in Nat, n > 0, a % n = 0
  PROVE  (a \div n) * n = a
<1>1. 0 % n = 0 /\ 0 \div n = 0
  OBVIOUS
<1>2. a - ROUNDDOWN(a, n) = 0 - ROUNDDOWN(0, n)
  BY <1>1, SameOffset
<1>3. ROUNDDOWN(0, n) = 0
  BY <1>1 DEF ROUNDDOWN
<1>4. ROUNDDOWN(a, n) \in Nat
  BY DownFacts
<1> DEFINE r == ROUNDDOWN(a, n)
           z == ROUNDDOWN(0, n)
<1>5. a - r = 0 - z /\ z = 0 /\ r \in Nat
  BY <1>2, <1>3, <1>4
<1>6. r = a
  <2> HIDE DEF r, z
  <2> QED BY <1>5
<1> QED BY <1>6 DEF ROUNDDOWN

(* The devices' hole begins and ends with a page, and is at least one page. *)
LEMMA HoleFacts ==
  /\ IOPHYSMEM \in Nat /\ EXTPHYSMEM \in Nat /\ PGSIZE \in Nat /\ PGSIZE > 0
  /\ IOPHYSMEM + PGSIZE <= EXTPHYSMEM /\ EXTPHYSMEM < End /\ End \in Nat
  /\ (EXTPHYSMEM \div PGSIZE) * PGSIZE = EXTPHYSMEM
<1> DEFINE i == IOPHYSMEM \div PGSIZE
           e == EXTPHYSMEM \div PGSIZE
<1>1. /\ IOPHYSMEM \in Nat /\ EXTPHYSMEM \in Nat /\ PGSIZE \in Nat /\ PGSIZE > 0
      /\ EXTPHYSMEM < End /\ End \in Nat /\ IOPHYSMEM < EXTPHYSMEM
      /\ IOPHYSMEM % PGSIZE = 0 /\ EXTPHYSMEM % PGSIZE = 0
  BY Sizes, BootAssumption
<1>2. i * PGSIZE = IOPHYSMEM /\ e * PGSIZE = EXTPHYSMEM
  BY <1>1, MultipleFacts
<1>3. i \in Nat /\ e \in Nat
  BY <1>1, DownFacts
<1> HIDE DEF i, e
<1>4. i < e
  <2> SUFFICES ASSUME e <= i PROVE FALSE
    BY <1>3
  <2>1. e * PGSIZE <= i * PGSIZE
    BY <1>1, <1>3, TimesMonotone
  <2> QED BY <2>1, <1>1, <1>2
<1>5. (i + 1) * PGSIZE <= e * PGSIZE
  <2>1. i + 1 \in Nat /\ i + 1 <= e
    BY <1>3, <1>4
  <2> QED BY <2>1, <1>1, <1>3, TimesMonotone
<1>6. (i + 1) * PGSIZE = i * PGSIZE + PGSIZE
  BY <1>1, <1>3
<1> QED BY <1>1, <1>2, <1>5, <1>6 DEF e

(* The bytes of a page among the first n. *)
LEMMA PageBytes ==
  ASSUME NEW i \in Nat, NEW n \in Nat, i < n
  PROVE  /\ i * PGSIZE \in Nat /\ n * PGSIZE \in Nat /\ i * PGSIZE + PGSIZE <= n * PGSIZE
         /\ \A a \in i * PGSIZE .. (i + 1) * PGSIZE - 1 :
              a \in Nat /\ i * PGSIZE <= a /\ a < n * PGSIZE
<1>1. PGSIZE \in Nat /\ PGSIZE > 0 /\ i + 1 \in Nat /\ i + 1 <= n
  BY Sizes
<1>2. (i + 1) * PGSIZE = i * PGSIZE + PGSIZE /\ i * PGSIZE \in Nat
  BY <1>1
<1>3. (i + 1) * PGSIZE <= n * PGSIZE /\ n * PGSIZE \in Nat
  BY <1>1, TimesMonotone
<1> DEFINE x == i * PGSIZE
           y == (i + 1) * PGSIZE
           z == n * PGSIZE
<1>4. x \in Nat /\ z \in Nat /\ y = x + PGSIZE /\ y <= z
  BY <1>2, <1>3
<1> HIDE DEF x, y, z
<1>5. x + PGSIZE <= z /\ \A a \in x .. y - 1 : a \in Nat /\ x <= a /\ a < z
  BY <1>1, <1>4
<1> QED BY <1>4, <1>5 DEF x, y, z

(* A page above the one that holds nextfree starts behind it. *)
LEMMA AboveKernel ==
  ASSUME MemTypes, NEW i \in Nat, i > boot_alloc(mem.nextfree, 0) \div PGSIZE
  PROVE  i * PGSIZE \in Nat /\ i * PGSIZE > mem.nextfree
<1> DEFINE k == mem.nextfree \div PGSIZE
<1>1. mem.nextfree \in Nat /\ PGSIZE \in Nat /\ PGSIZE > 0
  BY Sizes DEF MemTypes
<1>2. k \in Nat /\ mem.nextfree < k * PGSIZE + PGSIZE
  BY <1>1, DownFacts DEF ROUNDDOWN
<1>3. k < i
  BY DEF boot_alloc
<1> HIDE DEF k
<1>4. k * PGSIZE \in Nat /\ i * PGSIZE \in Nat /\ k * PGSIZE + PGSIZE <= i * PGSIZE
  BY <1>2, <1>3, PageBytes
<1> DEFINE x == k * PGSIZE
           y == i * PGSIZE
<1>5. x \in Nat /\ y \in Nat /\ x + PGSIZE <= y /\ mem.nextfree < x + PGSIZE
  BY <1>2, <1>4
<1> HIDE DEF x, y
<1>6. y \in Nat /\ y > mem.nextfree
  BY <1>1, <1>5
<1> QED BY <1>6 DEF y

(* On a regular machine the pages that page_init() finds free are RAM. *)
LEMMA FreePageIsRam ==
  ASSUME BootTypes, MemInv, RamInv, Regular, NEW i \in 0 .. mem.npages - 1, page_init_free(i, mem)
  PROVE  /\ PageIsRam(i) /\ i \notin {0, MPENTRY}
         /\ i * PGSIZE < IOPHYSMEM \/ i * PGSIZE >= mem.nextfree
<1>1. /\ mem.npages \in Nat /\ mem.basemem \in Nat /\ mem.nextfree \in Nat
      /\ basemem \in Nat /\ extmem \in Nat /\ i \in Nat /\ i < mem.npages
  BY DEF BootTypes, MemTypes, E820Types
<1>2. stage \notin Sizing
  BY <1>1 DEF MemInv
<1>3. /\ basemem <= IOPHYSMEM
      /\ \A a \in 0 .. basemem - 1 : IsRam(a)
      /\ \A a \in EXTPHYSMEM .. EXTPHYSMEM + extmem - 1 : IsRam(a)
  BY <1>2 DEF RamInv, Sizing
<1>4. CASE i < mem.basemem
  <2> DEFINE x == i * PGSIZE
             z == mem.basemem * PGSIZE
  <2>1. /\ x \in Nat /\ z \in Nat /\ x + PGSIZE <= z
        /\ \A a \in x .. (i + 1) * PGSIZE - 1 : a \in Nat /\ x <= a /\ a < z
    BY <1>1, <1>4, PageBytes
  <2>2. z <= basemem
    BY DEF MemInv
  <2> HIDE DEF x, z
  <2>3. \A a \in x .. (i + 1) * PGSIZE - 1 : a \in 0 .. basemem - 1
    BY <2>1, <2>2, <1>1
  <2>4. x < IOPHYSMEM
    BY <2>1, <2>2, <1>1, <1>3, HoleFacts
  <2> QED BY <2>3, <2>4, <1>3 DEF PageIsRam, page_init_free, x
<1>5. CASE i > boot_alloc(mem.nextfree, 0) \div PGSIZE
  <2> DEFINE x == i * PGSIZE
             z == mem.npages * PGSIZE
  <2>1. /\ x \in Nat /\ z \in Nat /\ x + PGSIZE <= z
        /\ \A a \in x .. (i + 1) * PGSIZE - 1 : a \in Nat /\ x <= a /\ a < z
    BY <1>1, PageBytes
  <2>2. x > mem.nextfree
    BY <1>1, <1>5, AboveKernel DEF BootTypes
  <2>3. z <= basemem \/ z <= EXTPHYSMEM + extmem
    BY DEF MemInv
  <2>4. mem.nextfree >= End
    BY DEF MemInv
  <2> HIDE DEF x, z
  <2>5. \A a \in x .. (i + 1) * PGSIZE - 1 : a \in EXTPHYSMEM .. EXTPHYSMEM + extmem - 1
    <3>1. z <= EXTPHYSMEM + extmem
      BY <2>1, <2>2, <2>3, <2>4, <1>1, <1>3, HoleFacts
    <3> QED BY <3>1, <2>1, <2>2, <2>4, <1>1, HoleFacts
  <2>6. x >= mem.nextfree
    BY <2>1, <2>2, <1>1
  <2> QED BY <2>5, <2>6, <1>3 DEF PageIsRam, page_init_free, x
<1> QED BY <1>4, <1>5 DEF page_init_free

(* Only two steps change mem, and the memory found is fixed once it is summed up. *)
LEMMA MemKept ==
  ASSUME Next, ~ (count_pages \/ boot_arrays)
  PROVE  /\ mem' = mem /\ machine' = machine
         /\ stage \in Sizing \/ (stage' \notin Sizing /\ UNCHANGED <<basemem, extmem>>)
<1> USE DEF Sizing, Early
<1>1. CASE bootmain \/ load_segment \/ i386_detect_memory
  BY <1>1 DEF bootmain, load_segment, i386_detect_memory, Round, Done
<1>2. CASE insert_region \/ sanitize_region \/ add_region
  BY <1>2 DEF insert_region, sanitize_region, add_region, Round, Done
<1>3. CASE page_init \/ x64_vm_init \/ map_stack \/ take_tables
  BY <1>3 DEF page_init, x64_vm_init, map_stack, take_tables, e820, Round, Done
<1>4. CASE reorder_page
  BY <1>4 DEF reorder_page, e820, Round
<1>5. CASE SelfTest
  <2>1. stage' \notin Sizing /\ UNCHANGED <<machine, e820, mem>>
    BY <1>5, SelfTestSteps
  <2> QED BY <2>1 DEF e820
<1>6. CASE mp_init \/ mp_entry
  BY <1>6 DEF mp_init, mp_entry, e820, Round, Done
<1>7. CASE bsp_lapic_init \/ ap_lapic_init
  BY <1>7 DEF bsp_lapic_init, ap_lapic_init, e820
<1> QED BY <1>1, <1>2, <1>3, <1>4, <1>5, <1>6, <1>7 DEF Next, SelfTest

(* count_pages rounds down what it was told. *)
LEMMA PagesCounted ==
  ASSUME BootTypes, MemInv, count_pages
  PROVE  MemInv'
<1> DEFINE nv == machine.nvram
           ext == IF nv.full THEN (SixteenMB + nv.above16 - EXTPHYSMEM) \div PGSIZE
                  ELSE extmem \div PGSIZE
           n == IF ext # 0 THEN EXTPHYSMEM \div PGSIZE + ext ELSE basemem \div PGSIZE
           pages == IF n > MaxPages THEN MaxPages - Spare ELSE n
           base == basemem \div PGSIZE
<1>1. /\ stage = "sized" /\ machine' = machine /\ UNCHANGED <<basemem, extmem>>
      /\ \/ stage' = "panic" /\ mem' = mem
         \/ /\ stage' = "detected"
            /\ mem' = [mem EXCEPT !.basemem = base, !.npages = pages]
  BY DEF count_pages, e820
<1>2. /\ basemem \in Nat /\ extmem \in Nat /\ nv.above16 \in Nat /\ mem.nextfree \in Nat
      /\ mem \in [npages : Nat, basemem : Nat, nextfree : Nat, pages : Nat, envs : Nat]
  BY MachineTypes DEF BootTypes, E820Types, MemTypes
<1>3. stage' \notin Sizing
  BY <1>1 DEF Sizing, Early
<1>4. CASE mem' = mem
  <2>1. Regular' <=> Regular
    BY <1>1, SameMachine
  <2> QED BY <1>1, <1>3, <1>4, <2>1 DEF MemInv
<1>5. CASE mem' = [mem EXCEPT !.basemem = base, !.npages = pages]
  <2>1. base \in Nat /\ base * PGSIZE <= basemem
    BY <1>2, Sizes, DownFacts DEF ROUNDDOWN
  <2>2. ext \in Nat
    <3>1. SixteenMB + nv.above16 - EXTPHYSMEM \in Nat
      BY <1>2, Sizes, BootAssumption
    <3> QED BY <3>1, <1>2, Sizes, DownFacts
  <2>3. EXTPHYSMEM \div PGSIZE \in Nat
    BY Sizes, DownFacts
  <2>4. n \in Nat
    BY <2>1, <2>2, <2>3
  <2>5. pages \in Nat /\ pages <= n
    <3>1. MaxPages \in Nat /\ Spare \in Nat /\ Spare <= MaxPages
      BY Sizes, BootAssumption
    <3> HIDE DEF n
    <3> QED BY <3>1, <2>4
  <2>6. pages * PGSIZE <= n * PGSIZE /\ pages * PGSIZE \in Nat /\ n * PGSIZE \in Nat
    <3> HIDE DEF pages, n
    <3> QED BY <2>4, <2>5, Sizes, TimesMonotone
  <2>7. ASSUME Regular PROVE n * PGSIZE <= basemem \/ n * PGSIZE <= EXTPHYSMEM + extmem
    <3>1. ext = extmem \div PGSIZE
      BY <2>7 DEF Regular
    <3>2. ext * PGSIZE <= extmem
      BY <3>1, <1>2, Sizes, DownFacts DEF ROUNDDOWN
    <3>3. CASE ext = 0
      <4>1. n = base
        BY <3>3
      <4> QED BY <4>1, <2>1
    <3>4. CASE ext # 0
      <4> DEFINE e == EXTPHYSMEM \div PGSIZE
      <4>1. n = e + ext /\ e * PGSIZE = EXTPHYSMEM
        BY <3>4, HoleFacts
      <4> HIDE DEF n, e, ext
      <4>2. e \in Nat /\ ext \in Nat /\ PGSIZE \in Nat
        BY <2>2, <2>3, Sizes DEF e
      <4>3. n * PGSIZE = e * PGSIZE + ext * PGSIZE
        BY <4>1, <4>2
      <4> DEFINE y == ext * PGSIZE
      <4>4. y \in Nat /\ y <= extmem /\ n * PGSIZE = EXTPHYSMEM + y
        BY <4>1, <4>2, <4>3, <3>2
      <4> HIDE DEF y
      <4>5. EXTPHYSMEM + y <= EXTPHYSMEM + extmem
        BY <4>4, <1>2, Sizes
      <4> QED BY <4>4, <4>5
    <3> QED BY <3>3, <3>4
  <2>8. ASSUME Regular
        PROVE  pages * PGSIZE <= basemem \/ pages * PGSIZE <= EXTPHYSMEM + extmem
    <3> DEFINE x == pages * PGSIZE
               y == n * PGSIZE
    <3>1. x \in Nat /\ y \in Nat /\ x <= y /\ (y <= basemem \/ y <= EXTPHYSMEM + extmem)
      BY <2>6, <2>7, <2>8
    <3> HIDE DEF x, y
    <3>2. x <= basemem \/ x <= EXTPHYSMEM + extmem
      BY <3>1, <1>2, Sizes
    <3> QED BY <3>2 DEF x
  <2> HIDE DEF pages, base, n, ext
  <2>9. mem'.npages = pages /\ mem'.basemem = base /\ mem'.nextfree = mem.nextfree
    BY <1>2, <1>5
  <2>10. Regular' <=> Regular
    BY <1>1, SameMachine
  <2> QED BY <1>1, <1>3, <2>1, <2>8, <2>9, <2>10 DEF MemInv
<1> QED BY <1>1, <1>4, <1>5

(* Every step keeps to the memory that was found. *)
LEMMA MemStep ==
  ASSUME BootTypes, MemInv, [Next]_vars
  PROVE  MemInv'
<1>1. CASE count_pages
  BY <1>1, PagesCounted
<1>2. CASE boot_arrays
  <2> DEFINE pml4 == boot_alloc(mem.nextfree, PGSIZE)
             envs == boot_alloc(pml4, mem.npages * SizePageInfo)
             next == boot_alloc(envs, SizeEnvs)
  <2>1. /\ stage' = "page_init" /\ machine' = machine /\ UNCHANGED <<basemem, extmem>>
        /\ mem' = [mem EXCEPT !.pages = pml4, !.envs = envs, !.nextfree = next]
    BY <1>2 DEF boot_arrays, e820
  <2>2. mem \in [npages : Nat, basemem : Nat, nextfree : Nat, pages : Nat, envs : Nat]
    BY DEF BootTypes, MemTypes
  <2>3. mem.nextfree \in Nat /\ mem.npages * SizePageInfo \in Nat
    BY <2>2, Sizes, TimesMonotone
  <2>4. pml4 \in Nat /\ mem.nextfree + PGSIZE <= pml4
    BY <2>3, Sizes, AllocFacts
  <2>5. envs \in Nat /\ pml4 <= envs
    <3> DEFINE x == mem.npages * SizePageInfo
    <3>1. envs \in Nat /\ pml4 + x <= envs /\ x \in Nat
      BY <2>3, <2>4, AllocFacts
    <3> HIDE DEF x, envs, pml4
    <3> QED BY <3>1, <2>4
  <2>6. next \in Nat /\ envs + SizeEnvs <= next
    BY <2>5, Sizes, AllocFacts
  <2> HIDE DEF pml4, envs, next
  <2>7. next >= End
    <3>1. mem.nextfree >= End
      BY DEF MemInv
    <3> QED BY <3>1, <2>3, <2>4, <2>5, <2>6, Sizes
  <2>8. mem'.npages = mem.npages /\ mem'.basemem = mem.basemem /\ mem'.nextfree = next
    BY <2>1, <2>2
  <2>9. (Regular' <=> Regular) /\ stage' \notin Sizing
    BY <2>1, SameMachine DEF Sizing, Early
  <2> QED BY <2>1, <2>7, <2>8, <2>9 DEF MemInv
<1>3. CASE Next /\ ~ (count_pages \/ boot_arrays)
  <2>1. /\ mem' = mem /\ machine' = machine
        /\ stage \in Sizing \/ (stage' \notin Sizing /\ UNCHANGED <<basemem, extmem>>)
    BY <1>3, MemKept
  <2>2. Regular' <=> Regular
    BY <2>1, SameMachine
  <2>3. CASE stage \in Sizing
    <3>1. BootTypes'
      BY <1>3, TypesStep
    <3>2. mem.npages = 0 /\ mem.basemem = 0 /\ basemem' \in Nat /\ 0 * PGSIZE = 0
      BY <2>3, <3>1, Sizes DEF MemInv, BootTypes, E820Types
    <3>3. 0 <= basemem'
      BY <3>2
    <3> QED BY <2>1, <3>2, <3>3 DEF MemInv
  <2>4. CASE stage' \notin Sizing /\ UNCHANGED <<basemem, extmem>>
    BY <2>1, <2>2, <2>4 DEF MemInv
  <2> QED BY <2>1, <2>3, <2>4
<1>4. CASE UNCHANGED vars
  <2>1. UNCHANGED <<machine, stage, mem, basemem, extmem>>
    BY <1>4 DEF vars, e820
  <2>2. Regular' <=> Regular
    BY <2>1, SameMachine
  <2> QED BY <2>1, <2>2 DEF MemInv
<1> QED BY <1>1, <1>2, <1>3, <1>4

(* The pages page_init() finds free; a list in increasing order. *)
FreePages == {i \in 0 .. mem.npages - 1 : page_init_free(i, mem)}
Ascending(S) == \A j, k \in 1 .. Len(S) : j < k => S[j] < S[k]
Elements(S) == {S[k] : k \in DOMAIN S}

(* A list that took its pages, all of one kind, from the first n of list L. *)
Part(S, t, L, n) ==
  /\ Ascending(S)
  /\ \A k \in 1 .. Len(S) : (PDX(S[k]) >= 1 <=> t = 2) /\ \E m \in 1 .. n : S[k] = L[m]
Has(S, i) == \E k \in 1 .. Len(S) : S[k] = i

(* While check_page_free_list() splits the list: what is split so far.     *)
SplitInv ==
  /\ Ascending(page_free_list) /\ listed = FreePages
  /\ Len(page_free_list) + NTables = Cardinality(listed)
  /\ loop <= Len(page_free_list) + 1 /\ Len(pp[1]) + Len(pp[2]) = loop - 1
  /\ Part(pp[1], 1, page_free_list, loop - 1) /\ Part(pp[2], 2, page_free_list, loop - 1)
  /\ \A m \in 1 .. loop - 1 : Has(pp[1], page_free_list[m]) \/ Has(pp[2], page_free_list[m])

(* Afterwards: all but a number of pages are there, none twice, and as long as
   nothing was given back the first pages are in front.                    *)
Remaining(lost) ==
  /\ listed = FreePages /\ Len(page_free_list) + lost = Cardinality(listed)
  /\ \A j, k \in DOMAIN page_free_list : page_free_list[j] = page_free_list[k] => j = k
LowFirst ==
  \A j, k \in DOMAIN page_free_list :
    page_free_list[j] < PTPAGES /\ page_free_list[k] >= PTPAGES => j < k

ListInv ==
  /\ \A k \in DOMAIN page_free_list : page_free_list[k] \in FreePages
  /\ stage \in Unlisted => page_free_list = <<>>
  /\ stage \in Unlisted \cup {"page_init", "allocator", "stacks"} => pp = <<<<>>, <<>>>>
  /\ stage = "page_init" =>
       /\ loop <= mem.npages /\ Ascending(page_free_list)
       /\ Elements(page_free_list) = {i \in FreePages : i < loop}
  /\ stage \in {"allocator", "stacks"} =>
       /\ Ascending(page_free_list) /\ listed = FreePages
       /\ Elements(page_free_list) = FreePages
  /\ stage = "reorder" => SplitInv
  /\ stage \in Listing => Remaining(NTables) /\ LowFirst
  /\ stage \in Tested => Remaining(NTables + 4)

(* A page behind all on the list. *)
LEMMA AscendingAppend ==
  ASSUME NEW S \in Seq(Nat), NEW x \in Nat, Ascending(S), \A k \in 1 .. Len(S) : S[k] < x
  PROVE  /\ Append(S, x) \in Seq(Nat) /\ Len(Append(S, x)) = Len(S) + 1
         /\ \A k \in 1 .. Len(S) : Append(S, x)[k] = S[k]
         /\ Append(S, x)[Len(S) + 1] = x
         /\ Ascending(Append(S, x)) /\ Elements(Append(S, x)) = Elements(S) \cup {x}
<1> DEFINE T == Append(S, x)
<1>1. /\ T \in Seq(Nat) /\ Len(T) = Len(S) + 1 /\ Len(S) \in Nat
      /\ \A k \in 1 .. Len(S) : T[k] = S[k] /\ S[k] \in Nat
      /\ T[Len(S) + 1] = x /\ DOMAIN T = 1 .. Len(S) + 1 /\ DOMAIN S = 1 .. Len(S)
  BY AppendProperties
<1> HIDE DEF T
<1>2. \A k \in 1 .. Len(S) + 1 : k \in 1 .. Len(S) \/ k = Len(S) + 1
  BY <1>1
<1>3. Ascending(T)
  <2> SUFFICES ASSUME NEW j \in 1 .. Len(S) + 1, NEW k \in 1 .. Len(S) + 1, j < k
               PROVE  T[j] < T[k]
    BY <1>1 DEF Ascending
  <2>1. j \in 1 .. Len(S)
    BY <1>1
  <2>2. CASE k \in 1 .. Len(S)
    BY <2>1, <2>2, <1>1 DEF Ascending
  <2>3. CASE k = Len(S) + 1
    BY <2>1, <2>3, <1>1
  <2> QED BY <1>2, <2>2, <2>3
<1>4. Elements(T) = Elements(S) \cup {x}
  <2>1. ASSUME NEW e \in Elements(T) PROVE e \in Elements(S) \cup {x}
    <3>1. PICK k \in 1 .. Len(S) + 1 : e = T[k]
      BY <1>1 DEF Elements
    <3> QED BY <3>1, <1>1, <1>2 DEF Elements
  <2>2. ASSUME NEW e \in Elements(S) PROVE e \in Elements(T)
    <3>1. PICK k \in 1 .. Len(S) : e = S[k]
      BY <1>1 DEF Elements
    <3>2. k \in 1 .. Len(S) + 1 /\ e = T[k]
      BY <3>1, <1>1
    <3> QED BY <3>2, <1>1 DEF Elements
  <2>3. x \in Elements(T)
    <3>1. Len(S) + 1 \in DOMAIN T
      BY <1>1
    <3> QED BY <3>1, <1>1 DEF Elements
  <2> QED BY <2>1, <2>2, <2>3
<1> QED BY <1>1, <1>3, <1>4 DEF T

(* A list without repetition has as many pages as it is long, ... *)
LEMMA OnceEach ==
  ASSUME NEW S \in Seq(Nat), \A j, k \in 1 .. Len(S) : S[j] = S[k] => j = k
  PROVE  IsFiniteSet(Elements(S)) /\ Cardinality(Elements(S)) = Len(S)
<1>1. /\ Len(S) \in Nat /\ DOMAIN S = 1 .. Len(S) /\ S \in [1 .. Len(S) -> Nat]
      /\ \A k \in 1 .. Len(S) : S[k] \in Nat
  BY LenProperties, ElementOfSeq
<1>2. S \in [1 .. Len(S) -> Elements(S)]
  BY <1>1 DEF Elements
<1>3. \A e \in Elements(S) : \E k \in 1 .. Len(S) : S[k] = e
  BY <1>1 DEF Elements
<1>4. IsInjective(S)
  BY <1>1 DEF IsInjective
<1>5. S \in Bijection(1 .. Len(S), Elements(S))
  BY <1>2, <1>3, <1>4 DEF Bijection, Injection, Surjection
<1>6. ExistsBijection(1 .. Len(S), Elements(S))
  BY <1>5 DEF ExistsBijection
<1>7. IsFiniteSet(1 .. Len(S)) /\ Cardinality(1 .. Len(S)) = Len(S)
  <2> DEFINE n == Len(S)
  <2>1. n \in Int /\ n >= 0 /\ 1 \in Int
    BY <1>1
  <2> HIDE DEF n
  <2>2. IsFiniteSet(1 .. n) /\ Cardinality(1 .. n) = IF 1 > n THEN 0 ELSE n - 1 + 1
    BY <2>1, FS_Interval
  <2>3. IsFiniteSet(1 .. n) /\ Cardinality(1 .. n) = n
    BY <2>1, <2>2
  <2> QED BY <2>3 DEF n
<1> QED BY <1>6, <1>7, FS_Bijection

(* ... and one in increasing order has none. *)
LEMMA AscendingOnce ==
  ASSUME NEW S \in Seq(Nat), Ascending(S)
  PROVE  /\ \A j, k \in 1 .. Len(S) : S[j] = S[k] => j = k
         /\ IsFiniteSet(Elements(S)) /\ Cardinality(Elements(S)) = Len(S)
<1>1. Len(S) \in Nat /\ \A k \in 1 .. Len(S) : S[k] \in Nat
  BY LenProperties, ElementOfSeq
<1>2. ASSUME NEW j \in 1 .. Len(S), NEW k \in 1 .. Len(S), S[j] = S[k] PROVE j = k
  <2>1. ~ (S[j] < S[k]) /\ ~ (S[k] < S[j])
    BY <1>1, <1>2
  <2>2. ~ (j < k) /\ ~ (k < j)
    BY <2>1 DEF Ascending
  <2> QED BY <2>2, <1>1
<1> QED BY <1>2, OnceEach

(* A list that has more of list L, ... *)
LEMMA PartStays ==
  ASSUME NEW S, NEW t, NEW L, NEW n \in Nat, Part(S, t, L, n)
  PROVE  Part(S, t, L, n + 1)
<1>1. \A m \in 1 .. n : m \in 1 .. n + 1
  OBVIOUS
<1> QED BY <1>1 DEF Part

(* ... and one that takes the next page of it. *)
LEMMA PartGrows ==
  ASSUME NEW S \in Seq(Nat), NEW t, NEW L \in Seq(Nat), NEW n \in Nat, n + 1 <= Len(L),
         Ascending(L), Part(S, t, L, n), PDX(L[n + 1]) >= 1 <=> t = 2
  PROVE  /\ Part(Append(S, L[n + 1]), t, L, n + 1)
         /\ Len(Append(S, L[n + 1])) = Len(S) + 1 /\ Has(Append(S, L[n + 1]), L[n + 1])
         /\ \A i \in Nat : Has(S, i) => Has(Append(S, L[n + 1]), i)
<1> DEFINE x == L[n + 1]
           T == Append(S, x)
<1>1. /\ Len(L) \in Nat /\ n + 1 \in 1 .. Len(L) /\ x \in Nat /\ Len(S) \in Nat
      /\ \A m \in 1 .. n : m \in 1 .. Len(L) /\ m < n + 1
  BY LenProperties, ElementOfSeq
<1>2. \A k \in 1 .. Len(S) : S[k] < x
  <2> SUFFICES ASSUME NEW k \in 1 .. Len(S) PROVE S[k] < x
    OBVIOUS
  <2>1. PICK m \in 1 .. n : S[k] = L[m]
    BY DEF Part
  <2> QED BY <2>1, <1>1 DEF Ascending
<1> HIDE DEF x
<1>3. /\ T \in Seq(Nat) /\ Len(T) = Len(S) + 1
      /\ \A k \in 1 .. Len(S) : T[k] = S[k]
      /\ T[Len(S) + 1] = x /\ Ascending(T)
  BY <1>1, <1>2, AscendingAppend DEF Part
<1> HIDE DEF T
<1>4. \A k \in 1 .. Len(T) : k \in 1 .. Len(S) \/ k = Len(S) + 1
  BY <1>1, <1>3
<1>5. ASSUME NEW k \in 1 .. Len(T)
      PROVE  (PDX(T[k]) >= 1 <=> t = 2) /\ \E m \in 1 .. n + 1 : T[k] = L[m]
  <2>1. CASE k \in 1 .. Len(S)
    <3>1. T[k] = S[k] /\ (PDX(S[k]) >= 1 <=> t = 2)
      BY <2>1, <1>3 DEF Part
    <3>2. PICK m \in 1 .. n : S[k] = L[m]
      BY <2>1 DEF Part
    <3>3. m \in 1 .. n + 1
      OBVIOUS
    <3> QED BY <3>1, <3>2, <3>3
  <2>2. CASE k = Len(S) + 1
    <3>1. n + 1 \in 1 .. n + 1 /\ T[k] = L[n + 1]
      BY <2>2, <1>3 DEF x
    <3> QED BY <3>1
  <2> QED BY <1>4, <2>1, <2>2
<1>6. Has(T, x)
  <2>1. Len(S) + 1 \in 1 .. Len(T)
    BY <1>1, <1>3
  <2> QED BY <2>1, <1>3 DEF Has
<1>7. \A i \in Nat : Has(S, i) => Has(T, i)
  <2> SUFFICES ASSUME NEW i \in Nat, Has(S, i) PROVE Has(T, i)
    OBVIOUS
  <2>1. PICK k \in 1 .. Len(S) : S[k] = i
    BY DEF Has
  <2>2. k \in 1 .. Len(T)
    BY <1>1, <1>3
  <2> QED BY <2>1, <2>2, <1>3 DEF Has
<1> QED BY <1>3, <1>5, <1>6, <1>7 DEF Part, T, x

(* Pages of the first table are of the first kind. *)
LEMMA FirstPages ==
  ASSUME NEW i \in Nat, i < PTPAGES
  PROVE  ~ (PDX(i) >= 1)
<1>1. PTPAGES \in Nat /\ PTPAGES > 0 /\ NPDENTRIES \in Nat /\ NPDENTRIES > 0
  BY Sizes
<1>2. i \div PTPAGES = 0
  BY <1>1
<1>3. 0 % NPDENTRIES = 0
  BY <1>1
<1> QED BY <1>2, <1>3 DEF PDX

(* What an ascending pair of entries says about the order of their places. *)
LEMMA PlacesOrdered ==
  ASSUME NEW j \in Nat, NEW k \in Nat, NEW x \in Nat, NEW y \in Nat, NEW p \in Nat,
         j < k => x < y, k < j => y < x, j = k => x = y
  PROVE  (x = y => j = k) /\ (x < p /\ y >= p => j < k)
<1>1. j < k \/ k < j \/ j = k
  OBVIOUS
<1>2. ASSUME x = y PROVE j = k
  <2>1. ~ (x < y) /\ ~ (y < x)
    BY <1>2
  <2> QED BY <2>1, <1>1
<1>3. ASSUME x < p, y >= p PROVE j < k
  <2>1. ~ (y < x) /\ x # y
    BY <1>3
  <2> QED BY <2>1, <1>1
<1> QED BY <1>2, <1>3

(* The two lists one after the other. *)
Joined(C, S, T) ==
  /\ Len(C) = Len(S) + Len(T)
  /\ \A i \in 1 .. Len(S) + Len(T) : C[i] = IF i <= Len(S) THEN S[i] ELSE T[i - Len(S)]

(* Both lists are there, in two blocks. *)
LEMMA PartsJoined ==
  ASSUME NEW S \in Seq(Nat), NEW T \in Seq(Nat), NEW L, NEW n,
         Part(S, 1, L, n), Part(T, 2, L, n),
         NEW C \in Seq(Nat), Joined(C, S, T)
  PROVE  /\ \A i : Has(S, i) \/ Has(T, i) => Has(C, i)
         /\ \A j \in 1 .. Len(C) : \E m \in 1 .. n : C[j] = L[m]
         /\ \A j, k \in 1 .. Len(C) :
              /\ C[j] = C[k] => j = k
              /\ C[j] < PTPAGES /\ C[k] >= PTPAGES => j < k
<1> DEFINE a == Len(S)
           b == Len(T)
<1>1. /\ a \in Nat /\ b \in Nat /\ C \in Seq(Nat) /\ Len(C) = a + b
      /\ \A i \in 1 .. a + b : C[i] = IF i <= a THEN S[i] ELSE T[i - a]
  BY LenProperties DEF Joined
<1>2. (\A k \in 1 .. a : S[k] \in Nat) /\ \A k \in 1 .. b : T[k] \in Nat
  BY ElementOfSeq
<1>3. (\A k \in 1 .. a : ~ (PDX(S[k]) >= 1)) /\ \A k \in 1 .. b : PDX(T[k]) >= 1
  BY DEF Part
<1>4. (\A j, k \in 1 .. a : j < k => S[j] < S[k]) /\ \A j, k \in 1 .. b : j < k => T[j] < T[k]
  BY DEF Part, Ascending
<1>5. /\ \A k \in 1 .. a : \E m \in 1 .. n : S[k] = L[m]
      /\ \A k \in 1 .. b : \E m \in 1 .. n : T[k] = L[m]
  BY DEF Part
<1> HIDE DEF a, b
<1>6. \A j \in 1 .. Len(C) : \/ j \in 1 .. a /\ C[j] = S[j]
                             \/ j > a /\ j - a \in 1 .. b /\ C[j] = T[j - a]
  <2> SUFFICES ASSUME NEW j \in 1 .. a + b
               PROVE  \/ j \in 1 .. a /\ C[j] = S[j]
                      \/ j > a /\ j - a \in 1 .. b /\ C[j] = T[j - a]
    BY <1>1
  <2>0. a \in Nat /\ b \in Nat
    BY <1>1
  <2>1. CASE j <= a
    <3>1. j \in 1 .. a
      BY <2>0, <2>1
    <3> QED BY <2>1, <3>1, <1>1
  <2>2. CASE ~ (j <= a)
    <3>1. j > a /\ j - a \in 1 .. b
      BY <2>0, <2>2
    <3> QED BY <2>2, <3>1, <1>1
  <2> QED BY <2>1, <2>2
<1>7. ASSUME NEW j \in 1 .. Len(C) PROVE \E m \in 1 .. n : C[j] = L[m]
  <2>1. CASE j \in 1 .. a /\ C[j] = S[j]
    BY <2>1, <1>5
  <2>2. CASE j - a \in 1 .. b /\ C[j] = T[j - a]
    BY <2>2, <1>5
  <2> QED BY <1>6, <2>1, <2>2
<1>8. \A i : Has(S, i) \/ Has(T, i) => Has(C, i)
  <2>1. ASSUME NEW k \in 1 .. a PROVE k \in 1 .. Len(C) /\ C[k] = S[k]
    <3>0. a \in Nat /\ b \in Nat /\ Len(C) = a + b
      BY <1>1
    <3>1. k \in 1 .. a + b /\ k <= a
      BY <3>0
    <3> QED BY <3>0, <3>1, <1>1
  <2>2. ASSUME NEW k \in 1 .. b PROVE k + a \in 1 .. Len(C) /\ C[k + a] = T[k]
    <3>0. a \in Nat /\ b \in Nat /\ Len(C) = a + b
      BY <1>1
    <3>1. k + a \in 1 .. a + b /\ ~ (k + a <= a) /\ (k + a) - a = k
      BY <3>0
    <3>2. C[k + a] = T[(k + a) - a]
      BY <3>1, <1>1
    <3> QED BY <3>0, <3>1, <3>2
  <2> QED BY <2>1, <2>2 DEF Has, a, b
<1>9. ASSUME NEW j \in 1 .. Len(C), NEW k \in 1 .. Len(C)
      PROVE  /\ C[j] = C[k] => j = k
             /\ C[j] < PTPAGES /\ C[k] >= PTPAGES => j < k
  <2>1. j \in Nat /\ k \in Nat /\ C[j] \in Nat /\ C[k] \in Nat /\ PTPAGES \in Nat
    <3>1. Len(C) \in Nat
      BY <1>1, LenProperties
    <3>2. C[j] \in Nat /\ C[k] \in Nat
      BY <1>1, ElementOfSeq
    <3> QED BY <3>1, <3>2, Sizes
  <2>2. CASE j \in 1 .. a /\ C[j] = S[j] /\ k \in 1 .. a /\ C[k] = S[k]
    <3>1. (j < k => S[j] < S[k]) /\ (k < j => S[k] < S[j])
      BY <2>2, <1>4
    <3>2. (j < k => C[j] < C[k]) /\ (k < j => C[k] < C[j])
      BY <2>2, <3>1
    <3>3. j = k => C[j] = C[k]
      OBVIOUS
    <3> QED BY <3>2, <3>3, <2>1, PlacesOrdered
  <2>3. CASE /\ j > a /\ j - a \in 1 .. b /\ C[j] = T[j - a]
             /\ k > a /\ k - a \in 1 .. b /\ C[k] = T[k - a]
    <3>1. (j < k => j - a < k - a) /\ (k < j => k - a < j - a)
      BY <2>1, <1>1
    <3>2. (j < k => C[j] < C[k]) /\ (k < j => C[k] < C[j])
      BY <2>3, <3>1, <1>4
    <3>3. ~ (C[j] < PTPAGES)
      <4>1. PDX(C[j]) >= 1
        BY <2>3, <1>3
      <4> QED BY <4>1, <2>1, FirstPages
    <3>4. C[j] = C[k] => j = k
      BY <3>2, <2>1
    <3> QED BY <3>3, <3>4
  <2>4. CASE j \in 1 .. a /\ C[j] = S[j] /\ k > a /\ k - a \in 1 .. b /\ C[k] = T[k - a]
    <3>1. C[j] # C[k]
      BY <2>4, <1>3
    <3>2. j < k
      BY <2>1, <2>4, <1>1
    <3> QED BY <3>1, <3>2
  <2>5. CASE j > a /\ j - a \in 1 .. b /\ C[j] = T[j - a] /\ k \in 1 .. a /\ C[k] = S[k]
    <3>1. C[j] # C[k]
      BY <2>5, <1>3
    <3>2. ~ (C[j] < PTPAGES)
      BY <2>1, <2>5, <1>3, FirstPages
    <3> QED BY <3>1, <3>2
  <2> QED BY <1>6, <2>2, <2>3, <2>4, <2>5
<1> QED BY <1>1, <1>7, <1>8, <1>9 DEF a, b

(* Which pages are free depends on the memory alone. *)
LEMMA SameMem ==
  ASSUME mem' = mem
  PROVE  FreePages' = FreePages
BY DEF FreePages, page_init_free

(* The pages that the tables do not take. *)
LEMMA TablesTaken ==
  ASSUME NEW S \in Seq(Nat), Ascending(S), NTables <= Len(S),
         NEW T, T = SubSeq(S, NTables + 1, Len(S))
  PROVE  /\ T \in Seq(Nat) /\ Len(T) = Len(S) - NTables /\ Ascending(T)
         /\ \A k \in 1 .. Len(T) : k + NTables \in 1 .. Len(S) /\ T[k] = S[k + NTables]
<1> DEFINE n == Len(S)
           t == NTables
<1>1. n \in Nat /\ t \in Nat /\ t <= n /\ \A i \in 1 .. n : S[i] \in Nat
  BY Sizes, LenProperties, ElementOfSeq
<1> HIDE DEF n, t
<1>2. t + 1 \in Int /\ n \in Int /\ \A i \in t + 1 .. n : S[i] \in Nat
  BY <1>1
<1>3. /\ T \in Seq(Nat) /\ Len(T) = IF t + 1 <= n THEN n - (t + 1) + 1 ELSE 0
      /\ \A i \in 1 .. n - (t + 1) + 1 : T[i] = S[(t + 1) + i - 1]
  BY <1>2, SubSeqProperties DEF n, t
<1>4. Len(T) = n - t
  BY <1>1, <1>3
<1>5. ASSUME NEW k \in 1 .. Len(T) PROVE k \in Nat /\ k + t \in 1 .. n /\ T[k] = S[k + t]
  <2> DEFINE z == Len(T)
  <2>a. k \in 1 .. z /\ z = n - t
    BY <1>4
  <2> HIDE DEF z
  <2>0. k \in Nat /\ k > 0 /\ k <= n - t
    BY <2>a, <1>1
  <2>1. k \in Nat /\ k + t \in 1 .. n /\ (t + 1) + k - 1 = k + t /\ k \in 1 .. n - (t + 1) + 1
    BY <1>1, <2>0
  <2>2. T[k] = S[(t + 1) + k - 1]
    BY <2>1, <1>3
  <2> QED BY <2>1, <2>2
<1>6. Ascending(T)
  <2> SUFFICES ASSUME NEW j \in 1 .. Len(T), NEW k \in 1 .. Len(T), j < k
               PROVE  T[j] < T[k]
    BY DEF Ascending
  <2>1. j + t < k + t
    BY <1>1, <1>5
  <2>2. S[j + t] < S[k + t]
    BY <2>1, <1>5 DEF Ascending, n
  <2> QED BY <2>2, <1>5
<1> QED BY <1>3, <1>4, <1>5, <1>6 DEF n, t

(* page_init() puts the free pages on the list in their order. *)
LEMMA ListBuilt ==
  ASSUME BootTypes, ListInv, page_init
  PROVE  ListInv'
<1>0. stage = "page_init" /\ mem' = mem /\ pp' = pp
  BY DEF page_init, Round, Done
<1>1. /\ stage = "page_init" /\ mem' = mem /\ pp' = pp /\ FreePages' = FreePages
      /\ page_free_list \in Seq(Nat) /\ loop \in Nat /\ mem.npages \in Nat
      /\ pp = <<<<>>, <<>>>>
  BY <1>0, SameMem DEF BootTypes, ListTypes, MemTypes, ListInv
<1>2. /\ loop <= mem.npages /\ Ascending(page_free_list)
      /\ Elements(page_free_list) = {i \in FreePages : i < loop}
  BY <1>1 DEF ListInv
<1>3. \A i \in FreePages : i \in Nat /\ i < mem.npages
  BY <1>1 DEF FreePages
<1>4. DOMAIN page_free_list = 1 .. Len(page_free_list)
  BY <1>1, LenProperties
<1>5. CASE Round("page_init", mem.npages - 1)
  <2>1. /\ loop <= mem.npages - 1 /\ loop' = loop + 1 /\ stage' = "page_init"
        /\ page_free_list' = IF page_init_free(loop, mem) THEN Append(page_free_list, loop)
                             ELSE page_free_list
    BY <1>1, <1>5 DEF page_init, Round, Done
  <2>2. loop + 1 <= mem.npages /\ (loop \in FreePages <=> page_init_free(loop, mem))
    BY <1>1, <2>1 DEF FreePages
  <2>3. Ascending(page_free_list') /\ Elements(page_free_list') = {i \in FreePages : i < loop + 1}
    <3>1. CASE page_init_free(loop, mem)
      <4>1. \A k \in 1 .. Len(page_free_list) : page_free_list[k] < loop
        BY <1>2, <1>4 DEF Elements
      <4>2. /\ Ascending(page_free_list')
            /\ Elements(page_free_list') = Elements(page_free_list) \cup {loop}
        BY <2>1, <3>1, <4>1, <1>1, <1>2, AscendingAppend
      <4>3. \A i \in FreePages : i < loop + 1 <=> i < loop \/ i = loop
        BY <1>1, <1>3
      <4> QED BY <4>2, <4>3, <1>2, <2>2, <3>1
    <3>2. CASE ~ page_init_free(loop, mem)
      <4>1. \A i \in FreePages : i < loop + 1 <=> i < loop
        <5> SUFFICES ASSUME NEW i \in FreePages PROVE i < loop + 1 <=> i < loop
          OBVIOUS
        <5>1. i # loop /\ i \in Nat
          BY <2>2, <3>2, <1>3
        <5> QED BY <5>1, <1>1
      <4> QED BY <4>1, <1>2, <2>1, <3>2
    <3> QED BY <3>1, <3>2
  <2>4. \A k \in DOMAIN page_free_list' : page_free_list'[k] \in FreePages
    BY <2>3 DEF Elements
  <2> QED BY <1>1, <2>1, <2>2, <2>3, <2>4 DEF ListInv, Unlisted, Sizing, Early, Listing, Tested
<1>6. CASE Done("page_init", mem.npages - 1, "allocator", 0)
  <2>1. /\ loop > mem.npages - 1 /\ stage' = "allocator" /\ page_free_list' = page_free_list
        /\ listed' = Elements(page_free_list)
    BY <1>1, <1>6 DEF page_init, Round, Done, Elements
  <2>2. Elements(page_free_list) = FreePages
    <3>1. loop = mem.npages
      BY <1>1, <1>2, <2>1
    <3> QED BY <3>1, <1>2, <1>3
  <2>3. \A k \in DOMAIN page_free_list : page_free_list[k] \in FreePages
    BY DEF ListInv
  <2> QED BY <1>1, <1>2, <2>1, <2>2, <2>3 DEF ListInv, Unlisted, Sizing, Early, Listing, Tested
<1> QED BY <1>5, <1>6 DEF page_init

(* boot_map_region() takes its tables from the front of the list. *)
LEMMA ListTaken ==
  ASSUME BootTypes, ListInv, take_tables
  PROVE  ListInv'
<1> DEFINE S == page_free_list
           T == page_free_list'
<1>1. /\ stage = "stacks" /\ loop' = 1 /\ mem' = mem /\ listed' = listed /\ pp' = pp
      /\ \/ stage' = "panic" /\ T = S
         \/ /\ ~ (Len(S) < NTables) /\ stage' = "reorder"
            /\ T = SubSeq(S, NTables + 1, Len(S))
  BY DEF take_tables
<1>2. /\ S \in Seq(Nat) /\ Ascending(S) /\ listed = FreePages /\ Elements(S) = FreePages
      /\ pp = <<<<>>, <<>>>> /\ FreePages' = FreePages
      /\ \A k \in DOMAIN S : S[k] \in FreePages
  BY <1>1, SameMem DEF BootTypes, ListTypes, ListInv
<1> HIDE DEF S
<1>3. CASE stage' = "panic" /\ T = S
  <2>1. \A k \in DOMAIN T : T[k] \in FreePages
    BY <1>2, <1>3
  <2> QED BY <2>1, <1>2, <1>3 DEF ListInv, Unlisted, Sizing, Early, Listing, Tested
<1>4. CASE ~ (Len(S) < NTables) /\ stage' = "reorder" /\ T = SubSeq(S, NTables + 1, Len(S))
  <2>1. Len(S) \in Nat /\ NTables \in Nat /\ NTables <= Len(S) /\ DOMAIN S = 1 .. Len(S)
    BY <1>2, <1>4, Sizes, LenProperties
  <2>2. /\ T \in Seq(Nat) /\ Len(T) = Len(S) - NTables /\ Ascending(T)
        /\ \A k \in 1 .. Len(T) : k + NTables \in 1 .. Len(S) /\ T[k] = S[k + NTables]
    <3> HIDE DEF T
    <3>1. S \in Seq(Nat) /\ Ascending(S) /\ NTables <= Len(S)
      BY <1>2, <2>1
    <3>2. T = SubSeq(S, NTables + 1, Len(S))
      BY <1>4
    <3> QED BY <3>1, <3>2, TablesTaken
  <2> HIDE DEF T
  <2>3. Len(T) + NTables = Cardinality(listed)
    <3>1. Cardinality(Elements(S)) = Len(S)
      BY <1>2, AscendingOnce
    <3> QED BY <3>1, <1>2, <2>1, <2>2
  <2>4. DOMAIN T = 1 .. Len(T) /\ Len(T) \in Nat
    BY <2>2, LenProperties
  <2>5. \A k \in DOMAIN T : T[k] \in FreePages
    BY <1>2, <2>1, <2>2, <2>4
  <2>6. ASSUME NEW t PROVE Part(<<>>, t, T, 0)
    <3>1. Len(<<>>) = 0
      OBVIOUS
    <3> QED BY <3>1 DEF Part, Ascending
  <2>7. pp' = <<<<>>, <<>>>> /\ loop' = 1
    BY <1>1, <1>2
  <2>8. /\ pp'[1] = <<>> /\ pp'[2] = <<>> /\ Len(pp'[1]) + Len(pp'[2]) = loop' - 1
        /\ loop' - 1 = 0 /\ loop' <= Len(T) + 1
    BY <2>7, <2>4
  <2>9. SplitInv'
    <3>1. Part(pp'[1], 1, T, loop' - 1) /\ Part(pp'[2], 2, T, loop' - 1)
      BY <2>6, <2>8
    <3>2. \A m \in 1 .. loop' - 1 : Has(pp'[1], T[m]) \/ Has(pp'[2], T[m])
      BY <2>8
    <3>3. Ascending(T) /\ listed' = FreePages' /\ Len(T) + NTables = Cardinality(listed')
      BY <2>2, <2>3, <1>1, <1>2
    <3> QED BY <3>1, <3>2, <3>3, <2>8 DEF SplitInv, T
  <2>10. \A k \in DOMAIN T : T[k] \in FreePages'
    BY <2>5, <1>2
  <2> QED BY <2>9, <2>10, <1>4 DEF ListInv, Unlisted, Sizing, Early, Listing, Tested, T
<1> QED BY <1>1, <1>3, <1>4 DEF S

(* check_page_free_list() sorts one more page into its part. *)
LEMMA ListSplit ==
  ASSUME BootTypes, ListInv, reorder_page
  PROVE  ListInv'
<1> DEFINE L == page_free_list
           x == L[loop]
           t == IF PDX(x) >= 1 THEN 2 ELSE 1
           u == IF PDX(x) >= 1 THEN 1 ELSE 2
           n == loop - 1
<1>1. /\ stage = "reorder" /\ stage' = "reorder" /\ loop' = loop + 1 /\ mem' = mem
      /\ listed' = listed /\ page_free_list' = L /\ loop <= Len(L)
      /\ pp' = [pp EXCEPT ![t] = Append(pp[t], x)]
  BY DEF reorder_page, Round
<1>2. /\ L \in Seq(Nat) /\ pp \in [1 .. 2 -> Seq(Nat)] /\ loop \in Nat /\ loop > 0
      /\ FreePages' = FreePages
  BY <1>1, SameMem DEF BootTypes, ListTypes
<1>3. /\ SplitInv /\ \A k \in DOMAIN L : L[k] \in FreePages
  BY <1>1 DEF ListInv
<1>4. /\ Ascending(L) /\ Len(pp[1]) + Len(pp[2]) = n
      /\ Part(pp[1], 1, L, n) /\ Part(pp[2], 2, L, n)
      /\ \A m \in 1 .. n : Has(pp[1], L[m]) \/ Has(pp[2], L[m])
  BY <1>3 DEF SplitInv
<1>5. /\ t \in 1 .. 2 /\ u \in 1 .. 2 /\ t # u /\ (PDX(x) >= 1 <=> t = 2)
      /\ \/ t = 1 /\ u = 2
         \/ t = 2 /\ u = 1
  OBVIOUS
<1>6. n \in Nat /\ n + 1 = loop /\ n + 1 <= Len(L) /\ Len(L) \in Nat
  BY <1>1, <1>2, LenProperties
<1>7. x \in Nat /\ \A m \in 1 .. n : L[m] \in Nat
  <2>1. loop \in 1 .. Len(L) /\ \A m \in 1 .. n : m \in 1 .. Len(L)
    BY <1>1, <1>2, <1>6
  <2> QED BY <2>1, <1>2, ElementOfSeq
<1> HIDE DEF t, u, n, L
<1> DEFINE G == Append(pp[t], x)
<1>8. /\ Part(pp[t], t, L, n) /\ Part(pp[u], u, L, n)
      /\ pp[t] \in Seq(Nat) /\ pp[u] \in Seq(Nat) /\ Len(pp[t]) + Len(pp[u]) = n
      /\ \A m \in 1 .. n : Has(pp[t], L[m]) \/ Has(pp[u], L[m])
  <2>1. CASE t = 1
    BY <2>1, <1>2, <1>4, <1>5
  <2>2. CASE t = 2
    <3>1. u = 1
      BY <2>2, <1>5
    <3>2. Len(pp[1]) \in Nat /\ Len(pp[2]) \in Nat
      BY <1>2, LenProperties
    <3> QED BY <2>2, <3>1, <3>2, <1>2, <1>4
  <2> QED BY <1>5, <2>1, <2>2
<1>9. /\ Part(G, t, L, n + 1) /\ Len(G) = Len(pp[t]) + 1 /\ Has(G, x)
      /\ \A i \in Nat : Has(pp[t], i) => Has(G, i)
  <2>1. L[n + 1] = x
    BY <1>6
  <2> HIDE DEF x
  <2>2. PDX(L[n + 1]) >= 1 <=> t = 2
    BY <2>1, <1>5
  <2>3. n + 1 <= Len(L) /\ n \in Nat /\ L \in Seq(Nat) /\ Ascending(L)
    BY <1>2, <1>4, <1>6
  <2>4. /\ Part(Append(pp[t], L[n + 1]), t, L, n + 1)
        /\ Len(Append(pp[t], L[n + 1])) = Len(pp[t]) + 1
        /\ Has(Append(pp[t], L[n + 1]), L[n + 1])
        /\ \A i \in Nat : Has(pp[t], i) => Has(Append(pp[t], L[n + 1]), i)
    <3>1. pp[t] \in Seq(Nat) /\ Part(pp[t], t, L, n)
      BY <1>8
    <3> QED BY <2>2, <2>3, <3>1, PartGrows
  <2> QED BY <2>1, <2>4 DEF G
<1>10. Part(pp[u], u, L, n + 1)
  BY <1>6, <1>8, PartStays
<1>11. pp'[t] = G /\ pp'[u] = pp[u]
  BY <1>1, <1>2, <1>5
<1> HIDE DEF G
<1>12. /\ Part(pp'[1], 1, L, n + 1) /\ Part(pp'[2], 2, L, n + 1)
       /\ Len(pp'[1]) + Len(pp'[2]) = n + 1
  <2>1. Part(pp'[t], t, L, n + 1) /\ Part(pp'[u], u, L, n + 1)
    BY <1>9, <1>10, <1>11
  <2>2. Part(pp'[1], 1, L, n + 1) /\ Part(pp'[2], 2, L, n + 1)
    BY <2>1, <1>5
  <2> DEFINE a == Len(pp[t])
             b == Len(pp[u])
             c == Len(G)
  <2>3. a \in Nat /\ b \in Nat /\ c = a + 1 /\ a + b = n
    BY <1>8, <1>9, LenProperties
  <2>4. \/ Len(pp'[1]) = c /\ Len(pp'[2]) = b
        \/ Len(pp'[2]) = c /\ Len(pp'[1]) = b
    BY <1>11, <1>5
  <2> HIDE DEF a, b, c
  <2>5. c + b = n + 1 /\ b + c = n + 1
    BY <2>3
  <2>6. Len(pp'[1]) + Len(pp'[2]) = n + 1
    BY <2>4, <2>5
  <2> QED BY <2>2, <2>6
<1>13. \A m \in 1 .. n + 1 : Has(pp'[1], L[m]) \/ Has(pp'[2], L[m])
  <2> SUFFICES ASSUME NEW m \in 1 .. n + 1
               PROVE  Has(pp'[1], L[m]) \/ Has(pp'[2], L[m])
    OBVIOUS
  <2>1. Has(pp'[t], L[m]) \/ Has(pp'[u], L[m])
    <3>1. CASE m = n + 1
      BY <3>1, <1>6, <1>9, <1>11
    <3>2. CASE m # n + 1
      <4>1. m \in 1 .. n
        BY <3>2, <1>6
      <4> QED BY <4>1, <1>7, <1>8, <1>9, <1>11
    <3> QED BY <3>1, <3>2
  <2> QED BY <2>1, <1>5
<1>14. SplitInv'
  <2>1. loop' - 1 = n + 1 /\ loop' <= Len(L) + 1
    BY <1>1, <1>6
  <2>2. Ascending(L) /\ listed' = FreePages' /\ Len(L) + NTables = Cardinality(listed')
    BY <1>1, <1>2, <1>3 DEF SplitInv, L
  <2> QED BY <2>1, <2>2, <1>1, <1>12, <1>13 DEF SplitInv
<1>15. \A k \in DOMAIN L : L[k] \in FreePages'
  BY <1>2, <1>3
<1> QED BY <1>1, <1>14, <1>15 DEF ListInv, Unlisted, Sizing, Early, Listing, Tested

(* check_page_free_list() joins the parts: as many pages as before. *)
LEMMA ListJoined ==
  ASSUME BootTypes, ListInv, check_page_free_list
  PROVE  /\ ListInv' /\ Remaining(NTables)'
         /\ \A k \in DOMAIN page_free_list' : page_free_list'[k] \in FreePages
<1> DEFINE L == page_free_list
           C == page_free_list'
           S == pp[1]
           T == pp[2]
           n == loop - 1
<1>1. /\ stage = "reorder" /\ stage' \in {"page_alloc", "panic"} /\ mem' = mem
      /\ listed' = listed /\ C = S \o T /\ loop > Len(L)
  BY DEF check_page_free_list
<1>2. /\ L \in Seq(Nat) /\ S \in Seq(Nat) /\ T \in Seq(Nat) /\ loop \in Nat
      /\ FreePages' = FreePages
  BY <1>1, SameMem DEF BootTypes, ListTypes
<1>3. SplitInv /\ \A k \in DOMAIN L : L[k] \in FreePages
  BY <1>1 DEF ListInv
<1>4. /\ loop <= Len(L) + 1 /\ Len(S) + Len(T) = n /\ Part(S, 1, L, n) /\ Part(T, 2, L, n)
      /\ Len(L) + NTables = Cardinality(listed) /\ listed = FreePages
  BY <1>3 DEF SplitInv
<1>5. DOMAIN L = 1 .. Len(L) /\ Len(L) \in Nat
  BY <1>2, LenProperties
<1>6. n = Len(L)
  <2> DEFINE z == Len(L)
  <2>1. loop \in Nat /\ z \in Nat /\ loop > z /\ loop <= z + 1
    BY <1>1, <1>2, <1>4, <1>5
  <2> HIDE DEF z
  <2>2. n = z
    BY <2>1
  <2> QED BY <2>2 DEF z
<1> HIDE DEF L, S, T, n
<1>7. C \in Seq(Nat) /\ Joined(C, S, T)
  BY <1>1, <1>2, ConcatProperties DEF Joined
<1> HIDE DEF C
<1>8. /\ \A j \in 1 .. Len(C) : \E m \in 1 .. n : C[j] = L[m]
      /\ \A j, k \in 1 .. Len(C) : /\ C[j] = C[k] => j = k
                                   /\ C[j] < PTPAGES /\ C[k] >= PTPAGES => j < k
  BY <1>2, <1>4, <1>7, PartsJoined
<1>9. Len(C) = Len(L) /\ DOMAIN C = 1 .. Len(C)
  BY <1>4, <1>6, <1>7, LenProperties DEF Joined
<1>10. \A k \in DOMAIN C : C[k] \in FreePages
  BY <1>3, <1>5, <1>6, <1>8, <1>9
<1>11. Remaining(NTables)' /\ LowFirst'
  <2>1. Len(C) + NTables = Cardinality(listed') /\ listed' = FreePages'
    BY <1>1, <1>2, <1>4, <1>9
  <2>2. \A j, k \in DOMAIN C : /\ C[j] = C[k] => j = k
                               /\ C[j] < PTPAGES /\ C[k] >= PTPAGES => j < k
    BY <1>8, <1>9
  <2> QED BY <2>1, <2>2 DEF Remaining, LowFirst, C
<1>12. \A k \in DOMAIN C : C[k] \in FreePages'
  BY <1>2, <1>10
<1>13. ListInv'
  BY <1>1, <1>11, <1>12 DEF ListInv, Unlisted, Sizing, Early, Listing, Tested, C
<1> QED BY <1>10, <1>11, <1>13 DEF C

(* check_page_alloc() puts its three pages back where they were. *)
LEMMA Reattached ==
  ASSUME NEW S \in Seq(Nat), ~ (Len(S) < 3)
  PROVE  <<S[1], S[2], S[3]>> \o SubSeq(S, 3 + 1, Len(S)) = S
<1> DEFINE n == Len(S)
           front == <<S[1], S[2], S[3]>>
           rest == SubSeq(S, 3 + 1, n)
           N == front \o rest
<1>1. n \in Nat /\ n >= 3 /\ \A k \in 1 .. n : S[k] \in Nat
  BY LenProperties, ElementOfSeq
<1>2. front \in Seq(Nat) /\ Len(front) = 3
  BY <1>1
<1>3. /\ rest \in Seq(Nat) /\ Len(rest) = IF 3 + 1 <= n THEN n - (3 + 1) + 1 ELSE 0
      /\ \A i \in 1 .. n - (3 + 1) + 1 : rest[i] = S[(3 + 1) + i - 1]
  <2> HIDE DEF n
  <2>1. 3 + 1 \in Int /\ n \in Int /\ \A i \in 3 + 1 .. n : S[i] \in Nat
    BY <1>1
  <2> QED BY <2>1, SubSeqProperties
<1> HIDE DEF n, rest
<1>4. Len(rest) = n - 3 /\ \A i \in 1 .. n - 3 : rest[i] = S[i + 3]
  BY <1>1, <1>3
<1>5. /\ N \in Seq(Nat) /\ Len(N) = n
      /\ \A i \in 1 .. n : N[i] = IF i <= 3 THEN front[i] ELSE rest[i - 3]
  <2> HIDE DEF front
  <2>1. /\ N \in Seq(Nat) /\ Len(N) = Len(front) + Len(rest)
        /\ \A i \in 1 .. Len(front) + Len(rest) :
             N[i] = IF i <= Len(front) THEN front[i] ELSE rest[i - Len(front)]
    BY <1>2, <1>3, ConcatProperties
  <2>2. Len(front) + Len(rest) = n
    BY <1>1, <1>2, <1>4
  <2> QED BY <2>1, <2>2, <1>2
<1>6. ASSUME NEW i \in 1 .. n PROVE N[i] = S[i]
  <2>1. CASE i <= 3
    <3>1. front[i] = S[i]
      BY <2>1
    <3> QED BY <2>1, <3>1, <1>5
  <2>2. CASE ~ (i <= 3)
    <3>1. i - 3 \in 1 .. n - 3 /\ (i - 3) + 3 = i
      BY <2>2, <1>1
    <3>2. rest[i - 3] = S[i]
      BY <3>1, <1>4
    <3> QED BY <2>2, <3>2, <1>5
  <2> QED BY <2>1, <2>2
<1> HIDE DEF N
<1>7. Len(N) = Len(S) /\ \A i \in 1 .. Len(N) : N[i] = S[i]
  BY <1>5, <1>6 DEF n
<1>8. N = S
  BY <1>5, <1>7, SeqEqual
<1> QED BY <1>8 DEF N, rest, n

(* Of six pages that page_check() takes it puts three back, and one of these goes:
   where the pages of the list it leaves were.                             *)
WasAt(k) == IF k = 1 THEN 3 ELSE IF k = 2 THEN 1 ELSE k + 4
MovedBy(S, rest, W, N, n) ==
  /\ \A i \in 1 .. n - 4 : N[i] = W[i + 1]
  /\ W[2] = S[3] /\ W[3] = S[1] /\ \A i \in 4 .. n - 3 : W[i] = rest[i - 3]
  /\ \A i \in 1 .. n - 6 : rest[i] = S[i + 6]
LEMMA Displaced ==
  ASSUME NEW n \in Nat, n >= 6, NEW S, NEW rest, NEW W, NEW N, MovedBy(S, rest, W, N, n)
  PROVE  \A k \in 1 .. n - 4 : WasAt(k) \in 1 .. n /\ N[k] = S[WasAt(k)]
<1> SUFFICES ASSUME NEW k \in 1 .. n - 4 PROVE WasAt(k) \in 1 .. n /\ N[k] = S[WasAt(k)]
  OBVIOUS
<1>1. WasAt(k) \in 1 .. n
  BY DEF WasAt
<1>2. N[k] = W[k + 1]
  BY DEF MovedBy
<1>3. CASE k = 1
  BY <1>1, <1>2, <1>3 DEF WasAt, MovedBy
<1>4. CASE k = 2
  BY <1>1, <1>2, <1>4 DEF WasAt, MovedBy
<1>5. CASE k > 2
  <2>1. k + 1 \in 4 .. n - 3 /\ (k + 1) - 3 = k - 2 /\ k - 2 \in 1 .. n - 6 /\ (k - 2) + 6 = k + 4
    BY <1>5
  <2>2. W[k + 1] = rest[k - 2] /\ rest[k - 2] = S[k + 4]
    BY <2>1 DEF MovedBy
  <2> QED BY <1>1, <1>2, <1>5, <2>2 DEF WasAt
<1> QED BY <1>3, <1>4, <1>5

LEMMA Shortened ==
  ASSUME NEW S \in Seq(Nat), ~ (Len(S) < 6)
  PROVE  LET N == Tail(<<S[4], S[3], S[1]>> \o SubSeq(S, 6 + 1, Len(S))) IN
         /\ N \in Seq(Nat) /\ Len(N) = Len(S) - 4 /\ Len(S) \in Nat
         /\ \A k \in 1 .. Len(N) : WasAt(k) \in 1 .. Len(S) /\ N[k] = S[WasAt(k)]
<1> DEFINE n == Len(S)
           front == <<S[4], S[3], S[1]>>
           rest == SubSeq(S, 6 + 1, n)
           W == front \o rest
           N == Tail(W)
<1>1. n \in Nat /\ n >= 6 /\ \A k \in 1 .. n : S[k] \in Nat
  BY LenProperties, ElementOfSeq
<1>2. front \in Seq(Nat) /\ Len(front) = 3
  BY <1>1
<1>3. /\ rest \in Seq(Nat) /\ Len(rest) = IF 6 + 1 <= n THEN n - (6 + 1) + 1 ELSE 0
      /\ \A i \in 1 .. n - (6 + 1) + 1 : rest[i] = S[(6 + 1) + i - 1]
  <2> HIDE DEF n
  <2>1. 6 + 1 \in Int /\ n \in Int /\ \A i \in 6 + 1 .. n : S[i] \in Nat
    BY <1>1
  <2> QED BY <2>1, SubSeqProperties
<1> HIDE DEF n, rest
<1>5. Len(rest) = n - 6 /\ \A i \in 1 .. n - 6 : rest[i] = S[i + 6]
  BY <1>1, <1>3
<1>6. /\ W \in Seq(Nat) /\ Len(W) = n - 3
      /\ \A i \in 1 .. n - 3 : W[i] = IF i <= 3 THEN front[i] ELSE rest[i - 3]
  <2> HIDE DEF front
  <2>1. /\ W \in Seq(Nat) /\ Len(W) = Len(front) + Len(rest)
        /\ \A i \in 1 .. Len(front) + Len(rest) :
             W[i] = IF i <= Len(front) THEN front[i] ELSE rest[i - Len(front)]
    BY <1>2, <1>3, ConcatProperties
  <2>2. Len(front) + Len(rest) = n - 3
    BY <1>1, <1>2, <1>5
  <2> QED BY <2>1, <2>2, <1>2
<1> HIDE DEF W
<1>7. N \in Seq(Nat) /\ Len(N) = n - 4 /\ \A i \in 1 .. n - 4 : N[i] = W[i + 1]
  <2>1. W # <<>>
    BY <1>1, <1>6
  <2>2. /\ Tail(W) \in Seq(Nat) /\ Len(Tail(W)) = Len(W) - 1
        /\ \A i \in 1 .. Len(Tail(W)) : Tail(W)[i] = W[i + 1]
    BY <2>1, <1>6, HeadTailProperties
  <2>3. Len(W) - 1 = n - 4
    BY <1>1, <1>6
  <2> QED BY <2>2, <2>3
<1> HIDE DEF N
<1>8. /\ W[2] = S[3] /\ W[3] = S[1]
      /\ \A i \in 4 .. n - 3 : W[i] = rest[i - 3]
  <2>1. front[2] = S[3] /\ front[3] = S[1]
    OBVIOUS
  <2> HIDE DEF front
  <2>2. 2 \in 1 .. n - 3 /\ 3 \in 1 .. n - 3
    BY <1>1
  <2>3. ASSUME NEW i \in 4 .. n - 3 PROVE W[i] = rest[i - 3]
    <3>1. i \in 1 .. n - 3 /\ ~ (i <= 3)
      BY <1>1
    <3> QED BY <3>1, <1>6, Zenon
  <2>4. W[2] = front[2] /\ W[3] = front[3]
    <3>1. 2 <= 3 /\ 3 <= 3
      OBVIOUS
    <3> QED BY <3>1, <2>2, <1>6, Zenon
  <2> QED BY <2>1, <2>3, <2>4
<1>9. \A k \in 1 .. n - 4 : WasAt(k) \in 1 .. n /\ N[k] = S[WasAt(k)]
  <2>1. n \in Nat /\ n >= 6
    BY <1>1
  <2>2. MovedBy(S, rest, W, N, n)
    BY <1>5, <1>7, <1>8, Zenon DEF MovedBy
  <2> QED BY <2>1, <2>2, Displaced
<1> QED BY <1>1, <1>7, <1>9 DEF n, N, W, rest

(* check_page_alloc() leaves the list as it is. *)
LEMMA ListTested ==
  ASSUME BootTypes, ListInv, check_page_alloc
  PROVE  ListInv'
<1>1. /\ stage = "page_alloc" /\ stage' \in {"page_check", "panic"} /\ mem' = mem
      /\ UNCHANGED <<listed, pp>>
  BY DEF check_page_alloc
<1>2. page_free_list' = page_free_list
  <2>1. CASE Len(page_free_list) < 3
    BY <2>1 DEF check_page_alloc
  <2>2. CASE ~ (Len(page_free_list) < 3)
    <3>1. page_free_list \in Seq(Nat)
      BY DEF BootTypes, ListTypes
    <3>2. /\ taken(0) = page_free_list[1] /\ taken(1) = page_free_list[2]
          /\ taken(2) = page_free_list[3]
          /\ left(3) = SubSeq(page_free_list, 3 + 1, Len(page_free_list))
      BY DEF taken, left
    <3>3. <<taken(0), taken(1), taken(2)>> \o left(3) = page_free_list
      BY <2>2, <3>1, <3>2, Reattached, Zenon
    <3>4. page_free_list' = <<taken(0), taken(1), taken(2)>> \o left(3)
      BY <2>2, Zenon DEF check_page_alloc
    <3> QED BY <3>3, <3>4
  <2> QED BY <2>1, <2>2
<1>3. FreePages' = FreePages
  BY <1>1, SameMem
<1> QED BY <1>1, <1>2, <1>3
    DEF ListInv, Remaining, LowFirst, Unlisted, Sizing, Early, Listing, Tested

(* page_check() loses three pages, and a fourth becomes a table. *)
LEMMA ListLoses ==
  ASSUME BootTypes, ListInv, page_check
  PROVE  ListInv'
<1> DEFINE S == page_free_list
           N == page_free_list'
<1>1. /\ stage = "page_check" /\ stage' \in {"recheck", "panic"} /\ mem' = mem
      /\ UNCHANGED <<listed, pp>>
  BY DEF page_check
<1>2. FreePages' = FreePages
  BY <1>1, SameMem
<1>3. S \in Seq(Nat) /\ DOMAIN S = 1 .. Len(S) /\ \A k \in DOMAIN S : S[k] \in FreePages
  BY LenProperties DEF BootTypes, ListTypes, ListInv
<1>4. /\ listed = FreePages /\ Len(S) + NTables = Cardinality(listed)
      /\ \A j, k \in DOMAIN S : S[j] = S[k] => j = k
  BY <1>1 DEF ListInv, Remaining, Listing
<1>5. CASE Len(S) < 6
  <2>1. N = S /\ stage' = "panic"
    BY <1>5 DEF page_check
  <2> QED BY <2>1, <1>1, <1>2, <1>3 DEF ListInv, Unlisted, Sizing, Early, Listing, Tested
<1>6. CASE ~ (Len(S) < 6)
  <2>1. N = Tail(<<S[4], S[3], S[1]>> \o SubSeq(S, 6 + 1, Len(S)))
    <3>1. N = Tail(<<taken(3), taken(2), taken(0)>> \o left(6))
      BY <1>6 DEF page_check
    <3>2. taken(3) = S[4] /\ taken(2) = S[3] /\ taken(0) = S[1] /\ left(6) = SubSeq(S, 6 + 1, Len(S))
      BY DEF taken, left
    <3> QED BY <3>1, <3>2
  <2> HIDE DEF S, N
  <2>2. /\ N \in Seq(Nat) /\ Len(N) = Len(S) - 4 /\ Len(S) \in Nat
        /\ \A k \in 1 .. Len(N) : WasAt(k) \in 1 .. Len(S) /\ N[k] = S[WasAt(k)]
    BY <2>1, <1>3, <1>6, Shortened
  <2>3. DOMAIN N = 1 .. Len(N) /\ Len(N) \in Nat
    BY <2>2, LenProperties
  <2>4. \A k \in DOMAIN N : N[k] \in FreePages'
    BY <2>2, <2>3, <1>2, <1>3
  <2>5. \A j, k \in DOMAIN N : N[j] = N[k] => j = k
    <3> SUFFICES ASSUME NEW j \in DOMAIN N, NEW k \in DOMAIN N, N[j] = N[k] PROVE j = k
      OBVIOUS
    <3>1. WasAt(j) = WasAt(k)
      <4>1. WasAt(j) \in DOMAIN S /\ WasAt(k) \in DOMAIN S /\ S[WasAt(j)] = S[WasAt(k)]
        BY <2>2, <2>3, <1>3
      <4> QED BY <4>1, <1>4
    <3>2. j \in Nat /\ k \in Nat /\ j > 0 /\ k > 0
      BY <2>3
    <3> QED BY <3>1, <3>2 DEF WasAt
  <2>6. Len(N) + (NTables + 4) = Cardinality(listed')
    <3> DEFINE a == Len(N)
               b == Len(S)
    <3>1. a = b - 4 /\ b \in Nat /\ NTables \in Nat /\ b + NTables = Cardinality(listed')
      BY <2>2, <1>1, <1>4, Sizes
    <3> HIDE DEF a, b
    <3>2. a + (NTables + 4) = b + NTables
      BY <3>1
    <3> QED BY <3>1, <3>2 DEF a
  <2>7. Remaining(NTables + 4)'
    BY <2>5, <2>6, <1>1, <1>2, <1>4 DEF Remaining, N
  <2> QED BY <2>4, <2>7, <1>1 DEF ListInv, Unlisted, Sizing, Early, Listing, Tested, N
<1> QED BY <1>5, <1>6

(* The steps before page_init(). *)
LEMMA ListStart ==
  ASSUME BootTypes, ListInv,
         \/ bootmain \/ load_segment \/ i386_detect_memory \/ insert_region \/ sanitize_region
         \/ add_region \/ count_pages \/ boot_arrays
  PROVE  ListInv'
<1>1. /\ stage \in Unlisted /\ stage' \in Unlisted \cup {"page_init", "panic"}
      /\ UNCHANGED lists /\ (stage' = "page_init" => loop' = 0)
  <2> USE DEF Unlisted, Sizing, Early, Listing, Tested
  <2>1. CASE bootmain \/ load_segment \/ i386_detect_memory
    BY <2>1 DEF bootmain, load_segment, i386_detect_memory, Round, Done
  <2>2. CASE insert_region \/ sanitize_region \/ add_region
    BY <2>2 DEF insert_region, sanitize_region, add_region, Round, Done
  <2>3. CASE count_pages \/ boot_arrays
    BY <2>3 DEF count_pages, boot_arrays
  <2> QED BY <2>1, <2>2, <2>3
<1>2. page_free_list' = <<>> /\ pp' = <<<<>>, <<>>>>
  BY <1>1 DEF ListInv, lists
<1>3. DOMAIN page_free_list' = {} /\ Len(page_free_list') = 0
  BY <1>2
<1>4. Elements(page_free_list') = {} /\ Ascending(page_free_list')
  BY <1>3 DEF Elements, Ascending
<1>5. ASSUME stage' = "page_init"
      PROVE  /\ loop' <= mem'.npages
             /\ Elements(page_free_list') = {i \in FreePages' : i < loop'}
  <2>1. CASE boot_arrays
    <3>1. mem'.npages = mem.npages /\ mem.npages \in Nat
      BY <2>1 DEF boot_arrays, BootTypes, MemTypes
    <3>2. \A i \in FreePages' : i \in 0 .. mem'.npages - 1
      BY DEF FreePages
    <3>3. \A i \in FreePages' : ~ (i < 0)
      BY <3>1, <3>2
    <3> QED BY <1>1, <1>4, <1>5, <3>1, <3>3
  <2>2. CASE ~ boot_arrays
    <3>1. CASE bootmain \/ load_segment \/ i386_detect_memory \/ insert_region
      BY <3>1, <1>5
      DEF bootmain, load_segment, i386_detect_memory, insert_region, Round, Done
    <3>2. CASE sanitize_region \/ add_region \/ count_pages
      BY <3>2, <1>5 DEF sanitize_region, add_region, count_pages, Round, Done
    <3> QED BY <2>2, <3>1, <3>2
  <2> QED BY <2>1, <2>2
<1> QED BY <1>1, <1>2, <1>3, <1>4, <1>5 DEF ListInv, Unlisted, Sizing, Early, Listing, Tested

(* The free list keeps its pages through every step. *)
LEMMA ListStep ==
  ASSUME BootTypes, ListInv, [Next]_vars
  PROVE  ListInv'
<1>1. CASE \/ bootmain \/ load_segment \/ i386_detect_memory \/ insert_region \/ sanitize_region
           \/ add_region \/ count_pages \/ boot_arrays
  BY <1>1, ListStart
<1>2. CASE page_init
  BY <1>2, ListBuilt
<1>3. CASE x64_vm_init \/ map_stack
  <2>1. /\ stage \in {"allocator", "stacks"} /\ stage' = "stacks" /\ mem' = mem
        /\ UNCHANGED lists
    BY <1>3 DEF x64_vm_init, map_stack, Round
  <2>2. FreePages' = FreePages
    BY <2>1, SameMem
  <2> QED BY <2>1, <2>2 DEF ListInv, lists, Unlisted, Sizing, Early, Listing, Tested
<1>4. CASE take_tables
  BY <1>4, ListTaken
<1>5. CASE reorder_page
  BY <1>5, ListSplit
<1>6. CASE check_page_free_list
  BY <1>6, ListJoined
<1>7. CASE check_boot_pml4e \/ mp_init \/ mp_entry \/ bsp_lapic_init \/ ap_lapic_init
  <2>1. /\ stage \in Tested /\ mem' = mem /\ UNCHANGED lists
        /\ stage' \in Tested \cup {"panic"}
    <3>1. CASE check_boot_pml4e
      BY <3>1 DEF check_boot_pml4e, Tested
    <3>2. CASE mp_init \/ mp_entry \/ bsp_lapic_init \/ ap_lapic_init
      BY <3>2 DEF mp_init, mp_entry, bsp_lapic_init, ap_lapic_init, Round, Done, Tested
    <3> QED BY <1>7, <3>1, <3>2
  <2>2. FreePages' = FreePages
    BY <2>1, SameMem
  <2> QED BY <2>1, <2>2 DEF ListInv, Remaining, lists, Unlisted, Sizing, Early, Listing, Tested
<1>8. CASE UNCHANGED vars
  <2>1. mem' = mem /\ UNCHANGED <<page_free_list, listed, pp, stage, loop>>
    BY <1>8 DEF vars, lists
  <2>2. FreePages' = FreePages
    BY <2>1, SameMem
  <2>3. SplitInv' <=> SplitInv
    BY <2>1, <2>2 DEF SplitInv
  <2> QED BY <2>1, <2>2, <2>3 DEF ListInv, Remaining, LowFirst
<1>9. CASE check_page_alloc \/ page_check
  BY <1>9, ListTested, ListLoses
<1> QED BY <1>1, <1>2, <1>3, <1>4, <1>5, <1>6, <1>7, <1>8, <1>9 DEF Next

----------------------------------------------------------------------------
(* No assertion fails *)

(* pages[] and envs[] are mapped where users read them, and there are no more
   processors than CpuInfos.                                               *)
PagesMapped ==
  stage \in {"stacks", "reorder", "page_alloc", "page_check", "recheck"} =>
    \A i \in 0 .. PTPAGES - 1 : /\ kmap[UPAGES + i].pa = mem.pages \div PGSIZE + i
                                /\ kmap[UENVS + i].pa = mem.envs \div PGSIZE + i
NcpuInv == mp.ncpu <= NCPU

(* Why start-up may have stopped on a regular machine: too little memory, or more
   than the kernel has room for in its address space, or a self-test that looks
   at the word at address 0.                                               *)
Excuse ==
  \/ mem.npages = 0
  \/ mem.npages * PGSIZE < mem.nextfree + (NTables + 7) * PGSIZE
  \/ mem.npages * SizePageInfo > PTPAGES * PGSIZE
  \/ ~ machine.vector0
PanicInv == Regular /\ stage = "panic" => Excuse

(* Mapping pages[], envs[] and the stacks. *)
LEMMA PagesStep ==
  ASSUME BootTypes, LayoutInv, MmioInv, PagesMapped, [Next]_vars
  PROVE  PagesMapped'
<1>1. CASE x64_vm_init
  <2>1. stage' = "stacks" /\ mem' = mem
    BY <1>1 DEF x64_vm_init
  <2>2. ASSUME NEW i \in 0 .. PTPAGES - 1
        PROVE  kmap'[UPAGES + i].pa = mem.pages \div PGSIZE + i
    <3> DEFINE v == UPAGES + i
               a == mem.pages \div PGSIZE
    <3>1. a \in Nat
      BY Sizes, DownFacts DEF BootTypes, MemTypes
    <3>2. v \in Nat /\ v = PTPAGES + i /\ v < MMIOLIM /\ v >= PTPAGES
      BY Places, Sizes
    <3>3. v \in UPAGES .. UPAGES + PTPAGES - 1 /\ v - UPAGES = i
      BY Places, Sizes
    <3> HIDE DEF v, a
    <3>4. a + v - UPAGES = a + i
      BY <3>1, <3>2, Places, Sizes
    <3>5. v \in 0 .. KERNBASE + MaxPages
      BY <3>2, Places
    <3>6. mem.npages \in Nat
      BY DEF BootTypes, MemTypes
    <3>7. ~ (v \in KERNBASE .. KERNBASE + mem.npages - 1)
      BY <3>2, <3>6, Places, Sizes
    <3>8. ~ (v \in KSTACKTOP - KSTK .. KSTACKTOP - KSTK + KSTK - 1)
      <4>1. 0 \in 0 .. NCPU - 1 /\ KSTK \in 1 .. KSTK + KGAP
        BY Sizes
      <4>2. MMIOLIM <= Top(0) - KSTK
        BY <4>1, StackPlace
      <4>3. Top(0) = KSTACKTOP
        BY Sizes, Places DEF Top
      <4>4. KSTACKTOP - KSTK > v
        BY <4>2, <4>3, <3>2, Places, Sizes
      <4> QED BY <4>4, <3>2, Places, Sizes
    <3>9. ~ (v \in UENVS .. UENVS + PTPAGES - 1)
      BY <3>2, Places, Sizes
    <3>10. kmap'[v] = [pa |-> a + v - UPAGES, perm |-> "u"]
      BY <1>1, <3>3, <3>5, <3>7, <3>8, <3>9, BuiltMaps DEF a
    <3>11. kmap'[v].pa = a + i
      BY <3>4, <3>10
    <3> QED BY <3>11 DEF v, a
  <2>3. ASSUME NEW i \in 0 .. PTPAGES - 1
        PROVE  kmap'[UENVS + i].pa = mem.envs \div PGSIZE + i
    <3> DEFINE v == UENVS + i
               a == mem.envs \div PGSIZE
    <3>1. a \in Nat /\ mem.npages \in Nat
      BY Sizes, DownFacts DEF BootTypes, MemTypes
    <3>2. v \in Nat /\ v = i /\ v < PTPAGES /\ v < MMIOLIM
      BY Places, Sizes
    <3>3. v \in UENVS .. UENVS + PTPAGES - 1
      BY Places, Sizes
    <3>4. a + v - UENVS = a + i
      BY <3>1, <3>2, Places
    <3> HIDE DEF v, a
    <3>5. v \in 0 .. KERNBASE + MaxPages
      BY <3>2, Places
    <3>6. ~ (v \in KERNBASE .. KERNBASE + mem.npages - 1)
      BY <3>1, <3>2, Places, Sizes
    <3>7. ~ (v \in KSTACKTOP - KSTK .. KSTACKTOP - KSTK + KSTK - 1)
      <4>1. 0 \in 0 .. NCPU - 1 /\ KSTK \in 1 .. KSTK + KGAP
        BY Sizes
      <4>2. MMIOLIM <= Top(0) - KSTK
        BY <4>1, StackPlace
      <4>3. Top(0) = KSTACKTOP
        BY Sizes, Places DEF Top
      <4>4. KSTACKTOP - KSTK > v
        BY <4>2, <4>3, <3>2, Places, Sizes
      <4> QED BY <4>4, <3>2, Places, Sizes
    <3>8. kmap'[v] = [pa |-> a + v - UENVS, perm |-> "u"]
      BY <1>1, <3>3, <3>5, <3>6, <3>7, BuiltMaps DEF a
    <3>9. kmap'[v].pa = a + i
      BY <3>4, <3>8
    <3> QED BY <3>9 DEF v, a
  <2> QED BY <2>1, <2>2, <2>3 DEF PagesMapped
<1>2. CASE map_stack
  <2>1. /\ stage = "stacks" /\ stage' = "stacks" /\ mem' = mem
        /\ loop \in 0 .. NCPU - 1 /\ kmap' = mem_init_mp(kmap, loop)
    BY <1>2, Sizes DEF map_stack, Round, BootTypes
  <2>2. DOMAIN kmap = 0 .. KERNBASE + MaxPages
    BY DEF BootTypes, MapTypes
  <2> DEFINE la == Top(loop) - KSTK
  <2>3. kmap' = boot_map_region(kmap, la, KSTK, percpu_kstacks(loop), "w")
    BY <2>1 DEF mem_init_mp, Top
  <2>4. la \in Int /\ MMIOLIM <= la
    <3>1. KSTK \in 1 .. KSTK + KGAP
      BY Sizes
    <3> QED BY <3>1, <2>1, StackPlace
  <2> HIDE DEF la
  <2>5. ASSUME NEW v \in Nat, v < MMIOLIM
        PROVE  kmap'[v] = kmap[v]
    <3>1. v \in Nat /\ v < MMIOLIM
      BY <2>5
    <3>2. v \in 0 .. KERNBASE + MaxPages /\ ~ (v \in la .. la + KSTK - 1)
      BY <3>1, <2>4, Places, Sizes
    <3>3. kmap'[v] = IF v \in la .. la + KSTK - 1
                     THEN [pa |-> percpu_kstacks(loop) + v - la, perm |-> "w"] ELSE kmap[v]
      <4> DEFINE D == 0 .. KERNBASE + MaxPages
      <4>1. DOMAIN kmap = D /\ v \in D
        BY <2>2, <3>2
      <4> HIDE DEF D
      <4> QED BY <4>1, <2>3, RegionMaps
    <3> QED BY <3>2, <3>3
  <2>6. \A i \in 0 .. PTPAGES - 1 : /\ kmap'[UPAGES + i] = kmap[UPAGES + i]
                                    /\ kmap'[UENVS + i] = kmap[UENVS + i]
    <3> SUFFICES ASSUME NEW i \in 0 .. PTPAGES - 1
                 PROVE  kmap'[UPAGES + i] = kmap[UPAGES + i] /\ kmap'[UENVS + i] = kmap[UENVS + i]
      OBVIOUS
    <3>1. /\ UPAGES + i \in Nat /\ UPAGES + i < MMIOLIM
          /\ UENVS + i \in Nat /\ UENVS + i < MMIOLIM
      BY Places, Sizes
    <3> QED BY <3>1, <2>5
  <2> QED BY <2>1, <2>6 DEF PagesMapped
<1>3. CASE take_tables \/ reorder_page \/ (SelfTest /\ ~ page_check)
  <2>1. CASE take_tables \/ reorder_page
    <3>1. stage \in {"stacks", "reorder"} /\ mem' = mem /\ kmap' = kmap
      BY <2>1 DEF take_tables, reorder_page, Round
    <3> QED BY <3>1 DEF PagesMapped
  <2>2. CASE SelfTest /\ ~ page_check
    <3>1. stage \in {"reorder", "page_alloc", "page_check", "recheck"} /\ mem' = mem
      BY <2>2, SelfTestSteps
    <3>2. kmap' = kmap
      BY <2>2 DEF SelfTest, check_page_free_list, check_page_alloc, check_boot_pml4e
    <3> QED BY <3>1, <3>2 DEF PagesMapped
  <2> QED BY <1>3, <2>1, <2>2
<1>4. CASE page_check
  <2>1. stage = "page_check" /\ mem' = mem
    BY <1>4 DEF page_check
  <2>2. ASSUME NEW i \in 0 .. PTPAGES - 1
        PROVE  kmap'[UPAGES + i] = kmap[UPAGES + i] /\ kmap'[UENVS + i] = kmap[UENVS + i]
    <3>1. /\ UPAGES + i \in Nat /\ UPAGES + i < MMIOBASE
          /\ UENVS + i \in Nat /\ UENVS + i < MMIOBASE
      BY Places, Sizes
    <3>2. \A v \in Nat : v < MMIOBASE => v \in 0 .. KERNBASE + MaxPages /\ ~ (v \in MMIOBASE .. MMIOLIM - 1)
      BY Places, Sizes
    <3> QED BY <1>4, <3>1, <3>2, TestMaps
  <2> QED BY <2>1, <2>2 DEF PagesMapped
<1>5. CASE \/ bootmain \/ load_segment \/ i386_detect_memory \/ insert_region \/ sanitize_region
           \/ add_region \/ count_pages \/ boot_arrays \/ page_init
  <2>1. stage' \in Unbuilt \cup {"panic", "corrupt"}
    BY <1>5, EarlySteps
  <2> QED BY <2>1 DEF PagesMapped, Unbuilt, Early
<1>6. CASE mp_init \/ mp_entry \/ bsp_lapic_init \/ ap_lapic_init
  BY <1>6 DEF mp_init, mp_entry, bsp_lapic_init, ap_lapic_init, PagesMapped, Round, Done
<1>7. CASE UNCHANGED vars
  BY <1>7 DEF vars, PagesMapped
<1> QED BY <1>1, <1>2, <1>3, <1>4, <1>5, <1>6, <1>7 DEF Next, SelfTest

(* Counting processors. *)
LEMMA NcpuStep ==
  ASSUME BootTypes, NcpuInv, [Next]_vars
  PROVE  NcpuInv'
<1>0. /\ mp \in [ncpu : Nat, bootcpu : Nat, ismp : BOOLEAN, ids : [0 .. NCPU - 1 -> Nat],
                 lapicaddr : Nat, up : Nat]
      /\ NCPU \in Nat /\ NCPU > 0
  BY Sizes DEF BootTypes, MpTypes
<1>1. CASE mp_entry
  <2>1. CASE mp' = mp
    BY <2>1 DEF NcpuInv
  <2>2. CASE mp' = [mp EXCEPT !.ncpu = 1, !.lapicaddr = 0]
    BY <2>2, <1>0 DEF NcpuInv
  <2>3. ASSUME NEW e, mp' = Entry(mp, e) PROVE NcpuInv'
    <3>1. \/ mp'.ncpu = mp.ncpu
          \/ mp.ncpu < NCPU /\ mp'.ncpu = mp.ncpu + 1
      BY <1>0, <2>3 DEF Entry
    <3>2. mp'.ncpu <= NCPU
      BY <1>0, <3>1 DEF NcpuInv
    <3> QED BY <3>2 DEF NcpuInv
  <2> QED BY <1>1, <2>1, <2>2, <2>3 DEF mp_entry
<1>2. CASE mp_init \/ bsp_lapic_init \/ ap_lapic_init
  <2>1. mp'.ncpu = mp.ncpu
    BY <1>0, <1>2 DEF mp_init, bsp_lapic_init, ap_lapic_init
  <2> QED BY <2>1 DEF NcpuInv
<1>3. CASE \/ bootmain \/ load_segment \/ i386_detect_memory \/ insert_region \/ sanitize_region
           \/ add_region \/ count_pages \/ boot_arrays \/ page_init
  BY <1>3, EarlySteps DEF NcpuInv
<1>4. CASE x64_vm_init \/ map_stack \/ take_tables \/ reorder_page \/ SelfTest
  <2>1. mp' = mp
    BY <1>4, SelfTestSteps DEF x64_vm_init, map_stack, take_tables, reorder_page
  <2> QED BY <2>1 DEF NcpuInv
<1>5. CASE UNCHANGED vars
  BY <1>5 DEF vars, NcpuInv
<1> QED BY <1>1, <1>2, <1>3, <1>4, <1>5 DEF Next, SelfTest

(* With NTables + 7 pages behind nextfree, NTables + 6 of them are free. *)
LEMMA RoomBehind ==
  ASSUME BootTypes, MemInv, ~ (mem.npages * PGSIZE < mem.nextfree + (NTables + 7) * PGSIZE)
  PROVE  \E Z \in SUBSET FreePages :
           /\ IsFiniteSet(FreePages) /\ Cardinality(Z) \in Nat /\ Cardinality(Z) >= NTables + 6
           /\ \A i \in Z : i * PGSIZE >= EXTPHYSMEM
<1> DEFINE n == mem.npages
           f == mem.nextfree
           q == f \div PGSIZE
           t == NTables + 7
           Z == q + 1 .. n - 1
<1>1. n \in Nat /\ f \in Nat /\ f >= End /\ t \in Nat /\ PGSIZE \in Nat /\ PGSIZE > 0
  BY Sizes DEF BootTypes, MemTypes, MemInv
<1>2. q \in Nat /\ q * PGSIZE <= f
  BY <1>1, DownFacts DEF ROUNDDOWN
<1>3. ~ (n * PGSIZE < f + t * PGSIZE)
  OBVIOUS
<1> HIDE DEF n, f, q, t
<1>4. q + t <= n
  <2> SUFFICES ASSUME n < q + t PROVE FALSE
    BY <1>1, <1>2
  <2>1. q + t \in Nat /\ (q + t) * PGSIZE = q * PGSIZE + t * PGSIZE
    BY <1>1, <1>2
  <2>2. n * PGSIZE \in Nat /\ n * PGSIZE + PGSIZE <= (q + t) * PGSIZE
    BY <1>1, <2>1, PageBytes
  <2> DEFINE x == n * PGSIZE
             y == q * PGSIZE
             z == t * PGSIZE
  <2>3. y \in Nat /\ z \in Nat
    BY <1>1, <1>2, TimesMonotone
  <2>4. x + PGSIZE <= y + z /\ ~ (x < f + z) /\ y <= f /\ x \in Nat
    BY <1>2, <1>3, <2>1, <2>2
  <2> HIDE DEF x, y, z
  <2> QED BY <2>3, <2>4, <1>1
<1>5. t = NTables + 7 /\ NTables \in Nat
  BY Sizes DEF t
<1>6. Cardinality(Z) \in Nat /\ Cardinality(Z) >= NTables + 6
  <2>1. q + 1 \in Int /\ n - 1 \in Int /\ ~ (q + 1 > n - 1)
    BY <1>1, <1>2, <1>4, <1>5
  <2>2. Cardinality(Z) = (n - 1) - (q + 1) + 1
    BY <2>1, FS_Interval
  <2> HIDE DEF Z
  <2> QED BY <2>2, <1>1, <1>2, <1>4, <1>5
<1>7. ASSUME NEW i \in Z
      PROVE  i \in FreePages /\ i * PGSIZE >= EXTPHYSMEM
  <2>1. i \in Nat /\ i \in 0 .. n - 1 /\ i > q
    BY <1>1, <1>2
  <2>2. i > boot_alloc(mem.nextfree, 0) \div PGSIZE
    BY <2>1 DEF boot_alloc, q, f
  <2> DEFINE x == i * PGSIZE
  <2>3. x \in Nat /\ x > f
    BY <2>1, <2>2, AboveKernel DEF BootTypes, f
  <2> HIDE DEF x
  <2>4. x > EXTPHYSMEM /\ x > IOPHYSMEM /\ x > 0
    BY <2>3, <1>1, HoleFacts
  <2>5. i # 0
    <3> SUFFICES ASSUME i = 0 PROVE FALSE
      OBVIOUS
    <3>1. x = 0
      BY <1>1 DEF x
    <3> QED BY <3>1, <2>4
  <2>6. i # MPENTRY
    <3> SUFFICES ASSUME i = MPENTRY PROVE FALSE
      OBVIOUS
    <3>1. x < IOPHYSMEM
      BY BootAssumption DEF x
    <3> QED BY <3>1, <2>3, <2>4, HoleFacts
  <2>7. i \in FreePages
    <3>1. page_init_free(i, mem)
      BY <2>2, <2>5, <2>6 DEF page_init_free
    <3> QED BY <3>1, <2>1 DEF FreePages, n
  <2>8. x >= EXTPHYSMEM
    BY <2>3, <2>4, HoleFacts
  <2> QED BY <2>7, <2>8 DEF x
<1>8. IsFiniteSet(FreePages)
  <2>1. FreePages \in SUBSET (0 .. n - 1)
    BY DEF FreePages, n
  <2>2. IsFiniteSet(0 .. n - 1)
    <3>1. 0 \in Int /\ n - 1 \in Int
      BY <1>1
    <3> QED BY <3>1, FS_Interval
  <2> QED BY <2>1, <2>2, FS_Subset
<1>9. Z \in SUBSET FreePages
  BY <1>7
<1> HIDE DEF Z
<1> QED BY <1>6, <1>7, <1>8, <1>9

(* Then a list that has lost fewer is long, and has a page behind EXTPHYSMEM. *)
LEMMA EnoughLeft ==
  ASSUME BootTypes, MemInv, ~ (mem.npages * PGSIZE < mem.nextfree + (NTables + 7) * PGSIZE),
         NEW L \in Seq(Nat), \A k \in DOMAIN L : L[k] \in FreePages,
         \A j, k \in DOMAIN L : L[j] = L[k] => j = k,
         NEW lost \in Nat, Len(L) + lost = Cardinality(FreePages)
  PROVE  /\ Len(L) \in Nat /\ Len(L) + lost >= NTables + 6
         /\ lost < NTables + 6 => \E k \in DOMAIN L : L[k] * PGSIZE >= EXTPHYSMEM
<1>1. PICK Z \in SUBSET FreePages :
        /\ IsFiniteSet(FreePages) /\ Cardinality(Z) \in Nat /\ Cardinality(Z) >= NTables + 6
        /\ \A i \in Z : i * PGSIZE >= EXTPHYSMEM
  BY RoomBehind
<1>2. Len(L) \in Nat /\ DOMAIN L = 1 .. Len(L)
  BY LenProperties
<1>3. Cardinality(Z) <= Cardinality(FreePages) /\ Cardinality(FreePages) \in Nat
  BY <1>1, FS_Subset, FS_CardinalityType
<1>4. Len(L) + lost >= NTables + 6
  BY <1>1, <1>3, Sizes
<1>5. ASSUME lost < NTables + 6, \A k \in DOMAIN L : ~ (L[k] * PGSIZE >= EXTPHYSMEM)
      PROVE  FALSE
  <2> DEFINE E == Elements(L)
             R == FreePages \ E
  <2>1. Cardinality(E) = Len(L)
    BY <1>2, OnceEach
  <2>2. E \subseteq FreePages
    BY DEF Elements
  <2>3. Z \subseteq R
    BY <1>1, <1>5 DEF Elements
  <2> HIDE DEF E
  <2>4. IsFiniteSet(R) /\ Cardinality(R) = Cardinality(FreePages) - Cardinality(FreePages \cap E)
    BY <1>1, FS_Difference
  <2>5. FreePages \cap E = E
    BY <2>2
  <2> HIDE DEF R
  <2>6. Cardinality(R) = lost
    <3> DEFINE a == Len(L)
               b == Cardinality(FreePages)
    <3>1. a + lost = b /\ Cardinality(R) = b - a /\ a \in Nat
      BY <2>1, <2>4, <2>5, <1>2
    <3> HIDE DEF a, b
    <3> QED BY <3>1
  <2>7. Cardinality(Z) <= Cardinality(R)
    BY <2>3, <2>4, FS_Subset
  <2> QED BY <2>6, <2>7, <1>1, <1>5, Sizes
<1> QED BY <1>2, <1>4, <1>5

(* What check_page_free_list() asserts about the pages on the list. *)
LEMMA ListAssertsHold ==
  ASSUME BootTypes, MemInv, RamInv, Regular, NEW L, \A k \in DOMAIN L : L[k] \in FreePages,
         \E k \in DOMAIN L : L[k] * PGSIZE >= EXTPHYSMEM
  PROVE  ListAsserts(L)
<1>1. ASSUME NEW i \in FreePages
       PROVE  /\ i \notin {0, MPENTRY} /\ i < mem.npages
              /\ i * PGSIZE \notin {IOPHYSMEM, EXTPHYSMEM - PGSIZE, EXTPHYSMEM}
              /\ i * PGSIZE < EXTPHYSMEM \/ i * PGSIZE >= mem.nextfree
  <2>1. i \in 0 .. mem.npages - 1 /\ page_init_free(i, mem)
    BY DEF FreePages
  <2>2. /\ i \notin {0, MPENTRY}
        /\ i * PGSIZE < IOPHYSMEM \/ i * PGSIZE >= mem.nextfree
    BY <2>1, FreePageIsRam
  <2>3. /\ mem.nextfree \in Nat /\ mem.nextfree >= End /\ mem.npages \in Nat
        /\ i \in Nat /\ i < mem.npages
    BY <2>1 DEF BootTypes, MemTypes, MemInv
  <2> DEFINE x == i * PGSIZE
  <2>4. x \in Nat
    BY <2>3, Sizes, TimesMonotone
  <2>5. x < IOPHYSMEM \/ x >= mem.nextfree
    BY <2>2
  <2> HIDE DEF x
  <2>6. CASE x < IOPHYSMEM
    <3>1. /\ x # IOPHYSMEM /\ x # EXTPHYSMEM - PGSIZE /\ x # EXTPHYSMEM
          /\ x < EXTPHYSMEM
      BY <2>4, <2>6, HoleFacts
    <3> QED BY <3>1, <2>2, <2>3 DEF x
  <2>7. CASE x >= mem.nextfree
    <3>1. x > EXTPHYSMEM
      BY <2>3, <2>4, <2>7, HoleFacts
    <3>2. x # IOPHYSMEM /\ x # EXTPHYSMEM - PGSIZE /\ x # EXTPHYSMEM
      BY <2>4, <3>1, HoleFacts
    <3> QED BY <3>2, <2>2, <2>3, <2>7 DEF x
  <2> QED BY <2>5, <2>6, <2>7
<1> QED BY <1>1 DEF ListAsserts

(* Arrays that fit a table take no more pages than it has. *)
LEMMA RoundedPages ==
  ASSUME NEW s \in Nat, ~ (s > PTPAGES * PGSIZE)
  PROVE  \A i \in 0 .. ROUNDUP(s, PGSIZE) \div PGSIZE - 1 : i \in 0 .. PTPAGES - 1
<1> DEFINE q == (s + PGSIZE - 1) \div PGSIZE
<1>1. /\ s \in Nat /\ PGSIZE \in Nat /\ PGSIZE > 0 /\ PTPAGES \in Nat
      /\ PTPAGES * PGSIZE \in Nat /\ ~ (s > PTPAGES * PGSIZE)
  BY Sizes, TimesMonotone
<1>2. s + PGSIZE - 1 \in Nat
  BY <1>1
<1>3. q \in Nat /\ ROUNDUP(s, PGSIZE) = q * PGSIZE
  BY <1>1, <1>2, DownFacts DEF ROUNDUP, ROUNDDOWN
<1>4. q * PGSIZE \in Nat /\ q * PGSIZE < s + PGSIZE
  BY <1>1, <1>3, UpFacts
<1> HIDE DEF q
<1>5. q <= PTPAGES
  <2> SUFFICES ASSUME PTPAGES < q PROVE FALSE
    BY <1>1, <1>3
  <2>1. PTPAGES * PGSIZE + PGSIZE <= q * PGSIZE
    BY <1>1, <1>3, PageBytes
  <2> DEFINE x == PTPAGES * PGSIZE
             y == q * PGSIZE
  <2>2. x \in Nat /\ y \in Nat /\ x + PGSIZE <= y /\ y < s + PGSIZE /\ s <= x
    BY <1>1, <1>4, <2>1
  <2> HIDE DEF x, y
  <2> QED BY <2>2, <1>1
<1>6. (q * PGSIZE) \div PGSIZE = q
  <2> DEFINE r == (q * PGSIZE) \div PGSIZE
  <2>1. r \in Nat /\ r * PGSIZE <= q * PGSIZE /\ q * PGSIZE < r * PGSIZE + PGSIZE
    BY <1>1, <1>4, DownFacts DEF ROUNDDOWN
  <2> HIDE DEF r
  <2>2. ~ (r < q)
    <3> SUFFICES ASSUME r < q PROVE FALSE
      OBVIOUS
    <3>1. r * PGSIZE + PGSIZE <= q * PGSIZE /\ r * PGSIZE \in Nat
      BY <2>1, <1>3, PageBytes
    <3> DEFINE x == r * PGSIZE
               y == q * PGSIZE
    <3>2. x \in Nat /\ y \in Nat /\ x + PGSIZE <= y /\ y < x + PGSIZE
      BY <3>1, <2>1, <1>4
    <3> HIDE DEF x, y
    <3> QED BY <3>2, <1>1
  <2>3. ~ (q < r)
    <3> SUFFICES ASSUME q < r PROVE FALSE
      OBVIOUS
    <3>1. q * PGSIZE + PGSIZE <= r * PGSIZE /\ r * PGSIZE \in Nat
      BY <2>1, <1>3, PageBytes
    <3> DEFINE x == r * PGSIZE
               y == q * PGSIZE
    <3>2. x \in Nat /\ y \in Nat /\ y + PGSIZE <= x /\ x <= y
      BY <3>1, <2>1, <1>4
    <3> HIDE DEF x, y
    <3> QED BY <3>2, <1>1
  <2>4. r = q
    BY <2>1, <2>2, <2>3, <1>3
  <2> QED BY <2>4 DEF r
<1>7. ASSUME NEW i \in 0 .. ROUNDUP(s, PGSIZE) \div PGSIZE - 1
      PROVE  i \in 0 .. PTPAGES - 1
  <2>1. i \in 0 .. q - 1
    BY <1>3, <1>6
  <2> QED BY <2>1, <1>1, <1>3, <1>5
<1> QED BY <1>7

(* What check_boot_pml4e() asserts about the kernel's mappings. *)
LEMMA MapAssertsHold ==
  ASSUME BootTypes, LayoutInv, PagesMapped, stage = "recheck",
         ~ (mem.npages * SizePageInfo > PTPAGES * PGSIZE)
  PROVE  MapAsserts
<1>1. mem.npages * SizePageInfo \in Nat /\ SizeEnvs \in Nat /\ ~ (SizeEnvs > PTPAGES * PGSIZE)
  <2>1. mem.npages \in Nat /\ SizePageInfo \in Nat /\ SizeEnvs \in Nat /\ PTPAGES * PGSIZE \in Nat
    BY Sizes, TimesMonotone DEF BootTypes, MemTypes
  <2> QED BY <2>1, TimesMonotone, BootAssumption
<1>2. ASSUME NEW i \in 0 .. ROUNDUP(mem.npages * SizePageInfo, PGSIZE) \div PGSIZE - 1
      PROVE  kmap[UPAGES + i].pa = mem.pages \div PGSIZE + i
  <2>1. i \in 0 .. PTPAGES - 1
    BY <1>1, RoundedPages
  <2> QED BY <2>1 DEF PagesMapped
<1>3. ASSUME NEW i \in 0 .. ROUNDUP(SizeEnvs, PGSIZE) \div PGSIZE - 1
      PROVE  kmap[UENVS + i].pa = mem.envs \div PGSIZE + i
  <2>1. i \in 0 .. PTPAGES - 1
    BY <1>1, RoundedPages
  <2> QED BY <2>1 DEF PagesMapped
<1>4. Direct /\ \A i \in 0 .. NCPU - 1 : GapAt(i) /\ StackAt(i)
  BY DEF LayoutInv, Built
<1>5. \A i \in 0 .. mem.npages - 1 : kmap[KERNBASE + i].pa = i
  <2> SUFFICES ASSUME NEW i \in 0 .. mem.npages - 1 PROVE kmap[KERNBASE + i].pa = i
    OBVIOUS
  <2>1. kmap[KERNBASE + i] = [pa |-> i, perm |-> "w"]
    BY <1>4 DEF Direct
  <2> QED BY <2>1
<1>6. ASSUME NEW i \in 0 .. NCPU - 1
      PROVE  /\ \A p \in 1 .. KSTK : kmap[Top(i) - p].pa = percpu_kstacks(i) + KSTK - p
             /\ \A p \in KSTK + 1 .. KSTK + KGAP : kmap[Top(i) - p].pa = Unmapped.pa
  <2>1. ASSUME NEW p \in 1 .. KSTK
        PROVE  kmap[Top(i) - p].pa = percpu_kstacks(i) + KSTK - p
    <3>1. kmap[Top(i) - p] = [pa |-> percpu_kstacks(i) + KSTK - p, perm |-> "w"]
      BY <1>4 DEF StackAt
    <3> QED BY <3>1
  <2>2. ASSUME NEW p \in KSTK + 1 .. KSTK + KGAP
        PROVE  kmap[Top(i) - p].pa = Unmapped.pa
    <3>1. kmap[Top(i) - p] = Unmapped
      BY <1>4 DEF GapAt
    <3> QED BY <3>1
  <2> QED BY <2>1, <2>2
<1> QED BY <1>2, <1>3, <1>5, <1>6 DEF MapAsserts, Top

(* The MMIO region has room for every processor. *)
LEMMA RoomForLapics ==
  ASSUME BootTypes, MmioInv, NcpuInv, stage = "aps", mp.up < mp.ncpu
  PROVE  ~ (mmio.base + 1 > MMIOLIM)
<1>1. mmio.base \in Nat /\ mp.up \in Nat /\ mp.ncpu \in Nat /\ mp.ncpu <= NCPU
  BY DEF BootTypes, MapTypes, MpTypes, NcpuInv
<1>2. NCPU + 3 <= PTPAGES
  BY BootAssumption
<1>3. mmio.base = MMIOBASE + 3 \/ mmio.base = MMIOBASE + 3 + mp.up
  BY DEF MmioInv
<1> QED BY <1>1, <1>2, <1>3, Sizes, Places

(* Start-up stops on a regular machine only for want of memory. *)
LEMMA PanicStep ==
  ASSUME BootTypes, MemInv, RamInv, ListInv, LayoutInv, MmioInv, PagesMapped, NcpuInv, PanicInv,
         [Next]_vars
  PROVE  PanicInv'
<1>1. CASE UNCHANGED vars
  <2>1. UNCHANGED <<machine, stage, mem>>
    BY <1>1 DEF vars
  <2>2. Regular' <=> Regular
    BY <2>1, SameMachine
  <2> QED BY <2>1, <2>2 DEF PanicInv, Excuse
<1>2. CASE count_pages
  <2>1. stage = "sized" /\ (stage' = "panic" => mem' = mem)
    BY <1>2 DEF count_pages
  <2>2. mem.npages = 0
    BY <2>1 DEF MemInv, Sizing
  <2> QED BY <2>1, <2>2 DEF PanicInv, Excuse
<1>3. CASE take_tables \/ SelfTest
  <2>1. stage \in {"stacks", "reorder", "page_alloc", "page_check", "recheck"}
        /\ machine' = machine /\ mem' = mem
    BY <1>3, SelfTestSteps DEF take_tables
  <2>2. Regular' <=> Regular
    BY <2>1, SameMachine
  <2> SUFFICES ASSUME Regular, stage' = "panic", ~ Excuse' PROVE FALSE
    BY <2>2 DEF PanicInv
  <2>3. /\ ~ (mem.npages * PGSIZE < mem.nextfree + (NTables + 7) * PGSIZE)
        /\ ~ (mem.npages * SizePageInfo > PTPAGES * PGSIZE) /\ machine.vector0
    BY <2>1 DEF Excuse
  <2>4. /\ page_free_list \in Seq(Nat) /\ DOMAIN page_free_list = 1 .. Len(page_free_list)
        /\ \A k \in DOMAIN page_free_list : page_free_list[k] \in FreePages
        /\ NTables \in Nat
    BY LenProperties, Sizes DEF BootTypes, ListTypes, ListInv
  <2>5. CASE take_tables
    <3>1. /\ stage = "stacks" /\ Len(page_free_list) < NTables
      BY <2>5 DEF take_tables
    <3>2. Ascending(page_free_list) /\ Elements(page_free_list) = FreePages
      BY <3>1 DEF ListInv
    <3>3. /\ \A j, k \in DOMAIN page_free_list : page_free_list[j] = page_free_list[k] => j = k
          /\ Cardinality(FreePages) = Len(page_free_list)
      BY <3>2, <2>4, AscendingOnce
    <3> DEFINE z == Len(page_free_list)
    <3>4. z \in Nat /\ z + 0 = Cardinality(FreePages)
      BY <3>3, <2>4, LenProperties
    <3>5. z + 0 >= NTables + 6
      BY <3>3, <3>4, <2>3, <2>4, EnoughLeft
    <3>6. z < NTables
      BY <3>1
    <3> HIDE DEF z
    <3> QED BY <3>4, <3>5, <3>6, <2>4
  <2>6. CASE check_page_free_list
    <3> DEFINE C == page_free_list'
    <3>1. stage = "reorder" /\ ~ ListAsserts(pp[1] \o pp[2]) /\ C = pp[1] \o pp[2]
      BY <2>6 DEF check_page_free_list
    <3>2. BootTypes'
      BY TypesStep
    <3>3. C \in Seq(Nat) /\ FreePages' = FreePages
      BY <3>2, <2>1, SameMem DEF BootTypes, ListTypes
    <3>4. /\ \A k \in DOMAIN C : C[k] \in FreePages
          /\ \A j, k \in DOMAIN C : C[j] = C[k] => j = k
          /\ Len(C) + NTables = Cardinality(FreePages)
      BY <2>6, <3>3, ListJoined DEF Remaining
    <3> HIDE DEF C
    <3>5. \E k \in DOMAIN C : C[k] * PGSIZE >= EXTPHYSMEM
      <4>1. NTables < NTables + 6
        BY <2>4
      <4> QED BY <4>1, <3>3, <3>4, <2>3, <2>4, EnoughLeft
    <3>6. ListAsserts(C)
      BY <3>4, <3>5, ListAssertsHold
    <3> QED BY <3>1, <3>6
  <2>7. CASE check_page_alloc \/ page_check
    <3>1. /\ stage \in Listing /\ Len(page_free_list) < 6
      <4> DEFINE z == Len(page_free_list)
      <4>1. z \in Nat
        BY <2>4, LenProperties
      <4>2. z < 3 => z < 6
        <5> HIDE DEF z
        <5> QED BY <4>1
      <4> QED BY <2>3, <2>7, <4>2 DEF check_page_alloc, page_check, Listing
    <3>2. Remaining(NTables)
      BY <3>1 DEF ListInv
    <3> DEFINE z == Len(page_free_list)
    <3>3. z \in Nat /\ z + NTables >= NTables + 6
      BY <3>2, <2>3, <2>4, EnoughLeft DEF Remaining
    <3>4. z < 6
      BY <3>1
    <3> HIDE DEF z
    <3> QED BY <3>3, <3>4, <2>4
  <2>8. CASE check_boot_pml4e
    <3>1. stage = "recheck" /\ ~ (ListAsserts(page_free_list) /\ MapAsserts)
      BY <2>8 DEF check_boot_pml4e
    <3>2. Remaining(NTables + 4)
      BY <3>1 DEF ListInv, Tested
    <3>3. \E k \in DOMAIN page_free_list : page_free_list[k] * PGSIZE >= EXTPHYSMEM
      <4>1. NTables + 4 \in Nat /\ NTables + 4 < NTables + 6
        BY <2>4
      <4> QED BY <4>1, <3>2, <2>3, <2>4, EnoughLeft DEF Remaining
    <3>4. ListAsserts(page_free_list)
      BY <3>3, <2>4, ListAssertsHold
    <3>5. MapAsserts
      BY <3>1, <2>3, MapAssertsHold
    <3> QED BY <3>1, <3>4, <3>5
  <2> QED BY <1>3, <2>5, <2>6, <2>7, <2>8 DEF SelfTest
<1>4. CASE ap_lapic_init
  <2>1. stage' # "panic"
    <3>1. stage = "aps" /\ mp.up < mp.ncpu
      BY <1>4 DEF ap_lapic_init
    <3>2. ~ (mmio.base + 1 > MMIOLIM)
      BY <3>1, RoomForLapics
    <3> QED BY <1>4, <3>1, <3>2 DEF ap_lapic_init
  <2> QED BY <2>1 DEF PanicInv
<1>5. CASE bootmain \/ load_segment \/ i386_detect_memory \/ insert_region \/ sanitize_region
  <2>1. stage' # "panic"
    BY <1>5 DEF bootmain, load_segment, i386_detect_memory, insert_region, sanitize_region,
       Round, Done
  <2> QED BY <2>1 DEF PanicInv
<1>6. CASE add_region \/ boot_arrays \/ page_init \/ x64_vm_init \/ map_stack \/ reorder_page
  <2>1. stage' # "panic"
    BY <1>6 DEF add_region, boot_arrays, page_init, x64_vm_init, map_stack, reorder_page,
       Round, Done
  <2> QED BY <2>1 DEF PanicInv
<1>7. CASE mp_init \/ mp_entry \/ bsp_lapic_init
  <2>1. stage' # "panic"
    BY <1>7 DEF mp_init, mp_entry, bsp_lapic_init, Round, Done
  <2> QED BY <2>1 DEF PanicInv
<1> QED BY <1>1, <1>2, <1>3, <1>4, <1>5, <1>6, <1>7 DEF Next, SelfTest

(* All that is known of the free pages while start-up runs. *)
FreeInv ==
  /\ SortInv /\ SaneInv /\ SumInv /\ RamInv
  /\ MemInv /\ ListInv /\ LayoutInv /\ MmioInv
  /\ PagesMapped /\ NcpuInv /\ PanicInv

(* Before the boot loader runs nothing is listed or mapped. *)
LEMMA FreeInit == Init => FreeInv
<1> SUFFICES ASSUME Init PROVE FreeInv
  OBVIOUS
<1>1. /\ stage = "bios" /\ loop = 0 /\ mem = NoMemory /\ mp = NoMp
      /\ page_free_list = <<>> /\ pp = <<<<>>, <<>>>> /\ basemem = 0 /\ extmem = 0
      /\ kmap = [v \in 0 .. KERNBASE + MaxPages |-> Unmapped]
      /\ mmio = [base |-> MMIOBASE, lapics |-> {}]
  BY DEF Init
<1>2. SortInv /\ SaneInv /\ SumInv /\ RamInv
  BY <1>1 DEF SortInv, SaneInv, SumInv, RamInv, Early
<1>3. MemInv
  <2>1. mem.npages = 0 /\ mem.basemem = 0 /\ mem.nextfree = ROUNDUP(End, PGSIZE)
    BY <1>1 DEF NoMemory
  <2>2. mem.nextfree >= End
    BY <2>1, Sizes, UpFacts
  <2>3. 0 * PGSIZE = 0
    BY Sizes
  <2>4. 0 * PGSIZE <= basemem
    BY <1>1, <2>3
  <2> QED BY <2>1, <2>2, <2>4 DEF MemInv
<1>4. ListInv
  <2>1. DOMAIN page_free_list = {}
    BY <1>1
  <2> QED BY <1>1, <2>1 DEF ListInv, Unlisted, Sizing, Early, Listing, Tested
<1>5. LayoutInv /\ MmioInv
  <2>1. stage = "bios" /\ mmio.base = MMIOBASE /\ mmio.lapics = {} /\ mp.up = 0
    BY <1>1 DEF NoMp
  <2> QED BY <1>1, <2>1 DEF LayoutInv, MmioInv, Unbuilt, Built, Early
<1>6. PagesMapped /\ NcpuInv /\ PanicInv
  <2>1. mp.ncpu = 0 /\ 0 <= NCPU
    BY <1>1, Sizes DEF NoMp
  <2> QED BY <1>1, <2>1 DEF PagesMapped, NcpuInv, PanicInv
<1> QED BY <1>2, <1>3, <1>4, <1>5, <1>6 DEF FreeInv

(* The inductive step, from those above. *)
LEMMA FreeStep == BootTypes /\ FreeInv /\ [Next]_vars => FreeInv'
<1> SUFFICES ASSUME BootTypes, FreeInv, [Next]_vars PROVE FreeInv'
  OBVIOUS
<1>1. /\ SortInv /\ SaneInv /\ SumInv /\ RamInv /\ MemInv /\ ListInv /\ LayoutInv /\ MmioInv
      /\ PagesMapped /\ NcpuInv /\ PanicInv
  BY DEF FreeInv
<1>2. SortInv' /\ SaneInv'
  BY <1>1, SortStep, SaneStep
<1>3. SumInv' /\ RamInv'
  BY <1>1, <1>2, SumStep, RamStep
<1>4. MemInv' /\ ListInv'
  BY <1>1, MemStep, ListStep
<1>5. LayoutInv' /\ MmioInv' /\ PagesMapped' /\ NcpuInv'
  BY <1>1, LayoutStep, MmioStep, PagesStep, NcpuStep
<1>6. PanicInv'
  BY <1>1, PanicStep
<1> QED BY <1>2, <1>3, <1>4, <1>5, <1>6 DEF FreeInv

(* From multiboot_read() to check_boot_pml4e(): on a regular machine every page
   the allocator will hand out is RAM that nothing else uses, and no assertion
   fails when memory reaches NTables + 7 pages past the kernel; on any machine no
   page is listed twice, and the tables and four pages besides, three of which
   page_check() does not give back, are all that is not on the list.       *)
THEOREM FreePagesAreRam == Spec => []FreeIsRam
<1>1. Init => FreeInv
  BY FreeInit
<1>2. BootTypes /\ FreeInv /\ [Next]_vars => FreeInv'
  BY FreeStep
<1>3. BootTypes /\ FreeInv => FreeIsRam
  <2> SUFFICES ASSUME BootTypes, FreeInv PROVE FreeIsRam
    OBVIOUS
  <2>1. MemInv /\ RamInv /\ ListInv /\ PanicInv
    BY DEF FreeInv
  <2>2. ASSUME Regular, NEW k \in DOMAIN page_free_list
        PROVE  LET i == page_free_list[k] IN
               /\ PageIsRam(i) /\ i \notin {0, MPENTRY}
               /\ i * PGSIZE < IOPHYSMEM \/ i * PGSIZE >= mem.nextfree
    <3> DEFINE i == page_free_list[k]
    <3>1. i \in 0 .. mem.npages - 1 /\ page_init_free(i, mem)
      BY <2>1 DEF ListInv, FreePages
    <3> HIDE DEF i
    <3>2. /\ PageIsRam(i) /\ i \notin {0, MPENTRY}
          /\ i * PGSIZE < IOPHYSMEM \/ i * PGSIZE >= mem.nextfree
      BY <2>1, <2>2, <3>1, FreePageIsRam
    <3> QED BY <3>2 DEF i
  <2>3. ASSUME stage \in Listing \cup Tested
        PROVE  /\ Len(page_free_list) + NTables + (IF stage \in Tested THEN 4 ELSE 0)
                    = Cardinality(listed)
               /\ \A j, k \in DOMAIN page_free_list :
                    /\ page_free_list[j] \in listed
                    /\ page_free_list[j] = page_free_list[k] => j = k
                    /\ stage \in Listing =>
                         (page_free_list[j] < PTPAGES /\ page_free_list[k] >= PTPAGES => j < k)
    <3> DEFINE z == Len(page_free_list)
    <3>1. z \in Nat /\ NTables \in Nat /\ Listing \cap Tested = {}
      BY Sizes, LenProperties DEF BootTypes, ListTypes, Listing, Tested
    <3>2. CASE stage \in Listing
      <4>1. Remaining(NTables) /\ LowFirst
        BY <2>1, <3>2 DEF ListInv
      <4>2. z + NTables + 0 = Cardinality(listed)
        <5>1. z + NTables = Cardinality(listed)
          BY <4>1 DEF Remaining
        <5> HIDE DEF z
        <5> QED BY <5>1, <3>1
      <4> QED BY <2>1, <3>1, <3>2, <4>1, <4>2 DEF Remaining, LowFirst, ListInv
    <3>3. CASE stage \in Tested
      <4>1. Remaining(NTables + 4)
        BY <2>1, <3>3 DEF ListInv
      <4>2. z + NTables + 4 = Cardinality(listed)
        <5>1. z + (NTables + 4) = Cardinality(listed)
          BY <4>1 DEF Remaining
        <5> HIDE DEF z
        <5>2. z + (NTables + 4) = z + NTables + 4
          BY <3>1
        <5> QED BY <5>1, <5>2
      <4> QED BY <2>1, <3>1, <3>3, <4>1, <4>2 DEF Remaining, ListInv
    <3> QED BY <2>3, <3>2, <3>3
  <2>4. Regular /\ stage = "panic" => Excuse
    BY <2>1 DEF PanicInv
  <2> QED BY <2>2, <2>3, <2>4 DEF FreeIsRam, Excuse
<1> QED BY <1>1, <1>2, <1>3, TypesHold, PTL DEF Spec
=============================================================================
