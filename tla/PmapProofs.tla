----------------------------- MODULE PmapProofs -----------------------------
(***************************************************************************)
(* Proofs about Pmap for any number of environments, pages and addresses:  *)
(* a mapped page is never free, pp_ref covers the mappings, page tables    *)
(* form trees of private pages, and a call that fails keeps the mappings.  *)
(***************************************************************************)
EXTENDS Pmap, TLAPS, FiniteSetTheorems, SequenceTheorems

----------------------------------------------------------------------------
(* Addresses and the tables above them *)

Names == Tables \cup VAs

(* An address has four indices. *)
LEMMA VAIsSeq ==
  ASSUME NEW va \in VAs
  PROVE  va \in Seq(Int) /\ Len(va) = 4
<1>1. PICK a \in {0}, b \in 0 .. TopDir, c \in 0 .. LastIndex, d \in 0 .. LastIndex : va = <<a, b, c, d>>
  BY VAsAssumption
<1>2. a \in Int /\ b \in Int /\ c \in Int /\ d \in Int
  BY <1>1
<1> QED BY <1>1, <1>2

(* The first k indices of a longer sequence. *)
LEMMA PrefixFacts ==
  ASSUME NEW q \in Seq(Int), NEW k \in 0 .. Len(q)
  PROVE  /\ SubSeq(q, 1, k) \in Seq(Int) /\ Len(SubSeq(q, 1, k)) = k
         /\ \A j \in 0 .. k : SubSeq(SubSeq(q, 1, k), 1, j) = SubSeq(q, 1, j)
         /\ SubSeq(q, 1, Len(q)) = q /\ SubSeq(q, 1, 0) = <<>>
<1>1. ASSUME NEW n \in 0 .. Len(q)
      PROVE  /\ SubSeq(q, 1, n) \in Seq(Int) /\ Len(SubSeq(q, 1, n)) = n
             /\ \A i \in 1 .. n : SubSeq(q, 1, n)[i] = q[i]
  <2>1. \A i \in 1 .. n : q[i] \in Int
    OBVIOUS
  <2> QED BY <2>1, SubSeqProperties
<1>2. ASSUME NEW j \in 0 .. k PROVE SubSeq(SubSeq(q, 1, k), 1, j) = SubSeq(q, 1, j)
  <2>1. PICK r \in Seq(Int) : r = SubSeq(q, 1, k)
    BY <1>1
  <2>2. Len(r) = k /\ \A i \in 1 .. k : r[i] = q[i]
    BY <1>1, <2>1
  <2>3. \A i \in 1 .. j : r[i] \in Int
    BY <2>2
  <2>4. /\ SubSeq(r, 1, j) \in Seq(Int) /\ Len(SubSeq(r, 1, j)) = j
        /\ \A i \in 1 .. j : SubSeq(r, 1, j)[i] = r[i]
    BY <2>3, SubSeqProperties
  <2>5. j \in 0 .. Len(q)
    OBVIOUS
  <2> QED BY <1>1, <2>1, <2>2, <2>4, <2>5, SeqEqual
<1>3. SubSeq(q, 1, Len(q)) = q
  BY SubSeqFull
<1>4. SubSeq(q, 1, 0) = <<>>
  BY SubSeqEmpty
<1> QED BY <1>1, <1>2, <1>3, <1>4

(* The tables above an address. *)
LEMMA PrefixesFacts ==
  ASSUME NEW va \in VAs, NEW q \in Prefixes(va)
  PROVE  /\ q \in Tables /\ q \in Seq(Int) /\ Len(q) \in 1 .. 3
         /\ q = SubSeq(va, 1, Len(q))
         /\ \A k \in 1 .. Len(q) : SubSeq(q, 1, k) \in Prefixes(va) /\ Len(SubSeq(q, 1, k)) = k
         /\ SubSeq(q, 1, 0) = <<>> /\ SubSeq(q, 1, Len(q)) = q
<1>1. PICK k \in 1 .. 3 : q = SubSeq(va, 1, k)
  BY DEF Prefixes
<1>2. va \in Seq(Int) /\ Len(va) = 4
  BY VAIsSeq
<1>3. k \in 0 .. Len(va)
  BY <1>2
<1>4. q \in Seq(Int) /\ Len(q) = k /\ \A j \in 0 .. k : SubSeq(q, 1, j) = SubSeq(va, 1, j)
  BY <1>1, <1>2, <1>3, PrefixFacts
<1>5. q \in Tables
  BY DEF Tables
<1>6. \A j \in 1 .. k : SubSeq(q, 1, j) \in Prefixes(va) /\ Len(SubSeq(q, 1, j)) = j
  <2> SUFFICES ASSUME NEW j \in 1 .. k
               PROVE  SubSeq(q, 1, j) \in Prefixes(va) /\ Len(SubSeq(q, 1, j)) = j
    OBVIOUS
  <2>1. j \in 1 .. 3 /\ j \in 0 .. Len(va)
    BY <1>2
  <2> QED BY <1>2, <1>4, <2>1, PrefixFacts DEF Prefixes
<1>7. SubSeq(q, 1, 0) = <<>> /\ SubSeq(q, 1, Len(q)) = q
  BY <1>4, PrefixFacts
<1> QED BY <1>1, <1>4, <1>5, <1>6, <1>7

(* The tables above the address 0. *)
TopTables == {<<>>, <<0>>, <<0, 0>>}

(* They are tables, and so is everything above them. *)
LEMMA TopTablesFacts ==
  /\ Tables = TopTables \cup UNION {Prefixes(va) : va \in VAs}
  /\ <<>> \in TopTables /\ <<0>> \in TopTables /\ <<0, 0>> \in TopTables
  /\ \A q \in TopTables : /\ q \in Seq(Int) /\ Len(q) \in 0 .. 2
                          /\ \A k \in 0 .. Len(q) : SubSeq(q, 1, k) \in TopTables
<1>1. <<>> \in TopTables /\ <<0>> \in TopTables /\ <<0, 0>> \in TopTables
  BY Zenon DEF TopTables
<1>2. Tables = TopTables \cup UNION {Prefixes(va) : va \in VAs}
  <2> DEFINE U == UNION {Prefixes(va) : va \in VAs}
  <2>1. Tables = {<<>>} \cup U \cup {<<0>>, <<0, 0>>}
    BY DEF Tables
  <2> HIDE DEF U
  <2>2. \A x : x \in Tables <=> x = <<>> \/ x \in U \/ x = <<0>> \/ x = <<0, 0>>
    BY <2>1, Zenon
  <2>3. \A x : x \in TopTables <=> x = <<>> \/ x = <<0>> \/ x = <<0, 0>>
    BY Zenon DEF TopTables
  <2>4. \A x : x \in Tables <=> x \in TopTables \/ x \in U
    BY <2>2, <2>3, Zenon
  <2>5. Tables = TopTables \cup U
    BY <2>4
  <2> QED BY <2>5 DEF U
<1>3. PICK n \in Seq(Int), o \in Seq(Int), z \in Seq(Int) :
        /\ n = <<>> /\ Len(n) = 0
        /\ o = <<0>> /\ Len(o) = 1 /\ o[1] = 0
        /\ z = <<0, 0>> /\ Len(z) = 2 /\ z[1] = 0 /\ z[2] = 0
  <2>1. <<>> \in Seq(Int) /\ Len(<<>>) = 0
    BY EmptySeq
  <2>2. <<0>> \in Seq(Int) /\ Len(<<0>>) = 1 /\ <<0>>[1] = 0
    OBVIOUS
  <2>3. <<0, 0>> \in Seq(Int) /\ Len(<<0, 0>>) = 2 /\ <<0, 0>>[1] = 0 /\ <<0, 0>>[2] = 0
    OBVIOUS
  <2> QED BY <2>1, <2>2, <2>3, Zenon
<1>4. TopTables = {n, o, z} /\ n = <<>>
  BY <1>3, Zenon DEF TopTables
<1>5. /\ Len(n) = 0 /\ Len(o) = 1 /\ Len(z) = 2
      /\ o[1] = 0 /\ z[1] = 0 /\ z[2] = 0
  BY <1>3, Zenon
<1>6. \A q : SubSeq(q, 1, 0) = n
  <2>1. \A q : SubSeq(q, 1, 0) = <<>>
    BY SubSeqEmpty
  <2> QED BY <1>4, <2>1, Zenon
<1>7. SubSeq(o, 1, 1) = o /\ SubSeq(z, 1, 2) = z
  BY <1>5, SubSeqFull
<1>8. SubSeq(z, 1, 1) = o
  <2>1. \A i \in 1 .. 1 : z[i] \in Int
    BY <1>5
  <2>2. /\ SubSeq(z, 1, 1) \in Seq(Int) /\ Len(SubSeq(z, 1, 1)) = 1
        /\ \A i \in 1 .. 1 : SubSeq(z, 1, 1)[i] = z[i]
    BY <2>1, SubSeqProperties
  <2>3. \A i \in 1 .. Len(o) : o[i] = SubSeq(z, 1, 1)[i]
    BY <1>5, <2>2
  <2> QED BY <1>5, <2>2, <2>3, SeqEqual
<1>9. ASSUME NEW q \in {n, o, z}
      PROVE  /\ q \in Seq(Int) /\ Len(q) \in 0 .. 2
             /\ \A k \in 0 .. Len(q) : SubSeq(q, 1, k) \in {n, o, z}
  <2>2. CASE q = n
    BY <1>5, <1>6, <2>2
  <2>3. CASE q = o
    <3>1. Len(q) = 1 /\ \A k \in 0 .. 1 : k = 0 \/ k = 1
      BY <1>5, <2>3
    <3>2. \A k \in 0 .. Len(q) : SubSeq(q, 1, k) \in {n, o, z}
      BY <1>6, <1>7, <2>3, <3>1
    <3> QED BY <3>1, <3>2
  <2>4. CASE q = z
    <3>1. Len(q) = 2 /\ \A k \in 0 .. 2 : k = 0 \/ k = 1 \/ k = 2
      BY <1>5, <2>4
    <3>2. \A k \in 0 .. Len(q) : SubSeq(q, 1, k) \in {n, o, z}
      BY <1>6, <1>7, <1>8, <2>4, <3>1
    <3> QED BY SMTT(30), <3>1, <3>2
  <2> QED BY <2>2, <2>3, <2>4
<1> QED BY <1>1, <1>2, <1>4, <1>9

(* What is above a table or an address is a table. *)
LEMMA NamesFacts ==
  ASSUME NEW q \in Names
  PROVE  /\ q \in Seq(Int)
         /\ q \in VAs => Len(q) = 4
         /\ q \in Tables => Len(q) \in 0 .. 3
         /\ \A k \in 0 .. Len(q) :
              /\ SubSeq(q, 1, k) \in Names
              /\ SubSeq(q, 1, k) = q \/ SubSeq(q, 1, k) \in Tables
<1>0. PICK n \in TopTables : n = <<>>
  BY TopTablesFacts
<1>1. ASSUME q \in TopTables
      PROVE  /\ q \in Seq(Int) /\ Len(q) \in 0 .. 2
             /\ \A k \in 0 .. Len(q) : SubSeq(q, 1, k) \in Tables
  BY <1>1, TopTablesFacts
<1>2. ASSUME NEW va \in VAs, q \in Prefixes(va)
      PROVE  /\ q \in Seq(Int) /\ Len(q) \in 1 .. 3
             /\ \A k \in 0 .. Len(q) : SubSeq(q, 1, k) \in Tables
  <2>1. q \in Seq(Int) /\ Len(q) \in 1 .. 3 /\ SubSeq(q, 1, 0) = n
    BY <1>0, <1>2, PrefixesFacts
  <2>2. \A k \in 1 .. Len(q) : SubSeq(q, 1, k) \in UNION {Prefixes(v) : v \in VAs}
    BY <1>2, PrefixesFacts
  <2>3. \A k \in 0 .. Len(q) : k = 0 \/ k \in 1 .. Len(q)
    BY <2>1
  <2>4. n \in Tables /\ \A k \in 1 .. Len(q) : SubSeq(q, 1, k) \in Tables
    BY <2>2, TopTablesFacts
  <2> QED BY <2>1, <2>3, <2>4
<1>3. CASE q \in Tables
  <2>1. /\ q \in Seq(Int) /\ Len(q) \in 0 .. 3
        /\ \A k \in 0 .. Len(q) : SubSeq(q, 1, k) \in Tables
    <3>1. CASE q \in TopTables
      BY <1>1, <3>1
    <3>2. ASSUME NEW va \in VAs, q \in Prefixes(va)
          PROVE  /\ q \in Seq(Int) /\ Len(q) \in 0 .. 3
                 /\ \A k \in 0 .. Len(q) : SubSeq(q, 1, k) \in Tables
      BY <1>2, <3>2
    <3> QED BY <1>3, <3>1, <3>2, TopTablesFacts
  <2>2. q \in VAs => Len(q) = 4
    BY VAIsSeq
  <2>3. Len(q) # 4
    <3>1. Len(q) \in 0 .. 3
      BY <2>1
    <3>2. \A k \in 0 .. 3 : k # 4
      OBVIOUS
    <3> QED BY <3>1, <3>2, Zenon
  <2> QED BY <1>3, <2>1, <2>2, <2>3 DEF Names
<1>4. CASE q \in VAs /\ q \notin Tables
  <2>1. q \in Seq(Int) /\ Len(q) = 4
    BY <1>4, VAIsSeq
  <2>2. SubSeq(q, 1, 0) = n /\ SubSeq(q, 1, 4) = q
    BY <1>0, <2>1, PrefixFacts
  <2>3. \A k \in 1 .. 3 : SubSeq(q, 1, k) \in UNION {Prefixes(va) : va \in VAs}
    BY <1>4 DEF Prefixes
  <2>4. \A k \in 0 .. 4 : k = 0 \/ k = 4 \/ k \in 1 .. 3
    OBVIOUS
  <2>5. n \in Tables /\ \A k \in 1 .. 3 : SubSeq(q, 1, k) \in Tables
    BY <2>3, TopTablesFacts
  <2>6. \A k \in 0 .. 4 : SubSeq(q, 1, k) = q \/ SubSeq(q, 1, k) \in Tables
    BY <2>2, <2>4, <2>5
  <2> QED BY <1>4, <2>1, <2>6 DEF Names
<1> QED BY <1>3, <1>4 DEF Names

(* A machine has finitely many entries. *)
LEMMA SlotsFinite == IsFiniteSet(Slots)
<1>1. ASSUME NEW k PROVE IsFiniteSet({SubSeq(va, 1, k) : va \in VAs})
  <2> DEFINE T == {SubSeq(va, 1, k) : va \in VAs}
             f == [va \in VAs |-> SubSeq(va, 1, k)]
  <2>1. f \in Surjection(VAs, T)
    BY DEF Surjection
  <2> HIDE DEF f, T
  <2>2. IsFiniteSet(T)
    BY <2>1, FS_Surjection, VAsAssumption
  <2> QED BY <2>2 DEF T
<1>2. Tables \subseteq TopTables \cup
        ({SubSeq(va, 1, 1) : va \in VAs} \cup
          ({SubSeq(va, 1, 2) : va \in VAs} \cup {SubSeq(va, 1, 3) : va \in VAs}))
  <2>1. \A k \in 1 .. 3 : k = 1 \/ k = 2 \/ k = 3
    OBVIOUS
  <2> QED BY <2>1, TopTablesFacts DEF Prefixes
<1>3. IsFiniteSet(TopTables)
  <2>1. IsFiniteSet({<<>>})
    BY FS_Singleton
  <2>2. IsFiniteSet({<<>>} \cup {<<0>>})
    BY <2>1, FS_AddElement
  <2>3. IsFiniteSet(({<<>>} \cup {<<0>>}) \cup {<<0, 0>>})
    BY <2>2, FS_AddElement
  <2>4. ({<<>>} \cup {<<0>>}) \cup {<<0, 0>>} = TopTables
    BY Zenon DEF TopTables
  <2> QED BY <2>3, <2>4
<1>4. IsFiniteSet(TopTables \cup
        ({SubSeq(va, 1, 1) : va \in VAs} \cup
          ({SubSeq(va, 1, 2) : va \in VAs} \cup {SubSeq(va, 1, 3) : va \in VAs})))
  BY <1>1, <1>3, FS_Union
<1>5. IsFiniteSet(Tables)
  BY <1>2, <1>4, FS_Subset
<1>6. IsFiniteSet(Tables \cup VAs)
  BY <1>5, FS_Union, VAsAssumption
<1> QED BY <1>6, FS_Product, EnvsAssumption DEF Slots

(* The entries that must be there for s to be reached, and s itself. *)
Above(s) == {<<s[1], SubSeq(s[2], 1, k)>> : k \in 0 .. Len(s[2])}
IsTable(s) == s[2] \in Tables

(* Every environment has an entry for every table and address. *)
LEMMA SlotFacts ==
  ASSUME NEW e \in Envs
  PROVE  /\ \A q \in Names : <<e, q>> \in Slots
         /\ \A va \in VAs : <<e, va>> \in Slots /\ ~ IsTable(<<e, va>>)
         /\ <<e, <<>> >> \in Slots /\ IsTable(<<e, <<>> >>)
         /\ <<e, <<0>> >> \in Slots /\ <<e, <<0, 0>> >> \in Slots
<1>1. \A q \in Names : <<e, q>> \in Slots
  BY DEF Slots, Names
<1>2. ASSUME NEW va \in VAs PROVE va \in Names /\ va \notin Tables
  <2>1. va \in Names /\ Len(va) = 4 /\ (va \in Tables => Len(va) \in 0 .. 3)
    BY NamesFacts DEF Names
  <2> QED BY <2>1
<1>3. ASSUME NEW va \in VAs PROVE ~ IsTable(<<e, va>>)
  BY <1>2 DEF IsTable
<1>4. PICK n \in Tables, o \in Tables, z \in Tables : n = <<>> /\ o = <<0>> /\ z = <<0, 0>>
  BY TopTablesFacts, Zenon
<1>5. <<e, n>> \in Slots /\ IsTable(<<e, n>>) /\ <<e, o>> \in Slots /\ <<e, z>> \in Slots
  BY DEF Slots, IsTable
<1> QED BY <1>1, <1>2, <1>3, <1>4, <1>5, Zenon

(* What is above an entry belongs to the same environment and is a table. *)
LEMMA AboveFacts ==
  ASSUME NEW s \in Slots
  PROVE  /\ Above(s) \subseteq Slots
         /\ \A t \in Above(s) : t[1] = s[1] /\ (t = s \/ IsTable(t))
<1>1. PICK e \in Envs, q \in Names : s = <<e, q>>
  BY DEF Slots, Names
<1>2. s[1] = e /\ s[2] = q
  BY <1>1
<1> SUFFICES ASSUME NEW k \in 0 .. Len(q), NEW t, t = <<e, SubSeq(q, 1, k)>>
             PROVE  t \in Slots /\ t[1] = s[1] /\ (t = s \/ IsTable(t))
  BY <1>2 DEF Above
<1>3. PICK r \in Names : r = SubSeq(q, 1, k) /\ (r = q \/ r \in Tables)
  BY NamesFacts
<1>4. t = <<e, r>> /\ t \in Slots
  BY <1>3 DEF Slots, Names
<1> QED BY <1>1, <1>2, <1>3, <1>4 DEF IsTable

(* Above an address: the PML4 page and the tables of Prefixes(va). *)
LEMMA AboveVA ==
  ASSUME NEW e \in Envs, NEW va \in VAs, NEW t \in Above(<<e, va>>)
  PROVE  t = <<e, va>> \/ t = <<e, <<>> >> \/ \E q \in Prefixes(va) : t = <<e, q>>
<1>1. va \in Seq(Int) /\ Len(va) = 4
  BY VAIsSeq
<1>2. PICK k \in 0 .. 4 : t = <<e, SubSeq(va, 1, k)>>
  BY <1>1 DEF Above
<1>3. SubSeq(va, 1, 0) = <<>> /\ SubSeq(va, 1, 4) = va
  BY <1>1, PrefixFacts
<1>4. k \in 1 .. 3 => SubSeq(va, 1, k) \in Prefixes(va)
  BY DEF Prefixes
<1>5. k = 0 \/ k = 4 \/ k \in 1 .. 3
  OBVIOUS
<1> QED BY <1>2, <1>3, <1>4, <1>5, Zenon

(* Above a table: the PML4 page and shorter prefixes. *)
LEMMA AboveTable ==
  ASSUME NEW e \in Envs, NEW va \in VAs, NEW q \in Prefixes(va), NEW t \in Above(<<e, q>>)
  PROVE  t = <<e, q>> \/ t = <<e, <<>> >>
           \/ \E r \in Prefixes(va) : t = <<e, r>> /\ Len(r) < Len(q)
<1>1. PICK k \in 0 .. Len(q) : t = <<e, SubSeq(q, 1, k)>>
  BY DEF Above
<1>2. /\ Len(q) \in 1 .. 3 /\ SubSeq(q, 1, 0) = <<>> /\ SubSeq(q, 1, Len(q)) = q
      /\ \A j \in 1 .. Len(q) : SubSeq(q, 1, j) \in Prefixes(va) /\ Len(SubSeq(q, 1, j)) = j
  BY PrefixesFacts
<1>3. k = 0 \/ k = Len(q) \/ (k \in 1 .. Len(q) /\ k < Len(q))
  <2>1. \A n \in 1 .. 3 : \A j \in 0 .. n : j = 0 \/ j = n \/ (j \in 1 .. n /\ j < n)
    OBVIOUS
  <2> QED BY <1>2, <2>1, Zenon
<1> QED BY <1>1, <1>2, <1>3, Zenon

(* Nothing is above the PML4 page. *)
LEMMA AboveRoot ==
  ASSUME NEW e \in Envs, NEW t \in Above(<<e, <<>> >>)
  PROVE  t = <<e, <<>> >>
<1>1. PICK n \in TopTables : n = <<>> /\ Len(n) = 0 /\ SubSeq(n, 1, 0) = n
  <2>1. Len(<<>>) = 0 /\ SubSeq(<<>>, 1, 0) = <<>>
    BY SubSeqEmpty
  <2> QED BY <2>1, TopTablesFacts, Zenon
<1>2. t \in Above(<<e, n>>)
  BY <1>1, Zenon
<1>3. t = <<e, n>>
  BY <1>1, <1>2 DEF Above
<1> QED BY <1>1, <1>3, Zenon

----------------------------------------------------------------------------
(* What makes the memory sound *)

Typed(m) == m \in [entry : [Slots -> Pages \cup {Null}],
                   ref   : [AllPages -> 0 .. RefWrap - 1],
                   free  : SUBSET Pages]

Owners(m, p) == {s \in Slots : m.entry[s] = p}

Counted(m) ==
  \A p \in Pages : Cardinality(Owners(m, p)) <= m.ref[p] /\ (p \in m.free => m.ref[p] = 0)

Private(m) ==
  \A s, t \in Slots : s # t /\ IsTable(s) /\ m.entry[s] # Null => m.entry[t] # m.entry[s]

Closed(m) ==
  \A s \in Slots : m.entry[s] # Null => \A t \in Above(s) : m.entry[t] # Null

Good(m) == Typed(m) /\ Counted(m) /\ Private(m) /\ Closed(m)

(* Finitely many entries point to a page. *)
LEMMA OwnersFacts ==
  ASSUME NEW m, NEW p
  PROVE  /\ IsFiniteSet(Owners(m, p)) /\ Cardinality(Owners(m, p)) \in Nat
         /\ Cardinality(Owners(m, p)) = 0 <=> Owners(m, p) = {}
<1>1. IsFiniteSet(Owners(m, p))
  BY SlotsFinite, FS_Subset DEF Owners
<1> QED BY <1>1, FS_CardinalityType, FS_EmptySet

(* A free page belongs to nobody. *)
LEMMA FreeUnowned ==
  ASSUME NEW m, Good(m), NEW p \in m.free
  PROVE  p \in Pages /\ m.ref[p] = 0 /\ Owners(m, p) = {} /\ \A s \in Slots : m.entry[s] # p
<1>1. p \in Pages
  BY DEF Good, Typed
<1>2. Cardinality(Owners(m, p)) <= 0 /\ m.ref[p] = 0
  BY <1>1 DEF Good, Counted
<1>3. Owners(m, p) = {}
  BY <1>2, OwnersFacts
<1> QED BY <1>1, <1>2, <1>3 DEF Owners

(* Reference counts below the width of pp_ref do not wrap. *)
LEMMA ModFacts == \A x \in 0 .. RefWrap - 1 : x % RefWrap = x
BY RefAssumption

----------------------------------------------------------------------------
(* The operations keep the memory sound *)

(* f gives missing tables pages of their own, and no table is below one that
   stays missing.                                                          *)
Linkable(m, D, f) ==
  /\ D \subseteq Slots /\ f \in [D -> m.free]
  /\ \A s \in D : m.entry[s] = Null /\ IsTable(s)
  /\ \A s, t \in D : f[s] = f[t] => s = t
  /\ \A s \in D : \A t \in Above(s) : t \in D \/ m.entry[t] # Null

(* Link(): free pages become tables. *)
LEMMA LinkGood ==
  ASSUME NEW m, Good(m), NEW D, NEW f, Linkable(m, D, f)
  PROVE  /\ Good(Link(m, f))
         /\ \A s \in Slots : Link(m, f).entry[s] = IF s \in D THEN f[s] ELSE m.entry[s]
         /\ \A p \in Pages : p \notin m.free => Link(m, f).ref[p] = m.ref[p]
         /\ Link(m, f).free = {p \in m.free : \A s \in D : f[s] # p}
<1> DEFINE n == Link(m, f)
<1>0. DOMAIN f = D /\ D \subseteq Slots /\ \A s \in D : f[s] \in m.free
  BY DEF Linkable
<1>a. /\ \A s \in D : m.entry[s] = Null /\ IsTable(s)
      /\ \A s, t \in D : f[s] = f[t] => s = t
      /\ \A s \in D : \A t \in Above(s) : t \in D \/ m.entry[t] # Null
  BY DEF Linkable
<1>1. /\ n.entry = [s \in Slots |-> IF s \in D THEN f[s] ELSE m.entry[s]]
      /\ n.ref = [p \in AllPages |-> IF \E s \in D : f[s] = p
                                     THEN (m.ref[p] + 1) % RefWrap ELSE m.ref[p]]
      /\ n.free = {p \in m.free : \A s \in D : f[s] # p}
      /\ n = [entry |-> n.entry, ref |-> n.ref, free |-> n.free]
  BY <1>0 DEF Link
<1> HIDE DEF n
<1>2. \A p \in m.free : p \in Pages /\ m.ref[p] = 0 /\ Owners(m, p) = {}
                        /\ \A s \in Slots : m.entry[s] # p
  BY FreeUnowned
<1>3. m \in [entry : [Slots -> Pages \cup {Null}], ref : [AllPages -> 0 .. RefWrap - 1],
             free : SUBSET Pages]
  BY DEF Good, Typed
<1>4. 1 \in 0 .. RefWrap - 1 /\ 1 % RefWrap = 1
  BY RefAssumption
<1>5. \A p \in m.free : m.ref[p] + 1 = 1
  BY <1>2
<1>6. \A p \in AllPages : n.ref[p] = IF \E s \in D : f[s] = p THEN 1 ELSE m.ref[p]
  BY <1>0, <1>1, <1>4, <1>5
<1>7. Typed(n)
  <2>1. n.entry \in [Slots -> Pages \cup {Null}]
    BY <1>0, <1>1, <1>2, <1>3
  <2>2. n.ref \in [AllPages -> 0 .. RefWrap - 1]
    BY <1>1, <1>3, <1>4, <1>6
  <2>3. n.free \in SUBSET Pages
    BY <1>1, <1>2
  <2> QED BY <1>1, <2>1, <2>2, <2>3 DEF Typed
<1>8. \A s \in Slots : n.entry[s] = IF s \in D THEN f[s] ELSE m.entry[s]
  BY <1>1
<1>9. Counted(n)
  <2> SUFFICES ASSUME NEW p \in Pages
               PROVE  /\ Cardinality(Owners(n, p)) <= n.ref[p]
                      /\ p \in n.free => n.ref[p] = 0
    BY DEF Counted
  <2>1. ASSUME NEW s \in D, f[s] = p
        PROVE  Cardinality(Owners(n, p)) <= n.ref[p] /\ p \notin n.free
    <3>1. Owners(n, p) = {s}
      BY <1>0, <1>a, <1>2, <1>8, <2>1 DEF Owners
    <3>2. Cardinality({s}) = 1
      BY FS_Singleton
    <3>3. n.ref[p] = 1 /\ p \notin n.free
      BY <1>1, <1>6, <2>1 DEF AllPages
    <3> QED BY <3>1, <3>2, <3>3
  <2>2. ASSUME \A s \in D : f[s] # p
        PROVE  /\ Cardinality(Owners(n, p)) <= n.ref[p]
               /\ p \in n.free => n.ref[p] = 0
    <3>1. Owners(n, p) = Owners(m, p)
      BY <1>a, <1>8, <2>2, PagesAssumption DEF Owners
    <3>2. n.ref[p] = m.ref[p]
      BY <1>6, <2>2 DEF AllPages
    <3> QED BY <1>1, <3>1, <3>2 DEF Good, Counted
  <2> QED BY <2>1, <2>2
<1>10. Private(n)
  <2> SUFFICES ASSUME NEW s \in Slots, NEW t \in Slots, s # t, IsTable(s), n.entry[s] # Null
               PROVE  n.entry[t] # n.entry[s]
    BY DEF Private
  <2> QED BY <1>0, <1>a, <1>2, <1>8 DEF Good, Private
<1>11. Closed(n)
  <2>1. \A s \in D : f[s] # Null
    BY <1>0, <1>2, PagesAssumption
  <2> SUFFICES ASSUME NEW s \in Slots, n.entry[s] # Null, NEW t \in Above(s)
               PROVE  n.entry[t] # Null
    BY DEF Closed
  <2>2. t \in Slots
    BY AboveFacts
  <2> QED BY <1>a, <1>8, <2>1, <2>2 DEF Good, Closed
<1>12. \A p \in Pages : p \notin m.free => n.ref[p] = m.ref[p]
  BY <1>0, <1>6 DEF AllPages
<1> QED BY <1>1, <1>7, <1>8, <1>9, <1>10, <1>11, <1>12 DEF Good, n

(* page_remove() of a mapped page. *)
LEMMA RemoveGood ==
  ASSUME NEW m, Good(m), NEW e \in Envs, NEW va \in VAs, m.entry[<<e, va>>] # Null
  PROVE  LET n == page_remove(m, e, va) IN
         /\ Good(n)
         /\ \A s \in Slots : s # <<e, va>> => n.entry[s] = m.entry[s]
         /\ \A p \in Pages : /\ n.ref[p] <= m.ref[p]
                             /\ p \in n.free => p \in m.free
                                                \/ (p = m.entry[<<e, va>>] /\ m.ref[p] = 1)
<1> DEFINE n == page_remove(m, e, va)
<1>1. CASE ~ Walkable(m, e, va)
  <2>1. n = m
    BY <1>1 DEF page_remove
  <2>2. \A p \in Pages : m.ref[p] \in Int
    BY RefAssumption DEF Good, Typed, AllPages
  <2> QED BY <2>1, <2>2
<1>2. CASE Walkable(m, e, va)
  <2>1. PICK s \in Slots, p \in Pages : s = <<e, va>> /\ p = m.entry[s] /\ ~ IsTable(s) /\ p # Null
    BY SlotFacts DEF Good, Typed
  <2>2. m \in [entry : [Slots -> Pages \cup {Null}], ref : [AllPages -> 0 .. RefWrap - 1],
               free : SUBSET Pages]
    BY DEF Good, Typed
  <2>3. p \in AllPages
    BY DEF AllPages
  <2>4. s \in Owners(m, p)
    BY <2>1 DEF Owners
  <2>5. Cardinality(Owners(m, p)) \in Nat /\ Cardinality(Owners(m, p)) # 0
    BY <2>4, OwnersFacts
  <2>6. m.ref[p] \in 1 .. RefWrap - 1 /\ Cardinality(Owners(m, p)) <= m.ref[p]
    <3>1. m.ref[p] \in 0 .. RefWrap - 1
      BY <2>2, <2>3
    <3>2. Cardinality(Owners(m, p)) <= m.ref[p]
      BY DEF Good, Counted
    <3> QED BY <2>5, <3>1, <3>2, RefAssumption
  <2>7. (m.ref[p] - 1) % RefWrap = m.ref[p] - 1 /\ m.ref[p] - 1 \in 0 .. RefWrap - 1
    BY <2>6, ModFacts, RefAssumption
  <2>8. n = page_decref([m EXCEPT !.entry[s] = Null], p, 1)
    BY <1>2, <2>1 DEF page_remove
  <2>9. n = [entry |-> [m.entry EXCEPT ![s] = Null], ref |-> [m.ref EXCEPT ![p] = m.ref[p] - 1],
             free |-> IF m.ref[p] = 1 THEN m.free \cup {p} ELSE m.free]
    BY <2>2, <2>7, <2>8 DEF page_decref
  <2> HIDE DEF n
  <2>10. /\ n.entry = [m.entry EXCEPT ![s] = Null]
         /\ n.ref = [m.ref EXCEPT ![p] = m.ref[p] - 1]
         /\ n.free = IF m.ref[p] = 1 THEN m.free \cup {p} ELSE m.free
    BY <2>9
  <2>11. /\ \A t \in Slots : n.entry[t] = IF t = s THEN Null ELSE m.entry[t]
         /\ \A r \in AllPages : n.ref[r] = IF r = p THEN m.ref[p] - 1 ELSE m.ref[r]
    BY <2>2, <2>10
  <2>12. Typed(n)
    <3>1. n.entry \in [Slots -> Pages \cup {Null}]
      BY <2>2, <2>10
    <3>2. n.ref \in [AllPages -> 0 .. RefWrap - 1]
      BY <2>2, <2>7, <2>10
    <3>3. n.free \in SUBSET Pages
      BY <2>2, <2>10
    <3> QED BY <2>9, <2>10, <3>1, <3>2, <3>3 DEF Typed
  <2>13. Counted(n)
    <3>1. Owners(n, p) = Owners(m, p) \ {s}
      BY <2>1, <2>11 DEF Owners
    <3>2. Cardinality(Owners(n, p)) = Cardinality(Owners(m, p)) - 1
      BY ZenonT(60), <2>4, <3>1, OwnersFacts, FS_RemoveElement
    <3>3. Cardinality(Owners(n, p)) <= n.ref[p] /\ (p \in n.free => n.ref[p] = 0)
      <4>1. Cardinality(Owners(n, p)) <= n.ref[p]
        BY <2>3, <2>5, <2>6, <2>11, <3>2
      <4>2. p \notin m.free
        BY <2>1, FreeUnowned
      <4>3. p \in n.free => m.ref[p] = 1
        BY <4>2, <2>10
      <4> QED BY <4>1, <4>3, <2>3, <2>11
    <3>4. ASSUME NEW r \in Pages, r # p
          PROVE  Cardinality(Owners(n, r)) <= n.ref[r] /\ (r \in n.free => n.ref[r] = 0)
      <4>1. Owners(n, r) = Owners(m, r)
        BY <2>1, <2>11, <3>4, PagesAssumption DEF Owners
      <4>2. n.ref[r] = m.ref[r] /\ (r \in n.free => r \in m.free)
        BY <2>10, <2>11, <3>4 DEF AllPages
      <4> QED BY <4>1, <4>2 DEF Good, Counted
    <3> QED BY <3>3, <3>4 DEF Counted
  <2>14. Private(n)
    BY <2>1, <2>11 DEF Good, Private
  <2>15. Closed(n)
    <3> SUFFICES ASSUME NEW t \in Slots, n.entry[t] # Null, NEW u \in Above(t)
                 PROVE  n.entry[u] # Null
      BY DEF Closed
    <3>1. u \in Slots /\ (u = t \/ IsTable(u)) /\ t # s
      BY <2>11, AboveFacts
    <3>2. m.entry[u] # Null
      BY <2>11, <3>1 DEF Good, Closed
    <3> QED BY <2>1, <2>11, <3>1, <3>2
  <2>16. \A r \in Pages : n.ref[r] <= m.ref[r]
    <3>1. \A r \in Pages : m.ref[r] \in Int /\ r \in AllPages
      BY <2>2, RefAssumption DEF AllPages
    <3> QED BY <2>11, <3>1
  <2>17. \A r \in Pages : r \in n.free => r \in m.free \/ (r = p /\ m.ref[r] = 1)
    BY <2>10
  <2>18. Good(n)
    BY <2>12, <2>13, <2>14, <2>15 DEF Good
  <2> QED BY <2>1, <2>11, <2>16, <2>17, <2>18 DEF n
<1> QED BY <1>1, <1>2

(* page_insert(): the tables are there, and a page that is mapped again at its
   own address is mapped elsewhere too.                                    *)
LEMMA InsertGood ==
  ASSUME NEW m, Good(m), NEW e \in Envs, NEW va \in VAs, NEW p \in Pages,
         p \notin m.free, m.ref[p] + 1 < RefWrap,
         \A t \in Slots : IsTable(t) => m.entry[t] # p,
         Walked(m, e, va), m.entry[<<e, <<>> >>] # Null,
         m.entry[<<e, va>>] = p => \E t \in Slots \ {<<e, va>>} : m.entry[t] = p
  PROVE  /\ Good(page_insert(m, p, e, va))
         /\ \A t \in Slots : t # <<e, va>> => page_insert(m, p, e, va).entry[t] = m.entry[t]
<1>1. PICK s \in Slots : s = <<e, va>> /\ ~ IsTable(s)
  BY SlotFacts
<1>2. PICK r : r = IF m.entry[s] # Null THEN page_remove(m, e, va) ELSE m
  OBVIOUS
<1>3. Good(r) /\ \A t \in Slots : t # s => r.entry[t] = m.entry[t]
  BY <1>1, <1>2, RemoveGood
<1>4. r \in [entry : [Slots -> Pages \cup {Null}], ref : [AllPages -> 0 .. RefWrap - 1],
             free : SUBSET Pages]
  BY <1>3 DEF Good, Typed
<1>5. p \in AllPages /\ p # Null
  BY PagesAssumption DEF AllPages
<1>6. m.ref[p] \in 0 .. RefWrap - 1
  BY <1>5 DEF Good, Typed
<1>7. r.ref[p] <= m.ref[p] /\ p \notin r.free
  <2>1. CASE m.entry[s] = Null
    BY <1>2, <1>6, <2>1
  <2>2. CASE m.entry[s] # Null
    <3>1. r = page_remove(m, e, va)
      BY <1>2, <2>2
    <3>2. /\ r.ref[p] <= m.ref[p]
          /\ p \in r.free => p \in m.free \/ (p = m.entry[s] /\ m.ref[p] = 1)
      BY <1>1, <2>2, <3>1, RemoveGood
    <3>3. ASSUME p = m.entry[s] PROVE m.ref[p] # 1
      <4>1. PICK t \in Slots : t # s /\ m.entry[t] = p
        BY <1>1, <3>3
      <4>2. {s, t} \subseteq Owners(m, p)
        BY <3>3, <4>1 DEF Owners
      <4>3. Cardinality({s, t}) = 2
        <5>1. Cardinality({s}) = 1 /\ IsFiniteSet({s}) /\ {s} \cup {t} = {s, t}
          BY FS_Singleton
        <5>2. Cardinality({s} \cup {t}) = 1 + 1
          BY ZenonT(60), <4>1, <5>1, FS_AddElement
        <5>3. 1 + 1 = 2
          OBVIOUS
        <5> QED BY <5>1, <5>2, <5>3, Zenon
      <4>4. 2 <= Cardinality(Owners(m, p))
        BY <4>2, <4>3, OwnersFacts, FS_Subset
      <4>5. Cardinality(Owners(m, p)) <= m.ref[p]
        BY DEF Good, Counted
      <4>6. Cardinality(Owners(m, p)) \in Nat
        BY OwnersFacts
      <4> QED BY <1>6, <4>4, <4>5, <4>6
    <3> QED BY <3>2, <3>3
  <2> QED BY <2>1, <2>2
<1>8. r.ref[p] + 1 \in 0 .. RefWrap - 1 /\ (r.ref[p] + 1) % RefWrap = r.ref[p] + 1
  <2>1. r.ref[p] \in 0 .. RefWrap - 1
    BY <1>4, <1>5
  <2>2. r.ref[p] + 1 \in 0 .. RefWrap - 1
    BY <1>6, <1>7, <2>1, RefAssumption
  <2> QED BY <2>2, ModFacts
<1>9. PICK n : n = page_insert(m, p, e, va)
  OBVIOUS
<1>10. n = [r EXCEPT !.entry[s] = p, !.ref[p] = (@ + 1) % RefWrap]
  BY <1>1, <1>2, <1>9 DEF page_insert
<1>11. n = [entry |-> [r.entry EXCEPT ![s] = p], ref |-> [r.ref EXCEPT ![p] = r.ref[p] + 1],
            free |-> r.free]
  BY <1>4, <1>8, <1>10
<1>12. /\ n.entry = [r.entry EXCEPT ![s] = p] /\ n.ref = [r.ref EXCEPT ![p] = r.ref[p] + 1]
       /\ n.free = r.free
  BY <1>11
<1>13. /\ \A t \in Slots : n.entry[t] = IF t = s THEN p ELSE r.entry[t]
       /\ \A x \in AllPages : n.ref[x] = IF x = p THEN r.ref[p] + 1 ELSE r.ref[x]
  BY <1>4, <1>12
<1>14. Typed(n)
  <2>1. n.entry \in [Slots -> Pages \cup {Null}]
    BY <1>4, <1>12
  <2>2. n.ref \in [AllPages -> 0 .. RefWrap - 1]
    BY <1>4, <1>8, <1>12
  <2> QED BY <1>4, <1>11, <1>12, <2>1, <2>2 DEF Typed
<1>15. Counted(n)
  <2>1. Cardinality(Owners(n, p)) <= n.ref[p]
    <3>1. Owners(n, p) = Owners(r, p) \cup {s}
      BY <1>13 DEF Owners
    <3>2. \/ Cardinality(Owners(r, p) \cup {s}) = Cardinality(Owners(r, p))
          \/ Cardinality(Owners(r, p) \cup {s}) = Cardinality(Owners(r, p)) + 1
      BY OwnersFacts, FS_AddElement
    <3>3. Cardinality(Owners(r, p)) \in Nat /\ Cardinality(Owners(r, p)) <= r.ref[p]
      BY <1>3, OwnersFacts DEF Good, Counted
    <3>4. r.ref[p] \in 0 .. RefWrap - 1 /\ n.ref[p] = r.ref[p] + 1
      BY <1>4, <1>5, <1>13
    <3> QED BY <3>1, <3>2, <3>3, <3>4
  <2>2. ASSUME NEW x \in Pages, x # p
        PROVE  Cardinality(Owners(n, x)) <= n.ref[x] /\ (x \in n.free => n.ref[x] = 0)
    <3>1. Owners(n, x) \subseteq Owners(r, x)
      BY <1>13, <2>2 DEF Owners
    <3>2. Cardinality(Owners(n, x)) <= Cardinality(Owners(r, x))
      BY <3>1, OwnersFacts, FS_Subset
    <3>3. Cardinality(Owners(r, x)) <= r.ref[x] /\ (x \in r.free => r.ref[x] = 0)
      BY <1>3 DEF Good, Counted
    <3>4. n.ref[x] = r.ref[x] /\ r.ref[x] \in 0 .. RefWrap - 1
      BY <1>4, <1>13, <2>2 DEF AllPages
    <3>5. Cardinality(Owners(n, x)) \in Nat /\ Cardinality(Owners(r, x)) \in Nat
      BY OwnersFacts
    <3>6. Cardinality(Owners(n, x)) <= n.ref[x]
      BY <3>2, <3>3, <3>4, <3>5
    <3> QED BY <1>12, <3>3, <3>4, <3>6
  <2> QED BY <1>7, <1>12, <2>1, <2>2 DEF Counted
<1>16. Private(n)
  BY <1>1, <1>3, <1>13 DEF Good, Private
<1>17. Closed(n)
  <2> SUFFICES ASSUME NEW t \in Slots, n.entry[t] # Null, NEW u \in Above(t)
               PROVE  n.entry[u] # Null
    BY DEF Closed
  <2>1. u \in Slots
    BY AboveFacts
  <2>2. CASE t # s
    BY <1>3, <1>5, <1>13, <2>1, <2>2 DEF Good, Closed
  <2>3. CASE t = s
    <3>1. u = s \/ m.entry[u] # Null
      BY <1>1, <2>3, AboveVA DEF Walked
    <3> QED BY <1>3, <1>5, <1>13, <2>1, <3>1
  <2> QED BY <2>2, <2>3
<1>18. \A t \in Slots : t # s => n.entry[t] = m.entry[t]
  BY <1>3, <1>13
<1> QED BY <1>1, <1>9, <1>14, <1>15, <1>16, <1>17, <1>18 DEF Good

(* What pml4e_walk(va, 1) allocates: missing tables, each with a page of its
   own, none below a table that is still missing.                          *)
LEMMA WalkTablesFacts ==
  ASSUME NEW m, Good(m), NEW e \in Envs, NEW va \in VAs, m.entry[<<e, <<>> >>] # Null,
         NEW f \in WalkTables(m, e, va)
  PROVE  Linkable(m, DOMAIN f, f)
<1>1. PICK D \in SUBSET Missing(m, e, va) :
        /\ f \in [{<<e, q>> : q \in D} -> m.free]
        /\ \A q \in D, r \in Missing(m, e, va) : Len(r) < Len(q) => r \in D
        /\ \A s \in DOMAIN f :
             f[<<e, s[2]>>] \in
               First(<<e, s[2]>>,
                     m.free \ {f[x] : x \in {t \in DOMAIN f : Len(t[2]) < Len(s[2])}})
  BY DEF WalkTables
<1>2. DOMAIN f = {<<e, q>> : q \in D} /\ \A q \in D : <<e, q>>[2] = q
  BY <1>1
<1>3. \A q \in D : q \in Prefixes(va) /\ m.entry[<<e, q>>] = Null
  BY DEF Missing
<1>4. \A q \in Prefixes(va) : q \in Tables /\ Len(q) \in 1 .. 3 /\ q = SubSeq(va, 1, Len(q))
                              /\ q \in Names /\ <<e, q>> \in Slots
  BY PrefixesFacts, SlotFacts DEF Names
<1>5. DOMAIN f \in SUBSET Slots /\ \A s \in DOMAIN f : m.entry[s] = Null /\ IsTable(s)
  BY <1>2, <1>3, <1>4 DEF IsTable
<1>6. m.free \subseteq AllPages
  BY DEF Good, Typed, AllPages
<1>7. ASSUME NEW q \in D, NEW r \in D, Len(r) < Len(q)
      PROVE  f[<<e, q>>] # f[<<e, r>>]
  <2> DEFINE taken == {f[x] : x \in {t \in DOMAIN f : Len(t[2]) < Len(q)}}
  <2>1. f[<<e, q>>] \in First(<<e, q>>, m.free \ taken)
    BY <1>1, <1>2
  <2>2. f[<<e, r>>] \in taken
    BY <1>2, <1>7
  <2>3. m.free \ taken \in SUBSET AllPages /\ <<e, q>> \in Slots
    BY <1>3, <1>4, <1>6
  <2> HIDE DEF taken
  <2>4. First(<<e, q>>, m.free \ taken) \subseteq m.free \ taken
    BY <2>3, FirstAssumption
  <2> QED BY <2>1, <2>2, <2>4
<1>8. ASSUME NEW q \in D, NEW r \in D, f[<<e, q>>] = f[<<e, r>>] PROVE q = r
  <2>1. ~ (Len(r) < Len(q)) /\ ~ (Len(q) < Len(r))
    BY <1>7, <1>8
  <2>2. Len(q) \in 1 .. 3 /\ Len(r) \in 1 .. 3
    BY <1>3, <1>4
  <2>3. \A i \in 1 .. 3 : \A j \in 1 .. 3 : ~ (i < j) /\ ~ (j < i) => i = j
    OBVIOUS
  <2>4. Len(q) = Len(r)
    BY <2>1, <2>2, <2>3, Zenon
  <2>5. q = SubSeq(va, 1, Len(q)) /\ r = SubSeq(va, 1, Len(r))
    BY <1>3, <1>4, Zenon
  <2> QED BY <2>4, <2>5, Zenon
<1>9. ASSUME NEW q \in D, NEW t \in Above(<<e, q>>) PROVE t \in DOMAIN f \/ m.entry[t] # Null
  <2>1. CASE t = <<e, q>> \/ t = <<e, <<>> >>
    BY <1>2, <2>1, Zenon
  <2>2. ASSUME NEW r \in Prefixes(va), t = <<e, r>>, Len(r) < Len(q)
        PROVE  t \in DOMAIN f \/ m.entry[t] # Null
    <3>1. r \in Missing(m, e, va) => r \in D
      BY <1>1, <2>2
    <3>2. r \notin Missing(m, e, va) => m.entry[<<e, r>>] # Null
      BY DEF Missing
    <3> QED BY <1>2, <2>2, <3>1, <3>2
  <2> QED BY <1>3, <2>1, <2>2, AboveTable
<1>10. \A s, t \in DOMAIN f : f[s] = f[t] => s = t
  BY <1>2, <1>8
<1>11. \A s \in DOMAIN f : \A t \in Above(s) : t \in DOMAIN f \/ m.entry[t] # Null
  BY <1>2, <1>9
<1> QED BY <1>1, <1>2, <1>5, <1>10, <1>11 DEF Linkable

(* pml4e_walk(va, 1) keeps the memory sound, and what it takes from the free
   list becomes a table.                                                   *)
LEMMA WalkGood ==
  ASSUME NEW m, Good(m), NEW e \in Envs, NEW va \in VAs, m.entry[<<e, <<>> >>] # Null,
         NEW f \in WalkTables(m, e, va)
  PROVE  LET n == Link(m, f) IN
         /\ Good(n)
         /\ \A s \in Slots : m.entry[s] # Null \/ ~ IsTable(s) => n.entry[s] = m.entry[s]
         /\ \A s \in Slots : n.entry[s] = m.entry[s] \/ n.entry[s] \in m.free
         /\ \A p \in Pages : p \notin m.free => n.ref[p] = m.ref[p]
         /\ n.free \subseteq m.free
         /\ \A p \in m.free \ n.free : \E s \in Slots : IsTable(s) /\ n.entry[s] = p
<1>1. PICK D : D = DOMAIN f /\ Linkable(m, D, f)
  BY WalkTablesFacts
<1>2. PICK n : n = Link(m, f)
  OBVIOUS
<1>3. /\ Good(n)
      /\ \A s \in Slots : n.entry[s] = IF s \in D THEN f[s] ELSE m.entry[s]
      /\ \A p \in Pages : p \notin m.free => n.ref[p] = m.ref[p]
      /\ n.free = {p \in m.free : \A s \in D : f[s] # p}
  BY <1>1, <1>2, LinkGood
<1>4. \A s \in D : s \in Slots /\ f[s] \in m.free /\ m.entry[s] = Null /\ IsTable(s)
  BY <1>1 DEF Linkable
<1> QED BY <1>2, <1>3, <1>4

(* page_insert() with the tables it allocates. *)
LEMMA InsertedGood ==
  ASSUME NEW m, Good(m), NEW e \in Envs, NEW va \in VAs, NEW p \in Pages,
         p \notin m.free, m.ref[p] + 1 < RefWrap,
         \A t \in Slots : IsTable(t) => m.entry[t] # p,
         m.entry[<<e, <<>> >>] # Null,
         m.entry[<<e, va>>] = p => \E t \in Slots \ {<<e, va>>} : m.entry[t] = p,
         NEW i \in Inserted(m, p, e, va)
  PROVE  /\ Good(i.mem) /\ i.ok \in BOOLEAN
         /\ \A t \in Slots : IsTable(t) /\ m.entry[t] # Null => i.mem.entry[t] = m.entry[t]
         /\ ~ i.ok => /\ \A s \in Slots : m.entry[s] # Null => i.mem.entry[s] = m.entry[s]
                      /\ i.mem.ref[p] = m.ref[p] /\ p \notin i.mem.free
                      /\ \A x \in m.free \ i.mem.free :
                           \E s \in Slots : IsTable(s) /\ i.mem.entry[s] = x
<1>1. PICK f \in WalkTables(m, e, va) :
        i = IF Walked(Link(m, f), e, va)
            THEN [mem |-> page_insert(Link(m, f), p, e, va), ok |-> TRUE]
            ELSE [mem |-> Link(m, f), ok |-> FALSE]
  BY DEF Inserted
<1>2. PICK n : n = Link(m, f)
  OBVIOUS
<1>3. /\ Good(n)
      /\ \A s \in Slots : m.entry[s] # Null \/ ~ IsTable(s) => n.entry[s] = m.entry[s]
      /\ \A s \in Slots : n.entry[s] = m.entry[s] \/ n.entry[s] \in m.free
      /\ n.ref[p] = m.ref[p] /\ n.free \subseteq m.free
      /\ \A x \in m.free \ n.free : \E s \in Slots : IsTable(s) /\ n.entry[s] = x
  BY <1>2, WalkGood
<1>4. PICK r \in Slots : r = <<e, <<>> >>
  BY SlotFacts
<1>5. <<e, va>> \in Slots /\ ~ IsTable(<<e, va>>)
  BY SlotFacts
<1>6. CASE ~ Walked(n, e, va)
  <2>1. i = [mem |-> n, ok |-> FALSE]
    BY <1>1, <1>2, <1>6
  <2> QED BY <1>3, <2>1
<1>7. CASE Walked(n, e, va)
  <2>1. i.mem = page_insert(n, p, e, va) /\ i.ok = TRUE
    BY <1>1, <1>2, <1>7
  <2>2. \A t \in Slots : IsTable(t) => n.entry[t] # p
    BY <1>3
  <2>3. n.entry[<<e, <<>> >>] # Null
    <3>1. m.entry[r] # Null
      BY <1>4, Zenon
    <3>2. n.entry[r] # Null
      BY <1>3, <3>1
    <3> QED BY <1>4, <3>2, Zenon
  <2>4. n.entry[<<e, va>>] = p => \E t \in Slots \ {<<e, va>>} : n.entry[t] = p
    BY <1>3, <1>5, PagesAssumption
  <2>5. p \notin n.free /\ n.ref[p] + 1 < RefWrap
    BY <1>3
  <2>6. Good(i.mem) /\ \A t \in Slots : t # <<e, va>> => i.mem.entry[t] = n.entry[t]
    BY <1>3, <1>7, <2>1, <2>2, <2>3, <2>4, <2>5, InsertGood
  <2> QED BY <1>3, <1>5, <2>1, <2>6
<1> QED BY <1>6, <1>7

(* A page that page_alloc() took from the free list, with k references. *)
LEMMA TakeGood ==
  ASSUME NEW m, Good(m), NEW p \in m.free, NEW k \in 0 .. 1, NEW n,
         n = [entry |-> m.entry, ref |-> [m.ref EXCEPT ![p] = k], free |-> m.free \ {p}]
  PROVE  /\ Good(n) /\ p \in Pages /\ p \notin n.free /\ n.ref[p] = k /\ k + 1 < RefWrap
         /\ \A s \in Slots : n.entry[s] # p
         /\ n.entry = m.entry /\ n.free = m.free \ {p}
<1>1. n.entry = m.entry /\ n.ref = [m.ref EXCEPT ![p] = k] /\ n.free = m.free \ {p}
  OBVIOUS
<1>2. p \in Pages /\ m.ref[p] = 0 /\ Owners(m, p) = {} /\ \A s \in Slots : m.entry[s] # p
  BY FreeUnowned
<1>3. m \in [entry : [Slots -> Pages \cup {Null}], ref : [AllPages -> 0 .. RefWrap - 1],
             free : SUBSET Pages]
  BY DEF Good, Typed
<1>4. k \in 0 .. RefWrap - 1 /\ k + 1 < RefWrap
  BY RefAssumption
<1>5. p \in AllPages /\ \A x \in AllPages : n.ref[x] = IF x = p THEN k ELSE m.ref[x]
  BY <1>1, <1>2, <1>3 DEF AllPages
<1>6. Typed(n)
  BY <1>1, <1>3, <1>4 DEF Typed
<1>7. Counted(n)
  <2>1. \A x : Owners(n, x) = Owners(m, x)
    BY <1>1 DEF Owners
  <2>2. Cardinality(Owners(n, p)) = 0
    BY <1>2, <2>1, OwnersFacts
  <2>3. Cardinality(Owners(n, p)) <= n.ref[p] /\ p \notin n.free
    BY <1>1, <1>5, <2>2
  <2>4. ASSUME NEW x \in Pages, x # p
        PROVE  Cardinality(Owners(n, x)) <= n.ref[x] /\ (x \in n.free => n.ref[x] = 0)
    <3>1. n.ref[x] = m.ref[x]
      BY <1>5, <2>4 DEF AllPages
    <3> QED BY <1>1, <2>1, <3>1 DEF Good, Counted
  <2> QED BY <2>3, <2>4 DEF Counted
<1>8. Private(n) /\ Closed(n)
  BY <1>1 DEF Good, Private, Closed
<1> QED BY <1>1, <1>2, <1>4, <1>5, <1>6, <1>7, <1>8 DEF Good

(* page_free() of a page without references. *)
LEMMA GiveGood ==
  ASSUME NEW m, Good(m), NEW p \in Pages, m.ref[p] = 0
  PROVE  LET n == [m EXCEPT !.free = @ \cup {p}] IN
         Good(n) /\ n.entry = m.entry /\ n.free = m.free \cup {p}
<1>1. m \in [entry : [Slots -> Pages \cup {Null}], ref : [AllPages -> 0 .. RefWrap - 1],
             free : SUBSET Pages]
  BY DEF Good, Typed
<1>2. PICK n : n = [m EXCEPT !.free = @ \cup {p}]
  OBVIOUS
<1>3. /\ n = [entry |-> m.entry, ref |-> m.ref, free |-> m.free \cup {p}]
      /\ n.entry = m.entry /\ n.ref = m.ref /\ n.free = m.free \cup {p}
  BY <1>1, <1>2
<1>4. Typed(n)
  BY <1>1, <1>3 DEF Typed
<1>5. \A x : Owners(n, x) = Owners(m, x)
  BY <1>3 DEF Owners
<1>6. Counted(n)
  BY <1>3, <1>5 DEF Good, Counted
<1>7. Private(n) /\ Closed(n)
  BY <1>3 DEF Good, Private, Closed
<1> QED BY <1>2, <1>3, <1>4, <1>6, <1>7 DEF Good

(* env_free(): every entry given up drops one reference of its page. *)
LEMMA UnrefGood ==
  ASSUME NEW m, Good(m), NEW e \in Envs
  PROVE  /\ Good(Unref(m, e))
         /\ \A s \in Slots : s[1] # e => Unref(m, e).entry[s] = m.entry[s]
<1> DEFINE Gone(p) == {s \in Released(m, e) : m.entry[s] = p}
           num(p) == Cardinality(Gone(p))
           ref == [p \in AllPages |-> (m.ref[p] - num(p)) % RefWrap]
           entry == [s \in Slots |-> IF s[1] = e THEN Null ELSE m.entry[s]]
           free == m.free \cup {p \in AllPages : num(p) > 0 /\ m.ref[p] = num(p)}
<1>1. Unref(m, e) = [entry |-> entry, ref |-> ref, free |-> free]
  BY DEF Unref
<1>2. m \in [entry : [Slots -> Pages \cup {Null}], ref : [AllPages -> 0 .. RefWrap - 1],
             free : SUBSET Pages]
  BY DEF Good, Typed
<1>3. ASSUME NEW p
      PROVE  Gone(p) \subseteq Owners(m, p) /\ \A s \in Gone(p) : s[1] = e
  BY DEF Released, Owners
<1>4. ASSUME NEW p PROVE num(p) \in Nat /\ IsFiniteSet(Gone(p))
  BY <1>3, OwnersFacts, FS_Subset, FS_CardinalityType
<1>5. ASSUME NEW p, p \notin Pages, p # Null PROVE num(p) = 0
  <2>1. Gone(p) = {}
    BY <1>2, <1>5 DEF Released
  <2> QED BY <2>1, FS_EmptySet
<1>6. \A s \in Slots : entry[s] = IF s[1] = e THEN Null ELSE m.entry[s]
  OBVIOUS
<1>7. PICK n : n = Unref(m, e)
  OBVIOUS
<1>8. n.entry = entry /\ n.ref = ref /\ n.free = free
  BY <1>1, <1>7
<1> HIDE DEF Gone
<1>9. ASSUME NEW p \in Pages
      PROVE  Cardinality(Owners(n, p)) + num(p) <= m.ref[p] /\ m.ref[p] \in 0 .. RefWrap - 1
  <2>1. Owners(n, p) \cap Gone(p) = {} /\ Owners(n, p) \cup Gone(p) \subseteq Owners(m, p)
    BY <1>3, <1>6, <1>8, PagesAssumption DEF Owners
  <2>2. Cardinality(Owners(n, p) \cup Gone(p))
          = Cardinality(Owners(n, p)) + num(p) - Cardinality({})
    BY <1>4, <2>1, OwnersFacts, FS_Union
  <2>3. Cardinality(Owners(n, p) \cup Gone(p)) <= Cardinality(Owners(m, p))
    BY <2>1, OwnersFacts, FS_Subset
  <2>4. Cardinality(Owners(m, p)) <= m.ref[p] /\ m.ref[p] \in 0 .. RefWrap - 1
    BY <1>2 DEF Good, Counted, AllPages
  <2>5. /\ Cardinality({}) = 0 /\ num(p) \in Nat /\ Cardinality(Owners(n, p)) \in Nat
        /\ Cardinality(Owners(m, p)) \in Nat
    BY <1>4, FS_EmptySet, OwnersFacts
  <2> QED BY <2>2, <2>3, <2>4, <2>5
<1>10. ASSUME NEW p \in AllPages
       PROVE  /\ m.ref[p] \in 0 .. RefWrap - 1 /\ m.ref[p] - num(p) \in 0 .. RefWrap - 1
              /\ n.ref[p] = m.ref[p] - num(p)
  <2>1. m.ref[p] \in 0 .. RefWrap - 1
    BY <1>2
  <2>2. m.ref[p] - num(p) \in 0 .. RefWrap - 1
    <3>1. num(p) \in Nat
      BY <1>4
    <3>2. num(p) <= m.ref[p]
      <4>1. CASE p \in Pages
        <5>1. Cardinality(Owners(n, p)) + num(p) <= m.ref[p] /\ Cardinality(Owners(n, p)) \in Nat
          BY <1>9, <4>1, OwnersFacts
        <5> QED BY <2>1, <3>1, <5>1
      <4>2. CASE p \notin Pages
        <5>1. num(p) = 0
          BY <1>5, <4>2, PagesAssumption DEF AllPages
        <5> QED BY <2>1, <5>1
      <4> QED BY <4>1, <4>2
    <3> QED BY <2>1, <3>1, <3>2, RefAssumption
  <2>3. (m.ref[p] - num(p)) % RefWrap = m.ref[p] - num(p)
    BY <2>2, ModFacts
  <2> QED BY <1>8, <2>1, <2>2, <2>3
<1>11. Typed(n)
  <2>1. n.entry \in [Slots -> Pages \cup {Null}]
    BY <1>2, <1>8
  <2>2. n.ref \in [AllPages -> 0 .. RefWrap - 1]
    BY <1>8, <1>10
  <2>3. n.free \in SUBSET Pages
    <3>1. \A p \in AllPages : p \in Pages \/ num(p) = 0
      BY <1>5, PagesAssumption DEF AllPages
    <3> HIDE DEF num
    <3>2. \A p \in AllPages : num(p) > 0 => p \in Pages
      BY <3>1
    <3> QED BY <1>2, <1>8, <3>2
  <2> QED BY <1>1, <1>7, <1>8, <2>1, <2>2, <2>3 DEF Typed
<1>12. Counted(n)
  <2> SUFFICES ASSUME NEW p \in Pages
               PROVE  Cardinality(Owners(n, p)) <= n.ref[p] /\ (p \in n.free => n.ref[p] = 0)
    BY DEF Counted
  <2>1. /\ Cardinality(Owners(n, p)) + num(p) <= m.ref[p] /\ m.ref[p] \in 0 .. RefWrap - 1
        /\ n.ref[p] = m.ref[p] - num(p) /\ num(p) \in Nat /\ Cardinality(Owners(n, p)) \in Nat
    BY <1>4, <1>9, <1>10, OwnersFacts DEF AllPages
  <2>2. p \in n.free => p \in m.free \/ m.ref[p] = num(p)
    BY <1>8
  <2>3. p \in m.free => m.ref[p] = 0
    BY DEF Good, Counted
  <2> HIDE DEF num
  <2> QED BY <2>1, <2>2, <2>3
<1>13. \A s \in Slots : n.entry[s] = IF s[1] = e THEN Null ELSE m.entry[s]
  BY <1>8
<1>14. Private(n)
  BY <1>13 DEF Good, Private
<1>15. Closed(n)
  <2> SUFFICES ASSUME NEW s \in Slots, n.entry[s] # Null, NEW t \in Above(s)
               PROVE  n.entry[t] # Null
    BY DEF Closed
  <2>1. t \in Slots /\ t[1] = s[1]
    BY AboveFacts
  <2> QED BY <1>13, <2>1 DEF Good, Closed
<1> QED BY <1>7, <1>11, <1>12, <1>13, <1>14, <1>15 DEF Good

----------------------------------------------------------------------------
(* The inductive invariant *)

(* While the first program is loaded, its address space exists and no call has
   failed.                                                                 *)
Starting ==
  ~ panicked /\ toload # {} => retval = "0" /\ (loading # Null => Alive(loading))

Others ==
  /\ writable \subseteq Envs \X VAs
  /\ loading \in Envs \cup {Null}
  /\ toload \subseteq BootVAs
  /\ panicked \in BOOLEAN
  /\ retval \in {"0", "E_NO_MEM"}

IInv == Good(mem) /\ Others /\ Starting

(* The kernel starts with every page on the free list. *)
LEMMA InitIInv == Init => IInv
<1> SUFFICES ASSUME Init PROVE IInv
  OBVIOUS
<1>1. /\ mem.entry = [s \in Slots |-> Null]
      /\ mem.ref = [p \in AllPages |-> IF p = Page0 THEN 1 ELSE 0]
      /\ mem.free = Pages
      /\ mem = [entry |-> mem.entry, ref |-> mem.ref, free |-> mem.free]
  BY DEF Init
<1>2. Typed(mem)
  <2>1. 0 \in 0 .. RefWrap - 1 /\ 1 \in 0 .. RefWrap - 1
    BY RefAssumption
  <2> QED BY <1>1, <2>1 DEF Typed
<1>3. Counted(mem)
  <2> SUFFICES ASSUME NEW p \in Pages
               PROVE  Cardinality(Owners(mem, p)) <= mem.ref[p] /\ mem.ref[p] = 0
    BY DEF Counted
  <2>1. Owners(mem, p) = {}
    BY <1>1, PagesAssumption DEF Owners
  <2>2. mem.ref[p] = 0
    BY <1>1, PagesAssumption DEF AllPages
  <2> QED BY <2>1, <2>2, FS_EmptySet
<1>4. Private(mem) /\ Closed(mem)
  BY <1>1 DEF Private, Closed
<1>5. Others /\ Starting
  BY DEF Init, Others, Starting
<1> QED BY <1>2, <1>3, <1>4, <1>5 DEF IInv, Good

(* What a step may do to the mappings when it reports -E_NO_MEM. *)
Kept ==
  retval' = "E_NO_MEM" =>
    /\ \A s \in Slots : mem.entry[s] # Null => mem'.entry[s] = mem.entry[s]
    /\ writable' = writable
    /\ \A p \in mem.free \ mem'.free :
         \E s \in Slots : s[2] \in Tables /\ mem'.entry[s] = p

(* env_setup_vm(): a free page becomes the PML4 page. *)
LEMMA SetupStep ==
  ASSUME IInv, NEW e \in Envs, env_setup_vm(e)
  PROVE  IInv' /\ Kept
<1>1. CASE mem.free = {}
  <2>1. mem' = mem /\ writable' = writable /\ toload' = toload /\ retval' = "E_NO_MEM"
        /\ panicked' = (loading = Null) /\ loading' = (IF loading = Null THEN e ELSE loading)
        /\ (loading = Null \/ toload = {})
    BY <1>1 DEF env_setup_vm, Loaded
  <2>2. Others' /\ Starting'
    BY <2>1 DEF IInv, Others, Starting
  <2>3. Kept
    BY <2>1 DEF Kept
  <2> QED BY <2>1, <2>2, <2>3 DEF IInv
<1>2. CASE mem.free # {}
  <2>1. PICK s \in Slots : s = <<e, <<>> >> /\ IsTable(s)
    BY SlotFacts
  <2>2. /\ writable' = writable /\ toload' = toload /\ retval' = "0" /\ panicked' = panicked
        /\ loading' = (IF loading = Null THEN e ELSE loading)
        /\ loading = Null \/ toload = {}
    BY <1>2 DEF env_setup_vm, Loaded
  <2>3. PICK p \in First(<<e, <<>> >>, mem.free) : mem' = Link(mem, [x \in {<<e, <<>> >>} |-> p])
    BY <1>2 DEF env_setup_vm
  <2>4. mem.entry[s] = Null
    BY <2>1, Zenon DEF env_setup_vm, Alive
  <2>5. p \in First(s, mem.free)
    BY <2>1, <2>3, Zenon
  <2>6. p \in mem.free
    <3>1. mem.free \in SUBSET AllPages
      BY DEF IInv, Good, Typed, AllPages
    <3> QED BY <2>5, <3>1, FirstAssumption
  <2>7. PICK f : f = [x \in {s} |-> p]
    OBVIOUS
  <2>8. mem' = Link(mem, f)
    BY <2>1, <2>3, <2>7, Zenon
  <2>9. Linkable(mem, {s}, f)
    <3>1. f \in [{s} -> mem.free] /\ f[s] = p
      BY <2>6, <2>7
    <3>2. \A t \in Above(s) : t = s
      BY <2>1, AboveRoot, Zenon
    <3> QED BY <2>1, <2>4, <3>1, <3>2 DEF Linkable
  <2>10. Good(mem') /\ \A t \in Slots : mem'.entry[t] = IF t \in {s} THEN f[t] ELSE mem.entry[t]
    BY <2>8, <2>9, LinkGood DEF IInv
  <2>11. mem'.entry[s] # Null
    BY <2>6, <2>7, <2>10, PagesAssumption DEF IInv, Good, Typed
  <2>12. mem'.entry[<<e, <<>> >>] # Null
    BY <2>1, <2>11, Zenon
  <2>13. Starting'
    BY <2>2, <2>12 DEF Starting, Alive
  <2>14. Others'
    BY <2>2 DEF IInv, Others
  <2>15. Kept
    BY <2>2 DEF Kept
  <2> QED BY <2>10, <2>13, <2>14, <2>15 DEF IInv
<1> QED BY <1>1, <1>2

(* The entries that stay in place include the PML4 pages. *)
LEMMA AliveStays ==
  ASSUME NEW m, NEW n, NEW e \in Envs, m.entry[<<e, <<>> >>] # Null,
         \A t \in Slots : IsTable(t) /\ m.entry[t] # Null => n.entry[t] = m.entry[t]
  PROVE  n.entry[<<e, <<>> >>] # Null
<1>1. PICK s \in Slots : s = <<e, <<>> >> /\ IsTable(s)
  BY SlotFacts
<1>2. m.entry[s] # Null
  BY <1>1, Zenon
<1>3. n.entry[s] # Null
  BY <1>1, <1>2
<1> QED BY <1>1, <1>3, Zenon

(* region_alloc(): the page is counted twice, so it is covered in any case. *)
LEMMA RegionStep ==
  ASSUME IInv, NEW e \in Envs, NEW va \in VAs, region_alloc(e, va)
  PROVE  IInv' /\ Kept
<1>1. /\ ~ panicked /\ e = loading /\ va \in toload /\ toload' = toload \ {va}
      /\ loading' = loading /\ retval' = retval
  BY DEF region_alloc
<1>2. retval = "0" /\ mem.entry[<<e, <<>> >>] # Null /\ e # Null
  BY <1>1, EnvsAssumption DEF IInv, Starting, Alive
<1>3. Kept
  BY <1>1, <1>2 DEF Kept
<1>4. CASE mem.free = {}
  <2>1. panicked' = TRUE /\ mem' = mem /\ writable' = writable
    BY <1>4 DEF region_alloc
  <2> QED BY <1>1, <1>3, <2>1 DEF IInv, Others, Starting
<1>5. CASE mem.free # {}
  <2>1. PICK p \in First(<<e, va>>, mem.free) :
          \E i \in Inserted([mem EXCEPT !.free = @ \ {p}, !.ref[p] = @ + 1], p, e, va) :
              /\ mem' = i.mem
              /\ panicked' = ~ i.ok
              /\ writable' = SetWritable(<<e, va>>, i.ok)
    BY <1>5 DEF region_alloc
  <2>2. PICK m0 : m0 = [mem EXCEPT !.free = @ \ {p}, !.ref[p] = @ + 1]
    OBVIOUS
  <2>3. PICK i \in Inserted(m0, p, e, va) :
          mem' = i.mem /\ panicked' = ~ i.ok /\ writable' = SetWritable(<<e, va>>, i.ok)
    BY <2>1, <2>2
  <2>4. p \in mem.free /\ <<e, va>> \in Slots
    <3>1. mem.free \in SUBSET AllPages /\ <<e, va>> \in Slots
      BY SlotFacts DEF IInv, Good, Typed, AllPages
    <3> QED BY <2>1, <3>1, FirstAssumption
  <2>5. m0 = [entry |-> mem.entry, ref |-> [mem.ref EXCEPT ![p] = 1], free |-> mem.free \ {p}]
    <3>1. mem.ref[p] + 1 = 1
      BY <2>4, FreeUnowned DEF IInv
    <3> QED BY <2>2, <3>1 DEF IInv, Good, Typed
  <2>6. /\ Good(m0) /\ p \in Pages /\ p \notin m0.free /\ m0.ref[p] + 1 < RefWrap
        /\ \A s \in Slots : m0.entry[s] # p
        /\ m0.entry = mem.entry
    <3>1. 1 \in 0 .. 1
      OBVIOUS
    <3> QED BY <2>4, <2>5, <3>1, TakeGood DEF IInv
  <2>7. m0.entry[<<e, va>>] # p /\ m0.entry[<<e, <<>> >>] # Null
    BY <1>2, <2>4, <2>6, Zenon
  <2>8. /\ Good(i.mem) /\ i.ok \in BOOLEAN
        /\ \A t \in Slots : IsTable(t) /\ m0.entry[t] # Null => i.mem.entry[t] = m0.entry[t]
    BY <2>3, <2>6, <2>7, InsertedGood
  <2>9. i.mem.entry[<<e, <<>> >>] # Null
    BY <2>7, <2>8, AliveStays, Zenon
  <2>10. Alive(loading)'
    BY <1>1, <2>3, <2>9 DEF Alive
  <2>11. Starting'
    BY <1>1, <1>2, <2>10 DEF Starting
  <2>12. writable' \subseteq Envs \X VAs
    BY <2>3 DEF IInv, Others, SetWritable
  <2>13. Others'
    BY <1>1, <2>3, <2>8, <2>12 DEF IInv, Others
  <2> QED BY <1>3, <2>3, <2>8, <2>11, <2>13 DEF IInv
<1> QED BY <1>4, <1>5

(* Of the system calls, the other variables are unaffected. *)
LEMMA CallOthers ==
  ASSUME IInv, Loaded, UNCHANGED <<loading, toload, panicked>>,
         writable' \subseteq Envs \X VAs, retval' \in {"0", "E_NO_MEM"}
  PROVE  Others' /\ Starting'
BY DEF IInv, Loaded, Others, Starting

(* sys_page_alloc(): on failure the page goes back without references. *)
LEMMA PageAllocStep ==
  ASSUME IInv, NEW e \in Envs, NEW va \in VAs, NEW w \in Perms, sys_page_alloc(e, va, w)
  PROVE  IInv' /\ Kept
<1>1. Loaded /\ mem.entry[<<e, <<>> >>] # Null /\ UNCHANGED <<loading, toload, panicked>>
  BY DEF sys_page_alloc, Alive
<1>2. CASE mem.free = {}
  <2>1. retval' = "E_NO_MEM" /\ mem' = mem /\ writable' = writable
    BY <1>2 DEF sys_page_alloc
  <2>2. Others' /\ Starting'
    <3>1. writable' \subseteq Envs \X VAs /\ retval' \in {"0", "E_NO_MEM"}
      BY <2>1 DEF IInv, Others
    <3> QED BY <1>1, <3>1, CallOthers
  <2> QED BY <2>1, <2>2 DEF IInv, Kept
<1>3. CASE mem.free # {}
  <2>1. PICK p \in First(<<e, va>>, mem.free) :
          \E i \in Inserted([mem EXCEPT !.free = @ \ {p}], p, e, va) :
              /\ mem' = IF i.ok THEN i.mem ELSE [i.mem EXCEPT !.free = @ \cup {p}]
              /\ writable' = IF i.ok THEN SetWritable(<<e, va>>, w) ELSE writable
              /\ retval' = IF i.ok THEN "0" ELSE "E_NO_MEM"
    BY <1>3 DEF sys_page_alloc
  <2>2. PICK m0 : m0 = [mem EXCEPT !.free = @ \ {p}]
    OBVIOUS
  <2>3. PICK i \in Inserted(m0, p, e, va) :
          /\ mem' = IF i.ok THEN i.mem ELSE [i.mem EXCEPT !.free = @ \cup {p}]
          /\ writable' = IF i.ok THEN SetWritable(<<e, va>>, w) ELSE writable
          /\ retval' = IF i.ok THEN "0" ELSE "E_NO_MEM"
    BY <2>1, <2>2
  <2>4. p \in mem.free /\ <<e, va>> \in Slots
    <3>1. mem.free \in SUBSET AllPages /\ <<e, va>> \in Slots
      BY SlotFacts DEF IInv, Good, Typed, AllPages
    <3> QED BY <2>1, <3>1, FirstAssumption
  <2>5. m0 = [entry |-> mem.entry, ref |-> [mem.ref EXCEPT ![p] = 0], free |-> mem.free \ {p}]
    <3>1. mem.ref[p] = 0
      BY <2>4, FreeUnowned DEF IInv
    <3> QED BY <2>2, <3>1 DEF IInv, Good, Typed
  <2>6. /\ Good(m0) /\ p \in Pages /\ p \notin m0.free /\ m0.ref[p] = 0
        /\ \A s \in Slots : m0.entry[s] # p
        /\ m0.entry = mem.entry /\ m0.free = mem.free \ {p}
    <3>1. 0 \in 0 .. 1
      OBVIOUS
    <3> QED BY <2>4, <2>5, <3>1, TakeGood DEF IInv
  <2>7. m0.entry[<<e, va>>] # p /\ m0.entry[<<e, <<>> >>] # Null
    BY <1>1, <2>4, <2>6, Zenon
  <2>8. m0.ref[p] + 1 < RefWrap
    BY <2>6, RefAssumption
  <2>9. /\ Good(i.mem) /\ i.ok \in BOOLEAN
        /\ ~ i.ok => /\ \A s \in Slots : m0.entry[s] # Null => i.mem.entry[s] = m0.entry[s]
                     /\ i.mem.ref[p] = m0.ref[p] /\ p \notin i.mem.free
                     /\ \A x \in m0.free \ i.mem.free :
                          \E s \in Slots : IsTable(s) /\ i.mem.entry[s] = x
    BY <2>3, <2>6, <2>7, <2>8, InsertedGood
  <2>10. Good(mem')
    <3>1. CASE i.ok
      BY <2>3, <2>9, <3>1
    <3>2. CASE ~ i.ok
      BY <2>3, <2>6, <2>9, <3>2, GiveGood
    <3> QED BY <3>1, <3>2
  <2>11. Others' /\ Starting'
    <3>1. writable' \subseteq Envs \X VAs /\ retval' \in {"0", "E_NO_MEM"}
      BY <2>3 DEF IInv, Others, SetWritable
    <3> QED BY <1>1, <3>1, CallOthers
  <2>12. Kept
    <3> SUFFICES ASSUME retval' = "E_NO_MEM" PROVE Kept
      BY DEF Kept
    <3>1. ~ i.ok
      BY <2>3
    <3>2. writable' = writable /\ mem'.entry = i.mem.entry /\ mem'.free = i.mem.free \cup {p}
      BY <2>3, <2>6, <2>9, <3>1, GiveGood
    <3> QED BY <2>6, <2>9, <3>1, <3>2 DEF Kept, IsTable
  <2> QED BY <2>10, <2>11, <2>12 DEF IInv
<1> QED BY <1>2, <1>3

(* sys_page_map(): the page is mapped already, so it is no table. *)
LEMMA PageMapStep ==
  ASSUME IInv, "no_self_remap" \in Discipline, NEW se \in Envs, NEW sva \in VAs,
         NEW de \in Envs, NEW dva \in VAs, NEW w \in Perms, sys_page_map(se, sva, de, dva, w)
  PROVE  IInv' /\ Kept
<1>1. /\ Loaded /\ mem.entry[<<de, <<>> >>] # Null /\ UNCHANGED <<loading, toload, panicked>>
      /\ mem.entry[<<se, sva>>] # Null
  BY DEF sys_page_map, Alive
<1>2. PICK p : p = mem.entry[<<se, sva>>]
  OBVIOUS
<1>3. /\ mem.ref[p] < MaxRef
      /\ mem.entry[<<de, dva>>] = p => \E s \in Slots \ {<<de, dva>>} : mem.entry[s] = p
  BY <1>2 DEF sys_page_map
<1>4. PICK i \in Inserted(mem, p, de, dva) :
        /\ mem' = i.mem
        /\ writable' = IF i.ok THEN SetWritable(<<de, dva>>, w) ELSE writable
        /\ retval' = IF i.ok THEN "0" ELSE "E_NO_MEM"
  BY <1>2 DEF sys_page_map
<1>5. <<se, sva>> \in Slots /\ ~ IsTable(<<se, sva>>)
  BY SlotFacts
<1>6. p \in Pages /\ p # Null
  BY <1>1, <1>2, <1>5 DEF IInv, Good, Typed
<1>7. p \notin mem.free
  BY <1>2, <1>5, FreeUnowned DEF IInv
<1>8. mem.ref[p] + 1 < RefWrap
  <2>1. mem.ref[p] \in 0 .. RefWrap - 1
    BY <1>6 DEF IInv, Good, Typed, AllPages
  <2> QED BY <1>3, <2>1, RefAssumption
<1>9. \A t \in Slots : IsTable(t) => mem.entry[t] # p
  BY <1>2, <1>5, <1>6 DEF IInv, Good, Private
<1>10. /\ Good(i.mem) /\ i.ok \in BOOLEAN
       /\ ~ i.ok => /\ \A s \in Slots : mem.entry[s] # Null => i.mem.entry[s] = mem.entry[s]
                    /\ \A x \in mem.free \ i.mem.free :
                         \E s \in Slots : IsTable(s) /\ i.mem.entry[s] = x
  BY <1>1, <1>3, <1>4, <1>6, <1>7, <1>8, <1>9, InsertedGood DEF IInv
<1>11. Others' /\ Starting'
  <2>1. writable' \subseteq Envs \X VAs /\ retval' \in {"0", "E_NO_MEM"}
    BY <1>4 DEF IInv, Others, SetWritable
  <2> QED BY <1>1, <2>1, CallOthers
<1>12. Kept
  BY <1>4, <1>10 DEF Kept, IsTable
<1> QED BY <1>4, <1>10, <1>11, <1>12 DEF IInv

(* sys_page_unmap() of a mapped page. *)
LEMMA PageUnmapStep ==
  ASSUME IInv, NEW e \in Envs, NEW va \in VAs, sys_page_unmap(e, va)
  PROVE  IInv' /\ Kept
<1>1. /\ Loaded /\ UNCHANGED <<loading, toload, panicked>>
      /\ mem.entry[<<e, va>>] # Null /\ mem' = page_remove(mem, e, va)
      /\ writable' \subseteq writable /\ retval' = "0"
  BY DEF sys_page_unmap
<1>2. Good(mem')
  BY <1>1, RemoveGood DEF IInv
<1>3. Others' /\ Starting'
  <2>1. writable' \subseteq Envs \X VAs /\ retval' \in {"0", "E_NO_MEM"}
    BY <1>1 DEF IInv, Others
  <2> QED BY <1>1, <2>1, CallOthers
<1> QED BY <1>1, <1>2, <1>3 DEF IInv, Kept

(* env_free(): the references dropped are among those counted. *)
LEMMA EnvFreeStep ==
  ASSUME IInv, NEW e \in Envs, env_free(e)
  PROVE  IInv' /\ Kept
<1>1. /\ Loaded /\ UNCHANGED <<loading, toload, panicked>>
      /\ mem' = Unref(mem, e) /\ writable' \subseteq writable /\ retval' = "0"
  BY DEF env_free
<1>2. Good(mem')
  BY <1>1, UnrefGood DEF IInv
<1>3. Others' /\ Starting'
  <2>1. writable' \subseteq Envs \X VAs /\ retval' \in {"0", "E_NO_MEM"}
    BY <1>1 DEF IInv, Others
  <2> QED BY <1>1, <2>1, CallOthers
<1> QED BY <1>1, <1>2, <1>3 DEF IInv, Kept

(* Every step keeps the memory sound, and a failing one the mappings. *)
LEMMA StepIInv ==
  ASSUME IInv, "no_self_remap" \in Discipline, [Next]_vars
  PROVE  IInv' /\ (Kept \/ UNCHANGED vars)
<1>1. CASE UNCHANGED vars
  BY <1>1 DEF IInv, vars, Others, Starting, Alive
<1>2. CASE Next
  BY <1>2, SetupStep, RegionStep, PageAllocStep, PageMapStep, PageUnmapStep, EnvFreeStep DEF Next
<1> QED BY <1>1, <1>2

(* Soundness of the memory implies the properties of Pmap. *)
LEMMA IInvImplies ==
  ASSUME IInv
  PROVE  MappedNotFree /\ RefCoversMappings /\ TablesWellFormed
<1>1. MappedNotFree
  BY FreeUnowned DEF IInv, MappedNotFree
<1>2. RefCoversMappings
  <2>1. \A p \in Pages : Refs(p) <= mem.ref[p] /\ (p \in mem.free => mem.ref[p] = 0)
    BY DEF IInv, Good, Counted, Refs, Owners
  <2>2. \A p \in Pages : Refs(p) \in Nat /\ mem.ref[p] \in 0 .. RefWrap - 1
    BY OwnersFacts DEF IInv, Good, Typed, Refs, Owners, AllPages
  <2> QED BY <2>1, <2>2 DEF RefCoversMappings
<1>3. TypeOK
  BY DEF IInv, Good, Typed, Others, TypeOK, AllPages
<1>4. TablesArePrivate
  BY DEF IInv, Good, Private, TablesArePrivate, IsTable
<1>5. \A s \in Slots : mem.entry[s] # Null =>
        \A k \in 0 .. Len(s[2]) : mem.entry[<<s[1], SubSeq(s[2], 1, k)>>] # Null
  BY DEF IInv, Good, Closed, Above
<1> QED BY <1>1, <1>2, <1>3, <1>4, <1>5 DEF TablesWellFormed

----------------------------------------------------------------------------
(* The memory is sound in every reachable state, as long as programs do not
   remap a page at the only address where it is mapped.                    *)
LEMMA Invariance ==
  ASSUME "no_self_remap" \in Discipline
  PROVE  Spec => []IInv
<1>1. IInv /\ [Next]_vars => IInv'
  BY StepIInv
<1> QED BY <1>1, InitIInv, PTL DEF Spec

(* A page that some page table refers to is never on the free list. *)
THEOREM MappedCorrect ==
  ASSUME "no_self_remap" \in Discipline
  PROVE  Spec => []MappedNotFree
BY Invariance, IInvImplies, PTL

(* pp_ref counts at least the entries that point to a page, through all
   allocations, failed allocations and env_free(), and a free page has none. *)
THEOREM RefCorrect ==
  ASSUME "no_self_remap" \in Discipline
  PROVE  Spec => []RefCoversMappings
BY Invariance, IInvImplies, PTL

(* Page tables form trees of private pages. *)
THEOREM TreeCorrect ==
  ASSUME "no_self_remap" \in Discipline
  PROVE  Spec => []TablesWellFormed
BY Invariance, IInvImplies, PTL

(* A call that reports -E_NO_MEM has changed no mapping, and every page it took
   from the free list serves as a page table.                              *)
THEOREM FailureCorrect ==
  ASSUME "no_self_remap" \in Discipline
  PROVE  Spec => FailureKeepsMappings
<1>1. IInv /\ [Next]_vars => (Kept \/ UNCHANGED vars)
  BY StepIInv
<1> QED BY <1>1, Invariance, PTL DEF Spec, FailureKeepsMappings, Kept
=============================================================================
