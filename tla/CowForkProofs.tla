--------------------------- MODULE CowForkProofs ----------------------------
(***************************************************************************)
(* Proofs about CowFork for any number of environments, pages and addresses: *)
(* writable pages are private while a program runs, faults can be handled, *)
(* and, as long as no sys_page_map() of duppage() fails, fork() implements *)
(* ForkAbs.                                                                *)
(***************************************************************************)
EXTENDS CowFork, TLAPS

ForkPCs == {"duppage", "remap", "st_copy", "st_map", "st_unmap", "uxstack", "start"}
W(e, v) == page[e][v] # Null /\ perm[e][v] = "W"

(* An environment inside fork() builds an embryo that nobody else builds. *)
Families ==
  \A e \in Envs : pc[e] \in ForkPCs =>
    /\ child[e] \in Envs /\ pc[child[e]] = "embryo"
    /\ addr[e] \in 1 .. NData + 1
    /\ \A f \in Envs : pc[f] \in ForkPCs /\ child[f] = child[e] => f = e

FreeEmpty == \A e \in Envs : pc[e] = "free" => \A va \in VAs : page[e][va] = Null

(* Where a page may be mapped twice and yet writable, between two calls of the
   library: in duppage(), and while it is also at PFTEMP.                  *)
Between(e, v, f, w) ==
  \/ pc[e] = "remap" /\ v = addr[e] /\ f = child[e] /\ w = v
  \/ pc[e] = "pf_unmap" /\ f = e /\ v = PFTEMP /\ w = addr[e]
  \/ pc[e] = "pf_unmap" /\ f = e /\ w = PFTEMP /\ v = addr[e]
  \/ pc[e] = "st_unmap" /\ v = PFTEMP /\ f = child[e] /\ w = STACK
  \/ pc[f] = "st_unmap" /\ w = PFTEMP /\ e = child[f] /\ v = STACK

Sharing ==
  \A e, f \in Envs, v, w \in VAs :
    W(e, v) /\ page[f][w] = page[e][v] => (e = f /\ v = w) \/ Between(e, v, f, w)

Temp == \A e \in Envs : pc[e] \in {"pf_copy", "pf_map", "st_copy", "st_map"} => W(e, PFTEMP)

(* The upcall is there before the first page becomes copy-on-write, and the
   exception stack as long as the upcall.                                  *)
Handlers ==
  \A e \in Envs :
    /\ e \in upcall => pc[e] \notin {"free", "embryo"} /\ W(e, UXSTACK)
    /\ pc[e] \in ForkPCs \cup {"exofork"} => e \in upcall
    /\ pc[e] = "start" => W(child[e], UXSTACK)
    /\ pc[e] # "embryo" /\ e \notin upcall =>
         \A va \in VAs : page[e][va] # Null => perm[e][va] # "COW"

IInv == TypeOK /\ Families /\ FreeEmpty /\ Sharing /\ Temp /\ Handlers

----------------------------------------------------------------------------
(* Addresses *)

(* How the special addresses relate to the ones that fork() copies. *)
LEMMA VAFacts ==
  /\ STACK \in UserVAs /\ STACK \in VAs /\ PFTEMP \in VAs /\ UXSTACK \in VAs
  /\ PFTEMP \notin UserVAs /\ UXSTACK \notin UserVAs /\ PFTEMP # UXSTACK
  /\ STACK # PFTEMP /\ STACK # UXSTACK /\ STACK \notin Data
  /\ UserVAs \subseteq VAs /\ Data \subseteq UserVAs
  /\ UserVAs \subseteq 0 .. NData + 1 /\ STACK \in 0 .. NData + 1
  /\ \A a \in 0 .. NData + 1 : a # PFTEMP /\ a # UXSTACK
  /\ \A a \in 1 .. NData + 1 : a \notin Data <=> a = NData + 1
  /\ \A a \in Data : a \in 1 .. NData + 1 /\ a + 1 \in 1 .. NData + 1 /\ a + 1 \in 0 .. NData + 1
BY NDataAssumption DEF STACK, UserVAs, VAs, PFTEMP, UXSTACK, Data

(* The special addresses are different from each other. *)
LEMMA Places ==
  /\ STACK \in VAs /\ PFTEMP \in VAs /\ UXSTACK \in VAs
  /\ PFTEMP # UXSTACK /\ STACK # PFTEMP /\ STACK # UXSTACK
BY VAFacts

(* The type invariant, conjunct by conjunct. *)
LEMMA Types ==
  ASSUME TypeOK
  PROVE  /\ pc \in [Envs -> PCs]
         /\ page \in [Envs -> [VAs -> Pages \cup {Null}]]
         /\ perm \in [Envs -> [VAs -> {"W", "COW", "RO"}]]
         /\ content \in [Pages -> Values]
         /\ child \in [Envs -> Envs \cup {Null}]
         /\ addr \in [Envs -> 0 .. NData + 1]
BY DEF TypeOK

(* An entry stays as it is. *)
WNext(e, v) == page'[e][v] # Null /\ perm'[e][v] = "W"
Kept(e, v) == /\ page'[e][v] = page[e][v] /\ perm'[e][v] = perm[e][v]
              /\ W(e, v)' <=> W(e, v)
              /\ WNext(e, v) <=> W(e, v)

(* What page_map() does to the entries. *)
LEMMA PageMapFacts ==
  ASSUME TypeOK, NEW x \in Envs, NEW va \in VAs, NEW p \in Pages \cup {Null},
         NEW prm \in {"W", "COW", "RO"}, page_map(x, va, p, prm)
  PROVE  /\ page' \in [Envs -> [VAs -> Pages \cup {Null}]]
         /\ perm' \in [Envs -> [VAs -> {"W", "COW", "RO"}]]
         /\ content' \in [Pages -> Values]
         /\ page'[x][va] = p /\ perm'[x][va] = prm
         /\ W(x, va)' <=> p # Null /\ prm = "W"
         /\ WNext(x, va) <=> p # Null /\ prm = "W"
         /\ \A e \in Envs, v \in VAs : e # x \/ v # va => Kept(e, v)
<1>1. page' = [page EXCEPT ![x][va] = p] /\ page' \in [Envs -> [VAs -> Pages \cup {Null}]]
  BY Types DEF page_map
<1>2. perm' = [perm EXCEPT ![x][va] = prm]
        /\ perm' \in [Envs -> [VAs -> {"W", "COW", "RO"}]]
  BY Types DEF page_map
<1>3. content' \in [Pages -> Values]
  BY Types, ValuesAssumption DEF page_map, Cleared
<1>4. page'[x][va] = p /\ perm'[x][va] = prm
  BY <1>1, <1>2, Types
<1>5. \A e \in Envs, v \in VAs : e # x \/ v # va =>
        page'[e][v] = page[e][v] /\ perm'[e][v] = perm[e][v]
  BY <1>1, <1>2, Types
<1>6. /\ W(x, va)' <=> p # Null /\ prm = "W"
      /\ WNext(x, va) <=> p # Null /\ prm = "W"
  BY <1>4 DEF W, WNext
<1>7. \A e \in Envs, v \in VAs : e # x \/ v # va => Kept(e, v)
  BY <1>5 DEF W, WNext, Kept
<1> QED BY <1>1, <1>2, <1>3, <1>4, <1>6, <1>7

(* A page that is free is mapped nowhere. *)
LEMMA FreeFacts ==
  ASSUME NEW p \in Free
  PROVE  /\ p \in Pages /\ p # Null
         /\ \A e \in Envs, v \in VAs : page[e][v] # p
BY PagesAssumption DEF Free, Mapped

(* Goto() moves one process. *)
LEMMA PcFacts ==
  ASSUME TypeOK, NEW e \in Envs, NEW l, Goto(e, l)
  PROVE  \A x \in Envs : pc'[x] = IF x = e THEN l ELSE pc[x]
BY Types DEF Goto

----------------------------------------------------------------------------
(* The first state *)

(* The first process runs alone, with a memory of its own. *)
LEMMA InitIInv == Init => IInv
<1> SUFFICES ASSUME Init PROVE IInv
  OBVIOUS
<1>1. PICK f \in [UserVAs -> Pages] :
       /\ \A v, w \in UserVAs : f[v] = f[w] => v = w
       /\ page = [e \in Envs |-> IF e = Root
                                 THEN [va \in VAs |-> IF va \in UserVAs THEN f[va] ELSE Null]
                                 ELSE Unmapped]
  BY DEF Init
<1>2. \A e \in Envs, v \in VAs :
        page[e][v] = IF e = Root /\ v \in UserVAs THEN f[v] ELSE Null
  BY <1>1 DEF Unmapped
<1>3. perm = [e \in Envs |-> IF e = Root
                            THEN [va \in VAs |-> IF va \in UserVAs THEN "W" ELSE "RO"]
                            ELSE NoPerms]
  BY DEF Init
<1>4. \A e \in Envs, v \in VAs :
        perm[e][v] = IF e = Root /\ v \in UserVAs THEN "W" ELSE "RO"
  BY <1>3 DEF NoPerms
<1>5. \A e \in Envs : pc[e] = IF e = Root THEN "user" ELSE "free"
  BY DEF Init
<1>6. TypeOK
  <2>1. page \in [Envs -> [VAs -> Pages \cup {Null}]]
    BY <1>1 DEF Unmapped
  <2>2. perm \in [Envs -> [VAs -> {"W", "COW", "RO"}]]
    BY <1>3 DEF NoPerms
  <2> QED BY <2>1, <2>2, VAFacts, ValuesAssumption DEF TypeOK, Init, PCs
<1>7. Families /\ Temp
  BY <1>5 DEF Families, Temp, ForkPCs
<1>8. FreeEmpty
  BY <1>2, <1>5 DEF FreeEmpty
<1>9. Sharing
  BY <1>1, <1>2, PagesAssumption DEF Sharing, W
<1>10. Handlers
  BY <1>4, <1>5 DEF Handlers, Init, ForkPCs
<1> QED BY <1>6, <1>7, <1>8, <1>9, <1>10 DEF IInv

----------------------------------------------------------------------------
(* Steps that leave the mappings alone *)

(* A move of one environment inside the library, or into it or out of it. *)
LEMMA QuietIInv ==
  ASSUME IInv, NEW e \in Envs, NEW l \in PCs,
         \A x \in Envs : pc'[x] = IF x = e THEN l ELSE pc[x],
         pc' \in [Envs -> PCs], content' \in [Pages -> Values],
         addr' \in [Envs -> 0 .. NData + 1],
         \A x \in Envs \ {e} : addr'[x] = addr[x],
         UNCHANGED <<page, perm, upcall, child>>,
         pc[e] \notin {"free", "embryo", "remap", "pf_unmap", "st_unmap", "panic"},
         \/ l = pc[e]
         \/ l \in {"user", "pf_alloc", "panic"}
         \/ l = "pf_map" /\ pc[e] = "pf_copy"
         \/ l = "st_map" /\ pc[e] = "st_copy"
         \/ l = "exofork" /\ pc[e] = "user" /\ e \in upcall,
         l \in ForkPCs => addr'[e] = addr[e]
  PROVE  IInv'
<1>1. TypeOK'
  BY DEF IInv, TypeOK
<1>2. Families'
  BY DEF IInv, Families, ForkPCs
<1>3. FreeEmpty'
  BY DEF IInv, FreeEmpty
<1>4. Sharing'
  <2> SUFFICES ASSUME NEW a \in Envs, NEW b \in Envs, NEW v \in VAs, NEW w \in VAs,
                      W(a, v), page[b][w] = page[a][v], ~ (a = b /\ v = w)
               PROVE  Between(a, v, b, w)'
    BY DEF Sharing, W
  <2>1. Between(a, v, b, w)
    BY DEF IInv, Sharing
  <2> QED BY <2>1 DEF Between
<1>5. Temp'
  BY DEF IInv, Temp, W
<1>6. Handlers'
  BY DEF IInv, Handlers, W, ForkPCs
<1> QED BY <1>1, <1>2, <1>3, <1>4, <1>5, <1>6 DEF IInv

----------------------------------------------------------------------------
(* Steps that change one entry *)

(* A fresh page, or none, in the place of another leaves the sharing as it is. *)
LEMMA FreshSharing ==
  ASSUME IInv, NEW x \in Envs, NEW va \in VAs, NEW p \in Free \cup {Null},
         page'[x][va] = p,
         \A e \in Envs, v \in VAs : e # x \/ v # va => Kept(e, v),
         \A a, b \in Envs, v, w \in VAs :
           /\ Between(a, v, b, w) /\ W(a, v) /\ W(a, v)' /\ page'[b][w] # Null
           /\ Kept(a, v) /\ Kept(b, w)
           => Between(a, v, b, w)'
  PROVE  Sharing'
<1> SUFFICES ASSUME NEW a \in Envs, NEW b \in Envs, NEW v \in VAs, NEW w \in VAs,
                    W(a, v)', page'[b][w] = page'[a][v], ~ (a = b /\ v = w)
             PROVE  Between(a, v, b, w)'
  BY DEF Sharing
<1>1. page'[a][v] # Null
  BY DEF W
<1>2. p # Null => \A e \in Envs, y \in VAs : page[e][y] # p
  BY FreeFacts
<1>3. Kept(a, v)
  <2> SUFFICES ASSUME a = x, v = va PROVE FALSE
    OBVIOUS
  <2>1. Kept(b, w)
    OBVIOUS
  <2> QED BY <2>1, <1>1, <1>2 DEF Kept
<1>4. Kept(b, w)
  <2> SUFFICES ASSUME b = x, w = va PROVE FALSE
    OBVIOUS
  <2> QED BY <1>1, <1>2, <1>3 DEF Kept
<1>5. W(a, v) /\ page[b][w] = page[a][v]
  BY <1>3, <1>4 DEF Kept
<1>6. Between(a, v, b, w)
  BY <1>5 DEF IInv, Sharing
<1> QED BY <1>1, <1>3, <1>4, <1>5, <1>6

(* One entry changes, and nobody loses the means to handle a fault. *)
LEMMA HandlersStep ==
  ASSUME IInv, NEW x \in Envs, NEW va \in VAs,
         \A e \in Envs, v \in VAs : e # x \/ v # va => Kept(e, v),
         va = UXSTACK => WNext(x, va),
         \A e \in Envs : e \in upcall' => /\ pc'[e] \notin {"free", "embryo"}
                                          /\ e \in upcall \/ WNext(e, UXSTACK),
         \A e \in Envs : pc'[e] \in ForkPCs \cup {"exofork"} => e \in upcall',
         \A e \in Envs : pc'[e] = "start" =>
           /\ child'[e] \in Envs
           /\ WNext(child'[e], UXSTACK) \/ (pc[e] = "start" /\ child'[e] = child[e]),
         \A e \in Envs : pc'[e] # "embryo" /\ e \notin upcall' =>
           pc[e] # "embryo" /\ e \notin upcall,
         perm'[x][va] = "COW" => pc'[x] = "embryo" \/ x \in upcall'
  PROVE  Handlers'
<1> SUFFICES ASSUME NEW e \in Envs
             PROVE  /\ e \in upcall' => pc'[e] \notin {"free", "embryo"} /\ WNext(e, UXSTACK)
                    /\ pc'[e] \in ForkPCs \cup {"exofork"} => e \in upcall'
                    /\ pc'[e] = "start" => WNext(child'[e], UXSTACK)
                    /\ pc'[e] # "embryo" /\ e \notin upcall' =>
                         \A v \in VAs : page'[e][v] # Null => perm'[e][v] # "COW"
  BY DEF Handlers, W, WNext
<1>1. \A f \in Envs : W(f, UXSTACK) => WNext(f, UXSTACK)
  BY Places DEF Kept
<1>2. e \in upcall' => pc'[e] \notin {"free", "embryo"} /\ WNext(e, UXSTACK)
  BY <1>1 DEF IInv, Handlers
<1>3. pc'[e] = "start" => WNext(child'[e], UXSTACK)
  BY <1>1 DEF IInv, Handlers
<1>4. ASSUME pc'[e] # "embryo", e \notin upcall', NEW v \in VAs, page'[e][v] # Null
      PROVE  perm'[e][v] # "COW"
  <2>1. CASE e = x /\ v = va
    BY <1>4, <2>1
  <2>2. CASE e # x \/ v # va
    BY <1>4, <2>2 DEF Kept, IInv, Handlers
  <2> QED BY <2>1, <2>2
<1> QED BY <1>2, <1>3, <1>4

(* Nobody begins a fork(), and no embryo starts. *)
LEMMA FamiliesStep ==
  ASSUME IInv,
         \A x \in Envs : pc'[x] \in ForkPCs =>
           pc[x] \in ForkPCs /\ child'[x] = child[x] /\ addr'[x] \in 1 .. NData + 1,
         \A x \in Envs : pc[x] = "embryo" => pc'[x] = "embryo"
  PROVE  Families'
BY DEF IInv, Families

(* The program maps a fresh read-only page, or unmaps one. *)
LEMMA ProgramIInv ==
  ASSUME IInv, NEW e \in Envs, NEW va \in Data, sys_page_alloc(e, va) \/ sys_page_unmap(e, va)
  PROVE  IInv'
<1>1. PICK p \in Free \cup {Null} : page_map(e, va, p, "RO")
  BY DEF sys_page_alloc, sys_page_unmap, page_alloc
<1>2. p \in Pages \cup {Null} /\ va \in VAs /\ va # UXSTACK /\ va # PFTEMP
        /\ (p # Null => \A x \in Envs, v \in VAs : page[x][v] # p)
  BY FreeFacts, VAFacts
<1>3. /\ page' \in [Envs -> [VAs -> Pages \cup {Null}]]
      /\ perm' \in [Envs -> [VAs -> {"W", "COW", "RO"}]]
      /\ content' \in [Pages -> Values]
      /\ page'[e][va] = p /\ perm'[e][va] = "RO"
      /\ W(e, va)' <=> p # Null /\ "RO" = "W"
      /\ \A x \in Envs, v \in VAs : x # e \/ v # va => Kept(x, v)
  BY <1>1, <1>2, PageMapFacts DEF IInv
<1>4. pc[e] = "user" /\ UNCHANGED <<pc, upcall, child, addr>>
  BY DEF sys_page_alloc, sys_page_unmap, At
<1>5. TypeOK'
  BY <1>2, <1>3, <1>4 DEF IInv, TypeOK
<1>6. Families'
  BY <1>2, <1>3, <1>4, Places DEF IInv, Families, ForkPCs
<1>7. FreeEmpty'
  BY <1>2, <1>3, <1>4, Places DEF IInv, FreeEmpty, Kept
<1>8. Sharing'
  BY <1>1, <1>2, <1>3, <1>4, FreshSharing DEF Between
<1>9. Temp'
  BY <1>2, <1>3, <1>4, Places DEF IInv, Temp, Kept
<1>10. Handlers'
  BY <1>2, <1>3, <1>4, HandlersStep DEF IInv, Handlers, Families, ForkPCs
<1> QED BY <1>5, <1>6, <1>7, <1>8, <1>9, <1>10 DEF IInv

(* The page at PFTEMP, in pgfault() or for the stack. *)
LEMMA TempAllocIInv ==
  ASSUME IInv, NEW e \in Envs, page_alloc(e, PFTEMP, "W"),
         NEW l \in {"pf_copy", "st_copy"}, Goto(e, l),
         pc[e] = IF l = "pf_copy" THEN "pf_alloc" ELSE "duppage",
         UNCHANGED <<upcall, child, addr>>
  PROVE  IInv'
<1>1. PICK p \in Free : page_map(e, PFTEMP, p, "W")
  BY DEF page_alloc
<1>2. p \in Pages /\ p # Null /\ \A x \in Envs, v \in VAs : page[x][v] # p
  BY FreeFacts
<1>3. /\ page' \in [Envs -> [VAs -> Pages \cup {Null}]]
      /\ perm' \in [Envs -> [VAs -> {"W", "COW", "RO"}]]
      /\ content' \in [Pages -> Values]
      /\ page'[e][PFTEMP] = p /\ perm'[e][PFTEMP] = "W"
      /\ W(e, PFTEMP)' /\ WNext(e, PFTEMP)
      /\ \A x \in Envs, v \in VAs : x # e \/ v # PFTEMP => Kept(x, v)
  BY <1>1, <1>2, PageMapFacts, VAFacts DEF IInv
<1>4. /\ \A x \in Envs : pc'[x] = IF x = e THEN l ELSE pc[x]
      /\ pc' \in [Envs -> PCs]
  BY Types DEF IInv, Goto, PCs
<1>5. TypeOK'
  BY <1>2, <1>3, <1>4 DEF IInv, TypeOK
<1>6. Families'
  <2>1. \A x \in Envs : /\ pc'[x] \in ForkPCs => pc[x] \in ForkPCs /\ addr'[x] = addr[x]
                        /\ pc[x] = "embryo" => pc'[x] = "embryo"
    BY <1>2, <1>3, <1>4 DEF ForkPCs
  <2>2. \A x \in Envs : pc[x] \in ForkPCs => addr[x] \in 1 .. NData + 1
    BY DEF IInv, Families
  <2> QED BY <2>1, <2>2, <1>2, <1>3, <1>4, FamiliesStep
<1>7. FreeEmpty'
  BY SMTT(30), <1>2, <1>3, <1>4, Places DEF IInv, FreeEmpty, Kept
<1>8. Sharing'
  BY <1>1, <1>2, <1>3, <1>4, Places, FreshSharing DEF Between
<1>9. Temp'
  BY <1>2, <1>3, <1>4, Places DEF IInv, Temp, Kept
<1>10. Handlers'
  <2>1. \A x \in Envs : x \in upcall' => /\ pc'[x] \notin {"free", "embryo"}
                                         /\ x \in upcall \/ WNext(x, UXSTACK)
    BY <1>2, <1>3, <1>4 DEF IInv, Handlers
  <2>2. \A x \in Envs : pc'[x] \in ForkPCs \cup {"exofork"} => x \in upcall'
    BY <1>2, <1>3, <1>4 DEF IInv, Handlers, ForkPCs
  <2>3. \A x \in Envs : pc'[x] = "start" => /\ pc[x] = "start" /\ child'[x] = child[x]
                                           /\ child'[x] \in Envs
    BY <1>2, <1>3, <1>4 DEF IInv, Families, ForkPCs
  <2>4. \A x \in Envs : pc'[x] # "embryo" /\ x \notin upcall' =>
          pc[x] # "embryo" /\ x \notin upcall
    BY <1>2, <1>3, <1>4 DEF IInv, Handlers
  <2> QED BY SMTT(30), <2>1, <2>2, <2>3, <2>4, <1>2, <1>3, <1>4, Places, HandlersStep
<1> QED BY <1>5, <1>6, <1>7, <1>8, <1>9, <1>10 DEF IInv

(* set_pgfault_handler(): the exception stack and the upcall. *)
LEMMA SetHandlerIInv ==
  ASSUME IInv, NEW e \in Envs, page_alloc(e, UXSTACK, "W"), pc[e] = "user",
         e \notin upcall, upcall' = upcall \cup {e}, Goto(e, "exofork"),
         UNCHANGED <<child, addr>>
  PROVE  IInv'
<1>1. PICK p \in Free : page_map(e, UXSTACK, p, "W")
  BY DEF page_alloc
<1>2. p \in Pages /\ p # Null /\ \A x \in Envs, v \in VAs : page[x][v] # p
  BY FreeFacts
<1>3. /\ page' \in [Envs -> [VAs -> Pages \cup {Null}]]
      /\ perm' \in [Envs -> [VAs -> {"W", "COW", "RO"}]]
      /\ content' \in [Pages -> Values]
      /\ page'[e][UXSTACK] = p /\ perm'[e][UXSTACK] = "W"
      /\ W(e, UXSTACK)' /\ WNext(e, UXSTACK)
      /\ \A x \in Envs, v \in VAs : x # e \/ v # UXSTACK => Kept(x, v)
  BY <1>1, <1>2, PageMapFacts, VAFacts DEF IInv
<1>4. /\ \A x \in Envs : pc'[x] = IF x = e THEN "exofork" ELSE pc[x]
      /\ pc' \in [Envs -> PCs]
  BY Types DEF IInv, Goto, PCs
<1>5. TypeOK'
  BY <1>2, <1>3, <1>4 DEF IInv, TypeOK
<1>6. Families'
  <2>1. \A x \in Envs : /\ pc'[x] \in ForkPCs => pc[x] \in ForkPCs /\ addr'[x] = addr[x]
                        /\ pc[x] = "embryo" => pc'[x] = "embryo"
    BY <1>2, <1>3, <1>4 DEF ForkPCs
  <2>2. \A x \in Envs : pc[x] \in ForkPCs => addr[x] \in 1 .. NData + 1
    BY DEF IInv, Families
  <2> QED BY <2>1, <2>2, <1>2, <1>3, <1>4, FamiliesStep
<1>7. FreeEmpty'
  BY SMTT(30), <1>2, <1>3, <1>4, Places DEF IInv, FreeEmpty, Kept
<1>8. Sharing'
  BY <1>1, <1>2, <1>3, <1>4, Places, FreshSharing DEF Between
<1>9. Temp'
  BY <1>2, <1>3, <1>4, Places DEF IInv, Temp, Kept
<1>10. Handlers'
  <2>1. \A x \in Envs : x \in upcall' => /\ pc'[x] \notin {"free", "embryo"}
                                         /\ x \in upcall \/ WNext(x, UXSTACK)
    BY <1>2, <1>3, <1>4 DEF IInv, Handlers
  <2>2. \A x \in Envs : pc'[x] \in ForkPCs \cup {"exofork"} => x \in upcall'
    BY <1>2, <1>3, <1>4 DEF IInv, Handlers, ForkPCs
  <2>3. \A x \in Envs : pc'[x] = "start" => /\ pc[x] = "start" /\ child'[x] = child[x]
                                           /\ child'[x] \in Envs
    BY <1>2, <1>3, <1>4 DEF IInv, Families, ForkPCs
  <2>4. \A x \in Envs : pc'[x] # "embryo" /\ x \notin upcall' =>
          pc[x] # "embryo" /\ x \notin upcall
    BY <1>2, <1>3, <1>4 DEF IInv, Handlers
  <2> QED BY <2>1, <2>2, <2>3, <2>4, <1>2, <1>3, <1>4, Places, HandlersStep
<1> QED BY <1>5, <1>6, <1>7, <1>8, <1>9, <1>10 DEF IInv

(* pgfault() puts its copy in the place of the shared page. *)
LEMMA FaultMapIInv ==
  ASSUME IInv, NEW e \in Envs, addr[e] \in UserVAs, pgfault_map(e)
  PROVE  IInv'
<1>1. PICK va \in UserVAs, p \in Pages \cup {Null} :
        va = addr[e] /\ p = page[e][PFTEMP] /\ page_map(e, va, p, "W")
  BY Types, VAFacts DEF IInv, pgfault_map
<1>2. va \in VAs /\ va # PFTEMP /\ va # UXSTACK
  BY VAFacts
<1>3. /\ page' \in [Envs -> [VAs -> Pages \cup {Null}]]
      /\ perm' \in [Envs -> [VAs -> {"W", "COW", "RO"}]]
      /\ content' \in [Pages -> Values]
      /\ page'[e][va] = p /\ perm'[e][va] = "W"
      /\ W(e, va)' <=> p # Null
      /\ \A x \in Envs, v \in VAs : x # e \/ v # va => Kept(x, v)
  BY <1>1, <1>2, PageMapFacts DEF IInv
<1>4. /\ \A x \in Envs : pc'[x] = IF x = e THEN "pf_unmap" ELSE pc[x]
      /\ pc' \in [Envs -> PCs] /\ pc[e] = "pf_map"
      /\ UNCHANGED <<upcall, child, addr>>
  BY Types DEF IInv, Goto, PCs, pgfault_map, At
<1>5. W(e, PFTEMP)
  BY <1>4 DEF IInv, Temp
<1>6. TypeOK'
  BY <1>1, <1>2, <1>3, <1>4, <1>5 DEF IInv, TypeOK
<1>7. Families'
  <2>1. \A x \in Envs : /\ pc'[x] \in ForkPCs => pc[x] \in ForkPCs /\ addr'[x] = addr[x]
                        /\ pc[x] = "embryo" => pc'[x] = "embryo"
    BY <1>1, <1>2, <1>3, <1>4, <1>5 DEF ForkPCs
  <2>2. \A x \in Envs : pc[x] \in ForkPCs => addr[x] \in 1 .. NData + 1
    BY DEF IInv, Families
  <2> QED BY <2>1, <2>2, <1>1, <1>2, <1>3, <1>4, <1>5, FamiliesStep
<1>8. FreeEmpty'
  BY <1>2, <1>3, <1>4 DEF IInv, FreeEmpty, Kept
<1>9. Sharing'
  <2> SUFFICES ASSUME NEW a \in Envs, NEW b \in Envs, NEW v \in VAs, NEW w \in VAs,
                      W(a, v)', page'[b][w] = page'[a][v], ~ (a = b /\ v = w)
               PROVE  Between(a, v, b, w)'
    BY DEF Sharing
  <2> QED BY <1>1, <1>2, <1>3, <1>4, <1>5, Places DEF IInv, Sharing, Between, Kept, Families, ForkPCs
<1>10. Temp'
  BY <1>1, <1>2, <1>3, <1>4, <1>5, Places DEF IInv, Temp, Kept
<1>11. Handlers'
  <2>1. \A x \in Envs : x \in upcall' => /\ pc'[x] \notin {"free", "embryo"}
                                         /\ x \in upcall \/ WNext(x, UXSTACK)
    BY <1>1, <1>2, <1>3, <1>4, <1>5 DEF IInv, Handlers
  <2>2. \A x \in Envs : pc'[x] \in ForkPCs \cup {"exofork"} => x \in upcall'
    BY <1>1, <1>2, <1>3, <1>4, <1>5 DEF IInv, Handlers, ForkPCs
  <2>3. \A x \in Envs : pc'[x] = "start" => /\ pc[x] = "start" /\ child'[x] = child[x]
                                           /\ child'[x] \in Envs
    BY <1>1, <1>2, <1>3, <1>4, <1>5 DEF IInv, Families, ForkPCs
  <2>4. \A x \in Envs : pc'[x] # "embryo" /\ x \notin upcall' =>
          pc[x] # "embryo" /\ x \notin upcall
    BY <1>1, <1>2, <1>3, <1>4, <1>5 DEF IInv, Handlers
  <2> QED BY <2>1, <2>2, <2>3, <2>4, <1>1, <1>2, <1>3, <1>4, <1>5, Places, HandlersStep
<1> QED BY <1>6, <1>7, <1>8, <1>9, <1>10, <1>11 DEF IInv

(* pgfault() and fork() drop the second mapping of the page at PFTEMP. *)
LEMMA TempUnmapIInv ==
  ASSUME IInv, NEW e \in Envs, NEW l \in {"user", "uxstack"},
         IF l = "user" THEN pgfault_unmap(e) ELSE stack_unmap(e)
  PROVE  IInv'
<1>1. page_map(e, PFTEMP, Null, "RO")
  BY DEF pgfault_unmap, stack_unmap
<1>2. /\ page' \in [Envs -> [VAs -> Pages \cup {Null}]]
      /\ perm' \in [Envs -> [VAs -> {"W", "COW", "RO"}]]
      /\ content' \in [Pages -> Values]
      /\ page'[e][PFTEMP] = Null /\ perm'[e][PFTEMP] = "RO"
      /\ ~ W(e, PFTEMP)'
      /\ \A x \in Envs, v \in VAs : x # e \/ v # PFTEMP => Kept(x, v)
  BY <1>1, PageMapFacts, VAFacts DEF IInv
<1>3. /\ pc[e] = IF l = "user" THEN "pf_unmap" ELSE "st_unmap"
      /\ l = "uxstack" => addr' = addr
      /\ \A x \in Envs : pc'[x] = IF x = e THEN l ELSE pc[x]
      /\ pc' \in [Envs -> PCs]
  BY Types DEF IInv, Goto, PCs, pgfault_unmap, stack_unmap, At
<1>4. /\ addr' \in [Envs -> 0 .. NData + 1] /\ \A x \in Envs \ {e} : addr'[x] = addr[x]
      /\ UNCHANGED <<upcall, child>>
  BY Types, VAFacts DEF IInv, pgfault_unmap, stack_unmap
<1>5. TypeOK'
  BY <1>2, <1>3, <1>4 DEF IInv, TypeOK
<1>6. Families'
  <2>1. \A x \in Envs : /\ pc'[x] \in ForkPCs => pc[x] \in ForkPCs /\ addr'[x] = addr[x]
                        /\ pc[x] = "embryo" => pc'[x] = "embryo"
    BY <1>2, <1>3, <1>4 DEF ForkPCs
  <2>2. \A x \in Envs : pc[x] \in ForkPCs => addr[x] \in 1 .. NData + 1
    BY DEF IInv, Families
  <2> QED BY <2>1, <2>2, <1>2, <1>3, <1>4, FamiliesStep
<1>7. FreeEmpty'
  BY SMTT(30), <1>2, <1>3, <1>4, Places DEF IInv, FreeEmpty, Kept
<1>8. Sharing'
  BY <1>1, <1>2, <1>3, <1>4, Places, FreshSharing DEF Between
<1>9. Temp'
  BY <1>2, <1>3, <1>4, Places DEF IInv, Temp, Kept
<1>10. Handlers'
  <2>1. \A x \in Envs : x \in upcall' => /\ pc'[x] \notin {"free", "embryo"}
                                         /\ x \in upcall \/ WNext(x, UXSTACK)
    BY <1>2, <1>3, <1>4 DEF IInv, Handlers
  <2>2. \A x \in Envs : pc'[x] \in ForkPCs \cup {"exofork"} => x \in upcall'
    BY <1>2, <1>3, <1>4 DEF IInv, Handlers, ForkPCs
  <2>3. \A x \in Envs : pc'[x] = "start" => /\ pc[x] = "start" /\ child'[x] = child[x]
                                           /\ child'[x] \in Envs
    BY <1>2, <1>3, <1>4 DEF IInv, Families, ForkPCs
  <2>4. \A x \in Envs : pc'[x] # "embryo" /\ x \notin upcall' =>
          pc[x] # "embryo" /\ x \notin upcall
    BY <1>2, <1>3, <1>4 DEF IInv, Handlers
  <2> QED BY <2>1, <2>2, <2>3, <2>4, <1>2, <1>3, <1>4, Places, HandlersStep
<1> QED BY <1>5, <1>6, <1>7, <1>8, <1>9, <1>10 DEF IInv

(* The child of an environment inside fork(). *)
LEMMA ChildFacts ==
  ASSUME IInv, NEW e \in Envs, pc[e] \in ForkPCs
  PROVE  /\ child[e] \in Envs /\ pc[child[e]] = "embryo" /\ child[e] # e
         /\ child[e] \notin upcall
         /\ \A a \in Envs, v \in VAs, w \in VAs :
              /\ pc[e] \in {"duppage", "st_map"}
              => ~ Between(a, v, e, w)
<1>1. child[e] \in Envs /\ pc[child[e]] = "embryo"
  BY DEF IInv, Families
<1>2. child[e] # e
  BY <1>1 DEF ForkPCs
<1>3. child[e] \notin upcall
  BY <1>1 DEF IInv, Handlers
<1>4. ASSUME NEW a \in Envs, NEW v \in VAs, NEW w \in VAs,
             pc[e] \in {"duppage", "st_map"}, Between(a, v, e, w)
      PROVE  FALSE
  <2>1. \A x \in Envs : pc[x] \in ForkPCs => child[x] # e
    BY <1>4 DEF IInv, Families
  <2> QED BY <1>4, <2>1 DEF Between, ForkPCs
<1> QED BY <1>1, <1>2, <1>3, <1>4

(* duppage() shares a page with the child, copy-on-write or read-only. *)
LEMMA DupIInv ==
  ASSUME IInv, NEW e \in Envs, pc[e] = "duppage", NEW va \in Data, va = addr[e],
         page[e][va] # Null, NEW prm \in {"COW", "RO"},
         page_map(child[e], va, page[e][va], prm),
         IF prm = "COW" THEN Goto(e, "remap") /\ UNCHANGED addr
                        ELSE perm[e][va] = "RO" /\ NextPage(e) /\ UNCHANGED pc,
         UNCHANGED <<upcall, child>>
  PROVE  IInv'
<1>1. PICK c \in Envs, p \in Pages \cup {Null} :
        /\ c = child[e] /\ p = page[e][va] /\ page_map(c, va, p, prm)
        /\ pc[c] = "embryo" /\ c # e /\ c \notin upcall
  BY ChildFacts, Types, VAFacts DEF IInv, ForkPCs
<1>2. va \in VAs /\ va # PFTEMP /\ va # UXSTACK /\ va + 1 \in 0 .. NData + 1
        /\ va + 1 \in 1 .. NData + 1
  BY VAFacts
<1>3. /\ page' \in [Envs -> [VAs -> Pages \cup {Null}]]
      /\ perm' \in [Envs -> [VAs -> {"W", "COW", "RO"}]]
      /\ content' \in [Pages -> Values]
      /\ page'[c][va] = p /\ perm'[c][va] = prm
      /\ ~ W(c, va)'
      /\ \A x \in Envs, v \in VAs : x # c \/ v # va => Kept(x, v)
  BY <1>1, <1>2, PageMapFacts DEF IInv
<1>4. /\ \A x \in Envs : pc'[x] = IF x = e /\ prm = "COW" THEN "remap" ELSE pc[x]
      /\ pc' \in [Envs -> PCs]
  BY Types DEF IInv, Goto, PCs
<1>5. /\ addr' \in [Envs -> 0 .. NData + 1]
      /\ \A x \in Envs \ {e} : addr'[x] = addr[x]
      /\ addr'[e] = IF prm = "COW" THEN va ELSE va + 1
  BY <1>2, Types DEF IInv, NextPage
<1>6. TypeOK'
  BY <1>3, <1>4, <1>5 DEF IInv, TypeOK
<1>7. Families'
  <2>1. \A x \in Envs : /\ pc'[x] \in ForkPCs => pc[x] \in ForkPCs
                        /\ pc[x] = "embryo" => pc'[x] = "embryo"
    BY <1>1, <1>2, <1>4, <1>5 DEF ForkPCs
  <2>2. \A x \in Envs : pc'[x] \in ForkPCs => addr'[x] \in 1 .. NData + 1
    BY <1>1, <1>2, <1>4, <1>5, <2>1 DEF IInv, Families
  <2> QED BY <2>1, <2>2, <1>1, <1>2, <1>4, <1>5, FamiliesStep
<1>8. FreeEmpty'
  BY SMTT(30), <1>1, <1>3, <1>4 DEF IInv, FreeEmpty, Kept
<1>9. Sharing'
  <2> SUFFICES ASSUME NEW a \in Envs, NEW b \in Envs, NEW v \in VAs, NEW w \in VAs,
                      W(a, v)', page'[b][w] = page'[a][v], ~ (a = b /\ v = w)
               PROVE  Between(a, v, b, w)'
    BY DEF Sharing
  <2>1. Kept(a, v) /\ W(a, v)
    BY <1>3 DEF Kept
  <2>2. CASE b = c /\ w = va
    <3>1. page[e][va] = page[a][v]
      BY <1>1, <1>3, <2>1, <2>2 DEF Kept
    <3>2. (a = e /\ v = va) \/ Between(a, v, e, va)
      BY <3>1, <2>1, <1>2 DEF IInv, Sharing
    <3>3. a = e /\ v = va
      BY <3>2, <1>2, ChildFacts DEF ForkPCs
    <3>4. prm = "COW"
      BY <3>3, <2>1 DEF W
    <3> QED BY <3>3, <3>4, <2>2, <1>1, <1>4, <1>5 DEF Between
  <2>3. CASE ~ (b = c /\ w = va)
    <3>1. page[b][w] = page[a][v]
      BY <1>3, <2>1, <2>3 DEF Kept
    <3>2. Between(a, v, b, w)
      BY <3>1, <2>1 DEF IInv, Sharing
    <3> QED BY <3>2, <1>4, <1>5 DEF Between
  <2> QED BY <2>2, <2>3
<1>10. Temp'
  BY <1>1, <1>2, <1>3, <1>4, Places DEF IInv, Temp, Kept
<1>11. Handlers'
  <2>1. \A x \in Envs : x \in upcall' => /\ pc'[x] \notin {"free", "embryo"}
                                         /\ x \in upcall \/ WNext(x, UXSTACK)
    BY <1>1, <1>2, <1>3, <1>4 DEF IInv, Handlers
  <2>2. \A x \in Envs : pc'[x] \in ForkPCs \cup {"exofork"} => x \in upcall'
    BY <1>1, <1>2, <1>3, <1>4 DEF IInv, Handlers, ForkPCs
  <2>3. \A x \in Envs : pc'[x] = "start" =>
          /\ child'[x] \in Envs
          /\ WNext(child'[x], UXSTACK) \/ (pc[x] = "start" /\ child'[x] = child[x])
    BY <1>1, <1>2, <1>3, <1>4 DEF IInv, Families, ForkPCs
  <2>4. \A x \in Envs : pc'[x] # "embryo" /\ x \notin upcall' =>
          pc[x] # "embryo" /\ x \notin upcall
    BY <1>1, <1>2, <1>3, <1>4 DEF IInv, Handlers
  <2> QED BY <2>1, <2>2, <2>3, <2>4, <1>1, <1>2, <1>3, <1>4, Places, HandlersStep
<1> QED BY <1>6, <1>7, <1>8, <1>9, <1>10, <1>11 DEF IInv

(* The second half of duppage(). *)
LEMMA RemapIInv ==
  ASSUME IInv, NEW e \in Envs, addr[e] \in Data, remap(e)
  PROVE  IInv'
<1>1. PICK va \in Data, p \in Pages \cup {Null} :
        va = addr[e] /\ p = page[e][va] /\ page_map(e, va, p, "COW")
  BY Types, VAFacts DEF IInv, remap
<1>2. va \in VAs /\ va # PFTEMP /\ va # UXSTACK /\ va + 1 \in 0 .. NData + 1
        /\ va + 1 \in 1 .. NData + 1
  BY VAFacts
<1>3. /\ page' \in [Envs -> [VAs -> Pages \cup {Null}]]
      /\ perm' \in [Envs -> [VAs -> {"W", "COW", "RO"}]]
      /\ content' \in [Pages -> Values]
      /\ page'[e][va] = p /\ perm'[e][va] = "COW"
      /\ ~ W(e, va)'
      /\ \A x \in Envs, v \in VAs : x # e \/ v # va => Kept(x, v)
  BY <1>1, <1>2, PageMapFacts DEF IInv
<1>4. /\ \A x \in Envs : pc'[x] = IF x = e THEN "duppage" ELSE pc[x]
      /\ pc' \in [Envs -> PCs] /\ pc[e] = "remap" /\ UNCHANGED <<upcall, child>>
  BY Types DEF IInv, Goto, PCs, remap, At
<1>5. /\ addr' \in [Envs -> 0 .. NData + 1]
      /\ \A x \in Envs \ {e} : addr'[x] = addr[x]
      /\ addr'[e] = va + 1
  BY <1>1, <1>2, Types DEF IInv, NextPage, remap
<1>6. TypeOK'
  BY <1>3, <1>4, <1>5 DEF IInv, TypeOK
<1>7. Families'
  <2>1. \A x \in Envs : /\ pc'[x] \in ForkPCs => pc[x] \in ForkPCs
                        /\ pc[x] = "embryo" => pc'[x] = "embryo"
    BY <1>1, <1>2, <1>4, <1>5 DEF ForkPCs
  <2>2. \A x \in Envs : pc'[x] \in ForkPCs => addr'[x] \in 1 .. NData + 1
    BY <1>1, <1>2, <1>4, <1>5, <2>1 DEF IInv, Families
  <2> QED BY <2>1, <2>2, <1>1, <1>2, <1>4, <1>5, FamiliesStep
<1>8. FreeEmpty'
  BY <1>3, <1>4 DEF IInv, FreeEmpty, Kept
<1>9. Sharing'
  <2> SUFFICES ASSUME NEW a \in Envs, NEW b \in Envs, NEW v \in VAs, NEW w \in VAs,
                      W(a, v)', page'[b][w] = page'[a][v], ~ (a = b /\ v = w)
               PROVE  Between(a, v, b, w)'
    BY DEF Sharing
  <2>1. Kept(a, v) /\ W(a, v) /\ ~ (a = e /\ v = va)
    BY <1>3 DEF Kept
  <2>2. page[b][w] = page[a][v]
    BY <1>1, <1>3, <2>1 DEF Kept
  <2>3. Between(a, v, b, w)
    BY <2>1, <2>2 DEF IInv, Sharing
  <2> QED BY <2>1, <2>3, <1>1, <1>4, <1>5 DEF Between
<1>10. Temp'
  BY <1>2, <1>3, <1>4, Places DEF IInv, Temp, Kept
<1>11. Handlers'
  <2>1. \A x \in Envs : x \in upcall' => /\ pc'[x] \notin {"free", "embryo"}
                                         /\ x \in upcall \/ WNext(x, UXSTACK)
    BY <1>2, <1>3, <1>4 DEF IInv, Handlers
  <2>2. \A x \in Envs : pc'[x] \in ForkPCs \cup {"exofork"} => x \in upcall'
    BY <1>2, <1>3, <1>4 DEF IInv, Handlers, ForkPCs
  <2>3. \A x \in Envs : pc'[x] = "start" =>
          /\ child'[x] \in Envs
          /\ WNext(child'[x], UXSTACK) \/ (pc[x] = "start" /\ child'[x] = child[x])
    BY <1>2, <1>3, <1>4 DEF IInv, Families, ForkPCs
  <2>4. \A x \in Envs : pc'[x] # "embryo" /\ x \notin upcall' =>
          pc[x] # "embryo" /\ x \notin upcall
    BY <1>2, <1>3, <1>4 DEF IInv, Handlers
  <2>5. e \in upcall'
    BY <2>2, <1>4 DEF ForkPCs
  <2> QED BY <2>1, <2>2, <2>3, <2>4, <2>5, <1>2, <1>3, <1>4, Places, HandlersStep
<1> QED BY <1>6, <1>7, <1>8, <1>9, <1>10, <1>11 DEF IInv

(* The copy of the stack is given to the child. *)
LEMMA StackMapIInv ==
  ASSUME IInv, NEW e \in Envs, pc[e] = "st_map",
         page_map(child[e], STACK, page[e][PFTEMP], "W"),
         Goto(e, "st_unmap"), UNCHANGED <<upcall, child, addr>>
  PROVE  IInv'
<1>1. PICK c \in Envs, p \in Pages \cup {Null} :
        /\ c = child[e] /\ p = page[e][PFTEMP] /\ page_map(c, STACK, p, "W")
        /\ pc[c] = "embryo" /\ c # e /\ c \notin upcall
  BY ChildFacts, Types, Places DEF IInv, ForkPCs
<1>2. W(e, PFTEMP)
  BY DEF IInv, Temp
<1>3. /\ page' \in [Envs -> [VAs -> Pages \cup {Null}]]
      /\ perm' \in [Envs -> [VAs -> {"W", "COW", "RO"}]]
      /\ content' \in [Pages -> Values]
      /\ page'[c][STACK] = p /\ perm'[c][STACK] = "W"
      /\ W(c, STACK)' <=> p # Null
      /\ \A x \in Envs, v \in VAs : x # c \/ v # STACK => Kept(x, v)
  BY <1>1, Places, PageMapFacts DEF IInv
<1>4. /\ \A x \in Envs : pc'[x] = IF x = e THEN "st_unmap" ELSE pc[x]
      /\ pc' \in [Envs -> PCs]
  BY Types DEF IInv, Goto, PCs
<1>5. TypeOK'
  BY <1>3, <1>4 DEF IInv, TypeOK
<1>6. Families'
  <2>1. \A x \in Envs : /\ pc'[x] \in ForkPCs => pc[x] \in ForkPCs
                        /\ pc[x] = "embryo" => pc'[x] = "embryo"
    BY <1>1, <1>4 DEF ForkPCs
  <2>2. \A x \in Envs : pc'[x] \in ForkPCs => addr'[x] \in 1 .. NData + 1
    BY <1>1, <1>4, <2>1 DEF IInv, Families
  <2> QED BY <2>1, <2>2, <1>1, <1>4, FamiliesStep
<1>7. FreeEmpty'
  BY SMTT(30), <1>1, <1>3, <1>4 DEF IInv, FreeEmpty, Kept
<1>8. Sharing'
  <2> SUFFICES ASSUME NEW a \in Envs, NEW b \in Envs, NEW v \in VAs, NEW w \in VAs,
                      W(a, v)', page'[b][w] = page'[a][v], ~ (a = b /\ v = w)
               PROVE  Between(a, v, b, w)'
    BY DEF Sharing
  <2>1. CASE a = c /\ v = STACK
    <3>1. page[b][w] = page[e][PFTEMP]
      BY <1>1, <1>3, <2>1 DEF Kept
    <3>2. (b = e /\ w = PFTEMP) \/ Between(e, PFTEMP, b, w)
      BY <3>1, <1>2, Places DEF IInv, Sharing
    <3>3. ~ Between(e, PFTEMP, b, w)
      <4>1. \A x \in Envs : pc[x] = "st_unmap" => pc[child[x]] = "embryo"
        BY DEF IInv, Families, ForkPCs
      <4> QED BY <4>1 DEF Between
    <3> QED BY <3>2, <3>3, <2>1, <1>1, <1>4 DEF Between
  <2>2. CASE b = c /\ w = STACK
    <3>1. Kept(a, v) /\ W(a, v) /\ page[e][PFTEMP] = page[a][v]
      BY <1>1, <1>3, <2>2 DEF Kept
    <3>2. (a = e /\ v = PFTEMP) \/ Between(a, v, e, PFTEMP)
      BY <3>1, Places DEF IInv, Sharing
    <3>3. a = e /\ v = PFTEMP
      BY <3>2, ChildFacts, Places DEF ForkPCs
    <3> QED BY <3>3, <2>2, <1>1, <1>4 DEF Between
  <2>3. CASE ~ (a = c /\ v = STACK) /\ ~ (b = c /\ w = STACK)
    <3>1. W(a, v) /\ page[b][w] = page[a][v]
      BY <1>3, <2>3 DEF Kept
    <3>2. Between(a, v, b, w)
      BY <3>1 DEF IInv, Sharing
    <3> QED BY <3>2, <1>4 DEF Between
  <2> QED BY <2>1, <2>2, <2>3
<1>9. Temp'
  BY <1>1, <1>3, <1>4, Places DEF IInv, Temp, Kept
<1>10. Handlers'
  <2>1. \A x \in Envs : x \in upcall' => /\ pc'[x] \notin {"free", "embryo"}
                                         /\ x \in upcall \/ WNext(x, UXSTACK)
    BY <1>1, <1>3, <1>4 DEF IInv, Handlers
  <2>2. \A x \in Envs : pc'[x] \in ForkPCs \cup {"exofork"} => x \in upcall'
    BY <1>1, <1>3, <1>4 DEF IInv, Handlers, ForkPCs
  <2>3. \A x \in Envs : pc'[x] = "start" =>
          /\ child'[x] \in Envs
          /\ WNext(child'[x], UXSTACK) \/ (pc[x] = "start" /\ child'[x] = child[x])
    BY <1>1, <1>3, <1>4 DEF IInv, Families, ForkPCs
  <2>4. \A x \in Envs : pc'[x] # "embryo" /\ x \notin upcall' =>
          pc[x] # "embryo" /\ x \notin upcall
    BY <1>1, <1>3, <1>4 DEF IInv, Handlers
  <2> QED BY <2>1, <2>2, <2>3, <2>4, <1>1, <1>3, <1>4, Places, HandlersStep
<1> QED BY <1>5, <1>6, <1>7, <1>8, <1>9, <1>10 DEF IInv

(* The child gets an exception stack of its own. *)
LEMMA UxstackIInv ==
  ASSUME IInv, NEW e \in Envs, pc[e] = "uxstack", page_alloc(child[e], UXSTACK, "W"),
         Goto(e, "start"), UNCHANGED <<upcall, child, addr>>
  PROVE  IInv'
<1>1. PICK c \in Envs, p \in Free :
        /\ c = child[e] /\ page_map(c, UXSTACK, p, "W")
        /\ pc[c] = "embryo" /\ c # e /\ c \notin upcall
  BY ChildFacts DEF ForkPCs, page_alloc
<1>2. p \in Pages /\ p # Null
  BY FreeFacts
<1>3. /\ page' \in [Envs -> [VAs -> Pages \cup {Null}]]
      /\ perm' \in [Envs -> [VAs -> {"W", "COW", "RO"}]]
      /\ content' \in [Pages -> Values]
      /\ page'[c][UXSTACK] = p /\ perm'[c][UXSTACK] = "W"
      /\ W(c, UXSTACK)' /\ WNext(c, UXSTACK)
      /\ \A x \in Envs, v \in VAs : x # c \/ v # UXSTACK => Kept(x, v)
  BY <1>1, <1>2, Places, PageMapFacts DEF IInv
<1>4. /\ \A x \in Envs : pc'[x] = IF x = e THEN "start" ELSE pc[x]
      /\ pc' \in [Envs -> PCs]
  BY Types DEF IInv, Goto, PCs
<1>5. TypeOK'
  BY <1>3, <1>4 DEF IInv, TypeOK
<1>6. Families'
  <2>1. \A x \in Envs : /\ pc'[x] \in ForkPCs => pc[x] \in ForkPCs
                        /\ pc[x] = "embryo" => pc'[x] = "embryo"
    BY <1>1, <1>4 DEF ForkPCs
  <2>2. \A x \in Envs : pc'[x] \in ForkPCs => addr'[x] \in 1 .. NData + 1
    BY <1>1, <1>4, <2>1 DEF IInv, Families
  <2> QED BY <2>1, <2>2, <1>1, <1>4, FamiliesStep
<1>7. FreeEmpty'
  <2>1. \A x \in Envs : pc'[x] = "free" => pc[x] = "free" /\ x # c
    BY <1>1, <1>4
  <2>2. \A x \in Envs \ {c}, v \in VAs : page'[x][v] = page[x][v]
    BY <1>3 DEF Kept
  <2> QED BY <2>1, <2>2 DEF IInv, FreeEmpty
<1>8. Sharing'
  BY SMTT(30), <1>1, <1>3, <1>4, Places, FreshSharing DEF Between
<1>9. Temp'
  BY <1>1, <1>3, <1>4, Places DEF IInv, Temp, Kept
<1>10. Handlers'
  <2>1. \A x \in Envs : x \in upcall' => /\ pc'[x] \notin {"free", "embryo"}
                                         /\ x \in upcall \/ WNext(x, UXSTACK)
    BY <1>1, <1>3, <1>4 DEF IInv, Handlers
  <2>2. \A x \in Envs : pc'[x] \in ForkPCs \cup {"exofork"} => x \in upcall'
    BY <1>1, <1>3, <1>4 DEF IInv, Handlers, ForkPCs
  <2>3. \A x \in Envs : pc'[x] = "start" =>
          /\ child'[x] \in Envs
          /\ WNext(child'[x], UXSTACK) \/ (pc[x] = "start" /\ child'[x] = child[x])
    BY <1>1, <1>3, <1>4 DEF IInv, Families, ForkPCs
  <2>4. \A x \in Envs : pc'[x] # "embryo" /\ x \notin upcall' =>
          pc[x] # "embryo" /\ x \notin upcall
    BY <1>1, <1>3, <1>4 DEF IInv, Handlers
  <2> QED BY <2>1, <2>2, <2>3, <2>4, <1>1, <1>3, <1>4, Places, HandlersStep
<1> QED BY <1>5, <1>6, <1>7, <1>8, <1>9, <1>10 DEF IInv

----------------------------------------------------------------------------
(* Environments come and go *)

(* env_free() of a running program. *)
LEMMA FreeIInv ==
  ASSUME IInv, NEW e \in Envs, pc[e] = "user", env_free(e)
  PROVE  IInv'
<1>1. /\ page' \in [Envs -> [VAs -> Pages \cup {Null}]]
      /\ \A v \in VAs : page'[e][v] = Null
      /\ \A x \in Envs \ {e} : page'[x] = page[x]
  BY Types DEF IInv, env_free, Unmapped
<1>2. /\ perm' \in [Envs -> [VAs -> {"W", "COW", "RO"}]]
      /\ \A x \in Envs \ {e} : perm'[x] = perm[x]
  BY Types DEF IInv, env_free, NoPerms
<1>3. \A x \in Envs \ {e}, v \in VAs : Kept(x, v)
  BY <1>1, <1>2 DEF Kept, W, WNext
<1>4. content' \in [Pages -> Values]
  BY Types, ValuesAssumption DEF IInv, env_free, Cleared
<1>5. /\ pc' \in [Envs -> PCs] /\ child' \in [Envs -> Envs \cup {Null}]
      /\ addr' \in [Envs -> 0 .. NData + 1]
  BY Types, VAFacts DEF IInv, env_free, PCs
<1>6. /\ \A x \in Envs : pc'[x] = IF x = e THEN "free" ELSE pc[x]
      /\ \A x \in Envs \ {e} : child'[x] = child[x] /\ addr'[x] = addr[x]
      /\ upcall' = upcall \ {e}
  BY Types DEF IInv, env_free
<1>7. TypeOK'
  BY <1>1, <1>2, <1>4, <1>5, <1>6 DEF IInv, TypeOK
<1>8. Families'
  <2>1. \A x \in Envs : /\ pc'[x] \in ForkPCs => pc[x] \in ForkPCs /\ x # e
                        /\ pc[x] = "embryo" => pc'[x] = "embryo"
    BY <1>6 DEF ForkPCs
  <2>2. \A x \in Envs : pc[x] \in ForkPCs => addr[x] \in 1 .. NData + 1
    BY DEF IInv, Families
  <2> QED BY <2>1, <2>2, <1>6, FamiliesStep
<1>9. FreeEmpty'
  BY <1>1, <1>6 DEF IInv, FreeEmpty
<1>10. Sharing'
  <2> SUFFICES ASSUME NEW a \in Envs, NEW b \in Envs, NEW v \in VAs, NEW w \in VAs,
                      W(a, v)', page'[b][w] = page'[a][v], ~ (a = b /\ v = w)
               PROVE  Between(a, v, b, w)'
    BY DEF Sharing
  <2>1. a # e /\ b # e
    BY <1>1 DEF W
  <2>2. W(a, v) /\ page[b][w] = page[a][v]
    BY <2>1, <1>3 DEF Kept
  <2>3. Between(a, v, b, w)
    BY <2>2 DEF IInv, Sharing
  <2> QED BY <2>1, <2>3, <1>6 DEF Between
<1>11. Temp'
  BY <1>3, <1>6, Places DEF IInv, Temp, Kept
<1>12. Handlers'
  <2> SUFFICES ASSUME NEW x \in Envs
               PROVE  /\ x \in upcall' => pc'[x] \notin {"free", "embryo"} /\ WNext(x, UXSTACK)
                      /\ pc'[x] \in ForkPCs \cup {"exofork"} => x \in upcall'
                      /\ pc'[x] = "start" => WNext(child'[x], UXSTACK)
                      /\ pc'[x] # "embryo" /\ x \notin upcall' =>
                           \A v \in VAs : page'[x][v] # Null => perm'[x][v] # "COW"
    BY DEF Handlers, W, WNext
  <2>1. CASE x = e
    BY <2>1, <1>1, <1>6 DEF ForkPCs
  <2>2. CASE x # e
    <3>1. pc'[x] = pc[x] /\ child'[x] = child[x] /\ (x \in upcall' <=> x \in upcall)
      BY <2>2, <1>6
    <3>2. x \in upcall' => pc'[x] \notin {"free", "embryo"} /\ WNext(x, UXSTACK)
      BY <3>1, <2>2, <1>3, Places DEF IInv, Handlers, Kept
    <3>3. pc'[x] \in ForkPCs \cup {"exofork"} => x \in upcall'
      BY <3>1 DEF IInv, Handlers
    <3>4. pc'[x] = "start" => WNext(child'[x], UXSTACK)
      <4>1. pc[x] = "start" => child[x] \in Envs \ {e} /\ W(child[x], UXSTACK)
        BY DEF IInv, Handlers, Families, ForkPCs
      <4> QED BY <4>1, <3>1, <1>3, Places DEF Kept
    <3>5. pc'[x] # "embryo" /\ x \notin upcall' =>
            \A v \in VAs : page'[x][v] # Null => perm'[x][v] # "COW"
      BY <3>1, <2>2, <1>3 DEF IInv, Handlers, Kept
    <3> QED BY <3>2, <3>3, <3>4, <3>5
  <2> QED BY <2>1, <2>2
<1> QED BY <1>7, <1>8, <1>9, <1>10, <1>11, <1>12 DEF IInv

(* sys_exofork(): a slot that is free becomes an embryo. *)
LEMMA ExoforkIInv ==
  ASSUME IInv, NEW e \in Envs, pc[e] = "exofork", NEW c \in Envs, pc[c] = "free",
         pc' = [pc EXCEPT ![e] = "duppage", ![c] = "embryo"],
         child' = [child EXCEPT ![e] = c], addr' = [addr EXCEPT ![e] = 1],
         UNCHANGED <<page, perm, content, upcall>>
  PROVE  IInv'
<1>1. /\ pc' \in [Envs -> PCs] /\ child' \in [Envs -> Envs \cup {Null}]
      /\ addr' \in [Envs -> 0 .. NData + 1] /\ 1 \in 1 .. NData + 1
  BY SMTT(30), Types, NDataAssumption DEF IInv, PCs
<1>2. /\ c # e /\ pc'[e] = "duppage" /\ pc'[c] = "embryo"
      /\ \A x \in Envs \ {e, c} : pc'[x] = pc[x]
      /\ child'[e] = c /\ addr'[e] = 1
      /\ \A x \in Envs \ {e} : child'[x] = child[x] /\ addr'[x] = addr[x]
  BY Types DEF IInv
<1>3. \A x \in Envs \ {e} : pc'[x] \in ForkPCs => x # c /\ pc[x] \in ForkPCs
  BY <1>2 DEF ForkPCs
<1>4. TypeOK'
  BY <1>1 DEF IInv, TypeOK
<1>5. \A x \in Envs : pc[x] \in ForkPCs => child[x] \notin {e, c}
  BY DEF IInv, Families
<1>6. Families'
  <2> SUFFICES ASSUME NEW x \in Envs, pc'[x] \in ForkPCs
               PROVE  /\ child'[x] \in Envs /\ pc'[child'[x]] = "embryo"
                      /\ addr'[x] \in 1 .. NData + 1
                      /\ \A f \in Envs : pc'[f] \in ForkPCs /\ child'[f] = child'[x] => f = x
    BY DEF Families
  <2>1. CASE x = e
    BY <2>1, <1>1, <1>2, <1>3, <1>5
  <2>2. CASE x # e
    <3>1. pc[x] \in ForkPCs /\ child'[x] = child[x] /\ child[x] \notin {e, c}
      BY <2>2, <1>2, <1>3, <1>5
    <3>2. /\ child[x] \in Envs /\ pc[child[x]] = "embryo"
          /\ addr[x] \in 1 .. NData + 1
          /\ \A f \in Envs : pc[f] \in ForkPCs /\ child[f] = child[x] => f = x
      BY <3>1 DEF IInv, Families
    <3>3. pc'[child'[x]] = "embryo" /\ addr'[x] = addr[x]
      <4>1. pc'[child[x]] = pc[child[x]]
        BY <3>1, <3>2, <1>2
      <4> QED BY <4>1, <3>1, <3>2, <2>2, <1>2
    <3>4. ASSUME NEW f \in Envs, pc'[f] \in ForkPCs, child'[f] = child'[x] PROVE f = x
      <4>1. f # e
        BY <3>1, <3>4, <1>2
      <4> QED BY <4>1, <3>1, <3>2, <3>4, <1>2, <1>3
    <3> QED BY <3>1, <3>2, <3>3, <3>4
  <2> QED BY <2>1, <2>2
<1>7. FreeEmpty'
  BY <1>2 DEF IInv, FreeEmpty
<1>8. Sharing'
  <2> SUFFICES ASSUME NEW a \in Envs, NEW b \in Envs, NEW v \in VAs, NEW w \in VAs,
                      W(a, v)', page'[b][w] = page'[a][v], ~ (a = b /\ v = w)
               PROVE  Between(a, v, b, w)'
    BY DEF Sharing
  <2>1. Between(a, v, b, w)
    BY DEF IInv, Sharing, W
  <2> QED BY <2>1, <1>2 DEF Between
<1>9. Temp'
  BY <1>2 DEF IInv, Temp, W
<1>10. Handlers'
  <2> SUFFICES ASSUME NEW x \in Envs
               PROVE  /\ x \in upcall => pc'[x] \notin {"free", "embryo"} /\ W(x, UXSTACK)
                      /\ pc'[x] \in ForkPCs \cup {"exofork"} => x \in upcall
                      /\ pc'[x] = "start" => W(child'[x], UXSTACK)
                      /\ pc'[x] # "embryo" /\ x \notin upcall =>
                           \A v \in VAs : page[x][v] # Null => perm[x][v] # "COW"
    BY DEF Handlers, W
  <2>1. CASE x = e
    BY <2>1, <1>2 DEF IInv, Handlers
  <2>2. CASE x = c
    BY <2>2, <1>2 DEF IInv, Handlers, ForkPCs
  <2>3. CASE x # e /\ x # c
    BY <2>3, <1>2 DEF IInv, Handlers
  <2> QED BY <2>1, <2>2, <2>3
<1> QED BY <1>4, <1>6, <1>7, <1>8, <1>9, <1>10 DEF IInv

(* The end of fork(): the child runs. *)
LEMMA StartIInv ==
  ASSUME IInv, NEW e \in Envs, start(e)
  PROVE  IInv'
<1>0. pc[e] = "start"
  BY DEF start, At
<1>1. PICK c \in Envs : c = child[e] /\ pc[c] = "embryo" /\ c # e /\ c \notin upcall
  BY <1>0, ChildFacts DEF ForkPCs
<1>2. /\ pc' \in [Envs -> PCs] /\ child' \in [Envs -> Envs \cup {Null}]
      /\ addr' \in [Envs -> 0 .. NData + 1] /\ upcall' = upcall \cup {c}
      /\ UNCHANGED <<page, perm, content>>
  BY <1>1, Types, VAFacts DEF IInv, PCs, start
<1>3. /\ pc'[e] = "user" /\ pc'[c] = "user"
      /\ \A x \in Envs \ {e, c} : pc'[x] = pc[x]
      /\ \A x \in Envs \ {e} : child'[x] = child[x] /\ addr'[x] = addr[x]
  BY <1>1, Types DEF IInv, start
<1>4. TypeOK'
  BY <1>2 DEF IInv, TypeOK
<1>5. \A x \in Envs : pc'[x] \in ForkPCs =>
        x \notin {e, c} /\ pc[x] \in ForkPCs /\ child[x] \notin {e, c}
  BY <1>0, <1>1, <1>3 DEF IInv, Families, ForkPCs
<1>6. Families'
  <2> SUFFICES ASSUME NEW x \in Envs, pc'[x] \in ForkPCs
               PROVE  /\ child'[x] \in Envs /\ pc'[child'[x]] = "embryo"
                      /\ addr'[x] \in 1 .. NData + 1
                      /\ \A f \in Envs : pc'[f] \in ForkPCs /\ child'[f] = child'[x] => f = x
    BY DEF Families
  <2>1. /\ child[x] \in Envs /\ pc[child[x]] = "embryo"
        /\ addr[x] \in 1 .. NData + 1
        /\ \A f \in Envs : pc[f] \in ForkPCs /\ child[f] = child[x] => f = x
    BY <1>5 DEF IInv, Families
  <2> QED BY <2>1, <1>3, <1>5
<1>7. FreeEmpty'
  BY <1>2, <1>3 DEF IInv, FreeEmpty
<1>8. Sharing'
  <2> SUFFICES ASSUME NEW a \in Envs, NEW b \in Envs, NEW v \in VAs, NEW w \in VAs,
                      W(a, v)', page'[b][w] = page'[a][v], ~ (a = b /\ v = w)
               PROVE  Between(a, v, b, w)'
    BY DEF Sharing
  <2>1. Between(a, v, b, w)
    BY <1>2 DEF IInv, Sharing, W
  <2> QED BY <2>1, <1>0, <1>1, <1>3 DEF Between
<1>9. Temp'
  BY <1>2, <1>3 DEF IInv, Temp, W
<1>10. Handlers'
  <2> SUFFICES ASSUME NEW x \in Envs
               PROVE  /\ x \in upcall' => pc'[x] \notin {"free", "embryo"} /\ W(x, UXSTACK)
                      /\ pc'[x] \in ForkPCs \cup {"exofork"} => x \in upcall'
                      /\ pc'[x] = "start" => W(child'[x], UXSTACK)
                      /\ pc'[x] # "embryo" /\ x \notin upcall' =>
                           \A v \in VAs : page[x][v] # Null => perm[x][v] # "COW"
    BY <1>2 DEF Handlers, W
  <2>1. CASE x = e
    BY <2>1, <1>0, <1>2, <1>3 DEF IInv, Handlers, ForkPCs
  <2>2. CASE x = c
    BY <2>2, <1>0, <1>1, <1>2, <1>3 DEF IInv, Handlers, ForkPCs
  <2>3. CASE x # e /\ x # c
    BY <2>3, <1>2, <1>3 DEF IInv, Handlers
  <2> QED BY <2>1, <2>2, <2>3
<1> QED BY <1>4, <1>6, <1>7, <1>8, <1>9, <1>10 DEF IInv

----------------------------------------------------------------------------
(* The loop variable of fork() and the address of pgfault() *)

Cursor ==
  \A e \in Envs :
    /\ pc[e] \in {"pf_alloc", "pf_copy", "pf_map"} => addr[e] \in UserVAs
    /\ pc[e] = "remap" => addr[e] \in Data
    /\ pc[e] \in ForkPCs \ {"duppage", "remap"} => addr[e] = NData + 1

(* One environment moves, and its cursor is right. *)
LEMMA CursorMove ==
  ASSUME Cursor, NEW e \in Envs,
         \A y \in Envs \ {e} : /\ pc'[y] = pc[y] \/ pc'[y] \in {"embryo", "user"}
                               /\ addr'[y] = addr[y],
         pc'[e] \in {"pf_alloc", "pf_copy", "pf_map"} => addr'[e] \in UserVAs,
         pc'[e] = "remap" => addr'[e] \in Data,
         pc'[e] \in ForkPCs \ {"duppage", "remap"} => addr'[e] = NData + 1
  PROVE  Cursor'
BY DEF Cursor, ForkPCs

(* The addresses that pgfault() and fork() work on are those of user pages, and
   the loop of fork() stops after the last one.                            *)
LEMMA CursorStep ==
  ASSUME IInv, Cursor, Next
  PROVE  Cursor'
<1>1. PICK e \in Envs :
    \/ \E va \in UserVAs, v \in Values : write(e, va, v)
    \/ \E va \in UserVAs : page_fault_handler(e, va)
    \/ \E va \in Data : sys_page_alloc(e, va) \/ sys_page_unmap(e, va)
    \/ exit(e)
    \/ pgfault_alloc(e) \/ pgfault_copy(e) \/ pgfault_map(e) \/ pgfault_unmap(e)
    \/ fork(e) \/ exofork(e) \/ duppage(e) \/ remap(e)
    \/ stack_alloc(e) \/ stack_copy(e) \/ stack_map(e) \/ stack_unmap(e)
    \/ uxstack_alloc(e) \/ start(e)
  BY DEF Next
<1>2. ASSUME NEW va \in UserVAs, NEW v \in Values, write(e, va, v) PROVE Cursor'
  BY <1>2 DEF write, Cursor
<1>3. ASSUME NEW va \in Data, sys_page_alloc(e, va) \/ sys_page_unmap(e, va) PROVE Cursor'
  BY <1>3 DEF sys_page_alloc, sys_page_unmap, Cursor
<1>4. ASSUME panic(e) PROVE Cursor'
  BY <1>4, CursorMove, Types DEF IInv, panic, Goto, ForkPCs
<1>5. ASSUME env_free(e) PROVE Cursor'
  BY <1>5, CursorMove, Types DEF IInv, env_free, ForkPCs
<1>6. ASSUME NEW va \in UserVAs, page_fault_handler(e, va) PROVE Cursor'
  <2>1. CASE Goto(e, "pf_alloc") /\ addr' = [addr EXCEPT ![e] = va]
    BY <2>1, CursorMove, Types DEF IInv, Goto, ForkPCs
  <2> QED BY <1>4, <1>5, <1>6, <2>1 DEF page_fault_handler
<1>7. CASE pgfault_alloc(e) \/ pgfault_copy(e) \/ pgfault_map(e) \/ pgfault_unmap(e)
  <2>1. CASE ~ panic(e)
    <3>1. \A y \in Envs \ {e} : pc'[y] = pc[y] /\ addr'[y] = addr[y]
      BY <1>7, <2>1, Types
      DEF IInv, pgfault_alloc, pgfault_copy, pgfault_map, pgfault_unmap, Goto
    <3>2. /\ pc'[e] \in {"pf_copy", "pf_map", "pf_unmap", "user"}
          /\ pc'[e] \in {"pf_copy", "pf_map"} => /\ pc[e] \in {"pf_alloc", "pf_copy"}
                                                 /\ addr'[e] = addr[e]
      BY <1>7, <2>1, Types
      DEF IInv, pgfault_alloc, pgfault_copy, pgfault_map, pgfault_unmap, Goto, At
    <3>3. pc'[e] \in {"pf_copy", "pf_map"} => addr'[e] \in UserVAs
      BY <3>2 DEF Cursor
    <3> QED BY <3>1, <3>2, <3>3, CursorMove DEF ForkPCs
  <2> QED BY <1>4, <2>1
<1>8. CASE fork(e) /\ ~ panic(e)
  BY <1>8, CursorMove, Types DEF IInv, fork, Goto, ForkPCs
<1>9. CASE exofork(e)
  <2>1. CASE Goto(e, "user") /\ UNCHANGED addr
    BY <2>1, CursorMove, Types DEF IInv, Goto, ForkPCs
  <2>2. ASSUME NEW c \in Envs, pc[c] = "free", pc[e] = "exofork",
               pc' = [pc EXCEPT ![e] = "duppage", ![c] = "embryo"],
               addr' = [addr EXCEPT ![e] = 1]
        PROVE  Cursor'
    BY <2>2, CursorMove, Types DEF IInv, ForkPCs
  <2> QED BY <1>9, <2>1, <2>2 DEF exofork, At
<1>10. CASE duppage(e)
  <2>1. CASE Goto(e, "remap") /\ UNCHANGED addr
    BY <1>10, <2>1, CursorMove, Types DEF IInv, Goto, ForkPCs, duppage
  <2>2. CASE NextPage(e) /\ UNCHANGED pc
    <3>1. pc'[e] = "duppage" /\ \A y \in Envs \ {e} : pc'[y] = pc[y] /\ addr'[y] = addr[y]
      BY <1>10, <2>2, Types DEF IInv, duppage, NextPage, At
    <3> QED BY <3>1, CursorMove
  <2> QED BY <1>10, <2>1, <2>2 DEF duppage
<1>11. CASE remap(e)
  <2>1. pc'[e] = "duppage" /\ \A y \in Envs \ {e} : pc'[y] = pc[y] /\ addr'[y] = addr[y]
    BY <1>11, Types DEF IInv, remap, NextPage, Goto
  <2> QED BY <2>1, CursorMove
<1>12. CASE stack_alloc(e) /\ ~ panic(e)
  <2>1. /\ pc[e] = "duppage" /\ addr[e] \notin Data /\ pc'[e] = "st_copy"
        /\ \A y \in Envs \ {e} : pc'[y] = pc[y] /\ UNCHANGED addr
    BY <1>12, Types DEF IInv, stack_alloc, Goto, At
  <2>2. addr[e] \in 1 .. NData + 1
    BY <2>1 DEF IInv, Families, ForkPCs
  <2>3. addr[e] = NData + 1
    BY <2>1, <2>2, VAFacts
  <2>4. UNCHANGED addr
    BY <1>12 DEF stack_alloc
  <2> QED BY <2>1, <2>3, <2>4, CursorMove
<1>13. CASE (stack_copy(e) \/ stack_map(e) \/ stack_unmap(e) \/ uxstack_alloc(e)) /\ ~ panic(e)
  <2>1. /\ UNCHANGED addr /\ \A y \in Envs \ {e} : pc'[y] = pc[y]
        /\ pc[e] \in {"st_copy", "st_map", "st_unmap", "uxstack"}
        /\ pc'[e] \in {"st_map", "st_unmap", "uxstack", "start"}
    BY <1>13, Types DEF IInv, stack_copy, stack_map, stack_unmap, uxstack_alloc, Goto, At
  <2>2. addr'[e] = NData + 1
    BY <2>1 DEF Cursor, ForkPCs
  <2> QED BY <2>1, <2>2, CursorMove
<1>14. CASE start(e)
  <2>1. PICK c \in Envs : c = child[e]
    BY <1>14, ChildFacts DEF start, At, ForkPCs
  <2>2. /\ pc'[e] = "user" /\ \A y \in Envs \ {e} : pc'[y] = pc[y] \/ pc'[y] = "user"
        /\ \A y \in Envs \ {e} : addr'[y] = addr[y]
    BY <1>14, <2>1, Types DEF IInv, start
  <2> QED BY <2>2, CursorMove DEF ForkPCs
<1> QED BY <1>1, <1>2, <1>3, <1>4, <1>5, <1>6, <1>7, <1>8, <1>9, <1>10, <1>11, <1>12,
           <1>13, <1>14 DEF exit, fork, stack_alloc, stack_map, uxstack_alloc

----------------------------------------------------------------------------
(* Pages that must be there *)

FaultPCs == {"pf_alloc", "pf_copy", "pf_map"}
StackPCs == {"st_unmap", "uxstack", "start"}

(* A stack, the page that pgfault() copies, and the stack given to a child. *)
Present ==
  \A e \in Envs :
    /\ pc[e] \notin {"free", "embryo"} => page[e][STACK] # Null
    /\ pc[e] \in FaultPCs => page[e][addr[e]] # Null
    /\ pc[e] \in StackPCs => page[child[e]][STACK] # Null

(* One environment moves, and one entry changes, of its own or of its child. *)
LEMMA PresentMove ==
  ASSUME IInv, Cursor, Present, NEW x \in Envs, NEW va \in VAs, NEW e \in Envs,
         \A y \in Envs, v \in VAs : y # x \/ v # va => page'[y][v] = page[y][v],
         \/ page'[x][va] # Null
         \/ va \notin UserVAs
         \/ va # STACK /\ pc'[x] \notin FaultPCs,
         \A y \in Envs \ {e} :
           pc'[y] = pc[y] /\ addr'[y] = addr[y] /\ child'[y] = child[y],
         pc[e] \notin {"free", "embryo"},
         pc'[e] \in FaultPCs => \/ pc[e] \in FaultPCs /\ addr'[e] = addr[e]
                               \/ page'[e][addr'[e]] # Null,
         pc'[e] \in StackPCs => /\ child'[e] \in Envs
                               /\ \/ pc[e] \in StackPCs /\ child'[e] = child[e]
                                  \/ page'[child'[e]][STACK] # Null
  PROVE  Present'
<1> SUFFICES ASSUME NEW y \in Envs
             PROVE  /\ pc'[y] \notin {"free", "embryo"} => page'[y][STACK] # Null
                    /\ pc'[y] \in FaultPCs => page'[y][addr'[y]] # Null
                    /\ pc'[y] \in StackPCs => page'[child'[y]][STACK] # Null
  BY DEF Present
<1>1. \A z \in Envs : page[z][STACK] # Null => page'[z][STACK] # Null
  BY VAFacts
<1>2. pc'[y] \notin {"free", "embryo"} => page'[y][STACK] # Null
  BY <1>1 DEF Present
<1>3. ASSUME pc'[y] \in FaultPCs PROVE page'[y][addr'[y]] # Null
  <2>1. CASE pc[y] \in FaultPCs /\ addr'[y] = addr[y]
    <3>1. addr[y] \in UserVAs /\ addr[y] \in VAs /\ page[y][addr[y]] # Null
      BY <2>1, VAFacts DEF Cursor, Present, FaultPCs
    <3>2. CASE y = x /\ addr[y] = va
      BY <1>3, <2>1, <3>1, <3>2, VAFacts
    <3>3. CASE ~ (y = x /\ addr[y] = va)
      BY <2>1, <3>1, <3>3
    <3> QED BY <3>2, <3>3
  <2> QED BY <1>3, <2>1
<1>4. ASSUME pc'[y] \in StackPCs PROVE page'[child'[y]][STACK] # Null
  <2>1. CASE pc[y] \in StackPCs /\ child'[y] = child[y]
    <3>1. child[y] \in Envs /\ page[child[y]][STACK] # Null
      BY <2>1 DEF IInv, Families, ForkPCs, Present, StackPCs
    <3> QED BY <2>1, <3>1, <1>1
  <2> QED BY <1>4, <2>1
<1> QED BY <1>2, <1>3, <1>4

(* Present, for a step that changes no mapping. *)
LEMMA PresentQuiet ==
  ASSUME IInv, Cursor, Present, NEW e \in Envs, UNCHANGED <<page, child>>,
         \A y \in Envs \ {e} : pc'[y] = pc[y] /\ addr'[y] = addr[y],
         pc[e] \notin {"free", "embryo"},
         pc'[e] \in FaultPCs => \/ pc[e] \in FaultPCs /\ addr'[e] = addr[e]
                               \/ page[e][addr'[e]] # Null,
         pc'[e] \in StackPCs => pc[e] \in StackPCs
  PROVE  Present'
BY DEF Present, IInv, Families, ForkPCs, StackPCs

(* One entry changes in a page_map() by e. *)
LEMMA PresentMap ==
  ASSUME IInv, Cursor, Present, NEW e \in Envs, NEW x \in Envs, NEW va \in VAs,
         NEW p \in Pages \cup {Null}, NEW prm \in {"W", "COW", "RO"},
         page_map(x, va, p, prm),
         p # Null \/ va \notin UserVAs \/ (va # STACK /\ pc'[x] \notin FaultPCs),
         UNCHANGED child,
         \A y \in Envs \ {e} : pc'[y] = pc[y] /\ addr'[y] = addr[y],
         pc[e] \notin {"free", "embryo"},
         pc'[e] \in FaultPCs => pc[e] \in FaultPCs /\ addr'[e] = addr[e],
         pc'[e] \in StackPCs =>
           pc[e] \in StackPCs \/ (x = child[e] /\ va = STACK /\ p # Null)
  PROVE  Present'
<1>1. /\ page'[x][va] = p
      /\ \A y \in Envs, v \in VAs : y # x \/ v # va => page'[y][v] = page[y][v]
  BY PageMapFacts DEF IInv, Kept
<1>2. pc'[e] \in StackPCs => /\ child'[e] \in Envs
                            /\ \/ pc[e] \in StackPCs /\ child'[e] = child[e]
                               \/ page'[child'[e]][STACK] # Null
  BY <1>1 DEF IInv, Families, ForkPCs, StackPCs
<1> QED BY <1>1, <1>2, PresentMove

----------------------------------------------------------------------------
(* Invariance: one lemma per group of actions *)

(* panic() stops an environment that is not in the middle of a pair of calls. *)
LEMMA PanicStep ==
  ASSUME IInv, Cursor, Present, NEW e \in Envs, panic(e),
         pc[e] \in {"user", "pf_alloc", "duppage", "st_map", "uxstack"}
  PROVE  IInv' /\ Present'
<1>1. /\ \A x \in Envs : pc'[x] = IF x = e THEN "panic" ELSE pc[x]
      /\ pc' \in [Envs -> PCs] /\ "panic" \in PCs
      /\ UNCHANGED <<page, perm, content, upcall, child, addr>>
  BY Types DEF IInv, panic, Goto, PCs
<1>2. content' \in [Pages -> Values] /\ addr' \in [Envs -> 0 .. NData + 1]
  BY <1>1, Types DEF IInv
<1>3. IInv'
  BY <1>1, <1>2, QuietIInv DEF ForkPCs
<1>4. Present'
  BY <1>1, PresentQuiet DEF FaultPCs, StackPCs
<1> QED BY <1>3, <1>4

(* env_free() keeps the invariant, and what the others know. *)
LEMMA FreeStep ==
  ASSUME IInv, Cursor, Present, NEW e \in Envs, pc[e] = "user", env_free(e)
  PROVE  IInv' /\ Present'
<1>1. IInv'
  BY FreeIInv
<1>2. /\ \A x \in Envs : pc'[x] = IF x = e THEN "free" ELSE pc[x]
      /\ \A x \in Envs \ {e} : child'[x] = child[x] /\ addr'[x] = addr[x] /\ page'[x] = page[x]
  BY Types DEF IInv, env_free
<1>3. \A x \in Envs : pc[x] \in StackPCs => child[x] \in Envs \ {e}
  BY DEF IInv, Families, ForkPCs, StackPCs
<1>4. Present'
  <2> SUFFICES ASSUME NEW y \in Envs, y # e
               PROVE  /\ pc'[y] \notin {"free", "embryo"} => page'[y][STACK] # Null
                      /\ pc'[y] \in FaultPCs => page'[y][addr'[y]] # Null
                      /\ pc'[y] \in StackPCs => page'[child'[y]][STACK] # Null
    BY <1>2 DEF Present, FaultPCs, StackPCs
  <2> QED BY <1>2, <1>3 DEF Present
<1> QED BY <1>1, <1>4

(* So does what a program does between forks and faults. *)
LEMMA ProgramStep ==
  ASSUME IInv, Cursor, Present, NEW e \in Envs,
         \/ \E va \in UserVAs, v \in Values : write(e, va, v)
         \/ \E va \in UserVAs : page_fault_handler(e, va)
         \/ \E va \in Data : sys_page_alloc(e, va) \/ sys_page_unmap(e, va)
         \/ exit(e)
  PROVE  IInv' /\ Present'
<1>1. ASSUME NEW va \in UserVAs, NEW v \in Values, write(e, va, v) PROVE IInv' /\ Present'
  <2>1. content' \in [Pages -> Values]
    BY <1>1, Types, VAFacts DEF IInv, write
  <2>2. pc[e] = "user" /\ UNCHANGED <<pc, page, perm, upcall, child, addr>>
    BY <1>1 DEF write, At
  <2>3. pc' \in [Envs -> PCs] /\ addr' \in [Envs -> 0 .. NData + 1] /\ pc[e] \in PCs
    BY <2>2, Types DEF IInv
  <2>4. IInv'
    BY <2>1, <2>2, <2>3, QuietIInv
  <2>5. Present'
    BY <2>2 DEF Present
  <2> QED BY <2>4, <2>5
<1>2. ASSUME NEW va \in UserVAs, page_fault_handler(e, va) PROVE IInv' /\ Present'
  <2>1. CASE /\ Goto(e, "pf_alloc") /\ addr' = [addr EXCEPT ![e] = va]
             /\ UNCHANGED <<page, perm, content, upcall, child>> /\ page[e][va] # Null
    <3>1. /\ \A x \in Envs : pc'[x] = IF x = e THEN "pf_alloc" ELSE pc[x]
          /\ pc' \in [Envs -> PCs] /\ "pf_alloc" \in PCs
      BY <2>1, Types DEF IInv, Goto, PCs
    <3>2. content' \in [Pages -> Values] /\ addr' \in [Envs -> 0 .. NData + 1]
            /\ addr'[e] = va /\ \A x \in Envs \ {e} : addr'[x] = addr[x]
      BY <2>1, Types, VAFacts DEF IInv
    <3>3. pc[e] = "user"
      BY <1>2 DEF page_fault_handler, At
    <3>4. IInv'
      BY <2>1, <3>1, <3>2, <3>3, QuietIInv DEF ForkPCs
    <3>5. Present'
      BY <2>1, <3>1, <3>2, <3>3, PresentQuiet DEF StackPCs
    <3> QED BY <3>4, <3>5
  <2> QED BY <1>2, <2>1, FreeStep, PanicStep DEF page_fault_handler, At
<1>3. ASSUME NEW va \in Data, sys_page_alloc(e, va) \/ sys_page_unmap(e, va)
      PROVE  IInv' /\ Present'
  <2>1. PICK p \in Free \cup {Null} : page_map(e, va, p, "RO")
    BY <1>3 DEF sys_page_alloc, sys_page_unmap, page_alloc
  <2>2. /\ p \in Pages \cup {Null} /\ va \in VAs /\ va # STACK
        /\ pc[e] = "user" /\ UNCHANGED <<pc, child, addr>>
    BY <1>3, FreeFacts, VAFacts DEF sys_page_alloc, sys_page_unmap, At
  <2>3. Present'
    BY <2>1, <2>2, PresentMap DEF FaultPCs, StackPCs
  <2> QED BY <1>3, <2>3, ProgramIInv
<1>4. ASSUME exit(e) PROVE IInv' /\ Present'
  BY <1>4, FreeStep DEF exit, At
<1> QED BY <1>1, <1>2, <1>3, <1>4

(* So does every call of the handler pgfault(). *)
LEMMA FaultStep ==
  ASSUME IInv, Cursor, Present, NEW e \in Envs,
         pgfault_alloc(e) \/ pgfault_copy(e) \/ pgfault_map(e) \/ pgfault_unmap(e)
  PROVE  IInv' /\ Present'
<1>1. CASE pgfault_alloc(e)
  <2>1. CASE page_alloc(e, PFTEMP, "W") /\ Goto(e, "pf_copy") /\ UNCHANGED <<upcall, child, addr>>
    <3>1. pc[e] = "pf_alloc"
      BY <1>1 DEF pgfault_alloc, At
    <3>2. IInv'
      BY <2>1, <3>1, TempAllocIInv
    <3>3. PICK p \in Free : page_map(e, PFTEMP, p, "W")
      BY <2>1 DEF page_alloc
    <3>4. p \in Pages /\ PFTEMP \in VAs /\ PFTEMP \notin UserVAs
      BY FreeFacts, VAFacts
    <3>5. \A x \in Envs : pc'[x] = IF x = e THEN "pf_copy" ELSE pc[x]
      BY <2>1, PcFacts DEF IInv
    <3>6. Present'
      BY <2>1, <3>1, <3>3, <3>4, <3>5, PresentMap DEF FaultPCs, StackPCs
    <3> QED BY <3>2, <3>6
  <2> QED BY <1>1, <2>1, PanicStep DEF pgfault_alloc, At
<1>2. CASE pgfault_copy(e)
  <2>1. pc[e] = "pf_copy" /\ UNCHANGED <<page, perm, upcall, child, addr>>
    BY <1>2 DEF pgfault_copy, At
  <2>2. addr[e] \in VAs /\ W(e, PFTEMP) /\ page[e][addr[e]] # Null
    BY <2>1, VAFacts DEF Cursor, IInv, Temp, Present, FaultPCs
  <2>3. page[e][PFTEMP] \in Pages /\ page[e][addr[e]] \in Pages
    BY <2>2, Types, Places DEF IInv, W
  <2>4. content' \in [Pages -> Values]
    BY <1>2, <2>3, Types DEF IInv, pgfault_copy
  <2>5. /\ \A x \in Envs : pc'[x] = IF x = e THEN "pf_map" ELSE pc[x]
        /\ pc' \in [Envs -> PCs] /\ "pf_map" \in PCs
    BY <1>2, Types DEF IInv, Goto, PCs, pgfault_copy
  <2>6. IInv'
    BY <2>1, <2>4, <2>5, Types, QuietIInv DEF ForkPCs, IInv
  <2>7. Present'
    BY <2>1, <2>5, PresentQuiet DEF FaultPCs, StackPCs
  <2> QED BY <2>6, <2>7
<1>3. CASE pgfault_map(e)
  <2>1. /\ pc[e] = "pf_map" /\ UNCHANGED <<upcall, child, addr>>
        /\ page_map(e, addr[e], page[e][PFTEMP], "W")
        /\ \A x \in Envs : pc'[x] = IF x = e THEN "pf_unmap" ELSE pc[x]
    BY <1>3, PcFacts DEF IInv, pgfault_map, At
  <2>2. addr[e] \in UserVAs /\ addr[e] \in VAs /\ W(e, PFTEMP)
    BY <2>1, VAFacts DEF Cursor, IInv, Temp
  <2>3. page[e][PFTEMP] \in Pages /\ page[e][PFTEMP] # Null
    BY <2>2, Types, Places DEF IInv, W
  <2>4. Present'
    BY <2>1, <2>2, <2>3, PresentMap DEF FaultPCs, StackPCs
  <2> QED BY <1>3, <2>2, <2>4, FaultMapIInv
<1>4. CASE pgfault_unmap(e)
  <2>1. /\ pc[e] = "pf_unmap" /\ UNCHANGED child
        /\ page_map(e, PFTEMP, Null, "RO")
        /\ \A x \in Envs : pc'[x] = IF x = e THEN "user" ELSE pc[x]
        /\ \A x \in Envs \ {e} : addr'[x] = addr[x]
    BY <1>4, PcFacts, Types DEF IInv, pgfault_unmap, At
  <2>2. Present'
    BY <2>1, VAFacts, PresentMap DEF FaultPCs, StackPCs
  <2>3. IInv'
    BY <1>4, TempUnmapIInv
  <2> QED BY <2>2, <2>3
<1> QED BY <1>1, <1>2, <1>3, <1>4

(* fork() up to the loop. *)
LEMMA ForkStep ==
  ASSUME IInv, Cursor, Present, NEW e \in Envs, fork(e) \/ exofork(e)
  PROVE  IInv' /\ Present'
<1>1. CASE fork(e)
  <2>1. pc[e] = "user"
    BY <1>1 DEF fork, At
  <2>2. CASE /\ e \in upcall /\ Goto(e, "exofork")
             /\ UNCHANGED <<page, perm, content, upcall, child, addr>>
    <3>1. /\ \A x \in Envs : pc'[x] = IF x = e THEN "exofork" ELSE pc[x]
          /\ pc' \in [Envs -> PCs] /\ "exofork" \in PCs
      BY <2>2, Types DEF IInv, Goto, PCs
    <3>2. content' \in [Pages -> Values] /\ addr' \in [Envs -> 0 .. NData + 1]
      BY <2>2, Types DEF IInv
    <3>3. IInv'
      BY <2>1, <2>2, <3>1, <3>2, QuietIInv DEF ForkPCs
    <3>4. Present'
      BY <2>1, <2>2, <3>1, PresentQuiet DEF FaultPCs, StackPCs
    <3> QED BY <3>3, <3>4
  <2>3. CASE /\ e \notin upcall /\ page_alloc(e, UXSTACK, "W")
             /\ upcall' = upcall \cup {e} /\ Goto(e, "exofork")
             /\ UNCHANGED <<child, addr>>
    <3>1. IInv'
      BY <2>1, <2>3, SetHandlerIInv
    <3>2. PICK p \in Free : page_map(e, UXSTACK, p, "W")
      BY <2>3 DEF page_alloc
    <3>3. p \in Pages /\ UXSTACK \in VAs /\ UXSTACK \notin UserVAs
      BY FreeFacts, VAFacts
    <3>4. \A x \in Envs : pc'[x] = IF x = e THEN "exofork" ELSE pc[x]
      BY <2>3, PcFacts DEF IInv
    <3>5. Present'
      BY <2>1, <2>3, <3>2, <3>3, <3>4, PresentMap DEF FaultPCs, StackPCs
    <3> QED BY <3>1, <3>5
  <2> QED BY <1>1, <2>1, <2>2, <2>3, PanicStep DEF fork
<1>2. CASE exofork(e)
  <2>1. pc[e] = "exofork" /\ UNCHANGED <<page, perm, content, upcall>>
    BY <1>2 DEF exofork, At
  <2>2. CASE Goto(e, "user") /\ UNCHANGED <<child, addr>>
    <3>1. /\ \A x \in Envs : pc'[x] = IF x = e THEN "user" ELSE pc[x]
          /\ pc' \in [Envs -> PCs] /\ "user" \in PCs
      BY <2>2, Types DEF IInv, Goto, PCs
    <3>2. content' \in [Pages -> Values] /\ addr' \in [Envs -> 0 .. NData + 1]
      BY <2>1, <2>2, Types DEF IInv
    <3>3. IInv'
      BY <2>1, <2>2, <3>1, <3>2, QuietIInv DEF ForkPCs
    <3>4. Present'
      BY <2>1, <2>2, <3>1, PresentQuiet DEF FaultPCs, StackPCs
    <3> QED BY <3>3, <3>4
  <2>3. ASSUME NEW c \in Envs, pc[c] = "free",
               pc' = [pc EXCEPT ![e] = "duppage", ![c] = "embryo"],
               child' = [child EXCEPT ![e] = c], addr' = [addr EXCEPT ![e] = 1]
        PROVE  IInv' /\ Present'
    <3>1. IInv'
      BY <2>1, <2>3, ExoforkIInv
    <3>2. /\ pc'[e] = "duppage" /\ pc'[c] = "embryo"
          /\ \A x \in Envs \ {e, c} : pc'[x] = pc[x]
          /\ \A x \in Envs \ {e} : child'[x] = child[x] /\ addr'[x] = addr[x]
      BY <2>1, <2>3, Types DEF IInv
    <3>3. Present'
      BY <2>1, <3>2 DEF Present, FaultPCs, StackPCs
    <3> QED BY <3>1, <3>3
  <2> QED BY <1>2, <2>2, <2>3 DEF exofork
<1> QED BY <1>1, <1>2

(* duppage() skips a page, or fails: only the cursor moves. *)
LEMMA SkipIInv ==
  ASSUME IInv, NEW e \in Envs, pc[e] = "duppage", addr[e] \in Data, NextPage(e),
         UNCHANGED <<pc, page, perm, content, upcall, child>>
  PROVE  IInv'
<1>1. /\ addr' \in [Envs -> 0 .. NData + 1] /\ addr'[e] \in 1 .. NData + 1
      /\ \A x \in Envs \ {e} : addr'[x] = addr[x]
  BY VAFacts, Types DEF IInv, NextPage
<1>2. TypeOK' /\ FreeEmpty' /\ Temp' /\ Handlers'
  BY <1>1 DEF IInv, TypeOK, FreeEmpty, Temp, Handlers, W
<1>3. Families'
  BY <1>1 DEF IInv, Families
<1>4. Sharing'
  BY <1>1 DEF IInv, Sharing, Between, W
<1> QED BY <1>2, <1>3, <1>4 DEF IInv

(* The loop of fork(). *)
LEMMA DupStep ==
  ASSUME IInv, Cursor, Present, NEW e \in Envs, duppage(e) \/ remap(e)
  PROVE  IInv' /\ Present'
<1>1. CASE duppage(e)
  <2>1. /\ pc[e] = "duppage" /\ addr[e] \in Data /\ UNCHANGED <<upcall, child>>
        /\ child[e] \in Envs
    BY <1>1, ChildFacts DEF duppage, At, ForkPCs
  <2>2. addr[e] \in VAs /\ page[e][addr[e]] \in Pages \cup {Null}
    BY <2>1, VAFacts, Types DEF IInv
  <2>3. CASE /\ page[e][addr[e]] # Null /\ Goto(e, "remap") /\ UNCHANGED addr
             /\ page_map(child[e], addr[e], page[e][addr[e]], "COW")
    <3>1. IInv'
      BY <2>1, <2>3, DupIInv
    <3>2. \A x \in Envs : pc'[x] = IF x = e THEN "remap" ELSE pc[x]
      BY <2>3, PcFacts DEF IInv
    <3>3. Present'
      BY <2>1, <2>2, <2>3, <3>2, PresentMap DEF FaultPCs, StackPCs
    <3> QED BY <3>1, <3>3
  <2>4. CASE /\ page[e][addr[e]] # Null /\ perm[e][addr[e]] = "RO"
             /\ page_map(child[e], addr[e], page[e][addr[e]], "RO")
             /\ NextPage(e) /\ UNCHANGED pc
    <3>1. IInv'
      BY <2>1, <2>4, DupIInv
    <3>2. \A x \in Envs \ {e} : addr'[x] = addr[x]
      BY <2>4, Types DEF IInv, NextPage
    <3>3. Present'
      BY <2>1, <2>2, <2>4, <3>2, PresentMap DEF FaultPCs, StackPCs
    <3> QED BY <3>1, <3>3
  <2>5. CASE NextPage(e) /\ UNCHANGED <<pc, page, perm, content>>
    <3>1. IInv'
      BY <2>1, <2>5, SkipIInv
    <3>2. \A x \in Envs \ {e} : addr'[x] = addr[x]
      BY <2>5, Types DEF IInv, NextPage
    <3>3. Present'
      BY <2>1, <2>5, <3>2, PresentQuiet DEF FaultPCs, StackPCs
    <3> QED BY <3>1, <3>3
  <2> QED BY <1>1, <2>3, <2>4, <2>5 DEF duppage
<1>2. CASE remap(e)
  <2>1. /\ pc[e] = "remap" /\ UNCHANGED child
        /\ page_map(e, addr[e], page[e][addr[e]], "COW")
        /\ \A x \in Envs : pc'[x] = IF x = e THEN "duppage" ELSE pc[x]
        /\ \A x \in Envs \ {e} : addr'[x] = addr[x]
    BY <1>2, PcFacts, Types DEF IInv, remap, At, NextPage
  <2>2. addr[e] \in Data /\ addr[e] \in VAs /\ addr[e] # STACK
    BY <2>1, VAFacts DEF Cursor
  <2>3. page[e][addr[e]] \in Pages \cup {Null}
    BY <2>2, Types DEF IInv
  <2>4. Present'
    BY <2>1, <2>2, <2>3, PresentMap DEF FaultPCs, StackPCs
  <2> QED BY <1>2, <2>2, <2>4, RemapIInv
<1> QED BY <1>1, <1>2

(* The rest of fork(): the two stacks of the child, and its start. *)
LEMMA StackStep ==
  ASSUME IInv, Cursor, Present, NEW e \in Envs,
         \/ stack_alloc(e) \/ stack_copy(e) \/ stack_map(e) \/ stack_unmap(e)
         \/ uxstack_alloc(e) \/ start(e)
  PROVE  IInv' /\ Present'
<1>1. CASE stack_alloc(e)
  <2>1. CASE page_alloc(e, PFTEMP, "W") /\ Goto(e, "st_copy") /\ UNCHANGED <<upcall, child, addr>>
    <3>1. pc[e] = "duppage"
      BY <1>1 DEF stack_alloc, At
    <3>2. IInv'
      BY <2>1, <3>1, TempAllocIInv
    <3>3. PICK p \in Free : page_map(e, PFTEMP, p, "W")
      BY <2>1 DEF page_alloc
    <3>4. p \in Pages /\ PFTEMP \in VAs /\ PFTEMP \notin UserVAs
      BY FreeFacts, VAFacts
    <3>5. \A x \in Envs : pc'[x] = IF x = e THEN "st_copy" ELSE pc[x]
      BY <2>1, PcFacts DEF IInv
    <3>6. Present'
      BY <2>1, <3>1, <3>3, <3>4, <3>5, PresentMap DEF FaultPCs, StackPCs
    <3> QED BY <3>2, <3>6
  <2> QED BY <1>1, <2>1, PanicStep DEF stack_alloc, At
<1>2. CASE stack_copy(e)
  <2>1. pc[e] = "st_copy" /\ UNCHANGED <<page, perm, upcall, child, addr>>
    BY <1>2 DEF stack_copy, At
  <2>2. W(e, PFTEMP) /\ page[e][STACK] # Null
    BY <2>1 DEF IInv, Temp, Present
  <2>3. page[e][PFTEMP] \in Pages /\ page[e][STACK] \in Pages
    BY <2>2, Types, Places DEF IInv, W
  <2>4. content' \in [Pages -> Values]
    BY <1>2, <2>3, Types DEF IInv, stack_copy
  <2>5. /\ \A x \in Envs : pc'[x] = IF x = e THEN "st_map" ELSE pc[x]
        /\ pc' \in [Envs -> PCs] /\ "st_map" \in PCs
    BY <1>2, Types DEF IInv, Goto, PCs, stack_copy
  <2>6. IInv'
    BY <2>1, <2>4, <2>5, Types, QuietIInv DEF ForkPCs, IInv
  <2>7. Present'
    BY <2>1, <2>5, PresentQuiet DEF FaultPCs, StackPCs
  <2> QED BY <2>6, <2>7
<1>3. CASE stack_map(e)
  <2>1. pc[e] = "st_map"
    BY <1>3 DEF stack_map, At
  <2>2. CASE /\ page_map(child[e], STACK, page[e][PFTEMP], "W")
             /\ Goto(e, "st_unmap") /\ UNCHANGED <<upcall, child, addr>>
    <3>1. IInv'
      BY <2>1, <2>2, StackMapIInv
    <3>2. W(e, PFTEMP) /\ child[e] \in Envs
      BY <2>1, ChildFacts DEF IInv, Temp, ForkPCs
    <3>3. page[e][PFTEMP] \in Pages /\ page[e][PFTEMP] # Null
      BY <3>2, Types, Places DEF IInv, W
    <3>4. \A x \in Envs : pc'[x] = IF x = e THEN "st_unmap" ELSE pc[x]
      BY <2>2, PcFacts DEF IInv
    <3>5. Present'
      BY <2>1, <2>2, <3>2, <3>3, <3>4, Places, PresentMap DEF FaultPCs, StackPCs
    <3> QED BY <3>1, <3>5
  <2> QED BY <1>3, <2>1, <2>2, PanicStep DEF stack_map
<1>4. CASE stack_unmap(e)
  <2>1. /\ pc[e] = "st_unmap" /\ UNCHANGED <<child, addr>>
        /\ page_map(e, PFTEMP, Null, "RO")
        /\ \A x \in Envs : pc'[x] = IF x = e THEN "uxstack" ELSE pc[x]
    BY <1>4, PcFacts DEF IInv, stack_unmap, At
  <2>2. Present'
    BY <2>1, VAFacts, PresentMap DEF FaultPCs, StackPCs
  <2>3. IInv'
    BY <1>4, TempUnmapIInv
  <2> QED BY <2>2, <2>3
<1>5. CASE uxstack_alloc(e)
  <2>1. pc[e] = "uxstack"
    BY <1>5 DEF uxstack_alloc, At
  <2>2. CASE page_alloc(child[e], UXSTACK, "W") /\ Goto(e, "start") /\ UNCHANGED <<upcall, child, addr>>
    <3>1. IInv'
      BY <2>1, <2>2, UxstackIInv
    <3>2. child[e] \in Envs
      BY <2>1, ChildFacts DEF ForkPCs
    <3>3. PICK p \in Free : page_map(child[e], UXSTACK, p, "W")
      BY <2>2 DEF page_alloc
    <3>4. p \in Pages /\ UXSTACK \in VAs /\ UXSTACK \notin UserVAs
      BY FreeFacts, VAFacts
    <3>5. \A x \in Envs : pc'[x] = IF x = e THEN "start" ELSE pc[x]
      BY <2>2, PcFacts DEF IInv
    <3>6. Present'
      BY <2>1, <2>2, <3>2, <3>3, <3>4, <3>5, PresentMap DEF FaultPCs, StackPCs
    <3> QED BY <3>1, <3>6
  <2> QED BY <1>5, <2>1, <2>2, PanicStep DEF uxstack_alloc
<1>6. CASE start(e)
  <2>1. PICK c \in Envs : c = child[e] /\ pc[e] = "start" /\ c # e /\ pc[c] = "embryo"
    BY <1>6, ChildFacts DEF start, At, ForkPCs
  <2>2. /\ pc'[e] = "user" /\ pc'[c] = "user"
        /\ \A y \in Envs \ {e, c} : pc'[y] = pc[y]
        /\ \A y \in Envs \ {e} : addr'[y] = addr[y] /\ child'[y] = child[y]
        /\ UNCHANGED page
    BY <1>6, <2>1, Types DEF IInv, start
  <2>3. page[c][STACK] # Null
    BY <2>1 DEF Present, StackPCs
  <2>4. Present'
    BY <2>1, <2>2, <2>3 DEF Present, FaultPCs, StackPCs
  <2> QED BY <1>6, <2>4, StartIInv
<1> QED BY <1>1, <1>2, <1>3, <1>4, <1>5, <1>6

(* The three parts hold of the first program. *)
LEMMA InitInv == Init => IInv /\ Cursor /\ Present
<1> SUFFICES ASSUME Init PROVE Cursor /\ Present
  BY InitIInv
<1>1. PICK f \in [UserVAs -> Pages] :
        page = [e \in Envs |-> IF e = Root
                               THEN [va \in VAs |-> IF va \in UserVAs THEN f[va] ELSE Null]
                               ELSE Unmapped]
  BY DEF Init
<1>2. \A e \in Envs : pc[e] = IF e = Root THEN "user" ELSE "free"
  BY DEF Init
<1>3. page[Root][STACK] \in Pages
  BY <1>1, VAFacts, EnvsAssumption
<1>4. Present
  BY <1>2, <1>3, PagesAssumption DEF Present, FaultPCs, StackPCs
<1>5. Cursor
  BY <1>2 DEF Cursor, ForkPCs
<1> QED BY <1>4, <1>5

(* Every step keeps them. *)
LEMMA NextInv ==
  ASSUME IInv, Cursor, Present, Next
  PROVE  IInv' /\ Cursor' /\ Present'
<1>1. PICK e \in Envs :
    \/ \E va \in UserVAs, v \in Values : write(e, va, v)
    \/ \E va \in UserVAs : page_fault_handler(e, va)
    \/ \E va \in Data : sys_page_alloc(e, va) \/ sys_page_unmap(e, va)
    \/ exit(e)
    \/ pgfault_alloc(e) \/ pgfault_copy(e) \/ pgfault_map(e) \/ pgfault_unmap(e)
    \/ fork(e) \/ exofork(e) \/ duppage(e) \/ remap(e)
    \/ stack_alloc(e) \/ stack_copy(e) \/ stack_map(e) \/ stack_unmap(e)
    \/ uxstack_alloc(e) \/ start(e)
  BY DEF Next
<1>2. IInv' /\ Present'
  BY <1>1, ProgramStep, FaultStep, ForkStep, DupStep, StackStep
<1> QED BY <1>2, CursorStep

(* The inductive invariant holds in every reachable state. *)
LEMMA Invariance == Spec => [](IInv /\ Cursor /\ Present)
<1>1. ASSUME IInv /\ Cursor /\ Present, UNCHANGED vars PROVE (IInv /\ Cursor /\ Present)'
  BY <1>1 DEF vars, IInv, TypeOK, Families, FreeEmpty, Sharing, Between, Temp, Handlers, W,
              Cursor, Present
<1> QED BY <1>1, InitInv, NextInv, PTL DEF Spec

(* A page that a running program can write is mapped nowhere else, whatever
   calls the others are in the middle of, and even if duppage() fails.     *)
THEOREM PrivateCorrect == Spec => []WritableIsPrivate
<1>1. IInv => WritableIsPrivate
  <2> SUFFICES ASSUME IInv, NEW e \in Envs, NEW f \in Envs, NEW v \in VAs, NEW w \in VAs,
                      pc[e] = "user", W(e, v), page[f][w] = page[e][v]
               PROVE  e = f /\ v = w
    BY DEF WritableIsPrivate, W
  <2>1. (e = f /\ v = w) \/ Between(e, v, f, w)
    BY DEF IInv, Sharing
  <2>2. pc[f] = "st_unmap" => pc[child[f]] = "embryo"
    BY DEF IInv, Families, ForkPCs
  <2> QED BY <2>1, <2>2 DEF Between
<1> QED BY <1>1, Invariance, PTL

(* An environment with a copy-on-write page has an upcall and a writable
   exception stack, from set_pgfault_handler() or from its parent's fork(). *)
THEOREM HandlersCorrect == Spec => []CanHandleFaults
<1>1. IInv => CanHandleFaults
  BY DEF IInv, Handlers, CanHandleFaults, W
<1> QED BY <1>1, Invariance, PTL

----------------------------------------------------------------------------
(* fork() implements ForkAbs *)

(* What an environment finds at an address, whichever page holds it. *)
cell == [e \in Envs |-> [va \in VAs |->
           IF page[e][va] = Null THEN Null ELSE content[page[e][va]]]]

Zeroed == \A p \in Pages : ~ Mapped(page, p) => content[p] = Zero

(* The loop of fork() is past va. *)
Copied(e, va) == va < addr[e] \/ (pc[e] = "remap" /\ va = addr[e])

(* How far a copy in progress has come. *)
CopyOf(e) ==
  /\ pc[e] = "pf_map" => cell[e][PFTEMP] = cell[e][addr[e]]
  /\ pc[e] = "st_map" => cell[e][PFTEMP] = cell[e][STACK]
  /\ pc[e] \in ForkPCs => \A va \in Data :
       cell[child[e]][va] = IF Copied(e, va) THEN cell[e][va] ELSE Null
  /\ pc[e] \in StackPCs => cell[child[e]][STACK] = cell[e][STACK]

Copies == \A e \in Envs : CopyOf(e)

Inv == IInv /\ Cursor /\ Present /\ Zeroed /\ Copies

----------------------------------------------------------------------------
(* What the calls do to the cells *)

(* A cell is a value or empty, before and after a step. *)
LEMMA Cells ==
  ASSUME TypeOK
  PROVE  \A e \in Envs, va \in VAs :
           /\ cell[e][va] = IF page[e][va] = Null THEN Null ELSE content[page[e][va]]
           /\ cell'[e][va] = IF page'[e][va] = Null THEN Null ELSE content'[page'[e][va]]
           /\ cell[e][va] \in Values \cup {Null}
<1>1. \A e \in Envs, va \in VAs :
           /\ cell[e][va] = IF page[e][va] = Null THEN Null ELSE content[page[e][va]]
           /\ cell'[e][va] = IF page'[e][va] = Null THEN Null ELSE content'[page'[e][va]]
  BY DEF cell
<1>2. \A e \in Envs, va \in VAs : page[e][va] # Null => content[page[e][va]] \in Values
  BY Types
<1> QED BY <1>1, <1>2

(* page_map() changes one cell, and clears the pages that become free. *)
LEMMA MapCells ==
  ASSUME IInv, NEW x \in Envs, NEW va \in VAs, NEW p \in Pages \cup {Null},
         NEW prm \in {"W", "COW", "RO"}, page_map(x, va, p, prm)
  PROVE  /\ \A y \in Envs, v \in VAs : y # x \/ v # va => cell'[y][v] = cell[y][v]
         /\ cell'[x][va] = IF p = Null THEN Null ELSE content[p]
         /\ Zeroed'
<1>1. /\ page' \in [Envs -> [VAs -> Pages \cup {Null}]] /\ page'[x][va] = p
      /\ \A y \in Envs, v \in VAs : y # x \/ v # va => page'[y][v] = page[y][v]
  BY PageMapFacts DEF IInv, Kept
<1>2. \A q \in Pages : content'[q] = IF Mapped(page', q) THEN content[q] ELSE Zero
  BY DEF page_map, Cleared
<1>3. \A y \in Envs, v \in VAs : page'[y][v] # Null => content'[page'[y][v]] = content[page'[y][v]]
  BY <1>1, <1>2 DEF Mapped
<1>4. Zeroed'
  BY <1>2 DEF Zeroed, Mapped
<1> QED BY <1>1, <1>3, <1>4, Cells DEF IInv

(* A page handed out by page_alloc() holds zeros. *)
LEMMA AllocCells ==
  ASSUME IInv, Zeroed, NEW x \in Envs, NEW va \in VAs, NEW prm \in {"W", "COW", "RO"},
         page_alloc(x, va, prm)
  PROVE  /\ \A y \in Envs, v \in VAs : y # x \/ v # va => cell'[y][v] = cell[y][v]
         /\ cell'[x][va] = Zero
         /\ Zeroed'
<1>1. PICK p \in Free : page_map(x, va, p, prm)
  BY DEF page_alloc
<1>2. p \in Pages /\ p # Null /\ content[p] = Zero
  BY FreeFacts DEF Zeroed, Free
<1> QED BY <1>1, <1>2, MapCells

(* A store reaches one cell: the page is mapped nowhere else. *)
LEMMA StoreCells ==
  ASSUME IInv, Zeroed, NEW e \in Envs, NEW va \in VAs, W(e, va), NEW x \in Values,
         pc[e] = "user" \/ (pc[e] \in {"pf_copy", "st_copy"} /\ va = PFTEMP),
         content' = [content EXCEPT ![page[e][va]] = x], UNCHANGED page
  PROVE  /\ \A y \in Envs, v \in VAs : y # e \/ v # va => cell'[y][v] = cell[y][v]
         /\ cell'[e][va] = x
         /\ Zeroed'
<1>1. PICK q \in Pages : q = page[e][va] /\ q # Null
  BY Types DEF IInv, W
<1>2. /\ content' = [content EXCEPT ![q] = x] /\ content \in [Pages -> Values]
      /\ page \in [Envs -> [VAs -> Pages \cup {Null}]]
  BY <1>1, Types DEF IInv
<1>3. ASSUME NEW y \in Envs, NEW v \in VAs, y # e \/ v # va, page[y][v] = q PROVE FALSE
  <2>1. Between(e, va, y, v)
    BY <1>1, <1>3 DEF IInv, Sharing
  <2>2. pc[y] = "st_unmap" => pc[child[y]] = "embryo"
    BY DEF IInv, Families, ForkPCs
  <2> QED BY <2>1, <2>2, Places DEF Between
<1>4. \A y \in Envs, v \in VAs : (y # e \/ v # va) /\ page[y][v] # Null =>
        content'[page[y][v]] = content[page[y][v]]
  BY <1>2, <1>3
<1>5. content'[q] = x /\ \A r \in Pages \ {q} : content'[r] = content[r]
  BY <1>2
<1>6. Mapped(page, q)
  BY <1>1 DEF Mapped
<1>7. Zeroed'
  BY <1>5, <1>6 DEF Zeroed, Mapped
<1> QED BY <1>1, <1>4, <1>5, <1>7, Cells DEF IInv

(* A step without a store or a mapping. *)
LEMMA SameCells ==
  ASSUME Zeroed, UNCHANGED <<page, content>>
  PROVE  cell' = cell /\ Zeroed'
BY DEF cell, Zeroed, Mapped

(* Nobody else loses anything when an environment is freed. *)
LEMMA FreeCells ==
  ASSUME IInv, NEW e \in Envs, env_free(e)
  PROVE  /\ \A y \in Envs \ {e}, v \in VAs : cell'[y][v] = cell[y][v]
         /\ Zeroed'
<1>1. /\ page' \in [Envs -> [VAs -> Pages \cup {Null}]]
      /\ \A y \in Envs \ {e} : page'[y] = page[y]
  BY Types DEF IInv, env_free, Unmapped
<1>2. \A q \in Pages : content'[q] = IF Mapped(page', q) THEN content[q] ELSE Zero
  BY DEF env_free, Cleared
<1>3. \A y \in Envs, v \in VAs : page'[y][v] # Null => content'[page'[y][v]] = content[page'[y][v]]
  BY <1>1, <1>2 DEF Mapped
<1>4. Zeroed'
  BY <1>2 DEF Zeroed, Mapped
<1> QED BY <1>1, <1>3, <1>4, Cells DEF IInv

----------------------------------------------------------------------------
(* Copies in progress *)

(* A step of e leaves alone the copies that others make. *)
LEMMA OthersCopy ==
  ASSUME IInv, Cursor, Copies, NEW e \in Envs, pc[e] \notin {"free", "embryo"}, NEW x \in Envs,
         x = e \/ (pc[e] \in ForkPCs /\ x = child[e]),
         \A y \in Envs \ {x}, v \in VAs : cell'[y][v] = cell[y][v],
         \A y \in Envs \ {e} : pc'[y] = pc[y] /\ addr'[y] = addr[y] /\ child'[y] = child[y],
         CopyOf(e)'
  PROVE  Copies'
<1> SUFFICES ASSUME NEW y \in Envs, y # e PROVE CopyOf(y)'
  BY DEF Copies
<1>1. CopyOf(y)
  BY DEF Copies
<1>2. pc[y] \in ForkPCs => child[y] \in Envs /\ child[y] # x
  BY DEF IInv, Families, ForkPCs
<1>3. pc[y] \in ForkPCs \cup {"pf_map"} => y # x
  BY DEF IInv, Families, ForkPCs
<1>4. pc[y] = "pf_map" => addr[y] \in VAs
  BY VAFacts DEF Cursor
<1>5. pc[y] = "pf_map" => cell'[y][PFTEMP] = cell'[y][addr[y]]
  BY <1>1, <1>3, <1>4, Places DEF CopyOf
<1>6. pc[y] = "st_map" => cell'[y][PFTEMP] = cell'[y][STACK]
  BY <1>1, <1>3, Places DEF CopyOf, ForkPCs
<1>7. ASSUME pc[y] \in ForkPCs, NEW va \in Data
      PROVE  cell'[child[y]][va] = IF Copied(y, va) THEN cell'[y][va] ELSE Null
  BY <1>1, <1>2, <1>3, <1>7, VAFacts DEF CopyOf
<1>8. pc[y] \in StackPCs => cell'[child[y]][STACK] = cell'[y][STACK]
  BY <1>1, <1>2, <1>3, Places DEF CopyOf, StackPCs, ForkPCs
<1>9. \A va \in Data : Copied(y, va)' <=> Copied(y, va)
  BY DEF Copied
<1>10. pc'[y] = pc[y] /\ addr'[y] = addr[y] /\ child'[y] = child[y]
  OBVIOUS
<1> QED BY <1>5, <1>6, <1>7, <1>8, <1>9, <1>10 DEF CopyOf

(* Nothing to say of a copy outside pgfault() and fork(). *)
LEMMA NoCopy ==
  ASSUME NEW e \in Envs, pc'[e] \notin ForkPCs \cup {"pf_map"}
  PROVE  CopyOf(e)'
BY DEF CopyOf, ForkPCs, StackPCs

----------------------------------------------------------------------------
(* The refinement mapping *)

Hidden == {"free", "embryo"}
memBar == [e \in Envs |-> IF pc[e] \in Hidden THEN Null ELSE View(e)]
libBar == {e \in Envs : pc[e] \notin {"free", "embryo", "user"}}
absVars == <<memBar, libBar>>

(* The memory of a running environment is what its cells hold. *)
LEMMA Memory ==
  ASSUME TypeOK
  PROVE  \A e \in Envs :
           /\ memBar[e] = IF pc[e] \in Hidden THEN Null ELSE [va \in UserVAs |-> cell[e][va]]
           /\ memBar'[e] = IF pc'[e] \in Hidden THEN Null ELSE [va \in UserVAs |-> cell'[e][va]]
           /\ pc[e] \notin Hidden => memBar[e] # Null
<1>1. ASSUME NEW e \in Envs
      PROVE  /\ View(e) = [va \in UserVAs |-> cell[e][va]]
             /\ View(e)' = [va \in UserVAs |-> cell'[e][va]]
             /\ [va \in UserVAs |-> cell[e][va]] # Null
  <2>1. \A va \in UserVAs :
           /\ cell[e][va] = IF page[e][va] = Null THEN Null ELSE content[page[e][va]]
           /\ cell'[e][va] = IF page'[e][va] = Null THEN Null ELSE content'[page'[e][va]]
           /\ cell[e][va] \in Values \cup {Null}
    BY Cells, VAFacts
  <2>2. [va \in UserVAs |-> cell[e][va]] \in [UserVAs -> Values \cup {Null}]
    BY <2>1
  <2> QED BY <2>1, <2>2, NullAssumption DEF View
<1> QED BY <1>1 DEF memBar

(* A step that an observer of y's memory does not see. *)
Unseen(y) ==
  /\ pc'[y] \in Hidden <=> pc[y] \in Hidden
  /\ pc[y] \notin Hidden => \A va \in UserVAs : cell'[y][va] = cell[y][va]

(* A process that a step does not touch keeps the memory it sees. *)
LEMMA UnseenFacts ==
  ASSUME TypeOK, NEW y \in Envs, Unseen(y)
  PROVE  memBar'[y] = memBar[y]
<1>1. CASE pc[y] \in Hidden
  BY <1>1, Memory DEF Unseen
<1>2. CASE pc[y] \notin Hidden
  <2>1. [va \in UserVAs |-> cell'[y][va]] = [va \in UserVAs |-> cell[y][va]]
    BY <1>2 DEF Unseen
  <2>2. pc'[y] \notin Hidden
    BY <1>2 DEF Unseen
  <2>3. /\ memBar'[y] = [va \in UserVAs |-> cell'[y][va]]
        /\ memBar[y] = [va \in UserVAs |-> cell[y][va]]
    BY <1>2, <2>2, Memory
  <2> QED BY <2>1, <2>3
<1> QED BY <1>1, <1>2

(* The abstract memory is a function of the environments. *)
LEMMA MemoryType ==
  /\ memBar = [y \in Envs |-> memBar[y]] /\ memBar' = [y \in Envs |-> memBar'[y]]
BY DEF memBar

(* A step that stays inside the library, or is not the environment's own. *)
LEMMA Stutters ==
  ASSUME TypeOK,
         \A y \in Envs : Unseen(y) /\ (pc'[y] = "user" <=> pc[y] = "user")
  PROVE  UNCHANGED absVars
<1>1. memBar' = memBar
  BY UnseenFacts, MemoryType
<1>2. libBar' = libBar
  BY DEF libBar, Unseen, Hidden
<1> QED BY <1>1, <1>2 DEF absVars

(* fork() or pgfault() begins. *)
LEMMA Enters ==
  ASSUME TypeOK, NEW e \in Envs, pc[e] = "user", pc'[e] \notin Hidden \cup {"user"},
         \A y \in Envs : Unseen(y),
         \A y \in Envs \ {e} : pc'[y] = pc[y]
  PROVE  Abs!Next
<1>1. memBar' = memBar
  BY UnseenFacts, MemoryType
<1>2. libBar' = libBar \cup {e} /\ e \notin libBar
  BY DEF libBar, Hidden
<1>3. memBar[e] # Null
  BY Memory DEF Hidden
<1>4. Abs!Enter(e)
  BY <1>1, <1>2, <1>3 DEF Abs!Enter, Abs!InProgram, Abs!Running, memBar, libBar, Hidden
<1> QED BY <1>4 DEF Abs!Next

(* The library returns to the program. *)
LEMMA Leaves ==
  ASSUME TypeOK, NEW e \in Envs, pc[e] \notin Hidden \cup {"user"}, pc'[e] = "user",
         \A y \in Envs : Unseen(y),
         \A y \in Envs \ {e} : pc'[y] = pc[y]
  PROVE  Abs!Next
<1>1. memBar' = memBar
  BY UnseenFacts, MemoryType
<1>2. libBar' = libBar \ {e} /\ e \in libBar
  BY DEF libBar, Hidden
<1>3. Abs!Leave(e)
  BY <1>1, <1>2 DEF Abs!Leave, memBar, libBar, Hidden
<1> QED BY <1>3 DEF Abs!Next

(* The program changes one of its cells. *)
LEMMA Writes ==
  ASSUME TypeOK, NEW e \in Envs, pc[e] = "user", UNCHANGED pc,
         NEW va \in UserVAs, NEW v \in Values \cup {Null}, cell'[e][va] = v,
         \A y \in Envs, w \in UserVAs : y # e \/ w # va => cell'[y][w] = cell[y][w]
  PROVE  Abs!Next
<1>1. \A y \in Envs \ {e} : memBar'[y] = memBar[y]
  BY UnseenFacts DEF Unseen
<1>2. /\ memBar[e] = [w \in UserVAs |-> cell[e][w]]
      /\ memBar'[e] = [w \in UserVAs |-> cell'[e][w]]
      /\ memBar[e] # Null
  BY Memory DEF Hidden
<1>3. memBar'[e] = [memBar[e] EXCEPT ![va] = v]
  BY <1>2
<1>4. memBar' = [memBar EXCEPT ![e] = [@ EXCEPT ![va] = v]]
  BY <1>1, <1>3, MemoryType
<1>5. libBar' = libBar /\ e \notin libBar
  BY DEF libBar
<1>6. Abs!Write(e, va, v)
  BY <1>2, <1>4, <1>5 DEF Abs!Write, Abs!InProgram, Abs!Running, memBar, libBar, Hidden
<1> QED BY <1>6 DEF Abs!Next

(* An environment is freed. *)
LEMMA Exits ==
  ASSUME TypeOK, NEW e \in Envs, pc[e] = "user", pc'[e] = "free",
         \A y \in Envs \ {e} : Unseen(y) /\ pc'[y] = pc[y]
  PROVE  Abs!Next
<1>1. \A y \in Envs \ {e} : memBar'[y] = memBar[y]
  BY UnseenFacts
<1>2. memBar[e] # Null /\ memBar'[e] = Null
  BY Memory DEF Hidden
<1>3. memBar' = [memBar EXCEPT ![e] = Null]
  BY <1>1, <1>2, MemoryType
<1>4. libBar' = libBar /\ e \notin libBar
  BY DEF libBar
<1>5. Abs!Exit(e)
  BY <1>2, <1>3, <1>4 DEF Abs!Exit, Abs!InProgram, Abs!Running, memBar, libBar, Hidden
<1> QED BY <1>5 DEF Abs!Next

(* The child starts, with its parent's memory. *)
LEMMA Forks ==
  ASSUME TypeOK, NEW e \in Envs, NEW c \in Envs, c # e,
         pc[e] \notin Hidden \cup {"user"}, pc[c] = "embryo", pc'[e] = "user", pc'[c] = "user",
         \A y \in Envs \ {e, c} : pc'[y] = pc[y],
         UNCHANGED cell, \A va \in UserVAs : cell[c][va] = cell[e][va]
  PROVE  Abs!Next
<1>1. \A y \in Envs \ {c} : memBar'[y] = memBar[y]
  BY UnseenFacts DEF Unseen, Hidden
<1>2. memBar'[c] = memBar[e] /\ memBar[c] = Null
  <2>1. [va \in UserVAs |-> cell'[c][va]] = [va \in UserVAs |-> cell[e][va]]
    OBVIOUS
  <2>2. /\ memBar'[c] = [va \in UserVAs |-> cell'[c][va]]
        /\ memBar[e] = [va \in UserVAs |-> cell[e][va]]
        /\ memBar[c] = Null
    BY Memory DEF Hidden
  <2> QED BY <2>1, <2>2
<1>3. memBar' = [memBar EXCEPT ![c] = memBar[e]]
  BY <1>1, <1>2, MemoryType
<1>4. libBar' = libBar \ {e} /\ e \in libBar
  BY DEF libBar, Hidden
<1>5. Abs!Fork(e, c)
  BY <1>2, <1>3, <1>4 DEF Abs!Fork, Abs!Running, memBar, libBar, Hidden
<1> QED BY <1>5 DEF Abs!Next

----------------------------------------------------------------------------
(* Every step keeps the copies and is an abstract step, or unseen *)

Refines == Zeroed' /\ Copies' /\ (Abs!Next \/ UNCHANGED absVars)

(* One cell changes, where no running program can look. *)
LEMMA UnseenCell ==
  ASSUME NEW x \in Envs, NEW va \in VAs,
         va \notin UserVAs \/ pc[x] \in Hidden \/ cell'[x][va] = cell[x][va],
         \A y \in Envs, v \in VAs : y # x \/ v # va => cell'[y][v] = cell[y][v],
         \A y \in Envs : pc'[y] \in Hidden <=> pc[y] \in Hidden
  PROVE  \A y \in Envs : Unseen(y)
BY VAFacts DEF Unseen

(* panic(), from any place. *)
LEMMA PanicRefines ==
  ASSUME Inv, NEW e \in Envs, panic(e), pc[e] \notin Hidden
  PROVE  Refines
<1>1. /\ \A y \in Envs : pc'[y] = IF y = e THEN "panic" ELSE pc[y]
      /\ UNCHANGED <<page, content, child, addr>>
  BY PcFacts DEF Inv, IInv, panic
<1>2. cell' = cell /\ Zeroed'
  BY <1>1, SameCells DEF Inv
<1>3. Copies'
  BY <1>1, <1>2, OthersCopy, NoCopy DEF Inv, ForkPCs, Hidden
<1>4. \A y \in Envs : Unseen(y)
  BY <1>1, <1>2 DEF Unseen, Hidden
<1>5. CASE pc[e] = "user"
  BY <1>1, <1>2, <1>3, <1>4, <1>5, Enters DEF Refines, Inv, IInv, Hidden
<1>6. CASE pc[e] # "user"
  BY <1>1, <1>2, <1>3, <1>4, <1>6, Stutters DEF Refines, Inv, IInv
<1> QED BY <1>5, <1>6

(* env_free(), from exit() or page_fault_handler(). *)
LEMMA FreeRefines ==
  ASSUME Inv, NEW e \in Envs, pc[e] = "user", env_free(e)
  PROVE  Refines
<1>1. /\ \A y \in Envs : pc'[y] = IF y = e THEN "free" ELSE pc[y]
      /\ \A y \in Envs \ {e} : child'[y] = child[y] /\ addr'[y] = addr[y]
  BY Types DEF Inv, IInv, env_free
<1>2. Zeroed' /\ \A y \in Envs \ {e}, v \in VAs : cell'[y][v] = cell[y][v]
  BY FreeCells DEF Inv
<1>3. Copies'
  BY <1>1, <1>2, OthersCopy, NoCopy DEF Inv, ForkPCs
<1>4. \A y \in Envs \ {e} : Unseen(y) /\ pc'[y] = pc[y]
  BY <1>1, <1>2, VAFacts DEF Unseen
<1>5. Abs!Next
  BY <1>1, <1>4, Exits DEF Inv, IInv
<1> QED BY <1>2, <1>3, <1>5 DEF Refines

(* The program's own steps. *)
LEMMA ProgramRefines ==
  ASSUME Inv, NEW e \in Envs,
         \/ \E va \in UserVAs, v \in Values : write(e, va, v)
         \/ \E va \in UserVAs : page_fault_handler(e, va)
         \/ \E va \in Data : sys_page_alloc(e, va) \/ sys_page_unmap(e, va)
         \/ exit(e)
  PROVE  Refines
<1>1. ASSUME pc[e] = "user", UNCHANGED <<pc, child, addr>>, Zeroed',
             NEW va \in UserVAs, NEW v \in Values \cup {Null}, cell'[e][va] = v,
             \A y \in Envs, w \in VAs : y # e \/ w # va => cell'[y][w] = cell[y][w]
      PROVE  Refines
  <2>1. CopyOf(e)'
    BY <1>1, NoCopy DEF ForkPCs
  <2>2. Copies'
    BY <1>1, <2>1, OthersCopy DEF Inv
  <2>3. Abs!Next
    BY <1>1, VAFacts, Writes DEF Inv, IInv
  <2> QED BY <1>1, <2>2, <2>3 DEF Refines
<1>2. ASSUME NEW va \in UserVAs, NEW v \in Values, write(e, va, v) PROVE Refines
  <2>1. /\ pc[e] = "user" /\ UNCHANGED <<pc, page, child, addr>> /\ W(e, va) /\ va \in VAs
        /\ content' = [content EXCEPT ![page[e][va]] = v]
    BY <1>2, VAFacts DEF write, At, W
  <2>2. /\ \A y \in Envs, w \in VAs : y # e \/ w # va => cell'[y][w] = cell[y][w]
        /\ cell'[e][va] = v /\ Zeroed'
    BY <2>1, StoreCells DEF Inv
  <2> QED BY <2>1, <2>2, <1>1
<1>3. ASSUME NEW va \in Data, sys_page_alloc(e, va) PROVE Refines
  <2>1. /\ pc[e] = "user" /\ UNCHANGED <<pc, child, addr>>
        /\ va \in VAs /\ va \in UserVAs /\ page_alloc(e, va, "RO")
    BY <1>3, VAFacts DEF sys_page_alloc, At
  <2>2. /\ \A y \in Envs, w \in VAs : y # e \/ w # va => cell'[y][w] = cell[y][w]
        /\ cell'[e][va] = Zero /\ Zeroed'
    BY <2>1, AllocCells DEF Inv
  <2> QED BY <2>1, <2>2, <1>1, ValuesAssumption
<1>4. ASSUME NEW va \in Data, sys_page_unmap(e, va) PROVE Refines
  <2>1. /\ pc[e] = "user" /\ UNCHANGED <<pc, child, addr>>
        /\ va \in VAs /\ va \in UserVAs /\ page_map(e, va, Null, "RO")
    BY <1>4, VAFacts DEF sys_page_unmap, At
  <2>2. /\ \A y \in Envs, w \in VAs : y # e \/ w # va => cell'[y][w] = cell[y][w]
        /\ cell'[e][va] = Null /\ Zeroed'
    BY <2>1, MapCells DEF Inv
  <2> QED BY <2>1, <2>2, <1>1
<1>5. CASE exit(e)
  BY <1>5, FreeRefines DEF exit, At
<1>6. ASSUME NEW va \in UserVAs, page_fault_handler(e, va) PROVE Refines
  <2>0. pc[e] = "user" /\ pc[e] \notin Hidden
    BY <1>6 DEF page_fault_handler, At, Hidden
  <2>1. CASE /\ Goto(e, "pf_alloc") /\ addr' = [addr EXCEPT ![e] = va]
             /\ UNCHANGED <<page, perm, content, upcall, child>>
    <3>1. /\ \A y \in Envs : pc'[y] = IF y = e THEN "pf_alloc" ELSE pc[y]
          /\ \A y \in Envs \ {e} : addr'[y] = addr[y]
      BY <2>1, PcFacts, Types DEF Inv, IInv
    <3>2. cell' = cell /\ Zeroed'
      BY <2>1, SameCells DEF Inv
    <3>3. Copies'
      BY <2>0, <2>1, <3>1, <3>2, OthersCopy, NoCopy DEF Inv, ForkPCs
    <3>4. \A y \in Envs : Unseen(y)
      BY <2>0, <3>1, <3>2 DEF Unseen, Hidden
    <3> QED BY <2>0, <3>1, <3>2, <3>3, <3>4, Enters DEF Refines, Inv, IInv, Hidden
  <2> QED BY <1>6, <2>0, <2>1, FreeRefines, PanicRefines DEF page_fault_handler
<1> QED BY <1>2, <1>3, <1>4, <1>5, <1>6

(* A step of the library that changes one cell no running program can see. *)
LEMMA LibraryRefines ==
  ASSUME Inv, NEW e \in Envs, NEW l, Goto(e, l), pc[e] \notin Hidden \cup {"user"},
         l \notin Hidden \cup {"user"}, UNCHANGED child,
         \A y \in Envs \ {e} : addr'[y] = addr[y],
         NEW x \in Envs, x = e \/ (pc[e] \in ForkPCs /\ x = child[e]), NEW va \in VAs,
         va \notin UserVAs \/ pc[x] \in Hidden \/ cell'[x][va] = cell[x][va],
         \A y \in Envs, v \in VAs : y # x \/ v # va => cell'[y][v] = cell[y][v],
         Zeroed', CopyOf(e)'
  PROVE  Refines
<1>1. \A y \in Envs : pc'[y] = IF y = e THEN l ELSE pc[y]
  BY PcFacts DEF Inv, IInv
<1>2. Copies'
  BY <1>1, OthersCopy DEF Inv, Hidden
<1>3. \A y \in Envs : Unseen(y)
  BY <1>1, UnseenCell
<1>4. UNCHANGED absVars
  BY <1>1, <1>3, Stutters DEF Inv, IInv
<1> QED BY <1>2, <1>4 DEF Refines

(* pgfault() *)
LEMMA FaultRefines ==
  ASSUME Inv, NEW e \in Envs,
         pgfault_alloc(e) \/ pgfault_copy(e) \/ pgfault_map(e) \/ pgfault_unmap(e)
  PROVE  Refines
<1>1. CASE pgfault_alloc(e)
  <2>0. pc[e] = "pf_alloc"
    BY <1>1 DEF pgfault_alloc, At
  <2>1. CASE page_alloc(e, PFTEMP, "W") /\ Goto(e, "pf_copy") /\ UNCHANGED <<upcall, child, addr>>
    <3>1. /\ \A y \in Envs, v \in VAs : y # e \/ v # PFTEMP => cell'[y][v] = cell[y][v]
          /\ Zeroed'
      BY <2>1, Places, AllocCells DEF Inv
    <3>2. pc'[e] = "pf_copy"
      BY <2>1, PcFacts DEF Inv, IInv
    <3>3. CopyOf(e)'
      BY <3>2, NoCopy DEF ForkPCs
    <3> QED BY <2>0, <2>1, <3>1, <3>3, VAFacts, LibraryRefines DEF Hidden
  <2> QED BY <1>1, <2>0, <2>1, PanicRefines DEF pgfault_alloc, Hidden
<1>2. CASE pgfault_copy(e)
  <2>1. /\ pc[e] = "pf_copy" /\ UNCHANGED <<page, perm, upcall, child, addr>>
        /\ Goto(e, "pf_map")
        /\ content' = [content EXCEPT ![page[e][PFTEMP]] = content[page[e][addr[e]]]]
    BY <1>2 DEF pgfault_copy, At
  <2>2. PICK va \in VAs : va = addr[e] /\ va # PFTEMP /\ page[e][va] # Null
    BY <2>1, VAFacts DEF Inv, Cursor, Present, FaultPCs
  <2>3. PICK w \in Values : w = content[page[e][va]] /\ cell[e][va] = w
    BY <2>2, Types, Cells DEF Inv, IInv
  <2>4. W(e, PFTEMP)
    BY <2>1 DEF Inv, IInv, Temp
  <2>5. /\ \A y \in Envs, v \in VAs : y # e \/ v # PFTEMP => cell'[y][v] = cell[y][v]
        /\ cell'[e][PFTEMP] = w /\ Zeroed'
    BY <2>1, <2>2, <2>3, <2>4, Places, StoreCells DEF Inv
  <2>6. pc'[e] = "pf_map" /\ addr'[e] = va
    BY <2>1, <2>2, PcFacts DEF Inv, IInv
  <2>7. cell'[e][PFTEMP] = cell'[e][va]
    BY <2>2, <2>3, <2>5
  <2>8. CopyOf(e)'
    BY <2>6, <2>7 DEF CopyOf, ForkPCs, StackPCs
  <2> QED BY <2>1, <2>5, <2>8, VAFacts, LibraryRefines DEF Hidden
<1>3. CASE pgfault_map(e)
  <2>1. /\ pc[e] = "pf_map" /\ UNCHANGED <<upcall, child, addr>> /\ Goto(e, "pf_unmap")
        /\ page_map(e, addr[e], page[e][PFTEMP], "W")
    BY <1>3 DEF pgfault_map, At
  <2>2. PICK va \in VAs, p \in Pages : va = addr[e] /\ p = page[e][PFTEMP] /\ p # Null
    BY <2>1, VAFacts, Types DEF Inv, Cursor, IInv, Temp, W
  <2>3. cell[e][PFTEMP] = content[p] /\ cell[e][PFTEMP] = cell[e][va]
    BY <2>1, <2>2, Cells, Places DEF Inv, IInv, Copies, CopyOf
  <2>4. /\ \A y \in Envs, v \in VAs : y # e \/ v # va => cell'[y][v] = cell[y][v]
        /\ cell'[e][va] = content[p] /\ Zeroed'
    BY <2>1, <2>2, MapCells DEF Inv
  <2>5. pc'[e] = "pf_unmap"
    BY <2>1, PcFacts DEF Inv, IInv
  <2>6. CopyOf(e)'
    BY <2>5, NoCopy DEF ForkPCs
  <2> QED BY <2>1, <2>3, <2>4, <2>6, LibraryRefines DEF Hidden
<1>4. CASE pgfault_unmap(e)
  <2>1. /\ pc[e] = "pf_unmap" /\ UNCHANGED <<upcall, child>>
        /\ page_map(e, PFTEMP, Null, "RO")
        /\ \A y \in Envs : pc'[y] = IF y = e THEN "user" ELSE pc[y]
        /\ \A y \in Envs \ {e} : addr'[y] = addr[y]
    BY <1>4, PcFacts, Types DEF pgfault_unmap, At, Inv, IInv
  <2>2. /\ \A y \in Envs, v \in VAs : y # e \/ v # PFTEMP => cell'[y][v] = cell[y][v]
        /\ Zeroed'
    BY <2>1, Places, MapCells DEF Inv
  <2>3. Copies'
    BY <2>1, <2>2, OthersCopy, NoCopy DEF Inv, ForkPCs
  <2>4. \A y \in Envs : Unseen(y)
    BY <2>1, <2>2, VAFacts, UnseenCell DEF Hidden
  <2>5. Abs!Next
    BY <2>1, <2>4, Leaves DEF Inv, IInv, Hidden
  <2> QED BY <2>2, <2>3, <2>5 DEF Refines
<1> QED BY <1>1, <1>2, <1>3, <1>4

(* fork() up to the loop: the child is empty. *)
LEMMA ForkRefines ==
  ASSUME Inv, NEW e \in Envs, fork(e) \/ exofork(e)
  PROVE  Refines
<1>1. CASE fork(e)
  <2>0. pc[e] = "user"
    BY <1>1 DEF fork, At
  <2>1. ASSUME Goto(e, "exofork"), UNCHANGED <<child, addr>>, Zeroed',
               \A y \in Envs, v \in VAs : y # e \/ v # UXSTACK => cell'[y][v] = cell[y][v]
        PROVE  Refines
    <3>1. \A y \in Envs : pc'[y] = IF y = e THEN "exofork" ELSE pc[y]
      BY <2>1, PcFacts DEF Inv, IInv
    <3>2. Copies'
      BY <2>0, <2>1, <3>1, OthersCopy, NoCopy DEF Inv, ForkPCs
    <3>3. \A y \in Envs : Unseen(y)
      BY <2>0, <2>1, <3>1, VAFacts, UnseenCell DEF Hidden
    <3>4. Abs!Next
      BY <2>0, <3>1, <3>3, Enters DEF Inv, IInv, Hidden
    <3> QED BY <2>1, <3>2, <3>4 DEF Refines
  <2>2. CASE Goto(e, "exofork") /\ UNCHANGED <<page, perm, content, upcall, child, addr>>
    <3>1. cell' = cell /\ Zeroed'
      BY <2>2, SameCells DEF Inv
    <3> QED BY <2>1, <2>2, <3>1
  <2>3. CASE page_alloc(e, UXSTACK, "W") /\ Goto(e, "exofork") /\ UNCHANGED <<child, addr>>
    <3>1. /\ \A y \in Envs, v \in VAs : y # e \/ v # UXSTACK => cell'[y][v] = cell[y][v]
          /\ Zeroed'
      BY <2>3, Places, AllocCells DEF Inv
    <3> QED BY <2>1, <2>3, <3>1
  <2> QED BY <1>1, <2>0, <2>2, <2>3, PanicRefines DEF fork, Hidden
<1>2. CASE exofork(e)
  <2>1. pc[e] = "exofork" /\ UNCHANGED <<page, perm, content, upcall>>
    BY <1>2 DEF exofork, At
  <2>2. cell' = cell /\ Zeroed'
    BY <2>1, SameCells DEF Inv
  <2>3. CASE Goto(e, "user") /\ UNCHANGED <<child, addr>>
    <3>1. \A y \in Envs : pc'[y] = IF y = e THEN "user" ELSE pc[y]
      BY <2>3, PcFacts DEF Inv, IInv
    <3>2. Copies'
      BY <2>1, <2>2, <2>3, <3>1, OthersCopy, NoCopy DEF Inv, ForkPCs
    <3>3. \A y \in Envs : Unseen(y)
      BY <2>1, <2>2, <3>1 DEF Unseen, Hidden
    <3>4. Abs!Next
      BY <2>1, <3>1, <3>3, Leaves DEF Inv, IInv, Hidden
    <3> QED BY <2>2, <3>2, <3>4 DEF Refines
  <2>4. ASSUME NEW c \in Envs, pc[c] = "free",
               pc' = [pc EXCEPT ![e] = "duppage", ![c] = "embryo"],
               child' = [child EXCEPT ![e] = c], addr' = [addr EXCEPT ![e] = 1]
        PROVE  Refines
    <3>1. /\ pc'[e] = "duppage" /\ pc'[c] = "embryo" /\ child'[e] = c /\ addr'[e] = 1
          /\ \A y \in Envs \ {e, c} : pc'[y] = pc[y]
          /\ \A y \in Envs \ {e} : child'[y] = child[y] /\ addr'[y] = addr[y]
      BY <2>1, <2>4, Types DEF Inv, IInv
    <3>2. \A va \in Data : cell[c][va] = Null
      BY <2>4, Cells, VAFacts DEF Inv, IInv, FreeEmpty
    <3>3. \A va \in Data : ~ Copied(e, va)'
      BY <3>1, NDataAssumption DEF Copied, Data
    <3>4. CopyOf(e)'
      BY <2>2, <3>1, <3>2, <3>3 DEF CopyOf, StackPCs
    <3>5. ASSUME NEW y \in Envs \ {e, c} PROVE CopyOf(y)'
      <4>1. CopyOf(y) /\ pc'[y] = pc[y] /\ child'[y] = child[y] /\ addr'[y] = addr[y]
        BY <3>1 DEF Inv, Copies
      <4>2. \A va \in Data : Copied(y, va)' <=> Copied(y, va)
        BY <4>1 DEF Copied
      <4> QED BY <2>2, <4>1, <4>2 DEF CopyOf
    <3>6. CopyOf(c)'
      BY <3>1, NoCopy DEF ForkPCs
    <3>7. Copies'
      BY <3>4, <3>5, <3>6 DEF Copies
    <3>8. \A y \in Envs : Unseen(y) /\ (pc'[y] = "user" <=> pc[y] = "user")
      BY <2>1, <2>2, <2>4, <3>1 DEF Unseen, Hidden
    <3> QED BY <2>2, <3>7, <3>8, Stutters DEF Refines, Inv, IInv
  <2> QED BY <1>2, <2>3, <2>4 DEF exofork
<1> QED BY <1>1, <1>2

(* The cursor moves past va: what is copied from then on. *)
LEMMA CopiedNext ==
  ASSUME NEW e \in Envs, NEW va \in Data, addr[e] = va,
         \/ pc[e] = "duppage" /\ pc'[e] = "remap" /\ addr'[e] = va
         \/ pc[e] = "remap" /\ pc'[e] = "duppage" /\ addr'[e] = va + 1
         \/ pc[e] = "duppage" /\ pc'[e] = "duppage" /\ addr'[e] = va + 1
  PROVE  /\ Copied(e, va)'
         /\ \A w \in Data \ {va} : Copied(e, w)' <=> Copied(e, w)
         /\ pc[e] = "duppage" => ~ Copied(e, va)
BY NDataAssumption DEF Copied, Data

(* One page of the loop: the child's cell becomes the parent's. *)
LEMMA DupCopy ==
  ASSUME Inv, NEW e \in Envs, NEW va \in Data, addr[e] = va, UNCHANGED child,
         \/ pc[e] = "duppage" /\ pc'[e] = "remap" /\ addr'[e] = va
         \/ pc[e] = "remap" /\ pc'[e] = "duppage" /\ addr'[e] = va + 1
         \/ pc[e] = "duppage" /\ pc'[e] = "duppage" /\ addr'[e] = va + 1,
         cell'[child[e]][va] = cell'[e][va],
         \A y \in Envs, v \in VAs : y # child[e] \/ v # va => cell'[y][v] = cell[y][v]
  PROVE  CopyOf(e)'
<1>1. child[e] \in Envs /\ CopyOf(e) /\ pc[e] \in ForkPCs
  BY ChildFacts DEF Inv, ForkPCs, Copies
<1>2. \A w \in Data : cell[child[e]][w] = IF Copied(e, w) THEN cell[e][w] ELSE Null
  BY <1>1 DEF CopyOf
<1>3. ASSUME NEW w \in Data
      PROVE  cell'[child[e]][w] = IF Copied(e, w)' THEN cell'[e][w] ELSE Null
  <2>1. CASE w = va
    BY <2>1, CopiedNext
  <2>2. CASE w # va
    <3>1. Copied(e, w)' <=> Copied(e, w)
      BY <2>2, CopiedNext
    <3>2. cell'[child[e]][w] = cell[child[e]][w] /\ cell'[e][w] = cell[e][w]
      BY <1>1, <2>2, VAFacts
    <3> QED BY <3>1, <3>2, <1>2
  <2> QED BY <2>1, <2>2
<1>4. \A w \in Data : cell'[child'[e]][w] = IF Copied(e, w)' THEN cell'[e][w] ELSE Null
  BY <1>3
<1> QED BY <1>4 DEF CopyOf, StackPCs

(* The loop of fork(); a page is skipped only if the parent has none there. *)
LEMMA DupRefines ==
  ASSUME Inv, ~ DupMayFail, NEW e \in Envs, duppage(e) \/ remap(e)
  PROVE  Refines
<1>1. PICK va \in Data : va = addr[e] /\ va \in VAs /\ pc[e] \in {"duppage", "remap"}
  BY VAFacts DEF duppage, remap, At, Inv, Cursor
<1>2. PICK c \in Envs : c = child[e] /\ c # e /\ pc[c] \in Hidden
  BY <1>1, ChildFacts DEF Inv, ForkPCs, Hidden
<1>3. PICK p \in Pages \cup {Null} : p = page[e][va] /\ cell[e][va] = IF p = Null THEN Null ELSE content[p]
  BY <1>1, Types, Cells DEF Inv, IInv
<1>4. ASSUME NextPage(e)
      PROVE  addr'[e] = va + 1 /\ \A y \in Envs \ {e} : addr'[y] = addr[y]
  BY <1>1, <1>4, Types DEF Inv, IInv, NextPage
<1>5. pc[e] = "duppage" => cell[c][va] = Null
  <2>1. CopyOf(e) /\ (pc[e] = "duppage" => ~ Copied(e, va))
    BY <1>1, NDataAssumption DEF Inv, Copies, Copied, Data
  <2> QED BY <2>1, <1>1, <1>2 DEF CopyOf, ForkPCs
<1>6. ASSUME NEW l \in {"duppage", "remap"}, Goto(e, l), UNCHANGED child,
             \/ pc[e] = "duppage" /\ pc'[e] = "remap" /\ addr'[e] = va
             \/ pc[e] = "remap" /\ pc'[e] = "duppage" /\ addr'[e] = va + 1
             \/ pc[e] = "duppage" /\ pc'[e] = "duppage" /\ addr'[e] = va + 1,
             \A y \in Envs \ {e} : addr'[y] = addr[y],
             cell'[c][va] = cell'[e][va], Zeroed',
             \A y \in Envs, v \in VAs : y # c \/ v # va => cell'[y][v] = cell[y][v]
      PROVE  Refines
  <2>1. CopyOf(e)'
    BY <1>1, <1>2, <1>6, DupCopy
  <2> QED BY <1>1, <1>2, <1>6, <2>1, LibraryRefines DEF Hidden, ForkPCs
<1>7. CASE duppage(e)
  <2>1. pc[e] = "duppage" /\ UNCHANGED child
    BY <1>7 DEF duppage, At
  <2>2. ASSUME NEW prm \in {"COW", "RO"}, page_map(c, va, p, prm)
        PROVE  /\ cell'[c][va] = cell'[e][va] /\ Zeroed'
               /\ \A y \in Envs, v \in VAs : y # c \/ v # va => cell'[y][v] = cell[y][v]
    BY <1>1, <1>2, <1>3, <2>2, MapCells DEF Inv
  <2>3. CASE page_map(c, va, p, "COW") /\ Goto(e, "remap") /\ UNCHANGED addr
    <3>1. pc'[e] = "remap"
      BY <2>3, PcFacts DEF Inv, IInv
    <3> QED BY <1>1, <2>1, <2>2, <2>3, <3>1, <1>6
  <2>4. CASE page_map(c, va, p, "RO") /\ NextPage(e) /\ UNCHANGED pc
    <3>1. Goto(e, "duppage")
      BY <2>1, <2>4, Types DEF Goto, Inv, IInv
    <3> QED BY <1>1, <1>4, <2>1, <2>2, <2>4, <3>1, <1>6
  <2>5. CASE p = Null /\ NextPage(e) /\ UNCHANGED <<pc, page, perm, content>>
    <3>1. Goto(e, "duppage")
      BY <2>1, <2>5, Types DEF Goto, Inv, IInv
    <3>2. cell' = cell /\ Zeroed'
      BY <2>5, SameCells DEF Inv
    <3>3. cell'[c][va] = cell'[e][va]
      BY <1>3, <1>5, <2>1, <2>5, <3>2
    <3> QED BY <1>1, <1>4, <2>1, <2>5, <3>1, <3>2, <3>3, <1>6
  <2> QED BY <1>1, <1>2, <1>3, <1>7, <2>3, <2>4, <2>5 DEF duppage
<1>8. CASE remap(e)
  <2>1. /\ pc[e] = "remap" /\ UNCHANGED child /\ page_map(e, va, p, "COW")
        /\ NextPage(e) /\ Goto(e, "duppage")
    BY <1>1, <1>3, <1>8 DEF remap, At
  <2>2. /\ \A y \in Envs, v \in VAs : cell'[y][v] = cell[y][v]
        /\ Zeroed'
    BY <1>1, <1>3, <2>1, MapCells DEF Inv
  <2>3. cell[c][va] = cell[e][va]
    BY <1>1, <1>2, <2>1 DEF Inv, Copies, CopyOf, Copied, ForkPCs
  <2>4. pc'[e] = "duppage"
    BY <2>1, PcFacts DEF Inv, IInv
  <2> QED BY <1>1, <1>4, <2>1, <2>2, <2>3, <2>4, <1>6
<1> QED BY <1>7, <1>8

(* After the loop every page is copied. *)
LEMMA AllCopied ==
  ASSUME Inv, NEW e \in Envs, pc[e] \in ForkPCs, addr[e] \notin Data
  PROVE  \A va \in Data : Copied(e, va) /\ cell[child[e]][va] = cell[e][va]
<1>1. addr[e] = NData + 1
  BY VAFacts DEF Inv, IInv, Families
<1>2. \A va \in Data : Copied(e, va)
  BY <1>1, NDataAssumption DEF Copied, Data
<1> QED BY <1>2 DEF Inv, Copies, CopyOf

(* A step after the loop, at another address than those of the loop. *)
LEMMA StackCopy ==
  ASSUME Inv, NEW e \in Envs, pc[e] \in ForkPCs, addr[e] \notin Data,
         UNCHANGED <<child, addr>>, pc'[e] # "pf_map",
         \A y \in Envs, v \in Data : cell'[y][v] = cell[y][v],
         pc'[e] = "st_map" => cell'[e][PFTEMP] = cell'[e][STACK],
         pc'[e] \in StackPCs => cell'[child[e]][STACK] = cell'[e][STACK]
  PROVE  CopyOf(e)'
<1>1. child[e] \in Envs
  BY ChildFacts DEF Inv
<1>2. \A va \in Data : cell'[child[e]][va] = cell'[e][va]
  BY <1>1, AllCopied
<1>3. addr[e] = NData + 1
  BY VAFacts DEF Inv, IInv, Families
<1>4. \A va \in Data : Copied(e, va)'
  BY <1>3, NDataAssumption DEF Copied, Data
<1> QED BY <1>2, <1>4 DEF CopyOf

(* The rest of fork(): the child starts with a copy of everything. *)
LEMMA StackRefines ==
  ASSUME Inv, NEW e \in Envs,
         \/ stack_alloc(e) \/ stack_copy(e) \/ stack_map(e) \/ stack_unmap(e)
         \/ uxstack_alloc(e) \/ start(e)
  PROVE  Refines
<1>1. /\ pc[e] \in ForkPCs /\ pc[e] \notin Hidden \cup {"user"} /\ pc[e] # "remap"
      /\ pc[e] # "duppage" => addr[e] = NData + 1
  BY DEF Inv, Cursor, ForkPCs, Hidden, At, stack_alloc, stack_copy, stack_map, stack_unmap,
         uxstack_alloc, start
<1>2. addr[e] \notin Data
  <2>1. pc[e] = "duppage" => addr[e] \notin Data
    BY DEF At, stack_alloc, stack_copy, stack_map, stack_unmap, uxstack_alloc, start
  <2>2. NData + 1 \notin Data
    BY NDataAssumption DEF Data
  <2> QED BY <1>1, <2>1, <2>2
<1>3. PICK c \in Envs : c = child[e] /\ c # e /\ pc[c] = "embryo" /\ pc[c] \in Hidden
  BY <1>1, ChildFacts DEF Inv, Hidden
<1>4. Data \subseteq VAs /\ PFTEMP \notin Data /\ UXSTACK \notin Data /\ STACK \notin Data
        /\ PFTEMP \notin UserVAs /\ UXSTACK \notin UserVAs
  BY VAFacts
<1>5. CASE stack_alloc(e)
  <2>1. CASE page_alloc(e, PFTEMP, "W") /\ Goto(e, "st_copy") /\ UNCHANGED <<upcall, child, addr>>
    <3>1. /\ \A y \in Envs, v \in VAs : y # e \/ v # PFTEMP => cell'[y][v] = cell[y][v]
          /\ Zeroed'
      BY <2>1, Places, AllocCells DEF Inv
    <3>2. pc'[e] = "st_copy"
      BY <2>1, PcFacts DEF Inv, IInv
    <3>3. CopyOf(e)'
      BY <1>1, <1>2, <1>4, <2>1, <3>1, <3>2, StackCopy DEF StackPCs
    <3> QED BY <1>1, <1>4, <2>1, <3>1, <3>3, Places, LibraryRefines DEF Hidden
  <2> QED BY <1>1, <1>5, <2>1, PanicRefines DEF stack_alloc
<1>6. CASE stack_copy(e)
  <2>1. /\ pc[e] = "st_copy" /\ UNCHANGED <<page, perm, upcall, child, addr>>
        /\ Goto(e, "st_map")
        /\ content' = [content EXCEPT ![page[e][PFTEMP]] = content[page[e][STACK]]]
    BY <1>6 DEF stack_copy, At
  <2>2. page[e][STACK] # Null /\ W(e, PFTEMP)
    BY <2>1 DEF Inv, Present, IInv, Temp
  <2>3. PICK w \in Values : w = content[page[e][STACK]] /\ cell[e][STACK] = w
    BY <2>2, Types, Cells, Places DEF Inv, IInv
  <2>4. /\ \A y \in Envs, v \in VAs : y # e \/ v # PFTEMP => cell'[y][v] = cell[y][v]
        /\ cell'[e][PFTEMP] = w /\ Zeroed'
    BY <2>1, <2>2, <2>3, Places, StoreCells DEF Inv
  <2>5. pc'[e] = "st_map"
    BY <2>1, PcFacts DEF Inv, IInv
  <2>6. cell'[e][PFTEMP] = cell'[e][STACK]
    BY <2>3, <2>4, Places
  <2>7. CopyOf(e)'
    BY <1>1, <1>2, <1>4, <2>1, <2>4, <2>5, <2>6, StackCopy DEF StackPCs
  <2> QED BY <1>1, <1>4, <2>1, <2>4, <2>7, Places, LibraryRefines DEF Hidden
<1>7. CASE stack_map(e)
  <2>1. CASE /\ page_map(child[e], STACK, page[e][PFTEMP], "W")
             /\ Goto(e, "st_unmap") /\ UNCHANGED <<upcall, child, addr>>
    <3>1. pc[e] = "st_map"
      BY <1>7 DEF stack_map, At
    <3>2. PICK p \in Pages : p = page[e][PFTEMP] /\ p # Null
      BY <3>1, Types, Places DEF Inv, IInv, Temp, W
    <3>3. cell[e][PFTEMP] = content[p] /\ cell[e][PFTEMP] = cell[e][STACK]
      BY <3>1, <3>2, Cells, Places DEF Inv, IInv, Copies, CopyOf
    <3>4. /\ \A y \in Envs, v \in VAs : y # c \/ v # STACK => cell'[y][v] = cell[y][v]
          /\ cell'[c][STACK] = content[p] /\ Zeroed'
      BY <1>3, <2>1, <3>2, Places, MapCells DEF Inv
    <3>5. pc'[e] = "st_unmap"
      BY <2>1, PcFacts DEF Inv, IInv
    <3>6. cell'[child[e]][STACK] = cell'[e][STACK]
      BY <1>3, <3>3, <3>4, Places
    <3>7. CopyOf(e)'
      BY <1>1, <1>2, <1>4, <2>1, <3>4, <3>5, <3>6, StackCopy
    <3> QED BY <1>1, <1>3, <2>1, <3>4, <3>7, Places, LibraryRefines DEF Hidden
  <2> QED BY <1>1, <1>7, <2>1, PanicRefines DEF stack_map
<1>8. CASE stack_unmap(e)
  <2>1. /\ pc[e] = "st_unmap" /\ UNCHANGED <<upcall, child, addr>>
        /\ page_map(e, PFTEMP, Null, "RO") /\ Goto(e, "uxstack")
    BY <1>8 DEF stack_unmap, At
  <2>2. /\ \A y \in Envs, v \in VAs : y # e \/ v # PFTEMP => cell'[y][v] = cell[y][v]
        /\ Zeroed'
    BY <2>1, Places, MapCells DEF Inv
  <2>3. pc'[e] = "uxstack"
    BY <2>1, PcFacts DEF Inv, IInv
  <2>4. cell[c][STACK] = cell[e][STACK]
    BY <1>3, <2>1 DEF Inv, Copies, CopyOf, StackPCs
  <2>5. CopyOf(e)'
    BY <1>1, <1>2, <1>3, <1>4, <2>1, <2>2, <2>3, <2>4, Places, StackCopy
  <2> QED BY <1>1, <1>4, <2>1, <2>2, <2>5, Places, LibraryRefines DEF Hidden
<1>9. CASE uxstack_alloc(e)
  <2>1. CASE page_alloc(child[e], UXSTACK, "W") /\ Goto(e, "start") /\ UNCHANGED <<upcall, child, addr>>
    <3>1. /\ \A y \in Envs, v \in VAs : y # c \/ v # UXSTACK => cell'[y][v] = cell[y][v]
          /\ Zeroed'
      BY <1>3, <2>1, Places, AllocCells DEF Inv
    <3>2. pc'[e] = "start" /\ pc[e] = "uxstack"
      BY <1>9, <2>1, PcFacts DEF Inv, IInv, uxstack_alloc, At
    <3>3. cell[c][STACK] = cell[e][STACK]
      BY <1>3, <3>2 DEF Inv, Copies, CopyOf, StackPCs
    <3>4. CopyOf(e)'
      BY <1>1, <1>2, <1>3, <1>4, <2>1, <3>1, <3>2, <3>3, Places, StackCopy
    <3> QED BY <1>1, <1>3, <1>4, <2>1, <3>1, <3>4, Places, LibraryRefines DEF Hidden
  <2> QED BY <1>1, <1>9, <2>1, PanicRefines DEF uxstack_alloc
<1>10. CASE start(e)
  <2>1. /\ pc[e] = "start" /\ UNCHANGED <<page, content>>
        /\ pc' = [pc EXCEPT ![e] = "user", ![c] = "user"]
        /\ child' = [child EXCEPT ![e] = Null] /\ addr' = [addr EXCEPT ![e] = STACK]
    BY <1>3, <1>10 DEF start, At
  <2>2. /\ pc'[e] = "user" /\ pc'[c] = "user"
        /\ \A y \in Envs \ {e, c} : pc'[y] = pc[y]
        /\ \A y \in Envs \ {e} : child'[y] = child[y] /\ addr'[y] = addr[y]
    BY <1>3, <2>1, Types DEF Inv, IInv
  <2>3. cell' = cell /\ Zeroed'
    BY <2>1, SameCells DEF Inv
  <2>4. cell[c][STACK] = cell[e][STACK] /\ \A va \in Data : cell[c][va] = cell[e][va]
    BY <1>1, <1>2, <1>3, <2>1, AllCopied DEF Inv, Copies, CopyOf, StackPCs
  <2>5. \A va \in UserVAs : cell[c][va] = cell[e][va]
    BY <2>4 DEF UserVAs
  <2>6. Abs!Next
    BY <1>1, <1>3, <2>2, <2>3, <2>5, Forks DEF Inv, IInv
  <2>7. ASSUME NEW y \in Envs \ {e, c} PROVE CopyOf(y)'
    <3>1. CopyOf(y) /\ pc'[y] = pc[y] /\ child'[y] = child[y] /\ addr'[y] = addr[y]
      BY <2>2 DEF Inv, Copies
    <3>2. \A va \in Data : Copied(y, va)' <=> Copied(y, va)
      BY <3>1 DEF Copied
    <3> QED BY <2>3, <3>1, <3>2 DEF CopyOf
  <2>8. CopyOf(e)' /\ CopyOf(c)'
    BY <2>2, NoCopy DEF ForkPCs
  <2>9. Copies'
    BY <2>7, <2>8 DEF Copies
  <2> QED BY <2>3, <2>6, <2>9 DEF Refines
<1> QED BY <1>5, <1>6, <1>7, <1>8, <1>9, <1>10

----------------------------------------------------------------------------
(* The theorem *)

(* In the first state nothing is copied and every page holds zeros. *)
LEMMA InitRefines == Init => Inv /\ Abs!Init
<1> SUFFICES ASSUME Init PROVE Inv /\ Abs!Init
  OBVIOUS
<1>1. IInv /\ Cursor /\ Present
  BY InitInv
<1>2. \A e \in Envs : pc[e] = IF e = Root THEN "user" ELSE "free"
  BY DEF Init
<1>3. Zeroed
  BY DEF Zeroed, Init
<1>4. Copies
  BY <1>2 DEF Copies, CopyOf, ForkPCs, StackPCs
<1>5. PICK f \in [UserVAs -> Pages] :
        page = [e \in Envs |-> IF e = Root
                               THEN [va \in VAs |-> IF va \in UserVAs THEN f[va] ELSE Null]
                               ELSE Unmapped]
  BY DEF Init
<1>6. \A va \in UserVAs : page[Root][va] \in Pages /\ content[page[Root][va]] = Zero
  BY <1>5, EnvsAssumption, VAFacts DEF Init
<1>7. View(Root) = [va \in UserVAs |-> Zero]
  BY <1>6, PagesAssumption DEF View
<1>8. /\ memBar = [e \in Envs |-> IF e = Root THEN [va \in UserVAs |-> Zero] ELSE Null]
      /\ libBar = {}
  BY <1>2, <1>7 DEF memBar, libBar, Hidden
<1>9. Abs!Init
  BY <1>8 DEF Abs!Init, memBar, libBar, Hidden
<1> QED BY <1>1, <1>3, <1>4, <1>9 DEF Inv

(* Every step of Next. *)
LEMMA NextRefines ==
  ASSUME Inv, ~ DupMayFail, Next
  PROVE  Inv' /\ (Abs!Next \/ UNCHANGED absVars)
<1>1. PICK e \in Envs :
    \/ \E va \in UserVAs, v \in Values : write(e, va, v)
    \/ \E va \in UserVAs : page_fault_handler(e, va)
    \/ \E va \in Data : sys_page_alloc(e, va) \/ sys_page_unmap(e, va)
    \/ exit(e)
    \/ pgfault_alloc(e) \/ pgfault_copy(e) \/ pgfault_map(e) \/ pgfault_unmap(e)
    \/ fork(e) \/ exofork(e) \/ duppage(e) \/ remap(e)
    \/ stack_alloc(e) \/ stack_copy(e) \/ stack_map(e) \/ stack_unmap(e)
    \/ uxstack_alloc(e) \/ start(e)
  BY DEF Next
<1>2. Refines
  BY <1>1, ProgramRefines, FaultRefines, ForkRefines, DupRefines, StackRefines
<1>3. IInv' /\ Cursor' /\ Present'
  BY NextInv DEF Inv
<1> QED BY <1>2, <1>3 DEF Refines, Inv

(* Copy-on-write fork() is as good as a copy of the parent's memory made at the
   moment at which the child starts, whatever the environments do meanwhile:
   CowFork implements ForkAbs if duppage() never fails.                    *)
THEOREM ForkCorrect ==
  ASSUME ~ DupMayFail
  PROVE  Spec => ForkCopiesMemory
<1>1. ASSUME Inv, [Next]_vars PROVE Inv' /\ (Abs!Next \/ UNCHANGED absVars)
  <2>1. CASE UNCHANGED vars
    <3>1. UNCHANGED <<pc, page, perm, content, upcall, child, addr>>
      BY <2>1 DEF vars
    <3>2. IInv' /\ Cursor' /\ Present'
      BY <1>1, <3>1 DEF Inv, IInv, TypeOK, Families, FreeEmpty, Sharing, Between, Temp,
                        Handlers, W, Cursor, Present
    <3>3. cell' = cell /\ Zeroed'
      BY <1>1, <3>1, SameCells DEF Inv
    <3>4. Copies'
      BY <1>1, <3>1, <3>3 DEF Inv, Copies, CopyOf, Copied
    <3>5. UNCHANGED absVars
      BY <3>1 DEF absVars, memBar, libBar, View
    <3> QED BY <3>2, <3>3, <3>4, <3>5 DEF Inv
  <2>2. CASE Next
    BY <1>1, <2>2, NextRefines
  <2> QED BY <1>1, <2>1, <2>2
<1>2. ASSUME Inv, [Next]_vars
      PROVE  [Abs!Next]_<<[e \in Envs |-> IF pc[e] \in {"free", "embryo"} THEN Null ELSE View(e)],
                          {e \in Envs : pc[e] \notin {"free", "embryo", "user"}}>>
  BY <1>1, <1>2 DEF absVars, memBar, libBar, Hidden
<1>3. Inv /\ [Next]_vars => Inv'
  BY <1>1
<1> QED BY <1>2, <1>3, InitRefines, PTL DEF Spec, ForkCopiesMemory, Abs!Spec
=============================================================================
