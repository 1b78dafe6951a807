------------------------------ MODULE MCPmap ------------------------------
(* Instances of Pmap.  Environments are model values, pages are numbers; states
   that differ in the names of either count as one.                        *)
EXTENDS Pmap, TLC

(* Two pages of one table. *)
OneTable == {<<0, 0, 0, 0>>, <<0, 0, 0, 1>>}

(* A page in the first directory and one in the top directory. *)
TwoDirs == {<<0, 0, 0, 0>>, <<0, 1, 0, 0>>}

(* The last entry of a table, where the exception stack is. *)
LastPage == {<<0, 0, 0, 0>>, <<0, 0, 0, 2>>}

(* Two pages of one table, and one in the top directory. *)
ThreePages == {<<0, 0, 0, 0>>, <<0, 0, 0, 1>>, <<0, 1, 0, 0>>}

OnePage == {<<0, 0, 0, 0>>}
NoPages == {}

(* Which of the free pages is taken makes no difference but for its name. *)
Least(s, S) == {p \in S : \A q \in S : p <= q}

(* A state up to the names of pages: of each page in use, the entries that point to
   it and its count; of the others, how many are free and how many lost with which
   count.  No action reads retval.  (TLC evaluates mem as a whole when it compares
   it, and otherwise as it goes.)                                          *)
Used == {mem.entry[s] : s \in Slots} \ {Null}
Lost == [n \in 0 .. RefWrap - 1 |-> Cardinality({p \in Pages \ (Used \cup mem.free) : mem.ref[p] = n})]
UpToPageNames ==
  <<mem = mem, {<<{s \in Slots : mem.entry[s] = p}, mem.ref[p]>> : p \in Used},
    Cardinality(mem.free), Lost, mem.ref[Page0], Page0 \in mem.free, writable, loading, toload, panicked>>

Interchangeable == Permutations(Envs)
===========================================================================
