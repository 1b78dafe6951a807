----------------------------- MODULE MCCowFork -----------------------------
(* Instances of CowFork: states that differ in the names of pages or of the
   environments other than the first count as one.                         *)
EXTENDS CowFork, TLC

(* A state up to the names of pages: of each page, one of the places that map
   it and what it holds.                                                  *)
Place(e, va) ==
  IF page[e][va] = Null THEN Null
  ELSE LET p == page[e][va]
       IN <<CHOOSE x \in Envs \X VAs : page[x[1]][x[2]] = p, content[p]>>

UpToPageNames ==
  <<pc, [e \in Envs |-> [va \in VAs |-> Place(e, va)]], perm, upcall, child, addr>>

(* All environments but the first start out alike. *)
Symmetry == Permutations(Envs \ {Root})
=============================================================================
