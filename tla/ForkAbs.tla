------------------------------ MODULE ForkAbs ------------------------------
(***************************************************************************)
(* What fork() promises (lib/fork.c): a child starts with the memory its   *)
(* parent has at that moment, and from then on neither sees what the other *)
(* writes.  The memory is copied at once; there are no pages.              *)
(***************************************************************************)
CONSTANTS Envs, Root, VAs, Values, Zero, Null

VARIABLES
  mem,       \* the memory of each environment; Null: it does not run
  lib        \* the environments inside fork() or pgfault()

Init ==
  /\ mem = [e \in Envs |-> IF e = Root THEN [va \in VAs |-> Zero] ELSE Null]
  /\ lib = {}

Running(e) == mem[e] # Null
InProgram(e) == Running(e) /\ e \notin lib

(* A store, or another page (of zeros) or none at an address. *)
Write(e, va, v) ==
  /\ InProgram(e)
  /\ mem' = [mem EXCEPT ![e] = [@ EXCEPT ![va] = v]]
  /\ UNCHANGED lib

Enter(e) ==
  /\ InProgram(e)
  /\ lib' = lib \cup {e}
  /\ UNCHANGED mem

Leave(e) ==
  /\ e \in lib
  /\ lib' = lib \ {e}
  /\ UNCHANGED mem

Fork(e, c) ==
  /\ e \in lib /\ ~ Running(c)
  /\ mem' = [mem EXCEPT ![c] = mem[e]]
  /\ lib' = lib \ {e}

Exit(e) ==
  /\ InProgram(e)
  /\ mem' = [mem EXCEPT ![e] = Null]
  /\ UNCHANGED lib

Next ==
  \E e \in Envs :
    \/ \E va \in VAs, v \in Values \cup {Null} : Write(e, va, v)
    \/ Enter(e) \/ Leave(e) \/ Exit(e)
    \/ \E c \in Envs : Fork(e, c)

Spec == Init /\ [][Next]_<<mem, lib>>
=============================================================================
