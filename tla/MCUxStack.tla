----------------------------- MODULE MCUxStack -----------------------------
(* UxStack for TLC: an exception stack with room for two faults. *)
EXTENDS UxStack

(* Words below a stack pointer are written before they are read, apart from the
   one that store writes for return: states that differ in the others only are
   the same.                                                               *)
UserRsp == IF ctx = <<>> THEN cpu.rsp ELSE ctx[1].cpu.rsp
UpToDeadWords ==
  <<cpu, readonly, uxpage, upcall,
    {<<a, mem[a]>> : a \in {b \in Addrs : IF b \in UserStack THEN b >= UserRsp - 1
                                          ELSE cpu.rsp >= UXBASE /\ b >= cpu.rsp}},
    [i \in DOMAIN ctx |-> <<ctx[i].cpu, {<<a, ctx[i].mem[a]>> : a \in Live(ctx[i])}>>]>>
=============================================================================
