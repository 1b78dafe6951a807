------------------------------ MODULE MCBoot --------------------------------
(* Boot for TLC: machines that differ from an ordinary one in their image, their
   memory or their processors.                                             *)
EXTENDS Boot

UpTo(S, max) == UNION {[1 .. n -> S] : n \in 0 .. max}

Proc(id, en, boot) == [kind |-> "proc", apicid |-> id, enabled |-> en, boot |-> boot]
Other(kind) == [kind |-> kind, apicid |-> 0, enabled |-> FALSE, boot |-> FALSE]
Two == <<Proc(0, TRUE, TRUE), Proc(1, TRUE, FALSE)>>
PointerTo(good, type, valid, table) ==
  [good |-> good, type |-> type, valid |-> valid, table |-> table]

Ordinary ==
  [elf |-> TRUE, vector0 |-> TRUE, segs |-> <<>>,
   mmap |-> <<[base |-> 0, len |-> 22, type |-> 1], [base |-> 32, len |-> 80, type |-> 1]>>,
   nvram |-> [base |-> 24, ext |-> 80, full |-> FALSE, above16 |-> 64],
   mp |-> [ebda |-> <<>>, last |-> <<>>, rom |-> <<PointerTo(TRUE, 0, TRUE, Two)>>, lapic |-> 400]]

Segments == [pa : {33, 36, 38}, off : {1, 4, 5, 6}, memsz : {0, 1, 5}]
(* No base memory: start-up stops once the kernel is loaded. *)
Images == {[Ordinary EXCEPT !.segs = s, !.mmap = <<>>, !.nvram.base = 0] : s \in UpTo(Segments, 2)}
          \cup {[Ordinary EXCEPT !.elf = FALSE]}

Regions == [base : {0}, len : {8, 22, 24}, type : {1}]
           \cup [base : {8}, len : {14}, type : {1, 3}] \cup [base : {20}, len : {12}, type : {2, 7}]
           \cup [base : {32}, len : {52, 80, 120}, type : {1}]
           \cup [base : {48}, len : {64}, type : {1, 3, 4}] \cup {[base |-> 112, len |-> 8, type |-> 1]}
Memories == {[Ordinary EXCEPT !.mmap = m] : m \in UpTo(Regions, 3)}
            \cup {[Ordinary EXCEPT !.mmap = <<>>, !.nvram.base = b, !.nvram.ext = x,
                                   !.nvram.full = f] :
                  b \in {0, 12, 24}, x \in {0, 20, 52, 80}, f \in BOOLEAN}
            \cup {[Ordinary EXCEPT !.vector0 = FALSE]}

Entries == {Proc(i, TRUE, b) : i \in 0 .. 2, b \in BOOLEAN} \cup {Proc(0, FALSE, FALSE)}
           \cup {Other("other"), Other("unknown")}
Table(t) == [Ordinary EXCEPT !.mp.rom[1].table = t]
Found == {PointerTo(g, t, v, Two) : g \in BOOLEAN, t \in {0, 1}, v \in BOOLEAN}
Processors == {Table(t) : t \in UpTo(Entries, 3)}
              \cup {[Ordinary EXCEPT !.mp.ebda = a, !.mp.last = b] :
                    a \in UpTo(Found, 1), b \in UpTo(Found, 1)}

MCMachines == Images \cup Memories \cup Processors
=============================================================================
