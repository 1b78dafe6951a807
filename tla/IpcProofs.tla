----------------------------- MODULE IpcProofs ------------------------------
(***************************************************************************)
(* Proofs about Ipc for any number of environments, addresses, pages and   *)
(* messages: the kernel's and the library's halves implement IpcAbs, and    *)
(* write access to a page is never made out of read access.                *)
(***************************************************************************)
EXTENDS Ipc, TLAPS

Result == [from : Envs \cup {Null}, value : Nat \cup {Null}, perm : Perms]

TypeOK ==
  /\ pc \in [Envs -> PCs]
  /\ msg \in [Envs -> Message \cup {Null}]
  /\ ret \in [Envs -> Result]
  /\ env_ipc_recving \in [Envs -> BOOLEAN]
  /\ env_ipc_dstva \in [Envs -> VAs \cup {NoPage}]
  /\ env_ipc_from \in [Envs -> Envs \cup {Null}]
  /\ env_ipc_value \in [Envs -> Nat \cup {Null}]
  /\ env_ipc_perm \in [Envs -> Perms]
  /\ page \in [Envs -> [VAs -> Pages \cup {Null}]]
  /\ writable \in [Envs -> SUBSET VAs]
  /\ sends \in [Envs -> Nat]

(* The flag of the kernel says where the library is, a sender has a message, and
   what ipc_recv() has loaded so far is still what the kernel has stored.  *)
Local(e) ==
  /\ env_ipc_recving[e] <=> pc[e] = "blocked"
  /\ pc[e] \in {"try_send", "yield"} => msg[e] \in Message
  /\ pc[e] \in {"perm", "value"} => ret[e].from = env_ipc_from[e]
  /\ pc[e] = "value" => ret[e].perm = env_ipc_perm[e]

IInv == TypeOK /\ \A e \in Envs : Local(e)

(* The invariant holds initially. *)
LEMMA InitIInv == Init => IInv
BY PagesAssumption, EnvsAssumption
DEF Init, IInv, TypeOK, Local, PCs, Perms, Result, NoResult

(* A library step that loads one field keeps the invariant. *)
LEMMA LoadIInv ==
  ASSUME IInv, NEW e \in Envs,
         ipc_recv_from(e) \/ ipc_recv_perm(e) \/ ipc_recv_value(e)
  PROVE  IInv'
<1>1. UNCHANGED <<msg, fields, memory, sends>>
  BY DEF ipc_recv_from, ipc_recv_perm, ipc_recv_value
<1>2. pc' \in [Envs -> PCs] /\ ret' \in [Envs -> Result]
  <2>1. CASE ipc_recv_from(e)
    <3>1. [ret[e] EXCEPT !.from = env_ipc_from[e]] \in Result
      BY ZenonT(60) DEF IInv, TypeOK, Result
    <3> QED BY <2>1, <3>1 DEF IInv, TypeOK, ipc_recv_from, Goto, PCs
  <2>2. CASE ipc_recv_perm(e)
    <3>1. [ret[e] EXCEPT !.perm = env_ipc_perm[e]] \in Result
      BY ZenonT(60) DEF IInv, TypeOK, Result
    <3> QED BY <2>2, <3>1 DEF IInv, TypeOK, ipc_recv_perm, Goto, PCs
  <2>3. CASE ipc_recv_value(e)
    <3>1. [ret[e] EXCEPT !.value = env_ipc_value[e]] \in Result
      BY ZenonT(60) DEF IInv, TypeOK, Result
    <3> QED BY <2>3, <3>1 DEF IInv, TypeOK, ipc_recv_value, Goto, PCs
  <2> QED BY <2>1, <2>2, <2>3
<1>3. TypeOK'
  BY <1>1, <1>2 DEF IInv, TypeOK, fields, memory
<1>4. ASSUME NEW x \in Envs PROVE Local(x)'
  <2>1. CASE x # e
    BY <2>1, <1>1 DEF IInv, TypeOK, Local, ipc_recv_from, ipc_recv_perm, ipc_recv_value,
      Goto, fields
  <2>2. CASE x = e
    <3>1. CASE ipc_recv_from(e)
      BY <3>1, <2>2 DEF IInv, TypeOK, Local, ipc_recv_from, At, Goto, fields, Result
    <3>2. CASE ipc_recv_perm(e)
      BY <3>2, <2>2 DEF IInv, TypeOK, Local, ipc_recv_perm, At, Goto, fields, Result
    <3>3. CASE ipc_recv_value(e)
      BY <3>3, <2>2 DEF IInv, TypeOK, Local, ipc_recv_value, At, Goto, fields, Result
    <3> QED BY <3>1, <3>2, <3>3
  <2> QED BY <2>1, <2>2
<1> QED BY <1>3, <1>4 DEF IInv

(* Steps that change only where the caller is, and its message or memory. *)
LEMMA SmallIInv ==
  ASSUME IInv, NEW e \in Envs,
         \/ try_send_busy(e) \/ yield(e) \/ try_send_error(e) \/ exit(e)
         \/ \E va \in VAs, w \in BOOLEAN : sys_page_alloc(e, va, w)
         \/ \E to \in Envs, pg \in VAs \cup {NoPage}, perm \in Perms : ipc_send(e, to, pg, perm)
         \/ \E pg \in VAs \cup {NoPage} : sys_ipc_recv(e, pg)
  PROVE  IInv'
<1>1. CASE try_send_busy(e) \/ yield(e)
  BY ZenonT(60), <1>1 DEF IInv, TypeOK, Local, try_send_busy, yield, At, Goto, fields, memory, PCs
<1>2. CASE try_send_error(e)
  BY <1>2 DEF IInv, TypeOK, Local, try_send_error, At, Goto, fields, memory, PCs
<1>3. CASE exit(e)
  <2>1. page' \in [Envs -> [VAs -> Pages \cup {Null}]] /\ writable' \in [Envs -> SUBSET VAs]
    BY <1>3 DEF IInv, TypeOK, exit
  <2> QED BY <1>3, <2>1 DEF IInv, TypeOK, Local, exit, At, Goto, fields, PCs
<1>4. ASSUME NEW va \in VAs, NEW w \in BOOLEAN, sys_page_alloc(e, va, w) PROVE IInv'
  <2>1. page' \in [Envs -> [VAs -> Pages \cup {Null}]]
    BY <1>4 DEF IInv, TypeOK, sys_page_alloc
  <2>2. writable' \in [Envs -> SUBSET VAs]
    BY <1>4 DEF IInv, TypeOK, sys_page_alloc
  <2> QED BY <1>4, <2>1, <2>2 DEF IInv, TypeOK, Local, sys_page_alloc, fields
<1>5. ASSUME NEW to \in Envs, NEW pg \in VAs \cup {NoPage}, NEW perm \in Perms,
             ipc_send(e, to, pg, perm)
      PROVE  IInv'
  <2>1. [to |-> to, value |-> sends[e], pg |-> pg, perm |-> perm] \in Message
    BY DEF Message, IInv, TypeOK
  <2>2. msg' \in [Envs -> Message \cup {Null}] /\ msg'[e] \in Message
          /\ \A x \in Envs \ {e} : msg'[x] = msg[x]
    BY <2>1, <1>5 DEF ipc_send, IInv, TypeOK
  <2>3. sends' \in [Envs -> Nat] /\ pc' \in [Envs -> PCs]
    BY <1>5 DEF ipc_send, IInv, TypeOK, Goto, PCs
  <2>4. TypeOK'
    BY <1>5, <2>2, <2>3 DEF IInv, TypeOK, ipc_send, fields, memory
  <2> QED BY <1>5, <2>2, <2>4 DEF IInv, TypeOK, Local, ipc_send, At, Goto, fields
<1>6. ASSUME NEW pg \in VAs \cup {NoPage}, sys_ipc_recv(e, pg) PROVE IInv'
  <2>1. NoResult \in Result
    BY DEF NoResult, Result, Perms
  <2>2. TypeOK'
    BY <1>6, <2>1 DEF IInv, TypeOK, sys_ipc_recv, Goto, memory, PCs
  <2> QED BY <1>6, <2>2 DEF IInv, TypeOK, Local, sys_ipc_recv, At, Goto
<1> QED BY <1>1, <1>2, <1>3, <1>4, <1>5, <1>6

(* Who a message meets: a receiver that is blocked, and not the sender. *)
LEMMA MeetFacts ==
  ASSUME IInv, NEW e \in Envs, try_send_ok(e)
  PROVE  /\ msg[e] \in Message /\ msg[e].to \in Envs /\ msg[e].to # e
         /\ pc[e] = "try_send" /\ pc[msg[e].to] = "blocked"
BY DEF IInv, Local, TypeOK, try_send_ok, At, NotRecv, Message

(* The transfer of a page keeps the types of memory. *)
LEMMA TransferTypes ==
  ASSUME IInv, NEW e \in Envs, try_send_ok(e)
  PROVE  /\ page' \in [Envs -> [VAs -> Pages \cup {Null}]]
         /\ writable' \in [Envs -> SUBSET VAs]
         /\ env_ipc_perm' \in [Envs -> Perms]
         /\ \A x \in Envs \ {msg[e].to} : env_ipc_perm'[x] = env_ipc_perm[x]
<1> DEFINE m == msg[e]
           va == env_ipc_dstva[m.to]
<1>1. m \in Message /\ m.to \in Envs /\ Transfer(e, m)
  BY MeetFacts DEF try_send_ok
<1>2. m.pg \in VAs \cup {NoPage} /\ m.perm \in Perms /\ va \in VAs \cup {NoPage}
  BY <1>1 DEF Message, IInv, TypeOK
<1>3. CASE SendsPage(m) /\ va # NoPage
  <2>1. m.pg \in VAs /\ va \in VAs
    BY <1>2, <1>3 DEF SendsPage
  <2>2. /\ page' = [page EXCEPT ![m.to][va] = page[e][m.pg]]
        /\ writable' = [writable EXCEPT ![m.to] =
                         IF m.perm = "W" THEN @ \cup {va} ELSE @ \ {va}]
        /\ env_ipc_perm' = [env_ipc_perm EXCEPT ![m.to] = m.perm]
    BY <1>1, <1>3 DEF Transfer
  <2>3. page' \in [Envs -> [VAs -> Pages \cup {Null}]]
    BY <2>1, <2>2, <1>1 DEF IInv, TypeOK
  <2>4. writable' \in [Envs -> SUBSET VAs]
    BY <2>1, <2>2, <1>1 DEF IInv, TypeOK
  <2>5. /\ env_ipc_perm' \in [Envs -> Perms]
        /\ \A x \in Envs \ {m.to} : env_ipc_perm'[x] = env_ipc_perm[x]
    BY <2>2, <1>1, <1>2 DEF IInv, TypeOK
  <2> QED BY <2>3, <2>4, <2>5
<1>4. CASE ~ (SendsPage(m) /\ va # NoPage)
  BY <1>1, <1>4 DEF Transfer, memory, IInv, TypeOK
<1> QED BY <1>3, <1>4

(* A delivery keeps the invariant: it changes the fields only of an environment
   that has loaded none of them.                                           *)
LEMMA SendOkIInv ==
  ASSUME IInv, NEW e \in Envs, try_send_ok(e)
  PROVE  IInv'
<1> DEFINE m == msg[e]
<1>1. m \in Message /\ m.to \in Envs /\ m.to # e /\ pc[m.to] = "blocked" /\ m.value \in Nat
  BY MeetFacts DEF Message
<1>2. /\ env_ipc_recving' = [env_ipc_recving EXCEPT ![m.to] = FALSE]
      /\ env_ipc_from' = [env_ipc_from EXCEPT ![m.to] = e]
      /\ env_ipc_value' = [env_ipc_value EXCEPT ![m.to] = m.value]
      /\ pc' = [pc EXCEPT ![e] = "user", ![m.to] = "from"]
      /\ msg' = [msg EXCEPT ![e] = Null]
      /\ UNCHANGED <<ret, env_ipc_dstva, sends>>
  BY DEF try_send_ok, Deliver
<1> HIDE DEF m
<1>3. TypeOK'
  <2>1. pc' \in [Envs -> PCs]
    BY <1>1, <1>2 DEF IInv, TypeOK, PCs
  <2>2. msg' \in [Envs -> Message \cup {Null}]
    BY <1>2 DEF IInv, TypeOK
  <2>3. /\ env_ipc_recving' \in [Envs -> BOOLEAN]
        /\ env_ipc_from' \in [Envs -> Envs \cup {Null}]
        /\ env_ipc_value' \in [Envs -> Nat \cup {Null}]
    BY <1>1, <1>2 DEF IInv, TypeOK
  <2> QED BY <1>2, <2>1, <2>2, <2>3, TransferTypes DEF IInv, TypeOK
<1>4. ASSUME NEW x \in Envs PROVE Local(x)'
  <2>1. CASE x = m.to
    BY <1>1, <1>2, <2>1 DEF IInv, TypeOK, Local
  <2>2. CASE x = e
    BY <1>1, <1>2, <2>2, MeetFacts DEF IInv, TypeOK, Local
  <2>3. CASE x # e /\ x # m.to
    <3>1. /\ pc'[x] = pc[x] /\ msg'[x] = msg[x] /\ ret'[x] = ret[x]
          /\ env_ipc_recving'[x] = env_ipc_recving[x]
          /\ env_ipc_from'[x] = env_ipc_from[x]
          /\ env_ipc_perm'[x] = env_ipc_perm[x]
      BY <1>1, <1>2, <2>3, TransferTypes DEF IInv, TypeOK, m
    <3> QED BY <3>1 DEF IInv, Local
  <2> QED BY <2>1, <2>2, <2>3
<1> QED BY <1>3, <1>4 DEF IInv

(* Every step keeps the invariant. *)
LEMMA NextIInv == IInv /\ [Next]_vars => IInv'
<1> SUFFICES ASSUME IInv, [Next]_vars PROVE IInv'
  OBVIOUS
<1>1. CASE UNCHANGED vars
  BY <1>1 DEF vars, fields, memory, IInv, TypeOK, Local
<1>2. ASSUME NEW e \in Envs, Library(e) PROVE IInv'
  BY <1>2, LoadIInv, SmallIInv, SendOkIInv DEF Library
<1>3. ASSUME NEW e \in Envs, Program(e) PROVE IInv'
  <2>1. CASE \E to \in Envs : ipc_send(e, to, NoPage, "0")
    BY <2>1, SmallIInv DEF Perms
  <2>2. CASE \E to \in Envs, pg \in VAs, perm \in Perms : ipc_send(e, to, pg, perm)
    BY <2>2, SmallIInv
  <2> QED BY <1>3, <2>1, <2>2, SmallIInv DEF Program
<1> QED BY <1>1, <1>2, <1>3 DEF Next

(* The invariant holds in every reachable state. *)
LEMMA Invariance == Spec => []IInv
BY InitIInv, NextIInv, PTL DEF Spec

----------------------------------------------------------------------------
(* Permissions *)

(* A page that is mapped and that nobody can write stays read-only in one step. *)
LEMMA StepReadOnly ==
  ASSUME IInv, [Next]_vars, NEW p \in Pages, Mapped(p), ~ CanWrite(p)
  PROVE  ~ CanWrite(p)'
<1> SUFFICES ASSUME NEW x \in Envs, NEW y \in writable'[x], page'[x][y] = p
             PROVE  FALSE
  BY DEF CanWrite
<1>1. CASE UNCHANGED memory
  BY <1>1 DEF memory, CanWrite
<1>2. ASSUME NEW e \in Envs, NEW va \in VAs, NEW w \in BOOLEAN, sys_page_alloc(e, va, w)
      PROVE  FALSE
  <2>1. PICK q \in Pages : ~ Mapped(q) /\ page' = [page EXCEPT ![e][va] = q]
    BY <1>2 DEF sys_page_alloc
  <2>2. writable' = [writable EXCEPT ![e] = IF w THEN @ \cup {va} ELSE @ \ {va}]
    BY <1>2 DEF sys_page_alloc
  <2>3. q # p
    BY <2>1
  <2>4. CASE x = e /\ y = va
    BY <2>1, <2>3, <2>4 DEF IInv, TypeOK
  <2>5. CASE ~ (x = e /\ y = va)
    <3>1. y \in writable[x] /\ y \in VAs
      BY <2>2, <2>5 DEF IInv, TypeOK
    <3>2. page[x][y] = p
      BY <2>1, <2>5, <3>1 DEF IInv, TypeOK
    <3> QED BY <3>1, <3>2 DEF CanWrite
  <2> QED BY <2>4, <2>5
<1>3. ASSUME NEW e \in Envs, exit(e) PROVE FALSE
  <2>1. x # e
    BY <1>3 DEF exit, IInv, TypeOK
  <2> QED BY <1>3, <2>1 DEF exit, IInv, TypeOK, CanWrite
<1>4. ASSUME NEW e \in Envs, try_send_ok(e) PROVE FALSE
  <2> DEFINE m == msg[e]
             va == env_ipc_dstva[m.to]
  <2>1. m \in Message /\ m.to \in Envs /\ Transfer(e, m) /\ ~ Invalid(e, m)
    BY <1>4, MeetFacts DEF try_send_ok
  <2>2. m.pg \in VAs \cup {NoPage} /\ m.perm \in Perms /\ va \in VAs \cup {NoPage}
    BY <2>1 DEF Message, IInv, TypeOK
  <2>3. SendsPage(m) /\ va # NoPage
    BY <2>1, <1>1 DEF Transfer
  <2>4. m.pg \in VAs /\ va \in VAs
    BY <2>2, <2>3 DEF SendsPage
  <2>5. /\ page' = [page EXCEPT ![m.to][va] = page[e][m.pg]]
        /\ writable' = [writable EXCEPT ![m.to] =
                         IF m.perm = "W" THEN @ \cup {va} ELSE @ \ {va}]
    BY <2>1, <2>3 DEF Transfer
  <2>6. m.perm = "W" => m.pg \in writable[e]
    BY <2>1, <2>3 DEF Invalid
  <2> HIDE DEF m, va
  <2>7. CASE x = m.to /\ y = va
    <3>1. m.perm = "W" /\ page[e][m.pg] = p
      BY <2>1, <2>4, <2>5, <2>7 DEF IInv, TypeOK
    <3> QED BY <3>1, <2>6 DEF CanWrite
  <2>8. CASE ~ (x = m.to /\ y = va)
    <3>1. y \in writable[x] /\ y \in VAs
      BY <2>1, <2>4, <2>5, <2>8 DEF IInv, TypeOK
    <3>2. page[x][y] = p
      BY <2>1, <2>4, <2>5, <2>8, <3>1 DEF IInv, TypeOK
    <3> QED BY <3>1, <3>2 DEF CanWrite
  <2> QED BY <2>7, <2>8
<1>5. CASE UNCHANGED vars
  BY <1>1, <1>5 DEF vars
<1>6. ASSUME NEW e \in Envs, Library(e) \/ Program(e) PROVE FALSE
  BY <1>1, <1>2, <1>3, <1>4, <1>6
  DEF Library, Program, ipc_recv_from, ipc_recv_perm, ipc_recv_value, try_send_busy,
      yield, try_send_error, sys_ipc_recv, ipc_send
<1> QED BY <1>5, <1>6 DEF Next

(* sys_ipc_try_send() (kern/syscall.c, line 410) passes on write access only from
   a mapping that has it: a page nobody can write stays so, however many times it
   is sent around.                                                         *)
THEOREM ReadOnlyCorrect == Spec => ReadOnlyStays
<1>1. IInv /\ [Next]_vars =>
        [\A p \in Pages : Mapped(p) /\ ~ CanWrite(p) => ~ CanWrite(p)']_vars
  BY StepReadOnly
<1> QED BY <1>1, Invariance, PTL DEF Spec, ReadOnlyStays

----------------------------------------------------------------------------
(* Refinement *)

(* What an environment is doing, by where it is. *)
LEMMA DoingFacts ==
  ASSUME NEW e \in Envs
  PROVE  /\ pc[e] = "user" => Doing(e) = [op |-> "idle"]
         /\ pc[e] \in {"try_send", "yield"} =>
              Doing(e) = [op |-> "send",
                          msg |-> [to |-> msg[e].to, value |-> msg[e].value,
                                   page |-> SendsPage(msg[e]), perm |-> msg[e].perm]]
         /\ pc[e] = "blocked" =>
              Doing(e) = [op |-> "recv", page |-> env_ipc_dstva[e] # NoPage]
         /\ pc[e] \in {"from", "perm", "value"} =>
              Doing(e) = [op |-> "got", from |-> env_ipc_from[e],
                          value |-> env_ipc_value[e], perm |-> env_ipc_perm[e]]
         /\ pc[e] \in {"panic", "gone"} => Doing(e) = [op |-> "gone"]
BY DEF Doing

(* The same for the next state. *)
LEMMA DoingNext ==
  ASSUME NEW e \in Envs
  PROVE  /\ pc'[e] = "user" => Doing(e)' = [op |-> "idle"]
         /\ pc'[e] \in {"try_send", "yield"} =>
              Doing(e)' = [op |-> "send",
                          msg |-> [to |-> msg'[e].to, value |-> msg'[e].value,
                                   page |-> SendsPage(msg'[e]), perm |-> msg'[e].perm]]
         /\ pc'[e] = "blocked" =>
              Doing(e)' = [op |-> "recv", page |-> env_ipc_dstva'[e] # NoPage]
         /\ pc'[e] \in {"from", "perm", "value"} =>
              Doing(e)' = [op |-> "got", from |-> env_ipc_from'[e],
                          value |-> env_ipc_value'[e], perm |-> env_ipc_perm'[e]]
         /\ pc'[e] \in {"panic", "gone"} => Doing(e)' = [op |-> "gone"]
BY DEF Doing, SendsPage

(* An environment whose own state is unchanged goes on doing the same. *)
LEMMA DoingSame ==
  ASSUME NEW e \in Envs,
         pc'[e] = pc[e], msg'[e] = msg[e], env_ipc_dstva'[e] = env_ipc_dstva[e],
         env_ipc_from'[e] = env_ipc_from[e], env_ipc_value'[e] = env_ipc_value[e],
         env_ipc_perm'[e] = env_ipc_perm[e]
  PROVE  Doing(e)' = Doing(e)
BY DEF Doing, SendsPage

(* How the abstract variables change when environment e alone moves. *)
LEMMA OneMoves ==
  ASSUME IInv, NEW e \in Envs, NEW d, NEW r,
         \A x \in Envs \ {e} :
           /\ pc'[x] = pc[x] /\ msg'[x] = msg[x] /\ ret'[x] = ret[x]
           /\ env_ipc_dstva'[x] = env_ipc_dstva[x],
         UNCHANGED <<env_ipc_from, env_ipc_value, env_ipc_perm>>,
         Doing(e)' = d,
         (IF pc'[e] \in {"blocked", "from", "perm", "value"} THEN NoResult ELSE ret'[e]) = r
  PROVE  /\ doingBar' = [doingBar EXCEPT ![e] = d]
         /\ resultBar' = [resultBar EXCEPT ![e] = r]
<1>1. \A x \in Envs \ {e} : Doing(x)' = Doing(x)
  BY DoingSame
<1>2. doingBar' = [doingBar EXCEPT ![e] = d]
  BY <1>1 DEF doingBar
<1>3. resultBar' = [resultBar EXCEPT ![e] = r]
  BY DEF resultBar
<1> QED BY <1>2, <1>3

(* Nothing abstract changes when e goes on doing what it did. *)
LEMMA NoneMoves ==
  ASSUME IInv, NEW e \in Envs,
         \A x \in Envs \ {e} :
           /\ pc'[x] = pc[x] /\ msg'[x] = msg[x] /\ ret'[x] = ret[x]
           /\ env_ipc_dstva'[x] = env_ipc_dstva[x],
         UNCHANGED <<env_ipc_from, env_ipc_value, env_ipc_perm>>,
         Doing(e)' = Doing(e),
         (IF pc'[e] \in {"blocked", "from", "perm", "value"} THEN NoResult ELSE ret'[e])
           = resultBar[e]
  PROVE  UNCHANGED Abs!vars
<1>1. doingBar' = [doingBar EXCEPT ![e] = Doing(e)]
        /\ resultBar' = [resultBar EXCEPT ![e] = resultBar[e]]
  BY OneMoves
<1>2. doingBar' = doingBar
  BY <1>1 DEF doingBar
<1>3. resultBar' = resultBar
  BY <1>1 DEF resultBar
<1> QED BY <1>2, <1>3 DEF Abs!vars, doingBar, resultBar

(* The loads of ipc_recv() after the first two are invisible; with the last it
   returns the message it has met.                                         *)
LEMMA LoadRefines ==
  ASSUME IInv, NEW e \in Envs,
         ipc_recv_from(e) \/ ipc_recv_perm(e) \/ ipc_recv_value(e)
  PROVE  [Abs!Next]_Abs!vars
<1>1. /\ UNCHANGED <<msg, env_ipc_dstva, env_ipc_from, env_ipc_value, env_ipc_perm>>
      /\ \A x \in Envs \ {e} :
           /\ pc'[x] = pc[x] /\ msg'[x] = msg[x] /\ ret'[x] = ret[x]
           /\ env_ipc_dstva'[x] = env_ipc_dstva[x]
  BY DEF ipc_recv_from, ipc_recv_perm, ipc_recv_value, fields, Goto, IInv, TypeOK
<1>2. CASE ipc_recv_from(e) \/ ipc_recv_perm(e)
  <2>1. pc[e] \in {"from", "perm", "value"} /\ pc'[e] \in {"from", "perm", "value"}
    BY <1>2 DEF ipc_recv_from, ipc_recv_perm, At, Goto, IInv, TypeOK
  <2>2. Doing(e)' = Doing(e)
    BY <2>1, <1>1, DoingFacts, DoingNext
  <2>3. resultBar[e] = NoResult
    BY <2>1 DEF resultBar
  <2> QED BY <1>1, <2>1, <2>2, <2>3, NoneMoves
<1>3. CASE ipc_recv_value(e)
  <2>1. /\ pc[e] = "value" /\ pc'[e] = "user"
        /\ ret' = [ret EXCEPT ![e].value = env_ipc_value[e]]
    BY <1>3 DEF ipc_recv_value, At, Goto, IInv, TypeOK
  <2>2. ret'[e] = [from |-> env_ipc_from[e], value |-> env_ipc_value[e],
                   perm |-> env_ipc_perm[e]]
    BY <2>1 DEF IInv, TypeOK, Local, Result
  <2>3. Doing(e)' = [op |-> "idle"]
    BY <2>1, DoingNext
  <2>4. doingBar[e] = [op |-> "got", from |-> env_ipc_from[e],
                       value |-> env_ipc_value[e], perm |-> env_ipc_perm[e]]
    BY <2>1, DoingFacts DEF doingBar
  <2>5. /\ doingBar' = [doingBar EXCEPT ![e] = [op |-> "idle"]]
        /\ resultBar' = [resultBar EXCEPT ![e] =
                           [from |-> env_ipc_from[e], value |-> env_ipc_value[e],
                            perm |-> env_ipc_perm[e]]]
    BY <1>1, <2>1, <2>2, <2>3, OneMoves
  <2>6. /\ doingBar[e].op = "got"
        /\ resultBar' = [resultBar EXCEPT ![e] = [from |-> doingBar[e].from,
                                                  value |-> doingBar[e].value,
                                                  perm |-> doingBar[e].perm]]
    BY <2>4, <2>5
  <2>7. Abs!Return(e)
    BY <1>1, <2>5, <2>6 DEF Abs!Return, Abs!Idle, doingBar, resultBar
  <2> QED BY <2>7 DEF Abs!Next
<1> QED BY <1>2, <1>3

(* A send that has to try again is invisible, one that fails is a stop, and so is
   the end of an environment.                                              *)
LEMMA StopRefines ==
  ASSUME IInv, NEW e \in Envs,
         try_send_busy(e) \/ yield(e) \/ try_send_error(e) \/ exit(e)
  PROVE  [Abs!Next]_Abs!vars
<1>1. /\ UNCHANGED <<ret, env_ipc_dstva, env_ipc_from, env_ipc_value, env_ipc_perm>>
      /\ \A x \in Envs \ {e} :
           /\ pc'[x] = pc[x] /\ msg'[x] = msg[x] /\ ret'[x] = ret[x]
           /\ env_ipc_dstva'[x] = env_ipc_dstva[x]
  BY DEF try_send_busy, yield, try_send_error, exit, fields, Goto, IInv, TypeOK
<1>2. CASE try_send_busy(e) \/ yield(e)
  <2>1. /\ pc[e] \in {"try_send", "yield"} /\ pc'[e] \in {"try_send", "yield"}
        /\ UNCHANGED msg
    BY <1>2 DEF try_send_busy, yield, At, Goto, IInv, TypeOK
  <2>2. Doing(e)' = Doing(e)
    BY <2>1, DoingFacts, DoingNext
  <2>3. resultBar[e] = ret[e]
    BY <2>1 DEF resultBar
  <2> QED BY <1>1, <2>1, <2>2, <2>3, NoneMoves
<1>3. CASE try_send_error(e) \/ exit(e)
  <2>1. pc[e] \in {"user", "try_send"} /\ pc'[e] \in {"panic", "gone"}
    BY <1>3 DEF try_send_error, exit, At, Goto, IInv, TypeOK
  <2>2. Doing(e)' = [op |-> "gone"] /\ doingBar[e].op \in {"idle", "send"}
    BY <2>1, DoingFacts, DoingNext DEF doingBar
  <2>3. resultBar[e] = ret[e]
    BY <2>1 DEF resultBar
  <2>4. /\ doingBar' = [doingBar EXCEPT ![e] = [op |-> "gone"]]
        /\ resultBar' = [resultBar EXCEPT ![e] = ret[e]]
    BY <1>1, <2>1, <2>2, OneMoves
  <2>5. resultBar' = resultBar
    BY <2>3, <2>4 DEF resultBar
  <2>6. Abs!Stop(e)
    BY <1>1, <2>2, <2>4, <2>5 DEF Abs!Stop, Abs!Gone, doingBar, resultBar
  <2> QED BY <2>6 DEF Abs!Next
<1> QED BY <1>2, <1>3

(* ipc_send() begins an abstract send, ipc_recv() an abstract receive. *)
LEMMA BeginRefines ==
  ASSUME IInv, NEW e \in Envs,
         \/ \E to \in Envs, pg \in VAs \cup {NoPage}, perm \in Perms : ipc_send(e, to, pg, perm)
         \/ \E pg \in VAs \cup {NoPage} : sys_ipc_recv(e, pg)
  PROVE  Abs!Next
<1>1. ASSUME NEW to \in Envs, NEW pg \in VAs \cup {NoPage}, NEW perm \in Perms,
             ipc_send(e, to, pg, perm)
      PROVE  Abs!Next
  <2> DEFINE m == [to |-> to, value |-> sends[e], pg |-> pg, perm |-> perm]
             d == [op |-> "send", msg |-> [to |-> to, value |-> sends[e],
                                           page |-> pg # NoPage, perm |-> perm]]
  <2>1. /\ pc[e] = "user" /\ pc'[e] = "try_send" /\ msg'[e] = m
        /\ UNCHANGED <<ret, env_ipc_dstva, env_ipc_from, env_ipc_value, env_ipc_perm>>
        /\ \A x \in Envs \ {e} :
             /\ pc'[x] = pc[x] /\ msg'[x] = msg[x] /\ ret'[x] = ret[x]
             /\ env_ipc_dstva'[x] = env_ipc_dstva[x]
    BY <1>1 DEF ipc_send, fields, At, Goto, IInv, TypeOK
  <2>2. Doing(e)' = d
    BY <2>1, DoingNext DEF SendsPage
  <2>3. d \in [op : {"send"}, msg : Abs!Message]
    BY DEF Abs!Message, IInv, TypeOK
  <2> HIDE DEF d
  <2>4. resultBar[e] = ret[e] /\ doingBar[e] = [op |-> "idle"]
    BY <2>1, DoingFacts DEF resultBar, doingBar
  <2>5. /\ doingBar' = [doingBar EXCEPT ![e] = d]
        /\ resultBar' = [resultBar EXCEPT ![e] = ret[e]]
    BY <2>1, <2>2, OneMoves
  <2>6. resultBar' = resultBar /\ doingBar'[e] = d
    BY <2>4, <2>5 DEF resultBar, doingBar
  <2>7. /\ doingBar'[e] \in [op : {"send"}, msg : Abs!Message]
        /\ doingBar' = [doingBar EXCEPT ![e] = doingBar'[e]]
    BY <2>3, <2>5, <2>6
  <2>8. Abs!Send(e)
    BY <2>1, <2>4, <2>6, <2>7 DEF Abs!Send, Abs!Idle, doingBar, resultBar
  <2> QED BY <2>8 DEF Abs!Next
<1>2. ASSUME NEW pg \in VAs \cup {NoPage}, sys_ipc_recv(e, pg) PROVE Abs!Next
  <2>1. /\ pc[e] = "user" /\ pc'[e] = "blocked" /\ env_ipc_dstva'[e] = pg
        /\ UNCHANGED <<msg, env_ipc_from, env_ipc_value, env_ipc_perm>>
        /\ \A x \in Envs \ {e} :
             /\ pc'[x] = pc[x] /\ msg'[x] = msg[x] /\ ret'[x] = ret[x]
             /\ env_ipc_dstva'[x] = env_ipc_dstva[x]
    BY <1>2 DEF sys_ipc_recv, At, Goto, IInv, TypeOK
  <2>2. Doing(e)' = [op |-> "recv", page |-> pg # NoPage]
    BY <2>1, DoingNext
  <2>3. doingBar[e] = [op |-> "idle"]
    BY <2>1, DoingFacts DEF doingBar
  <2>4. /\ doingBar' = [doingBar EXCEPT ![e] = [op |-> "recv", page |-> pg # NoPage]]
        /\ resultBar' = [resultBar EXCEPT ![e] = NoResult]
    BY <2>1, <2>2, OneMoves
  <2>5. Abs!NoResult = NoResult
    BY DEF Abs!NoResult, NoResult
  <2>6. Abs!Recv(e, pg # NoPage)
    BY <2>1, <2>3, <2>4, <2>5 DEF Abs!Recv, Abs!Idle, doingBar, resultBar
  <2>7. (pg # NoPage) \in BOOLEAN
    OBVIOUS
  <2> QED BY <2>6, <2>7 DEF Abs!Next
<1> QED BY <1>1, <1>2

(* A successful sys_ipc_try_send() is the instant at which the two meet. *)
LEMMA MeetRefines ==
  ASSUME IInv, NEW e \in Envs, try_send_ok(e)
  PROVE  Abs!Next
<1>0. PICK m \in Message, r \in Envs : m = msg[e] /\ r = m.to
  BY MeetFacts
<1>1. r # e /\ pc[e] = "try_send" /\ pc[r] = "blocked"
  BY <1>0, MeetFacts
<1>p. PICK p \in Perms : p = IF SendsPage(m) /\ env_ipc_dstva[r] # NoPage
                            THEN m.perm ELSE env_ipc_perm[r]
  BY DEF Message, IInv, TypeOK
<1>2. /\ pc'[e] = "user" /\ pc'[r] = "from"
      /\ env_ipc_from'[r] = e /\ env_ipc_value'[r] = m.value
      /\ UNCHANGED <<ret, env_ipc_dstva>>
      /\ \A x \in Envs \ {e, r} :
           /\ pc'[x] = pc[x] /\ msg'[x] = msg[x]
           /\ env_ipc_from'[x] = env_ipc_from[x] /\ env_ipc_value'[x] = env_ipc_value[x]
  BY <1>0, <1>1 DEF try_send_ok, Deliver, IInv, TypeOK
<1>3. env_ipc_perm' = [env_ipc_perm EXCEPT ![r] = p]
  <2>1. CASE SendsPage(m) /\ env_ipc_dstva[r] # NoPage
    BY <2>1, <1>0, <1>p DEF try_send_ok, Transfer
  <2>2. CASE ~ (SendsPage(m) /\ env_ipc_dstva[r] # NoPage)
    BY <2>2, <1>0, <1>p DEF try_send_ok, Transfer, IInv, TypeOK
  <2> QED BY <2>1, <2>2
<1>4. /\ doingBar[e] = [op |-> "send", msg |-> [to |-> r, value |-> m.value,
                                                page |-> SendsPage(m), perm |-> m.perm]]
      /\ doingBar[r] = [op |-> "recv", page |-> env_ipc_dstva[r] # NoPage]
  BY <1>0, <1>1, DoingFacts DEF doingBar
<1>5. env_ipc_perm'[r] = p /\ \A x \in Envs \ {r} : env_ipc_perm'[x] = env_ipc_perm[x]
  BY <1>1, <1>3 DEF IInv, TypeOK
<1>6. /\ Doing(e)' = [op |-> "idle"]
      /\ Doing(r)' = [op |-> "got", from |-> e, value |-> m.value, perm |-> p]
  BY <1>1, <1>2, <1>5, DoingNext
<1>7. \A x \in Envs \ {e, r} : Doing(x)' = Doing(x)
  BY <1>2, <1>5, DoingSame
<1>8. doingBar' = [doingBar EXCEPT ![e] = [op |-> "idle"],
                   ![r] = [op |-> "got", from |-> e, value |-> m.value, perm |-> p]]
  BY <1>1, <1>6, <1>7 DEF doingBar
<1>9. resultBar' = resultBar
  <2>1. \A x \in Envs : (pc'[x] \in {"blocked", "from", "perm", "value"}) <=>
                         (pc[x] \in {"blocked", "from", "perm", "value"})
    BY <1>1, <1>2
  <2> QED BY <2>1, <1>2 DEF resultBar
<1>10. /\ doingBar[e].op = "send" /\ doingBar[e].msg.to = r /\ doingBar[r].op = "recv"
       /\ doingBar[e].msg.value = m.value
       /\ p \in IF doingBar[e].msg.page /\ doingBar[r].page
                THEN {doingBar[e].msg.perm} ELSE Perms
  <2>1. doingBar[e].op = "send" /\ doingBar[e].msg.to = r /\ doingBar[r].op = "recv"
          /\ doingBar[e].msg.value = m.value /\ doingBar[e].msg.perm = m.perm
    BY <1>4
  <2>2. doingBar[e].msg.page = SendsPage(m)
    BY <1>4
  <2>3. doingBar[r].page = (env_ipc_dstva[r] # NoPage)
    BY <1>4
  <2>4. CASE SendsPage(m) /\ env_ipc_dstva[r] # NoPage
    BY <2>1, <2>2, <2>3, <2>4, <1>p
  <2>5. CASE ~ (SendsPage(m) /\ env_ipc_dstva[r] # NoPage)
    BY <2>1, <2>2, <2>3, <2>5, <1>p
  <2> QED BY <2>4, <2>5
<1>11. Abs!Meet(e, r)
  BY <1>8, <1>9, <1>10 DEF Abs!Meet, Abs!Idle
<1> QED BY <1>1, <1>11 DEF Abs!Next

(* Every step is an abstract step or invisible. *)
LEMMA StepRefines == IInv /\ [Next]_vars => [Abs!Next]_Abs!vars
<1> SUFFICES ASSUME IInv, [Next]_vars PROVE [Abs!Next]_Abs!vars
  OBVIOUS
<1>1. CASE UNCHANGED vars
  BY <1>1 DEF vars, fields, Abs!vars, doingBar, resultBar, Doing, SendsPage
<1>2. ASSUME NEW e \in Envs, Library(e) PROVE [Abs!Next]_Abs!vars
  BY <1>2, LoadRefines, StopRefines, MeetRefines DEF Library
<1>3. ASSUME NEW e \in Envs, Program(e) PROVE [Abs!Next]_Abs!vars
  <2>1. CASE \E to \in Envs : ipc_send(e, to, NoPage, "0")
    BY <2>1, BeginRefines DEF Perms
  <2>2. CASE \E to \in Envs, pg \in VAs, perm \in Perms : ipc_send(e, to, pg, perm)
    BY <2>2, BeginRefines
  <2>3. CASE \E pg \in VAs \cup {NoPage} : sys_ipc_recv(e, pg)
    BY <2>3, BeginRefines
  <2>4. CASE exit(e)
    BY <2>4, StopRefines
  <2>5. CASE \E va \in VAs, w \in BOOLEAN : sys_page_alloc(e, va, w)
    BY <2>5 DEF sys_page_alloc, fields, Abs!vars, doingBar, resultBar, Doing, SendsPage
  <2> QED BY <1>3, <2>1, <2>2, <2>3, <2>4, <2>5 DEF Program
<1> QED BY <1>1, <1>2, <1>3 DEF Next

(* The kernel's and the library's halves implement IpcAbs: what ipc_recv() returns,
   although loaded in three steps after the wake-up, is the sender, the value and,
   if it brought a page, the permission of one message, delivered once.    *)
THEOREM MessagesCorrect == Spec => MessagesMeet
<1>1. Init => Abs!Init
  BY DEF Init, Abs!Init, Abs!Idle, Abs!NoResult, NoResult, Doing, doingBar, resultBar
<1> QED BY <1>1, StepRefines, Invariance, PTL DEF Spec, MessagesMeet, Abs!Spec
=============================================================================
