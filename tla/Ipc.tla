-------------------------------- MODULE Ipc --------------------------------
(***************************************************************************)
(* Message passing between environments: sys_ipc_try_send() and            *)
(* sys_ipc_recv() of kern/syscall.c under ipc_send() and ipc_recv() of     *)
(* lib/ipc.c.  A system call is one step, under the kernel lock; what the  *)
(* library does between calls, the three loads from thisenv after a wake-up *)
(* included, interleaves with the steps of every other environment.        *)
(*                                                                         *)
(* An address is a page below UTOP or NoPage, the -1 that the library      *)
(* passes for a null pointer.  Addresses are aligned.                      *)
(***************************************************************************)
EXTENDS Integers

CONSTANTS
  Envs,
  Servers,      \* environments that do nothing but ipc_recv()
  VAs,          \* addresses at which pages are sent and received
  NoPage,       \* no address
  Pages,        \* physical pages
  MaxSends,     \* MaxSends[e]: bound on the ipc_send() calls of e
  Null

ASSUME EnvsAssumption == Servers \subseteq Envs /\ Null \notin Envs
ASSUME PagesAssumption == Null \notin Pages /\ NoPage \notin VAs
ASSUME MaxSendsAssumption == MaxSends \in [Envs -> Nat]

Perms == {"0", "R", "W"}   \* neither PTE_U nor PTE_P; PTE_U|PTE_P; with PTE_W
Message == [to : Envs, value : Nat, pg : VAs \cup {NoPage}, perm : Perms]

NoResult == [from |-> Null, value |-> Null, perm |-> "0"]

VARIABLES
  pc,              \* where each environment is
  msg,             \* the arguments of its ipc_send()
  ret,             \* what its ipc_recv() has loaded or returned so far
  env_ipc_recving, env_ipc_dstva, env_ipc_from, env_ipc_value, env_ipc_perm,
  page, writable,  \* what is mapped at each address, and whether writable
  sends            \* number of ipc_send() calls made

fields == <<env_ipc_recving, env_ipc_dstva, env_ipc_from, env_ipc_value, env_ipc_perm>>
memory == <<page, writable>>
vars == <<pc, msg, ret, fields, memory, sends>>

PCs == {"user", "try_send", "yield", "blocked", "from", "perm", "value",
        "panic", "gone"}

Init ==
  /\ pc = [e \in Envs |-> "user"]
  /\ msg = [e \in Envs |-> Null]
  /\ ret = [e \in Envs |-> NoResult]
  /\ env_ipc_recving = [e \in Envs |-> FALSE]
  /\ env_ipc_dstva = [e \in Envs |-> NoPage]
  /\ env_ipc_from = [e \in Envs |-> Null]
  /\ env_ipc_value = [e \in Envs |-> Null]
  /\ env_ipc_perm = [e \in Envs |-> "0"]
  /\ page = [e \in Envs |-> [va \in VAs |-> Null]]
  /\ writable = [e \in Envs |-> {}]
  /\ sends = [e \in Envs |-> 0]

(* Environment e is at l.  After the panic() of a program the kernel monitor
   holds the kernel lock for good and nothing more happens.                *)
Halted == \E e \in Envs : pc[e] = "panic"
At(e, l) == pc[e] = l /\ ~ Halted
Goto(e, l) == pc' = [pc EXCEPT ![e] = l]

----------------------------------------------------------------------------
(* The program's memory *)

Mapped(p) == \E e \in Envs, va \in VAs : page[e][va] = p

(* sys_page_alloc() for itself, where nothing is mapped: a fresh page, writable
   or not.                                                                 *)
sys_page_alloc(e, va, w) ==
  /\ At(e, "user") /\ e \notin Servers
  /\ \E p \in Pages :
       /\ ~ Mapped(p) /\ page[e][va] = Null
       /\ page' = [page EXCEPT ![e][va] = p]
  /\ writable' = [writable EXCEPT ![e] = IF w THEN @ \cup {va} ELSE @ \ {va}]
  /\ UNCHANGED <<pc, msg, ret, fields, sends>>

----------------------------------------------------------------------------
(* ipc_recv() *)

(* ipc_recv() up to the point where sys_ipc_recv() has blocked it. *)
sys_ipc_recv(e, pg) ==
  /\ At(e, "user")
  /\ Goto(e, "blocked")
  /\ env_ipc_recving' = [env_ipc_recving EXCEPT ![e] = TRUE]
  /\ env_ipc_dstva' = [env_ipc_dstva EXCEPT ![e] = pg]
  /\ ret' = [ret EXCEPT ![e] = NoResult]
  /\ UNCHANGED <<msg, env_ipc_from, env_ipc_value, env_ipc_perm, memory, sends>>

(* Back from the call: three loads from thisenv. *)
ipc_recv_from(e) ==
  /\ At(e, "from")
  /\ Goto(e, "perm")
  /\ ret' = [ret EXCEPT ![e].from = env_ipc_from[e]]
  /\ UNCHANGED <<msg, fields, memory, sends>>

ipc_recv_perm(e) ==
  /\ At(e, "perm")
  /\ Goto(e, "value")
  /\ ret' = [ret EXCEPT ![e].perm = env_ipc_perm[e]]
  /\ UNCHANGED <<msg, fields, memory, sends>>

ipc_recv_value(e) ==
  /\ At(e, "value")
  /\ Goto(e, "user")
  /\ ret' = [ret EXCEPT ![e].value = env_ipc_value[e]]
  /\ UNCHANGED <<msg, fields, memory, sends>>

----------------------------------------------------------------------------
(* ipc_send() *)

(* The call; no program sends to itself, which would retry for ever.  Programs
   number their messages, as pingpong and primes do.                       *)
ipc_send(e, to, pg, perm) ==
  /\ At(e, "user") /\ e \notin Servers
  /\ sends[e] < MaxSends[e]
  /\ to # e
  /\ Goto(e, "try_send")
  /\ msg' = [msg EXCEPT ![e] = [to |-> to, value |-> sends[e], pg |-> pg, perm |-> perm]]
  /\ sends' = [sends EXCEPT ![e] = @ + 1]
  /\ UNCHANGED <<ret, fields, memory>>

(* What sys_ipc_try_send() tests, in its order. *)
BadEnv(m) == pc[m.to] = "gone"
NotRecv(m) == ~ env_ipc_recving[m.to]
SendsPage(m) == m.pg # NoPage

(* Faulty variant: write access to a read-only page may be passed on. *)
Invalid_NoWriteTest(e, m) ==
  SendsPage(m) /\ (m.perm = "0" \/ page[e][m.pg] = Null)

Invalid(e, m) ==
  SendsPage(m) /\ \/ m.perm = "0"
                  \/ page[e][m.pg] = Null
                  \/ m.perm = "W" /\ m.pg \notin writable[e]

(* Faulty variant: the receiver stays open to other senders. *)
Deliver_StaysOpen(e, m) ==
  /\ env_ipc_from' = [env_ipc_from EXCEPT ![m.to] = e]
  /\ env_ipc_value' = [env_ipc_value EXCEPT ![m.to] = m.value]
  /\ pc' = [pc EXCEPT ![e] = "user", ![m.to] = IF @ = "blocked" THEN "from" ELSE @]
  /\ UNCHANGED env_ipc_recving

(* The assignments at its end: the fields, the status, the result. *)
Deliver(e, m) ==
  /\ env_ipc_recving' = [env_ipc_recving EXCEPT ![m.to] = FALSE]
  /\ env_ipc_from' = [env_ipc_from EXCEPT ![m.to] = e]
  /\ env_ipc_value' = [env_ipc_value EXCEPT ![m.to] = m.value]
  /\ pc' = [pc EXCEPT ![e] = "user", ![m.to] = "from"]

(* The page transfer, if the sender sends one and the receiver wants one. *)
Transfer(e, m) ==
  LET va == env_ipc_dstva[m.to] IN
  IF SendsPage(m) /\ va # NoPage
  THEN /\ page' = [page EXCEPT ![m.to][va] = page[e][m.pg]]
       /\ writable' = [writable EXCEPT ![m.to] =
                         IF m.perm = "W" THEN @ \cup {va} ELSE @ \ {va}]
       /\ env_ipc_perm' = [env_ipc_perm EXCEPT ![m.to] = m.perm]
  ELSE UNCHANGED <<memory, env_ipc_perm>>

(* The call succeeds, and ipc_send() returns. *)
try_send_ok(e) ==
  /\ At(e, "try_send")
  /\ LET m == msg[e] IN
       /\ ~ BadEnv(m) /\ ~ NotRecv(m) /\ ~ Invalid(e, m)
       /\ Transfer(e, m)
       /\ Deliver(e, m)
  /\ msg' = [msg EXCEPT ![e] = Null]
  /\ UNCHANGED <<ret, env_ipc_dstva, sends>>

(* -E_IPC_NOT_RECV: sys_yield(), and once more. *)
try_send_busy(e) ==
  /\ At(e, "try_send")
  /\ ~ BadEnv(msg[e]) /\ NotRecv(msg[e])
  /\ Goto(e, "yield")
  /\ UNCHANGED <<msg, ret, fields, memory, sends>>

(* Faulty variant: it does not try again. *)
yield_Stays(e) ==
  /\ At(e, "yield")
  /\ Goto(e, "yield")
  /\ UNCHANGED <<msg, ret, fields, memory, sends>>

yield(e) ==
  /\ At(e, "yield")
  /\ Goto(e, "try_send")
  /\ UNCHANGED <<msg, ret, fields, memory, sends>>

(* Any other error is a panic(), with nothing changed in the target; mapping
   the page may need memory for page tables.                               *)
try_send_error(e) ==
  /\ At(e, "try_send")
  /\ LET m == msg[e] IN
       \/ BadEnv(m)
       \/ /\ ~ NotRecv(m)
          /\ \/ Invalid(e, m)
             \/ SendsPage(m) /\ env_ipc_dstva[m.to] # NoPage
  /\ Goto(e, "panic")
  /\ msg' = [msg EXCEPT ![e] = Null]
  /\ UNCHANGED <<ret, fields, memory, sends>>

(* The environment ends; its slot is not used again here (see EnvSched). *)
exit(e) ==
  /\ At(e, "user") /\ e \notin Servers
  /\ Goto(e, "gone")
  /\ page' = [page EXCEPT ![e] = [va \in VAs |-> Null]]
  /\ writable' = [writable EXCEPT ![e] = {}]
  /\ UNCHANGED <<msg, ret, fields, sends>>

----------------------------------------------------------------------------
(* The steps of the library, which the scheduler gives to every environment
   that can run, and those a program takes if it likes.                    *)
Library(e) ==
  \/ ipc_recv_from(e) \/ ipc_recv_perm(e) \/ ipc_recv_value(e)
  \/ try_send_ok(e) \/ try_send_busy(e) \/ yield(e) \/ try_send_error(e)

Program(e) ==
  \/ \E va \in VAs, w \in BOOLEAN : sys_page_alloc(e, va, w)
  \/ \E pg \in VAs \cup {NoPage} : sys_ipc_recv(e, pg)
  \/ \E to \in Envs : ipc_send(e, to, NoPage, "0")
  \/ \E to \in Envs, pg \in VAs, perm \in Perms : ipc_send(e, to, pg, perm)
  \/ exit(e)

Next == \E e \in Envs : Library(e) \/ Program(e)

Fairness ==
  /\ \A e \in Envs : WF_vars(Library(e))
  /\ \A e \in Servers : WF_vars(\E pg \in VAs \cup {NoPage} : sys_ipc_recv(e, pg))

Spec == Init /\ [][Next]_vars /\ Fairness

----------------------------------------------------------------------------
(* Properties *)

(* sys_ipc_try_send(), line 410: sending pages around does not make a page
   writable that nobody could write.                                       *)
CanWrite(p) == \E e \in Envs : \E va \in writable[e] : page[e][va] = p
ReadOnlyStays ==
  [][\A p \in Pages : Mapped(p) /\ ~ CanWrite(p) => ~ CanWrite(p)']_vars

Sending(s, r) == pc[s] \in {"try_send", "yield"} /\ msg[s].to = r

(* ipc_send() keeps trying: with a server that always receives again, and
   senders that do not send for ever, every sender gets through.           *)
SenderGetsThrough ==
  \A s \in Envs, r \in Servers : Sending(s, r) ~> ~ Sending(s, r) \/ Halted

(* A blocked receiver to which somebody sends does not stay blocked. *)
BlockedIsServed ==
  \A r \in Envs :
    pc[r] = "blocked" /\ (\E s \in Envs : Sending(s, r)) ~> pc[r] # "blocked" \/ Halted

(* The two halves of the implementation meet as IpcAbs says: what ipc_recv()
   returns is the sender, the value and, if it brought a page, the permission of
   one message, which is delivered once and whose sender then goes on.     *)
Doing(e) ==
  CASE pc[e] = "user" -> [op |-> "idle"]
    [] pc[e] \in {"try_send", "yield"} ->
         [op |-> "send", msg |-> [to |-> msg[e].to, value |-> msg[e].value,
                                  page |-> SendsPage(msg[e]), perm |-> msg[e].perm]]
    [] pc[e] = "blocked" -> [op |-> "recv", page |-> env_ipc_dstva[e] # NoPage]
    [] pc[e] \in {"from", "perm", "value"} ->
         [op |-> "got", from |-> env_ipc_from[e], value |-> env_ipc_value[e],
          perm |-> env_ipc_perm[e]]
    [] OTHER -> [op |-> "gone"]

doingBar == [e \in Envs |-> Doing(e)]
resultBar == [e \in Envs |->
                IF pc[e] \in {"blocked", "from", "perm", "value"} THEN NoResult ELSE ret[e]]

Abs == INSTANCE IpcAbs WITH
         Values <- Nat, NoPerm <- "0", NoPagePerms <- Perms,
         doing <- doingBar, result <- resultBar
MessagesMeet == Abs!Spec

(* lib/ipc.c:10-12 and kern/syscall.c:347: the permission returned is 0 unless a
   page was transferred.  sys_ipc_try_send() sets env_ipc_perm only when it
   transfers one, so the permission of an earlier message is returned.     *)
Promised == INSTANCE IpcAbs WITH
              Values <- Nat, NoPerm <- "0", NoPagePerms <- {"0"},
              doing <- doingBar, result <- resultBar
PermissionAsPromised == Promised!Spec
=============================================================================
