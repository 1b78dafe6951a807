------------------------------- MODULE IpcAbs -------------------------------
(***************************************************************************)
(* What message passing between environments promises: a send and a        *)
(* receive meet once, at one instant, and the receiver then returns the     *)
(* sender, the value and the permission of that one message.  What the     *)
(* permission is when no page came along is a parameter: the comments of   *)
(* the code promise 0, the code leaves what was there.                     *)
(***************************************************************************)
CONSTANTS
  Envs, Values, Perms, NoPerm, Null,
  NoPagePerms   \* what a receiver may be told when no page was transferred

Idle == [op |-> "idle"]
Gone == [op |-> "gone"]
Message == [to : Envs, value : Values, page : BOOLEAN, perm : Perms]

VARIABLES
  doing,    \* what each environment is doing
  result    \* what its ipc_recv() returned

vars == <<doing, result>>

NoResult == [from |-> Null, value |-> Null, perm |-> NoPerm]

Init ==
  /\ doing = [e \in Envs |-> Idle]
  /\ result = [e \in Envs |-> NoResult]

Send(e) ==
  /\ doing[e] = Idle
  /\ doing'[e] \in [op : {"send"}, msg : Message]
  /\ doing' = [doing EXCEPT ![e] = doing'[e]]
  /\ UNCHANGED result

Recv(e, page) ==
  /\ doing[e] = Idle
  /\ doing' = [doing EXCEPT ![e] = [op |-> "recv", page |-> page]]
  /\ result' = [result EXCEPT ![e] = NoResult]

(* Sender and receiver meet.  A page is transferred if the one sends and the
   other wants one, and its permission with it.                            *)
Meet(s, r) ==
  /\ doing[s].op = "send" /\ doing[s].msg.to = r
  /\ doing[r].op = "recv"
  /\ LET m == doing[s].msg
         paged == m.page /\ doing[r].page
     IN \E p \in IF paged THEN {m.perm} ELSE NoPagePerms :
          doing' = [doing EXCEPT ![s] = Idle,
                                 ![r] = [op |-> "got", from |-> s,
                                         value |-> m.value, perm |-> p]]
  /\ UNCHANGED result

Return(r) ==
  /\ doing[r].op = "got"
  /\ doing' = [doing EXCEPT ![r] = Idle]
  /\ result' = [result EXCEPT ![r] = [from |-> doing[r].from,
                                      value |-> doing[r].value,
                                      perm |-> doing[r].perm]]

(* An environment ends, or a send that cannot succeed panics. *)
Stop(e) ==
  /\ doing[e].op \in {"idle", "send"}
  /\ doing' = [doing EXCEPT ![e] = Gone]
  /\ UNCHANGED result

Next ==
  \/ \E e \in Envs : \/ Send(e)
                     \/ \E page \in BOOLEAN : Recv(e, page)
                     \/ Return(e)
                     \/ Stop(e)
  \/ \E s, r \in Envs : Meet(s, r)

Spec == Init /\ [][Next]_vars
=============================================================================
