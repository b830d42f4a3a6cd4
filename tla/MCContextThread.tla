-------------------------- MODULE MCContextThread --------------------------
(* Small instances of ContextThread: which operation uses which descriptor. *)
EXTENDS ContextThread

CONSTANTS r1, r2, w1, w2

(* Every operation has a descriptor of its own. *)
OwnFd == (r1 :> 3) @@ (w1 :> 5)

(* A read and a write share the larger descriptor, a read has the other. *)
SharedLast == (r1 :> 5) @@ (w1 :> 5) @@ (r2 :> 3)

(* One read. *)
SingleRead == r1 :> 3

============================================================================
