--------------------------- MODULE MCIoScheduler ---------------------------
(* Small instances of IoScheduler: which operation uses which descriptor.  *)
EXTENDS IoScheduler

CONSTANTS r1, r2, w1, w2

(* A read and a write share the larger descriptor, a read has the other. *)
SharedLast == (r1 :> 5) @@ (w1 :> 5) @@ (r2 :> 3)

(* Two operations share the middle one of three descriptors. *)
SharedMiddle == (r2 :> 3) @@ (r1 :> 5) @@ (w1 :> 5) @@ (w2 :> 7)

(* A read and a write share the only descriptor. *)
SharedOnly == (r1 :> 3) @@ (w1 :> 3)

(* One read. *)
SingleRead == r1 :> 3
============================================================================
