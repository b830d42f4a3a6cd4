---------------------------- MODULE MCSocketIo -----------------------------
(* Instances of SocketIo for TLC. *)
EXTENDS SocketIo, TLC

(* Threads, operations and sockets are interchangeable. *)
Symmetry == Permutations(Threads) \cup Permutations(Ops)
            \cup Permutations(Sockets)
============================================================================
