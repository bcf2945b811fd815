---------------------------- MODULE MCHttpServer ----------------------------
(* Small instances of HttpServer for TLC. *)
EXTENDS HttpServer, TLC

Symmetry == Permutations(Threads) \cup Permutations(Conns)
=============================================================================
