---------------------------- MODULE MCThreadPool ----------------------------
(* More clients than threads, a pool that grows by one thread at a time, and *)
(* a counter narrow enough to wrap below zero as a size_t does.              *)
EXTENDS ThreadPool

CONSTANTS c1, c2, c3, w1, w2

ThreeClients == {c1, c2, c3}
TwoWorkers == {w1, w2}
=============================================================================
