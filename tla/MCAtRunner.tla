----------------------------- MODULE MCAtRunner -----------------------------
(* Three files over one, two and three workers: the distributor runs out of *)
(* idle workers, a worker takes a second file, a worker gets none, and the  *)
(* waiting loop meets busy and idle workers in every order.                 *)
EXTENDS AtRunner
=============================================================================
