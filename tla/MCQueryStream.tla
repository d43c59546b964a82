---------------------------- MODULE MCQueryStream ---------------------------
(* Instances of QueryStream for TLC.                                       *)
EXTENDS QueryStream

(* Nothing, one row, exactly two batches of 2, a cut inside a batch, more  *)
(* than there are rows, and the default.                                   *)
MCLimitArgs == {None, 0, 1, 4, 5}

(* 0 is raised to 1.                                                       *)
MCBatchArgs == {None, 0, 2}
=============================================================================
