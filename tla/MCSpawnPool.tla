---------------------------- MODULE MCSpawnPool ----------------------------
(* Five calls on two slots: three can wait behind a full pool. *)
EXTENDS SpawnPool

CONSTANTS j1, j2, j3, j4, j5

MCJobs  == {j1, j2, j3, j4, j5}
=============================================================================
