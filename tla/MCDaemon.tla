------------------------------ MODULE MCDaemon ------------------------------
(* Two storages, one of each backend; the path file holds either or both.   *)
EXTENDS Daemon
CONSTANTS x, m, c

MCPathLists == {<<x>>, <<m>>}
MCRequests == {<<x, m>>, <<x>>}
=============================================================================
