------------------------------ MODULE MCWorker ------------------------------
(* Small instances of Worker for TLC. *)
EXTENDS Worker

\* Trees a well-behaved agent leaves phase by phase, then trees it should not:
\* code that changes before its turn, tests or the specification thrown away.
MCEdits ==
  {[spec |-> 1, tests |-> 0, code |-> 0], [spec |-> 1, tests |-> 1, code |-> 0],
   [spec |-> 1, tests |-> 1, code |-> 1], [spec |-> 1, tests |-> 1, code |-> 2],
   [spec |-> 1, tests |-> 0, code |-> 2], [spec |-> 0, tests |-> 1, code |-> 1]}
\* Only the well-behaved ones.
MCGoodEdits ==
  {[spec |-> 1, tests |-> 0, code |-> 0], [spec |-> 1, tests |-> 1, code |-> 0],
   [spec |-> 1, tests |-> 1, code |-> 1]}
=============================================================================
