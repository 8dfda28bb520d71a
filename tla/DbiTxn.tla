------------------------------- MODULE DbiTxn -------------------------------
(***************************************************************************)
(* What src/src/pthr_dbi.h promises a program about its statements: work   *)
(* done through a database handle takes effect in a transaction that       *)
(* db_commit makes durable and db_rollback, a failed statement or a lost   *)
(* connection throws away ("If a database connection is closed without     *)
(* issuing either a commit or rollback ... the database will rollback the  *)
(* transaction").  No statement becomes durable on its own.                *)
(***************************************************************************)
EXTENDS FiniteSets

CONSTANT Stmts          \* the write statements a program may run

VARIABLES durable,      \* statements the database has made durable
          pending       \* statements of the open transaction

vars == <<durable, pending>>

Init == durable = {} /\ pending = {}

\* A write statement takes effect inside the open transaction.
Run(s) ==
  /\ s \notin durable \cup pending
  /\ pending' = pending \cup {s}
  /\ UNCHANGED durable

\* The transaction becomes durable as a whole.
Commit ==
  /\ durable' = durable \cup pending
  /\ pending' = {}

\* The transaction is thrown away as a whole.
Abort ==
  /\ pending' = {}
  /\ UNCHANGED durable

Next == (\E s \in Stmts : Run(s)) \/ Commit \/ Abort

Spec == Init /\ [][Next]_vars
=============================================================================
