------------------------------ MODULE MCDbSqlite ------------------------------
(***************************************************************************)
(* The instance of DbSqlite that TLC checks: its constants are model       *)
(* values and numbers, given in DbSqlite.cfg.                              *)
(***************************************************************************)
EXTENDS DbSqlite
=============================================================================
