------------------------------ MODULE MCGateway ------------------------------
(***************************************************************************)
(* The instances of Gateway that TLC checks: the environments differ in    *)
(* what SQLite, malloc and the start may do wrong.                         *)
(***************************************************************************)
EXTENDS Gateway

\* anything may fail
MCAll == FaultKinds
\* anything may fail, but a failed INSERT leaves its transaction open, and a
\* COMMIT that fails has ended it, as it does under WAL
MCHonest == FaultKinds \ {"insertAbort", "commitBusy"}
\* an INSERT fails
MCInsert == {"insert"}

=============================================================================
