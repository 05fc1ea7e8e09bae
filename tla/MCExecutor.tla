----------------------------- MODULE MCExecutor -----------------------------
(* An instance of Executor: two names of one kind and one of the other.    *)
EXTENDS Executor

Policies == {"P-U-01.sh"}
Inspections == {"U-01.sh", "U-02.sh"}
=============================================================================
