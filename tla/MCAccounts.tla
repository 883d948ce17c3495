---------------------------- MODULE MCAccounts -----------------------------
(* One account on small instances.                                         *)
EXTENDS Accounts

(* config.py: the runtime role, and the owner's, which bypasses policies.  *)
BothRoles == {"dataprep_app", "dataprep"}

RuntimeRole == {"dataprep_app"}
=============================================================================
