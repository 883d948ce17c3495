----------------------------- MODULE MCSharing ------------------------------
(* One workspace on small instances.                                       *)
EXTENDS Sharing

(* The owner, an administrator who owns nothing, the dataset's creator and *)
(* a colleague.                                                            *)
Four == {"olga", "adam", "carl", "mary"}

FourRoles ==
  [p \in Four |-> CASE p = "olga" -> "owner"
                    [] p = "adam" -> "admin"
                    [] OTHER -> "member"]
=============================================================================
