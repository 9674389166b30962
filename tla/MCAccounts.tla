----------------------------- MODULE MCAccounts -----------------------------
(***************************************************************************)
(* Small instances of BrokerAccounts.                                      *)
(***************************************************************************)
EXTENDS BrokerAccounts

\* One owner does everything with A, while another one connects A too,
\* selects B, and disconnects B, which ends A's session.
TwoOwners == [r \in Requests |->
  IF r = "r1" THEN AllOperations \X {"A"}
  ELSE {<<"connect", "A">>, <<"select", "B">>, <<"disconnect", "B">>}]
=============================================================================
