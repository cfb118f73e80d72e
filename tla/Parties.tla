------------------------------- MODULE Parties -------------------------------
(***************************************************************************)
(* The addresses that hold accounts on the exchange: traders and, where it *)
(* is deployed, the synthetic counterparty contract.                       *)
(***************************************************************************)
CONSTANT Users
=============================================================================
