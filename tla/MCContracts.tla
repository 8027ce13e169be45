---------------------------- MODULE MCContracts ----------------------------
(***************************************************************************)
(* Instances of the smaller contract machines for TLC: the emission clock, *)
(* the King's lock route, and the LP vault.  A behaviour is one of them,   *)
(* for they share no state; the others rest in their first state.  Users   *)
(* of the vault and accounts of the route are never compared.              *)
(***************************************************************************)
EXTENDS Emission, KingAutoLock, LpStakingVault7D, TLC

Symmetry == Permutations(Users) \cup Permutations(Accounts)

VARIABLE contract

contractVars == <<contract, emissionVars, lockVars, vars>>

ContractInit ==
  /\ contract \in {"emission", "route", "vault"}
  /\ EmissionInit /\ LockInit /\ Init

ContractNext ==
  /\ \/ contract = "emission" /\ EmissionNext /\ UNCHANGED <<lockVars, vars>>
     \/ contract = "route" /\ LockNext /\ UNCHANGED <<emissionVars, vars>>
     \/ contract = "vault" /\ Next /\ UNCHANGED <<emissionVars, lockVars>>
  /\ UNCHANGED contract

ContractSpec == ContractInit /\ [][ContractNext]_contractVars
=============================================================================
