--------------------------- MODULE MCKeeperDaemon ---------------------------
(***************************************************************************)
(* Instances of the keeper's process for TLC: the sends and their breaker, *)
(* the settlement cycles, and the daemon's loop with its event bus.  A     *)
(* behaviour is one of the machines, for they share no state; the others   *)
(* rest in their first state.                                              *)
(***************************************************************************)
EXTENDS KeeperTx, Settlement, KeeperDaemon

VARIABLE machine

processVars == <<machine, txVars, sVars, daemonVars>>

ProcessInit ==
  /\ machine \in {"send", "settlement", "daemon"}
  /\ TxInit /\ (machine # "send" => maxFailures = 1)
  /\ SettlementInit /\ (machine # "settlement" => sConfig = CHOOSE c \in Configs : TRUE)
  /\ DaemonInit

ProcessNext ==
  /\ \/ machine = "send" /\ TxNext /\ UNCHANGED <<sVars, daemonVars>>
     \/ machine = "settlement" /\ SettlementNext /\ UNCHANGED <<txVars, daemonVars>>
     \/ machine = "daemon" /\ DaemonNext /\ UNCHANGED <<txVars, sVars>>
  /\ UNCHANGED machine

(* Each machine has the fairness of its own specification.                 *)
ProcessFairness ==
  /\ \A s \in Senders : WF_txVars(machine = "send" /\ Send(s) /\ UNCHANGED maxFailures)
  /\ WF_txVars(machine = "send" /\ Pass /\ UNCHANGED maxFailures)
  /\ WF_sVars(machine = "settlement" /\ SettlementLoop)
  /\ SF_sVars(machine = "settlement" /\ Elapse)
  /\ WF_sVars(machine = "settlement" /\ \E c \in Configs : Restart(c))
  /\ WF_daemonVars(machine = "daemon" /\ UNCHANGED busVars /\ DaemonStep)
  /\ WF_daemonVars(machine = "daemon" /\ UNCHANGED busVars /\ DaemonTick)

ProcessSpec == ProcessInit /\ [][ProcessNext]_processVars /\ ProcessFairness

(* A trip of the breaker ends; cycles neither get stuck, when a task fails  *)
(* for ever, nor stop coming.                                              *)
KeeperGoesOn == CooldownEnds /\ (machine = "settlement" => SettlementGoesOn)
=============================================================================
