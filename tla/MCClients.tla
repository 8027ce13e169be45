------------------------------ MODULE MCClients ------------------------------
(***************************************************************************)
(* Instances of what reads the chain and writes to it for TLC: the scans   *)
(* that keep the keeper's worklists, the agent's event stream, in which    *)
(* each watcher has one event to see, the writes of the SDK's transaction  *)
(* manager, the actions of its executor, and the agent's loop.  A          *)
(* behaviour is one of them, for they share no state; the others rest in a *)
(* first state.                                                            *)
(***************************************************************************)
EXTENDS KeeperScan, AgentTx, AgentEvents, AgentExecutor, AgentLoop

VARIABLE client

clientVars == <<client, scanVars, txVars, eventVars, execVars, loopVars>>

AllKinds == DOMAIN Entries

(* The agent for itself, with the policy alone and with a strategy before  *)
(* it; for a user who grants it much, or only its claims; and a plan that  *)
(* is just executed.                                                       *)
Setup(how, for, ps, ws, n, strategic) ==
  [driver |-> how, delegated |-> for, perms |-> ps, wants |-> ws, perTick |-> n, strategy |-> strategic,
   stopOnActions |-> strategic, approve |-> strategic]
Much == {"CLAIM_ALL", "WITHDRAW_KING_BUCKET", "TAKEOVER", "KING_AUTO_LOCK", "LP_AUTOCOMPOUND",
         "FURNACE_ENTER_ETH"}
Claims == {"CLAIM_SHAREHOLDER", "WITHDRAW_KING_BUCKET", "SHAREHOLDER_AUTOCOMPOUND"}
MCSetups == {Setup("once", FALSE, {}, {}, 1, FALSE), Setup("loop", FALSE, {}, {}, 2, TRUE),
             Setup("loop", TRUE, Much, {"king"}, 1, FALSE),
             Setup("loop", TRUE, Claims, {"royalties"}, 2, FALSE),
             Setup("plan", TRUE, Much, {}, 1, FALSE)}
MCSituations == {{}, {"royalties", "king"}, {"king"}, {"throne", "callerKing"},
                 {"kingConfig", "lpConfig"}, {"royaltiesConfig", "ve"}, {"claim", "throne"}}

MCEvents == {[w |-> w, i |-> 1] : w \in Watchers}

ClientsInit ==
  /\ client \in {"scan", "writes", "stream", "action", "loop"}
  /\ ScanInit /\ (client # "scan" => scanner = CHOOSE s \in Scanners : TRUE)
  /\ AgentTxInit /\ (client # "writes" => replacing = CHOOSE p \in Policies : TRUE)
  /\ EventsInit /\ (client # "stream" => backfill = CHOOSE b \in Backfills : TRUE)
  /\ ExecInit /\ (client # "action" => kind = "takeover" /\ ~execute /\ mode = "off"
                                         /\ broken = {} /\ Usual)
  /\ LoopInit /\ (client # "loop" => setup = CHOOSE s \in Setups : TRUE) /\ (client # "loop" => due = {})

ClientsNext ==
  /\ \/ client = "scan" /\ ScanNext /\ UNCHANGED <<txVars, eventVars, execVars, loopVars>>
     \/ client = "writes" /\ AgentTxNext /\ UNCHANGED <<scanVars, eventVars, execVars, loopVars>>
     \/ client = "stream" /\ EventsNext /\ UNCHANGED <<scanVars, txVars, execVars, loopVars>>
     \/ client = "action" /\ ExecNext /\ UNCHANGED <<scanVars, txVars, eventVars, loopVars>>
     \/ client = "loop" /\ LoopNext /\ UNCHANGED <<scanVars, txVars, eventVars, execVars>>
  /\ UNCHANGED client

(* Each has the fairness of its own specification.                         *)
ClientsFairness ==
  /\ \A r \in Runs : WF_scanVars(client = "scan" /\ ScanStep(r))
  /\ \A w \in Writes : WF_txVars(client = "writes" /\ WriteStep(w))
  /\ WF_loopVars(client = "loop" /\ LoopStep)
  /\ WF_loopVars(client = "loop" /\ OnEvent)
  /\ WF_loopVars(client = "loop" /\ Time)

ClientsSpec == ClientsInit /\ [][ClientsNext]_clientVars /\ ClientsFairness

(* Every write that is asked for ends, however the writes before it ended, *)
(* and what the agent has to do is done in the end.                        *)
ClientsGoOn ==
  /\ client = "writes" => EveryWriteEnds
  /\ client = "loop" => DutiesGetDone
=============================================================================
