----------------------------- MODULE MCExchange -----------------------------
(***************************************************************************)
(* Instances for TLC of what the subgraph mirrors: the market, the Furnace *)
(* and the throne, each with its mirror, and the yields it reckons.  A     *)
(* behaviour is one of them, for they share no state; the others rest in a *)
(* first state.                                                            *)
(***************************************************************************)
EXTENDS MCMarket, MCFurnace, SubgraphThrone, SubgraphApr

VARIABLE side

exchangeVars == <<side, subgraphVars, mirrorVars, throneVars, aprVars>>

ThroneOutcomes ==
  {[paid |-> TRUE, royal |-> TRUE, lock |-> "Executed", refund |-> FALSE],
   [paid |-> FALSE, royal |-> TRUE, lock |-> "Skipped", refund |-> TRUE],
   [paid |-> FALSE, royal |-> FALSE, lock |-> "Failed", refund |-> FALSE]}

MarketRests == FirstMarket(<<>>, FALSE, FALSE)
FurnaceRests == FirstFurnace(EmptyFurnace)
ThroneRests == chain = EmptyChain /\ since = <<>> /\ graph = EmptyGraph
AprRests == FirstApr(Min(Prices))

ExchangeInit ==
  \/ side = "market" /\ MCInit /\ FurnaceRests /\ ThroneRests /\ AprRests
  \/ side = "furnace" /\ MCFurnaceInit /\ MarketRests /\ ThroneRests /\ AprRests
  \/ side = "throne" /\ SubgraphThroneInit /\ MarketRests /\ FurnaceRests /\ AprRests
  \/ side = "apr" /\ SubgraphAprInit /\ MarketRests /\ FurnaceRests /\ ThroneRests

ExchangeNext ==
  /\ \/ side = "market" /\ MirrorNext /\ UNCHANGED <<mirrorVars, throneVars, aprVars>>
     \/ side = "furnace" /\ SubgraphFurnaceNext /\ UNCHANGED <<subgraphVars, throneVars, aprVars>>
     \/ side = "throne" /\ SubgraphThroneNext /\ UNCHANGED <<subgraphVars, mirrorVars, aprVars>>
     \/ side = "apr" /\ SubgraphAprNext /\ UNCHANGED <<subgraphVars, mirrorVars, throneVars>>
  /\ UNCHANGED side

ExchangeSpec == ExchangeInit /\ [][ExchangeNext]_exchangeVars

-----------------------------------------------------------------------------
(* The mirrors of marketRouter.ts and furnace.ts are those of the market   *)
(* and of the Furnace.                                                     *)
MirrorsTheExchange ==
  /\ side = "market" => MirrorsTheMarket
  /\ side = "furnace" => MirrorsTheFurnace

(* The mirror of minecore.ts, and the yields of aprSnapshot.ts.            *)
MirrorsThroneAndYields == MirrorsTheThrone /\ AprIsOfItsWindow
=============================================================================
