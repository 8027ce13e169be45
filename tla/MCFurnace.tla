----------------------------- MODULE MCFurnace -----------------------------
(***************************************************************************)
(* An instance of the Furnace and its mirror for TLC: it starts with a     *)
(* reserve, and with a stream that pays a first vault or with no vault.    *)
(***************************************************************************)
EXTENDS SubgraphFurnace, TLC

CONSTANTS v1, FirstCredit, FirstFunds

MCBonuses == {[user |-> 1, lp |-> 1], [user |-> 2, lp |-> 0]}
MCSales == {[amount |-> 3, out |-> 1, lp |-> 1], [amount |-> 1, out |-> 1, lp |-> 0]}

Credited(x, a) ==
  Logged([x EXCEPT !.balance = @ + a, !.reserve = @ + a], [k |-> "ReserveCredited", after |-> x.reserve + a])
Streaming(x, a) ==
  Logged(_fundLpStreamInternal([x EXCEPT !.balance = @ + a], a),
         [k |-> "LpOverflowDripPaid", a |-> a, after |-> x.reserve])
FirstFurnaces ==        \* read once the clock has its value
  {Credited(EmptyFurnace, FirstCredit)} \cup
  {Credited(Streaming(Logged([EmptyFurnace EXCEPT !.vault = v1], [k |-> "LpRewardsVaultSet", v |-> v1]), a),
            FirstCredit) : a \in FirstFunds}

FirstFurnace(x) == clock = DAY /\ touches = 0 /\ mirror = EmptyMirror /\ furnace = x
MCFurnaceInit == clock = DAY /\ \E x \in FirstFurnaces : FirstFurnace(x)

MCFurnaceSpec == MCFurnaceInit /\ [][SubgraphFurnaceNext]_mirrorVars
=============================================================================
