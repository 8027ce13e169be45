--------------------------- MODULE MineCoreHelper ---------------------------
(***************************************************************************)
(* The pure arithmetic of MineCore: the Dutch-auction takeover price and   *)
(* the two emission integrals.  All quantities are unsigned integers and   *)
(* every division rounds down, as Math.mulDiv does in the contract.        *)
(***************************************************************************)
EXTENDS Integers

CONSTANTS
  NoOne,                         \* address(0)
  TAKEOVER_PRICE_FLOOR,
  TAKEOVER_DECAY_PERIOD,
  EMISSION_START,                \* emissionStartTime, fixed at initialisation
  EMISSION_DECAY_PERIOD,
  KING_EMISSION_LAUNCH_RATE, KING_EMISSION_FLOOR,
  FURNACE_EMISSION_LAUNCH_RATE, FURNACE_EMISSION_FLOOR

ASSUME MathAssumption ==
  /\ TAKEOVER_PRICE_FLOOR \in Nat \ {0}
  /\ TAKEOVER_DECAY_PERIOD \in Nat \ {0}
  /\ EMISSION_START \in Nat \ {0}
  /\ EMISSION_DECAY_PERIOD \in Nat \ {0}
  /\ KING_EMISSION_LAUNCH_RATE \in Nat
  /\ KING_EMISSION_FLOOR \in Nat
  /\ FURNACE_EMISSION_LAUNCH_RATE \in Nat
  /\ FURNACE_EMISSION_FLOOR \in Nat

mulDiv(a, b, c) == (a * b) \div c

AtLeast(x, bound) == IF x < bound THEN bound ELSE x

(* Linear decay from the reference price to the floor over one period. *)
takeoverPrice(king, start, ref, ts) ==
  LET t == IF ts <= start THEN 0 ELSE ts - start
  IN  IF king = NoOne \/ t >= TAKEOVER_DECAY_PERIOD \/ ref <= TAKEOVER_PRICE_FLOOR
      THEN TAKEOVER_PRICE_FLOOR
      ELSE AtLeast(ref - mulDiv(ref, t, TAKEOVER_DECAY_PERIOD), TAKEOVER_PRICE_FLOOR)

(* Emission rate after `elapsed` seconds: linear decay, then the floor. *)
rateAt(elapsed, launchRate, floorRate) ==
  IF launchRate <= floorRate \/ elapsed >= EMISSION_DECAY_PERIOD
  THEN floorRate
  ELSE AtLeast(launchRate - mulDiv(launchRate - floorRate, elapsed, EMISSION_DECAY_PERIOD),
               floorRate)

(* Mutant: the whole interval is paid at the rate of its start. *)
emittedAtStartRate(ts0, ts1, launchRate, floorRate) ==
  IF ts1 <= ts0 THEN 0 ELSE rateAt(ts0 - EMISSION_START, launchRate, floorRate) * (ts1 - ts0)

(* The trapezoid rule over [from, to], cut at the end of the decay period. *)
emitted(ts0, ts1, launchRate, floorRate) ==
  LET from    == AtLeast(ts0, EMISSION_START)
      floorTs == EMISSION_START + EMISSION_DECAY_PERIOD
      rate(t) == rateAt(t - EMISSION_START, launchRate, floorRate)
  IN  IF ts1 <= ts0 \/ ts1 <= EMISSION_START THEN 0
      ELSE IF from >= floorTs THEN floorRate * (ts1 - from)
      ELSE IF ts1 <= floorTs THEN mulDiv(rate(from) + rate(ts1), ts1 - from, 2)
      ELSE mulDiv(rate(from) + floorRate, floorTs - from, 2) + floorRate * (ts1 - floorTs)

kingEmitted(ts0, ts1) ==
  emitted(ts0, ts1, KING_EMISSION_LAUNCH_RATE, KING_EMISSION_FLOOR)

furnaceEmitted(ts0, ts1) ==
  emitted(ts0, ts1, FURNACE_EMISSION_LAUNCH_RATE, FURNACE_EMISSION_FLOOR)
=============================================================================
