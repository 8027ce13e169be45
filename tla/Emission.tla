------------------------------ MODULE Emission ------------------------------
(***************************************************************************)
(* The accrual clock of MineCore on its own, over horizons longer than the *)
(* full model affords: one throne that is always occupied, takeovers that  *)
(* settle the emission since currentReignLastAccrualTime, and a guardian   *)
(* that pauses and unpauses.  CLAIM is minted lazily, so what is minted    *)
(* depends on when the settlements happen and on how the cursor is moved   *)
(* across pauses; the properties compare it with the exact integral of the *)
(* schedule over the seconds the game was open.                            *)
(***************************************************************************)
EXTENDS MineCoreHelper

CONSTANTS
  LastSecond,     \* bound: the clock stops here
  TickSizes       \* how far one step of the clock may go

ASSUME EmissionAssumption ==
  /\ LastSecond \in Nat
  /\ TickSizes \subseteq Nat \ {0}
  /\ KING_EMISSION_FLOOR <= KING_EMISSION_LAUNCH_RATE
  /\ FURNACE_EMISSION_FLOOR <= FURNACE_EMISSION_LAUNCH_RATE

VARIABLES
  second,                       \* block.timestamp
  takeoversPaused,
  pausedSince,                  \* 0 unless paused
  currentReignLastAccrualTime,  \* the emission cursor
  kingMinted, furnaceMinted,    \* CLAIM minted by the two streams so far
  kingExact, furnaceExact,      \* history: the exact integrals, times 2*D
  openSeconds,                  \* history: seconds the game was not paused
  settlements,                  \* history: takeovers so far
  everPaused                    \* history

emissionVars == <<second, takeoversPaused, pausedSince, currentReignLastAccrualTime,
                  kingMinted, furnaceMinted, kingExact, furnaceExact, openSeconds,
                  settlements, everPaused>>

TwoD == 2 * EMISSION_DECAY_PERIOD

(* 2*D times the real-valued integral of a stream's rate over [t0, t1]. *)
Exact2D(launchRate, floorRate, t0, t1) ==
  LET D    == EMISSION_DECAY_PERIOD
      e0   == t0 - EMISSION_START
      e1   == t1 - EMISSION_START
      d0   == IF e0 < D THEN e0 ELSE D
      d1   == IF e1 < D THEN e1 ELSE D
  IN  TwoD * launchRate * (d1 - d0) - (launchRate - floorRate) * (d1 * d1 - d0 * d0)
      + TwoD * floorRate * ((e1 - e0) - (d1 - d0))

KingExact2D(t0, t1) == Exact2D(KING_EMISSION_LAUNCH_RATE, KING_EMISSION_FLOOR, t0, t1)
FurnaceExact2D(t0, t1) == Exact2D(FURNACE_EMISSION_LAUNCH_RATE, FURNACE_EMISSION_FLOOR, t0, t1)

EmissionInit ==
  /\ second = EMISSION_START
  /\ takeoversPaused = FALSE
  /\ pausedSince = 0
  /\ currentReignLastAccrualTime = EMISSION_START
  /\ kingMinted = 0 /\ furnaceMinted = 0
  /\ kingExact = 0 /\ furnaceExact = 0 /\ openSeconds = 0
  /\ settlements = 0 /\ everPaused = FALSE

EmissionTick(d) ==
  /\ second + d <= LastSecond
  /\ second' = second + d
  /\ kingExact' = IF takeoversPaused THEN kingExact
                  ELSE kingExact + KingExact2D(second, second + d)
  /\ furnaceExact' = IF takeoversPaused THEN furnaceExact
                     ELSE furnaceExact + FurnaceExact2D(second, second + d)
  /\ openSeconds' = IF takeoversPaused THEN openSeconds ELSE openSeconds + d
  /\ UNCHANGED <<takeoversPaused, pausedSince, currentReignLastAccrualTime, kingMinted,
                 furnaceMinted, settlements, everPaused>>

(* The accrual steps of a takeover: mint both streams, move the cursor. *)
Settle ==
  /\ ~takeoversPaused
  /\ kingMinted' = kingMinted + kingEmitted(currentReignLastAccrualTime, second)
  /\ furnaceMinted' = furnaceMinted + furnaceEmitted(currentReignLastAccrualTime, second)
  /\ currentReignLastAccrualTime' = second
  /\ settlements' = settlements + 1
  /\ currentReignLastAccrualTime # second    \* bound: no two settlements in one block
  /\ UNCHANGED <<second, takeoversPaused, pausedSince, kingExact, furnaceExact,
                 openSeconds, everPaused>>

PauseEmission ==
  /\ ~takeoversPaused
  /\ takeoversPaused' = TRUE
  /\ pausedSince' = second
  /\ everPaused' = TRUE
  /\ UNCHANGED <<second, currentReignLastAccrualTime, kingMinted, furnaceMinted, kingExact,
                 furnaceExact, openSeconds, settlements>>

(* Mutant: the cursor stays behind and the paused seconds are minted too. *)
UnpauseKeepsCursor ==
  /\ takeoversPaused
  /\ takeoversPaused' = FALSE
  /\ pausedSince' = 0
  /\ UNCHANGED <<second, currentReignLastAccrualTime, kingMinted, furnaceMinted, kingExact,
                 furnaceExact, openSeconds, settlements, everPaused>>

(* Mutant: the cursor is slammed to the present (audit F-2). *)
UnpauseSlamsCursor ==
  /\ takeoversPaused
  /\ takeoversPaused' = FALSE
  /\ currentReignLastAccrualTime' = second
  /\ pausedSince' = 0
  /\ UNCHANGED <<second, kingMinted, furnaceMinted, kingExact, furnaceExact, openSeconds, settlements,
                 everPaused>>

Unpause ==
  /\ takeoversPaused
  /\ takeoversPaused' = FALSE
  /\ currentReignLastAccrualTime' = currentReignLastAccrualTime + (second - pausedSince)
  /\ pausedSince' = 0
  /\ UNCHANGED <<second, kingMinted, furnaceMinted, kingExact, furnaceExact, openSeconds, settlements,
                 everPaused>>

EmissionNext ==
  \/ \E d \in TickSizes : EmissionTick(d)
  \/ Settle
  \/ PauseEmission
  \/ Unpause

EmissionSpec == EmissionInit /\ [][EmissionNext]_emissionVars

-----------------------------------------------------------------------------
(* type invariant *)
EmissionTypeOK ==
  /\ second \in EMISSION_START .. LastSecond
  /\ takeoversPaused \in BOOLEAN /\ everPaused \in BOOLEAN
  /\ pausedSince \in Nat /\ currentReignLastAccrualTime \in Nat
  /\ kingMinted \in Nat /\ furnaceMinted \in Nat
  /\ kingExact \in Nat /\ furnaceExact \in Nat /\ openSeconds \in Nat /\ settlements \in Nat

(* The last second the pending reign has accrued for. *)
AccruedUntil == IF takeoversPaused THEN pausedSince ELSE second

(* What a stream has minted plus what the next takeover would mint.        *)
KingToDate == kingMinted + kingEmitted(currentReignLastAccrualTime, AccruedUntil)
FurnaceToDate == furnaceMinted + furnaceEmitted(currentReignLastAccrualTime, AccruedUntil)

(***************************************************************************)
(* MineCore.setTakeoversPaused promises that re-pricing the post-pause     *)
(* window as one block shifted down the decay curve never over-mints.      *)
(* However takeovers and pauses interleave and cut the time, each stream   *)
(* stays within the exact integral of the open seconds, up to the one wei  *)
(* per second by which the rate is rounded up.                             *)
(***************************************************************************)
NeverOverMints ==
  /\ TwoD * KingToDate <= kingExact + TwoD * openSeconds
  /\ TwoD * FurnaceToDate <= furnaceExact + TwoD * openSeconds

(***************************************************************************)
(* A pause excludes only the paused interval: every open second is still   *)
(* worth at least the floor rate, and while no pause has happened a stream *)
(* is the exact integral less at most one wei per settlement (the outer    *)
(* division by two).                                                       *)
(***************************************************************************)
NotForfeited(toDate, exact, floorRate) ==
  /\ toDate >= floorRate * openSeconds
  /\ ~everPaused => TwoD * toDate >= exact - TwoD * (settlements + 1)
NoOpenSecondForfeited ==
  /\ NotForfeited(KingToDate, kingExact, KING_EMISSION_FLOOR)
  /\ NotForfeited(FurnaceToDate, furnaceExact, FURNACE_EMISSION_FLOOR)

(* Neither minted in excess nor forfeited: see the two parts.              *)
EmissionIsExact == NeverOverMints /\ NoOpenSecondForfeited
=============================================================================
