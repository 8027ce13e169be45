------------------------------ MODULE KeeperTx ------------------------------
(***************************************************************************)
(* How a keeper sends a transaction, and what makes it stop:               *)
(* sendContractTx of keeper/src/shared/tx.ts between the pause file        *)
(* (shared/pause.ts) and the circuit breaker (shared/circuit_breaker.ts).  *)
(*                                                                         *)
(* Several sends can be under way at once: a task that passed its soft     *)
(* timeout goes on behind the next one.  One step is what a send does      *)
(* between two awaits; the pause file and the breaker's state file are     *)
(* read and written in such a step, and outlive the process.               *)
(***************************************************************************)
EXTENDS Integers, FiniteSets

CONSTANTS
  Senders,     \* the sends that can be under way at once
  MAXFAILURES, \* bound on circuitBreakerMaxFailures
  COOLDOWN,    \* circuitBreakerCooldownMs, in ticks
  MaxOrphans,  \* bound on the pending transactions nobody waits for
  MaxFaults    \* bound on crashes, failed writes, bad files, operator's acts

ASSUME KeeperTxAssumption ==
  /\ IsFiniteSet(Senders)
  /\ MAXFAILURES \in Nat \ {0} /\ COOLDOWN \in Nat \ {0}
  /\ MaxOrphans \in Nat /\ MaxFaults \in Nat

VARIABLES
  maxFailures,\* circuitBreakerMaxFailures, of a configuration
  pauseFile,  \* [kind, left]: an operator's text, or the breaker's JSON
  breaker,    \* circuit_breaker.json: [corrupt, failures, tripped, left]
  at,         \* where each send is
  tx,         \* what the network has done with its transaction
  orphans,    \* pending transactions of sends that have ended
  faults,
  late,       \* history: transactions submitted since the keeper must stop
  streak      \* history: failures counted since a success or a cooldown

txVars == <<maxFailures, pauseFile, breaker, at, tx, orphans, faults, late, streak>>

NoPause   == [kind |-> "none", left |-> 0]
Cleared   == [corrupt |-> FALSE, failures |-> 0, tripped |-> FALSE, left |-> 0]
Larger(a, b) == IF a >= b THEN a ELSE b

(* Both files say until when: the pause file of a trip, and the state.     *)
FilePaused(f) == f.kind = "manual" \/ (f.kind = "breaker" /\ f.left > 0)

(* getPauseInfo removes a pause file whose time is over.                   *)
AutoCleared(f) == IF f.kind = "breaker" /\ f.left = 0 THEN NoPause ELSE f

(* A state that cannot be read stops the sends as a trip does.             *)
BreakerPausedForGood(b) == b.tripped   \* mutant: the time of the trip is not read
BreakerPaused(b) == b.tripped /\ b.left > 0
RefusesOnFile(f, b) == FilePaused(f)   \* mutant: the breaker's state is not asked
Refuses(f, b) == FilePaused(f) \/ b.corrupt \/ BreakerPaused(b)

(* After a cooldown the count starts again, and the first failure is a     *)
(* probe even when one would do.                                           *)
Expired(b)   == b.tripped /\ b.left = 0
Threshold(b) == IF Expired(b) THEN Larger(maxFailures, 2) ELSE maxFailures
CountedOneMore(b) ==                   \* mutant: one failure too many
  LET next == (IF Expired(b) THEN 0 ELSE b.failures) + 1
  IN [Cleared EXCEPT !.failures = next, !.tripped = next > Threshold(b),
                     !.left = IF next > Threshold(b) THEN COOLDOWN ELSE 0]
Counted(b) ==
  LET cur  == IF Expired(b) THEN Cleared ELSE b
      next == IF cur.failures > maxFailures + 8 THEN maxFailures + 10 ELSE cur.failures + 1
  IN IF next >= Threshold(b)
     THEN [cur EXCEPT !.failures = next, !.tripped = TRUE, !.left = COOLDOWN]
     ELSE [cur EXCEPT !.failures = next]
Trips(b) == Counted(b).failures >= Threshold(b)

TxInit ==
  /\ maxFailures \in 1..MAXFAILURES
  /\ pauseFile = NoPause /\ breaker = Cleared
  /\ at = [s \in Senders |-> "idle"] /\ tx = [s \in Senders |-> "none"]
  /\ orphans = 0 /\ faults = 0 /\ late = 0 /\ streak = 0

Pending == Cardinality({s \in Senders : tx[s] = "pending"}) + orphans

MustStop(f, b) ==
  f.kind = "manual" \/ f.left > 0 \/ b.corrupt \/ (b.tripped /\ b.left > 0)

(* What the history says when the files change: a stop is over, or holds.   *)
Stopping == late' = IF MustStop(pauseFile', breaker') THEN late ELSE 0

Fault == faults < MaxFaults /\ faults' = faults + 1

(* The transaction of a send that ends stays where it is.                  *)
Abandon(S) ==
  /\ orphans' = orphans + Cardinality({s \in S : tx[s] = "pending"})
  /\ orphans' <= MaxOrphans
  /\ tx' = [s \in Senders |-> IF s \in S THEN "none" ELSE tx[s]]

Finish(s) == at' = [at EXCEPT ![s] = "idle"] /\ Abandon({s})
SendGoto(s, step) == at' = [at EXCEPT ![s] = step] /\ UNCHANGED <<tx, orphans>>

(* recordTxFailure, and the state file it writes last.  A failed write of  *)
(* the pause file still trips the breaker; a failed write of the state     *)
(* loses the count, and a state that cannot be read is left alone.         *)
RecordTxFailure ==
  \/ /\ ~breaker.corrupt
     /\ breaker' = Counted(breaker) /\ streak' = streak + 1
     /\ \/ /\ pauseFile' = IF Trips(breaker) THEN [kind |-> "breaker", left |-> COOLDOWN]
                           ELSE pauseFile
           /\ UNCHANGED faults
        \/ Trips(breaker) /\ Fault /\ UNCHANGED pauseFile
  \/ /\ ~breaker.corrupt /\ Fault /\ UNCHANGED <<breaker, streak>>
     /\ pauseFile' = IF Trips(breaker) THEN [kind |-> "breaker", left |-> COOLDOWN]
                     ELSE pauseFile
  \/ breaker.corrupt /\ UNCHANGED <<breaker, streak, pauseFile, faults>>

-----------------------------------------------------------------------------
(* A send, from one await to the next.                                     *)

(* The pause file and the state are checked before anything is asked of    *)
(* the chain.                                                              *)
BeginSend(s) ==
  /\ at[s] = "idle"
  /\ pauseFile' = AutoCleared(pauseFile)
  /\ IF Refuses(pauseFile, breaker) THEN SendGoto(s, "idle") ELSE SendGoto(s, "guard")
  /\ UNCHANGED <<breaker, faults, streak>> /\ Stopping

(* pendingGuard: a skip while the account has a pending transaction, an    *)
(* error that is not recorded when the nonces cannot be read.  The skips   *)
(* of the fee caps end the send the same way.                              *)
PendingGuard(s) ==
  /\ at[s] = "guard"
  /\ \/ Pending = 0 /\ SendGoto(s, "estimate")
     \/ Finish(s)
  /\ UNCHANGED <<pauseFile, breaker, faults, late, streak>>

(* A failing estimate counts as a failure of the pipeline.                 *)
EstimateFails(s) ==
  /\ at[s] = "estimate"
  /\ RecordTxFailure /\ Finish(s)
  /\ Stopping

(* With the estimate in hand pause file and state are checked again, and   *)
(* what follows is the read of the balance.                                *)
Recheck(s) ==
  /\ at[s] = "estimate"
  /\ pauseFile' = AutoCleared(pauseFile)
  /\ \/ ~Refuses(pauseFile, breaker) /\ SendGoto(s, "submit")
     \/ Finish(s)
  /\ UNCHANGED <<breaker, faults, streak>> /\ Stopping

(* writeContract.                                                          *)
Submit(s) ==
  /\ at[s] = "submit"
  /\ tx' = [tx EXCEPT ![s] = "pending"] /\ at' = [at EXCEPT ![s] = "wait"]
  /\ late' = IF MustStop(pauseFile, breaker) THEN late + 1 ELSE 0
  /\ UNCHANGED <<pauseFile, breaker, orphans, faults, streak>>

(* It is refused: a fee cap is a skip, anything else a failure.            *)
SubmitFails(s) ==
  /\ at[s] = "submit" /\ Finish(s)
  /\ \/ RecordTxFailure /\ Stopping
     \/ UNCHANGED <<pauseFile, breaker, faults, late, streak>>

(* waitForReceiptWithConfirmations throws: a time-out, or the nonce was    *)
(* used by another transaction; or the receipt says reverted, or nothing.  *)
WaitFails(s) ==
  /\ at[s] = "wait"
  /\ RecordTxFailure /\ Finish(s)
  /\ Stopping

(* A receipt that is final and ok; the balance is compared with its cost.  *)
Confirmed(s) ==
  /\ at[s] = "wait" /\ tx[s] \in {"ok", "odd"}
  /\ SendGoto(s, tx[s])
  /\ UNCHANGED <<pauseFile, breaker, faults, late, streak>>

(* The audit finds a payout out of bounds, records it and posts an alert.  *)
PayoutViolation(s) ==
  /\ at[s] = "odd"
  /\ RecordTxFailure /\ SendGoto(s, "ok")
  /\ Stopping

(* A confirmed transaction clears the state, unless the write fails.       *)
RecordTxSuccess(s) ==
  /\ at[s] = "ok" /\ Finish(s)
  /\ \/ ~breaker.corrupt /\ breaker' = Cleared /\ streak' = 0 /\ UNCHANGED faults
     \/ breaker.corrupt /\ UNCHANGED <<breaker, streak, faults>>
     \/ ~breaker.corrupt /\ Fault /\ UNCHANGED <<breaker, streak>>
  /\ UNCHANGED pauseFile /\ Stopping

-----------------------------------------------------------------------------
(* The network, the clock, the operator.                                   *)

(* A pending transaction is included, and may come out of the chain again  *)
(* in a reorganisation, as long as it is not final.                        *)
MineSend(s) ==
  /\ tx[s] = "pending" /\ \E o \in {"ok", "odd", "bad"} : tx' = [tx EXCEPT ![s] = o]
  /\ UNCHANGED <<pauseFile, breaker, at, orphans, faults, late, streak>>

Reorg(s) ==
  /\ at[s] = "wait" /\ tx[s] \in {"ok", "odd", "bad"} /\ Fault
  /\ tx' = [tx EXCEPT ![s] = "pending"]
  /\ UNCHANGED <<pauseFile, breaker, at, orphans, late, streak>>

MineOrphan ==
  /\ orphans > 0 /\ orphans' = orphans - 1
  /\ UNCHANGED <<pauseFile, breaker, at, tx, faults, late, streak>>

Less(n) == IF n > 0 THEN n - 1 ELSE 0

Pass ==
  /\ pauseFile.left > 0 \/ breaker.left > 0
  /\ pauseFile' = [pauseFile EXCEPT !.left = Less(@)]
  /\ breaker' = [breaker EXCEPT !.left = Less(@)]
  /\ streak' = IF breaker.left = 1 THEN 0 ELSE streak
  /\ UNCHANGED <<at, tx, orphans, faults>> /\ Stopping

(* The process dies; a restarted one has only the two files.               *)
CrashAll ==
  /\ \E s \in Senders : at[s] # "idle"
  /\ Fault /\ at' = [s \in Senders |-> "idle"] /\ Abandon(Senders)
  /\ UNCHANGED <<pauseFile, breaker, late, streak>>

(* An operator pauses, lifts a pause, or repairs the state by removing it.  *)
Operator ==
  /\ Fault /\ UNCHANGED <<at, tx, orphans>>
  /\ \/ /\ pauseFile' \in {NoPause, [kind |-> "manual", left |-> 0]}
        /\ UNCHANGED <<breaker, streak>>
     \/ /\ breaker.corrupt /\ breaker' = Cleared /\ streak' = 0
        /\ UNCHANGED pauseFile
  /\ Stopping

CorruptState ==
  /\ Fault /\ breaker' = [Cleared EXCEPT !.corrupt = TRUE] /\ streak' = 0
  /\ UNCHANGED <<pauseFile, at, tx, orphans>> /\ Stopping

Send(s) ==
  \/ PendingGuard(s) \/ EstimateFails(s) \/ Recheck(s) \/ Submit(s) \/ SubmitFails(s)
  \/ WaitFails(s) \/ Confirmed(s) \/ PayoutViolation(s) \/ RecordTxSuccess(s)

TxNext ==
  /\ \/ \E s \in Senders : BeginSend(s) \/ Send(s) \/ MineSend(s) \/ Reorg(s)
     \/ MineOrphan \/ Pass \/ CrashAll \/ Operator \/ CorruptState
  /\ UNCHANGED maxFailures

(* A send gets on, since each of its calls has a time-out, and time passes. *)
TxFairness ==
  /\ \A s \in Senders : WF_txVars(Send(s) /\ UNCHANGED maxFailures)
  /\ WF_txVars(Pass /\ UNCHANGED maxFailures)

TxSpec == TxInit /\ [][TxNext]_txVars /\ TxFairness

-----------------------------------------------------------------------------
(* Properties.                                                             *)

(* type invariant *)
TxTypeOK ==
  /\ maxFailures \in 1..MAXFAILURES
  /\ pauseFile \in [kind : {"none", "manual", "breaker"}, left : 0..COOLDOWN]
  /\ breaker \in [corrupt : BOOLEAN, failures : 0..(MAXFAILURES + 10),
                  tripped : BOOLEAN, left : 0..COOLDOWN]
  /\ at \in [Senders -> {"idle", "guard", "estimate", "submit", "wait", "odd", "ok"}]
  /\ tx \in [Senders -> {"none", "pending", "ok", "odd", "bad"}]
  /\ orphans \in 0..MaxOrphans /\ faults \in 0..MaxFaults
  /\ late \in Nat /\ streak \in Nat

(* The failures that count since a success or a cooldown are never as many *)
(* as the breaker allows with the keeper running; and once the keeper must *)
(* stop, for an operator's pause, a trip, or a state that cannot be read,  *)
(* only the sends that had passed their last check still submit, one       *)
(* transaction each: neither a failed write of the pause file nor a        *)
(* restart lets another through.                                           *)
FailuresTrip ==
  streak >= Larger(maxFailures, 2) => BreakerPaused(breaker) \/ breaker.corrupt
StopHolds == FailuresTrip /\ late <= Cardinality(Senders)

(* A trip is never for good: again and again the file and the state let a   *)
(* send through, unless an operator is asked for.                          *)
CooldownEnds ==
  []<>(pauseFile.kind = "manual" \/ breaker.corrupt \/ ~Refuses(AutoCleared(pauseFile), breaker))
=============================================================================
