----------------------------- MODULE Settlement -----------------------------
(***************************************************************************)
(* The settlement windows of keeper/src/run/settlement.ts, as the loop of  *)
(* run/daemon.ts drives them: which window is opened when, what is left to *)
(* do in it, and what of that a restart finds in settlement.json.          *)
(*                                                                         *)
(* Times are ticks of an absolute clock; when it has run for a WEEK, all   *)
(* of them are taken back by a WEEK.                                       *)
(***************************************************************************)
EXTENDS Integers

CONSTANTS
  DAY,          \* a daily period, and the longest window, in ticks
  WEEK,         \* a weekly period
  BATCHES,      \* the most batches a window's users make
  SameAnchor,   \* a restart may only shorten the period, or reconfigure all
  MaxIncidents  \* bound on the crashes, lost files and reconfigurations

ASSUME SettlementAssumption ==
  /\ DAY \in Nat \ {0} /\ WEEK \in Nat \ {0, DAY} /\ WEEK % DAY = 0
  /\ BATCHES \in Nat /\ SameAnchor \in BOOLEAN /\ MaxIncidents \in Nat

VARIABLES
  sClock,      \* now
  sConfig,     \* [period, duration, anchor]: the settlement settings
  sMem,        \* SettlementState of the daemon: [next, open, close, phase, done,
               \* harvest, batches]; the last is how many are left of those scheduled
  sDisk,       \* the same in settlement.json, or NoState
  sAt,         \* where the daemon's loop is
  sIncidents,
  sOpened,     \* history: the last window that was opened
  sSince       \* history: windows opened since the settings changed, up to 2

sVars == <<sClock, sConfig, sMem, sDisk, sAt, sIncidents, sOpened, sSince>>

Immediate == <<"compound-lp", "automax-bonus">>

Configs == [period : {DAY, WEEK}, duration : 1..DAY, anchor : 0..(WEEK - 1)]
IsAnchor(c, w) == (w - c.anchor) % c.period = 0

(* computeNextWindowMs: the first anchor after now; the day of the week    *)
(* counts only for a weekly period.                                        *)
NextWindow(c, now) == CHOOSE w \in (now + 1)..(now + c.period) : IsAnchor(c, w)

Unscheduled   == -1
NoCycle(next) == [next |-> next, open |-> 0, close |-> 0, phase |-> "none", done |-> {},
                  harvest |-> FALSE, batches |-> Unscheduled]
NoState    == [NoCycle(0) EXCEPT !.phase = "lost"]

(* loadSettlementState: without a file the schedule starts anew; an idle   *)
(* schedule more than a period away is anchored anew, the cadence having   *)
(* been shortened.                                                         *)
Loaded(c, file, now) ==
  IF file.phase = "lost" THEN NoCycle(NextWindow(c, now))
  ELSE IF file.phase = "none" /\ file.next - now > c.period
  THEN NoCycle(NextWindow(c, now)) ELSE file

(* openCycle and closeCycle: a window closes by the duration it opened     *)
(* with, whatever the settings say later.  The next one is a whole number  *)
(* of periods after the one that closes, the first that has not yet        *)
(* elapsed.                                                                *)
Opened(c, s) == [s EXCEPT !.open = s.next, !.close = s.next + c.duration, !.phase = "immediate"]
NextAfterNow(c, s, now) == NextWindow(c, now)   \* mutant: from the time it closes
NextAfter(c, s, now) ==
  CHOOSE w \in {s.open + k * c.period : k \in 1..(3 * WEEK)} :
    w + c.duration > now /\ \A v \in (s.open + 1)..(w - 1) :
      (v - s.open) % c.period = 0 => v + c.duration <= now
Closed(c, s, now) == NoCycle(NextAfter(c, s, now))

ImmediateComplete(s) == \A i \in 1..2 : Immediate[i] \in s.done
markImmediateTaskDone(s, task) == [s EXCEPT !.done = @ \cup {task}]
transitionToSpread(s) == [s EXCEPT !.phase = "spread"]
markHarvestDone(s) == [s EXCEPT !.harvest = TRUE]
scheduleBatches == 1..BATCHES   \* how many the users make, if there is one
populateSpreadBatches(s, n) == [s EXCEPT !.batches = n]
markBatchCompleted(s) == [s EXCEPT !.batches = @ - 1]
isSpreadPhaseComplete(s) == s.harvest /\ s.batches <= 0

SettlementInit ==
  /\ sClock = 0 /\ sConfig \in Configs
  /\ sMem = NoCycle(NextWindow(sConfig, 0)) /\ sDisk = NoState /\ sAt = "top"
  /\ sIncidents = 0 /\ sOpened = 0 /\ sSince = 2

(* persistSettlement comes with every change.                              *)
Keep(s) == sMem' = s /\ sDisk' = s

Same == UNCHANGED <<sClock, sConfig, sIncidents>>
SameHistory == UNCHANGED <<sOpened, sSince>>

-----------------------------------------------------------------------------
(* The loop.                                                               *)

CloseElapsedInSpread ==                 \* mutant: a failing task keeps it open
  /\ sAt = "top" /\ sAt' = "due"
  /\ IF sMem.phase = "spread" /\ sClock >= sMem.close
     THEN Keep(Closed(sConfig, sMem, sClock)) ELSE UNCHANGED <<sMem, sDisk>>
  /\ Same /\ SameHistory

CloseElapsed ==
  /\ sAt = "top" /\ sAt' = "due"
  /\ IF sMem.phase # "none" /\ sClock >= sMem.close
     THEN Keep(Closed(sConfig, sMem, sClock)) ELSE UNCHANGED <<sMem, sDisk>>
  /\ Same /\ SameHistory

OpenDue ==
  /\ sAt = "due" /\ sMem.phase = "none" /\ sClock >= sMem.next
  /\ Keep(Opened(sConfig, sMem)) /\ sAt' = "immediate-1"
  /\ sOpened' = sMem.next /\ sSince' = (IF sSince < 2 THEN sSince + 1 ELSE 2)
  /\ Same

NothingToOpen ==
  /\ sAt = "due" /\ (sMem.phase # "none" \/ sClock < sMem.next)
  /\ sAt' = CASE sMem.phase = "immediate" -> "immediate-1"
              [] sMem.phase = "spread"    -> "spread"
              [] OTHER                    -> "tasks"
  /\ UNCHANGED <<sMem, sDisk>> /\ Same /\ SameHistory

(* The immediate tasks in their order: one that is done is passed over,    *)
(* one that fails or takes too long stays to be done.                      *)
RunImmediate(i) ==
  /\ sAt = (IF i = 1 THEN "immediate-1" ELSE "immediate-2")
  /\ sAt' = (IF i = 1 THEN "immediate-2" ELSE "transition")
  /\ \/ Keep(markImmediateTaskDone(sMem, Immediate[i]))
     \/ Immediate[i] \notin sMem.done /\ Keep(sMem)
  /\ Same /\ SameHistory

TransitionToSpread ==
  /\ sAt = "transition"
  /\ \/ ImmediateComplete(sMem) /\ Keep(transitionToSpread(sMem)) /\ sAt' = "spread"
     \/ ~ImmediateComplete(sMem) /\ sAt' = "tasks" /\ UNCHANGED <<sMem, sDisk>>
  /\ Same /\ SameHistory

(* harvest-staking, once in a cycle that it succeeds in.                   *)
RunHarvest ==
  /\ sAt = "spread" /\ sAt' = "schedule"
  /\ \/ sMem.harvest /\ UNCHANGED <<sMem, sDisk>>
     \/ ~sMem.harvest /\ (Keep(markHarvestDone(sMem)) \/ Keep(sMem))
  /\ Same /\ SameHistory

(* The users are dealt into batches over the window when the settings have *)
(* compounding done in it; without a user there is nothing to remember.    *)
ScheduleBatches ==
  /\ sAt = "schedule" /\ sAt' = "batch"
  /\ \/ UNCHANGED <<sMem, sDisk>>
     \/ /\ sMem.batches = Unscheduled
        /\ \E n \in scheduleBatches : Keep(populateSpreadBatches(sMem, n))
  /\ Same /\ SameHistory

(* The first batch that is left, when its time has come: it succeeds, or it *)
(* fails and is tried again, at the next round that its backoff is over.   *)
RunBatch ==
  /\ sAt = "batch" /\ sMem.batches > 0
  /\ \/ (Keep(markBatchCompleted(sMem)) \/ Keep(sMem)) /\ sAt' = "finish"
     \/ sAt' = "top" /\ UNCHANGED <<sMem, sDisk>>
  /\ Same /\ SameHistory

(* None is left, or the first is not due or waits for the price.           *)
WaitForBatch ==
  /\ sAt = "batch" /\ sAt' = "finish"
  /\ UNCHANGED <<sMem, sDisk>> /\ Same /\ SameHistory

(* With nothing left the cycle closes and the loop goes round at once; or  *)
(* it goes on to the interval tasks and their sleep.                       *)
CloseComplete ==
  /\ sAt = "finish"
  /\ \/ isSpreadPhaseComplete(sMem) /\ Keep(Closed(sConfig, sMem, sClock)) /\ sAt' = "top"
     \/ ~isSpreadPhaseComplete(sMem) /\ sAt' = "tasks" /\ UNCHANGED <<sMem, sDisk>>
  /\ Same /\ SameHistory

IntervalTasks ==
  /\ sAt = "tasks" /\ sAt' = "top"
  /\ UNCHANGED <<sMem, sDisk>> /\ Same /\ SameHistory

-----------------------------------------------------------------------------
(* The environment.                                                        *)

Incident == sIncidents < MaxIncidents /\ sIncidents' = sIncidents + 1

Exit ==
  /\ sAt # "down" /\ Incident /\ sAt' = "down"
  /\ UNCHANGED <<sClock, sConfig, sMem, sDisk, sOpened, sSince>>

(* A start finds what was written last, and may come with other settings.  *)
(* Without a file the windows of the past are forgotten.                   *)
Restart(c) ==
  /\ sAt = "down" /\ sAt' = "top"
  /\ sConfig' = c
  /\ IF c = sConfig THEN UNCHANGED <<sIncidents, sSince>> ELSE Incident /\ sSince' = 0
  /\ SameAnchor => c.period <= sConfig.period /\ c.anchor = sConfig.anchor
  /\ sMem' = Loaded(c, sDisk, sClock)
  /\ sOpened' = IF sDisk.phase = "lost" THEN sClock ELSE sOpened
  /\ UNCHANGED <<sClock, sDisk>>

LoseFile ==
  /\ sDisk.phase # "lost" /\ Incident /\ sDisk' = NoState
  /\ UNCHANGED <<sClock, sConfig, sMem, sAt, sOpened, sSince>>

(* Time passes while tasks run, in the idle sleep, and while the keeper is *)
(* down; a clock that is two weeks late waits for it.                      *)
Earlier(s) == [s EXCEPT !.next = @ - WEEK, !.open = IF s.phase = "none" THEN 0 ELSE @ - WEEK,
                        !.close = IF s.phase = "none" THEN 0 ELSE @ - WEEK]
MinusWeek(w) == IF w < -WEEK THEN -2 * WEEK ELSE w - WEEK

Elapse ==
  /\ sAt \in {"immediate-1", "immediate-2", "spread", "batch", "tasks", "down"}
  /\ IF sClock < WEEK - 1
     THEN sClock' = sClock + 1 /\ UNCHANGED <<sMem, sDisk, sOpened>>
     ELSE /\ sMem.next >= 0 /\ sClock' = 0
          /\ sMem' = Earlier(sMem) /\ sOpened' = MinusWeek(sOpened)
          /\ sDisk' = IF sDisk.phase = "lost" THEN NoState ELSE Earlier(sDisk)
  /\ UNCHANGED <<sConfig, sAt, sIncidents, sSince>>

SettlementLoop ==
  \/ CloseElapsed \/ OpenDue \/ NothingToOpen
  \/ RunImmediate(1) \/ RunImmediate(2) \/ TransitionToSpread
  \/ RunHarvest \/ ScheduleBatches \/ RunBatch \/ WaitForBatch \/ CloseComplete \/ IntervalTasks

SettlementNext ==
  \/ SettlementLoop \/ Elapse \/ Exit \/ LoseFile
  \/ \E c \in Configs : Restart(c)

(* The daemon's loop goes on, its supervisor restarts it, and time passes: *)
(* each of its rounds sleeps, runs a task or waits for a batch's backoff.  *)
SettlementFairness ==
  /\ WF_sVars(SettlementLoop) /\ SF_sVars(Elapse)
  /\ WF_sVars(\E c \in Configs : Restart(c))

SettlementSpec == SettlementInit /\ [][SettlementNext]_sVars /\ SettlementFairness

-----------------------------------------------------------------------------
(* Properties.                                                             *)

States == [next : (-2 * WEEK)..(2 * WEEK), open : (-2 * WEEK)..(2 * WEEK),
           close : (-2 * WEEK)..(2 * WEEK + DAY),
           phase : {"none", "immediate", "spread", "lost"},
           done : SUBSET {Immediate[i] : i \in 1..2}, harvest : BOOLEAN,
           batches : Unscheduled..BATCHES]

(* type invariant *)
SettlementTypeOK ==
  /\ sClock \in 0..(WEEK - 1) /\ sConfig \in Configs
  /\ sMem \in States /\ sDisk \in States /\ sMem.phase # "lost"
  /\ sAt \in {"top", "due", "immediate-1", "immediate-2", "transition", "spread",
             "schedule", "batch", "finish", "tasks", "down"}
  /\ sIncidents \in 0..MaxIncidents /\ sOpened \in (-2 * WEEK)..WEEK /\ sSince \in 0..2

(* A window is opened once, whatever is lost between its steps: neither a   *)
(* crash in the middle of a cycle nor a file written anew brings it back.  *)
WindowsOpenOnce == [][OpenDue => sMem.next > sOpened]_sVars

(* No window is passed over while it can still be used, however late the   *)
(* cycle before it closes and however long the keeper was down.            *)
NoActiveWindowSkipped ==
  sAt # "down" /\ sSince = 2 =>
    \A w \in (sOpened + 1)..sClock :
      IsAnchor(sConfig, w) /\ w < sMem.next => w + sConfig.duration <= sClock

(* The windows are where the settings say.                                 *)
AnchorFollowsConfig ==
  sAt # "down" /\ sMem.phase # "none" /\ sSince = 2 => IsAnchor(sConfig, sMem.open)

(* Cycles neither get stuck, when a task fails for ever, nor stop coming.   *)
SettlementGoesOn == ([]<>(sMem.phase = "none")) /\ ([]<>(sMem.phase # "none"))
=============================================================================
