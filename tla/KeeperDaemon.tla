---------------------------- MODULE KeeperDaemon ----------------------------
(***************************************************************************)
(* The interval loop of keeper/src/run/daemon.ts with the event bus: which *)
(* task runs when.  A task polls at its interval; a hot one polls slowly   *)
(* while the bus is open and is brought forward by the logs it delivers.   *)
(*                                                                         *)
(* Times are ticks until a task is due or since it ended.  What there is   *)
(* to do for a task on the chain is new, seen by the run that read it, or  *)
(* none.                                                                   *)
(***************************************************************************)
EXTENDS EventBus, FiniteSets

CONSTANTS
  COLD, HOT,   \* numbers of tasks, in the order of TASK_PRIORITY: cold, then hot
  INTERVAL,    \* the polling interval
  SAFETYNET,   \* safetyNetIntervalSecs: of a hot task while the bus is open
  MINREPEAT,   \* eventMinRepeatSecs
  TIMEOUT,     \* taskTimeoutMs
  MaxMishaps   \* bound on the failed and overlong runs, and the restarts

ASSUME KeeperDaemonAssumption ==
  /\ COLD \in Nat /\ HOT \in Nat \ {0}
  /\ MINREPEAT \in Nat /\ TIMEOUT \in Nat \ {0} /\ MaxMishaps \in Nat
  /\ INTERVAL \in Nat \ {0, 1} /\ MINREPEAT < INTERVAL
  /\ SAFETYNET \in Nat /\ INTERVAL <= SAFETYNET

Tasks == 1..(COLD + HOT)
Hot   == (COLD + 1)..(COLD + HOT)

VARIABLES
  dwork,     \* what there is to do for each task
  nextIn,    \* nextRunAtMs, as ticks to go
  ended,     \* lastRunEndMs, as ticks since, up to MINREPEAT
  attempted, \* lastAttemptByTask in status.json, as ticks since, up to INTERVAL
  due,       \* the tasks of this pass of the loop still to run
  running,   \* the task under way, or 0
  runFor,    \* for how long
  sleep,     \* the rest of the idle sleep
  mishaps

daemonOnly == <<dwork, nextIn, ended, attempted, due, running, runFor, sleep, mishaps>>
daemonVars == <<busVars, daemonOnly>>

LesserOf(S) == CHOOSE a \in S : \A b \in S : a <= b
Earliest == LesserOf({nextIn[t] : t \in Tasks})

DaemonInit ==
  /\ BusInit
  /\ dwork = [t \in Tasks |-> "none"]
  /\ nextIn = [t \in Tasks |-> 0] /\ ended = [t \in Tasks |-> MINREPEAT]
  /\ attempted = [t \in Tasks |-> INTERVAL]
  /\ due = {} /\ running = 0 /\ runFor = 0 /\ sleep = 0 /\ mishaps = 0

-----------------------------------------------------------------------------
(* The loop.                                                               *)

Mishap == mishaps < MaxMishaps /\ mishaps' = mishaps + 1

NextPassWithoutHot ==                   \* mutant: logs alone run the hot tasks
  /\ running = 0 /\ due = {} /\ sleep = 0
  /\ due' = {t \in Tasks : nextIn[t] = 0 /\ (bus = "open" => t \notin Hot)}
  /\ sleep' = Earliest
  /\ UNCHANGED <<dwork, nextIn, ended, attempted, running, runFor, mishaps>>

(* A pass: the tasks that are due, or the idle sleep to the next one.      *)
NextPass ==
  /\ running = 0 /\ due = {} /\ sleep = 0
  /\ due' = {t \in Tasks : nextIn[t] = 0}
  /\ sleep' = Earliest
  /\ UNCHANGED <<dwork, nextIn, ended, attempted, running, runFor, mishaps>>

(* The run reads the chain when it starts.                                 *)
StartRun(t) ==
  /\ running = 0 /\ t \in due /\ \A u \in due : t <= u
  /\ due' = due \ {t} /\ running' = t /\ runFor' = 0
  /\ dwork' = [dwork EXCEPT ![t] = IF @ = "new" THEN "seen" ELSE @]
  /\ UNCHANGED <<nextIn, ended, attempted, sleep, mishaps>>

(* computeWsStatus and effectiveIntervalMsForTask, with the jitter; within *)
(* the grace after a disconnection the safety net is kept.                 *)
Jittered(d) == {d, d - 1}
NextDelays(t) ==
  IF t \notin Hot THEN Jittered(INTERVAL)
  ELSE IF bus = "open" THEN Jittered(SAFETYNET) ELSE Jittered(INTERVAL) \cup Jittered(SAFETYNET)

(* However the run ends, and whatever came meanwhile, the task is due an   *)
(* interval later.                                                         *)
EndRun(t, outcome) ==
  /\ running = t /\ running' = 0 /\ runFor' = 0
  /\ dwork' = [dwork EXCEPT ![t] = IF @ = "seen" THEN outcome ELSE @]
  /\ ended' = [ended EXCEPT ![t] = 0] /\ attempted' = [attempted EXCEPT ![t] = 0]
  /\ \E d \in NextDelays(t) : nextIn' = [nextIn EXCEPT ![t] = d]
  /\ UNCHANGED <<due, sleep>>

RunSucceeds(t) == EndRun(t, "none") /\ UNCHANGED mishaps
RunFails(t)    == EndRun(t, "new") /\ Mishap

(* withTimeout: the loop goes on, the run itself may still do its work.    *)
RunTimesOut(t) ==
  /\ runFor = TIMEOUT /\ \E outcome \in {"none", "new"} : EndRun(t, outcome)
  /\ Mishap

(* The process is started again, over a new bus; of the schedule only the  *)
(* last attempts are left.                                                 *)
RestartDaemon ==
  /\ Mishap
  /\ bus' = "stopped" /\ socket' = [c \in Sockets |-> "none"] /\ current' = NoSocket
  /\ timer' = FALSE /\ stopped' = FALSE
  /\ nextIn' = [t \in Tasks |-> INTERVAL - attempted[t]]
  /\ ended' = [t \in Tasks |-> MINREPEAT]
  /\ due' = {} /\ running' = 0 /\ runFor' = 0 /\ sleep' = 0
  /\ dwork' = [t \in Tasks |-> IF dwork[t] = "seen" THEN "new" ELSE dwork[t]]
  /\ UNCHANGED attempted

-----------------------------------------------------------------------------
(* Events.                                                                 *)

(* decideEventTrigger for a log that a live socket delivers: a task that   *)
(* is due, as it also is while it runs, is left alone; the others run at   *)
(* once, or when their minimal distance is over, and the sleep is cut.     *)
OnEventTrigger(t) ==
  IF nextIn[t] = 0 \/ MINREPEAT - ended[t] >= nextIn[t]
  THEN UNCHANGED <<nextIn, sleep>>
  ELSE nextIn' = [nextIn EXCEPT ![t] = MINREPEAT - ended[t]] /\ sleep' = 0

(* Something to do comes up on the chain, and every live socket tells; the *)
(* tasks that are not hot are not subscribed.                              *)
ChainEvent(t) ==
  /\ dwork[t] # "new" /\ dwork' = [dwork EXCEPT ![t] = "new"]
  /\ IF t \in Hot /\ \E c \in Sockets : socket[c] = "live"
     THEN OnEventTrigger(t) ELSE UNCHANGED <<nextIn, sleep>>
  /\ UNCHANGED <<ended, attempted, due, running, runFor, mishaps>>

Down(n) == IF n > 0 THEN n - 1 ELSE 0
Upto(n, bound) == IF n < bound THEN n + 1 ELSE n

(* Time passes while a task runs or the loop sleeps.  A task under way     *)
(* stays due until it ends.                                                *)
DaemonTick ==
  /\ IF running # 0 THEN runFor < TIMEOUT ELSE sleep > 0
  /\ nextIn' = [t \in Tasks |-> Down(nextIn[t])] /\ sleep' = Down(sleep)
  /\ ended' = [t \in Tasks |-> Upto(ended[t], MINREPEAT)]
  /\ attempted' = [t \in Tasks |-> Upto(attempted[t], INTERVAL)]
  /\ runFor' = IF running # 0 THEN runFor + 1 ELSE 0
  /\ UNCHANGED <<dwork, due, running, mishaps>>

DaemonStep ==
  \/ NextPass
  \/ \E t \in Tasks : StartRun(t) \/ RunSucceeds(t) \/ RunFails(t) \/ RunTimesOut(t)

DaemonNext ==
  \/ UNCHANGED busVars /\ (DaemonStep \/ DaemonTick \/ \E t \in Tasks : ChainEvent(t))
  \/ RestartDaemon
  \/ BusNext /\ ~stopped' /\ UNCHANGED daemonOnly

(* The loop goes on and time passes; the bus is given no fairness, since   *)
(* polling has to do without it.                                           *)
DaemonFairness ==
  /\ WF_daemonVars(UNCHANGED busVars /\ DaemonStep)
  /\ WF_daemonVars(UNCHANGED busVars /\ DaemonTick)

DaemonSpec == DaemonInit /\ [][DaemonNext]_daemonVars /\ DaemonFairness

-----------------------------------------------------------------------------
(* Properties.                                                             *)

(* type invariant *)
DaemonTypeOK ==
  /\ BusTypeOK
  /\ dwork \in [Tasks -> {"none", "new", "seen"}]
  /\ nextIn \in [Tasks -> 0..SAFETYNET]
  /\ ended \in [Tasks -> 0..MINREPEAT] /\ attempted \in [Tasks -> 0..INTERVAL]
  /\ due \subseteq Tasks /\ running \in Tasks \cup {0}
  /\ runFor \in 0..TIMEOUT /\ sleep \in 0..SAFETYNET /\ mishaps \in 0..MaxMishaps

(* The loop never sleeps past a task: what becomes due earlier than it was *)
(* when the sleep began cuts the sleep.                                    *)
NoOversleep == sleep > 0 => sleep <= Earliest

(* A burst of logs does not run a task again within its minimal distance,  *)
(* on whichever socket and in whichever state of the bus they come.        *)
EventsDoNotHammer == [][\A t \in Tasks : StartRun(t) => ended[t] = MINREPEAT]_daemonVars

(* What there is to do is seen, at the latest by the poll, though sockets  *)
(* fail, logs are lost, runs fail and the process restarts.                *)
WorkIsSeen == \A t \in Tasks : dwork[t] = "new" ~> dwork[t] # "new"
=============================================================================
