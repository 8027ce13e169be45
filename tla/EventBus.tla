------------------------------ MODULE EventBus ------------------------------
(***************************************************************************)
(* The keeper's WebSocket event bus: keeper/src/run/event_bus.ts over the  *)
(* sockets of shared/rpc_ws.ts.  A socket is dialled, is given the         *)
(* subscriptions, listens, and closes, by itself or because it was asked   *)
(* to; its close is noticed later, when a newer socket may be in use.      *)
(***************************************************************************)
EXTENDS Integers

CONSTANTS
  Sockets,    \* bound on the sockets at one time
  NoSocket    \* #rpc is null

ASSUME EventBusAssumption == NoSocket \notin Sockets

VARIABLES
  bus,        \* #state
  socket,     \* what each socket is doing
  current,    \* #rpc
  timer,      \* #backoffTimer is set
  stopped     \* #stopRequested

busVars == <<bus, socket, current, timer, stopped>>

BusInit ==
  /\ bus = "stopped" /\ socket = [c \in Sockets |-> "none"]
  /\ current = NoSocket /\ timer = FALSE /\ stopped = FALSE

Become(c, state) == socket' = [socket EXCEPT ![c] = state]

(* #connectWithRetry, by start() or by the timer: a new socket is dialled.  *)
Dial(c) ==
  /\ socket[c] = "none" /\ Become(c, "dialing") /\ bus' = "connecting"
  /\ UNCHANGED <<current, stopped>>

StartBus(c) == bus = "stopped" /\ ~stopped /\ Dial(c) /\ UNCHANGED timer
Reconnect(c) == timer /\ timer' = FALSE /\ Dial(c)

(* #scheduleReconnect, in the one timer.                                   *)
ScheduleReconnect == timer' = ~stopped

Connected(c) ==
  /\ socket[c] = "dialing" /\ Become(c, "installing")
  /\ bus' = "open" /\ current' = c
  /\ UNCHANGED <<timer, stopped>>

(* The failed connect; the socket's close event comes to the same.         *)
ConnectFails(c) ==
  /\ socket[c] = "dialing" /\ Become(c, "none")
  /\ bus' = "backoff" /\ ScheduleReconnect
  /\ UNCHANGED <<current, stopped>>

(* #installSubscriptions: the socket that refuses one is asked to close.   *)
Installed(c) ==
  /\ socket[c] = "installing" /\ Become(c, "live")
  /\ UNCHANGED <<bus, current, timer, stopped>>

InstallFails(c) ==
  /\ socket[c] = "installing" /\ Become(c, "closing")
  /\ bus' = "backoff" /\ ScheduleReconnect
  /\ UNCHANGED <<current, stopped>>

(* onClose of any socket, the one in use or an older one.                  *)
SocketCloses(c) ==
  /\ socket[c] \in {"installing", "live", "closing"} /\ Become(c, "none")
  /\ IF stopped THEN UNCHANGED <<bus, timer>> ELSE bus' = "backoff" /\ ScheduleReconnect
  /\ UNCHANGED <<current, stopped>>

StopBus ==
  /\ ~stopped /\ bus # "stopped"
  /\ stopped' = TRUE /\ bus' = "stopped" /\ timer' = FALSE /\ current' = NoSocket
  /\ socket' = [c \in Sockets |-> IF c = current /\ socket[c] # "none" THEN "closing" ELSE socket[c]]

(* What the network does with a dialled socket, and the bus by itself.     *)
Attempt(c) == Connected(c) \/ ConnectFails(c) \/ Installed(c) \/ InstallFails(c)

BusNext ==
  \/ \E c \in Sockets : StartBus(c) \/ Reconnect(c) \/ Attempt(c) \/ SocketCloses(c)
  \/ StopBus

(* An attempt ends, the timer fires, a socket asked to close does, and not *)
(* every attempt fails.                                                    *)
BusFairness ==
  /\ \A c \in Sockets :
       /\ WF_busVars(Attempt(c))
       /\ SF_busVars(Connected(c)) /\ SF_busVars(Installed(c))
       /\ WF_busVars(socket[c] = "closing" /\ SocketCloses(c))
  /\ WF_busVars(\E c \in Sockets : StartBus(c) \/ Reconnect(c))

BusSpec == BusInit /\ [][BusNext]_busVars /\ BusFairness

-----------------------------------------------------------------------------
(* Properties.                                                             *)

(* type invariant *)
BusTypeOK ==
  /\ bus \in {"stopped", "connecting", "open", "backoff"}
  /\ socket \in [Sockets -> {"none", "dialing", "installing", "live", "closing"}]
  /\ current \in Sockets \cup {NoSocket}
  /\ timer \in BOOLEAN /\ stopped \in BOOLEAN

(* While the bus calls itself open, and the daemon polls at the slow pace   *)
(* for that, the socket in use is up; a late close of an older one errs on *)
(* the side of polling.                                                    *)
OpenMeansListening ==
  bus = "open" /\ ~stopped => current # NoSocket /\ socket[current] \in {"installing", "live"}

(* However its sockets fail, a bus that is not stopped listens again.      *)
ListensAgain == []<>(stopped \/ \E c \in Sockets : socket[c] = "live")
=============================================================================
