----------------------------- MODULE AgentEvents -----------------------------
(***************************************************************************)
(* How the live agent follows the contracts: the event stream of events.ts *)
(* with one watcher for each contract and event, the subgraph backfill,    *)
(* and the EventCursor that remembers across restarts how far it got and   *)
(* which events it has handled.                                            *)
(*                                                                         *)
(* The watchers run beside each other, and handling an event waits twice:  *)
(* for its block's timestamp, and for its block's hash.  A block holds at  *)
(* most one event; its hash is the fork it was made on.                    *)
(***************************************************************************)
EXTENDS Integers, Sequences, SequencesExt

CONSTANTS
  Watchers,     \* contract and event name
  Events,       \* a set of [w, i]: an event, seen by watcher w
  Backfills,    \* values of EVENT_BACKFILL
  REWIND,       \* EVENT_CURSOR_REWIND_BLOCKS
  MAXKEYS,      \* EVENT_CURSOR_MAX_KEYS
  LIMIT,        \* EVENT_BACKFILL_LIMIT
  MAXDEPTH,     \* blocks a reorganisation replaces
  MaxStreamBlocks, MaxForks, MaxCrashes, MaxReadFaults,
  MaxStreamTroubles       \* the last three together

ASSUME AgentEventsAssumption ==
  /\ Backfills \subseteq BOOLEAN /\ \A e \in Events : e.w \in Watchers
  /\ REWIND \in Nat \ {0} /\ MAXKEYS \in Nat \ {0} /\ LIMIT \in Nat
  /\ MAXDEPTH \in 1..2 * REWIND + 1
  /\ {MaxStreamBlocks, MaxForks, MaxCrashes, MaxReadFaults, MaxStreamTroubles} \subseteq Nat

Quiet == [w |-> "none", i |-> 0]
NoLast == 0             \* no checkpoint: blocks are numbered from 1
NoHash == -1

VARIABLES
  backfill, \* whether the stream starts with the subgraph
  chain,    \* blocks: [ev, fork]
  saved,     \* event-cursor.json: [last, hash, keys]
  cursor,   \* the cursor in memory
  up,       \* the agent runs
  pos,      \* the next block each watcher asks for
  given,    \* dedupKeys of the stream: [ev, sub]
  hand,     \* the event each watcher's handler is at: [at, ev, block]
  seen,     \* history: how often an event was handled
  excused,  \* history: events whose record was cut off or rewound
  dropped,  \* history: events given up because their timestamp failed, or
            \* older than a start without a checkpoint
  forks, crashes, readFaults

eventVars == <<backfill, chain, saved, cursor, up, pos, given, hand, seen, excused, dropped,
               forks, crashes, readFaults>>

NoCursor == [last |-> NoLast, hash |-> NoHash, keys |-> <<>>]
FreeHand == [at |-> "idle", ev |-> Quiet, block |-> 0]

EventsInit ==
  /\ backfill \in Backfills /\ chain = <<>>
  /\ saved = NoCursor /\ cursor = NoCursor /\ up = FALSE
  /\ pos = [w \in Watchers |-> 1] /\ given = {} /\ hand = [w \in Watchers |-> FreeHand]
  /\ seen = [e \in Events |-> 0] /\ excused = {} /\ dropped = {}
  /\ forks = 0 /\ crashes = 0 /\ readFaults = 0

StreamTrouble == forks + crashes + readFaults < MaxStreamTroubles
ReadFault == StreamTrouble /\ readFaults < MaxReadFaults /\ readFaults' = readFaults + 1
Later(n, m) == IF n > m THEN n ELSE m
Sooner(n, m) == IF n < m THEN n ELSE m

-----------------------------------------------------------------------------
(* validateAgainstChain: the hash of the last block is compared; when it   *)
(* differs, or the block cannot be read, the cursor goes back and forgets  *)
(* its keys.                                                               *)
Mismatch(c) ==
  c.last # NoLast /\ c.hash # NoHash
  /\ (c.last > Len(chain) \/ (c.last <= Len(chain) /\ chain[Later(1, c.last)].fork # c.hash))
TrustingMutant(c) == c
Validated(c) ==
  IF Mismatch(c) THEN [last |-> Later(1, c.last - REWIND), hash |-> NoHash, keys |-> <<>>] ELSE c

(* getStartBlock: back again, or from the head if there is no checkpoint.  *)
StartBlock(c) == IF c.last = NoLast THEN Len(chain) ELSE c.last - REWIND
Blocks(from) == {n \in from..Len(chain) : n >= 1}

(* recordProcessedEvent, before it waits: the key joins the ring, the last *)
(* block only moves up.                                                    *)
LastOf(keys) == SubSeq(keys, Later(1, Len(keys) - MAXKEYS + 1), Len(keys))
NoKeyMutant(c, key, block) == [c EXCEPT !.last = Later(@, block)]
Recorded(c, key, block) ==
  [c EXCEPT !.keys = LastOf(Append(@, key)), !.last = Later(@, block)]
Handled(c, key) == key \in ToSet(c.keys)
(* What a full ring of keys gives up for the next one.                     *)
CutOff(c) == IF Len(c.keys) < MAXKEYS THEN {} ELSE {Head(c.keys).ev}

(* The subgraph's newest events, given to the handler one after the other  *)
(* before the watchers start; its keys are its own.                        *)
Newest == LET n == {k \in 1..Len(chain) : chain[k].ev # Quiet} IN
          SelectSeq([k \in 1..Len(chain) |-> k], LAMBDA k :
            k \in n /\ \E r \in 0..LIMIT - 1 : Len(SelectSeq([j \in 1..Len(chain) |-> j],
              LAMBDA j : j \in n /\ j > k)) = r)
BackfillKey(k) == [ev |-> chain[k].ev, sub |-> TRUE]
WithBackfill(c) ==
  IF ~backfill THEN c
  ELSE FoldLeft(LAMBDA acc, k : IF Handled(acc, BackfillKey(k)) THEN acc
                ELSE [Recorded(acc, BackfillKey(k), k) EXCEPT !.hash = chain[Later(acc.last, k)].fork],
                c, Newest)
FromBackfill(c) ==
  IF ~backfill THEN {} ELSE {chain[k].ev : k \in {j \in ToSet(Newest) : ~Handled(c, BackfillKey(j))}}

(* runLiveAgent: the cursor is loaded and checked and the stream started.  *)
StartStream ==
  /\ ~up /\ up' = TRUE
  /\ \E c \in {Validated(saved)} :
       /\ cursor' = WithBackfill(c)
       /\ saved' = IF Mismatch(saved) \/ FromBackfill(c) # {} THEN WithBackfill(c) ELSE saved
       /\ pos' = [w \in Watchers |-> Later(1, StartBlock(c))]
       /\ excused' = IF Mismatch(saved) THEN excused \cup {k.ev : k \in ToSet(saved.keys)} ELSE excused
       /\ seen' = [e \in Events |-> seen[e] + IF e \in FromBackfill(c) THEN 1 ELSE 0]
       /\ dropped' = dropped \cup ({chain[n].ev : n \in
            IF c.last = NoLast THEN 1..StartBlock(c) - 1 ELSE {}} \ {Quiet})
  /\ given' = {} /\ hand' = [w \in Watchers |-> FreeHand]
  /\ UNCHANGED <<backfill, chain, forks, crashes, readFaults>>

(* onLogs: a log the stream has not given yet is taken up; then it waits   *)
(* for the timestamp.                                                      *)
Key(e) == [ev |-> e, sub |-> FALSE]
NextLog(w) ==
  /\ up /\ hand[w].at = "idle" /\ pos[w] <= Len(chain)
  /\ pos' = [pos EXCEPT ![w] = @ + 1]
  /\ LET e == chain[pos[w]].ev IN
     IF e.w = w /\ Key(e) \notin given
     THEN /\ given' = given \cup {Key(e)}
          /\ hand' = [hand EXCEPT ![w] = [at |-> "time", ev |-> e, block |-> pos[w]]]
     ELSE UNCHANGED <<given, hand>>
  /\ UNCHANGED <<backfill, chain, saved, cursor, up, seen, excused, dropped, forks, crashes, readFaults>>

(* onEvent, up to the wait for the hash.                                   *)
HandleEvent(w) ==
  /\ up /\ hand[w].at = "time"
  /\ \E e \in {hand[w].ev} : \E c \in {Recorded(cursor, Key(e), hand[w].block)} :
     IF Handled(cursor, Key(e))
     THEN hand' = [hand EXCEPT ![w] = FreeHand] /\ UNCHANGED <<cursor, seen, excused, saved>>
     ELSE /\ cursor' = c /\ seen' = [seen EXCEPT ![e] = @ + 1]
          /\ excused' = excused \cup CutOff(cursor)
          /\ IF hand[w].block > cursor.last
             THEN hand' = [hand EXCEPT ![w].at = "hash"] /\ UNCHANGED saved
             ELSE hand' = [hand EXCEPT ![w] = FreeHand] /\ saved' = c
  /\ UNCHANGED <<backfill, chain, up, pos, given, dropped, forks, crashes, readFaults>>

(* The block cannot be read: the event is not given again.                 *)
TimestampFails(w) ==
  /\ up /\ hand[w].at = "time" /\ ReadFault
  /\ dropped' = dropped \cup {hand[w].ev}
  /\ hand' = [hand EXCEPT ![w] = FreeHand]
  /\ UNCHANGED <<backfill, chain, saved, cursor, up, pos, given, seen, excused, forks, crashes>>

(* The hash of the block as it is now, if it can be read; then the cursor, *)
(* with what the other watchers added to it meanwhile, is saved.           *)
SaveCursor(w) ==
  /\ up /\ hand[w].at = "hash"
  /\ \/ hand[w].block <= Len(chain) /\ UNCHANGED readFaults
        /\ cursor' = [cursor EXCEPT !.hash = chain[hand[w].block].fork]
     \/ hand[w].block > Len(chain) /\ UNCHANGED <<cursor, readFaults>>
     \/ ReadFault /\ UNCHANGED cursor
  /\ saved' = cursor'
  /\ hand' = [hand EXCEPT ![w] = FreeHand]
  /\ UNCHANGED <<backfill, chain, up, pos, given, seen, excused, dropped, forks, crashes>>

(* The agent ends; what was handled and not saved is handled again.        *)
AgentEnds ==
  /\ up /\ up' = FALSE
  /\ StreamTrouble /\ crashes < MaxCrashes /\ crashes' = crashes + 1
  /\ excused' = excused \cup {k.ev : k \in ToSet(cursor.keys) \ ToSet(saved.keys)}
  /\ cursor' = NoCursor /\ given' = {} /\ hand' = [w \in Watchers |-> FreeHand]
  /\ UNCHANGED <<backfill, chain, saved, pos, seen, dropped, forks, readFaults>>

(* The agent keeps up, and is not down for longer: no event it has not     *)
(* handled, or is handling, is REWIND blocks old.                          *)
EventsOnChain == {chain[n].ev : n \in 1..Len(chain)} \ {Quiet}
KeepsUp ==
  /\ \A n \in 1..Len(chain) :
       (chain[n].ev \in Events \ dropped /\ seen[chain[n].ev] = 0) => n > Len(chain) - REWIND
  /\ \A w \in Watchers : hand[w].at # "idle" => hand[w].block > Len(chain) - REWIND

StreamBlock ==
  /\ Len(chain) < MaxStreamBlocks /\ KeepsUp
  /\ \E e \in {Quiet} \cup (Events \ EventsOnChain) :
       chain' = Append(chain, [ev |-> e, fork |-> forks])
  /\ UNCHANGED <<backfill, saved, cursor, up, pos, given, hand, seen, excused, dropped,
                 forks, crashes, readFaults>>

(* Some last blocks are replaced; the watchers' filters give the logs of   *)
(* the new ones.                                                           *)
ChainReorg ==
  /\ StreamTrouble /\ forks < MaxForks /\ forks' = forks + 1
  /\ \E k \in 1..MAXDEPTH :
       /\ k <= Len(chain) /\ chain' = SubSeq(chain, 1, Len(chain) - k)
       /\ pos' = [w \in Watchers |-> Sooner(pos[w], Len(chain) - k + 1)]
  /\ UNCHANGED <<backfill, saved, cursor, up, given, hand, seen, excused, dropped, crashes, readFaults>>

StreamStep(w) == NextLog(w) \/ HandleEvent(w) \/ SaveCursor(w)
EventsNext ==
  \/ StartStream \/ AgentEnds \/ StreamBlock \/ ChainReorg
  \/ \E w \in Watchers : StreamStep(w) \/ TimestampFails(w)

EventsSpec == EventsInit /\ [][EventsNext]_eventVars

-----------------------------------------------------------------------------
(* type invariant *)
EventsTypeOK ==
  /\ backfill \in Backfills /\ up \in BOOLEAN /\ Len(chain) <= MaxStreamBlocks
  /\ \A c \in {saved, cursor} : c.last \in 0..MaxStreamBlocks /\ Len(c.keys) <= MAXKEYS
  /\ \A w \in Watchers : pos[w] \in 1..MaxStreamBlocks + 1 /\ hand[w].at \in {"idle", "time", "hash"}
  /\ given \subseteq {Key(e) : e \in Events} /\ excused \subseteq Events /\ dropped \subseteq Events
  /\ forks \in 0..MaxForks /\ crashes \in 0..MaxCrashes /\ readFaults \in 0..MaxReadFaults

(* An event is handled once, across watchers and restarts; again only if   *)
(* the agent ended before it was saved, the cursor was taken back, or a    *)
(* full ring of keys forgot it (which a run's few events do not fill).     *)
HandledOnce == ~backfill => \A e \in Events \ excused : seen[e] <= 1

(* A stream that starts from a checkpoint with a hash starts no later than *)
(* the first event the agent has not handled: neither watchers that are    *)
(* not equally far, nor a hash read late or not at all, nor a              *)
(* reorganisation while it was down, makes it pass one over.  Only an      *)
(* event given up for its timestamp, or from before the first start, is    *)
(* lost.                                                                   *)
StartsBeforeTheUnseen ==
  [][(StartStream /\ saved.last # NoLast /\ saved.hash # NoHash /\ ~backfill) =>
       \A n \in 1..Len(chain) : \A w \in Watchers :
         (chain[n].ev \in Events \ dropped /\ seen[chain[n].ev] = 0) => pos'[w] <= n]_eventVars

(* Across restarts no event is handled twice and none is passed over.      *)
EventsAreHandledOnce == []HandledOnce /\ StartsBeforeTheUnseen
=============================================================================
