----------------------------- MODULE KeeperPoke -----------------------------
(***************************************************************************)
(* The keeper's poke (tasks/poke.ts): MaintenanceHub.poke flushes what the *)
(* shareholders are owed, ticks the LP stream, and executes offers.  The   *)
(* task looks for takeovers it has not reacted to, then for other work,    *)
(* and sends a transaction only if there is some.                          *)
(*                                                                         *)
(* Block n of the chain holds the takeover of reign n.  The receipt says   *)
(* whether the flush worked; three cursors of the state file move by it.   *)
(***************************************************************************)
EXTENDS Integers

CONSTANTS
  REWIND,      \* the blocks scanned again: 64
  MINDELTA,    \* pokeMinPendingEthDelta
  MaxReigns, MaxPending, MaxPokeFaults

ASSUME KeeperPokeAssumption ==
  /\ REWIND \in Nat /\ MINDELTA \in Nat \ {0}
  /\ MaxReigns \in Nat /\ MaxPending \in Nat /\ MaxPokeFaults \in Nat

VARIABLES
  reign,    \* on the chain: the last takeover,
  pendingEth, \*   pendingShareholderETH,
  flushed,  \*   and, history, the last reign whose share has been flushed
  cursors,  \* the state file: [reign, block, pending]
  poke,     \* the run under way: [at, max, end, seen]
  pokeFaults

pokeVars == <<reign, pendingEth, flushed, cursors, poke, pokeFaults>>

Unknown == -1
NoPoke  == [at |-> "idle", max |-> Unknown, end |-> Unknown, seen |-> Unknown]

PokeInit ==
  /\ reign = 0 /\ pendingEth = 0 /\ flushed = 0
  /\ cursors = [reign |-> 0, block |-> 0, pending |-> 0]
  /\ poke = NoPoke /\ pokeFaults = 0

PokeFault == pokeFaults < MaxPokeFaults /\ pokeFaults' = pokeFaults + 1
ChainStays == UNCHANGED <<reign, pendingEth, flushed>>

(* The takeovers of the window, in which one log may not decode: then its  *)
(* end is not covered.  Offers to execute are work as well.                *)
ScanFrom == IF cursors.block > REWIND THEN cursors.block - REWIND ELSE 0

ScanTakeovers ==
  /\ poke.at = "idle"
  /\ \E next \in {"read", "send"}, head \in 0..reign, lost \in {0} \cup ScanFrom..reign :
       LET logs == (ScanFrom..head) \ {0, lost}
           max  == IF logs = {} THEN 0 ELSE CHOOSE r \in logs : \A q \in logs : q <= r
       IN /\ IF head = reign /\ lost = 0 THEN UNCHANGED pokeFaults ELSE PokeFault
          /\ poke' = [at |-> IF max > cursors.reign THEN "send" ELSE next, max |-> max,
                      end |-> IF lost = 0 THEN head ELSE Unknown, seen |-> Unknown]
  /\ ChainStays /\ UNCHANGED cursors

(* The logs cannot be read: the poke is sent to be safe.                   *)
ScanError ==
  /\ poke.at = "idle" /\ PokeFault
  /\ poke' = [NoPoke EXCEPT !.at = "send"]
  /\ ChainStays /\ UNCHANGED cursors

(* Nothing new: has enough become pending, is the LP stream due, is the ve *)
(* total stale?  If not, the cursors move and the run ends.                *)
DueByPending == pendingEth - cursors.pending >= MINDELTA
ReadWork ==
  /\ poke.at = "read" /\ poke' = [poke EXCEPT !.at = "send", !.seen = pendingEth]
  /\ ChainStays /\ UNCHANGED <<cursors, pokeFaults>>

CoveredTo(c) == IF poke.end = Unknown THEN c.block ELSE poke.end
PokeIdle ==
  /\ poke.at = "read" /\ ~DueByPending /\ poke' = NoPoke
  /\ cursors' = [cursors EXCEPT !.pending = pendingEth, !.block = CoveredTo(cursors)]
  /\ ChainStays /\ UNCHANGED pokeFaults

(* The transaction: the flush moves all that is pending, or fails inside.  *)
FlushOk == pendingEth' = 0 /\ flushed' = reign
SendPoke ==
  /\ poke.at = "send" /\ UNCHANGED <<reign, cursors>>
  /\ \/ FlushOk /\ poke' = [poke EXCEPT !.at = "flushed"] /\ UNCHANGED pokeFaults
     \/ PokeFault /\ UNCHANGED <<pendingEth, flushed>> /\ poke' = [poke EXCEPT !.at = "unproven"]
     \/ PokeFault /\ FlushOk /\ poke' = [poke EXCEPT !.at = "unproven"]

(* Only a decoded receipt that says the flush worked moves the cursors.    *)
Retire(c) ==
  [reign   |-> IF poke.max > c.reign THEN poke.max ELSE c.reign,
   block   |-> CoveredTo(c),
   pending |-> IF poke.seen = Unknown THEN c.pending ELSE poke.seen]
SaveAnywayMutant ==
  /\ poke.at \in {"flushed", "unproven"} /\ poke' = NoPoke
  /\ cursors' = Retire(cursors)
  /\ ChainStays /\ UNCHANGED pokeFaults
SavePoke ==
  /\ poke.at \in {"flushed", "unproven"} /\ poke' = NoPoke
  /\ cursors' = IF poke.at = "flushed" THEN Retire(cursors) ELSE cursors
  /\ ChainStays /\ UNCHANGED pokeFaults

(* A skip, an error, or the end of the process.                            *)
PokeEnds ==
  /\ poke.at # "idle" /\ PokeFault /\ poke' = NoPoke
  /\ ChainStays /\ UNCHANGED cursors

(* The chain: a takeover with its share, and other shares.                 *)
Takeover ==
  /\ reign < MaxReigns /\ pendingEth < MaxPending
  /\ reign' = reign + 1 /\ pendingEth' = pendingEth + 1
  /\ UNCHANGED <<flushed, cursors, poke, pokeFaults>>
AddPending ==
  /\ pendingEth < MaxPending /\ pendingEth' = pendingEth + 1
  /\ UNCHANGED <<reign, flushed, cursors, poke, pokeFaults>>

PokeStep == ScanTakeovers \/ ReadWork \/ PokeIdle \/ SendPoke \/ SavePoke
PokeNext == PokeStep \/ ScanError \/ PokeEnds \/ Takeover \/ AddPending

PokeFairness == WF_pokeVars(PokeStep)
PokeSpec == PokeInit /\ [][PokeNext]_pokeVars /\ PokeFairness

-----------------------------------------------------------------------------
(* type invariant *)
PokeTypeOK ==
  /\ reign \in 0..MaxReigns /\ pendingEth \in 0..MaxPending /\ flushed \in 0..MaxReigns
  /\ cursors \in [reign : 0..MaxReigns, block : 0..MaxReigns, pending : 0..MaxPending]
  /\ poke \in [at : {"idle", "read", "send", "flushed", "unproven"},
               max : {Unknown} \cup 0..MaxReigns, end : {Unknown} \cup 0..MaxReigns,
               seen : {Unknown} \cup 0..MaxPending]
  /\ pokeFaults \in 0..MaxPokeFaults

(* No cursor passes a reign whose share has not been flushed, whatever the *)
(* receipt, a log that does not decode, a lagging node or a crash between  *)
(* the transaction and the save hide (poke.ts:627).                        *)
RetiredReignsAreFlushed == cursors.reign <= flushed /\ cursors.block <= flushed

(* The share of every reign is flushed in the end.                         *)
EveryReignIsFlushed == []<>(flushed = reign)
=============================================================================
