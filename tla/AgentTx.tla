------------------------------- MODULE AgentTx -------------------------------
(***************************************************************************)
(* The SDK's TxManager: one write at a time, a nonce that is the larger of *)
(* what it remembers and what the nodes say, and a transaction that is not *)
(* mined in time sent again with higher fees.                              *)
(*                                                                         *)
(* A transaction is known by its write, nonce and fee.  The nodes asked    *)
(* for the next nonce may not see the ones that went to a private          *)
(* mempool, and all the copies of a replaced transaction stay about until  *)
(* one of them is mined.                                                   *)
(***************************************************************************)
EXTENDS Integers, FiniteSets

CONSTANTS
  Writes,       \* calls of writeContract
  MAXATTEMPTS,  \* broadcasts of one nonce, the first included
  Policies,     \* values of replacement.enabled
  MaxForeign,   \* transactions the account sends by other means
  MaxTxFaults

ASSUME AgentTxAssumption ==
  /\ MAXATTEMPTS \in Nat \ {0} /\ Policies \subseteq BOOLEAN
  /\ MaxForeign \in Nat /\ MaxTxFaults \in Nat

None == -1              \* nextNonce === undefined
RESYNCS == 2            \* maxNonceResyncAttempts

VARIABLES
  replacing, \* replacement.enabled
  used,    \* on the chain: nonces of the account that are used
  mempool, \* transactions broadcast and not yet overtaken: [w, n, fee]
  mined,   \* transactions mined: [w, n, fee, ok]
  cached,  \* nextNonce
  call,    \* the writes: [at, n, fee, sync, hashes]
  foreign, txFaults

txVars == <<replacing, used, mempool, mined, cached, call, foreign, txFaults>>

Fresh == [at |-> "queued", n |-> 0, fee |-> 1, sync |-> 1, hashes |-> {}]
Ended == {"confirmed", "reverted", "timeout", "error"}

AgentTxInit ==
  /\ replacing \in Policies
  /\ used = 0 /\ mempool = {} /\ mined = {} /\ cached = None
  /\ call = [w \in Writes |-> Fresh] /\ foreign = 0 /\ txFaults = 0

TxFault == txFaults < MaxTxFaults /\ txFaults' = txFaults + 1

(* The network's pending nonce: the largest any node gives.  A node knows  *)
(* some of the mempool, or is behind, or does not answer.                  *)
Seen == {used} \cup {t.n + 1 : t \in mempool}
NetNonce(net) == (net \in Seen /\ UNCHANGED txFaults) \/ (net \in 0..used - 1 /\ TxFault)

(* syncNonce: the larger of that and what is remembered.                   *)
SyncNonce(net) == IF cached = None \/ net > cached THEN net ELSE cached

Goto(w, at) == call' = [call EXCEPT ![w].at = at]

-----------------------------------------------------------------------------
(* runExclusive: the lock goes to one write after the other, however the   *)
(* one before it ended.                                                    *)
KeptOnErrorMutant == \A v \in Writes : call[v].at \in {"queued"} \cup (Ended \ {"error"})
LockIsFree == \A v \in Writes : call[v].at \in {"queued"} \cup Ended

(* getInitialFees, and the nonce for the first attempt.                    *)
Allocate(w, net) ==
  /\ cached' = SyncNonce(net)
  /\ call' = [call EXCEPT ![w].at = "send", ![w].n = SyncNonce(net), ![w].fee = 1, ![w].hashes = {}]

BeginWrite(w) ==
  /\ call[w].at = "queued" /\ LockIsFree
  /\ \E net \in 0..used + Cardinality(Writes) : NetNonce(net) /\ Allocate(w, net)
  /\ UNCHANGED <<replacing, used, mempool, mined, foreign>>

(* The node takes the transaction: at a nonce it has not seen used, at a   *)
(* fee above the copies it has.                                            *)
Copy(w) == [w |-> w, n |-> call[w].n, fee |-> call[w].fee]
Rivals(w) == {t \in mempool : t.n = call[w].n}
Broadcast(w) ==
  LET c == call[w] IN
  /\ c.at = "send" /\ c.n >= used
  /\ \A t \in Rivals(w) : t.fee < c.fee
  /\ mempool' = mempool \cup {Copy(w)}
  /\ cached' = IF c.hashes = {} THEN c.n + 1 ELSE cached
  /\ call' = [call EXCEPT ![w].at = "wait", ![w].hashes = @ \cup {c.fee}]
  /\ UNCHANGED <<replacing, used, mined, foreign, txFaults>>

(* After a timeout or an underpriced replacement: a higher fee, if there   *)
(* are attempts left.                                                      *)
KeepNonceMutant(w) ==
  IF call[w].fee < MAXATTEMPTS
  THEN call' = [call EXCEPT ![w].at = "send", ![w].fee = @ + 1] /\ UNCHANGED cached
  ELSE Goto(w, IF call[w].hashes = {} THEN "error" ELSE "timeout") /\ UNCHANGED cached
NextAttempt(w) ==
  IF call[w].fee < MAXATTEMPTS
  THEN call' = [call EXCEPT ![w].at = "send", ![w].fee = @ + 1] /\ UNCHANGED cached
  ELSE /\ Goto(w, IF call[w].hashes = {} THEN "error" ELSE "timeout")
       /\ cached' = None

Underpriced(w) ==
  /\ call[w].at = "send" /\ call[w].n >= used
  /\ \E t \in Rivals(w) : t.fee >= call[w].fee
  /\ NextAttempt(w)
  /\ UNCHANGED <<replacing, used, mempool, mined, foreign, txFaults>>

(* "nonce too low": what is remembered is dropped and the nodes are asked; *)
(* the write starts over with the nonce it then gets, once.                *)
NonceTooLow(w) ==
  /\ call[w].at = "send" /\ call[w].n < used
  /\ IF call[w].sync < RESYNCS
     THEN \E net \in 0..used + Cardinality(Writes) :
            /\ NetNonce(net) /\ cached' = net
            /\ call' = [call EXCEPT ![w].at = "send", ![w].n = net, ![w].fee = 1,
                                    ![w].sync = @ + 1, ![w].hashes = {}]
     ELSE Goto(w, "error") /\ cached' = None /\ UNCHANGED txFaults
  /\ UNCHANGED <<replacing, used, mempool, mined, foreign>>

(* Any other failure of the broadcast or of the poll ends the write; the   *)
(* transaction may have gone out all the same.                             *)
BroadcastFails(w) ==
  /\ call[w].at = "send" /\ TxFault
  /\ \/ UNCHANGED mempool
     \/ call[w].n >= used /\ mempool' = mempool \cup {Copy(w)}
  /\ cached' = None /\ Goto(w, "error")
  /\ UNCHANGED <<replacing, used, mined, foreign>>

PollFails(w) ==
  /\ call[w].at = "wait" /\ TxFault
  /\ cached' = None /\ Goto(w, "error")
  /\ UNCHANGED <<replacing, used, mempool, mined, foreign>>

(* waitForReceiptOrTimeout asks for the last hash only.                    *)
LastMined(w) == {t \in mined : t.w = w /\ t.n = call[w].n /\ t.fee = call[w].fee}
Receipt(w) ==
  /\ call[w].at = "wait"
  /\ \E t \in LastMined(w) :
       IF t.ok
       THEN /\ Goto(w, "confirmed")
            /\ cached' = IF cached # None /\ cached <= t.n THEN t.n + 1 ELSE cached
       ELSE Goto(w, "reverted") /\ UNCHANGED cached
  /\ UNCHANGED <<replacing, used, mempool, mined, foreign, txFaults>>

AlwaysResendMutant(w) ==
  /\ call[w].at = "wait" /\ LastMined(w) = {} /\ NextAttempt(w)
  /\ UNCHANGED <<replacing, used, mempool, mined, foreign, txFaults>>
ReceiptTimeout(w) ==
  /\ call[w].at = "wait" /\ LastMined(w) = {}
  /\ IF replacing THEN NextAttempt(w) ELSE Goto(w, "timeout") /\ cached' = None
  /\ UNCHANGED <<replacing, used, mempool, mined, foreign, txFaults>>

(* A block takes one of the copies at the next nonce.                      *)
MineTx ==
  \E t \in mempool, ok \in BOOLEAN :
    /\ t.n = used /\ used' = used + 1
    /\ mined' = mined \cup {[w |-> t.w, n |-> t.n, fee |-> t.fee, ok |-> ok]}
    /\ mempool' = {u \in mempool : u.n > used}
    /\ UNCHANGED <<replacing, cached, call, foreign, txFaults>>

(* Another sender uses the account's next nonce.                           *)
ForeignTx ==
  /\ foreign < MaxForeign /\ foreign' = foreign + 1
  /\ used' = used + 1 /\ mempool' = {u \in mempool : u.n > used}
  /\ UNCHANGED <<replacing, mined, cached, call, txFaults>>

(* The nodes forget a transaction, with all its copies.                    *)
Evict ==
  /\ TxFault
  /\ \E t \in mempool : mempool' = {u \in mempool : u.n # t.n}
  /\ UNCHANGED <<replacing, used, mined, cached, call, foreign>>

WriteStep(w) ==
  \/ BeginWrite(w) \/ Broadcast(w) \/ Underpriced(w) \/ NonceTooLow(w)
  \/ Receipt(w) \/ ReceiptTimeout(w)

AgentTxNext ==
  \/ \E w \in Writes : WriteStep(w) \/ BroadcastFails(w) \/ PollFails(w)
  \/ MineTx \/ ForeignTx \/ Evict

AgentTxFairness == \A w \in Writes : WF_txVars(WriteStep(w))
AgentTxSpec == AgentTxInit /\ [][AgentTxNext]_txVars /\ AgentTxFairness

-----------------------------------------------------------------------------
(* type invariant *)
AgentTxTypeOK ==
  /\ replacing \in Policies /\ used \in Nat /\ cached \in Nat \cup {None}
  /\ \A t \in mempool \cup mined : t.w \in Writes /\ t.fee \in 1..MAXATTEMPTS
  /\ \A w \in Writes : /\ call[w].at \in {"queued", "send", "wait"} \cup Ended
                        /\ call[w].hashes \subseteq 1..MAXATTEMPTS
  /\ foreign \in 0..MaxForeign /\ txFaults \in 0..MaxTxFaults

(* A write that is never resubmitted is mined at most once, whatever the   *)
(* nodes say of its nonce: it starts over only if it was refused.  One     *)
(* that is resubmitted may be mined twice: when an earlier copy is mined   *)
(* after all, its nonce is too low, and it starts over with another.       *)
Copies(w) == Cardinality({t \in mined : t.w = w})
PlainWritesAreMinedOnce == ~replacing => \A w \in Writes : Copies(w) <= 1

(* What the manager's comment promises: a write that is stuck is sent      *)
(* again at the same nonce, so that one of its transactions counts.        *)
ResubmitsTheSameNonce ==
  \A s, t \in mempool \cup mined : s.w = t.w => s.n = t.n

(* Every call returns, so the lock is always released again.               *)
EveryWriteEnds == \A w \in Writes : call[w].at = "queued" ~> call[w].at \in Ended
=============================================================================
