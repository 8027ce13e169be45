--------------------------- MODULE ContractProofs ---------------------------
(***************************************************************************)
(* Theorems about the smaller contract machines, for every value of the    *)
(* constants.                                                              *)
(*                                                                         *)
(* LpStakingVault7D: the CLAIM credited, indexed and queued is in the      *)
(* vault, and the credits are the users' rewards; a harvest counts the     *)
(* pool's fees and nothing else; every unbonding is paid once it has run   *)
(* its period, in full and once; a claim pays what the view showed; and    *)
(* the CLAIM goes to those who staked when it came, within the rounding of *)
(* a few wei for each transaction.                                         *)
(*                                                                         *)
(* Emission: the King stream stays within one wei per second of the exact  *)
(* integral of its schedule, whatever the schedule and however takeovers   *)
(* and pauses interleave.                                                  *)
(***************************************************************************)
EXTENDS Emission, LpStakingVault7D, SumTheorems, SequenceTheorems

-----------------------------------------------------------------------------
(* The LP vault.                                                           *)

IntBooks == [rewardPerToken : Int, queued : Nat, indexed : Int, accounted : Int, credited : Int]

(* ClaimCovered of books b and a balance, but for the sum of the rewards. *)
Covers(bal, b) ==
  /\ b \in IntBooks
  /\ b.credited <= b.indexed
  /\ b.indexed + b.queued = b.accounted
  /\ b.accounted <= bal

(* The reward per token never falls behind what a user was paid for, or an *)
(* accrual would be negative.                                              *)
Ahead(b) == \A u \in Users : userRewardPerTokenPaid[u] <= b.rewardPerToken

(* The inductive invariant.  The queue is a natural number: without that   *)
(* the indexed pool could exceed what is accounted for.                    *)
CoveredInv ==
  /\ claimBalance \in Int /\ totalStaked \in Nat
  /\ stakedBalance \in [Users -> Nat] /\ rewards \in [Users -> Nat]
  /\ userRewardPerTokenPaid \in [Users -> Int]
  /\ Ahead(books)
  /\ Covers(claimBalance, books)
  /\ books.credited = Sum(rewards, Users)

(* The total of the specification is the sum of the theorems.              *)
LEMMA TotalIsSum == \A f, S : Total(f, S) = Sum(f, S)
BY Zenon DEF Total, Sum

(* A user's rewards are a part of the sum, and change it by what they      *)
(* change by.                                                              *)
LEMMA RewardsAreCredited ==
  ASSUME CoveredInv, NEW u \in Users
  PROVE  rewards[u] <= books.credited
<1> USE VaultAssumption
<1>1. \A v \in Users : rewards[v] \in Nat
  BY DEF CoveredInv
<1>2. IsFiniteSet(Users \ {u}) /\ \A v \in Users \ {u} : rewards[v] \in Nat
  BY <1>1, FS_Subset
<1>3. Sum(rewards, Users) = rewards[u] + Sum(rewards, Users \ {u})
  BY <1>1, SumSplits
<1>4. Sum(rewards, Users \ {u}) \in Nat
  BY <1>2, SumIsNat
<1> QED
  BY <1>1, <1>3, <1>4 DEF CoveredInv

LEMMA OneChanges ==
  ASSUME NEW f \in [Users -> Nat], NEW u \in Users, NEW n \in Nat, NEW h, h = [f EXCEPT ![u] = n]
  PROVE  Sum(h, Users) = Sum(f, Users) - f[u] + n
<1>1. /\ \A v \in Users : f[v] \in Int
      /\ h[u] = n /\ \A v \in Users \ {u} : h[v] = f[v]
  OBVIOUS
<1>2. IsFiniteSet(Users) /\ h[u] \in Int
  BY <1>1, VaultAssumption
<1>3. Sum(h, Users) = Sum(f, Users) - f[u] + h[u]
  <2>1. \A i, j : /\ j[u] \in Int /\ \A v \in Users : i[v] \in Int
                  /\ \A v \in Users \ {u} : j[v] = i[v]
                  => Sum(j, Users) = Sum(i, Users) - i[u] + j[u]
    BY <1>2, SumChanges
  <2> QED
    BY <1>1, <1>2, <2>1
<1> QED
  BY <1>1, <1>3

LEMMA RewardsChange ==
  ASSUME CoveredInv, NEW u \in Users, NEW n \in Nat,
         rewards' = [rewards EXCEPT ![u] = n]
  PROVE  Sum(rewards, Users)' = books.credited - rewards[u] + n
<1>1. rewards \in [Users -> Nat] /\ books.credited = Sum(rewards, Users)
  BY DEF CoveredInv
<1>2. Sum(rewards', Users) = Sum(rewards, Users) - rewards[u] + n
  BY <1>1, OneChanges
<1> QED
  BY <1>1, <1>2

(* Rounding down to the index and back never gains. *)
LEMMA IndexableAtMost ==
  ASSUME NEW amount \in Nat, NEW staked \in Nat \ {0}
  PROVE  /\ (amount * ACC) \div staked \in Nat
         /\ Indexable(amount, staked) \in Nat
         /\ Indexable(amount, staked) <= amount
<1> USE VaultAssumption
<1> DEFINE q == (amount * ACC) \div staked
           p == (q * staked) \div ACC
<1>1. amount * ACC \in Nat
  OBVIOUS
<1>2. q \in Nat /\ q * staked <= amount * ACC
  BY <1>1
<1> HIDE DEF q
<1>3. q * staked \in Nat
  BY <1>2
<1>4. p \in Nat /\ p * ACC <= q * staked
  BY <1>3
<1> HIDE DEF p
<1>5. p * ACC <= amount * ACC
  BY <1>1, <1>2, <1>3, <1>4
<1>6. p <= amount
  BY <1>4, <1>5
<1>7. Indexable(amount, staked) = p
  BY DEF Indexable, p, q
<1> QED
  BY <1>2, <1>4, <1>6, <1>7 DEF q

(* Indexing moves CLAIM between the queue and the pool, and creates none. *)
LEMMA IndexingConserves ==
  ASSUME NEW b \in IntBooks, NEW amount \in Nat, NEW staked \in Nat
  PROVE  LET c == indexRewardsWithCarry(b, amount, staked)
         IN  /\ c \in IntBooks
             /\ c.indexed + c.queued = b.indexed + b.queued + amount
             /\ c.indexed >= b.indexed
             /\ c.accounted = b.accounted /\ c.credited = b.credited
             /\ c.rewardPerToken >= b.rewardPerToken
<1>1. CASE staked = 0 \/ Indexable(amount, staked) = 0
  BY <1>1 DEF indexRewardsWithCarry, IntBooks
<1>2. CASE ~ (staked = 0 \/ Indexable(amount, staked) = 0)
  <2> DEFINE inc == (amount * ACC) \div staked
             i == Indexable(amount, staked)
  <2>1. inc \in Nat /\ i \in Nat /\ i <= amount
    BY <1>2, IndexableAtMost
  <2>2. indexRewardsWithCarry(b, amount, staked) =
          [b EXCEPT !.rewardPerToken = @ + inc, !.indexed = @ + i, !.queued = @ + (amount - i)]
    BY <1>2 DEF indexRewardsWithCarry
  <2> HIDE DEF inc, i
  <2> DEFINE c == [b EXCEPT !.rewardPerToken = @ + inc, !.indexed = @ + i,
                            !.queued = @ + (amount - i)]
  <2>3. c.indexed = b.indexed + i /\ c.queued = b.queued + (amount - i)
    BY DEF IntBooks
  <2>4. /\ c.accounted = b.accounted /\ c.credited = b.credited
        /\ c.rewardPerToken = b.rewardPerToken + inc
    BY DEF IntBooks
  <2>5. b.queued + (amount - i) \in Nat /\ b.indexed + i \in Int /\ b.rewardPerToken + inc \in Int
    BY <2>1 DEF IntBooks
  <2>6. c \in IntBooks
    BY <2>5 DEF IntBooks
  <2> HIDE DEF c
  <2>7. b.indexed \in Int /\ b.queued \in Int /\ b.rewardPerToken \in Int
    BY DEF IntBooks
  <2>8. /\ c.indexed + c.queued = b.indexed + b.queued + amount /\ c.indexed >= b.indexed
        /\ c.rewardPerToken >= b.rewardPerToken
    BY <2>1, <2>3, <2>4, <2>7
  <2> QED
    BY <2>2, <2>4, <2>6, <2>8 DEF c
<1> QED
  BY <1>1, <1>2

(* A checkpoint accounts for the whole balance. *)
LEMMA CheckpointCovers ==
  ASSUME NEW bal \in Int, NEW b, Covers(bal, b), NEW staked \in Nat,
         NEW higher \in Int, higher >= bal,
         NEW c, c = checkpointRewards(b, higher, staked)
  PROVE  /\ Covers(higher, c)
         /\ c.accounted = higher /\ c.credited = b.credited
         /\ c.rewardPerToken >= b.rewardPerToken
<1> DEFINE delta == BalanceDelta(b, higher)
           opened == [b EXCEPT !.accounted = @ + delta, !.queued = 0]
<1>1. delta \in Nat /\ b.accounted + delta = higher
  BY DEF Covers, BalanceDelta, IntBooks
<1>2. /\ opened \in IntBooks
      /\ opened.accounted = higher /\ opened.queued = 0
      /\ opened.indexed = b.indexed /\ opened.credited = b.credited
      /\ opened.rewardPerToken = b.rewardPerToken
  BY <1>1 DEF Covers, IntBooks
<1>3. delta + b.queued \in Nat
  BY <1>1 DEF Covers, IntBooks
<1>4. c = indexRewardsWithCarry(opened, delta + b.queued, staked)
  BY DEF checkpointRewards
<1> HIDE DEF opened, delta
<1>5. /\ c \in IntBooks
      /\ c.indexed + c.queued = opened.indexed + opened.queued + (delta + b.queued)
      /\ c.indexed >= opened.indexed
      /\ c.accounted = opened.accounted /\ c.credited = opened.credited
      /\ c.rewardPerToken >= opened.rewardPerToken
  <2> DEFINE pending == delta + b.queued
             d == indexRewardsWithCarry(opened, pending, staked)
  <2>1. c = d /\ pending \in Nat
    BY <1>3, <1>4
  <2> HIDE DEF pending
  <2>2. /\ d \in IntBooks
        /\ d.indexed + d.queued = opened.indexed + opened.queued + pending
        /\ d.indexed >= opened.indexed
        /\ d.accounted = opened.accounted /\ d.credited = opened.credited
        /\ d.rewardPerToken >= opened.rewardPerToken
    BY <1>2, <2>1, IndexingConserves
  <2> QED
    BY <2>1, <2>2 DEF pending
<1> QED
  BY <1>1, <1>2, <1>5 DEF Covers, IntBooks

(* The clamp keeps a credit within the pool. *)
LEMMA CreditCovers ==
  ASSUME CoveredInv, NEW bal \in Int, NEW b, Covers(bal, b), Ahead(b), NEW u \in Users
  PROVE  /\ Accrued(b, u) \in Nat
         /\ Covers(bal, CreditTo(b, u))
         /\ CreditTo(b, u).credited = b.credited + Accrued(b, u)
         /\ CreditTo(b, u).rewardPerToken = b.rewardPerToken
<1> USE VaultAssumption
<1> DEFINE step == b.rewardPerToken - userRewardPerTokenPaid[u]
           gross == stakedBalance[u] * step
<1>1. step \in Nat /\ stakedBalance[u] \in Nat
  BY DEF CoveredInv, Covers, IntBooks, Ahead
<1>2. gross \in Nat
  <2> HIDE DEF step
  <2> QED
    BY <1>1
<1>3. Accrued(b, u) = IF gross \div ACC > b.indexed - b.credited THEN b.indexed - b.credited
                      ELSE gross \div ACC
  BY DEF Accrued
<1> HIDE DEF gross
<1>4. gross \div ACC \in Nat
  BY <1>2
<1>5. Accrued(b, u) \in Nat /\ Accrued(b, u) <= b.indexed - b.credited
  BY <1>3, <1>4 DEF Covers, IntBooks
<1> QED
  BY <1>5 DEF Covers, CreditTo, IntBooks

LEMMA CheckpointedCovers ==
  ASSUME CoveredInv
  PROVE  /\ Covers(claimBalance, Checkpointed) /\ Ahead(Checkpointed)
         /\ Checkpointed.rewardPerToken \in Int
         /\ Checkpointed.rewardPerToken >= books.rewardPerToken
         /\ Checkpointed.credited = books.credited
<1> DEFINE c == Checkpointed
<1>1. c = checkpointRewards(books, claimBalance, totalStaked)
  BY DEF Checkpointed
<1> HIDE DEF c
<1>2. /\ Covers(claimBalance, c) /\ c.rewardPerToken >= books.rewardPerToken
      /\ c.credited = books.credited
  BY <1>1, CheckpointCovers DEF CoveredInv
<1>3. Ahead(c)
  BY <1>2 DEF Ahead, CoveredInv, Covers, IntBooks
<1> QED
  BY <1>2, <1>3 DEF c, Covers, IntBooks

(* A user brought up to date. *)
LEMMA CreditedUser ==
  ASSUME CoveredInv, NEW u \in Users
  PROVE  /\ Accrued(Checkpointed, u) \in Nat
         /\ Claimable(u) = rewards[u] + Accrued(Checkpointed, u) /\ Claimable(u) \in Nat
         /\ Covers(claimBalance, CreditTo(Checkpointed, u))
         /\ CreditTo(Checkpointed, u).credited = books.credited + Accrued(Checkpointed, u)
         /\ CreditTo(Checkpointed, u).rewardPerToken = Checkpointed.rewardPerToken
<1>1. claimBalance \in Int /\ rewards[u] \in Nat
  BY DEF CoveredInv
<1>2. /\ Accrued(Checkpointed, u) \in Nat
      /\ Covers(claimBalance, CreditTo(Checkpointed, u))
      /\ CreditTo(Checkpointed, u).credited = Checkpointed.credited + Accrued(Checkpointed, u)
      /\ CreditTo(Checkpointed, u).rewardPerToken = Checkpointed.rewardPerToken
  BY <1>1, CheckpointedCovers, CreditCovers
<1>3. Checkpointed.credited = books.credited
  BY CheckpointedCovers
<1> QED
  BY <1>1, <1>2, <1>3 DEF Claimable, EarnedAt

(* What a transaction leaves the user paid for, and the books not behind.  *)
LEMMA PaidStep ==
  ASSUME CoveredInv, NEW u \in Users,
         userRewardPerTokenPaid' =
           [userRewardPerTokenPaid EXCEPT ![u] = Checkpointed.rewardPerToken],
         books' \in IntBooks, books'.rewardPerToken >= Checkpointed.rewardPerToken
  PROVE  userRewardPerTokenPaid' \in [Users -> Int] /\ Ahead(books)'
<1>1. /\ Ahead(Checkpointed) /\ Checkpointed.rewardPerToken \in Int
  BY CheckpointedCovers
<1>2. userRewardPerTokenPaid' \in [Users -> Int]
  BY <1>1 DEF CoveredInv
<1>3. \A v \in Users : userRewardPerTokenPaid'[v] <= Checkpointed.rewardPerToken
  BY <1>1 DEF Ahead, CoveredInv
<1>4. \A v \in Users : userRewardPerTokenPaid'[v] <= books'.rewardPerToken
  BY <1>1, <1>2, <1>3 DEF IntBooks
<1> QED
  BY <1>2, <1>4 DEF Ahead

(* A credit by a transaction that moves no CLAIM. *)
LEMMA CreditStep ==
  ASSUME CoveredInv, NEW u \in Users, Credit(Checkpointed, u), UNCHANGED claimBalance
  PROVE  /\ Covers(claimBalance', books') /\ Ahead(books)'
         /\ rewards' \in [Users -> Nat] /\ userRewardPerTokenPaid' \in [Users -> Int]
         /\ (books.credited = Sum(rewards, Users))'
<1>1. /\ Claimable(u) = rewards[u] + Accrued(Checkpointed, u) /\ Claimable(u) \in Nat
      /\ Accrued(Checkpointed, u) \in Nat
      /\ Covers(claimBalance, CreditTo(Checkpointed, u))
      /\ CreditTo(Checkpointed, u).credited = books.credited + Accrued(Checkpointed, u)
      /\ CreditTo(Checkpointed, u).rewardPerToken = Checkpointed.rewardPerToken
  BY CreditedUser
<1>2. /\ books' = CreditTo(Checkpointed, u)
      /\ rewards' = [rewards EXCEPT ![u] = Claimable(u)]
      /\ userRewardPerTokenPaid' =
           [userRewardPerTokenPaid EXCEPT ![u] = Checkpointed.rewardPerToken]
  BY DEF Credit, Claimable
<1>3. Covers(claimBalance', books')
  BY <1>1, <1>2
<1>4. userRewardPerTokenPaid' \in [Users -> Int] /\ Ahead(books)'
  <2>1. books' \in IntBooks /\ Checkpointed.rewardPerToken \in Int
    BY <1>3, CheckpointedCovers DEF Covers
  <2>2. books'.rewardPerToken >= Checkpointed.rewardPerToken
    BY <1>1, <1>2, <2>1
  <2> QED
    BY <1>2, <2>1, <2>2, PaidStep
<1>5. Sum(rewards, Users)' = books.credited - rewards[u] + Claimable(u)
  BY <1>1, <1>2, RewardsChange
<1>6. books.credited \in Int /\ rewards[u] \in Nat /\ rewards' \in [Users -> Nat]
  BY <1>1, <1>2 DEF CoveredInv, Covers, IntBooks
<1> QED
  BY <1>1, <1>2, <1>3, <1>4, <1>5, <1>6

(* A payout debits the credit, the pool and the books alike: the clamp of  *)
(* decreaseAccountedRewardBalance never takes effect, for what a user is   *)
(* paid is a part of the credits.                                          *)
LEMMA PayStep ==
  ASSUME CoveredInv, NEW u \in Users, NEW nested \in Nat,
         Pays(u, Claimable(u), nested)
  PROVE  /\ claimBalance' \in Int /\ Covers(claimBalance', books') /\ Ahead(books)'
         /\ rewards' \in [Users -> Nat] /\ userRewardPerTokenPaid' \in [Users -> Int]
         /\ (books.credited = Sum(rewards, Users))'
<1> DEFINE c == CreditTo(Checkpointed, u)
           reward == Claimable(u)
<1>1. /\ reward = rewards[u] + Accrued(Checkpointed, u) /\ reward \in Nat
      /\ Accrued(Checkpointed, u) \in Nat
      /\ Covers(claimBalance, c)
      /\ c.credited = books.credited + Accrued(Checkpointed, u)
      /\ c.rewardPerToken = Checkpointed.rewardPerToken
  BY CreditedUser
<1>2. /\ claimBalance >= reward /\ claimBalance' = claimBalance - reward + nested
      /\ books' = PaidOut(c, reward)
      /\ rewards' = [rewards EXCEPT ![u] = 0]
      /\ userRewardPerTokenPaid' =
           [userRewardPerTokenPaid EXCEPT ![u] = Checkpointed.rewardPerToken]
  BY DEF Pays
<1> HIDE DEF c, reward
<1>3. /\ rewards[u] <= books.credited /\ rewards[u] \in Nat /\ claimBalance \in Int
      /\ books.credited \in Int
  BY RewardsAreCredited DEF CoveredInv, Covers, IntBooks
<1>4. reward <= c.credited /\ c.credited <= c.accounted
  BY <1>1, <1>3 DEF Covers, IntBooks
<1>5. /\ books'.credited = c.credited - reward /\ books'.indexed = c.indexed - reward
      /\ books'.queued = c.queued /\ books'.rewardPerToken = c.rewardPerToken
      /\ books'.accounted = IF reward > c.accounted THEN 0 ELSE c.accounted - reward
  BY <1>1, <1>2 DEF PaidOut, Covers, IntBooks
<1>6. c \in IntBooks /\ ~(reward > c.accounted)
  BY <1>1, <1>4 DEF Covers, IntBooks
<1>7. books'.accounted = c.accounted - reward
  BY <1>5, <1>6
<1>8. /\ c.credited - reward \in Int /\ c.indexed - reward \in Int
      /\ (IF reward > c.accounted THEN 0 ELSE c.accounted - reward) \in Int /\ c.queued \in Nat
  BY <1>1, <1>6 DEF IntBooks
<1>9. books' \in IntBooks
  BY <1>2, <1>6, <1>8 DEF PaidOut, IntBooks
<1>10. Covers(claimBalance', books')
  BY <1>1, <1>2, <1>3, <1>5, <1>6, <1>7, <1>9 DEF Covers, IntBooks
<1>11. userRewardPerTokenPaid' \in [Users -> Int] /\ Ahead(books)'
  <2>1. Checkpointed.rewardPerToken \in Int
    BY CheckpointedCovers
  <2>2. books'.rewardPerToken >= Checkpointed.rewardPerToken
    BY <1>1, <1>5, <2>1
  <2> QED
    BY <1>2, <1>9, <2>2, PaidStep
<1>12. Sum(rewards, Users)' = books.credited - rewards[u] + 0
  BY <1>2, RewardsChange
<1>13. (books.credited = Sum(rewards, Users))'
  BY <1>1, <1>3, <1>5, <1>12
<1> QED
  BY <1>1, <1>2, <1>3, <1>10, <1>11, <1>13 DEF CoveredInv

LEMMA StakeKeeps ==
  ASSUME CoveredInv, NEW u \in Users, NEW amount \in Amounts, Stake(u, amount)
  PROVE  CoveredInv'
<1> USE VaultAssumption
<1> DEFINE b == CreditTo(Checkpointed, u)
           opened == [b EXCEPT !.queued = 0]
           staked == totalStaked + amount
           pending == b.queued
<1>1. /\ amount \in Nat /\ UNCHANGED claimBalance
      /\ books' = indexRewardsWithCarry(opened, pending, staked)
      /\ rewards' = [rewards EXCEPT ![u] = Claimable(u)]
      /\ userRewardPerTokenPaid' =
           [userRewardPerTokenPaid EXCEPT ![u] = Checkpointed.rewardPerToken]
  BY DEF Stake, StakedBooks, Claimable
<1>2. /\ Claimable(u) = rewards[u] + Accrued(Checkpointed, u) /\ Claimable(u) \in Nat
      /\ Accrued(Checkpointed, u) \in Nat /\ Covers(claimBalance, b)
      /\ b.credited = books.credited + Accrued(Checkpointed, u)
      /\ b.rewardPerToken = Checkpointed.rewardPerToken
  BY CreditedUser
<1> HIDE DEF b
<1>3. /\ opened \in IntBooks /\ pending \in Nat /\ staked \in Nat
      /\ opened.queued = 0 /\ opened.indexed = b.indexed /\ opened.credited = b.credited
      /\ opened.accounted = b.accounted /\ opened.rewardPerToken = b.rewardPerToken
  BY <1>1, <1>2 DEF CoveredInv, Covers, IntBooks
<1> HIDE DEF opened, staked
<1>4. LET c == indexRewardsWithCarry(opened, pending, staked)
      IN  /\ c \in IntBooks
          /\ c.indexed + c.queued = opened.indexed + opened.queued + pending
          /\ c.indexed >= opened.indexed
          /\ c.accounted = opened.accounted /\ c.credited = opened.credited
          /\ c.rewardPerToken >= opened.rewardPerToken
  <2> HIDE DEF pending
  <2> QED
    BY <1>3, IndexingConserves
<1>5. claimBalance \in Int
  BY DEF CoveredInv
<1>6. Covers(claimBalance', books')
  BY <1>1, <1>2, <1>3, <1>4, <1>5 DEF Covers, IntBooks
<1>7. userRewardPerTokenPaid' \in [Users -> Int] /\ Ahead(books)'
  BY <1>1, <1>2, <1>3, <1>4, PaidStep, CheckpointedCovers DEF IntBooks
<1>8. Sum(rewards, Users)' = books.credited - rewards[u] + Claimable(u)
  BY <1>1, <1>2, RewardsChange
<1>9. books.credited \in Int /\ rewards[u] \in Nat /\ rewards' \in [Users -> Nat]
  BY <1>1, <1>2 DEF CoveredInv, Covers, IntBooks
<1>10. (books.credited = Sum(rewards, Users))'
  BY <1>1, <1>2, <1>3, <1>4, <1>8, <1>9
<1>11. stakedBalance' \in [Users -> Nat] /\ totalStaked' \in Nat
  BY <1>1, <1>3 DEF Stake, CoveredInv, staked
<1> QED
  BY <1>1, <1>5, <1>6, <1>7, <1>9, <1>10, <1>11 DEF CoveredInv

(* What leaves with an unbonding is staked, and takes the dust along. *)
LEMMA UnbondedIsStaked ==
  ASSUME CoveredInv, NEW u \in Users, NEW amount \in Amounts, stakedBalance[u] >= amount
  PROVE  Unbonded(u, amount) \in Nat \ {0} /\ Unbonded(u, amount) <= stakedBalance[u]
BY VaultAssumption DEF Unbonded, CoveredInv

LEMMA UnbondKeeps ==
  ASSUME CoveredInv, NEW u \in Users, NEW amount \in Amounts, BeginUnbond(u, amount)
  PROVE  CoveredInv'
<1>1. /\ Covers(claimBalance', books') /\ Ahead(books)'
      /\ rewards' \in [Users -> Nat] /\ userRewardPerTokenPaid' \in [Users -> Int]
      /\ (books.credited = Sum(rewards, Users))'
  BY CreditStep DEF BeginUnbond
<1>2. Unbonded(u, amount) \in Nat /\ Unbonded(u, amount) <= stakedBalance[u]
  BY UnbondedIsStaked DEF BeginUnbond
<1>3. /\ totalStaked >= Unbonded(u, amount) /\ UNCHANGED claimBalance
      /\ stakedBalance' = [stakedBalance EXCEPT ![u] = @ - Unbonded(u, amount)]
      /\ totalStaked' = totalStaked - Unbonded(u, amount)
  BY DEF BeginUnbond
<1>4. stakedBalance[u] - Unbonded(u, amount) \in Nat /\ totalStaked' \in Nat
  BY <1>2, <1>3 DEF CoveredInv
<1> QED
  BY <1>1, <1>3, <1>4 DEF CoveredInv

LEMMA ClaimKeeps ==
  ASSUME CoveredInv, NEW u \in Users, NEW nested \in Transfers \cup {0},
         ClaimRewards(u) \/ ClaimRewardsAndLock(u, nested)
  PROVE  CoveredInv'
<1> USE VaultAssumption
<1>1. UNCHANGED stakeVars
  BY DEF ClaimRewards, ClaimRewardsAndLock
<1>2. \E n \in Nat : Pays(u, Claimable(u), n)
  BY DEF ClaimRewards, ClaimRewardsAndLock
<1>3. /\ claimBalance' \in Int /\ Covers(claimBalance', books') /\ Ahead(books)'
      /\ rewards' \in [Users -> Nat] /\ userRewardPerTokenPaid' \in [Users -> Int]
      /\ (books.credited = Sum(rewards, Users))'
  BY <1>2, PayStep
<1> QED
  BY <1>1, <1>3 DEF stakeVars, CoveredInv

(* Nothing the invariant is about changes. *)
LEMMA NothingMoves ==
  ASSUME CoveredInv, UNCHANGED <<stakeVars, rewardVars, claimBalance>>
  PROVE  CoveredInv'
<1>1. /\ totalStaked' = totalStaked /\ stakedBalance' = stakedBalance /\ rewards' = rewards
      /\ userRewardPerTokenPaid' = userRewardPerTokenPaid /\ books' = books
      /\ claimBalance' = claimBalance
  BY DEF stakeVars, rewardVars
<1>2. Sum(rewards, Users)' = Sum(rewards, Users)
  BY <1>1
<1> QED
  BY <1>1, <1>2 DEF CoveredInv, Ahead

LEMMA CompoundKeeps ==
  ASSUME CoveredInv, NEW u \in Users, NEW nested \in Transfers \cup {0}, CompoundFor(u, nested)
  PROVE  CoveredInv'
<1> USE VaultAssumption
<1>1. UNCHANGED stakeVars
  BY DEF CompoundFor
<1>2. CASE CompoundMisdirected(u)
  BY <1>1, <1>2, NothingMoves DEF CompoundMisdirected
<1>3. CASE CompoundSkipped(u) \/ CompoundRejected(u)
  <2>1. Credit(Checkpointed, u) /\ UNCHANGED claimBalance
    BY <1>3 DEF CompoundSkipped, CompoundRejected
  <2>2. /\ Covers(claimBalance', books') /\ Ahead(books)'
        /\ rewards' \in [Users -> Nat] /\ userRewardPerTokenPaid' \in [Users -> Int]
        /\ (books.credited = Sum(rewards, Users))'
    BY <2>1, CreditStep
  <2> QED
    BY <1>1, <2>1, <2>2 DEF stakeVars, CoveredInv
<1>4. CASE CompoundEntered(u, nested)
  <2>1. nested \in Nat /\ Pays(u, Claimable(u), nested)
    BY <1>4 DEF CompoundEntered
  <2>2. /\ claimBalance' \in Int /\ Covers(claimBalance', books') /\ Ahead(books)'
        /\ rewards' \in [Users -> Nat] /\ userRewardPerTokenPaid' \in [Users -> Int]
        /\ (books.credited = Sum(rewards, Users))'
    BY <2>1, PayStep
  <2> QED
    BY <1>1, <2>2 DEF stakeVars, CoveredInv
<1> QED
  BY <1>2, <1>3, <1>4 DEF CompoundFor

LEMMA FundingKeeps ==
  ASSUME CoveredInv, NEW amount \in Transfers,
         HarvestFeesToRewards(amount) \/ \E notified \in BOOLEAN : ClaimArrives(amount, notified)
  PROVE  CoveredInv'
<1> USE VaultAssumption
<1>1. amount \in Nat /\ claimBalance' = claimBalance + amount
  BY DEF HarvestFeesToRewards, ClaimArrives
<1>2. UNCHANGED <<stakeVars, userRewardPerTokenPaid, rewards>>
  BY DEF HarvestFeesToRewards, ClaimArrives
<1>3. claimBalance \in Int /\ claimBalance' \in Int /\ claimBalance' >= claimBalance
  BY <1>1 DEF CoveredInv
<1>4. /\ Covers(claimBalance, books) /\ Covers(claimBalance, Checkpointed) /\ totalStaked \in Nat
      /\ Checkpointed.credited = books.credited
      /\ Checkpointed.rewardPerToken >= books.rewardPerToken
  BY CheckpointedCovers DEF CoveredInv
<1>5. \/ books' = books
      \/ books' = checkpointRewards(books, claimBalance', totalStaked)
      \/ books' = checkpointRewards(Checkpointed, claimBalance', totalStaked)
  BY <1>1 DEF HarvestFeesToRewards, ClaimArrives, BooksBeforeHarvest
<1>6. /\ Covers(claimBalance', books') /\ books'.credited = books.credited
      /\ books'.rewardPerToken >= books.rewardPerToken
  <2>1. CASE books' = books
    BY <1>3, <1>4, <2>1 DEF Covers, IntBooks
  <2>2. CASE books' = checkpointRewards(books, claimBalance', totalStaked)
    BY <1>3, <1>4, <2>2, CheckpointCovers
  <2>3. CASE books' = checkpointRewards(Checkpointed, claimBalance', totalStaked)
    <3>1. /\ Covers(claimBalance', books') /\ books'.credited = Checkpointed.credited
          /\ books'.rewardPerToken >= Checkpointed.rewardPerToken
      BY <1>3, <1>4, <2>3, CheckpointCovers
    <3> QED
      BY <1>4, <3>1 DEF Covers, IntBooks
  <2> QED
    BY <1>5, <2>1, <2>2, <2>3
<1>7. /\ totalStaked' = totalStaked /\ stakedBalance' = stakedBalance /\ rewards' = rewards
      /\ userRewardPerTokenPaid' = userRewardPerTokenPaid
  BY <1>2 DEF stakeVars
<1>8. Sum(rewards, Users)' = Sum(rewards, Users)
  BY <1>7
<1>9. Ahead(books)'
  BY <1>4, <1>6, <1>7 DEF Ahead, CoveredInv, Covers, IntBooks
<1> QED
  BY <1>3, <1>6, <1>7, <1>8, <1>9 DEF CoveredInv

LEMMA CoveredInvHolds == Spec => []CoveredInv
<1>1. Init => CoveredInv
  <2> SUFFICES ASSUME Init PROVE CoveredInv
    OBVIOUS
  <2>1. rewards \in [Users -> Nat] /\ \A u \in Users : rewards[u] = 0
    BY DEF Init, None
  <2>2. Sum(rewards, Users) = 0
    BY <2>1, SumOfZeroes, VaultAssumption
  <2> QED
    BY <2>1, <2>2 DEF Init, None, CoveredInv, Covers, IntBooks, Ahead
<1>2. CoveredInv /\ [Next]_vars => CoveredInv'
  <2> SUFFICES ASSUME CoveredInv, [Next]_vars PROVE CoveredInv'
    OBVIOUS
  <2>1. CASE Tick
    BY <2>1, NothingMoves DEF Tick
  <2>2. ASSUME NEW amount \in Transfers,
               HarvestFeesToRewards(amount) \/ \E notified \in BOOLEAN : ClaimArrives(amount, notified)
        PROVE  CoveredInv'
    BY <2>2, FundingKeeps
  <2>3. ASSUME NEW u \in Users, NEW amount \in Amounts, Stake(u, amount) PROVE CoveredInv'
    BY <2>3, StakeKeeps
  <2>4. ASSUME NEW u \in Users, NEW amount \in Amounts, BeginUnbond(u, amount) PROVE CoveredInv'
    BY <2>4, UnbondKeeps
  <2>5. ASSUME NEW u \in Users, WithdrawMatured(u) PROVE CoveredInv'
    BY <2>5, NothingMoves DEF WithdrawMatured
  <2>6. ASSUME NEW u \in Users, ClaimRewards(u) PROVE CoveredInv'
    BY <2>6, ClaimKeeps
  <2>7. ASSUME NEW u \in Users, NEW nested \in Transfers \cup {0}, ClaimRewardsAndLock(u, nested)
        PROVE  CoveredInv'
    BY <2>7, ClaimKeeps
  <2>8. ASSUME NEW u \in Users, NEW nested \in Transfers \cup {0}, CompoundFor(u, nested)
        PROVE  CoveredInv'
    BY <2>8, CompoundKeeps
  <2>9. ASSUME NEW u \in Users, NEW enabled \in BOOLEAN, SetAutoCompoundConfig(u, enabled)
        PROVE  CoveredInv'
    BY <2>9, NothingMoves DEF SetAutoCompoundConfig
  <2>10. CASE UNCHANGED vars
    BY <2>10, NothingMoves DEF vars
  <2> QED
    BY <2>1, <2>2, <2>3, <2>4, <2>5, <2>6, <2>7, <2>8, <2>9, <2>10 DEF Next
<1> QED
  BY <1>1, <1>2, PTL DEF Spec

(* The rewards of the users are the CLAIM credited, which is indexed; what  *)
(* is indexed or queued is what is accounted for, and that is in the vault. *)
THEOREM VaultCoversClaims == Spec => []ClaimCovered
<1>1. CoveredInv => ClaimCovered
  BY TotalIsSum DEF CoveredInv, Covers, ClaimCovered
<1> QED
  BY <1>1, CoveredInvHolds, PTL

(* What a harvest counts as vault fees is what the pool brought: by the     *)
(* checkpoint it begins with, nothing else is unaccounted for.              *)
THEOREM HarvestCountsFees == Spec => []OnlyFeesCountAsFees
<1> DEFINE FeesInv == feesHarvested \in Int /\ OnlyFeesCountAsFees
<1>1. Init => FeesInv
  BY DEF Init, OnlyFeesCountAsFees
<1>2. CoveredInv /\ FeesInv /\ [Next]_vars => FeesInv'
  <2> SUFFICES ASSUME CoveredInv, FeesInv, [Next]_vars PROVE FeesInv'
    OBVIOUS
  <2>1. ASSUME NEW amount \in Transfers, HarvestFeesToRewards(amount) PROVE FeesInv'
    <3>1. amount \in Nat
      BY VaultAssumption
    <3>2. claimBalance \in Int /\ Checkpointed.accounted = claimBalance
      BY CheckpointCovers DEF CoveredInv, Checkpointed
    <3>3. /\ claimBalance' = claimBalance + amount /\ feesHarvested' = feesHarvested + amount
          /\ fundedFromVaultFees' = fundedFromVaultFees + BalanceDelta(Checkpointed, claimBalance')
      BY <2>1 DEF HarvestFeesToRewards, BooksBeforeHarvest
    <3>4. BalanceDelta(Checkpointed, claimBalance') = amount
      BY <3>1, <3>2, <3>3 DEF BalanceDelta
    <3> QED
      BY <3>1, <3>3, <3>4 DEF OnlyFeesCountAsFees
  <2>2. ASSUME UNCHANGED <<feesHarvested, fundedFromVaultFees>> PROVE FeesInv'
    BY <2>2 DEF OnlyFeesCountAsFees
  <2>3. \/ \E amount \in Transfers : HarvestFeesToRewards(amount)
        \/ UNCHANGED <<feesHarvested, fundedFromVaultFees>>
    <3> DEFINE Same == UNCHANGED <<feesHarvested, fundedFromVaultFees>>
    <3>1. ASSUME Tick \/ UNCHANGED vars PROVE Same
      BY <3>1 DEF Tick, vars, arrivalVars
    <3>2. ASSUME NEW amount \in Transfers, NEW notified \in BOOLEAN, ClaimArrives(amount, notified) PROVE Same
      BY <3>2 DEF ClaimArrives
    <3>3. ASSUME NEW u \in Users, NEW amount \in Amounts, Stake(u, amount) \/ BeginUnbond(u, amount) PROVE Same
      BY <3>3 DEF Stake, BeginUnbond, arrivalVars
    <3>4. ASSUME NEW u \in Users, WithdrawMatured(u) \/ ClaimRewards(u) PROVE Same
      BY <3>4 DEF WithdrawMatured, ClaimRewards, arrivalVars
    <3>5. ASSUME NEW u \in Users, NEW nested \in Transfers \cup {0},
                 ClaimRewardsAndLock(u, nested) \/ CompoundFor(u, nested)
          PROVE  Same
      BY <3>5 DEF ClaimRewardsAndLock, CompoundFor
    <3>6. ASSUME NEW u \in Users, NEW enabled \in BOOLEAN, SetAutoCompoundConfig(u, enabled) PROVE Same
      BY <3>6 DEF SetAutoCompoundConfig, arrivalVars
    <3> HIDE DEF Same
    <3>7. (\E amount \in Transfers : HarvestFeesToRewards(amount)) \/ Same
      BY <3>1, <3>2, <3>3, <3>4, <3>5, <3>6, Zenon DEF Next
    <3> QED
      BY <3>7 DEF Same
  <2> QED
    BY <2>1, <2>2, <2>3
<1>3. FeesInv => OnlyFeesCountAsFees
  OBVIOUS
<1> QED
  BY <1>1, <1>2, <1>3, CoveredInvHolds, PTL DEF Spec
-----------------------------------------------------------------------------
(* Leaving.  What a list of unbondings weighs, by a weight for each: its   *)
(* amount, or its amount once it is due.                                   *)
Weighed(q, w) == Sum([k \in DOMAIN q |-> w[q[k]]], DOMAIN q)

LEMMA WeightIsInt ==
  ASSUME NEW E, NEW q \in Seq(E), NEW w \in [E -> Int]
  PROVE  Weighed(q, w) \in Int
<1> DEFINE f == [k \in DOMAIN q |-> w[q[k]]]
<1>1. DOMAIN q = 1..Len(q) /\ Len(q) \in Nat /\ \A k \in 1..Len(q) : q[k] \in E
  OBVIOUS
<1>2. IsFiniteSet(DOMAIN q)
  BY <1>1, FS_Interval
<1>3. \A k \in DOMAIN q : f[k] \in Int
  BY <1>1
<1> HIDE DEF f
<1>4. Sum(f, DOMAIN q) \in Int
  BY <1>2, <1>3, SumIsInt
<1> QED
  BY <1>4 DEF Weighed, f

LEMMA IntervalIsFinite == \A n \in Nat : IsFiniteSet(1..n)
BY FS_Interval

LEMMA WeightOfLonger ==
  ASSUME NEW E, NEW q \in Seq(E), NEW e \in E, NEW w \in [E -> Int]
  PROVE  Weighed(Append(q, e), w) = Weighed(q, w) + w[e]
<1> DEFINE n == Len(q)
           last == n + 1
           p == Append(q, e)
           N == DOMAIN q
           f == [k \in DOMAIN q |-> w[q[k]]]
           g == [k \in DOMAIN p |-> w[p[k]]]
<1>1. /\ N = 1..n /\ n \in Nat /\ \A k \in N : q[k] \in E
      /\ DOMAIN p = 1..last /\ p[last] = e /\ \A k \in N : p[k] = q[k]
  BY AppendProperties
<1> HIDE DEF n, p
<1>2. DOMAIN p = N \cup {last} /\ last \notin N /\ IsFiniteSet(N)
  BY <1>1, IntervalIsFinite
<1>3. /\ \A k \in N \cup {last} : g[k] \in Int
      /\ \A k \in N : f[k] = g[k]
      /\ g[last] = w[e]
  BY <1>1, <1>2
<1>4. Weighed(q, w) = Sum(f, N) /\ Weighed(p, w) = Sum(g, N \cup {last})
  BY <1>2 DEF Weighed
<1> HIDE DEF f, g, N, last
<1>5. Sum(g, N \cup {last}) = Sum(g, N) + g[last]
  BY <1>2, <1>3, SumGrows
<1>6. Sum(f, N) = Sum(g, N)
  BY <1>2, <1>3, SumIsTheSame
<1> QED
  BY <1>3, <1>4, <1>5, <1>6 DEF p

(* The swap-and-pop takes out one entry and no other.                      *)
Popped(q, i) == SubSeq([q EXCEPT ![i] = q[Len(q)]], 1, Len(q) - 1)

LEMMA PoppedIs ==
  ASSUME NEW E, NEW q \in Seq(E), NEW i \in 1..Len(q)
  PROVE  /\ Popped(q, i) \in Seq(E)
         /\ Len(Popped(q, i)) = Len(q) - 1 /\ DOMAIN Popped(q, i) = 1..(Len(q) - 1)
         /\ \A k \in 1..(Len(q) - 1) : Popped(q, i)[k] = IF k = i THEN q[Len(q)] ELSE q[k]
<1> DEFINE n == Len(q)
           r == [q EXCEPT ![i] = q[n]]
           p == Popped(q, i)
<1>1. DOMAIN q = 1..n /\ n \in Nat /\ n >= 1 /\ \A k \in 1..n : q[k] \in E
  OBVIOUS
<1>2. \A k \in 1..n : r[k] = IF k = i THEN q[n] ELSE q[k]
  BY <1>1
<1>3. \A k \in 1..(n - 1) : r[k] \in E
  BY <1>1, <1>2
<1>4. p = SubSeq(r, 1, n - 1) /\ 1 \in Int /\ n - 1 \in Int
  BY <1>1 DEF Popped
<1> HIDE DEF n, r, p
<1>5. /\ p \in Seq(E) /\ Len(p) = (IF 1 <= n - 1 THEN (n - 1) - 1 + 1 ELSE 0)
      /\ \A k \in 1..((n - 1) - 1 + 1) : p[k] = r[1 + k - 1]
  BY <1>3, <1>4, SubSeqProperties
<1>6. Len(p) = n - 1 /\ \A k \in 1..(n - 1) : p[k] = r[k]
  BY <1>1, <1>5
<1>7. \A k \in 1..(n - 1) : p[k] = IF k = i THEN q[n] ELSE q[k]
  BY <1>1, <1>2, <1>6
<1> QED
  BY <1>5, <1>6, <1>7 DEF n, p

(* The value at n moved to i, the sum without n is the old one without i.  *)
LEMMA SumOfPopped ==
  ASSUME NEW N, IsFiniteSet(N), NEW i \in N, NEW n \in N
  PROVE  \A f, h : /\ \A k \in N : f[k] \in Int
                   /\ \A k \in N \ {i} : h[k] = f[k]
                   /\ h[i] = f[n] /\ h[n] = f[n]
                   => Sum(h, N \ {n}) = Sum(f, N) - f[i]
<1> SUFFICES ASSUME NEW f, NEW h, \A k \in N : f[k] \in Int,
                    \A k \in N \ {i} : h[k] = f[k], h[i] = f[n], h[n] = f[n]
             PROVE  Sum(h, N \ {n}) = Sum(f, N) - f[i]
  OBVIOUS
<1>1. \A k \in N : h[k] \in Int
  OBVIOUS
<1>2. Sum(h, N) = Sum(f, N) - f[i] + h[i]
  <2>1. \A a, b : /\ b[i] \in Int /\ \A k \in N : a[k] \in Int
                  /\ \A k \in N \ {i} : b[k] = a[k]
                  => Sum(b, N) = Sum(a, N) - a[i] + b[i]
    BY SumChanges
  <2> QED
    BY <1>1, <2>1
<1>3. Sum(h, N) = h[n] + Sum(h, N \ {n})
  BY <1>1, SumSplits
<1>4. Sum(f, N) \in Int
  BY SumIsInt
<1>5. Sum(h, N \ {n}) \in Int
  <2>1. IsFiniteSet(N \ {n}) /\ \A k \in N \ {n} : h[k] \in Int
    BY <1>1, FS_Subset
  <2> QED
    BY <2>1, SumIsInt
<1>6. h[i] = h[n] /\ h[i] \in Int /\ f[i] \in Int
  BY <1>1
<1> DEFINE whole == Sum(f, N)
           part == Sum(h, N \ {n})
           gone == f[i]
           moved == h[n]
<1>7. whole \in Int /\ part \in Int /\ gone \in Int /\ moved \in Int
  BY <1>4, <1>5, <1>6
<1>8. whole - gone + moved = moved + part
  BY <1>2, <1>3, <1>6
<1> HIDE DEF whole, part, gone, moved
<1>9. part = whole - gone
  BY <1>7, <1>8
<1> QED
  BY <1>9 DEF part, whole, gone

LEMMA WeightOfPopped ==
  ASSUME NEW E, NEW q \in Seq(E), NEW i \in 1..Len(q), NEW w \in [E -> Int]
  PROVE  Weighed(Popped(q, i), w) = Weighed(q, w) - w[q[i]]
<1> DEFINE n == Len(q)
           p == Popped(q, i)
           N == DOMAIN q
           M == DOMAIN p
           f == [k \in DOMAIN q |-> w[q[k]]]
           g == [k \in DOMAIN p |-> w[p[k]]]
           h == [k \in DOMAIN q |-> IF k = i THEN w[q[n]] ELSE w[q[k]]]
<1>1. /\ N = 1..n /\ n \in Nat /\ n >= 1 /\ i \in N /\ n \in N
      /\ \A k \in 1..n : q[k] \in E
  OBVIOUS
<1>2. M = 1..(n - 1) /\ \A k \in M : p[k] = IF k = i THEN q[n] ELSE q[k]
  <2>1. /\ DOMAIN Popped(q, i) = 1..(Len(q) - 1)
        /\ \A k \in 1..(Len(q) - 1) : Popped(q, i)[k] = IF k = i THEN q[Len(q)] ELSE q[k]
    BY PoppedIs
  <2> QED
    BY <2>1
<1>3. Weighed(q, w) = Sum(f, N) /\ Weighed(p, w) = Sum(g, M)
  BY DEF Weighed
<1> HIDE DEF n, p
<1>4. /\ N \ {n} = M /\ n - 1 \in Nat
      /\ \A k \in N : f[k] \in Int
      /\ \A k \in N \ {i} : h[k] = f[k]
      /\ h[i] = f[n] /\ h[n] = f[n] /\ f[i] = w[q[i]]
      /\ \A k \in M : g[k] = h[k]
  BY <1>1, <1>2
<1>5. IsFiniteSet(N) /\ IsFiniteSet(M) /\ i \in N /\ n \in N
  BY <1>1, <1>2, <1>4, IntervalIsFinite
<1> HIDE DEF f, g, h, N, M
<1>6. Sum(h, M) = Sum(f, N) - f[i]
  <2>1. \A a, b : /\ \A k \in N : a[k] \in Int
                  /\ \A k \in N \ {i} : b[k] = a[k]
                  /\ b[i] = a[n] /\ b[n] = a[n]
                  => Sum(b, N \ {n}) = Sum(a, N) - a[i]
    BY <1>5, SumOfPopped
  <2> QED
    BY <1>4, <2>1
<1>7. Sum(g, M) = Sum(h, M)
  BY <1>4, <1>5, SumIsTheSame
<1> QED
  BY <1>3, <1>4, <1>6, <1>7 DEF p

(* Where the loop of withdrawMatured stands: left entries to look at, none *)
(* passed over that is due, and for every weight that counts what is due   *)
(* in full, what came out and what is left weigh as much as the list did.  *)
InFull(w) == w \in [Unbond -> Int] /\ \A e \in Unbond : now >= e.unlockTime => w[e] = e.amount
Sweeping(s, q, left) ==
  /\ s \in [i : Nat, out : Nat, arr : Seq(Unbond)]
  /\ s.i >= 1 /\ Len(s.arr) + 1 - s.i = left
  /\ \A k \in 1..Len(s.arr) : k < s.i => s.arr[k].unlockTime > now
  /\ \A w : InFull(w) => s.out + Weighed(s.arr, w) = Weighed(q, w)

LEMMA VisitSweeps ==
  ASSUME now \in Nat, NEW q, NEW left \in Nat, left > 0, NEW s, Sweeping(s, q, left)
  PROVE  Sweeping(Visit(s), q, left - 1)
<1> DEFINE a == s.arr
           i == s.i
           e == a[i]
<1>1. /\ a \in Seq(Unbond) /\ i \in Nat /\ s.out \in Nat /\ i >= 1 /\ Len(a) + 1 - i = left
      /\ \A k \in 1..Len(a) : k < i => a[k].unlockTime > now
      /\ \A w : InFull(w) => s.out + Weighed(a, w) = Weighed(q, w)
      /\ s = [i |-> i, out |-> s.out, arr |-> a]
  BY DEF Sweeping
<1> HIDE DEF a, i
<1>2. Len(a) \in Nat /\ i \in 1..Len(a) /\ e \in Unbond /\ e.amount \in Nat /\ e.unlockTime \in Nat
  <2>1. Len(a) \in Nat /\ i \in 1..Len(a)
    BY <1>1
  <2>2. e \in Unbond
    BY <1>1, <2>1
  <2> HIDE DEF e
  <2> QED
    BY <2>1, <2>2 DEF Unbond
<1>3. CASE now >= e.unlockTime
  <2> DEFINE p == Popped(a, i)
             r == [i |-> i, out |-> s.out + e.amount, arr |-> p]
  <2>1. Visit(s) = r
    BY <1>3 DEF Visit, Popped, a, i
  <2>2. /\ p \in Seq(Unbond) /\ Len(p) = Len(a) - 1
        /\ \A k \in 1..(Len(a) - 1) : p[k] = IF k = i THEN a[Len(a)] ELSE a[k]
    BY <1>1, <1>2, PoppedIs
  <2>3. ASSUME NEW w, InFull(w) PROVE s.out + e.amount + Weighed(p, w) = Weighed(q, w)
    <3>1. w \in [Unbond -> Int] /\ w[e] = e.amount
      BY <1>2, <1>3, <2>3 DEF InFull
    <3>2. Weighed(p, w) = Weighed(a, w) - e.amount
      BY <1>1, <1>2, <3>1, WeightOfPopped
    <3>3. Weighed(a, w) \in Int
      BY <1>1, <3>1, WeightIsInt
    <3>4. s.out + Weighed(a, w) = Weighed(q, w)
      BY <1>1, <2>3
    <3> QED
      BY <1>1, <1>2, <3>2, <3>3, <3>4
  <2> HIDE DEF p
  <2>4. /\ r.i = i /\ r.arr = p /\ r.out = s.out + e.amount
        /\ r \in [i : Nat, out : Nat, arr : Seq(Unbond)]
    BY <1>1, <1>2, <2>2
  <2>5. \A k \in 1..Len(p) : k < i => p[k].unlockTime > now
    BY <1>1, <1>2, <2>2
  <2>6. Len(p) + 1 - i = left - 1
    BY <1>1, <1>2, <2>2
  <2> HIDE DEF r
  <2> QED
    BY <1>1, <2>1, <2>3, <2>4, <2>5, <2>6 DEF Sweeping
<1>4. CASE ~(now >= e.unlockTime)
  <2> DEFINE r == [i |-> i + 1, out |-> s.out, arr |-> a]
  <2>1. Visit(s) = r
    BY <1>1, <1>4 DEF Visit, a, i
  <2>2. /\ r.i = i + 1 /\ r.arr = a /\ r.out = s.out
        /\ r \in [i : Nat, out : Nat, arr : Seq(Unbond)]
    BY <1>1
  <2>3. \A k \in 1..Len(a) : k < i + 1 => a[k].unlockTime > now
    BY <1>1, <1>2, <1>4
  <2>4. Len(a) + 1 - (i + 1) = left - 1
    BY <1>1, <1>2
  <2> HIDE DEF r
  <2> QED
    BY <1>1, <2>1, <2>2, <2>3, <2>4 DEF Sweeping
<1> QED
  BY <1>3, <1>4

(* Of the numbers up to n for which something is so, one is the smallest.  *)
LEMMA SmallestNumber ==
  ASSUME NEW n \in Nat, NEW T, T \subseteq 0..n, T # {}
  PROVE  \E m \in T : \A k \in T : m <= k
<1> DEFINE S == 0..n
           U == {0..k : k \in T}
<1>1. IsFiniteSet(S)
  BY FS_Interval
<1>2. U \subseteq SUBSET S /\ U # {}
  <2>1. \A k \in T : 0..k \subseteq S
    OBVIOUS
  <2>2. PICK k \in T : TRUE
    OBVIOUS
  <2>3. 0..k \in U
    OBVIOUS
  <2> HIDE DEF S
  <2> QED
    BY <2>1, <2>3
<1>3. \E m \in U : \A s \in SUBSET m : s # m => s \notin U
  <2> HIDE DEF U, S
  <2> QED
    BY <1>1, <1>2, SmallestSet
<1>4. PICK m \in T : \A s \in SUBSET (0..m) : s # 0..m => s \notin U
  BY <1>3
<1>5. ASSUME NEW k \in T, ~(m <= k) PROVE FALSE
  <2>1. k \in Nat /\ m \in Nat /\ k < m
    BY <1>5
  <2>2. 0..k \in SUBSET (0..m) /\ m \in 0..m /\ m \notin 0..k
    BY <2>1
  <2>3. 0..k # 0..m /\ 0..k \in U
    BY <2>2
  <2> QED
    BY <1>4, <2>2, <2>3
<1> QED
  BY <1>5

(* The recursion of Swept has a value.                                     *)
Visits(f, x, n) == f = [k \in 0..n |-> IF k = 0 THEN x ELSE Visit(f[k - 1])]

LEMMA VisitsExist ==
  ASSUME NEW n \in Nat, NEW x
  PROVE  \E f : Visits(f, x, n)
<1> SUFFICES ASSUME ~ \E f : Visits(f, x, n) PROVE FALSE
  OBVIOUS
<1> DEFINE T == {k \in 0..n : ~ \E f : Visits(f, x, k)}
<1>1. n \in T /\ T \subseteq 0..n
  OBVIOUS
<1>2. PICK m \in T : \A k \in T : m <= k
  <2> HIDE DEF T
  <2> QED
    BY <1>1, SmallestNumber
<1>3. m \in 0..n /\ ~ \E f : Visits(f, x, m)
  OBVIOUS
<1>4. CASE m = 0
  <2> DEFINE g == [k \in 0..0 |-> x]
  <2>1. g = [k \in 0..0 |-> IF k = 0 THEN x ELSE Visit(g[k - 1])]
    OBVIOUS
  <2>2. Visits(g, x, m)
    BY <1>4, <2>1 DEF Visits
  <2> QED
    BY <1>3, <2>2
<1>5. CASE m # 0
  <2>1. m - 1 \in 0..n /\ m - 1 \notin T
    BY <1>2, <1>3, <1>5
  <2>2. PICK f : Visits(f, x, m - 1)
    BY <2>1
  <2>3. \A k \in 0..(m - 1) : f[k] = IF k = 0 THEN x ELSE Visit(f[k - 1])
    BY <2>2 DEF Visits
  <2> DEFINE g == [k \in 0..m |-> IF k = m THEN Visit(f[m - 1]) ELSE f[k]]
             h == [k \in 0..m |-> IF k = 0 THEN x ELSE Visit(g[k - 1])]
  <2>4. ASSUME NEW k \in 0..m PROVE g[k] = h[k]
    <3>1. CASE k = m
      <4>1. g[k - 1] = f[m - 1]
        BY <1>3, <1>5, <3>1
      <4> QED
        BY <1>3, <1>5, <3>1, <4>1
    <3>2. CASE k # m
      <4>1. k \in 0..(m - 1) /\ (k # 0 => k - 1 \in 0..m /\ k - 1 # m)
        BY <1>3, <3>2
      <4>2. g[k] = f[k] /\ (k # 0 => g[k - 1] = f[k - 1])
        BY <3>2, <4>1
      <4> HIDE DEF g
      <4> QED
        BY <2>3, <4>1, <4>2
    <3> QED
      BY <3>1, <3>2
  <2>5. g = h
    BY <2>4
  <2>6. Visits(g, x, m)
    BY <2>5 DEF Visits
  <2> QED
    BY <1>3, <2>6
<1> QED
  BY <1>4, <1>5

(* When the loop ends nothing that is due is left.                         *)
LEMMA SweptIsSwept ==
  ASSUME now \in Nat, NEW u \in Users, unbonds[u] \in Seq(Unbond)
  PROVE  Sweeping(Swept(u), unbonds[u], 0)
<1> DEFINE q == unbonds[u]
           n == Len(q)
           x == [i |-> 1, out |-> 0, arr |-> q]
           after == CHOOSE f : Visits(f, x, n)
<1>1. Swept(u) = after[n]
  BY DEF Swept, Visits
<1>2. n \in Nat /\ q \in Seq(Unbond)
  OBVIOUS
<1>3. Sweeping(x, q, n)
  <2>1. \A w : InFull(w) => 0 + Weighed(q, w) = Weighed(q, w)
    <3> SUFFICES ASSUME NEW w, InFull(w) PROVE 0 + Weighed(q, w) = Weighed(q, w)
      OBVIOUS
    <3>1. Weighed(q, w) \in Int
      BY <1>2, WeightIsInt DEF InFull
    <3> QED
      BY <3>1
  <2> HIDE DEF q
  <2> QED
    BY <1>2, <2>1 DEF Sweeping
<1> HIDE DEF x, n, q
<1>4. Visits(after, x, n)
  BY <1>2, VisitsExist, Zenon
<1> HIDE DEF after
<1>5. \A k \in 0..n : after[k] = IF k = 0 THEN x ELSE Visit(after[k - 1])
  BY <1>4 DEF Visits
<1> DEFINE T == {k \in 0..n : ~Sweeping(after[k], q, n - k)}
<1>6. T = {}
  <2> SUFFICES ASSUME T # {} PROVE FALSE
    OBVIOUS
  <2>1. PICK m \in T : \A k \in T : m <= k
    <3>1. T \subseteq 0..n
      OBVIOUS
    <3> HIDE DEF T
    <3> QED
      BY <1>2, <3>1, SmallestNumber
  <2>2. m \in 0..n /\ ~Sweeping(after[m], q, n - m)
    OBVIOUS
  <2>3. m # 0
    BY <1>2, <1>3, <1>5, <2>2
  <2>4. m - 1 \in 0..n /\ m - 1 \notin T /\ n - (m - 1) \in Nat /\ n - (m - 1) > 0
    BY <1>2, <2>1, <2>2, <2>3
  <2>5. Sweeping(after[m - 1], q, n - (m - 1))
    BY <2>4
  <2>6. Sweeping(Visit(after[m - 1]), q, (n - (m - 1)) - 1)
    BY <2>4, <2>5, VisitSweeps
  <2>7. (n - (m - 1)) - 1 = n - m /\ after[m] = Visit(after[m - 1])
    BY <1>2, <1>5, <2>2, <2>3
  <2> QED
    BY <2>2, <2>6, <2>7
<1>7. n \in 0..n /\ n - n = 0
  BY <1>2
<1>8. Sweeping(after[n], q, n - n)
  BY <1>6, <1>7
<1> QED
  BY <1>1, <1>7, <1>8 DEF q

(* What an unbonding weighs: its LP, and its LP if it is due by a time.    *)
Whole == [e \in Unbond |-> e.amount]
DueBy(T) == [e \in Unbond |-> IF e.unlockTime <= T THEN e.amount ELSE 0]
BegunBy(T) == [e \in Begun |-> IF e.at + UNBONDING_PERIOD <= T THEN e.amount ELSE 0]
Leaving == [u \in Users |-> Weighed(unbonds[u], Whole)]

(* From the last withdrawal on, what was taken and what is due by then are *)
(* what was begun in time; and what is due was taken.                      *)
PaidInTime(u) ==
  \A T \in Nat : T >= exitedAt[u] =>
    lpTaken[u] + Weighed(unbonds[u], DueBy(T)) = Weighed(begun[u], BegunBy(T))
NoneIsDue(u) == \A k \in DOMAIN unbonds[u] : unbonds[u][k].unlockTime > exitedAt[u]

ExitInv ==
  /\ now \in Nat /\ lpBalance \in Int
  /\ exitedAt \in [Users -> Nat] /\ lpTaken \in [Users -> Nat]
  /\ unbonds \in [Users -> Seq(Unbond)] /\ begun \in [Users -> Seq(Begun)]
  /\ \A u \in Users : exitedAt[u] <= now /\ NoneIsDue(u) /\ PaidInTime(u)
  /\ totalStaked = Sum(stakedBalance, Users)
  /\ lpBalance = totalStaked + Sum(Leaving, Users)

LEMMA Weights ==
  ASSUME NEW T \in Nat
  PROVE  /\ Whole \in [Unbond -> Int] /\ DueBy(T) \in [Unbond -> Int] /\ BegunBy(T) \in [Begun -> Int]
         /\ now \in Nat => InFull(Whole)
         /\ now \in Nat /\ T >= now => InFull(DueBy(T))
<1> USE VaultAssumption
<1>1. \A e \in Unbond : e.amount \in Nat /\ e.unlockTime \in Nat
  BY DEF Unbond
<1>2. \A e \in Begun : e.amount \in Nat /\ e.at \in Nat
  BY DEF Begun
<1>3. Whole \in [Unbond -> Int] /\ DueBy(T) \in [Unbond -> Int] /\ BegunBy(T) \in [Begun -> Int]
  BY <1>1, <1>2 DEF Whole, DueBy, BegunBy
<1>4. ASSUME now \in Nat PROVE InFull(Whole)
  BY <1>3 DEF InFull, Whole
<1>5. ASSUME now \in Nat, T >= now PROVE InFull(DueBy(T))
  BY <1>1, <1>3, <1>5 DEF InFull, DueBy
<1> QED
  BY <1>3, <1>4, <1>5

LEMMA NobodyLeaves ==
  ASSUME ExitInv, UNCHANGED <<stakeVars, exitVars, lpBalance>>, now' \in Nat, now' >= now
  PROVE  ExitInv'
<1>1. /\ totalStaked' = totalStaked /\ stakedBalance' = stakedBalance /\ unbonds' = unbonds
      /\ begun' = begun /\ exitedAt' = exitedAt /\ lpTaken' = lpTaken /\ lpBalance' = lpBalance
  BY DEF stakeVars, exitVars
<1>2. \A u \in Users : exitedAt'[u] <= now' /\ NoneIsDue(u)' /\ PaidInTime(u)'
  <2>1. \A u \in Users : exitedAt[u] <= now' /\ NoneIsDue(u) /\ PaidInTime(u)
    BY DEF ExitInv
  <2> QED
    BY <1>1, <2>1 DEF NoneIsDue, PaidInTime
<1>3. (totalStaked = Sum(stakedBalance, Users))' /\ (lpBalance = totalStaked + Sum(Leaving, Users))'
  BY <1>1 DEF ExitInv, Leaving
<1> QED
  BY <1>1, <1>2, <1>3 DEF ExitInv

LEMMA StakeEnters ==
  ASSUME CoveredInv, ExitInv, NEW u \in Users, NEW amount \in Amounts, Stake(u, amount)
  PROVE  ExitInv'
<1>1. /\ totalStaked' = totalStaked + amount /\ lpBalance' = lpBalance + amount
      /\ stakedBalance' = [stakedBalance EXCEPT ![u] = @ + amount]
      /\ UNCHANGED <<now, unbonds, begun, exitedAt, lpTaken>>
  BY DEF Stake, exitVars
<1>2. amount \in Nat /\ stakedBalance[u] \in Nat /\ stakedBalance \in [Users -> Nat]
  BY VaultAssumption DEF CoveredInv
<1>3. Sum(stakedBalance', Users) = Sum(stakedBalance, Users) - stakedBalance[u] + (stakedBalance[u] + amount)
  <2> DEFINE n == stakedBalance[u] + amount
  <2>1. n \in Nat /\ stakedBalance' = [stakedBalance EXCEPT ![u] = n]
    BY <1>1, <1>2
  <2> HIDE DEF n
  <2>2. Sum(stakedBalance', Users) = Sum(stakedBalance, Users) - stakedBalance[u] + n
    BY <1>2, <2>1, OneChanges
  <2> QED
    BY <2>2 DEF n
<1>4. Leaving' = Leaving
  BY <1>1 DEF Leaving
<1>5. totalStaked \in Int /\ Sum(Leaving, Users) \in Int
  <2>1. \A v \in Users : Leaving[v] \in Int
    BY WeightIsInt, Weights DEF Leaving, ExitInv
  <2> QED
    BY <2>1, SumIsInt, VaultAssumption DEF CoveredInv
<1>6. totalStaked' = Sum(stakedBalance', Users)
  BY <1>1, <1>2, <1>3, <1>5 DEF ExitInv
<1>7. lpBalance' = totalStaked' + Sum(Leaving', Users)
  BY <1>1, <1>2, <1>4, <1>5 DEF ExitInv
<1>8. \A v \in Users : exitedAt'[v] <= now' /\ NoneIsDue(v)' /\ PaidInTime(v)'
  <2>1. \A v \in Users : exitedAt[v] <= now /\ NoneIsDue(v) /\ PaidInTime(v)
    BY DEF ExitInv
  <2> QED
    BY <1>1, <2>1 DEF NoneIsDue, PaidInTime
<1> QED
  BY <1>1, <1>2, <1>6, <1>7, <1>8 DEF ExitInv

LEMMA UnbondEnters ==
  ASSUME CoveredInv, ExitInv, NEW u \in Users, NEW amount \in Amounts, BeginUnbond(u, amount)
  PROVE  ExitInv'
<1> DEFINE out == Unbonded(u, amount)
           e == [amount |-> out, unlockTime |-> now + UNBONDING_PERIOD]
           b == [amount |-> out, at |-> now]
           left == stakedBalance[u] - out
<1>1. /\ totalStaked' = totalStaked - out /\ stakedBalance[u] >= amount
      /\ stakedBalance' = [stakedBalance EXCEPT ![u] = left]
      /\ unbonds' = [unbonds EXCEPT ![u] = Append(unbonds[u], e)]
      /\ begun' = [begun EXCEPT ![u] = Append(begun[u], b)]
      /\ UNCHANGED <<now, exitedAt, lpTaken, lpBalance>>
  BY DEF BeginUnbond
<1>2. out \in Nat \ {0} /\ out <= stakedBalance[u]
  BY <1>1, UnbondedIsStaked
<1>3. /\ now \in Nat /\ UNBONDING_PERIOD \in Nat /\ UNBONDING_PERIOD > 0 /\ lpBalance \in Int
      /\ stakedBalance \in [Users -> Nat] /\ totalStaked \in Nat
      /\ unbonds \in [Users -> Seq(Unbond)] /\ begun \in [Users -> Seq(Begun)]
  BY VaultAssumption DEF ExitInv, CoveredInv
<1> HIDE DEF out
<1>4. e \in Unbond /\ b \in Begun /\ left \in Nat
  BY <1>2, <1>3 DEF Unbond, Begun
<1>5. /\ e.amount = out /\ e.unlockTime = now + UNBONDING_PERIOD
      /\ b.amount = out /\ b.at = now
  OBVIOUS
<1> HIDE DEF e, b, left
<1>6. /\ unbonds' \in [Users -> Seq(Unbond)] /\ begun' \in [Users -> Seq(Begun)]
      /\ unbonds'[u] = Append(unbonds[u], e) /\ begun'[u] = Append(begun[u], b)
      /\ \A v \in Users : v # u => unbonds'[v] = unbonds[v] /\ begun'[v] = begun[v]
  BY <1>1, <1>3, <1>4
<1>7. Sum(stakedBalance', Users) = Sum(stakedBalance, Users) - stakedBalance[u] + left
  BY <1>1, <1>3, <1>4, OneChanges
<1>8. totalStaked' = Sum(stakedBalance', Users)
  BY <1>1, <1>2, <1>3, <1>7 DEF ExitInv, left
<1>9. Sum(Leaving', Users) = Sum(Leaving, Users) + out
  <2>1. \A v \in Users : Leaving[v] = Weighed(unbonds[v], Whole) /\ Leaving[v] \in Int
    BY <1>3, WeightIsInt, Weights DEF Leaving
  <2>2. Weighed(unbonds'[u], Whole) = Weighed(unbonds[u], Whole) + out
    <3>1. Weighed(Append(unbonds[u], e), Whole) = Weighed(unbonds[u], Whole) + Whole[e]
      BY <1>3, <1>4, WeightOfLonger, Weights
    <3>2. Whole[e] = out
      BY <1>4, <1>5 DEF Whole
    <3> QED
      BY <1>6, <3>1, <3>2
  <2>3. /\ Leaving'[u] = Leaving[u] + out /\ Leaving'[u] \in Int
        /\ \A v \in Users \ {u} : Leaving'[v] = Leaving[v]
    <3>1. Leaving'[u] = Weighed(unbonds'[u], Whole)
      BY DEF Leaving
    <3>2. \A v \in Users \ {u} : Leaving'[v] = Weighed(unbonds[v], Whole)
      BY <1>6 DEF Leaving
    <3>3. out \in Nat
      BY <1>2
    <3> HIDE DEF Leaving
    <3> QED
      BY <2>1, <2>2, <3>1, <3>2, <3>3
  <2>4. Sum(Leaving', Users) = Sum(Leaving, Users) - Leaving[u] + Leaving'[u]
    <3>1. \A i, j : /\ j[u] \in Int /\ \A v \in Users : i[v] \in Int
                    /\ \A v \in Users \ {u} : j[v] = i[v]
                    => Sum(j, Users) = Sum(i, Users) - i[u] + j[u]
      BY VaultAssumption, SumChanges
    <3> QED
      BY <2>1, <2>3, <3>1
  <2>5. Sum(Leaving, Users) \in Int
    BY <2>1, SumIsInt, VaultAssumption
  <2> QED
    BY <1>2, <2>1, <2>3, <2>4, <2>5
<1>10. lpBalance' = totalStaked' + Sum(Leaving', Users)
  <2>1. lpBalance = totalStaked + Sum(Leaving, Users) /\ Sum(Leaving, Users) \in Int
    <3>1. \A v \in Users : Leaving[v] \in Int
      BY <1>3, WeightIsInt, Weights DEF Leaving
    <3> QED
      BY <3>1, SumIsInt, VaultAssumption DEF ExitInv
  <2> QED
    BY <1>1, <1>2, <1>3, <1>9, <2>1
<1>11. \A v \in Users : exitedAt'[v] <= now' /\ NoneIsDue(v)'
  <2> SUFFICES ASSUME NEW v \in Users PROVE exitedAt'[v] <= now' /\ NoneIsDue(v)'
    OBVIOUS
  <2>1. exitedAt[v] <= now /\ NoneIsDue(v) /\ exitedAt[v] \in Nat /\ exitedAt'[v] = exitedAt[v]
    BY <1>1 DEF ExitInv
  <2>2. CASE v # u
    BY <1>1, <1>6, <2>1, <2>2 DEF NoneIsDue
  <2>3. CASE v = u
    <3>1. /\ DOMAIN unbonds[u] = 1..Len(unbonds[u]) /\ Len(unbonds[u]) \in Nat
          /\ DOMAIN unbonds'[u] = 1..(Len(unbonds[u]) + 1)
          /\ unbonds'[u][Len(unbonds[u]) + 1] = e
          /\ \A k \in 1..Len(unbonds[u]) : unbonds'[u][k] = unbonds[u][k]
      BY <1>3, <1>4, <1>6, AppendProperties
    <3>2. e.unlockTime > exitedAt[u]
      BY <1>3, <1>5, <2>1, <2>3
    <3> QED
      BY <1>1, <2>1, <2>3, <3>1, <3>2 DEF NoneIsDue
  <2> QED
    BY <2>2, <2>3
<1>12. \A v \in Users : PaidInTime(v)'
  <2> SUFFICES ASSUME NEW v \in Users, NEW T \in Nat, T >= exitedAt[v]
               PROVE  lpTaken[v] + Weighed(unbonds'[v], DueBy(T)) = Weighed(begun'[v], BegunBy(T))
    BY <1>1 DEF PaidInTime
  <2>1. /\ lpTaken[v] + Weighed(unbonds[v], DueBy(T)) = Weighed(begun[v], BegunBy(T))
        /\ lpTaken[v] \in Nat
    BY DEF ExitInv, PaidInTime
  <2>2. CASE v # u
    BY <1>6, <2>1, <2>2
  <2>3. CASE v = u
    <3>1. /\ DueBy(T) \in [Unbond -> Int] /\ BegunBy(T) \in [Begun -> Int]
          /\ unbonds[u] \in Seq(Unbond) /\ begun[u] \in Seq(Begun)
      BY <1>3, Weights
    <3> DEFINE owed == DueBy(T)
               beg == BegunBy(T)
    <3>2. owed[e] = beg[b] /\ owed[e] \in Int
      BY <1>2, <1>4, <1>5 DEF DueBy, BegunBy
    <3> HIDE DEF owed, beg
    <3>3. owed \in [Unbond -> Int] /\ beg \in [Begun -> Int]
      BY <3>1 DEF owed, beg
    <3>4. /\ Weighed(Append(unbonds[u], e), owed) = Weighed(unbonds[u], owed) + owed[e]
          /\ Weighed(unbonds[u], owed) \in Int
      BY <1>4, <3>1, <3>3, WeightOfLonger, WeightIsInt
    <3>5. Weighed(Append(begun[u], b), beg) = Weighed(begun[u], beg) + beg[b]
      BY <1>4, <3>1, <3>3, WeightOfLonger
    <3>6. Weighed(begun[u], beg) \in Int
      BY <3>1, <3>3, WeightIsInt
    <3>7. lpTaken[u] + Weighed(unbonds[u], owed) = Weighed(begun[u], beg) /\ lpTaken[u] \in Nat
      BY <2>1, <2>3 DEF owed, beg
    <3>8. lpTaken[u] + Weighed(unbonds'[u], owed) = Weighed(begun'[u], beg)
      BY <1>6, <3>2, <3>4, <3>5, <3>6, <3>7
    <3> QED
      BY <2>3, <3>8 DEF owed, beg
  <2> QED
    BY <2>2, <2>3
<1>13. exitedAt' \in [Users -> Nat] /\ lpTaken' \in [Users -> Nat]
  BY <1>1 DEF ExitInv
<1> QED
  BY <1>1, <1>3, <1>6, <1>8, <1>10, <1>11, <1>12, <1>13 DEF ExitInv

LEMMA WithdrawalLeaves ==
  ASSUME CoveredInv, ExitInv, NEW u \in Users, WithdrawMatured(u)
  PROVE  ExitInv'
<1> DEFINE s == Swept(u)
           out == s.out
           arr == s.arr
<1>1. /\ unbonds' = [unbonds EXCEPT ![u] = arr] /\ lpBalance' = lpBalance - out
      /\ lpTaken' = [lpTaken EXCEPT ![u] = @ + out] /\ exitedAt' = [exitedAt EXCEPT ![u] = now]
      /\ UNCHANGED <<now, totalStaked, stakedBalance, begun>>
  BY DEF WithdrawMatured, stakeVars
<1>2. /\ now \in Nat /\ lpBalance \in Int /\ totalStaked \in Nat
      /\ unbonds \in [Users -> Seq(Unbond)] /\ begun \in [Users -> Seq(Begun)]
      /\ exitedAt \in [Users -> Nat] /\ lpTaken \in [Users -> Nat]
  BY DEF ExitInv, CoveredInv
<1>3. Sweeping(s, unbonds[u], 0)
  BY <1>2, SweptIsSwept
<1> HIDE DEF s
<1>4. /\ out \in Nat /\ arr \in Seq(Unbond)
      /\ \A w : InFull(w) => out + Weighed(arr, w) = Weighed(unbonds[u], w)
  BY <1>3 DEF Sweeping
<1>5. \A k \in DOMAIN arr : arr[k].unlockTime > now
  <2>1. /\ s.i \in Nat /\ Len(arr) + 1 - s.i = 0 /\ DOMAIN arr = 1..Len(arr) /\ Len(arr) \in Nat
        /\ \A k \in 1..Len(arr) : k < s.i => arr[k].unlockTime > now
    BY <1>3, <1>4 DEF Sweeping
  <2> HIDE DEF arr
  <2> QED
    BY <2>1
<1> HIDE DEF out, arr
<1>6. /\ unbonds' \in [Users -> Seq(Unbond)] /\ lpTaken' \in [Users -> Nat]
      /\ exitedAt' \in [Users -> Nat] /\ lpBalance' \in Int
      /\ unbonds'[u] = arr /\ lpTaken'[u] = lpTaken[u] + out /\ exitedAt'[u] = now
      /\ \A v \in Users : v # u => /\ unbonds'[v] = unbonds[v] /\ lpTaken'[v] = lpTaken[v]
                                  /\ exitedAt'[v] = exitedAt[v]
  BY <1>1, <1>2, <1>4
<1>7. out + Weighed(arr, Whole) = Weighed(unbonds[u], Whole) /\ Weighed(arr, Whole) \in Int
  BY <1>2, <1>4, Weights, WeightIsInt
<1>8. lpBalance' = totalStaked' + Sum(Leaving', Users)
  <2>1. \A v \in Users : Leaving[v] = Weighed(unbonds[v], Whole) /\ Leaving[v] \in Int
    BY <1>2, WeightIsInt, Weights DEF Leaving
  <2>2. Leaving'[u] = Weighed(arr, Whole)
    BY <1>6 DEF Leaving
  <2>3. \A v \in Users \ {u} : Leaving'[v] = Weighed(unbonds[v], Whole)
    BY <1>6 DEF Leaving
  <2> HIDE DEF Leaving
  <2>4. Sum(Leaving', Users) = Sum(Leaving, Users) - Leaving[u] + Leaving'[u]
    <3>1. \A i, j : /\ j[u] \in Int /\ \A v \in Users : i[v] \in Int
                    /\ \A v \in Users \ {u} : j[v] = i[v]
                    => Sum(j, Users) = Sum(i, Users) - i[u] + j[u]
      BY VaultAssumption, SumChanges
    <3> QED
      BY <1>7, <2>1, <2>2, <2>3, <3>1
  <2>5. Sum(Leaving, Users) \in Int
    BY <2>1, SumIsInt, VaultAssumption
  <2>6. lpBalance = totalStaked + Sum(Leaving, Users)
    BY DEF ExitInv
  <2> QED
    <3>1. Sum(Leaving', Users) = Sum(Leaving, Users) - out
      BY <1>4, <1>7, <2>1, <2>2, <2>4, <2>5
    <3> QED
      BY <1>1, <1>2, <1>4, <2>5, <2>6, <3>1
<1>9. \A v \in Users : exitedAt'[v] <= now' /\ NoneIsDue(v)'
  <2> SUFFICES ASSUME NEW v \in Users PROVE exitedAt'[v] <= now' /\ NoneIsDue(v)'
    OBVIOUS
  <2>1. exitedAt[v] <= now /\ NoneIsDue(v)
    BY DEF ExitInv
  <2>2. CASE v # u
    BY <1>1, <1>6, <2>1, <2>2 DEF NoneIsDue
  <2>3. CASE v = u
    BY <1>1, <1>2, <1>5, <1>6, <2>3 DEF NoneIsDue
  <2> QED
    BY <2>2, <2>3
<1>10. \A v \in Users : PaidInTime(v)'
  <2> SUFFICES ASSUME NEW v \in Users, NEW T \in Nat, T >= exitedAt'[v]
               PROVE  lpTaken'[v] + Weighed(unbonds'[v], DueBy(T)) = Weighed(begun'[v], BegunBy(T))
    BY DEF PaidInTime
  <2>1. \A x \in Nat : x >= exitedAt[v] =>
          lpTaken[v] + Weighed(unbonds[v], DueBy(x)) = Weighed(begun[v], BegunBy(x))
    BY DEF ExitInv, PaidInTime
  <2>2. CASE v # u
    BY <1>1, <1>6, <2>1, <2>2
  <2>3. CASE v = u
    <3>1. T >= now /\ now >= exitedAt[u] /\ exitedAt[u] \in Nat /\ lpTaken[u] \in Nat
      BY <1>2, <1>6, <2>3 DEF ExitInv
    <3>2. T >= exitedAt[u]
      BY <1>2, <3>1
    <3>3. lpTaken[u] + Weighed(unbonds[u], DueBy(T)) = Weighed(begun[u], BegunBy(T))
      BY <2>1, <2>3, <3>2
    <3>4. InFull(DueBy(T)) /\ DueBy(T) \in [Unbond -> Int]
      BY <1>2, <3>1, Weights
    <3> DEFINE owed == DueBy(T)
    <3> HIDE DEF owed
    <3>5. InFull(owed) /\ owed \in [Unbond -> Int]
      BY <3>4 DEF owed
    <3>6. out + Weighed(arr, owed) = Weighed(unbonds[u], owed)
      BY <1>4, <3>5
    <3>7. Weighed(arr, owed) \in Int
      BY <1>4, <3>5, WeightIsInt
    <3>8. lpTaken[u] + Weighed(unbonds[u], owed) = Weighed(begun[u], BegunBy(T))
      BY <3>3 DEF owed
    <3>9. (lpTaken[u] + out) + Weighed(arr, owed) = Weighed(begun[u], BegunBy(T))
      BY <1>4, <3>1, <3>6, <3>7, <3>8
    <3> QED
      BY <1>1, <1>6, <2>3, <3>9 DEF owed
  <2> QED
    BY <2>2, <2>3
<1>11. totalStaked' = Sum(stakedBalance', Users)
  BY <1>1 DEF ExitInv
<1> QED
  BY <1>1, <1>2, <1>6, <1>8, <1>9, <1>10, <1>11 DEF ExitInv

LEMMA ExitInvHolds == Spec => []ExitInv
<1>1. Init => ExitInv
  <2> SUFFICES ASSUME Init PROVE ExitInv
    OBVIOUS
  <2>1. /\ now \in Nat /\ lpBalance = 0 /\ totalStaked = 0
        /\ exitedAt = [u \in Users |-> 0] /\ lpTaken = [u \in Users |-> 0]
        /\ stakedBalance = [u \in Users |-> 0]
        /\ unbonds = [u \in Users |-> <<>>] /\ begun = [u \in Users |-> <<>>]
    BY VaultAssumption DEF Init, None
  <2>2. unbonds \in [Users -> Seq(Unbond)] /\ begun \in [Users -> Seq(Begun)]
    BY <2>1
  <2>3. \A w : Weighed(<<>>, w) = 0
    <3> SUFFICES ASSUME NEW w PROVE Weighed(<<>>, w) = 0
      OBVIOUS
    <3> DEFINE f == [k \in DOMAIN <<>> |-> w[<<>>[k]]]
    <3>1. DOMAIN <<>> = {} /\ Weighed(<<>>, w) = Sum(f, DOMAIN <<>>)
      BY DEF Weighed
    <3> HIDE DEF f
    <3>2. Sum(f, {}) = 0
      BY SumOfNothing
    <3> QED
      BY <3>1, <3>2
  <2>4. \A u \in Users : exitedAt[u] <= now /\ NoneIsDue(u) /\ PaidInTime(u)
    BY <2>1, <2>3 DEF NoneIsDue, PaidInTime
  <2>5. Sum(stakedBalance, Users) = 0
    BY <2>1, SumOfZeroes, VaultAssumption
  <2>6. Sum(Leaving, Users) = 0
    <3>1. \A u \in Users : Leaving[u] = 0
      BY <2>1, <2>3 DEF Leaving
    <3> QED
      BY <3>1, SumOfZeroes, VaultAssumption
  <2> QED
    BY <2>1, <2>2, <2>4, <2>5, <2>6 DEF ExitInv
<1>2. CoveredInv /\ ExitInv /\ [Next]_vars => ExitInv'
  <2> SUFFICES ASSUME CoveredInv, ExitInv, [Next]_vars PROVE ExitInv'
    OBVIOUS
  <2>1. ASSUME NEW u \in Users, NEW amount \in Amounts, Stake(u, amount) PROVE ExitInv'
    BY <2>1, StakeEnters
  <2>2. ASSUME NEW u \in Users, NEW amount \in Amounts, BeginUnbond(u, amount) PROVE ExitInv'
    BY <2>2, UnbondEnters
  <2>3. ASSUME NEW u \in Users, WithdrawMatured(u) PROVE ExitInv'
    BY <2>3, WithdrawalLeaves
  <2>4. CASE UNCHANGED <<stakeVars, exitVars, lpBalance>> /\ (now' = now \/ now' = now + 1)
    <3>1. now \in Nat
      BY DEF ExitInv
    <3> QED
      BY <2>4, <3>1, NobodyLeaves
  <2>5. \/ \E u \in Users, amount \in Amounts : Stake(u, amount) \/ BeginUnbond(u, amount)
        \/ \E u \in Users : WithdrawMatured(u)
        \/ UNCHANGED <<stakeVars, exitVars, lpBalance>> /\ (now' = now \/ now' = now + 1)
    BY DEF Next, vars, Tick, HarvestFeesToRewards, ClaimArrives, ClaimRewards, ClaimRewardsAndLock,
           CompoundFor, SetAutoCompoundConfig
  <2> QED
    BY <2>1, <2>2, <2>3, <2>4, <2>5
<1> QED
  BY <1>1, <1>2, CoveredInvHolds, PTL DEF Spec

(* A withdrawal pays every unbonding that has run its period, in full and  *)
(* once and no other, whatever the swap-and-pop of withdrawMatured did to  *)
(* the order; and the LP of all stakes and unbondings is in the vault.     *)
THEOREM ExitsArePaid == Spec => []ExitsPaidOnTime
<1>1. ExitInv => ExitsPaidOnTime
  <2> SUFFICES ASSUME ExitInv PROVE ExitsPaidOnTime
    OBVIOUS
  <2>1. ASSUME NEW u \in Users PROVE lpTaken[u] = MaturedBy(u, exitedAt[u])
    <3> DEFINE T == exitedAt[u]
               q == unbonds[u]
               p == begun[u]
               f == [k \in DOMAIN q |-> DueBy(T)[q[k]]]
               g == [k \in DOMAIN p |-> BegunBy(T)[p[k]]]
               h == [k \in DOMAIN p |-> IF p[k].at + UNBONDING_PERIOD <= T THEN p[k].amount ELSE 0]
    <3>1. /\ T \in Nat /\ lpTaken[u] \in Nat /\ q \in Seq(Unbond) /\ p \in Seq(Begun)
          /\ \A k \in DOMAIN q : q[k].unlockTime > T
      BY DEF ExitInv, NoneIsDue
    <3>2. lpTaken[u] + Sum(f, DOMAIN q) = Sum(g, DOMAIN p)
      <4>1. PaidInTime(u) /\ T >= T
        BY <3>1 DEF ExitInv
      <4>2. lpTaken[u] + Weighed(q, DueBy(T)) = Weighed(p, BegunBy(T))
        BY <3>1, <4>1 DEF PaidInTime
      <4> QED
        BY <4>2 DEF Weighed
    <3>3. MaturedBy(u, T) = Sum(h, DOMAIN p)
      BY TotalIsSum DEF MaturedBy
    <3> HIDE DEF T, q, p
    <3>4. \A k \in DOMAIN q : q[k] \in Unbond /\ q[k].unlockTime \in Nat
      <4> SUFFICES ASSUME NEW k \in DOMAIN q PROVE q[k] \in Unbond /\ q[k].unlockTime \in Nat
        OBVIOUS
      <4> DEFINE e == q[k]
      <4>1. e \in Unbond
        BY <3>1
      <4> HIDE DEF e
      <4>2. e.unlockTime \in Nat
        BY <4>1 DEF Unbond
      <4> QED
        BY <4>1, <4>2 DEF e
    <3>5. \A k \in DOMAIN q : f[k] = 0
      BY <3>1, <3>4 DEF DueBy
    <3>6. g = h
      <4>1. \A k \in DOMAIN p : p[k] \in Begun
        BY <3>1
      <4> QED
        BY <4>1 DEF BegunBy
    <3>7. IsFiniteSet(DOMAIN q)
      BY <3>1, IntervalIsFinite
    <3> HIDE DEF f, g, h
    <3>8. Sum(f, DOMAIN q) = 0
      BY <3>5, <3>7, SumOfZeroes
    <3> QED
      BY <3>1, <3>2, <3>3, <3>6, <3>8 DEF T
  <2>2. [u \in Users |-> InExit(u)] = Leaving
    <3> SUFFICES ASSUME NEW u \in Users PROVE InExit(u) = Weighed(unbonds[u], Whole)
      BY DEF Leaving
    <3> DEFINE q == unbonds[u]
               f == [k \in DOMAIN q |-> q[k].amount]
               g == [k \in DOMAIN q |-> Whole[q[k]]]
    <3>1. InExit(u) = Sum(f, DOMAIN q) /\ Weighed(q, Whole) = Sum(g, DOMAIN q)
      BY TotalIsSum DEF InExit, Weighed
    <3>2. q \in Seq(Unbond)
      BY DEF ExitInv
    <3> HIDE DEF q
    <3>3. \A k \in DOMAIN q : q[k] \in Unbond
      BY <3>2
    <3>4. f = g
      BY <3>3 DEF Whole
    <3> QED
      BY <3>1, <3>4 DEF q
  <2> QED
    BY <2>1, <2>2, TotalIsSum DEF ExitsPaidOnTime, ExitInv
<1> QED
  BY <1>1, ExitInvHolds, PTL

-----------------------------------------------------------------------------
(* The view `earned`.                                                      *)

LEMMA ShownIsClaimable ==
  ASSUME CoveredInv, NEW u \in Users
  PROVE  earned(u) = Claimable(u)
<1> USE VaultAssumption
<1> DEFINE delta == BalanceDelta(books, claimBalance)
           pending == delta + books.queued
           moved == (pending * ACC) \div totalStaked
           shown == Indexable(pending, totalStaked)
           opened == [books EXCEPT !.accounted = @ + delta, !.queued = 0]
           c == Checkpointed
<1>1. /\ books \in IntBooks /\ claimBalance \in Int /\ totalStaked \in Nat
      /\ books.rewardPerToken \in Int /\ books.indexed \in Int /\ books.credited \in Int
  BY DEF CoveredInv, Covers, IntBooks
<1>2. delta \in Nat /\ pending \in Nat
  BY <1>1 DEF BalanceDelta, IntBooks
<1>3. c = indexRewardsWithCarry(opened, pending, totalStaked)
  BY DEF Checkpointed, checkpointRewards
<1>4. /\ opened.rewardPerToken = books.rewardPerToken /\ opened.indexed = books.indexed
      /\ opened.credited = books.credited
      /\ {"rewardPerToken", "queued", "indexed", "credited"} \subseteq DOMAIN opened
  BY <1>1 DEF IntBooks
<1> HIDE DEF delta, opened
<1>5. totalStaked # 0 => moved \in Nat /\ shown \in Nat
  BY <1>1, <1>2, IndexableAtMost
<1>6. CASE totalStaked = 0 \/ shown = 0
  <2>1. c = [opened EXCEPT !.queued = @ + pending]
    BY <1>3, <1>6 DEF indexRewardsWithCarry
  <2>2. /\ c.rewardPerToken = books.rewardPerToken /\ c.indexed = books.indexed
        /\ c.credited = books.credited
    BY <1>4, <2>1
  <2> HIDE DEF c
  <2> DEFINE inc == IF totalStaked = 0 THEN 0 ELSE moved
             visible == (inc * totalStaked) \div ACC
  <2>3. visible = 0
    <3>1. CASE totalStaked = 0
      BY <3>1
    <3>2. CASE totalStaked # 0
      BY <1>6, <3>2 DEF Indexable
    <3> QED
      BY <3>1, <3>2
  <2>4. Projected(inc, visible) = 0
    BY <2>3 DEF Projected
  <2>5. earned(u) = LET rpt == books.rewardPerToken + Projected(inc, visible)
                        pool == books.indexed + visible - books.credited
                        accrued == (stakedBalance[u] * (rpt - userRewardPerTokenPaid[u])) \div ACC
                    IN  rewards[u] + (IF accrued > pool THEN pool ELSE accrued)
    BY DEF earned, delta
  <2> HIDE DEF inc, visible
  <2>6. books.rewardPerToken + 0 = c.rewardPerToken /\ books.indexed + 0 - books.credited = c.indexed - c.credited
    BY <1>1, <2>2
  <2> QED
    BY <2>3, <2>4, <2>5, <2>6 DEF Claimable, EarnedAt, Accrued, c
<1>7. CASE ~(totalStaked = 0 \/ shown = 0)
  <2>1. c = [opened EXCEPT !.rewardPerToken = @ + moved, !.indexed = @ + shown,
                           !.queued = @ + (pending - shown)]
    BY <1>3, <1>7 DEF indexRewardsWithCarry
  <2> HIDE DEF moved, shown, c
  <2>2. /\ c.rewardPerToken = books.rewardPerToken + moved /\ c.indexed = books.indexed + shown
        /\ c.credited = books.credited
    BY <1>4, <2>1
  <2>3. Projected(moved, shown) = moved
    BY <1>7 DEF Projected
  <2>4. earned(u) = LET rpt == books.rewardPerToken + Projected(moved, shown)
                        pool == books.indexed + shown - books.credited
                        accrued == (stakedBalance[u] * (rpt - userRewardPerTokenPaid[u])) \div ACC
                    IN  rewards[u] + (IF accrued > pool THEN pool ELSE accrued)
    BY <1>7 DEF earned, delta, Indexable, moved, shown
  <2>5. /\ c.rewardPerToken = books.rewardPerToken + Projected(moved, shown)
        /\ c.indexed - c.credited = books.indexed + shown - books.credited
    <3>1. c.rewardPerToken = books.rewardPerToken + Projected(moved, shown)
      BY <2>2, <2>3
    <3>2. c.indexed - c.credited = books.indexed + shown - books.credited
      BY <1>1, <1>5, <1>7, <2>2
    <3> QED
      BY <3>1, <3>2
  <2>6. Claimable(u) =
          LET accrued == (stakedBalance[u] * (c.rewardPerToken - userRewardPerTokenPaid[u])) \div ACC
          IN  rewards[u] + (IF accrued > c.indexed - c.credited THEN c.indexed - c.credited ELSE accrued)
    BY DEF Claimable, EarnedAt, Accrued, c
  <2> QED
    BY Zenon, <2>4, <2>5, <2>6
<1> QED
  BY <1>6, <1>7

TakenInv == taken \in [Users -> Int]

LEMMA TakenIsCounted == Spec => []TakenInv
<1>1. Init => TakenInv
  BY DEF Init, None, TakenInv
<1>2. CoveredInv /\ TakenInv /\ [Next]_vars => TakenInv'
  <2> SUFFICES ASSUME CoveredInv, TakenInv, [Next]_vars PROVE taken' \in [Users -> Int]
    BY DEF TakenInv
  <2> USE DEF TakenInv
  <2>1. \/ \E u \in Users, nested \in Transfers \cup {0} : Pays(u, Claimable(u), nested)
        \/ taken' = taken
    BY DEF Next, vars, Tick, Stake, BeginUnbond, WithdrawMatured, ClaimRewards, ClaimRewardsAndLock,
           SetAutoCompoundConfig, CompoundFor, CompoundMisdirected, CompoundSkipped, CompoundEntered,
           CompoundRejected, ClaimArrives, HarvestFeesToRewards
  <2>2. ASSUME NEW u \in Users, NEW nested, Pays(u, Claimable(u), nested)
        PROVE  taken' \in [Users -> Int]
    <3>1. Claimable(u) \in Nat
      BY CreditedUser
    <3>2. taken' = [taken EXCEPT ![u] = taken[u] + Claimable(u)]
      BY <2>2 DEF Pays
    <3> QED
      BY <3>1, <3>2
  <2> QED
    BY <2>1, <2>2
<1> QED
  BY <1>1, <1>2, CoveredInvHolds, PTL DEF Spec

(* A claim pays what the view showed before it: the projection of `earned` *)
(* is what checkpoint and credit of claimRewards do.                       *)
THEOREM ShownIsPaid == Spec => ClaimPaysWhatIsShown
<1>1. CoveredInv /\ TakenInv /\ [Next]_vars
        => [\A u \in Users : ClaimRewards(u) => taken'[u] - taken[u] = earned(u)]_vars
  <2> SUFFICES ASSUME CoveredInv, taken \in [Users -> Int], NEW u \in Users, ClaimRewards(u)
               PROVE  taken'[u] - taken[u] = earned(u)
    BY DEF TakenInv
  <2>1. Claimable(u) \in Nat /\ taken[u] \in Int
    BY CreditedUser
  <2>2. taken' = [taken EXCEPT ![u] = taken[u] + Claimable(u)]
    BY DEF ClaimRewards, Pays
  <2>3. taken'[u] - taken[u] = Claimable(u)
    BY <2>1, <2>2
  <2> QED
    BY <2>3, ShownIsClaimable
<1> QED
  BY <1>1, CoveredInvHolds, TakenIsCounted, PTL DEF Spec, ClaimPaysWhatIsShown

-----------------------------------------------------------------------------
(* Arithmetic.                                                             *)

(* A factor that is not negative keeps an order. *)
LEMMA Product ==
  ASSUME NEW a \in Int, NEW b \in Int, a <= b, NEW c \in Nat
  PROVE  a * c <= b * c /\ c * a <= c * b
<1> DEFINE d == b - a
<1>1. d \in Nat /\ b = a + d
  OBVIOUS
<1> HIDE DEF d
<1>2. (a + d) * c = a * c + d * c /\ d * c \in Nat /\ a * c \in Int /\ c * a = a * c /\ c * (a + d) = (a + d) * c
  BY <1>1
<1> QED
  BY <1>1, <1>2

(* A quotient is rounded down by less than one. *)
LEMMA Quotient ==
  ASSUME NEW x \in Nat, NEW n \in Nat \ {0}
  PROVE  x \div n \in Nat /\ n * (x \div n) <= x /\ x <= n * (x \div n) + (n - 1)
OBVIOUS

-----------------------------------------------------------------------------
(* Rewards follow the stakes.                                              *)

(* What a raise of the index may leave undistributed, times ACC: a wei of  *)
(* the pool and, for each LP token, less than a part in ACC. A unit of     *)
(* error is that in the scale of what is due.                              *)
Margin == ACC + LP_SUPPLY
Unit == DUE_SCALE * Margin

(* What indexRewardsWithCarry moves to the pool of the amount it is        *)
(* given, and what it adds to the reward per token.                        *)
Moved(amount, T) == IF T = 0 THEN 0 ELSE Indexable(amount, T)
Raise(amount, T) == IF Moved(amount, T) = 0 THEN 0 ELSE (amount * ACC) \div T

(* The distributive and associative laws the proofs below rearrange by. *)
LEMMA Distributes ==
  /\ \A a, b, c \in Int : a * c = a * b + a * (c - b)
  /\ \A a, b, c, d \in Int : a * ((b + c) - d) = a * (b - d) + a * c
  /\ \A a, b, c, d \in Int : a * (b + (c + d)) = a * (b + c) + a * d
  /\ \A a, b, c \in Int : a * (b * c) = (a * b) * c
<1>1. \A a, b, c \in Int : a * c = a * b + a * (c - b)
  OBVIOUS
<1>2. \A a, b, c, d \in Int : a * ((b + c) - d) = a * (b - d) + a * c
  OBVIOUS
<1>3. \A a, b, c, d \in Int : a * (b + (c + d)) = a * (b + c) + a * d
  OBVIOUS
<1>4. \A a, b, c \in Int : a * (b * c) = (a * b) * c
  OBVIOUS
<1> QED
  BY <1>1, <1>2, <1>3, <1>4

(* A factor common to both sides, with less than one more on the right. *)
LEMMA Cancel ==
  ASSUME NEW x \in Int, NEW y \in Int, NEW n \in Nat \ {0}, n * x < n * y + n
  PROVE  x <= y
<1> SUFFICES ASSUME x >= y + 1 PROVE FALSE
  OBVIOUS
<1>1. y + 1 \in Int /\ y + 1 <= x
  OBVIOUS
<1>2. n * (y + 1) <= n * x
  BY <1>1, Product
<1>3. n * (y + 1) = n * y + n
  OBVIOUS
<1>4. n * x \in Int /\ n * y \in Int
  OBVIOUS
<1> QED
  BY <1>2, <1>3, <1>4

(* The raise is rounded down twice: the stakes gain at least what moved    *)
(* to the pool and at most a wei more, and what stays queued is at most    *)
(* the margin.                                                             *)
LEMMA RaiseIs ==
  ASSUME NEW amount \in Nat, NEW T \in Nat \ {0}, T <= LP_SUPPLY
  PROVE  /\ Raise(amount, T) \in Nat /\ Moved(amount, T) \in Nat /\ Moved(amount, T) <= amount
         /\ T * Raise(amount, T) <= ACC * amount
         /\ ACC * amount - T * Raise(amount, T) <= Margin
         /\ ACC * Moved(amount, T) <= T * Raise(amount, T)
         /\ T * Raise(amount, T) <= ACC * Moved(amount, T) + ACC
         /\ ACC * (amount - Moved(amount, T)) <= Margin
<1> USE VaultAssumption
<1> DEFINE x == amount * ACC
           inc == x \div T
           y == inc * T
           p == y \div ACC
<1>1. x \in Nat /\ x = ACC * amount
  OBVIOUS
<1>2. inc \in Nat /\ T * inc <= x /\ x <= T * inc + (T - 1)
  <2> HIDE DEF x
  <2> QED
    BY <1>1, Quotient
<1>3. y \in Nat /\ y = T * inc
  <2> HIDE DEF inc
  <2> QED
    BY <1>2
<1>4. p \in Nat /\ ACC * p <= y /\ y <= ACC * p + (ACC - 1)
  <2> HIDE DEF y
  <2> QED
    BY <1>3, Quotient
<1>5. p <= amount /\ p = Indexable(amount, T)
  BY IndexableAtMost DEF Indexable
<1>6. Moved(amount, T) = p /\ Raise(amount, T) = IF p = 0 THEN 0 ELSE inc
  BY <1>5 DEF Moved, Raise
<1>7. ACC * (amount - p) = x - ACC * p /\ ACC * p \in Nat
  <2> HIDE DEF p
  <2> QED
    BY <1>1, <1>4
<1> HIDE DEF x, inc, y, p
<1>8. CASE p = 0
  <2>1. ACC * p = 0 /\ T * 0 = 0
    BY <1>8
  <2> QED
    BY <1>1, <1>2, <1>3, <1>4, <1>5, <1>6, <1>7, <1>8, <2>1 DEF Margin
<1>9. CASE p # 0
  BY <1>1, <1>2, <1>3, <1>4, <1>5, <1>6, <1>7, <1>9 DEF Margin
<1> QED
  BY <1>8, <1>9

(* What a user with s of T staked is due of CLAIM not accounted for yet. *)
Pend(s, delta, T) == IF T = 0 THEN 0 ELSE (DUE_SCALE * ACC * s * delta) \div T

(* The pending amount is a quotient rounded down. *)
LEMMA PendIs ==
  ASSUME NEW s \in Nat, NEW delta \in Nat, NEW T \in Nat \ {0}
  PROVE  /\ Pend(s, delta, T) \in Nat
         /\ T * Pend(s, delta, T) <= (DUE_SCALE * s) * (ACC * delta)
         /\ (DUE_SCALE * s) * (ACC * delta) <= T * Pend(s, delta, T) + (T - 1)
<1> USE VaultAssumption
<1> DEFINE x == DUE_SCALE * ACC * s * delta
<1>1. x = (DUE_SCALE * s) * (ACC * delta)
  <2>1. \A a, b, c, d \in Int : a * b * c * d = (a * c) * (b * d)
    OBVIOUS
  <2> QED
    BY <2>1
<1>2. x \in Nat
  <2>1. DUE_SCALE * s \in Nat /\ ACC * delta \in Nat
    OBVIOUS
  <2>2. \A m, n \in Nat : m * n \in Nat
    OBVIOUS
  <2> QED
    BY <1>1, <2>1, <2>2
<1>3. Pend(s, delta, T) = x \div T
  BY DEF Pend
<1> HIDE DEF x
<1> QED
  BY <1>1, <1>2, <1>3, Quotient

(* The sizes of the margin and the unit. *)
LEMMA MarginIs ==
  /\ Margin \in Nat /\ Unit \in Nat /\ ACC <= Margin /\ DUE_SCALE * ACC <= Unit /\ ACC <= Unit
  /\ DUE_SCALE * ACC \in Nat /\ Margin <= Unit
<1> USE VaultAssumption
<1>1. Margin \in Nat /\ ACC \in Nat /\ ACC <= Margin
  BY DEF Margin
<1> HIDE DEF Margin
<1>2. DUE_SCALE * ACC <= DUE_SCALE * Margin /\ 1 * ACC <= DUE_SCALE * ACC /\ 1 * Margin <= DUE_SCALE * Margin
  BY <1>1, Product
<1>3. \A m, n \in Nat : m * n \in Nat
  OBVIOUS
<1>4. DUE_SCALE * ACC \in Nat /\ DUE_SCALE * Margin \in Nat /\ 1 * ACC = ACC /\ 1 * Margin = Margin
  BY <1>1, <1>3
<1> QED
  BY <1>1, <1>2, <1>4 DEF Unit

(* A product of a part of the stakes with what is off by at most a margin. *)
LEMMA PartOfMargin ==
  ASSUME NEW s \in Nat, NEW T \in Nat, s <= T, NEW k \in Int, k <= Margin
  PROVE  (DUE_SCALE * s) * k <= T * Unit
<1> USE VaultAssumption
<1> DEFINE d == DUE_SCALE * s
           t == DUE_SCALE * T
<1>1. d \in Nat /\ t \in Nat
  BY SMT
<1>2. d <= t
  BY Product
<1> HIDE DEF d, t
<1>3. Margin \in Nat
  BY MarginIs
<1>4. d * k <= d * Margin /\ d * Margin <= t * Margin
  BY <1>1, <1>2, <1>3, Product
<1>5. t * Margin = T * Unit
  <2>1. \A a, b, c \in Int : (a * b) * c = b * (a * c)
    OBVIOUS
  <2> QED
    BY <1>3, <2>1 DEF t, Unit
<1>6. d * k \in Int /\ d * Margin \in Int /\ t * Margin \in Int
  BY <1>1, <1>3
<1> QED
  BY <1>4, <1>5, <1>6 DEF d

(* A raise of the index pays what was pending, but for its rounding and    *)
(* what the queue adds.                                                    *)
LEMMA RaisePaysPending ==
  ASSUME NEW s \in Nat, NEW delta \in Nat, NEW q \in Nat, NEW T \in Nat \ {0},
         s <= T, T <= LP_SUPPLY, ACC * q <= Margin
  PROVE  /\ Pend(s, delta, T) - (DUE_SCALE * s) * Raise(delta + q, T) <= Unit
         /\ (DUE_SCALE * s) * Raise(delta + q, T) - Pend(s, delta, T) <= Unit
<1> USE VaultAssumption
<1> DEFINE amount == delta + q
           r == Raise(amount, T)
           p == Pend(s, delta, T)
           ds == DUE_SCALE * s
           x == ACC * delta
           k == x - T * r
<1>1. /\ r \in Nat /\ T * r <= ACC * amount /\ ACC * amount - T * r <= Margin
      /\ amount \in Nat
  <2>1. amount \in Nat
    OBVIOUS
  <2> HIDE DEF amount
  <2> QED
    BY <2>1, RaiseIs
<1>2. p \in Nat /\ T * p <= ds * x /\ ds * x <= T * p + (T - 1)
  BY PendIs
<1>3. ds \in Nat /\ x \in Nat /\ ACC * q \in Nat /\ ACC * amount = x + ACC * q
  OBVIOUS
<1> HIDE DEF r, p, ds, x, amount
<1>4. T * r \in Nat /\ Margin \in Nat /\ Unit \in Nat
  BY <1>1, MarginIs
<1>5. k \in Int /\ -k \in Int /\ k <= Margin /\ -k <= Margin
  BY <1>1, <1>3, <1>4
<1>6. ds * k <= T * Unit /\ ds * (-k) <= T * Unit
  BY <1>5, PartOfMargin DEF ds
<1>7. T * (p - ds * r) = T * p - ds * x + ds * k /\ T * (ds * r - p) = ds * x - T * p + ds * (-k)
  <2>1. \A a, b, c, d, e \in Int : /\ a * (b - c * d) = a * b - c * e + c * (e - a * d)
                                    /\ a * (c * d - b) = c * e - a * b + c * (-(e - a * d))
    OBVIOUS
  <2> QED
    BY <1>1, <1>2, <1>3, <2>1
<1>8. /\ ds * x \in Int /\ T * p \in Int /\ ds * k \in Int /\ ds * (-k) \in Int /\ ds * r \in Int
      /\ T * Unit \in Int
  BY <1>1, <1>2, <1>3, <1>4, <1>5
<1> HIDE DEF k
<1>9. T * (p - ds * r) < T * Unit + T /\ T * (ds * r - p) < T * Unit + T
  BY <1>2, <1>6, <1>7, <1>8
<1>10. p - ds * r \in Int /\ ds * r - p \in Int
  BY <1>2, <1>8
<1>11. p - ds * r <= Unit /\ ds * r - p <= Unit
  BY <1>4, <1>9, <1>10, Cancel
<1> QED
  BY <1>11 DEF p, r, ds, amount

(* What arrives is due in proportion to the stakes: it is pending until it *)
(* is noticed, and both are rounded down.                                  *)
LEMMA ArrivalIsPending ==
  ASSUME NEW s \in Nat, NEW delta \in Nat, NEW x \in Nat, NEW T \in Nat \ {0}
  PROVE  LET gain == ACC * ((x * s * DUE_SCALE) \div T) - (Pend(s, delta + x, T) - Pend(s, delta, T))
         IN  gain <= Unit /\ -gain <= Unit
<1> USE VaultAssumption
<1> DEFINE y == x * s * DUE_SCALE
           f == y \div T
           p == Pend(s, delta, T)
           p1 == Pend(s, delta + x, T)
           ds == DUE_SCALE * s
           a == ACC * delta
           a1 == ACC * (delta + x)
           g == ACC * f - (p1 - p)
<1>1. y \in Nat /\ y = ds * x /\ ds \in Nat
  <2>1. ds \in Nat
    OBVIOUS
  <2>2. \A i, j, k \in Int : i * j * k = (k * j) * i
    OBVIOUS
  <2>3. y = ds * x
    BY <2>2
  <2> HIDE DEF ds
  <2>4. ds * x \in Nat
    BY <2>1
  <2> QED
    BY <2>1, <2>3, <2>4
<1>2. f \in Nat /\ T * f <= y /\ y <= T * f + (T - 1)
  <2> HIDE DEF y
  <2> QED
    BY <1>1, Quotient
<1>3. p \in Nat /\ T * p <= ds * a /\ ds * a <= T * p + (T - 1)
  BY PendIs
<1>4. p1 \in Nat /\ T * p1 <= ds * a1 /\ ds * a1 <= T * p1 + (T - 1)
  <2> DEFINE d1 == delta + x
  <2>1. d1 \in Nat
    OBVIOUS
  <2> HIDE DEF d1
  <2>2. Pend(s, d1, T) \in Nat /\ T * Pend(s, d1, T) <= (DUE_SCALE * s) * (ACC * d1)
        /\ (DUE_SCALE * s) * (ACC * d1) <= T * Pend(s, d1, T) + (T - 1)
    BY <2>1, PendIs
  <2> QED
    BY <2>2 DEF d1
<1>5. a \in Nat /\ a1 \in Nat /\ a1 = a + ACC * x
  OBVIOUS
<1> HIDE DEF y, f, p, p1, ds, a, a1
<1>6. ds * a1 = ds * a + ACC * y
  <2>1. \A i, j, k, l \in Int : i * (j + k * l) = i * j + k * (i * l)
    OBVIOUS
  <2> QED
    BY <1>1, <1>5, <2>1
<1>7. T * g = ACC * (T * f) - T * p1 + T * p /\ T * (-g) = -(ACC * (T * f)) + T * p1 - T * p
  <2>1. \A i, j, k, l, m \in Int : /\ i * (j * k - (l - m)) = j * (i * k) - i * l + i * m
                                    /\ i * (-(j * k - (l - m))) = -(j * (i * k)) + i * l - i * m
    OBVIOUS
  <2> QED
    BY <1>2, <1>3, <1>4, <2>1
<1>8. /\ T * f \in Nat /\ T * p \in Nat /\ T * p1 \in Nat /\ ds * a \in Nat /\ ACC * y \in Nat
  BY <1>1, <1>2, <1>3, <1>4, <1>5
<1>9. ACC * (T * f) <= ACC * y /\ ACC * (y - (T * f)) <= ACC * (T - 1) /\ ACC * (T * f) \in Nat
  <2> DEFINE tf == T * f
             low == y - tf
             high == T - 1
  <2>1. tf \in Nat /\ low \in Int /\ high \in Nat /\ low <= high /\ tf <= y
    BY <1>1, <1>2, <1>8
  <2> HIDE DEF tf, low, high
  <2>2. ACC * tf <= ACC * y /\ ACC * low <= ACC * high /\ ACC * tf \in Nat
    BY <1>1, <2>1, Product
  <2> QED
    BY <2>2 DEF tf, low, high
<1>10. ACC * (y - (T * f)) = ACC * y - ACC * (T * f) /\ ACC * (T - 1) = T * ACC - ACC
  <2>1. \A i, j, k \in Int : i * (j - k) = i * j - i * k /\ i * (j - 1) = j * i - i
    OBVIOUS
  <2> QED
    BY <1>1, <1>8, <2>1
<1>11. T * g < T * 0 + T /\ T * (-g) < T * ACC + T
  <2>1. T * 0 = 0 /\ T * ACC \in Int
    OBVIOUS
  <2> QED
    BY <1>3, <1>4, <1>6, <1>7, <1>8, <1>9, <1>10, <2>1
<1>12. g \in Int /\ -g \in Int /\ ACC \in Int
  BY <1>2, <1>3, <1>4
<1>13. g <= 0 /\ -g <= ACC
  <2> HIDE DEF g
  <2> QED
    BY <1>11, <1>12, Cancel
<1>14. g <= Unit /\ -g <= Unit
  <2> HIDE DEF g
  <2> QED
    BY <1>12, <1>13, MarginIs
<1> QED
  BY <1>14 DEF g, f, y, p, p1

(* The error of one user, times ACC and the scale of what is due: what is  *)
(* owed, less what the user holds, less what the index gained since the    *)
(* user was paid for, less what is pending of CLAIM the index has not      *)
(* seen.                                                                   *)
Gap(s, paid, held, owed, rpt, delta, T) ==
  ACC * owed - DUE_SCALE * (ACC * held + s * (rpt - paid)) - Pend(s, delta, T)

(* What the index promises each user, and by how much those promises       *)
(* exceed the pool they are paid from, times ACC.                          *)
Accrual(stk, paid, rpt) == [v \in Users |-> stk[v] * (rpt - paid[v])]
Slack(stk, paid, rpt, pool) == Sum(Accrual(stk, paid, rpt), Users) - ACC * pool

(* The error is at most e either way, and stays so if the user is denied   *)
(* what the pool is short of.                                              *)
Within(gap, slack, e) == gap <= e /\ gap + slack <= e /\ -gap <= e

(* The types and sums the arithmetic relies on, for stakes, paid indices,  *)
(* holdings, dues, an index, a pool and CLAIM not accounted for.           *)
Accounts(T, stk, paid, held, owed, rpt, pool, delta) ==
  /\ T \in Nat /\ T <= LP_SUPPLY /\ stk \in [Users -> Nat] /\ T = Sum(stk, Users)
  /\ rpt \in Int /\ paid \in [Users -> Int] /\ \A v \in Users : paid[v] <= rpt
  /\ held \in [Users -> Int] /\ owed \in [Users -> Int]
  /\ pool \in Nat /\ delta \in Nat

(* Every user is within e of what it is due. *)
Fair(T, stk, paid, held, owed, rpt, pool, delta, e) ==
  \A u \in Users : Within(Gap(stk[u], paid[u], held[u], owed[u], rpt, delta, T),
                          DUE_SCALE * Slack(stk, paid, rpt, pool), e)

(* Nothing is pending when nothing came. *)
LEMMA NothingPends == \A s, T \in Nat : Pend(s, 0, T) = 0
<1> SUFFICES ASSUME NEW s \in Nat, NEW T \in Nat PROVE Pend(s, 0, T) = 0
  OBVIOUS
<1>1. DUE_SCALE * ACC * s * 0 = 0 /\ (T # 0 => 0 \div T = 0)
  BY VaultAssumption
<1> QED
  BY <1>1 DEF Pend

(* What is pending is a natural number, staked or not. *)
LEMMA PendIsNat == ASSUME NEW s \in Nat, NEW delta \in Nat, NEW T \in Nat PROVE Pend(s, delta, T) \in Nat
<1>1. CASE T = 0
  BY <1>1 DEF Pend
<1>2. CASE T # 0
  BY <1>2, PendIs
<1> QED
  BY <1>1, <1>2

(* The errors, promises and shortage are integers. *)
LEMMA Typed ==
  ASSUME NEW T, NEW stk, NEW paid, NEW held, NEW owed, NEW rpt, NEW pool, NEW delta,
         Accounts(T, stk, paid, held, owed, rpt, pool, delta)
  PROVE  /\ \A u \in Users : Gap(stk[u], paid[u], held[u], owed[u], rpt, delta, T) \in Int
         /\ Slack(stk, paid, rpt, pool) \in Int
         /\ \A u \in Users : Accrual(stk, paid, rpt)[u] \in Nat
         /\ Sum(Accrual(stk, paid, rpt), Users) \in Nat
<1> USE VaultAssumption
<1>1. \A m, n \in Int : m * n \in Int /\ (m \in Nat /\ n \in Nat => m * n \in Nat)
  OBVIOUS
<1>2. ASSUME NEW u \in Users PROVE Gap(stk[u], paid[u], held[u], owed[u], rpt, delta, T) \in Int
  <2>1. /\ stk[u] \in Nat /\ paid[u] \in Int /\ held[u] \in Int /\ owed[u] \in Int /\ rpt \in Int
        /\ delta \in Nat /\ T \in Nat
    BY DEF Accounts
  <2>2. Pend(stk[u], delta, T) \in Int
    <3>1. Pend(stk[u], delta, T) \in Nat
      BY <2>1, PendIsNat
    <3> QED
      BY <3>1
  <2>3. ACC * owed[u] \in Int /\ ACC * held[u] \in Int /\ stk[u] * (rpt - paid[u]) \in Int
    <3>1. ACC \in Int /\ stk[u] \in Int /\ rpt - paid[u] \in Int
      BY <2>1
    <3> QED
      BY <2>1, <3>1, <1>1
  <2>4. DUE_SCALE * (ACC * held[u] + stk[u] * (rpt - paid[u])) \in Int
    BY <2>3, <1>1
  <2> QED
    BY <2>2, <2>3, <2>4 DEF Gap
<1>3. ASSUME NEW u \in Users PROVE Accrual(stk, paid, rpt)[u] \in Nat
  <2> DEFINE gain == rpt - paid[u]
  <2>1. stk[u] \in Nat /\ gain \in Nat
    BY DEF Accounts
  <2>2. Accrual(stk, paid, rpt)[u] = stk[u] * gain
    BY DEF Accrual
  <2> HIDE DEF gain
  <2>3. stk[u] * gain \in Nat
    BY <2>1, <1>1
  <2> QED
    BY <2>2, <2>3
<1>4. Sum(Accrual(stk, paid, rpt), Users) \in Nat
  BY <1>3, SumIsNat
<1>5. Slack(stk, paid, rpt, pool) \in Int
  <2>1. ACC * pool \in Int
    BY <1>1 DEF Accounts
  <2> QED
    BY <1>4, <2>1 DEF Slack
<1> QED
  BY <1>2, <1>3, <1>4, <1>5

(* A stake is a part of the total. *)
LEMMA PartOfTotal ==
  ASSUME NEW stk \in [Users -> Nat], NEW u \in Users
  PROVE  stk[u] <= Sum(stk, Users) /\ Sum(stk, Users) \in Nat
<1> USE VaultAssumption
<1>1. \A v \in Users : stk[v] \in Nat
  OBVIOUS
<1>2. Sum(stk, Users) = stk[u] + Sum(stk, Users \ {u})
  BY <1>1, SumSplits
<1>3. IsFiniteSet(Users \ {u}) /\ \A v \in Users \ {u} : stk[v] \in Nat
  BY <1>1, FS_Subset
<1>4. Sum(stk, Users \ {u}) \in Nat
  BY <1>3, SumIsNat
<1> QED
  BY <1>1, <1>2, <1>4

(* The index rises by what moves from the queue to the pool. *)
LEMMA RaiseIsFair ==
  ASSUME NEW T, NEW stk, NEW paid, NEW held, NEW owed, NEW rpt, NEW pool, NEW delta,
         Accounts(T, stk, paid, held, owed, rpt, pool, delta),
         NEW e \in Int, Fair(T, stk, paid, held, owed, rpt, pool, delta, e),
         NEW inc \in Nat, NEW moved \in Nat, NEW after \in [Users -> Int],
         \A u \in Users :
           LET x == ACC * (after[u] - owed[u]) + Pend(stk[u], delta, T) - (DUE_SCALE * stk[u]) * inc
           IN  x <= Unit /\ -x <= Unit,
         ACC * moved <= T * inc, T * inc <= ACC * moved + ACC
  PROVE  /\ Accounts(T, stk, paid, held, after, rpt + inc, pool + moved, 0)
         /\ Fair(T, stk, paid, held, after, rpt + inc, pool + moved, 0, e + 2 * Unit)
<1> USE VaultAssumption
<1> DEFINE f == Accrual(stk, paid, rpt)
           h == Accrual(stk, paid, rpt + inc)
           s0 == Slack(stk, paid, rpt, pool)
           s1 == Slack(stk, paid, rpt + inc, pool + moved)
<1>1. Accounts(T, stk, paid, held, after, rpt + inc, pool + moved, 0)
  BY DEF Accounts
<1>2. /\ T \in Nat /\ rpt \in Int /\ pool \in Nat /\ \A u \in Users : stk[u] \in Nat /\ paid[u] \in Int
      /\ delta \in Nat /\ T = Sum(stk, Users)
  BY DEF Accounts
<1>3. \A u \in Users : f[u] \in Nat
  BY Typed
<1>4. Sum(h, Users) = Sum(f, Users) + T * inc
  <2>1. \A u \in Users : f[u] \in Int /\ stk[u] \in Int /\ h[u] = f[u] + stk[u] * inc
    <3>1. \A a, b, c, d \in Int : a * ((b + c) - d) = a * (b - d) + a * c
      OBVIOUS
    <3> QED
      BY <1>2, <1>3, <3>1 DEF Accrual
  <2> HIDE DEF f, h
  <2>2. Sum(h, Users) = Sum(f, Users) + Sum(stk, Users) * inc
    <3>1. inc \in Int
      OBVIOUS
    <3> QED
      BY <2>1, <3>1, SumIsLinear
  <2> QED
    BY <1>2, <2>2
<1>5. s0 \in Int /\ s1 \in Int /\ Sum(f, Users) \in Int
  BY <1>1, Typed
<1>6. s1 = s0 + (T * inc - ACC * moved)
  <2>1. ACC * (pool + moved) = ACC * pool + ACC * moved /\ ACC * pool \in Int /\ ACC * moved \in Int
    BY <1>2
  <2>2. T * inc \in Int
    BY <1>2
  <2>3. s0 = Sum(f, Users) - ACC * pool /\ s1 = Sum(h, Users) - ACC * (pool + moved)
    BY DEF Slack
  <2> HIDE DEF f, h, s0, s1
  <2> QED
    BY <1>4, <1>5, <2>1, <2>2, <2>3
<1>7. DUE_SCALE * s1 <= DUE_SCALE * s0 + Unit
  <2> DEFINE d == s0 + ACC
  <2>1. d \in Int /\ s1 <= d
    <3>1. T * inc \in Int /\ ACC * moved \in Int
      BY <1>2
    <3> HIDE DEF s0, s1
    <3> QED
      BY <1>5, <1>6, <3>1
  <2>2. DUE_SCALE * d = DUE_SCALE * s0 + DUE_SCALE * ACC
    <3> HIDE DEF s0
    <3> QED
      BY <1>5
  <2> HIDE DEF s0, s1, d
  <2>3. DUE_SCALE * s1 <= DUE_SCALE * d
    BY <1>5, <2>1, Product
  <2>4. DUE_SCALE * s1 \in Int /\ DUE_SCALE * s0 \in Int
    BY <1>5
  <2> QED
    BY <2>2, <2>3, <2>4, MarginIs
<1>8. DUE_SCALE * s0 \in Int /\ DUE_SCALE * s1 \in Int
  <2> HIDE DEF s0, s1
  <2> QED
    BY <1>5
<1>9. ASSUME NEW u \in Users
      PROVE  Within(Gap(stk[u], paid[u], held[u], after[u], rpt + inc, 0, T), DUE_SCALE * s1, e + 2 * Unit)
  <2> DEFINE g0 == Gap(stk[u], paid[u], held[u], owed[u], rpt, delta, T)
             g1 == Gap(stk[u], paid[u], held[u], after[u], rpt + inc, 0, T)
             p == Pend(stk[u], delta, T)
             x == ACC * (after[u] - owed[u]) + p - (DUE_SCALE * stk[u]) * inc
  <2>1. /\ stk[u] \in Int /\ paid[u] \in Int /\ held[u] \in Int /\ owed[u] \in Int /\ after[u] \in Int
        /\ p \in Int /\ inc \in Int
    <3>1. p \in Nat
      BY <1>2, PendIsNat
    <3> HIDE DEF p
    <3> QED
      BY <1>2, <3>1 DEF Accounts
  <2>2. Pend(stk[u], 0, T) = 0
    <3>1. stk[u] \in Nat
      BY <1>2
    <3> QED
      BY <1>2, <3>1, NothingPends
  <2>3. x <= Unit /\ -x <= Unit
    OBVIOUS
  <2>4. Within(g0, DUE_SCALE * s0, e)
    BY DEF Fair
  <2> HIDE DEF p
  <2>5. g1 = g0 + x
    <3>1. g0 = ACC * owed[u] - DUE_SCALE * (ACC * held[u] + stk[u] * (rpt - paid[u])) - p
      BY DEF Gap, p
    <3>2. g1 = ACC * after[u] - DUE_SCALE * (ACC * held[u] + stk[u] * ((rpt + inc) - paid[u]))
               - Pend(stk[u], 0, T)
      BY DEF Gap
    <3>4. ACC \in Int /\ DUE_SCALE \in Int /\ rpt - paid[u] \in Int
      BY <1>2, <2>1
    <3> HIDE DEF g0, g1
    <3>5. /\ ACC * after[u] = ACC * owed[u] + ACC * (after[u] - owed[u])
          /\ stk[u] * ((rpt + inc) - paid[u]) = stk[u] * (rpt - paid[u]) + stk[u] * inc
      BY <1>2, <2>1, <3>4, Distributes
    <3>6. /\ ACC * held[u] \in Int /\ stk[u] * (rpt - paid[u]) \in Int /\ stk[u] * inc \in Int
          /\ ACC * owed[u] \in Int /\ ACC * (after[u] - owed[u]) \in Int
          /\ (DUE_SCALE * stk[u]) * inc \in Int
          /\ DUE_SCALE * (ACC * held[u] + stk[u] * (rpt - paid[u])) \in Int
      BY <2>1, <3>4, SMT
    <3>7. DUE_SCALE * (ACC * held[u] + (stk[u] * (rpt - paid[u]) + stk[u] * inc))
            = DUE_SCALE * (ACC * held[u] + stk[u] * (rpt - paid[u])) + (DUE_SCALE * stk[u]) * inc
      <4>1. DUE_SCALE * (ACC * held[u] + (stk[u] * (rpt - paid[u]) + stk[u] * inc))
              = DUE_SCALE * (ACC * held[u] + stk[u] * (rpt - paid[u])) + DUE_SCALE * (stk[u] * inc)
        BY <3>4, <3>6, Distributes
      <4>2. DUE_SCALE * (stk[u] * inc) = (DUE_SCALE * stk[u]) * inc
        BY <2>1, <3>4, Distributes
      <4> QED
        BY <4>1, <4>2
    <3>8. g1 = ACC * after[u]
               - DUE_SCALE * (ACC * held[u] + (stk[u] * (rpt - paid[u]) + stk[u] * inc)) - 0
      BY <2>2, <3>2, <3>5, Zenon
    <3> QED
      BY <2>1, <3>1, <3>5, <3>6, <3>7, <3>8
  <2>6. g0 \in Int /\ g1 \in Int /\ x \in Int
    <3>1. g0 \in Int /\ g1 \in Int
      BY <1>1, Typed
    <3>2. x \in Int
      BY <2>1, SMT
    <3> QED
      BY <3>1, <3>2
  <2> HIDE DEF g0, g1, x, s0, s1
  <2>7. Within(g1, DUE_SCALE * s1, e + 2 * Unit)
    BY <1>7, <1>8, <2>3, <2>4, <2>5, <2>6, MarginIs DEF Within
  <2> QED
    BY <2>7 DEF g1
<1> QED
  BY <1>1, <1>9 DEF Fair

(* A credit to u, after which it is paid1 for and has held1. *)
Credits(credit, paid1, held1, u, stk, paid, held, rpt, pool) ==
  /\ credit = LET gain == (stk[u] * (rpt - paid[u])) \div ACC
              IN  IF gain > pool THEN pool ELSE gain
  /\ paid1 = [paid EXCEPT ![u] = rpt]
  /\ held1 = [held EXCEPT ![u] = held[u] + credit]

(* A user is credited with what the index gained since it was last paid    *)
(* for, rounded down and clamped to the pool.  What the clamp withholds is *)
(* the slack: no more than what roundings left the pool short of.          *)
LEMMA CreditIsFair ==
  ASSUME NEW T, NEW stk, NEW paid, NEW held, NEW owed, NEW rpt, NEW pool, NEW delta,
         Accounts(T, stk, paid, held, owed, rpt, pool, delta),
         NEW e \in Int, Fair(T, stk, paid, held, owed, rpt, pool, delta, e),
         NEW u \in Users, NEW credit, NEW paid1, NEW held1,
         Credits(credit, paid1, held1, u, stk, paid, held, rpt, pool)
  PROVE  /\ credit \in Nat /\ credit <= pool
         /\ Accounts(T, stk, paid1, held1, owed, rpt, pool - credit, delta)
         /\ Fair(T, stk, paid1, held1, owed, rpt, pool - credit, delta, e + Unit)
<1> USE VaultAssumption
<1> DEFINE g == stk[u] * (rpt - paid[u])
           q == g \div ACC
           r == g - ACC * credit
           f == Accrual(stk, paid, rpt)
           h == Accrual(stk, paid1, rpt)
           s0 == Slack(stk, paid, rpt, pool)
           s1 == Slack(stk, paid1, rpt, pool - credit)
<1>0. /\ credit = LET gain == (stk[u] * (rpt - paid[u])) \div ACC
                   IN  IF gain > pool THEN pool ELSE gain
      /\ paid1 = [paid EXCEPT ![u] = rpt]
      /\ held1 = [held EXCEPT ![u] = held[u] + credit]
  BY DEF Credits
<1>1. /\ T \in Nat /\ rpt \in Int /\ pool \in Nat /\ delta \in Nat
      /\ \A v \in Users : stk[v] \in Nat /\ paid[v] \in Int /\ paid[v] <= rpt
      /\ \A v \in Users : held[v] \in Int /\ owed[v] \in Int
      /\ paid \in [Users -> Int] /\ held \in [Users -> Int]
  BY DEF Accounts
<1>2. g \in Nat /\ f[u] = g
  <2>1. f[u] \in Nat
    BY Typed
  <2> QED
    BY <2>1 DEF Accrual
<1>3. q \in Nat /\ ACC * q <= g /\ g <= ACC * q + (ACC - 1)
  <2> HIDE DEF g
  <2> QED
    BY <1>2, Quotient
<1>4. credit \in Nat /\ credit <= pool /\ credit <= q /\ (credit = q \/ credit = pool)
  <2> HIDE DEF q
  <2>1. credit = IF q > pool THEN pool ELSE q
    BY <1>0 DEF q
  <2> QED
    BY <1>1, <1>3, <2>1
<1>5. Accounts(T, stk, paid1, held1, owed, rpt, pool - credit, delta)
  <2>1. /\ paid1 \in [Users -> Int] /\ held1 \in [Users -> Int]
        /\ \A v \in Users : paid1[v] <= rpt /\ pool - credit \in Nat
    BY <1>0, <1>1, <1>4
  <2> QED
    BY <1>1, <1>4, <2>1 DEF Accounts
<1>6. r \in Nat /\ (credit = q => r <= ACC)
  <2> HIDE DEF g, q
  <2>1. ACC * credit <= ACC * q /\ ACC * credit \in Nat /\ ACC * q \in Nat
    <3>1. \A m, n \in Nat : m * n \in Nat
      OBVIOUS
    <3> QED
      BY <1>3, <1>4, <3>1, Product
  <2>2. credit = q => ACC * credit = ACC * q
    OBVIOUS
  <2> QED
    BY <1>2, <1>3, <2>1, <2>2
<1>7. /\ s0 \in Int /\ s1 \in Int /\ Sum(f, Users) \in Int /\ Sum(h, Users) \in Nat
      /\ \A v \in Users : f[v] \in Int /\ h[v] \in Int
  <2>1. s0 \in Int /\ Sum(f, Users) \in Nat /\ \A v \in Users : f[v] \in Nat
    BY Typed
  <2>2. s1 \in Int /\ Sum(h, Users) \in Nat /\ \A v \in Users : h[v] \in Nat
    BY <1>5, Typed
  <2> HIDE DEF f, h, s0, s1
  <2> QED
    BY <2>1, <2>2
<1>8. Sum(h, Users) = Sum(f, Users) - g
  <2>1. h[u] = 0 /\ \A v \in Users \ {u} : h[v] = f[v]
    BY <1>0, <1>1 DEF Accrual
  <2> HIDE DEF f, h, g
  <2>2. Sum(h, Users) = Sum(f, Users) - f[u] + h[u]
    BY <1>7, <2>1, SumChanges
  <2> QED
    BY <1>2, <1>7, <2>1, <2>2
<1>9. s1 = s0 - r /\ (credit = pool => s1 >= 0)
  <2>1. s0 = Sum(f, Users) - ACC * pool /\ s1 = Sum(h, Users) - ACC * (pool - credit)
    BY DEF Slack
  <2>2. ACC * (pool - credit) = ACC * pool - ACC * credit /\ ACC * credit \in Int /\ ACC * pool \in Int
    BY <1>1, <1>4
  <2>3. credit = pool => ACC * (pool - credit) = 0
    BY <1>1
  <2> HIDE DEF f, h, g, s0, s1
  <2> QED
    BY <1>2, <1>7, <1>8, <2>1, <2>2, <2>3
<1>10. /\ DUE_SCALE * s1 = DUE_SCALE * s0 - DUE_SCALE * r /\ DUE_SCALE * r \in Nat
       /\ DUE_SCALE * s0 \in Int
       /\ (credit = pool => DUE_SCALE * s1 >= 0)
       /\ (credit = q => DUE_SCALE * r <= Unit)
  <2> HIDE DEF s0, s1, r, q
  <2>1. \A a, b, c \in Int : a * (b - c) = a * b - a * c /\ a * b \in Int
    OBVIOUS
  <2>2. \A m, n \in Nat : m * n \in Nat
    OBVIOUS
  <2>3. DUE_SCALE * s1 = DUE_SCALE * s0 - DUE_SCALE * r /\ DUE_SCALE * r \in Nat
    BY <1>6, <1>7, <1>9, <2>1, <2>2
  <2>4. credit = pool => DUE_SCALE * s1 >= 0
    BY <1>7, <1>9, <2>2
  <2>5. credit = q => DUE_SCALE * r <= DUE_SCALE * ACC
    BY <1>6, Product
  <2> QED
    BY <1>7, <2>1, <2>3, <2>4, <2>5, MarginIs
<1>11. ASSUME NEW v \in Users
       PROVE  Within(Gap(stk[v], paid1[v], held1[v], owed[v], rpt, delta, T), DUE_SCALE * s1, e + Unit)
  <2> DEFINE g0 == Gap(stk[v], paid[v], held[v], owed[v], rpt, delta, T)
             g1 == Gap(stk[v], paid1[v], held1[v], owed[v], rpt, delta, T)
  <2>1. g0 \in Int /\ g1 \in Int
    BY <1>5, Typed
  <2>2. Within(g0, DUE_SCALE * s0, e)
    BY DEF Fair
  <2>3. g1 = g0 \/ g1 = g0 + DUE_SCALE * r
    <3>1. CASE v # u
      BY <1>0, <1>1, <3>1
    <3>2. CASE v = u
      <4>1. paid1[u] = rpt /\ held1[u] = held[u] + credit
        BY <1>0, <1>1
      <4>2. g1 = ACC * owed[u] - DUE_SCALE * (ACC * (held[u] + credit) + stk[u] * (rpt - rpt))
                 - Pend(stk[u], delta, T)
        BY <3>2, <4>1 DEF Gap
      <4>3. g0 = ACC * owed[u] - DUE_SCALE * (ACC * held[u] + g) - Pend(stk[u], delta, T)
        BY <3>2 DEF Gap
      <4>4. Pend(stk[u], delta, T) \in Int /\ ACC * owed[u] \in Int
        <5>1. Pend(stk[u], delta, T) \in Nat
          BY <1>1, PendIsNat
        <5> QED
          BY <1>1, <5>1
      <4>5. stk[u] * (rpt - rpt) = 0 /\ ACC * (held[u] + credit) = ACC * held[u] + ACC * credit
            /\ ACC * held[u] \in Int /\ ACC * credit \in Int
        BY <1>1, <1>4
      <4>6. DUE_SCALE * (ACC * held[u] + g) = DUE_SCALE * (ACC * held[u] + ACC * credit) + DUE_SCALE * r
            /\ DUE_SCALE * (ACC * held[u] + ACC * credit) \in Int
        <5>1. \A a, b, c, d \in Int : a * (b + c) = a * (b + d) + a * (c - d) /\ a * (b + d) \in Int
          OBVIOUS
        <5> HIDE DEF g
        <5> QED
          BY <1>2, <4>5, <5>1
      <4>7. g1 = ACC * owed[u] - DUE_SCALE * (ACC * held[u] + ACC * credit) - Pend(stk[u], delta, T)
        <5> HIDE DEF g1
        <5>1. (ACC * held[u] + ACC * credit) + 0 = ACC * held[u] + ACC * credit
          BY <4>5
        <5> QED
          BY <4>2, <4>5, <5>1
      <4> HIDE DEF g0, g1, r, g
      <4> QED
        BY <1>10, <4>3, <4>4, <4>6, <4>7
    <3> QED
      BY <3>1, <3>2
  <2> HIDE DEF g0, g1, s0, s1, r, q
  <2>4. Within(g1, DUE_SCALE * s1, e + Unit)
    BY <1>4, <1>10, <2>1, <2>2, <2>3, MarginIs DEF Within
  <2> QED
    BY <2>4 DEF g1
<1> QED
  BY <1>4, <1>5, <1>11 DEF Fair

(* CLAIM arrives and is not noticed yet. *)
LEMMA ArrivalIsFair ==
  ASSUME NEW T, NEW stk, NEW paid, NEW held, NEW owed, NEW rpt, NEW pool, NEW delta,
         Accounts(T, stk, paid, held, owed, rpt, pool, delta),
         NEW e \in Int, Fair(T, stk, paid, held, owed, rpt, pool, delta, e),
         NEW amount \in Nat, NEW after,
         IF T = 0 THEN after = owed
         ELSE after = [u \in Users |-> owed[u] + (amount * stk[u] * DUE_SCALE) \div T]
  PROVE  /\ Accounts(T, stk, paid, held, after, rpt, pool, delta + amount)
         /\ Fair(T, stk, paid, held, after, rpt, pool, delta + amount, e + Unit)
<1> USE VaultAssumption
<1> DEFINE gain(u) == (amount * stk[u] * DUE_SCALE) \div T
           s0 == DUE_SCALE * Slack(stk, paid, rpt, pool)
<1>1. /\ T \in Nat /\ rpt \in Int /\ pool \in Nat /\ delta \in Nat /\ delta + amount \in Nat
      /\ \A u \in Users : /\ stk[u] \in Nat /\ paid[u] \in Int /\ held[u] \in Int /\ owed[u] \in Int
      /\ owed \in [Users -> Int]
  BY DEF Accounts
<1>2. ASSUME NEW u \in Users, T # 0 PROVE gain(u) \in Nat
  <2> DEFINE y == amount * stk[u] * DUE_SCALE
  <2>1. \A m, n \in Nat : m * n \in Nat
    OBVIOUS
  <2>2. amount * stk[u] \in Nat
    BY <1>1, <2>1
  <2>3. y \in Nat
    BY <2>1, <2>2
  <2> HIDE DEF y
  <2>4. y \div T \in Nat
    BY <1>1, <1>2, <2>3, Quotient
  <2> QED
    BY <2>4 DEF y
<1>3. after \in [Users -> Int] /\ \A u \in Users : after[u] = owed[u] + (IF T = 0 THEN 0 ELSE gain(u))
  <2> HIDE DEF gain
  <2>1. CASE T = 0
    BY <1>1, <2>1
  <2>2. CASE T # 0
    <3>1. after = [u \in Users |-> owed[u] + gain(u)]
      BY <2>2 DEF gain
    <3> QED
      BY <1>1, <1>2, <2>2, <3>1
  <2> QED
    BY <2>1, <2>2
<1>4. Accounts(T, stk, paid, held, after, rpt, pool, delta + amount)
  BY <1>1, <1>3 DEF Accounts
<1>5. s0 \in Int
  <2>1. Slack(stk, paid, rpt, pool) \in Int
    BY Typed
  <2> QED
    BY <2>1
<1>6. ASSUME NEW u \in Users
      PROVE  Within(Gap(stk[u], paid[u], held[u], after[u], rpt, delta + amount, T), s0, e + Unit)
  <2> DEFINE g0 == Gap(stk[u], paid[u], held[u], owed[u], rpt, delta, T)
             g1 == Gap(stk[u], paid[u], held[u], after[u], rpt, delta + amount, T)
             p0 == Pend(stk[u], delta, T)
             p1 == Pend(stk[u], delta + amount, T)
             n == IF T = 0 THEN 0 ELSE gain(u)
             x == ACC * n - (p1 - p0)
             k == DUE_SCALE * (ACC * held[u] + stk[u] * (rpt - paid[u]))
  <2>1. g0 \in Int /\ g1 \in Int
    BY <1>4, Typed
  <2>2. Within(g0, s0, e)
    BY DEF Fair
  <2>3. p0 \in Nat /\ p1 \in Nat
    BY <1>1, PendIsNat
  <2>4. n \in Nat /\ after[u] = owed[u] + n
    <3> HIDE DEF gain
    <3> QED
      BY <1>2, <1>3
  <2>5. x <= Unit /\ -x <= Unit
    <3>1. CASE T = 0
      <4>1. p0 = 0 /\ p1 = 0 /\ n = 0
        BY <3>1 DEF Pend
      <4> HIDE DEF p0, p1, n
      <4>2. x = 0
        BY <4>1
      <4> QED
        BY <4>2, MarginIs
    <3>2. CASE T # 0
      <4>1. T \in Nat \ {0} /\ stk[u] \in Nat
        BY <1>1, <3>2
      <4>2. LET y == ACC * ((amount * stk[u] * DUE_SCALE) \div T)
                     - (Pend(stk[u], delta + amount, T) - Pend(stk[u], delta, T))
            IN  y <= Unit /\ -y <= Unit
        BY <1>1, <4>1, ArrivalIsPending
      <4> QED
        BY <3>2, <4>2
    <3> QED
      BY <3>1, <3>2
  <2>6. g1 = g0 + x
    <3>1. k \in Int
      BY <1>1, SMT
    <3>2. g0 = ACC * owed[u] - k - p0 /\ g1 = ACC * after[u] - k - p1
      BY DEF Gap
    <3> HIDE DEF g0, g1, k, p0, p1, n
    <3>3. ACC * after[u] = ACC * owed[u] + ACC * n /\ ACC * owed[u] \in Int /\ ACC * n \in Int
      BY <1>1, <2>4
    <3> QED
      BY <2>3, <3>1, <3>2, <3>3
  <2>7. x \in Int
    <3> HIDE DEF p0, p1, n
    <3> QED
      BY <2>3, <2>4
  <2> HIDE DEF g0, g1, x, s0
  <2>8. Within(g1, s0, e + Unit)
    BY <1>5, <2>1, <2>2, <2>5, <2>6, <2>7, MarginIs DEF Within
  <2> QED
    BY <2>8 DEF g1
<1> QED
  BY <1>4, <1>6 DEF Fair

(* A user paid for to the last changes its stake while nothing is pending. *)
LEMMA RestakeIsFair ==
  ASSUME NEW T, NEW stk, NEW paid, NEW held, NEW owed, NEW rpt, NEW pool,
         Accounts(T, stk, paid, held, owed, rpt, pool, 0),
         NEW e \in Int, Fair(T, stk, paid, held, owed, rpt, pool, 0, e),
         NEW u \in Users, paid[u] = rpt, NEW n \in Nat,
         NEW after, after = [stk EXCEPT ![u] = n],
         NEW U \in Nat, U = T - stk[u] + n, U <= LP_SUPPLY
  PROVE  /\ Accounts(U, after, paid, held, owed, rpt, pool, 0)
         /\ Fair(U, after, paid, held, owed, rpt, pool, 0, e)
<1> USE VaultAssumption
<1>1. /\ T \in Nat /\ rpt \in Int /\ stk \in [Users -> Nat] /\ T = Sum(stk, Users)
      /\ \A v \in Users : paid[v] \in Int
  BY DEF Accounts
<1>2. after \in [Users -> Nat] /\ \A v \in Users : v # u => after[v] = stk[v]
  BY <1>1
<1>3. Sum(after, Users) = Sum(stk, Users) - stk[u] + n
  <2>1. \A f \in [Users -> Nat] : \A h : h = [f EXCEPT ![u] = n] => Sum(h, Users) = Sum(f, Users) - f[u] + n
    BY OneChanges
  <2> QED
    BY <1>1, <2>1, Zenon
<1>4. Accounts(U, after, paid, held, owed, rpt, pool, 0)
  BY <1>1, <1>2, <1>3 DEF Accounts
<1>5. \A v \in Users : stk[v] * (rpt - paid[v]) = after[v] * (rpt - paid[v])
  <2>1. ASSUME NEW v \in Users PROVE stk[v] * (rpt - paid[v]) = after[v] * (rpt - paid[v])
    <3>1. CASE v = u
      <4>1. rpt - paid[v] = 0 /\ stk[v] \in Int /\ after[v] \in Int
        BY <1>1, <1>2, <3>1
      <4>2. \A m \in Int : m * 0 = 0
        OBVIOUS
      <4> QED
        BY <4>1, <4>2
    <3>2. CASE v # u
      BY <1>2, <3>2
    <3> QED
      BY <3>1, <3>2
  <2> QED
    BY <2>1
<1>6. Accrual(after, paid, rpt) = Accrual(stk, paid, rpt)
  BY <1>5 DEF Accrual
<1>7. Slack(after, paid, rpt, pool) = Slack(stk, paid, rpt, pool)
  BY <1>6 DEF Slack
<1>8. \A v \in Users : Pend(stk[v], 0, T) = Pend(after[v], 0, U)
  <2>1. \A v \in Users : stk[v] \in Nat /\ after[v] \in Nat
    BY <1>1, <1>2
  <2> QED
    BY <1>1, <2>1, NothingPends
<1>9. \A v \in Users : Gap(after[v], paid[v], held[v], owed[v], rpt, 0, U)
                         = Gap(stk[v], paid[v], held[v], owed[v], rpt, 0, T)
  BY <1>5, <1>8 DEF Gap
<1> QED
  BY <1>4, <1>7, <1>9 DEF Fair

(* indexRewardsWithCarry of an emptied queue, field by field. *)
LEMMA IndexIs ==
  ASSUME NEW b \in IntBooks, NEW amount \in Nat, NEW T \in Nat, b.queued = 0
  PROVE  LET c == indexRewardsWithCarry(b, amount, T)
         IN  /\ c.rewardPerToken = b.rewardPerToken + Raise(amount, T)
             /\ c.indexed = b.indexed + Moved(amount, T)
             /\ c.queued = amount - Moved(amount, T)
             /\ c.credited = b.credited /\ c.accounted = b.accounted
<1> DEFINE i == Indexable(amount, T)
           inc == (amount * ACC) \div T
<1>1. /\ b.rewardPerToken \in Int /\ b.indexed \in Int
  BY DEF IntBooks
<1>2. CASE T = 0 \/ i = 0
  <2>1. Moved(amount, T) = 0 /\ Raise(amount, T) = 0
    BY <1>2 DEF Moved, Raise
  <2>2. indexRewardsWithCarry(b, amount, T) = [b EXCEPT !.queued = @ + amount]
    BY <1>2 DEF indexRewardsWithCarry
  <2> HIDE DEF i
  <2> DEFINE c == [b EXCEPT !.queued = @ + amount]
  <2>3. /\ c.rewardPerToken = b.rewardPerToken /\ c.indexed = b.indexed /\ c.queued = 0 + amount
        /\ c.credited = b.credited /\ c.accounted = b.accounted
    BY DEF IntBooks
  <2> HIDE DEF c
  <2>4. /\ c.rewardPerToken = b.rewardPerToken + 0 /\ c.indexed = b.indexed + 0
        /\ c.queued = amount - 0 /\ c.credited = b.credited /\ c.accounted = b.accounted
    BY <1>1, <2>3
  <2> QED
    BY <2>1, <2>2, <2>4 DEF c
<1>3. CASE ~ (T = 0 \/ i = 0)
  <2>1. Moved(amount, T) = i /\ Raise(amount, T) = inc
    BY <1>3 DEF Moved, Raise
  <2>2. indexRewardsWithCarry(b, amount, T) =
          [b EXCEPT !.rewardPerToken = @ + inc, !.indexed = @ + i, !.queued = @ + (amount - i)]
    BY <1>3 DEF indexRewardsWithCarry
  <2>3. i \in Nat
    BY <1>3, IndexableAtMost
  <2> HIDE DEF i, inc
  <2> DEFINE c == [b EXCEPT !.rewardPerToken = @ + inc, !.indexed = @ + i, !.queued = @ + (amount - i)]
  <2>4. /\ c.rewardPerToken = b.rewardPerToken + inc /\ c.indexed = b.indexed + i
        /\ c.queued = 0 + (amount - i)
        /\ c.credited = b.credited /\ c.accounted = b.accounted
    BY DEF IntBooks
  <2>5. 0 + (amount - i) = amount - i
    BY <2>3
  <2> QED
    BY <2>1, <2>2, <2>4, <2>5
<1> QED
  BY <1>2, <1>3

(* A checkpoint indexes the queue and what came since the last. *)
LEMMA CheckpointIs ==
  ASSUME NEW bal \in Int, NEW b, Covers(bal, b), NEW T \in Nat,
         NEW c, c = checkpointRewards(b, bal, T),
         NEW amount, amount = (bal - b.accounted) + b.queued
  PROVE  /\ amount \in Nat
         /\ c.rewardPerToken = b.rewardPerToken + Raise(amount, T)
         /\ c.indexed = b.indexed + Moved(amount, T)
         /\ c.queued = amount - Moved(amount, T)
         /\ c.credited = b.credited /\ c.accounted = bal
<1> DEFINE delta == BalanceDelta(b, bal)
           opened == [b EXCEPT !.accounted = @ + delta, !.queued = 0]
<1>1. delta \in Nat /\ delta = bal - b.accounted /\ b.accounted + delta = bal
  BY DEF Covers, BalanceDelta, IntBooks
<1>2. amount \in Nat /\ amount = delta + b.queued
  BY <1>1 DEF Covers, IntBooks
<1>3. c = indexRewardsWithCarry(opened, amount, T)
  BY <1>2 DEF checkpointRewards
<1> HIDE DEF delta
<1>4. /\ opened \in IntBooks
      /\ opened.accounted = bal /\ opened.queued = 0
      /\ opened.indexed = b.indexed /\ opened.credited = b.credited
      /\ opened.rewardPerToken = b.rewardPerToken
  BY <1>1 DEF Covers, IntBooks
<1> HIDE DEF opened
<1> QED
  BY <1>2, <1>3, <1>4, IndexIs

(* What waits in the queue is too little to index, or waits for a staker. *)
Queue(T, queued, delta, wait) ==
  IF T = 0
  THEN LET x == ACC * ((queued + delta) - wait) IN 0 <= x /\ x <= Margin
  ELSE wait = 0 /\ ACC * queued <= Margin

(* A checkpoint makes what was pending part of the index, and adds at      *)
(* most two units of error. The queue it takes along is below the margin,  *)
(* or waits for the first staker.                                          *)
LEMMA CheckpointIsFair ==
  ASSUME NEW T, NEW stk, NEW paid, NEW held, NEW owed, NEW b, NEW bal \in Int, Covers(bal, b),
         NEW e \in Int, NEW wait \in Nat,
         Accounts(T, stk, paid, held, owed, b.rewardPerToken, b.indexed - b.credited, bal - b.accounted),
         Fair(T, stk, paid, held, owed, b.rewardPerToken, b.indexed - b.credited, bal - b.accounted, e),
         Queue(T, b.queued, bal - b.accounted, wait),
         NEW c, c = checkpointRewards(b, bal, T)
  PROVE  /\ c.accounted = bal
         /\ Accounts(T, stk, paid, held, owed, c.rewardPerToken, c.indexed - c.credited, 0)
         /\ Fair(T, stk, paid, held, owed, c.rewardPerToken, c.indexed - c.credited, 0, e + 2 * Unit)
         /\ Queue(T, c.queued, 0, wait)
<1> USE VaultAssumption
<1> DEFINE delta == bal - b.accounted
           pool == b.indexed - b.credited
           rpt == b.rewardPerToken
           q == b.queued
           amount == delta + q
           inc == Raise(amount, T)
           moved == Moved(amount, T)
<1>1. T \in Nat /\ T <= LP_SUPPLY /\ delta \in Nat /\ pool \in Nat /\ rpt \in Int
      /\ T = Sum(stk, Users) /\ owed \in [Users -> Int]
      /\ \A u \in Users : stk[u] \in Nat /\ owed[u] \in Int
  BY DEF Accounts
<1>2. /\ b.indexed \in Int /\ b.credited \in Int /\ q \in Nat
  BY DEF Covers, IntBooks
<1>3. /\ amount \in Nat
      /\ c.rewardPerToken = rpt + inc /\ c.indexed = b.indexed + moved
      /\ c.queued = amount - moved /\ c.credited = b.credited /\ c.accounted = bal
  <2> DEFINE m == amount
  <2>1. m = (bal - b.accounted) + b.queued
    OBVIOUS
  <2> HIDE DEF m
  <2>2. /\ m \in Nat /\ c.rewardPerToken = b.rewardPerToken + Raise(m, T)
        /\ c.indexed = b.indexed + Moved(m, T)
        /\ c.queued = m - Moved(m, T)
        /\ c.credited = b.credited /\ c.accounted = bal
    BY <1>1, <2>1, CheckpointIs
  <2> QED
    BY <2>2 DEF m
<1> HIDE DEF delta
<1>4. /\ inc \in Nat /\ moved \in Nat /\ ACC * moved <= T * inc /\ T * inc <= ACC * moved + ACC
      /\ Queue(T, c.queued, 0, wait)
  <2> HIDE DEF amount
  <2>1. CASE T = 0
    <3>1. inc = 0 /\ moved = 0
      BY <2>1 DEF Raise, Moved
    <3>2. c.queued = amount
      <4>1. amount - 0 = amount
        BY <1>3
      <4> QED
        BY <1>3, <3>1, <4>1
    <3>3. amount = q + delta /\ amount + 0 = amount
      BY <1>1, <1>2, <1>3 DEF amount
    <3>4. Queue(T, c.queued, 0, wait)
      <4>1. Queue(T, q, delta, wait)
        BY DEF delta
      <4> HIDE DEF q
      <4> QED
        BY <2>1, <3>2, <3>3, <4>1 DEF Queue
    <3>5. ACC * 0 = 0 /\ T * 0 = 0
      BY <1>1
    <3> HIDE DEF inc, moved
    <3> QED
      BY <2>1, <3>1, <3>4, <3>5
  <2>2. CASE T # 0
    <3>1. /\ inc \in Nat /\ moved \in Nat /\ ACC * moved <= T * inc /\ T * inc <= ACC * moved + ACC
          /\ ACC * (amount - moved) <= Margin
      BY <1>1, <1>3, <2>2, RaiseIs
    <3>2. Queue(T, q, bal - b.accounted, wait)
      OBVIOUS
    <3> HIDE DEF inc, moved, q
    <3> QED
      BY <1>3, <2>2, <3>1, <3>2 DEF Queue
  <2> QED
    BY <2>1, <2>2
<1>5. ASSUME NEW u \in Users
      PROVE  LET x == ACC * (owed[u] - owed[u]) + Pend(stk[u], delta, T) - (DUE_SCALE * stk[u]) * inc
             IN  x <= Unit /\ -x <= Unit
  <2> DEFINE p == Pend(stk[u], delta, T)
             y == (DUE_SCALE * stk[u]) * inc
  <2>1. stk[u] \in Nat /\ stk[u] <= T
    <3>1. stk \in [Users -> Nat]
      BY DEF Accounts
    <3> QED
      BY <1>1, <3>1, PartOfTotal
  <2>2. p \in Nat
    BY <1>1, <2>1, PendIsNat
  <2>3. y \in Nat
    <3>1. \A m, n \in Nat : m * n \in Nat
      OBVIOUS
    <3>2. DUE_SCALE * stk[u] \in Nat
      BY <2>1, <3>1
    <3> HIDE DEF inc
    <3> QED
      BY <1>4, <3>1, <3>2
  <2>4. ACC * (owed[u] - owed[u]) = 0
    BY <1>1
  <2>5. p - y <= Unit /\ y - p <= Unit
    <3>1. CASE T = 0
      <4>1. p = 0 /\ inc = 0
        BY <3>1 DEF Pend, Raise, Moved
      <4>2. y = 0
        <5> HIDE DEF inc
        <5>1. DUE_SCALE * stk[u] \in Int /\ \A m \in Int : m * 0 = 0
          BY <2>1
        <5> QED
          BY <4>1, <5>1
      <4> HIDE DEF p, y
      <4> QED
        BY <4>1, <4>2, MarginIs
    <3>2. CASE T # 0
      <4>1. ACC * q <= Margin
        <5>1. Queue(T, q, bal - b.accounted, wait)
          OBVIOUS
        <5> HIDE DEF q
        <5> QED
          BY <3>2, <5>1 DEF Queue
      <4>2. T \in Nat \ {0}
        BY <1>1, <3>2
      <4> HIDE DEF q
      <4>3. /\ Pend(stk[u], delta, T) - (DUE_SCALE * stk[u]) * Raise(delta + q, T) <= Unit
            /\ (DUE_SCALE * stk[u]) * Raise(delta + q, T) - Pend(stk[u], delta, T) <= Unit
        BY <1>1, <1>2, <2>1, <4>1, <4>2, RaisePaysPending DEF q
      <4> QED
        BY <4>3
    <3> QED
      BY <3>1, <3>2
  <2> HIDE DEF p, y
  <2>6. 0 + p - y <= Unit /\ -(0 + p - y) <= Unit
    BY <2>2, <2>3, <2>5
  <2> QED
    BY <2>4, <2>6 DEF p, y
<1> HIDE DEF amount
<1>6. /\ Accounts(T, stk, paid, held, owed, rpt + inc, pool + moved, 0)
      /\ Fair(T, stk, paid, held, owed, rpt + inc, pool + moved, 0, e + 2 * Unit)
  <2>1. Accounts(T, stk, paid, held, owed, rpt, pool, delta) /\ Fair(T, stk, paid, held, owed, rpt, pool, delta, e)
    BY DEF delta
  <2> HIDE DEF rpt, pool, inc, moved
  <2> QED
    BY <1>1, <1>4, <1>5, <2>1, RaiseIsFair
<1>7. pool + moved = c.indexed - c.credited
  <2> HIDE DEF moved
  <2> QED
    BY <1>2, <1>3, <1>4
<1> QED
  BY <1>3, <1>4, <1>6, <1>7

(* What a user has: what it took and what is stored for it. *)
Held == [u \in Users |-> taken[u] + rewards[u]]

(* The vault is fair to within e, with a queue that is small or waiting. *)
Standing(e) ==
  /\ taken \in [Users -> Int] /\ waiting \in Nat
  /\ Queue(totalStaked, books.queued, claimBalance - books.accounted, waiting)
  /\ Accounts(totalStaked, stakedBalance, userRewardPerTokenPaid, Held, due,
              books.rewardPerToken, books.indexed - books.credited, claimBalance - books.accounted)
  /\ Fair(totalStaked, stakedBalance, userRewardPerTokenPaid, Held, due,
          books.rewardPerToken, books.indexed - books.credited, claimBalance - books.accounted, e)

(* What is fair within e is fair within more. *)
LEMMA FairWidens ==
  ASSUME NEW T, NEW stk, NEW paid, NEW held, NEW owed, NEW rpt, NEW pool, NEW delta,
         Accounts(T, stk, paid, held, owed, rpt, pool, delta),
         NEW e \in Int, NEW f \in Int, e <= f, Fair(T, stk, paid, held, owed, rpt, pool, delta, e)
  PROVE  Fair(T, stk, paid, held, owed, rpt, pool, delta, f)
<1> USE VaultAssumption
<1> DEFINE slack == DUE_SCALE * Slack(stk, paid, rpt, pool)
           gap(u) == Gap(stk[u], paid[u], held[u], owed[u], rpt, delta, T)
<1>1. slack \in Int /\ \A u \in Users : gap(u) \in Int
  <2>1. Slack(stk, paid, rpt, pool) \in Int /\ \A u \in Users : gap(u) \in Int
    BY Typed
  <2> QED
    BY <2>1
<1>2. \A u \in Users : Within(gap(u), slack, e)
  BY DEF Fair
<1> HIDE DEF slack, gap
<1>3. \A u \in Users : Within(gap(u), slack, f)
  BY <1>1, <1>2 DEF Within
<1> QED
  BY <1>3 DEF Fair, slack, gap

(* The checkpoint with which a transaction opens. *)
LEMMA CheckpointedIsFair ==
  ASSUME CoveredInv, NEW e \in Int, Standing(e)
  PROVE  LET c == Checkpointed
         IN  /\ c.accounted = claimBalance
             /\ Accounts(totalStaked, stakedBalance, userRewardPerTokenPaid, Held, due,
                         c.rewardPerToken, c.indexed - c.credited, 0)
             /\ Fair(totalStaked, stakedBalance, userRewardPerTokenPaid, Held, due,
                     c.rewardPerToken, c.indexed - c.credited, 0, e + 2 * Unit)
             /\ Queue(totalStaked, c.queued, 0, waiting)
<1> DEFINE c == Checkpointed
<1>1. c = checkpointRewards(books, claimBalance, totalStaked)
  BY DEF Checkpointed
<1>2. claimBalance \in Int /\ Covers(claimBalance, books) /\ waiting \in Nat
  BY DEF CoveredInv, Standing
<1> HIDE DEF c
<1>3. /\ c.accounted = claimBalance
      /\ Accounts(totalStaked, stakedBalance, userRewardPerTokenPaid, Held, due,
                  c.rewardPerToken, c.indexed - c.credited, 0)
      /\ Fair(totalStaked, stakedBalance, userRewardPerTokenPaid, Held, due,
              c.rewardPerToken, c.indexed - c.credited, 0, e + 2 * Unit)
      /\ Queue(totalStaked, c.queued, 0, waiting)
  <2>1. /\ Accounts(totalStaked, stakedBalance, userRewardPerTokenPaid, Held, due,
                    books.rewardPerToken, books.indexed - books.credited, claimBalance - books.accounted)
        /\ Fair(totalStaked, stakedBalance, userRewardPerTokenPaid, Held, due,
                books.rewardPerToken, books.indexed - books.credited, claimBalance - books.accounted, e)
        /\ Queue(totalStaked, books.queued, claimBalance - books.accounted, waiting)
    BY DEF Standing
  <2>2. Accounts(totalStaked, stakedBalance, userRewardPerTokenPaid, Held, due,
                 c.rewardPerToken, c.indexed - c.credited, 0)
    BY <1>1, <1>2, <2>1, CheckpointIsFair
  <2>3. Fair(totalStaked, stakedBalance, userRewardPerTokenPaid, Held, due,
             c.rewardPerToken, c.indexed - c.credited, 0, e + 2 * Unit)
    BY <1>1, <1>2, <2>1, CheckpointIsFair
  <2>4. Queue(totalStaked, c.queued, 0, waiting)
    BY <1>1, <1>2, <2>1, CheckpointIsFair
  <2>5. c.accounted = claimBalance
    <3> DEFINE amount == (claimBalance - books.accounted) + books.queued
    <3>1. totalStaked \in Nat /\ amount = (claimBalance - books.accounted) + books.queued
      BY DEF CoveredInv
    <3> HIDE DEF amount
    <3> QED
      BY <1>1, <1>2, <3>1, CheckpointIs
  <2> QED
    BY <2>2, <2>3, <2>4, <2>5
<1> QED
  BY <1>3 DEF c

(* The checkpoint and the credit every transaction of a user begins with. *)
PaidFor(u) == [userRewardPerTokenPaid EXCEPT ![u] = Checkpointed.rewardPerToken]
HeldBy(u) == [Held EXCEPT ![u] = taken[u] + Claimable(u)]

(* The checkpoint and the credit with which a user transaction opens add   *)
(* at most three units of error.                                           *)
LEMMA SettledIsFair ==
  ASSUME CoveredInv, NEW e \in Int, Standing(e), NEW u \in Users,
         NEW b, b = CreditTo(Checkpointed, u)
  PROVE  /\ b \in IntBooks /\ b.accounted = claimBalance
         /\ b.rewardPerToken = Checkpointed.rewardPerToken
         /\ PaidFor(u)[u] = b.rewardPerToken
         /\ Accounts(totalStaked, stakedBalance, PaidFor(u), HeldBy(u), due,
                     b.rewardPerToken, b.indexed - b.credited, 0)
         /\ Fair(totalStaked, stakedBalance, PaidFor(u), HeldBy(u), due,
                 b.rewardPerToken, b.indexed - b.credited, 0, e + 3 * Unit)
         /\ Queue(totalStaked, b.queued, 0, waiting)
<1> DEFINE c == Checkpointed
           credit == Accrued(c, u)
           rpt == c.rewardPerToken
           pool == c.indexed - c.credited
<1>1. /\ c.accounted = claimBalance
      /\ Accounts(totalStaked, stakedBalance, userRewardPerTokenPaid, Held, due, rpt, pool, 0)
      /\ Fair(totalStaked, stakedBalance, userRewardPerTokenPaid, Held, due, rpt, pool, 0, e + 2 * Unit)
      /\ Queue(totalStaked, c.queued, 0, waiting)
  BY CheckpointedIsFair
<1>2. c \in IntBooks /\ rpt \in Int /\ c.indexed \in Int /\ c.credited \in Int
  BY CheckpointedCovers DEF Covers, IntBooks
<1>3. /\ Claimable(u) = rewards[u] + credit /\ credit \in Nat /\ rewards[u] \in Nat
      /\ taken[u] \in Int /\ b \in IntBooks
  <2>1. Covers(claimBalance, b)
    BY CreditedUser
  <2> QED
    BY <2>1, CreditedUser DEF CoveredInv, Standing, Covers
<1>4. HeldBy(u) = [Held EXCEPT ![u] = Held[u] + credit]
  <2>1. Held[u] = taken[u] + rewards[u]
    BY DEF Held
  <2> HIDE DEF credit
  <2>2. Held[u] + credit = taken[u] + Claimable(u)
    BY <1>3, <2>1
  <2> QED
    BY <2>2 DEF HeldBy
<1>5. credit = LET gain == (stakedBalance[u] * (rpt - userRewardPerTokenPaid[u])) \div ACC
               IN  IF gain > pool THEN pool ELSE gain
  BY DEF Accrued
<1>6. /\ b.rewardPerToken = rpt /\ b.credited = c.credited + credit /\ b.indexed = c.indexed
      /\ b.queued = c.queued /\ b.accounted = c.accounted
  <2> HIDE DEF credit, rpt, pool, c
  <2>1. b = [c EXCEPT !.credited = @ + credit]
    BY DEF CreditTo, c, credit
  <2> QED
    BY <1>2, <2>1 DEF IntBooks, rpt
<1>7. PaidFor(u) = [userRewardPerTokenPaid EXCEPT ![u] = rpt]
  BY DEF PaidFor
<1>8. Unit \in Int
  BY MarginIs
<1> HIDE DEF credit, pool, c
<1>9. b.indexed - b.credited = pool - credit
  BY <1>2, <1>3, <1>6 DEF pool
<1> HIDE DEF rpt
<1>10. /\ Accounts(totalStaked, stakedBalance, PaidFor(u), HeldBy(u), due, rpt, pool - credit, 0)
       /\ Fair(totalStaked, stakedBalance, PaidFor(u), HeldBy(u), due, rpt, pool - credit, 0,
               (e + 2 * Unit) + Unit)
  <2> DEFINE f == e + 2 * Unit
  <2>1. f \in Int
    BY <1>8
  <2> HIDE DEF f
  <2> QED
    <3>1. Fair(totalStaked, stakedBalance, userRewardPerTokenPaid, Held, due, rpt, pool, 0, f)
      BY <1>1 DEF f
    <3>4. Credits(credit, PaidFor(u), HeldBy(u), u, stakedBalance, userRewardPerTokenPaid, Held, rpt, pool)
      BY <1>4, <1>5, <1>7 DEF Credits
    <3>2. Accounts(totalStaked, stakedBalance, PaidFor(u), HeldBy(u), due, rpt, pool - credit, 0)
      BY <1>1, <2>1, <3>1, <3>4, CreditIsFair
    <3>3. Fair(totalStaked, stakedBalance, PaidFor(u), HeldBy(u), due, rpt, pool - credit, 0, f + Unit)
      BY <1>1, <2>1, <3>1, <3>4, CreditIsFair
    <3> QED
      BY <3>2, <3>3 DEF f
<1>11. (e + 2 * Unit) + Unit = e + 3 * Unit
  BY <1>8
<1>12. PaidFor(u)[u] = rpt
  BY <1>7 DEF CoveredInv
<1> QED
  BY <1>1, <1>3, <1>6, <1>9, <1>10, <1>11, <1>12 DEF c, rpt

(* What a user holds is the same credited or paid out. *)
LEMMA HeldAfter ==
  ASSUME NEW u \in Users, rewards \in [Users -> Nat], taken \in [Users -> Int], Claimable(u) \in Nat,
         \/ rewards' = [rewards EXCEPT ![u] = Claimable(u)] /\ taken' = taken
         \/ /\ rewards' = [rewards EXCEPT ![u] = 0]
            /\ taken' = [taken EXCEPT ![u] = taken[u] + Claimable(u)]
  PROVE  Held' = HeldBy(u) /\ taken' \in [Users -> Int]
<1>1. taken' \in [Users -> Int]
  OBVIOUS
<1>2. \A v \in Users : taken'[v] + rewards'[v] = IF v = u THEN taken[u] + Claimable(u) ELSE taken[v] + rewards[v]
  OBVIOUS
<1>3. HeldBy(u) = [v \in Users |-> IF v = u THEN taken[u] + Claimable(u) ELSE taken[v] + rewards[v]]
  <2> DEFINE h == taken[u] + Claimable(u)
  <2> HIDE DEF h
  <2>1. [Held EXCEPT ![u] = h] = [v \in Users |-> IF v = u THEN h ELSE taken[v] + rewards[v]]
    BY DEF Held
  <2> QED
    BY <2>1 DEF HeldBy, h
<1>4. Held' = [v \in Users |-> taken'[v] + rewards'[v]]
  BY DEF Held
<1> QED
  BY <1>1, <1>2, <1>3, <1>4

(* Five units of error are allowed to a transaction. *)
LEMMA Widens ==
  ASSUME NEW e \in Int
  PROVE  /\ e <= e + 5 * Unit /\ e + 3 * Unit <= e + 5 * Unit /\ e + 4 * Unit <= e + 5 * Unit
         /\ (e + 3 * Unit) + Unit = e + 4 * Unit /\ (e + 3 * Unit) + 2 * Unit = e + 5 * Unit
         /\ (e + 2 * Unit) + Unit = e + 3 * Unit /\ (e + Unit) + 2 * Unit = e + 3 * Unit
         /\ e + Unit \in Int /\ e + 2 * Unit \in Int /\ e + 3 * Unit \in Int /\ e + 4 * Unit \in Int
         /\ e + 5 * Unit \in Int
BY MarginIs

(* A transaction that credits a user and moves no CLAIM. *)
LEMMA CreditStands ==
  ASSUME CoveredInv, NEW e \in Int, Standing(e), NEW u \in Users, Credit(Checkpointed, u),
         UNCHANGED <<stakeVars, claimBalance, taken, due, waiting>>
  PROVE  Standing(e + 5 * Unit)'
<1> DEFINE b == CreditTo(Checkpointed, u)
<1>1. /\ b.accounted = claimBalance /\ b.rewardPerToken = Checkpointed.rewardPerToken
      /\ Accounts(totalStaked, stakedBalance, PaidFor(u), HeldBy(u), due,
                  b.rewardPerToken, b.indexed - b.credited, 0)
      /\ Fair(totalStaked, stakedBalance, PaidFor(u), HeldBy(u), due,
              b.rewardPerToken, b.indexed - b.credited, 0, e + 3 * Unit)
      /\ Queue(totalStaked, b.queued, 0, waiting)
  <2> HIDE DEF b
  <2>1. b = CreditTo(Checkpointed, u)
    BY DEF b
  <2> QED
    BY <2>1, SettledIsFair
<1>2. /\ books' = b /\ rewards' = [rewards EXCEPT ![u] = Claimable(u)] /\ userRewardPerTokenPaid' = PaidFor(u)
      /\ totalStaked' = totalStaked /\ stakedBalance' = stakedBalance /\ claimBalance' = claimBalance
      /\ taken' = taken /\ due' = due /\ waiting' = waiting
  BY DEF Credit, Claimable, PaidFor, stakeVars
<1>3. /\ Claimable(u) \in Nat /\ rewards \in [Users -> Nat] /\ taken \in [Users -> Int]
      /\ waiting \in Nat /\ claimBalance \in Int
  BY CreditedUser DEF CoveredInv, Standing
<1>4. Held' = HeldBy(u) /\ taken' \in [Users -> Int]
  BY <1>2, <1>3, HeldAfter
<1> HIDE DEF b
<1>5. claimBalance' - books'.accounted = 0
  BY <1>1, <1>2, <1>3
<1>6. Fair(totalStaked, stakedBalance, PaidFor(u), HeldBy(u), due,
           b.rewardPerToken, b.indexed - b.credited, 0, e + 5 * Unit)
  BY <1>1, Widens, FairWidens
<1> QED
  BY <1>1, <1>2, <1>3, <1>4, <1>5, <1>6 DEF Standing

(* What arrives is owed to the stakers, or waits for one. *)
LEMMA ArrivalStands ==
  ASSUME NEW paid, NEW held, NEW rpt, NEW pool, NEW queued \in Nat, NEW delta, NEW e \in Int,
         NEW amount \in Nat, waiting \in Nat, Arrives(amount),
         Accounts(totalStaked, stakedBalance, paid, held, due, rpt, pool, delta),
         Fair(totalStaked, stakedBalance, paid, held, due, rpt, pool, delta, e),
         Queue(totalStaked, queued, delta, waiting)
  PROVE  /\ waiting' \in Nat
         /\ Accounts(totalStaked, stakedBalance, paid, held, due', rpt, pool, delta + amount)
         /\ Fair(totalStaked, stakedBalance, paid, held, due', rpt, pool, delta + amount, e + Unit)
         /\ Queue(totalStaked, queued, delta + amount, waiting')
<1>1. IF totalStaked = 0 THEN due' = due
      ELSE due' = [u \in Users |-> due[u] + (amount * stakedBalance[u] * DUE_SCALE) \div totalStaked]
  BY DEF Arrives
<1>2. /\ Accounts(totalStaked, stakedBalance, paid, held, due', rpt, pool, delta + amount)
      /\ Fair(totalStaked, stakedBalance, paid, held, due', rpt, pool, delta + amount, e + Unit)
  <2> DEFINE after == due'
  <2>1. IF totalStaked = 0 THEN after = due
        ELSE after = [u \in Users |-> due[u] + (amount * stakedBalance[u] * DUE_SCALE) \div totalStaked]
    BY <1>1
  <2> HIDE DEF after
  <2>2. Accounts(totalStaked, stakedBalance, paid, held, after, rpt, pool, delta + amount)
    BY <2>1, ArrivalIsFair
  <2>3. Fair(totalStaked, stakedBalance, paid, held, after, rpt, pool, delta + amount, e + Unit)
    BY <2>1, ArrivalIsFair
  <2> QED
    BY <2>2, <2>3 DEF after
<1>3. delta \in Nat
  BY DEF Accounts
<1>4. waiting' = (IF totalStaked = 0 THEN waiting + amount ELSE waiting) /\ waiting' \in Nat
  BY DEF Arrives
<1>5. Queue(totalStaked, queued, delta + amount, waiting')
  <2>1. CASE totalStaked = 0
    <3>1. (queued + (delta + amount)) - (waiting + amount) = (queued + delta) - waiting
      BY <1>3
    <3> QED
      BY <1>4, <2>1, <3>1 DEF Queue
  <2>2. CASE totalStaked # 0
    BY <1>4, <2>2 DEF Queue
  <2> QED
    BY <2>1, <2>2
<1> QED
  BY <1>2, <1>4, <1>5

(* A payment to a user, with the CLAIM that came from within the locking   *)
(* call: it is due from the stakes there are, and pending or noticed.      *)
LEMMA PayStands ==
  ASSUME CoveredInv, NEW e \in Int, Standing(e), NEW u \in Users, NEW nested \in Nat,
         Pays(u, Claimable(u), nested), UNCHANGED stakeVars
  PROVE  Standing(e + 5 * Unit)'
<1> DEFINE b == CreditTo(Checkpointed, u)
           reward == Claimable(u)
<1>1. /\ b \in IntBooks /\ b.accounted = claimBalance /\ b.rewardPerToken = Checkpointed.rewardPerToken
      /\ Accounts(totalStaked, stakedBalance, PaidFor(u), HeldBy(u), due,
                  b.rewardPerToken, b.indexed - b.credited, 0)
      /\ Fair(totalStaked, stakedBalance, PaidFor(u), HeldBy(u), due,
              b.rewardPerToken, b.indexed - b.credited, 0, e + 3 * Unit)
      /\ Queue(totalStaked, b.queued, 0, waiting)
  <2> HIDE DEF b
  <2>1. b = CreditTo(Checkpointed, u)
    BY DEF b
  <2> QED
    BY <2>1, SettledIsFair
<1>2. /\ claimBalance' = claimBalance - reward + nested
      /\ books' = PaidOut(b, reward)
      /\ rewards' = [rewards EXCEPT ![u] = 0]
      /\ taken' = [taken EXCEPT ![u] = taken[u] + Claimable(u)]
      /\ userRewardPerTokenPaid' = PaidFor(u)
      /\ totalStaked' = totalStaked /\ stakedBalance' = stakedBalance
      /\ Arrives(nested)
  BY DEF Pays, PaidFor, stakeVars
<1>3. /\ reward \in Nat /\ reward = rewards[u] + Accrued(Checkpointed, u) /\ Accrued(Checkpointed, u) \in Nat
      /\ b.credited = books.credited + Accrued(Checkpointed, u) /\ Covers(claimBalance, b)
  BY CreditedUser
<1>4. /\ rewards \in [Users -> Nat] /\ taken \in [Users -> Int] /\ Claimable(u) \in Nat
      /\ waiting \in Nat /\ claimBalance \in Int /\ rewards[u] <= books.credited /\ rewards[u] \in Nat
      /\ books.credited \in Int
  BY <1>3, RewardsAreCredited DEF CoveredInv, Standing, Covers, IntBooks
<1>5. Held' = HeldBy(u) /\ taken' \in [Users -> Int]
  BY <1>2, <1>4, HeldAfter
<1> HIDE DEF b, reward
<1>6. reward <= b.credited /\ b.credited <= b.accounted
  BY <1>3, <1>4 DEF Covers, IntBooks
<1>7. ~(reward > b.accounted) /\ b.credited \in Int /\ b.indexed \in Int /\ b.accounted \in Int
  BY <1>1, <1>3, <1>6 DEF IntBooks
<1>8. /\ books'.credited = b.credited - reward /\ books'.indexed = b.indexed - reward
      /\ books'.queued = b.queued /\ books'.rewardPerToken = b.rewardPerToken
      /\ books'.accounted = b.accounted - reward
  BY <1>1, <1>2, <1>7 DEF PaidOut, IntBooks
<1>9. /\ books'.indexed - books'.credited = b.indexed - b.credited
      /\ claimBalance' - books'.accounted = 0 + nested
  BY <1>1, <1>2, <1>3, <1>4, <1>7, <1>8
<1>10. b.queued \in Nat
  BY <1>1 DEF IntBooks
<1>11. /\ waiting' \in Nat
       /\ Accounts(totalStaked, stakedBalance, PaidFor(u), HeldBy(u), due',
                   b.rewardPerToken, b.indexed - b.credited, 0 + nested)
       /\ Queue(totalStaked, b.queued, 0 + nested, waiting')
       /\ Fair(totalStaked, stakedBalance, PaidFor(u), HeldBy(u), due',
               b.rewardPerToken, b.indexed - b.credited, 0 + nested, e + 4 * Unit)
  <2> DEFINE f == e + 3 * Unit
  <2>1. f \in Int /\ f + Unit = e + 4 * Unit
    BY Widens
  <2>2. Fair(totalStaked, stakedBalance, PaidFor(u), HeldBy(u), due,
             b.rewardPerToken, b.indexed - b.credited, 0, f)
    BY <1>1
  <2> HIDE DEF f
  <2>3. Fair(totalStaked, stakedBalance, PaidFor(u), HeldBy(u), due',
             b.rewardPerToken, b.indexed - b.credited, 0 + nested, f + Unit)
    BY <1>1, <1>2, <1>4, <1>10, <2>1, <2>2, ArrivalStands
  <2>4. Accounts(totalStaked, stakedBalance, PaidFor(u), HeldBy(u), due',
                 b.rewardPerToken, b.indexed - b.credited, 0 + nested)
    BY <1>1, <1>2, <1>4, <1>10, <2>1, <2>2, ArrivalStands
  <2>5. Queue(totalStaked, b.queued, 0 + nested, waiting')
    BY <1>1, <1>2, <1>4, <1>10, <2>1, <2>2, ArrivalStands
  <2>6. waiting' \in Nat
    BY <1>2, <1>4 DEF Arrives
  <2> QED
    BY <2>1, <2>3, <2>4, <2>5, <2>6
<1>12. Fair(totalStaked, stakedBalance, PaidFor(u), HeldBy(u), due',
            b.rewardPerToken, b.indexed - b.credited, 0 + nested, e + 5 * Unit)
  BY <1>11, Widens, FairWidens
<1> QED
  BY <1>2, <1>5, <1>8, <1>9, <1>11, <1>12 DEF Standing

(* An unbonding credits the user before it takes from the stake. *)
LEMMA UnbondStands ==
  ASSUME CoveredInv, NEW e \in Int, Standing(e), NEW u \in Users, NEW amount \in Amounts,
         BeginUnbond(u, amount)
  PROVE  Standing(e + 5 * Unit)'
<1> DEFINE b == CreditTo(Checkpointed, u)
           out == Unbonded(u, amount)
           n == stakedBalance[u] - out
           U == totalStaked - out
<1>1. /\ b \in IntBooks /\ b.accounted = claimBalance /\ PaidFor(u)[u] = b.rewardPerToken
      /\ Accounts(totalStaked, stakedBalance, PaidFor(u), HeldBy(u), due,
                  b.rewardPerToken, b.indexed - b.credited, 0)
      /\ Fair(totalStaked, stakedBalance, PaidFor(u), HeldBy(u), due,
              b.rewardPerToken, b.indexed - b.credited, 0, e + 3 * Unit)
      /\ Queue(totalStaked, b.queued, 0, waiting)
  <2> HIDE DEF b
  <2>1. b = CreditTo(Checkpointed, u)
    BY DEF b
  <2> QED
    BY <2>1, SettledIsFair
<1>2. /\ books' = b /\ rewards' = [rewards EXCEPT ![u] = Claimable(u)] /\ userRewardPerTokenPaid' = PaidFor(u)
      /\ stakedBalance' = [stakedBalance EXCEPT ![u] = n] /\ totalStaked' = U
      /\ claimBalance' = claimBalance /\ taken' = taken /\ due' = due /\ waiting' = waiting
      /\ totalStaked >= out /\ stakedBalance[u] >= amount
  BY DEF BeginUnbond, Credit, Claimable, PaidFor, arrivalVars
<1>3. /\ Claimable(u) \in Nat /\ rewards \in [Users -> Nat] /\ taken \in [Users -> Int]
      /\ waiting \in Nat /\ claimBalance \in Int /\ stakedBalance[u] \in Nat /\ totalStaked \in Nat
      /\ totalStaked <= LP_SUPPLY /\ LP_SUPPLY \in Nat
  BY CreditedUser, VaultAssumption DEF CoveredInv, Standing, Accounts
<1>4. Held' = HeldBy(u) /\ taken' \in [Users -> Int]
  BY <1>2, <1>3, HeldAfter
<1>5. out \in Nat \ {0} /\ out <= stakedBalance[u]
  BY <1>2, UnbondedIsStaked
<1> HIDE DEF b, out
<1>6. n \in Nat /\ U \in Nat /\ U <= LP_SUPPLY /\ U = totalStaked - stakedBalance[u] + n /\ totalStaked # 0
  BY <1>2, <1>3, <1>5
<1> HIDE DEF n, U
<1>7. claimBalance' - books'.accounted = 0
  BY <1>1, <1>2, <1>3
<1>8. Fair(totalStaked, stakedBalance, PaidFor(u), HeldBy(u), due,
           b.rewardPerToken, b.indexed - b.credited, 0, e + 5 * Unit)
  BY <1>1, Widens, FairWidens
<1>9. /\ Accounts(U, stakedBalance', PaidFor(u), HeldBy(u), due, b.rewardPerToken, b.indexed - b.credited, 0)
      /\ Fair(U, stakedBalance', PaidFor(u), HeldBy(u), due,
              b.rewardPerToken, b.indexed - b.credited, 0, e + 5 * Unit)
  <2> DEFINE f == e + 5 * Unit
             after == stakedBalance'
  <2>1. f \in Int /\ after = [stakedBalance EXCEPT ![u] = n]
    BY <1>2, Widens
  <2>2. Fair(totalStaked, stakedBalance, PaidFor(u), HeldBy(u), due,
             b.rewardPerToken, b.indexed - b.credited, 0, f)
    BY <1>8
  <2> HIDE DEF f, after
  <2>3. Accounts(U, after, PaidFor(u), HeldBy(u), due, b.rewardPerToken, b.indexed - b.credited, 0)
    BY <1>1, <1>6, <2>1, <2>2, RestakeIsFair
  <2>4. Fair(U, after, PaidFor(u), HeldBy(u), due, b.rewardPerToken, b.indexed - b.credited, 0, f)
    BY <1>1, <1>6, <2>1, <2>2, RestakeIsFair
  <2> QED
    BY <2>3, <2>4 DEF f, after
<1>10. Queue(U, b.queued, 0, waiting)
  <2>1. waiting = 0 /\ ACC * b.queued <= Margin
    BY <1>1, <1>6 DEF Queue
  <2>2. b.queued \in Nat /\ (b.queued + 0) - 0 = b.queued
    BY <1>1 DEF IntBooks
  <2>3. ACC * b.queued \in Nat
    BY <2>2, VaultAssumption
  <2>4. ACC * ((b.queued + 0) - waiting) = ACC * b.queued
    BY <2>1, <2>2
  <2> QED
    BY <2>1, <2>3, <2>4 DEF Queue
<1> QED
  BY <1>2, <1>3, <1>4, <1>7, <1>9, <1>10 DEF Standing

(* A stake credits the user before it adds to the stake. Into an empty     *)
(* vault it indexes the queue to the first staker, who is due all that     *)
(* waited.                                                                 *)
LEMMA StakeStands ==
  ASSUME CoveredInv, ExitInv, NEW e \in Int, Standing(e), NEW u \in Users, NEW amount \in Amounts,
         Stake(u, amount), totalStaked + amount <= LP_SUPPLY
  PROVE  Standing(e + 5 * Unit)'
<1> USE VaultAssumption
<1> DEFINE b == CreditTo(Checkpointed, u)
           opened == [b EXCEPT !.queued = 0]
           q == b.queued
           n == stakedBalance[u] + amount
           U == totalStaked + amount
           c == indexRewardsWithCarry(opened, q, U)
           rpt == b.rewardPerToken
           pool == b.indexed - b.credited
           inc == Raise(q, U)
           moved == Moved(q, U)
           after == stakedBalance'
           owed == due'
<1>1. /\ b \in IntBooks /\ b.accounted = claimBalance /\ PaidFor(u)[u] = b.rewardPerToken
      /\ Accounts(totalStaked, stakedBalance, PaidFor(u), HeldBy(u), due, rpt, pool, 0)
      /\ Fair(totalStaked, stakedBalance, PaidFor(u), HeldBy(u), due, rpt, pool, 0, e + 3 * Unit)
      /\ Queue(totalStaked, q, 0, waiting)
  <2> HIDE DEF b
  <2>1. b = CreditTo(Checkpointed, u)
    BY DEF b
  <2> QED
    BY <2>1, SettledIsFair
<1>2. /\ books' = c /\ rewards' = [rewards EXCEPT ![u] = Claimable(u)] /\ userRewardPerTokenPaid' = PaidFor(u)
      /\ stakedBalance' = [stakedBalance EXCEPT ![u] = n] /\ totalStaked' = U
      /\ claimBalance' = claimBalance /\ taken' = taken
      /\ IF totalStaked = 0
         THEN due' = [due EXCEPT ![u] = due[u] + waiting * DUE_SCALE] /\ waiting' = 0
         ELSE due' = due /\ waiting' = waiting
  BY DEF Stake, StakedBooks, Claimable, PaidFor
<1>3. /\ Claimable(u) \in Nat /\ rewards \in [Users -> Nat] /\ taken \in [Users -> Int]
      /\ waiting \in Nat /\ claimBalance \in Int /\ totalStaked \in Nat
      /\ stakedBalance \in [Users -> Nat] /\ stakedBalance[u] \in Nat
      /\ totalStaked = Sum(stakedBalance, Users) /\ due \in [Users -> Int]
  BY CreditedUser DEF CoveredInv, Standing, Accounts
<1>4. Held' = HeldBy(u) /\ taken' \in [Users -> Int]
  BY <1>2, <1>3, HeldAfter
<1>5. /\ q \in Nat /\ b.indexed \in Int /\ b.credited \in Int /\ rpt \in Int
      /\ opened \in IntBooks /\ opened.queued = 0 /\ opened.rewardPerToken = b.rewardPerToken
      /\ opened.indexed = b.indexed /\ opened.credited = b.credited /\ opened.accounted = b.accounted
  <2> HIDE DEF b
  <2> QED
    BY <1>1 DEF IntBooks
<1>6. amount \in Nat \ {0} /\ n \in Nat /\ U \in Nat \ {0} /\ U <= LP_SUPPLY
      /\ U = totalStaked - stakedBalance[u] + n
  BY <1>3
<1> HIDE DEF b, n, U, opened
<1>7. /\ c.rewardPerToken = rpt + inc /\ c.indexed = b.indexed + moved /\ c.queued = q - moved
      /\ c.credited = b.credited /\ c.accounted = claimBalance
  <2> HIDE DEF q
  <2> QED
    BY <1>1, <1>5, <1>6, IndexIs
<1> HIDE DEF q, c, pool
<1>8. /\ inc \in Nat /\ moved \in Nat /\ moved <= q /\ U * inc <= ACC * q /\ ACC * q - U * inc <= Margin
      /\ ACC * moved <= U * inc /\ U * inc <= ACC * moved + ACC /\ ACC * (q - moved) <= Margin
  BY <1>5, <1>6, RaiseIs
<1>9. /\ Accounts(U, after, PaidFor(u), HeldBy(u), due, rpt, pool, 0)
      /\ Fair(U, after, PaidFor(u), HeldBy(u), due, rpt, pool, 0, e + 3 * Unit)
  <2> DEFINE f == e + 3 * Unit
  <2>1. f \in Int /\ after = [stakedBalance EXCEPT ![u] = n] /\ PaidFor(u)[u] = rpt
    BY <1>1, <1>2, Widens
  <2>2. Fair(totalStaked, stakedBalance, PaidFor(u), HeldBy(u), due, rpt, pool, 0, f)
    BY <1>1
  <2> HIDE DEF f, after, rpt
  <2>3. Accounts(U, after, PaidFor(u), HeldBy(u), due, rpt, pool, 0)
    BY <1>1, <1>6, <2>1, <2>2, RestakeIsFair
  <2>4. Fair(U, after, PaidFor(u), HeldBy(u), due, rpt, pool, 0, f)
    BY <1>1, <1>6, <2>1, <2>2, RestakeIsFair
  <2> QED
    BY <2>3, <2>4 DEF f
<1>10. /\ owed \in [Users -> Int]
       /\ \A v \in Users : owed[v] = due[v] + (IF totalStaked = 0 /\ v = u THEN waiting * DUE_SCALE ELSE 0)
  <2>1. CASE totalStaked = 0
    <3> DEFINE x == waiting * DUE_SCALE
    <3>1. x \in Nat
      BY <1>3
    <3> HIDE DEF x
    <3>2. owed = [due EXCEPT ![u] = due[u] + x]
      BY <1>2, <2>1 DEF x
    <3>3. owed \in [Users -> Int] /\ \A v \in Users : owed[v] = due[v] + (IF v = u THEN x ELSE 0)
      BY <1>3, <3>1, <3>2
    <3> QED
      BY <2>1, <3>3 DEF x
  <2>2. CASE totalStaked # 0
    BY <1>2, <1>3, <2>2
  <2> QED
    BY <2>1, <2>2
<1> HIDE DEF owed, rpt
<1>11. after \in [Users -> Nat] /\ \A v \in Users : after[v] <= U
  <2>1. after \in [Users -> Nat] /\ U = Sum(after, Users)
    BY <1>9 DEF Accounts
  <2> HIDE DEF after
  <2> QED
    BY <2>1, PartOfTotal
<1>12. waiting' = 0 /\ (totalStaked # 0 => ACC * q <= Margin)
  BY <1>1, <1>2 DEF Queue
<1>13. ASSUME NEW v \in Users
       PROVE  LET x == ACC * (owed[v] - due[v]) + Pend(after[v], 0, U) - (DUE_SCALE * after[v]) * inc
              IN  x <= Unit /\ -x <= Unit
  <2> DEFINE y == (DUE_SCALE * after[v]) * inc
             z == ACC * (owed[v] - due[v])
  <2>1. Pend(after[v], 0, U) = 0 /\ after[v] \in Nat /\ due[v] \in Int
    BY <1>3, <1>6, <1>11, NothingPends
  <2>2. y \in Nat
    <3>1. \A m, k \in Nat : m * k \in Nat
      OBVIOUS
    <3>2. DUE_SCALE * after[v] \in Nat
      BY <2>1, <3>1
    <3> HIDE DEF inc, after
    <3> QED
      BY <1>8, <3>1, <3>2
  <2>3. z \in Int /\ z - y <= Unit /\ y - z <= Unit
    <3>1. CASE totalStaked # 0
      <4>1. z = 0
        <5>1. owed[v] - due[v] = 0
          BY <1>10, <2>1, <3>1
        <5> QED
          BY <5>1
      <4>2. y <= Unit
        <5>1. (DUE_SCALE * after[v]) * Raise(0 + q, U) - Pend(after[v], 0, U) <= Unit
          <6>1. 0 \in Nat /\ after[v] <= U
            BY <1>11
          <6> HIDE DEF after
          <6> QED
            BY <1>5, <1>6, <1>12, <2>1, <3>1, <6>1, RaisePaysPending
        <5>2. 0 + q = q
          BY <1>5
        <5>3. y - Pend(after[v], 0, U) <= Unit
          BY <5>1, <5>2
        <5> HIDE DEF y
        <5> QED
          BY <2>1, <2>2, <5>3
      <4> HIDE DEF y, z
      <4> QED
        BY <2>2, <4>1, <4>2, MarginIs
    <3>2. CASE totalStaked = 0 /\ v # u
      <4>1. z = 0
        <5>1. owed[v] - due[v] = 0
          BY <1>10, <2>1, <3>2
        <5> QED
          BY <5>1
      <4>2. y = 0
        <5>1. stakedBalance[v] <= 0 /\ stakedBalance[v] \in Nat
          BY <1>3, <3>2, PartOfTotal
        <5>2. after[v] = 0
          BY <1>2, <1>3, <3>2, <5>1
        <5> HIDE DEF after, inc
        <5> QED
          BY <1>8, <5>2
      <4> HIDE DEF y, z
      <4> QED
        BY <4>1, <4>2, MarginIs
    <3>3. CASE totalStaked = 0 /\ v = u
      <4> DEFINE k == ACC * waiting - U * inc
      <4>1. after[v] = U
        <5>1. stakedBalance[u] <= 0 /\ stakedBalance[u] \in Nat
          BY <1>3, <3>3, PartOfTotal
        <5>2. after[u] = n
          BY <1>2, <1>3
        <5> QED
          BY <1>3, <1>6, <3>3, <5>1, <5>2
      <4>2. owed[v] - due[v] = waiting * DUE_SCALE
        <5> DEFINE x == waiting * DUE_SCALE
        <5>1. x \in Nat
          BY <1>3
        <5> HIDE DEF x
        <5>2. owed[v] = due[v] + x
          BY <1>10, <3>3 DEF x
        <5>3. owed[v] - due[v] = x
          BY <2>1, <5>1, <5>2
        <5> QED
          BY <5>3 DEF x
      <4>3. ACC * q - ACC * waiting <= Margin /\ ACC * waiting <= ACC * q
            /\ ACC * q \in Int /\ ACC * waiting \in Int
        <5>1. 0 <= ACC * ((q + 0) - waiting) /\ ACC * ((q + 0) - waiting) <= Margin
          BY <1>1, <3>3 DEF Queue
        <5>2. ACC * ((q + 0) - waiting) = ACC * q - ACC * waiting /\ ACC * q \in Int /\ ACC * waiting \in Int
          BY <1>3, <1>5
        <5>3. Margin \in Int
          BY MarginIs
        <5> QED
          BY <5>1, <5>2, <5>3
      <4>4. U * inc \in Int /\ Margin \in Nat /\ k \in Int /\ k <= Margin /\ -k <= Margin
        <5>1. U * inc \in Int /\ Margin \in Nat
          BY <1>6, <1>8, MarginIs
        <5> QED
          BY <1>8, <4>3, <5>1
      <4>5. z = (DUE_SCALE * 1) * (ACC * waiting) /\ y = (DUE_SCALE * 1) * (U * inc)
        <5>1. \A i, j, l \in Int : i * (j * l) = (l * 1) * (i * j) /\ (l * i) * j = (l * 1) * (i * j)
          OBVIOUS
        <5> HIDE DEF inc, after
        <5>2. z = ACC * (waiting * DUE_SCALE) /\ y = (DUE_SCALE * U) * inc
          BY <4>1, <4>2
        <5> QED
          BY <1>3, <1>6, <1>8, <5>1, <5>2
      <4>6. z - y = (DUE_SCALE * 1) * k /\ y - z = (DUE_SCALE * 1) * (-k)
        <5>1. \A i, j, l \in Int : i * j - i * l = i * (j - l) /\ i * l - i * j = i * (-(j - l))
          OBVIOUS
        <5> HIDE DEF y, z
        <5> QED
          BY <4>3, <4>4, <4>5, <5>1
      <4>7. z \in Int
        <5> HIDE DEF z
        <5> QED
          BY <4>3, <4>5
      <4> HIDE DEF y, z, k
      <4>8. (DUE_SCALE * 1) * k <= 1 * Unit /\ (DUE_SCALE * 1) * (-k) <= 1 * Unit
        <5>1. -k \in Int
          BY <4>4
        <5>2. ASSUME NEW m \in Int, m <= Margin PROVE (DUE_SCALE * 1) * m <= 1 * Unit
          <6>1. 1 \in Nat /\ 1 <= 1
            OBVIOUS
          <6> QED
            BY <5>2, <6>1, PartOfMargin
        <5> QED
          BY <4>4, <5>1, <5>2
      <4>9. 1 * Unit = Unit
        BY MarginIs
      <4> QED
        BY <4>6, <4>7, <4>8, <4>9
    <3> QED
      BY <3>1, <3>2, <3>3
  <2> HIDE DEF y, z
  <2>4. z + 0 - y <= Unit /\ -(z + 0 - y) <= Unit
    BY <2>2, <2>3
  <2> QED
    BY <2>1, <2>4 DEF y, z
<1>14. /\ Accounts(U, after, PaidFor(u), HeldBy(u), owed, rpt + inc, pool + moved, 0)
       /\ Fair(U, after, PaidFor(u), HeldBy(u), owed, rpt + inc, pool + moved, 0, e + 5 * Unit)
  <2> DEFINE f == e + 3 * Unit
  <2>1. f \in Int /\ f + 2 * Unit = e + 5 * Unit
    BY Widens
  <2>2. Fair(U, after, PaidFor(u), HeldBy(u), due, rpt, pool, 0, f)
    BY <1>9
  <2> HIDE DEF f, inc, moved, after
  <2>3. Accounts(U, after, PaidFor(u), HeldBy(u), owed, rpt + inc, pool + moved, 0)
    BY <1>8, <1>9, <1>10, <1>13, <2>1, <2>2, RaiseIsFair
  <2>4. Fair(U, after, PaidFor(u), HeldBy(u), owed, rpt + inc, pool + moved, 0, f + 2 * Unit)
    BY <1>8, <1>9, <1>10, <1>13, <2>1, <2>2, RaiseIsFair
  <2> QED
    BY <2>1, <2>3, <2>4
<1> HIDE DEF inc, moved
<1>15. pool + moved = c.indexed - c.credited /\ claimBalance' - c.accounted = 0
  BY <1>2, <1>3, <1>5, <1>7, <1>8 DEF pool
<1>16. Queue(U, c.queued, 0, 0)
  BY <1>6, <1>7, <1>8 DEF Queue
<1> QED
  BY <1>2, <1>4, <1>7, <1>12, <1>14, <1>15, <1>16 DEF Standing, owed

(* CLAIM arrives at books b, and may be noticed at once. *)
LEMMA NoticeStands ==
  ASSUME NEW b, Covers(claimBalance, b), claimBalance \in Int, waiting \in Nat, NEW f \in Int,
         NEW amount \in Nat, Arrives(amount), claimBalance' = claimBalance + amount,
         Accounts(totalStaked, stakedBalance, userRewardPerTokenPaid, Held, due,
                 b.rewardPerToken, b.indexed - b.credited, claimBalance - b.accounted),
         Fair(totalStaked, stakedBalance, userRewardPerTokenPaid, Held, due,
             b.rewardPerToken, b.indexed - b.credited, claimBalance - b.accounted, f),
         Queue(totalStaked, b.queued, claimBalance - b.accounted, waiting),
         NEW c, c = b \/ c = checkpointRewards(b, claimBalance', totalStaked)
  PROVE  /\ waiting' \in Nat
         /\ Accounts(totalStaked, stakedBalance, userRewardPerTokenPaid, Held, due',
                     c.rewardPerToken, c.indexed - c.credited, claimBalance' - c.accounted)
         /\ Fair(totalStaked, stakedBalance, userRewardPerTokenPaid, Held, due',
                 c.rewardPerToken, c.indexed - c.credited, claimBalance' - c.accounted, f + 3 * Unit)
         /\ Queue(totalStaked, c.queued, claimBalance' - c.accounted, waiting')
<1> DEFINE delta == claimBalance - b.accounted
           rpt == b.rewardPerToken
           pool == b.indexed - b.credited
           q == b.queued
           owed == due'
           wait == waiting'
           bal == claimBalance'
<1>1. q \in Nat /\ b.accounted \in Int /\ bal \in Int /\ bal >= claimBalance
  BY DEF Covers, IntBooks
<1>2. /\ wait \in Nat
      /\ Accounts(totalStaked, stakedBalance, userRewardPerTokenPaid, Held, owed, rpt, pool, delta + amount)
      /\ Fair(totalStaked, stakedBalance, userRewardPerTokenPaid, Held, owed, rpt, pool, delta + amount, f + Unit)
      /\ Queue(totalStaked, q, delta + amount, wait)
  <2>1. /\ Accounts(totalStaked, stakedBalance, userRewardPerTokenPaid, Held, due, rpt, pool, delta)
        /\ Fair(totalStaked, stakedBalance, userRewardPerTokenPaid, Held, due, rpt, pool, delta, f)
        /\ Queue(totalStaked, q, delta, waiting)
    OBVIOUS
  <2> HIDE DEF delta, rpt, pool, q
  <2>2. Accounts(totalStaked, stakedBalance, userRewardPerTokenPaid, Held, due', rpt, pool, delta + amount)
    BY <1>1, <2>1, ArrivalStands
  <2>3. Fair(totalStaked, stakedBalance, userRewardPerTokenPaid, Held, due', rpt, pool, delta + amount, f + Unit)
    BY <1>1, <2>1, ArrivalStands
  <2>4. Queue(totalStaked, q, delta + amount, waiting')
    BY <1>1, <2>1, ArrivalStands
  <2>5. waiting' \in Nat
    BY DEF Arrives
  <2> QED
    BY <2>2, <2>3, <2>4, <2>5
<1>3. delta + amount = bal - b.accounted
  BY <1>1
<1>4. Covers(bal, b)
  BY <1>1 DEF Covers, IntBooks
<1> HIDE DEF delta, owed, wait, bal
<1>5. /\ Accounts(totalStaked, stakedBalance, userRewardPerTokenPaid, Held, owed,
                  b.rewardPerToken, b.indexed - b.credited, bal - b.accounted)
      /\ Fair(totalStaked, stakedBalance, userRewardPerTokenPaid, Held, owed,
              b.rewardPerToken, b.indexed - b.credited, bal - b.accounted, f + Unit)
      /\ Queue(totalStaked, b.queued, bal - b.accounted, wait)
  BY <1>2, <1>3
<1>6. CASE c = b
  <2>1. f + Unit \in Int /\ f + 3 * Unit \in Int /\ f + Unit <= f + 3 * Unit
    BY MarginIs
  <2>2. Fair(totalStaked, stakedBalance, userRewardPerTokenPaid, Held, owed,
             b.rewardPerToken, b.indexed - b.credited, bal - b.accounted, f + 3 * Unit)
    BY <1>5, <2>1, FairWidens
  <2> QED
    BY <1>2, <1>5, <1>6, <2>2 DEF owed, wait, bal
<1>7. CASE c = checkpointRewards(b, bal, totalStaked)
  <2> DEFINE g == f + Unit
  <2>1. g \in Int /\ g + 2 * Unit = f + 3 * Unit
    BY Widens
  <2>2. /\ Accounts(totalStaked, stakedBalance, userRewardPerTokenPaid, Held, owed,
                    b.rewardPerToken, b.indexed - b.credited, bal - b.accounted)
        /\ Fair(totalStaked, stakedBalance, userRewardPerTokenPaid, Held, owed,
                b.rewardPerToken, b.indexed - b.credited, bal - b.accounted, g)
        /\ Queue(totalStaked, b.queued, bal - b.accounted, wait)
    BY <1>5
  <2> HIDE DEF g
  <2>3. Accounts(totalStaked, stakedBalance, userRewardPerTokenPaid, Held, owed,
                 c.rewardPerToken, c.indexed - c.credited, 0)
    BY <1>1, <1>2, <1>4, <1>7, <2>1, <2>2, CheckpointIsFair
  <2>4. Fair(totalStaked, stakedBalance, userRewardPerTokenPaid, Held, owed,
             c.rewardPerToken, c.indexed - c.credited, 0, g + 2 * Unit)
    BY <1>1, <1>2, <1>4, <1>7, <2>1, <2>2, CheckpointIsFair
  <2>5. Queue(totalStaked, c.queued, 0, wait)
    BY <1>1, <1>2, <1>4, <1>7, <2>1, <2>2, CheckpointIsFair
  <2>6. c.accounted = bal
    <3> DEFINE k == (bal - b.accounted) + b.queued
    <3>1. totalStaked \in Nat /\ k = (bal - b.accounted) + b.queued
      BY DEF Accounts
    <3> HIDE DEF k
    <3> QED
      BY <1>1, <1>4, <1>7, <3>1, CheckpointIs
  <2>7. bal - c.accounted = 0
    BY <1>1, <2>6
  <2> QED
    BY <1>2, <2>1, <2>3, <2>4, <2>5, <2>7 DEF owed, wait, bal
<1> QED
  BY <1>6, <1>7 DEF bal

(* CLAIM that comes with the fees or from outside, noticed or not. *)
LEMMA FundingStands ==
  ASSUME CoveredInv, NEW e \in Int, Standing(e), NEW amount \in Transfers,
         HarvestFeesToRewards(amount) \/ \E notified \in BOOLEAN : ClaimArrives(amount, notified)
  PROVE  Standing(e + 5 * Unit)'
<1> USE VaultAssumption
<1>1. /\ amount \in Nat /\ claimBalance' = claimBalance + amount /\ Arrives(amount)
      /\ totalStaked' = totalStaked /\ stakedBalance' = stakedBalance /\ rewards' = rewards
      /\ userRewardPerTokenPaid' = userRewardPerTokenPaid /\ taken' = taken
  BY DEF HarvestFeesToRewards, ClaimArrives, stakeVars
<1>2. Held' = Held
  BY <1>1 DEF Held
<1>3. /\ claimBalance \in Int /\ Covers(claimBalance, books) /\ Covers(claimBalance, Checkpointed)
      /\ waiting \in Nat /\ taken \in [Users -> Int] /\ Checkpointed.accounted = claimBalance
  BY CheckpointedCovers, CheckpointedIsFair DEF CoveredInv, Standing
<1>4. \/ books' = books \/ books' = checkpointRewards(books, claimBalance', totalStaked)
      \/ books' = checkpointRewards(Checkpointed, claimBalance', totalStaked)
  BY <1>1 DEF HarvestFeesToRewards, ClaimArrives, BooksBeforeHarvest
<1>5. ASSUME NEW b, NEW f \in Int, Covers(claimBalance, b), f + 3 * Unit <= e + 5 * Unit,
             Accounts(totalStaked, stakedBalance, userRewardPerTokenPaid, Held, due,
                     b.rewardPerToken, b.indexed - b.credited, claimBalance - b.accounted),
             Fair(totalStaked, stakedBalance, userRewardPerTokenPaid, Held, due,
                 b.rewardPerToken, b.indexed - b.credited, claimBalance - b.accounted, f),
             Queue(totalStaked, b.queued, claimBalance - b.accounted, waiting),
             books' = b \/ books' = checkpointRewards(b, claimBalance', totalStaked)
      PROVE  Standing(e + 5 * Unit)'
  <2> DEFINE c == books'
  <2>1. c = b \/ c = checkpointRewards(b, claimBalance', totalStaked)
    BY <1>5
  <2> HIDE DEF c
  <2>2. Accounts(totalStaked, stakedBalance, userRewardPerTokenPaid, Held, due',
                 c.rewardPerToken, c.indexed - c.credited, claimBalance' - c.accounted)
    BY <1>1, <1>3, <1>5, <2>1, NoticeStands
  <2>3. Fair(totalStaked, stakedBalance, userRewardPerTokenPaid, Held, due',
             c.rewardPerToken, c.indexed - c.credited, claimBalance' - c.accounted, f + 3 * Unit)
    BY <1>1, <1>3, <1>5, <2>1, NoticeStands
  <2>4. Queue(totalStaked, c.queued, claimBalance' - c.accounted, waiting')
    BY <1>1, <1>3, <1>5, <2>1, NoticeStands
  <2>5. waiting' \in Nat
    BY <1>1, <1>3 DEF Arrives
  <2>6. f + 3 * Unit \in Int /\ e + 5 * Unit \in Int
    BY MarginIs
  <2>7. Fair(totalStaked, stakedBalance, userRewardPerTokenPaid, Held, due',
             c.rewardPerToken, c.indexed - c.credited, claimBalance' - c.accounted, e + 5 * Unit)
    BY <1>5, <2>2, <2>3, <2>6, FairWidens
  <2> QED
    BY <1>1, <1>2, <1>3, <2>2, <2>4, <2>5, <2>7 DEF Standing, c
<1>6. CASE books' = books \/ books' = checkpointRewards(books, claimBalance', totalStaked)
  <2>1. e + 3 * Unit <= e + 5 * Unit
    BY Widens
  <2>2. /\ Accounts(totalStaked, stakedBalance, userRewardPerTokenPaid, Held, due,
                    books.rewardPerToken, books.indexed - books.credited, claimBalance - books.accounted)
        /\ Fair(totalStaked, stakedBalance, userRewardPerTokenPaid, Held, due,
                books.rewardPerToken, books.indexed - books.credited, claimBalance - books.accounted, e)
        /\ Queue(totalStaked, books.queued, claimBalance - books.accounted, waiting)
    BY DEF Standing
  <2> QED
    BY <1>3, <1>5, <1>6, <2>1, <2>2
<1>7. CASE books' = checkpointRewards(Checkpointed, claimBalance', totalStaked)
  <2> DEFINE c == Checkpointed
             f == e + 2 * Unit
  <2>1. /\ Accounts(totalStaked, stakedBalance, userRewardPerTokenPaid, Held, due,
                    c.rewardPerToken, c.indexed - c.credited, 0)
        /\ Fair(totalStaked, stakedBalance, userRewardPerTokenPaid, Held, due,
                c.rewardPerToken, c.indexed - c.credited, 0, f)
        /\ Queue(totalStaked, c.queued, 0, waiting)
    BY CheckpointedIsFair
  <2>2. claimBalance - c.accounted = 0
    BY <1>3
  <2>3. f \in Int /\ f + 3 * Unit <= e + 5 * Unit
    BY MarginIs
  <2> HIDE DEF c, f
  <2>4. Covers(claimBalance, c) /\ books' = checkpointRewards(c, claimBalance', totalStaked)
    BY <1>3, <1>7 DEF c
  <2> QED
    BY <1>5, <2>1, <2>2, <2>3, <2>4
<1> QED
  BY <1>4, <1>6, <1>7

(* A step that touches no stake and no reward. *)
LEMMA RestStands ==
  ASSUME NEW e \in Int, Standing(e), NEW f \in Int, e <= f,
         UNCHANGED <<stakeVars, rewardVars, claimBalance, taken, due, waiting>>
  PROVE  Standing(f)'
<1>1. /\ totalStaked' = totalStaked /\ stakedBalance' = stakedBalance /\ rewards' = rewards
      /\ userRewardPerTokenPaid' = userRewardPerTokenPaid /\ books' = books
      /\ claimBalance' = claimBalance /\ taken' = taken /\ due' = due /\ waiting' = waiting
  BY DEF stakeVars, rewardVars
<1>2. Held' = Held
  BY <1>1 DEF Held
<1>3. Fair(totalStaked, stakedBalance, userRewardPerTokenPaid, Held, due,
           books.rewardPerToken, books.indexed - books.credited, claimBalance - books.accounted, f)
  <2> DEFINE rpt == books.rewardPerToken
             pool == books.indexed - books.credited
             delta == claimBalance - books.accounted
  <2>1. /\ Accounts(totalStaked, stakedBalance, userRewardPerTokenPaid, Held, due, rpt, pool, delta)
        /\ Fair(totalStaked, stakedBalance, userRewardPerTokenPaid, Held, due, rpt, pool, delta, e)
    BY DEF Standing
  <2> HIDE DEF rpt, pool, delta
  <2>2. Fair(totalStaked, stakedBalance, userRewardPerTokenPaid, Held, due, rpt, pool, delta, f)
    BY <2>1, FairWidens
  <2> QED
    BY <2>2 DEF rpt, pool, delta
<1> QED
  BY <1>1, <1>2, <1>3 DEF Standing

(* The vault holds the LP of all stakes. *)
LEMMA StakesAreHeld == CoveredInv /\ ExitInv => totalStaked <= lpBalance
<1> SUFFICES ASSUME CoveredInv, ExitInv PROVE totalStaked <= lpBalance
  OBVIOUS
<1>1. ASSUME NEW u \in Users PROVE Leaving[u] \in Nat
  <2> DEFINE q == unbonds[u]
             f == [k \in DOMAIN q |-> Whole[q[k]]]
  <2>1. q \in Seq(Unbond)
    BY DEF ExitInv
  <2>2. Leaving[u] = Sum(f, DOMAIN q)
    BY DEF Leaving, Weighed
  <2> HIDE DEF q
  <2>3. \A k \in DOMAIN q : f[k] \in Nat
    <3> SUFFICES ASSUME NEW k \in DOMAIN q PROVE Whole[q[k]] \in Nat
      OBVIOUS
    <3>1. q[k] \in Unbond
      BY <2>1
    <3> QED
      BY <3>1 DEF Whole, Unbond
  <2>4. IsFiniteSet(DOMAIN q)
    BY <2>1, IntervalIsFinite
  <2> HIDE DEF f
  <2> QED
    BY <2>2, <2>3, <2>4, SumIsNat
<1>2. Sum(Leaving, Users) \in Nat
  BY <1>1, SumIsNat, VaultAssumption
<1> QED
  BY <1>2 DEF ExitInv, CoveredInv

(* The inductive step: a counted transaction adds at most five units of    *)
(* error, and any other step adds none.                                    *)
LEMMA StepStands ==
  ASSUME CoveredInv, ExitInv, transactions \in Nat, NEW e \in Int, Standing(e), [Next]_vars
  PROVE  \/ transactions' = transactions + 1 /\ Standing(e + 5 * Unit)'
         \/ transactions' = transactions /\ Standing(e)'
<1> USE VaultAssumption
<1> DEFINE Counted == transactions' = transactions + 1
           Rests == UNCHANGED <<stakeVars, rewardVars, claimBalance, taken, due, waiting>>
<1>1. e + 5 * Unit \in Int /\ e <= e + 5 * Unit
  BY Widens
<1>2. ASSUME Rests, Counted \/ transactions' = transactions
      PROVE  \/ Counted /\ Standing(e + 5 * Unit)'
             \/ transactions' = transactions /\ Standing(e)'
  <2>1. Standing(e)'
    BY <1>2, RestStands
  <2>2. Standing(e + 5 * Unit)'
    <3> DEFINE f == e + 5 * Unit
    <3>1. f \in Int /\ e <= f
      BY <1>1
    <3> HIDE DEF f
    <3>2. Standing(f)'
      BY <1>2, <3>1, RestStands
    <3> QED
      BY <3>2 DEF f
  <2> QED
    BY <1>2, <2>1, <2>2
<1>3. ASSUME NEW amount \in Transfers,
             HarvestFeesToRewards(amount) \/ \E notified \in BOOLEAN : ClaimArrives(amount, notified)
      PROVE  Counted /\ Standing(e + 5 * Unit)'
  <2>1. Counted
    BY <1>3 DEF HarvestFeesToRewards, ClaimArrives, Transact
  <2> QED
    BY <1>3, <2>1, FundingStands
<1>4. ASSUME NEW u \in Users, NEW amount \in Amounts, Stake(u, amount)
      PROVE  Counted /\ Standing(e + 5 * Unit)'
  <2>1. Counted /\ lpBalance + amount <= LP_SUPPLY
    BY <1>4 DEF Stake, Transact
  <2>2. totalStaked + amount <= LP_SUPPLY
    <3>1. totalStaked <= lpBalance /\ totalStaked \in Nat /\ lpBalance \in Int /\ amount \in Nat
      BY StakesAreHeld DEF CoveredInv, ExitInv
    <3> QED
      BY <2>1, <3>1
  <2> QED
    BY <1>4, <2>1, <2>2, StakeStands
<1>5. ASSUME NEW u \in Users, NEW amount \in Amounts, BeginUnbond(u, amount)
      PROVE  Counted /\ Standing(e + 5 * Unit)'
  <2>1. Counted
    BY <1>5 DEF BeginUnbond, Transact
  <2> QED
    BY <1>5, <2>1, UnbondStands
<1>6. ASSUME NEW u \in Users, NEW nested \in Transfers \cup {0},
             ClaimRewards(u) \/ ClaimRewardsAndLock(u, nested)
      PROVE  Counted /\ Standing(e + 5 * Unit)'
  <2>1. Counted /\ UNCHANGED stakeVars
    BY <1>6 DEF ClaimRewards, ClaimRewardsAndLock, Transact
  <2>2. \E n \in Nat : Pays(u, Claimable(u), n)
    BY <1>6 DEF ClaimRewards, ClaimRewardsAndLock
  <2> QED
    BY <2>1, <2>2, PayStands
<1>7. ASSUME NEW u \in Users, NEW nested \in Transfers \cup {0}, CompoundFor(u, nested)
      PROVE  Counted /\ Standing(e + 5 * Unit)'
  <2>1. Counted /\ UNCHANGED stakeVars
    BY <1>7 DEF CompoundFor, Transact
  <2>2. CASE CompoundMisdirected(u)
    <3>1. Rests
      BY <2>1, <2>2 DEF CompoundMisdirected
    <3>2. Counted
      BY <2>1
    <3>3. transactions' # transactions
      <4>1. transactions' = transactions + 1 /\ transactions < MaxTransactions
        BY <1>7 DEF CompoundFor, Transact
      <4> QED
        BY <4>1
    <3> HIDE DEF Rests, Counted
    <3> QED
      BY <1>2, <3>1, <3>2, <3>3
  <2>3. CASE CompoundSkipped(u) \/ CompoundRejected(u)
    <3>1. Credit(Checkpointed, u) /\ UNCHANGED <<stakeVars, claimBalance, taken, due, waiting>>
      BY <2>1, <2>3 DEF CompoundSkipped, CompoundRejected
    <3> QED
      BY <2>1, <3>1, CreditStands
  <2>4. CASE CompoundEntered(u, nested)
    <3>1. nested \in Nat /\ Pays(u, Claimable(u), nested)
      BY <2>4 DEF CompoundEntered
    <3> QED
      BY <2>1, <3>1, PayStands
  <2> QED
    BY <1>7, <2>2, <2>3, <2>4 DEF CompoundFor
<1>8. CASE Tick \/ UNCHANGED vars
  <2>1. Rests /\ transactions' = transactions
    BY <1>8 DEF Tick, vars, arrivalVars
  <2> HIDE DEF Rests
  <2> QED
    BY <1>2, <2>1
<1>9. ASSUME NEW u \in Users, WithdrawMatured(u) \/ \E enabled \in BOOLEAN : SetAutoCompoundConfig(u, enabled)
      PROVE  \/ Counted /\ Standing(e + 5 * Unit)'
             \/ transactions' = transactions /\ Standing(e)'
  <2>1. Rests /\ (Counted \/ transactions' = transactions)
    BY <1>9 DEF WithdrawMatured, SetAutoCompoundConfig, Transact, arrivalVars
  <2> HIDE DEF Rests
  <2> QED
    BY <1>2, <2>1
<1> HIDE DEF Rests, Counted
<1> DEFINE Goal == \/ Counted /\ Standing(e + 5 * Unit)'
                   \/ transactions' = transactions /\ Standing(e)'
<1>10. Goal
  <2>1. ASSUME NEW u \in Users,
               \/ \E amount \in Amounts : Stake(u, amount) \/ BeginUnbond(u, amount)
               \/ WithdrawMatured(u) \/ ClaimRewards(u)
               \/ \E nested \in Transfers \cup {0} : ClaimRewardsAndLock(u, nested) \/ CompoundFor(u, nested)
               \/ \E enabled \in BOOLEAN : SetAutoCompoundConfig(u, enabled)
        PROVE  Goal
    <3>1. CASE \E amount \in Amounts : Stake(u, amount) \/ BeginUnbond(u, amount)
      BY <1>4, <1>5, <3>1, Zenon
    <3>2. CASE WithdrawMatured(u) \/ \E enabled \in BOOLEAN : SetAutoCompoundConfig(u, enabled)
      BY <1>9, <3>2, Zenon
    <3>3. CASE ClaimRewards(u)
      <4>1. 0 \in Transfers \cup {0}
        OBVIOUS
      <4> QED
        BY <1>6, <3>3, <4>1, Zenon
    <3>4. CASE \E nested \in Transfers \cup {0} : ClaimRewardsAndLock(u, nested) \/ CompoundFor(u, nested)
      BY <1>6, <1>7, <3>4, Zenon
    <3> QED
      BY <2>1, <3>1, <3>2, <3>3, <3>4, Zenon
  <2>2. CASE \E amount \in Transfers :
               HarvestFeesToRewards(amount) \/ \E notified \in BOOLEAN : ClaimArrives(amount, notified)
    BY <1>3, <2>2, Zenon
  <2>3. CASE Tick \/ UNCHANGED vars
    BY <1>8, <2>3, Zenon DEF Counted, Goal
  <2> HIDE DEF Goal
  <2>4. CASE Next
    BY <2>1, <2>2, <2>4, <2>3, Zenon DEF Next
  <2> QED
    BY <2>3, <2>4
<1> QED
  BY <1>10 DEF Counted, Goal

(* Before the first transaction nobody staked, nothing came and none is due. *)
Untouched ==
  /\ totalStaked = 0 /\ stakedBalance = None /\ rewards = None /\ userRewardPerTokenPaid = None
  /\ books = [rewardPerToken |-> 0, queued |-> 0, indexed |-> 0, accounted |-> 0, credited |-> 0]
  /\ claimBalance = 0 /\ taken = None /\ due = None /\ waiting = 0

(* The inductive invariant: five units of error for each transaction. *)
FairInv ==
  /\ transactions = 0 => Untouched
  /\ \E n \in Nat : transactions = n /\ Standing(5 * (n * Unit))

(* A vault nobody used is fair. *)
LEMMA StartStands == Init => FairInv
<1> SUFFICES ASSUME Init PROVE FairInv
  OBVIOUS
<1> USE VaultAssumption
<1>1. Untouched /\ transactions = 0
  BY DEF Init, Untouched
<1>2. /\ totalStaked = 0 /\ stakedBalance \in [Users -> Nat] /\ userRewardPerTokenPaid \in [Users -> Int]
      /\ taken \in [Users -> Int] /\ due \in [Users -> Int] /\ waiting = 0
      /\ \A u \in Users : stakedBalance[u] = 0 /\ userRewardPerTokenPaid[u] = 0
      /\ \A u \in Users : taken[u] = 0 /\ rewards[u] = 0 /\ due[u] = 0
      /\ claimBalance = 0 /\ books.rewardPerToken = 0 /\ books.queued = 0 /\ books.indexed = 0
      /\ books.accounted = 0 /\ books.credited = 0
  BY <1>1 DEF Untouched, None
<1>3. Held \in [Users -> Int] /\ \A u \in Users : Held[u] = 0
  BY <1>2 DEF Held
<1>4. Sum(stakedBalance, Users) = 0
  BY <1>2, SumOfZeroes
<1>5. Accounts(0, stakedBalance, userRewardPerTokenPaid, Held, due, 0, 0, 0)
  BY <1>2, <1>3, <1>4 DEF Accounts
<1>6. \A m \in Int : m * 0 = 0 /\ 0 * m = 0
  OBVIOUS
<1>7. Slack(stakedBalance, userRewardPerTokenPaid, 0, 0) = 0
  <2> DEFINE f == Accrual(stakedBalance, userRewardPerTokenPaid, 0)
  <2>1. \A u \in Users : f[u] = 0
    BY <1>2 DEF Accrual
  <2> HIDE DEF f
  <2>2. Sum(f, Users) = 0
    BY <2>1, SumOfZeroes
  <2> QED
    BY <1>6, <2>2 DEF Slack, f
<1>8. Fair(0, stakedBalance, userRewardPerTokenPaid, Held, due, 0, 0, 0, 0)
  <2> SUFFICES ASSUME NEW u \in Users
               PROVE  Within(Gap(stakedBalance[u], userRewardPerTokenPaid[u], Held[u], due[u], 0, 0, 0),
                             DUE_SCALE * Slack(stakedBalance, userRewardPerTokenPaid, 0, 0), 0)
    BY DEF Fair
  <2>1. Gap(0, 0, 0, 0, 0, 0, 0) = 0
    BY <1>6 DEF Gap, Pend
  <2> QED
    BY <1>2, <1>3, <1>6, <1>7, <2>1 DEF Within
<1>9. Queue(0, 0, 0, 0)
  BY <1>6, MarginIs DEF Queue
<1>10. 5 * (0 * Unit) = 0 /\ 0 - 0 = 0
  BY MarginIs
<1>11. Standing(5 * (0 * Unit))
  BY <1>2, <1>5, <1>8, <1>9, <1>10 DEF Standing
<1> QED
  BY <1>1, <1>11 DEF FairInv

(* The invariant holds in every state. *)
LEMMA FairHolds == Spec => []FairInv
<1>1. CoveredInv /\ ExitInv /\ FairInv /\ [Next]_vars => FairInv'
  <2> SUFFICES ASSUME CoveredInv, ExitInv, FairInv, [Next]_vars PROVE FairInv'
    OBVIOUS
  <2>1. PICK n \in Nat : transactions = n /\ Standing(5 * (n * Unit))
    BY DEF FairInv
  <2> DEFINE e == 5 * (n * Unit)
  <2>2. Unit \in Nat /\ e \in Int /\ 5 * ((n + 1) * Unit) = e + 5 * Unit
    <3>1. Unit \in Nat
      BY MarginIs
    <3>2. \A k \in Nat : 5 * ((n + 1) * k) = 5 * (n * k) + 5 * k /\ 5 * (n * k) \in Int
      OBVIOUS
    <3> QED
      BY <3>1, <3>2
  <2>3. Standing(e)
    BY <2>1
  <2> HIDE DEF e
  <2>4. \/ transactions' = transactions + 1 /\ Standing(e + 5 * Unit)'
        \/ transactions' = transactions /\ Standing(e)'
    BY <2>1, <2>2, <2>3, StepStands
  <2>5. \E k \in Nat : transactions' = k /\ Standing(5 * (k * Unit))'
    <3>1. CASE transactions' = transactions + 1 /\ Standing(e + 5 * Unit)'
      <4>1. n + 1 \in Nat /\ transactions' = n + 1 /\ Standing(5 * ((n + 1) * Unit))'
        BY <2>1, <2>2, <3>1
      <4> QED
        BY <4>1
    <3>2. CASE transactions' = transactions /\ Standing(e)'
      BY <2>1, <3>2 DEF e
    <3> QED
      BY <2>4, <3>1, <3>2
  <2>6. transactions' = 0 => Untouched'
    <3> SUFFICES ASSUME transactions' = 0 PROVE Untouched'
      OBVIOUS
    <3>1. ~Transact /\ Untouched
      <4>1. \A m \in Nat : m + 1 # 0
        OBVIOUS
      <4>2. transactions = 0
        BY <2>1, <2>4, <4>1
      <4> QED
        BY <2>1, <4>1, <4>2 DEF Transact, FairInv
    <3>2. \/ Tick \/ UNCHANGED vars
          \/ \E u \in Users, enabled \in BOOLEAN : SetAutoCompoundConfig(u, enabled)
      BY <3>1 DEF Next, HarvestFeesToRewards, ClaimArrives, Stake, BeginUnbond, WithdrawMatured,
                  ClaimRewards, ClaimRewardsAndLock, CompoundFor
    <3>3. UNCHANGED <<stakeVars, rewardVars, claimBalance, taken, due, waiting>>
      BY <3>2 DEF Tick, vars, SetAutoCompoundConfig, arrivalVars
    <3> QED
      BY <3>1, <3>3 DEF Untouched, stakeVars, rewardVars
  <2> QED
    BY <2>5, <2>6 DEF FairInv
<1> QED
  BY <1>1, StartStands, CoveredInvHolds, ExitInvHolds, PTL DEF Spec

(* A vault nobody used shows nothing and owes nothing. *)
LEMMA NothingShown ==
  ASSUME Untouched, NEW u \in Users
  PROVE  earned(u) = 0 /\ taken[u] = 0 /\ due[u] = 0
<1> USE VaultAssumption
<1>1. /\ rewards[u] = 0 /\ taken[u] = 0 /\ due[u] = 0 /\ stakedBalance[u] = 0 /\ userRewardPerTokenPaid[u] = 0
      /\ totalStaked = 0
      /\ books.rewardPerToken = 0 /\ books.indexed = 0 /\ books.credited = 0
  BY DEF Untouched, None
<1>2. /\ 0 * 0 = 0 /\ 0 \div ACC = 0 /\ 0 + 0 = 0 /\ 0 - 0 = 0 /\ Projected(0, 0) = 0
      /\ ~(0 > 0)
  BY DEF Projected
<1>3. earned(u) = 0
  BY <1>1, <1>2 DEF earned
<1> QED
  BY <1>1, <1>3

(* The view shows what a checkpoint and a credit would pay, and is as      *)
(* fair.                                                                   *)
LEMMA ShownIsFair ==
  ASSUME CoveredInv, NEW e \in Int, Standing(e), NEW u \in Users
  PROVE  LET d == due[u] - (taken[u] + earned(u)) * DUE_SCALE
         IN  d \in Int /\ ACC * d <= e + 3 * Unit /\ ACC * (-d) <= e + 3 * Unit
<1> USE VaultAssumption
<1> DEFINE b == CreditTo(Checkpointed, u)
           x == taken[u] + Claimable(u)
           rpt == b.rewardPerToken
           pool == b.indexed - b.credited
           slack == DUE_SCALE * Slack(stakedBalance, PaidFor(u), rpt, pool)
           gap == Gap(stakedBalance[u], PaidFor(u)[u], HeldBy(u)[u], due[u], rpt, 0, totalStaked)
<1>1. /\ PaidFor(u)[u] = rpt
      /\ Accounts(totalStaked, stakedBalance, PaidFor(u), HeldBy(u), due, rpt, pool, 0)
      /\ Fair(totalStaked, stakedBalance, PaidFor(u), HeldBy(u), due, rpt, pool, 0, e + 3 * Unit)
  <2> HIDE DEF b
  <2>1. b = CreditTo(Checkpointed, u)
    BY DEF b
  <2> QED
    BY <2>1, SettledIsFair
<1> HIDE DEF b
<1>2. Within(gap, slack, e + 3 * Unit)
  BY <1>1 DEF Fair
<1>3. /\ stakedBalance[u] \in Nat /\ due[u] \in Int /\ rpt \in Int /\ totalStaked \in Nat
      /\ gap \in Int
  <2>1. gap \in Int
    BY <1>1, Typed
  <2> QED
    BY <1>1, <2>1 DEF Accounts
<1>4. HeldBy(u)[u] = x /\ x \in Int
  <2>1. taken[u] \in Int /\ Claimable(u) \in Nat
    BY CreditedUser DEF Standing
  <2>2. HeldBy(u)[u] = x
    BY DEF HeldBy, Held
  <2> QED
    BY <2>1, <2>2
<1> HIDE DEF x, rpt
<1>5. gap = ACC * due[u] - DUE_SCALE * (ACC * x + stakedBalance[u] * (rpt - rpt)) - 0
  <2>1. Pend(stakedBalance[u], 0, totalStaked) = 0
    BY <1>3, NothingPends
  <2> QED
    BY <1>1, <1>4, <2>1 DEF Gap
<1>6. gap = ACC * (due[u] - x * DUE_SCALE)
  <2>1. stakedBalance[u] * (rpt - rpt) = 0
    BY <1>3
  <2>2. \A a, d, h, k \in Int : a * k - d * (a * h + 0) - 0 = a * (k - h * d)
    OBVIOUS
  <2> HIDE DEF gap
  <2> QED
    BY <1>3, <1>4, <1>5, <2>1, <2>2
<1>7. earned(u) = Claimable(u)
  BY ShownIsClaimable
<1> DEFINE d == due[u] - x * DUE_SCALE
<1>8. d \in Int /\ ACC * (-d) = -(ACC * d)
  <2>1. d \in Int
    BY <1>3, <1>4
  <2> HIDE DEF d
  <2> QED
    BY <2>1
<1> HIDE DEF gap, slack, d
<1>9. ACC * d <= e + 3 * Unit /\ ACC * (-d) <= e + 3 * Unit
  <2>1. gap = ACC * d
    BY <1>6 DEF d
  <2> QED
    BY <1>2, <1>3, <1>8, <2>1 DEF Within
<1> QED
  BY <1>7, <1>8, <1>9 DEF d, x

(* CLAIM goes to those who staked when it arrived: what a user took and is *)
(* shown stays within the rounding of a few wei a transaction of its due,  *)
(* whoever joins, leaves, harvests, claims or fails to compound between    *)
(* the transfer and its notification.  The index rounds to a part in ACC   *)
(* of each LP token, so that the bound depends on the LP there is.         *)
THEOREM StakersGetTheirDue ==
  ASSUME ROUNDING * ACC >= 8 * (ACC + LP_SUPPLY)
  PROVE  Spec => []RewardsFollowStake
<1> USE VaultAssumption
<1>1. CoveredInv /\ FairInv => RewardsFollowStake
  <2> SUFFICES ASSUME CoveredInv, FairInv, NEW u \in Users
               PROVE  Distance((taken[u] + earned(u)) * DUE_SCALE, due[u])
                        <= transactions * ROUNDING * DUE_SCALE
    BY DEF RewardsFollowStake
  <2>1. PICK n \in Nat : transactions = n /\ Standing(5 * (n * Unit))
    BY DEF FairInv
  <2> DEFINE x == (taken[u] + earned(u)) * DUE_SCALE
             d == due[u] - x
             bound == n * ROUNDING * DUE_SCALE
             e == 5 * (n * Unit)
  <2>2. bound \in Nat
    <3>1. \A i, j \in Nat : i * j \in Nat
      OBVIOUS
    <3>2. n * ROUNDING \in Nat
      BY <3>1
    <3> QED
      BY <3>1, <3>2
  <2>3. CASE n = 0
    <3>1. earned(u) = 0 /\ taken[u] = 0 /\ due[u] = 0
      BY <2>1, <2>3, NothingShown DEF FairInv
    <3>2. (0 + 0) * DUE_SCALE = 0
      OBVIOUS
    <3> HIDE DEF bound
    <3> QED
      BY <2>1, <2>2, <3>1, <3>2 DEF Distance, bound
  <2>4. CASE n # 0
    <3>1. Unit \in Nat /\ n * Unit \in Nat /\ e \in Int
      <4>1. Unit \in Nat
        BY MarginIs
      <4>2. \A k \in Nat : n * k \in Nat /\ 5 * (n * k) \in Int
        OBVIOUS
      <4> QED
        BY <4>1, <4>2
    <3>2. d \in Int /\ ACC * d <= e + 3 * Unit /\ ACC * (-d) <= e + 3 * Unit
      <4>1. Standing(e)
        BY <2>1
      <4> HIDE DEF e
      <4> QED
        BY <3>1, <4>1, ShownIsFair
    <3>3. e + 3 * Unit <= 8 * (n * Unit)
      <4>1. 1 * Unit <= n * Unit
        BY <2>4, <3>1, Product
      <4>2. 1 * Unit = Unit
        BY <3>1
      <4> DEFINE k == n * Unit
      <4>3. k \in Nat /\ Unit <= k
        BY <3>1, <4>1, <4>2
      <4> HIDE DEF k
      <4>4. 5 * k + 3 * Unit <= 8 * k
        BY <3>1, <4>3
      <4> QED
        BY <4>4 DEF k
    <3>4. 8 * (n * Unit) <= ACC * bound
      <4> DEFINE k == n * DUE_SCALE
      <4>1. k \in Nat
        BY SMT
      <4>2. Margin \in Nat /\ 8 * Margin \in Nat /\ ROUNDING * ACC \in Nat /\ 8 * Margin <= ROUNDING * ACC
        <5>1. Margin \in Nat
          BY MarginIs
        <5> QED
          BY <5>1 DEF Margin
      <4> HIDE DEF k
      <4>3. k * (8 * Margin) <= k * (ROUNDING * ACC)
        BY <4>1, <4>2, Product
      <4>4. 8 * (n * Unit) = k * (8 * Margin)
        <5>1. \A i, j, l \in Int : 8 * (i * (j * l)) = (i * j) * (8 * l)
          OBVIOUS
        <5> QED
          BY <4>2, <5>1 DEF k, Unit
      <4>5. ACC * bound = k * (ROUNDING * ACC)
        <5>1. \A i, j, l, m \in Int : i * (j * l * m) = (j * m) * (l * i)
          OBVIOUS
        <5> QED
          BY <5>1 DEF k
      <4> QED
        BY <4>3, <4>4, <4>5
    <3> HIDE DEF d, bound, e
    <3>5. d <= bound /\ -d <= bound
      <4>1. \A y \in Int : ACC * y <= ACC * bound => y <= bound
        <5> SUFFICES ASSUME NEW y \in Int, ACC * y <= ACC * bound PROVE y <= bound
          OBVIOUS
        <5>1. ACC * y \in Int /\ ACC * bound \in Int /\ bound \in Int
          BY <2>2
        <5>2. ACC * y < ACC * bound + ACC
          BY <5>1
        <5> QED
          BY <2>2, <5>2, Cancel
      <4>2. ACC * d \in Int /\ ACC * (-d) \in Int /\ ACC * bound \in Int /\ -d \in Int
            /\ 8 * (n * Unit) \in Int /\ e + 3 * Unit \in Int
        BY <2>2, <3>1, <3>2
      <4>3. ACC * d <= ACC * bound /\ ACC * (-d) <= ACC * bound
        BY <3>2, <3>3, <3>4, <4>2
      <4> QED
        BY <3>2, <4>1, <4>2, <4>3
    <3>6. x \in Int /\ due[u] \in Int
      <4>1. taken[u] \in Int /\ Claimable(u) \in Nat /\ due[u] \in Int
        BY <2>1, CreditedUser DEF Standing, Accounts
      <4>2. earned(u) = Claimable(u)
        BY ShownIsClaimable
      <4>3. taken[u] + earned(u) \in Int
        BY <4>1, <4>2
      <4> QED
        BY <4>1, <4>3
    <3> HIDE DEF x
    <3>7. Distance(x, due[u]) <= bound
      BY <2>2, <3>2, <3>5, <3>6 DEF Distance, d
    <3> QED
      BY <2>1, <3>7 DEF x, bound
  <2> QED
    BY <2>3, <2>4
<1> QED
  BY <1>1, CoveredInvHolds, FairHolds, PTL

-----------------------------------------------------------------------------
(* Arithmetic of one trapezoid.                                            *)

(* What is left of the decay period after e seconds. *)
Left(e) == IF e < EMISSION_DECAY_PERIOD THEN EMISSION_DECAY_PERIOD - e ELSE 0
Slope(L, F) == L - F
Falls(L, F) == L \in Nat /\ F \in Nat /\ F <= L

(* The rate, rounded up, exceeds the line it is on by less than one wei.   *)
LEMMA RateIsRoundedUp ==
  ASSUME NEW L, NEW F, Falls(L, F),
         NEW e \in Nat,
         NEW r, r = rateAt(e, L, F)
  PROVE  /\ r \in Nat /\ r >= F
         /\ EMISSION_DECAY_PERIOD * r >= EMISSION_DECAY_PERIOD * F + Slope(L, F) * Left(e)
         /\ EMISSION_DECAY_PERIOD * r
              <= EMISSION_DECAY_PERIOD * F + Slope(L, F) * Left(e) + EMISSION_DECAY_PERIOD
<1> DEFINE slope == Slope(L, F)
           D == EMISSION_DECAY_PERIOD
           q == (slope * e) \div D
<1>1. D \in Nat \ {0} /\ L \in Nat /\ F \in Nat /\ F <= L /\ slope \in Nat /\ L = F + slope
  BY MathAssumption DEF Slope, Falls
<1> HIDE DEF slope
<1>2. CASE L <= F \/ e >= D
  <2>1. r = F
    BY <1>2 DEF rateAt
  <2>2. slope = 0 \/ Left(e) = 0
    BY <1>1, <1>2 DEF Left
  <2>3. Left(e) \in Nat
    BY <1>1 DEF Left
  <2>4. slope * Left(e) = 0
    BY <1>1, <2>2, <2>3
  <2> DEFINE g == D * F
  <2>5. g \in Nat
    BY <1>1
  <2> HIDE DEF g
  <2> QED
    BY <1>1, <2>1, <2>4, <2>5 DEF g, slope
<1>3. CASE ~ (L <= F \/ e >= D)
  <2>1. Left(e) = D - e /\ e < D
    BY <1>1, <1>3 DEF Left
  <2>2. q \in Nat /\ D * q <= slope * e /\ slope * e <= D * q + (D - 1)
    <3>1. slope * e \in Nat
      BY <1>1
    <3> QED
      BY <1>1, <3>1, Quotient
  <2>3. q <= slope
    <3> SUFFICES ASSUME q >= slope + 1 PROVE FALSE
      BY <1>1, <2>2
    <3> HIDE DEF q, D
    <3>1. D * (slope + 1) <= D * q
      BY <1>1, <2>2, Product
    <3>2. slope * e <= slope * D
      BY <1>1, <2>1, Product
    <3>3. D * (slope + 1) = slope * D + D
      BY <1>1
    <3> DEFINE a == D * q
               b == slope * e
               c == slope * D
    <3>4. a \in Int /\ b \in Int /\ c \in Int
      BY <1>1, <2>2
    <3> HIDE DEF a, b, c
    <3> QED
      BY <1>1, <2>2, <3>1, <3>2, <3>3, <3>4 DEF a, b, c
  <2>4. r = L - q
    <3>1. mulDiv(L - F, e, D) = q
      BY DEF mulDiv, Slope, slope
    <3>2. r = AtLeast(L - q, F)
      BY <1>3, <3>1 DEF rateAt
    <3> QED
      BY <1>1, <2>2, <2>3, <3>2 DEF AtLeast
  <2> HIDE DEF q
  <2>5. D * r = D * F + D * slope - D * q
    BY <1>1, <2>2, <2>4
  <2>6. slope * Left(e) = D * slope - slope * e
    BY <1>1, <2>1
  <2> DEFINE a == D * q
             b == slope * e
             c == D * slope
             g == D * F
  <2>7. a \in Int /\ b \in Int /\ c \in Int /\ g \in Int
    BY <1>1, <2>2
  <2>8. r \in Nat /\ r >= F
    BY <1>1, <2>2, <2>3, <2>4
  <2>9. D * r >= g + (c - b) /\ D * r <= g + (c - b) + D
    <3>1. D * r = g + c - a /\ a <= b /\ b <= a + (D - 1)
      BY <2>2, <2>5
    <3> DEFINE x == D * r
    <3> HIDE DEF a, b, c, g, x
    <3> QED
      BY <1>1, <2>7, <3>1 DEF x
  <2> QED
    BY <2>6, <2>8, <2>9 DEF slope
<1> QED
  BY <1>2, <1>3

(* The exact integral over t0 to t1: the floor throughout, and the triangle *)
(* or trapezoid above it.                                                  *)
Above(slope, a, b) == slope * ((a - b) * (a + b))

LEMMA ExactIs ==
  ASSUME NEW L, NEW F, Falls(L, F),
         NEW t0 \in Int, NEW t1 \in Int
  PROVE  Exact2D(L, F, t0, t1) = TwoD * F * (t1 - t0)
                                 + Above(Slope(L, F), Left(t0 - EMISSION_START), Left(t1 - EMISSION_START))
<1> DEFINE slope == Slope(L, F)
           D  == EMISSION_DECAY_PERIOD
           e0 == t0 - EMISSION_START
           e1 == t1 - EMISSION_START
           d0 == IF e0 < D THEN e0 ELSE D
           d1 == IF e1 < D THEN e1 ELSE D
<1>1. /\ D \in Int /\ L \in Int /\ F \in Int /\ slope \in Int /\ L = F + slope /\ L - F = slope
      /\ d0 \in Int /\ d1 \in Int /\ TwoD = 2 * D /\ e0 \in Int /\ e1 \in Int
  BY MathAssumption DEF Slope, Falls, TwoD
<1>2. Left(e0) = D - d0 /\ Left(e1) = D - d1 /\ e1 - e0 = t1 - t0
  BY <1>1, MathAssumption DEF Left
<1>3. Exact2D(L, F, t0, t1) = TwoD * L * (d1 - d0) - (L - F) * (d1 * d1 - d0 * d0)
                              + TwoD * F * ((e1 - e0) - (d1 - d0))
  BY DEF Exact2D
<1> HIDE DEF e0, e1, d0, d1, D
<1>4. (2 * D) * (F + slope) * (d1 - d0) - slope * (d1 * d1 - d0 * d0)
        + (2 * D) * F * ((e1 - e0) - (d1 - d0))
      = (2 * D) * F * (e1 - e0) + slope * (((D - d0) - (D - d1)) * ((D - d0) + (D - d1)))
  BY <1>1
<1> QED
  BY <1>1, <1>2, <1>3, <1>4 DEF Above, e0, e1

(* The rule pays a trapezoid between two rates of the line, less the       *)
(* rounding of its half, more that of the rates.                           *)
LEMMA Trapezoid ==
  ASSUME NEW D \in Nat \ {0}, NEW F \in Nat, NEW slope \in Nat,
         NEW a \in Nat, NEW b \in Nat, b <= a, NEW r \in Nat, NEW s \in Nat, r >= F, s >= F,
         D * r >= D * F + slope * a, D * r <= D * F + slope * a + D,
         D * s >= D * F + slope * b, D * s <= D * F + slope * b + D,
         NEW m, m = ((r + s) * (a - b)) \div 2
  PROVE  /\ m \in Nat /\ m >= F * (a - b)
         /\ 2 * D * m <= 2 * D * F * (a - b) + slope * ((a - b) * (a + b)) + 2 * D * (a - b)
         /\ 2 * D * m >= 2 * D * F * (a - b) + slope * ((a - b) * (a + b)) - 2 * D
<1> DEFINE w == a - b
           x == (r + s) * w
           base == 2 * D * F
           line == slope * (a + b)
<1>1. w \in Nat /\ x \in Nat /\ base \in Nat /\ line \in Nat
  <2>1. w \in Nat
    OBVIOUS
  <2> HIDE DEF w
  <2> QED
    BY <2>1
<1>2. m \in Nat /\ 2 * m <= x /\ x <= 2 * m + 1
  <2> HIDE DEF x
  <2>1. m = x \div 2
    BY DEF x
  <2> QED
    BY <1>1, <2>1, Quotient
<1>3. D * (r + s) >= base + line /\ D * (r + s) <= base + line + 2 * D /\ D * (r + s) \in Nat
  <2> DEFINE p == D * r
             q == D * s
             u == D * F
             y == slope * a
             z == slope * b
  <2>1. D * (r + s) = p + q /\ base = u + u /\ line = y + z
    OBVIOUS
  <2>2. p \in Nat /\ q \in Nat /\ u \in Nat /\ y \in Nat /\ z \in Nat
    OBVIOUS
  <2>3. p >= u + y /\ p <= u + y + D /\ q >= u + z /\ q <= u + z + D
    OBVIOUS
  <2> HIDE DEF p, q, u, y, z, base, line
  <2> QED
    BY <2>1, <2>2, <2>3
<1> DEFINE g == D * (r + s)
<1>4. /\ (base + line) * w <= g * w /\ g * w <= (base + line + 2 * D) * w
  <2> HIDE DEF g, base, line, w
  <2>1. base + line \in Int /\ base + line + 2 * D \in Int
    BY <1>1
  <2> QED
    BY <1>1, <1>3, <2>1, Product DEF g
<1>5. g * w = D * x
  <2> HIDE DEF w
  <2> QED
    BY <1>1
<1>6. /\ D * (2 * m) <= D * x /\ D * x <= D * (2 * m + 1)
  <2> HIDE DEF x
  <2>1. 2 * m \in Int /\ 2 * m + 1 \in Int /\ x \in Int
    BY <1>1, <1>2
  <2> QED
    BY <1>2, <2>1, Product
<1>7. /\ D * (2 * m) = 2 * D * m /\ D * (2 * m + 1) = 2 * D * m + D
      /\ (base + line) * w = base * w + line * w
      /\ (base + line + 2 * D) * w = base * w + line * w + 2 * D * w
      /\ line * w = slope * (w * (a + b))
      /\ base * w \in Nat /\ line * w \in Nat /\ 2 * D * w \in Nat /\ 2 * D * m \in Nat /\ D * x \in Nat
  <2> HIDE DEF x, w, base
  <2> QED
    BY <1>1, <1>2
<1>8. /\ 2 * D * m <= base * w + line * w + 2 * D * w
      /\ 2 * D * m >= base * w + line * w - 2 * D
  <2> DEFINE M == 2 * D * m
             A == base * w
             B == line * w
             C == 2 * D * w
             X == D * x
  <2>1. A + B <= X /\ X <= A + B + C /\ M <= X /\ X <= M + D
    BY <1>4, <1>5, <1>6, <1>7
  <2>2. M \in Nat /\ A \in Nat /\ B \in Nat /\ C \in Nat /\ X \in Nat
    BY <1>7
  <2> HIDE DEF M, A, B, C, X
  <2>3. M <= A + B + C /\ M >= (A + B) - D
    BY <2>1, <2>2
  <2>4. M >= (A + B) - 2 * D
    BY <2>2, <2>3
  <2> QED
    BY <2>3, <2>4 DEF M, A, B, C
<1>9. m >= F * w
  <2> HIDE DEF w, x
  <2>1. (F + F) * w <= (r + s) * w
    BY <1>1, Product
  <2>2. (F + F) * w = 2 * (F * w) /\ F * w \in Nat
    BY <1>1
  <2> DEFINE f == F * w
  <2> HIDE DEF f
  <2> QED
    BY <1>1, <1>2, <2>1, <2>2 DEF x, f
<1> QED
  BY <1>2, <1>7, <1>8, <1>9

(* Within m of the exact integral x over w seconds: at least the floor     *)
(* rate, at most one wei per second above it, at most one wei below it.    *)
Near(F, m, x, w) ==
  /\ m \in Nat /\ x \in Int
  /\ m >= F * w
  /\ TwoD * m <= x + TwoD * w
  /\ TwoD * m >= x - TwoD

(* What a stream pays for an interval is near its exact integral.          *)
LEMMA EmittedIsNear ==
  ASSUME NEW L, NEW F, Falls(L, F),
         NEW t0 \in Int, NEW t1 \in Int, EMISSION_START <= t0, t0 <= t1
  PROVE  Near(F, emitted(t0, t1, L, F), Exact2D(L, F, t0, t1), t1 - t0)
<1> DEFINE slope == Slope(L, F)
           D == EMISSION_DECAY_PERIOD
           S == EMISSION_START
           e0 == t0 - S
           e1 == t1 - S
           a == Left(e0)
           b == Left(e1)
           r == rateAt(e0, L, F)
           s == rateAt(e1, L, F)
           w == t1 - t0
           m == emitted(t0, t1, L, F)
<1>1. /\ D \in Nat \ {0} /\ S \in Nat \ {0} /\ L \in Nat /\ F \in Nat /\ slope \in Nat /\ TwoD = 2 * D
      /\ TwoD \in Nat
  BY MathAssumption DEF Slope, Falls, TwoD
<1> HIDE DEF slope
<1>2. e0 \in Nat /\ e1 \in Nat /\ e0 <= e1 /\ w \in Nat /\ w = e1 - e0
  BY <1>1
<1>3. a \in Nat /\ b \in Nat /\ b <= a
  BY <1>1, <1>2 DEF Left
<1>4. /\ r \in Nat /\ r >= F /\ D * r >= D * F + slope * a /\ D * r <= D * F + slope * a + D
  <2> HIDE DEF e0
  <2> QED
    BY <1>1, <1>2, RateIsRoundedUp DEF slope
<1>5. /\ s \in Nat /\ s >= F /\ D * s >= D * F + slope * b /\ D * s <= D * F + slope * b + D
  <2> HIDE DEF e1
  <2> QED
    BY <1>1, <1>2, RateIsRoundedUp DEF slope
<1>6. Exact2D(L, F, t0, t1) = TwoD * F * w + slope * ((a - b) * (a + b))
  BY ExactIs DEF Above, slope
<1>7. m = IF t1 <= t0 THEN 0
          ELSE IF e0 >= D THEN F * w
          ELSE IF e1 <= D THEN ((r + s) * w) \div 2
          ELSE ((r + F) * (D - e0)) \div 2 + F * (e1 - D)
  <2>1. AtLeast(t0, S) = t0
    BY <1>1 DEF AtLeast
  <2>2. t1 <= S => t1 <= t0
    BY <1>1
  <2>3. (t0 >= S + D <=> e0 >= D) /\ (t1 <= S + D <=> e1 <= D) /\ (S + D) - t0 = D - e0 /\ t1 - (S + D) = e1 - D
    BY <1>1
  <2> QED
    BY <2>1, <2>2, <2>3 DEF emitted, mulDiv
<1> DEFINE base == TwoD * F * w
<1>8. base \in Nat /\ F * w \in Nat /\ TwoD * w \in Nat /\ base = TwoD * (F * w)
  <2> HIDE DEF w
  <2> QED
    BY <1>1, <1>2
<1> HIDE DEF r, s, m
<1>9. CASE t1 <= t0
  <2>1. w = 0 /\ a = b /\ m = 0
    BY <1>1, <1>2, <1>7, <1>9
  <2>2. (a - b) * (a + b) = 0
    BY <1>3, <2>1
  <2>3. Exact2D(L, F, t0, t1) = 0
    <3>1. TwoD * F * 0 = 0 /\ slope * 0 = 0
      BY <1>1
    <3> QED
      BY <1>6, <2>1, <2>2, <3>1
  <2> QED
    BY <1>1, <2>1, <2>3 DEF Near, m
<1>10. CASE ~(t1 <= t0) /\ e0 >= D
  <2>1. a = 0 /\ b = 0 /\ m = F * w
    BY <1>1, <1>2, <1>7, <1>10 DEF Left
  <2>2. Exact2D(L, F, t0, t1) = base
    <3>1. (0 - 0) * (0 + 0) = 0 /\ slope * 0 = 0
      BY <1>1
    <3> QED
      BY <1>6, <1>8, <2>1, <3>1
  <2>3. m \in Nat /\ TwoD * m = base /\ F * w = m /\ TwoD * w \in Nat
    BY <1>8, <2>1
  <2> HIDE DEF base, w
  <2>4. base <= base + TwoD * w /\ base >= base - TwoD /\ m >= m
    BY <1>1, <1>8, <2>3
  <2>5. Near(F, m, base, w)
    BY <1>8, <2>3, <2>4 DEF Near
  <2> QED
    BY <2>2, <2>5 DEF w, m
<1>11. CASE ~(t1 <= t0) /\ ~(e0 >= D) /\ e1 <= D
  <2>1. a - b = w /\ m = ((r + s) * (a - b)) \div 2
    BY <1>1, <1>2, <1>7, <1>11 DEF Left
  <2> HIDE DEF a, b, w
  <2>2. /\ m \in Nat /\ m >= F * (a - b)
        /\ 2 * D * m <= 2 * D * F * (a - b) + slope * ((a - b) * (a + b)) + 2 * D * (a - b)
        /\ 2 * D * m >= 2 * D * F * (a - b) + slope * ((a - b) * (a + b)) - 2 * D
    BY <1>1, <1>3, <1>4, <1>5, <2>1, Trapezoid
  <2> DEFINE T == slope * ((a - b) * (a + b))
  <2>3. T \in Int
    BY <1>1, <1>3
  <2>4. m >= F * w /\ TwoD * m <= base + T + TwoD * w /\ TwoD * m >= base + T - TwoD
    BY <1>1, <2>1, <2>2
  <2>5. Exact2D(L, F, t0, t1) = base + T
    BY <1>6
  <2> HIDE DEF T, base
  <2>6. base + T \in Int
    BY <1>8, <2>3
  <2>7. TwoD * m >= (base + T) - TwoD
    <3> DEFINE x == TwoD * m
    <3>1. x \in Int
      BY <1>1, <2>2
    <3> HIDE DEF x
    <3> QED
      BY <1>1, <1>8, <2>3, <2>4, <3>1 DEF x
  <2>8. Near(F, m, base + T, w)
    BY <2>2, <2>4, <2>6, <2>7 DEF Near
  <2> QED
    BY <2>5, <2>8 DEF w, m
<1>12. CASE ~(t1 <= t0) /\ ~(e0 >= D) /\ ~(e1 <= D)
  <2> DEFINE m1 == ((r + F) * (a - 0)) \div 2
             v  == e1 - D
  <2>1. a = D - e0 /\ b = 0 /\ w = a + v /\ v \in Nat /\ m = m1 + F * v
    BY <1>1, <1>2, <1>7, <1>12 DEF Left
  <2> HIDE DEF a, b, w, v
  <2>2. /\ m1 \in Nat /\ m1 >= F * (a - 0)
        /\ 2 * D * m1 <= 2 * D * F * (a - 0) + slope * ((a - 0) * (a + 0)) + 2 * D * (a - 0)
        /\ 2 * D * m1 >= 2 * D * F * (a - 0) + slope * ((a - 0) * (a + 0)) - 2 * D
    <3>1. D * F >= D * F + slope * 0 /\ D * F <= D * F + slope * 0 + D
      BY <1>1
    <3> QED
      BY <1>1, <1>3, <1>4, <3>1, Trapezoid
  <2> DEFINE T == slope * ((a - b) * (a + b))
  <2>3. T \in Int /\ T = slope * ((a - 0) * (a + 0))
    BY <1>1, <1>3, <2>1
  <2> HIDE DEF m1
  <2>4. /\ base = TwoD * F * a + TwoD * (F * v)
        /\ TwoD * m = TwoD * m1 + TwoD * (F * v)
        /\ TwoD * w = TwoD * a + TwoD * v
        /\ F * w = F * a + F * v
        /\ TwoD * F * a \in Nat /\ TwoD * (F * v) \in Nat /\ F * v \in Nat /\ F * a \in Nat
        /\ TwoD * v \in Nat /\ TwoD * a \in Nat /\ TwoD * m1 \in Nat
    BY <1>1, <1>3, <2>1, <2>2
  <2>5. /\ m1 \in Nat /\ m1 >= F * a
        /\ TwoD * m1 <= TwoD * F * a + T + TwoD * a
        /\ TwoD * m1 >= TwoD * F * a + T - TwoD
    <3>1. a - 0 = a
      BY <1>3
    <3> QED
      BY <1>1, <2>2, <2>3, <3>1
  <2> DEFINE x0 == TwoD * F * a
             x1 == TwoD * (F * v)
             x2 == TwoD * a
             x3 == TwoD * v
             x4 == TwoD * m1
             y0 == F * a
             y1 == F * v
  <2>6. /\ m \in Nat /\ m >= y0 + y1
        /\ x4 + x1 <= (x0 + x1 + T) + (x2 + x3)
        /\ x4 + x1 >= (x0 + x1 + T) - TwoD
    <3> HIDE DEF x0, x1, x2, x3, x4, y0, y1, T
    <3> QED
      BY <1>1, <2>1, <2>3, <2>4, <2>5 DEF x0, x1, x2, x3, x4, y0, y1
  <2>7. Exact2D(L, F, t0, t1) = base + T
    BY <1>6
  <2>8. base + T \in Int /\ base = x0 + x1 /\ TwoD * m = x4 + x1 /\ TwoD * w = x2 + x3 /\ F * w = y0 + y1
    BY <1>8, <2>3, <2>4
  <2> HIDE DEF x0, x1, x2, x3, x4, y0, y1, T, base
  <2>9. Near(F, m, base + T, w)
    BY <2>6, <2>8 DEF Near
  <2> QED
    BY <2>7, <2>9 DEF w, m
<1> QED
  BY <1>9, <1>10, <1>11, <1>12

LEMMA IntegralIsInteger ==
  ASSUME NEW L, NEW F, Falls(L, F), NEW t0 \in Int, NEW t1 \in Int
  PROVE  Exact2D(L, F, t0, t1) \in Int
<1> DEFINE a == Left(t0 - EMISSION_START)
           b == Left(t1 - EMISSION_START)
<1>1. a \in Int /\ b \in Int /\ Slope(L, F) \in Int /\ TwoD \in Int
  BY MathAssumption DEF Left, Slope, Falls, TwoD
<1>2. Exact2D(L, F, t0, t1) = TwoD * F * (t1 - t0) + Above(Slope(L, F), a, b)
  BY ExactIs
<1> HIDE DEF a, b
<1>3. Above(Slope(L, F), a, b) \in Int /\ TwoD * F * (t1 - t0) \in Int
  BY <1>1 DEF Above, Falls
<1> QED  BY <1>2, <1>3

(* The exact integral is additive.                                         *)
LEMMA IntegralIsAdditive ==
  ASSUME NEW L, NEW F, Falls(L, F), NEW t0 \in Int, NEW t1 \in Int, NEW t2 \in Int
  PROVE  Exact2D(L, F, t0, t1) + Exact2D(L, F, t1, t2) = Exact2D(L, F, t0, t2)
<1> DEFINE slope == Slope(L, F)
           a == Left(t0 - EMISSION_START)
           b == Left(t1 - EMISSION_START)
           c == Left(t2 - EMISSION_START)
           G == TwoD * F
<1>1. a \in Int /\ b \in Int /\ c \in Int /\ slope \in Int /\ G \in Int
  BY MathAssumption DEF Left, Slope, Falls, TwoD
<1>2. /\ Exact2D(L, F, t0, t1) = G * (t1 - t0) + Above(slope, a, b)
      /\ Exact2D(L, F, t1, t2) = G * (t2 - t1) + Above(slope, b, c)
      /\ Exact2D(L, F, t0, t2) = G * (t2 - t0) + Above(slope, a, c)
  <2>1. ASSUME NEW x \in Int, NEW y \in Int
        PROVE  Exact2D(L, F, x, y)
                 = G * (y - x) + Above(slope, Left(x - EMISSION_START), Left(y - EMISSION_START))
    BY ExactIs
  <2> HIDE DEF G
  <2> QED
    BY <2>1
<1> HIDE DEF a, b, c, G
<1>3. /\ Above(slope, a, b) \in Int /\ Above(slope, b, c) \in Int
      /\ Above(slope, a, b) + Above(slope, b, c) = Above(slope, a, c)
  BY <1>1 DEF Above
<1>4. G * (t1 - t0) + G * (t2 - t1) = G * (t2 - t0)
      /\ G * (t1 - t0) \in Int /\ G * (t2 - t1) \in Int
  BY <1>1
<1> QED
  BY <1>2, <1>3, <1>4

LEMMA NoTimeNoIntegral ==
  ASSUME NEW L, NEW F, Falls(L, F), NEW t \in Int
  PROVE  Exact2D(L, F, t, t) = 0
<1> DEFINE x == Exact2D(L, F, t, t)
<1>1. x + x = x
  BY IntegralIsAdditive
<1>2. x \in Int
  BY IntegralIsInteger
<1> HIDE DEF x
<1>3. x = 0
  BY <1>1, <1>2
<1> QED  BY <1>3 DEF x

(* Moved down the decay curve, an interval is worth no more.               *)
LEMMA LaterIsWorthLess ==
  ASSUME NEW L, NEW F, Falls(L, F),
         NEW t0 \in Int, NEW t1 \in Int, EMISSION_START <= t0, t0 <= t1, NEW n \in Nat
  PROVE  Exact2D(L, F, t0 + n, t1 + n) <= Exact2D(L, F, t0, t1)
<1> DEFINE slope == Slope(L, F)
           a == Left(t0 - EMISSION_START)
           b == Left(t1 - EMISSION_START)
           c == Left((t0 + n) - EMISSION_START)
           d == Left((t1 + n) - EMISSION_START)
           base == TwoD * F * (t1 - t0)
<1>1. /\ a \in Nat /\ b \in Nat /\ c \in Nat /\ d \in Nat /\ b <= a /\ d <= c
      /\ c - d <= a - b /\ c + d <= a + b /\ slope \in Nat
  BY MathAssumption DEF Left, Slope, Falls
<1>2. /\ Exact2D(L, F, t0, t1) = base + Above(slope, a, b)
      /\ Exact2D(L, F, t0 + n, t1 + n) = base + Above(slope, c, d)
  <2>1. Exact2D(L, F, t0 + n, t1 + n) = TwoD * F * ((t1 + n) - (t0 + n)) + Above(slope, c, d)
    <3>1. t0 + n \in Int /\ t1 + n \in Int
      OBVIOUS
    <3> QED
      BY <3>1, ExactIs, Zenon
  <2>2. (t1 + n) - (t0 + n) = t1 - t0
    OBVIOUS
  <2>3. Exact2D(L, F, t0, t1) = TwoD * F * (t1 - t0) + Above(slope, a, b)
    BY ExactIs
  <2> QED
    BY <2>1, <2>2, <2>3
<1>3. base \in Int
  BY MathAssumption DEF TwoD, Falls
<1> HIDE DEF a, b, c, d, base
<1>4. (c - d) * (c + d) <= (c - d) * (a + b)
  BY <1>1, Product
<1>5. (c - d) * (a + b) <= (a - b) * (a + b)
  BY <1>1, Product
<1>6. (c - d) * (c + d) \in Int /\ (c - d) * (a + b) \in Int /\ (a - b) * (a + b) \in Int
  BY <1>1
<1>7. slope * ((c - d) * (c + d)) <= slope * ((a - b) * (a + b))
  <2> DEFINE x == (c - d) * (c + d)
             y == (a - b) * (a + b)
  <2>1. x \in Int /\ y \in Int /\ x <= y
    BY <1>4, <1>5, <1>6
  <2> HIDE DEF x, y
  <2>2. slope * x <= slope * y
    BY <1>1, <2>1, Product
  <2> QED
    BY <2>2 DEF x, y
<1>8. Above(slope, c, d) <= Above(slope, a, b) /\ Above(slope, c, d) \in Int /\ Above(slope, a, b) \in Int
  BY <1>1, <1>7 DEF Above
<1> QED
  BY <1>2, <1>3, <1>8

(***************************************************************************)
(* The invariant of a settlement history: minted is what the stream has    *)
(* paid for the settled open seconds out of open, and due the integral of  *)
(* what is pending over len seconds.                                       *)
(***************************************************************************)
Settled(F, minted, exact, open, owing, len, clean, n) ==
  /\ minted \in Nat /\ exact \in Int /\ open \in Nat /\ owing \in Int /\ len \in Nat /\ n \in Nat
  /\ minted >= F * (open - len)
  /\ TwoD * minted + owing <= exact + TwoD * (open - len)
  /\ clean => TwoD * minted >= (exact - owing) - TwoD * n

(* Paying what is pending keeps it, and keeps it however it is asked.      *)
LEMMA PaidIsSettled ==
  ASSUME NEW F \in Nat, NEW minted, NEW exact, NEW open, NEW owing, NEW len, NEW clean, NEW n,
         Settled(F, minted, exact, open, owing, len, clean, n), NEW m, Near(F, m, owing, len)
  PROVE  Settled(F, minted + m, exact, open, 0, 0, clean, n + 1)
<1> DEFINE x == TwoD * minted
           y == TwoD * m
           u == TwoD * (open - len)
           v == TwoD * len
           p == F * (open - len)
           q == F * len
           z == TwoD * n
<1>1. /\ minted \in Nat /\ exact \in Int /\ open \in Nat /\ owing \in Int /\ len \in Nat /\ n \in Nat
      /\ m \in Nat /\ TwoD \in Nat /\ F \in Nat
  BY MathAssumption DEF Settled, Near, TwoD
<1>2. /\ x \in Int /\ y \in Int /\ u \in Int /\ v \in Int /\ p \in Int /\ q \in Int /\ z \in Int
      /\ TwoD * (minted + m) = x + y /\ TwoD * (open - 0) = u + v /\ F * (open - 0) = p + q
      /\ TwoD * (n + 1) = z + TwoD
  BY <1>1
<1>3. /\ minted >= p /\ x + owing <= exact + u /\ (clean => x >= (exact - owing) - z)
      /\ m >= q /\ y <= owing + v /\ y >= owing - TwoD
  BY DEF Settled, Near
<1> HIDE DEF x, y, u, v, p, q, z
<1>4. /\ minted + m >= p + q
      /\ (x + y) + 0 <= exact + (u + v)
      /\ clean => x + y >= (exact - 0) - (z + TwoD)
  BY <1>1, <1>2, <1>3
<1>5. minted + m \in Nat /\ n + 1 \in Nat /\ 0 \in Nat /\ 0 \in Int
  BY <1>1
<1> QED
  BY <1>1, <1>2, <1>4, <1>5 DEF Settled

(* Seconds that pass while open are pending seconds.                       *)
LEMMA OpenSecondsAreSettled ==
  ASSUME NEW F \in Nat, NEW minted, NEW exact, NEW open, NEW owing, NEW len, NEW clean, NEW n,
         Settled(F, minted, exact, open, owing, len, clean, n), NEW x \in Int, NEW d \in Nat
  PROVE  Settled(F, minted, exact + x, open + d, owing + x, len + d, clean, n)
<1>1. /\ minted \in Nat /\ exact \in Int /\ open \in Nat /\ owing \in Int /\ len \in Nat /\ n \in Nat
      /\ TwoD \in Nat
  BY MathAssumption DEF Settled, TwoD
<1>2. (open + d) - (len + d) = open - len
  BY <1>1
<1> DEFINE a == TwoD * minted
           b == TwoD * (open - len)
           c == TwoD * n
<1>3. a \in Int /\ b \in Int /\ c \in Int
  BY <1>1
<1>4. minted >= F * (open - len) /\ a + owing <= exact + b /\ (clean => a >= (exact - owing) - c)
  BY DEF Settled
<1> HIDE DEF a, b, c
<1>5. a + (owing + x) <= (exact + x) + b /\ (clean => a >= ((exact + x) - (owing + x)) - c)
  BY <1>1, <1>3, <1>4
<1> QED
  BY <1>1, <1>2, <1>4, <1>5 DEF Settled, a, b, c

(* Pending seconds that are worth less, after a pause.                     *)
LEMMA LessIsDue ==
  ASSUME NEW F \in Nat, NEW minted, NEW exact, NEW open, NEW owing, NEW len, NEW clean, NEW n,
         Settled(F, minted, exact, open, owing, len, clean, n), NEW less \in Int, less <= owing, ~clean
  PROVE  Settled(F, minted, exact, open, less, len, clean, n)
<1>1. minted \in Nat /\ exact \in Int /\ open \in Nat /\ owing \in Int /\ len \in Nat /\ TwoD \in Nat
  BY MathAssumption DEF Settled, TwoD
<1> DEFINE a == TwoD * minted
           b == TwoD * (open - len)
<1>2. a \in Int /\ b \in Int
  BY <1>1
<1>3. a + owing <= exact + b
  BY DEF Settled
<1> HIDE DEF a, b
<1>4. a + less <= exact + b
  BY <1>1, <1>2, <1>3
<1> QED
  BY <1>4 DEF Settled, a, b

(* What is pending.                                                        *)
Pending == AccruedUntil - currentReignLastAccrualTime
Owed(L, F) == Exact2D(L, F, currentReignLastAccrualTime, AccruedUntil)

EmissionClockOK ==
  /\ second \in Int /\ currentReignLastAccrualTime \in Int /\ pausedSince \in Int
  /\ takeoversPaused \in BOOLEAN /\ everPaused \in BOOLEAN
  /\ takeoversPaused => everPaused
  /\ EMISSION_START <= currentReignLastAccrualTime
  /\ currentReignLastAccrualTime <= AccruedUntil
  /\ AccruedUntil <= second

(* One stream's history.                                                   *)
History(L, F, minted, exact) ==
  Settled(F, minted, exact, openSeconds, Owed(L, F), Pending, ~everPaused, settlements)

(* The inductive invariant.                                                *)
EmissionInv ==
  /\ EmissionClockOK
  /\ History(KING_EMISSION_LAUNCH_RATE, KING_EMISSION_FLOOR, kingMinted, kingExact)
  /\ History(FURNACE_EMISSION_LAUNCH_RATE, FURNACE_EMISSION_FLOOR, furnaceMinted, furnaceExact)

(* Both streams fall, or stay, from a launch rate to a floor.              *)
LEMMA BothFall ==
  /\ Falls(KING_EMISSION_LAUNCH_RATE, KING_EMISSION_FLOOR)
  /\ Falls(FURNACE_EMISSION_LAUNCH_RATE, FURNACE_EMISSION_FLOOR)
BY MathAssumption, EmissionAssumption DEF EmissionAssumption, Falls

LEMMA EmissionStarts == EmissionInit => EmissionInv
<1> SUFFICES ASSUME EmissionInit PROVE EmissionInv
  OBVIOUS
<1>1. EMISSION_START \in Int /\ TwoD \in Nat
  BY MathAssumption DEF TwoD
<1>2. AccruedUntil = EMISSION_START /\ Pending = 0
  BY <1>1 DEF EmissionInit, AccruedUntil, Pending
<1>3. EmissionClockOK
  <2>1. takeoversPaused \in BOOLEAN /\ everPaused \in BOOLEAN /\ ~takeoversPaused
    BY Zenon DEF EmissionInit
  <2>2. second = EMISSION_START /\ currentReignLastAccrualTime = EMISSION_START /\ pausedSince = 0
    BY Zenon DEF EmissionInit
  <2> QED
    BY <1>1, <1>2, <2>1, <2>2 DEF EmissionClockOK
<1>4. ASSUME NEW L, NEW F, Falls(L, F)
      PROVE  History(L, F, 0, 0)
  <2>1. Owed(L, F) = 0
    <3>1. Exact2D(L, F, EMISSION_START, EMISSION_START) = 0
      BY <1>1, <1>4, NoTimeNoIntegral
    <3>2. currentReignLastAccrualTime = EMISSION_START
      BY DEF EmissionInit
    <3> QED
      BY <1>2, <3>1, <3>2 DEF Owed
  <2>2. Settled(F, 0, 0, 0, 0, 0, TRUE, 0)
    BY <1>1, <1>4 DEF Settled, Falls
  <2>3. openSeconds = 0 /\ settlements = 0 /\ everPaused = FALSE
    BY DEF EmissionInit
  <2> QED
    BY <1>2, <2>1, <2>2, <2>3 DEF History
<1>5. kingMinted = 0 /\ kingExact = 0 /\ furnaceMinted = 0 /\ furnaceExact = 0
  BY DEF EmissionInit
<1> QED
  BY <1>3, <1>4, <1>5, BothFall DEF EmissionInv

(* Time that passes, for one stream.                                       *)
LEMMA TickKeepsHistory ==
  ASSUME NEW L, NEW F, Falls(L, F),
         EmissionClockOK, NEW d \in Nat, EmissionTick(d), NEW minted, NEW exact, NEW later,
         later = IF takeoversPaused THEN exact ELSE exact + Exact2D(L, F, second, second + d),
         History(L, F, minted, exact)
  PROVE  Settled(F, minted, later, openSeconds', Owed(L, F)', Pending', ~everPaused', settlements')
<1>1. CASE takeoversPaused
  <2>1. UNCHANGED <<AccruedUntil, currentReignLastAccrualTime, openSeconds, everPaused, settlements>> /\ later = exact
    BY <1>1 DEF EmissionTick, AccruedUntil
  <2>2. Owed(L, F)' = Owed(L, F) /\ Pending' = Pending
    BY <2>1 DEF Owed, Pending, Exact2D
  <2> QED
    BY <2>1, <2>2 DEF History
<1>2. CASE ~takeoversPaused
  <2>1. AccruedUntil = second /\ AccruedUntil' = second + d /\ openSeconds' = openSeconds + d
        /\ UNCHANGED <<currentReignLastAccrualTime, everPaused, settlements>>
    BY <1>2 DEF EmissionTick, AccruedUntil
  <2>2. second \in Int /\ second + d \in Int /\ currentReignLastAccrualTime \in Int
    BY DEF EmissionClockOK
  <2>3. Pending' = Pending + d
    BY <2>1, <2>2 DEF Pending
  <2>4. /\ Owed(L, F)' = Exact2D(L, F, currentReignLastAccrualTime, second + d)
        /\ Owed(L, F) = Exact2D(L, F, currentReignLastAccrualTime, second)
    BY <2>1 DEF Owed, Exact2D
  <2>5. /\ Owed(L, F)' = Owed(L, F) + Exact2D(L, F, second, second + d)
        /\ Exact2D(L, F, second, second + d) \in Int
    <3>1. Exact2D(L, F, currentReignLastAccrualTime, second) + Exact2D(L, F, second, second + d)
            = Exact2D(L, F, currentReignLastAccrualTime, second + d)
      BY <2>2, IntegralIsAdditive
    <3>2. Exact2D(L, F, second, second + d) \in Int
      BY <2>2, IntegralIsInteger
    <3> QED
      BY <2>4, <3>1, <3>2
  <2> DEFINE x == Exact2D(L, F, second, second + d)
  <2>6. Settled(F, minted, exact, openSeconds, Owed(L, F), Pending, ~everPaused, settlements)
    BY DEF History
  <2> HIDE DEF x
  <2>7. Settled(F, minted, exact + x, openSeconds + d, Owed(L, F) + x, Pending + d, ~everPaused, settlements)
    BY <2>5, <2>6, OpenSecondsAreSettled DEF x, Falls
  <2>8. later = exact + x
    BY <1>2 DEF x
  <2> QED
    BY <2>1, <2>3, <2>5, <2>7, <2>8 DEF x
<1> QED
  BY <1>1, <1>2

LEMMA EmissionTickStays ==
  ASSUME EmissionInv, NEW d \in TickSizes, EmissionTick(d)
  PROVE  EmissionInv'
<1>1. d \in Nat
  BY EmissionAssumption DEF EmissionAssumption
<1>2. EmissionClockOK'
  <2>1. CASE takeoversPaused
    BY <1>1, <2>1 DEF EmissionTick, EmissionInv, EmissionClockOK, AccruedUntil
  <2>2. CASE ~takeoversPaused
    BY <1>1, <2>2 DEF EmissionTick, EmissionInv, EmissionClockOK, AccruedUntil
  <2> QED  BY <2>1, <2>2
<1>3. /\ kingExact' = IF takeoversPaused THEN kingExact ELSE kingExact + KingExact2D(second, second + d)
      /\ furnaceExact' = IF takeoversPaused THEN furnaceExact ELSE furnaceExact + FurnaceExact2D(second, second + d)
      /\ kingMinted' = kingMinted /\ furnaceMinted' = furnaceMinted
  BY DEF EmissionTick
<1>4. History(KING_EMISSION_LAUNCH_RATE, KING_EMISSION_FLOOR, kingMinted, kingExact)'
  BY <1>1, <1>3, BothFall, TickKeepsHistory DEF History, EmissionInv, KingExact2D
<1>5. History(FURNACE_EMISSION_LAUNCH_RATE, FURNACE_EMISSION_FLOOR, furnaceMinted, furnaceExact)'
  BY <1>1, <1>3, BothFall, TickKeepsHistory DEF History, EmissionInv, FurnaceExact2D
<1> QED
  BY <1>2, <1>4, <1>5 DEF EmissionInv

(* A settlement, for one stream.                                           *)
LEMMA SettleKeepsHistory ==
  ASSUME NEW L, NEW F, Falls(L, F),
         EmissionClockOK, Settle, NEW minted, NEW exact, History(L, F, minted, exact), NEW later,
         later = minted + emitted(currentReignLastAccrualTime, second, L, F)
  PROVE  Settled(F, later, exact, openSeconds', Owed(L, F)', Pending', ~everPaused', settlements')
<1> DEFINE m == emitted(currentReignLastAccrualTime, second, L, F)
<1>1. /\ UNCHANGED <<second, openSeconds, everPaused>> /\ settlements' = settlements + 1
      /\ AccruedUntil = second /\ AccruedUntil' = second /\ currentReignLastAccrualTime' = second
  BY DEF Settle, AccruedUntil
<1>2. /\ second \in Int /\ currentReignLastAccrualTime \in Int
      /\ EMISSION_START <= currentReignLastAccrualTime /\ currentReignLastAccrualTime <= second
  BY <1>1 DEF EmissionClockOK
<1>3. Pending' = 0 /\ Owed(L, F)' = 0
  <2>1. Owed(L, F)' = Exact2D(L, F, second, second)
    BY <1>1 DEF Owed, Exact2D
  <2>2. Exact2D(L, F, second, second) = 0
    BY <1>2, NoTimeNoIntegral
  <2> QED
    BY <1>1, <1>2, <2>1, <2>2 DEF Pending
<1>4. Near(F, m, Owed(L, F), Pending)
  BY <1>1, <1>2, EmittedIsNear DEF Owed, Pending
<1> HIDE DEF m
<1>5. Settled(F, minted + m, exact, openSeconds, 0, 0, ~everPaused, settlements + 1)
  BY <1>4, PaidIsSettled DEF History, Falls
<1>6. later = minted + m
  BY DEF m
<1> QED
  BY <1>1, <1>3, <1>5, <1>6

LEMMA SettleStays ==
  ASSUME EmissionInv, Settle
  PROVE  EmissionInv'
<1>1. EmissionClockOK'
  <2>1. /\ UNCHANGED <<second, takeoversPaused, pausedSince, everPaused>>
        /\ ~takeoversPaused /\ currentReignLastAccrualTime' = second
    BY DEF Settle
  <2>2. AccruedUntil = second /\ AccruedUntil' = second
    BY <2>1 DEF AccruedUntil
  <2>3. /\ second \in Int /\ pausedSince \in Int /\ takeoversPaused \in BOOLEAN /\ everPaused \in BOOLEAN
        /\ EMISSION_START <= currentReignLastAccrualTime /\ currentReignLastAccrualTime <= second
        /\ currentReignLastAccrualTime \in Int /\ EMISSION_START \in Int
    BY <2>2, MathAssumption DEF EmissionInv, EmissionClockOK
  <2>4. EMISSION_START <= second
    BY <2>3
  <2> QED
    BY <2>1, <2>2, <2>3, <2>4 DEF EmissionClockOK
<1>2. /\ kingMinted' = kingMinted + kingEmitted(currentReignLastAccrualTime, second)
      /\ furnaceMinted' = furnaceMinted + furnaceEmitted(currentReignLastAccrualTime, second)
      /\ kingExact' = kingExact /\ furnaceExact' = furnaceExact
  BY DEF Settle
<1>3. History(KING_EMISSION_LAUNCH_RATE, KING_EMISSION_FLOOR, kingMinted, kingExact)'
  BY <1>2, BothFall, SettleKeepsHistory DEF History, EmissionInv, kingEmitted
<1>4. History(FURNACE_EMISSION_LAUNCH_RATE, FURNACE_EMISSION_FLOOR, furnaceMinted, furnaceExact)'
  BY <1>2, BothFall, SettleKeepsHistory DEF History, EmissionInv, furnaceEmitted
<1> QED
  BY <1>1, <1>3, <1>4 DEF EmissionInv

LEMMA PauseStays ==
  ASSUME EmissionInv, PauseEmission
  PROVE  EmissionInv'
<1>1. /\ EmissionClockOK'
      /\ UNCHANGED <<AccruedUntil, currentReignLastAccrualTime, kingMinted, kingExact, furnaceMinted,
                     furnaceExact, openSeconds, settlements>>
      /\ everPaused' = TRUE
  BY DEF PauseEmission, EmissionInv, EmissionClockOK, AccruedUntil
<1>2. ASSUME NEW L, NEW F, NEW minted, NEW exact, History(L, F, minted, exact)
      PROVE  Settled(F, minted, exact, openSeconds', Owed(L, F)', Pending', ~everPaused', settlements')
  <2>1. Owed(L, F)' = Owed(L, F) /\ Pending' = Pending
    BY <1>1 DEF Owed, Pending, Exact2D
  <2>2. Settled(F, minted, exact, openSeconds, Owed(L, F), Pending, FALSE, settlements)
    BY <1>2 DEF History, Settled
  <2> QED
    BY <1>1, <2>1, <2>2 DEF Settled
<1>3. /\ History(KING_EMISSION_LAUNCH_RATE, KING_EMISSION_FLOOR, kingMinted, kingExact)'
      /\ History(FURNACE_EMISSION_LAUNCH_RATE, FURNACE_EMISSION_FLOOR, furnaceMinted, furnaceExact)'
  BY <1>1, <1>2 DEF History, EmissionInv
<1> QED
  BY <1>1, <1>3 DEF EmissionInv

(* The cursor moves by the length of the pause: the seconds pending are as *)
(* many, and further down the curve.                                       *)
LEMMA UnpauseStays ==
  ASSUME EmissionInv, Unpause
  PROVE  EmissionInv'
<1> DEFINE n == second - pausedSince
           t == currentReignLastAccrualTime
<1>1. /\ n \in Nat /\ t \in Int /\ pausedSince \in Int /\ second \in Int /\ EMISSION_START <= t /\ t <= pausedSince
      /\ AccruedUntil = pausedSince /\ AccruedUntil' = pausedSince + n /\ t' = t + n /\ everPaused
      /\ UNCHANGED <<kingMinted, kingExact, furnaceMinted, furnaceExact, openSeconds, settlements, everPaused>>
  BY DEF Unpause, EmissionInv, EmissionClockOK, AccruedUntil
<1>2. EmissionClockOK'
  <2>1. /\ takeoversPaused' = FALSE /\ second' = second /\ pausedSince' = 0 /\ everPaused' \in BOOLEAN
    BY <1>1 DEF Unpause, EmissionInv, EmissionClockOK
  <2>2. pausedSince + n = second /\ EMISSION_START <= t + n /\ t + n <= pausedSince + n /\ t + n \in Int
    BY <1>1, MathAssumption
  <2> HIDE DEF n, t
  <2>3. /\ second' \in Int /\ pausedSince' \in Int
        /\ currentReignLastAccrualTime' = t + n
    BY <1>1, <2>1 DEF t
  <2>4. takeoversPaused' \in BOOLEAN /\ ~takeoversPaused'
    BY <2>1, Zenon
  <2>5. AccruedUntil' = second /\ second <= second
    BY <1>1, <2>2
  <2> QED
    BY <1>1, <2>1, <2>2, <2>3, <2>4, <2>5 DEF EmissionClockOK
<1>3. Pending' = Pending
  BY <1>1 DEF Pending
<1>4. ASSUME NEW L, NEW F, Falls(L, F),
             NEW minted, NEW exact, History(L, F, minted, exact)
      PROVE  Settled(F, minted, exact, openSeconds', Owed(L, F)', Pending', ~everPaused', settlements')
  <2> DEFINE x == Exact2D(L, F, t + n, pausedSince + n)
  <2>1. Owed(L, F)' = x /\ Owed(L, F) = Exact2D(L, F, t, pausedSince)
    BY <1>1 DEF Owed, Exact2D
  <2> HIDE DEF n, t
  <2>2. x \in Int /\ x <= Owed(L, F) /\ ~~everPaused
    <3>1. t + n \in Int /\ pausedSince + n \in Int
      BY <1>1
    <3>2. x \in Int
      BY <1>4, <3>1, IntegralIsInteger
    <3>3. x <= Exact2D(L, F, t, pausedSince)
      BY <1>1, <1>4, LaterIsWorthLess
    <3> QED
      BY <1>1, <2>1, <3>2, <3>3
  <2> HIDE DEF x
  <2>3. Settled(F, minted, exact, openSeconds, x, Pending, ~everPaused, settlements)
    BY <1>4, <2>2, LessIsDue DEF History, Falls
  <2> QED
    BY <1>1, <1>3, <2>1, <2>3
<1> HIDE DEF n, t
<1>5. History(KING_EMISSION_LAUNCH_RATE, KING_EMISSION_FLOOR, kingMinted, kingExact)'
  BY <1>1, <1>4, BothFall DEF History, EmissionInv
<1>6. History(FURNACE_EMISSION_LAUNCH_RATE, FURNACE_EMISSION_FLOOR, furnaceMinted, furnaceExact)'
  BY <1>1, <1>4, BothFall DEF History, EmissionInv
<1> QED
  BY <1>2, <1>5, <1>6 DEF EmissionInv

LEMMA EmissionHolds == EmissionSpec => []EmissionInv
<1>1. EmissionInit => EmissionInv
  BY EmissionStarts
<1>2. EmissionInv /\ [EmissionNext]_emissionVars => EmissionInv'
  <2> SUFFICES ASSUME EmissionInv, [EmissionNext]_emissionVars PROVE EmissionInv'
    OBVIOUS
  <2>1. ASSUME NEW d \in TickSizes, EmissionTick(d) PROVE EmissionInv'
    BY <2>1, EmissionTickStays
  <2>2. CASE Settle
    BY <2>2, SettleStays
  <2>3. CASE PauseEmission
    BY <2>3, PauseStays
  <2>4. CASE Unpause
    BY <2>4, UnpauseStays
  <2>5. CASE UNCHANGED emissionVars
    <3>1. EmissionClockOK' /\ Pending' = Pending
      BY <2>5 DEF emissionVars, EmissionInv, EmissionClockOK, Pending, AccruedUntil
    <3>2. \A L, F : Owed(L, F)' = Owed(L, F)
      BY <2>5 DEF emissionVars, Owed, AccruedUntil, Exact2D
    <3>3. /\ History(KING_EMISSION_LAUNCH_RATE, KING_EMISSION_FLOOR, kingMinted, kingExact)'
          /\ History(FURNACE_EMISSION_LAUNCH_RATE, FURNACE_EMISSION_FLOOR, furnaceMinted, furnaceExact)'
      BY <2>5, <3>1, <3>2 DEF emissionVars, EmissionInv, History
    <3> QED
      BY <3>1, <3>3 DEF EmissionInv
  <2> QED
    BY <2>1, <2>2, <2>3, <2>4, <2>5 DEF EmissionNext
<1> QED
  BY <1>1, <1>2, PTL DEF EmissionSpec

(***************************************************************************)
(* Neither stream over-mints or forfeits an open second, however takeovers *)
(* and pauses interleave (MineCore._accrue, setTakeoversPaused), for every *)
(* schedule: what has been paid for the settled seconds and what is        *)
(* pending are each near their exact integral, and a pause only moves      *)
(* pending seconds to where they are worth less.                           *)
(***************************************************************************)
THEOREM EmissionFollowsTheSchedule == EmissionSpec => []EmissionIsExact
<1>1. EmissionInv => EmissionIsExact
  <2> SUFFICES ASSUME EmissionInv PROVE EmissionIsExact
    OBVIOUS
  <2>1. /\ currentReignLastAccrualTime \in Int /\ AccruedUntil \in Int
        /\ EMISSION_START <= currentReignLastAccrualTime /\ currentReignLastAccrualTime <= AccruedUntil
    BY DEF EmissionInv, EmissionClockOK, AccruedUntil
  <2>2. ASSUME NEW L, NEW F, Falls(L, F),
               NEW minted, NEW exact, History(L, F, minted, exact), NEW k,
               k = minted + emitted(currentReignLastAccrualTime, AccruedUntil, L, F)
        PROVE  TwoD * k <= exact + TwoD * openSeconds /\ NotForfeited(k, exact, F)
    <3> DEFINE m == emitted(currentReignLastAccrualTime, AccruedUntil, L, F)
    <3>1. Near(F, m, Owed(L, F), Pending)
      BY <2>1, <2>2, EmittedIsNear DEF Owed, Pending
    <3>2. k = minted + m
      BY <2>2
    <3> HIDE DEF m
    <3>3. Settled(F, k, exact, openSeconds, 0, 0, ~everPaused, settlements + 1)
      BY <2>2, <3>1, <3>2, PaidIsSettled DEF History, Falls
    <3>4. openSeconds \in Nat /\ openSeconds - 0 = openSeconds /\ exact \in Int /\ exact - 0 = exact /\ k \in Nat
      BY <3>3 DEF Settled
    <3>5. /\ k >= F * openSeconds
          /\ TwoD * k + 0 <= exact + TwoD * openSeconds
          /\ ~everPaused => TwoD * k >= exact - TwoD * (settlements + 1)
      BY <3>3, <3>4 DEF Settled
    <3>6. TwoD * k + 0 = TwoD * k
      <4>1. TwoD * k \in Int
        BY <3>4, MathAssumption DEF TwoD
      <4> QED  BY <4>1
    <3> QED
      BY <3>5, <3>6 DEF NotForfeited
  <2>3. /\ KingToDate = kingMinted + emitted(currentReignLastAccrualTime, AccruedUntil,
                                             KING_EMISSION_LAUNCH_RATE, KING_EMISSION_FLOOR)
        /\ FurnaceToDate = furnaceMinted + emitted(currentReignLastAccrualTime, AccruedUntil,
                                                   FURNACE_EMISSION_LAUNCH_RATE, FURNACE_EMISSION_FLOOR)
    BY DEF KingToDate, kingEmitted, FurnaceToDate, furnaceEmitted
  <2>4. /\ TwoD * KingToDate <= kingExact + TwoD * openSeconds
        /\ NotForfeited(KingToDate, kingExact, KING_EMISSION_FLOOR)
    BY <2>2, <2>3, BothFall DEF EmissionInv
  <2>5. /\ TwoD * FurnaceToDate <= furnaceExact + TwoD * openSeconds
        /\ NotForfeited(FurnaceToDate, furnaceExact, FURNACE_EMISSION_FLOOR)
    BY <2>2, <2>3, BothFall DEF EmissionInv
  <2> QED
    BY <2>4, <2>5 DEF EmissionIsExact, NeverOverMints, NoOpenSecondForfeited
<1> QED
  BY <1>1, EmissionHolds, PTL
=============================================================================
