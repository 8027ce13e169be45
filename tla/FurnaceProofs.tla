---------------------------- MODULE FurnaceProofs ----------------------------
(***************************************************************************)
(* The Furnace's money, for any number of users and vaults, any window,    *)
(* any quotes and any times between transactions: it holds what it says    *)
(* it holds, no sync ever clamps the reserve, each vault gets exactly what *)
(* it was promised, and sales stay under the daily cap.                    *)
(***************************************************************************)
EXTENDS Furnace, TLAPS

-----------------------------------------------------------------------------
(* The contract x while a transaction works on it.  What it has promised   *)
(* to somebody and not yet paid out is loose: a balance without a name.    *)
Fields ==
  {"reserve", "balance", "vault", "rate", "finish", "carry", "last", "dripAt", "soldDay", "sold",
   "rewireAt", "rewireTo", "sent", "funded", "stranded", "delivered", "surplus", "log"}
Numbers(x) ==
  /\ {x.reserve, x.balance, x.rate, x.finish, x.carry, x.last, x.dripAt, x.sold, x.surplus} \subseteq Nat
  /\ x.vault \in Vaults \cup {NoVault}
  /\ x.rewireTo \in Vaults \cup {NoVault} /\ (x.rewireAt # 0 => x.rewireTo \in Vaults)
  /\ {x.sent, x.funded, x.stranded} \subseteq [Vaults -> Nat]
Owed(x) == IF x.rate # 0 THEN x.carry + (x.finish - x.last) * x.rate ELSE x.carry
Promises(x) ==
  \A v \in Vaults : x.funded[v] = x.sent[v] + x.stranded[v] + (IF x.vault = v THEN Owed(x) ELSE 0)
Kept(x, loose) ==
  /\ clock \in Nat /\ Fields \subseteq DOMAIN x /\ Numbers(x)
  /\ x.balance = x.reserve + Owed(x) + x.surplus + loose
  /\ Promises(x)
  /\ x.last <= clock /\ (x.rate # 0 => x.finish > x.last)
  /\ x.vault = NoVault => x.rate = 0 /\ x.carry = 0
  /\ x.sold <= SALECAP
Current(x) == x.rate = 0 \/ x.last = clock
Settled(x, y) == y.reserve = x.reserve /\ y.vault = x.vault /\ y.soldDay = x.soldDay /\ y.sold = x.sold

LEMMA OwedIsNat == ASSUME NEW x, NEW s, Kept(x, s) PROVE Owed(x) \in Nat
<1>1. CASE x.rate = 0
  BY <1>1 DEF Kept, Numbers, Owed
<1>2. CASE x.rate # 0
  <2>1. x.finish - x.last \in Nat /\ x.rate \in Nat /\ x.carry \in Nat
    BY <1>2 DEF Kept, Numbers
  <2>2. (x.finish - x.last) * x.rate \in Nat
    BY <2>1
  <2> QED
    BY <1>2, <2>1, <2>2 DEF Owed
<1> QED
  BY <1>1, <1>2

LEMMA OwedIsLiability == ASSUME NEW x, NEW s, Kept(x, s) PROVE lpStreamLiability(x) = Owed(x)
BY DEF Kept, Numbers, Owed, lpStreamLiability

LEMMA Distributes == ASSUME NEW a \in Int, NEW b \in Int, NEW r \in Int PROVE (a + b) * r = a * r + b * r
OBVIOUS

LEMMA Divides ==
  ASSUME NEW n \in Nat, NEW w \in Nat, w > 0
  PROVE  n \div w \in Nat /\ n % w \in Nat /\ n % w = n - w * (n \div w)
<1>1. n \div w \in Nat
  OBVIOUS
<1>2. n % w \in Nat
  OBVIOUS
<1>3. n % w = n - w * (n \div w)
  OBVIOUS
<1> QED
  BY <1>1, <1>2, <1>3

(* An entry in the log is no money.                                        *)
LEMMA LoggedIsKept ==
  ASSUME NEW x, NEW e, NEW s, Kept(x, s)
  PROVE  /\ Kept(Logged(x, e), s) /\ Settled(x, Logged(x, e))
         /\ Current(x) => Current(Logged(x, e))
<1> DEFINE l == Append(x.log, e)
           y == [x EXCEPT !.log = l]
<1>1. Logged(x, e) = y
  BY DEF Logged
<1> HIDE DEF l
<1>2. Fields \subseteq DOMAIN y /\ \A f \in Fields \ {"log"} : y[f] = x[f]
  BY DEF Kept
<1> HIDE DEF y
<1>3. /\ y.reserve = x.reserve /\ y.balance = x.balance /\ y.vault = x.vault /\ y.rate = x.rate
      /\ y.finish = x.finish /\ y.carry = x.carry /\ y.last = x.last /\ y.dripAt = x.dripAt
      /\ y.soldDay = x.soldDay /\ y.sold = x.sold /\ y.rewireAt = x.rewireAt
      /\ y.rewireTo = x.rewireTo /\ y.sent = x.sent /\ y.funded = x.funded
      /\ y.stranded = x.stranded /\ y.surplus = x.surplus
  BY <1>2 DEF Fields
<1> QED
  BY <1>1, <1>2, <1>3 DEF Kept, Numbers, Owed, Promises, Settled, Current

(* What y has kept of x.                                                   *)
Alike(x, y, names) == Fields \subseteq DOMAIN y /\ \A f \in Fields \ names : y[f] = x[f]

LEMMA StreamAccrues ==
  ASSUME NEW x, NEW s \in Nat, Kept(x, s), NEW y, y = _accrueLpStream(x)
  PROVE  Kept(y, s) /\ Settled(x, y) /\ Current(y)
<1> DEFINE t == Smaller(clock, x.finish)
           streamed == (t - x.last) * x.rate
<1>1. CASE x.vault = NoVault \/ (x.rate # 0 /\ clock <= x.last)
  <2>1. y = x
    BY <1>1 DEF _accrueLpStream, Kept, Numbers
  <2> QED
    BY <1>1, <2>1 DEF Kept, Settled, Current, Numbers
<1>2. CASE x.vault # NoVault /\ x.rate = 0
  <2>1. y = [x EXCEPT !.last = clock]
    BY <1>2 DEF _accrueLpStream
  <2>2. Alike(x, y, {"last"}) /\ y.last = clock
    BY <2>1 DEF Kept, Alike, Fields
  <2>3. /\ y.reserve = x.reserve /\ y.balance = x.balance /\ y.vault = x.vault /\ y.rate = x.rate
        /\ y.finish = x.finish /\ y.carry = x.carry /\ y.dripAt = x.dripAt
        /\ y.soldDay = x.soldDay /\ y.sold = x.sold /\ y.rewireAt = x.rewireAt
        /\ y.rewireTo = x.rewireTo /\ y.sent = x.sent /\ y.funded = x.funded
        /\ y.stranded = x.stranded /\ y.surplus = x.surplus
    BY <2>2 DEF Alike, Fields
  <2> QED
    BY <1>2, <2>2, <2>3 DEF Kept, Numbers, Owed, Promises, Settled, Current, Alike
<1>3. CASE x.vault # NoVault /\ x.rate # 0 /\ clock > x.last
  <2> DEFINE v == x.vault
             r == IF t >= x.finish THEN 0 ELSE x.rate
             e == IF t >= x.finish THEN 0 ELSE x.finish
             m == x.sent[v] + streamed
             b == x.balance - streamed
  <2>1. /\ clock \in Nat /\ x.last \in Nat /\ x.finish \in Nat /\ x.rate \in Nat /\ x.carry \in Nat
        /\ x.balance \in Nat /\ x.reserve \in Nat /\ x.surplus \in Nat
        /\ x.finish > x.last /\ x.finish # 0 /\ v \in Vaults
        /\ Fields \subseteq DOMAIN x
    BY <1>3 DEF Kept, Numbers
  <2>2. t \in Nat /\ x.last < t /\ t <= clock /\ t <= x.finish /\ (t < x.finish => t = clock)
    BY <1>3, <2>1 DEF Smaller
  <2>3. y = [x EXCEPT !.last = t, !.balance = b, !.sent[v] = m, !.rate = r, !.finish = e]
    BY <1>3, <2>1, <2>2 DEF _accrueLpStream
  <2>4. streamed \in Nat /\ Owed(x) = x.carry + streamed + (x.finish - t) * x.rate
    <3>1. t - x.last \in Nat /\ x.finish - t \in Nat
      BY <2>1, <2>2
    <3>2. streamed \in Nat /\ (x.finish - t) * x.rate \in Nat
      BY <2>1, <3>1
    <3>3. ((t - x.last) + (x.finish - t)) * x.rate = streamed + (x.finish - t) * x.rate
      BY <2>1, <3>1, Distributes
    <3>4. (t - x.last) + (x.finish - t) = x.finish - x.last
      BY <2>1, <2>2
    <3> HIDE DEF streamed, t
    <3> QED
      BY <1>3, <2>1, <3>2, <3>3, <3>4 DEF Owed
  <2> HIDE DEF t, streamed, r, e, m, b
  <2>5. /\ Alike(x, y, {"last", "balance", "sent", "rate", "finish"})
        /\ y.last = t /\ y.balance = b /\ y.rate = r /\ y.finish = e
        /\ y.sent = [x.sent EXCEPT ![v] = m]
    BY <2>1, <2>3 DEF Alike, Fields
  <2>6. /\ y.reserve = x.reserve /\ y.vault = x.vault /\ y.carry = x.carry /\ y.dripAt = x.dripAt
        /\ y.soldDay = x.soldDay /\ y.sold = x.sold /\ y.rewireAt = x.rewireAt
        /\ y.rewireTo = x.rewireTo /\ y.funded = x.funded
        /\ y.stranded = x.stranded /\ y.surplus = x.surplus
    BY <2>5 DEF Alike, Fields
  <2>7. Owed(y) = x.carry + (x.finish - t) * x.rate /\ Owed(x) = Owed(y) + streamed
    <3>1. CASE t >= x.finish
      <4>1. y.rate = 0 /\ x.finish - t = 0
        BY <2>1, <2>2, <2>5, <3>1 DEF r
      <4> QED
        BY <2>1, <2>4, <2>6, <4>1 DEF Owed
    <3>2. CASE t < x.finish
      <4>1. y.rate = x.rate /\ y.finish = x.finish
        BY <2>1, <2>2, <2>5, <3>2 DEF r, e
      <4>2. x.finish - t \in Nat /\ (x.finish - t) * x.rate \in Nat
        BY <2>1, <2>2
      <4> QED
        BY <1>3, <2>1, <2>4, <2>5, <2>6, <4>1, <4>2 DEF Owed
    <3> QED
      BY <2>1, <2>2, <3>1, <3>2
  <2>8. Owed(x) \in Nat /\ Owed(y) \in Nat
    <3>1. x.finish - t \in Nat
      BY <2>1, <2>2
    <3>2. (x.finish - t) * x.rate \in Nat
      BY <2>1, <3>1
    <3> QED
      BY <2>1, <2>7, <3>2, OwedIsNat
  <2>9. b \in Nat /\ b = y.reserve + Owed(y) + y.surplus + s
    BY <2>1, <2>4, <2>6, <2>7, <2>8 DEF b, Kept
  <2>10. /\ x.sent \in [Vaults -> Nat] /\ m \in Nat /\ m = x.sent[v] + streamed
         /\ y.sent \in [Vaults -> Nat] /\ y.sent[v] = m
         /\ \A w \in Vaults : w # v => y.sent[w] = x.sent[w]
    <3>1. x.sent \in [Vaults -> Nat]
      BY DEF Kept, Numbers
    <3>2. m \in Nat /\ m = x.sent[v] + streamed
      BY <2>1, <2>4, <3>1 DEF m
    <3> QED
      BY <2>1, <2>5, <3>1, <3>2
  <2>11. Promises(y)
    <3> SUFFICES ASSUME NEW w \in Vaults
                 PROVE  y.funded[w] = y.sent[w] + y.stranded[w] + (IF y.vault = w THEN Owed(y) ELSE 0)
      BY DEF Promises
    <3>1. x.funded[w] = x.sent[w] + x.stranded[w] + (IF x.vault = w THEN Owed(x) ELSE 0)
      BY DEF Kept, Promises
    <3>2. x.sent[w] \in Nat /\ x.stranded[w] \in Nat
      BY DEF Kept, Numbers
    <3>3. CASE w = v
      BY <2>4, <2>6, <2>7, <2>8, <2>10, <3>1, <3>2, <3>3
    <3>4. CASE w # v
      BY <2>6, <2>10, <3>1, <3>2, <3>4
    <3> QED
      BY <3>3, <3>4
  <2>12. Numbers(y)
    BY <2>1, <2>2, <2>5, <2>6, <2>9, <2>10 DEF Kept, Numbers, r, e
  <2>13. Current(y) /\ (y.rate # 0 => y.finish > y.last) /\ y.last <= clock
    BY <2>1, <2>2, <2>5 DEF Current, r, e
  <2> QED
    BY <2>5, <2>6, <2>9, <2>11, <2>12, <2>13, <1>3 DEF Kept, Settled, Alike
<1>4. (x.vault = NoVault => x.rate = 0) /\ x.last \in Nat /\ clock \in Nat /\ x.rate \in Nat
  BY DEF Kept, Numbers
<1> QED
  BY <1>1, <1>2, <1>3, <1>4

(* A new schedule owes what the old one still did and what is added.       *)
LEMMA StreamFunded ==
  ASSUME NEW x, NEW a \in Nat, NEW s \in Nat, Kept(x, a + s), Current(x), x.vault = NoVault => a = 0,
         NEW y, y = _fundLpStreamInternal(x, a)
  PROVE  Kept(y, s) /\ Settled(x, y) /\ Current(y)
<1>1. CASE x.vault = NoVault \/ (a = 0 /\ x.carry = 0)
  <2>1. y = x /\ a + s = s
    BY <1>1 DEF _fundLpStreamInternal
  <2> QED
    BY <2>1 DEF Settled
<1>2. CASE ~(x.vault = NoVault \/ (a = 0 /\ x.carry = 0))
  <2> DEFINE v == x.vault
             total == Remaining(x) + a + x.carry
             rate == total \div STREAMWINDOW
             carry == total % STREAMWINDOW
             finish == clock + STREAMWINDOW
             m == x.funded[v] + a
             z == [x EXCEPT !.rate = rate, !.carry = carry, !.finish = finish, !.last = clock,
                            !.funded[v] = m]
             e == [k |-> "LpStreamFunded", rate |-> rate, finish |-> finish]
  <2>1. /\ clock \in Nat /\ x.last \in Nat /\ x.finish \in Nat /\ x.rate \in Nat /\ x.carry \in Nat
        /\ x.balance \in Nat /\ x.reserve \in Nat /\ x.surplus \in Nat /\ v \in Vaults
        /\ Fields \subseteq DOMAIN x /\ Owed(x) \in Nat
        /\ STREAMWINDOW \in Nat /\ STREAMWINDOW > 0
    BY <1>2, OwedIsNat, FurnaceAssumption DEF Kept, Numbers
  <2>2. total = Owed(x) + a
    <3>1. CASE x.rate = 0
      BY <2>1, <3>1 DEF Remaining, Owed
    <3>2. CASE x.rate # 0
      <4>1. x.last = clock /\ x.finish > clock
        BY <3>2 DEF Current, Kept
      <4>2. (x.finish - clock) * x.rate \in Nat
        BY <2>1, <4>1
      <4> QED
        BY <2>1, <3>2, <4>1, <4>2 DEF Remaining, Owed
    <3> QED
      BY <3>1, <3>2
  <2>3. y = Logged(z, e)
    BY <1>2 DEF _fundLpStreamInternal
  <2> HIDE DEF total
  <2>4. total \in Nat /\ rate \in Nat /\ carry \in Nat /\ carry = total - STREAMWINDOW * rate
    <3>1. total \in Nat
      BY <2>1, <2>2
    <3>2. \A n \in Nat : LET q == n \div STREAMWINDOW r == n % STREAMWINDOW
                         IN  q \in Nat /\ r \in Nat /\ r = n - STREAMWINDOW * q
      BY <2>1, Divides
    <3> QED
      BY <3>1, <3>2
  <2>5. finish \in Nat /\ finish > clock /\ finish - clock = STREAMWINDOW
    BY <2>1
  <2> HIDE DEF z, rate, carry, finish, m, e
  <2>6. /\ Alike(x, z, {"rate", "carry", "finish", "last", "funded"})
        /\ z.rate = rate /\ z.carry = carry /\ z.finish = finish /\ z.last = clock
        /\ z.funded = [x.funded EXCEPT ![v] = m]
    BY <2>1 DEF Alike, Fields, z
  <2>7. /\ z.reserve = x.reserve /\ z.balance = x.balance /\ z.vault = x.vault /\ z.dripAt = x.dripAt
        /\ z.soldDay = x.soldDay /\ z.sold = x.sold /\ z.rewireAt = x.rewireAt
        /\ z.rewireTo = x.rewireTo /\ z.sent = x.sent
        /\ z.stranded = x.stranded /\ z.surplus = x.surplus
    BY <2>6 DEF Alike, Fields
  <2>8. Owed(z) = Owed(x) + a
    <3>1. CASE rate = 0
      BY <2>1, <2>2, <2>4, <2>6, <3>1 DEF Owed
    <3>2. CASE rate # 0
      <4>1. (finish - clock) * rate = STREAMWINDOW * rate /\ STREAMWINDOW * rate \in Nat
        BY <2>1, <2>4, <2>5
      <4>2. Owed(z) = carry + (finish - clock) * rate
        BY <2>6, <3>2 DEF Owed
      <4>3. Owed(z) = total
        BY <2>4, <4>1, <4>2
      <4> QED
        BY <2>2, <4>3
    <3> QED
      BY <3>1, <3>2
  <2>9. /\ x.funded \in [Vaults -> Nat] /\ m \in Nat /\ m = x.funded[v] + a
        /\ z.funded \in [Vaults -> Nat] /\ z.funded[v] = m
        /\ \A w \in Vaults : w # v => z.funded[w] = x.funded[w]
    <3>1. x.funded \in [Vaults -> Nat]
      BY DEF Kept, Numbers
    <3>2. m \in Nat /\ m = x.funded[v] + a
      BY <2>1, <3>1 DEF m
    <3> QED
      BY <2>1, <2>6, <3>1, <3>2
  <2>10. Promises(z)
    <3> SUFFICES ASSUME NEW w \in Vaults
                 PROVE  z.funded[w] = z.sent[w] + z.stranded[w] + (IF z.vault = w THEN Owed(z) ELSE 0)
      BY DEF Promises
    <3>1. x.funded[w] = x.sent[w] + x.stranded[w] + (IF x.vault = w THEN Owed(x) ELSE 0)
      BY DEF Kept, Promises
    <3>2. x.sent[w] \in Nat /\ x.stranded[w] \in Nat
      BY DEF Kept, Numbers
    <3>3. CASE w = v
      BY <2>1, <2>7, <2>8, <2>9, <3>1, <3>2, <3>3
    <3>4. CASE w # v
      BY <2>7, <2>9, <3>1, <3>2, <3>4
    <3> QED
      BY <3>3, <3>4
  <2>11. z.balance = z.reserve + Owed(z) + z.surplus + s
    BY <2>1, <2>7, <2>8 DEF Kept
  <2>12. Numbers(z)
    BY <2>1, <2>4, <2>5, <2>6, <2>7, <2>9 DEF Kept, Numbers
  <2>13. Kept(z, s) /\ Settled(x, z) /\ Current(z)
    BY <1>2, <2>1, <2>5, <2>6, <2>7, <2>10, <2>11, <2>12 DEF Kept, Settled, Current, Alike
  <2> QED
    BY <2>3, <2>13, LoggedIsKept DEF Settled
<1> QED
  BY <1>1, <1>2

(* The reserve and what is loose are two sides of the same balance.        *)
LEMMA ReserveMoves ==
  ASSUME NEW x, NEW s \in Nat, NEW n \in Nat, NEW l \in Nat, Kept(x, s),
         n + l = x.reserve + s, NEW y, y = [x EXCEPT !.reserve = n]
  PROVE  /\ Kept(y, l) /\ y.reserve = n /\ y.vault = x.vault /\ y.soldDay = x.soldDay
         /\ y.sold = x.sold /\ (Current(x) => Current(y)) /\ y.dripAt = x.dripAt /\ y.carry = x.carry
<1>1. Alike(x, y, {"reserve"}) /\ y.reserve = n
  BY DEF Kept, Alike, Fields
<1>2. /\ y.balance = x.balance /\ y.vault = x.vault /\ y.rate = x.rate /\ y.last = x.last
      /\ y.finish = x.finish /\ y.carry = x.carry /\ y.dripAt = x.dripAt
      /\ y.soldDay = x.soldDay /\ y.sold = x.sold /\ y.rewireAt = x.rewireAt
      /\ y.rewireTo = x.rewireTo /\ y.sent = x.sent /\ y.funded = x.funded
      /\ y.stranded = x.stranded /\ y.surplus = x.surplus
  BY <1>1 DEF Alike, Fields
<1>3. Owed(y) = Owed(x) /\ Owed(x) \in Nat
  BY <1>2, OwedIsNat DEF Owed
<1>4. y.balance = y.reserve + Owed(y) + y.surplus + l
  BY <1>1, <1>2, <1>3 DEF Kept, Numbers
<1>5. Numbers(y) /\ Promises(y)
  BY <1>1, <1>2, <1>3 DEF Kept, Numbers, Promises
<1> QED
  BY <1>1, <1>2, <1>4, <1>5 DEF Kept, Alike, Current

(* CLAIM comes in or goes out.                                             *)
LEMMA BalanceMoves ==
  ASSUME NEW x, NEW s \in Nat, NEW b \in Nat, NEW l \in Nat, Kept(x, s),
         b + s = x.balance + l, NEW y, y = [x EXCEPT !.balance = b]
  PROVE  /\ Kept(y, l) /\ y.reserve = x.reserve /\ y.vault = x.vault /\ y.soldDay = x.soldDay
         /\ y.sold = x.sold /\ (Current(x) => Current(y)) /\ y.balance = b
<1>1. Alike(x, y, {"balance"}) /\ y.balance = b
  BY DEF Kept, Alike, Fields
<1>2. /\ y.reserve = x.reserve /\ y.vault = x.vault /\ y.rate = x.rate /\ y.last = x.last
      /\ y.finish = x.finish /\ y.carry = x.carry /\ y.dripAt = x.dripAt
      /\ y.soldDay = x.soldDay /\ y.sold = x.sold /\ y.rewireAt = x.rewireAt
      /\ y.rewireTo = x.rewireTo /\ y.sent = x.sent /\ y.funded = x.funded
      /\ y.stranded = x.stranded /\ y.surplus = x.surplus
  BY <1>1 DEF Alike, Fields
<1>3. Owed(y) = Owed(x) /\ Owed(x) \in Nat
  BY <1>2, OwedIsNat DEF Owed
<1>4. y.balance = y.reserve + Owed(y) + y.surplus + l
  BY <1>1, <1>2, <1>3 DEF Kept, Numbers
<1>5. Numbers(y) /\ Promises(y)
  BY <1>1, <1>2, <1>3 DEF Kept, Numbers, Promises
<1> QED
  BY <1>1, <1>2, <1>4, <1>5 DEF Kept, Alike, Current

(* Fields no money depends on.                                             *)
LEMMA SideMoves ==
  ASSUME NEW x, NEW s, Kept(x, s), NEW f \in {"delivered", "soldDay", "dripAt", "sold", "log"},
         NEW n, f = "dripAt" => n \in Nat, f = "sold" => n \in Nat /\ n <= SALECAP,
         NEW y, y = [x EXCEPT ![f] = n]
  PROVE  /\ Kept(y, s) /\ y.reserve = x.reserve /\ y.balance = x.balance /\ y.vault = x.vault
         /\ (Current(x) => Current(y))
<1>1. Alike(x, y, {f}) /\ y[f] = n
  BY DEF Kept, Alike, Fields
<1>2. /\ y.balance = x.balance /\ y.vault = x.vault /\ y.rate = x.rate /\ y.last = x.last
      /\ y.finish = x.finish /\ y.carry = x.carry /\ y.reserve = x.reserve
      /\ y.rewireAt = x.rewireAt
      /\ y.rewireTo = x.rewireTo /\ y.sent = x.sent /\ y.funded = x.funded
      /\ y.stranded = x.stranded /\ y.surplus = x.surplus
  BY <1>1 DEF Alike, Fields
<1>3. y.dripAt \in Nat
  BY <1>1 DEF Alike, Fields, Kept, Numbers
<1>4. y.sold \in Nat /\ y.sold <= SALECAP
  BY <1>1 DEF Alike, Fields, Kept, Numbers
<1> QED
  BY <1>1, <1>2, <1>3, <1>4 DEF Kept, Numbers, Promises, Alike, Current, Owed

(* With nothing missing there is nothing to clamp.                         *)
LEMMA SyncChangesNothing ==
  ASSUME NEW x, NEW s \in Nat, Kept(x, s)
  PROVE  _syncFurnaceReserve(x) = x
<1>1. lpStreamLiability(x) = Owed(x) /\ Owed(x) \in Nat
  BY OwedIsLiability, OwedIsNat
<1>2. x.reserve <= Over(x.balance, lpStreamLiability(x))
  BY <1>1 DEF Kept, Numbers, Over
<1> QED
  BY <1>2 DEF _syncFurnaceReserve

LEMMA DripAccrues ==
  ASSUME NEW x, NEW s \in Nat, Kept(x, s), NEW y, y = _accrueLpOverflowDrip(x)
  PROVE  Kept(y, s) /\ Current(y) /\ y.vault = x.vault
<1> DEFINE w == _accrueLpStream(x)
           dripped == PendingDrip(w)
           z == IF clock > w.dripAt THEN [w EXCEPT !.dripAt = clock] ELSE w
           n == z.reserve - dripped
           r == [z EXCEPT !.reserve = n]
           f == _fundLpStreamInternal(r, dripped)
           e == [k |-> "LpOverflowDripPaid", a |-> dripped, after |-> n]
<1>1. Kept(w, s) /\ Current(w) /\ w.vault = x.vault
  BY StreamAccrues DEF Settled
<1>2. y = IF dripped = 0 THEN z ELSE Logged(f, e)
  BY DEF _accrueLpOverflowDrip
<1> HIDE DEF w
<1>3. /\ clock \in Nat /\ w.dripAt \in Nat /\ w.reserve \in Nat /\ DRIP \in Nat /\ TARGET \in Nat
  BY <1>1, FurnaceAssumption DEF Kept, Numbers
<1>4. dripped \in Nat /\ dripped <= w.reserve /\ (w.vault = NoVault => dripped = 0)
  <2>1. clock > w.dripAt => DRIP * (clock - w.dripAt) \in Nat
    BY <1>3
  <2>2. Over(w.reserve, TARGET) \in Nat /\ Over(w.reserve, TARGET) <= w.reserve
    BY <1>3 DEF Over
  <2> QED
    BY <1>3, <2>1, <2>2 DEF PendingDrip, Smaller
<1> HIDE DEF dripped
<1>5. Kept(z, s) /\ Current(z) /\ z.vault = x.vault /\ z.reserve = w.reserve
  <2>1. CASE clock > w.dripAt
    <3> DEFINE g == [w EXCEPT !.dripAt = clock]
    <3>1. Kept(g, s) /\ Current(g) /\ g.vault = w.vault /\ g.reserve = w.reserve
      BY <1>1, <1>3, SideMoves
    <3> QED
      BY <1>1, <2>1, <3>1
  <2>2. CASE ~(clock > w.dripAt)
    BY <1>1, <2>2
  <2> QED
    BY <2>1, <2>2
<1> HIDE DEF z
<1>6. n \in Nat /\ dripped + s \in Nat /\ n + (dripped + s) = z.reserve + s
  BY <1>3, <1>4, <1>5
<1>7. Kept(r, dripped + s) /\ Current(r) /\ r.vault = x.vault
  <2> HIDE DEF n
  <2> QED
    BY <1>5, <1>6, ReserveMoves
<1> HIDE DEF r, n
<1>8. Kept(f, s) /\ Current(f) /\ f.vault = x.vault
  BY <1>1, <1>4, <1>7, StreamFunded DEF Settled
<1> HIDE DEF f, e
<1>9. Kept(Logged(f, e), s) /\ Current(Logged(f, e)) /\ Logged(f, e).vault = x.vault
  BY <1>8, LoggedIsKept DEF Settled
<1> QED
  BY <1>2, <1>5, <1>9

(* What the quoter answers, at most the reserve.                           *)
LEMMA PaidIsInReserve ==
  ASSUME NEW x, NEW s, Kept(x, s), NEW b \in Bonuses
  PROVE  /\ Paid(x, b).user \in Nat /\ Paid(x, b).lp \in Nat
         /\ Paid(x, b).user + Paid(x, b).lp <= x.reserve
         /\ x.vault = NoVault => Paid(x, b).lp = 0
<1>1. b.user \in Nat /\ b.lp \in Nat /\ x.reserve \in Nat
  BY FurnaceAssumption DEF Kept, Numbers
<1> QED
  BY <1>1 DEF Paid, Smaller

LEMMA BonusIsLoose ==
  ASSUME NEW x, NEW s \in Nat, Kept(x, s), NEW u, NEW b \in Bonuses,
         NEW y, y = _applyBonusAmm(x, u, b)
  PROVE  BonusOf(x, b) \in Nat /\ Kept(y, BonusOf(x, b) + s) /\ Current(y)
<1> DEFINE w == _accrueLpOverflowDrip(x)
           user == Paid(w, b).user
           lp == Paid(w, b).lp
           n == w.reserve - (user + lp)
           z == [w EXCEPT !.reserve = n]
           f == IF lp = 0 THEN z ELSE _fundLpStreamInternal(z, lp)
           e == [k |-> "BonusPaid", tx |-> touches, u |-> u, user |-> user, lp |-> lp,
                 after |-> f.reserve, quote |-> w.reserve]
<1>1. Kept(w, s) /\ Current(w) /\ w.vault = x.vault
  BY DripAccrues
<1>2. y = IF user + lp = 0 THEN f ELSE Logged(f, e)
  BY DEF _applyBonusAmm
<1>3. BonusOf(x, b) = user
  BY DEF BonusOf
<1> HIDE DEF w
<1>4. user \in Nat /\ lp \in Nat /\ user + lp <= w.reserve /\ (w.vault = NoVault => lp = 0)
  BY <1>1, PaidIsInReserve
<1> HIDE DEF user, lp
<1>5. /\ n \in Nat /\ user + s \in Nat /\ lp + (user + s) \in Nat /\ w.reserve \in Nat
      /\ n + (lp + (user + s)) = w.reserve + s
  BY <1>1, <1>4 DEF Kept, Numbers
<1> HIDE DEF n
<1>6. Kept(z, lp + (user + s)) /\ Current(z) /\ z.vault = w.vault
  BY <1>1, <1>5, ReserveMoves
<1> HIDE DEF z
<1>7. Kept(f, user + s) /\ Current(f)
  <2>1. CASE lp = 0
    BY <1>5, <1>6, <2>1
  <2>2. CASE lp # 0
    <3> DEFINE g == _fundLpStreamInternal(z, lp)
    <3>1. Kept(g, user + s) /\ Current(g)
      BY <1>4, <1>5, <1>6, StreamFunded
    <3> QED
      BY <2>2, <3>1
  <2> QED
    BY <2>1, <2>2
<1> HIDE DEF f, e
<1>8. Kept(Logged(f, e), user + s) /\ Current(Logged(f, e))
  BY <1>7, LoggedIsKept
<1> QED
  BY <1>2, <1>3, <1>4, <1>7, <1>8

LEMMA DeliverSettles ==
  ASSUME NEW x, NEW a \in Nat, NEW s \in Nat, Kept(x, a + s)
  PROVE  Kept(Deliver(x, a), s)
<1> DEFINE b == x.balance - a
           d == x.delivered + a
           y == [x EXCEPT !.balance = b]
           z == [y EXCEPT !.delivered = d]
<1>1. Deliver(x, a) = z
  BY DEF Deliver
<1>2. b \in Nat /\ a + s \in Nat /\ b + (a + s) = x.balance + s
  <2>1. Owed(x) \in Nat /\ x.reserve \in Nat /\ x.surplus \in Nat /\ x.balance \in Nat
    BY OwedIsNat DEF Kept, Numbers
  <2> QED
    BY <2>1 DEF Kept
<1> HIDE DEF b, d
<1>3. Kept(y, s)
  BY <1>2, BalanceMoves
<1> HIDE DEF y
<1>4. Kept(z, s)
  BY <1>3, SideMoves
<1> QED
  BY <1>1, <1>4

LEMMA DeliverOrRefundSettles ==
  ASSUME NEW x, NEW a \in Nat, NEW s \in Nat, Kept(x, a + s)
  PROVE  Kept(DeliverOrRefund(x, a), s)
<1>1. CASE a >= MINTOPUP
  BY <1>1, DeliverSettles DEF DeliverOrRefund
<1>2. CASE ~(a >= MINTOPUP)
  <2> DEFINE n == x.reserve + a
             y == [x EXCEPT !.reserve = n]
  <2>1. n \in Nat /\ a + s \in Nat /\ n + s = x.reserve + (a + s)
    BY DEF Kept, Numbers
  <2>2. DeliverOrRefund(x, a) = y
    BY <1>2 DEF DeliverOrRefund
  <2> HIDE DEF n
  <2> QED
    BY <2>1, <2>2, ReserveMoves
<1> QED
  BY <1>1, <1>2

(* One claim of a batch, and the batch.                                    *)
LEMMA ClaimSettles ==
  ASSUME NEW x, NEW s \in Nat, Kept(x, s), NEW c \in Claims
  PROVE  Kept(_claimAutoMaxBonusCore(x, c), s)
<1> DEFINE a == BonusOf(x, c.b)
           y == _applyBonusAmm(x, c.u, c.b)
           d == DeliverOrRefund(y, a)
           e == [k |-> "AutoMaxBonusClaimed", tx |-> touches, u |-> c.u, user |-> Delivered(a)]
<1>1. _claimAutoMaxBonusCore(x, c) = IF a = 0 THEN x ELSE Logged(d, e)
  BY DEF _claimAutoMaxBonusCore
<1>2. c.b \in Bonuses
  BY DEF Claims
<1>3. a \in Nat /\ Kept(y, a + s)
  BY <1>2, BonusIsLoose
<1> HIDE DEF a, y
<1>4. Kept(d, s)
  BY <1>3, DeliverOrRefundSettles
<1> HIDE DEF d, e
<1>5. Kept(Logged(d, e), s)
  BY <1>4, LoggedIsKept
<1> QED
  BY <1>1, <1>5

LEMMA BatchSettles ==
  ASSUME NEW x, Kept(x, 0), NEW cs \in Batches
  PROVE  Kept(ClaimedInTurn(x, cs), 0)
<1> DEFINE Step(f) == f = [k \in 0..Len(cs) |->
             IF k = 0 THEN x ELSE _claimAutoMaxBonusCore(f[k - 1], cs[k])]
           after == CHOOSE f : Step(f)
           first == _claimAutoMaxBonusCore(x, cs[1])
           second == _claimAutoMaxBonusCore(first, cs[2])
           g == [k \in 0..Len(cs) |-> IF k = 0 THEN x ELSE IF k = 1 THEN first ELSE second]
<1>1. ClaimedInTurn(x, cs) = after[Len(cs)]
  BY DEF ClaimedInTurn
<1>2. Len(cs) \in {1, 2} /\ \A k \in 1..Len(cs) : cs[k] \in Claims
  BY DEF Batches
<1>3. Step(g)
  <2> DEFINE h == [k \in 0..Len(cs) |-> IF k = 0 THEN x ELSE _claimAutoMaxBonusCore(g[k - 1], cs[k])]
  <2>1. \A k \in 0..Len(cs) : g[k] = h[k]
    <3> TAKE k \in 0..Len(cs)
    <3>1. k = 0 \/ (k = 1 /\ g[k - 1] = x) \/ (k = 2 /\ g[k - 1] = first)
      BY <1>2
    <3> HIDE DEF first, second
    <3>2. CASE k = 0
      BY <3>2
    <3>3. CASE k = 1 /\ g[k - 1] = x
      BY <3>3 DEF first
    <3>4. CASE k = 2 /\ g[k - 1] = first
      BY <3>4 DEF second
    <3> QED
      BY <3>1, <3>2, <3>3, <3>4
  <2> QED
    BY <2>1
<1> HIDE DEF g
<1>4. Step(after)
  <2> HIDE DEF Step
  <2> QED
    BY <1>3, Zenon
<1>5. \A k \in 0..Len(cs) : after[k] = IF k = 0 THEN x ELSE _claimAutoMaxBonusCore(after[k - 1], cs[k])
  <2> HIDE DEF after
  <2> QED
    BY <1>4
<1> HIDE DEF after
<1>6. Kept(after[0], 0)
  BY <1>2, <1>5
<1>7. Kept(after[1], 0)
  <2>1. after[1] = _claimAutoMaxBonusCore(after[0], cs[1]) /\ cs[1] \in Claims
    BY <1>2, <1>5
  <2> QED
    BY <1>6, <2>1, ClaimSettles
<1>8. CASE Len(cs) = 2
  <2>1. after[2] = _claimAutoMaxBonusCore(after[1], cs[2]) /\ cs[2] \in Claims
    BY <1>8, <1>2, <1>5
  <2> QED
    BY <1>1, <1>7, <1>8, <2>1, ClaimSettles
<1> QED
  BY <1>1, <1>2, <1>7, <1>8

-----------------------------------------------------------------------------
(* Between transactions nothing is loose.                                  *)
FurnaceInv == Kept(furnace, 0)

LEMMA CallKeeps == ASSUME NEW x, Kept(x, 0), Call(x) PROVE FurnaceInv'
<1>1. furnace' = x /\ clock' = clock
  BY DEF Call
<1> QED
  BY <1>1 DEF FurnaceInv, Kept, Numbers, Promises, Owed

LEMMA InitiallyKept == ASSUME FurnaceInit PROVE FurnaceInv
<1> DEFINE x == EmptyFurnace
           none == [v \in Vaults |-> 0]
<1>1. furnace = x /\ clock \in Nat
  BY FurnaceAssumption DEF FurnaceInit
<1>2. /\ Fields \subseteq DOMAIN x
      /\ x.reserve = 0 /\ x.balance = 0 /\ x.vault = NoVault /\ x.rate = 0 /\ x.finish = 0
      /\ x.carry = 0 /\ x.last = clock /\ x.dripAt = clock /\ x.sold = 0 /\ x.surplus = 0
      /\ x.rewireAt = 0 /\ x.rewireTo = NoVault /\ x.sent = none /\ x.funded = none
      /\ x.stranded = none
  BY DEF EmptyFurnace, Fields
<1> HIDE DEF x
<1>3. none \in [Vaults -> Nat] /\ \A v \in Vaults : none[v] = 0 /\ v # NoVault
  BY FurnaceAssumption
<1> HIDE DEF none
<1>4. Owed(x) = 0
  BY <1>2 DEF Owed
<1>5. Promises(x) /\ Numbers(x)
  BY <1>1, <1>2, <1>3, <1>4 DEF Promises, Numbers
<1>6. Kept(x, 0)
  BY <1>1, <1>2, <1>4, <1>5, FurnaceAssumption DEF Kept
<1> QED
  BY <1>1, <1>6 DEF FurnaceInv

LEMMA CreditKeeps ==
  ASSUME FurnaceInv, NEW a \in Credits, creditReserve(a)
  PROVE  FurnaceInv'
<1> DEFINE b == furnace.balance + a
           g == [furnace EXCEPT !.balance = b]
           x == _accrueLpOverflowDrip(g)
           n == x.reserve + a
           r == [x EXCEPT !.reserve = n]
           y == _syncFurnaceReserve(r)
           e == [k |-> "ReserveCredited", after |-> y.reserve]
<1>1. Call(IF a = 0 THEN x ELSE Logged(y, e))
  BY DEF creditReserve
<1>2. a \in Nat /\ b \in Nat /\ 0 \in Nat /\ b + 0 = furnace.balance + a /\ Kept(furnace, 0)
  BY FurnaceAssumption DEF FurnaceInv, Kept, Numbers
<1> HIDE DEF b
<1>3. Kept(g, a)
  BY <1>2, BalanceMoves
<1> HIDE DEF g
<1>4. Kept(x, a)
  BY <1>2, <1>3, DripAccrues
<1> HIDE DEF x
<1>5. n \in Nat /\ n + 0 = x.reserve + a
  BY <1>2, <1>4 DEF Kept, Numbers
<1> HIDE DEF n
<1>6. Kept(r, 0)
  BY <1>2, <1>4, <1>5, ReserveMoves
<1>7. y = r
  BY <1>2, <1>6, SyncChangesNothing
<1> HIDE DEF e, y, r
<1>8. Kept(Logged(y, e), 0)
  BY <1>6, <1>7, LoggedIsKept
<1> QED
  BY <1>1, <1>4, <1>8, CallKeeps

LEMMA EnterKeeps ==
  ASSUME FurnaceInv, NEW u, NEW b \in Bonuses, Enter(u, b)
  PROVE  FurnaceInv'
<1> DEFINE a == BonusOf(furnace, b)
           x == _applyBonusAmm(furnace, u, b)
           d == Deliver(x, a)
           e == [k |-> "FurnaceEnter", tx |-> touches, u |-> u, user |-> a]
<1>1. Call(Logged(_syncFurnaceReserve(d), e))
  BY DEF Enter
<1>2. a \in Nat /\ Kept(x, a + 0)
  BY BonusIsLoose DEF FurnaceInv
<1> HIDE DEF a, x
<1>3. Kept(d, 0)
  BY <1>2, DeliverSettles
<1>4. _syncFurnaceReserve(d) = d
  BY <1>3, SyncChangesNothing
<1> HIDE DEF d, e
<1>5. Kept(Logged(d, e), 0)
  BY <1>3, LoggedIsKept
<1> QED
  BY <1>1, <1>4, <1>5, CallKeeps

LEMMA ExtendOrMergeKeeps ==
  ASSUME FurnaceInv, NEW kind, NEW u, NEW b \in Bonuses, NEW lengthens \in BOOLEAN,
         ExtendOrMerge(kind, u, b, lengthens)
  PROVE  FurnaceInv'
<1> DEFINE x == IF lengthens THEN _applyBonusAmm(furnace, u, b) ELSE furnace
           a == IF lengthens THEN BonusOf(furnace, b) ELSE 0
           d == DeliverOrRefund(x, a)
           e == [k |-> kind, tx |-> touches, u |-> u, user |-> Delivered(a)]
<1>1. Call(Logged(_syncFurnaceReserve(d), e))
  BY DEF ExtendOrMerge
<1>2. a \in Nat /\ Kept(x, a + 0)
  <2> DEFINE bonus == BonusOf(furnace, b)
             y == _applyBonusAmm(furnace, u, b)
  <2>1. bonus \in Nat /\ Kept(y, bonus + 0)
    BY BonusIsLoose DEF FurnaceInv
  <2>2. Kept(furnace, 0 + 0)
    BY DEF FurnaceInv
  <2> HIDE DEF bonus, y
  <2>3. x = (IF lengthens THEN y ELSE furnace) /\ a = (IF lengthens THEN bonus ELSE 0)
    BY DEF bonus, y
  <2> HIDE DEF x, a
  <2> QED
    BY <2>1, <2>2, <2>3
<1> HIDE DEF a, x
<1>3. Kept(d, 0)
  BY <1>2, DeliverOrRefundSettles
<1>4. _syncFurnaceReserve(d) = d
  BY <1>3, SyncChangesNothing
<1> HIDE DEF d, e
<1>5. Kept(Logged(d, e), 0)
  BY <1>3, LoggedIsKept
<1> QED
  BY <1>1, <1>4, <1>5, CallKeeps

LEMMA BatchKeeps ==
  ASSUME FurnaceInv, NEW cs \in Batches, ClaimAutoMaxBonusBatch(cs)
  PROVE  FurnaceInv'
<1> DEFINE y == ClaimedInTurn(furnace, cs)
<1>1. Kept(y, 0) /\ Call(_syncFurnaceReserve(y))
  BY BatchSettles DEF FurnaceInv, ClaimAutoMaxBonusBatch
<1> HIDE DEF y
<1>2. _syncFurnaceReserve(y) = y
  BY <1>1, SyncChangesNothing
<1> QED
  BY <1>1, <1>2, CallKeeps

(* What a sale gives the LPs fits under the cap of its day.                *)
LEMMA SaleIsTracked ==
  ASSUME NEW x, NEW s, Kept(x, s), Current(x), NEW q \in Sales,
         NEW lp, lp = SaleReward(x, q), NEW y, y = _trackLpSaleRewardFunding(x, lp)
  PROVE  /\ lp \in Nat /\ lp <= q.lp /\ (x.vault = NoVault => lp = 0)
         /\ Kept(y, s) /\ Current(y) /\ y.vault = x.vault
<1> DEFINE used == IF x.soldDay = Today THEN x.sold ELSE 0
           n == used + lp
           z == [x EXCEPT !.soldDay = Today]
<1>1. q.lp \in Nat /\ SALECAP \in Nat /\ used \in Nat /\ used <= SALECAP
  BY FurnaceAssumption DEF Kept, Numbers
<1>2. lp \in Nat /\ lp <= q.lp /\ (x.vault = NoVault => lp = 0) /\ n \in Nat /\ n <= SALECAP
  BY <1>1 DEF SaleReward, Smaller, Over
<1>3. y = IF lp = 0 THEN x ELSE [z EXCEPT !.sold = n]
  BY DEF _trackLpSaleRewardFunding, Kept, Fields
<1> HIDE DEF used, n
<1>4. Kept(z, s) /\ Current(z) /\ z.vault = x.vault
  <2> DEFINE day == Today
  <2> HIDE DEF day
  <2>1. LET g == [x EXCEPT !.soldDay = day] IN Kept(g, s) /\ Current(g) /\ g.vault = x.vault
    BY SideMoves
  <2> QED
    BY <2>1 DEF day
<1> HIDE DEF z
<1>5. LET g == [z EXCEPT !.sold = n] IN Kept(g, s) /\ Current(g) /\ g.vault = x.vault
  BY <1>2, <1>4, SideMoves
<1> QED
  BY <1>2, <1>3, <1>5

LEMMA SaleSettles ==
  ASSUME NEW x, Kept(x, 0), Current(x), NEW q \in Sales,
         NEW lp \in Nat, lp <= q.lp, x.vault = NoVault => lp = 0
  PROVE  Kept(SaleMoney(x, q, lp), 0)
<1> DEFINE add == q.amount - q.out - lp
           b == x.balance + q.amount
           n == x.reserve + add
           w == [x EXCEPT !.balance = b]
           y == [w EXCEPT !.reserve = n]
           z == IF lp = 0 THEN y ELSE _fundLpStreamInternal(y, lp)
           c == z.balance - q.out
           v == [z EXCEPT !.balance = c]
<1>1. /\ q.amount \in Nat /\ q.out \in Nat /\ q.lp \in Nat /\ q.out + q.lp <= q.amount
      /\ x.balance \in Nat /\ x.reserve \in Nat
  BY FurnaceAssumption DEF Kept, Numbers
<1>2. /\ b \in Nat /\ b + 0 = x.balance + q.amount
      /\ n \in Nat /\ lp + q.out \in Nat /\ n + (lp + q.out) = x.reserve + q.amount
  BY <1>1
<1>3. SaleMoney(x, q, lp) = v
  BY DEF SaleMoney, Kept, Fields
<1> HIDE DEF b, n
<1>4. Kept(w, q.amount) /\ Current(w) /\ w.vault = x.vault /\ w.reserve = x.reserve
  <2>1. 0 \in Nat
    OBVIOUS
  <2> QED
    BY <1>1, <1>2, <2>1, BalanceMoves
<1> HIDE DEF w
<1>5. Kept(y, lp + q.out) /\ Current(y) /\ y.vault = x.vault
  BY <1>1, <1>2, <1>4, ReserveMoves
<1> HIDE DEF y
<1>6. Kept(z, q.out)
  <2>1. CASE lp = 0
    BY <1>1, <1>5, <2>1
  <2>2. CASE lp # 0
    <3> DEFINE g == _fundLpStreamInternal(y, lp)
    <3>1. Kept(g, q.out)
      BY <1>1, <1>5, StreamFunded
    <3> QED
      BY <2>2, <3>1
  <2> QED
    BY <2>1, <2>2
<1> HIDE DEF z
<1>7. c \in Nat /\ c + q.out = z.balance + 0
  <2>1. Owed(z) \in Nat /\ z.reserve \in Nat /\ z.surplus \in Nat /\ z.balance \in Nat
    BY <1>6, OwedIsNat DEF Kept, Numbers
  <2> QED
    BY <1>1, <1>6, <2>1 DEF Kept
<1> HIDE DEF c
<1>8. Kept(v, 0)
  <2>1. 0 \in Nat
    OBVIOUS
  <2> QED
    BY <1>1, <1>6, <1>7, <2>1, BalanceMoves
<1> QED
  BY <1>3, <1>8

LEMMA SaleKeeps ==
  ASSUME FurnaceInv, NEW q \in Sales, sellLockToFurnaceFromMarket(q)
  PROVE  FurnaceInv'
<1> DEFINE x == _accrueLpOverflowDrip(furnace)
           lp == SaleReward(x, q)
           t == _trackLpSaleRewardFunding(x, lp)
           e == [k |-> "LockSoldToFurnace", lp |-> lp, add |-> q.amount - q.out - lp]
           l == Logged(t, e)
           m == SaleMoney(l, q, lp)
<1>1. Call(_syncFurnaceReserve(m))
  BY DEF sellLockToFurnaceFromMarket
<1>2. Kept(x, 0) /\ Current(x)
  BY DripAccrues DEF FurnaceInv
<1> HIDE DEF x
<1>3. /\ lp \in Nat /\ lp <= q.lp /\ (x.vault = NoVault => lp = 0)
      /\ Kept(t, 0) /\ Current(t) /\ t.vault = x.vault
  BY <1>2, SaleIsTracked
<1> HIDE DEF lp, t, e
<1>4. Kept(l, 0) /\ Current(l) /\ l.vault = x.vault
  BY <1>3, LoggedIsKept DEF Settled
<1> HIDE DEF l
<1>5. Kept(m, 0)
  BY <1>3, <1>4, SaleSettles
<1> HIDE DEF m
<1>6. _syncFurnaceReserve(m) = m
  BY <1>5, SyncChangesNothing
<1> QED
  BY <1>1, <1>5, <1>6, CallKeeps

LEMMA TickKeeps == ASSUME FurnaceInv, tick PROVE FurnaceInv'
<1> DEFINE x == _accrueLpOverflowDrip(furnace)
           f == _fundLpStreamInternal(x, 0)
           y == IF x.carry > 0 /\ x.rate = 0 /\ x.vault # NoVault THEN f ELSE x
<1>1. Call(_syncFurnaceReserve(y))
  BY DEF tick
<1>2. Kept(x, 0) /\ Current(x)
  BY DripAccrues DEF FurnaceInv
<1> HIDE DEF x
<1>3. Kept(f, 0)
  <2>1. 0 \in Nat /\ Kept(x, 0 + 0)
    BY <1>2
  <2> QED
    BY <1>2, <2>1, StreamFunded
<1> HIDE DEF f
<1>4. Kept(y, 0)
  BY <1>2, <1>3
<1> HIDE DEF y
<1>5. _syncFurnaceReserve(y) = y
  BY <1>4, SyncChangesNothing
<1> QED
  BY <1>1, <1>4, <1>5, CallKeeps

LEMMA DonateKeeps == ASSUME FurnaceInv, Donate PROVE FurnaceInv'
<1> DEFINE b == furnace.balance + 1
           n == furnace.surplus + 1
           y == [furnace EXCEPT !.balance = b, !.surplus = n]
<1>1. Call(y)
  BY DEF Donate
<1>2. b \in Nat /\ n \in Nat /\ Fields \subseteq DOMAIN furnace
  BY DEF FurnaceInv, Kept, Numbers
<1> HIDE DEF b, n
<1>3. Alike(furnace, y, {"balance", "surplus"}) /\ y.balance = b /\ y.surplus = n
  BY <1>2 DEF Alike, Fields
<1> HIDE DEF y
<1>4. /\ y.reserve = furnace.reserve /\ y.vault = furnace.vault /\ y.rate = furnace.rate
      /\ y.last = furnace.last /\ y.finish = furnace.finish /\ y.carry = furnace.carry
      /\ y.dripAt = furnace.dripAt /\ y.soldDay = furnace.soldDay /\ y.sold = furnace.sold
      /\ y.rewireAt = furnace.rewireAt /\ y.rewireTo = furnace.rewireTo
      /\ y.sent = furnace.sent /\ y.funded = furnace.funded /\ y.stranded = furnace.stranded
  BY <1>3 DEF Alike, Fields
<1>5. Owed(y) = Owed(furnace) /\ Owed(furnace) \in Nat
  BY <1>4, OwedIsNat DEF Owed, FurnaceInv
<1>6. y.balance = y.reserve + Owed(y) + y.surplus + 0
  BY <1>3, <1>4, <1>5 DEF FurnaceInv, Kept, Numbers, b, n
<1>7. Kept(y, 0)
  BY <1>2, <1>3, <1>4, <1>5, <1>6 DEF FurnaceInv, Kept, Numbers, Promises, Alike
<1> QED
  BY <1>1, <1>7, CallKeeps

-----------------------------------------------------------------------------
(* The vault is replaced.                                                  *)
LEMMA CarrySettles ==
  ASSUME NEW x, Kept(x, 0), NEW y, y = _settleMaturedLpCarry(x)
  PROVE  Kept(y, 0)
<1> DEFINE v == x.vault
           b == x.balance - x.carry
           m == x.sent[v] + x.carry
<1>1. CASE x.vault = NoVault \/ x.rate # 0 \/ x.finish # 0 \/ x.balance < x.carry
  BY <1>1 DEF _settleMaturedLpCarry
<1>2. CASE ~(x.vault = NoVault \/ x.rate # 0 \/ x.finish # 0 \/ x.balance < x.carry)
  <2>1. /\ x.balance \in Nat /\ x.carry \in Nat /\ x.reserve \in Nat /\ x.surplus \in Nat
        /\ v \in Vaults /\ x.rate = 0 /\ Owed(x) = x.carry /\ Fields \subseteq DOMAIN x
        /\ x.sent \in [Vaults -> Nat] /\ v # NoVault
    BY <1>2 DEF Kept, Numbers, Owed
  <2>2. b \in Nat /\ b = x.reserve + x.surplus /\ m \in Nat /\ m = x.sent[v] + x.carry
    BY <2>1 DEF Kept
  <2>3. y = [x EXCEPT !.carry = 0, !.balance = b, !.sent[v] = m]
    BY <1>2 DEF _settleMaturedLpCarry
  <2> HIDE DEF b, m, v
  <2>4. /\ Alike(x, y, {"carry", "balance", "sent"})
        /\ y.carry = 0 /\ y.balance = b /\ y.sent = [x.sent EXCEPT ![v] = m]
    BY <2>1, <2>3 DEF Alike, Fields
  <2>5. /\ y.reserve = x.reserve /\ y.vault = x.vault /\ y.rate = x.rate /\ y.last = x.last
        /\ y.finish = x.finish /\ y.dripAt = x.dripAt /\ y.soldDay = x.soldDay /\ y.sold = x.sold
        /\ y.rewireAt = x.rewireAt /\ y.rewireTo = x.rewireTo /\ y.funded = x.funded
        /\ y.stranded = x.stranded /\ y.surplus = x.surplus
    BY <2>4 DEF Alike, Fields
  <2>6. Owed(y) = 0
    BY <2>1, <2>4, <2>5 DEF Owed
  <2>7. /\ y.sent \in [Vaults -> Nat] /\ y.sent[v] = m
        /\ \A w \in Vaults : w # v => y.sent[w] = x.sent[w]
    BY <2>1, <2>2, <2>4
  <2>8. Promises(y)
    <3> SUFFICES ASSUME NEW w \in Vaults
                 PROVE  y.funded[w] = y.sent[w] + y.stranded[w] + (IF y.vault = w THEN Owed(y) ELSE 0)
      BY DEF Promises
    <3>1. x.funded[w] = x.sent[w] + x.stranded[w] + (IF x.vault = w THEN Owed(x) ELSE 0)
      BY DEF Kept, Promises
    <3>2. x.sent[w] \in Nat /\ x.stranded[w] \in Nat
      BY DEF Kept, Numbers
    <3>3. CASE w = v
      BY <2>1, <2>2, <2>5, <2>6, <2>7, <3>1, <3>2, <3>3 DEF v
    <3>4. CASE w # v
      BY <2>5, <2>7, <3>1, <3>2, <3>4 DEF v
    <3> QED
      BY <3>3, <3>4
  <2>9. Numbers(y)
    BY <2>1, <2>2, <2>4, <2>5, <2>7 DEF Kept, Numbers
  <2>10. y.balance = y.reserve + Owed(y) + y.surplus + 0
    BY <2>1, <2>2, <2>4, <2>5, <2>6
  <2> QED
    BY <2>1, <2>4, <2>5, <2>8, <2>9, <2>10 DEF Kept, Alike
<1> QED
  BY <1>1, <1>2

(* Nothing is owed only if nothing streams and nothing is carried.         *)
LEMMA NothingOwed ==
  ASSUME NEW x, Kept(x, 0), Owed(x) = 0
  PROVE  x.rate = 0 /\ x.carry = 0
<1>1. x.carry \in Nat /\ x.rate \in Nat /\ x.finish \in Nat /\ x.last \in Nat
  BY DEF Kept, Numbers
<1>2. CASE x.rate # 0
  <2> DEFINE d == x.finish - x.last
  <2>1. d \in Nat /\ d > 0 /\ x.rate > 0
    BY <1>1, <1>2 DEF Kept
  <2>2. Owed(x) = x.carry + d * x.rate
    BY <1>2 DEF Owed
  <2> HIDE DEF d
  <2>3. d * x.rate > 0 /\ d * x.rate \in Nat
    BY <1>1, <2>1
  <2> QED
    BY <1>1, <2>2, <2>3
<1> QED
  BY <1>1, <1>2 DEF Owed

(* With nothing owed any vault will do.                                    *)
LEMMA VaultMoves ==
  ASSUME NEW x, Kept(x, 0), Owed(x) = 0, NEW v \in Vaults \cup {NoVault},
         NEW y, Alike(x, y, {"vault", "dripAt", "last", "finish", "rewireAt", "rewireTo"}),
         y.vault = v, y.dripAt \in Nat, y.last \in Nat, y.last <= clock, y.finish \in Nat,
         y.rewireTo \in Vaults \cup {NoVault}, y.rewireAt # 0 => y.rewireTo \in Vaults
  PROVE  Kept(y, 0)
<1>1. /\ y.balance = x.balance /\ y.rate = x.rate /\ y.carry = x.carry /\ y.reserve = x.reserve
      /\ y.soldDay = x.soldDay /\ y.sold = x.sold
      /\ y.sent = x.sent /\ y.funded = x.funded /\ y.stranded = x.stranded
      /\ y.surplus = x.surplus
  BY DEF Alike, Fields
<1>2. x.rate = 0 /\ x.carry = 0
  BY NothingOwed
<1>3. Owed(y) = 0
  BY <1>1, <1>2 DEF Owed
<1>4. Promises(y)
  <2> SUFFICES ASSUME NEW w \in Vaults
               PROVE  y.funded[w] = y.sent[w] + y.stranded[w] + (IF y.vault = w THEN Owed(y) ELSE 0)
    BY DEF Promises
  <2>1. x.funded[w] = x.sent[w] + x.stranded[w] + (IF x.vault = w THEN Owed(x) ELSE 0)
    BY DEF Kept, Promises
  <2> QED
    BY <1>1, <1>3, <2>1
<1>5. Numbers(y)
  BY <1>1 DEF Kept, Numbers
<1> QED
  BY <1>1, <1>2, <1>3, <1>4, <1>5 DEF Kept, Alike

LEMMA SetVaultKeeps ==
  ASSUME FurnaceInv, NEW v \in Vaults \cup {NoVault}, setLpRewardsVault(v)
  PROVE  FurnaceInv'
<1> DEFINE w == _accrueLpOverflowDrip(furnace)
           x == _settleMaturedLpCarry(w)
           y == [x EXCEPT !.vault = v, !.dripAt = clock]
           e == [k |-> "LpRewardsVaultSet", v |-> v]
<1>1. Replaceable(x) /\ Call(Logged(y, e))
  BY DEF setLpRewardsVault
<1>2. Kept(w, 0)
  BY DripAccrues DEF FurnaceInv
<1> HIDE DEF w
<1>3. Kept(x, 0)
  BY <1>2, CarrySettles
<1> HIDE DEF x
<1>4. Owed(x) = 0
  <2>1. CASE x.vault = NoVault
    BY <1>3, <2>1 DEF Kept, Owed
  <2>2. CASE x.vault # NoVault
    <3>1. lpStreamLiability(x) + PendingDrip(x) = 0
      BY <1>1, <2>2 DEF Replaceable, _lpRewardsVaultLiability
    <3>2. lpStreamLiability(x) = Owed(x) /\ Owed(x) \in Nat
      BY <1>3, OwedIsLiability, OwedIsNat
    <3>3. PendingDrip(x) \in Nat
      <4>1. clock \in Nat /\ x.dripAt \in Nat /\ x.reserve \in Nat /\ DRIP \in Nat /\ TARGET \in Nat
        BY <1>3, FurnaceAssumption DEF Kept, Numbers
      <4>2. clock > x.dripAt => DRIP * (clock - x.dripAt) \in Nat
        BY <4>1
      <4> QED
        BY <4>1, <4>2 DEF PendingDrip, Smaller, Over
    <3> QED
      BY <3>1, <3>2, <3>3
  <2> QED
    BY <2>1, <2>2
<1>5. Fields \subseteq DOMAIN x /\ clock \in Nat /\ Numbers(x) /\ x.last <= clock
  BY <1>3 DEF Kept
<1>6. /\ Alike(x, y, {"vault", "dripAt", "last", "finish", "rewireAt", "rewireTo"})
      /\ y.vault = v /\ y.dripAt = clock /\ y.last = x.last /\ y.finish = x.finish
      /\ y.rewireAt = x.rewireAt /\ y.rewireTo = x.rewireTo
  BY <1>5 DEF Alike, Fields
<1> HIDE DEF y, e
<1>7. Kept(y, 0)
  BY <1>3, <1>4, <1>5, <1>6, VaultMoves DEF Numbers
<1>8. Kept(Logged(y, e), 0)
  BY <1>7, LoggedIsKept
<1> QED
  BY <1>1, <1>8, CallKeeps

(* A rewire is only asked for or called off.                               *)
LEMMA RequestKeeps ==
  ASSUME FurnaceInv, NEW at \in Nat, NEW v \in Vaults \cup {NoVault}, at # 0 => v \in Vaults,
         Call([furnace EXCEPT !.rewireAt = at, !.rewireTo = v])
  PROVE  FurnaceInv'
<1> DEFINE y == [furnace EXCEPT !.rewireAt = at, !.rewireTo = v]
<1>1. Alike(furnace, y, {"rewireAt", "rewireTo"}) /\ y.rewireAt = at /\ y.rewireTo = v
  BY DEF FurnaceInv, Kept, Alike, Fields
<1>2. Call(y)
  OBVIOUS
<1> HIDE DEF y
<1>3. /\ y.reserve = furnace.reserve /\ y.balance = furnace.balance /\ y.vault = furnace.vault
      /\ y.rate = furnace.rate /\ y.finish = furnace.finish /\ y.carry = furnace.carry
      /\ y.last = furnace.last /\ y.dripAt = furnace.dripAt
      /\ y.soldDay = furnace.soldDay /\ y.sold = furnace.sold /\ y.sent = furnace.sent
      /\ y.funded = furnace.funded /\ y.stranded = furnace.stranded /\ y.surplus = furnace.surplus
  BY <1>1 DEF Alike, Fields
<1>4. Kept(y, 0)
  BY <1>1, <1>3 DEF FurnaceInv, Kept, Numbers, Promises, Owed, Alike
<1> QED
  BY <1>2, <1>4, CallKeeps

(* What the old vault was still owed is stranded: nobody's CLAIM from then *)
(* on, but in the Furnace.                                                 *)
LEMMA RewireKeeps == ASSUME FurnaceInv, executeEmergencyVaultRewire PROVE FurnaceInv'
<1> DEFINE x == furnace
           left == lpStreamLiability(x)
           u == x.vault
           m == x.stranded[u] + left
           n == x.surplus + left
           y == IF x.vault = NoVault THEN x ELSE [x EXCEPT !.stranded[u] = m, !.surplus = n]
           z == [y EXCEPT !.rate = 0, !.finish = 0, !.carry = 0, !.last = clock, !.dripAt = clock,
                          !.rewireAt = 0, !.rewireTo = NoVault, !.vault = x.rewireTo]
           e == [k |-> "LpRewardsVaultSet", v |-> x.rewireTo]
<1>1. x.rewireAt # 0 /\ Call(Logged(z, e))
  BY DEF executeEmergencyVaultRewire
<1>2. /\ Fields \subseteq DOMAIN x /\ x.rewireTo \in Vaults /\ clock \in Nat /\ Kept(x, 0)
      /\ x.stranded \in [Vaults -> Nat] /\ x.surplus \in Nat /\ x.vault \in Vaults \cup {NoVault}
      /\ x.balance \in Nat /\ x.reserve \in Nat
  BY <1>1 DEF FurnaceInv, Kept, Numbers
<1>3. left = Owed(x) /\ left \in Nat /\ (x.vault = NoVault => left = 0)
  <2>1. left = Owed(x) /\ Owed(x) \in Nat
    BY <1>2, OwedIsLiability, OwedIsNat
  <2>2. x.vault = NoVault => Owed(x) = 0
    BY DEF FurnaceInv, Kept, Owed
  <2> QED
    BY <2>1, <2>2
<1>4. x.vault # NoVault => m \in Nat /\ m = x.stranded[u] + Owed(x)
  BY <1>2, <1>3
<1>5. n \in Nat /\ n = x.surplus + Owed(x)
  BY <1>2, <1>3
<1> HIDE DEF left, m, n
<1>6. /\ Alike(x, y, {"stranded", "surplus"}) /\ y.surplus = n
      /\ y.stranded \in [Vaults -> Nat]
      /\ \A w \in Vaults : y.stranded[w] = x.stranded[w] + (IF w = x.vault THEN Owed(x) ELSE 0)
  <2>1. CASE x.vault = NoVault
    <3>1. y = x /\ n = x.surplus
      BY <1>2, <1>3, <1>5, <2>1
    <3>2. \A w \in Vaults : w # x.vault
      BY <2>1, FurnaceAssumption
    <3> QED
      BY <1>2, <3>1, <3>2 DEF Alike
  <2>2. CASE x.vault # NoVault
    <3>1. y = [x EXCEPT !.stranded[u] = m, !.surplus = n]
      BY <2>2
    <3> HIDE DEF y
    <3>2. Alike(x, y, {"stranded", "surplus"}) /\ y.surplus = n /\ y.stranded = [x.stranded EXCEPT ![u] = m]
      BY <1>2, <3>1 DEF Alike, Fields
    <3> QED
      BY <1>2, <1>3, <1>4, <2>2, <3>2
  <2> QED
    BY <2>1, <2>2
<1> HIDE DEF y
<1>7. /\ Alike(y, z, {"rate", "finish", "carry", "last", "dripAt", "rewireAt", "rewireTo", "vault"})
      /\ z.rate = 0 /\ z.finish = 0 /\ z.carry = 0 /\ z.last = clock /\ z.dripAt = clock
      /\ z.rewireAt = 0 /\ z.rewireTo = NoVault /\ z.vault = x.rewireTo
  BY <1>6 DEF Alike, Fields
<1> HIDE DEF z, e
<1>8. /\ z.reserve = x.reserve /\ z.balance = x.balance /\ z.surplus = n /\ z.soldDay = x.soldDay
      /\ z.sold = x.sold /\ z.sent = x.sent /\ z.funded = x.funded /\ z.stranded = y.stranded
  BY <1>6, <1>7 DEF Alike, Fields
<1>9. Owed(z) = 0
  BY <1>7 DEF Owed
<1>10. Promises(z)
  <2> SUFFICES ASSUME NEW w \in Vaults
               PROVE  z.funded[w] = z.sent[w] + z.stranded[w] + (IF z.vault = w THEN Owed(z) ELSE 0)
    BY DEF Promises
  <2>1. x.funded[w] = x.sent[w] + x.stranded[w] + (IF x.vault = w THEN Owed(x) ELSE 0)
    BY DEF FurnaceInv, Kept, Promises
  <2>2. x.sent[w] \in Nat /\ x.stranded[w] \in Nat /\ Owed(x) \in Nat
    BY <1>3 DEF FurnaceInv, Kept, Numbers
  <2> QED
    BY <1>6, <1>8, <1>9, <2>1, <2>2
<1>11. z.balance = z.reserve + Owed(z) + z.surplus + 0
  BY <1>2, <1>3, <1>5, <1>8, <1>9 DEF Kept
<1>12. Numbers(z)
  BY <1>2, <1>5, <1>6, <1>7, <1>8 DEF Kept, Numbers
<1>13. Kept(z, 0)
  BY <1>2, <1>7, <1>8, <1>10, <1>11, <1>12 DEF Kept, Alike
<1>14. Kept(Logged(z, e), 0)
  BY <1>13, LoggedIsKept
<1> QED
  BY <1>1, <1>14, CallKeeps

LEMMA BlockKeeps == ASSUME FurnaceInv, NextBlock PROVE FurnaceInv'
<1> DEFINE l == <<>>
           y == [furnace EXCEPT !.log = l]
<1>1. PICK d \in Gaps : clock' = clock + d
  BY DEF NextBlock
<1>2. furnace' = y
  BY DEF NextBlock
<1> HIDE DEF l
<1>3. Kept(y, 0)
  BY SideMoves DEF FurnaceInv
<1> HIDE DEF y
<1>4. clock \in Nat /\ clock' \in Nat /\ clock <= clock'
  BY <1>1, <1>3, FurnaceAssumption DEF Kept
<1> QED
  BY <1>2, <1>3, <1>4 DEF FurnaceInv, Kept, Numbers, Promises, Owed

LEMMA FurnaceStays == ASSUME FurnaceInv, [FurnaceNext]_furnaceVars PROVE FurnaceInv'
<1>1. ASSUME NEW a \in Credits, creditReserve(a) PROVE FurnaceInv'
  BY <1>1, CreditKeeps
<1>2. ASSUME NEW u \in Holders, NEW b \in Bonuses,
             \/ Enter(u, b)
             \/ \E lengthens \in BOOLEAN : ExtendWithBonus(u, b, lengthens) \/ MergeLocksWithBonus(u, b, lengthens)
      PROVE  FurnaceInv'
  BY <1>2, EnterKeeps, ExtendOrMergeKeeps DEF ExtendWithBonus, MergeLocksWithBonus
<1>3. ASSUME NEW cs \in Batches, ClaimAutoMaxBonusBatch(cs) PROVE FurnaceInv'
  BY <1>3, BatchKeeps
<1>4. ASSUME NEW q \in Sales, sellLockToFurnaceFromMarket(q) PROVE FurnaceInv'
  BY <1>4, SaleKeeps
<1>5. CASE tick \/ Donate
  BY <1>5, TickKeeps, DonateKeeps
<1>6. ASSUME NEW v \in Vaults \cup {NoVault}, setLpRewardsVault(v) PROVE FurnaceInv'
  BY <1>6, SetVaultKeeps
<1>7. ASSUME NEW v \in Vaults, requestEmergencyVaultRewire(v) PROVE FurnaceInv'
  <2> DEFINE at == clock + REWIREDELAY
  <2>1. Call([furnace EXCEPT !.rewireAt = at, !.rewireTo = v])
    BY <1>7 DEF requestEmergencyVaultRewire
  <2>2. at \in Nat
    BY FurnaceAssumption DEF FurnaceInv, Kept
  <2> HIDE DEF at
  <2> QED
    BY <2>1, <2>2, RequestKeeps
<1>8. CASE cancelEmergencyVaultRewire
  BY <1>8, RequestKeeps DEF cancelEmergencyVaultRewire
<1>9. CASE executeEmergencyVaultRewire
  BY <1>9, RewireKeeps
<1>10. CASE NextBlock
  BY <1>10, BlockKeeps
<1>11. CASE UNCHANGED furnaceVars
  BY <1>11 DEF furnaceVars, FurnaceInv, Kept, Numbers, Promises, Owed
<1> QED
  BY <1>1, <1>2, <1>3, <1>4, <1>5, <1>6, <1>7, <1>8, <1>9, <1>10, <1>11, Zenon
  DEF FurnaceNext, FurnaceCall

(* The Furnace's balance is its reserve, what it owes the LP vault and the *)
(* CLAIM nobody accounts for; no sync ever clamps the reserve; each vault  *)
(* got, is owed or lost in an emergency exactly what lpStream and drip     *)
(* promised it; and the sales of a day give the LPs no more than the cap.  *)
THEOREM TheFurnaceIsBacked == FurnaceSpec => []FurnaceIsBacked
<1>1. FurnaceInit => FurnaceInv
  BY InitiallyKept
<1>2. FurnaceInv /\ [FurnaceNext]_furnaceVars => FurnaceInv'
  BY FurnaceStays
<1>3. FurnaceInv => FurnaceIsBacked
  <2> SUFFICES ASSUME FurnaceInv PROVE FurnaceIsBacked
    OBVIOUS
  <2>1. lpStreamLiability(furnace) = Owed(furnace) /\ _syncFurnaceReserve(furnace) = furnace
    BY OwedIsLiability, SyncChangesNothing DEF FurnaceInv
  <2>2. /\ {furnace.reserve, furnace.surplus, furnace.balance} \subseteq Nat /\ Owed(furnace) \in Nat
        /\ furnace.balance = furnace.reserve + Owed(furnace) + furnace.surplus
    BY OwedIsNat DEF FurnaceInv, Kept, Numbers
  <2>3. BalanceIsExact /\ NothingIsClamped
    BY <2>1, <2>2 DEF BalanceIsExact, NothingIsClamped
  <2>4. VaultsGetTheirs /\ SalesStayUnderTheCap
    BY <2>1 DEF FurnaceInv, Kept, Promises, VaultsGetTheirs, SalesStayUnderTheCap
  <2> QED
    BY <2>3, <2>4 DEF FurnaceIsBacked
<1> QED
  BY <1>1, <1>2, <1>3, PTL DEF FurnaceSpec
=============================================================================
