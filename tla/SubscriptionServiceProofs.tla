----------------------- MODULE SubscriptionServiceProofs -----------------------
(***************************************************************************)
(* The subscription service, for any number of addresses and connections,  *)
(* every burst, refill time and bound: its request budget amounts to one   *)
(* token bucket per address that runs all the time, no permit is lost or   *)
(* made up, and no answer tells a stranger anything.  What it serves: for  *)
(* any protocols, ports, hosts and number of edits, an edit keeps what     *)
(* clients rely on, and every node that is handed out can be reached.      *)
(*                                                                         *)
(* A bucket's credit is what it is worth in ticks at an instant, the       *)
(* fraction of a token it has gathered included.  It never exceeds what    *)
(* the generous bucket has and never falls below the strict one, and an    *)
(* address without a bucket has at least its burst in the generous one.    *)
(* A configuration that has been committed is valid, and exactly its       *)
(* enabled protocols have a node, each with a secret drawn for itself.     *)
(***************************************************************************)
EXTENDS SubscriptionService, Deployment, FiniteSetTheorems, WellFoundedInduction, TLAPS

Credit(b, t) == b.tokens * Refill + (t - b.at)

TimesOrdered == \A p \in DOMAIN buckets : buckets[p].at <= now

CreditBetween ==
  \A p \in DOMAIN buckets :
    /\ least[p] <= Credit(buckets[p], now)
    /\ AtMost(Credit(buckets[p], now), MostTicks) <= most[p]

StrictIsFullAtMost == \A p \in Peers : least[p] <= LeastTicks

UntrackedHasBurst == \A p \in Peers \ DOMAIN buckets : LeastTicks <= most[p]

TableBounded == Cardinality(DOMAIN buckets) <= MaxTracked + 1

BudgetIInv ==
  /\ BudgetTypeOK
  /\ TimesOrdered
  /\ CreditBetween
  /\ StrictIsFullAtMost
  /\ UntrackedHasBurst
  /\ TableBounded

-------------------------------------------------------------------------------
(* Arithmetic *)

LEMMA DivisionFacts ==
  ASSUME NEW a \in Nat, NEW r \in Nat \ {0}
  PROVE  /\ a \div r \in Nat
         /\ (a \div r) * r <= a /\ a < (a \div r) * r + r
         /\ r * (a \div r) = (a \div r) * r
  OBVIOUS

LEMMA OneFits ==
  ASSUME NEW a \in Nat, NEW r \in Nat \ {0}, r <= a
  PROVE  a \div r \in Nat /\ a \div r # 0
<1>1. a \div r \in Nat /\ a < (a \div r) * r + r  BY DivisionFacts
<1>2. SUFFICES ASSUME a \div r = 0 PROVE FALSE  BY <1>1
<1>3. PICK k \in Nat : k = a \div r  BY <1>1
<1>4. k = 0 /\ a < k * r + r  BY <1>1, <1>2, <1>3
<1> QED  BY <1>4

LEMMA ProductGrows ==
  ASSUME NEW a \in Nat, NEW b \in Nat, NEW r \in Nat, a <= b
  PROVE  a * r <= b * r /\ a * r \in Nat /\ b * r \in Nat
  OBVIOUS

LEMMA ProductOfSum ==
  ASSUME NEW a \in Nat, NEW b \in Nat, NEW r \in Nat
  PROVE  (a + b) * r = a * r + b * r
  OBVIOUS

LEMMA ProductOfPredecessor ==
  ASSUME NEW a \in Nat \ {0}, NEW r \in Nat
  PROVE  (a - 1) * r = a * r - r /\ r <= a * r
  OBVIOUS

LEMMA TickFacts ==
  /\ Refill \in Nat /\ Refill >= 1 /\ Burst \in Nat /\ Burst >= 1
  /\ LeastTicks \in Nat /\ LeastTicks = Burst * Refill
  /\ MostTicks \in Nat /\ MostTicks = LeastTicks + Refill - 1
  /\ LeastTicks >= Refill
<1>1. Refill \in Nat /\ Refill >= 1 /\ Burst \in Nat \ {0}  BY BudgetAssumption
<1>2. Burst * Refill \in Nat /\ Refill <= Burst * Refill
  BY <1>1, ProductGrows, ProductOfPredecessor
<1> QED  BY <1>1, <1>2 DEF LeastTicks, MostTicks

LEMMA CreditIsInt ==
  ASSUME NEW b \in Bucket, NEW t \in Nat, b.at <= t
  PROVE  Credit(b, t) \in Nat /\ b.tokens * Refill \in Nat /\ Credit(b, t) >= b.tokens * Refill
<1>1. b.tokens \in Nat /\ b.at \in Nat /\ Refill \in Nat  BY TickFacts DEF Bucket
<1>2. b.tokens * Refill \in Nat  BY <1>1, ProductGrows
<1> QED  BY <1>1, <1>2 DEF Credit

\* What a top-up does to a bucket and to its credit.
LEMMA ToppedUpFacts ==
  ASSUME NEW b \in Bucket, NEW t \in Nat, b.at <= t
  PROVE  /\ Refilled(b, t) \in Nat
         /\ ToppedUp(b, t) \in Bucket
         /\ ToppedUp(b, t).at <= t
         /\ t - ToppedUp(b, t).at < Refill
         /\ Credit(ToppedUp(b, t), t) <= Credit(b, t)
         /\ Credit(ToppedUp(b, t), t) <= MostTicks
         /\ \/ Credit(ToppedUp(b, t), t) = Credit(b, t)
            \/ Credit(ToppedUp(b, t), t) >= LeastTicks
<1> DEFINE k == Refilled(b, t)
           c == ToppedUp(b, t)
<1>1. /\ b.tokens \in Nat /\ b.tokens <= Burst /\ b.at \in Nat
      /\ Refill \in Nat \ {0} /\ Burst \in Nat
  BY TickFacts DEF Bucket
<1>2. t - b.at \in Nat  BY <1>1
<1>3. /\ k \in Nat
      /\ k * Refill <= t - b.at /\ t - b.at < k * Refill + Refill
      /\ Refill * k = k * Refill
  BY <1>1, <1>2, DivisionFacts DEF Refilled
<1>4. k * Refill \in Nat  BY <1>1, <1>3, ProductGrows
<1>5. /\ c.tokens = AtMost(b.tokens + k, Burst)
      /\ c.at = b.at + k * Refill
  BY <1>3 DEF ToppedUp
<1>6. c.tokens \in 0 .. Burst /\ c.at \in Nat  BY <1>1, <1>3, <1>4, <1>5 DEF AtMost
<1>7. c \in Bucket  BY <1>6 DEF ToppedUp, Bucket
<1>8. c.at <= t /\ t - c.at < Refill /\ t - c.at \in Nat  BY <1>1, <1>3, <1>4, <1>5
<1>9. c.tokens * Refill <= LeastTicks /\ c.tokens * Refill \in Nat
  BY <1>1, <1>6, ProductGrows, TickFacts
<1>10. Credit(c, t) <= MostTicks  BY <1>8, <1>9, TickFacts DEF Credit
<1>11. (b.tokens + k) * Refill = b.tokens * Refill + k * Refill /\ b.tokens * Refill \in Nat
  BY <1>1, <1>3, ProductOfSum, ProductGrows
<1>12. CASE b.tokens + k < Burst
  <2>1. c.tokens = b.tokens + k  BY <1>1, <1>3, <1>5, <1>12 DEF AtMost
  <2>2. Credit(c, t) = Credit(b, t)
    BY <2>1, <1>1, <1>4, <1>5, <1>11 DEF Credit
  <2>3. Credit(b, t) \in Nat  BY CreditIsInt
  <2> QED  BY <2>2, <2>3, <1>3, <1>7, <1>8, <1>10
<1>13. CASE ~ (b.tokens + k < Burst)
  <2>1. c.tokens = Burst /\ Burst <= b.tokens + k  BY <1>1, <1>3, <1>5, <1>13 DEF AtMost
  <2>2. Burst * Refill <= (b.tokens + k) * Refill /\ Burst * Refill \in Nat
    BY <2>1, <1>1, <1>3, ProductGrows
  <2>3. Credit(c, t) = Burst * Refill + (t - b.at - k * Refill)
    BY <2>1, <1>1, <1>4, <1>5 DEF Credit
  <2>4. Credit(b, t) = b.tokens * Refill + (t - b.at)  BY DEF Credit
  <2>5. Credit(c, t) <= Credit(b, t)
    BY <2>2, <2>3, <2>4, <1>1, <1>4, <1>11
  <2>6. Credit(c, t) >= LeastTicks  BY <2>2, <2>3, <1>1, <1>3, <1>4, TickFacts
  <2> QED  BY <2>5, <2>6, <1>3, <1>7, <1>8, <1>10
<1> QED  BY <1>12, <1>13

\* A token is worth Refill ticks.
LEMMA SpentFacts ==
  ASSUME NEW b \in Bucket, NEW t \in Nat, b.at <= t, b.tokens > 0
  PROVE  Spent(b) \in Bucket /\ Spent(b).at = b.at /\ Credit(Spent(b), t) = Credit(b, t) - Refill
<1>1. b.tokens \in Nat \ {0} /\ b.at \in Nat /\ Refill \in Nat  BY TickFacts DEF Bucket
<1>2. Spent(b).tokens = b.tokens - 1 /\ Spent(b).at = b.at  BY DEF Spent, Bucket
<1>3. Spent(b) \in Bucket
  <2>1. Spent(b) = [tokens |-> b.tokens - 1, at |-> b.at]  BY DEF Spent, Bucket
  <2>2. b.tokens - 1 \in 0 .. Burst  BY <1>1, TickFacts DEF Bucket
  <2> QED  BY <2>1, <2>2, <1>1 DEF Bucket
<1>4. (b.tokens - 1) * Refill = b.tokens * Refill - Refill /\ b.tokens * Refill \in Nat
  BY <1>1, ProductOfPredecessor, ProductGrows
<1> QED  BY <1>1, <1>2, <1>3, <1>4 DEF Credit

\* A bucket that owes nothing has its burst.
LEMMA NothingOwed ==
  ASSUME NEW b \in Bucket, NEW t \in Nat, b.at <= t, ~ (b.tokens + Refilled(b, t) < Burst)
  PROVE  Credit(b, t) >= LeastTicks
<1> DEFINE k == Refilled(b, t)
<1>1. b.tokens \in Nat /\ b.at \in Nat /\ Refill \in Nat \ {0} /\ Burst \in Nat
  BY TickFacts DEF Bucket
<1>2. t - b.at \in Nat  BY <1>1
<1>3. k \in Nat /\ k * Refill <= t - b.at  BY <1>1, <1>2, DivisionFacts DEF Refilled
<1>4. Burst <= b.tokens + k  BY <1>1, <1>3
<1>5. Burst * Refill <= (b.tokens + k) * Refill  BY <1>1, <1>3, <1>4, ProductGrows
<1>6. (b.tokens + k) * Refill = b.tokens * Refill + k * Refill  BY <1>1, <1>3, ProductOfSum
<1>7. b.tokens * Refill \in Nat /\ k * Refill \in Nat /\ Burst * Refill \in Nat
  BY <1>1, <1>3, ProductGrows
<1> QED  BY <1>1, <1>2, <1>3, <1>5, <1>6, <1>7 DEF Credit, LeastTicks

-------------------------------------------------------------------------------
(* The steps of the budget *)

LEMMA TypeFacts ==
  ASSUME BudgetIInv
  PROVE  /\ now \in Nat /\ IsFiniteSet(DOMAIN buckets) /\ DOMAIN buckets \subseteq Peers
         /\ \A p \in DOMAIN buckets : buckets[p] \in Bucket /\ buckets[p].at <= now
         /\ \A p \in Peers : most[p] \in Int /\ least[p] \in Int
  BY BudgetAssumption, FS_Subset DEF BudgetIInv, BudgetTypeOK, TimesOrdered

LEMMA EmptyTable ==
  /\ DOMAIN [p \in {} |-> [tokens |-> 0, at |-> 0]] = {}
  /\ [p \in {} |-> [tokens |-> 0, at |-> 0]] \in [{} -> Bucket]
  /\ Cardinality({}) = 0
  BY FS_EmptySet

\* The beginning, and a service that starts again.
LEMMA EmptyHolds ==
  ASSUME now \in Nat, buckets = [p \in {} |-> [tokens |-> 0, at |-> 0]],
         most = [p \in Peers |-> MostTicks], least = [p \in Peers |-> LeastTicks]
  PROVE  BudgetIInv
<1>1. DOMAIN buckets = {}  BY EmptyTable
<1>2. BudgetTypeOK  BY <1>1, EmptyTable, TickFacts DEF BudgetTypeOK
<1>3. TimesOrdered /\ CreditBetween  BY <1>1 DEF TimesOrdered, CreditBetween
<1>4. StrictIsFullAtMost /\ UntrackedHasBurst
  BY <1>1, TickFacts DEF StrictIsFullAtMost, UntrackedHasBurst
<1>5. TableBounded  BY <1>1, EmptyTable, BudgetAssumption DEF TableBounded
<1> QED  BY <1>2, <1>3, <1>4, <1>5 DEF BudgetIInv

\* A bucket is replaced by one that is worth x ticks less after its top-up.
LEMMA Replaced ==
  ASSUME BudgetIInv, NEW p \in DOMAIN buckets, NEW b \in Bucket, NEW x \in Nat,
         b.at <= now, UNCHANGED now,
         Credit(b, now) = Credit(ToppedUp(buckets[p], now), now) - x,
         buckets' = [buckets EXCEPT ![p] = b],
         most' = [most EXCEPT ![p] = most[p] - x],
         least' = [least EXCEPT ![p] = least[p] - x]
  PROVE  BudgetIInv'
<1> DEFINE c == ToppedUp(buckets[p], now)
<1>1. /\ now \in Nat /\ p \in Peers /\ buckets[p] \in Bucket /\ buckets[p].at <= now
      /\ most[p] \in Int /\ least[p] \in Int
  BY TypeFacts
<1>2. /\ Credit(c, now) <= Credit(buckets[p], now) /\ Credit(c, now) <= MostTicks
      /\ Credit(c, now) = Credit(buckets[p], now) \/ Credit(c, now) >= LeastTicks
      /\ c \in Bucket /\ c.at <= now
  BY <1>1, ToppedUpFacts
<1>3. /\ Credit(c, now) \in Nat /\ Credit(buckets[p], now) \in Nat /\ Credit(b, now) \in Nat
  BY <1>1, <1>2, CreditIsInt
<1>4. /\ least[p] <= Credit(buckets[p], now) /\ least[p] <= LeastTicks
      /\ AtMost(Credit(buckets[p], now), MostTicks) <= most[p]
  BY <1>1 DEF BudgetIInv, CreditBetween, StrictIsFullAtMost
<1>5. least[p] <= Credit(c, now)  BY <1>1, <1>2, <1>3, <1>4, TickFacts
<1>6. Credit(c, now) <= most[p]  BY <1>1, <1>2, <1>3, <1>4, TickFacts DEF AtMost
<1>7. DOMAIN buckets' = DOMAIN buckets  OBVIOUS
<1>8. /\ \A q \in DOMAIN buckets : buckets'[q] = IF q = p THEN b ELSE buckets[q]
      /\ \A q \in Peers : /\ most'[q] = IF q = p THEN most[p] - x ELSE most[q]
                          /\ least'[q] = IF q = p THEN least[p] - x ELSE least[q]
  BY <1>1 DEF BudgetIInv, BudgetTypeOK
<1>9. BudgetTypeOK'
  <2>1. buckets' \in [DOMAIN buckets' -> Bucket]  BY <1>7 DEF BudgetIInv, BudgetTypeOK
  <2>2. most' \in [Peers -> Int] /\ least' \in [Peers -> Int]
    BY <1>1 DEF BudgetIInv, BudgetTypeOK
  <2> QED  BY <2>1, <2>2, <1>7 DEF BudgetIInv, BudgetTypeOK
<1>10. TimesOrdered'  BY <1>7, <1>8 DEF BudgetIInv, TimesOrdered
<1>11. CreditBetween'
  <2> SUFFICES ASSUME NEW q \in DOMAIN buckets
               PROVE  /\ least'[q] <= Credit(buckets'[q], now)
                      /\ AtMost(Credit(buckets'[q], now), MostTicks) <= most'[q]
    BY <1>7 DEF CreditBetween, Credit
  <2>1. q \in Peers  BY TypeFacts
  <2>2. CASE q = p
    <3>1. buckets'[q] = b /\ most'[q] = most[p] - x /\ least'[q] = least[p] - x
      BY <2>1, <2>2, <1>8
    <3>2. AtMost(Credit(b, now), MostTicks) <= Credit(b, now)  BY <1>3, TickFacts DEF AtMost
    <3>3. AtMost(Credit(b, now), MostTicks) \in Int  BY <1>3, TickFacts DEF AtMost
    <3> QED  BY <3>1, <3>2, <3>3, <1>1, <1>3, <1>5, <1>6
  <2>3. CASE q # p
    BY <2>1, <2>3, <1>8 DEF BudgetIInv, CreditBetween
  <2> QED  BY <2>2, <2>3
<1>12. StrictIsFullAtMost'
  <2> SUFFICES ASSUME NEW q \in Peers PROVE least'[q] <= LeastTicks
    BY DEF StrictIsFullAtMost
  <2> QED  BY <1>1, <1>4, <1>8, TickFacts DEF BudgetIInv, StrictIsFullAtMost
<1>13. UntrackedHasBurst'  BY <1>7, <1>8 DEF BudgetIInv, UntrackedHasBurst
<1>14. TableBounded'  BY <1>7 DEF BudgetIInv, TableBounded
<1> QED  BY <1>9, <1>10, <1>11, <1>12, <1>13, <1>14 DEF BudgetIInv

LEMMA GrantKnownHolds ==
  ASSUME BudgetIInv, NEW p \in Peers, GrantKnown(p)
  PROVE  BudgetIInv'
<1> DEFINE c == ToppedUp(buckets[p], now)
<1>1. p \in DOMAIN buckets /\ c.tokens > 0 /\ BucketAt(p, now) = c
  BY DEF GrantKnown, Grants, BucketAt
<1>2. c \in Bucket /\ c.at <= now /\ now \in Nat
  BY <1>1, TypeFacts, ToppedUpFacts
<1>3. PICK b \in Bucket : b = Spent(c)  BY <1>1, <1>2, SpentFacts
<1>4. b.at <= now /\ Credit(b, now) = Credit(c, now) - Refill
  BY <1>1, <1>2, <1>3, SpentFacts
<1>5. /\ buckets' = [buckets EXCEPT ![p] = b] /\ UNCHANGED now
      /\ most' = [most EXCEPT ![p] = most[p] - Refill]
      /\ least' = [least EXCEPT ![p] = least[p] - Refill]
  BY <1>1, <1>3 DEF GrantKnown
<1> QED  BY <1>1, <1>4, <1>5, TickFacts, Replaced

LEMMA RefuseHolds ==
  ASSUME BudgetIInv, NEW p \in Peers, Refuse(p)
  PROVE  BudgetIInv'
<1> DEFINE c == ToppedUp(buckets[p], now)
<1>1. p \in DOMAIN buckets /\ BucketAt(p, now) = c  BY DEF Refuse, BucketAt
<1>2. c \in Bucket /\ c.at <= now /\ now \in Nat
  BY <1>1, TypeFacts, ToppedUpFacts
<1>3. PICK b \in Bucket : b = c  BY <1>2
<1>4. Credit(c, now) \in Nat  BY <1>2, CreditIsInt
<1>5. most[p] \in Int /\ least[p] \in Int  BY TypeFacts
<1>6. /\ buckets' = [buckets EXCEPT ![p] = b] /\ UNCHANGED now
      /\ most' = [most EXCEPT ![p] = most[p] - 0]
      /\ least' = [least EXCEPT ![p] = least[p] - 0]
  BY <1>1, <1>3, <1>5 DEF Refuse, BudgetIInv, BudgetTypeOK
<1>7. Credit(b, now) = Credit(c, now) - 0  BY <1>3, <1>4
<1> QED  BY <1>1, <1>2, <1>3, <1>6, <1>7, Replaced

\* A new address: the buckets that owe nothing are dropped, or all are.
LEMMA GrantNewHolds ==
  ASSUME BudgetIInv, NEW p \in Peers, GrantNew(p)
  PROVE  BudgetIInv'
<1> DEFINE kept    == Admitted(now)
           cleared == Cardinality(Owing(now)) > MaxTracked
           fresh   == [tokens |-> Burst, at |-> now]
           gives(q) == IF q = p THEN Refill ELSE 0
<1>1. /\ p \in Peers \ DOMAIN buckets /\ UNCHANGED now
      /\ buckets' = [q \in kept \cup {p} |->
                       IF q = p THEN Spent(BucketAt(p, now)) ELSE buckets[q]]
      /\ most' = [q \in Peers |-> (IF cleared THEN MostTicks ELSE most[q]) - gives(q)]
      /\ least' = [q \in Peers |-> (IF cleared THEN LeastTicks ELSE least[q]) - gives(q)]
  BY DEF GrantNew
<1>2. now \in Nat /\ Refill \in Nat /\ Burst \in Nat /\ Burst > 0  BY TypeFacts, TickFacts
<1>3. fresh \in Bucket /\ fresh.at <= now /\ fresh.tokens > 0 /\ BucketAt(p, now) = fresh
  BY <1>1, <1>2 DEF Bucket, BucketAt
<1>4. Credit(fresh, now) = LeastTicks  BY <1>2, TickFacts DEF Credit
<1>5. PICK b \in Bucket : b = Spent(fresh)  BY <1>2, <1>3, SpentFacts
<1>6. b.at <= now /\ Credit(b, now) = LeastTicks - Refill
  BY <1>2, <1>3, <1>4, <1>5, SpentFacts
<1>7. kept \subseteq DOMAIN buckets /\ kept \subseteq Owing(now) /\ (cleared => kept = {})
        /\ (~cleared => kept = Owing(now))
  BY DEF Admitted, Owing
<1>8. p \notin kept  BY <1>1, <1>7
<1>9. DOMAIN buckets' = kept \cup {p}  BY <1>1
<1>10. /\ buckets'[p] = b
       /\ \A q \in kept : q # p /\ buckets'[q] = buckets[q]
  BY <1>1, <1>3, <1>5, <1>8
<1>11. \A q \in Peers : /\ most'[q] = (IF cleared THEN MostTicks ELSE most[q]) - gives(q)
                        /\ least'[q] = (IF cleared THEN LeastTicks ELSE least[q]) - gives(q)
  BY <1>1
<1>12. \A q \in Peers : gives(q) \in Nat  BY <1>2
<1>13. BudgetTypeOK'
  <2>1. most' \in [Peers -> Int] /\ least' \in [Peers -> Int]
    <3>1. \A q \in Peers : most'[q] \in Int /\ least'[q] \in Int
      BY <1>11, <1>12, TickFacts, TypeFacts
    <3> QED  BY <3>1, <1>1
  <2>2. DOMAIN buckets' \subseteq Peers  BY <1>7, <1>9, TypeFacts
  <2>3. \A q \in DOMAIN buckets' : buckets'[q] \in Bucket
    BY <1>7, <1>9, <1>10, TypeFacts
  <2>4. buckets' \in [DOMAIN buckets' -> Bucket]  BY <2>3, <1>1
  <2> QED  BY <2>1, <2>2, <2>4, <1>1, <1>2 DEF BudgetTypeOK
<1>14. TimesOrdered'
  <2>1. \A q \in kept : buckets[q].at <= now  BY <1>7, TypeFacts
  <2> QED  BY <2>1, <1>1, <1>6, <1>9, <1>10 DEF TimesOrdered
<1>15. \A q \in Peers : /\ least[q] <= LeastTicks
                        /\ (q \notin DOMAIN buckets => LeastTicks <= most[q])
                        /\ most[q] \in Int /\ least[q] \in Int
  BY TypeFacts DEF BudgetIInv, StrictIsFullAtMost, UntrackedHasBurst
<1>16. CreditBetween'
  <2> SUFFICES ASSUME NEW q \in kept \cup {p}
               PROVE  /\ least'[q] <= Credit(buckets'[q], now)
                      /\ AtMost(Credit(buckets'[q], now), MostTicks) <= most'[q]
    BY <1>1, <1>9 DEF CreditBetween, Credit
  <2>1. CASE q = p
    <3>1. /\ least'[p] <= LeastTicks - Refill /\ LeastTicks - Refill <= most'[p]
          /\ least'[p] \in Int /\ most'[p] \in Int
      BY <1>1, <1>2, <1>11, <1>15, TickFacts
    <3>2. AtMost(LeastTicks - Refill, MostTicks) = LeastTicks - Refill
      BY TickFacts DEF AtMost
    <3> QED  BY <2>1, <3>1, <3>2, <1>6, <1>10
  <2>2. CASE q # p
    <3>1. q \in kept /\ q \in DOMAIN buckets /\ q \in Peers /\ ~cleared
      BY <2>2, <1>7, TypeFacts
    <3>2. buckets'[q] = buckets[q] /\ most'[q] = most[q] - 0 /\ least'[q] = least[q] - 0
      BY <2>2, <3>1, <1>10, <1>11
    <3>3. /\ least[q] <= Credit(buckets[q], now)
          /\ AtMost(Credit(buckets[q], now), MostTicks) <= most[q]
      BY <3>1 DEF BudgetIInv, CreditBetween
    <3> QED  BY <3>1, <3>2, <3>3, <1>15
  <2> QED  BY <2>1, <2>2
<1>17. StrictIsFullAtMost'
  <2> SUFFICES ASSUME NEW q \in Peers PROVE least'[q] <= LeastTicks
    BY DEF StrictIsFullAtMost
  <2> QED  BY <1>11, <1>12, <1>15, TickFacts
<1>18. UntrackedHasBurst'
  <2> SUFFICES ASSUME NEW q \in Peers, q \notin kept, q # p
               PROVE  LeastTicks <= most'[q]
    BY <1>9 DEF UntrackedHasBurst
  <2>1. most'[q] = (IF cleared THEN MostTicks ELSE most[q]) - 0  BY <1>11
  <2>2. CASE cleared  BY <2>1, <2>2, TickFacts
  <2>3. CASE ~cleared /\ q \notin DOMAIN buckets  BY <2>1, <2>3, <1>15
  <2>4. CASE ~cleared /\ q \in DOMAIN buckets
    <3>1. ~ (buckets[q].tokens + Refilled(buckets[q], now) < Burst)
      BY <2>4, <1>7 DEF Owing
    <3>2. buckets[q] \in Bucket /\ buckets[q].at <= now  BY <2>4, TypeFacts
    <3>3. Credit(buckets[q], now) >= LeastTicks /\ Credit(buckets[q], now) \in Nat
      BY <3>1, <3>2, <1>2, NothingOwed, CreditIsInt
    <3>4. AtMost(Credit(buckets[q], now), MostTicks) <= most[q]
      BY <2>4 DEF BudgetIInv, CreditBetween
    <3>5. LeastTicks <= most[q]  BY <3>3, <3>4, <1>15, TickFacts DEF AtMost
    <3> QED  BY <2>1, <2>4, <3>5, <1>15
  <2> QED  BY <2>2, <2>3, <2>4
<1>19. TableBounded'
  <2>1. IsFiniteSet(kept) /\ IsFiniteSet(Owing(now))
    <3>1. Owing(now) \subseteq DOMAIN buckets  BY DEF Owing
    <3> QED  BY <3>1, <1>7, TypeFacts, FS_Subset
  <2>2. Cardinality(kept) <= MaxTracked /\ Cardinality(kept) \in Nat
    <3>1. CASE cleared  BY <3>1, <1>7, EmptyTable, BudgetAssumption
    <3>2. CASE ~cleared
      <4>1. Cardinality(Owing(now)) \in Nat  BY <2>1, FS_CardinalityType
      <4> QED  BY <3>2, <4>1, <1>7, BudgetAssumption
    <3> QED  BY <3>1, <3>2
  <2>3. Cardinality(kept \cup {p}) = Cardinality(kept) + 1  BY <2>1, <1>8, FS_AddElement
  <2> QED  BY <2>2, <2>3, <1>9, BudgetAssumption DEF TableBounded
<1> QED  BY <1>13, <1>14, <1>16, <1>17, <1>18, <1>19 DEF BudgetIInv

\* Time passes: what a bucket is worth grows as fast as the ideal ones, up to their bounds.
LEMMA TickHolds ==
  ASSUME BudgetIInv, Tick
  PROVE  BudgetIInv'
<1>1. /\ now' = now + 1 /\ buckets' = buckets
      /\ most' = [p \in Peers |-> AtMost(most[p] + 1, MostTicks)]
      /\ least' = [p \in Peers |-> AtMost(least[p] + 1, LeastTicks)]
  BY DEF Tick
<1>2. \A p \in Peers : /\ most[p] \in Int /\ least[p] \in Int
                       /\ most'[p] = AtMost(most[p] + 1, MostTicks) /\ most'[p] \in Int
                       /\ least'[p] = AtMost(least[p] + 1, LeastTicks) /\ least'[p] \in Int
  BY <1>1, TypeFacts, TickFacts DEF AtMost
<1>3. BudgetTypeOK'
  <2>1. most' \in [Peers -> Int] /\ least' \in [Peers -> Int]  BY <1>1, <1>2
  <2> QED  BY <2>1, <1>1 DEF BudgetIInv, BudgetTypeOK
<1>4. TimesOrdered'
  <2>1. \A p \in DOMAIN buckets : buckets[p].at \in Nat /\ buckets[p].at <= now
    BY TypeFacts DEF Bucket
  <2> QED  BY <2>1, <1>1, TypeFacts DEF TimesOrdered
<1>5. CreditBetween'
  <2> SUFFICES ASSUME NEW p \in DOMAIN buckets
               PROVE  /\ least'[p] <= Credit(buckets[p], now + 1)
                      /\ AtMost(Credit(buckets[p], now + 1), MostTicks) <= most'[p]
    BY <1>1 DEF CreditBetween, Credit
  <2>1. p \in Peers /\ buckets[p] \in Bucket /\ buckets[p].at <= now /\ now \in Nat
    BY TypeFacts
  <2>2. Credit(buckets[p], now + 1) = Credit(buckets[p], now) + 1 /\ Credit(buckets[p], now) \in Nat
    <3>1. buckets[p].tokens * Refill \in Nat /\ buckets[p].at \in Nat
      BY <2>1, CreditIsInt DEF Bucket
    <3>2. Credit(buckets[p], now) \in Nat  BY <2>1, CreditIsInt
    <3> QED  BY <2>1, <3>1, <3>2 DEF Credit
  <2>3. /\ least[p] <= Credit(buckets[p], now)
        /\ AtMost(Credit(buckets[p], now), MostTicks) <= most[p]
    BY DEF BudgetIInv, CreditBetween
  <2>4. least'[p] <= Credit(buckets[p], now + 1)
    BY <1>2, <2>1, <2>2, <2>3, TickFacts DEF AtMost
  <2>5. AtMost(Credit(buckets[p], now + 1), MostTicks) <= most'[p]
    BY <1>2, <2>1, <2>2, <2>3, TickFacts DEF AtMost
  <2> QED  BY <2>4, <2>5
<1>6. StrictIsFullAtMost'
  <2> SUFFICES ASSUME NEW p \in Peers PROVE least'[p] <= LeastTicks
    BY DEF StrictIsFullAtMost
  <2> QED  BY <1>2, TickFacts DEF AtMost
<1>7. UntrackedHasBurst'
  <2> SUFFICES ASSUME NEW p \in Peers \ DOMAIN buckets PROVE LeastTicks <= most'[p]
    BY <1>1 DEF UntrackedHasBurst
  <2>1. LeastTicks <= most[p]  BY DEF BudgetIInv, UntrackedHasBurst
  <2> QED  BY <2>1, <1>2, TickFacts DEF AtMost
<1>8. TableBounded'  BY <1>1 DEF BudgetIInv, TableBounded
<1> QED  BY <1>3, <1>4, <1>5, <1>6, <1>7, <1>8 DEF BudgetIInv

LEMMA ForgottenHolds ==
  ASSUME BudgetIInv, BudgetForgotten
  PROVE  BudgetIInv'
<1>1. DOMAIN buckets' = {} /\ buckets' = [p \in {} |-> [tokens |-> 0, at |-> 0]]
  BY EmptyTable DEF BudgetForgotten
<1>2. \A p \in Peers : most'[p] = MostTicks /\ least'[p] = LeastTicks
  BY DEF BudgetForgotten
<1>3. BudgetTypeOK'
  <2>1. most' \in [Peers -> Int] /\ least' \in [Peers -> Int]
    BY TickFacts DEF BudgetForgotten
  <2>2. now' \in Nat  BY TypeFacts DEF BudgetForgotten
  <2>3. buckets' \in [{} -> Bucket]  BY <1>1, EmptyTable
  <2> QED  BY <2>1, <2>2, <2>3, <1>1 DEF BudgetTypeOK
<1>4. TimesOrdered' /\ CreditBetween'  BY <1>1 DEF TimesOrdered, CreditBetween
<1>5. StrictIsFullAtMost' /\ UntrackedHasBurst'
  BY <1>1, <1>2, TickFacts DEF StrictIsFullAtMost, UntrackedHasBurst
<1>6. TableBounded'  BY <1>1, EmptyTable, BudgetAssumption DEF TableBounded
<1> QED  BY <1>3, <1>4, <1>5, <1>6 DEF BudgetIInv

LEMMA StutterHolds ==
  ASSUME BudgetIInv, UNCHANGED budgetVars
  PROVE  BudgetIInv'
  BY DEF budgetVars, BudgetIInv, BudgetTypeOK, TimesOrdered, CreditBetween, StrictIsFullAtMost,
         UntrackedHasBurst, TableBounded, Credit

-------------------------------------------------------------------------------

\* Who is refused has no token, and the fraction it has gathered is less than one.
LEMMA RefusedFacts ==
  ASSUME BudgetIInv, NEW p \in DOMAIN buckets, ~ Grants(p, now)
  PROVE  /\ buckets[p].tokens = 0 /\ Refilled(buckets[p], now) = 0
         /\ now - buckets[p].at < Refill /\ ToppedUp(buckets[p], now).at = buckets[p].at
         /\ BucketAt(p, now) = ToppedUp(buckets[p], now)
<1> DEFINE b == buckets[p]
           k == Refilled(b, now)
<1>1. b \in Bucket /\ b.at <= now /\ now \in Nat  BY TypeFacts
<1>2. b.tokens \in Nat /\ b.at \in Nat /\ Refill \in Nat \ {0} /\ Burst \in Nat /\ Burst >= 1
  BY <1>1, TickFacts DEF Bucket
<1>3. /\ k \in Nat /\ k * Refill <= now - b.at /\ now - b.at < k * Refill + Refill
      /\ Refill * k = k * Refill
  BY <1>1, <1>2, DivisionFacts DEF Refilled
<1>4. BucketAt(p, now) = ToppedUp(b, now)  BY DEF BucketAt
<1>5. ~ (AtMost(b.tokens + k, Burst) > 0)  BY <1>4 DEF Grants, ToppedUp
<1>6. b.tokens = 0 /\ k = 0  BY <1>2, <1>3, <1>5 DEF AtMost
<1>7. k * Refill = 0  BY <1>2, <1>6
<1>8. ToppedUp(b, now).at = b.at
  <2>1. ToppedUp(b, now).at = b.at + Refill * k  BY DEF ToppedUp
  <2> HIDE DEF k
  <2>2. Refill * k = 0  BY <1>2, <1>6, <1>3, <1>7
  <2> QED  BY <2>1, <2>2, <1>2
<1> QED  BY <1>2, <1>3, <1>4, <1>6, <1>7, <1>8

LEMMA InvImpliesKept ==
  ASSUME BudgetIInv
  PROVE  BudgetKept
<1>1. NeverOverspent
  <2> SUFFICES ASSUME NEW p \in Peers PROVE most[p] >= 0
    BY DEF NeverOverspent
  <2>1. most[p] \in Int  BY TypeFacts
  <2>2. CASE p \in DOMAIN buckets
    <3>1. Credit(buckets[p], now) \in Nat  BY <2>2, TypeFacts, CreditIsInt
    <3>2. AtMost(Credit(buckets[p], now), MostTicks) <= most[p]
      BY <2>2 DEF BudgetIInv, CreditBetween
    <3> QED  BY <2>1, <3>1, <3>2, TickFacts DEF AtMost
  <2>3. CASE p \notin DOMAIN buckets
    BY <2>1, <2>3, TickFacts DEF BudgetIInv, UntrackedHasBurst
  <2> QED  BY <2>2, <2>3
<1>2. RefusedWhenSpent
  <2> SUFFICES ASSUME NEW p \in DOMAIN buckets, ~ Grants(p, now) PROVE least[p] < Refill
    BY DEF RefusedWhenSpent
  <2>1. buckets[p].tokens = 0 /\ now - buckets[p].at < Refill  BY RefusedFacts
  <2>2. least[p] <= Credit(buckets[p], now)  BY DEF BudgetIInv, CreditBetween
  <2>3. least[p] \in Int /\ buckets[p].at \in Nat /\ now \in Nat  BY TypeFacts DEF Bucket
  <2>4. Credit(buckets[p], now) = now - buckets[p].at  BY <2>1, <2>3, TickFacts DEF Credit
  <2> QED  BY <2>1, <2>2, <2>3, <2>4, TickFacts
<1>3. WaitIsEnough
  <2> SUFFICES ASSUME NEW p \in DOMAIN buckets, ~ Grants(p, now)
               PROVE  Grants(p, now + Wait(p, now))
    BY DEF WaitIsEnough
  <2> DEFINE b == buckets[p]
  <2>1. /\ b.tokens = 0 /\ now - b.at < Refill /\ BucketAt(p, now) = ToppedUp(b, now)
        /\ ToppedUp(b, now).at = b.at
    BY RefusedFacts
  <2>2. b \in Bucket /\ b.at \in Nat /\ b.at <= now /\ now \in Nat  BY TypeFacts DEF Bucket
  <2>3. Wait(p, now) = Refill  BY <2>1, <2>2, TickFacts DEF Wait
  <2> DEFINE t == now + Refill
             k == Refilled(b, t)
  <2>4. t - b.at \in Nat /\ Refill <= t - b.at /\ Refill \in Nat \ {0}  BY <2>2, TickFacts
  <2>5. k \in Nat /\ k # 0  BY <2>4, OneFits DEF Refilled
  <2>6. BucketAt(p, t) = ToppedUp(b, t)  BY DEF BucketAt
  <2>7. AtMost(b.tokens + k, Burst) > 0  BY <2>1, <2>5, TickFacts DEF AtMost
  <2>8. Grants(p, t)  BY <2>6, <2>7 DEF Grants, ToppedUp
  <2> QED  BY <2>3, <2>8
<1> QED  BY <1>1, <1>2, <1>3 DEF BudgetKept, BudgetIInv, TableBounded

\* For every burst, refill time and bound of the table, and any number of addresses: no
\* address spends more than a bucket of its own would allow, one is only refused when
\* such a bucket is empty too, the wait it is told is long enough, and the table stays
\* within its bound (IpBudget).
THEOREM BudgetIsKept == BudgetSpec => []BudgetKept
<1>1. BudgetInit => BudgetIInv  BY EmptyHolds DEF BudgetInit
<1>2. BudgetIInv /\ [BudgetNext]_budgetVars => BudgetIInv'
  BY GrantKnownHolds, GrantNewHolds, RefuseHolds, TickHolds, ForgottenHolds, StutterHolds
  DEF BudgetNext, Grant
<1>3. BudgetIInv => BudgetKept  BY InvImpliesKept
<1> QED  BY <1>1, <1>2, <1>3, PTL DEF BudgetSpec

-------------------------------------------------------------------------------
(* The service *)

ConnRecords == [state : States, listener : Listeners \cup {None}, peer : Peers \cup {None},
                answer : Statuses \cup {None}, entitled : BOOLEAN]

ServedBy(l) == {s \in Slots : conns[s].listener = l /\ conns[s].state \in Served}

\* Every connection a task serves holds a permit of its listener, and no process
\* that is down serves any.
PermitsHeld ==
  /\ permits \in [Listeners -> Nat]
  /\ \A l \in Listeners : permits[l] + Cardinality(ServedBy(l)) = MaxConnections
  /\ \A s \in Slots : /\ conns[s].state # "free" => conns[s].listener \in Listeners
                      /\ ~ up => conns[s].state \notin Served

ServiceTypes ==
  /\ mode \in Modes
  /\ conns \in [Slots -> ConnRecords]
  /\ tlsLoaded \in BOOLEAN
  /\ up \in BOOLEAN
  /\ stops \in Nat

ServiceInv == BudgetIInv /\ ServiceTypes /\ PermitsHeld /\ AnswersGiveNothingAway

LEMMA FreeType == Free \in ConnRecords
BY DEF Free, ConnRecords, States

LEMMA ServedFinite ==
  ASSUME NEW l \in Listeners
  PROVE  IsFiniteSet(ServedBy(l)) /\ Cardinality(ServedBy(l)) \in Nat
<1>1. ServedBy(l) \subseteq Slots
  BY DEF ServedBy
<1> QED  BY <1>1, ServiceAssumption, FS_Subset, FS_CardinalityType

\* A permit taken for a connection that begins to be served.
LEMMA OneMoreServed ==
  ASSUME NEW l \in Listeners, NEW s \in Slots, s \notin ServedBy(l), ServedBy(l)' = ServedBy(l) \cup {s}
  PROVE  Cardinality(ServedBy(l)') = Cardinality(ServedBy(l)) + 1
BY ServedFinite, FS_AddElement

LEMMA OneLessServed ==
  ASSUME NEW l \in Listeners, NEW s \in ServedBy(l), ServedBy(l)' = ServedBy(l) \ {s}
  PROVE  Cardinality(ServedBy(l)') = Cardinality(ServedBy(l)) - 1
BY ServedFinite, FS_RemoveElement

\* A step that changes one connection without giving or taking a permit.
LEMMA SameServed ==
  ASSUME ServiceTypes, PermitsHeld, NEW s \in Slots, NEW c \in ConnRecords,
         conns' = [conns EXCEPT ![s] = c], UNCHANGED <<permits, up>>,
         c.state \in Served <=> conns[s].state \in Served,
         c.state \in Served => c.listener = conns[s].listener,
         c.state # "free" => c.listener \in Listeners
  PROVE  PermitsHeld'
<1>1. \A t \in Slots : conns'[t] = IF t = s THEN c ELSE conns[t]
  BY DEF ServiceTypes
<1>2. ASSUME NEW l \in Listeners PROVE ServedBy(l)' = ServedBy(l)
  BY <1>1 DEF ServedBy
<1> QED  BY <1>1, <1>2 DEF PermitsHeld

LEMMA AdmitHolds ==
  ASSUME ServiceTypes, PermitsHeld, NEW s \in Slots, NEW l \in Listeners, NEW state \in Served,
         conns[s].state = "queued", conns[s].listener = l, up, up' = up, Admit(s, l, state)
  PROVE  PermitsHeld' /\ \E c \in ConnRecords : /\ conns' = [conns EXCEPT ![s] = c]
                                                 /\ c.state \in {"free", state}
<1>1. CASE permits[l] > 0
  <2> DEFINE c == [conns[s] EXCEPT !.state = state]
  <2>1. conns' = [conns EXCEPT ![s] = c] /\ permits' = [permits EXCEPT ![l] = permits[l] - 1]
    BY <1>1 DEF Admit
  <2>2. conns[s] \in ConnRecords
    BY DEF ServiceTypes
  <2>3. c \in ConnRecords /\ c.state = state /\ c.listener = l
    BY <2>2 DEF ConnRecords, States, Served
  <2>4. \A t \in Slots : conns'[t] = IF t = s THEN c ELSE conns[t]
    BY <2>1 DEF ServiceTypes
  <2>5. /\ permits' \in [Listeners -> Nat]
        /\ \A k \in Listeners : permits'[k] = IF k = l THEN permits[l] - 1 ELSE permits[k]
    BY <1>1, <2>1 DEF PermitsHeld
  <2> HIDE DEF c
  <2>6. ASSUME NEW k \in Listeners PROVE permits'[k] + Cardinality(ServedBy(k)') = MaxConnections
    <3>1. CASE k = l
      <4>1. s \notin ServedBy(l) /\ ServedBy(l)' = ServedBy(l) \cup {s}
        BY <2>3, <2>4 DEF ServedBy, Served
      <4>2. Cardinality(ServedBy(l)') = Cardinality(ServedBy(l)) + 1
        BY <4>1, OneMoreServed
      <4>3. permits[l] \in Nat /\ Cardinality(ServedBy(l)) \in Nat
            /\ permits[l] + Cardinality(ServedBy(l)) = MaxConnections
        BY ServedFinite DEF PermitsHeld
      <4> QED  BY <2>5, <3>1, <4>2, <4>3
    <3>2. CASE k # l
      <4>1. ServedBy(k)' = ServedBy(k)
        BY <2>3, <2>4, <3>2 DEF ServedBy, Served
      <4> QED  BY <2>5, <3>2, <4>1 DEF PermitsHeld
    <3> QED  BY <3>1, <3>2
  <2>7. PermitsHeld'
    BY <2>3, <2>4, <2>5, <2>6 DEF PermitsHeld
  <2> QED  BY <2>1, <2>3, <2>7
<1>2. CASE ~ (permits[l] > 0)
  <2>1. conns' = [conns EXCEPT ![s] = Free] /\ UNCHANGED permits
    BY <1>2 DEF Admit
  <2>2. Free.state = "free"
    BY DEF Free
  <2>3. PermitsHeld'
    BY <2>1, <2>2, FreeType, SameServed DEF Served
  <2> QED  BY <2>1, <2>2, <2>3, FreeType
<1> QED  BY <1>1, <1>2

LEMMA TaskEndsHolds ==
  ASSUME ServiceTypes, PermitsHeld, NEW s \in Slots, conns[s].state \in Served, TaskEnds(s), up' = up
  PROVE  PermitsHeld' /\ conns' = [conns EXCEPT ![s] = Free]
<1> DEFINE l == conns[s].listener
<1>0. l \in Listeners /\ s \in ServedBy(l)
  BY DEF PermitsHeld, Served, ServedBy
<1>1. conns' = [conns EXCEPT ![s] = Free] /\ permits' = [permits EXCEPT ![l] = permits[l] + 1]
  BY DEF TaskEnds
<1>2. Free.state = "free" /\ \A t \in Slots : conns'[t] = IF t = s THEN Free ELSE conns[t]
  BY <1>1 DEF ServiceTypes, Free
<1>3. /\ permits' \in [Listeners -> Nat]
      /\ \A k \in Listeners : permits'[k] = IF k = l THEN permits[l] + 1 ELSE permits[k]
  BY <1>0, <1>1 DEF PermitsHeld
<1>4. ASSUME NEW k \in Listeners PROVE permits'[k] + Cardinality(ServedBy(k)') = MaxConnections
  <2>1. CASE k = l
    <3>1. s \in ServedBy(k) /\ ServedBy(k)' = ServedBy(k) \ {s}
      BY <1>0, <1>2, <2>1 DEF ServedBy, Served
    <3>2. Cardinality(ServedBy(k)') = Cardinality(ServedBy(k)) - 1
      BY <3>1, OneLessServed
    <3>3. /\ permits[k] \in Nat /\ Cardinality(ServedBy(k)) \in Nat
          /\ permits[k] + Cardinality(ServedBy(k)) = MaxConnections
          /\ permits'[k] = permits[k] + 1
      BY <1>3, <2>1, ServedFinite DEF PermitsHeld
    <3> QED  BY <3>2, <3>3
  <2>2. CASE k # l
    <3>1. ServedBy(k)' = ServedBy(k)
      BY <1>2, <2>2 DEF ServedBy, Served
    <3> QED  BY <1>3, <2>2, <3>1 DEF PermitsHeld
  <2> QED  BY <2>1, <2>2
<1>5. \A t \in Slots : /\ conns'[t].state # "free" => conns'[t].listener \in Listeners
                       /\ ~ up' => conns'[t].state \notin Served
  BY <1>2 DEF PermitsHeld, Served
<1> QED  BY <1>1, <1>3, <1>4, <1>5 DEF PermitsHeld

\* What an answer of c may be.
Discreet(c) ==
  c.state = "answered" =>
    /\ c.listener # "acme" /\ c.answer \in {"200", "503"} => c.entitled
    /\ c.answer = "429" => c.listener # "acme" /\ mode # "ExternalProxy"

LEMMA ReplacedConnection ==
  ASSUME ServiceTypes, AnswersGiveNothingAway, NEW s \in Slots, NEW c \in ConnRecords,
         conns' = [conns EXCEPT ![s] = c], Discreet(c), UNCHANGED mode
  PROVE  conns' \in [Slots -> ConnRecords] /\ AnswersGiveNothingAway'
<1>1. conns' \in [Slots -> ConnRecords] /\ \A t \in Slots : conns'[t] = IF t = s THEN c ELSE conns[t]
  BY DEF ServiceTypes
<1>2. \A t \in Slots : Discreet(conns[t])
  BY DEF AnswersGiveNothingAway, Discreet
<1>3. ASSUME NEW t \in Slots PROVE Discreet(conns'[t])
  BY <1>1, <1>2
<1> QED  BY <1>1, <1>3 DEF AnswersGiveNothingAway, Discreet

LEMMA FreeIsDiscreet == Discreet(Free)
BY DEF Discreet, Free

\* A subscription is only answered to who is entitled to it, and only a request for
\* one is routed.
LEMMA AnswersToTheEntitled ==
  ASSUME NEW r \in Requests, NEW readable \in BOOLEAN
  PROVE  /\ AnswerOf(r, readable) \in Statuses \ {"429"}
         /\ AnswerOf(r, readable) \in {"200", "503"} => Entitled(r)
<1>1. r.path.root # "sub" => ParseRoute(r.path) = None
  BY DEF ParseRoute
<1> QED  BY <1>1 DEF AnswerOf, Entitled, Statuses

LEMMA RespondHolds ==
  ASSUME ServiceInv, NEW s \in Slots, NEW r \in Requests, NEW readable \in BOOLEAN,
         Respond(s, r, readable) \/ RespondAcme(s, r, readable)
  PROVE  ServiceInv'
<1>0. /\ ServiceTypes /\ PermitsHeld /\ AnswersGiveNothingAway /\ BudgetIInv
      /\ conns[s] \in ConnRecords /\ conns[s].state = "open"
      /\ UNCHANGED <<permits, mode, processVars>>
  BY DEF ServiceInv, ServiceTypes, Respond, RespondAcme
<1>1. BudgetIInv'
  <2>1. CASE UNCHANGED budgetVars
    BY <1>0, <2>1, StutterHolds
  <2>2. CASE \E peer : Charged(peer) /\ peer = conns[s].peer /\ (Refuse(peer) \/ Grant(peer))
    <3>1. PICK peer : Charged(peer) /\ peer = conns[s].peer /\ (Refuse(peer) \/ Grant(peer))
      BY <2>2
    <3>2. peer \in Peers
      BY <1>0, <3>1 DEF Charged, ConnRecords
    <3> QED  BY <1>0, <3>1, <3>2, GrantKnownHolds, GrantNewHolds, RefuseHolds DEF Grant
  <2> QED  BY <2>1, <2>2 DEF Respond, RespondAcme
<1>2. PICK status : /\ Answer(s, r, status)
                    /\ \/ status = AnswerOf(r, readable) /\ conns[s].listener # "acme"
                       \/ status = "429" /\ conns[s].listener # "acme" /\ mode # "ExternalProxy"
                       \/ status \in {"200", "404"} /\ conns[s].listener = "acme"
  BY DEF Respond, RespondAcme, Charged
<1>3. status \in Statuses
  BY <1>2, AnswersToTheEntitled DEF Statuses
<1> DEFINE c == [conns[s] EXCEPT !.state = "answered", !.peer = None, !.answer = status,
                                 !.entitled = Entitled(r)]
<1>4. /\ conns' = [conns EXCEPT ![s] = c]
      /\ c.state = "answered" /\ c.answer = status /\ c.listener = conns[s].listener
      /\ c.entitled = Entitled(r) /\ c \in ConnRecords
  <2>1. Entitled(r) \in BOOLEAN
    BY DEF Entitled
  <2>2. c \in ConnRecords
    BY <1>0, <1>3, <2>1 DEF ConnRecords, States
  <2> QED  BY <1>0, <1>2, <2>2 DEF Answer, ServiceTypes, ConnRecords
<1> HIDE DEF c
<1>5. Discreet(c)
  BY <1>2, <1>4, AnswersToTheEntitled DEF Discreet
<1>6. conns' \in [Slots -> ConnRecords] /\ AnswersGiveNothingAway'
  BY <1>0, <1>4, <1>5, ReplacedConnection
<1>7. PermitsHeld'
  BY <1>0, <1>4, SameServed DEF Served, PermitsHeld, processVars
<1> QED  BY <1>0, <1>1, <1>6, <1>7 DEF ServiceInv, ServiceTypes, processVars

LEMMA PeerHolds ==
  ASSUME ServiceInv, NEW s \in Slots,
         (\E l \in Listeners, p \in Peers \cup {None} : Connect(s, l, p)) \/ Handshake(s)
  PROVE  ServiceInv'
<1>0. /\ ServiceTypes /\ PermitsHeld /\ AnswersGiveNothingAway /\ BudgetIInv
      /\ conns[s] \in ConnRecords
      /\ UNCHANGED <<budgetVars, permits, mode, processVars>>
  BY DEF ServiceInv, ServiceTypes, Connect, Handshake
<1>1. PICK c \in ConnRecords :
        /\ conns' = [conns EXCEPT ![s] = c]
        /\ c.state \in Served <=> conns[s].state \in Served
        /\ c.state \in Served => c.listener = conns[s].listener
        /\ c.listener \in Listeners /\ c.state # "answered"
  <2>1. CASE Handshake(s)
    <3> DEFINE c == [conns[s] EXCEPT !.state = "open"]
    <3>1. conns' = [conns EXCEPT ![s] = c] /\ conns[s].state = "handshake"
      BY <1>0, <2>1 DEF Handshake, ServiceTypes
    <3>2. c \in ConnRecords /\ c.state = "open" /\ c.listener = conns[s].listener
      BY <1>0 DEF ConnRecords, States
    <3>3. conns[s].listener \in Listeners
      BY <1>0, <3>1 DEF PermitsHeld
    <3> HIDE DEF c
    <3> QED  BY <3>1, <3>2, <3>3 DEF Served
  <2>2. ASSUME NEW l \in Listeners, NEW p \in Peers \cup {None}, Connect(s, l, p)
        PROVE  \E c \in ConnRecords :
                 /\ conns' = [conns EXCEPT ![s] = c]
                 /\ c.state \in Served <=> conns[s].state \in Served
                 /\ c.state \in Served => c.listener = conns[s].listener
                 /\ c.listener \in Listeners /\ c.state # "answered"
    <3> DEFINE c == [Free EXCEPT !.state = "queued", !.listener = l, !.peer = p]
    <3>1. conns' = [conns EXCEPT ![s] = c] /\ conns[s].state = "free"
      BY <2>2 DEF Connect
    <3>2. c \in ConnRecords /\ c.state = "queued" /\ c.listener = l
      BY DEF Free, ConnRecords, States
    <3> HIDE DEF c
    <3> QED  BY <3>1, <3>2 DEF Served
  <2> QED  BY <2>1, <2>2
<1>2. Discreet(c)
  BY <1>1 DEF Discreet
<1>3. conns' \in [Slots -> ConnRecords] /\ AnswersGiveNothingAway'
  BY <1>0, <1>1, <1>2, ReplacedConnection
<1>4. PermitsHeld'
  BY <1>0, <1>1, SameServed DEF processVars
<1> QED  BY <1>0, <1>3, <1>4, StutterHolds DEF ServiceInv, ServiceTypes, processVars

LEMMA AcceptHolds ==
  ASSUME ServiceInv, NEW s \in Slots, AcceptPlain(s) \/ AcceptTls(s)
  PROVE  ServiceInv'
<1>0. /\ ServiceTypes /\ PermitsHeld /\ AnswersGiveNothingAway /\ BudgetIInv
      /\ conns[s].state = "queued" /\ conns[s].listener \in Listeners
      /\ up /\ UNCHANGED <<budgetVars, mode, up, stops>> /\ tlsLoaded' \in BOOLEAN
  BY DEF ServiceInv, ServiceTypes, AcceptPlain, AcceptTls, processVars, Listeners
<1>1. /\ PermitsHeld'
      /\ \E c \in ConnRecords : conns' = [conns EXCEPT ![s] = c] /\ c.state # "answered"
  <2>1. CASE \E l \in Listeners, state \in {"open", "handshake"} :
               conns[s].listener = l /\ Admit(s, l, state)
    <3>1. PICK l \in Listeners, state \in {"open", "handshake"} :
                 conns[s].listener = l /\ Admit(s, l, state)
      BY <2>1
    <3> QED  BY <1>0, <3>1, AdmitHolds DEF Served
  <2>2. CASE conns' = [conns EXCEPT ![s] = Free] /\ UNCHANGED permits
    BY <1>0, <2>2, FreeType, SameServed DEF Free, Served
  <2> QED  BY <1>0, <2>1, <2>2 DEF AcceptPlain, AcceptTls, Listeners
<1>2. PICK c \in ConnRecords : conns' = [conns EXCEPT ![s] = c] /\ c.state # "answered"
  BY <1>1
<1>3. conns' \in [Slots -> ConnRecords] /\ AnswersGiveNothingAway'
  BY <1>0, <1>2, ReplacedConnection DEF Discreet
<1> QED  BY <1>0, <1>1, <1>3, StutterHolds DEF ServiceInv, ServiceTypes

LEMMA EndHolds ==
  ASSUME ServiceInv, NEW s \in Slots, Leave(s) \/ TimesOut(s)
  PROVE  ServiceInv'
<1>0. /\ ServiceTypes /\ PermitsHeld /\ AnswersGiveNothingAway /\ BudgetIInv
      /\ conns[s].state \in Served /\ TaskEnds(s)
      /\ UNCHANGED <<budgetVars, mode, processVars>>
  BY DEF ServiceInv, Leave, TimesOut, Served
<1>1. PermitsHeld' /\ conns' = [conns EXCEPT ![s] = Free]
  BY <1>0, TaskEndsHolds DEF processVars
<1>2. conns' \in [Slots -> ConnRecords] /\ AnswersGiveNothingAway'
  BY <1>0, <1>1, FreeType, FreeIsDiscreet, ReplacedConnection
<1> QED  BY <1>0, <1>1, <1>2, StutterHolds DEF ServiceInv, ServiceTypes, processVars

LEMMA ProcessHolds ==
  ASSUME ServiceInv, Stop \/ Restart \/ Time \/ UNCHANGED serviceVars
  PROVE  ServiceInv'
<1>0. ServiceTypes /\ PermitsHeld /\ AnswersGiveNothingAway /\ BudgetIInv
  BY DEF ServiceInv
<1>1. CASE Stop
  <2>1. \A s \in Slots : \/ conns'[s] = Free
                         \/ conns'[s] = conns[s] /\ conns[s].state = "queued"
    BY <1>1 DEF Stop
  <2>2. \A s \in Slots : conns'[s] \in ConnRecords /\ conns'[s].state \notin Served
                         /\ (conns'[s].state # "free" => conns'[s].listener \in Listeners)
    BY <1>0, <2>1, FreeType DEF ServiceTypes, PermitsHeld, Served, Free
  <2>3. ServiceTypes'
    <3>1. conns' \in [Slots -> ConnRecords]
      BY <1>1, <2>2 DEF Stop
    <3>2. up' \in BOOLEAN /\ tlsLoaded' \in BOOLEAN
      BY <1>1, Zenon DEF Stop
    <3>3. mode' \in Modes /\ stops' \in Nat
      BY <1>0, <1>1 DEF Stop, ServiceTypes
    <3> QED  BY <3>1, <3>2, <3>3 DEF ServiceTypes
  <2>4. AnswersGiveNothingAway'
    BY <2>2 DEF AnswersGiveNothingAway, Served
  <2>5. \A l \in Listeners : ServedBy(l)' = {}
    BY <2>2 DEF ServedBy
  <2>6. permits' = [l \in Listeners |-> MaxConnections] /\ MaxConnections \in Nat
    BY <1>1, ServiceAssumption DEF Stop
  <2>7. PermitsHeld'
    <3>1. ASSUME NEW l \in Listeners
          PROVE  permits'[l] + Cardinality(ServedBy(l)') = MaxConnections
      <4>1. Cardinality(ServedBy(l)') = 0
        BY <2>5, FS_EmptySet
      <4> QED  BY <2>6, <4>1
    <3>2. permits' \in [Listeners -> Nat]
      BY <2>6
    <3> QED  BY <2>2, <3>1, <3>2 DEF PermitsHeld
  <2>8. BudgetIInv'
    BY <1>0, <1>1, ForgottenHolds DEF Stop
  <2> QED  BY <2>3, <2>4, <2>7, <2>8 DEF ServiceInv
<1>2. CASE Restart
  <2>1. PermitsHeld'
    BY <1>0, <1>2 DEF Restart, PermitsHeld, connVars, ServedBy
  <2>2. ServiceTypes' /\ AnswersGiveNothingAway'
    BY <1>0, <1>2 DEF Restart, ServiceTypes, AnswersGiveNothingAway, connVars
  <2> QED  BY <1>0, <1>2, <2>1, <2>2, StutterHolds DEF Restart, ServiceInv
<1>3. CASE Time \/ UNCHANGED serviceVars
  <2>1. UNCHANGED <<conns, permits, mode, tlsLoaded, up, stops>>
    BY <1>3 DEF Time, serviceVars, connVars, processVars
  <2>2. BudgetIInv'
    BY <1>0, <1>3, TickHolds, StutterHolds DEF Time, serviceVars
  <2>3. PermitsHeld' /\ ServiceTypes' /\ AnswersGiveNothingAway'
    BY <1>0, <2>1 DEF PermitsHeld, ServiceTypes, AnswersGiveNothingAway, ServedBy
  <2> QED  BY <2>2, <2>3 DEF ServiceInv
<1> QED  BY <1>1, <1>2, <1>3

LEMMA ServiceInvHolds == Spec => []ServiceInv
<1>1. ASSUME Init PROVE ServiceInv
  <2>1. BudgetIInv
    BY <1>1, EmptyHolds DEF Init, BudgetInit
  <2>2. \A s \in Slots : conns[s] = Free /\ Free.state = "free"
    BY <1>1 DEF Init, Free
  <2>3. \A l \in Listeners : ServedBy(l) = {} /\ permits[l] = MaxConnections
    BY <1>1, <2>2 DEF ServedBy, Served, Init
  <2>4. PermitsHeld
    BY <1>1, <2>2, <2>3, FS_EmptySet, ServiceAssumption DEF PermitsHeld, Init
  <2>5. ServiceTypes /\ AnswersGiveNothingAway
    BY <1>1, <2>2, FreeType DEF ServiceTypes, AnswersGiveNothingAway, Init
  <2> QED  BY <2>1, <2>4, <2>5 DEF ServiceInv
<1>2. ServiceInv /\ [Next]_serviceVars => ServiceInv'
  BY RespondHolds, PeerHolds, AcceptHolds, EndHolds, ProcessHolds DEF Next, Peer
<1> QED  BY <1>1, <1>2, PTL DEF Spec

\* The types of the service, and that the permits of a listener and the connections
\* it serves always add up to what it may serve (the semaphores of run_*_listener).
THEOREM ServiceTypesCorrect == Spec => []TypeOK
<1>1. ASSUME ServiceInv PROVE TypeOK
  <2>1. BudgetTypeOK /\ ServiceTypes /\ PermitsHeld
    BY <1>1 DEF ServiceInv, BudgetIInv
  <2>2. \A l \in Listeners : permits[l] \in 0 .. MaxConnections
    BY <2>1, ServedFinite, ServiceAssumption DEF PermitsHeld
  <2>3. permits \in [Listeners -> 0 .. MaxConnections]
    BY <2>1, <2>2 DEF PermitsHeld
  <2> QED  BY <2>1, <2>3 DEF TypeOK, ServiceTypes, PermitsHeld, ConnRecords, ServedBy
<1> QED  BY <1>1, ServiceInvHolds, PTL

\* The budget keeps its promise inside the service, whatever its connections, its
\* restarts and its modes: an uncharged answer or a lost connection never changes it.
THEOREM ServiceKeepsBudget == Spec => []BudgetKept
<1>1. ServiceInv => BudgetKept
  BY InvImpliesKept DEF ServiceInv
<1> QED  BY <1>1, ServiceInvHolds, PTL

\* For any requests, peers and artifacts: only an entitled request gets an artifact or
\* learns that there is none, and only a counted subscription request is turned away
\* as one too many.
THEOREM NothingIsGivenAway == Spec => []AnswersGiveNothingAway
<1>1. ServiceInv => AnswersGiveNothingAway
  BY DEF ServiceInv
<1> QED  BY <1>1, ServiceInvHolds, PTL

\* No connection is turned away for the connections of another listener.
THEOREM ListenersAreIndependent == Spec => DropsOnlyWhenFull
<1>1. ASSUME ServiceInv, [Next]_serviceVars, NEW s \in Slots,
             conns[s].state = "queued", conns'[s].state = "free", up'
      PROVE  \/ Cardinality(ServedBy(conns[s].listener)) = MaxConnections
             \/ conns[s].listener = "tls" /\ ~ tlsLoaded'
  <2>0. ServiceTypes /\ PermitsHeld
    BY <1>1 DEF ServiceInv
  <2>1. PICK t \in Slots : Peer(t) \/ AcceptPlain(t) \/ AcceptTls(t) \/ TimesOut(t)
    BY <1>1 DEF Next, Stop, Restart, Time, serviceVars, connVars
  <2>2. \A q \in Slots \ {t} : conns'[q] = conns[q]
    BY <2>0, <2>1 DEF Peer, Connect, Handshake, Leave, Respond, RespondAcme, Answer, AcceptPlain,
       AcceptTls, Admit, TimesOut, TaskEnds, ServiceTypes
  <2>3. t = s /\ (AcceptPlain(s) \/ AcceptTls(s))
    BY <1>1, <2>1, <2>2 DEF Peer, Connect, Handshake, Leave, Respond, RespondAcme, TimesOut, Served
  <2>4. conns[s].listener \in Listeners /\ conns[s] \in ConnRecords
    BY <1>1, <2>0 DEF PermitsHeld, ServiceTypes
  <2>5. \/ ~ (permits[conns[s].listener] > 0)
        \/ conns[s].listener = "tls" /\ ~ tlsLoaded'
    BY <1>1, <2>0, <2>3, <2>4 DEF AcceptPlain, AcceptTls, Admit, ServiceTypes, ConnRecords
  <2>6. /\ permits[conns[s].listener] \in Nat
        /\ Cardinality(ServedBy(conns[s].listener)) \in Nat
        /\ permits[conns[s].listener] + Cardinality(ServedBy(conns[s].listener)) = MaxConnections
    BY <2>0, <2>4, ServedFinite DEF PermitsHeld
  <2> QED  BY <2>5, <2>6
<1>2. ServiceInv /\ [Next]_serviceVars =>
        [\A s \in Slots :
           conns[s].state = "queued" /\ conns'[s].state = "free" /\ up' =>
             LET l == conns[s].listener IN
             \/ Cardinality({c \in Slots : conns[c].listener = l /\ conns[c].state \in Served})
                  = MaxConnections
             \/ l = "tls" /\ ~ tlsLoaded']_serviceVars
  BY <1>1 DEF ServedBy
<1> QED  BY <1>2, ServiceInvHolds, PTL DEF Spec, DropsOnlyWhenFull

-------------------------------------------------------------------------------
(* Induction over numbers and lists.  Its principle is that there is no    *)
(* endless descent among finite sets: a predicate is the set of what has   *)
(* it, and of the numbers that have it not, none is the least.             *)

LEMMA LeastNumber ==
  ASSUME NEW S, S \subseteq Nat, S # {}
  PROVE  \E n \in S : \A m \in S : n <= m
<1> DEFINE R == StrictSubsetOrdering(Nat)
           F == FiniteSubsetsOf(Nat)
           T == {1 .. n : n \in S}
<1>1. IsWellFoundedOn(R, F)
  BY FS_StrictSubsetOrderingWellFounded
<1>2. T \subseteq F
  <2>1. ASSUME NEW n \in S  PROVE 1 .. n \in F
    <3>1. n \in Int /\ 1 \in Int /\ 1 .. n \subseteq Nat
      OBVIOUS
    <3>2. IsFiniteSet(1 .. n)
      BY <3>1, FS_Interval
    <3> QED  BY <3>1, <3>2 DEF FiniteSubsetsOf
  <2> QED  BY <2>1
<1>3. T # {}
  OBVIOUS
<1>4. \E x \in T : \A y \in T : ~ (<<y, x>> \in R)
  <2> HIDE DEF R, F, T
  <2> QED  BY <1>1, <1>2, <1>3, WFMin, Zenon
<1>5. PICK n \in S : \A m \in S : ~ (<<1 .. m, 1 .. n>> \in R)
  BY <1>4
<1>6. ASSUME NEW m \in S, m < n  PROVE FALSE
  <2>1. 1 .. m \subseteq 1 .. n /\ n \in 1 .. n /\ n \notin 1 .. m
    BY <1>6
  <2>2. 1 .. m \in SUBSET Nat /\ 1 .. n \in SUBSET Nat /\ 1 .. m # 1 .. n
    BY <2>1
  <2>3. <<1 .. m, 1 .. n>> \in R
    BY <2>1, <2>2 DEF StrictSubsetOrdering
  <2> QED  BY <1>5, <2>3
<1> QED  BY <1>6

LEMMA NumberInduction ==
  ASSUME NEW S, 0 \in S, \A n \in Nat : n \in S => n + 1 \in S
  PROVE  Nat \subseteq S
<1> SUFFICES ASSUME Nat \ S # {}  PROVE FALSE
  OBVIOUS
<1>1. PICK n \in Nat \ S : \A m \in Nat \ S : n <= m
  <2>1. Nat \ S \subseteq Nat
    OBVIOUS
  <2> QED  BY <2>1, LeastNumber
<1>2. n # 0 /\ n - 1 \in Nat /\ n - 1 < n /\ (n - 1) + 1 = n
  BY <1>1
<1> QED  BY <1>1, <1>2

LEMMA ListInduction ==
  ASSUME NEW T, NEW S, <<>> \in S, \A s \in Seq(T) \cap S, x \in T : Append(s, x) \in S
  PROVE  Seq(T) \subseteq S
<1> DEFINE Lengths == {n \in Nat : \A s \in Seq(T) : Len(s) = n => s \in S}
<1>1. 0 \in Lengths
  OBVIOUS
<1>2. ASSUME NEW n \in Nat, n \in Lengths  PROVE n + 1 \in Lengths
  <2>1. ASSUME NEW s \in Seq(T), Len(s) = n + 1  PROVE s \in S
    <3>1. SubSeq(s, 1, n) \in Seq(T) /\ Len(SubSeq(s, 1, n)) = n /\ s[n + 1] \in T
      BY <2>1
    <3>2. s = Append(SubSeq(s, 1, n), s[n + 1])
      BY <2>1
    <3>3. SubSeq(s, 1, n) \in S
      BY <1>2, <3>1
    <3> QED  BY <3>1, <3>2, <3>3
  <2> QED  BY <2>1
<1>3. Nat \subseteq Lengths
  <2> HIDE DEF Lengths
  <2> QED  BY <1>1, <1>2, NumberInduction
<1> QED  BY <1>3

-------------------------------------------------------------------------------
(* The members of a list that are in a set *)

Longer(list, set, n, before) == IF list[n] \in set THEN Append(before, list[n]) ELSE before

\* There is a function that does what the recursion says.
LEMMA ThoseDefined ==
  ASSUME NEW list, NEW set, NEW length \in Nat
  PROVE  \E f : f = [n \in 0 .. length |-> IF n = 0 THEN <<>> ELSE Longer(list, set, n, f[n - 1])]
<1> DEFINE Is(f, m) == f = [n \in 0 .. m |-> IF n = 0 THEN <<>> ELSE Longer(list, set, n, f[n - 1])]
           Ms == {m \in Nat : \E f : Is(f, m)}
<1>1. 0 \in Ms
  <2> DEFINE f == [n \in 0 .. 0 |-> <<>>]
  <2>1. Is(f, 0)
    OBVIOUS
  <2> QED  BY <2>1
<1>2. ASSUME NEW m \in Nat, m \in Ms  PROVE m + 1 \in Ms
  <2>1. PICK f : Is(f, m)
    BY <1>2
  <2> DEFINE g == [n \in 0 .. m + 1 |-> IF n = m + 1 THEN Longer(list, set, n, f[m]) ELSE f[n]]
             h == [n \in 0 .. m + 1 |-> IF n = 0 THEN <<>> ELSE Longer(list, set, n, g[n - 1])]
  <2>2. ASSUME NEW n \in 0 .. m + 1  PROVE g[n] = h[n]
    <3>1. CASE n = 0
      BY <2>1, <3>1
    <3>2. CASE n = m + 1
      <4>1. n # 0 /\ n - 1 = m /\ m \in 0 .. m + 1 /\ m # m + 1
        BY <3>2
      <4>2. g[n - 1] = f[m]
        BY <4>1
      <4> QED  BY <3>2, <4>1, <4>2
    <3>3. CASE n \in 1 .. m
      <4>1. n # 0 /\ n # m + 1 /\ n - 1 # m + 1 /\ n - 1 \in 0 .. m + 1 /\ n \in 0 .. m
        BY <3>3
      <4>2. f[n] = Longer(list, set, n, f[n - 1])
        BY <2>1, <4>1
      <4> QED  BY <4>1, <4>2
    <3> QED  BY <3>1, <3>2, <3>3
  <2>3. g = h
    BY <2>2
  <2> HIDE DEF g
  <2>4. Is(g, m + 1)
    BY <2>3
  <2> QED  BY <2>4
<1>3. Nat \subseteq Ms
  <2> HIDE DEF Ms
  <2> QED  BY <1>1, <1>2, NumberInduction
<1> QED  BY <1>3

\* What the recursion computes, one element after the other.
LEMMA ThoseUpTo ==
  ASSUME NEW T, NEW list \in Seq(T), NEW set
  PROVE  \E f : /\ Those(list, set) = f[Len(list)]
                /\ f[0] = <<>>
                /\ \A n \in 1 .. Len(list) : f[n] = Longer(list, set, n, f[n - 1])
<1> DEFINE Is(f) == f = [n \in 0 .. Len(list) |->
                          IF n = 0 THEN <<>> ELSE Longer(list, set, n, f[n - 1])]
           f == CHOOSE f : Is(f)
<1>1. Len(list) \in Nat
  OBVIOUS
<1>2. \E g : Is(g)
  BY <1>1, ThoseDefined
<1>3. Is(f)
  BY <1>2
<1>4. Those(list, set) = f[Len(list)]
  BY DEF Those, Longer
<1> HIDE DEF f
<1>5. f[0] = <<>>
  BY <1>1, <1>3
<1>6. ASSUME NEW n \in 1 .. Len(list)  PROVE f[n] = Longer(list, set, n, f[n - 1])
  <2>1. n \in 0 .. Len(list) /\ n # 0
    BY <1>1
  <2> QED  BY <1>3, <2>1
<1> QED  BY <1>4, <1>5, <1>6

LEMMA ThoseEmpty ==
  ASSUME NEW set  PROVE Those(<<>>, set) = <<>>
<1>1. <<>> \in Seq({}) /\ Len(<<>>) = 0
  OBVIOUS
<1>2. PICK f : Those(<<>>, set) = f[Len(<<>>)] /\ f[0] = <<>>
  BY <1>1, ThoseUpTo
<1> QED  BY <1>1, <1>2

LEMMA ThoseAppend ==
  ASSUME NEW T, NEW list \in Seq(T), NEW x \in T, NEW set
  PROVE  Those(Append(list, x), set) =
           IF x \in set THEN Append(Those(list, set), x) ELSE Those(list, set)
<1> DEFINE longer == Append(list, x)
<1>1. /\ longer \in Seq(T) /\ Len(longer) = Len(list) + 1 /\ Len(list) \in Nat
      /\ longer[Len(list) + 1] = x /\ \A n \in 1 .. Len(list) : longer[n] = list[n]
  OBVIOUS
<1> HIDE DEF longer
<1>2. PICK f : /\ Those(list, set) = f[Len(list)] /\ f[0] = <<>>
               /\ \A n \in 1 .. Len(list) : f[n] = Longer(list, set, n, f[n - 1])
  BY ThoseUpTo
<1>3. PICK g : /\ Those(longer, set) = g[Len(longer)] /\ g[0] = <<>>
               /\ \A n \in 1 .. Len(longer) : g[n] = Longer(longer, set, n, g[n - 1])
  BY <1>1, ThoseUpTo
<1> DEFINE Same == {n \in Nat : n <= Len(list) => f[n] = g[n]}
<1>4. 0 \in Same
  BY <1>2, <1>3
<1>5. ASSUME NEW n \in Nat, n \in Same  PROVE n + 1 \in Same
  <2>1. SUFFICES ASSUME n + 1 <= Len(list)  PROVE f[n + 1] = g[n + 1]
    OBVIOUS
  <2>2. n + 1 \in 1 .. Len(list) /\ n + 1 \in 1 .. Len(longer) /\ (n + 1) - 1 = n /\ n <= Len(list)
    BY <1>1, <2>1
  <2>3. f[n] = g[n]
    BY <1>5, <2>2
  <2>4. f[n + 1] = Longer(list, set, n + 1, f[n]) /\ g[n + 1] = Longer(longer, set, n + 1, g[n])
    BY <1>2, <1>3, <2>2
  <2> QED  BY <1>1, <2>2, <2>3, <2>4 DEF Longer
<1>6. f[Len(list)] = g[Len(list)]
  <2>1. Nat \subseteq Same
    <3> HIDE DEF Same
    <3> QED  BY <1>4, <1>5, NumberInduction
  <2> QED  BY <1>1, <2>1
<1>7. g[Len(list) + 1] = Longer(longer, set, Len(list) + 1, g[Len(list)])
  <2>1. Len(list) + 1 \in 1 .. Len(longer) /\ (Len(list) + 1) - 1 = Len(list)
    BY <1>1
  <2> QED  BY <1>3, <2>1
<1> QED  BY <1>1, <1>2, <1>3, <1>6, <1>7 DEF Longer, longer

\* What is kept of a list is what it has of the set.
LEMMA ThoseAre ==
  ASSUME NEW T, NEW list \in Seq(T), NEW set
  PROVE  Those(list, set) \in Seq(T) /\ ToSet(Those(list, set)) = ToSet(list) \cap set
<1> DEFINE S == {s \in Seq(T) : /\ Those(s, set) \in Seq(T)
                                /\ ToSet(Those(s, set)) = ToSet(s) \cap set}
<1>0. ASSUME NEW s \in Seq(T), NEW x \in T  PROVE ToSet(Append(s, x)) = ToSet(s) \cup {x}
  <2>1. /\ DOMAIN Append(s, x) = DOMAIN s \cup {Len(s) + 1} /\ Append(s, x)[Len(s) + 1] = x
        /\ \A i \in DOMAIN s : Append(s, x)[i] = s[i]
    OBVIOUS
  <2> QED  BY <2>1 DEF ToSet
<1>1. <<>> \in S
  <2>1. <<>> \in Seq(T) /\ ToSet(<<>>) = {}
    BY DEF ToSet
  <2> QED  BY <2>1, ThoseEmpty
<1>2. ASSUME NEW s \in Seq(T) \cap S, NEW x \in T  PROVE Append(s, x) \in S
  <2>0. Those(s, set) \in Seq(T) /\ ToSet(Those(s, set)) = ToSet(s) \cap set
    OBVIOUS
  <2>1. CASE x \in set
    <3>1. Those(Append(s, x), set) = Append(Those(s, set), x)
      BY <2>1, ThoseAppend
    <3>2. ToSet(Append(s, x)) = ToSet(s) \cup {x}
      BY <1>0
    <3>3. ToSet(Append(Those(s, set), x)) = ToSet(Those(s, set)) \cup {x}
      BY <1>0, <2>0
    <3>4. Append(Those(s, set), x) \in Seq(T) /\ Append(s, x) \in Seq(T)
      BY <2>0
    <3> QED  BY <2>0, <2>1, <3>4, <3>1, <3>2, <3>3
  <2>2. CASE x \notin set
    <3>1. Those(Append(s, x), set) = Those(s, set)
      BY <2>2, ThoseAppend
    <3>2. ToSet(Append(s, x)) = ToSet(s) \cup {x}
      BY <1>0
    <3> QED  BY <2>0, <2>2, <3>1, <3>2
  <2> QED  BY <2>1, <2>2
<1>3. Seq(T) \subseteq S
  <2> HIDE DEF S
  <2> QED  BY <1>1, <1>2, ListInduction
<1> QED  BY <1>3

LEMMA ConcatAppend ==
  ASSUME NEW T, NEW a \in Seq(T), NEW b \in Seq(T), NEW x \in T
  PROVE  a \o Append(b, x) = Append(a \o b, x)
OBVIOUS

\* Two lists are filtered one after the other.
LEMMA ThoseOfBoth ==
  ASSUME NEW T, NEW a \in Seq(T), NEW b \in Seq(T), NEW set
  PROVE  Those(a \o b, set) = Those(a, set) \o Those(b, set)
<1>0. ASSUME NEW s \in Seq(T), NEW x \in T, Those(a \o s, set) = Those(a, set) \o Those(s, set)
      PROVE  Those(a \o Append(s, x), set) = Those(a, set) \o Those(Append(s, x), set)
  <2>0. a \o s \in Seq(T)
    OBVIOUS
  <2>1. PICK both \in Seq(T) : both = a \o s
    BY <2>0
  <2>2. a \o Append(s, x) = Append(both, x)
    BY <2>1, ConcatAppend
  <2>3. PICK of \in Seq(T) : of = Those(a, set)
    BY ThoseAre
  <2>4. PICK more \in Seq(T) : more = Those(s, set)
    BY ThoseAre
  <2>5. Those(both, set) = of \o more
    BY <1>0, <2>1, <2>3, <2>4
  <2>6. CASE x \in set
    <3>1. Those(Append(both, x), set) = Append(Those(both, set), x)
      BY <2>6, ThoseAppend
    <3>2. Those(Append(s, x), set) = Append(more, x)
      <4>1. Those(Append(s, x), set) = Append(Those(s, set), x)
        BY <2>6, ThoseAppend
      <4> QED  BY <2>4, <4>1
    <3>3. of \o Append(more, x) = Append(of \o more, x)
      OBVIOUS
    <3> QED  BY <2>2, <2>3, <2>5, <3>1, <3>2, <3>3
  <2>7. CASE x \notin set
    <3>1. Those(Append(both, x), set) = Those(both, set)
      BY <2>7, ThoseAppend
    <3>2. Those(Append(s, x), set) = Those(s, set)
      BY <2>7, ThoseAppend
    <3> QED  BY <2>2, <2>3, <2>4, <2>5, <3>1, <3>2
  <2> QED  BY <2>6, <2>7
<1> DEFINE S == {s \in Seq(T) : Those(a \o s, set) = Those(a, set) \o Those(s, set)}
<1>1. <<>> \in S
  <2>1. PICK those \in Seq(T) : those = Those(a, set)
    BY ThoseAre
  <2>2. a \o <<>> = a /\ those \o <<>> = those /\ <<>> \in Seq(T)
    OBVIOUS
  <2> QED  BY <2>1, <2>2, ThoseEmpty
<1>2. ASSUME NEW s \in Seq(T) \cap S, NEW x \in T  PROVE Append(s, x) \in S
  <2>1. s \in Seq(T) /\ Those(a \o s, set) = Those(a, set) \o Those(s, set)
    BY <1>2
  <2>2. Those(a \o Append(s, x), set) = Those(a, set) \o Those(Append(s, x), set)
    BY <1>0, <2>1
  <2>3. Append(s, x) \in Seq(T)
    BY <2>1
  <2> QED  BY <2>2, <2>3
<1>3. Seq(T) \subseteq S
  <2> HIDE DEF S
  <2> QED  BY <1>1, <1>2, ListInduction
<1> QED  BY <1>3

\* Filtering twice is filtering once.
LEMMA ThoseTwice ==
  ASSUME NEW T, NEW list \in Seq(T), NEW A, NEW B
  PROVE  Those(Those(list, A), B) = Those(list, A \cap B)
<1> DEFINE S == {s \in Seq(T) : Those(Those(s, A), B) = Those(s, A \cap B)}
<1>1. <<>> \in S
  BY ThoseEmpty
<1>2. ASSUME NEW s \in Seq(T) \cap S, NEW x \in T  PROVE Append(s, x) \in S
  <2>0. s \in Seq(T) /\ Those(Those(s, A), B) = Those(s, A \cap B)
    OBVIOUS
  <2>1. Those(s, A) \in Seq(T) /\ Append(s, x) \in Seq(T)
    BY <2>0, ThoseAre
  <2>2. CASE x \in A
    <3>1. Those(Append(s, x), A) = Append(Those(s, A), x)
      BY <2>2, ThoseAppend
    <3>2. Those(Append(Those(s, A), x), B) =
            IF x \in B THEN Append(Those(Those(s, A), B), x) ELSE Those(Those(s, A), B)
      BY <2>1, ThoseAppend
    <3>3. Those(Append(s, x), A \cap B) =
            IF x \in B THEN Append(Those(s, A \cap B), x) ELSE Those(s, A \cap B)
      <4>1. PICK C : C = A \cap B
        OBVIOUS
      <4>2. x \in C <=> x \in B
        BY <2>2, <4>1
      <4>3. Those(Append(s, x), C) = IF x \in C THEN Append(Those(s, C), x) ELSE Those(s, C)
        BY ThoseAppend
      <4> QED  BY <4>1, <4>2, <4>3
    <3>4. Those(Those(Append(s, x), A), B) = Those(Append(s, x), A \cap B)
      BY <2>0, <3>1, <3>2, <3>3
    <3> QED  BY <2>1, <3>4
  <2>3. CASE x \notin A
    <3>1. Those(Append(s, x), A) = Those(s, A)
      BY <2>3, ThoseAppend
    <3>2. Those(Append(s, x), A \cap B) = Those(s, A \cap B)
      BY <2>3, ThoseAppend
    <3> QED  BY <2>1, <3>1, <3>2
  <2> QED  BY <2>2, <2>3
<1>3. Seq(T) \subseteq S
  <2> HIDE DEF S
  <2> QED  BY <1>1, <1>2, ListInduction
<1> QED  BY <1>3

-------------------------------------------------------------------------------
(* The configuration *)

ConfigFields ==
  {"mode", "host", "proxyHost", "httpPort", "listenPort", "certMode", "enabled", "decoySni", "sni",
   "policy", "resetAt", "credential", "client", "nodes"}

SubscriptionModes == {"direct", "external-proxy", "ip-fallback"}

\* Exactly the protocols that are enabled have a node, each with a secret drawn for itself.
NodesOK(c) ==
  \A p \in Protocols :
    IF p \in Enabled(c)
    THEN \E port \in ProtocolPorts, edit \in 0 .. MaxEdits : c.nodes[p] = Node(port, <<p, edit>>)
    ELSE c.nodes[p] = None

ConfigOK(c) ==
  /\ DOMAIN c = ConfigFields
  /\ c.mode \in SubscriptionModes
  /\ c.enabled \in Seq(Protocols)
  /\ c.client.template \in Templates
  /\ NodesOK(c)
  /\ Valid(c)

DeploymentInv ==
  /\ edits \in 0 .. MaxEdits
  /\ config # None => ConfigOK(config)

LEMMA CurrentPorts ==
  ASSUME NEW c, c # None, ConfigOK(c), NEW p \in Protocols
  PROVE  /\ p \in Enabled(c) => CurrentPort(c, p) # None /\ CurrentPort(c, p) = c.nodes[p].port
         /\ p \notin Enabled(c) => CurrentPort(c, p) = None
<1>1. CASE p \in Enabled(c)
  <2>1. PICK port \in ProtocolPorts, edit \in 0 .. MaxEdits : c.nodes[p] = Node(port, <<p, edit>>)
    BY <1>1 DEF ConfigOK, NodesOK
  <2>2. c.nodes[p] # None /\ port # None
    BY <2>1, DeploymentAssumption
  <2>3. c.nodes[p].port = port
    BY <2>1 DEF Node
  <2> QED  BY <1>1, <2>2, <2>3 DEF CurrentPort
<1>2. CASE p \notin Enabled(c)
  BY <1>2 DEF ConfigOK, NodesOK, CurrentPort
<1> QED  BY <1>1, <1>2

\* What apply_options makes of accepted options.
LEMMA AppliedIs ==
  ASSUME NEW existing, NEW options, NEW edit, NEW new \in Applied(existing, options, edit)
  PROVE  /\ Valid(new)
         /\ \E ports \in [Enabled(options) -> ProtocolPorts] :
              new = ApplyOptions(existing, options, ports, edit)
BY DEF Applied, PortsFor

\* The node of p that has the port, and the secret it has kept or drawn in that edit.
Keeps(node, existing, p, port, edit) ==
  /\ \E drawn \in 0 .. MaxEdits : node = Node(port, <<p, drawn>>)
  /\ existing # None /\ p \in Enabled(existing) => node.secret = existing.nodes[p].secret
  /\ ~ (existing # None /\ p \in Enabled(existing)) => node.secret = <<p, edit>>

\* A protocol that has a node keeps its secret (apply_options).
LEMMA AppliedNodes ==
  ASSUME NEW existing, existing # None => ConfigOK(existing), NEW options, NEW edit \in 0 .. MaxEdits,
         NEW ports, NEW p \in Protocols, p \in Enabled(options)
  PROVE  Keeps(NodesOf(existing, options, ports, edit)[p], existing, p, ports[p], edit)
<1> DEFINE node == NodesOf(existing, options, ports, edit)[p]
<1>1. node = ProtocolCredentials(existing, p, ports[p], edit)
  BY DEF NodesOf
<1>2. CASE existing # None /\ p \in Enabled(existing)
  <2>1. PICK port \in ProtocolPorts, drawn \in 0 .. MaxEdits :
          existing.nodes[p] = Node(port, <<p, drawn>>)
    BY <1>2 DEF ConfigOK, NodesOK
  <2>2. CurrentPort(existing, p) # None
    BY <1>2, CurrentPorts
  <2>3. node = [existing.nodes[p] EXCEPT !.port = ports[p]]
    BY <1>1, <2>2 DEF ProtocolCredentials
  <2>4. node = Node(ports[p], <<p, drawn>>) /\ existing.nodes[p].secret = <<p, drawn>>
    BY <2>1, <2>3 DEF Node
  <2>5. node.secret = <<p, drawn>>
    BY <2>4 DEF Node
  <2> QED  BY <1>2, <2>4, <2>5 DEF Keeps
<1>3. CASE ~ (existing # None /\ p \in Enabled(existing))
  <2>1. CurrentPort(existing, p) = None
    BY <1>3, CurrentPorts DEF CurrentPort
  <2>2. node = Node(ports[p], <<p, edit>>)
    BY <1>1, <2>1 DEF ProtocolCredentials
  <2>3. node.secret = <<p, edit>>
    BY <2>2 DEF Node
  <2> QED  BY <1>3, <2>2, <2>3 DEF Keeps
<1> QED  BY <1>2, <1>3

\* What apply_options makes of accepted options is a configuration again.
LEMMA AppliedOK ==
  ASSUME NEW existing, existing # None => ConfigOK(existing), NEW options,
         options.mode \in SubscriptionModes, options.enabled \in Seq(Protocols), NEW edit \in 0 .. MaxEdits,
         NEW new \in Applied(existing, options, edit)
  PROVE  ConfigOK(new)
<1>1. Valid(new)
  BY AppliedIs
<1>2. PICK ports \in [Enabled(options) -> ProtocolPorts] :
        new = ApplyOptions(existing, options, ports, edit)
  BY AppliedIs
<1>3. /\ DOMAIN new = ConfigFields /\ new.mode = options.mode /\ new.enabled = options.enabled
      /\ new.nodes = NodesOf(existing, options, ports, edit)
      /\ new.client = IF existing = None THEN ClientDefaults ELSE existing.client
  BY <1>2 DEF ApplyOptions, ConfigFields
<1>4. NodesOK(new)
  <2>1. Enabled(new) = Enabled(options)
    BY <1>3 DEF Enabled
  <2>2. ASSUME NEW p \in Protocols, p \notin Enabled(options)  PROVE new.nodes[p] = None
    BY <1>3, <2>2 DEF NodesOf
  <2>3. ASSUME NEW p \in Protocols, p \in Enabled(options)
        PROVE  \E port \in ProtocolPorts, drawn \in 0 .. MaxEdits :
                 new.nodes[p] = Node(port, <<p, drawn>>)
    <3>1. ports[p] \in ProtocolPorts
      BY <2>3
    <3>2. Keeps(NodesOf(existing, options, ports, edit)[p], existing, p, ports[p], edit)
      BY <2>3, AppliedNodes
    <3>3. Keeps(new.nodes[p], existing, p, ports[p], edit)
      BY <1>3, <3>2
    <3> QED  BY <3>1, <3>3 DEF Keeps
  <2> QED  BY <2>1, <2>2, <2>3 DEF NodesOK
<1>5. new.client.template \in Templates
  BY <1>3 DEF ConfigOK, ClientDefaults, Templates
<1> QED  BY <1>1, <1>3, <1>4, <1>5 DEF ConfigOK

-------------------------------------------------------------------------------
(* The options of each dialogue *)

\* merge_protocol_order: what stays enabled keeps its order.
LEMMA OrderIsMerged ==
  ASSUME NEW existing \in Seq(Protocols), NEW selected \in SUBSET Protocols
  PROVE  /\ MergedOrder(existing, selected) \in Seq(Protocols)
         /\ ToSet(MergedOrder(existing, selected)) \subseteq selected
         /\ \A kept \in SUBSET (ToSet(existing) \cap selected) :
              Those(MergedOrder(existing, selected), kept) = Those(existing, kept)
<1> DEFINE staying == Those(existing, selected)
           coming  == Those(CanonicalOrder, selected \ ToSet(staying))
<1>1. MergedOrder(existing, selected) = staying \o coming
  BY DEF MergedOrder
<1>2. CanonicalOrder \in Seq(Protocols)
  BY DEF CanonicalOrder, Protocols
<1>3. staying \in Seq(Protocols) /\ ToSet(staying) = ToSet(existing) \cap selected
  BY ThoseAre
<1>4. /\ coming \in Seq(Protocols)
      /\ ToSet(coming) = ToSet(CanonicalOrder) \cap (selected \ ToSet(staying))
  BY <1>2, ThoseAre
<1>5. ASSUME NEW kept \in SUBSET (ToSet(existing) \cap selected)
      PROVE  Those(staying \o coming, kept) = Those(existing, kept)
  <2>1. Those(staying \o coming, kept) = Those(staying, kept) \o Those(coming, kept)
    <3> HIDE DEF staying, coming
    <3> QED  BY <1>3, <1>4, ThoseOfBoth
  <2>2. Those(staying, kept) = Those(existing, kept)
    <3>1. selected \cap kept = kept
      BY <1>5
    <3>2. Those(staying, kept) = Those(existing, selected \cap kept)
      BY ThoseTwice
    <3> QED  BY <3>1, <3>2
  <2>3. Those(coming, kept) = <<>>
    <3>1. /\ Those(coming, kept) \in Seq(Protocols)
          /\ ToSet(Those(coming, kept)) = ToSet(coming) \cap kept
      <4> HIDE DEF coming
      <4> QED  BY <1>4, ThoseAre
    <3>2. ToSet(Those(coming, kept)) = {}
      <4> HIDE DEF coming, staying
      <4> QED  BY <3>1, <1>3, <1>4
    <3> HIDE DEF coming
    <3> QED  BY <3>1, <3>2 DEF ToSet
  <2>4. PICK old \in Seq(Protocols) : old = Those(existing, kept)
    BY ThoseAre
  <2>5. old \o <<>> = old
    OBVIOUS
  <2> HIDE DEF coming, staying
  <2> QED  BY <2>1, <2>2, <2>3, <2>4, <2>5
<1>6. staying \o coming \in Seq(Protocols) /\ ToSet(staying \o coming) \subseteq selected
  <2> HIDE DEF coming, staying
  <2>1. staying \o coming \in Seq(Protocols)
    BY <1>3, <1>4
  <2>2. ASSUME NEW i \in DOMAIN (staying \o coming)  PROVE (staying \o coming)[i] \in selected
    <3>1. CASE i <= Len(staying)
      <4>1. i \in DOMAIN staying /\ (staying \o coming)[i] = staying[i]
        BY <1>3, <1>4, <3>1
      <4> QED  BY <1>3, <4>1 DEF ToSet
    <3>2. CASE i > Len(staying)
      <4>1. /\ i - Len(staying) \in DOMAIN coming
            /\ (staying \o coming)[i] = coming[i - Len(staying)]
        BY <1>3, <1>4, <3>2
      <4> QED  BY <1>4, <4>1 DEF ToSet
    <3> QED  BY <1>3, <1>4, <3>1, <3>2
  <2> QED  BY <2>1, <2>2 DEF ToSet
<1> HIDE DEF coming, staying
<1> QED  BY <1>1, <1>5, <1>6

OrderKept(existing, enabled) ==
  \A kept \in SUBSET (ToSet(existing) \cap ToSet(enabled)) :
    Those(enabled, kept) = Those(existing, kept)

\* What every dialogue asks for.
OptionsOK(options) ==
  /\ options.mode \in SubscriptionModes
  /\ options.enabled \in Seq(Protocols)
  /\ config # None => OrderKept(config.enabled, options.enabled)

LEMMA SameOrder ==
  ASSUME NEW enabled
  PROVE  OrderKept(enabled, enabled)
BY DEF OrderKept

LEMMA MergedOrderKept ==
  ASSUME NEW existing \in Seq(Protocols), NEW selected \in SUBSET Protocols
  PROVE  /\ MergedOrder(existing, selected) \in Seq(Protocols)
         /\ OrderKept(existing, MergedOrder(existing, selected))
<1>1. /\ MergedOrder(existing, selected) \in Seq(Protocols)
      /\ ToSet(MergedOrder(existing, selected)) \subseteq selected
      /\ \A kept \in SUBSET (ToSet(existing) \cap selected) :
           Those(MergedOrder(existing, selected), kept) = Those(existing, kept)
  BY OrderIsMerged
<1> QED  BY <1>1 DEF OrderKept

LEMMA ProtocolAnswersOK ==
  ASSUME DeploymentInv, NEW b \in ProtocolAnswers
  PROVE  b.enabled \in Seq(Protocols) /\ (config # None => OrderKept(config.enabled, b.enabled))
<1>1. PICK selected \in SUBSET Offered : b.enabled = MergedOrder(Current("enabled", <<>>), selected)
  BY DEF ProtocolAnswers
<1>2. selected \in SUBSET Protocols
  BY DeploymentAssumption
<1>3. CASE config = None
  <2>1. Current("enabled", <<>>) = <<>> /\ <<>> \in Seq(Protocols)
    BY <1>3 DEF Current
  <2> QED  BY <1>1, <1>2, <1>3, <2>1, MergedOrderKept
<1>4. CASE config # None
  <2>1. Current("enabled", <<>>) = config.enabled /\ config.enabled \in Seq(Protocols)
    BY <1>4 DEF Current, DeploymentInv, ConfigOK
  <2> QED  BY <1>1, <1>2, <2>1, MergedOrderKept
<1> QED  BY <1>3, <1>4

LEMMA ProtocolsFinite == IsFiniteSet(Protocols)
<1>1. IsFiniteSet({"vless-reality"} \cup {"anytls"} \cup {"hysteria2"} \cup {"tuic"} \cup {"vmess-ws"})
  <2>1. IsFiniteSet({"vless-reality"})
    BY FS_Singleton
  <2>2. IsFiniteSet({"vless-reality"} \cup {"anytls"})
    BY <2>1, FS_AddElement
  <2>3. IsFiniteSet({"vless-reality"} \cup {"anytls"} \cup {"hysteria2"})
    BY <2>2, FS_AddElement
  <2>4. IsFiniteSet({"vless-reality"} \cup {"anytls"} \cup {"hysteria2"} \cup {"tuic"})
    BY <2>3, FS_AddElement
  <2> QED  BY <2>4, FS_AddElement
<1>2. Protocols = {"vless-reality"} \cup {"anytls"} \cup {"hysteria2"} \cup {"tuic"} \cup {"vmess-ws"}
  BY DEF Protocols
<1> QED  BY <1>1, <1>2, Zenon

\* A first configuration asks for each protocol once.
LEMMA InitOptions ==
  ASSUME ConfigInit
  PROVE  \E options : OptionsOK(options) /\ CommitOptions(options)
<1>1. PICK a \in SubscriptionAnswers, selected \in SUBSET Offered \ {{}}, sni \in {None} \cup Snis,
           accounting \in AccountingAnswers :
        \E enabled \in SetToSeqs(selected), ports \in PortAnswers(selected) :
          CommitOptions(
            [NewOptions(a.mode, a.host, a.httpPort, enabled, ports) EXCEPT
               !.proxyHost = a.proxyHost, !.sni = sni,
               !.listenPort = IF a.listenPort = None THEN @ ELSE a.listenPort,
               !.policy = accounting.policy, !.resetAt = accounting.resetAt])
  BY DEF ConfigInit
<1>0. PICK enabled \in SetToSeqs(selected), ports \in PortAnswers(selected) :
        CommitOptions(
          [NewOptions(a.mode, a.host, a.httpPort, enabled, ports) EXCEPT
             !.proxyHost = a.proxyHost, !.sni = sni,
             !.listenPort = IF a.listenPort = None THEN @ ELSE a.listenPort,
             !.policy = accounting.policy, !.resetAt = accounting.resetAt])
  BY <1>1
<1> DEFINE options ==
      [NewOptions(a.mode, a.host, a.httpPort, enabled, ports) EXCEPT
         !.proxyHost = a.proxyHost, !.sni = sni,
         !.listenPort = IF a.listenPort = None THEN @ ELSE a.listenPort,
         !.policy = accounting.policy, !.resetAt = accounting.resetAt]
<1>2. options.mode = a.mode /\ options.enabled = enabled
  BY DEF NewOptions
<1>3. a.mode \in SubscriptionModes
  BY DEF SubscriptionAnswers, SubscriptionModes
<1>4. enabled \in Seq(Protocols)
  <2>1. selected \subseteq Protocols
    BY DeploymentAssumption
  <2>2. IsFiniteSet(selected)
    BY <2>1, ProtocolsFinite, FS_Subset
  <2>3. PICK n \in Nat : enabled \in [1 .. n -> selected]
    BY <2>2, FS_CardinalityType DEF SetToSeqs
  <2> QED  BY <2>1, <2>3
<1>5. config = None
  BY DEF ConfigInit
<1>6. CommitOptions(options)
  BY <1>0
<1>7. OptionsOK(options)
  BY <1>2, <1>3, <1>4, <1>5 DEF OptionsOK
<1> HIDE DEF options
<1> QED  BY <1>6, <1>7

\* Every dialogue but the one about the client asks for options.
LEMMA DialogueOptions ==
  ASSUME DeploymentInv, DeploymentNext
  PROVE  ClientTemplateTopic \/ \E options : OptionsOK(options) /\ CommitOptions(options)
<1>1. CASE ConfigInit
  BY <1>1, InitOptions
<1>2. CASE Wizard
  <2>1. PICK a \in SubscriptionAnswers, b \in ProtocolAnswers, c \in AccountingAnswers :
          CommitOptions(Options(a, b, b.ports, c))
    BY <1>2 DEF Wizard
  <2>2. a.mode \in SubscriptionModes
    BY DEF SubscriptionAnswers, SubscriptionModes
  <2>3. OptionsOK(Options(a, b, b.ports, c))
    BY <2>2, ProtocolAnswersOK DEF OptionsOK, Options
  <2> QED  BY <2>1, <2>3
<1>3. CASE SubscriptionTopic
  <2>1. PICK a \in SubscriptionAnswers : CommitOptions(Options(a, config, KeptPorts, config))
    BY <1>3 DEF SubscriptionTopic
  <2>2. a.mode \in SubscriptionModes
    BY DEF SubscriptionAnswers, SubscriptionModes
  <2>3. OptionsOK(Options(a, config, KeptPorts, config))
    BY <1>3, <2>2, SameOrder DEF OptionsOK, Options, SubscriptionTopic, DeploymentInv, ConfigOK
  <2> QED  BY <2>1, <2>3
<1>4. CASE ProtocolsTopic
  <2>1. PICK b \in ProtocolAnswers : CommitOptions(Options(config, b, b.ports, config))
    BY <1>4 DEF ProtocolsTopic
  <2>2. OptionsOK(Options(config, b, b.ports, config))
    BY <1>4, ProtocolAnswersOK DEF OptionsOK, Options, ProtocolsTopic, DeploymentInv, ConfigOK
  <2> QED  BY <2>1, <2>2
<1>5. CASE TrafficTopic
  <2>1. PICK c \in AccountingAnswers : CommitOptions(Options(config, config, KeptPorts, c))
    BY <1>5 DEF TrafficTopic
  <2>2. OptionsOK(Options(config, config, KeptPorts, c))
    BY <1>5, SameOrder DEF OptionsOK, Options, TrafficTopic, DeploymentInv, ConfigOK
  <2> QED  BY <2>1, <2>2
<1> QED  BY <1>1, <1>2, <1>3, <1>4, <1>5 DEF DeploymentNext

-------------------------------------------------------------------------------
(* What an edit does *)

\* The dialogues that ask for options.
LEMMA OptionsStep ==
  ASSUME DeploymentInv, NEW options, OptionsOK(options), CommitOptions(options)
  PROVE  DeploymentInv' /\ EditKept
<1>1. PICK new \in Applied(config, options, edits + 1) : Commit(new)
  BY DEF CommitOptions
<1>2. config' = new /\ edits' = edits + 1 /\ edits + 1 \in 0 .. MaxEdits
  BY <1>1, DeploymentAssumption DEF Commit, DeploymentInv
<1>3. ConfigOK(new)
  BY <1>2, AppliedOK DEF DeploymentInv, OptionsOK
<1>4. DeploymentInv'
  BY <1>2, <1>3 DEF DeploymentInv
<1>5. ASSUME config # None  PROVE EditKept
  <2>1. PICK ports \in [Enabled(options) -> ProtocolPorts] :
          new = ApplyOptions(config, options, ports, edits + 1)
    BY AppliedIs
  <2>2. /\ new.credential = config.credential /\ new.client = config.client
        /\ new.enabled = options.enabled
        /\ new.nodes = NodesOf(config, options, ports, edits + 1)
    BY <1>5, <2>1 DEF ApplyOptions
  <2>3. Enabled(new) = Enabled(options) /\ Enabled(options) \subseteq Protocols
    BY <2>2 DEF Enabled, OptionsOK, ToSet
  <2>4. ASSUME NEW p \in Enabled(options)
        PROVE  Keeps(new.nodes[p], config, p, ports[p], edits + 1)
    <3>1. Keeps(NodesOf(config, options, ports, edits + 1)[p], config, p, ports[p], edits + 1)
      BY <1>2, <2>3, AppliedNodes DEF DeploymentInv
    <3> QED  BY <2>2, <3>1
  <2>5. \A p \in Enabled(config) \cap Enabled(new) : new.nodes[p].secret = config.nodes[p].secret
    BY <1>5, <2>3, <2>4 DEF Keeps
  <2>6. \A p \in Enabled(new) \ (Enabled(config) \cap Enabled(new)) :
          new.nodes[p].secret = <<p, edits + 1>>
    BY <1>5, <2>3, <2>4 DEF Keeps
  <2>7. Those(new.enabled, Enabled(config) \cap Enabled(new))
          = Those(config.enabled, Enabled(config) \cap Enabled(new))
    BY <1>5, <2>2 DEF OptionsOK, OrderKept, Enabled
  <2> QED  BY <1>2, <2>2, <2>5, <2>6, <2>7 DEF EditKept
<1> QED  BY <1>4, <1>5 DEF EditKept

\* The dialogue about the client preferences, which rebuilds nothing.
LEMMA ClientStep ==
  ASSUME DeploymentInv, ClientTemplateTopic
  PROVE  DeploymentInv' /\ EditKept
<1>1. PICK template \in Templates, dns \in {"fake-ip", "redir-host"}, profile \in {"standard", "minimal"} :
        LET new == [config EXCEPT !.client = [template |-> template, dns |-> dns, profile |-> profile]]
        IN  Valid(new) /\ Commit(new)
  BY DEF ClientTemplateTopic
<1> DEFINE client == [template |-> template, dns |-> dns, profile |-> profile]
           new    == [config EXCEPT !.client = client]
<1>2. config' = new /\ edits' = edits + 1 /\ edits + 1 \in 0 .. MaxEdits /\ Valid(new)
  BY <1>1, DeploymentAssumption DEF Commit, DeploymentInv
<1>3. config # None /\ ConfigOK(config)
  BY DEF ClientTemplateTopic, DeploymentInv
<1>4. client.template \in Templates
  OBVIOUS
<1>5. DOMAIN config = ConfigFields
  BY <1>3 DEF ConfigOK
<1> HIDE DEF client
<1>6. /\ DOMAIN new = ConfigFields /\ new.client = client
      /\ new.mode = config.mode /\ new.enabled = config.enabled /\ new.nodes = config.nodes
      /\ new.credential = config.credential
  BY <1>5 DEF ConfigFields
<1> HIDE DEF new
<1>7. ConfigOK(new)
  BY <1>2, <1>3, <1>4, <1>6 DEF ConfigOK, NodesOK, Enabled
<1>8. new = [config EXCEPT !.client = new.client]
  BY <1>6 DEF new
<1>9. Enabled(new) = Enabled(config)
  BY <1>6 DEF Enabled
<1> QED  BY <1>2, <1>6, <1>7, <1>8, <1>9 DEF DeploymentInv, EditKept

LEMMA DeploymentStep ==
  ASSUME DeploymentInv, DeploymentNext
  PROVE  DeploymentInv' /\ EditKept
<1>1. CASE ClientTemplateTopic
  BY <1>1, ClientStep
<1>2. CASE \E options : OptionsOK(options) /\ CommitOptions(options)
  BY <1>2, OptionsStep
<1> QED  BY <1>1, <1>2, DialogueOptions

\* Whatever dialogues are committed, the configuration is one validate accepts, and
\* exactly the enabled protocols have a node, with a secret drawn for that protocol.
THEOREM DeploymentInvariant == DeploymentSpec => []DeploymentInv
<1>1. DeploymentInit => DeploymentInv
  BY DeploymentAssumption DEF DeploymentInit, DeploymentInv
<1>2. ASSUME DeploymentInv, [DeploymentNext]_deploymentVars  PROVE DeploymentInv'
  <2>1. CASE DeploymentNext
    BY <1>2, <2>1, DeploymentStep
  <2>2. CASE UNCHANGED deploymentVars
    BY <1>2, <2>2 DEF deploymentVars, DeploymentInv
  <2> QED  BY <1>2, <2>1, <2>2
<1> QED  BY <1>1, <1>2, PTL DEF DeploymentSpec

\* An edit touches what was asked about: the credential, the secrets of the protocols
\* that stay, their order and the client preferences survive (apply_options).
THEOREM EditsAreKept == DeploymentSpec => EditsKeep
<1>1. ASSUME DeploymentInv, [DeploymentNext]_deploymentVars  PROVE [EditKept]_deploymentVars
  BY <1>1, DeploymentStep
<1> QED  BY <1>1, DeploymentInvariant, PTL DEF DeploymentSpec, EditsKeep

-------------------------------------------------------------------------------
(* Every node that is handed out is reachable *)

LEMMA InboundOf ==
  ASSUME config # None, ConfigOK(config), NEW p \in Enabled(config)
  PROVE  Inbound(config, CanonicalNode(config, p)) \in ToSet(SingBoxServer(config))
<1>1. PICK k \in DOMAIN config.enabled : p = config.enabled[k]
  BY DEF Enabled, ToSet
<1>2. SingBoxServer(config)[k] = Inbound(config, CanonicalNode(config, p))
  BY <1>1 DEF SingBoxServer, Nodes
<1>3. k \in DOMAIN SingBoxServer(config)
  BY <1>1 DEF SingBoxServer
<1> QED  BY <1>2, <1>3 DEF ToSet

LEMMA InboundsAre ==
  ASSUME config # None, ConfigOK(config), NEW i \in ToSet(SingBoxServer(config))
  PROVE  \E p \in Enabled(config) : i = Inbound(config, CanonicalNode(config, p))
BY DEF SingBoxServer, Nodes, ToSet, Enabled

\* validate is what makes a node reachable: ports differ, the modes keep their own off
\* them, and without a certificate of its own only a name is verified.
LEMMA NodeReached ==
  ASSUME config # None, ConfigOK(config), NEW p \in Enabled(config)
  PROVE  Reached(ClientNode(config, CanonicalNode(config, p)))
<1> DEFINE node == ClientNode(config, CanonicalNode(config, p))
           i    == Inbound(config, CanonicalNode(config, p))
<1>1. i \in ToSet(SingBoxServer(config))
  BY InboundOf
<1>2. /\ node.tag = p /\ node.port = config.nodes[p].port /\ node.secret = config.nodes[p].secret
      /\ node.serverName = IF p = "vless-reality" THEN config.decoySni ELSE ServerName(config)
      /\ node.verifies => p # "vless-reality" /\ config.certMode # "self-signed"
  BY DEF ClientNode, CanonicalNode, SkipVerify
<1>3. /\ i.tag = p /\ i.port = config.nodes[p].port /\ i.secret = config.nodes[p].secret
      /\ i.names = IF p = "vless-reality" THEN {config.decoySni} ELSE CertificateNames(config)
  BY DEF Inbound, CanonicalNode
<1>4. /\ Enabled(config) \subseteq Configured(config)
      /\ ListenerPorts(config) \subseteq ProtocolPorts
      /\ \A q, r \in Configured(config) : q # r => config.nodes[q].port # config.nodes[r].port
      /\ ValidMode(config)
  BY DEF ConfigOK, Valid, ValidProtocols
<1>5. ASSUME NEW j \in ToSet(SingBoxServer(config)) \ {i}  PROVE j.port # i.port
  <2>1. PICK q \in Enabled(config) : j = Inbound(config, CanonicalNode(config, q))
    BY InboundsAre
  <2>2. q # p /\ j.port = config.nodes[q].port
    BY <2>1 DEF Inbound, CanonicalNode
  <2> QED  BY <1>3, <1>4, <2>2
<1>6. i.port \notin {config.httpPort, config.listenPort}
  <2>1. i.port \in ListenerPorts(config) /\ i.port # None
    BY <1>3, <1>4, DeploymentAssumption DEF ListenerPorts
  <2>2. config.mode \in {"direct", "external-proxy", "ip-fallback"}
    BY DEF ConfigOK, SubscriptionModes
  <2> HIDE DEF i
  <2> QED  BY <1>4, <2>1, <2>2 DEF ValidMode
<1>7. node.verifies /\ config.sni = None => node.serverName \in i.names
  <2>1. SUFFICES ASSUME node.verifies, config.sni = None  PROVE node.serverName \in i.names
    OBVIOUS
  <2>2. p # "vless-reality" /\ config.certMode # "self-signed"
    BY <1>2, <2>1
  <2>3. p \in CertificateProtocols
    BY <2>2 DEF CertificateProtocols, ConfigOK, Enabled, ToSet
  <2>4. ~ IsAddress(config.host)
    BY <1>4, <2>2, <2>3 DEF ValidMode, ConfigOK, SubscriptionModes
  <2>5. ServerName(config) = config.host
    BY <2>1, <2>4 DEF ServerName
  <2>6. CertificateNames(config) = {config.host}
    BY <2>2 DEF CertificateNames
  <2> HIDE DEF node, i
  <2> QED  BY <1>2, <1>3, <2>2, <2>5, <2>6
<1> HIDE DEF node, i
<1>8. i.tag = node.tag /\ i.port = node.port /\ i.secret = node.secret
  BY <1>2, <1>3
<1>9. Reached(node)
  BY <1>1, <1>5, <1>6, <1>7, <1>8 DEF Reached
<1> QED  BY <1>9 DEF node

\* The nodes a document is made of, and what becomes of one.
LEMMA NodesAre ==
  ASSUME config # None, ConfigOK(config), NEW node \in ToSet(Nodes(config))
  PROVE  Reached(ClientNode(config, node))
<1>1. PICK p \in Enabled(config) : node = CanonicalNode(config, p)
  BY DEF Nodes, ToSet, Enabled
<1> QED  BY <1>1, NodeReached

ContentGroups == {Group(tag, role, formats, members) :
             tag \in {"selector", "auto", "direct", "fallback", "proxy", "ai", "stream", "telegram"},
             role \in {"selector", "urltest", "direct", "fallback"},
             formats \in {Both, {"clash"}},
             members \in {ManualMembers, PinnableMembers, <<AllNodes>>, <<>>}}

\* No group of a content template is rendered as a node.
LEMMA GroupsAre ==
  ASSUME NEW template \in Templates
  PROVE  ForTemplate(template).groups \in Seq(ContentGroups)
<1>1. BaseGroups \in Seq(ContentGroups)
  <2>1. /\ Group("selector", "selector", Both, ManualMembers) \in ContentGroups
        /\ Group("auto", "urltest", Both, <<AllNodes>>) \in ContentGroups
        /\ Group("direct", "direct", Both, <<>>) \in ContentGroups
    BY DEF ContentGroups
  <2> QED  BY <2>1 DEF BaseGroups
<1>2. PurposeGroups \in Seq(ContentGroups)
  <2>1. /\ Group("fallback", "fallback", {"clash"}, <<AllNodes>>) \in ContentGroups
        /\ Group("proxy", "selector", Both, ManualMembers) \in ContentGroups
    BY DEF ContentGroups
  <2>2. <<Group("fallback", "fallback", {"clash"}, <<AllNodes>>),
          Group("proxy", "selector", Both, ManualMembers)>> \in Seq(ContentGroups)
    BY <2>1
  <2>3. ASSUME NEW k \in 1 .. 3
        PROVE  Group(<<"ai", "stream", "telegram">>[k], "selector", Both, PinnableMembers) \in ContentGroups
    <3>1. <<"ai", "stream", "telegram">>[k] \in {"ai", "stream", "telegram"}
      OBVIOUS
    <3> QED  BY <3>1 DEF ContentGroups
  <2>4. [k \in 1 .. 3 |-> Group(<<"ai", "stream", "telegram">>[k], "selector", Both, PinnableMembers)]
          \in Seq(ContentGroups)
    BY <2>3
  <2> QED  BY <1>1, <2>2, <2>4 DEF PurposeGroups
<1> QED  BY <1>1, <1>2 DEF ForTemplate, Templates, Standard, Global, Split, TemplateSpec

\* What may stand among the outbounds.
Harmless(outbound) == outbound.kind = "node" => Reached(outbound.node)

LEMMA NodeOutbounds ==
  ASSUME config # None, ConfigOK(config), NEW nodes \in Seq(ToSet(Nodes(config)))
  PROVE  LET client == ClientOutbounds(config, nodes)
         IN  \A i \in DOMAIN client :
               Harmless(Outbound(client[i].tag, "node", <<>>, client[i]))
<1>1. ASSUME NEW i \in DOMAIN nodes  PROVE Reached(ClientNode(config, nodes[i]))
  <2>1. nodes[i] \in ToSet(Nodes(config))
    OBVIOUS
  <2> QED  BY <2>1, NodesAre
<1> QED  BY <1>1 DEF ClientOutbounds, Harmless, Outbound

LEMMA RenderedRoles ==
  ASSUME NEW template \in Templates, NEW format
  PROVE  /\ RenderedGroups(ForTemplate(template), format) \in Seq(ContentGroups)
         /\ \A g \in ContentGroups : g.role # "node"
<1>1. ForTemplate(template).groups \in Seq(ContentGroups)
  BY GroupsAre
<1>2. RenderedGroups(ForTemplate(template), format) \in Seq(ContentGroups)
  BY <1>1, ThoseAre DEF RenderedGroups
<1>3. \A g \in ContentGroups : g.role # "node"
  BY DEF ContentGroups, Group
<1> QED  BY <1>2, <1>3

LEMMA SingBoxGroupsHarmless ==
  ASSUME NEW template \in Templates, NEW tags
  PROVE  \A i \in DOMAIN SingBoxGroups(ForTemplate(template), tags) :
           Harmless(SingBoxGroups(ForTemplate(template), tags)[i])
<1> DEFINE groups == RenderedGroups(ForTemplate(template), "sing-box")
<1>1. groups \in Seq(ContentGroups) /\ \A g \in ContentGroups : g.role # "node"
  BY RenderedRoles
<1>2. ASSUME NEW i \in DOMAIN groups  PROVE groups[i].role # "node"
  <2> HIDE DEF groups
  <2> QED  BY <1>1
<1> QED  BY <1>2 DEF SingBoxGroups, Harmless, Outbound

LEMMA ClashGroupsHarmless ==
  ASSUME NEW template \in Templates, NEW tags
  PROVE  \A i \in DOMAIN ClashGroups(ForTemplate(template), tags) :
           Harmless(ClashGroups(ForTemplate(template), tags)[i])
<1> DEFINE groups == RenderedGroups(ForTemplate(template), "clash")
<1>1. groups \in Seq(ContentGroups) /\ \A g \in ContentGroups : g.role # "node"
  BY RenderedRoles
<1>2. ASSUME NEW i \in DOMAIN groups  PROVE groups[i].role # "node"
  <2> HIDE DEF groups
  <2> QED  BY <1>1
<1> QED  BY <1>2 DEF ClashGroups, Harmless, Outbound

LEMMA LegacyHarmless ==
  ASSUME NEW spec
  PROVE  /\ \E U : LegacyOutbounds(spec) \in Seq(U)
         /\ \A i \in DOMAIN LegacyOutbounds(spec) : Harmless(LegacyOutbounds(spec)[i])
<1> DEFINE both == {Outbound(DnsOut, "dns", <<>>, None), Outbound(BlockOut, "block", <<>>, None)}
<1>1. \A o \in both : Harmless(o)
  BY DEF Harmless, Outbound
<1>2. LegacyOutbounds(spec) \in Seq(both)
  <2>1. <<Outbound(DnsOut, "dns", <<>>, None)>> \in Seq(both)
        /\ <<Outbound(BlockOut, "block", <<>>, None)>> \in Seq(both) /\ <<>> \in Seq(both)
    OBVIOUS
  <2> DEFINE dns   == <<Outbound(DnsOut, "dns", <<>>, None)>>
             block == IF \E i \in DOMAIN spec.rules : /\ "sing-box" \in spec.rules[i].formats
                                                      /\ spec.rules[i].target = "reject"
                      THEN <<Outbound(BlockOut, "block", <<>>, None)>> ELSE <<>>
  <2>2. LegacyOutbounds(spec) = dns \o block
    BY DEF LegacyOutbounds
  <2>3. dns \in Seq(both) /\ block \in Seq(both)
    BY <2>1
  <2>4. dns \o block \in Seq(both)
    <3> HIDE DEF dns, block, both
    <3> QED  BY <2>3
  <2> QED  BY <2>2, <2>4
<1> HIDE DEF both
<1> QED  BY <1>1, <1>2

\* Two lists with their items in order, one behind the other.
LEMMA HarmlessConcat ==
  ASSUME NEW T, NEW a \in Seq(T), NEW b \in Seq(T),
         \A i \in DOMAIN a : Harmless(a[i]), \A i \in DOMAIN b : Harmless(b[i])
  PROVE  a \o b \in Seq(T) /\ \A i \in DOMAIN (a \o b) : Harmless((a \o b)[i])
<1>1. a \o b \in Seq(T)
  OBVIOUS
<1>2. ASSUME NEW i \in DOMAIN (a \o b)  PROVE Harmless((a \o b)[i])
  <2>1. CASE i <= Len(a)
    <3>1. i \in DOMAIN a /\ (a \o b)[i] = a[i]
      BY <2>1
    <3> QED  BY <3>1
  <2>2. CASE i > Len(a)
    <3>1. i - Len(a) \in DOMAIN b /\ (a \o b)[i] = b[i - Len(a)]
      BY <2>2
    <3> QED  BY <3>1
  <2> QED  BY <2>1, <2>2
<1> QED  BY <1>1, <1>2

\* The items of a list that has as many as n.
LEMMA ListOfItems ==
  ASSUME NEW n \in Nat, NEW f, f = [i \in 1 .. n |-> f[i]], NEW U, ToSet(f) \subseteq U
  PROVE  f \in Seq(U)
<1>1. \A i \in 1 .. n : f[i] \in U
  BY DEF ToSet
<1>2. f \in [1 .. n -> U]
  BY <1>1
<1> QED  BY <1>2

LEMMA NodesList ==
  ASSUME config # None, ConfigOK(config)
  PROVE  Nodes(config) \in Seq(ToSet(Nodes(config)))
<1> DEFINE n == Len(config.enabled)
<1>1. n \in Nat /\ DOMAIN config.enabled = 1 .. n
  BY DEF ConfigOK
<1>2. Nodes(config) = [i \in 1 .. n |-> Nodes(config)[i]]
  BY <1>1 DEF Nodes
<1> HIDE DEF n
<1> QED  BY <1>1, <1>2, ListOfItems

\* The nodes, then groups, then whatever else is harmless.
LEMMA OutboundsHarmless ==
  ASSUME NEW client, NEW groups, NEW others, NEW n \in Nat, NEW m \in Nat, NEW k \in Nat,
         client = [i \in 1 .. n |-> client[i]], groups = [i \in 1 .. m |-> groups[i]],
         others = [i \in 1 .. k |-> others[i]],
         \A i \in DOMAIN client : Harmless(client[i]),
         \A i \in DOMAIN groups : Harmless(groups[i]),
         \A i \in DOMAIN others : Harmless(others[i])
  PROVE  /\ \A i \in DOMAIN (client \o groups) : Harmless((client \o groups)[i])
         /\ \A i \in DOMAIN (client \o groups \o others) :
              Harmless((client \o groups \o others)[i])
<1> DEFINE U == ToSet(client) \cup ToSet(groups) \cup ToSet(others)
<1>1. ToSet(client) \subseteq U /\ ToSet(groups) \subseteq U /\ ToSet(others) \subseteq U
  OBVIOUS
<1> HIDE DEF U
<1>2. client \in Seq(U) /\ groups \in Seq(U) /\ others \in Seq(U)
  BY <1>1, ListOfItems
<1>3. PICK both \in Seq(U) : both = client \o groups
  <2>1. client \o groups \in Seq(U)
    BY <1>2
  <2> QED  BY <2>1
<1>4. \A i \in DOMAIN both : Harmless(both[i])
  BY <1>2, <1>3, HarmlessConcat
<1>5. \A i \in DOMAIN (both \o others) : Harmless((both \o others)[i])
  BY <1>2, <1>4, HarmlessConcat
<1> QED  BY <1>3, <1>4, <1>5

\* The nodes of a document as its outbounds.
NodesOut(nodes) ==
  [i \in DOMAIN ClientOutbounds(config, nodes) |->
     Outbound(ClientOutbounds(config, nodes)[i].tag, "node", <<>>, ClientOutbounds(config, nodes)[i])]

LEMMA NodesOutAre ==
  ASSUME config # None, ConfigOK(config), NEW nodes \in Seq(ToSet(Nodes(config)))
  PROVE  /\ NodesOut(nodes) = [i \in 1 .. Len(nodes) |-> NodesOut(nodes)[i]]
         /\ \A i \in DOMAIN NodesOut(nodes) : Harmless(NodesOut(nodes)[i])
<1>1. DOMAIN NodesOut(nodes) = 1 .. Len(nodes)
  BY DEF NodesOut, ClientOutbounds
<1>2. NodesOut(nodes) = [i \in 1 .. Len(nodes) |-> NodesOut(nodes)[i]]
  BY <1>1 DEF NodesOut
<1>3. \A i \in DOMAIN ClientOutbounds(config, nodes) :
        Harmless(Outbound(ClientOutbounds(config, nodes)[i].tag, "node", <<>>,
                          ClientOutbounds(config, nodes)[i]))
  BY NodeOutbounds
<1>4. \A i \in DOMAIN NodesOut(nodes) : Harmless(NodesOut(nodes)[i])
  BY <1>3 DEF NodesOut
<1> QED  BY <1>2, <1>4

LEMMA LegacyLists ==
  ASSUME NEW spec
  PROVE  \E k \in Nat : LegacyOutbounds(spec) = [i \in 1 .. k |-> LegacyOutbounds(spec)[i]]
<1>1. \E U : LegacyOutbounds(spec) \in Seq(U)
  BY LegacyHarmless
<1> QED  BY <1>1

LEMMA GroupLists ==
  ASSUME NEW template \in Templates, NEW tags
  PROVE  /\ \E m \in Nat : SingBoxGroups(ForTemplate(template), tags)
                             = [i \in 1 .. m |-> SingBoxGroups(ForTemplate(template), tags)[i]]
         /\ \E m \in Nat : ClashGroups(ForTemplate(template), tags)
                             = [i \in 1 .. m |-> ClashGroups(ForTemplate(template), tags)[i]]
<1>1. PICK m \in Nat : DOMAIN RenderedGroups(ForTemplate(template), "sing-box") = 1 .. m
  BY RenderedRoles
<1>2. PICK k \in Nat : DOMAIN RenderedGroups(ForTemplate(template), "clash") = 1 .. k
  BY RenderedRoles
<1>3. SingBoxGroups(ForTemplate(template), tags)
        = [i \in 1 .. m |-> SingBoxGroups(ForTemplate(template), tags)[i]]
  BY <1>1 DEF SingBoxGroups
<1>4. ClashGroups(ForTemplate(template), tags)
        = [i \in 1 .. k |-> ClashGroups(ForTemplate(template), tags)[i]]
  BY <1>2 DEF ClashGroups
<1> QED  BY <1>3, <1>4

LEMMA SingBoxHarmless ==
  ASSUME config # None, ConfigOK(config), NEW profile
  PROVE  \A i \in DOMAIN SingBoxDocument(config, profile).outbounds :
           Harmless(SingBoxDocument(config, profile).outbounds[i])
<1> DEFINE nodes  == CompatibleNodes(config, profile)
           tags   == [i \in DOMAIN nodes |-> nodes[i].tag]
           spec   == ForTemplate(config.client.template)
           groups == SingBoxGroups(spec, tags)
           others == IF profile.ruleActions THEN <<>> ELSE LegacyOutbounds(spec)
<1>1. SingBoxDocument(config, profile).outbounds = NodesOut(nodes) \o groups \o others
  BY DEF SingBoxDocument, NodesOut
<1>2. nodes \in Seq(ToSet(Nodes(config)))
  BY NodesList, ThoseAre DEF CompatibleNodes
<1>3. config.client.template \in Templates
  BY DEF ConfigOK
<1> HIDE DEF nodes
<1>4. /\ Len(nodes) \in Nat /\ NodesOut(nodes) = [i \in 1 .. Len(nodes) |-> NodesOut(nodes)[i]]
      /\ \A i \in DOMAIN NodesOut(nodes) : Harmless(NodesOut(nodes)[i])
  BY <1>2, NodesOutAre
<1>5. (\A i \in DOMAIN groups : Harmless(groups[i])) /\ \E m \in Nat : groups = [i \in 1 .. m |-> groups[i]]
  BY <1>3, SingBoxGroupsHarmless, GroupLists
<1>6. (\A i \in DOMAIN others : Harmless(others[i])) /\ \E k \in Nat : others = [i \in 1 .. k |-> others[i]]
  <2>1. CASE profile.ruleActions
    <3>1. others = <<>> /\ <<>> = [i \in 1 .. 0 |-> <<>>[i]]
      BY <2>1
    <3> QED  BY <3>1
  <2>2. CASE ~ profile.ruleActions
    BY <2>2, LegacyHarmless, LegacyLists
  <2> QED  BY <2>1, <2>2
<1> HIDE DEF groups, others
<1>7. \A i \in DOMAIN (NodesOut(nodes) \o groups \o others) :
        Harmless((NodesOut(nodes) \o groups \o others)[i])
  BY <1>4, <1>5, <1>6, OutboundsHarmless
<1> QED  BY <1>1, <1>7

LEMMA ClashHarmless ==
  ASSUME config # None, ConfigOK(config), NEW remote
  PROVE  \A i \in DOMAIN ClashDocument(config, remote).outbounds :
           Harmless(ClashDocument(config, remote).outbounds[i])
<1> DEFINE nodes  == Nodes(config)
           tags   == [i \in DOMAIN nodes |-> nodes[i].tag]
           spec   == ForTemplate(config.client.template)
           groups == ClashGroups(spec, tags)
<1>1. ClashDocument(config, remote).outbounds = NodesOut(nodes) \o groups
  BY DEF ClashDocument, NodesOut
<1>2. nodes \in Seq(ToSet(Nodes(config)))
  BY NodesList
<1>3. config.client.template \in Templates
  BY DEF ConfigOK
<1> HIDE DEF nodes
<1>4. /\ Len(nodes) \in Nat /\ NodesOut(nodes) = [i \in 1 .. Len(nodes) |-> NodesOut(nodes)[i]]
      /\ \A i \in DOMAIN NodesOut(nodes) : Harmless(NodesOut(nodes)[i])
  BY <1>2, NodesOutAre
<1>5. (\A i \in DOMAIN groups : Harmless(groups[i])) /\ \E m \in Nat : groups = [i \in 1 .. m |-> groups[i]]
  BY <1>3, ClashGroupsHarmless, GroupLists
<1> HIDE DEF groups
<1>6. <<>> = [i \in 1 .. 0 |-> <<>>[i]] /\ \A i \in DOMAIN <<>> : Harmless(<<>>[i])
  OBVIOUS
<1>7. \A i \in DOMAIN (NodesOut(nodes) \o groups) : Harmless((NodesOut(nodes) \o groups)[i])
  BY <1>4, <1>5, <1>6, OutboundsHarmless
<1> QED  BY <1>1, <1>7

LEMMA AllReachable ==
  ASSUME DeploymentInv
  PROVE  NodesReachable
<1> SUFFICES ASSUME config # None
             PROVE  /\ \A i \in DOMAIN Uris(config) : Reached(Uris(config)[i])
                    /\ {Uris(config)[i].tag : i \in DOMAIN Uris(config)} = Enabled(config)
                    /\ \A document \in Documents(config) : \A i \in DOMAIN document.outbounds :
                         Harmless(document.outbounds[i])
  BY DEF NodesReachable, Harmless
<1>1. ConfigOK(config)
  BY DEF DeploymentInv
<1>2. \A i \in DOMAIN Uris(config) : Reached(Uris(config)[i])
  <2>1. ASSUME NEW i \in DOMAIN Nodes(config)  PROVE Reached(ClientNode(config, Nodes(config)[i]))
    <3>1. Nodes(config)[i] \in ToSet(Nodes(config))
      BY DEF ToSet
    <3> QED  BY <1>1, <3>1, NodesAre
  <2> QED  BY <2>1 DEF Uris, ClientOutbounds
<1>3. {Uris(config)[i].tag : i \in DOMAIN Uris(config)} = Enabled(config)
  <2>1. \A i \in DOMAIN config.enabled : Uris(config)[i].tag = config.enabled[i]
    BY DEF Uris, ClientOutbounds, Nodes, ClientNode, CanonicalNode
  <2>2. DOMAIN Uris(config) = DOMAIN config.enabled
    BY DEF Uris, ClientOutbounds, Nodes
  <2> QED  BY <2>1, <2>2 DEF Enabled, ToSet
<1>4. ASSUME NEW document \in Documents(config)
      PROVE  \A i \in DOMAIN document.outbounds : Harmless(document.outbounds[i])
  <2>1. CASE \E k \in Fitting(config) : document = SingBoxDocument(config, VersionProfiles[k])
    BY <1>1, <2>1, SingBoxHarmless
  <2>2. CASE document \in {ClashCurrent(config), ClashLegacyDocument(config)}
    BY <1>1, <2>2, ClashHarmless DEF ClashCurrent, ClashLegacyDocument
  <2> QED  BY <2>1, <2>2 DEF Documents
<1> QED  BY <1>2, <1>3, <1>4

\* Every node of a link, and of a document of any format and version, is an inbound of
\* the server on a port of its own, under a name its certificate has (canonical::nodes).
THEOREM EveryNodeReachable == DeploymentSpec => []NodesReachable
BY DeploymentInvariant, AllReachable, PTL
===============================================================================
