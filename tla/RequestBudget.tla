----------------------------- MODULE RequestBudget -----------------------------
(***************************************************************************)
(* The request budget of the subscription listeners (IpBudget): a token    *)
(* bucket per source address, topped up lazily when the address comes      *)
(* back, and dropped from the table once it owes nothing.                  *)
(*                                                                         *)
(* Time is counted in ticks, Refill of them to a token.  Two ideal buckets *)
(* per address say what the table has to amount to: "most" is one that     *)
(* also keeps the fraction of a token a full bucket had gathered, "least"  *)
(* one that does not.                                                      *)
(***************************************************************************)
EXTENDS Integers, FiniteSets

CONSTANTS
  Peers,      \* source addresses
  Burst,      \* REQUEST_BURST
  Refill,     \* REQUEST_REFILL, in ticks
  MaxTracked, \* MAX_TRACKED_PEERS
  MaxTime     \* bound on the clock

ASSUME BudgetAssumption ==
  /\ IsFiniteSet(Peers)
  /\ Burst \in Nat \ {0}
  /\ Refill \in Nat \ {0}
  /\ MaxTracked \in Nat
  /\ MaxTime \in Nat

VARIABLES
  now,     \* the clock
  buckets, \* the table: tokens left and the instant they were topped up
  most,    \* ticks of allowance of the generous ideal bucket of an address
  least    \* the same of the strict one

budgetVars == <<now, buckets, most, least>>

MostTicks  == Burst * Refill + Refill - 1
LeastTicks == Burst * Refill

Bucket == [tokens : 0 .. Burst, at : Nat]

BudgetTypeOK ==
  /\ now \in Nat
  /\ DOMAIN buckets \subseteq Peers
  /\ buckets \in [DOMAIN buckets -> Bucket]
  /\ most \in [Peers -> Int]
  /\ least \in [Peers -> Int]

AtMost(a, b) == IF a < b THEN a ELSE b

BudgetInit ==
  /\ now = 0
  /\ buckets = [p \in {} |-> [tokens |-> 0, at |-> 0]]
  /\ most = [p \in Peers |-> MostTicks]
  /\ least = [p \in Peers |-> LeastTicks]

\* Whole tokens that came back since the bucket was topped up.
Refilled(b, t) == (t - b.at) \div Refill

\* A top-up advances the bucket's instant by the tokens it granted, no more.
ToppedUp(b, t) ==
  [tokens |-> AtMost(b.tokens + Refilled(b, t), Burst),
   at     |-> b.at + Refill * Refilled(b, t)]

\* Mutant: an address with one token missing is dropped too.
OwingMore(t) == {p \in DOMAIN buckets : buckets[p].tokens + Refilled(buckets[p], t) < Burst - 1}

\* The addresses that still owe something.
Owing(t) == {p \in DOMAIN buckets : buckets[p].tokens + Refilled(buckets[p], t) < Burst}

\* admit: room for a new address; a table over its bound is cleared.
Admitted(t) == IF Cardinality(Owing(t)) > MaxTracked THEN {} ELSE Owing(t)

\* The bucket of an address that comes at t, before it spends.
BucketAt(p, t) ==
  IF p \in DOMAIN buckets THEN ToppedUp(buckets[p], t) ELSE [tokens |-> Burst, at |-> t]

\* How long an address that is refused at t is told to wait: a second at least.
Wait(p, t) ==
  LET left == Refill - (t - BucketAt(p, t).at)
  IN  IF left < Refill THEN Refill ELSE left

Grants(p, t) == BucketAt(p, t).tokens > 0

Spent(b) == [b EXCEPT !.tokens = b.tokens - 1]

\* try_acquire of an address in the table, or of a new one, that gets its token.
GrantKnown(p) ==
  /\ p \in DOMAIN buckets
  /\ Grants(p, now)
  /\ buckets' = [buckets EXCEPT ![p] = Spent(BucketAt(p, now))]
  /\ most' = [most EXCEPT ![p] = most[p] - Refill]
  /\ least' = [least EXCEPT ![p] = least[p] - Refill]
  /\ UNCHANGED now

GrantNew(p) ==
  /\ p \in Peers \ DOMAIN buckets
  /\ LET kept    == Admitted(now)
         cleared == Cardinality(Owing(now)) > MaxTracked
     IN  /\ buckets' = [q \in kept \cup {p} |->
                          IF q = p THEN Spent(BucketAt(p, now)) ELSE buckets[q]]
         /\ most' = [q \in Peers |->
                       (IF cleared THEN MostTicks ELSE most[q]) - (IF q = p THEN Refill ELSE 0)]
         /\ least' = [q \in Peers |->
                       (IF cleared THEN LeastTicks ELSE least[q]) - (IF q = p THEN Refill ELSE 0)]
  /\ UNCHANGED now

Grant(p) == GrantKnown(p) \/ GrantNew(p)

\* An address that is out of tokens keeps its topped-up bucket.
Refuse(p) ==
  /\ p \in DOMAIN buckets
  /\ ~ Grants(p, now)
  /\ buckets' = [buckets EXCEPT ![p] = BucketAt(p, now)]
  /\ UNCHANGED <<now, most, least>>

Tick ==
  /\ now < MaxTime
  /\ now' = now + 1
  /\ most' = [p \in Peers |-> AtMost(most[p] + 1, MostTicks)]
  /\ least' = [p \in Peers |-> AtMost(least[p] + 1, LeastTicks)]
  /\ UNCHANGED buckets

\* A service that starts has an empty table.
BudgetForgotten ==
  /\ buckets' = [p \in {} |-> [tokens |-> 0, at |-> 0]]
  /\ most' = [p \in Peers |-> MostTicks]
  /\ least' = [p \in Peers |-> LeastTicks]
  /\ UNCHANGED now

BudgetNext == (\E p \in Peers : Grant(p) \/ Refuse(p)) \/ Tick \/ BudgetForgotten

BudgetSpec == BudgetInit /\ [][BudgetNext]_budgetVars

-------------------------------------------------------------------------------
(* Properties *)

\* Between two clearings of the table no address spends more than its burst and one
\* token per Refill, over any stretch of time, although its bucket is topped up late,
\* dropped and made anew in between (IpBudget::try_acquire, admit).
NeverOverspent == \A p \in Peers : most[p] >= 0

\* An address is only refused when the strict bucket has no whole token for it either:
\* one that was idle long enough has its burst back (IpBudget::try_acquire).
RefusedWhenSpent ==
  \A p \in DOMAIN buckets : ~ Grants(p, now) => least[p] < Refill

\* An address that waits as long as it is told gets its token (Retry-After).
WaitIsEnough ==
  \A p \in DOMAIN buckets : ~ Grants(p, now) => Grants(p, now + Wait(p, now))

\* Together: the table amounts to one bucket per address that runs all the time, though
\* it holds one address more than its bound at most (IpBudget).
BudgetKept ==
  /\ NeverOverspent
  /\ RefusedWhenSpent
  /\ WaitIsEnough
  /\ Cardinality(DOMAIN buckets) <= MaxTracked + 1
=============================================================================
