--------------------------- MODULE AccountingProofs ---------------------------
(***************************************************************************)
(* What is proved of Accounting, for any number of processes and           *)
(* interfaces, any traffic, any reboots, rollbacks and period changes:     *)
(* type correctness; that no byte is counted twice and, while the counters *)
(* run on, none is lost; and that a corrected total is what later traffic  *)
(* is added to.  A state an overtaken reset has accumulated into is the    *)
(* exception of all but the first: there an older measurement follows a    *)
(* newer baseline.                                                         *)
(*                                                                         *)
(* And of AccountingCalendar, for months of any lengths, any anchors and   *)
(* any clock changes that do not go across the beginning of a month: the   *)
(* announced reset is the one that happens.                                *)
(***************************************************************************)
EXTENDS Accounting, AccountingCalendar, FiniteSetTheorems, WellFoundedInduction, TLAPS

-------------------------------------------------------------------------------
(* Typing of the operators on states *)

LEMMA CapBounds ==
  ASSUME NEW n \in Nat
  PROVE  Cap(n) \in Nat /\ Cap(n) <= n
BY AccountingAssumption DEF Cap

LEMMA TargetsType == Targets \subseteq Nat
<1>1. Targets \subseteq 0..MaxBytes
  BY AccountingAssumption DEF Bytes
<1> QED  BY <1>1

LEMMA NoneIsNoState == None \notin States
BY AccountingAssumption DEF States, Counts

LEMMA SumType ==
  /\ \A f \in Counts : Sum(f) \in Nat
  /\ \A f \in [Dirs -> Int] : Sum(f) \in Int
BY DEF Counts, Dirs, Sum

LEMMA MeasureType ==
  ASSUME TypeOK, NEW i \in Ifaces
  PROVE  /\ Measure(i) \in Measurements
         /\ Measure(i).count = counter[i]
         /\ Measure(i).odometer = odometer[i]
BY DEF TypeOK, Measure, Measurements

LEMMA DeltaType ==
  ASSUME NEW s \in States, NEW m \in Measurements, NEW d \in Dirs
  PROVE  Delta(s, m, d) \in Nat
<1>1. m.count[d] \in Nat /\ s.base[d] \in Nat
  BY DEF States, Measurements, Counts
<1> QED  BY <1>1 DEF Delta

LEMMA LiveType ==
  ASSUME NEW s \in States, NEW m \in Measurements
  PROVE  /\ Live(s, m) \in Counts
         /\ \A d \in Dirs : Live(s, m)[d] <= s.acc[d] + Delta(s, m, d)
<1>1. ASSUME NEW d \in Dirs
      PROVE  /\ Cap(s.acc[d] + Delta(s, m, d)) \in Nat
             /\ Cap(s.acc[d] + Delta(s, m, d)) <= s.acc[d] + Delta(s, m, d)
  <2>1. s.acc[d] \in Nat /\ Delta(s, m, d) \in Nat
    BY <1>1, DeltaType DEF States, Counts
  <2> QED  BY <2>1, CapBounds
<1> QED  BY <1>1 DEF Live, Counts

LEMMA NewStateType ==
  ASSUME NEW key \in Nat, NEW i \in Ifaces, NEW m \in Measurements
  PROVE  NewState(key, i, m) \in States
<1>1. m.odometer \in Counts /\ m.odometer \in [Dirs -> Int] /\ m.count \in Counts
  BY DEF Measurements, Counts
<1>2. Sum(m.odometer) \in Int /\ [d \in Dirs |-> 0] \in Counts
  BY <1>1, SumType DEF Counts
<1> QED  BY <1>1, <1>2 DEF NewState, States, Measurements

LEMMA AccumulateType ==
  ASSUME NEW s \in States, NEW m \in Measurements
  PROVE  Accumulate(s, m) \in States
BY LiveType DEF Accumulate, States, Measurements

LEMMA TotalCorrectionType ==
  ASSUME NEW s \in States, NEW m \in Measurements, NEW t \in Nat
  PROVE  TotalCorrection(s, m, t) \in States
<1>1. Sum(Live(s, m)) \in Int /\ Sum(m.odometer) \in Int
  BY LiveType, SumType DEF Measurements, Counts
<1>2. s.adjustment \in Int /\ t \in Int
  BY DEF States
<1>3. /\ s.adjustment + ((t - Sum(Live(s, m))) - s.adjustment) \in Int
      /\ Sum(m.odometer) - t \in Int
  BY <1>1, <1>2
<1> QED  BY <1>3 DEF TotalCorrection, States

LEMMA DirectionCorrectionType ==
  ASSUME NEW s \in States, NEW m \in Measurements, NEW f \in Counts
  PROVE  DirectionCorrection(s, m, f) \in States
<1>1. /\ Sum(f) \in Int /\ Sum(m.odometer) \in Int
      /\ [d \in Dirs |-> m.odometer[d] - f[d]] \in [Dirs -> Int]
  BY SumType DEF Measurements, Counts
<1>2. Sum(m.odometer) - (Sum(f) + s.adjustment) \in Int
  BY <1>1 DEF States
<1> QED  BY <1>1, <1>2 DEF DirectionCorrection, States, Measurements

LEMMA ReconciledType ==
  ASSUME TypeOK, NEW p \in Procs, job[p] \in Jobs, job[p].measured \in Measurements
  PROVE  Reconciled(p) \in States
<1>0. job[p].key \in Nat /\ job[p].iface \in Ifaces
  BY DEF Jobs
<1>1. NewState(job[p].key, job[p].iface, job[p].measured) \in States
  BY <1>0, NewStateType
<1>2. ASSUME state # None PROVE Accumulated(p) \in States
  <2>1. Accumulate(state, job[p].measured) \in States
    BY <1>2, AccumulateType DEF TypeOK
  <2> DEFINE a == Accumulate(state, job[p].measured)
  <2>2. (a.late \/ p \in overtaken) \in BOOLEAN
    OBVIOUS
  <2>3. Accumulated(p) = [a EXCEPT !.late = a.late \/ p \in overtaken]
    BY DEF Accumulated
  <2> HIDE DEF a
  <2> QED  BY <2>1, <2>2, <2>3 DEF States, a
<1> QED  BY <1>1, <1>2 DEF Reconciled, Current

-------------------------------------------------------------------------------
(* Type correctness *)

\* What a process that is not idle works with.
JobOK(p) ==
  /\ pc[p] # "idle" => job[p] \in Jobs
  /\ pc[p] = "measured" => job[p].measured \in Measurements
  /\ pc[p] \in {"planned", "seen"} => job[p].plan \in States

TypeInv == TypeOK /\ \A p \in Procs : JobOK(p)

LEMMA InitType == Init => TypeInv
<1> SUFFICES ASSUME Init PROVE TypeInv
  OBVIOUS
<1>1. [d \in Dirs |-> 0] \in Counts
  BY DEF Counts
<1> QED  BY <1>1 DEF Init, TypeInv, TypeOK, JobOK, OpKinds

LEMMA HostType ==
  ASSUME TypeInv, Host
  PROVE  TypeInv'
<1> USE DEF TypeInv
<1>1. CASE Traffic
  <2>1. PICK i \in Ifaces, d \in Dirs :
          /\ counter'  = [counter EXCEPT ![i][d] = @ + 1]
          /\ odometer' = [odometer EXCEPT ![i][d] = @ + 1]
    BY <1>1 DEF Traffic
  <2>2. counter[i] \in Counts /\ odometer[i] \in Counts
    BY DEF TypeOK
  <2>3. /\ [counter[i] EXCEPT ![d] = @ + 1] \in Counts
        /\ [odometer[i] EXCEPT ![d] = @ + 1] \in Counts
    BY <2>2 DEF Counts
  <2>4. counter' \in [Ifaces -> Counts] /\ odometer' \in [Ifaces -> Counts]
    BY <2>1, <2>3 DEF TypeOK
  <2> QED  BY <1>1, <2>4 DEF Traffic, TypeOK, JobOK
<1>2. CASE NextPeriod
  BY <1>2 DEF NextPeriod, TypeOK, JobOK
<1>3. CASE Reconfigure
  BY <1>3 DEF Reconfigure, TypeOK, JobOK
<1>4. CASE Rollback
  <2>1. [d \in Dirs |-> 0] \in Counts
    BY DEF Counts
  <2> QED  BY <1>4, <2>1 DEF Rollback, TypeOK, JobOK
<1>5. CASE Reboot
  <2>1. [d \in Dirs |-> 0] \in Counts
    BY DEF Counts
  <2> QED  BY <1>5, <2>1 DEF Reboot, TypeOK, JobOK
<1> QED  BY <1>1, <1>2, <1>3, <1>4, <1>5 DEF Host

LEMMA ProcessType ==
  ASSUME TypeInv, NEW p \in Procs, Process(p)
  PROVE  TypeInv'
<1> USE DEF TypeInv
<1>0. JobOK(p) /\ TypeOK
  OBVIOUS
<1>1. ASSUME NEW o \in OpKinds, Begin(p, o) PROVE TypeInv'
  <2> DEFINE new == [op |-> o, key |-> period, iface |-> iface, measured |-> None, plan |-> None]
  <2>1. new \in Jobs
    BY DEF TypeOK, Jobs
  <2>2. corrections' \in Nat
    BY <1>1 DEF Begin, TypeOK
  <2>3. job' = [job EXCEPT ![p] = new] /\ UNCHANGED <<host, state, overtaken>>
    BY <1>1 DEF Begin
  <2>4. \E l \in {"measure", "begun"} : Goto(p, l)
    BY <1>1 DEF Begin
  <2> HIDE DEF new
  <2> QED  BY <1>0, <2>1, <2>2, <2>3, <2>4 DEF Goto, TypeOK, JobOK, host
<1>2. CASE ReadCounters(p)
  <2>1. job[p] \in Jobs /\ Measure(job[p].iface) \in Measurements
    BY <1>0, <1>2, MeasureType DEF ReadCounters, JobOK, Jobs
  <2> DEFINE measured == [job[p] EXCEPT !.measured = Measure(job[p].iface)]
  <2>2. measured \in Jobs /\ measured.measured \in Measurements
    BY <2>1 DEF Jobs
  <2>3. job' = [job EXCEPT ![p] = measured] /\ Goto(p, "measured")
    BY <1>2 DEF ReadCounters
  <2> HIDE DEF measured
  <2> QED  BY <1>0, <1>2, <2>2, <2>3 DEF ReadCounters, Goto, TypeOK, JobOK, host
<1>3. CASE Reset(p)
  <2>1. Reconciled(p) \in States
    BY <1>0, <1>3, ReconciledType DEF Reset, JobOK
  <2> QED  BY <1>0, <1>3, <2>1 DEF Reset, Overtake, Exit, Goto, TypeOK, JobOK, host
<1>4. CASE PlanCorrection(p)
  <2> DEFINE m == Measure(job[p].iface)
  <2>1. job[p] \in Jobs /\ m \in Measurements
    BY <1>0, <1>4, MeasureType DEF PlanCorrection, JobOK, Jobs
  <2>2. ASSUME NEW s \in States, job' = [job EXCEPT ![p].plan = s], Goto(p, "planned"),
               UNCHANGED <<host, state, overtaken, corrections>>
        PROVE  TypeInv'
    <3>1. [job[p] EXCEPT !.plan = s] \in Jobs
      BY <2>1 DEF Jobs
    <3> QED  BY <1>0, <2>1, <2>2, <3>1 DEF Goto, TypeOK, JobOK, host, Jobs
  <2>3. CASE Current(p)
    <3>1. state \in States
      BY <2>3 DEF Current, TypeOK
    <3>2. ASSUME NEW t \in Targets PROVE TotalCorrection(state, m, t) \in States
      BY <2>1, <3>1, TotalCorrectionType, TargetsType
    <3>3. ASSUME NEW f \in [Dirs -> Targets] PROVE DirectionCorrection(state, m, f) \in States
      <4>1. f \in Counts
        BY TargetsType DEF Counts
      <4> QED  BY <2>1, <3>1, <4>1, DirectionCorrectionType
    <3>4. \/ /\ \E t \in Targets : job' = [job EXCEPT ![p].plan = TotalCorrection(state, m, t)]
             /\ Goto(p, "planned")
          \/ /\ \E f \in [Dirs -> Targets] :
                   job' = [job EXCEPT ![p].plan = DirectionCorrection(state, m, f)]
             /\ Goto(p, "planned")
      BY <1>4, <2>3 DEF PlanCorrection
    <3>5. UNCHANGED <<host, state, overtaken, corrections>>
      BY <1>4 DEF PlanCorrection
    <3> HIDE DEF m
    <3> QED  BY <2>2, <3>2, <3>3, <3>4, <3>5
  <2>4. CASE ~ Current(p)
    BY <1>0, <1>4, <2>4 DEF PlanCorrection, Exit, Goto, TypeOK, JobOK, host
  <2> QED  BY <2>3, <2>4
<1>5. CASE WriteCorrection(p)
  BY <1>0, <1>5 DEF WriteCorrection, Overtake, Exit, Goto, TypeOK, JobOK, host
<1>6. CASE ReadState(p)
  <2>1. CASE Current(p)
    <3>1. state \in States /\ job[p] \in Jobs
      BY <1>0, <1>6, <2>1 DEF Current, TypeOK, ReadState, JobOK
    <3>2. [job[p] EXCEPT !.plan = state] \in Jobs
      BY <3>1 DEF Jobs
    <3> QED  BY <1>0, <1>6, <2>1, <3>1, <3>2 DEF ReadState, Goto, TypeOK, JobOK, host, Jobs
  <2>2. CASE ~ Current(p)
    BY <1>0, <1>6, <2>2 DEF ReadState, Exit, Goto, TypeOK, JobOK, host
  <2> QED  BY <2>1, <2>2
<1>7. CASE Report(p)
  BY <1>0, <1>7 DEF Report, Exit, Goto, TypeOK, JobOK, host
<1> QED  BY <1>1, <1>2, <1>3, <1>4, <1>5, <1>6, <1>7 DEF Process

LEMMA StepType == TypeInv /\ [Next]_vars => TypeInv'
<1> SUFFICES ASSUME TypeInv, [Next]_vars PROVE TypeInv'
  OBVIOUS
<1>1. CASE UNCHANGED vars
  BY <1>1 DEF TypeInv, TypeOK, JobOK, vars, host
<1>2. CASE Next
  BY <1>2, HostType, ProcessType DEF Next
<1> QED  BY <1>1, <1>2

\* The values every variable holds in every reachable state: no byte count, no
\* accumulated traffic and no planned state ever leaves its type.
THEOREM AccountingTypes == Spec => []TypeOK
<1>1. TypeInv => TypeOK
  BY DEF TypeInv
<1> QED  BY <1>1, InitType, StepType, PTL DEF Spec

-------------------------------------------------------------------------------
(* No byte is counted twice, and none is lost *)

\* With counters c and odometers o: what s has accumulated was carried before its
\* baseline, and its counter moved at most as far as the interface carried since.
Sound(s, c, o) ==
  \A d \in Dirs :
    /\ s.acc[d] <= s.based[d] - s.origin[d]
    /\ s.based[d] <= o[s.iface][d]
    /\ c[s.iface][d] - s.base[d] <= o[s.iface][d] - s.based[d]

\* With boot bt and k breaks so far: if s saw every break, its counter moved just
\* as far as the interface carried, it accumulated exactly what was carried, and
\* its corrected total agrees with its directions until one of them is full.
Exact(s, c, o, bt, k) ==
  /\ s.breaks <= k
  /\ s.breaks = k =>
       /\ s.boot = bt
       /\ \A d \in Dirs :
            /\ s.based[d] <= o[s.iface][d]
            /\ c[s.iface][d] - s.base[d] = o[s.iface][d] - s.based[d]
            /\ s.origin[d] <= s.based[d]
            /\ s.acc[d] = Cap(s.based[d] - s.origin[d])
       /\ (\A d \in Dirs : o[s.iface][d] - s.origin[d] < MaxBytes) =>
            s.total = Sum(s.origin) - s.adjustment

\* The same of a measurement m of interface i.
Reached(m, i, c, o) ==
  \A d \in Dirs :
    /\ m.odometer[d] <= o[i][d]
    /\ c[i][d] - m.count[d] <= o[i][d] - m.odometer[d]

ReachedExactly(m, i, c, o, bt, k) ==
  /\ m.breaks <= k
  /\ m.breaks = k =>
       /\ m.boot = bt
       /\ \A d \in Dirs :
            /\ m.odometer[d] <= o[i][d]
            /\ c[i][d] - m.count[d] = o[i][d] - m.odometer[d]

\* m was measured after the baseline of s.
Follows(m, s) ==
  /\ s.breaks <= m.breaks
  /\ \A d \in Dirs :
       /\ s.based[d] <= m.odometer[d]
       /\ m.count[d] - s.base[d] <= m.odometer[d] - s.based[d]

\* s and t count from the same baseline.
SameMeter(s, t) ==
  /\ s # None /\ t # None
  /\ s.late = t.late
  /\ s.iface = t.iface
  /\ s.base = t.base
  /\ s.based = t.based
  /\ s.breaks = t.breaks

\* No direction's counter moves further than its odometer, which never goes back.
Moves(c, o, c2, o2) ==
  \A i \in Ifaces, d \in Dirs :
    /\ o[i][d] <= o2[i][d]
    /\ c2[i][d] - c[i][d] <= o2[i][d] - o[i][d]

\* Either a break, or the boot stays and the counters move with the odometers.
MovesExactly(c, o, bt, k, c2, o2, bt2, k2) ==
  \/ k2 > k
  \/ /\ k2 = k /\ bt2 = bt
     /\ \A i \in Ifaces, d \in Dirs :
          /\ o[i][d] <= o2[i][d]
          /\ c2[i][d] - c[i][d] = o2[i][d] - o[i][d]

Meters(s) ==
  ~ s.late => Sound(s, counter, odometer) /\ Exact(s, counter, odometer, boot, breaks)

MeasuredInv(p) ==
  /\ Reached(job[p].measured, job[p].iface, counter, odometer)
  /\ ReachedExactly(job[p].measured, job[p].iface, counter, odometer, boot, breaks)
  /\ (state # None /\ state.iface = job[p].iface /\ ~ state.late /\ p \notin overtaken) =>
       Follows(job[p].measured, state)

ProcInv(p) ==
  /\ pc[p] \in {"measure", "measured"} => job[p].op = "reset"
  /\ pc[p] \in {"seen", "planned"} => Meters(job[p].plan)
  /\ pc[p] = "planned" =>
       \/ job[p].op = "directions"
       \/ job[p].op = "total" /\ SameMeter(job[p].plan, state)
  /\ pc[p] = "measured" => MeasuredInv(p)

MeterInv ==
  /\ TypeInv
  /\ state # None => Meters(state)
  /\ \A p \in Procs : ProcInv(p)

\* One correction at a time is past the lock.
Serial == \A p, q \in Procs : (pc[p] = "planned" /\ pc[q] = "planned") => p = q

Tables == [Ifaces -> Counts]

LEMMA SoundLive ==
  ASSUME TypeOK, NEW s \in States, Sound(s, counter, odometer), NEW d \in Dirs
  PROVE  Live(s, Measure(s.iface))[d] <= odometer[s.iface][d] - s.origin[d]
<1> DEFINE m == Measure(s.iface)
<1>1. /\ m \in Measurements
      /\ m.count[d] = counter[s.iface][d]
      /\ m.odometer[d] = odometer[s.iface][d]
  BY MeasureType DEF States
<1>2. /\ s.acc[d] \in Nat /\ s.base[d] \in Nat /\ s.based[d] \in Nat /\ s.origin[d] \in Int
      /\ counter[s.iface][d] \in Nat /\ odometer[s.iface][d] \in Nat
  BY DEF States, Counts, TypeOK
<1>3. Live(s, m)[d] \in Nat /\ Live(s, m)[d] <= s.acc[d] + Delta(s, m, d)
  BY <1>1, LiveType DEF Counts
<1>4. Delta(s, m, d) = m.count[d] - s.base[d] \/ Delta(s, m, d) = 0
  BY DEF Delta
<1>5. /\ s.acc[d] <= s.based[d] - s.origin[d]
      /\ s.based[d] <= odometer[s.iface][d]
      /\ counter[s.iface][d] - s.base[d] <= odometer[s.iface][d] - s.based[d]
  BY DEF Sound
<1> QED  BY <1>1, <1>2, <1>3, <1>4, <1>5

LEMMA SoundMoves ==
  ASSUME NEW c \in Tables, NEW o \in Tables, NEW c2 \in Tables, NEW o2 \in Tables,
         Moves(c, o, c2, o2)
  PROVE  /\ \A s \in States : Sound(s, c, o) => Sound(s, c2, o2)
         /\ \A m \in Measurements, i \in Ifaces : Reached(m, i, c, o) => Reached(m, i, c2, o2)
<1>1. ASSUME NEW i \in Ifaces, NEW d \in Dirs
      PROVE  /\ c[i][d] \in Int /\ o[i][d] \in Int /\ c2[i][d] \in Int /\ o2[i][d] \in Int
             /\ o[i][d] <= o2[i][d]
             /\ c2[i][d] - c[i][d] <= o2[i][d] - o[i][d]
  BY DEF Moves, Tables, Counts
<1>2. ASSUME NEW s \in States, Sound(s, c, o) PROVE Sound(s, c2, o2)
  <2>1. s.iface \in Ifaces
    BY DEF States
  <2>2. ASSUME NEW d \in Dirs
        PROVE  /\ s.base[d] \in Int /\ s.based[d] \in Int
               /\ s.based[d] <= o2[s.iface][d]
               /\ c2[s.iface][d] - s.base[d] <= o2[s.iface][d] - s.based[d]
    <3>1. s.base[d] \in Int /\ s.based[d] \in Int
      BY DEF States, Counts
    <3>2. /\ s.based[d] <= o[s.iface][d]
          /\ c[s.iface][d] - s.base[d] <= o[s.iface][d] - s.based[d]
      BY <1>2 DEF Sound
    <3> QED  BY <1>1, <2>1, <3>1, <3>2
  <2> QED  BY <1>2, <2>2 DEF Sound
<1>3. ASSUME NEW m \in Measurements, NEW i \in Ifaces, Reached(m, i, c, o)
      PROVE  Reached(m, i, c2, o2)
  <2>1. ASSUME NEW d \in Dirs
        PROVE  /\ m.odometer[d] <= o2[i][d]
               /\ c2[i][d] - m.count[d] <= o2[i][d] - m.odometer[d]
    <3>1. m.odometer[d] \in Int /\ m.count[d] \in Int
      BY DEF Measurements, Counts
    <3>2. /\ m.odometer[d] <= o[i][d]
          /\ c[i][d] - m.count[d] <= o[i][d] - m.odometer[d]
      BY <1>3 DEF Reached
    <3> QED  BY <1>1, <3>1, <3>2
  <2> QED  BY <2>1 DEF Reached
<1> QED  BY <1>2, <1>3

LEMMA ExactMoves ==
  ASSUME NEW c \in Tables, NEW o \in Tables, NEW c2 \in Tables, NEW o2 \in Tables,
         NEW bt \in Nat, NEW k \in Nat, NEW bt2 \in Nat, NEW k2 \in Nat,
         MovesExactly(c, o, bt, k, c2, o2, bt2, k2)
  PROVE  /\ \A s \in States : Exact(s, c, o, bt, k) => Exact(s, c2, o2, bt2, k2)
         /\ \A m \in Measurements, i \in Ifaces :
              ReachedExactly(m, i, c, o, bt, k) => ReachedExactly(m, i, c2, o2, bt2, k2)
<1>1. CASE k2 > k
  BY <1>1 DEF Exact, ReachedExactly, States, Measurements
<1>2. CASE k2 = k /\ bt2 = bt /\ \A i \in Ifaces, d \in Dirs :
                                   /\ o[i][d] <= o2[i][d]
                                   /\ c2[i][d] - c[i][d] = o2[i][d] - o[i][d]
  <2>1. ASSUME NEW i \in Ifaces, NEW d \in Dirs
        PROVE  /\ c[i][d] \in Int /\ o[i][d] \in Int /\ c2[i][d] \in Int /\ o2[i][d] \in Int
               /\ o[i][d] <= o2[i][d]
               /\ c2[i][d] - c[i][d] = o2[i][d] - o[i][d]
    BY <1>2 DEF Tables, Counts
  <2>2. ASSUME NEW s \in States, Exact(s, c, o, bt, k) PROVE Exact(s, c2, o2, bt2, k2)
    <3>1. s.iface \in Ifaces /\ \A d \in Dirs : /\ s.base[d] \in Int /\ s.based[d] \in Int
                                                /\ s.origin[d] \in Int
      BY DEF States, Counts
    <3>2. CASE s.breaks = k
      <4>1. /\ s.boot = bt
            /\ \A d \in Dirs :
                 /\ s.based[d] <= o[s.iface][d]
                 /\ c[s.iface][d] - s.base[d] = o[s.iface][d] - s.based[d]
                 /\ s.origin[d] <= s.based[d]
                 /\ s.acc[d] = Cap(s.based[d] - s.origin[d])
        BY <2>2, <3>2 DEF Exact
      <4>2. ASSUME NEW d \in Dirs
            PROVE  /\ s.based[d] <= o2[s.iface][d]
                   /\ c2[s.iface][d] - s.base[d] = o2[s.iface][d] - s.based[d]
        <5>1. s.based[d] <= o[s.iface][d] /\ c[s.iface][d] - s.base[d] = o[s.iface][d] - s.based[d]
          BY <4>1
        <5>2. /\ c[s.iface][d] \in Int /\ o[s.iface][d] \in Int
              /\ c2[s.iface][d] \in Int /\ o2[s.iface][d] \in Int
              /\ o[s.iface][d] <= o2[s.iface][d]
              /\ c2[s.iface][d] - c[s.iface][d] = o2[s.iface][d] - o[s.iface][d]
          BY <2>1, <3>1
        <5>3. s.based[d] \in Int /\ s.base[d] \in Int
          BY <3>1
        <5> QED  BY <5>1, <5>2, <5>3
      <4>3. ASSUME \A d \in Dirs : o2[s.iface][d] - s.origin[d] < MaxBytes
            PROVE  \A d \in Dirs : o[s.iface][d] - s.origin[d] < MaxBytes
        <5> SUFFICES ASSUME NEW d \in Dirs PROVE o[s.iface][d] - s.origin[d] < MaxBytes
          OBVIOUS
        <5>1. o2[s.iface][d] - s.origin[d] < MaxBytes
          BY <4>3
        <5> QED  BY <2>1, <3>1, <5>1, AccountingAssumption
      <4> QED  BY <1>2, <2>2, <4>1, <4>2, <4>3 DEF Exact
    <3> QED  BY <1>2, <2>2, <3>2 DEF Exact
  <2>3. ASSUME NEW m \in Measurements, NEW i \in Ifaces, ReachedExactly(m, i, c, o, bt, k)
        PROVE  ReachedExactly(m, i, c2, o2, bt2, k2)
    <3>1. \A d \in Dirs : m.odometer[d] \in Int /\ m.count[d] \in Int
      BY DEF Measurements, Counts
    <3>2. CASE m.breaks = k
      <4>1. ASSUME NEW d \in Dirs
            PROVE  /\ m.odometer[d] <= o2[i][d]
                   /\ c2[i][d] - m.count[d] = o2[i][d] - m.odometer[d]
        <5>1. m.odometer[d] <= o[i][d] /\ c[i][d] - m.count[d] = o[i][d] - m.odometer[d]
          BY <2>3, <3>2 DEF ReachedExactly
        <5> QED  BY <2>1, <3>1, <5>1
      <4> QED  BY <1>2, <2>3, <3>2, <4>1 DEF ReachedExactly
    <3> QED  BY <1>2, <2>3, <3>2 DEF ReachedExactly
  <2> QED  BY <2>2, <2>3
<1> QED  BY <1>1, <1>2 DEF MovesExactly

LEMMA HostMoves ==
  ASSUME TypeOK, Host
  PROVE  /\ Moves(counter, odometer, counter', odometer')
         /\ MovesExactly(counter, odometer, boot, breaks, counter', odometer', boot', breaks')
<1>1. ASSUME NEW i \in Ifaces, NEW d \in Dirs
      PROVE  counter[i][d] \in Nat /\ odometer[i][d] \in Nat
  BY DEF TypeOK, Counts
<1>2. CASE Traffic
  <2>1. PICK j \in Ifaces, e \in Dirs :
          /\ counter'  = [counter EXCEPT ![j][e] = @ + 1]
          /\ odometer' = [odometer EXCEPT ![j][e] = @ + 1]
    BY <1>2 DEF Traffic
  <2>2. ASSUME NEW i \in Ifaces, NEW d \in Dirs
        PROVE  \/ /\ counter'[i][d] = counter[i][d]
                  /\ odometer'[i][d] = odometer[i][d]
               \/ /\ counter'[i][d] = counter[i][d] + 1
                  /\ odometer'[i][d] = odometer[i][d] + 1
    <3>1. counter \in [Ifaces -> Counts] /\ odometer \in [Ifaces -> Counts]
      BY DEF TypeOK
    <3>2. CASE i # j
      BY <2>1, <3>1, <3>2
    <3>3. CASE i = j
      <4>1. /\ counter'[i] = [counter[i] EXCEPT ![e] = @ + 1]
            /\ odometer'[i] = [odometer[i] EXCEPT ![e] = @ + 1]
            /\ counter[i] \in [Dirs -> Nat] /\ odometer[i] \in [Dirs -> Nat]
        BY <2>1, <3>1, <3>3 DEF Counts
      <4> QED  BY <4>1
    <3> QED  BY <3>2, <3>3
  <2> QED  BY <1>1, <1>2, <2>2 DEF Moves, MovesExactly, Traffic
<1>3. CASE NextPeriod \/ Reconfigure
  BY <1>1, <1>3 DEF NextPeriod, Reconfigure, Moves, MovesExactly
<1>4. CASE Rollback
  <2>1. PICK j \in Ifaces : counter' = [counter EXCEPT ![j] = [d \in Dirs |-> 0]]
    BY <1>4 DEF Rollback
  <2>2. ASSUME NEW i \in Ifaces, NEW d \in Dirs
        PROVE  counter'[i][d] = counter[i][d] \/ counter'[i][d] = 0
    BY <2>1 DEF TypeOK
  <2> QED  BY <1>1, <1>4, <2>2 DEF Moves, MovesExactly, Rollback, TypeOK
<1>5. CASE Reboot
  BY <1>1, <1>5 DEF Moves, MovesExactly, Reboot, TypeOK
<1> QED  BY <1>2, <1>3, <1>4, <1>5 DEF Host

\* A step of the host leaves the state alone and ends processes or keeps them.
LEMMA HostMeter ==
  ASSUME MeterInv, Host
  PROVE  MeterInv'
<1>1. TypeInv /\ TypeOK /\ TypeInv' /\ TypeOK'
  BY HostType DEF MeterInv, TypeInv
<1>2. /\ counter \in Tables /\ odometer \in Tables
      /\ counter' \in Tables /\ odometer' \in Tables
      /\ boot \in Nat /\ breaks \in Nat /\ boot' \in Nat /\ breaks' \in Nat
      /\ Moves(counter, odometer, counter', odometer')
      /\ MovesExactly(counter, odometer, boot, breaks, counter', odometer', boot', breaks')
  BY <1>1, HostMoves DEF TypeOK, Tables
<1>3. /\ \A s \in States : Sound(s, counter, odometer) => Sound(s, counter', odometer')
      /\ \A m \in Measurements, i \in Ifaces :
           Reached(m, i, counter, odometer) => Reached(m, i, counter', odometer')
  BY <1>2, SoundMoves
<1>4. /\ \A s \in States : Exact(s, counter, odometer, boot, breaks) =>
                             Exact(s, counter', odometer', boot', breaks')
      /\ \A m \in Measurements, i \in Ifaces :
           ReachedExactly(m, i, counter, odometer, boot, breaks) =>
             ReachedExactly(m, i, counter', odometer', boot', breaks')
  BY <1>2, ExactMoves
<1>5. state' = state
  BY DEF Host, Traffic, NextPeriod, Reconfigure, Rollback, Reboot
<1>6. \A p \in Procs :
        pc'[p] = "idle" \/ (pc'[p] = pc[p] /\ job'[p] = job[p] /\ overtaken' = overtaken)
  BY DEF Host, Traffic, NextPeriod, Reconfigure, Rollback, Reboot
<1>7. state # None => Meters(state)'
  BY <1>1, <1>3, <1>4, <1>5 DEF MeterInv, TypeOK, Meters
<1>8. ASSUME NEW p \in Procs PROVE ProcInv(p)'
  <2>1. CASE pc'[p] = "idle"
    BY <2>1 DEF ProcInv
  <2>2. CASE pc'[p] = pc[p] /\ job'[p] = job[p] /\ overtaken' = overtaken
    <3>1. ProcInv(p) /\ JobOK(p)
      BY <1>1 DEF MeterInv, TypeInv
    <3>2. pc[p] \in {"seen", "planned"} =>
            (~ job[p].plan.late => /\ Sound(job[p].plan, counter', odometer')
                                   /\ Exact(job[p].plan, counter', odometer', boot', breaks'))
      BY <1>3, <1>4, <3>1 DEF ProcInv, JobOK, Meters
    <3>3. pc[p] = "measured" =>
            /\ Reached(job[p].measured, job[p].iface, counter', odometer')
            /\ ReachedExactly(job[p].measured, job[p].iface, counter', odometer', boot', breaks')
            /\ (state # None /\ state.iface = job[p].iface /\ ~ state.late /\ p \notin overtaken) =>
                 Follows(job[p].measured, state)
      BY <1>3, <1>4, <3>1 DEF ProcInv, JobOK, Jobs, MeasuredInv
    <3>4. pc[p] = "planned" => \/ job[p].op = "directions"
                               \/ job[p].op = "total" /\ SameMeter(job[p].plan, state)
      BY <3>1 DEF ProcInv
    <3>5. pc[p] \in {"measure", "measured"} => job[p].op = "reset"
      BY <3>1 DEF ProcInv
    <3> QED  BY <1>5, <2>2, <3>2, <3>3, <3>4, <3>5 DEF ProcInv, MeasuredInv, Meters
  <2> QED  BY <1>6, <2>1, <2>2
<1> QED  BY <1>1, <1>5, <1>7, <1>8 DEF MeterInv

LEMMA CapOfCap ==
  ASSUME NEW x \in Nat, NEW y \in Nat
  PROVE  Cap(Cap(x) + y) = Cap(x + y)
BY AccountingAssumption DEF Cap

LEMMA NewStateMeters ==
  ASSUME NEW m \in Measurements, NEW i \in Ifaces, NEW key \in Nat,
         NEW c \in Tables, NEW o \in Tables, NEW bt \in Nat, NEW k \in Nat,
         Reached(m, i, c, o), ReachedExactly(m, i, c, o, bt, k)
  PROVE  /\ NewState(key, i, m).iface = i
         /\ Sound(NewState(key, i, m), c, o)
         /\ Exact(NewState(key, i, m), c, o, bt, k)
<1> DEFINE n == NewState(key, i, m)
<1>1. /\ n.iface = i /\ n.base = m.count /\ n.acc = [d \in Dirs |-> 0] /\ n.boot = m.boot
      /\ n.based = m.odometer /\ n.origin = m.odometer /\ n.total = Sum(m.odometer)
      /\ n.adjustment = 0 /\ n.breaks = m.breaks
  BY DEF NewState
<1>2. \A d \in Dirs : m.odometer[d] \in Nat /\ m.count[d] \in Nat
  BY DEF Measurements, Counts
<1>3. \A d \in Dirs : m.odometer[d] <= m.odometer[d] /\ Cap(m.odometer[d] - m.odometer[d]) = 0
                      /\ m.odometer[d] - m.odometer[d] = 0
  BY <1>2, AccountingAssumption DEF Cap
<1>4. Sum(n.origin) - n.adjustment = n.total
  BY <1>1, SumType DEF Measurements
<1>5. Sound(n, c, o)
  BY <1>1, <1>3 DEF Sound, Reached
<1>6. Exact(n, c, o, bt, k)
  BY <1>1, <1>3, <1>4 DEF Exact, ReachedExactly
<1> QED  BY <1>1, <1>5, <1>6

LEMMA AccumulateSound ==
  ASSUME NEW s \in States, NEW m \in Measurements,
         NEW c \in Tables, NEW o \in Tables,
         Sound(s, c, o), Reached(m, s.iface, c, o), Follows(m, s)
  PROVE  Sound(Accumulate(s, m), c, o)
<1> DEFINE a == Accumulate(s, m)
<1>1. /\ a.iface = s.iface /\ a.base = m.count /\ a.acc = Live(s, m)
      /\ a.based = m.odometer /\ a.origin = s.origin
  BY DEF Accumulate, States
<1>2. ASSUME NEW d \in Dirs
      PROVE  Live(s, m)[d] <= m.odometer[d] - s.origin[d]
  <2>1. /\ s.acc[d] \in Nat /\ s.base[d] \in Nat /\ s.based[d] \in Nat /\ s.origin[d] \in Int
        /\ m.count[d] \in Nat /\ m.odometer[d] \in Nat
    BY DEF States, Measurements, Counts
  <2>2. Live(s, m)[d] \in Nat /\ Live(s, m)[d] <= s.acc[d] + Delta(s, m, d)
    BY LiveType DEF Counts
  <2>3. Delta(s, m, d) = m.count[d] - s.base[d] \/ Delta(s, m, d) = 0
    BY DEF Delta
  <2>4. /\ s.acc[d] <= s.based[d] - s.origin[d]
        /\ s.based[d] <= m.odometer[d]
        /\ m.count[d] - s.base[d] <= m.odometer[d] - s.based[d]
    BY DEF Sound, Follows
  <2> QED  BY <2>1, <2>2, <2>3, <2>4
<1> QED  BY <1>1, <1>2 DEF Sound, Reached
\* Two differences from the same pair of readings differ alike.
LEMMA SameDifference ==
  ASSUME NEW x \in Int, NEW y \in Int, NEW b \in Int, NEW e \in Int, NEW m \in Int, NEW n \in Int,
         x - m = y - n, x - b = y - e, e <= n
  PROVE  m - b = n - e /\ m >= b
OBVIOUS

LEMMA AccumulateExact ==
  ASSUME NEW s \in States, NEW m \in Measurements,
         NEW c \in Tables, NEW o \in Tables, NEW bt \in Nat, NEW k \in Nat,
         Exact(s, c, o, bt, k), ReachedExactly(m, s.iface, c, o, bt, k), Follows(m, s)
  PROVE  Exact(Accumulate(s, m), c, o, bt, k)
<1> DEFINE a == Accumulate(s, m)
<1>1. /\ a.iface = s.iface /\ a.base = m.count /\ a.acc = Live(s, m) /\ a.boot = m.boot
      /\ a.based = m.odometer /\ a.origin = s.origin /\ a.total = s.total
      /\ a.adjustment = s.adjustment /\ a.breaks = s.breaks
  BY DEF Accumulate, States
<1>2. s.breaks \in Nat /\ m.breaks \in Nat /\ s.breaks <= k /\ m.breaks <= k /\ s.breaks <= m.breaks
  BY DEF States, Measurements, Exact, ReachedExactly, Follows
<1>3. CASE s.breaks = k
  <2>1. m.breaks = k /\ m.boot = bt /\ s.boot = bt
    BY <1>2, <1>3 DEF ReachedExactly, Exact
  <2>2. ASSUME NEW d \in Dirs
        PROVE  /\ m.odometer[d] <= o[s.iface][d]
               /\ c[s.iface][d] - m.count[d] = o[s.iface][d] - m.odometer[d]
               /\ s.origin[d] <= m.odometer[d]
               /\ Live(s, m)[d] = Cap(m.odometer[d] - s.origin[d])
    <3>1. /\ s.acc[d] \in Nat /\ s.base[d] \in Nat /\ s.based[d] \in Nat /\ s.origin[d] \in Int
          /\ m.count[d] \in Nat /\ m.odometer[d] \in Nat /\ s.iface \in Ifaces
      BY DEF States, Measurements, Counts
    <3>2. c[s.iface][d] \in Nat /\ o[s.iface][d] \in Nat
      BY <3>1 DEF Tables, Counts
    <3>3. /\ m.odometer[d] <= o[s.iface][d]
          /\ c[s.iface][d] - m.count[d] = o[s.iface][d] - m.odometer[d]
      BY <2>1 DEF ReachedExactly
    <3>4. /\ c[s.iface][d] - s.base[d] = o[s.iface][d] - s.based[d]
          /\ s.origin[d] <= s.based[d]
          /\ s.acc[d] = Cap(s.based[d] - s.origin[d])
      BY <1>3 DEF Exact
    <3>5. s.based[d] <= m.odometer[d]
      BY DEF Follows
    <3>6. m.count[d] - s.base[d] = m.odometer[d] - s.based[d] /\ m.count[d] >= s.base[d]
      <4> DEFINE x == c[s.iface][d]
                 y == o[s.iface][d]
      <4>1. /\ x \in Int /\ y \in Int /\ s.base[d] \in Int /\ s.based[d] \in Int
            /\ m.count[d] \in Int /\ m.odometer[d] \in Int
        BY <3>1, <3>2
      <4>2. x - m.count[d] = y - m.odometer[d] /\ x - s.base[d] = y - s.based[d]
        BY <3>3, <3>4
      <4> HIDE DEF x, y
      <4> QED  BY <3>5, <4>1, <4>2, SameDifference
    <3>7. Delta(s, m, d) = m.odometer[d] - s.based[d]
      BY <2>1, <3>6 DEF Delta
    <3>8. Live(s, m)[d] = Cap(s.acc[d] + (m.odometer[d] - s.based[d]))
      BY <3>7 DEF Live
    <3>9. /\ s.based[d] - s.origin[d] \in Nat /\ m.odometer[d] - s.based[d] \in Nat
          /\ (s.based[d] - s.origin[d]) + (m.odometer[d] - s.based[d])
               = m.odometer[d] - s.origin[d]
      BY <3>1, <3>4, <3>5
    <3>10. Live(s, m)[d] = Cap(m.odometer[d] - s.origin[d])
      BY <3>4, <3>8, <3>9, CapOfCap
    <3> QED  BY <3>1, <3>3, <3>4, <3>5, <3>10
  <2> QED  BY <1>1, <1>2, <2>1, <2>2 DEF Exact
<1> QED  BY <1>1, <1>2, <1>3 DEF Exact

\* A measurement of the present follows every state of its interface.
LEMMA MeasureFollows ==
  ASSUME TypeOK, NEW i \in Ifaces
  PROVE  /\ Measure(i) \in Measurements
         /\ Reached(Measure(i), i, counter, odometer)
         /\ ReachedExactly(Measure(i), i, counter, odometer, boot, breaks)
         /\ \A s \in States : (s.iface = i /\ Meters(s) /\ ~ s.late) => Follows(Measure(i), s)
<1>1. \A d \in Dirs : counter[i][d] \in Nat /\ odometer[i][d] \in Nat
  BY DEF TypeOK, Counts
<1>2. Measure(i) \in Measurements /\ Measure(i).count = counter[i] /\ Measure(i).odometer = odometer[i]
  BY MeasureType
<1>3. Measure(i).boot = boot /\ Measure(i).breaks = breaks
  BY DEF Measure
<1>4. breaks <= breaks
  BY DEF TypeOK
<1>5. Reached(Measure(i), i, counter, odometer)
  BY <1>1, <1>2 DEF Reached
<1>6. ReachedExactly(Measure(i), i, counter, odometer, boot, breaks)
  BY <1>1, <1>2, <1>3, <1>4 DEF ReachedExactly
<1>7. ASSUME NEW s \in States, s.iface = i, Meters(s), ~ s.late PROVE Follows(Measure(i), s)
  BY <1>2, <1>3, <1>7 DEF Meters, Sound, Exact, Follows
<1> QED  BY <1>2, <1>5, <1>6, <1>7

\* What a report shows of a state that saw every break.
LEMMA ExactLive ==
  ASSUME TypeOK, NEW s \in States, Meters(s), ~ s.late, s.breaks = breaks, NEW d \in Dirs
  PROVE  /\ odometer[s.iface][d] - s.origin[d] \in Nat
         /\ Live(s, Measure(s.iface))[d] = Cap(odometer[s.iface][d] - s.origin[d])
<1> DEFINE m == Measure(s.iface)
           a == Accumulate(s, m)
<1>1. s.iface \in Ifaces /\ m \in Measurements /\ m.odometer = odometer[s.iface]
  BY MeasureType DEF States
<1>2. Exact(a, counter, odometer, boot, breaks)
  <2>1. /\ ReachedExactly(m, s.iface, counter, odometer, boot, breaks)
        /\ Follows(m, s)
    BY <1>1, MeasureFollows
  <2>2. counter \in Tables /\ odometer \in Tables /\ boot \in Nat /\ breaks \in Nat
    BY DEF TypeOK, Tables
  <2>3. Exact(s, counter, odometer, boot, breaks)
    BY DEF Meters
  <2> HIDE DEF m
  <2> QED  BY <1>1, <2>1, <2>2, <2>3, AccumulateExact
<1>3. /\ a.iface = s.iface /\ a.acc = Live(s, m) /\ a.based = odometer[s.iface]
      /\ a.origin = s.origin /\ a.breaks = breaks
  BY <1>1 DEF Accumulate, States
<1>4. /\ a.origin[d] <= a.based[d]
      /\ a.acc[d] = Cap(a.based[d] - a.origin[d])
  BY <1>2, <1>3 DEF Exact
<1>5. s.origin[d] \in Int /\ odometer[s.iface][d] \in Int
  BY <1>1 DEF States, TypeOK, Counts
<1> QED  BY <1>3, <1>4, <1>5

LEMMA TotalCorrectionMeters ==
  ASSUME TypeOK, NEW s \in States, Meters(s), NEW t \in Targets
  PROVE  LET c == TotalCorrection(s, Measure(s.iface), t)
         IN  Meters(c) /\ SameMeter(c, s)
<1> DEFINE m == Measure(s.iface)
           c == TotalCorrection(s, m, t)
           i == s.iface
<1>0. /\ i \in Ifaces /\ m \in Measurements /\ m.odometer = odometer[i]
      /\ s.adjustment \in Int /\ t \in Int /\ s.origin \in [Dirs -> Int]
      /\ odometer[i] \in Counts /\ Live(s, m) \in Counts
  BY MeasureType, LiveType, TargetsType DEF States, TypeOK
<1>1. /\ c.iface = s.iface /\ c.base = s.base /\ c.acc = s.acc /\ c.boot = s.boot
      /\ c.based = s.based /\ c.origin = s.origin /\ c.breaks = s.breaks
      /\ c.adjustment = s.adjustment + ((t - Sum(Live(s, m))) - s.adjustment)
      /\ c.total = Sum(m.odometer) - t
      /\ c.late = s.late
  BY DEF TotalCorrection, States
<1>2. ASSUME ~ s.late, s.breaks = breaks, \A d \in Dirs : odometer[i][d] - s.origin[d] < MaxBytes
      PROVE  c.total = Sum(c.origin) - c.adjustment
  <2>1. ASSUME NEW d \in Dirs PROVE Live(s, m)[d] = odometer[i][d] - s.origin[d]
    <3>1. /\ odometer[i][d] - s.origin[d] \in Nat
          /\ Live(s, m)[d] = Cap(odometer[i][d] - s.origin[d])
      BY <1>2, ExactLive
    <3>2. odometer[i][d] - s.origin[d] < MaxBytes
      BY <1>2
    <3> QED  BY <3>1, <3>2, AccountingAssumption DEF Cap
  <2>2. /\ Live(s, m)["rx"] = odometer[i]["rx"] - s.origin["rx"]
        /\ Live(s, m)["tx"] = odometer[i]["tx"] - s.origin["tx"]
        /\ odometer[i]["rx"] \in Int /\ odometer[i]["tx"] \in Int
        /\ s.origin["rx"] \in Int /\ s.origin["tx"] \in Int
    BY <1>0, <2>1 DEF Dirs, Counts
  <2>3. Sum(Live(s, m)) = Sum(odometer[i]) - Sum(s.origin)
    BY <2>2 DEF Sum
  <2>4. Sum(odometer[i]) \in Int /\ Sum(s.origin) \in Int
    BY <2>2 DEF Sum
  <2> QED  BY <1>0, <1>1, <2>3, <2>4
<1>3. ~ s.late => Sound(c, counter, odometer)
  BY <1>1 DEF Meters, Sound
<1>4. ~ s.late => Exact(c, counter, odometer, boot, breaks)
  BY <1>1, <1>2 DEF Meters, Exact
<1>5. c # None /\ s # None
  <2>1. c \in States
    BY <1>0, TotalCorrectionType, TargetsType
  <2> QED  BY <2>1, NoneIsNoState
<1> QED  BY <1>1, <1>3, <1>4, <1>5 DEF Meters, SameMeter

LEMMA DirectionCorrectionMeters ==
  ASSUME TypeOK, NEW s \in States, NEW f \in [Dirs -> Targets]
  PROVE  Meters(DirectionCorrection(s, Measure(s.iface), f))
<1> DEFINE m == Measure(s.iface)
           c == DirectionCorrection(s, m, f)
           i == s.iface
<1>0. /\ i \in Ifaces /\ m \in Measurements /\ m.odometer = odometer[i] /\ m.count = counter[i]
      /\ m.boot = boot /\ m.breaks = breaks
      /\ s.adjustment \in Int
  BY MeasureType DEF States, TypeOK, Measure
<1>1. /\ c.iface = s.iface /\ c.base = counter[i] /\ c.acc = f /\ c.boot = boot
      /\ c.based = odometer[i] /\ c.origin = [d \in Dirs |-> odometer[i][d] - f[d]]
      /\ c.breaks = breaks /\ c.adjustment = s.adjustment
      /\ c.total = Sum(odometer[i]) - (Sum(f) + s.adjustment)
  BY <1>0 DEF DirectionCorrection, States
<1>2. ASSUME NEW d \in Dirs
      PROVE  /\ f[d] \in Nat /\ f[d] <= MaxBytes
             /\ counter[i][d] \in Nat /\ odometer[i][d] \in Nat
  <2>1. Targets \subseteq 0..MaxBytes /\ MaxBytes \in Nat
    BY AccountingAssumption DEF Bytes
  <2>2. f[d] \in 0..MaxBytes
    BY <2>1
  <2>3. counter[i][d] \in Nat /\ odometer[i][d] \in Nat
    BY <1>0 DEF TypeOK, Counts
  <2> QED  BY <2>1, <2>2, <2>3
<1>3. ASSUME NEW d \in Dirs
      PROVE  /\ c.origin[d] = odometer[i][d] - f[d]
             /\ c.origin[d] <= odometer[i][d]
             /\ odometer[i][d] - c.origin[d] = f[d]
             /\ Cap(f[d]) = f[d]
             /\ odometer[i][d] <= odometer[i][d]
             /\ f[d] <= f[d]
             /\ counter[i][d] - counter[i][d] = odometer[i][d] - odometer[i][d]
             /\ counter[i][d] - counter[i][d] <= odometer[i][d] - odometer[i][d]
  <2>1. c.origin[d] = odometer[i][d] - f[d]
    BY <1>1
  <2> HIDE DEF c
  <2> QED  BY <1>2, <2>1, AccountingAssumption DEF Cap
<1>4. c.total = Sum(c.origin) - c.adjustment
  <2>1. /\ c.origin["rx"] = odometer[i]["rx"] - f["rx"] /\ c.origin["tx"] = odometer[i]["tx"] - f["tx"]
        /\ odometer[i]["rx"] \in Int /\ odometer[i]["tx"] \in Int /\ f["rx"] \in Int /\ f["tx"] \in Int
    BY <1>2, <1>3 DEF Dirs
  <2> HIDE DEF c
  <2> QED  BY <1>0, <1>1, <2>1 DEF Sum
<1>5. Sound(c, counter, odometer)
  <2> HIDE DEF c
  <2> QED  BY <1>1, <1>3 DEF Sound
<1>6. Exact(c, counter, odometer, boot, breaks)
  <2>1. breaks <= breaks
    BY DEF TypeOK
  <2> HIDE DEF c
  <2> QED  BY <1>1, <1>3, <1>4, <2>1 DEF Exact
<1> QED  BY <1>5, <1>6 DEF Meters

\* A step that leaves the state and the other processes alone.
LEMMA OwnStepMeter ==
  ASSUME MeterInv, TypeInv', NEW p \in Procs, UNCHANGED <<host, state, overtaken>>, ProcInv(p)',
         \A q \in Procs \ {p} : pc'[q] = pc[q] /\ job'[q] = job[q]
  PROVE  MeterInv'
<1>1. UNCHANGED <<state, counter, odometer, boot, breaks>>
  BY DEF host
<1>2. ASSUME NEW q \in Procs \ {p} PROVE ProcInv(q)'
  <2>1. ProcInv(q) /\ pc'[q] = pc[q] /\ job'[q] = job[q]
    BY DEF MeterInv
  <2> QED  BY <1>1, <2>1 DEF ProcInv, MeasuredInv, Meters
<1> QED  BY <1>1, <1>2 DEF MeterInv, Meters

LEMMA ResetMeter ==
  ASSUME MeterInv, NEW p \in Procs, Reset(p)
  PROVE  MeterInv'
<1> DEFINE key == job[p].key
           i == job[p].iface
           m == job[p].measured
<1>1. TypeInv /\ TypeOK /\ ProcInv(p) /\ JobOK(p) /\ TypeInv'
  BY ProcessType DEF MeterInv, TypeInv, Process
<1>2. pc[p] = "measured" /\ key \in Nat /\ i \in Ifaces /\ m \in Measurements /\ job[p].op = "reset"
  BY <1>1 DEF Reset, JobOK, Jobs, ProcInv
<1>3. /\ counter \in Tables /\ odometer \in Tables /\ boot \in Nat /\ breaks \in Nat
      /\ Reached(m, i, counter, odometer)
      /\ ReachedExactly(m, i, counter, odometer, boot, breaks)
      /\ (state # None /\ state.iface = i /\ ~ state.late /\ p \notin overtaken) => Follows(m, state)
  BY <1>1, <1>2 DEF TypeOK, Tables, ProcInv, MeasuredInv
<1>4. Meters(NewState(key, i, m))
  BY <1>2, <1>3, NewStateMeters DEF Meters
<1>5. ASSUME state # None, state.iface = i
      PROVE  Meters(Accumulated(p))
  <2> DEFINE a == Accumulate(state, m)
             b == Accumulated(p)
  <2>1. state \in States /\ Meters(state) /\ a \in States
    BY <1>1, <1>2, <1>5, AccumulateType DEF MeterInv, TypeOK
  <2>2. a.late = state.late
    BY <2>1 DEF Accumulate, States
  <2>3. /\ b = [a EXCEPT !.late = state.late \/ p \in overtaken]
        /\ b.late = (state.late \/ p \in overtaken)
        /\ b.iface = a.iface /\ b.base = a.base /\ b.acc = a.acc /\ b.boot = a.boot
        /\ b.adjustment = a.adjustment /\ b.based = a.based /\ b.origin = a.origin
        /\ b.total = a.total /\ b.breaks = a.breaks
    BY <2>1, <2>2 DEF Accumulated, States
  <2>4. ~ b.late => Sound(a, counter, odometer) /\ Exact(a, counter, odometer, boot, breaks)
    <3> SUFFICES ASSUME ~ b.late
                 PROVE  Sound(a, counter, odometer) /\ Exact(a, counter, odometer, boot, breaks)
      OBVIOUS
    <3>1. ~ state.late /\ p \notin overtaken
      BY <2>3
    <3>2. Follows(m, state) /\ Sound(state, counter, odometer) /\ Exact(state, counter, odometer, boot, breaks)
      BY <1>3, <1>5, <2>1, <3>1 DEF Meters
    <3> QED  BY <1>2, <1>3, <1>5, <2>1, <3>2, AccumulateSound, AccumulateExact
  <2> HIDE DEF a, b
  <2>5. Meters(b)
    BY <2>3, <2>4 DEF Meters, Sound, Exact
  <2> QED  BY <2>3, <2>5 DEF b
<1>6. Meters(Reconciled(p))
  BY <1>4, <1>5 DEF Reconciled, Current
<1>7. UNCHANGED <<counter, odometer, boot, breaks>>
  BY DEF Reset, host
<1>8. state' # None => Meters(state)'
  BY <1>6, <1>7 DEF Reset, MeterInv, Meters
<1>9. /\ pc'[p] = "idle"
      /\ \A q \in Procs \ {p} : pc'[q] = pc[q] /\ job'[q] = job[q]
      /\ \A q \in Procs : pc[q] # "planned"
  BY <1>1 DEF Reset, Exit, Goto, TypeOK, Unlocked
<1>10. ASSUME NEW q \in Procs PROVE ProcInv(q)'
  <2>1. CASE q = p
    BY <1>9, <2>1 DEF ProcInv
  <2>2. CASE q # p
    <3>1. ProcInv(q) /\ pc[q] # "planned" /\ pc'[q] = pc[q] /\ job'[q] = job[q]
      BY <1>9, <2>2 DEF MeterInv
    <3>2. ASSUME pc[q] = "measured" PROVE MeasuredInv(q)'
      <4>1. MeasuredInv(q)
        BY <3>1, <3>2 DEF ProcInv
      <4>2. state' = state /\ q \notin overtaken' => q \notin overtaken
        BY <2>2 DEF Reset, Overtake
      <4>3. state' # state => q \in overtaken'
        BY <1>2, <2>2, <3>2 DEF Reset, Overtake
      <4> QED  BY <1>7, <3>1, <4>1, <4>2, <4>3 DEF MeasuredInv
    <3>3. pc[q] = "seen" => Meters(job[q].plan)'
      BY <1>7, <3>1 DEF ProcInv, Meters
    <3> QED  BY <3>1, <3>2, <3>3 DEF ProcInv
  <2> QED  BY <2>1, <2>2
<1> QED  BY <1>1, <1>8, <1>10 DEF MeterInv

LEMMA PlanMeter ==
  ASSUME MeterInv, NEW p \in Procs, PlanCorrection(p)
  PROVE  MeterInv'
<1>1. TypeInv /\ TypeOK /\ JobOK(p) /\ TypeInv' /\ pc[p] = "begun"
  BY ProcessType DEF MeterInv, TypeInv, Process, PlanCorrection
<1>2. \A q \in Procs \ {p} : pc'[q] = pc[q] /\ job'[q] = job[q]
  BY <1>1 DEF PlanCorrection, Exit, Goto, TypeOK
<1>3. UNCHANGED <<host, state, overtaken>>
  BY DEF PlanCorrection
<1>4. CASE ~ Current(p)
  <2>1. pc'[p] = "idle"
    BY <1>1, <1>4 DEF PlanCorrection, Exit, Goto, TypeOK
  <2> QED  BY <1>1, <1>2, <1>3, <2>1, OwnStepMeter DEF ProcInv
<1>5. CASE Current(p)
  <2>1. /\ state # None /\ state \in States /\ Meters(state) /\ job[p].iface = state.iface
        /\ job[p] \in Jobs
    BY <1>1, <1>5 DEF Current, TypeOK, MeterInv, JobOK
  <2> DEFINE m == Measure(job[p].iface)
  <2>2. /\ pc'[p] = "planned"
        /\ \E c : /\ job' = [job EXCEPT ![p].plan = c]
                  /\ \/ /\ job[p].op = "total"
                        /\ \E t \in Targets : c = TotalCorrection(state, m, t)
                     \/ /\ job[p].op = "directions"
                        /\ \E f \in [Dirs -> Targets] : c = DirectionCorrection(state, m, f)
    BY <1>1, <1>5 DEF PlanCorrection, Goto, TypeOK
  <2>3. PICK c : /\ job' = [job EXCEPT ![p].plan = c]
                 /\ \/ /\ job[p].op = "total"
                       /\ \E t \in Targets : c = TotalCorrection(state, m, t)
                    \/ /\ job[p].op = "directions"
                       /\ \E f \in [Dirs -> Targets] : c = DirectionCorrection(state, m, f)
    BY <2>2
  <2>4. job'[p].plan = c /\ job'[p].op = job[p].op
    BY <1>1, <2>1, <2>3 DEF TypeOK, Jobs
  <2>5. Meters(c) /\ ((job[p].op = "total" /\ SameMeter(c, state)) \/ job[p].op = "directions")
    <3>1. ASSUME NEW t \in Targets, c = TotalCorrection(state, m, t)
          PROVE  Meters(c) /\ SameMeter(c, state)
      BY <1>1, <2>1, <3>1, TotalCorrectionMeters
    <3>2. ASSUME NEW f \in [Dirs -> Targets], c = DirectionCorrection(state, m, f)
          PROVE  Meters(c)
      BY <1>1, <2>1, <3>2, DirectionCorrectionMeters
    <3> QED  BY <2>3, <3>1, <3>2
  <2>6. Meters(job'[p].plan) /\ ((job'[p].op = "total" /\ SameMeter(job'[p].plan, state')) \/ job'[p].op = "directions")
    BY <1>3, <2>4, <2>5
  <2>7. Meters(job[p].plan)'
    BY <1>3, <2>6 DEF Meters, host
  <2> QED  BY <1>1, <1>2, <1>3, <2>1, <2>2, <2>6, <2>7, OwnStepMeter DEF ProcInv
<1> QED  BY <1>4, <1>5

LEMMA WriteMeter ==
  ASSUME Serial, MeterInv, NEW p \in Procs, WriteCorrection(p)
  PROVE  MeterInv'
<1>1. TypeInv /\ TypeOK /\ JobOK(p) /\ ProcInv(p) /\ TypeInv' /\ pc[p] = "planned"
  BY ProcessType DEF MeterInv, TypeInv, Process, WriteCorrection
<1>2. pc'[p] = "idle" /\ \A q \in Procs \ {p} : pc'[q] = pc[q] /\ job'[q] = job[q]
  BY <1>1 DEF WriteCorrection, Exit, Goto, TypeOK
<1>3. UNCHANGED <<counter, odometer, boot, breaks>>
  BY DEF WriteCorrection, host
<1>4. /\ Meters(job[p].plan)
      /\ state' = state \/ state' = job[p].plan
      /\ job[p].op = "directions" \/ SameMeter(job[p].plan, state)
  BY <1>1 DEF ProcInv, WriteCorrection
<1>5. state' # None => Meters(state)'
  BY <1>3, <1>4 DEF MeterInv, Meters
<1>6. ASSUME job[p].op # "directions" PROVE SameMeter(state', state)
  BY <1>4, <1>6 DEF SameMeter
<1>7. ASSUME NEW q \in Procs PROVE ProcInv(q)'
  <2>1. CASE q = p
    BY <1>2, <2>1 DEF ProcInv
  <2>2. CASE q # p
    <3>1. ProcInv(q) /\ pc'[q] = pc[q] /\ job'[q] = job[q]
      BY <1>2, <2>2 DEF MeterInv
    <3>2. pc[q] \in {"seen", "planned"} => Meters(job[q].plan)'
      BY <1>3, <3>1 DEF ProcInv, Meters
    <3>3. pc[q] = "planned" => \/ job[q].op = "directions"
                               \/ job[q].op = "total" /\ SameMeter(job[q].plan, state')
      <4>1. CASE job[p].op = "directions"
        BY <1>1, <2>2, <3>1, <4>1 DEF Serial
      <4>2. CASE job[p].op # "directions"
        BY <1>6, <3>1, <4>2 DEF ProcInv, SameMeter
      <4> QED  BY <4>1, <4>2
    <3>4. ASSUME pc[q] = "measured" PROVE MeasuredInv(q)'
      <4>1. MeasuredInv(q)
        BY <3>1, <3>4 DEF ProcInv
      <4>2. CASE state' = state
        <5>1. q \notin overtaken' => q \notin overtaken
          BY <2>2, <4>2 DEF WriteCorrection, Overtake
        <5> QED  BY <1>3, <3>1, <4>1, <4>2, <5>1 DEF MeasuredInv
      <4>3. CASE state' # state /\ job[p].op = "directions"
        <5>1. q \in overtaken'
          BY <2>2, <3>4, <4>3 DEF WriteCorrection, Overtake
        <5> QED  BY <1>3, <3>1, <4>1, <5>1 DEF MeasuredInv
      <4>4. CASE job[p].op # "directions"
        <5>1. SameMeter(state', state)
          BY <1>6, <4>4
        <5>2. q \notin overtaken' => q \notin overtaken
          BY <1>1, <1>4, <2>2, <3>4, <4>4 DEF WriteCorrection, Overtake, ProcInv
        <5>3. Follows(job[q].measured, state) => Follows(job[q].measured, state')
          BY <5>1 DEF SameMeter, Follows
        <5> QED  BY <1>3, <3>1, <4>1, <5>1, <5>2, <5>3 DEF MeasuredInv, SameMeter
      <4> QED  BY <4>2, <4>3, <4>4
    <3> QED  BY <3>1, <3>2, <3>3, <3>4 DEF ProcInv
  <2> QED  BY <2>1, <2>2
<1> QED  BY <1>1, <1>5, <1>7 DEF MeterInv

LEMMA ProcessMeter ==
  ASSUME Serial, MeterInv, NEW p \in Procs, Process(p)
  PROVE  MeterInv'
<1>1. TypeInv /\ TypeOK /\ ProcInv(p) /\ JobOK(p) /\ TypeInv'
  BY ProcessType DEF MeterInv, TypeInv
<1>2. ASSUME NEW o \in OpKinds, Begin(p, o) PROVE MeterInv'
  <2>1. /\ pc'[p] \in {"measure", "begun"}
        /\ pc'[p] = "measure" => o = "reset"
        /\ job'[p].op = o
    BY <1>1, <1>2 DEF Begin, Goto, TypeOK
  <2>2. ProcInv(p)'
    BY <2>1 DEF ProcInv
  <2> QED  BY <1>1, <1>2, <2>2, OwnStepMeter DEF Begin, Goto, TypeOK
<1>3. CASE ReadCounters(p)
  <2> DEFINE i == job[p].iface
  <2>1. i \in Ifaces /\ job[p] \in Jobs /\ pc[p] = "measure"
    BY <1>1, <1>3 DEF ReadCounters, JobOK, Jobs
  <2>2. /\ pc'[p] = "measured"
        /\ job'[p] = [job[p] EXCEPT !.measured = Measure(i)]
        /\ UNCHANGED <<counter, odometer, boot, breaks, state, overtaken>>
    BY <1>1, <1>3 DEF ReadCounters, Goto, TypeOK, host
  <2>3. job'[p].measured = Measure(i) /\ job'[p].iface = i /\ job'[p].op = job[p].op
    BY <2>1, <2>2 DEF Jobs
  <2>4. /\ Reached(Measure(i), i, counter, odometer)
        /\ ReachedExactly(Measure(i), i, counter, odometer, boot, breaks)
    BY <1>1, <2>1, MeasureFollows
  <2>5. (state # None /\ state.iface = i /\ ~ state.late) => Follows(Measure(i), state)
    BY <1>1, <2>1, MeasureFollows DEF MeterInv, TypeOK
  <2>6. MeasuredInv(p)'
    BY <2>2, <2>3, <2>4, <2>5 DEF MeasuredInv
  <2>7. ProcInv(p)'
    BY <1>1, <2>1, <2>2, <2>3, <2>6 DEF ProcInv
  <2> QED  BY <1>1, <1>3, <2>7, OwnStepMeter DEF ReadCounters, Goto, TypeOK
<1>4. CASE Reset(p)
  BY <1>4, ResetMeter
<1>5. CASE PlanCorrection(p)
  BY <1>5, PlanMeter
<1>6. CASE WriteCorrection(p)
  BY <1>6, WriteMeter
<1>7. CASE ReadState(p)
  <2>1. CASE Current(p)
    <3>1. state # None /\ state \in States /\ job[p] \in Jobs
      BY <1>1, <1>7, <2>1 DEF Current, TypeOK, ReadState, JobOK
    <3>2. /\ pc'[p] = "seen" /\ job'[p].plan = state /\ job'[p].op = job[p].op
          /\ UNCHANGED <<host, state, overtaken>>
      BY <1>1, <1>7, <2>1, <3>1 DEF ReadState, Goto, TypeOK, Jobs
    <3>3. Meters(state)
      BY <3>1 DEF MeterInv
    <3>4. Meters(job[p].plan)'
      BY <3>2, <3>3 DEF Meters, host
    <3>5. ProcInv(p)'
      BY <1>1, <1>7, <3>2, <3>4 DEF ProcInv, ReadState
    <3> QED  BY <1>1, <1>7, <2>1, <3>5, OwnStepMeter DEF ReadState, Goto, TypeOK
  <2>2. CASE ~ Current(p)
    <3>1. ProcInv(p)'
      BY <1>1, <1>7, <2>2 DEF ReadState, Exit, Goto, TypeOK, ProcInv
    <3> QED  BY <1>1, <1>7, <2>2, <3>1, OwnStepMeter DEF ReadState, Exit, Goto, TypeOK
  <2> QED  BY <2>1, <2>2
<1>8. CASE Report(p)
  <2>1. ProcInv(p)'
    BY <1>1, <1>8 DEF Report, Exit, Goto, TypeOK, ProcInv
  <2> QED  BY <1>1, <1>8, <2>1, OwnStepMeter DEF Report, Exit, Goto, TypeOK
<1> QED  BY <1>2, <1>3, <1>4, <1>5, <1>6, <1>7, <1>8 DEF Process

LEMMA StepSerial ==
  ASSUME TypeOK, Serial, [Next]_vars
  PROVE  Serial'
<1>1. ASSUME NEW p \in Procs, PlanCorrection(p) PROVE Serial'
  BY <1>1 DEF PlanCorrection, Unlocked, Exit, Goto, TypeOK, Serial
<1>2. ASSUME NEW p \in Procs, Process(p), ~ PlanCorrection(p)
      PROVE  \A q \in Procs : pc'[q] = "planned" => pc[q] = "planned"
  BY <1>2 DEF Process, Begin, ReadCounters, Reset, WriteCorrection, ReadState, Report, Exit, Goto,
     TypeOK
<1>3. ASSUME Host \/ UNCHANGED vars
      PROVE  \A q \in Procs : pc'[q] = "planned" => pc[q] = "planned"
  BY <1>3 DEF Host, Traffic, NextPeriod, Reconfigure, Rollback, Reboot, vars
<1> QED  BY <1>1, <1>2, <1>3 DEF Next, Serial

LEMMA StepMeter ==
  ASSUME Serial, MeterInv, [Next]_vars
  PROVE  Serial' /\ MeterInv'
<1>1. Serial'
  BY StepSerial DEF MeterInv, TypeInv
<1>2. CASE UNCHANGED vars
  <2>1. TypeInv'
    BY StepType DEF MeterInv
  <2> QED  BY <1>1, <1>2, <2>1 DEF MeterInv, ProcInv, MeasuredInv, Meters, vars, host
<1>3. CASE Next
  BY <1>1, <1>3, HostMeter, ProcessMeter DEF Next
<1> QED  BY <1>2, <1>3

LEMMA MetersReported ==
  ASSUME MeterInv, NEW s \in Reportable
  PROVE  TypeOK /\ s \in States /\ Meters(s)
<1>1. TypeOK /\ \A p \in Procs : JobOK(p) /\ ProcInv(p)
  BY DEF MeterInv, TypeInv
<1>2. CASE s = state
  BY <1>1, <1>2 DEF Reportable, TypeOK, MeterInv
<1>3. CASE \E p \in Procs : pc[p] = "seen" /\ s = job[p].plan
  BY <1>1, <1>3 DEF JobOK, ProcInv
<1> QED  BY <1>1, <1>2, <1>3 DEF Reportable

LEMMA MeterInvImplies ==
  ASSUME MeterInv
  PROVE  NeverOvercounted /\ NothingLost /\ TotalFollowsCorrection
<1>1. NeverOvercounted
  <2> SUFFICES ASSUME NEW s \in Reportable, ~ s.late PROVE ~ Overcounts(s)
    BY DEF NeverOvercounted
  <2>1. TypeOK /\ s \in States /\ Sound(s, counter, odometer)
    BY MetersReported DEF Meters
  <2>2. ASSUME NEW d \in Dirs
        PROVE  ~ (Live(s, Measure(s.iface))[d] > odometer[s.iface][d] - s.origin[d])
    <3>1. Live(s, Measure(s.iface))[d] <= odometer[s.iface][d] - s.origin[d]
      BY <2>1, SoundLive
    <3>2. /\ Live(s, Measure(s.iface))[d] \in Int
          /\ odometer[s.iface][d] - s.origin[d] \in Int
      BY <2>1, MeasureType, LiveType DEF States, TypeOK, Counts
    <3> QED  BY <3>1, <3>2
  <2> QED  BY <2>2 DEF Overcounts
<1>2. NothingLost
  BY MetersReported, ExactLive DEF NothingLost
<1>3. TotalFollowsCorrection
  <2> SUFFICES ASSUME NEW s \in Reportable, ~ s.late, s.breaks = breaks,
                      \A d \in Dirs : Live(s, Measure(s.iface))[d] < MaxBytes
               PROVE  CorrectedTotal(Live(s, Measure(s.iface)), s.adjustment) =
                        IF Sum(odometer[s.iface]) - s.total < 0 THEN 0
                        ELSE Cap(Sum(odometer[s.iface]) - s.total)
    BY DEF TotalFollowsCorrection
  <2> DEFINE live == Live(s, Measure(s.iface))
             i == s.iface
  <2>1. TypeOK /\ s \in States /\ Meters(s)
    BY MetersReported
  <2>2. ASSUME NEW d \in Dirs
        PROVE  live[d] = odometer[i][d] - s.origin[d] /\ odometer[i][d] - s.origin[d] < MaxBytes
    <3>1. /\ odometer[i][d] - s.origin[d] \in Nat
          /\ live[d] = Cap(odometer[i][d] - s.origin[d])
      BY <2>1, ExactLive
    <3>2. live[d] < MaxBytes
      OBVIOUS
    <3> HIDE DEF live, i
    <3> QED  BY <3>1, <3>2, AccountingAssumption DEF Cap
  <2>3. s.total = Sum(s.origin) - s.adjustment
    BY <2>1, <2>2 DEF Meters, Exact
  <2>4. /\ odometer[i]["rx"] \in Int /\ odometer[i]["tx"] \in Int
        /\ s.origin["rx"] \in Int /\ s.origin["tx"] \in Int /\ s.adjustment \in Int
        /\ live["rx"] = odometer[i]["rx"] - s.origin["rx"]
        /\ live["tx"] = odometer[i]["tx"] - s.origin["tx"]
    BY <2>1, <2>2 DEF States, TypeOK, Counts, Dirs
  <2>5. Sum(live) + s.adjustment = Sum(odometer[i]) - s.total
    <3> HIDE DEF live, i
    <3> QED  BY <2>3, <2>4 DEF Sum
  <2> QED  BY <2>5 DEF CorrectedTotal
<1> QED  BY <1>1, <1>2, <1>3

LEMMA MetersHold == Spec => [](Serial /\ MeterInv)
<1>1. Init => Serial /\ MeterInv
  BY InitType DEF Init, MeterInv, ProcInv, Serial
<1>2. Serial /\ MeterInv /\ [Next]_vars => (Serial /\ MeterInv)'
  BY StepMeter
<1> QED  BY <1>1, <1>2, PTL DEF Spec

\* No direction is ever reported above what its interface carried, whatever reboots,
\* rollbacks, period and interface changes happen between a measurement and its
\* commit, unless an overtaken reset has accumulated into the state.
THEOREM NoByteCountedTwice == Spec => []NeverOvercounted
<1>1. MeterInv => NeverOvercounted
  BY MeterInvImplies
<1> QED  BY <1>1, MetersHold, PTL

\* With the same exception a state that saw every counter break reports exactly
\* what its interface carried since its origin, up to the largest byte count.
THEOREM NoByteLost == Spec => []NothingLost
<1>1. MeterInv => NothingLost
  BY MeterInvImplies
<1> QED  BY <1>1, MetersHold, PTL

\* And the corrected total is the value last set plus what was carried since,
\* however many total-only corrections followed one another.
THEOREM TotalsFollowCorrections == Spec => []TotalFollowsCorrection
<1>1. MeterInv => TotalFollowsCorrection
  BY MeterInvImplies
<1> QED  BY <1>1, MetersHold, PTL

\* One process resets, and only totals are corrected: what the timer and an
\* administrator who leaves directions alone can do.
SingleMeter ==
  \A p \in Procs : /\ "reset" \in OpsOf[p] => p = Timer
                  /\ "directions" \notin OpsOf[p]

AllowedOps == \A p \in Procs : pc[p] # "idle" => job[p].op \in OpsOf[p]

LEMMA StepAllowed ==
  ASSUME TypeInv, AllowedOps, [Next]_vars
  PROVE  AllowedOps'
<1> SUFFICES ASSUME NEW q \in Procs, pc'[q] # "idle" PROVE job'[q].op \in OpsOf[q]
  BY DEF AllowedOps
<1>0. /\ pc \in [Procs -> {"idle", "measure", "measured", "begun", "planned", "seen"}]
      /\ job \in [Procs -> Jobs \cup {None}]
      /\ pc[q] # "idle" => job[q] \in Jobs /\ job[q].op \in OpsOf[q]
  BY DEF TypeInv, TypeOK, JobOK, AllowedOps
<1>1. ASSUME NEW p \in Procs, NEW o \in OpKinds, Begin(p, o) PROVE job'[q].op \in OpsOf[q]
  BY <1>0, <1>1 DEF Begin, Goto
<1>2. CASE \E p \in Procs : ReadCounters(p) \/ PlanCorrection(p) \/ ReadState(p)
  <2>1. PICK p \in Procs : ReadCounters(p) \/ PlanCorrection(p) \/ ReadState(p)
    BY <1>2
  <2>2. pc[p] # "idle" /\ \A r \in Procs \ {p} : pc'[r] = pc[r] /\ job'[r] = job[r]
    BY <1>0, <2>1 DEF ReadCounters, PlanCorrection, ReadState, Exit, Goto
  <2>3. CASE q = p
    <3>1. job'[p].op = job[p].op
      BY <1>0, <2>1, <2>2, <2>3 DEF ReadCounters, PlanCorrection, ReadState, Exit, Goto, Jobs
    <3> QED  BY <1>0, <2>2, <2>3, <3>1
  <2> QED  BY <1>0, <2>2, <2>3
<1>3. CASE \E p \in Procs : Reset(p) \/ WriteCorrection(p) \/ Report(p)
  BY <1>0, <1>3 DEF Reset, WriteCorrection, Report, Exit, Goto
<1>4. CASE Host \/ UNCHANGED vars
  BY <1>0, <1>4 DEF Host, Traffic, NextPeriod, Reconfigure, Rollback, Reboot, vars
<1> QED  BY <1>1, <1>2, <1>3, <1>4 DEF Next, Process

\* Nobody has been overtaken, and no state is late.
OnTime ==
  /\ AllowedOps
  /\ overtaken = {}
  /\ state # None => ~ state.late
  /\ \A p \in Procs : pc[p] \in {"seen", "planned"} => ~ job[p].plan.late

LEMMA StepOnTime ==
  ASSUME SingleMeter, MeterInv, OnTime, [Next]_vars
  PROVE  OnTime'
<1>0. TypeInv /\ TypeOK /\ AllowedOps /\ \A p \in Procs : JobOK(p) /\ ProcInv(p)
  BY DEF MeterInv, TypeInv, OnTime
<1>1. AllowedOps'
  BY <1>0, StepAllowed
<1>2. ASSUME NEW p \in Procs, Reset(p)
      PROVE  overtaken' = {} /\ (state' # None => ~ state'.late)
  <2>1. pc[p] = "measured" /\ job[p].op = "reset" /\ p = Timer
    BY <1>0, <1>2 DEF Reset, ProcInv, AllowedOps, SingleMeter
  <2>2. \A q \in Procs : pc[q] = "measured" => q = p
    BY <1>0, <2>1 DEF ProcInv, AllowedOps, SingleMeter
  <2>3. overtaken' = {}
    BY <1>2, <2>2 DEF Reset, Overtake, OnTime
  <2>4. ~ NewState(job[p].key, job[p].iface, job[p].measured).late
    BY DEF NewState
  <2>5. ASSUME state # None PROVE ~ Accumulated(p).late
    <3>1. state \in States /\ job[p].measured \in Measurements
      BY <1>0, <2>1, <2>5 DEF TypeOK, JobOK
    <3>2. /\ Accumulate(state, job[p].measured) \in States
          /\ Accumulate(state, job[p].measured).late = state.late
      BY <3>1, AccumulateType DEF Accumulate, States
    <3> DEFINE a == Accumulate(state, job[p].measured)
    <3>3. Accumulated(p) = [a EXCEPT !.late = a.late \/ p \in overtaken]
      BY DEF Accumulated
    <3> HIDE DEF a
    <3> QED  BY <2>5, <3>2, <3>3 DEF OnTime, States, a
  <2>6. state' = state \/ state' = Reconciled(p)
    BY <1>2 DEF Reset
  <2> QED  BY <2>3, <2>4, <2>5, <2>6 DEF Reconciled, Current, OnTime
<1>3. ASSUME NEW p \in Procs, WriteCorrection(p)
      PROVE  overtaken' = {} /\ (state' # None => ~ state'.late)
  <2>1. pc[p] = "planned" /\ job[p].op \in OpsOf[p] /\ job[p].op # "directions"
    BY <1>0, <1>3 DEF WriteCorrection, AllowedOps, SingleMeter
  <2>2. state' = state \/ state' = job[p].plan
    BY <1>3 DEF WriteCorrection
  <2>3. job[p].op = "total"
    BY <1>0, <2>1 DEF ProcInv
  <2>4. overtaken' = {}
    BY <1>3, <2>3 DEF WriteCorrection, Overtake, OnTime
  <2> QED  BY <2>1, <2>2, <2>4 DEF OnTime
<1>4. ASSUME NEW p \in Procs, PlanCorrection(p), pc'[p] = "planned"
      PROVE  ~ job'[p].plan.late
  <2>1. pc[p] = "begun" /\ Current(p) /\ state \in States /\ job[p] \in Jobs
    BY <1>0, <1>4 DEF PlanCorrection, Current, TypeOK, JobOK, Exit, Goto
  <2>2. job[p].op # "directions"
    BY <1>0, <2>1 DEF AllowedOps, SingleMeter
  <2>3. PICK t \in Targets : job' = [job EXCEPT ![p].plan = TotalCorrection(state, Measure(job[p].iface), t)]
    BY <1>4, <2>1, <2>2 DEF PlanCorrection
  <2>4. job'[p].plan = TotalCorrection(state, Measure(job[p].iface), t)
    BY <1>0, <2>1, <2>3 DEF TypeOK, Jobs
  <2>5. TotalCorrection(state, Measure(job[p].iface), t).late = state.late
    BY <2>1 DEF TotalCorrection, States
  <2> QED  BY <2>1, <2>4, <2>5 DEF OnTime, Current
<1>5. ASSUME NEW p \in Procs, ReadState(p), pc'[p] = "seen"
      PROVE  ~ job'[p].plan.late
  <2>1. pc[p] = "begun" /\ Current(p) /\ job[p] \in Jobs
    BY <1>0, <1>5 DEF ReadState, Current, TypeOK, JobOK, Exit, Goto
  <2>2. job'[p].plan = state
    BY <1>0, <1>5, <2>1 DEF ReadState, TypeOK, Jobs
  <2> QED  BY <2>1, <2>2 DEF OnTime, Current
<1>6. ASSUME NEW p \in Procs, Process(p), NEW q \in Procs, pc'[q] \in {"seen", "planned"}
      PROVE  ~ job'[q].plan.late
  <2>1. CASE q # p
    <3>1. pc'[q] = pc[q] /\ job'[q] = job[q]
      BY <1>0, <1>6, <2>1 DEF Process, Begin, ReadCounters, Reset, PlanCorrection, WriteCorrection,
         ReadState, Report, Exit, Goto, TypeOK
    <3> QED  BY <1>6, <3>1 DEF OnTime
  <2>2. CASE q = p
    <3>1. PlanCorrection(p) \/ ReadState(p)
      BY <1>0, <1>6, <2>2 DEF Process, Begin, ReadCounters, Reset, WriteCorrection, Report, Exit,
         Goto, TypeOK
    <3>2. PlanCorrection(p) => pc'[p] = "planned"
      BY <1>0, <1>6, <2>2 DEF PlanCorrection, Exit, Goto, TypeOK
    <3>3. ReadState(p) => pc'[p] = "seen"
      BY <1>0, <1>6, <2>2 DEF ReadState, Exit, Goto, TypeOK
    <3> QED  BY <1>4, <1>5, <2>2, <3>1, <3>2, <3>3
  <2> QED  BY <2>1, <2>2
<1>7. ASSUME NEW p \in Procs, Process(p) PROVE OnTime'
  <2>1. overtaken' = {} /\ (state' # None => ~ state'.late)
    <3>1. CASE Reset(p)
      BY <1>2, <3>1
    <3>2. CASE WriteCorrection(p)
      BY <1>3, <3>2
    <3>3. CASE ~ Reset(p) /\ ~ WriteCorrection(p)
      <4>1. UNCHANGED <<state, overtaken>>
        BY <1>7, <3>3 DEF Process, Begin, ReadCounters, PlanCorrection, ReadState, Report
      <4> QED  BY <4>1 DEF OnTime
    <3> QED  BY <3>1, <3>2, <3>3
  <2> QED  BY <1>1, <1>6, <1>7, <2>1 DEF OnTime
<1>8. CASE Host \/ UNCHANGED vars
  <2>1. /\ state' = state
        /\ \/ UNCHANGED <<pc, job, overtaken>>
           \/ overtaken' = {} /\ \A p \in Procs : pc'[p] = "idle"
    BY <1>8 DEF Host, Traffic, NextPeriod, Reconfigure, Rollback, Reboot, vars
  <2> QED  BY <1>1, <2>1 DEF OnTime
<1> QED  BY <1>7, <1>8 DEF Next

\* Where only the timer resets and nobody sets directions nobody is overtaken, so the
\* lock does serialize the writers: nothing is counted twice, nothing is lost and totals
\* follow their corrections without any exception.
THEOREM TimerAndTotalsAreSafe ==
  ASSUME SingleMeter
  PROVE  Spec => []( /\ CorrectionsSerialized /\ NothingLost /\ TotalFollowsCorrection
                     /\ \A s \in Reportable : ~ s.late)
<1>1. Init => OnTime
  BY DEF Init, OnTime, AllowedOps
<1>2. MeterInv /\ OnTime /\ [Next]_vars => OnTime'
  BY StepOnTime
<1>3. OnTime => \A s \in Reportable : ~ s.late
  BY DEF OnTime, Reportable
<1>4. (NeverOvercounted /\ \A s \in Reportable : ~ s.late) => CorrectionsSerialized
  BY DEF NeverOvercounted, CorrectionsSerialized
<1> QED
  BY <1>1, <1>2, <1>3, <1>4, MetersHold, NoByteCountedTwice, NoByteLost, TotalsFollowCorrections,
     PTL DEF Spec

-------------------------------------------------------------------------------
(* The calendar *)

\* A schedule and the instants it is looked at: the months are in order, there is one
\* before and one after each of the instants, and an anchor is a day of its month.
Covered(config, instants, from, to) ==
  /\ Len(MonthDays) \in Nat
  /\ instants \subseteq Int
  /\ from \in Int /\ to \in Int
  /\ MonthsInOrder(config, instants)
  /\ \A t \in from..to : /\ t \in instants
                         /\ MonthAt(config.timezone, t) \in 1..(Len(MonthDays) - 2)
  /\ config.policy # "natural-month" =>
       /\ config.reset.month \in Months
       /\ DaysIn(config.reset.month) \in Int
       /\ config.reset.day \in 1..DaysIn(config.reset.month)

LEMMA MinOfTwo ==
  ASSUME NEW a \in Int, NEW b \in Int, a <= b
  PROVE  Min({a, b}) = a /\ Min({b, a}) = a
BY DEF Min

\* The periods begin one after the other.
LEMMA PeriodsAscend ==
  ASSUME NEW config, NEW instants, NEW from, NEW to, Covered(config, instants, from, to)
  PROVE  /\ \A m \in Months : PeriodStart(config, m) \in Int
         /\ \A m, n \in Months : m < n => PeriodStart(config, m) < PeriodStart(config, n)
         /\ \A m, n \in Months : PeriodStart(config, m) <= PeriodStart(config, n) => m <= n
<1>1. \A m \in Months : /\ PeriodStart(config, m) \in instants /\ PeriodStart(config, m) \in Int
                        /\ MonthAt(config.timezone, PeriodStart(config, m)) = m
  BY DEF Covered, MonthsInOrder
<1>2. \A t, u \in instants :
        t <= u => MonthAt(config.timezone, t) <= MonthAt(config.timezone, u)
  BY DEF Covered, MonthsInOrder
<1>3. ASSUME NEW m \in Months, NEW n \in Months, PeriodStart(config, m) <= PeriodStart(config, n)
      PROVE  m <= n
  BY <1>1, <1>2, <1>3
<1>4. Months \subseteq Int
  BY DEF Months, Covered
<1> QED  BY <1>1, <1>3, <1>4

\* What is in the month of an instant, and what is not.
LEMMA AroundMonth ==
  ASSUME NEW config, NEW instants, NEW from, NEW to, Covered(config, instants, from, to),
         NEW now \in from..to
  PROVE  /\ MonthAt(config.timezone, now) \in 1..(Len(MonthDays) - 2)
         /\ PeriodStart(config, MonthAt(config.timezone, now) - 1) <= now
         /\ now < PeriodStart(config, MonthAt(config.timezone, now) + 1)
<1> DEFINE month == MonthAt(config.timezone, now)
<1>1. month \in 1..(Len(MonthDays) - 2) /\ now \in instants /\ now \in Int
  BY DEF Covered
<1>2. month - 1 \in Months /\ month + 1 \in Months
  BY <1>1 DEF Months, Covered
<1>3. \A m \in Months : /\ PeriodStart(config, m) \in instants /\ PeriodStart(config, m) \in Int
                        /\ MonthAt(config.timezone, PeriodStart(config, m)) = m
  BY DEF Covered, MonthsInOrder
<1>4. \A t, u \in instants :
        t <= u => MonthAt(config.timezone, t) <= MonthAt(config.timezone, u)
  BY DEF Covered, MonthsInOrder
<1>5. PeriodStart(config, month - 1) <= now
  <2>1. CASE now <= PeriodStart(config, month - 1)
    <3>1. month <= month - 1
      BY <1>1, <1>2, <1>3, <1>4, <2>1
    <3> QED  BY <1>1, <3>1
  <2> QED  BY <1>1, <1>2, <1>3, <2>1
<1>6. now < PeriodStart(config, month + 1)
  <2>1. CASE PeriodStart(config, month + 1) <= now
    <3>1. month + 1 <= month
      BY <1>1, <1>2, <1>3, <1>4, <2>1
    <3> QED  BY <1>1, <3>1
  <2> QED  BY <1>1, <1>2, <1>3, <2>1
<1> QED  BY <1>1, <1>5, <1>6

\* accounting_period finds the period an instant is in.
LEMMA PeriodFound ==
  ASSUME NEW config, NEW instants, NEW from, NEW to, Covered(config, instants, from, to),
         NEW now \in from..to
  PROVE  \E k \in Months :
           /\ k + 1 \in Months
           /\ PeriodStart(config, k) <= now /\ now < PeriodStart(config, k + 1)
           /\ AccountingPeriod(config, now) =
                [start |-> PeriodStart(config, k), next |-> PeriodStart(config, k + 1)]
<1> DEFINE month == MonthAt(config.timezone, now)
<1>1. /\ month \in 1..(Len(MonthDays) - 2)
      /\ PeriodStart(config, month - 1) <= now
      /\ now < PeriodStart(config, month + 1)
  BY AroundMonth
<1>2. month - 1 \in Months /\ month \in Months /\ month + 1 \in Months /\ (month - 1) + 1 = month
  BY <1>1 DEF Months, Covered
<1>3. now \in Int
  BY DEF Covered
<1>4. /\ \A m \in Months : PeriodStart(config, m) \in Int
      /\ \A m, n \in Months : m < n => PeriodStart(config, m) < PeriodStart(config, n)
      /\ \A m, n \in Months : PeriodStart(config, m) <= PeriodStart(config, n) => m <= n
  BY PeriodsAscend
<1>5. \A m \in Months : MonthAt(config.timezone, PeriodStart(config, m)) = m
  BY DEF Covered, MonthsInOrder
<1>6. CASE config.policy = "natural-month"
  <2>1. AccountingPeriod(config, now) =
          [start |-> PeriodStart(config, month), next |-> PeriodStart(config, month + 1)]
    BY <1>6 DEF AccountingPeriod, NaturalMonth, PeriodStart, MonthAt
  <2>2. PeriodStart(config, month) <= now
    <3>1. now \in instants
      BY DEF Covered
    <3> QED  BY <1>6, <3>1 DEF Covered, MonthsInOrder
  <2> QED  BY <1>1, <1>2, <2>1, <2>2
<1>7. CASE config.policy # "natural-month"
  <2> DEFINE zone  == config.timezone
             reset == config.reset
             first == LocalDatetime(zone, LocalTime(reset.month, reset.day, reset.unit))
  <2>1. \A m : PeriodStart(config, m) = AnchoredDatetime(zone, m, reset)
    BY <1>7 DEF PeriodStart
  <2>2. reset.month \in Months /\ first = PeriodStart(config, reset.month)
    <3>1. reset.month \in Months /\ DaysIn(reset.month) \in Int /\ reset.day \in 1..DaysIn(reset.month)
      BY <1>7 DEF Covered
    <3>2. Min({reset.day, DaysIn(reset.month)}) = reset.day
      BY <3>1, MinOfTwo
    <3> QED  BY <2>1, <3>1, <3>2 DEF AnchoredDatetime
  \* The schedule, and why the first anchor never comes before it.
  <2>3. ASSUME NEW k \in Months, k + 1 \in Months, PeriodStart(config, k) <= now
        PROVE  (IF now < first THEN Min({PeriodStart(config, k + 1), first}) ELSE PeriodStart(config, k + 1))
                 = PeriodStart(config, k + 1)
    <3>1. ASSUME now < first  PROVE PeriodStart(config, k + 1) <= first
      <4>1. PeriodStart(config, k) < PeriodStart(config, reset.month)
        BY <1>3, <1>4, <2>2, <2>3, <3>1
      <4>2. k < reset.month
        <5>1. ~ PeriodStart(config, reset.month) <= PeriodStart(config, k)
          BY <1>4, <2>2, <4>1
        <5>2. k \in Int /\ reset.month \in Int
          BY <2>2 DEF Months, Covered
        <5>3. CASE reset.month < k
          BY <1>4, <2>2, <4>1, <5>3
        <5>4. CASE reset.month = k
          BY <5>1, <5>4, <1>4
        <5> QED  BY <5>2, <5>3, <5>4
      <4>3. k + 1 <= reset.month
        BY <2>2, <4>2 DEF Months, Covered
      <4>4. CASE k + 1 = reset.month
        BY <1>4, <2>2, <4>4
      <4>5. CASE k + 1 # reset.month
        <5>1. k + 1 < reset.month
          BY <2>2, <4>3, <4>5 DEF Months, Covered
        <5> QED  BY <1>4, <2>2, <2>3, <5>1
      <4> QED  BY <4>4, <4>5
    <3>2. PeriodStart(config, k + 1) \in Int /\ first \in Int
      BY <1>4, <2>2, <2>3
    <3> HIDE DEF first
    <3> QED  BY <3>1, <3>2, MinOfTwo
  <2>4. MonthOf(Local(zone, now)) = month
    BY DEF MonthAt
  <2>5. AccountingPeriod(config, now) = AnchoredMonth(zone, reset, now)
    BY <1>7 DEF AccountingPeriod
  <2>6. CASE PeriodStart(config, month) > now
    <3>1. MonthOf(Local(zone, PeriodStart(config, month - 1))) + 1 = month
      BY <1>2, <1>5 DEF MonthAt
    <3>2. AccountingPeriod(config, now) =
            [start |-> PeriodStart(config, month - 1),
             next  |-> IF now < first THEN Min({PeriodStart(config, month), first})
                       ELSE PeriodStart(config, month)]
      BY <2>1, <2>4, <2>5, <2>6, <3>1 DEF AnchoredMonth
    <3>3. AccountingPeriod(config, now) =
            [start |-> PeriodStart(config, month - 1), next |-> PeriodStart(config, month)]
      BY <1>1, <1>2, <2>3, <3>2
    <3> QED  BY <1>1, <1>2, <2>6, <3>3
  <2>7. CASE ~ (PeriodStart(config, month) > now)
    <3>1. PeriodStart(config, month) <= now
      BY <1>2, <1>3, <1>4, <2>7
    <3>2. MonthOf(Local(zone, PeriodStart(config, month))) = month
      BY <1>2, <1>5 DEF MonthAt
    <3>3. AccountingPeriod(config, now) =
            [start |-> PeriodStart(config, month),
             next  |-> IF now < first THEN Min({PeriodStart(config, month + 1), first})
                       ELSE PeriodStart(config, month + 1)]
      BY <2>1, <2>4, <2>5, <2>7, <3>2 DEF AnchoredMonth
    <3>4. AccountingPeriod(config, now) =
            [start |-> PeriodStart(config, month), next |-> PeriodStart(config, month + 1)]
      BY <1>2, <2>3, <3>1, <3>3
    <3> QED  BY <1>1, <1>2, <3>1, <3>4
  <2> QED  BY <2>6, <2>7
<1> QED  BY <1>6, <1>7

\* The periods do not overlap.
LEMMA PeriodUnique ==
  ASSUME NEW config, NEW instants, NEW from, NEW to, Covered(config, instants, from, to),
         NEW now \in Int, NEW k \in Months, NEW l \in Months, k + 1 \in Months, l + 1 \in Months,
         PeriodStart(config, k) <= now, now < PeriodStart(config, k + 1),
         PeriodStart(config, l) <= now, now < PeriodStart(config, l + 1)
  PROVE  k = l
<1>1. /\ \A m \in Months : PeriodStart(config, m) \in Int
      /\ \A m, n \in Months : m < n => PeriodStart(config, m) < PeriodStart(config, n)
  BY PeriodsAscend
<1>2. Months \subseteq Int
  BY DEF Months, Covered
<1>3. ASSUME NEW m \in Months, NEW n \in Months, m + 1 \in Months, m < n,
             now < PeriodStart(config, m + 1), PeriodStart(config, n) <= now
      PROVE  FALSE
  <2>1. CASE m + 1 = n
    BY <1>1, <1>3, <2>1
  <2>2. CASE m + 1 < n
    BY <1>1, <1>3, <2>2
  <2> QED  BY <1>2, <1>3, <2>1, <2>2
<1>4. CASE k < l
  BY <1>3, <1>4
<1>5. CASE l < k
  BY <1>3, <1>5
<1> QED  BY <1>2, <1>4, <1>5

\* One instant passes.
LEMMA NextInstant ==
  ASSUME NEW config, NEW instants, NEW from, NEW to, Covered(config, instants, from, to),
         NEW now \in from..to, now + 1 \in from..to
  PROVE  LET announced == AccountingPeriod(config, now) IN
         /\ announced.start <= now /\ now < announced.next
         /\ now + 1 < announced.next => AccountingPeriod(config, now + 1) = announced
         /\ now + 1 = announced.next => AccountingPeriod(config, now + 1).start = now + 1
<1>1. PICK k \in Months :
        /\ k + 1 \in Months
        /\ PeriodStart(config, k) <= now /\ now < PeriodStart(config, k + 1)
        /\ AccountingPeriod(config, now) =
             [start |-> PeriodStart(config, k), next |-> PeriodStart(config, k + 1)]
  BY PeriodFound
<1>2. PICK l \in Months :
        /\ l + 1 \in Months
        /\ PeriodStart(config, l) <= now + 1 /\ now + 1 < PeriodStart(config, l + 1)
        /\ AccountingPeriod(config, now + 1) =
             [start |-> PeriodStart(config, l), next |-> PeriodStart(config, l + 1)]
  BY PeriodFound
<1>3. now \in Int /\ now + 1 \in Int
  BY DEF Covered
<1>4. \A m \in Months : PeriodStart(config, m) \in Int
  BY PeriodsAscend
<1>5. ASSUME now + 1 < PeriodStart(config, k + 1)  PROVE l = k
  <2>1. PeriodStart(config, k) <= now + 1
    BY <1>1, <1>3, <1>4
  <2> QED  BY <1>1, <1>2, <1>3, <1>5, <2>1, PeriodUnique
<1>6. ASSUME now + 1 = PeriodStart(config, k + 1)  PROVE PeriodStart(config, l) = now + 1
  <2>1. \A m, n \in Months : m < n => PeriodStart(config, m) < PeriodStart(config, n)
    BY PeriodsAscend
  <2>2. k + 1 \in Int /\ l \in Int /\ l + 1 \in Int
    BY <1>1, <1>2 DEF Months, Covered
  <2>3. CASE l < k + 1
    <3>1. l + 1 = k + 1 \/ l + 1 < k + 1
      BY <2>2, <2>3
    <3>2. PeriodStart(config, l + 1) <= PeriodStart(config, k + 1)
      BY <1>1, <1>2, <1>4, <2>1, <3>1
    <3> QED  BY <1>1, <1>2, <1>3, <1>4, <1>6, <3>2
  <2>4. CASE k + 1 < l
    BY <1>1, <1>2, <1>3, <1>4, <1>6, <2>1, <2>4
  <2>5. CASE l = k + 1
    BY <1>6, <2>5
  <2> QED  BY <2>2, <2>3, <2>4, <2>5
<1> QED  BY <1>1, <1>2, <1>5, <1>6

\* Every schedule has instants for which the months are in order.
LEMMA CalendarStep ==
  ASSUME NEW from \in Int, NEW schedules,
         \A s \in schedules : \E instants \in SUBSET Int : Covered(s, instants, from, LastInstant),
         schedule \in schedules, clock \in from..LastInstant, Passes
  PROVE  /\ schedule' \in schedules /\ clock' \in from..LastInstant
         /\ LET announced == AccountingPeriod(schedule, clock) IN
            /\ announced.start <= clock /\ clock < announced.next
            /\ clock' < announced.next => AccountingPeriod(schedule, clock') = announced
            /\ clock' = announced.next => AccountingPeriod(schedule, clock').start = clock'
<1>1. PICK instants \in SUBSET Int : Covered(schedule, instants, from, LastInstant)
  OBVIOUS
<1>2. LastInstant \in Int
  BY <1>1 DEF Covered
<1>3. clock' = clock + 1 /\ schedule' = schedule /\ clock + 1 \in from..LastInstant
  BY <1>2 DEF Passes
<1>4. LET announced == AccountingPeriod(schedule, clock) IN
      /\ announced.start <= clock /\ clock < announced.next
      /\ clock + 1 < announced.next => AccountingPeriod(schedule, clock + 1) = announced
      /\ clock + 1 = announced.next => AccountingPeriod(schedule, clock + 1).start = clock + 1
  BY <1>1, <1>3, NextInstant
<1>5. AccountingPeriod(schedule, clock') = AccountingPeriod(schedule, clock + 1)
  BY <1>3
<1> QED  BY <1>3, <1>4, <1>5

\* The next reset a report announces is the one the reset task makes, while the months
\* are in order (accounting_period).
THEOREM ResetsAreAnnounced ==
  ASSUME NEW from \in Int, from <= LastInstant, NEW schedules,
         \A s \in schedules : \E instants \in SUBSET Int : Covered(s, instants, from, LastInstant)
  PROVE  CalendarInit(from, schedules) /\ [][Passes]_calendarVars => ResetWhenAnnounced
<1> DEFINE Inv == schedule \in schedules /\ clock \in from..LastInstant
           Announced ==
             clock' # clock =>
               LET announced == AccountingPeriod(schedule, clock) IN
               /\ announced.start <= clock /\ clock < announced.next
               /\ clock' < announced.next => AccountingPeriod(schedule, clock') = announced
               /\ clock' = announced.next => AccountingPeriod(schedule, clock').start = clock'
<1>1. CalendarInit(from, schedules) => Inv
  <2>1. ASSUME CalendarInit(from, schedules)  PROVE clock \in from..LastInstant
    <3>1. schedule \in schedules /\ clock = from
      BY <2>1 DEF CalendarInit
    <3>2. LastInstant \in Int
      BY <3>1 DEF Covered
    <3> QED  BY <3>1, <3>2
  <2> QED  BY <2>1 DEF CalendarInit
<1>2. Inv /\ [Passes]_calendarVars => Inv' /\ [Announced]_calendarVars
  <2>1. ASSUME Inv, Passes  PROVE Inv' /\ Announced
    BY <2>1, CalendarStep
  <2>2. ASSUME Inv, UNCHANGED calendarVars  PROVE Inv'
    BY <2>2 DEF calendarVars
  <2> HIDE DEF Inv, Announced
  <2> QED  BY <2>1, <2>2
<1>3. Announced = (clock' # clock =>
                     LET announced == AccountingPeriod(schedule, clock) IN
                     /\ announced.start <= clock /\ clock < announced.next
                     /\ clock' < announced.next => AccountingPeriod(schedule, clock') = announced
                     /\ clock' = announced.next => AccountingPeriod(schedule, clock').start = clock')
  OBVIOUS
<1> QED  BY <1>1, <1>2, PTL DEF ResetWhenAnnounced

-------------------------------------------------------------------------------
(* Clocks that are never changed *)

\* Induction: there is no endless descent among finite sets.
LEMMA LeastNumber ==
  ASSUME NEW S, S \subseteq Nat, S # {}
  PROVE  \E n \in S : \A m \in S : n <= m
<1> DEFINE R == StrictSubsetOrdering(Nat)
           F == FiniteSubsetsOf(Nat)
           T == {1 .. n : n \in S}
<1>1. IsWellFoundedOn(R, F)
  BY FS_StrictSubsetOrderingWellFounded
<1>2. T \subseteq F
  <2>1. ASSUME NEW n \in S  PROVE 1 .. n \in F
    <3>1. n \in Int /\ 1 \in Int /\ 1 .. n \subseteq Nat
      OBVIOUS
    <3>2. IsFiniteSet(1 .. n)
      BY <3>1, FS_Interval
    <3> QED  BY <3>1, <3>2 DEF FiniteSubsetsOf
  <2> QED  BY <2>1
<1>3. T # {}
  OBVIOUS
<1>4. \E x \in T : \A y \in T : ~ (<<y, x>> \in R)
  <2> HIDE DEF R, F, T
  <2> QED  BY <1>1, <1>2, <1>3, WFMin, Zenon
<1>5. PICK n \in S : \A m \in S : ~ (<<1 .. m, 1 .. n>> \in R)
  BY <1>4
<1>6. ASSUME NEW m \in S, m < n  PROVE FALSE
  <2>1. 1 .. m \subseteq 1 .. n /\ n \in 1 .. n /\ n \notin 1 .. m
    BY <1>6
  <2>2. 1 .. m \in SUBSET Nat /\ 1 .. n \in SUBSET Nat /\ 1 .. m # 1 .. n
    BY <2>1
  <2>3. <<1 .. m, 1 .. n>> \in R
    BY <2>1, <2>2 DEF StrictSubsetOrdering
  <2> QED  BY <1>5, <2>3
<1> QED  BY <1>6

LEMMA NumberInduction ==
  ASSUME NEW S, 0 \in S, \A n \in Nat : n \in S => n + 1 \in S
  PROVE  Nat \subseteq S
<1> SUFFICES ASSUME Nat \ S # {}  PROVE FALSE
  OBVIOUS
<1>1. PICK n \in Nat \ S : \A m \in Nat \ S : n <= m
  <2>1. Nat \ S \subseteq Nat
    OBVIOUS
  <2> QED  BY <2>1, LeastNumber
<1>2. n # 0 /\ n - 1 \in Nat /\ n - 1 < n /\ (n - 1) + 1 = n
  BY <1>1
<1> QED  BY <1>1, <1>2

\* Months of any lengths, and any division of a day.
Horizon ==
  /\ MonthDays \in Seq(Nat \ {0})
  /\ DayLength \in Nat \ {0}
  /\ Hour \in Nat

Longer(month, before) == before + DaysIn(month - 1) * DayLength

LEMMA MonthLengths ==
  ASSUME Horizon, NEW m \in Months
  PROVE  /\ m \in Nat /\ m + 1 \in 1..Len(MonthDays)
         /\ DaysIn(m) \in Nat \ {0}
         /\ DaysIn(m) * DayLength \in Nat \ {0}
<1>1. Len(MonthDays) \in Nat
  BY DEF Horizon
<1>2. m \in Nat /\ m + 1 \in 1..Len(MonthDays)
  BY <1>1 DEF Months
<1>3. DaysIn(m) \in Nat \ {0} /\ DayLength \in Nat \ {0}
  BY <1>2 DEF Horizon, DaysIn
<1>4. \A a, b \in Nat \ {0} : a * b \in Nat \ {0}
  OBVIOUS
<1> QED  BY <1>2, <1>3, <1>4

\* There is a function that does what the recursion says.
LEMMA MonthStartDefined ==
  ASSUME NEW length \in Nat
  PROVE  \E f : f = [m \in 0..length |-> IF m = 0 THEN 0 ELSE Longer(m, f[m - 1])]
<1> DEFINE Is(f, n) == f = [m \in 0..n |-> IF m = 0 THEN 0 ELSE Longer(m, f[m - 1])]
           Ns == {n \in Nat : \E f : Is(f, n)}
<1>1. 0 \in Ns
  <2> DEFINE f == [m \in 0..0 |-> 0]
  <2>1. Is(f, 0)
    OBVIOUS
  <2> QED  BY <2>1
<1>2. ASSUME NEW n \in Nat, n \in Ns  PROVE n + 1 \in Ns
  <2>1. PICK f : Is(f, n)
    BY <1>2
  <2> DEFINE g == [m \in 0..n + 1 |-> IF m = n + 1 THEN Longer(m, f[n]) ELSE f[m]]
             h == [m \in 0..n + 1 |-> IF m = 0 THEN 0 ELSE Longer(m, g[m - 1])]
  <2>2. ASSUME NEW m \in 0..n + 1  PROVE g[m] = h[m]
    <3>1. CASE m = 0
      BY <2>1, <3>1
    <3>2. CASE m = n + 1
      <4>1. m # 0 /\ m - 1 = n /\ n \in 0..n + 1 /\ n # n + 1
        BY <3>2
      <4>2. g[m - 1] = f[n]
        BY <4>1
      <4> QED  BY <3>2, <4>1, <4>2
    <3>3. CASE m \in 1..n
      <4>1. m # 0 /\ m # n + 1 /\ m - 1 # n + 1 /\ m - 1 \in 0..n + 1 /\ m \in 0..n
        BY <3>3
      <4>2. f[m] = Longer(m, f[m - 1])
        BY <2>1, <4>1
      <4> QED  BY <4>1, <4>2
    <3> QED  BY <3>1, <3>2, <3>3
  <2>3. g = h
    BY <2>2
  <2> HIDE DEF g
  <2>4. Is(g, n + 1)
    BY <2>3
  <2> QED  BY <2>4
<1>3. Nat \subseteq Ns
  <2> HIDE DEF Ns
  <2> QED  BY <1>1, <1>2, NumberInduction
<1> QED  BY <1>3

\* Each month begins where the one before it ends.
LEMMA MonthStartIs ==
  ASSUME Horizon
  PROVE  /\ MonthStart[0] = 0
         /\ \A m \in Months : MonthStart[m + 1] = MonthStart[m] + DaysIn(m) * DayLength
<1> DEFINE Is(f) == f = [m \in 0..Len(MonthDays) |-> IF m = 0 THEN 0 ELSE Longer(m, f[m - 1])]
<1>1. Len(MonthDays) \in Nat
  BY DEF Horizon
<1>2. \E f : Is(f)
  BY <1>1, MonthStartDefined
<1>3. Is(CHOOSE f : Is(f))
  BY <1>2
<1>4. MonthStart = CHOOSE f : Is(f)
  BY DEF MonthStart, Longer
<1>5. Is(MonthStart)
  BY <1>3, <1>4
<1>6. MonthStart[0] = 0
  BY <1>1, <1>5
<1>7. ASSUME NEW m \in Months
      PROVE  MonthStart[m + 1] = MonthStart[m] + DaysIn(m) * DayLength
  <2>1. m + 1 \in 0..Len(MonthDays) /\ m + 1 # 0 /\ (m + 1) - 1 = m
    BY <1>1 DEF Months
  <2>2. MonthStart[m + 1] = Longer(m + 1, MonthStart[m])
    BY <1>5, <2>1
  <2> QED  BY <2>1, <2>2 DEF Longer
<1> QED  BY <1>6, <1>7

LEMMA MonthStartType ==
  ASSUME Horizon
  PROVE  \A m \in 0..Len(MonthDays) : MonthStart[m] \in Nat
<1> DEFINE Ms == {n \in Nat : n <= Len(MonthDays) => MonthStart[n] \in Nat}
<1>1. Len(MonthDays) \in Nat
  BY DEF Horizon
<1>2. 0 \in Ms
  BY MonthStartIs
<1>3. ASSUME NEW n \in Nat, n \in Ms  PROVE n + 1 \in Ms
  <2>1. CASE n + 1 <= Len(MonthDays)
    <3>1. n \in Months /\ n <= Len(MonthDays)
      BY <1>1, <2>1 DEF Months
    <3>2. MonthStart[n] \in Nat
      BY <1>3, <3>1
    <3>3. MonthStart[n + 1] = MonthStart[n] + DaysIn(n) * DayLength /\ DaysIn(n) * DayLength \in Nat
      BY <3>1, MonthStartIs, MonthLengths
    <3> QED  BY <3>2, <3>3
  <2>2. CASE ~ (n + 1 <= Len(MonthDays))
    BY <2>2
  <2> QED  BY <2>1, <2>2
<1>4. Nat \subseteq Ms
  <2> HIDE DEF Ms
  <2> QED  BY <1>2, <1>3, NumberInduction
<1> QED  BY <1>1, <1>4

LEMMA MonthStartAscends ==
  ASSUME Horizon
  PROVE  \A m, n \in 0..Len(MonthDays) : m <= n => MonthStart[m] <= MonthStart[n]
<1> SUFFICES ASSUME NEW m \in 0..Len(MonthDays)
             PROVE  \A n \in 0..Len(MonthDays) : m <= n => MonthStart[m] <= MonthStart[n]
  OBVIOUS
<1> DEFINE Ns == {d \in Nat : m + d <= Len(MonthDays) => MonthStart[m] <= MonthStart[m + d]}
<1>1. Len(MonthDays) \in Nat /\ m \in Nat
  BY DEF Horizon
<1>2. 0 \in Ns
  BY <1>1, MonthStartType
<1>3. ASSUME NEW d \in Nat, d \in Ns  PROVE d + 1 \in Ns
  <2>1. CASE m + (d + 1) <= Len(MonthDays)
    <3>1. m + d \in Months /\ m + d <= Len(MonthDays) /\ (m + d) + 1 = m + (d + 1)
      BY <1>1, <2>1 DEF Months
    <3>2. MonthStart[m] <= MonthStart[m + d]
      BY <1>3, <3>1
    <3>3. /\ MonthStart[(m + d) + 1] = MonthStart[m + d] + DaysIn(m + d) * DayLength
          /\ DaysIn(m + d) * DayLength \in Nat
      BY <3>1, MonthStartIs, MonthLengths
    <3>4. MonthStart[m] \in Nat /\ MonthStart[m + d] \in Nat
      BY <1>1, <3>1, MonthStartType
    <3>5. MonthStart[m] <= MonthStart[m + (d + 1)]
      BY <3>1, <3>2, <3>3, <3>4
    <3> QED  BY <3>5
  <2>2. CASE ~ (m + (d + 1) <= Len(MonthDays))
    BY <2>2
  <2> QED  BY <2>1, <2>2
<1>4. Nat \subseteq Ns
  <2> HIDE DEF Ns
  <2> QED  BY <1>2, <1>3, NumberInduction
<1>5. ASSUME NEW n \in 0..Len(MonthDays), m <= n  PROVE MonthStart[m] <= MonthStart[n]
  <2>1. n - m \in Nat /\ m + (n - m) = n
    BY <1>1, <1>5
  <2> QED  BY <1>1, <1>4, <2>1
<1> QED  BY <1>5

\* A local time is in the month it is found in.
LEMMA MonthOfIs ==
  ASSUME Horizon, NEW local \in Int, NEW m \in Months,
         MonthStart[m] <= local, local < MonthStart[m + 1]
  PROVE  MonthOf(local) = m
<1>1. ASSUME NEW n \in Months, MonthStart[n] <= local, local < MonthStart[n + 1]  PROVE n = m
  <2>1. /\ Len(MonthDays) \in Nat
        /\ m \in 0..Len(MonthDays) /\ m + 1 \in 0..Len(MonthDays)
        /\ n \in 0..Len(MonthDays) /\ n + 1 \in 0..Len(MonthDays)
    BY DEF Horizon, Months
  <2>2. /\ MonthStart[m] \in Nat /\ MonthStart[n] \in Nat
        /\ MonthStart[m + 1] \in Nat /\ MonthStart[n + 1] \in Nat
    BY <2>1, MonthStartType
  <2>3. CASE n < m
    <3>1. n + 1 <= m
      BY <2>1, <2>3
    <3>2. MonthStart[n + 1] <= MonthStart[m]
      BY <2>1, <3>1, MonthStartAscends
    <3> QED  BY <1>1, <2>2, <3>2
  <2>4. CASE m < n
    <3>1. m + 1 <= n
      BY <2>1, <2>4
    <3>2. MonthStart[m + 1] <= MonthStart[n]
      BY <2>1, <3>1, MonthStartAscends
    <3> QED  BY <1>1, <2>2, <3>2
  <2> QED  BY <2>1, <2>3, <2>4
<1> QED  BY <1>1 DEF MonthOf

LEMMA MonthFound ==
  ASSUME Horizon, NEW local \in Int, 0 <= local, local < MonthStart[Len(MonthDays)]
  PROVE  /\ MonthOf(local) \in Months
         /\ MonthStart[MonthOf(local)] <= local /\ local < MonthStart[MonthOf(local) + 1]
<1> DEFINE S == {n \in 0..Len(MonthDays) : local < MonthStart[n]}
<1>1. Len(MonthDays) \in Nat
  BY DEF Horizon
<1>2. S # {} /\ S \subseteq Nat
  BY <1>1
<1>3. PICK n \in S : \A k \in S : n <= k
  <2> HIDE DEF S
  <2> QED  BY <1>2, LeastNumber
<1>4. n # 0
  BY <1>3, MonthStartIs
<1>5. n - 1 \in Months /\ n - 1 \in 0..Len(MonthDays) /\ n - 1 \notin S /\ (n - 1) + 1 = n
  BY <1>1, <1>3, <1>4 DEF Months
<1>6. MonthStart[n - 1] <= local
  BY <1>5, MonthStartType
<1>7. MonthOf(local) = n - 1
  BY <1>3, <1>5, <1>6, MonthOfIs
<1> QED  BY <1>3, <1>5, <1>6, <1>7

\* A schedule in a timezone that keeps its offset.
FixedOffset(config) ==
  /\ config.timezone.shifts = {}
  /\ config.timezone.offset \in Int
  /\ config.policy # "natural-month" => config.reset \in Resets

\* Every local time exists once.
LEMMA FixedLocal ==
  ASSUME Horizon, NEW zone, zone.shifts = {}, zone.offset \in Int
  PROVE  /\ \A t : Local(zone, t) = t + zone.offset
         /\ \A local \in Int : LocalDatetime(zone, local) = local - zone.offset
<1>1. \A t : Offset(zone, t) = zone.offset
  BY DEF Offset
<1>2. Offsets(zone) = {zone.offset}
  BY DEF Offsets
<1>3. \A t : Local(zone, t) = t + zone.offset
  BY <1>1 DEF Local
<1>4. \A local \in Int : InstantsAt(zone, local) = {local - zone.offset}
  <2>1. ASSUME NEW local \in Int  PROVE InstantsAt(zone, local) = {local - zone.offset}
    <3>1. Local(zone, local - zone.offset) = local
      BY <1>3
    <3> QED  BY <1>2, <3>1 DEF InstantsAt
  <2> QED  BY <2>1
<1>5. ASSUME NEW local \in Int  PROVE LocalDatetime(zone, local) = local - zone.offset
  <2> DEFINE exists == {h \in 0..3 : InstantsAt(zone, local + h * Hour) # {}}
  <2>1. \A h \in 0..3 : local + h * Hour \in Int
    BY DEF Horizon
  <2>2. exists = 0..3
    BY <1>4, <2>1
  <2>3. Min(exists) = 0
    <3> HIDE DEF exists
    <3> QED  BY <2>2 DEF Min
  <2>4. local + 0 * Hour = local
    BY DEF Horizon
  <2>5. Min({local - zone.offset}) = local - zone.offset
    BY DEF Min
  <2>6. LocalDatetime(zone, local) = Min(InstantsAt(zone, local + Min(exists) * Hour))
    BY <2>2 DEF LocalDatetime
  <2> HIDE DEF exists
  <2> QED  BY <1>4, <2>3, <2>4, <2>5, <2>6
<1> QED  BY <1>3, <1>5

\* Day and unit are in their month.
LEMMA DayInMonth ==
  ASSUME NEW days \in Nat, NEW day \in 1..days, NEW length \in Nat, NEW unit \in 0..length - 1
  PROVE  /\ (day - 1) * length + unit \in Nat
         /\ (day - 1) * length + unit < days * length
<1>1. (day - 1) * length \in Nat /\ day * length \in Nat /\ days * length \in Nat
  BY SMT
<1>2. day * length = (day - 1) * length + length
  BY SMT
<1>3. day * length <= days * length
  BY SMT
<1> QED  BY <1>1, <1>2, <1>3

LEMMA LocalTimeInMonth ==
  ASSUME Horizon, NEW m \in Months, NEW day \in 1..DaysIn(m), NEW unit \in 0..DayLength - 1
  PROVE  /\ LocalTime(m, day, unit) \in Int
         /\ MonthStart[m] <= LocalTime(m, day, unit) /\ LocalTime(m, day, unit) < MonthStart[m + 1]
<1>1. /\ m \in 0..Len(MonthDays) /\ DaysIn(m) \in Nat /\ DayLength \in Nat
  BY MonthLengths DEF Months, Horizon
<1>2. MonthStart[m] \in Nat
  BY <1>1, MonthStartType
<1>3. MonthStart[m + 1] = MonthStart[m] + DaysIn(m) * DayLength
  BY MonthStartIs
<1>4. PICK in \in Nat : in = (day - 1) * DayLength + unit /\ in < DaysIn(m) * DayLength
  BY <1>1, DayInMonth
<1>5. LocalTime(m, day, unit) = MonthStart[m] + in
  <2>1. (day - 1) * DayLength \in Int
    BY <1>1
  <2> QED  BY <1>2, <1>4, <2>1 DEF LocalTime
<1>6. DaysIn(m) * DayLength \in Nat
  BY <1>1
<1> QED  BY <1>2, <1>3, <1>4, <1>5, <1>6

\* A day the month does not have is its last one, so the anchor stays in its month.
LEMMA FixedPeriod ==
  ASSUME Horizon, NEW config, FixedOffset(config), NEW m \in Months
  PROVE  \E local \in Int :
           /\ MonthStart[m] <= local /\ local < MonthStart[m + 1]
           /\ PeriodStart(config, m) = local - config.timezone.offset
           /\ config.policy = "natural-month" => local = MonthStart[m]
<1>1. /\ m \in 0..Len(MonthDays) /\ DaysIn(m) \in Nat \ {0}
      /\ DaysIn(m) * DayLength \in Nat \ {0}
  BY MonthLengths DEF Months
<1>2. \A local \in Int :
        LocalDatetime(config.timezone, local) = local - config.timezone.offset
  BY FixedLocal DEF FixedOffset
<1>3. CASE config.policy = "natural-month"
  <2>1. MonthStart[m] \in Nat /\ MonthStart[m + 1] = MonthStart[m] + DaysIn(m) * DayLength
    BY <1>1, MonthStartType, MonthStartIs
  <2> QED  BY <1>1, <1>2, <1>3, <2>1 DEF PeriodStart
<1>4. CASE config.policy # "natural-month"
  <2> DEFINE day == Min({config.reset.day, DaysIn(m)})
  <2>1. PICK n \in Months : config.reset \in [month : {n}, day : 1..DaysIn(n), unit : 0..(DayLength - 1)]
    BY <1>4 DEF FixedOffset, Resets
  <2>2. DaysIn(n) \in Nat
    BY MonthLengths
  <2>3. config.reset.day \in 1..DaysIn(n) /\ config.reset.unit \in 0..DayLength - 1
    BY <2>1
  <2>4. day \in 1..DaysIn(m)
    <3>1. CASE config.reset.day <= DaysIn(m)
      BY <1>1, <2>2, <2>3, <3>1, MinOfTwo
    <3>2. CASE DaysIn(m) <= config.reset.day
      BY <1>1, <2>2, <2>3, <3>2, MinOfTwo
    <3> QED  BY <1>1, <2>2, <2>3, <3>1, <3>2
  <2> HIDE DEF day
  <2>5. /\ LocalTime(m, day, config.reset.unit) \in Int
        /\ MonthStart[m] <= LocalTime(m, day, config.reset.unit)
        /\ LocalTime(m, day, config.reset.unit) < MonthStart[m + 1]
    BY <2>3, <2>4, LocalTimeInMonth
  <2>6. PeriodStart(config, m) = LocalDatetime(config.timezone, LocalTime(m, day, config.reset.unit))
    BY <1>4 DEF PeriodStart, AnchoredDatetime, day
  <2> QED  BY <1>2, <1>4, <2>5, <2>6
<1> QED  BY <1>3, <1>4

\* A timezone that keeps its offset has its months in order.
LEMMA FixedCovered ==
  ASSUME Horizon, NEW config, FixedOffset(config), NEW from \in Int, NEW to \in Int,
         Len(MonthDays) >= 2,
         MonthStart[1] <= from + config.timezone.offset,
         to + config.timezone.offset < MonthStart[Len(MonthDays) - 1]
  PROVE  \E instants \in SUBSET Int : Covered(config, instants, from, to)
<1> DEFINE zone  == config.timezone
           shift == zone.offset
           last  == MonthStart[Len(MonthDays)]
           instants == {t \in Int : 0 <= t + shift /\ t + shift < last}
<1>1. Len(MonthDays) \in Nat /\ shift \in Int
  BY DEF Horizon, FixedOffset
<1>2. last \in Nat
  BY <1>1, MonthStartType
<1>3. \A t : Local(zone, t) = t + shift
  BY FixedLocal DEF FixedOffset
<1>4. ASSUME NEW t \in instants
      PROVE  /\ MonthAt(zone, t) \in Months
             /\ MonthStart[MonthAt(zone, t)] <= t + shift
             /\ t + shift < MonthStart[MonthAt(zone, t) + 1]
  <2>1. t + shift \in Int /\ 0 <= t + shift /\ t + shift < last
    BY <1>1
  <2> HIDE DEF instants, shift
  <2>2. /\ MonthOf(t + shift) \in Months
        /\ MonthStart[MonthOf(t + shift)] <= t + shift
        /\ t + shift < MonthStart[MonthOf(t + shift) + 1]
    BY <2>1, MonthFound
  <2>3. MonthAt(zone, t) = MonthOf(t + shift)
    BY <1>3 DEF MonthAt
  <2> QED  BY <2>2, <2>3
<1>5. \A m \in Months : /\ m \in 0..Len(MonthDays) /\ m + 1 \in 0..Len(MonthDays)
                        /\ MonthStart[m] \in Nat /\ MonthStart[m + 1] \in Nat
  BY <1>1, MonthStartType DEF Months
<1>6. ASSUME NEW t \in instants, NEW u \in instants, t <= u
      PROVE  MonthAt(zone, t) <= MonthAt(zone, u)
  <2>1. PICK m \in Months : m = MonthAt(zone, t) /\ MonthStart[m] <= t + shift
    BY <1>4
  <2>2. PICK n \in Months : n = MonthAt(zone, u) /\ u + shift < MonthStart[n + 1]
    BY <1>4
  <2>3. t \in Int /\ u \in Int
    OBVIOUS
  <2>4. CASE n < m
    <3>1. n + 1 <= m
      BY <1>5, <1>1, <2>4
    <3>2. MonthStart[n + 1] <= MonthStart[m]
      BY <1>5, <3>1, MonthStartAscends
    <3> HIDE DEF instants, shift
    <3> QED  BY <1>1, <1>5, <1>6, <2>1, <2>2, <2>3, <3>2
  <2> HIDE DEF instants
  <2> QED  BY <1>1, <1>5, <2>1, <2>2, <2>4
<1>7. ASSUME NEW m \in Months
      PROVE  /\ PeriodStart(config, m) \in instants
             /\ MonthAt(zone, PeriodStart(config, m)) = m
  <2>1. PICK local \in Int :
          /\ MonthStart[m] <= local /\ local < MonthStart[m + 1]
          /\ PeriodStart(config, m) = local - shift
    BY FixedPeriod
  <2>2. 0 <= local /\ local < last
    <3>1. MonthStart[m + 1] <= last
      BY <1>1, <1>5, MonthStartAscends
    <3> HIDE DEF last
    <3> QED  BY <1>2, <1>5, <2>1, <3>1
  <2>3. PeriodStart(config, m) \in Int /\ PeriodStart(config, m) + shift = local
    <3> HIDE DEF shift
    <3> QED  BY <1>1, <2>1
  <2>4. MonthAt(zone, PeriodStart(config, m)) = m
    BY <1>3, <2>1, <2>3, MonthOfIs DEF MonthAt
  <2> QED  BY <2>2, <2>3, <2>4
<1>8. ASSUME NEW t \in instants, config.policy = "natural-month"
      PROVE  PeriodStart(config, MonthAt(zone, t)) <= t
  <2>1. PICK m \in Months : m = MonthAt(zone, t) /\ MonthStart[m] <= t + shift
    BY <1>4
  <2>2. PeriodStart(config, m) = MonthStart[m] - shift
    BY <1>8, FixedPeriod
  <2>3. t \in Int
    OBVIOUS
  <2> HIDE DEF shift, instants
  <2> QED  BY <1>1, <1>5, <2>1, <2>2, <2>3
<1>9. MonthsInOrder(config, instants)
  <2> HIDE DEF instants
  <2> QED  BY <1>4, <1>6, <1>7, <1>8 DEF MonthsInOrder
<1>10. ASSUME NEW t \in from..to
       PROVE  t \in instants /\ MonthAt(zone, t) \in 1..(Len(MonthDays) - 2)
  <2>1. t \in Int /\ MonthStart[1] <= t + shift /\ t + shift < MonthStart[Len(MonthDays) - 1]
    <3>1. /\ 1 \in 0..Len(MonthDays) /\ Len(MonthDays) - 1 \in 0..Len(MonthDays)
      BY <1>1
    <3>2. MonthStart[1] \in Nat /\ MonthStart[Len(MonthDays) - 1] \in Nat
      BY <3>1, MonthStartType
    <3> QED  BY <1>1, <3>2
  <2>2. MonthStart[1] \in Nat /\ MonthStart[Len(MonthDays) - 1] <= last
    <3>1. /\ 1 \in 0..Len(MonthDays) /\ Len(MonthDays) - 1 \in 0..Len(MonthDays)
          /\ Len(MonthDays) \in 0..Len(MonthDays) /\ Len(MonthDays) - 1 <= Len(MonthDays)
      BY <1>1
    <3>2. MonthStart[1] \in Nat
      BY <3>1, MonthStartType
    <3>3. MonthStart[Len(MonthDays) - 1] <= last
      BY <3>1, MonthStartAscends
    <3> QED  BY <3>2, <3>3
  <2>3. MonthStart[Len(MonthDays) - 1] \in Nat
    BY <1>1, MonthStartType
  <2>4. t \in instants
    <3> HIDE DEF last
    <3> QED  BY <1>1, <1>2, <2>1, <2>2, <2>3
  <2>5. PICK m \in Months :
          m = MonthAt(zone, t) /\ MonthStart[m] <= t + shift /\ t + shift < MonthStart[m + 1]
    BY <1>4, <2>4
  <2> HIDE DEF instants
  <2>6. m # 0
    <3>1. ASSUME m = 0  PROVE FALSE
      <4>1. t + shift < MonthStart[1]
        BY <2>5, <3>1
      <4> QED  BY <1>1, <2>1, <2>2, <4>1
    <3> QED  BY <3>1
  <2>7. m # Len(MonthDays) - 1
    <3>1. ASSUME m = Len(MonthDays) - 1  PROVE FALSE
      <4>1. MonthStart[Len(MonthDays) - 1] <= t + shift
        BY <2>5, <3>1
      <4> QED  BY <1>1, <2>1, <2>3, <4>1
    <3> QED  BY <3>1
  <2> QED  BY <1>1, <2>4, <2>5, <2>6, <2>7 DEF Months
<1>11. config.policy # "natural-month" =>
         /\ config.reset.month \in Months
         /\ DaysIn(config.reset.month) \in Int
         /\ config.reset.day \in 1..DaysIn(config.reset.month)
  <2> SUFFICES ASSUME config.policy # "natural-month"
               PROVE  /\ config.reset.month \in Months
                      /\ DaysIn(config.reset.month) \in Int
                      /\ config.reset.day \in 1..DaysIn(config.reset.month)
    OBVIOUS
  <2>1. PICK n \in Months : config.reset \in [month : {n}, day : 1..DaysIn(n), unit : 0..(DayLength - 1)]
    BY DEF FixedOffset, Resets
  <2> QED  BY <2>1, MonthLengths
<1>12. instants \subseteq Int
  OBVIOUS
<1> HIDE DEF instants
<1>13. Covered(config, instants, from, to)
  BY <1>1, <1>9, <1>10, <1>11, <1>12 DEF Covered
<1> QED  BY <1>12, <1>13

\* A timezone that keeps its offset has its months in order, whatever their lengths and
\* the anchor are, as far as the calendar reaches (accounting_period, anchored_datetime).
THEOREM FixedOffsetsAreAnnounced ==
  ASSUME Horizon, Len(MonthDays) >= 2, NEW from \in Int, LastInstant \in Int, from <= LastInstant,
         NEW schedules,
         \A s \in schedules :
           /\ FixedOffset(s)
           /\ MonthStart[1] <= from + s.timezone.offset
           /\ LastInstant + s.timezone.offset < MonthStart[Len(MonthDays) - 1]
  PROVE  CalendarInit(from, schedules) /\ [][Passes]_calendarVars => ResetWhenAnnounced
<1>1. \A s \in schedules : \E instants \in SUBSET Int : Covered(s, instants, from, LastInstant)
  BY FixedCovered
<1> QED  BY <1>1, ResetsAreAnnounced
===============================================================================
