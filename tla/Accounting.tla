------------------------------ MODULE Accounting ------------------------------
(***************************************************************************)
(* Traffic accounting: the kernel's interface counters, the persisted      *)
(* TrafficState and the sbctl processes that write or read it.  A reset    *)
(* reads the clock and the counters before it takes the operation lock, a  *)
(* correction reads the counters under it, a report takes no lock at all.  *)
(*                                                                         *)
(* Periods are numbered in the order of their beginnings; bytes come in    *)
(* units.  The ghost fields of a state relate it to an odometer that never *)
(* restarts.                                                               *)
(***************************************************************************)
EXTENDS Integers

CONSTANTS
  Procs,        \* concurrently running processes
  OpsOf,        \* the operations each of them may run
  Timer,        \* the process sbctl-accounting-reset.timer starts every minute
  Ifaces,       \* network interfaces
  Targets,      \* values an administrator may set
  None,         \* no accounting state yet
  MaxBytes,     \* the largest byte count (u64::MAX)
  \* bounds
  MaxTraffic,          \* bytes an interface carries
  MaxPeriods,          \* period changes
  MaxBreaks,           \* reboots and counter rollbacks
  MaxReconfigurations, \* interface changes
  MaxCorrections       \* corrections begun

OpKinds == {"reset", "total", "directions", "report"}
Dirs    == {"rx", "tx"}
Bytes   == 0..MaxBytes

ASSUME AccountingAssumption ==
  /\ Timer \in Procs
  /\ OpsOf \in [Procs -> SUBSET OpKinds]
  /\ None \notin [key : Nat, iface : Ifaces, base : [Dirs -> Nat],
                  acc : [Dirs -> Nat], boot : Nat, adjustment : Int,
                  based : [Dirs -> Nat], origin : [Dirs -> Int],
                  total : Int, breaks : Nat, late : BOOLEAN]
  /\ MaxBytes \in Nat
  /\ Targets \subseteq Bytes
  /\ {MaxTraffic, MaxPeriods, MaxBreaks, MaxReconfigurations, MaxCorrections} \subseteq Nat

VARIABLES
  \* the host
  period,    \* the accounting period the clock is in
  iface,     \* config.interface
  boot,      \* boot_id
  counter,   \* rx_bytes and tx_bytes of every interface
  \* var/lib/sbctl/state.json
  state,
  \* the processes
  pc,
  job,       \* what a running process works with
  \* history and bounds
  overtaken, \* resets that measured before another writer set the baseline they will meet
  odometer,  \* bytes every interface ever carried
  breaks,    \* reboots and counter rollbacks so far
  changes, corrections

host  == <<period, iface, boot, counter, odometer, breaks, changes>>
vars  == <<host, state, pc, job, overtaken, corrections>>

Counts == [Dirs -> Nat]

Measurements == [boot : Nat, count : Counts, odometer : Counts, breaks : Nat]

\* A TrafficState; adjustment is the sum of its total-only corrections.  Ghost:
\* the odometer when its baseline was measured ("based") and when its reported
\* usage would have been zero ("origin", and "total" for the corrected total),
\* the number of counter breaks at that time, and whether an overtaken reset has
\* accumulated into it.
States == [key : Nat, iface : Ifaces, base : Counts, acc : Counts, boot : Nat,
           adjustment : Int, based : Counts, origin : [Dirs -> Int],
           total : Int, breaks : Nat, late : BOOLEAN]

\* A process: the period and the interface it loaded, the counters a reset read
\* and the state a correction is about to write or a report has read.
Jobs == [op : OpKinds, key : Nat, iface : Ifaces, measured : Measurements \cup {None},
         plan : States \cup {None}]

-------------------------------------------------------------------------------
(* TrafficState *)

Sum(f) == f["rx"] + f["tx"]

\* saturating_add on u64
Cap(n) == IF n > MaxBytes THEN MaxBytes ELSE n

Measure(i) == [boot |-> boot, count |-> counter[i], odometer |-> odometer[i],
               breaks |-> breaks]

\* TrafficState::new
NewState(key, i, m) ==
  [key |-> key, iface |-> i, base |-> m.count, acc |-> [d \in Dirs |-> 0],
   boot |-> m.boot, adjustment |-> 0, based |-> m.odometer, origin |-> m.odometer,
   total |-> Sum(m.odometer), breaks |-> m.breaks, late |-> FALSE]

\* Mutant: a counter that went back is subtracted like any other.
DeltaUnguarded(s, m, d) == m.count[d] - s.base[d]

\* What a direction moved since the baseline: nothing after a reboot or when its
\* counter went back.
Delta(s, m, d) ==
  IF s.boot = m.boot /\ m.count[d] >= s.base[d] THEN m.count[d] - s.base[d] ELSE 0

\* Mutant: a read reports what is stored, without the traffic since.
LiveStored(s, m) == s.acc

Live(s, m) == [d \in Dirs |-> Cap(s.acc[d] + Delta(s, m, d))]

\* Mutant: the delta is added but the baseline stays.
AccumulateKeepsBaseline(s, m) == [s EXCEPT !.acc = Live(s, m), !.boot = m.boot]

Accumulate(s, m) ==
  [s EXCEPT !.acc = Live(s, m), !.base = m.count, !.boot = m.boot,
            !.based = m.odometer]

\* corrected_total: signed adjustment, clamped to a byte count.
CorrectedTotal(f, adjustment) ==
  IF Sum(f) + adjustment < 0 THEN 0 ELSE Cap(Sum(f) + adjustment)

\* Mutant: the offset is to what the state holds, not to what a report shows.
TotalCorrectionOfStored(s, m, t) ==
  [s EXCEPT !.adjustment = t - Sum(s.acc), !.total = Sum(m.odometer) - t]

\* A total-only correction appends the offset to the adjustments there are.
TotalCorrection(s, m, t) ==
  LET offset == (t - Sum(Live(s, m))) - s.adjustment
  IN  [s EXCEPT !.adjustment = @ + offset, !.total = Sum(m.odometer) - t]

\* Mutant: the corrected directions keep the baseline of before.
DirectionCorrectionKeepsBaseline(s, m, f) ==
  [s EXCEPT !.acc = f, !.boot = m.boot, !.breaks = m.breaks,
            !.origin = [d \in Dirs |-> m.odometer[d] - f[d]],
            !.total  = Sum(m.odometer) - (Sum(f) + s.adjustment)]

\* A correction of both directions starts again from the measured counters.
DirectionCorrection(s, m, f) ==
  [s EXCEPT !.acc = f, !.base = m.count, !.boot = m.boot,
            !.based  = m.odometer,
            !.origin = [d \in Dirs |-> m.odometer[d] - f[d]],
            !.total  = Sum(m.odometer) - (Sum(f) + s.adjustment),
            !.breaks = m.breaks, !.late = FALSE]

\* A state of the period and the interface a process works with; set_used and report
\* refuse any other.
Current(p) == state # None /\ state.key = job[p].key /\ state.iface = job[p].iface

Accumulated(p) ==
  [Accumulate(state, job[p].measured) EXCEPT !.late = @ \/ p \in overtaken]

\* Mutant: a new period does not begin a new state.
ReconciledSamePeriod(p) ==
  IF state # None /\ state.iface = job[p].iface THEN Accumulated(p)
  ELSE NewState(job[p].key, job[p].iface, job[p].measured)

\* The body of the accounting reset task.
Reconciled(p) ==
  IF Current(p) THEN Accumulated(p)
  ELSE NewState(job[p].key, job[p].iface, job[p].measured)

-------------------------------------------------------------------------------
Init ==
  /\ period = 0
  /\ iface \in Ifaces
  /\ boot = 0
  /\ counter = [i \in Ifaces |-> [d \in Dirs |-> 0]]
  /\ odometer = [i \in Ifaces |-> [d \in Dirs |-> 0]]
  /\ breaks = 0
  /\ state = None
  /\ pc = [p \in Procs |-> "idle"]
  /\ job = [p \in Procs |-> None]
  /\ overtaken = {}
  /\ changes = 0
  /\ corrections = 0

Goto(p, label) == pc' = [pc EXCEPT ![p] = label]

Exit(p) == Goto(p, "idle") /\ job' = [job EXCEPT ![p] = None]

\* Only one process at a time is past acquire_operation_lock.
Unlocked == \A p \in Procs : pc[p] # "planned"

\* load config.toml, then the period the clock is in.
Begin(p, o) ==
  /\ pc[p] = "idle"
  /\ o \in OpsOf[p]
  /\ \/ o \in {"reset", "report"} /\ UNCHANGED corrections
     \/ /\ o \in {"total", "directions"}
        /\ corrections < MaxCorrections
        /\ corrections' = corrections + 1
  /\ job' = [job EXCEPT ![p] = [op |-> o, key |-> period, iface |-> iface,
                               measured |-> None, plan |-> None]]
  /\ Goto(p, IF o = "reset" THEN "measure" ELSE "begun")
  /\ UNCHANGED <<host, state, overtaken>>

\* reset: the counters are read before the lock.
ReadCounters(p) ==
  /\ pc[p] = "measure"
  /\ job' = [job EXCEPT ![p].measured = Measure(job[p].iface)]
  /\ Goto(p, "measured")
  /\ UNCHANGED <<host, state, overtaken, corrections>>

\* A reset and a correction of directions set the baseline of the counters; every
\* reading still to be committed is then older than it.
Overtake(p) ==
  overtaken' = (IF state' = state \/ job[p].op = "total" THEN overtaken
                ELSE {q \in Procs : pc[q] = "measured"}) \ {p}

\* DeploymentStore::update_state: lock, read, write by rename, unlock; it may
\* fail instead.
Reset(p) ==
  /\ pc[p] = "measured"
  /\ Unlocked
  /\ state' \in {state, Reconciled(p)}
  /\ Overtake(p)
  /\ Exit(p)
  /\ UNCHANGED <<host, corrections>>

\* set_used: lock, read the state and the counters, plan the new state.  A
\* missing or stale state is an error.
PlanCorrection(p) ==
  LET m == Measure(job[p].iface) IN
  /\ pc[p] = "begun"
  /\ job[p].op \in {"total", "directions"}
  /\ Unlocked
  /\ \/ /\ Current(p)
        /\ \/ /\ job[p].op = "total"
              /\ \E t \in Targets :
                   job' = [job EXCEPT ![p].plan = TotalCorrection(state, m, t)]
           \/ /\ job[p].op = "directions"
              /\ \E f \in [Dirs -> Targets] :
                   /\ Sum(f) <= MaxBytes
                   /\ job' = [job EXCEPT ![p].plan = DirectionCorrection(state, m, f)]
        /\ Goto(p, "planned")
     \/ ~ Current(p) /\ Exit(p)
  /\ UNCHANGED <<host, state, overtaken, corrections>>

\* The planned state replaces the old one, or the write fails; unlock.
WriteCorrection(p) ==
  /\ pc[p] = "planned"
  /\ state' \in {state, job[p].plan}
  /\ Overtake(p)
  /\ Exit(p)
  /\ UNCHANGED <<host, corrections>>

\* report: read the state, then the counters, without the lock.
ReadState(p) ==
  /\ pc[p] = "begun"
  /\ job[p].op = "report"
  /\ \/ /\ Current(p)
        /\ job' = [job EXCEPT ![p].plan = state]
        /\ Goto(p, "seen")
     \/ ~ Current(p) /\ Exit(p)
  /\ UNCHANGED <<host, state, overtaken, corrections>>

Report(p) ==
  /\ pc[p] = "seen"
  /\ Exit(p)
  /\ UNCHANGED <<host, state, overtaken, corrections>>

-------------------------------------------------------------------------------
(* The host *)

Traffic ==
  /\ \E i \in Ifaces, d \in Dirs :
       /\ Sum(odometer[i]) < MaxTraffic
       /\ counter'  = [counter EXCEPT ![i][d] = @ + 1]
       /\ odometer' = [odometer EXCEPT ![i][d] = @ + 1]
  /\ UNCHANGED <<period, iface, boot, state, pc, job, overtaken, breaks, changes, corrections>>

NextPeriod ==
  /\ period < MaxPeriods
  /\ period' = period + 1
  /\ UNCHANGED <<iface, boot, counter, state, pc, job, overtaken, odometer, breaks, changes, corrections>>

\* A configuration commit selects another interface.
Reconfigure ==
  /\ changes < MaxReconfigurations
  /\ changes' = changes + 1
  /\ iface' \in Ifaces \ {iface}
  /\ UNCHANGED <<period, boot, counter, state, pc, job, overtaken, odometer, breaks, corrections>>

\* The counters of one interface start again from zero without a reboot.
Rollback ==
  /\ breaks < MaxBreaks
  /\ breaks' = breaks + 1
  /\ \E i \in Ifaces : counter' = [counter EXCEPT ![i] = [d \in Dirs |-> 0]]
  /\ UNCHANGED <<period, iface, boot, state, pc, job, overtaken, odometer, changes, corrections>>

\* A reboot ends every process with the boot.
Reboot ==
  /\ breaks < MaxBreaks
  /\ breaks' = breaks + 1
  /\ boot' = boot + 1
  /\ counter' = [i \in Ifaces |-> [d \in Dirs |-> 0]]
  /\ pc' = [p \in Procs |-> "idle"]
  /\ job' = [p \in Procs |-> None]
  /\ overtaken' = {}
  /\ UNCHANGED <<period, iface, state, odometer, changes, corrections>>

-------------------------------------------------------------------------------
Process(p) ==
  \/ \E o \in OpKinds : Begin(p, o)
  \/ ReadCounters(p) \/ Reset(p)
  \/ PlanCorrection(p) \/ WriteCorrection(p)
  \/ ReadState(p) \/ Report(p)

Host == Traffic \/ NextPeriod \/ Reconfigure \/ Rollback \/ Reboot

Next == (\E p \in Procs : Process(p)) \/ Host

Spec == Init /\ [][Next]_vars

-------------------------------------------------------------------------------
(* Properties *)

TypeOK ==
  /\ period \in Nat
  /\ iface \in Ifaces
  /\ boot \in Nat
  /\ counter \in [Ifaces -> Counts]
  /\ odometer \in [Ifaces -> Counts]
  /\ state \in States \cup {None}
  /\ pc \in [Procs -> {"idle", "measure", "measured", "begun", "planned", "seen"}]
  /\ job \in [Procs -> Jobs \cup {None}]
  /\ overtaken \subseteq Procs
  /\ breaks \in Nat
  /\ changes \in Nat
  /\ corrections \in Nat

\* The states a report may be computed from: the persisted one, and those a
\* report has read and a newer one may have replaced since.
Reportable == ({state} \cup {job[p].plan : p \in {q \in Procs : pc[q] = "seen"}}) \ {None}

Overcounts(s) ==
  \E d \in Dirs :
    Live(s, Measure(s.iface))[d] > odometer[s.iface][d] - s.origin[d]

\* No byte is counted twice: whatever reboots, counter rollbacks and stale reads
\* happened, no direction is reported above the corrected value plus what the
\* interface really carried since.  A state into which a reset accumulated counters
\* it had read before another writer set the baseline is the exception, until the
\* directions are corrected again or a new period or interface begins
\* (reset_with_runtime, accumulate, live_reported).
NeverOvercounted == \A s \in Reportable : ~ s.late => ~ Overcounts(s)

\* The lock serializes a reset and a correction: later deltas accumulate on top of the
\* corrected directions (set_used_with_runtime).
CorrectionsSerialized == \A s \in Reportable : ~ Overcounts(s)

\* No byte is lost either while the counters ran on, with the same exception.
NothingLost ==
  \A s \in Reportable, d \in Dirs :
    s.breaks = breaks /\ ~ s.late =>
      Live(s, Measure(s.iface))[d] = Cap(odometer[s.iface][d] - s.origin[d])

\* Later traffic accumulates from the corrected total: the reported total is the
\* value set by the last correction plus what was carried since, with the same
\* exception (plan_correction, corrected_total).
TotalFollowsCorrection ==
  \A s \in Reportable :
    LET live == Live(s, Measure(s.iface))
        due  == Sum(odometer[s.iface]) - s.total
    IN  (s.breaks = breaks /\ ~ s.late /\ \A d \in Dirs : live[d] < MaxBytes) =>
          CorrectedTotal(live, s.adjustment) = IF due < 0 THEN 0 ELSE Cap(due)

-------------------------------------------------------------------------------
(* Liveness: the timer starts the reset task again every minute *)

\* A write that succeeds; the disk is not full forever.
ResetWrites(p) ==
  Reset(p) /\ state' = Reconciled(p)

\* The kernel hands the lock to every waiter in the end.
Fairness ==
  /\ WF_vars(Begin(Timer, "reset"))
  /\ WF_vars(ReadCounters(Timer))
  /\ SF_vars(ResetWrites(Timer))
  /\ \A p \in Procs : WF_vars(WriteCorrection(p))

FairSpec == Spec /\ Fairness

\* However often the period and the interface change, the task establishes the
\* state of the current ones in the end, so reports and corrections work again.
StateBecomesCurrent ==
  <>[](state # None /\ state.key = period /\ state.iface = iface)
=============================================================================
