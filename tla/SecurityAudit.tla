---------------------------- MODULE SecurityAudit ----------------------------
(***************************************************************************)
(* Audits of the fleet: the daily one, those of administrators, and the    *)
(* pages about their results (services/scheduled_audit.py,                 *)
(* services/security_audit_persistence.py, api/routes_security.py).        *)
(*                                                                         *)
(* A fleet audit writes a batch, one run per device, and closes the batch; *)
(* each is a transaction of its own, the device answers in between, and    *)
(* any number of audits overlap: the scheduler's, in its thread, and those *)
(* of requests.  A run that has completed holds what the configuration it  *)
(* read is worth; the pages show, of each device, the completed run that   *)
(* started last.                                                           *)
(***************************************************************************)
EXTENDS SecurityChecks, Sequences

CONSTANTS
  Fleet,             \* the devices, numbered in the order of their names
  Postures,          \* names of configurations
  Contents,          \* what each of them says
  Framework,         \* one compliance mapping: the checks behind each control
  Scheduler, Requests, Nothing,
  MaxRequests, MaxAuditTroubles, MaxClock    \* bounds; a trouble is a change, a silent device or a crash

ASSUME PosturesAssumption == DOMAIN Contents = Postures
\* No port is called what stands for no port, where a finding is about the device itself.
ASSUME ContentsAssumption == \A c \in Postures : IsFiniteSet(DOMAIN Contents[c].ports) /\ Device \notin DOMAIN Contents[c].ports
ASSUME FleetAssumption == Fleet \subseteq Nat /\ IsFiniteSet(Fleet)
ASSUME NothingAssumption == Nothing \notin Postures /\ Nothing \notin Fleet
ASSUME AuditBoundsAssumption == {MaxRequests, MaxAuditTroubles, MaxClock} \subseteq Nat

VARIABLES
  inFleet, enabled,  \* the network_devices rows, and those that may be audited
  posture,           \* the configuration of each device
  changedAt,         \* history: how many runs there were when it was last changed
  runs,              \* the security_audit_runs rows, in the order they started
  reports,           \* the security_audit_batches rows
  worker,            \* what the scheduler and each request are doing
  schedule,          \* whether the daily audit is on, and last_run_at
  clock,             \* half days: the daily hour has come in the odd ones
  auditBudget        \* how often each bound was used

auditVars == << inFleet, enabled, posture, changedAt, runs, reports, worker, schedule, clock, auditBudget >>

\* What a run stores about the configuration it read.
AuditOf == [c \in Postures |-> run_device_audit(Contents[c], Framework)]
\* ... counted by weight and status.
FailingAt == [w \in Weights |-> [c \in Postures |-> Cardinality({ f \in AuditOf[c].findings : f.status = "fail" /\ f.weight = w })]]
Said == [s \in {"fail", "manual_review"} |-> [c \in Postures |-> Cardinality({ f \in AuditOf[c].findings : f.status = s })]]

Workers == {Scheduler} \cup Requests
Resting == [at |-> "resting", kind |-> "none", selected |-> {}, todo |-> {}, report |-> 0, run |-> 0,
            about |-> Nothing, got |-> Nothing, ok |-> 0, bad |-> 0, begun |-> 0]
Day(t) == t \div 2

AuditTypes ==
  /\ inFleet \subseteq Fleet /\ enabled \subseteq Fleet /\ posture \in [Fleet -> Postures]
  /\ changedAt \in [Fleet -> 0 .. Len(runs)]
  /\ \A i \in DOMAIN runs :
       runs[i] \in [device : Fleet \cup {Nothing}, source : {"scheduled", "live", "upload"}, report : 0 .. Len(reports),
                    status : {"running", "completed", "failed"}, read : Postures \cup {Nothing}]
  /\ \A i \in DOMAIN reports :
       reports[i] \in [number : Nat, status : {"running", "completed", "failed", "partial"}, total : Nat,
                       ok : Nat, bad : Nat, selected : SUBSET Fleet, begun : Nat, kind : {"daily", "now", "bulk"}]
  /\ worker \in [Workers -> [at : {"resting", "numbered", "next", "asked", "judging", "marking"},
                             kind : {"none", "daily", "now", "bulk", "live", "upload"}, selected : SUBSET Fleet,
                             todo : SUBSET Fleet, report : Nat, run : 0 .. Len(runs),
                             about : Fleet \cup {Nothing}, got : Postures \cup {Nothing}, ok : Nat, bad : Nat, begun : Nat]]
  /\ schedule \in [on : BOOLEAN, last : 0 .. clock] /\ clock \in Nat
  /\ auditBudget \in [requests : Nat, troubles : Nat, crashes : Nat]

\* The platform was installed the day before.
AuditInit ==
  /\ inFleet = Fleet /\ enabled = Fleet
  /\ \E c \in Postures : posture = [d \in Fleet |-> c]
  /\ changedAt = [d \in Fleet |-> 0]
  /\ runs = <<>> /\ reports = <<>>
  /\ worker = [w \in Workers |-> Resting]
  /\ schedule = [on |-> TRUE, last |-> 0] /\ clock = 2
  /\ auditBudget = [requests |-> 0, troubles |-> 0, crashes |-> 0]

Trouble(crashes) ==
  /\ auditBudget.troubles < MaxAuditTroubles
  /\ auditBudget' = [auditBudget EXCEPT !.troubles = @ + 1, !.crashes = @ + crashes]
Becomes(w, next) == worker' = [worker EXCEPT ![w] = next]

-----------------------------------------------------------------------------
(* The audit of a fleet.                                                   *)

_next_batch_display_number == Max({0} \cup { reports[i].number : i \in DOMAIN reports }) + 1

\* The devices are selected and the number is read; the batch is inserted afterwards.
run_scheduled_audit(w, kind, devices) ==
  Becomes(w, [Resting EXCEPT !.at = "numbered", !.kind = kind, !.selected = inFleet \cap enabled \cap devices,
                             !.todo = inFleet \cap enabled \cap devices, !.report = _next_batch_display_number,
                             !.begun = clock])

should_run_now(last, now) == now % 2 = 1 /\ Day(last) # Day(now)

_poll_once ==
  /\ worker[Scheduler].at = "resting" /\ schedule.on /\ should_run_now(schedule.last, clock)
  /\ run_scheduled_audit(Scheduler, "daily", Fleet)
  /\ UNCHANGED << inFleet, enabled, posture, changedAt, runs, reports, schedule, clock, auditBudget >>

Accepts(w) == /\ w \in Requests /\ worker[w].at = "resting" /\ auditBudget.requests < MaxRequests
              /\ auditBudget' = [auditBudget EXCEPT !.requests = @ + 1]

run_schedule_now(w) ==
  /\ Accepts(w) /\ run_scheduled_audit(w, "now", Fleet)
  /\ UNCHANGED << inFleet, enabled, posture, changedAt, runs, reports, schedule, clock >>

run_bulk_audit(w) ==
  /\ Accepts(w) /\ \E devices \in (SUBSET Fleet) \ {{}} : run_scheduled_audit(w, "bulk", devices)
  /\ UNCHANGED << inFleet, enabled, posture, changedAt, runs, reports, schedule, clock >>

\* Display numbers are unique: the second of two equal ones fails, and its audit with it.
InsertReport(w) ==
  LET me == worker[w] IN
  /\ me.at = "numbered"
  /\ IF \E i \in DOMAIN reports : reports[i].number = me.report
     THEN Becomes(w, Resting) /\ UNCHANGED reports
     ELSE /\ reports' = Append(reports, [number |-> me.report, status |-> "running", total |-> Cardinality(me.selected),
                                         ok |-> 0, bad |-> 0, selected |-> me.selected, begun |-> me.begun, kind |-> me.kind])
          /\ Becomes(w, [me EXCEPT !.at = "next", !.report = Len(reports) + 1])
  /\ UNCHANGED << inFleet, enabled, posture, changedAt, runs, schedule, clock, auditBudget >>

_create_running_audit_row(device, source, report) ==
  runs' = Append(runs, [device |-> device, source |-> source, report |-> report, status |-> "running", read |-> Nothing])

\* The devices were read from the database before; one that is no longer there ends the whole audit,
\* and leaves its batch "running".
StartRun(w) ==
  LET me == worker[w] IN
  /\ me.at = "next"
  /\ me.todo # {}
  /\ LET d == Min(me.todo) IN
       IF d \notin inFleet THEN Becomes(w, Resting) /\ UNCHANGED runs
       ELSE /\ _create_running_audit_row(d, "scheduled", me.report)
            /\ Becomes(w, [me EXCEPT !.at = "asked", !.run = Len(runs) + 1, !.about = d, !.todo = @ \ {d}])
  /\ UNCHANGED << inFleet, enabled, posture, changedAt, reports, schedule, clock, auditBudget >>

\* A fleet audit goes on with the next device, any other one is over.
AfterRun(me, ok, bad) ==
  IF me.report = 0 THEN Resting
  ELSE [me EXCEPT !.at = "next", !.run = 0, !.about = Nothing, !.got = Nothing, !.ok = @ + ok, !.bad = @ + bad]

\* The device whose configuration is being asked for or judged was removed.
Gone(w) == worker[w].about \notin inFleet \cup {Nothing}

ReadConfig(w) ==
  LET me == worker[w] IN
  /\ me.at = "asked" /\ ~Gone(w)
  /\ Becomes(w, [me EXCEPT !.at = "judging", !.got = posture[me.about]])
  /\ UNCHANGED << inFleet, enabled, posture, changedAt, runs, reports, schedule, clock, auditBudget >>

\* The device does not answer: its run fails and the next one is tried.
RunFails(w) ==
  LET me == worker[w] IN
  /\ me.at = "asked" /\ ~Gone(w) /\ Trouble(0)
  /\ runs' = [runs EXCEPT ![me.run].status = "failed"]
  /\ Becomes(w, AfterRun(me, 0, 1))
  /\ UNCHANGED << inFleet, enabled, posture, changedAt, reports, schedule, clock >>

\* The device was removed while it was waited for: a fleet audit fails that run, and then itself
\* when it asks for the name of the device; a request leaves the run "running".
DeviceGone(w) ==
  LET me == worker[w] IN
  /\ me.at = "asked" /\ Gone(w)
  /\ runs' = IF me.report = 0 THEN runs ELSE [runs EXCEPT ![me.run].status = "failed"]
  /\ Becomes(w, Resting)
  /\ UNCHANGED << inFleet, enabled, posture, changedAt, reports, schedule, clock, auditBudget >>

\* The findings refer to the device the run was started for: they cannot be stored when it is gone, and
\* neither can the failure, in a transaction that has failed.
persist_audit_result(w) ==
  LET me == worker[w] IN
  /\ me.at = "judging"
  /\ IF ~Gone(w)
     THEN /\ runs' = [runs EXCEPT ![me.run].status = "completed", ![me.run].read = me.got]
          /\ Becomes(w, AfterRun(me, 1, 0))
     ELSE Becomes(w, Resting) /\ UNCHANGED runs
  /\ UNCHANGED << inFleet, enabled, posture, changedAt, reports, schedule, clock, auditBudget >>

\* Bug: an audit that got anything is complete.
BugAnyMakesCompleted(total, ok) == IF total = 0 \/ ok > 0 THEN "completed" ELSE "failed"
ScheduledAuditResult(total, ok) ==
  CASE total = 0 \/ ok = total -> "completed"
    [] ok = 0 /\ total > 0 -> "failed"
    [] OTHER -> "partial"

CloseReport(w) ==
  LET me == worker[w] IN
  /\ me.at = "next" /\ me.todo = {}
  /\ reports' = [reports EXCEPT ![me.report].status = ScheduledAuditResult(Cardinality(me.selected), me.ok),
                                ![me.report].ok = me.ok, ![me.report].bad = me.bad]
  /\ Becomes(w, IF me.kind = "bulk" THEN Resting ELSE [me EXCEPT !.at = "marking"])
  /\ UNCHANGED << inFleet, enabled, posture, changedAt, runs, schedule, clock, auditBudget >>

\* last_run_at is written after everything else, in a transaction of its own.
MarkDay(w) ==
  /\ worker[w].at = "marking"
  /\ schedule' = [schedule EXCEPT !.last = clock]
  /\ Becomes(w, Resting)
  /\ UNCHANGED << inFleet, enabled, posture, changedAt, runs, reports, clock, auditBudget >>

-----------------------------------------------------------------------------
(* Audits of one device.                                                   *)

audit_live_device(w) ==
  /\ Accepts(w)
  /\ \E d \in inFleet :
       /\ _create_running_audit_row(d, "live", 0)
       /\ Becomes(w, [Resting EXCEPT !.at = "asked", !.kind = "live", !.run = Len(runs) + 1, !.about = d])
  /\ UNCHANGED << inFleet, enabled, posture, changedAt, reports, schedule, clock >>

\* Any text, about a device or none: nothing says that it is the device's.
audit_uploaded_config(w) ==
  /\ Accepts(w)
  /\ \E d \in inFleet \cup {Nothing}, c \in Postures :
       /\ _create_running_audit_row(d, "upload", 0)
       /\ Becomes(w, [Resting EXCEPT !.at = "judging", !.kind = "upload", !.run = Len(runs) + 1, !.about = d,
                                     !.got = c])
  /\ UNCHANGED << inFleet, enabled, posture, changedAt, reports, schedule, clock >>

-----------------------------------------------------------------------------
(* Everything else that happens.                                           *)

Reconfigure ==
  /\ Trouble(0)
  /\ \E d \in Fleet, c \in Postures : /\ posture[d] # c /\ posture' = [posture EXCEPT ![d] = c]
                                      /\ changedAt' = [changedAt EXCEPT ![d] = Len(runs)]
  /\ UNCHANGED << inFleet, enabled, runs, reports, worker, schedule, clock >>

\* The runs of a device that is removed stay, without it.
DeviceRemoved ==
  /\ Trouble(0)
  /\ \E d \in inFleet : /\ inFleet' = inFleet \ {d}
                        /\ runs' = [i \in DOMAIN runs |-> IF runs[i].device = d THEN [runs[i] EXCEPT !.device = Nothing]
                                                                               ELSE runs[i]]
  /\ UNCHANGED << enabled, posture, changedAt, reports, worker, schedule, clock >>

DeviceDisabled ==
  /\ Trouble(0)
  /\ \E d \in inFleet \cap enabled : enabled' = enabled \ {d}
  /\ UNCHANGED << inFleet, posture, changedAt, runs, reports, worker, schedule, clock >>

update_schedule_settings ==
  /\ Trouble(0)
  /\ schedule' = [schedule EXCEPT !.on = ~@]
  /\ UNCHANGED << inFleet, enabled, posture, changedAt, runs, reports, worker, clock >>

AuditCrash ==
  /\ Trouble(1)
  /\ \E w \in Workers : worker[w].at # "resting"
  /\ worker' = [w \in Workers |-> Resting]
  /\ UNCHANGED << inFleet, enabled, posture, changedAt, runs, reports, schedule, clock >>

TimePasses ==
  /\ clock < MaxClock /\ clock' = clock + 1
  /\ UNCHANGED << inFleet, enabled, posture, changedAt, runs, reports, worker, schedule, auditBudget >>

AuditWork(w) ==
  \/ InsertReport(w) \/ StartRun(w) \/ ReadConfig(w) \/ DeviceGone(w) \/ persist_audit_result(w)
  \/ CloseReport(w) \/ MarkDay(w)

AuditNext ==
  \/ _poll_once
  \/ \E w \in Workers : \/ AuditWork(w) \/ RunFails(w) \/ run_schedule_now(w) \/ run_bulk_audit(w)
                        \/ audit_live_device(w) \/ audit_uploaded_config(w)
  \/ Reconfigure \/ DeviceRemoved \/ DeviceDisabled \/ update_schedule_settings \/ AuditCrash \/ TimePasses

\* The scheduler polls for as long as the process lives, and every step of an audit has a timeout.
AuditFairness == WF_auditVars(_poll_once) /\ \A w \in Workers : WF_auditVars(AuditWork(w))

AuditSpec == AuditInit /\ [][AuditNext]_auditVars /\ AuditFairness

-----------------------------------------------------------------------------
(* The pages.                                                              *)

\* Of the completed runs of each device, the one that started last.
CompletedOf(d) == { i \in DOMAIN runs : runs[i].device = d /\ runs[i].status = "completed" }
\* Bug: the runs are read oldest first.
BugOldestRuns ==
  [d \in { runs[i].device : i \in { j \in DOMAIN runs : runs[j].status = "completed" } } \ {Nothing} |-> Min(CompletedOf(d))]
_latest_completed_runs_by_device ==
  [d \in { runs[i].device : i \in { j \in DOMAIN runs : runs[j].status = "completed" } } \ {Nothing} |-> Max(CompletedOf(d))]

Shown == _latest_completed_runs_by_device
Total(count) == LET shown == Shown IN MapThenSumSet(LAMBDA d : count[runs[shown[d]].read], DOMAIN shown)

\* Failures that weigh nothing are not counted here, and are on the dashboard.
security_overview ==
  [audited |-> Cardinality(DOMAIN Shown),
   failing |-> [w \in Weights \ {INFO} |-> Total(FailingAt[w])],
   manual |-> Total(Said["manual_review"])]

list_fleet_findings ==
  UNION { { [device |-> d, finding |-> f] : f \in AuditOf[runs[Shown[d]].read].findings } : d \in DOMAIN Shown }

ScoreOf(i) == AuditOf[runs[i].read].score
list_security_devices == [d \in inFleet |-> IF d \in DOMAIN Shown THEN {ScoreOf(Shown[d])} ELSE {}]

\* A control as a row of each device's audit says, and one control over all devices.
Rows(control) == { d \in DOMAIN Shown : control \in DOMAIN AuditOf[runs[Shown[d]].read].controls }
Saying(control, status) == { d \in Rows(control) : AuditOf[runs[Shown[d]].read].controls[control] = status }
Worst(statuses) ==
  CASE "fail" \in statuses -> "fail"
    [] statuses \cap {"fail", "manual_review"} = {"manual_review"} -> "manual_review"
    [] statuses \cap {"fail", "manual_review", "pass"} = {"pass"} -> "pass"
    [] OTHER -> "na"
FleetStatus(control) == Worst({ AuditOf[runs[Shown[d]].read].controls[control] : d \in Rows(control) })

get_compliance_overview == [x \in { y \in DOMAIN Framework : Rows(y) # {} } |-> FleetStatus(x)]

\* The findings behind each control, whatever row was stored.
Behind == [c \in Postures |-> [x \in DOMAIN Framework |-> { f.status : f \in { h \in AuditOf[c].findings : h.check \in Framework[x] } }]]
get_compliance_control_detail(control) ==
  [status |-> FleetStatus(control), findings |-> [d \in DOMAIN Shown |-> Behind[runs[Shown[d]].read][control]]]

\* Percentages count rows here and controls on the compliance page.
get_security_dashboard ==
  [failed |-> Total(Said["fail"]), manual |-> Total(Said["manual_review"]),
   severities |-> [w \in Weights |-> Total(FailingAt[w])],
   previous |-> [d \in { e \in DOMAIN Shown : Cardinality(CompletedOf(e)) > 1 } |-> ScoreOf(Max(CompletedOf(d) \ {Shown[d]}))],
   passed |-> [x \in DOMAIN Framework |-> Cardinality(Saying(x, "pass"))],
   heatmap |-> [d \in DOMAIN Shown |-> AuditOf[runs[Shown[d]].read].domains]]

\* The change since the run before, of the same device or, like it, of none any more.
list_security_activity ==
  [i \in { j \in DOMAIN runs : runs[j].status = "completed" } |->
     LET earlier == { j \in 1 .. i - 1 : runs[j].status = "completed" /\ runs[j].device = runs[i].device }
     IN IF earlier = {} THEN {} ELSE {ScoreOf(i) - ScoreOf(Max(earlier))}]

Key(f) == <<f.check, f.at>>
FailingOf == [c \in Postures |-> { Key(f) : f \in { h \in AuditOf[c].findings : h.status = "fail" } }]
FailingCount == [c \in Postures |-> Cardinality(FailingOf[c])]
compare_audits(from, to) ==
  LET old == FailingOf[runs[from].read]
      new == FailingOf[runs[to].read]
  IN [new |-> new \ old, resolved |-> old \ new, persistent |-> new \cap old, delta |-> ScoreOf(to) - ScoreOf(from)]

RunsOf(n) == { i \in DOMAIN runs : runs[i].report = n }
get_audit_batch_summary(n) ==
  [failing |-> MapThenSumSet(LAMBDA i : Cardinality(FailingOf[runs[i].read]), { i \in RunsOf(n) : runs[i].status = "completed" }),
   devices |-> [i \in RunsOf(n) |-> runs[i].status]]

-----------------------------------------------------------------------------
\* What a closed batch says is so: each of its devices was audited once, as many runs completed and
\* failed as it counts, its status follows from them, and its number is its own.  The scheduler closes
\* one batch a day, and another one only when the process died before the day was written down.
BatchesTellTheTruth ==
  /\ \A i, j \in DOMAIN reports : reports[i].number = reports[j].number => i = j
  /\ \A i \in DOMAIN reports : reports[i].status # "running" =>
       LET r == reports[i]
           page == get_audit_batch_summary(i).devices
           with(status) == Cardinality({ k \in DOMAIN page : page[k] = status }) IN
       /\ with("completed") = r.ok /\ with("failed") = r.bad /\ with("running") = 0
       /\ r.ok + r.bad = r.total /\ r.total = Cardinality(r.selected)
       /\ \A k, l \in DOMAIN page : k # l /\ runs[k].device # Nothing => runs[k].device # runs[l].device
       /\ \A k \in DOMAIN page : runs[k].device \in r.selected \cup {Nothing}
       /\ (r.status = "completed") = (r.bad = 0)
       /\ (r.status = "failed") = (r.ok = 0 /\ r.total > 0)
  /\ \A day \in 1 .. Day(clock) :
       Cardinality({ i \in DOMAIN reports : reports[i].kind = "daily" /\ reports[i].status # "running"
                                            /\ Day(reports[i].begun) = day }) \leq 1 + auditBudget.crashes

\* A problem that was fixed, and audited since, is not shown again whatever finishes late: once an audit
\* that started after the last change of a device has completed, every page shows what the device
\* is now, unless a text was uploaded for it afterwards.  A removed device is on no page.
PostureIsCurrent ==
  /\ DOMAIN Shown \subseteq inFleet
  /\ \A d \in DOMAIN Shown :
       (\E i \in CompletedOf(d) : i > changedAt[d] /\ runs[i].source # "upload")
         => runs[Shown[d]].source = "upload" \/ runs[Shown[d]].read = posture[d]

FindingsAgree(overview, dashboard) ==
  /\ \A w \in Weights \ {INFO} : overview.failing[w] = dashboard.severities[w]
  /\ dashboard.failed = Total(FailingCount)
  /\ dashboard.manual = overview.manual

ControlAgrees(listed_as, detail) ==
  LET statuses == UNION Range(detail.findings) IN
  /\ listed_as = detail.status
  /\ detail.status = "fail" <=> "fail" \in statuses
  /\ detail.status = "pass" => "manual_review" \notin statuses
ControlsAgree(frameworks) ==
  \A x \in DOMAIN frameworks : ControlAgrees(frameworks[x], get_compliance_control_detail(x))

ChangeAgrees(d, previous, change) ==
  /\ list_security_activity[Shown[d]] = {change.delta}
  /\ list_security_devices[d] = {previous + change.delta}
  /\ change.new \cup change.persistent = FailingOf[runs[Shown[d]].read]
ChangesAgree(previous) ==
  \A d \in DOMAIN previous :
    ChangeAgrees(d, previous[d], compare_audits(Max(CompletedOf(d) \ {Shown[d]}), Shown[d]))

\* The pages cannot disagree: those that count findings and the one that lists them; a control fails for
\* the fleet exactly when some failing finding is behind it, and passes only when none is left to
\* review; the comparison of the last two audits of a device is the change in the activity list.
PagesAgree ==
  /\ FindingsAgree(security_overview, get_security_dashboard)
  /\ ControlsAgree(get_compliance_overview)
  /\ ChangesAgree(get_security_dashboard.previous)

\* What the pages of the Security Center say is current, and they say the same.
SecurityPagesAreTrue == PostureIsCurrent /\ PagesAgree

\* Every audit is over, and while the schedule is on, the day is marked as audited, whatever became of the
\* audits that were tried: one that is given up is tried again.
AuditsSettled ==
  /\ \A w \in Workers : worker[w].at = "resting"
  /\ schedule.on /\ clock % 2 = 1 => Day(schedule.last) \geq Day(clock)
=============================================================================
