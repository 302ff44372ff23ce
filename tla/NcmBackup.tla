------------------------------ MODULE NcmBackup ------------------------------
(***************************************************************************)
(* Backing devices up, and what the archive then says of them              *)
(* (services/ncm_backup.py, ncm_archive.py, ncm_scheduler.py,              *)
(* ncm_drift.py and the routes of api/routes_ncm.py that start them).      *)
(*                                                                         *)
(* A backup inserts a job, asks every device for every type of             *)
(* configuration, writes what it got one type after the other, and closes  *)
(* the job.  Administrators start backups by hand; the scheduler polls     *)
(* every five minutes and starts those that are due today.  Both run in    *)
(* threads with a session each, so they overlap.  Devices answer with      *)
(* what they are configured with, which others change.                     *)
(*                                                                         *)
(* The parallel retrieval of one type is one step: two devices share       *)
(* nothing, and each is still asked before, and apart from, its write.     *)
(***************************************************************************)
EXTENDS Naturals, FiniteSets, Sequences, FiniteSetsExt

CONSTANTS
  Devices, Types, Contents,
  Workers,       \* request threads
  Scheduler,     \* the thread of the scheduler
  Schedules,
  Targets,       \* the devices of each schedule
  Manual,        \* what a job says when no schedule started it
  None,
  MaxManual, MaxDays, MaxChanges, MaxFailures, MaxBaselines, MaxMishaps
                 \* bounds of the runs; deletions and crashes are the mishaps

ASSUME TargetsAssumption == Targets \in [Schedules -> SUBSET Devices] /\ Manual \notin Schedules
ASSUME ThreadsAssumption == Scheduler \notin Workers
ASSUME NoneAssumption == None \notin Contents
ASSUME FleetAssumption == IsFiniteSet(Devices) /\ Types # {} /\ Contents # {}
ASSUME BoundsAssumption ==
  {MaxManual, MaxDays, MaxChanges, MaxFailures, MaxBaselines, MaxMishaps} \subseteq Nat /\ MaxDays > 0

VARIABLES
  inventory,   \* the devices there are
  config,      \* what each device is configured with
  archive,     \* the snapshots
  jobs,        \* the backup jobs; a job's display number is its place
  targets,     \* the outcome rows of the jobs
  baseline,    \* the snapshot designated for each device and type; it may be gone
  lastRun,     \* the day of each schedule's last_run_at
  day, passed, \* today, and the schedules whose time has passed today
  pc, task,    \* what each thread is doing
  queue,       \* the due schedules the scheduler has yet to run in this poll
  writes,      \* snapshots are ordered by the write that created them
  contested,   \* history: the devices two backups dealt with at the same time
  thinned,     \* history: the devices a snapshot of which was deleted
  answered,    \* history: the last answer of each device that was written
  spent        \* how often each bound was used

vars == << inventory, config, archive, jobs, targets, baseline, lastRun, day, passed, pc, task,
           queue, writes, contested, thinned, answered, spent >>

Threads == Workers \cup {Scheduler}
Items == Devices \X Types
Snapshot == [item : Items, version : Nat, content : Contents, at : Nat]
ASSUME SnapshotAssumption == None \notin Snapshot
Job == [ by : Schedules \cup {Manual}, day : Nat, devices : SUBSET Devices,
         status : {"running", "completed", "partial_success", "failed"},
         succeeded : Nat, failed : Nat, changed : Nat, ended : Nat ]
Target == [job : Nat, item : Items, ok : BOOLEAN, changed : BOOLEAN]

\* a thread's backup: got and prev are what it holds of the type it is at
Task == [ by : Schedules \cup {Manual}, devices : SUBSET Devices, left : SUBSET Types,
          number : Nat, type : Types \cup {None},
          got : [Devices -> Contents \cup {None}], prev : [Devices -> Snapshot \cup {None}],
          version : [Devices -> Nat],
          failure : SUBSET Devices, success : SUBSET Devices, changed : Nat ]
Nothing == [d \in Devices |-> None]
NoTask == [ by |-> Manual, devices |-> {}, left |-> {}, number |-> 0, type |-> None, got |-> Nothing,
            prev |-> Nothing, version |-> [d \in Devices |-> 0], failure |-> {}, success |-> {}, changed |-> 0 ]

Bounds == [manual : Nat, changes : Nat, failures : Nat, baselines : Nat, deletions : Nat, crashes : Nat]

\* Types; what a job names as its number is its place; every snapshot has its own write.
TypeOK ==
  /\ inventory \subseteq Devices /\ config \in [Items -> Contents]
  /\ archive \subseteq Snapshot /\ \A x \in archive : x.at < writes
  /\ jobs \in Seq(Job) /\ targets \subseteq Target
  /\ baseline \in [Items -> Snapshot \cup {None}]
  /\ lastRun \in [Schedules -> 0 .. MaxDays] /\ day \in 1 .. MaxDays /\ passed \subseteq Schedules
  /\ pc \in [Threads -> {"idle", "number", "insert", "retrieve", "read", "write", "finish", "mark"}]
  /\ task \in [Threads -> Task] /\ queue \subseteq Schedules
  /\ writes \in Nat /\ contested \subseteq Devices /\ thinned \subseteq Devices
  /\ answered \in [Items -> Contents \cup {None}] /\ spent \in Bounds

Init ==
  /\ inventory \in SUBSET Devices /\ archive = {} /\ jobs = <<>> /\ targets = {}
  /\ config = [i \in Items |-> CHOOSE c \in Contents : TRUE]   \* any: contents are only compared
  /\ baseline = [i \in Items |-> None] /\ lastRun = [s \in Schedules |-> 0]
  /\ day = 1 /\ passed = {} /\ queue = {} /\ writes = 0
  /\ pc = [w \in Threads |-> "idle"] /\ task = [w \in Threads |-> NoTask]
  /\ contested = {} /\ thinned = {} /\ answered = [i \in Items |-> None]
  /\ spent = [manual |-> 0, changes |-> 0, failures |-> 0, baselines |-> 0, deletions |-> 0, crashes |-> 0]

-----------------------------------------------------------------------------
\* The archive

SnapshotsOf(i) == {x \in archive : x.item = i}
Versions(i) == {x.version : x \in SnapshotsOf(i)}

_next_version_number(i) == IF Versions(i) = {} THEN 1 ELSE Max(Versions(i)) + 1

\* a highest version; of two that share it the database may return either
latest_configuration(i) ==
  IF SnapshotsOf(i) = {} THEN {None} ELSE {x \in SnapshotsOf(i) : x.version = Max(Versions(i))}

BugSeenEver(t, d) ==
  t.got[d] # None /\ \A x \in archive : x.item = <<d, t.type>> => x.content # t.got[d]

\* what a thread got is archived unless it is what the latest snapshot says
IsNew(t, d) == t.got[d] # None /\ (t.prev[d] = None \/ t.prev[d].content # t.got[d])

-----------------------------------------------------------------------------
\* A backup, in the thread w

Become(w, label, t) == pc' = [pc EXCEPT ![w] = label] /\ task' = [task EXCEPT ![w] = t]
Busy(w) == pc[w] \notin {"idle", "mark"}

Begin(w, by, D) ==
  /\ Become(w, "number", [NoTask EXCEPT !.by = by, !.devices = D, !.left = Types])
  /\ contested' = contested \cup UNION {D \cap task[v].devices : v \in {v \in Threads \ {w} : Busy(v)}}

\* POST /backup
run_backup(w, D) ==
  /\ pc[w] = "idle" /\ w # Scheduler /\ spent.manual < MaxManual
  /\ D # {} /\ D \subseteq inventory
  /\ Begin(w, Manual, D)
  /\ spent' = [spent EXCEPT !.manual = @ + 1]
  /\ UNCHANGED << inventory, config, archive, jobs, targets, baseline, lastRun, day, passed, queue,
                  writes, thinned, answered >>

_next_job_number(w) ==
  /\ pc[w] = "number"
  /\ Become(w, "insert", [task[w] EXCEPT !.number = Len(jobs) + 1])
  /\ UNCHANGED << inventory, config, archive, jobs, targets, baseline, lastRun, day, passed, queue,
                  writes, contested, thinned, answered, spent >>

\* An exception.  A request is answered 500.  The scheduler's session is unusable until
\* it is rolled back, so nothing is marked; the loop logs it and polls again.
Raise(w) ==
  /\ Become(w, "idle", NoTask)
  /\ queue' = IF w = Scheduler THEN {} ELSE queue
  /\ UNCHANGED << inventory, config, archive, jobs, targets, baseline, lastRun, day, passed,
                  writes, contested, thinned, answered, spent >>

\* display numbers are unique
NumberTaken(w) == pc[w] = "insert" /\ task[w].number # Len(jobs) + 1 /\ Raise(w)

InsertJob(w) ==
  /\ pc[w] = "insert" /\ task[w].number = Len(jobs) + 1
  /\ jobs' = Append(jobs, [ by |-> task[w].by, day |-> day, devices |-> task[w].devices,
                            status |-> "running", succeeded |-> 0, failed |-> 0, changed |-> 0,
                            ended |-> 0 ])
  /\ Become(w, "retrieve", task[w])
  /\ UNCHANGED << inventory, config, archive, targets, baseline, lastRun, day, passed, queue,
                  writes, contested, thinned, answered, spent >>

\* every device answers or fails, each by itself
_retrieve_one(w) ==
  /\ pc[w] = "retrieve" /\ task[w].left # {}
  /\ \E type \in task[w].left, failing \in SUBSET task[w].devices :
        /\ spent.failures + Cardinality(failing) <= MaxFailures
        /\ spent' = [spent EXCEPT !.failures = @ + Cardinality(failing)]
        /\ Become(w, "read", [task[w] EXCEPT !.type = type, !.left = @ \ {type},
          !.got = [d \in Devices |-> IF d \in task[w].devices \ failing THEN config[<<d, type>>] ELSE None]])
  /\ UNCHANGED << inventory, config, archive, jobs, targets, baseline, lastRun, day, passed, queue,
                  writes, contested, thinned, answered >>

\* the queries of archive_configuration, for one device after the other
ReadLatest(w) ==
  /\ pc[w] = "read"
  /\ LET type == task[w].type IN
     \E prev \in {f \in [Devices -> archive \cup {None}] : \A d \in Devices :
                    f[d] \in IF d \in task[w].devices THEN latest_configuration(<<d, type>>) ELSE {None}} :
        Become(w, "write", [task[w] EXCEPT !.prev = prev,
          !.version = [d \in Devices |-> _next_version_number(<<d, type>>)]])
  /\ UNCHANGED << inventory, config, archive, jobs, targets, baseline, lastRun, day, passed, queue,
                  writes, contested, thinned, answered, spent >>

\* a target names a device, and an unchanged one the snapshot it equals: either may be
\* gone, and then the transaction fails
Writable(w) ==
  /\ task[w].devices \subseteq inventory
  /\ \A d \in task[w].devices : task[w].got[d] # None /\ ~ IsNew(task[w], d) => task[w].prev[d] \in archive

WriteFails(w) == pc[w] = "write" /\ ~ Writable(w) /\ Raise(w)

\* the snapshots and the targets of one type, in one transaction
archive_configuration(w) ==
  LET t == task[w]
      new == {d \in t.devices : IsNew(t, d)}
      answering == {d \in t.devices : t.got[d] # None}
  IN  /\ pc[w] = "write" /\ Writable(w)
      /\ archive' = archive \cup
           {[item |-> <<d, t.type>>, version |-> t.version[d], content |-> t.got[d], at |-> writes]
              : d \in new}
      /\ writes' = IF new = {} THEN writes ELSE writes + 1
      /\ targets' = targets \cup
           {[job |-> t.number, item |-> <<d, t.type>>, ok |-> d \in answering, changed |-> d \in new]
              : d \in t.devices}
      /\ answered' = [i \in Items |->
           IF i[2] = t.type /\ i[1] \in answering THEN t.got[i[1]] ELSE answered[i]]
      /\ Become(w, IF t.left = {} THEN "finish" ELSE "retrieve",
           [t EXCEPT !.type = None, !.got = Nothing, !.prev = Nothing, !.version = NoTask.version,
                     !.success = @ \cup answering, !.failure = @ \cup (t.devices \ answering),
                     !.changed = @ + Cardinality(new)])
      /\ UNCHANGED << inventory, config, jobs, baseline, lastRun, day, passed, queue, contested,
                      thinned, spent >>

BugAnySuccess(t) == Cardinality(t.success)

\* a device failed when any of its types did
Succeeded(t) == Cardinality(t.success \ t.failure)

StatusOf(t) ==
  CASE t.failure = {} -> "completed"
    [] t.failure # {} /\ Succeeded(t) = 0 -> "failed"
    [] t.failure # {} /\ Succeeded(t) # 0 -> "partial_success"

FinishJob(w) ==
  LET t == task[w] IN
  /\ pc[w] = "finish"
  /\ jobs' = [jobs EXCEPT ![t.number].status = StatusOf(t), ![t.number].succeeded = Succeeded(t),
                          ![t.number].failed = Cardinality(t.failure), ![t.number].changed = t.changed,
                          ![t.number].ended = day]
  /\ IF w = Scheduler THEN Become(w, "mark", [NoTask EXCEPT !.by = t.by]) ELSE Become(w, "idle", NoTask)
  /\ UNCHANGED << inventory, config, archive, targets, baseline, lastRun, day, passed, queue,
                  writes, contested, thinned, answered, spent >>

-----------------------------------------------------------------------------
\* The scheduler

BugForgetsToday(s) == s \in passed
should_run_now(s) == s \in passed /\ lastRun[s] # day

\* one poll finds what is due, then runs it one by one
_poll_once ==
  /\ pc[Scheduler] = "idle" /\ queue = {}
  /\ queue' = {s \in Schedules : should_run_now(s)} /\ queue' # {}
  /\ UNCHANGED << inventory, config, archive, jobs, targets, baseline, lastRun, day, passed, pc, task,
                  writes, contested, thinned, answered, spent >>

run_due_schedule(s) ==
  /\ pc[Scheduler] = "idle" /\ s \in queue
  /\ queue' = queue \ {s}
  /\ Begin(Scheduler, s, Targets[s] \cap inventory)
  /\ UNCHANGED << inventory, config, archive, jobs, targets, baseline, lastRun, day, passed,
                  writes, thinned, answered, spent >>

BugMarksTomorrow ==
  /\ pc[Scheduler] = "mark"
  /\ lastRun' = [lastRun EXCEPT ![task[Scheduler].by] = day + 1]
  /\ Become(Scheduler, "idle", NoTask)
  /\ UNCHANGED << inventory, config, archive, jobs, targets, baseline, day, passed, queue,
                  writes, contested, thinned, answered, spent >>

\* what run_due_schedule does last
MarkRun ==
  /\ pc[Scheduler] = "mark"
  /\ lastRun' = [lastRun EXCEPT ![task[Scheduler].by] = day]
  /\ Become(Scheduler, "idle", NoTask)
  /\ UNCHANGED << inventory, config, archive, jobs, targets, baseline, day, passed, queue,
                  writes, contested, thinned, answered, spent >>

TimeComes(s) ==
  /\ s \notin passed /\ passed' = passed \cup {s}
  /\ UNCHANGED << inventory, config, archive, jobs, targets, baseline, lastRun, day, pc, task, queue,
                  writes, contested, thinned, answered, spent >>

Midnight ==
  /\ day < MaxDays /\ day' = day + 1 /\ passed' = {}
  /\ UNCHANGED << inventory, config, archive, jobs, targets, baseline, lastRun, pc, task, queue,
                  writes, contested, thinned, answered, spent >>

-----------------------------------------------------------------------------
\* Everybody else

\* a device is configured by somebody
Reconfigure(i, c) ==
  /\ i[1] \in inventory /\ c # config[i] /\ spent.changes < MaxChanges
  /\ config' = [config EXCEPT ![i] = c]
  /\ spent' = [spent EXCEPT !.changes = @ + 1]
  /\ UNCHANGED << inventory, archive, jobs, targets, baseline, lastRun, day, passed, pc, task, queue,
                  writes, contested, thinned, answered >>

\* a snapshot of the device is designated
set_baseline(x) ==
  /\ baseline[x.item] # x /\ spent.baselines < MaxBaselines
  /\ spent' = [spent EXCEPT !.baselines = @ + 1]
  /\ baseline' = [baseline EXCEPT ![x.item] = x]
  /\ UNCHANGED << inventory, config, archive, jobs, targets, lastRun, day, passed, pc, task, queue,
                  writes, contested, thinned, answered >>

clear_baseline(i) ==
  /\ baseline[i] # None
  /\ baseline' = [baseline EXCEPT ![i] = None]
  /\ UNCHANGED << inventory, config, archive, jobs, targets, lastRun, day, passed, pc, task, queue,
                  writes, contested, thinned, answered, spent >>

\* the baseline that pointed at it stays and points at nothing
delete_configuration(x) ==
  /\ spent.deletions + spent.crashes < MaxMishaps
  /\ archive' = archive \ {x} /\ thinned' = thinned \cup {x.item[1]}
  /\ spent' = [spent EXCEPT !.deletions = @ + 1]
  /\ UNCHANGED << inventory, config, jobs, targets, baseline, lastRun, day, passed, pc, task, queue,
                  writes, contested, answered >>

\* its snapshots and baselines go with it
delete_device(d) ==
  /\ d \in inventory /\ spent.deletions + spent.crashes < MaxMishaps
  /\ inventory' = inventory \ {d}
  /\ archive' = {x \in archive : x.item[1] # d} /\ thinned' = thinned \cup {d}
  /\ baseline' = [i \in Items |-> IF i[1] = d THEN None ELSE baseline[i]]
  /\ spent' = [spent EXCEPT !.deletions = @ + 1]
  /\ UNCHANGED << config, jobs, targets, lastRun, day, passed, pc, task, queue, writes, contested, answered >>

\* the management process dies and systemd starts it again
Crash ==
  /\ spent.deletions + spent.crashes < MaxMishaps /\ spent' = [spent EXCEPT !.crashes = @ + 1]
  /\ \E w \in Threads : pc[w] # "idle"
  /\ pc' = [w \in Threads |-> "idle"] /\ task' = [w \in Threads |-> NoTask] /\ queue' = {}
  /\ UNCHANGED << inventory, config, archive, jobs, targets, baseline, lastRun, day, passed, writes,
                  contested, thinned, answered >>

-----------------------------------------------------------------------------
Proceed(w) ==
  \/ _next_job_number(w) \/ NumberTaken(w) \/ InsertJob(w)
  \/ _retrieve_one(w) \/ ReadLatest(w) \/ WriteFails(w) \/ archive_configuration(w)
  \/ FinishJob(w)

Schedule == _poll_once \/ MarkRun \/ \E s \in Schedules : run_due_schedule(s)

Next ==
  \/ \E w \in Threads : Proceed(w)
  \/ Schedule
  \/ \E w \in Workers, D \in SUBSET Devices : run_backup(w, D)
  \/ \E s \in Schedules : TimeComes(s)
  \/ Midnight
  \/ \E i \in Items, c \in Contents : Reconfigure(i, c)
  \/ \E x \in archive : set_baseline(x) \/ delete_configuration(x)
  \/ \E i \in Items : clear_baseline(i)
  \/ \E d \in Devices : delete_device(d)
  \/ Crash

Spec == Init /\ [][Next]_vars

-----------------------------------------------------------------------------
\* What the archive says

BugStoredHash(i) ==
  LET newest == {x \in SnapshotsOf(i) : \A y \in SnapshotsOf(i) : y.at <= x.at}
  IN  CASE newest = {} -> "no_snapshot"
        [] newest # {} /\ baseline[i] = None -> "no_baseline"
        [] newest # {} /\ baseline[i] # None /\ \E x \in newest : x.content = baseline[i].content -> "in_sync"
        [] OTHER -> "drifted"

\* compares the snapshot that was created last with the one that was designated
evaluate_device_drift(i) ==
  LET newest == {x \in SnapshotsOf(i) : \A y \in SnapshotsOf(i) : y.at <= x.at}
  IN  CASE newest = {} -> "no_snapshot"
        [] newest # {} /\ baseline[i] = None -> "no_baseline"
        [] newest # {} /\ baseline[i] \notin archive \cup {None} -> "baseline_gone"
        [] newest # {} /\ baseline[i] \in archive ->
             IF \E x \in newest : x.content = baseline[i].content THEN "in_sync" ELSE "drifted"

-----------------------------------------------------------------------------
(***************************************************************************)
(* Properties                                                              *)
(***************************************************************************)

\* A closed job says what became of every device of it: one target for each type, failed
\* when any of them failed, and completed only when none did ("reporting a device as
\* successful when its startup-config could not be retrieved would overstate coverage").
JobsTellTheTruth ==
  \A j \in DOMAIN jobs : jobs[j].status # "running" =>
    LET mine == {x \in targets : x.job = j}
        failing == {x.item[1] : x \in {x \in mine : ~ x.ok}}
    IN  /\ \A i \in jobs[j].devices \X Types : Cardinality({x \in mine : x.item = i}) = 1
        /\ jobs[j].failed = Cardinality(failing)
        /\ jobs[j].succeeded = Cardinality(jobs[j].devices) - jobs[j].failed
        /\ jobs[j].changed = Cardinality({x \in mine : x.changed})
        /\ jobs[j].status = "completed" <=> failing = {}
        /\ jobs[j].status = "failed" => failing = jobs[j].devices

Alone(i) == i[1] \notin contested

\* Backups of a device that never overlapped leave its last answer as its latest
\* snapshot, whatever it answered before: going back to an earlier configuration is news.
LatestIsLastAnswer ==
  \A i \in Items : Alone(i) /\ i[1] \notin thinned /\ answered[i] # None =>
     {x.content : x \in latest_configuration(i) \ {None}} = {answered[i]}

\* The highest version (what the next backup compares with) is the newest row (what drift
\* compares with), and it is one: for a device whose backups never overlapped, even after
\* snapshots were deleted.
ReadingsAgree ==
  \A i \in Items : Alone(i) =>
     \A x \in latest_configuration(i) \ {None} : \A y \in SnapshotsOf(i) \ {x} :
        y.version < x.version /\ y.at < x.at

\* The archive is true of a device whose backups never overlapped: its latest snapshot is its last
\* answer, and there is no doubt which snapshot is the latest.
ArchiveIsTrue == LatestIsLastAnswer /\ ReadingsAgree

\* "In sync" is never said of a baseline that is gone, and where nothing overlapped or
\* was deleted it means that the device's last answer was the designated configuration.
InSyncIsHeld ==
  \A i \in Items : evaluate_device_drift(i) = "in_sync" =>
     /\ baseline[i] \in archive
     /\ Alone(i) /\ i[1] \notin thinned => answered[i] = baseline[i].content

\* Without a restart no schedule completes two jobs in one day, even though it is polled
\* again and again, its runs may fail, or end on the next day.
OncePerDay ==
  spent.crashes = 0 =>
    \A j, k \in DOMAIN jobs :
       (j # k /\ jobs[j].by = jobs[k].by /\ jobs[j].by # Manual /\ jobs[j].day = jobs[k].day)
          => "running" \in {jobs[j].status, jobs[k].status}

\* run_due_schedule says: "Marks last_run_at even on failure, so a persistently broken schedule
\* retries tomorrow rather than looping every poll interval for the rest of the day."  Without
\* a restart no schedule starts two jobs in one day, whatever became of the first.
RetriesTomorrow ==
  spent.crashes = 0 =>
    \A j, k \in DOMAIN jobs :
       j # k /\ jobs[j].by = jobs[k].by /\ jobs[j].by # Manual => jobs[j].day # jobs[k].day

=============================================================================
