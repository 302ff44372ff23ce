---------------------------- MODULE NcmBackupProofs ----------------------------
(***************************************************************************)
(* What NcmBackup promises of jobs, schedules and the archive holds for    *)
(* any fleet, schedules, number of backups, faults and restarts.           *)
(*                                                                         *)
(* Four invariants, each inductive with those before it:                   *)
(*   Shapes      types, and a bound on versions: without one, a set of     *)
(*               them need not have a highest;                             *)
(*   JobRows     the job a thread works on is nobody else's, and what the  *)
(*               thread holds in memory of it (Tally) is what it wrote;    *)
(*   Calendar    what a schedule has completed is older than its mark, or  *)
(*               about to be marked; what it is about to do is newer;      *)
(*   ArchiveInv  versions and writes are in one order, and what a thread   *)
(*               read is still so when it writes, but for deletions, for   *)
(*               devices that no other thread is busy with.                *)
(***************************************************************************)
EXTENDS NcmBackup, FiniteSetTheorems, WellFoundedInduction, TLAPS

Holding(w) == pc[w] \in {"retrieve", "read", "write", "finish"}

\* TypeOK, and the bound on versions without which there need not be a highest.
Shapes ==
  /\ TypeOK
  /\ \A x \in archive : x.version <= x.at + 1
  /\ \A w \in Threads, d \in Devices : task[w].version[d] <= writes + 1
  /\ \A w \in Threads : pc[w] \in {"read", "write"} => task[w].type \in Types
  /\ \A i \in Items : baseline[i] # None => baseline[i].item = i

-----------------------------------------------------------------------------
\* A set of numbers with a bound has a highest.
LEMMA HighestIsThere ==
  ASSUME NEW S \in SUBSET Nat, S # {}, NEW n \in Nat, \A s \in S : s <= n
  PROVE  Max(S) \in S /\ \A s \in S : s <= Max(S)
<1> DEFINE T == {n - s : s \in S}
           R == {p \in Nat \X Nat : p[1] < p[2]}
<1>1. \A s \in S : n - s \in Nat
  OBVIOUS
<1>2. T \subseteq Nat /\ T # {}
  BY <1>1
<1>3. IsWellFoundedOn(R, Nat)
  BY NatLessThanWellFounded DEF OpToRel
<1>4. PICK t \in T : \A y \in T : ~ (<<y, t>> \in R)
  <2> HIDE DEF T, R
  <2> QED
    BY <1>2, <1>3, WFMin
<1>5. PICK m \in S : t = n - m
  OBVIOUS
<1>6. \A s \in S : m >= s
  <2> TAKE s \in S
  <2>1. n - s \in T
    OBVIOUS
  <2>2. ~ (n - s < t)
    BY <1>2, <1>4, <2>1
  <2> QED
    BY <1>5, <2>2
<1> QED
  BY <1>6 DEF Max

LEMMA HighestVersion ==
  ASSUME Shapes, NEW i \in Items, SnapshotsOf(i) # {}
  PROVE  Max(Versions(i)) \in Versions(i) /\ \A v \in Versions(i) : v <= Max(Versions(i))
<1>1. writes \in Nat /\ \A x \in archive : x.version \in Nat /\ x.at \in Nat /\ x.at < writes /\ x.version <= x.at + 1
  BY DEF Shapes, TypeOK, Snapshot
<1>2. Versions(i) \in SUBSET Nat /\ Versions(i) # {} /\ \A v \in Versions(i) : v <= writes
  BY <1>1 DEF Versions, SnapshotsOf
<1> QED
  BY <1>1, <1>2, HighestIsThere

\* The next version is above every one there is, and below the bound.
LEMMA NextVersion ==
  ASSUME Shapes, NEW i \in Items
  PROVE  /\ _next_version_number(i) \in Nat /\ _next_version_number(i) <= writes + 1
         /\ \A x \in SnapshotsOf(i) : x.version < _next_version_number(i)
<1>1. writes \in Nat /\ \A x \in archive : x.version \in Nat /\ x.at \in Nat /\ x.at < writes /\ x.version <= x.at + 1
  BY DEF Shapes, TypeOK, Snapshot
<1>2. CASE SnapshotsOf(i) = {}
  BY <1>1, <1>2 DEF _next_version_number, Versions
<1>3. CASE SnapshotsOf(i) # {}
  <2>1. Max(Versions(i)) \in Nat /\ Max(Versions(i)) <= writes
    BY <1>1, <1>3, HighestVersion DEF Versions, SnapshotsOf
  <2>2. _next_version_number(i) = Max(Versions(i)) + 1
    BY <1>3 DEF _next_version_number, Versions
  <2>3. \A x \in SnapshotsOf(i) : x.version <= Max(Versions(i)) /\ x.version \in Nat
    BY <1>1, <1>3, HighestVersion DEF Versions, SnapshotsOf
  <2> QED
    BY <1>1, <2>1, <2>2, <2>3
<1> QED
  BY <1>2, <1>3

\* Every subset of the fleet can be counted.
LEMMA FleetIsCounted ==
  ASSUME NEW D \in SUBSET Devices
  PROVE  IsFiniteSet(D) /\ Cardinality(D) \in Nat /\ Cardinality(D) <= Cardinality(Devices)
  BY FleetAssumption, FS_Subset, FS_CardinalityType

-----------------------------------------------------------------------------
LEMMA TypesStart == Init => Shapes
<1> SUFFICES ASSUME Init PROVE Shapes
  OBVIOUS
<1>1. (CHOOSE c \in Contents : TRUE) \in Contents
  BY FleetAssumption
<1>2. <<>> \in Seq(Job)
  OBVIOUS
<1>3. NoTask \in Task /\ \A d \in Devices : NoTask.version[d] = 0
  BY DEF NoTask, Task, Nothing
<1>4. config \in [Items -> Contents]
  BY <1>1 DEF Init
<1>5. TypeOK
  BY <1>2, <1>3, <1>4, BoundsAssumption DEF Init, TypeOK, Bounds
<1> QED
  BY <1>3, <1>5 DEF Init, Shapes

\* A thread's new state has its type and its bound.
LEMMA Becoming ==
  ASSUME Shapes, NEW w \in Threads, NEW label, NEW t, Become(w, label, t),
         label \in {"idle", "number", "insert", "retrieve", "read", "write", "finish", "mark"},
         t \in Task, writes' \in Nat, writes <= writes', \A d \in Devices : t.version[d] <= writes' + 1,
         label \in {"read", "write"} => t.type \in Types
  PROVE  /\ pc' \in [Threads -> {"idle", "number", "insert", "retrieve", "read", "write", "finish", "mark"}]
         /\ task' \in [Threads -> Task]
         /\ \A v \in Threads, d \in Devices : task'[v].version[d] <= writes' + 1
         /\ \A v \in Threads : pc'[v] \in {"read", "write"} => task'[v].type \in Types
<1>1. writes \in Nat /\ \A v \in Threads, d \in Devices : task[v].version[d] \in Nat /\ task[v].version[d] <= writes + 1
  BY DEF Shapes, TypeOK, Task
<1>2. pc \in [Threads -> {"idle", "number", "insert", "retrieve", "read", "write", "finish", "mark"}] /\ task \in [Threads -> Task]
  BY DEF Shapes, TypeOK
<1>3. /\ pc' = [pc EXCEPT ![w] = label] /\ task' = [task EXCEPT ![w] = t]
  BY DEF Become
<1>4. pc' \in [Threads -> {"idle", "number", "insert", "retrieve", "read", "write", "finish", "mark"}] /\ task' \in [Threads -> Task]
  BY <1>2, <1>3
<1>5. \A v \in Threads : v # w => pc'[v] = pc[v] /\ task'[v] = task[v]
  BY <1>2, <1>3
<1>6. pc'[w] = label /\ task'[w] = t
  BY <1>2, <1>3
<1>7. ASSUME NEW v \in Threads, NEW d \in Devices PROVE task'[v].version[d] <= writes' + 1
  BY <1>1, <1>5, <1>6
<1>8. ASSUME NEW v \in Threads, pc'[v] \in {"read", "write"} PROVE task'[v].type \in Types
  BY <1>5, <1>6, <1>8 DEF Shapes
<1> QED
  BY <1>4, <1>7, <1>8

\* Nothing but threads moves.
LEMMA OnlyThreads ==
  ASSUME Shapes, NEW w \in Threads, NEW label, NEW t, Become(w, label, t),
         label \in {"idle", "number", "insert", "retrieve", "read", "write", "finish", "mark"},
         t \in Task, \A d \in Devices : t.version[d] <= writes + 1,
         label \in {"read", "write"} => t.type \in Types,
         UNCHANGED << inventory, config, archive, targets, baseline, day, passed, writes, thinned, answered >>,
         contested' \subseteq Devices, queue' \subseteq Schedules, spent' \in Bounds,
         jobs' \in Seq(Job), lastRun' \in [Schedules -> 0 .. MaxDays]
  PROVE  Shapes'
<1>1. writes' \in Nat /\ writes' = writes
  BY DEF Shapes, TypeOK
<1>2. /\ pc' \in [Threads -> {"idle", "number", "insert", "retrieve", "read", "write", "finish", "mark"}]
      /\ task' \in [Threads -> Task]
      /\ \A v \in Threads, d \in Devices : task'[v].version[d] <= writes' + 1
      /\ \A v \in Threads : pc'[v] \in {"read", "write"} => task'[v].type \in Types
  BY <1>1, Becoming
<1>3. TypeOK'
  BY <1>1, <1>2 DEF Shapes, TypeOK
<1> QED
  BY <1>2, <1>3 DEF Shapes

LEMMA IdleTask ==
  /\ NoTask \in Task /\ \A d \in Devices : NoTask.version[d] = 0
  /\ NoTask = [by |-> Manual, devices |-> {}, left |-> {}, number |-> 0, type |-> None, got |-> Nothing,
               prev |-> Nothing, version |-> [d \in Devices |-> 0], failure |-> {}, success |-> {}, changed |-> 0]
  BY DEF NoTask, Task, Nothing

LEMMA TypesOfBegin ==
  ASSUME Shapes, NEW w \in Threads, NEW by \in Schedules \cup {Manual}, NEW D \in SUBSET Devices, Begin(w, by, D),
         UNCHANGED << inventory, config, archive, jobs, targets, baseline, lastRun, day, passed, writes, thinned, answered >>,
         queue' \subseteq Schedules, spent' \in Bounds
  PROVE  Shapes'
<1> DEFINE t == [NoTask EXCEPT !.by = by, !.devices = D, !.left = Types]
<1>1. t \in Task /\ \A d \in Devices : t.version[d] = 0
  BY IdleTask DEF Task
<1>2. contested' \subseteq Devices
  BY DEF Begin, Shapes, TypeOK
<1>3. Become(w, "number", t)
  BY DEF Begin
<1>4. writes \in Nat /\ jobs' \in Seq(Job) /\ lastRun' \in [Schedules -> 0 .. MaxDays]
  BY DEF Shapes, TypeOK
<1>5. \A d \in Devices : t.version[d] <= writes + 1
  BY <1>1, <1>4
<1> HIDE DEF t
<1> QED
  BY <1>1, <1>2, <1>3, <1>4, <1>5, OnlyThreads

LEMMA TypesOfRaise ==
  ASSUME Shapes, NEW w \in Threads, Raise(w)
  PROVE  Shapes'
<1>1. /\ writes \in Nat /\ \A d \in Devices : NoTask.version[d] <= writes + 1
      /\ jobs' \in Seq(Job) /\ lastRun' \in [Schedules -> 0 .. MaxDays] /\ contested' \subseteq Devices /\ queue' \subseteq Schedules
      /\ spent' \in Bounds
  BY IdleTask DEF Raise, Shapes, TypeOK
<1>2. Become(w, "idle", NoTask)
  BY DEF Raise
<1> QED
  BY <1>1, <1>2, IdleTask, OnlyThreads DEF Raise

LEMMA TypesOfProceed ==
  ASSUME Shapes, NEW w \in Threads, Proceed(w)
  PROVE  Shapes'
<1> DEFINE t == task[w]
<1>1. /\ t \in Task /\ writes \in Nat /\ \A d \in Devices : t.version[d] <= writes + 1
      /\ jobs \in Seq(Job) /\ lastRun \in [Schedules -> 0 .. MaxDays] /\ contested \subseteq Devices
      /\ queue \subseteq Schedules /\ spent \in Bounds /\ day \in 1 .. MaxDays
  BY DEF Shapes, TypeOK
<1>2. CASE _next_job_number(w)
  <2> DEFINE u == [t EXCEPT !.number = Len(jobs) + 1]
  <2>1. u \in Task /\ \A d \in Devices : u.version[d] <= writes + 1
    <3>1. Len(jobs) + 1 \in Nat
      BY <1>1
    <3> QED
      BY <1>1, <3>1 DEF Task
  <2>2. Become(w, "insert", u)
    BY <1>2 DEF _next_job_number
  <2> HIDE DEF u
  <2> QED
    BY <1>1, <1>2, <2>1, <2>2, OnlyThreads DEF _next_job_number
<1>3. CASE NumberTaken(w) \/ WriteFails(w)
  BY <1>3, TypesOfRaise DEF NumberTaken, WriteFails
<1>4. CASE InsertJob(w)
  <2> DEFINE row == [by |-> t.by, day |-> day, devices |-> t.devices, status |-> "running", succeeded |-> 0,
                     failed |-> 0, changed |-> 0, ended |-> 0]
  <2>1. row \in Job
    BY <1>1 DEF Task, Job
  <2>2. jobs' = Append(jobs, row) /\ Become(w, "retrieve", t)
    BY <1>4 DEF InsertJob
  <2> HIDE DEF row
  <2>3. jobs' \in Seq(Job)
    BY <1>1, <2>1, <2>2
  <2> QED
    BY <1>1, <1>4, <2>2, <2>3, OnlyThreads DEF InsertJob
<1>5. CASE _retrieve_one(w)
  <2>1. PICK type \in t.left, failing \in SUBSET t.devices :
             /\ spent' = [spent EXCEPT !.failures = @ + Cardinality(failing)]
             /\ Become(w, "read", [t EXCEPT !.type = type, !.left = @ \ {type},
                  !.got = [d \in Devices |-> IF d \in t.devices \ failing THEN config[<<d, type>>] ELSE None]])
    BY <1>5 DEF _retrieve_one
  <2> DEFINE got == [d \in Devices |-> IF d \in t.devices \ failing THEN config[<<d, type>>] ELSE None]
             u == [t EXCEPT !.type = type, !.left = @ \ {type}, !.got = got]
  <2>2. type \in Types /\ failing \subseteq Devices
    BY <1>1 DEF Task
  <2>3. got \in [Devices -> Contents \cup {None}]
    BY <2>2 DEF Shapes, TypeOK, Items
  <2>4. u \in Task /\ u.version = t.version /\ u.type = type
    <3> HIDE DEF got
    <3> QED
      BY <1>1, <2>2, <2>3 DEF Task
  <2>5. Become(w, "read", u)
    BY <2>1
  <2>6. spent' \in Bounds
    <3>1. Cardinality(failing) \in Nat
      BY <2>2, FleetIsCounted
    <3> QED
      BY <1>1, <2>1, <3>1 DEF Bounds
  <2> HIDE DEF u
  <2> QED
    BY <1>1, <1>5, <2>2, <2>4, <2>5, <2>6, OnlyThreads DEF _retrieve_one
<1>6. CASE ReadLatest(w)
  <2> DEFINE type == t.type
  <2>1. PICK prev \in [Devices -> archive \cup {None}] :
             Become(w, "write", [t EXCEPT !.prev = prev, !.version = [d \in Devices |-> _next_version_number(<<d, type>>)]])
    BY <1>6 DEF ReadLatest
  <2>2. type \in Types
    BY <1>6 DEF ReadLatest, Shapes
  <2> DEFINE version == [d \in Devices |-> _next_version_number(<<d, type>>)]
             u == [t EXCEPT !.prev = prev, !.version = version]
  <2>3. version \in [Devices -> Nat] /\ \A d \in Devices : version[d] <= writes + 1
    BY <2>2, NextVersion DEF Items
  <2>4. prev \in [Devices -> Snapshot \cup {None}]
    BY <2>1 DEF Shapes, TypeOK
  <2>5. u \in Task /\ u.version = version /\ u.type = type
    <3> HIDE DEF version
    <3> QED
      BY <1>1, <2>3, <2>4 DEF Task
  <2>6. Become(w, "write", u)
    BY <2>1
  <2> HIDE DEF u, version
  <2> QED
    BY <1>1, <1>6, <2>2, <2>3, <2>5, <2>6, OnlyThreads DEF ReadLatest
<1>7. CASE archive_configuration(w)
  <2> DEFINE new == {d \in t.devices : IsNew(t, d)}
             answering == {d \in t.devices : t.got[d] # None}
             added == {[item |-> <<d, t.type>>, version |-> t.version[d], content |-> t.got[d], at |-> writes] : d \in new}
             outcome == {[job |-> t.number, item |-> <<d, t.type>>, ok |-> d \in answering, changed |-> d \in new] : d \in t.devices}
             label == IF t.left = {} THEN "finish" ELSE "retrieve"
             u == [t EXCEPT !.type = None, !.got = Nothing, !.prev = Nothing, !.version = NoTask.version,
                            !.success = @ \cup answering, !.failure = @ \cup (t.devices \ answering),
                            !.changed = @ + Cardinality(new)]
  <2>1. /\ pc[w] = "write" /\ archive' = archive \cup added /\ targets' = targets \cup outcome
        /\ writes' = IF new = {} THEN writes ELSE writes + 1
        /\ answered' = [i \in Items |-> IF i[2] = t.type /\ i[1] \in answering THEN t.got[i[1]] ELSE answered[i]]
        /\ Become(w, label, u)
        /\ UNCHANGED << inventory, config, jobs, baseline, lastRun, day, passed, queue, contested, thinned, spent >>
    BY <1>7 DEF archive_configuration
  <2>2. t.type \in Types /\ t.devices \subseteq Devices /\ t.number \in Nat
    BY <1>1, <2>1 DEF Shapes, Task
  <2>3. \A d \in Devices : t.got[d] \in Contents \cup {None} /\ t.version[d] \in Nat /\ t.version[d] <= writes + 1
    BY <1>1 DEF Task
  <2>4. \A d \in answering : d \in Devices /\ t.got[d] \in Contents
    BY <2>2, <2>3
  <2>5. new \subseteq answering /\ new \subseteq Devices /\ answering \subseteq Devices
    BY <2>2 DEF IsNew
  <2>6. writes' \in Nat /\ writes <= writes'
    BY <1>1, <2>1
  <2>7. \A x \in added : x \in Snapshot /\ x.at = writes /\ x.version <= x.at + 1 /\ x.at < writes'
    BY <1>1, <2>1, <2>2, <2>3, <2>4, <2>5 DEF Snapshot, Items
  <2>8. outcome \subseteq Target
    <3>1. ASSUME NEW d \in t.devices, NEW ok \in BOOLEAN, NEW changed \in BOOLEAN
          PROVE  [job |-> t.number, item |-> <<d, t.type>>, ok |-> ok, changed |-> changed] \in Target
      BY <2>2 DEF Target, Items
    <3>2. \A d \in t.devices : (d \in answering) \in BOOLEAN /\ (d \in new) \in BOOLEAN
      OBVIOUS
    <3> HIDE DEF answering, new
    <3> QED
      BY <3>1, <3>2
  <2>9. answered' \in [Items -> Contents \cup {None}]
    <3>1. answered \in [Items -> Contents \cup {None}]
      BY DEF Shapes, TypeOK
    <3> HIDE DEF answering
    <3> QED
      BY <2>1, <2>4, <3>1 DEF Items
  <2>10. u \in Task /\ u.version = NoTask.version
    <3>1. Cardinality(new) \in Nat /\ Nothing \in [Devices -> Contents \cup {None}] /\ Nothing \in [Devices -> Snapshot \cup {None}]
      BY <2>5, FleetIsCounted DEF Nothing
    <3>2. NoTask.version \in [Devices -> Nat] /\ t.devices \ answering \subseteq Devices
      BY <2>2, IdleTask DEF Task
    <3>3. /\ t.success \cup answering \subseteq Devices /\ t.failure \cup (t.devices \ answering) \subseteq Devices
          /\ t.changed + Cardinality(new) \in Nat
      BY <1>1, <2>5, <3>1, <3>2 DEF Task
    <3> DEFINE success == t.success \cup answering
               failure == t.failure \cup (t.devices \ answering)
               changed == t.changed + Cardinality(new)
    <3>4. u = [t EXCEPT !.type = None, !.got = Nothing, !.prev = Nothing, !.version = NoTask.version,
                        !.success = success, !.failure = failure, !.changed = changed]
      BY <1>1 DEF Task
    <3>5. success \in SUBSET Devices /\ failure \in SUBSET Devices /\ changed \in Nat
      BY <3>3
    <3> HIDE DEF success, failure, changed, u
    <3> QED
      BY <1>1, <3>1, <3>2, <3>4, <3>5 DEF Task
  <2>11. \A d \in Devices : u.version[d] <= writes' + 1
    <3> HIDE DEF u
    <3>1. \A d \in Devices : u.version[d] = 0
      BY <2>10, IdleTask
    <3> QED
      BY <2>6, <3>1
  <2>12. label \in {"finish", "retrieve"}
    OBVIOUS
  <2>13. /\ archive \subseteq Snapshot /\ \A x \in archive : x.at < writes' /\ x.version <= x.at + 1
    <3>1. \A x \in archive : x \in Snapshot /\ x.at < writes /\ x.version <= x.at + 1 /\ x.at \in Nat
      BY DEF Shapes, TypeOK, Snapshot
    <3> QED
      BY <1>1, <2>6, <3>1
  <2> HIDE DEF u, added, outcome, label, new, answering, t
  <2>14. /\ pc' \in [Threads -> {"idle", "number", "insert", "retrieve", "read", "write", "finish", "mark"}]
         /\ task' \in [Threads -> Task]
         /\ \A v \in Threads, d \in Devices : task'[v].version[d] <= writes' + 1
         /\ \A v \in Threads : pc'[v] \in {"read", "write"} => task'[v].type \in Types
    BY <2>1, <2>6, <2>10, <2>11, <2>12, Becoming
  <2>15. TypeOK'
    BY <2>1, <2>6, <2>7, <2>8, <2>9, <2>13, <2>14 DEF Shapes, TypeOK
  <2> QED
    BY <2>1, <2>7, <2>13, <2>14, <2>15 DEF Shapes
<1>8. CASE FinishJob(w)
  <2> DEFINE row == [jobs[t.number] EXCEPT !.status = StatusOf(t), !.succeeded = Succeeded(t),
                       !.failed = Cardinality(t.failure), !.changed = t.changed, !.ended = day]
  <2>1. jobs' = [jobs EXCEPT ![t.number].status = StatusOf(t), ![t.number].succeeded = Succeeded(t),
                   ![t.number].failed = Cardinality(t.failure), ![t.number].changed = t.changed, ![t.number].ended = day]
    BY <1>8 DEF FinishJob
  <2>2. StatusOf(t) \in {"completed", "partial_success", "failed"}
    BY DEF StatusOf
  <2>3. /\ t.failure \subseteq Devices /\ t.success \ t.failure \subseteq Devices /\ t.changed \in Nat /\ day \in Nat
        /\ t.by \in Schedules \cup {Manual}
    BY <1>1 DEF Task
  <2>4. Succeeded(t) \in Nat /\ Cardinality(t.failure) \in Nat
    BY <2>3, FleetIsCounted DEF Succeeded
  <2>5. jobs' \in Seq(Job)
    <3>1. jobs' = [jobs EXCEPT ![t.number] = row]
      BY <1>1, <2>1
    <3>2. t.number \in DOMAIN jobs => row \in Job
      <4>1. t.number \in DOMAIN jobs => jobs[t.number] \in Job
        BY <1>1
      <4>2. StatusOf(t) \in {"running", "completed", "partial_success", "failed"}
        BY <2>2
      <4> DEFINE status == StatusOf(t)
                 succeeded == Succeeded(t)
                 failed == Cardinality(t.failure)
      <4>3. status \in {"running", "completed", "partial_success", "failed"} /\ succeeded \in Nat /\ failed \in Nat
        BY <2>4, <4>2
      <4>4. row = [jobs[t.number] EXCEPT !.status = status, !.succeeded = succeeded, !.failed = failed,
                     !.changed = t.changed, !.ended = day]
        OBVIOUS
      <4> HIDE DEF status, succeeded, failed, row
      <4> QED
        BY <2>3, <4>1, <4>3, <4>4 DEF Job
    <3>3. jobs \in [1 .. Len(jobs) -> Job] /\ Len(jobs) \in Nat /\ DOMAIN jobs = 1 .. Len(jobs)
      BY <1>1
    <3> HIDE DEF row
    <3>4. jobs' \in [1 .. Len(jobs) -> Job]
      BY <3>1, <3>2, <3>3
    <3> QED
      BY <3>3, <3>4
  <2>6. [NoTask EXCEPT !.by = t.by] \in Task /\ \A d \in Devices : [NoTask EXCEPT !.by = t.by].version[d] <= writes + 1
    <3>1. [NoTask EXCEPT !.by = t.by] \in Task /\ [NoTask EXCEPT !.by = t.by].version = NoTask.version
      BY <2>3, IdleTask DEF Task
    <3> QED
      BY <1>1, <3>1, IdleTask
  <2>7. NoTask \in Task /\ \A d \in Devices : NoTask.version[d] <= writes + 1
    BY <1>1, IdleTask
  <2>8. Become(w, "mark", [NoTask EXCEPT !.by = t.by]) \/ Become(w, "idle", NoTask)
    BY <1>8 DEF FinishJob
  <2> QED
    BY <1>1, <1>8, <2>5, <2>6, <2>7, <2>8, OnlyThreads DEF FinishJob
<1> QED
  BY <1>2, <1>3, <1>4, <1>5, <1>6, <1>7, <1>8 DEF Proceed

\* What each bound was used for is counted apart.
LEMMA Counting ==
  ASSUME Shapes
  PROVE  /\ spent \in Bounds
         /\ spent' = [spent EXCEPT !.manual = @ + 1] => spent' \in Bounds /\ spent'.crashes = spent.crashes
         /\ spent' = [spent EXCEPT !.changes = @ + 1] => spent' \in Bounds /\ spent'.crashes = spent.crashes
         /\ spent' = [spent EXCEPT !.baselines = @ + 1] => spent' \in Bounds /\ spent'.crashes = spent.crashes
         /\ spent' = [spent EXCEPT !.deletions = @ + 1] => spent' \in Bounds /\ spent'.crashes = spent.crashes
         /\ spent' = [spent EXCEPT !.crashes = @ + 1] => spent' \in Bounds /\ spent'.crashes # 0
<1>1. spent \in Bounds
  BY DEF Shapes, TypeOK
<1>2. spent' = [spent EXCEPT !.manual = @ + 1] => spent' \in Bounds /\ spent'.crashes = spent.crashes
  BY <1>1 DEF Bounds
<1>3. spent' = [spent EXCEPT !.changes = @ + 1] => spent' \in Bounds /\ spent'.crashes = spent.crashes
  BY <1>1 DEF Bounds
<1>4. spent' = [spent EXCEPT !.baselines = @ + 1] => spent' \in Bounds /\ spent'.crashes = spent.crashes
  BY <1>1 DEF Bounds
<1>5. spent' = [spent EXCEPT !.deletions = @ + 1] => spent' \in Bounds /\ spent'.crashes = spent.crashes
  BY <1>1 DEF Bounds
<1>6. spent' = [spent EXCEPT !.crashes = @ + 1] => spent' \in Bounds /\ spent'.crashes # 0
  BY <1>1 DEF Bounds
<1> QED
  BY <1>1, <1>2, <1>3, <1>4, <1>5, <1>6

LEMMA TypesKept == Shapes /\ [Next]_vars => Shapes'
<1> SUFFICES ASSUME Shapes, [Next]_vars PROVE Shapes'
  OBVIOUS
<1>1. ASSUME NEW w \in Threads, Proceed(w) PROVE Shapes'
  BY <1>1, TypesOfProceed
<1>2. CASE _poll_once
  BY <1>2 DEF _poll_once, Shapes, TypeOK
<1>3. CASE MarkRun
  <2>1. Scheduler \in Threads /\ writes \in Nat /\ \A d \in Devices : NoTask.version[d] <= writes + 1
    BY IdleTask DEF Shapes, TypeOK, Threads
  <2>2. lastRun' \in [Schedules -> 0 .. MaxDays]
    <3>1. lastRun \in [Schedules -> 0 .. MaxDays] /\ day \in 0 .. MaxDays /\ lastRun' = [lastRun EXCEPT ![task[Scheduler].by] = day]
      BY <1>3, BoundsAssumption DEF MarkRun, Shapes, TypeOK
    <3> QED
      BY <3>1
  <2>3. Become(Scheduler, "idle", NoTask)
    BY <1>3 DEF MarkRun
  <2> QED
    BY <1>3, <2>1, <2>2, <2>3, IdleTask, OnlyThreads DEF MarkRun, Shapes, TypeOK
<1>4. ASSUME NEW s \in Schedules, run_due_schedule(s) PROVE Shapes'
  <2>1. Scheduler \in Threads /\ Targets[s] \cap inventory \in SUBSET Devices
    BY TargetsAssumption DEF Threads
  <2>2. queue' \subseteq Schedules /\ spent' \in Bounds
    BY <1>4 DEF run_due_schedule, Shapes, TypeOK
  <2> QED
    BY <1>4, <2>1, <2>2, TypesOfBegin DEF run_due_schedule
<1>5. ASSUME NEW w \in Workers, NEW D \in SUBSET Devices, run_backup(w, D) PROVE Shapes'
  <2>1. queue' \subseteq Schedules /\ spent' \in Bounds
    BY <1>5, Counting DEF run_backup, Shapes, TypeOK
  <2> QED
    BY <1>5, <2>1, TypesOfBegin DEF run_backup, Threads
<1>6. ASSUME NEW s \in Schedules, TimeComes(s) PROVE Shapes'
  BY <1>6 DEF TimeComes, Shapes, TypeOK
<1>7. CASE Midnight
  BY <1>7, BoundsAssumption DEF Midnight, Shapes, TypeOK
<1>8. ASSUME NEW i \in Items, NEW c \in Contents, Reconfigure(i, c) PROVE Shapes'
  <2>1. config' \in [Items -> Contents] /\ spent' \in Bounds
    BY <1>8, Counting DEF Reconfigure, Shapes, TypeOK
  <2> QED
    BY <1>8, <2>1 DEF Reconfigure, Shapes, TypeOK
<1>9. ASSUME NEW x \in archive, set_baseline(x) PROVE Shapes'
  <2>1. x \in Snapshot /\ x.item \in Items
    BY DEF Shapes, TypeOK, Snapshot
  <2>2. baseline' \in [Items -> Snapshot \cup {None}] /\ spent' \in Bounds
    BY <1>9, <2>1, Counting DEF set_baseline, Shapes, TypeOK
  <2>3. \A i \in Items : baseline'[i] # None => baseline'[i].item = i
    BY <1>9, <2>1 DEF set_baseline, Shapes, TypeOK
  <2> QED
    BY <1>9, <2>2, <2>3 DEF set_baseline, Shapes, TypeOK
<1>10. ASSUME NEW x \in archive, delete_configuration(x) PROVE Shapes'
  <2>1. x.item \in Items /\ x.item[1] \in Devices
    BY DEF Shapes, TypeOK, Snapshot, Items
  <2>2. spent' \in Bounds
    BY <1>10, Counting DEF delete_configuration
  <2> QED
    BY <1>10, <2>1, <2>2 DEF delete_configuration, Shapes, TypeOK
<1>11. ASSUME NEW i \in Items, clear_baseline(i) PROVE Shapes'
  BY <1>11 DEF clear_baseline, Shapes, TypeOK
<1>12. ASSUME NEW d \in Devices, delete_device(d) PROVE Shapes'
  <2>1. spent' \in Bounds
    BY <1>12, Counting DEF delete_device
  <2>2. baseline' \in [Items -> Snapshot \cup {None}] /\ \A i \in Items : baseline'[i] # None => baseline'[i].item = i
    BY <1>12 DEF delete_device, Shapes, TypeOK
  <2> QED
    BY <1>12, <2>1, <2>2 DEF delete_device, Shapes, TypeOK
<1>13. CASE Crash
  <2>1. spent' \in Bounds
    BY <1>13, Counting DEF Crash
  <2>2. writes \in Nat /\ \A w \in Threads, d \in Devices : task'[w].version[d] <= writes + 1
    BY <1>13, IdleTask DEF Crash, Shapes, TypeOK
  <2> QED
    BY <1>13, <2>1, <2>2, IdleTask DEF Crash, Shapes, TypeOK
<1>14. CASE UNCHANGED vars
  BY <1>14 DEF vars, Shapes, TypeOK, SnapshotsOf
<1> QED
  BY <1>1, <1>2, <1>3, <1>4, <1>5, <1>6, <1>7, <1>8, <1>9, <1>10, <1>11, <1>12, <1>13, <1>14 DEF Next, Schedule

\* Whatever overlaps, fails, is deleted or restarted, everything has its type.
THEOREM BackupTypes == Spec => []TypeOK
<1>1. Shapes => TypeOK
  BY DEF Shapes
<1> QED
  BY <1>1, TypesStart, TypesKept, PTL DEF Spec

-----------------------------------------------------------------------------
Mine(n) == {x \in targets : x.job = n}

\* the types a thread has not written yet
Pending(w) == task[w].left \cup (IF pc[w] \in {"read", "write"} THEN {task[w].type} ELSE {})

\* What a backup holds in memory of the types it has written is what it wrote.
Tally(t, pending, mine) ==
  /\ \A x \in mine : x.item[1] \in t.devices /\ x.item[2] \in Types \ pending
  /\ \A d \in t.devices, type \in Types \ pending : \E x \in mine : x.item = <<d, type>>
  /\ \A x, y \in mine : x.item = y.item => x = y
  /\ \A x \in mine : IF x.ok THEN x.item[1] \in t.success ELSE x.item[1] \in t.failure
  /\ \A d \in t.success : \E x \in mine : x.ok /\ x.item[1] = d
  /\ \A d \in t.failure : \E x \in mine : ~ x.ok /\ x.item[1] = d
  /\ IsFiniteSet({x \in mine : x.changed}) /\ t.changed = Cardinality({x \in mine : x.changed})

Account(w) ==
  LET t == task[w] IN
  /\ t.number \in DOMAIN jobs
  /\ jobs[t.number].status = "running" /\ jobs[t.number].by = t.by /\ jobs[t.number].devices = t.devices
  /\ pc[w] = "finish" => t.left = {}
  /\ pc[w] \in {"read", "write"} => t.type \notin t.left
  /\ Tally(t, Pending(w), Mine(t.number))

Fresh(t) == t.left = Types /\ t.success = {} /\ t.failure = {} /\ t.changed = 0

\* What a closed job says is what its targets say.
Truth(row, mine) ==
  LET failing == {x.item[1] : x \in {x \in mine : ~ x.ok}}
  IN  /\ \A i \in row.devices \X Types : Cardinality({x \in mine : x.item = i}) = 1
      /\ row.failed = Cardinality(failing)
      /\ row.succeeded = Cardinality(row.devices) - row.failed
      /\ row.changed = Cardinality({x \in mine : x.changed})
      /\ row.status = "completed" <=> failing = {}
      /\ row.status = "failed" => failing = row.devices

JobRows ==
  /\ \A w \in Threads : Holding(w) => Account(w)
  /\ \A w \in Threads : pc[w] \in {"number", "insert"} => Fresh(task[w])
  /\ \A w, v \in Threads : Holding(w) /\ Holding(v) /\ task[w].number = task[v].number => w = v
  /\ \A x \in targets : x.job \in DOMAIN jobs
  /\ \A j \in DOMAIN jobs : jobs[j].status # "running" => Truth(jobs[j], Mine(j))

LEMMA TruthIsTheProperty == JobRows => JobsTellTheTruth
<1> SUFFICES ASSUME JobRows, NEW j \in DOMAIN jobs, jobs[j].status # "running"
             PROVE  LET mine == {x \in targets : x.job = j}
                        failing == {x.item[1] : x \in {x \in mine : ~ x.ok}}
                    IN  /\ \A i \in jobs[j].devices \X Types : Cardinality({x \in mine : x.item = i}) = 1
                        /\ jobs[j].failed = Cardinality(failing)
                        /\ jobs[j].succeeded = Cardinality(jobs[j].devices) - jobs[j].failed
                        /\ jobs[j].changed = Cardinality({x \in mine : x.changed})
                        /\ jobs[j].status = "completed" <=> failing = {}
                        /\ jobs[j].status = "failed" => failing = jobs[j].devices
  BY DEF JobsTellTheTruth
<1>1. Truth(jobs[j], Mine(j))
  BY DEF JobRows
<1> QED
  BY <1>1 DEF Truth, Mine

\* A job that is closed says the truth, if the tally of its backup was complete.
LEMMA ClosingTellsTheTruth ==
  ASSUME NEW t \in Task, NEW mine, Tally(t, {}, mine), NEW row,
         row.devices = t.devices, row.status = StatusOf(t), row.succeeded = Succeeded(t),
         row.failed = Cardinality(t.failure), row.changed = t.changed
  PROVE  Truth(row, mine)
<1> DEFINE failing == {x.item[1] : x \in {x \in mine : ~ x.ok}}
<1>1. failing = t.failure
  BY DEF Tally
<1>2. t.devices \subseteq Devices /\ t.success \subseteq Devices /\ t.failure \subseteq Devices
  BY DEF Task
<1>3. t.success \ t.failure = t.devices \ t.failure /\ t.failure \subseteq t.devices
  <2>1. PICK type \in Types : TRUE
    BY FleetAssumption
  <2>2. ASSUME NEW d \in t.devices PROVE d \in t.success \/ d \in t.failure
    <3>1. PICK x \in mine : x.item = <<d, type>>
      BY <2>1 DEF Tally
    <3> QED
      BY <3>1 DEF Tally
  <2> QED
    BY <2>2 DEF Tally
<1>4. /\ IsFiniteSet(t.devices) /\ Cardinality(t.devices) \in Nat /\ IsFiniteSet(t.failure) /\ Cardinality(t.failure) \in Nat
      /\ IsFiniteSet(t.success \ t.failure)
  BY <1>2, FleetIsCounted
<1>5. t.devices \cap t.failure = t.failure
  BY <1>3
<1>6. Succeeded(t) = Cardinality(t.devices) - Cardinality(t.failure)
  <2>1. Cardinality(t.devices \ t.failure) = Cardinality(t.devices) - Cardinality(t.devices \cap t.failure)
    BY <1>4, FS_Difference
  <2> QED
    BY <1>3, <1>5, <2>1 DEF Succeeded
<1>7. ASSUME NEW i \in t.devices \X Types PROVE Cardinality({x \in mine : x.item = i}) = 1
  <2>1. PICK x \in mine : x.item = i
    <3>1. PICK d \in t.devices, type \in Types \ {} : i = <<d, type>>
      OBVIOUS
    <3>2. \E x \in mine : x.item = <<d, type>>
      BY DEF Tally
    <3> QED
      BY <3>1, <3>2
  <2>2. {y \in mine : y.item = i} = {x}
    BY <2>1 DEF Tally
  <2> QED
    BY <2>2, FS_Singleton
<1>8. row.status = "completed" <=> failing = {}
  BY <1>1 DEF StatusOf
<1>9. row.status = "failed" => failing = row.devices
  <2>1. Succeeded(t) = 0 => t.success \ t.failure = {}
    BY <1>4, FS_EmptySet DEF Succeeded
  <2>2. row.status = "failed" => Succeeded(t) = 0
    BY DEF StatusOf
  <2> QED
    BY <1>1, <1>3, <2>1, <2>2
<1> HIDE DEF failing
<1>10. row.failed = Cardinality(failing) /\ row.succeeded = Cardinality(row.devices) - row.failed
  BY <1>1, <1>6
<1>11. row.changed = Cardinality({x \in mine : x.changed})
  BY DEF Tally
<1> QED
  BY <1>7, <1>8, <1>9, <1>10, <1>11 DEF Truth, failing

\* Who stays at its work, with the row and the targets of its job as they were, keeps its account.
LEMMA SameAccount ==
  ASSUME NEW w \in Threads, Account(w), pc'[w] = pc[w], task'[w] = task[w],
         task[w].number \in DOMAIN jobs', jobs'[task[w].number] = jobs[task[w].number],
         Mine(task[w].number)' = Mine(task[w].number)
  PROVE  Account(w)'
<1>1. Pending(w)' = Pending(w)
  BY DEF Pending
<1>2. Tally(task'[w], Pending(w)', Mine(task[w].number)')
  BY <1>1 DEF Account
<1> QED
  BY <1>2 DEF Account

\* Jobs and targets stay, and at most one thread moves, to where it holds no job or keeps its account.
LEMMA OneMoves ==
  ASSUME Shapes, JobRows, NEW w \in Threads, UNCHANGED << jobs, targets >>,
         \A v \in Threads : v # w => pc'[v] = pc[v] /\ task'[v] = task[v],
         pc'[w] \in {"number", "insert"} => Fresh(task'[w]),
         pc'[w] \in {"retrieve", "read", "write", "finish"} => Holding(w) /\ task'[w].number = task[w].number /\ Account(w)'
  PROVE  JobRows'
<1>1. \A n : {x \in targets' : x.job = n} = {x \in targets : x.job = n}
  OBVIOUS
<1>2. ASSUME NEW v \in Threads, Holding(v)' PROVE Account(v)' /\ Holding(v) /\ task'[v].number = task[v].number
  <2>1. CASE v = w
    BY <1>2, <2>1 DEF Holding
  <2>2. CASE v # w
    <3>1. Holding(v) /\ Account(v) /\ task[v].number \in DOMAIN jobs
      BY <1>2, <2>2 DEF Holding, JobRows, Account
    <3>2. Mine(task[v].number)' = Mine(task[v].number)
      BY <2>2 DEF Mine
    <3> QED
      BY <2>2, <3>1, <3>2, SameAccount
  <2> QED
    BY <2>1, <2>2
<1>3. ASSUME NEW v \in Threads, pc'[v] \in {"number", "insert"} PROVE Fresh(task'[v])
  BY <1>3 DEF JobRows
<1>4. \A u, v \in Threads : Holding(u)' /\ Holding(v)' /\ task'[u].number = task'[v].number => u = v
  BY <1>2 DEF JobRows
<1>5. \A x \in targets' : x.job \in DOMAIN jobs'
  BY DEF JobRows
<1>6. \A j \in DOMAIN jobs' : jobs'[j].status # "running" => Truth(jobs'[j], Mine(j)')
  BY <1>1 DEF JobRows, Mine
<1> QED
  BY <1>2, <1>3, <1>4, <1>5, <1>6 DEF JobRows

LEMMA RowsStart == Init => JobRows
  BY DEF Init, JobRows, Holding

LEMMA Became ==
  ASSUME Shapes, NEW w \in Threads, NEW label, NEW t, Become(w, label, t)
  PROVE  pc'[w] = label /\ task'[w] = t /\ \A v \in Threads : v # w => pc'[v] = pc[v] /\ task'[v] = task[v]
  BY DEF Become, Shapes, TypeOK

\* A step that concerns neither jobs nor targets nor threads.
LEMMA RowsStay ==
  ASSUME Shapes, JobRows, UNCHANGED << jobs, targets, pc, task >>
  PROVE  JobRows'
<1>1. \A w \in Threads : Pending(w)' = Pending(w) /\ Holding(w)' = Holding(w) /\ Mine(task[w].number)' = Mine(task[w].number)
  BY DEF Pending, Holding, Mine
<1>2. \A w \in Threads : Account(w) => Account(w)'
  BY <1>1, SameAccount DEF Account
<1>3. \A j : Mine(j)' = Mine(j)
  BY DEF Mine
<1> QED
  BY <1>1, <1>2, <1>3 DEF JobRows

\* What one transaction writes: a target for every device of the job.
Outcome(outcome, t, answering, new) ==
  /\ \A x \in outcome : /\ x.job = t.number /\ x.item[1] \in t.devices /\ x.item = <<x.item[1], t.type>>
                        /\ x.ok <=> x.item[1] \in answering
                        /\ x.changed <=> x.item[1] \in new
  /\ \A d \in t.devices : \E x \in outcome : x.item = <<d, t.type>>
  /\ \A x, y \in outcome : x.item = y.item => x = y

LEMMA WrittenType ==
  ASSUME NEW t \in Task, t.type \in Types, t.type \notin t.left, NEW mine, Tally(t, t.left \cup {t.type}, mine),
         NEW answering \in SUBSET t.devices, NEW new \in SUBSET t.devices,
         NEW outcome, Outcome(outcome, t, answering, new),
         NEW u, u.devices = t.devices, u.success = t.success \cup answering,
         u.failure = t.failure \cup (t.devices \ answering), u.changed = t.changed + Cardinality(new)
  PROVE  Tally(u, t.left, mine \cup outcome)
<1> DEFINE all == mine \cup outcome
           before == {x \in mine : x.changed}
           now == {x \in outcome : x.changed}
<1>1. \A x \in mine : x.item[1] \in t.devices /\ x.item[2] \in Types \ (t.left \cup {t.type})
  BY DEF Tally
<1>2. \A x \in outcome : x.item[1] \in t.devices /\ x.item[2] = t.type
  <2> TAKE x \in outcome
  <2>1. x.item[1] \in t.devices /\ x.item = <<x.item[1], t.type>>
    BY DEF Outcome
  <2> QED
    BY <2>1
<1>3. \A x \in all : x.item[1] \in u.devices /\ x.item[2] \in Types \ t.left
  BY <1>1, <1>2
<1>4. ASSUME NEW d \in u.devices, NEW type \in Types \ t.left PROVE \E x \in all : x.item = <<d, type>>
  <2>1. CASE type = t.type
    BY <2>1 DEF Outcome
  <2>2. CASE type # t.type
    <3>1. d \in t.devices /\ type \in Types \ (t.left \cup {t.type})
      BY <2>2
    <3>2. \A e \in t.devices, kind \in Types \ (t.left \cup {t.type}) : \E x \in mine : x.item = <<e, kind>>
      BY DEF Tally
    <3> QED
      BY <3>1, <3>2
  <2> QED
    BY <2>1, <2>2
<1>5. ASSUME NEW x \in all, NEW y \in all, x.item = y.item PROVE x = y
  <2>1. x \in mine /\ y \in mine => x = y
    BY <1>5 DEF Tally
  <2>2. x \in outcome /\ y \in outcome => x = y
    BY <1>5 DEF Outcome
  <2>3. ~ (x \in mine /\ y \in outcome) /\ ~ (y \in mine /\ x \in outcome)
    BY <1>1, <1>2, <1>5
  <2> QED
    BY <2>1, <2>2, <2>3
<1>6. \A x \in all : IF x.ok THEN x.item[1] \in u.success ELSE x.item[1] \in u.failure
  BY DEF Tally, Outcome
<1>7. ASSUME NEW d \in u.success PROVE \E x \in all : x.ok /\ x.item[1] = d
  <2>1. CASE d \in t.success
    BY <2>1 DEF Tally
  <2>2. CASE d \in answering
    <3>1. PICK x \in outcome : x.item = <<d, t.type>>
      BY <2>2 DEF Outcome
    <3> QED
      BY <2>2, <3>1 DEF Outcome
  <2> QED
    BY <2>1, <2>2
<1>8. ASSUME NEW d \in u.failure PROVE \E x \in all : ~ x.ok /\ x.item[1] = d
  <2>1. CASE d \in t.failure
    BY <2>1 DEF Tally
  <2>2. CASE d \in t.devices \ answering
    <3>1. PICK x \in outcome : x.item = <<d, t.type>>
      BY <2>2 DEF Outcome
    <3> QED
      BY <2>2, <3>1 DEF Outcome
  <2> QED
    BY <2>1, <2>2
<1>9. IsFiniteSet(now) /\ Cardinality(now) = Cardinality(new)
  <2> DEFINE f == [x \in now |-> x.item[1]]
  <2>1. \A x \in now : x.item[1] \in new
    BY DEF Outcome
  <2>2. \A x, y \in now : x.item[1] = y.item[1] => x = y
    BY DEF Outcome
  <2>3. \A d \in new : \E x \in now : x.item[1] = d
    <3> TAKE d \in new
    <3>1. PICK x \in outcome : x.item = <<d, t.type>>
      BY DEF Outcome
    <3>2. x.item[1] = d
      BY <3>1
    <3>3. x.changed
      BY <3>2 DEF Outcome
    <3> QED
      BY <3>2, <3>3
  <2> HIDE DEF now
  <2>4. f \in [now -> new]
    BY <2>1
  <2>5. f \in Injection(now, new)
    BY <2>2, <2>4 DEF Injection, IsInjective
  <2>6. f \in Surjection(now, new)
    BY <2>3, <2>4 DEF Surjection
  <2>7. IsFiniteSet(new)
    BY FleetIsCounted DEF Task
  <2> HIDE DEF f
  <2> QED
    BY <2>5, <2>6, <2>7, FS_Injection
<1>10. before \cap now = {} /\ {x \in all : x.changed} = before \cup now
  BY <1>1, <1>2
<1>11. IsFiniteSet(before) /\ t.changed = Cardinality(before) /\ Cardinality(before) \in Nat /\ Cardinality(now) \in Nat
  BY <1>9, FS_CardinalityType DEF Tally
<1>12. IsFiniteSet(before \cup now) /\ Cardinality(before \cup now) = Cardinality(before) + Cardinality(now)
  <2> HIDE DEF before, now
  <2>1. Cardinality({}) = 0
    BY FS_EmptySet
  <2>2. Cardinality(before \cup now) = Cardinality(before) + Cardinality(now) - Cardinality(before \cap now) /\ IsFiniteSet(before \cup now)
    BY <1>9, <1>11, FS_Union
  <2>3. Cardinality(before \cap now) = 0
    BY <1>10, <2>1
  <2> QED
    BY <1>11, <2>2, <2>3
<1>13. IsFiniteSet({x \in all : x.changed}) /\ u.changed = Cardinality({x \in all : x.changed})
  <2> HIDE DEF before, now, all
  <2> QED
    BY <1>9, <1>10, <1>11, <1>12
<1> HIDE DEF all
<1>14. \A d \in u.devices, type \in Types \ t.left : \E x \in all : x.item = <<d, type>>
  BY <1>4
<1>15. \A x, y \in all : x.item = y.item => x = y
  BY <1>5
<1>16. Tally(u, t.left, all)
  BY <1>3, <1>6, <1>7, <1>8, <1>13, <1>14, <1>15 DEF Tally
<1> QED
  BY <1>16 DEF all

LEMMA SameTally ==
  ASSUME NEW t, NEW u, NEW pending, NEW mine, Tally(t, pending, mine), u.devices = t.devices,
         u.success = t.success, u.failure = t.failure, u.changed = t.changed
  PROVE  Tally(u, pending, mine)
  BY DEF Tally

LEMMA RowsOfInsert ==
  ASSUME Shapes, JobRows, NEW w \in Threads, InsertJob(w)
  PROVE  JobRows'
<1> DEFINE t == task[w]
           n == Len(jobs) + 1
           row == [by |-> t.by, day |-> day, devices |-> t.devices, status |-> "running", succeeded |-> 0,
                   failed |-> 0, changed |-> 0, ended |-> 0]
<1>1. pc[w] = "insert" /\ t.number = n /\ jobs' = Append(jobs, row) /\ targets' = targets /\ Become(w, "retrieve", t)
  BY DEF InsertJob
<1>2. jobs \in Seq(Job) /\ t \in Task /\ Len(jobs) \in Nat
  BY DEF Shapes, TypeOK
<1>3. /\ DOMAIN jobs' = DOMAIN jobs \cup {n} /\ n \notin DOMAIN jobs /\ \A j \in DOMAIN jobs : jobs'[j] = jobs[j]
      /\ jobs'[n] = row
  <2> HIDE DEF row
  <2> QED
    BY <1>1, <1>2
<1>4. pc'[w] = "retrieve" /\ task'[w] = t /\ \A v \in Threads : v # w => pc'[v] = pc[v] /\ task'[v] = task[v]
  <2> HIDE DEF t
  <2> QED
    BY <1>1, Became
<1>5. Fresh(t)
  BY <1>1 DEF JobRows
<1>6. Account(w)'
  <2>1. \A x \in targets' : x.job # n
    BY <1>1, <1>3 DEF JobRows
  <2>2. Mine(task[w].number)' = {}
    BY <1>1, <1>4, <2>1 DEF Mine
  <2>3. Pending(w)' = Types
    BY <1>4, <1>5 DEF Pending, Fresh
  <2>4. Tally(t, Types, {})
    BY <1>5, FS_EmptySet DEF Tally, Fresh
  <2>5. Tally(task'[w], Pending(w)', Mine(task[w].number)')
    <3> HIDE DEF t
    <3> QED
      BY <1>4, <2>2, <2>3, <2>4
  <2>6. /\ t.number \in DOMAIN jobs' /\ jobs'[t.number].status = "running" /\ jobs'[t.number].by = t.by
        /\ jobs'[t.number].devices = t.devices
    BY <1>1, <1>3
  <2> QED
    BY <1>4, <2>5, <2>6 DEF Account
<1>7. ASSUME NEW v \in Threads, v # w, Holding(v)' PROVE Account(v)' /\ Holding(v) /\ task'[v].number \in DOMAIN jobs
  <2>1. Holding(v) /\ Account(v)
    BY <1>4, <1>7 DEF Holding, JobRows
  <2>2. task[v].number \in DOMAIN jobs
    BY <2>1 DEF Account
  <2>3. Mine(task[v].number)' = Mine(task[v].number)
    BY <1>1, <1>4, <1>7 DEF Mine
  <2>4. Account(v)'
    BY <1>3, <1>4, <1>7, <2>1, <2>2, <2>3, SameAccount
  <2> QED
    BY <1>4, <1>7, <2>1, <2>2, <2>4
<1>8. \A v \in Threads : Holding(v)' => Account(v)'
  BY <1>6, <1>7
<1>9. \A v \in Threads : pc'[v] \in {"number", "insert"} => Fresh(task'[v])
  BY <1>4 DEF JobRows
<1>10. ASSUME NEW u \in Threads, NEW v \in Threads, Holding(u)', Holding(v)', task'[u].number = task'[v].number PROVE u = v
  <2>1. CASE u # w /\ v # w
    BY <1>4, <1>7, <1>10, <2>1 DEF JobRows
  <2>2. CASE u = w /\ v # w
    BY <1>1, <1>3, <1>4, <1>7, <1>10, <2>2
  <2>3. CASE u # w /\ v = w
    BY <1>1, <1>3, <1>4, <1>7, <1>10, <2>3
  <2> QED
    BY <2>1, <2>2, <2>3
<1>11. \A x \in targets' : x.job \in DOMAIN jobs'
  BY <1>1, <1>3 DEF JobRows
<1>12. ASSUME NEW j \in DOMAIN jobs', jobs'[j].status # "running" PROVE Truth(jobs'[j], Mine(j)')
  <2>1. j \in DOMAIN jobs /\ jobs'[j] = jobs[j]
    BY <1>3, <1>12
  <2>2. Mine(j)' = Mine(j)
    BY <1>1 DEF Mine
  <2> QED
    BY <1>12, <2>1, <2>2 DEF JobRows
<1> QED
  BY <1>8, <1>9, <1>10, <1>11, <1>12 DEF JobRows

LEMMA RowsOfRetrieve ==
  ASSUME Shapes, JobRows, NEW w \in Threads, _retrieve_one(w)
  PROVE  JobRows'
<1> DEFINE t == task[w]
<1>1. PICK type \in t.left, failing \in SUBSET t.devices :
           Become(w, "read", [t EXCEPT !.type = type, !.left = @ \ {type},
             !.got = [d \in Devices |-> IF d \in t.devices \ failing THEN config[<<d, type>>] ELSE None]])
  BY DEF _retrieve_one
<1> DEFINE got == [d \in Devices |-> IF d \in t.devices \ failing THEN config[<<d, type>>] ELSE None]
           u == [t EXCEPT !.type = type, !.left = @ \ {type}, !.got = got]
<1>2. t \in Task /\ pc[w] = "retrieve"
  BY DEF Shapes, TypeOK, _retrieve_one
<1>3. /\ u.type = type /\ u.left = t.left \ {type} /\ u.number = t.number /\ u.devices = t.devices /\ u.by = t.by
      /\ u.success = t.success /\ u.failure = t.failure /\ u.changed = t.changed
  BY <1>2 DEF Task
<1> HIDE DEF u
<1>4. pc'[w] = "read" /\ task'[w] = u /\ \A v \in Threads : v # w => pc'[v] = pc[v] /\ task'[v] = task[v]
  BY <1>1, Became DEF u
<1>5. UNCHANGED << jobs, targets >>
  BY DEF _retrieve_one
<1>6. Holding(w) /\ Account(w)
  BY <1>2 DEF Holding, JobRows
<1>7. Pending(w)' = Pending(w) /\ Mine(task[w].number)' = Mine(task[w].number)
  BY <1>2, <1>3, <1>4, <1>5 DEF Pending, Mine
<1>8. Tally(task'[w], Pending(w)', Mine(task[w].number)')
  <2>1. Tally(t, Pending(w), Mine(t.number))
    BY <1>6 DEF Account
  <2>2. Tally(u, Pending(w), Mine(t.number))
    BY <1>3, <2>1, SameTally
  <2> QED
    BY <1>4, <1>7, <2>2
<1>9. Account(w)'
  BY <1>3, <1>4, <1>5, <1>6, <1>8 DEF Account
<1> QED
  BY <1>3, <1>4, <1>5, <1>6, <1>9, OneMoves

LEMMA RowsOfRead ==
  ASSUME Shapes, JobRows, NEW w \in Threads, ReadLatest(w)
  PROVE  JobRows'
<1> DEFINE t == task[w]
<1>1. PICK prev, version : Become(w, "write", [t EXCEPT !.prev = prev, !.version = version])
  BY DEF ReadLatest
<1> DEFINE u == [t EXCEPT !.prev = prev, !.version = version]
<1>2. t \in Task /\ pc[w] = "read"
  BY DEF Shapes, TypeOK, ReadLatest
<1>3. /\ u.type = t.type /\ u.left = t.left /\ u.number = t.number /\ u.devices = t.devices /\ u.by = t.by
      /\ u.success = t.success /\ u.failure = t.failure /\ u.changed = t.changed
  BY <1>2 DEF Task
<1> HIDE DEF u
<1>4. pc'[w] = "write" /\ task'[w] = u /\ \A v \in Threads : v # w => pc'[v] = pc[v] /\ task'[v] = task[v]
  BY <1>1, Became DEF u
<1>5. UNCHANGED << jobs, targets >>
  BY DEF ReadLatest
<1>6. Holding(w) /\ Account(w)
  BY <1>2 DEF Holding, JobRows
<1>7. Pending(w)' = Pending(w) /\ Mine(task[w].number)' = Mine(task[w].number)
  BY <1>2, <1>3, <1>4, <1>5 DEF Pending, Mine
<1>8. Tally(task'[w], Pending(w)', Mine(task[w].number)')
  <2>1. Tally(t, Pending(w), Mine(t.number))
    BY <1>6 DEF Account
  <2>2. Tally(u, Pending(w), Mine(t.number))
    BY <1>3, <2>1, SameTally
  <2> QED
    BY <1>4, <1>7, <2>2
<1>9. Account(w)'
  BY <1>2, <1>3, <1>4, <1>5, <1>6, <1>8 DEF Account
<1> QED
  BY <1>3, <1>4, <1>5, <1>6, <1>9, OneMoves

LEMMA RowsOfWrite ==
  ASSUME Shapes, JobRows, NEW w \in Threads, archive_configuration(w)
  PROVE  JobRows'
<1> DEFINE t == task[w]
           new == {d \in t.devices : IsNew(t, d)}
           answering == {d \in t.devices : t.got[d] # None}
           outcome == {[job |-> t.number, item |-> <<d, t.type>>, ok |-> d \in answering, changed |-> d \in new] : d \in t.devices}
           label == IF t.left = {} THEN "finish" ELSE "retrieve"
           u == [t EXCEPT !.type = None, !.got = Nothing, !.prev = Nothing, !.version = NoTask.version,
                          !.success = @ \cup answering, !.failure = @ \cup (t.devices \ answering),
                          !.changed = @ + Cardinality(new)]
<1>1. pc[w] = "write" /\ targets' = targets \cup outcome /\ jobs' = jobs /\ Become(w, label, u)
  BY DEF archive_configuration
<1>2. t \in Task /\ t.type \in Types
  BY <1>1 DEF Shapes, TypeOK
<1>3. new \subseteq t.devices /\ answering \subseteq t.devices
  OBVIOUS
<1>4. /\ u.left = t.left /\ u.number = t.number /\ u.devices = t.devices /\ u.by = t.by
      /\ u.success = t.success \cup answering /\ u.failure = t.failure \cup (t.devices \ answering)
      /\ u.changed = t.changed + Cardinality(new)
  <2> HIDE DEF new, answering
  <2> QED
    BY <1>2 DEF Task
<1>5. Outcome(outcome, t, answering, new)
  <2>1. ASSUME NEW x \in outcome
        PROVE  /\ x.job = t.number /\ x.item[1] \in t.devices /\ x.item = <<x.item[1], t.type>>
               /\ x.ok <=> x.item[1] \in answering
               /\ x.changed <=> x.item[1] \in new
    <3>1. PICK d \in t.devices : x = [job |-> t.number, item |-> <<d, t.type>>, ok |-> d \in answering, changed |-> d \in new]
      OBVIOUS
    <3> HIDE DEF answering, new, outcome
    <3> QED
      BY <3>1
  <2>2. \A d \in t.devices : \E x \in outcome : x.item = <<d, t.type>>
    <3> TAKE d \in t.devices
    <3> DEFINE x == [job |-> t.number, item |-> <<d, t.type>>, ok |-> d \in answering, changed |-> d \in new]
    <3>1. x \in outcome
      OBVIOUS
    <3>2. x.item = <<d, t.type>>
      OBVIOUS
    <3> HIDE DEF x, outcome
    <3> QED
      BY <3>1, <3>2
  <2>3. ASSUME NEW x \in outcome, NEW y \in outcome, x.item = y.item PROVE x = y
    <3>1. PICK d \in t.devices : x = [job |-> t.number, item |-> <<d, t.type>>, ok |-> d \in answering, changed |-> d \in new]
      OBVIOUS
    <3>2. PICK e \in t.devices : y = [job |-> t.number, item |-> <<e, t.type>>, ok |-> e \in answering, changed |-> e \in new]
      OBVIOUS
    <3> HIDE DEF answering, new, outcome
    <3>3. d = e
      BY <2>3, <3>1, <3>2
    <3> QED
      BY <3>1, <3>2, <3>3
  <2> HIDE DEF outcome, answering, new
  <2> QED
    BY <2>1, <2>2, <2>3 DEF Outcome
<1> HIDE DEF outcome, answering, new, u, label
<1>6. pc'[w] = label /\ task'[w] = u /\ \A v \in Threads : v # w => pc'[v] = pc[v] /\ task'[v] = task[v]
  BY <1>1, Became
<1>7. label \in {"finish", "retrieve"} /\ (label = "finish" => t.left = {})
  BY DEF label
<1>8. Holding(w) /\ Account(w)
  BY <1>1 DEF Holding, JobRows
<1>9. Account(w)'
  <2>1. Tally(t, t.left \cup {t.type}, Mine(t.number)) /\ t.type \notin t.left
    BY <1>1, <1>8 DEF Account, Pending
  <2>2. Tally(u, t.left, Mine(t.number) \cup outcome)
    BY <1>2, <1>3, <1>4, <1>5, <2>1, WrittenType
  <2>3. Mine(task[w].number)' = Mine(t.number) \cup outcome
    <3>1. \A x \in outcome : x.job = t.number
      BY <1>5 DEF Outcome
    <3> QED
      BY <1>1, <1>4, <1>6, <3>1 DEF Mine
  <2>4. Pending(w)' = t.left
    BY <1>4, <1>6, <1>7 DEF Pending
  <2>5. Tally(task'[w], Pending(w)', Mine(task[w].number)')
    BY <1>6, <2>2, <2>3, <2>4
  <2> QED
    BY <1>1, <1>4, <1>6, <1>7, <1>8, <2>5 DEF Account
<1>10. ASSUME NEW v \in Threads, v # w, Holding(v)' PROVE Account(v)' /\ Holding(v)
  <2>1. Holding(v) /\ Account(v)
    BY <1>6, <1>10 DEF Holding, JobRows
  <2>2. task[v].number # t.number /\ task[v].number \in DOMAIN jobs'
    BY <1>1, <1>8, <1>10, <2>1 DEF JobRows, Account
  <2>3. Mine(task[v].number)' = Mine(task[v].number)
    BY <1>1, <1>5, <1>6, <1>10, <2>2 DEF Mine, Outcome
  <2> QED
    BY <1>1, <1>6, <1>10, <2>1, <2>2, <2>3, SameAccount
<1>11. \A v \in Threads : Holding(v)' => Account(v)' /\ Holding(v) /\ task'[v].number = task[v].number
  BY <1>4, <1>6, <1>8, <1>9, <1>10
<1>12. \A v \in Threads : pc'[v] \in {"number", "insert"} => Fresh(task'[v])
  BY <1>6, <1>7 DEF JobRows
<1>13. \A v1, v2 \in Threads : Holding(v1)' /\ Holding(v2)' /\ task'[v1].number = task'[v2].number => v1 = v2
  BY <1>11 DEF JobRows
<1>14. \A x \in targets' : x.job \in DOMAIN jobs'
  BY <1>1, <1>5, <1>8 DEF JobRows, Outcome, Account
<1>15. ASSUME NEW j \in DOMAIN jobs', jobs'[j].status # "running" PROVE Truth(jobs'[j], Mine(j)')
  <2>1. j # t.number
    BY <1>1, <1>8, <1>15 DEF Account
  <2>2. Mine(j)' = Mine(j)
    BY <1>1, <1>5, <2>1 DEF Mine, Outcome
  <2> QED
    BY <1>1, <1>15, <2>2 DEF JobRows
<1> QED
  BY <1>11, <1>12, <1>13, <1>14, <1>15 DEF JobRows

LEMMA RowsOfFinish ==
  ASSUME Shapes, JobRows, NEW w \in Threads, FinishJob(w)
  PROVE  JobRows'
<1> DEFINE t == task[w]
           n == t.number
           row == [jobs[n] EXCEPT !.status = StatusOf(t), !.succeeded = Succeeded(t),
                                  !.failed = Cardinality(t.failure), !.changed = t.changed, !.ended = day]
<1>1. pc[w] = "finish" /\ targets' = targets
  BY DEF FinishJob
<1>2. t \in Task /\ jobs \in Seq(Job)
  BY DEF Shapes, TypeOK
<1>3. Holding(w) /\ Account(w)
  BY <1>1 DEF Holding, JobRows
<1>4. n \in DOMAIN jobs /\ jobs[n] \in Job /\ jobs[n].status = "running" /\ jobs[n].devices = t.devices /\ t.left = {}
  BY <1>1, <1>2, <1>3 DEF Account
<1>5. jobs' = [jobs EXCEPT ![n] = row]
  <2>1. jobs' = [jobs EXCEPT ![n].status = StatusOf(t), ![n].succeeded = Succeeded(t),
                   ![n].failed = Cardinality(t.failure), ![n].changed = t.changed, ![n].ended = day]
    BY DEF FinishJob
  <2> QED
    BY <1>2, <2>1
<1>6. DOMAIN jobs' = DOMAIN jobs /\ jobs'[n] = row /\ \A j \in DOMAIN jobs : j # n => jobs'[j] = jobs[j]
  <2> HIDE DEF row
  <2> QED
    BY <1>4, <1>5
<1>7. /\ row.devices = t.devices /\ row.status = StatusOf(t) /\ row.succeeded = Succeeded(t)
      /\ row.failed = Cardinality(t.failure) /\ row.changed = t.changed
  BY <1>4 DEF Job
<1> HIDE DEF row
<1>8. \A v \in Threads : v # w => pc'[v] = pc[v] /\ task'[v] = task[v]
  BY Became DEF FinishJob
<1>9. pc'[w] \in {"idle", "mark"}
  BY Became DEF FinishJob
<1>10. ASSUME NEW v \in Threads, Holding(v)' PROVE v # w /\ Account(v)' /\ Holding(v)
  <2>1. v # w
    BY <1>9, <1>10 DEF Holding
  <2>2. Holding(v) /\ Account(v)
    BY <1>8, <1>10, <2>1 DEF Holding, JobRows
  <2>3. task[v].number # n /\ task[v].number \in DOMAIN jobs
    BY <1>3, <2>1, <2>2 DEF JobRows, Account
  <2>4. Mine(task[v].number)' = Mine(task[v].number)
    BY <1>1, <1>8, <2>1 DEF Mine
  <2> QED
    BY <1>6, <1>8, <2>1, <2>2, <2>3, <2>4, SameAccount
<1>11. \A v \in Threads : Holding(v)' => Account(v)' /\ Holding(v) /\ task'[v].number = task[v].number
  BY <1>8, <1>10
<1>12. \A v \in Threads : pc'[v] \in {"number", "insert"} => Fresh(task'[v])
  BY <1>8, <1>9 DEF JobRows
<1>13. \A v1, v2 \in Threads : Holding(v1)' /\ Holding(v2)' /\ task'[v1].number = task'[v2].number => v1 = v2
  BY <1>11 DEF JobRows
<1>14. \A x \in targets' : x.job \in DOMAIN jobs'
  BY <1>1, <1>6 DEF JobRows
<1>15. ASSUME NEW j \in DOMAIN jobs', jobs'[j].status # "running" PROVE Truth(jobs'[j], Mine(j)')
  <2>1. Mine(j)' = Mine(j)
    BY <1>1 DEF Mine
  <2>2. CASE j # n
    BY <1>6, <1>15, <2>1, <2>2 DEF JobRows
  <2>3. CASE j = n
    <3>1. Pending(w) = {}
      BY <1>1, <1>4 DEF Pending
    <3>2. Tally(t, {}, Mine(n))
      BY <1>3, <3>1 DEF Account
    <3>3. Truth(row, Mine(n))
      BY <1>2, <1>7, <3>2, ClosingTellsTheTruth
    <3> QED
      BY <1>6, <2>1, <2>3, <3>3
  <2> QED
    BY <2>2, <2>3
<1> QED
  BY <1>11, <1>12, <1>13, <1>14, <1>15 DEF JobRows

LEMMA RowsKept == Shapes /\ JobRows /\ [Next]_vars => JobRows'
<1> SUFFICES ASSUME Shapes, JobRows, [Next]_vars PROVE JobRows'
  OBVIOUS
<1>1. ASSUME NEW w \in Threads, Raise(w) PROVE JobRows'
  <2>1. /\ UNCHANGED << jobs, targets >> /\ Become(w, "idle", NoTask)
    BY <1>1 DEF Raise
  <2>2. pc'[w] = "idle" /\ \A v \in Threads : v # w => pc'[v] = pc[v] /\ task'[v] = task[v]
    BY <2>1, Became
  <2> QED
    BY <2>1, <2>2, OneMoves
<1>2. ASSUME NEW w \in Threads, NEW by, NEW D, Begin(w, by, D), UNCHANGED << jobs, targets >> PROVE JobRows'
  <2> DEFINE t == [NoTask EXCEPT !.by = by, !.devices = D, !.left = Types]
  <2>1. Fresh(t)
    BY IdleTask DEF Fresh
  <2>2. Become(w, "number", t)
    BY <1>2 DEF Begin
  <2> HIDE DEF t
  <2>3. pc'[w] = "number" /\ task'[w] = t /\ \A v \in Threads : v # w => pc'[v] = pc[v] /\ task'[v] = task[v]
    BY <2>2, Became
  <2> QED
    BY <1>2, <2>1, <2>3, OneMoves
<1>3. ASSUME NEW w \in Threads, _next_job_number(w) PROVE JobRows'
  <2> DEFINE t == [task[w] EXCEPT !.number = Len(jobs) + 1]
  <2>1. Fresh(task[w]) /\ task[w] \in Task
    BY <1>3 DEF _next_job_number, JobRows, Shapes, TypeOK
  <2>2. Fresh(t)
    BY <2>1 DEF Fresh, Task
  <2>3. Become(w, "insert", t) /\ UNCHANGED << jobs, targets >>
    BY <1>3 DEF _next_job_number
  <2> HIDE DEF t
  <2>4. pc'[w] = "insert" /\ task'[w] = t /\ \A v \in Threads : v # w => pc'[v] = pc[v] /\ task'[v] = task[v]
    BY <2>3, Became
  <2> QED
    BY <2>2, <2>3, <2>4, OneMoves
<1>4. ASSUME NEW w \in Threads, Proceed(w) PROVE JobRows'
  BY <1>1, <1>3, <1>4, RowsOfInsert, RowsOfRetrieve, RowsOfRead, RowsOfWrite, RowsOfFinish DEF Proceed, NumberTaken, WriteFails
<1>5. CASE MarkRun
  <2>1. Scheduler \in Threads /\ UNCHANGED << jobs, targets >> /\ Become(Scheduler, "idle", NoTask)
    BY <1>5 DEF MarkRun, Threads
  <2>2. pc'[Scheduler] = "idle" /\ \A v \in Threads : v # Scheduler => pc'[v] = pc[v] /\ task'[v] = task[v]
    BY <2>1, Became
  <2> QED
    BY <2>1, <2>2, OneMoves
<1>6. ASSUME NEW s \in Schedules, run_due_schedule(s) PROVE JobRows'
  BY <1>2, <1>6 DEF run_due_schedule, Threads
<1>7. ASSUME NEW w \in Workers, NEW D \in SUBSET Devices, run_backup(w, D) PROVE JobRows'
  BY <1>2, <1>7 DEF run_backup, Threads
<1>8. CASE Crash
  <2>1. UNCHANGED << jobs, targets >> /\ \A w \in Threads : pc'[w] = "idle"
    BY <1>8 DEF Crash
  <2>2. \A j : Mine(j)' = Mine(j)
    BY <2>1 DEF Mine
  <2> QED
    BY <2>1, <2>2 DEF JobRows, Holding
<1>9. CASE _poll_once \/ Midnight \/ UNCHANGED vars
  BY <1>9, RowsStay DEF _poll_once, Midnight, vars
<1>10. ASSUME NEW s \in Schedules, TimeComes(s) PROVE JobRows'
  BY <1>10, RowsStay DEF TimeComes
<1>11. ASSUME NEW i \in Items, clear_baseline(i) \/ \E c \in Contents : Reconfigure(i, c) PROVE JobRows'
  BY <1>11, RowsStay DEF clear_baseline, Reconfigure
<1>12. ASSUME NEW x \in archive, set_baseline(x) \/ delete_configuration(x) PROVE JobRows'
  BY <1>12, RowsStay DEF set_baseline, delete_configuration
<1>13. ASSUME NEW d \in Devices, delete_device(d) PROVE JobRows'
  BY <1>13, RowsStay DEF delete_device
<1> QED
  BY <1>4, <1>5, <1>6, <1>7, <1>8, <1>9, <1>10, <1>11, <1>12, <1>13 DEF Next, Schedule

\* A closed job says what became of every device of it, whichever backups overlap, fail or die
\* around it: its targets are complete and its figures are theirs.
THEOREM ClosedJobsTellTheTruth == Spec => []JobsTellTheTruth
<1>1. Init => Shapes /\ JobRows
  BY TypesStart, RowsStart
<1>2. Shapes /\ JobRows /\ [Next]_vars => Shapes' /\ JobRows'
  BY TypesKept, RowsKept
<1> QED
  BY <1>1, <1>2, TruthIsTheProperty, PTL DEF Spec

-----------------------------------------------------------------------------
Closed(j) == jobs[j].status # "running" /\ jobs[j].by \in Schedules

AtMark(s) == pc[Scheduler] = "mark" /\ task[Scheduler].by = s

\* What a schedule has completed is of an earlier day than what it is about to do, unless it is
\* marked, or about to be.
Done ==
  /\ \A j \in DOMAIN jobs : Closed(j) => jobs[j].day <= lastRun[jobs[j].by] \/ AtMark(jobs[j].by)
  /\ Holding(Scheduler) => jobs[task[Scheduler].number].day > lastRun[task[Scheduler].by]
  /\ \A j, k \in DOMAIN jobs : Closed(j) /\ Closed(k) /\ jobs[j].by = jobs[k].by /\ jobs[j].day = jobs[k].day => j = k

Calendar ==
  /\ \A s \in Schedules : lastRun[s] <= day
  /\ \A s \in queue : lastRun[s] < day
  /\ pc[Scheduler] # "idle" => task[Scheduler].by \in Schedules \ queue
  /\ pc[Scheduler] \notin {"idle", "mark"} => lastRun[task[Scheduler].by] < day
  /\ \A w \in Workers : pc[w] # "idle" => task[w].by = Manual
  /\ \A j \in DOMAIN jobs : jobs[j].day <= day
  /\ spent.crashes = 0 => Done

\* The days are numbers.
LEMMA Days ==
  ASSUME Shapes
  PROVE  /\ day \in Nat /\ \A s \in Schedules : lastRun[s] \in Nat
         /\ \A j \in DOMAIN jobs : jobs[j].day \in Nat /\ jobs[j] \in Job /\ jobs[j].by \in Schedules \cup {Manual}
         /\ Scheduler \in Threads /\ Scheduler \notin Workers /\ Manual \notin Schedules
         /\ queue \subseteq Schedules /\ Threads = Workers \cup {Scheduler}
<1>1. /\ jobs \in Seq(Job) /\ lastRun \in [Schedules -> 0 .. MaxDays] /\ day \in 1 .. MaxDays /\ queue \subseteq Schedules
      /\ MaxDays \in Nat
  BY BoundsAssumption DEF Shapes, TypeOK
<1>2. \A j \in DOMAIN jobs : jobs[j] \in Job
  BY <1>1
<1>3. \A j \in DOMAIN jobs : jobs[j].day \in Nat /\ jobs[j].by \in Schedules \cup {Manual}
  BY <1>2 DEF Job
<1>4. \A s \in Schedules : lastRun[s] \in Nat
  BY <1>1
<1>5. day \in Nat
  BY <1>1
<1> QED
  BY <1>1, <1>2, <1>3, <1>4, <1>5, TargetsAssumption, ThreadsAssumption DEF Threads

LEMMA CalendarIsOnce == Shapes /\ Calendar => OncePerDay
<1> SUFFICES ASSUME Shapes, Calendar, spent.crashes = 0, NEW j \in DOMAIN jobs, NEW k \in DOMAIN jobs,
                    j # k, jobs[j].by = jobs[k].by, jobs[j].by # Manual, jobs[j].day = jobs[k].day
             PROVE  "running" \in {jobs[j].status, jobs[k].status}
  BY DEF OncePerDay
<1>1. jobs[j].by \in Schedules
  BY Days
<1> QED
  BY <1>1 DEF Calendar, Done, Closed

LEMMA CalendarStart == Init => Calendar
<1> SUFFICES ASSUME Init PROVE Calendar
  OBVIOUS
<1>1. \A s \in Schedules : lastRun[s] = 0
  BY DEF Init
<1>2. DOMAIN jobs = {} /\ queue = {} /\ day = 1
  BY DEF Init
<1>3. \A w \in Threads : pc[w] = "idle"
  BY DEF Init
<1>4. Scheduler \in Threads /\ Workers \subseteq Threads
  BY DEF Threads
<1> QED
  BY <1>1, <1>2, <1>3, <1>4 DEF Calendar, Done, Holding

\* A thread moves on with its backup, or gives it up; jobs and marks are not concerned.
LEMMA CalendarOfStep ==
  ASSUME Shapes, Calendar, NEW w \in Threads, UNCHANGED << jobs, lastRun, day >>, spent'.crashes = spent.crashes,
         pc[w] \notin {"idle", "mark"}, pc'[w] # "mark", queue' \in {queue, {}},
         \A v \in Threads : v # w => pc'[v] = pc[v] /\ task'[v] = task[v],
         pc'[w] # "idle" => task'[w].by = task[w].by,
         Holding(w)' => Holding(w) /\ task'[w].number = task[w].number
  PROVE  Calendar'
<1>1. /\ \A s \in Schedules : lastRun'[s] <= day'
      /\ \A s \in queue' : lastRun'[s] < day'
      /\ \A j \in DOMAIN jobs' : jobs'[j].day <= day'
  BY DEF Calendar
<1>2. /\ pc'[Scheduler] # "idle" => task'[Scheduler].by \in Schedules \ queue'
      /\ pc'[Scheduler] \notin {"idle", "mark"} => lastRun'[task'[Scheduler].by] < day'
  BY Days DEF Calendar
<1>3. \A v \in Workers : pc'[v] # "idle" => task'[v].by = Manual
  BY Days DEF Calendar
<1>4. ASSUME spent'.crashes = 0 PROVE Done'
  <2>1. Done
    BY <1>4 DEF Calendar
  <2>2. \A s \in Schedules : AtMark(s) => AtMark(s)'
    BY Days DEF AtMark
  <2>3. \A j \in DOMAIN jobs : Closed(j)' <=> Closed(j)
    BY DEF Closed
  <2>4. \A j \in DOMAIN jobs' : Closed(j)' => jobs'[j].day <= lastRun'[jobs'[j].by] \/ AtMark(jobs[j].by)'
    BY <2>1, <2>2, <2>3 DEF Done, Closed
  <2>5. Holding(Scheduler)' => jobs'[task'[Scheduler].number].day > lastRun'[task'[Scheduler].by]
    BY <2>1, Days DEF Done, Holding
  <2> QED
    BY <2>1, <2>3, <2>4, <2>5 DEF Done
<1> QED
  BY <1>1, <1>2, <1>3, <1>4 DEF Calendar

\* Jobs, marks and the scheduler are not concerned.
LEMMA CalendarStays ==
  ASSUME Shapes, Calendar, UNCHANGED << jobs, lastRun, queue >>, day <= day', day' \in Nat, spent'.crashes = spent.crashes,
         pc'[Scheduler] = pc[Scheduler], task'[Scheduler] = task[Scheduler],
         \A w \in Workers : pc'[w] # "idle" => task'[w].by = Manual
  PROVE  Calendar'
<1>1. \A s \in Schedules : lastRun'[s] <= day' /\ lastRun[s] \in Nat /\ (lastRun[s] < day => lastRun'[s] < day')
  BY Days DEF Calendar
<1>2. \A j \in DOMAIN jobs' : jobs'[j].day <= day'
  BY Days DEF Calendar
<1>3. /\ \A s \in queue' : lastRun'[s] < day'
      /\ pc'[Scheduler] # "idle" => task'[Scheduler].by \in Schedules \ queue'
      /\ pc'[Scheduler] \notin {"idle", "mark"} => lastRun'[task'[Scheduler].by] < day'
  BY <1>1, Days DEF Calendar
<1>4. Done => Done'
  BY DEF Done, Closed, AtMark, Holding
<1> QED
  BY <1>1, <1>2, <1>3, <1>4 DEF Calendar

LEMMA CalendarOfInsert ==
  ASSUME Shapes, Calendar, JobRows, NEW w \in Threads, InsertJob(w)
  PROVE  Calendar'
<1> DEFINE t == task[w]
           n == Len(jobs) + 1
           row == [by |-> t.by, day |-> day, devices |-> t.devices, status |-> "running", succeeded |-> 0,
                   failed |-> 0, changed |-> 0, ended |-> 0]
<1>1. /\ pc[w] = "insert" /\ t.number = n /\ jobs' = Append(jobs, row) /\ Become(w, "retrieve", t)
      /\ UNCHANGED << lastRun, day, queue, spent >>
  BY DEF InsertJob
<1>2. jobs \in Seq(Job) /\ Len(jobs) \in Nat
  BY DEF Shapes, TypeOK
<1>3. /\ DOMAIN jobs' = DOMAIN jobs \cup {n} /\ n \notin DOMAIN jobs /\ \A j \in DOMAIN jobs : jobs'[j] = jobs[j]
      /\ jobs'[n] = row
  <2> HIDE DEF row
  <2> QED
    BY <1>1, <1>2
<1>4. row.by = t.by /\ row.day = day /\ row.status = "running"
  OBVIOUS
<1> HIDE DEF row, n
<1>5. pc'[w] = "retrieve" /\ task'[w] = t /\ \A v \in Threads : v # w => pc'[v] = pc[v] /\ task'[v] = task[v]
  <2> HIDE DEF t
  <2> QED
    BY <1>1, Became
<1>6. /\ \A s \in Schedules : lastRun'[s] <= day'
      /\ \A s \in queue' : lastRun'[s] < day'
  BY <1>1 DEF Calendar
<1>7. \A j \in DOMAIN jobs' : jobs'[j].day <= day'
  BY <1>1, <1>3, <1>4, Days DEF Calendar
<1>8. /\ pc'[Scheduler] # "idle" => task'[Scheduler].by \in Schedules \ queue'
      /\ pc'[Scheduler] \notin {"idle", "mark"} => lastRun'[task'[Scheduler].by] < day'
  BY <1>1, <1>5, Days DEF Calendar
<1>9. \A v \in Workers : pc'[v] # "idle" => task'[v].by = Manual
  BY <1>1, <1>5, Days DEF Calendar
<1>10. ASSUME Done PROVE Done'
  <2>1. \A j \in DOMAIN jobs' : Closed(j)' => j \in DOMAIN jobs /\ Closed(j) /\ jobs'[j] = jobs[j]
    BY <1>3, <1>4 DEF Closed
  <2>2. \A s \in Schedules : AtMark(s) => AtMark(s)'
    BY <1>1, <1>5, Days DEF AtMark
  <2>3. \A j \in DOMAIN jobs' : Closed(j)' => jobs'[j].day <= lastRun'[jobs'[j].by] \/ AtMark(jobs[j].by)'
    <3> TAKE j \in DOMAIN jobs'
    <3> HAVE Closed(j)'
    <3>1. jobs[j].day <= lastRun[jobs[j].by] \/ AtMark(jobs[j].by)
      BY <1>10, <2>1 DEF Done
    <3>2. AtMark(jobs[j].by) => AtMark(jobs[j].by)'
      BY <1>1, <1>5, <2>1, Days DEF AtMark
    <3> QED
      BY <1>1, <2>1, <3>1, <3>2
  <2>4. Holding(Scheduler)' => jobs'[task'[Scheduler].number].day > lastRun'[task'[Scheduler].by]
    <3>1. CASE w = Scheduler
      BY <1>1, <1>3, <1>4, <1>5, <3>1, Days DEF Calendar
    <3>2. CASE w # Scheduler
      <4>1. Holding(Scheduler)' => Holding(Scheduler) /\ task'[Scheduler] = task[Scheduler]
        BY <1>5, <3>2, Days DEF Holding
      <4>2. Holding(Scheduler) => task[Scheduler].number \in DOMAIN jobs
        BY Days DEF JobRows, Account
      <4> QED
        BY <1>1, <1>3, <1>10, <4>1, <4>2 DEF Done
    <3> QED
      BY <3>1, <3>2
  <2> QED
    BY <1>10, <2>1, <2>3, <2>4 DEF Done
<1> QED
  BY <1>1, <1>6, <1>7, <1>8, <1>9, <1>10 DEF Calendar

LEMMA CalendarOfFinish ==
  ASSUME Shapes, Calendar, JobRows, NEW w \in Threads, FinishJob(w)
  PROVE  Calendar'
<1> DEFINE t == task[w]
           n == t.number
<1>1. pc[w] = "finish" /\ UNCHANGED << lastRun, day, queue, spent >>
  BY DEF FinishJob
<1>2. t \in Task /\ jobs \in Seq(Job)
  BY DEF Shapes, TypeOK
<1>3. Holding(w) /\ n \in DOMAIN jobs /\ jobs[n] \in Job /\ jobs[n].status = "running" /\ jobs[n].by = t.by
  BY <1>1, <1>2 DEF Holding, JobRows, Account
<1>4. /\ DOMAIN jobs' = DOMAIN jobs /\ \A j \in DOMAIN jobs : j # n => jobs'[j] = jobs[j]
      /\ jobs'[n].day = jobs[n].day /\ jobs'[n].by = t.by
  <2>1. jobs' = [jobs EXCEPT ![n].status = StatusOf(t), ![n].succeeded = Succeeded(t),
                   ![n].failed = Cardinality(t.failure), ![n].changed = t.changed, ![n].ended = day]
    BY DEF FinishJob
  <2>2. jobs' = [jobs EXCEPT ![n] = [jobs[n] EXCEPT !.status = StatusOf(t), !.succeeded = Succeeded(t),
                   !.failed = Cardinality(t.failure), !.changed = t.changed, !.ended = day]]
    BY <1>2, <2>1
  <2> DEFINE row == [jobs[n] EXCEPT !.status = StatusOf(t), !.succeeded = Succeeded(t),
                       !.failed = Cardinality(t.failure), !.changed = t.changed, !.ended = day]
  <2>3. row.day = jobs[n].day /\ row.by = jobs[n].by
    BY <1>3 DEF Job
  <2>4. jobs' = [jobs EXCEPT ![n] = row]
    BY <2>2
  <2> HIDE DEF row
  <2> QED
    BY <1>3, <2>3, <2>4
<1>5. \A v \in Threads : v # w => pc'[v] = pc[v] /\ task'[v] = task[v]
  BY Became DEF FinishJob
<1>6. IF w = Scheduler THEN pc'[w] = "mark" /\ task'[w].by = t.by ELSE pc'[w] = "idle"
  <2>1. CASE w = Scheduler
    <3>1. Become(w, "mark", [NoTask EXCEPT !.by = t.by])
      BY <2>1 DEF FinishJob
    <3>2. pc'[w] = "mark" /\ task'[w] = [NoTask EXCEPT !.by = t.by]
      BY <3>1, Became
    <3> QED
      BY <2>1, <3>2, IdleTask
  <2>2. CASE w # Scheduler
    BY <2>2, Became DEF FinishJob
  <2> QED
    BY <2>1, <2>2
<1>7. /\ \A s \in Schedules : lastRun'[s] <= day'
      /\ \A s \in queue' : lastRun'[s] < day'
  BY <1>1 DEF Calendar
<1>8. \A j \in DOMAIN jobs' : jobs'[j].day <= day'
  BY <1>1, <1>3, <1>4, Days DEF Calendar
<1>9. /\ pc'[Scheduler] # "idle" => task'[Scheduler].by \in Schedules \ queue'
      /\ pc'[Scheduler] \notin {"idle", "mark"} => lastRun'[task'[Scheduler].by] < day'
  BY <1>1, <1>5, <1>6, Days DEF Calendar
<1>10. \A v \in Workers : pc'[v] # "idle" => task'[v].by = Manual
  BY <1>1, <1>5, <1>6, Days DEF Calendar
<1>11. ASSUME Done PROVE Done'
  <2>1. CASE w = Scheduler
    <3> DEFINE s == t.by
    <3>1. s \in Schedules /\ jobs[n].day > lastRun[s]
      BY <1>1, <1>3, <1>11, <2>1 DEF Calendar, Done
    <3>2. ASSUME NEW j \in DOMAIN jobs, Closed(j)' PROVE j = n \/ (Closed(j) /\ jobs'[j] = jobs[j] /\ jobs[j].day <= lastRun[jobs[j].by])
      <4>1. j # n => Closed(j) /\ jobs'[j] = jobs[j]
        BY <1>4, <3>2 DEF Closed
      <4>2. ~ AtMark(jobs[j].by)
        BY <1>1, <2>1 DEF AtMark
      <4> QED
        BY <1>11, <4>1, <4>2 DEF Done
    <3>3. ASSUME NEW j, j = n PROVE AtMark(jobs[j].by)'
      BY <1>4, <1>6, <2>1, <3>3 DEF AtMark
    <3>4. \A j \in DOMAIN jobs' : Closed(j)' => jobs'[j].day <= lastRun'[jobs'[j].by] \/ AtMark(jobs[j].by)'
      BY <1>1, <1>4, <3>2, <3>3
    <3>5. ~ Holding(Scheduler)'
      BY <1>6, <2>1 DEF Holding
    <3>6. ASSUME NEW j \in DOMAIN jobs', NEW k \in DOMAIN jobs', Closed(j)', Closed(k)',
                 jobs'[j].by = jobs'[k].by, jobs'[j].day = jobs'[k].day
          PROVE  j = k
      <4>1. CASE j # n /\ k # n
        BY <1>4, <1>11, <3>2, <3>6, <4>1 DEF Done
      <4>2. CASE j = n /\ k # n
        BY <1>3, <1>4, <3>1, <3>2, <3>6, <4>2, Days
      <4>3. CASE j # n /\ k = n
        BY <1>3, <1>4, <3>1, <3>2, <3>6, <4>3, Days
      <4> QED
        BY <4>1, <4>2, <4>3
    <3> QED
      BY <3>4, <3>5, <3>6 DEF Done
  <2>2. CASE w # Scheduler
    <3>1. w \in Workers /\ t.by = Manual
      BY <1>1, <2>2, Days DEF Calendar
    <3>2. \A j \in DOMAIN jobs' : Closed(j)' => j # n /\ Closed(j) /\ jobs'[j] = jobs[j]
      BY <1>4, <3>1, Days DEF Closed
    <3>3. pc'[Scheduler] = pc[Scheduler] /\ task'[Scheduler] = task[Scheduler]
      BY <1>5, <2>2, Days
    <3>4. ASSUME NEW j \in DOMAIN jobs', Closed(j)' PROVE jobs'[j].day <= lastRun'[jobs'[j].by] \/ AtMark(jobs[j].by)'
      <4>1. j \in DOMAIN jobs /\ Closed(j) /\ jobs'[j] = jobs[j]
        BY <1>4, <3>2, <3>4
      <4>2. jobs[j].day <= lastRun[jobs[j].by] \/ AtMark(jobs[j].by)
        BY <1>11, <4>1 DEF Done
      <4>3. AtMark(jobs[j].by) => AtMark(jobs[j].by)'
        BY <3>3, <4>1 DEF AtMark
      <4> QED
        BY <1>1, <4>1, <4>2, <4>3
    <3>5. Holding(Scheduler)' => jobs'[task'[Scheduler].number].day > lastRun'[task'[Scheduler].by]
      <4>1. Holding(Scheduler)' => Holding(Scheduler) /\ task[Scheduler].number # n /\ task[Scheduler].number \in DOMAIN jobs
        BY <1>3, <2>2, <3>3, Days DEF Holding, JobRows, Account
      <4> QED
        BY <1>1, <1>4, <1>11, <3>3, <4>1 DEF Done
    <3> QED
      BY <1>4, <1>11, <3>2, <3>4, <3>5 DEF Done
  <2> QED
    BY <2>1, <2>2
<1> QED
  BY <1>1, <1>7, <1>8, <1>9, <1>10, <1>11 DEF Calendar

LEMMA CalendarOfBegin ==
  ASSUME Shapes, Calendar, NEW w \in Threads, NEW by, NEW D, Begin(w, by, D), UNCHANGED << jobs, lastRun, day >>,
         spent'.crashes = spent.crashes, pc[w] = "idle",
         \/ w \in Workers /\ by = Manual /\ queue' = queue
         \/ w = Scheduler /\ by \in queue /\ queue' = queue \ {by}
  PROVE  Calendar'
<1> DEFINE t == [NoTask EXCEPT !.by = by, !.devices = D, !.left = Types]
<1>1. t.by = by
  BY IdleTask
<1>2. Become(w, "number", t)
  BY DEF Begin
<1> HIDE DEF t
<1>3. pc'[w] = "number" /\ task'[w] = t /\ \A v \in Threads : v # w => pc'[v] = pc[v] /\ task'[v] = task[v]
  BY <1>2, Became
<1>4. /\ \A s \in Schedules : lastRun'[s] <= day'
      /\ \A s \in queue' : lastRun'[s] < day'
      /\ \A j \in DOMAIN jobs' : jobs'[j].day <= day'
  BY DEF Calendar
<1>5. /\ pc'[Scheduler] # "idle" => task'[Scheduler].by \in Schedules \ queue'
      /\ pc'[Scheduler] \notin {"idle", "mark"} => lastRun'[task'[Scheduler].by] < day'
  BY <1>1, <1>3, Days DEF Calendar
<1>6. \A v \in Workers : pc'[v] # "idle" => task'[v].by = Manual
  BY <1>1, <1>3, Days DEF Calendar
<1>7. ASSUME Done PROVE Done'
  <2>1. Holding(Scheduler)' => Holding(Scheduler) /\ task'[Scheduler] = task[Scheduler]
    BY <1>3, Days DEF Holding
  <2>2. \A j \in DOMAIN jobs' : AtMark(jobs[j].by) => AtMark(jobs[j].by)'
    BY <1>3, Days DEF AtMark
  <2>3. \A j \in DOMAIN jobs' : Closed(j)' <=> Closed(j)
    BY DEF Closed
  <2>4. \A j \in DOMAIN jobs' : Closed(j)' => jobs'[j].day <= lastRun'[jobs'[j].by] \/ AtMark(jobs[j].by)'
    BY <1>7, <2>2, <2>3 DEF Done
  <2> QED
    BY <1>7, <2>1, <2>3, <2>4 DEF Done
<1> QED
  BY <1>4, <1>5, <1>6, <1>7 DEF Calendar

LEMMA CalendarOfMark ==
  ASSUME Shapes, Calendar, MarkRun
  PROVE  Calendar'
<1> DEFINE s == task[Scheduler].by
<1>1. pc[Scheduler] = "mark" /\ lastRun' = [lastRun EXCEPT ![s] = day] /\ UNCHANGED << jobs, day, queue, spent >>
  BY DEF MarkRun
<1>2. pc'[Scheduler] = "idle" /\ \A v \in Threads : v # Scheduler => pc'[v] = pc[v] /\ task'[v] = task[v]
  BY Days, Became DEF MarkRun
<1>3. s \in Schedules \ queue
  BY <1>1 DEF Calendar
<1>4. lastRun \in [Schedules -> 0 .. MaxDays]
  BY DEF Shapes, TypeOK
<1>5. \A r \in Schedules : lastRun'[r] = IF r = s THEN day ELSE lastRun[r]
  BY <1>1, <1>4
<1>6. /\ \A r \in Schedules : lastRun'[r] <= day'
      /\ \A r \in queue' : lastRun'[r] < day'
      /\ \A j \in DOMAIN jobs' : jobs'[j].day <= day'
  BY <1>1, <1>3, <1>5, Days DEF Calendar
<1>7. \A v \in Workers : pc'[v] # "idle" => task'[v].by = Manual
  BY <1>2, Days DEF Calendar
<1>8. ASSUME Done PROVE Done'
  <2>1. \A j \in DOMAIN jobs' : Closed(j)' <=> Closed(j)
    BY <1>1 DEF Closed
  <2>2. ASSUME NEW j \in DOMAIN jobs', Closed(j)' PROVE jobs'[j].day <= lastRun'[jobs'[j].by]
    <3>1. Closed(j) /\ jobs'[j] = jobs[j] /\ jobs[j].by \in Schedules /\ jobs[j].day <= day /\ jobs[j].day \in Nat
      BY <1>1, <2>1, <2>2, Days DEF Closed, Calendar
    <3>2. jobs[j].by # s => jobs[j].day <= lastRun[jobs[j].by]
      BY <1>1, <1>8, <3>1 DEF Done, AtMark
    <3> QED
      BY <1>5, <3>1, <3>2
  <2>3. ~ Holding(Scheduler)'
    BY <1>2 DEF Holding
  <2> QED
    BY <1>1, <1>8, <2>1, <2>2, <2>3 DEF Done
<1> QED
  BY <1>1, <1>2, <1>6, <1>7, <1>8 DEF Calendar

LEMMA CalendarKept == Shapes /\ JobRows /\ Calendar /\ [Next]_vars => Calendar'
<1> SUFFICES ASSUME Shapes, JobRows, Calendar, [Next]_vars PROVE Calendar'
  OBVIOUS
<1>1. ASSUME NEW w \in Threads, Raise(w), pc[w] \in {"insert", "write"} PROVE Calendar'
  <2>1. /\ UNCHANGED << jobs, lastRun, day, spent >> /\ Become(w, "idle", NoTask) /\ queue' \in {queue, {}}
    BY <1>1 DEF Raise
  <2>2. pc'[w] = "idle" /\ \A v \in Threads : v # w => pc'[v] = pc[v] /\ task'[v] = task[v]
    BY <2>1, Became
  <2> QED
    BY <1>1, <2>1, <2>2, CalendarOfStep DEF Holding
<1>2. ASSUME NEW w \in Threads, Proceed(w) PROVE Calendar'
  <2> DEFINE t == task[w]
  <2>1. CASE _next_job_number(w)
    <3> DEFINE u == [t EXCEPT !.number = Len(jobs) + 1]
    <3>1. u.by = t.by /\ Become(w, "insert", u) /\ pc[w] = "number" /\ UNCHANGED << jobs, lastRun, day, spent, queue >>
      BY <2>1 DEF _next_job_number, Shapes, TypeOK, Task
    <3> HIDE DEF u
    <3>2. pc'[w] = "insert" /\ task'[w] = u /\ \A v \in Threads : v # w => pc'[v] = pc[v] /\ task'[v] = task[v]
      BY <3>1, Became
    <3> QED
      BY <3>1, <3>2, CalendarOfStep DEF Holding
  <2>2. CASE _retrieve_one(w)
    <3>1. PICK type \in t.left, failing \in SUBSET t.devices :
               /\ spent' = [spent EXCEPT !.failures = @ + Cardinality(failing)]
               /\ Become(w, "read", [t EXCEPT !.type = type, !.left = @ \ {type},
                    !.got = [d \in Devices |-> IF d \in t.devices \ failing THEN config[<<d, type>>] ELSE None]])
      BY <2>2 DEF _retrieve_one
    <3> DEFINE got == [d \in Devices |-> IF d \in t.devices \ failing THEN config[<<d, type>>] ELSE None]
               u == [t EXCEPT !.type = type, !.left = @ \ {type}, !.got = got]
    <3>2. t \in Task /\ pc[w] = "retrieve" /\ UNCHANGED << jobs, lastRun, day, queue >> /\ spent'.crashes = spent.crashes
      BY <2>2, <3>1 DEF _retrieve_one, Shapes, TypeOK, Bounds
    <3>3. u.by = t.by /\ u.number = t.number
      BY <3>2 DEF Task
    <3> HIDE DEF u
    <3>4. pc'[w] = "read" /\ task'[w] = u /\ \A v \in Threads : v # w => pc'[v] = pc[v] /\ task'[v] = task[v]
      BY <3>1, Became DEF u
    <3> QED
      BY <3>2, <3>3, <3>4, CalendarOfStep DEF Holding
  <2>3. CASE ReadLatest(w)
    <3>1. PICK prev, version : Become(w, "write", [t EXCEPT !.prev = prev, !.version = version])
      BY <2>3 DEF ReadLatest
    <3> DEFINE u == [t EXCEPT !.prev = prev, !.version = version]
    <3>2. t \in Task /\ pc[w] = "read" /\ UNCHANGED << jobs, lastRun, day, queue, spent >>
      BY <2>3 DEF ReadLatest, Shapes, TypeOK
    <3>3. u.by = t.by /\ u.number = t.number
      BY <3>2 DEF Task
    <3> HIDE DEF u
    <3>4. pc'[w] = "write" /\ task'[w] = u /\ \A v \in Threads : v # w => pc'[v] = pc[v] /\ task'[v] = task[v]
      BY <3>1, Became DEF u
    <3> QED
      BY <3>2, <3>3, <3>4, CalendarOfStep DEF Holding
  <2>4. CASE archive_configuration(w)
    <3>1. PICK success, failure, changed :
             Become(w, IF t.left = {} THEN "finish" ELSE "retrieve",
               [t EXCEPT !.type = None, !.got = Nothing, !.prev = Nothing, !.version = NoTask.version,
                         !.success = success, !.failure = failure, !.changed = changed])
      <4>1. t \in Task
        BY DEF Shapes, TypeOK
      <4> QED
        BY <2>4, <4>1 DEF archive_configuration, Task
    <3> DEFINE u == [t EXCEPT !.type = None, !.got = Nothing, !.prev = Nothing, !.version = NoTask.version,
                              !.success = success, !.failure = failure, !.changed = changed]
    <3>2. t \in Task /\ pc[w] = "write" /\ UNCHANGED << jobs, lastRun, day, queue, spent >>
      BY <2>4 DEF archive_configuration, Shapes, TypeOK
    <3>3. u.by = t.by /\ u.number = t.number
      BY <3>2 DEF Task
    <3> HIDE DEF u
    <3>4. pc'[w] \in {"finish", "retrieve"} /\ task'[w] = u /\ \A v \in Threads : v # w => pc'[v] = pc[v] /\ task'[v] = task[v]
      BY <3>1, Became DEF u
    <3> QED
      BY <3>2, <3>3, <3>4, CalendarOfStep DEF Holding
  <2> QED
    BY <1>1, <1>2, <2>1, <2>2, <2>3, <2>4, CalendarOfInsert, CalendarOfFinish DEF Proceed, NumberTaken, WriteFails
<1>3. CASE _poll_once
  <2>1. /\ UNCHANGED << jobs, lastRun, day, spent, pc, task >> /\ pc[Scheduler] = "idle"
        /\ queue' = {s \in Schedules : should_run_now(s)}
    BY <1>3 DEF _poll_once
  <2>2. \A s \in queue' : lastRun'[s] < day'
    BY <2>1, Days DEF should_run_now, Calendar
  <2>3. Done => Done'
    BY <2>1 DEF Done, Closed, AtMark, Holding
  <2> QED
    BY <2>1, <2>2, <2>3 DEF Calendar
<1>4. CASE MarkRun
  BY <1>4, CalendarOfMark
<1>5. ASSUME NEW s \in Schedules, run_due_schedule(s) PROVE Calendar'
  BY <1>5, CalendarOfBegin DEF run_due_schedule, Threads
<1>6. ASSUME NEW w \in Workers, NEW D \in SUBSET Devices, run_backup(w, D) PROVE Calendar'
  <2>1. spent'.crashes = spent.crashes
    BY <1>6, Counting DEF run_backup
  <2> QED
    BY <1>6, <2>1, CalendarOfBegin DEF run_backup, Threads
<1>7. CASE Crash
  <2>1. /\ UNCHANGED << jobs, lastRun, day >> /\ queue' = {} /\ \A w \in Threads : pc'[w] = "idle"
    BY <1>7 DEF Crash
  <2>2. spent'.crashes # 0
    BY <1>7, Counting DEF Crash
  <2> QED
    BY <2>1, <2>2, Days DEF Calendar
<1>8. CASE Midnight
  BY <1>8, Days, CalendarStays DEF Midnight, Calendar
<1>9. CASE UNCHANGED vars
  BY <1>9, Days, CalendarStays DEF vars, Calendar
<1>10. ASSUME NEW s \in Schedules, TimeComes(s) PROVE Calendar'
  BY <1>10, Days, CalendarStays DEF TimeComes, Calendar
<1>11. ASSUME spent'.crashes = spent.crashes, UNCHANGED << jobs, lastRun, queue, day, pc, task >> PROVE Calendar'
  BY <1>11, Days, CalendarStays DEF Calendar
<1>12. ASSUME NEW i \in Items, clear_baseline(i) \/ \E c \in Contents : Reconfigure(i, c) PROVE Calendar'
  <2>1. spent'.crashes = spent.crashes
    BY <1>12, Counting DEF clear_baseline, Reconfigure
  <2> QED
    BY <1>11, <1>12, <2>1 DEF clear_baseline, Reconfigure
<1>13. ASSUME NEW x \in archive, set_baseline(x) \/ delete_configuration(x) PROVE Calendar'
  <2>1. spent'.crashes = spent.crashes
    BY <1>13, Counting DEF set_baseline, delete_configuration
  <2> QED
    BY <1>11, <1>13, <2>1 DEF set_baseline, delete_configuration
<1>14. ASSUME NEW d \in Devices, delete_device(d) PROVE Calendar'
  <2>1. spent'.crashes = spent.crashes
    BY <1>14, Counting DEF delete_device
  <2> QED
    BY <1>11, <1>14, <2>1 DEF delete_device
<1> QED
  BY <1>2, <1>3, <1>4, <1>5, <1>6, <1>7, <1>8, <1>9, <1>10, <1>12, <1>13, <1>14 DEF Next, Schedule

\* However often it is polled, whatever fails, and whether its runs end before or after midnight, no schedule
\* completes two jobs of one day unless the process was restarted.
THEOREM SchedulesRunOnce == Spec => []OncePerDay
<1>1. Init => Shapes /\ JobRows /\ Calendar
  BY TypesStart, RowsStart, CalendarStart
<1>2. Shapes /\ JobRows /\ Calendar /\ [Next]_vars => Shapes' /\ JobRows' /\ Calendar'
  BY TypesKept, RowsKept, CalendarKept
<1> QED
  BY <1>1, <1>2, CalendarIsOnce, PTL DEF Spec

-----------------------------------------------------------------------------
IsLatest(x) == \A y \in SnapshotsOf(x.item) : y.version <= x.version

\* Whose backups overlap is contested.
Overlaps ==
  \A v, w \in Threads : v # w /\ Busy(v) /\ Busy(w) => task[v].devices \cap task[w].devices \subseteq contested

\* Versions and writes are in one order.
Ordered ==
  \A i \in Items : Alone(i) =>
    \A x, y \in SnapshotsOf(i) : x # y =>
      (x.version < y.version /\ x.at < y.at) \/ (y.version < x.version /\ y.at < x.at)

Answers ==
  \A i \in Items :
    /\ answered[i] = None => SnapshotsOf(i) = {}
    /\ Alone(i) /\ i[1] \notin thinned /\ answered[i] # None =>
         \E x \in SnapshotsOf(i) : IsLatest(x) /\ x.content = answered[i]

\* What a thread has read is still so when it writes, but for deletions.
ReadIsFresh(w) ==
  \A d \in task[w].devices \ contested : LET i == <<d, task[w].type>> IN
    /\ \A x \in SnapshotsOf(i) : x.version < task[w].version[d]
    /\ d \notin thinned => IF task[w].prev[d] = None THEN SnapshotsOf(i) = {}
                           ELSE task[w].prev[d] \in SnapshotsOf(i) /\ IsLatest(task[w].prev[d])

ArchiveInv ==
  /\ Overlaps /\ Ordered /\ Answers
  /\ \A w \in Threads : pc[w] = "write" => ReadIsFresh(w)

LEMMA ArchiveStart == Init => ArchiveInv
<1> SUFFICES ASSUME Init PROVE ArchiveInv
  OBVIOUS
<1>1. \A i \in Items : SnapshotsOf(i) = {} /\ answered[i] = None
  BY DEF Init, SnapshotsOf
<1>2. \A w \in Threads : pc[w] = "idle"
  BY DEF Init
<1> QED
  BY <1>1, <1>2 DEF ArchiveInv, Overlaps, Ordered, Answers, Busy

\* A step that archives nothing and reads nothing.
LEMMA ArchiveStays ==
  ASSUME Shapes, ArchiveInv, UNCHANGED << archive, answered >>, contested \subseteq contested', thinned \subseteq thinned',
         \A w \in Threads : Busy(w)' => Busy(w) /\ task'[w].devices = task[w].devices,
         \A w \in Threads : pc'[w] = "write" => pc[w] = "write" /\ task'[w] = task[w]
  PROVE  ArchiveInv'
<1>1. Overlaps'
  BY DEF ArchiveInv, Overlaps
<1>2. \A i \in Items : SnapshotsOf(i)' = SnapshotsOf(i) /\ (Alone(i)' => Alone(i))
  BY DEF SnapshotsOf, Alone
<1>3. Ordered'
  BY <1>2 DEF ArchiveInv, Ordered
<1>4. \A x \in archive : IsLatest(x) <=> IsLatest(x)'
  BY DEF IsLatest, SnapshotsOf
<1>5. Answers'
  <2> SUFFICES ASSUME NEW i \in Items
               PROVE  /\ answered'[i] = None => SnapshotsOf(i)' = {}
                      /\ Alone(i)' /\ i[1] \notin thinned' /\ answered'[i] # None =>
                           \E x \in SnapshotsOf(i)' : IsLatest(x)' /\ x.content = answered'[i]
    BY DEF Answers
  <2>1. /\ answered[i] = None => SnapshotsOf(i) = {}
        /\ Alone(i) /\ i[1] \notin thinned /\ answered[i] # None =>
             \E x \in SnapshotsOf(i) : IsLatest(x) /\ x.content = answered[i]
    BY DEF ArchiveInv, Answers
  <2>2. SnapshotsOf(i) \subseteq archive
    BY DEF SnapshotsOf
  <2> QED
    BY <1>2, <1>4, <2>1, <2>2
<1>6. ASSUME NEW w \in Threads, pc'[w] = "write" PROVE ReadIsFresh(w)'
  <2>1. ReadIsFresh(w) /\ task'[w] = task[w] /\ task[w].type \in Types /\ task[w].devices \subseteq Devices
    BY <1>6 DEF ArchiveInv, Shapes, TypeOK, Task
  <2> SUFFICES ASSUME NEW d \in task[w].devices \ contested'
               PROVE  LET i == <<d, task[w].type>> IN
                      /\ \A x \in SnapshotsOf(i)' : x.version < task[w].version[d]
                      /\ d \notin thinned' => IF task[w].prev[d] = None THEN SnapshotsOf(i)' = {}
                                              ELSE task[w].prev[d] \in SnapshotsOf(i)' /\ IsLatest(task[w].prev[d])'
    BY <2>1 DEF ReadIsFresh
  <2> DEFINE i == <<d, task[w].type>>
  <2>2. SnapshotsOf(i)' = SnapshotsOf(i)
    BY <2>1 DEF SnapshotsOf
  <2>3. task[w].prev[d] \in SnapshotsOf(i) => task[w].prev[d] \in archive
    BY DEF SnapshotsOf
  <2> QED
    BY <1>4, <2>1, <2>2, <2>3 DEF ReadIsFresh
<1> QED
  BY <1>1, <1>3, <1>5, <1>6 DEF ArchiveInv

\* Who begins while another backs the same device up is contested; the rest is as it was.
LEMMA ArchiveOfBegin ==
  ASSUME Shapes, ArchiveInv, NEW w \in Threads, NEW by, NEW D, Begin(w, by, D), UNCHANGED << archive, answered, thinned >>
  PROVE  ArchiveInv'
<1> DEFINE t == [NoTask EXCEPT !.by = by, !.devices = D, !.left = Types]
<1>1. t.devices = D
  BY IdleTask
<1>2. Become(w, "number", t)
  BY DEF Begin
<1> HIDE DEF t
<1>3. pc'[w] = "number" /\ task'[w] = t /\ \A v \in Threads : v # w => pc'[v] = pc[v] /\ task'[v] = task[v]
  BY <1>2, Became
<1>4. contested \subseteq contested' /\ \A v \in Threads \ {w} : Busy(v) => D \cap task[v].devices \subseteq contested'
  BY DEF Begin
<1>5. Overlaps'
  <2> SUFFICES ASSUME NEW u \in Threads, NEW v \in Threads, u # v, Busy(u)', Busy(v)'
               PROVE  task'[u].devices \cap task'[v].devices \subseteq contested'
    BY DEF Overlaps
  <2>1. CASE u # w /\ v # w
    BY <1>3, <1>4, <2>1 DEF ArchiveInv, Overlaps, Busy
  <2>2. CASE u = w
    <3>1. Busy(v) /\ task'[v] = task[v]
      BY <1>3, <2>2 DEF Busy
    <3> QED
      BY <1>1, <1>3, <1>4, <2>2, <3>1
  <2>3. CASE v = w
    <3>1. Busy(u) /\ task'[u] = task[u]
      BY <1>3, <2>3 DEF Busy
    <3> QED
      BY <1>1, <1>3, <1>4, <2>3, <3>1
  <2> QED
    BY <2>1, <2>2, <2>3
<1>6. \A i \in Items : SnapshotsOf(i)' = SnapshotsOf(i) /\ (Alone(i)' => Alone(i))
  BY <1>4 DEF SnapshotsOf, Alone
<1>7. Ordered'
  BY <1>6 DEF ArchiveInv, Ordered
<1>8. \A x : IsLatest(x) <=> IsLatest(x)'
  BY DEF IsLatest, SnapshotsOf
<1>9. Answers'
  BY <1>6, <1>8 DEF ArchiveInv, Answers
<1>10. ASSUME NEW v \in Threads, pc'[v] = "write" PROVE ReadIsFresh(v)'
  <2>1. ReadIsFresh(v) /\ task'[v] = task[v]
    BY <1>3, <1>10 DEF ArchiveInv
  <2>2. \A i : SnapshotsOf(i)' = SnapshotsOf(i)
    BY DEF SnapshotsOf
  <2>3. \A d : IsLatest(task[v].prev[d])' <=> IsLatest(task[v].prev[d])
    BY <2>1 DEF IsLatest, SnapshotsOf
  <2> QED
    BY <1>4, <2>1, <2>2, <2>3 DEF ReadIsFresh
<1> QED
  BY <1>5, <1>7, <1>9, <1>10 DEF ArchiveInv

\* What the database returns as the latest snapshot.
LEMMA LatestFacts ==
  ASSUME Shapes, NEW i \in Items, NEW x \in latest_configuration(i)
  PROVE  IF x = None THEN SnapshotsOf(i) = {} ELSE x \in SnapshotsOf(i) /\ IsLatest(x)
<1>1. None \notin SnapshotsOf(i)
  BY SnapshotAssumption DEF SnapshotsOf, Shapes, TypeOK
<1>2. CASE SnapshotsOf(i) = {}
  BY <1>2 DEF latest_configuration
<1>3. CASE SnapshotsOf(i) # {}
  <2>1. x \in SnapshotsOf(i) /\ x.version = Max(Versions(i)) /\ x.item = i
    BY <1>3 DEF latest_configuration, SnapshotsOf
  <2>2. \A y \in SnapshotsOf(i) : y.version <= Max(Versions(i))
    BY <1>3, HighestVersion DEF Versions
  <2> QED
    BY <1>1, <2>1, <2>2 DEF IsLatest
<1> QED
  BY <1>2, <1>3

LEMMA ArchiveOfRead ==
  ASSUME Shapes, ArchiveInv, NEW w \in Threads, ReadLatest(w)
  PROVE  ArchiveInv'
<1> DEFINE t == task[w]
           type == t.type
<1>1. PICK prev \in {f \in [Devices -> archive \cup {None}] : \A d \in Devices :
                       f[d] \in IF d \in task[w].devices THEN latest_configuration(<<d, type>>) ELSE {None}} :
           Become(w, "write", [t EXCEPT !.prev = prev, !.version = [d \in Devices |-> _next_version_number(<<d, type>>)]])
  BY DEF ReadLatest
<1> DEFINE version == [d \in Devices |-> _next_version_number(<<d, type>>)]
           u == [t EXCEPT !.prev = prev, !.version = version]
<1>2. /\ t \in Task /\ type \in Types /\ t.devices \subseteq Devices /\ pc[w] = "read"
      /\ UNCHANGED << archive, answered, contested, thinned >>
  BY DEF ReadLatest, Shapes, TypeOK, Task
<1>3. u.devices = t.devices /\ u.type = type /\ u.prev = prev /\ u.version = version
  <2> HIDE DEF version
  <2> QED
    BY <1>2 DEF Task
<1>4. \A d \in Devices : version[d] = _next_version_number(<<d, type>>)
  OBVIOUS
<1>5. \A d \in t.devices : prev[d] \in latest_configuration(<<d, type>>)
  BY <1>1, <1>2
<1> HIDE DEF u, version
<1>6. pc'[w] = "write" /\ task'[w] = u /\ \A v \in Threads : v # w => pc'[v] = pc[v] /\ task'[v] = task[v]
  BY <1>1, Became DEF u, version
<1>7. Overlaps'
  <2>1. \A v \in Threads : Busy(v)' => Busy(v) /\ task'[v].devices = task[v].devices
    BY <1>2, <1>3, <1>6 DEF Busy
  <2> QED
    BY <1>2, <2>1 DEF ArchiveInv, Overlaps
<1>8. \A i : SnapshotsOf(i)' = SnapshotsOf(i) /\ (Alone(i)' <=> Alone(i))
  BY <1>2 DEF SnapshotsOf, Alone
<1>9. \A x : IsLatest(x) <=> IsLatest(x)'
  BY <1>2 DEF IsLatest, SnapshotsOf
<1>10. Ordered' /\ Answers'
  BY <1>2, <1>8, <1>9 DEF ArchiveInv, Ordered, Answers
<1>11. ReadIsFresh(w)'
  <2> SUFFICES ASSUME NEW d \in t.devices
               PROVE  LET i == <<d, type>> IN
                      /\ \A x \in SnapshotsOf(i) : x.version < version[d]
                      /\ IF prev[d] = None THEN SnapshotsOf(i) = {} ELSE prev[d] \in SnapshotsOf(i) /\ IsLatest(prev[d])
    <3>1. \A d : IsLatest(prev[d]) => IsLatest(task[w].prev[d])'
      BY <1>2, <1>3, <1>6 DEF IsLatest, SnapshotsOf
    <3> QED
      BY <1>2, <1>3, <1>6, <1>8, <3>1 DEF ReadIsFresh
  <2>1. d \in Devices /\ <<d, type>> \in Items
    BY <1>2 DEF Items
  <2>2. \A x \in SnapshotsOf(<<d, type>>) : x.version < version[d]
    BY <1>4, <2>1, NextVersion
  <2> QED
    BY <1>5, <2>1, <2>2, LatestFacts
<1>12. ASSUME NEW v \in Threads, v # w, pc'[v] = "write" PROVE ReadIsFresh(v)'
  <2>1. ReadIsFresh(v) /\ task'[v] = task[v]
    BY <1>6, <1>12 DEF ArchiveInv
  <2>2. \A d : IsLatest(task[v].prev[d])' <=> IsLatest(task[v].prev[d])
    BY <1>2, <2>1 DEF IsLatest, SnapshotsOf
  <2> QED
    BY <1>2, <1>8, <2>1, <2>2 DEF ReadIsFresh
<1> QED
  BY <1>7, <1>10, <1>11, <1>12 DEF ArchiveInv

LEMMA ArchiveOfWrite ==
  ASSUME Shapes, ArchiveInv, NEW w \in Threads, archive_configuration(w)
  PROVE  ArchiveInv'
<1> DEFINE t == task[w]
           type == t.type
           new == {d \in t.devices : IsNew(t, d)}
           answering == {d \in t.devices : t.got[d] # None}
           snapshot(d) == [item |-> <<d, type>>, version |-> t.version[d], content |-> t.got[d], at |-> writes]
           label == IF t.left = {} THEN "finish" ELSE "retrieve"
           success == t.success \cup answering
           failure == t.failure \cup (t.devices \ answering)
           changed == t.changed + Cardinality(new)
           u == [t EXCEPT !.type = None, !.got = Nothing, !.prev = Nothing, !.version = NoTask.version,
                          !.success = success, !.failure = failure, !.changed = changed]
<1>1. /\ pc[w] = "write" /\ archive' = archive \cup {snapshot(d) : d \in new}
      /\ answered' = [i \in Items |-> IF i[2] = type /\ i[1] \in answering THEN t.got[i[1]] ELSE answered[i]]
      /\ Become(w, label, u) /\ UNCHANGED << contested, thinned >>
  <2>1. t \in Task
    BY DEF Shapes, TypeOK
  <2> QED
    BY <2>1 DEF archive_configuration, Task
<1>2. t \in Task /\ type \in Types /\ t.devices \subseteq Devices /\ writes \in Nat
  BY <1>1 DEF Shapes, TypeOK, Task
<1>3. u.devices = t.devices
  <2> HIDE DEF success, failure, changed
  <2> QED
    BY <1>2 DEF Task
<1>4. label \in {"finish", "retrieve"}
  OBVIOUS
<1>5. new \subseteq answering /\ answering \subseteq t.devices
  BY DEF IsNew
<1>6. /\ \A d \in new : snapshot(d).item = <<d, type>> /\ snapshot(d).version = t.version[d]
                        /\ snapshot(d).content = t.got[d] /\ snapshot(d).at = writes
      /\ \A d \in t.devices : t.version[d] \in Nat
  BY <1>2 DEF Task
<1>7. \A d \in answering \ new : t.prev[d] # None /\ t.prev[d].content = t.got[d]
  BY DEF IsNew
<1>8. \A d \in answering : t.got[d] # None
  OBVIOUS
<1> HIDE DEF u, label, new, answering, snapshot
<1>9. pc'[w] = label /\ task'[w] = u /\ \A v \in Threads : v # w => pc'[v] = pc[v] /\ task'[v] = task[v]
  BY <1>1, Became
<1>10. \A x \in archive : x.at < writes /\ x.at \in Nat /\ x.version \in Nat /\ x.item \in Items
  BY DEF Shapes, TypeOK, Snapshot
<1>11. Overlaps'
  <2>1. \A v \in Threads : Busy(v)' => Busy(v) /\ task'[v].devices = task[v].devices
    BY <1>1, <1>3, <1>9 DEF Busy
  <2> QED
    BY <1>1, <2>1 DEF ArchiveInv, Overlaps
<1>12. ASSUME NEW i, NEW d \in new, i = <<d, type>> PROVE SnapshotsOf(i)' = SnapshotsOf(i) \cup {snapshot(d)}
  <2>1. \A e \in new : snapshot(e).item = i => e = d
    BY <1>6, <1>12
  <2>2. snapshot(d).item = i
    BY <1>6, <1>12
  <2>3. \A x : x \in archive' <=> x \in archive \/ \E e \in new : x = snapshot(e)
    BY <1>1
  <2>4. \A x : x \in archive' /\ x.item = i <=> (x \in archive /\ x.item = i) \/ x = snapshot(d)
    BY <2>1, <2>2, <2>3
  <2> QED
    BY <2>4 DEF SnapshotsOf
<1>13. ASSUME NEW i, \A d \in new : i # <<d, type>> PROVE SnapshotsOf(i)' = SnapshotsOf(i)
  <2>1. \A e \in new : snapshot(e).item # i
    BY <1>6, <1>13
  <2>2. \A x : x \in archive' <=> x \in archive \/ \E e \in new : x = snapshot(e)
    BY <1>1
  <2> QED
    BY <2>1, <2>2 DEF SnapshotsOf
<1>14. ReadIsFresh(w)
  BY <1>1 DEF ArchiveInv
<1>15. \A x \in archive : (\A d \in new : x.item # <<d, type>>) => (IsLatest(x) => IsLatest(x)')
  BY <1>13 DEF IsLatest
<1>16. ASSUME NEW i \in Items, Alone(i)', NEW x \in SnapshotsOf(i)', NEW y \in SnapshotsOf(i)', x # y
       PROVE  (x.version < y.version /\ x.at < y.at) \/ (y.version < x.version /\ y.at < x.at)
  <2>1. Alone(i)
    BY <1>1, <1>16 DEF Alone
  <2>2. CASE \A d \in new : i # <<d, type>>
    BY <1>13, <1>16, <2>1, <2>2 DEF ArchiveInv, Ordered
  <2>3. ASSUME NEW d \in new, i = <<d, type>>
        PROVE  (x.version < y.version /\ x.at < y.at) \/ (y.version < x.version /\ y.at < x.at)
    <3>1. d \in t.devices \ contested
      BY <1>5, <2>1, <2>3 DEF Alone
    <3>2. \A z \in SnapshotsOf(i) : z.version < t.version[d] /\ z.at < writes /\ z \in archive
      BY <1>10, <1>14, <2>3, <3>1 DEF ReadIsFresh, SnapshotsOf
    <3>3. x \in SnapshotsOf(i) \cup {snapshot(d)} /\ y \in SnapshotsOf(i) \cup {snapshot(d)}
      BY <1>12, <1>16, <2>3
    <3>4. CASE x \in SnapshotsOf(i) /\ y \in SnapshotsOf(i)
      BY <1>16, <2>1, <3>4 DEF ArchiveInv, Ordered
    <3>5. CASE x = snapshot(d) \/ y = snapshot(d)
      BY <1>6, <1>16, <3>2, <3>3, <3>5
    <3> QED
      BY <3>3, <3>4, <3>5
  <2> QED
    BY <2>2, <2>3
<1>17. ASSUME NEW i \in Items
       PROVE  /\ answered'[i] = None => SnapshotsOf(i)' = {}
              /\ Alone(i)' /\ i[1] \notin thinned' /\ answered'[i] # None =>
                   \E x \in SnapshotsOf(i)' : IsLatest(x)' /\ x.content = answered'[i]
  <2>1. i = <<i[1], i[2]>> /\ (Alone(i)' <=> Alone(i)) /\ thinned' = thinned
    BY <1>1 DEF Items, Alone
  <2>2. /\ answered[i] = None => SnapshotsOf(i) = {}
        /\ Alone(i) /\ i[1] \notin thinned /\ answered[i] # None =>
             \E x \in SnapshotsOf(i) : IsLatest(x) /\ x.content = answered[i]
    BY DEF ArchiveInv, Answers
  <2>3. \A x \in SnapshotsOf(i) : x \in archive /\ x.item = i
    BY DEF SnapshotsOf
  <2>4. CASE ~ (i[2] = type /\ i[1] \in answering)
    <3>1. answered'[i] = answered[i] /\ \A d \in new : i # <<d, type>>
      BY <1>1, <1>5, <2>1, <2>4
    <3> QED
      BY <1>13, <1>15, <2>1, <2>2, <2>3, <3>1
  <2>5. CASE i[2] = type /\ i[1] \in answering
    <3> DEFINE d == i[1]
    <3>1. answered'[i] = t.got[d] /\ t.got[d] # None /\ i = <<d, type>>
      BY <1>1, <1>8, <2>1, <2>5
    <3>2. CASE d \in new
      <4>1. SnapshotsOf(i)' = SnapshotsOf(i) \cup {snapshot(d)} /\ snapshot(d).item = i /\ snapshot(d).content = t.got[d]
            /\ snapshot(d).version = t.version[d] /\ t.version[d] \in Nat
        BY <1>5, <1>6, <1>12, <3>1, <3>2
      <4>2. d \notin contested => \A x \in SnapshotsOf(i) : x.version < t.version[d] /\ x.version \in Nat
        BY <1>5, <1>10, <1>14, <2>3, <3>1, <3>2 DEF ReadIsFresh
      <4> DEFINE r == snapshot(d)
      <4>3. ASSUME Alone(i) PROVE r \in SnapshotsOf(i)' /\ \A y \in SnapshotsOf(i)' : y.version <= r.version
        BY <4>1, <4>2, <4>3 DEF Alone
      <4>4. r.item = i
        BY <4>1
      <4> HIDE DEF r
      <4>5. ASSUME Alone(i) PROVE \E x \in SnapshotsOf(i)' : IsLatest(x)' /\ x.content = answered'[i]
        <5>1. PICK x : x = r
          OBVIOUS
        <5>2. IsLatest(x)' /\ x \in SnapshotsOf(i)' /\ x.content = answered'[i]
          BY <3>1, <4>1, <4>3, <4>4, <4>5, <5>1 DEF IsLatest, r
        <5> QED
          BY <5>2
      <4> QED
        BY <2>1, <3>1, <4>5
    <3>3. CASE d \notin new
      <4>1. t.prev[d] # None /\ t.prev[d].content = t.got[d]
        BY <1>7, <2>5, <3>3
      <4>2. \A e \in new : i # <<e, type>>
        BY <3>1, <3>3
      <4>3. ASSUME Alone(i), d \notin thinned PROVE \E x \in SnapshotsOf(i)' : IsLatest(x)' /\ x.content = answered'[i]
        <5>1. t.prev[d] \in SnapshotsOf(i) /\ IsLatest(t.prev[d])
          BY <1>5, <1>14, <2>5, <3>1, <4>1, <4>3 DEF ReadIsFresh, Alone
        <5>2. PICK x : x = t.prev[d]
          OBVIOUS
        <5>3. x \in SnapshotsOf(i)' /\ IsLatest(x)' /\ x.content = answered'[i]
          BY <1>13, <1>15, <2>3, <3>1, <4>1, <4>2, <5>1, <5>2
        <5> QED
          BY <5>3
      <4> QED
        BY <2>1, <3>1, <4>3
    <3> QED
      BY <3>2, <3>3
  <2> QED
    BY <2>4, <2>5
<1>18. ASSUME NEW v \in Threads, pc'[v] = "write" PROVE ReadIsFresh(v)'
  <2>1. v # w /\ pc[v] = "write" /\ task'[v] = task[v] /\ ReadIsFresh(v)
    BY <1>4, <1>9, <1>18 DEF ArchiveInv
  <2>2. task[v].devices \cap t.devices \subseteq contested
    BY <1>1, <2>1 DEF ArchiveInv, Overlaps, Busy
  <2> SUFFICES ASSUME NEW d \in task[v].devices \ contested
               PROVE  LET i == <<d, task[v].type>> IN
                      /\ \A x \in SnapshotsOf(i)' : x.version < task[v].version[d]
                      /\ d \notin thinned => IF task[v].prev[d] = None THEN SnapshotsOf(i)' = {}
                                             ELSE task[v].prev[d] \in SnapshotsOf(i)' /\ IsLatest(task[v].prev[d])'
    BY <1>1, <2>1 DEF ReadIsFresh
  <2> DEFINE i == <<d, task[v].type>>
  <2>3. \A e \in new : i # <<e, type>>
    BY <1>5, <2>2
  <2>4. SnapshotsOf(i)' = SnapshotsOf(i)
    BY <1>1, <1>6, <2>1, <2>3 DEF SnapshotsOf
  <2>5. ASSUME NEW x \in SnapshotsOf(i), IsLatest(x) PROVE IsLatest(x)'
    BY <1>15, <2>3, <2>5 DEF SnapshotsOf
  <2>6. task[v].prev[d] \in SnapshotsOf(i) /\ IsLatest(task[v].prev[d]) => IsLatest(task[v].prev[d])'
    BY <2>1, <2>5
  <2> QED
    BY <2>1, <2>4, <2>6 DEF ReadIsFresh
<1>19. Ordered'
  BY <1>16 DEF Ordered
<1>20. Answers'
  BY <1>17 DEF Answers
<1> QED
  BY <1>11, <1>18, <1>19, <1>20 DEF ArchiveInv

\* What is left after a deletion is in order; the devices it concerned are known.
LEMMA ArchiveOfDelete ==
  ASSUME Shapes, ArchiveInv, UNCHANGED << answered, contested, pc, task >>, archive' \subseteq archive, thinned \subseteq thinned',
         \A x \in archive : x \notin archive' => x.item[1] \in thinned'
  PROVE  ArchiveInv'
<1>1. Overlaps'
  BY DEF ArchiveInv, Overlaps, Busy
<1>2. \A i : SnapshotsOf(i)' \subseteq SnapshotsOf(i) /\ (Alone(i)' <=> Alone(i))
  BY DEF SnapshotsOf, Alone
<1>3. \A i : i[1] \notin thinned' => SnapshotsOf(i)' = SnapshotsOf(i)
  BY DEF SnapshotsOf
<1>4. Ordered'
  BY <1>2 DEF ArchiveInv, Ordered
<1>5. \A x : x.item[1] \notin thinned' => (IsLatest(x) => IsLatest(x)')
  BY <1>3 DEF IsLatest
<1>6. ASSUME NEW i \in Items
      PROVE  /\ answered'[i] = None => SnapshotsOf(i)' = {}
             /\ Alone(i)' /\ i[1] \notin thinned' /\ answered'[i] # None =>
                  \E x \in SnapshotsOf(i)' : IsLatest(x)' /\ x.content = answered'[i]
  <2>1. /\ answered[i] = None => SnapshotsOf(i) = {}
        /\ Alone(i) /\ i[1] \notin thinned /\ answered[i] # None =>
             \E x \in SnapshotsOf(i) : IsLatest(x) /\ x.content = answered[i]
    BY DEF ArchiveInv, Answers
  <2>2. \A x \in SnapshotsOf(i) : x.item = i
    BY DEF SnapshotsOf
  <2> QED
    BY <1>2, <1>3, <1>5, <2>1, <2>2
<1>7. ASSUME NEW v \in Threads, pc'[v] = "write" PROVE ReadIsFresh(v)'
  <2>1. ReadIsFresh(v)
    BY <1>7 DEF ArchiveInv
  <2> SUFFICES ASSUME NEW d \in task[v].devices \ contested
               PROVE  LET i == <<d, task[v].type>> IN
                      /\ \A x \in SnapshotsOf(i)' : x.version < task[v].version[d]
                      /\ d \notin thinned' => IF task[v].prev[d] = None THEN SnapshotsOf(i)' = {}
                                              ELSE task[v].prev[d] \in SnapshotsOf(i)' /\ IsLatest(task[v].prev[d])'
    BY DEF ReadIsFresh
  <2> DEFINE i == <<d, task[v].type>>
  <2>2. SnapshotsOf(i)' \subseteq SnapshotsOf(i) /\ (d \notin thinned' => SnapshotsOf(i)' = SnapshotsOf(i))
    BY DEF SnapshotsOf
  <2>3. ASSUME NEW x \in SnapshotsOf(i), IsLatest(x), d \notin thinned' PROVE IsLatest(x)'
    <3>1. x.item = i
      BY DEF SnapshotsOf
    <3> QED
      BY <1>5, <2>3, <3>1
  <2>4. task[v].prev[d] \in SnapshotsOf(i) /\ IsLatest(task[v].prev[d]) /\ d \notin thinned' => IsLatest(task[v].prev[d])'
    BY <2>3
  <2> QED
    BY <2>1, <2>2, <2>4 DEF ReadIsFresh
<1> QED
  BY <1>1, <1>4, <1>6, <1>7 DEF ArchiveInv, Answers

LEMMA ArchiveKept == Shapes /\ ArchiveInv /\ [Next]_vars => ArchiveInv'
<1> SUFFICES ASSUME Shapes, ArchiveInv, [Next]_vars PROVE ArchiveInv'
  OBVIOUS
<1>1. ASSUME NEW w \in Threads, NEW label, NEW t, Become(w, label, t), label \in {"idle", "insert", "retrieve", "read", "mark"},
             label \in {"idle", "mark"} \/ (Busy(w) /\ t.devices = task[w].devices),
             UNCHANGED << archive, answered, contested, thinned >>
      PROVE  ArchiveInv'
  <2>1. pc'[w] = label /\ task'[w] = t /\ \A v \in Threads : v # w => pc'[v] = pc[v] /\ task'[v] = task[v]
    BY <1>1, Became
  <2>2. \A v \in Threads : Busy(v)' => Busy(v) /\ task'[v].devices = task[v].devices
    BY <1>1, <2>1 DEF Busy
  <2>3. \A v \in Threads : pc'[v] = "write" => pc[v] = "write" /\ task'[v] = task[v]
    BY <1>1, <2>1
  <2> QED
    BY <1>1, <2>2, <2>3, ArchiveStays
<1>2. ASSUME NEW w \in Threads, Raise(w) PROVE ArchiveInv'
  BY <1>1, <1>2 DEF Raise
<1>3. ASSUME NEW w \in Threads, Proceed(w) PROVE ArchiveInv'
  <2> DEFINE t == task[w]
  <2>1. t \in Task
    BY DEF Shapes, TypeOK
  <2>2. CASE _next_job_number(w)
    <3> DEFINE u == [t EXCEPT !.number = Len(jobs) + 1]
    <3>1. Become(w, "insert", u) /\ u.devices = t.devices /\ Busy(w) /\ UNCHANGED << archive, answered, contested, thinned >>
      BY <2>1, <2>2 DEF _next_job_number, Busy, Task
    <3> HIDE DEF u
    <3> QED
      BY <1>1, <3>1
  <2>3. CASE InsertJob(w)
    BY <1>1, <2>3 DEF InsertJob, Busy
  <2>4. CASE _retrieve_one(w)
    <3>1. PICK type \in t.left, failing \in SUBSET t.devices :
               Become(w, "read", [t EXCEPT !.type = type, !.left = @ \ {type},
                    !.got = [d \in Devices |-> IF d \in t.devices \ failing THEN config[<<d, type>>] ELSE None]])
      BY <2>4 DEF _retrieve_one
    <3> DEFINE got == [d \in Devices |-> IF d \in t.devices \ failing THEN config[<<d, type>>] ELSE None]
               u == [t EXCEPT !.type = type, !.left = @ \ {type}, !.got = got]
    <3>2. u.devices = t.devices /\ Busy(w) /\ UNCHANGED << archive, answered, contested, thinned >>
      BY <2>1, <2>4 DEF _retrieve_one, Busy, Task
    <3>3. Become(w, "read", u)
      BY <3>1
    <3> HIDE DEF u
    <3> QED
      BY <1>1, <3>2, <3>3
  <2>5. CASE FinishJob(w)
    <3>1. \/ Become(w, "mark", [NoTask EXCEPT !.by = t.by])
          \/ Become(w, "idle", NoTask)
      BY <2>5 DEF FinishJob
    <3> QED
      BY <1>1, <2>5, <3>1 DEF FinishJob
  <2> QED
    BY <1>2, <1>3, <2>2, <2>3, <2>4, <2>5, ArchiveOfRead, ArchiveOfWrite DEF Proceed, NumberTaken, WriteFails
<1>4. CASE MarkRun
  BY <1>1, <1>4, Days DEF MarkRun
<1>5. ASSUME NEW s \in Schedules, run_due_schedule(s) PROVE ArchiveInv'
  BY <1>5, Days, ArchiveOfBegin DEF run_due_schedule
<1>6. ASSUME NEW w \in Workers, NEW D \in SUBSET Devices, run_backup(w, D) PROVE ArchiveInv'
  BY <1>6, Days, ArchiveOfBegin DEF run_backup
<1>7. CASE Crash
  BY <1>7, ArchiveStays DEF Crash, Busy
<1>8. ASSUME UNCHANGED << archive, answered, contested, thinned, pc, task >> PROVE ArchiveInv'
  BY <1>8, ArchiveStays DEF Busy
<1>9. CASE _poll_once \/ Midnight \/ UNCHANGED vars
  BY <1>8, <1>9 DEF _poll_once, Midnight, vars
<1>10. ASSUME NEW s \in Schedules, TimeComes(s) PROVE ArchiveInv'
  BY <1>8, <1>10 DEF TimeComes
<1>11. ASSUME NEW i \in Items, clear_baseline(i) \/ \E c \in Contents : Reconfigure(i, c) PROVE ArchiveInv'
  BY <1>8, <1>11 DEF clear_baseline, Reconfigure
<1>12. ASSUME NEW x \in archive, set_baseline(x) PROVE ArchiveInv'
  BY <1>8, <1>12 DEF set_baseline
<1>13. ASSUME NEW x \in archive, delete_configuration(x) PROVE ArchiveInv'
  BY <1>13, ArchiveOfDelete DEF delete_configuration
<1>14. ASSUME NEW d \in Devices, delete_device(d) PROVE ArchiveInv'
  <2>1. /\ UNCHANGED << answered, contested, pc, task >> /\ archive' = {x \in archive : x.item[1] # d}
        /\ thinned' = thinned \cup {d}
    BY <1>14 DEF delete_device
  <2> QED
    BY <2>1, ArchiveOfDelete
<1> QED
  BY <1>3, <1>4, <1>5, <1>6, <1>7, <1>9, <1>10, <1>11, <1>12, <1>13, <1>14 DEF Next, Schedule

LEMMA ArchiveIsOrdered == Shapes /\ ArchiveInv => ReadingsAgree
<1> SUFFICES ASSUME Shapes, ArchiveInv, NEW i \in Items, Alone(i), NEW x \in latest_configuration(i) \ {None},
                    NEW y \in SnapshotsOf(i) \ {x}
             PROVE  y.version < x.version /\ y.at < x.at
  BY DEF ReadingsAgree
<1>1. x \in SnapshotsOf(i) /\ IsLatest(x) /\ x.item = i
  BY LatestFacts DEF SnapshotsOf
<1>2. /\ y.version <= x.version
      /\ (x.version < y.version /\ x.at < y.at) \/ (y.version < x.version /\ y.at < x.at)
  BY <1>1 DEF IsLatest, ArchiveInv, Ordered
<1>3. x.version \in Nat /\ y.version \in Nat
  BY <1>1 DEF SnapshotsOf, Shapes, TypeOK, Snapshot
<1> QED
  BY <1>2, <1>3

\* Where nothing overlapped and nothing was deleted there is one latest snapshot, and it is the last answer.
LEMMA TheLatest ==
  ASSUME Shapes, ArchiveInv, NEW i \in Items, Alone(i), i[1] \notin thinned, answered[i] # None
  PROVE  \E x \in SnapshotsOf(i) : /\ x.content = answered[i] /\ latest_configuration(i) = {x}
                                   /\ \A y \in SnapshotsOf(i) : y # x => y.at < x.at
<1>1. PICK x \in SnapshotsOf(i) : IsLatest(x) /\ x.content = answered[i]
  BY DEF ArchiveInv, Answers
<1>2. x.item = i /\ x \in archive
  BY DEF SnapshotsOf
<1>3. \A y \in SnapshotsOf(i) : y.version \in Nat /\ y.at \in Nat
  BY DEF SnapshotsOf, Shapes, TypeOK, Snapshot
<1>4. \A y \in SnapshotsOf(i) : y # x => y.version < x.version /\ y.at < x.at
  <2> TAKE y \in SnapshotsOf(i)
  <2> HAVE y # x
  <2>1. /\ y.version <= x.version
        /\ (x.version < y.version /\ x.at < y.at) \/ (y.version < x.version /\ y.at < x.at)
    BY <1>1, <1>2 DEF IsLatest, ArchiveInv, Ordered
  <2> QED
    BY <1>3, <2>1
<1>5. Max(Versions(i)) = x.version
  <2>1. Max(Versions(i)) \in Versions(i) /\ x.version <= Max(Versions(i))
    BY HighestVersion DEF Versions
  <2>2. PICK y \in SnapshotsOf(i) : y.version = Max(Versions(i))
    BY <2>1 DEF Versions
  <2> QED
    BY <1>3, <1>4, <2>1, <2>2
<1>6. \A y \in SnapshotsOf(i) : y.version = x.version <=> y = x
  BY <1>3, <1>4
<1>7. latest_configuration(i) = {x}
  BY <1>5, <1>6 DEF latest_configuration
<1> QED
  BY <1>1, <1>4, <1>7

LEMMA ArchiveIsLastAnswer == Shapes /\ ArchiveInv => LatestIsLastAnswer
<1> SUFFICES ASSUME Shapes, ArchiveInv, NEW i \in Items, Alone(i), i[1] \notin thinned, answered[i] # None
             PROVE  {x.content : x \in latest_configuration(i) \ {None}} = {answered[i]}
  BY DEF LatestIsLastAnswer
<1>1. PICK x \in SnapshotsOf(i) : x.content = answered[i] /\ latest_configuration(i) = {x}
  BY TheLatest
<1>2. x # None
  BY SnapshotAssumption DEF SnapshotsOf, Shapes, TypeOK
<1> QED
  BY <1>1, <1>2

LEMMA SyncIsHeld == Shapes /\ ArchiveInv => InSyncIsHeld
<1> SUFFICES ASSUME Shapes, ArchiveInv, NEW i \in Items, evaluate_device_drift(i) = "in_sync"
             PROVE  /\ baseline[i] \in archive
                    /\ Alone(i) /\ i[1] \notin thinned => answered[i] = baseline[i].content
  BY DEF InSyncIsHeld
<1> DEFINE newest == {x \in SnapshotsOf(i) : \A y \in SnapshotsOf(i) : y.at <= x.at}
<1>1. baseline[i] \in archive \/ baseline[i] = None \/ baseline[i] \notin archive \cup {None}
  OBVIOUS
<1>2. None \notin archive
  BY SnapshotAssumption DEF Shapes, TypeOK
<1>3. newest # {} /\ baseline[i] # None /\ baseline[i] \in archive /\ \E x \in newest : x.content = baseline[i].content
  <2> HIDE DEF newest
  <2>1. evaluate_device_drift(i) =
          CASE newest = {} -> "no_snapshot"
            [] newest # {} /\ baseline[i] = None -> "no_baseline"
            [] newest # {} /\ baseline[i] \notin archive \cup {None} -> "baseline_gone"
            [] newest # {} /\ baseline[i] \in archive ->
                 IF \E x \in newest : x.content = baseline[i].content THEN "in_sync" ELSE "drifted"
    BY DEF evaluate_device_drift, newest
  <2> QED
    BY <1>1, <1>2, <2>1
<1>4. ASSUME Alone(i), i[1] \notin thinned PROVE answered[i] = baseline[i].content
  <2>1. PICK x \in newest : x.content = baseline[i].content
    BY <1>3
  <2>2. answered[i] # None
    BY <2>1 DEF ArchiveInv, Answers
  <2>3. PICK z \in SnapshotsOf(i) : z.content = answered[i] /\ \A y \in SnapshotsOf(i) : y # z => y.at < z.at
    BY <1>4, <2>2, TheLatest
  <2>4. x.at \in Nat /\ z.at \in Nat
    BY <2>1 DEF SnapshotsOf, Shapes, TypeOK, Snapshot
  <2>5. x = z
    BY <2>1, <2>3, <2>4
  <2> QED
    BY <2>1, <2>3, <2>5
<1> QED
  BY <1>3, <1>4

\* The archive is true of every device whose backups never overlapped, however many devices, backups, deletions
\* and restarts there are: its latest snapshot is its last answer, and no other can be taken for the latest.
THEOREM ArchiveStaysTrue == Spec => []ArchiveIsTrue
<1>1. Init => Shapes /\ ArchiveInv
  BY TypesStart, ArchiveStart
<1>2. Shapes /\ ArchiveInv /\ [Next]_vars => Shapes' /\ ArchiveInv'
  BY TypesKept, ArchiveKept
<1>3. Shapes /\ ArchiveInv => ArchiveIsTrue
  BY ArchiveIsOrdered, ArchiveIsLastAnswer DEF ArchiveIsTrue
<1> QED
  BY <1>1, <1>2, <1>3, PTL DEF Spec

\* Drift never says "in sync" of a baseline that is gone, or of a device whose last answer was another configuration
\* than the designated one, where no backups overlapped and nothing was deleted.
THEOREM InSyncStaysTrue == Spec => []InSyncIsHeld
<1>1. Init => Shapes /\ ArchiveInv
  BY TypesStart, ArchiveStart
<1>2. Shapes /\ ArchiveInv /\ [Next]_vars => Shapes' /\ ArchiveInv'
  BY TypesKept, ArchiveKept
<1> QED
  BY <1>1, <1>2, SyncIsHeld, PTL DEF Spec
=============================================================================
