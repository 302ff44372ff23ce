# NetworkAAA: a verification project

TLA+ models of the NetworkAAA management plane (FastAPI over PostgreSQL, in front of the
tac_plus-ng daemon and a fleet of Cisco devices), TLC runs on small instances of them, and
theorems that TLAPS checks for every value of the constants. `PROJECT.json` lists the
components, runs, hazards and theorems, and maps every definition to the lines it models.

## The system

| component | state it keeps | operations | where it is modelled |
|---|---|---|---|
| Configuration lifecycle (`config_compiler.apply_candidate`, `_rollback`, `routes_config`, `service_control`) | live file, `config_versions`, backups, the daemon | apply, restore a version, import; reload, restart, health check | ConfigApply, ConfigHistory |
| NCM change management (`ncm_deploy`, `routes_ncm`) | candidates, deployments, the device's configuration | create, submit, review, deploy, roll back | NcmChange, ChangeControl |
| Authorization policies (`routes_policies`, `routes_policy_conditions`, `condition_engine`, `policy_engine`, `routes_effective_access`, ruleset part of `config_compiler`) | policies, condition trees, command sets, groups, grants | create, move, reorder, save a tree, migrate, delete anything a condition names; simulate, report who reaches what | PolicyMatch, PolicyEdits |
| NCM backups, archive, scheduler, drift (`ncm_backup`, `ncm_archive`, `ncm_scheduler`, `ncm_drift`) | jobs, targets, snapshots, baselines, `last_run_at` | back up by hand or by schedule, designate, delete, report drift | NcmBackup |
| Policy version history (`policy_versioning`, `routes_policy_versions`) | snapshots of policies, by name | record with every save, compare, restore | PolicyVersions |
| Command jobs, checks and audits of their output (`network_ops_execution`, `network_ops_checks`, `routes_network_ops*`) | jobs, targets, executions, check results, an audit | create (commands and targets are copied), run in the background, check, audit | CommandJobs |
| Device inventory, provisioning, licence (`routes_devices`, `routes_network_scan`, `ssh_provision`, `apply_progress`, `entitlements`, `license_verify`, `machine_fingerprint`, `routes_license`) | devices and their keys, the licence row, sessions in memory | add, edit, delete, configure one or many, import and remove a licence | Inventory |
| Security Center (`security_center`: parser, checks, correlation, score, compliance) | none | what one configuration is worth | SecurityChecks |
| Audits of the fleet and their pages (`scheduled_audit`, `security_audit_persistence`, `routes_security`) | batches, runs, findings, the schedule | daily poll, audit one, many or a text, every page | SecurityAudit |
| Accounting and authentication logs (`accounting_log`, `routes_accounting`) | the daemon's three files | read, filter, group into sessions, count | AccountingLog |
| Administrators (`routes_auth`, `deps`, `routes_admin_users`, `routes_admin_roles`) | accounts, roles, sessions, failure counters | log in, edit accounts and roles | Administrators |
| the rest: user, group and command set rows, RADIUS, directory, views, settings, web pages, installer | rows and views | create, read, update, delete; pure functions of text | not modelled; `PROJECT.json` says why, one by one |

**How the parts interact.** Endpoints are synchronous functions, so every request runs in a
worker thread with a database session of its own (READ COMMITTED, `autoflush=False`); two
asyncio loops run a scheduler tick each in a further thread every five minutes. Nothing but
the database's constraints serialises them: the code takes no row lock. Policies,
users, groups and devices are compiled to one text; the configuration lifecycle puts that text
under the daemon; the daemon answers the routers. NCM talks SSH to the routers: backups fill
the archive, change management archives before and after it sends, drift compares two rows of
the archive. Deleting a row reaches the others through foreign keys (CASCADE or SET NULL).

**What is hard here.** A decision on a row that was read seconds or minutes before the write
(version numbers, candidate status, tree roots, latest snapshot, licence count). Effects outside
the database that no rollback undoes (a file, a daemon, a device). A restart between an effect
and its record. Two readings of the same rows that must agree (Simulator and compiler; highest
version and newest row). Deletions under an operation that needs the row. Time: calls that
outlive their timeout, schedules that cross midnight.

**What makes each part correct**, in a line: *lifecycle*: the version log is dense and append-only,
and is the deployed history; a failed apply puts the file back; the service comes back. *Change
management*: four eyes, a fresh rollback point before anything is sent, sent once, and what the
rows say happened did. *Policies*: the compiled ruleset says what the Simulator says; edits keep the
order; migration is lossless; deletion fails closed. *Backups*: a job tells what became of every device,
the archive's latest is the last answer, a schedule completes once a day, drift never says "in sync" falsely.
*Policy versions*: a restored policy is the recorded one, or the
administrator is told what is missing. *Jobs*: a closed job says what became of every device, a verdict is
about what was read. *Inventory*: never more devices than a licence allowed; the key stored is the key
the device took. *Audits*: a batch adds up; pages show the newest audit and agree with each other. *Logs*:
sessions and counts are those of the file. *Administrators*: somebody is left who can let others in.
*Background work*: it ends, or a crash or the database ended it.

## Modules and the code

Actions bear the name of the function they stand for. A call that reads or writes something
shared (database, file, daemon, device) is a step of its own, because that is where other
threads can come between; local computation belongs to the step before it. Operators whose name
starts with `Bug` are mutants: plausible errors which make the run of their property fail.
History variables, which only properties read, say so where they are declared.

### ConfigApply

A request is a process whose `pc` walks through `apply_candidate`: compile, read the active
file, take the version number, validate, back up, truncate and fill the file, reload (or
restart when the reload is refused), check health after two seconds, insert the row; on failure
`_rollback`. `proc`/`running` are the daemon as systemd sees it. Faults are a constant set: crash
of the management process, a systemctl call that outlives its timeout or is refused by
sudo, a daemon that is slow to reject a file or dies by itself, edits by hand. A text is a
value, and a compile may give any of them. `ConfigHistory` is the abstract specification: a text
goes live and is recorded in one step.

### NcmChange

Candidates move through `ALLOWED_TRANSITIONS`; submit and review read in one step and write in
another; `deploy_candidate` and `rollback_deployment` are processes (insert the row, back up, archive,
record the point, send, back up, archive, conclude). A configuration is a function from settings
to values, what is sent a partial one, so a session may break after any part of the lines and
`Replay` of a snapshot restores values but not absences, as in the code. `ChangeControl` is the
abstract specification of what a candidate may go through. Archiving is one step here; its own
races are NcmBackup's.

### PolicyMatch and PolicyEdits

PolicyMatch holds the two readings of the tables as operators. In snake case, the engine's
(`evaluate_condition`, `evaluate_group`, `evaluate_command`, ...); `Compiles`, `RuleHolds`, `ServedBy`,
`Script`, what the compiled ruleset does with a connection. They are kept apart as in the code,
including what the compiler leaves out. `EffectiveAccess` is the report's question, the engine's
without an address. A leaf is a type, an operator and the set it compares
with. Trees are two levels deep: the code treats every level the same. PolicyEdits has the edits as
actions; saving or migrating a tree takes two (read, then commit), so that saves overlap.

### NcmBackup

A thread's backup: take a number, insert the job, then for each type retrieve from every device (one step:
devices share nothing), read the latest snapshots and versions, write in one transaction, and
finally close the job. The scheduler is one more thread that polls, runs what is due one by one,
and marks it. A failed transaction raises: the scheduler's session is then unusable, so even the
`finally` that marks the schedule fails, the rest of the poll is skipped, and the next poll tries
again. Days and due times are `Midnight` and `TimeComes`. Drift is an operator over the tables.

### PolicyVersions

Rows have identities, versions have names; `label` says who bears which name, and identities do not come back.
A save reads and decides in `Begin` and takes effect in `CommitSave`, where the ORM writes only the columns that
it changed (`Merge`) and records a snapshot of the policy *as its session has it*; in between
rows are renamed, added and deleted (`RenameRow`, `AddRow`, `DeleteRow`). From its flush to its commit a save is one
step. Priorities, name and description are left out: a restore that meets another policy's priority is `SaveRefused`.
`Unflushed` is what the snapshot finds of the command sets of its own save: none.

### CommandJobs

A request copies commands and targets into a job; `run_job` and `_execute_one_target` visit the targets, one
by one or `Concurrency` at a time, each thread with a session of its own; `RolledUp` closes the job. A device
may be unreachable, go away midway or have its answer cut short; a commit may fail with or without
being recorded; the process may die. Checks read the rows whenever they are asked to. A configuration is a
set of lines, of which the four built-in checks look at some.

### SecurityChecks and SecurityAudit

SecurityChecks is `run_device_audit` as an operator: one operator per check function, with the conditions
under which each of its findings passes, fails, is to be reviewed or does not apply, then correlation,
interface rules, score, domains, risk and compliance. A configuration is the set of facts its lines
establish: a line that only one check looks for bears the name of the check (`"AAA-01" \in c.has`); any other
fact has the words of its lines, joined by hyphens, and checks come with their weights as pairs
(`<<"AAA-01", CRITICAL>>`). How a line is recognised in the text is left out. SecurityAudit has the scheduler and the requests as
workers that walk through a batch: insert it, start a run, read the device, persist, close. Each page
is an operator over the stored runs, named after its endpoint.

### Inventory

A client is a request or a background task. `check_can_add_device` and the hook
`_enforce_device_licence` count committed rows; the insertion becomes visible in `CommitDevice`. Provisioning
(`apply_aaa_all`) takes a host through `NextHost`, `gather_device_info`, `apply_aaa_config`, `LimitAfterPush`
and the insertion, in that order. `verify`, `check_binding`, `_effective_now` and `current_limit` decide what a
licence is worth. An address is the set of hosts it covers. History variables collect the races the
properties except: `overtaken`, `doubted`, `settled`. `apply_aaa_config` succeeds whether or not the device took the key.

### AccountingLog

The daemon appends lines, each the sequence of its fields as the compiled configuration tells it to write
them; a command that contains the separator makes one field more. Parsing, filters, sessions, counts
and events are operators over the last lines of the files: a record keeps the number of its line, so that picking records
is restricting a function to the lines picked. Of a login's message only the word that decides is kept, and
the chart of activity goes back `HOURS`, a constant. `lived` is what really happened: of each session, the
lines it wrote.

### Administrators

A login reads the failures (`login`), writes the recent ones back and decides (`WriteBack`), and counts or forgets
them later (`_record_failure`, `_clear_failures`); an edit is decided in one step and takes effect in another (`CommitAccount`). A failure is a record of its time and its number. A session is a name, looked up in every request. Passwords are right or
wrong; what a role permits is left out.

### MCPlatform

Composes these seven modules for TLC. They share no state, so nothing is lost when a behaviour is one
of one part, which `Init` chooses, while the other parts stutter.

## The runs

| run | instance | shows |
|---|---|---|
| config_races | 2 requests, 2 texts, every fault | `TypeOK`, `NumbersDense` however they overlap |
| config_serial | 3 requests in turn, 3 texts, the daemon may die | `BackupsMatchVersions`, `ImplementsHistory`, `FailedApplyRestores`, `OutcomesAreServed`, `ServiceConverges` |
| config_collision | 2 requests, no fault | *violation*: numbers do collide (`NoCollision`) |
| change_races | 2 threads, 1 candidate, 2 deployments, 1 rollback; failures, deletion, restart | `TypeOK`, `SentIsCovered`, `OutcomeIsEarned`, `NamedSnapshotsExist` |
| change_serial | 1 thread, 2 candidates, 2 settings; partial and failing sessions | `SentOnce`, `PointIsFresh`, `ImplementsControl`, `ReportsAreTrue`, `DeploymentsEnd` |
| change_twice | 2 threads, no fault | *violation*: a candidate is sent twice (`SentOnce`) |
| policy_edits | 3 policies, 2 users, groups and devices, 6 trees, 2 overlapping saves, 3 edits | `TypeOK`, `RulesetIsFaithful`, `OrderKept`, `MigrationLossless`, `SavedTreeDecides`, `DeletionFailsClosed` |
| policy_dangling | the same | *violation*: a condition on a deleted row matches (`DanglingNeverMatches`) |
| backup | two studies: 2 devices, 2 types, a manual and a scheduled job, 2 failures, a deletion or a restart; and 1 device, 2 days, 3 backups, 2 changes, a baseline, a deletion or a restart | `TypeOK`, `JobsTellTheTruth`, `ArchiveIsTrue`, `InSyncIsHeld`, `OncePerDay` |
| backup_retries | the same | *violation*: a schedule that raises starts again the same day (`RetriesTomorrow`) |
| platform | seven instances, see below | `PlatformTypes`, `JobTellsTheTruth`, `VerdictsAreSeen`, `BatchesTellTheTruth`, `SecurityPagesAreTrue`, `LimitIsKept`, `LicenceDecides`, `SecretsAgree`, `PagesMatchTheLog`, `NobodyIsLockedOut`, `RestoresAreTrue`, `WorkEnds` |
| licence_refill | licences, 3 hosts, a licence for 3 devices where Community has 1 | *violation*: a device is added while there are more than the limit (`AddingIsBlocked`) |

Several of these are conjunctions: `SentIsCovered` of four eyes, approval and a rollback point; `RulesetIsFaithful`
of `NeverNarrower`, `SameVerdict` and `ReportIsKept`; `OutcomesAreServed`, `ReportsAreTrue`, `ArchiveIsTrue`, `SecurityPagesAreTrue`,
`PagesMatchTheLog`, `RestoresAreTrue` of two each, which the modules define and comment separately.

The instances of **platform**: *jobs*: 1 job of 2 or 3 commands on 2 devices, sequential or with 2 threads, one
kind of disturbance at a time (`Calm`), one run of checks. *audits*: 2 devices, a bare and a good configuration, the
scheduler and 1 request, 1 trouble (a change, a silent device, a crash, a removal), a day and a half. *devices*: 2 hosts
with one hostname, 2 clients and 1 event, no licence; *licence*: 1 client and 3 events, devices that take their keys (`Fewer`), a licence for 2 devices
where Community has 1, two days, two machines. *log*: 2 terminals, 2 users, 2 commands of which one contains the
separator, 4 records, one lost record or refusal, a chart of one hour. *accounts*: 2 accounts, 2 visitors, 4 logins and edits of one field
each (`Sparing`). *versions*: 2 policies, 2 rows and 2 names per table, 4 saves and 2 changes of rows, 2 savers (`Orderly`).
`Fewer` and `Orderly` only take away what is the same under another name.

**Bounds.** Every race in the code is between two actors over one row, so two threads and one row
show it; the theorems then say it for any number. The serial runs have three requests or two
deployments, enough for a failure between two successes, which is when a backup file is
overwritten or a stale rollback point used. Three backups with two changes let a device go to
another configuration and back. Three edits let a tree be saved, what it names be deleted, and the
other save commit. Bounds are constants (`Max...`) that guard actions; properties use them only to
range over numbers and days.
Two devices are the least that make a job or batch partial, two accounts the least that can demote each other, two
savers and two names the least in which a name changes hands under a save.
The study of the archive has no failing device: the other has, and a failure writes no snapshot.
`CHECK_DEADLOCK FALSE` everywhere: each request is made once and bounds run out, so the models do stop;
that nothing stops half way is what `ServiceConverges`, `DeploymentsEnd` and `WorkEnds` are for. No run claims that a backup ends.

**Symmetry** is used over threads, administrators, requests, only in runs that check no liveness.

**Fairness.** Weak fairness of each started thread: every call it makes (systemctl, SSH, SQL) has
a timeout and ends in an answer or an exception, and the thread pool runs it. Of systemd's
restarts: the unit says `Restart=`. Of the daemon deciding about a file. Of job threads, workers and provisioning tasks
(`JobFairness`, `AuditFairness`, `InventoryFairness`), whose every call has a timeout too. Nothing obliges an administrator to make a request, a fault to
happen or not to happen, and Midnight is not fair either.

## What is proved

| module | theorems | argument |
|---|---|---|
| ConfigApplyProofs | `TypeCorrectness`, `VersionLogDense`, `VersionLogAppendOnly` | `LogInv`: numbers in use are 1..k, none twice, and the number a request holds is 1 or the successor of one in use. The last part is what survives any interleaving: numbers are never given up. Without it nothing prevents an old request from leaving a gap. |
| | `HistoryIsHonest`, `ApplyImplementsHistory`, `FailedApplyPutsBack`, `BackupsAreVersions` | assume `TakeTurns` (administrators one at a time; no crash, timeout or hand edit; the daemon may still die, be slow or sudo refuse). `SerialInv`: who touches the file holds the last version's text in `previous_active`, and the file is the candidate until the row is inserted. A backup is then written from the text of the version it is named after, as often as it is written again. |
| | `RecordedVersionsWereServed`, `RolledBackRuns`, `ApplySaysWhatItDid` | assume `TakeTurns`, the first also a daemon that decides within the two seconds of the health check (no `slow`), the second that sudo never refuses, the third both: each fault alone makes the statement false. `ServedInv`: from the reload on, what the daemon runs or is deciding about is the file of the request in progress. |
| NcmChangeProofs | `ChangeTypes`, `NobodyApprovesAlone`, `NothingSentUnapproved`, `NothingSentWithoutPoint`, `NothingSentUncovered`, `NamedSnapshotsAreThere`, `OutcomesAreEarned` | statuses are written on stale reads, so a status says little; what is stable is `Seconded`: the approver, once not the author, stays not the author. Every deploying thread relies on it and on the row of its deployment (`ThreadInv`). |
| | `SerialSentOnce`, `SerialPointIsFresh`, `SerialReportsAreTrue`, `SerialImplementsControl` | assume `Serial`: one worker thread, no restart, no snapshot deleted. `SerialInv`: what the thread read still is so (its candidate's status, its deployment's row, the device since the rollback point was stored). `LogInv`: of each deployment and rollback, what its row says is what the log of sendings says. Every step of the thread is then a step of `ChangeControl` or leaves candidates and sendings alone. |
| PolicyEditsProofs | `PolicyTypesCorrect`, `CompiledNeverNarrower`, `SimulatorTellsTheTruth`, `EffectiveAccessIsKept`, `RulesetStaysFaithful`, `PrioritiesStayUnique`, `OthersKeepTheirOrder`, `SavedTreesDecide`, `MigrationIsLossless`, `DeletionsFailClosed` | `TypeOK` with live foreign keys is inductive. In any well-typed state the two readings are compared level by level: leaf, nested group, tree, policy, ruleset. Without an address a condition on one is false, so what matches then, if it has no NOT, matches from everywhere. Make-room keeps the order because it shifts everything from the place on; that needs unique priorities. |
| NcmBackupProofs | `BackupTypes`, `ClosedJobsTellTheTruth`, `SchedulesRunOnce`, `ArchiveStaysTrue`, `InSyncStaysTrue` | four invariants, one upon the other. `Shapes` bounds versions by the number of writes: a set without a bound has no highest version. `JobRows`: what a thread has counted in memory (`Tally`) is what it wrote, and nobody else writes rows of its job. `Calendar`: what a schedule has completed is older than its mark or about to be marked. `ArchiveInv`: versions and writes come in one order, and what a thread read is still so when it writes, for devices no other thread is busy with; the properties exempt the others (`contested`), because there it is false. |
| CommandJobsProofs | `JobsTellTheTruth`, `VerdictsSeen`, `JobTypesHold` | most steps are about one target: `Visit` relates its status, results in memory, rows and what the device was sent; `Closing` relates the status of a job to all its targets. For the verdicts, `DumpsInv`: what a device had when it answered, in memory and in rows, is a configuration a device can have; `BatchesInv`: what a batch of checks found was found on rows of its job. |
| InventoryProofs | `InventoryTypesHold`, `LimitHolds`, `LicenceDecidesHolds`, `SecretsHold` | `ProgressInv`: what a session has counted and what is left of it is no more than what it was given. `LimitInv`: the inventory, and what a client saw plus the device it asks for, are within the largest limit there ever was (`held`) but for the insertions that were overtaken. `DecideInv`: what a client saw permits its device, by a licence that has room or the number that was left when one was removed; days only rise in `highest`. `SecretsInv`: two on the way to one host know it (`doubted`); otherwise the key a task holds between push and insertion is the host's, if the device took it, and a host on its way into the inventory is not settled by a device that covers it. |
| SecurityProofs, audits | `BatchesAreTrue`, `PostureStaysCurrent`, `ControlsStayTrue`, `AuditTypesHold` | `AuditBase`: a worker owns the open run and batch it works on, and no two share one (`RunsApart`). Upon it `ReportInv`: numbers differ, an open batch has counted its finished runs, a closed one what became of its devices; `PostureInv`: a run that started after the last change of a device read what the device is; `DailyInv`, for one day: a second batch of the scheduler on it costs a crash. A page reads stored runs, and stored runs are results of `run_device_audit`; from there `ControlsStayTrue` follows from the cases of `control_status`. |
| SecurityProofs, accounts | `NobodyLockedOut`, `AdminTypesHold` | the account an edit was decided on still is what it was and another superadmin still is there when it commits (`Decided`), as long as no two edits overlap. `FailuresInv`: what is counted against a name is among the failures under it since a login was last let in, or that another login had read by then and puts back; so is what such a login holds. Each is a record of its own, so that counting them is comparing sets. `RegistryInv`: names are unique and roles are there, whatever changed between the decision on an edit and its commit. |
| SecurityProofs, pages | `SecurityPagesStayTrue` | the page that counts findings and the one that lists failing checks agree because no two findings of an audit are the same check of the same thing. That is shown function by function: `OncePerCheck`, for the 37 lists of checks and the correlation, whose names are disjoint; for the rules of interfaces, by the port. Findings are then finite, and their keys are as many as they are (`FindingsKeyed`, `FailingCounted`). The run before the one shown is the last of the completed ones without it, which is what the activity list looks for among earlier runs (`ChangesPagesAgree`); that scores are numbers closes the sum. |
| PlatformProofs, the log | `LogTypesHold`, `LogPagesStayTrue` | `SessionInv`: a session wrote the lines it says, its start before its commands and those before its stop, and a page reads them as such (`Tells`), unless a separator cut one in pieces, which names no terminal (`Garbled`). `ApartInv`: no line is of two sessions, and on one terminal the later begins when the earlier is over; `SourceInv`: every line is of some session. The session a page makes of a start is then the one lived, as far as the lines read reach; counts compare sets of line numbers, so that no sum is taken. |
| PlatformProofs, versions | `VersionsAreTyped`, `RestoresStayTrue`, `SetsAreNeverRecorded` | a name has one bearer at a time, and whoever a version meant has been in its table (`former`), so that a later row is not taken for it; a restore under way holds what its version gives under the names it saw. |
| PlatformProofs, the whole | `PlatformIsItsParts`, `PlatformTypesHold`, `PlatformKeepsItsPromises` | every step of the platform is a step of one part and leaves the variables of the others alone, and its fairness is theirs: a behaviour of the platform is one of each part. What the theorems say of the parts therefore holds of the specification the run `platform` checks, for every value of the constants. |

Some theorems state a part of a run's property: `VersionLogAppendOnly` and `HistoryIsHonest` of
`ImplementsHistory`; `RecordedVersionsWereServed` and `RolledBackRuns` of `OutcomesAreServed`; `NobodyApprovesAlone`,
`NothingSentUnapproved` and `NothingSentWithoutPoint` of `SentIsCovered`; `CompiledNeverNarrower`, `SimulatorTellsTheTruth` and
`EffectiveAccessIsKept` of `RulesetIsFaithful`; `PrioritiesStayUnique` is what `OrderKept` rests on; `PostureStaysCurrent` and
`ControlsStayTrue` of `SecurityPagesAreTrue`; `VersionsAreTyped`, `JobTypesHold`, `AuditTypesHold`, `InventoryTypesHold`,
`LogTypesHold` and `AdminTypesHold` of `PlatformTypes`. `SetsAreNeverRecorded` states the opposite of
a comment: no version ever has a command set, though `policy_version.py:4-7` says that snapshots have their names and
`policy_versioning.py:69-70` that the caller has flushed. `PlatformKeepsItsPromises` promises no more than its parts do, with
the exceptions each of them names.

The theorems assume only the named `ASSUME`s of the modules, which TLC evaluates in every run: constants are disjoint, sets
finite or not empty or subsets of their universes; in Inventory also that a vendor signs limits and days that are numbers and
that an address has a first host; in AccountingLog that no line of a device is called what stands in the next field of a
record, and that a command has at most two pairs of colons; in SecurityAudit that a configuration has finitely many ports and
none is called what stands for the device itself. Besides, `TakeTurns` and `Serial` where said. Neither is something the code enforces:
config_collision, change_twice and the limits below are what happens without them.

**Only model-checked.** Liveness (`ServiceConverges`, `DeploymentsEnd`, `WorkEnds`), which this prover cannot
reach. Every invariant and every action property that the passing runs check is stated by a theorem, some under `TakeTurns`
or `Serial` as the runs are.

**What the proofs found** in the models, where TLC's instances were too small to tell:

- `RestoredIsRestored` was about every step that changes the row of a deployment which is told to be restored. The first
  steps of a second rollback are such steps too, which one rollback (`MaxRollbacks`) could not show. It is about the
  step that ends a rollback now.
- A configuration as a set of lines could hold a line and its own negation, and a check then fails a device that its
  recommendation would not change. In CommandJobs a setting now replaces its negation (`Opposites`, `Configured`), as it
  does on a device.
- `control_status` and `risk_level` of SecurityChecks were CASE expressions whose guards overlap, so TLA+ left open which
  holds, where the code tests in order; they are IF and ELSE now.
- Pages of the log were sequences picked out of sequences, of which nothing can be proved here without induction. As
  functions on the lines picked they say more: which record, and not only how many, and in which order, is compared.
- The agreement of the counting pages rests on the names of ports: in the code a finding about the device has no
  interface name (None), which is `Device` here, so that the model must say that no port is called that (`ContentsAssumption`).
- `SecretsAgree` exempted hosts somebody is on the way to, without need, and is stronger now.

## What the models show of the code

Five statements of its comments and documents are not so (`findings`): version numbers are not assigned under a
lock; an approved candidate can be sent twice by overlapping requests; a `not_equal` condition on
a deleted row matches instead of failing closed; a schedule whose run raises is not marked and starts again the same day;
and adding devices is not blocked until the count is back within the limit: up to the number there was when a licence
was removed, deleted devices can be replaced. Further limits, met while modelling:

- A `TimeoutExpired` of systemctl escapes `apply_candidate` after the file was replaced, without
  rollback or version row; so does a crash. A rollback whose reload and restart are both refused leaves the
  daemon on the text that was rolled back. Two overlapping applies can leave a live file no version records.
- A review decided on a stale status can overwrite `deployed`. A restart between sending and the last
  commit leaves the candidate approved (it can be sent again) and the deployment running for ever. A
  failed connection or login marks the candidate failed, although nothing was sent (`ConnectFails`), and it cannot be tried again. When
  the verification backup fails, the caller is told that the configuration is unchanged; only the error in the row says that nobody looked
  (`ncm_deploy.py:255-275`). The rollback point is stale when two deployments overlap. A device whose own configuration has a line
  `DANGEROUS_PATTERNS` matches can be changed, but its rollback is always refused.
- A policy that does not compile is left out of the ruleset and a later one serves its connections. A
  legacy condition on an empty device group compiles to a rule without that clause.
- Effective access (`routes_effective_access.py:51`: "every device this user can reach") asks without an address and knows no
  device access grants: it leaves out what a grant opens, and what a policy opens from some addresses only. It lists
  disabled devices, and devices for a disabled user, whom the ruleset does not have.
- Two overlapping backups of a device may store two snapshots of one version; then which is "latest" is
  up to the database. The job of an interrupted
  backup stays `running`. A scheduled run that ends after midnight is marked as the next day's,
  which is then skipped. Drift compares snapshots: a device changed since its last backup is reported in sync.
- *Policy versions.* `build_snapshot` asks for the command sets before the save's own rows are flushed, so every version is
  without them (`SetsAreNeverRecorded`), and restoring any of them removes them all. Reordering,
  adding one command set, saving a condition tree and deleting what a policy names record no version. A
  restored policy can be broader than the recorded one, because a condition whose name is gone is dropped (the
  response says so); it may fail at its commit with a status of 500 on a priority that is taken; it does not
  restore the tree or manual approval. Two saves of one policy that overlap leave a mixture of their columns,
  which no version describes (`merged`).
- *Jobs.* After a crash, or a commit that fails twice, a job stays PENDING or RUNNING. A device that is lost midway has run
  commands of which no row is kept. A command's success is always true, so output that was cut short is
  judged like any other. CANCELLED, TIMEOUT and SKIPPED are never written.
- *Inventory.* `create_device` (`routes_devices.py:181`) uses a name its module imports in another function only, so it raises
  whenever it gets that far. The docstring of `apply_aaa_all` (`routes_network_scan.py:334-337`) says one host
  failing does not stop the rest; at the licence limit the batch is abandoned, after the host was configured, and its results are
  dropped. The comment on the hook says a stale count cannot slip past it; two insertions that overlap do
  (`overtaken`). The hook ignores clock and binding, unlike the handler. `apply_aaa_config` reports success without
  looking at the answers, so a device that refuses the line with the key (`ssh_provision.py:270-275`), or a stored template without
  `{shared_secret}` (`routes_network_scan.py:195-197`), leaves a stored key the device does not have.
- *Audits.* A live audit that dies stays `running`, and so does a batch whose device is deleted mid-audit. A poll that raises audits the
  fleet again five minutes later; one that crosses midnight skips a day; the hour is UTC where the page says the
  server's local time. A run's `completed_at` and a finding's `correlation_id` are never set. The interface
  rules get the outer record of a port, so they see its description only (`orchestrator.py:84`): hence `Handed`. Enabling
  DHCP snooping alone can lower a score. Compliance knows findings by check only, and lets `warn` pass. TRACK-02
  fails with the weight of INFO, so the overview leaves it out and the dashboard counts it. Percentages count
  rows on the dashboard and controls on the compliance page. Overlapping audits may leave the older
  configuration on the page until the next one, and an uploaded text need not be the device's.
- *Logs.* A command with `::` in it makes a record of nine fields, which is misfiled. The group filter compares addresses with
  device names. A record whose time cannot be
  read passes the date filter of the accounting page and not that of the event list.
- *Administrators.* Two overlapping edits may leave no superadmin, although `routes_admin_users.py` says the last one can never be
  demoted. Logins that overlap are all let through to the password check; one that writes back what it read
  can undo that another cleared the failures, so that a name is locked again, or lose one that was counted meanwhile.

## What is not modelled

Texts are values: that the compiler's output is the text a policy means is PolicyMatch's subject
only as far as matching and scripts go. RADIUS and user blocks, the SSH dialogue, diffs and
transcripts are left out. In NcmBackup a job asks for every type, selecting devices (groups,
disabled devices) is a choice of the set, setting a baseline is one step, and schedules are not edited.
Deep nesting of condition trees is two levels. In PolicyVersions a save is one step from its flush to its commit.
In Inventory the search of a network for hosts and the RADIUS fields, groups and descriptions of a device are left out; in
SecurityChecks, how a line of a configuration is recognised; in Administrators, passwords, cookies and what a role
permits; in AccountingLog, the raw viewer and the cutting of the rows of a list
to its limit (a list reads at least 2000 lines, whatever the limit); in effective access, users of the
directory. Not modelled at all, because they keep no state of their own or only pass
text on: the directory, the RADIUS probe, the comparison of configurations, certificates, settings,
monitoring, migrations, web pages and the installer. `PROJECT.json` says why, one by one.

## Plan

The modules planned at first are there. What is left, in this order:

1. Composition of PolicyEdits with ConfigApply: the ruleset that serves is the one of the last applied
   edit, so that what an edit closes stays open until an apply succeeds.
2. RADIUS policies and the directory: a second compiler over the same tables, and memberships that change between the
   Simulator's question and the daemon's.
