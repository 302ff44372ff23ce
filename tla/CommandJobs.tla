----------------------------- MODULE CommandJobs -----------------------------
(***************************************************************************)
(* Command jobs and what is concluded from their output                    *)
(* (services/network_ops_execution.py, network_ops_checks.py and the       *)
(* routes_network_ops*.py that start them).                                *)
(*                                                                         *)
(* A request copies the commands and the selected devices into a job and   *)
(* leaves it to a background task, which visits the devices one by one or  *)
(* in a pool of threads, each with a session of its own, and closes the    *)
(* job.  Checks and audits read the rows a job has left, whenever they are *)
(* asked to.  Nothing but memory knows that a job is being worked on.      *)
(*                                                                         *)
(* A configuration is the set of its lines; the output of "show" is the    *)
(* configuration, or its banner alone when the reader gives up too early.  *)
(* Any other command is a line that it adds, in the place of its negation. *)
(***************************************************************************)
EXTENDS Naturals, Sequences, FiniteSets, FiniteSetsExt, Functions

CONSTANTS
  Devices, Groups,
  Jobs,          \* the jobs that will be requested
  Scripts,       \* what templates hold and administrators type: sequences of commands
  Lines,         \* configuration lines, and the commands that add them
  CheckKeys,     \* the catalogue of checks
  None,
  Concurrency, MaxEdits, MaxJobFaults, MaxTroubles, MaxCheckRuns
                 \* bounds of the runs; a trouble is a device's, a fault the platform's own

Show == "show running-config"
ASSUME ScriptsAssumption == \A s \in Scripts : s # <<>> /\ s \in Seq(Lines \cup {Show})
ASSUME LinesAssumption == Show \notin Lines /\ None \notin Groups \cup Scripts
ASSUME JobBoundsAssumption == {Concurrency, MaxEdits, MaxJobFaults, MaxTroubles, MaxCheckRuns} \subseteq Nat

VARIABLES
  listed,      \* the devices in the inventory
  member,      \* the group of each device
  template,    \* the commands of the template; None when deleted
  running,     \* the running configuration of each device
  job,         \* the command_jobs rows
  target,      \* the status of the command_job_targets rows
  rows,        \* the command_executions of each target
  task,        \* what the background task of each job is doing
  broken,      \* the jobs one of whose threads raised
  session,     \* the results a thread has in memory, per target
  sent,        \* history: the commands the job had each device run
  audit,       \* the keys of the audit; None when deleted
  batches,     \* the check results, in batches written together; rows are only added
  jobBudget    \* how often each bound was used

jobVars == << listed, member, template, running, job, target, rows, task, broken, session, sent,
              audit, batches, jobBudget >>

Ended == {"COMPLETED", "PARTIAL", "FAILED"}
NoJob == [status |-> "none", commands |-> <<>>, parallel |-> FALSE]
Pairs == Jobs \X Devices
Row == [command : Lines \cup {Show}, output : SUBSET Lines, had : SUBSET Lines]
       \* had: history, the whole configuration at that moment
Verdict == [device : Devices, key : CheckKeys, status : {"PASS", "FAIL", "NOT_APPLICABLE", "UNKNOWN"},
            had : SUBSET Lines, whole : BOOLEAN]

JobTypes ==
  /\ listed \subseteq Devices /\ member \in [Devices -> Groups \cup {None}]
  /\ template \in Scripts \cup {None} /\ running \in [Devices -> SUBSET Lines]
  /\ job \in [Jobs -> [status : Ended \cup {"none", "PENDING", "RUNNING"},
                       commands : Scripts \cup {<<>>}, parallel : BOOLEAN]]
  /\ target \in [Pairs -> {"none", "PENDING", "CONNECTING", "RUNNING", "COMPLETED", "FAILED"}]
  /\ \A p \in Pairs : rows[p] \in Seq(Row) /\ session[p].got \in Seq(Row) /\ sent[p] \in Seq(Lines \cup {Show})
  /\ task \in [Jobs -> {"none", "queued", "working", "over"}]
  /\ broken \subseteq Jobs
  /\ audit \in (SUBSET CheckKeys) \cup {None}
  /\ \A i \in DOMAIN batches : batches[i].job \in Jobs /\ batches[i].found \subseteq Verdict
  /\ jobBudget \in [edits : Nat, faults : Nat, troubles : Nat]

NoSession == [at |-> "idle", got |-> <<>>]

JobInit ==
  /\ listed = Devices /\ member \in [Devices -> Groups \cup {None}]
  /\ template \in Scripts
  /\ running = [d \in Devices |-> {}]
  /\ job = [j \in Jobs |-> NoJob]
  /\ target = [p \in Pairs |-> "none"]
  /\ rows = [p \in Pairs |-> <<>>]
  /\ task = [j \in Jobs |-> "none"]
  /\ broken = {}
  /\ session = [p \in Pairs |-> NoSession]
  /\ sent = [p \in Pairs |-> <<>>]
  /\ audit = CheckKeys
  /\ batches = <<>>
  /\ jobBudget = [edits |-> 0, faults |-> 0, troubles |-> 0]

Targets(j) == { d \in Devices : target[<<j, d>>] # "none" }
Statuses(j) == { target[<<j, d>>] : d \in Targets(j) }
Spend(what) == jobBudget' = [jobBudget EXCEPT ![what] = @ + 1]
BrokenAllowed == jobBudget.faults < MaxJobFaults

-----------------------------------------------------------------------------
(* Requests.                                                               *)

\* The devices selected one by one or by their group; one that is gone is skipped.
resolve_targets(ids, groups) == { d \in listed : d \in ids \/ member[d] \in groups }

\* One transaction; the response, and the task after it, come when it is committed.
create_job(j) ==
  \E ids \in SUBSET Devices, groups \in SUBSET Groups, parallel \in BOOLEAN, raw \in BOOLEAN :
    \E commands \in (IF raw THEN Scripts ELSE {template} \ {None}) :
      LET resolved == resolve_targets(ids, groups) IN
      /\ job[j] = NoJob /\ resolved # {}
      /\ job' = [job EXCEPT ![j] = [status |-> "PENDING", commands |-> commands, parallel |-> parallel]]
      /\ target' = [p \in Pairs |-> IF p[1] = j /\ p[2] \in resolved THEN "PENDING" ELSE target[p]]
      /\ task' = [task EXCEPT ![j] = "queued"]
      /\ UNCHANGED << listed, member, template, running, rows, broken, session, sent, audit, batches, jobBudget >>

update_template ==
  /\ jobBudget.edits < MaxEdits /\ template # None
  /\ template' \in (Scripts \cup {None}) \ {template}
  /\ Spend("edits")
  /\ UNCHANGED << listed, member, running, job, target, rows, task, broken, session, sent, audit, batches >>

\* A device leaves the inventory; targets keep its name and address.
RemoveDevice(d) ==
  /\ jobBudget.edits < MaxEdits /\ d \in listed
  /\ listed' = listed \ {d}
  /\ Spend("edits")
  /\ UNCHANGED << member, template, running, job, target, rows, task, broken, session, sent, audit, batches >>

-----------------------------------------------------------------------------
(* The background task.                                                    *)

run_job(j) ==
  /\ task[j] = "queued"
  /\ task' = [task EXCEPT ![j] = "working"]
  /\ job' = [job EXCEPT ![j].status = "RUNNING"]
  /\ UNCHANGED << listed, member, template, running, target, rows, broken, session, sent, audit, batches, jobBudget >>

Busy(j) == { d \in Targets(j) : session[<<j, d>>].at # "idle" }

\* The next one only after the last one, or as many as the pool has threads.
MayStart(j) ==
  IF job[j].parallel THEN Cardinality(Busy(j)) < Concurrency
                     ELSE Busy(j) = {} /\ j \notin broken

_execute_one_target(j, d) ==
  LET p == <<j, d>> IN
  /\ task[j] = "working" /\ target[p] = "PENDING" /\ session[p].at = "idle" /\ MayStart(j)
  /\ target' = [target EXCEPT ![p] = "CONNECTING"]
  /\ session' = [session EXCEPT ![p].at = "dialling"]
  /\ UNCHANGED << listed, member, template, running, job, rows, task, broken, sent, audit, batches, jobBudget >>

\* What is left of the output of a configuration dump.
_read_until_prompt(config, cut) == IF cut THEN {} ELSE config

\* What a device makes of a command: a setting replaces its own negation.
Opposites == {"ip http server", "no ip http server"}
Configured(config, command) ==
  (IF command \in Opposites THEN config \ Opposites ELSE config) \cup {command}

\* One command over the shell that is open; its success is not looked at.
SendCommand(j, d) ==
  \E cut \in BOOLEAN :
    LET p == <<j, d>>
        n == Len(session[p].got) + 1
        command == job[j].commands[n] IN
    /\ session[p].at = "dialling" /\ n \leq Len(job[j].commands)
    /\ cut => command = Show /\ running[d] # {} /\ jobBudget.troubles < MaxTroubles
    /\ session' = [session EXCEPT ![p].got = Append(@, [command |-> command, had |-> running[d],
         output |-> IF command = Show THEN _read_until_prompt(running[d], cut) ELSE {}])]
    /\ running' = IF command = Show THEN running ELSE [running EXCEPT ![d] = Configured(@, command)]
    /\ sent' = [sent EXCEPT ![p] = Append(@, command)]
    /\ IF cut THEN Spend("troubles") ELSE UNCHANGED jobBudget
    /\ UNCHANGED << listed, member, template, job, target, rows, task, broken, audit, batches >>

\* The device cannot be reached, or the connection is lost after some commands: what was collected
\* is given up.
run_commands_on_device_fails(j, d) ==
  LET p == <<j, d>> IN
  /\ session[p].at = "dialling" /\ jobBudget.troubles < MaxTroubles
  /\ Spend("troubles")
  /\ target' = [target EXCEPT ![p] = "FAILED"]
  /\ session' = [session EXCEPT ![p] = NoSession]
  /\ UNCHANGED << listed, member, template, running, job, rows, task, broken, sent, audit, batches >>

Answered(j, d) ==
  LET p == <<j, d>> IN
  /\ session[p].at = "dialling" /\ Len(session[p].got) = Len(job[j].commands)
  /\ target' = [target EXCEPT ![p] = "RUNNING"]
  /\ session' = [session EXCEPT ![p].at = "recording"]
  /\ UNCHANGED << listed, member, template, running, job, rows, task, broken, sent, audit, batches, jobBudget >>

\* The executions and the status, in one transaction.
RecordExecutions(j, d) ==
  LET p == <<j, d>> IN
  /\ session[p].at = "recording"
  /\ rows' = [rows EXCEPT ![p] = session[p].got]
  /\ target' = [target EXCEPT ![p] = "COMPLETED"]
  /\ session' = [session EXCEPT ![p] = NoSession]
  /\ UNCHANGED << listed, member, template, running, job, task, broken, sent, audit, batches, jobBudget >>

\* A commit fails; the handler records that, or fails as well and the thread raises.
CommitFails(j, d) ==
  \E recorded \in BOOLEAN :
    LET p == <<j, d>> IN
    /\ session[p].at \in {"dialling", "recording"} /\ BrokenAllowed
    /\ Spend("faults")
    /\ target' = IF recorded THEN [target EXCEPT ![p] = "FAILED"] ELSE target
    /\ broken' = IF recorded THEN broken ELSE broken \cup {j}
    /\ session' = [session EXCEPT ![p] = NoSession]
    /\ UNCHANGED << listed, member, template, running, job, rows, task, sent, audit, batches >>

\* Every target was visited.
AllVisited(j) == Busy(j) = {} /\ "PENDING" \notin Statuses(j) /\ j \notin broken

\* Bug: one device that answered makes the job complete.
BugAnyMakesComplete(statuses) == IF "COMPLETED" \in statuses THEN "COMPLETED" ELSE "FAILED"
RolledUp(statuses) ==
  CASE statuses = {"COMPLETED"} -> "COMPLETED"
    [] "COMPLETED" \in statuses /\ statuses # {"COMPLETED"} -> "PARTIAL"
    [] OTHER -> "FAILED"

_finish_job(j) ==
  /\ task[j] = "working" /\ AllVisited(j)
  /\ job' = [job EXCEPT ![j].status = RolledUp(Statuses(j))]
  /\ task' = [task EXCEPT ![j] = "over"]
  /\ UNCHANGED << listed, member, template, running, target, rows, broken, session, sent, audit, batches, jobBudget >>

\* run_job raises what a thread raised, once the other threads of the pool are done, and closes nothing.
Abandon(j) ==
  /\ task[j] = "working" /\ j \in broken /\ Busy(j) = {}
  /\ task' = [task EXCEPT ![j] = "over"]
  /\ UNCHANGED << listed, member, template, running, job, target, rows, broken, session, sent, audit, batches, jobBudget >>

\* The process dies, and every task with it; nothing looks for their jobs afterwards.
JobsCrash ==
  /\ BrokenAllowed /\ \E j \in Jobs : task[j] \in {"queued", "working"}
  /\ Spend("faults")
  /\ task' = [j \in Jobs |-> IF task[j] \in {"queued", "working"} THEN "over" ELSE task[j]]
  /\ session' = [p \in Pairs |-> NoSession]
  /\ UNCHANGED << listed, member, template, running, job, target, rows, broken, sent, audit, batches >>

-----------------------------------------------------------------------------
(* Checks and audits.                                                      *)

_check_aaa_new_model(config) == "aaa new-model" \in config
_check_password_encryption(config) == "service password-encryption" \in config
_check_http_server_disabled(config) == ~("ip http server" \in config /\ "no ip http server" \notin config)
\* without a line at all there is nothing to judge
_check_vty_ssh_only(config) ==
  IF {"vty ssh", "vty telnet"} \cap config = {} THEN "NOT_APPLICABLE"
  ELSE IF "vty telnet" \in config THEN "FAIL" ELSE "PASS"

Judge(key, config) ==
  LET said(passes) == IF passes THEN "PASS" ELSE "FAIL" IN
  CASE key = "aaa_new_model" -> said(_check_aaa_new_model(config))
    [] key = "password_encryption" -> said(_check_password_encryption(config))
    [] key = "http_server_disabled" -> said(_check_http_server_disabled(config))
    [] key = "vty_ssh_only" -> _check_vty_ssh_only(config)
    [] OTHER -> "UNKNOWN"

\* The rows that look like a configuration; which of several is used is up to the database.
find_running_config_output(j, d) ==
  LET dumps == { rows[<<j, d>>][i] : i \in DOMAIN rows[<<j, d>>] } \cap [command : {Show}, output : SUBSET Lines, had : SUBSET Lines]
  IN IF dumps = {} THEN {None} ELSE dumps

\* Bug: a device that said nothing fails the check.
BugSilenceFails(key, d, dump) ==
  [device |-> d, key |-> key, had |-> {}, whole |-> TRUE,
   status |-> IF dump = None THEN "FAIL" ELSE Judge(key, dump.output)]
run_check(key, d, dump) ==
  IF dump = None THEN [device |-> d, key |-> key, status |-> "NOT_APPLICABLE", had |-> {}, whole |-> TRUE]
  ELSE [device |-> d, key |-> key, status |-> Judge(key, dump.output), had |-> dump.had,
        whole |-> dump.output = dump.had]

\* Every key on every target of the job, as a batch of rows.
DumpsUsed(j) == { f \in [Targets(j) -> UNION { find_running_config_output(j, d) : d \in Targets(j) }] :
                  \A d \in Targets(j) : f[d] \in find_running_config_output(j, d) }
Judged(j, keys, dump) == { run_check(key, d, dump[d]) : key \in keys, d \in Targets(j) }
execute_checks_against_job(j, keys) ==
  \E dump \in DumpsUsed(j) : batches' = Append(batches, [job |-> j, found |-> Judged(j, keys, dump)])

run_checks(j) ==
  /\ Len(batches) < MaxCheckRuns /\ job[j] # NoJob
  /\ \E keys \in (SUBSET CheckKeys) \ {{}} : execute_checks_against_job(j, keys)
  /\ UNCHANGED << listed, member, template, running, job, target, rows, task, broken, session, sent, audit, jobBudget >>

\* An audit is a set of keys that was checked when it was saved; its results outlive it.
run_audit(j) ==
  /\ Len(batches) < MaxCheckRuns /\ job[j] # NoJob /\ audit # None
  /\ audit \cap CheckKeys # {}
  /\ execute_checks_against_job(j, audit \cap CheckKeys)
  /\ UNCHANGED << listed, member, template, running, job, target, rows, task, broken, session, sent, audit, jobBudget >>

update_audit ==
  /\ jobBudget.edits < MaxEdits /\ audit # None
  /\ audit' \in ((SUBSET CheckKeys) \cup {None}) \ {audit}
  /\ Spend("edits")
  /\ UNCHANGED << listed, member, template, running, job, target, rows, task, broken, session, sent, batches >>

Weight(key) == IF key \in {"aaa_new_model", "vty_ssh_only"} THEN 7 ELSE 3

\* Only a FAIL costs anything; what could not be judged costs nothing.
compute_score(found) ==
  LET lost == MapThenSumSet(LAMBDA v : Weight(v.key), { v \in found : v.status = "FAIL" })
  IN IF lost > 100 THEN 0 ELSE 100 - lost

-----------------------------------------------------------------------------
\* What the thread pool and the process run by themselves.
JobWork(j) ==
  \/ run_job(j) \/ _finish_job(j) \/ Abandon(j)
  \/ \E d \in Devices : \/ _execute_one_target(j, d) \/ SendCommand(j, d)
                        \/ Answered(j, d) \/ RecordExecutions(j, d)

JobNext ==
  \/ \E j \in Jobs : create_job(j) \/ JobWork(j) \/ run_checks(j) \/ run_audit(j)
  \/ \E j \in Jobs, d \in Devices : run_commands_on_device_fails(j, d) \/ CommitFails(j, d)
  \/ \E d \in Devices : RemoveDevice(d)
  \/ update_template \/ update_audit \/ JobsCrash

\* Commands, connections and commits all have timeouts; requests and faults need not happen.
JobFairness == \A j \in Jobs : WF_jobVars(JobWork(j))

JobSpec == JobInit /\ [][JobNext]_jobVars /\ JobFairness

-----------------------------------------------------------------------------
CommandsOf(seq) == [i \in DOMAIN seq |-> seq[i].command]

\* A device is sent the commands copied into its job, in order and once; it has all of its rows or
\* none; and a job that is closed says of its devices what became of them: every one done, none, or
\* both kinds, and nobody still working on it.
JobTellsTheTruth ==
  /\ \A j \in Jobs, d \in Devices : LET p == <<j, d>> IN
       /\ Len(sent[p]) \leq Len(job[j].commands)
       /\ sent[p] = SubSeq(job[j].commands, 1, Len(sent[p]))
       /\ sent[p] # <<>> => target[p] \notin {"none", "PENDING"}
       /\ rows[p] # <<>> => CommandsOf(rows[p]) = job[j].commands /\ sent[p] = job[j].commands
  /\ \A j \in Jobs : LET done == { d \in Targets(j) : rows[<<j, d>>] # <<>> } IN
       /\ job[j].status = "COMPLETED" => done = Targets(j)
       /\ job[j].status = "PARTIAL" => done # {} /\ done # Targets(j)
       /\ job[j].status = "FAILED" => done = {}
       /\ job[j].status \in Ended => Busy(j) = {} /\ Statuses(j) \subseteq {"COMPLETED", "FAILED"}

\* What the recommendation of a check does to a device that follows it.
Mended(key, config) ==
  CASE key = "aaa_new_model" -> config \cup {"aaa new-model"}
    [] key = "password_encryption" -> config \cup {"service password-encryption"}
    [] key = "http_server_disabled" -> config \ {"ip http server"}
    [] key = "vty_ssh_only" -> config \ {"vty telnet"}

\* A verdict is about a device that answered in that job, and about the configuration it had at that
\* moment: the check fails exactly when its own recommendation would change the device.  (Unless
\* the output was cut short, of which the code keeps no trace.)  A device that did not answer
\* neither passes nor fails, and costs the score nothing.
VerdictsAreSeen ==
  \A i \in DOMAIN batches : \A v \in batches[i].found :
    LET p == <<batches[i].job, v.device>> IN
    /\ v.status \in {"PASS", "FAIL"} =>
         /\ target[p] = "COMPLETED" /\ Show \in Range(CommandsOf(rows[p]))
         /\ v.whole => (v.status = "FAIL" <=> Mended(v.key, v.had) # v.had)
    /\ compute_score(batches[i].found) < 100 =>
         \E w \in batches[i].found : w.status = "FAIL" /\ target[<<batches[i].job, w.device>>] = "COMPLETED"

\* A job that was accepted is closed, unless the process died or the database failed it.
JobsSettled ==
  \A j \in Jobs : task[j] \notin {"queued", "working"} /\ (job[j].status \in Ended \cup {"none"} \/ jobBudget.faults > 0)
=============================================================================
