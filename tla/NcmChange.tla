------------------------------ MODULE NcmChange ------------------------------
(***************************************************************************)
(* Changing a device: the life of a candidate (app/api/routes_ncm.py),     *)
(* its deployment and the rollback (app/services/ncm_deploy.py), on the    *)
(* configuration archive of one device.                                    *)
(*                                                                         *)
(* A request runs in a worker thread.  It reads rows, decides, talks to    *)
(* the device for seconds, and writes rows back without reading them       *)
(* again, so each access to the database or the device is a step.          *)
(*                                                                         *)
(* A configuration gives each setting of the device a value or none.  What *)
(* is sent is a set of lines, one per setting at most: a value, or the     *)
(* "no" form, which removes the setting.  Archived snapshots are numbered  *)
(* in the order they were taken and a deleted one leaves a gap.  (Two      *)
(* backups that archive at the same instant are the subject of NcmBackup;  *)
(* here archiving is one step.)                                            *)
(***************************************************************************)
EXTENDS Naturals, Sequences, FiniteSets

CONSTANTS Threads,      \* worker threads of the management process
          Candidates,   \* proposed changes, all for one device
          Admins,       \* administrators holding every ncm permission
          Nobody,
          Settings,     \* what a line of a configuration sets
          Values,       \* the values it sets it to
          Absent,       \* the setting is not there; as a line, its "no" form
          Changes,      \* the lines of the candidates
          Dangerous,    \* the lines DANGEROUS_PATTERNS matches
          Initial,      \* the configuration of the device at first
          Unread, Gone, \* nothing read yet; a snapshot that was deleted
          Faults,       \* what may go wrong; see FaultKinds
          MaxDeployments, MaxRollbacks, MaxSnapshots   \* bounds of the runs

FaultKinds ==
  { "crash",        \* the management process dies or is restarted
    "unreachable",  \* a backup or a session with the device fails
    "partial",      \* the device takes only some of the lines it is sent
    "delete" }      \* an administrator deletes archived snapshots

Configs == [Settings -> Values \cup {Absent}]
LineSets == UNION {[S -> Values \cup {Absent}] : S \in SUBSET Settings}

ASSUME ConfigAssumption ==
  /\ Changes \subseteq LineSets /\ Unread \notin Changes
  /\ Initial \in Configs /\ Unread \notin Configs /\ Gone \notin Configs
  /\ Absent \notin Values /\ Dangerous \subseteq Values \cup {Absent}
ASSUME PeopleAssumption == Nobody \notin Admins /\ Faults \subseteq FaultKinds
ASSUME BoundsAssumption == MaxDeployments \in Nat /\ MaxRollbacks \in Nat /\ MaxSnapshots \in Nat

VARIABLES
  status, author, approver, lines,  \* the rows of ncm_candidates
  deployments,   \* the rows of ncm_deployments, in the order of their numbers
  archive,       \* the rows of ncm_configurations
  device,        \* what the device runs
  pc, job,       \* each thread: where it is, and what it remembers
  sent           \* for the properties: every time a candidate reached the device

candidateRows == <<status, author, approver, lines>>
vars == <<candidateRows, deployments, archive, device, pc, job, sent>>

Statuses == {"none", "draft", "pending_approval", "approved", "rejected", "deployed", "failed"}

Deployment ==
  [cand : Candidates, status : {"running", "succeeded", "failed", "rolled_back", "rollback_failed"},
   pre : Nat, post : Nat, verified : BOOLEAN,   \* 0: no snapshot
   rollbacks : Nat, told : {"", "restored", "differs"}]
   \* rollbacks and told, how often it was rolled back and what the last
   \* caller was told, are not in the row

Jobs ==
  [cand : Candidates \cup {Nobody}, dep : Nat, to : Statuses,
   who : Admins \cup {Nobody}, buf : Configs \cup {Unread}, point : Nat, snap : Nat]

NoJob == [cand |-> Nobody, dep |-> 0, to |-> "none", who |-> Nobody,
          buf |-> Unread, point |-> 0, snap |-> 0]

Deploying == {"insert", "pre_read", "pre_archive", "pre_record", "send", "send_failed",
              "post_read", "post_archive", "finish"}
RollingBack == {"rb_send", "rb_failed", "rb_read", "rb_archive", "rb_finish"}

TypeOK ==
  /\ status \in [Candidates -> Statuses]
  /\ author \in [Candidates -> Admins \cup {Nobody}]
  /\ approver \in [Candidates -> Admins \cup {Nobody}]
  /\ lines \in [Candidates -> Changes \cup {Unread}]
  /\ deployments \in Seq(Deployment)
  /\ archive \in Seq(Configs \cup {Gone})
  /\ device \in Configs
  /\ pc \in [Threads -> {"idle", "submit", "review"} \cup Deploying \cup RollingBack]
  /\ job \in [Threads -> Jobs]
  /\ sent \in Seq([cand : Candidates, dep : Nat, before : Configs, after : Configs])

-----------------------------------------------------------------------------
(* The archive and the device.                                             *)

Alive == {i \in DOMAIN archive : archive[i] # Gone}

\* latest_configuration: 0 when there is none
Latest == IF Alive = {} THEN 0 ELSE CHOOSE i \in Alive : \A j \in Alive : j <= i

\* Bug: compared with any snapshot of the device, not with the latest.
BugUnchangedEver(content) == \E i \in Alive : archive[i] = content

Unchanged(content) == Latest # 0 /\ archive[Latest] = content

SnapshotFor(content) == IF Unchanged(content) THEN Latest ELSE Len(archive) + 1

\* archive_configuration
Archives(content) ==
  archive' = IF Unchanged(content) THEN archive ELSE Append(archive, content)

\* What the device runs after taking the lines of change whose setting is in taken
Overlay(config, change, taken) ==
  [k \in Settings |-> IF k \in taken \cap DOMAIN change THEN change[k] ELSE config[k]]

\* An archived configuration, read as lines to send
Replay(config) == [k \in {s \in Settings : config[s] # Absent} |-> config[k]]

\* check_dangerous_commands
Blocked(change) == \E k \in DOMAIN change : change[k] \in Dangerous

\* The lines the device takes when the session lasts, or when it breaks or never
\* comes about: apply_aaa_config does not look at the answers to the commands.
Accepted(change) == IF "partial" \in Faults THEN SUBSET DOMAIN change ELSE {DOMAIN change}
Broken(change) == IF "unreachable" \in Faults
                  THEN (IF "partial" \in Faults THEN SUBSET DOMAIN change ELSE {{}})
                  ELSE {}

-----------------------------------------------------------------------------
(* Threads.                                                                *)

Goto(w, label) == pc' = [pc EXCEPT ![w] = label]
Starts(w, label, j) == pc[w] = "idle" /\ Goto(w, label) /\ job' = [job EXCEPT ![w] = j]
Ends(w) == Goto(w, "idle") /\ job' = [job EXCEPT ![w] = NoJob]
Dep(w) == deployments[job[w].dep]

Init ==
  /\ status = [c \in Candidates |-> "none"]
  /\ author = [c \in Candidates |-> Nobody]
  /\ approver = [c \in Candidates |-> Nobody]
  /\ lines = [c \in Candidates |-> Unread]
  /\ deployments = <<>> /\ archive = <<>> /\ device = Initial
  /\ pc = [w \in Threads |-> "idle"] /\ job = [w \in Threads |-> NoJob]
  /\ sent = <<>>

-----------------------------------------------------------------------------
(* The life of a candidate.                                                *)

ALLOWED_TRANSITIONS ==
  [s \in Statuses |->
     CASE s = "draft" -> {"pending_approval"}
       [] s = "pending_approval" -> {"approved", "rejected"}
       [] s = "approved" -> {"deployed", "failed"}
       [] s \in {"rejected", "failed"} -> {"draft"}
       [] OTHER -> {}]

can_transition(current, target) == target \in ALLOWED_TRANSITIONS[current]

create_candidate(c, a, change) ==
  /\ status[c] = "none"
  /\ status' = [status EXCEPT ![c] = "draft"]
  /\ author' = [author EXCEPT ![c] = a]
  /\ lines' = [lines EXCEPT ![c] = change]
  /\ UNCHANGED <<approver, deployments, archive, device, pc, job, sent>>

submit_candidate(w, c) ==
  /\ can_transition(status[c], "pending_approval")
  /\ Starts(w, "submit", [NoJob EXCEPT !.cand = c])
  /\ UNCHANGED <<candidateRows, deployments, archive, device, sent>>

submit_commit(w) ==
  /\ pc[w] = "submit"
  /\ status' = [status EXCEPT ![job[w].cand] = "pending_approval"]
  /\ Ends(w)
  /\ UNCHANGED <<author, approver, lines, deployments, archive, device, sent>>

\* Bug: the state of the candidate is not asked.
BugReviewAnyState(c, a, target) == target = "approved" => author[c] # a

MayReview(c, a, target) ==
  /\ can_transition(status[c], target)
  /\ target = "approved" => author[c] # a

review_candidate(w, c, a, target) ==
  /\ MayReview(c, a, target)
  /\ Starts(w, "review", [NoJob EXCEPT !.cand = c, !.to = target, !.who = a])
  /\ UNCHANGED <<candidateRows, deployments, archive, device, sent>>

review_commit(w) ==
  /\ pc[w] = "review"
  /\ status' = [status EXCEPT ![job[w].cand] = job[w].to]
  /\ approver' = IF job[w].to = "approved"
                 THEN [approver EXCEPT ![job[w].cand] = job[w].who] ELSE approver
  /\ Ends(w)
  /\ UNCHANGED <<author, lines, deployments, archive, device, sent>>

-----------------------------------------------------------------------------
(* deploy_candidate.                                                       *)

\* Bug: the status of the candidate is not looked at.
BugDeployUnchecked(w, c) ==
  /\ status[c] # "none" /\ ~Blocked(lines[c])
  /\ Starts(w, "insert", [NoJob EXCEPT !.cand = c, !.dep = Len(deployments) + 1])
  /\ UNCHANGED <<candidateRows, deployments, archive, device, sent>>

\* The refusals, and the number the deployment is to have.  The status is
\* looked at here and never again.
deploy_candidate(w, c) ==
  /\ status[c] = "approved" /\ ~Blocked(lines[c])
  /\ Starts(w, "insert", [NoJob EXCEPT !.cand = c, !.dep = Len(deployments) + 1])
  /\ UNCHANGED <<candidateRows, deployments, archive, device, sent>>

InsertDeployment(w) ==
  /\ pc[w] = "insert" /\ job[w].dep = Len(deployments) + 1
  /\ deployments' = Append(deployments,
       [cand |-> job[w].cand, status |-> "running", pre |-> 0, post |-> 0,
        verified |-> FALSE, rollbacks |-> 0, told |-> ""])
  /\ Goto(w, "pre_read")
  /\ UNCHANGED <<candidateRows, archive, device, job, sent>>

\* display_number is taken: IntegrityError, a 500
NumberTaken(w) ==
  /\ pc[w] = "insert" /\ job[w].dep # Len(deployments) + 1
  /\ Ends(w)
  /\ UNCHANGED <<candidateRows, deployments, archive, device, sent>>

\* Bug: the candidate is used up although nothing was sent.
BugAbortUsesUp(w) ==
  /\ pc[w] = "pre_read" /\ "unreachable" \in Faults
  /\ deployments' = [deployments EXCEPT ![job[w].dep].status = "failed"]
  /\ status' = [status EXCEPT ![job[w].cand] = "failed"]
  /\ Ends(w)
  /\ UNCHANGED <<author, approver, lines, archive, device, sent>>

\* Bug: the failure is returned, the row stays as it is.
BugAbortUnrecorded(w) ==
  /\ pc[w] = "pre_read" /\ "unreachable" \in Faults
  /\ Ends(w)
  /\ UNCHANGED <<candidateRows, deployments, archive, device, sent>>

\* Bug: what a failed retrieval left is archived like a configuration.
BugFailureArchived(w) ==
  /\ pc[w] = "pre_read" /\ "unreachable" \in Faults
  /\ Goto(w, "pre_archive")
  /\ UNCHANGED <<candidateRows, deployments, archive, device, job, sent>>

PreBackupFails(w) ==
  /\ pc[w] = "pre_read" /\ "unreachable" \in Faults
  /\ deployments' = [deployments EXCEPT ![job[w].dep].status = "failed"]
  /\ Ends(w)
  /\ UNCHANGED <<candidateRows, archive, device, sent>>

\* _backup_now, the retrieval
Retrieve(w, from, to) ==
  /\ pc[w] = from
  /\ job' = [job EXCEPT ![w].buf = device]
  /\ Goto(w, to)
  /\ UNCHANGED <<candidateRows, deployments, archive, device, sent>>

PreBackup(w) == Retrieve(w, "pre_read", "pre_archive")

\* _backup_now, the archiving, with its commit
ArchivePre(w) ==
  /\ pc[w] = "pre_archive"
  /\ Archives(job[w].buf)
  /\ job' = [job EXCEPT ![w].point = SnapshotFor(job[w].buf), ![w].buf = Unread]
  /\ Goto(w, "pre_record")
  /\ UNCHANGED <<candidateRows, deployments, device, sent>>

\* Bug: the row is written without looking whether the snapshot is there.
BugRecordUnchecked(w) ==
  /\ pc[w] = "pre_record"
  /\ deployments' = [deployments EXCEPT ![job[w].dep].pre = job[w].point]
  /\ Goto(w, "send")
  /\ UNCHANGED <<candidateRows, archive, device, job, sent>>

RecordPre(w) ==
  /\ pc[w] = "pre_record" /\ job[w].point \in Alive
  /\ deployments' = [deployments EXCEPT ![job[w].dep].pre = job[w].point]
  /\ Goto(w, "send")
  /\ UNCHANGED <<candidateRows, archive, device, job, sent>>

\* A snapshot the request still needs was deleted: ObjectDeletedError or a
\* foreign key violation, a 500, and the rows stay as they are.
SnapshotGone(w) ==
  /\ \/ pc[w] = "pre_record" /\ job[w].point \notin Alive
     \/ pc[w] = "finish" /\ job[w].snap # 0 /\ ~({job[w].snap, job[w].point} \subseteq Alive)
     \/ pc[w] = "rb_finish" /\ job[w].snap # 0 /\ ~({job[w].snap, job[w].point} \subseteq Alive)
  /\ Ends(w)
  /\ UNCHANGED <<candidateRows, deployments, archive, device, sent>>

SendsTo(w, taken, label) ==
  LET c == job[w].cand  after == Overlay(device, lines[c], taken) IN
  /\ device' = after
  /\ sent' = Append(sent, [cand |-> c, dep |-> job[w].dep, before |-> device, after |-> after])
  /\ Goto(w, label)
  /\ UNCHANGED <<candidateRows, deployments, archive, job>>

SendSucceeds(w) == pc[w] = "send" /\
  \E taken \in Accepted(lines[job[w].cand]) : SendsTo(w, taken, "post_read")
\* The session breaks when the device has taken something.
SendFails(w) == pc[w] = "send" /\
  \E taken \in Broken(lines[job[w].cand]) \ {{}} : SendsTo(w, taken, "send_failed")

\* Bug: only the deployment is marked, the candidate can be deployed again.
BugFailedStaysApproved(w) ==
  /\ pc[w] = "send_failed"
  /\ deployments' = [deployments EXCEPT ![job[w].dep].status = "failed"]
  /\ Ends(w)
  /\ UNCHANGED <<candidateRows, archive, device, sent>>

MarkFailed(w) ==
  /\ deployments' = [deployments EXCEPT ![job[w].dep].status = "failed"]
  /\ status' = [status EXCEPT ![job[w].cand] = "failed"]
  /\ Ends(w)
  /\ UNCHANGED <<author, approver, lines, archive, device, sent>>

\* The device does not answer, or refuses the login, and nothing reaches it; the rows
\* say the same as when the session broke.
ConnectFails(w) == pc[w] = "send" /\ "unreachable" \in Faults /\ MarkFailed(w)
DeploymentFailed(w) == pc[w] = "send_failed" /\ MarkFailed(w)

PostBackup(w) == Retrieve(w, "post_read", "post_archive")
PostBackupFails(w) ==
  /\ pc[w] = "post_read" /\ "unreachable" \in Faults
  /\ Goto(w, "finish")
  /\ UNCHANGED <<candidateRows, deployments, archive, device, job, sent>>

ArchiveAs(w, from, to) ==
  /\ pc[w] = from
  /\ Archives(job[w].buf)
  /\ job' = [job EXCEPT ![w].snap = SnapshotFor(job[w].buf), ![w].buf = Unread]
  /\ Goto(w, to)
  /\ UNCHANGED <<candidateRows, deployments, device, sent>>

ArchivePost(w) == ArchiveAs(w, "post_archive", "finish")

\* post.sha256 != pre.sha256
VerifiedChanged(w) == job[w].snap # 0 /\ archive[job[w].snap] # archive[job[w].point]

DeploymentSucceeded(w) ==
  /\ pc[w] = "finish"
  /\ job[w].snap # 0 => {job[w].snap, job[w].point} \subseteq Alive
  /\ deployments' = [deployments EXCEPT ![job[w].dep].status = "succeeded",
                       ![job[w].dep].post = job[w].snap, ![job[w].dep].verified = VerifiedChanged(w)]
  /\ status' = [status EXCEPT ![job[w].cand] = "deployed"]
  /\ Ends(w)
  /\ UNCHANGED <<author, approver, lines, archive, device, sent>>

-----------------------------------------------------------------------------
(* rollback_deployment.  Whatever the deployment's status, a deployment    *)
(* that has a rollback point can be rolled back, and more than once.       *)

rollback_deployment(w, d) ==
  /\ deployments[d].pre # 0 /\ deployments[d].rollbacks < MaxRollbacks
  /\ ~Blocked(Replay(archive[deployments[d].pre]))
  /\ Starts(w, "rb_send", [NoJob EXCEPT !.dep = d, !.point = deployments[d].pre,
                                        !.buf = archive[deployments[d].pre]])
  /\ deployments' = [deployments EXCEPT ![d].rollbacks = @ + 1]
  /\ UNCHANGED <<candidateRows, archive, device, sent>>

ReplaysTo(w, taken, label) ==
  /\ device' = Overlay(device, Replay(job[w].buf), taken)
  /\ job' = [job EXCEPT ![w].buf = Unread]
  /\ Goto(w, label)
  /\ UNCHANGED <<candidateRows, deployments, archive, sent>>

ReplaySucceeds(w) == pc[w] = "rb_send" /\
  \E taken \in Accepted(Replay(job[w].buf)) : ReplaysTo(w, taken, "rb_read")
ReplayFails(w) == pc[w] = "rb_send" /\
  \E taken \in Broken(Replay(job[w].buf)) : ReplaysTo(w, taken, "rb_failed")

RollbackFailed(w) ==
  /\ pc[w] = "rb_failed"
  /\ deployments' = [deployments EXCEPT ![job[w].dep].status = "rollback_failed"]
  /\ Ends(w)
  /\ UNCHANGED <<candidateRows, archive, device, sent>>

AfterBackup(w) == Retrieve(w, "rb_read", "rb_archive")
AfterBackupFails(w) ==
  /\ pc[w] = "rb_read" /\ "unreachable" \in Faults
  /\ Goto(w, "rb_finish")
  /\ UNCHANGED <<candidateRows, deployments, archive, device, job, sent>>

ArchiveAfter(w) == ArchiveAs(w, "rb_archive", "rb_finish")

\* Bug: declared successful because the commands were accepted.
BugMatchedByAcceptance(w) == TRUE

\* after is not None and after.sha256 == pre.sha256
Matched(w) == job[w].snap # 0 /\ archive[job[w].snap] = archive[job[w].point]

RolledBack(w) ==
  /\ pc[w] = "rb_finish"
  /\ job[w].snap # 0 => {job[w].snap, job[w].point} \subseteq Alive
  /\ deployments' = [deployments EXCEPT ![job[w].dep].status = "rolled_back",
                       ![job[w].dep].told = IF Matched(w) THEN "restored" ELSE "differs"]
  /\ Ends(w)
  /\ UNCHANGED <<candidateRows, archive, device, sent>>

-----------------------------------------------------------------------------
(* What happens around the requests.                                       *)

\* A backup of the device by hand or on schedule (run_backup)
run_backup ==
  /\ Len(archive) < MaxSnapshots
  /\ Archives(device) /\ archive' # archive
  /\ UNCHANGED <<candidateRows, deployments, device, pc, job, sent>>

\* The rows that point at the snapshot get NULL (ON DELETE SET NULL).
delete_configuration(i) ==
  LET Without(n) == IF n = i THEN 0 ELSE n IN
  /\ "delete" \in Faults
  /\ archive' = [archive EXCEPT ![i] = Gone]
  /\ deployments' = [d \in DOMAIN deployments |->
       [deployments[d] EXCEPT !.pre = Without(@), !.post = Without(@)]]
  /\ UNCHANGED <<candidateRows, device, pc, job, sent>>

\* The management process restarts: its threads are gone, the rows stay.
Crash ==
  /\ "crash" \in Faults /\ \E w \in Threads : pc[w] # "idle"
  /\ pc' = [w \in Threads |-> "idle"] /\ job' = [w \in Threads |-> NoJob]
  /\ UNCHANGED <<candidateRows, deployments, archive, device, sent>>

Proceed(w) ==
  \/ submit_commit(w) \/ review_commit(w)
  \/ InsertDeployment(w) \/ NumberTaken(w) \/ PreBackup(w) \/ PreBackupFails(w)
  \/ ArchivePre(w) \/ RecordPre(w) \/ SnapshotGone(w) \/ SendSucceeds(w) \/ SendFails(w)
  \/ ConnectFails(w) \/ DeploymentFailed(w) \/ PostBackup(w) \/ PostBackupFails(w) \/ ArchivePost(w)
  \/ DeploymentSucceeded(w)
  \/ ReplaySucceeds(w) \/ ReplayFails(w) \/ RollbackFailed(w)
  \/ AfterBackup(w) \/ AfterBackupFails(w) \/ ArchiveAfter(w) \/ RolledBack(w)

\* The deployments there may still be
DeploymentsLeft == Len(deployments) + Cardinality({w \in Threads : pc[w] = "insert"}) < MaxDeployments

Arrives(w) ==
  \/ \E c \in Candidates :
       \/ submit_candidate(w, c)
       \/ \E a \in Admins, target \in {"approved", "rejected"} : review_candidate(w, c, a, target)
       \/ DeploymentsLeft /\ deploy_candidate(w, c)
  \/ \E d \in DOMAIN deployments : rollback_deployment(w, d)

Next ==
  \/ \E c \in Candidates, a \in Admins, change \in Changes : create_candidate(c, a, change)
  \/ \E w \in Threads : Arrives(w) \/ Proceed(w)
  \/ run_backup \/ Crash
  \/ \E i \in Alive : delete_configuration(i)

Spec == Init /\ [][Next]_vars

\* A thread that runs goes on: every call it makes has a timeout.
FairSpec == Spec /\ \A w \in Threads : WF_vars(Proceed(w))

-----------------------------------------------------------------------------
(* Properties.                                                             *)

\* Whatever is approved, deployed or failed was approved by somebody who is
\* not its author, however reviews and deployments overlap
\* (review_candidate refuses self-approval on a status it read earlier).
FourEyes == \A c \in Candidates :
  status[c] \in {"approved", "deployed", "failed"} => approver[c] \notin {Nobody, author[c]}

\* No device receives a candidate nobody else approved (deploy_candidate).
SentWasApproved == \A i \in DOMAIN sent : approver[sent[i].cand] \notin {Nobody, author[sent[i].cand]}

\* No candidate is sent before the deployment has stored its rollback point,
\* whatever fails or dies, unless snapshots are deleted (deploy_candidate, STEP 1).
SentHasPoint == \A i \in DOMAIN sent :
  deployments[sent[i].dep].pre # 0 \/ \E j \in DOMAIN archive : archive[j] = Gone

\* Whatever overlaps, fails or dies, what reached a device was approved by
\* somebody else, and there is a point to go back to.
SentIsCovered == SentWasApproved /\ SentHasPoint

\* A candidate said to be deployed was sent to the device.  One said to be failed has a
\* deployment that stored its rollback point and ended in failure on the way to the device
\* or after reaching it (and may have been rolled back since).  One whose backup failed or
\* whose process died before that is still approved.
OutcomeIsEarned == \A c \in Candidates :
  /\ status[c] = "deployed" => \E i \in DOMAIN sent : sent[i].cand = c
  /\ status[c] = "failed" => \E d \in DOMAIN deployments :
       /\ deployments[d].cand = c
       /\ deployments[d].status \in {"failed", "rolled_back", "rollback_failed"}
       /\ deployments[d].pre # 0 \/ \E j \in DOMAIN archive : archive[j] = Gone

\* The snapshots a deployment names are in the archive, whoever deletes what
\* while the deployment runs (the foreign keys, and SET NULL).
NamedSnapshotsExist == \A d \in DOMAIN deployments :
  {deployments[d].pre, deployments[d].post} \subseteq Alive \cup {0}

\* The rollback point is the configuration the device had when the commands
\* were sent, not an older one (ncm_deploy, safety rule 2).
PointIsFresh == \A i \in DOMAIN sent :
  LET p == deployments[sent[i].dep].pre IN p \in Alive => archive[p] = sent[i].before

\* A candidate is sent at most once, whatever becomes of it (NcmCandidate:
\* "A candidate that has been deployed is never reused").
SentOnce == \A i, j \in DOMAIN sent : sent[i].cand = sent[j].cand => i = j

\* A deployment that succeeded is reported as having changed the device exactly when the
\* backup after it was taken and the device ran something else than before
\* (deploy_candidate, STEP 3).  When that backup fails it is reported as unchanged, which
\* it may not be: only the error stored in its row says that nobody looked.
VerifiedMeansChanged == \A i \in DOMAIN sent :
  LET d == deployments[sent[i].dep] IN
  d.status = "succeeded" => (d.verified <=> d.post # 0 /\ sent[i].before # sent[i].after)

\* Who is told that a rollback restored the device is told the truth: at that
\* moment it runs what it ran before the deployment (rollback_deployment).
RestoredIsRestored == [][
  \A w \in Threads, i \in DOMAIN sent :
    LET d == sent[i].dep IN
    RolledBack(w) /\ job[w].dep = d /\ deployments'[d].told = "restored" => device' = sent[i].before
  ]_vars

\* Nobody is told of a change the device did not make or of a restoration that did not
\* restore it, nor that nothing changed when the device was looked at and had changed.
ReportsAreTrue == []VerifiedMeansChanged /\ RestoredIsRestored

Running(d) == d \in DOMAIN deployments /\ deployments[d].status = "running"

\* While the process lives, no deployment stays "running" (deploy_candidate).
DeploymentsEnd == \A d \in 1..MaxDeployments : [](Running(d) => <>~Running(d))

Control == INSTANCE ChangeControl WITH sent <- {sent[i].cand : i \in DOMAIN sent}

\* Taken one after the other, the requests keep what change control promises.
ImplementsControl == Control!Spec
=============================================================================
