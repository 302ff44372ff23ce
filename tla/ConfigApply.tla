----------------------------- MODULE ConfigApply -----------------------------
(***************************************************************************)
(* Applying a configuration to the live tac_plus-ng daemon:                *)
(* app/services/config_compiler.py (apply_candidate, _rollback),           *)
(* app/api/routes_config.py (apply, import/apply, restore) and the         *)
(* systemctl wrappers of app/services/service_control.py.                  *)
(*                                                                         *)
(* Every request of an administrator runs in a thread of its own, with a   *)
(* database session of its own, and none of the code below takes a lock.   *)
(* A request is therefore a process, and each of its accesses to something *)
(* shared -- the file on disk, the version table, the daemon -- is a step. *)
(*                                                                         *)
(* A text stands for a whole configuration file.  The database compiles to *)
(* whatever text its rows say at that moment, so the candidate of an apply *)
(* is any text at all.  InstallEvent rows are an audit trail nothing reads *)
(* back, and are left out.                                                 *)
(***************************************************************************)
EXTENDS Naturals, FiniteSets

CONSTANTS Requests,   \* the administrators' requests, each made once
          Texts,      \* the configurations that can be compiled or uploaded
          Blank,      \* the empty file, also what a file cut short looks like
          NoFile,     \* there is no configuration file
          Loadable,   \* the texts the daemon starts and stays up with
          Initial,    \* the file the installer left
          Faults,     \* what may go wrong; see FaultKinds
          Exclusive   \* administrators take turns (nothing in the code
                      \* makes them: an assumption on the environment)

FaultKinds ==
  { "crash",      \* the management process dies or is restarted
    "timeout",    \* a systemctl call outlives the 15 s subprocess timeout
    "sudo",       \* a systemctl call returns an error and does nothing
    "slow",       \* the daemon may take longer than 2 s to reject a file
    "unit",       \* the daemon dies by itself
    "handedit" }  \* somebody edits or deletes the file

AllTexts == Texts \cup {Blank}

ASSUME TextsAssumption ==
  /\ Blank \notin Texts /\ NoFile \notin AllTexts
  /\ Loadable \subseteq Texts /\ Initial \in Loadable
ASSUME FaultsAssumption == Faults \subseteq FaultKinds /\ Exclusive \in BOOLEAN

VARIABLES
  disk,      \* generated/tac_plus-ng.conf
  proc,      \* the daemon's process, as systemd sees it
  running,   \* the text the daemon last read
  versions,  \* the rows of config_versions
  backups,   \* the files of BACKUPS_DIR, by version number
  pc,        \* where each request is
  text,      \* candidate_text of each request
  prev,      \* previous_active of each request
  num        \* version_number of each request

vars == <<disk, proc, running, versions, backups, pc, text, prev, num>>
daemon == <<proc, running>>
locals == <<text, prev, num>>

Ended == { "no_change",    \* 400, nothing to apply
           "invalid",      \* 502, the daemon's own parser refused the text
           "applied",      \* 200, a version was recorded
           "rolled_back",  \* 502, ApplyFailedError after _rollback
           "conflict",     \* 500, IntegrityError on version_number
           "error",        \* 500, TimeoutExpired escaped
           "lost" }        \* the process died under it

Working == { "compiled", "read_active", "number", "validate", "backup",
             "truncate", "write", "reload", "restart", "health", "commit",
             "rb_truncate", "rb_write", "rb_reload", "rb_restart" }

Touching == { "write", "reload", "restart", "health", "commit",
              "rb_truncate", "rb_write", "rb_reload", "rb_restart" }

Row == [number : Nat, content : AllTexts, by : Requests]
Backup == [number : Nat, content : AllTexts]

TypeOK ==
  /\ disk \in AllTexts \cup {NoFile}
  /\ proc \in {"serving", "parsing", "dead"} /\ running \in AllTexts
  /\ versions \subseteq Row /\ backups \subseteq Backup
  /\ pc \in [Requests -> {"idle"} \cup Working \cup Ended]
  /\ text \in [Requests -> AllTexts] /\ prev \in [Requests -> AllTexts]
  /\ num \in [Requests -> Nat]

-----------------------------------------------------------------------------
(* The version table and the file.                                         *)

Numbers == {v.number : v \in versions}

\* SELECT max(version_number), 0 when there is no row
LastNumber == IF versions = {} THEN 0
              ELSE CHOOSE n \in Numbers : \A m \in Numbers : m <= n

\* Bug: the file is read without asking whether it exists.
BugActiveTextUnguarded == disk

\* get_active_config: a missing file reads as the empty string
ActiveText == IF disk = NoFile THEN Blank ELSE disk

InFlight == {r \in Requests : pc[r] \in Working}

Goto(r, label) == pc' = [pc EXCEPT ![r] = label]

-----------------------------------------------------------------------------
(* The daemon under systemd: Type=simple, Restart=on-failure.              *)

Settled(t) == IF t \in Loadable THEN "serving" ELSE "dead"

\* The daemon reads the file.  A parse longer than the 2 s the health check
\* waits leaves a process that still counts as active.
ReadsConfig ==
  /\ disk # NoFile
  /\ running' = disk
  /\ proc' = IF "slow" \in Faults THEN "parsing" ELSE Settled(disk)

DiesWithoutFile == disk = NoFile /\ proc' = "dead" /\ UNCHANGED running

LoadsFile == ReadsConfig \/ DiesWithoutFile

\* systemctl reload: SIGHUP to a live process, an error otherwise.
ReloadDone == proc # "dead" /\ LoadsFile
ReloadRefused == (proc = "dead" \/ "sudo" \in Faults) /\ UNCHANGED daemon

\* systemctl restart: with Type=simple it succeeds once the process exists.
RestartDone == LoadsFile
RestartRefused == "sudo" \in Faults /\ UNCHANGED daemon

\* A call that outlives its timeout may or may not have had its effect.
TimesOut(call) == "timeout" \in Faults /\ (call \/ UNCHANGED daemon)

-----------------------------------------------------------------------------
(* Arrival of a request.                                                   *)

Init ==
  /\ disk = Initial /\ proc = "serving" /\ running = Initial
  /\ versions = {} /\ backups = {}
  /\ pc = [r \in Requests |-> "idle"]
  /\ text = [r \in Requests |-> Blank]
  /\ prev = [r \in Requests |-> Blank]
  /\ num = [r \in Requests |-> 0]

Arrives(r, t, label) ==
  /\ pc[r] = "idle"
  /\ Exclusive => InFlight = {}
  /\ text' = [text EXCEPT ![r] = t]
  /\ Goto(r, label)
  /\ UNCHANGED <<disk, daemon, versions, backups, prev, num>>

\* POST /apply: compile_candidate
apply_config(r) == \E t \in Texts : Arrives(r, t, "compiled")

\* POST /versions/{n}/restore: the content of an existing version
restore_version(r) == \E v \in versions : Arrives(r, v.content, "compiled")

\* POST /import/apply: whatever was uploaded, not compared with the live file
apply_import(r) == \E t \in AllTexts : Arrives(r, t, "read_active")

\* "No pending changes" / "already the active configuration"
CheckPending(r) ==
  /\ pc[r] = "compiled"
  /\ Goto(r, IF text[r] = ActiveText THEN "no_change" ELSE "read_active")
  /\ UNCHANGED <<disk, daemon, versions, backups, locals>>

-----------------------------------------------------------------------------
(* apply_candidate, up to the reload.                                      *)

ReadPreviousActive(r) ==
  /\ pc[r] = "read_active"
  /\ prev' = [prev EXCEPT ![r] = ActiveText]
  /\ Goto(r, "number")
  /\ UNCHANGED <<disk, daemon, versions, backups, text, num>>

next_version_number(r) ==
  /\ pc[r] = "number"
  /\ num' = [num EXCEPT ![r] = LastNumber + 1]
  /\ Goto(r, "validate")
  /\ UNCHANGED <<disk, daemon, versions, backups, text, prev>>

\* tac_plus-ng -P.  A bad text may still pass or be inconclusive (no binary,
\* a timeout, an error without a known marker); neither stops the apply.
validate_candidate(r) ==
  /\ pc[r] = "validate"
  /\ \/ Goto(r, "backup")
     \/ text[r] \notin Loadable /\ Goto(r, "invalid")
  /\ UNCHANGED <<disk, daemon, versions, backups, locals>>

\* Bug: the backup is named after the version about to be written.
BugBackupNumber(r) ==
  /\ pc[r] = "backup"
  /\ backups' = IF disk = NoFile THEN backups
                ELSE {b \in backups : b.number # num[r]}
                       \cup {[number |-> num[r], content |-> disk]}
  /\ Goto(r, "truncate")
  /\ UNCHANGED <<disk, daemon, versions, locals>>

\* tac_plus-ng.conf.v{n-1}.bak, overwriting an earlier one of that name
backup_active(r) ==
  LET n == num[r] - 1 IN
  /\ pc[r] = "backup"
  /\ backups' = IF disk = NoFile THEN backups
                ELSE {b \in backups : b.number # n}
                       \cup {[number |-> n, content |-> disk]}
  /\ Goto(r, "truncate")
  /\ UNCHANGED <<disk, daemon, versions, locals>>

\* write_text opens the file for writing, which empties it, then fills it.
TruncateFile(r) ==
  /\ \/ pc[r] = "truncate" /\ Goto(r, "write")
     \/ pc[r] = "rb_truncate" /\ Goto(r, "rb_write")
  /\ disk' = Blank
  /\ UNCHANGED <<daemon, versions, backups, locals>>

\* Bug: the rollback writes the candidate back.
BugRollbackWritesCandidate(r) ==
  /\ \/ pc[r] = "write" /\ Goto(r, "reload")
     \/ pc[r] = "rb_write" /\ Goto(r, "rb_reload")
  /\ disk' = text[r]
  /\ UNCHANGED <<daemon, versions, backups, locals>>

FillFile(r) ==
  /\ \/ pc[r] = "write" /\ disk' = text[r] /\ Goto(r, "reload")
     \/ pc[r] = "rb_write" /\ disk' = prev[r] /\ Goto(r, "rb_reload")
  /\ UNCHANGED <<daemon, versions, backups, locals>>

-----------------------------------------------------------------------------
(* apply_candidate from the reload on, and _rollback.  Only                *)
(* ServiceControlError is caught: a TimeoutExpired leaves the function.    *)

reload(r) ==
  /\ pc[r] = "reload"
  /\ \/ ReloadDone /\ Goto(r, "health")
     \/ ReloadRefused /\ Goto(r, "restart")
     \/ TimesOut(ReloadDone) /\ Goto(r, "error")
  /\ UNCHANGED <<disk, versions, backups, locals>>

restart(r) ==
  /\ pc[r] = "restart"
  /\ \/ RestartDone /\ Goto(r, "health")
     \/ RestartRefused /\ Goto(r, "rb_truncate")
     \/ TimesOut(RestartDone) /\ Goto(r, "error")
  /\ UNCHANGED <<disk, versions, backups, locals>>

\* Bug: the state of the unit is not looked at.
BugNoHealthCheck(r) ==
  /\ pc[r] = "health" /\ Goto(r, "commit")
  /\ UNCHANGED <<disk, daemon, versions, backups, locals>>

\* Bug: an unhealthy daemon is reloaded without putting the file back.
BugRollbackWithoutFile(r) ==
  /\ pc[r] = "health"
  /\ \/ proc # "dead" /\ Goto(r, "commit")
     \/ (proc = "dead" \/ "sudo" \in Faults) /\ Goto(r, "rb_reload")
  /\ UNCHANGED <<disk, daemon, versions, backups, locals>>

\* get_status after the sleep; a refused sudo reads as "unknown".  The
\* journal is read before _rollback, and that call may time out as well.
HealthCheck(r) ==
  /\ pc[r] = "health"
  /\ \/ proc # "dead" /\ Goto(r, "commit")
     \/ (proc = "dead" \/ "sudo" \in Faults) /\ Goto(r, "rb_truncate")
     \/ "timeout" \in Faults /\ Goto(r, "error")
  /\ UNCHANGED <<disk, daemon, versions, backups, locals>>

\* Bug: no unique constraint on version_number.
BugNoUniqueNumber(r) ==
  /\ pc[r] = "commit" /\ Goto(r, "applied")
  /\ versions' = versions \cup
       {[number |-> num[r], content |-> text[r], by |-> r]}
  /\ UNCHANGED <<disk, daemon, backups, locals>>

\* version_number is UNIQUE: the second row with a number is refused.
RecordVersion(r) ==
  /\ pc[r] = "commit"
  /\ \/ /\ num[r] \notin Numbers
        /\ versions' = versions \cup
             {[number |-> num[r], content |-> text[r], by |-> r]}
        /\ Goto(r, "applied")
     \/ num[r] \in Numbers /\ Goto(r, "conflict") /\ UNCHANGED versions
  /\ UNCHANGED <<disk, daemon, backups, locals>>

rollback_reload(r) ==
  /\ pc[r] = "rb_reload"
  /\ \/ ReloadDone /\ Goto(r, "rolled_back")
     \/ ReloadRefused /\ Goto(r, "rb_restart")
     \/ TimesOut(ReloadDone) /\ Goto(r, "error")
  /\ UNCHANGED <<disk, versions, backups, locals>>

\* the failure of this last restart is passed over in silence
rollback_restart(r) ==
  /\ pc[r] = "rb_restart"
  /\ \/ (RestartDone \/ RestartRefused) /\ Goto(r, "rolled_back")
     \/ TimesOut(RestartDone) /\ Goto(r, "error")
  /\ UNCHANGED <<disk, versions, backups, locals>>

-----------------------------------------------------------------------------
(* What happens around the requests.                                       *)

\* the daemon finishes reading the file it was given
DaemonSettles ==
  /\ proc = "parsing"
  /\ proc' = Settled(running)
  /\ UNCHANGED <<disk, running, versions, backups, pc, locals>>

\* Restart=on-failure
SystemdRestarts ==
  /\ proc = "dead" /\ ReadsConfig
  /\ UNCHANGED <<disk, versions, backups, pc, locals>>

DaemonDies ==
  /\ "unit" \in Faults /\ proc = "serving"
  /\ proc' = "dead"
  /\ UNCHANGED <<disk, running, versions, backups, pc, locals>>

\* the management process is gone, and every request in it
Crash ==
  /\ "crash" \in Faults /\ InFlight # {}
  /\ pc' = [r \in Requests |-> IF r \in InFlight THEN "lost" ELSE pc[r]]
  /\ UNCHANGED <<disk, daemon, versions, backups, locals>>

HandEdit ==
  /\ "handedit" \in Faults
  /\ disk' \in AllTexts \cup {NoFile}
  /\ UNCHANGED <<daemon, versions, backups, pc, locals>>

Arrival(r) == apply_config(r) \/ restore_version(r) \/ apply_import(r)

Proceed(r) ==
  \/ CheckPending(r) \/ ReadPreviousActive(r) \/ next_version_number(r)
  \/ validate_candidate(r) \/ backup_active(r)
  \/ TruncateFile(r) \/ FillFile(r)
  \/ reload(r) \/ restart(r) \/ HealthCheck(r) \/ RecordVersion(r)
  \/ rollback_reload(r) \/ rollback_restart(r)

Environment ==
  DaemonSettles \/ SystemdRestarts \/ DaemonDies \/ Crash \/ HandEdit

Next == (\E r \in Requests : Arrival(r) \/ Proceed(r)) \/ Environment

Spec == Init /\ [][Next]_vars

\* A thread that has started goes on, and systemd restarts what has died;
\* nobody has to make a request and nothing has to go wrong.
Fairness == /\ \A r \in Requests : WF_vars(Proceed(r))
            /\ WF_vars(DaemonSettles) /\ WF_vars(SystemdRestarts)

FairSpec == Spec /\ Fairness

-----------------------------------------------------------------------------
(* Properties.                                                             *)

\* The numbers of the recorded versions are 1, 2, ..., n, each used once,
\* however the applies overlap and whatever goes wrong (_next_version_number
\* reads the maximum long before the row is inserted).
NumbersDense ==
  \A v \in versions :
    /\ 1 .. v.number \subseteq Numbers
    /\ \A w \in versions : w.number = v.number => w = v

ContentOf(n) == (CHOOSE v \in versions : v.number = n).content

Log == [n \in 1 .. LastNumber |-> ContentOf(n)]

\* The deployed text as the history sees it: an apply that is still touching
\* the file has deployed nothing yet.
Standing ==
  IF \E r \in Requests : pc[r] \in Touching
  THEN prev[CHOOSE r \in Requests : pc[r] \in Touching]
  ELSE ActiveText

History == INSTANCE ConfigHistory
             WITH Contents <- AllTexts, First <- Initial,
                  live <- Standing, log <- Log

\* Rows are only ever appended, under the next number and never rewritten,
\* by any interleaving of applies, restores, imports and crashes.
LogIsAppendOnly == History!LogSpec

\* apply_candidate and _rollback, run by one administrator at a time,
\* implement the atomic deployment of ConfigHistory.
ImplementsHistory == History!Spec

\* The version log is a true record of what was deployed: with no request in
\* progress, the file is the content of the last version, or the installer's.
HonestHistory ==
  InFlight = {} =>
    ActiveText = (IF versions = {} THEN Initial ELSE ContentOf(LastNumber))

\* The backup .v{n}.bak is version n itself (the installer's file for n = 0),
\* although a failed apply writes it again.
BackupsMatchVersions ==
  \A b \in backups :
    IF b.number = 0 THEN b.content = Initial
    ELSE \E v \in versions : v.number = b.number /\ v.content = b.content

\* apply_candidate's contract: when it ends in an error after it has touched
\* the file, the file is what it was before.
FailedApplyRestores ==
  [][\A r \in Requests :
       pc[r] \in Touching /\ pc'[r] \in Ended \ {"applied"}
         => ActiveText' = prev[r]]_vars

\* When _rollback is over, the daemon does not go on running a text other
\* than the one that was put back.
RolledBackIsRunning ==
  [][\A r \in Requests :
       pc[r] \in Touching /\ pc'[r] = "rolled_back"
         => running' = ActiveText' \/ proc' = "dead"]_vars

\* A version is recorded only when the daemon has read that very text and is
\* able to stay up with it.
RecordedWasServed ==
  [][\A v \in versions' \ versions :
       running = v.content /\ v.content \in Loadable]_vars

\* What an apply says it did, it did: a text recorded as live is served by a
\* daemon that read it, and one put back is what the daemon runs afterwards.
OutcomesAreServed == RecordedWasServed /\ RolledBackIsRunning

\* models/config_version.py says of the numbers that "concurrent applies
\* can't collide": no apply is refused for a number another one has taken.
NoCollision == \A r \in Requests : pc[r] # "conflict"

\* The daemon always comes back to serving the file on disk, whatever texts
\* were tried and however often it died by itself.
ServiceConverges == []<>(proc = "serving" /\ running = ActiveText)
=============================================================================
