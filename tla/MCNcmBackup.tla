----------------------------- MODULE MCNcmBackup -----------------------------
(* Two studies of the same thing, one chosen at the start of a behaviour: what becomes of jobs when  *)
(* devices fail, and what the archive of one device says while that device changes from day to day.  *)
EXTENDS NcmBackup, TLC

CONSTANTS d1, d2, daily, running, startup

DailyTargets == (daily :> {d1, d2})

VARIABLE study

MCInit == Init /\ \E s \in {"jobs", "archive"} : study = s /\ inventory = IF s = "jobs" THEN Devices ELSE {d1}

\* Devices fail, one is deleted or the process restarts; nothing else happens.  It does not matter
\* which of the two a request for one names.
JobsStudied ==
  /\ day' = day /\ config' = config /\ baseline' = baseline
  /\ spent'.deletions # spent.deletions => inventory' # inventory
  /\ \A w \in Workers : task'[w].devices # {d2}

\* The running configuration of one device changes and is judged by a baseline; the other stays.
ArchiveStudied ==
  /\ spent'.failures = 0 /\ config'[<<d1, startup>>] = config[<<d1, startup>>]
  /\ baseline'[<<d1, startup>>] = None
  /\ inventory' = inventory /\ \A x \in archive \ archive' : x.item = <<d1, running>>

\* A backup retrieves the types in the order it was given.
MCNext ==
  /\ Next /\ UNCHANGED study
  /\ \A w \in Threads : task'[w].type = startup => running \notin task'[w].left
  /\ study = "jobs" => JobsStudied
  /\ study = "archive" => ArchiveStudied

MCSpec == MCInit /\ [][MCNext]_<< vars, study >>
=============================================================================
