--------------------------- MODULE CommandJobsProofs ---------------------------
(***************************************************************************)
(* JobTellsTheTruth holds for any devices, scripts, number of jobs, size   *)
(* of the pool, and number of faults.                                      *)
(*                                                                         *)
(* Most actions are about one target.  The inductive invariant says of     *)
(* each what its status, the results in memory, its rows and what the      *)
(* device was sent have to do with one another (Visit), and of each job    *)
(* what its own status says of all of them (Closing).                      *)
(***************************************************************************)
EXTENDS CommandJobs, TLAPS

Command == Lines \cup {Show}
Entry == [status : Ended \cup {"none", "PENDING", "RUNNING"}, commands : Seq(Command), parallel : BOOLEAN]

JobShapes ==
  /\ template \in Scripts \cup {None}
  /\ running \in [Devices -> SUBSET Lines]
  /\ job \in [Jobs -> Entry]
  /\ target \in [Pairs -> {"none", "PENDING", "CONNECTING", "RUNNING", "COMPLETED", "FAILED"}]
  /\ rows \in [Pairs -> Seq(Row)]
  /\ session \in [Pairs -> [at : {"idle", "dialling", "recording"}, got : Seq(Row)]]
  /\ sent \in [Pairs -> Seq(Command)]
  /\ task \in [Jobs -> {"none", "queued", "working", "over"}]

SameCommands(results, commands) ==
  Len(results) = Len(commands) /\ \A i \in 1 .. Len(commands) : results[i].command = commands[i]

Visit(p) ==
  /\ Len(sent[p]) \leq Len(job[p[1]].commands)
  /\ \A i \in 1 .. Len(sent[p]) : sent[p][i] = job[p[1]].commands[i]
  /\ target[p] \in {"none", "PENDING"} => sent[p] = <<>> /\ session[p].at = "idle"
  /\ session[p].at = "idle" => session[p].got = <<>>
  /\ session[p].at # "idle" => task[p[1]] = "working" /\ SameCommands(session[p].got, sent[p])
  /\ session[p].at = "dialling" => target[p] = "CONNECTING"
  /\ session[p].at = "recording" => target[p] = "RUNNING" /\ Len(sent[p]) = Len(job[p[1]].commands)
  /\ target[p] \in {"CONNECTING", "RUNNING"} /\ session[p].at = "idle" => p[1] \in broken \/ task[p[1]] = "over"
  /\ target[p] = "COMPLETED" => /\ SameCommands(rows[p], job[p[1]].commands)
                                /\ Len(sent[p]) = Len(job[p[1]].commands)
  /\ target[p] # "COMPLETED" => rows[p] = <<>>

Closing(j) ==
  /\ job[j].status = "none" => task[j] = "none" /\ \A d \in Devices : target[<<j, d>>] = "none"
  /\ job[j].status # "none" => job[j].commands # <<>>
  /\ job[j].status \in Ended => task[j] = "over" /\ \A d \in Devices : target[<<j, d>>] \in {"none", "COMPLETED", "FAILED"}
  /\ job[j].status = "COMPLETED" => \A d \in Devices : target[<<j, d>>] # "FAILED"
  /\ job[j].status = "PARTIAL" => /\ \E d \in Devices : target[<<j, d>>] = "COMPLETED"
                                  /\ \E d \in Devices : target[<<j, d>>] = "FAILED"
  /\ job[j].status = "FAILED" => \A d \in Devices : target[<<j, d>>] # "COMPLETED"

JobInv == JobShapes /\ (\A p \in Pairs : Visit(p)) /\ (\A j \in Jobs : Closing(j))

-----------------------------------------------------------------------------
LEMMA ScriptFacts == ASSUME NEW s \in Scripts PROVE s \in Seq(Command) /\ s # <<>>
  BY ScriptsAssumption DEF Command

LEMMA JobStart == JobInit => JobInv
<1> SUFFICES ASSUME JobInit PROVE JobInv
  OBVIOUS
<1>1. <<>> \in Seq(Row) /\ <<>> \in Seq(Command)
  OBVIOUS
<1>2. JobShapes
  BY <1>1 DEF JobInit, JobShapes, NoJob, NoSession, Entry
<1>3. \A p \in Pairs : Visit(p)
  BY DEF JobInit, Visit, NoSession, NoJob, Pairs
<1>4. \A j \in Jobs : Closing(j)
  BY DEF JobInit, Closing, NoJob, Ended, Pairs
<1> QED
  BY <1>2, <1>3, <1>4 DEF JobInv

\* A target as it was stays as it was, whatever becomes of the rest.
LEMMA Untouched ==
  ASSUME JobInv, NEW p \in Pairs, job'[p[1]].commands = job[p[1]].commands, target'[p] = target[p], rows'[p] = rows[p],
         session'[p] = session[p], sent'[p] = sent[p], broken \subseteq broken',
         session[p].at # "idle" => task'[p[1]] = "working",
         task[p[1]] = "over" => task'[p[1]] = "over"
  PROVE  Visit(p)'
<1>1. Visit(p)
  BY DEF JobInv
<1> QED
  BY <1>1 DEF Visit, SameCommands

\* So does a job.
LEMMA SameClosing ==
  ASSUME JobInv, NEW k \in Jobs, job'[k] = job[k], task'[k] = task[k],
         \A d \in Devices : target'[<<k, d>>] = target[<<k, d>>]
  PROVE  Closing(k)'
<1>1. Closing(k)
  BY DEF JobInv
<1> DEFINE status == job[k].status
<1>2. job'[k].status = status /\ job'[k].commands = job[k].commands
  OBVIOUS
<1>3. status = "PARTIAL" => /\ \E d \in Devices : target'[<<k, d>>] = "COMPLETED"
                            /\ \E d \in Devices : target'[<<k, d>>] = "FAILED"
  BY <1>1 DEF Closing
<1>4. /\ status = "none" => task'[k] = "none" /\ \A d \in Devices : target'[<<k, d>>] = "none"
      /\ status # "none" => job[k].commands # <<>>
      /\ status \in Ended => task'[k] = "over" /\ \A d \in Devices : target'[<<k, d>>] \in {"none", "COMPLETED", "FAILED"}
      /\ status = "COMPLETED" => \A d \in Devices : target'[<<k, d>>] # "FAILED"
      /\ status = "FAILED" => \A d \in Devices : target'[<<k, d>>] # "COMPLETED"
  BY <1>1 DEF Closing
<1> HIDE DEF status
<1> QED
  BY <1>2, <1>3, <1>4 DEF Closing

\* Who is being visited belongs to a job that is worked on.
LEMMA BusyJob ==
  ASSUME JobInv, NEW j \in Jobs, NEW d \in Devices,
         session[<<j, d>>].at # "idle" \/ (target[<<j, d>>] = "PENDING" /\ task[j] = "working")
  PROVE  task[j] = "working" /\ job[j].status \notin Ended \cup {"none"} /\ job[j].commands # <<>>
<1>1. <<j, d>> \in Pairs /\ Visit(<<j, d>>) /\ Closing(j)
  BY DEF JobInv, Pairs
<1>2. task[j] = "working"
  BY <1>1 DEF Visit
<1> QED
  BY <1>1, <1>2 DEF Closing

\* One target of a job that is worked on moves, and nothing else does.
Moves(j, d) ==
  /\ job' = job /\ task' = task /\ broken \subseteq broken' /\ template' = template
  /\ \A q \in Pairs : q # <<j, d>> => target'[q] = target[q] /\ rows'[q] = rows[q] /\ session'[q] = session[q] /\ sent'[q] = sent[q]

LEMMA OneTarget ==
  ASSUME JobInv, NEW j \in Jobs, NEW d \in Devices, Moves(j, d), JobShapes', Visit(<<j, d>>)',
         task[j] = "working", job[j].status \notin Ended \cup {"none"}
  PROVE  JobInv'
<1>1. ASSUME NEW p \in Pairs PROVE Visit(p)'
  <2>1. CASE p = <<j, d>>
    BY <2>1
  <2>2. CASE p # <<j, d>>
    <3>1. session[p].at # "idle" => task'[p[1]] = "working"
      BY DEF Moves, JobInv, Visit
    <3> QED
      BY <2>2, <3>1, Untouched DEF Moves
  <2> QED
    BY <2>1, <2>2
<1>2. ASSUME NEW k \in Jobs PROVE Closing(k)'
  <2>1. CASE k = j
    BY <2>1 DEF Moves, Closing, JobInv, Ended
  <2>2. CASE k # j
    <3>1. \A e \in Devices : target'[<<k, e>>] = target[<<k, e>>]
      BY <2>2 DEF Moves, Pairs
    <3> QED
      BY <3>1, SameClosing DEF Moves
  <2> QED
    BY <2>1, <2>2
<1> QED
  BY <1>1, <1>2 DEF JobInv

-----------------------------------------------------------------------------
LEMMA CreateJobStep == ASSUME JobInv, NEW j \in Jobs, create_job(j) PROVE JobInv'
<1>1. PICK ids \in SUBSET Devices, groups \in SUBSET Groups, parallel \in BOOLEAN, raw \in BOOLEAN :
        \E commands \in (IF raw THEN Scripts ELSE {template} \ {None}) :
          LET resolved == resolve_targets(ids, groups) IN
          /\ job[j] = NoJob
          /\ job' = [job EXCEPT ![j] = [status |-> "PENDING", commands |-> commands, parallel |-> parallel]]
          /\ target' = [p \in Pairs |-> IF p[1] = j /\ p[2] \in resolved THEN "PENDING" ELSE target[p]]
          /\ task' = [task EXCEPT ![j] = "queued"]
          /\ UNCHANGED << template, running, rows, broken, session, sent >>
  BY DEF create_job
<1>2. PICK commands \in Scripts, resolved \in {resolve_targets(ids, groups)} :
          /\ job[j] = NoJob
          /\ job' = [job EXCEPT ![j] = [status |-> "PENDING", commands |-> commands, parallel |-> parallel]]
          /\ target' = [p \in Pairs |-> IF p[1] = j /\ p[2] \in resolved THEN "PENDING" ELSE target[p]]
          /\ task' = [task EXCEPT ![j] = "queued"]
          /\ UNCHANGED << template, running, rows, broken, session, sent >>
  BY <1>1 DEF JobInv, JobShapes
<1>3. commands \in Seq(Command) /\ commands # <<>>
  BY ScriptFacts
<1>4. JobShapes'
  BY <1>2, <1>3 DEF JobInv, JobShapes, Entry
<1>5. job[j].status = "none" /\ task[j] = "none" /\ \A d \in Devices : target[<<j, d>>] = "none"
  BY <1>2 DEF NoJob, JobInv, Closing
<1>6. /\ job'[j].status = "PENDING" /\ job'[j].commands = commands
      /\ \A k \in Jobs : k # j => job'[k] = job[k] /\ task'[k] = task[k]
      /\ \A p \in Pairs : p[1] # j => target'[p] = target[p]
      /\ \A p \in Pairs : p[1] = j => target[p] = "none" /\ target'[p] \in {"none", "PENDING"}
  BY <1>2, <1>5 DEF JobInv, JobShapes, Pairs
<1>7. ASSUME NEW p \in Pairs PROVE Visit(p)'
  <2>1. p[1] \in Jobs
    BY DEF Pairs
  <2>2. CASE p[1] = j
    <3>1. /\ target[p] = "none" /\ target'[p] \in {"none", "PENDING"}
          /\ sent'[p] = sent[p] /\ session'[p] = session[p] /\ rows'[p] = rows[p]
      BY <1>2, <1>6, <2>2
    <3>2. sent[p] = <<>> /\ session[p].at = "idle" /\ session[p].got = <<>> /\ rows[p] = <<>>
      BY <3>1 DEF JobInv, Visit
    <3>3. Len(job'[p[1]].commands) \in Nat
      BY <1>3, <1>6, <2>2
    <3> QED
      BY <3>1, <3>2, <3>3 DEF Visit
  <2>3. CASE p[1] # j
    <3>1. session[p].at # "idle" => task'[p[1]] = "working"
      BY <1>6, <2>1, <2>3 DEF JobInv, Visit
    <3> QED
      BY <1>2, <1>6, <2>1, <2>3, <3>1, Untouched
  <2> QED
    BY <2>2, <2>3
<1>8. ASSUME NEW k \in Jobs PROVE Closing(k)'
  <2>1. CASE k = j
    BY <1>3, <1>6, <2>1 DEF Closing, Ended
  <2>2. CASE k # j
    <3>1. \A d \in Devices : target'[<<k, d>>] = target[<<k, d>>]
      BY <1>6, <2>2 DEF Pairs
    <3> QED
      BY <1>6, <2>2, <3>1, SameClosing
  <2> QED
    BY <2>1, <2>2
<1> QED
  BY <1>4, <1>7, <1>8 DEF JobInv

\* A job whose targets rest gets another status, or its task another state.
LEMMA JobMoves ==
  ASSUME JobInv, NEW j \in Jobs, UNCHANGED << template, running, target, rows, broken, session, sent >>, JobShapes',
         \A k \in Jobs : k # j => job'[k] = job[k] /\ task'[k] = task[k],
         job'[j].commands = job[j].commands, task[j] # "over",
         \A d \in Devices : session[<<j, d>>].at # "idle" => task'[j] = "working",
         Closing(j)'
  PROVE  JobInv'
<1>1. ASSUME NEW p \in Pairs PROVE Visit(p)'
  <2>1. PICK k \in Jobs, d \in Devices : p = <<k, d>>
    BY DEF Pairs
  <2>2. session[p].at # "idle" => task'[p[1]] = "working"
    BY <2>1 DEF JobInv, Visit
  <2> QED
    BY <2>1, <2>2, Untouched
<1>2. \A k \in Jobs : Closing(k)'
  BY SameClosing
<1> QED
  BY <1>1, <1>2 DEF JobInv

LEMMA RunJobStep == ASSUME JobInv, NEW j \in Jobs, run_job(j) PROVE JobInv'
<1>1. /\ task[j] = "queued" /\ task' = [task EXCEPT ![j] = "working"] /\ job' = [job EXCEPT ![j].status = "RUNNING"]
      /\ UNCHANGED << template, running, target, rows, broken, session, sent >>
  BY DEF run_job
<1>2. JobShapes'
  BY <1>1 DEF JobInv, JobShapes, Entry
<1>3. /\ job'[j].status = "RUNNING" /\ job'[j].commands = job[j].commands /\ task'[j] = "working"
      /\ \A k \in Jobs : k # j => job'[k] = job[k] /\ task'[k] = task[k]
  BY <1>1 DEF JobInv, JobShapes, Entry
<1>4. Closing(j)'
  BY <1>1, <1>3 DEF JobInv, Closing, Ended
<1> QED
  BY <1>1, <1>2, <1>3, <1>4, JobMoves

LEMMA FinishStep == ASSUME JobInv, NEW j \in Jobs, _finish_job(j) PROVE JobInv'
<1>1. /\ task[j] = "working" /\ AllVisited(j)
      /\ job' = [job EXCEPT ![j].status = RolledUp(Statuses(j))] /\ task' = [task EXCEPT ![j] = "over"]
      /\ UNCHANGED << template, running, target, rows, broken, session, sent >>
  BY DEF _finish_job
<1>2. RolledUp(Statuses(j)) \in Ended
  BY DEF RolledUp, Ended
<1>3. JobShapes'
  BY <1>1, <1>2 DEF JobInv, JobShapes, Entry
<1>4. /\ job'[j].status = RolledUp(Statuses(j)) /\ job'[j].commands = job[j].commands /\ task'[j] = "over"
      /\ \A k \in Jobs : k # j => job'[k] = job[k] /\ task'[k] = task[k]
  BY <1>1 DEF JobInv, JobShapes, Entry
<1>5. ASSUME NEW d \in Devices
      PROVE  session[<<j, d>>].at = "idle" /\ target[<<j, d>>] \in {"none", "COMPLETED", "FAILED"}
  <2>1. <<j, d>> \in Pairs /\ Visit(<<j, d>>)
    BY DEF JobInv, Pairs
  <2>2. session[<<j, d>>].at = "idle"
    BY <1>1, <2>1 DEF AllVisited, Busy, Targets, Visit
  <2>3. target[<<j, d>>] # "PENDING"
    BY <1>1 DEF AllVisited, Statuses, Targets
  <2>4. target[<<j, d>>] \notin {"CONNECTING", "RUNNING"}
    BY <1>1, <2>1, <2>2 DEF Visit, AllVisited
  <2>5. target[<<j, d>>] \in {"none", "PENDING", "CONNECTING", "RUNNING", "COMPLETED", "FAILED"}
    BY <2>1 DEF JobInv, JobShapes
  <2> QED
    BY <2>2, <2>3, <2>4, <2>5
<1>6. Closing(j)'
  <2>1. \A d \in Devices : target[<<j, d>>] # "none" => target[<<j, d>>] \in Statuses(j)
    BY DEF Statuses, Targets
  <2>2. \A x \in Statuses(j) : \E d \in Devices : x = target[<<j, d>>] /\ x # "none"
    BY DEF Statuses, Targets
  <2>3. RolledUp(Statuses(j)) = "COMPLETED" => Statuses(j) = {"COMPLETED"}
    BY DEF RolledUp
  <2>4. RolledUp(Statuses(j)) = "PARTIAL" => "COMPLETED" \in Statuses(j) /\ Statuses(j) # {"COMPLETED"}
    BY DEF RolledUp
  <2>5. RolledUp(Statuses(j)) = "FAILED" => "COMPLETED" \notin Statuses(j)
    BY DEF RolledUp
  <2>6. RolledUp(Statuses(j)) = "PARTIAL" => \E d \in Devices : target[<<j, d>>] = "FAILED"
    <3> SUFFICES ASSUME RolledUp(Statuses(j)) = "PARTIAL" PROVE \E d \in Devices : target[<<j, d>>] = "FAILED"
      OBVIOUS
    <3>1. PICK x \in Statuses(j) : x # "COMPLETED"
      BY <2>4
    <3> QED
      BY <2>2, <3>1, <1>5
  <2>7. job[j].status # "none" /\ job[j].commands # <<>>
    BY <1>1 DEF JobInv, Closing
  <2> QED
    BY <1>1, <1>2, <1>4, <1>5, <2>1, <2>2, <2>3, <2>4, <2>5, <2>6, <2>7 DEF Closing, Ended
<1>7. task[j] # "over" /\ \A d \in Devices : session[<<j, d>>].at # "idle" => task'[j] = "working"
  BY <1>1, <1>5
<1> QED
  BY <1>1, <1>3, <1>4, <1>6, <1>7, JobMoves

LEMMA AbandonStep == ASSUME JobInv, NEW j \in Jobs, Abandon(j) PROVE JobInv'
<1>1. /\ task[j] = "working" /\ Busy(j) = {} /\ task' = [task EXCEPT ![j] = "over"] /\ job' = job
      /\ UNCHANGED << template, running, target, rows, broken, session, sent >>
  BY DEF Abandon
<1>2. JobShapes'
  BY <1>1 DEF JobInv, JobShapes
<1>3. ASSUME NEW d \in Devices PROVE session[<<j, d>>].at = "idle"
  <2>1. Visit(<<j, d>>)
    BY DEF JobInv, Pairs
  <2> QED
    BY <1>1, <2>1 DEF Busy, Targets, Visit
<1>4. task'[j] = "over" /\ \A k \in Jobs : k # j => task'[k] = task[k]
  BY <1>1 DEF JobInv, JobShapes
<1>5. Closing(j)'
  BY <1>1, <1>4 DEF JobInv, Closing
<1> QED
  BY <1>1, <1>2, <1>3, <1>4, <1>5, JobMoves

-----------------------------------------------------------------------------
LEMMA DialStep == ASSUME JobInv, NEW j \in Jobs, NEW d \in Devices, _execute_one_target(j, d) PROVE JobInv'
<1> DEFINE p == <<j, d>>
<1>1. /\ task[j] = "working" /\ target[p] = "PENDING" /\ session[p].at = "idle"
      /\ target' = [target EXCEPT ![p] = "CONNECTING"] /\ session' = [session EXCEPT ![p].at = "dialling"]
      /\ UNCHANGED << template, running, job, rows, task, broken, sent >>
  BY DEF _execute_one_target
<1>2. p \in Pairs /\ p[1] = j /\ Visit(p)
  BY DEF JobInv, Pairs
<1>3. job[j].status \notin Ended \cup {"none"}
  BY <1>1, BusyJob
<1> HIDE DEF p
<1>4. JobShapes'
  BY <1>1, <1>2 DEF JobInv, JobShapes
<1>5. /\ target'[p] = "CONNECTING" /\ session'[p].at = "dialling" /\ session'[p].got = session[p].got
      /\ \A q \in Pairs : q # p => target'[q] = target[q] /\ session'[q] = session[q]
  BY <1>1, <1>2 DEF JobInv, JobShapes
<1>6. sent[p] = <<>> /\ session[p].got = <<>> /\ SameCommands(<<>>, <<>>)
  BY <1>1, <1>2 DEF Visit, SameCommands
<1>7. Visit(p)'
  BY <1>1, <1>2, <1>5, <1>6 DEF Visit, SameCommands
<1>8. Moves(j, d)
  BY <1>1, <1>5 DEF Moves, p
<1> QED
  BY <1>1, <1>3, <1>4, <1>7, <1>8, OneTarget DEF p

LEMMA SendStep == ASSUME JobInv, NEW j \in Jobs, NEW d \in Devices, SendCommand(j, d) PROVE JobInv'
<1> DEFINE p == <<j, d>>
           n == Len(session[p].got) + 1
           command == job[j].commands[n]
<1>1. PICK cut \in BOOLEAN :
        /\ session[p].at = "dialling" /\ n \leq Len(job[j].commands)
        /\ session' = [session EXCEPT ![p].got = Append(@, [command |-> command, had |-> running[d],
             output |-> IF command = Show THEN _read_until_prompt(running[d], cut) ELSE {}])]
        /\ running' = IF command = Show THEN running ELSE [running EXCEPT ![d] = Configured(@, command)]
        /\ sent' = [sent EXCEPT ![p] = Append(@, command)]
        /\ UNCHANGED << template, job, target, rows, task, broken >>
  BY DEF SendCommand
<1> DEFINE row == [command |-> command, had |-> running[d],
                   output |-> IF command = Show THEN _read_until_prompt(running[d], cut) ELSE {}]
<1>2. p \in Pairs /\ p[1] = j /\ Visit(p)
  BY DEF JobInv, Pairs
<1>3. task[j] = "working" /\ job[j].status \notin Ended \cup {"none"}
  BY <1>1, BusyJob
<1> HIDE DEF p
<1>4. /\ session[p] \in [at : {"idle", "dialling", "recording"}, got : Seq(Row)]
      /\ sent[p] \in Seq(Command) /\ job[j].commands \in Seq(Command) /\ running[d] \in SUBSET Lines
  BY <1>2 DEF JobInv, JobShapes, Entry
<1>5. n \in 1 .. Len(job[j].commands) /\ command \in Command /\ n = Len(sent[p]) + 1
  BY <1>1, <1>2, <1>4 DEF Visit, SameCommands
<1>6. row \in Row /\ row.command = command
  BY <1>4, <1>5 DEF Row, Command, _read_until_prompt
<1>7. session' = [session EXCEPT ![p].got = Append(@, row)]
  BY <1>1
<1> HIDE DEF row
<1>8. /\ session'[p].at = "dialling" /\ session'[p].got = Append(session[p].got, row)
      /\ sent'[p] = Append(sent[p], command)
      /\ \A q \in Pairs : q # p => session'[q] = session[q] /\ sent'[q] = sent[q]
  BY <1>1, <1>2, <1>7 DEF JobInv, JobShapes
<1> HIDE DEF command, n
<1>9. Append(session[p].got, row) \in Seq(Row) /\ Append(sent[p], command) \in Seq(Command)
  BY <1>4, <1>5, <1>6
<1>10. JobShapes'
  <2>1. running' \in [Devices -> SUBSET Lines]
    BY <1>1, <1>5 DEF Command, Configured, JobInv, JobShapes
  <2>2. session' \in [Pairs -> [at : {"idle", "dialling", "recording"}, got : Seq(Row)]]
    BY <1>2, <1>7, <1>9 DEF JobInv, JobShapes
  <2>3. sent' \in [Pairs -> Seq(Command)]
    BY <1>1, <1>2, <1>9 DEF JobInv, JobShapes
  <2> QED
    BY <1>1, <2>1, <2>2, <2>3 DEF JobInv, JobShapes
<1>11. Visit(p)'
  <2>1. SameCommands(session[p].got, sent[p]) /\ target[p] = "CONNECTING" /\ rows[p] = <<>>
    BY <1>1, <1>2 DEF Visit
  <2>2. SameCommands(session'[p].got, sent'[p])
    BY <1>4, <1>5, <1>6, <1>8, <2>1 DEF SameCommands
  <2>3. Len(sent'[p]) \leq Len(job[j].commands) /\ \A i \in 1 .. Len(sent'[p]) : sent'[p][i] = job[j].commands[i]
    BY <1>2, <1>4, <1>5, <1>8 DEF Visit, n, command
  <2>4. SameCommands(session[p].got, sent[p])' <=> SameCommands(session'[p].got, sent'[p])
    BY DEF SameCommands
  <2> QED
    BY <1>1, <1>2, <1>3, <1>8, <2>1, <2>2, <2>3, <2>4 DEF Visit
<1>12. Moves(j, d)
  BY <1>1, <1>8 DEF Moves, p
<1> QED
  BY <1>3, <1>10, <1>11, <1>12, OneTarget DEF p

\* A target's session ends, and with it the target, or the thread.
LEMMA EndOfSession ==
  ASSUME JobInv, NEW j \in Jobs, NEW d \in Devices, session[<<j, d>>].at # "idle",
         NEW status \in {"CONNECTING", "RUNNING", "FAILED"},
         target' = [target EXCEPT ![<<j, d>>] = status], session' = [session EXCEPT ![<<j, d>>] = NoSession],
         broken \subseteq broken', status # "FAILED" => j \in broken',
         UNCHANGED << template, running, job, rows, task, sent >>
  PROVE  JobInv'
<1> DEFINE p == <<j, d>>
<1>1. p \in Pairs /\ p[1] = j /\ Visit(p)
  BY DEF JobInv, Pairs
<1>2. task[j] = "working" /\ job[j].status \notin Ended \cup {"none"}
  BY BusyJob
<1> HIDE DEF p
<1>3. target' = [target EXCEPT ![p] = status] /\ session' = [session EXCEPT ![p] = NoSession] /\ session[p].at # "idle"
  BY DEF p
<1>4. NoSession \in [at : {"idle", "dialling", "recording"}, got : Seq(Row)] /\ NoSession.at = "idle" /\ NoSession.got = <<>>
  BY DEF NoSession
<1>5. JobShapes'
  <2>1. target' \in [Pairs -> {"none", "PENDING", "CONNECTING", "RUNNING", "COMPLETED", "FAILED"}]
    BY <1>1, <1>3 DEF JobInv, JobShapes
  <2>2. session' \in [Pairs -> [at : {"idle", "dialling", "recording"}, got : Seq(Row)]]
    BY <1>1, <1>3, <1>4 DEF JobInv, JobShapes
  <2> QED
    BY <2>1, <2>2 DEF JobInv, JobShapes
<1>6. /\ target'[p] = status /\ session'[p] = NoSession
      /\ \A q \in Pairs : q # p => target'[q] = target[q] /\ session'[q] = session[q]
  BY <1>1, <1>3 DEF JobInv, JobShapes
<1>7. Visit(p)'
  <2>1. rows[p] = <<>> /\ Len(sent[p]) \leq Len(job[j].commands) /\ \A i \in 1 .. Len(sent[p]) : sent[p][i] = job[j].commands[i]
    <3>1. session[p].at \in {"dialling", "recording"}
      BY <1>1, <1>3 DEF JobInv, JobShapes
    <3> QED
      BY <1>1, <3>1 DEF Visit
  <2>2. status = "FAILED" \/ j \in broken'
    OBVIOUS
  <2> QED
    BY <1>1, <1>4, <1>6, <2>1, <2>2 DEF Visit
<1>8. Moves(j, d)
  BY <1>6 DEF Moves, p
<1> QED
  BY <1>2, <1>5, <1>7, <1>8, OneTarget DEF p

LEMMA FailStep == ASSUME JobInv, NEW j \in Jobs, NEW d \in Devices, run_commands_on_device_fails(j, d) PROVE JobInv'
  BY EndOfSession DEF run_commands_on_device_fails

LEMMA CommitFailsStep == ASSUME JobInv, NEW j \in Jobs, NEW d \in Devices, CommitFails(j, d) PROVE JobInv'
<1> DEFINE p == <<j, d>>
<1>1. PICK recorded \in BOOLEAN :
        /\ session[p].at \in {"dialling", "recording"}
        /\ target' = IF recorded THEN [target EXCEPT ![p] = "FAILED"] ELSE target
        /\ broken' = IF recorded THEN broken ELSE broken \cup {j}
        /\ session' = [session EXCEPT ![p] = NoSession]
        /\ UNCHANGED << template, running, job, rows, task, sent >>
  BY DEF CommitFails
<1>2. p \in Pairs /\ Visit(p)
  BY DEF JobInv, Pairs
<1>3. CASE recorded
  BY <1>1, <1>3, EndOfSession
<1>4. CASE ~ recorded
  <2>1. target[p] \in {"CONNECTING", "RUNNING", "FAILED"}
    BY <1>1, <1>2 DEF Visit
  <2>2. target' = [target EXCEPT ![p] = target[p]]
    BY <1>1, <1>2, <1>4 DEF JobInv, JobShapes
  <2> QED
    BY <1>1, <1>4, <2>1, <2>2, EndOfSession
<1> QED
  BY <1>3, <1>4

LEMMA AnsweredStep == ASSUME JobInv, NEW j \in Jobs, NEW d \in Devices, Answered(j, d) PROVE JobInv'
<1> DEFINE p == <<j, d>>
<1>1. /\ session[p].at = "dialling" /\ Len(session[p].got) = Len(job[j].commands)
      /\ target' = [target EXCEPT ![p] = "RUNNING"] /\ session' = [session EXCEPT ![p].at = "recording"]
      /\ UNCHANGED << template, running, job, rows, task, broken, sent >>
  BY DEF Answered
<1>2. p \in Pairs /\ p[1] = j /\ Visit(p)
  BY DEF JobInv, Pairs
<1>3. task[j] = "working" /\ job[j].status \notin Ended \cup {"none"}
  BY <1>1, BusyJob
<1> HIDE DEF p
<1>4. JobShapes'
  BY <1>1, <1>2 DEF JobInv, JobShapes
<1>5. /\ target'[p] = "RUNNING" /\ session'[p].at = "recording" /\ session'[p].got = session[p].got
      /\ \A q \in Pairs : q # p => target'[q] = target[q] /\ session'[q] = session[q]
  BY <1>1, <1>2 DEF JobInv, JobShapes
<1>6. Len(sent[p]) = Len(job[j].commands)
  BY <1>1, <1>2 DEF Visit, SameCommands
<1>7. Visit(p)'
  BY <1>1, <1>2, <1>3, <1>5, <1>6 DEF Visit, SameCommands
<1>8. Moves(j, d)
  BY <1>1, <1>5 DEF Moves, p
<1> QED
  BY <1>3, <1>4, <1>7, <1>8, OneTarget DEF p

LEMMA RecordStep == ASSUME JobInv, NEW j \in Jobs, NEW d \in Devices, RecordExecutions(j, d) PROVE JobInv'
<1> DEFINE p == <<j, d>>
<1>1. /\ session[p].at = "recording" /\ rows' = [rows EXCEPT ![p] = session[p].got]
      /\ target' = [target EXCEPT ![p] = "COMPLETED"] /\ session' = [session EXCEPT ![p] = NoSession]
      /\ UNCHANGED << template, running, job, task, broken, sent >>
  BY DEF RecordExecutions
<1>2. p \in Pairs /\ p[1] = j /\ Visit(p)
  BY DEF JobInv, Pairs
<1>3. task[j] = "working" /\ job[j].status \notin Ended \cup {"none"}
  BY <1>1, BusyJob
<1> HIDE DEF p
<1>4. NoSession \in [at : {"idle", "dialling", "recording"}, got : Seq(Row)] /\ NoSession.at = "idle" /\ NoSession.got = <<>>
  BY DEF NoSession
<1>5. session[p].got \in Seq(Row)
  BY <1>2 DEF JobInv, JobShapes
<1>6. JobShapes'
  BY <1>1, <1>2, <1>4, <1>5 DEF JobInv, JobShapes
<1>7. /\ target'[p] = "COMPLETED" /\ session'[p] = NoSession /\ rows'[p] = session[p].got
      /\ \A q \in Pairs : q # p => target'[q] = target[q] /\ session'[q] = session[q] /\ rows'[q] = rows[q]
  BY <1>1, <1>2 DEF JobInv, JobShapes
<1>8. SameCommands(rows'[p], job[j].commands) /\ Len(sent[p]) = Len(job[j].commands)
  BY <1>1, <1>2, <1>7 DEF Visit, SameCommands
<1>9. Visit(p)'
  BY <1>1, <1>2, <1>4, <1>7, <1>8 DEF Visit, SameCommands
<1>10. Moves(j, d)
  BY <1>1, <1>7 DEF Moves, p
<1> QED
  BY <1>3, <1>6, <1>9, <1>10, OneTarget DEF p

-----------------------------------------------------------------------------
LEMMA CrashStep == ASSUME JobInv, JobsCrash PROVE JobInv'
<1>1. /\ task' = [j \in Jobs |-> IF task[j] \in {"queued", "working"} THEN "over" ELSE task[j]]
      /\ session' = [p \in Pairs |-> NoSession]
      /\ UNCHANGED << template, running, job, target, rows, broken, sent >>
  BY DEF JobsCrash
<1>2. NoSession \in [at : {"idle", "dialling", "recording"}, got : Seq(Row)] /\ NoSession.at = "idle" /\ NoSession.got = <<>>
  BY DEF NoSession
<1>3. JobShapes'
  BY <1>1, <1>2 DEF JobInv, JobShapes
<1>4. ASSUME NEW p \in Pairs PROVE Visit(p)'
  <2>1. p[1] \in Jobs /\ Visit(p)
    BY DEF JobInv, Pairs
  <2>2. session'[p] = NoSession /\ (session[p].at # "idle" => task'[p[1]] = "over") /\ (task[p[1]] = "over" => task'[p[1]] = "over")
    BY <1>1, <2>1 DEF Visit
  <2> QED
    BY <1>1, <1>2, <2>1, <2>2 DEF Visit, SameCommands
<1>5. ASSUME NEW j \in Jobs PROVE Closing(j)'
  <2>1. Closing(j) /\ task'[j] = IF task[j] \in {"queued", "working"} THEN "over" ELSE task[j]
    BY <1>1 DEF JobInv
  <2> QED
    BY <1>1, <2>1 DEF Closing
<1> QED
  BY <1>3, <1>4, <1>5 DEF JobInv

\* Edits, checks and audits, and steps that are not of this module.
LEMMA OtherSteps ==
  ASSUME JobInv, template' \in Scripts \cup {None}, UNCHANGED << running, job, target, rows, task, broken, session, sent >>
  PROVE  JobInv'
<1>1. JobShapes'
  BY DEF JobInv, JobShapes
<1>2. \A p \in Pairs : Visit(p)'
  BY DEF JobInv, Visit, SameCommands
<1>3. \A j \in Jobs : Closing(j)'
  BY SameClosing
<1> QED
  BY <1>1, <1>2, <1>3 DEF JobInv

LEMMA JobStep == JobInv /\ [JobNext]_jobVars => JobInv'
<1> SUFFICES ASSUME JobInv, [JobNext]_jobVars PROVE JobInv'
  OBVIOUS
<1>1. template \in Scripts \cup {None}
  BY DEF JobInv, JobShapes
<1>2. ASSUME NEW j \in Jobs, create_job(j) PROVE JobInv'
  BY <1>2, CreateJobStep
<1>3. ASSUME NEW j \in Jobs, JobWork(j) PROVE JobInv'
  BY <1>3, RunJobStep, FinishStep, AbandonStep, DialStep, SendStep, AnsweredStep, RecordStep DEF JobWork
<1>4. ASSUME NEW j \in Jobs, run_checks(j) \/ run_audit(j) PROVE JobInv'
  BY <1>1, <1>4, OtherSteps DEF run_checks, run_audit
<1>5. ASSUME NEW j \in Jobs, NEW d \in Devices, run_commands_on_device_fails(j, d) \/ CommitFails(j, d) PROVE JobInv'
  BY <1>5, FailStep, CommitFailsStep
<1>6. ASSUME NEW d \in Devices, RemoveDevice(d) PROVE JobInv'
  BY <1>1, <1>6, OtherSteps DEF RemoveDevice
<1>7. ASSUME update_template \/ update_audit PROVE JobInv'
  BY <1>1, <1>7, OtherSteps DEF update_template, update_audit
<1>8. ASSUME JobsCrash PROVE JobInv'
  BY <1>8, CrashStep
<1>9. CASE UNCHANGED jobVars
  BY <1>1, <1>9, OtherSteps DEF jobVars
<1> QED
  BY <1>2, <1>3, <1>4, <1>5, <1>6, <1>7, <1>8, <1>9 DEF JobNext

-----------------------------------------------------------------------------
LEMMA JobsHold == JobSpec => []JobInv
<1> QED
  BY JobStart, JobStep, PTL DEF JobSpec

LEMMA Prefix ==
  ASSUME NEW S, NEW s \in Seq(S), NEW t \in Seq(S), Len(s) \leq Len(t), \A i \in 1 .. Len(s) : s[i] = t[i]
  PROVE  s = SubSeq(t, 1, Len(s)) /\ (Len(s) = Len(t) => s = t)
  OBVIOUS

LEMMA InvMeansTruth == JobInv => JobTellsTheTruth
<1> SUFFICES ASSUME JobInv PROVE JobTellsTheTruth
  OBVIOUS
<1>1. ASSUME NEW j \in Jobs, NEW d \in Devices
      PROVE  LET p == <<j, d>> IN
             /\ Len(sent[p]) \leq Len(job[j].commands)
             /\ sent[p] = SubSeq(job[j].commands, 1, Len(sent[p]))
             /\ sent[p] # <<>> => target[p] \notin {"none", "PENDING"}
             /\ rows[p] # <<>> => CommandsOf(rows[p]) = job[j].commands /\ sent[p] = job[j].commands
  <2> DEFINE p == <<j, d>>
             commands == job[j].commands
  <2>1. p \in Pairs /\ p[1] = j /\ Visit(p)
    BY DEF JobInv, Pairs
  <2>2. commands \in Seq(Command) /\ sent[p] \in Seq(Command) /\ rows[p] \in Seq(Row)
    BY <2>1 DEF JobInv, JobShapes, Entry
  <2>3. Len(sent[p]) \leq Len(commands) /\ \A i \in 1 .. Len(sent[p]) : sent[p][i] = commands[i]
    BY <2>1 DEF Visit, commands
  <2> HIDE DEF p, commands
  <2>4. sent[p] = SubSeq(commands, 1, Len(sent[p])) /\ (Len(sent[p]) = Len(commands) => sent[p] = commands)
    BY <2>2, <2>3, Prefix
  <2>5. sent[p] # <<>> => target[p] \notin {"none", "PENDING"}
    BY <2>1 DEF Visit
  <2>6. ASSUME rows[p] # <<>> PROVE CommandsOf(rows[p]) = commands /\ sent[p] = commands
    <3>1. SameCommands(rows[p], commands) /\ Len(sent[p]) = Len(commands)
      BY <2>1, <2>6 DEF Visit, commands
    <3>2. sent[p] = commands
      BY <2>4, <3>1
    <3>3. DOMAIN rows[p] = DOMAIN commands /\ \A i \in DOMAIN commands : rows[p][i].command = commands[i]
      BY <2>2, <3>1 DEF SameCommands
    <3>4. commands = [i \in DOMAIN commands |-> commands[i]]
      BY <2>2
    <3> QED
      BY <3>2, <3>3, <3>4 DEF CommandsOf
  <2> QED
    BY <2>3, <2>4, <2>5, <2>6 DEF p, commands
<1>2. ASSUME NEW j \in Jobs
      PROVE  LET done == { d \in Targets(j) : rows[<<j, d>>] # <<>> } IN
             /\ job[j].status = "COMPLETED" => done = Targets(j)
             /\ job[j].status = "PARTIAL" => done # {} /\ done # Targets(j)
             /\ job[j].status = "FAILED" => done = {}
             /\ job[j].status \in Ended => Busy(j) = {} /\ Statuses(j) \subseteq {"COMPLETED", "FAILED"}
  <2>1. Closing(j)
    BY DEF JobInv
  <2>2. ASSUME NEW d \in Devices, job[j].status \in Ended
        PROVE  /\ rows[<<j, d>>] # <<>> <=> target[<<j, d>>] = "COMPLETED"
               /\ target[<<j, d>>] \in {"none", "COMPLETED", "FAILED"} /\ session[<<j, d>>].at = "idle"
    <3>1. <<j, d>> \in Pairs /\ <<j, d>>[1] = j /\ Visit(<<j, d>>)
      BY DEF JobInv, Pairs
    <3>2. job[j].commands # <<>> /\ job[j].commands \in Seq(Command) /\ rows[<<j, d>>] \in Seq(Row)
      BY <2>1, <2>2, <3>1 DEF Closing, Ended, JobInv, JobShapes, Entry
    <3>3. target[<<j, d>>] = "COMPLETED" => Len(rows[<<j, d>>]) = Len(job[j].commands)
      BY <3>1 DEF Visit, SameCommands
    <3>4. target[<<j, d>>] \in {"none", "COMPLETED", "FAILED"}
      BY <2>1, <2>2 DEF Closing
    <3>5. target[<<j, d>>] # "COMPLETED" => rows[<<j, d>>] = <<>>
      BY <3>1 DEF Visit
    <3>6. session[<<j, d>>].at = "idle"
      BY <2>1, <2>2, <3>1 DEF Closing, Visit
    <3> QED
      BY <3>2, <3>3, <3>4, <3>5, <3>6
  <2>3. job[j].status \in Ended => Busy(j) = {} /\ Statuses(j) \subseteq {"COMPLETED", "FAILED"}
    BY <2>2 DEF Busy, Statuses, Targets
  <2>4. job[j].status = "COMPLETED" => \A d \in Targets(j) : rows[<<j, d>>] # <<>>
    BY <2>1, <2>2 DEF Closing, Targets, Ended
  <2>5. job[j].status = "PARTIAL" => /\ \E d \in Targets(j) : rows[<<j, d>>] # <<>>
                                     /\ \E d \in Targets(j) : rows[<<j, d>>] = <<>>
    <3> SUFFICES ASSUME job[j].status = "PARTIAL"
                 PROVE  /\ \E d \in Targets(j) : rows[<<j, d>>] # <<>>
                        /\ \E d \in Targets(j) : rows[<<j, d>>] = <<>>
      OBVIOUS
    <3>1. PICK d \in Devices : target[<<j, d>>] = "COMPLETED"
      BY <2>1 DEF Closing
    <3>2. PICK e \in Devices : target[<<j, e>>] = "FAILED"
      BY <2>1 DEF Closing
    <3>3. d \in Targets(j) /\ e \in Targets(j) /\ rows[<<j, d>>] # <<>> /\ rows[<<j, e>>] = <<>>
      BY <2>2, <3>1, <3>2 DEF Targets, Ended
    <3> QED
      BY <3>3
  <2>6. job[j].status = "FAILED" => \A d \in Targets(j) : rows[<<j, d>>] = <<>>
    BY <2>1, <2>2 DEF Closing, Targets, Ended
  <2> QED
    BY <2>3, <2>4, <2>5, <2>6
<1> QED
  BY <1>1, <1>2 DEF JobTellsTheTruth

\* Every device is sent the commands copied into its job, in order and once, whatever happens to templates, to
\* the inventory, the database or the process meanwhile; and a job that run_job closes is COMPLETED, PARTIAL or
\* FAILED as all, some or none of its devices have their rows.
THEOREM JobsTellTheTruth == JobSpec => []JobTellsTheTruth
  BY JobsHold, InvMeansTruth, PTL

-----------------------------------------------------------------------------
(* What checks conclude.  A device holds a setting or its negation, and so  *)
(* does every dump of it; a target that is done stays as it is; and what a  *)
(* batch says of a device was so when it was written.                       *)

Consistent(config) == ~ (Opposites \subseteq config)
Dumps(seq) == \A i \in 1 .. Len(seq) : Consistent(seq[i].had)
DumpsInv ==
  /\ \A d \in Devices : Consistent(running[d])
  /\ \A p \in Pairs : Dumps(session[p].got) /\ Dumps(rows[p])

SeenWell(p, v) ==
  v.status \in {"PASS", "FAIL"} =>
    /\ target[p] = "COMPLETED" /\ Show \in Range(CommandsOf(rows[p]))
    /\ v.whole => (v.status = "FAIL" <=> Mended(v.key, v.had) # v.had)

BatchesInv ==
  /\ batches \in Seq([job : Jobs, found : SUBSET Verdict])
  /\ \A i \in 1 .. Len(batches) : \A v \in batches[i].found : SeenWell(<<batches[i].job, v.device>>, v)

VerdictInv == JobInv /\ DumpsInv /\ BatchesInv

LEMMA ElementIsOf == ASSUME NEW S, NEW s \in Seq(S), NEW i \in 1 .. Len(s) PROVE s[i] \in S
  OBVIOUS

LEMMA VerdictStart == JobInit => DumpsInv /\ BatchesInv
<1> SUFFICES ASSUME JobInit PROVE DumpsInv /\ BatchesInv
  OBVIOUS
<1>1. DumpsInv
  <2>1. \A d \in Devices : running[d] = {}
    BY DEF JobInit
  <2>2. \A p \in Pairs : session[p].got = <<>> /\ rows[p] = <<>>
    BY DEF JobInit, NoSession
  <2>3. Consistent({}) /\ Dumps(<<>>)
    BY DEF Consistent, Opposites, Dumps
  <2> QED
    BY <2>1, <2>2, <2>3 DEF DumpsInv
<1>2. batches = <<>>
  BY DEF JobInit
<1> QED
  BY <1>1, <1>2 DEF BatchesInv

\* A target whose rows are in the database is not visited again, and neither is a request made for its job.
LEMMA DoneStaysDone ==
  ASSUME JobInv, [JobNext]_jobVars, NEW p \in Pairs, target[p] = "COMPLETED"
  PROVE  target'[p] = "COMPLETED" /\ rows'[p] = rows[p]
<1>1. p[1] \in Jobs /\ p[2] \in Devices /\ p = <<p[1], p[2]>> /\ Visit(p) /\ Closing(p[1])
  BY DEF Pairs, JobInv
<1>2. session[p].at = "idle"
  BY <1>1 DEF Visit, JobInv, JobShapes
<1>3. ASSUME NEW j \in Jobs, create_job(j) PROVE target'[p] = "COMPLETED" /\ rows'[p] = rows[p]
  <2>1. job[j].status = "none"
    BY <1>3 DEF create_job, NoJob
  <2>2. p[1] # j
    BY <1>1, <2>1 DEF Closing
  <2> QED
    BY <1>3, <2>2 DEF create_job
<1>4. ASSUME NEW j \in Jobs, NEW d \in Devices,
             session[<<j, d>>].at # "idle" \/ target[<<j, d>>] = "PENDING",
             rows' = rows \/ (\E r : rows' = [rows EXCEPT ![<<j, d>>] = r]),
             target' = target \/ (\E t : target' = [target EXCEPT ![<<j, d>>] = t])
      PROVE target'[p] = "COMPLETED" /\ rows'[p] = rows[p]
  BY <1>2, <1>4 DEF JobInv, JobShapes
<1>5. ASSUME NEW j \in Jobs, JobWork(j) PROVE target'[p] = "COMPLETED" /\ rows'[p] = rows[p]
  <2>1. CASE run_job(j) \/ _finish_job(j) \/ Abandon(j)
    BY <2>1 DEF run_job, _finish_job, Abandon
  <2>2. ASSUME NEW d \in Devices, _execute_one_target(j, d) PROVE target'[p] = "COMPLETED" /\ rows'[p] = rows[p]
    BY <2>2, <1>4 DEF _execute_one_target
  <2>3. ASSUME NEW d \in Devices, SendCommand(j, d) PROVE target'[p] = "COMPLETED" /\ rows'[p] = rows[p]
    BY <2>3 DEF SendCommand
  <2>4. ASSUME NEW d \in Devices, Answered(j, d) PROVE target'[p] = "COMPLETED" /\ rows'[p] = rows[p]
    BY <2>4, <1>4 DEF Answered
  <2>5. ASSUME NEW d \in Devices, RecordExecutions(j, d) PROVE target'[p] = "COMPLETED" /\ rows'[p] = rows[p]
    BY <2>5, <1>4 DEF RecordExecutions
  <2> QED
    BY <1>5, <2>1, <2>2, <2>3, <2>4, <2>5 DEF JobWork
<1>6. ASSUME NEW j \in Jobs, NEW d \in Devices, run_commands_on_device_fails(j, d) PROVE target'[p] = "COMPLETED" /\ rows'[p] = rows[p]
  BY <1>6, <1>4 DEF run_commands_on_device_fails
<1>7. ASSUME NEW j \in Jobs, NEW d \in Devices, CommitFails(j, d) PROVE target'[p] = "COMPLETED" /\ rows'[p] = rows[p]
  BY <1>7, <1>4 DEF CommitFails
<1>8. ASSUME UNCHANGED << target, rows >> PROVE target'[p] = "COMPLETED" /\ rows'[p] = rows[p]
  BY <1>8
<1>9. ASSUME NEW j \in Jobs, run_checks(j) \/ run_audit(j) PROVE UNCHANGED << target, rows >>
  BY <1>9 DEF run_checks, run_audit
<1>10. ASSUME NEW d \in Devices, RemoveDevice(d) PROVE UNCHANGED << target, rows >>
  BY <1>10 DEF RemoveDevice
<1>11. ASSUME update_template \/ update_audit \/ JobsCrash PROVE UNCHANGED << target, rows >>
  BY <1>11 DEF update_template, update_audit, JobsCrash
<1>12. CASE UNCHANGED jobVars
  BY <1>12 DEF jobVars
<1> QED
  BY <1>3, <1>5, <1>6, <1>7, <1>8, <1>9, <1>10, <1>11, <1>12 DEF JobNext

LEMMA OneNegation ==
  ASSUME NEW config, NEW command, Consistent(config)
  PROVE  Consistent(Configured(config, command))
  BY DEF Consistent, Configured, Opposites

\* Results are given up, or become rows; nothing is sent.
LEMMA DumpsMove ==
  ASSUME DumpsInv, running' = running,
         \A p \in Pairs : /\ session'[p].got = session[p].got \/ session'[p].got = <<>>
                          /\ rows'[p] = rows[p] \/ rows'[p] = session[p].got
  PROVE  DumpsInv'
<1>1. \A p \in Pairs : Dumps(session'[p].got) /\ Dumps(rows'[p])
  BY DEF DumpsInv, Dumps
<1> QED
  BY <1>1 DEF DumpsInv, Dumps, Consistent

LEMMA DumpsStep == ASSUME JobInv, DumpsInv, [JobNext]_jobVars PROVE DumpsInv'
<1>1. NoSession.got = <<>>
  BY DEF NoSession
<1>2. \A p \in Pairs : session[p] \in [at : {"idle", "dialling", "recording"}, got : Seq(Row)]
  BY DEF JobInv, JobShapes
<1>3. DOMAIN session = Pairs /\ DOMAIN rows = Pairs
  BY DEF JobInv, JobShapes
<1>4. ASSUME UNCHANGED << running, session, rows >> PROVE DumpsInv'
  BY <1>4, DumpsMove
<1>5. ASSUME NEW j \in Jobs, NEW d \in Devices, SendCommand(j, d) PROVE DumpsInv'
  <2> DEFINE p == <<j, d>>
             command == job[j].commands[Len(session[p].got) + 1]
  <2>1. PICK cut \in BOOLEAN :
          /\ session' = [session EXCEPT ![p].got = Append(@, [command |-> command, had |-> running[d],
               output |-> IF command = Show THEN _read_until_prompt(running[d], cut) ELSE {}])]
          /\ running' = IF command = Show THEN running ELSE [running EXCEPT ![d] = Configured(@, command)]
          /\ rows' = rows
    BY <1>5 DEF SendCommand
  <2> DEFINE row == [command |-> command, had |-> running[d],
                     output |-> IF command = Show THEN _read_until_prompt(running[d], cut) ELSE {}]
  <2>2. row.had = running[d] /\ session' = [session EXCEPT ![p].got = Append(@, row)] /\ p \in Pairs
    BY <2>1 DEF Pairs
  <2> HIDE DEF row, command
  <2>3. Consistent(row.had)
    BY <2>2 DEF DumpsInv
  <2>4. \A e \in Devices : Consistent(running'[e])
    <3>1. \A e \in Devices : running'[e] = running[e] \/ running'[e] = Configured(running[e], command)
      BY <2>1 DEF JobInv, JobShapes
    <3> QED
      BY <3>1, OneNegation DEF DumpsInv
  <2>5. Dumps(Append(session[p].got, row))
    <3>1. session[p].got \in Seq(Row) /\ Dumps(session[p].got)
      BY <1>2, <2>2 DEF DumpsInv
    <3> QED
      BY <2>3, <3>1 DEF Dumps
  <2>6. \A q \in Pairs : session'[q].got = session[q].got \/ (q = p /\ session'[q].got = Append(session[q].got, row))
    BY <1>2, <1>3, <2>2
  <2>7. \A q \in Pairs : Dumps(session'[q].got) /\ Dumps(rows'[q])
    BY <2>1, <2>5, <2>6 DEF DumpsInv
  <2> QED
    BY <2>4, <2>7 DEF DumpsInv, Dumps, Consistent
<1>6. ASSUME NEW j \in Jobs, NEW d \in Devices, RecordExecutions(j, d) PROVE DumpsInv'
  <2>1. /\ running' = running /\ session' = [session EXCEPT ![<<j, d>>] = NoSession]
        /\ rows' = [rows EXCEPT ![<<j, d>>] = session[<<j, d>>].got]
    BY <1>6 DEF RecordExecutions
  <2> QED
    BY <1>1, <1>3, <2>1, DumpsMove
<1>7. ASSUME NEW j \in Jobs, NEW d \in Devices,
             run_commands_on_device_fails(j, d) \/ CommitFails(j, d) PROVE DumpsInv'
  <2>1. UNCHANGED << running, rows >> /\ session' = [session EXCEPT ![<<j, d>>] = NoSession]
    BY <1>7 DEF run_commands_on_device_fails, CommitFails
  <2> QED
    BY <1>1, <1>3, <2>1, DumpsMove
<1>8. ASSUME NEW j \in Jobs, NEW d \in Devices, _execute_one_target(j, d) \/ Answered(j, d) PROVE DumpsInv'
  <2>1. UNCHANGED << running, rows >> /\ \E a : session' = [session EXCEPT ![<<j, d>>].at = a]
    BY <1>8 DEF _execute_one_target, Answered
  <2>2. \A p \in Pairs : session'[p].got = session[p].got
    BY <1>2, <1>3, <2>1
  <2> QED
    BY <2>1, <2>2, DumpsMove
<1>9. ASSUME JobsCrash PROVE DumpsInv'
  <2>1. UNCHANGED << running, rows >> /\ session' = [p \in Pairs |-> NoSession]
    BY <1>9 DEF JobsCrash
  <2> QED
    BY <1>1, <2>1, DumpsMove
<1>10. ASSUME NEW j \in Jobs, create_job(j) \/ run_job(j) \/ _finish_job(j) \/ Abandon(j) \/ run_checks(j) \/ run_audit(j)
       PROVE UNCHANGED << running, session, rows >>
  BY <1>10 DEF create_job, run_job, _finish_job, Abandon, run_checks, run_audit
<1>11. ASSUME NEW d \in Devices, RemoveDevice(d) PROVE UNCHANGED << running, session, rows >>
  BY <1>11 DEF RemoveDevice
<1>12. ASSUME update_template \/ update_audit PROVE UNCHANGED << running, session, rows >>
  BY <1>12 DEF update_template, update_audit
<1>13. CASE UNCHANGED jobVars
  BY <1>4, <1>13 DEF jobVars
<1> QED
  BY <1>4, <1>5, <1>6, <1>7, <1>8, <1>9, <1>10, <1>11, <1>12, <1>13 DEF JobNext, JobWork

\* A check passes or fails a dump by whether its own recommendation would change the configuration.
LEMMA JudgeByRemedy ==
  ASSUME NEW key, NEW config, Consistent(config), Judge(key, config) \in {"PASS", "FAIL"}
  PROVE  Judge(key, config) = "FAIL" <=> Mended(key, config) # config
<1>1. CASE key = "aaa_new_model"
  BY <1>1 DEF Judge, Mended, _check_aaa_new_model
<1>2. CASE key = "password_encryption"
  BY <1>2 DEF Judge, Mended, _check_password_encryption
<1>3. CASE key = "http_server_disabled"
  BY <1>3 DEF Judge, Mended, _check_http_server_disabled, Consistent, Opposites
<1>4. CASE key = "vty_ssh_only"
  BY <1>4 DEF Judge, Mended, _check_vty_ssh_only
<1>5. CASE key \notin {"aaa_new_model", "password_encryption", "http_server_disabled", "vty_ssh_only"}
  BY <1>5 DEF Judge
<1> QED
  BY <1>1, <1>2, <1>3, <1>4, <1>5

LEMMA JudgeStatus ==
  ASSUME NEW key, NEW config
  PROVE  Judge(key, config) \in {"PASS", "FAIL", "NOT_APPLICABLE", "UNKNOWN"}
<1>1. CASE key \in {"aaa_new_model", "password_encryption", "http_server_disabled"}
  BY <1>1 DEF Judge
<1>2. CASE key = "vty_ssh_only"
  BY <1>2 DEF Judge, _check_vty_ssh_only
<1>3. CASE key \notin {"aaa_new_model", "password_encryption", "http_server_disabled", "vty_ssh_only"}
  BY <1>3 DEF Judge
<1> QED
  BY <1>1, <1>2, <1>3

LEMMA CheckSees ==
  ASSUME JobInv, DumpsInv, NEW j \in Jobs, NEW d \in Devices, NEW key \in CheckKeys,
         NEW dump \in find_running_config_output(j, d)
  PROVE  run_check(key, d, dump) \in Verdict /\ SeenWell(<<j, d>>, run_check(key, d, dump)) /\ run_check(key, d, dump).device = d
<1> DEFINE p == <<j, d>>
           v == run_check(key, d, dump)
<1>1. p \in Pairs /\ Visit(p) /\ Dumps(rows[p]) /\ rows[p] \in Seq(Row)
  BY DEF Pairs, JobInv, JobShapes, DumpsInv
<1>2. CASE dump = None
  BY <1>2 DEF run_check, Verdict, SeenWell
<1>3. CASE dump # None
  <2>1. dump \in { rows[p][i] : i \in DOMAIN rows[p] } /\ dump.command = Show
    BY <1>3 DEF find_running_config_output
  <2>2. PICK i \in 1 .. Len(rows[p]) : dump = rows[p][i]
    BY <1>1, <2>1
  <2>3. dump \in Row /\ Consistent(dump.had) /\ rows[p] # <<>>
    BY <1>1, <2>2 DEF Dumps
  <2>4. target[p] = "COMPLETED"
    BY <1>1, <2>3 DEF Visit
  <2>5. Show \in Range(CommandsOf(rows[p]))
    <3>1. i \in DOMAIN CommandsOf(rows[p]) /\ CommandsOf(rows[p])[i] = Show
      BY <1>1, <2>1, <2>2 DEF CommandsOf
    <3> QED
      BY <3>1 DEF Range
  <2>6. v = [device |-> d, key |-> key, status |-> Judge(key, dump.output), had |-> dump.had, whole |-> dump.output = dump.had]
    BY <1>3 DEF run_check
  <2>7. dump.had \in SUBSET Lines /\ Judge(key, dump.output) \in {"PASS", "FAIL", "NOT_APPLICABLE", "UNKNOWN"}
    BY <2>3, JudgeStatus DEF Row
  <2>8. v \in Verdict /\ v.device = d
    BY <2>6, <2>7 DEF Verdict
  <2>9. v.whole /\ v.status \in {"PASS", "FAIL"} => (v.status = "FAIL" <=> Mended(v.key, v.had) # v.had)
    <3> DEFINE same == dump.output = dump.had
    <3>1. v = [device |-> d, key |-> key, status |-> Judge(key, dump.output), had |-> dump.had, whole |-> same]
      BY <2>6
    <3>2. v.key = key /\ v.status = Judge(key, dump.output) /\ v.had = dump.had /\ v.whole = same
      <4> HIDE DEF same, v
      <4> QED
        BY <3>1
    <3> HIDE DEF v
    <3>3. SUFFICES ASSUME v.whole, v.status \in {"PASS", "FAIL"} PROVE v.status = "FAIL" <=> Mended(v.key, v.had) # v.had
      OBVIOUS
    <3>4. dump.output = dump.had
      BY <3>2, <3>3
    <3> QED
      BY <2>3, <3>2, <3>3, <3>4, JudgeByRemedy
  <2> QED
    BY <2>4, <2>5, <2>8, <2>9 DEF SeenWell
<1> QED
  BY <1>2, <1>3

\* A batch is added and the targets stay as they are.
LEMMA BatchAdded ==
  ASSUME VerdictInv, NEW j \in Jobs, NEW keys \in SUBSET CheckKeys, execute_checks_against_job(j, keys), UNCHANGED << target, rows >>
  PROVE  BatchesInv'
<1>1. PICK dump \in DumpsUsed(j) : batches' = Append(batches, [job |-> j, found |-> Judged(j, keys, dump)])
  BY DEF execute_checks_against_job
<1> DEFINE found == Judged(j, keys, dump)
           batch == [job |-> j, found |-> found]
<1>2. \A d \in Targets(j) : d \in Devices /\ dump[d] \in find_running_config_output(j, d)
  BY DEF Targets, DumpsUsed
<1>3. \A v \in found : v \in Verdict /\ SeenWell(<<j, v.device>>, v)
  <2>1. SUFFICES ASSUME NEW v \in found PROVE v \in Verdict /\ SeenWell(<<j, v.device>>, v)
    OBVIOUS
  <2>2. PICK key \in keys, d \in Targets(j) : v = run_check(key, d, dump[d])
    BY <2>1 DEF Judged
  <2>3. key \in CheckKeys /\ d \in Devices /\ dump[d] \in find_running_config_output(j, d)
    BY <1>2
  <2>4. v \in Verdict /\ SeenWell(<<j, d>>, v) /\ v.device = d
    BY <2>2, <2>3, CheckSees DEF VerdictInv
  <2> QED
    BY <2>4
<1> HIDE DEF found
<1>4. batch.job = j /\ batch.found = found /\ batch \in [job : Jobs, found : SUBSET Verdict] /\ batches' = Append(batches, batch)
  BY <1>1, <1>3 DEF found
<1> HIDE DEF batch
<1>5. batches' \in Seq([job : Jobs, found : SUBSET Verdict]) /\ Len(batches') = Len(batches) + 1
  BY <1>4 DEF VerdictInv, BatchesInv
<1>6. ASSUME NEW i \in 1 .. Len(batches'), NEW v \in batches'[i].found PROVE SeenWell(<<batches'[i].job, v.device>>, v)
  <2>1. batches'[i] = IF i \leq Len(batches) THEN batches[i] ELSE batch
    BY <1>4, <1>5 DEF VerdictInv, BatchesInv
  <2>2. CASE i \in 1 .. Len(batches)
    BY <2>1, <2>2 DEF VerdictInv, BatchesInv
  <2>3. CASE i \notin 1 .. Len(batches)
    <3>1. batches'[i] = batch
      BY <1>5, <2>1, <2>3 DEF VerdictInv, BatchesInv
    <3> QED
      BY <1>3, <1>4, <3>1
  <2> QED
    BY <2>2, <2>3
<1> QED
  BY <1>5, <1>6 DEF BatchesInv, SeenWell, CommandsOf

LEMMA BatchesStep == ASSUME VerdictInv, [JobNext]_jobVars PROVE BatchesInv'
<1>1. ASSUME NEW j \in Jobs, run_checks(j) PROVE BatchesInv'
  BY <1>1, BatchAdded DEF run_checks
<1>2. ASSUME NEW j \in Jobs, run_audit(j) PROVE BatchesInv'
  <2>1. execute_checks_against_job(j, audit \cap CheckKeys) /\ UNCHANGED << target, rows >>
    BY <1>2 DEF run_audit
  <2> QED
    BY <2>1, BatchAdded
<1>3. CASE UNCHANGED batches
  <2>1. ASSUME NEW i \in 1 .. Len(batches), NEW v \in batches[i].found
        PROVE  SeenWell(<<batches[i].job, v.device>>, v)'
    <3> DEFINE p == <<batches[i].job, v.device>>
    <3>1. p \in Pairs /\ SeenWell(p, v)
      <4>1. batches[i] \in [job : Jobs, found : SUBSET Verdict] /\ SeenWell(<<batches[i].job, v.device>>, v)
        <5>1. batches \in Seq([job : Jobs, found : SUBSET Verdict]) /\ i \in 1 .. Len(batches)
          BY <2>1 DEF VerdictInv, BatchesInv
        <5>2. batches[i] \in [job : Jobs, found : SUBSET Verdict]
          BY <5>1, ElementIsOf
        <5>3. SeenWell(<<batches[i].job, v.device>>, v)
          BY <2>1, <5>1 DEF VerdictInv, BatchesInv
        <5> QED
          BY <5>2, <5>3
      <4>2. batches[i].job \in Jobs /\ v \in Verdict
        BY <2>1, <4>1
      <4> QED
        BY <4>1, <4>2 DEF Verdict, Pairs
    <3>2. target[p] = "COMPLETED" => target'[p] = "COMPLETED" /\ rows'[p] = rows[p]
      BY <3>1, DoneStaysDone DEF VerdictInv
    <3>3. SeenWell(<<batches[i].job, v.device>>, v)' <=> (v.status \in {"PASS", "FAIL"} =>
            /\ target'[p] = "COMPLETED" /\ Show \in Range(CommandsOf(rows'[p]))
            /\ v.whole => (v.status = "FAIL" <=> Mended(v.key, v.had) # v.had))
      BY <1>3 DEF SeenWell, CommandsOf
    <3> QED
      BY <3>1, <3>2, <3>3 DEF SeenWell
  <2> QED
    BY <1>3, <2>1 DEF VerdictInv, BatchesInv
<1>4. ASSUME NEW j \in Jobs, create_job(j) \/ JobWork(j) PROVE UNCHANGED batches
  BY <1>4 DEF create_job, JobWork, run_job, _finish_job, Abandon, _execute_one_target, SendCommand, Answered, RecordExecutions
<1>5. ASSUME NEW j \in Jobs, NEW d \in Devices, run_commands_on_device_fails(j, d) \/ CommitFails(j, d) PROVE UNCHANGED batches
  BY <1>5 DEF run_commands_on_device_fails, CommitFails
<1>6. ASSUME NEW d \in Devices, RemoveDevice(d) PROVE UNCHANGED batches
  BY <1>6 DEF RemoveDevice
<1>7. ASSUME update_template \/ update_audit \/ JobsCrash PROVE UNCHANGED batches
  BY <1>7 DEF update_template, update_audit, JobsCrash
<1>8. CASE UNCHANGED jobVars
  BY <1>3, <1>8 DEF jobVars
<1> QED
  BY <1>1, <1>2, <1>3, <1>4, <1>5, <1>6, <1>7, <1>8 DEF JobNext

LEMMA VerdictsHold == JobSpec => []VerdictInv
<1>1. JobInit => VerdictInv
  BY JobStart, VerdictStart DEF VerdictInv
<1>2. VerdictInv /\ [JobNext]_jobVars => VerdictInv'
  BY JobStep, DumpsStep, BatchesStep DEF VerdictInv
<1> QED
  BY <1>1, <1>2, PTL DEF JobSpec

\* Without a FAIL the score is full: the sum over no verdict is zero.
LEMMA NothingLost == ASSUME NEW found, \A v \in found : v.status # "FAIL" PROVE compute_score(found) = 100
<1>1. { v \in found : v.status = "FAIL" } = {}
  OBVIOUS
<1> DEFINE iter == CHOOSE f : f = [s \in SUBSET {} |-> IF s = {} THEN 0 ELSE LET x == CHOOSE y \in s : TRUE IN Weight(x.key) + f[s \ {x}]]
<1>2. [s \in {{}} |-> 0] = [s \in SUBSET {} |-> IF s = {} THEN 0 ELSE LET x == CHOOSE y \in s : TRUE IN Weight(x.key) + [t \in {{}} |-> 0][s \ {x}]]
  OBVIOUS
<1>3. iter = [s \in SUBSET {} |-> IF s = {} THEN 0 ELSE LET x == CHOOSE y \in s : TRUE IN Weight(x.key) + iter[s \ {x}]]
  BY <1>2
<1>4. iter[{}] = 0
  BY <1>3
<1>5. MapThenSumSet(LAMBDA v : Weight(v.key), {}) = iter[{}]
  BY Zenon DEF MapThenSumSet, MapThenFoldSet
<1>6. MapThenSumSet(LAMBDA v : Weight(v.key), { v \in found : v.status = "FAIL" }) = 0
  BY Zenon, <1>1, <1>4, <1>5
<1>7. compute_score(found) = IF 0 > 100 THEN 0 ELSE 100 - 0
  BY Zenon, <1>6 DEF compute_score
<1> QED
  BY <1>7

LEMMA InvMeansSeen == VerdictInv => VerdictsAreSeen
<1> SUFFICES ASSUME VerdictInv PROVE VerdictsAreSeen
  OBVIOUS
<1>1. DOMAIN batches = 1 .. Len(batches)
  BY DEF VerdictInv, BatchesInv
<1>2. ASSUME NEW i \in DOMAIN batches, NEW v \in batches[i].found, v.status \in {"PASS", "FAIL"}
      PROVE  /\ target[<<batches[i].job, v.device>>] = "COMPLETED" /\ Show \in Range(CommandsOf(rows[<<batches[i].job, v.device>>]))
             /\ v.whole => (v.status = "FAIL" <=> Mended(v.key, v.had) # v.had)
  BY <1>1, <1>2 DEF VerdictInv, BatchesInv, SeenWell
<1>3. ASSUME NEW i \in DOMAIN batches, compute_score(batches[i].found) < 100
      PROVE  \E w \in batches[i].found : w.status = "FAIL" /\ target[<<batches[i].job, w.device>>] = "COMPLETED"
  <2>1. compute_score(batches[i].found) # 100
    BY <1>3
  <2>2. PICK w \in batches[i].found : w.status = "FAIL"
    BY <2>1, NothingLost
  <2> QED
    BY <1>2, <2>2
<1> QED
  BY <1>2, <1>3 DEF VerdictsAreSeen

\* A verdict is about a device that answered in that job and about the configuration it had at that moment: a check
\* fails a whole dump exactly when its own recommendation would change the device, and a score below 100 has a
\* device that failed; templates, audits, the inventory and the process may come and go meanwhile.
THEOREM VerdictsSeen == JobSpec => []VerdictsAreSeen
  BY VerdictsHold, InvMeansSeen, PTL
\* What else has a type: jobs hold scripts, and what is broken, edited and counted.
RestInv ==
  /\ listed \subseteq Devices /\ member \in [Devices -> Groups \cup {None}]
  /\ \A j \in Jobs : job[j].commands \in Scripts \cup {<<>>}
  /\ broken \subseteq Jobs
  /\ audit \in (SUBSET CheckKeys) \cup {None}
  /\ jobBudget \in [edits : Nat, faults : Nat, troubles : Nat]

LEMMA BudgetTyped ==
  ASSUME jobBudget \in [edits : Nat, faults : Nat, troubles : Nat],
         UNCHANGED jobBudget \/ \E what \in {"edits", "faults", "troubles"} : Spend(what)
  PROVE  jobBudget' \in [edits : Nat, faults : Nat, troubles : Nat]
<1>1. CASE UNCHANGED jobBudget
  BY <1>1
<1>2. ASSUME NEW what \in {"edits", "faults", "troubles"}, Spend(what)
      PROVE  jobBudget' \in [edits : Nat, faults : Nat, troubles : Nat]
  BY <1>2 DEF Spend
<1> QED
  BY <1>1, <1>2

LEMMA RestStep == ASSUME JobInv, RestInv, [JobNext]_jobVars PROVE RestInv'
<1> USE DEF RestInv
<1>1. ASSUME NEW j \in Jobs, create_job(j) PROVE RestInv'
  <2>1. PICK parallel \in BOOLEAN, commands \in Scripts :
          job' = [job EXCEPT ![j] = [status |-> "PENDING", commands |-> commands, parallel |-> parallel]]
    BY <1>1 DEF create_job, JobInv, JobShapes
  <2>2. \A k \in Jobs : job'[k].commands \in {job[k].commands, commands}
    BY <2>1 DEF JobInv, JobShapes
  <2> QED
    BY <1>1, <2>2 DEF create_job
<1>2. ASSUME NEW j \in Jobs, run_job(j) \/ _finish_job(j) PROVE RestInv'
  <2>1. PICK status : job' = [job EXCEPT ![j].status = status]
    BY <1>2 DEF run_job, _finish_job
  <2>2. \A k \in Jobs : job'[k].commands = job[k].commands
    BY <2>1 DEF JobInv, JobShapes, Entry
  <2> QED
    BY <1>2, <2>2 DEF run_job, _finish_job
<1>3. ASSUME NEW j \in Jobs, NEW d \in Devices,
             \/ _execute_one_target(j, d) \/ SendCommand(j, d) \/ Answered(j, d) \/ RecordExecutions(j, d)
             \/ run_commands_on_device_fails(j, d) \/ CommitFails(j, d)
      PROVE  RestInv'
  <2>1. UNCHANGED << listed, member, job, audit >> /\ broken' \subseteq broken \cup {j}
    BY <1>3 DEF _execute_one_target, SendCommand, Answered, RecordExecutions, run_commands_on_device_fails, CommitFails
  <2>2. UNCHANGED jobBudget \/ Spend("troubles") \/ Spend("faults")
    BY <1>3 DEF _execute_one_target, SendCommand, Answered, RecordExecutions, run_commands_on_device_fails, CommitFails
  <2> QED
    BY <2>1, <2>2, BudgetTyped
<1>4. ASSUME NEW j \in Jobs, Abandon(j) \/ run_checks(j) \/ run_audit(j) PROVE RestInv'
  BY <1>4 DEF Abandon, run_checks, run_audit
<1>5. ASSUME (\E d \in Devices : RemoveDevice(d)) \/ update_template \/ update_audit \/ JobsCrash PROVE RestInv'
  <2>1. /\ listed' \subseteq listed /\ UNCHANGED << member, job, broken >> /\ audit' \in (SUBSET CheckKeys) \cup {None}
        /\ Spend("edits") \/ Spend("faults")
    BY <1>5 DEF RemoveDevice, update_template, update_audit, JobsCrash
  <2> QED
    BY <2>1, BudgetTyped
<1>6. CASE UNCHANGED jobVars
  BY <1>6 DEF jobVars
<1> QED
  BY <1>1, <1>2, <1>3, <1>4, <1>5, <1>6 DEF JobNext, JobWork

\* Types: a job has the commands of a script that was there when it was created, whatever becomes of the
\* template, and the results of checks outlive devices, templates and audits.
THEOREM JobTypesHold == JobSpec => []JobTypes
<1>1. JobInit => RestInv
  <2>1. ASSUME JobInit PROVE RestInv
    BY <2>1 DEF JobInit, RestInv, NoJob
  <2> QED
    BY <2>1
<1>2. JobSpec => []JobInv
  BY JobsHold
<1>3. JobSpec => []RestInv
  BY <1>1, <1>2, RestStep, PTL DEF JobSpec
<1>4. ASSUME VerdictInv, RestInv PROVE JobTypes
  <2>1. job \in [Jobs -> [status : Ended \cup {"none", "PENDING", "RUNNING"}, commands : Scripts \cup {<<>>},
                          parallel : BOOLEAN]]
    BY <1>4 DEF VerdictInv, JobInv, JobShapes, RestInv, Entry
  <2>2. \A p \in Pairs : rows[p] \in Seq(Row) /\ session[p].got \in Seq(Row) /\ sent[p] \in Seq(Lines \cup {Show})
    BY <1>4 DEF VerdictInv, JobInv, JobShapes, Command
  <2>3. \A i \in DOMAIN batches : batches[i].job \in Jobs /\ batches[i].found \subseteq Verdict
    <3>1. batches \in Seq([job : Jobs, found : SUBSET Verdict])
      BY <1>4 DEF VerdictInv, BatchesInv
    <3>2. DOMAIN batches = 1 .. Len(batches)
      BY <3>1
    <3>3. \A i \in DOMAIN batches : batches[i] \in [job : Jobs, found : SUBSET Verdict]
      BY <3>1, <3>2, ElementIsOf
    <3> QED
      BY <3>3
  <2>4. /\ template \in Scripts \cup {None} /\ running \in [Devices -> SUBSET Lines]
        /\ target \in [Pairs -> {"none", "PENDING", "CONNECTING", "RUNNING", "COMPLETED", "FAILED"}]
        /\ task \in [Jobs -> {"none", "queued", "working", "over"}]
    BY <1>4 DEF VerdictInv, JobInv, JobShapes
  <2> QED
    BY <1>4, <2>1, <2>2, <2>3, <2>4 DEF JobTypes, RestInv
<1> QED
  BY <1>3, <1>4, VerdictsHold, PTL

=============================================================================
