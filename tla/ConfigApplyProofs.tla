-------------------------- MODULE ConfigApplyProofs --------------------------
(***************************************************************************)
(* Proofs about ConfigApply, for any set of requests, any texts, any       *)
(* faults, and applies that overlap in any way.                            *)
(*                                                                         *)
(* The version log is dense because of three facts that hold together: the *)
(* numbers in use are 1 .. k, no number is used twice, and the number a    *)
(* request has taken was the successor of one in use (or is 1).  Numbers   *)
(* are never given up, so the third fact survives whatever the other       *)
(* requests commit, and a number that is still free can only be k + 1.     *)
(***************************************************************************)
EXTENDS ConfigApply, Sequences, TLAPS

\* The requests that have read their version number.
Numbered == {"validate", "backup", "truncate", "write", "reload", "restart",
             "health", "commit",
             "rb_truncate", "rb_write", "rb_reload", "rb_restart"}

NumbersInterval == \E k \in Nat : Numbers = 1 .. k

NumbersUnique == \A v, w \in versions : v.number = w.number => v = w

NumbersTaken ==
  \A r \in Requests :
    pc[r] \in Numbered => num[r] # 0 /\ (num[r] = 1 \/ num[r] - 1 \in Numbers)

LogInv == TypeOK /\ NumbersInterval /\ NumbersUnique /\ NumbersTaken

\* What max(version_number) returns when the numbers are 1 .. k.
LEMMA LastNumberIs ==
  ASSUME TypeOK, NEW k \in Nat, Numbers = 1 .. k
  PROVE  LastNumber = k
<1>1. CASE versions = {}
  <2>1. Numbers = {}
    BY <1>1 DEF Numbers
  <2>2. k = 0
    BY <2>1
  <2>3. QED
    BY <1>1, <2>2 DEF LastNumber
<1>2. CASE versions # {}
  <2>1. Numbers # {}
    BY <1>2 DEF Numbers
  <2>2. k \in Numbers /\ \A m \in Numbers : m <= k
    BY <2>1
  <2>3. \A n \in Numbers : (\A m \in Numbers : m <= n) => n = k
    BY <2>2
  <2>4. QED
    BY <1>2, <2>2, <2>3 DEF LastNumber
<1>3. QED
  BY <1>1, <1>2

LEMMA LogInvInit == Init => LogInv
<1> SUFFICES ASSUME Init PROVE LogInv
  OBVIOUS
<1>1. TypeOK
  BY TextsAssumption DEF Init, TypeOK, AllTexts
<1>2. Numbers = 1 .. 0
  BY DEF Init, Numbers
<1>3. NumbersInterval /\ NumbersUnique /\ NumbersTaken
  BY <1>2 DEF Init, NumbersInterval, NumbersUnique, NumbersTaken, Numbered
<1>4. QED
  BY <1>1, <1>3 DEF LogInv

\* Every step that adds no row and takes no number keeps the three facts.
LEMMA LogUntouched ==
  ASSUME LogInv, TypeOK', UNCHANGED <<versions, num>>,
         \A r \in Requests : pc'[r] \in Numbered => pc[r] \in Numbered
  PROVE  LogInv'
<1>1. Numbers' = Numbers
  BY DEF Numbers
<1>2. QED
  BY <1>1 DEF LogInv, NumbersInterval, NumbersUnique, NumbersTaken

\* What any call to systemctl does to the daemon.
LEMMA DaemonType ==
  ASSUME TypeOK, UNCHANGED disk,
         LoadsFile \/ UNCHANGED daemon
  PROVE  proc' \in {"serving", "parsing", "dead"} /\ running' \in AllTexts
BY DEF LoadsFile, ReadsConfig, DiesWithoutFile, Settled, daemon, TypeOK

\* Following one request from a label to the next, without taking a number.
LEMMA GotoStep ==
  ASSUME TypeOK, NEW r \in Requests,
         NEW from, NEW to \in {"idle"} \cup Working \cup Ended,
         pc[r] = from, Goto(r, to), to \in Numbered => from \in Numbered
  PROVE  /\ pc' \in [Requests -> {"idle"} \cup Working \cup Ended]
         /\ \A q \in Requests : pc'[q] \in Numbered => pc[q] \in Numbered
BY DEF Goto, TypeOK

LEMMA ArrivalStep ==
  ASSUME LogInv, NEW r \in Requests, Arrival(r)
  PROVE  LogInv'
<1>1. PICK t \in AllTexts, label \in {"compiled", "read_active"} :
        Arrives(r, t, label)
  BY DEF Arrival, apply_config, restore_version, apply_import, AllTexts,
         LogInv, TypeOK, Row
<1>2. /\ pc' \in [Requests -> {"idle"} \cup Working \cup Ended]
      /\ \A q \in Requests : pc'[q] \in Numbered => pc[q] \in Numbered
  BY <1>1, GotoStep DEF Arrives, LogInv, Working, Numbered
<1>3. TypeOK'
  BY <1>1, <1>2 DEF Arrives, LogInv, TypeOK, daemon
<1>4. QED
  BY <1>1, <1>2, <1>3, LogUntouched DEF Arrives

LEMMA NextVersionNumberStep ==
  ASSUME LogInv, NEW r \in Requests, next_version_number(r)
  PROVE  LogInv'
<1> USE DEF LogInv
<1>1. PICK k \in Nat : Numbers = 1 .. k
  BY DEF NumbersInterval
<1>2. LastNumber = k
  BY <1>1, LastNumberIs
<1>3. Numbers' = Numbers /\ versions' = versions
  BY DEF next_version_number, Numbers
<1>4. num' = [num EXCEPT ![r] = k + 1]
  BY <1>2 DEF next_version_number
<1>5. pc' \in [Requests -> {"idle"} \cup Working \cup Ended]
  BY DEF next_version_number, Goto, TypeOK, Working
<1>6. TypeOK'
  <2>1. num' \in [Requests -> Nat]
    BY <1>4 DEF TypeOK
  <2>2. QED
    BY <2>1, <1>5 DEF next_version_number, TypeOK, daemon
<1>7. NumbersInterval' /\ NumbersUnique'
  BY <1>3 DEF NumbersInterval, NumbersUnique
<1>8. NumbersTaken'
  <2> SUFFICES ASSUME NEW q \in Requests, pc'[q] \in Numbered
               PROVE  num'[q] # 0 /\ (num'[q] = 1 \/ num'[q] - 1 \in Numbers)
    BY <1>3 DEF NumbersTaken
  <2>1. CASE q = r
    <3>1. num'[q] = k + 1
      BY <2>1, <1>4 DEF TypeOK
    <3>2. k + 1 # 0 /\ (k + 1 = 1 \/ k + 1 - 1 \in 1 .. k)
      OBVIOUS
    <3>3. QED
      BY <3>1, <3>2, <1>1
  <2>2. CASE q # r
    BY <2>2, <1>4 DEF next_version_number, Goto, TypeOK, NumbersTaken
  <2>3. QED
    BY <2>1, <2>2
<1>9. QED
  BY <1>6, <1>7, <1>8

LEMMA RecordVersionStep ==
  ASSUME LogInv, NEW r \in Requests, RecordVersion(r)
  PROVE  LogInv'
<1> USE DEF LogInv
<1> DEFINE row == [number |-> num[r], content |-> text[r], by |-> r]
<1>1. /\ pc' \in [Requests -> {"idle"} \cup Working \cup Ended]
      /\ \A q \in Requests : pc'[q] \in Numbered => pc[q] \in Numbered
  <2>1. PICK to \in {"applied", "conflict"} : Goto(r, to) /\ pc[r] = "commit"
    BY DEF RecordVersion
  <2>2. QED
    BY <2>1, GotoStep DEF Ended, Numbered
<1>2. CASE num[r] \in Numbers /\ UNCHANGED versions
  <2>1. TypeOK'
    BY <1>1, <1>2 DEF RecordVersion, TypeOK, daemon, locals
  <2>2. QED
    BY <1>1, <1>2, <2>1, LogUntouched DEF RecordVersion, locals
<1>3. CASE num[r] \notin Numbers /\ versions' = versions \cup {row}
  <2>1. row \in Row
    BY DEF TypeOK, Row
  <2>2. TypeOK'
    BY <1>1, <1>3, <2>1 DEF RecordVersion, TypeOK, daemon, locals
  <2>3. Numbers' = Numbers \cup {num[r]}
    <3>1. row.number = num[r]
      OBVIOUS
    <3> HIDE DEF row
    <3>2. {v.number : v \in versions \cup {row}}
            = {v.number : v \in versions} \cup {row.number}
      OBVIOUS
    <3>3. QED
      BY <1>3, <3>1, <3>2 DEF Numbers
  <2>4. PICK k \in Nat : Numbers = 1 .. k
    BY DEF NumbersInterval
  <2>5. num[r] = k + 1
    <3>1. num[r] \in Nat /\ num[r] # 0
          /\ (num[r] = 1 \/ num[r] - 1 \in Numbers)
      BY DEF RecordVersion, Numbered, NumbersTaken, TypeOK
    <3>2. QED
      BY <3>1, <2>4, <1>3
  <2>6. Numbers' = 1 .. (k + 1)
    BY <2>3, <2>4, <2>5
  <2>7. NumbersInterval'
    BY <2>6 DEF NumbersInterval
  <2>8. NumbersUnique'
    <3>1. \A v \in versions : v.number # num[r]
      BY <1>3 DEF Numbers
    <3>2. QED
      BY <1>3, <3>1 DEF NumbersUnique
  <2>9. NumbersTaken'
    BY <1>1, <2>3 DEF NumbersTaken, RecordVersion, locals
  <2>10. QED
    BY <2>2, <2>7, <2>8, <2>9
<1>4. QED
  BY <1>2, <1>3 DEF RecordVersion

\* The steps of a request that neither take a number nor add a row.
OtherStep(r) ==
  \/ CheckPending(r) \/ ReadPreviousActive(r) \/ validate_candidate(r)
  \/ backup_active(r) \/ TruncateFile(r) \/ FillFile(r)
  \/ reload(r) \/ restart(r) \/ HealthCheck(r)
  \/ rollback_reload(r) \/ rollback_restart(r)

\* Where such a step takes the request.
LEMMA OtherStepGoto ==
  ASSUME NEW r \in Requests, OtherStep(r)
  PROVE  \E to \in Working \cup Ended :
           Goto(r, to) /\ (to \in Numbered => pc[r] \in Numbered)
<1> USE DEF Working, Ended, Numbered
<1>1. CASE CheckPending(r)
  BY <1>1 DEF CheckPending
<1>2. CASE ReadPreviousActive(r)
  BY <1>2 DEF ReadPreviousActive
<1>3. CASE validate_candidate(r)
  BY <1>3 DEF validate_candidate
<1>4. CASE backup_active(r)
  BY <1>4 DEF backup_active
<1>5. CASE TruncateFile(r)
  BY <1>5 DEF TruncateFile
<1>6. CASE FillFile(r)
  BY <1>6 DEF FillFile
<1>7. CASE reload(r)
  BY <1>7 DEF reload
<1>8. CASE restart(r)
  BY <1>8 DEF restart
<1>9. CASE HealthCheck(r)
  BY <1>9 DEF HealthCheck
<1>10. CASE rollback_reload(r)
  BY <1>10 DEF rollback_reload
<1>11. CASE rollback_restart(r)
  BY <1>11 DEF rollback_restart
<1>12. QED
  BY <1>1, <1>2, <1>3, <1>4, <1>5, <1>6, <1>7, <1>8, <1>9, <1>10, <1>11
     DEF OtherStep

LEMMA OtherStepStep ==
  ASSUME LogInv, NEW r \in Requests, OtherStep(r)
  PROVE  LogInv'
<1> USE DEF LogInv
<1>1. PICK to \in Working \cup Ended :
        Goto(r, to) /\ (to \in Numbered => pc[r] \in Numbered)
  BY OtherStepGoto
<1>2. /\ pc' \in [Requests -> {"idle"} \cup Working \cup Ended]
      /\ \A q \in Requests : pc'[q] \in Numbered => pc[q] \in Numbered
  BY <1>1, GotoStep
<1>3. UNCHANGED <<versions, num, text>>
  BY DEF OtherStep, CheckPending, ReadPreviousActive, validate_candidate,
         backup_active, TruncateFile, FillFile, reload, restart, HealthCheck,
         rollback_reload, rollback_restart, locals
<1>4. prev' \in [Requests -> AllTexts]
  <2>1. ActiveText \in AllTexts
    BY DEF ActiveText, TypeOK, AllTexts
  <2>2. CASE ReadPreviousActive(r)
    BY <2>1, <2>2 DEF ReadPreviousActive, TypeOK
  <2>3. CASE ~ReadPreviousActive(r)
    BY <2>3 DEF OtherStep, CheckPending, validate_candidate,
         backup_active, TruncateFile, FillFile, reload, restart, HealthCheck,
         rollback_reload, rollback_restart, locals, TypeOK
  <2>4. QED
    BY <2>2, <2>3
<1>5. disk' \in AllTexts \cup {NoFile}
  BY DEF OtherStep, CheckPending, ReadPreviousActive, validate_candidate,
         backup_active, TruncateFile, FillFile, reload, restart, HealthCheck,
         rollback_reload, rollback_restart, TypeOK, AllTexts
<1>6. backups' \subseteq Backup
  <2>1. CASE backup_active(r)
    <3>1. num[r] - 1 \in Nat
      BY <2>1 DEF backup_active, NumbersTaken, Numbered, TypeOK
    <3>2. disk # NoFile => disk \in AllTexts
      BY DEF TypeOK
    <3>3. disk # NoFile
            => [number |-> num[r] - 1, content |-> disk] \in Backup
      BY <3>1, <3>2 DEF Backup
    <3>4. QED
      BY <2>1, <3>3 DEF backup_active, TypeOK
  <2>2. CASE ~backup_active(r)
    BY <2>2 DEF OtherStep, CheckPending, ReadPreviousActive,
         validate_candidate, TruncateFile, FillFile, reload, restart,
         HealthCheck, rollback_reload, rollback_restart, TypeOK
  <2>3. QED
    BY <2>1, <2>2
<1>7. proc' \in {"serving", "parsing", "dead"} /\ running' \in AllTexts
  <2>1. CASE UNCHANGED daemon
    BY <2>1 DEF daemon, TypeOK
  <2>2. CASE UNCHANGED disk /\ LoadsFile
    BY <2>2, DaemonType
  <2>3. QED
    BY <2>1, <2>2 DEF OtherStep, CheckPending, ReadPreviousActive,
         validate_candidate, backup_active, TruncateFile, FillFile, reload,
         restart, HealthCheck, rollback_reload, rollback_restart,
         ReloadDone, ReloadRefused, RestartDone, RestartRefused, TimesOut
<1>8. TypeOK'
  BY <1>2, <1>3, <1>4, <1>5, <1>6, <1>7 DEF TypeOK
<1>9. QED
  BY <1>2, <1>3, <1>8, LogUntouched

LEMMA EnvironmentStep ==
  ASSUME LogInv, Environment
  PROVE  LogInv'
<1> USE DEF LogInv
<1>1. CASE DaemonSettles
  <2>1. TypeOK'
    BY <1>1 DEF DaemonSettles, Settled, TypeOK, locals
  <2>2. QED
    BY <1>1, <2>1, LogUntouched DEF DaemonSettles, locals
<1>2. CASE SystemdRestarts
  <2>1. TypeOK'
    BY <1>2, DaemonType DEF SystemdRestarts, LoadsFile, TypeOK, locals
  <2>2. QED
    BY <1>2, <2>1, LogUntouched DEF SystemdRestarts, locals
<1>3. CASE DaemonDies
  <2>1. TypeOK'
    BY <1>3 DEF DaemonDies, TypeOK, locals
  <2>2. QED
    BY <1>3, <2>1, LogUntouched DEF DaemonDies, locals
<1>4. CASE Crash
  <2>1. TypeOK'
    BY <1>4 DEF Crash, TypeOK, locals, daemon, Ended
  <2>2. \A q \in Requests : pc'[q] \in Numbered => pc[q] \in Numbered
    BY <1>4 DEF Crash, Numbered
  <2>3. QED
    BY <1>4, <2>1, <2>2, LogUntouched DEF Crash, locals
<1>5. CASE HandEdit
  <2>1. TypeOK'
    BY <1>5 DEF HandEdit, TypeOK, locals, daemon
  <2>2. QED
    BY <1>5, <2>1, LogUntouched DEF HandEdit, locals
<1>6. QED
  BY <1>1, <1>2, <1>3, <1>4, <1>5 DEF Environment

LEMMA LogInvStep == LogInv /\ [Next]_vars => LogInv'
<1> SUFFICES ASSUME LogInv, [Next]_vars PROVE LogInv'
  OBVIOUS
<1>1. CASE UNCHANGED vars
  BY <1>1 DEF vars, LogInv, TypeOK, NumbersInterval, NumbersUnique,
              NumbersTaken, Numbers
<1>2. ASSUME NEW r \in Requests, Arrival(r)
      PROVE  LogInv'
  BY <1>2, ArrivalStep
<1>3. ASSUME NEW r \in Requests, Proceed(r)
      PROVE  LogInv'
  BY <1>3, NextVersionNumberStep, RecordVersionStep, OtherStepStep
     DEF Proceed, OtherStep
<1>4. CASE Environment
  BY <1>4, EnvironmentStep
<1>5. QED
  BY <1>1, <1>2, <1>3, <1>4 DEF Next

LEMMA LogInvariant == Spec => []LogInv
  BY LogInvInit, LogInvStep, PTL DEF Spec

\* Type correctness: every variable keeps its type, in particular the backup
\* of version n-1 never has a negative number.
THEOREM TypeCorrectness == Spec => []TypeOK
<1>1. LogInv => TypeOK
  BY DEF LogInv
<1>2. QED
  BY <1>1, LogInvariant, PTL

\* The version log is dense and free of duplicates, for any number of
\* administrators applying, restoring and importing at once, with crashes,
\* timeouts and hand edits.
THEOREM VersionLogDense == Spec => []NumbersDense
<1>1. LogInv => NumbersDense
  <2> SUFFICES ASSUME LogInv, NEW v \in versions
               PROVE  /\ 1 .. v.number \subseteq Numbers
                      /\ \A w \in versions : w.number = v.number => w = v
    BY DEF NumbersDense
  <2>1. PICK k \in Nat : Numbers = 1 .. k
    BY DEF LogInv, NumbersInterval
  <2>2. v.number \in 1 .. k
    BY <2>1 DEF Numbers
  <2>3. QED
    BY <2>1, <2>2 DEF LogInv, NumbersUnique
<1>2. QED
  BY <1>1, LogInvariant, PTL

-----------------------------------------------------------------------------
(* The version table, read as a sequence, only grows at its end.           *)

\* The content found under a number is that of any row with the number.
LEMMA ContentOfRow ==
  ASSUME NumbersUnique, NEW v \in versions
  PROVE  ContentOf(v.number) = v.content
BY DEF ContentOf, NumbersUnique

LEMMA LogInit == Init => Log = <<>>
<1> SUFFICES ASSUME Init PROVE Log = <<>>
  OBVIOUS
<1>1. LastNumber = 0
  BY DEF Init, LastNumber
<1>2. QED
  BY <1>1 DEF Log

LEMMA LogGrows ==
  ASSUME LogInv, LogInv', NEW r \in Requests, num[r] \notin Numbers,
         pc[r] = "commit",
         versions' = versions \cup
           {[number |-> num[r], content |-> text[r], by |-> r]}
  PROVE  Log' = Append(Log, text[r])
<1> DEFINE row == [number |-> num[r], content |-> text[r], by |-> r]
<1>1. PICK k \in Nat : Numbers = 1 .. k
  BY DEF LogInv, NumbersInterval
<1>2. PICK j \in Nat : Numbers' = 1 .. j
  BY DEF LogInv, NumbersInterval
<1>3. row.number = num[r] /\ row.content = text[r] /\ row \in versions'
  OBVIOUS
<1>4. num[r] = k + 1
  <2>1. num[r] \in Nat /\ num[r] # 0 /\ (num[r] = 1 \/ num[r] - 1 \in Numbers)
    BY DEF LogInv, NumbersTaken, TypeOK, Numbered
  <2>2. QED
    BY <2>1, <1>1
<1>5. \A n \in Numbers' : n \in Numbers \/ n = k + 1
  <2> HIDE DEF row
  <2>1. QED
    BY <1>3, <1>4 DEF Numbers, row
<1>6. k + 1 \in Numbers'
  BY <1>3, <1>4 DEF Numbers
<1>7. j = k + 1
  BY <1>1, <1>2, <1>5, <1>6
<1>8. LastNumber = k
  BY <1>1, LastNumberIs DEF LogInv
<1>9. LastNumber' = k + 1
  <2>1. \A n \in Numbers' : (\A m \in Numbers' : m <= n) => n = k + 1
    BY <1>2, <1>7
  <2>2. k + 1 \in Numbers' /\ \A m \in Numbers' : m <= k + 1
    BY <1>2, <1>7
  <2>3. versions' # {}
    BY <1>3
  <2>4. QED
    BY <2>1, <2>2, <2>3 DEF LastNumber
<1>10. \A n \in 1 .. k : ContentOf(n)' = ContentOf(n)
  <2> SUFFICES ASSUME NEW n \in 1 .. k
               PROVE  ContentOf(n)' = ContentOf(n)
    OBVIOUS
  <2>1. PICK v \in versions : v.number = n
    BY <1>1 DEF Numbers
  <2>2. ContentOf(n) = v.content
    BY <2>1, ContentOfRow DEF LogInv
  <2>3. v \in versions' /\ \A w \in versions' : w.number = n => w = v
    BY <2>1 DEF LogInv, NumbersUnique
  <2>4. ContentOf(n)' = v.content
    BY <2>1, <2>3 DEF ContentOf
  <2>5. QED
    BY <2>2, <2>4
<1>11. ContentOf(k + 1)' = text[r]
  <2>1. \A w \in versions' : w.number = k + 1 => w = row
    BY <1>3, <1>4 DEF LogInv, NumbersUnique
  <2> HIDE DEF row
  <2>2. ContentOf(k + 1)' = row.content
    BY <2>1, <1>3, <1>4 DEF ContentOf
  <2>3. QED
    BY <2>2, <1>3
<1>12. Log = [n \in 1 .. k |-> ContentOf(n)]
  BY <1>8 DEF Log
<1>13. Log' = [n \in 1 .. k + 1 |-> ContentOf(n)']
  BY <1>9 DEF Log
<1>14. Log' = [n \in 1 .. k + 1 |-> IF n = k + 1 THEN text[r]
                                    ELSE ContentOf(n)]
  BY <1>13, <1>10, <1>11
<1>15. QED
  BY <1>12, <1>14

LEMMA LogStep ==
  ASSUME LogInv, LogInv', [Next]_vars
  PROVE  Log' = Log \/ \E t \in AllTexts : Log' = Append(Log, t)
<1>1. CASE UNCHANGED versions
  BY <1>1 DEF Log, LastNumber, ContentOf, Numbers
<1>2. ASSUME NEW r \in Requests, RecordVersion(r), versions' # versions
      PROVE  \E t \in AllTexts : Log' = Append(Log, t)
  <2>1. Log' = Append(Log, text[r])
    BY <1>2, LogGrows DEF RecordVersion
  <2>2. text[r] \in AllTexts
    BY DEF LogInv, TypeOK
  <2>3. QED
    BY <2>1, <2>2
<1>3. versions' = versions \/ \E r \in Requests : RecordVersion(r)
  BY DEF Next, vars, Arrival, apply_config, restore_version, apply_import,
         Arrives, Proceed, CheckPending, ReadPreviousActive,
         next_version_number, validate_candidate, backup_active, TruncateFile,
         FillFile, reload, restart, HealthCheck, rollback_reload,
         rollback_restart, Environment, DaemonSettles, SystemdRestarts,
         DaemonDies, Crash, HandEdit
<1>4. QED
  BY <1>1, <1>2, <1>3

\* Whatever overlaps and whatever fails, the version table implements an
\* append-only log: a row once recorded keeps its number and its content.
THEOREM VersionLogAppendOnly == Spec => LogIsAppendOnly
<1>1. Init => Log = <<>>
  BY LogInit
<1>2. LogInv /\ LogInv' /\ [Next]_vars
        => [\E t \in AllTexts : Log' = Append(Log, t)]_Log
  BY LogStep
<1>3. QED
  BY <1>1, <1>2, LogInvariant, PTL DEF Spec, LogIsAppendOnly, History!LogSpec
-----------------------------------------------------------------------------
(***************************************************************************)
(* When administrators take turns and no call times out, nothing crashes   *)
(* and nobody edits the file by hand, apply_candidate with _rollback       *)
(* implements ConfigHistory: for any number of requests and any texts,     *)
(* good or bad, whether or not the daemon dies, is slow, or sudo refuses.  *)
(*                                                                         *)
(* The argument: the text that stands is always that of the last version   *)
(* (Last).  An apply that touches the file holds Last in previous_active;  *)
(* the file is the candidate from the write until the row is inserted, and *)
(* previous_active again before a rollback ends.                           *)
(***************************************************************************)
TakeTurns == Exclusive /\ Faults \cap {"crash", "timeout", "handedit"} = {}

Last == IF versions = {} THEN Initial ELSE ContentOf(LastNumber)

\* previous_active has been read, the file has not been touched
Prepared == {"number", "validate", "backup", "truncate"}

AloneInFlight ==
  \A q, r \in Requests : pc[q] \in Working /\ pc[r] \in Working => q = r

FileStands == (\A r \in Requests : pc[r] \notin Touching) => disk = Last

PreviousStands ==
  \A r \in Requests : pc[r] \in Prepared \cup Touching => prev[r] = Last

FileWritten ==
  \A r \in Requests :
    /\ pc[r] \in {"reload", "restart", "health", "commit"} => disk = text[r]
    /\ pc[r] \in {"rb_reload", "rb_restart"} => disk = prev[r]

NumberFree == \A r \in Requests : pc[r] \in Numbered => num[r] \notin Numbers

SerialInv ==
  /\ disk \in AllTexts
  /\ AloneInFlight /\ FileStands /\ PreviousStands /\ FileWritten
  /\ NumberFree

LEMMA SerialInit == Init => SerialInv
<1> SUFFICES ASSUME Init PROVE SerialInv
  OBVIOUS
<1>1. disk = Last /\ disk \in AllTexts
  BY TextsAssumption DEF Init, Last, AllTexts
<1>2. \A r \in Requests : pc[r] = "idle"
  BY DEF Init
<1>3. QED
  BY <1>1, <1>2 DEF SerialInv, AloneInFlight, FileStands, PreviousStands,
     FileWritten, NumberFree, Working, Touching, Prepared, Numbered

\* A request in flight is the only one: its steps concern nobody else.
LEMMA SoloStep ==
  ASSUME LogInv, SerialInv, NEW r \in Requests, pc[r] \in Working,
         NEW to, Goto(r, to)
  PROVE  /\ pc'[r] = to
         /\ \A q \in Requests : q # r => pc'[q] \notin Working
         /\ AloneInFlight'
BY DEF Goto, SerialInv, AloneInFlight, LogInv, TypeOK

\* While the version table stays, so does the text of the last version.
LEMMA LastStays ==
  ASSUME UNCHANGED versions
  PROVE  Last' = Last /\ Numbers' = Numbers /\ LastNumber' = LastNumber
BY DEF Last, LastNumber, ContentOf, Numbers

LEMMA SerialArrival ==
  ASSUME TakeTurns, LogInv, SerialInv, NEW r \in Requests, Arrival(r)
  PROVE  SerialInv'
<1>1. PICK t \in AllTexts, label \in {"compiled", "read_active"} :
        Arrives(r, t, label)
  BY DEF Arrival, apply_config, restore_version, apply_import, AllTexts,
         LogInv, TypeOK, Row
<1>2. \A q \in Requests : pc[q] \notin Working
  BY <1>1 DEF Arrives, TakeTurns, InFlight
<1>3. pc'[r] = label /\ \A q \in Requests : q # r => pc'[q] \notin Working
  BY <1>1, <1>2 DEF Arrives, Goto, LogInv, TypeOK
<1>4. UNCHANGED <<disk, versions>>
  BY <1>1 DEF Arrives
<1>5. \A q \in Requests : pc[q] \notin Touching
  BY <1>2 DEF Touching, Working
<1>6. \A q \in Requests : pc'[q] \notin Prepared \cup Touching \cup Numbered
  BY <1>3 DEF Touching, Working, Prepared, Numbered
<1>7. QED
  BY <1>3, <1>4, <1>5, <1>6, LastStays
     DEF SerialInv, AloneInFlight, FileStands, PreviousStands, FileWritten,
         NumberFree, Touching, Prepared, Numbered

LEMMA SerialCheckPending ==
  ASSUME LogInv, SerialInv, NEW r \in Requests, CheckPending(r)
  PROVE  SerialInv'
<1>1. PICK to \in {"no_change", "read_active"} : Goto(r, to)
  BY DEF CheckPending
<1>2. /\ pc[r] = "compiled" /\ pc'[r] = to
      /\ \A q \in Requests : q # r => pc'[q] \notin Working
      /\ AloneInFlight'
  BY <1>1, SoloStep DEF CheckPending, Working
<1>3. UNCHANGED <<disk, versions, text, prev, num>>
  BY DEF CheckPending, locals
<1>4. \A q \in Requests : pc[q] \notin Touching
  BY <1>2 DEF SerialInv, AloneInFlight, Touching, Working
<1>5. \A q \in Requests : pc'[q] \notin Prepared \cup Touching \cup Numbered
  BY <1>2 DEF Touching, Working, Prepared, Numbered
<1>6. QED
  BY <1>2, <1>3, <1>4, <1>5, LastStays
     DEF SerialInv, FileStands, PreviousStands, FileWritten, NumberFree,
         Touching, Prepared, Numbered

LEMMA SerialReadPrevious ==
  ASSUME LogInv, SerialInv, NEW r \in Requests, ReadPreviousActive(r)
  PROVE  SerialInv'
<1>1. /\ pc[r] = "read_active" /\ pc'[r] = "number"
      /\ \A q \in Requests : q # r => pc'[q] \notin Working
      /\ AloneInFlight'
  BY SoloStep DEF ReadPreviousActive, Working
<1>2. UNCHANGED <<disk, versions, text, num>>
  BY DEF ReadPreviousActive
<1>3. \A q \in Requests : pc[q] \notin Touching
  BY <1>1 DEF SerialInv, AloneInFlight, Touching, Working
<1>4. disk = Last
  BY <1>3 DEF SerialInv, FileStands
<1>5. prev'[r] = Last
  <2>1. ActiveText = disk
    BY TextsAssumption DEF SerialInv, ActiveText
  <2>2. QED
    BY <2>1, <1>4 DEF ReadPreviousActive, LogInv, TypeOK
<1>6. \A q \in Requests : pc'[q] \notin Touching \cup Numbered
  BY <1>1 DEF Touching, Working, Numbered
<1>7. \A q \in Requests : q # r => pc'[q] \notin Prepared
  BY <1>1 DEF Working, Prepared
<1>8. QED
  BY <1>1, <1>2, <1>4, <1>5, <1>6, <1>7, LastStays
     DEF SerialInv, FileStands, PreviousStands, FileWritten, NumberFree,
         Touching, Numbered

LEMMA SerialNumber ==
  ASSUME LogInv, SerialInv, NEW r \in Requests, next_version_number(r)
  PROVE  SerialInv'
<1>1. /\ pc[r] = "number" /\ pc'[r] = "validate"
      /\ \A q \in Requests : q # r => pc'[q] \notin Working
      /\ AloneInFlight'
  BY SoloStep DEF next_version_number, Working
<1>2. UNCHANGED <<disk, versions, text, prev>>
  BY DEF next_version_number
<1>3. num'[r] \notin Numbers
  <2>1. PICK k \in Nat : Numbers = 1 .. k
    BY DEF LogInv, NumbersInterval
  <2>2. num'[r] = k + 1
    BY <2>1, LastNumberIs DEF LogInv, next_version_number, TypeOK
  <2>3. QED
    BY <2>1, <2>2
<1>4. \A q \in Requests : pc[q] \notin Touching
  BY <1>1 DEF SerialInv, AloneInFlight, Touching, Working
<1>5. disk = Last /\ prev[r] = Last
  BY <1>1, <1>4 DEF SerialInv, FileStands, PreviousStands, Prepared
<1>6. \A q \in Requests : q # r => pc'[q] \notin Prepared \cup Touching \cup Numbered
  BY <1>1 DEF Working, Prepared, Touching, Numbered
<1>7. QED
  BY <1>1, <1>2, <1>3, <1>5, <1>6, LastStays
     DEF SerialInv, FileStands, PreviousStands, FileWritten, NumberFree,
         Touching, Numbered

\* From the validation to the backup nothing but the label changes here.
LEMMA SerialPrepare ==
  ASSUME LogInv, SerialInv, NEW r \in Requests,
         validate_candidate(r) \/ backup_active(r)
  PROVE  SerialInv'
<1>1. PICK to \in {"backup", "invalid", "truncate"} :
        Goto(r, to) /\ pc[r] \in {"validate", "backup"}
  BY DEF validate_candidate, backup_active
<1>2. /\ pc'[r] = to
      /\ \A q \in Requests : q # r => pc'[q] \notin Working
      /\ AloneInFlight'
  BY <1>1, SoloStep DEF Working
<1>3. UNCHANGED <<disk, versions, text, prev, num>>
  BY DEF validate_candidate, backup_active, locals
<1>4. \A q \in Requests : pc[q] \notin Touching
  BY <1>1 DEF SerialInv, AloneInFlight, Touching, Working
<1>5. disk = Last /\ prev[r] = Last /\ num[r] \notin Numbers
  BY <1>1, <1>4
     DEF SerialInv, FileStands, PreviousStands, NumberFree, Prepared, Numbered
<1>6. \A q \in Requests : q # r => pc'[q] \notin Prepared \cup Touching \cup Numbered
  BY <1>2 DEF Working, Prepared, Touching, Numbered
<1>7. QED
  BY <1>2, <1>3, <1>5, <1>6, LastStays
     DEF SerialInv, FileStands, PreviousStands, FileWritten, NumberFree,
         Touching, Numbered

\* Writing the file, forth or back.
LEMMA SerialWrite ==
  ASSUME LogInv, SerialInv, NEW r \in Requests, TruncateFile(r) \/ FillFile(r)
  PROVE  SerialInv'
<1>1. PICK to \in {"write", "rb_write", "reload", "rb_reload"} :
        /\ Goto(r, to)
        /\ pc[r] \in {"truncate", "rb_truncate", "write", "rb_write"}
        /\ to = "reload" => disk' = text[r]
        /\ to = "rb_reload" => disk' = prev[r]
  BY DEF TruncateFile, FillFile
<1>2. /\ pc'[r] = to
      /\ \A q \in Requests : q # r => pc'[q] \notin Working
      /\ AloneInFlight'
  BY <1>1, SoloStep DEF Working
<1>3. UNCHANGED <<versions, text, prev, num>>
  BY DEF TruncateFile, FillFile, locals
<1>4. disk' \in AllTexts
  BY DEF TruncateFile, FillFile, AllTexts, LogInv, TypeOK
<1>5. prev[r] = Last /\ num[r] \notin Numbers
  BY <1>1 DEF SerialInv, PreviousStands, NumberFree, Prepared, Touching,
              Numbered
<1>6. pc'[r] \in Touching
  BY <1>2 DEF Touching
<1>7. \A q \in Requests : q # r => pc'[q] \notin Prepared \cup Touching \cup Numbered
  BY <1>2 DEF Working, Prepared, Touching, Numbered
<1>8. FileWritten'
  BY <1>1, <1>2, <1>3, <1>7 DEF FileWritten, Touching
<1>9. QED
  BY <1>2, <1>3, <1>4, <1>5, <1>6, <1>7, <1>8, LastStays
     DEF SerialInv, FileStands, PreviousStands, NumberFree

\* The calls to systemctl: the file stays, so a rollback ends with it back.
LEMMA SerialService ==
  ASSUME TakeTurns, LogInv, SerialInv, NEW r \in Requests,
         \/ reload(r) \/ restart(r) \/ HealthCheck(r)
         \/ rollback_reload(r) \/ rollback_restart(r)
  PROVE  SerialInv'
<1>1. "timeout" \notin Faults
  BY DEF TakeTurns
<1>2. PICK to \in {"health", "restart", "rb_truncate", "commit", "rb_restart",
                   "rolled_back"} :
        /\ Goto(r, to)
        /\ to \in {"restart", "health", "commit", "rb_truncate"}
             => pc[r] \in {"reload", "restart", "health"}
        /\ to \in {"rb_restart", "rolled_back"}
             => pc[r] \in {"rb_reload", "rb_restart"}
  BY <1>1 DEF reload, restart, HealthCheck, rollback_reload,
              rollback_restart, TimesOut
<1>3. /\ pc'[r] = to
      /\ pc[r] \in Touching
      /\ \A q \in Requests : q # r => pc'[q] \notin Working
      /\ AloneInFlight'
  BY <1>2, SoloStep DEF Working, Touching
<1>4. UNCHANGED <<disk, versions, text, prev, num>>
  BY DEF reload, restart, HealthCheck, rollback_reload, rollback_restart,
         locals
<1>5. prev[r] = Last /\ num[r] \notin Numbers
  BY <1>2, <1>3 DEF SerialInv, PreviousStands, NumberFree, Touching, Numbered
<1>6. \A q \in Requests : q # r => pc'[q] \notin Prepared \cup Touching \cup Numbered
  BY <1>3 DEF Working, Prepared, Touching, Numbered
<1>7. FileWritten'
  BY <1>2, <1>3, <1>4, <1>6 DEF SerialInv, FileWritten, Touching
<1>8. FileStands'
  <2>1. CASE to = "rolled_back"
    BY <1>2, <1>4, <1>5, <2>1, LastStays DEF SerialInv, FileWritten, FileStands
  <2>2. CASE to # "rolled_back"
    BY <1>3, <2>2 DEF FileStands, Touching
  <2>3. QED
    BY <2>1, <2>2
<1>9. QED
  BY <1>3, <1>4, <1>5, <1>6, <1>7, <1>8, LastStays
     DEF SerialInv, PreviousStands, NumberFree

\* A row that is inserted becomes the last version.
LEMMA RecordedIsLast ==
  ASSUME LogInv, LogInv', NEW r \in Requests, num[r] \notin Numbers,
         pc[r] = "commit",
         versions' = versions \cup
           {[number |-> num[r], content |-> text[r], by |-> r]}
  PROVE  Last' = text[r]
<1>1. PICK k \in Nat : Numbers = 1 .. k
  BY DEF LogInv, NumbersInterval
<1>2. PICK j \in Nat : Numbers' = 1 .. j
  BY DEF LogInv, NumbersInterval
<1>3. LastNumber = k
  BY <1>1, LastNumberIs DEF LogInv
<1>4. LastNumber' = j
  <2>1. versions' # {} /\ Numbers' # {}
    BY DEF Numbers
  <2>2. j \in Numbers' /\ \A m \in Numbers' : m <= j
    BY <1>2, <2>1
  <2>3. \A n \in Numbers' : (\A m \in Numbers' : m <= n) => n = j
    BY <2>2, <1>2
  <2>4. QED
    BY <2>1, <2>2, <2>3 DEF LastNumber
<1>5. Log' = Append(Log, text[r])
  BY LogGrows
<1>6. Log = [n \in 1 .. k |-> ContentOf(n)]
  BY <1>3 DEF Log
<1>7. Log' = [n \in 1 .. j |-> ContentOf(n)']
  BY <1>4 DEF Log
<1>8. j = k + 1 /\ Log'[k + 1] = text[r]
  <2>1. Log' = [n \in 1 .. k + 1 |-> IF n = k + 1 THEN text[r]
                                     ELSE ContentOf(n)]
    BY <1>5, <1>6
  <2>2. DOMAIN Log' = 1 .. k + 1 /\ DOMAIN Log' = 1 .. j
    BY <2>1, <1>7
  <2>3. j = k + 1
    BY <2>2
  <2>4. QED
    BY <2>1, <2>3
<1>9. ContentOf(k + 1)' = text[r]
  BY <1>7, <1>8
<1>10. versions' # {}
  OBVIOUS
<1>11. QED
  BY <1>4, <1>8, <1>9, <1>10 DEF Last

LEMMA SerialRecord ==
  ASSUME LogInv, LogInv', SerialInv, NEW r \in Requests, RecordVersion(r)
  PROVE  SerialInv' /\ Last' = text[r] /\ Log' = Append(Log, text[r])
<1>1. pc[r] = "commit" /\ num[r] \notin Numbers
  BY DEF RecordVersion, SerialInv, NumberFree, Numbered
<1>2. /\ Goto(r, "applied")
      /\ versions' = versions \cup
           {[number |-> num[r], content |-> text[r], by |-> r]}
  BY <1>1 DEF RecordVersion
<1>3. Last' = text[r] /\ Log' = Append(Log, text[r])
  BY <1>1, <1>2, RecordedIsLast, LogGrows
<1>4. /\ pc'[r] = "applied"
      /\ \A q \in Requests : q # r => pc'[q] \notin Working
      /\ AloneInFlight'
  BY <1>1, <1>2, SoloStep DEF Working
<1>5. disk' = text[r] /\ disk' = disk
  BY <1>1 DEF RecordVersion, SerialInv, FileWritten
<1>6. \A q \in Requests : pc'[q] \notin Prepared \cup Touching \cup Numbered
  BY <1>4 DEF Working, Prepared, Touching, Numbered
<1>7. QED
  BY <1>3, <1>4, <1>5, <1>6
     DEF SerialInv, FileStands, PreviousStands, FileWritten, NumberFree,
         Touching, Prepared, Numbered

LEMMA SerialEnvironment ==
  ASSUME TakeTurns, SerialInv, Environment
  PROVE  SerialInv' /\ UNCHANGED <<versions, pc, prev, disk>>
<1>1. UNCHANGED <<disk, versions, pc, text, prev, num>>
  BY DEF TakeTurns, Environment, DaemonSettles, SystemdRestarts, DaemonDies,
         Crash, HandEdit, locals
<1>2. QED
  BY <1>1, LastStays
     DEF SerialInv, AloneInFlight, FileStands, PreviousStands, FileWritten,
         NumberFree

LEMMA SerialStep ==
  ASSUME TakeTurns, LogInv, LogInv', SerialInv, [Next]_vars
  PROVE  SerialInv'
<1>1. CASE UNCHANGED vars
  BY <1>1, LastStays
     DEF vars, SerialInv, AloneInFlight, FileStands, PreviousStands,
         FileWritten, NumberFree
<1>2. ASSUME NEW r \in Requests, Arrival(r)
      PROVE  SerialInv'
  BY <1>2, SerialArrival
<1>3. ASSUME NEW r \in Requests, Proceed(r)
      PROVE  SerialInv'
  BY <1>3, SerialCheckPending, SerialReadPrevious, SerialNumber,
     SerialPrepare, SerialWrite, SerialService, SerialRecord DEF Proceed
<1>4. CASE Environment
  BY <1>4, SerialEnvironment
<1>5. QED
  BY <1>1, <1>2, <1>3, <1>4 DEF Next

LEMMA SerialInvariant ==
  ASSUME TakeTurns
  PROVE  Spec => [](LogInv /\ SerialInv)
<1>1. Init => SerialInv
  BY SerialInit
<1>2. LogInv /\ LogInv' /\ SerialInv /\ [Next]_vars => SerialInv'
  BY SerialStep
<1>3. QED
  BY <1>1, <1>2, LogInvariant, PTL DEF Spec

\* With no request in progress the live file is the last version's text.
THEOREM HistoryIsHonest ==
  ASSUME TakeTurns
  PROVE  Spec => []HonestHistory
<1>1. LogInv /\ SerialInv => HonestHistory
  <2> SUFFICES ASSUME LogInv, SerialInv, InFlight = {}
               PROVE  ActiveText = Last
    BY DEF HonestHistory, Last
  <2>1. \A r \in Requests : pc[r] \notin Touching
    BY DEF InFlight, Working, Touching
  <2>2. QED
    BY <2>1, TextsAssumption DEF SerialInv, FileStands, ActiveText
<1>2. QED
  BY <1>1, SerialInvariant, PTL

\* The text the refinement mapping shows is that of the last version.
LEMMA StandingIsLast == SerialInv => Standing = Last
<1> SUFFICES ASSUME SerialInv PROVE Standing = Last
  OBVIOUS
<1>1. CASE \E r \in Requests : pc[r] \in Touching
  BY <1>1 DEF Standing, SerialInv, PreviousStands
<1>2. CASE ~ \E r \in Requests : pc[r] \in Touching
  BY <1>2, TextsAssumption DEF Standing, SerialInv, FileStands, ActiveText
<1>3. QED
  BY <1>1, <1>2

LEMMA SerialRefines ==
  ASSUME TakeTurns, LogInv, LogInv', SerialInv, SerialInv', [Next]_vars
  PROVE  \/ Last' = Last /\ Log' = Log
         \/ \E t \in AllTexts : Last' = t /\ Log' = Append(Log, t)
<1>1. CASE UNCHANGED versions
  BY <1>1, LastStays DEF Log, ContentOf
<1>2. ASSUME NEW r \in Requests, RecordVersion(r)
      PROVE  \E t \in AllTexts : Last' = t /\ Log' = Append(Log, t)
  BY <1>2, SerialRecord DEF LogInv, TypeOK
<1>3. versions' = versions \/ \E r \in Requests : RecordVersion(r)
  BY DEF Next, vars, Arrival, apply_config, restore_version, apply_import,
         Arrives, Proceed, CheckPending, ReadPreviousActive,
         next_version_number, validate_candidate, backup_active, TruncateFile,
         FillFile, reload, restart, HealthCheck, rollback_reload,
         rollback_restart, Environment, DaemonSettles, SystemdRestarts,
         DaemonDies, Crash, HandEdit
<1>4. QED
  BY <1>1, <1>2, <1>3

\* apply_candidate, one administrator at a time, implements the atomic
\* deployment of ConfigHistory.
THEOREM ApplyImplementsHistory ==
  ASSUME TakeTurns
  PROVE  Spec => ImplementsHistory
<1>1. Init => Standing = Initial /\ Log = <<>>
  <2>1. Init => Standing = Last /\ Last = Initial
    BY SerialInit, StandingIsLast DEF Init, Last
  <2>2. QED
    BY <2>1, LogInit
<1>2. /\ LogInv /\ SerialInv /\ LogInv' /\ SerialInv' /\ [Next]_vars
      => [\E t \in AllTexts : Standing' = t /\ Log' = Append(Log, t)]_
           <<Standing, Log>>
  <2> SUFFICES ASSUME LogInv, SerialInv, LogInv', SerialInv', [Next]_vars
               PROVE  [\E t \in AllTexts :
                         Standing' = t /\ Log' = Append(Log, t)]_<<Standing, Log>>
    OBVIOUS
  <2>1. Standing = Last
    BY StandingIsLast
  <2>2. (Standing = Last)'
    BY StandingIsLast, PTL
  <2>3. QED
    BY <2>1, <2>2, SerialRefines
<1>3. QED
  BY <1>1, <1>2, SerialInvariant, PTL
     DEF Spec, ImplementsHistory, History!Spec, History!Init, History!Next,
         History!Deploy

\* An apply that fails after it touched the file leaves the file as it was.
THEOREM FailedApplyPutsBack ==
  ASSUME TakeTurns
  PROVE  Spec => FailedApplyRestores
<1>1. LogInv /\ SerialInv /\ [Next]_vars
        => [\A r \in Requests :
              pc[r] \in Touching /\ pc'[r] \in Ended \ {"applied"}
                => ActiveText' = prev[r]]_vars
  <2> SUFFICES ASSUME LogInv, SerialInv, Next, NEW q \in Requests,
                      pc[q] \in Touching, pc'[q] \in Ended \ {"applied"}
               PROVE  ActiveText' = prev[q]
    OBVIOUS
  <2>1. pc[q] \in Working /\ pc'[q] \notin Working /\ pc[q] # "idle"
    BY DEF Touching, Working, Ended
  <2>2. PICK r \in Requests : Proceed(r)
    BY <2>1 DEF Next, Environment, DaemonSettles, SystemdRestarts, DaemonDies,
       HandEdit, Crash, TakeTurns, Arrival, apply_config, restore_version,
       apply_import, Arrives, InFlight
  <2>3. pc[r] \in Working /\ \E to : Goto(r, to)
    BY <2>2 DEF Proceed, CheckPending, ReadPreviousActive,
       next_version_number, validate_candidate, backup_active, TruncateFile,
       FillFile, reload, restart, HealthCheck, RecordVersion,
       rollback_reload, rollback_restart, Working
  <2>4. q = r
    BY <2>1, <2>3 DEF SerialInv, AloneInFlight
  <2>5. rollback_reload(r) \/ rollback_restart(r)
    <3>1. ~RecordVersion(r)
      BY <2>1, <2>4
         DEF RecordVersion, SerialInv, NumberFree, Numbered, Goto, LogInv,
             TypeOK
    <3>2. pc[r] \in Touching /\ pc'[r] \in Ended \ {"applied"}
      BY <2>4
    <3>3. ~(reload(r) \/ restart(r) \/ HealthCheck(r) \/ FillFile(r))
      BY <3>2 DEF reload, restart, HealthCheck, FillFile, Goto, LogInv,
         TypeOK, Ended, TakeTurns, TimesOut
    <3>4. ~TruncateFile(r)
      BY <3>2 DEF TruncateFile, Goto, LogInv, TypeOK, Ended, Touching
    <3>5. ~(CheckPending(r) \/ ReadPreviousActive(r) \/ next_version_number(r)
            \/ validate_candidate(r) \/ backup_active(r))
      BY <3>2 DEF CheckPending, ReadPreviousActive, next_version_number,
         validate_candidate, backup_active, Touching
    <3>6. QED
      BY <2>2, <3>1, <3>3, <3>4, <3>5 DEF Proceed
  <2>6. disk = prev[q] /\ disk' = disk
    BY <2>4, <2>5 DEF rollback_reload, rollback_restart, SerialInv,
       FileWritten
  <2>7. QED
    BY <2>6, TextsAssumption DEF ActiveText, SerialInv
<1>2. QED
  BY <1>1, SerialInvariant, PTL DEF Spec, FailedApplyRestores

-----------------------------------------------------------------------------
(* The backups, when administrators take turns.                            *)

\* The number a request has taken is the one after the last.
LEMMA NumberIsNext ==
  ASSUME LogInv, SerialInv, NEW r \in Requests, pc[r] \in Numbered
  PROVE  num[r] = LastNumber + 1
<1>1. PICK k \in Nat : Numbers = 1 .. k
  BY DEF LogInv, NumbersInterval
<1>2. LastNumber = k
  BY <1>1, LastNumberIs DEF LogInv
<1>3. num[r] \in Nat /\ num[r] # 0 /\ (num[r] = 1 \/ num[r] - 1 \in Numbers) /\ num[r] \notin Numbers
  BY DEF LogInv, TypeOK, NumbersTaken, SerialInv, NumberFree
<1>4. QED
  BY <1>1, <1>2, <1>3

\* The text that stands is the installer's, or a row has it.
LEMMA LastHasRow ==
  ASSUME LogInv
  PROVE  IF LastNumber = 0 THEN Last = Initial
         ELSE \E v \in versions : v.number = LastNumber /\ v.content = Last
<1>1. PICK k \in Nat : Numbers = 1 .. k
  BY DEF LogInv, NumbersInterval
<1>2. LastNumber = k
  BY <1>1, LastNumberIs DEF LogInv
<1>3. CASE k = 0
  <2>1. versions = {}
    BY <1>1, <1>3 DEF Numbers
  <2>2. QED
    BY <1>2, <1>3, <2>1 DEF Last
<1>4. CASE k # 0
  <2>1. PICK v \in versions : v.number = k
    BY <1>1, <1>4 DEF Numbers
  <2>2. LET w == CHOOSE w \in versions : w.number = k IN w \in versions /\ w.number = k
    BY <2>1
  <2>3. Last = ContentOf(k)
    BY <1>2, <2>1 DEF Last
  <2>4. QED
    BY <1>2, <1>4, <2>2, <2>3 DEF ContentOf
<1>5. QED
  BY <1>3, <1>4

LEMMA BackupStep ==
  ASSUME LogInv, SerialInv, BackupsMatchVersions, NEW r \in Requests, backup_active(r)
  PROVE  BackupsMatchVersions'
<1>1. versions' = versions /\ pc[r] = "backup"
  BY DEF backup_active
<1>2. CASE disk = NoFile
  BY <1>1, <1>2 DEF backup_active, BackupsMatchVersions
<1>3. CASE disk # NoFile
  <2> DEFINE new == [number |-> num[r] - 1, content |-> disk]
  <2>1. LastNumber \in Nat /\ num[r] = LastNumber + 1
    <3>1. PICK k \in Nat : Numbers = 1 .. k
      BY DEF LogInv, NumbersInterval
    <3>2. QED
      BY <1>1, <3>1, LastNumberIs, NumberIsNext DEF LogInv, Numbered
  <2>2. disk = Last
    BY <1>1 DEF SerialInv, AloneInFlight, FileStands, Touching, Working
  <2>3. backups' \subseteq backups \cup {new}
    BY <1>3 DEF backup_active
  <2>4. new.number = LastNumber /\ new.content = Last
    BY <2>1, <2>2
  <2> HIDE DEF new
  <2>5. IF new.number = 0 THEN new.content = Initial
        ELSE \E v \in versions : v.number = new.number /\ v.content = new.content
    BY <2>4, LastHasRow
  <2>6. QED
    BY <1>1, <2>3, <2>5 DEF BackupsMatchVersions
<1>4. QED
  BY <1>2, <1>3

\* The backup .v{n}.bak is version n, whatever was applied, failed and was rolled back since.
THEOREM BackupsAreVersions ==
  ASSUME TakeTurns
  PROVE  Spec => []BackupsMatchVersions
<1>1. Init => BackupsMatchVersions
  BY DEF Init, BackupsMatchVersions
<1>2. ASSUME LogInv, SerialInv, BackupsMatchVersions, [Next]_vars
      PROVE  BackupsMatchVersions'
  <2>1. (backups' = backups /\ versions \subseteq versions') \/ \E r \in Requests : backup_active(r)
    BY <1>2 DEF Next, vars, Arrival, apply_config, restore_version, apply_import,
         Arrives, Proceed, CheckPending, ReadPreviousActive,
         next_version_number, validate_candidate, TruncateFile,
         FillFile, reload, restart, HealthCheck, RecordVersion, rollback_reload,
         rollback_restart, Environment, DaemonSettles, SystemdRestarts,
         DaemonDies, Crash, HandEdit
  <2>2. CASE backups' = backups /\ versions \subseteq versions'
    BY <1>2, <2>2 DEF BackupsMatchVersions
  <2>3. QED
    BY <1>2, <2>1, <2>2, BackupStep
<1>3. QED
  BY <1>1, <1>2, SerialInvariant, PTL DEF Spec

-----------------------------------------------------------------------------
(***************************************************************************)
(* What an apply says of the daemon.  A candidate is recorded only after   *)
(* the daemon has read it and is up, which shows that it stays up when it  *)
(* is never slow to give up; a rollback is over when the daemon has read   *)
(* the file that was put back, unless sudo refused the last restart.       *)
(***************************************************************************)
ServedInv ==
  /\ proc = "serving" => running \in Loadable
  /\ proc # "parsing"
  /\ \A r \in Requests :
       /\ pc[r] \in {"health", "commit"} => running = text[r]
       /\ pc[r] = "commit" => text[r] \in Loadable

\* What the daemon reads while a request has the file written is that request's text.
LEMMA LoadServes ==
  ASSUME "slow" \notin Faults, disk \in AllTexts, LoadsFile
  PROVE  running' = disk /\ proc' = Settled(disk) /\ proc' # "parsing" /\ (proc' = "serving" => running' \in Loadable)
BY TextsAssumption DEF LoadsFile, ReadsConfig, DiesWithoutFile, Settled

LEMMA ServedStays ==
  ASSUME ServedInv, UNCHANGED <<proc, running>>,
         \A r \in Requests : pc'[r] \in {"health", "commit"} => pc'[r] = pc[r] /\ text'[r] = text[r]
  PROVE  ServedInv'
BY DEF ServedInv

LEMMA ServedService ==
  ASSUME TakeTurns, "slow" \notin Faults, LogInv, SerialInv, ServedInv, NEW r \in Requests,
         \/ reload(r) \/ restart(r) \/ HealthCheck(r)
         \/ rollback_reload(r) \/ rollback_restart(r)
  PROVE  ServedInv'
<1>1. "timeout" \notin Faults
  BY DEF TakeTurns
<1>2. UNCHANGED <<disk, text>> /\ disk \in AllTexts
  BY DEF reload, restart, HealthCheck, rollback_reload, rollback_restart, locals, SerialInv
<1>3. PICK to : Goto(r, to) /\ pc[r] \in Working
  BY DEF reload, restart, HealthCheck, rollback_reload, rollback_restart, Working
<1>4. pc'[r] = to /\ \A q \in Requests : q # r => pc'[q] \notin Working
  BY <1>3, SoloStep
<1>5. \A q \in Requests : q # r => pc'[q] \notin {"health", "commit"}
  BY <1>4 DEF Working
<1>6. CASE LoadsFile
  <2>1. running' = disk /\ proc' # "parsing" /\ (proc' = "serving" => running' \in Loadable)
    BY <1>2, <1>6, LoadServes
  <2>2. CASE HealthCheck(r)
    <3>1. UNCHANGED <<proc, running>> /\ pc[r] = "health"
      BY <2>2 DEF HealthCheck, daemon
    <3>2. pc'[r] = "commit" => proc = "serving"
      BY <1>1, <2>2 DEF HealthCheck, Goto, LogInv, TypeOK, ServedInv
    <3>3. QED
      BY <1>2, <1>4, <1>5, <3>1, <3>2 DEF ServedInv
  <2>3. CASE ~ HealthCheck(r)
    <3>1. pc'[r] # "commit" /\ (pc'[r] = "health" => pc[r] \in {"reload", "restart"})
      BY <1>1, <2>3 DEF reload, restart, rollback_reload, rollback_restart, Goto, LogInv, TypeOK, TimesOut
    <3>2. pc'[r] = "health" => running' = text'[r]
      BY <1>2, <2>1, <3>1 DEF SerialInv, FileWritten
    <3>3. QED
      BY <1>5, <2>1, <3>1, <3>2 DEF ServedInv
  <2>4. QED
    BY <2>2, <2>3
<1>7. CASE UNCHANGED daemon /\ ~ LoadsFile
  <2>1. pc'[r] = "health" => FALSE
    BY <1>1, <1>7 DEF reload, restart, HealthCheck, rollback_reload, rollback_restart, ReloadDone, RestartDone, Goto,
                      LogInv, TypeOK, TimesOut
  <2>2. pc'[r] = "commit" => pc[r] = "health" /\ proc = "serving"
    BY <1>1 DEF reload, restart, HealthCheck, rollback_reload, rollback_restart, Goto, LogInv, TypeOK, TimesOut, ServedInv
  <2>3. QED
    BY <1>2, <1>5, <1>7, <2>1, <2>2 DEF ServedInv, daemon
<1>8. LoadsFile \/ (UNCHANGED daemon /\ ~ LoadsFile)
  BY <1>1 DEF reload, restart, HealthCheck, rollback_reload, rollback_restart, ReloadDone, RestartDone, ReloadRefused,
              RestartRefused, TimesOut
<1>9. QED
  BY <1>6, <1>7, <1>8

LEMMA ServedEnvironment ==
  ASSUME TakeTurns, "slow" \notin Faults, LogInv, SerialInv, ServedInv, Environment
  PROVE  ServedInv'
<1>1. UNCHANGED <<disk, pc, text>>
  BY DEF TakeTurns, Environment, DaemonSettles, SystemdRestarts, DaemonDies, Crash, HandEdit, locals
<1>2. CASE DaemonSettles
  BY <1>2 DEF DaemonSettles, ServedInv
<1>3. CASE SystemdRestarts
  <2>1. running' = disk /\ proc' # "parsing" /\ (proc' = "serving" => running' \in Loadable)
    BY <1>3, LoadServes DEF SystemdRestarts, LoadsFile, SerialInv
  <2>2. \A r \in Requests : pc[r] \in {"health", "commit"} => disk = text[r]
    BY DEF SerialInv, FileWritten
  <2>3. QED
    BY <1>1, <2>1, <2>2 DEF ServedInv
<1>4. CASE DaemonDies
  BY <1>1, <1>4 DEF DaemonDies, ServedInv
<1>5. QED
  BY <1>2, <1>3, <1>4 DEF TakeTurns, Environment, Crash, HandEdit

LEMMA ServedStep ==
  ASSUME TakeTurns, "slow" \notin Faults, LogInv, SerialInv, ServedInv, [Next]_vars
  PROVE  ServedInv'
<1>1. CASE UNCHANGED vars
  BY <1>1 DEF vars, ServedInv
<1>2. ASSUME NEW r \in Requests, Arrival(r)
      PROVE  ServedInv'
  <2>1. PICK t \in AllTexts, label \in {"compiled", "read_active"} : Arrives(r, t, label)
    BY <1>2 DEF Arrival, apply_config, restore_version, apply_import, AllTexts, LogInv, TypeOK, Row
  <2>2. \A q \in Requests : pc'[q] \in {"health", "commit"} => pc'[q] = pc[q] /\ text'[q] = text[q]
    BY <2>1 DEF Arrives, Goto, LogInv, TypeOK
  <2>3. QED
    BY <2>1, <2>2, ServedStays DEF Arrives, daemon
<1>3. ASSUME NEW r \in Requests, Proceed(r)
      PROVE  ServedInv'
  <2>1. CASE \/ reload(r) \/ restart(r) \/ HealthCheck(r)
             \/ rollback_reload(r) \/ rollback_restart(r)
    BY <2>1, ServedService
  <2>2. CASE ~ (\/ reload(r) \/ restart(r) \/ HealthCheck(r)
                \/ rollback_reload(r) \/ rollback_restart(r))
    <3>1. \E to \in {"no_change", "read_active", "number", "validate", "backup", "invalid", "truncate", "write", "rb_write",
                     "reload", "rb_reload", "applied", "conflict"} : Goto(r, to)
      BY <1>3, <2>2 DEF Proceed, CheckPending, ReadPreviousActive, next_version_number, validate_candidate, backup_active,
                        TruncateFile, FillFile, RecordVersion
    <3>2. UNCHANGED <<proc, running, text>>
      BY <1>3, <2>2 DEF Proceed, CheckPending, ReadPreviousActive, next_version_number, validate_candidate, backup_active,
                        TruncateFile, FillFile, RecordVersion, daemon, locals
    <3>3. \A q \in Requests : pc'[q] \in {"health", "commit"} => pc'[q] = pc[q] /\ text'[q] = text[q]
      BY <3>1, <3>2 DEF Goto, LogInv, TypeOK
    <3>4. QED
      BY <3>2, <3>3, ServedStays
  <2>3. QED
    BY <2>1, <2>2
<1>4. CASE Environment
  BY <1>4, ServedEnvironment
<1>5. QED
  BY <1>1, <1>2, <1>3, <1>4 DEF Next

\* A version is recorded only when the daemon has read that very text and can stay up with it, whatever sudo
\* refuses and however often the daemon dies by itself.
THEOREM RecordedVersionsWereServed ==
  ASSUME TakeTurns, "slow" \notin Faults
  PROVE  Spec => RecordedWasServed
<1>1. Init => ServedInv
  BY TextsAssumption DEF Init, ServedInv
<1>2. ASSUME LogInv, SerialInv, ServedInv, [Next]_vars
      PROVE  ServedInv' /\ [\A v \in versions' \ versions : running = v.content /\ v.content \in Loadable]_vars
  <2>1. ServedInv'
    BY <1>2, ServedStep
  <2>2. versions' = versions \/ \E r \in Requests : RecordVersion(r)
    BY <1>2 DEF Next, vars, Arrival, apply_config, restore_version, apply_import,
         Arrives, Proceed, CheckPending, ReadPreviousActive,
         next_version_number, validate_candidate, backup_active, TruncateFile,
         FillFile, reload, restart, HealthCheck, rollback_reload,
         rollback_restart, Environment, DaemonSettles, SystemdRestarts,
         DaemonDies, Crash, HandEdit
  <2>3. ASSUME NEW r \in Requests, RecordVersion(r), NEW v \in versions' \ versions
        PROVE  running = v.content /\ v.content \in Loadable
    <3>1. pc[r] = "commit" /\ v.content = text[r]
      BY <2>3 DEF RecordVersion
    <3>2. QED
      BY <1>2, <3>1 DEF ServedInv
  <2>4. QED
    BY <2>1, <2>2, <2>3
<1>3. QED
  BY <1>1, <1>2, SerialInvariant, PTL DEF Spec, RecordedWasServed

\* When _rollback is over the daemon runs the file that was put back, or is dead, however slow it is.
THEOREM RolledBackRuns ==
  ASSUME TakeTurns, "sudo" \notin Faults
  PROVE  Spec => RolledBackIsRunning
<1>1. LogInv /\ SerialInv /\ [Next]_vars
        => [\A r \in Requests :
              pc[r] \in Touching /\ pc'[r] = "rolled_back"
                => running' = ActiveText' \/ proc' = "dead"]_vars
  <2> SUFFICES ASSUME LogInv, SerialInv, Next, NEW q \in Requests,
                      pc[q] \in Touching, pc'[q] = "rolled_back"
               PROVE  running' = ActiveText' \/ proc' = "dead"
    OBVIOUS
  <2>1. pc[q] \in Working /\ pc'[q] # pc[q]
    BY DEF Touching, Working
  <2>2. PICK r \in Requests : Proceed(r)
    BY <2>1 DEF Next, Environment, DaemonSettles, SystemdRestarts, DaemonDies,
       HandEdit, Crash, TakeTurns, Arrival, apply_config, restore_version,
       apply_import, Arrives, InFlight
  <2>3. pc[r] \in Working /\ \E to : Goto(r, to)
    BY <2>2 DEF Proceed, CheckPending, ReadPreviousActive,
       next_version_number, validate_candidate, backup_active, TruncateFile,
       FillFile, reload, restart, HealthCheck, RecordVersion,
       rollback_reload, rollback_restart, Working
  <2>4. q = r
    BY <2>1, <2>3 DEF SerialInv, AloneInFlight
  <2>5. rollback_reload(r) \/ rollback_restart(r)
    BY <2>2, <2>4 DEF Proceed, CheckPending, ReadPreviousActive,
       next_version_number, validate_candidate, backup_active, TruncateFile,
       FillFile, reload, restart, HealthCheck, RecordVersion, Goto, LogInv, TypeOK
  <2>6. LoadsFile /\ disk' = disk
    BY <2>4, <2>5 DEF rollback_reload, rollback_restart, ReloadDone, RestartDone, ReloadRefused, RestartRefused, TimesOut,
                TakeTurns, Goto, LogInv, TypeOK
  <2>7. QED
    BY <2>6, TextsAssumption DEF LoadsFile, ReadsConfig, DiesWithoutFile, SerialInv, ActiveText
<1>2. QED
  BY <1>1, SerialInvariant, PTL DEF Spec, RolledBackIsRunning

\* What an apply says it did, it did.
THEOREM ApplySaysWhatItDid ==
  ASSUME TakeTurns, "slow" \notin Faults, "sudo" \notin Faults
  PROVE  Spec => OutcomesAreServed
BY RecordedVersionsWereServed, RolledBackRuns DEF OutcomesAreServed
=============================================================================
