---------------------------- MODULE AccountingLog ----------------------------
(***************************************************************************)
(* The daemon's log files and what the pages make of them (services/       *)
(* accounting_log.py, api/routes_accounting.py).                           *)
(*                                                                         *)
(* The daemon appends to three files: who was authenticated, what was      *)
(* authorized, and what was done.  Nothing in them names a session: a      *)
(* record has the device and the line of the terminal, and a page reads    *)
(* the last lines of a file and puts together what belongs together.       *)
(*                                                                         *)
(* A line is the sequence of its fields.  A command is a sequence too: of  *)
(* the pieces that the separator of the accounting file cuts it into, of   *)
(* which there are two for one that has an IPv6 address with "::" in it.   *)
(***************************************************************************)
EXTENDS Naturals, Sequences, FiniteSets, FiniteSetsExt, SequencesExt, Functions

CONSTANTS
  Terminals,    \* pairs of a device and a line of it
  Users,
  Typeable,     \* commands
  Tails,        \* how many lines pages ask for
  HOURS,        \* how many hours the chart shows
  MaxLines, MaxOdd   \* bounds: lines of accounting; refusals, lost records and hours

\* A field that is empty.
Blank == ""
\* No line of a device has the name of what stands in other fields.
ASSUME TerminalsAssumption == \A t \in Terminals : t = <<t[1], t[2]>> /\ t[2] \notin {"async", "start", "stop"}
\* A command has two addresses at most.
ASSUME TypeableAssumption == \A c \in Typeable : c \in Seq(STRING) /\ Len(c) \in 1 .. 3 /\ Blank \notin Range(c)
ASSUME TailsAssumption == Tails \subseteq Nat /\ {HOURS, MaxLines, MaxOdd} \subseteq Nat

VARIABLES
  accessFile, authFile, acctFile,   \* the log files
  shell,        \* the session that is open on each terminal; 0 for none
  lived,        \* history: the sessions there were
  murky,        \* history: terminals of which a record was lost
  hour,
  odd           \* how much of MaxOdd was used

logVars == << accessFile, authFile, acctFile, shell, lived, murky, hour, odd >>

Stamped(fields) == [at |-> hour, fields |-> fields]
\* The lines of a session: of its start, 0 when that was lost, of its commands, and of its stop, 0
\* as long as there is none.
LinesOf(i) == ({lived[i].line, lived[i].stop} \ {0}) \cup DOMAIN lived[i].ran

LogTypes ==
  /\ \A s \in {accessFile, authFile, acctFile} : \A i \in DOMAIN s : s[i].at \in 0 .. hour /\ Len(s[i].fields) \in 5 .. 10
  /\ Len(acctFile) \leq MaxLines
  /\ shell \in [Terminals -> 0 .. Len(lived)]
  /\ \A i \in DOMAIN lived : /\ lived[i].terminal \in Terminals /\ lived[i].user \in Users /\ lived[i].over \in BOOLEAN
                             /\ LinesOf(i) \subseteq DOMAIN acctFile /\ Range(lived[i].ran) \subseteq Typeable
  /\ \A t \in Terminals : shell[t] # 0 => lived[shell[t]].terminal = t /\ ~lived[shell[t]].over
  /\ murky \subseteq Terminals /\ {hour, odd} \subseteq 0 .. MaxOdd

LogInit ==
  /\ accessFile = <<>> /\ authFile = <<>> /\ acctFile = <<>>
  /\ shell = [t \in Terminals |-> 0] /\ lived = <<>> /\ murky = {} /\ hour = 0 /\ odd = 0

-----------------------------------------------------------------------------
(* The daemon and the devices.                                             *)

\* Of a message, the word that counts.
AccessLine(t, user, message) == Stamped(<<t[1], user, t[2], "async", message>>)
AuthLine(t, user, result, cmd) ==
  Stamped(<<t[1], user, t[2], "async", "15", result, "shell">> \o (IF cmd = <<>> THEN <<>> ELSE <<cmd>>))
\* An empty command is a field as well.
AcctLine(t, user, type, cmd) ==
  Stamped(<<t[1], user, t[2], "async", type, "permit", "shell">> \o (IF cmd = <<>> THEN <<Blank>> ELSE cmd))

Room == Len(acctFile) < MaxLines
Oddly(if) == IF if THEN odd < MaxOdd /\ odd' = odd + 1 ELSE UNCHANGED odd

\* A login that fails, or is not given a shell.
Refused(t, user) ==
  /\ shell[t] = 0 /\ Oddly(TRUE)
  /\ \/ accessFile' = Append(accessFile, AccessLine(t, user, "failed")) /\ UNCHANGED authFile
     \/ /\ accessFile' = Append(accessFile, AccessLine(t, user, "succeeded"))
        /\ authFile' = Append(authFile, AuthLine(t, user, "deny", <<>>))
  /\ UNCHANGED << acctFile, shell, lived, murky, hour >>

\* One that is; the device may fail to report it.
ShellOpens(t, user) ==
  \E lost \in BOOLEAN :
    /\ Room /\ shell[t] = 0 /\ Oddly(lost)
    /\ accessFile' = Append(accessFile, AccessLine(t, user, "succeeded"))
    /\ authFile' = Append(authFile, AuthLine(t, user, "permit", <<>>))
    /\ acctFile' = IF lost THEN acctFile ELSE Append(acctFile, AcctLine(t, user, "start", <<>>))
    /\ murky' = IF lost THEN murky \cup {t} ELSE murky
    /\ lived' = Append(lived, [terminal |-> t, user |-> user, line |-> IF lost THEN 0 ELSE Len(acctFile) + 1,
                               ran |-> <<>>, over |-> FALSE, stop |-> 0])
    /\ shell' = [shell EXCEPT ![t] = Len(lived) + 1]
    /\ UNCHANGED hour

\* What is permitted is done, and reported as something that has stopped.
CommandTyped(t, cmd) ==
  LET me == lived[shell[t]]
      line == Len(acctFile) + 1 IN
  /\ Room /\ shell[t] # 0
  /\ \/ /\ authFile' = Append(authFile, AuthLine(t, me.user, "deny", cmd)) /\ Oddly(TRUE)
        /\ UNCHANGED << acctFile, lived >>
     \/ /\ authFile' = Append(authFile, AuthLine(t, me.user, "permit", cmd))
        /\ acctFile' = Append(acctFile, AcctLine(t, me.user, "stop", cmd))
        /\ lived' = [lived EXCEPT ![shell[t]].ran = [k \in DOMAIN @ \cup {line} |-> IF k = line THEN cmd ELSE @[k]]]
        /\ Oddly(FALSE)
  /\ UNCHANGED << accessFile, shell, murky, hour >>

\* The session ends; when the line is cut or the device restarts, nothing says so.
ShellCloses(t) ==
  \E told \in BOOLEAN :
    /\ shell[t] # 0 /\ Oddly(~told)
    /\ told => Room
    /\ acctFile' = IF told THEN Append(acctFile, AcctLine(t, lived[shell[t]].user, "stop", <<>>)) ELSE acctFile
    /\ lived' = [lived EXCEPT ![shell[t]].over = TRUE, ![shell[t]].stop = IF told THEN Len(acctFile) + 1 ELSE 0]
    /\ shell' = [shell EXCEPT ![t] = 0]
    /\ UNCHANGED << accessFile, authFile, murky, hour >>

HourPasses ==
  /\ Oddly(TRUE) /\ hour' = hour + 1
  /\ UNCHANGED << accessFile, authFile, acctFile, shell, lived, murky >>

LogNext ==
  \/ \E t \in Terminals, user \in Users : Refused(t, user) \/ ShellOpens(t, user)
  \/ \E t \in Terminals : ShellCloses(t) \/ \E cmd \in Typeable : CommandTyped(t, cmd)
  \/ HourPasses

LogSpec == LogInit /\ [][LogNext]_logVars

-----------------------------------------------------------------------------
(* Reading a line.                                                         *)

\* Eight fields after the timestamp; of more, the last eight, as if the others were before it.
_parse_line(line) ==
  LET n == Len(line.fields)
      field(i) == line.fields[n - 8 + i]
  IN IF n < 8 THEN [parsed |-> FALSE]
     ELSE [parsed |-> TRUE, at |-> line.at, nas |-> field(1), user |-> field(2), port |-> field(3),
           accttype |-> field(5), result |-> field(6), cmd |-> field(8)]

\* Here the command is whatever comes after seven fields, and may be missing.
_auth_parse_line(line) ==
  LET f == line.fields IN
  IF Len(f) < 7 THEN [parsed |-> FALSE]
  ELSE [parsed |-> TRUE, at |-> line.at, nas |-> f[1], user |-> f[2], port |-> f[3], result |-> f[6],
        cmd |-> IF Len(f) = 7 THEN <<>> ELSE f[8]]

_access_parse_line(line) ==
  LET f == line.fields IN
  IF Len(f) < 5 THEN [parsed |-> FALSE]
  ELSE [parsed |-> TRUE, at |-> line.at, nas |-> f[1], user |-> f[2], port |-> f[3], message |-> f[5]]

\* The last lines of a file, by their numbers.
LastLines(file, limit) == { k \in DOMAIN file : k + limit > Len(file) }

\* Records, too, have the numbers of their lines, whichever of them are picked.
read_records(limit) == [k \in LastLines(acctFile, limit) |-> _parse_line(acctFile[k])]
is_login_record(r) == r.parsed /\ r.cmd = <<>>
\* Lines of logins count for the limit, also where they are dropped.
read_auth_records(limit, logins) ==
  LET records == [k \in LastLines(authFile, limit) |-> _auth_parse_line(authFile[k])]
  IN Restrict(records, { k \in DOMAIN records : records[k].parsed /\ (logins \/ ~is_login_record(records[k])) })
read_access_records(limit) == [k \in LastLines(accessFile, limit) |-> _access_parse_line(accessFile[k])]

\* Nothing that is not plainly a success is one.
login_outcome(r) == CASE r.result = Blank -> "unknown" [] r.result = "permit" -> "success" [] OTHER -> "failure"
outcome(r) ==
  CASE r.message = "succeeded" -> "success"
    [] r.message = "failed" -> "failure"
    [] OTHER -> "unknown"

-----------------------------------------------------------------------------
(* The pages.                                                              *)

\* Any of user, device and result may be left open.
filter_records(records, user, nas, result) ==
  Restrict(records, { k \in DOMAIN records :
    LET r == records[k] IN /\ r.parsed /\ (user = {} \/ r.user \in user) /\ (nas = {} \/ r.nas \in nas)
                           /\ (result = {} \/ r.result \in result) })
\* The accounting page reads what was authorized, its export what was done.
list_accounting_records(limit, user, nas) == filter_records(read_auth_records(limit, FALSE), user, nas, {})
export_accounting_records(user, nas) == filter_records(read_records(10 * MaxLines), user, nas, {})

\* Bug: any record that says "stop" ends the session.
BugAnyStop(r) == r.accttype = "stop"
\* The record that ends a session: a command stops as well.
Closes(r) == r.accttype = "stop" /\ r.cmd = Blank

\* The sessions of one terminal: from each start to the next start, the stop, or the end of what was read.
SessionsOn(terminal, records) ==
  LET group == { k \in DOMAIN records : records[k].parsed /\ <<records[k].nas, records[k].port>> = terminal }
      starts == { k \in group : records[k].accttype = "start" }
      ends(k) == { m \in group : m > k /\ (m \in starts \/ Closes(records[m])) }
      typed(k) == { m \in group : m > k /\ records[m].cmd # Blank /\ \A e \in ends(k) : m < e }
  IN { [terminal |-> terminal, user |-> records[k].user, line |-> k,
        is_active |-> ends(k) = {},
        stopped |-> \E e \in ends(k) \ starts : \A f \in ends(k) : e \leq f,
        commands |-> [m \in typed(k) |-> records[m].cmd]] : k \in starts }

group_into_sessions(records) ==
  UNION { SessionsOn(t, records) : t \in { <<records[k].nas, records[k].port>> : k \in { j \in DOMAIN records : records[j].parsed } } }

list_sessions(limit) == group_into_sessions(read_records(limit))

\* Who did something, where, since a while ago.
recent_activity(limit, since) ==
  LET records == read_records(limit)
      late == { k \in DOMAIN records : records[k].parsed /\ records[k].at \geq since }
      pair(k) == << records[k].nas, records[k].user >>
  IN [p \in { pair(k) : k \in late } |->
        [count |-> Cardinality({ k \in late : pair(k) = p }), last |-> Max({ k \in late : pair(k) = p })]]

compute_hourly_activity(records) ==
  [h \in { x \in 0 .. hour : x + HOURS > hour } |-> Cardinality({ k \in DOMAIN records : records[k].parsed /\ records[k].at = h })]

compute_health_and_failure_stats(records) ==
  LET with(result(_)) == { k \in DOMAIN records : records[k].parsed /\ result(records[k].result) }
      refused == with(LAMBDA x : x \notin {Blank, "permit"})
  IN [permit |-> Cardinality(with(LAMBDA x : x = "permit")), non_permit |-> Cardinality(refused),
      by_user |-> [u \in { records[k].user : k \in refused } |-> Cardinality({ k \in refused : records[k].user = u })]]

accounting_health(limit) ==
  LET records == read_auth_records(limit, FALSE)
  IN [stats |-> compute_health_and_failure_stats(records), hourly |-> compute_hourly_activity(records)]

\* Counted before the rows of one outcome are picked.  The limit is that of the lines that are read, never
\* less than 2000 in the lists of events; that a list shows no more rows than were asked for is left out.
Events(records, result(_), wanted) ==
  [counts |-> [o \in {"success", "failure", "unknown"} |-> Cardinality({ k \in DOMAIN records : result(records[k]) = o })],
   rows |-> Restrict(records, { k \in DOMAIN records : wanted = {} \/ result(records[k]) \in wanted })]
_authentication_events(limit, wanted) == Events(read_access_records(limit), outcome, wanted)
list_access_events(limit, kind, wanted) ==
  IF kind = "authentication" THEN _authentication_events(limit, wanted)
  ELSE LET records == read_auth_records(limit, TRUE)
       IN Events(Restrict(records, { k \in DOMAIN records : kind = "all" \/ (kind = "login") = is_login_record(records[k]) }),
                 login_outcome, wanted)

-----------------------------------------------------------------------------
Whole(cmd) == Len(cmd) = 1

\* However the records of terminals and users mix, whatever ended without a record, and however little
\* of the file is read: a session on the page is one there was, begun in that line by that user on that
\* terminal, with the commands that were done in it, each in its line, and none of anybody else; every
\* session whose start was read is there; one that is shown as over is over, and one shown as stopped
\* has said so; one that is shown as active has not.  (Commands in which the separator occurs are
\* missing, and a terminal is left out when the start of a session on it was lost.)
SessionsAreTrue ==
  \A limit \in Tails :
    LET page == list_sessions(limit)
        begun(t) == { i \in DOMAIN lived : lived[i].terminal = t /\ lived[i].line \in LastLines(acctFile, limit) }
        done(i) == LET ran == lived[i].ran IN [k \in { m \in DOMAIN ran : Whole(ran[m]) } |-> ran[k][1]] IN
    /\ { s.terminal : s \in page } \subseteq Terminals
    /\ \A t \in Terminals \ murky :
         /\ \A i \in begun(t) : \E s \in page : s.terminal = t /\ s.line = lived[i].line
         /\ \A s \in page : s.terminal = t => \E i \in begun(t) :
              /\ s.line = lived[i].line /\ s.user = lived[i].user /\ s.commands = done(i)
              /\ ~s.is_active => lived[i].over
              /\ s.stopped <=> lived[i].stop # 0
              /\ s.is_active => lived[i].stop = 0

\* The pages that count agree with the pages that list, over the same lines: refusals on the health page
\* are the failures among the commands, for each user; the chart has all commands of its hours; logins
\* and commands are all there is; whoever was given a shell had been authenticated; and recent activity
\* leaves no record out, and names devices and users there were, unless a command was cut in pieces.
CountsAgree ==
  \A limit \in Tails :
    LET health == accounting_health(limit)
        events(kind) == list_access_events(limit, kind, {})
        commands == events("command").rows
        failures == list_access_events(limit, "command", {"failure"}).rows
        recent == recent_activity(limit, 0) IN
    /\ health.stats.non_permit = events("command").counts["failure"]
    /\ health.stats.non_permit = Cardinality(DOMAIN failures)
    /\ \A k \in DOMAIN failures :
         health.stats.by_user[failures[k].user] = Cardinality({ m \in DOMAIN failures : failures[m].user = failures[k].user })
    /\ \A k \in DOMAIN commands : commands[k].at + HOURS > hour =>
         health.hourly[commands[k].at] = Cardinality({ m \in DOMAIN commands : commands[m].at = commands[k].at })
    /\ \A o \in {"success", "failure", "unknown"} : events("all").counts[o] = events("login").counts[o] + events("command").counts[o]
    /\ list_accounting_records(limit, {}, {}) = commands
    /\ LET logins == list_access_events(limit, "login", {"success"}).rows
           authentications == _authentication_events(Len(accessFile), {"success"}).rows IN
       \A r \in Range(logins) : \E a \in Range(authentications) : <<a.nas, a.port, a.user>> = <<r.nas, r.port, r.user>>
    /\ (\A i \in DOMAIN lived : \A c \in Range(lived[i].ran) : Whole(c)) =>
         /\ \A p \in DOMAIN recent : \E i \in DOMAIN lived : p = << lived[i].terminal[1], lived[i].user >>
         /\ \A k \in LastLines(acctFile, limit) :
              \E p \in DOMAIN recent : recent[p].last \geq k /\ \E i \in DOMAIN lived : k \in LinesOf(i) /\ p = << lived[i].terminal[1], lived[i].user >>

\* Sessions and counts are true to the log.
PagesMatchTheLog == SessionsAreTrue /\ CountsAgree
=============================================================================
