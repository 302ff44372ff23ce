----------------------------- MODULE PlatformProofs -----------------------------
(***************************************************************************)
(* The platform: its parts have no variable in common, so that one of its  *)
(* behaviours is one of each part, and what is true of a part is true of   *)
(* the platform.  Two of the parts are proved here: the accounting log and *)
(* the histories of policies.                                              *)
(*                                                                         *)
(* PagesMatchTheLog: the lines of every session are in the file, its start *)
(* before its commands and those before its stop; no line is of two        *)
(* sessions, and of two sessions on one terminal the later begins after    *)
(* the earlier is over; every line is of some session.  A command of two   *)
(* addresses is cut in pieces, and no page takes it for a line of any      *)
(* terminal.                                                               *)
(*                                                                         *)
(* RestoresAreTrue: the name of a row has one bearer; whoever a version    *)
(* meant has been in its table, so that a row added later is not taken for *)
(* it; a restore under way holds what its version gives under the names it *)
(* saw; every policy has a newest version; and no version has a command    *)
(* set.                                                                    *)
(***************************************************************************)
EXTENDS MCPlatform, CommandJobsProofs, InventoryProofs, SecurityProofs, SequenceTheorems, NaturalsInduction

-----------------------------------------------------------------------------
(* The accounting log.                                                     *)

LogRecord(k) == _parse_line(acctFile[k])
AuthRecord(k) == _auth_parse_line(authFile[k])
Login(k) == _access_parse_line(accessFile[k])

\* What a page reads in a line, when the record is whole and when it is cut in pieces.
Tells(r, t, user, verb, cmd) ==
  r.parsed /\ r.nas = t[1] /\ r.port = t[2] /\ r.user = user /\ r.accttype = verb /\ r.cmd = cmd
Garbled(r) == r.parsed /\ <<r.nas, r.port>> \notin Terminals /\ r.accttype # "start"

LogFiles ==
  /\ \A k \in DOMAIN accessFile : accessFile[k].at \in 0 .. hour /\ Len(accessFile[k].fields) \in 5 .. 10
  /\ \A k \in DOMAIN authFile : authFile[k].at \in 0 .. hour /\ Len(authFile[k].fields) \in 5 .. 10
  /\ \A k \in DOMAIN acctFile : acctFile[k].at \in 0 .. hour /\ Len(acctFile[k].fields) \in 5 .. 10
Commands == UNION { [S -> Typeable] : S \in SUBSET Nat }
SessionRow == [terminal : Terminals, user : Users, line : Nat, ran : Commands, over : BOOLEAN, stop : Nat]
LogShapes ==
  /\ accessFile \in Seq(Range(accessFile)) /\ authFile \in Seq(Range(authFile)) /\ acctFile \in Seq(Range(acctFile))
  /\ Len(acctFile) <= MaxLines
  /\ shell \in [Terminals -> 0 .. Len(lived)]
  /\ lived \in Seq(SessionRow)
  /\ murky \subseteq Terminals
  /\ hour \in 0 .. odd /\ odd \in 0 .. MaxOdd

\* A session has written what its lines say, its start first and its stop last.
SessionInv(i) ==
  LET s == lived[i] IN
  /\ LinesOf(i) \subseteq DOMAIN acctFile
  /\ s.line # 0 => Tells(LogRecord(s.line), s.terminal, s.user, "start", Blank)
  /\ s.stop # 0 => Tells(LogRecord(s.stop), s.terminal, s.user, "stop", Blank)
  /\ \A k \in DOMAIN s.ran : /\ IF Whole(s.ran[k]) THEN Tells(LogRecord(k), s.terminal, s.user, "stop", s.ran[k][1]) /\ s.ran[k][1] # Blank
                                ELSE Garbled(LogRecord(k))
                             /\ s.line < k /\ (s.stop # 0 => k < s.stop)
  /\ s.stop # 0 => s.line < s.stop
  /\ ~s.over => s.stop = 0 /\ shell[s.terminal] = i
  /\ s.terminal \notin murky => s.line # 0

\* No line is of two sessions, and one on the same terminal begins when the one before is over.
ApartInv(i, j) ==
  /\ LinesOf(i) \cap LinesOf(j) = {}
  /\ i < j /\ lived[i].terminal = lived[j].terminal => lived[i].over /\ \A k \in LinesOf(i), m \in LinesOf(j) : k < m

OpenInv == \A t \in Terminals : shell[t] # 0 => lived[shell[t]].terminal = t /\ ~lived[shell[t]].over
SourceInv == \A k \in DOMAIN acctFile : \E i \in DOMAIN lived : k \in LinesOf(i)
AuthInv ==
  \A k \in DOMAIN authFile :
    LET r == AuthRecord(k) IN
    r.parsed /\ (r.cmd = <<>> /\ r.result = "permit" =>
      \E m \in DOMAIN accessFile : LET a == Login(m) IN /\ a.parsed /\ a.message = "succeeded"
                                                        /\ a.nas = r.nas /\ a.port = r.port /\ a.user = r.user)

LogInv ==
  /\ LogShapes /\ LogFiles /\ OpenInv /\ SourceInv /\ AuthInv
  /\ \A i \in DOMAIN lived : SessionInv(i)
  /\ \A i, j \in DOMAIN lived : i # j => ApartInv(i, j)

-----------------------------------------------------------------------------
LEMMA SeqOfItsOwn == ASSUME NEW S, NEW s \in Seq(S) PROVE s \in Seq(Range(s)) /\ Len(s) \in Nat /\ DOMAIN s = 1 .. Len(s)
<1>1. s \in [1 .. Len(s) -> S] /\ Len(s) \in Nat /\ DOMAIN s = 1 .. Len(s)
  OBVIOUS
<1>2. s \in [1 .. Len(s) -> Range(s)]
  BY <1>1 DEF Range
<1>3. s \in Seq(Range(s))
  BY <1>1, <1>2
<1> QED BY <1>1, <1>3

LEMMA Appending ==
  ASSUME NEW s, s \in Seq(Range(s)), NEW e
  PROVE  LET t == Append(s, e) IN
         /\ t \in Seq(Range(t)) /\ Len(s) \in Nat /\ DOMAIN s = 1 .. Len(s)
         /\ DOMAIN t = DOMAIN s \cup {Len(s) + 1} /\ Len(t) = Len(s) + 1 /\ Len(s) + 1 \notin DOMAIN s
         /\ t[Len(s) + 1] = e /\ \A k \in DOMAIN s : t[k] = s[k]
<1> DEFINE t == Append(s, e)
           S == Range(s) \cup {e}
<1>1. s \in Seq(S) /\ e \in S
  OBVIOUS
<1>2. t \in Seq(S) /\ Len(s) \in Nat /\ DOMAIN s = 1 .. Len(s) /\ Len(t) = Len(s) + 1 /\ DOMAIN t = 1 .. Len(t)
  BY <1>1
<1>3. t \in Seq(Range(t))
  BY <1>2, SeqOfItsOwn
<1>4. t[Len(s) + 1] = e /\ \A k \in DOMAIN s : t[k] = s[k]
  BY <1>1, <1>2
<1> HIDE DEF t
<1>5. DOMAIN t = DOMAIN s \cup {Len(s) + 1} /\ Len(s) + 1 \notin DOMAIN s
  BY <1>2
<1> QED BY <1>2, <1>3, <1>4, <1>5 DEF t

LEMMA ParsesEight ==
  ASSUME NEW l, Len(l.fields) = 8
  PROVE  _parse_line(l) = [parsed |-> TRUE, at |-> l.at, nas |-> l.fields[1], user |-> l.fields[2], port |-> l.fields[3],
                           accttype |-> l.fields[5], result |-> l.fields[6], cmd |-> l.fields[8]]
<1> DEFINE f == l.fields
<1>1. Len(f) - 8 + 1 = 1 /\ Len(f) - 8 + 2 = 2 /\ Len(f) - 8 + 3 = 3 /\ Len(f) - 8 + 5 = 5 /\ Len(f) - 8 + 6 = 6 /\ Len(f) - 8 + 8 = 8
      /\ ~(Len(f) < 8)
  OBVIOUS
<1> QED BY <1>1, Zenon DEF _parse_line

\* What the daemon writes is what the pages read.
Fields(t, user, verb, rest) == <<t[1], user, t[2], "async", verb, "permit", "shell">> \o rest

LEMMA SevenThen ==
  ASSUME NEW T, NEW p \in Seq(T), NEW c \in Seq(T), Len(p) \in {7}
  PROVE  /\ Len(c) \in Nat /\ Len(p \o c) = 7 + Len(c)
         /\ \A k \in 1 .. 7 : (p \o c)[k] = p[k]
         /\ \A k \in 1 .. Len(c) : (p \o c)[7 + k] = c[k]
<1>1. Len(p) = 7 /\ Len(c) \in Nat
  OBVIOUS
<1>2. Len(p \o c) = Len(p) + Len(c) /\ \A k \in 1 .. Len(p) + Len(c) : (p \o c)[k] = IF k <= Len(p) THEN p[k] ELSE c[k - Len(p)]
  BY ConcatProperties, Zenon
<1>3. /\ Len(p \o c) = 7 + Len(c)
      /\ \A k \in 1 .. 7 + Len(c) : (p \o c)[k] = IF k <= 7 THEN p[k] ELSE c[k - 7]
  BY <1>1, <1>2
<1> QED BY <1>1, <1>3

LEMMA Prefixed ==
  ASSUME NEW t, NEW u, NEW verb, NEW S, NEW c \in Seq(S)
  PROVE  LET h == Fields(t, u, verb, c) IN
         /\ Len(c) \in Nat /\ Len(h) = 7 + Len(c)
         /\ h[1] = t[1] /\ h[2] = u /\ h[3] = t[2] /\ h[4] = "async" /\ h[5] = verb /\ h[6] = "permit" /\ h[7] = "shell"
         /\ \A k \in 1 .. Len(c) : h[7 + k] = c[k]
<1> DEFINE p == <<t[1], u, t[2], "async", verb, "permit", "shell">>
           T == S \cup {t[1], t[2], u, verb, "async", "permit", "shell"}
<1>1. p \in Seq(T) /\ c \in Seq(T) /\ Len(p) \in {7} /\ \A k \in 1 .. 7 : k \in {1, 2, 3, 4, 5, 6, 7}
  OBVIOUS
<1>2. p[1] = t[1] /\ p[2] = u /\ p[3] = t[2] /\ p[4] = "async" /\ p[5] = verb /\ p[6] = "permit" /\ p[7] = "shell"
  OBVIOUS
<1> HIDE DEF p, T
<1>3. /\ Len(c) \in Nat /\ Len(p \o c) = 7 + Len(c)
      /\ \A k \in 1 .. 7 : (p \o c)[k] = p[k]
      /\ \A k \in 1 .. Len(c) : (p \o c)[7 + k] = c[k]
  BY <1>1, SevenThen
<1> QED BY <1>2, <1>3 DEF p, Fields

\* A line about what was authorized says so, whatever it was.
LEMMA ReadsAuth ==
  ASSUME NEW t, NEW u, NEW result, NEW cmd
  PROVE  LET l == AuthLine(t, u, result, cmd)
             r == _auth_parse_line(l) IN
         /\ l.at = hour /\ Len(l.fields) \in 7 .. 8
         /\ r.parsed /\ r.nas = t[1] /\ r.user = u /\ r.port = t[2] /\ r.result = result /\ r.cmd = cmd
<1> DEFINE p == <<t[1], u, t[2], "async", "15", result, "shell">>
           T == {t[1], t[2], u, result, cmd, "async", "15", "shell"}
           l == AuthLine(t, u, result, cmd)
           r == _auth_parse_line(l)
           f == l.fields
<1>1. p \in Seq(T) /\ Len(p) \in {7} /\ <<>> \in Seq(T)
  OBVIOUS
<1>2. p[1] = t[1] /\ p[2] = u /\ p[3] = t[2] /\ p[6] = result
  OBVIOUS
<1>3. f = p \o (IF cmd = <<>> THEN <<>> ELSE <<cmd>>) /\ l.at = hour
  BY DEF AuthLine, Stamped
<1> HIDE DEF p
<1>4. CASE cmd = <<>>
  <2>1. f = p
    BY <1>1, <1>3, <1>4, ConcatEmptySeq
  <2> DEFINE n == Len(f)
  <2>a. n \in 7 .. 7
    BY <1>1, <2>1
  <2> HIDE DEF n
  <2>b. n = 7 /\ ~(n < 7) /\ n \in 7 .. 8
    BY <2>a
  <2>2. Len(f) = 7 /\ ~(Len(f) < 7) /\ Len(f) \in 7 .. 8
    BY <2>b DEF n
  <2> HIDE DEF l
  <2>3. r = [parsed |-> TRUE, at |-> l.at, nas |-> f[1], user |-> f[2], port |-> f[3], result |-> f[6], cmd |-> <<>>]
    BY <2>2, Zenon DEF _auth_parse_line
  <2> QED BY <1>2, <1>3, <1>4, <2>1, <2>2, <2>3 DEF l
<1>5. CASE cmd # <<>>
  <2> DEFINE c == <<cmd>>
  <2>1. c \in Seq(T)
    OBVIOUS
  <2>2. c[1] = cmd /\ Len(c) = 1 /\ 1 \in 1 .. Len(c)
    OBVIOUS
  <2> HIDE DEF c, T
  <2>3. f = p \o c
    BY <1>3, <1>5 DEF c
  <2>4. /\ Len(p \o c) = 7 + Len(c) /\ Len(c) \in Nat
        /\ \A k \in 1 .. 7 : (p \o c)[k] = p[k]
        /\ \A k \in 1 .. Len(c) : (p \o c)[7 + k] = c[k]
    BY <1>1, <2>1, SevenThen
  <2>b. Len(p \o c) = 8 /\ (p \o c)[8] = c[1]
    BY <2>2, <2>4
  <2>5. /\ Len(f) = 8 /\ f[8] = cmd
        /\ f[1] = p[1] /\ f[2] = p[2] /\ f[3] = p[3] /\ f[6] = p[6]
    BY <2>2, <2>3, <2>4, <2>b
  <2>6. ~(Len(f) < 7) /\ Len(f) # 7 /\ Len(f) \in 7 .. 8
    BY <2>5
  <2> HIDE DEF l
  <2>7. r = [parsed |-> TRUE, at |-> l.at, nas |-> f[1], user |-> f[2], port |-> f[3], result |-> f[6], cmd |-> f[8]]
    BY <2>6, Zenon DEF _auth_parse_line
  <2> QED BY <1>2, <1>3, <2>5, <2>6, <2>7 DEF l
<1> QED BY <1>4, <1>5

LEMMA ReadsAccess ==
  ASSUME NEW t, NEW u, NEW message
  PROVE  LET l == AccessLine(t, u, message)
             r == _access_parse_line(l) IN
         /\ l.at = hour /\ Len(l.fields) \in 5 .. 5
         /\ r.parsed /\ r.nas = t[1] /\ r.user = u /\ r.port = t[2] /\ r.message = message
<1> DEFINE l == AccessLine(t, u, message)
           r == _access_parse_line(l)
           f == l.fields
<1>1. f = <<t[1], u, t[2], "async", message>> /\ l.at = hour
  BY DEF AccessLine, Stamped
<1>2. Len(f) = 5 /\ f[1] = t[1] /\ f[2] = u /\ f[3] = t[2] /\ f[5] = message
  BY <1>1
<1>3. ~(Len(f) < 5)
  BY <1>2
<1> HIDE DEF l
<1>4. r = [parsed |-> TRUE, at |-> l.at, nas |-> f[1], user |-> f[2], port |-> f[3], message |-> f[5]]
  BY <1>3, Zenon DEF _access_parse_line
<1> QED BY <1>1, <1>2, <1>4 DEF l

LEMMA ReadsOne ==
  ASSUME NEW t, NEW u, NEW verb, NEW a, NEW S, NEW c \in Seq(S), Len(c) \in {1}
  PROVE  LET l == [at |-> a, fields |-> Fields(t, u, verb, c)] IN
         Len(l.fields) = 8 /\ Tells(_parse_line(l), t, u, verb, c[1])
<1> DEFINE f == Fields(t, u, verb, c)
           l == [at |-> a, fields |-> f]
           n == Len(c)
<1>1. /\ Len(f) = 7 + n /\ f[1] = t[1] /\ f[2] = u /\ f[3] = t[2] /\ f[5] = verb /\ f[6] = "permit"
      /\ \A k \in 1 .. n : f[7 + k] = c[k]
  BY Prefixed
<1>2. n = 1
  OBVIOUS
<1> HIDE DEF f, n
<1>3. Len(f) = 8 /\ f[8] = c[1]
  BY <1>1, <1>2
<1>4. l.fields = f
  OBVIOUS
<1>5. Tells(_parse_line(l), t, u, verb, c[1])
  BY <1>1, <1>3, <1>4, ParsesEight DEF Tells
<1> QED BY <1>3, <1>4, <1>5 DEF f

LEMMA ReadsBrief ==
  ASSUME NEW t, NEW u, NEW verb, NEW a
  PROVE  LET l == [at |-> a, fields |-> Fields(t, u, verb, <<Blank>>)] IN
         Len(l.fields) = 8 /\ Tells(_parse_line(l), t, u, verb, Blank)
<1>1. <<Blank>> \in Seq({Blank}) /\ Len(<<Blank>>) \in {1}
  OBVIOUS
<1>2. <<Blank>>[1] = Blank
  OBVIOUS
<1>3. LET l == [at |-> a, fields |-> Fields(t, u, verb, <<Blank>>)] IN
      Len(l.fields) = 8 /\ Tells(_parse_line(l), t, u, verb, <<Blank>>[1])
  BY <1>1, ReadsOne
<1> QED BY <1>2, <1>3

LEMMA CommandFacts ==
  ASSUME NEW cmd \in Typeable
  PROVE  cmd \in Seq(STRING) /\ Len(cmd) \in 1 .. 3 /\ cmd # <<>> /\ cmd[1] # Blank
<1>1. cmd \in Seq(STRING) /\ Len(cmd) \in 1 .. 3 /\ Blank \notin Range(cmd)
  BY TypeableAssumption
<1>2. cmd \in Seq(STRING) /\ Len(cmd) \in 1 .. 3
  BY <1>1
<1>3. 1 \in DOMAIN cmd /\ cmd # <<>>
  BY <1>2
<1>4. cmd[1] \in Range(cmd)
  BY <1>3 DEF Range
<1> QED BY <1>1, <1>3, <1>4

LEMMA ReadsCommand ==
  ASSUME NEW t \in Terminals, NEW u, NEW cmd \in Typeable, NEW a
  PROVE  LET l == [at |-> a, fields |-> Fields(t, u, "stop", cmd)] IN
         /\ Len(l.fields) \in 8 .. 10
         /\ IF Whole(cmd) THEN Tells(_parse_line(l), t, u, "stop", cmd[1])
            ELSE Garbled(_parse_line(l))
<1> DEFINE f == Fields(t, u, "stop", cmd)
           l == [at |-> a, fields |-> f]
           n == Len(cmd)
<1>0. \A x : <<x, "async">> \notin Terminals /\ <<x, "stop">> \notin Terminals
  BY TerminalsAssumption
<1>1. cmd \in Seq(STRING) /\ n \in 1 .. 3
  BY CommandFacts
<1>2. Len(f) = 7 + n /\ f[1] = t[1] /\ f[2] = u /\ f[3] = t[2] /\ f[4] = "async" /\ f[5] = "stop" /\ f[6] = "permit"
      /\ f[7] = "shell" /\ \A k \in 1 .. n : f[7 + k] = cmd[k]
  BY <1>1, Prefixed
<1>3. n = 1 => f[8] = cmd[1]
  BY <1>2
<1> HIDE DEF f, n
<1>4. l.fields = f
  OBVIOUS
<1>5. CASE n = 1
  <2>1. Whole(cmd)
    BY <1>5 DEF Whole, n
  <2>2. Tells(_parse_line(l), t, u, "stop", cmd[1])
    BY <1>2, <1>3, <1>4, <1>5, ParsesEight DEF Tells
  <2> QED BY <1>2, <1>4, <1>5, <2>1, <2>2 DEF f
<1>6. CASE n \in {2, 3}
  <2>1. ~Whole(cmd)
    BY <1>6 DEF Whole, n
  <2>2. /\ _parse_line(l).parsed
        /\ IF n = 2 THEN _parse_line(l).port = "async" /\ _parse_line(l).accttype = "permit"
                    ELSE _parse_line(l).port = "stop" /\ _parse_line(l).accttype = "shell"
    BY <1>2, <1>4, <1>6 DEF _parse_line
  <2>3. Garbled(_parse_line(l))
    BY <1>0, <1>6, <2>2 DEF Garbled
  <2>4. Len(l.fields) \in 8 .. 10
    BY <1>2, <1>4, <1>6
  <2> QED BY <2>1, <2>3, <2>4 DEF f
<1>7. n \in {1, 2, 3}
  BY <1>1
<1> QED BY <1>5, <1>6, <1>7 DEF f

-----------------------------------------------------------------------------
(* Files only grow.                                                        *)

Written(s, t) == t = s \/ \E e : t = Append(s, e) /\ e.at = hour /\ Len(e.fields) \in 5 .. 10
Grows(s, t) == DOMAIN s \subseteq DOMAIN t /\ \A k \in DOMAIN s : t[k] = s[k]
Dated(s, now) == \A k \in DOMAIN s : s[k].at \in 0 .. now /\ Len(s[k].fields) \in 5 .. 10

LEMMA FileKeeps ==
  ASSUME NEW s, NEW t, s \in Seq(Range(s)), hour \in Nat, Dated(s, hour), Written(s, t), NEW now \in Nat, now >= hour
  PROVE  t \in Seq(Range(t)) /\ Grows(s, t) /\ Dated(t, now)
<1>1. CASE t = s
  BY <1>1 DEF Grows, Dated
<1>2. ASSUME NEW e, t = Append(s, e), e.at = hour, Len(e.fields) \in 5 .. 10
      PROVE  t \in Seq(Range(t)) /\ Grows(s, t) /\ Dated(t, now)
  <2>1. /\ t \in Seq(Range(t)) /\ DOMAIN t = DOMAIN s \cup {Len(s) + 1}
        /\ t[Len(s) + 1] = e /\ \A k \in DOMAIN s : t[k] = s[k]
    BY <1>2, Appending
  <2>2. Dated(t, now)
    BY <1>2, <2>1 DEF Dated
  <2> QED BY <2>1, <2>2 DEF Grows
<1> QED BY <1>1, <1>2 DEF Written

LEMMA FilesKeep ==
  ASSUME LogInv, Written(accessFile, accessFile'), Written(authFile, authFile'), Written(acctFile, acctFile'),
         hour' \in {hour, hour + 1}
  PROVE  /\ LogFiles'
         /\ accessFile' \in Seq(Range(accessFile')) /\ authFile' \in Seq(Range(authFile')) /\ acctFile' \in Seq(Range(acctFile'))
         /\ Grows(accessFile, accessFile') /\ Grows(authFile, authFile') /\ Grows(acctFile, acctFile')
<1>1. hour \in Nat /\ hour' \in Nat /\ hour' >= hour
  BY DEF LogInv, LogShapes
<1>2. Dated(accessFile, hour) /\ Dated(authFile, hour) /\ Dated(acctFile, hour)
  BY DEF LogInv, LogFiles, Dated
<1>3. accessFile \in Seq(Range(accessFile)) /\ authFile \in Seq(Range(authFile)) /\ acctFile \in Seq(Range(acctFile))
  BY DEF LogInv, LogShapes
<1>4. accessFile' \in Seq(Range(accessFile')) /\ Grows(accessFile, accessFile') /\ Dated(accessFile', hour')
  BY <1>1, <1>2, <1>3, FileKeeps
<1>5. authFile' \in Seq(Range(authFile')) /\ Grows(authFile, authFile') /\ Dated(authFile', hour')
  BY <1>1, <1>2, <1>3, FileKeeps
<1>6. acctFile' \in Seq(Range(acctFile')) /\ Grows(acctFile, acctFile') /\ Dated(acctFile', hour')
  BY <1>1, <1>2, <1>3, FileKeeps
<1>7. LogFiles'
  BY <1>4, <1>5, <1>6 DEF LogFiles, Dated
<1> QED BY <1>4, <1>5, <1>6, <1>7

LEMMA AccessWritten == \A t, u, message : Written(accessFile, Append(accessFile, AccessLine(t, u, message)))
  BY ReadsAccess DEF Written
LEMMA AuthWritten == \A t, u, result, cmd : Written(authFile, Append(authFile, AuthLine(t, u, result, cmd)))
  BY ReadsAuth DEF Written

LEMMA AcctReads ==
  ASSUME NEW t, NEW u, NEW verb, NEW cmd
  PROVE  LET l == AcctLine(t, u, verb, cmd) IN
         /\ cmd = <<>> => Written(acctFile, Append(acctFile, l)) /\ Tells(_parse_line(l), t, u, verb, Blank)
         /\ t \in Terminals /\ cmd \in Typeable /\ verb = "stop" =>
              /\ Written(acctFile, Append(acctFile, l))
              /\ IF Whole(cmd) THEN Tells(_parse_line(l), t, u, "stop", cmd[1]) ELSE Garbled(_parse_line(l))
<1> DEFINE l == AcctLine(t, u, verb, cmd)
<1>1. l = [at |-> hour, fields |-> Fields(t, u, verb, IF cmd = <<>> THEN <<Blank>> ELSE cmd)]
  BY Zenon DEF AcctLine, Stamped, Fields
<1>2. ASSUME Len(l.fields) \in 8 .. 10
      PROVE  Written(acctFile, Append(acctFile, l))
  <2>1. l.at = hour /\ Len(l.fields) \in 5 .. 10
    BY <1>1, <1>2
  <2> QED BY <2>1 DEF Written
<1> HIDE DEF l
<1>3. ASSUME cmd = <<>>
      PROVE  Written(acctFile, Append(acctFile, l)) /\ Tells(_parse_line(l), t, u, verb, Blank)
  <2>1. l = [at |-> hour, fields |-> Fields(t, u, verb, <<Blank>>)]
    BY <1>1, <1>3, Zenon
  <2>2. Len(l.fields) = 8 /\ Tells(_parse_line(l), t, u, verb, Blank)
    BY <2>1, ReadsBrief
  <2> QED BY <1>2, <2>2
<1>4. ASSUME t \in Terminals, cmd \in Typeable, verb = "stop"
      PROVE  /\ Written(acctFile, Append(acctFile, l))
             /\ IF Whole(cmd) THEN Tells(_parse_line(l), t, u, "stop", cmd[1]) ELSE Garbled(_parse_line(l))
  <2>1. cmd # <<>>
    BY <1>4, CommandFacts
  <2>2. l = [at |-> hour, fields |-> Fields(t, u, "stop", cmd)]
    BY <1>1, <1>4, <2>1, Zenon
  <2> QED BY <1>2, <1>4, <2>2, ReadsCommand
<1> QED BY <1>3, <1>4 DEF l

-----------------------------------------------------------------------------
(* Every step keeps the invariant.                                         *)

\* Whoever was given a shell had logged in.
LEMMA AuthKeeps ==
  ASSUME LogInv, Grows(accessFile, accessFile'),
         \/ authFile' = authFile
         \/ \E t, u, result, cmd :
              /\ authFile' = Append(authFile, AuthLine(t, u, result, cmd))
              /\ cmd = <<>> /\ result = "permit" => accessFile' = Append(accessFile, AccessLine(t, u, "succeeded"))
  PROVE  AuthInv'
<1> DEFINE R(k) == _auth_parse_line(authFile'[k])
           L(k) == _access_parse_line(accessFile'[k])
           Preceded(r) == r.parsed /\ (r.cmd = <<>> /\ r.result = "permit" =>
             \E m \in DOMAIN accessFile' : LET a == L(m) IN /\ a.parsed /\ a.message = "succeeded"
                                                                 /\ a.nas = r.nas /\ a.port = r.port /\ a.user = r.user)
<1>0. accessFile \in Seq(Range(accessFile)) /\ authFile \in Seq(Range(authFile)) /\ AuthInv
  BY DEF LogInv, LogShapes
<1>1. \A m \in DOMAIN accessFile : m \in DOMAIN accessFile' /\ L(m) = Login(m)
  BY DEF Grows, Login
<1>2. ASSUME NEW k \in DOMAIN authFile, authFile'[k] = authFile[k]
      PROVE  Preceded(R(k))
  <2>1. R(k) = AuthRecord(k)
    BY <1>2 DEF AuthRecord
  <2> QED BY <1>0, <1>1, <2>1 DEF AuthInv
<1>3. CASE authFile' = authFile
  <2>1. \A k \in DOMAIN authFile' : Preceded(R(k))
    BY <1>2, <1>3
  <2> QED BY <2>1 DEF AuthInv, AuthRecord, Login
<1>4. ASSUME NEW t, NEW u, NEW result, NEW cmd,
             authFile' = Append(authFile, AuthLine(t, u, result, cmd)),
             cmd = <<>> /\ result = "permit" => accessFile' = Append(accessFile, AccessLine(t, u, "succeeded"))
      PROVE  AuthInv'
  <2> DEFINE n == Len(authFile) + 1
             m == Len(accessFile) + 1
  <2>1. /\ DOMAIN authFile' = DOMAIN authFile \cup {n} /\ authFile'[n] = AuthLine(t, u, result, cmd)
        /\ \A k \in DOMAIN authFile : authFile'[k] = authFile[k]
    BY <1>0, <1>4, Appending
  <2>2. R(n).parsed /\ R(n).nas = t[1] /\ R(n).user = u /\ R(n).port = t[2] /\ R(n).result = result /\ R(n).cmd = cmd
    BY <2>1, ReadsAuth
  <2>3. ASSUME cmd = <<>>, result = "permit"
        PROVE  \E x \in DOMAIN accessFile' : LET a == L(x) IN /\ a.parsed /\ a.message = "succeeded"
                                                                   /\ a.nas = t[1] /\ a.port = t[2] /\ a.user = u
    <3>1. m \in DOMAIN accessFile' /\ accessFile'[m] = AccessLine(t, u, "succeeded")
      BY <1>0, <1>4, <2>3, Appending
    <3>2. LET a == L(m) IN a.parsed /\ a.message = "succeeded" /\ a.nas = t[1] /\ a.port = t[2] /\ a.user = u
      BY <3>1, ReadsAccess
    <3> QED BY <3>1, <3>2
  <2>4. Preceded(R(n))
    BY <2>2, <2>3
  <2> HIDE DEF n, Preceded, R
  <2>5. \A k \in DOMAIN authFile' : Preceded(R(k))
    BY <1>2, <2>1, <2>4
  <2> QED BY <2>5 DEF AuthInv, Preceded, R, AuthRecord, Login
<1> QED BY <1>3, <1>4

\* What the sessions are is not touched by what is written in the other files.
LEMMA SessionsKeep ==
  ASSUME LogInv, UNCHANGED << acctFile, shell, lived, murky >>
  PROVE  OpenInv' /\ SourceInv' /\ (\A i \in DOMAIN lived' : SessionInv(i)') /\ \A i, j \in DOMAIN lived' : i # j => ApartInv(i, j)'
<1>1. \A i : LinesOf(i)' = LinesOf(i)
  BY DEF LinesOf
<1>2. \A k : LogRecord(k)' = LogRecord(k)
  BY DEF LogRecord
<1>3. OpenInv' /\ SourceInv'
  BY <1>1 DEF LogInv, OpenInv, SourceInv
<1>4. \A i \in DOMAIN lived' : SessionInv(i)'
  BY <1>1, <1>2 DEF LogInv, SessionInv
<1>5. \A i, j \in DOMAIN lived' : i # j => ApartInv(i, j)'
  BY <1>1 DEF LogInv, ApartInv
<1> QED BY <1>3, <1>4, <1>5

LEMMA RefusedStep ==
  ASSUME LogInv, NEW t \in Terminals, NEW u \in Users, Refused(t, u)
  PROVE  LogInv'
<1>1. Written(accessFile, accessFile') /\ Written(authFile, authFile') /\ Written(acctFile, acctFile') /\ hour' = hour
  <2>1. CASE UNCHANGED authFile
    BY <2>1, AccessWritten DEF Refused, Written
  <2>2. CASE authFile' = Append(authFile, AuthLine(t, u, "deny", <<>>))
    BY <2>2, AccessWritten, AuthWritten DEF Refused, Written
  <2> QED BY <2>1, <2>2 DEF Refused
<1>2. /\ LogFiles' /\ Grows(accessFile, accessFile')
      /\ accessFile' \in Seq(Range(accessFile')) /\ authFile' \in Seq(Range(authFile')) /\ acctFile' \in Seq(Range(acctFile'))
  BY <1>1, FilesKeep
<1>3. LogShapes'
  BY <1>2, TailsAssumption DEF LogInv, LogShapes, Refused, Oddly
<1>4. AuthInv'
  BY <1>2, AuthKeeps DEF Refused
<1>5. OpenInv' /\ SourceInv' /\ (\A i \in DOMAIN lived' : SessionInv(i)') /\ \A i, j \in DOMAIN lived' : i # j => ApartInv(i, j)'
  BY SessionsKeep DEF Refused
<1> QED BY <1>2, <1>3, <1>4, <1>5 DEF LogInv

LEMMA HourStep ==
  ASSUME LogInv, HourPasses
  PROVE  LogInv'
<1>1. Written(accessFile, accessFile') /\ Written(authFile, authFile') /\ Written(acctFile, acctFile') /\ hour' = hour + 1
  BY DEF HourPasses, Written
<1>2. LogFiles' /\ Grows(accessFile, accessFile')
  BY <1>1, FilesKeep
<1>3. LogShapes'
  BY TailsAssumption DEF LogInv, LogShapes, HourPasses, Oddly
<1>4. AuthInv'
  BY <1>2, AuthKeeps DEF HourPasses
<1>5. OpenInv' /\ SourceInv' /\ (\A i \in DOMAIN lived' : SessionInv(i)') /\ \A i, j \in DOMAIN lived' : i # j => ApartInv(i, j)'
  BY SessionsKeep DEF HourPasses
<1> QED BY <1>2, <1>3, <1>4, <1>5 DEF LogInv

LEMMA SessionRows ==
  ASSUME LogShapes
  PROVE  /\ DOMAIN lived = 1 .. Len(lived) /\ Len(lived) \in Nat
         /\ \A i \in DOMAIN lived : /\ i \in Nat \ {0} /\ lived[i] \in SessionRow /\ lived[i].terminal \in Terminals
                                   /\ lived[i].user \in Users /\ lived[i].over \in BOOLEAN
                                   /\ lived[i].line \in Nat /\ lived[i].stop \in Nat /\ DOMAIN lived[i].ran \subseteq Nat
                                   /\ \A k \in DOMAIN lived[i].ran : lived[i].ran[k] \in Typeable
<1>1. lived \in Seq(SessionRow)
  BY DEF LogShapes
<1>2. DOMAIN lived = 1 .. Len(lived) /\ Len(lived) \in Nat /\ \A i \in DOMAIN lived : i \in Nat \ {0} /\ lived[i] \in SessionRow
  BY <1>1
<1>3. \A r \in SessionRow : /\ r.terminal \in Terminals /\ r.user \in Users /\ r.over \in BOOLEAN /\ r.line \in Nat /\ r.stop \in Nat
                            /\ r.ran \in Commands
  BY DEF SessionRow
<1>4. \A f \in Commands : DOMAIN f \subseteq Nat /\ \A k \in DOMAIN f : f[k] \in Typeable
  BY DEF Commands
<1> QED BY <1>2, <1>3, <1>4

\* A session that nothing was written of is what it was.
LEMMA SessionKeeps ==
  ASSUME LogInv, Grows(acctFile, acctFile'), NEW i \in DOMAIN lived, lived'[i] = lived[i],
         shell'[lived[i].terminal] = shell[lived[i].terminal] \/ lived[i].over, murky \subseteq murky'
  PROVE  SessionInv(i)' /\ LinesOf(i)' = LinesOf(i)
<1>1. SessionInv(i)
  BY DEF LogInv
<1>2. LinesOf(i)' = LinesOf(i)
  BY DEF LinesOf
<1>3. LinesOf(i) \subseteq DOMAIN acctFile'
  BY <1>1 DEF SessionInv, Grows
<1>4. \A k \in LinesOf(i) : acctFile'[k] = acctFile[k]
  BY <1>1 DEF SessionInv, Grows
<1>5. \A k \in DOMAIN lived[i].ran : acctFile'[k] = acctFile[k]
  BY <1>4 DEF LinesOf
<1>6. /\ lived[i].line # 0 => acctFile'[lived[i].line] = acctFile[lived[i].line]
      /\ lived[i].stop # 0 => acctFile'[lived[i].stop] = acctFile[lived[i].stop]
  BY <1>4 DEF LinesOf
<1>7. ~lived[i].over => lived[i].stop = 0 /\ shell'[lived[i].terminal] = i
  BY <1>1 DEF SessionInv
<1>8. lived[i].terminal \notin murky' => lived[i].line # 0
  BY <1>1 DEF SessionInv
<1> QED BY <1>1, <1>2, <1>3, <1>5, <1>6, <1>7, <1>8 DEF SessionInv, LogRecord

LEMMA OpensStep ==
  ASSUME LogInv, NEW t \in Terminals, NEW u \in Users, ShellOpens(t, u)
  PROVE  LogInv'
<1>1. PICK lost \in BOOLEAN :
        /\ Room /\ shell[t] = 0 /\ Oddly(lost)
        /\ accessFile' = Append(accessFile, AccessLine(t, u, "succeeded"))
        /\ authFile' = Append(authFile, AuthLine(t, u, "permit", <<>>))
        /\ acctFile' = IF lost THEN acctFile ELSE Append(acctFile, AcctLine(t, u, "start", <<>>))
        /\ murky' = IF lost THEN murky \cup {t} ELSE murky
        /\ lived' = Append(lived, [terminal |-> t, user |-> u, line |-> IF lost THEN 0 ELSE Len(acctFile) + 1,
                                   ran |-> <<>>, over |-> FALSE, stop |-> 0])
        /\ shell' = [shell EXCEPT ![t] = Len(lived) + 1]
        /\ UNCHANGED hour
  BY DEF ShellOpens
<1>2. PICK me : me = [terminal |-> t, user |-> u, line |-> IF lost THEN 0 ELSE Len(acctFile) + 1,
                      ran |-> <<>>, over |-> FALSE, stop |-> 0]
  OBVIOUS
<1>3. PICK line : line = Len(acctFile) + 1
  OBVIOUS
<1>4. PICK n : n = Len(lived) + 1
  OBVIOUS
<1>5. Written(accessFile, accessFile') /\ Written(authFile, authFile') /\ Written(acctFile, acctFile') /\ hour' = hour
  <2>1. Written(accessFile, accessFile') /\ Written(authFile, authFile')
    BY <1>1, AccessWritten, AuthWritten
  <2>2. Written(acctFile, Append(acctFile, AcctLine(t, u, "start", <<>>)))
    BY AcctReads
  <2>3. Written(acctFile, acctFile')
    BY <1>1, <2>2 DEF Written
  <2> QED BY <1>1, <2>1, <2>3
<1>6. /\ LogFiles' /\ Grows(accessFile, accessFile') /\ Grows(acctFile, acctFile')
      /\ accessFile' \in Seq(Range(accessFile')) /\ authFile' \in Seq(Range(authFile')) /\ acctFile' \in Seq(Range(acctFile'))
  BY <1>5, FilesKeep
<1>7. AuthInv'
  BY <1>1, <1>6, AuthKeeps
<1>8. acctFile \in Seq(Range(acctFile)) /\ lived \in Seq(SessionRow) /\ shell \in [Terminals -> 0 .. Len(lived)]
  BY DEF LogInv, LogShapes
<1>9. line \in Nat \ {0} /\ (\A k \in DOMAIN acctFile : k < line) /\ line \notin DOMAIN acctFile /\ DOMAIN acctFile \subseteq Nat
  BY <1>3, <1>8
<1>10. /\ lost => acctFile' = acctFile
       /\ ~lost => /\ DOMAIN acctFile' = DOMAIN acctFile \cup {line} /\ Tells(_parse_line(acctFile'[line]), t, u, "start", Blank)
                   /\ Len(acctFile') <= MaxLines
  <2>1. ASSUME ~lost
        PROVE  /\ DOMAIN acctFile' = DOMAIN acctFile \cup {line} /\ acctFile'[line] = AcctLine(t, u, "start", <<>>)
               /\ Len(acctFile') = Len(acctFile) + 1 /\ Len(acctFile) \in Nat
    BY <1>1, <1>3, <1>8, <2>1, Appending
  <2>2. Tells(_parse_line(AcctLine(t, u, "start", <<>>)), t, u, "start", Blank)
    BY AcctReads
  <2> QED BY <1>1, <2>1, <2>2, TailsAssumption DEF Room
<1>11. /\ DOMAIN lived' = DOMAIN lived \cup {n} /\ n \notin DOMAIN lived /\ lived'[n] = me /\ n \in Nat \ {0}
       /\ \A i \in DOMAIN lived : lived'[i] = lived[i] /\ i < n /\ i \in Nat \ {0}
       /\ Len(lived') = n
  BY <1>1, <1>2, <1>4, <1>8
<1>12. me \in SessionRow /\ DOMAIN me.ran = {}
  <2>1. <<>> \in [{} -> Typeable]
    OBVIOUS
  <2>2. <<>> \in Commands
    BY <2>1 DEF Commands
  <2>3. me.line \in Nat
    BY <1>2, <1>3, <1>9
  <2> QED BY <1>2, <2>2, <2>3 DEF SessionRow
<1>13. lived' \in Seq(SessionRow)
  BY <1>1, <1>2, <1>8, <1>12
<1>14. LogShapes'
  <2>1. shell' \in [Terminals -> 0 .. Len(lived')]
    BY <1>1, <1>4, <1>8, <1>11
  <2>2. Len(acctFile') <= MaxLines
    BY <1>10 DEF LogInv, LogShapes
  <2>3. hour' \in 0 .. odd' /\ odd' \in 0 .. MaxOdd
    BY <1>1, TailsAssumption DEF LogInv, LogShapes, Oddly
  <2>4. murky' \subseteq Terminals
    BY <1>1 DEF LogInv, LogShapes
  <2> QED BY <1>6, <1>13, <2>1, <2>2, <2>3, <2>4 DEF LogShapes
<1>15. shell'[t] = n /\ \A x \in Terminals \ {t} : shell'[x] = shell[x]
  BY <1>1, <1>4, <1>8
<1>16. \A i \in DOMAIN lived : lived[i].terminal = t => lived[i].over
  <2>1. \A i \in DOMAIN lived : ~lived[i].over => shell[lived[i].terminal] = i
    BY DEF LogInv, SessionInv
  <2> QED BY <1>1, <1>11, <2>1
<1>17. \A i \in DOMAIN lived : lived[i].terminal \in Terminals
  BY SessionRows DEF LogInv
<1>18. murky \subseteq murky'
  BY <1>1
<1>19. \A i \in DOMAIN lived : SessionInv(i)' /\ LinesOf(i)' = LinesOf(i)
  BY <1>6, <1>11, <1>15, <1>16, <1>17, <1>18, SessionKeeps
<1>20. LinesOf(n)' = IF lost THEN {} ELSE {line}
  BY <1>2, <1>3, <1>9, <1>11, <1>12 DEF LinesOf
<1>21. SessionInv(n)'
  <2>1. LinesOf(n)' \subseteq DOMAIN acctFile'
    BY <1>10, <1>20
  <2>2. me.line # 0 => Tells(_parse_line(acctFile'[me.line]), me.terminal, me.user, "start", Blank)
    BY <1>2, <1>3, <1>9, <1>10
  <2>3. me.terminal \notin murky' => me.line # 0
    BY <1>1, <1>2, <1>3, <1>9
  <2> QED BY <1>2, <1>11, <1>12, <1>15, <2>1, <2>2, <2>3 DEF SessionInv, LogRecord
<1>22. OpenInv'
  BY <1>2, <1>8, <1>11, <1>15 DEF LogInv, OpenInv
<1>23. SourceInv'
  <2>1. \A k \in DOMAIN acctFile : \E i \in DOMAIN lived' : k \in LinesOf(i)'
    BY <1>11, <1>19 DEF LogInv, SourceInv
  <2>2. ~lost => line \in LinesOf(n)'
    BY <1>20
  <2> QED BY <1>10, <1>11, <2>1, <2>2 DEF SourceInv
<1>24. ASSUME NEW i \in DOMAIN lived', NEW j \in DOMAIN lived', i # j
       PROVE  ApartInv(i, j)'
  <2>1. \A x \in DOMAIN lived : LinesOf(x) \subseteq DOMAIN acctFile
    BY DEF LogInv, SessionInv
  <2>2. CASE i \in DOMAIN lived /\ j \in DOMAIN lived
    <3>1. ApartInv(i, j)
      BY <1>24, <2>2 DEF LogInv
    <3> QED BY <1>11, <1>19, <2>2, <3>1 DEF ApartInv
  <2>3. CASE i = n
    <3>1. j \in DOMAIN lived /\ j < i /\ ~(i < j) /\ LinesOf(j)' \subseteq DOMAIN acctFile
      BY <1>11, <1>19, <1>24, <2>1, <2>3
    <3> QED BY <1>9, <1>20, <2>3, <3>1 DEF ApartInv
  <2>4. CASE j = n
    <3>1. i \in DOMAIN lived /\ LinesOf(i)' \subseteq DOMAIN acctFile
      BY <1>11, <1>19, <1>24, <2>1, <2>4
    <3>2. lived'[i].terminal = lived'[j].terminal => lived'[i].over
      BY <1>2, <1>11, <1>16, <2>4, <3>1
    <3>3. LinesOf(i)' \cap LinesOf(j)' = {} /\ \A k \in LinesOf(i)', m \in LinesOf(j)' : k < m
      BY <1>9, <1>20, <2>4, <3>1
    <3> QED BY <3>2, <3>3 DEF ApartInv
  <2> QED BY <1>11, <2>2, <2>3, <2>4
<1> QED BY <1>6, <1>7, <1>11, <1>14, <1>19, <1>21, <1>22, <1>23, <1>24 DEF LogInv

\* A line of a session that is open is after all others.
LEMMA LineOfOpen ==
  ASSUME LogInv, NEW n \in DOMAIN lived, ~lived[n].over,
         DOMAIN lived' = DOMAIN lived, lived'[n].terminal = lived[n].terminal, lived'[n].user = lived[n].user,
         lived'[n].line = lived[n].line, \A i \in DOMAIN lived \ {n} : lived'[i] = lived[i],
         Grows(acctFile, acctFile'), NEW line, line = Len(acctFile) + 1,
         LinesOf(n) \subseteq LinesOf(n)', LinesOf(n)' \subseteq LinesOf(n) \cup {line},
         DOMAIN acctFile' \subseteq DOMAIN acctFile \cup (LinesOf(n)' \cap {line}),
         \A x \in Terminals : shell'[x] = shell[x] \/ shell[x] = n, UNCHANGED murky, SessionInv(n)',
         \A x \in Terminals : shell'[x] # 0 => shell'[x] = shell[x] /\ (shell[x] = n => ~lived'[n].over)
  PROVE  OpenInv' /\ SourceInv' /\ (\A i \in DOMAIN lived' : SessionInv(i)') /\ \A i, j \in DOMAIN lived' : i # j => ApartInv(i, j)'
<1>1. acctFile \in Seq(Range(acctFile)) /\ LogShapes /\ shell \in [Terminals -> 0 .. Len(lived)]
  BY DEF LogInv, LogShapes
<1>2. DOMAIN acctFile \subseteq Nat /\ line \in Nat /\ \A k \in DOMAIN acctFile : k < line
  BY <1>1
<1>3. \A i \in DOMAIN lived : /\ SessionInv(i) /\ LinesOf(i) \subseteq DOMAIN acctFile /\ i \in Nat \ {0}
                              /\ lived[i].terminal \in Terminals
  BY <1>1, SessionRows DEF LogInv, SessionInv
<1>4. \A i \in DOMAIN lived \ {n} : SessionInv(i)' /\ LinesOf(i)' = LinesOf(i)
  <2> SUFFICES ASSUME NEW i \in DOMAIN lived \ {n}
               PROVE  SessionInv(i)' /\ LinesOf(i)' = LinesOf(i)
    OBVIOUS
  <2>1. lived[i].over \/ shell[lived[i].terminal] = i
    BY <1>3 DEF SessionInv
  <2>2. lived[i].over \/ shell'[lived[i].terminal] = shell[lived[i].terminal]
    BY <1>3, <2>1
  <2> QED BY <2>2, SessionKeeps
<1>5. OpenInv'
  <2> SUFFICES ASSUME NEW x \in Terminals, shell'[x] # 0
               PROVE  lived'[shell'[x]].terminal = x /\ ~lived'[shell'[x]].over
    BY DEF OpenInv
  <2>1. shell'[x] = shell[x] /\ shell[x] # 0 /\ lived[shell[x]].terminal = x /\ ~lived[shell[x]].over
    BY DEF LogInv, OpenInv
  <2>2. shell[x] \in DOMAIN lived
    BY <1>1, <2>1, SessionRows
  <2>3. CASE shell[x] = n
    BY <2>1, <2>3
  <2>4. CASE shell[x] # n
    BY <2>1, <2>2, <2>4
  <2> QED BY <2>3, <2>4
<1>6. SourceInv'
  <2> SUFFICES ASSUME NEW k \in DOMAIN acctFile'
               PROVE  \E i \in DOMAIN lived' : k \in LinesOf(i)'
    BY DEF SourceInv
  <2>1. CASE k \in LinesOf(n)'
    BY <2>1
  <2>2. CASE k \notin LinesOf(n)'
    <3>1. PICK i \in DOMAIN lived : k \in LinesOf(i)
      BY <2>2 DEF LogInv, SourceInv
    <3>2. i # n
      BY <2>2, <3>1
    <3> QED BY <1>4, <3>1, <3>2
  <2> QED BY <2>1, <2>2
<1>7. \A j \in DOMAIN lived \ {n} : lived[j].terminal = lived[n].terminal => j < n
  <2> SUFFICES ASSUME NEW j \in DOMAIN lived \ {n}, lived[j].terminal = lived[n].terminal, n < j
               PROVE  FALSE
    BY <1>3
  <2>1. ApartInv(n, j)
    BY DEF LogInv
  <2> QED BY <2>1 DEF ApartInv
<1>8. ASSUME NEW i \in DOMAIN lived', NEW j \in DOMAIN lived', i # j
      PROVE  ApartInv(i, j)'
  <2>1. ApartInv(i, j) /\ ApartInv(j, i)
    BY <1>8 DEF LogInv
  <2>2. CASE i # n /\ j # n
    <3>1. LinesOf(i)' = LinesOf(i) /\ LinesOf(j)' = LinesOf(j) /\ lived'[i] = lived[i] /\ lived'[j] = lived[j]
      BY <1>4, <2>2
    <3> QED BY <2>1, <3>1 DEF ApartInv
  <2>3. CASE i = n
    <3>1. LinesOf(j)' = LinesOf(j) /\ lived'[j] = lived[j] /\ line \notin LinesOf(j)
      BY <1>2, <1>3, <1>4, <1>8, <2>3
    <3>2. LinesOf(i)' \cap LinesOf(j)' = {}
      BY <2>1, <2>3, <3>1 DEF ApartInv
    <3>3. ~(i < j /\ lived'[i].terminal = lived'[j].terminal)
      BY <1>3, <1>7, <1>8, <2>3, <3>1
    <3> QED BY <3>2, <3>3 DEF ApartInv
  <2>4. CASE j = n
    <3>1. LinesOf(i)' = LinesOf(i) /\ lived'[i] = lived[i] /\ line \notin LinesOf(i)
      BY <1>2, <1>3, <1>4, <1>8, <2>4
    <3>2. LinesOf(i)' \cap LinesOf(j)' = {}
      BY <2>1, <2>4, <3>1 DEF ApartInv
    <3>3. i < j /\ lived'[i].terminal = lived'[j].terminal => lived'[i].over
      BY <2>1, <2>4, <3>1 DEF ApartInv
    <3>4. ASSUME i < j, lived'[i].terminal = lived'[j].terminal, NEW k \in LinesOf(i)', NEW m \in LinesOf(j)'
          PROVE  k < m
      <4>1. k \in LinesOf(i) /\ k \in DOMAIN acctFile
        BY <1>3, <3>1
      <4>2. m \in LinesOf(j) \/ m = line
        BY <2>4
      <4>3. CASE m \in LinesOf(j)
        BY <2>1, <2>4, <3>1, <3>4, <4>1, <4>3 DEF ApartInv
      <4> QED BY <1>2, <4>1, <4>2, <4>3
    <3> QED BY <3>2, <3>3, <3>4 DEF ApartInv
  <2> QED BY <2>2, <2>3, <2>4
<1>9. \A i \in DOMAIN lived' : SessionInv(i)'
  BY <1>4
<1> QED BY <1>5, <1>6, <1>8, <1>9

\* Who is at a terminal.
LEMMA AtTerminal ==
  ASSUME LogInv, NEW t \in Terminals, shell[t] # 0, NEW n, n = shell[t]
  PROVE  /\ n \in DOMAIN lived /\ n \in Nat \ {0} /\ lived[n].terminal = t /\ ~lived[n].over /\ lived[n].stop = 0
         /\ \A x \in Terminals : shell[x] = n => x = t
         /\ SessionInv(n) /\ lived[n] \in SessionRow
<1>1. LogShapes /\ OpenInv /\ shell \in [Terminals -> 0 .. Len(lived)]
  BY DEF LogInv, LogShapes
<1>2. n \in DOMAIN lived /\ n \in Nat \ {0} /\ lived[n] \in SessionRow
  BY <1>1, SessionRows
<1>3. lived[n].terminal = t /\ ~lived[n].over /\ \A x \in Terminals : shell[x] = n => x = t
  BY <1>1, <1>2 DEF OpenInv
<1>4. SessionInv(n)
  BY <1>2 DEF LogInv
<1>5. lived[n].stop = 0
  BY <1>3, <1>4 DEF SessionInv
<1> QED BY <1>2, <1>3, <1>4, <1>5

LEMMA AcctAppended ==
  ASSUME LogInv, Room, NEW l, acctFile' = Append(acctFile, l), NEW line, line = Len(acctFile) + 1
  PROVE  /\ DOMAIN acctFile' = DOMAIN acctFile \cup {line} /\ acctFile'[line] = l /\ Len(acctFile') <= MaxLines
         /\ line \in Nat \ {0} /\ line \notin DOMAIN acctFile /\ \A k \in DOMAIN acctFile : k \in Nat /\ k < line
<1>1. acctFile \in Seq(Range(acctFile)) /\ Len(acctFile) \in Nat /\ Len(acctFile) < MaxLines /\ MaxLines \in Nat
  BY TailsAssumption DEF LogInv, LogShapes, Room
<1>2. DOMAIN acctFile' = DOMAIN acctFile \cup {line} /\ acctFile'[line] = l /\ Len(acctFile') = Len(acctFile) + 1
  BY <1>1, Appending
<1>3. line \in Nat \ {0} /\ line \notin DOMAIN acctFile /\ \A k \in DOMAIN acctFile : k \in Nat /\ k < line
  BY <1>1
<1> QED BY <1>1, <1>2, <1>3

LEMMA TypedStep ==
  ASSUME LogInv, NEW t \in Terminals, NEW cmd \in Typeable, CommandTyped(t, cmd)
  PROVE  LogInv'
<1>0. PICK n : n = shell[t]
  OBVIOUS
<1>1. PICK line : line = Len(acctFile) + 1
  OBVIOUS
<1>2. /\ n \in DOMAIN lived /\ n \in Nat \ {0} /\ lived[n].terminal = t /\ ~lived[n].over /\ lived[n].stop = 0
      /\ \A x \in Terminals : shell[x] = n => x = t
      /\ SessionInv(n) /\ lived[n] \in SessionRow
  BY <1>0, AtTerminal DEF CommandTyped
<1>3. cmd # <<>>
  BY CommandFacts
<1>4. PICK result \in {"deny", "permit"} : authFile' = Append(authFile, AuthLine(t, lived[n].user, result, cmd))
  BY <1>0 DEF CommandTyped
<1>5. AuthInv' \/ ~Grows(accessFile, accessFile')
  BY <1>3, <1>4, AuthKeeps
<1>6. odd' \in 0 .. MaxOdd /\ odd' >= odd /\ hour' = hour
  BY TailsAssumption DEF LogInv, LogShapes, CommandTyped, Oddly
<1>7. Written(accessFile, accessFile') /\ Written(authFile, authFile')
  <2>1. accessFile' = accessFile
    BY DEF CommandTyped
  <2> QED BY <1>4, <2>1, AuthWritten DEF Written
<1>8. CASE UNCHANGED << acctFile, lived >>
  <2>1. UNCHANGED << acctFile, shell, lived, murky >>
    BY <1>8 DEF CommandTyped
  <2>2. Written(acctFile, acctFile')
    BY <1>8 DEF Written
  <2>3. /\ LogFiles' /\ Grows(accessFile, accessFile')
        /\ accessFile' \in Seq(Range(accessFile')) /\ authFile' \in Seq(Range(authFile')) /\ acctFile' \in Seq(Range(acctFile'))
    BY <1>6, <1>7, <2>2, FilesKeep
  <2>4. LogShapes'
    BY <1>6, <2>1, <2>3 DEF LogInv, LogShapes
  <2>5. OpenInv' /\ SourceInv' /\ (\A i \in DOMAIN lived' : SessionInv(i)') /\ \A i, j \in DOMAIN lived' : i # j => ApartInv(i, j)'
    BY <2>1, SessionsKeep
  <2> QED BY <1>5, <2>3, <2>4, <2>5 DEF LogInv
<1>9. CASE ~UNCHANGED << acctFile, lived >>
  <2>1. PICK ran : ran = [k \in DOMAIN lived[n].ran \cup {line} |-> IF k = line THEN cmd ELSE lived[n].ran[k]]
    OBVIOUS
  <2>2. /\ acctFile' = Append(acctFile, AcctLine(t, lived[n].user, "stop", cmd)) /\ Room /\ UNCHANGED << shell, murky >>
        /\ lived' = [lived EXCEPT ![n].ran = ran]
    BY <1>0, <1>1, <1>9, <2>1 DEF CommandTyped
  <2>3. /\ DOMAIN acctFile' = DOMAIN acctFile \cup {line} /\ acctFile'[line] = AcctLine(t, lived[n].user, "stop", cmd)
        /\ Len(acctFile') <= MaxLines
        /\ line \in Nat \ {0} /\ line \notin DOMAIN acctFile /\ \A k \in DOMAIN acctFile : k \in Nat /\ k < line
    BY <1>1, <2>2, AcctAppended
  <2>4. /\ Written(acctFile, acctFile')
        /\ IF Whole(cmd) THEN Tells(_parse_line(acctFile'[line]), t, lived[n].user, "stop", cmd[1])
           ELSE Garbled(_parse_line(acctFile'[line]))
    BY <2>2, <2>3, AcctReads
  <2>5. /\ LogFiles' /\ Grows(accessFile, accessFile') /\ Grows(acctFile, acctFile')
        /\ accessFile' \in Seq(Range(accessFile')) /\ authFile' \in Seq(Range(authFile')) /\ acctFile' \in Seq(Range(acctFile'))
    BY <1>6, <1>7, <2>4, FilesKeep
  <2>6. lived \in Seq(SessionRow) /\ shell \in [Terminals -> 0 .. Len(lived)] /\ LogShapes
    BY DEF LogInv, LogShapes
  <2>7. /\ DOMAIN lived[n].ran \subseteq Nat /\ lived[n].ran \in Commands /\ lived[n].line \in Nat
        /\ \A k \in DOMAIN lived[n].ran : lived[n].ran[k] \in Typeable
    BY <1>2, <2>6, SessionRows DEF SessionRow
  <2>8. DOMAIN ran = DOMAIN lived[n].ran \cup {line} /\ ran[line] = cmd /\ \A k \in DOMAIN lived[n].ran \ {line} : ran[k] = lived[n].ran[k]
    BY <2>1
  <2>9. ran \in Commands
    <3>1. DOMAIN lived[n].ran \cup {line} \in SUBSET Nat
      BY <2>3, <2>7
    <3>2. ran \in [DOMAIN lived[n].ran \cup {line} -> Typeable]
      BY <2>1, <2>7
    <3> QED BY <3>1, <3>2 DEF Commands
  <2>10. /\ lived' \in Seq(SessionRow) /\ DOMAIN lived' = DOMAIN lived /\ Len(lived') = Len(lived)
         /\ \A i \in DOMAIN lived \ {n} : lived'[i] = lived[i]
         /\ lived'[n] = [lived[n] EXCEPT !.ran = ran]
    <3>1. [lived[n] EXCEPT !.ran = ran] \in SessionRow
      BY <1>2, <2>9 DEF SessionRow
    <3> QED BY <1>2, <2>2, <2>6, <3>1
  <2>11. /\ lived'[n].ran = ran /\ lived'[n].terminal = t /\ lived'[n].user = lived[n].user /\ lived'[n].line = lived[n].line
         /\ ~lived'[n].over /\ lived'[n].stop = 0
    BY <1>2, <2>10 DEF SessionRow
  <2>12. LinesOf(n)' = LinesOf(n) \cup {line}
    BY <1>2, <2>8, <2>11 DEF LinesOf
  <2>13. SessionInv(n)'
    <3>1. LinesOf(n) \subseteq DOMAIN acctFile
      BY <1>2 DEF SessionInv
    <3>2. LinesOf(n)' \subseteq DOMAIN acctFile'
      BY <2>3, <2>12, <3>1
    <3>3. \A k \in LinesOf(n) : acctFile'[k] = acctFile[k] /\ k < line
      BY <2>3, <2>5, <3>1 DEF Grows
    <3>4. (lived[n].line # 0 => acctFile'[lived[n].line] = acctFile[lived[n].line]) /\ lived[n].line < line
      BY <2>3, <3>3 DEF LinesOf
    <3>5. \A k \in DOMAIN lived[n].ran : acctFile'[k] = acctFile[k] /\ k # line
      BY <2>3, <3>3 DEF LinesOf
    <3>6. lived[n].line # 0 => Tells(_parse_line(acctFile'[lived[n].line]), t, lived[n].user, "start", Blank)
      BY <1>2, <3>4 DEF SessionInv, LogRecord
    <3>7. \A k \in DOMAIN ran : /\ IF Whole(ran[k]) THEN /\ Tells(_parse_line(acctFile'[k]), t, lived[n].user, "stop", ran[k][1])
                                                         /\ ran[k][1] # Blank
                                   ELSE Garbled(_parse_line(acctFile'[k]))
                                /\ lived[n].line < k
      <4> SUFFICES ASSUME NEW k \in DOMAIN ran
                   PROVE  /\ IF Whole(ran[k]) THEN /\ Tells(_parse_line(acctFile'[k]), t, lived[n].user, "stop", ran[k][1])
                                                   /\ ran[k][1] # Blank
                             ELSE Garbled(_parse_line(acctFile'[k]))
                          /\ lived[n].line < k
        OBVIOUS
      <4>1. CASE k = line
        BY <2>4, <2>8, <3>4, <4>1, CommandFacts
      <4>2. CASE k # line
        <5>1. k \in DOMAIN lived[n].ran /\ ran[k] = lived[n].ran[k] /\ acctFile'[k] = acctFile[k]
          BY <2>8, <3>5, <4>2
        <5> QED BY <1>2, <5>1 DEF SessionInv, LogRecord
      <4> QED BY <4>1, <4>2
    <3>8. shell'[t] = n
      BY <1>0, <2>2
    <3>9. t \notin murky' => lived[n].line # 0
      BY <1>2, <2>2 DEF SessionInv
    <3> QED BY <2>11, <3>2, <3>6, <3>7, <3>8, <3>9 DEF SessionInv, LogRecord
  <2>14. LogShapes'
    <3>1. shell' \in [Terminals -> 0 .. Len(lived')]
      BY <2>2, <2>6, <2>10
    <3>2. hour' \in 0 .. odd' /\ odd' \in 0 .. MaxOdd
      BY <1>6 DEF LogInv, LogShapes
    <3>3. murky' \subseteq Terminals
      BY <2>2 DEF LogInv, LogShapes
    <3> QED BY <2>3, <2>5, <2>10, <3>1, <3>2, <3>3 DEF LogShapes
  <2>15. OpenInv' /\ SourceInv' /\ (\A i \in DOMAIN lived' : SessionInv(i)') /\ \A i, j \in DOMAIN lived' : i # j => ApartInv(i, j)'
    <3>1. DOMAIN acctFile' \subseteq DOMAIN acctFile \cup (LinesOf(n)' \cap {line})
      BY <2>3, <2>12
    <3>2. \A x \in Terminals : shell'[x] = shell[x]
      BY <2>2
    <3>3. lived'[n].terminal = lived[n].terminal
      BY <1>2, <2>11
    <3> QED BY <1>1, <1>2, <2>2, <2>5, <2>10, <2>11, <2>12, <2>13, <3>1, <3>2, <3>3, LineOfOpen
  <2> QED BY <1>5, <2>5, <2>14, <2>15 DEF LogInv
<1> QED BY <1>8, <1>9

LEMMA ClosesStep ==
  ASSUME LogInv, NEW t \in Terminals, ShellCloses(t)
  PROVE  LogInv'
<1>0. PICK n : n = shell[t]
  OBVIOUS
<1>1. PICK line : line = Len(acctFile) + 1
  OBVIOUS
<1>2. /\ n \in DOMAIN lived /\ n \in Nat \ {0} /\ lived[n].terminal = t /\ ~lived[n].over /\ lived[n].stop = 0
      /\ \A x \in Terminals : shell[x] = n => x = t
      /\ SessionInv(n) /\ lived[n] \in SessionRow
  BY <1>0, AtTerminal DEF ShellCloses
<1>3. PICK told \in BOOLEAN :
        /\ Oddly(~told)
        /\ told => Room
        /\ acctFile' = IF told THEN Append(acctFile, AcctLine(t, lived[n].user, "stop", <<>>)) ELSE acctFile
        /\ lived' = [lived EXCEPT ![n].over = TRUE, ![n].stop = IF told THEN line ELSE 0]
        /\ shell' = [shell EXCEPT ![t] = 0]
        /\ UNCHANGED << accessFile, authFile, murky, hour >>
  BY <1>0, <1>1 DEF ShellCloses
<1>4. LogShapes /\ lived \in Seq(SessionRow) /\ shell \in [Terminals -> 0 .. Len(lived)] /\ acctFile \in Seq(Range(acctFile))
  BY DEF LogInv, LogShapes
<1>5. line \in Nat \ {0} /\ line \notin DOMAIN acctFile /\ (\A k \in DOMAIN acctFile : k \in Nat /\ k < line)
  BY <1>1, <1>4
<1>6. /\ ~told => acctFile' = acctFile
      /\ told => /\ DOMAIN acctFile' = DOMAIN acctFile \cup {line} /\ Len(acctFile') <= MaxLines
                 /\ Tells(_parse_line(acctFile'[line]), t, lived[n].user, "stop", Blank)
  <2>1. ASSUME told
        PROVE  /\ DOMAIN acctFile' = DOMAIN acctFile \cup {line} /\ Len(acctFile') <= MaxLines
               /\ acctFile'[line] = AcctLine(t, lived[n].user, "stop", <<>>)
    <3>1. Room
      BY <1>3, <2>1
    <3>2. acctFile' = Append(acctFile, AcctLine(t, lived[n].user, "stop", <<>>))
      BY <1>3, <2>1
    <3> QED BY <1>1, <3>1, <3>2, AcctAppended
  <2> QED BY <1>3, <2>1, AcctReads
<1>7. Written(accessFile, accessFile') /\ Written(authFile, authFile') /\ Written(acctFile, acctFile') /\ hour' = hour
  <2>1. Written(acctFile, Append(acctFile, AcctLine(t, lived[n].user, "stop", <<>>)))
    BY AcctReads
  <2> QED BY <1>3, <2>1 DEF Written
<1>8. /\ LogFiles' /\ Grows(accessFile, accessFile') /\ Grows(acctFile, acctFile')
      /\ accessFile' \in Seq(Range(accessFile')) /\ authFile' \in Seq(Range(authFile')) /\ acctFile' \in Seq(Range(acctFile'))
  BY <1>7, FilesKeep
<1>9. AuthInv'
  BY <1>3, <1>8, AuthKeeps
<1>10. PICK stop : stop = IF told THEN line ELSE 0
  OBVIOUS
<1>11. /\ lived' \in Seq(SessionRow) /\ DOMAIN lived' = DOMAIN lived /\ Len(lived') = Len(lived)
       /\ \A i \in DOMAIN lived \ {n} : lived'[i] = lived[i]
       /\ lived'[n] = [lived[n] EXCEPT !.over = TRUE, !.stop = stop]
  <2>1. [lived[n] EXCEPT !.over = TRUE, !.stop = stop] \in SessionRow
    BY <1>2, <1>5, <1>10 DEF SessionRow
  <2>2. lived' = [lived EXCEPT ![n] = [lived[n] EXCEPT !.over = TRUE, !.stop = stop]]
    BY <1>2, <1>3, <1>4, <1>10
  <2> QED BY <1>2, <1>4, <2>1, <2>2
<1>12. /\ lived'[n].ran = lived[n].ran /\ lived'[n].terminal = t /\ lived'[n].user = lived[n].user
       /\ lived'[n].line = lived[n].line /\ lived'[n].over /\ lived'[n].stop = stop
       /\ DOMAIN lived[n].ran \subseteq Nat /\ lived[n].line \in Nat
  BY <1>2, <1>4, <1>11, SessionRows DEF SessionRow
<1>13. LinesOf(n)' = LinesOf(n) \cup (IF told THEN {line} ELSE {})
  BY <1>2, <1>5, <1>10, <1>12 DEF LinesOf
<1>14. SessionInv(n)'
  <2>1. LinesOf(n) \subseteq DOMAIN acctFile
    BY <1>2 DEF SessionInv
  <2>2. LinesOf(n)' \subseteq DOMAIN acctFile'
    BY <1>6, <1>13, <2>1
  <2>3. \A k \in LinesOf(n) : acctFile'[k] = acctFile[k] /\ k < line
    BY <1>5, <1>8, <2>1 DEF Grows
  <2>4. (lived[n].line # 0 => acctFile'[lived[n].line] = acctFile[lived[n].line]) /\ lived[n].line < line
    BY <1>5, <2>3 DEF LinesOf
  <2>5. \A k \in DOMAIN lived[n].ran : acctFile'[k] = acctFile[k] /\ k < line
    BY <2>3 DEF LinesOf
  <2>6. lived[n].line # 0 => Tells(_parse_line(acctFile'[lived[n].line]), t, lived[n].user, "start", Blank)
    BY <1>2, <2>4 DEF SessionInv, LogRecord
  <2>7. \A k \in DOMAIN lived[n].ran :
          /\ IF Whole(lived[n].ran[k]) THEN /\ Tells(_parse_line(acctFile'[k]), t, lived[n].user, "stop", lived[n].ran[k][1])
                                            /\ lived[n].ran[k][1] # Blank
             ELSE Garbled(_parse_line(acctFile'[k]))
          /\ lived[n].line < k
    BY <1>2, <2>5 DEF SessionInv, LogRecord
  <2>8. stop # 0 => Tells(_parse_line(acctFile'[stop]), t, lived[n].user, "stop", Blank) /\ stop = line
    BY <1>6, <1>10
  <2>9. t \notin murky' => lived[n].line # 0
    BY <1>2, <1>3 DEF SessionInv
  <2> QED BY <1>12, <2>2, <2>4, <2>5, <2>6, <2>7, <2>8, <2>9 DEF SessionInv, LogRecord
<1>15. LogShapes'
  <2>1. shell' \in [Terminals -> 0 .. Len(lived')]
    BY <1>3, <1>4, <1>11
  <2>2. hour' \in 0 .. odd' /\ odd' \in 0 .. MaxOdd
    <3>1. Oddly(~told)
      BY <1>3
    <3>2. hour' = hour /\ hour \in 0 .. odd /\ odd \in 0 .. MaxOdd
      BY <1>3 DEF LogInv, LogShapes
    <3> QED BY <3>1, <3>2, TailsAssumption DEF Oddly
  <2>3. Len(acctFile') <= MaxLines
    BY <1>6 DEF LogInv, LogShapes
  <2>4. murky' \subseteq Terminals
    BY <1>3 DEF LogInv, LogShapes
  <2> QED BY <1>8, <1>11, <2>1, <2>2, <2>3, <2>4 DEF LogShapes
<1>16. OpenInv' /\ SourceInv' /\ (\A i \in DOMAIN lived' : SessionInv(i)') /\ \A i, j \in DOMAIN lived' : i # j => ApartInv(i, j)'
  <2>1. DOMAIN acctFile' \subseteq DOMAIN acctFile \cup (LinesOf(n)' \cap {line})
    BY <1>6, <1>13
  <2>2. shell'[t] = 0 /\ \A x \in Terminals \ {t} : shell'[x] = shell[x]
    BY <1>3, <1>4
  <2>3. /\ \A x \in Terminals : shell'[x] = shell[x] \/ shell[x] = n
        /\ \A x \in Terminals : shell'[x] # 0 => shell'[x] = shell[x] /\ (shell[x] = n => ~lived'[n].over)
    BY <1>0, <1>2, <2>2
  <2>4. lived'[n].terminal = lived[n].terminal /\ UNCHANGED murky
    BY <1>2, <1>3, <1>12
  <2>5. LinesOf(n) \subseteq LinesOf(n)' /\ LinesOf(n)' \subseteq LinesOf(n) \cup {line}
    BY <1>13
  <2> QED BY <1>1, <1>2, <1>8, <1>11, <1>12, <1>14, <2>1, <2>3, <2>4, <2>5, LineOfOpen
<1> QED BY <1>8, <1>9, <1>15, <1>16 DEF LogInv

LEMMA LogStep ==
  ASSUME LogInv, [LogNext]_logVars
  PROVE  LogInv'
<1>1. CASE LogNext
  <2>1. ASSUME NEW t \in Terminals, NEW u \in Users, Refused(t, u) \/ ShellOpens(t, u)
        PROVE  LogInv'
    BY <2>1, RefusedStep, OpensStep
  <2>2. ASSUME NEW t \in Terminals, ShellCloses(t) \/ \E cmd \in Typeable : CommandTyped(t, cmd)
        PROVE  LogInv'
    BY <2>2, ClosesStep, TypedStep
  <2> QED BY <1>1, <2>1, <2>2, HourStep DEF LogNext
<1>2. CASE UNCHANGED logVars
  <2>1. UNCHANGED << acctFile, shell, lived, murky, accessFile, authFile, hour, odd >>
    BY <1>2 DEF logVars
  <2>2. OpenInv' /\ SourceInv' /\ (\A i \in DOMAIN lived' : SessionInv(i)') /\ \A i, j \in DOMAIN lived' : i # j => ApartInv(i, j)'
    BY <2>1, SessionsKeep
  <2>3. LogShapes' /\ LogFiles' /\ AuthInv'
    BY <2>1 DEF LogInv, LogShapes, LogFiles, AuthInv, AuthRecord, Login
  <2> QED BY <2>2, <2>3 DEF LogInv
<1> QED BY <1>1, <1>2

LEMMA LogStarts == LogInit => LogInv
<1> SUFFICES ASSUME LogInit
             PROVE  LogInv
  OBVIOUS
<1> USE DEF LogInit
<1>1. <<>> \in Seq(Range(<<>>)) /\ Len(<<>>) = 0 /\ DOMAIN <<>> = {} /\ <<>> \in Seq(SessionRow)
  OBVIOUS
<1>2. LogShapes
  BY <1>1, TailsAssumption DEF LogShapes
<1>3. LogFiles /\ OpenInv /\ SourceInv /\ AuthInv
  BY <1>1 DEF LogFiles, OpenInv, SourceInv, AuthInv
<1> QED BY <1>1, <1>2, <1>3 DEF LogInv

-----------------------------------------------------------------------------
(* Sessions.                                                               *)

Whereabouts(r) == <<r.nas, r.port>>

\* What a line of a session is read as: whatever is taken for a record of a terminal is one of its session.
LEMMA LineKinds ==
  ASSUME LogInv, NEW i \in DOMAIN lived, NEW k \in LinesOf(i), NEW r, r = LogRecord(k)
  PROVE  LET s == lived[i] IN
         /\ r.parsed /\ k \in DOMAIN acctFile
         /\ r.accttype = "start" <=> k = s.line
         /\ k \in {s.line, s.stop} \/ (k \in DOMAIN s.ran /\ Whole(s.ran[k])) => Whereabouts(r) = s.terminal
         /\ Whereabouts(r) \in Terminals =>
              /\ Whereabouts(r) = s.terminal /\ r.user = s.user
              /\ Closes(r) <=> k = s.stop
              /\ r.cmd # Blank <=> k \in DOMAIN s.ran
              /\ k \in DOMAIN s.ran => Whole(s.ran[k]) /\ r.cmd = s.ran[k][1]
<1> DEFINE s == lived[i]
<1>1. SessionInv(i) /\ LogShapes
  BY DEF LogInv
<1>2. /\ s.terminal \in Terminals /\ s.terminal = <<s.terminal[1], s.terminal[2]>>
      /\ s.line \in Nat /\ s.stop \in Nat /\ DOMAIN s.ran \subseteq Nat
  BY <1>1, SessionRows, TerminalsAssumption
<1>3. k \in DOMAIN acctFile /\ k # 0 /\ (k = s.line \/ k = s.stop \/ k \in DOMAIN s.ran)
  <2>1. acctFile \in Seq(Range(acctFile))
    BY <1>1 DEF LogShapes
  <2>2. k \in DOMAIN acctFile
    BY <1>1 DEF SessionInv
  <2> QED BY <2>1, <2>2 DEF LinesOf
<1>4. CASE k = s.line
  <2>1. Tells(r, s.terminal, s.user, "start", Blank)
    BY <1>1, <1>3, <1>4 DEF SessionInv
  <2>2. k # s.stop /\ k \notin DOMAIN s.ran
    BY <1>1, <1>2, <1>3, <1>4 DEF SessionInv
  <2> QED BY <1>2, <1>3, <1>4, <2>1, <2>2 DEF Tells, Whereabouts, Closes
<1>5. CASE k = s.stop
  <2>1. Tells(r, s.terminal, s.user, "stop", Blank)
    BY <1>1, <1>3, <1>5 DEF SessionInv
  <2>2. k # s.line /\ k \notin DOMAIN s.ran
    BY <1>1, <1>2, <1>3, <1>5 DEF SessionInv
  <2> QED BY <1>2, <1>3, <1>5, <2>1, <2>2 DEF Tells, Whereabouts, Closes
<1>6. CASE k \in DOMAIN s.ran
  <2>1. IF Whole(s.ran[k]) THEN Tells(r, s.terminal, s.user, "stop", s.ran[k][1]) /\ s.ran[k][1] # Blank ELSE Garbled(r)
    BY <1>1, <1>6 DEF SessionInv
  <2>2. k # s.line /\ k # s.stop
    BY <1>1, <1>2, <1>3, <1>6 DEF SessionInv
  <2>3. CASE Whole(s.ran[k])
    BY <1>2, <1>3, <1>6, <2>1, <2>2, <2>3 DEF Tells, Whereabouts, Closes
  <2>4. CASE ~Whole(s.ran[k])
    BY <1>3, <1>6, <2>1, <2>2, <2>4 DEF Garbled, Whereabouts
  <2> QED BY <2>3, <2>4
<1> QED BY <1>3, <1>4, <1>5, <1>6

\* What was read of a terminal, and what the page makes of it.
GroupOn(t, limit) == { k \in LastLines(acctFile, limit) : LogRecord(k).parsed /\ Whereabouts(LogRecord(k)) = t }
StartsOn(t, limit) == { k \in GroupOn(t, limit) : LogRecord(k).accttype = "start" }
EndsOf(t, limit, k) == { m \in GroupOn(t, limit) : m > k /\ (m \in StartsOn(t, limit) \/ Closes(LogRecord(m))) }
TypedIn(t, limit, k) ==
  { m \in GroupOn(t, limit) : m > k /\ LogRecord(m).cmd # Blank /\ \A e \in EndsOf(t, limit, k) : m < e }
ShownAs(t, limit, k) ==
  [terminal |-> t, user |-> LogRecord(k).user, line |-> k,
   is_active |-> EndsOf(t, limit, k) = {},
   stopped |-> \E e \in EndsOf(t, limit, k) \ StartsOn(t, limit) : \A f \in EndsOf(t, limit, k) : e <= f,
   commands |-> [m \in TypedIn(t, limit, k) |-> LogRecord(m).cmd]]

LEMMA RecordsRead ==
  ASSUME NEW limit
  PROVE  DOMAIN read_records(limit) = LastLines(acctFile, limit)
         /\ \A k \in LastLines(acctFile, limit) : read_records(limit)[k] = LogRecord(k)
  BY DEF read_records, LogRecord

LEMMA SessionsRead ==
  ASSUME NEW t, NEW limit
  PROVE  SessionsOn(t, read_records(limit)) = { ShownAs(t, limit, k) : k \in StartsOn(t, limit) }
<1> DEFINE records == read_records(limit)
           group == { k \in DOMAIN records : records[k].parsed /\ <<records[k].nas, records[k].port>> = t }
           starts == { k \in group : records[k].accttype = "start" }
           ends(k) == { m \in group : m > k /\ (m \in starts \/ Closes(records[m])) }
           typed(k) == { m \in group : m > k /\ records[m].cmd # Blank /\ \A e \in ends(k) : m < e }
           shown(k) == [terminal |-> t, user |-> records[k].user, line |-> k,
                        is_active |-> ends(k) = {},
                        stopped |-> \E e \in ends(k) \ starts : \A f \in ends(k) : e \leq f,
                        commands |-> [m \in typed(k) |-> records[m].cmd]]
<1>1. group = GroupOn(t, limit) /\ \A k \in group : records[k] = LogRecord(k)
  BY RecordsRead DEF GroupOn, Whereabouts
<1> HIDE DEF records, group
<1>2. starts = StartsOn(t, limit)
  BY <1>1 DEF StartsOn
<1> HIDE DEF starts
<1>3. ASSUME NEW k
      PROVE  ends(k) = EndsOf(t, limit, k)
  <2>1. EndsOf(t, limit, k) = { m \in group : m > k /\ (m \in starts \/ Closes(LogRecord(m))) }
    BY <1>1, <1>2 DEF EndsOf
  <2>2. \A m \in group : Closes(LogRecord(m)) <=> Closes(records[m])
    BY <1>1
  <2> QED BY <2>1, <2>2
<1> HIDE DEF ends
<1>4. ASSUME NEW k
      PROVE  typed(k) = TypedIn(t, limit, k) /\ \A m \in typed(k) : records[m] = LogRecord(m)
  <2>1. TypedIn(t, limit, k) = { m \in group : m > k /\ LogRecord(m).cmd # Blank /\ \A e \in ends(k) : m < e }
    BY <1>1, <1>3 DEF TypedIn
  <2>2. typed(k) = TypedIn(t, limit, k)
    BY <1>1, <2>1
  <2> QED BY <1>1, <2>2
<1> HIDE DEF typed
<1>5. \A k \in starts : k \in group
  BY DEF starts
<1>6. ASSUME NEW k \in starts
      PROVE  shown(k) = ShownAs(t, limit, k)
  <2>1. records[k].user = LogRecord(k).user
    BY <1>1, <1>5
  <2>2. [m \in typed(k) |-> records[m].cmd] = [m \in TypedIn(t, limit, k) |-> LogRecord(m).cmd]
    BY <1>4
  <2>3. /\ (ends(k) = {}) = (EndsOf(t, limit, k) = {})
        /\ (\E e \in ends(k) \ starts : \A f \in ends(k) : e \leq f)
             = (\E e \in EndsOf(t, limit, k) \ StartsOn(t, limit) : \A f \in EndsOf(t, limit, k) : e <= f)
    BY <1>2, <1>3
  <2> QED BY <2>1, <2>2, <2>3, Zenon DEF ShownAs
<1>7. SessionsOn(t, records) = { shown(k) : k \in starts }
  BY Zenon DEF SessionsOn, starts, ends, typed, group
<1> HIDE DEF shown
<1>8. { shown(k) : k \in starts } = { ShownAs(t, limit, k) : k \in StartsOn(t, limit) }
  BY <1>2, <1>6
<1> QED BY <1>7, <1>8 DEF records

LEMMA LastLinesFacts ==
  ASSUME NEW s, s \in Seq(Range(s)), NEW limit \in Nat
  PROVE  /\ LastLines(s, limit) \subseteq DOMAIN s /\ DOMAIN s \subseteq Nat \ {0} /\ IsFiniteSet(DOMAIN s)
         /\ IsFiniteSet(LastLines(s, limit))
         /\ \A k \in LastLines(s, limit), m \in DOMAIN s : m > k => m \in LastLines(s, limit)
         /\ limit >= Len(s) => LastLines(s, limit) = DOMAIN s
<1>1. DOMAIN s = 1 .. Len(s) /\ Len(s) \in Nat
  OBVIOUS
<1>2. IsFiniteSet(DOMAIN s)
  BY <1>1, FS_Interval
<1>3. LastLines(s, limit) \subseteq DOMAIN s
  BY DEF LastLines
<1>4. IsFiniteSet(LastLines(s, limit))
  BY <1>2, <1>3, FS_Subset
<1>5. \A k \in LastLines(s, limit), m \in DOMAIN s : m > k => m \in LastLines(s, limit)
  BY <1>1 DEF LastLines
<1>6. limit >= Len(s) => LastLines(s, limit) = DOMAIN s
  BY <1>1 DEF LastLines
<1> QED BY <1>1, <1>2, <1>3, <1>4, <1>5, <1>6

LEMMA InGroup ==
  ASSUME LogInv, NEW limit \in Nat, NEW t \in Terminals
  PROVE  /\ GroupOn(t, limit) \subseteq LastLines(acctFile, limit)
         /\ \A i \in DOMAIN lived, k \in LastLines(acctFile, limit) :
              lived[i].terminal = t /\ k \in LinesOf(i) /\ (k \in {lived[i].line, lived[i].stop} \/ (k \in DOMAIN lived[i].ran /\ Whole(lived[i].ran[k])))
                => k \in GroupOn(t, limit)
         /\ \A k \in GroupOn(t, limit) : \E i \in DOMAIN lived :
              /\ k \in LinesOf(i) /\ lived[i].terminal = t
              /\ LogRecord(k).user = lived[i].user
              /\ LogRecord(k).accttype = "start" <=> k = lived[i].line
              /\ Closes(LogRecord(k)) <=> k = lived[i].stop
              /\ LogRecord(k).cmd # Blank <=> k \in DOMAIN lived[i].ran
              /\ k \in DOMAIN lived[i].ran => Whole(lived[i].ran[k]) /\ LogRecord(k).cmd = lived[i].ran[k][1]
<1>1. GroupOn(t, limit) \subseteq LastLines(acctFile, limit)
  BY DEF GroupOn
<1>2. ASSUME NEW i \in DOMAIN lived, NEW k \in LastLines(acctFile, limit), lived[i].terminal = t, k \in LinesOf(i),
             k \in {lived[i].line, lived[i].stop} \/ (k \in DOMAIN lived[i].ran /\ Whole(lived[i].ran[k]))
      PROVE  k \in GroupOn(t, limit)
  BY <1>2, LineKinds DEF GroupOn
<1>3. ASSUME NEW k \in GroupOn(t, limit)
      PROVE  \E i \in DOMAIN lived :
              /\ k \in LinesOf(i) /\ lived[i].terminal = t
              /\ LogRecord(k).user = lived[i].user
              /\ LogRecord(k).accttype = "start" <=> k = lived[i].line
              /\ Closes(LogRecord(k)) <=> k = lived[i].stop
              /\ LogRecord(k).cmd # Blank <=> k \in DOMAIN lived[i].ran
              /\ k \in DOMAIN lived[i].ran => Whole(lived[i].ran[k]) /\ LogRecord(k).cmd = lived[i].ran[k][1]
  <2>1. k \in DOMAIN acctFile /\ Whereabouts(LogRecord(k)) = t
    BY DEF GroupOn, LastLines
  <2>2. PICK i \in DOMAIN lived : k \in LinesOf(i)
    BY <2>1 DEF LogInv, SourceInv
  <2> QED BY <2>1, <2>2, LineKinds
<1> QED BY <1>1, <1>2, <1>3

\* What is shown of a session whose start was read is what was done in it.
LEMMA SessionShown ==
  ASSUME LogInv, NEW limit \in Nat, NEW t \in Terminals, t \notin murky, NEW i \in DOMAIN lived, lived[i].terminal = t,
         NEW k \in LastLines(acctFile, limit), k = lived[i].line
  PROVE  LET ends == EndsOf(t, limit, k)
             whole == { m \in DOMAIN lived[i].ran : Whole(lived[i].ran[m]) } IN
         /\ k \in StartsOn(t, limit) /\ LogRecord(k).user = lived[i].user
         /\ ends = {} => lived[i].stop = 0
         /\ ends # {} => lived[i].over
         /\ lived[i].stop # 0 <=> \E e \in ends \ StartsOn(t, limit) : \A f \in ends : e <= f
         /\ TypedIn(t, limit, k) = whole
         /\ \A m \in whole : LogRecord(m).cmd = lived[i].ran[m][1]
<1> DEFINE L == LastLines(acctFile, limit)
           group == GroupOn(t, limit)
           starts == StartsOn(t, limit)
           ends == EndsOf(t, limit, k)
           whole == { m \in DOMAIN lived[i].ran : Whole(lived[i].ran[m]) }
<1>1. LogShapes /\ acctFile \in Seq(Range(acctFile)) /\ SessionInv(i) /\ i \in Nat
  BY SessionRows DEF LogInv, LogShapes
<1>2. /\ L \subseteq DOMAIN acctFile /\ DOMAIN acctFile \subseteq Nat \ {0}
      /\ \A x \in L, m \in DOMAIN acctFile : m > x => m \in L
  BY <1>1, LastLinesFacts
<1>3. k # 0 /\ k \in LinesOf(i) /\ k \in Nat
  BY <1>2 DEF LinesOf
<1>4. group \subseteq L /\ k \in group
  BY <1>3, InGroup
<1>5. \A m \in group : \E j \in DOMAIN lived :
              /\ m \in LinesOf(j) /\ lived[j].terminal = t
              /\ LogRecord(m).user = lived[j].user
              /\ LogRecord(m).accttype = "start" <=> m = lived[j].line
              /\ Closes(LogRecord(m)) <=> m = lived[j].stop
              /\ LogRecord(m).cmd # Blank <=> m \in DOMAIN lived[j].ran
              /\ m \in DOMAIN lived[j].ran => Whole(lived[j].ran[m]) /\ LogRecord(m).cmd = lived[j].ran[m][1]
  BY InGroup
<1>6. \A m, j : m \in LinesOf(i) /\ j \in DOMAIN lived /\ m \in LinesOf(j) => j = i
  BY DEF LogInv, ApartInv
<1>7. LogRecord(k).accttype = "start" /\ LogRecord(k).user = lived[i].user /\ k \in starts
  BY <1>3, <1>4, <1>5, <1>6 DEF StartsOn
\* A later session has begun in a line, and only when this one was over.
<1>8. ASSUME NEW j \in DOMAIN lived, lived[j].terminal = t, j # i, NEW m \in LinesOf(j), m > k
      PROVE  /\ lived[i].over /\ lived[j].line \in ends \cap starts
             /\ \A x \in LinesOf(i) : x < lived[j].line
             /\ m # lived[j].line => lived[j].line < m
  <2>1. SessionInv(j) /\ j \in Nat /\ lived[j].line \in Nat /\ lived[j].stop \in Nat /\ DOMAIN lived[j].ran \subseteq Nat
    BY <1>1, SessionRows DEF LogInv
  <2>2. ApartInv(i, j) /\ ApartInv(j, i)
    BY <1>8 DEF LogInv
  <2>3. m \in Nat
    BY <1>2, <2>1 DEF SessionInv
  <2>4. i < j
    <3>1. ~(j < i)
      <4>1. j < i => m < k
        BY <1>3, <1>8, <2>2 DEF ApartInv
      <4> QED BY <1>3, <1>8, <2>3, <4>1
    <3> QED BY <1>1, <1>8, <2>1, <3>1
  <2>5. lived[i].over /\ \A x \in LinesOf(i), y \in LinesOf(j) : x < y
    BY <1>8, <2>2, <2>4 DEF ApartInv
  <2>6. lived[j].line # 0 /\ lived[j].line \in LinesOf(j)
    BY <1>8, <2>1 DEF SessionInv, LinesOf
  <2>7. k < lived[j].line /\ lived[j].line \in L
    <3>1. k < lived[j].line
      BY <1>3, <2>5, <2>6
    <3>2. lived[j].line \in DOMAIN acctFile
      BY <2>1, <2>6 DEF SessionInv
    <3> QED BY <1>2, <1>3, <2>1, <3>1, <3>2
  <2>8. lived[j].line \in starts
    <3>1. lived[j].line \in group
      BY <1>8, <2>6, <2>7, InGroup
    <3>2. LogRecord(lived[j].line).accttype = "start"
      BY <2>6, LineKinds
    <3> QED BY <3>1, <3>2 DEF StartsOn
  <2>9. lived[j].line \in ends
    <3>1. lived[j].line \in group /\ lived[j].line > k
      BY <1>3, <2>1, <2>7, <2>8 DEF StartsOn
    <3> QED BY <2>8, <3>1 DEF EndsOf
  <2>10. m # lived[j].line => lived[j].line < m
    BY <1>8, <2>1 DEF SessionInv, LinesOf
  <2> QED BY <2>5, <2>6, <2>8, <2>9, <2>10
<1>9. lived[i].stop # 0 => lived[i].stop \in ends \ starts
  <2> SUFFICES ASSUME lived[i].stop # 0
               PROVE  lived[i].stop \in ends \ starts
    OBVIOUS
  <2>1. lived[i].stop \in LinesOf(i) /\ lived[i].stop \in DOMAIN acctFile /\ k < lived[i].stop
    BY <1>1 DEF SessionInv, LinesOf
  <2>2. lived[i].stop \in L /\ lived[i].stop > k
    BY <1>2, <1>3, <2>1
  <2>3. lived[i].stop \in group
    BY <2>1, <2>2, InGroup
  <2>4. lived[i].stop # lived[i].line
    BY <1>2, <1>3, <2>1
  <2>5. Closes(LogRecord(lived[i].stop)) /\ LogRecord(lived[i].stop).accttype # "start"
    BY <1>5, <1>6, <2>1, <2>3, <2>4
  <2> QED BY <2>2, <2>3, <2>5 DEF EndsOf, StartsOn
<1>10. \A m \in ends : m \in group /\ m > k
  BY DEF EndsOf
<1>11. ASSUME NEW m \in ends
       PROVE  m = lived[i].stop \/ \E j \in DOMAIN lived : j # i /\ lived[j].terminal = t /\ m \in LinesOf(j)
  <2>1. PICK j \in DOMAIN lived : /\ m \in LinesOf(j) /\ lived[j].terminal = t
                                  /\ LogRecord(m).accttype = "start" <=> m = lived[j].line
                                  /\ Closes(LogRecord(m)) <=> m = lived[j].stop
    BY <1>5, <1>10
  <2>2. LogRecord(m).accttype = "start" \/ Closes(LogRecord(m))
    BY DEF EndsOf, StartsOn
  <2>3. m # k
    BY <1>3, <1>10
  <2> QED BY <2>1, <2>2, <2>3
<1>12. ends # {} => lived[i].over
  <2> SUFFICES ASSUME NEW m \in ends
               PROVE  lived[i].over
    OBVIOUS
  <2>1. CASE m = lived[i].stop
    <3>1. m # 0
      BY <1>2, <1>4, <1>10
    <3> QED BY <1>1, <2>1, <3>1 DEF SessionInv
  <2>2. CASE \E j \in DOMAIN lived : j # i /\ lived[j].terminal = t /\ m \in LinesOf(j)
    BY <1>8, <1>10, <2>2
  <2> QED BY <1>11, <2>1, <2>2
<1>13. ASSUME lived[i].stop # 0, NEW f \in ends
       PROVE  lived[i].stop <= f
  <2>1. lived[i].stop \in LinesOf(i) /\ lived[i].stop \in Nat /\ f \in Nat
    BY <1>2, <1>4, <1>9, <1>10, <1>13 DEF LinesOf
  <2>2. CASE f = lived[i].stop
    BY <2>1, <2>2
  <2>3. ASSUME NEW j \in DOMAIN lived, j # i, lived[j].terminal = t, f \in LinesOf(j)
        PROVE  lived[i].stop <= f
    <3>1. lived[i].stop < lived[j].line /\ (f # lived[j].line => lived[j].line < f) /\ lived[j].line \in Nat
      BY <1>1, <1>8, <1>10, <2>1, <2>3, SessionRows
    <3> QED BY <2>1, <3>1
  <2> QED BY <1>11, <2>2, <2>3
<1>14. ASSUME NEW e \in ends \ starts, \A f \in ends : e <= f
       PROVE  lived[i].stop # 0
  <2>1. CASE e = lived[i].stop
    BY <1>2, <1>4, <1>10, <2>1
  <2>2. ASSUME NEW j \in DOMAIN lived, j # i, lived[j].terminal = t, e \in LinesOf(j)
        PROVE  FALSE
    <3>1. lived[j].line \in ends \cap starts /\ (e # lived[j].line => lived[j].line < e) /\ lived[j].line \in Nat
      BY <1>1, <1>8, <1>10, <2>2, SessionRows
    <3>2. e <= lived[j].line /\ e # lived[j].line /\ e \in Nat
      BY <1>2, <1>4, <1>10, <1>14, <3>1
    <3> QED BY <3>1, <3>2
  <2> QED BY <1>11, <2>1, <2>2
<1>15. ASSUME NEW m \in whole
       PROVE  m \in TypedIn(t, limit, k) /\ LogRecord(m).cmd = lived[i].ran[m][1]
  <2>1. m \in LinesOf(i) /\ k < m /\ (lived[i].stop # 0 => m < lived[i].stop) /\ m \in DOMAIN acctFile
    BY <1>1 DEF SessionInv, LinesOf
  <2>2. m \in L /\ m > k /\ m \in Nat
    BY <1>2, <1>3, <2>1
  <2>3. m \in group
    BY <2>1, <2>2, InGroup
  <2>4. LogRecord(m).cmd # Blank /\ LogRecord(m).cmd = lived[i].ran[m][1]
    BY <1>5, <1>6, <2>1, <2>3
  <2>5. ASSUME NEW e \in ends
        PROVE  m < e
    <3>1. CASE e = lived[i].stop
      BY <1>2, <1>4, <1>10, <2>1, <3>1
    <3>2. ASSUME NEW j \in DOMAIN lived, j # i, lived[j].terminal = t, e \in LinesOf(j)
          PROVE  m < e
      <4>1. m < lived[j].line /\ (e # lived[j].line => lived[j].line < e) /\ lived[j].line \in Nat /\ e \in Nat
        BY <1>1, <1>2, <1>4, <1>8, <1>10, <2>1, <3>2, SessionRows
      <4> QED BY <2>2, <4>1
    <3> QED BY <1>11, <3>1, <3>2
  <2> QED BY <2>2, <2>3, <2>4, <2>5 DEF TypedIn
<1>16. ASSUME NEW m \in TypedIn(t, limit, k)
       PROVE  m \in whole
  <2>1. m \in group /\ m > k /\ LogRecord(m).cmd # Blank /\ \A e \in ends : m < e
    BY DEF TypedIn
  <2>2. PICK j \in DOMAIN lived : /\ m \in LinesOf(j) /\ lived[j].terminal = t
                                  /\ LogRecord(m).cmd # Blank <=> m \in DOMAIN lived[j].ran
                                  /\ m \in DOMAIN lived[j].ran => Whole(lived[j].ran[m])
    BY <1>5, <2>1
  <2>3. ASSUME j # i
        PROVE  FALSE
    <3>1. lived[j].line \in ends /\ (m # lived[j].line => lived[j].line < m) /\ lived[j].line \in Nat /\ m \in Nat
      BY <1>1, <1>2, <1>4, <1>8, <2>1, <2>2, <2>3, SessionRows
    <3> QED BY <2>1, <3>1
  <2> QED BY <2>1, <2>2, <2>3
<1>17. TypedIn(t, limit, k) = whole
  BY <1>15, <1>16
<1>18. ends = {} => lived[i].stop = 0
  BY <1>9
<1>19. lived[i].stop # 0 <=> \E e \in ends \ starts : \A f \in ends : e <= f
  BY <1>9, <1>13, <1>14
<1> QED BY <1>7, <1>12, <1>15, <1>17, <1>18, <1>19

LEMMA PageRead ==
  ASSUME LogInv, NEW limit \in Nat
  PROVE  /\ \A s \in list_sessions(limit) :
              s.terminal \in Terminals /\ \E k \in StartsOn(s.terminal, limit) : s = ShownAs(s.terminal, limit, k)
         /\ \A t \in Terminals : \A k \in StartsOn(t, limit) : ShownAs(t, limit, k) \in list_sessions(limit)
<1> DEFINE records == read_records(limit)
           places == { <<records[k].nas, records[k].port>> : k \in { j \in DOMAIN records : records[j].parsed } }
<1>1. places = { Whereabouts(LogRecord(k)) : k \in { j \in LastLines(acctFile, limit) : LogRecord(j).parsed } }
  BY RecordsRead DEF Whereabouts
<1>2. list_sessions(limit) = UNION { SessionsOn(t, records) : t \in places }
  BY Zenon DEF list_sessions, group_into_sessions
<1> HIDE DEF places, records
<1>3. \A t : SessionsOn(t, records) = { ShownAs(t, limit, k) : k \in StartsOn(t, limit) }
  BY SessionsRead DEF records
<1>4. ASSUME NEW s \in list_sessions(limit)
      PROVE  s.terminal \in Terminals /\ \E k \in StartsOn(s.terminal, limit) : s = ShownAs(s.terminal, limit, k)
  <2>1. PICK t \in places : \E k \in StartsOn(t, limit) : s = ShownAs(t, limit, k)
    BY <1>2, <1>3
  <2>6. PICK k \in StartsOn(t, limit) : s = ShownAs(t, limit, k)
    BY <2>1
  <2>2. s.terminal = t
    BY <2>6 DEF ShownAs
  <2>3. k \in DOMAIN acctFile /\ LogRecord(k).accttype = "start" /\ Whereabouts(LogRecord(k)) = t
    BY DEF StartsOn, GroupOn, LastLines
  <2>4. PICK i \in DOMAIN lived : k \in LinesOf(i)
    BY <2>3 DEF LogInv, SourceInv
  <2>5. t = lived[i].terminal /\ lived[i].terminal \in Terminals
    BY <2>3, <2>4, LineKinds, SessionRows DEF LogInv
  <2> QED BY <2>2, <2>5, <2>6
<1>5. ASSUME NEW t \in Terminals, NEW k \in StartsOn(t, limit)
      PROVE  ShownAs(t, limit, k) \in list_sessions(limit)
  <2>1. t \in places
    BY <1>1 DEF StartsOn, GroupOn
  <2> QED BY <1>2, <1>3, <2>1
<1> QED BY <1>4, <1>5

LEMMA SessionsTrue == LogInv => SessionsAreTrue
<1> SUFFICES ASSUME LogInv, NEW limit \in Tails
             PROVE  LET page == list_sessions(limit)
                        begun(t) == { i \in DOMAIN lived : lived[i].terminal = t /\ lived[i].line \in LastLines(acctFile, limit) }
                        done(i) == LET ran == lived[i].ran IN [k \in { m \in DOMAIN ran : Whole(ran[m]) } |-> ran[k][1]] IN
                    /\ { s.terminal : s \in page } \subseteq Terminals
                    /\ \A t \in Terminals \ murky :
                         /\ \A i \in begun(t) : \E s \in page : s.terminal = t /\ s.line = lived[i].line
                         /\ \A s \in page : s.terminal = t => \E i \in begun(t) :
                              /\ s.line = lived[i].line /\ s.user = lived[i].user /\ s.commands = done(i)
                              /\ ~s.is_active => lived[i].over
                              /\ s.stopped <=> lived[i].stop # 0
                              /\ s.is_active => lived[i].stop = 0
  BY DEF SessionsAreTrue
<1> DEFINE page == list_sessions(limit)
           L == LastLines(acctFile, limit)
           begun(t) == { i \in DOMAIN lived : lived[i].terminal = t /\ lived[i].line \in L }
           whole(i) == { m \in DOMAIN lived[i].ran : Whole(lived[i].ran[m]) }
           done(i) == [k \in whole(i) |-> lived[i].ran[k][1]]
<1>1. limit \in Nat
  BY TailsAssumption
<1>2. { s.terminal : s \in page } \subseteq Terminals
  BY <1>1, PageRead
<1>3. ASSUME NEW t \in Terminals \ murky, NEW i \in begun(t)
      PROVE  \E s \in page : s.terminal = t /\ s.line = lived[i].line
  <2>1. lived[i].line \in StartsOn(t, limit)
    BY <1>1, SessionShown
  <2>2. ShownAs(t, limit, lived[i].line) \in page
    BY <1>1, <2>1, PageRead
  <2>3. ShownAs(t, limit, lived[i].line).terminal = t /\ ShownAs(t, limit, lived[i].line).line = lived[i].line
    BY DEF ShownAs
  <2> QED BY <2>2, <2>3
<1>4. ASSUME NEW t \in Terminals \ murky, NEW s \in page, s.terminal = t
      PROVE  \E i \in begun(t) : /\ s.line = lived[i].line /\ s.user = lived[i].user /\ s.commands = done(i)
                                 /\ ~s.is_active => lived[i].over
                                 /\ s.stopped <=> lived[i].stop # 0
                                 /\ s.is_active => lived[i].stop = 0
  <2>1. PICK k \in StartsOn(t, limit) : s = ShownAs(t, limit, k)
    BY <1>1, <1>4, PageRead
  <2>2. k \in GroupOn(t, limit) /\ LogRecord(k).accttype = "start"
    BY DEF StartsOn
  <2>3. PICK i \in DOMAIN lived : k \in LinesOf(i) /\ lived[i].terminal = t /\ k = lived[i].line
    BY <1>1, <2>2, InGroup
  <2>4. k \in L
    BY <2>2 DEF GroupOn
  <2> DEFINE ends == EndsOf(t, limit, k)
             stopped == \E e \in ends \ StartsOn(t, limit) : \A f \in ends : e <= f
  <2>5. /\ LogRecord(k).user = lived[i].user
        /\ ends = {} => lived[i].stop = 0
        /\ ends # {} => lived[i].over
        /\ lived[i].stop # 0 <=> stopped
        /\ TypedIn(t, limit, k) = whole(i)
        /\ \A m \in whole(i) : LogRecord(m).cmd = lived[i].ran[m][1]
    BY <1>1, <2>3, <2>4, SessionShown
  <2> HIDE DEF ends, stopped
  <2>6. [m \in TypedIn(t, limit, k) |-> LogRecord(m).cmd] = done(i)
    BY <2>5
  <2>7. /\ s.line = k /\ s.user = LogRecord(k).user /\ s.is_active = (ends = {}) /\ s.stopped = stopped
        /\ s.commands = [m \in TypedIn(t, limit, k) |-> LogRecord(m).cmd]
    BY <2>1 DEF ShownAs, ends, stopped
  <2>8. i \in begun(t)
    BY <2>3, <2>4
  <2> QED BY <2>3, <2>5, <2>6, <2>7, <2>8
<1> QED BY <1>2, <1>3, <1>4
-----------------------------------------------------------------------------
(* Counts.                                                                 *)

AuthLines(limit) == LastLines(authFile, limit)
LoginLines(limit) == { k \in AuthLines(limit) : is_login_record(AuthRecord(k)) }
CommandLines(limit) == { k \in AuthLines(limit) : ~is_login_record(AuthRecord(k)) }
\* The records of some of the lines, and how many of them came out so.
AuthRows(K) == [k \in K |-> AuthRecord(k)]
Outcome(K, o) == { k \in K : login_outcome(AuthRecord(k)) = o }

LEMMA AuthRead ==
  ASSUME LogInv, NEW limit \in Nat
  PROVE  /\ read_auth_records(limit, TRUE) = AuthRows(AuthLines(limit))
         /\ read_auth_records(limit, FALSE) = AuthRows(CommandLines(limit))
         /\ \A k \in AuthLines(limit) : AuthRecord(k).parsed /\ AuthRecord(k).at \in 0 .. hour
         /\ IsFiniteSet(AuthLines(limit)) /\ AuthLines(limit) \subseteq DOMAIN authFile
<1> DEFINE records == [k \in LastLines(authFile, limit) |-> _auth_parse_line(authFile[k])]
           kept(logins) == { k \in DOMAIN records : records[k].parsed /\ (logins \/ ~is_login_record(records[k])) }
<1>1. records = AuthRows(AuthLines(limit)) /\ DOMAIN records = AuthLines(limit)
  BY DEF AuthRows, AuthLines, AuthRecord
<1>2. AuthLines(limit) \subseteq DOMAIN authFile /\ IsFiniteSet(AuthLines(limit))
  BY LastLinesFacts DEF AuthLines, LogInv, LogShapes
<1>3. \A k \in AuthLines(limit) : AuthRecord(k).parsed
  BY <1>2 DEF LogInv, AuthInv
<1>4. ASSUME NEW k \in AuthLines(limit)
      PROVE  AuthRecord(k).at \in 0 .. hour
  <2>1. authFile[k].at \in 0 .. hour
    BY <1>2 DEF LogInv, LogFiles
  <2> DEFINE l == authFile[k]
             f == l.fields
  <2>2. ~(Len(f) < 7)
    <3>1. Len(f) < 7 => AuthRecord(k) = [parsed |-> FALSE]
      BY Zenon DEF AuthRecord, _auth_parse_line
    <3> QED BY <1>3, <3>1
  <2>3. AuthRecord(k) = [parsed |-> TRUE, at |-> l.at, nas |-> f[1], user |-> f[2], port |-> f[3], result |-> f[6],
                         cmd |-> IF Len(f) = 7 THEN <<>> ELSE f[8]]
    BY <2>2, Zenon DEF AuthRecord, _auth_parse_line
  <2>4. AuthRecord(k).at = l.at
    BY <2>3
  <2> QED BY <2>1, <2>4
<1> HIDE DEF records
<1>5. \A logins : kept(logins) = { k \in AuthLines(limit) : AuthRecord(k).parsed /\ (logins \/ ~is_login_record(AuthRecord(k))) }
  BY <1>1 DEF AuthRows
<1>6. kept(TRUE) = AuthLines(limit) /\ kept(FALSE) = CommandLines(limit)
  BY <1>3, <1>5 DEF CommandLines
<1>7. \A logins : read_auth_records(limit, logins) = [k \in kept(logins) |-> records[k]]
  BY Zenon DEF read_auth_records, Restrict, records
<1>8. CommandLines(limit) \subseteq AuthLines(limit)
  BY DEF CommandLines
<1>9. read_auth_records(limit, TRUE) = AuthRows(AuthLines(limit)) /\ read_auth_records(limit, FALSE) = AuthRows(CommandLines(limit))
  <2>1. \A k \in AuthLines(limit) : records[k] = AuthRecord(k)
    BY <1>1 DEF AuthRows
  <2> HIDE DEF kept
  <2>2. \A K : K \subseteq AuthLines(limit) => [k \in K |-> records[k]] = AuthRows(K)
    BY <2>1 DEF AuthRows
  <2> QED BY <1>6, <1>7, <1>8, <2>2
<1> QED BY <1>2, <1>3, <1>4, <1>9

KindLines(kind, limit) ==
  CASE kind = "all" -> AuthLines(limit) [] kind = "login" -> LoginLines(limit) [] OTHER -> CommandLines(limit)

Picked(K, wanted) == { k \in K : wanted = {} \/ login_outcome(AuthRecord(k)) \in wanted }

LEMMA EventsRead ==
  ASSUME LogInv, NEW limit \in Nat, NEW wanted, NEW kind \in {"all", "login", "command"}
  PROVE  /\ \A o \in {"success", "failure", "unknown"} :
              list_access_events(limit, kind, wanted).counts[o] = Cardinality(Outcome(KindLines(kind, limit), o))
         /\ list_access_events(limit, kind, wanted).rows
              = AuthRows(Picked(KindLines(kind, limit), wanted))
<1> DEFINE lines == KindLines(kind, limit)
           records == read_auth_records(limit, TRUE)
           picked == { k \in DOMAIN records : kind = "all" \/ (kind = "login") = is_login_record(records[k]) }
           page(R) == [counts |-> [o \in {"success", "failure", "unknown"} |-> Cardinality({ k \in DOMAIN R : login_outcome(R[k]) = o })],
                       rows |-> Restrict(R, { k \in DOMAIN R : wanted = {} \/ login_outcome(R[k]) \in wanted })]
<1>1. DOMAIN records = AuthLines(limit) /\ \A k \in AuthLines(limit) : records[k] = AuthRecord(k)
  BY AuthRead DEF AuthRows
<1>2. kind # "authentication"
  OBVIOUS
<1>3. list_access_events(limit, kind, wanted) = page(Restrict(records, picked))
  BY <1>2, Zenon DEF list_access_events, Events
<1> HIDE DEF records
<1>4. picked = lines
  BY <1>1 DEF KindLines, LoginLines, CommandLines, is_login_record
<1>5. Restrict(records, picked) = AuthRows(lines) /\ lines \subseteq AuthLines(limit)
  <2>1. lines \subseteq AuthLines(limit)
    BY DEF KindLines, LoginLines, CommandLines
  <2> HIDE DEF picked, lines
  <2> QED BY <1>1, <1>4, <2>1 DEF Restrict, AuthRows
<1> DEFINE R == AuthRows(lines)
<1>6. DOMAIN R = lines /\ \A k \in lines : R[k] = AuthRecord(k)
  BY DEF AuthRows
<1> HIDE DEF picked, lines, R
<1>7. \A o : { k \in DOMAIN R : login_outcome(R[k]) = o } = Outcome(lines, o)
  BY <1>6 DEF Outcome
<1>8. Restrict(R, { k \in DOMAIN R : wanted = {} \/ login_outcome(R[k]) \in wanted })
        = AuthRows(Picked(lines, wanted))
  BY <1>6 DEF Restrict, AuthRows, Picked
<1>9. list_access_events(limit, kind, wanted) = page(R)
  BY <1>3, <1>5 DEF R
<1> DEFINE counts == [o \in {"success", "failure", "unknown"} |-> Cardinality({ k \in DOMAIN R : login_outcome(R[k]) = o })]
           shown == Restrict(R, { k \in DOMAIN R : wanted = {} \/ login_outcome(R[k]) \in wanted })
<1>10. list_access_events(limit, kind, wanted).counts = counts /\ list_access_events(limit, kind, wanted).rows = shown
  <2> HIDE DEF counts, shown
  <2>1. page(R) = [counts |-> counts, rows |-> shown]
    BY Zenon DEF counts, shown
  <2> HIDE DEF page
  <2> QED BY <1>9, <2>1
<1>11. \A o \in {"success", "failure", "unknown"} : counts[o] = Cardinality(Outcome(lines, o))
  BY <1>7
<1> QED BY <1>8, <1>10, <1>11 DEF lines

RefusedIn(limit) == Outcome(CommandLines(limit), "failure")

LEMMA HealthRead ==
  ASSUME LogInv, NEW limit \in Nat
  PROVE  LET health == accounting_health(limit) IN
         /\ health.stats.non_permit = Cardinality(RefusedIn(limit))
         /\ \A k \in RefusedIn(limit) : health.stats.by_user[AuthRecord(k).user]
              = Cardinality({ m \in RefusedIn(limit) : AuthRecord(m).user = AuthRecord(k).user })
         /\ \A h \in 0 .. hour : h + HOURS > hour =>
              health.hourly[h] = Cardinality({ k \in CommandLines(limit) : AuthRecord(k).at = h })
<1> DEFINE records == read_auth_records(limit, FALSE)
           refused == { k \in DOMAIN records : records[k].parsed /\ records[k].result \notin {Blank, "permit"} }
           permitted == { k \in DOMAIN records : records[k].parsed /\ records[k].result = "permit" }
           by == [u \in { records[k].user : k \in refused } |-> Cardinality({ k \in refused : records[k].user = u })]
           chart == [h \in { x \in 0 .. hour : x + HOURS > hour } |->
                      Cardinality({ k \in DOMAIN records : records[k].parsed /\ records[k].at = h })]
           health == accounting_health(limit)
<1>1. DOMAIN records = CommandLines(limit) /\ \A k \in CommandLines(limit) : records[k] = AuthRecord(k) /\ AuthRecord(k).parsed
  BY AuthRead DEF AuthRows, CommandLines
<1>2. health = [stats |-> [permit |-> Cardinality(permitted), non_permit |-> Cardinality(refused), by_user |-> by], hourly |-> chart]
  BY Zenon DEF accounting_health, compute_health_and_failure_stats, compute_hourly_activity
<1> HIDE DEF records
<1>3. refused = RefusedIn(limit)
  BY <1>1 DEF RefusedIn, Outcome, login_outcome
<1>4. \A k \in refused : records[k].user = AuthRecord(k).user
  BY <1>1
<1> HIDE DEF refused
<1>5. \A k \in refused : by[AuthRecord(k).user] = Cardinality({ m \in refused : AuthRecord(m).user = AuthRecord(k).user })
  <2> TAKE k \in refused
  <2>1. { m \in refused : records[m].user = AuthRecord(k).user } = { m \in refused : AuthRecord(m).user = AuthRecord(k).user }
    BY <1>4
  <2>2. AuthRecord(k).user \in { records[m].user : m \in refused }
    BY <1>4
  <2> QED BY <2>1, <2>2
<1>6. ASSUME NEW h \in 0 .. hour, h + HOURS > hour
      PROVE  chart[h] = Cardinality({ k \in CommandLines(limit) : AuthRecord(k).at = h })
  <2>1. { k \in DOMAIN records : records[k].parsed /\ records[k].at = h } = { k \in CommandLines(limit) : AuthRecord(k).at = h }
    BY <1>1
  <2>2. h \in { x \in 0 .. hour : x + HOURS > hour }
    BY <1>6
  <2> QED BY <2>1, <2>2
<1> HIDE DEF by, chart, permitted, health
<1>7. health.stats.non_permit = Cardinality(refused) /\ health.stats.by_user = by /\ health.hourly = chart
  BY <1>2
<1> QED BY <1>3, <1>5, <1>6, <1>7 DEF health

LEMMA OutcomesAddUp ==
  ASSUME LogInv, NEW limit \in Nat, NEW o
  PROVE  Cardinality(Outcome(AuthLines(limit), o))
           = Cardinality(Outcome(LoginLines(limit), o)) + Cardinality(Outcome(CommandLines(limit), o))
<1> DEFINE A == Outcome(AuthLines(limit), o)
           L == Outcome(LoginLines(limit), o)
           C == Outcome(CommandLines(limit), o)
<1>1. A = L \cup C /\ L \cap C = {}
  BY DEF Outcome, LoginLines, CommandLines
<1>2. IsFiniteSet(A)
  BY AuthRead, FS_Subset DEF Outcome
<1>3. IsFiniteSet(L) /\ IsFiniteSet(C)
  BY <1>1, <1>2, FS_Subset
<1> HIDE DEF A, L, C
<1>4. Cardinality(A) = Cardinality(L) + Cardinality(C) - Cardinality(L \cap C)
  BY <1>1, <1>3, FS_Union
<1>5. Cardinality(L \cap C) = 0 /\ Cardinality(L) \in Nat /\ Cardinality(C) \in Nat
  BY <1>1, <1>3, FS_EmptySet, FS_CardinalityType
<1>6. Cardinality(A) = Cardinality(L) + Cardinality(C)
  BY <1>4, <1>5
<1> QED BY <1>6 DEF A, L, C

\* Whoever was given a shell is on the page of authentications.
LEMMA LoginsAuthenticated ==
  ASSUME LogInv, NEW limit \in Nat
  PROVE  LET logins == list_access_events(limit, "login", {"success"}).rows
             authentications == _authentication_events(Len(accessFile), {"success"}).rows IN
         \A r \in Range(logins) : \E a \in Range(authentications) : <<a.nas, a.port, a.user>> = <<r.nas, r.port, r.user>>
<1> DEFINE logins == list_access_events(limit, "login", {"success"}).rows
           records == [k \in LastLines(accessFile, Len(accessFile)) |-> _access_parse_line(accessFile[k])]
           kept == { k \in DOMAIN records : {"success"} = {} \/ outcome(records[k]) \in {"success"} }
           counts == [o \in {"success", "failure", "unknown"} |-> Cardinality({ k \in DOMAIN records : outcome(records[k]) = o })]
           authentications == _authentication_events(Len(accessFile), {"success"}).rows
<1>1. logins = AuthRows({ k \in LoginLines(limit) : login_outcome(AuthRecord(k)) = "success" })
  <2>1. logins = AuthRows(Picked(KindLines("login", limit), {"success"}))
    BY EventsRead
  <2>2. Picked(KindLines("login", limit), {"success"}) = { k \in LoginLines(limit) : login_outcome(AuthRecord(k)) = "success" }
    BY DEF Picked, KindLines
  <2> QED BY <2>1, <2>2
<1>2. accessFile \in Seq(Range(accessFile)) /\ Len(accessFile) \in Nat
  BY DEF LogInv, LogShapes
<1>3. LastLines(accessFile, Len(accessFile)) = DOMAIN accessFile
  BY <1>2, LastLinesFacts
<1>4. DOMAIN records = DOMAIN accessFile /\ \A m \in DOMAIN accessFile : records[m] = Login(m)
  BY <1>3 DEF Login
<1>5. authentications = [k \in kept |-> records[k]]
  <2>1. _authentication_events(Len(accessFile), {"success"}) = [counts |-> counts, rows |-> Restrict(records, kept)]
    BY Zenon DEF _authentication_events, Events, read_access_records
  <2> HIDE DEF counts, kept, records
  <2> QED BY <2>1 DEF Restrict
<1> HIDE DEF logins, records, authentications, counts
<1>6. \A m \in DOMAIN accessFile : Login(m).message = "succeeded" => m \in kept
  BY <1>4 DEF outcome
<1> HIDE DEF kept
<1>7. ASSUME NEW r \in Range(logins)
      PROVE  \E a \in Range(authentications) : <<a.nas, a.port, a.user>> = <<r.nas, r.port, r.user>>
  <2>1. PICK k \in LoginLines(limit) : login_outcome(AuthRecord(k)) = "success" /\ r = AuthRecord(k)
    BY <1>1 DEF AuthRows, Range
  <2>2. k \in DOMAIN authFile /\ AuthRecord(k).cmd = <<>>
    BY AuthRead DEF LoginLines, is_login_record
  <2>3. AuthRecord(k).result = "permit"
    BY <2>1 DEF login_outcome
  <2>4. PICK m \in DOMAIN accessFile : LET a == Login(m) IN /\ a.parsed /\ a.message = "succeeded"
                                                        /\ a.nas = r.nas /\ a.port = r.port /\ a.user = r.user
    BY <2>1, <2>2, <2>3 DEF LogInv, AuthInv
  <2>5. m \in kept /\ authentications[m] = Login(m)
    BY <1>4, <1>5, <1>6, <2>4
  <2>6. Login(m) \in Range(authentications)
    BY <1>5, <2>5 DEF Range
  <2> QED BY <2>4, <2>6
<1> QED BY <1>7 DEF logins, authentications

\* No record is left out of what is recent, and all of it is of somebody who was there.
LEMMA RecentActivity ==
  ASSUME LogInv, NEW limit \in Nat, \A i \in DOMAIN lived : \A c \in Range(lived[i].ran) : Whole(c)
  PROVE  LET recent == recent_activity(limit, 0) IN
         /\ \A p \in DOMAIN recent : \E i \in DOMAIN lived : p = << lived[i].terminal[1], lived[i].user >>
         /\ \A k \in LastLines(acctFile, limit) :
              \E p \in DOMAIN recent : recent[p].last >= k /\ \E i \in DOMAIN lived : k \in LinesOf(i) /\ p = << lived[i].terminal[1], lived[i].user >>
<1> DEFINE L == LastLines(acctFile, limit)
           records == read_records(limit)
           late == { k \in DOMAIN records : records[k].parsed /\ records[k].at >= 0 }
           pair(k) == << records[k].nas, records[k].user >>
           of(p) == { k \in late : pair(k) = p }
           recent == recent_activity(limit, 0)
<1>1. DOMAIN records = L /\ \A k \in L : records[k] = LogRecord(k)
  BY RecordsRead
<1>2. L \subseteq DOMAIN acctFile /\ DOMAIN acctFile = 1 .. Len(acctFile) /\ Len(acctFile) \in Nat
  BY LastLinesFacts DEF LogInv, LogShapes
<1>3. recent = [p \in { pair(k) : k \in late } |-> [count |-> Cardinality(of(p)), last |-> Max(of(p))]]
  BY Zenon DEF recent_activity
<1> HIDE DEF records, L, recent
<1>4. ASSUME NEW k \in L
      PROVE  k \in late /\ \E i \in DOMAIN lived : k \in LinesOf(i) /\ pair(k) = << lived[i].terminal[1], lived[i].user >>
  <2>1. PICK i \in DOMAIN lived : k \in LinesOf(i)
    BY <1>2 DEF LogInv, SourceInv
  <2>2. LogRecord(k).parsed /\ Whereabouts(LogRecord(k)) = lived[i].terminal /\ LogRecord(k).user = lived[i].user
    <3>1. lived[i].terminal \in Terminals
      BY SessionRows DEF LogInv
    <3>2. k \in DOMAIN lived[i].ran => Whole(lived[i].ran[k])
      BY DEF Range
    <3>3. k \in {lived[i].line, lived[i].stop} \/ (k \in DOMAIN lived[i].ran /\ Whole(lived[i].ran[k]))
      BY <2>1, <3>2 DEF LinesOf
    <3> QED BY <2>1, <3>1, <3>3, LineKinds
  <2>3. LogRecord(k).at >= 0
    <3> DEFINE l == acctFile[k]
               n == Len(l.fields)
               f(i_1) == l.fields[n - 8 + i_1]
    <3>1. l.at \in 0 .. hour /\ hour \in Nat
      BY <1>2 DEF LogInv, LogFiles, LogShapes
    <3>2. ~(n < 8)
      <4>1. n < 8 => LogRecord(k) = [parsed |-> FALSE]
        BY Zenon DEF LogRecord, _parse_line
      <4> QED BY <2>2, <4>1
    <3>3. LogRecord(k) = [parsed |-> TRUE, at |-> l.at, nas |-> f(1), user |-> f(2), port |-> f(3),
                          accttype |-> f(5), result |-> f(6), cmd |-> f(8)]
      BY <3>2, Zenon DEF LogRecord, _parse_line
    <3>4. LogRecord(k).at = l.at
      BY <3>3
    <3> QED BY <3>1, <3>4
  <2>4. LogRecord(k).nas = lived[i].terminal[1]
    BY <2>2 DEF Whereabouts
  <2> QED BY <1>1, <2>1, <2>2, <2>3, <2>4
<1>5. late \subseteq L
  BY <1>1
<1> HIDE DEF late, pair
<1>6. DOMAIN recent = { pair(k) : k \in late }
  BY <1>3
<1>7. ASSUME NEW p \in DOMAIN recent
      PROVE  \E i \in DOMAIN lived : p = << lived[i].terminal[1], lived[i].user >>
  BY <1>4, <1>5, <1>6
<1>8. ASSUME NEW k \in L
      PROVE  \E p \in DOMAIN recent : recent[p].last >= k /\ \E i \in DOMAIN lived : k \in LinesOf(i) /\ p = << lived[i].terminal[1], lived[i].user >>
  <2> DEFINE p == pair(k)
  <2>1. k \in of(p) /\ p \in DOMAIN recent
    BY <1>4, <1>6
  <2>2. of(p) \subseteq 0 .. Len(acctFile)
    BY <1>2, <1>5
  <2>3. recent[p].last = Max(of(p))
    BY <1>3, <2>1
  <2> HIDE DEF of
  <2>4. Max(of(p)) \in of(p) /\ k <= Max(of(p))
    <3>1. of(p) \in SUBSET Nat /\ of(p) # {} /\ \A s \in of(p) : s <= Len(acctFile)
      BY <1>2, <2>1, <2>2
    <3> QED BY <1>2, <2>1, <3>1, LastIsThere
  <2>5. recent[p].last >= k
    BY <1>2, <2>2, <2>3, <2>4
  <2> QED BY <1>4, <2>1, <2>5
<1> QED BY <1>7, <1>8 DEF recent, L

LEMMA CountsTrue == LogInv => CountsAgree
<1> SUFFICES ASSUME LogInv
             PROVE  CountsAgree
  OBVIOUS
<1>1. ASSUME NEW limit \in Tails
      PROVE  LET health == accounting_health(limit)
                 events(kind) == list_access_events(limit, kind, {})
                 commands == events("command").rows
                 failures == list_access_events(limit, "command", {"failure"}).rows IN
             /\ health.stats.non_permit = events("command").counts["failure"]
             /\ health.stats.non_permit = Cardinality(DOMAIN failures)
             /\ \A k \in DOMAIN failures :
                  health.stats.by_user[failures[k].user] = Cardinality({ m \in DOMAIN failures : failures[m].user = failures[k].user })
             /\ \A k \in DOMAIN commands : commands[k].at + HOURS > hour =>
                  health.hourly[commands[k].at] = Cardinality({ m \in DOMAIN commands : commands[m].at = commands[k].at })
             /\ \A o \in {"success", "failure", "unknown"} : events("all").counts[o] = events("login").counts[o] + events("command").counts[o]
             /\ list_accounting_records(limit, {}, {}) = commands
  <2> DEFINE health == accounting_health(limit)
             events(kind) == list_access_events(limit, kind, {})
             commands == events("command").rows
             failures == list_access_events(limit, "command", {"failure"}).rows
             C == CommandLines(limit)
             Denied == RefusedIn(limit)
  <2>1. limit \in Nat
    BY TailsAssumption
  <2>2. /\ \A o \in {"success", "failure", "unknown"} :
             /\ events("all").counts[o] = Cardinality(Outcome(AuthLines(limit), o))
             /\ events("login").counts[o] = Cardinality(Outcome(LoginLines(limit), o))
             /\ events("command").counts[o] = Cardinality(Outcome(C, o))
        /\ commands = AuthRows(C)
    <3>1. \A K : Picked(K, {}) = K
      BY DEF Picked
    <3>2. KindLines("all", limit) = AuthLines(limit) /\ KindLines("login", limit) = LoginLines(limit) /\ KindLines("command", limit) = C
      BY DEF KindLines
    <3> HIDE DEF C
    <3> QED BY <2>1, <3>1, <3>2, EventsRead
  <2>3. failures = AuthRows(Denied)
    <3>1. failures = AuthRows(Picked(KindLines("command", limit), {"failure"}))
      BY <2>1, EventsRead
    <3>2. Picked(KindLines("command", limit), {"failure"}) = Denied
      BY DEF Picked, KindLines, RefusedIn, Outcome
    <3> QED BY <3>1, <3>2
  <2>4. /\ DOMAIN failures = Denied /\ \A k \in Denied : failures[k] = AuthRecord(k)
        /\ DOMAIN commands = C /\ \A k \in C : commands[k] = AuthRecord(k)
    BY <2>2, <2>3 DEF AuthRows
  <2>5. list_accounting_records(limit, {}, {}) = commands
    <3> DEFINE records == read_auth_records(limit, FALSE)
               kept == { k \in DOMAIN records :
                         LET r == records[k] IN /\ r.parsed /\ ({} = {} \/ r.user \in {}) /\ ({} = {} \/ r.nas \in {})
                                                /\ ({} = {} \/ r.result \in {}) }
    <3>1. records = AuthRows(C) /\ \A k \in C : AuthRecord(k).parsed
      BY <2>1, AuthRead DEF CommandLines
    <3>2. list_accounting_records(limit, {}, {}) = Restrict(records, kept)
      BY Zenon DEF list_accounting_records, filter_records
    <3> HIDE DEF records
    <3>3. kept = C
      BY <3>1 DEF AuthRows
    <3>4. Restrict(AuthRows(C), C) = AuthRows(C)
      BY DEF Restrict, AuthRows
    <3> HIDE DEF kept
    <3> QED BY <2>2, <3>1, <3>2, <3>3, <3>4
  <2>6. \A k \in C : AuthRecord(k).at \in 0 .. hour
    BY <2>1, AuthRead DEF CommandLines
  <2>7. Denied = Outcome(C, "failure")
    BY DEF RefusedIn
  <2> HIDE DEF commands, failures, C, Denied, health
  <2>8. /\ health.stats.non_permit = Cardinality(Denied)
        /\ \A k \in Denied : health.stats.by_user[AuthRecord(k).user] = Cardinality({ m \in Denied : AuthRecord(m).user = AuthRecord(k).user })
        /\ \A h \in 0 .. hour : h + HOURS > hour => health.hourly[h] = Cardinality({ k \in C : AuthRecord(k).at = h })
    BY <2>1, HealthRead DEF health, C, Denied
  <2>9. \A k \in Denied : { m \in Denied : AuthRecord(m).user = AuthRecord(k).user } = { m \in Denied : failures[m].user = failures[k].user }
    BY <2>4
  <2>10. \A k \in C : { m \in C : AuthRecord(m).at = AuthRecord(k).at } = { m \in C : commands[m].at = commands[k].at }
    BY <2>4
  <2>11. \A o \in {"success", "failure", "unknown"} : events("all").counts[o] = events("login").counts[o] + events("command").counts[o]
    BY <2>1, <2>2, OutcomesAddUp DEF C
  <2>12. \A k \in DOMAIN failures :
           health.stats.by_user[failures[k].user] = Cardinality({ m \in DOMAIN failures : failures[m].user = failures[k].user })
    BY <2>4, <2>8, <2>9
  <2>13. \A k \in DOMAIN commands : commands[k].at + HOURS > hour =>
           health.hourly[commands[k].at] = Cardinality({ m \in DOMAIN commands : commands[m].at = commands[k].at })
    BY <2>4, <2>6, <2>8, <2>10
  <2>14. health.stats.non_permit = events("command").counts["failure"] /\ health.stats.non_permit = Cardinality(DOMAIN failures)
    BY <2>2, <2>4, <2>7, <2>8
  <2> QED BY <2>5, <2>11, <2>12, <2>13, <2>14 DEF health, commands, failures
<1>2. \A limit \in Tails : limit \in Nat
  BY TailsAssumption
<1> QED BY <1>1, <1>2, LoginsAuthenticated, RecentActivity DEF CountsAgree

-----------------------------------------------------------------------------
LEMMA LogShapesTypes == LogInv => LogTypes
<1> SUFFICES ASSUME LogInv
             PROVE  LogTypes
  OBVIOUS
<1>1. LogShapes /\ LogFiles /\ OpenInv
  BY DEF LogInv
<1>2. \A s \in {accessFile, authFile, acctFile} : \A i \in DOMAIN s : s[i].at \in 0 .. hour /\ Len(s[i].fields) \in 5 .. 10
  BY <1>1 DEF LogFiles
<1>3. \A i \in DOMAIN lived : /\ lived[i].terminal \in Terminals /\ lived[i].user \in Users /\ lived[i].over \in BOOLEAN
                              /\ LinesOf(i) \subseteq DOMAIN acctFile /\ Range(lived[i].ran) \subseteq Typeable
  BY <1>1, SessionRows DEF LogInv, SessionInv, Range
<1>4. {hour, odd} \subseteq 0 .. MaxOdd
  BY <1>1, TailsAssumption DEF LogShapes
<1> QED BY <1>1, <1>2, <1>3, <1>4 DEF LogTypes, LogShapes, OpenInv

\* The files hold the lines of the daemon and nothing else, and the sessions lived refer to lines that are there.
THEOREM LogTypesHold == LogSpec => []LogTypes
<1>1. LogInv /\ [LogNext]_logVars => LogInv'
  BY LogStep
<1>2. LogInit => LogInv
  BY LogStarts
<1>3. LogInv => LogTypes
  BY LogShapesTypes
<1> QED BY <1>1, <1>2, <1>3, PTL DEF LogSpec

\* What the pages show of sessions, commands, logins and refusals is what happened on the terminals, for any
\* terminals, users, commands and limits: a session is shown as over when it is, its commands as typed, and the
\* counts are those of the lines.
THEOREM LogPagesStayTrue == LogSpec => []PagesMatchTheLog
<1>1. LogInv /\ [LogNext]_logVars => LogInv'
  BY LogStep
<1>2. LogInit => LogInv
  BY LogStarts
<1>3. LogInv => PagesMatchTheLog
  BY SessionsTrue, CountsTrue DEF PagesMatchTheLog
<1> QED BY <1>1, <1>2, <1>3, PTL DEF LogSpec

-----------------------------------------------------------------------------
(* The histories of policies.                                              *)

Conditions == [Columns -> Referents \cup {Unset}]
Naming == [Tables -> [Referents -> Labels \cup {Unset}]]
Version == [policy : PolicyIds \cup {Unset}, number : Nat, snapshot : Snapshot,
            meant : [cond : Conditions, sets : Seq(Referents)]]
Save == [at : {"saving"}, policy : PolicyIds, was : Policy, row : Policy, sets : Seq(Referents), version : Nat,
         dropped : SUBSET (Tables \X Labels), saw : Naming]

Shapes ==
  /\ label \in Naming /\ former \in [Tables -> SUBSET Referents]
  /\ policies \in [DOMAIN policies -> Policy] /\ DOMAIN policies \subseteq PolicyIds
  /\ refers \in [DOMAIN policies -> Seq(Referents)]
  /\ versions \in Seq(Version)
  /\ saver \in [Savers -> Save \cup {NoSave}]
  /\ merged \subseteq DOMAIN policies

\* A name has one bearer, and what is there has been there.
NamesApart ==
  /\ \A t \in Tables, r, q \in Referents : label[t][r] = label[t][q] /\ label[t][r] # Unset => r = q
  /\ \A t \in Tables : Present(t) \subseteq former[t]

LiveConditions == \A p \in DOMAIN policies, c \in Columns : policies[p].cond[c] \in {Unset} \cup Present(c)

Recorded ==
  \A i \in DOMAIN versions :
    /\ versions[i].policy \in DOMAIN policies \cup {Unset}
    /\ versions[i].snapshot.sets = <<>>
    /\ \A c \in Columns : /\ versions[i].snapshot.names[c] # Unset => versions[i].meant.cond[c] # Unset
                          /\ versions[i].meant.cond[c] \in {Unset} \cup former[c]

\* What a restore reads from a version when the names are those of lab.
BearersIn(lab, table, name) == { r \in Referents : lab[table][r] = name }
RowIn(lab, snapshot) ==
  [enabled |-> snapshot.enabled, grant |-> snapshot.grant,
   cond |-> [c \in Columns |-> IF snapshot.names[c] = Unset \/ BearersIn(lab, c, snapshot.names[c]) = {} THEN Unset
                               ELSE CHOOSE r \in BearersIn(lab, c, snapshot.names[c]) : TRUE]]
GoneIn(lab, snapshot) ==
  { <<c, snapshot.names[c]>> : c \in { x \in Columns : snapshot.names[x] # Unset /\ BearersIn(lab, x, snapshot.names[x]) = {} } }
  \cup { <<"command_set", n>> : n \in { m \in Range(snapshot.sets) : BearersIn(lab, "command_set", m) = {} } }

Restoring ==
  \A s \in Savers : saver[s].at = "saving" =>
    /\ \A c \in Columns : saver[s].row.cond[c] \in {Unset} \cup former[c]
    /\ saver[s].version # 0 =>
         /\ saver[s].version \in DOMAIN versions
         /\ saver[s].sets = <<>>
         /\ saver[s].row = RowIn(saver[s].saw, versions[saver[s].version].snapshot)
         /\ saver[s].dropped = GoneIn(saver[s].saw, versions[saver[s].version].snapshot)

HasNewest == \A p \in DOMAIN policies : \E i \in VersionsOf(p) : \A j \in VersionsOf(p) : j \leq i

VersionInv ==
  Shapes /\ NamesApart /\ LiveConditions /\ Recorded /\ Restoring /\ HasNewest /\ NewestIsCurrent /\ RestoreIsTrue

-----------------------------------------------------------------------------
LEMMA SetFacts == /\ Columns \subseteq Tables /\ "command_set" \in Tables /\ "command_set" \notin Columns
                  /\ Unset \notin Referents \cup Labels \cup PolicyIds
  BY UnsetAssumption DEF Columns, Tables

LEMMA FormFacts == ASSUME NEW f \in PolicyForms PROVE f.row \in Policy /\ f.sets \in Seq(Referents)
  BY FormsAssumption

\* Versions of a policy can be counted.
LEMMA Countable == ASSUME versions \in Seq(Version), NEW p PROVE Cardinality(VersionsOf(p)) + 1 \in Nat
<1>1. IsFiniteSet(1 .. Len(versions))
  BY FS_Interval
<1>2. VersionsOf(p) \subseteq 1 .. Len(versions)
  BY DEF VersionsOf
<1> QED
  BY <1>1, <1>2, FS_Subset, FS_CardinalityType

\* The snapshot of a policy without command sets.
LEMMA Snapshots ==
  ASSUME label \in Naming, NEW row \in Policy
  PROVE  /\ build_snapshot(row, <<>>) \in Snapshot
         /\ build_snapshot(row, <<>>).sets = <<>>
         /\ build_snapshot(row, <<>>).enabled = row.enabled
         /\ build_snapshot(row, <<>>).grant = row.grant
         /\ \A c \in Columns : build_snapshot(row, <<>>).names[c] = NameOf(c, row.cond[c])
<1>1. [k \in DOMAIN <<>> |-> label["command_set"][<<>>[k]]] = <<>>
  OBVIOUS
<1>2. \A c \in Columns : NameOf(c, row.cond[c]) \in Labels \cup {Unset}
  BY SetFacts DEF NameOf, Naming, Policy, Conditions
<1> QED
  BY <1>1, <1>2 DEF build_snapshot, Snapshot, Policy

\* One version more, of p, and the others as they were.
Appended(p, row, sets) ==
  /\ versions' \in Seq(Version) /\ Len(versions') = Len(versions) + 1
  /\ \A i \in DOMAIN versions : i \in DOMAIN versions' /\ versions'[i] = versions[i]
  /\ DOMAIN versions' = DOMAIN versions \cup {Len(versions')}
  /\ versions'[Len(versions')].policy = p
  /\ versions'[Len(versions')].snapshot = build_snapshot(row, <<>>)
  /\ versions'[Len(versions')].meant.cond = row.cond

LEMMA Recording ==
  ASSUME versions \in Seq(Version), label \in Naming, NEW p \in PolicyIds, NEW row \in Policy, NEW sets \in Seq(Referents),
         record_version(p, row, sets, <<>>)
  PROVE  Appended(p, row, sets)
<1> DEFINE v == [policy |-> p, number |-> Cardinality(VersionsOf(p)) + 1, snapshot |-> build_snapshot(row, <<>>),
                 meant |-> [cond |-> row.cond, sets |-> sets]]
<1>1. versions' = Append(versions, v)
  BY DEF record_version
<1>2. v \in Version
  BY Countable, Snapshots DEF Version, Conditions, Policy
<1>3. v.policy = p /\ v.snapshot = build_snapshot(row, <<>>) /\ v.meant.cond = row.cond
  OBVIOUS
<1> HIDE DEF v
<1> QED
  BY <1>1, <1>2, <1>3 DEF Appended

\* The version that is recorded is the newest of its policy, and other policies keep theirs.
LEMMA NewestOf ==
  ASSUME versions \in Seq(Version), NEW p, NEW row, NEW sets, Appended(p, row, sets)
  PROVE  /\ Newest(p)' = Len(versions') /\ Len(versions') \in VersionsOf(p)'
         /\ \A j \in VersionsOf(p)' : j \leq Len(versions')
         /\ \A q : q # p => VersionsOf(q)' = VersionsOf(q) /\ Newest(q)' = Newest(q)
<1>1. Len(versions') \in VersionsOf(p)' /\ \A j \in VersionsOf(p)' : j \leq Len(versions') /\ j \in Nat
  BY DEF VersionsOf, Appended
<1>2. Newest(p)' = Len(versions')
  BY <1>1 DEF Newest
<1>3. \A q : q # p => VersionsOf(q)' = VersionsOf(q)
  BY DEF VersionsOf, Appended
<1>4. \A q : q # p => Newest(q)' = Newest(q)
  BY <1>3 DEF Newest
<1> QED
  BY <1>1, <1>2, <1>3, <1>4

-----------------------------------------------------------------------------
LEMMA VersionStart == VersionInit => VersionInv
<1> SUFFICES ASSUME VersionInit PROVE VersionInv
  OBVIOUS
<1> USE SetFacts
<1>1. PICK r \in Referents, n \in Labels :
        /\ label = [t \in Tables |-> [x \in Referents |-> IF x = r THEN n ELSE Unset]]
        /\ former = [t \in Tables |-> {r}]
  BY DEF VersionInit
<1>2. DOMAIN policies = {} /\ DOMAIN refers = {} /\ versions = <<>>
  BY DEF VersionInit
<1>3. Shapes
  <2>1. label \in Naming /\ former \in [Tables -> SUBSET Referents]
    BY <1>1 DEF Naming
  <2>2. policies \in [DOMAIN policies -> Policy] /\ refers \in [DOMAIN policies -> Seq(Referents)]
    BY <1>2 DEF VersionInit
  <2> QED
    BY <2>1, <2>2, <1>2 DEF Shapes, VersionInit
<1>4. NamesApart
  BY <1>1 DEF NamesApart, Present, There
<1>5. LiveConditions /\ HasNewest /\ NewestIsCurrent
  BY <1>2 DEF LiveConditions, HasNewest, NewestIsCurrent
<1>6. Recorded
  BY <1>2 DEF Recorded
<1>7. Restoring
  BY DEF Restoring, VersionInit, NoSave
<1>8. RestoreIsTrue
  BY DEF RestoreIsTrue, VersionInit
<1> QED
  BY <1>3, <1>4, <1>5, <1>6, <1>7, <1>8 DEF VersionInv

\* Nothing is claimed of a step that is not the end of a restore.
LEMMA NotRestored == answer' = NoAnswer => RestoreIsTrue'
  BY DEF RestoreIsTrue, NoAnswer

\* What is recorded about policies that a step leaves alone.
LEMMA StillNewest ==
  ASSUME VersionInv, UNCHANGED << label, former, policies, refers, versions, merged >>
  PROVE  NamesApart' /\ LiveConditions' /\ Recorded' /\ HasNewest' /\ NewestIsCurrent'
<1>1. NamesApart' /\ LiveConditions'
  BY DEF VersionInv, NamesApart, LiveConditions, Present, There
<1>2. Recorded'
  BY DEF VersionInv, Recorded
<1>3. \A p : VersionsOf(p)' = VersionsOf(p) /\ Newest(p)' = Newest(p)
  BY DEF VersionsOf, Newest
<1>4. HasNewest' /\ NewestIsCurrent'
  BY <1>3 DEF VersionInv, HasNewest, NewestIsCurrent, There
<1> QED
  BY <1>1, <1>2, <1>4

LEMMA BeginStep ==
  ASSUME VersionInv, NEW s \in Savers, NEW p \in DOMAIN policies, NEW row \in Policy, NEW sets \in Seq(Referents),
         NEW version \in Nat, NEW dropped \in SUBSET (Tables \X Labels), Begin(s, p, row, sets, version, dropped),
         \A c \in Columns : row.cond[c] \in {Unset} \cup former[c],
         version # 0 => /\ version \in DOMAIN versions /\ sets = <<>>
                        /\ row = RowIn(label, versions[version].snapshot)
                        /\ dropped = GoneIn(label, versions[version].snapshot)
  PROVE  VersionInv'
<1> DEFINE me == [at |-> "saving", policy |-> p, was |-> policies[p], row |-> row, sets |-> sets,
                  version |-> version, dropped |-> dropped, saw |-> label]
<1>1. me \in Save
  BY DEF Save, VersionInv, Shapes, Naming
<1>2. /\ me.at = "saving" /\ me.row = row /\ me.sets = sets /\ me.version = version /\ me.dropped = dropped /\ me.saw = label
  OBVIOUS
<1>3. saver' = [saver EXCEPT ![s] = me] /\ UNCHANGED << label, former, policies, refers, versions, merged >> /\ answer' = NoAnswer
  BY DEF Begin
<1> HIDE DEF me
<1>4. Shapes'
  BY <1>1, <1>3 DEF VersionInv, Shapes
<1>5. Restoring'
  <2> SUFFICES ASSUME NEW t \in Savers, saver'[t].at = "saving"
               PROVE  /\ \A c \in Columns : saver'[t].row.cond[c] \in {Unset} \cup former[c]
                      /\ saver'[t].version # 0 =>
                           /\ saver'[t].version \in DOMAIN versions
                           /\ saver'[t].sets = <<>>
                           /\ saver'[t].row = RowIn(saver'[t].saw, versions[saver'[t].version].snapshot)
                           /\ saver'[t].dropped = GoneIn(saver'[t].saw, versions[saver'[t].version].snapshot)
    BY <1>3 DEF Restoring
  <2>1. CASE t = s
    BY <2>1, <1>2, <1>3 DEF VersionInv, Shapes
  <2>2. CASE t # s
    BY <2>2, <1>3 DEF VersionInv, Shapes, Restoring
  <2> QED
    BY <2>1, <2>2
<1> QED
  BY <1>3, <1>4, <1>5, StillNewest, NotRestored DEF VersionInv

\* What is read from a version is what the policy can take.
LEMMA RowIsRestored ==
  ASSUME VersionInv, NEW i \in DOMAIN versions, NEW p
  PROVE  LET snapshot == versions[i].snapshot IN
         /\ RestoredRow(p, snapshot) = RowIn(label, snapshot)
         /\ RestoredRow(p, snapshot) \in Policy
         /\ \A c \in Columns : RestoredRow(p, snapshot).cond[c] \in {Unset} \cup Present(c)
         /\ RestoredSets(snapshot) = <<>>
         /\ resolve_snapshot_for_restore(snapshot) = GoneIn(label, snapshot)
         /\ resolve_snapshot_for_restore(snapshot) \in SUBSET (Tables \X Labels)
<1> DEFINE snapshot == versions[i].snapshot
<1>1. snapshot \in Snapshot /\ snapshot.sets = <<>>
  <2>1. versions[i] \in Version
    BY DEF VersionInv, Shapes
  <2> QED
    BY <2>1 DEF VersionInv, Version, Recorded
<1> HIDE DEF snapshot
<1>2. \A c \in Columns : Resolve(c, snapshot.names[c]) \in {Unset} \cup Present(c)
  BY SetFacts DEF Resolve, Bearers, Present, There
<1>3. RestoredRow(p, snapshot) = RowIn(label, snapshot)
  BY DEF RestoredRow, RowIn, Resolve, Bearers, BearersIn
<1>4. RestoredRow(p, snapshot) \in Policy
  BY <1>1, <1>2 DEF RestoredRow, Policy, Snapshot, Present
<1>5. RestoredSets(snapshot) = <<>>
  BY <1>1 DEF RestoredSets
<1>6. resolve_snapshot_for_restore(snapshot) = GoneIn(label, snapshot)
  BY DEF resolve_snapshot_for_restore, GoneIn, Bearers, BearersIn
<1>7. Range(snapshot.sets) = {}
  BY <1>1 DEF Range
<1>8. resolve_snapshot_for_restore(snapshot) \in SUBSET (Tables \X Labels)
  BY <1>1, <1>7, SetFacts DEF resolve_snapshot_for_restore, Snapshot
<1>9. \A c \in Columns : RestoredRow(p, snapshot).cond[c] \in {Unset} \cup Present(c)
  BY <1>2 DEF RestoredRow
<1> QED
  BY <1>3, <1>4, <1>5, <1>6, <1>8, <1>9 DEF snapshot

LEMMA UpdateStep == ASSUME VersionInv, NEW s \in Savers, NEW p \in DOMAIN policies, update_policy(s, p) PROVE VersionInv'
<1>1. PICK f \in PolicyForms : _resolve_conditions(f.row) /\ SetsThere(f.sets) /\ Begin(s, p, f.row, f.sets, 0, {})
  BY DEF update_policy
<1>2. \A c \in Columns : f.row.cond[c] \in {Unset} \cup former[c]
  BY <1>1, SetFacts DEF _resolve_conditions, VersionInv, NamesApart
<1>3. f.row \in Policy /\ f.sets \in Seq(Referents) /\ 0 \in Nat /\ {} \in SUBSET (Tables \X Labels)
  BY FormFacts
<1>4. Begin(s, p, f.row, f.sets, 0, {})
  BY <1>1
<1> QED
  BY <1>2, <1>3, <1>4, BeginStep

LEMMA RestoreStep == ASSUME VersionInv, NEW s \in Savers, NEW p \in DOMAIN policies, restore_policy_version(s, p) PROVE VersionInv'
<1>1. PICK i \in VersionsOf(p) :
        LET snapshot == versions[i].snapshot IN
        Begin(s, p, RestoredRow(p, snapshot), RestoredSets(snapshot), i, resolve_snapshot_for_restore(snapshot))
  BY DEF restore_policy_version
<1>2. i \in DOMAIN versions /\ i \in Nat
  BY DEF VersionsOf, VersionInv, Shapes
<1>3. \A c \in Columns : RestoredRow(p, versions[i].snapshot).cond[c] \in {Unset} \cup former[c]
  BY <1>2, RowIsRestored, SetFacts DEF VersionInv, NamesApart
<1>4. <<>> \in Seq(Referents)
  OBVIOUS
<1> QED
  BY <1>1, <1>2, <1>3, <1>4, RowIsRestored, BeginStep

\* What a recorded version adds, when the policy is the row that was recorded.
LEMMA AfterRecording ==
  ASSUME VersionInv, NEW p \in PolicyIds, NEW row \in Policy, NEW sets, Appended(p, row, sets),
         label' = label, former' = former, DOMAIN policies' = DOMAIN policies \cup {p},
         \A q \in DOMAIN policies : q # p => policies'[q] = policies[q],
         \A c \in Columns : row.cond[c] \in {Unset} \cup former[c]
  PROVE  /\ Recorded' /\ HasNewest'
         /\ \A q \in DOMAIN policies' : q # p => Newest(q)' = Newest(q) /\ Newest(q) \in DOMAIN versions
<1>1. versions \in Seq(Version) /\ label \in Naming
  BY DEF VersionInv, Shapes
<1>2. Recorded'
  <2> SUFFICES ASSUME NEW i \in DOMAIN versions'
               PROVE  /\ versions'[i].policy \in DOMAIN policies' \cup {Unset}
                      /\ versions'[i].snapshot.sets = <<>>
                      /\ \A c \in Columns : /\ versions'[i].snapshot.names[c] # Unset => versions'[i].meant.cond[c] # Unset
                                            /\ versions'[i].meant.cond[c] \in {Unset} \cup former[c]
    BY DEF Recorded
  <2>1. CASE i = Len(versions')
    BY <2>1, <1>1, Snapshots DEF Appended, NameOf
  <2>2. CASE i \in DOMAIN versions
    BY <2>2 DEF VersionInv, Recorded, Appended
  <2> QED
    BY <2>1, <2>2 DEF Appended
<1>3. HasNewest'
  BY <1>1, NewestOf DEF VersionInv, HasNewest
<1>4. ASSUME NEW q \in DOMAIN policies', q # p PROVE Newest(q)' = Newest(q) /\ Newest(q) \in DOMAIN versions
  <2>1. Newest(q)' = Newest(q)
    BY <1>1, <1>4, NewestOf
  <2>2. Newest(q) \in VersionsOf(q)
    BY <1>4 DEF VersionInv, HasNewest, Newest
  <2> QED
    BY <2>1, <2>2 DEF VersionsOf
<1> QED
  BY <1>2, <1>3, <1>4

LEMMA CreateStep == ASSUME VersionInv, NEW p \in PolicyIds, create_policy(p) PROVE VersionInv'
<1> USE SetFacts
<1>1. PICK f \in PolicyForms :
        /\ _resolve_conditions(f.row) /\ SetsThere(f.sets)
        /\ policies' = Put(policies, p, f.row) /\ refers' = Put(refers, p, f.sets)
        /\ record_version(p, f.row, f.sets, Unflushed)
  BY DEF create_policy
<1>2. /\ p \notin DOMAIN policies /\ answer' = NoAnswer /\ UNCHANGED << label, former, saver, merged >>
      /\ record_version(p, f.row, f.sets, <<>>)
  BY <1>1 DEF create_policy, Unflushed
<1>3. f.row \in Policy /\ f.sets \in Seq(Referents)
  BY FormFacts
<1>4. versions \in Seq(Version) /\ label \in Naming
  BY DEF VersionInv, Shapes
<1>5. Appended(p, f.row, f.sets)
  BY <1>2, <1>3, <1>4, Recording
<1>6. /\ DOMAIN policies' = DOMAIN policies \cup {p} /\ policies'[p] = f.row
      /\ \A q \in DOMAIN policies : q # p /\ policies'[q] = policies[q]
      /\ refers' \in [DOMAIN policies' -> Seq(Referents)]
  BY <1>1, <1>2, <1>3 DEF Put, VersionInv, Shapes
<1>7. \A c \in Columns : f.row.cond[c] \in {Unset} \cup Present(c) /\ Present(c) \subseteq former[c]
  BY <1>1 DEF _resolve_conditions, VersionInv, NamesApart
<1>8. Shapes'
  BY <1>1, <1>2, <1>3, <1>5, <1>6 DEF VersionInv, Shapes, Put, Appended
<1>9. NamesApart' /\ LiveConditions'
  <2>1. \A t : Present(t)' = Present(t)
    BY <1>2 DEF Present, There
  <2> QED
    BY <1>2, <1>6, <1>7, <2>1 DEF VersionInv, NamesApart, LiveConditions
<1>10. /\ Recorded' /\ HasNewest'
       /\ \A q \in DOMAIN policies' : q # p => Newest(q)' = Newest(q) /\ Newest(q) \in DOMAIN versions
  BY <1>2, <1>3, <1>5, <1>6, <1>7, AfterRecording
<1>11. Restoring'
  BY <1>2, <1>5 DEF VersionInv, Restoring, Appended
<1>12. NewestIsCurrent'
  <2> SUFFICES ASSUME NEW q \in DOMAIN policies', q \notin merged
               PROVE  /\ policies'[q].enabled = versions'[Newest(q)'].snapshot.enabled
                      /\ policies'[q].grant = versions'[Newest(q)'].snapshot.grant
                      /\ \A c \in Columns : LET r == versions'[Newest(q)'].meant.cond[c] IN
                           policies'[q].cond[c] = IF r # Unset /\ There(c, r) THEN r ELSE Unset
    BY <1>2 DEF NewestIsCurrent, There
  <2>1. CASE q = p
    BY <2>1, <1>3, <1>4, <1>5, <1>6, <1>7, NewestOf, Snapshots DEF Present, Appended
  <2>2. CASE q # p
    BY <2>2, <1>5, <1>6, <1>10 DEF VersionInv, NewestIsCurrent, Appended
  <2> QED
    BY <2>1, <2>2
<1> QED
  BY <1>2, <1>8, <1>9, <1>10, <1>11, <1>12, NotRestored DEF VersionInv

\* What a commit that goes through does.
Committed(s, me, p) ==
  /\ me = saver[s] /\ p = me.policy /\ p \in DOMAIN policies /\ p \in PolicyIds
  /\ me \in Save /\ me.row \in Policy /\ me.sets \in Seq(Referents)
  /\ Writable(me) /\ me.version # 0 => me.sets = <<>>
  /\ saver' = [saver EXCEPT ![s] = NoSave] /\ label' = label /\ former' = former
  /\ policies' = [policies EXCEPT ![p] = Merge(me)]
  /\ refers' = [refers EXCEPT ![p] = me.sets]
  /\ Appended(p, me.row, me.sets)
  /\ merged' = IF Merge(me) = me.row THEN merged \ {p} ELSE merged \cup {p}
  /\ answer' = IF me.version = 0 \/ Merge(me) # me.row \/ me.saw # label THEN NoAnswer
               ELSE [policy |-> p, version |-> me.version, dropped |-> me.dropped]

LEMMA CommitMeans ==
  ASSUME VersionInv, NEW s \in Savers, CommitSave(s), Writable(saver[s])
  PROVE  Committed(s, saver[s], saver[s].policy)
<1> DEFINE me == saver[s]
<1>1. /\ me.at = "saving" /\ saver' = [saver EXCEPT ![s] = NoSave] /\ label' = label /\ former' = former
      /\ policies' = [policies EXCEPT ![me.policy] = Merge(me)]
      /\ refers' = [refers EXCEPT ![me.policy] = me.sets]
      /\ record_version(me.policy, me.row, me.sets, IF me.version = 0 THEN Unflushed ELSE me.sets)
      /\ merged' = IF Merge(me) = me.row THEN merged \ {me.policy} ELSE merged \cup {me.policy}
      /\ answer' = IF me.version = 0 \/ Merge(me) # me.row \/ me.saw # label THEN NoAnswer
                   ELSE [policy |-> me.policy, version |-> me.version, dropped |-> me.dropped]
  BY DEF CommitSave
<1>2. me \in Save
  BY <1>1 DEF VersionInv, Shapes, NoSave
<1>3. me.policy \in DOMAIN policies /\ me.policy \in PolicyIds /\ me.row \in Policy /\ me.sets \in Seq(Referents)
  BY <1>2 DEF Writable, Save
<1>4. me.version # 0 => me.sets = <<>>
  BY <1>1 DEF VersionInv, Restoring
<1>5. versions \in Seq(Version) /\ label \in Naming
  BY DEF VersionInv, Shapes
<1>6. record_version(me.policy, me.row, me.sets, <<>>)
  BY <1>1, <1>4 DEF Unflushed
<1> HIDE DEF me
<1>7. Appended(me.policy, me.row, me.sets)
  BY <1>3, <1>5, <1>6, Recording
<1>8. Writable(me)
  BY DEF me
<1>9. me = saver[s]
  BY DEF me
<1>10. Committed(s, me, me.policy)
  BY <1>1, <1>2, <1>3, <1>4, <1>7, <1>8, <1>9 DEF Committed
<1> QED
  BY <1>10, <1>9

\* A merged row is a row, about what is there.
LEMMA Merged ==
  ASSUME VersionInv, NEW me \in Save, me.policy \in DOMAIN policies, Writable(me)
  PROVE  /\ Merge(me) \in Policy
         /\ \A c \in Columns : Merge(me).cond[c] \in {Unset} \cup Present(c)
<1>1. me.was \in Policy /\ me.row \in Policy /\ policies[me.policy] \in Policy
  BY DEF Save, VersionInv, Shapes
<1>2. Merge(me) \in Policy
  BY <1>1 DEF Merge, Policy
<1>3. ASSUME NEW c \in Columns PROVE Merge(me).cond[c] \in {Unset} \cup Present(c)
  <2>1. Merge(me).cond[c] = IF me.row.cond[c] = me.was.cond[c] THEN policies[me.policy].cond[c] ELSE me.row.cond[c]
    BY DEF Merge
  <2>2. policies[me.policy].cond[c] \in {Unset} \cup Present(c)
    BY DEF VersionInv, LiveConditions
  <2>3. me.row.cond[c] \in {Unset, me.was.cond[c]} \cup Present(c)
    BY DEF Writable
  <2> QED
    BY <2>1, <2>2, <2>3
<1> QED
  BY <1>2, <1>3

\* The response of a restore that nothing disturbed is true.
LEMMA RestoredTruly ==
  ASSUME VersionInv, NEW s \in Savers, NEW me, NEW p, Committed(s, me, p), me.at = "saving", Shapes'
  PROVE  RestoreIsTrue'
<1> SUFFICES ASSUME me.version # 0, Merge(me) = me.row, me.saw = label,
                    answer' = [policy |-> p, version |-> me.version, dropped |-> me.dropped]
             PROVE  RestoreIsTrue'
  BY NotRestored DEF Committed
<1> USE SetFacts
<1> DEFINE i == me.version
           snapshot == versions[i].snapshot
           row == RowIn(label, snapshot)
<1>1. /\ i \in DOMAIN versions /\ me.sets = <<>> /\ me.row = row /\ me.dropped = GoneIn(label, snapshot)
  BY DEF VersionInv, Restoring, Committed
<1>2. versions[i] \in Version /\ snapshot \in Snapshot /\ snapshot.sets = <<>> /\ label \in Naming
  <2>1. versions[i] \in Version /\ label \in Naming
    BY <1>1 DEF VersionInv, Shapes
  <2> QED
    BY <1>1, <2>1 DEF VersionInv, Version, Recorded
<1>3. policies'[p] = row /\ refers'[p] = <<>> /\ label' = label /\ row \in Policy
  BY <1>1 DEF Committed, VersionInv, Shapes
<1>4. versions'[i] = versions[i] /\ versions'[Len(versions')].snapshot = build_snapshot(row, <<>>)
  BY <1>1 DEF Committed, Appended
<1>5. \A x \in Policy : build_snapshot(x, <<>>)' = build_snapshot(x, <<>>)
  BY <1>3 DEF build_snapshot, NameOf
<1>6. \A j : diff_policy_version(p, j)' <=> build_snapshot(row, <<>>) # versions'[j].snapshot
  BY <1>3, <1>5 DEF diff_policy_version
<1>7. ASSUME NEW c \in Columns PROVE ConditionIsMeant(p, versions[i], c, me.dropped)'
  <2>1. /\ snapshot.names[c] # Unset => versions[i].meant.cond[c] \in Referents
    BY <1>1, <1>2 DEF VersionInv, Recorded, Shapes
  <2>2. row.cond[c] = IF snapshot.names[c] = Unset \/ BearersIn(label, c, snapshot.names[c]) = {} THEN Unset
                      ELSE CHOOSE r \in BearersIn(label, c, snapshot.names[c]) : TRUE
    BY DEF RowIn
  <2>3. CASE snapshot.names[c] = Unset
    BY <2>2, <2>3, <1>3, <1>4 DEF ConditionIsMeant
  <2>4. CASE snapshot.names[c] # Unset /\ BearersIn(label, c, snapshot.names[c]) = {}
    <3>1. <<c, snapshot.names[c]>> \in me.dropped
      BY <2>4, <1>1 DEF GoneIn
    <3> QED
      BY <2>2, <2>4, <3>1, <1>3, <1>4 DEF ConditionIsMeant, BearersIn
  <2>5. CASE snapshot.names[c] # Unset /\ BearersIn(label, c, snapshot.names[c]) # {}
    <3>1. row.cond[c] \in Referents /\ label[c][row.cond[c]] = snapshot.names[c]
      BY <2>2, <2>5 DEF BearersIn
    <3>2. label[c][versions[i].meant.cond[c]] = snapshot.names[c] => row.cond[c] = versions[i].meant.cond[c]
      BY <2>1, <2>5, <3>1 DEF VersionInv, NamesApart
    <3> QED
      BY <2>5, <3>1, <3>2, <1>3, <1>4 DEF ConditionIsMeant
  <2> QED
    BY <2>3, <2>4, <2>5
<1>8. row.enabled = snapshot.enabled /\ row.grant = snapshot.grant
  BY DEF RowIn
<1>9. diff_policy_version(p, i)' <=> me.dropped # {}
  <2>1. Range(snapshot.sets) = {}
    BY <1>2 DEF Range
  <2>2. me.dropped # {} <=> \E c \in Columns : snapshot.names[c] # Unset /\ BearersIn(label, c, snapshot.names[c]) = {}
    BY <1>1, <2>1 DEF GoneIn
  <2>3. ASSUME NEW c \in Columns
        PROVE  NameOf(c, row.cond[c]) = snapshot.names[c]
               <=> ~ (snapshot.names[c] # Unset /\ BearersIn(label, c, snapshot.names[c]) = {})
    BY DEF RowIn, NameOf, BearersIn
  <2>4. build_snapshot(row, <<>>) = snapshot <=> \A c \in Columns : NameOf(c, row.cond[c]) = snapshot.names[c]
    <3> DEFINE mine == build_snapshot(row, <<>>)
    <3>1. /\ mine \in Snapshot /\ mine.sets = snapshot.sets /\ mine.enabled = snapshot.enabled /\ mine.grant = snapshot.grant
          /\ \A c \in Columns : mine.names[c] = NameOf(c, row.cond[c])
      BY <1>2, <1>3, <1>8, Snapshots
    <3> HIDE DEF mine, row, snapshot
    <3>2. mine = snapshot <=> mine.names = snapshot.names
      BY <3>1, <1>2 DEF Snapshot
    <3>3. mine.names = snapshot.names <=> \A c \in Columns : mine.names[c] = snapshot.names[c]
      BY <3>1, <1>2 DEF Snapshot
    <3>4. mine = snapshot <=> \A c \in Columns : NameOf(c, row.cond[c]) = snapshot.names[c]
      BY <3>1, <3>2, <3>3
    <3> QED
      BY <3>4 DEF mine
  <2> QED
    BY <1>4, <1>6, <2>2, <2>3, <2>4
<1>10. ~ diff_policy_version(p, Len(versions))'
  BY <1>4, <1>6
<1> QED
  BY <1>3, <1>4, <1>7, <1>8, <1>9, <1>10 DEF RestoreIsTrue

LEMMA CommitStep == ASSUME VersionInv, NEW s \in Savers, CommitSave(s), Writable(saver[s]) PROVE VersionInv'
<1> DEFINE me == saver[s]
           p == me.policy
<1>1. Committed(s, me, p) /\ me.at = "saving"
  BY CommitMeans DEF CommitSave
<1> HIDE DEF me, p
<1>2. me \in Save /\ p \in DOMAIN policies /\ p \in PolicyIds /\ me.policy = p /\ me.row \in Policy /\ Appended(p, me.row, me.sets)
  BY <1>1 DEF Committed
<1>3. Merge(me) \in Policy /\ \A c \in Columns : Merge(me).cond[c] \in {Unset} \cup Present(c)
  BY <1>1, <1>2, Merged DEF Committed
<1>4. /\ DOMAIN policies' = DOMAIN policies /\ policies'[p] = Merge(me)
      /\ \A q \in DOMAIN policies : q # p => policies'[q] = policies[q]
      /\ policies' \in [DOMAIN policies -> Policy]
  BY <1>1, <1>2, <1>3 DEF Committed, VersionInv, Shapes
<1>5. Shapes'
  <2>1. label' \in Naming /\ former' \in [Tables -> SUBSET Referents]
    BY <1>1 DEF Committed, VersionInv, Shapes
  <2>2. refers' \in [DOMAIN policies' -> Seq(Referents)]
    BY <1>1, <1>4 DEF Committed, VersionInv, Shapes
  <2>3. versions' \in Seq(Version)
    BY <1>2 DEF Appended
  <2>4. saver' \in [Savers -> Save \cup {NoSave}]
    BY <1>1 DEF Committed, VersionInv, Shapes
  <2>5. DOMAIN policies' \subseteq PolicyIds
    BY <1>4 DEF VersionInv, Shapes
  <2>6. merged' \subseteq DOMAIN policies'
    BY <1>1, <1>2, <1>4 DEF Committed, VersionInv, Shapes
  <2> QED
    BY <2>1, <2>2, <2>3, <2>4, <2>5, <2>6, <1>4 DEF Shapes
<1>6. NamesApart' /\ LiveConditions'
  <2>1. \A t : Present(t)' = Present(t)
    BY <1>1 DEF Present, There, Committed
  <2>2. NamesApart'
    BY <1>1, <2>1 DEF VersionInv, NamesApart, Committed
  <2>3. LiveConditions'
    BY <1>3, <1>4, <2>1 DEF VersionInv, LiveConditions
  <2> QED
    BY <2>2, <2>3
<1>7. /\ Recorded' /\ HasNewest'
      /\ \A q \in DOMAIN policies' : q # p => Newest(q)' = Newest(q) /\ Newest(q) \in DOMAIN versions
  <2>1. \A c \in Columns : me.row.cond[c] \in {Unset} \cup former[c]
    BY <1>1 DEF Committed, VersionInv, Restoring
  <2>2. label' = label /\ former' = former /\ DOMAIN policies' = DOMAIN policies \cup {p}
    BY <1>1, <1>2, <1>4 DEF Committed
  <2> QED
    BY <1>2, <1>4, <2>1, <2>2, AfterRecording
<1>8. Restoring'
  <2>1. \A t \in Savers : saver'[t] = IF t = s THEN NoSave ELSE saver[t]
    BY <1>1 DEF Committed, VersionInv, Shapes
  <2>2. NoSave.at = "resting" /\ former' = former
    BY <1>1 DEF NoSave, Committed
  <2> QED
    BY <1>2, <2>1, <2>2 DEF VersionInv, Restoring, Appended
<1>9. NewestIsCurrent'
  <2> SUFFICES ASSUME NEW q \in DOMAIN policies', q \notin merged'
               PROVE  /\ policies'[q].enabled = versions'[Newest(q)'].snapshot.enabled
                      /\ policies'[q].grant = versions'[Newest(q)'].snapshot.grant
                      /\ \A c \in Columns : LET r == versions'[Newest(q)'].meant.cond[c] IN
                           policies'[q].cond[c] = IF r # Unset /\ There(c, r) THEN r ELSE Unset
    BY <1>1 DEF NewestIsCurrent, There, Committed
  <2>1. CASE q = p
    <3>1. Merge(me) = me.row
      BY <1>1, <2>1 DEF Committed
    <3>2. Newest(q)' = Len(versions')
      BY <1>2, <2>1, NewestOf DEF VersionInv, Shapes
    <3>3. /\ versions'[Len(versions')].snapshot.enabled = me.row.enabled /\ versions'[Len(versions')].snapshot.grant = me.row.grant
          /\ versions'[Len(versions')].meant.cond = me.row.cond
      BY <1>2, Snapshots DEF Appended, VersionInv, Shapes
    <3> QED
      BY <1>3, <1>4, <2>1, <3>1, <3>2, <3>3 DEF Present
  <2>2. CASE q # p
    <3>1. q \in DOMAIN policies /\ q \notin merged
      BY <1>1, <1>4, <2>2 DEF Committed
    <3>2. versions'[Newest(q)'] = versions[Newest(q)]
      BY <1>2, <1>7, <2>2 DEF Appended
    <3> QED
      BY <1>4, <2>2, <3>1, <3>2 DEF VersionInv, NewestIsCurrent
  <2> QED
    BY <2>1, <2>2
<1>10. RestoreIsTrue'
  BY <1>1, <1>5, RestoredTruly
<1> QED
  BY <1>5, <1>6, <1>7, <1>8, <1>9, <1>10 DEF VersionInv

\* A save that ends without a commit.
LEMMA SaveAbandonStep ==
  ASSUME VersionInv, NEW s \in Savers, saver' = [saver EXCEPT ![s] = NoSave], answer' = NoAnswer,
         UNCHANGED << label, former, policies, refers, versions, merged >>
  PROVE  VersionInv'
<1>1. Shapes'
  BY DEF VersionInv, Shapes
<1>2. Restoring'
  BY DEF VersionInv, Restoring, Shapes, NoSave
<1> QED
  BY <1>1, <1>2, StillNewest, NotRestored DEF VersionInv

LEMMA AddSetStep == ASSUME VersionInv, NEW p \in DOMAIN policies, add_command_set_to_policy(p) PROVE VersionInv'
<1>1. PICK r \in Present("command_set") : refers' = [refers EXCEPT ![p] = Append(@, r)]
  BY DEF add_command_set_to_policy
<1>2. answer' = NoAnswer /\ UNCHANGED << label, former, policies, versions, saver, merged >>
  BY DEF add_command_set_to_policy
<1>3. r \in Referents /\ refers[p] \in Seq(Referents)
  BY DEF Present, VersionInv, Shapes
<1>4. Append(refers[p], r) \in Seq(Referents)
  BY <1>3
<1>5. Shapes'
  BY <1>1, <1>2, <1>4 DEF VersionInv, Shapes
<1>6. NamesApart' /\ LiveConditions'
  BY <1>2 DEF VersionInv, NamesApart, LiveConditions, Present, There
<1>7. Recorded' /\ Restoring'
  BY <1>2 DEF VersionInv, Recorded, Restoring
<1>8. \A q : VersionsOf(q)' = VersionsOf(q) /\ Newest(q)' = Newest(q)
  BY <1>2 DEF VersionsOf, Newest
<1>9. HasNewest' /\ NewestIsCurrent'
  BY <1>2, <1>8 DEF VersionInv, HasNewest, NewestIsCurrent, There
<1> QED
  BY <1>2, <1>5, <1>6, <1>7, <1>9, NotRestored DEF VersionInv

LEMMA DeletePolicyStep == ASSUME VersionInv, NEW p \in DOMAIN policies, delete_policy(p) PROVE VersionInv'
<1>1. /\ policies' = [q \in DOMAIN policies \ {p} |-> policies[q]] /\ refers' = [q \in DOMAIN refers \ {p} |-> refers[q]]
      /\ versions' = [i \in DOMAIN versions |-> IF versions[i].policy = p THEN [versions[i] EXCEPT !.policy = Unset] ELSE versions[i]]
      /\ merged' = merged \ {p} /\ answer' = NoAnswer /\ UNCHANGED << label, former, saver >>
  BY DEF delete_policy
<1>2. /\ DOMAIN policies' = DOMAIN policies \ {p} /\ \A q \in DOMAIN policies' : policies'[q] = policies[q]
  BY <1>1
<1>3. versions \in Seq(Version) /\ \A i \in DOMAIN versions : versions[i] \in Version
  BY DEF VersionInv, Shapes
<1>4. p \in PolicyIds /\ p # Unset
  BY SetFacts DEF VersionInv, Shapes
<1>5. /\ DOMAIN versions' = DOMAIN versions
      /\ \A i \in DOMAIN versions : /\ versions'[i] \in Version
                                    /\ versions'[i].policy = IF versions[i].policy = p THEN Unset ELSE versions[i].policy
                                    /\ versions'[i].snapshot = versions[i].snapshot /\ versions'[i].meant = versions[i].meant
  BY <1>1, <1>3 DEF Version
<1>6. versions' \in Seq(Version)
  BY <1>1, <1>3, <1>5
<1>7. Shapes'
  BY <1>1, <1>2, <1>6 DEF VersionInv, Shapes
<1>8. NamesApart' /\ LiveConditions'
  BY <1>1, <1>2 DEF VersionInv, NamesApart, LiveConditions, Present, There
<1>9. Recorded'
  BY <1>1, <1>2, <1>5 DEF VersionInv, Recorded
<1>10. Restoring'
  BY <1>1, <1>5 DEF VersionInv, Restoring
<1>11. \A q : q # p /\ q # Unset => VersionsOf(q)' = VersionsOf(q)
  BY <1>5 DEF VersionsOf
<1>12. \A q \in DOMAIN policies' : /\ VersionsOf(q)' = VersionsOf(q) /\ Newest(q)' = Newest(q)
                                   /\ Newest(q) \in DOMAIN versions
  <2> SUFFICES ASSUME NEW q \in DOMAIN policies'
               PROVE  VersionsOf(q)' = VersionsOf(q) /\ Newest(q)' = Newest(q) /\ Newest(q) \in DOMAIN versions
    OBVIOUS
  <2>1. q \in DOMAIN policies /\ q # p /\ q # Unset
    BY <1>2, SetFacts DEF VersionInv, Shapes
  <2>2. VersionsOf(q)' = VersionsOf(q)
    BY <1>11, <2>1
  <2>3. Newest(q)' = Newest(q)
    BY <2>2 DEF Newest
  <2>4. Newest(q) \in VersionsOf(q)
    BY <2>1 DEF VersionInv, HasNewest, Newest
  <2> QED
    BY <2>2, <2>3, <2>4 DEF VersionsOf
<1>13. HasNewest'
  BY <1>2, <1>12 DEF VersionInv, HasNewest
<1>14. NewestIsCurrent'
  BY <1>1, <1>2, <1>5, <1>12 DEF VersionInv, NewestIsCurrent, There
<1> QED
  BY <1>1, <1>7, <1>8, <1>9, <1>10, <1>13, <1>14, NotRestored DEF VersionInv

\* One name is given or taken away; policies stay rows.
IsNamed(table, r, n) ==
  /\ label' \in Naming
  /\ \A t \in Tables, q \in Referents : label'[t][q] = IF t = table /\ q = r THEN n ELSE label[t][q]

LEMMA NamingShapes ==
  ASSUME VersionInv, NEW table \in Tables, NEW r \in Referents, NEW n \in Labels \cup {Unset},
         label' = [label EXCEPT ![table][r] = n]
  PROVE  IsNamed(table, r, n)
  BY DEF VersionInv, Shapes, Naming, IsNamed

\* The versions when no version is recorded or orphaned.
LEMMA SameVersions ==
  ASSUME VersionInv, versions' = versions, DOMAIN policies' = DOMAIN policies, saver' = saver,
         \A c \in Columns : former[c] \subseteq former'[c]
  PROVE  /\ Recorded' /\ HasNewest' /\ Restoring'
         /\ \A q : VersionsOf(q)' = VersionsOf(q) /\ Newest(q)' = Newest(q)
         /\ \A q \in DOMAIN policies : Newest(q) \in DOMAIN versions
<1>1. \A q : VersionsOf(q)' = VersionsOf(q) /\ Newest(q)' = Newest(q)
  BY DEF VersionsOf, Newest
<1>2. Recorded' /\ Restoring'
  BY DEF VersionInv, Recorded, Restoring
<1>3. HasNewest'
  BY <1>1 DEF VersionInv, HasNewest
<1>4. \A q \in DOMAIN policies : Newest(q) \in DOMAIN versions
  BY DEF VersionInv, HasNewest, Newest, VersionsOf
<1> QED
  BY <1>1, <1>2, <1>3, <1>4

LEMMA RenameStep == ASSUME VersionInv, NEW table \in Tables, RenameRow(table) PROVE VersionInv'
<1> USE SetFacts
<1>1. PICK r \in Referents, n \in Labels : /\ r \in Present(table) /\ Bearers(table, n) = {}
                                          /\ label' = [label EXCEPT ![table][r] = n]
  BY DEF RenameRow
<1>2. answer' = NoAnswer /\ UNCHANGED << former, policies, refers, versions, saver, merged >>
  BY DEF RenameRow
<1>3. /\ label' \in Naming
      /\ \A t \in Tables, q \in Referents : label'[t][q] = IF t = table /\ q = r THEN n ELSE label[t][q]
  <2>1. IsNamed(table, r, n)
    BY <1>1, NamingShapes
  <2> QED
    BY <2>1 DEF IsNamed
<1>4. Shapes'
  BY <1>2, <1>3 DEF VersionInv, Shapes
<1>5. \A t \in Tables : Present(t)' = Present(t) /\ \A q \in Referents : There(t, q)' <=> There(t, q)
  BY <1>1, <1>3 DEF Present, There
<1>6. NamesApart'
  <2>1. \A q \in Referents : label[table][q] # n
    BY <1>1 DEF Bearers
  <2> QED
    BY <1>2, <1>3, <1>5, <2>1 DEF VersionInv, NamesApart
<1>7. LiveConditions'
  BY <1>2, <1>5 DEF VersionInv, LiveConditions
<1>8. /\ Recorded' /\ HasNewest' /\ Restoring'
      /\ \A q : VersionsOf(q)' = VersionsOf(q) /\ Newest(q)' = Newest(q)
      /\ \A q \in DOMAIN policies : Newest(q) \in DOMAIN versions
  BY <1>2, SameVersions
<1>9. NewestIsCurrent'
  <2>1. ASSUME NEW i \in DOMAIN versions, NEW c \in Columns PROVE versions[i].meant.cond[c] \in {Unset} \cup Referents
    BY DEF VersionInv, Recorded, Shapes
  <2> QED
    BY <1>2, <1>5, <1>8, <2>1 DEF VersionInv, NewestIsCurrent
<1> QED
  BY <1>2, <1>4, <1>6, <1>7, <1>8, <1>9, NotRestored DEF VersionInv

LEMMA AddRowStep == ASSUME VersionInv, NEW table \in Tables, AddRow(table) PROVE VersionInv'
<1> USE SetFacts
<1>1. PICK r \in Referents \ former[table], n \in Labels :
        /\ Bearers(table, n) = {} /\ label' = [label EXCEPT ![table][r] = n]
        /\ former' = [former EXCEPT ![table] = @ \cup {r}]
  BY DEF AddRow
<1>2. answer' = NoAnswer /\ UNCHANGED << policies, refers, versions, saver, merged >>
  BY DEF AddRow
<1>3. /\ label' \in Naming
      /\ \A t \in Tables, q \in Referents : label'[t][q] = IF t = table /\ q = r THEN n ELSE label[t][q]
  <2>1. IsNamed(table, r, n)
    BY <1>1, NamingShapes
  <2> QED
    BY <2>1 DEF IsNamed
<1>4. /\ former' \in [Tables -> SUBSET Referents]
      /\ \A t \in Tables : former'[t] = IF t = table THEN former[t] \cup {r} ELSE former[t]
  BY <1>1 DEF VersionInv, Shapes
<1>5. Shapes'
  BY <1>2, <1>3, <1>4 DEF VersionInv, Shapes
<1>6. \A t \in Tables : /\ Present(t)' = IF t = table THEN Present(t) \cup {r} ELSE Present(t)
                       /\ \A q \in former[t] : There(t, q)' <=> There(t, q)
  BY <1>1, <1>3 DEF Present, There, VersionInv, Shapes
<1>7. NamesApart'
  <2>1. \A q \in Referents : label[table][q] # n
    BY <1>1 DEF Bearers
  <2>2. \A t \in Tables : Present(t)' \subseteq former'[t]
    BY <1>4, <1>6 DEF VersionInv, NamesApart
  <2> QED
    BY <1>3, <2>1, <2>2 DEF VersionInv, NamesApart
<1>8. LiveConditions'
  BY <1>2, <1>6 DEF VersionInv, LiveConditions
<1>9. /\ Recorded' /\ HasNewest' /\ Restoring'
      /\ \A q : VersionsOf(q)' = VersionsOf(q) /\ Newest(q)' = Newest(q)
      /\ \A q \in DOMAIN policies : Newest(q) \in DOMAIN versions
  BY <1>2, <1>4, SameVersions
<1>10. NewestIsCurrent'
  <2>1. ASSUME NEW i \in DOMAIN versions, NEW c \in Columns PROVE versions[i].meant.cond[c] \in {Unset} \cup former[c]
    BY DEF VersionInv, Recorded
  <2> QED
    BY <1>2, <1>6, <1>9, <2>1 DEF VersionInv, NewestIsCurrent
<1> QED
  BY <1>2, <1>5, <1>7, <1>8, <1>9, <1>10, NotRestored DEF VersionInv

LEMMA DeleteRowStep == ASSUME VersionInv, NEW table \in Tables, DeleteRow(table) PROVE VersionInv'
<1> USE SetFacts
<1>1. PICK r \in Present(table) :
        /\ label' = [label EXCEPT ![table][r] = Unset]
        /\ policies' = [p \in DOMAIN policies |->
             IF table \in Columns /\ policies[p].cond[table] = r THEN [policies[p] EXCEPT !.cond[table] = Unset] ELSE policies[p]]
  BY DEF DeleteRow
<1>2. answer' = NoAnswer /\ UNCHANGED << former, refers, versions, saver, merged >>
  BY DEF DeleteRow
<1>3. r \in Referents /\ r # Unset
  BY DEF Present
<1>4. /\ label' \in Naming
      /\ \A t \in Tables, q \in Referents : label'[t][q] = IF t = table /\ q = r THEN Unset ELSE label[t][q]
  <2>1. Unset \in Labels \cup {Unset} /\ label' = [label EXCEPT ![table][r] = Unset]
    BY <1>1
  <2>2. IsNamed(table, r, Unset)
    BY <1>3, <2>1, NamingShapes
  <2> QED
    BY <2>2 DEF IsNamed
<1>5. /\ DOMAIN policies' = DOMAIN policies
      /\ \A p \in DOMAIN policies :
           /\ policies'[p] \in Policy
           /\ policies'[p].enabled = policies[p].enabled /\ policies'[p].grant = policies[p].grant
           /\ \A c \in Columns : policies'[p].cond[c] = IF c = table /\ policies[p].cond[c] = r THEN Unset ELSE policies[p].cond[c]
  <2> SUFFICES ASSUME NEW p \in DOMAIN policies
               PROVE  /\ policies'[p] \in Policy
                      /\ policies'[p].enabled = policies[p].enabled /\ policies'[p].grant = policies[p].grant
                      /\ \A c \in Columns : policies'[p].cond[c] = IF c = table /\ policies[p].cond[c] = r THEN Unset ELSE policies[p].cond[c]
    BY <1>1
  <2>1. policies[p] \in Policy
    BY DEF VersionInv, Shapes
  <2> QED
    BY <1>1, <2>1 DEF Policy
<1>6. Shapes'
  <2>1. policies' \in [DOMAIN policies' -> Policy]
    BY <1>1, <1>5
  <2> QED
    BY <1>2, <1>4, <1>5, <2>1 DEF VersionInv, Shapes
<1>7. \A t \in Tables : /\ Present(t)' = IF t = table THEN Present(t) \ {r} ELSE Present(t)
                       /\ \A q \in Referents : There(t, q)' <=> There(t, q) /\ ~ (t = table /\ q = r)
  BY <1>3, <1>4 DEF Present, There
<1>8. NamesApart'
  BY <1>2, <1>4, <1>7 DEF VersionInv, NamesApart
<1>9. LiveConditions'
  BY <1>5, <1>7 DEF VersionInv, LiveConditions
<1>10. /\ Recorded' /\ HasNewest' /\ Restoring'
       /\ \A q : VersionsOf(q)' = VersionsOf(q) /\ Newest(q)' = Newest(q)
       /\ \A q \in DOMAIN policies : Newest(q) \in DOMAIN versions
  BY <1>2, <1>5, SameVersions
<1>11. NewestIsCurrent'
  <2>1. ASSUME NEW i \in DOMAIN versions, NEW c \in Columns PROVE versions[i].meant.cond[c] \in {Unset} \cup Referents
    BY DEF VersionInv, Recorded, Shapes
  <2> QED
    BY <1>2, <1>5, <1>7, <1>10, <2>1 DEF VersionInv, NewestIsCurrent
<1> QED
  BY <1>2, <1>6, <1>8, <1>9, <1>10, <1>11, NotRestored DEF VersionInv

LEMMA StutterStep == VersionInv /\ UNCHANGED versionVars => VersionInv'
<1> SUFFICES ASSUME VersionInv, UNCHANGED versionVars PROVE VersionInv'
  OBVIOUS
<1>1. UNCHANGED << label, former, policies, refers, versions, saver, answer, merged >>
  BY DEF versionVars
<1>2. Shapes' /\ Restoring'
  BY <1>1 DEF VersionInv, Shapes, Restoring
<1>3. NamesApart' /\ LiveConditions' /\ Recorded' /\ HasNewest' /\ NewestIsCurrent'
  BY <1>1, StillNewest
<1>4. \A p, i : diff_policy_version(p, i)' <=> diff_policy_version(p, i)
  BY <1>1 DEF diff_policy_version, build_snapshot, NameOf
<1>5. RestoreIsTrue'
  BY <1>1, <1>4 DEF VersionInv, RestoreIsTrue, ConditionIsMeant
<1> QED
  BY <1>2, <1>3, <1>5 DEF VersionInv

LEMMA VersionStep == VersionInv /\ [VersionNext]_versionVars => VersionInv'
<1> SUFFICES ASSUME VersionInv, [VersionNext]_versionVars PROVE VersionInv'
  OBVIOUS
<1>1. ASSUME NEW p \in PolicyIds, create_policy(p) PROVE VersionInv'
  BY <1>1, CreateStep
<1>2. ASSUME NEW p \in DOMAIN policies, NEW s \in Savers, update_policy(s, p) PROVE VersionInv'
  BY <1>2, UpdateStep
<1>3. ASSUME NEW p \in DOMAIN policies, NEW s \in Savers, restore_policy_version(s, p) PROVE VersionInv'
  BY <1>3, RestoreStep
<1>4. ASSUME NEW p \in DOMAIN policies, add_command_set_to_policy(p) PROVE VersionInv'
  BY <1>4, AddSetStep
<1>5. ASSUME NEW p \in DOMAIN policies, delete_policy(p) PROVE VersionInv'
  BY <1>5, DeletePolicyStep
<1>6. ASSUME NEW s \in Savers, CommitSave(s) PROVE VersionInv'
  <2>1. CASE Writable(saver[s])
    BY <1>6, <2>1, CommitStep
  <2>2. CASE ~ Writable(saver[s])
    <3>1. /\ saver' = [saver EXCEPT ![s] = NoSave] /\ answer' = NoAnswer
          /\ UNCHANGED << label, former, policies, refers, versions, merged >>
      BY <1>6, <2>2 DEF CommitSave
    <3> QED
      BY <3>1, SaveAbandonStep
  <2> QED
    BY <2>1, <2>2
<1>7. ASSUME NEW s \in Savers, SaveRefused(s) PROVE VersionInv'
  BY <1>7, SaveAbandonStep DEF SaveRefused
<1>8. ASSUME NEW table \in Tables, RenameRow(table) PROVE VersionInv'
  BY <1>8, RenameStep
<1>9. ASSUME NEW table \in Tables, AddRow(table) PROVE VersionInv'
  BY <1>9, AddRowStep
<1>10. ASSUME NEW table \in Tables, DeleteRow(table) PROVE VersionInv'
  BY <1>10, DeleteRowStep
<1>11. CASE UNCHANGED versionVars
  BY <1>11, StutterStep
<1> QED
  BY <1>1, <1>2, <1>3, <1>4, <1>5, <1>6, <1>7, <1>8, <1>9, <1>10, <1>11 DEF VersionNext

-----------------------------------------------------------------------------
LEMMA VersionsHold == VersionSpec => []VersionInv
<1> QED
  BY VersionStart, VersionStep, PTL DEF VersionSpec

\* Every reachable state is well formed: policies name rows that are there, and every version is one of a
\* policy that is there, or of none.
THEOREM VersionsAreTyped == VersionSpec => []VersionTypes
<1>1. VersionInv => VersionTypes
  <2> SUFFICES ASSUME VersionInv PROVE VersionTypes
    OBVIOUS
  <2>1. /\ label \in [Tables -> [Referents -> Labels \cup {Unset}]]
        /\ DOMAIN policies \subseteq PolicyIds /\ DOMAIN refers = DOMAIN policies
        /\ \A p \in DOMAIN policies : policies[p] \in Policy /\ refers[p] \in Seq(Referents)
        /\ merged \subseteq DOMAIN policies
    BY DEF VersionInv, Shapes, Naming
  <2>2. ASSUME NEW i \in DOMAIN versions
        PROVE  versions[i].snapshot \in Snapshot /\ versions[i].policy \in DOMAIN policies \cup {Unset}
    <3>1. versions[i] \in Version
      BY DEF VersionInv, Shapes
    <3> QED
      BY <3>1 DEF Version, VersionInv, Recorded
  <2>3. ASSUME NEW s \in Savers PROVE saver[s].at \in {"resting", "saving"}
    BY DEF VersionInv, Shapes, Save, NoSave
  <2> QED
    BY <2>1, <2>2, <2>3 DEF VersionTypes, VersionInv, LiveConditions
<1> QED
  BY <1>1, VersionsHold, PTL

\* restore_policy_version gives back the policy that was recorded, finds the rows that were meant, and names in
\* its answer whatever it dropped; and the newest version is the policy as it is, unless saves of it were merged.
THEOREM RestoresStayTrue == VersionSpec => []RestoresAreTrue
<1>1. VersionInv => RestoresAreTrue
  BY DEF VersionInv, RestoresAreTrue
<1> QED
  BY <1>1, VersionsHold, PTL

\* Whatever the names of tables and the order of requests, no version ever holds a command set, though
\* policy_version.py:4-7 says that each records the names of those its policy refers to: the query of
\* build_snapshot runs before the new policy_command_sets rows are written.
NoSetIsRecorded == \A i \in DOMAIN versions : versions[i].snapshot.sets = <<>>
THEOREM SetsAreNeverRecorded == VersionSpec => []NoSetIsRecorded
<1>1. VersionInv => NoSetIsRecorded
  BY DEF VersionInv, Recorded, NoSetIsRecorded
<1> QED
  BY <1>1, VersionsHold, PTL

-----------------------------------------------------------------------------
(* The whole.                                                              *)

\* A behaviour of the platform is one of each of its parts.
THEOREM PlatformIsItsParts == Spec => JobSpec /\ AuditSpec /\ InventorySpec /\ LogSpec /\ AdminSpec /\ VersionSpec
<1>1. Init => JobInit /\ AuditInit /\ InventoryInit /\ LogInit /\ AdminInit /\ VersionInit
  BY DEF Init
<1>2. [Next]_<< jobVars, auditVars, inventoryVars, logVars, adminVars, versionVars, part >>
        => /\ [JobNext]_jobVars /\ [AuditNext]_auditVars /\ [InventoryNext]_inventoryVars
           /\ [LogNext]_logVars /\ [AdminNext]_adminVars /\ [VersionNext]_versionVars
  BY Zenon DEF Next, Idle
<1> QED BY <1>1, <1>2, PTL DEF Spec, JobSpec, AuditSpec, InventorySpec, LogSpec, AdminSpec, VersionSpec

\* Every part stores what its tables and its memory can hold.
THEOREM PlatformTypesHold == Spec => []PlatformTypes
  BY PlatformIsItsParts, JobTypesHold, AuditTypesHold, InventoryTypesHold, LogTypesHold, AdminTypesHold, VersionsAreTyped, PTL
  DEF PlatformTypes

\* Whatever the platform does, in whichever of its parts: a job, a batch and a page say what happened; the number
\* of devices is one that was licensed, and one more needs room under a licence in force, Community's limit or
\* what there was at a removal; the stored key of a device that took what it was sent is its key; an active
\* superadmin is left and only failures that count lock a name; and a restored policy is the one recorded.
\* Each conjunct holds with the exceptions its definition names.
THEOREM PlatformKeepsItsPromises ==
  Spec => /\ [](JobTellsTheTruth /\ VerdictsAreSeen /\ BatchesTellTheTruth /\ SecurityPagesAreTrue)
          /\ [](LimitIsKept /\ SecretsAgree /\ PagesMatchTheLog /\ NobodyIsLockedOut /\ RestoresAreTrue)
          /\ LicenceDecides
  BY PlatformIsItsParts, JobsTellTheTruth, VerdictsSeen, BatchesAreTrue, SecurityPagesStayTrue, LimitHolds, SecretsHold,
     LicenceDecidesHolds, LogPagesStayTrue, NobodyLockedOut, RestoresStayTrue, PTL
=============================================================================
