----------------------------- MODULE SecurityProofs -----------------------------
(***************************************************************************)
(* Who may administrate the platform, and what its audits of the fleet     *)
(* say, for any number of accounts, addresses, roles, devices, requests    *)
(* and attempts, and any time a name stays locked.                         *)
(*                                                                         *)
(* NobodyIsLockedOut: between the decision of an edit and its commit the   *)
(* account it is about may lose its role and others may be made; as long   *)
(* as no two edits overlap, nothing else can happen to accounts, so that   *)
(* the superadmin the decision counted is still there.  And what is in     *)
(* memory of the failures under a name, and what a login is about to write *)
(* back of it, is a part of those no login has redeemed, or that another   *)
(* was looking at when one did.                                            *)
(*                                                                         *)
(* BatchesTellTheTruth, PostureIsCurrent: of an open batch, the worker has *)
(* counted the runs that are over, no other worker writes to it, and each  *)
(* of its devices is still to do, on its run, or counted.  Of a day, the   *)
(* batches that are closed are no more than the crashes, unless the day is *)
(* marked or is about to be.  And a run that started after the last change *)
(* of its device read what the device is now.                              *)
(*                                                                         *)
(* SecurityPagesAreTrue: no two findings of an audit are the same check of *)
(* the same thing, so that counting findings is counting failing checks.   *)
(***************************************************************************)
EXTENDS Administrators, SecurityAudit, FiniteSetTheorems, WellFoundedInduction, TLAPS

-----------------------------------------------------------------------------
(* Administrators.                                                         *)

Failing == [at : Nat, number : Nat]
VisitorShape == [at : {"waiting", "looking", "checking", "editing", "deleting"}, name : AdminNames \cup {Nil}, seen : SUBSET Failing,
          valid : BOOLEAN, id : Ids \cup {Nil}, was : Account \cup {Nil}, row : Account \cup {Nil}]

Power(row) == row.is_superadmin /\ row.is_active

AdminShapes ==
  /\ DOMAIN accounts \subseteq Ids /\ \A i \in DOMAIN accounts : accounts[i] \in Account
  /\ visitor \in [Visitors -> VisitorShape]
  /\ \A v \in Visitors : visitor[v].at = "editing" => visitor[v].row \in Account /\ visitor[v].was \in Account

\* What an edit that is under way was decided on.
Decided(v) ==
  LET me == visitor[v] IN
  /\ me.id \in DOMAIN accounts
  /\ me.at = "editing" => /\ accounts[me.id].is_active = me.was.is_active
                          /\ accounts[me.id].is_superadmin = me.was.is_superadmin
  /\ Power(accounts[me.id]) /\ (me.at = "editing" => ~ Power(me.row)) =>
       \E k \in DOMAIN accounts : k # me.id /\ Power(accounts[k])

AdminInv ==
  /\ AdminShapes
  /\ overlapped \in BOOLEAN
  /\ ~ overlapped => /\ \E k \in DOMAIN accounts : Power(accounts[k])
                     /\ \A v, w \in Editing : v = w
                     /\ \A v \in Editing : Decided(v)

\* Forgetting, by age, by a login or by a restart, only ever takes failures away, and what a login writes
\* back is a part of those that count.
FailuresInv ==
  /\ time \in Nat
  /\ attempts \in [AdminNames -> SUBSET Failing]
  /\ failed \in [AdminNames -> SUBSET Failing]
  /\ \A n \in AdminNames : attempts[n] \subseteq failed[n] /\ IsFiniteSet(failed[n])
  /\ \A v \in Visitors : visitor[v].at = "looking" =>
       visitor[v].name \in AdminNames /\ visitor[v].seen \subseteq failed[visitor[v].name]

-----------------------------------------------------------------------------
LEMMA NilFacts == Nil \notin RoleIds /\ Nil \notin AdminNames /\ Nil \notin Ids
  BY AdminAssumption

LEMMA WaitingShape ==
  Waiting \in VisitorShape
  BY DEF Waiting, VisitorShape

LEMMA AdminStart == AdminInit => AdminInv
<1> SUFFICES ASSUME AdminInit PROVE AdminInv
  OBVIOUS
<1>1. PICK i \in Ids, n \in AdminNames :
        accounts = [j \in {i} |-> [name |-> n, is_active |-> TRUE, is_superadmin |-> TRUE,
                                   allowed_source_ips |-> {}, role_id |-> Nil]]
  BY DEF AdminInit
<1>2. /\ DOMAIN accounts = {i} /\ accounts[i] \in Account /\ Power(accounts[i])
  BY <1>1 DEF Account, Power
<1>3. visitor = [v \in Visitors |-> Waiting] /\ Waiting.at = "waiting" /\ overlapped = FALSE
  BY DEF AdminInit, Waiting
<1>4. AdminShapes
  BY <1>2, <1>3, WaitingShape DEF AdminShapes
<1> QED
  BY <1>2, <1>3, <1>4 DEF AdminInv, Editing

\* A request that is no edit comes or goes.
LEMMA NoEdit ==
  ASSUME AdminInv, AdminShapes', accounts' = accounts, overlapped' = overlapped,
         \A v \in Visitors : visitor'[v] = visitor[v] \/ visitor'[v].at \in {"waiting", "looking", "checking"}
  PROVE  AdminInv'
<1>1. \A v \in Editing' : v \in Editing /\ visitor'[v] = visitor[v]
  BY DEF Editing
<1>2. ASSUME NEW v \in Editing', Decided(v) PROVE Decided(v)'
  BY <1>1, <1>2 DEF Decided
<1> QED
  BY <1>1, <1>2 DEF AdminInv

\* An edit is decided on the accounts as they are; if another is under way, they overlap.
LEMMA EditBegins ==
  ASSUME AdminInv, NEW v \in Visitors, visitor[v].at = "waiting", AdminShapes', accounts' = accounts, Overlaps2,
         \A w \in Visitors : w # v => visitor'[w] = visitor[w],
         Decided(v)'
  PROVE  AdminInv'
<1>1. overlapped' = (overlapped \/ Editing # {})
  BY DEF Overlaps2
<1>2. overlapped' \in BOOLEAN
  BY <1>1 DEF AdminInv
<1>3. ASSUME ~ overlapped' PROVE Editing' \subseteq {v}
  BY <1>1, <1>3 DEF Editing
<1>4. ASSUME ~ overlapped' PROVE \E k \in DOMAIN accounts : Power(accounts[k])
  BY <1>1, <1>4 DEF AdminInv
<1> QED
  BY <1>2, <1>3, <1>4 DEF AdminInv

\* Counting others finds one.
LEMMA OneMore ==
  ASSUME NEW id, _active_superadmin_count(id) > 0
  PROVE  \E k \in DOMAIN accounts : k # id /\ Power(accounts[k])
<1>1. Superadmins \ {id} # {}
  BY FS_EmptySet DEF _active_superadmin_count
<1> QED
  BY <1>1 DEF Superadmins, Power

LEMMA AccountUpdateStep == ASSUME AdminInv, NEW v \in Visitors, update_admin_user(v) PROVE AdminInv'
<1>1. PICK s \in signedIn, origin \in Origins, id \in DOMAIN accounts, row \in Account :
        \E me \in get_current_superadmin(s) :
          /\ id \in Superadmins /\ ~(row.is_superadmin /\ row.is_active) => _active_superadmin_count(id) > 0
          /\ visitor' = [visitor EXCEPT ![v] = [Waiting EXCEPT !.at = "editing", !.id = id, !.was = accounts[id], !.row = row]]
  BY DEF update_admin_user
<1> DEFINE me == [Waiting EXCEPT !.at = "editing", !.id = id, !.was = accounts[id], !.row = row]
<1>2. /\ visitor[v].at = "waiting" /\ Overlaps2 /\ accounts' = accounts /\ visitor' = [visitor EXCEPT ![v] = me]
      /\ id \in Superadmins /\ ~ Power(row) => _active_superadmin_count(id) > 0
  BY <1>1 DEF update_admin_user, Power
<1>3. me.at = "editing" /\ me.id = id /\ me.was = accounts[id] /\ me.row = row
  BY DEF Waiting
<1>4. me \in VisitorShape
  BY DEF Waiting, VisitorShape, AdminInv, AdminShapes
<1> HIDE DEF me
<1>5. visitor'[v] = me /\ \A w \in Visitors : w # v => visitor'[w] = visitor[w]
  BY <1>2 DEF AdminInv, AdminShapes
<1>6. AdminShapes'
  BY <1>2, <1>3, <1>4, <1>5 DEF AdminInv, AdminShapes
<1>7. Power(accounts[id]) /\ ~ Power(row) => \E k \in DOMAIN accounts : k # id /\ Power(accounts[k])
  BY <1>2, OneMore DEF Superadmins, Power
<1>8. Decided(v)'
  BY <1>2, <1>3, <1>5, <1>7 DEF Decided, Power
<1> QED
  BY <1>2, <1>5, <1>6, <1>8, EditBegins

LEMMA DeleteStep == ASSUME AdminInv, NEW v \in Visitors, delete_admin_user(v) PROVE AdminInv'
<1>1. PICK s \in signedIn, id \in DOMAIN accounts :
        /\ id \in Superadmins => _active_superadmin_count(id) > 0
        /\ visitor' = [visitor EXCEPT ![v] = [Waiting EXCEPT !.at = "deleting", !.id = id]]
  BY DEF delete_admin_user
<1> DEFINE me == [Waiting EXCEPT !.at = "deleting", !.id = id]
<1>2. visitor[v].at = "waiting" /\ Overlaps2 /\ accounts' = accounts /\ visitor' = [visitor EXCEPT ![v] = me]
  BY <1>1 DEF delete_admin_user
<1>3. me.at = "deleting" /\ me.id = id
  BY DEF Waiting
<1>4. me \in VisitorShape
  BY DEF Waiting, VisitorShape, AdminInv, AdminShapes
<1> HIDE DEF me
<1>5. visitor'[v] = me /\ \A w \in Visitors : w # v => visitor'[w] = visitor[w]
  BY <1>2 DEF AdminInv, AdminShapes
<1>6. AdminShapes'
  BY <1>2, <1>3, <1>4, <1>5 DEF AdminInv, AdminShapes
<1>7. Power(accounts[id]) => \E k \in DOMAIN accounts : k # id /\ Power(accounts[k])
  BY <1>1, OneMore DEF Superadmins, Power
<1>8. Decided(v)'
  BY <1>2, <1>3, <1>5, <1>7 DEF Decided, Power
<1> QED
  BY <1>2, <1>5, <1>6, <1>8, EditBegins

\* A row that was merged: what was changed is as in the new row, the rest as it is now.
WrittenOver(me, now) == [f \in DOMAIN now |-> IF f \in { g \in DOMAIN me.row : me.row[g] # me.was[g] } THEN me.row[f] ELSE now[f]]

LEMMA WrittenRow ==
  ASSUME NEW me, me.row \in Account, me.was \in Account, NEW now \in Account
  PROVE  /\ WrittenOver(me, now) \in Account
         /\ now.is_active = me.was.is_active => WrittenOver(me, now).is_active = me.row.is_active
         /\ now.is_superadmin = me.was.is_superadmin => WrittenOver(me, now).is_superadmin = me.row.is_superadmin
<1> DEFINE changed == { g \in DOMAIN me.row : me.row[g] # me.was[g] }
           new == WrittenOver(me, now)
<1>1. /\ DOMAIN now = {"name", "is_active", "is_superadmin", "allowed_source_ips", "role_id"}
      /\ DOMAIN me.row = {"name", "is_active", "is_superadmin", "allowed_source_ips", "role_id"}
  BY DEF Account
<1>2. \A f \in DOMAIN now : new[f] = IF f \in changed THEN me.row[f] ELSE now[f]
  BY DEF WrittenOver
<1>3. DOMAIN new = DOMAIN now
  BY DEF WrittenOver
<1>4. new = [name |-> new.name, is_active |-> new.is_active, is_superadmin |-> new.is_superadmin,
             allowed_source_ips |-> new.allowed_source_ips, role_id |-> new.role_id]
  BY <1>1 DEF WrittenOver
<1> HIDE DEF new
<1>5. \A f \in DOMAIN now : new[f] \in {me.row[f], now[f]}
  BY <1>2
<1>6. /\ new.name \in AdminNames /\ new.is_active \in BOOLEAN /\ new.is_superadmin \in BOOLEAN
      /\ new.allowed_source_ips \in SUBSET Origins /\ new.role_id \in RoleIds \cup {Nil}
  BY <1>1, <1>5 DEF Account
<1>7. new \in Account
  BY <1>4, <1>6 DEF Account
<1>8. /\ "is_active" \in changed <=> me.row.is_active # me.was.is_active
      /\ "is_superadmin" \in changed <=> me.row.is_superadmin # me.was.is_superadmin
  BY <1>1
<1> HIDE DEF changed
<1>9. /\ now.is_active = me.was.is_active => new.is_active = me.row.is_active
      /\ now.is_superadmin = me.was.is_superadmin => new.is_superadmin = me.row.is_superadmin
  BY <1>1, <1>2, <1>8
<1> QED
  BY <1>7, <1>9 DEF new

LEMMA AccountCommitStep == ASSUME AdminInv, NEW v \in Visitors, CommitAccount(v) PROVE AdminInv'
<1> DEFINE me == visitor[v]
           changed == { f \in DOMAIN me.row : me.row[f] # me.was[f] }
<1>1. /\ v \in Editing /\ visitor' = [visitor EXCEPT ![v] = Waiting] /\ overlapped' = overlapped
      /\ \/ me.at = "deleting" /\ me.id \in DOMAIN accounts /\ accounts' = Restrict(accounts, DOMAIN accounts \ {me.id})
         \/ /\ me.at = "editing" /\ me.id \in DOMAIN accounts
            /\ accounts' \in {accounts, [accounts EXCEPT ![me.id] = WrittenOver(me, accounts[me.id])]}
         \/ me.id \notin DOMAIN accounts /\ accounts' = accounts
  BY DEF CommitAccount, WrittenOver
<1>2. me.at \in {"editing", "deleting"}
  BY <1>1 DEF Editing
<1>3. me.at = "editing" => me.row \in Account /\ me.was \in Account
  BY DEF AdminInv, AdminShapes
<1> HIDE DEF me
<1>4. me.at = "editing" /\ me.id \in DOMAIN accounts =>
        LET now == accounts[me.id] new == WrittenOver(me, now) IN
        /\ new \in Account
        /\ now.is_active = me.was.is_active => new.is_active = me.row.is_active
        /\ now.is_superadmin = me.was.is_superadmin => new.is_superadmin = me.row.is_superadmin
  BY <1>3, WrittenRow DEF AdminInv, AdminShapes
<1>5. DOMAIN accounts' \subseteq Ids /\ \A i \in DOMAIN accounts' : accounts'[i] \in Account
  BY <1>1, <1>4 DEF AdminInv, AdminShapes, Restrict
<1>6. visitor'[v] = Waiting /\ \A w \in Visitors : w # v => visitor'[w] = visitor[w]
  BY <1>1 DEF AdminInv, AdminShapes
<1>7. Waiting.at = "waiting"
  BY DEF Waiting
<1>8. AdminShapes'
  BY <1>1, <1>5, <1>6, <1>7, WaitingShape DEF AdminInv, AdminShapes
<1>9. ASSUME ~ overlapped PROVE Editing' = {}
  <2>1. \A w \in Editing : w = v
    BY <1>1, <1>9 DEF AdminInv
  <2> QED
    BY <1>6, <1>7, <2>1 DEF Editing
<1>10. ASSUME ~ overlapped PROVE \E k \in DOMAIN accounts' : Power(accounts'[k])
  <2>1. Decided(v) /\ \E k \in DOMAIN accounts : Power(accounts[k])
    BY <1>1, <1>10 DEF AdminInv
  <2>2. /\ me.id \in DOMAIN accounts
        /\ me.at = "editing" => /\ accounts[me.id].is_active = me.was.is_active
                                /\ accounts[me.id].is_superadmin = me.was.is_superadmin
        /\ Power(accounts[me.id]) /\ (me.at = "editing" => ~ Power(me.row)) =>
             \E k \in DOMAIN accounts : k # me.id /\ Power(accounts[k])
    BY <2>1 DEF Decided, me
  <2>3. CASE accounts' = accounts
    BY <2>1, <2>3
  <2>4. CASE me.at = "deleting" /\ accounts' = Restrict(accounts, DOMAIN accounts \ {me.id})
    <3>1. PICK k \in DOMAIN accounts : k # me.id /\ Power(accounts[k])
      BY <2>1, <2>2, <2>4
    <3>2. k \in DOMAIN accounts' /\ accounts'[k] = accounts[k]
      BY <2>4, <3>1 DEF Restrict
    <3> QED
      BY <3>1, <3>2
  <2>5. CASE me.at = "editing" /\ accounts' = [accounts EXCEPT ![me.id] = WrittenOver(me, accounts[me.id])]
    <3>1. /\ DOMAIN accounts' = DOMAIN accounts /\ accounts'[me.id] = WrittenOver(me, accounts[me.id])
          /\ \A k \in DOMAIN accounts : k # me.id => accounts'[k] = accounts[k]
      BY <2>2, <2>5
    <3>2. Power(accounts'[me.id]) <=> Power(me.row)
      BY <1>4, <2>2, <2>5, <3>1 DEF Power
    <3>3. CASE Power(me.row)
      BY <2>2, <3>1, <3>2, <3>3
    <3>4. CASE ~ Power(me.row)
      <4>1. PICK k \in DOMAIN accounts : k # me.id /\ Power(accounts[k])
        BY <2>1, <2>2, <3>4
      <4> QED
        BY <3>1, <4>1
    <3> QED
      BY <3>3, <3>4
  <2> QED
    BY <1>1, <2>2, <2>3, <2>4, <2>5
<1> QED
  BY <1>1, <1>8, <1>9, <1>10 DEF AdminInv

\* Accounts are added, or lose their role.
LEMMA SamePowers ==
  ASSUME AdminInv, visitor' = visitor, overlapped' = overlapped,
         DOMAIN accounts \subseteq DOMAIN accounts', DOMAIN accounts' \subseteq Ids,
         \A i \in DOMAIN accounts' : accounts'[i] \in Account,
         \A i \in DOMAIN accounts : /\ accounts'[i].is_active = accounts[i].is_active
                                    /\ accounts'[i].is_superadmin = accounts[i].is_superadmin
  PROVE  AdminInv'
<1>1. AdminShapes'
  BY DEF AdminInv, AdminShapes
<1>2. Editing' = Editing
  BY DEF Editing
<1>3. ASSUME NEW v \in Editing, Decided(v) PROVE Decided(v)'
  <2>1. \A k \in DOMAIN accounts : Power(accounts'[k]) <=> Power(accounts[k])
    BY DEF Power
  <2> QED
    BY <1>3, <2>1 DEF Decided, Power
<1>4. (\E k \in DOMAIN accounts : Power(accounts[k])) => \E k \in DOMAIN accounts' : Power(accounts'[k])
  BY DEF Power
<1> QED
  BY <1>1, <1>2, <1>3, <1>4 DEF AdminInv

LEMMA AccountCreateStep == ASSUME AdminInv, create_admin_user PROVE AdminInv'
<1>1. PICK i \in Ids \ DOMAIN accounts, row \in Account :
        accounts' = [j \in DOMAIN accounts \cup {i} |-> IF j = i THEN row ELSE accounts[j]]
  BY DEF create_admin_user
<1>2. visitor' = visitor /\ overlapped' = overlapped
  BY DEF create_admin_user
<1>3. DOMAIN accounts' = DOMAIN accounts \cup {i} /\ DOMAIN accounts' \subseteq Ids
  BY <1>1 DEF AdminInv, AdminShapes
<1>4. \A j \in DOMAIN accounts' : accounts'[j] \in Account
  BY <1>1 DEF AdminInv, AdminShapes
<1>5. \A j \in DOMAIN accounts : accounts'[j] = accounts[j]
  BY <1>1
<1> QED
  BY <1>2, <1>3, <1>4, <1>5, SamePowers

LEMMA DeleteRoleStep == ASSUME AdminInv, delete_role PROVE AdminInv'
<1>1. PICK x \in roles :
        accounts' = [i \in DOMAIN accounts |-> IF accounts[i].role_id = x THEN [accounts[i] EXCEPT !.role_id = Nil]
                                               ELSE accounts[i]]
  BY DEF delete_role
<1>2. visitor' = visitor /\ overlapped' = overlapped
  BY DEF delete_role
<1>3. ASSUME NEW i \in DOMAIN accounts
      PROVE  /\ accounts'[i] \in Account /\ accounts'[i].is_active = accounts[i].is_active
             /\ accounts'[i].is_superadmin = accounts[i].is_superadmin
  <2>1. accounts[i] \in Account
    BY DEF AdminInv, AdminShapes
  <2>2. accounts'[i] \in {accounts[i], [accounts[i] EXCEPT !.role_id = Nil]}
    BY <1>1
  <2> QED
    BY <2>1, <2>2 DEF Account
<1>4. DOMAIN accounts' = DOMAIN accounts /\ DOMAIN accounts \subseteq Ids
  BY <1>1 DEF AdminInv, AdminShapes
<1> QED
  BY <1>2, <1>3, <1>4, SamePowers

\* A login that reads the failures, or that has found an account, or none.
LEMMA LookStep == ASSUME AdminInv, FailuresInv, NEW v \in Visitors, login(v) PROVE AdminInv'
<1>1. PICK n \in AdminNames :
        visitor' = [visitor EXCEPT ![v] = [Waiting EXCEPT !.at = "looking", !.name = n, !.seen = Recent(attempts[n])]]
  BY DEF login
<1>2. accounts' = accounts /\ overlapped' = overlapped
  BY DEF login
<1> DEFINE me == [Waiting EXCEPT !.at = "looking", !.name = n, !.seen = Recent(attempts[n])]
<1>3. Recent(attempts[n]) \subseteq Failing
  BY DEF Recent, FailuresInv
<1>4. me.at = "looking" /\ me \in VisitorShape
  BY <1>3 DEF Waiting, VisitorShape
<1>5. visitor' = [visitor EXCEPT ![v] = me]
  BY <1>1
<1> HIDE DEF me
<1>6. \A w \in Visitors : visitor'[w] \in {visitor[w], me}
  BY <1>5 DEF AdminInv, AdminShapes
<1>7. AdminShapes'
  BY <1>2, <1>4, <1>5, <1>6 DEF AdminInv, AdminShapes
<1> QED
  BY <1>2, <1>4, <1>6, <1>7, NoEdit

\* What a login that has written back goes on with.
Checking(n, id, valid) == [Waiting EXCEPT !.at = "checking", !.name = n, !.id = id, !.valid = valid]

LEMMA WriteBackGoesOn ==
  ASSUME AdminInv, NEW v \in Visitors, WriteBack(v)
  PROVE  \/ visitor' = [visitor EXCEPT ![v] = Waiting]
         \/ \E id \in Ids \cup {Nil}, valid \in BOOLEAN : visitor' = [visitor EXCEPT ![v] = Checking(visitor[v].name, id, valid)]
<1> DEFINE n == visitor[v].name
<1>1. CASE visitor' = [visitor EXCEPT ![v] = Waiting]
  BY <1>1
<1>2. CASE visitor' # [visitor EXCEPT ![v] = Waiting]
  <2>1. PICK origin \in Origins, right \in BOOLEAN :
          visitor' = [visitor EXCEPT ![v] = [Waiting EXCEPT !.at = "checking", !.name = n,
              !.id = IF Named(n) = {} THEN Nil ELSE CHOOSE i \in Named(n) : TRUE,
              !.valid = right /\ \E i \in Named(n) : accounts[i].is_active
                                   /\ is_source_ip_allowed(accounts[i].allowed_source_ips, origin)]]
    BY <1>2 DEF WriteBack
  <2> DEFINE found == IF Named(n) = {} THEN Nil ELSE CHOOSE i \in Named(n) : TRUE
             right2 == right /\ \E i \in Named(n) : accounts[i].is_active
                                   /\ is_source_ip_allowed(accounts[i].allowed_source_ips, origin)
  <2>2. found \in Ids \cup {Nil} /\ right2 \in BOOLEAN
    BY DEF Named, AdminInv, AdminShapes
  <2>3. visitor' = [visitor EXCEPT ![v] = Checking(n, found, right2)]
    BY <2>1 DEF Checking
  <2> HIDE DEF found, right2
  <2> QED
    BY <2>2, <2>3
<1> QED
  BY <1>1, <1>2

LEMMA WriteBackStep == ASSUME AdminInv, NEW v \in Visitors, WriteBack(v) PROVE AdminInv'
<1>1. accounts' = accounts /\ overlapped' = overlapped
  BY DEF WriteBack
<1>2. PICK me : me \in VisitorShape /\ me.at \in {"waiting", "checking"} /\ visitor' = [visitor EXCEPT ![v] = me]
  <2>1. CASE visitor' = [visitor EXCEPT ![v] = Waiting]
    BY <2>1, WaitingShape DEF Waiting
  <2>2. CASE \E id \in Ids \cup {Nil}, valid \in BOOLEAN : visitor' = [visitor EXCEPT ![v] = Checking(visitor[v].name, id, valid)]
    <3>1. PICK id \in Ids \cup {Nil}, valid \in BOOLEAN : visitor' = [visitor EXCEPT ![v] = Checking(visitor[v].name, id, valid)]
      BY <2>2
    <3>2. visitor[v].name \in AdminNames \cup {Nil}
      BY DEF AdminInv, AdminShapes, VisitorShape
    <3> DEFINE me == Checking(visitor[v].name, id, valid)
    <3>3. me \in VisitorShape /\ me.at = "checking"
      BY <3>2 DEF Checking, Waiting, VisitorShape
    <3> HIDE DEF me
    <3>4. visitor' = [visitor EXCEPT ![v] = me]
      BY <3>1 DEF me
    <3> QED
      BY <3>3, <3>4
  <2> QED
    BY <2>1, <2>2, WriteBackGoesOn
<1>3. \A w \in Visitors : visitor'[w] \in {visitor[w], me}
  BY <1>2 DEF AdminInv, AdminShapes
<1>4. AdminShapes'
  BY <1>1, <1>2, <1>3 DEF AdminInv, AdminShapes
<1> QED
  BY <1>1, <1>2, <1>3, <1>4, NoEdit

\* Requests end: a login, or all of them when the process starts again.
LEMMA EndStep ==
  ASSUME AdminInv, accounts' = accounts, overlapped' = overlapped,
         visitor' = [v \in Visitors |-> Waiting] \/ \E v \in Visitors : visitor' = [visitor EXCEPT ![v] = Waiting]
  PROVE  AdminInv'
<1>1. Waiting.at = "waiting"
  BY DEF Waiting
<1>2. \A w \in Visitors : visitor'[w] \in {visitor[w], Waiting}
  BY DEF AdminInv, AdminShapes
<1>3. AdminShapes'
  BY <1>1, <1>2, WaitingShape DEF AdminInv, AdminShapes
<1> QED
  BY <1>1, <1>2, <1>3, NoEdit

LEMMA AdminRests == ASSUME AdminInv, UNCHANGED << accounts, visitor, overlapped >> PROVE AdminInv'
<1>1. AdminShapes'
  BY DEF AdminInv, AdminShapes
<1> QED
  BY <1>1, NoEdit

LEMMA AdminStep == AdminInv /\ FailuresInv /\ [AdminNext]_adminVars => AdminInv'
<1> SUFFICES ASSUME AdminInv, FailuresInv, [AdminNext]_adminVars PROVE AdminInv'
  OBVIOUS
<1>1. ASSUME NEW v \in Visitors, login(v) \/ WriteBack(v) PROVE AdminInv'
  BY <1>1, LookStep, WriteBackStep
<1>2. ASSUME NEW v \in Visitors, _record_failure(v) \/ _clear_failures(v) PROVE AdminInv'
  BY <1>2, EndStep DEF _record_failure, _clear_failures
<1>3. ASSUME NEW v \in Visitors, update_admin_user(v) PROVE AdminInv'
  BY <1>3, AccountUpdateStep
<1>4. ASSUME NEW v \in Visitors, delete_admin_user(v) PROVE AdminInv'
  BY <1>4, DeleteStep
<1>5. ASSUME NEW v \in Visitors, CommitAccount(v) PROVE AdminInv'
  BY <1>5, AccountCommitStep
<1>6. ASSUME logout \/ create_role \/ TimeGoesOn PROVE AdminInv'
  BY <1>6, AdminRests DEF logout, create_role, TimeGoesOn
<1>7. ASSUME create_admin_user PROVE AdminInv'
  BY <1>7, AccountCreateStep
<1>8. ASSUME delete_role PROVE AdminInv'
  BY <1>8, DeleteRoleStep
<1>9. ASSUME ensure_seeded PROVE AdminInv'
  BY <1>9, EndStep DEF ensure_seeded
<1>10. CASE UNCHANGED adminVars
  BY <1>10, AdminRests DEF adminVars
<1> QED
  BY <1>1, <1>2, <1>3, <1>4, <1>5, <1>6, <1>7, <1>8, <1>9, <1>10 DEF AdminNext

-----------------------------------------------------------------------------
\* An edit is taken up.
LEMMA EditShape ==
  ASSUME NEW v \in Visitors, update_admin_user(v) \/ delete_admin_user(v)
  PROVE  \E me : visitor' = [visitor EXCEPT ![v] = me] /\ me.at \in {"editing", "deleting"}
<1>1. CASE update_admin_user(v)
  <2>1. PICK id, row : visitor' = [visitor EXCEPT ![v] = [Waiting EXCEPT !.at = "editing", !.id = id, !.was = accounts[id],
                                                                       !.row = row]]
    BY <1>1 DEF update_admin_user
  <2> DEFINE me == [Waiting EXCEPT !.at = "editing", !.id = id, !.was = accounts[id], !.row = row]
  <2>2. visitor' = [visitor EXCEPT ![v] = me] /\ me.at \in {"editing", "deleting"}
    BY <2>1 DEF Waiting
  <2> HIDE DEF me
  <2> QED
    BY <2>2
<1>2. CASE delete_admin_user(v)
  <2>1. PICK id : visitor' = [visitor EXCEPT ![v] = [Waiting EXCEPT !.at = "deleting", !.id = id]]
    BY <1>2 DEF delete_admin_user
  <2> DEFINE me == [Waiting EXCEPT !.at = "deleting", !.id = id]
  <2>2. visitor' = [visitor EXCEPT ![v] = me] /\ me.at \in {"editing", "deleting"}
    BY <2>1 DEF Waiting
  <2> HIDE DEF me
  <2> QED
    BY <2>2
<1> QED
  BY <1>1, <1>2

\* The times and numbers of failures, none in memory, or about to be written back, that is not one of those
\* that count.
LEMMA FailuresStart == AdminInit => FailuresInv
<1> SUFFICES ASSUME AdminInit PROVE FailuresInv
  OBVIOUS
<1>1. /\ time = 0 /\ attempts = [n \in AdminNames |-> {}] /\ failed = [n \in AdminNames |-> {}]
      /\ \A v \in Visitors : visitor[v].at = "waiting"
  BY DEF AdminInit, Waiting
<1> QED
  BY <1>1, FS_EmptySet DEF FailuresInv

\* Some failures are forgotten: none that is in memory, or that a login is still looking at.
LEMMA Forgotten ==
  ASSUME FailuresInv, time' \in Nat, attempts' \in [AdminNames -> SUBSET Failing], failed' \in [AdminNames -> SUBSET Failing],
         \A n \in AdminNames : attempts'[n] \subseteq failed'[n] /\ failed'[n] \subseteq failed[n],
         \A v \in Visitors : visitor'[v].at = "looking" =>
           visitor'[v].name \in AdminNames /\ visitor'[v].seen \subseteq failed'[visitor'[v].name]
  PROVE  FailuresInv'
<1>1. \A n \in AdminNames : IsFiniteSet(failed'[n])
  BY FS_Subset DEF FailuresInv
<1> QED
  BY <1>1 DEF FailuresInv

\* Among as many numbers as there are failures, and one more, there is one that no failure of now has.
LEMMA FailureIsNew ==
  ASSUME FailuresInv, NEW n \in AdminNames
  PROVE  Failure(n) \in Failing /\ Failure(n).at = time /\ Failure(n) \notin failed[n]
<1> DEFINE C == Cardinality(failed[n])
           taken(k) == [at |-> time, number |-> k] \in failed[n]
<1>1. C \in Nat /\ IsFiniteSet(failed[n]) /\ time \in Nat
  BY FS_CardinalityType DEF FailuresInv
<1>2. \E k \in 0 .. C : ~ taken(k)
  <2>1. SUFFICES ASSUME \A k \in 0 .. C : taken(k) PROVE FALSE
    OBVIOUS
  <2> DEFINE f == [k \in 0 .. C |-> [at |-> time, number |-> k]]
  <2>2. f \in [0 .. C -> failed[n]]
    BY <2>1
  <2>3. ASSUME NEW a \in 0 .. C, NEW b \in 0 .. C, f[a] = f[b] PROVE a = b
    <3>1. f[a].number = a /\ f[b].number = b
      OBVIOUS
    <3> QED
      BY <2>3, <3>1
  <2> HIDE DEF f
  <2>4. f \in Injection(0 .. C, failed[n])
    BY <2>2, <2>3 DEF Injection, IsInjective
  <2>5. Cardinality(0 .. C) <= C
    BY <1>1, <2>4, FS_Injection DEF ExistsInjection
  <2>6. Cardinality(0 .. C) = C + 1
    BY <1>1, FS_Interval
  <2> QED
    BY <1>1, <2>5, <2>6
<1> DEFINE number == CHOOSE k \in 0 .. C : ~ taken(k)
<1>3. number \in 0 .. C /\ ~ taken(number)
  BY <1>2
<1>4. Failure(n) = [at |-> time, number |-> number]
  BY DEF Failure
<1> HIDE DEF number
<1> QED
  BY <1>1, <1>3, <1>4 DEF Failing

LEMMA RecordFailureStep == ASSUME AdminInv, FailuresInv, NEW v \in Visitors, _record_failure(v) PROVE FailuresInv'
<1> DEFINE n == visitor[v].name
<1> DEFINE failure == Failure(n)
<1>1. /\ attempts' = [attempts EXCEPT ![n] = @ \cup {failure}] /\ failed' = [failed EXCEPT ![n] = @ \cup {failure}]
      /\ time' = time /\ visitor' = [visitor EXCEPT ![v] = Waiting]
  BY DEF _record_failure
<1>2. \A w \in Visitors : visitor'[w] \in {visitor[w], Waiting}
  BY <1>1 DEF AdminInv, AdminShapes
<1>3. \A w \in Visitors : visitor'[w].at = "looking" => visitor'[w] = visitor[w]
  BY <1>2 DEF Waiting
<1>4. CASE n \notin AdminNames
  <2>1. attempts' = attempts /\ failed' = failed
    BY <1>1, <1>4 DEF FailuresInv
  <2> QED
    BY <1>1, <1>3, <2>1 DEF FailuresInv
<1>5. CASE n \in AdminNames
  <2>1. failure \in Failing
    BY <1>5, FailureIsNew
  <2> HIDE DEF failure
  <2>2. IsFiniteSet(failed[n] \cup {failure})
    BY <1>5, FS_AddElement DEF FailuresInv
  <2> HIDE DEF n
  <2>3. attempts' \in [AdminNames -> SUBSET Failing] /\ failed' \in [AdminNames -> SUBSET Failing]
    BY <1>1, <1>5, <2>1 DEF FailuresInv
  <2>4. /\ attempts'[n] = attempts[n] \cup {failure} /\ failed'[n] = failed[n] \cup {failure}
        /\ \A m \in AdminNames : m # n => attempts'[m] = attempts[m] /\ failed'[m] = failed[m]
    BY <1>1, <1>5 DEF FailuresInv
  <2>5. \A m \in AdminNames : attempts'[m] \subseteq failed'[m] /\ IsFiniteSet(failed'[m]) /\ failed[m] \subseteq failed'[m]
    BY <2>2, <2>4 DEF FailuresInv
  <2>6. \A w \in Visitors : visitor'[w].at = "looking" =>
          visitor'[w].name \in AdminNames /\ visitor'[w].seen \subseteq failed'[visitor'[w].name]
    BY <1>3, <2>5 DEF FailuresInv
  <2> QED
    BY <1>1, <2>3, <2>5, <2>6 DEF FailuresInv
<1> QED
  BY <1>4, <1>5

LEMMA LookFailures == ASSUME AdminInv, FailuresInv, NEW v \in Visitors, login(v) PROVE FailuresInv'
<1>1. PICK n \in AdminNames :
        visitor' = [visitor EXCEPT ![v] = [Waiting EXCEPT !.at = "looking", !.name = n, !.seen = Recent(attempts[n])]]
  BY DEF login
<1> DEFINE me == [Waiting EXCEPT !.at = "looking", !.name = n, !.seen = Recent(attempts[n])]
<1>2. me.name = n /\ me.seen \subseteq attempts[n]
  BY DEF Waiting, Recent
<1>3. visitor' = [visitor EXCEPT ![v] = me]
  BY <1>1
<1> HIDE DEF me
<1>4. \A w \in Visitors : visitor'[w] \in {visitor[w], me}
  BY <1>3 DEF AdminInv, AdminShapes
<1>5. UNCHANGED << attempts, failed, time >>
  BY DEF login
<1> QED
  BY <1>2, <1>4, <1>5, Forgotten DEF FailuresInv

LEMMA WriteBackFailures == ASSUME AdminInv, FailuresInv, NEW v \in Visitors, WriteBack(v) PROVE FailuresInv'
<1> DEFINE n == visitor[v].name
           seen == visitor[v].seen
<1>1. visitor[v].at = "looking" /\ attempts' = [attempts EXCEPT ![n] = seen] /\ failed' = failed /\ time' = time
  BY DEF WriteBack
<1>2. n \in AdminNames /\ seen \subseteq failed[n]
  BY <1>1 DEF FailuresInv
<1>3. \A w \in Visitors : visitor'[w].at = "looking" => visitor'[w] = visitor[w]
  <2>1. \A id, valid : Checking(n, id, valid).at # "looking"
    BY DEF Checking, Waiting
  <2>2. Waiting.at # "looking"
    BY DEF Waiting
  <2>3. \A w \in Visitors : visitor'[w] = visitor[w] \/ visitor'[w].at # "looking"
    BY <2>1, <2>2, WriteBackGoesOn DEF AdminInv, AdminShapes
  <2> QED
    BY <2>3
<1> HIDE DEF n, seen
<1>4. \A m \in AdminNames : attempts'[m] \subseteq failed[m]
  BY <1>1, <1>2 DEF FailuresInv
<1>5. attempts' \in [AdminNames -> SUBSET Failing]
  BY <1>1, <1>2 DEF FailuresInv
<1> QED
  BY <1>1, <1>3, <1>4, <1>5, Forgotten DEF FailuresInv

LEMMA ClearFailures == ASSUME AdminInv, FailuresInv, NEW v \in Visitors, _clear_failures(v) PROVE FailuresInv'
<1> DEFINE n == visitor[v].name
           left == SeenBy(n)
<1>1. /\ attempts' = [attempts EXCEPT ![n] = {}] /\ failed' = [failed EXCEPT ![n] = left] /\ time' = time
      /\ visitor' = [visitor EXCEPT ![v] = Waiting]
  BY DEF _clear_failures
<1>2. \A w \in Visitors : visitor'[w].at = "looking" => visitor'[w] = visitor[w]
  <2>1. \A w \in Visitors : visitor'[w] \in {visitor[w], Waiting}
    BY <1>1 DEF AdminInv, AdminShapes
  <2> QED
    BY <2>1 DEF Waiting
<1>3. \A w \in Visitors : visitor[w].at = "looking" /\ visitor[w].name = n => visitor[w].seen \subseteq left
  BY DEF SeenBy
<1>4. left \subseteq failed[n]
  BY DEF SeenBy, FailuresInv
<1> HIDE DEF left, n
<1>5. /\ attempts' \in [AdminNames -> SUBSET Failing] /\ failed' \in [AdminNames -> SUBSET Failing]
      /\ \A m \in AdminNames : attempts'[m] \subseteq failed'[m] /\ failed'[m] \subseteq failed[m]
      /\ \A m \in AdminNames : m # n => failed'[m] = failed[m]
      /\ n \in AdminNames => failed'[n] = left
  BY <1>1, <1>4 DEF FailuresInv
<1>6. \A w \in Visitors : visitor'[w].at = "looking" =>
        visitor'[w].name \in AdminNames /\ visitor'[w].seen \subseteq failed'[visitor'[w].name]
  BY <1>2, <1>3, <1>5 DEF FailuresInv
<1> QED
  BY <1>1, <1>5, <1>6, Forgotten DEF FailuresInv

LEMMA FailuresStep == AdminInv /\ FailuresInv /\ [AdminNext]_adminVars => FailuresInv'
<1> SUFFICES ASSUME AdminInv, FailuresInv, [AdminNext]_adminVars PROVE FailuresInv'
  OBVIOUS
<1>1. Waiting.at = "waiting"
  BY DEF Waiting
<1>2. ASSUME UNCHANGED << attempts, failed >>, time' \in {time, time + 1},
             \A v \in Visitors : visitor'[v].at = "looking" => visitor'[v] = visitor[v]
      PROVE  FailuresInv'
  BY <1>2, Forgotten DEF FailuresInv
<1>3. ASSUME NEW v \in Visitors, update_admin_user(v) \/ delete_admin_user(v) \/ CommitAccount(v) PROVE FailuresInv'
  <2>1. UNCHANGED << attempts, failed, time >>
    BY <1>3 DEF update_admin_user, delete_admin_user, CommitAccount
  <2>2. PICK me : me.at # "looking" /\ visitor' = [visitor EXCEPT ![v] = me]
    BY <1>1, <1>3, EditShape DEF CommitAccount
  <2>3. \A w \in Visitors : visitor'[w] \in {visitor[w], me}
    BY <2>2 DEF AdminInv, AdminShapes
  <2>4. \A w \in Visitors : visitor'[w].at = "looking" => visitor'[w] = visitor[w]
    BY <2>2, <2>3
  <2> QED
    BY <1>2, <2>1, <2>4
<1>4. ASSUME logout \/ create_role \/ create_admin_user \/ delete_role \/ TimeGoesOn PROVE FailuresInv'
  BY <1>2, <1>4 DEF logout, create_role, create_admin_user, delete_role, TimeGoesOn
<1>5. ASSUME ensure_seeded PROVE FailuresInv'
  <2>1. /\ attempts' = [n \in AdminNames |-> {}] /\ failed' = failed /\ time' = time
        /\ \A v \in Visitors : visitor'[v] = Waiting
    BY <1>5 DEF ensure_seeded
  <2> QED
    BY <1>1, <2>1, Forgotten DEF FailuresInv
<1>6. CASE UNCHANGED adminVars
  BY <1>2, <1>6 DEF adminVars
<1> QED
  BY <1>3, <1>4, <1>5, <1>6, LookFailures, WriteBackFailures, ClearFailures, RecordFailureStep DEF AdminNext

LEMMA AdminInvariants == AdminSpec => [](AdminInv /\ FailuresInv)
<1>1. AdminInit => AdminInv /\ FailuresInv
  BY AdminStart, FailuresStart
<1>2. AdminInv /\ FailuresInv /\ [AdminNext]_adminVars => (AdminInv /\ FailuresInv)'
  BY AdminStep, FailuresStep
<1> QED
  BY <1>1, <1>2, PTL DEF AdminSpec

LEMMA LockedByFailures ==
  ASSUME FailuresInv, NEW n \in AdminNames, _is_locked_out(Recent(attempts[n]))
  PROVE  Cardinality({ f \in failed[n] : time < f.at + LOCKOUT }) \geq MAX_ATTEMPTS
<1> DEFINE unredeemed == { f \in failed[n] : time < f.at + LOCKOUT }
<1>1. MAX_ATTEMPTS \in Nat /\ LOCKOUT \in Nat
  BY AdminAssumption
<1>2. \A f \in attempts[n] : f.at \in Nat /\ f \in failed[n]
  BY DEF FailuresInv, Failing
<1>3. Recent(attempts[n]) \subseteq unredeemed
  BY <1>1, <1>2 DEF Recent, FailuresInv
<1>4. unredeemed \subseteq failed[n] /\ IsFiniteSet(failed[n])
  BY DEF FailuresInv
<1>5. IsFiniteSet(unredeemed)
  BY <1>4, FS_Subset
<1> HIDE DEF unredeemed
<1>6. /\ Cardinality(Recent(attempts[n])) \leq Cardinality(unredeemed)
      /\ Cardinality(unredeemed) \in Nat /\ Cardinality(Recent(attempts[n])) \in Nat
  BY <1>3, <1>5, FS_Subset, FS_CardinalityType
<1>7. Cardinality(unredeemed) \geq MAX_ATTEMPTS
  BY <1>1, <1>6 DEF _is_locked_out
<1> QED
  BY <1>7 DEF unredeemed

\* However accounts are edited, renamed, demoted, restricted and deleted, _active_superadmin_count leaves an
\* active superadmin, unless one edit was decided while another had not been committed; and, however the
\* reading and the writing back of logins interleave with the failures and the successes of others, a name
\* is locked out only by as many recent failures under it that no login has redeemed, or that another login
\* was looking at when one did: _is_locked_out puts those back.
THEOREM NobodyLockedOut == AdminSpec => []NobodyIsLockedOut
<1>1. AdminInv => SomebodyIsLeft
  BY DEF AdminInv, SomebodyIsLeft, Superadmins, Power
<1>2. SomebodyIsLeft /\ FailuresInv => NobodyIsLockedOut
  BY LockedByFailures DEF NobodyIsLockedOut
<1> QED
  BY <1>1, <1>2, AdminInvariants, PTL

\* What the tables of accounts, roles and sessions keep to, and the logins under way.
RegistryInv ==
  /\ \A i, j \in DOMAIN accounts : accounts[i].name = accounts[j].name => i = j
  /\ \A i \in DOMAIN accounts : accounts[i].role_id \in roles \cup {Nil}
  /\ roles \subseteq RoleIds /\ signedIn \subseteq AdminNames
  /\ \A v \in Visitors : visitor[v].at = "checking" => visitor[v].name \in AdminNames
  /\ time \in 0 .. MaxTime
  /\ \A n \in AdminNames : \A f \in attempts[n] \cup failed[n] : f.at <= time

LEMMA RegistryStart == AdminInit => RegistryInv
<1> SUFFICES ASSUME AdminInit PROVE RegistryInv
  OBVIOUS
<1>1. PICK i \in Ids, n \in AdminNames :
        accounts = [j \in {i} |-> [name |-> n, is_active |-> TRUE, is_superadmin |-> TRUE,
                                   allowed_source_ips |-> {}, role_id |-> Nil]]
  BY DEF AdminInit
<1>2. DOMAIN accounts = {i} /\ accounts[i].role_id = Nil
  BY <1>1
<1>3. visitor = [v \in Visitors |-> Waiting] /\ Waiting.at = "waiting"
  BY DEF AdminInit, Waiting
<1>4. MaxTime \in Nat
  BY AdminBoundsAssumption
<1> QED
  BY <1>2, <1>3, <1>4 DEF AdminInit, RegistryInv

\* Visits come and go, and failures are forgotten.
LEMMA RegistryStays ==
  ASSUME RegistryInv, UNCHANGED << accounts, roles, time >>, signedIn' \subseteq AdminNames,
         \A v \in Visitors : visitor'[v].at = "checking" => visitor'[v] = visitor[v] \/ visitor'[v].name \in AdminNames,
         \A n \in AdminNames : attempts'[n] \subseteq failed[n] /\ failed'[n] \subseteq failed[n]
  PROVE  RegistryInv'
  BY DEF RegistryInv

LEMMA RegistryLogin ==
  ASSUME AdminInv, FailuresInv, RegistryInv, NEW v \in Visitors, login(v) \/ WriteBack(v)
  PROVE  RegistryInv'
<1>1. UNCHANGED << accounts, roles, signedIn, failed, time >> /\ signedIn \subseteq AdminNames
  BY DEF login, WriteBack, RegistryInv
<1>2. \A m \in AdminNames : attempts'[m] \subseteq failed'[m]
  BY LookFailures, WriteBackFailures DEF FailuresInv
<1>3. CASE login(v)
  <2>1. PICK n \in AdminNames :
          visitor' = [visitor EXCEPT ![v] = [Waiting EXCEPT !.at = "looking", !.name = n, !.seen = Recent(attempts[n])]]
    BY <1>3 DEF login
  <2> DEFINE me == [Waiting EXCEPT !.at = "looking", !.name = n, !.seen = Recent(attempts[n])]
  <2>2. me.at = "looking"
    BY DEF Waiting
  <2>3. visitor' = [visitor EXCEPT ![v] = me]
    BY <2>1
  <2> HIDE DEF me
  <2>4. \A w \in Visitors : visitor'[w] \in {visitor[w], me}
    BY <2>3 DEF AdminInv, AdminShapes
  <2> QED
    BY <1>1, <1>2, <2>2, <2>4, RegistryStays
<1>4. CASE WriteBack(v)
  <2>1. visitor[v].name \in AdminNames
    BY <1>4 DEF WriteBack, FailuresInv
  <2>2. Waiting.at = "waiting" /\ \A id, valid : Checking(visitor[v].name, id, valid).name = visitor[v].name
    BY DEF Waiting, Checking
  <2>3. \A w \in Visitors : \/ visitor'[w] \in {visitor[w], Waiting}
                           \/ \E id, valid : visitor'[w] = Checking(visitor[v].name, id, valid)
    BY <1>4, WriteBackGoesOn DEF AdminInv, AdminShapes
  <2> QED
    BY <1>1, <1>2, <2>1, <2>2, <2>3, RegistryStays
<1> QED
  BY <1>3, <1>4

LEMMA RegistryFailure == ASSUME AdminInv, FailuresInv, RegistryInv, NEW v \in Visitors, _record_failure(v) PROVE RegistryInv'
<1> DEFINE n == visitor[v].name
           failure == Failure(n)
<1>1. /\ attempts' = [attempts EXCEPT ![n] = @ \cup {failure}] /\ failed' = [failed EXCEPT ![n] = @ \cup {failure}]
      /\ visitor' = [visitor EXCEPT ![v] = Waiting] /\ UNCHANGED << accounts, roles, signedIn, time >>
  BY DEF _record_failure
<1>2. failure.at = time /\ time \in Nat
  BY DEF FailuresInv, Failure
<1> HIDE DEF failure, n
<1>3. \A m \in AdminNames : attempts'[m] \subseteq attempts[m] \cup {failure} /\ failed'[m] \subseteq failed[m] \cup {failure}
  BY <1>1 DEF FailuresInv
<1>4. \A m \in AdminNames : \A f \in attempts'[m] \cup failed'[m] : f.at <= time
  <2>1. time <= time
    BY <1>2
  <2> QED
    BY <1>2, <1>3, <2>1 DEF RegistryInv
<1>5. \A w \in Visitors : visitor'[w] \in {visitor[w], Waiting}
  BY <1>1 DEF AdminInv, AdminShapes
<1>6. Waiting.at = "waiting"
  BY DEF Waiting
<1> QED
  BY <1>1, <1>4, <1>5, <1>6 DEF RegistryInv

LEMMA RegistryCleared == ASSUME AdminInv, FailuresInv, RegistryInv, NEW v \in Visitors, _clear_failures(v) PROVE RegistryInv'
<1>1. /\ visitor[v].name \in AdminNames
      /\ attempts' = [attempts EXCEPT ![visitor[v].name] = {}] /\ failed' = [failed EXCEPT ![visitor[v].name] = SeenBy(visitor[v].name)]
      /\ signedIn' \subseteq signedIn \cup {visitor[v].name}
      /\ visitor' = [visitor EXCEPT ![v] = Waiting] /\ UNCHANGED << accounts, roles, time >>
  BY DEF _clear_failures, RegistryInv
<1>2. \A m \in AdminNames : attempts'[m] \subseteq failed[m] /\ failed'[m] \subseteq failed[m]
  <2>1. SeenBy(visitor[v].name) \subseteq failed[visitor[v].name]
    BY DEF SeenBy, FailuresInv
  <2> QED
    BY <1>1, <2>1 DEF FailuresInv
<1>3. \A w \in Visitors : visitor'[w] \in {visitor[w], Waiting}
  BY <1>1 DEF AdminInv, AdminShapes
<1>4. Waiting.at = "waiting" /\ signedIn' \subseteq AdminNames
  BY <1>1 DEF Waiting, RegistryInv
<1> QED
  BY <1>1, <1>2, <1>3, <1>4, RegistryStays

LEMMA RegistryDecides ==
  ASSUME AdminInv, FailuresInv, RegistryInv, NEW v \in Visitors, update_admin_user(v) \/ delete_admin_user(v)
  PROVE  RegistryInv'
<1>1. UNCHANGED << accounts, roles, signedIn, attempts, failed, time >>
  BY DEF update_admin_user, delete_admin_user
<1>2. PICK me : visitor' = [visitor EXCEPT ![v] = me] /\ me.at \in {"editing", "deleting"}
  BY EditShape
<1>3. \A w \in Visitors : visitor'[w] = visitor[w] \/ visitor'[w].at # "checking"
  BY <1>2 DEF AdminInv, AdminShapes
<1>4. signedIn' \subseteq AdminNames
  BY <1>1 DEF RegistryInv
<1>5. \A n \in AdminNames : attempts'[n] \subseteq failed[n] /\ failed'[n] \subseteq failed[n]
  BY <1>1 DEF FailuresInv
<1> QED
  BY <1>1, <1>3, <1>4, <1>5, RegistryStays

\* What is written is the new name when it is free, the new role when it is there, and what was there else.
LEMMA WrittenNameAndRole ==
  ASSUME NEW me, me.row \in Account, me.was \in Account, NEW now \in Account
  PROVE  LET changed == { f \in DOMAIN me.row : me.row[f] # me.was[f] } IN
         /\ WrittenOver(me, now).name = IF "name" \in changed THEN me.row.name ELSE now.name
         /\ WrittenOver(me, now).role_id = IF "role_id" \in changed THEN me.row.role_id ELSE now.role_id
<1>1. "name" \in DOMAIN now /\ "role_id" \in DOMAIN now
  BY DEF Account
<1> QED
  BY <1>1 DEF WrittenOver

LEMMA RegistryCommits == ASSUME AdminInv, RegistryInv, NEW v \in Visitors, CommitAccount(v) PROVE RegistryInv'
<1> DEFINE me == visitor[v]
           changed == { f \in DOMAIN me.row : me.row[f] # me.was[f] }
           Free == /\ "name" \in changed => Named(me.row.name) \subseteq {me.id}
                   /\ "role_id" \in changed => me.row.role_id \in roles \cup {Nil}
<1>1. /\ visitor' = [visitor EXCEPT ![v] = Waiting] /\ UNCHANGED << roles, signedIn, attempts, failed, time >>
      /\ \/ me.at = "deleting" /\ me.id \in DOMAIN accounts /\ accounts' = Restrict(accounts, DOMAIN accounts \ {me.id})
         \/ me.at = "editing" /\ me.id \in DOMAIN accounts /\ Free /\ accounts' = [accounts EXCEPT ![me.id] = WrittenOver(me, accounts[me.id])]
         \/ accounts' = accounts
  BY DEF CommitAccount, WrittenOver
<1>2. me.at = "editing" => me.row \in Account /\ me.was \in Account
  BY DEF AdminInv, AdminShapes
<1>3. /\ \A i, j \in DOMAIN accounts' : accounts'[i].name = accounts'[j].name => i = j
      /\ \A i \in DOMAIN accounts' : accounts'[i].role_id \in roles \cup {Nil}
  <2>1. CASE accounts' = accounts
    BY <2>1 DEF RegistryInv
  <2>2. CASE accounts' = Restrict(accounts, DOMAIN accounts \ {me.id})
    <3>1. DOMAIN accounts' \subseteq DOMAIN accounts /\ \A i \in DOMAIN accounts' : accounts'[i] = accounts[i]
      BY <2>2 DEF Restrict
    <3> QED
      BY <3>1 DEF RegistryInv
  <2>3. CASE me.at = "editing" /\ me.id \in DOMAIN accounts /\ Free /\ accounts' = [accounts EXCEPT ![me.id] = WrittenOver(me, accounts[me.id])]
    <3> DEFINE now == accounts[me.id]  new == WrittenOver(me, now)
    <3>1. me.row \in Account /\ me.was \in Account /\ now \in Account
      BY <1>2, <2>3 DEF AdminInv, AdminShapes
    <3>2. /\ new.name = IF "name" \in changed THEN me.row.name ELSE now.name
          /\ new.role_id = IF "role_id" \in changed THEN me.row.role_id ELSE now.role_id
      BY <3>1, WrittenNameAndRole
    <3>3. Free /\ me.id \in DOMAIN accounts /\ accounts' = [accounts EXCEPT ![me.id] = new]
      BY <2>3
    <3> DEFINE id == me.id
    <3>4. /\ \A i \in DOMAIN accounts : i # id => accounts[i].name # now.name
          /\ now.role_id \in roles \cup {Nil}
      BY <3>3 DEF RegistryInv
    <3>5. \A i \in DOMAIN accounts : i # id => accounts[i].name # new.name
      BY <3>2, <3>3, <3>4 DEF Named
    <3>6. new.role_id \in roles \cup {Nil}
      BY <3>2, <3>3, <3>4
    <3> HIDE DEF new, now
    <3>7. /\ DOMAIN accounts' = DOMAIN accounts /\ accounts'[id] = new
          /\ \A i \in DOMAIN accounts : i # id => accounts'[i] = accounts[i]
      BY <3>3
    <3> HIDE DEF id, me
    <3> QED
      BY <3>5, <3>6, <3>7 DEF RegistryInv
  <2> QED
    BY <1>1, <2>1, <2>2, <2>3
<1>4. \A w \in Visitors : visitor'[w] \in {visitor[w], Waiting}
  BY <1>1 DEF AdminInv, AdminShapes
<1>5. Waiting.at = "waiting"
  BY DEF Waiting
<1> QED
  BY <1>1, <1>3, <1>4, <1>5 DEF RegistryInv

LEMMA RegistryAccounts == ASSUME AdminInv, RegistryInv, create_admin_user \/ delete_role PROVE RegistryInv'
<1>1. CASE create_admin_user
  <2>1. PICK i \in Ids \ DOMAIN accounts, row \in Account :
          /\ row.role_id \in roles \cup {Nil} /\ Named(row.name) = {}
          /\ accounts' = [j \in DOMAIN accounts \cup {i} |-> IF j = i THEN row ELSE accounts[j]]
    BY <1>1 DEF create_admin_user
  <2>2. /\ DOMAIN accounts' = DOMAIN accounts \cup {i} /\ accounts'[i] = row
        /\ \A j \in DOMAIN accounts : accounts'[j] = accounts[j] /\ accounts[j].name # row.name
    BY <2>1 DEF Named
  <2>3. UNCHANGED << roles, signedIn, attempts, visitor, failed, time >>
    BY <1>1 DEF create_admin_user
  <2> QED
    BY <2>1, <2>2, <2>3 DEF RegistryInv
<1>2. CASE delete_role
  <2>1. PICK x \in roles :
          /\ roles' = roles \ {x}
          /\ accounts' = [i \in DOMAIN accounts |-> IF accounts[i].role_id = x THEN [accounts[i] EXCEPT !.role_id = Nil]
                                                    ELSE accounts[i]]
    BY <1>2 DEF delete_role
  <2>2. DOMAIN accounts' = DOMAIN accounts
    BY <2>1
  <2>3. ASSUME NEW i \in DOMAIN accounts
        PROVE  /\ accounts'[i].name = accounts[i].name
               /\ accounts'[i].role_id = IF accounts[i].role_id = x THEN Nil ELSE accounts[i].role_id
    <3>1. accounts[i] \in Account
      BY DEF AdminInv, AdminShapes
    <3>2. accounts'[i] = IF accounts[i].role_id = x THEN [accounts[i] EXCEPT !.role_id = Nil] ELSE accounts[i]
      BY <2>1
    <3> QED
      BY <3>1, <3>2 DEF Account
  <2>4. UNCHANGED << signedIn, attempts, visitor, failed, time >>
    BY <1>2 DEF delete_role
  <2> QED
    BY <2>1, <2>2, <2>3, <2>4 DEF RegistryInv
<1> QED
  BY <1>1, <1>2

LEMMA RegistryStep == AdminInv /\ FailuresInv /\ RegistryInv /\ [AdminNext]_adminVars => RegistryInv'
<1> SUFFICES ASSUME AdminInv, FailuresInv, RegistryInv, [AdminNext]_adminVars PROVE RegistryInv'
  OBVIOUS
<1>1. ASSUME logout PROVE RegistryInv'
  BY <1>1 DEF logout, RegistryInv
<1>2. ASSUME create_role PROVE RegistryInv'
  BY <1>2 DEF create_role, RegistryInv
<1>3. ASSUME ensure_seeded PROVE RegistryInv'
  <2>1. /\ \A v \in Visitors : visitor'[v] = Waiting
        /\ \A n \in AdminNames : attempts'[n] = {}
        /\ roles' \in {roles, RoleIds} /\ roles \subseteq roles' /\ UNCHANGED << accounts, signedIn, failed, time >>
    BY <1>3 DEF ensure_seeded
  <2>2. Waiting.at = "waiting"
    BY DEF Waiting
  <2> QED
    BY <2>1, <2>2 DEF RegistryInv
<1>4. ASSUME TimeGoesOn PROVE RegistryInv'
  <2>1. time' \in 0 .. MaxTime /\ time' = time + 1 /\ time \in Nat
    BY <1>4, AdminBoundsAssumption DEF TimeGoesOn, RegistryInv
  <2>2. ASSUME NEW n \in AdminNames, NEW f \in attempts[n] \cup failed[n] PROVE f.at <= time'
    <3>1. f.at \in Nat /\ f.at <= time
      BY DEF FailuresInv, Failing, RegistryInv
    <3> QED
      BY <2>1, <3>1
  <2> QED
    BY <1>4, <2>1, <2>2 DEF TimeGoesOn, RegistryInv
<1>5. CASE UNCHANGED adminVars
  BY <1>5 DEF adminVars, RegistryInv
<1> QED
  BY <1>1, <1>2, <1>3, <1>4, <1>5, RegistryLogin, RegistryFailure, RegistryCleared, RegistryDecides, RegistryCommits,
     RegistryAccounts DEF AdminNext

\* No two accounts have one name, and none has a role that is gone, though CommitAccount writes what was
\* decided before; failures are never in the future, and sessions are names.
THEOREM AdminTypesHold == AdminSpec => []AdminTypes
<1>2. AdminInv /\ FailuresInv /\ RegistryInv /\ [AdminNext]_adminVars => RegistryInv'
  BY RegistryStep
<1>3. AdminSpec => []RegistryInv
  BY <1>2, AdminInvariants, RegistryStart, PTL DEF AdminSpec
<1>4. ASSUME AdminInv, FailuresInv, RegistryInv PROVE AdminTypes
  <2>1. ASSUME NEW n \in AdminNames PROVE attempts[n] \cup failed[n] \subseteq [at : 0 .. time, number : Nat]
    <3> SUFFICES ASSUME NEW f \in attempts[n] \cup failed[n] PROVE f \in [at : 0 .. time, number : Nat]
      OBVIOUS
    <3>1. f \in [at : Nat, number : Nat] /\ f.at <= time /\ time \in Nat
      BY <1>4 DEF FailuresInv, Failing, RegistryInv
    <3> QED
      BY <3>1 DEF Failing
  <2>2. \A v \in Visitors : visitor[v].at \in {"waiting", "looking", "checking", "editing", "deleting"}
    BY <1>4 DEF AdminInv, AdminShapes, VisitorShape
  <2> QED
    BY <1>4, <2>1, <2>2 DEF AdminTypes, AdminInv, AdminShapes, RegistryInv
<1> QED
  BY <1>3, <1>4, AdminInvariants, PTL

-----------------------------------------------------------------------------
(* Audits of the fleet.                                                    *)

-----------------------------------------------------------------------------
(* What the tables and the workers hold.                                   *)

RunRow == [device : Fleet \cup {Nothing}, source : {"scheduled", "live", "upload"}, report : Nat,
           status : {"running", "completed", "failed"}, read : Postures \cup {Nothing}]
ReportRow == [number : Nat, status : {"running", "completed", "failed", "partial"}, total : Nat,
              ok : Nat, bad : Nat, selected : SUBSET Fleet, begun : Nat, kind : {"daily", "now", "bulk"}]
WorkerRow == [at : {"resting", "numbered", "next", "asked", "judging", "marking"},
              kind : {"none", "daily", "now", "bulk", "live", "upload"}, selected : SUBSET Fleet,
              todo : SUBSET Fleet, report : Nat, run : Nat,
              about : Fleet \cup {Nothing}, got : Postures \cup {Nothing}, ok : Nat, bad : Nat, begun : Nat]

OnRun == {"asked", "judging"}
OnReport == {"next", "asked", "judging"}

AuditShapes ==
  /\ inFleet \subseteq Fleet /\ enabled \subseteq Fleet /\ posture \in [Fleet -> Postures]
  /\ changedAt \in [Fleet -> Nat] /\ \A d \in Fleet : changedAt[d] <= Len(runs)
  /\ runs \in Seq(RunRow) /\ \A k \in DOMAIN runs : runs[k].report <= Len(reports)
  /\ reports \in Seq(ReportRow) /\ \E n \in Nat : \A i \in DOMAIN reports : reports[i].number <= n
  /\ worker \in [Workers -> WorkerRow]
  /\ schedule \in [on : BOOLEAN, last : Nat] /\ clock \in Nat /\ schedule.last <= clock
  /\ auditBudget \in [requests : Nat, troubles : Nat, crashes : Nat]

\* What a worker at each place has.
WorkerInv(w) ==
  /\ worker[w].at = "asked" => worker[w].about \in Fleet
  /\ worker[w].at \in OnRun /\ worker[w].kind # "upload" => worker[w].about \in Fleet
  /\ worker[w].at = "judging" => worker[w].got \in Postures
  /\ worker[w].run <= Len(runs)
  /\ worker[w].at \in OnRun =>
       /\ worker[w].run \in DOMAIN runs
       /\ runs[worker[w].run].status = "running" /\ runs[worker[w].run].report = worker[w].report
       /\ runs[worker[w].run].source = "upload" <=> worker[w].kind = "upload"
       /\ worker[w].about \in inFleet => runs[worker[w].run].device = worker[w].about
  /\ worker[w].at = "next" => worker[w].report # 0
  /\ worker[w].at \in {"numbered", "next", "marking"} => worker[w].kind \in {"daily", "now", "bulk"}
  /\ worker[w].at \in OnReport /\ worker[w].report # 0 => worker[w].kind \in {"daily", "now", "bulk"}
  /\ worker[w].at = "numbered" => worker[w].todo = worker[w].selected /\ worker[w].ok = 0 /\ worker[w].bad = 0
  /\ worker[w].kind = "daily" => w = Scheduler
  /\ worker[w].begun <= clock

-----------------------------------------------------------------------------
(* Rows of a table are added at its end, and changed in place.             *)

LEMMA RowAdded ==
  ASSUME NEW S, NEW s \in Seq(S), NEW e \in S
  PROVE  /\ Append(s, e) \in Seq(S) /\ Len(Append(s, e)) = Len(s) + 1
         /\ DOMAIN Append(s, e) = DOMAIN s \cup {Len(s) + 1}
         /\ \A i \in DOMAIN s : Append(s, e)[i] = s[i]
         /\ Append(s, e)[Len(s) + 1] = e /\ Len(s) + 1 \notin DOMAIN s
  OBVIOUS

LEMMA RowsChanged ==
  ASSUME NEW S, NEW s \in Seq(S), NEW t, t = [i \in DOMAIN s |-> t[i]], \A i \in DOMAIN s : t[i] \in S
  PROVE  t \in Seq(S) /\ Len(t) = Len(s) /\ DOMAIN t = DOMAIN s
<1>1. DOMAIN s = 1 .. Len(s) /\ Len(s) \in Nat
  OBVIOUS
<1>2. t \in [1 .. Len(s) -> S]
  BY <1>1
<1>3. QED
  BY <1>1, <1>2

LEMMA RunsTyped ==
  ASSUME AuditShapes, NEW k \in DOMAIN runs
  PROVE  /\ runs[k] \in RunRow /\ runs[k].report \in Nat /\ runs[k].report <= Len(reports)
         /\ runs[k].device \in Fleet \cup {Nothing} /\ k \in Nat /\ k <= Len(runs) /\ k # 0
<1>1. runs[k] \in RunRow
  BY DEF AuditShapes
<1>2. QED
  BY <1>1 DEF AuditShapes, RunRow

LEMMA ReportsTyped ==
  ASSUME AuditShapes, NEW i \in DOMAIN reports
  PROVE  /\ reports[i] \in ReportRow /\ reports[i].number \in Nat /\ reports[i].begun \in Nat
         /\ reports[i].selected \in SUBSET Fleet /\ i \in Nat /\ i <= Len(reports) /\ i # 0
<1>1. reports[i] \in ReportRow
  BY DEF AuditShapes
<1>2. reports[i].number \in Nat /\ reports[i].begun \in Nat /\ reports[i].selected \in SUBSET Fleet
  BY <1>1 DEF ReportRow
<1>3. i \in Nat /\ i <= Len(reports) /\ i # 0
  BY DEF AuditShapes
<1>4. QED
  BY <1>1, <1>2, <1>3

LEMMA RestingRow == Resting \in WorkerRow
  BY DEF Resting, WorkerRow

\* A completed run that started last.
LEMMA LastIsThere ==
  ASSUME NEW S \in SUBSET Nat, S # {}, NEW n \in Nat, \A s \in S : s <= n
  PROVE  Max(S) \in S /\ \A s \in S : s <= Max(S)
<1> DEFINE T == {n - s : s \in S}
           R == {p \in Nat \X Nat : p[1] < p[2]}
<1>1. \A s \in S : n - s \in Nat
  OBVIOUS
<1>2. T \subseteq Nat /\ T # {}
  BY <1>1
<1>3. IsWellFoundedOn(R, Nat)
  BY NatLessThanWellFounded DEF OpToRel
<1>4. PICK t \in T : \A y \in T : ~ (<<y, t>> \in R)
  <2> HIDE DEF T, R
  <2> QED
    BY <1>2, <1>3, WFMin
<1>5. PICK m \in S : t = n - m
  OBVIOUS
<1>6. \A s \in S : m >= s
  <2> TAKE s \in S
  <2>1. n - s \in T
    OBVIOUS
  <2>2. ~ (n - s < t)
    BY <1>2, <1>4, <2>1
  <2> QED
    BY <1>5, <2>2
<1> QED
  BY <1>6 DEF Max

LEMMA FirstIsThere ==
  ASSUME NEW S \in SUBSET Nat, S # {}
  PROVE  Min(S) \in S
<1> DEFINE R == {p \in Nat \X Nat : p[1] < p[2]}
<1>1. IsWellFoundedOn(R, Nat)
  BY NatLessThanWellFounded DEF OpToRel
<1>2. PICK m \in S : \A y \in S : ~ (<<y, m>> \in R)
  <2> HIDE DEF R
  <2> QED
    BY <1>1, WFMin
<1>3. \A y \in S : m <= y
  <2> TAKE y \in S
  <2>1. <<y, m>> \in Nat \X Nat /\ ~ (y < m)
    BY <1>2
  <2> QED
    BY <2>1
<1> QED
  BY <1>3 DEF Min

-----------------------------------------------------------------------------
(* Types.                                                                  *)

\* No two workers write one run.
RunsApart == \A v, w \in Workers : v # w /\ worker[v].at \in OnRun /\ worker[w].at \in OnRun => worker[v].run # worker[w].run

AuditBase == AuditShapes /\ (\A w \in Workers : WorkerInv(w)) /\ RunsApart

\* A worker takes up a run only when it is new, and keeps it.
LEMMA ApartStays ==
  ASSUME AuditBase, NEW w \in Workers, \A v \in Workers : v # w => worker'[v] = worker[v],
         worker'[w].at \in OnRun =>
           \/ worker'[w].run \notin DOMAIN runs
           \/ worker[w].at \in OnRun /\ worker'[w].run = worker[w].run
  PROVE  RunsApart'
<1>1. \A v \in Workers : worker[v].at \in OnRun => worker[v].run \in DOMAIN runs
  BY DEF AuditBase, WorkerInv
<1>2. QED
  BY <1>1 DEF AuditBase, RunsApart

\* A worker's record is replaced.
LEMMA BecomesRow ==
  ASSUME worker \in [Workers -> WorkerRow], NEW w \in Workers, NEW e \in WorkerRow, Becomes(w, e)
  PROVE  /\ worker' \in [Workers -> WorkerRow] /\ worker'[w] = e
         /\ \A v \in Workers : v # w => worker'[v] = worker[v]
BY DEF Becomes

LEMMA BatchNumber ==
  ASSUME AuditShapes
  PROVE  _next_batch_display_number \in Nat
<1> DEFINE S == {0} \cup { reports[i].number : i \in DOMAIN reports }
<1>1. S \in SUBSET Nat /\ S # {}
  <2>1. \A i \in DOMAIN reports : reports[i] \in ReportRow
    BY DEF AuditShapes
  <2>2. \A i \in DOMAIN reports : reports[i].number \in Nat
    BY <2>1 DEF ReportRow
  <2>3. QED
    BY <2>2
<1>2. PICK n \in Nat : \A i \in DOMAIN reports : reports[i].number <= n
  BY DEF AuditShapes
<1>3. Max(S) \in S
  <2>1. \A x \in S : x <= n
    BY <1>2
  <2> HIDE DEF S
  <2>2. QED
    BY <1>1, <2>1, LastIsThere
<1>4. QED
  BY <1>1, <1>3 DEF _next_batch_display_number

\* A worker that reports or is at rest in between: what the others are stays so.
LEMMA OthersAreSo ==
  ASSUME AuditBase, NEW w \in Workers, NEW e \in WorkerRow, Becomes(w, e),
         UNCHANGED <<runs, inFleet, clock>>
  PROVE  worker' \in [Workers -> WorkerRow] /\ worker'[w] = e /\ \A v \in Workers : v # w => WorkerInv(v)'
<1>1. /\ worker' \in [Workers -> WorkerRow] /\ worker'[w] = e
      /\ \A v \in Workers : v # w => worker'[v] = worker[v]
  BY BecomesRow DEF AuditBase, AuditShapes
<1>2. ASSUME NEW v \in Workers, v # w PROVE WorkerInv(v)'
  <2>1. worker'[v] = worker[v] /\ WorkerInv(v)
    BY <1>1, <1>2 DEF AuditBase
  <2>2. QED
    BY <2>1 DEF WorkerInv
<1>3. QED
  BY <1>1, <1>2

LEMMA BaseBegins ==
  ASSUME AuditInit
  PROVE  AuditBase
<1>1. worker = [w \in Workers |-> Resting] /\ runs = <<>> /\ reports = <<>> /\ clock = 2
  BY DEF AuditInit
<1>2. AuditShapes
  <2>1. DOMAIN runs = {} /\ DOMAIN reports = {} /\ Len(runs) = 0 /\ Len(reports) = 0
    BY <1>1
  <2>2. worker \in [Workers -> WorkerRow]
    BY <1>1, RestingRow
  <2>3. QED
    BY <1>1, <2>1, <2>2, FleetAssumption DEF AuditInit, AuditShapes
<1>3. ASSUME NEW w \in Workers PROVE WorkerInv(w)
  BY <1>1 DEF WorkerInv, Resting, OnRun, OnReport
<1>4. RunsApart
  BY <1>1 DEF RunsApart, Resting, OnRun
<1>5. QED
  BY <1>2, <1>3, <1>4 DEF AuditBase

\* A fleet audit begins.
LEMMA BaseSelected ==
  ASSUME AuditBase, NEW w \in Workers, NEW kind \in {"daily", "now", "bulk"}, kind = "daily" => w = Scheduler,
         NEW devices, run_scheduled_audit(w, kind, devices),
         UNCHANGED << inFleet, enabled, posture, changedAt, runs, reports, schedule, clock >>,
         auditBudget' \in [requests : Nat, troubles : Nat, crashes : Nat]
  PROVE  AuditBase'
<1> DEFINE e == [Resting EXCEPT !.at = "numbered", !.kind = kind, !.selected = inFleet \cap enabled \cap devices,
                                !.todo = inFleet \cap enabled \cap devices, !.report = _next_batch_display_number,
                                !.begun = clock]
<1>1. AuditShapes /\ _next_batch_display_number \in Nat
  BY BatchNumber DEF AuditBase
<1>2. /\ e \in WorkerRow /\ e.at = "numbered" /\ e.kind = kind /\ e.begun = clock /\ e.run = 0
      /\ e.todo = e.selected /\ e.ok = 0 /\ e.bad = 0
  BY <1>1 DEF Resting, WorkerRow, AuditShapes
<1>3. Becomes(w, e)
  BY DEF run_scheduled_audit
<1> HIDE DEF e
<1>4. worker' \in [Workers -> WorkerRow] /\ worker'[w] = e /\ \A v \in Workers : v # w => WorkerInv(v)'
  BY <1>2, <1>3, OthersAreSo
<1>5. WorkerInv(w)'
  BY <1>1, <1>2, <1>4 DEF WorkerInv, OnRun, OnReport, AuditShapes
<1>6. AuditShapes'
  BY <1>1, <1>4 DEF AuditShapes
<1>7. RunsApart'
  <2>1. worker'[w].at \notin OnRun
    BY <1>2, <1>4 DEF OnRun
  <2>2. \A v \in Workers : v # w => worker'[v] = worker[v]
    BY <1>1, <1>2, <1>3, BecomesRow DEF AuditShapes
  <2>3. QED
    BY <2>1, <2>2, ApartStays
<1>8. QED
  BY <1>4, <1>5, <1>6, <1>7 DEF AuditBase

-----------------------------------------------------------------------------
(* What the steps do to the tables.                                        *)

NewRun(d, source, n) == [device |-> d, source |-> source, report |-> n, status |-> "running", read |-> Nothing]

\* A run starts; a run ends; a report is inserted; a report changes.
RunStarts(d, source, n) ==
  /\ runs' \in Seq(RunRow) /\ Len(runs') = Len(runs) + 1
  /\ DOMAIN runs' = DOMAIN runs \cup {Len(runs) + 1} /\ Len(runs) + 1 \notin DOMAIN runs
  /\ \A k \in DOMAIN runs : runs'[k] = runs[k]
  /\ runs'[Len(runs) + 1] = NewRun(d, source, n)
RunEnds(r, status, read) ==
  /\ runs' \in Seq(RunRow) /\ Len(runs') = Len(runs) /\ DOMAIN runs' = DOMAIN runs
  /\ \A k \in DOMAIN runs : k # r => runs'[k] = runs[k]
  /\ runs'[r].device = runs[r].device /\ runs'[r].source = runs[r].source /\ runs'[r].report = runs[r].report
  /\ runs'[r].status = status /\ runs'[r].read = read
ReportBegins(row) ==
  /\ reports' \in Seq(ReportRow) /\ Len(reports') = Len(reports) + 1
  /\ DOMAIN reports' = DOMAIN reports \cup {Len(reports) + 1} /\ Len(reports) + 1 \notin DOMAIN reports
  /\ \A i \in DOMAIN reports : reports'[i] = reports[i]
  /\ reports'[Len(reports) + 1] = row
ReportEnds(n, row) ==
  /\ reports' \in Seq(ReportRow) /\ Len(reports') = Len(reports) /\ DOMAIN reports' = DOMAIN reports
  /\ \A i \in DOMAIN reports : i # n => reports'[i] = reports[i]
  /\ reports'[n] = row

LEMMA RunAdded ==
  ASSUME AuditShapes, NEW d \in Fleet \cup {Nothing}, NEW source \in {"scheduled", "live", "upload"}, NEW n \in Nat,
         _create_running_audit_row(d, source, n)
  PROVE  RunStarts(d, source, n)
<1>1. NewRun(d, source, n) \in RunRow
  BY DEF NewRun, RunRow
<1>2. runs \in Seq(RunRow) /\ runs' = Append(runs, NewRun(d, source, n))
  BY DEF AuditShapes, _create_running_audit_row, NewRun
<1> HIDE DEF NewRun
<1>3. QED
  BY <1>1, <1>2, RowAdded DEF RunStarts

LEMMA RunFailed ==
  ASSUME AuditShapes, NEW r \in DOMAIN runs, runs' = [runs EXCEPT ![r].status = "failed"]
  PROVE  RunEnds(r, "failed", runs[r].read)
<1> DEFINE e == [runs[r] EXCEPT !.status = "failed"]
<1>1. runs \in Seq(RunRow) /\ runs[r] \in RunRow
  BY DEF AuditShapes
<1>2. e \in RunRow /\ e.device = runs[r].device /\ e.source = runs[r].source /\ e.report = runs[r].report
      /\ e.status = "failed" /\ e.read = runs[r].read
  BY <1>1 DEF RunRow
<1>3. runs' = [i \in DOMAIN runs |-> IF i = r THEN e ELSE runs[i]]
  OBVIOUS
<1> HIDE DEF e
<1>4. DOMAIN runs' = DOMAIN runs /\ runs'[r] = e /\ \A k \in DOMAIN runs : k # r => runs'[k] = runs[k]
  BY <1>3
<1>5. runs' = [i \in DOMAIN runs |-> runs'[i]] /\ \A i \in DOMAIN runs : runs'[i] \in RunRow
  <2>1. \A i \in DOMAIN runs : runs[i] \in RunRow
    BY <1>1
  <2>2. \A i \in DOMAIN runs : runs'[i] \in RunRow
    BY <1>2, <1>4, <2>1
  <2>3. QED
    BY <1>3, <2>2
<1>6. runs' \in Seq(RunRow) /\ Len(runs') = Len(runs)
  BY <1>1, <1>5, RowsChanged
<1>7. QED
  BY <1>2, <1>4, <1>6 DEF RunEnds

LEMMA RunCompleted ==
  ASSUME AuditShapes, NEW r \in DOMAIN runs, NEW c \in Postures,
         runs' = [runs EXCEPT ![r].status = "completed", ![r].read = c]
  PROVE  RunEnds(r, "completed", c)
<1> DEFINE e == [runs[r] EXCEPT !.status = "completed", !.read = c]
<1>1. runs \in Seq(RunRow) /\ runs[r] \in RunRow
  BY DEF AuditShapes
<1>2. e \in RunRow /\ e.device = runs[r].device /\ e.source = runs[r].source /\ e.report = runs[r].report
      /\ e.status = "completed" /\ e.read = c
  BY <1>1 DEF RunRow
<1>3. runs' = [i \in DOMAIN runs |-> IF i = r THEN e ELSE runs[i]]
  OBVIOUS
<1> HIDE DEF e
<1>4. DOMAIN runs' = DOMAIN runs /\ runs'[r] = e /\ \A k \in DOMAIN runs : k # r => runs'[k] = runs[k]
  BY <1>3
<1>5. runs' = [i \in DOMAIN runs |-> runs'[i]] /\ \A i \in DOMAIN runs : runs'[i] \in RunRow
  <2>1. \A i \in DOMAIN runs : runs[i] \in RunRow
    BY <1>1
  <2>2. \A i \in DOMAIN runs : runs'[i] \in RunRow
    BY <1>2, <1>4, <2>1
  <2>3. QED
    BY <1>3, <2>2
<1>6. runs' \in Seq(RunRow) /\ Len(runs') = Len(runs)
  BY <1>1, <1>5, RowsChanged
<1>7. QED
  BY <1>2, <1>4, <1>6 DEF RunEnds

\* The workers that do nothing keep what they have, whatever runs are added and whichever run ends that is not theirs.
LEMMA OthersWhileRunStarts ==
  ASSUME AuditBase, NEW d, NEW source, NEW n, RunStarts(d, source, n), UNCHANGED <<inFleet, clock>>,
         NEW v \in Workers, worker'[v] = worker[v]
  PROVE  WorkerInv(v)'
<1>1. WorkerInv(v) /\ runs \in Seq(RunRow) /\ worker[v] \in WorkerRow
  BY DEF AuditBase, AuditShapes
<1>2. Len(runs) \in Nat /\ Len(runs') = Len(runs) + 1 /\ worker[v].run \in Nat
  BY <1>1 DEF RunStarts, WorkerRow
<1>3. worker[v].run <= Len(runs')
  BY <1>1, <1>2 DEF WorkerInv
<1>4. worker[v].at \in OnRun => worker[v].run \in DOMAIN runs' /\ runs'[worker[v].run] = runs[worker[v].run]
  BY <1>1 DEF WorkerInv, RunStarts
<1>5. QED
  BY <1>1, <1>3, <1>4 DEF WorkerInv

LEMMA OthersWhileRunEnds ==
  ASSUME AuditBase, NEW r, NEW status, NEW read, RunEnds(r, status, read), UNCHANGED <<inFleet, clock>>,
         NEW v \in Workers, worker'[v] = worker[v], worker[v].at \in OnRun => worker[v].run # r
  PROVE  WorkerInv(v)'
<1>1. WorkerInv(v)
  BY DEF AuditBase
<1>2. worker[v].at \in OnRun => worker[v].run \in DOMAIN runs' /\ runs'[worker[v].run] = runs[worker[v].run]
  BY <1>1 DEF WorkerInv, RunEnds
<1>3. QED
  BY <1>1, <1>2 DEF WorkerInv, RunEnds

\* The steps, with what each does to runs and reports.
RunTables == << inFleet, enabled, posture, changedAt, schedule, clock >>

LEMMA BaseInserts ==
  ASSUME AuditBase, NEW w \in Workers, InsertReport(w)
  PROVE  /\ AuditBase' /\ \A v \in Workers : v # w => worker'[v] = worker[v]
         /\ \/ worker'[w] = Resting /\ UNCHANGED reports
            \/ /\ \A i \in DOMAIN reports : reports[i].number # worker[w].report
               /\ ReportBegins([number |-> worker[w].report, status |-> "running", total |-> Cardinality(worker[w].selected),
                                ok |-> 0, bad |-> 0, selected |-> worker[w].selected, begun |-> worker[w].begun,
                                kind |-> worker[w].kind])
               /\ worker'[w] = [worker[w] EXCEPT !.at = "next", !.report = Len(reports) + 1]
<1> DEFINE me == worker[w]
           row == [number |-> me.report, status |-> "running", total |-> Cardinality(me.selected), ok |-> 0, bad |-> 0,
                   selected |-> me.selected, begun |-> me.begun, kind |-> me.kind]
           on == [me EXCEPT !.at = "next", !.report = Len(reports) + 1]
<1>1. AuditShapes /\ WorkerInv(w) /\ me \in WorkerRow /\ me.at = "numbered"
  BY DEF AuditBase, AuditShapes, InsertReport
<1>2. CASE \E i \in DOMAIN reports : reports[i].number = me.report
  <2>1. Becomes(w, Resting) /\ UNCHANGED <<reports, runs, inFleet, enabled, posture, changedAt, schedule, clock, auditBudget>>
    BY <1>2 DEF InsertReport
  <2>2. /\ worker' \in [Workers -> WorkerRow] /\ worker'[w] = Resting
        /\ \A v \in Workers : v # w => worker'[v] = worker[v] /\ WorkerInv(v)'
    BY <2>1, RestingRow, OthersAreSo, BecomesRow DEF AuditBase, AuditShapes
  <2>3. WorkerInv(w)'
    BY <1>1, <2>1, <2>2 DEF WorkerInv, Resting, OnRun, OnReport, AuditShapes
  <2>4. AuditShapes'
    BY <1>1, <2>1, <2>2 DEF AuditShapes
  <2>5. RunsApart'
    BY <2>2, ApartStays DEF Resting, OnRun
  <2>6. QED
    BY <2>1, <2>2, <2>3, <2>4, <2>5 DEF AuditBase
<1>3. CASE \A i \in DOMAIN reports : reports[i].number # me.report
  <2>1. /\ Becomes(w, on) /\ reports' = Append(reports, row)
        /\ UNCHANGED <<runs, inFleet, enabled, posture, changedAt, schedule, clock, auditBudget>>
    BY <1>3 DEF InsertReport
  <2>2. row \in ReportRow
    <3>1. me.selected \in SUBSET Fleet /\ me.report \in Nat /\ me.begun \in Nat
      BY <1>1 DEF WorkerRow
    <3>2. Cardinality(me.selected) \in Nat
      BY <3>1, FleetAssumption, FS_Subset, FS_CardinalityType
    <3>3. me.kind \in {"daily", "now", "bulk"}
      BY <1>1 DEF WorkerInv
    <3>4. QED
      BY <3>1, <3>2, <3>3 DEF ReportRow
  <2>3. reports \in Seq(ReportRow) /\ Len(reports) \in Nat
    BY <1>1 DEF AuditShapes
  <2>4. row.number = me.report
    OBVIOUS
  <2> HIDE DEF row
  <2>5. ReportBegins(row)
    BY <2>1, <2>2, <2>3, RowAdded DEF ReportBegins
  <2>6. /\ on \in WorkerRow
        /\ on.at = "next" /\ on.report = Len(reports) + 1 /\ on.kind = me.kind /\ on.begun = me.begun /\ on.run = me.run
    <3> HIDE DEF me
    <3>1. me \in WorkerRow /\ Len(reports) + 1 \in Nat
      BY <1>1, <2>3
    <3>2. on \in WorkerRow
      BY <3>1 DEF WorkerRow
    <3>3. QED
      BY <3>1, <3>2 DEF WorkerRow
  <2> HIDE DEF on
  <2>7. /\ worker' \in [Workers -> WorkerRow] /\ worker'[w] = on
        /\ \A v \in Workers : v # w => worker'[v] = worker[v] /\ WorkerInv(v)'
    <3>1. UNCHANGED <<runs, inFleet, clock>> /\ worker \in [Workers -> WorkerRow] /\ Becomes(w, on)
      BY <1>1, <2>1 DEF AuditShapes
    <3>2. worker' \in [Workers -> WorkerRow] /\ worker'[w] = on /\ \A v \in Workers : v # w => worker'[v] = worker[v]
      BY <2>6, <3>1, BecomesRow
    <3>3. \A v \in Workers : v # w => WorkerInv(v)'
      BY <2>6, <3>1, OthersAreSo
    <3>4. QED
      BY <3>2, <3>3
  <2>8. WorkerInv(w)'
    BY <1>1, <2>1, <2>3, <2>6, <2>7 DEF WorkerInv, OnRun, OnReport, AuditShapes
  <2>9. AuditShapes'
    <3>1. \E n \in Nat : \A i \in DOMAIN reports' : reports'[i].number <= n
      <4>1. PICK n \in Nat : \A i \in DOMAIN reports : reports[i].number <= n
        BY <1>1 DEF AuditShapes
      <4>2. me.report \in Nat /\ n + me.report \in Nat /\ \A i \in DOMAIN reports : reports[i].number \in Nat
        BY <1>1, ReportsTyped DEF WorkerRow
      <4>3. \A i \in DOMAIN reports' : reports'[i].number <= n + me.report
        BY <2>4, <2>5, <4>1, <4>2 DEF ReportBegins
      <4>4. QED
        BY <4>2, <4>3
    <3>2. \A k \in DOMAIN runs' : runs'[k].report <= Len(reports')
      <4>1. \A k \in DOMAIN runs : runs[k].report \in Nat
        BY <1>1, RunsTyped
      <4>2. QED
        BY <1>1, <2>1, <2>3, <2>5, <4>1 DEF AuditShapes, ReportBegins
    <3>3. QED
      BY <1>1, <2>1, <2>5, <2>7, <3>1, <3>2 DEF AuditShapes, ReportBegins
  <2>10. RunsApart'
    BY <2>6, <2>7, ApartStays DEF OnRun
  <2>11. QED
    BY <1>3, <2>5, <2>7, <2>8, <2>9, <2>10 DEF AuditBase, row, on
<1>4. QED
  BY <1>2, <1>3

\* The next device: it is gone, and so is the audit, or a run of it starts.
LEMMA BaseStarts ==
  ASSUME AuditBase, NEW w \in Workers, StartRun(w), worker[w].report \in DOMAIN reports
  PROVE  /\ AuditBase' /\ \A v \in Workers : v # w => worker'[v] = worker[v]
         /\ UNCHANGED << inFleet, enabled, posture, changedAt, reports, schedule, clock, auditBudget >>
         /\ \/ worker'[w] = Resting /\ UNCHANGED runs
            \/ \E d \in worker[w].todo :
                 /\ d \in inFleet /\ RunStarts(d, "scheduled", worker[w].report)
                 /\ worker'[w] = [worker[w] EXCEPT !.at = "asked", !.run = Len(runs) + 1, !.about = d, !.todo = @ \ {d}]
<1> DEFINE me == worker[w]
           d == Min(me.todo)
           on == [me EXCEPT !.at = "asked", !.run = Len(runs) + 1, !.about = d, !.todo = @ \ {d}]
<1>1. AuditShapes /\ WorkerInv(w) /\ me \in WorkerRow /\ me.at = "next" /\ me.todo # {} /\ me.report \in Nat
  BY DEF AuditBase, AuditShapes, StartRun, WorkerRow
<1>2. UNCHANGED << inFleet, enabled, posture, changedAt, reports, schedule, clock, auditBudget >>
  BY DEF StartRun
<1>3. d \in me.todo /\ d \in Fleet
  <2>1. me.todo \in SUBSET Fleet
    BY <1>1 DEF WorkerRow
  <2>2. QED
    BY <1>1, <2>1, FleetAssumption, FirstIsThere
<1>4. CASE d \notin inFleet
  <2>1. Becomes(w, Resting) /\ UNCHANGED runs
    BY <1>4 DEF StartRun
  <2>2. /\ worker' \in [Workers -> WorkerRow] /\ worker'[w] = Resting
        /\ \A v \in Workers : v # w => worker'[v] = worker[v] /\ WorkerInv(v)'
    BY <1>2, <2>1, RestingRow, OthersAreSo, BecomesRow DEF AuditBase, AuditShapes
  <2>3. WorkerInv(w)'
    BY <1>1, <1>2, <2>1, <2>2 DEF WorkerInv, Resting, OnRun, OnReport, AuditShapes
  <2>4. AuditShapes'
    BY <1>1, <1>2, <2>1, <2>2 DEF AuditShapes
  <2>5. RunsApart'
    BY <2>2, ApartStays DEF Resting, OnRun
  <2>6. QED
    BY <1>2, <2>1, <2>2, <2>3, <2>4, <2>5 DEF AuditBase
<1>5. CASE d \in inFleet
  <2>1. Becomes(w, on) /\ _create_running_audit_row(d, "scheduled", me.report)
    BY <1>5 DEF StartRun
  <2>2. RunStarts(d, "scheduled", me.report)
    <3> HIDE DEF d
    <3>1. QED
      BY <1>1, <1>3, <2>1, RunAdded
  <2>3. /\ on \in WorkerRow
        /\ on.at = "asked" /\ on.report = me.report /\ on.kind = me.kind /\ on.begun = me.begun
        /\ on.run = Len(runs) + 1 /\ on.about = d /\ on.todo = me.todo \ {d}
    <3> HIDE DEF me, d
    <3>1. Len(runs) + 1 \in Nat
      BY <1>1 DEF AuditShapes
    <3>2. on \in WorkerRow
      BY <1>1, <1>3, <3>1 DEF WorkerRow
    <3>3. QED
      BY <1>1, <3>2 DEF WorkerRow
  <2> HIDE DEF on, d
  <2>4. worker' \in [Workers -> WorkerRow] /\ worker'[w] = on /\ \A v \in Workers : v # w => worker'[v] = worker[v]
    BY <1>1, <2>1, <2>3, BecomesRow DEF AuditShapes
  <2>5. \A v \in Workers : v # w => WorkerInv(v)'
    BY <1>2, <2>2, <2>4, OthersWhileRunStarts
  <2>6. /\ DOMAIN runs' = DOMAIN runs \cup {Len(runs) + 1} /\ Len(runs') = Len(runs) + 1 /\ Len(runs) \in Nat
        /\ runs'[Len(runs) + 1] = NewRun(d, "scheduled", me.report) /\ Len(runs) + 1 \notin DOMAIN runs
        /\ \A k \in DOMAIN runs : runs'[k] = runs[k]
    BY <1>1, <2>2 DEF RunStarts, AuditShapes
  <2>7. WorkerInv(w)'
    <3>1. /\ runs'[on.run].status = "running" /\ runs'[on.run].report = me.report
          /\ runs'[on.run].source = "scheduled" /\ runs'[on.run].device = d
      BY <2>3, <2>6 DEF NewRun
    <3>2. me.kind \in {"daily", "now", "bulk"} /\ me.report # 0 /\ me.begun <= clock /\ (me.kind = "daily" => w = Scheduler)
      BY <1>1 DEF WorkerInv
    <3>3. on.run \in DOMAIN runs' /\ on.run <= Len(runs')
      BY <2>3, <2>6
    <3>4. QED
      BY <1>2, <1>3, <2>3, <2>4, <3>1, <3>2, <3>3 DEF WorkerInv, OnRun, OnReport
  <2>8. AuditShapes'
    <3>1. \A k \in DOMAIN runs' : runs'[k].report <= Len(reports')
      BY <1>1, <1>2, <2>6, RunsTyped, ReportsTyped DEF NewRun
    <3>2. \A e \in Fleet : changedAt'[e] <= Len(runs')
      BY <1>1, <1>2, <2>6 DEF AuditShapes
    <3>3. runs' \in Seq(RunRow)
      BY <2>2 DEF RunStarts
    <3>4. QED
      BY <1>1, <1>2, <2>4, <3>1, <3>2, <3>3 DEF AuditShapes
  <2>9. RunsApart'
    BY <2>3, <2>4, <2>6, ApartStays
  <2>10. QED
    BY <1>2, <1>3, <1>5, <2>2, <2>4, <2>5, <2>7, <2>8, <2>9 DEF AuditBase, on
<1>6. QED
  BY <1>4, <1>5

\* A worker's run ends, and the worker is at rest or goes on.
LEMMA BaseEnds ==
  ASSUME AuditBase, NEW w \in Workers, worker[w].at \in OnRun,
         NEW status \in {"completed", "failed"}, NEW read, RunEnds(worker[w].run, status, read),
         NEW e \in WorkerRow, Becomes(w, e), e.run = 0,
         \/ e.at = "resting" /\ e.kind = "none" /\ e.begun = 0
         \/ /\ e.at = "next" /\ e.report = worker[w].report /\ e.report # 0
            /\ e.kind = worker[w].kind /\ e.begun = worker[w].begun,
         UNCHANGED << inFleet, enabled, posture, changedAt, reports, schedule, clock >>,
         auditBudget' \in [requests : Nat, troubles : Nat, crashes : Nat]
  PROVE  AuditBase' /\ worker'[w] = e /\ \A v \in Workers : v # w => worker'[v] = worker[v]
<1>1. AuditShapes /\ WorkerInv(w) /\ worker[w] \in WorkerRow /\ worker[w].run \in DOMAIN runs
  BY DEF AuditBase, AuditShapes, WorkerInv
<1>2. worker' \in [Workers -> WorkerRow] /\ worker'[w] = e /\ \A v \in Workers : v # w => worker'[v] = worker[v]
  BY <1>1, BecomesRow DEF AuditShapes
<1>3. ASSUME NEW v \in Workers, v # w PROVE WorkerInv(v)'
  <2>1. worker[v].at \in OnRun => worker[v].run # worker[w].run
    BY <1>3 DEF AuditBase, RunsApart
  <2>2. QED
    BY <1>2, <1>3, <2>1, OthersWhileRunEnds
<1>4. Len(runs') = Len(runs) /\ DOMAIN runs' = DOMAIN runs /\ Len(runs) \in Nat /\ runs' \in Seq(RunRow)
  BY <1>1 DEF RunEnds, AuditShapes
<1>5. WorkerInv(w)'
  <2>1. e.run <= Len(runs') /\ e.begun <= clock'
    BY <1>1, <1>4 DEF WorkerInv, AuditShapes
  <2>2. e.kind = "daily" => w = Scheduler
    BY <1>1 DEF WorkerInv
  <2>3. e.at = "next" => e.kind \in {"daily", "now", "bulk"}
    BY <1>1 DEF WorkerInv, OnRun, OnReport
  <2>4. e.at \in {"resting", "next"} /\ (e.at = "next" => e.report # 0)
    OBVIOUS
  <2>5. QED
    BY <1>2, <2>1, <2>2, <2>3, <2>4 DEF WorkerInv, OnRun, OnReport
<1>6. AuditShapes'
  <2>1. \A k \in DOMAIN runs' : runs'[k].report <= Len(reports')
    BY <1>1, <1>4, RunsTyped DEF RunEnds
  <2>2. QED
    BY <1>1, <1>2, <1>4, <2>1 DEF AuditShapes
<1>7. RunsApart'
  <2>1. worker'[w].at \notin OnRun
    BY <1>2 DEF OnRun
  <2>2. QED
    BY <1>2, <2>1, ApartStays
<1>8. QED
  BY <1>2, <1>3, <1>5, <1>6, <1>7 DEF AuditBase

\* A worker moves on, and the runs stay.
LEMMA BaseMoves ==
  ASSUME AuditBase, NEW w \in Workers, NEW e \in WorkerRow, Becomes(w, e), e.begun <= clock,
         e.at \in OnRun => worker[w].at \in OnRun /\ e.run = worker[w].run /\ e.report = worker[w].report
                           /\ e.kind = worker[w].kind /\ e.about = worker[w].about,
         e.at = "asked" => e.about \in Fleet, e.at = "judging" => e.got \in Postures,
         e.run <= Len(runs), e.at \notin {"numbered", "next"}, e.at = "marking" => e.kind \in {"daily", "now", "bulk"},
         e.kind = "daily" => w = Scheduler,
         UNCHANGED << inFleet, enabled, posture, changedAt, runs, clock >>,
         reports' \in Seq(ReportRow), Len(reports') = Len(reports),
         \E n \in Nat : \A i \in DOMAIN reports' : reports'[i].number <= n,
         schedule' \in [on : BOOLEAN, last : Nat], schedule'.last <= clock,
         auditBudget' \in [requests : Nat, troubles : Nat, crashes : Nat]
  PROVE  AuditBase' /\ worker'[w] = e /\ \A v \in Workers : v # w => worker'[v] = worker[v]
<1>1. AuditShapes /\ WorkerInv(w) /\ worker[w] \in WorkerRow
  BY DEF AuditBase, AuditShapes
<1>2. worker' \in [Workers -> WorkerRow] /\ worker'[w] = e /\ \A v \in Workers : v # w => worker'[v] = worker[v]
  BY <1>1, BecomesRow DEF AuditShapes
<1>3. \A v \in Workers : v # w => WorkerInv(v)'
  BY OthersAreSo
<1>4. WorkerInv(w)'
  BY <1>1, <1>2 DEF WorkerInv, OnRun, OnReport
<1>5. AuditShapes'
  BY <1>1, <1>2 DEF AuditShapes
<1>6. RunsApart'
  BY <1>2, ApartStays
<1>7. QED
  BY <1>2, <1>3, <1>4, <1>5, <1>6 DEF AuditBase

\* A request starts a run of its own.
LEMMA BaseAccepts ==
  ASSUME AuditBase, NEW w \in Workers, NEW d \in Fleet \cup {Nothing}, NEW source \in {"live", "upload"},
         _create_running_audit_row(d, source, 0), d \in inFleet \cup {Nothing},
         NEW e \in WorkerRow, Becomes(w, e), e.at \in OnRun, e.report = 0, e.run = Len(runs) + 1, e.kind = source, e.about = d,
         e.begun = 0, e.at = "asked" \/ source = "live" => d \in Fleet, e.at = "judging" => e.got \in Postures,
         UNCHANGED << inFleet, enabled, posture, changedAt, reports, schedule, clock >>,
         auditBudget' \in [requests : Nat, troubles : Nat, crashes : Nat]
  PROVE  /\ AuditBase' /\ worker'[w] = e /\ \A v \in Workers : v # w => worker'[v] = worker[v]
         /\ RunStarts(d, source, 0)
<1>1. AuditShapes /\ WorkerInv(w) /\ worker[w] \in WorkerRow
  BY DEF AuditBase, AuditShapes
<1>2. RunStarts(d, source, 0)
  BY <1>1, RunAdded
<1>3. worker' \in [Workers -> WorkerRow] /\ worker'[w] = e /\ \A v \in Workers : v # w => worker'[v] = worker[v]
  BY <1>1, BecomesRow DEF AuditShapes
<1>4. \A v \in Workers : v # w => WorkerInv(v)'
  BY <1>2, <1>3, OthersWhileRunStarts
<1>5. /\ DOMAIN runs' = DOMAIN runs \cup {Len(runs) + 1} /\ Len(runs') = Len(runs) + 1 /\ Len(runs) \in Nat
      /\ runs'[Len(runs) + 1] = NewRun(d, source, 0) /\ Len(runs) + 1 \notin DOMAIN runs
      /\ \A k \in DOMAIN runs : runs'[k] = runs[k]
  BY <1>1, <1>2 DEF RunStarts, AuditShapes
<1>6. WorkerInv(w)'
  <2>1. /\ runs'[e.run].status = "running" /\ runs'[e.run].report = 0
        /\ runs'[e.run].source = source /\ runs'[e.run].device = d
    BY <1>5 DEF NewRun
  <2>2. e.run \in DOMAIN runs' /\ e.run <= Len(runs') /\ e.begun <= clock'
    BY <1>1, <1>5 DEF AuditShapes
  <2>3. QED
    BY <1>3, <2>1, <2>2 DEF WorkerInv, OnRun, OnReport
<1>7. AuditShapes'
  <2>1. \A k \in DOMAIN runs' : runs'[k].report <= Len(reports')
    <3>1. Len(reports) \in Nat
      BY <1>1 DEF AuditShapes
    <3>2. QED
      BY <1>1, <1>5, <3>1, RunsTyped DEF NewRun
  <2>2. \A x \in Fleet : changedAt'[x] <= Len(runs')
    BY <1>1, <1>5 DEF AuditShapes
  <2>3. runs' \in Seq(RunRow)
    BY <1>2 DEF RunStarts
  <2>4. QED
    BY <1>1, <1>3, <2>1, <2>2, <2>3 DEF AuditShapes
<1>8. RunsApart'
  BY <1>3, <1>5, ApartStays
<1>9. QED
  BY <1>2, <1>3, <1>4, <1>6, <1>7, <1>8 DEF AuditBase

-----------------------------------------------------------------------------
(* What a report counts.                                                   *)

Marked(n, status) == { k \in DOMAIN runs : runs[k].report = n /\ runs[k].status = status }
RunStatuses == {"running", "completed", "failed"}

\* The worker of a report has counted the runs that are over, and each device that is not left to do has one.
Reporting(w) == worker[w].at \in OnReport /\ worker[w].report # 0
OpenReportInv(w) == Reporting(w) =>
  LET me == worker[w]
      r == reports[me.report] IN
  /\ me.report \in DOMAIN reports
  /\ r.status = "running" /\ r.total = Cardinality(me.selected) /\ r.selected = me.selected
  /\ r.kind = me.kind /\ r.begun = me.begun
  /\ me.todo \subseteq me.selected
  /\ Cardinality(Marked(me.report, "completed")) = me.ok /\ Cardinality(Marked(me.report, "failed")) = me.bad
  /\ Marked(me.report, "running") = (IF me.at \in OnRun THEN {me.run} ELSE {})
  /\ me.ok + me.bad + Cardinality(me.todo) + (IF me.at \in OnRun THEN 1 ELSE 0) = Cardinality(me.selected)
  /\ \A k \in DOMAIN runs : runs[k].report = me.report => runs[k].device \notin me.todo

ClosedInv(n) == reports[n].status # "running" =>
  LET r == reports[n] IN
  /\ Cardinality(Marked(n, "completed")) = r.ok /\ Cardinality(Marked(n, "failed")) = r.bad /\ Marked(n, "running") = {}
  /\ r.ok + r.bad = r.total /\ r.total = Cardinality(r.selected)
  /\ r.status = ScheduledAuditResult(r.total, r.ok)

DevicesInv ==
  /\ \A k \in DOMAIN runs : runs[k].report # 0 => runs[k].device \in reports[runs[k].report].selected \cup {Nothing}
  /\ \A k, l \in DOMAIN runs : k # l /\ runs[k].report # 0 /\ runs[k].report = runs[l].report /\ runs[k].device # Nothing
                                 => runs[k].device # runs[l].device

ReportInv ==
  /\ \A i, j \in DOMAIN reports : reports[i].number = reports[j].number => i = j
  /\ \A w \in Workers : OpenReportInv(w)
  /\ \A n \in DOMAIN reports : ClosedInv(n)
  /\ \A v, w \in Workers : v # w /\ Reporting(v) /\ Reporting(w) => worker[v].report # worker[w].report
  /\ DevicesInv

LEMMA MarkedFinite ==
  ASSUME AuditShapes, NEW n, NEW status
  PROVE  IsFiniteSet(Marked(n, status)) /\ Cardinality(Marked(n, status)) \in Nat
<1>1. DOMAIN runs = 1 .. Len(runs) /\ Len(runs) \in Nat
  BY DEF AuditShapes
<1>2. IsFiniteSet(DOMAIN runs)
  BY <1>1, FS_Interval
<1>3. Marked(n, status) \in SUBSET DOMAIN runs
  BY DEF Marked
<1>4. QED
  BY <1>2, <1>3, FS_Subset, FS_CardinalityType

LEMMA MarkedStarts ==
  ASSUME AuditShapes, NEW d, NEW source, NEW m, RunStarts(d, source, m), NEW n, NEW status
  PROVE  Marked(n, status)' = IF n = m /\ status = "running" THEN Marked(n, status) \cup {Len(runs) + 1} ELSE Marked(n, status)
<1>1. runs'[Len(runs) + 1].report = m /\ runs'[Len(runs) + 1].status = "running"
  BY DEF RunStarts, NewRun
<1>2. /\ DOMAIN runs' = DOMAIN runs \cup {Len(runs) + 1} /\ Len(runs) + 1 \notin DOMAIN runs
      /\ \A k \in DOMAIN runs : runs'[k] = runs[k]
  BY DEF RunStarts
<1>3. QED
  BY <1>1, <1>2 DEF Marked

LEMMA MarkedEnds ==
  ASSUME AuditShapes, NEW r \in DOMAIN runs, runs[r].status = "running",
         NEW s \in {"completed", "failed"}, NEW read, RunEnds(r, s, read), NEW n, NEW status
  PROVE  Marked(n, status)' = IF n = runs[r].report /\ status = s THEN Marked(n, status) \cup {r}
                              ELSE IF n = runs[r].report /\ status = "running" THEN Marked(n, status) \ {r}
                              ELSE Marked(n, status)
BY DEF Marked, RunEnds

\* Nothing that a report counts changes, except that devices may be removed.
Steady(n) ==
  /\ \A status \in RunStatuses : Marked(n, status)' = Marked(n, status)
  /\ reports'[n] = reports[n] /\ n \in DOMAIN reports'
  /\ \A k \in DOMAIN runs' : runs'[k].report = n =>
       k \in DOMAIN runs /\ runs[k].report = n /\ runs'[k].device \in {runs[k].device, Nothing}

LEMMA SteadySame ==
  ASSUME NEW n \in DOMAIN reports, UNCHANGED <<runs, reports>>
  PROVE  Steady(n)
BY DEF Steady, Marked

LEMMA SteadyStarts ==
  ASSUME AuditShapes, NEW d, NEW source, NEW m, RunStarts(d, source, m), UNCHANGED reports,
         NEW n \in DOMAIN reports, n # m
  PROVE  Steady(n)
<1>1. \A status \in RunStatuses : Marked(n, status)' = Marked(n, status)
  BY MarkedStarts
<1>2. runs'[Len(runs) + 1].report = m
  BY DEF RunStarts, NewRun
<1>3. QED
  BY <1>1, <1>2 DEF Steady, RunStarts

LEMMA SteadyEnds ==
  ASSUME AuditShapes, NEW r \in DOMAIN runs, runs[r].status = "running",
         NEW s \in {"completed", "failed"}, NEW read, RunEnds(r, s, read), UNCHANGED reports,
         NEW n \in DOMAIN reports, n # runs[r].report
  PROVE  Steady(n)
<1>1. \A status \in RunStatuses : Marked(n, status)' = Marked(n, status)
  BY MarkedEnds
<1>2. QED
  BY <1>1 DEF Steady, RunEnds

LEMMA OpenStays ==
  ASSUME AuditShapes, NEW v \in Workers, OpenReportInv(v), worker'[v] = worker[v], Reporting(v) => Steady(worker[v].report)
  PROVE  OpenReportInv(v)'
<1> SUFFICES ASSUME Reporting(v) PROVE OpenReportInv(v)'
  <2>1. Reporting(v)' => Reporting(v)
    BY DEF Reporting
  <2>2. QED
    BY <2>1 DEF OpenReportInv
<1> DEFINE me == worker[v]
<1>1. worker'[v] = me /\ Steady(me.report) /\ me.todo \subseteq Fleet
  BY DEF AuditShapes, WorkerRow
<1>2. /\ Marked(me.report, "completed")' = Marked(me.report, "completed")
      /\ Marked(me.report, "failed")' = Marked(me.report, "failed")
      /\ Marked(me.report, "running")' = Marked(me.report, "running")
  BY <1>1 DEF Steady, RunStatuses
<1>3. \A k \in DOMAIN runs' : runs'[k].report = me.report => runs'[k].device \notin me.todo
  BY <1>1, NothingAssumption DEF Steady, OpenReportInv
<1>4. reports'[me.report] = reports[me.report] /\ me.report \in DOMAIN reports'
  BY <1>1 DEF Steady
<1>5. QED
  BY <1>1, <1>2, <1>3, <1>4 DEF OpenReportInv

LEMMA ClosedStays ==
  ASSUME NEW n, ClosedInv(n), Steady(n)
  PROVE  ClosedInv(n)'
<1>1. /\ Marked(n, "completed")' = Marked(n, "completed") /\ Marked(n, "failed")' = Marked(n, "failed")
      /\ Marked(n, "running")' = Marked(n, "running") /\ reports'[n] = reports[n]
  BY DEF Steady, RunStatuses
<1>2. QED
  BY <1>1 DEF ClosedInv

\* While one worker is busy, the others and their reports stay as they are.
LEMMA OtherReports ==
  ASSUME AuditShapes, ReportInv, NEW w \in Workers, \A v \in Workers : v # w => worker'[v] = worker[v],
         NEW m, \A n \in DOMAIN reports : n # m => Steady(n), \A v \in Workers : v # w /\ Reporting(v) => worker[v].report # m
  PROVE  /\ \A v \in Workers : v # w => OpenReportInv(v)'
         /\ \A n \in DOMAIN reports : n # m => ClosedInv(n)'
<1>1. ASSUME NEW v \in Workers, v # w PROVE OpenReportInv(v)'
  <2>1. OpenReportInv(v) /\ worker'[v] = worker[v]
    BY <1>1 DEF ReportInv
  <2>2. Reporting(v) => Steady(worker[v].report)
    BY <1>1, <2>1 DEF OpenReportInv
  <2>3. QED
    BY <2>1, <2>2, OpenStays
<1>2. \A n \in DOMAIN reports : n # m => ClosedInv(n)'
  BY ClosedStays DEF ReportInv
<1>3. QED
  BY <1>1, <1>2

\* Workers move and the tables stay: whoever is busy was so with the same report.
LEMMA ReportsMove ==
  ASSUME AuditShapes, ReportInv, UNCHANGED <<runs, reports>>,
         \A v \in Workers : Reporting(v)' => Reporting(v) /\ worker'[v].report = worker[v].report,
         \A v \in Workers : OpenReportInv(v)'
  PROVE  ReportInv'
<1>1. \A n \in DOMAIN reports' : ClosedInv(n)'
  BY SteadySame, ClosedStays DEF ReportInv
<1>2. \A v, w \in Workers : v # w /\ Reporting(v)' /\ Reporting(w)' => worker'[v].report # worker'[w].report
  BY DEF ReportInv
<1>3. DevicesInv'
  BY DEF ReportInv, DevicesInv
<1>4. QED
  BY <1>1, <1>2, <1>3 DEF ReportInv

\* A device that is next gets a run of its own in the report.
LEMMA ReportsStart ==
  ASSUME AuditBase, ReportInv, NEW w \in Workers, Reporting(w), worker[w].at = "next",
         \A v \in Workers : v # w => worker'[v] = worker[v],
         NEW d \in worker[w].todo, RunStarts(d, "scheduled", worker[w].report), UNCHANGED reports,
         worker'[w] = [worker[w] EXCEPT !.at = "asked", !.run = Len(runs) + 1, !.about = d, !.todo = @ \ {d}]
  PROVE  ReportInv'
<1> PICK me, n : me = worker[w] /\ n = worker[w].report
  OBVIOUS
<1>1. AuditShapes /\ me \in WorkerRow /\ OpenReportInv(w) /\ n \in DOMAIN reports /\ n # 0
  BY DEF AuditBase, AuditShapes, ReportInv, OpenReportInv, Reporting
<1>2. /\ worker'[w].at = "asked" /\ worker'[w].run = Len(runs) + 1 /\ worker'[w].todo = me.todo \ {d}
      /\ worker'[w].report = n /\ worker'[w].selected = me.selected /\ worker'[w].kind = me.kind
      /\ worker'[w].begun = me.begun /\ worker'[w].ok = me.ok /\ worker'[w].bad = me.bad
  BY <1>1 DEF WorkerRow
<1>3. /\ \A v \in Workers : v # w => OpenReportInv(v)'
      /\ \A i \in DOMAIN reports : i # n => ClosedInv(i)'
  <2>1. \A i \in DOMAIN reports : i # n => Steady(i)
    BY <1>1, SteadyStarts
  <2>2. \A v \in Workers : v # w /\ Reporting(v) => worker[v].report # n
    BY DEF ReportInv
  <2>3. QED
    BY <1>1, <2>1, <2>2, OtherReports
<1>4. /\ Marked(n, "running")' = Marked(n, "running") \cup {Len(runs) + 1}
      /\ Marked(n, "completed")' = Marked(n, "completed") /\ Marked(n, "failed")' = Marked(n, "failed")
  BY <1>1, MarkedStarts
<1>5. d \in me.selected /\ IsFiniteSet(me.todo) /\ Cardinality(me.todo) \in Nat /\ d # Nothing
      /\ Cardinality(me.todo \ {d}) = Cardinality(me.todo) - 1 /\ me.ok \in Nat /\ me.bad \in Nat
  <2>1. me.todo \in SUBSET Fleet
    BY <1>1 DEF WorkerRow
  <2>2. IsFiniteSet(me.todo) /\ Cardinality(me.todo) \in Nat
    BY <2>1, FleetAssumption, FS_Subset, FS_CardinalityType
  <2>3. Cardinality(me.todo \ {d}) = Cardinality(me.todo) - 1
    BY <2>2, FS_RemoveElement
  <2>4. d \in me.selected /\ d # Nothing
    BY <1>1, <2>1, NothingAssumption DEF OpenReportInv
  <2>5. me.ok \in Nat /\ me.bad \in Nat
    BY <1>1 DEF WorkerRow
  <2>6. QED
    BY <2>2, <2>3, <2>4, <2>5
<1>6. /\ DOMAIN runs' = DOMAIN runs \cup {Len(runs) + 1} /\ Len(runs) + 1 \notin DOMAIN runs
      /\ \A k \in DOMAIN runs : runs'[k] = runs[k]
      /\ runs'[Len(runs) + 1].device = d /\ runs'[Len(runs) + 1].report = n
  BY DEF RunStarts, NewRun
<1>7. OpenReportInv(w)'
  <2>1. Marked(n, "running")' = {Len(runs) + 1}
    BY <1>1, <1>4 DEF OpenReportInv, Reporting, OnRun
  <2>2. me.ok + me.bad + Cardinality(me.todo \ {d}) + 1 = Cardinality(me.selected)
    BY <1>1, <1>5 DEF OpenReportInv, Reporting, OnRun
  <2>3. \A k \in DOMAIN runs' : runs'[k].report = n => runs'[k].device \notin me.todo \ {d}
    BY <1>1, <1>6 DEF OpenReportInv, Reporting
  <2>4. "asked" \in OnRun
    BY DEF OnRun
  <2>5. /\ reports[n].status = "running" /\ reports[n].total = Cardinality(me.selected) /\ reports[n].selected = me.selected
        /\ reports[n].kind = me.kind /\ reports[n].begun = me.begun /\ me.todo \subseteq me.selected
        /\ Cardinality(Marked(n, "completed")) = me.ok /\ Cardinality(Marked(n, "failed")) = me.bad
    BY <1>1 DEF OpenReportInv, Reporting
  <2>6. QED
    BY <1>1, <1>2, <1>4, <2>1, <2>2, <2>3, <2>4, <2>5 DEF OpenReportInv
<1>8. ClosedInv(n)'
  BY <1>1 DEF OpenReportInv, Reporting, ClosedInv
<1>9. DevicesInv'
  <2>1. \A k \in DOMAIN runs : runs[k].report = n => runs[k].device # d
    BY <1>1 DEF OpenReportInv, Reporting
  <2>2. reports[n].selected = me.selected /\ UNCHANGED reports
    BY <1>1 DEF OpenReportInv, Reporting
  <2>3. DevicesInv
    BY DEF ReportInv
  <2>4. \A k \in DOMAIN runs' : runs'[k].report # 0 => runs'[k].device \in reports'[runs'[k].report].selected \cup {Nothing}
    BY <1>5, <1>6, <2>2, <2>3 DEF DevicesInv
  <2>5. \A k, l \in DOMAIN runs' : k # l /\ runs'[k].report # 0 /\ runs'[k].report = runs'[l].report /\ runs'[k].device # Nothing
                                    => runs'[k].device # runs'[l].device
    BY <1>6, <2>1, <2>3 DEF DevicesInv
  <2>6. QED
    BY <2>4, <2>5 DEF DevicesInv
<1>10. \A u, v \in Workers : u # v /\ Reporting(u)' /\ Reporting(v)' => worker'[u].report # worker'[v].report
  <2>1. \A v \in Workers : Reporting(v)' => Reporting(v) /\ worker'[v].report = worker[v].report
    BY <1>2 DEF Reporting
  <2>2. QED
    BY <2>1 DEF ReportInv
<1>11. QED
  BY <1>3, <1>7, <1>8, <1>9, <1>10 DEF ReportInv

\* A run of a report ends; its worker counts it and goes on, or gives the report up.
LEMMA ReportsEnd ==
  ASSUME AuditBase, ReportInv, NEW w \in Workers, worker[w].at \in OnRun,
         \A v \in Workers : v # w => worker'[v] = worker[v],
         NEW s \in {"completed", "failed"}, NEW read, RunEnds(worker[w].run, s, read), UNCHANGED reports,
         \/ worker'[w] = Resting
         \/ /\ Reporting(w)
            /\ worker'[w] = [worker[w] EXCEPT !.at = "next", !.run = 0, !.about = Nothing, !.got = Nothing,
                               !.ok = @ + (IF s = "completed" THEN 1 ELSE 0), !.bad = @ + (IF s = "failed" THEN 1 ELSE 0)]
  PROVE  ReportInv'
<1> PICK me, n, r : me = worker[w] /\ n = worker[w].report /\ r = worker[w].run
  OBVIOUS
<1>1. /\ AuditShapes /\ me \in WorkerRow /\ OpenReportInv(w)
      /\ r \in DOMAIN runs /\ runs[r].status = "running" /\ runs[r].report = n
  BY DEF AuditBase, AuditShapes, ReportInv, WorkerInv
<1>2. /\ \A v \in Workers : v # w => OpenReportInv(v)'
      /\ \A i \in DOMAIN reports : i # n => ClosedInv(i)'
  <2>1. \A i \in DOMAIN reports : i # n => Steady(i)
    BY <1>1, SteadyEnds
  <2>2. \A v \in Workers : v # w /\ Reporting(v) => worker[v].report # n
    <3> SUFFICES ASSUME NEW v \in Workers, v # w, Reporting(v), worker[v].report = n PROVE FALSE
      OBVIOUS
    <3>1. Reporting(w)
      BY DEF Reporting, OnRun, OnReport
    <3>2. QED
      BY <3>1 DEF ReportInv
  <2>3. QED
    BY <1>1, <2>1, <2>2, OtherReports
<1>3. \A status \in RunStatuses : Marked(n, status)' =
         IF status = s THEN Marked(n, status) \cup {r} ELSE IF status = "running" THEN Marked(n, status) \ {r} ELSE Marked(n, status)
  <2>1. RunEnds(r, s, read)
    BY DEF RunEnds
  <2>2. AuditShapes /\ r \in DOMAIN runs /\ runs[r].status = "running" /\ n = runs[r].report
    BY <1>1
  <2>3. TAKE status \in RunStatuses
  <2>4. Marked(n, status)' = IF n = runs[r].report /\ status = s THEN Marked(n, status) \cup {r}
                              ELSE IF n = runs[r].report /\ status = "running" THEN Marked(n, status) \ {r}
                              ELSE Marked(n, status)
    BY <2>1, <2>2 DEF Marked, RunEnds
  <2>5. QED
    BY <2>2, <2>4
<1>4. n # 0 => Reporting(w) /\ n \in DOMAIN reports /\ reports[n].status = "running"
  BY <1>1 DEF Reporting, OnRun, OnReport, OpenReportInv
<1>5. CASE worker'[w] = Resting
  <2>1. ~Reporting(w)'
    BY <1>5 DEF Reporting, Resting, OnReport
  <2>2. OpenReportInv(w)'
    BY <2>1 DEF OpenReportInv
  <2>3. n \in DOMAIN reports => ClosedInv(n)'
    <3>1. n \in DOMAIN reports => n # 0
      BY <1>1, ReportsTyped
    <3>2. QED
      BY <1>4, <3>1 DEF ClosedInv
  <2>4. \A u, v \in Workers : u # v /\ Reporting(u)' /\ Reporting(v)' => worker'[u].report # worker'[v].report
    BY <2>1 DEF ReportInv, Reporting
  <2>5. DevicesInv'
    BY <1>1 DEF ReportInv, DevicesInv, RunEnds
  <2>6. QED
    BY <1>2, <2>2, <2>3, <2>4, <2>5 DEF ReportInv
<1>6. CASE worker'[w] # Resting
  <2>1. /\ worker'[w].at = "next" /\ worker'[w].todo = me.todo
        /\ worker'[w].report = n /\ worker'[w].selected = me.selected /\ worker'[w].kind = me.kind
        /\ worker'[w].begun = me.begun /\ worker'[w].ok = me.ok + (IF s = "completed" THEN 1 ELSE 0)
        /\ worker'[w].bad = me.bad + (IF s = "failed" THEN 1 ELSE 0) /\ Reporting(w)
    BY <1>1, <1>6 DEF WorkerRow
  <2>2. /\ reports[n].status = "running" /\ reports[n].total = Cardinality(me.selected) /\ reports[n].selected = me.selected
        /\ reports[n].kind = me.kind /\ reports[n].begun = me.begun /\ me.todo \subseteq me.selected
        /\ Cardinality(Marked(n, "completed")) = me.ok /\ Cardinality(Marked(n, "failed")) = me.bad
        /\ Marked(n, "running") = {r} /\ n \in DOMAIN reports
        /\ \A k \in DOMAIN runs : runs[k].report = n => runs[k].device \notin me.todo
    BY <1>1, <2>1 DEF OpenReportInv
  <2>3. me.ok + me.bad + Cardinality(me.todo) + 1 = Cardinality(me.selected)
    BY <1>1, <2>1 DEF OpenReportInv
  <2>4. me.ok \in Nat /\ me.bad \in Nat /\ Cardinality(me.todo) \in Nat
    <3>1. me.todo \in SUBSET Fleet
      BY <1>1 DEF WorkerRow
    <3>2. QED
      BY <1>1, <3>1, FleetAssumption, FS_Subset, FS_CardinalityType DEF WorkerRow
  <2>5. r \notin Marked(n, "completed") /\ r \notin Marked(n, "failed")
    BY <1>1 DEF Marked
  <2>6. /\ Cardinality(Marked(n, "completed") \cup {r}) = me.ok + 1
        /\ Cardinality(Marked(n, "failed") \cup {r}) = me.bad + 1
    <3>1. IsFiniteSet(Marked(n, "completed")) /\ IsFiniteSet(Marked(n, "failed"))
      BY <1>1, MarkedFinite
    <3>2. Cardinality(Marked(n, "completed") \cup {r}) = Cardinality(Marked(n, "completed")) + 1
      BY <2>5, <3>1, FS_AddElement
    <3>3. Cardinality(Marked(n, "failed") \cup {r}) = Cardinality(Marked(n, "failed")) + 1
      BY <2>5, <3>1, FS_AddElement
    <3>4. QED
      BY <2>2, <3>2, <3>3
  <2>7. Marked(n, "running")' = {}
    BY <1>3, <2>2 DEF RunStatuses
  <2>8. /\ Cardinality(Marked(n, "completed")') = worker'[w].ok
        /\ Cardinality(Marked(n, "failed")') = worker'[w].bad
    <3>1. CASE s = "completed"
      <4>1. Marked(n, "completed")' = Marked(n, "completed") \cup {r} /\ Marked(n, "failed")' = Marked(n, "failed")
        BY <1>3, <3>1 DEF RunStatuses
      <4>2. worker'[w].ok = me.ok + 1 /\ worker'[w].bad = me.bad
        BY <2>1, <2>4, <3>1
      <4>3. QED
        BY <2>2, <2>6, <4>1, <4>2
    <3>2. CASE s = "failed"
      <4>1. Marked(n, "failed")' = Marked(n, "failed") \cup {r} /\ Marked(n, "completed")' = Marked(n, "completed")
        BY <1>3, <3>2 DEF RunStatuses
      <4>2. worker'[w].bad = me.bad + 1 /\ worker'[w].ok = me.ok
        BY <2>1, <2>4, <3>2
      <4>3. QED
        BY <2>2, <2>6, <4>1, <4>2
    <3>3. QED
      BY <3>1, <3>2
  <2>9. worker'[w].ok + worker'[w].bad + Cardinality(me.todo) = Cardinality(me.selected)
        /\ worker'[w].ok \in Nat /\ worker'[w].bad \in Nat
    BY <2>1, <2>3, <2>4
  <2>10. \A k \in DOMAIN runs' : runs'[k].report = n => runs'[k].device \notin me.todo
    BY <1>1, <2>2 DEF RunEnds
  <2>11. "next" \notin OnRun
    BY DEF OnRun
  <2>12. OpenReportInv(w)'
    <3>1. worker'[w].ok + worker'[w].bad + Cardinality(me.todo) + 0 = Cardinality(me.selected)
      BY <2>4, <2>9
    <3>2. QED
      BY <2>1, <2>2, <2>7, <2>8, <2>10, <2>11, <3>1 DEF OpenReportInv
  <2>13. ClosedInv(n)'
    BY <2>2 DEF ClosedInv
  <2>14. DevicesInv'
    BY <1>1 DEF ReportInv, DevicesInv, RunEnds
  <2>15. \A u, v \in Workers : u # v /\ Reporting(u)' /\ Reporting(v)' => worker'[u].report # worker'[v].report
    BY <2>1 DEF ReportInv, Reporting
  <2>16. QED
    BY <1>2, <2>12, <2>13, <2>14, <2>15 DEF ReportInv
<1>7. QED
  BY <1>5, <1>6

\* A live audit or an uploaded text has no report.
LEMMA ReportsApartFromLive ==
  ASSUME AuditBase, ReportInv, NEW w \in Workers, ~Reporting(w), worker'[w].report = 0,
         \A v \in Workers : v # w => worker'[v] = worker[v],
         NEW d, NEW source, RunStarts(d, source, 0), UNCHANGED reports
  PROVE  ReportInv'
<1>1. AuditShapes
  BY DEF AuditBase
<1>2. \A n \in DOMAIN reports : n # 0
  BY <1>1, ReportsTyped
<1>3. /\ \A v \in Workers : v # w => OpenReportInv(v)'
      /\ \A i \in DOMAIN reports : i # 0 => ClosedInv(i)'
  <2>1. \A i \in DOMAIN reports : i # 0 => Steady(i)
    BY <1>1, SteadyStarts
  <2>2. \A v \in Workers : v # w /\ Reporting(v) => worker[v].report # 0
    BY DEF Reporting
  <2>3. QED
    BY <1>1, <2>1, <2>2, OtherReports
<1>4. ~Reporting(w)' /\ OpenReportInv(w)'
  BY DEF Reporting, OpenReportInv
<1>5. \A u, v \in Workers : u # v /\ Reporting(u)' /\ Reporting(v)' => worker'[u].report # worker'[v].report
  BY <1>4 DEF ReportInv, Reporting
<1>6. DevicesInv'
  <2>1. runs'[Len(runs) + 1].report = 0
    BY DEF RunStarts, NewRun
  <2>2. QED
    BY <2>1 DEF ReportInv, DevicesInv, RunStarts
<1>7. QED
  BY <1>2, <1>3, <1>4, <1>5, <1>6 DEF ReportInv

\* A report is inserted: it counts nothing yet.
LEMMA ReportsBegin ==
  ASSUME AuditBase, ReportInv, NEW w \in Workers, ~Reporting(w), worker[w].todo = worker[w].selected,
         worker[w].ok = 0, worker[w].bad = 0, \A v \in Workers : v # w => worker'[v] = worker[v],
         \A i \in DOMAIN reports : reports[i].number # worker[w].report,
         ReportBegins([number |-> worker[w].report, status |-> "running", total |-> Cardinality(worker[w].selected),
                       ok |-> 0, bad |-> 0, selected |-> worker[w].selected, begun |-> worker[w].begun,
                       kind |-> worker[w].kind]),
         UNCHANGED runs, worker'[w] = [worker[w] EXCEPT !.at = "next", !.report = Len(reports) + 1]
  PROVE  ReportInv'
<1> PICK me, n : me = worker[w] /\ n = Len(reports) + 1
  OBVIOUS
<1>1. AuditShapes /\ me \in WorkerRow
  BY DEF AuditBase, AuditShapes
<1>2. /\ worker'[w].at = "next" /\ worker'[w].todo = me.todo
      /\ worker'[w].report = n /\ worker'[w].selected = me.selected /\ worker'[w].kind = me.kind
      /\ worker'[w].begun = me.begun /\ worker'[w].ok = 0 /\ worker'[w].bad = 0
  BY <1>1 DEF WorkerRow
<1>3. /\ DOMAIN reports' = DOMAIN reports \cup {n} /\ n \notin DOMAIN reports
      /\ \A i \in DOMAIN reports : reports'[i] = reports[i]
      /\ reports'[n].number = me.report /\ reports'[n].status = "running" /\ reports'[n].total = Cardinality(me.selected)
      /\ reports'[n].selected = me.selected /\ reports'[n].begun = me.begun /\ reports'[n].kind = me.kind
  BY DEF ReportBegins
<1>4. /\ \A v \in Workers : v # w => OpenReportInv(v)'
      /\ \A i \in DOMAIN reports : i # n => ClosedInv(i)'
  <2>1. \A i \in DOMAIN reports : i # n => Steady(i)
    BY <1>3 DEF Steady, Marked
  <2>2. \A v \in Workers : v # w /\ Reporting(v) => worker[v].report # n
    BY <1>3 DEF ReportInv, OpenReportInv
  <2>3. QED
    BY <1>1, <2>1, <2>2, OtherReports
<1>5. \A k \in DOMAIN runs : runs[k].report # n
  <2>1. \A k \in DOMAIN runs : runs[k].report \in Nat /\ runs[k].report <= Len(reports) /\ Len(reports) \in Nat
    BY <1>1, RunsTyped DEF AuditShapes
  <2>2. QED
    BY <2>1
<1>6. OpenReportInv(w)'
  <2>1. Marked(n, "running")' = {} /\ Marked(n, "completed")' = {} /\ Marked(n, "failed")' = {}
    BY <1>5 DEF Marked
  <2>2. Cardinality({}) = 0 /\ "next" \notin OnRun
    BY FS_EmptySet DEF OnRun
  <2>3. Cardinality(me.todo) \in Nat /\ 0 + 0 + Cardinality(me.todo) + 0 = Cardinality(me.selected)
    <3>1. me.todo \in SUBSET Fleet
      BY <1>1 DEF WorkerRow
    <3>2. QED
      BY <1>1, <3>1, FleetAssumption, FS_Subset, FS_CardinalityType
  <2>4. \A k \in DOMAIN runs' : runs'[k].report # n
    BY <1>5
  <2>5. me.todo = me.selected /\ n \in DOMAIN reports'
    BY <1>3
  <2>6. QED
    BY <1>2, <1>3, <2>1, <2>2, <2>3, <2>4, <2>5 DEF OpenReportInv
<1>7. ClosedInv(n)'
  BY <1>3 DEF ClosedInv
<1>8. DevicesInv'
  <2>1. \A k \in DOMAIN runs : runs[k].report # 0 => runs[k].report \in DOMAIN reports
    <3>1. \A k \in DOMAIN runs : runs[k].report \in Nat /\ runs[k].report <= Len(reports)
      BY <1>1, RunsTyped
    <3>2. DOMAIN reports = 1 .. Len(reports) /\ Len(reports) \in Nat
      BY <1>1 DEF AuditShapes
    <3>3. QED
      BY <3>1, <3>2
  <2>2. QED
    BY <1>3, <2>1 DEF ReportInv, DevicesInv
<1>9. \A u, v \in Workers : u # v /\ Reporting(u)' /\ Reporting(v)' => worker'[u].report # worker'[v].report
  <2>1. \A v \in Workers : v # w /\ Reporting(v) => worker[v].report # n
    BY <1>3 DEF ReportInv, OpenReportInv
  <2>2. \A v \in Workers : v # w /\ Reporting(v)' => Reporting(v) /\ worker'[v].report = worker[v].report
    BY DEF Reporting
  <2>3. \A u, v \in Workers : u # v /\ Reporting(u) /\ Reporting(v) => worker[u].report # worker[v].report
    BY DEF ReportInv
  <2>4. worker'[w].report = n
    BY <1>2
  <2>5. SUFFICES ASSUME NEW u \in Workers, NEW v \in Workers, u # v, Reporting(u)', Reporting(v)'
                 PROVE  worker'[u].report # worker'[v].report
    OBVIOUS
  <2>6. CASE u = w
    BY <2>1, <2>2, <2>4, <2>5, <2>6
  <2>7. CASE v = w
    BY <2>1, <2>2, <2>4, <2>5, <2>7
  <2>8. CASE u # w /\ v # w
    BY <2>2, <2>3, <2>5, <2>8
  <2>9. QED
    BY <2>6, <2>7, <2>8
<1>10. \A i, j \in DOMAIN reports' : reports'[i].number = reports'[j].number => i = j
  BY <1>3 DEF ReportInv
<1>11. QED
  BY <1>3, <1>4, <1>6, <1>7, <1>8, <1>9, <1>10 DEF ReportInv

\* A report whose devices are all done is closed.
LEMMA ReportsClose ==
  ASSUME AuditBase, ReportInv, NEW w \in Workers, Reporting(w), worker[w].at = "next", worker[w].todo = {},
         \A v \in Workers : v # w => worker'[v] = worker[v],
         NEW row, ReportEnds(worker[w].report, row), row.number = reports[worker[w].report].number,
         row.selected = worker[w].selected, row.total = Cardinality(worker[w].selected),
         row.ok = worker[w].ok, row.bad = worker[w].bad, row.status = ScheduledAuditResult(row.total, row.ok),
         UNCHANGED runs, ~Reporting(w)'
  PROVE  ReportInv'
<1> PICK me, n : me = worker[w] /\ n = worker[w].report
  OBVIOUS
<1>1. AuditShapes /\ me \in WorkerRow /\ OpenReportInv(w) /\ n \in DOMAIN reports
  BY DEF AuditBase, AuditShapes, ReportInv, OpenReportInv
<1>2. DOMAIN reports' = DOMAIN reports /\ (\A i \in DOMAIN reports : i # n => reports'[i] = reports[i]) /\ reports'[n] = row
  BY DEF ReportEnds
<1>3. /\ \A v \in Workers : v # w => OpenReportInv(v)'
      /\ \A i \in DOMAIN reports : i # n => ClosedInv(i)'
  <2>1. \A i \in DOMAIN reports : i # n => Steady(i)
    BY <1>2 DEF Steady, Marked
  <2>2. \A v \in Workers : v # w /\ Reporting(v) => worker[v].report # n
    BY DEF ReportInv
  <2>3. QED
    BY <1>1, <2>1, <2>2, OtherReports
<1>4. OpenReportInv(w)'
  BY DEF OpenReportInv
<1>5. ClosedInv(n)'
  <2>1. Marked(n, "completed")' = Marked(n, "completed") /\ Marked(n, "failed")' = Marked(n, "failed")
        /\ Marked(n, "running")' = Marked(n, "running")
    BY DEF Marked
  <2>2. Cardinality(Marked(n, "completed")) = me.ok /\ Cardinality(Marked(n, "failed")) = me.bad /\ Marked(n, "running") = {}
    BY <1>1 DEF OpenReportInv, OnRun
  <2>3. me.ok + me.bad = Cardinality(me.selected)
    <3>1. me.ok \in Nat /\ me.bad \in Nat /\ Cardinality(me.todo) = 0
      BY <1>1, FS_EmptySet DEF WorkerRow
    <3>2. me.ok + me.bad + Cardinality(me.todo) + 0 = Cardinality(me.selected)
      BY <1>1 DEF OpenReportInv, OnRun
    <3>3. QED
      BY <3>1, <3>2
  <2>4. QED
    BY <1>2, <2>1, <2>2, <2>3 DEF ClosedInv
<1>6. DevicesInv'
  <2>1. \A i \in DOMAIN reports : reports'[i].selected = reports[i].selected
    BY <1>1, <1>2 DEF OpenReportInv
  <2>2. \A k \in DOMAIN runs : runs[k].report # 0 => runs[k].report \in DOMAIN reports
    <3>1. \A k \in DOMAIN runs : runs[k].report \in Nat /\ runs[k].report <= Len(reports)
      BY <1>1, RunsTyped
    <3>2. DOMAIN reports = 1 .. Len(reports) /\ Len(reports) \in Nat
      BY <1>1 DEF AuditShapes
    <3>3. QED
      BY <3>1, <3>2
  <2>3. QED
    BY <2>1, <2>2 DEF ReportInv, DevicesInv
<1>7. \A u, v \in Workers : u # v /\ Reporting(u)' /\ Reporting(v)' => worker'[u].report # worker'[v].report
  BY DEF ReportInv, Reporting
<1>8. \A i, j \in DOMAIN reports' : reports'[i].number = reports'[j].number => i = j
  <2>1. \A i \in DOMAIN reports : reports'[i].number = reports[i].number
    BY <1>2
  <2>2. QED
    BY <1>2, <2>1 DEF ReportInv
<1>9. QED
  BY <1>2, <1>3, <1>4, <1>5, <1>6, <1>7, <1>8 DEF ReportInv

\* A device is removed from every run.
LEMMA ReportsRemove ==
  ASSUME AuditShapes, ReportInv, UNCHANGED <<reports, worker>>, NEW d,
         runs' = [i \in DOMAIN runs |-> IF runs[i].device = d THEN [runs[i] EXCEPT !.device = Nothing] ELSE runs[i]]
  PROVE  ReportInv'
<1>1. /\ DOMAIN runs' = DOMAIN runs
      /\ \A k \in DOMAIN runs : /\ runs'[k].report = runs[k].report /\ runs'[k].status = runs[k].status
                                /\ runs'[k].device \in {runs[k].device, Nothing}
  <2>1. \A k \in DOMAIN runs : runs[k] \in RunRow
    BY RunsTyped
  <2>2. QED
    BY <2>1 DEF RunRow
<1>2. \A n \in DOMAIN reports : Steady(n)
  BY <1>1 DEF Steady, Marked
<1>3. \A v \in Workers : OpenReportInv(v)'
  <2>1. ASSUME NEW v \in Workers PROVE OpenReportInv(v)'
    <3>1. OpenReportInv(v) /\ worker'[v] = worker[v]
      BY DEF ReportInv
    <3>2. Reporting(v) => Steady(worker[v].report)
      BY <1>2, <3>1 DEF OpenReportInv
    <3>3. QED
      BY <3>1, <3>2, OpenStays
  <2>2. QED
    BY <2>1
<1>4. \A n \in DOMAIN reports' : ClosedInv(n)'
  BY <1>2, ClosedStays DEF ReportInv
<1>5. DevicesInv'
  <2>1. DevicesInv
    BY DEF ReportInv
  <2>2. QED
    BY <1>1, <2>1 DEF DevicesInv
<1>6. \A u, v \in Workers : u # v /\ Reporting(u)' /\ Reporting(v)' => worker'[u].report # worker'[v].report
  BY DEF ReportInv, Reporting
<1>7. QED
  BY <1>3, <1>4, <1>5, <1>6 DEF ReportInv

-----------------------------------------------------------------------------
(* What a run has read is what the device was, from its last change on.    *)

PostureInv ==
  /\ \A k \in DOMAIN runs : runs[k].device \in inFleet \cup {Nothing}
  /\ \A k \in DOMAIN runs :
       runs[k].status = "completed" /\ runs[k].source # "upload" /\ runs[k].device # Nothing /\ k > changedAt[runs[k].device]
         => runs[k].read = posture[runs[k].device]
  /\ \A w \in Workers :
       worker[w].at = "judging" /\ worker[w].kind # "upload" /\ worker[w].about \in inFleet
         /\ worker[w].run > changedAt[worker[w].about]
         => worker[w].got = posture[worker[w].about]

LEMMA PostureStarts ==
  ASSUME AuditBase, PostureInv, NEW d \in inFleet \cup {Nothing}, NEW source, NEW n, RunStarts(d, source, n),
         UNCHANGED <<inFleet, changedAt, posture>>, NEW w \in Workers,
         \A v \in Workers : v # w => worker'[v] = worker[v],
         worker'[w].at = "judging" => worker'[w].kind = "upload"
  PROVE  PostureInv'
<1>1. /\ DOMAIN runs' = DOMAIN runs \cup {Len(runs) + 1}
      /\ \A k \in DOMAIN runs : runs'[k] = runs[k]
      /\ runs'[Len(runs) + 1].device = d /\ runs'[Len(runs) + 1].status = "running"
  BY DEF RunStarts, NewRun
<1>2. QED
  BY <1>1 DEF PostureInv

LEMMA PostureEnds ==
  ASSUME AuditBase, PostureInv, NEW w \in Workers, worker[w].at \in OnRun,
         NEW s \in {"completed", "failed"}, NEW read, RunEnds(worker[w].run, s, read),
         s = "completed" => worker[w].at = "judging" /\ worker[w].about \in inFleet \cup {Nothing} /\ read = worker[w].got,
         UNCHANGED <<inFleet, changedAt, posture>>,
         \A v \in Workers : v # w => worker'[v] = worker[v], worker'[w].at # "judging"
  PROVE  PostureInv'
<1> PICK r : r = worker[w].run
  OBVIOUS
<1>1. /\ DOMAIN runs' = DOMAIN runs /\ r \in DOMAIN runs
      /\ \A k \in DOMAIN runs : k # r => runs'[k] = runs[k]
      /\ runs'[r].device = runs[r].device /\ runs'[r].source = runs[r].source
      /\ runs'[r].status = s /\ runs'[r].read = read
  BY DEF RunEnds, AuditBase, WorkerInv
<1>2. runs[r].source = "upload" <=> worker[w].kind = "upload"
  BY DEF AuditBase, WorkerInv
<1>3. /\ worker[w].about \in inFleet => runs[r].device = worker[w].about
      /\ runs[r].device \in inFleet \cup {Nothing}
  BY <1>1 DEF AuditBase, WorkerInv, PostureInv
<1>4. worker[w].kind # "upload" => worker[w].about \in Fleet /\ worker[w].about # Nothing
  BY NothingAssumption DEF AuditBase, WorkerInv
<1>5. \A k \in DOMAIN runs' : runs'[k].device \in inFleet' \cup {Nothing}
  BY <1>1, <1>3 DEF PostureInv
<1>6. s = "completed" /\ runs'[r].source # "upload" /\ runs'[r].device # Nothing /\ r > changedAt'[runs'[r].device]
        => runs'[r].read = posture'[runs'[r].device]
  BY <1>1, <1>2, <1>3, <1>4 DEF PostureInv
<1>7. \A k \in DOMAIN runs' :
        runs'[k].status = "completed" /\ runs'[k].source # "upload" /\ runs'[k].device # Nothing
          /\ k > changedAt'[runs'[k].device] => runs'[k].read = posture'[runs'[k].device]
  BY <1>1, <1>6 DEF PostureInv
<1>8. \A v \in Workers :
       worker'[v].at = "judging" /\ worker'[v].kind # "upload" /\ worker'[v].about \in inFleet'
         /\ worker'[v].run > changedAt'[worker'[v].about]
         => worker'[v].got = posture'[worker'[v].about]
  BY DEF PostureInv
<1>9. QED
  BY <1>5, <1>7, <1>8 DEF PostureInv

-----------------------------------------------------------------------------
(* The daily audit.                                                        *)

\* A day's audit is written down, or about to be; or it is being made.
Dailies(day) == { i \in DOMAIN reports : reports[i].kind = "daily" /\ reports[i].status # "running"
                                         /\ Day(reports[i].begun) = day }
AtWork == {"numbered", "next", "asked", "judging"}
Marking(day) == \E w \in Workers : worker[w].at = "marking" /\ worker[w].kind = "daily" /\ Day(worker[w].begun) = day
Attended(day) == \E w \in Workers : worker[w].at \in AtWork /\ worker[w].kind = "daily" /\ Day(worker[w].begun) = day
Covered(day) == Day(schedule.last) >= day \/ Marking(day)

DailyInv(day) ==
  /\ Cardinality(Dailies(day)) <= 1 + auditBudget.crashes
  /\ Covered(day) \/ Cardinality(Dailies(day)) <= auditBudget.crashes
  /\ Attended(day) => Cardinality(Dailies(day)) <= auditBudget.crashes

LEMMA DaysFollow ==
  ASSUME NEW a \in Nat, NEW b \in Nat, a <= b
  PROVE  Day(a) \in Nat /\ Day(b) \in Nat /\ Day(a) <= Day(b)
BY DEF Day

LEMMA DailiesFinite ==
  ASSUME AuditShapes, NEW day
  PROVE  IsFiniteSet(Dailies(day)) /\ Cardinality(Dailies(day)) \in Nat
<1>1. DOMAIN reports = 1 .. Len(reports) /\ Len(reports) \in Nat
  BY DEF AuditShapes
<1>2. IsFiniteSet(DOMAIN reports)
  BY <1>1, FS_Interval
<1>3. Dailies(day) \in SUBSET DOMAIN reports
  BY DEF Dailies
<1>4. QED
  BY <1>2, <1>3, FS_Subset, FS_CardinalityType

LEMMA DailyStays ==
  ASSUME NEW day \in Nat, DailyInv(day), Dailies(day)' = Dailies(day), auditBudget'.crashes = auditBudget.crashes,
         Covered(day) => Covered(day)', Attended(day)' => Attended(day)
  PROVE  DailyInv(day)'
BY DEF DailyInv

\* A worker moves on that neither finishes a day's audit nor begins one.
LEMMA DailyMoves ==
  ASSUME \A day \in Nat : DailyInv(day), \A day \in Nat : Dailies(day)' = Dailies(day),
         NEW w \in Workers, \A v \in Workers : v # w => worker'[v] = worker[v],
         worker[w].at # "marking", UNCHANGED schedule, auditBudget'.crashes = auditBudget.crashes,
         worker'[w].at \in AtWork /\ worker'[w].kind = "daily" =>
           worker[w].at \in AtWork /\ worker[w].kind = "daily" /\ worker'[w].begun = worker[w].begun
  PROVE  \A day \in Nat : DailyInv(day)'
<1> TAKE day \in Nat
<1>1. Covered(day) => Covered(day)'
  BY DEF Covered, Marking
<1>2. Attended(day)' => Attended(day)
  BY DEF Attended
<1>3. QED
  BY <1>1, <1>2, DailyStays

LEMMA DailyBegins ==
  ASSUME AuditBase, \A day \in Nat : DailyInv(day), worker[Scheduler].at = "resting", should_run_now(schedule.last, clock),
         \A v \in Workers : v # Scheduler => worker'[v] = worker[v],
         worker'[Scheduler].at = "numbered", worker'[Scheduler].begun = clock,
         UNCHANGED <<reports, schedule, auditBudget, clock>>
  PROVE  \A day \in Nat : DailyInv(day)'
<1> TAKE day \in Nat
<1>1. Dailies(day)' = Dailies(day) /\ DailyInv(day)
  BY DEF Dailies
<1>2. Covered(day) => Covered(day)'
  BY DEF Covered, Marking, Workers
<1>3. CASE day # Day(clock)
  <2>1. Attended(day)' => Attended(day)
    BY <1>3 DEF Attended, Workers
  <2>2. QED
    BY <1>1, <1>2, <2>1, DailyStays
<1>4. CASE day = Day(clock)
  <2>1. Day(schedule.last) # day /\ Day(schedule.last) <= day /\ Day(schedule.last) \in Nat
    BY <1>4, DaysFollow DEF should_run_now, AuditBase, AuditShapes
  <2>2. ~(Day(schedule.last) >= day)
    BY <2>1
  <2>3. ~Marking(day)
    BY DEF Marking, AuditBase, WorkerInv
  <2>4. Cardinality(Dailies(day)) <= auditBudget.crashes /\ Cardinality(Dailies(day)) <= 1 + auditBudget.crashes
    BY <1>1, <2>2, <2>3 DEF DailyInv, Covered
  <2>5. QED
    BY <1>1, <2>4 DEF DailyInv
<1>5. QED
  BY <1>3, <1>4

LEMMA DailyMarked ==
  ASSUME AuditBase, \A day \in Nat : DailyInv(day), NEW w \in Workers, worker[w].at = "marking",
         \A v \in Workers : v # w => worker'[v] = worker[v], worker'[w] = Resting,
         schedule'.last = clock, UNCHANGED <<reports, auditBudget, clock>>
  PROVE  \A day \in Nat : DailyInv(day)'
<1> TAKE day \in Nat
<1>1. Dailies(day)' = Dailies(day) /\ DailyInv(day)
  BY DEF Dailies
<1>2. Covered(day) => Covered(day)'
  <2>1. CASE Day(schedule.last) >= day
    <3>1. Day(schedule.last) <= Day(clock) /\ Day(schedule.last) \in Nat /\ Day(clock) \in Nat
      BY DaysFollow DEF AuditBase, AuditShapes
    <3>2. Day(schedule'.last) >= day
      BY <2>1, <3>1
    <3>3. QED
      BY <3>2 DEF Covered
  <2>2. CASE Marking(day)
    <3>1. PICK v \in Workers : worker[v].at = "marking" /\ worker[v].kind = "daily" /\ Day(worker[v].begun) = day
      BY <2>2 DEF Marking
    <3>2. CASE v = w
      <4>1. worker[w].begun \in Nat /\ clock \in Nat /\ worker[w].begun <= clock
        <5>1. worker[w] \in WorkerRow /\ clock \in Nat /\ WorkerInv(w)
          BY DEF AuditBase, AuditShapes
        <5>2. QED
          BY <5>1 DEF WorkerRow, WorkerInv
      <4>2. day <= Day(clock) /\ Day(clock) \in Nat
        BY <3>1, <3>2, <4>1, DaysFollow
      <4>3. Day(schedule'.last) >= day
        BY <4>2
      <4>4. QED
        BY <4>3 DEF Covered
    <3>3. CASE v # w
      BY <3>1, <3>3 DEF Covered, Marking
    <3>4. QED
      BY <3>2, <3>3
  <2>3. QED
    BY <2>1, <2>2 DEF Covered
<1>3. Attended(day)' => Attended(day)
  BY DEF Attended, AtWork, Resting
<1>4. QED
  BY <1>1, <1>2, <1>3, DailyStays

LEMMA DailyCloses ==
  ASSUME AuditBase, \A day \in Nat : DailyInv(day), NEW w \in Workers, worker[w].at = "next",
         \A v \in Workers : v # w => worker'[v] = worker[v],
         worker[w].kind = "daily" => worker'[w] = [worker[w] EXCEPT !.at = "marking"],
         worker'[w].at \notin AtWork,
         NEW n \in DOMAIN reports, NEW row, ReportEnds(n, row), reports[n].status = "running",
         row.kind = worker[w].kind, row.begun = worker[w].begun, row.status # "running",
         UNCHANGED <<schedule, auditBudget, clock>>
  PROVE  \A day \in Nat : DailyInv(day)'
<1> TAKE day \in Nat
<1>1. AuditShapes /\ WorkerInv(w) /\ worker[w] \in WorkerRow /\ DailyInv(day)
  BY DEF AuditBase, AuditShapes
<1>2. /\ DOMAIN reports' = DOMAIN reports /\ reports'[n] = row
      /\ \A i \in DOMAIN reports : i # n => reports'[i] = reports[i]
  BY DEF ReportEnds
<1>3. Covered(day) => Covered(day)'
  BY DEF Covered, Marking
<1>4. Attended(day)' => Attended(day)
  BY DEF Attended
<1>5. CASE worker[w].kind # "daily" \/ Day(worker[w].begun) # day
  <2>1. Dailies(day)' = Dailies(day)
    BY <1>2, <1>5 DEF Dailies
  <2>2. QED
    BY <1>1, <1>3, <1>4, <2>1, DailyStays
<1>6. CASE worker[w].kind = "daily" /\ Day(worker[w].begun) = day
  <2>1. Attended(day)
    BY <1>6 DEF Attended, AtWork
  <2>2. Cardinality(Dailies(day)) <= auditBudget.crashes
    BY <1>1, <2>1 DEF DailyInv
  <2>3. Dailies(day)' = Dailies(day) \cup {n} /\ n \notin Dailies(day)
    BY <1>2, <1>6 DEF Dailies
  <2>4. Cardinality(Dailies(day) \cup {n}) = Cardinality(Dailies(day)) + 1 /\ Cardinality(Dailies(day)) \in Nat
    BY <1>1, <2>3, DailiesFinite, FS_AddElement
  <2>5. auditBudget.crashes \in Nat
    BY <1>1 DEF AuditShapes
  <2>6. Cardinality(Dailies(day)') <= 1 + auditBudget'.crashes
    BY <2>2, <2>3, <2>4, <2>5
  <2>7. Marking(day)'
    <3>1. worker'[w].at = "marking" /\ worker'[w].kind = "daily" /\ worker'[w].begun = worker[w].begun
      BY <1>1, <1>6 DEF WorkerRow
    <3>2. QED
      BY <1>6, <3>1 DEF Marking
  <2>8. ~Attended(day)'
    <3>1. \A v \in Workers : v # w => worker[v].kind # "daily"
      BY <1>6 DEF AuditBase, WorkerInv
    <3>2. QED
      BY <3>1 DEF Attended
  <2>9. QED
    BY <2>6, <2>7, <2>8 DEF DailyInv, Covered
<1>7. QED
  BY <1>5, <1>6

-----------------------------------------------------------------------------
(* Every step keeps all of it.                                             *)

AuditInv == AuditBase /\ ReportInv /\ PostureInv /\ \A day \in Nat : DailyInv(day)
AuditBudgets == [requests : Nat, troubles : Nat, crashes : Nat]

LEMMA BudgetSpent ==
  ASSUME AuditShapes
  PROVE  /\ \A w \in Workers : Accepts(w) => auditBudget' \in AuditBudgets /\ auditBudget'.crashes = auditBudget.crashes
         /\ Trouble(0) => auditBudget' \in AuditBudgets /\ auditBudget'.crashes = auditBudget.crashes
         /\ Trouble(1) => auditBudget' \in AuditBudgets /\ auditBudget'.crashes = auditBudget.crashes + 1
<1>1. auditBudget \in AuditBudgets
  BY DEF AuditShapes, AuditBudgets
<1>2. ASSUME NEW n \in {0, 1}, Trouble(n) PROVE auditBudget' \in AuditBudgets /\ auditBudget'.crashes = auditBudget.crashes + n
  <2>1. auditBudget' = [auditBudget EXCEPT !.troubles = @ + 1, !.crashes = @ + n]
    BY <1>2 DEF Trouble
  <2>2. n \in Nat
    BY <1>2
  <2>3. auditBudget' = [requests |-> auditBudget.requests, troubles |-> auditBudget.troubles + 1, crashes |-> auditBudget.crashes + n]
    BY <1>1, <2>1 DEF AuditBudgets
  <2>4. QED
    BY <1>1, <2>2, <2>3 DEF AuditBudgets
<1>3. LET b == [auditBudget EXCEPT !.requests = @ + 1] IN b \in AuditBudgets /\ b.crashes = auditBudget.crashes
  BY <1>1 DEF AuditBudgets
<1>4. auditBudget.crashes + 0 = auditBudget.crashes
  BY <1>1 DEF AuditBudgets
<1>5. \A w \in Workers : Accepts(w) => auditBudget' \in AuditBudgets /\ auditBudget'.crashes = auditBudget.crashes
  BY <1>3 DEF Accepts
<1>6. Trouble(0) => auditBudget' \in AuditBudgets /\ auditBudget'.crashes = auditBudget.crashes
  BY <1>2, <1>4
<1>7. Trouble(1) => auditBudget' \in AuditBudgets /\ auditBudget'.crashes = auditBudget.crashes + 1
  BY <1>2
<1>8. QED
  BY <1>5, <1>6, <1>7

LEMMA OthersRest ==
  ASSUME AuditBase, NEW w \in Workers, NEW e \in WorkerRow, Becomes(w, e)
  PROVE  worker'[w] = e /\ \A v \in Workers : v # w => worker'[v] = worker[v]
BY BecomesRow DEF AuditBase, AuditShapes

\* While the runs stay, a worker that judges must have read what the device is.
LEMMA PostureMoves ==
  ASSUME PostureInv, UNCHANGED <<runs, inFleet, posture, changedAt>>, NEW w \in Workers,
         \A v \in Workers : v # w => worker'[v] = worker[v],
         worker'[w].at = "judging" => worker'[w].got = posture[worker'[w].about]
  PROVE  PostureInv'
BY DEF PostureInv

LEMMA DailiesStay ==
  ASSUME UNCHANGED reports
  PROVE  \A day \in Nat : Dailies(day)' = Dailies(day)
BY DEF Dailies

\* A worker starts a fleet audit.
LEMMA StepSelected ==
  ASSUME AuditInv, NEW w \in Workers, worker[w].at = "resting",
         NEW kind \in {"daily", "now", "bulk"}, kind = "daily" => w = Scheduler /\ should_run_now(schedule.last, clock) /\ UNCHANGED auditBudget,
         NEW devices, run_scheduled_audit(w, kind, devices),
         UNCHANGED << inFleet, enabled, posture, changedAt, runs, reports, schedule, clock >>,
         auditBudget' \in AuditBudgets, auditBudget'.crashes = auditBudget.crashes
  PROVE  AuditInv'
<1> DEFINE e == [Resting EXCEPT !.at = "numbered", !.kind = kind, !.selected = inFleet \cap enabled \cap devices,
                                !.todo = inFleet \cap enabled \cap devices, !.report = _next_batch_display_number,
                                !.begun = clock]
<1>1. AuditBase /\ AuditShapes /\ ReportInv /\ PostureInv /\ \A day \in Nat : DailyInv(day)
  BY DEF AuditInv, AuditBase
<1>2. AuditBase'
  BY <1>1, BaseSelected DEF AuditBudgets
<1>3. /\ e \in WorkerRow /\ e.at = "numbered" /\ e.kind = kind /\ e.begun = clock
  BY <1>1, BatchNumber DEF Resting, WorkerRow, AuditShapes
<1>4. Becomes(w, e)
  BY DEF run_scheduled_audit
<1> HIDE DEF e
<1>5. worker'[w] = e /\ \A v \in Workers : v # w => worker'[v] = worker[v]
  BY <1>1, <1>3, <1>4, OthersRest
<1>6. ReportInv'
  <2>1. ~Reporting(w)' /\ ~Reporting(w)
    BY <1>3, <1>5 DEF Reporting, OnReport
  <2>2. \A v \in Workers : Reporting(v)' => Reporting(v) /\ worker'[v].report = worker[v].report
    BY <1>5, <2>1 DEF Reporting
  <2>3. \A v \in Workers : OpenReportInv(v)'
    <3>1. OpenReportInv(w)'
      BY <2>1 DEF OpenReportInv
    <3>2. ASSUME NEW v \in Workers, v # w PROVE OpenReportInv(v)'
      BY <1>1, <1>5, <3>2, SteadySame, OpenStays DEF ReportInv, OpenReportInv
    <3>3. QED
      BY <3>1, <3>2
  <2>4. QED
    BY <1>1, <2>2, <2>3, ReportsMove
<1>7. PostureInv'
  BY <1>1, <1>3, <1>5, PostureMoves
<1>8. \A day \in Nat : DailyInv(day)'
  <2>1. CASE kind = "daily"
    BY <1>1, <1>3, <1>5, <2>1, DailyBegins
  <2>2. CASE kind # "daily"
    BY <1>1, <1>3, <1>5, <2>2, DailyMoves, DailiesStay
  <2>3. QED
    BY <2>1, <2>2
<1>9. QED
  BY <1>2, <1>6, <1>7, <1>8 DEF AuditInv

LEMMA StepPolls == ASSUME AuditInv, _poll_once PROVE AuditInv'
<1>1. auditBudget' \in AuditBudgets /\ auditBudget'.crashes = auditBudget.crashes
  BY DEF AuditInv, AuditBase, AuditShapes, AuditBudgets, _poll_once
<1>2. Scheduler \in Workers
  BY DEF Workers
<1>3. QED
  BY <1>1, <1>2, StepSelected DEF _poll_once

LEMMA StepNow == ASSUME AuditInv, NEW w \in Workers, run_schedule_now(w) PROVE AuditInv'
<1>1. auditBudget' \in AuditBudgets /\ auditBudget'.crashes = auditBudget.crashes
  BY BudgetSpent DEF AuditInv, AuditBase, run_schedule_now
<1>2. QED
  BY <1>1, StepSelected DEF run_schedule_now, Accepts

LEMMA StepBulk == ASSUME AuditInv, NEW w \in Workers, run_bulk_audit(w) PROVE AuditInv'
<1>1. auditBudget' \in AuditBudgets /\ auditBudget'.crashes = auditBudget.crashes
  BY BudgetSpent DEF AuditInv, AuditBase, run_bulk_audit
<1>2. PICK devices \in (SUBSET Fleet) \ {{}} : run_scheduled_audit(w, "bulk", devices)
  BY DEF run_bulk_audit
<1>3. QED
  BY <1>1, <1>2, StepSelected DEF run_bulk_audit, Accepts

\* A worker stops where it is.
LEMMA StepStops ==
  ASSUME AuditInv, NEW w \in Workers, worker[w].at # "marking", Becomes(w, Resting),
         UNCHANGED << inFleet, enabled, posture, changedAt, runs, reports, schedule, clock, auditBudget >>
  PROVE  ReportInv' /\ PostureInv' /\ \A day \in Nat : DailyInv(day)'
<1>1. AuditBase /\ AuditShapes /\ ReportInv /\ PostureInv /\ \A day \in Nat : DailyInv(day)
  BY DEF AuditInv, AuditBase
<1>2. worker'[w] = Resting /\ \A v \in Workers : v # w => worker'[v] = worker[v]
  BY <1>1, RestingRow, OthersRest
<1>3. ReportInv'
  <2>1. ~Reporting(w)'
    BY <1>2 DEF Reporting, OnReport, Resting
  <2>2. \A v \in Workers : Reporting(v)' => Reporting(v) /\ worker'[v].report = worker[v].report
    BY <1>2, <2>1 DEF Reporting
  <2>3. \A v \in Workers : OpenReportInv(v)'
    <3>1. OpenReportInv(w)'
      BY <2>1 DEF OpenReportInv
    <3>2. ASSUME NEW v \in Workers, v # w PROVE OpenReportInv(v)'
      BY <1>1, <1>2, <3>2, SteadySame, OpenStays DEF ReportInv, OpenReportInv
    <3>3. QED
      BY <3>1, <3>2
  <2>4. QED
    BY <1>1, <2>2, <2>3, ReportsMove
<1>4. PostureInv'
  BY <1>1, <1>2, PostureMoves DEF Resting
<1>5. \A day \in Nat : DailyInv(day)'
  BY <1>1, <1>2, DailyMoves, DailiesStay DEF Resting, AtWork
<1>6. QED
  BY <1>3, <1>4, <1>5

LEMMA StepInserts == ASSUME AuditInv, NEW w \in Workers, InsertReport(w) PROVE AuditInv'
<1> DEFINE row == [number |-> worker[w].report, status |-> "running", total |-> Cardinality(worker[w].selected),
                                ok |-> 0, bad |-> 0, selected |-> worker[w].selected, begun |-> worker[w].begun,
                                kind |-> worker[w].kind]
<1>1. AuditBase /\ AuditShapes /\ ReportInv /\ PostureInv /\ (\A day \in Nat : DailyInv(day)) /\ worker[w] \in WorkerRow
  BY DEF AuditInv, AuditBase, AuditShapes
<1>2. worker[w].at = "numbered" /\ UNCHANGED << inFleet, enabled, posture, changedAt, runs, schedule, clock, auditBudget >>
  BY DEF InsertReport
<1>3. AuditBase'
  BY <1>1, BaseInserts
<1>4. CASE \E i \in DOMAIN reports : reports[i].number = worker[w].report
  <2>1. Becomes(w, Resting) /\ UNCHANGED reports
    BY <1>4 DEF InsertReport
  <2>2. QED
    BY <1>2, <1>3, <2>1, StepStops DEF AuditInv
<1>5. CASE \A i \in DOMAIN reports : reports[i].number # worker[w].report
  <2>1. /\ \A v \in Workers : v # w => worker'[v] = worker[v]
        /\ worker'[w] = Resting \/ worker'[w] = [worker[w] EXCEPT !.at = "next", !.report = Len(reports) + 1]
        /\ ReportBegins(row) /\ worker'[w] = [worker[w] EXCEPT !.at = "next", !.report = Len(reports) + 1]
    <3>1. reports' = Append(reports, row)
      BY <1>5 DEF InsertReport
    <3>2. reports' # reports
      <4>1. Len(reports') = Len(reports) + 1 /\ Len(reports) \in Nat
        BY <1>1, <3>1 DEF AuditShapes
      <4>2. QED
        BY <4>1
    <3> HIDE DEF row
    <3>3. QED
      BY <1>1, <3>2, BaseInserts DEF row
  <2>2. worker'[w].at = "next" /\ worker'[w].kind = worker[w].kind /\ worker'[w].begun = worker[w].begun
    BY <1>1, <2>1 DEF WorkerRow
  <2>3. ReportInv'
    <3>1. /\ ~Reporting(w) /\ worker[w].todo = worker[w].selected /\ worker[w].ok = 0 /\ worker[w].bad = 0
      BY <1>1, <1>2 DEF Reporting, OnReport, AuditBase, WorkerInv
    <3>2. QED
      BY <1>1, <1>2, <1>5, <2>1, <3>1, ReportsBegin
  <2>4. PostureInv'
    BY <1>1, <1>2, <2>1, <2>2, PostureMoves
  <2>5. \A day \in Nat : DailyInv(day)'
    <3>1. \A day \in Nat : Dailies(day)' = Dailies(day)
      <4>1. row.status = "running"
        OBVIOUS
      <4> HIDE DEF row
      <4>2. QED
        BY <2>1, <4>1 DEF Dailies, ReportBegins
    <3>2. worker[w].at \in AtWork
      BY <1>2 DEF AtWork
    <3>3. QED
      BY <1>1, <1>2, <2>1, <2>2, <3>1, <3>2, DailyMoves
  <2>6. QED
    BY <1>3, <2>3, <2>4, <2>5 DEF AuditInv
<1>6. QED
  BY <1>4, <1>5

LEMMA StepStarts == ASSUME AuditInv, NEW w \in Workers, StartRun(w) PROVE AuditInv'
<1>1. /\ AuditBase /\ AuditShapes /\ ReportInv /\ PostureInv /\ (\A day \in Nat : DailyInv(day))
      /\ worker[w] \in WorkerRow /\ worker[w].at = "next" /\ Reporting(w)
  BY DEF AuditInv, AuditBase, AuditShapes, WorkerInv, StartRun, Reporting, OnReport
<1>2. worker[w].report \in DOMAIN reports
  BY <1>1 DEF ReportInv, OpenReportInv
<1>3. AuditBase' /\ \A v \in Workers : v # w => worker'[v] = worker[v]
  BY <1>1, <1>2, BaseStarts
<1>4. UNCHANGED << inFleet, enabled, posture, changedAt, reports, schedule, clock, auditBudget >>
  BY DEF StartRun
<1>5. CASE Min(worker[w].todo) \notin inFleet
  <2>1. Becomes(w, Resting) /\ UNCHANGED runs
    BY <1>5 DEF StartRun
  <2>2. QED
    BY <1>1, <1>3, <1>4, <2>1, StepStops DEF AuditInv
<1>6. CASE Min(worker[w].todo) \in inFleet
  <2>1. runs' # runs
    <3>1. runs' = Append(runs, NewRun(Min(worker[w].todo), "scheduled", worker[w].report))
      BY <1>6 DEF StartRun, _create_running_audit_row, NewRun
    <3>2. Len(runs') = Len(runs) + 1 /\ Len(runs) \in Nat
      BY <1>1, <3>1 DEF AuditShapes
    <3>3. QED
      BY <3>2
  <2>2. PICK d \in worker[w].todo :
          /\ d \in inFleet /\ RunStarts(d, "scheduled", worker[w].report)
          /\ worker'[w] = [worker[w] EXCEPT !.at = "asked", !.run = Len(runs) + 1, !.about = d, !.todo = @ \ {d}]
    BY <1>1, <1>2, <2>1, BaseStarts
  <2>3. ReportInv'
    BY <1>1, <1>3, <1>4, <2>2, ReportsStart
  <2>4. worker'[w].at = "asked" /\ worker'[w].kind = worker[w].kind /\ worker'[w].begun = worker[w].begun
    BY <1>1, <2>2 DEF WorkerRow
  <2>5. PostureInv'
    BY <1>1, <1>3, <1>4, <2>2, <2>4, PostureStarts
  <2>6. \A day \in Nat : DailyInv(day)'
    BY <1>1, <1>3, <1>4, <2>4, DailyMoves, DailiesStay DEF AtWork
  <2>7. QED
    BY <1>3, <2>3, <2>5, <2>6 DEF AuditInv
<1>7. QED
  BY <1>5, <1>6

LEMMA StepReads == ASSUME AuditInv, NEW w \in Workers, ReadConfig(w) PROVE AuditInv'
<1> PICK me : me = worker[w]
  OBVIOUS
<1> DEFINE e == [me EXCEPT !.at = "judging", !.got = posture[me.about]]
<1>1. /\ AuditBase /\ AuditShapes /\ ReportInv /\ PostureInv /\ (\A day \in Nat : DailyInv(day))
      /\ me \in WorkerRow /\ me.at = "asked" /\ me.about \in Fleet /\ me.run <= Len(runs) /\ me.begun <= clock
      /\ me.kind = "daily" => w = Scheduler
  BY DEF AuditInv, AuditBase, AuditShapes, WorkerInv, ReadConfig
<1>2. Becomes(w, e) /\ UNCHANGED << inFleet, enabled, posture, changedAt, runs, reports, schedule, clock, auditBudget >>
  BY DEF ReadConfig
<1>3. posture[me.about] \in Postures
  BY <1>1 DEF AuditShapes
<1>4. /\ e \in WorkerRow /\ e.at = "judging" /\ e.got = posture[me.about] /\ e.about = me.about /\ e.run = me.run
      /\ e.report = me.report /\ e.kind = me.kind /\ e.begun = me.begun /\ e.todo = me.todo /\ e.selected = me.selected
      /\ e.ok = me.ok /\ e.bad = me.bad
  BY <1>1, <1>3 DEF WorkerRow
<1> HIDE DEF e
<1>5. AuditBase' /\ worker'[w] = e /\ \A v \in Workers : v # w => worker'[v] = worker[v]
  <2>1. /\ reports' \in Seq(ReportRow) /\ Len(reports') = Len(reports)
        /\ \E n \in Nat : \A i \in DOMAIN reports' : reports'[i].number <= n
    BY <1>1, <1>2 DEF AuditShapes
  <2>2. /\ schedule' \in [on : BOOLEAN, last : Nat] /\ schedule'.last <= clock
        /\ auditBudget' \in [requests : Nat, troubles : Nat, crashes : Nat]
    BY <1>1, <1>2 DEF AuditShapes
  <2>3. worker[w].at \in OnRun /\ e.at \notin {"numbered", "next"} /\ e.at # "marking" /\ e.at # "asked"
    BY <1>1, <1>4 DEF OnRun
  <2>4. QED
    BY <1>1, <1>2, <1>3, <1>4, <2>1, <2>2, <2>3, BaseMoves
<1>6. ReportInv'
  <2>1. Reporting(w)' => Reporting(w) /\ worker'[w].report = worker[w].report
    BY <1>1, <1>4, <1>5 DEF Reporting, OnReport
  <2>2. \A v \in Workers : Reporting(v)' => Reporting(v) /\ worker'[v].report = worker[v].report
    BY <1>5, <2>1 DEF Reporting
  <2>3. \A v \in Workers : OpenReportInv(v)'
    <3>1. OpenReportInv(w)'
      <4> SUFFICES ASSUME Reporting(w)' PROVE OpenReportInv(w)'
        BY DEF OpenReportInv
      <4>1. OpenReportInv(w) /\ Reporting(w)
        BY <1>1, <2>1 DEF ReportInv
      <4>2. "judging" \in OnRun /\ "asked" \in OnRun
        BY DEF OnRun
      <4>3. \A n, status : Marked(n, status)' = Marked(n, status)
        BY <1>2 DEF Marked
      <4>4. QED
        BY <1>1, <1>2, <1>4, <1>5, <4>1, <4>2, <4>3 DEF OpenReportInv
    <3>2. ASSUME NEW v \in Workers, v # w PROVE OpenReportInv(v)'
      BY <1>1, <1>2, <1>5, <3>2, SteadySame, OpenStays DEF ReportInv, OpenReportInv
    <3>3. QED
      BY <3>1, <3>2
  <2>4. QED
    BY <1>1, <1>2, <2>2, <2>3, ReportsMove
<1>7. PostureInv'
  BY <1>1, <1>2, <1>4, <1>5, PostureMoves
<1>8. \A day \in Nat : DailyInv(day)'
  BY <1>1, <1>2, <1>4, <1>5, DailyMoves, DailiesStay DEF AtWork
<1>9. QED
  BY <1>5, <1>6, <1>7, <1>8 DEF AuditInv

\* How a run ends: with what the worker counts, or with the end of the audit.
LEMMA StepEnds ==
  ASSUME AuditInv, NEW w \in Workers, worker[w].at \in OnRun, NEW s \in {"completed", "failed"}, NEW read,
         RunEnds(worker[w].run, s, read),
         s = "completed" => worker[w].at = "judging" /\ worker[w].about \in inFleet \cup {Nothing} /\ read = worker[w].got,
         \/ Becomes(w, Resting)
         \/ Becomes(w, AfterRun(worker[w], IF s = "completed" THEN 1 ELSE 0, IF s = "failed" THEN 1 ELSE 0)),
         UNCHANGED << inFleet, enabled, posture, changedAt, reports, schedule, clock >>,
         auditBudget' \in AuditBudgets, auditBudget'.crashes = auditBudget.crashes
  PROVE  AuditInv'
<1> PICK me : me = worker[w]
  OBVIOUS
<1> DEFINE e == [me EXCEPT !.at = "next", !.run = 0, !.about = Nothing, !.got = Nothing,
                           !.ok = @ + (IF s = "completed" THEN 1 ELSE 0), !.bad = @ + (IF s = "failed" THEN 1 ELSE 0)]
<1>1. /\ AuditBase /\ AuditShapes /\ ReportInv /\ PostureInv /\ (\A day \in Nat : DailyInv(day))
      /\ me \in WorkerRow /\ me.at \in OnRun
  BY DEF AuditInv, AuditBase, AuditShapes
<1>2. /\ e \in WorkerRow /\ e.at = "next" /\ e.run = 0 /\ e.report = me.report /\ e.kind = me.kind /\ e.begun = me.begun
  <2>1. PICK c, f : c = (IF s = "completed" THEN 1 ELSE 0) /\ f = (IF s = "failed" THEN 1 ELSE 0)
    OBVIOUS
  <2>2. c \in Nat /\ f \in Nat
    BY <2>1
  <2>3. e = [me EXCEPT !.at = "next", !.run = 0, !.about = Nothing, !.got = Nothing, !.ok = @ + c, !.bad = @ + f]
    BY <2>1
  <2> HIDE DEF e
  <2>4. e \in WorkerRow
    <3>1. me.ok + c \in Nat /\ me.bad + f \in Nat
      BY <1>1, <2>2 DEF WorkerRow
    <3>2. e = [at |-> "next", kind |-> me.kind, selected |-> me.selected, todo |-> me.todo, report |-> me.report, run |-> 0,
               about |-> Nothing, got |-> Nothing, ok |-> me.ok + c, bad |-> me.bad + f, begun |-> me.begun]
      BY <1>1, <2>3 DEF WorkerRow
    <3>3. QED
      BY <1>1, <3>1, <3>2 DEF WorkerRow
  <2>5. QED
    BY <1>1, <2>3, <2>4 DEF WorkerRow
<1>3. Becomes(w, Resting) \/ (me.report # 0 /\ Becomes(w, e))
  BY DEF AfterRun
<1>4. me.report # 0 => Reporting(w)
  BY <1>1 DEF Reporting, OnReport, OnRun
<1>5. auditBudget' \in [requests : Nat, troubles : Nat, crashes : Nat]
  BY DEF AuditBudgets
<1>6. CASE Becomes(w, Resting)
  <2>1. Resting \in WorkerRow /\ Resting.run = 0 /\ Resting.at = "resting" /\ Resting.kind = "none" /\ Resting.begun = 0
    BY RestingRow DEF Resting
  <2> HIDE DEF e
  <2>2. AuditBase' /\ worker'[w] = Resting /\ \A v \in Workers : v # w => worker'[v] = worker[v]
    BY <1>1, <1>5, <1>6, <2>1, BaseEnds
  <2>3. ReportInv'
    BY <1>1, <2>2, ReportsEnd
  <2>4. PostureInv'
    BY <1>1, <2>1, <2>2, PostureEnds
  <2>5. \A day \in Nat : DailyInv(day)'
    BY <1>1, <2>1, <2>2, DailyMoves, DailiesStay DEF AtWork, OnRun
  <2>6. QED
    BY <2>2, <2>3, <2>4, <2>5 DEF AuditInv
<1>7. CASE me.report # 0 /\ Becomes(w, e)
  <2>1. AuditBase' /\ worker'[w] = e /\ \A v \in Workers : v # w => worker'[v] = worker[v]
    <3> HIDE DEF e
    <3>1. QED
      BY <1>1, <1>2, <1>5, <1>7, BaseEnds
  <2>2. ReportInv'
    <3>1. Reporting(w) /\ worker[w].at \in OnRun
      BY <1>4, <1>7
    <3>2. worker'[w] = [worker[w] EXCEPT !.at = "next", !.run = 0, !.about = Nothing, !.got = Nothing,
                          !.ok = @ + (IF s = "completed" THEN 1 ELSE 0), !.bad = @ + (IF s = "failed" THEN 1 ELSE 0)]
      BY <2>1
    <3> HIDE DEF e
    <3>3. UNCHANGED reports /\ \A v \in Workers : v # w => worker'[v] = worker[v]
      BY <2>1
    <3>4. QED
      BY <1>1, <3>1, <3>2, <3>3, ReportsEnd
  <2> HIDE DEF e
  <2>3. PostureInv'
    BY <1>1, <1>2, <2>1, PostureEnds
  <2>4. \A day \in Nat : DailyInv(day)'
    BY <1>1, <1>2, <2>1, DailyMoves, DailiesStay DEF AtWork, OnRun
  <2>5. QED
    BY <2>1, <2>2, <2>3, <2>4 DEF AuditInv
<1>8. QED
  BY <1>3, <1>6, <1>7

LEMMA OnItsRun ==
  ASSUME AuditInv, NEW w \in Workers, worker[w].at \in OnRun
  PROVE  /\ AuditShapes /\ worker[w].run \in DOMAIN runs /\ worker[w] \in WorkerRow
         /\ UNCHANGED auditBudget => auditBudget' \in AuditBudgets /\ auditBudget'.crashes = auditBudget.crashes
BY DEF AuditInv, AuditBase, AuditShapes, WorkerInv, AuditBudgets

LEMMA StepFails == ASSUME AuditInv, NEW w \in Workers, RunFails(w) PROVE AuditInv'
<1>1. worker[w].at \in OnRun
  BY DEF RunFails, OnRun
<1>2. RunEnds(worker[w].run, "failed", runs[worker[w].run].read)
  BY <1>1, OnItsRun, RunFailed DEF RunFails
<1>3. auditBudget' \in AuditBudgets /\ auditBudget'.crashes = auditBudget.crashes
  BY <1>1, OnItsRun, BudgetSpent DEF RunFails
<1>4. Becomes(w, AfterRun(worker[w], 0, 1))
  BY DEF RunFails
<1>5. PICK read : read = runs[worker[w].run].read
  OBVIOUS
<1>6. QED
  BY <1>1, <1>2, <1>3, <1>4, <1>5, StepEnds DEF RunFails

LEMMA StepGone == ASSUME AuditInv, NEW w \in Workers, DeviceGone(w) PROVE AuditInv'
<1>1. worker[w].at \in OnRun /\ worker[w].at = "asked" /\ Becomes(w, Resting)
      /\ UNCHANGED << inFleet, enabled, posture, changedAt, reports, schedule, clock, auditBudget >>
  BY DEF DeviceGone, OnRun
<1>2. CASE worker[w].report = 0
  <2>1. UNCHANGED runs
    BY <1>2 DEF DeviceGone
  <2>2. ReportInv' /\ PostureInv' /\ \A day \in Nat : DailyInv(day)'
    BY <1>1, <2>1, StepStops
  <2>3. AuditBase'
    <3>1. AuditBase /\ AuditShapes
      BY DEF AuditInv, AuditBase
    <3>2. /\ Resting \in WorkerRow /\ Resting.run = 0 /\ Resting.at = "resting" /\ Resting.kind = "none" /\ Resting.begun = 0
          /\ Resting.at \notin OnRun
      BY RestingRow DEF Resting, OnRun
    <3>3. /\ reports' \in Seq(ReportRow) /\ Len(reports') = Len(reports)
          /\ \E n \in Nat : \A i \in DOMAIN reports' : reports'[i].number <= n
      BY <1>1, <3>1 DEF AuditShapes
    <3>4. /\ schedule' \in [on : BOOLEAN, last : Nat] /\ schedule'.last <= clock /\ 0 <= clock /\ 0 <= Len(runs)
          /\ auditBudget' \in [requests : Nat, troubles : Nat, crashes : Nat]
      BY <1>1, <3>1 DEF AuditShapes
    <3>5. QED
      BY <1>1, <2>1, <3>1, <3>2, <3>3, <3>4, BaseMoves
  <2>4. QED
    BY <2>2, <2>3 DEF AuditInv
<1>3. CASE worker[w].report # 0
  <2>1. RunEnds(worker[w].run, "failed", runs[worker[w].run].read)
    BY <1>1, <1>3, OnItsRun, RunFailed DEF DeviceGone
  <2>2. PICK read : read = runs[worker[w].run].read
    OBVIOUS
  <2>3. auditBudget' \in AuditBudgets /\ auditBudget'.crashes = auditBudget.crashes
    BY <1>1, OnItsRun
  <2>4. RunEnds(worker[w].run, "failed", read)
    BY <2>1, <2>2
  <2>5. QED
    BY <1>1, <2>3, <2>4, StepEnds
<1>4. QED
  BY <1>2, <1>3

LEMMA StepPersists == ASSUME AuditInv, NEW w \in Workers, persist_audit_result(w) PROVE AuditInv'
<1>1. worker[w].at \in OnRun /\ worker[w].at = "judging"
      /\ UNCHANGED << inFleet, enabled, posture, changedAt, reports, schedule, clock, auditBudget >>
  BY DEF persist_audit_result, OnRun
<1>2. CASE Gone(w)
  <2>1. UNCHANGED runs /\ Becomes(w, Resting)
    BY <1>2 DEF persist_audit_result
  <2>2. ReportInv' /\ PostureInv' /\ \A day \in Nat : DailyInv(day)'
    BY <1>1, <2>1, StepStops
  <2>3. AuditBase'
    <3>1. AuditBase /\ AuditShapes
      BY DEF AuditInv, AuditBase
    <3>2. /\ Resting \in WorkerRow /\ Resting.run = 0 /\ Resting.at = "resting" /\ Resting.kind = "none" /\ Resting.begun = 0
          /\ Resting.at \notin OnRun
      BY RestingRow DEF Resting, OnRun
    <3>3. /\ reports' \in Seq(ReportRow) /\ Len(reports') = Len(reports)
          /\ \E n \in Nat : \A i \in DOMAIN reports' : reports'[i].number <= n
      BY <1>1, <3>1 DEF AuditShapes
    <3>4. /\ schedule' \in [on : BOOLEAN, last : Nat] /\ schedule'.last <= clock /\ 0 <= clock /\ 0 <= Len(runs)
          /\ auditBudget' \in [requests : Nat, troubles : Nat, crashes : Nat]
      BY <1>1, <3>1 DEF AuditShapes
    <3>5. QED
      BY <1>1, <2>1, <3>1, <3>2, <3>3, <3>4, BaseMoves
  <2>4. QED
    BY <2>2, <2>3 DEF AuditInv
<1>3. CASE ~Gone(w)
  <2>1. /\ runs' = [runs EXCEPT ![worker[w].run].status = "completed", ![worker[w].run].read = worker[w].got]
        /\ Becomes(w, AfterRun(worker[w], 1, 0))
    BY <1>3 DEF persist_audit_result
  <2>2. PICK read : read = worker[w].got
    OBVIOUS
  <2>3. read \in Postures
    BY <1>1, <2>2 DEF AuditInv, AuditBase, WorkerInv
  <2>4. RunEnds(worker[w].run, "completed", read)
    BY <1>1, <2>1, <2>2, <2>3, OnItsRun, RunCompleted
  <2>5. worker[w].about \in inFleet \cup {Nothing}
    BY <1>3 DEF Gone
  <2>6. auditBudget' \in AuditBudgets /\ auditBudget'.crashes = auditBudget.crashes
    BY <1>1, OnItsRun
  <2>7. QED
    BY <1>1, <2>1, <2>2, <2>4, <2>5, <2>6, StepEnds
<1>4. QED
  BY <1>2, <1>3

LEMMA StepCloses == ASSUME AuditInv, NEW w \in Workers, CloseReport(w) PROVE AuditInv'
<1> PICK me, n : me = worker[w] /\ n = worker[w].report
  OBVIOUS
<1> DEFINE status == ScheduledAuditResult(Cardinality(me.selected), me.ok)
           row == [reports[n] EXCEPT !.status = status, !.ok = me.ok, !.bad = me.bad]
           e == IF me.kind = "bulk" THEN Resting ELSE [me EXCEPT !.at = "marking"]
<1>1. /\ AuditBase /\ AuditShapes /\ ReportInv /\ PostureInv /\ (\A day \in Nat : DailyInv(day))
      /\ me \in WorkerRow /\ me.at = "next" /\ me.todo = {} /\ Reporting(w) /\ WorkerInv(w)
  BY DEF AuditInv, AuditBase, AuditShapes, WorkerInv, CloseReport, Reporting, OnReport
<1>2. /\ n \in DOMAIN reports /\ reports[n].status = "running" /\ reports[n].kind = me.kind /\ reports[n].begun = me.begun
      /\ reports[n].total = Cardinality(me.selected) /\ reports[n].selected = me.selected
  BY <1>1 DEF ReportInv, OpenReportInv
<1>3. /\ reports' = [reports EXCEPT ![n].status = status, ![n].ok = me.ok, ![n].bad = me.bad] /\ Becomes(w, e)
      /\ UNCHANGED << inFleet, enabled, posture, changedAt, runs, schedule, clock, auditBudget >>
  BY DEF CloseReport
<1>4. status \in {"completed", "failed", "partial"}
  BY DEF ScheduledAuditResult
<1>5. /\ row \in ReportRow /\ row.status = status /\ row.ok = me.ok /\ row.bad = me.bad /\ row.kind = me.kind
      /\ row.begun = me.begun /\ row.total = Cardinality(me.selected) /\ row.selected = me.selected
      /\ row.number = reports[n].number
  <2>1. reports[n] \in ReportRow /\ me.ok \in Nat /\ me.bad \in Nat
    BY <1>1, <1>2, ReportsTyped DEF WorkerRow
  <2> HIDE DEF status
  <2>2. row \in ReportRow
    BY <1>4, <2>1 DEF ReportRow
  <2>3. QED
    BY <1>2, <2>1, <2>2 DEF ReportRow
<1>6. ReportEnds(n, row)
  <2>1. reports' = [i \in DOMAIN reports |-> IF i = n THEN row ELSE reports[i]]
    BY <1>3
  <2>2. reports \in Seq(ReportRow)
    BY <1>1 DEF AuditShapes
  <2> HIDE DEF row
  <2>3. DOMAIN reports' = DOMAIN reports /\ reports'[n] = row /\ \A i \in DOMAIN reports : i # n => reports'[i] = reports[i]
    BY <1>2, <2>1
  <2>4. \A i \in DOMAIN reports : reports'[i] \in ReportRow
    <3>1. \A i \in DOMAIN reports : reports[i] \in ReportRow
      BY <2>2
    <3>2. QED
      BY <1>5, <2>3, <3>1
  <2>5. reports' = [i \in DOMAIN reports |-> reports'[i]]
    BY <2>1
  <2>6. reports' \in Seq(ReportRow) /\ Len(reports') = Len(reports)
    BY <2>2, <2>4, <2>5, RowsChanged
  <2>7. QED
    BY <2>3, <2>6 DEF ReportEnds
<1> HIDE DEF row
<1>7. /\ e \in WorkerRow /\ e.at \in {"resting", "marking"} /\ e.begun <= clock /\ e.run <= Len(runs)
      /\ e.at = "marking" => e.kind \in {"daily", "now", "bulk"}
      /\ e.kind = "daily" => w = Scheduler
      /\ me.kind = "daily" => e = [me EXCEPT !.at = "marking"]
  <2>1. CASE me.kind = "bulk"
    <3>1. e = Resting /\ Resting.at = "resting" /\ Resting.begun = 0 /\ Resting.run = 0 /\ Resting.kind = "none"
      BY <2>1 DEF Resting
    <3>2. 0 <= clock /\ 0 <= Len(runs)
      BY <1>1 DEF AuditShapes
    <3> HIDE DEF e
    <3>3. QED
      BY <2>1, <3>1, <3>2, RestingRow
  <2>2. CASE me.kind # "bulk"
    <3>1. e = [me EXCEPT !.at = "marking"]
      BY <2>2
    <3> HIDE DEF e
    <3>2. e \in WorkerRow /\ e.at = "marking" /\ e.begun = me.begun /\ e.run = me.run /\ e.kind = me.kind
      BY <1>1, <3>1 DEF WorkerRow
    <3>3. QED
      BY <1>1, <3>1, <3>2 DEF WorkerInv
  <2>3. QED
    BY <2>1, <2>2
<1> HIDE DEF e
<1>8. AuditBase' /\ worker'[w] = e /\ \A v \in Workers : v # w => worker'[v] = worker[v]
  <2>1. reports' \in Seq(ReportRow) /\ Len(reports') = Len(reports)
    BY <1>6 DEF ReportEnds
  <2>2. \E m \in Nat : \A i \in DOMAIN reports' : reports'[i].number <= m
    <3>1. PICK m \in Nat : \A i \in DOMAIN reports : reports[i].number <= m
      BY <1>1 DEF AuditShapes
    <3>2. \A i \in DOMAIN reports' : reports'[i].number <= m
      BY <1>2, <1>5, <1>6, <3>1 DEF ReportEnds
    <3>3. QED
      BY <3>2
  <2>3. /\ schedule' \in [on : BOOLEAN, last : Nat] /\ schedule'.last <= clock
        /\ auditBudget' \in [requests : Nat, troubles : Nat, crashes : Nat]
    BY <1>1, <1>3 DEF AuditShapes
  <2>4. e.at \notin OnRun /\ e.at \notin {"numbered", "next"} /\ e.at # "asked" /\ e.at # "judging"
    BY <1>7 DEF OnRun
  <2>5. QED
    BY <1>1, <1>3, <1>7, <2>1, <2>2, <2>3, <2>4, BaseMoves
<1>9. ReportInv'
  <2>1. ~Reporting(w)'
    BY <1>7, <1>8 DEF Reporting, OnReport
  <2>2. row.status = ScheduledAuditResult(row.total, row.ok)
    BY <1>5
  <2> HIDE DEF status
  <2>3. ReportEnds(worker[w].report, row)
    BY <1>6
  <2>4. QED
    BY <1>1, <1>2, <1>3, <1>5, <1>8, <2>1, <2>2, <2>3, ReportsClose
<1>10. PostureInv'
  BY <1>1, <1>3, <1>7, <1>8, PostureMoves
<1>11. \A day \in Nat : DailyInv(day)'
  <2>1. worker'[w].at \notin AtWork
    BY <1>7, <1>8 DEF AtWork
  <2>2. row.status # "running"
    BY <1>4, <1>5
  <2> HIDE DEF status
  <2>3. worker[w].at = "next" /\ (worker[w].kind = "daily" => worker'[w] = [worker[w] EXCEPT !.at = "marking"])
    BY <1>1, <1>7, <1>8
  <2>4. QED
    BY <1>1, <1>2, <1>3, <1>5, <1>6, <1>8, <2>1, <2>2, <2>3, DailyCloses
<1>12. QED
  BY <1>8, <1>9, <1>10, <1>11 DEF AuditInv

LEMMA StepMarks == ASSUME AuditInv, NEW w \in Workers, MarkDay(w) PROVE AuditInv'
<1>1. /\ AuditBase /\ AuditShapes /\ ReportInv /\ PostureInv /\ (\A day \in Nat : DailyInv(day))
      /\ worker[w].at = "marking" /\ Becomes(w, Resting) /\ schedule' = [schedule EXCEPT !.last = clock]
      /\ UNCHANGED << inFleet, enabled, posture, changedAt, runs, reports, clock, auditBudget >>
  BY DEF AuditInv, AuditBase, MarkDay
<1>2. schedule' \in [on : BOOLEAN, last : Nat] /\ schedule'.last = clock /\ clock \in Nat
  BY <1>1 DEF AuditShapes
<1>3. /\ Resting \in WorkerRow /\ Resting.run = 0 /\ Resting.at = "resting" /\ Resting.kind = "none" /\ Resting.begun = 0
      /\ Resting.at \notin OnRun /\ Resting.at \notin AtWork
  BY RestingRow DEF Resting, OnRun, AtWork
<1>4. AuditBase' /\ worker'[w] = Resting /\ \A v \in Workers : v # w => worker'[v] = worker[v]
  <2>1. /\ reports' \in Seq(ReportRow) /\ Len(reports') = Len(reports)
        /\ \E n \in Nat : \A i \in DOMAIN reports' : reports'[i].number <= n
    BY <1>1 DEF AuditShapes
  <2>2. 0 <= clock /\ 0 <= Len(runs) /\ auditBudget' \in [requests : Nat, troubles : Nat, crashes : Nat]
    BY <1>1 DEF AuditShapes
  <2>3. schedule'.last <= clock
    BY <1>2
  <2>4. QED
    BY <1>1, <1>2, <1>3, <2>1, <2>2, <2>3, BaseMoves
<1>5. ReportInv'
  <2>1. ~Reporting(w)'
    BY <1>4 DEF Reporting, OnReport, Resting
  <2>2. \A v \in Workers : Reporting(v)' => Reporting(v) /\ worker'[v].report = worker[v].report
    BY <1>4, <2>1 DEF Reporting
  <2>3. \A v \in Workers : OpenReportInv(v)'
    <3>1. OpenReportInv(w)'
      BY <2>1 DEF OpenReportInv
    <3>2. ASSUME NEW v \in Workers, v # w PROVE OpenReportInv(v)'
      BY <1>1, <1>4, <3>2, SteadySame, OpenStays DEF ReportInv, OpenReportInv
    <3>3. QED
      BY <3>1, <3>2
  <2>4. QED
    BY <1>1, <2>2, <2>3, ReportsMove
<1>6. PostureInv'
  BY <1>1, <1>3, <1>4, PostureMoves
<1>7. \A day \in Nat : DailyInv(day)'
  BY <1>1, <1>2, <1>4, DailyMarked
<1>8. QED
  BY <1>4, <1>5, <1>6, <1>7 DEF AuditInv

\* A request audits one device, or a text.
LEMMA StepAlone ==
  ASSUME AuditInv, NEW w \in Workers, worker[w].at = "resting", Accepts(w),
         NEW d \in inFleet \cup {Nothing}, NEW source \in {"live", "upload"}, _create_running_audit_row(d, source, 0),
         NEW e \in WorkerRow, Becomes(w, e), e.at \in OnRun, e.report = 0, e.run = Len(runs) + 1, e.kind = source, e.about = d,
         e.begun = 0, e.at = "asked" \/ source = "live" => d \in inFleet, e.at = "judging" => e.got \in Postures /\ source = "upload",
         UNCHANGED << inFleet, enabled, posture, changedAt, reports, schedule, clock >>
  PROVE  AuditInv'
<1>1. AuditBase /\ AuditShapes /\ ReportInv /\ PostureInv /\ (\A day \in Nat : DailyInv(day)) /\ inFleet \subseteq Fleet
  BY DEF AuditInv, AuditBase, AuditShapes
<1>2. auditBudget' \in [requests : Nat, troubles : Nat, crashes : Nat] /\ auditBudget'.crashes = auditBudget.crashes
  BY <1>1, BudgetSpent DEF AuditBudgets
<1>3. AuditBase' /\ worker'[w] = e /\ (\A v \in Workers : v # w => worker'[v] = worker[v]) /\ RunStarts(d, source, 0)
  BY <1>1, <1>2, BaseAccepts
<1>4. ReportInv'
  <2>1. ~Reporting(w)
    BY DEF Reporting, OnReport
  <2>2. QED
    BY <1>1, <1>3, <2>1, ReportsApartFromLive
<1>5. PostureInv'
  BY <1>1, <1>3, PostureStarts
<1>6. \A day \in Nat : DailyInv(day)'
  BY <1>1, <1>2, <1>3, DailyMoves, DailiesStay
<1>7. QED
  BY <1>3, <1>4, <1>5, <1>6 DEF AuditInv

LEMMA StepLive == ASSUME AuditInv, NEW w \in Workers, audit_live_device(w) PROVE AuditInv'
<1>1. PICK d \in inFleet :
        /\ _create_running_audit_row(d, "live", 0)
        /\ Becomes(w, [Resting EXCEPT !.at = "asked", !.kind = "live", !.run = Len(runs) + 1, !.about = d])
  BY DEF audit_live_device
<1> DEFINE e == [Resting EXCEPT !.at = "asked", !.kind = "live", !.run = Len(runs) + 1, !.about = d]
<1>2. d \in Fleet /\ Len(runs) + 1 \in Nat
  BY DEF AuditInv, AuditBase, AuditShapes
<1>3. /\ e \in WorkerRow /\ e.at = "asked" /\ e.report = 0 /\ e.run = Len(runs) + 1 /\ e.kind = "live" /\ e.about = d
      /\ e.begun = 0 /\ e.at \in OnRun /\ e.at # "judging"
  BY <1>2 DEF Resting, WorkerRow, OnRun
<1>4. Becomes(w, e)
  BY <1>1
<1> HIDE DEF e
<1>5. worker[w].at = "resting" /\ Accepts(w) /\ UNCHANGED << inFleet, enabled, posture, changedAt, reports, schedule, clock >>
  BY DEF audit_live_device, Accepts
<1>6. QED
  BY <1>1, <1>3, <1>4, <1>5, StepAlone

LEMMA StepUpload == ASSUME AuditInv, NEW w \in Workers, audit_uploaded_config(w) PROVE AuditInv'
<1>1. PICK d \in inFleet \cup {Nothing}, c \in Postures :
        /\ _create_running_audit_row(d, "upload", 0)
        /\ Becomes(w, [Resting EXCEPT !.at = "judging", !.kind = "upload", !.run = Len(runs) + 1, !.about = d, !.got = c])
  BY DEF audit_uploaded_config
<1> DEFINE e == [Resting EXCEPT !.at = "judging", !.kind = "upload", !.run = Len(runs) + 1, !.about = d, !.got = c]
<1>2. d \in Fleet \cup {Nothing} /\ Len(runs) + 1 \in Nat
  BY DEF AuditInv, AuditBase, AuditShapes
<1>3. /\ e \in WorkerRow /\ e.at = "judging" /\ e.report = 0 /\ e.run = Len(runs) + 1 /\ e.kind = "upload" /\ e.about = d
      /\ e.begun = 0 /\ e.at \in OnRun /\ e.at # "asked" /\ e.got = c
  BY <1>2 DEF Resting, WorkerRow, OnRun
<1>4. Becomes(w, e)
  BY <1>1
<1> HIDE DEF e
<1>5. worker[w].at = "resting" /\ Accepts(w) /\ UNCHANGED << inFleet, enabled, posture, changedAt, reports, schedule, clock >>
  BY DEF audit_uploaded_config, Accepts
<1>6. QED
  BY <1>1, <1>3, <1>4, <1>5, StepAlone

\* The workers and the tables stay, and so do the days.
LEMMA StillDays ==
  ASSUME \A day \in Nat : DailyInv(day), UNCHANGED <<reports, worker>>,
         schedule'.last = schedule.last, auditBudget'.crashes = auditBudget.crashes
  PROVE  \A day \in Nat : DailyInv(day)'
<1> TAKE day \in Nat
<1>1. Dailies(day)' = Dailies(day) /\ (Covered(day) => Covered(day)') /\ (Attended(day)' => Attended(day)) /\ DailyInv(day)
  BY DEF Dailies, Covered, Marking, Attended
<1>2. QED
  BY <1>1, DailyStays

LEMMA StillReports ==
  ASSUME ReportInv, UNCHANGED <<reports, runs, worker>>
  PROVE  ReportInv'
<1>1. ASSUME NEW w \in Workers PROVE OpenReportInv(w)'
  <2>1. OpenReportInv(w) /\ (Reporting(w)' => Reporting(w)) /\ \A n, status : Marked(n, status)' = Marked(n, status)
    BY DEF ReportInv, Reporting, Marked
  <2>2. QED
    BY <2>1 DEF OpenReportInv
<1>2. \A n \in DOMAIN reports' : ClosedInv(n)'
  BY DEF ReportInv, ClosedInv, Marked
<1>3. DevicesInv'
  BY DEF ReportInv, DevicesInv
<1>4. QED
  BY <1>1, <1>2, <1>3 DEF ReportInv, Reporting

LEMMA StepReconfigures == ASSUME AuditInv, Reconfigure PROVE AuditInv'
<1>1. /\ AuditBase /\ AuditShapes /\ ReportInv /\ PostureInv /\ (\A day \in Nat : DailyInv(day))
      /\ UNCHANGED << inFleet, enabled, runs, reports, worker, schedule, clock >>
  BY DEF AuditInv, AuditBase, Reconfigure
<1>2. PICK d \in Fleet, c \in Postures : posture' = [posture EXCEPT ![d] = c] /\ changedAt' = [changedAt EXCEPT ![d] = Len(runs)]
  BY DEF Reconfigure
<1>3. auditBudget' \in AuditBudgets /\ auditBudget'.crashes = auditBudget.crashes
  BY <1>1, BudgetSpent DEF Reconfigure
<1>4. /\ posture' \in [Fleet -> Postures] /\ changedAt' \in [Fleet -> Nat] /\ changedAt'[d] = Len(runs)
      /\ \A x \in Fleet : x # d => posture'[x] = posture[x] /\ changedAt'[x] = changedAt[x]
  BY <1>1, <1>2 DEF AuditShapes
<1>5. AuditBase'
  <2>1. AuditShapes'
    <3>1. \A x \in Fleet : changedAt'[x] <= Len(runs')
      <4>1. Len(runs) \in Nat /\ \A x \in Fleet : changedAt[x] <= Len(runs)
        BY <1>1 DEF AuditShapes
      <4>2. Len(runs) <= Len(runs)
        BY <4>1
      <4>3. \A x \in Fleet : changedAt'[x] <= Len(runs)
        BY <1>4, <4>1, <4>2
      <4>4. QED
        BY <1>1, <4>3
    <3>2. /\ runs' \in Seq(RunRow) /\ \A k \in DOMAIN runs' : runs'[k].report <= Len(reports')
          /\ reports' \in Seq(ReportRow) /\ \E n \in Nat : \A i \in DOMAIN reports' : reports'[i].number <= n
      BY <1>1 DEF AuditShapes
    <3>3. /\ inFleet' \subseteq Fleet /\ enabled' \subseteq Fleet /\ worker' \in [Workers -> WorkerRow]
          /\ schedule' \in [on : BOOLEAN, last : Nat] /\ clock' \in Nat /\ schedule'.last <= clock'
      BY <1>1 DEF AuditShapes
    <3>4. QED
      BY <1>3, <1>4, <3>1, <3>2, <3>3 DEF AuditShapes, AuditBudgets
  <2>2. \A w \in Workers : WorkerInv(w)'
    BY <1>1 DEF AuditBase, WorkerInv
  <2>3. RunsApart'
    BY <1>1 DEF AuditBase, RunsApart
  <2>4. QED
    BY <2>1, <2>2, <2>3 DEF AuditBase
<1>6. PostureInv'
  <2>1. \A k \in DOMAIN runs : k <= Len(runs) /\ k \in Nat /\ runs[k].device \in Fleet \cup {Nothing} /\ Len(runs) \in Nat
    <3>1. Len(runs) \in Nat
      BY <1>1 DEF AuditShapes
    <3>2. QED
      BY <1>1, <3>1, RunsTyped
  <2>2. \A w \in Workers : worker[w].run <= Len(runs) /\ worker[w].run \in Nat
    BY <1>1 DEF AuditBase, AuditShapes, WorkerInv, WorkerRow
  <2>3. \A k \in DOMAIN runs' : runs'[k].device \in inFleet' \cup {Nothing}
    BY <1>1 DEF PostureInv
  <2>4. \A k \in DOMAIN runs' :
          runs'[k].status = "completed" /\ runs'[k].source # "upload" /\ runs'[k].device # Nothing
            /\ k > changedAt'[runs'[k].device] => runs'[k].read = posture'[runs'[k].device]
    BY <1>1, <1>4, <2>1 DEF PostureInv
  <2>5. \A w \in Workers :
          worker'[w].at = "judging" /\ worker'[w].kind # "upload" /\ worker'[w].about \in inFleet'
            /\ worker'[w].run > changedAt'[worker'[w].about]
            => worker'[w].got = posture'[worker'[w].about]
    <3> SUFFICES ASSUME NEW w \in Workers, worker[w].at = "judging", worker[w].kind # "upload", worker[w].about \in inFleet,
                        worker[w].run > changedAt'[worker[w].about]
                 PROVE  worker[w].got = posture'[worker[w].about]
      BY <1>1
    <3>1. worker[w].about \in Fleet
      BY <1>1 DEF AuditShapes
    <3>2. worker[w].about # d
      BY <1>4, <2>2
    <3>3. QED
      BY <1>4, <3>1, <3>2, <1>1 DEF PostureInv
  <2>6. QED
    BY <2>3, <2>4, <2>5 DEF PostureInv
<1>7. ReportInv' /\ \A day \in Nat : DailyInv(day)'
  BY <1>1, <1>3, StillReports, StillDays
<1>8. QED
  BY <1>5, <1>6, <1>7 DEF AuditInv

LEMMA StepRemoves == ASSUME AuditInv, DeviceRemoved PROVE AuditInv'
<1>1. /\ AuditBase /\ AuditShapes /\ ReportInv /\ PostureInv /\ (\A day \in Nat : DailyInv(day))
      /\ UNCHANGED << enabled, posture, changedAt, reports, worker, schedule, clock >>
  BY DEF AuditInv, AuditBase, DeviceRemoved
<1>2. PICK d \in inFleet :
        /\ inFleet' = inFleet \ {d}
        /\ runs' = [i \in DOMAIN runs |-> IF runs[i].device = d THEN [runs[i] EXCEPT !.device = Nothing] ELSE runs[i]]
  BY DEF DeviceRemoved
<1>3. auditBudget' \in AuditBudgets /\ auditBudget'.crashes = auditBudget.crashes
  BY <1>1, BudgetSpent DEF DeviceRemoved
<1>4. /\ DOMAIN runs' = DOMAIN runs
      /\ \A k \in DOMAIN runs :
           /\ runs'[k].report = runs[k].report /\ runs'[k].status = runs[k].status /\ runs'[k].source = runs[k].source
           /\ runs'[k].read = runs[k].read /\ runs'[k] \in RunRow
           /\ runs'[k].device = IF runs[k].device = d THEN Nothing ELSE runs[k].device
  <2>1. \A k \in DOMAIN runs : runs[k] \in RunRow
    BY <1>1, RunsTyped
  <2>2. QED
    BY <1>2, <2>1 DEF RunRow
<1>5. runs' \in Seq(RunRow) /\ Len(runs') = Len(runs)
  <2>1. runs \in Seq(RunRow)
    BY <1>1 DEF AuditShapes
  <2>2. runs' = [i \in DOMAIN runs |-> runs'[i]]
    BY <1>2
  <2>3. QED
    BY <1>4, <2>1, <2>2, RowsChanged
<1>6. AuditBase'
  <2>1. AuditShapes'
    BY <1>1, <1>2, <1>3, <1>4, <1>5 DEF AuditShapes, AuditBudgets
  <2>2. \A w \in Workers : WorkerInv(w)'
    BY <1>1, <1>2, <1>4, <1>5 DEF AuditBase, WorkerInv
  <2>3. RunsApart'
    BY <1>1 DEF AuditBase, RunsApart
  <2>4. QED
    BY <2>1, <2>2, <2>3 DEF AuditBase
<1>7. PostureInv'
  <2>1. d # Nothing
    BY <1>1, NothingAssumption DEF AuditShapes
  <2>2. QED
    BY <1>1, <1>2, <1>4, <2>1 DEF PostureInv
<1>8. ReportInv' /\ \A day \in Nat : DailyInv(day)'
  BY <1>1, <1>2, <1>3, ReportsRemove, StillDays
<1>9. QED
  BY <1>6, <1>7, <1>8 DEF AuditInv

\* What does not touch runs, reports and workers.
LEMMA StepAside ==
  ASSUME AuditInv, UNCHANGED << inFleet, posture, changedAt, runs, reports, worker >>, enabled' \subseteq Fleet,
         schedule' \in [on : BOOLEAN, last : Nat], schedule'.last = schedule.last, clock' \in Nat, clock <= clock',
         auditBudget' \in AuditBudgets, auditBudget'.crashes = auditBudget.crashes
  PROVE  AuditInv'
<1>1. AuditBase /\ AuditShapes /\ ReportInv /\ PostureInv /\ (\A day \in Nat : DailyInv(day))
  BY DEF AuditInv, AuditBase
<1>2. AuditShapes'
  <2>1. /\ runs' \in Seq(RunRow) /\ \A k \in DOMAIN runs' : runs'[k].report <= Len(reports')
        /\ reports' \in Seq(ReportRow) /\ \E n \in Nat : \A i \in DOMAIN reports' : reports'[i].number <= n
    BY <1>1 DEF AuditShapes
  <2>2. /\ inFleet' \subseteq Fleet /\ posture' \in [Fleet -> Postures] /\ worker' \in [Workers -> WorkerRow]
        /\ changedAt' \in [Fleet -> Nat] /\ \A d \in Fleet : changedAt'[d] <= Len(runs')
    BY <1>1 DEF AuditShapes
  <2>3. schedule'.last <= clock'
    <3>1. schedule.last \in Nat /\ schedule.last <= clock /\ clock \in Nat
      BY <1>1 DEF AuditShapes
    <3>2. QED
      BY <3>1
  <2>4. QED
    BY <2>1, <2>2, <2>3 DEF AuditShapes, AuditBudgets
<1>3. \A w \in Workers : WorkerInv(w)'
  <2>1. \A w \in Workers : worker[w].begun <= clock'
    <3>1. \A w \in Workers : worker[w].begun \in Nat /\ worker[w].begun <= clock
      BY <1>1 DEF AuditBase, AuditShapes, WorkerInv, WorkerRow
    <3>2. clock \in Nat
      BY <1>1 DEF AuditShapes
    <3>3. QED
      BY <3>1, <3>2
  <2>2. QED
    BY <1>1, <2>1 DEF AuditBase, WorkerInv
<1>4. RunsApart'
  BY <1>1 DEF AuditBase, RunsApart
<1>5. PostureInv'
  BY <1>1 DEF PostureInv
<1>6. ReportInv' /\ \A day \in Nat : DailyInv(day)'
  BY <1>1, StillReports, StillDays
<1>7. QED
  BY <1>2, <1>3, <1>4, <1>5, <1>6 DEF AuditInv, AuditBase

\* The process dies: all workers rest, and one more batch of the day may be closed.
LEMMA StepCrashes == ASSUME AuditInv, AuditCrash PROVE AuditInv'
<1>1. /\ AuditBase /\ AuditShapes /\ ReportInv /\ PostureInv /\ (\A day \in Nat : DailyInv(day))
      /\ UNCHANGED << inFleet, enabled, posture, changedAt, runs, reports, schedule, clock >>
      /\ worker' = [w \in Workers |-> Resting]
  BY DEF AuditInv, AuditBase, AuditCrash
<1>2. auditBudget' \in AuditBudgets /\ auditBudget'.crashes = auditBudget.crashes + 1 /\ auditBudget.crashes \in Nat
  BY <1>1, BudgetSpent DEF AuditCrash, AuditShapes
<1>3. \A w \in Workers : worker'[w] = Resting
  BY <1>1
<1>4. AuditBase'
  <2>1. AuditShapes'
    BY <1>1, <1>2, RestingRow DEF AuditShapes, AuditBudgets
  <2>2. 0 <= clock /\ 0 <= Len(runs)
    BY <1>1 DEF AuditShapes
  <2>3. \A w \in Workers : WorkerInv(w)'
    BY <1>1, <1>3, <2>2 DEF WorkerInv, Resting, OnRun, OnReport
  <2>4. RunsApart'
    BY <1>3 DEF RunsApart, Resting, OnRun
  <2>5. QED
    BY <2>1, <2>3, <2>4 DEF AuditBase
<1>5. \A w \in Workers : ~Reporting(w)'
  BY <1>3 DEF Reporting, Resting, OnReport
<1>6. ReportInv'
  <2>1. \A w \in Workers : OpenReportInv(w)'
    BY <1>5 DEF OpenReportInv
  <2>2. QED
    BY <1>1, <1>5, <2>1, ReportsMove
<1>7. PostureInv'
  BY <1>1, <1>3 DEF PostureInv, Resting
<1>8. \A day \in Nat : DailyInv(day)'
  <2> TAKE day \in Nat
  <2>1. Dailies(day)' = Dailies(day)
    BY <1>1 DEF Dailies
  <2>2. Cardinality(Dailies(day)) <= 1 + auditBudget.crashes /\ Cardinality(Dailies(day)) \in Nat
    BY <1>1, DailiesFinite DEF DailyInv
  <2>3. Cardinality(Dailies(day)) <= auditBudget'.crashes /\ Cardinality(Dailies(day)) <= 1 + auditBudget'.crashes
    BY <1>2, <2>2
  <2>4. QED
    BY <2>1, <2>3 DEF DailyInv
<1>9. QED
  BY <1>4, <1>6, <1>7, <1>8 DEF AuditInv

LEMMA AuditBegins ==
  ASSUME AuditInit
  PROVE  AuditInv
<1>1. /\ AuditBase /\ AuditShapes /\ runs = <<>> /\ reports = <<>> /\ worker = [w \in Workers |-> Resting]
      /\ auditBudget.crashes = 0
  BY BaseBegins DEF AuditInit, AuditBase
<1>2. DOMAIN runs = {} /\ DOMAIN reports = {} /\ \A w \in Workers : worker[w] = Resting
  BY <1>1
<1>3. \A w \in Workers : ~Reporting(w)
  BY <1>2 DEF Reporting, Resting, OnReport
<1>4. ReportInv
  BY <1>2, <1>3 DEF ReportInv, OpenReportInv, DevicesInv
<1>5. PostureInv
  BY <1>2 DEF PostureInv, Resting
<1>6. ASSUME NEW day \in Nat PROVE DailyInv(day)
  <2>1. Dailies(day) = {} /\ Cardinality({}) = 0
    BY <1>2, FS_EmptySet DEF Dailies
  <2>2. 0 <= auditBudget.crashes /\ 0 <= 1 + auditBudget.crashes
    BY <1>1
  <2>3. QED
    BY <2>1, <2>2 DEF DailyInv
<1>7. QED
  BY <1>1, <1>4, <1>5, <1>6 DEF AuditInv

LEMMA AuditGoesOn ==
  ASSUME AuditInv, [AuditNext]_auditVars
  PROVE  AuditInv'
<1>1. CASE _poll_once
  BY <1>1, StepPolls
<1>2. ASSUME NEW w \in Workers, AuditWork(w) PROVE AuditInv'
  BY <1>2, StepInserts, StepStarts, StepReads, StepGone, StepPersists, StepCloses, StepMarks DEF AuditWork
<1>3. ASSUME NEW w \in Workers,
             RunFails(w) \/ run_schedule_now(w) \/ run_bulk_audit(w) \/ audit_live_device(w) \/ audit_uploaded_config(w)
      PROVE  AuditInv'
  BY <1>3, StepFails, StepNow, StepBulk, StepLive, StepUpload
<1>4. CASE Reconfigure
  BY <1>4, StepReconfigures
<1>5. CASE DeviceRemoved
  BY <1>5, StepRemoves
<1> DEFINE Budgets == auditBudget' \in AuditBudgets /\ auditBudget'.crashes = auditBudget.crashes
<1>6. AuditShapes
  BY DEF AuditInv, AuditBase
<1>7. CASE DeviceDisabled
  <2>1. Budgets /\ UNCHANGED << inFleet, posture, changedAt, runs, reports, worker, schedule, clock >>
    BY <1>6, <1>7, BudgetSpent DEF DeviceDisabled
  <2>2. enabled' \subseteq Fleet
    BY <1>6, <1>7 DEF DeviceDisabled, AuditShapes
  <2>3. schedule' \in [on : BOOLEAN, last : Nat] /\ clock' \in Nat /\ clock <= clock'
    BY <1>6, <2>1 DEF AuditShapes
  <2>4. QED
    BY <2>1, <2>2, <2>3, StepAside
<1>8. CASE update_schedule_settings
  <2>1. Budgets /\ UNCHANGED << inFleet, enabled, posture, changedAt, runs, reports, worker, clock >>
    BY <1>6, <1>8, BudgetSpent DEF update_schedule_settings
  <2>2. schedule' \in [on : BOOLEAN, last : Nat] /\ schedule'.last = schedule.last
    BY <1>6, <1>8 DEF update_schedule_settings, AuditShapes
  <2>3. enabled' \subseteq Fleet /\ clock' \in Nat /\ clock <= clock'
    BY <1>6, <2>1 DEF AuditShapes
  <2>4. QED
    BY <2>1, <2>2, <2>3, StepAside
<1>9. CASE AuditCrash
  BY <1>9, StepCrashes
<1>10. CASE TimePasses \/ UNCHANGED auditVars
  <2>1. UNCHANGED << inFleet, enabled, posture, changedAt, runs, reports, worker, schedule, auditBudget >>
    BY <1>10 DEF TimePasses, auditVars
  <2>2. clock' \in Nat /\ clock <= clock' /\ enabled' \subseteq Fleet /\ schedule' \in [on : BOOLEAN, last : Nat]
    BY <1>6, <1>10, <2>1 DEF TimePasses, auditVars, AuditShapes
  <2>3. Budgets
    BY <1>6, <2>1 DEF AuditShapes, AuditBudgets
  <2>4. QED
    BY <2>1, <2>2, <2>3, StepAside
<1>11. QED
  BY <1>1, <1>2, <1>3, <1>4, <1>5, <1>7, <1>8, <1>9, <1>10 DEF AuditNext

\* What every step of the scheduler and of the requests keeps: types, places of the workers, open and closed
\* batches, what the runs have read, and the batches of each day.
THEOREM AuditsHold == AuditSpec => []AuditInv
BY AuditBegins, AuditGoesOn, PTL DEF AuditSpec

-----------------------------------------------------------------------------
(* What it means.                                                          *)

\* The page of a batch counts what the batch does.
LEMMA PageCounts ==
  ASSUME NEW n
  PROVE  LET page == get_audit_batch_summary(n).devices IN
         /\ DOMAIN page = RunsOf(n) /\ \A k \in RunsOf(n) : page[k] = runs[k].status
         /\ \A status : { k \in DOMAIN page : page[k] = status } = Marked(n, status)
<1> DEFINE page == get_audit_batch_summary(n).devices
<1>1. page = [i \in RunsOf(n) |-> runs[i].status]
  BY DEF get_audit_batch_summary
<1> HIDE DEF page
<1>2. DOMAIN page = RunsOf(n) /\ \A k \in RunsOf(n) : page[k] = runs[k].status
  BY <1>1
<1>3. \A status : { k \in DOMAIN page : page[k] = status } = Marked(n, status)
  BY <1>2 DEF Marked, RunsOf
<1>4. QED
  BY <1>2, <1>3 DEF page

\* A closed batch is what its page says.
LEMMA ClosedIsTrue ==
  ASSUME AuditInv, NEW i \in DOMAIN reports, reports[i].status # "running"
  PROVE  LET r == reports[i]
             page == get_audit_batch_summary(i).devices
             with(status) == Cardinality({ k \in DOMAIN page : page[k] = status }) IN
         /\ with("completed") = r.ok /\ with("failed") = r.bad /\ with("running") = 0
         /\ r.ok + r.bad = r.total /\ r.total = Cardinality(r.selected)
         /\ \A k, l \in DOMAIN page : k # l /\ runs[k].device # Nothing => runs[k].device # runs[l].device
         /\ \A k \in DOMAIN page : runs[k].device \in r.selected \cup {Nothing}
         /\ (r.status = "completed") = (r.bad = 0)
         /\ (r.status = "failed") = (r.ok = 0 /\ r.total > 0)
<1> DEFINE r == reports[i]
           page == get_audit_batch_summary(i).devices
           with(status) == Cardinality({ k \in DOMAIN page : page[k] = status })
<1>1. AuditShapes /\ ClosedInv(i) /\ DevicesInv
  BY DEF AuditInv, AuditBase, ReportInv
<1>2. i # 0 /\ r.ok \in Nat /\ r.bad \in Nat /\ r.total \in Nat
  BY <1>1, ReportsTyped DEF ReportRow
<1>3. DOMAIN page = RunsOf(i) /\ \A status : { k \in DOMAIN page : page[k] = status } = Marked(i, status)
  BY PageCounts
<1>4. with("completed") = Cardinality(Marked(i, "completed")) /\ with("failed") = Cardinality(Marked(i, "failed"))
      /\ with("running") = Cardinality(Marked(i, "running"))
  BY <1>3
<1>5. /\ Cardinality(Marked(i, "completed")) = r.ok /\ Cardinality(Marked(i, "failed")) = r.bad
      /\ Marked(i, "running") = {} /\ r.ok + r.bad = r.total /\ r.total = Cardinality(r.selected)
      /\ r.status = ScheduledAuditResult(r.total, r.ok)
  BY <1>1 DEF ClosedInv
<1>6. with("completed") = r.ok /\ with("failed") = r.bad /\ with("running") = 0
  BY <1>4, <1>5, FS_EmptySet
<1>7. \A k, l \in DOMAIN page : k # l /\ runs[k].device # Nothing => runs[k].device # runs[l].device
  BY <1>1, <1>2, <1>3 DEF RunsOf, DevicesInv
<1>8. \A k \in DOMAIN page : runs[k].device \in r.selected \cup {Nothing}
  BY <1>1, <1>2, <1>3 DEF RunsOf, DevicesInv
<1>9. (r.status = "completed") = (r.bad = 0) /\ (r.status = "failed") = (r.ok = 0 /\ r.total > 0)
  <2> DEFINE status == r.status  total == r.total  ok == r.ok  bad == r.bad
  <2>1. status = ScheduledAuditResult(total, ok) /\ ok + bad = total /\ ok \in Nat /\ bad \in Nat /\ total \in Nat
    BY <1>2, <1>5
  <2> HIDE DEF status, total, ok, bad
  <2>2. CASE bad = 0
    BY <2>1, <2>2 DEF ScheduledAuditResult, status, total, ok, bad
  <2>3. CASE bad # 0 /\ ok = 0
    <3>1. total > 0 /\ ok # total
      BY <2>1, <2>3
    <3>2. status = "failed"
      BY <2>1, <2>3, <3>1 DEF ScheduledAuditResult
    <3>3. QED
      BY <2>3, <3>1, <3>2 DEF status, total, ok, bad
  <2>4. CASE bad # 0 /\ ok # 0
    <3>1. total # 0 /\ ok # total
      BY <2>1, <2>4
    <3>2. status = "partial"
      BY <2>4, <3>1, <2>1 DEF ScheduledAuditResult
    <3>3. QED
      BY <2>4, <3>2 DEF status, total, ok, bad
  <2>5. QED
    BY <2>2, <2>3, <2>4
<1> HIDE DEF r, page, with
<1>10. QED
  BY <1>5, <1>6, <1>7, <1>8, <1>9 DEF r, page, with

\* A closed batch says what became of each of its devices, however many audits overlap (run_scheduled_audit reads
\* the number before it inserts, so that the second of two fails), and whatever devices are removed or the
\* process dies; _poll_once closes one batch a day, and another one only for a crash.
THEOREM BatchesAreTrue == AuditSpec => []BatchesTellTheTruth
<1>1. ASSUME AuditInv PROVE BatchesTellTheTruth
  <2>1. \A i, j \in DOMAIN reports : reports[i].number = reports[j].number => i = j
    BY <1>1 DEF AuditInv, ReportInv
  <2>2. \A day \in 1 .. Day(clock) :
          Cardinality({ i \in DOMAIN reports : reports[i].kind = "daily" /\ reports[i].status # "running"
                                               /\ Day(reports[i].begun) = day }) \leq 1 + auditBudget.crashes
    BY <1>1 DEF AuditInv, DailyInv, Dailies
  <2>3. QED
    BY <1>1, <2>1, <2>2, ClosedIsTrue DEF BatchesTellTheTruth
<1>2. QED
  BY <1>1, AuditsHold, PTL

LEMMA ShownIsLast ==
  ASSUME AuditInv, NEW d \in DOMAIN Shown
  PROVE  d \in inFleet /\ Shown[d] \in CompletedOf(d) /\ \A i \in CompletedOf(d) : i <= Shown[d]
<1> DEFINE S == { runs[i].device : i \in { j \in DOMAIN runs : runs[j].status = "completed" } } \ {Nothing}
<1>1. Shown = [x \in S |-> Max(CompletedOf(x))]
  BY DEF Shown, _latest_completed_runs_by_device
<1>2. d \in S /\ Shown[d] = Max(CompletedOf(d))
  <2> HIDE DEF S
  <2> QED
    BY <1>1
<1>3. PICK i \in DOMAIN runs : runs[i].status = "completed" /\ d = runs[i].device /\ d # Nothing
  BY <1>2
<1>4. AuditShapes /\ PostureInv
  BY DEF AuditInv, AuditBase
<1>5. d \in inFleet
  BY <1>3, <1>4 DEF PostureInv
<1>6. /\ CompletedOf(d) \in SUBSET Nat /\ CompletedOf(d) # {} /\ Len(runs) \in Nat
      /\ \A k \in CompletedOf(d) : k <= Len(runs)
  <2>1. \A k \in DOMAIN runs : k \in Nat /\ k <= Len(runs)
    BY <1>4, RunsTyped
  <2>2. QED
    BY <1>3, <1>4, <2>1 DEF CompletedOf, AuditShapes
<1>7. Max(CompletedOf(d)) \in CompletedOf(d) /\ \A k \in CompletedOf(d) : k <= Max(CompletedOf(d))
  BY <1>6, LastIsThere
<1>8. QED
  BY <1>2, <1>5, <1>7

\* The completed run that started last is what the pages show: when an audit that started after the last
\* change of a device has completed, they show what the device is, unless a text was uploaded since.
THEOREM PostureStaysCurrent == AuditSpec => []PostureIsCurrent
<1>1. ASSUME AuditInv PROVE PostureIsCurrent
  <2>1. DOMAIN Shown \subseteq inFleet
    BY <1>1, ShownIsLast
  <2>2. ASSUME NEW d \in DOMAIN Shown, NEW i \in CompletedOf(d), i > changedAt[d], runs[Shown[d]].source # "upload"
        PROVE  runs[Shown[d]].read = posture[d]
    <3>1. AuditShapes /\ PostureInv
      BY <1>1 DEF AuditInv, AuditBase
    <3>2. d \in inFleet /\ Shown[d] \in CompletedOf(d) /\ i <= Shown[d]
      BY <1>1, <2>2, ShownIsLast
    <3>3. d \in Fleet /\ d # Nothing /\ changedAt[d] \in Nat
      BY <3>1, <3>2, NothingAssumption DEF AuditShapes
    <3>4. /\ Shown[d] \in DOMAIN runs /\ runs[Shown[d]].device = d /\ runs[Shown[d]].status = "completed"
          /\ i \in DOMAIN runs
      BY <2>2, <3>2 DEF CompletedOf
    <3>5. Shown[d] \in Nat /\ i \in Nat
      BY <3>1, <3>4, RunsTyped
    <3>6. Shown[d] > changedAt[d]
      BY <2>2, <3>2, <3>3, <3>5
    <3>7. QED
      BY <2>2, <3>1, <3>3, <3>4, <3>6 DEF PostureInv
  <2>3. QED
    BY <2>1, <2>2 DEF PostureIsCurrent
<1>2. QED
  BY <1>1, AuditsHold, PTL

\* The rows of runs and batches, the workers and the schedule have their types: every run is of a batch there
\* is or of none, every worker's run is in the table, and last_run_at is never in the future.
THEOREM AuditTypesHold == AuditSpec => []AuditTypes
<1>1. ASSUME AuditInv PROVE AuditTypes
  <2>1. AuditShapes /\ \A w \in Workers : WorkerInv(w)
    BY <1>1 DEF AuditInv, AuditBase
  <2>2. Len(runs) \in Nat /\ Len(reports) \in Nat
    BY <2>1 DEF AuditShapes
  <2>3. changedAt \in [Fleet -> 0 .. Len(runs)]
    BY <2>1, <2>2 DEF AuditShapes
  <2>4. ASSUME NEW i \in DOMAIN runs
        PROVE  runs[i] \in [device : Fleet \cup {Nothing}, source : {"scheduled", "live", "upload"},
                            report : 0 .. Len(reports), status : {"running", "completed", "failed"},
                            read : Postures \cup {Nothing}]
    <3>1. runs[i] \in RunRow /\ runs[i].report \in 0 .. Len(reports)
      BY <2>1, <2>2, RunsTyped
    <3>2. QED
      BY <3>1 DEF RunRow
  <2>5. \A i \in DOMAIN reports : reports[i] \in ReportRow
    BY <2>1, ReportsTyped
  <2>6. worker \in [Workers -> [at : {"resting", "numbered", "next", "asked", "judging", "marking"},
                                kind : {"none", "daily", "now", "bulk", "live", "upload"}, selected : SUBSET Fleet,
                                todo : SUBSET Fleet, report : Nat, run : 0 .. Len(runs),
                                about : Fleet \cup {Nothing}, got : Postures \cup {Nothing}, ok : Nat, bad : Nat,
                                begun : Nat]]
    <3> DEFINE Row == [at : {"resting", "numbered", "next", "asked", "judging", "marking"},
                       kind : {"none", "daily", "now", "bulk", "live", "upload"}, selected : SUBSET Fleet,
                       todo : SUBSET Fleet, report : Nat, run : 0 .. Len(runs),
                       about : Fleet \cup {Nothing}, got : Postures \cup {Nothing}, ok : Nat, bad : Nat, begun : Nat]
    <3>1. worker \in [Workers -> WorkerRow]
      BY <2>1 DEF AuditShapes
    <3>2. ASSUME NEW w \in Workers PROVE worker[w] \in Row
      <4>1. worker[w] \in WorkerRow /\ worker[w].run <= Len(runs)
        BY <2>1, <3>1 DEF WorkerInv
      <4>2. worker[w].run \in 0 .. Len(runs)
        BY <2>2, <4>1 DEF WorkerRow
      <4>3. QED
        BY <4>1, <4>2 DEF WorkerRow
    <3> HIDE DEF Row
    <3>3. worker \in [Workers -> Row]
      BY <3>1, <3>2
    <3>4. QED
      BY <3>3 DEF Row
  <2>7. schedule \in [on : BOOLEAN, last : 0 .. clock] /\ clock \in Nat
    BY <2>1 DEF AuditShapes
  <2>8. QED
    BY <2>1, <2>3, <2>4, <2>5, <2>6, <2>7 DEF AuditTypes, AuditShapes, ReportRow
<1>2. QED
  BY <1>1, AuditsHold, PTL

-----------------------------------------------------------------------------
(* What the pages say of a control, and of a change.                       *)

\* A completed run has read a configuration.
ReadsInv == \A k \in DOMAIN runs : runs[k].status = "completed" => runs[k].read \in Postures

LEMMA ReadsStart ==
  ASSUME ReadsInv, NEW d, NEW source, NEW n, RunStarts(d, source, n)
  PROVE  ReadsInv'
BY DEF ReadsInv, RunStarts, NewRun

LEMMA ReadsEnd ==
  ASSUME ReadsInv, NEW r \in DOMAIN runs, NEW status, NEW read, RunEnds(r, status, read),
         status = "completed" => read \in Postures
  PROVE  ReadsInv'
BY DEF ReadsInv, RunEnds

LEMMA ReadsGoOn ==
  ASSUME AuditInv, ReadsInv, [AuditNext]_auditVars
  PROVE  ReadsInv'
<1>1. AuditShapes /\ \A w \in Workers : WorkerInv(w)
  BY DEF AuditInv, AuditBase
<1>2. CASE runs' = runs
  BY <1>2 DEF ReadsInv
<1>3. ASSUME NEW w \in Workers, StartRun(w) PROVE ReadsInv'
  <2>1. CASE Min(worker[w].todo) \notin inFleet
    BY <1>2, <1>3, <2>1 DEF StartRun
  <2>2. CASE Min(worker[w].todo) \in inFleet
    <3>1. _create_running_audit_row(Min(worker[w].todo), "scheduled", worker[w].report)
      BY <1>3, <2>2 DEF StartRun
    <3>2. Min(worker[w].todo) \in Fleet \cup {Nothing} /\ worker[w].report \in Nat
      BY <1>1, <2>2 DEF AuditShapes, WorkerRow
    <3>3. QED
      BY <1>1, <3>1, <3>2, RunAdded, ReadsStart
  <2>3. QED
    BY <2>1, <2>2
<1>4. ASSUME NEW w \in Workers, audit_live_device(w) \/ audit_uploaded_config(w) PROVE ReadsInv'
  <2>1. PICK d \in inFleet \cup {Nothing}, source \in {"scheduled", "live", "upload"} : _create_running_audit_row(d, source, 0)
    BY <1>4 DEF audit_live_device, audit_uploaded_config
  <2>2. d \in Fleet \cup {Nothing}
    BY <1>1 DEF AuditShapes
  <2>3. QED
    BY <1>1, <2>1, <2>2, RunAdded, ReadsStart
<1>5. ASSUME NEW w \in Workers, RunFails(w) \/ DeviceGone(w) PROVE ReadsInv'
  <2>1. worker[w].run \in DOMAIN runs
    BY <1>1, <1>5 DEF RunFails, DeviceGone, WorkerInv, OnRun
  <2>2. runs' = runs \/ runs' = [runs EXCEPT ![worker[w].run].status = "failed"]
    BY <1>5 DEF RunFails, DeviceGone
  <2>3. QED
    BY <1>1, <1>2, <2>1, <2>2, RunFailed, ReadsEnd
<1>6. ASSUME NEW w \in Workers, persist_audit_result(w) PROVE ReadsInv'
  <2>1. worker[w].run \in DOMAIN runs /\ worker[w].got \in Postures
    BY <1>1, <1>6 DEF persist_audit_result, WorkerInv, OnRun
  <2>2. runs' = runs \/ runs' = [runs EXCEPT ![worker[w].run].status = "completed", ![worker[w].run].read = worker[w].got]
    BY <1>6 DEF persist_audit_result
  <2>3. QED
    BY <1>1, <1>2, <2>1, <2>2, RunCompleted, ReadsEnd
<1>7. CASE DeviceRemoved
  <2>1. PICK d \in inFleet :
          runs' = [i \in DOMAIN runs |-> IF runs[i].device = d THEN [runs[i] EXCEPT !.device = Nothing] ELSE runs[i]]
    BY <1>7 DEF DeviceRemoved
  <2>2. \A k \in DOMAIN runs : runs[k] \in RunRow
    BY <1>1, RunsTyped
  <2>3. DOMAIN runs' = DOMAIN runs /\ \A k \in DOMAIN runs : runs'[k].status = runs[k].status /\ runs'[k].read = runs[k].read
    BY <2>1, <2>2 DEF RunRow
  <2>4. QED
    BY <2>3 DEF ReadsInv
<1>8. ASSUME NEW w \in Workers,
             \/ InsertReport(w) \/ ReadConfig(w) \/ CloseReport(w) \/ MarkDay(w) \/ run_schedule_now(w) \/ run_bulk_audit(w)
      PROVE  ReadsInv'
  BY <1>2, <1>8 DEF InsertReport, ReadConfig, CloseReport, MarkDay, run_schedule_now, run_bulk_audit
<1>9. CASE \/ _poll_once \/ Reconfigure \/ DeviceDisabled \/ update_schedule_settings \/ AuditCrash \/ TimePasses
           \/ UNCHANGED auditVars
  BY <1>2, <1>9 DEF _poll_once, Reconfigure, DeviceDisabled, update_schedule_settings, AuditCrash, TimePasses, auditVars
<1>10. QED
  BY <1>3, <1>4, <1>5, <1>6, <1>7, <1>8, <1>9 DEF AuditNext, AuditWork

LEMMA ReadsHold == AuditSpec => []ReadsInv
<1>1. AuditInit => ReadsInv
  BY DEF AuditInit, ReadsInv
<1>2. QED
  BY <1>1, AuditsHold, ReadsGoOn, PTL DEF AuditSpec

\* The row an audit stores for a control is about the findings behind it.
LEMMA ControlRow ==
  ASSUME NEW c \in Postures, NEW x \in DOMAIN Framework
  PROVE  LET controls == AuditOf[c].controls IN
         /\ x \in DOMAIN controls <=> Behind[c][x] # {}
         /\ x \in DOMAIN controls => controls[x] = control_status(Behind[c][x])
<1> DEFINE S == run_all_device_checks(Contents[c]) \cup run_correlation_engine(Contents[c])
                \cup run_interface_checks(Contents[c])
           Of(y) == { f.status : f \in { h \in S : h.check \in Framework[y] } }
<1>1. AuditOf[c] = Stored(S, Framework)
  BY DEF AuditOf, run_device_audit
<1> HIDE DEF S
<1>2. AuditOf[c].findings = S /\ AuditOf[c].controls = map_findings_to_compliance(S, Framework)
  BY <1>1 DEF Stored
<1>3. Behind[c][x] = Of(x)
  BY <1>2 DEF Behind
<1>4. map_findings_to_compliance(S, Framework) = [y \in { z \in DOMAIN Framework : Of(z) # {} } |-> control_status(Of(y))]
  BY DEF map_findings_to_compliance
<1> HIDE DEF Of
<1>5. QED
  BY <1>2, <1>3, <1>4

LEMMA WorstOfRows ==
  ASSUME NEW statuses
  PROVE  /\ Worst(statuses) = "fail" <=> "fail" \in statuses
         /\ Worst(statuses) = "pass" => "manual_review" \notin statuses
<1>1. CASE "fail" \in statuses
  BY <1>1 DEF Worst
<1>2. CASE "fail" \notin statuses /\ "manual_review" \in statuses
  <2>1. statuses \cap {"fail", "manual_review"} = {"manual_review"}
    BY <1>2
  <2>2. QED
    BY <1>2, <2>1 DEF Worst
<1>3. CASE "fail" \notin statuses /\ "manual_review" \notin statuses
  <2>1. statuses \cap {"fail", "manual_review"} # {"manual_review"}
    BY <1>3
  <2>2. QED
    BY <1>3, <2>1 DEF Worst
<1>4. QED
  BY <1>1, <1>2, <1>3

LEMMA StatusOfFindings ==
  ASSUME NEW statuses
  PROVE  /\ control_status(statuses) = "fail" <=> "fail" \in statuses
         /\ control_status(statuses) # "fail" /\ "manual_review" \in statuses => control_status(statuses) = "manual_review"
BY DEF control_status

\* A control fails for the fleet exactly when a failing finding is behind it on some device, and passes only
\* when none is left to review: the compliance page and the page of the control, which reads other tables.
THEOREM ControlsStayTrue == AuditSpec => []ControlsAgree(get_compliance_overview)
<1>1. ASSUME AuditInv, ReadsInv, NEW x \in DOMAIN get_compliance_overview
      PROVE  ControlAgrees(get_compliance_overview[x], get_compliance_control_detail(x))
  <2> DEFINE read(d) == runs[Shown[d]].read
             statuses == UNION Range(get_compliance_control_detail(x).findings)
             rows == { AuditOf[read(d)].controls[x] : d \in Rows(x) }
  <2>1. x \in DOMAIN Framework /\ get_compliance_overview[x] = FleetStatus(x) /\ FleetStatus(x) = Worst(rows)
    BY <1>1 DEF get_compliance_overview, FleetStatus
  <2>2. \A d \in DOMAIN Shown : read(d) \in Postures
    BY <1>1, ShownIsLast DEF CompletedOf, ReadsInv
  <2>3. /\ get_compliance_control_detail(x).status = FleetStatus(x)
        /\ get_compliance_control_detail(x).findings = [d \in DOMAIN Shown |-> Behind[read(d)][x]]
    BY DEF get_compliance_control_detail
  <2>4. \A s : s \in statuses <=> \E d \in DOMAIN Shown : s \in Behind[read(d)][x]
    BY <2>3 DEF Range
  <2>5. \A d \in DOMAIN Shown :
          /\ d \in Rows(x) <=> Behind[read(d)][x] # {}
          /\ d \in Rows(x) => AuditOf[read(d)].controls[x] = control_status(Behind[read(d)][x])
    BY <2>1, <2>2, ControlRow DEF Rows
  <2>6. Rows(x) \subseteq DOMAIN Shown
    BY DEF Rows
  <2> HIDE DEF read, statuses
  <2>7. "fail" \in rows <=> "fail" \in statuses
    BY <2>4, <2>5, <2>6, StatusOfFindings
  <2>8. "manual_review" \in statuses => "fail" \in rows \/ "manual_review" \in rows
    <3> SUFFICES ASSUME "manual_review" \in statuses PROVE "fail" \in rows \/ "manual_review" \in rows
      OBVIOUS
    <3>1. PICK d \in DOMAIN Shown : "manual_review" \in Behind[read(d)][x]
      BY <2>4
    <3>2. d \in Rows(x) /\ AuditOf[read(d)].controls[x] = control_status(Behind[read(d)][x])
      BY <2>5, <3>1
    <3>3. AuditOf[read(d)].controls[x] \in {"fail", "manual_review"}
      BY <3>1, <3>2, StatusOfFindings
    <3>4. QED
      BY <3>2, <3>3
  <2> HIDE DEF rows
  <2>9. QED
    BY <2>1, <2>3, <2>7, <2>8, WorstOfRows DEF ControlAgrees, statuses
<1>2. ASSUME AuditInv, ReadsInv PROVE ControlsAgree(get_compliance_overview)
  BY <1>1, <1>2 DEF ControlsAgree
<1>3. QED
  BY <1>2, AuditsHold, ReadsHold, PTL

-----------------------------------------------------------------------------
(* What an audit finds.  The checks of a configuration are told apart by   *)
(* their names, those of its ports by the port, so that a page that counts *)
(* findings counts what a page that lists failing checks lists.            *)

\* Findings about the device itself, at most one for each of these checks.
OncePerCheck(S, ids) == \A f, g \in S : f.check \in ids /\ f.at = Device /\ (f.check = g.check => f = g)

\* The checks of each function.
AaaAndUsersIds ==
  {"AAA-01", "AAA-02", "AAA-04", "AAA-05", "AAA-06", "AAA-07", "AAA-08", "AAA-03", "AAA-09",
    "AAA-10", "AAA-11"}
LocalUsersIds == {"USR-01", "USR-02", "USR-03"}
SshAndVtyIds == {"SSH-01", "SSH-05", "SSH-06", "SSH-08", "SSH-02", "SSH-03", "SSH-04", "SSH-07"}
HttpIds == {"HTTP-01", "HTTP-02"}
SnmpIds == {"SNMP-01", "SNMP-02", "SNMP-03", "SNMP-04"}
NtpIds == {"NTP-01", "NTP-02", "NTP-03", "NTP-04"}
LoggingIds == {"LOG-01", "LOG-02", "LOG-03", "LOG-04"}
BannersIds == {"BAN-01"}
DnsIds == {"DNS-01"}
MppIds == {"MPP-01"}
MgmtExposureMatrixIds ==
  {"EXP-RESTCONF", "EXP-NETCONF", "EXP-GNMI", "EXP-IOX", "EXP-TFTP", "EXP-FTP", "EXP-SCP",
    "EXP-GUESTSHELL"}
PasswordSecurityIds == {"PWD-01", "PWD-04", "PWD-02", "PWD-03"}
ManagementIds == UNION { AaaAndUsersIds, LocalUsersIds, SshAndVtyIds, HttpIds, SnmpIds, NtpIds, LoggingIds,
   BannersIds, DnsIds, MppIds, MgmtExposureMatrixIds, PasswordSecurityIds }
ManagementChecks(c) == UNION { check_aaa_and_users(c), check_local_users(c), check_ssh_and_vty(c),
   check_http(c), check_snmp(c), check_ntp(c), check_logging(c), check_banners(c), check_dns(c),
   check_mpp(c), check_mgmt_exposure_matrix(c), check_password_security(c) }

PortSecurityIds == {"L2PS-01", "L2PS-02", "L2PS-03", "L2PS-04"}
StpIds == {"STP-01", "STP-02", "STP-03", "STP-04"}
UdldIds == {"UDLD-01"}
StormControlIds == {"STORM-01"}
DhcpSnoopingIds == {"DHCPSNOOP-01", "DHCPSNOOP-02", "DHCPSNOOP-03", "DHCPSNOOP-04", "DHCPSNOOP-05"}
DaiIds == {"DAI-01", "DAI-03", "DAI-05", "DAI-02", "DAI-04"}
IpSourceGuardIds == {"IPSG-01"}
TrunkNativeVtpIds == {"TRUNK-01", "TRUNK-02", "TRUNK-03", "VTP-01"}
EtherchannelIds == {"ECHAN-01"}
SwitchingIds == UNION { PortSecurityIds, StpIds, UdldIds, StormControlIds, DhcpSnoopingIds, DaiIds,
   IpSourceGuardIds, TrunkNativeVtpIds, EtherchannelIds }
SwitchingChecks(c) == UNION { check_port_security(c), check_stp(c), check_udld(c), check_storm_control(c),
   check_dhcp_snooping(c), check_dai(c), check_ip_source_guard(c), check_trunk_native_vtp(c),
   check_etherchannel(c) }

UrpfIds == {"URPF-01", "URPF-02"}
RoutingAuthIds ==
  {"RTAUTH-OSPF-01", "RTAUTH-OSPF-02", "RTAUTH-EIGRP-01", "RTAUTH-RIP-01", "RTAUTH-BGP-01",
    "RTAUTH-BGP-02", "RTAUTH-BGP-03", "RTAUTH-BGP-04", "RTAUTH-ISIS-01", "RTAUTH-00"}
FhrpIds == {"FHRP-HSRP-01", "FHRP-HSRP-02", "FHRP-VRRP-01", "FHRP-00"}
IcmpHardeningIds == {"ICMP-01", "ICMP-02", "ICMP-03", "ICMP-04", "ICMP-05"}
AclAnalysisIds == {"ACL-00", "ACL-01", "ACL-02", "ACL-03", "ACL-04", "ACL-05"}
ObjectTrackingIds == {"TRACK-00", "TRACK-01", "TRACK-02"}
RoutingIds == UNION { UrpfIds, RoutingAuthIds, FhrpIds, IcmpHardeningIds, AclAnalysisIds, ObjectTrackingIds }
RoutingChecks(c) == UNION { check_urpf(c), check_routing_auth(c), check_fhrp(c), check_icmp_hardening(c),
   check_acl_analysis(c), check_object_tracking(c) }

CoppIds ==
  {"COPP-01", "COPP-02", "COPP-CLASS-ICMP", "COPP-CLASS-ARP", "COPP-CLASS-ROUTING",
    "COPP-CLASS-MGMT", "COPP-CLASS-L2CTRL", "COPP-CLASS-DHCP", "COPP-CLASS-FHRP",
    "COPP-CLASS-MCAST"}
CpuRiskIds == {"CPURISK-01", "CPURISK-02", "CPURISK-03", "CPURISK-04", "CPURISK-05", "CPURISK-06"}
VpnIds == {"VPN-00", "VPN-01", "VPN-03", "VPN-02", "VPN-04", "VPN-05", "VPN-06", "VPN-07"}
ZbfwIds == {"ZBFW-00", "ZBFW-01", "ZBFW-02", "ZBFW-03", "ZBFW-04"}
PlaneIds == UNION { CoppIds, CpuRiskIds, VpnIds, ZbfwIds }
PlaneChecks(c) == UNION { check_copp(c), check_cpu_risk(c), check_vpn(c), check_zbfw(c) }

PkiIds ==
  {"PKI-00", "PKI-01", "PKI-02", "PKI-04", "PKI-05", "PKI-06", "PKI-03", "PKI-07", "PKI-08",
    "PKI-09", "PKI-10", "PKI-11"}
PhysicalIds == {"PHYS-01", "PHYS-02", "PHYS-03", "PHYS-04", "PHYS-05"}
BootAndSecureBootIds ==
  {"BOOT-01", "BOOT-03", "BOOT-02", "BOOT-04", "BOOT-05", "BOOT-06", "BOOT-07", "BOOT-08",
    "BOOT-09"}
UnnecessaryServicesIds ==
  {"SVC-01", "SVC-02", "SVC-03", "SVC-04", "SVC-05", "SVC-06", "SVC-07", "SVC-08", "SVC-09",
    "SVC-10"}
MiscIds == {"MISC-01", "MISC-05", "MISC-02", "MISC-03", "MISC-04", "MISC-06", "MISC-07"}
IosVersionIds == {"VER-01", "VER-02"}
BoxIds == UNION { PkiIds, PhysicalIds, BootAndSecureBootIds, UnnecessaryServicesIds, MiscIds, IosVersionIds }
BoxChecks(c) == UNION { check_pki(c), check_physical(c), check_boot_and_secure_boot(c),
   check_unnecessary_services(c), check_misc(c), check_ios_version(c) }

CorrelationIds ==
   {"CORR-01", "CORR-02", "CORR-03", "CORR-05", "CORR-06", "CORR-07", "CORR-08", "CORR-09",
    "CORR-10"}

LEMMA ManagementKeyed == ASSUME NEW c PROVE OncePerCheck(ManagementChecks(c), ManagementIds)
<1>1. OncePerCheck(check_aaa_and_users(c), AaaAndUsersIds)
  BY DEF OncePerCheck, check_aaa_and_users, In, F, AaaAndUsersIds, Wants, Fears
<1>2. OncePerCheck(check_local_users(c), LocalUsersIds)
  BY DEF OncePerCheck, check_local_users, In, F, LocalUsersIds, FearsOf
<1>3. OncePerCheck(check_ssh_and_vty(c), SshAndVtyIds)
  BY DEF OncePerCheck, check_ssh_and_vty, In, F, SshAndVtyIds, Wants, Fears, WantsOf, Reviews
<1>4. OncePerCheck(check_http(c), HttpIds)
  BY DEF OncePerCheck, check_http, In, F, HttpIds, Wants, Fears
<1>5. OncePerCheck(check_snmp(c), SnmpIds)
  BY DEF OncePerCheck, check_snmp, In, F, SnmpIds, Fears, Reviews
<1>6. OncePerCheck(check_ntp(c), NtpIds)
  BY DEF OncePerCheck, check_ntp, In, F, NtpIds, Wants
<1>7. OncePerCheck(check_logging(c), LoggingIds)
  BY DEF OncePerCheck, check_logging, In, F, LoggingIds, Wants
<1>8. OncePerCheck(check_banners(c), BannersIds)
  BY DEF OncePerCheck, check_banners, In, F, BannersIds, Wants
<1>9. OncePerCheck(check_dns(c), DnsIds)
  BY DEF OncePerCheck, check_dns, In, F, DnsIds
<1>10. OncePerCheck(check_mpp(c), MppIds)
  BY DEF OncePerCheck, check_mpp, In, F, MppIds
<1>11. OncePerCheck(check_mgmt_exposure_matrix(c), MgmtExposureMatrixIds)
  BY DEF OncePerCheck, check_mgmt_exposure_matrix, In, F, MgmtExposureMatrixIds
<1>12. OncePerCheck(check_password_security(c), PasswordSecurityIds)
  BY DEF OncePerCheck, check_password_security, In, F, PasswordSecurityIds, Wants, Fears
<1> QED BY <1>1, <1>2, <1>3, <1>4, <1>5, <1>6, <1>7, <1>8, <1>9, <1>10, <1>11, <1>12
  DEF OncePerCheck, ManagementChecks, ManagementIds, AaaAndUsersIds, LocalUsersIds, SshAndVtyIds, HttpIds, SnmpIds,
     NtpIds, LoggingIds, BannersIds, DnsIds, MppIds, MgmtExposureMatrixIds, PasswordSecurityIds

LEMMA SwitchingKeyed == ASSUME NEW c PROVE OncePerCheck(SwitchingChecks(c), SwitchingIds)
<1>1. OncePerCheck(check_port_security(c), PortSecurityIds)
  <2> DEFINE a == Among(Secured(c) # Genuine(c), Genuine(c) # {})
             b == Among(Having(c, Secured(c), "ps_max-high") # {}, Secured(c) # {})
             s == Among(Lacking(c, Secured(c), "ps_sticky") # {}, Secured(c) # {})
             t == Among(Having(c, Secured(c), "protect") # {}, Secured(c) # {})
  <2>1. check_port_security(c) =
          In("Port-Security", { F("L2PS-01", a, HIGH), F("L2PS-02", b, MEDIUM), F("L2PS-03", s, LOW), F("L2PS-04", t, LOW) })
    BY DEF check_port_security
  <2> HIDE DEF a, b, s, t
  <2> QED BY <2>1 DEF OncePerCheck, PortSecurityIds, In, F
<1>2. OncePerCheck(check_stp(c), StpIds)
  <2> DEFINE a == Among("bpduguard-default" \notin c.has /\ Lacking(c, Access(c), "bpduguard") # {}, TRUE)
             b == Among(\A i \in DOMAIN c.ports : "rootguard" \notin c.ports[i], TRUE)
             s == Among("loopguard-default" \notin c.has /\ \A i \in DOMAIN c.ports : "loopguard" \notin c.ports[i], TRUE)
  <2>1. check_stp(c) = In("Spanning-Tree",
          { F("STP-01", a, HIGH), F("STP-02", b, MEDIUM), F("STP-03", s, MEDIUM), F("STP-04", "pass", INFO) })
    BY DEF check_stp
  <2> HIDE DEF a, b, s
  <2> QED BY <2>1 DEF OncePerCheck, StpIds, In, F
<1>3. OncePerCheck(check_udld(c), UdldIds)
  BY DEF OncePerCheck, check_udld, In, F, UdldIds, Wants
<1>4. OncePerCheck(check_storm_control(c), StormControlIds)
  <2> DEFINE a == Among(Lacking(c, Access(c), "storm_broadcast") # {}, Access(c) # {})
  <2>1. check_storm_control(c) = In("Storm-Control", { F("STORM-01", a, MEDIUM) })
    BY DEF check_storm_control
  <2> HIDE DEF a
  <2> QED BY <2>1 DEF OncePerCheck, StormControlIds, In, F
<1>5. OncePerCheck(check_dhcp_snooping(c), DhcpSnoopingIds)
  <2> DEFINE any == Access(c) # {} /\ dhcp_snooping_enabled(c)
             untrusted == Access(c) \ TrustedPorts(c)
             a == Among(dhcp_snooping_enabled(c) /\ Lacking(c, untrusted, "dhcp_rate") # {}, any)
             b == Among(Having(c, untrusted, "dhcp_rate-bad") # {}, any)
             s == Among(Cardinality(TrustedPorts(c)) > Max({2, Cardinality(physical_interfaces(c)) \div 4}), TRUE)
  <2>1. check_dhcp_snooping(c) = In("DHCP-Snooping",
          Wants(c, {<<"DHCPSNOOP-01", CRITICAL>>, <<"DHCPSNOOP-02", MEDIUM>>})
          \cup { F("DHCPSNOOP-03", a, MEDIUM), F("DHCPSNOOP-04", b, LOW), F("DHCPSNOOP-05", s, LOW) })
    BY DEF check_dhcp_snooping
  <2> HIDE DEF a, b, s
  <2> QED BY <2>1 DEF OncePerCheck, DhcpSnoopingIds, In, Wants, F
<1>6. OncePerCheck(check_dai(c), DaiIds)
  BY DEF OncePerCheck, check_dai, In, F, DaiIds, Wants
<1>7. OncePerCheck(check_ip_source_guard(c), IpSourceGuardIds)
  <2> DEFINE a == Among(dhcp_snooping_enabled(c) /\ Lacking(c, Access(c), "ipsg") # {}, Access(c) # {})
  <2>1. check_ip_source_guard(c) = In("IP-Source-Guard", { F("IPSG-01", a, MEDIUM) })
    BY DEF check_ip_source_guard
  <2> HIDE DEF a
  <2> QED BY <2>1 DEF OncePerCheck, IpSourceGuardIds, In, F
<1>8. OncePerCheck(check_trunk_native_vtp(c), TrunkNativeVtpIds)
  BY DEF OncePerCheck, check_trunk_native_vtp, In, F, TrunkNativeVtpIds, Wants
<1>9. OncePerCheck(check_etherchannel(c), EtherchannelIds)
  BY DEF OncePerCheck, check_etherchannel, In, F, EtherchannelIds, Fears
<1> QED BY <1>1, <1>2, <1>3, <1>4, <1>5, <1>6, <1>7, <1>8, <1>9
  DEF OncePerCheck, SwitchingChecks, SwitchingIds, PortSecurityIds, StpIds, UdldIds, StormControlIds,
     DhcpSnoopingIds, DaiIds, IpSourceGuardIds, TrunkNativeVtpIds, EtherchannelIds

LEMMA RoutingKeyed == ASSUME NEW c PROVE OncePerCheck(RoutingChecks(c), RoutingIds)
<1>1. OncePerCheck(check_urpf(c), UrpfIds)
  BY DEF OncePerCheck, check_urpf, In, F, UrpfIds, Wants, Reviews
<1>2. OncePerCheck(check_routing_auth(c), RoutingAuthIds)
  BY DEF OncePerCheck, check_routing_auth, In, F, RoutingAuthIds, Wants, WantsOf, NotUsed, Reviews
<1>3. OncePerCheck(check_fhrp(c), FhrpIds)
  BY DEF OncePerCheck, FhrpIds, check_fhrp, In, F, NotUsed, Among
<1>4. OncePerCheck(check_icmp_hardening(c), IcmpHardeningIds)
  BY DEF OncePerCheck, check_icmp_hardening, In, F, IcmpHardeningIds, Wants, Reviews
<1>5. OncePerCheck(check_acl_analysis(c), AclAnalysisIds)
  BY DEF OncePerCheck, check_acl_analysis, In, F, AclAnalysisIds, Fears, NotUsed, Reviews
<1>6. OncePerCheck(check_object_tracking(c), ObjectTrackingIds)
  BY DEF OncePerCheck, check_object_tracking, In, F, ObjectTrackingIds, Fears, NotUsed
<1> QED BY <1>1, <1>2, <1>3, <1>4, <1>5, <1>6
  DEF OncePerCheck, RoutingChecks, RoutingIds, UrpfIds, RoutingAuthIds, FhrpIds, IcmpHardeningIds, AclAnalysisIds,
     ObjectTrackingIds

LEMMA PlaneKeyed == ASSUME NEW c PROVE OncePerCheck(PlaneChecks(c), PlaneIds)
<1>1. OncePerCheck(check_copp(c), CoppIds)
  BY DEF OncePerCheck, check_copp, In, F, CoppIds, Wants, NotUsed, CoppClasses
<1>2. OncePerCheck(check_cpu_risk(c), CpuRiskIds)
  BY DEF OncePerCheck, check_cpu_risk, In, F, CpuRiskIds, Fears
<1>3. OncePerCheck(check_vpn(c), VpnIds)
  BY DEF OncePerCheck, check_vpn, In, F, VpnIds, FearsOf, NotUsed, Reviews
<1>4. OncePerCheck(check_zbfw(c), ZbfwIds)
  BY DEF OncePerCheck, check_zbfw, In, F, ZbfwIds, Wants, NotUsed
<1> QED BY <1>1, <1>2, <1>3, <1>4
  DEF OncePerCheck, PlaneChecks, PlaneIds, CoppIds, CpuRiskIds, VpnIds, ZbfwIds

LEMMA BoxKeyed == ASSUME NEW c PROVE OncePerCheck(BoxChecks(c), BoxIds)
<1>1. OncePerCheck(check_pki(c), PkiIds)
  BY DEF OncePerCheck, check_pki, In, F, PkiIds, Fears, NotUsed, Reviews
<1>2. OncePerCheck(check_physical(c), PhysicalIds)
  BY DEF OncePerCheck, check_physical, In, F, PhysicalIds, Wants, Reviews
<1>3. OncePerCheck(check_boot_and_secure_boot(c), BootAndSecureBootIds)
  BY DEF OncePerCheck, check_boot_and_secure_boot, In, F, BootAndSecureBootIds, Wants, Fears, Reviews
<1>4. OncePerCheck(check_unnecessary_services(c), UnnecessaryServicesIds)
  BY DEF OncePerCheck, check_unnecessary_services, In, F, UnnecessaryServicesIds, Fears
<1>5. OncePerCheck(check_misc(c), MiscIds)
  BY DEF OncePerCheck, check_misc, In, F, MiscIds, Wants, NotUsed, Reviews
<1>6. OncePerCheck(check_ios_version(c), IosVersionIds)
  BY DEF OncePerCheck, check_ios_version, In, F, IosVersionIds
<1> QED BY <1>1, <1>2, <1>3, <1>4, <1>5, <1>6
  DEF OncePerCheck, BoxChecks, BoxIds, PkiIds, PhysicalIds, BootAndSecureBootIds, UnnecessaryServicesIds, MiscIds,
     IosVersionIds

LEMMA CorrelationKeyed == ASSUME NEW c PROVE OncePerCheck(run_correlation_engine(c), CorrelationIds)
  BY DEF OncePerCheck, run_correlation_engine, In, F, CorrelationIds

LEMMA Few ==
  /\ \A a : IsFiniteSet({a})
  /\ \A a, b : IsFiniteSet({a, b})
  /\ \A a, b, c : IsFiniteSet({a, b, c})
  /\ \A a, b, c, d : IsFiniteSet({a, b, c, d})
  /\ \A a, b, c, d, e : IsFiniteSet({a, b, c, d, e})
  /\ \A a, b, c, d, e, f : IsFiniteSet({a, b, c, d, e, f})
  /\ \A a, b, c, d, e, f, g : IsFiniteSet({a, b, c, d, e, f, g})
  /\ \A a, b, c, d, e, f, g, h : IsFiniteSet({a, b, c, d, e, f, g, h})
  /\ \A a, b, c, d, e, f, g, h, i : IsFiniteSet({a, b, c, d, e, f, g, h, i})
  /\ \A a, b, c, d, e, f, g, h, i, j : IsFiniteSet({a, b, c, d, e, f, g, h, i, j})
  /\ \A a, b, c, d, e, f, g, h, i, j, k : IsFiniteSet({a, b, c, d, e, f, g, h, i, j, k})
  /\ \A a, b, c, d, e, f, g, h, i, j, k, l : IsFiniteSet({a, b, c, d, e, f, g, h, i, j, k, l})
<1>1. \A a : IsFiniteSet({a}) BY FS_Singleton
<1>2. ASSUME NEW a, NEW b PROVE IsFiniteSet({a, b})
  <2>1. IsFiniteSet({a} \cup {b}) BY <1>1, FS_AddElement
  <2>2. {a} \cup {b} = {a, b} OBVIOUS
  <2> QED BY <2>1, <2>2
<1>3. ASSUME NEW a, NEW b, NEW c PROVE IsFiniteSet({a, b, c})
  <2>1. IsFiniteSet({a, b} \cup {c}) BY <1>2, FS_AddElement
  <2>2. {a, b} \cup {c} = {a, b, c} OBVIOUS
  <2> QED BY <2>1, <2>2
<1>4. ASSUME NEW a, NEW b, NEW c, NEW d PROVE IsFiniteSet({a, b, c, d})
  <2>1. IsFiniteSet({a, b, c} \cup {d}) BY <1>3, FS_AddElement
  <2>2. {a, b, c} \cup {d} = {a, b, c, d} OBVIOUS
  <2> QED BY <2>1, <2>2
<1>5. ASSUME NEW a, NEW b, NEW c, NEW d, NEW e PROVE IsFiniteSet({a, b, c, d, e})
  <2>1. IsFiniteSet({a, b, c, d} \cup {e}) BY <1>4, FS_AddElement
  <2>2. {a, b, c, d} \cup {e} = {a, b, c, d, e} OBVIOUS
  <2> QED BY <2>1, <2>2
<1>6. ASSUME NEW a, NEW b, NEW c, NEW d, NEW e, NEW f PROVE IsFiniteSet({a, b, c, d, e, f})
  <2>1. IsFiniteSet({a, b, c, d, e} \cup {f}) BY <1>5, FS_AddElement
  <2>2. {a, b, c, d, e} \cup {f} = {a, b, c, d, e, f} OBVIOUS
  <2> QED BY <2>1, <2>2
<1>7. ASSUME NEW a, NEW b, NEW c, NEW d, NEW e, NEW f, NEW g PROVE IsFiniteSet({a, b, c, d, e, f, g})
  <2>1. IsFiniteSet({a, b, c, d, e, f} \cup {g}) BY <1>6, FS_AddElement
  <2>2. {a, b, c, d, e, f} \cup {g} = {a, b, c, d, e, f, g} OBVIOUS
  <2> QED BY <2>1, <2>2
<1>8. ASSUME NEW a, NEW b, NEW c, NEW d, NEW e, NEW f, NEW g, NEW h PROVE IsFiniteSet({a, b, c, d, e, f, g, h})
  <2>1. IsFiniteSet({a, b, c, d, e, f, g} \cup {h}) BY <1>7, FS_AddElement
  <2>2. {a, b, c, d, e, f, g} \cup {h} = {a, b, c, d, e, f, g, h} OBVIOUS
  <2> QED BY <2>1, <2>2
<1>9. ASSUME NEW a, NEW b, NEW c, NEW d, NEW e, NEW f, NEW g, NEW h, NEW i PROVE IsFiniteSet({a, b, c, d, e, f, g, h, i})
  <2>1. IsFiniteSet({a, b, c, d, e, f, g, h} \cup {i}) BY <1>8, FS_AddElement
  <2>2. {a, b, c, d, e, f, g, h} \cup {i} = {a, b, c, d, e, f, g, h, i} OBVIOUS
  <2> QED BY <2>1, <2>2
<1>10. ASSUME NEW a, NEW b, NEW c, NEW d, NEW e, NEW f, NEW g, NEW h, NEW i, NEW j PROVE IsFiniteSet({a, b, c, d, e, f, g, h, i, j})
  <2>1. IsFiniteSet({a, b, c, d, e, f, g, h, i} \cup {j}) BY <1>9, FS_AddElement
  <2>2. {a, b, c, d, e, f, g, h, i} \cup {j} = {a, b, c, d, e, f, g, h, i, j} OBVIOUS
  <2> QED BY <2>1, <2>2
<1>11. ASSUME NEW a, NEW b, NEW c, NEW d, NEW e, NEW f, NEW g, NEW h, NEW i, NEW j, NEW k PROVE IsFiniteSet({a, b, c, d, e, f, g, h, i, j, k})
  <2>1. IsFiniteSet({a, b, c, d, e, f, g, h, i, j} \cup {k}) BY <1>10, FS_AddElement
  <2>2. {a, b, c, d, e, f, g, h, i, j} \cup {k} = {a, b, c, d, e, f, g, h, i, j, k} OBVIOUS
  <2> QED BY <2>1, <2>2
<1>12. ASSUME NEW a, NEW b, NEW c, NEW d, NEW e, NEW f, NEW g, NEW h, NEW i, NEW j, NEW k, NEW l PROVE IsFiniteSet({a, b, c, d, e, f, g, h, i, j, k, l})
  <2>1. IsFiniteSet({a, b, c, d, e, f, g, h, i, j, k} \cup {l}) BY <1>11, FS_AddElement
  <2>2. {a, b, c, d, e, f, g, h, i, j, k} \cup {l} = {a, b, c, d, e, f, g, h, i, j, k, l} OBVIOUS
  <2> QED BY <2>1, <2>2
<1> QED BY Zenon, <1>1, <1>2, <1>3, <1>4, <1>5, <1>6, <1>7, <1>8, <1>9, <1>10, <1>11, <1>12

LEMMA ManagementFinite == IsFiniteSet(ManagementIds)
<1>1. IsFiniteSet(AaaAndUsersIds) BY Few DEF AaaAndUsersIds
<1>2. IsFiniteSet(LocalUsersIds) BY Few DEF LocalUsersIds
<1>3. IsFiniteSet(SshAndVtyIds) BY Few DEF SshAndVtyIds
<1>4. IsFiniteSet(HttpIds) BY Few DEF HttpIds
<1>5. IsFiniteSet(SnmpIds) BY Few DEF SnmpIds
<1>6. IsFiniteSet(NtpIds) BY Few DEF NtpIds
<1>7. IsFiniteSet(LoggingIds) BY Few DEF LoggingIds
<1>8. IsFiniteSet(BannersIds) BY Few DEF BannersIds
<1>9. IsFiniteSet(DnsIds) BY Few DEF DnsIds
<1>10. IsFiniteSet(MppIds) BY Few DEF MppIds
<1>11. IsFiniteSet(MgmtExposureMatrixIds) BY Few DEF MgmtExposureMatrixIds
<1>12. IsFiniteSet(PasswordSecurityIds) BY Few DEF PasswordSecurityIds
<1> DEFINE all == {AaaAndUsersIds, LocalUsersIds, SshAndVtyIds, HttpIds, SnmpIds, NtpIds, LoggingIds, BannersIds, DnsIds, MppIds, MgmtExposureMatrixIds, PasswordSecurityIds}
<1>13. IsFiniteSet(all) BY Few
<1>14. \A S \in all : IsFiniteSet(S) BY <1>1, <1>2, <1>3, <1>4, <1>5, <1>6, <1>7, <1>8, <1>9, <1>10, <1>11, <1>12
<1> QED BY <1>13, <1>14, FS_UNION DEF ManagementIds

LEMMA SwitchingFinite == IsFiniteSet(SwitchingIds)
<1>1. IsFiniteSet(PortSecurityIds) BY Few DEF PortSecurityIds
<1>2. IsFiniteSet(StpIds) BY Few DEF StpIds
<1>3. IsFiniteSet(UdldIds) BY Few DEF UdldIds
<1>4. IsFiniteSet(StormControlIds) BY Few DEF StormControlIds
<1>5. IsFiniteSet(DhcpSnoopingIds) BY Few DEF DhcpSnoopingIds
<1>6. IsFiniteSet(DaiIds) BY Few DEF DaiIds
<1>7. IsFiniteSet(IpSourceGuardIds) BY Few DEF IpSourceGuardIds
<1>8. IsFiniteSet(TrunkNativeVtpIds) BY Few DEF TrunkNativeVtpIds
<1>9. IsFiniteSet(EtherchannelIds) BY Few DEF EtherchannelIds
<1> DEFINE all == {PortSecurityIds, StpIds, UdldIds, StormControlIds, DhcpSnoopingIds, DaiIds, IpSourceGuardIds, TrunkNativeVtpIds, EtherchannelIds}
<1>10. IsFiniteSet(all) BY Few
<1>11. \A S \in all : IsFiniteSet(S) BY <1>1, <1>2, <1>3, <1>4, <1>5, <1>6, <1>7, <1>8, <1>9
<1> QED BY <1>10, <1>11, FS_UNION DEF SwitchingIds

LEMMA RoutingFinite == IsFiniteSet(RoutingIds)
<1>1. IsFiniteSet(UrpfIds) BY Few DEF UrpfIds
<1>2. IsFiniteSet(RoutingAuthIds) BY Few DEF RoutingAuthIds
<1>3. IsFiniteSet(FhrpIds) BY Few DEF FhrpIds
<1>4. IsFiniteSet(IcmpHardeningIds) BY Few DEF IcmpHardeningIds
<1>5. IsFiniteSet(AclAnalysisIds) BY Few DEF AclAnalysisIds
<1>6. IsFiniteSet(ObjectTrackingIds) BY Few DEF ObjectTrackingIds
<1> DEFINE all == {UrpfIds, RoutingAuthIds, FhrpIds, IcmpHardeningIds, AclAnalysisIds, ObjectTrackingIds}
<1>7. IsFiniteSet(all) BY Few
<1>8. \A S \in all : IsFiniteSet(S) BY <1>1, <1>2, <1>3, <1>4, <1>5, <1>6
<1> QED BY <1>7, <1>8, FS_UNION DEF RoutingIds

LEMMA PlaneFinite == IsFiniteSet(PlaneIds)
<1>1. IsFiniteSet(CoppIds) BY Few DEF CoppIds
<1>2. IsFiniteSet(CpuRiskIds) BY Few DEF CpuRiskIds
<1>3. IsFiniteSet(VpnIds) BY Few DEF VpnIds
<1>4. IsFiniteSet(ZbfwIds) BY Few DEF ZbfwIds
<1> DEFINE all == {CoppIds, CpuRiskIds, VpnIds, ZbfwIds}
<1>5. IsFiniteSet(all) BY Few
<1>6. \A S \in all : IsFiniteSet(S) BY <1>1, <1>2, <1>3, <1>4
<1> QED BY <1>5, <1>6, FS_UNION DEF PlaneIds

LEMMA BoxFinite == IsFiniteSet(BoxIds)
<1>1. IsFiniteSet(PkiIds) BY Few DEF PkiIds
<1>2. IsFiniteSet(PhysicalIds) BY Few DEF PhysicalIds
<1>3. IsFiniteSet(BootAndSecureBootIds) BY Few DEF BootAndSecureBootIds
<1>4. IsFiniteSet(UnnecessaryServicesIds) BY Few DEF UnnecessaryServicesIds
<1>5. IsFiniteSet(MiscIds) BY Few DEF MiscIds
<1>6. IsFiniteSet(IosVersionIds) BY Few DEF IosVersionIds
<1> DEFINE all == {PkiIds, PhysicalIds, BootAndSecureBootIds, UnnecessaryServicesIds, MiscIds, IosVersionIds}
<1>7. IsFiniteSet(all) BY Few
<1>8. \A S \in all : IsFiniteSet(S) BY <1>1, <1>2, <1>3, <1>4, <1>5, <1>6
<1> QED BY <1>7, <1>8, FS_UNION DEF BoxIds

LEMMA CorrelationFinite == IsFiniteSet(CorrelationIds) BY Few DEF CorrelationIds

DeviceIds == ManagementIds \cup SwitchingIds \cup RoutingIds \cup PlaneIds \cup BoxIds \cup CorrelationIds

LEMMA BothKeyed ==
  ASSUME NEW S, NEW I, OncePerCheck(S, I), NEW T, NEW J, OncePerCheck(T, J), I \cap J = {}
  PROVE  OncePerCheck(S \cup T, I \cup J)
  BY DEF OncePerCheck

LEMMA IdsApart ==
  /\ ManagementIds \cap SwitchingIds = {}
  /\ (ManagementIds \cup SwitchingIds) \cap RoutingIds = {}
  /\ (ManagementIds \cup SwitchingIds \cup RoutingIds) \cap PlaneIds = {}
  /\ (ManagementIds \cup SwitchingIds \cup RoutingIds \cup PlaneIds) \cap BoxIds = {}
  /\ (ManagementIds \cup SwitchingIds \cup RoutingIds \cup PlaneIds \cup BoxIds) \cap CorrelationIds = {}
<1>1. ManagementIds \cap SwitchingIds = {}
  BY DEF ManagementIds, SwitchingIds, AaaAndUsersIds, LocalUsersIds, SshAndVtyIds, HttpIds, SnmpIds, NtpIds,
     LoggingIds, BannersIds, DnsIds, MppIds, MgmtExposureMatrixIds, PasswordSecurityIds, PortSecurityIds,
     StpIds, UdldIds, StormControlIds, DhcpSnoopingIds, DaiIds, IpSourceGuardIds, TrunkNativeVtpIds,
     EtherchannelIds
<1>2. ManagementIds \cap RoutingIds = {}
  BY DEF ManagementIds, RoutingIds, AaaAndUsersIds, LocalUsersIds, SshAndVtyIds, HttpIds, SnmpIds, NtpIds,
     LoggingIds, BannersIds, DnsIds, MppIds, MgmtExposureMatrixIds, PasswordSecurityIds, UrpfIds,
     RoutingAuthIds, FhrpIds, IcmpHardeningIds, AclAnalysisIds, ObjectTrackingIds
<1>3. ManagementIds \cap PlaneIds = {}
  BY DEF ManagementIds, PlaneIds, AaaAndUsersIds, LocalUsersIds, SshAndVtyIds, HttpIds, SnmpIds, NtpIds,
     LoggingIds, BannersIds, DnsIds, MppIds, MgmtExposureMatrixIds, PasswordSecurityIds, CoppIds,
     CpuRiskIds, VpnIds, ZbfwIds
<1>4. ManagementIds \cap BoxIds = {}
  BY DEF ManagementIds, BoxIds, AaaAndUsersIds, LocalUsersIds, SshAndVtyIds, HttpIds, SnmpIds, NtpIds,
     LoggingIds, BannersIds, DnsIds, MppIds, MgmtExposureMatrixIds, PasswordSecurityIds, PkiIds,
     PhysicalIds, BootAndSecureBootIds, UnnecessaryServicesIds, MiscIds, IosVersionIds
<1>5. ManagementIds \cap CorrelationIds = {}
  BY DEF ManagementIds, CorrelationIds, AaaAndUsersIds, LocalUsersIds, SshAndVtyIds, HttpIds, SnmpIds,
     NtpIds, LoggingIds, BannersIds, DnsIds, MppIds, MgmtExposureMatrixIds, PasswordSecurityIds
<1>6. SwitchingIds \cap RoutingIds = {}
  BY DEF SwitchingIds, RoutingIds, PortSecurityIds, StpIds, UdldIds, StormControlIds, DhcpSnoopingIds,
     DaiIds, IpSourceGuardIds, TrunkNativeVtpIds, EtherchannelIds, UrpfIds, RoutingAuthIds, FhrpIds,
     IcmpHardeningIds, AclAnalysisIds, ObjectTrackingIds
<1>7. SwitchingIds \cap PlaneIds = {}
  BY DEF SwitchingIds, PlaneIds, PortSecurityIds, StpIds, UdldIds, StormControlIds, DhcpSnoopingIds, DaiIds,
     IpSourceGuardIds, TrunkNativeVtpIds, EtherchannelIds, CoppIds, CpuRiskIds, VpnIds, ZbfwIds
<1>8. SwitchingIds \cap BoxIds = {}
  BY DEF SwitchingIds, BoxIds, PortSecurityIds, StpIds, UdldIds, StormControlIds, DhcpSnoopingIds, DaiIds,
     IpSourceGuardIds, TrunkNativeVtpIds, EtherchannelIds, PkiIds, PhysicalIds, BootAndSecureBootIds,
     UnnecessaryServicesIds, MiscIds, IosVersionIds
<1>9. SwitchingIds \cap CorrelationIds = {}
  BY DEF SwitchingIds, CorrelationIds, PortSecurityIds, StpIds, UdldIds, StormControlIds, DhcpSnoopingIds,
     DaiIds, IpSourceGuardIds, TrunkNativeVtpIds, EtherchannelIds
<1>10. RoutingIds \cap PlaneIds = {}
  BY DEF RoutingIds, PlaneIds, UrpfIds, RoutingAuthIds, FhrpIds, IcmpHardeningIds, AclAnalysisIds,
     ObjectTrackingIds, CoppIds, CpuRiskIds, VpnIds, ZbfwIds
<1>11. RoutingIds \cap BoxIds = {}
  BY DEF RoutingIds, BoxIds, UrpfIds, RoutingAuthIds, FhrpIds, IcmpHardeningIds, AclAnalysisIds,
     ObjectTrackingIds, PkiIds, PhysicalIds, BootAndSecureBootIds, UnnecessaryServicesIds, MiscIds,
     IosVersionIds
<1>12. RoutingIds \cap CorrelationIds = {}
  BY DEF RoutingIds, CorrelationIds, UrpfIds, RoutingAuthIds, FhrpIds, IcmpHardeningIds, AclAnalysisIds,
     ObjectTrackingIds
<1>13. PlaneIds \cap BoxIds = {}
  BY DEF PlaneIds, BoxIds, CoppIds, CpuRiskIds, VpnIds, ZbfwIds, PkiIds, PhysicalIds, BootAndSecureBootIds,
     UnnecessaryServicesIds, MiscIds, IosVersionIds
<1>14. PlaneIds \cap CorrelationIds = {}
  BY DEF PlaneIds, CorrelationIds, CoppIds, CpuRiskIds, VpnIds, ZbfwIds
<1>15. BoxIds \cap CorrelationIds = {}
  BY DEF BoxIds, CorrelationIds, PkiIds, PhysicalIds, BootAndSecureBootIds, UnnecessaryServicesIds, MiscIds,
     IosVersionIds
<1> QED BY Zenon, <1>1, <1>2, <1>3, <1>4, <1>5, <1>6, <1>7, <1>8, <1>9, <1>10, <1>11, <1>12, <1>13, <1>14, <1>15

DeviceFindings(c) == run_all_device_checks(c) \cup run_correlation_engine(c)

LEMMA DeviceKeyed == ASSUME NEW c PROVE OncePerCheck(DeviceFindings(c), DeviceIds)
<1>1. run_all_device_checks(c) =
        ManagementChecks(c) \cup SwitchingChecks(c) \cup RoutingChecks(c) \cup PlaneChecks(c) \cup BoxChecks(c)
  BY DEF run_all_device_checks, ManagementChecks, SwitchingChecks, RoutingChecks, PlaneChecks, BoxChecks
<1>2. OncePerCheck(ManagementChecks(c) \cup SwitchingChecks(c), ManagementIds \cup SwitchingIds)
  BY ManagementKeyed, SwitchingKeyed, IdsApart, BothKeyed
<1>3. OncePerCheck(ManagementChecks(c) \cup SwitchingChecks(c) \cup RoutingChecks(c), ManagementIds \cup SwitchingIds \cup RoutingIds)
  BY <1>2, RoutingKeyed, IdsApart, BothKeyed
<1>4. OncePerCheck(ManagementChecks(c) \cup SwitchingChecks(c) \cup RoutingChecks(c) \cup PlaneChecks(c),
            ManagementIds \cup SwitchingIds \cup RoutingIds \cup PlaneIds)
  BY <1>3, PlaneKeyed, IdsApart, BothKeyed
<1>5. OncePerCheck(run_all_device_checks(c), ManagementIds \cup SwitchingIds \cup RoutingIds \cup PlaneIds \cup BoxIds)
  BY <1>1, <1>4, BoxKeyed, IdsApart, BothKeyed
<1> QED BY <1>5, CorrelationKeyed, IdsApart, BothKeyed DEF DeviceFindings, DeviceIds

\* The rules for interfaces that say anything of the record they are handed.
RuleIds == {"interface_description", "cdp_control", "lldp_control", "qos_policy", "acl_presence", "protected_port",
  "explicit_mode"}

LEMMA RulesKeyed ==
  ASSUME NEW p, NEW g, NEW f \in assess_features(Handed(p), g), NEW h \in assess_features(Handed(p), g)
  PROVE  /\ f.check \in RuleIds /\ (f.check = h.check => f = h)
         /\ \E id, status, weight :
              f = [check |-> id, at |-> NoName, domain |-> "Interface-Security", status |-> status, weight |-> weight]
<1> DEFINE found(id, status, weight) ==
             [check |-> id, at |-> NoName, domain |-> "Interface-Security", status |-> status, weight |-> weight]
           lines == p \cap {"description"}
           any == { found(r.id, IF r.line \in lines THEN "pass" ELSE r.missing, r.weight) : r \in AnyRules }
           mode == { found("explicit_mode", "fail", MEDIUM) }
<1>1. assess_features(Handed(p), g) = any \cup mode
  BY DEF assess_features, Handed
<1>2. f \in any \cup mode /\ h \in any \cup mode BY <1>1
<1>3. \A r, s \in AnyRules : r.id \in RuleIds \ {"explicit_mode"} /\ (r.id = s.id => r = s)
  BY DEF AnyRules, Rule, RuleIds
<1>4. \A x \in any : \E r \in AnyRules : x = found(r.id, IF r.line \in lines THEN "pass" ELSE r.missing, r.weight)
  OBVIOUS
<1>5. \A x \in mode : x = found("explicit_mode", "fail", MEDIUM) OBVIOUS
<1> HIDE DEF any, mode, lines
<1> QED BY <1>2, <1>3, <1>4, <1>5 DEF RuleIds

LEMMA InterfacesKeyed ==
  ASSUME NEW c, NEW f \in run_interface_checks(c), NEW h \in run_interface_checks(c)
  PROVE  f.check \in RuleIds /\ f.at \in DOMAIN c.ports /\ (Key(f) = Key(h) => f = h)
<1>1. PICK i \in DOMAIN c.ports : \E x \in assess_features(Handed(c.ports[i]), c.has) : f = [x EXCEPT !.at = i]
  BY DEF run_interface_checks, to_unified_findings
<1>2. PICK x \in assess_features(Handed(c.ports[i]), c.has) : f = [x EXCEPT !.at = i] BY <1>1
<1>3. PICK j \in DOMAIN c.ports : \E y \in assess_features(Handed(c.ports[j]), c.has) : h = [y EXCEPT !.at = j]
  BY DEF run_interface_checks, to_unified_findings
<1>4. PICK y \in assess_features(Handed(c.ports[j]), c.has) : h = [y EXCEPT !.at = j] BY <1>3
<1>5. f.check = x.check /\ f.at = i /\ x.check \in RuleIds BY <1>2, RulesKeyed
<1>6. h.check = y.check /\ h.at = j BY <1>4, RulesKeyed
<1>7. i = j /\ x.check = y.check => x = y BY RulesKeyed
<1> QED BY <1>2, <1>4, <1>5, <1>6, <1>7 DEF Key

\* What an audit finds in a configuration: finitely many findings, no two of the same check about the same thing.
Findings(c) == DeviceFindings(c) \cup run_interface_checks(c)

LEMMA FindingsKeyed ==
  ASSUME NEW c, IsFiniteSet(DOMAIN c.ports), Device \notin DOMAIN c.ports
  PROVE  /\ IsFiniteSet(Findings(c))
         /\ \A f, h \in Findings(c) : Key(f) = Key(h) => f = h
<1> DEFINE keys == (DeviceIds \cup RuleIds) \X ({Device} \cup DOMAIN c.ports)
<1>1. IsFiniteSet(keys)
  <2>1. IsFiniteSet(ManagementIds \cup SwitchingIds) BY ManagementFinite, SwitchingFinite, FS_Union
  <2>2. IsFiniteSet(ManagementIds \cup SwitchingIds \cup RoutingIds) BY <2>1, RoutingFinite, FS_Union
  <2>3. IsFiniteSet(ManagementIds \cup SwitchingIds \cup RoutingIds \cup PlaneIds) BY <2>2, PlaneFinite, FS_Union
  <2>4. IsFiniteSet(ManagementIds \cup SwitchingIds \cup RoutingIds \cup PlaneIds \cup BoxIds) BY <2>3, BoxFinite, FS_Union
  <2>5. IsFiniteSet(DeviceIds) BY <2>4, CorrelationFinite, FS_Union DEF DeviceIds
  <2>6. IsFiniteSet(RuleIds) BY Few DEF RuleIds
  <2>7. IsFiniteSet(DeviceIds \cup RuleIds) BY <2>5, <2>6, FS_Union
  <2>8. IsFiniteSet({Device} \cup DOMAIN c.ports) BY FS_Singleton, FS_Union
  <2> QED BY <2>7, <2>8, FS_Product
<1>2. \A f \in Findings(c) : Key(f) \in keys
  BY DeviceKeyed, InterfacesKeyed DEF Findings, OncePerCheck, Key
<1>3. ASSUME NEW f \in Findings(c), NEW h \in Findings(c), Key(f) = Key(h) PROVE f = h
  <2>1. f.check = h.check /\ f.at = h.at BY <1>3 DEF Key
  <2>2. CASE f \in DeviceFindings(c) /\ h \in DeviceFindings(c) BY <2>1, <2>2, DeviceKeyed DEF OncePerCheck
  <2>3. CASE f \in run_interface_checks(c) /\ h \in run_interface_checks(c) BY <1>3, <2>3, InterfacesKeyed
  <2>4. CASE f \in DeviceFindings(c) /\ h \in run_interface_checks(c) BY <2>1, <2>4, DeviceKeyed, InterfacesKeyed DEF OncePerCheck
  <2>5. CASE f \in run_interface_checks(c) /\ h \in DeviceFindings(c) BY <2>1, <2>5, DeviceKeyed, InterfacesKeyed DEF OncePerCheck
  <2> QED BY <2>2, <2>3, <2>4, <2>5 DEF Findings
<1> HIDE DEF keys
<1>4. IsFiniteSet(Findings(c))
  <2> DEFINE k == [f \in Findings(c) |-> Key(f)]
  <2>1. k \in Injection(Findings(c), keys) BY <1>2, <1>3 DEF Injection, IsInjective
  <2> QED BY <1>1, <2>1, FS_Injection
<1> QED BY <1>3, <1>4

LEMMA AuditFindings ==
  ASSUME NEW c \in Postures
  PROVE  /\ AuditOf[c].findings = Findings(Contents[c])
         /\ AuditOf[c].score = score_findings(Findings(Contents[c]))
         /\ IsFiniteSet(Findings(Contents[c]))
         /\ \A f, h \in Findings(Contents[c]) : Key(f) = Key(h) => f = h
<1>1. run_all_device_checks(Contents[c]) \cup run_correlation_engine(Contents[c]) \cup run_interface_checks(Contents[c])
        = Findings(Contents[c])
  BY DEF Findings, DeviceFindings
<1>2. AuditOf[c] = Stored(Findings(Contents[c]), Framework)
  BY <1>1 DEF AuditOf, run_device_audit
<1>3. AuditOf[c].findings = Findings(Contents[c]) /\ AuditOf[c].score = score_findings(Findings(Contents[c]))
  BY <1>2 DEF Stored
<1>4. IsFiniteSet(DOMAIN Contents[c].ports) /\ Device \notin DOMAIN Contents[c].ports
  BY ContentsAssumption
<1> QED BY <1>3, <1>4, FindingsKeyed

\* Findings that fail, counted, are the checks that fail, counted: no check says the same of a port twice.
LEMMA FailingCounted == Said["fail"] = FailingCount
<1>1. ASSUME NEW c \in Postures PROVE Said["fail"][c] = FailingCount[c]
  <2> DEFINE failing == { h \in AuditOf[c].findings : h.status = "fail" }
             keys == { Key(f) : f \in failing }
             k == [f \in failing |-> Key(f)]
  <2>1. IsFiniteSet(failing)
    BY AuditFindings, FS_Subset
  <2>2. \A f, h \in failing : Key(f) = Key(h) => f = h
    BY AuditFindings
  <2>3. Said["fail"][c] = Cardinality(failing) /\ FailingCount[c] = Cardinality(keys)
    BY DEF Said, FailingCount, FailingOf
  <2> HIDE DEF failing
  <2>4. k \in Injection(failing, keys) /\ k \in Surjection(failing, keys)
    BY <2>2 DEF Injection, IsInjective, Surjection
  <2> HIDE DEF keys, k
  <2>5. Cardinality(keys) = Cardinality(failing)
    BY <2>1, <2>4, FS_Surjection
  <2> QED BY <2>3, <2>5
<1> QED BY <1>1 DEF Said, FailingCount

LEMMA FindingsPagesAgree == FindingsAgree(security_overview, get_security_dashboard)
<1>1. ASSUME NEW w \in Weights \ {INFO} PROVE security_overview.failing[w] = get_security_dashboard.severities[w]
  BY DEF security_overview, get_security_dashboard
<1>2. get_security_dashboard.failed = Total(FailingCount)
  BY FailingCounted DEF get_security_dashboard
<1>3. get_security_dashboard.manual = security_overview.manual
  BY DEF get_security_dashboard, security_overview
<1> QED BY <1>1, <1>2, <1>3 DEF FindingsAgree

LEMMA ScoresAreNumbers ==
  ASSUME NEW S, IsFiniteSet(S)
  PROVE  score_findings(S) \in Int
<1> DEFINE weighing(statuses, w) == w * Cardinality({ f \in S : f.status \in statuses /\ f.weight = w })
           all(statuses) == weighing(statuses, CRITICAL) + weighing(statuses, HIGH) + weighing(statuses, MEDIUM)
                              + weighing(statuses, LOW)
           applicable == all({"pass", "warn", "manual_review", "fail"})
           halves == all({"pass"}) + all({"pass", "warn"})
<1>1. ASSUME NEW statuses PROVE all(statuses) \in Nat
  <2>1. ASSUME NEW w PROVE Cardinality({ f \in S : f.status \in statuses /\ f.weight = w }) \in Nat
    BY FS_Subset, FS_CardinalityType
  <2> DEFINE n(w) == Cardinality({ f \in S : f.status \in statuses /\ f.weight = w })
  <2>2. n(CRITICAL) \in Nat /\ n(HIGH) \in Nat /\ n(MEDIUM) \in Nat /\ n(LOW) \in Nat BY <2>1
  <2> HIDE DEF n
  <2>3. CRITICAL * n(CRITICAL) + HIGH * n(HIGH) + MEDIUM * n(MEDIUM) + LOW * n(LOW) \in Nat
    BY <2>2 DEF CRITICAL, HIGH, MEDIUM, LOW
  <2> QED BY <2>3 DEF n
<1> HIDE DEF all
<1>2. applicable \in Nat /\ halves \in Nat BY <1>1
<1>3. score_findings(S) = IF applicable = 0 THEN 1000 ELSE (halves * 1000 + applicable) \div (2 * applicable)
  BY DEF score_findings, all
<1> HIDE DEF applicable, halves
<1>4. ASSUME applicable # 0 PROVE (halves * 1000 + applicable) \div (2 * applicable) \in Int
  <2>1. halves * 1000 + applicable \in Int /\ 2 * applicable \in Int /\ 2 * applicable > 0 BY <1>2, <1>4
  <2>2. \A a, b \in Int : b > 0 => a \div b \in Int OBVIOUS
  <2> QED BY <2>1, <2>2
<1> QED BY <1>3, <1>4

\* The last two audits of a device, as four pages have them: the activity list, the comparison, the device list and
\* the dashboard.
LEMMA ChangesPagesAgree ==
  ASSUME AuditInv, ReadsInv
  PROVE  ChangesAgree(get_security_dashboard.previous)
<1> DEFINE previous == get_security_dashboard.previous
<1>1. SUFFICES ASSUME NEW d \in DOMAIN previous
               PROVE  ChangeAgrees(d, previous[d], compare_audits(Max(CompletedOf(d) \ {Shown[d]}), Shown[d]))
  BY DEF ChangesAgree
<1> DEFINE last == Shown[d]
           before == CompletedOf(d) \ {last}
           then == Max(before)
           change == compare_audits(then, last)
<1>2. /\ d \in DOMAIN Shown /\ Cardinality(CompletedOf(d)) > 1
      /\ previous[d] = ScoreOf(then)
  BY <1>1 DEF get_security_dashboard
<1>3. AuditShapes
  BY DEF AuditInv, AuditBase
<1>4. d \in inFleet /\ last \in CompletedOf(d) /\ \A k \in CompletedOf(d) : k <= last
  BY <1>2, ShownIsLast
<1>5. /\ Len(runs) \in Nat /\ DOMAIN runs = 1 .. Len(runs)
      /\ CompletedOf(d) \subseteq DOMAIN runs
      /\ \A k \in CompletedOf(d) : k \in Nat /\ k <= Len(runs) /\ runs[k].device = d /\ runs[k].status = "completed"
  <2>1. Len(runs) \in Nat /\ DOMAIN runs = 1 .. Len(runs)
    BY <1>3 DEF AuditShapes
  <2>2. QED
    BY <2>1 DEF CompletedOf
<1>6. before # {}
  <2>1. SUFFICES ASSUME before = {} PROVE FALSE
    OBVIOUS
  <2>2. CompletedOf(d) = {last}
    BY <1>4, <2>1
  <2>3. QED
    BY <1>2, <2>2, FS_Singleton
<1>7. then \in before
  BY <1>5, <1>6, LastIsThere
<1>8. { j \in 1 .. last - 1 : runs[j].status = "completed" /\ runs[j].device = runs[last].device } = before
  BY <1>4, <1>5 DEF CompletedOf
<1>9. list_security_activity[last] = {ScoreOf(last) - ScoreOf(then)}
  <2>1. last \in { j \in DOMAIN runs : runs[j].status = "completed" }
    BY <1>4, <1>5
  <2> HIDE DEF last, before
  <2>2. QED
    BY <1>6, <1>8, <2>1 DEF list_security_activity
<1>10. change.delta = ScoreOf(last) - ScoreOf(then)
  BY DEF compare_audits
<1>11. list_security_devices[d] = {ScoreOf(last)}
  BY <1>2, <1>4 DEF list_security_devices
<1>12. ScoreOf(last) \in Int /\ ScoreOf(then) \in Int
  <2>1. runs[last].read \in Postures /\ runs[then].read \in Postures
    BY <1>4, <1>5, <1>7 DEF ReadsInv
  <2>2. QED
    BY <2>1, AuditFindings, ScoresAreNumbers DEF ScoreOf
<1>13. change.new \cup change.persistent = FailingOf[runs[last].read]
  BY DEF compare_audits
<1> HIDE DEF change, last, before, then, previous
<1>14. list_security_devices[d] = {previous[d] + change.delta}
  BY <1>2, <1>10, <1>11, <1>12
<1>15. QED
  BY <1>9, <1>10, <1>13, <1>14 DEF ChangeAgrees, change, last, before, then

\* The pages of the Security Center are current and cannot disagree: those that count findings and the one that lists
\* them, those about a control, and those about the change since the audit before.
THEOREM SecurityPagesStayTrue == AuditSpec => []SecurityPagesAreTrue
<1>1. ASSUME AuditInv, ReadsInv, PostureIsCurrent, ControlsAgree(get_compliance_overview) PROVE SecurityPagesAreTrue
  BY <1>1, FindingsPagesAgree, ChangesPagesAgree DEF SecurityPagesAreTrue, PagesAgree
<1>2. QED
  BY <1>1, AuditsHold, ReadsHold, PostureStaysCurrent, ControlsStayTrue, PTL

=============================================================================
