---------------------------- MODULE Administrators ----------------------------
(***************************************************************************)
(* The accounts of administrators: logging in, and what may be done to     *)
(* accounts and roles (api/routes_auth.py, api/deps.py,                    *)
(* api/routes_admin_users.py, api/routes_admin_roles.py).                  *)
(*                                                                         *)
(* A login reads the failures so far, writes back those that are recent,   *)
(* checks the password, which takes long, and counts a failure or forgets  *)
(* them all; an edit of an account checks that a superadmin is left, and   *)
(* commits.  Other requests come in between, so what a login writes back   *)
(* may be failures that another has redeemed since, and one that was       *)
(* counted since is lost.  A session is only the name it was opened under: *)
(* every request looks the account up again.                               *)
(*                                                                         *)
(* Passwords are left out: a login knows the right one or not.             *)
(***************************************************************************)
EXTENDS Naturals, FiniteSets, Functions

CONSTANTS
  Ids, AdminNames,
  Origins,        \* the addresses administrators come from
  RoleIds,        \* roles; what a role permits is left out
  Visitors,       \* requests under way at a time
  Nil,
  MAX_ATTEMPTS, LOCKOUT,
  AdminLimit,     \* accounts the licence allows
  MaxVisits, MaxTime   \* bounds: logins and edits, and time

ASSUME AdminAssumption == {MAX_ATTEMPTS, LOCKOUT} \subseteq Nat \ {0} /\ Nil \notin RoleIds /\ Nil \notin AdminNames /\ Nil \notin Ids
ASSUME AdminBoundsAssumption == {AdminLimit, MaxVisits, MaxTime} \subseteq Nat

VARIABLES
  accounts,      \* the admin_users rows
  roles,         \* the admin_roles rows
  signedIn,      \* the sessions: names
  attempts,      \* the failures in memory, per name
  visitor,       \* what each request is doing
  failed,        \* history: per name, the failures since a login was last let in, and those that
                 \* another login was looking at when it was
  overlapped,    \* history: edits of accounts that were decided while another was
  time,
  visits         \* how much of MaxVisits was used

adminVars == << accounts, roles, signedIn, attempts, visitor, failed, overlapped, time, visits >>

Account == [name : AdminNames, is_active : BOOLEAN, is_superadmin : BOOLEAN,
            allowed_source_ips : SUBSET Origins, role_id : RoleIds \cup {Nil}]
Waiting == [at |-> "waiting", name |-> Nil, seen |-> {}, valid |-> FALSE, id |-> Nil, was |-> Nil, row |-> Nil]

AdminTypes ==
  /\ DOMAIN accounts \subseteq Ids /\ \A i \in DOMAIN accounts : accounts[i] \in Account
  /\ \A i, j \in DOMAIN accounts : accounts[i].name = accounts[j].name => i = j
  /\ \A i \in DOMAIN accounts : accounts[i].role_id \in roles \cup {Nil}
  /\ roles \subseteq RoleIds
  /\ signedIn \subseteq AdminNames
  /\ \A n \in AdminNames : attempts[n] \cup failed[n] \subseteq [at : 0 .. time, number : Nat]
  /\ \A v \in Visitors : visitor[v].at \in {"waiting", "looking", "checking", "editing", "deleting"}
  /\ overlapped \in BOOLEAN /\ time \in 0 .. MaxTime

\* The installer makes the first account, unrestricted; the first start makes the roles.
AdminInit ==
  /\ \E i \in Ids, n \in AdminNames :
       accounts = [j \in {i} |-> [name |-> n, is_active |-> TRUE, is_superadmin |-> TRUE,
                                  allowed_source_ips |-> {}, role_id |-> Nil]]
  /\ roles = RoleIds /\ signedIn = {}
  /\ attempts = [n \in AdminNames |-> {}] /\ failed = [n \in AdminNames |-> {}]
  /\ visitor = [v \in Visitors |-> Waiting]
  /\ overlapped = FALSE /\ time = 0
  /\ visits = 0

Named(n) == { i \in DOMAIN accounts : accounts[i].name = n }
Visits == visits < MaxVisits /\ visits' = visits + 1

-----------------------------------------------------------------------------
(* Logging in.                                                             *)

Recent(failures) == { f \in failures : time - f.at < LOCKOUT }
_is_locked_out(recent) == Cardinality(recent) \geq MAX_ATTEMPTS
is_source_ip_allowed(allowed, origin) == allowed = {} \/ origin \in allowed

login(v) ==
  /\ visitor[v].at = "waiting" /\ Visits
  /\ \E n \in AdminNames :
       visitor' = [visitor EXCEPT ![v] = [Waiting EXCEPT !.at = "looking", !.name = n, !.seen = Recent(attempts[n])]]
  /\ UNCHANGED << accounts, roles, signedIn, attempts, failed, overlapped, time >>

\* What was read is written back, and decides.  The account is read before the password is checked.
WriteBack(v) ==
  LET n == visitor[v].name IN
  /\ visitor[v].at = "looking"
  /\ attempts' = [attempts EXCEPT ![n] = visitor[v].seen]
  /\ IF _is_locked_out(visitor[v].seen) THEN visitor' = [visitor EXCEPT ![v] = Waiting]
     ELSE \E origin \in Origins, right \in BOOLEAN :
            visitor' = [visitor EXCEPT ![v] = [Waiting EXCEPT !.at = "checking", !.name = n,
              !.id = IF Named(n) = {} THEN Nil ELSE CHOOSE i \in Named(n) : TRUE,
              !.valid = right /\ \E i \in Named(n) : accounts[i].is_active
                                   /\ is_source_ip_allowed(accounts[i].allowed_source_ips, origin)]]
  /\ UNCHANGED << accounts, roles, signedIn, failed, overlapped, time, visits >>

\* A failure is its time; a number tells it from others of that time.
Failure(n) == [at |-> time, number |-> CHOOSE k \in 0 .. Cardinality(failed[n]) : [at |-> time, number |-> k] \notin failed[n]]

_record_failure(v) ==
  LET n == visitor[v].name IN
  /\ visitor[v].at = "checking" /\ ~visitor[v].valid
  /\ attempts' = [attempts EXCEPT ![n] = @ \cup {Failure(n)}]
  /\ failed' = [failed EXCEPT ![n] = @ \cup {Failure(n)}]
  /\ visitor' = [visitor EXCEPT ![v] = Waiting]
  /\ UNCHANGED << accounts, roles, signedIn, overlapped, time, visits >>

\* What logins under a name that are about to write back have read.
SeenBy(n) == UNION { visitor[u].seen : u \in { u \in Visitors : visitor[u].at = "looking" /\ visitor[u].name = n } }

\* The failures are forgotten first; the date of the login cannot be stored in an account that is gone.
_clear_failures(v) ==
  LET n == visitor[v].name IN
  /\ visitor[v].at = "checking" /\ visitor[v].valid
  /\ attempts' = [attempts EXCEPT ![n] = {}]
  /\ failed' = [failed EXCEPT ![n] = SeenBy(n)]
  /\ signedIn' = IF visitor[v].id \in DOMAIN accounts THEN signedIn \cup {n} ELSE signedIn
  /\ visitor' = [visitor EXCEPT ![v] = Waiting]
  /\ UNCHANGED << accounts, roles, overlapped, time, visits >>

\* Or the session is eight hours old.
logout ==
  /\ \E s \in signedIn : signedIn' = signedIn \ {s}
  /\ UNCHANGED << accounts, roles, attempts, visitor, failed, overlapped, time, visits >>

-----------------------------------------------------------------------------
(* Requests of superadmins.                                                *)

get_current_admin(s) == { i \in Named(s) : accounts[i].is_active }
get_current_superadmin(s) == { i \in get_current_admin(s) : accounts[i].is_superadmin }

Superadmins == { i \in DOMAIN accounts : accounts[i].is_superadmin /\ accounts[i].is_active }
\* Bug: the account that is edited counts as the one that is left.
BugCountsItself(excluding) == Cardinality(Superadmins)
_active_superadmin_count(excluding) == Cardinality(Superadmins \ {excluding})

check_can_add_admin == Cardinality(DOMAIN accounts) + 1 \leq AdminLimit

Editing == { v \in Visitors : visitor[v].at \in {"editing", "deleting"} }
\* history: two decisions were taken on the same accounts
Overlaps2 == overlapped' = (overlapped \/ Editing # {})

create_admin_user ==
  /\ Visits
  /\ \E s \in signedIn : get_current_superadmin(s) # {}
  /\ check_can_add_admin
  /\ \E i \in Ids \ DOMAIN accounts, row \in Account :
       /\ row.role_id \in roles \cup {Nil} /\ Named(row.name) = {}
       /\ accounts' = [j \in DOMAIN accounts \cup {i} |-> IF j = i THEN row ELSE accounts[j]]
  /\ UNCHANGED << roles, signedIn, attempts, visitor, failed, overlapped, time >>

\* Nobody deactivates or shuts out the account of the request, or the last active superadmin.
update_admin_user(v) ==
  /\ visitor[v].at = "waiting" /\ Visits
  /\ \E s \in signedIn, origin \in Origins, id \in DOMAIN accounts, row \in Account : \E me \in get_current_superadmin(s) :
       LET keeps == row.is_superadmin /\ row.is_active IN
       /\ id = me => row.is_active
       /\ id \in Superadmins /\ ~keeps => _active_superadmin_count(id) > 0
       /\ id = me => is_source_ip_allowed(row.allowed_source_ips, origin)
       /\ row.role_id \in roles \cup {Nil}
       /\ row # accounts[id]
       /\ visitor' = [visitor EXCEPT ![v] = [Waiting EXCEPT !.at = "editing", !.id = id, !.was = accounts[id], !.row = row]]
  /\ Overlaps2
  /\ UNCHANGED << accounts, roles, signedIn, attempts, failed, time >>

delete_admin_user(v) ==
  /\ visitor[v].at = "waiting" /\ Visits
  /\ \E s \in signedIn, id \in DOMAIN accounts : \E me \in get_current_superadmin(s) :
       /\ id # me
       /\ id \in Superadmins => _active_superadmin_count(id) > 0
       /\ visitor' = [visitor EXCEPT ![v] = [Waiting EXCEPT !.at = "deleting", !.id = id]]
  /\ Overlaps2
  /\ UNCHANGED << accounts, roles, signedIn, attempts, failed, time >>

\* Only what differs from what was read is written; nothing, when the account is gone, its new name is
\* taken, or its new role was deleted since.
CommitAccount(v) ==
  LET me == visitor[v]
      changed == { f \in DOMAIN me.row : me.row[f] # me.was[f] } IN
  /\ v \in Editing
  /\ visitor' = [visitor EXCEPT ![v] = Waiting]
  /\ \/ /\ me.at = "deleting" /\ me.id \in DOMAIN accounts
        /\ accounts' = Restrict(accounts, DOMAIN accounts \ {me.id})
     \/ /\ me.at = "editing" /\ me.id \in DOMAIN accounts
        /\ accounts' = IF /\ "name" \in changed => Named(me.row.name) \subseteq {me.id}
                          /\ "role_id" \in changed => me.row.role_id \in roles \cup {Nil}
                       THEN [accounts EXCEPT ![me.id] = [f \in DOMAIN @ |-> IF f \in changed THEN me.row[f] ELSE @[f]]]
                       ELSE accounts
     \/ me.id \notin DOMAIN accounts /\ UNCHANGED accounts
  /\ UNCHANGED << roles, signedIn, attempts, failed, overlapped, time, visits >>

create_role ==
  /\ Visits /\ \E s \in signedIn : get_current_superadmin(s) # {}
  /\ \E x \in RoleIds \ roles : roles' = roles \cup {x}
  /\ UNCHANGED << accounts, signedIn, attempts, visitor, failed, overlapped, time >>

\* Bug: accounts keep a role that is gone.
BugRoleStays ==
  /\ Visits /\ \E s \in signedIn : get_current_superadmin(s) # {}
  /\ \E x \in roles : roles' = roles \ {x}
  /\ UNCHANGED << accounts, signedIn, attempts, visitor, failed, overlapped, time >>
\* Accounts that had the role have none.
delete_role ==
  /\ Visits /\ \E s \in signedIn : get_current_superadmin(s) # {}
  /\ \E x \in roles :
       /\ roles' = roles \ {x}
       /\ accounts' = [i \in DOMAIN accounts |-> IF accounts[i].role_id = x THEN [accounts[i] EXCEPT !.role_id = Nil]
                                                 ELSE accounts[i]]
  /\ UNCHANGED << signedIn, attempts, visitor, failed, overlapped, time >>

\* At the next start the counters are gone; the roles are made again only when there are none.
ensure_seeded ==
  /\ \E v \in Visitors : visitor[v].at # "waiting"
  /\ visitor' = [v \in Visitors |-> Waiting]
  /\ attempts' = [n \in AdminNames |-> {}]
  /\ roles' = IF roles = {} THEN RoleIds ELSE roles
  /\ UNCHANGED << accounts, signedIn, failed, overlapped, time, visits >>

TimeGoesOn ==
  /\ time < MaxTime /\ time' = time + 1
  /\ UNCHANGED << accounts, roles, signedIn, attempts, visitor, failed, overlapped, visits >>

AdminNext ==
  \/ \E v \in Visitors : \/ login(v) \/ WriteBack(v) \/ _record_failure(v) \/ _clear_failures(v)
                         \/ update_admin_user(v) \/ delete_admin_user(v) \/ CommitAccount(v)
  \/ logout \/ create_admin_user \/ create_role \/ delete_role \/ ensure_seeded \/ TimeGoesOn

AdminSpec == AdminInit /\ [][AdminNext]_adminVars

-----------------------------------------------------------------------------
\* The platform cannot be bricked from its own pages: however accounts are edited, renamed, demoted,
\* restricted and deleted, somebody who is an active superadmin is left, unless two edits overlapped.
SomebodyIsLeft == Superadmins # {} \/ overlapped

\* And a name is only ever locked out by as many failures under it that are recent and that no login has
\* redeemed, but for those that another login was looking at when they were: it puts them back.
NobodyIsLockedOut ==
  /\ SomebodyIsLeft
  /\ \A n \in AdminNames :
       _is_locked_out(Recent(attempts[n])) => Cardinality({ f \in failed[n] : time < f.at + LOCKOUT }) \geq MAX_ATTEMPTS
=============================================================================
