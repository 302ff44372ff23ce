----------------------------- MODULE PolicyEdits -----------------------------
(***************************************************************************)
(* Administrators editing the rows of PolicyMatch                          *)
(* (api/routes_policies.py, routes_policy_conditions.py,                   *)
(* routes_device_access_grants.py, routes_command_sets.py, and the group,  *)
(* user and device routes), while anybody may ask either reading.          *)
(*                                                                         *)
(* A request is one database transaction.  Those that put a condition tree *)
(* in place read the policy's rows, decide, and commit later, so two of    *)
(* them may overlap; the others are one step.                              *)
(***************************************************************************)
EXTENDS PolicyMatch

CONSTANTS Threads,      \* worker threads that save condition trees
          Saves,        \* what administrators save as the fields of a policy
          Saveable,     \* the condition trees they save
          UsersAtFirst, DevicesAtFirst,      \* the groups of users and devices at first
          PoliciesAtFirst, PrioritiesAtFirst,
          MaxPriority, MaxEdits              \* bounds of the runs

ASSUME SavesAssumption == Saves \subseteq Fields /\ None \notin Fields
ASSUME SaveableAssumption == Saveable \subseteq Tree
ASSUME StartAssumption ==
  /\ UsersAtFirst \in [Users -> Groups \cup {None}]
  /\ DevicesAtFirst \in [Devices -> DeviceGroups \cup {None}]
  /\ PoliciesAtFirst \in [Policies -> Fields \cup {None}]
  /\ PrioritiesAtFirst \in [Policies -> Nat]
  /\ \A p, q \in Policies : 
        p # q /\ PoliciesAtFirst[p] # None /\ PoliciesAtFirst[q] # None
           => PrioritiesAtFirst[p] # PrioritiesAtFirst[q]
ASSUME BoundsAssumption == MaxPriority \in Nat /\ MaxEdits \in Nat

VARIABLES
  request,   \* what each thread is saving
  edits      \* requests so far; a root row is known by the request that made it

vars == <<tables, request, edits>>

Root == [id : Nat, policy : Policies, tree : Tree]
Grant == [group : Groups, device : Devices \cup {None}, deviceGroup : DeviceGroups \cup {None}]
Idle == [pc |-> "idle"]
Saving == [pc : {"replacing", "migrating"}, root : Root, seen : SUBSET Nat]

Named(f) == {f.group, f.device, f.deviceGroup} \ {None}

\* Types, and the foreign keys: a column that names a row names one there is.
TypeOK ==
  /\ rows \subseteq Users \cup Groups \cup Devices \cup DeviceGroups
  /\ userGroup \in [Users -> (Groups \cap rows) \cup {None}]
  /\ deviceGroup \in [Devices -> (DeviceGroups \cap rows) \cup {None}]
  /\ policy \in [Policies -> Fields \cup {None}]
  /\ \A p \in Present : Named(policy[p]) \subseteq rows
  /\ priority \in [Policies -> Nat]
  /\ trees \subseteq Root
  /\ grants \subseteq Grant /\ \A g \in grants : Named(g) \subseteq rows
  /\ setsOn \subseteq CommandSets
  /\ request \in [Threads -> {Idle} \cup Saving]
  /\ edits \in Nat

Init ==
  /\ rows = Users \cup Groups \cup Devices \cup DeviceGroups
  /\ userGroup = UsersAtFirst /\ deviceGroup = DevicesAtFirst
  /\ policy = PoliciesAtFirst /\ priority = PrioritiesAtFirst
  /\ trees = {} /\ grants = {} /\ setsOn = CommandSets
  /\ request = [t \in Threads |-> Idle] /\ edits = 0

Edit == edits < MaxEdits /\ edits' = edits + 1

-----------------------------------------------------------------------------
\* Policies and their order

BugShiftsOne(n, p) ==
  [q \in Policies |-> IF q = p THEN n ELSE IF priority[q] = n THEN priority[q] + 1 ELSE priority[q]]

\* the priorities once p is at n: a new policy pushes what is there and after down by
\* one, a moved one shifts those between its old and its new place
_make_room_for_priority(n, p) ==
  [q \in Policies |->
     IF q = p THEN n
     ELSE IF policy[p] # None /\ n > priority[p]
          THEN IF priority[q] > priority[p] /\ priority[q] <= n THEN priority[q] - 1 ELSE priority[q]
     ELSE IF priority[q] >= n /\ (policy[p] = None \/ priority[q] < priority[p])
          THEN priority[q] + 1 ELSE priority[q]]

save_policy(p, f, n) ==
  /\ Edit /\ Named(f) \subseteq rows
  /\ policy' = [policy EXCEPT ![p] = f]
  /\ priority' = _make_room_for_priority(n, p)
  /\ UNCHANGED <<rows, userGroup, deviceGroup, trees, grants, setsOn, request>>

\* a new row has a new identity: not one that a save under way is about
create_policy(p, f, n) ==
  /\ policy[p] = None /\ \A t \in Threads : request[t].pc # "idle" => request[t].root.policy # p
  /\ save_policy(p, f, n)
update_policy(p, f, n) == policy[p] # None /\ save_policy(p, f, n)

add_command_set_to_policy(p, s) ==
  /\ policy[p] # None /\ s \notin policy[p].sets /\ Edit
  /\ policy' = [policy EXCEPT ![p].sets = @ \cup {s}]
  /\ UNCHANGED <<rows, userGroup, deviceGroup, priority, trees, grants, setsOn, request>>

\* the cascade takes its condition trees; the numbers of the others stay
delete_policy(p) ==
  /\ policy[p] # None /\ Edit
  /\ policy' = [policy EXCEPT ![p] = None]
  /\ trees' = trees \ Roots(p)
  /\ UNCHANGED <<rows, userGroup, deviceGroup, priority, grants, setsOn, request>>

Unique(table) == \A p, q \in Present : p # q => table[p] # table[q]

\* the listed policies are numbered from 0; the deferred constraint refuses the commit
\* when one that is not listed holds such a number
reorder_policies(listed) ==
  LET renumbered == [p \in Policies |-> IF p \in DOMAIN listed THEN listed[p] ELSE priority[p]]
  IN  /\ Edit /\ Unique(renumbered)
      /\ priority' = renumbered
      /\ UNCHANGED <<rows, userGroup, deviceGroup, policy, trees, grants, setsOn, request>>

Listings ==
  UNION {{l \in [S -> 0 .. Cardinality(S) - 1] : \A p, q \in S : p # q => l[p] # l[q]}
           : S \in SUBSET Present \ {{}}}

-----------------------------------------------------------------------------
\* Condition trees

LeavesOf(t) == t.conds \cup UNION {g.conds : g \in t.groups}
ReferredBy(t) == UNION {c.ref : c \in {c \in LeavesOf(t) : c.type # "source_ip"}}

\* finds a root to delete, and checks what the new tree refers to
replace_condition_tree(t, p, tree) ==
  /\ request[t].pc = "idle" /\ policy[p] # None /\ ReferredBy(tree) \subseteq rows /\ Edit
  /\ \E seen \in IF Roots(p) = {} THEN {{}} ELSE {{x.id} : x \in Roots(p)} :
        request' = [request EXCEPT ![t] =
          [pc |-> "replacing", root |-> [id |-> edits, policy |-> p, tree |-> tree], seen |-> seen]]
  /\ UNCHANGED tables

BugMigratedOr(f) ==
  [ op |-> "OR", groups |-> {}, conds |->
      {[type |-> "user_group", op |-> "equal", ref |-> {g}] : g \in {f.group} \ {None}}
      \cup {[type |-> "device", op |-> "equal", ref |-> {d}] : d \in {f.device} \ {None}}
      \cup {[type |-> "device_group", op |-> "equal", ref |-> {g}] : g \in {f.deviceGroup} \ {None}} ]

Migrated(f) ==
  [ op |-> "AND", groups |-> {}, conds |->
      {[type |-> "user_group", op |-> "equal", ref |-> {g}] : g \in {f.group} \ {None}}
      \cup {[type |-> "device", op |-> "equal", ref |-> {d}] : d \in {f.device} \ {None}}
      \cup {[type |-> "device_group", op |-> "equal", ref |-> {g}] : g \in {f.deviceGroup} \ {None}} ]

migrate_legacy_policy(t, p) ==
  /\ request[t].pc = "idle" /\ policy[p] # None
  /\ ~ has_condition_tree(p) /\ Named(policy[p]) # {} /\ Edit
  /\ request' = [request EXCEPT ![t] =
        [ pc |-> "migrating", seen |-> {},
          root |-> [id |-> edits, policy |-> p, tree |-> Migrated(policy[p])] ]]
  /\ UNCHANGED tables

BugKeepsOldRoot(t) ==
  /\ request[t].pc # "idle"
  /\ trees' = IF policy[request[t].root.policy] = None THEN trees ELSE trees \cup {request[t].root}
  /\ request' = [request EXCEPT ![t] = Idle]
  /\ UNCHANGED <<rows, userGroup, deviceGroup, policy, priority, grants, setsOn, edits>>

\* the rows are written; a policy that is gone refuses them
commit_tree(t) ==
  LET root == request[t].root
  IN  /\ request[t].pc # "idle"
      /\ trees' = IF policy[root.policy] = None THEN trees
                  ELSE {x \in trees : x.id \notin request[t].seen} \cup {root}
      /\ request' = [request EXCEPT ![t] = Idle]
      /\ UNCHANGED <<rows, userGroup, deviceGroup, policy, priority, grants, setsOn, edits>>

-----------------------------------------------------------------------------
\* What policies are about

OrNone(x, gone) == IF x = gone THEN None ELSE x

BugDeleteKeepsMembers(x) ==
  /\ x \in rows /\ Edit
  /\ rows' = rows \ {x}
  /\ policy' = [p \in Policies |-> IF policy[p] = None THEN None ELSE
        [policy[p] EXCEPT !.group = OrNone(@, x), !.device = OrNone(@, x), !.deviceGroup = OrNone(@, x)]]
  /\ grants' = {g \in grants : x \notin {g.group, g.device, g.deviceGroup}}
  /\ UNCHANGED <<userGroup, deviceGroup, priority, trees, setsOn, request>>

\* delete_group, delete_user, delete_device, delete_device_group: the columns that named
\* the row become null, its grants go with it, conditions of trees keep naming it
delete_row(x) ==
  /\ x \in rows /\ Edit
  /\ rows' = rows \ {x}
  /\ userGroup' = [u \in Users |-> OrNone(userGroup[u], x)]
  /\ deviceGroup' = [d \in Devices |-> OrNone(deviceGroup[d], x)]
  /\ policy' = [p \in Policies |-> IF policy[p] = None THEN None ELSE
        [policy[p] EXCEPT !.group = OrNone(@, x), !.device = OrNone(@, x), !.deviceGroup = OrNone(@, x)]]
  /\ grants' = {g \in grants : x \notin {g.group, g.device, g.deviceGroup}}
  /\ UNCHANGED <<priority, trees, setsOn, request>>

\* add_member and remove_member of a user group, update_user
move_user(u, g) ==
  /\ u \in rows /\ g \in rows \cup {None} /\ userGroup[u] # g /\ Edit
  /\ userGroup' = [userGroup EXCEPT ![u] = g]
  /\ UNCHANGED <<rows, deviceGroup, policy, priority, trees, grants, setsOn, request>>

\* add_member and remove_member of a device group, update_device
move_device(d, g) ==
  /\ d \in rows /\ g \in rows \cup {None} /\ deviceGroup[d] # g /\ Edit
  /\ deviceGroup' = [deviceGroup EXCEPT ![d] = g]
  /\ UNCHANGED <<rows, userGroup, policy, priority, trees, grants, setsOn, request>>

\* for one device, or for a device group
create_grant(g) ==
  /\ (g.device = None) # (g.deviceGroup = None)
  /\ Named(g) \subseteq rows /\ g \notin grants /\ Edit
  /\ grants' = grants \cup {g}
  /\ UNCHANGED <<rows, userGroup, deviceGroup, policy, priority, trees, setsOn, request>>

delete_grant(g) ==
  /\ g \in grants /\ Edit
  /\ grants' = grants \ {g}
  /\ UNCHANGED <<rows, userGroup, deviceGroup, policy, priority, trees, setsOn, request>>

\* update_command_set switching a set on or off
toggle_command_set(s) ==
  /\ Edit
  /\ setsOn' = IF s \in setsOn THEN setsOn \ {s} ELSE setsOn \cup {s}
  /\ UNCHANGED <<rows, userGroup, deviceGroup, policy, priority, trees, grants, request>>

-----------------------------------------------------------------------------
Next ==
  \/ \E p \in Policies, f \in Saves, n \in 0 .. MaxPriority :
        create_policy(p, f, n) \/ update_policy(p, f, n)
  \/ \E p \in Policies : delete_policy(p)
  \/ \E p \in Policies, s \in CommandSets : add_command_set_to_policy(p, s)
  \/ \E l \in Listings : reorder_policies(l)
  \/ \E t \in Threads, p \in Policies, tree \in Saveable : replace_condition_tree(t, p, tree)
  \/ \E t \in Threads, p \in Policies : migrate_legacy_policy(t, p)
  \/ \E t \in Threads : commit_tree(t)
  \/ \E x \in Users \cup Groups \cup Devices \cup DeviceGroups : delete_row(x)
  \/ \E u \in Users, g \in Groups \cup {None} : move_user(u, g)
  \/ \E d \in Devices, g \in DeviceGroups \cup {None} : move_device(d, g)
  \/ \E g \in Grant : create_grant(g) \/ delete_grant(g)
  \/ \E s \in CommandSets : toggle_command_set(s)

Spec == Init /\ [][Next]_vars

-----------------------------------------------------------------------------
(***************************************************************************)
(* Properties.  OneRoot(p) is what the model of a condition group says of  *)
(* every policy ("exactly one ROOT group"); two saves that overlap can     *)
(* leave two, and then either reading may take either.                     *)
(***************************************************************************)
OneRoot(p) == \A x, y \in Roots(p) : x = y

\* No two policies share a priority: what make-room promises on creating or moving
\* one, what reordering a part of the list would break.
PrioritiesUnique == Unique(priority)

\* Creating, moving or deleting one policy, and every edit of anything else, leaves the
\* others in the order they were; only a reordering may change it.
OrderKept ==
  [][ \/ \E l \in Listings : reorder_policies(l)
      \/ \E moved \in Policies \cup {None} : \A p, q \in Present \ {moved} :
            {p, q} \subseteq Present' => ((priority[p] < priority[q]) <=> (priority[p] < priority[q])') ]_vars

\* The compiled rule of a policy never matches less than the Simulator says it does:
\* what it spells out differently (members for a device group, no test for a missing
\* value, a clause left out) only ever adds connections.
NeverNarrower ==
  \A p \in Present : OneRoot(p) /\ Compiles(p) =>
     \A r \in Connections : Matches(p, r) => RuleHolds(p, r)

\* Nothing in the way of the two readings: every enabled policy made it into the
\* ruleset, with a member for the device group of its legacy columns, and the question
\* is of a user and a device that have their groups, without a grant.
Plain(r) ==
  /\ ~ Granted(r) /\ UserGroupOf(r) # None /\ DeviceGroupOf(r) # None
  /\ \A p \in Present : policy[p].enabled =>
        /\ OneRoot(p) /\ Compiles(p)
        /\ policy[p].deviceGroup # None /\ ~ has_condition_tree(p) => Members({policy[p].deviceGroup}) # {}

\* "What the Simulator says" and "what the generated config actually does" are then the
\* same: the same policy decides, of a shell and of every command in it.
SameVerdict ==
  \A r \in Connections : Plain(r) =>
     /\ evaluate(r) = ServedBy(r)
     /\ \A command \in Commands :
           Served(r, command) = IF command = Login /\ evaluate(r) # None THEN "permit"
                                ELSE Simulated(r, command)

AsksForNoAddress(p) ==
  has_condition_tree(p) => \A c \in LeavesOf(get_root_group(p)) : c.type # "source_ip"

\* A device that effective access lists for a user, because of a policy that compiled, does open a
\* shell for this user wherever the question comes from, though with an address an earlier
\* policy may decide ("the exact same function, not a separately-maintained access-computation
\* path"); and where nothing is in the way of the two readings and no policy asks for an address, it
\* is the policy listed that decides.
ReportIsKept ==
  \A r \in Connections :
    LET p == EffectiveAccess(r.user, r.device) IN
    /\ p # None => (OneRoot(p) /\ Compiles(p) => Served(r, Login) = "permit")
    /\ Plain(r) /\ (\A q \in Present : policy[q].enabled => AsksForNoAddress(q)) => ServedBy(r) = p

\* A compiled policy serves everybody the Simulator says it serves, and where nothing is
\* in the way of the two readings nobody else, with the same commands; and whom effective
\* access lists is let in.
RulesetIsFaithful == NeverNarrower /\ SameVerdict /\ ReportIsKept

Target(t) == request[t].root.policy
CommitsOne(t, kind) ==
  request[t].pc = kind /\ request'[t].pc = "idle" /\ policy[Target(t)] # None

\* Migrating a policy changes no answer of the Simulator about it, for any question,
\* with any of user, device and address missing: "lossless and exact".  (A legacy
\* column saved between the reading and the commit is a different policy.)
MigrationLossless ==
  [][ \A t \in Threads, p \in Policies :
        CommitsOne(t, "migrating") /\ Target(t) = p /\ Roots(p) = {}
        /\ request[t].root.tree = Migrated(policy[p])
          => \A r \in Requests : Matches(p, r) <=> Matches(p, r)' ]_vars

\* A tree saved on what its author saw is the one that decides once it is committed.
SavedTreeDecides ==
  [][ \A t \in Threads :
        CommitsOne(t, "replacing") /\ {x.id : x \in Roots(Target(t))} = request[t].seen
          => \A x \in trees' : x.policy = Target(t) => x = request[t].root ]_vars

NoNot(t) == t.op # "NOT" /\ \A g \in t.groups : g.op # "NOT"

\* Deleting a group, a user, a device or a device group fails closed for a policy whose
\* tree has no NOT: whoever it matches afterwards it matched before.
DeletionFailsClosed ==
  [][ rows' # rows =>
        \A x \in trees : NoNot(x.tree) =>
           \A r \in Requests : (r \in Requests)' =>
              ((evaluate_group(x.tree, r))' => evaluate_group(x.tree, r)) ]_vars

Dangling(c) == c.type # "source_ip" /\ c.ref \cap rows = {}

\* "A database-backed condition whose referenced_object_id no longer resolves to a real
\* row is treated by the engine as never matching" (models/policy_condition.py)
DanglingNeverMatches ==
  \A x \in trees : \A c \in LeavesOf(x.tree) : Dangling(c) =>
     \A r \in Connections : ~ evaluate_condition(c, r)

=============================================================================
