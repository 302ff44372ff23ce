-------------------------- MODULE PolicyEditsProofs --------------------------
(***************************************************************************)
(* What PolicyEdits promises, for any policies, users, groups, devices,    *)
(* addresses, trees, threads and numbers of edits.                         *)
(*                                                                         *)
(* TypeOK is inductive by itself, foreign keys included.  NeverNarrower,   *)
(* SameVerdict and ReportIsKept follow from it in every state: they are of *)
(* the two readings of a condition, of a group and of a tree, and needs no *)
(* history.  The action properties are about single steps from well-typed  *)
(* states; the migration also needs that a migrated tree has a condition.  *)
(***************************************************************************)
EXTENDS PolicyEdits, WellFoundedInduction, TLAPS

-----------------------------------------------------------------------------
(***************************************************************************)
(* Types                                                                   *)
(***************************************************************************)

\* A value or the null column, after the row it may name has gone.
LEMMA OrNoneType ==
  ASSUME NEW S, NEW R, NEW x, NEW y \in (S \cap R) \cup {None}
  PROVE  OrNone(y, x) \in (S \cap (R \ {x})) \cup {None}
BY DEF OrNone

LEMMA RowsOfSaved ==
  ASSUME NEW f \in Fields PROVE
  /\ f.group \in Groups \cup {None} /\ f.device \in Devices \cup {None}
  /\ f.deviceGroup \in DeviceGroups \cup {None}
  /\ f # None
BY SavesAssumption DEF Fields

\* What migrating a policy makes of its columns is a tree.
LEMMA MigratedType ==
  ASSUME NEW f \in Fields PROVE
  /\ Migrated(f) \in Tree
  /\ Named(f) # {} => Migrated(f).conds # {}
<1> DEFINE A == {[type |-> "user_group", op |-> "equal", ref |-> {g}] : g \in {f.group} \ {None}}
<1> DEFINE B == {[type |-> "device", op |-> "equal", ref |-> {d}] : d \in {f.device} \ {None}}
<1> DEFINE C == {[type |-> "device_group", op |-> "equal", ref |-> {g}] : g \in {f.deviceGroup} \ {None}}
<1>1. A \subseteq Leaf
  <2>1. ASSUME NEW g \in Groups PROVE [type |-> "user_group", op |-> "equal", ref |-> {g}] \in Leaf
    <3>1. "user_group" \in ObjectTypes /\ References["user_group"] = Groups BY DEF ObjectTypes, References
    <3>2. "equal" \in Operators("user_group") BY DEF Operators
    <3>3. [type |-> "user_group", op |-> "equal", ref |-> {g}]
            \in [type : {"user_group"}, op : Operators("user_group"), ref : SUBSET References["user_group"]]
      BY <3>1, <3>2
    <3> QED BY <3>1, <3>3 DEF Leaf
  <2> QED BY <2>1, RowsOfSaved
<1>2. B \subseteq Leaf
  <2>1. ASSUME NEW d \in Devices PROVE [type |-> "device", op |-> "equal", ref |-> {d}] \in Leaf
    <3>1. "device" \in ObjectTypes /\ References["device"] = Devices BY DEF ObjectTypes, References
    <3>2. "equal" \in Operators("device") BY DEF Operators
    <3>3. [type |-> "device", op |-> "equal", ref |-> {d}]
            \in [type : {"device"}, op : Operators("device"), ref : SUBSET References["device"]]
      BY <3>1, <3>2
    <3> QED BY <3>1, <3>3 DEF Leaf
  <2> QED BY <2>1, RowsOfSaved
<1>3. C \subseteq Leaf
  <2>1. ASSUME NEW g \in DeviceGroups PROVE [type |-> "device_group", op |-> "equal", ref |-> {g}] \in Leaf
    <3>1. "device_group" \in ObjectTypes /\ References["device_group"] = DeviceGroups BY DEF ObjectTypes, References
    <3>2. "equal" \in Operators("device_group") BY DEF Operators
    <3>3. [type |-> "device_group", op |-> "equal", ref |-> {g}]
            \in [type : {"device_group"}, op : Operators("device_group"), ref : SUBSET References["device_group"]]
      BY <3>1, <3>2
    <3> QED BY <3>1, <3>3 DEF Leaf
  <2> QED BY <2>1, RowsOfSaved
<1>4. Migrated(f) = [op |-> "AND", groups |-> {}, conds |-> A \cup B \cup C]
  BY DEF Migrated
<1>5. A \cup B \cup C \in SUBSET Leaf BY <1>1, <1>2, <1>3
<1>6. Named(f) # {} => A \cup B \cup C # {}
  <2>1. f.group # None => [type |-> "user_group", op |-> "equal", ref |-> {f.group}] \in A OBVIOUS
  <2>2. f.device # None => [type |-> "device", op |-> "equal", ref |-> {f.device}] \in B OBVIOUS
  <2>3. f.deviceGroup # None => [type |-> "device_group", op |-> "equal", ref |-> {f.deviceGroup}] \in C
    OBVIOUS
  <2> HIDE DEF A, B, C
  <2> QED BY <2>1, <2>2, <2>3 DEF Named
<1> HIDE DEF A, B, C
<1>7. [op |-> "AND", groups |-> {}, conds |-> A \cup B \cup C] \in Tree
  BY <1>5 DEF Tree, LogicalOperators
<1> QED BY <1>4, <1>6, <1>7

\* The parts of TypeOK.
Tables ==
  /\ rows \subseteq Users \cup Groups \cup Devices \cup DeviceGroups
  /\ userGroup \in [Users -> (Groups \cap rows) \cup {None}]
  /\ deviceGroup \in [Devices -> (DeviceGroups \cap rows) \cup {None}]
PolicyTypes ==
  /\ policy \in [Policies -> Fields \cup {None}]
  /\ \A p \in Policies : policy[p] # None => Named(policy[p]) \subseteq rows
  /\ priority \in [Policies -> Nat]
TreeTypes == trees \subseteq Root /\ request \in [Threads -> {Idle} \cup Saving] /\ edits \in Nat
OtherTypes ==
  /\ grants \subseteq Grant /\ \A g \in grants : Named(g) \subseteq rows
  /\ setsOn \subseteq CommandSets

LEMMA TypeParts == TypeOK <=> Tables /\ PolicyTypes /\ TreeTypes /\ OtherTypes
BY DEF TypeOK, Tables, PolicyTypes, TreeTypes, OtherTypes, Present

LEMMA TypePartsNext == TypeOK' <=> Tables' /\ PolicyTypes' /\ TreeTypes' /\ OtherTypes'
BY DEF TypeOK, Tables, PolicyTypes, TreeTypes, OtherTypes, Present

\* A request under way is a request to save a root.
LEMMA RequestTypes ==
  ASSUME TreeTypes, NEW t \in Threads, request[t].pc # "idle"
  PROVE  /\ request[t] \in Saving /\ request[t].root \in Root
         /\ request[t].root.policy \in Policies /\ request[t].root.tree \in Tree
         /\ request[t].root.id \in Nat /\ request[t].seen \in SUBSET Nat
<1>1. request[t] \in {Idle} \cup Saving BY DEF TreeTypes
<1>2. request[t] # Idle BY DEF Idle
<1>3. request[t] \in Saving BY <1>1, <1>2
<1>4. request[t].root \in Root /\ request[t].seen \in SUBSET Nat BY <1>3 DEF Saving
<1> QED BY <1>3, <1>4 DEF Root

LEMMA RoomTypes ==
  ASSUME PolicyTypes, NEW n \in Nat, NEW p \in Policies
  PROVE  _make_room_for_priority(n, p) \in [Policies -> Nat]
BY DEF _make_room_for_priority, PolicyTypes

\* Requests that write nothing but the fields or the order of policies.
LEMMA PolicySteps ==
  ASSUME TypeOK,
         \/ \E p \in Policies, f \in Saves, n \in 0 .. MaxPriority :
               create_policy(p, f, n) \/ update_policy(p, f, n)
         \/ \E p \in Policies : delete_policy(p)
         \/ \E p \in Policies, s \in CommandSets : add_command_set_to_policy(p, s)
         \/ \E l \in Listings : reorder_policies(l)
  PROVE  TypeOK'
<1> USE TypeParts, TypePartsNext
<1>1. ASSUME NEW p \in Policies, NEW f \in Saves, NEW n \in 0 .. MaxPriority, save_policy(p, f, n)
      PROVE  TypeOK'
  <2>1. f \in Fields /\ n \in Nat BY SavesAssumption, BoundsAssumption
  <2>2. PolicyTypes'
    <3>1. priority' \in [Policies -> Nat] BY <1>1, <2>1, RoomTypes DEF save_policy
    <3>2. policy' = [policy EXCEPT ![p] = f] /\ rows' = rows /\ Named(f) \subseteq rows
      BY <1>1 DEF save_policy
    <3> QED BY <2>1, <3>1, <3>2 DEF PolicyTypes
  <2>3. Tables' BY <1>1 DEF save_policy, Tables
  <2>4. TreeTypes' BY <1>1 DEF save_policy, TreeTypes, Edit
  <2>5. OtherTypes' BY <1>1 DEF save_policy, OtherTypes
  <2> QED BY <2>2, <2>3, <2>4, <2>5
<1>2. ASSUME NEW p \in Policies, delete_policy(p) PROVE TypeOK'
  <2>1. PolicyTypes' BY <1>2 DEF delete_policy, PolicyTypes
  <2>2. Tables' BY <1>2 DEF delete_policy, Tables
  <2>3. TreeTypes' BY <1>2 DEF delete_policy, TreeTypes, Edit
  <2>4. OtherTypes' BY <1>2 DEF delete_policy, OtherTypes
  <2> QED BY <2>1, <2>2, <2>3, <2>4
<1>3. ASSUME NEW p \in Policies, NEW s \in CommandSets, add_command_set_to_policy(p, s) PROVE TypeOK'
  <2>1. PolicyTypes'
    <3> DEFINE f == [policy[p] EXCEPT !.sets = @ \cup {s}]
    <3>1. policy[p] \in Fields BY <1>3 DEF add_command_set_to_policy, PolicyTypes
    <3>2. f \in Fields /\ Named(f) = Named(policy[p]) BY <3>1 DEF Fields, Named
    <3>3. policy' = [policy EXCEPT ![p] = f] /\ rows' = rows /\ priority' = priority
      BY <1>3 DEF add_command_set_to_policy, PolicyTypes
    <3>4. Named(policy[p]) \subseteq rows BY <1>3 DEF add_command_set_to_policy, PolicyTypes
    <3> HIDE DEF f
    <3> QED BY <3>2, <3>3, <3>4 DEF PolicyTypes
  <2>2. Tables' BY <1>3 DEF add_command_set_to_policy, Tables
  <2>3. TreeTypes' BY <1>3 DEF add_command_set_to_policy, TreeTypes, Edit
  <2>4. OtherTypes' BY <1>3 DEF add_command_set_to_policy, OtherTypes
  <2> QED BY <2>1, <2>2, <2>3, <2>4
<1>4. ASSUME NEW l \in Listings, reorder_policies(l) PROVE TypeOK'
  <2>1. PICK S \in SUBSET Present : l \in [S -> 0 .. Cardinality(S) - 1] BY DEF Listings
  <2>2. \A p \in DOMAIN l : l[p] \in Nat BY <2>1
  <2>3. PolicyTypes' BY <1>4, <2>2 DEF reorder_policies, PolicyTypes
  <2>4. Tables' BY <1>4 DEF reorder_policies, Tables
  <2>5. TreeTypes' BY <1>4 DEF reorder_policies, TreeTypes, Edit
  <2>6. OtherTypes' BY <1>4 DEF reorder_policies, OtherTypes
  <2> QED BY <2>3, <2>4, <2>5, <2>6
<1> QED BY <1>1, <1>2, <1>3, <1>4 DEF create_policy, update_policy

\* Requests that put a condition tree in place.
LEMMA TreeSteps ==
  ASSUME TypeOK, NEW t \in Threads,
         \/ \E p \in Policies, tree \in Saveable : replace_condition_tree(t, p, tree)
         \/ \E p \in Policies : migrate_legacy_policy(t, p)
         \/ commit_tree(t)
  PROVE  TypeOK'
<1> USE TypeParts, TypePartsNext
<1>1. ASSUME NEW p \in Policies, NEW tree \in Saveable, replace_condition_tree(t, p, tree) PROVE TypeOK'
  <2>1. PICK seen \in IF Roots(p) = {} THEN {{}} ELSE {{x.id} : x \in Roots(p)} :
          request' = [request EXCEPT ![t] =
            [pc |-> "replacing", root |-> [id |-> edits, policy |-> p, tree |-> tree], seen |-> seen]]
    BY <1>1 DEF replace_condition_tree
  <2>2. seen \in SUBSET Nat BY DEF Roots, TreeTypes, Root
  <2>3. [id |-> edits, policy |-> p, tree |-> tree] \in Root BY SaveableAssumption DEF TreeTypes, Root
  <2>4. [pc |-> "replacing", root |-> [id |-> edits, policy |-> p, tree |-> tree], seen |-> seen] \in Saving
    BY <2>2, <2>3 DEF Saving
  <2>5. request' \in [Threads -> {Idle} \cup Saving] BY <2>1, <2>4 DEF TreeTypes
  <2> QED BY <1>1, <2>5
        DEF replace_condition_tree, Tables, PolicyTypes, TreeTypes, OtherTypes, Edit, tables
<1>2. ASSUME NEW p \in Policies, migrate_legacy_policy(t, p) PROVE TypeOK'
  <2>1. policy[p] \in Fields BY <1>2 DEF migrate_legacy_policy, PolicyTypes
  <2>2. [id |-> edits, policy |-> p, tree |-> Migrated(policy[p])] \in Root
    BY <2>1, MigratedType DEF TreeTypes, Root
  <2>3. [ pc |-> "migrating", seen |-> {},
          root |-> [id |-> edits, policy |-> p, tree |-> Migrated(policy[p])] ] \in Saving
    BY <2>2 DEF Saving
  <2>4. request' \in [Threads -> {Idle} \cup Saving] BY <1>2, <2>3 DEF migrate_legacy_policy, TreeTypes
  <2> QED BY <1>2, <2>4
        DEF migrate_legacy_policy, Tables, PolicyTypes, TreeTypes, OtherTypes, Edit, tables
<1>3. ASSUME commit_tree(t) PROVE TypeOK'
  <2>1. trees' \subseteq Root BY <1>3, RequestTypes DEF commit_tree, TreeTypes
  <2>2. TreeTypes' BY <1>3, <2>1 DEF commit_tree, TreeTypes
  <2> QED BY <1>3, <2>2 DEF commit_tree, Tables, PolicyTypes, OtherTypes
<1> QED BY <1>1, <1>2, <1>3

\* Requests about users, devices, their groups and the grants.  A row that goes takes
\* with it every column that names it: the foreign keys stay live.
LEMMA RowSteps ==
  ASSUME TypeOK,
         \/ \E x \in Users \cup Groups \cup Devices \cup DeviceGroups : delete_row(x)
         \/ \E u \in Users, g \in Groups \cup {None} : move_user(u, g)
         \/ \E d \in Devices, g \in DeviceGroups \cup {None} : move_device(d, g)
         \/ \E g \in Grant : create_grant(g) \/ delete_grant(g)
         \/ \E s \in CommandSets : toggle_command_set(s)
  PROVE  TypeOK'
<1> USE TypeParts, TypePartsNext
<1>1. ASSUME NEW x \in Users \cup Groups \cup Devices \cup DeviceGroups, delete_row(x) PROVE TypeOK'
  <2>1. Tables' BY <1>1, OrNoneType DEF delete_row, Tables
  <2>2. PolicyTypes'
    <3> DEFINE Without(f) == [f EXCEPT !.group = OrNone(@, x), !.device = OrNone(@, x),
                                       !.deviceGroup = OrNone(@, x)]
    <3>1. ASSUME NEW f \in Fields, Named(f) \subseteq rows
          PROVE  Without(f) \in Fields /\ Named(Without(f)) \subseteq rows \ {x}
      <4>1. Without(f) = [f EXCEPT !.group = OrNone(f.group, x), !.device = OrNone(f.device, x),
                                   !.deviceGroup = OrNone(f.deviceGroup, x)]
        BY <3>1 DEF Fields
      <4>2. /\ OrNone(f.group, x) \in Groups \cup {None} /\ OrNone(f.device, x) \in Devices \cup {None}
            /\ OrNone(f.deviceGroup, x) \in DeviceGroups \cup {None}
        BY RowsOfSaved DEF OrNone
      <4>3. Without(f) \in Fields BY <4>1, <4>2 DEF Fields
      <4>4. /\ Without(f).group = OrNone(f.group, x) /\ Without(f).device = OrNone(f.device, x)
            /\ Without(f).deviceGroup = OrNone(f.deviceGroup, x)
        BY <4>1 DEF Fields
      <4> HIDE DEF Without
      <4> QED BY <3>1, <4>3, <4>4 DEF Named, OrNone
    <3>2. policy' = [p \in Policies |-> IF policy[p] = None THEN None ELSE Without(policy[p])]
      BY <1>1 DEF delete_row
    <3>3. rows' = rows \ {x} /\ priority' = priority BY <1>1 DEF delete_row
    <3> HIDE DEF Without
    <3> QED BY <3>1, <3>2, <3>3, SavesAssumption DEF PolicyTypes
  <2>3. TreeTypes'
    <3>1. trees' = trees /\ request' = request /\ edits' = edits + 1 BY <1>1 DEF delete_row, Edit
    <3> QED BY <3>1 DEF TreeTypes
  <2>4. OtherTypes' BY <1>1 DEF delete_row, OtherTypes, Named
  <2> QED BY <2>1, <2>2, <2>3, <2>4
<1>2. ASSUME NEW u \in Users, NEW g \in Groups \cup {None}, move_user(u, g) PROVE TypeOK'
  BY <1>2 DEF move_user, Tables, PolicyTypes, TreeTypes, OtherTypes, Edit
<1>3. ASSUME NEW d \in Devices, NEW g \in DeviceGroups \cup {None}, move_device(d, g) PROVE TypeOK'
  BY <1>3 DEF move_device, Tables, PolicyTypes, TreeTypes, OtherTypes, Edit
<1>4. ASSUME NEW g \in Grant, create_grant(g) \/ delete_grant(g) PROVE TypeOK'
  BY <1>4 DEF create_grant, delete_grant, Tables, PolicyTypes, TreeTypes, OtherTypes, Edit
<1>5. ASSUME NEW s \in CommandSets, toggle_command_set(s) PROVE TypeOK'
  BY <1>5 DEF toggle_command_set, Tables, PolicyTypes, TreeTypes, OtherTypes, Edit
<1> QED BY <1>1, <1>2, <1>3, <1>4, <1>5

LEMMA InitTypes == Init => TypeOK
<1> SUFFICES ASSUME Init PROVE TypeOK OBVIOUS
<1> USE StartAssumption, TypeParts DEF Init
<1>1. Tables BY DEF Tables
<1>2. PolicyTypes
  <2>1. ASSUME NEW p \in Policies, policy[p] # None PROVE Named(policy[p]) \subseteq rows
    <3>1. policy[p] \in Fields BY <2>1
    <3> QED BY <3>1, RowsOfSaved DEF Named
  <2> QED BY <2>1 DEF PolicyTypes
<1>3. TreeTypes BY DEF TreeTypes
<1>4. OtherTypes BY DEF OtherTypes
<1> QED BY <1>1, <1>2, <1>3, <1>4

LEMMA StutterTypes == ASSUME TypeOK, UNCHANGED vars PROVE TypeOK'
BY TypeParts, TypePartsNext DEF vars, tables, Tables, PolicyTypes, TreeTypes, OtherTypes

LEMMA StepTypes == TypeOK /\ [Next]_vars => TypeOK'
<1> SUFFICES ASSUME TypeOK, [Next]_vars PROVE TypeOK' OBVIOUS
<1>1. CASE UNCHANGED vars BY <1>1, StutterTypes
<1>2. CASE Next BY <1>2, PolicySteps, TreeSteps, RowSteps DEF Next
<1> QED BY <1>1, <1>2

\* Every column that names a row names one there is, and every table holds what its
\* columns may hold, whoever is edited, deleted or saved in which order.
THEOREM PolicyTypesCorrect == Spec => []TypeOK
BY InitTypes, StepTypes, PTL DEF Spec

-----------------------------------------------------------------------------
(***************************************************************************)
(* The two readings                                                        *)
(***************************************************************************)

LEMMA ConnectionTypes ==
  ASSUME TypeOK, NEW r \in Connections
  PROVE  r.user \in Users \cap rows /\ r.device \in Devices \cap rows /\ r.ip \in Addresses
         /\ r \in Requests
BY NoneAssumption DEF Connections, Requests

LEMMA TreeParts ==
  ASSUME NEW t \in Tree
  PROVE  /\ t.op \in LogicalOperators /\ t.conds \subseteq Leaf /\ t.groups \subseteq NestedGroup
         /\ \A g \in t.groups : g.op \in LogicalOperators /\ g.conds \subseteq Leaf
BY DEF Tree, NestedGroup

LEMMA LeafType == ASSUME NEW c \in Leaf PROVE c.type \in ObjectTypes
BY DEF Leaf

\* Of a connection, a leaf of the compiled text says what the engine would say but for
\* the missing value: its members stand for a device group.
LEMMA LeafReading ==
  ASSUME TypeOK, NEW r \in Connections, NEW c
  PROVE  LeafHolds(c, r) <=> ((Actual(c.type, r) \in c.ref) <=> (c.op \notin Negative))
<1>1. CASE c.type = "device_group"
  <2>1. r.device \in Devices \cap rows /\ r.device # None BY ConnectionTypes, NoneAssumption
  <2>2. Actual(c.type, r) = deviceGroup[r.device] BY <1>1, <2>1 DEF Actual, DeviceGroupOf
  <2>3. r.device \in Members(c.ref) <=> deviceGroup[r.device] \in c.ref BY <2>1 DEF Members
  <2> QED BY <1>1, <2>2, <2>3 DEF LeafHolds
<1>2. CASE c.type # "device_group" BY <1>2 DEF LeafHolds
<1> QED BY <1>1, <1>2

LEMMA LeafNeverNarrower ==
  ASSUME TypeOK, NEW r \in Connections, NEW c, evaluate_condition(c, r)
  PROVE  LeafHolds(c, r)
BY LeafReading DEF evaluate_condition

LEMMA NestedNeverNarrower ==
  ASSUME TypeOK, NEW r \in Connections, NEW g, NestedCompiles(g), evaluate_nested(g, r)
  PROVE  NestedHolds(g, r)
BY LeafNeverNarrower DEF NestedCompiles, evaluate_nested, NestedHolds

LEMMA TreeNeverNarrower ==
  ASSUME TypeOK, NEW r \in Connections, NEW t, TreeCompiles(t), evaluate_group(t, r)
  PROVE  TreeHolds(t, r)
<1>1. ASSUME NEW c \in t.conds, evaluate_condition(c, r) PROVE LeafHolds(c, r)
  BY <1>1, LeafNeverNarrower
<1>2. ASSUME NEW g \in t.groups, evaluate_nested(g, r) PROVE NestedHolds(g, r)
  BY <1>2, NestedNeverNarrower DEF TreeCompiles
<1>3. CASE t.op = "AND" BY <1>1, <1>2, <1>3 DEF evaluate_group, TreeHolds
<1>4. CASE t.op = "OR" BY <1>1, <1>2, <1>4 DEF evaluate_group, TreeHolds
<1>5. CASE t.op = "NOT" BY <1>5 DEF TreeCompiles
<1> QED BY <1>3, <1>4, <1>5 DEF evaluate_group

\* A clause that is left out, and one about members, only ever widens.
LEMMA LegacyNeverNarrower ==
  ASSUME TypeOK, NEW r \in Connections, NEW f, policy_matches(f, r)
  PROVE  LegacyHolds(f, r)
<1>1. r.device \in Devices \cap rows /\ r.device # None /\ None \notin rows
  BY ConnectionTypes, NoneAssumption DEF TypeOK
<1>2. f.group \in rows => UserGroupOf(r) = f.group BY <1>1 DEF policy_matches
<1>3. f.device \in rows => r.device = f.device BY <1>1 DEF policy_matches
<1>4. ASSUME Members({f.deviceGroup} \ {None}) # {} PROVE r.device \in Members({f.deviceGroup})
  <2>1. f.deviceGroup # None BY <1>4 DEF Members
  <2>2. DeviceGroupOf(r) = f.deviceGroup BY <2>1 DEF policy_matches
  <2> QED BY <1>1, <2>2 DEF Members, DeviceGroupOf
<1> QED BY <1>2, <1>3, <1>4 DEF LegacyHolds

LEMMA RuleNeverNarrower ==
  ASSUME TypeOK, NEW r \in Connections, NEW p, Compiles(p), Matches(p, r)
  PROVE  RuleHolds(p, r)
BY TreeNeverNarrower, LegacyNeverNarrower DEF Compiles, Matches, RuleHolds

LEMMA NarrowerInv == TypeOK => NeverNarrower
BY RuleNeverNarrower DEF NeverNarrower

\* The compiled rule of a policy matches whatever the Simulator says the policy matches,
\* in every state administrators can bring about.
THEOREM CompiledNeverNarrower == Spec => []NeverNarrower
BY PolicyTypesCorrect, NarrowerInv, PTL

-----------------------------------------------------------------------------
(***************************************************************************)
(* The same verdict: where every value is there and everything compiled,   *)
(* the readings of a leaf, a group, a tree and a policy are equivalent, so *)
(* the same policies match and the same first one decides.                 *)
(***************************************************************************)

LEMMA NothingMissing ==
  ASSUME TypeOK, NEW r \in Connections, UserGroupOf(r) # None, DeviceGroupOf(r) # None,
         NEW type \in ObjectTypes
  PROVE  Actual(type, r) # None
<1>1. r.user # None /\ r.device # None /\ r.ip # None BY DEF Connections
<1>2. type \in {"user", "user_group", "device", "device_group", "source_ip"}
  BY DEF ObjectTypes, References
<1> QED BY <1>1, <1>2 DEF Actual

LEMMA SameLeaf ==
  ASSUME TypeOK, NEW r \in Connections, UserGroupOf(r) # None, DeviceGroupOf(r) # None,
         NEW c \in Leaf
  PROVE  evaluate_condition(c, r) <=> LeafHolds(c, r)
BY LeafReading, NothingMissing, LeafType DEF evaluate_condition

LEMMA SameNested ==
  ASSUME TypeOK, NEW r \in Connections, UserGroupOf(r) # None, DeviceGroupOf(r) # None,
         NEW g, g.conds \subseteq Leaf, NestedCompiles(g)
  PROVE  evaluate_nested(g, r) <=> NestedHolds(g, r)
<1>1. \A c \in g.conds : evaluate_condition(c, r) <=> LeafHolds(c, r) BY SameLeaf
<1> QED BY <1>1 DEF NestedCompiles, evaluate_nested, NestedHolds

LEMMA SameTree ==
  ASSUME TypeOK, NEW r \in Connections, UserGroupOf(r) # None, DeviceGroupOf(r) # None,
         NEW t \in Tree, TreeCompiles(t)
  PROVE  evaluate_group(t, r) <=> TreeHolds(t, r)
<1>1. \A c \in t.conds : evaluate_condition(c, r) <=> LeafHolds(c, r) BY SameLeaf, TreeParts
<1>2. \A g \in t.groups : evaluate_nested(g, r) <=> NestedHolds(g, r)
  BY SameNested, TreeParts DEF TreeCompiles
<1>3. t.op # "NOT" /\ (t.conds # {} \/ t.groups # {}) BY DEF TreeCompiles
<1> QED BY <1>1, <1>2, <1>3 DEF evaluate_group, TreeHolds

LEMMA SameLegacy ==
  ASSUME TypeOK, NEW r \in Connections, NEW p \in Present,
         policy[p].deviceGroup # None => Members({policy[p].deviceGroup}) # {}
  PROVE  policy_matches(policy[p], r) <=> LegacyHolds(policy[p], r)
<1> DEFINE f == policy[p]
<1>1. f \in Fields /\ Named(f) \subseteq rows BY DEF Present, TypeOK
<1>2. f.group # None => f.group \in rows BY <1>1 DEF Named
<1>3. f.device # None => f.device \in rows BY <1>1 DEF Named
<1>4. ASSUME f.deviceGroup # None, r.device \in Members({f.deviceGroup})
      PROVE  DeviceGroupOf(r) = f.deviceGroup
  BY <1>4, ConnectionTypes, NoneAssumption DEF Members, DeviceGroupOf
<1>5. f.deviceGroup # None => {f.deviceGroup} \ {None} = {f.deviceGroup} OBVIOUS
<1>6. LegacyHolds(f, r) => policy_matches(f, r)
  BY <1>2, <1>3, <1>4, <1>5 DEF LegacyHolds, policy_matches
<1> QED BY <1>6, LegacyNeverNarrower

LEMMA RootIsTree ==
  ASSUME TypeOK, NEW p, has_condition_tree(p) PROVE get_root_group(p) \in Tree
<1>1. \E x \in Roots(p) : TRUE BY DEF has_condition_tree
<1>2. (CHOOSE x \in Roots(p) : TRUE) \in Roots(p) BY <1>1
<1>3. Roots(p) \subseteq Root BY DEF Roots, TypeOK
<1> QED BY <1>2, <1>3 DEF get_root_group, Root

LEMMA SameRule ==
  ASSUME TypeOK, NEW r \in Connections, Plain(r), NEW p \in Present, policy[p].enabled
  PROVE  Compiles(p) /\ (Matches(p, r) <=> RuleHolds(p, r))
<1>1. /\ Compiles(p)
      /\ policy[p].deviceGroup # None /\ ~ has_condition_tree(p) => Members({policy[p].deviceGroup}) # {}
      /\ UserGroupOf(r) # None /\ DeviceGroupOf(r) # None
  BY DEF Plain
<1>2. CASE has_condition_tree(p)
  <2>1. get_root_group(p) \in Tree BY <1>2, RootIsTree
  <2> QED BY <1>1, <1>2, <2>1, SameTree DEF Compiles, Matches, RuleHolds
<1>3. CASE ~ has_condition_tree(p) BY <1>1, <1>3, SameLegacy DEF Matches, RuleHolds
<1> QED BY <1>1, <1>2, <1>3

LEMMA SameFirst ==
  ASSUME TypeOK, NEW r \in Connections, Plain(r) PROVE evaluate(r) = ServedBy(r)
<1> DEFINE M == {p \in Present : policy[p].enabled /\ Matches(p, r)}
<1> DEFINE H == {p \in Present : policy[p].enabled /\ Compiles(p) /\ RuleHolds(p, r)}
<1>1. M = H BY SameRule
<1>2. evaluate(r) = IF M = {} THEN None ELSE First(M) BY DEF evaluate
<1>3. ServedBy(r) = IF H = {} THEN None ELSE First(H) BY DEF ServedBy
<1> HIDE DEF M, H
<1> QED BY <1>1, <1>2, <1>3

LEMMA VerdictInv == TypeOK => SameVerdict
<1> SUFFICES ASSUME TypeOK, NEW r \in Connections, Plain(r)
    PROVE  /\ evaluate(r) = ServedBy(r)
           /\ \A command \in Commands :
                 Served(r, command) = IF command = Login /\ evaluate(r) # None THEN "permit"
                                      ELSE Simulated(r, command)
  BY DEF SameVerdict
<1>1. evaluate(r) = ServedBy(r) BY SameFirst
<1>2. ~ Granted(r) BY DEF Plain
<1> QED BY <1>1, <1>2 DEF Served, Simulated, Script

\* Where every enabled policy compiled and no grant intervenes, the Simulator and the
\* compiled ruleset give every router the same answer to every command.
THEOREM SimulatorTellsTheTruth == Spec => []SameVerdict
BY PolicyTypesCorrect, VerdictInv, PTL

-----------------------------------------------------------------------------
(***************************************************************************)
(* Effective access asks without an address.  A condition on an address is *)
(* then false, so a tree without NOT that matches goes on matching when    *)
(* the address is there; where no condition is on an address, nothing      *)
(* changes.                                                                *)
(***************************************************************************)
Addressless(r) == [user |-> r.user, device |-> r.device, ip |-> None]

LEMMA LeafWithAddress ==
  ASSUME NEW r, NEW c \in Leaf, evaluate_condition(c, Addressless(r))
  PROVE  evaluate_condition(c, r)
<1>1. c.type \in {"user", "user_group", "device", "device_group", "source_ip"}
  BY LeafType DEF ObjectTypes, References
<1>2. c.type # "source_ip" BY DEF evaluate_condition, Actual, Addressless
<1>3. Actual(c.type, Addressless(r)) = Actual(c.type, r)
  BY <1>1, <1>2 DEF Actual, Addressless, UserGroupOf, DeviceGroupOf
<1> QED BY <1>3 DEF evaluate_condition

LEMMA TreeWithAddress ==
  ASSUME NEW r, NEW t \in Tree, TreeCompiles(t), evaluate_group(t, Addressless(r))
  PROVE  evaluate_group(t, r)
<1> DEFINE s == Addressless(r)
<1>1. \A c \in t.conds : evaluate_condition(c, s) => evaluate_condition(c, r)
  BY LeafWithAddress, TreeParts
<1>2. ASSUME NEW g \in t.groups, evaluate_nested(g, s) PROVE evaluate_nested(g, r)
  <2>1. \A c \in g.conds : evaluate_condition(c, s) => evaluate_condition(c, r)
    BY LeafWithAddress, TreeParts
  <2>2. g.op # "NOT" BY DEF TreeCompiles, NestedCompiles
  <2> HIDE DEF s
  <2> QED BY <1>2, <2>1, <2>2 DEF evaluate_nested
<1>3. t.op # "NOT" BY DEF TreeCompiles
<1>4. evaluate_group(t, s) OBVIOUS
<1> HIDE DEF s
<1> QED BY <1>1, <1>2, <1>3, <1>4 DEF evaluate_group

LEMMA LegacyWithAddress ==
  ASSUME NEW r, NEW f PROVE policy_matches(f, Addressless(r)) <=> policy_matches(f, r)
BY DEF policy_matches, Addressless, UserGroupOf, DeviceGroupOf

LEMMA MatchesWithAddress ==
  ASSUME TypeOK, NEW r, NEW p, Compiles(p), Matches(p, Addressless(r))
  PROVE  Matches(p, r)
<1>1. CASE has_condition_tree(p)
  BY <1>1, TreeWithAddress, RootIsTree DEF Compiles, Matches
<1>2. CASE ~ has_condition_tree(p)
  BY <1>2, LegacyWithAddress DEF Matches
<1> QED BY <1>1, <1>2

LEMMA SameWithoutAddress ==
  ASSUME TypeOK, NEW r, NEW p, AsksForNoAddress(p)
  PROVE  Matches(p, Addressless(r)) <=> Matches(p, r)
<1>1. CASE ~ has_condition_tree(p)
  BY <1>1, LegacyWithAddress DEF Matches
<1>2. CASE has_condition_tree(p)
  <2> DEFINE t == get_root_group(p)
             s == Addressless(r)
  <2>1. t \in Tree BY <1>2, RootIsTree
  <2>2. ASSUME NEW c \in LeavesOf(t) PROVE evaluate_condition(c, s) <=> evaluate_condition(c, r)
    <3>1. c \in Leaf BY <2>1, TreeParts DEF LeavesOf
    <3>2. c.type \in {"user", "user_group", "device", "device_group"}
      BY <1>2, <3>1, LeafType DEF AsksForNoAddress, ObjectTypes, References
    <3>3. Actual(c.type, s) = Actual(c.type, r)
      BY <3>2 DEF Actual, Addressless, UserGroupOf, DeviceGroupOf
    <3> QED BY <3>3 DEF evaluate_condition
  <2> HIDE DEF s, t
  <2>3. \A c \in t.conds : evaluate_condition(c, s) <=> evaluate_condition(c, r)
    BY <2>2 DEF LeavesOf
  <2>4. \A g \in t.groups : evaluate_nested(g, s) <=> evaluate_nested(g, r)
    BY <2>2 DEF LeavesOf, evaluate_nested
  <2>5. evaluate_group(t, s) <=> evaluate_group(t, r)
    BY <2>3, <2>4 DEF evaluate_group
  <2> QED BY <1>2, <2>5 DEF Matches, s, t
<1> QED BY <1>1, <1>2

\* Priorities are numbers, so of any policies one comes first.
LEMMA FirstIsThere ==
  ASSUME TypeOK, NEW S \in SUBSET Policies, S # {} PROVE First(S) \in S
<1> DEFINE R == {q \in Nat \X Nat : q[1] < q[2]}
           T == {priority[p] : p \in S}
<1>1. T \in SUBSET Nat /\ T # {} BY DEF TypeOK
<1>2. IsWellFoundedOn(R, Nat) BY NatLessThanWellFounded DEF OpToRel
<1>3. PICK n \in T : \A y \in T : ~ (<<y, n>> \in R)
  <2> HIDE DEF T, R
  <2> QED BY <1>1, <1>2, WFMin
<1>4. PICK p \in S : n = priority[p] OBVIOUS
<1>5. \A q \in S : priority[p] <= priority[q]
  <2> TAKE q \in S
  <2>1. priority[q] \in T /\ priority[q] \in Nat /\ n \in Nat BY <1>1
  <2>2. ~ (priority[q] < n) BY <1>3, <2>1
  <2> QED BY <1>4, <2>1, <2>2
<1> QED BY <1>5 DEF First

LEMMA ListedIsServed ==
  ASSUME TypeOK, NEW r \in Connections, NEW p, EffectiveAccess(r.user, r.device) = p, p # None, Compiles(p)
  PROVE  Served(r, Login) = "permit"
<1> DEFINE M == {q \in Present : policy[q].enabled /\ Matches(q, Addressless(r))}
           H == {q \in Present : policy[q].enabled /\ Compiles(q) /\ RuleHolds(q, r)}
<1>1. p = IF M = {} THEN None ELSE First(M) BY DEF EffectiveAccess, evaluate, Addressless
<1>2. M \subseteq Policies /\ H \subseteq Policies BY DEF Present
<1>3. p \in M
  <2> HIDE DEF M
  <2> QED BY <1>1, <1>2, FirstIsThere
<1>4. Matches(p, r) BY <1>3, MatchesWithAddress
<1>5. p \in H BY <1>3, <1>4, RuleNeverNarrower
<1>6. First(H) \in Policies
  <2> HIDE DEF H
  <2> QED BY <1>2, <1>5, FirstIsThere
<1>7. ServedBy(r) # None BY <1>5, <1>6, NoneAssumption DEF ServedBy
<1> QED BY <1>7 DEF Served, Script

LEMMA ListedDecides ==
  ASSUME TypeOK, NEW r \in Connections, Plain(r), \A q \in Present : policy[q].enabled => AsksForNoAddress(q)
  PROVE  ServedBy(r) = EffectiveAccess(r.user, r.device)
<1> DEFINE M == {q \in Present : policy[q].enabled /\ Matches(q, Addressless(r))}
           N == {q \in Present : policy[q].enabled /\ Matches(q, r)}
<1>1. M = N BY SameWithoutAddress
<1>2. EffectiveAccess(r.user, r.device) = IF M = {} THEN None ELSE First(M)
  BY DEF EffectiveAccess, evaluate, Addressless
<1>3. evaluate(r) = IF N = {} THEN None ELSE First(N) BY DEF evaluate
<1>4. ServedBy(r) = evaluate(r) BY SameFirst
<1> HIDE DEF M, N
<1> QED BY <1>1, <1>2, <1>3, <1>4

LEMMA ReportInv == TypeOK => ReportIsKept
BY ListedIsServed, ListedDecides DEF ReportIsKept

\* What effective access lists is let in, from every address, in every state administrators can
\* bring about.
THEOREM EffectiveAccessIsKept == Spec => []ReportIsKept
BY PolicyTypesCorrect, ReportInv, PTL

\* The compiled ruleset is faithful to the Simulator and to effective access: all three facts.
THEOREM RulesetStaysFaithful == Spec => []RulesetIsFaithful
BY CompiledNeverNarrower, SimulatorTellsTheTruth, EffectiveAccessIsKept, PTL DEF RulesetIsFaithful

-----------------------------------------------------------------------------
(***************************************************************************)
(* The order of policies                                                   *)
(***************************************************************************)

LEMMA RoomIsUnique ==
  ASSUME TypeOK, PrioritiesUnique, NEW p \in Policies, NEW f \in Fields, NEW n \in Nat,
         save_policy(p, f, n)
  PROVE  PrioritiesUnique'
<1>1. /\ priority \in [Policies -> Nat] /\ policy \in [Policies -> Fields \cup {None}]
      /\ policy' = [policy EXCEPT ![p] = f] /\ priority' = _make_room_for_priority(n, p)
  BY DEF TypeOK, save_policy
<1>2. \A q, s \in Policies : q # s /\ policy[q] # None /\ policy[s] # None => priority[q] # priority[s]
  BY DEF PrioritiesUnique, Unique, Present
<1>3. \A q \in Policies \ {p} : policy'[q] = policy[q] BY <1>1
<1>4. priority'[p] = n BY <1>1 DEF _make_room_for_priority
<1>5. CASE policy[p] = None
  <2>1. \A q \in Policies \ {p} : priority'[q] = IF priority[q] >= n THEN priority[q] + 1 ELSE priority[q]
    BY <1>1, <1>5 DEF _make_room_for_priority
  <2> QED BY <1>1, <1>2, <1>3, <1>4, <2>1 DEF PrioritiesUnique, Unique, Present
<1>6. CASE policy[p] # None /\ n > priority[p]
  <2>1. \A q \in Policies \ {p} :
          priority'[q] = IF priority[q] > priority[p] /\ priority[q] <= n THEN priority[q] - 1 ELSE priority[q]
    BY <1>1, <1>6 DEF _make_room_for_priority
  <2> QED BY <1>1, <1>2, <1>3, <1>4, <1>6, <2>1 DEF PrioritiesUnique, Unique, Present
<1>7. CASE policy[p] # None /\ ~ n > priority[p]
  <2>1. \A q \in Policies \ {p} :
          priority'[q] = IF priority[q] >= n /\ priority[q] < priority[p] THEN priority[q] + 1 ELSE priority[q]
    BY <1>1, <1>7 DEF _make_room_for_priority
  <2> QED BY <1>1, <1>2, <1>3, <1>4, <1>7, <2>1 DEF PrioritiesUnique, Unique, Present
<1> QED BY <1>5, <1>6, <1>7

LEMMA StillUnique ==
  ASSUME PrioritiesUnique, priority' = priority, Present' \subseteq Present
  PROVE  PrioritiesUnique'
BY DEF PrioritiesUnique, Unique

\* Every request but a save and a reordering leaves the numbers alone and adds no policy.
Unordered ==
  \/ \E p \in Policies : delete_policy(p)
  \/ \E p \in Policies, s \in CommandSets : add_command_set_to_policy(p, s)
  \/ \E t \in Threads, p \in Policies, tree \in Saveable : replace_condition_tree(t, p, tree)
  \/ \E t \in Threads, p \in Policies : migrate_legacy_policy(t, p)
  \/ \E t \in Threads : commit_tree(t)
  \/ \E x \in Users \cup Groups \cup Devices \cup DeviceGroups : delete_row(x)
  \/ \E u \in Users, g \in Groups \cup {None} : move_user(u, g)
  \/ \E d \in Devices, g \in DeviceGroups \cup {None} : move_device(d, g)
  \/ \E g \in Grant : create_grant(g) \/ delete_grant(g)
  \/ \E s \in CommandSets : toggle_command_set(s)

LEMMA NextByOrder ==
  Next <=> \/ \E p \in Policies, f \in Saves, n \in 0 .. MaxPriority :
                create_policy(p, f, n) \/ update_policy(p, f, n)
           \/ \E l \in Listings : reorder_policies(l)
           \/ Unordered
BY DEF Next, Unordered

LEMMA UnorderedKeeps ==
  ASSUME TypeOK, Unordered PROVE priority' = priority /\ Present' \subseteq Present
<1>1. ASSUME NEW p \in Policies, delete_policy(p) PROVE priority' = priority /\ Present' \subseteq Present
  BY <1>1 DEF delete_policy, Present, TypeOK
<1>2. ASSUME NEW p \in Policies, NEW s \in CommandSets, add_command_set_to_policy(p, s)
      PROVE  priority' = priority /\ Present' \subseteq Present
  BY <1>2 DEF add_command_set_to_policy, Present, TypeOK
<1>3. ASSUME NEW x \in Users \cup Groups \cup Devices \cup DeviceGroups, delete_row(x)
      PROVE  priority' = priority /\ Present' \subseteq Present
  <2>1. \A p \in Policies : policy[p] = None => policy'[p] = None BY <1>3 DEF delete_row
  <2> QED BY <1>3, <2>1 DEF delete_row, Present
<1>4. ASSUME policy' = policy, priority' = priority PROVE priority' = priority /\ Present' \subseteq Present
  BY <1>4 DEF Present
<1>5. ASSUME NEW t \in Threads,
             \/ \E p \in Policies, tree \in Saveable : replace_condition_tree(t, p, tree)
             \/ \E p \in Policies : migrate_legacy_policy(t, p)
             \/ commit_tree(t)
      PROVE  policy' = policy /\ priority' = priority
  BY <1>5 DEF replace_condition_tree, migrate_legacy_policy, commit_tree, tables
<1>6. ASSUME \/ \E u \in Users, g \in Groups \cup {None} : move_user(u, g)
             \/ \E d \in Devices, g \in DeviceGroups \cup {None} : move_device(d, g)
             \/ \E g \in Grant : create_grant(g) \/ delete_grant(g)
             \/ \E s \in CommandSets : toggle_command_set(s)
      PROVE  policy' = policy /\ priority' = priority
  BY <1>6 DEF move_user, move_device, create_grant, delete_grant, toggle_command_set
<1> QED BY <1>1, <1>2, <1>3, <1>4, <1>5, <1>6 DEF Unordered

LEMMA UniqueStep == TypeOK /\ PrioritiesUnique /\ [Next]_vars => PrioritiesUnique'
<1> SUFFICES ASSUME TypeOK, PrioritiesUnique, [Next]_vars PROVE PrioritiesUnique' OBVIOUS
<1>1. CASE UNCHANGED vars BY <1>1, StillUnique DEF vars, tables, Present
<1>2. ASSUME NEW p \in Policies, NEW f \in Saves, NEW n \in 0 .. MaxPriority,
             create_policy(p, f, n) \/ update_policy(p, f, n)
      PROVE  PrioritiesUnique'
  BY <1>2, RoomIsUnique, SavesAssumption, BoundsAssumption DEF create_policy, update_policy
<1>3. ASSUME NEW l \in Listings, reorder_policies(l) PROVE PrioritiesUnique'
  BY <1>3 DEF reorder_policies, PrioritiesUnique, Unique, Present
<1>4. CASE Unordered BY <1>4, UnorderedKeeps, StillUnique
<1> QED BY <1>1, <1>2, <1>3, <1>4, NextByOrder

LEMMA InitUnique == Init => PrioritiesUnique
BY StartAssumption DEF Init, PrioritiesUnique, Unique, Present

\* No two policies ever have one priority, however they are created, moved, deleted and
\* reordered.
THEOREM PrioritiesStayUnique == Spec => []PrioritiesUnique
<1>1. TypeOK /\ PrioritiesUnique /\ [Next]_vars => (TypeOK /\ PrioritiesUnique)'
  BY StepTypes, UniqueStep
<1> QED BY InitTypes, InitUnique, <1>1, PTL DEF Spec

\* Making room shifts the others without letting any two of them meet or pass.
LEMMA RoomKeepsOrder ==
  ASSUME TypeOK, PrioritiesUnique, NEW p \in Policies, NEW f, NEW n \in Nat,
         save_policy(p, f, n), NEW q \in Present \ {p}, NEW s \in Present \ {p}
  PROVE  priority[q] < priority[s] <=> priority'[q] < priority'[s]
<1>1. /\ priority[p] \in Nat /\ priority[q] \in Nat /\ priority[s] \in Nat
      /\ priority' = _make_room_for_priority(n, p) /\ q # p /\ s # p
      /\ q \in Policies /\ s \in Policies
  BY DEF TypeOK, save_policy, Present
<1>2. /\ q # s => priority[q] # priority[s]
      /\ policy[p] # None => priority[q] # priority[p] /\ priority[s] # priority[p]
  BY <1>1 DEF PrioritiesUnique, Unique, Present
<1>3. CASE policy[p] = None
  BY <1>1, <1>2, <1>3 DEF _make_room_for_priority
<1>4. CASE policy[p] # None /\ n > priority[p]
  BY <1>1, <1>2, <1>4 DEF _make_room_for_priority
<1>5. CASE policy[p] # None /\ ~ n > priority[p]
  BY <1>1, <1>2, <1>5 DEF _make_room_for_priority
<1> QED BY <1>3, <1>4, <1>5

\* One policy at most moves in a step that is not a reordering.
OneMoves ==
  \/ \E l \in Listings : reorder_policies(l)
  \/ \E moved \in Policies \cup {None} : \A p, q \in Present \ {moved} :
        {p, q} \subseteq Present' => ((priority[p] < priority[q]) <=> (priority[p] < priority[q])')

LEMMA OrderStep == TypeOK /\ PrioritiesUnique /\ [Next]_vars => [OneMoves]_vars
<1> SUFFICES ASSUME TypeOK, PrioritiesUnique, Next PROVE OneMoves OBVIOUS
<1>1. ASSUME NEW moved \in Policies, NEW f \in Saves, NEW n \in 0 .. MaxPriority,
             create_policy(moved, f, n) \/ update_policy(moved, f, n)
      PROVE  OneMoves
  <2>1. save_policy(moved, f, n) /\ n \in Nat BY <1>1, BoundsAssumption DEF create_policy, update_policy
  <2>2. \A p, q \in Present \ {moved} : priority[p] < priority[q] <=> priority'[p] < priority'[q]
    BY <2>1, RoomKeepsOrder
  <2> QED BY <2>2 DEF OneMoves
<1>2. CASE Unordered BY <1>2, UnorderedKeeps DEF OneMoves
<1> QED BY <1>1, <1>2, NextByOrder DEF OneMoves

\* Only a reordering changes the order of two policies that are not themselves moved.
THEOREM OthersKeepTheirOrder == Spec => OrderKept
<1>1. OrderKept <=> [][OneMoves]_vars BY DEF OrderKept, OneMoves
<1> QED BY PolicyTypesCorrect, PrioritiesStayUnique, OrderStep, <1>1, PTL DEF Spec

-----------------------------------------------------------------------------
(***************************************************************************)
(* Condition trees put in place                                            *)
(***************************************************************************)

\* Nothing but the commit of a thread ends its save.
LEMMA OnlyCommit ==
  ASSUME TypeOK, Next, NEW t \in Threads, NEW kind \in {"replacing", "migrating"}, CommitsOne(t, kind)
  PROVE  commit_tree(t)
<1>1. request \in [Threads -> {Idle} \cup Saving] BY DEF TypeOK
<1>2. request[t].pc # "idle" /\ request'[t].pc = "idle" BY DEF CommitsOne
<1>3. request' # request /\ request'[t] # request[t] BY <1>2
<1>4. ASSUME NEW u \in Threads, NEW p \in Policies, NEW tree \in Saveable, replace_condition_tree(u, p, tree)
      PROVE  FALSE
  <2>1. u # t BY <1>2, <1>4 DEF replace_condition_tree
  <2> QED BY <1>1, <1>3, <1>4, <2>1 DEF replace_condition_tree
<1>5. ASSUME NEW u \in Threads, NEW p \in Policies, migrate_legacy_policy(u, p) PROVE FALSE
  <2>1. u # t BY <1>2, <1>5 DEF migrate_legacy_policy
  <2> QED BY <1>1, <1>3, <1>5, <2>1 DEF migrate_legacy_policy
<1>6. ASSUME NEW u \in Threads, commit_tree(u), u # t PROVE FALSE
  BY <1>1, <1>3, <1>6 DEF commit_tree
<1> QED BY <1>3, <1>4, <1>5, <1>6
      DEF Next, create_policy, update_policy, save_policy, delete_policy, add_command_set_to_policy,
          reorder_policies, delete_row, move_user, move_device, create_grant, delete_grant,
          toggle_command_set

SavesIt ==
  \A t \in Threads :
     CommitsOne(t, "replacing") /\ {x.id : x \in Roots(Target(t))} = request[t].seen
       => \A x \in trees' : x.policy = Target(t) => x = request[t].root

LEMMA SavedStep == TypeOK /\ [Next]_vars => [SavesIt]_vars
<1> SUFFICES ASSUME TypeOK, Next, NEW t \in Threads, CommitsOne(t, "replacing"),
                    {x.id : x \in Roots(Target(t))} = request[t].seen,
                    NEW x \in trees', x.policy = Target(t)
             PROVE  x = request[t].root
  BY DEF SavesIt
<1>1. commit_tree(t) BY OnlyCommit
<1>2. trees' = {y \in trees : y.id \notin request[t].seen} \cup {request[t].root}
  BY <1>1 DEF commit_tree, CommitsOne, Target
<1>3. ASSUME x \in trees, x.id \notin request[t].seen PROVE FALSE
  <2>1. x \in Roots(Target(t)) BY <1>3 DEF Roots
  <2> QED BY <1>3, <2>1
<1> QED BY <1>2, <1>3

\* A tree saved by somebody who saw every root there was is the only one afterwards.
THEOREM SavedTreesDecide == Spec => SavedTreeDecides
<1>1. SavedTreeDecides <=> [][SavesIt]_vars BY DEF SavedTreeDecides, SavesIt
<1> QED BY PolicyTypesCorrect, SavedStep, <1>1, PTL DEF Spec

\* A migration under way has a condition to save: a policy without one is refused.
MigrationsHaveConditions ==
  \A t \in Threads : request[t].pc = "migrating" => request[t].root.tree.conds # {}

LEMMA MigratingStep ==
  TypeOK /\ MigrationsHaveConditions /\ [Next]_vars => MigrationsHaveConditions'
<1> SUFFICES ASSUME TypeOK, MigrationsHaveConditions, [Next]_vars PROVE MigrationsHaveConditions'
  OBVIOUS
<1> USE DEF MigrationsHaveConditions
<1>0. request \in [Threads -> {Idle} \cup Saving] BY DEF TypeOK
<1>1. CASE request' = request BY <1>1
<1>2. ASSUME NEW u \in Threads, NEW p \in Policies, NEW tree \in Saveable, replace_condition_tree(u, p, tree)
      PROVE  MigrationsHaveConditions'
  <2>1. \A t \in Threads \ {u} : request'[t] = request[t] BY <1>0, <1>2 DEF replace_condition_tree
  <2>2. request'[u].pc = "replacing" BY <1>0, <1>2 DEF replace_condition_tree
  <2> QED BY <2>1, <2>2
<1>3. ASSUME NEW u \in Threads, NEW p \in Policies, migrate_legacy_policy(u, p)
      PROVE  MigrationsHaveConditions'
  <2>1. \A t \in Threads \ {u} : request'[t] = request[t] BY <1>0, <1>3 DEF migrate_legacy_policy
  <2>2. request'[u].root.tree = Migrated(policy[p]) BY <1>0, <1>3 DEF migrate_legacy_policy
  <2>3. policy[p] \in Fields /\ Named(policy[p]) # {} BY <1>3 DEF migrate_legacy_policy, TypeOK
  <2> QED BY <2>1, <2>2, <2>3, MigratedType
<1>4. ASSUME NEW u \in Threads, commit_tree(u) PROVE MigrationsHaveConditions'
  <2>1. \A t \in Threads \ {u} : request'[t] = request[t] BY <1>0, <1>4 DEF commit_tree
  <2>2. request'[u].pc = "idle" BY <1>0, <1>4 DEF commit_tree, Idle
  <2> QED BY <2>1, <2>2
<1> QED BY <1>1, <1>2, <1>3, <1>4
      DEF Next, create_policy, update_policy, save_policy, delete_policy, add_command_set_to_policy,
          reorder_policies, delete_row, move_user, move_device, create_grant, delete_grant,
          toggle_command_set, vars

\* A migrated tree with a condition asks for exactly what the columns asked for.
LEMMA MigratedReading ==
  ASSUME NEW f, NEW r, Migrated(f).conds # {}
  PROVE  evaluate_group(Migrated(f), r) <=> policy_matches(f, r)
<1> DEFINE Is(type, x) == [type |-> type, op |-> "equal", ref |-> {x}]
<1>1. ASSUME NEW type \in {"user_group", "device", "device_group"}, NEW x, x # None
      PROVE  evaluate_condition(Is(type, x), r) <=> Actual(type, r) = x
  BY <1>1 DEF evaluate_condition, Negative
<1>2. Migrated(f) = [op |-> "AND", groups |-> {}, conds |->
        {Is("user_group", g) : g \in {f.group} \ {None}} \cup {Is("device", d) : d \in {f.device} \ {None}}
        \cup {Is("device_group", g) : g \in {f.deviceGroup} \ {None}}]
  BY DEF Migrated
<1>3. evaluate_group(Migrated(f), r) <=> \A c \in Migrated(f).conds : evaluate_condition(c, r)
  BY <1>2 DEF evaluate_group
<1>4. /\ Actual("user_group", r) = UserGroupOf(r) /\ Actual("device", r) = r.device
      /\ Actual("device_group", r) = DeviceGroupOf(r)
  BY DEF Actual
<1> HIDE DEF Is
<1>5. (\A c \in Migrated(f).conds : evaluate_condition(c, r)) <=>
        /\ f.group # None => evaluate_condition(Is("user_group", f.group), r)
        /\ f.device # None => evaluate_condition(Is("device", f.device), r)
        /\ f.deviceGroup # None => evaluate_condition(Is("device_group", f.deviceGroup), r)
  BY <1>2
<1> QED BY <1>1, <1>3, <1>4, <1>5 DEF policy_matches

Lossless ==
  \A t \in Threads, p \in Policies :
     CommitsOne(t, "migrating") /\ Target(t) = p /\ Roots(p) = {}
     /\ request[t].root.tree = Migrated(policy[p])
       => \A r \in Requests : Matches(p, r) <=> Matches(p, r)'

LEMMA LosslessStep == TypeOK /\ MigrationsHaveConditions /\ [Next]_vars => [Lossless]_vars
<1> SUFFICES ASSUME TypeOK, MigrationsHaveConditions, Next, NEW t \in Threads, NEW p \in Policies,
                    CommitsOne(t, "migrating"), Target(t) = p, Roots(p) = {},
                    request[t].root.tree = Migrated(policy[p]), NEW r \in Requests
             PROVE  Matches(p, r) <=> Matches(p, r)'
  BY DEF Lossless
<1> DEFINE root == request[t].root
<1>1. commit_tree(t) BY OnlyCommit
<1>2. /\ trees' = {y \in trees : y.id \notin request[t].seen} \cup {root}
      /\ policy' = policy /\ userGroup' = userGroup /\ deviceGroup' = deviceGroup
  BY <1>1 DEF commit_tree, CommitsOne, Target
<1>3. root.policy = p BY DEF Target
<1>4. Roots(p)' = {root} BY <1>2, <1>3 DEF Roots
<1>5. has_condition_tree(p)' /\ get_root_group(p)' = Migrated(policy[p])
  BY <1>4 DEF has_condition_tree, get_root_group
<1>6. Migrated(policy[p]).conds # {} BY DEF MigrationsHaveConditions, CommitsOne
<1>7. Matches(p, r) <=> policy_matches(policy[p], r) BY DEF Matches, has_condition_tree
<1>8. \A c : evaluate_condition(c, r)' <=> evaluate_condition(c, r)
  BY <1>2 DEF evaluate_condition, Actual, UserGroupOf, DeviceGroupOf
<1>9. Matches(p, r)' <=> evaluate_group(Migrated(policy[p]), r)
  <2>1. Matches(p, r)' <=> evaluate_group(get_root_group(p), r)' BY <1>5 DEF Matches
  <2>2. Migrated(policy[p]).groups = {} BY DEF Migrated
  <2> QED BY <1>5, <1>8, <2>1, <2>2 DEF evaluate_group
<1> QED BY <1>6, <1>7, <1>9, MigratedReading

\* Migrating a policy to a tree changes no answer about it, whatever the question names.
THEOREM MigrationIsLossless == Spec => MigrationLossless
<1>1. Init => MigrationsHaveConditions BY DEF Init, MigrationsHaveConditions, Idle
<1>2. MigrationLossless <=> [][Lossless]_vars BY DEF MigrationLossless, Lossless
<1> QED BY PolicyTypesCorrect, MigratingStep, LosslessStep, <1>1, <1>2, PTL DEF Spec

-----------------------------------------------------------------------------
(***************************************************************************)
(* Deleting what policies are about                                        *)
(***************************************************************************)

LEMMA OnlyDeletion ==
  ASSUME Next, rows' # rows
  PROVE  \E y \in Users \cup Groups \cup Devices \cup DeviceGroups : delete_row(y)
BY DEF Next, create_policy, update_policy, save_policy, delete_policy, add_command_set_to_policy,
       reorder_policies, replace_condition_tree, migrate_legacy_policy, commit_tree, move_user,
       move_device, create_grant, delete_grant, toggle_command_set, tables

\* After a deletion a question has the values it had, or none.
LEMMA ValuesStayOrGo ==
  ASSUME TypeOK, NEW y, delete_row(y), NEW r \in Requests, NEW type \in ObjectTypes,
         Actual(type, r)' # None
  PROVE  Actual(type, r)' = Actual(type, r)
<1>1. type \in {"user", "user_group", "device", "device_group", "source_ip"}
  BY DEF ObjectTypes, References
<1>2. /\ r.user # None => r.user \in Users
      /\ r.device # None => r.device \in Devices
  BY DEF Requests
<1>3. CASE type = "user_group"
  <2>1. Actual(type, r)' = UserGroupOf(r)' /\ Actual(type, r) = UserGroupOf(r) BY <1>3 DEF Actual
  <2>2. r.user # None BY <2>1 DEF UserGroupOf
  <2>3. UserGroupOf(r)' = OrNone(userGroup[r.user], y) BY <1>2, <2>2 DEF UserGroupOf, delete_row
  <2> QED BY <2>1, <2>2, <2>3 DEF UserGroupOf, OrNone
<1>4. CASE type = "device_group"
  <2>1. Actual(type, r)' = DeviceGroupOf(r)' /\ Actual(type, r) = DeviceGroupOf(r) BY <1>4 DEF Actual
  <2>2. r.device # None BY <2>1 DEF DeviceGroupOf
  <2>3. DeviceGroupOf(r)' = OrNone(deviceGroup[r.device], y) BY <1>2, <2>2 DEF DeviceGroupOf, delete_row
  <2> QED BY <2>1, <2>2, <2>3 DEF DeviceGroupOf, OrNone
<1> QED BY <1>1, <1>3, <1>4 DEF Actual

FailsClosed ==
  rows' # rows =>
    \A x \in trees : NoNot(x.tree) =>
       \A r \in Requests : (r \in Requests)' =>
          ((evaluate_group(x.tree, r))' => evaluate_group(x.tree, r))

LEMMA ClosedStep == TypeOK /\ [Next]_vars => [FailsClosed]_vars
<1> SUFFICES ASSUME TypeOK, Next, rows' # rows, NEW x \in trees, NoNot(x.tree), NEW r \in Requests,
                    evaluate_group(x.tree, r)'
             PROVE  evaluate_group(x.tree, r)
  BY DEF FailsClosed
<1> DEFINE t == x.tree
<1>1. PICK y \in Users \cup Groups \cup Devices \cup DeviceGroups : delete_row(y) BY OnlyDeletion
<1>2. t \in Tree BY DEF TypeOK, Root
<1>3. ASSUME NEW c \in Leaf, evaluate_condition(c, r)' PROVE evaluate_condition(c, r)
  <2>1. Actual(c.type, r)' # None /\ ((Actual(c.type, r)' \in c.ref) <=> (c.op \notin Negative))
    BY <1>3 DEF evaluate_condition
  <2>2. Actual(c.type, r)' = Actual(c.type, r) BY <1>1, <2>1, ValuesStayOrGo, LeafType
  <2> QED BY <2>1, <2>2 DEF evaluate_condition
<1> HIDE DEF t
<1>4. ASSUME NEW g \in t.groups, evaluate_nested(g, r)' PROVE evaluate_nested(g, r)
  <2>1. \A c \in g.conds : evaluate_condition(c, r)' => evaluate_condition(c, r) BY <1>2, <1>3, TreeParts
  <2>2. g.op # "NOT" BY DEF NoNot, t
  <2> QED BY <1>4, <2>1, <2>2 DEF evaluate_nested
<1>5. \A c \in t.conds : evaluate_condition(c, r)' => evaluate_condition(c, r) BY <1>2, <1>3, TreeParts
<1>6. t.op # "NOT" BY DEF NoNot, t
<1>7. evaluate_group(t, r)' BY DEF t
<1>8. evaluate_group(t, r)
  <2>1. \A g \in t.groups : evaluate_nested(g, r)' => evaluate_nested(g, r) BY <1>4
  <2>2. t' = t BY DEF t
  <2> QED BY <1>5, <1>6, <1>7, <2>1, <2>2 DEF evaluate_group
<1> QED BY <1>8 DEF t

\* Deleting a user, a device or a group makes no tree without NOT match anybody it did
\* not match before: what it names can only stop matching.
THEOREM DeletionsFailClosed == Spec => DeletionFailsClosed
<1>1. DeletionFailsClosed <=> [][FailsClosed]_vars BY DEF DeletionFailsClosed, FailsClosed
<1> QED BY PolicyTypesCorrect, ClosedStep, <1>1, PTL DEF Spec

=============================================================================
