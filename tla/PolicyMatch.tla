----------------------------- MODULE PolicyMatch -----------------------------
(***************************************************************************)
(* Who may do what where: the rows that say it, and the two readings of    *)
(* them.                                                                   *)
(*                                                                         *)
(* The Simulator and Effective Access walk the rows at each question       *)
(* (services/policy_engine.py, services/condition_engine.py).  The         *)
(* configuration compiler (services/config_compiler.py) turns the same     *)
(* rows into a tac_plus-ng ruleset, and it is tac_plus-ng that answers the *)
(* routers.  Below, a name in snake case is the engine's; Compiles,        *)
(* RuleHolds, Granted, ServedBy and Script say what the compiled text does *)
(* with a connection.                                                      *)
(*                                                                         *)
(* Rows are known by their identity: names are unique, and a text compiled *)
(* now resolves each name to the row it came from.  What a leaf of a       *)
(* condition tree compares with is a set: the single row it refers to, or  *)
(* the addresses of its network.  A tree is a group of leaves and of       *)
(* nested groups of leaves; the code nests without limit, and treats each  *)
(* level the way these two are.                                            *)
(***************************************************************************)
EXTENDS Naturals, FiniteSets

CONSTANTS Policies, Users, Groups, Devices, DeviceGroups, Addresses,
          CommandSets, Commands,
          Login,      \* the empty command a router asks about when a shell starts
          Rules,      \* the rules of each command set
          None        \* a null column; nothing

Actions == {"permit", "deny"}
Rule == [action : Actions, matches : SUBSET Commands]

References == [ user |-> Users, user_group |-> Groups, device |-> Devices,
                device_group |-> DeviceGroups, source_ip |-> Addresses ]
ObjectTypes == DOMAIN References
Negative == {"not_equal", "is_not_in_cidr"}
Operators(type) ==
  {"equal", "not_equal"} \cup (IF type = "source_ip" THEN {"is_in_cidr", "is_not_in_cidr"} ELSE {})

\* conditions and trees as validated when they are saved
Leaf ==
  UNION {[type : {t}, op : Operators(t), ref : SUBSET References[t]] : t \in ObjectTypes}
LogicalOperators == {"AND", "OR", "NOT"}
NestedGroup == [op : LogicalOperators, conds : SUBSET Leaf]
Tree == [op : LogicalOperators, conds : SUBSET Leaf, groups : SUBSET NestedGroup]

ASSUME RulesAssumption == Rules \in [CommandSets -> SUBSET Rule] /\ Login \in Commands
ASSUME NoneAssumption ==
  None \notin Policies \cup Users \cup Groups \cup Devices \cup DeviceGroups \cup Addresses

\* the fields an administrator saves, and the row they become
Fields == [ group : Groups \cup {None}, device : Devices \cup {None},
            deviceGroup : DeviceGroups \cup {None}, enabled : BOOLEAN,
            default : Actions, sets : SUBSET CommandSets ]

VARIABLES
  rows,         \* the users, groups, devices and device groups there are
  userGroup,    \* the group of each user
  deviceGroup,  \* the device group of each device
  policy,       \* the fields of each policy, None when there is no such policy
  priority,     \* the priority of each policy
  trees,        \* the root rows of condition trees
  grants,       \* the device access grants
  setsOn        \* the enabled command sets

tables == <<rows, userGroup, deviceGroup, policy, priority, trees, grants, setsOn>>

Present == {p \in Policies : policy[p] # None}

\* A question: a user on a device, from an address.  The Simulator may leave any of them out.
Requests == [ user : (Users \cap rows) \cup {None}, device : (Devices \cap rows) \cup {None},
              ip : Addresses \cup {None} ]
\* A router's question names all three
Connections == {r \in Requests : None \notin {r.user, r.device, r.ip}}

UserGroupOf(r) == IF r.user = None THEN None ELSE userGroup[r.user]
DeviceGroupOf(r) == IF r.device = None THEN None ELSE deviceGroup[r.device]

-----------------------------------------------------------------------------
\* The engine

Actual(type, r) ==
  CASE type = "user" -> r.user
    [] type = "user_group" -> UserGroupOf(r)
    [] type = "device" -> r.device
    [] type = "device_group" -> DeviceGroupOf(r)
    [] type = "source_ip" -> r.ip

BugAbsentIsDifferent(c, r) == (Actual(c.type, r) \in c.ref) <=> (c.op \notin Negative)

\* an absent value is neither equal nor different
evaluate_condition(c, r) ==
  /\ Actual(c.type, r) # None
  /\ (Actual(c.type, r) \in c.ref) <=> (c.op \notin Negative)

evaluate_nested(g, r) ==
  /\ g.conds # {}
  /\ \/ g.op = "AND" /\ \A c \in g.conds : evaluate_condition(c, r)
     \/ g.op = "OR" /\ \E c \in g.conds : evaluate_condition(c, r)
     \/ g.op = "NOT" /\ \E c \in g.conds : ~ evaluate_condition(c, r)

evaluate_group(t, r) ==
  /\ t.conds # {} \/ t.groups # {}
  /\ \/ /\ t.op = "AND"
        /\ \A c \in t.conds : evaluate_condition(c, r)
        /\ \A g \in t.groups : evaluate_nested(g, r)
     \/ /\ t.op = "OR"
        /\ \/ \E c \in t.conds : evaluate_condition(c, r)
           \/ \E g \in t.groups : evaluate_nested(g, r)
     \/ /\ t.op = "NOT"
        /\ \/ \E c \in t.conds : ~ evaluate_condition(c, r)
           \/ \E g \in t.groups : ~ evaluate_nested(g, r)

\* the legacy columns of a policy, each null for anything
policy_matches(f, r) ==
  /\ f.group # None => UserGroupOf(r) = f.group
  /\ f.device # None => r.device = f.device
  /\ f.deviceGroup # None => DeviceGroupOf(r) = f.deviceGroup

Roots(p) == {x \in trees : x.policy = p}
has_condition_tree(p) == Roots(p) # {}
get_root_group(p) == (CHOOSE x \in Roots(p) : TRUE).tree   \* .first(), in no order

Matches(p, r) ==
  IF has_condition_tree(p) THEN evaluate_group(get_root_group(p), r) ELSE policy_matches(policy[p], r)

First(S) == CHOOSE p \in S : \A q \in S : priority[p] <= priority[q]

\* the enabled policy that decides, or None
evaluate(r) ==
  LET matching == {p \in Present : policy[p].enabled /\ Matches(p, r)}
  IN  IF matching = {} THEN None ELSE First(matching)

Listed(f, action, command) ==
  \E s \in f.sets \cap setsOn : \E rule \in Rules[s] : rule.action = action /\ command \in rule.matches

\* what a policy says of a command: the deny rules of its enabled sets, the permit
\* rules, then its default action
evaluate_command(f, command) ==
  CASE Listed(f, "deny", command) -> "deny"
    [] ~ Listed(f, "deny", command) /\ Listed(f, "permit", command) -> "permit"
    [] OTHER -> f.default

Simulated(r, command) ==
  IF evaluate(r) = None THEN "deny" ELSE evaluate_command(policy[evaluate(r)], command)

\* Effective access asks for a user and a device, without an address or a command, and lists
\* the device when some policy answers.
EffectiveAccess(u, d) == evaluate([user |-> u, device |-> d, ip |-> None])

-----------------------------------------------------------------------------
\* The compiled text

Members(groups) == {d \in Devices \cap rows : deviceGroup[d] \in groups}

LeafCompiles(c) ==
  CASE c.type = "user" -> FALSE
    [] c.type \in {"user_group", "device"} -> c.ref \subseteq rows
    [] c.type = "device_group" -> Members(c.ref) # {}
    [] c.type = "source_ip" -> TRUE

NestedCompiles(g) == g.op # "NOT" /\ g.conds # {} /\ \A c \in g.conds : LeafCompiles(c)

TreeCompiles(t) ==
  /\ t.op # "NOT" /\ (t.conds # {} \/ t.groups # {})
  /\ \A c \in t.conds : LeafCompiles(c)
  /\ \A g \in t.groups : NestedCompiles(g)

Compiles(p) == has_condition_tree(p) => TreeCompiles(get_root_group(p))

BugGroupMeansAll(c, r) ==
  IF c.type = "device_group"
  THEN (\A d \in Members(c.ref) : r.device = d) <=> (c.op \notin Negative)
  ELSE (Actual(c.type, r) \in c.ref) <=> (c.op \notin Negative)

\* "member ==", "device ==", "nac ==" and their "!=", a device group spelled out as its
\* members.  A connection without a group is of no group, so it differs from each.
LeafHolds(c, r) ==
  IF c.type = "device_group"
  THEN (r.device \in Members(c.ref)) <=> (c.op \notin Negative)
  ELSE (Actual(c.type, r) \in c.ref) <=> (c.op \notin Negative)

NestedHolds(g, r) ==
  \/ g.op = "AND" /\ \A c \in g.conds : LeafHolds(c, r)
  \/ g.op = "OR" /\ \E c \in g.conds : LeafHolds(c, r)

TreeHolds(t, r) ==
  \/ /\ t.op = "AND"
     /\ \A c \in t.conds : LeafHolds(c, r)
     /\ \A g \in t.groups : NestedHolds(g, r)
  \/ /\ t.op = "OR"
     /\ \/ \E c \in t.conds : LeafHolds(c, r)
        \/ \E g \in t.groups : NestedHolds(g, r)

\* a clause that has no name to compare with is left out
LegacyHolds(f, r) ==
  /\ f.group \in rows => UserGroupOf(r) = f.group
  /\ f.device \in rows => r.device = f.device
  /\ Members({f.deviceGroup} \ {None}) # {} => r.device \in Members({f.deviceGroup})

RuleHolds(p, r) ==
  IF has_condition_tree(p) THEN TreeHolds(get_root_group(p), r) ELSE LegacyHolds(policy[p], r)

\* the rules of the grants come before those of the policies
Granted(r) ==
  \E g \in grants :
     /\ UserGroupOf(r) = g.group
     /\ IF g.device # None THEN r.device = g.device ELSE r.device \in Members({g.deviceGroup})

\* the policy whose profile tac_plus-ng gives the connection, or None
ServedBy(r) ==
  LET holding == {p \in Present : policy[p].enabled /\ Compiles(p) /\ RuleHolds(p, r)}
  IN  IF holding = {} THEN None ELSE First(holding)

\* the script of a profile lets the shell start, whatever the rules say
Script(f, command) == IF command = Login THEN "permit" ELSE evaluate_command(f, command)

Served(r, command) ==
  IF Granted(r) THEN "permit"
  ELSE IF ServedBy(r) = None THEN "deny"
  ELSE Script(policy[ServedBy(r)], command)

=============================================================================
