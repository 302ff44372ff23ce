---------------------------- MODULE MCPolicyEdits ----------------------------
EXTENDS PolicyEdits, TLC

CONSTANTS p1, p2, p3, u1, u2, g1, g2, d1, d2, dg, a1, a2, set, login, show, conf

RulesOne == (set :> {[action |-> "deny", matches |-> {conf}],
                     [action |-> "permit", matches |-> {show, conf}]})

On(group, device, deviceGroupOf, enabledOf, default, sets) ==
  [group |-> group, device |-> device, deviceGroup |-> deviceGroupOf,
   enabled |-> enabledOf, default |-> default, sets |-> sets]

SavesFour == { On(g1, None, None, TRUE, "deny", {set}), On(None, d1, dg, TRUE, "permit", {}),
               On(None, None, dg, TRUE, "deny", {set}), On(None, None, None, FALSE, "permit", {}) }

PoliciesTwo == (p1 :> On(g1, None, dg, TRUE, "deny", {set}) @@ p2 :> On(None, None, None, TRUE, "permit", {})
                @@ p3 :> None)
PrioritiesTwo == (p1 :> 0 @@ p2 :> 1 @@ p3 :> 0)
UsersOne == (u1 :> g1 @@ u2 :> None)
DevicesOne == (d1 :> dg @@ d2 :> None)

Is(type, ref) == [type |-> type, op |-> "equal", ref |-> ref]
IsNot(type, ref) == [type |-> type, op |-> "not_equal", ref |-> ref]

\* one of each operator, of each type of object, nested both ways
SaveableSix ==
  { [op |-> "AND", conds |-> {IsNot("user_group", {g1})}, groups |-> {}],
    [op |-> "OR", conds |-> {Is("user", {u1})}, groups |-> {}],
    [op |-> "OR", conds |-> {Is("user_group", {g2})},
     groups |-> {[op |-> "AND", conds |-> {Is("device_group", {dg}), Is("source_ip", {a1})}]}],
    [op |-> "AND", conds |-> {IsNot("device_group", {dg})},
     groups |-> {[op |-> "OR", conds |-> {Is("user_group", {g1}),
                   [type |-> "source_ip", op |-> "is_not_in_cidr", ref |-> {a1}]}]}],
    [op |-> "NOT", conds |-> {Is("device_group", {dg})}, groups |-> {}],
    [op |-> "AND", conds |-> {IsNot("device", {d2})},
     groups |-> {[op |-> "NOT", conds |-> {Is("user_group", {g1})}]}] }

Symmetry == Permutations(Threads)
=============================================================================
