---------------------------- MODULE PolicyVersions ----------------------------
(***************************************************************************)
(* The version history of policies (services/policy_versioning.py,         *)
(* api/routes_policy_versions.py and the saves of api/routes_policies.py   *)
(* that record a version).                                                 *)
(*                                                                         *)
(* A policy refers to other rows by identity, a version by name; restoring *)
(* looks the names up again.  A save reads the policy, and later writes    *)
(* the columns it changed and the version, in one transaction; another     *)
(* save, or the end of what is referred to, may come between.              *)
(*                                                                         *)
(* The order of policies is the subject of PolicyEdits: here a restore is  *)
(* refused as a whole, or not, when another policy holds its priority.     *)
(***************************************************************************)
EXTENDS Naturals, Sequences, FiniteSets, SequencesExt

CONSTANTS
  PolicyIds,
  Referents,     \* identities of rows of the tables that policies refer to
  Labels,        \* the names such rows are given
  PolicyForms,   \* what saves submit
  Savers,        \* requests under way at a time
  Unset,
  MaxSaves, MaxNamings   \* bounds: edits of policies, and of what they refer to

Columns == {"group", "device", "device_group"}
Tables == Columns \cup {"command_set"}
Policy == [enabled : BOOLEAN, grant : {"deny", "permit"}, cond : [Columns -> Referents \cup {Unset}]]

ASSUME FormsAssumption == \A f \in PolicyForms : f.row \in Policy /\ f.sets \in Seq(Referents)
ASSUME UnsetAssumption == Unset \notin Referents /\ Unset \notin Labels /\ Unset \notin PolicyIds
ASSUME VersionBoundsAssumption == {MaxSaves, MaxNamings} \subseteq Nat

VARIABLES
  label,      \* the name of each row; Unset when there is no such row
  former,     \* identities that were used in a table; they do not come back
  policies,   \* the policies rows
  refers,     \* their command sets, in their order
  versions,   \* the policy_versions rows
  saver,      \* what each request is doing
  answer,     \* the response of the restore that has just been committed
  merged,     \* history: policies that changed under the save that wrote them last
  used        \* how often each bound was used

versionVars == << label, former, policies, refers, versions, saver, answer, merged, used >>

Snapshot == [enabled : BOOLEAN, grant : {"deny", "permit"}, names : [Columns -> Labels \cup {Unset}], sets : Seq(Labels)]
NoAnswer == [policy |-> Unset, version |-> 0, dropped |-> {}]
NoSave == [at |-> "resting", policy |-> Unset]

There(table, r) == label[table][r] # Unset
Present(table) == { r \in Referents : There(table, r) }

VersionTypes ==
  /\ label \in [Tables -> [Referents -> Labels \cup {Unset}]]
  /\ DOMAIN policies \subseteq PolicyIds /\ DOMAIN refers = DOMAIN policies
  /\ \A p \in DOMAIN policies : policies[p] \in Policy /\ refers[p] \in Seq(Referents)
  /\ \A p \in DOMAIN policies, c \in Columns : policies[p].cond[c] \in {Unset} \cup Present(c)
  /\ \A i \in DOMAIN versions : /\ versions[i].snapshot \in Snapshot
                                /\ versions[i].policy \in DOMAIN policies \cup {Unset}
  /\ \A s \in Savers : saver[s].at \in {"resting", "saving"}
  /\ merged \subseteq DOMAIN policies

\* The first row of each table is there.
VersionInit ==
  /\ \E r \in Referents, n \in Labels :
       /\ label = [t \in Tables |-> [x \in Referents |-> IF x = r THEN n ELSE Unset]]
       /\ former = [t \in Tables |-> {r}]
  /\ policies = [p \in {} |-> Unset] /\ refers = [p \in {} |-> <<>>]
  /\ versions = <<>>
  /\ saver = [s \in Savers |-> NoSave] /\ answer = NoAnswer
  /\ merged = {} /\ used = [saves |-> 0, namings |-> 0]

Saves == used.saves < MaxSaves /\ used' = [used EXCEPT !.saves = @ + 1]
Namings == used.namings < MaxNamings /\ used' = [used EXCEPT !.namings = @ + 1]

_resolve_conditions(row) == \A c \in Columns : row.cond[c] \in {Unset} \cup Present(c)
SetsThere(sets) == Range(sets) \subseteq Present("command_set")
NameOf(table, r) == IF r = Unset THEN Unset ELSE label[table][r]

-----------------------------------------------------------------------------
(* Versions.                                                               *)

build_snapshot(row, sets) ==
  [enabled |-> row.enabled, grant |-> row.grant, names |-> [c \in Columns |-> NameOf(c, row.cond[c])],
   sets |-> [k \in DOMAIN sets |-> label["command_set"][sets[k]]]]

VersionsOf(p) == { i \in DOMAIN versions : versions[i].policy = p }
Newest(p) == CHOOSE i \in VersionsOf(p) : \A j \in VersionsOf(p) : j \leq i

\* meant: history, the rows that were named
record_version(p, row, sets, stored) ==
  versions' = Append(versions, [policy |-> p, number |-> Cardinality(VersionsOf(p)) + 1,
    snapshot |-> build_snapshot(row, stored), meant |-> [cond |-> row.cond, sets |-> sets]])

\* The new policy_command_sets rows are added to the session and written with the version: the queries of
\* its snapshot find the old ones deleted and none of the new.
Unflushed == <<>>

diff_policy_version(p, i) == build_snapshot(policies[p], refers[p]) # versions[i].snapshot

Bearers(table, name) == { r \in Referents : label[table][r] = name }
Resolve(table, name) == IF name = Unset \/ Bearers(table, name) = {} THEN Unset ELSE CHOOSE r \in Bearers(table, name) : TRUE

\* Bug: a condition whose name is gone is left as it is.
BugKeepsGone(p, snapshot) ==
  [enabled |-> snapshot.enabled, grant |-> snapshot.grant,
   cond |-> [c \in Columns |-> IF Resolve(c, snapshot.names[c]) = Unset THEN policies[p].cond[c] ELSE Resolve(c, snapshot.names[c])]]
RestoredRow(p, snapshot) ==
  [enabled |-> snapshot.enabled, grant |-> snapshot.grant, cond |-> [c \in Columns |-> Resolve(c, snapshot.names[c])]]
RestoredSets(snapshot) ==
  LET kept == SelectSeq(snapshot.sets, LAMBDA n : Bearers("command_set", n) # {})
  IN IF snapshot.sets = <<>> THEN <<>> ELSE [k \in DOMAIN kept |-> Resolve("command_set", kept[k])]
resolve_snapshot_for_restore(snapshot) ==
  { <<c, snapshot.names[c]>> : c \in { x \in Columns : snapshot.names[x] # Unset /\ Bearers(x, snapshot.names[x]) = {} } }
  \cup { <<"command_set", n>> : n \in { m \in Range(snapshot.sets) : Bearers("command_set", m) = {} } }

-----------------------------------------------------------------------------
(* Saves.                                                                  *)

Put(f, p, value) == [q \in DOMAIN f \cup {p} |-> IF q = p THEN value ELSE f[q]]

create_policy(p) ==
  /\ Saves /\ p \notin DOMAIN policies /\ \A s \in Savers : saver[s].policy # p
  /\ \E f \in PolicyForms :
       /\ _resolve_conditions(f.row) /\ SetsThere(f.sets)
       /\ policies' = Put(policies, p, f.row) /\ refers' = Put(refers, p, f.sets)
       /\ record_version(p, f.row, f.sets, Unflushed)
  /\ answer' = NoAnswer
  /\ UNCHANGED << label, former, saver, merged >>

Begin(s, p, row, sets, version, dropped) ==
  /\ saver[s].at = "resting" /\ Saves
  /\ saver' = [saver EXCEPT ![s] = [at |-> "saving", policy |-> p, was |-> policies[p], row |-> row, sets |-> sets,
                                    version |-> version, dropped |-> dropped, saw |-> label]]
  /\ answer' = NoAnswer
  /\ UNCHANGED << label, former, policies, refers, versions, merged >>

update_policy(s, p) ==
  \E f \in PolicyForms : /\ _resolve_conditions(f.row) /\ SetsThere(f.sets)
                         /\ Begin(s, p, f.row, f.sets, 0, {})

restore_policy_version(s, p) ==
  \E i \in VersionsOf(p) :
    LET snapshot == versions[i].snapshot IN
    Begin(s, p, RestoredRow(p, snapshot), RestoredSets(snapshot), i, resolve_snapshot_for_restore(snapshot))

Merge(me) ==
  LET changed(old, new, now) == IF new = old THEN now ELSE new
      now == policies[me.policy] IN
  [enabled |-> changed(me.was.enabled, me.row.enabled, now.enabled),
   grant |-> changed(me.was.grant, me.row.grant, now.grant),
   cond |-> [c \in Columns |-> changed(me.was.cond[c], me.row.cond[c], now.cond[c])]]

\* What the foreign keys ask for; a policy that is gone is not updated.
Writable(me) ==
  /\ me.policy \in DOMAIN policies /\ SetsThere(me.sets)
  /\ \A c \in Columns : me.row.cond[c] \in {Unset, me.was.cond[c]} \cup Present(c)

\* The snapshot is of the policy as this session has it.  A restore has flushed its command sets by then.
CommitSave(s) ==
  LET me == saver[s] IN
  /\ me.at = "saving"
  /\ saver' = [saver EXCEPT ![s] = NoSave]
  /\ IF Writable(me)
     THEN /\ policies' = [policies EXCEPT ![me.policy] = Merge(me)]
          /\ refers' = [refers EXCEPT ![me.policy] = me.sets]
          /\ record_version(me.policy, me.row, me.sets, IF me.version = 0 THEN Unflushed ELSE me.sets)
          /\ merged' = IF Merge(me) = me.row THEN merged \ {me.policy} ELSE merged \cup {me.policy}
          /\ answer' = IF me.version = 0 \/ Merge(me) # me.row \/ me.saw # label THEN NoAnswer
                       ELSE [policy |-> me.policy, version |-> me.version, dropped |-> me.dropped]
     ELSE UNCHANGED << policies, refers, versions, merged >> /\ answer' = NoAnswer
  /\ UNCHANGED << label, former, used >>

\* or the commit is refused
SaveRefused(s) ==
  /\ saver[s].at = "saving" /\ saver' = [saver EXCEPT ![s] = NoSave] /\ answer' = NoAnswer
  /\ UNCHANGED << label, former, policies, refers, versions, merged, used >>

\* One more command set, and no version.
add_command_set_to_policy(p) ==
  /\ Saves
  /\ \E r \in Present("command_set") \ Range(refers[p]) : refers' = [refers EXCEPT ![p] = Append(@, r)]
  /\ answer' = NoAnswer
  /\ UNCHANGED << label, former, policies, versions, saver, merged >>

\* Its versions stay, and belong to no policy.
delete_policy(p) ==
  /\ Saves
  /\ policies' = [q \in DOMAIN policies \ {p} |-> policies[q]] /\ refers' = [q \in DOMAIN refers \ {p} |-> refers[q]]
  /\ versions' = [i \in DOMAIN versions |-> IF versions[i].policy = p THEN [versions[i] EXCEPT !.policy = Unset] ELSE versions[i]]
  /\ merged' = merged \ {p} /\ answer' = NoAnswer
  /\ UNCHANGED << label, former, saver >>

-----------------------------------------------------------------------------
(* What policies refer to.                                                 *)

RenameRow(table) ==
  /\ Namings
  /\ \E r \in Referents, n \in Labels : /\ r \in Present(table) /\ Bearers(table, n) = {}
                                        /\ label' = [label EXCEPT ![table][r] = n]
  /\ answer' = NoAnswer
  /\ UNCHANGED << former, policies, refers, versions, saver, merged >>

AddRow(table) ==
  /\ Namings
  /\ \E r \in Referents \ former[table], n \in Labels :
       /\ Bearers(table, n) = {} /\ label' = [label EXCEPT ![table][r] = n]
       /\ former' = [former EXCEPT ![table] = @ \cup {r}]
  /\ answer' = NoAnswer
  /\ UNCHANGED << policies, refers, versions, saver, merged >>

\* The columns that name it become null; a command set that is used is not deleted.
DeleteRow(table) ==
  /\ Namings
  /\ \E r \in Present(table) :
       /\ table = "command_set" => \A p \in DOMAIN refers : r \notin Range(refers[p])
       /\ label' = [label EXCEPT ![table][r] = Unset]
       /\ policies' = [p \in DOMAIN policies |->
            IF table \in Columns /\ policies[p].cond[table] = r THEN [policies[p] EXCEPT !.cond[table] = Unset] ELSE policies[p]]
  /\ answer' = NoAnswer
  /\ UNCHANGED << former, refers, versions, saver, merged >>

VersionNext ==
  \/ \E p \in PolicyIds : create_policy(p)
  \/ \E p \in DOMAIN policies : \/ \E s \in Savers : update_policy(s, p) \/ restore_policy_version(s, p)
                                \/ add_command_set_to_policy(p) \/ delete_policy(p)
  \/ \E s \in Savers : CommitSave(s) \/ SaveRefused(s)
  \/ \E table \in Tables : RenameRow(table) \/ AddRow(table) \/ DeleteRow(table)

VersionSpec == VersionInit /\ [][VersionNext]_versionVars

-----------------------------------------------------------------------------
\* A restored condition is about the very row that was meant, as long as that row still has its name; about
\* another one only if it has taken the name; and where nobody bears the name the administrator is told.
ConditionIsMeant(p, v, c, dropped) ==
  LET name == v.snapshot.names[c]
      now == policies[p].cond[c] IN
  IF name = Unset THEN now = Unset
  ELSE IF now = Unset THEN <<c, name>> \in dropped /\ \A r \in Referents : label[c][r] # name
  ELSE label[c][now] = name /\ (label[c][v.meant.cond[c]] = name => now = v.meant.cond[c])

\* Restoring gives back what was recorded, and the newest version is then the policy as it is; the comparison
\* finds no difference to the restored version exactly when nothing was dropped.
RestoreIsTrue ==
  answer # NoAnswer =>
    LET p == answer.policy
        v == versions[answer.version] IN
    /\ \A c \in Columns : ConditionIsMeant(p, v, c, answer.dropped)
    /\ policies[p].enabled = v.snapshot.enabled /\ policies[p].grant = v.snapshot.grant
    /\ diff_policy_version(p, answer.version) <=> answer.dropped # {}
    /\ ~ diff_policy_version(p, Len(versions))

\* The newest version of a policy names the conditions and grant it has now, but for rows that were deleted
\* since: no other edit reaches them unrecorded, unless two saves of it were merged.
NewestIsCurrent ==
  \A p \in DOMAIN policies \ merged :
    LET v == versions[Newest(p)] IN
    /\ policies[p].enabled = v.snapshot.enabled /\ policies[p].grant = v.snapshot.grant
    /\ \A c \in Columns : LET r == v.meant.cond[c] IN
         policies[p].cond[c] = IF r # Unset /\ There(c, r) THEN r ELSE Unset

RestoresAreTrue == RestoreIsTrue /\ NewestIsCurrent
=============================================================================
