------------------------------ MODULE MCPlatform ------------------------------
(* The parts of the platform around the configuration lifecycle, which share nothing that these modules *)
(* model: a behaviour is one of one of the parts, chosen at its start, while the others rest.           *)
EXTENDS CommandJobs, SecurityAudit, Inventory, AccountingLog, Administrators, PolicyVersions, TLC

CONSTANTS
  Parts,   \* of "jobs", "audits", "devices", "licence", "log", "accounts" and "versions"
  c1, c2, v1, v2, d1, d2, g1, s1, s2

TheScripts == {<<"aaa new-model", Show>>, <<"ip http server", Show, "no ip http server", Show>>}

TheContents ==
  "bare" :> [has |-> {"track", "TRACK-02"}, ports |-> "Gi1" :> {"description"}]
  @@ "good" :> [has |-> {"AAA-01", "DHCPSNOOP-01", "SSH-01", "SSH-03", "line-vty", "HTTP-02"},
                ports |-> "Gi1" :> {"switchport-mode-access", "port_security"}]
TheFramework == "AC-17" :> {"SSH-02", "SSH-03", "CORR-03"} @@ "IA-2" :> {"AAA-01", "SSH-07"} @@ "SC-5" :> {"TRACK-01", "PKI-01"}

\* Two hosts that call themselves the same; a licence for one more device than Community has, and its machine.
TheHostnames == 1 :> <<0>> @@ 2 :> <<0>>
TheNames == {<<0>>}
TheMachine == "cpu" :> 1 @@ "id" :> 1
TheMachines == {TheMachine, "cpu" :> 2 @@ "id" :> 1}
TheTerms == "small" :> [signed |-> TRUE, limit |-> 2, until |-> 0, machine |-> TheMachine]
\* Three hosts, and a licence for all of them.
MoreHostnames == 1 :> <<0>> @@ 2 :> <<0>> @@ 3 :> <<0>>
MoreTerms == "large" :> [signed |-> TRUE, limit |-> 3, until |-> 0, machine |-> TheMachine]

TheTerminals == {<<"r1", "tty1">>, <<"r1", "tty2">>}
TheCommands == {<<"show version">>, <<"ping 2001:db8", "1">>}

\* A policy on a group, and one on a device of a device group.
TheForm(on, grant, group, device, sets) ==
  [row |-> [enabled |-> on, grant |-> grant,
            cond |-> [c \in Columns |-> IF c = "group" THEN group ELSE device]], sets |-> sets]
TheForms == { TheForm(TRUE, "permit", 1, Unset, <<1>>), TheForm(FALSE, "permit", 2, 1, <<>>) }

VARIABLE part

Init ==
  /\ part \in Parts
  /\ JobInit /\ member = (d1 :> g1 @@ d2 :> None)
  /\ part # "jobs" => template = <<"aaa new-model", Show>>
  /\ AuditInit /\ posture = [d \in Fleet |-> "bare"]
  /\ InventoryInit /\ machine = TheMachine
  /\ LogInit
  /\ AdminInit /\ DOMAIN accounts = {1} /\ accounts[1].name = "ann"
  /\ VersionInit /\ former["group"] = {1} /\ label["group"][1] = "a"

Idle(p) ==
  /\ p # "jobs" => UNCHANGED jobVars
  /\ p # "audits" => UNCHANGED auditVars
  /\ p \notin {"devices", "licence"} => UNCHANGED inventoryVars
  /\ p # "log" => UNCHANGED logVars
  /\ p # "accounts" => UNCHANGED adminVars
  /\ p # "versions" => UNCHANGED versionVars

\* One kind of disturbance at a time.
Calm == Cardinality({ x \in {"edits", "faults", "troubles"} : jobBudget'[x] > 0 }) \leq 1

\* Two clients and one event, or one client, who begins with a licence and whose devices take their keys,
\* and three.  It does not matter which of two idle clients is the next to begin, or which of the hosts is
\* the first.
Fewer ==
  /\ spent.starts = 0 => client'[c1].todo # {2} /\ client'[c1].host # {2}
  /\ IF part = "devices"
     THEN UNCHANGED << licence, machine >> /\ spent'.events \leq 1
          /\ (client[c1].at = "free" /\ client[c2].at = "free" => client'[c2].at = "free")
     ELSE /\ client'[c2] = client[c2] /\ (licence.text = Nobody /\ held = {} => licence'.text # Nobody)
          /\ client'[c1].at = "pushed" => \A h \in client'[c1].host : equipment'[h] = client'[c1].secret

\* Accounts are made without restrictions, and edited one thing at a time.
Sparing ==
  /\ visitor[v1].at = "waiting" /\ visitor[v2].at = "waiting" => visitor'[v2].at = "waiting"
  /\ \A i \in DOMAIN accounts' \ DOMAIN accounts : accounts'[i].allowed_source_ips = {} /\ accounts'[i].role_id = Nil
  /\ \A v \in Visitors : visitor'[v].at = "editing" =>
       Cardinality({ f \in DOMAIN visitor'[v].row : visitor'[v].row[f] # visitor'[v].was[f] }) = 1

\* It does not matter which of two requests that rest is the next, or which policy is made first; the three
\* columns are treated alike, and the rows of one come and go.
Orderly ==
  /\ label'["device"] = label["device"] /\ label'["device_group"] = label["device_group"]
  /\ saver[s1].at = "resting" /\ saver[s2].at = "resting" => saver'[s2].at = "resting"
  /\ versions = <<>> => 2 \notin DOMAIN policies'

Next ==
  \/ part = "jobs" /\ JobNext /\ Calm /\ UNCHANGED part /\ Idle("jobs")
  \/ part = "audits" /\ AuditNext /\ UNCHANGED part /\ Idle("audits")
  \/ part \in {"devices", "licence"} /\ InventoryNext /\ Fewer /\ UNCHANGED part /\ Idle(part)
  \/ part = "log" /\ LogNext /\ UNCHANGED part /\ Idle("log")
  \/ part = "accounts" /\ AdminNext /\ Sparing /\ UNCHANGED part /\ Idle("accounts")
  \/ part = "versions" /\ VersionNext /\ Orderly /\ UNCHANGED part /\ Idle("versions")

Spec ==
  /\ Init /\ [][Next]_<< jobVars, auditVars, inventoryVars, logVars, adminVars, versionVars, part >>
  /\ JobFairness /\ AuditFairness /\ InventoryFairness

-----------------------------------------------------------------------------
\* Every part stores what its tables and its memory can hold.
PlatformTypes == JobTypes /\ AuditTypes /\ InventoryTypes /\ LogTypes /\ AdminTypes /\ VersionTypes

\* When nobody asks for anything any more, everything that was accepted comes to an end: jobs, audits, and
\* the sessions of provisioning.
WorkEnds == <>[](JobsSettled /\ AuditsSettled /\ SessionsSettled)
=============================================================================
