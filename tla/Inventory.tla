------------------------------ MODULE Inventory ------------------------------
(***************************************************************************)
(* The inventory: how devices get in and out of it, the limit the licence  *)
(* puts on it, and the secrets that are sent to the devices (api/          *)
(* routes_devices.py, routes_monitoring.py, routes_network_scan.py,        *)
(* routes_license.py, services/entitlements.py and what they call).        *)
(*                                                                         *)
(* A request may be one transaction, or leave a background task that       *)
(* configures devices over SSH and records them one after the other.  An   *)
(* insertion is counted twice, by the handler that asks for it and by the  *)
(* hook of the mapper, and takes place when its transaction commits: what  *)
(* others do in between is not seen.                                       *)
(*                                                                         *)
(* An address is the set of the hosts it covers.  RADIUS fields, groups    *)
(* and descriptions are left out.                                          *)
(***************************************************************************)
EXTENDS Naturals, Sequences, FiniteSets, FiniteSetsExt, Functions

CONSTANTS
  Hosts, Addresses,   \* addresses may cover several hosts, and overlap
  Hostname,           \* what each host calls itself
  Names,              \* the names administrators type
  Typed,              \* the secrets administrators type
  Licences,           \* licence texts
  Terms,              \* what is signed in each: its limit, last day and machine
  Unlimited, COMMUNITY,
  Machines,           \* the components that can be read from the machine over time
  Clients,            \* requests and background tasks under way at a time
  Nobody,
  MaxStarts, MaxEvents, MaxDay   \* bounds: requests, administrators' edits and faults, and days

ASSUME AddressesAssumption == Addresses \subseteq SUBSET Hosts /\ {{h} : h \in Hosts} \subseteq Addresses
ASSUME HostnameAssumption == DOMAIN Hostname = Hosts /\ \A h \in Hosts : Hostname[h] \in Names
ASSUME TermsAssumption == DOMAIN Terms = Licences /\ Nobody \notin Licences /\ Unlimited \notin Nat
\* What the vendor signs: a number of devices, or no limit; and the last day.
ASSUME SignedAssumption == \A l \in Licences :
  Terms[l].signed \in BOOLEAN /\ Terms[l].limit \in Nat \cup {Unlimited} /\ Terms[l].until \in Nat
\* Hosts are numbers, and every address has a first one.
ASSUME HostsAssumption == /\ Hosts \subseteq Nat /\ IsFiniteSet(Hosts) /\ Typed \subseteq Nat
                          /\ \A address \in Addresses : \E h \in address : \A k \in address : h \leq k
ASSUME InventoryBoundsAssumption == {COMMUNITY, MaxStarts, MaxEvents, MaxDay} \subseteq Nat

VARIABLES
  inventory,   \* the network_devices rows, by their names, which are unique
  equipment,   \* the key each host has been configured with
  licence,     \* the platform_license row
  machine,     \* the components read from the machine
  day,         \* the system clock, which may be set back
  client,      \* what each request and task is doing
  progress,    \* the session of each task, in memory
  minted,      \* how many secrets were generated
  seenDay,     \* history: the latest day a licence was looked at
  held,        \* history: the licences that were ever installed
  overtaken,   \* history: insertions that others got ahead of after they were counted
  settled,     \* history: the hosts that took the last key they were sent, with nothing else in its way
  spent        \* how often each bound was used

inventoryVars == << inventory, equipment, licence, machine, day, client, progress, minted, seenDay, held, overtaken,
                    settled, spent >>

NoSecret == <<"none", 0>>
Generated(n) == <<"made", n>>
TypedKey(n) == <<"typed", n>>

Free == [at |-> "free", kind |-> "none", todo |-> {}, host |-> {}, name |-> <<>>, secret |-> NoSecret,
         edited |-> NoSecret, doubted |-> FALSE, saw |-> <<>>]
NoProgress == [status |-> "none", total |-> 0, completed |-> 0, since |-> 0]

InventoryTypes ==
  /\ \A n \in DOMAIN inventory : inventory[n].address \in Addresses /\ inventory[n].secret \in {"typed", "made"} \X Nat
  /\ equipment \in [Hosts -> {"none", "typed", "made"} \X Nat]
  /\ licence \in [text : Licences \cup {Nobody}, highest : 0 .. MaxDay, grandfathered : Nat]
  /\ machine \in Machines /\ day \in 0 .. MaxDay
  /\ \A c \in Clients : /\ client[c].at \in {"free", "checked", "counted", "next", "gathering", "pushing", "pushed"}
                        /\ client[c].kind \in {"none", "add", "scan", "push"} /\ client[c].todo \subseteq Hosts
                        /\ client[c].host \in Addresses \cup {{}}
                        /\ progress[c].status \in {"none", "running", "done"}
                        /\ progress[c].completed \leq progress[c].total
  /\ held \subseteq Licences /\ overtaken \in Nat /\ settled \subseteq Hosts /\ seenDay \in 0 .. MaxDay

InventoryInit ==
  /\ inventory = <<>> /\ equipment = [h \in Hosts |-> NoSecret]
  /\ licence = [text |-> Nobody, highest |-> 0, grandfathered |-> 0]
  /\ machine \in Machines /\ day = 0
  /\ client = [c \in Clients |-> Free] /\ progress = [c \in Clients |-> NoProgress]
  /\ minted = 0 /\ seenDay = 0 /\ held = {} /\ overtaken = 0 /\ settled = {}
  /\ spent = [starts |-> 0, events |-> 0]

Starts == spent.starts < MaxStarts /\ spent' = [spent EXCEPT !.starts = @ + 1]
Happens == spent.events < MaxEvents /\ spent' = [spent EXCEPT !.events = @ + 1]
Count == Cardinality(DOMAIN inventory)

-----------------------------------------------------------------------------
(* What the licence allows.                                                *)

verify(text, now) == Terms[text].signed /\ now \leq Terms[text].until

\* Two components that agree, or one when no other can be compared.
check_binding(claim) ==
  LET comparable == DOMAIN claim \cap DOMAIN machine
      matched == { k \in comparable : claim[k] = machine[k] } IN
  \/ DOMAIN claim = {}
  \/ comparable # {} /\ Cardinality(matched) \geq Min({2, Cardinality(comparable)})

\* Bug: setting the clock back revives a licence.
BugClockAlone == day
\* The clock, or the latest time that was ever looked at.
_effective_now == Max({day, licence.highest})

\* The limit of the entitlements in force: Community's without a licence that is usable.
current_limit ==
  IF /\ licence.text # Nobody
     /\ verify(licence.text, _effective_now)
     /\ check_binding(Terms[licence.text].machine)
  THEN Terms[licence.text].limit ELSE COMMUNITY

Within(limit, count) == limit = Unlimited \/ count \leq Max({limit, licence.grandfathered})

check_can_add_device == Within(current_limit, Count + 1)

\* Looking at a licence moves the time it was last looked at.
Looked == /\ licence' = [licence EXCEPT !.highest = IF licence.text = Nobody THEN @ ELSE _effective_now]
          /\ seenDay' = IF licence.text = Nobody THEN seenDay ELSE Max({seenDay, day})

\* The limit of the hook, which asks neither for that time nor for the machine.
licence_limit_for_connection ==
  IF licence.text # Nobody /\ verify(licence.text, day) THEN Terms[licence.text].limit ELSE COMMUNITY

import_license ==
  /\ Happens
  /\ \E text \in Licences : /\ verify(text, day) /\ text # licence.text
                            /\ licence' = [licence EXCEPT !.text = text, !.highest = _effective_now]
                            /\ held' = held \cup {text}
  /\ seenDay' = Max({seenDay, day})
  /\ UNCHANGED << inventory, equipment, machine, day, client, progress, minted, overtaken, settled >>

\* Bug: there is room for one more.
BugRoomForOneMore ==
  /\ Happens /\ licence.text # Nobody
  /\ licence' = [licence EXCEPT !.text = Nobody, !.grandfathered = Max({@, Count + 1})]
  /\ UNCHANGED << inventory, equipment, machine, day, client, progress, minted, seenDay, held, overtaken, settled >>
remove_license ==
  /\ Happens /\ licence.text # Nobody
  /\ licence' = [licence EXCEPT !.text = Nobody,
                   !.grandfathered = IF Count > COMMUNITY THEN Max({@, Count}) ELSE @]
  /\ UNCHANGED << inventory, equipment, machine, day, client, progress, minted, seenDay, held, overtaken, settled >>

\* The License page asks for the entitlements.
license_status ==
  /\ licence.text # Nobody /\ Looked /\ licence' # licence
  /\ UNCHANGED << inventory, equipment, machine, day, client, progress, minted, held, overtaken, settled, spent >>

-----------------------------------------------------------------------------
(* Adding a device.                                                        *)

Overlaps(address, names) == \E n \in names : inventory[n].address \cap address # {}
_check_no_overlap(address) == ~Overlaps(address, DOMAIN inventory)

\* history: what an insertion was allowed on
Seen == << DOMAIN inventory, licence.text, licence.grandfathered, Max({seenDay, day}), machine >>

\* A task goes on with its next host.
PassedOver(me) == [Free EXCEPT !.at = "next", !.kind = me.kind, !.todo = me.todo, !.edited = me.edited]

\* history: what is under way on one host, and that it is in doubt because something ran into it
OnHost(host) == { k \in Clients : client[k].at \in {"gathering", "pushing", "pushed", "checked", "counted"}
                                  /\ client[k].host \cap host # {} }
Crowded(host) == [k \in Clients |-> IF k \in OnHost(host) THEN [client[k] EXCEPT !.doubted = TRUE] ELSE client[k]]
Crowding(next, c) == client' = [Crowded(next.host) EXCEPT ![c] = [next EXCEPT !.doubted = OnHost(next.host) \ {c} # {}]]

\* Everything is asked for; then a name is used that the module does not define, and nothing is added.
create_device(c) ==
  /\ client[c].at = "free" /\ Starts
  /\ \E address \in Addresses : _check_no_overlap(address)
  /\ UNCHANGED << inventory, equipment, licence, machine, day, client, progress, minted, seenDay, held, overtaken, settled >>

\* Only the same address is refused here, not one that overlaps.
quick_add_device(c) ==
  /\ client[c].at = "free" /\ Starts
  /\ \E address \in Addresses, name \in Names, key \in Typed :
       /\ \A n \in DOMAIN inventory : n # name /\ inventory[n].address # address
       /\ check_can_add_device
       /\ Crowding([Free EXCEPT !.at = "checked", !.kind = "add", !.host = address, !.name = name,
                                !.secret = TypedKey(key), !.saw = Seen], c)
  /\ Looked
  /\ UNCHANGED << inventory, equipment, machine, day, progress, minted, held, overtaken, settled >>

\* A task whose insertion fails gives up the rest of its work, and the results it had.
finish_session(c) ==
  progress' = IF progress[c].status = "running" THEN [progress EXCEPT ![c].status = "done"] ELSE progress
\* Bug: nobody is told that the task was given up.
BugLeavesSessionRunning(c) == client' = [client EXCEPT ![c] = Free] /\ UNCHANGED progress
GivesUp(c) == /\ client' = [client EXCEPT ![c] = Free]
              /\ IF client[c].kind = "scan" THEN finish_session(c) ELSE UNCHANGED progress

\* The hook counts the rows that are committed, at the flush.
_enforce_device_licence(c) ==
  /\ client[c].at = "checked"
  /\ IF Within(licence_limit_for_connection, Count + 1)
     THEN client' = [client EXCEPT ![c].at = "counted"] /\ UNCHANGED progress
     ELSE GivesUp(c)
  /\ UNCHANGED << inventory, equipment, licence, machine, day, minted, seenDay, held, overtaken, settled, spent >>

increment_completed(c) ==
  progress' = IF progress[c].status = "running" THEN [progress EXCEPT ![c].completed = @ + 1] ELSE progress

CommitDevice(c) ==
  LET me == client[c] IN
  /\ me.at = "counted"
  /\ IF me.name \in DOMAIN inventory
     THEN GivesUp(c) /\ UNCHANGED << inventory, overtaken, settled >>
     ELSE /\ inventory' = [n \in DOMAIN inventory \cup {me.name} |->
                        IF n = me.name THEN [address |-> me.host, secret |-> me.secret] ELSE inventory[n]]
          /\ overtaken' = IF me.saw = Seen THEN overtaken ELSE overtaken + 1
          /\ IF me.kind = "scan"
             THEN /\ client' = [client EXCEPT ![c] = PassedOver(me)]
                  /\ increment_completed(c)
                  /\ settled' = IF me.doubted \/ Overlaps(me.host, DOMAIN inventory) THEN settled \ me.host
                                ELSE settled \cup me.host
             ELSE /\ client' = [client EXCEPT ![c] = Free]
                  /\ settled' = settled \ me.host /\ UNCHANGED progress
  /\ UNCHANGED << equipment, licence, machine, day, minted, seenDay, held, spent >>

\* An edit, and at most one new secret.
update_device ==
  /\ Happens
  /\ \E n \in DOMAIN inventory, name \in Names \cup DOMAIN inventory, address \in Addresses, key \in Typed, keep \in BOOLEAN :
       LET others == DOMAIN inventory \ {n}
           row == [address |-> address, secret |-> IF keep THEN inventory[n].secret ELSE TypedKey(key)] IN
       /\ name \notin others /\ ~Overlaps(address, others)
       /\ <<n, inventory[n]>> # <<name, row>>
       /\ inventory' = [m \in others \cup {name} |-> IF m = name THEN row ELSE inventory[m]]
       /\ settled' = IF row = inventory[n] THEN settled ELSE settled \ (address \cup inventory[n].address)
       /\ client' = IF row = inventory[n] THEN client ELSE Crowded(address \cup inventory[n].address)
  /\ UNCHANGED << equipment, licence, machine, day, progress, minted, seenDay, held, overtaken >>

delete_device ==
  /\ Happens
  /\ \E n \in DOMAIN inventory : /\ inventory' = Restrict(inventory, DOMAIN inventory \ {n})
                                 /\ client' = Crowded(inventory[n].address)
  /\ UNCHANGED << equipment, licence, machine, day, progress, minted, seenDay, held, overtaken, settled >>

-----------------------------------------------------------------------------
(* Configuring devices.                                                    *)

\* A session that is more than an hour old is dropped when another one starts.
start_session(c, total) ==
  progress' = [k \in Clients |-> IF k = c THEN [status |-> "running", total |-> total, completed |-> 0, since |-> day]
                                 ELSE IF progress[k].since < day THEN NoProgress ELSE progress[k]]

\* The commands may have been edited: then the secret in them is that of every device.
apply_aaa_all(c) ==
  /\ client[c].at = "free" /\ Starts
  /\ \E hosts \in (SUBSET Hosts) \ {{}}, edited \in {NoSecret} \cup { TypedKey(key) : key \in Typed } :
       /\ client' = [client EXCEPT ![c] = [Free EXCEPT !.at = "next", !.kind = "scan", !.todo = hosts, !.edited = edited]]
       /\ start_session(c, Cardinality(hosts))
  /\ UNCHANGED << inventory, equipment, licence, machine, day, minted, seenDay, held, overtaken, settled >>

\* A host that a device covers is passed over; the others are asked for their names.
NextHost(c) ==
  LET me == client[c] IN
  /\ me.at = "next"
  /\ \E h \in me.todo :
       IF _check_no_overlap({h})
       THEN /\ Crowding([me EXCEPT !.at = "gathering", !.host = {h}, !.todo = @ \ {h}], c)
            /\ UNCHANGED progress
       ELSE client' = [client EXCEPT ![c].todo = @ \ {h}] /\ increment_completed(c)
  /\ UNCHANGED << inventory, equipment, licence, machine, day, minted, seenDay, held, overtaken, settled, spent >>

gather_device_info(c) ==
  LET me == client[c]
      h == CHOOSE x \in me.host : TRUE
      name == IF Hostname[h] \in DOMAIN inventory THEN Hostname[h] \o <<h>> ELSE Hostname[h] IN
  /\ me.at = "gathering"
  /\ IF me.edited # NoSecret
     THEN client' = [client EXCEPT ![c].at = "pushing", ![c].name = name, ![c].secret = me.edited] /\ UNCHANGED minted
     ELSE /\ client' = [client EXCEPT ![c].at = "pushing", ![c].name = name, ![c].secret = Generated(minted + 1)]
          /\ minted' = minted + 1
  /\ UNCHANGED << inventory, equipment, licence, machine, day, progress, seenDay, held, overtaken, settled, spent >>

\* The device is unreachable, or is lost before or after it has taken the key.
PushFails(c) ==
  LET me == client[c] IN
  /\ me.at \in {"gathering", "pushing"} /\ Happens
  /\ \/ UNCHANGED equipment
     \/ me.at = "pushing" /\ equipment' = [h \in Hosts |-> IF h \in me.host THEN me.secret ELSE equipment[h]]
  /\ increment_completed(c)
  /\ client' = [client EXCEPT ![c] = PassedOver(me)]
  /\ settled' = settled \ me.host
  /\ UNCHANGED << inventory, licence, machine, day, minted, seenDay, held, overtaken >>

\* The commands went through, and nobody looks at the answers: the device has not taken the key when
\* it refused the line, or when the stored commands have no place for a key.
apply_aaa_config(c) ==
  LET me == client[c] IN
  /\ me.at = "pushing"
  /\ \E taken \in BOOLEAN :
       /\ equipment' = [h \in Hosts |-> IF taken /\ h \in me.host THEN me.secret ELSE equipment[h]]
       /\ IF me.kind = "scan"
          THEN /\ client' = [client EXCEPT ![c].at = "pushed", ![c].doubted = @ \/ ~taken]
               /\ UNCHANGED << progress, settled >>
          ELSE /\ client' = [client EXCEPT ![c] = PassedOver(me)]
               /\ increment_completed(c)
               /\ settled' = IF \/ ~taken \/ me.doubted
                                \/ Cardinality({ n \in DOMAIN inventory : Overlaps(me.host, {n}) }) > 1
                             THEN settled \ me.host ELSE settled \cup me.host
  /\ UNCHANGED << inventory, licence, machine, day, minted, seenDay, held, overtaken, spent >>

\* The limit is asked for when the device has been configured.
LimitAfterPush(c) ==
  /\ client[c].at = "pushed"
  /\ IF check_can_add_device
     THEN client' = [client EXCEPT ![c].at = "checked", ![c].saw = Seen] /\ UNCHANGED progress
     ELSE GivesUp(c)
  /\ Looked
  /\ UNCHANGED << inventory, equipment, machine, day, minted, held, overtaken, settled, spent >>

FinishSession(c) ==
  /\ client[c].at = "next" /\ client[c].todo = {}
  /\ finish_session(c)
  /\ client' = [client EXCEPT ![c] = Free]
  /\ UNCHANGED << inventory, equipment, licence, machine, day, minted, seenDay, held, overtaken, settled, spent >>

\* Bug: edited commands are sent and their secret is not stored.
BugSecretNotStored(c) ==
  /\ client[c].at = "free" /\ Starts
  /\ \E n \in DOMAIN inventory, edited \in {NoSecret} \cup { TypedKey(key) : key \in Typed } :
       Crowding([Free EXCEPT !.at = "pushing", !.kind = "push", !.host = {Min(inventory[n].address)},
                             !.secret = IF edited = NoSecret THEN inventory[n].secret ELSE edited], c)
  /\ start_session(c, 1)
  /\ UNCHANGED << inventory, equipment, licence, machine, day, minted, seenDay, held, overtaken, settled >>
\* A push to a device that is recorded: the secret of edited commands is stored before it is sent.
apply_aaa_to_device(c) ==
  /\ client[c].at = "free" /\ Starts
  /\ \E n \in DOMAIN inventory, edited \in {NoSecret} \cup { TypedKey(key) : key \in Typed } :
       LET secret == IF edited = NoSecret THEN inventory[n].secret ELSE edited
           host == {Min(inventory[n].address)} IN
       /\ inventory' = [inventory EXCEPT ![n].secret = secret]
       /\ Crowding([Free EXCEPT !.at = "pushing", !.kind = "push", !.host = host, !.secret = secret], c)
       /\ settled' = IF secret = inventory[n].secret THEN settled ELSE settled \ inventory[n].address
  /\ start_session(c, 1)
  /\ UNCHANGED << equipment, licence, machine, day, minted, seenDay, held, overtaken >>

-----------------------------------------------------------------------------
(* Everything else.                                                        *)

\* Time passes, or the clock is set.
SetClock ==
  /\ Happens
  /\ day' \in (0 .. MaxDay) \ {day}
  /\ UNCHANGED << inventory, equipment, licence, machine, client, progress, minted, seenDay, held, overtaken, settled >>

MachineChanges ==
  /\ Happens
  /\ machine' \in Machines \ {machine}
  /\ UNCHANGED << inventory, equipment, licence, day, client, progress, minted, seenDay, held, overtaken, settled >>

\* Requests, tasks and sessions are in memory.
PlatformStops ==
  /\ Happens /\ \E c \in Clients : client[c].at # "free"
  /\ client' = [c \in Clients |-> Free] /\ progress' = [c \in Clients |-> NoProgress]
  /\ settled' = settled \ UNION { client[c].host : c \in Clients }
  /\ UNCHANGED << inventory, equipment, licence, machine, day, minted, seenDay, held, overtaken >>

InventoryWork(c) ==
  \/ _enforce_device_licence(c) \/ CommitDevice(c) \/ NextHost(c) \/ gather_device_info(c)
  \/ apply_aaa_config(c) \/ LimitAfterPush(c) \/ FinishSession(c)

InventoryNext ==
  \/ \E c \in Clients : \/ InventoryWork(c) \/ PushFails(c) \/ create_device(c) \/ quick_add_device(c)
                        \/ apply_aaa_all(c) \/ apply_aaa_to_device(c)
  \/ import_license \/ remove_license \/ license_status \/ update_device \/ delete_device
  \/ SetClock \/ MachineChanges \/ PlatformStops

\* Every connection, command and commit of a task has a timeout.
InventoryFairness == \A c \in Clients : WF_inventoryVars(InventoryWork(c))

InventorySpec == InventoryInit /\ [][InventoryNext]_inventoryVars /\ InventoryFairness

-----------------------------------------------------------------------------
\* However licences are installed, removed and run out, and devices come and go, there are never more
\* devices than the largest limit that was ever installed, Community's included, except for the
\* insertions that were overtaken between their count and their commit.
LimitIsKept ==
  \/ \E l \in held : Terms[l].limit = Unlimited
  \/ Count \leq Max({COMMUNITY} \cup { Terms[l].limit : l \in held }) + overtaken

\* A licence that has run out on any day it was looked at, or belongs to another machine, lets nobody
\* in, whatever the clock says now: a device is added only when a licence that is in force has room for
\* it, or Community has, or there are fewer devices than there were when some licence was removed.
LicenceInForce == LET l == licence.text IN
  l # Nobody /\ Terms[l].signed /\ seenDay \leq Terms[l].until /\ check_binding(Terms[l].machine)
RoomUnder(l, count) == Terms[l].limit = Unlimited \/ count < Terms[l].limit
LicenceDecides ==
  [][DOMAIN inventory' \ DOMAIN inventory # {} /\ Cardinality(DOMAIN inventory') > Count /\ overtaken' = overtaken
       => \/ Count < Max({COMMUNITY, licence.grandfathered})
          \/ LicenceInForce /\ RoomUnder(licence.text, Count)]_inventoryVars

\* "Devices that already exist keep working [...]. New additions are blocked until the count is back within
\* the limit or a license is imported." (entitlements.py:23-26, LICENSING.md:200-202.)  They are not: what was
\* deleted is replaced, up to the count there was when a licence was removed.
AddingIsBlocked ==
  [][DOMAIN inventory' \ DOMAIN inventory # {} /\ Cardinality(DOMAIN inventory') > Count /\ overtaken' = overtaken
       => current_limit = Unlimited \/ Count \leq current_limit]_inventoryVars

\* The key stored for a device is the one the device has, if it took the last key it was sent and that
\* push did not fail or run into another request for the same host, and unless the key or address was
\* edited since or two devices had the host.  (That a device took what it was sent is nowhere asked for:
\* where it did not, the stored key is wrong and a success was reported.)
SecretsAgree ==
  \A n \in DOMAIN inventory, h \in settled :
    inventory[n].address = {h} => inventory[n].secret = equipment[h]

\* Tasks and requests are over, and whoever watches a session was told, unless it was forgotten.
SessionsSettled == \A c \in Clients : client[c].at = "free" /\ progress[c].status # "running"
=============================================================================
