---------------------------- MODULE InventoryProofs ----------------------------
(***************************************************************************)
(* Proofs about Inventory, for any hosts, licences, machines and clients.  *)
(***************************************************************************)
EXTENDS Inventory, FiniteSetTheorems, TLAPS

-----------------------------------------------------------------------------
(* Types.                                                                  *)

DeviceNames == {<<>>} \cup Names \cup { Hostname[h] : h \in Hosts } \cup { Hostname[h] \o <<h>> : h \in Hosts }
Keys == {"typed", "made"} \X Nat
Secrets == {"none", "typed", "made"} \X Nat
Sights == (SUBSET DeviceNames) \X (Licences \cup {Nobody}) \X Nat \X (0 .. MaxDay) \X Machines

ClientRecord ==
  [at : {"free", "checked", "counted", "next", "gathering", "pushing", "pushed"},
   kind : {"none", "add", "scan", "push"}, todo : SUBSET Hosts, host : Addresses \cup {{}},
   name : DeviceNames, secret : Secrets, edited : {NoSecret} \cup ({"typed"} \X Nat),
   doubted : BOOLEAN, saw : {<<>>} \cup Sights]
ProgressRecord == [status : {"none", "running", "done"}, total : Nat, completed : Nat, since : 0 .. MaxDay]

TypesInv ==
  /\ DOMAIN inventory \subseteq DeviceNames /\ IsFiniteSet(DOMAIN inventory)
  /\ inventory \in [DOMAIN inventory -> [address : Addresses, secret : Keys]]
  /\ equipment \in [Hosts -> Secrets]
  /\ licence \in [text : Licences \cup {Nobody}, highest : 0 .. MaxDay, grandfathered : Nat]
  /\ machine \in Machines /\ day \in 0 .. MaxDay
  /\ client \in [Clients -> ClientRecord]
  /\ progress \in [Clients -> ProgressRecord]
  /\ minted \in Nat /\ held \subseteq Licences /\ overtaken \in Nat /\ settled \subseteq Hosts
  /\ seenDay \in 0 .. MaxDay

\* On the way to a host, with the secret it is given.
On == {"gathering", "pushing", "pushed", "checked", "counted"}
Keyed == {"pushing", "pushed", "checked", "counted"}

\* What a client at each place is, and what the one that is free has left.
ClientInv(c) ==
  /\ client[c].at = "free" => progress[c].status # "running"
  /\ client[c].at = "next" => client[c].kind \in {"scan", "push"}
  /\ client[c].at = "gathering" => client[c].kind = "scan" 
  /\ client[c].at = "pushing" => client[c].kind \in {"scan", "push"}
  /\ client[c].at = "pushed" => client[c].kind = "scan"
  /\ client[c].at \in {"checked", "counted"} => client[c].kind \in {"add", "scan"} /\ client[c].saw \in Sights
  /\ client[c].at \in On => client[c].host # {}
  /\ client[c].at \in Keyed => client[c].secret \in Keys
  /\ client[c].kind = "add" => progress[c].status # "running"
  /\ client[c].kind = "push" => client[c].todo = {}

\* A session never counts more than its work.
ProgressInv(c) ==
  /\ progress[c].completed <= progress[c].total
  /\ progress[c].status = "running" =>
       progress[c].completed + Cardinality(client[c].todo)
         + (IF client[c].at \in On THEN 1 ELSE 0) <= progress[c].total

-----------------------------------------------------------------------------
(* The limit.                                                              *)

Limits(had) == {COMMUNITY} \cup { Terms[l].limit : l \in had }
NoLimit(had) == \E l \in had : Terms[l].limit = Unlimited

\* n devices are within the largest limit of the licences there were, but for
\* those that were overtaken.
RoomFor(n, had, late) == NoLimit(had) \/ \E x \in Limits(had) : n <= x + late

LimitInv ==
  /\ NoLimit(held) \/ \E m \in Limits(held) : \A x \in Limits(held) : x <= m
  /\ licence.text \in held \cup {Nobody}
  /\ RoomFor(Count, held, overtaken) /\ RoomFor(licence.grandfathered, held, overtaken)
  /\ \A c \in Clients : client[c].at \in {"checked", "counted"} =>
       IsFiniteSet(client[c].saw[1]) /\ RoomFor(Cardinality(client[c].saw[1]) + 1, held, overtaken)

Binds(claim, parts) ==
  LET comparable == DOMAIN claim \cap DOMAIN parts
      matched == { k \in comparable : claim[k] = parts[k] } IN
  \/ DOMAIN claim = {}
  \/ comparable # {} /\ Cardinality(matched) >= Min({2, Cardinality(comparable)})

\* What an insertion was allowed on, allows it.
Permits(saw) ==
  \/ Cardinality(saw[1]) < Max({COMMUNITY, saw[3]})
  \/ /\ saw[2] # Nobody /\ Terms[saw[2]].signed /\ saw[4] <= Terms[saw[2]].until
     /\ Binds(Terms[saw[2]].machine, saw[5]) /\ RoomUnder(saw[2], Cardinality(saw[1]))

DecideInv ==
  /\ seenDay <= licence.highest
  /\ \A c \in Clients : client[c].at \in {"checked", "counted"} => Permits(client[c].saw)

-----------------------------------------------------------------------------
(* The secrets.                                                            *)

\* Two that are on the way to one host know it.
CrowdInv == \A c, k \in Clients :
  /\ c # k /\ client[c].at \in On /\ client[k].at \in On /\ client[c].host \cap client[k].host # {}
  => client[c].doubted

Hosted(h) == \E n \in DOMAIN inventory : h \in inventory[n].address
Landed == {"pushed", "checked", "counted"}

\* A host on the way into the inventory is not settled by a device that covers it.
ScanInv(c) == client[c].kind = "scan" /\ client[c].at \in On =>
  /\ \A h \in client[c].host \cap settled : ~Hosted(h)
  /\ client[c].at \in Landed /\ ~client[c].doubted =>
       \A h \in client[c].host : equipment[h] = client[c].secret

\* A device that is pushed to has the secret that is sent.
PushInv(c) == client[c].kind = "push" /\ client[c].at \in On /\ ~client[c].doubted =>
  \E n \in DOMAIN inventory : client[c].host = {Min(inventory[n].address)} /\ inventory[n].secret = client[c].secret

SecretsInv == CrowdInv /\ SecretsAgree /\ \A c \in Clients : ScanInv(c) /\ PushInv(c)

InventoryInv ==
  /\ TypesInv /\ \A c \in Clients : ClientInv(c) /\ ProgressInv(c)
  /\ LimitInv /\ DecideInv /\ SecretsInv
-----------------------------------------------------------------------------
(* The operators.                                                          *)

LEMMA MaxOfTwo ==
  ASSUME NEW a \in Nat, NEW b \in Nat
  PROVE  /\ Max({a, b}) \in {a, b} /\ Max({a, b}) \in Nat
         /\ Max({a, b}) >= a /\ Max({a, b}) >= b
<1>1. \E x \in {a, b} : \A y \in {a, b} : x >= y
  OBVIOUS
<1>2. QED
  BY <1>1 DEF Max

LEMMA MaxIsGreatest ==
  ASSUME NEW S, NEW m \in S, \A y \in S : m >= y
  PROVE  Max(S) \in S /\ \A y \in S : Max(S) >= y
BY DEF Max

\* Every address has a first host.
LEMMA MinOfAddress ==
  ASSUME NEW address \in Addresses
  PROVE  Min(address) \in address /\ Min(address) \in Hosts /\ {Min(address)} \in Addresses
<1>1. \E h \in address : \A k \in address : h <= k
  BY HostsAssumption
<1>2. Min(address) \in address
  BY <1>1 DEF Min
<1>3. QED
  BY <1>2, AddressesAssumption

LEMMA FreeRecord ==
  /\ Free \in ClientRecord
  /\ Free.at = "free" /\ Free.kind = "none" /\ Free.todo = {} /\ Free.host = {} /\ Free.doubted = FALSE
BY DEF Free, ClientRecord, NoSecret, DeviceNames, Secrets

LEMMA PassedOverRecord ==
  ASSUME NEW me \in ClientRecord
  PROVE  /\ PassedOver(me) \in ClientRecord
         /\ PassedOver(me).at = "next" /\ PassedOver(me).kind = me.kind /\ PassedOver(me).todo = me.todo
BY FreeRecord DEF PassedOver, ClientRecord, Free

\* A client that goes on as it was; somebody may have run into it.
Alike(k) ==
  /\ client'[k].at = client[k].at /\ client'[k].kind = client[k].kind /\ client'[k].todo = client[k].todo
  /\ client'[k].host = client[k].host /\ client'[k].secret = client[k].secret
  /\ client'[k].saw = client[k].saw
  /\ client[k].doubted => client'[k].doubted

LEMMA ClientMoves ==
  ASSUME TypesInv, NEW c \in Clients, NEW r \in ClientRecord, client' = [client EXCEPT ![c] = r]
  PROVE  /\ client' \in [Clients -> ClientRecord] /\ client'[c] = r
         /\ \A k \in Clients \ {c} : Alike(k)
BY DEF TypesInv, Alike

LEMMA CrowdedMoves ==
  ASSUME TypesInv, NEW host
  PROVE  /\ Crowded(host) \in [Clients -> ClientRecord]
         /\ client' = Crowded(host) =>
              \A k \in Clients : Alike(k) /\ (k \in OnHost(host) => client'[k].doubted)
<1>1. \A k \in Clients : client[k] \in ClientRecord
  BY DEF TypesInv
<1>2. ASSUME NEW r \in ClientRecord
      PROVE  LET q == [r EXCEPT !.doubted = TRUE] IN
             /\ q \in ClientRecord /\ q.doubted /\ q.at = r.at /\ q.kind = r.kind /\ q.todo = r.todo
             /\ q.host = r.host /\ q.secret = r.secret /\ q.saw = r.saw
  BY DEF ClientRecord
<1>3. \A k \in Clients : Crowded(host)[k] = IF k \in OnHost(host) THEN [client[k] EXCEPT !.doubted = TRUE] ELSE client[k]
  BY DEF Crowded
<1>4. Crowded(host) \in [Clients -> ClientRecord]
  BY <1>1, <1>2 DEF Crowded
<1>5. ASSUME client' = Crowded(host), NEW k \in Clients
      PROVE  Alike(k) /\ (k \in OnHost(host) => client'[k].doubted)
  BY <1>1, <1>2, <1>3, <1>5 DEF Alike
<1>6. QED
  BY <1>4, <1>5

LEMMA CrowdingMoves ==
  ASSUME TypesInv, NEW c \in Clients, NEW next \in ClientRecord, Crowding(next, c)
  PROVE  /\ client' \in [Clients -> ClientRecord]
         /\ client'[c].at = next.at /\ client'[c].kind = next.kind /\ client'[c].todo = next.todo
         /\ client'[c].host = next.host /\ client'[c].secret = next.secret /\ client'[c].saw = next.saw
         /\ client'[c].doubted <=> OnHost(next.host) \ {c} # {}
         /\ \A k \in Clients \ {c} : Alike(k) /\ (k \in OnHost(next.host) => client'[k].doubted)
<1> DEFINE b == OnHost(next.host) \ {c} # {}
           r == [next EXCEPT !.doubted = b]
<1>1. b \in BOOLEAN
  OBVIOUS
<1> HIDE DEF b
<1>2. /\ r \in ClientRecord /\ r.at = next.at /\ r.kind = next.kind /\ r.todo = next.todo
      /\ r.host = next.host /\ r.secret = next.secret /\ r.saw = next.saw /\ r.doubted = b
  BY <1>1 DEF ClientRecord
<1>3. client' = [Crowded(next.host) EXCEPT ![c] = r]
  BY DEF Crowding, b
<1>4. Crowded(next.host) \in [Clients -> ClientRecord]
  BY CrowdedMoves
<1> HIDE DEF r
<1>5. /\ client' \in [Clients -> ClientRecord] /\ client'[c] = r
      /\ \A k \in Clients \ {c} : client'[k] = Crowded(next.host)[k]
  BY <1>2, <1>3, <1>4
<1>6. ASSUME NEW q \in ClientRecord
      PROVE  LET p == [q EXCEPT !.doubted = TRUE] IN
             /\ p.doubted /\ p.at = q.at /\ p.kind = q.kind /\ p.todo = q.todo
             /\ p.host = q.host /\ p.secret = q.secret /\ p.saw = q.saw
  BY DEF ClientRecord
<1>7. ASSUME NEW k \in Clients \ {c}
      PROVE  Alike(k) /\ (k \in OnHost(next.host) => client'[k].doubted)
  <2>1. client'[k] = IF k \in OnHost(next.host) THEN [client[k] EXCEPT !.doubted = TRUE] ELSE client[k]
    BY <1>5 DEF Crowded
  <2>2. client[k] \in ClientRecord
    BY DEF TypesInv
  <2>3. QED
    BY <1>6, <2>1, <2>2 DEF Alike
<1>8. QED
  BY <1>2, <1>5, <1>7 DEF b

LEMMA SecretIsKey ==
  /\ \A n \in Nat : Generated(n) \in Keys /\ TypedKey(n) \in Keys /\ TypedKey(n) \in {"typed"} \X Nat
  /\ Keys \subseteq Secrets /\ NoSecret \in Secrets /\ NoSecret \notin Keys
  /\ {"typed"} \X Nat \subseteq Keys
BY DEF Generated, TypedKey, Keys, Secrets, NoSecret

LEMMA ProgressMoves ==
  ASSUME TypesInv, NEW c \in Clients,
         \/ UNCHANGED progress
         \/ finish_session(c) \/ increment_completed(c) \/ \E n \in Nat : start_session(c, n)
         \/ progress' = [k \in Clients |-> NoProgress]
  PROVE  progress' \in [Clients -> ProgressRecord]
<1>1. progress \in [Clients -> ProgressRecord] /\ NoProgress \in ProgressRecord /\ day \in 0 .. MaxDay
  BY InventoryBoundsAssumption DEF TypesInv, NoProgress, ProgressRecord
<1>3. \A n \in Nat : [status |-> "running", total |-> n, completed |-> 0, since |-> day] \in ProgressRecord
  BY <1>1 DEF ProgressRecord
<1>4. CASE finish_session(c) \/ increment_completed(c)
  BY <1>1, <1>4 DEF finish_session, increment_completed, ProgressRecord
<1>5. CASE \E n \in Nat : start_session(c, n)
  BY <1>1, <1>3, <1>5 DEF start_session
<1>6. QED
  BY <1>1, <1>4, <1>5

-----------------------------------------------------------------------------
(* What each action makes of the clients and of the sessions.              *)

\* Client c is where it was, and has what it had, but for its place.
Same(c) ==
  /\ client'[c].kind = client[c].kind /\ client'[c].todo = client[c].todo /\ client'[c].host = client[c].host
  /\ client[c].doubted => client'[c].doubted

Others(c) == client' \in [Clients -> ClientRecord] /\ \A k \in Clients \ {c} : Alike(k)

LEMMA PlaceMoves ==
  ASSUME TypesInv, NEW c \in Clients, NEW at \in {"checked", "counted", "pushed"},
         client' = [client EXCEPT ![c].at = at]
  PROVE  Others(c) /\ Same(c) /\ client'[c].at = at /\ client'[c].secret = client[c].secret
         /\ client'[c].saw = client[c].saw
<1>1. client[c] \in ClientRecord
  BY DEF TypesInv
<1> DEFINE r == [client[c] EXCEPT !.at = at]
<1>2. /\ r \in ClientRecord /\ r.at = at /\ r.kind = client[c].kind /\ r.todo = client[c].todo
      /\ r.host = client[c].host /\ r.doubted = client[c].doubted /\ r.secret = client[c].secret
      /\ r.saw = client[c].saw
  BY <1>1 DEF ClientRecord
<1>3. client' = [client EXCEPT ![c] = r]
  OBVIOUS
<1> HIDE DEF r
<1>4. QED
  BY <1>2, <1>3, ClientMoves DEF Others, Same

LEMMA FreeMoves ==
  ASSUME TypesInv, NEW c \in Clients, client' = [client EXCEPT ![c] = Free]
  PROVE  Others(c) /\ client'[c] = Free /\ client'[c].at = "free" /\ client'[c].kind = "none" /\ client'[c].todo = {}
BY FreeRecord, ClientMoves DEF Others

LEMMA PassedOverMoves ==
  ASSUME TypesInv, NEW c \in Clients, client' = [client EXCEPT ![c] = PassedOver(client[c])]
  PROVE  /\ Others(c) /\ client'[c].at = "next" /\ client'[c].kind = client[c].kind
         /\ client'[c].todo = client[c].todo
<1>1. client[c] \in ClientRecord
  BY DEF TypesInv
<1> DEFINE r == PassedOver(client[c])
<1>2. r \in ClientRecord /\ r.at = "next" /\ r.kind = client[c].kind /\ r.todo = client[c].todo
  BY <1>1, PassedOverRecord
<1> HIDE DEF r
<1>3. QED
  BY <1>2, ClientMoves DEF Others, r

LEMMA GatherMoves ==
  ASSUME TypesInv, NEW c \in Clients, ClientInv(c), gather_device_info(c)
  PROVE  /\ Others(c) /\ Same(c) /\ client'[c].at = "pushing" /\ client'[c].secret \in Keys
         /\ minted' \in Nat
<1>1. client[c] \in ClientRecord /\ minted \in Nat /\ client[c].at = "gathering"
  BY DEF TypesInv, gather_device_info
<1> DEFINE h == CHOOSE x \in client[c].host : TRUE
           name == IF Hostname[h] \in DOMAIN inventory THEN Hostname[h] \o <<h>> ELSE Hostname[h]
<1>2. h \in Hosts
  <2>1. client[c].host # {} /\ client[c].host \in Addresses
    BY <1>1 DEF ClientInv, On, ClientRecord
  <2>2. QED
    BY <2>1, AddressesAssumption
<1>3. name \in DeviceNames
  BY <1>2, HostnameAssumption DEF DeviceNames
<1> HIDE DEF name
<1>4. ASSUME NEW secret \in Keys,
             client' = [client EXCEPT ![c].at = "pushing", ![c].name = name, ![c].secret = secret]
      PROVE  Others(c) /\ Same(c) /\ client'[c].at = "pushing" /\ client'[c].secret \in Keys
  <2> DEFINE r == [client[c] EXCEPT !.at = "pushing", !.name = name, !.secret = secret]
  <2>1. /\ r \in ClientRecord /\ r.at = "pushing" /\ r.kind = client[c].kind /\ r.todo = client[c].todo
        /\ r.host = client[c].host /\ r.doubted = client[c].doubted /\ r.secret = secret
    BY <1>1, <1>3, <1>4, SecretIsKey DEF ClientRecord
  <2>2. client' = [client EXCEPT ![c] = r]
    BY <1>4
  <2> HIDE DEF r
  <2>3. QED
    BY <2>1, <2>2, <1>4, ClientMoves DEF Others, Same
<1>5. CASE client[c].edited # NoSecret
  <2> DEFINE secret == client[c].edited
  <2>1. secret \in Keys
    BY <1>1, <1>5, SecretIsKey DEF ClientRecord
  <2>2. client' = [client EXCEPT ![c].at = "pushing", ![c].name = name, ![c].secret = secret]
        /\ minted' = minted
    BY <1>5 DEF gather_device_info, name
  <2> HIDE DEF secret
  <2>3. Others(c) /\ Same(c) /\ client'[c].at = "pushing" /\ client'[c].secret \in Keys
    BY <1>4, <2>1, <2>2
  <2>4. minted' \in Nat
    BY <1>1, <2>2
  <2>5. QED
    BY <2>3, <2>4
<1>6. CASE client[c].edited = NoSecret
  <2> DEFINE secret == Generated(minted + 1)
  <2>1. secret \in Keys
    BY <1>1, SecretIsKey
  <2>2. client' = [client EXCEPT ![c].at = "pushing", ![c].name = name, ![c].secret = secret]
        /\ minted' = minted + 1
    BY <1>6 DEF gather_device_info, name
  <2> HIDE DEF secret
  <2>3. Others(c) /\ Same(c) /\ client'[c].at = "pushing" /\ client'[c].secret \in Keys
    BY <1>4, <2>1, <2>2
  <2>4. minted' \in Nat
    BY <1>1, <2>2
  <2>5. QED
    BY <2>3, <2>4
<1>7. QED
  BY <1>5, <1>6

\* What is entered on the way to a host.
LEMMA NextHostMoves ==
  ASSUME TypesInv, NEW c \in Clients, NextHost(c)
  PROVE  /\ Others(c) /\ client[c].at = "next" /\ client'[c].kind = client[c].kind
         /\ \E h \in client[c].todo :
              /\ client'[c].todo = client[c].todo \ {h} /\ h \in Hosts
              /\ IF _check_no_overlap({h})
                 THEN /\ client'[c].at = "gathering" /\ client'[c].host = {h} /\ UNCHANGED progress
                      /\ client'[c].doubted <=> OnHost({h}) \ {c} # {}
                      /\ \A k \in Clients \ {c} : k \in OnHost({h}) => client'[k].doubted
                 ELSE client'[c].at = "next" /\ increment_completed(c)
<1>1. client[c] \in ClientRecord /\ client[c].at = "next"
  BY DEF TypesInv, NextHost
<1>2. PICK h \in client[c].todo :
        IF _check_no_overlap({h})
        THEN /\ Crowding([client[c] EXCEPT !.at = "gathering", !.host = {h}, !.todo = client[c].todo \ {h}], c)
             /\ UNCHANGED progress
        ELSE client' = [client EXCEPT ![c].todo = client[c].todo \ {h}] /\ increment_completed(c)
  BY DEF NextHost
<1>3. h \in Hosts /\ {h} \in Addresses
  BY <1>1, AddressesAssumption DEF ClientRecord
<1>4. CASE _check_no_overlap({h})
  <2> DEFINE r == [client[c] EXCEPT !.at = "gathering", !.host = {h}, !.todo = client[c].todo \ {h}]
  <2>1. /\ r \in ClientRecord /\ r.at = "gathering" /\ r.kind = client[c].kind /\ r.todo = client[c].todo \ {h}
        /\ r.host = {h}
    BY <1>1, <1>3 DEF ClientRecord
  <2>2. Crowding(r, c) /\ UNCHANGED progress
    BY <1>2, <1>4
  <2> HIDE DEF r
  <2>3. /\ client' \in [Clients -> ClientRecord] /\ client'[c].at = "gathering" /\ client'[c].kind = client[c].kind
        /\ client'[c].todo = client[c].todo \ {h} /\ client'[c].host = {h}
        /\ client'[c].doubted <=> OnHost({h}) \ {c} # {}
        /\ \A k \in Clients \ {c} : Alike(k) /\ (k \in OnHost({h}) => client'[k].doubted)
    <3>1. /\ client' \in [Clients -> ClientRecord] /\ client'[c].at = r.at /\ client'[c].kind = r.kind
          /\ client'[c].todo = r.todo /\ client'[c].host = r.host
          /\ client'[c].doubted <=> OnHost(r.host) \ {c} # {}
          /\ \A k \in Clients \ {c} : Alike(k) /\ (k \in OnHost(r.host) => client'[k].doubted)
      BY <2>1, <2>2, CrowdingMoves
    <3>2. r.host = {h}
      BY <2>1
    <3>3. QED
      BY <2>1, <3>1, <3>2
  <2>4. QED
    BY <1>1, <1>3, <1>4, <2>2, <2>3 DEF Others
<1>5. CASE ~_check_no_overlap({h})
  <2> DEFINE r == [client[c] EXCEPT !.todo = client[c].todo \ {h}]
  <2>1. r \in ClientRecord /\ r.at = "next" /\ r.kind = client[c].kind /\ r.todo = client[c].todo \ {h}
    BY <1>1 DEF ClientRecord
  <2>2. client' = [client EXCEPT ![c] = r] /\ increment_completed(c)
    BY <1>2, <1>5
  <2> HIDE DEF r
  <2>3. QED
    BY <1>1, <1>3, <1>5, <2>1, <2>2, ClientMoves DEF Others
<1>6. QED
  BY <1>4, <1>5


LEMMA SeenIsSight ==
  ASSUME TypesInv
  PROVE  /\ Seen \in Sights /\ Seen[1] = DOMAIN inventory /\ Seen[2] = licence.text
         /\ Seen[3] = licence.grandfathered /\ Seen[4] = Max({seenDay, day}) /\ Seen[5] = machine
<1>1. seenDay \in Nat /\ day \in Nat /\ seenDay \in 0 .. MaxDay /\ day \in 0 .. MaxDay
  BY InventoryBoundsAssumption DEF TypesInv
<1>2. Max({seenDay, day}) \in {seenDay, day}
  BY <1>1, MaxOfTwo
<1>3. QED
  BY <1>1, <1>2 DEF TypesInv, Seen, Sights

\* One that runs into others, and the others into it.
Entered(c) ==
  /\ Others(c) /\ client'[c].at \in On
  /\ client'[c].doubted <=> OnHost(client'[c].host) \ {c} # {}
  /\ \A k \in Clients \ {c} : k \in OnHost(client'[c].host) => client'[k].doubted

LEMMA QuickAddMoves ==
  ASSUME TypesInv, NEW c \in Clients, quick_add_device(c)
  PROVE  /\ Entered(c) /\ client[c].at = "free" /\ check_can_add_device
         /\ client'[c].at = "checked" /\ client'[c].kind = "add" /\ client'[c].todo = {} /\ client'[c].saw = Seen
         /\ client'[c].secret \in Keys /\ client'[c].host # {}
<1>1. PICK address \in Addresses, name \in Names, key \in Typed :
        /\ check_can_add_device
        /\ Crowding([Free EXCEPT !.at = "checked", !.kind = "add", !.host = address, !.name = name,
                                 !.secret = TypedKey(key), !.saw = Seen], c)
  BY DEF quick_add_device
<1> DEFINE r == [Free EXCEPT !.at = "checked", !.kind = "add", !.host = address, !.name = name,
                             !.secret = TypedKey(key), !.saw = Seen]
<1>2. TypedKey(key) \in Keys /\ TypedKey(key) \in Secrets
  BY HostsAssumption, SecretIsKey
<1>3. Seen \in Sights
  BY SeenIsSight
<1>4. name \in DeviceNames /\ address # {}
  BY HostsAssumption DEF DeviceNames
<1>5. /\ r \in ClientRecord /\ r.at = "checked" /\ r.kind = "add" /\ r.todo = {} /\ r.host = address
      /\ r.secret = TypedKey(key) /\ r.saw = Seen
  BY <1>2, <1>3, <1>4, FreeRecord DEF ClientRecord, Free
<1>6. Crowding(r, c) /\ check_can_add_device
  BY <1>1
<1> HIDE DEF r
<1>7. /\ client' \in [Clients -> ClientRecord]
      /\ client'[c].at = r.at /\ client'[c].kind = r.kind /\ client'[c].todo = r.todo
      /\ client'[c].host = r.host /\ client'[c].secret = r.secret /\ client'[c].saw = r.saw
      /\ client'[c].doubted <=> OnHost(r.host) \ {c} # {}
      /\ \A k \in Clients \ {c} : Alike(k) /\ (k \in OnHost(r.host) => client'[k].doubted)
  BY <1>5, <1>6, CrowdingMoves
<1>8. client[c].at = "free"
  BY DEF quick_add_device
<1>9. OnHost(client'[c].host) = OnHost(r.host)
  BY <1>7
<1>10. Entered(c)
  BY <1>5, <1>7, <1>9 DEF Entered, Others, On
<1>11. QED
  BY <1>2, <1>4, <1>5, <1>6, <1>7, <1>8, <1>10

LEMMA PushMoves ==
  ASSUME TypesInv, NEW c \in Clients, apply_aaa_to_device(c)
  PROVE  /\ Entered(c) /\ client[c].at = "free"
         /\ client'[c].at = "pushing" /\ client'[c].kind = "push" /\ client'[c].todo = {}
         /\ client'[c].secret \in Keys /\ client'[c].host # {}
         /\ start_session(c, 1)
         /\ \E n \in DOMAIN inventory :
              /\ client'[c].host = {Min(inventory[n].address)} /\ inventory[n].address \in Addresses
              /\ inventory' = [inventory EXCEPT ![n].secret = client'[c].secret]
              /\ settled' = IF client'[c].secret = inventory[n].secret THEN settled
                            ELSE settled \ inventory[n].address
<1>1. PICK n \in DOMAIN inventory : \E edited \in {NoSecret} \cup { TypedKey(key) : key \in Typed } :
       LET secret == IF edited = NoSecret THEN inventory[n].secret ELSE edited
           host == {Min(inventory[n].address)} IN
       /\ inventory' = [inventory EXCEPT ![n].secret = secret]
       /\ Crowding([Free EXCEPT !.at = "pushing", !.kind = "push", !.host = host, !.secret = secret], c)
       /\ settled' = IF secret = inventory[n].secret THEN settled ELSE settled \ inventory[n].address
  BY DEF apply_aaa_to_device
<1>2. PICK edited \in {NoSecret} \cup { TypedKey(key) : key \in Typed } :
       LET secret == IF edited = NoSecret THEN inventory[n].secret ELSE edited
           host == {Min(inventory[n].address)} IN
       /\ inventory' = [inventory EXCEPT ![n].secret = secret]
       /\ Crowding([Free EXCEPT !.at = "pushing", !.kind = "push", !.host = host, !.secret = secret], c)
       /\ settled' = IF secret = inventory[n].secret THEN settled ELSE settled \ inventory[n].address
  BY <1>1
<1> DEFINE secret == IF edited = NoSecret THEN inventory[n].secret ELSE edited
           host == {Min(inventory[n].address)}
           r == [Free EXCEPT !.at = "pushing", !.kind = "push", !.host = host, !.secret = secret]
<1>3. inventory[n].address \in Addresses /\ inventory[n].secret \in Keys
  BY DEF TypesInv
<1>4. secret \in Keys /\ secret \in Secrets
  BY <1>3, HostsAssumption, SecretIsKey
<1>5. host \in Addresses /\ host # {}
  BY <1>3, MinOfAddress
<1>6. /\ inventory' = [inventory EXCEPT ![n].secret = secret] /\ Crowding(r, c)
      /\ settled' = IF secret = inventory[n].secret THEN settled ELSE settled \ inventory[n].address
  BY <1>2
<1> HIDE DEF secret
<1>7. host = {Min(inventory[n].address)}
  OBVIOUS
<1> HIDE DEF host
<1>8. /\ r \in ClientRecord /\ r.at = "pushing" /\ r.kind = "push" /\ r.todo = {} /\ r.host = host
      /\ r.secret = secret
  BY <1>4, <1>5, FreeRecord DEF ClientRecord, Free
<1> HIDE DEF r
<1>9. /\ client' \in [Clients -> ClientRecord]
      /\ client'[c].at = r.at /\ client'[c].kind = r.kind /\ client'[c].todo = r.todo
      /\ client'[c].host = r.host /\ client'[c].secret = r.secret
      /\ client'[c].doubted <=> OnHost(r.host) \ {c} # {}
      /\ \A k \in Clients \ {c} : Alike(k) /\ (k \in OnHost(r.host) => client'[k].doubted)
  BY <1>6, <1>8, CrowdingMoves
<1>10. client[c].at = "free" /\ start_session(c, 1)
  BY DEF apply_aaa_to_device
<1>11. OnHost(client'[c].host) = OnHost(r.host)
  BY <1>9
<1>12. Entered(c)
  BY <1>8, <1>9, <1>11 DEF Entered, Others, On
<1>13. client'[c].secret = secret /\ client'[c].host = host
  BY <1>8, <1>9
<1>14. \E m \in DOMAIN inventory :
              /\ client'[c].host = {Min(inventory[m].address)} /\ inventory[m].address \in Addresses
              /\ inventory' = [inventory EXCEPT ![m].secret = client'[c].secret]
              /\ settled' = IF client'[c].secret = inventory[m].secret THEN settled
                            ELSE settled \ inventory[m].address
  BY <1>3, <1>6, <1>7, <1>13
<1>15. QED
  BY <1>4, <1>5, <1>8, <1>9, <1>10, <1>12, <1>13, <1>14

LEMMA ApplyAllMoves ==
  ASSUME TypesInv, NEW c \in Clients, apply_aaa_all(c)
  PROVE  /\ Others(c) /\ client[c].at = "free" /\ client'[c].at = "next" /\ client'[c].kind = "scan"
         /\ start_session(c, Cardinality(client'[c].todo))
<1>1. PICK hosts \in (SUBSET Hosts) \ {{}} : \E edited \in {NoSecret} \cup { TypedKey(key) : key \in Typed } :
        /\ client' = [client EXCEPT ![c] = [Free EXCEPT !.at = "next", !.kind = "scan", !.todo = hosts, !.edited = edited]]
        /\ start_session(c, Cardinality(hosts))
  BY DEF apply_aaa_all
<1>2. PICK edited \in {NoSecret} \cup { TypedKey(key) : key \in Typed } :
        /\ client' = [client EXCEPT ![c] = [Free EXCEPT !.at = "next", !.kind = "scan", !.todo = hosts, !.edited = edited]]
        /\ start_session(c, Cardinality(hosts))
  BY <1>1
<1> DEFINE r == [Free EXCEPT !.at = "next", !.kind = "scan", !.todo = hosts, !.edited = edited]
<1>3. edited \in {NoSecret} \cup ({"typed"} \X Nat)
  BY HostsAssumption, SecretIsKey
<1>4. r \in ClientRecord /\ r.at = "next" /\ r.kind = "scan" /\ r.todo = hosts
  BY <1>3, FreeRecord DEF ClientRecord, Free
<1>5. client' = [client EXCEPT ![c] = r] /\ start_session(c, Cardinality(hosts))
  BY <1>2
<1> HIDE DEF r
<1>6. Others(c) /\ client'[c] = r
  BY <1>4, <1>5, ClientMoves DEF Others
<1>7. client[c].at = "free"
  BY DEF apply_aaa_all
<1>8. QED
  BY <1>4, <1>5, <1>6, <1>7

LEMMA LimitMoves ==
  ASSUME TypesInv, NEW c \in Clients, LimitAfterPush(c), check_can_add_device
  PROVE  /\ Others(c) /\ Same(c) /\ client'[c].at = "checked" /\ client'[c].saw = Seen
         /\ client'[c].secret = client[c].secret
<1>1. client[c] \in ClientRecord /\ Seen \in Sights
  BY SeenIsSight DEF TypesInv
<1> DEFINE s == Seen
<1>2. client' = [client EXCEPT ![c].at = "checked", ![c].saw = s]
  BY DEF LimitAfterPush
<1>3. s \in Sights /\ s = Seen
  BY <1>1
<1> HIDE DEF s
<1> DEFINE r == [client[c] EXCEPT !.at = "checked", !.saw = s]
<1>4. /\ r \in ClientRecord /\ r.at = "checked" /\ r.kind = client[c].kind /\ r.todo = client[c].todo
      /\ r.host = client[c].host /\ r.doubted = client[c].doubted /\ r.secret = client[c].secret /\ r.saw = s
  BY <1>1, <1>3 DEF ClientRecord
<1>5. client' = [client EXCEPT ![c] = r]
  BY <1>2
<1> HIDE DEF r
<1>6. QED
  BY <1>3, <1>4, <1>5, ClientMoves DEF Others, Same


LEMMA GivesUpMoves ==
  ASSUME TypesInv, NEW c \in Clients, GivesUp(c)
  PROVE  /\ Others(c) /\ client'[c] = Free /\ client'[c].at = "free" /\ client'[c].kind = "none"
         /\ client'[c].todo = {} /\ progress' \in [Clients -> ProgressRecord]
         /\ IF client[c].kind = "scan" THEN finish_session(c) ELSE UNCHANGED progress
<1>1. client' = [client EXCEPT ![c] = Free]
      /\ IF client[c].kind = "scan" THEN finish_session(c) ELSE UNCHANGED progress
  BY DEF GivesUp
<1>2. QED
  BY <1>1, FreeMoves, ProgressMoves

LEMMA CommitMoves ==
  ASSUME TypesInv, NEW c \in Clients, ClientInv(c), CommitDevice(c), client[c].name \notin DOMAIN inventory
  PROVE  /\ Others(c) /\ client[c].at = "counted" /\ client[c].kind \in {"add", "scan"}
         /\ client'[c].at = IF client[c].kind = "scan" THEN "next" ELSE "free"
         /\ client'[c].kind = IF client[c].kind = "scan" THEN "scan" ELSE "none"
         /\ client'[c].todo = IF client[c].kind = "scan" THEN client[c].todo ELSE {}
         /\ IF client[c].kind = "scan" THEN increment_completed(c) ELSE UNCHANGED progress
         /\ progress' \in [Clients -> ProgressRecord]
<1>1. client[c].at = "counted" /\ client[c].kind \in {"add", "scan"}
  BY DEF CommitDevice, ClientInv
<1>2. IF client[c].kind = "scan"
      THEN client' = [client EXCEPT ![c] = PassedOver(client[c])] /\ increment_completed(c)
      ELSE client' = [client EXCEPT ![c] = Free] /\ UNCHANGED progress
  BY DEF CommitDevice
<1>3. CASE client[c].kind = "scan"
  BY <1>1, <1>2, <1>3, PassedOverMoves, ProgressMoves
<1>4. CASE client[c].kind # "scan"
  BY <1>1, <1>2, <1>4, FreeMoves, ProgressMoves
<1>5. QED
  BY <1>3, <1>4

\* The row that is added.
LEMMA CommitRows ==
  ASSUME TypesInv, NEW c \in Clients, ClientInv(c), CommitDevice(c), client[c].name \notin DOMAIN inventory
  PROVE  /\ DOMAIN inventory' = DOMAIN inventory \cup {client[c].name}
         /\ inventory'[client[c].name].address = client[c].host /\ inventory'[client[c].name].secret = client[c].secret
         /\ \A n \in DOMAIN inventory : inventory'[n] = inventory[n]
         /\ DOMAIN inventory' \subseteq DeviceNames /\ IsFiniteSet(DOMAIN inventory')
         /\ inventory' \in [DOMAIN inventory' -> [address : Addresses, secret : Keys]]
         /\ Cardinality(DOMAIN inventory') = Count + 1
<1> DEFINE name == client[c].name
           row == [address |-> client[c].host, secret |-> client[c].secret]
<1>1. client[c] \in ClientRecord /\ client[c].at = "counted"
  BY DEF TypesInv, CommitDevice
<1>2. row \in [address : Addresses, secret : Keys] /\ name \in DeviceNames
  BY <1>1 DEF ClientInv, On, Keyed, ClientRecord
<1>3. inventory' = [n \in DOMAIN inventory \cup {name} |-> IF n = name THEN row ELSE inventory[n]]
  BY DEF CommitDevice
<1>4. row.address = client[c].host /\ row.secret = client[c].secret
  OBVIOUS
<1> HIDE DEF name, row
<1>5. name \notin DOMAIN inventory
  BY DEF name
<1>6. IsFiniteSet(DOMAIN inventory \cup {name}) /\ Cardinality(DOMAIN inventory \cup {name}) = Cardinality(DOMAIN inventory) + 1
  BY <1>5, FS_AddElement DEF TypesInv
<1>7. DOMAIN inventory' = DOMAIN inventory \cup {name} /\ inventory'[name] = row
      /\ \A n \in DOMAIN inventory : inventory'[n] = inventory[n]
  BY <1>3, <1>5
<1>8. inventory' \in [DOMAIN inventory' -> [address : Addresses, secret : Keys]]
  BY <1>2, <1>3, <1>5, <1>7 DEF TypesInv
<1>9. DOMAIN inventory' \subseteq DeviceNames
  BY <1>2, <1>7 DEF TypesInv
<1>10. QED
  BY <1>4, <1>6, <1>7, <1>8, <1>9 DEF Count, name

LEMMA LookedMoves ==
  ASSUME TypesInv, Looked
  PROVE  /\ licence' \in [text : Licences \cup {Nobody}, highest : 0 .. MaxDay, grandfathered : Nat]
         /\ seenDay' \in 0 .. MaxDay
         /\ licence'.text = licence.text /\ licence'.grandfathered = licence.grandfathered
         /\ seenDay <= licence.highest => seenDay' <= licence'.highest
<1>1. /\ licence \in [text : Licences \cup {Nobody}, highest : 0 .. MaxDay, grandfathered : Nat]
      /\ day \in 0 .. MaxDay /\ seenDay \in 0 .. MaxDay /\ licence.highest \in 0 .. MaxDay
      /\ day \in Nat /\ seenDay \in Nat /\ licence.highest \in Nat
  BY InventoryBoundsAssumption DEF TypesInv
<1> DEFINE eff == _effective_now
<1>2. eff \in {day, licence.highest} /\ eff >= day /\ eff >= licence.highest
  BY <1>1, MaxOfTwo DEF _effective_now
<1>3. Max({seenDay, day}) \in {seenDay, day}
  BY <1>1, MaxOfTwo
<1>4. /\ licence' = [licence EXCEPT !.highest = IF licence.text = Nobody THEN licence.highest ELSE eff]
      /\ seenDay' = IF licence.text = Nobody THEN seenDay ELSE Max({seenDay, day})
  BY DEF Looked
<1> HIDE DEF eff
<1>5. eff \in 0 .. MaxDay
  BY <1>1, <1>2
<1>6. licence'.highest = IF licence.text = Nobody THEN licence.highest ELSE eff
  BY <1>1, <1>4
<1>7. /\ licence' \in [text : Licences \cup {Nobody}, highest : 0 .. MaxDay, grandfathered : Nat]
      /\ licence'.text = licence.text /\ licence'.grandfathered = licence.grandfathered
  BY <1>1, <1>4, <1>5
<1>8. seenDay' \in 0 .. MaxDay
  BY <1>1, <1>3, <1>4
<1>9. seenDay <= licence.highest => seenDay' <= licence'.highest
  BY <1>1, <1>2, <1>3, <1>4, <1>6
<1>10. QED
  BY <1>7, <1>8, <1>9

LEMMA ImportMoves ==
  ASSUME TypesInv, import_license
  PROVE  /\ licence' \in [text : Licences \cup {Nobody}, highest : 0 .. MaxDay, grandfathered : Nat]
         /\ seenDay' \in 0 .. MaxDay /\ held' \subseteq Licences
         /\ licence'.grandfathered = licence.grandfathered
         /\ licence'.text \in Licences /\ held' = held \cup {licence'.text}
         /\ seenDay <= licence.highest => seenDay' <= licence'.highest
<1>1. /\ licence \in [text : Licences \cup {Nobody}, highest : 0 .. MaxDay, grandfathered : Nat]
      /\ day \in 0 .. MaxDay /\ seenDay \in 0 .. MaxDay /\ licence.highest \in 0 .. MaxDay
      /\ day \in Nat /\ seenDay \in Nat /\ licence.highest \in Nat /\ held \subseteq Licences
  BY InventoryBoundsAssumption DEF TypesInv
<1> DEFINE eff == _effective_now
<1>2. eff \in {day, licence.highest} /\ eff >= day /\ eff >= licence.highest
  BY <1>1, MaxOfTwo DEF _effective_now
<1>3. Max({seenDay, day}) \in {seenDay, day}
  BY <1>1, MaxOfTwo
<1>4. seenDay' = Max({seenDay, day})
  BY DEF import_license
<1>5. PICK text \in Licences : licence' = [licence EXCEPT !.text = text, !.highest = eff] /\ held' = held \cup {text}
  BY DEF import_license
<1> HIDE DEF eff
<1>6. eff \in 0 .. MaxDay
  BY <1>1, <1>2
<1>7. licence'.highest = eff /\ licence'.text = text /\ licence'.grandfathered = licence.grandfathered
  BY <1>1, <1>5
<1>8. licence' \in [text : Licences \cup {Nobody}, highest : 0 .. MaxDay, grandfathered : Nat]
  BY <1>1, <1>5, <1>6
<1>9. seenDay' \in 0 .. MaxDay /\ (seenDay <= licence.highest => seenDay' <= licence'.highest)
  BY <1>1, <1>2, <1>3, <1>4, <1>7
<1>10. QED
  BY <1>1, <1>5, <1>7, <1>8, <1>9

LEMMA RemoveMoves ==
  ASSUME TypesInv, remove_license
  PROVE  /\ licence' \in [text : Licences \cup {Nobody}, highest : 0 .. MaxDay, grandfathered : Nat]
         /\ licence'.text = Nobody /\ licence'.highest = licence.highest
         /\ licence'.grandfathered \in {licence.grandfathered, Count}
<1>1. /\ licence \in [text : Licences \cup {Nobody}, highest : 0 .. MaxDay, grandfathered : Nat]
      /\ licence.grandfathered \in Nat /\ Count \in Nat
  BY FS_CardinalityType DEF TypesInv, Count
<1> DEFINE g == IF Count > COMMUNITY THEN Max({licence.grandfathered, Count}) ELSE licence.grandfathered
<1>2. g \in {licence.grandfathered, Count}
  BY <1>1, MaxOfTwo
<1>3. licence' = [licence EXCEPT !.text = Nobody, !.grandfathered = g]
  BY DEF remove_license
<1> HIDE DEF g
<1>4. QED
  BY <1>1, <1>2, <1>3


RowsTyped ==
  /\ DOMAIN inventory \subseteq DeviceNames /\ IsFiniteSet(DOMAIN inventory)
  /\ inventory \in [DOMAIN inventory -> [address : Addresses, secret : Keys]]

\* The row that is edited, perhaps under another name.
LEMMA UpdateMoves ==
  ASSUME TypesInv, update_device
  PROVE  /\ RowsTyped' /\ Cardinality(DOMAIN inventory') = Count
         /\ \E n \in DOMAIN inventory : \E name : \E address \in Addresses :
              /\ name \notin DOMAIN inventory \ {n} /\ ~Overlaps(address, DOMAIN inventory \ {n})
              /\ DOMAIN inventory' = (DOMAIN inventory \ {n}) \cup {name}
              /\ inventory'[name].address = address
              /\ \A m \in DOMAIN inventory \ {n} : inventory'[m] = inventory[m]
              /\ settled' = IF inventory'[name] = inventory[n] THEN settled
                            ELSE settled \ (address \cup inventory[n].address)
              /\ client' = IF inventory'[name] = inventory[n] THEN client
                           ELSE Crowded(address \cup inventory[n].address)
<1>1. PICK n \in DOMAIN inventory, name \in Names \cup DOMAIN inventory, address \in Addresses, key \in Typed, keep \in BOOLEAN :
       LET others == DOMAIN inventory \ {n}
           row == [address |-> address, secret |-> IF keep THEN inventory[n].secret ELSE TypedKey(key)] IN
       /\ name \notin others /\ ~Overlaps(address, others)
       /\ <<n, inventory[n]>> # <<name, row>>
       /\ inventory' = [m \in others \cup {name} |-> IF m = name THEN row ELSE inventory[m]]
       /\ settled' = IF row = inventory[n] THEN settled ELSE settled \ (address \cup inventory[n].address)
       /\ client' = IF row = inventory[n] THEN client ELSE Crowded(address \cup inventory[n].address)
  BY Zenon DEF update_device
<1> DEFINE others == DOMAIN inventory \ {n}
           row == [address |-> address, secret |-> IF keep THEN inventory[n].secret ELSE TypedKey(key)]
<1>2. row \in [address : Addresses, secret : Keys] /\ row.address = address
  BY HostsAssumption, SecretIsKey DEF TypesInv
<1>3. /\ name \notin others /\ ~Overlaps(address, others)
      /\ inventory' = [m \in others \cup {name} |-> IF m = name THEN row ELSE inventory[m]]
      /\ settled' = IF row = inventory[n] THEN settled ELSE settled \ (address \cup inventory[n].address)
      /\ client' = IF row = inventory[n] THEN client ELSE Crowded(address \cup inventory[n].address)
  BY <1>1
<1> HIDE DEF row
<1>4. /\ DOMAIN inventory' = others \cup {name} /\ inventory'[name] = row
      /\ \A m \in others : inventory'[m] = inventory[m]
  BY <1>3
<1>5. IsFiniteSet(others) /\ Cardinality(others) = Count - 1 /\ Count \in Nat
  BY FS_RemoveElement, FS_CardinalityType DEF TypesInv, Count
<1>6. IsFiniteSet(others \cup {name}) /\ Cardinality(others \cup {name}) = Cardinality(others) + 1
  BY <1>3, <1>5, FS_AddElement
<1>7. Cardinality(DOMAIN inventory') = Count
  BY <1>4, <1>5, <1>6
<1>8. RowsTyped'
  <2>1. inventory' \in [DOMAIN inventory' -> [address : Addresses, secret : Keys]]
    BY <1>2, <1>3, <1>4 DEF TypesInv
  <2>2. DOMAIN inventory' \subseteq DeviceNames
    BY <1>4 DEF TypesInv, DeviceNames
  <2>3. QED
    BY <1>4, <1>6, <2>1, <2>2 DEF RowsTyped
<1>9. /\ name \notin others /\ ~Overlaps(address, others)
      /\ DOMAIN inventory' = others \cup {name} /\ inventory'[name].address = address
      /\ \A m \in others : inventory'[m] = inventory[m]
      /\ settled' = IF inventory'[name] = inventory[n] THEN settled
                    ELSE settled \ (address \cup inventory[n].address)
      /\ client' = IF inventory'[name] = inventory[n] THEN client
                   ELSE Crowded(address \cup inventory[n].address)
  BY <1>2, <1>3, <1>4
<1>10. QED
  BY <1>7, <1>8, <1>9

LEMMA DeleteMoves ==
  ASSUME TypesInv, delete_device
  PROVE  /\ RowsTyped' /\ Cardinality(DOMAIN inventory') <= Count
         /\ \E n \in DOMAIN inventory :
              /\ DOMAIN inventory' = DOMAIN inventory \ {n}
              /\ \A m \in DOMAIN inventory' : inventory'[m] = inventory[m]
              /\ client' = Crowded(inventory[n].address)
<1>1. PICK n \in DOMAIN inventory : /\ inventory' = Restrict(inventory, DOMAIN inventory \ {n})
                                    /\ client' = Crowded(inventory[n].address)
  BY DEF delete_device
<1>2. inventory' = [m \in DOMAIN inventory \ {n} |-> inventory[m]]
  BY <1>1 DEF Restrict
<1>3. DOMAIN inventory' = DOMAIN inventory \ {n} /\ \A m \in DOMAIN inventory' : inventory'[m] = inventory[m]
  BY <1>2
<1>4. /\ IsFiniteSet(DOMAIN inventory \ {n}) /\ Cardinality(DOMAIN inventory \ {n}) = Count - 1 /\ Count \in Nat
  BY FS_RemoveElement, FS_CardinalityType DEF TypesInv, Count
<1>5. Cardinality(DOMAIN inventory') <= Count
  BY <1>3, <1>4
<1>6. RowsTyped'
  BY <1>2, <1>3, <1>4 DEF RowsTyped, TypesInv
<1>7. QED
  BY <1>1, <1>3, <1>5, <1>6

\* The secret that is stored before it is sent.
LEMMA PushRows ==
  ASSUME TypesInv, NEW n \in DOMAIN inventory, NEW secret \in Keys,
         inventory' = [inventory EXCEPT ![n].secret = secret]
  PROVE  /\ RowsTyped' /\ DOMAIN inventory' = DOMAIN inventory
         /\ inventory'[n].address = inventory[n].address /\ inventory'[n].secret = secret
         /\ \A m \in DOMAIN inventory \ {n} : inventory'[m] = inventory[m]
<1>1. inventory[n] \in [address : Addresses, secret : Keys]
  BY DEF TypesInv
<1> DEFINE row == [inventory[n] EXCEPT !.secret = secret]
<1>2. row \in [address : Addresses, secret : Keys] /\ row.address = inventory[n].address /\ row.secret = secret
  BY <1>1
<1>3. inventory' = [inventory EXCEPT ![n] = row]
  OBVIOUS
<1> HIDE DEF row
<1>4. DOMAIN inventory' = DOMAIN inventory /\ inventory'[n] = row
      /\ \A m \in DOMAIN inventory \ {n} : inventory'[m] = inventory[m]
  BY <1>3
<1>5. inventory' \in [DOMAIN inventory -> [address : Addresses, secret : Keys]]
  BY <1>2, <1>3 DEF TypesInv
<1>6. QED
  BY <1>2, <1>4, <1>5 DEF RowsTyped, TypesInv


\* The sessions that are started: the one that is, and those that are not forgotten.
LEMMA StartMoves ==
  ASSUME TypesInv, NEW c \in Clients, NEW total \in Nat, start_session(c, total)
  PROVE  /\ progress'[c].status = "running" /\ progress'[c].total = total /\ progress'[c].completed = 0
         /\ \A k \in Clients \ {c} : progress'[k] = progress[k] \/ progress'[k] = NoProgress
BY DEF start_session

LEMMA CountersMove ==
  ASSUME TypesInv, NEW c \in Clients
  PROVE  /\ \A k \in Clients \ {c} : finish_session(c) \/ increment_completed(c) => progress'[k] = progress[k]
         /\ finish_session(c) =>
              /\ progress'[c].status # "running" /\ progress'[c].completed = progress[c].completed
              /\ progress'[c].total = progress[c].total
         /\ increment_completed(c) =>
              /\ progress'[c].status = progress[c].status /\ progress'[c].total = progress[c].total
              /\ progress'[c].completed = IF progress[c].status = "running" THEN progress[c].completed + 1
                                          ELSE progress[c].completed
<1>1. progress \in [Clients -> ProgressRecord] /\ progress[c] \in ProgressRecord
  BY DEF TypesInv
<1>2. QED
  BY <1>1 DEF finish_session, increment_completed, ProgressRecord

EquipmentTakes(c) == equipment' = [h \in Hosts |-> IF h \in client[c].host THEN client[c].secret ELSE equipment[h]]

LEMMA EquipmentMoves ==
  ASSUME TypesInv, NEW c \in Clients, UNCHANGED equipment \/ EquipmentTakes(c)
  PROVE  equipment' \in [Hosts -> Secrets]
<1>1. client[c].secret \in Secrets /\ equipment \in [Hosts -> Secrets]
  BY DEF TypesInv, ClientRecord
<1>2. QED
  BY <1>1 DEF EquipmentTakes

LEMMA PushFailsMoves ==
  ASSUME TypesInv, NEW c \in Clients, ClientInv(c), PushFails(c)
  PROVE  /\ Others(c) /\ client[c].at \in {"gathering", "pushing"} /\ client'[c].at = "next"
         /\ client'[c].kind = client[c].kind /\ client'[c].kind \in {"scan", "push"}
         /\ client'[c].todo = client[c].todo
         /\ UNCHANGED equipment \/ EquipmentTakes(c)
         /\ increment_completed(c) /\ progress' \in [Clients -> ProgressRecord]
         /\ settled' = settled \ client[c].host
<1>1. /\ client[c].at \in {"gathering", "pushing"} /\ client' = [client EXCEPT ![c] = PassedOver(client[c])]
      /\ UNCHANGED equipment \/ EquipmentTakes(c)
      /\ increment_completed(c) /\ settled' = settled \ client[c].host
  BY DEF PushFails, EquipmentTakes
<1>2. client[c].kind \in {"scan", "push"}
  BY <1>1 DEF ClientInv
<1>3. QED
  BY <1>1, <1>2, PassedOverMoves, ProgressMoves

\* A push that is recorded as soon as it is made, and one that is not.
LEMMA ConfigMoves ==
  ASSUME TypesInv, NEW c \in Clients, ClientInv(c), apply_aaa_config(c)
  PROVE  /\ Others(c) /\ client[c].at = "pushing" /\ client[c].kind \in {"scan", "push"}
         /\ client'[c].kind = client[c].kind /\ client'[c].todo = client[c].todo
         /\ progress' \in [Clients -> ProgressRecord]
         /\ EquipmentTakes(c) \/ UNCHANGED equipment
         /\ \/ /\ client[c].kind = "scan" /\ Same(c) /\ client'[c].at = "pushed"
               /\ client'[c].secret = client[c].secret /\ UNCHANGED << progress, settled >>
               /\ ~client'[c].doubted => EquipmentTakes(c)
            \/ /\ client[c].kind = "push" /\ client'[c].at = "next" /\ increment_completed(c)
               /\ \/ settled' = settled \ client[c].host
                  \/ /\ settled' = settled \cup client[c].host
                     /\ EquipmentTakes(c) /\ ~client[c].doubted
                     /\ ~(Cardinality({ n \in DOMAIN inventory : Overlaps(client[c].host, {n}) }) > 1)
<1>1. client[c].at = "pushing"
  BY DEF apply_aaa_config
<1>2. client[c].kind \in {"scan", "push"}
  BY <1>1 DEF ClientInv
<1> DEFINE More == Cardinality({ n \in DOMAIN inventory : Overlaps(client[c].host, {n}) }) > 1
<1>3. PICK taken \in BOOLEAN :
        /\ equipment' = [h \in Hosts |-> IF taken /\ h \in client[c].host THEN client[c].secret ELSE equipment[h]]
        /\ IF client[c].kind = "scan"
           THEN /\ client' = [client EXCEPT ![c].at = "pushed", ![c].doubted = @ \/ ~taken]
                /\ UNCHANGED << progress, settled >>
           ELSE /\ client' = [client EXCEPT ![c] = PassedOver(client[c])] /\ increment_completed(c)
                /\ settled' = IF ~taken \/ client[c].doubted \/ More
                              THEN settled \ client[c].host ELSE settled \cup client[c].host
  BY DEF apply_aaa_config
<1> HIDE DEF More
<1>4. IF taken THEN EquipmentTakes(c) ELSE UNCHANGED equipment
  BY <1>3 DEF EquipmentTakes, TypesInv
<1>5. CASE client[c].kind = "scan"
  <2> DEFINE doubted == client[c].doubted \/ ~taken
             r == [client[c] EXCEPT !.at = "pushed", !.doubted = doubted]
  <2>1. client[c] \in ClientRecord /\ doubted \in BOOLEAN
    BY DEF TypesInv
  <2>2. /\ client' = [client EXCEPT ![c].at = "pushed", ![c].doubted = doubted]
        /\ UNCHANGED << progress, settled >>
    BY <1>3, <1>5
  <2>6. (client[c].doubted => doubted) /\ (~doubted => taken)
    OBVIOUS
  <2> HIDE DEF doubted
  <2>3. /\ r \in ClientRecord /\ r.at = "pushed" /\ r.kind = client[c].kind /\ r.todo = client[c].todo
        /\ r.host = client[c].host /\ r.doubted = doubted /\ r.secret = client[c].secret
    BY <2>1 DEF ClientRecord
  <2>4. client' = [client EXCEPT ![c] = r]
    BY <2>2
  <2> HIDE DEF r
  <2>5. Others(c) /\ Same(c) /\ client'[c].at = "pushed" /\ client'[c].secret = client[c].secret
        /\ client'[c].doubted = doubted /\ client'[c].kind = client[c].kind /\ client'[c].todo = client[c].todo
    BY <2>3, <2>4, <2>6, ClientMoves DEF Others, Same
  <2>7. QED
    BY <1>1, <1>2, <1>4, <1>5, <2>2, <2>5, <2>6, ProgressMoves
<1>6. CASE client[c].kind = "push"
  <2>1. /\ client' = [client EXCEPT ![c] = PassedOver(client[c])] /\ increment_completed(c)
        /\ settled' = IF ~taken \/ client[c].doubted \/ More
                      THEN settled \ client[c].host ELSE settled \cup client[c].host
    BY <1>3, <1>6
  <2>2. QED
    BY <1>1, <1>2, <1>4, <1>6, <2>1, PassedOverMoves, ProgressMoves DEF More
<1>7. QED
  BY <1>2, <1>5, <1>6

LEMMA CrowdedOthers ==
  ASSUME TypesInv, NEW host, client' = Crowded(host) \/ UNCHANGED client
  PROVE  client' \in [Clients -> ClientRecord] /\ \A k \in Clients : Alike(k)
<1>1. CASE client' = Crowded(host)
  BY <1>1, CrowdedMoves
<1>2. CASE UNCHANGED client
  BY <1>2 DEF TypesInv, Alike
<1>3. QED
  BY <1>1, <1>2


LEMMA TypesStep ==
  ASSUME TypesInv, \A c \in Clients : ClientInv(c), InventoryNext
  PROVE  TypesInv'
<1>1. ASSUME NEW c \in Clients, _enforce_device_licence(c) PROVE TypesInv'
  <2>1. UNCHANGED << inventory, equipment, licence, machine, day, minted, seenDay, held, overtaken, settled >>
    BY <1>1 DEF _enforce_device_licence
  <2>2. (client' = [client EXCEPT ![c].at = "counted"] /\ UNCHANGED progress) \/ GivesUp(c)
    BY <1>1 DEF _enforce_device_licence
  <2>3. client' \in [Clients -> ClientRecord] /\ progress' \in [Clients -> ProgressRecord]
    BY <2>2, PlaceMoves, GivesUpMoves, ProgressMoves DEF Others
  <2>4. QED
    BY <2>1, <2>3 DEF TypesInv
<1>2. ASSUME NEW c \in Clients, CommitDevice(c) PROVE TypesInv'
  <2>1. UNCHANGED << equipment, licence, machine, day, minted, seenDay, held >>
    BY <1>2 DEF CommitDevice
  <2>2. CASE client[c].name \in DOMAIN inventory
    <3>1. GivesUp(c) /\ UNCHANGED << inventory, overtaken, settled >>
      BY <1>2, <2>2 DEF CommitDevice
    <3>2. client' \in [Clients -> ClientRecord] /\ progress' \in [Clients -> ProgressRecord]
      BY <3>1, GivesUpMoves DEF Others
    <3>3. QED
      BY <2>1, <3>1, <3>2 DEF TypesInv
  <2>3. CASE client[c].name \notin DOMAIN inventory
    <3>1. /\ client' \in [Clients -> ClientRecord] /\ progress' \in [Clients -> ProgressRecord]
          /\ RowsTyped'
      BY <1>2, <2>3, CommitMoves, CommitRows DEF Others, RowsTyped
    <3>2. overtaken' \in {overtaken, overtaken + 1}
      BY <1>2, <2>3 DEF CommitDevice
    <3>3. settled' \in {settled \ client[c].host, settled \cup client[c].host}
      BY <1>2, <2>3 DEF CommitDevice
    <3>4. client[c].host \subseteq Hosts
      BY AddressesAssumption DEF TypesInv, ClientRecord
    <3>5. overtaken' \in Nat /\ settled' \subseteq Hosts
      BY <3>2, <3>3, <3>4 DEF TypesInv
    <3>6. QED
      BY <2>1, <3>1, <3>5 DEF TypesInv, RowsTyped
  <2>4. QED
    BY <2>2, <2>3
<1>3. ASSUME NEW c \in Clients, NextHost(c) PROVE TypesInv'
  <2>1. UNCHANGED << inventory, equipment, licence, machine, day, minted, seenDay, held, overtaken, settled >>
    BY <1>3 DEF NextHost
  <2>2. client' \in [Clients -> ClientRecord] /\ (UNCHANGED progress \/ increment_completed(c))
    BY <1>3, NextHostMoves DEF Others
  <2>3. progress' \in [Clients -> ProgressRecord]
    BY <2>2, ProgressMoves
  <2>4. QED
    BY <2>1, <2>2, <2>3 DEF TypesInv
<1>4. ASSUME NEW c \in Clients, gather_device_info(c) PROVE TypesInv'
  <2>1. UNCHANGED << inventory, equipment, licence, machine, day, progress, seenDay, held, overtaken, settled >>
    BY <1>4 DEF gather_device_info
  <2>2. client' \in [Clients -> ClientRecord] /\ minted' \in Nat
    BY <1>4, GatherMoves DEF Others
  <2>3. QED
    BY <2>1, <2>2 DEF TypesInv
<1>5. ASSUME NEW c \in Clients, apply_aaa_config(c) PROVE TypesInv'
  <2>1. UNCHANGED << inventory, licence, machine, day, minted, seenDay, held, overtaken >>
    BY <1>5 DEF apply_aaa_config
  <2>2. /\ client' \in [Clients -> ClientRecord] /\ progress' \in [Clients -> ProgressRecord]
        /\ UNCHANGED equipment \/ EquipmentTakes(c)
        /\ settled' \in {settled, settled \ client[c].host, settled \cup client[c].host}
    BY <1>5, ConfigMoves DEF Others
  <2>3. client[c].host \subseteq Hosts
    BY AddressesAssumption DEF TypesInv, ClientRecord
  <2>4. equipment' \in [Hosts -> Secrets] /\ settled' \subseteq Hosts
    BY <2>2, <2>3, EquipmentMoves DEF TypesInv
  <2>5. QED
    BY <2>1, <2>2, <2>4 DEF TypesInv
<1>6. ASSUME NEW c \in Clients, LimitAfterPush(c) PROVE TypesInv'
  <2>1. UNCHANGED << inventory, equipment, machine, day, minted, held, overtaken, settled >> /\ Looked
    BY <1>6 DEF LimitAfterPush
  <2>2. client' \in [Clients -> ClientRecord] /\ progress' \in [Clients -> ProgressRecord]
    <3>1. CASE check_can_add_device
      BY <1>6, <3>1, LimitMoves, ProgressMoves DEF LimitAfterPush, Others
    <3>2. CASE ~check_can_add_device
      <4>1. GivesUp(c)
        BY <1>6, <3>2 DEF LimitAfterPush
      <4>2. QED
        BY <4>1, GivesUpMoves DEF Others
    <3>3. QED
      BY <3>1, <3>2
  <2>3. QED
    BY <2>1, <2>2, LookedMoves DEF TypesInv
<1>7. ASSUME NEW c \in Clients, FinishSession(c) PROVE TypesInv'
  <2>1. UNCHANGED << inventory, equipment, licence, machine, day, minted, seenDay, held, overtaken, settled >>
        /\ client' = [client EXCEPT ![c] = Free] /\ finish_session(c)
    BY <1>7 DEF FinishSession
  <2>2. client' \in [Clients -> ClientRecord] /\ progress' \in [Clients -> ProgressRecord]
    BY <2>1, FreeMoves, ProgressMoves DEF Others
  <2>3. QED
    BY <2>1, <2>2 DEF TypesInv
<1>8. ASSUME NEW c \in Clients, PushFails(c) PROVE TypesInv'
  <2>1. UNCHANGED << inventory, licence, machine, day, minted, seenDay, held, overtaken >>
    BY <1>8 DEF PushFails
  <2>2. /\ client' \in [Clients -> ClientRecord] /\ progress' \in [Clients -> ProgressRecord]
        /\ UNCHANGED equipment \/ EquipmentTakes(c)
        /\ settled' = settled \ client[c].host
    BY <1>8, PushFailsMoves DEF Others
  <2>3. equipment' \in [Hosts -> Secrets] /\ settled' \subseteq Hosts
    BY <2>2, EquipmentMoves DEF TypesInv
  <2>4. QED
    BY <2>1, <2>2, <2>3 DEF TypesInv
<1>9. ASSUME NEW c \in Clients, create_device(c) PROVE TypesInv'
  BY <1>9 DEF create_device, TypesInv
<1>10. ASSUME NEW c \in Clients, quick_add_device(c) PROVE TypesInv'
  <2>1. UNCHANGED << inventory, equipment, machine, day, progress, minted, held, overtaken, settled >> /\ Looked
    BY <1>10 DEF quick_add_device
  <2>2. client' \in [Clients -> ClientRecord]
    BY <1>10, QuickAddMoves DEF Entered, Others
  <2>3. QED
    BY <2>1, <2>2, LookedMoves DEF TypesInv
<1>11. ASSUME NEW c \in Clients, apply_aaa_all(c) PROVE TypesInv'
  <2>1. UNCHANGED << inventory, equipment, licence, machine, day, minted, seenDay, held, overtaken, settled >>
    BY <1>11 DEF apply_aaa_all
  <2>2. client' \in [Clients -> ClientRecord] /\ start_session(c, Cardinality(client'[c].todo))
    BY <1>11, ApplyAllMoves DEF Others
  <2>3. Cardinality(client'[c].todo) \in Nat
    BY <2>2, HostsAssumption, FS_Subset, FS_CardinalityType DEF ClientRecord
  <2>4. progress' \in [Clients -> ProgressRecord]
    BY <2>2, <2>3, ProgressMoves
  <2>5. QED
    BY <2>1, <2>2, <2>4 DEF TypesInv
<1>12. ASSUME NEW c \in Clients, apply_aaa_to_device(c) PROVE TypesInv'
  <2>1. UNCHANGED << equipment, licence, machine, day, minted, seenDay, held, overtaken >>
    BY <1>12 DEF apply_aaa_to_device
  <2>2. PICK n \in DOMAIN inventory :
          /\ inventory' = [inventory EXCEPT ![n].secret = client'[c].secret]
          /\ settled' = IF client'[c].secret = inventory[n].secret THEN settled ELSE settled \ inventory[n].address
    BY <1>12, PushMoves
  <2>3. client' \in [Clients -> ClientRecord] /\ client'[c].secret \in Keys /\ start_session(c, 1)
    BY <1>12, PushMoves DEF Entered, Others
  <2> DEFINE secret == client'[c].secret
  <2>4. secret \in Keys /\ inventory' = [inventory EXCEPT ![n].secret = secret]
    BY <2>2, <2>3
  <2> HIDE DEF secret
  <2>5. RowsTyped'
    BY <2>4, PushRows
  <2>6. progress' \in [Clients -> ProgressRecord] /\ settled' \subseteq Hosts
    BY <2>2, <2>3, ProgressMoves DEF TypesInv
  <2>7. QED
    BY <2>1, <2>3, <2>5, <2>6 DEF TypesInv, RowsTyped
<1>13. CASE import_license
  BY <1>13, ImportMoves DEF import_license, TypesInv
<1>14. CASE remove_license
  BY <1>14, RemoveMoves DEF remove_license, TypesInv
<1>15. CASE license_status
  BY <1>15, LookedMoves DEF license_status, TypesInv
<1>16. CASE update_device
  <2>1. UNCHANGED << equipment, licence, machine, day, progress, minted, seenDay, held, overtaken >>
    BY <1>16 DEF update_device
  <2>2. RowsTyped'
    BY <1>16, UpdateMoves
  <2>3. /\ settled' \subseteq settled
        /\ \E host : client' = Crowded(host) \/ UNCHANGED client
    BY <1>16, UpdateMoves
  <2>4. client' \in [Clients -> ClientRecord]
    BY <2>3, CrowdedOthers
  <2>5. QED
    BY <2>1, <2>2, <2>3, <2>4 DEF TypesInv, RowsTyped
<1>17. CASE delete_device
  <2>1. UNCHANGED << equipment, licence, machine, day, progress, minted, seenDay, held, overtaken, settled >>
    BY <1>17 DEF delete_device
  <2>2. RowsTyped' /\ \E host : client' = Crowded(host)
    BY <1>17, DeleteMoves
  <2>3. client' \in [Clients -> ClientRecord]
    BY <2>2, CrowdedOthers
  <2>4. QED
    BY <2>1, <2>2, <2>3 DEF TypesInv, RowsTyped
<1>18. CASE SetClock
  BY <1>18 DEF SetClock, TypesInv
<1>19. CASE MachineChanges
  BY <1>19 DEF MachineChanges, TypesInv
<1>20. CASE PlatformStops
  <2>1. /\ UNCHANGED << inventory, equipment, licence, machine, day, minted, seenDay, held, overtaken >>
        /\ client' = [c \in Clients |-> Free] /\ progress' = [c \in Clients |-> NoProgress]
        /\ settled' \subseteq settled
    BY <1>20 DEF PlatformStops
  <2>2. client' \in [Clients -> ClientRecord] /\ progress' \in [Clients -> ProgressRecord]
    BY <2>1, FreeRecord, InventoryBoundsAssumption DEF NoProgress, ProgressRecord
  <2>3. QED
    BY <2>1, <2>2 DEF TypesInv
<1>21. QED
  BY <1>1, <1>2, <1>3, <1>4, <1>5, <1>6, <1>7, <1>8, <1>9, <1>10, <1>11, <1>12, <1>13, <1>14, <1>15, <1>16,
     <1>17, <1>18, <1>19, <1>20 DEF InventoryNext, InventoryWork


-----------------------------------------------------------------------------
(* What a client at each place is.                                         *)

LEMMA AlikeClient ==
  ASSUME TypesInv, NEW k \in Clients, ClientInv(k), Alike(k),
         progress'[k] = progress[k] \/ progress'[k].status # "running"
  PROVE  ClientInv(k)'
BY DEF ClientInv, Alike

\* The actions of one client leave the others alike, and their sessions as they were or forgotten.
LEMMA OthersClient ==
  ASSUME TypesInv, NEW c \in Clients, \A k \in Clients : ClientInv(k), Others(c),
         \A k \in Clients \ {c} : progress'[k] = progress[k] \/ progress'[k] = NoProgress
  PROVE  \A k \in Clients \ {c} : ClientInv(k)'
BY AlikeClient DEF Others, NoProgress

LEMMA SameClient ==
  ASSUME TypesInv, NEW c \in Clients, ClientInv(c), Same(c), UNCHANGED progress,
         \/ client[c].at = "checked" /\ client'[c].at = "counted" /\ client'[c].saw = client[c].saw
            /\ client'[c].secret = client[c].secret
         \/ client[c].at = "gathering" /\ client'[c].at = "pushing" /\ client'[c].secret \in Keys
         \/ client[c].at = "pushing" /\ client[c].kind = "scan" /\ client'[c].at = "pushed"
            /\ client'[c].secret = client[c].secret
         \/ client[c].at = "pushed" /\ client'[c].at = "checked" /\ client'[c].saw \in Sights
            /\ client'[c].secret = client[c].secret
  PROVE  ClientInv(c)'
BY DEF ClientInv, Same, On, Keyed

LEMMA RestClient ==
  ASSUME NEW c \in Clients,
         \/ client'[c].at = "free" /\ client'[c].kind = "none" /\ progress'[c].status # "running"
         \/ client'[c].at = "next" /\ client'[c].kind \in {"scan", "push"}
            /\ (client'[c].kind = "push" => client'[c].todo = {})
  PROVE  ClientInv(c)'
BY DEF ClientInv, On, Keyed

LEMMA ClientStep ==
  ASSUME TypesInv, \A c \in Clients : ClientInv(c), InventoryNext
  PROVE  \A c \in Clients : ClientInv(c)'
<1>1. ASSUME NEW c \in Clients, _enforce_device_licence(c) PROVE \A k \in Clients : ClientInv(k)'
  <2>1. client[c].at = "checked"
    BY <1>1 DEF _enforce_device_licence
  <2>2. CASE GivesUp(c)
    <3>1. Others(c) /\ client'[c].at = "free" /\ client'[c].kind = "none"
          /\ IF client[c].kind = "scan" THEN finish_session(c) ELSE UNCHANGED progress
      BY <2>2, GivesUpMoves
    <3>2. progress'[c].status # "running" /\ \A k \in Clients \ {c} : progress'[k] = progress[k]
      BY <2>1, <3>1, CountersMove DEF ClientInv
    <3>3. QED
      BY <3>1, <3>2, RestClient, OthersClient
  <2>3. CASE client' = [client EXCEPT ![c].at = "counted"] /\ UNCHANGED progress
    BY <2>1, <2>3, PlaceMoves, SameClient, OthersClient
  <2>4. QED
    BY <1>1, <2>2, <2>3 DEF _enforce_device_licence
<1>2. ASSUME NEW c \in Clients, CommitDevice(c) PROVE \A k \in Clients : ClientInv(k)'
  <2>1. client[c].at = "counted"
    BY <1>2 DEF CommitDevice
  <2>2. CASE client[c].name \in DOMAIN inventory
    <3>0. GivesUp(c)
      BY <1>2, <2>2 DEF CommitDevice
    <3>1. Others(c) /\ client'[c].at = "free" /\ client'[c].kind = "none"
          /\ IF client[c].kind = "scan" THEN finish_session(c) ELSE UNCHANGED progress
      BY <3>0, GivesUpMoves
    <3>2. progress'[c].status # "running" /\ \A k \in Clients \ {c} : progress'[k] = progress[k]
      BY <2>1, <3>1, CountersMove DEF ClientInv
    <3>3. QED
      BY <3>1, <3>2, RestClient, OthersClient
  <2>3. CASE client[c].name \notin DOMAIN inventory
    <3>1. /\ Others(c) /\ client[c].kind \in {"add", "scan"}
          /\ client'[c].at = IF client[c].kind = "scan" THEN "next" ELSE "free"
          /\ client'[c].kind = IF client[c].kind = "scan" THEN "scan" ELSE "none"
          /\ IF client[c].kind = "scan" THEN increment_completed(c) ELSE UNCHANGED progress
      BY <1>2, <2>3, CommitMoves
    <3>2. \A k \in Clients \ {c} : progress'[k] = progress[k]
      BY <3>1, CountersMove
    <3>3. ClientInv(c)'
      BY <3>1, RestClient DEF ClientInv
    <3>4. QED
      BY <3>1, <3>2, <3>3, OthersClient
  <2>4. QED
    BY <2>2, <2>3
<1>3. ASSUME NEW c \in Clients, NextHost(c) PROVE \A k \in Clients : ClientInv(k)'
  <2>1. Others(c) /\ client[c].at = "next" /\ client'[c].kind = client[c].kind /\ client[c].todo # {}
    BY <1>3, NextHostMoves
  <2>2. UNCHANGED progress \/ increment_completed(c)
    BY <1>3, NextHostMoves
  <2>3. \A k \in Clients \ {c} : progress'[k] = progress[k]
    BY <2>2, CountersMove
  <2>4. \/ client'[c].at = "next"
        \/ /\ client'[c].at = "gathering" /\ client'[c].host # {} /\ UNCHANGED progress
    BY <1>3, NextHostMoves
  <2>5. ClientInv(c)'
    <3>1. client[c].kind = "scan"
      BY <2>1 DEF ClientInv
    <3>2. QED
      BY <2>1, <2>4, <3>1 DEF ClientInv, On, Keyed
  <2>6. QED
    BY <2>1, <2>3, <2>5, OthersClient
<1>4. ASSUME NEW c \in Clients, gather_device_info(c) PROVE \A k \in Clients : ClientInv(k)'
  <2>1. client[c].at = "gathering" /\ UNCHANGED progress
    BY <1>4 DEF gather_device_info
  <2>2. QED
    BY <1>4, <2>1, GatherMoves, SameClient, OthersClient
<1>5. ASSUME NEW c \in Clients, apply_aaa_config(c) PROVE \A k \in Clients : ClientInv(k)'
  <2>1. Others(c) /\ client[c].at = "pushing" /\ client'[c].kind = client[c].kind
    BY <1>5, ConfigMoves
  <2>2. \/ /\ client[c].kind = "scan" /\ Same(c) /\ client'[c].at = "pushed"
           /\ client'[c].secret = client[c].secret /\ UNCHANGED progress
        \/ client[c].kind = "push" /\ client'[c].at = "next" /\ client'[c].todo = {} /\ increment_completed(c)
    BY <1>5, ConfigMoves DEF ClientInv
  <2>3. \A k \in Clients \ {c} : progress'[k] = progress[k]
    BY <2>2, CountersMove
  <2>4. ClientInv(c)'
    BY <2>1, <2>2, SameClient, RestClient
  <2>5. QED
    BY <2>1, <2>3, <2>4, OthersClient
<1>6. ASSUME NEW c \in Clients, LimitAfterPush(c) PROVE \A k \in Clients : ClientInv(k)'
  <2>1. client[c].at = "pushed"
    BY <1>6 DEF LimitAfterPush
  <2>2. CASE check_can_add_device
    BY <1>6, <2>1, <2>2, LimitMoves, SeenIsSight, SameClient, OthersClient DEF LimitAfterPush
  <2>3. CASE ~check_can_add_device
    <3>0. GivesUp(c)
      BY <1>6, <2>3 DEF LimitAfterPush
    <3>1. Others(c) /\ client'[c].at = "free" /\ client'[c].kind = "none"
          /\ IF client[c].kind = "scan" THEN finish_session(c) ELSE UNCHANGED progress
      BY <3>0, GivesUpMoves
    <3>2. progress'[c].status # "running" /\ \A k \in Clients \ {c} : progress'[k] = progress[k]
      BY <2>1, <3>1, CountersMove DEF ClientInv
    <3>3. QED
      BY <3>1, <3>2, RestClient, OthersClient
  <2>4. QED
    BY <2>2, <2>3
<1>7. ASSUME NEW c \in Clients, FinishSession(c) PROVE \A k \in Clients : ClientInv(k)'
  <2>1. client' = [client EXCEPT ![c] = Free] /\ finish_session(c)
    BY <1>7 DEF FinishSession
  <2>2. Others(c) /\ client'[c].at = "free" /\ client'[c].kind = "none"
    BY <2>1, FreeMoves
  <2>3. progress'[c].status # "running" /\ \A k \in Clients \ {c} : progress'[k] = progress[k]
    BY <2>1, CountersMove
  <2>4. QED
    BY <2>2, <2>3, RestClient, OthersClient
<1>8. ASSUME NEW c \in Clients, PushFails(c) PROVE \A k \in Clients : ClientInv(k)'
  <2>1. Others(c) /\ client'[c].at = "next" /\ client'[c].kind \in {"scan", "push"} /\ increment_completed(c)
        /\ (client'[c].kind = "push" => client'[c].todo = {})
    BY <1>8, PushFailsMoves DEF ClientInv
  <2>2. QED
    BY <2>1, CountersMove, RestClient, OthersClient
<1>9. ASSUME NEW c \in Clients, quick_add_device(c) PROVE \A k \in Clients : ClientInv(k)'
  <2>1. /\ Others(c) /\ client[c].at = "free" /\ client'[c].at = "checked" /\ client'[c].kind = "add"
        /\ client'[c].saw \in Sights /\ client'[c].secret \in Keys /\ client'[c].host # {}
        /\ UNCHANGED progress
    BY <1>9, QuickAddMoves, SeenIsSight DEF Entered, quick_add_device
  <2>2. ClientInv(c)'
    BY <2>1 DEF ClientInv, On, Keyed
  <2>3. QED
    BY <2>1, <2>2, OthersClient
<1>10. ASSUME NEW c \in Clients, apply_aaa_all(c) PROVE \A k \in Clients : ClientInv(k)'
  <2>1. Others(c) /\ client'[c].at = "next" /\ client'[c].kind = "scan"
    BY <1>10, ApplyAllMoves
  <2>2. \A k \in Clients \ {c} : progress'[k] = progress[k] \/ progress'[k] = NoProgress
    BY <1>10 DEF apply_aaa_all, start_session
  <2>3. QED
    BY <2>1, <2>2, RestClient, OthersClient
<1>11. ASSUME NEW c \in Clients, apply_aaa_to_device(c) PROVE \A k \in Clients : ClientInv(k)'
  <2>1. /\ Others(c) /\ client'[c].at = "pushing" /\ client'[c].kind = "push"
        /\ client'[c].secret \in Keys /\ client'[c].host # {} /\ client'[c].todo = {} /\ start_session(c, 1)
    BY <1>11, PushMoves DEF Entered
  <2>2. \A k \in Clients \ {c} : progress'[k] = progress[k] \/ progress'[k] = NoProgress
    BY <2>1, StartMoves
  <2>3. ClientInv(c)'
    BY <2>1 DEF ClientInv, On, Keyed
  <2>4. QED
    BY <2>1, <2>2, <2>3, OthersClient
<1>12. CASE update_device \/ delete_device
  <2>1. UNCHANGED progress
    BY <1>12 DEF update_device, delete_device
  <2>2. \E host : client' = Crowded(host) \/ UNCHANGED client
    BY <1>12, UpdateMoves, DeleteMoves
  <2>3. QED
    BY <2>1, <2>2, CrowdedOthers, AlikeClient
<1>13. CASE PlatformStops
  <2>1. client' = [c \in Clients |-> Free] /\ progress' = [c \in Clients |-> NoProgress]
    BY <1>13 DEF PlatformStops
  <2>2. \A c \in Clients : client'[c].at = "free" /\ client'[c].kind = "none" /\ progress'[c].status # "running"
    BY <2>1, FreeRecord DEF NoProgress
  <2>3. QED
    BY <2>2, RestClient
<1>14. ASSUME UNCHANGED << client, progress >> PROVE \A k \in Clients : ClientInv(k)'
  BY <1>14 DEF ClientInv
<1>15. QED
  BY <1>1, <1>2, <1>3, <1>4, <1>5, <1>6, <1>7, <1>8, <1>9, <1>10, <1>11, <1>12, <1>13, <1>14
     DEF InventoryNext, InventoryWork, create_device, import_license, remove_license, license_status, SetClock,
         MachineChanges


-----------------------------------------------------------------------------
(* A session counts no more than its work.                                 *)

LEMMA TodoCounted ==
  ASSUME TypesInv, NEW c \in Clients
  PROVE  /\ IsFiniteSet(client[c].todo) /\ Cardinality(client[c].todo) \in Nat
         /\ \A h \in client[c].todo : Cardinality(client[c].todo \ {h}) = Cardinality(client[c].todo) - 1
         /\ progress[c].completed \in Nat /\ progress[c].total \in Nat
<1>1. client[c].todo \subseteq Hosts /\ progress[c] \in ProgressRecord
  BY DEF TypesInv, ClientRecord
<1>2. IsFiniteSet(client[c].todo)
  BY <1>1, HostsAssumption, FS_Subset
<1>3. QED
  BY <1>1, <1>2, FS_CardinalityType, FS_RemoveElement DEF ProgressRecord

LEMMA OthersProgress ==
  ASSUME TypesInv, NEW c, \A k \in Clients : ProgressInv(k), \A k \in Clients \ {c} : Alike(k),
         \A k \in Clients \ {c} : progress'[k] = progress[k] \/ progress'[k] = NoProgress
  PROVE  \A k \in Clients \ {c} : ProgressInv(k)'
BY TodoCounted DEF Alike, NoProgress, ProgressInv

\* Whoever stays on the way, or whose session is over.
LEMMA SameProgress ==
  ASSUME TypesInv, NEW c \in Clients, ProgressInv(c), UNCHANGED progress, client'[c].todo = client[c].todo,
         client[c].at \in On
  PROVE  ProgressInv(c)'
BY TodoCounted DEF ProgressInv

LEMMA OverProgress ==
  ASSUME TypesInv, NEW c \in Clients, ProgressInv(c), ClientInv(c),
         IF client[c].kind = "scan" THEN finish_session(c) ELSE UNCHANGED progress,
         client[c].kind \in {"scan", "add"}
  PROVE  ProgressInv(c)' /\ \A k \in Clients \ {c} : progress'[k] = progress[k]
BY CountersMove DEF ProgressInv, ClientInv

\* What was done, or needed not be.
LEMMA StepProgress ==
  ASSUME TypesInv, NEW c \in Clients, ProgressInv(c), increment_completed(c), client'[c].at \notin On,
         \/ client[c].at \in On /\ client'[c].todo = client[c].todo
         \/ client[c].at \notin On /\ \E h \in client[c].todo : client'[c].todo = client[c].todo \ {h}
  PROVE  ProgressInv(c)' /\ \A k \in Clients \ {c} : progress'[k] = progress[k]
<1>1. /\ progress'[c].status = progress[c].status /\ progress'[c].total = progress[c].total
      /\ progress'[c].completed = IF progress[c].status = "running" THEN progress[c].completed + 1
                                  ELSE progress[c].completed
      /\ \A k \in Clients \ {c} : progress'[k] = progress[k]
  BY CountersMove
<1>2. /\ Cardinality(client[c].todo) \in Nat /\ progress[c].completed \in Nat /\ progress[c].total \in Nat
      /\ \A h \in client[c].todo : Cardinality(client[c].todo \ {h}) = Cardinality(client[c].todo) - 1
  BY TodoCounted
<1>3. Cardinality(client'[c].todo) + 1 <= Cardinality(client[c].todo) + (IF client[c].at \in On THEN 1 ELSE 0)
      /\ Cardinality(client'[c].todo) \in Nat
  <2>1. CASE client[c].at \in On /\ client'[c].todo = client[c].todo
    BY <1>2, <2>1
  <2>2. CASE client[c].at \notin On /\ \E h \in client[c].todo : client'[c].todo = client[c].todo \ {h}
    <3>1. PICK h \in client[c].todo : client'[c].todo = client[c].todo \ {h}
      BY <2>2
    <3>2. Cardinality(client'[c].todo) = Cardinality(client[c].todo) - 1
      BY <1>2, <3>1
    <3>3. Cardinality(client[c].todo) # 0
      BY <3>1, TodoCounted, FS_EmptySet
    <3>4. QED
      BY <1>2, <2>2, <3>2, <3>3
  <2>3. QED
    BY <2>1, <2>2
<1>4. QED
  BY <1>1, <1>2, <1>3 DEF ProgressInv

LEMMA ProgressStep ==
  ASSUME TypesInv, \A c \in Clients : ClientInv(c) /\ ProgressInv(c), InventoryNext
  PROVE  \A c \in Clients : ProgressInv(c)'
<1>1. ASSUME NEW c \in Clients, GivesUp(c), client[c].at \in {"pushed", "checked", "counted"}
      PROVE  \A k \in Clients : ProgressInv(k)'
  <2>1. client[c].kind \in {"scan", "add"}
    BY <1>1 DEF ClientInv
  <2>2. Others(c) /\ IF client[c].kind = "scan" THEN finish_session(c) ELSE UNCHANGED progress
    BY <1>1, GivesUpMoves
  <2>3. ProgressInv(c)' /\ \A k \in Clients \ {c} : progress'[k] = progress[k]
    BY <2>1, <2>2, OverProgress
  <2>4. QED
    BY <2>2, <2>3, OthersProgress DEF Others
<1>2. ASSUME NEW c \in Clients, Others(c), UNCHANGED progress, client'[c].todo = client[c].todo, client[c].at \in On
      PROVE  \A k \in Clients : ProgressInv(k)'
  BY <1>2, SameProgress, OthersProgress DEF Others
<1>3. ASSUME NEW c \in Clients, Others(c), increment_completed(c), client'[c].at \notin On,
             \/ client[c].at \in On /\ client'[c].todo = client[c].todo
             \/ client[c].at \notin On /\ \E h \in client[c].todo : client'[c].todo = client[c].todo \ {h}
      PROVE  \A k \in Clients : ProgressInv(k)'
  BY <1>3, StepProgress, OthersProgress DEF Others
<1>4. ASSUME NEW c \in Clients, _enforce_device_licence(c) PROVE \A k \in Clients : ProgressInv(k)'
  <2>1. client[c].at = "checked" /\ client[c].at \in On
    BY <1>4 DEF _enforce_device_licence, On
  <2>2. CASE client' = [client EXCEPT ![c].at = "counted"] /\ UNCHANGED progress
    BY <2>1, <2>2, <1>2, PlaceMoves DEF Same
  <2>3. QED
    BY <1>1, <1>4, <2>1, <2>2 DEF _enforce_device_licence
<1>5. ASSUME NEW c \in Clients, CommitDevice(c) PROVE \A k \in Clients : ProgressInv(k)'
  <2>1. client[c].at = "counted" /\ client[c].at \in On
    BY <1>5 DEF CommitDevice, On
  <2>2. CASE client[c].name \in DOMAIN inventory
    BY <1>1, <1>5, <2>1, <2>2 DEF CommitDevice
  <2>3. CASE client[c].name \notin DOMAIN inventory
    <3>1. /\ Others(c) /\ client[c].kind \in {"add", "scan"}
          /\ client'[c].at = IF client[c].kind = "scan" THEN "next" ELSE "free"
          /\ client'[c].todo = IF client[c].kind = "scan" THEN client[c].todo ELSE {}
          /\ IF client[c].kind = "scan" THEN increment_completed(c) ELSE UNCHANGED progress
      BY <1>5, <2>3, CommitMoves
    <3>2. CASE client[c].kind = "scan"
      BY <1>3, <2>1, <3>1, <3>2 DEF On
    <3>3. CASE client[c].kind = "add"
      <4>1. UNCHANGED progress
        BY <3>1, <3>3
      <4>2. ProgressInv(c)'
        BY <3>3, <4>1 DEF ClientInv, ProgressInv
      <4>3. QED
        BY <3>1, <4>1, <4>2, OthersProgress DEF Others
    <3>4. QED
      BY <3>1, <3>2, <3>3
  <2>4. QED
    BY <2>2, <2>3
<1>6. ASSUME NEW c \in Clients, NextHost(c) PROVE \A k \in Clients : ProgressInv(k)'
  <2>1. Others(c) /\ client[c].at = "next" /\ client[c].at \notin On
    BY <1>6, NextHostMoves DEF On
  <2>2. PICK h \in client[c].todo :
          /\ client'[c].todo = client[c].todo \ {h}
          /\ IF _check_no_overlap({h})
             THEN client'[c].at = "gathering" /\ UNCHANGED progress
             ELSE client'[c].at = "next" /\ increment_completed(c)
    BY <1>6, NextHostMoves
  <2>3. CASE _check_no_overlap({h})
    <3>1. client'[c].at \in On /\ UNCHANGED progress
      BY <2>2, <2>3 DEF On
    <3>2. Cardinality(client'[c].todo) = Cardinality(client[c].todo) - 1
      BY <2>2, TodoCounted
    <3>3. ProgressInv(c)'
      BY <2>1, <3>1, <3>2, TodoCounted DEF ProgressInv
    <3>4. QED
      BY <2>1, <3>1, <3>3, OthersProgress DEF Others
  <2>4. CASE ~_check_no_overlap({h})
    <3>1. client'[c].at \notin On /\ increment_completed(c)
      BY <2>2, <2>4 DEF On
    <3>2. QED
      BY <1>3, <2>1, <2>2, <3>1
  <2>5. QED
    BY <2>3, <2>4
<1>7. ASSUME NEW c \in Clients, gather_device_info(c) PROVE \A k \in Clients : ProgressInv(k)'
  BY <1>2, <1>7, GatherMoves DEF gather_device_info, Same, On
<1>8. ASSUME NEW c \in Clients, apply_aaa_config(c) PROVE \A k \in Clients : ProgressInv(k)'
  <2>1. /\ Others(c) /\ client[c].at \in On /\ client'[c].todo = client[c].todo
        /\ \/ UNCHANGED progress
           \/ client'[c].at \notin On /\ increment_completed(c)
    BY <1>8, ConfigMoves DEF On
  <2>2. QED
    BY <1>2, <1>3, <2>1
<1>9. ASSUME NEW c \in Clients, LimitAfterPush(c) PROVE \A k \in Clients : ProgressInv(k)'
  <2>1. client[c].at = "pushed" /\ client[c].at \in On
    BY <1>9 DEF LimitAfterPush, On
  <2>2. CASE check_can_add_device
    BY <1>2, <1>9, <2>1, <2>2, LimitMoves DEF LimitAfterPush, Same
  <2>3. CASE ~check_can_add_device
    BY <1>1, <1>9, <2>1, <2>3 DEF LimitAfterPush
  <2>4. QED
    BY <2>2, <2>3
<1>10. ASSUME NEW c \in Clients, FinishSession(c) PROVE \A k \in Clients : ProgressInv(k)'
  <2>1. client' = [client EXCEPT ![c] = Free] /\ finish_session(c)
    BY <1>10 DEF FinishSession
  <2>2. Others(c)
    BY <2>1, FreeMoves
  <2>3. ProgressInv(c)' /\ \A k \in Clients \ {c} : progress'[k] = progress[k]
    BY <2>1, CountersMove DEF ProgressInv
  <2>4. QED
    BY <2>2, <2>3, OthersProgress DEF Others
<1>11. ASSUME NEW c \in Clients, PushFails(c) PROVE \A k \in Clients : ProgressInv(k)'
  BY <1>3, <1>11, PushFailsMoves DEF On
<1>12. ASSUME NEW c \in Clients, quick_add_device(c) PROVE \A k \in Clients : ProgressInv(k)'
  <2>1. Others(c) /\ client[c].at = "free" /\ UNCHANGED progress
    BY <1>12, QuickAddMoves DEF Entered, quick_add_device
  <2>2. ProgressInv(c)'
    BY <2>1 DEF ProgressInv, ClientInv
  <2>3. QED
    BY <2>1, <2>2, OthersProgress DEF Others
<1>13. ASSUME NEW c \in Clients, apply_aaa_all(c) PROVE \A k \in Clients : ProgressInv(k)'
  <2>1. Others(c) /\ client'[c].at \notin On /\ start_session(c, Cardinality(client'[c].todo))
    BY <1>13, ApplyAllMoves DEF On
  <2>2. Cardinality(client'[c].todo) \in Nat
    BY <2>1, HostsAssumption, FS_Subset, FS_CardinalityType DEF Others, ClientRecord
  <2>3. /\ progress'[c].total = Cardinality(client'[c].todo) /\ progress'[c].completed = 0
        /\ \A k \in Clients \ {c} : progress'[k] = progress[k] \/ progress'[k] = NoProgress
    BY <2>1, <2>2, StartMoves
  <2>4. ProgressInv(c)'
    BY <2>1, <2>2, <2>3 DEF ProgressInv
  <2>5. QED
    BY <2>1, <2>3, <2>4, OthersProgress DEF Others
<1>14. ASSUME NEW c \in Clients, apply_aaa_to_device(c) PROVE \A k \in Clients : ProgressInv(k)'
  <2>1. Others(c) /\ client'[c].todo = {} /\ start_session(c, 1)
    BY <1>14, PushMoves DEF Entered
  <2>2. /\ progress'[c].total = 1 /\ progress'[c].completed = 0
        /\ \A k \in Clients \ {c} : progress'[k] = progress[k] \/ progress'[k] = NoProgress
    BY <2>1, StartMoves
  <2>3. ProgressInv(c)'
    BY <2>1, <2>2, FS_EmptySet DEF ProgressInv
  <2>4. QED
    BY <2>1, <2>2, <2>3, OthersProgress DEF Others
<1>15. CASE update_device \/ delete_device
  <2>1. UNCHANGED progress
    BY <1>15 DEF update_device, delete_device
  <2>2. \A k \in Clients : Alike(k)
    BY <1>15, UpdateMoves, DeleteMoves, CrowdedOthers
  <2>3. QED
    BY <2>1, <2>2 DEF Alike, ProgressInv
<1>16. CASE PlatformStops
  <2>1. client' = [c \in Clients |-> Free] /\ progress' = [c \in Clients |-> NoProgress]
    BY <1>16 DEF PlatformStops
  <2>2. QED
    BY <2>1 DEF NoProgress, ProgressInv
<1>17. ASSUME UNCHANGED << client, progress >> PROVE \A k \in Clients : ProgressInv(k)'
  BY <1>17 DEF ProgressInv
<1>18. QED
  BY <1>4, <1>5, <1>6, <1>7, <1>8, <1>9, <1>10, <1>11, <1>12, <1>13, <1>14, <1>15, <1>16, <1>17
     DEF InventoryNext, InventoryWork, create_device, import_license, remove_license, license_status, SetClock,
         MachineChanges


-----------------------------------------------------------------------------
(* The limit.                                                              *)

LEMMA LimitsAreNumbers ==
  ASSUME NEW had, had \subseteq Licences, ~NoLimit(had)
  PROVE  Limits(had) \subseteq Nat
BY SignedAssumption, InventoryBoundsAssumption DEF Limits, NoLimit

\* Room for devices is not lost when licences are added, or others are overtaken.
LEMMA RoomGrows ==
  ASSUME NEW had, NEW more, had \subseteq more, more \subseteq Licences,
         NEW late \in Nat, NEW later \in Nat, late <= later, NEW n \in Nat, NEW m \in Nat, m <= n,
         RoomFor(n, had, late)
  PROVE  RoomFor(m, more, later)
<1>1. CASE NoLimit(more)
  BY <1>1 DEF RoomFor
<1>2. CASE ~NoLimit(more)
  <2>1. ~NoLimit(had) /\ Limits(had) \subseteq Limits(more)
    BY <1>2 DEF NoLimit, Limits
  <2>2. PICK x \in Limits(had) : n <= x + late
    BY <2>1 DEF RoomFor
  <2>3. x \in Nat /\ x \in Limits(more)
    BY <2>1, <2>2, LimitsAreNumbers
  <2>4. m <= x + later
    BY <2>2, <2>3
  <2>5. QED
    BY <2>3, <2>4 DEF RoomFor
<1>3. QED
  BY <1>1, <1>2

\* One more than was counted, for the one that got ahead.
LEMMA RoomForOneMore ==
  ASSUME NEW had, had \subseteq Licences, NEW late \in Nat, NEW n \in Nat, RoomFor(n, had, late)
  PROVE  RoomFor(n + 1, had, late + 1)
<1>1. CASE NoLimit(had)
  BY <1>1 DEF RoomFor
<1>2. CASE ~NoLimit(had)
  <2>1. PICK x \in Limits(had) : n <= x + late
    BY <1>2 DEF RoomFor
  <2>2. x \in Nat
    BY <1>2, LimitsAreNumbers
  <2>3. QED
    BY <2>1, <2>2 DEF RoomFor
<1>3. QED
  BY <1>1, <1>2

\* The limits that are asked for are of a licence that was installed.
LEMMA LimitsInForce ==
  ASSUME TypesInv, LimitInv
  PROVE  /\ current_limit \in Limits(held) /\ licence_limit_for_connection \in Limits(held)
         /\ current_limit \in Nat \cup {Unlimited}
<1>1. licence.text # Nobody => licence.text \in held
  BY DEF LimitInv
<1>2. held \subseteq Licences
  BY DEF TypesInv
<1>3. QED
  BY <1>1, <1>2, SignedAssumption, InventoryBoundsAssumption DEF current_limit, licence_limit_for_connection, Limits

LEMMA RoomWithin ==
  ASSUME TypesInv, LimitInv, NEW limit \in Limits(held), Within(limit, Count + 1)
  PROVE  RoomFor(Count + 1, held, overtaken)
<1>1. Count \in Nat /\ licence.grandfathered \in Nat /\ overtaken \in Nat /\ held \subseteq Licences
  BY FS_CardinalityType DEF TypesInv, Count
<1>2. CASE limit = Unlimited
  <2>1. NoLimit(held)
    BY <1>2, TermsAssumption, InventoryBoundsAssumption DEF Limits, NoLimit
  <2>2. QED
    BY <2>1 DEF RoomFor
<1>3. CASE NoLimit(held)
  BY <1>3 DEF RoomFor
<1>4. CASE limit # Unlimited /\ ~NoLimit(held)
  <2>1. limit \in Nat
    BY <1>1, <1>4, LimitsAreNumbers
  <2>2. Count + 1 <= limit \/ Count + 1 <= licence.grandfathered
    <3>1. Count + 1 <= Max({limit, licence.grandfathered})
      BY <1>4 DEF Within
    <3>2. Max({limit, licence.grandfathered}) \in {limit, licence.grandfathered}
      BY <1>1, <2>1, MaxOfTwo
    <3>3. QED
      BY <3>1, <3>2
  <2>3. CASE Count + 1 <= limit
    <3>1. Count + 1 <= limit + overtaken
      BY <1>1, <2>1, <2>3
    <3>2. QED
      BY <3>1 DEF RoomFor
  <2>4. CASE Count + 1 <= licence.grandfathered
    <3>1. RoomFor(licence.grandfathered, held, overtaken)
      BY DEF LimitInv
    <3>2. QED
      BY <1>1, <2>4, <3>1, RoomGrows
  <2>5. QED
    BY <2>2, <2>3, <2>4
<1>5. QED
  BY <1>2, <1>3, <1>4

\* An insertion is under way with what it was allowed on, or is allowed now.
Lawful(c) == client'[c].at \in {"checked", "counted"} =>
  \/ client[c].at \in {"checked", "counted"} /\ client'[c].saw = client[c].saw
  \/ check_can_add_device /\ client'[c].saw = Seen

LEMMA SawStep ==
  ASSUME TypesInv, \A c \in Clients : ClientInv(c), InventoryNext
  PROVE  \A c \in Clients : Lawful(c)
<1>1. ASSUME NEW c \in Clients, Others(c), Lawful(c) PROVE \A k \in Clients : Lawful(k)
  BY <1>1 DEF Others, Alike, Lawful
<1>2. ASSUME NEW c \in Clients, _enforce_device_licence(c) PROVE \A k \in Clients : Lawful(k)
  <2>1. client[c].at = "checked"
    BY <1>2 DEF _enforce_device_licence
  <2>2. CASE client' = [client EXCEPT ![c].at = "counted"]
    BY <1>1, <2>1, <2>2, PlaceMoves DEF Lawful
  <2>3. CASE GivesUp(c)
    BY <1>1, <2>3, GivesUpMoves DEF Lawful
  <2>4. QED
    BY <1>2, <2>2, <2>3 DEF _enforce_device_licence
<1>3. ASSUME NEW c \in Clients, CommitDevice(c) PROVE \A k \in Clients : Lawful(k)
  <2>1. CASE client[c].name \in DOMAIN inventory
    <3>1. GivesUp(c)
      BY <1>3, <2>1 DEF CommitDevice
    <3>2. QED
      BY <1>1, <3>1, GivesUpMoves DEF Lawful
  <2>2. CASE client[c].name \notin DOMAIN inventory
    <3>1. Others(c) /\ client'[c].at = IF client[c].kind = "scan" THEN "next" ELSE "free"
      BY <1>3, <2>2, CommitMoves
    <3>2. QED
      BY <1>1, <3>1 DEF Lawful
  <2>3. QED
    BY <2>1, <2>2
<1>4. ASSUME NEW c \in Clients, NextHost(c) PROVE \A k \in Clients : Lawful(k)
  <2>1. Others(c) /\ client'[c].at \in {"gathering", "next"}
    BY <1>4, NextHostMoves
  <2>2. QED
    BY <1>1, <2>1 DEF Lawful
<1>5. ASSUME NEW c \in Clients, gather_device_info(c) PROVE \A k \in Clients : Lawful(k)
  BY <1>1, <1>5, GatherMoves DEF Lawful
<1>6. ASSUME NEW c \in Clients, apply_aaa_config(c) PROVE \A k \in Clients : Lawful(k)
  <2>1. Others(c) /\ client'[c].at \in {"pushed", "next"}
    BY <1>6, ConfigMoves
  <2>2. QED
    BY <1>1, <2>1 DEF Lawful
<1>7. ASSUME NEW c \in Clients, LimitAfterPush(c) PROVE \A k \in Clients : Lawful(k)
  <2>1. CASE check_can_add_device
    <3>1. Others(c) /\ client'[c].saw = Seen
      BY <1>7, <2>1, LimitMoves
    <3>2. QED
      BY <1>1, <2>1, <3>1 DEF Lawful
  <2>2. CASE ~check_can_add_device
    <3>1. GivesUp(c)
      BY <1>7, <2>2 DEF LimitAfterPush
    <3>2. QED
      BY <1>1, <3>1, GivesUpMoves DEF Lawful
  <2>3. QED
    BY <2>1, <2>2
<1>8. ASSUME NEW c \in Clients, FinishSession(c) PROVE \A k \in Clients : Lawful(k)
  BY <1>1, <1>8, FreeMoves DEF FinishSession, Lawful
<1>9. ASSUME NEW c \in Clients, PushFails(c) PROVE \A k \in Clients : Lawful(k)
  BY <1>1, <1>9, PushFailsMoves DEF Lawful
<1>10. ASSUME NEW c \in Clients, quick_add_device(c) PROVE \A k \in Clients : Lawful(k)
  <2>1. Others(c) /\ check_can_add_device /\ client'[c].saw = Seen
    BY <1>10, QuickAddMoves DEF Entered
  <2>2. QED
    BY <1>1, <2>1 DEF Lawful
<1>11. ASSUME NEW c \in Clients, apply_aaa_all(c) PROVE \A k \in Clients : Lawful(k)
  BY <1>1, <1>11, ApplyAllMoves DEF Lawful
<1>12. ASSUME NEW c \in Clients, apply_aaa_to_device(c) PROVE \A k \in Clients : Lawful(k)
  BY <1>1, <1>12, PushMoves DEF Entered, Lawful
<1>13. CASE update_device \/ delete_device
  BY <1>13, UpdateMoves, DeleteMoves, CrowdedOthers DEF Alike, Lawful
<1>14. CASE PlatformStops
  BY <1>14, FreeRecord DEF PlatformStops, Lawful
<1>15. ASSUME UNCHANGED client PROVE \A k \in Clients : Lawful(k)
  BY <1>15 DEF Lawful
<1>16. QED
  BY <1>2, <1>3, <1>4, <1>5, <1>6, <1>7, <1>8, <1>9, <1>10, <1>11, <1>12, <1>13, <1>14, <1>15
     DEF InventoryNext, InventoryWork, create_device, import_license, remove_license, license_status, SetClock,
         MachineChanges


Commits(c) ==
  /\ client[c].at = "counted" /\ UNCHANGED << held, licence, seenDay, machine >>
  /\ Cardinality(DOMAIN inventory') = Count + 1
  /\ overtaken' = IF client[c].saw = Seen THEN overtaken ELSE overtaken + 1

LEMMA RowsStep ==
  ASSUME TypesInv, \A c \in Clients : ClientInv(c), InventoryNext
  PROVE  \/ /\ UNCHANGED << held, overtaken >> /\ Cardinality(DOMAIN inventory') <= Count
            /\ licence'.text \in {licence.text, Nobody}
            /\ licence'.grandfathered \in {licence.grandfathered, Count}
         \/ /\ UNCHANGED << overtaken, inventory >> /\ held' = held \cup {licence'.text} /\ licence'.text \in Licences
            /\ licence'.grandfathered = licence.grandfathered
         \/ \E c \in Clients : Commits(c)
<1> DEFINE Quiet == /\ UNCHANGED << held, overtaken >> /\ Cardinality(DOMAIN inventory') <= Count
                    /\ licence'.text \in {licence.text, Nobody}
                    /\ licence'.grandfathered \in {licence.grandfathered, Count}
           Import == /\ UNCHANGED << overtaken, inventory >> /\ held' = held \cup {licence'.text}
                     /\ licence'.text \in Licences /\ licence'.grandfathered = licence.grandfathered
<1>1. Count \in Nat
  BY FS_CardinalityType DEF TypesInv, Count
<1>2. ASSUME UNCHANGED << held, overtaken, inventory, licence >> PROVE Quiet
  BY <1>1, <1>2 DEF Count
<1>3. ASSUME NEW c \in Clients, CommitDevice(c) PROVE Quiet \/ Commits(c)
  <2>1. client[c].at = "counted" /\ UNCHANGED << held, licence, seenDay, machine >>
    BY <1>3 DEF CommitDevice
  <2>2. CASE client[c].name \in DOMAIN inventory
    <3>1. UNCHANGED << held, overtaken, inventory, licence >>
      BY <1>3, <2>1, <2>2 DEF CommitDevice
    <3>2. QED
      BY <1>2, <3>1
  <2>3. CASE client[c].name \notin DOMAIN inventory
    <3>1. overtaken' = IF client[c].saw = Seen THEN overtaken ELSE overtaken + 1
      BY <1>3, <2>3 DEF CommitDevice
    <3>2. Cardinality(DOMAIN inventory') = Count + 1
      BY <1>3, <2>3, CommitRows
    <3>3. QED
      BY <2>1, <3>1, <3>2 DEF Commits
  <2>4. QED
    BY <2>2, <2>3
<1>4. ASSUME NEW c \in Clients, LimitAfterPush(c) \/ quick_add_device(c) PROVE Quiet
  <2>1. UNCHANGED << held, overtaken, inventory >> /\ Looked
    BY <1>4 DEF LimitAfterPush, quick_add_device
  <2>2. QED
    BY <1>1, <2>1, LookedMoves DEF Count
<1>5. CASE license_status
  <2>1. UNCHANGED << held, overtaken, inventory >> /\ Looked
    BY <1>5 DEF license_status
  <2>2. Quiet
    BY <1>1, <2>1, LookedMoves DEF Count
  <2>3. QED
    BY <2>2
<1>6. ASSUME NEW c \in Clients, apply_aaa_to_device(c) PROVE Quiet
  <2>1. UNCHANGED << held, overtaken, licence >> /\ DOMAIN inventory' = DOMAIN inventory
    <3>1. \E n \in DOMAIN inventory : \E s : inventory' = [inventory EXCEPT ![n].secret = s]
      BY <1>6, PushMoves
    <3>2. DOMAIN inventory' = DOMAIN inventory
      BY <3>1
    <3>3. QED
      BY <1>6, <3>2 DEF apply_aaa_to_device
  <2>2. QED
    BY <1>1, <2>1 DEF Count
<1>7. CASE import_license
  <2>1. Import
    BY <1>7, ImportMoves DEF import_license
  <2>2. QED
    BY <2>1
<1>8. CASE remove_license
  <2>1. UNCHANGED << held, overtaken, inventory >>
    BY <1>8 DEF remove_license
  <2>2. Quiet
    BY <1>1, <1>8, <2>1, RemoveMoves DEF Count
  <2>3. QED
    BY <2>2
<1>9. CASE update_device \/ delete_device
  <2>1. UNCHANGED << held, overtaken, licence >>
    BY <1>9 DEF update_device, delete_device
  <2>2. Cardinality(DOMAIN inventory') <= Count
    BY <1>1, <1>9, UpdateMoves, DeleteMoves
  <2>3. QED
    BY <2>1, <2>2
<1>10. ASSUME NEW c \in Clients,
              \/ _enforce_device_licence(c) \/ NextHost(c) \/ gather_device_info(c) \/ apply_aaa_config(c)
              \/ FinishSession(c) \/ PushFails(c) \/ create_device(c) \/ apply_aaa_all(c)
       PROVE  Quiet
  <2>1. UNCHANGED << held, overtaken, inventory, licence >>
    BY <1>10 DEF _enforce_device_licence, NextHost, gather_device_info, apply_aaa_config, FinishSession, PushFails,
                 create_device, apply_aaa_all
  <2>2. QED
    BY <1>2, <2>1
<1>11. CASE SetClock \/ MachineChanges \/ PlatformStops
  <2>1. UNCHANGED << held, overtaken, inventory, licence >>
    BY <1>11 DEF SetClock, MachineChanges, PlatformStops
  <2>2. QED
    BY <1>2, <2>1
<1> HIDE DEF Quiet, Import
<1>12. Quiet \/ Import \/ \E c \in Clients : Commits(c)
  <2>1. CASE \E c \in Clients : InventoryWork(c) \/ PushFails(c) \/ create_device(c) \/ quick_add_device(c)
                                \/ apply_aaa_all(c) \/ apply_aaa_to_device(c)
    BY <1>3, <1>4, <1>6, <1>10, <2>1 DEF InventoryWork
  <2>2. CASE import_license \/ remove_license \/ license_status \/ update_device \/ delete_device
             \/ SetClock \/ MachineChanges \/ PlatformStops
    BY <1>5, <1>7, <1>8, <1>9, <1>11, <2>2 DEF Quiet, Import
  <2>3. QED
    BY <2>1, <2>2 DEF InventoryNext
<1>13. QED
  BY <1>12 DEF Quiet, Import

LEMMA LimitStep ==
  ASSUME TypesInv, TypesInv', \A c \in Clients : ClientInv(c), LimitInv, InventoryNext
  PROVE  LimitInv'
<1>1. /\ Count \in Nat /\ licence.grandfathered \in Nat /\ overtaken \in Nat /\ held \subseteq Licences
      /\ overtaken' \in Nat /\ held' \subseteq Licences /\ Count' \in Nat
  BY FS_CardinalityType DEF TypesInv, Count
<1>2. held \subseteq held' /\ overtaken <= overtaken'
  BY <1>1, RowsStep DEF Commits
<1>3. ASSUME NEW c \in Clients, client'[c].at \in {"checked", "counted"}
      PROVE  IsFiniteSet(client'[c].saw[1]) /\ RoomFor(Cardinality(client'[c].saw[1]) + 1, held', overtaken')
  <2>1. IsFiniteSet(client'[c].saw[1]) /\ RoomFor(Cardinality(client'[c].saw[1]) + 1, held, overtaken)
    <3>1. CASE client[c].at \in {"checked", "counted"} /\ client'[c].saw = client[c].saw
      BY <3>1 DEF LimitInv
    <3>2. CASE check_can_add_device /\ client'[c].saw = Seen
      <4>1. RoomFor(Count + 1, held, overtaken)
        BY <3>2, LimitsInForce, RoomWithin DEF check_can_add_device
      <4>2. client'[c].saw[1] = DOMAIN inventory
        BY <3>2, SeenIsSight
      <4>3. QED
        BY <4>1, <4>2 DEF Count, TypesInv
    <3>3. QED
      BY <1>3, <3>1, <3>2, SawStep DEF Lawful
  <2>2. Cardinality(client'[c].saw[1]) + 1 \in Nat
    BY <2>1, FS_CardinalityType
  <2>3. QED
    BY <1>1, <1>2, <2>1, <2>2, RoomGrows
<1>4. RoomFor(Count, held, overtaken) /\ RoomFor(licence.grandfathered, held, overtaken)
  BY DEF LimitInv
<1>5. RoomFor(Count, held', overtaken') /\ RoomFor(licence.grandfathered, held', overtaken')
  BY <1>1, <1>2, <1>4, RoomGrows
<1>6. RoomFor(Count', held', overtaken')
  <2>1. CASE Count' <= Count
    BY <1>1, <1>2, <1>4, <2>1, RoomGrows
  <2>2. ASSUME NEW c \in Clients, Commits(c) PROVE RoomFor(Count', held', overtaken')
    <3>1. held' = held /\ Count' = Count + 1
      BY <2>2 DEF Commits, Count
    <3>2. CASE client[c].saw = Seen
      <4>1. client[c].saw[1] = DOMAIN inventory
        BY <3>2, SeenIsSight
      <4>2. RoomFor(Count + 1, held, overtaken)
        BY <2>2, <4>1 DEF LimitInv, Commits, Count
      <4>3. QED
        BY <2>2, <3>1, <3>2, <4>2 DEF Commits
    <3>3. CASE client[c].saw # Seen
      BY <1>1, <1>4, <2>2, <3>1, <3>3, RoomForOneMore DEF Commits
    <3>4. QED
      BY <3>2, <3>3
  <2>3. QED
    BY <1>1, <2>1, <2>2, RowsStep DEF Count
<1>7. RoomFor(licence'.grandfathered, held', overtaken')
  <2>1. licence'.grandfathered \in {licence.grandfathered, Count}
    BY RowsStep DEF Commits
  <2>2. QED
    BY <1>5, <2>1
<1>8. licence'.text \in held' \cup {Nobody}
  <2>1. licence.text \in held \cup {Nobody}
    BY DEF LimitInv
  <2>2. QED
    BY <2>1, RowsStep DEF Commits
<1>9. NoLimit(held') \/ \E m \in Limits(held') : \A x \in Limits(held') : x <= m
  <2>1. CASE held' = held
    BY <2>1 DEF LimitInv
  <2>2. CASE \E l \in Licences : held' = held \cup {l}
    <3>1. PICK l \in Licences : held' = held \cup {l}
      BY <2>2
    <3>2. CASE NoLimit(held')
      BY <3>2
    <3>3. CASE ~NoLimit(held')
      <4>1. ~NoLimit(held) /\ Limits(held') = Limits(held) \cup {Terms[l].limit}
        BY <3>1, <3>3 DEF NoLimit, Limits
      <4>2. PICK m \in Limits(held) : \A x \in Limits(held) : x <= m
        BY <4>1 DEF LimitInv
      <4>3. Limits(held') \subseteq Nat
        BY <1>1, <3>3, LimitsAreNumbers
      <4>4. m \in Nat /\ Terms[l].limit \in Nat /\ Limits(held) \subseteq Nat
        BY <4>1, <4>2, <4>3
      <4> DEFINE most == IF m <= Terms[l].limit THEN Terms[l].limit ELSE m
      <4>5. most \in Limits(held') /\ \A x \in Limits(held') : x <= most
        BY <4>1, <4>2, <4>4
      <4>6. QED
        BY <4>5
    <3>4. QED
      BY <3>2, <3>3
  <2>3. QED
    BY <2>1, <2>2, RowsStep DEF Commits
<1>10. QED
  BY <1>3, <1>6, <1>7, <1>8, <1>9 DEF LimitInv


-----------------------------------------------------------------------------
(* The licence.                                                            *)

LEMMA PermitsSeen ==
  ASSUME TypesInv, seenDay <= licence.highest, check_can_add_device
  PROVE  Permits(Seen)
<1>1. /\ Seen[1] = DOMAIN inventory /\ Seen[2] = licence.text
      /\ Seen[3] = licence.grandfathered /\ Seen[4] = Max({seenDay, day}) /\ Seen[5] = machine
  BY SeenIsSight
<1>2. /\ seenDay \in Nat /\ day \in Nat /\ licence.highest \in Nat /\ Count \in Nat
      /\ licence.grandfathered \in Nat /\ licence.text \in Licences \cup {Nobody}
  BY InventoryBoundsAssumption, FS_CardinalityType DEF TypesInv, Count
<1>3. CASE current_limit = COMMUNITY
  <2>1. Count + 1 <= Max({COMMUNITY, licence.grandfathered})
    BY <1>3, TermsAssumption, InventoryBoundsAssumption DEF check_can_add_device, Within
  <2>2. Max({COMMUNITY, licence.grandfathered}) \in Nat
    BY <1>2, InventoryBoundsAssumption, MaxOfTwo
  <2>3. Cardinality(Seen[1]) < Max({COMMUNITY, Seen[3]})
    BY <1>1, <1>2, <2>1, <2>2 DEF Count
  <2>4. QED
    BY <2>3 DEF Permits
<1>4. CASE current_limit # COMMUNITY
  <2>1. /\ licence.text # Nobody /\ verify(licence.text, _effective_now)
        /\ check_binding(Terms[licence.text].machine)
    BY <1>4 DEF current_limit
  <2>2. _effective_now \in Nat /\ _effective_now >= day /\ _effective_now >= licence.highest
    BY <1>2, MaxOfTwo DEF _effective_now
  <2>3. Max({seenDay, day}) \in {seenDay, day}
    BY <1>2, MaxOfTwo
  <2>4. Terms[licence.text].signed /\ _effective_now <= Terms[licence.text].until
    BY <2>1 DEF verify
  <2>5. Terms[licence.text].until \in Nat
    BY <1>2, <2>1, SignedAssumption
  <2>6. Max({seenDay, day}) <= Terms[licence.text].until
    BY <1>2, <2>2, <2>3, <2>4, <2>5
  <2>7. Binds(Terms[licence.text].machine, machine)
    BY <2>1 DEF check_binding, Binds
  <2> DEFINE limit == Terms[licence.text].limit
  <2>8. current_limit = limit /\ limit \in Nat \cup {Unlimited} /\ Unlimited \notin Nat
    BY <1>2, <2>1, SignedAssumption, TermsAssumption DEF current_limit
  <2>9. CASE limit = Unlimited \/ Count < limit
    <3>1. RoomUnder(licence.text, Count)
      BY <2>9 DEF RoomUnder
    <3>2. RoomUnder(Seen[2], Cardinality(Seen[1]))
      BY <1>1, <3>1 DEF Count
    <3>3. QED
      BY <1>1, <2>1, <2>4, <2>6, <2>7, <3>2 DEF Permits
  <2>10. CASE limit # Unlimited /\ ~(Count < limit)
    <3>1. limit \in Nat /\ Count + 1 <= Max({limit, licence.grandfathered})
      BY <2>8, <2>10 DEF check_can_add_device, Within
    <3>2. Max({limit, licence.grandfathered}) \in {limit, licence.grandfathered}
      BY <1>2, <3>1, MaxOfTwo
    <3> HIDE DEF limit
    <3>3. Count < licence.grandfathered
      BY <1>2, <2>10, <3>1, <3>2
    <3>4. Max({COMMUNITY, licence.grandfathered}) >= licence.grandfathered /\ Max({COMMUNITY, licence.grandfathered}) \in Nat
      BY <1>2, InventoryBoundsAssumption, MaxOfTwo
    <3>5. Cardinality(Seen[1]) < Max({COMMUNITY, Seen[3]})
      BY <1>1, <1>2, <3>3, <3>4 DEF Count
    <3>6. QED
      BY <3>5 DEF Permits
  <2>11. QED
    BY <2>9, <2>10
<1>5. QED
  BY <1>3, <1>4

LEMMA DaysStep ==
  ASSUME TypesInv, seenDay <= licence.highest, InventoryNext
  PROVE  seenDay' <= licence'.highest
<1>1. CASE Looked
  BY <1>1, LookedMoves
<1>2. CASE import_license
  BY <1>2, ImportMoves
<1>3. CASE remove_license
  BY <1>3, RemoveMoves DEF remove_license
<1>4. CASE UNCHANGED << licence, seenDay >>
  BY <1>4
<1>5. ASSUME NEW c \in Clients, InventoryWork(c) PROVE Looked \/ UNCHANGED << licence, seenDay >>
  BY <1>5 DEF InventoryWork, _enforce_device_licence, CommitDevice, NextHost, gather_device_info, apply_aaa_config,
              LimitAfterPush, FinishSession
<1>6. ASSUME NEW c \in Clients,
             \/ PushFails(c) \/ create_device(c) \/ quick_add_device(c) \/ apply_aaa_all(c)
             \/ apply_aaa_to_device(c)
      PROVE  Looked \/ UNCHANGED << licence, seenDay >>
  BY <1>6 DEF PushFails, create_device, quick_add_device, apply_aaa_all, apply_aaa_to_device
<1>7. license_status => Looked
  BY DEF license_status
<1>8. update_device \/ delete_device \/ SetClock \/ MachineChanges \/ PlatformStops => UNCHANGED << licence, seenDay >>
  BY DEF update_device, delete_device, SetClock, MachineChanges, PlatformStops
<1>9. QED
  BY <1>1, <1>2, <1>3, <1>4, <1>5, <1>6, <1>7, <1>8 DEF InventoryNext

LEMMA DecideStep ==
  ASSUME TypesInv, \A c \in Clients : ClientInv(c), DecideInv, InventoryNext
  PROVE  DecideInv'
<1>1. seenDay' <= licence'.highest
  BY DaysStep DEF DecideInv
<1>2. ASSUME NEW c \in Clients, client'[c].at \in {"checked", "counted"} PROVE Permits(client'[c].saw)
  BY <1>2, SawStep, PermitsSeen DEF Lawful, DecideInv
<1>3. \A c \in Clients : client'[c].at \in {"checked", "counted"} => Permits(client[c].saw)'
  BY <1>2 DEF Permits, Binds, RoomUnder
<1>4. QED
  BY <1>1, <1>3 DEF DecideInv

\* More devices than there were, and none overtaken: what the insertion saw is what there is.
LEMMA LicenceStep ==
  ASSUME TypesInv, \A c \in Clients : ClientInv(c), DecideInv, InventoryNext,
         Cardinality(DOMAIN inventory') > Count, overtaken' = overtaken
  PROVE  Count < Max({COMMUNITY, licence.grandfathered}) \/ (LicenceInForce /\ RoomUnder(licence.text, Count))
<1>1. Count \in Nat /\ overtaken \in Nat
  BY FS_CardinalityType DEF TypesInv, Count
<1>2. PICK c \in Clients : Commits(c)
  <2>1. ~(Cardinality(DOMAIN inventory') <= Count) /\ ~UNCHANGED inventory
    <3>1. UNCHANGED inventory => Cardinality(DOMAIN inventory') = Count
      BY DEF Count
    <3>2. Cardinality(DOMAIN inventory') \in Nat
      BY TypesStep, FS_CardinalityType DEF TypesInv
    <3>3. QED
      BY <1>1, <3>1, <3>2
  <2>2. QED
    BY <2>1, RowsStep
<1>3. client[c].saw = Seen /\ client[c].at = "counted"
  BY <1>1, <1>2 DEF Commits
<1>4. Permits(Seen)
  BY <1>3 DEF DecideInv
<1>5. /\ Seen[1] = DOMAIN inventory /\ Seen[2] = licence.text
      /\ Seen[3] = licence.grandfathered /\ Seen[4] = Max({seenDay, day}) /\ Seen[5] = machine
  BY SeenIsSight
<1>6. CASE Cardinality(Seen[1]) < Max({COMMUNITY, Seen[3]})
  BY <1>5, <1>6 DEF Count
<1>7. CASE /\ Seen[2] # Nobody /\ Terms[Seen[2]].signed /\ Seen[4] <= Terms[Seen[2]].until
           /\ Binds(Terms[Seen[2]].machine, Seen[5]) /\ RoomUnder(Seen[2], Cardinality(Seen[1]))
  <2>1. /\ licence.text # Nobody /\ Terms[licence.text].signed
        /\ Max({seenDay, day}) <= Terms[licence.text].until /\ Binds(Terms[licence.text].machine, machine)
        /\ RoomUnder(licence.text, Count)
    BY <1>5, <1>7 DEF Count
  <2>2. seenDay \in Nat /\ day \in Nat /\ Terms[licence.text].until \in Nat
    BY <2>1, SignedAssumption, InventoryBoundsAssumption DEF TypesInv
  <2>3. seenDay <= Terms[licence.text].until
    <3>1. Max({seenDay, day}) >= seenDay /\ Max({seenDay, day}) \in Nat
      BY <2>2, MaxOfTwo
    <3>2. QED
      BY <2>1, <2>2, <3>1
  <2>4. check_binding(Terms[licence.text].machine)
    BY <2>1 DEF check_binding, Binds
  <2>5. QED
    BY <2>1, <2>3, <2>4 DEF LicenceInForce
<1>8. QED
  BY <1>4, <1>6, <1>7 DEF Permits


-----------------------------------------------------------------------------
(* The secrets.                                                            *)

\* A client that stays on its way to its host, if it is on one; and gets no further than it was.
Remains(k) == client'[k].at \in On =>
  /\ client[k].at \in On /\ client'[k].kind = client[k].kind /\ client'[k].host = client[k].host
  /\ client[k].doubted => client'[k].doubted
Placid(k) ==
  /\ Remains(k)
  /\ client'[k].at \in On => /\ client'[k].secret = client[k].secret
                             /\ client'[k].at \in Landed => client[k].at \in Landed

LEMMA AlikeIsPlacid ==
  \A k : Alike(k) => Placid(k)
BY DEF Alike, Placid, Remains

LEMMA CrowdKept ==
  ASSUME CrowdInv, \A k \in Clients : Remains(k)
  PROVE  CrowdInv'
BY DEF CrowdInv, Remains

LEMMA CrowdEntered ==
  ASSUME TypesInv, CrowdInv, NEW c \in Clients, Entered(c)
  PROVE  CrowdInv'
<1>1. ASSUME NEW k \in Clients \ {c}, client'[k].at \in On, client'[k].host \cap client'[c].host # {}
      PROVE  client'[c].doubted /\ client'[k].doubted
  <2>1. client[k].at \in On /\ client[k].host \cap client'[c].host # {}
    BY <1>1 DEF Entered, Others, Alike
  <2>2. k \in OnHost(client'[c].host)
    BY <2>1 DEF OnHost, On
  <2>3. QED
    BY <2>2 DEF Entered
<1>2. ASSUME NEW a \in Clients, NEW b \in Clients, a # b, client'[a].at \in On, client'[b].at \in On,
             client'[a].host \cap client'[b].host # {}
      PROVE  client'[a].doubted
  <2>1. CASE a = c
    BY <1>1, <1>2, <2>1
  <2>2. CASE b = c
    BY <1>1, <1>2, <2>2
  <2>3. CASE a # c /\ b # c
    BY <1>2, <2>3 DEF Entered, Others, Alike, CrowdInv
  <2>4. QED
    BY <2>1, <2>2, <2>3
<1>3. QED
  BY <1>2 DEF CrowdInv

\* Nobody else is on the way to the host of one that nobody ran into.
LEMMA NobodyElse ==
  ASSUME CrowdInv, NEW c \in Clients, NEW k \in Clients, c # k, client[c].at \in On, client[k].at \in On,
         ~client[c].doubted \/ ~client[k].doubted
  PROVE  client[c].host \cap client[k].host = {}
BY DEF CrowdInv

LEMMA ScanKept ==
  ASSUME NEW k \in Clients, ScanInv(k), Placid(k),
         client[k].at \in On => \A h \in client[k].host \cap settled' : (h \in settled => ~Hosted(h)) => ~Hosted(h)',
         client[k].at \in On /\ ~client'[k].doubted => \A h \in client[k].host : equipment'[h] = equipment[h]
  PROVE  ScanInv(k)'
BY DEF ScanInv, Placid, Remains

LEMMA PushKept ==
  ASSUME NEW k \in Clients, PushInv(k), Placid(k),
         client[k].at \in On /\ ~client'[k].doubted =>
           \A n \in DOMAIN inventory : client[k].host = {Min(inventory[n].address)} =>
             \E m \in DOMAIN inventory' : inventory'[m] = inventory[n]
  PROVE  PushInv(k)'
<1> SUFFICES ASSUME client'[k].kind = "push", client'[k].at \in On, ~client'[k].doubted
             PROVE  \E m \in DOMAIN inventory' : client'[k].host = {Min(inventory'[m].address)}
                                                 /\ inventory'[m].secret = client'[k].secret
  BY DEF PushInv
<1>1. /\ client[k].at \in On /\ client[k].kind = "push" /\ client'[k].host = client[k].host
      /\ client'[k].secret = client[k].secret /\ ~client[k].doubted
  BY DEF Placid, Remains
<1>2. PICK n \in DOMAIN inventory : client[k].host = {Min(inventory[n].address)} /\ inventory[n].secret = client[k].secret
  BY <1>1 DEF PushInv
<1>3. PICK m \in DOMAIN inventory' : inventory'[m] = inventory[n]
  BY <1>1, <1>2
<1>4. QED
  BY <1>1, <1>2, <1>3

\* Nothing is recorded, and nothing is sent.
LEMMA PlacidKept ==
  ASSUME SecretsInv, UNCHANGED << inventory, equipment, settled >>, \A k \in Clients : Placid(k)
  PROVE  SecretsInv'
<1>1. CrowdInv'
  BY CrowdKept DEF Placid, SecretsInv
<1>2. ASSUME NEW k \in Clients PROVE ScanInv(k)' /\ PushInv(k)'
  <2>1. ScanInv(k)'
    BY ScanKept DEF Hosted, SecretsInv
  <2>2. PushInv(k)'
    BY PushKept DEF SecretsInv
  <2>3. QED
    BY <2>1, <2>2
<1>3. SecretsAgree'
  BY DEF SecretsInv, SecretsAgree
<1>4. QED
  BY <1>1, <1>2, <1>3 DEF SecretsInv

LEMMA SecretsGivesUp ==
  ASSUME TypesInv, SecretsInv, NEW c \in Clients, GivesUp(c), UNCHANGED << inventory, equipment, settled >>
  PROVE  SecretsInv'
<1>1. Others(c) /\ client'[c].at = "free"
  BY GivesUpMoves
<1>2. \A k \in Clients : Placid(k)
  BY <1>1, AlikeIsPlacid DEF Others, Placid, Remains, On
<1>3. QED
  BY <1>2, PlacidKept


LEMMA SecretsEnforce ==
  ASSUME TypesInv, SecretsInv, NEW c \in Clients, _enforce_device_licence(c)
  PROVE  SecretsInv'
<1>1. UNCHANGED << inventory, equipment, settled >> /\ client[c].at = "checked"
  BY DEF _enforce_device_licence
<1>2. CASE client' = [client EXCEPT ![c].at = "counted"]
  <2>1. Others(c) /\ Same(c) /\ client'[c].at = "counted" /\ client'[c].secret = client[c].secret
    BY <1>2, PlaceMoves
  <2>2. \A k \in Clients : Placid(k)
    BY <1>1, <2>1, AlikeIsPlacid DEF Others, Same, Placid, Remains, On, Landed
  <2>3. QED
    BY <1>1, <2>2, PlacidKept
<1>3. QED
  BY <1>1, <1>2, SecretsGivesUp DEF _enforce_device_licence

LEMMA SecretsCommit ==
  ASSUME TypesInv, SecretsInv, NEW c \in Clients, ClientInv(c), CommitDevice(c)
  PROVE  SecretsInv'
<1>1. client[c].at = "counted" /\ client[c].at \in On /\ client[c].at \in Landed /\ UNCHANGED equipment
  BY DEF CommitDevice, On, Landed
<1>2. CASE client[c].name \in DOMAIN inventory
  BY <1>1, <1>2, SecretsGivesUp DEF CommitDevice
<1>3. CASE client[c].name \notin DOMAIN inventory
  <2> DEFINE name == client[c].name
  <2>1. Others(c) /\ client'[c].at \in {"next", "free"} /\ client[c].kind \in {"add", "scan"}
    BY <1>3, CommitMoves
  <2>2. /\ DOMAIN inventory' = DOMAIN inventory \cup {name}
        /\ inventory'[name].address = client[c].host /\ inventory'[name].secret = client[c].secret
        /\ \A n \in DOMAIN inventory : inventory'[n] = inventory[n]
    BY <1>3, CommitRows
  <2>3. IF client[c].kind = "scan"
        THEN settled' = IF client[c].doubted \/ Overlaps(client[c].host, DOMAIN inventory) THEN settled \ client[c].host
                        ELSE settled \cup client[c].host
        ELSE settled' = settled \ client[c].host
    BY <1>3 DEF CommitDevice
  <2> HIDE DEF name
  <2>4. \A k \in Clients : Placid(k)
    BY <2>1, AlikeIsPlacid DEF Others, Placid, Remains, On
  <2>5. \A h : Hosted(h)' => Hosted(h) \/ h \in client[c].host
    BY <2>2 DEF Hosted
  <2>6. ASSUME NEW k \in Clients PROVE ScanInv(k)'
    <3>1. CASE k = c
      BY <2>1, <3>1 DEF ScanInv, On
    <3>2. CASE k # c /\ client[k].at \in On
      <4>1. ASSUME NEW h \in client[k].host \cap settled' PROVE h \in settled /\ h \notin client[c].host
        <5>1. CASE client[c].doubted
          BY <2>1, <2>3, <4>1, <5>1
        <5>2. CASE ~client[c].doubted
          <6>1. client[c].host \cap client[k].host = {}
            BY <1>1, <3>2, <5>2, NobodyElse DEF SecretsInv
          <6>2. QED
            BY <2>1, <2>3, <4>1, <6>1
        <5>3. QED
          BY <5>1, <5>2
      <4>2. \A h \in client[k].host \cap settled' : (h \in settled => ~Hosted(h)) => ~Hosted(h)'
        BY <2>5, <4>1
      <4>3. \A h \in client[k].host : equipment'[h] = equipment[h]
        BY <1>1
      <4>4. QED
        BY <2>4, <4>2, <4>3, ScanKept DEF SecretsInv
    <3>3. CASE client[k].at \notin On
      BY <2>4, <3>3 DEF Placid, Remains, ScanInv
    <3>4. QED
      BY <3>1, <3>2, <3>3
  <2>7. ASSUME NEW k \in Clients PROVE PushInv(k)'
    BY <2>2, <2>4, PushKept DEF SecretsInv
  <2>8. SecretsAgree'
    <3> SUFFICES ASSUME NEW n \in DOMAIN inventory', NEW h \in settled', inventory'[n].address = {h}
                 PROVE  inventory'[n].secret = equipment'[h]
      BY DEF SecretsAgree
    <3>1. CASE n = name
      <4>1. client[c].host = {h}
        BY <2>2, <3>1
      <4>2. client[c].kind = "scan" /\ ~client[c].doubted
        BY <2>3, <4>1
      <4>3. equipment[h] = client[c].secret
        BY <1>1, <4>1, <4>2 DEF SecretsInv, ScanInv
      <4>4. QED
        BY <1>1, <2>2, <3>1, <4>3
    <3>2. CASE n # name
      <4>1. n \in DOMAIN inventory /\ inventory'[n] = inventory[n]
        BY <2>2, <3>2
      <4>2. h \in settled
        <5>1. CASE h \in client[c].host
          <6>1. Overlaps(client[c].host, DOMAIN inventory)
            BY <4>1, <5>1 DEF Overlaps
          <6>2. QED
            BY <2>3, <5>1, <6>1
        <5>2. CASE h \notin client[c].host
          BY <2>3, <5>2
        <5>3. QED
          BY <5>1, <5>2
      <4>3. QED
        BY <1>1, <4>1, <4>2 DEF SecretsInv, SecretsAgree
    <3>3. QED
      BY <3>1, <3>2
  <2>9. CrowdInv'
    BY <2>4, CrowdKept DEF Placid, SecretsInv
  <2>10. QED
    BY <2>6, <2>7, <2>8, <2>9 DEF SecretsInv
<1>4. QED
  BY <1>2, <1>3

LEMMA SecretsNextHost ==
  ASSUME TypesInv, SecretsInv, NEW c \in Clients, ClientInv(c), NextHost(c)
  PROVE  SecretsInv'
<1>1. UNCHANGED << inventory, equipment, settled >>
  BY DEF NextHost
<1>2. PICK h \in client[c].todo :
        IF _check_no_overlap({h})
        THEN /\ client'[c].at = "gathering" /\ client'[c].host = {h}
             /\ client'[c].doubted <=> OnHost({h}) \ {c} # {}
             /\ \A k \in Clients \ {c} : k \in OnHost({h}) => client'[k].doubted
        ELSE client'[c].at = "next"
  BY NextHostMoves
<1>3. Others(c) /\ client'[c].kind = "scan"
  <2>1. Others(c) /\ client[c].at = "next" /\ client'[c].kind = client[c].kind
    BY NextHostMoves
  <2>2. QED
    BY <1>2, <2>1 DEF ClientInv
<1>4. CASE ~_check_no_overlap({h})
  <2>1. \A k \in Clients : Placid(k)
    BY <1>2, <1>3, <1>4, AlikeIsPlacid DEF Others, Placid, Remains, On
  <2>2. QED
    BY <1>1, <2>1, PlacidKept
<1>5. CASE _check_no_overlap({h})
  <2>1. Entered(c)
    BY <1>2, <1>3, <1>5 DEF Entered, On
  <2>2. CrowdInv'
    BY <2>1, CrowdEntered DEF SecretsInv
  <2>3. ~Hosted(h)
    BY <1>5 DEF _check_no_overlap, Overlaps, Hosted
  <2>4. ScanInv(c)' /\ PushInv(c)'
    BY <1>1, <1>2, <1>3, <1>5, <2>3 DEF ScanInv, PushInv, Landed, Hosted
  <2>5. ASSUME NEW k \in Clients \ {c} PROVE ScanInv(k)' /\ PushInv(k)'
    <3>1. Placid(k)
      BY <1>3, AlikeIsPlacid DEF Others
    <3>2. ScanInv(k)'
      BY <1>1, <3>1, ScanKept DEF Hosted, SecretsInv
    <3>3. PushInv(k)'
      BY <1>1, <3>1, PushKept DEF SecretsInv
    <3>4. QED
      BY <3>2, <3>3
  <2>6. SecretsAgree'
    BY <1>1 DEF SecretsInv, SecretsAgree
  <2>7. QED
    BY <2>2, <2>4, <2>5, <2>6 DEF SecretsInv
<1>6. QED
  BY <1>4, <1>5


LEMMA SecretsGather ==
  ASSUME TypesInv, SecretsInv, NEW c \in Clients, ClientInv(c), gather_device_info(c)
  PROVE  SecretsInv'
<1>1. UNCHANGED << inventory, equipment, settled >> /\ client[c].at = "gathering" /\ client[c].kind = "scan"
  BY DEF gather_device_info, ClientInv
<1>2. Others(c) /\ Same(c) /\ client'[c].at = "pushing"
  BY GatherMoves
<1>3. \A k \in Clients : Remains(k)
  BY <1>1, <1>2, AlikeIsPlacid DEF Others, Same, Placid, Remains, On
<1>4. CrowdInv'
  BY <1>3, CrowdKept DEF SecretsInv
<1>5. ScanInv(c)' /\ PushInv(c)'
  BY <1>1, <1>2 DEF SecretsInv, ScanInv, PushInv, Same, On, Landed, Hosted
<1>6. ASSUME NEW k \in Clients \ {c} PROVE ScanInv(k)' /\ PushInv(k)'
  <2>1. Placid(k)
    BY <1>2, AlikeIsPlacid DEF Others
  <2>2. ScanInv(k)'
    BY <1>1, <2>1, ScanKept DEF Hosted, SecretsInv
  <2>3. PushInv(k)'
    BY <1>1, <2>1, PushKept DEF SecretsInv
  <2>4. QED
    BY <2>2, <2>3
<1>7. SecretsAgree'
  BY <1>1 DEF SecretsInv, SecretsAgree
<1>8. QED
  BY <1>4, <1>5, <1>6, <1>7 DEF SecretsInv

\* What is sent to a host reaches no host that another was sent to and nobody ran into.
LEMMA SentApart ==
  ASSUME TypesInv, CrowdInv, NEW c \in Clients, client[c].at \in On, UNCHANGED equipment \/ EquipmentTakes(c),
         NEW k \in Clients \ {c}, client[k].at \in On, Alike(k), ~client'[k].doubted
  PROVE  \A h \in client[k].host : equipment'[h] = equipment[h]
<1>1. ~client[k].doubted
  BY DEF Alike
<1>2. client[c].host \cap client[k].host = {}
  BY <1>1, NobodyElse
<1>3. client[k].host \subseteq Hosts /\ equipment \in [Hosts -> Secrets]
  BY AddressesAssumption DEF TypesInv, ClientRecord
<1>4. QED
  BY <1>2, <1>3 DEF EquipmentTakes

LEMMA SecretsPushFails ==
  ASSUME TypesInv, SecretsInv, NEW c \in Clients, ClientInv(c), PushFails(c)
  PROVE  SecretsInv'
<1>1. /\ Others(c) /\ client[c].at \in On /\ client'[c].at = "next"
      /\ UNCHANGED equipment \/ EquipmentTakes(c)
      /\ settled' = settled \ client[c].host
  BY PushFailsMoves DEF On
<1>2. UNCHANGED inventory
  BY DEF PushFails
<1>3. \A k \in Clients : Placid(k)
  BY <1>1, AlikeIsPlacid DEF Others, Placid, Remains, On
<1>4. CrowdInv'
  BY <1>3, CrowdKept DEF Placid, SecretsInv
<1>5. ScanInv(c)' /\ PushInv(c)'
  BY <1>1 DEF ScanInv, PushInv, On
<1>6. ASSUME NEW k \in Clients \ {c} PROVE ScanInv(k)' /\ PushInv(k)'
  <2>1. Alike(k)
    BY <1>1 DEF Others
  <2>2. client[k].at \in On /\ ~client'[k].doubted => \A h \in client[k].host : equipment'[h] = equipment[h]
    BY <1>1, <2>1, SentApart DEF SecretsInv
  <2>3. ScanInv(k)'
    BY <1>1, <1>2, <1>3, <2>2, ScanKept DEF Hosted, SecretsInv
  <2>4. PushInv(k)'
    BY <1>2, <1>3, PushKept DEF SecretsInv
  <2>5. QED
    BY <2>3, <2>4
<1>7. SecretsAgree'
  <2> SUFFICES ASSUME NEW n \in DOMAIN inventory, NEW h \in settled', inventory[n].address = {h}
               PROVE  inventory[n].secret = equipment'[h]
    BY <1>2 DEF SecretsAgree
  <2>1. h \in settled /\ h \notin client[c].host /\ h \in Hosts
    BY <1>1 DEF TypesInv
  <2>2. equipment'[h] = equipment[h]
    BY <1>1, <2>1 DEF EquipmentTakes
  <2>3. QED
    BY <2>1, <2>2 DEF SecretsInv, SecretsAgree
<1>8. QED
  BY <1>4, <1>5, <1>6, <1>7 DEF SecretsInv

\* No more than one device has the host.
LEMMA OneCovers ==
  ASSUME TypesInv, NEW host, NEW n \in DOMAIN inventory, NEW m \in DOMAIN inventory,
         ~(Cardinality({ x \in DOMAIN inventory : Overlaps(host, {x}) }) > 1),
         inventory[n].address \cap host # {}, inventory[m].address \cap host # {}
  PROVE  n = m
<1> DEFINE S == { x \in DOMAIN inventory : Overlaps(host, {x}) }
<1>1. n \in S /\ m \in S
  BY DEF Overlaps
<1>2. IsFiniteSet(S)
  BY FS_Subset DEF TypesInv
<1>3. Cardinality(S) \in Nat /\ Cardinality(S) <= 1
  BY <1>2, FS_CardinalityType
<1> HIDE DEF S
<1>4. SUFFICES ASSUME n # m PROVE FALSE
  OBVIOUS
<1>5. IsFiniteSet(S \ {n}) /\ Cardinality(S \ {n}) = Cardinality(S) - 1
  BY <1>1, <1>2, FS_RemoveElement
<1>6. Cardinality(S \ {n}) = 0
  BY <1>3, <1>5, FS_CardinalityType
<1>7. S \ {n} = {}
  BY <1>5, <1>6, FS_EmptySet
<1>8. QED
  BY <1>1, <1>4, <1>7

LEMMA SecretsConfig ==
  ASSUME TypesInv, SecretsInv, NEW c \in Clients, ClientInv(c), apply_aaa_config(c)
  PROVE  SecretsInv'
<1>1. /\ Others(c) /\ client[c].at \in On /\ UNCHANGED inventory
      /\ UNCHANGED equipment \/ EquipmentTakes(c)
  BY ConfigMoves DEF On, apply_aaa_config
<1>2. \/ /\ client[c].kind = "scan" /\ Same(c) /\ client'[c].at = "pushed"
         /\ client'[c].secret = client[c].secret /\ UNCHANGED settled
         /\ ~client'[c].doubted => EquipmentTakes(c)
      \/ /\ client[c].kind = "push" /\ client'[c].at = "next"
         /\ \/ settled' = settled \ client[c].host
            \/ /\ settled' = settled \cup client[c].host
               /\ EquipmentTakes(c) /\ ~client[c].doubted
               /\ ~(Cardinality({ n \in DOMAIN inventory : Overlaps(client[c].host, {n}) }) > 1)
  BY ConfigMoves
<1>3. \A k \in Clients : Remains(k)
  BY <1>1, <1>2, AlikeIsPlacid DEF Others, Same, Placid, Remains, On
<1>4. CrowdInv'
  BY <1>3, CrowdKept DEF SecretsInv
<1>5. /\ \A h \in Hosts \ client[c].host : equipment'[h] = equipment[h]
      /\ EquipmentTakes(c) => \A h \in Hosts \cap client[c].host : equipment'[h] = client[c].secret
  BY <1>1 DEF EquipmentTakes
<1>6. client[c].host \subseteq Hosts
  BY AddressesAssumption DEF TypesInv, ClientRecord
<1>7. ScanInv(c)' /\ PushInv(c)'
  <2>1. CASE client[c].kind = "scan"
    BY <1>1, <1>2, <1>5, <1>6, <2>1 DEF SecretsInv, ScanInv, PushInv, Same, On, Hosted
  <2>2. CASE client[c].kind = "push"
    BY <1>2, <2>2 DEF ScanInv, PushInv, On
  <2>3. QED
    BY <1>2, <2>1, <2>2
<1>8. ASSUME NEW k \in Clients \ {c} PROVE ScanInv(k)' /\ PushInv(k)'
  <2>1. Alike(k) /\ Placid(k)
    BY <1>1, AlikeIsPlacid DEF Others
  <2>2. client[k].at \in On /\ ~client'[k].doubted => \A h \in client[k].host : equipment'[h] = equipment[h]
    BY <1>1, <2>1, SentApart DEF SecretsInv
  <2>3. client[k].at \in On => \A h \in client[k].host \cap settled' : h \in settled
    <3>1. CASE client[c].kind = "push" /\ ~client[c].doubted /\ client[k].at \in On
      <4>1. client[c].host \cap client[k].host = {}
        BY <1>1, <3>1, NobodyElse DEF SecretsInv
      <4>2. QED
        BY <1>2, <4>1
    <3>2. QED
      BY <1>2, <3>1
  <2>4. ScanInv(k)'
    BY <1>1, <2>1, <2>2, <2>3, ScanKept DEF Hosted, SecretsInv
  <2>5. PushInv(k)'
    BY <1>1, <2>1, PushKept DEF SecretsInv
  <2>6. QED
    BY <2>4, <2>5
<1>9. SecretsAgree'
  <2> SUFFICES ASSUME NEW n \in DOMAIN inventory, NEW h \in settled', inventory[n].address = {h}
               PROVE  inventory[n].secret = equipment'[h]
    BY <1>1 DEF SecretsAgree
  <2>1. h \in Hosts
    BY <1>2, <1>6 DEF TypesInv
  <2>2. CASE h \notin client[c].host
    BY <1>2, <1>5, <2>1, <2>2 DEF SecretsInv, SecretsAgree
  <2>3. CASE h \in client[c].host /\ client[c].kind = "scan"
    <3>1. h \in settled /\ Hosted(h)
      BY <1>2, <2>3 DEF Hosted
    <3>2. QED
      BY <1>1, <2>3, <3>1 DEF SecretsInv, ScanInv
  <2>4. CASE h \in client[c].host /\ client[c].kind = "push"
    <3>1. /\ EquipmentTakes(c) /\ ~client[c].doubted
          /\ ~(Cardinality({ x \in DOMAIN inventory : Overlaps(client[c].host, {x}) }) > 1)
      BY <1>2, <2>4
    <3>2. PICK m \in DOMAIN inventory :
            client[c].host = {Min(inventory[m].address)} /\ inventory[m].secret = client[c].secret
      BY <1>1, <2>4, <3>1 DEF SecretsInv, PushInv
    <3>3. Min(inventory[m].address) \in inventory[m].address
      BY MinOfAddress DEF TypesInv
    <3>4. inventory[n].address \cap client[c].host # {} /\ inventory[m].address \cap client[c].host # {}
      BY <2>4, <3>2, <3>3
    <3>5. n = m
      BY <3>1, <3>4, OneCovers
    <3>6. QED
      BY <1>5, <2>1, <2>4, <3>1, <3>2, <3>5
  <2>5. QED
    BY <1>2, <2>2, <2>3, <2>4
<1>10. QED
  BY <1>4, <1>7, <1>8, <1>9 DEF SecretsInv


LEMMA SecretsLimit ==
  ASSUME TypesInv, SecretsInv, NEW c \in Clients, LimitAfterPush(c)
  PROVE  SecretsInv'
<1>1. UNCHANGED << inventory, equipment, settled >> /\ client[c].at = "pushed"
  BY DEF LimitAfterPush
<1>2. CASE check_can_add_device
  <2>1. Others(c) /\ Same(c) /\ client'[c].at = "checked" /\ client'[c].secret = client[c].secret
    BY <1>2, LimitMoves
  <2>2. \A k \in Clients : Placid(k)
    BY <1>1, <2>1, AlikeIsPlacid DEF Others, Same, Placid, Remains, On, Landed
  <2>3. QED
    BY <1>1, <2>2, PlacidKept
<1>3. CASE ~check_can_add_device
  BY <1>1, <1>3, SecretsGivesUp DEF LimitAfterPush
<1>4. QED
  BY <1>2, <1>3

LEMMA SecretsQuickAdd ==
  ASSUME TypesInv, SecretsInv, NEW c \in Clients, quick_add_device(c)
  PROVE  SecretsInv'
<1>1. UNCHANGED << inventory, equipment, settled >>
  BY DEF quick_add_device
<1>2. Entered(c) /\ client'[c].kind = "add"
  BY QuickAddMoves
<1>3. CrowdInv'
  BY <1>2, CrowdEntered DEF SecretsInv
<1>4. ScanInv(c)' /\ PushInv(c)'
  BY <1>2 DEF ScanInv, PushInv
<1>5. ASSUME NEW k \in Clients \ {c} PROVE ScanInv(k)' /\ PushInv(k)'
  <2>1. Placid(k)
    BY <1>2, AlikeIsPlacid DEF Entered, Others
  <2>2. ScanInv(k)'
    BY <1>1, <2>1, ScanKept DEF Hosted, SecretsInv
  <2>3. PushInv(k)'
    BY <1>1, <2>1, PushKept DEF SecretsInv
  <2>4. QED
    BY <2>2, <2>3
<1>6. SecretsAgree'
  BY <1>1 DEF SecretsInv, SecretsAgree
<1>7. QED
  BY <1>3, <1>4, <1>5, <1>6 DEF SecretsInv

LEMMA SecretsPush ==
  ASSUME TypesInv, SecretsInv, NEW c \in Clients, apply_aaa_to_device(c)
  PROVE  SecretsInv'
<1>1. UNCHANGED equipment
  BY DEF apply_aaa_to_device
<1>2. Entered(c) /\ client'[c].kind = "push" /\ client'[c].secret \in Keys
  BY PushMoves
<1>3. PICK n \in DOMAIN inventory :
              /\ client'[c].host = {Min(inventory[n].address)} /\ inventory[n].address \in Addresses
              /\ inventory' = [inventory EXCEPT ![n].secret = client'[c].secret]
              /\ settled' = IF client'[c].secret = inventory[n].secret THEN settled
                            ELSE settled \ inventory[n].address
  BY PushMoves
<1> DEFINE secret == client'[c].secret
<1>4. secret \in Keys /\ inventory' = [inventory EXCEPT ![n].secret = secret]
  BY <1>2, <1>3
<1>5. secret = client'[c].secret
  OBVIOUS
<1> HIDE DEF secret
<1>6. /\ DOMAIN inventory' = DOMAIN inventory
      /\ inventory'[n].address = inventory[n].address /\ inventory'[n].secret = secret
      /\ \A m \in DOMAIN inventory \ {n} : inventory'[m] = inventory[m]
  BY <1>4, PushRows
<1>7. CrowdInv'
  BY <1>2, CrowdEntered DEF SecretsInv
<1>8. ScanInv(c)' /\ PushInv(c)'
  BY <1>2, <1>3, <1>5, <1>6 DEF ScanInv, PushInv
<1>9. \A h : Hosted(h)' <=> Hosted(h)
  BY <1>6 DEF Hosted
<1>10. ASSUME NEW k \in Clients \ {c} PROVE ScanInv(k)' /\ PushInv(k)'
  <2>1. Placid(k)
    BY <1>2, AlikeIsPlacid DEF Entered, Others
  <2>2. ScanInv(k)'
    BY <1>1, <1>3, <1>9, <2>1, ScanKept DEF SecretsInv
  <2>3. ASSUME client[k].at \in On, ~client'[k].doubted, NEW m \in DOMAIN inventory,
               client[k].host = {Min(inventory[m].address)}
        PROVE  \E x \in DOMAIN inventory' : inventory'[x] = inventory[m]
    <3>1. m # n
      <4>1. SUFFICES ASSUME m = n PROVE FALSE
        OBVIOUS
      <4>2. client[k].host \cap client'[c].host # {}
        BY <1>3, <2>3, <4>1
      <4>3. k \in OnHost(client'[c].host)
        BY <2>3, <4>2 DEF OnHost, On
      <4>4. QED
        BY <1>2, <2>3, <4>3 DEF Entered
    <3>2. QED
      BY <1>6, <3>1
  <2>4. PushInv(k)'
    BY <2>1, <2>3, PushKept DEF SecretsInv
  <2>5. QED
    BY <2>2, <2>4
<1>11. SecretsAgree'
  <2> SUFFICES ASSUME NEW m \in DOMAIN inventory, NEW h \in settled', inventory'[m].address = {h}
               PROVE  inventory'[m].secret = equipment[h]
    BY <1>1, <1>6 DEF SecretsAgree
  <2>1. CASE m = n
    BY <1>3, <1>5, <1>6, <2>1 DEF SecretsInv, SecretsAgree
  <2>2. CASE m # n
    BY <1>3, <1>6, <2>2 DEF SecretsInv, SecretsAgree
  <2>3. QED
    BY <2>1, <2>2
<1>12. QED
  BY <1>7, <1>8, <1>10, <1>11 DEF SecretsInv

\* A device that is edited or deleted is known to whoever is on the way to it.
LEMMA RowIsCrowded ==
  ASSUME TypesInv, NEW n \in DOMAIN inventory, NEW host, inventory[n].address \subseteq host,
         client' = Crowded(host), NEW k \in Clients, client[k].at \in On,
         client[k].host = {Min(inventory[n].address)}
  PROVE  client'[k].doubted
<1>1. Min(inventory[n].address) \in inventory[n].address
  BY MinOfAddress DEF TypesInv
<1>2. k \in OnHost(host)
  BY <1>1 DEF OnHost, On
<1>3. QED
  BY <1>2, CrowdedMoves

LEMMA SecretsUpdate ==
  ASSUME TypesInv, SecretsInv, update_device
  PROVE  SecretsInv'
<1>1. UNCHANGED equipment
  BY DEF update_device
<1>2. PICK n \in DOMAIN inventory : \E name : \E address \in Addresses :
              /\ DOMAIN inventory' = (DOMAIN inventory \ {n}) \cup {name}
              /\ inventory'[name].address = address
              /\ \A m \in DOMAIN inventory \ {n} : inventory'[m] = inventory[m]
              /\ settled' = IF inventory'[name] = inventory[n] THEN settled
                            ELSE settled \ (address \cup inventory[n].address)
              /\ client' = IF inventory'[name] = inventory[n] THEN client
                           ELSE Crowded(address \cup inventory[n].address)
  BY UpdateMoves
<1>3. PICK name : \E address \in Addresses :
              /\ DOMAIN inventory' = (DOMAIN inventory \ {n}) \cup {name}
              /\ inventory'[name].address = address
              /\ \A m \in DOMAIN inventory \ {n} : inventory'[m] = inventory[m]
              /\ settled' = IF inventory'[name] = inventory[n] THEN settled
                            ELSE settled \ (address \cup inventory[n].address)
              /\ client' = IF inventory'[name] = inventory[n] THEN client
                           ELSE Crowded(address \cup inventory[n].address)
  BY <1>2
<1> DEFINE hosts == inventory'[name].address \cup inventory[n].address
<1>4. /\ DOMAIN inventory' = (DOMAIN inventory \ {n}) \cup {name}
      /\ \A m \in DOMAIN inventory \ {n} : inventory'[m] = inventory[m]
      /\ settled' = IF inventory'[name] = inventory[n] THEN settled ELSE settled \ hosts
      /\ client' = IF inventory'[name] = inventory[n] THEN client ELSE Crowded(hosts)
  BY <1>3
<1>5. inventory'[name].address \subseteq hosts /\ inventory[n].address \subseteq hosts
  OBVIOUS
<1> HIDE DEF hosts
<1>6. \A k \in Clients : Placid(k)
  BY <1>4, CrowdedOthers, AlikeIsPlacid
<1>7. CrowdInv'
  BY <1>6, CrowdKept DEF Placid, SecretsInv
<1>8. \A h \in settled' : h \in settled /\ (Hosted(h)' => Hosted(h))
  <2> SUFFICES ASSUME NEW h \in settled', Hosted(h)' PROVE Hosted(h)
    BY <1>4
  <2>1. PICK m \in DOMAIN inventory' : h \in inventory'[m].address
    BY DEF Hosted
  <2>2. CASE m = name
    BY <1>4, <1>5, <2>1, <2>2 DEF Hosted
  <2>3. CASE m # name
    BY <1>4, <2>1, <2>3 DEF Hosted
  <2>4. QED
    BY <2>2, <2>3
<1>9. ASSUME NEW k \in Clients PROVE ScanInv(k)' /\ PushInv(k)'
  <2>1. ScanInv(k)'
    BY <1>1, <1>6, <1>8, ScanKept DEF SecretsInv
  <2>2. ASSUME client[k].at \in On, ~client'[k].doubted, NEW m \in DOMAIN inventory,
               client[k].host = {Min(inventory[m].address)}
        PROVE  \E x \in DOMAIN inventory' : inventory'[x] = inventory[m]
    <3>1. CASE m # n
      <4>1. inventory'[m] = inventory[m] /\ m \in DOMAIN inventory'
        BY <1>4, <3>1
      <4>2. QED
        BY <4>1
    <3>2. CASE m = n /\ inventory'[name] = inventory[n]
      BY <1>4, <3>2
    <3>3. CASE m = n /\ inventory'[name] # inventory[n]
      BY <1>4, <1>5, <2>2, <3>3, RowIsCrowded
    <3>4. QED
      BY <3>1, <3>2, <3>3
  <2>3. PushInv(k)'
    BY <1>6, <2>2, PushKept DEF SecretsInv
  <2>4. QED
    BY <2>1, <2>3
<1>10. SecretsAgree'
  <2> SUFFICES ASSUME NEW m \in DOMAIN inventory', NEW h \in settled', inventory'[m].address = {h}
               PROVE  inventory'[m].secret = equipment[h]
    BY <1>1 DEF SecretsAgree
  <2>1. h \in settled
    BY <1>8
  <2>2. CASE m = name /\ inventory'[name] = inventory[n]
    BY <2>1, <2>2 DEF SecretsInv, SecretsAgree
  <2>3. CASE m = name /\ inventory'[name] # inventory[n]
    BY <1>4, <1>5, <2>3
  <2>4. CASE m # name
    BY <1>4, <2>1, <2>4 DEF SecretsInv, SecretsAgree
  <2>5. QED
    BY <2>2, <2>3, <2>4
<1>11. QED
  BY <1>7, <1>9, <1>10 DEF SecretsInv

LEMMA SecretsDelete ==
  ASSUME TypesInv, SecretsInv, delete_device
  PROVE  SecretsInv'
<1>1. UNCHANGED << equipment, settled >>
  BY DEF delete_device
<1>2. PICK n \in DOMAIN inventory :
              /\ DOMAIN inventory' = DOMAIN inventory \ {n}
              /\ \A m \in DOMAIN inventory' : inventory'[m] = inventory[m]
              /\ client' = Crowded(inventory[n].address)
  BY DeleteMoves
<1>3. \A k \in Clients : Placid(k)
  BY <1>2, CrowdedOthers, AlikeIsPlacid
<1>4. CrowdInv'
  BY <1>3, CrowdKept DEF Placid, SecretsInv
<1>5. \A h : Hosted(h)' => Hosted(h)
  BY <1>2 DEF Hosted
<1>6. ASSUME NEW k \in Clients PROVE ScanInv(k)' /\ PushInv(k)'
  <2>1. ScanInv(k)'
    BY <1>1, <1>3, <1>5, ScanKept DEF SecretsInv
  <2>2. ASSUME client[k].at \in On, ~client'[k].doubted, NEW m \in DOMAIN inventory,
               client[k].host = {Min(inventory[m].address)}
        PROVE  \E x \in DOMAIN inventory' : inventory'[x] = inventory[m]
    <3>1. m # n
      BY <1>2, <2>2, RowIsCrowded
    <3>2. QED
      BY <1>2, <3>1
  <2>3. PushInv(k)'
    BY <1>3, <2>2, PushKept DEF SecretsInv
  <2>4. QED
    BY <2>1, <2>3
<1>7. SecretsAgree'
  BY <1>1, <1>2 DEF SecretsInv, SecretsAgree
<1>8. QED
  BY <1>4, <1>6, <1>7 DEF SecretsInv

LEMMA SecretsStep ==
  ASSUME TypesInv, \A c \in Clients : ClientInv(c), SecretsInv, InventoryNext
  PROVE  SecretsInv'
<1>1. ASSUME NEW c \in Clients, FinishSession(c) PROVE SecretsInv'
  <2>1. /\ UNCHANGED << inventory, equipment, settled >> /\ client' = [client EXCEPT ![c] = Free]
    BY <1>1 DEF FinishSession
  <2>2. Others(c) /\ client'[c].at = "free"
    BY <2>1, FreeMoves
  <2>3. \A k \in Clients : Placid(k)
    BY <2>2, AlikeIsPlacid DEF Others, Placid, Remains, On
  <2>4. QED
    BY <2>1, <2>3, PlacidKept
<1>2. ASSUME NEW c \in Clients, apply_aaa_all(c) PROVE SecretsInv'
  <2>1. UNCHANGED << inventory, equipment, settled >>
    BY <1>2 DEF apply_aaa_all
  <2>2. Others(c) /\ client'[c].at = "next"
    BY <1>2, ApplyAllMoves
  <2>3. \A k \in Clients : Placid(k)
    BY <2>2, AlikeIsPlacid DEF Others, Placid, Remains, On
  <2>4. QED
    BY <2>1, <2>3, PlacidKept
<1>3. CASE PlatformStops
  <2>1. /\ UNCHANGED << inventory, equipment >> /\ client' = [c \in Clients |-> Free] /\ settled' \subseteq settled
    BY <1>3 DEF PlatformStops
  <2>2. \A c \in Clients : client'[c].at = "free" /\ client'[c].at \notin On
    BY <2>1, FreeRecord DEF On
  <2>3. QED
    BY <2>1, <2>2 DEF SecretsInv, CrowdInv, SecretsAgree, ScanInv, PushInv
<1>4. ASSUME UNCHANGED << inventory, equipment, settled, client >> PROVE SecretsInv'
  <2>1. \A k \in Clients : Placid(k)
    BY <1>4 DEF Placid, Remains
  <2>2. QED
    BY <1>4, <2>1, PlacidKept
<1>5. \/ import_license \/ remove_license \/ license_status \/ SetClock \/ MachineChanges
      \/ \E c \in Clients : create_device(c)
      => UNCHANGED << inventory, equipment, settled, client >>
  BY DEF import_license, remove_license, license_status, SetClock, MachineChanges, create_device
<1>6. ASSUME NEW c \in Clients,
             \/ InventoryWork(c) \/ PushFails(c) \/ create_device(c) \/ quick_add_device(c)
             \/ apply_aaa_all(c) \/ apply_aaa_to_device(c)
      PROVE  SecretsInv'
  BY <1>1, <1>2, <1>4, <1>5, <1>6, SecretsEnforce, SecretsCommit, SecretsNextHost, SecretsGather, SecretsConfig,
     SecretsLimit, SecretsPushFails, SecretsQuickAdd, SecretsPush DEF InventoryWork
<1>7. QED
  BY <1>3, <1>4, <1>5, <1>6, SecretsUpdate, SecretsDelete DEF InventoryNext


-----------------------------------------------------------------------------
(* The theorems.                                                           *)

LEMMA InventoryBegins ==
  InventoryInit => InventoryInv
<1> SUFFICES ASSUME InventoryInit PROVE InventoryInv
  OBVIOUS
<1>1. /\ DOMAIN inventory = {} /\ held = {} /\ overtaken = 0 /\ seenDay = 0 /\ settled = {} /\ minted = 0
      /\ licence = [text |-> Nobody, highest |-> 0, grandfathered |-> 0] /\ machine \in Machines /\ day = 0
      /\ inventory = <<>> /\ equipment = [h \in Hosts |-> NoSecret]
      /\ client = [c \in Clients |-> Free] /\ progress = [c \in Clients |-> NoProgress]
  BY DEF InventoryInit
<1>2. \A c \in Clients : client[c] = Free /\ progress[c] = NoProgress
  BY <1>1
<1>3. TypesInv
  <2>1. IsFiniteSet(DOMAIN inventory)
    BY <1>1, FS_EmptySet
  <2>2. inventory \in [DOMAIN inventory -> [address : Addresses, secret : Keys]]
    BY <1>1
  <2>3. client \in [Clients -> ClientRecord]
    BY <1>1, FreeRecord
  <2>4. 0 \in 0 .. MaxDay
    BY InventoryBoundsAssumption
  <2>5. progress \in [Clients -> ProgressRecord]
    BY <1>1, <2>4 DEF NoProgress, ProgressRecord
  <2>6. equipment \in [Hosts -> Secrets]
    BY <1>1, SecretIsKey
  <2>7. licence \in [text : Licences \cup {Nobody}, highest : 0 .. MaxDay, grandfathered : Nat]
    BY <1>1, <2>4
  <2>8. QED
    BY <1>1, <2>1, <2>2, <2>3, <2>4, <2>5, <2>6, <2>7 DEF TypesInv
<1>4. ASSUME NEW c \in Clients PROVE ClientInv(c) /\ ProgressInv(c) /\ ScanInv(c) /\ PushInv(c)
  BY <1>2, FreeRecord DEF NoProgress, ClientInv, ProgressInv, ScanInv, PushInv, On, Keyed
<1>5. LimitInv
  <2>1. Count = 0
    BY <1>1, FS_EmptySet DEF Count
  <2>2. COMMUNITY \in Limits(held) /\ COMMUNITY \in Nat /\ Limits(held) = {COMMUNITY}
    BY <1>1, InventoryBoundsAssumption DEF Limits
  <2>3. licence.grandfathered = 0 /\ licence.text = Nobody
    BY <1>1
  <2>4. RoomFor(0, held, overtaken)
    BY <1>1, <2>2 DEF RoomFor
  <2>5. QED
    BY <1>2, <2>1, <2>2, <2>3, <2>4, FreeRecord DEF LimitInv
<1>6. DecideInv
  BY <1>1, <1>2, FreeRecord DEF DecideInv
<1>7. CrowdInv /\ SecretsAgree
  BY <1>1, <1>2, FreeRecord DEF CrowdInv, SecretsAgree, On
<1>8. QED
  BY <1>3, <1>4, <1>5, <1>6, <1>7 DEF InventoryInv, SecretsInv

LEMMA InventoryGoesOn ==
  InventoryInv /\ [InventoryNext]_inventoryVars => InventoryInv'
<1> SUFFICES ASSUME InventoryInv, [InventoryNext]_inventoryVars PROVE InventoryInv'
  OBVIOUS
<1>1. TypesInv /\ (\A c \in Clients : ClientInv(c) /\ ProgressInv(c)) /\ LimitInv /\ DecideInv /\ SecretsInv
  BY DEF InventoryInv
<1>2. CASE InventoryNext
  <2>1. TypesInv'
    BY <1>1, <1>2, TypesStep
  <2>2. \A c \in Clients : ClientInv(c)' /\ ProgressInv(c)'
    BY <1>1, <1>2, ClientStep, ProgressStep
  <2>3. LimitInv' /\ DecideInv' /\ SecretsInv'
    BY <1>1, <1>2, <2>1, LimitStep, DecideStep, SecretsStep
  <2>4. QED
    BY <2>1, <2>2, <2>3 DEF InventoryInv
<1>3. CASE UNCHANGED inventoryVars
  <2>1. TypesInv'
    BY <1>1, <1>3 DEF inventoryVars, TypesInv
  <2>2. \A c \in Clients : ClientInv(c)' /\ ProgressInv(c)'
    BY <1>1, <1>3 DEF inventoryVars, ClientInv, ProgressInv
  <2>3. LimitInv' /\ DecideInv'
    BY <1>1, <1>3 DEF inventoryVars, LimitInv, DecideInv, Count
  <2>4. SecretsInv'
    BY <1>1, <1>3 DEF inventoryVars, SecretsInv, CrowdInv, ScanInv, PushInv, SecretsAgree, Hosted
  <2>5. QED
    BY <2>1, <2>2, <2>3, <2>4 DEF InventoryInv
<1>4. QED
  BY <1>2, <1>3

\* The inductive invariant: what a client at each place is, what each insertion was allowed on, who knows
\* that somebody ran into it, and which key each device, task and host has meanwhile.
THEOREM InventoryInvariant == InventorySpec => []InventoryInv
BY InventoryBegins, InventoryGoesOn, PTL DEF InventorySpec

\* Whatever requests, tasks, edits, faults and restarts there are, the tables, the sessions in memory and
\* the devices hold what they can hold; and a session never counts more hosts than it has.
THEOREM InventoryTypesHold == InventorySpec => []InventoryTypes
<1>1. InventoryInv => InventoryTypes
  <2> SUFFICES ASSUME InventoryInv PROVE InventoryTypes
    OBVIOUS
  <2>1. TypesInv /\ \A c \in Clients : ProgressInv(c)
    BY DEF InventoryInv
  <2>2. \A n \in DOMAIN inventory : inventory[n].address \in Addresses /\ inventory[n].secret \in {"typed", "made"} \X Nat
    BY <2>1 DEF TypesInv, Keys
  <2>3. ASSUME NEW c \in Clients
        PROVE  /\ client[c].at \in {"free", "checked", "counted", "next", "gathering", "pushing", "pushed"}
               /\ client[c].kind \in {"none", "add", "scan", "push"} /\ client[c].todo \subseteq Hosts
               /\ client[c].host \in Addresses \cup {{}}
               /\ progress[c].status \in {"none", "running", "done"}
               /\ progress[c].completed \leq progress[c].total
    <3>1. client[c] \in ClientRecord /\ progress[c] \in ProgressRecord
      BY <2>1 DEF TypesInv
    <3>2. QED
      BY <2>1, <3>1 DEF ClientRecord, ProgressRecord, ProgressInv
  <2>4. QED
    BY <2>1, <2>2, <2>3 DEF InventoryTypes, TypesInv, Secrets
<1>2. QED
  BY <1>1, InventoryInvariant, PTL

\* However licences are installed, removed and run out, there are never more devices than the largest
\* limit that was ever installed allows, but for those overtaken between their count and their commit.
THEOREM LimitHolds == InventorySpec => []LimitIsKept
<1>1. InventoryInv => LimitIsKept
  <2> SUFFICES ASSUME InventoryInv, ~NoLimit(held) PROVE Count \leq Max(Limits(held)) + overtaken
    BY DEF LimitIsKept, NoLimit, Limits
  <2>1. TypesInv /\ LimitInv
    BY DEF InventoryInv
  <2>2. PICK m \in Limits(held) : \A x \in Limits(held) : x <= m
    BY <2>1 DEF LimitInv
  <2>3. Limits(held) \subseteq Nat
    BY <2>1, LimitsAreNumbers DEF TypesInv
  <2>4. Max(Limits(held)) \in Limits(held) /\ \A x \in Limits(held) : Max(Limits(held)) >= x
    <3>1. \A x \in Limits(held) : m >= x
      BY <2>2, <2>3
    <3>2. QED
      BY <3>1, MaxIsGreatest
  <2>5. PICK x \in Limits(held) : Count <= x + overtaken
    BY <2>1 DEF LimitInv, RoomFor
  <2>6. Count \in Nat /\ overtaken \in Nat
    BY <2>1, FS_CardinalityType DEF TypesInv, Count
  <2>7. QED
    BY <2>3, <2>4, <2>5, <2>6
<1>2. QED
  BY <1>1, InventoryInvariant, PTL

\* A device beyond what Community has, and beyond what there was when a licence was removed, comes in only
\* when a licence that is in force has room for it: neither a clock that was set back, nor another machine's
\* licence, lets one in.  Up to what there was at a removal, check_can_add_device lets deleted devices be
\* replaced without a licence (AddingIsBlocked is what the documentation says, and is violated).
THEOREM LicenceDecidesHolds == InventorySpec => LicenceDecides
<1> DEFINE Decides == DOMAIN inventory' \ DOMAIN inventory # {} /\ Cardinality(DOMAIN inventory') > Count
                        /\ overtaken' = overtaken
                      => \/ Count < Max({COMMUNITY, licence.grandfathered})
                         \/ LicenceInForce /\ RoomUnder(licence.text, Count)
<1>1. InventoryInv /\ [InventoryNext]_inventoryVars => [Decides]_inventoryVars
  <2> SUFFICES ASSUME InventoryInv, InventoryNext,
                      Cardinality(DOMAIN inventory') > Count, overtaken' = overtaken
               PROVE  Count < Max({COMMUNITY, licence.grandfathered}) \/ (LicenceInForce /\ RoomUnder(licence.text, Count))
    OBVIOUS
  <2>1. TypesInv /\ (\A c \in Clients : ClientInv(c)) /\ DecideInv
    BY DEF InventoryInv
  <2>2. QED
    BY <2>1, LicenceStep
<1>2. QED
  BY <1>1, InventoryInvariant, PTL DEF InventorySpec, LicenceDecides

\* The key stored for a device is the one the device has, if it took the last key it was sent, unless that
\* push failed, was run into, or was followed by an edit: also when tasks and requests race for the same
\* host.  apply_aaa_config reports a success whether the device took the key or not; where it did not, nothing
\* is claimed.
THEOREM SecretsHold == InventorySpec => []SecretsAgree
<1>1. InventoryInv => SecretsAgree
  BY DEF InventoryInv, SecretsInv
<1>2. QED
  BY <1>1, InventoryInvariant, PTL

=============================================================================
