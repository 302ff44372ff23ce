---------------------------- MODULE SecurityChecks ----------------------------
(***************************************************************************)
(* What an audit concludes from one running configuration                  *)
(* (security_center: parser, checks, correlation, scoring, compliance).    *)
(*                                                                         *)
(* A configuration is the set of facts its global lines establish, and the *)
(* lines of each of its ports.  Most checks look for a line of their own:  *)
(* that line bears the name of the check, so that "AAA-01" \in c.has says  *)
(* that the line check AAA-01 looks for is there, be it wanted or feared;  *)
(* other facts have the words of their lines, joined by hyphens.           *)
(* Two engines read the same text: one check list for the device, and one  *)
(* set of rules applied to every interface.                                *)
(***************************************************************************)
EXTENDS Integers, FiniteSets, FiniteSetsExt, Functions

CRITICAL == 12
HIGH == 7
MEDIUM == 3
LOW == 1
INFO == 0

Weights == {CRITICAL, HIGH, MEDIUM, LOW, INFO}
Device == "device"
NoName == ""

\* The weight is that of the severity the check would fail with, whatever is shown.
F(id, status, weight) ==
  [check |-> id, at |-> Device, domain |-> NoName, status |-> status, weight |-> weight]

In(domain, findings) == { [f EXCEPT !.domain = domain] : f \in findings }

\* Checks with their weights: of a line that should be there, of one that should not, and of what
\* nobody but a person can tell.
Wants(c, w) == { F(p[1], IF p[1] \in c.has THEN "pass" ELSE "fail", p[2]) : p \in w }
Fears(c, w) == { F(p[1], IF p[1] \in c.has THEN "fail" ELSE "pass", p[2]) : p \in w }
Reviews(w) == { F(p[1], "manual_review", p[2]) : p \in w }
NotUsed(id) == { F(id, "na", INFO) }

\* A check of what may not be there at all.
Among(bad, any) == IF bad THEN "fail" ELSE IF any THEN "pass" ELSE "na"
WantsOf(c, any, w) == { F(p[1], Among(any /\ p[1] \notin c.has, any), p[2]) : p \in w }
FearsOf(c, any, w) == { F(p[1], Among(any /\ p[1] \in c.has, any), p[2]) : p \in w }

-----------------------------------------------------------------------------
(* The management plane.                                                   *)

check_aaa_and_users(c) == In("AAA",
  Wants(c, {<<"AAA-01", CRITICAL>>, <<"AAA-02", HIGH>>, <<"AAA-04", LOW>>, <<"AAA-05", LOW>>,
        <<"AAA-06", LOW>>, <<"AAA-07", LOW>>, <<"AAA-08", MEDIUM>>})
  \cup (IF "AAA-02" \in c.has THEN Wants(c, {<<"AAA-03", MEDIUM>>}) ELSE {})
  \cup Fears(c, {<<"AAA-09", HIGH>>, <<"AAA-10", CRITICAL>>})
  \cup (IF "enable-secret" \in c.has THEN Fears(c, {<<"AAA-11", HIGH>>}) ELSE {}))

check_local_users(c) == In("Local-Users",
  FearsOf(c, "username" \in c.has, {<<"USR-01", HIGH>>, <<"USR-02", HIGH>>}) \cup { F("USR-03", "pass", INFO) })

ssh_enabled(c) == c.has \cap {"SSH-01", "ip-ssh"} # {}
vty_acl_present(c) == {"line-vty", "SSH-03"} \subseteq c.has

check_ssh_and_vty(c) == In("SSH/VTY",
  Wants(c, {<<"SSH-01", HIGH>>, <<"SSH-05", LOW>>, <<"SSH-06", LOW>>, <<"SSH-08", LOW>>})
  \cup Fears(c, {<<"SSH-02", CRITICAL>>})
  \cup WantsOf(c, "line-vty" \in c.has, {<<"SSH-03", HIGH>>, <<"SSH-04", MEDIUM>>})
  \cup Reviews({<<"SSH-07", MEDIUM>>}))

check_http(c) == In("HTTP(S)",
  Fears(c, {<<"HTTP-01", HIGH>>})
  \cup (IF "ip-http-secure-server" \in c.has THEN Wants(c, {<<"HTTP-02", MEDIUM>>}) ELSE {}))

check_snmp(c) ==
  LET communities == c.has \cap {"snmp-server-community", "SNMP-01"} # {}
      groups == "snmp-v3-group" \in c.has
  IN In("SNMP", Fears(c, {<<"SNMP-01", CRITICAL>>}) \cup { F("SNMP-02", Among(communities, groups), HIGH) }
                \cup { F("SNMP-03", Among("SNMP-03" \in c.has, groups), HIGH) } \cup Reviews({<<"SNMP-04", MEDIUM>>}))

check_ntp(c) == In("NTP", Wants(c, {<<"NTP-01", MEDIUM>>, <<"NTP-02", MEDIUM>>, <<"NTP-03", LOW>>, <<"NTP-04", LOW>>}))
check_logging(c) == In("Logging", Wants(c, {<<"LOG-01", HIGH>>, <<"LOG-02", LOW>>, <<"LOG-03", MEDIUM>>, <<"LOG-04", LOW>>}))
check_banners(c) == In("Banners", Wants(c, {<<"BAN-01", LOW>>}))

check_dns(c) == In("DNS",
  IF "ip-domain-lookup" \in c.has /\ "ip-name-server" \notin c.has
  THEN { F("DNS-01", "fail", MEDIUM) } ELSE { F("DNS-01", "pass", INFO) })

check_mpp(c) == In("MPP", { F("MPP-01", IF "MPP-01" \in c.has THEN "pass" ELSE "na", LOW) })

\* A service that is not there is a pass of no weight, unlike the other checks.
check_mgmt_exposure_matrix(c) ==
  LET probes == {<<"EXP-RESTCONF", MEDIUM>>, <<"EXP-NETCONF", MEDIUM>>, <<"EXP-GNMI", MEDIUM>>, <<"EXP-IOX", LOW>>,
                <<"EXP-TFTP", HIGH>>, <<"EXP-FTP", HIGH>>, <<"EXP-SCP", LOW>>}
  IN In("Exposure-Matrix",
       { IF p[1] \in c.has THEN F(p[1], "fail", p[2]) ELSE F(p[1], "pass", INFO) : p \in probes }
       \cup { F("EXP-GUESTSHELL", IF "guestshell" \in c.has THEN "manual_review" ELSE "pass", LOW) })

check_password_security(c) == In("Password-Security",
  Wants(c, {<<"PWD-01", MEDIUM>>, <<"PWD-04", LOW>>}) \cup Fears(c, {<<"PWD-02", HIGH>>, <<"PWD-03", MEDIUM>>}))

-----------------------------------------------------------------------------
(* Layer 2.  The ports of a configuration are its physical interfaces.     *)

physical_interfaces(c) == DOMAIN c.ports
is_trunk_port(p) == "switchport-mode-trunk" \in p
is_access_port(p) ==
  /\ p \cap {"switchport-mode-trunk", "no-switchport"} = {}
  /\ p \cap {"switchport-mode-access", "access_vlan", "native_vlan", "allowed_vlans", "nonegotiate", "port_security",
            "ps_max", "ps_max-high", "ps_sticky", "protect"} # {}
Access(c) == { i \in physical_interfaces(c) : is_access_port(c.ports[i]) }
Trunks(c) == { i \in physical_interfaces(c) : is_trunk_port(c.ports[i]) }
Lacking(c, ports, line) == { i \in ports : line \notin c.ports[i] }
Having(c, ports, line) == { i \in ports : line \in c.ports[i] }

\* A description that names an uplink exempts an access port.
looks_like_uplink(p) == "uplink" \in p
Genuine(c) == { i \in Access(c) : ~looks_like_uplink(c.ports[i]) }
Secured(c) == Having(c, Genuine(c), "port_security")

check_port_security(c) ==
  LET some == Secured(c) # {} IN In("Port-Security",
  { F("L2PS-01", Among(Secured(c) # Genuine(c), Genuine(c) # {}), HIGH),
    F("L2PS-02", Among(Having(c, Secured(c), "ps_max-high") # {}, some), MEDIUM),
    F("L2PS-03", Among(Lacking(c, Secured(c), "ps_sticky") # {}, some), LOW),
    F("L2PS-04", Among(Having(c, Secured(c), "protect") # {}, some), LOW) })

check_stp(c) == In("Spanning-Tree",
  { F("STP-01", Among("bpduguard-default" \notin c.has /\ Lacking(c, Access(c), "bpduguard") # {}, TRUE), HIGH),
    F("STP-02", Among(\A i \in DOMAIN c.ports : "rootguard" \notin c.ports[i], TRUE), MEDIUM),
    F("STP-03", Among("loopguard-default" \notin c.has /\ \A i \in DOMAIN c.ports : "loopguard" \notin c.ports[i], TRUE), MEDIUM),
    F("STP-04", "pass", INFO) })

check_udld(c) == In("UDLD", Wants(c, {<<"UDLD-01", LOW>>}))

check_storm_control(c) == In("Storm-Control",
  { F("STORM-01", Among(Lacking(c, Access(c), "storm_broadcast") # {}, Access(c) # {}), MEDIUM) })

dhcp_snooping_enabled(c) == "DHCPSNOOP-01" \in c.has
TrustedPorts(c) == Having(c, physical_interfaces(c), "dhcp_snoop_trust")

check_dhcp_snooping(c) ==
  LET untrusted == Access(c) \ TrustedPorts(c)
      any == Access(c) # {} /\ dhcp_snooping_enabled(c)
      most == Max({2, Cardinality(physical_interfaces(c)) \div 4})
  IN In("DHCP-Snooping", Wants(c, {<<"DHCPSNOOP-01", CRITICAL>>, <<"DHCPSNOOP-02", MEDIUM>>}) \cup
  { F("DHCPSNOOP-03", Among(dhcp_snooping_enabled(c) /\ Lacking(c, untrusted, "dhcp_rate") # {}, any), MEDIUM),
    F("DHCPSNOOP-04", Among(Having(c, untrusted, "dhcp_rate-bad") # {}, any), LOW),
    F("DHCPSNOOP-05", Among(Cardinality(TrustedPorts(c)) > most, TRUE), LOW) })

dai_enabled(c) == "DAI-01" \in c.has
device_tracking_configured(c) == "DAI-05" \in c.has

check_dai(c) ==
  LET trusted == Having(c, physical_interfaces(c), "dai_trust")
      unlimited == Lacking(c, Access(c) \ TrustedPorts(c), "arp_rate")
  IN In("Dynamic-ARP-Inspection", Wants(c, {<<"DAI-01", HIGH>>, <<"DAI-03", LOW>>, <<"DAI-05", LOW>>}) \cup
  { F("DAI-02", Among(trusted # TrustedPorts(c), dai_enabled(c)), MEDIUM),
    F("DAI-04", Among(dai_enabled(c) /\ unlimited # {}, dai_enabled(c)), LOW) })

check_ip_source_guard(c) == In("IP-Source-Guard",
  { F("IPSG-01", Among(dhcp_snooping_enabled(c) /\ Lacking(c, Access(c), "ipsg") # {}, Access(c) # {}), MEDIUM) })

native_vlan_changed(c) == Having(c, Trunks(c), "native_vlan") # {}
trunk_allows_all_vlans(c) == Lacking(c, Trunks(c), "allowed_vlans") # {}

check_trunk_native_vtp(c) ==
  LET some == Trunks(c) # {} IN In("Trunk/Native-VLAN/VTP",
  { F("TRUNK-01", Among(Lacking(c, Trunks(c), "native_vlan") # {}, some), MEDIUM),
    F("TRUNK-02", Among(trunk_allows_all_vlans(c), some), MEDIUM),
    F("TRUNK-03", Among(Lacking(c, Trunks(c), "nonegotiate") # {}, some), LOW) }
  \cup Wants(c, {<<"VTP-01", MEDIUM>>}))

check_etherchannel(c) == In("EtherChannel", Fears(c, {<<"ECHAN-01", LOW>>}))

-----------------------------------------------------------------------------
(* Layer 3.                                                                *)

check_urpf(c) == In("uRPF", Wants(c, {<<"URPF-01", MEDIUM>>})
  \cup (IF {"URPF-01", "loose-urpf"} \subseteq c.has THEN Reviews({<<"URPF-02", LOW>>}) ELSE {}))

Protocols == {"router-ospf", "router-eigrp", "router-rip", "router-bgp", "router-isis"}

check_routing_auth(c) ==
  LET uses(protocol, findings) == IF protocol \in c.has THEN findings ELSE {} IN In("Routing-Protocol-Authentication",
  uses("router-ospf", Wants(c, {<<"RTAUTH-OSPF-01", HIGH>>, <<"RTAUTH-OSPF-02", LOW>>}))
  \cup uses("router-eigrp", Wants(c, {<<"RTAUTH-EIGRP-01", HIGH>>}))
  \cup uses("router-rip", Wants(c, {<<"RTAUTH-RIP-01", MEDIUM>>}))
  \cup uses("router-bgp", WantsOf(c, "bgp-neighbor" \in c.has, {<<"RTAUTH-BGP-01", HIGH>>})
            \cup Wants(c, {<<"RTAUTH-BGP-02", MEDIUM>>, <<"RTAUTH-BGP-03", MEDIUM>>}) \cup Reviews({<<"RTAUTH-BGP-04", LOW>>}))
  \cup uses("router-isis", Wants(c, {<<"RTAUTH-ISIS-01", HIGH>>}))
  \cup (IF c.has \cap Protocols = {} THEN NotUsed("RTAUTH-00") ELSE {}))

check_fhrp(c) ==
  LET groups == Having(c, DOMAIN c.ports, "standby")
      vrrp == Having(c, DOMAIN c.ports, "vrrp")
      open == Lacking(c, groups, "standby-authentication")
      plain == Lacking(c, groups \ open, "standby-md5")
  IN In("FHRP",
    (IF groups = {} THEN {} ELSE
       { F("FHRP-HSRP-01", Among(open # {}, TRUE), HIGH), F("FHRP-HSRP-02", Among(plain # {}, open = {}), MEDIUM) })
    \cup (IF vrrp = {} THEN {} ELSE { F("FHRP-VRRP-01", Among(Lacking(c, vrrp, "vrrp-authentication") # {}, TRUE), MEDIUM) })
    \cup (IF groups \cup vrrp = {} THEN NotUsed("FHRP-00") ELSE {}))

check_icmp_hardening(c) ==
  LET routed == Having(c, physical_interfaces(c), "ip-address")
      closed(line) == Among(Lacking(c, routed, line) # {}, routed # {})
  IN In("ICMP/IP-Hardening",
    { F("ICMP-01", closed("no-ip-redirects"), MEDIUM), F("ICMP-02", closed("no-ip-proxy-arp"), MEDIUM),
      F("ICMP-03", closed("no-ip-unreachables"), LOW) }
    \cup Wants(c, {<<"ICMP-04", MEDIUM>>}) \cup Reviews({<<"ICMP-05", LOW>>}))

check_acl_analysis(c) == In("ACL-Analysis",
  IF "ip-access-list" \notin c.has THEN NotUsed("ACL-00")
  ELSE Fears(c, {<<"ACL-01", LOW>>, <<"ACL-02", HIGH>>, <<"ACL-03", LOW>>}) \cup Reviews({<<"ACL-04", LOW>>, <<"ACL-05", INFO>>}))

check_object_tracking(c) == In("Object-Tracking",
  IF "track" \notin c.has THEN NotUsed("TRACK-00") ELSE Fears(c, {<<"TRACK-01", HIGH>>, <<"TRACK-02", INFO>>}))

-----------------------------------------------------------------------------
(* Control plane, VPN, firewall, certificates, the box itself, the rest.   *)

CoppClasses == {<<"COPP-CLASS-ICMP", MEDIUM>>, <<"COPP-CLASS-ARP", MEDIUM>>, <<"COPP-CLASS-ROUTING", MEDIUM>>,
  <<"COPP-CLASS-MGMT", MEDIUM>>, <<"COPP-CLASS-L2CTRL", LOW>>, <<"COPP-CLASS-DHCP", LOW>>,
  <<"COPP-CLASS-FHRP", LOW>>, <<"COPP-CLASS-MCAST", LOW>>}
copp_configured(c) == "COPP-01" \in c.has
copp_class_coverage(c) == IF copp_configured(c) THEN Cardinality({ p \in CoppClasses : p[1] \in c.has }) ELSE 0

check_copp(c) == In("CoPP", Wants(c, {<<"COPP-01", CRITICAL>>})
  \cup (IF copp_configured(c) THEN Wants(c, CoppClasses) ELSE NotUsed("COPP-02")))

check_cpu_risk(c) == In("High-CPU-Risk-Indicators",
  { F("CPURISK-01", IF copp_configured(c) THEN "pass" ELSE "fail", CRITICAL) }
  \cup Fears(c, {<<"CPURISK-02", MEDIUM>>, <<"CPURISK-03", HIGH>>, <<"CPURISK-04", LOW>>,
             <<"CPURISK-05", LOW>>, <<"CPURISK-06", MEDIUM>>}))

vpn_configured(c) == "vpn" \in c.has

check_vpn(c) ==
  LET algorithms(id, any) == { F(id, IF id \in c.has THEN "fail" ELSE IF any THEN "pass" ELSE "manual_review", HIGH) }
  IN In("IPsec-VPN",
    IF ~vpn_configured(c) THEN NotUsed("VPN-00")
    ELSE algorithms("VPN-01", "ikev2-proposal" \in c.has) \cup algorithms("VPN-03", "transform-set" \in c.has)
      \cup FearsOf(c, "ikev2-profile" \in c.has, {<<"VPN-02", MEDIUM>>})
      \cup FearsOf(c, "ipsec-profile" \in c.has, {<<"VPN-04", MEDIUM>>})
      \cup FearsOf(c, "pre-shared-key" \in c.has, {<<"VPN-05", HIGH>>})
      \cup { F("VPN-06", IF "crypto-map" \in c.has THEN "manual_review" ELSE "pass", LOW) } \cup Reviews({<<"VPN-07", INFO>>}))

check_zbfw(c) == In("Zone-Based-Policy-Firewall",
  IF "zone-security" \notin c.has THEN NotUsed("ZBFW-00")
  ELSE Wants(c, {<<"ZBFW-01", HIGH>>, <<"ZBFW-02", HIGH>>, <<"ZBFW-03", HIGH>>, <<"ZBFW-04", MEDIUM>>}))

pki_revocation_none_or_missing(c) == "trustpoint" \in c.has /\ c.has \cap {"PKI-01", "PKI-02"} # {}

check_pki(c) == In("Cryptography/PKI",
  IF "trustpoint" \notin c.has THEN NotUsed("PKI-00")
  ELSE Fears(c, {<<"PKI-01", HIGH>>, <<"PKI-02", MEDIUM>>, <<"PKI-04", LOW>>, <<"PKI-05", MEDIUM>>, <<"PKI-06", HIGH>>})
    \cup { F("PKI-03", IF "self-signed" \in c.has THEN "manual_review" ELSE "pass", MEDIUM) }
    \cup Reviews({<<"PKI-07", INFO>>, <<"PKI-08", INFO>>, <<"PKI-09", INFO>>, <<"PKI-10", INFO>>, <<"PKI-11", INFO>>}))

password_recovery_disabled(c) == "PHYS-01" \in c.has

check_physical(c) == In("Physical-Security",
  Wants(c, {<<"PHYS-01", MEDIUM>>})
  \cup (IF "line-con" \notin c.has THEN {}
        ELSE { F("PHYS-02", IF "console-timeout" \in c.has THEN "pass" ELSE "fail",
                 IF "console-never" \in c.has THEN HIGH ELSE MEDIUM) })
  \cup (IF "line-aux" \notin c.has THEN {} ELSE { F("PHYS-03", IF "aux-disabled" \in c.has THEN "pass" ELSE "manual_review", MEDIUM) })
  \cup Reviews({<<"PHYS-04", INFO>>, <<"PHYS-05", INFO>>}))

config_register_break_enabled(c) == {"config-register", "BOOT-04"} \subseteq c.has

check_boot_and_secure_boot(c) == In("Boot-Configuration/Secure-Boot",
  Wants(c, {<<"BOOT-01", MEDIUM>>}) \cup Fears(c, {<<"BOOT-03", MEDIUM>>})
  \cup (IF {"BOOT-01", "several-images"} \subseteq c.has THEN Reviews({<<"BOOT-02", LOW>>}) ELSE {})
  \cup (IF "config-register" \in c.has THEN Fears(c, {<<"BOOT-04", MEDIUM>>}) ELSE Reviews({<<"BOOT-04", INFO>>}))
  \cup Reviews({<<"BOOT-05", INFO>>, <<"BOOT-06", INFO>>, <<"BOOT-07", INFO>>, <<"BOOT-08", MEDIUM>>, <<"BOOT-09", INFO>>}))

check_unnecessary_services(c) == In("Unnecessary-Services",
  Fears(c, {<<"SVC-01", MEDIUM>>, <<"SVC-02", MEDIUM>>, <<"SVC-03", LOW>>, <<"SVC-04", LOW>>,
        <<"SVC-05", LOW>>, <<"SVC-06", MEDIUM>>, <<"SVC-07", LOW>>})
  \cup { F("SVC-08", IF "no-vstack" \in c.has THEN "pass" ELSE IF "vstack" \in c.has THEN "fail" ELSE "manual_review", CRITICAL),
         F("SVC-09", IF "no-cdp-run" \in c.has THEN "pass" ELSE "manual_review", LOW),
         F("SVC-10", IF "no-lldp-run" \in c.has THEN "pass" ELSE "manual_review", LOW) })

check_misc(c) == In("Miscellaneous",
  Wants(c, {<<"MISC-01", LOW>>, <<"MISC-05", LOW>>})
  \cup { IF "multicast" \in c.has THEN F("MISC-02", "manual_review", LOW) ELSE F("MISC-02", "pass", INFO),
         F("MISC-03", IF "no-scripting-tcl" \in c.has THEN "pass" ELSE "manual_review", LOW),
         F("MISC-04", IF "ip-helper-address" \in c.has THEN "manual_review" ELSE "na", LOW) }
  \cup Reviews({<<"MISC-06", INFO>>}) \cup NotUsed("MISC-07"))

check_ios_version(c) == In("IOS-XE-Version",
  { F("VER-01", IF "version" \in c.has THEN "pass" ELSE "manual_review", INFO), F("VER-02", "pass", INFO) })

run_all_device_checks(c) ==
  UNION { check_aaa_and_users(c), check_local_users(c), check_ssh_and_vty(c), check_http(c), check_snmp(c), check_ntp(c),
          check_logging(c), check_banners(c), check_dns(c), check_mpp(c), check_mgmt_exposure_matrix(c),
          check_password_security(c), check_port_security(c), check_stp(c), check_udld(c), check_storm_control(c),
          check_dhcp_snooping(c), check_dai(c), check_ip_source_guard(c), check_trunk_native_vtp(c),
          check_etherchannel(c), check_urpf(c), check_routing_auth(c), check_fhrp(c), check_icmp_hardening(c),
          check_acl_analysis(c), check_object_tracking(c), check_copp(c), check_cpu_risk(c), check_vpn(c),
          check_zbfw(c), check_pki(c), check_physical(c), check_boot_and_secure_boot(c),
          check_unnecessary_services(c), check_misc(c), check_ios_version(c) }

\* Findings about two facts at once; a rule about SNMP lists never applies.
run_correlation_engine(c) ==
  LET rule(id, holds, weight) == IF holds THEN { F(id, "fail", weight) } ELSE {} IN In("Correlation-Engine",
  rule("CORR-01", dhcp_snooping_enabled(c) /\ ~dai_enabled(c), HIGH)
  \cup rule("CORR-02", dai_enabled(c) /\ ~device_tracking_configured(c), MEDIUM)
  \cup rule("CORR-03", ssh_enabled(c) /\ ~vty_acl_present(c), HIGH)
  \cup rule("CORR-05", native_vlan_changed(c) /\ trunk_allows_all_vlans(c), MEDIUM)
  \cup rule("CORR-06", Lacking(c, Secured(c), "ps_sticky") # {}, LOW)
  \cup rule("CORR-07", copp_configured(c) /\ copp_class_coverage(c) \leq 1, HIGH)
  \cup rule("CORR-08", vpn_configured(c) /\ pki_revocation_none_or_missing(c), HIGH)
  \cup rule("CORR-09", password_recovery_disabled(c) /\ config_register_break_enabled(c), MEDIUM)
  \cup rule("CORR-10", {"guestshell", "EXP-IOX"} \subseteq c.has, LOW))

-----------------------------------------------------------------------------
(* The rules applied to every interface.                                   *)

\* What the second parser makes of a physical interface: nothing said means an access port.
parse_interface_config(p) ==
  [mode |-> IF "switchport-mode-trunk" \in p THEN "trunk"
            ELSE IF "switchport-mode-access" \in p THEN "access"
            ELSE IF "ip-address" \in p THEN "routed" ELSE "access",
   lines |-> p]

\* The rules that look for one line, by the interfaces they are for: the line, the weight and what
\* its absence is.
Rule(id, line, weight, missing) == [id |-> id, line |-> line, weight |-> weight, missing |-> missing]
AnyRules == { Rule("interface_description", "description", LOW, "warn"), Rule("cdp_control", "no-cdp", LOW, "warn"),
  Rule("lldp_control", "no-lldp", LOW, "warn"), Rule("qos_policy", "service-policy", LOW, "warn"),
  Rule("acl_presence", "access-group", MEDIUM, "warn"), Rule("protected_port", "protected-port", LOW, "warn") }
AccessRules == { Rule("access_vlan_not_default", "access_vlan", HIGH, "fail"), Rule("portfast", "portfast", MEDIUM, "fail"),
  Rule("bpduguard", "bpduguard", CRITICAL, "fail"), Rule("port_security", "port_security", CRITICAL, "fail"),
  Rule("ip_source_guard", "ipsg", HIGH, "fail") }
TrunkRules == { Rule("trunk_native_vlan", "native_vlan", CRITICAL, "fail"), Rule("rootguard", "rootguard", HIGH, "fail"),
  Rule("trunk_allowed_vlans", "allowed_vlans", CRITICAL, "fail"), Rule("dtp_disabled", "nonegotiate", HIGH, "fail"),
  Rule("loopguard", "loopguard", MEDIUM, "warn"), Rule("udld", "udld", MEDIUM, "warn") }
SwitchRules == { Rule("storm_control", "storm_broadcast", HIGH, "fail"), Rule("dot1x", "auth_port_control", HIGH, "warn"),
  Rule("ipv6_ra_guard", "raguard", MEDIUM, "warn") }
SecureRules == { Rule("port_security_max", "ps_max", HIGH, "fail"), Rule("port_security_sticky", "ps_sticky", MEDIUM, "warn"),
  Rule("port_security_violation", "ps_violation", HIGH, "warn") }
AuthRules == { Rule("mab", "mab", MEDIUM, "warn"), Rule("auth_order", "auth_order", MEDIUM, "warn"),
  Rule("guest_vlan", "guest_vlan", LOW, "warn"), Rule("critical_vlan", "critical_vlan", LOW, "warn"),
  Rule("reauthentication", "reauth", MEDIUM, "warn") }

\* The rules that are for an interface, and what each says of it.
assess_features(f, g) ==
  LET found(id, status, weight) == [check |-> id, at |-> NoName, domain |-> "Interface-Security", status |-> status, weight |-> weight]
      apply(rules, if) == IF ~if THEN {} ELSE
        { found(r.id, IF r.line \in f.lines THEN "pass" ELSE r.missing, r.weight) : r \in rules }
      \* an access port is not to be trusted, a trunk is
      trust(ids, global, line) ==
        CASE f.mode = "access" -> { found(ids.access, IF global \notin g THEN "fail"
                                          ELSE IF line \in f.lines THEN "warn" ELSE "pass", CRITICAL) }
          [] f.mode = "trunk" -> { found(ids.trunk, IF global \notin g THEN "fail"
                                         ELSE IF line \in f.lines THEN "pass" ELSE "fail", CRITICAL) }
          [] OTHER -> {}
  IN UNION { apply(AnyRules, TRUE), apply(AccessRules, f.mode = "access"), apply(TrunkRules, f.mode = "trunk"),
             apply(SwitchRules, f.mode \in {"access", "trunk"}), apply(SecureRules, "port_security" \in f.lines),
             apply(AuthRules, "auth_port_control" \in f.lines),
             { found("explicit_mode", IF f.mode \in {"access", "trunk", "routed"} THEN "pass" ELSE "fail", MEDIUM) },
             trust([access |-> "dhcp_snooping_access", trunk |-> "dhcp_snooping_trunk"], "DHCPSNOOP-01", "dhcp_snoop_trust"),
             trust([access |-> "dai_access", trunk |-> "dai_trunk"], "DAI-01", "dai_trust") }

to_unified_findings(i, assessment) == { [f EXCEPT !.at = i] : f \in assessment }

\* The rules are handed the record of the interface, not the features in it: of those they see
\* the description alone.
Handed(p) == [mode |-> "none", lines |-> p \cap {"description"}]

run_interface_checks(c) ==
  UNION { to_unified_findings(i, assess_features(Handed(c.ports[i]), c.has)) : i \in DOMAIN c.ports }

-----------------------------------------------------------------------------
(* Score and compliance.                                                   *)

\* In tenths of a percent: what was earned, a warning half of it, of what could be.
score_findings(findings) ==
  LET weighing(statuses, w) == w * Cardinality({ f \in findings : f.status \in statuses /\ f.weight = w })
      all(statuses) == weighing(statuses, CRITICAL) + weighing(statuses, HIGH) + weighing(statuses, MEDIUM) + weighing(statuses, LOW)
      applicable == all({"pass", "warn", "manual_review", "fail"})
      halves == all({"pass"}) + all({"pass", "warn"})
  IN IF applicable = 0 THEN 1000 ELSE (halves * 1000 + applicable) \div (2 * applicable)

score_by_domain(findings) ==
  [d \in { f.domain : f \in findings } |-> score_findings({ f \in findings : f.domain = d })]

risk_level(score) ==
  IF score \geq 950 THEN "Minimal" ELSE IF score \geq 850 THEN "Low" ELSE IF score \geq 700 THEN "Medium"
  ELSE IF score \geq 500 THEN "High" ELSE IF score \geq 250 THEN "Severe" ELSE "Critical"

control_status(statuses) ==
  IF "fail" \in statuses THEN "fail"
  ELSE IF "manual_review" \in statuses THEN "manual_review"
  ELSE IF statuses = {"na"} THEN "na" ELSE "pass"

\* The controls of a framework that the checks of this audit say something about.
map_findings_to_compliance(findings, framework) ==
  LET of(control) == { f.status : f \in { h \in findings : h.check \in framework[control] } }
  IN [control \in { x \in DOMAIN framework : of(x) # {} } |-> control_status(of(control))]

Stored(findings, framework) ==
  [findings |-> findings, score |-> score_findings(findings), domains |-> score_by_domain(findings),
   controls |-> map_findings_to_compliance(findings, framework)]

run_device_audit(c, framework) ==
  Stored(run_all_device_checks(c) \cup run_correlation_engine(c) \cup run_interface_checks(c), framework)
=============================================================================
