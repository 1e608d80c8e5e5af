------------------------------ MODULE LogLines ------------------------------
(***************************************************************************)
(* How the sources turn a line into an event: the rule table of            *)
(* librenms_syslog._normalize with its parsers, and the Pi-hole source's   *)
(* _normalize.  A line is the record of what its program says: which of    *)
(* its known wordings it has (`form`), and the fields that wording names.  *)
(* For a row of Pi-hole's log, program "pihole", `form` is the status.     *)
(* Programs stand for their families:                                      *)
(* "sshd" for SSHD and SSHD-SESSION, "vpn" for VPNSERVER*, OPENVPN and     *)
(* PPTPD, "wifi" for WLCEVENTD and HOSTAPD, "winsec" and "defender" for    *)
(* the Windows Security auditing and Defender channels.                    *)
(***************************************************************************)
EXTENDS EventQueries

CONSTANTS
    Loopback,   \* 127.0.0.1
    Ipv6        \* addresses that are none of IPv4

NoTime == -1
OrdinaryTtl == 64

\* A line that names nothing.
Line(program, form) ==
    [id |-> <<>>, ts |-> NoTime, program |-> program, form |-> form, user |-> NoValue,
     subject |-> NoValue, ip |-> NoValue, dst |-> NoValue, port |-> 0,
     detail |-> NoValue, domain |-> NoValue, ttl |-> OrdinaryTtl, len |-> 0]

\* The event every line is, whatever it says: its columns are empty.
System(line) ==
    [id |-> line.id, ts |-> line.ts, kind |-> "system", program |-> line.program,
     action |-> NoValue, user |-> NoValue, ip |-> NoValue, dst |-> NoValue, port |-> 0,
     detail |-> NoValue, reason |-> NoValue, domain |-> NoValue, ttl |-> OrdinaryTtl,
     len |-> 0]

\* Which wordings are outcomes of an authentication, and of which sort.
Outcome(program, form, action) == [program |-> program, form |-> form, action |-> action]

SshOutcomes ==
    {Outcome("sshd", "accepted", "ssh_accepted"), Outcome("sshd", "failed", "ssh_failed"),
     Outcome("sshd", "invalid user", "ssh_invalid"),
     Outcome("sshd", "session opened", "session_open"),
     Outcome("sshd", "session closed", "session_close")}

\* A disconnect says how often authentication was tried, or that it was not.
DropbearOutcomes ==
    {Outcome("dropbear", "auth succeeded", "ssh_accepted"),
     Outcome("dropbear", "bad password", "ssh_failed"),
     Outcome("dropbear", "max tries of user", "ssh_failed"),
     Outcome("dropbear", "max tries, user is invalid", "ssh_invalid")}

WindowsOutcomes ==
    {Outcome("winsec", "logged on", "logon_success"),
     Outcome("winsec", "failed to log on", "logon_failed"),
     Outcome("winsec", "special privileges", "privileged"),
     Outcome("winsec", "explicit credentials", "explicit_creds"),
     Outcome("winsec", "locked out", "lockout")}

WebOutcomes ==
    {Outcome("uhttpd", "luci accepted", "web_login_success"),
     Outcome("uhttpd", "luci failed", "web_login_failed"),
     Outcome("httpd", "web successful", "web_login_success"),
     Outcome("httpd", "web failed", "web_login_failed")}

Outcomes == SshOutcomes \cup DropbearOutcomes \cup WindowsOutcomes \cup WebOutcomes

\* Slip: the account is the first one the message names, the requester's.
RequestingAccount(line) == IF line.subject # NoValue THEN line.subject ELSE line.user

\* _win_account: the account a logon is about; without one, the requester's,
\* but for those two which have a marker of their own.  The other programs name
\* one account at most; Dropbear's "is invalid" is none.
Account(line) ==
    IF line.user # NoValue THEN line.user
    ELSE IF line.program = "winsec" /\ line.form \notin {"explicit credentials", "locked out"}
    THEN line.subject ELSE NoValue

\* The outcome a line is.  The patterns of both SSH servers and of the httpd
\* panel match IPv4 addresses only: with another one their lines are none.
OutcomeOf(line) ==
    {o \in Outcomes :
        /\ o.program = line.program /\ o.form = line.form
        /\ line.program \in {"sshd", "dropbear", "httpd"} => line.ip \notin Ipv6}

Authentication(line, action) ==
    [System(line) EXCEPT !.kind = "auth", !.action = action, !.user = Account(line),
                         !.ip = line.ip, !.detail = line.detail]

\* A deauthentication names the client's hardware address, and so does a lease.
IsDeauth(line) == line.program = "wifi" /\ line.form = "deauth" /\ line.user # NoValue

LeaseForms == {"dhcpack", "dhcprequest", "dhcpoffer", "dhcpdiscover", "dhcprelease", "dhcpinform"}
IsLease(line) == line.program = "dhcp" /\ line.form \in LeaseForms /\ line.user # NoValue

\* Slip: replies and forwards are taken for lookups as well.
IsLookupLine(line) == line.program = "dnsmasq" /\ line.ip # Loopback /\ line.domain # NoValue

\* _parse_dnsmasq_query: only a query line is a lookup, and none of the sweep
\* that dnsmasq makes of its own addresses when it starts.
IsLookup(line) == line.program = "dnsmasq" /\ line.form = "query" /\ line.ip # Loopback

\* The rows of Pi-hole's log are lookups, but for those it is still working on.
Query(line) ==
    [System(line) EXCEPT !.kind = "dns", !.ip = line.ip, !.domain = line.domain,
                         !.detail = line.detail, !.reason = line.form]

\* The event of a line; a line without a readable time has none.
Normalize(line) ==
    IF line.ts = NoTime THEN {}
    ELSE IF line.program = "pihole" THEN
        IF line.form = "IN_PROGRESS" THEN {} ELSE {Query(line)}
    ELSE IF line.program = "kernel" /\ line.form \in {"drop", "accept", "reject"} THEN
        {[System(line) EXCEPT !.kind = "firewall", !.action = line.form, !.ip = line.ip,
                              !.dst = line.dst, !.port = line.port, !.detail = line.detail,
                              !.ttl = line.ttl, !.len = line.len]}
    ELSE IF line.program = "vpn" THEN {[System(line) EXCEPT !.kind = "auth"]}
    ELSE IF IsDeauth(line) THEN
        {[System(line) EXCEPT !.kind = "auth", !.action = "deauth", !.user = line.user]}
    ELSE IF IsLease(line) THEN
        {[System(line) EXCEPT !.action = line.form, !.user = line.user, !.ip = line.ip]}
    ELSE IF IsLookup(line) THEN
        {[System(line) EXCEPT !.kind = "dns", !.ip = line.ip, !.domain = line.domain,
                              !.detail = line.detail]}
    ELSE IF line.program = "defender" /\ line.form = "has detected" THEN
        {[System(line) EXCEPT !.kind = "ids", !.action = "detection"]}
    ELSE IF OutcomeOf(line) # {} THEN {Authentication(line, o.action) : o \in OutcomeOf(line)}
    ELSE {System(line)}

Events(lines) == UNION {Normalize(line) : line \in lines}
=============================================================================
