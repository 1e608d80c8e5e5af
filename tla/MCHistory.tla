------------------------------ MODULE MCHistory ------------------------------
(***************************************************************************)
(* History for TLC: a daemon and a command line, whose runs collect small  *)
(* sets of events that mention two domains, two clients, a device and two  *)
(* accounts.                                                               *)
(***************************************************************************)
EXTENDS History, TLC

Ev(id, kind, action, domain, ip, user) ==
    [id |-> id, ts |-> 0, kind |-> kind, action |-> action, domain |-> domain,
     ip |-> ip, user |-> user]

MCEvents ==
    {Ev(1, "dns", "", "site", "phone", ""), Ev(2, "dns", "", "benign", "phone", ""),
     Ev(3, "firewall", "drop", "", "scanner", ""), Ev(4, "firewall", "drop", "", "phone", ""),
     Ev(5, "auth", "ssh_failed", "", "scanner", "root"),
     Ev(6, "auth", "ssh_accepted", "", "phone", "root"),
     Ev(7, "auth", "web_login_success", "", "phone", "root"),
     Ev(8, "system", "dhcpack", "", "phone", "mac"),
     Ev(9, "dns", "", "other", "phone", ""), Ev(10, "dns", "", "third", "phone", ""),
     Ev(12, "dns", "", "other", "phone", "")}

Pick(events, ids) == {ev \in events : ev.id \in ids}
MCRuns == Processes \X (1..2)

Quiet == Pick(MCEvents, {1, 3, 7})
Busy == Pick(MCEvents, {2, 5, 6, 8, 9, 10, 12})
MCBatches == [r \in MCRuns |->
    IF r = <<"serve", 1>> THEN {Quiet} ELSE IF r[1] = "cli" THEN {Busy} ELSE {Quiet, Busy}]

MCLower == [v \in {"site", "Site", "benign", "other", "third", ""} |->
                IF v = "Site" THEN "site" ELSE v]
MCEntity == [type : {"domain"}, value : {"site", "Site", "benign", "other", "third"}]
            \cup [type : {"ip"}, value : {"phone", "scanner"}]
            \cup [type : {"user"}, value : {"root"}]
            \cup [type : {"device"}, value : {"root", "mac"}]
MCMaxRuns == [p \in Processes |-> IF p = "serve" THEN 2 ELSE 1]
NoRunYet == <<"nobody", 0>>
MCFormats == <<"txt", "json">>
=============================================================================
