------------------------------ MODULE MCCollect ------------------------------
(***************************************************************************)
(* Collect for TLC: two devices and Pi-hole, a window of four hours in     *)
(* hundredths, the tolerance of a window that was cut.                     *)
(***************************************************************************)
EXTENDS Collect, TLC

\* Records of a feed at the given times; those at times in `bad` do not
\* normalise, the first carries an address.
Records(name, times, bad, ip) ==
    [i \in 1..Len(times) |->
        [id |-> <<name, i>>, t |-> times[i], ok |-> times[i] \notin bad,
         ip |-> IF i = 1 THEN ip ELSE ""]]

Logs(p, one, two) == (Pihole :> p) @@ ("d1" :> one) @@ ("d2" :> two)

\* Logs of Pi-hole and of the two devices: full pages and part pages, records
\* that do not normalise, a log shorter than the window, and empty ones.
PiholeFull  == Records(Pihole, <<400, 200, 1, 0>>, {}, "a")
PiholeMixed == Records(Pihole, <<400, 300, 100, 2, -100>>, {100}, "b")
PiholeShort == Records(Pihole, <<300, 200>>, {}, "b")

LibreFull == <<Records("d1", <<0, 200, 400>>, {}, "a"), Records("d2", <<100, 300>>, {}, "b")>>
LibreEven == <<Records("d1", <<400, 0>>, {}, "a"), Records("d2", <<200, 100>>, {100}, "b")>>
LibreIdle == << <<>>, <<>> >>

World(p, l, cap, reach, cursor, trusted, filters, explicit, managed) ==
    [logs |-> Logs(p, l[1], l[2]), cap |-> cap, reach |-> reach, cursor |-> cursor,
     trusted |-> trusted, filters |-> filters, explicit |-> explicit, managed |-> managed]

MCNamed == {<<"dns-client", "a">>, <<"librenms-managed", "a">>, <<"dhcp-client", "b">>}
MCDeviceIp == ("d1" :> "a") @@ ("d2" :> "")

\* Pairs of logs with and without a page cap, Pi-hole's reach as it is by default, an
\* hour shorter than the window and a single hour, a lost page offset, and the ways
\* the credentials, the time filters and the device list can be wrong.
MCInstances ==
    {World(pair[1], pair[2], pair[3], pair[4], TRUE, Sources, TRUE, <<>>, <<"d1", "d2">>) :
        pair \in {<<PiholeFull, LibreFull, 2, 2400>>, <<PiholeFull, LibreEven, 1, 300>>,
                  <<PiholeMixed, LibreEven, 2, 100>>, << <<>>, LibreFull, 1, 2400>>}}
    \cup {World(PiholeFull, LibreFull, 2, 2400, FALSE, Sources, TRUE, <<"d1">>, <<"d1", "d2">>)}
    \cup {World(PiholeShort, LibreEven, 2, 2400, TRUE, trusted, TRUE, <<>>, <<"d1", "d2">>) :
        trusted \in {{Pihole}, {Libre}}}
    \cup {World(PiholeShort, LibreEven, 2, 2400, TRUE, Sources, FALSE, explicit, <<"d1", "d2">>) :
        explicit \in {<<>>, <<"d1">>}}
=============================================================================
