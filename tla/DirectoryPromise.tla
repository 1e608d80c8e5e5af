--------------------------- MODULE DirectoryPromise ---------------------------
(***************************************************************************)
(* What the cross-source device table promises its readers, without saying *)
(* how concurrent sources are kept apart: a field is filled once, with a   *)
(* value some source knows, and what was filled or noted is never taken    *)
(* back.  DeviceDirectory implements this.                                 *)
(***************************************************************************)
CONSTANTS
    Ips,
    Fields,     \* the structured fields of an entry
    Values,     \* what a source can know of a field
    Empty,      \* nothing known
    Contributors

VARIABLES
    filled,     \* what each field of each address holds
    heard       \* who contributed to each address

Init ==
    /\ filled = [ip \in Ips |-> [f \in Fields |-> Empty]]
    /\ heard = [ip \in Ips |-> {}]

\* One contribution: it fills fields that are empty and leaves the others.
Contribute(ip) ==
    /\ \E c \in Contributors : heard' = [heard EXCEPT ![ip] = @ \cup {c}]
    /\ \E new \in [Fields -> Values \cup {Empty}] :
        filled' = [filled EXCEPT ![ip] =
                      [f \in Fields |-> IF @[f] = Empty THEN new[f] ELSE @[f]]]

Next == \E ip \in Ips : Contribute(ip)

Spec == Init /\ [][Next]_<<filled, heard>>
=============================================================================
