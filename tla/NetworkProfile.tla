--------------------------- MODULE NetworkProfile ---------------------------
(***************************************************************************)
(* What the site's profile tells the analyzers (profile.py): in which zone *)
(* an address is, how far a zone is trusted, which resolvers are approved  *)
(* of, which ports are watched, and which domains are known to be benign.  *)
(* A domain is a name of DOMAIN Labels.                                    *)
(***************************************************************************)
EXTENDS SequencesExt

CONSTANTS
    Zone,       \* Zone[ip]: the zone of a private address, or "private"
    Trust,      \* Trust[z]: how far a zone of the profile is trusted
    Approved,   \* the resolvers its hosts may use
    Watched,    \* the ports of its attack surface
    Labels,     \* Labels[d]: a domain's labels, the leftmost first
    BenignDomains,  \* benign names, as labels, ...
    BenignSuffixes  \* ... and such that all names below them are, too

\* Profile.zone_of; an address of no zone and not private is external.
zone_of(ip) == IF ip \in DOMAIN Zone THEN Zone[ip] ELSE "external"

\* Profile.is_internal; the analyzers ask it of addresses only.
IsInternal(ip) == zone_of(ip) # "external"

\* What a zone is when it comes to trust: "private" is none of the profile's.
UNTRUSTED == {"untrusted", "semi-trusted", "dmz", "guest"}
_trust(zone) == IF zone \in DOMAIN Trust THEN Trust[zone] ELSE "unknown"

\* A name that is one of the given names or lies under one.
IsUnder(labels, names) == \E name \in names : IsSuffix(name, labels)

\* Profile.is_benign_domain
IsBenign(labels) == labels \in BenignDomains \/ IsUnder(labels, BenignSuffixes)
=============================================================================
