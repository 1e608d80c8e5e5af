--------------------------- MODULE EntityBaseline ---------------------------
(***************************************************************************)
(* The entities table of store.py, which no run owns and no retention or   *)
(* deletion touches, and the question Baseline.novel asks of it.  A run    *)
(* reads the rows of what its events mention and writes them back in a     *)
(* second step, so that two processes can meet between the two.            *)
(***************************************************************************)
EXTENDS EventQueries

CONSTANTS
    Processes,  \* the processes that share one database
    Entity,     \* [type, value]: domains, addresses, accounts, devices
    Events,     \* normalised events, [kind, action, domain, ip, user, ...]
    Lower,      \* Lower[v]: the lower-case form of a value
    Grace       \* Baseline's novelty_grace_hours

VARIABLES
    entities,   \* the table: first_seen and occurrences (nothing reads last_seen here)
    existing    \* what each process has read of it and not written back yet

tableVars == <<entities, existing>>

Never == -1
NoRow == [first |-> Never, count |-> 0]
Row == [first : Int, count : Int]

Known(e) == entities[e].first # Never

AccountActions == {"logon_success", "logon_failed", "privileged", "explicit_creds",
                   "lockout", "ssh_accepted", "ssh_failed", "ssh_invalid"}

\* entity_pairs_from_events: what one event counts for.  `user` is an account
\* on a logon and a hardware address on a lease or a deauthentication.
Mentioned(ev) ==
    {e \in Entity :
        /\ e.value # NoValue
        /\ \/ e.type = "domain" /\ ev.kind = "dns" /\ e.value = Lower[ev.domain]
           \/ e.type = "ip" /\ e.value = ev.ip
           \/ /\ e.type = IF ev.kind = "auth" /\ ev.action \in AccountActions
                          THEN "user" ELSE "device"
              /\ e.value = ev.user}

Mentions(events) == UNION {Mentioned(ev) : ev \in events}
Occurs(events, e) == Cardinality({ev \in events : e \in Mentioned(ev)})

TableInit ==
    /\ entities = [e \in Entity |-> NoRow]
    /\ existing = [p \in Processes |-> [e \in {} |-> 0]]

\* Slip: rows are matched by value alone, whatever their type.
ReadByValue(p, events) ==
    /\ existing' = [existing EXCEPT ![p] =
            [e \in {x \in Mentions(events) : \E y \in Entity : y.value = x.value /\ Known(y)} |->
                entities[CHOOSE y \in Entity : y.value = e.value /\ Known(y)].count]]
    /\ UNCHANGED entities

\* The first half of observe_entities: the occurrences of the rows there are.
ReadRows(p, events) ==
    /\ existing' = [existing EXCEPT ![p] =
            [e \in {x \in Mentions(events) : Known(x)} |-> entities[e].count]]
    /\ UNCHANGED entities

Fresh(p, events) == Mentions(events) \ DOMAIN existing[p]

\* The table's unique key refuses a row another process has inserted since.
Clashes(p, events) == \E e \in Fresh(p, events) : Known(e)

\* Slip: an update writes first_seen as an insert does.
WriteRowsAnew(p, events, now) ==
    /\ ~ Clashes(p, events)
    /\ entities' = [e \in Entity |->
            IF e \in Fresh(p, events)
            THEN [first |-> now, count |-> Occurs(events, e)]
            ELSE IF e \in DOMAIN existing[p]
            THEN [first |-> now, count |-> existing[p][e] + Occurs(events, e)]
            ELSE entities[e]]
    /\ existing' = [existing EXCEPT ![p] = [e \in {} |-> 0]]

\* The second half: insert what was not there, overwrite what was.
WriteRows(p, events, now) ==
    /\ ~ Clashes(p, events)
    /\ entities' = [e \in Entity |->
            IF e \in Fresh(p, events)
            THEN [first |-> now, count |-> Occurs(events, e)]
            ELSE IF e \in DOMAIN existing[p]
            THEN [entities[e] EXCEPT !.count = existing[p][e] + Occurs(events, e)]
            ELSE entities[e]]
    /\ existing' = [existing EXCEPT ![p] = [e \in {} |-> 0]]

\* The transaction is rolled back, or the process never gets to the write.
DropRows(p) ==
    /\ existing' = [existing EXCEPT ![p] = [e \in {} |-> 0]]
    /\ UNCHANGED entities

\* Slip: what was first seen exactly the grace ago is old.
NovelStrictly(values, now) ==
    {v \in values : ~ Known(v) \/ entities[v].first > now - Grace}

\* Baseline.novel: values without a row, or with one that is young enough to
\* be this run's own.  The question is asked with the value as the event has it.
Novel(values, now) ==
    {v \in values : ~ Known(v) \/ entities[v].first >= now - Grace}
=============================================================================
