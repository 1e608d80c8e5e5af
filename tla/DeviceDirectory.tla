--------------------------- MODULE DeviceDirectory ---------------------------
(***************************************************************************)
(* DeviceDirectory.update of devices.py: the one object the threads of the *)
(* collect stage share.  An update takes the lock, looks at what the entry *)
(* holds, fills what is empty and releases the lock; looking and filling   *)
(* are steps of their own, so that what the lock is for can be seen.       *)
(***************************************************************************)
EXTENDS FiniteSets

CONSTANTS
    Threads,    \* the threads of the pool, one per source
    Roles,      \* the role a contribution gives an address
    Ips,
    Declined,   \* public addresses, declined unless they are opted in
    Free        \* the lock's holder when it is free

Fields == {"hostname", "mac"}
Empty  == ""

\* A contribution: the address, the role it gives it, and per field either
\* nothing or a value; a value is named after the role it was learnt from.
Values == Roles
Update == [ip : Ips, role : Roles, known : SUBSET Fields]

VARIABLES
    filled,     \* the fields of each entry
    heard,      \* roles recorded in each entry
    holder,     \* who holds the directory's lock
    queue,      \* the updates each thread has still to make
    hand        \* inside the lock: the update, cut to the fields seen empty

dirVars == <<filled, heard, holder, queue, hand>>

DirTypeOK ==
    /\ filled \in [Ips -> [Fields -> Values \cup {Empty}]]
    /\ heard \in [Ips -> SUBSET Roles]
    /\ holder \in Threads \cup {Free}
    /\ queue \in [Threads -> SUBSET Update]
    /\ hand \in [Threads -> SUBSET Update]

DirInit ==
    /\ filled = [ip \in Ips |-> [f \in Fields |-> Empty]]
    /\ heard = [ip \in Ips |-> {}]
    /\ holder = Free
    /\ queue = [t \in Threads |-> {}]
    /\ hand = [t \in Threads |-> {}]

\* What update() declines before it takes the lock.
Wanted(updates) == {u \in updates : u.ip \notin Declined}

\* What this update can add to the entry as it is now.
Missing(u) == [u EXCEPT !.known = {f \in @ : filled[u.ip][f] = Empty}]

\* Slip: update() runs without the lock.
LookUnlocked(t, u) ==
    /\ u \in queue[t]
    /\ hand[t] = {}
    /\ holder' = t
    /\ hand' = [hand EXCEPT ![t] = {Missing(u)}]
    /\ queue' = [queue EXCEPT ![t] = @ \ {u}]
    /\ UNCHANGED <<filled, heard>>

\* Take the lock and see which of the fields this update knows are empty.
Look(t, u) ==
    /\ u \in queue[t]
    /\ holder = Free
    /\ holder' = t
    /\ hand' = [hand EXCEPT ![t] = {Missing(u)}]
    /\ queue' = [queue EXCEPT ![t] = @ \ {u}]
    /\ UNCHANGED <<filled, heard>>

\* Fill them, record who contributed and release the lock.
Fill(t, u) ==
    /\ u \in hand[t]
    /\ filled' = [filled EXCEPT ![u.ip] =
                     [f \in Fields |-> IF f \in u.known THEN u.role ELSE @[f]]]
    /\ heard' = [heard EXCEPT ![u.ip] = @ \cup {u.role}]
    /\ hand' = [hand EXCEPT ![t] = {}]
    /\ holder' = Free
    /\ UNCHANGED queue

Learn(t) ==
    \/ \E u \in queue[t] : Look(t, u)
    \/ \E u \in hand[t] : Fill(t, u)

\* The calls of the thread's current loop over devices have all returned.
Learnt(t) == queue[t] = {} /\ hand[t] = {}
=============================================================================
