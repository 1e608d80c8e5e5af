---------------------------- MODULE CollectProofs ----------------------------
(***************************************************************************)
(* The collect stage for any services, logs, devices, addresses, faults    *)
(* and page sizes.  The directory's lock makes each update one             *)
(* contribution of DirectoryPromise.  What a pull has and what it lacks    *)
(* are covered by what the service counted, so the counts bound what an OK *)
(* can miss; a service with something to show that was always in reach is  *)
(* never FAILED; an undisturbed pull of a filled window is OK.             *)
(***************************************************************************)
EXTENDS Collect, FiniteSetTheorems, WellFoundedInduction, TLAPS

-----------------------------------------------------------------------------
(* The invariant *)

Columns == {"hostname", "mac"}

\* What a thread may have to tell the directory.
IsUpdate(u) == \E ip, known : \E role \in Roles : u = [ip |-> ip, role |-> role, known |-> known]

\* A thread between looking and filling holds the lock, with one update, and
\* the fields it is going to fill are still empty.
InHand(s) ==
    /\ hand[s] # {} => holder = s
    /\ \A u, v \in hand[s] : u = v
    /\ \A u \in hand[s] :
        /\ IsUpdate(u)
        /\ u.ip \in Ips => \A f \in Columns \cap u.known : filled[u.ip][f] = ""

Exclusive ==
    /\ filled \in [Ips -> [Columns -> Roles \cup {""}]]
    /\ heard \in [Ips -> SUBSET Roles]
    /\ queue = [s \in Sources |-> queue[s]]
    /\ hand = [s \in Sources |-> hand[s]]
    /\ \A s \in Sources : \A u \in queue[s] : IsUpdate(u)
    /\ \A s \in Sources : InHand(s)

\* A step of the sources or the services leaves the entries alone, and queues
\* nothing but updates.
QueueStep ==
    /\ UNCHANGED <<filled, heard, holder, hand>>
    /\ \/ UNCHANGED queue
       \/ \E s \in Sources : \E updates :
            /\ queue' = [queue EXCEPT ![s] = updates]
            /\ \A u \in updates : IsUpdate(u)

LEMMA StopQueues ==
    ASSUME NEW records, NEW complete, PiholeStop(records, complete)
    PROVE  QueueStep
<1> DEFINE updates == Directory!Wanted({[ip |-> r.ip, role |-> "dns-client",
                          known |-> Known("dns-client", r.ip)] :
                             r \in {q \in records : q.ip # ""}})
<1>1. queue' = [queue EXCEPT ![Pihole] = updates] /\ UNCHANGED entries
  BY DEF PiholeStop, Enqueue
<1>2. \A u \in updates : IsUpdate(u)
  BY DEF Directory!Wanted, IsUpdate, Roles
<1>3. Pihole \in Sources
  BY DEF Sources
<1> QED BY <1>1, <1>2, <1>3 DEF QueueStep, entries

LEMMA DevicesQueue == LibreDevices => QueueStep
<1> SUFFICES ASSUME LibreDevices PROVE QueueStep
  OBVIOUS
<1> DEFINE updates == Directory!Wanted({[ip |-> DeviceIp[d], role |-> "librenms-managed",
                          known |-> Known("librenms-managed", DeviceIp[d])] :
                             d \in {e \in Range(Listed) : DeviceIp[e] # ""}})
<1>1. CASE Resolved = <<>>
  BY <1>1 DEF LibreDevices, QueueStep, directory, entries
<1>2. CASE Resolved # <<>>
  <2>1. queue' = [queue EXCEPT ![Libre] = updates] /\ UNCHANGED entries
    BY <1>2 DEF LibreDevices, Enqueue
  <2>2. \A u \in updates : IsUpdate(u)
    BY DEF Directory!Wanted, IsUpdate, Roles
  <2>3. Libre \in Sources
    BY DEF Sources
  <2> QED BY <2>1, <2>2, <2>3 DEF QueueStep, entries
<1> QED BY <1>1, <1>2

LEMMA CombineQueues == LibreCombine => QueueStep
<1> SUFFICES ASSUME LibreCombine PROVE QueueStep
  OBVIOUS
<1> DEFINE updates == Directory!Wanted({[ip |-> r.ip, role |-> "dhcp-client",
                          known |-> Known("dhcp-client", r.ip)] :
                             r \in {q \in seen[Libre] : q.ip # ""}})
<1>1. queue' = [queue EXCEPT ![Libre] = updates] /\ UNCHANGED entries
  BY DEF LibreCombine, Enqueue
<1>2. \A u \in updates : IsUpdate(u)
  BY DEF Directory!Wanted, IsUpdate, Roles
<1>3. Libre \in Sources
  BY DEF Sources
<1> QED BY <1>1, <1>2, <1>3 DEF QueueStep, entries

LEMMA PageQueues == PiholePage => QueueStep
<1> SUFFICES ASSUME PiholePage PROVE QueueStep
  OBVIOUS
<1>1. \/ \E records, complete : PiholeStop(records, complete)
      \/ UNCHANGED directory
  BY DEF PiholePage
<1> QED BY <1>1, StopQueues DEF QueueStep, directory, entries

\* Every step is one of the directory or leaves its entries alone.
LEMMA StepsAreKnown ==
    [Next]_vars => QueueStep \/ \E s \in Sources : Directory!Learn(s)
<1> SUFFICES ASSUME [Next]_vars PROVE QueueStep \/ \E s \in Sources : Directory!Learn(s)
  OBVIOUS
<1>1. CASE PiholePull
  <2>1. CASE PiholeDone
    BY <2>1, StopQueues DEF PiholeDone
  <2>2. CASE PiholeAuthenticate \/ PiholeCount \/ PiholePageFails \/ PiholeReturn
    BY <2>2 DEF PiholeAuthenticate, PiholeCount, PiholePageFails, PiholeReturn,
                QueueStep, directory, entries
  <2> QED BY <1>1, <2>1, <2>2, PageQueues DEF PiholePull
<1>2. CASE LibrePull
  <2>1. CASE LibreManaged \/ LibrePage \/ LibrePageFails \/ LibreReturn
    BY <2>1 DEF LibreManaged, LibrePage, LibrePageFails, LibreReturn,
                QueueStep, directory, entries
  <2> QED BY <1>2, <2>1, DevicesQueue, CombineQueues DEF LibrePull
<1>3. CASE \E s \in Sources : Learning(s) \/ Verify(s)
  BY <1>3 DEF Learning, Verify, Classify, Suspect, Probe, Conclude,
              QueueStep, directory, entries
<1>4. CASE Services
  BY <1>4 DEF Services, Outage, Recover, Expire, Arrive, QueueStep, directory, entries
<1>5. CASE UNCHANGED vars
  BY <1>5 DEF vars, QueueStep, directory, entries
<1> QED BY <1>1, <1>2, <1>3, <1>4, <1>5 DEF Next

-----------------------------------------------------------------------------
(* The lock *)

LEMMA ExclusiveInit == Init => Exclusive
<1> SUFFICES ASSUME Init PROVE Exclusive
  OBVIOUS
<1>1. /\ filled = [ip \in Ips |-> [f \in Columns |-> ""]]
      /\ heard = [ip \in Ips |-> {}]
      /\ queue = [t \in Sources |-> {}]
      /\ hand = [t \in Sources |-> {}]
  BY DEF Init, Directory!DirInit, Directory!Fields, Directory!Empty, Columns
<1> QED BY <1>1 DEF Exclusive, InHand

LEMMA ExclusiveQueue == Exclusive /\ QueueStep => Exclusive'
<1> SUFFICES ASSUME Exclusive, QueueStep PROVE Exclusive'
  OBVIOUS
<1>1. /\ filled' = filled /\ heard' = heard /\ holder' = holder /\ hand' = hand
  BY DEF QueueStep
<1>2. /\ queue' = [s \in Sources |-> queue'[s]]
      /\ \A s \in Sources : \A u \in queue'[s] : IsUpdate(u)
  BY DEF QueueStep, Exclusive
<1> QED BY <1>1, <1>2 DEF Exclusive, InHand

\* Taking the lock: nobody else is inside, and the fields taken are empty.
LEMMA ExclusiveLook ==
    ASSUME Exclusive, NEW s \in Sources, NEW u \in queue[s], Directory!Look(s, u)
    PROVE  Exclusive'
<1> DEFINE m == Directory!Missing(u)
<1>1. /\ holder = Free /\ holder' = s /\ hand' = [hand EXCEPT ![s] = {m}]
      /\ queue' = [queue EXCEPT ![s] = @ \ {u}]
      /\ filled' = filled /\ heard' = heard
  BY DEF Directory!Look
<1>2. \A t \in Sources : hand[t] = {}
  BY <1>1, FreeAssumption DEF Exclusive, InHand
<1>3. /\ hand' = [t \in Sources |-> hand'[t]]
      /\ \A t \in Sources : hand'[t] = IF t = s THEN {m} ELSE {}
  BY <1>1, <1>2 DEF Exclusive
<1>4. /\ queue' = [t \in Sources |-> queue'[t]]
      /\ \A t \in Sources : \A v \in queue'[t] : IsUpdate(v)
  BY <1>1 DEF Exclusive
<1>5. PICK ip, known : \E role \in Roles : u = [ip |-> ip, role |-> role, known |-> known]
  BY DEF Exclusive, IsUpdate
<1>6. PICK role \in Roles : u = [ip |-> ip, role |-> role, known |-> known]
  BY <1>5
<1>7. m = [ip |-> ip, role |-> role, known |-> {f \in known : filled[ip][f] = ""}]
  <2>1. u.ip = ip /\ u.known = known
    BY <1>6
  <2>2. m = [u EXCEPT !.known = {f \in known : filled[ip][f] = ""}]
    BY <2>1 DEF Directory!Missing, Directory!Empty
  <2> HIDE DEF m
  <2> QED BY <1>6, <2>2
<1>8. IsUpdate(m) /\ \A f \in m.known : filled[m.ip][f] = ""
  <2> HIDE DEF m
  <2>1. IsUpdate(m)
    BY <1>7 DEF IsUpdate
  <2>2. m.ip = ip /\ m.known = {f \in known : filled[ip][f] = ""}
    BY <1>7
  <2> QED BY <2>1, <2>2
<1>9. \A t \in Sources : InHand(t)'
  BY <1>1, <1>3, <1>8 DEF InHand
<1> QED BY <1>1, <1>3, <1>4, <1>9 DEF Exclusive

\* What filling does to the entries.
LEMMA FillContributes ==
    ASSUME Exclusive, NEW s \in Sources, NEW u \in hand[s], Directory!Fill(s, u), u.ip \in Ips
    PROVE  /\ Promise!Contribute(u.ip)
           /\ filled' \in [Ips -> [Columns -> Roles \cup {""}]]
           /\ heard' \in [Ips -> SUBSET Roles]
<1>1. u.role \in Roles /\ \A f \in Columns \cap u.known : filled[u.ip][f] = ""
  <2>1. IsUpdate(u) /\ \A f \in Columns \cap u.known : filled[u.ip][f] = ""
    BY DEF Exclusive, InHand
  <2>2. u.role \in Roles
    <3>1. PICK ip, known : \E role \in Roles : u = [ip |-> ip, role |-> role, known |-> known]
      BY <2>1 DEF IsUpdate
    <3>2. PICK role \in Roles : u = [ip |-> ip, role |-> role, known |-> known]
      BY <3>1
    <3> QED BY <3>2
  <2> QED BY <2>1, <2>2
<1>2. /\ filled' = [filled EXCEPT ![u.ip] =
                       [f \in Columns |-> IF f \in u.known THEN u.role ELSE @[f]]]
      /\ heard' = [heard EXCEPT ![u.ip] = @ \cup {u.role}]
  BY DEF Directory!Fill, Directory!Fields, Columns
<1> DEFINE new == [f \in Columns |-> IF f \in u.known THEN u.role ELSE ""]
<1>3. new \in [Columns -> Roles \cup {""}]
  BY <1>1
<1>4. [f \in Columns |-> IF f \in u.known THEN u.role ELSE filled[u.ip][f]]
        = [f \in Columns |-> IF filled[u.ip][f] = "" THEN new[f] ELSE filled[u.ip][f]]
  BY <1>1
<1>5. filled' = [filled EXCEPT ![u.ip] =
                    [f \in Columns |-> IF @[f] = "" THEN new[f] ELSE @[f]]]
  BY <1>2, <1>4
<1>6. Promise!Contribute(u.ip)
  BY <1>1, <1>2, <1>3, <1>5 DEF Promise!Contribute, Columns
<1>7. filled' \in [Ips -> [Columns -> Roles \cup {""}]]
  <2>1. [f \in Columns |-> IF f \in u.known THEN u.role ELSE filled[u.ip][f]]
          \in [Columns -> Roles \cup {""}]
    <3>1. \A f \in Columns : filled[u.ip][f] \in Roles \cup {""}
      BY DEF Exclusive
    <3> QED BY <1>1, <3>1
  <2> QED BY <1>2, <2>1 DEF Exclusive
<1>8. heard' \in [Ips -> SUBSET Roles]
  BY <1>1, <1>2 DEF Exclusive
<1> QED BY <1>6, <1>7, <1>8

\* An address the directory does not cover changes nothing.
LEMMA FillElsewhere ==
    ASSUME Exclusive, NEW s \in Sources, NEW u \in hand[s], Directory!Fill(s, u), u.ip \notin Ips
    PROVE  UNCHANGED <<filled, heard>>
BY DEF Directory!Fill, Exclusive

\* Filling ends with the lock released and every hand empty.
LEMMA ExclusiveFill ==
    ASSUME Exclusive, NEW s \in Sources, NEW u \in hand[s], Directory!Fill(s, u)
    PROVE  Exclusive'
<1>1. hand' = [hand EXCEPT ![s] = {}] /\ queue' = queue
  BY DEF Directory!Fill
<1>2. holder = s /\ \A t \in Sources : t # s => hand[t] = {}
  BY DEF Exclusive, InHand
<1>3. hand' = [t \in Sources |-> hand'[t]] /\ \A t \in Sources : hand'[t] = {}
  BY <1>1, <1>2 DEF Exclusive
<1>4. /\ filled' \in [Ips -> [Columns -> Roles \cup {""}]]
      /\ heard' \in [Ips -> SUBSET Roles]
  BY FillContributes, FillElsewhere DEF Exclusive
<1>5. \A t \in Sources : InHand(t)'
  BY <1>3 DEF InHand
<1> QED BY <1>1, <1>3, <1>4, <1>5 DEF Exclusive

\* The inductive invariant of the lock.
THEOREM DirectoryInvariant == Spec => []Exclusive
<1>1. Exclusive /\ [Next]_vars => Exclusive'
  BY StepsAreKnown, ExclusiveQueue, ExclusiveLook, ExclusiveFill DEF Directory!Learn
<1> QED BY <1>1, ExclusiveInit, PTL DEF Spec

-----------------------------------------------------------------------------
(* The refinement *)

LEMMA PromiseInit == Init => Promise!Init
BY DEF Init, Directory!DirInit, Directory!Fields, Directory!Empty, Promise!Init

LEMMA PromiseStep ==
    Exclusive /\ [Next]_vars => [Promise!Next]_(<<filled, heard>>)
<1> SUFFICES ASSUME Exclusive, [Next]_vars PROVE [Promise!Next]_(<<filled, heard>>)
  OBVIOUS
<1>1. CASE QueueStep
  BY <1>1 DEF QueueStep
<1>2. ASSUME NEW s \in Sources, NEW u \in queue[s], Directory!Look(s, u)
      PROVE  UNCHANGED <<filled, heard>>
  BY <1>2 DEF Directory!Look
<1>3. ASSUME NEW s \in Sources, NEW u \in hand[s], Directory!Fill(s, u)
      PROVE  [Promise!Next]_(<<filled, heard>>)
  <2>1. CASE u.ip \in Ips
    BY <1>3, <2>1, FillContributes DEF Promise!Next
  <2>2. CASE u.ip \notin Ips
    BY <1>3, <2>2, FillElsewhere
  <2> QED BY <2>1, <2>2
<1> QED BY <1>1, <1>2, <1>3, StepsAreKnown DEF Directory!Learn

\* The threads' updates are atomic to each other: a field of the directory is
\* filled once, with what some source knows, and never taken back.
THEOREM DirectoryImplementsItsPromise == Spec => DirectoryKeepsItsPromise
BY PromiseInit, PromiseStep, DirectoryInvariant, PTL
   DEF Spec, DirectoryKeepsItsPromise, Promise!Spec

-----------------------------------------------------------------------------
(* Windows of a log *)

\* Induction, for a set instead of a predicate.
LEMMA NatSets ==
    ASSUME NEW S, 0 \in S, \A n \in Nat : n \in S => n + 1 \in S
    PROVE  Nat \subseteq S
<1> DEFINE T == Nat \ S
           R == OpToRel(<, Nat)
<1>1. SUFFICES ASSUME T # {} PROVE FALSE
  OBVIOUS
<1>2. IsWellFoundedOn(R, Nat)
  BY NatLessThanWellFounded
<1>3. PICK x \in T : \A y \in T : ~ (<<y, x>> \in R)
  <2> HIDE DEF R
  <2>1. T \subseteq Nat
    OBVIOUS
  <2> HIDE DEF T
  <2> QED BY <1>1, <1>2, <2>1, WFMin
<1>4. x \in Nat /\ x # 0 /\ x - 1 \in Nat /\ x - 1 \in T
  OBVIOUS
<1>5. <<x - 1, x>> \in R
  BY <1>4 DEF OpToRel
<1> QED BY <1>3, <1>4, <1>5

\* Whether f is the table that Window fills, up to n.
Filters(f, records, from, n) ==
    f = [i \in 0..n |->
            IF i = 0 THEN <<>>
            ELSE IF InWindow(records[i], from) THEN Append(f[i - 1], records[i]) ELSE f[i - 1]]

LEMMA FilterExists == \A records, from : \A n \in Nat : \E f : Filters(f, records, from, n)
<1> SUFFICES ASSUME NEW records, NEW from PROVE \A n \in Nat : \E f : Filters(f, records, from, n)
  OBVIOUS
<1> DEFINE S == {n \in Nat : \E f : Filters(f, records, from, n)}
<1>1. 0 \in S
  <2> DEFINE f == [i \in 0..0 |-> <<>>]
  <2>1. Filters(f, records, from, 0)
    BY DEF Filters
  <2> QED BY <2>1
<1>2. ASSUME NEW n \in Nat, n \in S PROVE n + 1 \in S
  <2>1. PICK f : Filters(f, records, from, n)
    BY <1>2
  <2> DEFINE next == IF InWindow(records[n + 1], from) THEN Append(f[n], records[n + 1]) ELSE f[n]
             g == [i \in 0..(n + 1) |-> IF i = n + 1 THEN next ELSE f[i]]
  <2>2. \A i \in 0..n : g[i] = f[i]
    OBVIOUS
  <2>3. g[n + 1] = next /\ g[n] = f[n]
    OBVIOUS
  <2>4. \A i \in 0..n : f[i] = IF i = 0 THEN <<>>
            ELSE IF InWindow(records[i], from) THEN Append(f[i - 1], records[i]) ELSE f[i - 1]
    BY <2>1 DEF Filters
  <2>5. ASSUME NEW i \in 0..(n + 1)
        PROVE  g[i] = IF i = 0 THEN <<>>
            ELSE IF InWindow(records[i], from) THEN Append(g[i - 1], records[i]) ELSE g[i - 1]
    <3>1. CASE i = n + 1
      BY <2>3, <3>1
    <3>2. CASE i # n + 1
      <4>1. i \in 0..n /\ (i # 0 => i - 1 \in 0..n)
        BY <3>2
      <4> HIDE DEF g
      <4> QED BY <2>2, <2>4, <4>1
    <3> QED BY <3>1, <3>2
  <2>6. Filters(g, records, from, n + 1)
    <3>1. g = [i \in 0..(n + 1) |-> g[i]]
      OBVIOUS
    <3> HIDE DEF g
    <3> QED BY <2>5, <3>1 DEF Filters
  <2> QED BY <2>6
<1> HIDE DEF S
<1>3. Nat \subseteq S
  BY <1>1, <1>2, NatSets
<1> QED BY <1>3 DEF S

LEMMA RangeAppends ==
    ASSUME NEW R, NEW s \in Seq(R), NEW x \in R
    PROVE  Range(Append(s, x)) = Range(s) \cup {x}
<1> DEFINE a == Append(s, x)
<1>1. Len(s) \in Nat /\ DOMAIN s = 1..Len(s)
  OBVIOUS
<1>2. DOMAIN a = 1..(Len(s) + 1) /\ a[Len(s) + 1] = x /\ \A i \in 1..Len(s) : a[i] = s[i]
  OBVIOUS
<1> HIDE DEF a
<1>3. Range(a) = {a[i] : i \in 1..(Len(s) + 1)} /\ Range(s) = {s[i] : i \in 1..Len(s)}
  BY <1>1, <1>2 DEF Range
<1>4. 1..(Len(s) + 1) = 1..Len(s) \cup {Len(s) + 1}
  BY <1>1
<1>5. Range(a) = Range(s) \cup {x}
  BY <1>2, <1>3, <1>4
<1> QED BY <1>5 DEF a

LEMMA WindowTable ==
    ASSUME NEW records, NEW from, Len(records) \in Nat
    PROVE  \E f :
        /\ Window(records, from) = f[Len(records)] /\ f[0] = <<>>
        /\ \A n \in Nat : n + 1 <= Len(records) =>
              f[n + 1] = IF InWindow(records[n + 1], from) THEN Append(f[n], records[n + 1]) ELSE f[n]
<1> DEFINE N == Len(records)
<1>1. PICK f : Filters(f, records, from, N) /\ Window(records, from) = f[N]
  <2> DEFINE f == CHOOSE f : Filters(f, records, from, N)
  <2>1. Filters(f, records, from, N)
    BY FilterExists
  <2>2. Window(records, from) = f[N]
    BY DEF Window, Filters
  <2> QED BY <2>1, <2>2
<1>2. \A i \in 0..N : f[i] = IF i = 0 THEN <<>>
          ELSE IF InWindow(records[i], from) THEN Append(f[i - 1], records[i]) ELSE f[i - 1]
  BY <1>1 DEF Filters
<1>3. 0 \in 0..N /\ \A n \in Nat : n + 1 <= N => n + 1 \in 0..N /\ n + 1 # 0 /\ (n + 1) - 1 = n
  OBVIOUS
<1> HIDE DEF N
<1>4. \A n \in Nat : n + 1 <= N =>
        f[n + 1] = IF InWindow(records[n + 1], from) THEN Append(f[n], records[n + 1]) ELSE f[n]
  BY <1>2, <1>3
<1> QED BY <1>1, <1>2, <1>3, <1>4 DEF N

LEMMA WindowFilters ==
    ASSUME NEW R, NEW records \in Seq(R), NEW from
    PROVE  /\ Window(records, from) \in Seq(R)
           /\ Range(Window(records, from)) = {r \in Range(records) : InWindow(r, from)}
<1> DEFINE N == Len(records)
<1>0. N \in Nat
  OBVIOUS
<1>1. PICK f :
        /\ Window(records, from) = f[N] /\ f[0] = <<>>
        /\ \A n \in Nat : n + 1 <= N =>
              f[n + 1] = IF InWindow(records[n + 1], from) THEN Append(f[n], records[n + 1]) ELSE f[n]
  BY <1>0, WindowTable
<1> DEFINE Good(n) == /\ f[n] \in Seq(R)
                      /\ Range(f[n]) = {records[i] : i \in {j \in 1..n : InWindow(records[j], from)}}
           S == {n \in Nat : n <= N => Good(n)}
<1> HIDE DEF N
<1>3. 0 \in S
  <2>1. f[0] \in Seq(R) /\ Range(f[0]) = {}
    BY <1>1 DEF Range
  <2> QED BY <2>1
<1>4. ASSUME NEW n \in Nat, n \in S PROVE n + 1 \in S
  <2> HIDE DEF Good
  <2>1. SUFFICES ASSUME n + 1 <= N PROVE Good(n + 1)
    OBVIOUS
  <2> USE DEF Good
  <2>2. Good(n) /\ n + 1 \in 1..N /\ records[n + 1] \in R
    BY <1>0, <1>4, <2>1 DEF N
  <2>3. CASE InWindow(records[n + 1], from)
    <3>1. f[n + 1] = Append(f[n], records[n + 1])
      BY <1>1, <2>1, <2>3
    <3>2. f[n + 1] \in Seq(R)
      BY <2>2, <3>1
    <3>3. Range(f[n + 1]) = Range(f[n]) \cup {records[n + 1]}
      BY <2>2, <3>1, RangeAppends
    <3> QED BY <2>2, <2>3, <3>2, <3>3
  <2>4. CASE ~ InWindow(records[n + 1], from)
    <3>1. f[n + 1] = f[n]
      BY <1>1, <2>1, <2>4
    <3> QED BY <2>2, <2>4, <3>1
  <2> QED BY <2>3, <2>4
<1> HIDE DEF S
<1>5. Nat \subseteq S
  BY <1>3, <1>4, NatSets
<1>6. Good(N)
  <2> HIDE DEF Good
  <2>1. N \in S
    BY <1>0, <1>5
  <2>2. N <= N
    BY <1>0
  <2> QED BY <2>1, <2>2 DEF S
<1>7. Range(records) = {records[i] : i \in 1..N}
  BY DEF Range, N
<1>8. Range(f[N]) = {r \in Range(records) : InWindow(r, from)}
  BY <1>6, <1>7
<1> QED BY <1>1, <1>6, <1>8

\* If no record comes twice in the log, none does in the window.
LEMMA WindowKeepsIdentity ==
    ASSUME NEW R, NEW records \in Seq(R), NEW from,
           \A i, j \in 1..Len(records) : records[i] = records[j] => i = j
    PROVE  \A i, j \in 1..Len(Window(records, from)) :
                Window(records, from)[i] = Window(records, from)[j] => i = j
<1> DEFINE N == Len(records)
<1>0. N \in Nat
  OBVIOUS
<1>1. PICK f :
        /\ Window(records, from) = f[N] /\ f[0] = <<>>
        /\ \A n \in Nat : n + 1 <= N =>
              f[n + 1] = IF InWindow(records[n + 1], from) THEN Append(f[n], records[n + 1]) ELSE f[n]
  BY <1>0, WindowTable
<1> DEFINE Good(n) == /\ f[n] \in Seq(R)
                      /\ \A k \in 1..Len(f[n]) : \E i \in 1..n : f[n][k] = records[i]
                      /\ \A k, l \in 1..Len(f[n]) : f[n][k] = f[n][l] => k = l
           S == {n \in Nat : n <= N => Good(n)}
<1> HIDE DEF N
<1>2. 0 \in S
  <2>1. f[0] \in Seq(R) /\ 1..Len(f[0]) = {}
    BY <1>1
  <2> QED BY <2>1
<1>3. ASSUME NEW n \in Nat, n \in S PROVE n + 1 \in S
  <2> HIDE DEF Good
  <2>1. SUFFICES ASSUME n + 1 <= N PROVE Good(n + 1)
    OBVIOUS
  <2> USE DEF Good
  <2> DEFINE r == records[n + 1]
  <2>2. Good(n) /\ n + 1 \in 1..N /\ r \in R /\ n <= N
    BY <1>0, <1>3, <2>1 DEF N
  <2>3. CASE InWindow(r, from)
    <3> DEFINE q == f[n]
    <3>1. f[n + 1] = Append(q, r) /\ q \in Seq(R) /\ r \in R
      BY <1>1, <2>1, <2>2, <2>3
    <3>2. \A k \in 1..Len(q) : q[k] # r /\ \E i \in 1..(n + 1) : q[k] = records[i]
      <4>1. \A i \in 1..n : records[i] # r /\ i \in 1..(n + 1)
        <5>1. \A i \in 1..n : i \in 1..N /\ i # n + 1 /\ i \in 1..(n + 1)
          BY <1>0, <2>1
        <5> QED BY <2>2, <5>1 DEF N
      <4> QED BY <2>2, <4>1
    <3> HIDE DEF q, r
    <3>3. Append(q, r) \in Seq(R) /\ Len(Append(q, r)) = Len(q) + 1 /\ Len(q) \in Nat
          /\ Append(q, r)[Len(q) + 1] = r
          /\ \A k \in 1..Len(q) : Append(q, r)[k] = q[k]
      BY <3>1
    <3>4. \A k \in 1..(Len(q) + 1) : k = Len(q) + 1 \/ k \in 1..Len(q)
      BY <3>3
    <3>5. n + 1 \in 1..(n + 1)
      OBVIOUS
    <3>6. \A k \in 1..Len(f[n + 1]) : \E i \in 1..(n + 1) : f[n + 1][k] = records[i]
      BY <3>1, <3>2, <3>3, <3>4, <3>5 DEF r
    <3>7. \A k, l \in 1..Len(f[n + 1]) : f[n + 1][k] = f[n + 1][l] => k = l
      <4>1. \A k, l \in 1..Len(q) : q[k] = q[l] => k = l
        BY <2>2 DEF q
      <4> QED BY <3>1, <3>2, <3>3, <3>4, <4>1
    <3> QED BY <3>1, <3>3, <3>6, <3>7
  <2>4. CASE ~ InWindow(r, from)
    <3>1. f[n + 1] = f[n] /\ \A i \in 1..n : i \in 1..(n + 1)
      BY <1>1, <2>1, <2>4
    <3> QED BY <2>2, <3>1
  <2> QED BY <2>3, <2>4
<1> HIDE DEF S
<1>4. Nat \subseteq S
  BY <1>2, <1>3, NatSets
<1>5. Good(N)
  <2> HIDE DEF Good
  <2>1. N \in S /\ N <= N
    BY <1>0, <1>4
  <2> QED BY <2>1 DEF S
<1> QED BY <1>1, <1>5

LEMMA RangeIsSmall ==
    ASSUME NEW R, NEW s \in Seq(R)
    PROVE  IsFiniteSet(Range(s)) /\ Cardinality(Range(s)) <= Len(s) /\ Range(s) \subseteq R
<1>0. Len(s) \in Nat /\ DOMAIN s = 1..Len(s)
  OBVIOUS
<1>1. IsFiniteSet(1..Len(s)) /\ Cardinality(1..Len(s)) = Len(s)
  BY <1>0, FS_Interval
<1>2. s \in Surjection(1..Len(s), Range(s))
  <2>1. s \in [1..Len(s) -> Range(s)]
    BY <1>0 DEF Range
  <2> QED BY <1>0, <2>1 DEF Surjection, Range
<1>3. Range(s) \subseteq R
  BY <1>0 DEF Range
<1> QED BY <1>1, <1>2, <1>3, FS_Surjection

LEMMA MinIsBelow ==
    ASSUME NEW a \in Int, NEW b \in Int, NEW c \in Int
    PROVE  Min({a, b, c}) \in Int /\ Min({a, b, c}) <= c
<1>1. \E x \in {a, b, c} : \A y \in {a, b, c} : x <= y
  OBVIOUS
<1> QED BY <1>1 DEF Min

LEMMA SubSeqIsWithin ==
    ASSUME NEW R, NEW s \in Seq(R), NEW m \in Nat \ {0}, NEW n \in Int, n <= Len(s)
    PROVE  /\ SubSeq(s, m, n) \in Seq(R)
           /\ Range(SubSeq(s, m, n)) \subseteq Range(s)
<1> DEFINE q == SubSeq(s, m, n)
<1>1. Len(s) \in Nat /\ DOMAIN s = 1..Len(s)
  OBVIOUS
<1>2. q \in Seq(R)
  OBVIOUS
<1>3. \A i \in DOMAIN q : i + m - 1 \in 1..Len(s) /\ q[i] = s[i + m - 1]
  OBVIOUS
<1> HIDE DEF q
<1>4. Range(q) \subseteq Range(s)
  BY <1>1, <1>3 DEF Range
<1> QED BY <1>2, <1>4 DEF q

\* Taking the first element leaves the others.
LEMMA TailKeeps ==
    ASSUME NEW R, NEW q \in Seq(R), q # <<>>, NEW x \in Range(q)
    PROVE  x = Head(q) \/ x \in Range(Tail(q))
<1>1. /\ DOMAIN q = 1..Len(q) /\ Len(q) \in Nat /\ q[1] = Head(q)
      /\ DOMAIN Tail(q) = 1..(Len(q) - 1)
  OBVIOUS
<1>2. \A j \in 1..(Len(q) - 1) : Tail(q)[j] = q[j + 1]
  OBVIOUS
<1>3. PICK i \in 1..Len(q) : x = q[i]
  BY <1>1 DEF Range
<1>4. CASE i = 1
  BY <1>1, <1>3, <1>4
<1>5. CASE i # 1
  <2>1. i - 1 \in 1..(Len(q) - 1) /\ (i - 1) + 1 = i
    BY <1>1, <1>5
  <2>2. Tail(q)[i - 1] = x
    BY <1>2, <1>3, <2>1
  <2> QED BY <1>1, <2>1, <2>2 DEF Range
<1> QED BY <1>4, <1>5

-----------------------------------------------------------------------------
(* The logs *)

Feeders == {Pihole} \cup DOMAIN DeviceIp

\* Pi-hole's log only loses its oldest records, the devices' only gain some.
Logs ==
    /\ world \in Instances
    /\ log = [d \in Feeders |-> log[d]]
    /\ \A d \in Feeders : log[d] \in Seq(Range(log[d]))
    /\ \A d \in DOMAIN DeviceIp : Range(world.logs[d]) \subseteq Range(log[d])
    /\ Len(log[Pihole]) <= Len(world.logs[Pihole])
    /\ \A i \in 1..Len(log[Pihole]) : log[Pihole][i] = world.logs[Pihole][i]

\* Where a feed begins is fixed by the world and no time before the window.
LEMMA BeginIsFixed ==
    ASSUME NEW d, world' = world
    PROVE  Begin(d)' = Begin(d)
BY DEF Begin

LEMMA LibreBegins ==
    ASSUME NEW d \in DOMAIN DeviceIp
    PROVE  Begin(d) = 0
BY WindowAssumption DEF Begin

LEMMA BeginIsInt ==
    ASSUME Logs, NEW d
    PROVE  Begin(d) \in Nat
<1>1. world \in Instances
  BY DEF Logs
<1>2. world.reach \in Nat
  BY <1>1, InstancesAssumption, Zenon
<1> QED BY <1>2, WindowAssumption DEF Begin

LEMMA FeedIsWindow ==
    ASSUME Logs, NEW d \in Feeders
    PROVE  /\ Feed(d) \in Seq(Range(Feed(d)))
           /\ Range(Feed(d)) = IF world.filters THEN {r \in Range(log[d]) : InWindow(r, Begin(d))} ELSE {}
<1>1. log[d] \in Seq(Range(log[d]))
  BY DEF Logs
<1>2. CASE world.filters
  <2>1. Feed(d) = Window(log[d], Begin(d))
    BY <1>2 DEF Feed, Filtered
  <2>2. /\ Feed(d) \in Seq(Range(log[d]))
        /\ Range(Feed(d)) = {r \in Range(log[d]) : InWindow(r, Begin(d))}
    BY <1>1, <2>1, WindowFilters
  <2> QED BY <1>2, <2>2 DEF Range
<1>3. CASE ~ world.filters
  <2>1. Feed(d) = <<>>
    BY <1>3 DEF Feed, Filtered
  <2> QED BY <1>3, <2>1 DEF Range
<1> QED BY <1>2, <1>3

LEMMA FeedIsCounted ==
    ASSUME Logs, NEW d \in Feeders
    PROVE  /\ IsFiniteSet(Range(Feed(d))) /\ Len(Feed(d)) \in Nat
           /\ Cardinality(Range(Feed(d))) <= Len(Feed(d))
<1>1. Feed(d) \in Seq(Range(Feed(d)))
  BY FeedIsWindow
<1> HIDE DEF Feed
<1> QED BY <1>1, RangeIsSmall

LEMMA PagesAreWithin ==
    ASSUME Logs, NEW d \in Feeders, NEW start \in Nat
    PROVE  /\ PageAt(d, start) \in Seq(Range(Feed(d)))
           /\ Range(PageAt(d, start)) \subseteq Range(Feed(d))
<1> DEFINE end == Min({start + PageSize, start + world.cap, Len(Feed(d))})
<1>1. Feed(d) \in Seq(Range(Feed(d))) /\ Len(Feed(d)) \in Nat
  BY FeedIsWindow, FeedIsCounted
<1>2. end \in Int /\ end <= Len(Feed(d))
  <2>1. world.cap \in Nat /\ PageSize \in Nat
    <3>1. world \in Instances
      BY DEF Logs
    <3> QED BY <3>1, WindowAssumption, InstancesAssumption, Zenon
  <2> DEFINE a == start + PageSize
             b == start + world.cap
             c == Len(Feed(d))
  <2>2. a \in Int /\ b \in Int /\ c \in Int
    BY <1>1, <2>1
  <2> HIDE DEF a, b, c
  <2>3. Min({a, b, c}) \in Int /\ Min({a, b, c}) <= c
    BY <2>2, MinIsBelow
  <2> QED BY <2>3 DEF a, b, c
<1>3. PageAt(d, start) \in {<<>>, SubSeq(Feed(d), start + 1, end)}
  BY DEF PageAt
<1> HIDE DEF end
<1>4. /\ SubSeq(Feed(d), start + 1, end) \in Seq(Range(Feed(d)))
      /\ Range(SubSeq(Feed(d), start + 1, end)) \subseteq Range(Feed(d))
  BY <1>1, <1>2, SubSeqIsWithin
<1>5. <<>> \in Seq(Range(Feed(d))) /\ Range(<<>>) = {}
  BY DEF Range
<1> QED BY <1>3, <1>4, <1>5

LEMMA LogsInit == Init => Logs
<1> SUFFICES ASSUME Init PROVE Logs
  OBVIOUS
<1>1. world \in Instances /\ log = world.logs
  BY DEF Init
<1>2. /\ world.logs = [d \in {Pihole} \cup DOMAIN DeviceIp |-> world.logs[d]]
      /\ \A d \in DOMAIN world.logs : world.logs[d] \in Seq(Range(world.logs[d]))
  BY <1>1, InstancesAssumption, Zenon
<1>3. DOMAIN world.logs = Feeders
  BY <1>2 DEF Feeders
<1>4. world.logs[Pihole] \in Seq(Range(world.logs[Pihole]))
  BY <1>2, <1>3 DEF Feeders
<1>5. Len(log[Pihole]) <= Len(world.logs[Pihole])
  BY <1>1, <1>4
<1> QED BY <1>1, <1>2, <1>3, <1>5 DEF Logs, Feeders

\* What may happen to the logs in one step.
LogsMove ==
    /\ world' = world
    /\ Range(log'[Pihole]) \subseteq Range(log[Pihole])
    /\ \A d \in DOMAIN DeviceIp : Range(log[d]) \subseteq Range(log'[d])

LEMMA ExpireMoves == Logs /\ Expire => Logs' /\ LogsMove
<1> SUFFICES ASSUME Logs, Expire PROVE Logs' /\ LogsMove
  OBVIOUS
<1> DEFINE old == log[Pihole]
           new == SubSeq(old, 1, Len(old) - 1)
<1>1. /\ old # <<>> /\ old \in Seq(Range(old)) /\ log = [d \in Feeders |-> log[d]]
      /\ Pihole \in Feeders
  BY DEF Expire, Logs, Feeders
<1>2. log' = [log EXCEPT ![Pihole] = new] /\ world' = world
  BY DEF Expire, Front
<1> HIDE DEF old
<1>3. new \in Seq(Range(old)) /\ Range(new) \subseteq Range(old)
  <2> DEFINE end == Len(old) - 1
             R == Range(old)
  <2>1. end \in Int /\ end <= Len(old) /\ old \in Seq(R) /\ 1 \in Nat \ {0}
    BY <1>1
  <2>2. new = SubSeq(old, 1, end) /\ R = Range(old)
    OBVIOUS
  <2> HIDE DEF end, new, R
  <2> QED BY <2>1, <2>2, SubSeqIsWithin
<1>4. Len(new) = Len(old) - 1 /\ \A i \in 1..Len(new) : new[i] = old[i] /\ i \in 1..Len(old)
  <2> DEFINE R == Range(old)
  <2>1. old \in Seq(R)
    BY <1>1
  <2> HIDE DEF R
  <2>2. Len(old) \in Nat \ {0}
    BY <1>1, <2>1
  <2> DEFINE n == Len(old) - 1
  <2>3. n \in Nat /\ n + 1 = Len(old)
    BY <2>2
  <2> HIDE DEF n
  <2>4. Len(SubSeq(old, 1, n)) = n
    BY <2>1, <2>3
  <2>5. \A i \in 1..n : SubSeq(old, 1, n)[i] = old[i] /\ i \in 1..Len(old)
    BY <2>1, <2>3
  <2> QED BY <2>4, <2>5 DEF n
<1>5. new \in Seq(Range(new))
  <2> HIDE DEF new
  <2> QED BY <1>3 DEF Range
<1>6. Len(old) \in Nat
  BY <1>1
<1> HIDE DEF new
<1>7. \A d \in Feeders : log'[d] = IF d = Pihole THEN new ELSE log[d]
  BY <1>1, <1>2
<1>8. log' = [d \in Feeders |-> log'[d]]
  BY <1>1, <1>2
<1>9. \A d \in DOMAIN DeviceIp : d \in Feeders /\ d # Pihole
  BY WindowAssumption DEF Feeders
<1>10. LogsMove
  BY <1>1, <1>2, <1>3, <1>7, <1>9 DEF LogsMove, old
<1>11. /\ Len(log'[Pihole]) <= Len(world.logs[Pihole])
       /\ \A i \in 1..Len(log'[Pihole]) : log'[Pihole][i] = world.logs[Pihole][i]
  <2>1. /\ Len(old) <= Len(world.logs[Pihole])
        /\ \A i \in 1..Len(old) : old[i] = world.logs[Pihole][i]
    BY DEF Logs, old
  <2>2. Len(world.logs[Pihole]) \in Nat
    BY InstancesAssumption DEF Logs
  <2> QED BY <1>1, <1>4, <1>6, <1>7, <2>1, <2>2
<1>12. \A d \in Feeders : log'[d] \in Seq(Range(log'[d]))
  BY <1>5, <1>7 DEF Logs
<1>13. \A d \in DOMAIN DeviceIp : Range(world.logs[d]) \subseteq Range(log'[d])
  BY <1>7, <1>9 DEF Logs
<1> QED BY <1>2, <1>8, <1>10, <1>11, <1>12, <1>13 DEF Logs

LEMMA ArriveMoves ==
    ASSUME Logs, NEW d \in DOMAIN DeviceIp, Arrive(d)
    PROVE  Logs' /\ LogsMove
<1> DEFINE r == [id |-> <<"late", arrivals>>, t |-> Length, ok |-> TRUE, ip |-> ""]
           R == Range(log[d]) \cup {r}
<1>1. PICK new \in {Append(log[d], r), <<r>> \o log[d]} : log' = [log EXCEPT ![d] = new]
  BY DEF Arrive
<1>2. /\ world' = world /\ log = [e \in Feeders |-> log[e]] /\ log[d] \in Seq(Range(log[d]))
      /\ d \in Feeders /\ d # Pihole
  BY WindowAssumption DEF Arrive, Logs, Feeders
<1> HIDE DEF r
<1>3. new \in Seq(R) /\ Range(log[d]) \subseteq Range(new)
  <2>0. log[d] \in Seq(R) /\ r \in R
    BY <1>2
  <2> HIDE DEF R
  <2>1. CASE new = Append(log[d], r)
    BY <2>0, <2>1, RangeAppends
  <2>2. CASE new = <<r>> \o log[d]
    <3>1. new \in Seq(R) /\ Len(new) = Len(log[d]) + 1
          /\ Len(log[d]) \in Nat /\ DOMAIN log[d] = 1..Len(log[d])
      BY <2>0, <2>2
    <3>2. \A i \in 1..Len(log[d]) : i + 1 \in 1..Len(new) /\ new[i + 1] = log[d][i]
      BY <2>0, <2>2, <3>1
    <3>3. DOMAIN new = 1..Len(new)
      BY <3>1
    <3> QED BY <3>1, <3>2, <3>3 DEF Range
  <2> QED BY <2>1, <2>2
<1>4. new \in Seq(Range(new))
  BY <1>3 DEF Range
<1>5. log' = [e \in Feeders |-> log'[e]]
      /\ \A e \in Feeders : log'[e] = IF e = d THEN new ELSE log[e]
  BY <1>1, <1>2
<1>6. log'[Pihole] = log[Pihole] /\ DOMAIN DeviceIp \subseteq Feeders
  BY <1>2, <1>5 DEF Feeders
<1>7. LogsMove
  BY <1>2, <1>3, <1>5, <1>6 DEF LogsMove
<1>8. \A e \in DOMAIN DeviceIp : Range(world.logs[e]) \subseteq Range(log'[e])
  BY <1>3, <1>5, <1>6 DEF Logs
<1>9. \A e \in Feeders : log'[e] \in Seq(Range(log'[e]))
  BY <1>4, <1>5 DEF Logs
<1> QED BY <1>2, <1>5, <1>6, <1>7, <1>8, <1>9 DEF Logs

LEMMA FeedsMove ==
    ASSUME Logs, Logs', LogsMove
    PROVE  /\ Range(Feed(Pihole))' \subseteq Range(Feed(Pihole))
           /\ \A d \in DOMAIN DeviceIp : Range(Feed(d)) \subseteq Range(Feed(d))'
<1>1. ASSUME NEW d \in Feeders
      PROVE  /\ Range(Feed(d)) = IF world.filters THEN {r \in Range(log[d]) : InWindow(r, Begin(d))} ELSE {}
             /\ Range(Feed(d))' = IF world.filters THEN {r \in Range(log'[d]) : InWindow(r, Begin(d))} ELSE {}
  <2>1. Range(Feed(d)) = IF world.filters THEN {r \in Range(log[d]) : InWindow(r, Begin(d))} ELSE {}
    BY FeedIsWindow
  <2>2. log'[d] \in Seq(Range(log'[d])) /\ world' = world
    BY DEF Logs, LogsMove
  <2>3. CASE world.filters
    <3>1. Feed(d)' = Window(log'[d], Begin(d))
      BY <2>2, <2>3, BeginIsFixed DEF Feed, Filtered
    <3>2. Range(Window(log'[d], Begin(d))) = {r \in Range(log'[d]) : InWindow(r, Begin(d))}
      BY <2>2, WindowFilters
    <3>3. Range(Feed(d))' = Range(Window(log'[d], Begin(d)))
      BY <3>1 DEF Range
    <3> QED BY <2>1, <2>3, <3>2, <3>3
  <2>4. CASE ~ world.filters
    <3>1. Feed(d)' = <<>>
      BY <2>2, <2>4 DEF Feed, Filtered
    <3> QED BY <2>1, <2>4, <3>1 DEF Range
  <2> QED BY <2>3, <2>4
<1> QED BY <1>1 DEF LogsMove, Feeders

-----------------------------------------------------------------------------
(* The books each source keeps *)

Entries == {"events", "reported", "complete", "errors", "from"}

Tables ==
    /\ pc = [s \in Sources |-> pc[s]] /\ health = [s \in Sources |-> health[s]]
    /\ offset \in [Sources -> Nat] /\ total \in [Sources -> Nat]
    /\ seen = [s \in Sources |-> seen[s]] /\ devices \in Seq(DOMAIN DeviceIp)
    /\ result = [s \in Sources |-> [f \in Entries |-> result[s][f]]]

\* Records that hold what was seen and are no more than were counted.
Covers(F, s) == IsFiniteSet(F) /\ Cardinality(F) <= total[s] /\ seen[s] \subseteq F

PiholeBooks ==
    /\ pc[Pihole] \in {"start", "count"} => seen[Pihole] = {}
    /\ pc[Pihole] = "page" =>
        \E F : /\ Covers(F, Pihole) /\ Range(Feed(Pihole)) \subseteq F
               /\ F # {} /\ ~ Clamped(result[Pihole]) => Due(Pihole) \subseteq F

\* The part of the window that one device has to give.
Share(d) == {r \in Range(world.logs[d]) : r.ok /\ InWindow(r, 0)}

LibreBooks ==
    /\ pc[Libre] = "start" => seen[Libre] = {} /\ batch = {} /\ total[Libre] = 0
    /\ pc[Libre] \in {"managed", "page"} =>
        /\ batch # {} => devices # <<>> /\ batch \subseteq Range(Feed(Head(devices)))
        /\ \E F : /\ Covers(F, Libre)
                  /\ world.filters \/ F = {}
                  /\ \/ result[Libre].errors \/ ~ world.filters
                     \/ \A d \in Feeds(Libre) : d \in Range(devices) \/ Share(d) \subseteq F

\* What a pull came back with.
Returned(s) ==
    pc[s] \notin {"start", "count", "page", "managed"} =>
        \/ result[s].errors
        \/ \E F : /\ IsFiniteSet(F) /\ Cardinality(F) <= result[s].reported
                  /\ result[s].reported \in Nat
                  /\ result[s].events \subseteq F
                  /\ result[s].events # {} /\ ~ Clamped(result[s]) => Due(s) \subseteq F

Approved(s) ==
    /\ health[s] # "none" => pc[s] = "judged"
    /\ health[s] = "OK" => 50 * Cardinality(Due(s) \ result[s].events) <= result[s].reported

Books(s) ==
    /\ s = Pihole => PiholeBooks
    /\ s = Libre => LibreBooks
    /\ Returned(s) /\ Approved(s)

Accounts == Logs /\ Tables /\ \A s \in Sources : Books(s)

LEMMA AccountsInit == Init => Accounts
<1> SUFFICES ASSUME Init PROVE Accounts
  OBVIOUS
<1>1. /\ pc = [s \in Sources |-> "start"] /\ health = [s \in Sources |-> "none"]
      /\ offset = [s \in Sources |-> 0] /\ total = [s \in Sources |-> 0]
      /\ seen = [s \in Sources |-> {}] /\ devices = <<>> /\ batch = {}
  BY DEF Init
<1>2. Tables
  <2> DEFINE r(s) == [Nothing(s) EXCEPT !.errors = FALSE]
  <2>1. \A s \in Sources : r(s) = [f \in Entries |-> r(s)[f]]
    BY DEF Nothing, Entries
  <2>2. result = [s \in Sources |-> r(s)]
    BY DEF Init
  <2> HIDE DEF r
  <2> QED BY <1>1, <2>1, <2>2 DEF Tables
<1>3. ASSUME NEW s \in Sources PROVE Books(s)
  BY <1>1 DEF Books, PiholeBooks, LibreBooks, Returned, Approved, Sources
<1> QED BY <1>2, <1>3, LogsInit DEF Accounts

\* What a step does not do to a source's books.
Quiet(s) ==
    /\ pc'[s] = pc[s] /\ seen'[s] = seen[s] /\ total'[s] = total[s]
    /\ result'[s] = result[s] /\ health'[s] = health[s]
    /\ s = Libre => devices' = devices /\ batch' = batch

LEMMA DueIsFixed ==
    ASSUME world' = world, NEW s
    PROVE  Due(s)' = Due(s) /\ Feeds(s)' = Feeds(s)
BY DEF Due, Held, Asked, Feeds, Normalised

LEMMA QuietKeeps ==
    ASSUME Logs, Logs', LogsMove, Tables, NEW s \in Sources, Books(s), Quiet(s)
    PROVE  Books(s)'
<1>1. world' = world /\ Due(s)' = Due(s) /\ Feeds(s)' = Feeds(s)
  BY DueIsFixed DEF LogsMove
<1>2. Returned(s)' /\ Approved(s)'
  <2>1. Returned(s)'
    BY <1>1 DEF Books, Returned, Quiet, Clamped
  <2>2. Approved(s)'
    BY <1>1 DEF Books, Approved, Quiet
  <2> QED BY <2>1, <2>2
<1>3. ASSUME s = Pihole PROVE PiholeBooks'
  <2>1. Range(Feed(Pihole))' \subseteq Range(Feed(Pihole))
    BY FeedsMove
  <2>2. \A F : Covers(F, Pihole)' <=> Covers(F, Pihole)
    BY <1>3 DEF Covers, Quiet
  <2>3. Clamped(result[Pihole])' <=> Clamped(result[Pihole])
    BY <1>3 DEF Clamped, Quiet
  <2> QED BY <1>1, <1>3, <2>1, <2>2, <2>3 DEF Books, PiholeBooks, Quiet
<1>4. ASSUME s = Libre PROVE LibreBooks'
  <2>1. \A F : Covers(F, Libre)' <=> Covers(F, Libre)
    BY <1>4 DEF Covers, Quiet
  <2>2. \A d : Share(d)' = Share(d)
    BY <1>1 DEF Share
  <2>3. devices # <<>> => Range(Feed(Head(devices))) \subseteq Range(Feed(Head(devices)))'
    <3>1. SUFFICES ASSUME devices # <<>>
                   PROVE  Range(Feed(Head(devices))) \subseteq Range(Feed(Head(devices)))'
      OBVIOUS
    <3>2. Head(devices) \in DOMAIN DeviceIp /\ devices' = devices
      BY <1>4, <3>1 DEF Tables, Quiet
    <3>3. PICK d \in DOMAIN DeviceIp : d = Head(devices)
      BY <3>2
    <3>4. Range(Feed(d)) \subseteq Range(Feed(d))'
      BY FeedsMove
    <3>5. Range(Feed(Head(devices)))' = Range(Feed(d))'
      BY <3>2, <3>3
    <3> QED BY <3>3, <3>4, <3>5
  <2>4. pc[Libre] = "start" => (seen[Libre] = {} /\ batch = {} /\ total[Libre] = 0)'
    BY <1>4 DEF Books, LibreBooks, Quiet
  <2>5. ASSUME pc[Libre] \in {"managed", "page"}
        PROVE  batch' # {} => devices' # <<>> /\ batch' \subseteq Range(Feed(Head(devices)))'
    BY <1>4, <2>3, <2>5 DEF Books, LibreBooks, Quiet
  <2>6. ASSUME pc[Libre] \in {"managed", "page"}
        PROVE  \E F : /\ Covers(F, Libre)'
                      /\ world'.filters \/ F = {}
                      /\ \/ result'[Libre].errors \/ ~ world'.filters
                         \/ \A d \in Feeds(Libre)' : d \in Range(devices') \/ Share(d)' \subseteq F
    BY <1>1, <1>4, <2>1, <2>2, <2>6 DEF Books, LibreBooks, Quiet
  <2> QED BY <1>4, <2>4, <2>5, <2>6 DEF LibreBooks, Quiet
<1> QED BY <1>2, <1>3, <1>4 DEF Books

-----------------------------------------------------------------------------
(* Pi-hole's pull *)

\* Another source's step: its books are closed to it.
LEMMA PiholeTouches ==
    ASSUME Tables, PiholePull
    PROVE  /\ Quiet(Libre) /\ UNCHANGED <<log, world>>
           /\ health' = health /\ devices' = devices
<1>1. /\ pc'[Libre] = pc[Libre] /\ seen'[Libre] = seen[Libre] /\ total'[Libre] = total[Libre]
      /\ result'[Libre] = result[Libre] /\ UNCHANGED <<health, devices, batch, log, world>>
  <2>0. Libre # Pihole /\ Libre \in Sources
    BY DEF Libre, Pihole, Sources
  <2>1. CASE PiholeAuthenticate \/ PiholePageFails
    BY <2>0, <2>1 DEF PiholeAuthenticate, PiholePageFails, Goto, Return, Tables, services, pull, verdict
  <2>2. CASE PiholeCount
    BY <2>0, <2>2 DEF PiholeCount, Goto, Return, Tables, services, verdict
  <2>3. CASE PiholePage
    BY <2>0, <2>3 DEF PiholePage, PiholeStop, Goto, Tables, verdict
  <2>4. CASE PiholeDone \/ PiholeReturn
    BY <2>0, <2>4 DEF PiholeDone, PiholeReturn, PiholeStop, Goto, Tables, services, pull, verdict
  <2> QED BY <2>1, <2>2, <2>3, <2>4 DEF PiholePull
<1> QED BY <1>1 DEF Quiet

\* A pull that gave up says so.
LEMMA FailedReturn ==
    ASSUME NEW s \in Sources, pc'[s] = "pulled", result'[s].errors, health'[s] = "none"
    PROVE  Books(s)'
BY DEF Books, PiholeBooks, LibreBooks, Returned, Approved

LEMMA FailedTables ==
    ASSUME Tables, NEW s \in Sources, NEW r \in {Nothing(s), Broken}, NEW from,
           Return(s, r) \/ Return(s, [r EXCEPT !.from = from]),
           offset' \in [Sources -> Nat], total' \in [Sources -> Nat],
           UNCHANGED <<seen, devices, health>>
    PROVE  Tables' /\ pc'[s] = "pulled" /\ result'[s].errors
<1>1. PICK x \in {r, [r EXCEPT !.from = from]} :
        result' = [result EXCEPT ![s] = x] /\ pc' = [pc EXCEPT ![s] = "pulled"]
  BY DEF Return, Goto
<1>2. x = [f \in Entries |-> x[f]] /\ x.errors
  <2>1. r = [f \in Entries |-> r[f]] /\ r.errors
    BY DEF Nothing, Broken, Entries
  <2>2. CASE x = r
    BY <2>1, <2>2
  <2>3. CASE x = [r EXCEPT !.from = from]
    BY <2>1, <2>3 DEF Entries
  <2> QED BY <2>2, <2>3
<1> QED BY <1>1, <1>2 DEF Tables

LEMMA PiholeStopBooks ==
    ASSUME Logs, Tables, NEW records, NEW complete, PiholeStop(records, complete),
           UNCHANGED <<world, health, total, devices, offset>>, health[Pihole] = "none",
           seen' = [s \in Sources |-> seen'[s]],
           \E F : /\ IsFiniteSet(F) /\ Cardinality(F) <= total[Pihole] /\ records \subseteq F
                  /\ F # {} /\ ~ Clamped(result[Pihole]) => Due(Pihole) \subseteq F
    PROVE  Tables' /\ Books(Pihole)'
<1>1. /\ result' = [result EXCEPT ![Pihole] =
                      [events |-> Normalised(records), reported |-> total[Pihole],
                       complete |-> complete, errors |-> ~complete, from |-> @.from]]
      /\ pc' = [pc EXCEPT ![Pihole] = "clients"]
  BY DEF PiholeStop, Goto
<1>2. Pihole \in Sources /\ Pihole # Libre
  BY DEF Sources, Pihole, Libre
<1>3. Tables'
  <2> DEFINE r == [events |-> Normalised(records), reported |-> total[Pihole],
                   complete |-> complete, errors |-> ~complete, from |-> result[Pihole].from]
  <2>1. r = [f \in Entries |-> r[f]]
    BY DEF Entries
  <2>2. result' = [result EXCEPT ![Pihole] = r]
    BY <1>1
  <2> HIDE DEF r
  <2>3. result = [s \in Sources |-> result[s]]
    BY DEF Tables
  <2>4. \A s \in Sources : result'[s] = IF s = Pihole THEN r ELSE result[s]
    BY <2>2, <2>3
  <2>5. \A s \in Sources : result'[s] = [f \in Entries |-> result'[s][f]]
    BY <2>1, <2>4 DEF Tables
  <2>6. result' = [s \in Sources |-> [f \in Entries |-> result'[s][f]]]
    BY <2>2, <2>3, <2>5
  <2>7. pc' = [s \in Sources |-> pc'[s]]
    BY <1>1 DEF Tables
  <2> QED BY <2>6, <2>7 DEF Tables
<1>4. /\ pc'[Pihole] = "clients" /\ result'[Pihole].events = Normalised(records)
      /\ result'[Pihole].reported = total[Pihole] /\ result'[Pihole].from = result[Pihole].from
      /\ total[Pihole] \in Nat
  BY <1>1, <1>2 DEF Tables
<1>5. Returned(Pihole)'
  <2>1. Due(Pihole)' = Due(Pihole)
    BY DueIsFixed
  <2>2. PICK F : /\ IsFiniteSet(F) /\ Cardinality(F) <= total[Pihole] /\ records \subseteq F
                 /\ F # {} /\ ~ Clamped(result[Pihole]) => Due(Pihole) \subseteq F
    OBVIOUS
  <2>3. Clamped(result'[Pihole]) <=> Clamped(result[Pihole])
    BY <1>4 DEF Clamped
  <2>4. Normalised(records) \subseteq F
    BY <2>2 DEF Normalised
  <2> QED BY <1>4, <2>1, <2>2, <2>3, <2>4 DEF Returned
<1>6. PiholeBooks' /\ Approved(Pihole)'
  BY <1>4 DEF PiholeBooks, Approved
<1> QED BY <1>2, <1>3, <1>5, <1>6 DEF Books

\* The time a feed of Pi-hole's begins at, by its reach or by its memory.
CutAt == IF Earliest > Begin(Pihole) THEN Earliest ELSE Begin(Pihole)

\* When neither its reach nor the oldest record Pi-hole still has cuts more off the
\* window than is let pass, what they cut off is not due.
LEMMA OldestTells ==
    ASSUME Logs, Range(Feed(Pihole)) # {}, ~ 100 * CutAt > Hour
    PROVE  Due(Pihole) \subseteq Range(Feed(Pihole))
<1> DEFINE now == log[Pihole]
           first == world.logs[Pihole]
           n == Len(now)
<1>1. world.filters /\ now # <<>>
      /\ Range(Feed(Pihole)) = {r \in Range(now) : InWindow(r, Begin(Pihole))}
  <2>1. Range(Feed(Pihole)) = IF world.filters THEN {r \in Range(now) : InWindow(r, Begin(Pihole))} ELSE {}
    BY FeedIsWindow DEF Feeders
  <2>2. Range(<<>>) = {}
    BY DEF Range
  <2> QED BY <2>1, <2>2
<1>2. world \in Instances /\ Pihole \in Feeders
  BY DEF Logs, Feeders
<1>3. DOMAIN world.logs = Feeders
  <2>1. world.logs = [d \in {Pihole} \cup DOMAIN DeviceIp |-> world.logs[d]]
    BY <1>2, InstancesAssumption, Zenon
  <2> QED BY <2>1 DEF Feeders
<1>4. /\ first \in Seq(Range(first))
      /\ \A r \in Range(first) : r.t \in Int
      /\ \A i, j \in DOMAIN first : i < j => first[i].t >= first[j].t
  BY <1>2, <1>3, InstancesAssumption
<1>5. /\ now \in Seq(Range(now)) /\ n <= Len(first)
      /\ \A i \in 1..n : now[i] = first[i]
  BY <1>2 DEF Logs
<1> HIDE DEF now, first
<1>6. /\ n \in Nat \ {0} /\ Len(first) \in Nat /\ DOMAIN first = 1..Len(first)
      /\ DOMAIN now = 1..n
  BY <1>1, <1>4, <1>5
<1>7. Earliest = first[n].t /\ first[n] \in Range(now) /\ first[n].t \in Int
      /\ first[n] \in Range(first)
  <2>1. Earliest = now[n].t
    BY <1>1 DEF Earliest, Last, now
  <2>2. n \in 1..n /\ n \in 1..Len(first)
    BY <1>5, <1>6
  <2> QED BY <1>4, <1>5, <1>6, <2>1, <2>2 DEF Range
<1>8. /\ Begin(Pihole) \in Nat /\ Hour \in Nat /\ Earliest \in Int
      /\ 100 * Begin(Pihole) <= Hour /\ 100 * Earliest <= Hour
  BY <1>7, BeginIsInt, WindowAssumption DEF CutAt
<1>9. ASSUME NEW r \in Due(Pihole) PROVE r \in Range(now)
  <2>1. r \in Range(first) /\ InWindow(r, 0) /\ 100 * r.t > Hour
    BY DEF Due, Held, Asked, Normalised, Feeds, first
  <2>2. PICK k \in 1..Len(first) : r = first[k]
    BY <1>6, <2>1 DEF Range
  <2>3. CASE k <= n
    BY <1>5, <1>6, <2>2, <2>3 DEF Range
  <2>4. CASE n < k
    <3>1. first[n].t >= r.t /\ r.t \in Int
      BY <1>4, <1>5, <1>6, <2>1, <2>2, <2>4
    <3>2. 100 * Earliest > Hour
      BY <1>7, <1>8, <2>1, <3>1
    <3> QED BY <1>7, <1>8, <3>2
  <2> QED BY <1>6, <2>3, <2>4
<1>10. ASSUME NEW r \in Due(Pihole) PROVE InWindow(r, Begin(Pihole))
  <2>1. r \in Range(first) /\ InWindow(r, 0) /\ 100 * r.t > Hour
    BY DEF Due, Held, Asked, Normalised, Feeds, first
  <2>2. r.t \in Int
    BY <1>4, <2>1
  <2> QED BY <1>8, <2>1, <2>2 DEF InWindow
<1> QED BY <1>1, <1>9, <1>10

LEMMA PiholeCountBooks ==
    ASSUME Logs, Tables, Books(Pihole), PiholeCount
    PROVE  Tables' /\ Books(Pihole)'
<1>0. /\ pc[Pihole] = "count" /\ UNCHANGED <<log, world, health, devices, offset, seen>>
      /\ Pihole \in Sources /\ Pihole \in Feeders /\ Pihole # Libre
      /\ health[Pihole] = "none" /\ seen[Pihole] = {}
  BY DEF PiholeCount, At, services, verdict, Books, Approved, PiholeBooks, Sources, Feeders,
         Pihole, Libre
<1>1. CASE Return(Pihole, Broken) /\ UNCHANGED total
  <2>1. Tables' /\ pc'[Pihole] = "pulled" /\ result'[Pihole].errors
    BY <1>0, <1>1, FailedTables DEF Tables
  <2>2. health'[Pihole] = "none"
    BY <1>0
  <2> QED BY <1>0, <2>1, <2>2, FailedReturn
<1>2. CASE /\ total' = [total EXCEPT ![Pihole] = Len(Feed(Pihole))]
           /\ result' = [result EXCEPT ![Pihole].from = CutAt]
           /\ pc' = [pc EXCEPT ![Pihole] = "page"]
  <2>0. PICK F : F = Range(Feed(Pihole))
    OBVIOUS
  <2>1. IsFiniteSet(F) /\ Len(Feed(Pihole)) \in Nat /\ Cardinality(F) <= Len(Feed(Pihole))
    BY <1>0, <2>0, FeedIsCounted
  <2>2. total' \in [Sources -> Nat] /\ total'[Pihole] = Len(Feed(Pihole))
    BY <1>0, <1>2, <2>1 DEF Tables
  <2>3. /\ result' = [s \in Sources |-> [f \in Entries |-> result'[s][f]]]
        /\ result'[Pihole].from = CutAt
    BY <1>0, <1>2 DEF Tables, Entries
  <2>4. Tables'
    BY <1>0, <1>2, <2>2, <2>3 DEF Tables
  <2>5. /\ Due(Pihole)' = Due(Pihole) /\ Range(Feed(Pihole))' = F
        /\ pc'[Pihole] = "page"
    BY <1>0, <1>2, <2>0, DueIsFixed DEF Feed, Filtered, Begin, Tables
  <2>6. F # {} /\ ~ Clamped(result'[Pihole]) => Due(Pihole) \subseteq F
    <3>1. ~ Clamped(result'[Pihole]) => ~ 100 * CutAt > Hour
      BY <2>3 DEF Clamped
    <3> QED BY <2>0, <3>1, OldestTells
  <2>7. Covers(F, Pihole)'
    BY <1>0, <2>1, <2>2 DEF Covers
  <2>8. PiholeBooks'
    BY <2>5, <2>6, <2>7 DEF PiholeBooks
  <2> QED BY <1>0, <2>4, <2>5, <2>8 DEF Books, Returned, Approved
<1> QED BY <1>1, <1>2 DEF PiholeCount, Goto, CutAt

LEMMA PiholePageBooks ==
    ASSUME Logs, Tables, Books(Pihole), PiholePage
    PROVE  Tables' /\ Books(Pihole)'
<1>0. /\ pc[Pihole] = "page" /\ UNCHANGED <<log, world, health, devices, total>>
      /\ Pihole \in Sources /\ Pihole \in Feeders /\ Pihole # Libre
      /\ health[Pihole] = "none" /\ offset[Pihole] \in Nat
  BY DEF PiholePage, At, verdict, Books, Approved, Sources, Feeders, Pihole, Libre, Tables
<1>1. PICK F : /\ Covers(F, Pihole) /\ Range(Feed(Pihole)) \subseteq F
               /\ F # {} /\ ~ Clamped(result[Pihole]) => Due(Pihole) \subseteq F
  BY <1>0 DEF Books, PiholeBooks
<1>2. PICK page \in {PageAt(Pihole, offset[Pihole]), PageAt(Pihole, 0), <<>>} :
        /\ seen' = [seen EXCEPT ![Pihole] = seen[Pihole] \cup Range(page)]
        /\ \/ /\ PiholeStop(seen[Pihole] \cup Range(page), page = <<>>)
              /\ UNCHANGED offset
           \/ /\ offset' = [offset EXCEPT ![Pihole] = @ + Len(page)]
              /\ UNCHANGED <<pc, result>>
  BY Zenon DEF PiholePage
<1> DEFINE now == seen[Pihole] \cup Range(page)
<1>3. now \subseteq F /\ Len(page) \in Nat
  <2>1. /\ PageAt(Pihole, offset[Pihole]) \in Seq(Range(Feed(Pihole)))
        /\ Range(PageAt(Pihole, offset[Pihole])) \subseteq Range(Feed(Pihole))
        /\ PageAt(Pihole, 0) \in Seq(Range(Feed(Pihole)))
        /\ Range(PageAt(Pihole, 0)) \subseteq Range(Feed(Pihole))
    BY <1>0, PagesAreWithin
  <2>2. page \in Seq(Range(Feed(Pihole))) /\ Range(page) \subseteq Range(Feed(Pihole))
    <3>1. <<>> \in Seq(Range(Feed(Pihole))) /\ Range(<<>>) = {}
      BY DEF Range
    <3> QED BY <1>2, <2>1, <3>1
  <2> QED BY <1>1, <2>2 DEF Covers
<1>4. seen' = [s \in Sources |-> seen'[s]] /\ seen'[Pihole] = now
  BY <1>0, <1>2 DEF Tables
<1> HIDE DEF now
<1>5. CASE PiholeStop(now, page = <<>>) /\ UNCHANGED offset
  <2>1. \E G : /\ IsFiniteSet(G) /\ Cardinality(G) <= total[Pihole] /\ now \subseteq G
               /\ G # {} /\ ~ Clamped(result[Pihole]) => Due(Pihole) \subseteq G
    BY <1>1, <1>3 DEF Covers
  <2> QED BY <1>0, <1>4, <1>5, <2>1, PiholeStopBooks
<1>6. CASE /\ offset' = [offset EXCEPT ![Pihole] = @ + Len(page)]
           /\ UNCHANGED <<pc, result>>
  <2>1. offset' \in [Sources -> Nat]
    BY <1>0, <1>3, <1>6 DEF Tables
  <2>2. Tables'
    BY <1>0, <1>4, <1>6, <2>1 DEF Tables
  <2>3. Due(Pihole)' = Due(Pihole) /\ Range(Feed(Pihole))' = Range(Feed(Pihole))
    BY <1>0, DueIsFixed DEF Feed, Filtered, Begin
  <2>4. Covers(F, Pihole)'
    BY <1>0, <1>1, <1>3, <1>4 DEF Covers
  <2>5. PiholeBooks'
    BY <1>0, <1>1, <1>6, <2>3, <2>4 DEF PiholeBooks
  <2> QED BY <1>0, <1>6, <2>2, <2>5 DEF Books, Returned, Approved
<1> QED BY <1>2, <1>5, <1>6 DEF now

LEMMA PiholePullBooks ==
    ASSUME Logs, Tables, Books(Pihole), PiholePull
    PROVE  Tables' /\ Books(Pihole)'
<1>0. Pihole \in Sources /\ Pihole # Libre
  BY DEF Sources, Pihole, Libre
<1>1. CASE PiholeAuthenticate \/ PiholePageFails
  <2>1. /\ pc[Pihole] \in {"start", "page"}
        /\ UNCHANGED <<log, world, health, devices, offset, total, seen>>
    BY <1>1 DEF PiholeAuthenticate, PiholePageFails, At, services, pull, verdict
  <2>2. health[Pihole] = "none"
    BY <2>1 DEF Books, Approved
  <2>3. CASE \/ Return(Pihole, Nothing(Pihole))
             \/ Return(Pihole, [Broken EXCEPT !.from = result[Pihole].from])
    <3>1. Tables' /\ pc'[Pihole] = "pulled" /\ result'[Pihole].errors
      BY <1>0, <2>1, <2>3, FailedTables DEF Tables
    <3> QED BY <1>0, <2>1, <2>2, <3>1, FailedReturn
  <2>4. CASE pc[Pihole] = "start" /\ pc' = [pc EXCEPT ![Pihole] = "count"] /\ UNCHANGED result
    <3>1. Tables' /\ pc'[Pihole] = "count" /\ seen[Pihole] = {}
      BY <1>0, <2>1, <2>4 DEF Tables, Books, PiholeBooks
    <3> QED BY <1>0, <2>1, <2>2, <3>1 DEF Books, PiholeBooks, Returned, Approved
  <2> QED BY <1>1, <2>3, <2>4 DEF PiholeAuthenticate, PiholePageFails, At, Goto
<1>2. CASE PiholeDone
  <2>1. /\ pc[Pihole] = "page" /\ PiholeStop(seen[Pihole], TRUE)
        /\ UNCHANGED <<log, world, health, devices, offset, total, seen>>
    BY <1>2 DEF PiholeDone, At, services, pull, verdict
  <2>2. health[Pihole] = "none" /\ seen' = [s \in Sources |-> seen'[s]]
    BY <2>1 DEF Books, Approved, Tables
  <2>3. \E F : /\ IsFiniteSet(F) /\ Cardinality(F) <= total[Pihole] /\ seen[Pihole] \subseteq F
               /\ F # {} /\ ~ Clamped(result[Pihole]) => Due(Pihole) \subseteq F
    BY <1>0, <2>1 DEF Books, PiholeBooks, Covers
  <2> QED BY <2>1, <2>2, <2>3, PiholeStopBooks
<1>3. CASE PiholeReturn
  <2>1. /\ pc[Pihole] = "clients" /\ pc' = [pc EXCEPT ![Pihole] = "pulled"]
        /\ UNCHANGED <<log, world, health, devices, offset, total, seen, result>>
    BY <1>3 DEF PiholeReturn, At, Goto, services, pull, verdict
  <2>2. Tables' /\ pc'[Pihole] = "pulled"
    BY <1>0, <2>1 DEF Tables
  <2>3. Due(Pihole)' = Due(Pihole)
    BY <2>1, DueIsFixed
  <2>4. Returned(Pihole)'
    BY <2>1, <2>2, <2>3 DEF Books, Returned, Clamped
  <2>5. PiholeBooks' /\ Approved(Pihole)'
    BY <2>1, <2>2 DEF Books, PiholeBooks, Approved
  <2> QED BY <1>0, <2>2, <2>4, <2>5 DEF Books
<1> QED BY <1>1, <1>2, <1>3, PiholeCountBooks, PiholePageBooks DEF PiholePull

-----------------------------------------------------------------------------
(* LibreNMS's pull *)

LEMMA LibreTouches ==
    ASSUME Tables, LibrePull
    PROVE  Quiet(Pihole) /\ UNCHANGED <<log, world, health>>
<1>0. Libre # Pihole /\ Pihole \in Sources
  BY DEF Libre, Pihole, Sources
<1>1. /\ pc'[Pihole] = pc[Pihole] /\ seen'[Pihole] = seen[Pihole]
      /\ total'[Pihole] = total[Pihole] /\ result'[Pihole] = result[Pihole]
      /\ UNCHANGED <<health, log, world>>
  <2>1. CASE LibreDevices
    BY <1>0, <2>1 DEF LibreDevices, Goto, Return, Tables, services, verdict
  <2>2. CASE LibreManaged \/ LibreReturn
    BY <1>0, <2>2 DEF LibreManaged, LibreReturn, Goto, Tables, services, pull, verdict
  <2>3. CASE LibrePage
    BY <1>0, <2>3 DEF LibrePage, Tables, verdict
  <2>4. CASE LibrePageFails
    BY <1>0, <2>4 DEF LibrePageFails, Tables, services, verdict
  <2>5. CASE LibreCombine
    BY <1>0, <2>5 DEF LibreCombine, Goto, Tables, services, pull, verdict
  <2> QED BY <2>1, <2>2, <2>3, <2>4, <2>5 DEF LibrePull
<1> QED BY <1>0, <1>1 DEF Quiet

LEMMA LibreDevicesBooks ==
    ASSUME Logs, Tables, Books(Libre), LibreDevices
    PROVE  Tables' /\ Books(Libre)'
<1>0. /\ pc[Libre] = "start" /\ UNCHANGED <<log, world, health, offset, total, seen, batch>>
      /\ Libre \in Sources /\ Pihole # Libre
      /\ health[Libre] = "none" /\ seen[Libre] = {} /\ batch = {} /\ total[Libre] = 0
  BY DEF LibreDevices, At, services, verdict, Books, Approved, LibreBooks, Sources, Pihole, Libre
<1>1. CASE Return(Libre, Nothing(Libre)) /\ UNCHANGED devices
  <2>1. Tables' /\ pc'[Libre] = "pulled" /\ result'[Libre].errors
    BY <1>0, <1>1, FailedTables DEF Tables
  <2> QED BY <1>0, <2>1, FailedReturn
<1>2. CASE /\ Resolved # <<>> /\ devices' = Resolved /\ UNCHANGED result
           /\ pc' = [pc EXCEPT ![Libre] = "managed"]
  <2>1. /\ Resolved \in Seq(DOMAIN DeviceIp)
        /\ Feeds(Libre) = Range(Resolved)
    <3>1. world.explicit \in Seq(DOMAIN DeviceIp) /\ world.managed \in Seq(DOMAIN DeviceIp)
      BY InstancesAssumption, Zenon DEF Logs
    <3>2. Resolved = IF world.explicit # <<>> THEN world.explicit ELSE world.managed
      BY <1>2 DEF Resolved, Listed
    <3> QED BY <1>0, <3>1, <3>2 DEF Feeds
  <2>2. Tables' /\ pc'[Libre] = "managed"
    BY <1>0, <1>2, <2>1 DEF Tables
  <2>3. Feeds(Libre)' = Range(devices')
    BY <1>0, <1>2, <2>1, DueIsFixed
  <2>4. LibreBooks'
    <3>1. Covers({}, Libre)'
      BY <1>0, FS_EmptySet DEF Covers
    <3> QED BY <1>0, <2>2, <2>3, <3>1 DEF LibreBooks
  <2> QED BY <1>0, <2>2, <2>4 DEF Books, Returned, Approved
<1> QED BY <1>1, <1>2 DEF LibreDevices, Goto

\* A device whose pages are all fetched moves from the list to the count.
LEMMA NextDeviceCounts ==
    ASSUME Logs, Tables, devices # <<>>, NEW F, IsFiniteSet(F), NEW n \in Nat, Cardinality(F) <= n,
           world.filters \/ F = {}
    PROVE  \E G : /\ IsFiniteSet(G) /\ Cardinality(G) <= n + Len(Feed(Head(devices)))
                  /\ F \subseteq G /\ Range(Feed(Head(devices))) \subseteq G
                  /\ world.filters \/ G = {}
                  /\ world.filters => \A d \in Range(devices) :
                        d \in Range(Tail(devices)) \/ Share(d) \subseteq G
<1>1. Head(devices) \in DOMAIN DeviceIp /\ Head(devices) \in Feeders
  BY DEF Tables, Feeders
<1>2. PICK d \in DOMAIN DeviceIp : d = Head(devices) /\ d \in Feeders
  BY <1>1
<1> DEFINE G == F \cup Range(Feed(d))
           m == Len(Feed(d))
<1>3. IsFiniteSet(Range(Feed(d))) /\ m \in Nat /\ Cardinality(Range(Feed(d))) <= m
  BY <1>2, FeedIsCounted
<1>4. IsFiniteSet(G) /\ Cardinality(G) <= n + m
  <2> DEFINE R == Range(Feed(d))
  <2>0. IsFiniteSet(R) /\ Cardinality(R) <= m
    BY <1>3
  <2> HIDE DEF R, m
  <2>1. /\ IsFiniteSet(F \cup R) /\ IsFiniteSet(F \cap R)
        /\ Cardinality(F \cup R) = Cardinality(F) + Cardinality(R) - Cardinality(F \cap R)
    BY <2>0, FS_Union, FS_Intersection
  <2>2. Cardinality(F) \in Nat /\ Cardinality(R) \in Nat /\ Cardinality(F \cap R) \in Nat
    BY <2>0, <2>1, FS_CardinalityType
  <2>3. Cardinality(F \cup R) <= n + m
    BY <1>3, <2>0, <2>1, <2>2
  <2> QED BY <2>1, <2>3 DEF R
<1>5. Range(Feed(d)) = IF world.filters THEN {r \in Range(log[d]) : InWindow(r, 0)} ELSE {}
  BY <1>2, LibreBegins, FeedIsWindow
<1>6. world.filters => Share(d) \subseteq Range(Feed(d))
  BY <1>5 DEF Share, Logs
<1>7. \A e \in Range(devices) : e = d \/ e \in Range(Tail(devices))
  BY <1>2, TailKeeps DEF Tables
<1> HIDE DEF m
<1>8. world.filters \/ G = {}
  BY <1>5
<1>9. ASSUME world.filters, NEW e \in Range(devices)
      PROVE  e \in Range(Tail(devices)) \/ Share(e) \subseteq G
  BY <1>6, <1>7, <1>9
<1> QED BY <1>2, <1>4, <1>8, <1>9 DEF m

\* What one page adds to the books.
LEMMA PageRecords ==
    ASSUME Logs, Tables, devices # <<>>, NEW start \in Nat,
           NEW page \in {PageAt(Head(devices), start), PageAt(Head(devices), 0), <<>>}
    PROVE  /\ Len(page) \in Nat
           /\ Normalised(Range(page)) \subseteq Range(Feed(Head(devices)))
<1>1. Head(devices) \in DOMAIN DeviceIp /\ Head(devices) \in Feeders
  BY DEF Tables, Feeders
<1>2. PICK d \in Feeders : d = Head(devices)
  BY <1>1
<1>3. /\ PageAt(d, start) \in Seq(Range(Feed(d))) /\ Range(PageAt(d, start)) \subseteq Range(Feed(d))
      /\ PageAt(d, 0) \in Seq(Range(Feed(d))) /\ Range(PageAt(d, 0)) \subseteq Range(Feed(d))
  BY PagesAreWithin
<1>4. <<>> \in Seq(Range(Feed(d))) /\ Range(<<>>) = {}
  BY DEF Range
<1>5. page \in Seq(Range(Feed(d))) /\ Range(page) \subseteq Range(Feed(d))
  BY <1>2, <1>3, <1>4
<1> QED BY <1>2, <1>5 DEF Normalised

LEMMA LibrePageBooks ==
    ASSUME Logs, Tables, Books(Libre), LibrePage
    PROVE  Tables' /\ Books(Libre)'
<1> DEFINE d == Head(devices)
           reported == Len(Feed(d))
<1>0. /\ pc[Libre] = "page" /\ UNCHANGED <<log, world, health, pc, result>> /\ devices # <<>>
      /\ Libre \in Sources /\ Pihole # Libre
      /\ health[Libre] = "none" /\ offset[Libre] \in Nat /\ total[Libre] \in Nat
  BY DEF LibrePage, At, verdict, Books, Approved, Sources, Pihole, Libre, Tables
<1>1. PICK F : /\ Covers(F, Libre)
               /\ world.filters \/ F = {}
               /\ \/ result[Libre].errors \/ ~ world.filters
                  \/ \A e \in Feeds(Libre) : e \in Range(devices) \/ Share(e) \subseteq F
  BY <1>0 DEF Books, LibreBooks
<1>2. batch # {} => batch \subseteq Range(Feed(d))
  BY <1>0 DEF Books, LibreBooks
<1>3. PICK page \in {PageAt(d, offset[Libre]), PageAt(d, 0), <<>>} :
        \/ /\ NextDevice
           /\ total' = [total EXCEPT ![Libre] = @ + reported]
           /\ seen' = [seen EXCEPT ![Libre] = @ \cup batch \cup Normalised(Range(page))]
        \/ /\ batch' = batch \cup Normalised(Range(page))
           /\ offset' = [offset EXCEPT ![Libre] = @ + Len(page)]
           /\ UNCHANGED <<devices, total, seen>>
  BY Zenon DEF LibrePage
<1>4. Len(page) \in Nat /\ Normalised(Range(page)) \subseteq Range(Feed(d))
  BY <1>0, PageRecords
<1> HIDE DEF d
<1>5. Feeds(Libre)' = Feeds(Libre) /\ \A e : Share(e)' = Share(e)
  BY <1>0, DueIsFixed DEF Share
<1>6. CASE /\ NextDevice
           /\ total' = [total EXCEPT ![Libre] = @ + reported]
           /\ seen' = [seen EXCEPT ![Libre] = @ \cup batch \cup Normalised(Range(page))]
  <2>1. /\ devices' = Tail(devices) /\ batch' = {}
        /\ offset' = [offset EXCEPT ![Libre] = 0]
    BY <1>6 DEF NextDevice
  <2>2. reported \in Nat
    BY <1>0, FeedIsCounted DEF Tables, Feeders, d
  <2> HIDE DEF reported
  <2>3. Tables' /\ total'[Libre] = total[Libre] + reported
        /\ seen'[Libre] = seen[Libre] \cup batch \cup Normalised(Range(page))
    <3>1. devices' \in Seq(DOMAIN DeviceIp)
      BY <1>0, <2>1 DEF Tables
    <3>2. total' \in [Sources -> Nat] /\ total'[Libre] = total[Libre] + reported
      BY <1>0, <1>6, <2>2 DEF Tables
    <3>3. /\ seen' = [s \in Sources |-> seen'[s]]
          /\ seen'[Libre] = seen[Libre] \cup batch \cup Normalised(Range(page))
      BY <1>0, <1>6 DEF Tables
    <3>4. offset' \in [Sources -> Nat]
      BY <1>0, <2>1 DEF Tables
    <3> QED BY <1>0, <3>1, <3>2, <3>3, <3>4 DEF Tables
  <2>4. PICK G : /\ IsFiniteSet(G) /\ Cardinality(G) <= total[Libre] + reported
                 /\ F \subseteq G /\ Range(Feed(d)) \subseteq G
                 /\ world.filters \/ G = {}
                 /\ \/ result[Libre].errors \/ ~ world.filters
                    \/ \A e \in Feeds(Libre) : e \in Range(Tail(devices)) \/ Share(e) \subseteq G
    <3>1. IsFiniteSet(F) /\ Cardinality(F) <= total[Libre]
      BY <1>1 DEF Covers
    <3>2. PICK G : /\ IsFiniteSet(G) /\ Cardinality(G) <= total[Libre] + reported
                   /\ F \subseteq G /\ Range(Feed(d)) \subseteq G
                   /\ world.filters \/ G = {}
                   /\ world.filters => \A e \in Range(devices) :
                         e \in Range(Tail(devices)) \/ Share(e) \subseteq G
      BY <1>0, <1>1, <3>1, NextDeviceCounts DEF d, reported
    <3> QED BY <1>1, <3>2
  <2>5. Covers(G, Libre)'
    BY <1>1, <1>2, <1>4, <2>3, <2>4 DEF Covers
  <2>6. LibreBooks'
    BY <1>0, <1>5, <2>1, <2>4, <2>5 DEF LibreBooks
  <2> QED BY <1>0, <2>3, <2>6 DEF Books, Returned, Approved
<1>7. CASE /\ batch' = batch \cup Normalised(Range(page))
           /\ offset' = [offset EXCEPT ![Libre] = @ + Len(page)]
           /\ UNCHANGED <<devices, total, seen>>
  <2>1. offset' \in [Sources -> Nat]
    BY <1>0, <1>4, <1>7 DEF Tables
  <2>2. Tables'
    BY <1>0, <1>7, <2>1 DEF Tables
  <2>3. Covers(F, Libre)'
    BY <1>1, <1>7 DEF Covers
  <2>4. batch' \subseteq Range(Feed(Head(devices)))'
    <3>1. Feed(Head(devices))' = Feed(Head(devices))
      BY <1>0, <1>7 DEF Feed, Filtered, Begin
    <3> QED BY <1>2, <1>4, <1>7, <3>1 DEF d
  <2>5. LibreBooks'
    BY <1>0, <1>1, <1>5, <1>7, <2>3, <2>4 DEF LibreBooks
  <2> QED BY <1>0, <2>2, <2>5 DEF Books, Returned, Approved
<1> QED BY <1>3, <1>6, <1>7

LEMMA LibrePageFailsBooks ==
    ASSUME Logs, Tables, Books(Libre), LibrePageFails
    PROVE  Tables' /\ Books(Libre)'
<1>0. /\ pc[Libre] = "page" /\ UNCHANGED <<log, world, health, pc, total, seen>>
      /\ Libre \in Sources /\ Pihole # Libre /\ health[Libre] = "none" /\ devices # <<>>
  BY DEF LibrePageFails, At, services, verdict, Books, Approved, Sources, Pihole, Libre
<1>1. /\ devices' = Tail(devices) /\ batch' = {}
      /\ offset' = [offset EXCEPT ![Libre] = 0]
      /\ result' = [result EXCEPT ![Libre].errors = TRUE]
  BY DEF LibrePageFails, NextDevice
<1>2. Tables' /\ result'[Libre].errors
  <2>1. /\ result' = [s \in Sources |-> [f \in Entries |-> result'[s][f]]]
        /\ result'[Libre].errors
    BY <1>0, <1>1 DEF Tables, Entries
  <2>2. offset' \in [Sources -> Nat] /\ devices' \in Seq(DOMAIN DeviceIp)
    BY <1>0, <1>1 DEF Tables
  <2> QED BY <1>0, <2>1, <2>2 DEF Tables
<1>3. \A F : Covers(F, Libre)' <=> Covers(F, Libre)
  BY <1>0 DEF Covers
<1>4. LibreBooks'
  BY <1>0, <1>1, <1>2, <1>3 DEF Books, LibreBooks
<1> QED BY <1>0, <1>2, <1>4 DEF Books, Returned, Approved

LEMMA LibreCombineBooks ==
    ASSUME Logs, Tables, Books(Libre), LibreCombine
    PROVE  Tables' /\ Books(Libre)'
<1>0. /\ pc[Libre] = "page" /\ devices = <<>>
      /\ UNCHANGED <<log, world, health, devices, offset, total, seen, batch>>
      /\ Libre \in Sources /\ Pihole # Libre /\ health[Libre] = "none"
  BY DEF LibreCombine, At, services, pull, verdict, Books, Approved, Sources, Pihole, Libre
<1>1. /\ result' = [result EXCEPT ![Libre].events = seen[Libre], ![Libre].reported = total[Libre]]
      /\ pc' = [pc EXCEPT ![Libre] = "leases"]
  BY DEF LibreCombine, Goto
<1>2. Tables' /\ pc'[Libre] = "leases" /\ total[Libre] \in Nat
      /\ result'[Libre].events = seen[Libre] /\ result'[Libre].reported = total[Libre]
      /\ result'[Libre].errors = result[Libre].errors
  <2>1. /\ result' = [s \in Sources |-> [f \in Entries |-> result'[s][f]]]
        /\ result'[Libre].events = seen[Libre] /\ result'[Libre].reported = total[Libre]
        /\ result'[Libre].errors = result[Libre].errors
    <3> DEFINE x == [result EXCEPT ![Libre].events = seen[Libre]]
    <3>1. /\ x = [s \in Sources |-> [f \in Entries |-> x[s][f]]]
          /\ x[Libre].events = seen[Libre] /\ x[Libre].errors = result[Libre].errors
      BY <1>0 DEF Tables, Entries
    <3>2. result' = [x EXCEPT ![Libre].reported = total[Libre]]
      BY <1>1
    <3> HIDE DEF x
    <3> QED BY <1>0, <3>1, <3>2 DEF Entries
  <2>2. pc' = [s \in Sources |-> pc'[s]] /\ pc'[Libre] = "leases"
    BY <1>0, <1>1 DEF Tables
  <2> QED BY <1>0, <2>1, <2>2 DEF Tables
<1>3. PICK F : /\ Covers(F, Libre)
               /\ world.filters \/ F = {}
               /\ \/ result[Libre].errors \/ ~ world.filters
                  \/ \A e \in Feeds(Libre) : e \in Range(devices) \/ Share(e) \subseteq F
  BY <1>0 DEF Books, LibreBooks
<1>4. Due(Libre)' = Due(Libre)
  BY <1>0, DueIsFixed
<1>5. seen[Libre] # {} /\ ~ result[Libre].errors => Due(Libre) \subseteq F
  <2>1. SUFFICES ASSUME seen[Libre] # {}, ~ result[Libre].errors PROVE Due(Libre) \subseteq F
    OBVIOUS
  <2>2. \A e \in Feeds(Libre) : Share(e) \subseteq F
    BY <1>0, <1>3, <2>1 DEF Covers, Range
  <2>3. \A r \in Due(Libre) : \E e \in Feeds(Libre) : r \in Share(e)
    BY DEF Due, Held, Asked, Normalised, Share
  <2> QED BY <2>2, <2>3
<1>6. Returned(Libre)'
  BY <1>2, <1>3, <1>4, <1>5 DEF Returned, Covers
<1>7. LibreBooks' /\ Approved(Libre)'
  BY <1>0, <1>2 DEF LibreBooks, Approved
<1> QED BY <1>0, <1>2, <1>6, <1>7 DEF Books

LEMMA LibrePullBooks ==
    ASSUME Logs, Tables, Books(Libre), LibrePull
    PROVE  Tables' /\ Books(Libre)'
<1>0. Libre \in Sources /\ Pihole # Libre
  BY DEF Sources, Pihole, Libre
<1>1. CASE LibreManaged
  <2>1. /\ pc[Libre] = "managed" /\ pc' = [pc EXCEPT ![Libre] = "page"]
        /\ UNCHANGED <<log, world, health, devices, offset, total, seen, batch, result>>
    BY <1>1 DEF LibreManaged, At, Goto, services, pull, verdict
  <2>2. Tables' /\ pc'[Libre] = "page"
    BY <1>0, <2>1 DEF Tables
  <2>3. Feeds(Libre)' = Feeds(Libre) /\ \A e : Share(e)' = Share(e)
    BY <2>1, DueIsFixed DEF Share
  <2>4. /\ \A F : Covers(F, Libre)' <=> Covers(F, Libre)
        /\ Feed(Head(devices))' = Feed(Head(devices))
    BY <2>1 DEF Covers, Feed, Filtered, Begin
  <2>5. LibreBooks'
    BY <2>1, <2>2, <2>3, <2>4 DEF Books, LibreBooks
  <2> QED BY <1>0, <2>1, <2>2, <2>5 DEF Books, Returned, Approved
<1>2. CASE LibreReturn
  <2>1. /\ pc[Libre] = "leases" /\ pc' = [pc EXCEPT ![Libre] = "pulled"]
        /\ UNCHANGED <<log, world, health, devices, offset, total, seen, result>>
    BY <1>2 DEF LibreReturn, At, Goto, services, pull, verdict
  <2>2. Tables' /\ pc'[Libre] = "pulled"
    BY <1>0, <2>1 DEF Tables
  <2>3. Due(Libre)' = Due(Libre)
    BY <2>1, DueIsFixed
  <2>4. Returned(Libre)'
    BY <2>1, <2>2, <2>3 DEF Books, Returned, Clamped
  <2>5. LibreBooks' /\ Approved(Libre)'
    BY <2>1, <2>2 DEF Books, LibreBooks, Approved
  <2> QED BY <1>0, <2>2, <2>4, <2>5 DEF Books
<1> QED BY <1>1, <1>2, LibreDevicesBooks, LibrePageBooks, LibrePageFailsBooks, LibreCombineBooks
        DEF LibrePull

-----------------------------------------------------------------------------
(* The verdict *)

\* If at most one in fifty of what was counted is missing from what came back, no
\* more than that is missing of what was due, since the count covers both.
LEMMA MissingIsCounted ==
    ASSUME NEW F, IsFiniteSet(F), NEW n \in Nat, Cardinality(F) <= n,
           NEW E, E \subseteq F, NEW D, D \subseteq F,
           50 * (n - Cardinality(E)) <= n
    PROVE  50 * Cardinality(D \ E) <= n
<1>1. /\ IsFiniteSet(E) /\ IsFiniteSet(F \ E) /\ IsFiniteSet(D \ E)
      /\ Cardinality(D \ E) <= Cardinality(F \ E)
  <2>1. IsFiniteSet(E) /\ IsFiniteSet(F \ E)
    BY FS_Subset
  <2>2. D \ E \subseteq F \ E
    OBVIOUS
  <2> QED BY <2>1, <2>2, FS_Subset
<1>2. Cardinality(F \ E) = Cardinality(F) - Cardinality(E)
  <2>1. F \cap E = E
    OBVIOUS
  <2>2. Cardinality(F \ E) = Cardinality(F) - Cardinality(F \cap E)
    BY FS_Difference
  <2> QED BY <2>1, <2>2
<1>3. /\ Cardinality(E) \in Nat /\ Cardinality(F) \in Nat /\ Cardinality(F \ E) \in Nat
      /\ Cardinality(D \ E) \in Nat
  BY <1>1, FS_CardinalityType
<1> QED BY <1>1, <1>2, <1>3

LEMMA ClassifyBooks ==
    ASSUME Logs, Tables, NEW s \in Sources, Books(s), Classify(s)
    PROVE  Tables' /\ Books(s)'
<1>0. /\ pc[s] = "pulled" /\ pc' = [pc EXCEPT ![s] = "judged"] /\ result[s].events # {}
      /\ health' = [health EXCEPT ![s] =
                       IF Problem(result[s]) \/ Clamped(result[s]) \/ result[s].errors
                       THEN "DEGRADED" ELSE "OK"]
      /\ UNCHANGED <<log, world, offset, total, seen, devices, result>>
  BY DEF Classify, At, Goto, services, pull
<1>1. Tables' /\ pc'[s] = "judged"
  BY <1>0 DEF Tables
<1>2. Due(s)' = Due(s)
  BY <1>0, DueIsFixed
<1>3. Returned(s)'
  BY <1>0, <1>1, <1>2 DEF Books, Returned, Clamped
<1>4. Approved(s)'
  <2>1. SUFFICES ASSUME health'[s] = "OK"
                 PROVE  50 * Cardinality(Due(s) \ result[s].events) <= result[s].reported
    BY <1>0, <1>1, <1>2 DEF Approved
  <2>2. ~ Problem(result[s]) /\ ~ Clamped(result[s]) /\ ~ result[s].errors
    BY <1>0, <2>1 DEF Tables
  <2>3. PICK F : /\ IsFiniteSet(F) /\ Cardinality(F) <= result[s].reported
                 /\ result[s].reported \in Nat
                 /\ result[s].events \subseteq F /\ Due(s) \subseteq F
    BY <1>0, <2>2 DEF Books, Returned
  <2>4. ~ 50 * (result[s].reported - Cardinality(result[s].events)) > result[s].reported
    BY <2>2 DEF Problem
  <2> DEFINE n == result[s].reported
             E == result[s].events
             D == Due(s)
  <2>5. /\ IsFiniteSet(F) /\ n \in Nat /\ Cardinality(F) <= n /\ E \subseteq F /\ D \subseteq F
        /\ ~ 50 * (n - Cardinality(E)) > n
    BY <2>3, <2>4
  <2> HIDE DEF n, E, D
  <2>6. Cardinality(E) \in Nat
    BY <2>5, FS_Subset, FS_CardinalityType
  <2>7. 50 * (n - Cardinality(E)) <= n
    BY <2>5, <2>6
  <2>8. 50 * Cardinality(D \ E) <= n
    BY <2>5, <2>7, MissingIsCounted
  <2> QED BY <2>8 DEF n, E, D
<1>5. PiholeBooks' \/ s # Pihole
  BY <1>1 DEF PiholeBooks
<1>6. LibreBooks' \/ s # Libre
  BY <1>1 DEF LibreBooks
<1> QED BY <1>1, <1>3, <1>4, <1>5, <1>6 DEF Books

LEMMA ProbingBooks ==
    ASSUME Logs, Tables, NEW s \in Sources, Books(s), Suspect(s) \/ Probe(s) \/ Conclude(s)
    PROVE  Tables' /\ Books(s)'
<1>0. /\ pc[s] \in {"pulled", "probe"}
      /\ \/ /\ \/ pc' = [pc EXCEPT ![s] = "probe"]
               \/ pc' = pc /\ pc[s] = "probe"
            /\ health' = health
         \/ /\ pc' = [pc EXCEPT ![s] = "judged"]
            /\ \E h \in {"FAILED", "SUSPECT"} : health' = [health EXCEPT ![s] = h]
      /\ UNCHANGED <<log, world, offset, total, seen, devices, result>>
  <2>1. CASE Suspect(s)
    BY <2>1 DEF Suspect, At, Goto, services, pull
  <2>2. CASE Probe(s)
    BY <2>2 DEF Probe, At, services, pull
  <2>3. CASE Conclude(s)
    BY <2>3 DEF Conclude, At, Goto, services, pull
  <2> QED BY <2>1, <2>2, <2>3
<1>1. /\ Tables' /\ pc'[s] \in {"probe", "judged"}
      /\ \/ health'[s] = "none"
         \/ health'[s] \in {"FAILED", "SUSPECT"} /\ pc'[s] = "judged"
  BY <1>0 DEF Tables, Books, Approved
<1>2. Due(s)' = Due(s)
  BY <1>0, DueIsFixed
<1>3. Returned(s)'
  BY <1>0, <1>1, <1>2 DEF Books, Returned, Clamped
<1>4. Approved(s)'
  BY <1>1 DEF Approved
<1>5. PiholeBooks' \/ s # Pihole
  BY <1>1 DEF PiholeBooks
<1>6. LibreBooks' \/ s # Libre
  BY <1>1 DEF LibreBooks
<1> QED BY <1>1, <1>3, <1>4, <1>5, <1>6 DEF Books

LEMMA VerifyTouches ==
    ASSUME Tables, NEW s \in Sources, Verify(s), NEW t \in Sources, t # s
    PROVE  Quiet(t) /\ UNCHANGED <<log, world>>
<1>1. /\ pc'[t] = pc[t] /\ health'[t] = health[t]
      /\ UNCHANGED <<log, world, total, seen, devices, batch, result>>
  <2>1. CASE Classify(s)
    BY <2>1 DEF Classify, Goto, Tables, services, pull
  <2>2. CASE Suspect(s) \/ Probe(s)
    BY <2>2 DEF Suspect, Probe, Goto, Tables, services, pull
  <2>3. CASE Conclude(s)
    BY <2>3 DEF Conclude, Goto, Tables, services, pull
  <2> QED BY <2>1, <2>2, <2>3 DEF Verify
<1> QED BY <1>1 DEF Quiet

LEMMA LogsStep == Logs /\ Tables /\ [Next]_vars => Logs' /\ LogsMove
<1> SUFFICES ASSUME Logs, Tables, [Next]_vars PROVE Logs' /\ LogsMove
  OBVIOUS
<1>1. CASE UNCHANGED <<log, world>>
  BY <1>1 DEF Logs, LogsMove
<1>2. CASE PiholePull \/ LibrePull
  BY <1>1, <1>2, PiholeTouches, LibreTouches
<1>3. ASSUME NEW s \in Sources, Learning(s) \/ Verify(s) PROVE UNCHANGED <<log, world>>
  BY <1>3 DEF Learning, Verify, Classify, Suspect, Probe, Conclude, services
<1>4. CASE Services
  <2>1. CASE \E s \in Sources : Outage(s) \/ Recover(s)
    BY <1>1, <2>1 DEF Outage, Recover
  <2> QED BY <1>4, <2>1, ExpireMoves, ArriveMoves DEF Services
<1>5. CASE UNCHANGED vars
  BY <1>1, <1>5 DEF vars, services
<1> QED BY <1>1, <1>2, <1>3, <1>4, <1>5 DEF Next

LEMMA AccountsStep == Accounts /\ [Next]_vars => Accounts'
<1> SUFFICES ASSUME Accounts, [Next]_vars PROVE Accounts'
  OBVIOUS
<1>0. Logs /\ Tables /\ \A s \in Sources : Books(s)
  BY DEF Accounts
<1>1. Logs' /\ LogsMove
  BY <1>0, LogsStep
<1>2. Sources = {Pihole, Libre} /\ Pihole # Libre
  BY DEF Sources, Pihole, Libre
<1>3. CASE PiholePull
  <2>1. Tables' /\ Books(Pihole)'
    BY <1>0, <1>2, <1>3, PiholePullBooks
  <2>2. Books(Libre)'
    BY <1>0, <1>1, <1>2, <1>3, PiholeTouches, QuietKeeps
  <2> QED BY <1>1, <1>2, <2>1, <2>2 DEF Accounts
<1>4. CASE LibrePull
  <2>1. Tables' /\ Books(Libre)'
    BY <1>0, <1>2, <1>4, LibrePullBooks
  <2>2. Books(Pihole)'
    BY <1>0, <1>1, <1>2, <1>4, LibreTouches, QuietKeeps
  <2> QED BY <1>1, <1>2, <2>1, <2>2 DEF Accounts
<1>5. ASSUME NEW s \in Sources, Verify(s) PROVE Accounts'
  <2>1. Tables' /\ Books(s)'
    BY <1>0, <1>5, ClassifyBooks, ProbingBooks DEF Verify
  <2>2. \A t \in Sources \ {s} : Books(t)'
    BY <1>0, <1>1, <1>5, VerifyTouches, QuietKeeps
  <2> QED BY <1>1, <2>1, <2>2 DEF Accounts
<1>6. CASE \/ \E s \in Sources : Learning(s)
           \/ Services
           \/ UNCHANGED vars
  <2>1. UNCHANGED <<pc, health, offset, total, seen, devices, batch, result>>
    <3>1. CASE \E s \in Sources : Learning(s)
      BY <3>1 DEF Learning, pull, verdict
    <3>2. CASE Services
      BY <3>2 DEF Services, Outage, Recover, Expire, Arrive, pull, verdict
    <3>3. CASE UNCHANGED vars
      BY <3>3 DEF vars, pull, verdict
    <3> QED BY <1>6, <3>1, <3>2, <3>3
  <2>2. Tables' /\ \A s \in Sources : Quiet(s)
    BY <1>0, <2>1 DEF Tables, Quiet
  <2>3. \A s \in Sources : Books(s)'
    BY <1>0, <1>1, <2>2, QuietKeeps
  <2> QED BY <1>1, <2>2, <2>3 DEF Accounts
<1> QED BY <1>3, <1>4, <1>5, <1>6 DEF Next

\* The books balance: whatever the services serve, what a source counted covers
\* both what it has seen and what is due from the feeds it is done with.
THEOREM AccountsInvariant == Spec => []Accounts
BY AccountsInit, AccountsStep, PTL DEF Spec

\* An OK means the window is whole, up to one record in fifty: no cap, repeated or
\* empty page, failed device, expiry or arrival costs more behind it.
THEOREM OkIsWhole == Spec => []OkMeansWhole
<1>1. Accounts => OkMeansWhole
  BY DEF Accounts, Books, Approved, OkMeansWhole
<1> QED BY <1>1, AccountsInvariant, PTL

-----------------------------------------------------------------------------
(* The probes *)

Requests == {"all", "last hour", "window", "devices"} \X (Sources \cup DOMAIN DeviceIp)

\* A service that was always in reach and has something to show, and the request
\* that is going to show it.
Findable(s)  == IF s = Pihole THEN log[Pihole] # <<>> ELSE world.managed # <<>>
Blameless(s) == s \in world.trusted /\ s \notin cut /\ Findable(s)
Telling(s)   == IF s = Pihole THEN <<"all", Pihole>> ELSE <<"devices", Libre>>

Cleared(s) ==
    Blameless(s) =>
        /\ health[s] # "FAILED"
        /\ pc[s] = "probe" => "records" \in probes[s] \/ Telling(s) \in Range(asks[s])

Probing ==
    /\ asks \in [Sources -> Seq(Requests)]
    /\ probes = [s \in Sources |-> probes[s]]
    /\ \A s \in Sources : Cleared(s)

LEMMA ProbingInit == Init => Probing
<1> SUFFICES ASSUME Init PROVE Probing
  OBVIOUS
<1>1. /\ asks = [s \in Sources |-> <<>>] /\ probes = [s \in Sources |-> {}]
      /\ pc = [s \in Sources |-> "start"] /\ health = [s \in Sources |-> "none"]
  BY DEF Init
<1> QED BY <1>1 DEF Probing, Cleared

LEMMA BlameStays ==
    ASSUME Logs, Logs', LogsMove, cut \subseteq cut', NEW s \in Sources, Blameless(s)'
    PROVE  Blameless(s)
<1>1. world' = world /\ Range(log'[Pihole]) \subseteq Range(log[Pihole])
  BY DEF LogsMove
<1>2. log'[Pihole] # <<>> => log[Pihole] # <<>>
  <2>1. log'[Pihole] \in Seq(Range(log'[Pihole]))
    BY DEF Logs, Feeders
  <2> DEFINE new == log'[Pihole]
             R == Range(new)
  <2>2. new \in Seq(R)
    BY <2>1
  <2> HIDE DEF R
  <2>3. new # <<>> => new[1] \in R
    BY <2>2
  <2>4. Range(<<>>) = {}
    BY DEF Range
  <2> QED BY <1>1, <2>3, <2>4 DEF R
<1> QED BY <1>1, <1>2 DEF Blameless, Findable

\* Short sequences, their first element and the last one appended.
LEMMA ShortSeqs ==
    ASSUME NEW R, NEW a \in R, NEW b \in R
    PROVE  /\ <<a>> \in Seq(R) /\ <<a, b>> \in Seq(R)
           /\ a \in Range(<<a, b>>)
           /\ \A q \in Seq(R) : q \o <<a>> \in Seq(R) /\ a \in Range(q \o <<a>>)
<1>1. <<a>> \in Seq(R) /\ <<a, b>> \in Seq(R)
  OBVIOUS
<1>2. a \in Range(<<a, b>>)
  <2> DEFINE p == <<a, b>>
  <2>1. 1 \in DOMAIN p /\ p[1] = a
    OBVIOUS
  <2> HIDE DEF p
  <2>2. a \in Range(p)
    BY <2>1 DEF Range
  <2> QED BY <2>2 DEF p
<1>3. ASSUME NEW q \in Seq(R) PROVE q \o <<a>> \in Seq(R) /\ a \in Range(q \o <<a>>)
  <2> DEFINE p == q \o <<a>>
  <2>1. p \in Seq(R) /\ Len(q) + 1 \in DOMAIN p /\ p[Len(q) + 1] = a
    OBVIOUS
  <2> HIDE DEF p
  <2>2. a \in Range(p)
    BY <2>1 DEF Range
  <2> QED BY <2>1, <2>2 DEF p
<1> QED BY <1>1, <1>2, <1>3

\* What the requests of a probe contain.
LEMMA AsksTell ==
    ASSUME Logs
    PROVE  /\ PiholeAsks \in Seq(Requests) /\ Telling(Pihole) \in Range(PiholeAsks)
           /\ LibreAsks \in Seq(Requests) /\ Telling(Libre) \in Range(LibreAsks)
<1>0. Pihole # Libre /\ Pihole \in Sources /\ Libre \in Sources
  BY DEF Pihole, Libre, Sources
<1>1. PiholeAsks \in Seq(Requests) /\ Telling(Pihole) \in Range(PiholeAsks)
  <2>1. <<"all", Pihole>> \in Requests /\ <<"last hour", Pihole>> \in Requests
    BY <1>0 DEF Requests
  <2> DEFINE a == <<"all", Pihole>>
             b == <<"last hour", Pihole>>
  <2>2. PiholeAsks = <<a, b>> /\ Telling(Pihole) = a /\ a \in Requests /\ b \in Requests
    BY <2>1 DEF PiholeAsks, Telling
  <2> HIDE DEF a, b
  <2> QED BY <2>2, ShortSeqs
<1>2. Resolved \in Seq(DOMAIN DeviceIp)
  <2>1. world.explicit \in Seq(DOMAIN DeviceIp) /\ world.managed \in Seq(DOMAIN DeviceIp)
    BY InstancesAssumption, Zenon DEF Logs
  <2> QED BY <2>1 DEF Resolved, Listed
<1> DEFINE end == Min({3, Len(Resolved)})
           controls == SubSeq(Resolved, 2, end)
           first == IF Resolved = <<>> THEN <<>>
                    ELSE << <<"all", Head(Resolved)>>, <<"last hour", Head(Resolved)>> >>
           others == [i \in 1..Len(controls) |-> <<"window", controls[i]>>]
           list == << <<"devices", Libre>> >>
<1>3. first \in Seq(Requests)
  <2>1. CASE Resolved = <<>>
    BY <2>1
  <2>2. CASE Resolved # <<>>
    <3>1. Head(Resolved) \in DOMAIN DeviceIp
      BY <1>2, <2>2
    <3> DEFINE a == <<"all", Head(Resolved)>>
               b == <<"last hour", Head(Resolved)>>
    <3>2. a \in Requests /\ b \in Requests
      BY <3>1 DEF Requests
    <3>3. first = <<a, b>>
      BY <2>2
    <3> HIDE DEF a, b, first
    <3> QED BY <3>2, <3>3, ShortSeqs
  <2> QED BY <2>1, <2>2
<1>4. others \in Seq(Requests)
  <2>1. end \in Int /\ end <= Len(Resolved)
    <3>1. Len(Resolved) \in Int
      BY <1>2
    <3>2. {3, Len(Resolved)} = {3, Len(Resolved), Len(Resolved)}
      OBVIOUS
    <3> QED BY <3>1, <3>2, MinIsBelow
  <2> HIDE DEF end
  <2>2. controls \in Seq(DOMAIN DeviceIp)
    BY <1>2, <2>1, SubSeqIsWithin
  <2> HIDE DEF controls
  <2>3. Len(controls) \in Nat /\ \A i \in 1..Len(controls) : controls[i] \in DOMAIN DeviceIp
    BY <2>2
  <2>4. \A i \in 1..Len(controls) : <<"window", controls[i]>> \in Requests
    BY <2>3 DEF Requests
  <2>5. others \in [1..Len(controls) -> Requests]
    BY <2>4
  <2> HIDE DEF others
  <2> QED BY <2>3, <2>5
<1>5. Telling(Libre) \in Requests /\ list = <<Telling(Libre)>>
  BY <1>0 DEF Requests, Telling
<1>6. LibreAsks = (first \o others) \o list
  BY DEF LibreAsks
<1> DEFINE most == first \o others
<1>7. most \in Seq(Requests)
  <2> HIDE DEF first, others
  <2> QED BY <1>3, <1>4
<1> HIDE DEF list, most
<1>8. LibreAsks \in Seq(Requests) /\ Telling(Libre) \in Range(LibreAsks)
  <2>1. LibreAsks = most \o <<Telling(Libre)>>
    BY <1>5, <1>6 DEF most
  <2> QED BY <1>5, <1>7, <2>1, ShortSeqs
<1> QED BY <1>1, <1>8

\* A step that is none of the probe's: what it found stays, and no service of
\* it fails.
Unprobed(s) ==
    /\ asks'[s] = asks[s] /\ probes'[s] = probes[s]
    /\ pc'[s] = "probe" => pc[s] = "probe"
    /\ health'[s] \in {health[s], "OK", "DEGRADED"}

LEMMA OthersProbes ==
    ASSUME Tables, Probing, [Next]_vars, NEW s \in Sources
    PROVE  \/ Suspect(s) \/ Probe(s) \/ Conclude(s)
           \/ Unprobed(s)
<1>1. CASE PiholePull
  <2>1. CASE PiholeAuthenticate \/ PiholePageFails
    BY <2>1 DEF PiholeAuthenticate, PiholePageFails, Goto, Return, Tables, verdict, Unprobed
  <2>2. CASE PiholeCount
    BY <2>2 DEF PiholeCount, Goto, Return, Tables, verdict, Unprobed
  <2>3. CASE PiholePage
    <3>1. /\ UNCHANGED <<asks, probes, health>>
          /\ pc' = pc \/ pc' = [pc EXCEPT ![Pihole] = "clients"]
      BY <2>3 DEF PiholePage, PiholeStop, Goto, verdict
    <3> QED BY <3>1 DEF Tables, Unprobed
  <2>4. CASE PiholeDone \/ PiholeReturn
    BY <2>4 DEF PiholeDone, PiholeReturn, PiholeStop, Goto, Tables, verdict, Unprobed
  <2> QED BY <1>1, <2>1, <2>2, <2>3, <2>4 DEF PiholePull
<1>2. CASE LibrePull
  <2>1. CASE LibreDevices
    BY <2>1 DEF LibreDevices, Goto, Return, Tables, verdict, Unprobed
  <2>2. CASE LibreManaged \/ LibreReturn \/ LibreCombine
    BY <2>2 DEF LibreManaged, LibreReturn, LibreCombine, Goto, Tables, verdict, Unprobed
  <2>3. CASE LibrePage \/ LibrePageFails
    BY <2>3 DEF LibrePage, LibrePageFails, Tables, verdict, Unprobed
  <2> QED BY <1>2, <2>1, <2>2, <2>3 DEF LibrePull
<1>3. ASSUME NEW t \in Sources, Verify(t)
      PROVE  Unprobed(s) \/ Suspect(s) \/ Probe(s) \/ Conclude(s)
  <2>1. CASE Classify(t)
    BY <2>1 DEF Classify, Goto, Tables, Unprobed
  <2>2. CASE t # s /\ (Suspect(t) \/ Probe(t))
    BY <2>2 DEF Suspect, Probe, Goto, Tables, Probing, Unprobed
  <2>3. CASE t # s /\ Conclude(t)
    BY <2>3 DEF Conclude, Goto, Tables, Unprobed
  <2> QED BY <1>3, <2>1, <2>2, <2>3 DEF Verify
<1>4. CASE Services
  BY <1>4 DEF Services, Outage, Recover, Expire, Arrive, verdict, Unprobed
<1>5. CASE (\E t \in Sources : Learning(t)) \/ UNCHANGED vars
  BY <1>5 DEF Learning, vars, verdict, Unprobed
<1> QED BY <1>1, <1>2, <1>3, <1>4, <1>5 DEF Next

\* The services that were out of reach are remembered.
LEMMA CutGrows == [Next]_vars => cut \subseteq cut'
<1> SUFFICES ASSUME [Next]_vars PROVE cut \subseteq cut'
  OBVIOUS
<1>1. CASE \E s \in Sources : Note(s)
  BY <1>1 DEF Note
<1>2. CASE PiholePull
  BY <1>1, <1>2 DEF PiholePull, PiholeAuthenticate, PiholeCount, PiholePage, PiholePageFails,
                    PiholeDone, PiholeReturn, Sources
<1>3. CASE LibrePull
  BY <1>1, <1>3 DEF LibrePull, LibreDevices, LibreManaged, LibrePage, LibrePageFails,
                    LibreCombine, LibreReturn, Sources
<1>4. ASSUME NEW s \in Sources, Learning(s) \/ Verify(s) PROVE cut \subseteq cut'
  BY <1>1, <1>4 DEF Learning, Verify, Classify, Suspect, Probe, Conclude
<1>5. CASE Services \/ UNCHANGED vars
  BY <1>5 DEF Services, Outage, Recover, Expire, Arrive, vars
<1> QED BY <1>2, <1>3, <1>4, <1>5 DEF Next

LEMMA ProbesTyped ==
    ASSUME Logs, Probing, [Next]_vars
    PROVE  asks' \in [Sources -> Seq(Requests)] /\ probes' = [s \in Sources |-> probes'[s]]
<1>1. CASE UNCHANGED <<asks, probes>>
  BY <1>1 DEF Probing
<1>2. ASSUME NEW s \in Sources, Suspect(s)
      PROVE  asks' \in [Sources -> Seq(Requests)] /\ probes' = [t \in Sources |-> probes'[t]]
  <2>1. PiholeAsks \in Seq(Requests) /\ LibreAsks \in Seq(Requests)
    BY AsksTell
  <2>2. \/ probes' = [probes EXCEPT ![s] = {"no session"}] /\ UNCHANGED asks
        \/ /\ asks' = [asks EXCEPT ![s] = IF s = Pihole THEN PiholeAsks ELSE LibreAsks]
           /\ UNCHANGED probes
    BY <1>2 DEF Suspect
  <2> QED BY <2>1, <2>2 DEF Probing
<1>3. ASSUME NEW s \in Sources, Probe(s)
      PROVE  asks' \in [Sources -> Seq(Requests)] /\ probes' = [t \in Sources |-> probes'[t]]
  <2>1. /\ asks' = [asks EXCEPT ![s] = Tail(@)] /\ asks[s] # <<>>
        /\ \E new : probes' = [probes EXCEPT ![s] = new]
    BY <1>3 DEF Probe
  <2>2. Tail(asks[s]) \in Seq(Requests)
    BY <2>1 DEF Probing
  <2> QED BY <2>1, <2>2 DEF Probing
<1>4. CASE PiholePull
  BY <1>1, <1>4 DEF PiholePull, PiholeAuthenticate, PiholeCount, PiholePage, PiholePageFails,
                    PiholeDone, PiholeReturn, verdict
<1>5. CASE LibrePull
  BY <1>1, <1>5 DEF LibrePull, LibreDevices, LibreManaged, LibrePage, LibrePageFails,
                    LibreCombine, LibreReturn, verdict
<1>6. ASSUME NEW s \in Sources, Learning(s) \/ Classify(s) \/ Conclude(s)
      PROVE  UNCHANGED <<asks, probes>>
  BY <1>6 DEF Learning, Classify, Conclude, verdict
<1>7. CASE Services \/ UNCHANGED vars
  BY <1>1, <1>7 DEF Services, Outage, Recover, Expire, Arrive, vars, verdict
<1> QED BY <1>1, <1>2, <1>3, <1>4, <1>5, <1>6, <1>7 DEF Next, Verify

LEMMA ProbingStep == Accounts /\ Probing /\ [Next]_vars => Probing'
<1> SUFFICES ASSUME Accounts, Probing, [Next]_vars PROVE Probing'
  OBVIOUS
<1>1. Logs /\ Tables /\ Logs' /\ LogsMove
  BY LogsStep DEF Accounts
<1>2. asks' \in [Sources -> Seq(Requests)] /\ probes' = [s \in Sources |-> probes'[s]]
  BY <1>1, ProbesTyped
<1>3. ASSUME NEW s \in Sources, Blameless(s)'
      PROVE  /\ health'[s] # "FAILED"
             /\ pc'[s] = "probe" => "records" \in probes'[s] \/ Telling(s) \in Range(asks'[s])
  <2>0. Blameless(s)
    BY <1>1, <1>3, CutGrows, BlameStays
  <2>1. /\ health[s] # "FAILED"
        /\ pc[s] = "probe" => "records" \in probes[s] \/ Telling(s) \in Range(asks[s])
        /\ s \notin cut' /\ s \in world.trusted /\ Findable(s)
    <3>1. s \notin cut' /\ s \in world.trusted /\ Findable(s)
      BY <1>1, <1>3, <2>0 DEF Blameless, LogsMove
    <3> QED BY <2>0, <3>1 DEF Probing, Cleared
  <2>2. CASE Unprobed(s)
    BY <2>1, <2>2 DEF Unprobed
  <2>3. CASE Suspect(s)
    <3>1. reachable[s] /\ health' = health
      BY <2>1, <2>3 DEF Suspect, Note
    <3>2. asks' = [asks EXCEPT ![s] = IF s = Pihole THEN PiholeAsks ELSE LibreAsks]
      BY <2>1, <2>3, <3>1 DEF Suspect, Answers
    <3>3. Telling(s) \in Range(asks'[s])
      BY <1>1, <3>2, AsksTell DEF Probing, Sources
    <3> QED BY <2>1, <3>1, <3>3
  <2>4. CASE Probe(s)
    <3>1. /\ pc[s] = "probe" /\ reachable[s] /\ health' = health /\ asks[s] # <<>>
          /\ asks' = [asks EXCEPT ![s] = Tail(@)]
      BY <2>1, <2>4 DEF Probe, Note, At
    <3>2. probes' = [probes EXCEPT ![s] = @ \cup
                        {IF Count(Head(asks[s])) > 0 THEN "records" ELSE "no records"}]
      BY <2>1, <2>4, <3>1 DEF Probe
    <3>3. probes'[s] = probes[s] \cup
                        {IF Count(Head(asks[s])) > 0 THEN "records" ELSE "no records"}
          /\ asks'[s] = Tail(asks[s]) /\ asks[s] \in Seq(Requests)
      BY <3>1, <3>2 DEF Probing
    <3>4. Telling(s) \in Range(asks[s]) =>
              Telling(s) = Head(asks[s]) \/ Telling(s) \in Range(Tail(asks[s]))
      BY <3>1, <3>3, TailKeeps
    <3>5. Telling(s) = Head(asks[s]) => Count(Head(asks[s])) > 0
      <4>1. CASE s = Pihole
        <5>1. Count(<<"all", Pihole>>) = Len(log[Pihole])
          BY DEF Count
        <5>2. Len(log[Pihole]) > 0
          <6> DEFINE R == Range(log[Pihole])
          <6>1. log[Pihole] \in Seq(R) /\ log[Pihole] # <<>>
            BY <1>1, <2>1, <4>1 DEF Logs, Feeders, Findable
          <6> HIDE DEF R
          <6> QED BY <6>1
        <5> QED BY <4>1, <5>1, <5>2 DEF Telling
      <4>2. CASE s # Pihole
        <5>1. Count(<<"devices", Libre>>) = Len(world.managed)
          BY DEF Count
        <5>2. Len(world.managed) > 0
          <6>1. world.managed \in Seq(DOMAIN DeviceIp) /\ world.managed # <<>>
            BY <1>1, <2>1, <4>2, InstancesAssumption, Zenon DEF Logs, Findable
          <6> QED BY <6>1
        <5> QED BY <4>2, <5>1, <5>2 DEF Telling
      <4> QED BY <4>1, <4>2
    <3> QED BY <2>1, <3>1, <3>3, <3>4, <3>5
  <2>5. CASE Conclude(s)
    <3>1. /\ pc[s] = "probe" /\ asks[s] = <<>>
          /\ health' = [health EXCEPT ![s] =
                           IF ProveFailure(probes[s]) THEN "FAILED" ELSE "SUSPECT"]
          /\ pc' = [pc EXCEPT ![s] = "judged"]
      BY <2>5 DEF Conclude, At, Goto
    <3>2. "records" \in probes[s]
      BY <2>1, <3>1 DEF Range
    <3> QED BY <1>1, <3>1, <3>2 DEF ProveFailure, Tables
  <2> QED BY <1>1, <2>2, <2>3, <2>4, <2>5, OthersProbes
<1>4. \A s \in Sources : Cleared(s)'
  BY <1>3 DEF Cleared
<1> QED BY <1>2, <1>4 DEF Probing

\* A source whose service was always in reach and took the login, and that has
\* something to show, is never found to have failed.
THEOREM ProbingInvariant == Spec => [](Accounts /\ Probing)
BY AccountsInit, AccountsStep, ProbingInit, ProbingStep, PTL DEF Spec

\* A feed that has records is reported as FAILED only after its service was out of
\* reach or refused the login, whatever the filters and the cursor do.
THEOREM FailureIsNoQueryFault == Spec => []FailedIsNoQueryFault
<1>1. Accounts /\ Probing => FailedIsNoQueryFault
  <2> SUFFICES ASSUME Accounts, Probing, NEW s \in Sources, health[s] = "FAILED",
                      NEW d \in Feeds(s), log[d] # <<>>
               PROVE  s \in cut \/ s \notin world.trusted
    BY DEF FailedIsNoQueryFault
  <2>1. Findable(s)
    <3>1. CASE s = Pihole
      BY <3>1 DEF Feeds, Findable
    <3>2. CASE s # Pihole
      <4>1. world \in Instances
        BY DEF Accounts, Logs
      <4>2. /\ world.managed \in Seq(DOMAIN DeviceIp) /\ Range(world.managed) = DOMAIN DeviceIp
            /\ world.explicit \in Seq(DOMAIN DeviceIp)
        BY <4>1, InstancesAssumption, Zenon
      <4>3. d \in Range(world.managed)
        <5>1. Range(world.explicit) \subseteq DOMAIN DeviceIp
          BY <4>2, RangeIsSmall
        <5> QED BY <3>2, <4>2, <5>1 DEF Feeds
      <4>4. Range(<<>>) = {}
        BY DEF Range
      <4> QED BY <3>2, <4>3, <4>4 DEF Findable
    <3> QED BY <3>1, <3>2
  <2> QED BY <2>1 DEF Probing, Cleared, Blameless
<1> QED BY <1>1, ProbingInvariant, PTL

-----------------------------------------------------------------------------
(* A pull that nothing disturbs *)

\* Nothing failed, nothing arrived, nothing moved.
Calm ==
    /\ faults \in Nat /\ arrivals \in Nat
    /\ faults = 0 => \A s \in Sources : reachable[s]
    /\ faults = 0 /\ arrivals = 0 => log = world.logs

Fetched(d, n) == {Feed(d)[i] : i \in 1..n}

\* What was cut off the window is let pass.
Begun(s) == result[s].from \in Nat /\ ~ Clamped(result[s])

Unhurt(s) == result[s].complete /\ ~ result[s].errors /\ Begun(s)

PiholeSmooth ==
    /\ pc[Pihole] \in {"start", "count"} =>
        offset[Pihole] = 0 /\ pages[Pihole] = 0 /\ seen[Pihole] = {}
    /\ pc[Pihole] = "page" =>
        /\ total[Pihole] = Len(Feed(Pihole)) /\ offset[Pihole] \in 0..Len(Feed(Pihole))
        /\ offset[Pihole] < total[Pihole] => offset[Pihole] = pages[Pihole] * PageSize
        /\ seen[Pihole] = Fetched(Pihole, offset[Pihole])
        /\ Begun(Pihole)

\* What the devices that are done had to give.
Pulled == UNION {Range(Feed(d)) : d \in Feeds(Libre) \ Range(devices)}

LibreSmooth ==
    /\ pc[Libre] = "start" =>
        offset[Libre] = 0 /\ pages[Libre] = 0 /\ batch = {} /\ seen[Libre] = {} /\ total[Libre] = 0
    /\ pc[Libre] \in {"start", "managed", "page"} => Unhurt(Libre)
    /\ pc[Libre] \in {"managed", "page"} =>
        /\ Range(devices) \subseteq Feeds(Libre)
        /\ \A i, j \in DOMAIN devices : devices[i] = devices[j] => i = j
        /\ IsFiniteSet(Pulled) /\ total[Libre] = Cardinality(Pulled)
        /\ seen[Libre] = Normalised(Pulled)
        /\ offset[Libre] = pages[Libre] * PageSize
        /\ devices # <<>> =>
            /\ offset[Libre] \in 0..Len(Feed(Head(devices)))
            /\ batch = Normalised(Fetched(Head(devices), offset[Libre]))
        /\ devices = <<>> => batch = {}

\* A pull that goes smoothly brings back what is there.
Steady(s) ==
    /\ s = Pihole => PiholeSmooth
    /\ s = Libre => LibreSmooth
    /\ pc[s] \notin {"start", "count", "page", "managed"} =>
        /\ result[s].events = Held(s) /\ result[s].reported = Cardinality(Asked(s))
        /\ IsFiniteSet(Asked(s)) /\ Unhurt(s)
    /\ pc[s] # "probe" /\ health[s] \in {"none", "OK"}

Smoothly ==
    /\ Calm /\ pages \in [Sources -> Nat]
    /\ \A s \in Sources : Undisturbed(s) /\ Filled(s) => Steady(s)

\* A window that is filled is asked for from its start.
LEMMA FilledBegins ==
    ASSUME world \in Instances, NEW s \in Sources, Filled(s)
    PROVE  Begin(s) = 0
<1>1. CASE s = Libre
  BY <1>1 DEF Begin, Libre, Pihole
<1>2. CASE s = Pihole
  <2>1. Length <= world.reach
    BY <1>2 DEF Filled
  <2>2. world.reach \in Nat /\ Length \in Nat
    BY InstancesAssumption, WindowAssumption
  <2> QED BY <2>1, <2>2 DEF Begin
<1> QED BY <1>1, <1>2 DEF Sources

LEMMA SmoothlyInit == Init => Smoothly
<1> SUFFICES ASSUME Init PROVE Smoothly
  OBVIOUS
<1>1. /\ pc = [s \in Sources |-> "start"] /\ health = [s \in Sources |-> "none"]
      /\ offset = [s \in Sources |-> 0] /\ total = [s \in Sources |-> 0]
      /\ pages = [s \in Sources |-> 0] /\ log = world.logs
      /\ seen = [s \in Sources |-> {}] /\ batch = {} /\ faults = 0 /\ arrivals = 0
      /\ reachable = [s \in Sources |-> TRUE]
  BY DEF Init
<1>2. ASSUME NEW s \in Sources, Filled(s) PROVE Unhurt(s)
  <2> DEFINE r(t) == [Nothing(t) EXCEPT !.errors = FALSE]
  <2>1. r(s).complete /\ ~ r(s).errors /\ r(s).from = Begin(s)
    BY DEF Nothing
  <2>2. result = [t \in Sources |-> r(t)]
    BY DEF Init
  <2> HIDE DEF r
  <2>3. result[s].complete /\ ~ result[s].errors /\ result[s].from = 0
    BY <1>2, <2>1, <2>2, FilledBegins DEF Init
  <2> QED BY <2>3, WindowAssumption DEF Unhurt, Begun, Clamped
<1>3. Calm /\ pages \in [Sources -> Nat]
  BY <1>1 DEF Calm
<1>4. ASSUME NEW s \in Sources, Filled(s) PROVE Steady(s)
  BY <1>1, <1>2, <1>4 DEF Steady, PiholeSmooth, LibreSmooth
<1> QED BY <1>3, <1>4 DEF Smoothly

\* What a feed holds while its log is as it was: each record once, those of the
\* window.
LEMMA FeedIsWhole ==
    ASSUME Logs, log = world.logs, world.filters, NEW d \in Feeders
    PROVE  /\ Feed(d) \in Seq(Range(Feed(d))) /\ Len(Feed(d)) \in Nat
           /\ Range(Feed(d)) = {r \in Range(world.logs[d]) : InWindow(r, Begin(d))}
           /\ \A i, j \in 1..Len(Feed(d)) : Feed(d)[i] = Feed(d)[j] => i = j
           /\ IsFiniteSet(Range(Feed(d))) /\ Cardinality(Range(Feed(d))) = Len(Feed(d))
<1>1. /\ Feed(d) \in Seq(Range(Feed(d))) /\ Len(Feed(d)) \in Nat
      /\ Range(Feed(d)) = {r \in Range(world.logs[d]) : InWindow(r, Begin(d))}
      /\ IsFiniteSet(Range(Feed(d)))
  BY FeedIsWindow, FeedIsCounted
<1>2. \A i, j \in 1..Len(Feed(d)) : Feed(d)[i] = Feed(d)[j] => i = j
  <2>1. log[d] \in Seq(Range(log[d])) /\ Feed(d) = Window(log[d], Begin(d))
    BY DEF Logs, Feed, Filtered
  <2>2. \A i, j \in 1..Len(log[d]) : log[d][i] = log[d][j] => i = j
    <3>1. world \in Instances /\ d \in DOMAIN log /\ DOMAIN log[d] = 1..Len(log[d])
      BY <2>1 DEF Logs
    <3>2. \A c, e \in DOMAIN world.logs :
            \A i \in DOMAIN world.logs[c], j \in DOMAIN world.logs[e] :
                world.logs[c][i] = world.logs[e][j] => c = e /\ i = j
      BY <3>1, InstancesAssumption, Zenon
    <3> QED BY <3>1, <3>2
  <2> QED BY <2>1, <2>2, WindowKeepsIdentity
<1>3. Cardinality(Range(Feed(d))) = Len(Feed(d))
  <2> DEFINE q == Feed(d)
             R == Range(q)
             n == Len(q)
  <2>1. q \in Seq(R) /\ n \in Nat /\ IsFiniteSet(R) /\ DOMAIN q = 1..n
    BY <1>1
  <2>2. \A i, j \in 1..n : q[i] = q[j] => i = j
    BY <1>2
  <2>3. R = {q[i] : i \in 1..n}
    BY <2>1 DEF Range
  <2> HIDE DEF q, n, R
  <2>4. q \in [1..n -> R] /\ \A r \in R : \E i \in 1..n : q[i] = r
    BY <2>1, <2>3
  <2>5. q \in Surjection(1..n, R)
    BY <2>4 DEF Surjection
  <2>6. q \in Injection(1..n, R)
    <3>1. IsInjective(q)
      BY <2>1, <2>2 DEF IsInjective
    <3> QED BY <2>4, <3>1 DEF Injection
  <2>7. IsFiniteSet(1..n) /\ Cardinality(1..n) = n
    BY <2>1, FS_Interval
  <2>8. Cardinality(R) = Cardinality(1..n)
    BY <2>5, <2>6, <2>7, FS_Surjection
  <2> QED BY <2>7, <2>8 DEF q, n, R
<1> QED BY <1>1, <1>2, <1>3

\* The piece of a sequence and its elements.
LEMMA SubSeqIs ==
    ASSUME NEW R, NEW q \in Seq(R), NEW m \in Nat, NEW n \in Nat, m <= n, n <= Len(q)
    PROVE  /\ Len(SubSeq(q, m + 1, n)) = n - m
           /\ {q[i] : i \in 1..m} \cup Range(SubSeq(q, m + 1, n)) = {q[i] : i \in 1..n}
           /\ m < n => q[m + 1] \in Range(SubSeq(q, m + 1, n))
<1> DEFINE p == SubSeq(q, m + 1, n)
<1>1. /\ p \in Seq(R) /\ Len(p) = n - m
      /\ \A k \in 1..(n - m) : p[k] = q[k + m]
  OBVIOUS
<1>2. DOMAIN p = 1..(n - m)
  BY <1>1
<1> HIDE DEF p
<1>3. Range(p) = {p[k] : k \in 1..(n - m)}
  BY <1>2 DEF Range
<1>4. \A i \in 1..n : i \in 1..m \/ (i - m \in 1..(n - m) /\ (i - m) + m = i)
  OBVIOUS
<1>5. \A k \in 1..(n - m) : k + m \in 1..n
  OBVIOUS
<1>6. \A i \in 1..m : i \in 1..n
  OBVIOUS
<1>7. {q[i] : i \in 1..m} \cup Range(p) = {q[i] : i \in 1..n}
  <2>1. ASSUME NEW x \in {q[i] : i \in 1..n} PROVE x \in {q[i] : i \in 1..m} \cup Range(p)
    <3>1. PICK i \in 1..n : x = q[i]
      BY <2>1
    <3>2. CASE i \in 1..m
      BY <3>1, <3>2
    <3>3. CASE i - m \in 1..(n - m) /\ (i - m) + m = i
      <4>1. p[i - m] = x
        BY <1>1, <3>1, <3>3 DEF p
      <4> QED BY <1>3, <3>3, <4>1
    <3> QED BY <1>4, <3>2, <3>3
  <2>2. \A x \in Range(p) : x \in {q[i] : i \in 1..n}
    BY <1>1, <1>3, <1>5 DEF p
  <2>3. \A x \in {q[i] : i \in 1..m} : x \in {q[i] : i \in 1..n}
    BY <1>6
  <2> QED BY <2>1, <2>2, <2>3
<1>8. m < n => q[m + 1] \in Range(p)
  <2>1. m < n => 1 \in 1..(n - m) /\ 1 + m = m + 1
    OBVIOUS
  <2> QED BY <1>1, <1>3, <2>1 DEF p
<1> QED BY <1>1, <1>7, <1>8 DEF p

\* A page served to somebody whom nothing disturbs goes on where the last one
\* stopped, and is as long as it may be.
LEMMA SmoothPage ==
    ASSUME Logs, world.cursor, world.cap >= PageSize, NEW d \in Feeders,
           NEW start \in 0..Len(Feed(d))
    PROVE  \E stop \in start..Len(Feed(d)) :
             /\ stop = start + PageSize \/ (stop = Len(Feed(d)) /\ stop < start + PageSize)
             /\ Len(PageAt(d, start)) = stop - start
             /\ Fetched(d, start) \cup Range(PageAt(d, start)) = Fetched(d, stop)
             /\ start < stop => Feed(d)[start + 1] \in Range(PageAt(d, start))
<1> DEFINE q == Feed(d)
           n == Len(q)
           stop == IF start + PageSize <= n THEN start + PageSize ELSE n
<1>1. q \in Seq(Range(q)) /\ n \in Nat
  BY FeedIsWindow, FeedIsCounted
<1>2. PageSize \in Nat \ {0} /\ world.cap \in Nat
  <2>1. world \in Instances
    BY DEF Logs
  <2> QED BY <2>1, WindowAssumption, InstancesAssumption, Zenon
<1> DEFINE M == {start + PageSize, start + world.cap, n}
<1>3. Min(M) = stop
  <2>1. stop \in M /\ \A x \in M : stop <= x
    BY <1>1, <1>2
  <2>2. \A x \in M : x \in Int
    BY <1>1, <1>2
  <2> HIDE DEF M, stop
  <2>3. stop \in Int /\ \A x \in M : (\A y \in M : x <= y) => x <= stop /\ stop <= x
    BY <2>1, <2>2
  <2>4. \A x \in M : (\A y \in M : x <= y) => x = stop
    BY <2>2, <2>3
  <2> QED BY <2>1, <2>4 DEF Min
<1>4. stop \in start..n /\ (stop = start + PageSize \/ (stop = n /\ stop < start + PageSize))
  BY <1>1, <1>2
<1>5. PageAt(d, start) = SubSeq(q, start + 1, stop)
  <2> HIDE DEF stop
  <2> QED BY <1>3 DEF PageAt
<1> DEFINE R == Range(q)
<1> HIDE DEF stop, n, M, q
<1>6. q \in Seq(R) /\ start \in Nat /\ stop \in Nat /\ start <= stop /\ stop <= Len(q)
  BY <1>1, <1>4 DEF n, q
<1> HIDE DEF R
<1>7. /\ Len(SubSeq(q, start + 1, stop)) = stop - start
      /\ {q[i] : i \in 1..start} \cup Range(SubSeq(q, start + 1, stop)) = {q[i] : i \in 1..stop}
      /\ start < stop => q[start + 1] \in Range(SubSeq(q, start + 1, stop))
  BY <1>6, SubSeqIs
<1>8. \A k : Fetched(d, k) = {q[i] : i \in 1..k}
  BY DEF Fetched, q
<1> QED BY <1>4, <1>5, <1>7, <1>8 DEF q, n

\* What goes wrong is never forgotten.
LEMMA CalmStep ==
    ASSUME Calm, [Next]_vars
    PROVE  Calm' /\ world' = world /\ faults <= faults' /\ arrivals <= arrivals'
<1>0. faults \in Nat /\ arrivals \in Nat
  BY DEF Calm
<1>1. CASE UNCHANGED services
  BY <1>0, <1>1 DEF services, Calm
<1>2. CASE UNCHANGED <<log, reachable, world, arrivals>> /\ Fault
  BY <1>0, <1>2 DEF Calm, Fault
<1>3. CASE PiholePull
  <2>1. CASE PiholePage
    BY <1>1, <1>2, <2>1 DEF PiholePage, Served, services
  <2> QED BY <1>1, <1>3, <2>1 DEF PiholePull, PiholeAuthenticate, PiholeCount, PiholePageFails,
                                  PiholeDone, PiholeReturn
<1>4. CASE LibrePull
  <2>1. CASE LibrePage
    <3>1. \E page : Served(Head(devices), offset[Libre], page)
      BY <2>1, Zenon DEF LibrePage
    <3>2. UNCHANGED faults \/ Fault
      BY <3>1 DEF Served
    <3>3. UNCHANGED <<log, reachable, world, arrivals>>
      BY <2>1, Zenon DEF LibrePage
    <3> QED BY <1>1, <1>2, <3>2, <3>3 DEF services
  <2> QED BY <1>1, <1>4, <2>1 DEF LibrePull, LibreDevices, LibreManaged, LibrePageFails,
                                  LibreCombine, LibreReturn
<1>5. ASSUME NEW s \in Sources, Learning(s) \/ Verify(s) PROVE UNCHANGED services
  BY <1>5 DEF Learning, Verify, Classify, Suspect, Probe, Conclude
<1>6. CASE Services
  <2>1. ASSUME NEW s \in Sources, Outage(s)
        PROVE  Calm' /\ world' = world /\ faults <= faults' /\ arrivals <= arrivals'
    BY <1>0, <2>1 DEF Outage, Fault, Calm
  <2>2. ASSUME NEW s \in Sources, Recover(s)
        PROVE  Calm' /\ world' = world /\ faults <= faults' /\ arrivals <= arrivals'
    BY <1>0, <2>2 DEF Recover, Calm
  <2>3. CASE Expire
    BY <1>0, <2>3 DEF Expire, Fault, Calm
  <2>4. ASSUME NEW d \in DOMAIN DeviceIp, Arrive(d)
        PROVE  Calm' /\ world' = world /\ faults <= faults' /\ arrivals <= arrivals'
    <3>1. arrivals' = arrivals + 1 /\ UNCHANGED <<reachable, world, faults>>
      BY <2>4, Zenon DEF Arrive
    <3> QED BY <1>0, <3>1 DEF Calm
  <2> QED BY <1>6, <2>1, <2>2, <2>3, <2>4 DEF Services
<1>7. CASE UNCHANGED vars
  BY <1>1, <1>7 DEF vars
<1> QED BY <1>1, <1>3, <1>4, <1>5, <1>6, <1>7 DEF Next

\* What the step leaves of a state in which nothing is wrong.
Serene(s) ==
    /\ Undisturbed(s) /\ Filled(s) /\ faults' = 0
    /\ world' = world /\ log' = log /\ log = world.logs /\ \A t \in Sources : reachable[t]

LEMMA StaysSerene ==
    ASSUME Calm, [Next]_vars, NEW s, Undisturbed(s)', Filled(s)'
    PROVE  Serene(s)
<1>1. Calm' /\ world' = world /\ faults <= faults' /\ arrivals <= arrivals'
  BY CalmStep
<1>2. faults = 0 /\ arrivals = 0 /\ faults' = 0 /\ arrivals' = 0
  BY <1>1 DEF Calm, Undisturbed
<1>3. log = world.logs /\ log' = log /\ \A t \in Sources : reachable[t]
  BY <1>1, <1>2 DEF Calm
<1>4. Undisturbed(s)
  BY <1>1, <1>2, <1>3 DEF Undisturbed, Feeds, Feed, Filtered, Begin
<1>5. Filled(s)
  BY <1>1 DEF Filled, Held, Asked, Feeds, Normalised
<1> QED BY <1>1, <1>2, <1>3, <1>4, <1>5 DEF Serene

LEMMA SereneKeeps ==
    ASSUME NEW s, Serene(s), NEW t
    PROVE  /\ Held(t)' = Held(t) /\ Asked(t)' = Asked(t) /\ Feeds(t)' = Feeds(t)
           /\ \A d : Feed(d)' = Feed(d)
           /\ \A d, n : Fetched(d, n)' = Fetched(d, n)
BY DEF Serene, Held, Asked, Feeds, Normalised, Feed, Filtered, Begin, Fetched

\* A step that does not touch a source's pull.
LEMMA QuietSteady ==
    ASSUME NEW s \in Sources, Serene(s), Steady(s), Quiet(s),
           offset'[s] = offset[s], pages'[s] = pages[s]
    PROVE  Steady(s)'
<1>1. /\ Held(s)' = Held(s) /\ Asked(s)' = Asked(s) /\ Feeds(s)' = Feeds(s)
      /\ \A d : Feed(d)' = Feed(d)
      /\ \A d, n : Fetched(d, n)' = Fetched(d, n)
  BY SereneKeeps
<1>2. Unhurt(s)' <=> Unhurt(s)
  BY DEF Unhurt, Begun, Clamped, Quiet
<1>3. ASSUME s = Pihole PROVE PiholeSmooth'
  <2>1. Fetched(Pihole, offset[Pihole])' = Fetched(Pihole, offset[Pihole])
    BY <1>1, <1>3 DEF Fetched
  <2> QED BY <1>1, <1>3, <2>1 DEF Steady, PiholeSmooth, Begun, Clamped, Quiet
<1>4. ASSUME s = Libre PROVE LibreSmooth'
  <2>1. devices' = devices /\ batch' = batch
    BY <1>4 DEF Quiet
  <2>2. Pulled' = Pulled
    BY <1>1, <1>4, <2>1 DEF Pulled
  <2>3. Feed(Head(devices))' = Feed(Head(devices))
    BY <2>1 DEF Feed, Filtered, Begin, Serene
  <2>4. Fetched(Head(devices), offset[Libre])' = Fetched(Head(devices), offset[Libre])
    BY <1>4, <2>3 DEF Fetched
  <2> QED BY <1>1, <1>2, <1>4, <2>1, <2>2, <2>3, <2>4
          DEF Steady, LibreSmooth, Quiet, Normalised
<1> QED BY <1>1, <1>2, <1>3, <1>4 DEF Steady, Quiet

-----------------------------------------------------------------------------
(* Pi-hole's pull, undisturbed *)

LEMMA PiholeAsked ==
    ASSUME Logs, log = world.logs, world.filters, Filled(Pihole)
    PROVE  /\ Asked(Pihole) = Range(Feed(Pihole))
           /\ Cardinality(Asked(Pihole)) = Len(Feed(Pihole))
           /\ Held(Pihole) = Normalised(Range(Feed(Pihole)))
<1>1. Pihole \in Feeders /\ Pihole \in Sources
  BY DEF Feeders, Sources
<1>2. /\ Range(Feed(Pihole)) = {r \in Range(world.logs[Pihole]) : InWindow(r, 0)}
      /\ Cardinality(Range(Feed(Pihole))) = Len(Feed(Pihole))
  BY <1>1, FeedIsWhole, FilledBegins DEF Logs
<1>3. UNION {Range(world.logs[d]) : d \in Feeds(Pihole)} = Range(world.logs[Pihole])
  BY DEF Feeds
<1>4. Asked(Pihole) = Range(Feed(Pihole))
  BY <1>2, <1>3 DEF Asked
<1> QED BY <1>2, <1>4 DEF Held

\* Everything up to the last record.
LEMMA FetchedAll ==
    ASSUME Logs, NEW d \in Feeders
    PROVE  Fetched(d, Len(Feed(d))) = Range(Feed(d)) /\ Fetched(d, 0) = {}
<1> DEFINE q == Feed(d)
<1>1. q \in Seq(Range(q))
  BY FeedIsWindow
<1>2. \A n : Fetched(d, n) = {q[i] : i \in 1..n}
  BY DEF Fetched
<1> HIDE DEF q
<1>3. DOMAIN q = 1..Len(q) /\ 1..0 = {}
  BY <1>1
<1> QED BY <1>2, <1>3 DEF Range, q

\* Pi-hole's log reaches back to the start of the window, or a hundredth of an hour
\* short of it, so nothing is clamped.
LEMMA LogReachesBack ==
    ASSUME Logs, log = world.logs, Filled(Pihole)
    PROVE  Earliest < Length /\ CutAt \in Nat /\ ~ 100 * CutAt > Hour
<1>0. PICK r \in Range(world.logs[Pihole]) : 100 * r.t <= Hour
  BY DEF Filled
<1> DEFINE q == log[Pihole]
           n == Len(q)
<1>1. world \in Instances /\ q = world.logs[Pihole] /\ q \in Seq(Range(q)) /\ Pihole \in DOMAIN world.logs
  BY DEF Logs, Feeders
<1>2. /\ \A x \in Range(q) : x.t \in Int
      /\ \A i, j \in DOMAIN q : i < j => q[i].t >= q[j].t
  BY <1>1, InstancesAssumption, Zenon
<1>3. n \in Nat /\ DOMAIN q = 1..n
  BY <1>1
<1>4. PICK i \in 1..n : q[i] = r
  BY <1>0, <1>1, <1>3 DEF Range
<1>5. n \in 1..n /\ q # <<>> /\ (i < n \/ i = n)
  BY <1>3, <1>4
<1>6. q[n] \in Range(q) /\ r \in Range(q)
  BY <1>1, <1>3, <1>5 DEF Range
<1>7. q[n].t <= r.t /\ q[n].t \in Int /\ r.t \in Int
  BY <1>2, <1>3, <1>4, <1>5, <1>6
<1>8. Earliest = q[n].t
  BY <1>5 DEF Earliest, Last
<1> HIDE DEF q, n
<1>9. {Length, Hour} \subseteq Nat \ {0} /\ Length >= Hour
  BY WindowAssumption
<1>10. Begin(Pihole) = 0
  BY <1>1, FilledBegins DEF Sources
<1>11. Earliest \in Int /\ 100 * Earliest <= Hour
  BY <1>0, <1>7, <1>8, <1>9
<1> QED BY <1>9, <1>10, <1>11 DEF CutAt

\* What the loop over pages leaves behind when it is through.
LEMMA PiholeStopSmooth ==
    ASSUME Logs, Tables, Serene(Pihole), PiholeStop(seen[Pihole], TRUE),
           seen[Pihole] = Range(Feed(Pihole)), total[Pihole] = Len(Feed(Pihole)),
           Begun(Pihole), health' = health, health[Pihole] = "none"
    PROVE  Steady(Pihole)'
<1>0. Pihole \in Sources /\ Pihole # Libre
  BY DEF Sources, Pihole, Libre
<1>1. /\ Asked(Pihole) = Range(Feed(Pihole)) /\ Cardinality(Asked(Pihole)) = Len(Feed(Pihole))
      /\ Held(Pihole) = Normalised(Range(Feed(Pihole)))
  BY PiholeAsked DEF Serene, Undisturbed
<1>2. IsFiniteSet(Asked(Pihole))
  BY <1>1, FeedIsCounted DEF Feeders
<1>3. Held(Pihole)' = Held(Pihole) /\ Asked(Pihole)' = Asked(Pihole)
  BY SereneKeeps
<1> DEFINE r == [events |-> Normalised(seen[Pihole]), reported |-> total[Pihole],
                 complete |-> TRUE, errors |-> ~ TRUE, from |-> result[Pihole].from]
<1>4. result' = [result EXCEPT ![Pihole] = r] /\ pc' = [pc EXCEPT ![Pihole] = "clients"]
  BY DEF PiholeStop, Goto
<1>5. /\ r.events = Held(Pihole) /\ r.reported = Cardinality(Asked(Pihole))
      /\ r.complete /\ ~ r.errors /\ r.from \in Nat /\ ~ Clamped(r)
  BY <1>1 DEF Begun, Clamped
<1> HIDE DEF r
<1>6. result'[Pihole] = r /\ pc'[Pihole] = "clients"
  BY <1>0, <1>4 DEF Tables
<1>7. PiholeSmooth' /\ Unhurt(Pihole)'
  BY <1>5, <1>6 DEF PiholeSmooth, Unhurt, Begun, Clamped
<1> QED BY <1>0, <1>2, <1>3, <1>5, <1>6, <1>7 DEF Steady

LEMMA PiholeCountSmooth ==
    ASSUME Logs, Tables, Serene(Pihole), Steady(Pihole), PiholeCount
    PROVE  Steady(Pihole)'
<1>0. Pihole \in Sources /\ Pihole # Libre /\ Pihole \in Feeders /\ reachable[Pihole]
  BY DEF Sources, Pihole, Libre, Feeders, Serene
<1>1. Earliest < Length /\ CutAt \in Nat /\ ~ 100 * CutAt > Hour
  BY LogReachesBack DEF Serene
<1>2. /\ pc[Pihole] = "count" /\ UNCHANGED <<offset, pages, seen, health>>
      /\ total' = [total EXCEPT ![Pihole] = Len(Feed(Pihole))]
      /\ result' = [result EXCEPT ![Pihole].from = CutAt]
      /\ pc' = [pc EXCEPT ![Pihole] = "page"]
  BY <1>0, <1>1, Zenon DEF PiholeCount, At, Goto, verdict, CutAt
<1>3. pc'[Pihole] = "page" /\ total'[Pihole] = Len(Feed(Pihole)) /\ Begun(Pihole)'
  <2>1. pc'[Pihole] = "page" /\ total'[Pihole] = Len(Feed(Pihole)) /\ result'[Pihole].from = CutAt
    BY <1>0, <1>2 DEF Tables, Entries
  <2> QED BY <1>1, <2>1 DEF Begun, Clamped
<1>4. offset'[Pihole] = 0 /\ pages'[Pihole] = 0 /\ seen'[Pihole] = {}
      /\ health'[Pihole] \in {"none", "OK"}
  BY <1>0, <1>2 DEF Steady, PiholeSmooth
<1>5. Feed(Pihole)' = Feed(Pihole) /\ Len(Feed(Pihole)) \in Nat
  BY <1>0, SereneKeeps, FeedIsCounted
<1>6. Fetched(Pihole, offset[Pihole])' = {}
  <2>1. Fetched(Pihole, offset[Pihole])' = Fetched(Pihole, 0)
    BY <1>4, <1>5 DEF Fetched
  <2> QED BY <1>0, <2>1, FetchedAll
<1>7. 0 = 0 * PageSize
  BY WindowAssumption
<1>8. PiholeSmooth'
  BY <1>3, <1>4, <1>5, <1>6, <1>7 DEF PiholeSmooth
<1> QED BY <1>0, <1>3, <1>4, <1>8 DEF Steady

\* A page that nothing disturbs is the page that was asked for, and brings news.
LEMMA PiholePageServed ==
    ASSUME Logs, Tables, Calm, pages \in [Sources -> Nat], Serene(Pihole), Steady(Pihole),
           PiholePage
    PROVE  \E stop \in Nat :
             /\ stop <= Len(Feed(Pihole))
             /\ stop = Len(Feed(Pihole)) \/ stop = (pages[Pihole] + 1) * PageSize
             /\ offset' = [offset EXCEPT ![Pihole] = stop]
             /\ pages' = [pages EXCEPT ![Pihole] = @ + 1]
             /\ seen' = [seen EXCEPT ![Pihole] = Fetched(Pihole, stop)]
             /\ UNCHANGED <<pc, result, total, health>>
<1> DEFINE start == offset[Pihole]
           n == Len(Feed(Pihole))
<1>0. Pihole \in Sources /\ Pihole \in Feeders
  BY DEF Sources, Feeders
<1>1. /\ pc[Pihole] = "page" /\ start < total[Pihole]
      /\ UNCHANGED <<total, health>>
  BY Zenon DEF PiholePage, At, verdict
<1>2. /\ total[Pihole] = n /\ start \in 0..n /\ start = pages[Pihole] * PageSize
      /\ seen[Pihole] = Fetched(Pihole, start) /\ n \in Nat
  BY <1>0, <1>1, FeedIsCounted DEF Steady, PiholeSmooth
<1>3. /\ world.cursor /\ world.cap >= PageSize /\ world.filters /\ log = world.logs
      /\ n <= MaxPages * PageSize
  BY DEF Serene, Undisturbed, Feeds
<1>4. PICK stop \in start..n :
        /\ stop = start + PageSize \/ (stop = n /\ stop < start + PageSize)
        /\ Len(PageAt(Pihole, start)) = stop - start
        /\ Fetched(Pihole, start) \cup Range(PageAt(Pihole, start)) = Fetched(Pihole, stop)
        /\ start < stop => Feed(Pihole)[start + 1] \in Range(PageAt(Pihole, start))
  BY <1>0, <1>2, <1>3, SmoothPage
<1>5. PICK page :
        /\ Served(Pihole, start, page)
        /\ seen' = [seen EXCEPT ![Pihole] = seen[Pihole] \cup Range(page)]
        /\ pages' = [pages EXCEPT ![Pihole] = @ + 1]
        /\ \/ page = <<>>
           \/ seen[Pihole] \cup Range(page) = seen[Pihole]
           \/ pages[Pihole] >= MaxPages
           \/ offset' = [offset EXCEPT ![Pihole] = @ + Len(page)] /\ UNCHANGED <<pc, result>>
  BY Zenon DEF PiholePage
<1>6. page = PageAt(Pihole, start)
  <2>1. faults' = 0 /\ faults \in Nat
    BY DEF Serene, Calm
  <2>2. ~ Fault
    BY <2>1 DEF Fault
  <2> QED BY <1>5, <2>2 DEF Served
<1>7. /\ PageSize \in Nat \ {0} /\ MaxPages \in Nat /\ pages[Pihole] \in Nat
      /\ offset[Pihole] \in Nat
  BY <1>0, WindowAssumption DEF Tables
<1>8. /\ start < stop /\ start + 1 \in 1..n /\ stop \in Nat /\ stop <= n
      /\ start \in Nat /\ stop - start \in Nat \ {0} /\ start + (stop - start) = stop
  <2>1. start < n /\ start \in Nat /\ n \in Nat
    BY <1>1, <1>2, <1>7
  <2>2. stop \in start..n /\ (stop = start + PageSize \/ stop = n)
    BY <1>4
  <2> HIDE DEF start, n
  <2> QED BY <1>7, <2>1, <2>2
<1>9. page # <<>>
  <2>1. Len(page) = stop - start /\ Len(<<>>) = 0
    BY <1>4, <1>6
  <2>2. Len(page) # 0
    BY <1>8, <2>1
  <2> QED BY <2>1, <2>2
<1>10. seen[Pihole] \cup Range(page) # seen[Pihole]
  <2>1. \A i, j \in 1..n : Feed(Pihole)[i] = Feed(Pihole)[j] => i = j
    BY <1>0, <1>3, FeedIsWhole
  <2>2. \A i \in 1..start : i \in 1..n /\ i # start + 1
    BY <1>2
  <2>3. Feed(Pihole)[start + 1] \notin Fetched(Pihole, start)
    BY <1>8, <2>1, <2>2 DEF Fetched
  <2> QED BY <1>2, <1>4, <1>6, <1>8, <2>3
<1>11. pages[Pihole] < MaxPages
  <2>1. pages[Pihole] * PageSize < MaxPages * PageSize
    BY <1>1, <1>2, <1>3, <1>7
  <2> DEFINE a == pages[Pihole]
  <2>2. a \in Nat /\ a * PageSize < MaxPages * PageSize
    BY <1>7, <2>1
  <2> HIDE DEF a
  <2>3. \A k \in Nat : (MaxPages + k) * PageSize >= MaxPages * PageSize
    <3>1. \A k \in Nat : (MaxPages + k) * PageSize = MaxPages * PageSize + k * PageSize
      BY <1>7
    <3>2. \A k \in Nat : k * PageSize \in Nat
      BY <1>7
    <3> QED BY <1>7, <3>1, <3>2
  <2>4. a >= MaxPages => a - MaxPages \in Nat /\ a = MaxPages + (a - MaxPages)
    BY <1>7, <2>2
  <2> QED BY <1>7, <2>2, <2>3, <2>4 DEF a
<1>12. offset' = [offset EXCEPT ![Pihole] = @ + Len(page)] /\ UNCHANGED <<pc, result>>
  <2>1. ~ pages[Pihole] >= MaxPages
    BY <1>7, <1>11
  <2> QED BY <1>5, <1>9, <1>10, <2>1
<1>13. offset' = [offset EXCEPT ![Pihole] = stop]
  <2>1. start + Len(page) = stop
    BY <1>4, <1>6, <1>8
  <2> QED BY <1>0, <1>12, <2>1 DEF Tables
<1>14. stop = n \/ stop = (pages[Pihole] + 1) * PageSize
  <2>1. (pages[Pihole] + 1) * PageSize = pages[Pihole] * PageSize + PageSize
    BY <1>7
  <2> QED BY <1>2, <1>4, <2>1
<1>15. seen' = [seen EXCEPT ![Pihole] = Fetched(Pihole, stop)]
  BY <1>2, <1>4, <1>5, <1>6
<1> HIDE DEF n
<1> QED BY <1>1, <1>5, <1>8, <1>12, <1>13, <1>14, <1>15 DEF n

LEMMA PiholePageSmooth ==
    ASSUME Logs, Tables, Calm, pages \in [Sources -> Nat], Serene(Pihole), Steady(Pihole),
           PiholePage
    PROVE  Steady(Pihole)'
<1>0. Pihole \in Sources /\ Pihole # Libre /\ Pihole \in Feeders
  BY DEF Sources, Pihole, Libre, Feeders
<1>1. PICK stop \in Nat :
        /\ stop <= Len(Feed(Pihole))
        /\ stop = Len(Feed(Pihole)) \/ stop = (pages[Pihole] + 1) * PageSize
        /\ offset' = [offset EXCEPT ![Pihole] = stop]
        /\ pages' = [pages EXCEPT ![Pihole] = @ + 1]
        /\ seen' = [seen EXCEPT ![Pihole] = Fetched(Pihole, stop)]
        /\ UNCHANGED <<pc, result, total, health>>
  BY PiholePageServed
<1>2. /\ offset'[Pihole] = stop /\ pages'[Pihole] = pages[Pihole] + 1
      /\ seen'[Pihole] = Fetched(Pihole, stop)
  BY <1>0, <1>1 DEF Tables
<1>3. /\ pc[Pihole] = "page" /\ total[Pihole] = Len(Feed(Pihole)) /\ Begun(Pihole)
      /\ health[Pihole] \in {"none", "OK"} /\ Len(Feed(Pihole)) \in Nat
  <2>1. pc[Pihole] = "page"
    BY Zenon DEF PiholePage, At
  <2> QED BY <1>0, <2>1, FeedIsCounted DEF Steady, PiholeSmooth
<1>4. Feed(Pihole)' = Feed(Pihole)
  BY SereneKeeps
<1>5. Fetched(Pihole, offset[Pihole])' = Fetched(Pihole, stop)
  BY <1>2, <1>4 DEF Fetched
<1>6. PiholeSmooth'
  BY <1>1, <1>2, <1>3, <1>4, <1>5 DEF PiholeSmooth, Begun, Clamped
<1> QED BY <1>0, <1>1, <1>3, <1>6 DEF Steady

LEMMA PiholePullSmooth ==
    ASSUME Logs, Tables, Calm, pages \in [Sources -> Nat], Books(Pihole),
           Serene(Pihole), Steady(Pihole), PiholePull
    PROVE  Steady(Pihole)'
<1>0. /\ Pihole \in Sources /\ Pihole # Libre /\ Pihole \in Feeders
      /\ reachable[Pihole] /\ Answers(Pihole)
  BY DEF Sources, Pihole, Libre, Feeders, Serene, Answers, Undisturbed
<1>1. CASE PiholeAuthenticate
  <2>1. /\ pc[Pihole] = "start" /\ pc' = [pc EXCEPT ![Pihole] = "count"]
        /\ UNCHANGED <<offset, pages, seen, health>>
    BY <1>0, <1>1 DEF PiholeAuthenticate, At, Goto, pull, verdict
  <2>2. pc'[Pihole] = "count"
    BY <1>0, <2>1 DEF Tables
  <2> QED BY <1>0, <2>1, <2>2 DEF Steady, PiholeSmooth
<1>2. CASE PiholeDone
  <2>1. /\ pc[Pihole] = "page" /\ offset[Pihole] >= total[Pihole]
        /\ PiholeStop(seen[Pihole], TRUE) /\ health' = health
    BY <1>2 DEF PiholeDone, At, verdict
  <2>2. /\ total[Pihole] = Len(Feed(Pihole)) /\ offset[Pihole] \in 0..Len(Feed(Pihole))
        /\ seen[Pihole] = Fetched(Pihole, offset[Pihole])
        /\ Begun(Pihole) /\ Len(Feed(Pihole)) \in Nat
    BY <1>0, <2>1, FeedIsCounted DEF Steady, PiholeSmooth
  <2>3. offset[Pihole] = Len(Feed(Pihole))
    BY <2>1, <2>2
  <2>4. seen[Pihole] = Range(Feed(Pihole))
    BY <1>0, <2>2, <2>3, FetchedAll
  <2>5. health[Pihole] = "none"
    BY <2>1 DEF Books, Approved
  <2> QED BY <2>1, <2>2, <2>4, <2>5, PiholeStopSmooth
<1>3. CASE PiholeReturn
  <2>1. /\ pc[Pihole] = "clients" /\ pc' = [pc EXCEPT ![Pihole] = "pulled"]
        /\ UNCHANGED <<result, health>>
    BY <1>3 DEF PiholeReturn, At, Goto, verdict
  <2>2. pc'[Pihole] = "pulled"
    BY <1>0, <2>1 DEF Tables
  <2>3. Held(Pihole)' = Held(Pihole) /\ Asked(Pihole)' = Asked(Pihole)
    BY SereneKeeps
  <2> QED BY <1>0, <2>1, <2>2, <2>3 DEF Steady, PiholeSmooth, Unhurt, Begun,
                                              Clamped
<1>4. ~ PiholePageFails
  BY <1>0 DEF PiholePageFails
<1> QED BY <1>1, <1>2, <1>3, <1>4, PiholeCountSmooth, PiholePageSmooth DEF PiholePull

-----------------------------------------------------------------------------
(* LibreNMS's pull, undisturbed *)

\* A list without its first entry, when nothing is on it twice.
LEMMA TailOfList ==
    ASSUME NEW S, NEW q \in Seq(S), q # <<>>, \A i, j \in DOMAIN q : q[i] = q[j] => i = j
    PROVE  /\ Head(q) \in S /\ Tail(q) \in Seq(S)
           /\ Range(q) = Range(Tail(q)) \cup {Head(q)} /\ Head(q) \notin Range(Tail(q))
           /\ \A i, j \in DOMAIN Tail(q) : Tail(q)[i] = Tail(q)[j] => i = j
<1> DEFINE n == Len(q)
           t == Tail(q)
<1>1. /\ n \in Nat \ {0} /\ DOMAIN q = 1..n /\ Head(q) = q[1] /\ Head(q) \in S
      /\ t \in Seq(S) /\ DOMAIN t = 1..(n - 1) /\ \A i \in 1..(n - 1) : t[i] = q[i + 1]
  OBVIOUS
<1> HIDE DEF n, t
<1>2. \A i \in 1..(n - 1) : i + 1 \in 1..n /\ i + 1 # 1
  BY <1>1
<1>3. 1 \in 1..n /\ \A i \in 1..n : i = 1 \/ (i - 1 \in 1..(n - 1) /\ (i - 1) + 1 = i)
  BY <1>1
<1>4. \A i, j \in 1..(n - 1) : i + 1 = j + 1 => i = j
  BY <1>1
<1>5. Range(q) = {q[i] : i \in 1..n} /\ Range(t) = {q[i + 1] : i \in 1..(n - 1)}
  <2>1. Range(q) = {q[i] : i \in DOMAIN q} /\ Range(t) = {t[i] : i \in DOMAIN t}
    BY DEF Range
  <2>2. Range(q) = {q[i] : i \in 1..n} /\ Range(t) = {t[i] : i \in 1..(n - 1)}
    BY <1>1, <2>1
  <2>3. {t[i] : i \in 1..(n - 1)} = {q[i + 1] : i \in 1..(n - 1)}
    <3>1. \A i \in 1..(n - 1) : t[i] = q[i + 1]
      BY <1>1
    <3> QED BY <3>1, SMT
  <2> QED BY <2>2, <2>3
<1>6. Range(q) = Range(t) \cup {Head(q)}
  <2>1. ASSUME NEW i \in 1..n PROVE q[i] \in Range(t) \cup {Head(q)}
    <3>1. CASE i = 1
      BY <1>1, <3>1
    <3>2. CASE i - 1 \in 1..(n - 1) /\ (i - 1) + 1 = i
      <4>1. PICK k \in 1..(n - 1) : k + 1 = i
        BY <3>2
      <4>2. q[k + 1] \in Range(t)
        BY <1>5
      <4> QED BY <4>1, <4>2
    <3> QED BY <1>3, <3>1, <3>2
  <2>2. Range(t) \subseteq Range(q)
    BY <1>2, <1>5
  <2>3. Head(q) \in Range(q)
    BY <1>1, <1>3, <1>5
  <2> QED BY <1>5, <2>1, <2>2, <2>3
<1>7. Head(q) \notin Range(t)
  <2>1. \A i \in 1..(n - 1) : q[i + 1] # q[1]
    BY <1>1, <1>2, <1>3
  <2> QED BY <1>1, <1>5, <2>1
<1>8. \A i, j \in DOMAIN t : t[i] = t[j] => i = j
  BY <1>1, <1>2, <1>4
<1> QED BY <1>1, <1>6, <1>7, <1>8 DEF t

\* The device list that LibreNMS gives, or the operator did.
LEMMA ListIsResolved ==
    ASSUME Logs, Answers(Libre)
    PROVE  /\ Resolved \in Seq(DOMAIN DeviceIp) /\ Range(Resolved) = Feeds(Libre)
           /\ \A i, j \in DOMAIN Resolved : Resolved[i] = Resolved[j] => i = j
           /\ Feeds(Libre) \subseteq DOMAIN DeviceIp
<1>1. Pihole # Libre /\ world \in Instances
  BY DEF Pihole, Libre, Logs
<1>2. /\ world.explicit \in Seq(DOMAIN DeviceIp) /\ world.managed \in Seq(DOMAIN DeviceIp)
      /\ \A listed \in {world.managed, world.explicit} : \A i, j \in DOMAIN listed :
            listed[i] = listed[j] => i = j
  BY <1>1, InstancesAssumption, Zenon
<1>3. /\ Resolved = IF world.explicit # <<>> THEN world.explicit ELSE world.managed
      /\ Feeds(Libre) = Range(Resolved)
  BY <1>1 DEF Resolved, Listed, Feeds
<1>4. Resolved \in {world.managed, world.explicit}
  BY <1>3
<1>5. \A i, j \in DOMAIN Resolved : Resolved[i] = Resolved[j] => i = j
  BY <1>2, <1>4
<1>6. Resolved \in Seq(DOMAIN DeviceIp)
  BY <1>2, <1>4
<1>7. Range(Resolved) \subseteq DOMAIN DeviceIp
  BY <1>6, RangeIsSmall
<1> QED BY <1>3, <1>5, <1>6, <1>7

\* No record is in the feeds of two devices.
LEMMA FeedsAreApart ==
    ASSUME Logs, log = world.logs, world.filters, NEW d \in Feeders, NEW e \in Feeders, d # e
    PROVE  Range(Feed(d)) \cap Range(Feed(e)) = {}
<1>1. /\ Range(Feed(d)) \subseteq Range(world.logs[d])
      /\ Range(Feed(e)) \subseteq Range(world.logs[e])
  BY FeedIsWhole
<1>2. world \in Instances /\ DOMAIN world.logs = Feeders
  BY DEF Logs
<1>3. \A i \in DOMAIN world.logs[d], j \in DOMAIN world.logs[e] :
        world.logs[d][i] = world.logs[e][j] => d = e
  BY <1>2, InstancesAssumption, Zenon
<1> QED BY <1>1, <1>3 DEF Range

\* A device that is done moves from the list to what was pulled.
LEMMA PulledGrows ==
    ASSUME Logs, log = world.logs, world.filters, devices \in Seq(DOMAIN DeviceIp), devices # <<>>,
           \A i, j \in DOMAIN devices : devices[i] = devices[j] => i = j,
           Range(devices) \subseteq Feeds(Libre), Feeds(Libre) \subseteq DOMAIN DeviceIp,
           IsFiniteSet(Pulled), NEW G,
           G = UNION {Range(Feed(e)) : e \in Feeds(Libre) \ Range(Tail(devices))}
    PROVE  /\ G = Pulled \cup Range(Feed(Head(devices)))
           /\ IsFiniteSet(G)
           /\ Cardinality(G) = Cardinality(Pulled) + Len(Feed(Head(devices)))
<1>1. /\ Head(devices) \in DOMAIN DeviceIp
      /\ Range(devices) = Range(Tail(devices)) \cup {Head(devices)}
      /\ Head(devices) \notin Range(Tail(devices))
  BY TailOfList
<1>2. PICK d \in DOMAIN DeviceIp : d = Head(devices)
  BY <1>1
<1>3. /\ d \in Feeders /\ Feeds(Libre) \subseteq Feeders /\ d \in Feeds(Libre)
      /\ Feeds(Libre) \ Range(Tail(devices)) = (Feeds(Libre) \ Range(devices)) \cup {d}
      /\ d \notin Feeds(Libre) \ Range(devices)
  BY <1>1, <1>2 DEF Feeders
<1> DEFINE R == Range(Feed(d))
           P == Pulled
<1>4. G = P \cup R
  BY <1>3 DEF Pulled
<1>5. P \cap R = {}
  <2>1. \A e \in Feeds(Libre) \ Range(devices) : Range(Feed(e)) \cap R = {}
    BY <1>3, FeedsAreApart
  <2> QED BY <2>1 DEF Pulled
<1>6. IsFiniteSet(R) /\ Cardinality(R) = Len(Feed(d)) /\ IsFiniteSet(P)
  BY <1>3, FeedIsWhole
<1> HIDE DEF P, R
<1>7. /\ IsFiniteSet(P \cup R)
      /\ Cardinality(P \cup R) = Cardinality(P) + Cardinality(R) - Cardinality(P \cap R)
  BY <1>6, FS_Union
<1>8. Cardinality(P \cap R) = 0 /\ Cardinality(P) \in Nat /\ Cardinality(R) \in Nat
  BY <1>5, <1>6, FS_EmptySet, FS_CardinalityType
<1>9. Cardinality(P \cup R) = Cardinality(P) + Cardinality(R)
  BY <1>7, <1>8
<1> QED BY <1>2, <1>4, <1>6, <1>7, <1>9 DEF P, R

LEMMA LibreDevicesSmooth ==
    ASSUME Logs, Tables, Serene(Libre), Steady(Libre), LibreDevices
    PROVE  Steady(Libre)'
<1>0. /\ Libre \in Sources /\ Pihole # Libre /\ reachable[Libre] /\ Answers(Libre)
  BY DEF Sources, Pihole, Libre, Serene, Answers, Undisturbed
<1>1. /\ Resolved \in Seq(DOMAIN DeviceIp) /\ Range(Resolved) = Feeds(Libre)
      /\ \A i, j \in DOMAIN Resolved : Resolved[i] = Resolved[j] => i = j
      /\ Feeds(Libre) \subseteq DOMAIN DeviceIp
  BY <1>0, ListIsResolved
<1>2. Resolved # <<>>
  <2>1. Range(<<>>) = {}
    BY DEF Range
  <2>2. Held(Libre) # {}
    BY DEF Serene, Filled
  <2>3. Feeds(Libre) # {}
    BY <2>2 DEF Held, Asked, Normalised
  <2> QED BY <1>1, <2>1, <2>3
<1>3. /\ pc[Libre] = "start" /\ devices' = Resolved /\ pc' = [pc EXCEPT ![Libre] = "managed"]
      /\ UNCHANGED <<result, offset, pages, total, batch, seen, health>>
  BY <1>2, Zenon DEF LibreDevices, At, Goto, verdict
<1>4. /\ pc'[Libre] = "managed" /\ Unhurt(Libre)
      /\ offset[Libre] = 0 /\ pages[Libre] = 0 /\ batch = {} /\ seen[Libre] = {}
      /\ total[Libre] = 0 /\ health[Libre] \in {"none", "OK"}
  BY <1>0, <1>3 DEF Tables, Steady, LibreSmooth
<1>5. Feeds(Libre)' = Feeds(Libre) /\ \A e : Feed(e)' = Feed(e)
  BY SereneKeeps
<1>6. Pulled' = {}
  <2>1. Feeds(Libre)' \ Range(devices') = {}
    BY <1>1, <1>3, <1>5
  <2> QED BY <2>1 DEF Pulled
<1>7. IsFiniteSet({}) /\ Cardinality({}) = 0 /\ Normalised({}) = {} /\ 0 = 0 * PageSize
  BY FS_EmptySet, WindowAssumption DEF Normalised
<1>8. /\ 0 \in 0..Len(Feed(Head(devices)))'
      /\ Fetched(Head(devices), offset[Libre])' = {}
  <2>1. PICK d : d = Head(Resolved)
    OBVIOUS
  <2>2. d \in Feeders
    BY <1>1, <1>2, <2>1 DEF Feeders
  <2>3. Feed(Head(devices))' = Feed(d)
    <3>1. Feed(Head(devices))' = Feed(d)'
      BY <1>3, <2>1
    <3> QED BY <1>5, <3>1
  <2>4. Fetched(Head(devices), offset[Libre])' = Fetched(d, 0)
    BY <1>3, <1>4, <2>3 DEF Fetched
  <2>5. Len(Feed(d)) \in Nat /\ Fetched(d, 0) = {}
    BY <2>2, FeedIsCounted, FetchedAll
  <2> QED BY <2>3, <2>4, <2>5
<1>9. Unhurt(Libre)'
  BY <1>3, <1>4 DEF Unhurt, Begun, Clamped
<1>10. Range(devices') \subseteq Feeds(Libre)'
       /\ \A i, j \in DOMAIN devices' : devices'[i] = devices'[j] => i = j
  BY <1>1, <1>3, <1>5
<1>11. Normalised(Pulled)' = {} /\ Normalised(Fetched(Head(devices), offset[Libre]))' = {}
  BY <1>6, <1>7, <1>8 DEF Normalised
<1>12. LibreSmooth'
  BY <1>3, <1>4, <1>6, <1>7, <1>8, <1>9, <1>10, <1>11 DEF LibreSmooth
<1> QED BY <1>0, <1>3, <1>4, <1>12 DEF Steady

\* A page that nothing disturbs goes on from where the last one stopped, and the
\* last one is the one that reaches the end of the feed.
LEMMA LibrePageServed ==
    ASSUME Logs, Tables, Calm, pages \in [Sources -> Nat], Serene(Libre), Steady(Libre),
           LibrePage
    PROVE  \E stop, news :
             /\ stop \in Nat
             /\ Fetched(Head(devices), offset[Libre]) \cup news = Fetched(Head(devices), stop)
             /\ \/ /\ stop = Len(Feed(Head(devices)))
                   /\ NextDevice
                   /\ total' = [total EXCEPT ![Libre] = @ + Len(Feed(Head(devices)))]
                   /\ seen' = [seen EXCEPT ![Libre] = @ \cup batch \cup Normalised(news)]
                \/ /\ stop <= Len(Feed(Head(devices)))
                   /\ stop = (pages[Libre] + 1) * PageSize
                   /\ batch' = batch \cup Normalised(news)
                   /\ offset' = [offset EXCEPT ![Libre] = stop]
                   /\ pages' = [pages EXCEPT ![Libre] = @ + 1]
                   /\ UNCHANGED <<devices, total, seen>>
             /\ UNCHANGED <<pc, result, health>>
<1> DEFINE start == offset[Libre]
<1>0. /\ Libre \in Sources /\ Pihole # Libre /\ pc[Libre] = "page" /\ devices # <<>>
      /\ UNCHANGED <<pc, result, health>>
  BY Zenon DEF LibrePage, At, verdict, Sources, Pihole, Libre
<1>1. /\ world.cursor /\ world.cap >= PageSize
      /\ Libre \in world.trusted /\ reachable[Libre]
      /\ \A e \in Feeds(Libre) : Len(Feed(e)) <= MaxPages * PageSize
  BY <1>0 DEF Serene, Undisturbed
<1>2. PICK d : d = Head(devices)
  OBVIOUS
<1>3. d \in Feeders /\ d \in Feeds(Libre)
  <2>1. /\ devices \in Seq(DOMAIN DeviceIp) /\ Range(devices) \subseteq Feeds(Libre)
        /\ \A i, j \in DOMAIN devices : devices[i] = devices[j] => i = j
    BY <1>0 DEF Tables, Steady, LibreSmooth
  <2>2. d \in DOMAIN DeviceIp /\ d \in Range(devices)
    BY <1>0, <1>2, <2>1, TailOfList
  <2> QED BY <2>1, <2>2 DEF Feeders
<1> DEFINE n == Len(Feed(d))
<1>4. /\ start \in 0..n /\ start = pages[Libre] * PageSize /\ n \in Nat
      /\ start \in Nat /\ PageSize \in Nat \ {0} /\ MaxPages \in Nat /\ pages[Libre] \in Nat
      /\ n <= MaxPages * PageSize
  <2>1. start \in 0..n /\ start = pages[Libre] * PageSize
    BY <1>0, <1>2 DEF Steady, LibreSmooth
  <2> QED BY <1>0, <1>1, <1>3, <2>1, FeedIsCounted, WindowAssumption DEF Tables
<1>5. PICK stop \in start..n :
        /\ stop = start + PageSize \/ (stop = n /\ stop < start + PageSize)
        /\ Len(PageAt(d, start)) = stop - start
        /\ Fetched(d, start) \cup Range(PageAt(d, start)) = Fetched(d, stop)
  BY <1>1, <1>3, <1>4, SmoothPage
<1>6. PICK page :
        /\ Served(d, start, page)
        /\ \/ /\ LastPage(page, n)
              /\ NextDevice
              /\ total' = [total EXCEPT ![Libre] = @ + n]
              /\ seen' = [seen EXCEPT ![Libre] = @ \cup batch \cup Normalised(Range(page))]
           \/ /\ ~ LastPage(page, n)
              /\ batch' = batch \cup Normalised(Range(page))
              /\ offset' = [offset EXCEPT ![Libre] = @ + Len(page)]
              /\ pages' = [pages EXCEPT ![Libre] = IF @ <= MaxPages THEN @ + 1 ELSE @]
              /\ UNCHANGED <<devices, total, seen>>
  BY <1>2, Zenon DEF LibrePage
<1>7. page = PageAt(d, start)
  <2>1. faults' = 0 /\ faults \in Nat
    BY DEF Serene, Calm
  <2>2. ~ Fault
    BY <2>1 DEF Fault
  <2> QED BY <1>6, <2>2 DEF Served
<1>8. /\ stop \in Nat /\ stop <= n /\ stop >= start /\ Len(page) = stop - start
      /\ start + Len(page) = stop
      /\ (stop = start + PageSize \/ (stop = n /\ stop < start + PageSize))
  <2>1. Len(page) = stop - start /\ stop \in start..n
        /\ (stop = start + PageSize \/ (stop = n /\ stop < start + PageSize))
    BY <1>5, <1>7
  <2>2. start \in Nat /\ n \in Nat
    BY <1>4
  <2> HIDE DEF start, n
  <2> QED BY <2>1, <2>2
<1>9. Fetched(d, start) \cup Range(page) = Fetched(d, stop)
  BY <1>5, <1>7
<1>10. LastPage(page, n) => stop = n
  <2>1. Len(page) < PageSize => stop = n
    <3> HIDE DEF start, n
    <3> QED BY <1>4, <1>8
  <2>2. start + Len(page) >= n => stop = n
    <3> HIDE DEF start, n
    <3> QED BY <1>4, <1>8
  <2>3. pages[Libre] >= MaxPages => stop = n
    <3> DEFINE a == pages[Libre]
    <3>1. a \in Nat /\ start = a * PageSize
      BY <1>4
    <3> HIDE DEF a, start, n
    <3>2. a >= MaxPages => a - MaxPages \in Nat /\ a = MaxPages + (a - MaxPages)
      BY <1>4, <3>1
    <3>3. \A k \in Nat : (MaxPages + k) * PageSize >= MaxPages * PageSize
      <4>1. \A k \in Nat : (MaxPages + k) * PageSize = MaxPages * PageSize + k * PageSize
        BY <1>4
      <4>2. \A k \in Nat : k * PageSize \in Nat
        BY <1>4
      <4> QED BY <1>4, <4>1, <4>2
    <3>4. a >= MaxPages => start >= n
      BY <1>4, <3>1, <3>2, <3>3
    <3> QED BY <1>4, <1>8, <3>4 DEF a
  <2> QED BY <2>1, <2>2, <2>3 DEF LastPage
<1>11. ~ LastPage(page, n) =>
         /\ stop = (pages[Libre] + 1) * PageSize
         /\ pages[Libre] <= MaxPages
  <2>1. SUFFICES ASSUME ~ LastPage(page, n)
                 PROVE  /\ stop = (pages[Libre] + 1) * PageSize
                        /\ pages[Libre] <= MaxPages
    OBVIOUS
  <2>2. ~ Len(page) < PageSize /\ ~ pages[Libre] >= MaxPages
    BY <2>1 DEF LastPage
  <2>3. stop = start + PageSize
    <3> HIDE DEF start, n
    <3> QED BY <1>4, <1>8, <2>2
  <2>4. (pages[Libre] + 1) * PageSize = pages[Libre] * PageSize + PageSize
    BY <1>4
  <2> QED BY <1>4, <2>2, <2>3, <2>4
<1>12. CASE /\ LastPage(page, n)
            /\ NextDevice
            /\ total' = [total EXCEPT ![Libre] = @ + n]
            /\ seen' = [seen EXCEPT ![Libre] = @ \cup batch \cup Normalised(Range(page))]
  <2>1. stop = n
    BY <1>10, <1>12
  <2> QED BY <1>0, <1>2, <1>8, <1>9, <1>12, <2>1
<1>13. CASE /\ ~ LastPage(page, n)
            /\ batch' = batch \cup Normalised(Range(page))
            /\ offset' = [offset EXCEPT ![Libre] = @ + Len(page)]
            /\ pages' = [pages EXCEPT ![Libre] = IF @ <= MaxPages THEN @ + 1 ELSE @]
            /\ UNCHANGED <<devices, total, seen>>
  <2>1. offset' = [offset EXCEPT ![Libre] = stop]
    BY <1>0, <1>8, <1>13 DEF Tables
  <2>2. pages' = [pages EXCEPT ![Libre] = @ + 1]
    BY <1>0, <1>11, <1>13
  <2> QED BY <1>0, <1>2, <1>8, <1>9, <1>11, <1>13, <2>1, <2>2
<1> QED BY <1>6, <1>12, <1>13

LEMMA LibrePageSmooth ==
    ASSUME Logs, Tables, Calm, pages \in [Sources -> Nat], Serene(Libre), Steady(Libre),
           LibrePage
    PROVE  Steady(Libre)'
<1>0. /\ Libre \in Sources /\ Pihole # Libre /\ pc[Libre] = "page" /\ devices # <<>>
      /\ Answers(Libre) /\ log = world.logs /\ world.filters
  <2>1. pc[Libre] = "page" /\ devices # <<>>
    BY Zenon DEF LibrePage, At
  <2> QED BY <2>1 DEF Sources, Pihole, Libre, Serene, Undisturbed, Answers
<1>1. /\ Feeds(Libre) \subseteq DOMAIN DeviceIp /\ devices \in Seq(DOMAIN DeviceIp)
      /\ Range(devices) \subseteq Feeds(Libre)
      /\ \A i, j \in DOMAIN devices : devices[i] = devices[j] => i = j
      /\ IsFiniteSet(Pulled) /\ total[Libre] = Cardinality(Pulled)
      /\ seen[Libre] = Normalised(Pulled)
      /\ batch = Normalised(Fetched(Head(devices), offset[Libre]))
      /\ Unhurt(Libre) /\ health[Libre] \in {"none", "OK"}
  BY <1>0, ListIsResolved DEF Tables, Steady, LibreSmooth
<1>2. PICK d : d = Head(devices)
  OBVIOUS
<1>3. /\ d \in Feeders /\ Range(devices) = Range(Tail(devices)) \cup {d}
      /\ Tail(devices) \in Seq(DOMAIN DeviceIp)
      /\ \A i, j \in DOMAIN Tail(devices) : Tail(devices)[i] = Tail(devices)[j] => i = j
  <2>1. d \in DOMAIN DeviceIp
    BY <1>0, <1>1, <1>2, TailOfList
  <2> QED BY <1>0, <1>1, <1>2, <2>1, TailOfList DEF Feeders
<1>4. /\ Feeds(Libre)' = Feeds(Libre) /\ \A e : Feed(e)' = Feed(e)
  BY SereneKeeps
<1>5. PICK stop, news :
        /\ stop \in Nat
        /\ Fetched(d, offset[Libre]) \cup news = Fetched(d, stop)
        /\ \/ /\ stop = Len(Feed(d))
              /\ NextDevice
              /\ total' = [total EXCEPT ![Libre] = @ + Len(Feed(d))]
              /\ seen' = [seen EXCEPT ![Libre] = @ \cup batch \cup Normalised(news)]
           \/ /\ stop <= Len(Feed(d))
              /\ stop = (pages[Libre] + 1) * PageSize
              /\ batch' = batch \cup Normalised(news)
              /\ offset' = [offset EXCEPT ![Libre] = stop]
              /\ pages' = [pages EXCEPT ![Libre] = @ + 1]
              /\ UNCHANGED <<devices, total, seen>>
        /\ UNCHANGED <<pc, result, health>>
  BY <1>2, LibrePageServed
<1>6. batch \cup Normalised(news) = Normalised(Fetched(d, stop))
  BY <1>1, <1>2, <1>5 DEF Normalised
<1>7. Unhurt(Libre)'
  BY <1>1, <1>5 DEF Unhurt, Begun, Clamped
<1>8. Len(Feed(d)) \in Nat
  BY <1>3, FeedIsCounted
<1>9. CASE /\ stop = Len(Feed(d))
           /\ NextDevice
           /\ total' = [total EXCEPT ![Libre] = @ + Len(Feed(d))]
           /\ seen' = [seen EXCEPT ![Libre] = @ \cup batch \cup Normalised(news)]
  <2>1. /\ devices' = Tail(devices) /\ offset'[Libre] = 0 /\ pages'[Libre] = 0 /\ batch' = {}
    BY <1>0, <1>9 DEF NextDevice, Tables
  <2>2. /\ total'[Libre] = total[Libre] + Len(Feed(d))
        /\ seen'[Libre] = seen[Libre] \cup batch \cup Normalised(news)
    BY <1>0, <1>9 DEF Tables
  <2>3. PICK G : G = UNION {Range(Feed(e)) : e \in Feeds(Libre) \ Range(Tail(devices))}
    OBVIOUS
  <2>4. /\ G = Pulled \cup Range(Feed(d)) /\ IsFiniteSet(G)
        /\ Cardinality(G) = Cardinality(Pulled) + Len(Feed(d))
    BY <1>0, <1>1, <1>2, <2>3, PulledGrows
  <2>5. Pulled' = G
    BY <1>4, <2>1, <2>3 DEF Pulled
  <2>6. total'[Libre] = Cardinality(Pulled') /\ IsFiniteSet(Pulled')
    BY <1>1, <2>2, <2>4, <2>5
  <2>7. seen'[Libre] = Normalised(Pulled')
    <3>1. Fetched(d, stop) = Range(Feed(d))
      BY <1>3, <1>9, FetchedAll
    <3>2. seen'[Libre] = Normalised(Pulled) \cup Normalised(Range(Feed(d)))
      BY <1>1, <1>6, <2>2, <3>1
    <3> QED BY <2>4, <2>5, <3>2 DEF Normalised
  <2>8. ASSUME devices' # <<>>
        PROVE  /\ 0 \in 0..Len(Feed(Head(devices)))'
               /\ Normalised(Fetched(Head(devices), offset[Libre]))' = {}
    <3>1. PICK e : e = Head(Tail(devices))
      OBVIOUS
    <3>2. e \in Feeders
      BY <1>3, <2>1, <2>8, <3>1, TailOfList DEF Feeders
    <3>3. Feed(Head(devices))' = Feed(e)
      <4>1. Feed(Head(devices))' = Feed(e)'
        BY <2>1, <3>1
      <4> QED BY <1>4, <4>1
    <3>4. Fetched(Head(devices), offset[Libre])' = Fetched(e, 0)
      BY <2>1, <3>3 DEF Fetched
    <3>5. Len(Feed(e)) \in Nat /\ Fetched(e, 0) = {}
      BY <3>2, FeedIsCounted, FetchedAll
    <3> QED BY <3>3, <3>4, <3>5 DEF Normalised
  <2>9. /\ Range(devices') \subseteq Feeds(Libre)'
        /\ \A i, j \in DOMAIN devices' : devices'[i] = devices'[j] => i = j
    BY <1>1, <1>3, <1>4, <2>1
  <2>10. 0 = 0 * PageSize
    BY WindowAssumption
  <2>11. Normalised(Pulled)' = Normalised(Pulled')
    BY DEF Normalised
  <2>12. LibreSmooth'
    BY <1>0, <1>5, <1>7, <2>1, <2>6, <2>7, <2>8, <2>9, <2>10, <2>11 DEF LibreSmooth
  <2> QED BY <1>0, <1>1, <1>5, <2>12 DEF Steady
<1>10. CASE /\ stop <= Len(Feed(d))
            /\ stop = (pages[Libre] + 1) * PageSize
            /\ batch' = batch \cup Normalised(news)
            /\ offset' = [offset EXCEPT ![Libre] = stop]
            /\ pages' = [pages EXCEPT ![Libre] = @ + 1]
            /\ UNCHANGED <<devices, total, seen>>
  <2>1. offset'[Libre] = stop /\ pages'[Libre] = pages[Libre] + 1
    BY <1>0, <1>10 DEF Tables
  <2>2. Pulled' = Pulled
    BY <1>4, <1>10 DEF Pulled
  <2>3. Feed(Head(devices))' = Feed(d)
    <3>1. Feed(Head(devices))' = Feed(d)'
      BY <1>2, <1>10
    <3> QED BY <1>4, <3>1
  <2>4. Fetched(Head(devices), offset[Libre])' = Fetched(d, stop)
    BY <2>1, <2>3 DEF Fetched
  <2>5. /\ stop \in 0..Len(Feed(Head(devices)))'
        /\ batch' = Normalised(Fetched(Head(devices), offset[Libre]))'
    <3>1. Normalised(Fetched(Head(devices), offset[Libre]))' = Normalised(Fetched(d, stop))
      BY <2>4 DEF Normalised
    <3> QED BY <1>5, <1>6, <1>8, <1>10, <2>3, <3>1
  <2>6. Normalised(Pulled)' = Normalised(Pulled)
    BY <2>2 DEF Normalised
  <2>7. LibreSmooth'
    BY <1>0, <1>1, <1>4, <1>5, <1>7, <1>10, <2>1, <2>2, <2>5, <2>6 DEF LibreSmooth
  <2> QED BY <1>0, <1>1, <1>5, <2>7 DEF Steady
<1> QED BY <1>5, <1>9, <1>10

LEMMA LibrePullSmooth ==
    ASSUME Logs, Tables, Calm, pages \in [Sources -> Nat], Serene(Libre), Steady(Libre),
           LibrePull
    PROVE  Steady(Libre)'
<1>0. /\ Libre \in Sources /\ Pihole # Libre /\ Answers(Libre) /\ log = world.logs
      /\ world.filters
  BY DEF Sources, Pihole, Libre, Serene, Answers, Undisturbed
<1>1. CASE LibreManaged
  <2>1. /\ pc[Libre] = "managed" /\ pc' = [pc EXCEPT ![Libre] = "page"]
        /\ UNCHANGED <<devices, offset, pages, total, batch, seen, result, health>>
    BY <1>1 DEF LibreManaged, At, Goto, pull, verdict
  <2>2. pc'[Libre] = "page"
    BY <1>0, <2>1 DEF Tables
  <2>3. /\ Feeds(Libre)' = Feeds(Libre) /\ Pulled' = Pulled
        /\ Feed(Head(devices))' = Feed(Head(devices))
        /\ Fetched(Head(devices), offset[Libre])' = Fetched(Head(devices), offset[Libre])
    BY <2>1, SereneKeeps DEF Pulled, Serene, Feed, Filtered, Begin, Fetched
  <2>4. /\ Normalised(Pulled)' = Normalised(Pulled)
        /\ Normalised(Fetched(Head(devices), offset[Libre]))'
             = Normalised(Fetched(Head(devices), offset[Libre]))
    BY <2>3 DEF Normalised
  <2>5. Unhurt(Libre)' <=> Unhurt(Libre)
    BY <2>1 DEF Unhurt, Begun, Clamped
  <2>6. LibreSmooth'
    BY <1>0, <2>1, <2>2, <2>3, <2>4, <2>5 DEF Steady, LibreSmooth
  <2> QED BY <1>0, <2>1, <2>2, <2>6 DEF Steady
<1>2. CASE LibreCombine
  <2>1. /\ pc[Libre] = "page" /\ devices = <<>> /\ health' = health
        /\ result' = [result EXCEPT ![Libre].events = seen[Libre], ![Libre].reported = total[Libre]]
        /\ pc' = [pc EXCEPT ![Libre] = "leases"]
    BY <1>2, Zenon DEF LibreCombine, At, Goto, verdict
  <2>2. Range(<<>>) = {}
    BY DEF Range
  <2>3. Pulled = Asked(Libre)
    <3>1. Pulled = UNION {Range(Feed(e)) : e \in Feeds(Libre)}
      BY <2>1, <2>2 DEF Pulled
    <3>2. \A e \in Feeds(Libre) : e \in Feeders
      BY <1>0, ListIsResolved DEF Feeders
    <3>3. \A e \in Feeds(Libre) :
            Range(Feed(e)) = {r \in Range(world.logs[e]) : InWindow(r, 0)}
      <4>1. \A e \in Feeds(Libre) : Begin(e) = 0
        BY <1>0, ListIsResolved, LibreBegins
      <4> QED BY <1>0, <3>2, <4>1, FeedIsWhole
    <3> QED BY <3>1, <3>3 DEF Asked
  <2>4. /\ seen[Libre] = Held(Libre) /\ total[Libre] = Cardinality(Asked(Libre))
        /\ IsFiniteSet(Asked(Libre)) /\ Unhurt(Libre) /\ health[Libre] \in {"none", "OK"}
    BY <1>0, <2>1, <2>3 DEF Steady, LibreSmooth, Held
  <2>5. /\ pc'[Libre] = "leases" /\ result'[Libre].events = seen[Libre]
        /\ result'[Libre].reported = total[Libre]
        /\ result'[Libre].complete = result[Libre].complete
        /\ result'[Libre].errors = result[Libre].errors
        /\ result'[Libre].from = result[Libre].from
    <3> DEFINE x == [result EXCEPT ![Libre].events = seen[Libre]]
    <3>1. /\ x = [s \in Sources |-> [f \in Entries |-> x[s][f]]]
          /\ x[Libre].events = seen[Libre]
          /\ \A f \in Entries \ {"events"} : x[Libre][f] = result[Libre][f]
      <4> DEFINE y == [result[Libre] EXCEPT !.events = seen[Libre]]
      <4>1. result[Libre] = [f \in Entries |-> result[Libre][f]]
        BY <1>0 DEF Tables
      <4>2. /\ y = [f \in Entries |-> y[f]] /\ y.events = seen[Libre]
            /\ \A f \in Entries \ {"events"} : y[f] = result[Libre][f]
        BY <4>1 DEF Entries
      <4>3. x = [result EXCEPT ![Libre] = y]
        OBVIOUS
      <4> HIDE DEF x, y
      <4>4. x[Libre] = y /\ \A s \in Sources \ {Libre} : x[s] = result[s]
        BY <1>0, <4>3 DEF Tables
      <4>5. x = [s \in Sources |-> x[s]]
        BY <4>3 DEF Tables
      <4>6. \A s \in Sources : x[s] = [f \in Entries |-> x[s][f]]
        BY <4>2, <4>4 DEF Tables
      <4> QED BY <4>2, <4>4, <4>5, <4>6
    <3>2. result' = [x EXCEPT ![Libre].reported = total[Libre]]
      BY <2>1
    <3> HIDE DEF x
    <3>3. pc'[Libre] = "leases"
      BY <1>0, <2>1 DEF Tables
    <3>4. /\ result'[Libre] = [x[Libre] EXCEPT !.reported = total[Libre]]
          /\ x[Libre] = [f \in Entries |-> x[Libre][f]]
      BY <1>0, <3>1, <3>2
    <3>5. \A f \in Entries \ {"reported"} : result'[Libre][f] = x[Libre][f]
      BY <3>4
    <3>6. result'[Libre].reported = total[Libre]
      BY <3>4 DEF Entries
    <3> QED BY <3>1, <3>3, <3>5, <3>6 DEF Entries
  <2>6. Held(Libre)' = Held(Libre) /\ Asked(Libre)' = Asked(Libre)
    BY SereneKeeps
  <2>7. LibreSmooth' /\ Unhurt(Libre)'
    BY <2>4, <2>5 DEF LibreSmooth, Unhurt, Begun, Clamped
  <2> QED BY <1>0, <2>1, <2>4, <2>5, <2>6, <2>7 DEF Steady
<1>3. CASE LibreReturn
  <2>1. /\ pc[Libre] = "leases" /\ pc' = [pc EXCEPT ![Libre] = "pulled"]
        /\ UNCHANGED <<result, health>>
    BY <1>3 DEF LibreReturn, At, Goto, verdict
  <2>2. pc'[Libre] = "pulled"
    BY <1>0, <2>1 DEF Tables
  <2>3. Held(Libre)' = Held(Libre) /\ Asked(Libre)' = Asked(Libre)
    BY SereneKeeps
  <2> QED BY <1>0, <2>1, <2>2, <2>3 DEF Steady, LibreSmooth, Unhurt, Begun, Clamped
<1>4. ~ LibrePageFails
  BY <1>0 DEF LibrePageFails
<1> QED BY <1>1, <1>2, <1>3, <1>4, LibreDevicesSmooth, LibrePageSmooth DEF LibrePull

-----------------------------------------------------------------------------
(* The verdict on a pull that nothing disturbed *)

\* One pull leaves the other's place in its pages alone.
LEMMA PlacesAreApart ==
    ASSUME Tables, pages \in [Sources -> Nat]
    PROVE  /\ PiholePull => /\ pages' \in [Sources -> Nat]
                            /\ offset'[Libre] = offset[Libre] /\ pages'[Libre] = pages[Libre]
           /\ LibrePull => /\ pages' \in [Sources -> Nat]
                           /\ offset'[Pihole] = offset[Pihole] /\ pages'[Pihole] = pages[Pihole]
<1>0. Pihole \in Sources /\ Libre \in Sources /\ Pihole # Libre
  BY DEF Sources, Pihole, Libre
<1>1. ASSUME PiholePull
      PROVE  /\ pages' \in [Sources -> Nat]
             /\ offset'[Libre] = offset[Libre] /\ pages'[Libre] = pages[Libre]
  <2>1. CASE PiholePage
    <3>1. /\ pages' = [pages EXCEPT ![Pihole] = @ + 1]
          /\ \/ offset' = offset
             \/ \E m : offset' = [offset EXCEPT ![Pihole] = m]
      BY <2>1, Zenon DEF PiholePage
    <3>2. offset'[Libre] = offset[Libre]
      BY <1>0, <3>1 DEF Tables
    <3> QED BY <1>0, <3>1, <3>2
  <2>2. ASSUME ~ PiholePage PROVE UNCHANGED <<offset, pages>>
    BY <1>1, <2>2 DEF PiholePull, PiholeAuthenticate, PiholeCount, PiholePageFails, PiholeDone,
                      PiholeReturn, pull
  <2> QED BY <2>1, <2>2
<1>2. ASSUME LibrePull
      PROVE  /\ pages' \in [Sources -> Nat]
             /\ offset'[Pihole] = offset[Pihole] /\ pages'[Pihole] = pages[Pihole]
  <2>1. CASE NextDevice
    BY <1>0, <2>1 DEF NextDevice, Tables
  <2>2. CASE LibrePage
    <3>1. \/ NextDevice
          \/ /\ pages' = [pages EXCEPT ![Libre] = IF @ <= MaxPages THEN @ + 1 ELSE @]
             /\ \E m : offset' = [offset EXCEPT ![Libre] = m]
      BY <2>2, Zenon DEF LibrePage
    <3>2. CASE /\ pages' = [pages EXCEPT ![Libre] = IF @ <= MaxPages THEN @ + 1 ELSE @]
               /\ \E m : offset' = [offset EXCEPT ![Libre] = m]
      <4>1. offset'[Pihole] = offset[Pihole]
        BY <1>0, <3>2 DEF Tables
      <4>2. PICK k : /\ k = IF pages[Libre] <= MaxPages THEN pages[Libre] + 1 ELSE pages[Libre]
                     /\ pages' = [pages EXCEPT ![Libre] = k]
        BY <3>2
      <4>3. k \in Nat
        BY <1>0, <4>2
      <4> QED BY <1>0, <4>1, <4>2, <4>3
    <3> QED BY <2>1, <3>1, <3>2
  <2>3. ASSUME ~ LibrePage PROVE NextDevice \/ UNCHANGED <<offset, pages>>
    BY <1>2, <2>3 DEF LibrePull, LibreDevices, LibreManaged, LibrePageFails, LibreCombine,
                      LibreReturn, pull
  <2> QED BY <2>1, <2>2, <2>3
<1> QED BY <1>1, <1>2

\* Induction over the subsets of a finite set.
LEMMA SetInduction ==
    ASSUME NEW S, IsFiniteSet(S), NEW P, {} \in P,
           \A T \in SUBSET S : \A x \in S \ T : T \in P => T \cup {x} \in P
    PROVE  S \in P
<1> DEFINE N == {n \in Nat : \A T \in SUBSET S : Cardinality(T) = n => T \in P}
<1>1. \A T \in SUBSET S : IsFiniteSet(T) /\ Cardinality(T) \in Nat
  BY FS_Subset, FS_CardinalityType
<1>2. 0 \in N
  BY <1>1, FS_EmptySet
<1>3. ASSUME NEW n \in Nat, n \in N PROVE n + 1 \in N
  <2> SUFFICES ASSUME NEW T \in SUBSET S, Cardinality(T) = n + 1 PROVE T \in P
    OBVIOUS
  <2>1. PICK x \in T : TRUE
    BY <1>1, FS_EmptySet
  <2>2. Cardinality(T \ {x}) = n
    <3>1. IsFiniteSet(T)
      BY <1>1
    <3>2. Cardinality(T \ {x}) = Cardinality(T) - 1
      BY <2>1, <3>1, FS_RemoveElement
    <3> QED BY <3>2
  <2>3. T \ {x} \in P
    BY <1>3, <2>2
  <2>4. (T \ {x}) \cup {x} = T
    OBVIOUS
  <2> QED BY <2>3, <2>4
<1> HIDE DEF N
<1>4. Nat \subseteq N
  BY <1>2, <1>3, NatSets
<1> QED BY <1>1, <1>4 DEF N

\* Records that were asked for have a time each, and a span.
LEMMA SpanIsInt ==
    ASSUME Logs, NEW s \in Sources, IsFiniteSet(Asked(s)), Held(s) # {}
    PROVE  Span(Held(s)) \in Int
<1> DEFINE E == Held(s)
           P == {T \in SUBSET E : T = {} \/ /\ \E x \in T : \A y \in T : x.t <= y.t
                                            /\ \E x \in T : \A y \in T : x.t >= y.t}
<1>1. IsFiniteSet(E)
  BY FS_Subset DEF Held, Normalised
<1>2. \A r \in E : r.t \in Int
  <2>1. world \in Instances /\ \A d \in Feeds(s) : d \in DOMAIN world.logs
    <3>1. /\ world.logs = [d \in {Pihole} \cup DOMAIN DeviceIp |-> world.logs[d]]
          /\ Range(world.managed) = DOMAIN DeviceIp
          /\ world.explicit \in Seq(DOMAIN DeviceIp) /\ world \in Instances
      BY InstancesAssumption, Zenon DEF Logs
    <3>2. Range(world.explicit) \subseteq DOMAIN DeviceIp
      BY <3>1 DEF Range
    <3> QED BY <3>1, <3>2 DEF Feeds
  <2>2. \A d \in DOMAIN world.logs : \A r \in Range(world.logs[d]) : r.t \in Int
    BY <2>1, InstancesAssumption, Zenon
  <2> QED BY <2>1, <2>2 DEF Held, Asked, Normalised
<1> HIDE DEF E
<1>3. {} \in P
  OBVIOUS
<1>4. ASSUME NEW T \in SUBSET E, NEW x \in E \ T, T \in P PROVE T \cup {x} \in P
  <2>1. CASE T = {}
    BY <1>2, <2>1
  <2>2. CASE T # {}
    <3>1. PICK m \in T : \A y \in T : m.t <= y.t
      BY <1>4, <2>2
    <3>2. PICK n \in T : \A y \in T : n.t >= y.t
      BY <1>4, <2>2
    <3>3. \E z \in T \cup {x} : \A y \in T \cup {x} : z.t <= y.t
      <4>1. x.t <= m.t \/ m.t <= x.t
        BY <1>2
      <4> QED BY <1>2, <3>1, <4>1
    <3>4. \E z \in T \cup {x} : \A y \in T \cup {x} : z.t >= y.t
      <4>1. x.t >= n.t \/ n.t >= x.t
        BY <1>2
      <4> QED BY <1>2, <3>2, <4>1
    <3> QED BY <3>3, <3>4
  <2> QED BY <2>1, <2>2
<1> HIDE DEF P
<1>5. E \in P
  BY <1>1, <1>3, <1>4, SetInduction
<1> DEFINE times == {r.t : r \in E}
<1>6. (\E x \in E : \A y \in E : x.t <= y.t) /\ (\E x \in E : \A y \in E : x.t >= y.t)
  BY <1>5 DEF P, E
<1>7. (\E x \in times : \A y \in times : x <= y) /\ (\E x \in times : \A y \in times : x >= y)
  BY <1>6
<1> HIDE DEF times
<1>8. Min(times) \in times /\ Max(times) \in times
  BY <1>7, Zenon DEF Min, Max
<1>9. times \subseteq Int
  BY <1>2 DEF times
<1>10. PICK a \in Int, b \in Int : a = Max(times) /\ b = Min(times)
  BY <1>8, <1>9
<1>11. Span(E) = a - b
  BY <1>10 DEF Span, times
<1> QED BY <1>11 DEF E

\* The gates let a whole window pass.
LEMMA VerifySmooth ==
    ASSUME Logs, Tables, NEW s \in Sources, Serene(s), Steady(s), Verify(s)
    PROVE  Steady(s)'
<1>1. pc[s] # "probe" /\ health[s] \in {"none", "OK"}
  BY DEF Steady
<1>2. pc[s] = "pulled"
  BY <1>1 DEF Verify, Classify, Suspect, Probe, Conclude, At
<1>3. /\ result[s].events = Held(s) /\ result[s].reported = Cardinality(Asked(s))
      /\ IsFiniteSet(Asked(s)) /\ result[s].complete /\ ~ result[s].errors
      /\ Begun(s)
  BY <1>2 DEF Steady, Unhurt
<1>4. /\ Held(s) # {} /\ ~ 100 * Span(Held(s)) < 85 * Length
      /\ 50 * Cardinality(Asked(s) \ Held(s)) <= Cardinality(Asked(s))
  BY DEF Serene, Filled
<1>5. Classify(s)
  BY <1>1, <1>2, <1>3, <1>4 DEF Verify, Suspect, Probe, Conclude, At
<1>6. ~ 50 * (result[s].reported - Cardinality(result[s].events)) > result[s].reported
  <2> DEFINE A == Asked(s)
             H == Held(s)
  <2>1. IsFiniteSet(A) /\ H \subseteq A /\ 50 * Cardinality(A \ H) <= Cardinality(A)
    BY <1>3, <1>4 DEF Held, Normalised
  <2>2. result[s].reported = Cardinality(A) /\ result[s].events = H
    BY <1>3
  <2> HIDE DEF A, H
  <2>3. /\ Cardinality(A \ H) = Cardinality(A) - Cardinality(A \cap H) /\ A \cap H = H
        /\ IsFiniteSet(A \ H) /\ IsFiniteSet(H)
    BY <2>1, FS_Difference, FS_Subset
  <2>4. /\ Cardinality(A) \in Nat /\ Cardinality(H) \in Nat /\ Cardinality(A \ H) \in Nat
    BY <2>1, <2>3, FS_CardinalityType
  <2>5. PICK a \in Nat, h \in Nat, m \in Nat :
            a = Cardinality(A) /\ h = Cardinality(H) /\ m = Cardinality(A \ H)
    BY <2>4
  <2>6. m = a - h /\ 50 * m <= a
    BY <2>1, <2>3, <2>5
  <2>7. ~ 50 * (a - h) > a
    BY <2>6
  <2> QED BY <2>2, <2>5, <2>7
<1>7. ~ Problem(result[s]) /\ ~ Clamped(result[s])
  <2>1. Length \in Nat /\ result[s].from \in Nat
    BY <1>3, WindowAssumption DEF Begun
  <2>2. Span(result[s].events) \in Int
    BY <1>3, <1>4, SpanIsInt
  <2>3. ~ 100 * Span(result[s].events) < 85 * (Length - result[s].from)
    BY <1>3, <1>4, <2>1, <2>2
  <2>4. ~ Clamped(result[s])
    BY <1>3 DEF Begun
  <2> QED BY <1>3, <1>6, <2>3, <2>4 DEF Problem
<1>8. /\ health' = [health EXCEPT ![s] = "OK"] /\ pc' = [pc EXCEPT ![s] = "judged"]
      /\ UNCHANGED result
  BY <1>3, <1>5, <1>7 DEF Classify, Goto
<1>9. health'[s] = "OK" /\ pc'[s] = "judged"
  BY <1>8 DEF Tables
<1>10. Held(s)' = Held(s) /\ Asked(s)' = Asked(s)
  BY SereneKeeps
<1>11. Unhurt(s)' /\ (PiholeSmooth' \/ s # Pihole)
  BY <1>3, <1>8, <1>9 DEF Unhurt, Begun, Clamped, PiholeSmooth
<1>12. Unhurt(s)' /\ (LibreSmooth' \/ s # Libre)
  BY <1>3, <1>8, <1>9 DEF Unhurt, Begun, Clamped, LibreSmooth
<1> QED BY <1>3, <1>8, <1>9, <1>10, <1>11, <1>12 DEF Steady

LEMMA SmoothlyStep == Accounts /\ Smoothly /\ [Next]_vars => Smoothly'
<1> SUFFICES ASSUME Accounts, Smoothly, [Next]_vars PROVE Smoothly'
  OBVIOUS
<1>0. /\ Logs /\ Tables /\ (\A s \in Sources : Books(s))
      /\ Calm /\ pages \in [Sources -> Nat]
      /\ Sources = {Pihole, Libre} /\ Pihole # Libre
  BY DEF Accounts, Smoothly, Sources, Pihole, Libre
<1>1. Calm'
  BY <1>0, CalmStep
<1>2. CASE PiholePull
  <2>1. ASSUME NEW s \in Sources, Undisturbed(s)', Filled(s)' PROVE Steady(s)'
    <3>1. Serene(s) /\ Steady(s)
      <4>1. Serene(s)
        BY <1>0, <2>1, StaysSerene
      <4> QED BY <4>1 DEF Serene, Smoothly
    <3>2. CASE s = Pihole
      BY <1>0, <1>2, <3>1, <3>2, PiholePullSmooth
    <3>3. CASE s = Libre
      BY <1>0, <1>2, <3>1, <3>3, PiholeTouches, PlacesAreApart, QuietSteady
    <3> QED BY <1>0, <3>2, <3>3
  <2> QED BY <1>0, <1>1, <1>2, <2>1, PlacesAreApart DEF Smoothly
<1>3. CASE LibrePull
  <2>1. ASSUME NEW s \in Sources, Undisturbed(s)', Filled(s)' PROVE Steady(s)'
    <3>1. Serene(s) /\ Steady(s)
      <4>1. Serene(s)
        BY <1>0, <2>1, StaysSerene
      <4> QED BY <4>1 DEF Serene, Smoothly
    <3>2. CASE s = Libre
      BY <1>0, <1>3, <3>1, <3>2, LibrePullSmooth
    <3>3. CASE s = Pihole
      BY <1>0, <1>3, <3>1, <3>3, LibreTouches, PlacesAreApart, QuietSteady
    <3> QED BY <1>0, <3>2, <3>3
  <2> QED BY <1>0, <1>1, <1>3, <2>1, PlacesAreApart DEF Smoothly
<1>4. ASSUME NEW t \in Sources, Verify(t) PROVE Smoothly'
  <2>1. UNCHANGED <<offset, pages>>
    BY <1>4 DEF Verify, Classify, Suspect, Probe, Conclude, pull
  <2>2. ASSUME NEW s \in Sources, Undisturbed(s)', Filled(s)' PROVE Steady(s)'
    <3>1. Serene(s) /\ Steady(s)
      <4>1. Serene(s)
        BY <1>0, <2>2, StaysSerene
      <4> QED BY <4>1 DEF Serene, Smoothly
    <3>2. CASE s = t
      BY <1>0, <1>4, <3>1, <3>2, VerifySmooth
    <3>3. CASE s # t
      BY <1>0, <1>4, <2>1, <3>1, <3>3, VerifyTouches, QuietSteady
    <3> QED BY <3>2, <3>3
  <2> QED BY <1>0, <1>1, <2>1, <2>2 DEF Smoothly
<1>5. CASE \/ \E s \in Sources : Learning(s)
           \/ Services
           \/ UNCHANGED vars
  <2>1. UNCHANGED <<pc, health, offset, pages, total, seen, devices, batch, result>>
    <3>1. CASE \E s \in Sources : Learning(s)
      BY <3>1 DEF Learning, pull, verdict
    <3>2. CASE Services
      BY <3>2 DEF Services, Outage, Recover, Expire, Arrive, pull, verdict
    <3>3. CASE UNCHANGED vars
      BY <3>3 DEF vars, pull, verdict
    <3> QED BY <1>5, <3>1, <3>2, <3>3
  <2>2. ASSUME NEW s \in Sources, Undisturbed(s)', Filled(s)' PROVE Steady(s)'
    <3>1. Serene(s) /\ Steady(s)
      <4>1. Serene(s)
        BY <1>0, <2>2, StaysSerene
      <4> QED BY <4>1 DEF Serene, Smoothly
    <3>2. Quiet(s)
      BY <2>1 DEF Quiet
    <3> QED BY <2>1, <3>1, <3>2, QuietSteady
  <2> QED BY <1>0, <1>1, <2>1, <2>2 DEF Smoothly
<1> QED BY <1>2, <1>3, <1>4, <1>5 DEF Next

\* As long as nothing disturbs a source, its pull goes on where it stopped, counts
\* every feed once, and comes back with what was asked for.
THEOREM SmoothInvariant == Spec => [](Accounts /\ Smoothly)
BY AccountsInit, AccountsStep, SmoothlyInit, SmoothlyStep, PTL DEF Spec

\* The gates raise no false alarm: a pull that nothing disturbed, of a window that
\* is filled, is OK, wherever its page boundaries are.
THEOREM NoFalseAlarm == Spec => []UndisturbedIsOk
<1>1. Smoothly => UndisturbedIsOk
  BY DEF Smoothly, Steady, UndisturbedIsOk
<1> QED BY <1>1, SmoothInvariant, PTL
=============================================================================
