---------------------------- MODULE HistoryProofs ----------------------------
(***************************************************************************)
(* Any number of processes, runs, crashes and clashes over one database    *)
(* and one output directory.  The entities table counts no more than       *)
(* committed runs saw and forgets nothing; a report announces what its run *)
(* recorded first and nothing older than the grace; the clean-up of an     *)
(* ephemeral run takes its own latest files and no others.                 *)
(***************************************************************************)
EXTENDS History, FiniteSetTheorems, TLAPS

-----------------------------------------------------------------------------
(* What one batch mentions *)

LEMMA OccursIsNat ==
    ASSUME NEW b, IsFiniteSet(b), NEW e
    PROVE  Occurs(b, e) \in Nat /\ (Occurs(b, e) > 0 <=> e \in Mentions(b))
<1> DEFINE seen == {ev \in b : e \in Mentioned(ev)}
<1>1. IsFiniteSet(seen)
  BY FS_Subset
<1>2. Cardinality(seen) \in Nat /\ (Cardinality(seen) = 0 <=> seen = {})
  BY <1>1, FS_CardinalityType, FS_EmptySet
<1>3. e \in Mentions(b) <=> seen # {}
  BY DEF Mentions
<1>4. Occurs(b, e) = Cardinality(seen)
  BY DEF Occurs
<1> HIDE DEF seen
<1> QED BY <1>2, <1>3, <1>4

LEMMA MentionsEntities == \A b : Mentions(b) \subseteq Entity
BY DEF Mentions, Mentioned

-----------------------------------------------------------------------------
(* The invariant *)

Shape ==
    /\ entities = [e \in Entity |-> entities[e]]
    /\ \A e \in Entity : entities[e] = [first |-> entities[e].first, count |-> entities[e].count]
    /\ \A e \in Entity : entities[e].count \in Int
    /\ sightings \in [Entity -> Nat]
    /\ existing = [p \in Processes |-> existing[p]]
    /\ pc = [p \in Processes |-> pc[p]]
    /\ batch = [p \in Processes |-> batch[p]]
    /\ clock \in Nat
    /\ started \in [Processes -> Nat]
    /\ begun \in [Processes -> Nat]
    /\ \A p \in Processes : pc[p] = "idle" \/ begun[p] \in 1..MaxRuns[p]

\* What a process read of the table before its write is still backed when it
\* writes: the rows are there, with no more than what committed runs saw.
ReadIsBacked(p) ==
    pc[p] = "write" =>
        /\ IsFiniteSet(batch[p])
        /\ DOMAIN existing[p] \subseteq Mentions(batch[p])
        /\ \A e \in DOMAIN existing[p] :
            /\ Known(e)
            /\ existing[p][e] \in Int
            /\ existing[p][e] <= sightings[e]

Inv ==
    /\ Shape
    /\ \A p \in Processes : ReadIsBacked(p)
    /\ CountsAreBacked

LEMMA InvInit == Init => Inv
<1> SUFFICES ASSUME Init PROVE Inv
  OBVIOUS
<1>1. /\ entities = [e \in Entity |-> NoRow] /\ sightings = [e \in Entity |-> 0]
      /\ existing = [p \in Processes |-> [e \in {} |-> 0]]
      /\ pc = [p \in Processes |-> "idle"] /\ batch = [p \in Processes |-> {}]
      /\ clock = 0 /\ started = [p \in Processes |-> 0] /\ begun = [p \in Processes |-> 0]
  BY DEF Init, TableInit
<1>2. Shape
  BY <1>1 DEF Shape, NoRow, Never
<1>3. \A p \in Processes : ReadIsBacked(p)
  BY <1>1 DEF ReadIsBacked
<1>4. CountsAreBacked
  BY <1>1 DEF CountsAreBacked, Known, NoRow, Never
<1> QED BY <1>2, <1>3, <1>4 DEF Inv

-----------------------------------------------------------------------------
(* Steps that leave the table alone *)

\* A step of p, or of the clock, that neither reads nor writes the table.
Elsewhere(p) ==
    /\ entities' = entities /\ sightings' = sightings
    /\ existing' = existing \/ \E x : existing' = [existing EXCEPT ![p] = x]
    /\ batch' = batch \/ \E x : batch' = [batch EXCEPT ![p] = x]
    /\ \/ pc' = pc /\ batch' = batch /\ existing' = existing
       \/ pc' = pc /\ pc[p] # "write"
       \/ \E to : to # "write" /\ pc' = [pc EXCEPT ![p] = to]
    /\ clock' \in Nat
    /\ \E x \in Nat : started' \in {started, [started EXCEPT ![p] = x]}
    /\ \/ begun' = begun /\ pc[p] # "idle"
       \/ begun' = begun /\ pc' = pc
       \/ begun' = [begun EXCEPT ![p] = @ + 1] /\ begun[p] < MaxRuns[p]

LEMMA ElsewhereStep ==
    ASSUME Inv, NEW p \in Processes, Elsewhere(p)
    PROVE  Inv'
<1>1. /\ entities' = entities /\ sightings' = sightings
      /\ clock' \in Nat /\ started' \in [Processes -> Nat]
      /\ existing' = [q \in Processes |-> existing'[q]]
      /\ batch' = [q \in Processes |-> batch'[q]]
      /\ pc' = [q \in Processes |-> pc'[q]]
  BY DEF Elsewhere, Inv, Shape
<1>2. \A q \in Processes : q # p => /\ existing'[q] = existing[q] /\ batch'[q] = batch[q]
                                    /\ pc'[q] = pc[q]
  BY DEF Elsewhere, Inv, Shape
<1>3. pc'[p] = "write" => /\ existing'[p] = existing[p] /\ batch'[p] = batch[p]
                          /\ pc[p] = "write"
  BY DEF Elsewhere, Inv, Shape
<1>4. /\ begun' \in [Processes -> Nat]
      /\ \A q \in Processes : pc'[q] = "idle" \/ begun'[q] \in 1..MaxRuns[q]
  <2>1. MaxRuns[p] \in Nat /\ begun \in [Processes -> Nat] /\ pc = [q \in Processes |-> pc[q]]
        /\ \A q \in Processes : pc[q] = "idle" \/ begun[q] \in 1..MaxRuns[q]
    BY BatchesAssumption DEF Inv, Shape
  <2>2. CASE begun' = begun /\ pc[p] # "idle"
    BY <1>2, <2>1, <2>2
  <2>3. CASE begun' = begun /\ pc' = pc
    BY <2>1, <2>3
  <2>4. CASE begun' = [begun EXCEPT ![p] = @ + 1] /\ begun[p] < MaxRuns[p]
    <3>1. begun[p] \in Nat /\ begun'[p] = begun[p] + 1
      BY <2>1, <2>4
    <3>2. begun'[p] \in 1..MaxRuns[p]
      BY <2>1, <2>4, <3>1
    <3>3. begun' \in [Processes -> Nat] /\ \A q \in Processes : q # p => begun'[q] = begun[q]
      BY <2>1, <2>4, <3>1
    <3> QED BY <1>2, <2>1, <3>2, <3>3
  <2> QED BY <2>2, <2>3, <2>4 DEF Elsewhere
<1>5. Shape'
  BY <1>1, <1>4 DEF Inv, Shape
<1>6. ASSUME NEW q \in Processes PROVE ReadIsBacked(q)'
  BY <1>1, <1>2, <1>3 DEF Inv, ReadIsBacked, Known
<1>7. CountsAreBacked'
  BY <1>1 DEF Inv, CountsAreBacked, Known
<1> QED BY <1>5, <1>6, <1>7 DEF Inv

\* The end of a run is such a step.
LEMMA CloseIsElsewhere ==
    ASSUME Inv, NEW p \in Processes, NEW measured, Close(p, measured), DropRows(p), pc[p] # "idle"
    PROVE  Elsewhere(p)
<1>1. entities' = entities /\ \E x : existing' = [existing EXCEPT ![p] = x]
  BY DEF DropRows
<1>2. /\ clock' = clock /\ begun' = begun /\ sightings' = sightings
      /\ \E x : batch' = [batch EXCEPT ![p] = x]
      /\ \E to : to # "write" /\ pc' = [pc EXCEPT ![p] = to]
      /\ \E x \in Nat : started' \in {started, [started EXCEPT ![p] = x]}
  BY DEF Close, Over, Forget
<1> QED BY <1>1, <1>2 DEF Elsewhere, Inv, Shape

LEMMA FinishIsElsewhere ==
    ASSUME Inv, NEW p \in Processes, Finish(p)
    PROVE  Elsewhere(p)
<1>1. entities' = entities /\ existing' = existing /\ pc[p] = "deliver"
  BY DEF Finish, tableVars
<1>2. /\ clock' = clock /\ begun' = begun /\ sightings' = sightings
      /\ \E x : batch' = [batch EXCEPT ![p] = x]
      /\ \E to : to # "write" /\ pc' = [pc EXCEPT ![p] = to]
      /\ \E x \in Nat : started' \in {started, [started EXCEPT ![p] = x]}
  BY DEF Finish, Close, Over, Forget
<1> QED BY <1>1, <1>2 DEF Elsewhere, Inv, Shape

LEMMA OthersAreElsewhere ==
    ASSUME Inv, NEW p \in Processes,
           Start(p) \/ Analyse(p) \/ Emit(p) \/ EmitFails(p) \/ CleanRows(p) \/ CleanLatest(p)
    PROVE  Elsewhere(p)
<1>0. clock \in Nat /\ started \in [Processes -> Nat]
  BY DEF Inv, Shape
<1>1. CASE Start(p)
  <2>1. started' = [started EXCEPT ![p] = clock]
    BY <1>1 DEF Start
  <2> QED BY <1>0, <1>1, <2>1 DEF Start, Goto, Elsewhere, tableVars
<1>2. CASE Analyse(p)
  BY <1>0, <1>2 DEF Analyse, Goto, Elsewhere, tableVars
<1>3. CASE Emit(p) \/ EmitFails(p)
  BY <1>0, <1>3 DEF Emit, EmitFails, Forget, Elsewhere, tableVars
<1>4. CASE CleanRows(p)
  BY <1>0, <1>4 DEF CleanRows, Goto, Elsewhere, tableVars
<1>5. CASE CleanLatest(p)
  BY <1>0, <1>5 DEF CleanLatest, Over, Forget, Elsewhere, tableVars
<1> QED BY <1>1, <1>2, <1>3, <1>4, <1>5

LEMMA KillIsElsewhere ==
    ASSUME Inv, NEW p \in Processes, Kill(p)
    PROVE  Elsewhere(p)
<1>1. clock \in Nat
  BY DEF Inv, Shape
<1> QED BY <1>1 DEF Kill, DropRows, Over, Forget, Elsewhere

-----------------------------------------------------------------------------
(* Reading and writing the table *)

LEMMA CollectStep ==
    ASSUME Inv, NEW p \in Processes, Collect(p)
    PROVE  Inv'
<1>1. /\ pc[p] = "collect" /\ pc' = [pc EXCEPT ![p] = "write"]
      /\ entities' = entities
      /\ UNCHANGED <<clock, begun, started, sightings>>
  BY DEF Collect, Goto, ReadRows
<1>2. PICK b \in Batches[Run(p)] :
        /\ batch' = [batch EXCEPT ![p] = b]
        /\ existing' = [existing EXCEPT ![p] =
                [e \in {x \in Mentions(b) : Known(x)} |-> entities[e].count]]
  BY DEF Collect, ReadRows
<1>3. Shape'
  BY <1>1, <1>2 DEF Inv, Shape
<1>4. ReadIsBacked(p)'
  <2>1. IsFiniteSet(b)
    BY <1>1, BatchesAssumption DEF Inv, Shape, Run
  <2>2. batch'[p] = b /\ existing'[p] = [e \in {x \in Mentions(b) : Known(x)} |-> entities[e].count]
    BY <1>2 DEF Inv, Shape
  <2>3. \A e \in DOMAIN existing'[p] : /\ e \in Mentions(b) /\ Known(e) /\ e \in Entity
                                       /\ existing'[p][e] = entities[e].count
    BY <2>2, MentionsEntities
  <2>4. \A e \in Entity : Known(e) => Known(e)'
    BY <1>1 DEF Known
  <2>5. \A e \in Entity : entities[e].count \in Int /\ entities[e].count <= sightings[e]
    BY DEF Inv, Shape, CountsAreBacked
  <2> QED BY <1>1, <2>1, <2>2, <2>3, <2>4, <2>5 DEF ReadIsBacked
<1>5. ASSUME NEW q \in Processes, q # p PROVE ReadIsBacked(q)'
  <2>1. pc'[q] = pc[q] /\ batch'[q] = batch[q] /\ existing'[q] = existing[q]
    BY <1>1, <1>2, <1>5 DEF Inv, Shape
  <2> QED BY <1>1, <2>1 DEF Inv, ReadIsBacked, Known
<1>6. CountsAreBacked'
  BY <1>1 DEF Inv, CountsAreBacked, Known
<1> QED BY <1>3, <1>4, <1>5, <1>6 DEF Inv

\* The write keeps what other processes have read backed: rows only appear and
\* sightings only grow.
LEMMA WriteStep ==
    ASSUME Inv, NEW p \in Processes, Write(p)
    PROVE  Inv'
<1> DEFINE b == batch[p]
           now == started[p]
<1>1. /\ pc[p] = "write" /\ pc' = [pc EXCEPT ![p] = "analyze"]
      /\ ~Clashes(p, b)
      /\ existing' = [existing EXCEPT ![p] = [e \in {} |-> 0]]
      /\ sightings' = [e \in Entity |-> sightings[e] + Occurs(b, e)]
      /\ UNCHANGED <<clock, begun, started, batch>>
  BY DEF Write, Goto, WriteRows
<1>2. entities' = [e \in Entity |->
            IF e \in Fresh(p, b)
            THEN [first |-> now, count |-> Occurs(b, e)]
            ELSE IF e \in DOMAIN existing[p]
            THEN [entities[e] EXCEPT !.count = existing[p][e] + Occurs(b, e)]
            ELSE entities[e]]
  BY DEF Write, WriteRows
<1>3. IsFiniteSet(b) /\ DOMAIN existing[p] \subseteq Mentions(b)
  BY <1>1 DEF Inv, ReadIsBacked
<1>4. now \in Nat
  BY DEF Inv, Shape
<1> HIDE DEF b, now
<1>5. \A e \in Entity : /\ Occurs(b, e) \in Nat
                        /\ Occurs(b, e) > 0 <=> e \in Mentions(b)
                        /\ sightings[e] \in Nat /\ sightings'[e] = sightings[e] + Occurs(b, e)
  BY <1>1, <1>3, OccursIsNat DEF Inv, Shape
<1>6. ASSUME NEW e \in Entity
      PROVE  /\ entities'[e] = [first |-> entities'[e].first, count |-> entities'[e].count]
             /\ entities'[e].count \in Int
             /\ entities'[e].count <= sightings'[e]
             /\ Known(e)' <=> sightings'[e] > 0
             /\ Known(e) => Known(e)'
  <2>1. /\ entities[e] = [first |-> entities[e].first, count |-> entities[e].count]
        /\ entities[e].count \in Int /\ entities[e].count <= sightings[e]
        /\ Known(e) <=> sightings[e] > 0
    BY DEF Inv, Shape, CountsAreBacked
  <2>2. CASE e \in Fresh(p, b)
    <3>1. entities'[e] = [first |-> now, count |-> Occurs(b, e)]
      BY <1>2, <2>2
    <3>2. ~Known(e) /\ e \in Mentions(b)
      BY <1>1, <2>2 DEF Clashes, Fresh
    <3>3. sightings[e] = 0
      BY <1>5, <2>1, <3>2
    <3>4. Known(e)'
      BY <1>4, <3>1 DEF Known, Never
    <3> QED BY <1>5, <3>1, <3>2, <3>3, <3>4
  <2>3. CASE e \notin Fresh(p, b) /\ e \in DOMAIN existing[p]
    <3>1. /\ Known(e) /\ existing[p][e] \in Int /\ existing[p][e] <= sightings[e]
      BY <1>1, <2>3 DEF Inv, ReadIsBacked
    <3>2. entities'[e] = [entities[e] EXCEPT !.count = existing[p][e] + Occurs(b, e)]
      BY <1>2, <2>3
    <3>3. entities'[e] = [first |-> entities[e].first, count |-> existing[p][e] + Occurs(b, e)]
      BY <2>1, <3>2
    <3>4. Known(e)'
      BY <3>1, <3>3 DEF Known
    <3> QED BY <1>5, <2>1, <3>1, <3>3, <3>4
  <2>4. CASE e \notin Fresh(p, b) /\ e \notin DOMAIN existing[p]
    <3>1. entities'[e] = entities[e] /\ e \notin Mentions(b)
      BY <1>2, <2>4 DEF Fresh
    <3>2. sightings'[e] = sightings[e]
      BY <1>5, <3>1
    <3>3. Known(e)' <=> Known(e)
      BY <3>1 DEF Known
    <3> QED BY <2>1, <3>1, <3>2, <3>3
  <2> QED BY <2>2, <2>3, <2>4
<1>7. Shape'
  <2>1. sightings' \in [Entity -> Nat]
    BY <1>1, <1>5
  <2>2. entities' = [e \in Entity |-> entities'[e]]
    BY <1>2
  <2>3. /\ existing' = [q \in Processes |-> existing'[q]]
        /\ pc' = [q \in Processes |-> pc'[q]]
    BY <1>1 DEF Inv, Shape
  <2>4. \A q \in Processes : pc'[q] = "idle" \/ begun'[q] \in 1..MaxRuns[q]
    BY <1>1 DEF Inv, Shape
  <2> QED BY <1>1, <1>6, <2>1, <2>2, <2>3, <2>4 DEF Inv, Shape
<1>8. ASSUME NEW q \in Processes PROVE ReadIsBacked(q)'
  <2>1. CASE q = p
    BY <1>1, <2>1 DEF Inv, Shape, ReadIsBacked
  <2>2. CASE q # p
    <3>1. pc'[q] = pc[q] /\ batch'[q] = batch[q] /\ existing'[q] = existing[q]
      BY <1>1, <2>2 DEF Inv, Shape
    <3>2. SUFFICES ASSUME pc[q] = "write", NEW e \in DOMAIN existing[q]
                   PROVE  Known(e)' /\ existing[q][e] \in Int /\ existing[q][e] <= sightings'[e]
      BY <3>1 DEF Inv, ReadIsBacked
    <3>3. /\ Known(e) /\ existing[q][e] \in Int /\ existing[q][e] <= sightings[e]
          /\ e \in Entity
      BY <3>2, MentionsEntities DEF Inv, ReadIsBacked
    <3>4. /\ Known(e)' /\ Occurs(b, e) \in Nat /\ sightings[e] \in Nat
          /\ sightings'[e] = sightings[e] + Occurs(b, e)
      BY <1>5, <1>6, <3>3
    <3>5. existing[q][e] <= sightings'[e]
      BY <3>3, <3>4
    <3> QED BY <3>3, <3>4, <3>5
  <2> QED BY <2>1, <2>2
<1>9. CountsAreBacked'
  BY <1>6 DEF CountsAreBacked
<1> QED BY <1>7, <1>8, <1>9 DEF Inv

-----------------------------------------------------------------------------
(* The theorem *)

LEMMA InvStep == Inv /\ [Next]_vars => Inv'
<1> SUFFICES ASSUME Inv, [Next]_vars PROVE Inv'
  OBVIOUS
<1>1. CASE UNCHANGED vars
  BY <1>1 DEF vars, tableVars, runVars, Inv, Shape, ReadIsBacked, CountsAreBacked, Known
<1>2. CASE Tick
  <2>1. clock' \in Nat
    BY <1>2 DEF Tick, Inv, Shape
  <2> QED BY <1>2, <2>1
          DEF Tick, tableVars, runVars, Inv, Shape, ReadIsBacked, CountsAreBacked, Known
<1>3. ASSUME NEW p \in Processes, Step(p) PROVE Inv'
  <2>1. CASE Clash(p) \/ Leave(p)
    <3>1. DropRows(p) /\ pc[p] # "idle" /\ \E measured : Close(p, measured)
      BY <2>1 DEF Clash, Leave
    <3> QED BY <3>1, CloseIsElsewhere, ElsewhereStep
  <2> QED BY <1>3, <2>1, CollectStep, WriteStep, ElsewhereStep, FinishIsElsewhere,
             OthersAreElsewhere, KillIsElsewhere DEF Step
<1> QED BY <1>1, <1>2, <1>3 DEF Next, Rest

\* The inductive invariant of the table.
THEOREM TableInvariant == Spec => []Inv
BY InvInit, InvStep, PTL DEF Spec

\* An entity has a row exactly when a run that committed saw it, and never more
\* occurrences than those runs had of it, however processes interleave their
\* reads and writes and whoever is killed in between.
THEOREM CountsAreNeverInflated == Spec => []CountsAreBacked
<1>1. Inv => CountsAreBacked
  BY DEF Inv
<1> QED BY <1>1, TableInvariant, PTL

-----------------------------------------------------------------------------
(* A process works on its own run *)

Framed ==
    /\ pc = [q \in Processes |-> pc[q]] /\ begun \in [Processes -> Nat]
    /\ started \in [Processes -> Nat] /\ ephemeral = [q \in Processes |-> ephemeral[q]]
    /\ batch = [q \in Processes |-> batch[q]] /\ fresh = [q \in Processes |-> fresh[q]]
    /\ report = [q \in Processes |-> report[q]] /\ written = [q \in Processes |-> written[q]]
    /\ wasLatest = [q \in Processes |-> wasLatest[q]] /\ alone = [q \in Processes |-> alone[q]]
    /\ clock \in Nat

Stays(q) ==
    /\ pc'[q] = pc[q] /\ begun'[q] = begun[q] /\ started'[q] = started[q]
    /\ ephemeral'[q] = ephemeral[q] /\ batch'[q] = batch[q] /\ fresh'[q] = fresh[q]
    /\ report'[q] = report[q] /\ written'[q] = written[q] /\ wasLatest'[q] = wasLatest[q]

\* What a step of p may do to the parts that each process has for itself.
Touches(p) ==
    /\ \E x : pc' \in {pc, [pc EXCEPT ![p] = x]}
    /\ \E x \in Nat : begun' \in {begun, [begun EXCEPT ![p] = x]}
    /\ \E x \in Nat : started' \in {started, [started EXCEPT ![p] = x]}
    /\ \E x : ephemeral' \in {ephemeral, [ephemeral EXCEPT ![p] = x]}
    /\ \E x : batch' \in {batch, [batch EXCEPT ![p] = x]}
    /\ \E x : fresh' \in {fresh, [fresh EXCEPT ![p] = x]}
    /\ \E x : report' \in {report, [report EXCEPT ![p] = x]}
    /\ \E x : written' \in {written, [written EXCEPT ![p] = x]}
    /\ \E x : wasLatest' \in {wasLatest, [wasLatest EXCEPT ![p] = x]}
    /\ alone' = [q \in Processes |-> alone'[q]]
    /\ clock' \in Nat

LEMMA TouchesIsLocal ==
    ASSUME Framed, NEW p \in Processes, Touches(p)
    PROVE  Framed' /\ \A q \in Processes : q # p => Stays(q)
BY DEF Framed, Touches, Stays

LEMMA OverTouches ==
    ASSUME Framed, NEW p \in Processes, Over(p), alone' = [q \in Processes |-> alone'[q]]
    PROVE  Touches(p)
<1>1. \E x : pc' \in {pc, [pc EXCEPT ![p] = x]}
  BY DEF Over
<1>2. /\ \E x : batch' \in {batch, [batch EXCEPT ![p] = x]}
      /\ \E x : fresh' \in {fresh, [fresh EXCEPT ![p] = x]}
      /\ \E x : report' \in {report, [report EXCEPT ![p] = x]}
  BY DEF Over, Forget
<1>3. /\ \E x : ephemeral' \in {ephemeral, [ephemeral EXCEPT ![p] = x]}
      /\ \E x : written' \in {written, [written EXCEPT ![p] = x]}
      /\ \E x : wasLatest' \in {wasLatest, [wasLatest EXCEPT ![p] = x]}
  BY DEF Over
<1>4. started' = [started EXCEPT ![p] = 0] /\ begun' = begun /\ clock' = clock
  BY DEF Over
<1> QED BY <1>1, <1>2, <1>3, <1>4 DEF Touches, Framed

LEMMA CloseTouches ==
    ASSUME Framed, NEW p \in Processes, NEW measured, Close(p, measured)
    PROVE  Touches(p)
<1>1. CASE Over(p) /\ alone' = [alone EXCEPT ![p] = TRUE]
  BY <1>1, OverTouches DEF Framed
<1>2. CASE /\ pc' = [pc EXCEPT ![p] = "closed"] /\ Forget(p)
           /\ UNCHANGED <<clock, begun, started, ephemeral, outVars, sightings, since>>
  BY <1>2 DEF Forget, outVars, Touches, Framed
<1> QED BY <1>1, <1>2 DEF Close

LEMMA StepTouches ==
    ASSUME Framed, NEW p \in Processes, Step(p)
    PROVE  Touches(p)
<1>0. clock \in Nat /\ started \in [Processes -> Nat] /\ begun \in [Processes -> Nat]
      /\ begun[p] + 1 \in Nat
  BY DEF Framed
<1>1. CASE Start(p)
  BY <1>0, <1>1 DEF Start, Goto, outVars, Touches, Framed
<1>2. CASE Collect(p)
  <2>1. \E x : batch' = [batch EXCEPT ![p] = x]
    BY <1>2 DEF Collect
  <2> QED BY <1>0, <1>2, <2>1 DEF Collect, Goto, outVars, Touches, Framed
<1>3. CASE Write(p)
  BY <1>0, <1>3 DEF Write, Goto, outVars, Touches, Framed
<1>4. CASE Clash(p) \/ Leave(p) \/ Finish(p)
  BY <1>4, CloseTouches DEF Clash, Leave, Finish
<1>5. CASE Kill(p)
  BY <1>5, OverTouches DEF Kill, Framed
<1>6. CASE Analyse(p)
  <2>1. \E x : report' = [report EXCEPT ![p] = x]
    BY <1>6 DEF Analyse
  <2> QED BY <1>0, <1>6, <2>1 DEF Analyse, Goto, outVars, Touches, Framed
<1>7. CASE Emit(p)
  BY <1>0, <1>7 DEF Emit, Alone, Forget, Touches, Framed
<1>8. CASE EmitFails(p)
  BY <1>0, <1>8 DEF EmitFails, Forget, Touches, Framed
<1>9. CASE CleanRows(p)
  BY <1>0, <1>9 DEF CleanRows, Goto, Touches, Framed
<1>10. CASE CleanLatest(p)
  <2>1. alone' = [q \in Processes |-> alone'[q]]
    BY <1>10 DEF CleanLatest, Alone, Framed
  <2> QED BY <1>10, <2>1, OverTouches DEF CleanLatest
<1> QED BY <1>1, <1>2, <1>3, <1>4, <1>5, <1>6, <1>7, <1>8, <1>9, <1>10 DEF Step

LEMMA FramedInit == Init => Framed
BY DEF Init, Framed

-----------------------------------------------------------------------------
(* What an analyzer looks at *)

LEMMA DistinctIsFinite ==
    ASSUME NEW events, IsFiniteSet(events), NEW col
    PROVE  IsFiniteSet(Distinct(events, col))
<1> DEFINE all == {ev[col] : ev \in events}
           f == [ev \in events |-> ev[col]]
<1>1. f \in Surjection(events, all)
  BY DEF Surjection
<1>2. IsFiniteSet(all)
  BY <1>1, FS_Surjection
<1> QED BY <1>2, FS_Subset DEF Distinct

\* A ranking that has room for every value leaves none out.
LEMMA TopTakesAll ==
    ASSUME NEW events, IsFiniteSet(events), NEW col,
           Cardinality(Distinct(events, col)) <= TopN,
           NEW T \in Top(events, col, TopN)
    PROVE  T = Distinct(events, col)
<1> DEFINE D == Distinct(events, col)
<1>1. IsFiniteSet(D) /\ Cardinality(D) \in Nat
  BY DistinctIsFinite, FS_CardinalityType
<1>2. AtMost(TopN, D) = Cardinality(D)
  BY <1>1, LimitsAssumption DEF AtMost
<1>3. T \subseteq D /\ Cardinality(T) = Cardinality(D)
  BY <1>2 DEF Top, kSubset
<1> HIDE DEF D
<1>4. T = D
  BY <1>1, <1>3, FS_Subset
<1> QED BY <1>4 DEF D

LEMMA KindsAreFinite ==
    ASSUME NEW events, IsFiniteSet(events), NEW kind, NEW other
    PROVE  IsFiniteSet(OfKind(events, kind)) /\ IsFiniteSet(OfKind(events, kind) \cup OfKind(events, other))
<1>1. OfKind(events, kind) \subseteq events
      /\ OfKind(events, kind) \cup OfKind(events, other) \subseteq events
  BY DEF OfKind
<1> QED BY <1>1, FS_Subset

\* A domain is asked for in the form the event has it.
LEMMA DomainsAreAsked ==
    ASSUME NEW events \in SUBSET Events, IsFiniteSet(events), NEW asked \in DomainCandidates(events),
           NEW e \in Mentions(events), e.type = "domain", e.value \notin Benign,
           Fits(events, "domain")
    PROVE  \E a \in asked : /\ a \in Entity /\ a.type = "domain"
                            /\ Lower[a.value] = e.value /\ Stored(a) = e
<1>1. PICK ev \in events : e \in Mentioned(ev)
  BY DEF Mentions
<1>2. e \in Entity /\ ev.kind = "dns" /\ e.value = Lower[ev.domain] /\ e.value # NoValue
  BY <1>1 DEF Mentioned
<1>3. ev.domain # NoValue
  BY <1>2, LowerAssumption
<1>4. PICK T \in Top(OfKind(events, "dns"), "domain", TopN) :
        asked = Named("domain", {d \in T : Lower[d] \notin Benign})
  BY DEF DomainCandidates
<1>5. T = Distinct(OfKind(events, "dns"), "domain")
  <2>1. Cardinality(Distinct(OfKind(events, "dns"), "domain")) <= TopN
    BY DEF Fits
  <2> QED BY <2>1, KindsAreFinite, TopTakesAll
<1>6. ev.domain \in T
  BY <1>2, <1>3, <1>5 DEF Distinct, OfKind
<1> DEFINE a == [type |-> "domain", value |-> ev.domain]
<1>7. a \in asked
  BY <1>2, <1>4, <1>6 DEF Named
<1>8. a \in Entity
  BY <1>3, LowerAssumption
<1>9. Stored(a) = e
  <2>1. Stored(a) = [type |-> "domain", value |-> e.value]
    BY <1>2 DEF Stored
  <2>2. e = [type |-> e.type, value |-> e.value]
    BY <1>2, LowerAssumption
  <2> QED BY <2>1, <2>2
<1> QED BY <1>2, <1>7, <1>8, <1>9

\* Everything else in the form in which it is stored.
LEMMA OthersAreAsked ==
    ASSUME NEW events \in SUBSET Events, IsFiniteSet(events),
           NEW clients \in ClientCandidates(events), NEW devices \in DeviceCandidates(events),
           NEW e \in Reportable(events), e.type # "domain", Fits(events, e.type)
    PROVE  e \in clients \cup devices \cup AccountCandidates(events)
<1>0. e \in Mentions(events) /\ e \in Entity /\ e = [type |-> e.type, value |-> e.value]
  BY MentionsEntities, LowerAssumption DEF Reportable
<1>1. PICK ev \in events : e \in Mentioned(ev)
  BY <1>0 DEF Mentions
<1>2. e.value # NoValue
  BY <1>1 DEF Mentioned
<1>3. CASE e.type = "ip"
  <2>1. PICK on \in events : on.ip = e.value /\ on.kind \in {"dns", "firewall"}
    BY <1>3 DEF Reportable
  <2>2. PICK S \in Top(OfKind(events, "firewall"), "ip", TopN), C \in Top(OfKind(events, "dns"), "ip", TopN) :
          clients = Named("ip", (S \cup C) \cap Internal)
    BY DEF ClientCandidates
  <2>3. /\ Cardinality(Distinct(OfKind(events, "firewall"), "ip")) <= TopN
        /\ Cardinality(Distinct(OfKind(events, "dns"), "ip")) <= TopN
    BY <1>3 DEF Fits
  <2>4. /\ S = Distinct(OfKind(events, "firewall"), "ip")
        /\ C = Distinct(OfKind(events, "dns"), "ip")
    BY <2>3, KindsAreFinite, TopTakesAll
  <2>5. e.value \in (S \cup C) \cap Internal
    BY <1>2, <1>3, <2>1, <2>4 DEF Distinct, OfKind, Reportable
  <2> QED BY <1>0, <1>3, <2>2, <2>5 DEF Named
<1>4. CASE e.type = "device"
  <2>1. PICK T \in Top(OfKind(events, "system") \cup OfKind(events, "auth"), "user", TopN) :
          devices = Named("device", T \cap Hardware)
    BY DEF DeviceCandidates
  <2>2. Cardinality(Distinct(OfKind(events, "system") \cup OfKind(events, "auth"), "user")) <= TopN
    BY <1>4 DEF Fits
  <2>3. T = Distinct(OfKind(events, "system") \cup OfKind(events, "auth"), "user")
    BY <2>2, KindsAreFinite, TopTakesAll
  <2>4. ev.user = e.value /\ ev \in Events
    BY <1>1, <1>4 DEF Mentioned
  <2>5. e.value \in T \cap Hardware
    BY <1>2, <1>4, <2>3, <2>4, EventsAssumption DEF Distinct, OfKind, Reportable
  <2> QED BY <1>0, <1>4, <2>1, <2>5 DEF Named
<1>5. CASE e.type = "user"
  <2>1. PICK on \in events : /\ on.user = e.value /\ on.kind = "auth"
                             /\ on.action \in WindowsActions \cup {"ssh_accepted"}
    BY <1>5 DEF Reportable
  <2>2. \/ e.value \in Distinct(WithAction(events, "auth", WindowsActions), "user")
        \/ e.value \in Distinct(WithAction(events, "auth", {"ssh_accepted"}), "user")
    BY <1>2, <2>1 DEF Distinct, WithAction, OfKind
  <2> QED BY <1>0, <1>5, <2>2 DEF AccountCandidates, _windows_new_account, _ssh_new_account, Named
<1> QED BY <1>3, <1>4, <1>5 DEF Reportable

-----------------------------------------------------------------------------
(* What is new and what is old *)

\* A row is as old as the first commit that recorded it, or older by the time
\* its run took up to then; domains have theirs in lower case.
RowsAreDated ==
    /\ since = [e \in Entity |-> since[e]]
    /\ \A e \in Entity :
        /\ since[e] \in Int
        /\ Known(e) <=> since[e] # Never
        /\ Known(e) => entities[e].first \in Nat /\ entities[e].first <= since[e]
        /\ Known(e) /\ e.type = "domain" => Lower[e.value] = e.value

\* The rows a run wrote are there, and those it inserted are of its start, until
\* it has asked about them; a report is there only between analysis and delivery.
OnRecord(p) ==
    /\ IsFiniteSet(batch[p]) /\ batch[p] \subseteq Events
    /\ started[p] <= clock
    /\ pc[p] # "deliver" => report[p] = NoReport
    /\ pc[p] \in {"analyze", "deliver"} =>
        /\ \A e \in Mentions(batch[p]) : Known(e)
        /\ \A e \in fresh[p] \cap Entity : Known(e) /\ entities[e].first = started[p]

Announces(p) ==
    report[p].baseline /\ report[p].now - started[p] <= Grace =>
        \A e \in fresh[p] \cap Reportable(batch[p]) :
            Fits(batch[p], e.type) => \E a \in report[p].announced : Stored(a) = e
KeepsQuiet(p) ==
    \A a \in report[p].announced :
        a \in Mentions(batch[p]) => report[p].now - since[a] <= Grace

NewsInv ==
    /\ RowsAreDated
    /\ \A p \in Processes : OnRecord(p) /\ Announces(p) /\ KeepsQuiet(p)

LEMMA NothingIsSaid ==
    ASSUME NEW p \in Processes, report[p] = NoReport
    PROVE  Announces(p) /\ KeepsQuiet(p)
BY DEF Announces, KeepsQuiet, NoReport

LEMMA NewsInit == Init => NewsInv
<1> SUFFICES ASSUME Init PROVE NewsInv
  OBVIOUS
<1>1. /\ entities = [e \in Entity |-> NoRow] /\ since = [e \in Entity |-> Never]
      /\ pc = [p \in Processes |-> "idle"] /\ batch = [p \in Processes |-> {}]
      /\ fresh = [p \in Processes |-> {}] /\ report = [p \in Processes |-> NoReport]
      /\ clock = 0 /\ started = [p \in Processes |-> 0]
  BY DEF Init, TableInit
<1>2. RowsAreDated
  BY <1>1 DEF RowsAreDated, Known, NoRow, Never
<1>3. \A p \in Processes : OnRecord(p)
  BY <1>1, FS_EmptySet DEF OnRecord
<1>4. \A p \in Processes : report[p] = NoReport
  BY <1>1
<1> QED BY <1>2, <1>3, <1>4, NothingIsSaid DEF NewsInv

\* Rows never go, and what they say of the first time never changes.
RowsStay ==
    \A e \in Entity : Known(e) => /\ Known(e)' /\ entities'[e].first = entities[e].first
                                  /\ since'[e] = since[e]

LEMMA WriteDatesRows ==
    ASSUME Inv, NewsInv, NEW p \in Processes, Write(p)
    PROVE  /\ RowsAreDated' /\ RowsStay
           /\ \A e \in Mentions(batch[p]) : Known(e)'
           /\ \A e \in Fresh(p, batch[p]) : entities'[e].first = started[p]
<1> DEFINE b == batch[p]
<1>1. /\ ~Clashes(p, b) /\ pc[p] = "write"
      /\ since' = [e \in Entity |-> IF since[e] = Never /\ e \in Mentions(b) THEN clock ELSE since[e]]
  BY DEF Write, Goto, WriteRows
<1>2. entities' = [e \in Entity |->
            IF e \in Fresh(p, b)
            THEN [first |-> started[p], count |-> Occurs(b, e)]
            ELSE IF e \in DOMAIN existing[p]
            THEN [entities[e] EXCEPT !.count = existing[p][e] + Occurs(b, e)]
            ELSE entities[e]]
  BY DEF Write, WriteRows
<1>3. /\ \A e \in DOMAIN existing[p] : Known(e)
      /\ \A e \in Entity : entities[e] = [first |-> entities[e].first, count |-> entities[e].count]
  BY <1>1 DEF Inv, ReadIsBacked, Shape
<1>4. started[p] \in Nat /\ clock \in Nat /\ started[p] <= clock /\ b \subseteq Events
  BY DEF Inv, Shape, NewsInv, OnRecord
<1> HIDE DEF b
<1>5. ASSUME NEW e \in Entity, e \in Fresh(p, b)
      PROVE  /\ ~Known(e) /\ Known(e)' /\ entities'[e].first = started[p] /\ since'[e] = clock
             /\ e.type = "domain" => Lower[e.value] = e.value
  <2>1. ~Known(e) /\ e \in Mentions(b)
    BY <1>1, <1>5 DEF Clashes, Fresh
  <2>2. entities'[e].first = started[p] /\ Known(e)'
    BY <1>2, <1>4, <1>5 DEF Known, Never
  <2>3. since'[e] = clock
    BY <1>1, <2>1 DEF NewsInv, RowsAreDated
  <2>4. PICK ev \in b : e \in Mentioned(ev)
    BY <2>1 DEF Mentions
  <2>5. e.type = "domain" => Lower[e.value] = e.value
    BY <1>4, <2>4, LowerAssumption DEF Mentioned
  <2> QED BY <2>1, <2>2, <2>3, <2>5
<1>6. ASSUME NEW e \in Entity, e \notin Fresh(p, b)
      PROVE  /\ entities'[e].first = entities[e].first /\ (Known(e)' <=> Known(e))
             /\ since'[e] = since[e] /\ (e \in Mentions(b) => Known(e))
  <2>1. entities'[e].first = entities[e].first
    BY <1>2, <1>3, <1>6
  <2>2. e \in Mentions(b) => Known(e)
    BY <1>3, <1>6 DEF Fresh
  <2>3. since'[e] = since[e]
    BY <1>1, <2>2 DEF NewsInv, RowsAreDated
  <2> QED BY <2>1, <2>2, <2>3 DEF Known
<1>7. RowsStay
  BY <1>5, <1>6 DEF RowsStay
<1>8. RowsAreDated'
  <2>1. since' = [e \in Entity |-> since'[e]]
    BY <1>1
  <2>2. ASSUME NEW e \in Entity
        PROVE  /\ since'[e] \in Int
               /\ Known(e)' <=> since'[e] # Never
               /\ Known(e)' => entities'[e].first \in Nat /\ entities'[e].first <= since'[e]
               /\ Known(e)' /\ e.type = "domain" => Lower[e.value] = e.value
    <3>1. /\ since[e] \in Int /\ (Known(e) <=> since[e] # Never)
          /\ Known(e) => entities[e].first \in Nat /\ entities[e].first <= since[e]
          /\ Known(e) /\ e.type = "domain" => Lower[e.value] = e.value
      BY DEF NewsInv, RowsAreDated
    <3>2. CASE e \in Fresh(p, b)
      BY <1>4, <1>5, <3>2 DEF Never
    <3>3. CASE e \notin Fresh(p, b)
      BY <1>6, <3>1, <3>3
    <3> QED BY <3>2, <3>3
  <2> QED BY <2>1, <2>2 DEF RowsAreDated
<1>9. Fresh(p, b) \subseteq Entity /\ Mentions(b) \subseteq Entity
  BY MentionsEntities DEF Fresh
<1> QED BY <1>5, <1>6, <1>7, <1>8, <1>9 DEF b

LEMMA OthersLeaveRows ==
    ASSUME NewsInv, NEW p \in Processes, Step(p), ~Write(p)
    PROVE  RowsAreDated' /\ RowsStay /\ entities' = entities /\ since' = since
<1>1. entities' = entities /\ since' = since
  <2>1. CASE Start(p) \/ Analyse(p) \/ Emit(p) \/ EmitFails(p) \/ CleanRows(p)
    BY <2>1 DEF Start, Analyse, Emit, EmitFails, CleanRows, tableVars
  <2>2. CASE Collect(p)
    BY <2>2 DEF Collect, ReadRows
  <2>3. CASE Clash(p) \/ Leave(p) \/ Kill(p) \/ Finish(p) \/ CleanLatest(p)
    BY <2>3 DEF Clash, Leave, Kill, Finish, CleanLatest, Close, Over, DropRows, tableVars
  <2> QED BY <2>1, <2>2, <2>3 DEF Step
<1>2. \A e \in Entity : Known(e)' <=> Known(e)
  BY <1>1 DEF Known
<1> QED BY <1>1, <1>2 DEF NewsInv, RowsAreDated, RowsStay

\* The processes that do not move.
LEMMA NewsElsewhere ==
    ASSUME NewsInv, Framed, NEW q \in Processes, Stays(q), RowsStay,
           clock' \in Nat, clock <= clock'
    PROVE  OnRecord(q)' /\ Announces(q)' /\ KeepsQuiet(q)'
<1>1. OnRecord(q) /\ Announces(q) /\ KeepsQuiet(q) /\ started[q] \in Nat /\ clock \in Nat
  BY DEF NewsInv, Framed
<1>2. Mentions(batch[q]) \subseteq Entity
  BY MentionsEntities
<1>3. OnRecord(q)'
  BY <1>1, <1>2 DEF OnRecord, Stays, RowsStay
<1>4. Announces(q)'
  <2>1. Reportable(batch[q])' = Reportable(batch[q])
    BY DEF Stays, Reportable, Mentions, Mentioned
  <2>2. \A t : Fits(batch[q], t)' = Fits(batch[q], t)
    BY DEF Stays, Fits, Distinct, OfKind
  <2> QED BY <1>1, <2>1, <2>2 DEF Announces, Stays
<1>5. KeepsQuiet(q)'
  <2>1. report[q] # NoReport => pc[q] = "deliver"
    BY <1>1 DEF OnRecord
  <2>2. \A a \in report[q].announced : a \in Mentions(batch[q]) => since'[a] = since[a]
    BY <1>1, <1>2, <2>1 DEF OnRecord, RowsStay, NoReport
  <2>3. Mentions(batch[q])' = Mentions(batch[q])
    BY DEF Stays, Mentions, Mentioned
  <2> QED BY <1>1, <2>2, <2>3 DEF KeepsQuiet, Stays
<1> QED BY <1>3, <1>4, <1>5

\* The process that moves, unless it analyses.
LEMMA NewsAtHome ==
    ASSUME Inv, Framed, NewsInv, NEW p \in Processes, Step(p), ~Analyse(p)
    PROVE  /\ OnRecord(p)'
           /\ report'[p] = NoReport
<1>0. /\ IsFiniteSet(batch[p]) /\ batch[p] \subseteq Events /\ started[p] <= clock /\ clock \in Nat
      /\ 0 <= clock /\ (pc[p] # "deliver" => report[p] = NoReport) /\ Framed
  BY DEF Framed, NewsInv, OnRecord
<1>1. CASE batch'[p] = {} /\ fresh'[p] = {} /\ report'[p] = NoReport /\ clock' = clock
           /\ started'[p] \in {0, started[p]}
  <2>1. Mentions(batch'[p]) = {} /\ IsFiniteSet(batch'[p])
    BY <1>1, FS_EmptySet DEF Mentions
  <2>2. Mentions(batch[p])' = {}
    BY <1>1 DEF Mentions
  <2> QED BY <1>0, <1>1, <2>1, <2>2 DEF OnRecord
<1>2. CASE Start(p)
  BY <1>0, <1>2 DEF Start, Goto, OnRecord, Framed
<1>3. CASE Collect(p)
  <2>1. PICK b \in Batches[Run(p)] : batch' = [batch EXCEPT ![p] = b]
    BY <1>3 DEF Collect
  <2>2. begun[p] \in 1..MaxRuns[p]
    BY <1>3 DEF Collect, Goto, Inv, Shape
  <2>3. IsFiniteSet(b) /\ b \subseteq Events
    BY <2>2, BatchesAssumption DEF Run
  <2> QED BY <1>0, <1>3, <2>1, <2>3 DEF Collect, Goto, OnRecord, Framed
<1>4. CASE Write(p)
  <2>1. /\ \A e \in Mentions(batch[p]) : Known(e)'
        /\ \A e \in Fresh(p, batch[p]) : Known(e)' /\ entities'[e].first = started[p]
    BY <1>4, WriteDatesRows DEF Fresh
  <2>2. /\ batch' = batch /\ fresh'[p] = Fresh(p, batch[p]) /\ started' = started
        /\ clock' = clock /\ report' = report /\ pc[p] = "write" /\ pc'[p] = "analyze"
    BY <1>0, <1>4 DEF Write, Goto, Framed
  <2>3. Mentions(batch[p])' = Mentions(batch[p])
    BY <2>2 DEF Mentions, Mentioned
  <2> QED BY <1>0, <2>1, <2>2, <2>3 DEF OnRecord
<1>5. CASE Clash(p) \/ Leave(p) \/ Finish(p)
  <2>1. PICK measured : Close(p, measured)
    BY <1>5 DEF Clash, Leave, Finish
  <2>2. Forget(p) /\ clock' = clock /\ started'[p] \in {0, started[p]}
    BY <1>0, <2>1 DEF Close, Over, Framed
  <2> QED BY <1>0, <1>1, <2>2 DEF Forget, Framed
<1>6. CASE Kill(p) \/ CleanLatest(p) \/ Emit(p) \/ EmitFails(p)
  <2>1. Forget(p) /\ clock' = clock /\ started'[p] \in {0, started[p]}
    BY <1>0, <1>6 DEF Kill, CleanLatest, Emit, EmitFails, Over, Framed
  <2> QED BY <1>0, <1>1, <2>1 DEF Forget, Framed
<1>7. CASE CleanRows(p)
  BY <1>0, <1>7 DEF CleanRows, Goto, OnRecord, Framed
<1> QED BY <1>2, <1>3, <1>4, <1>5, <1>6, <1>7 DEF Step

\* The analysis asks about rows that nobody has changed since they were written.
LEMMA NewsOfAnalysis ==
    ASSUME Framed, NewsInv, NEW p \in Processes, Analyse(p)
    PROVE  OnRecord(p)' /\ Announces(p)' /\ KeepsQuiet(p)'
<1>0. /\ pc[p] = "analyze" /\ pc'[p] = "deliver"
      /\ UNCHANGED <<entities, since, clock, started, batch, fresh>>
  BY DEF Analyse, Goto, Framed, tableVars
<1>1. PICK d \in DomainCandidates(batch[p]), c \in ClientCandidates(batch[p]),
           m \in DeviceCandidates(batch[p]),
           prior \in {r.measured : r \in Prior(p)} \cup (IF Prior(p) = {} THEN {FALSE} ELSE {}) :
        report' = [report EXCEPT ![p] =
            [now |-> clock, baseline |-> prior,
             announced |-> Announce(prior, d \cup c \cup m \cup AccountCandidates(batch[p]),
                                    clock)]]
  BY Zenon DEF Analyse
<1> DEFINE asked == d \cup c \cup m \cup AccountCandidates(batch[p])
           b == batch[p]
<1>2. /\ report'[p].now = clock /\ report'[p].baseline = prior
      /\ report'[p].announced = Announce(prior, asked, clock)
  BY <1>1 DEF Framed
<1>3. /\ IsFiniteSet(b) /\ b \in SUBSET Events /\ started[p] \in Nat /\ clock \in Nat
      /\ \A e \in Mentions(b) : Known(e)
      /\ \A e \in fresh[p] \cap Entity : Known(e) /\ entities[e].first = started[p]
      /\ started[p] <= clock
  BY <1>0 DEF NewsInv, OnRecord, Framed
<1>4. Mentions(b)' = Mentions(b) /\ Reportable(b)' = Reportable(b)
      /\ \A t : Fits(b, t)' = Fits(b, t)
  BY <1>0 DEF Reportable, Mentions, Mentioned, Fits, Distinct, OfKind
<1>5. OnRecord(p)'
  <2>1. \A e \in Entity : Known(e)' = Known(e)
    BY <1>0 DEF Known
  <2> QED BY <1>0, <1>3, <1>4, <2>1, MentionsEntities DEF OnRecord
<1>6. KeepsQuiet(p)'
  <2>1. SUFFICES ASSUME NEW a \in report'[p].announced, a \in Mentions(b)
                 PROVE  report'[p].now - since[a] <= Grace
    BY <1>0, <1>4 DEF KeepsQuiet
  <2>2. a \in Novel(asked, clock)
    BY <1>2, <2>1 DEF Announce
  <2>3. Known(a) /\ a \in Entity
    BY <1>3, <2>1, MentionsEntities
  <2>4. entities[a].first >= clock - Grace
    BY <2>2, <2>3 DEF Novel
  <2>5. entities[a].first \in Nat /\ entities[a].first <= since[a] /\ since[a] \in Int
    BY <2>3 DEF NewsInv, RowsAreDated
  <2> QED BY <1>2, <1>3, <2>4, <2>5, LimitsAssumption
<1>7. Announces(p)'
  <2>1. SUFFICES ASSUME prior, clock - started[p] <= Grace,
                        NEW e \in fresh[p] \cap Reportable(b), Fits(b, e.type)
                 PROVE  \E a \in Novel(asked, clock) : Stored(a) = e
    BY <1>0, <1>2, <1>4 DEF Announces, Announce
  <2>2. e \in Mentions(b) /\ e \in Entity
    BY MentionsEntities DEF Reportable
  <2>3. Known(e) /\ entities[e].first >= clock - Grace
    BY <1>3, <2>1, <2>2, LimitsAssumption
  <2>4. CASE e.type = "domain"
    <3>1. e.value \notin Benign
      BY <2>4 DEF Reportable
    <3>2. PICK a \in d : a \in Entity /\ a.type = "domain" /\ Lower[a.value] = e.value /\ Stored(a) = e
      <4> HIDE DEF b
      <4>1. d \in DomainCandidates(b)
        BY DEF b
      <4> QED BY <1>3, <2>1, <2>2, <2>4, <3>1, <4>1, DomainsAreAsked
    <3>3. Known(a) => a = e
      <4>1. Known(a) => Lower[a.value] = a.value
        BY <3>2 DEF NewsInv, RowsAreDated
      <4>2. a = [type |-> a.type, value |-> a.value] /\ e = [type |-> e.type, value |-> e.value]
        BY <2>2, <3>2, LowerAssumption
      <4> QED BY <2>4, <3>2, <4>1, <4>2
    <3>4. a \in Novel(asked, clock)
      BY <2>3, <3>2, <3>3 DEF Novel
    <3> QED BY <3>2, <3>4
  <2>5. CASE e.type # "domain"
    <3>1. e \in c \cup m \cup AccountCandidates(b)
      <4> HIDE DEF b
      <4>1. c \in ClientCandidates(b) /\ m \in DeviceCandidates(b) /\ e \in Reportable(b)
        BY <2>1 DEF b
      <4> QED BY <1>3, <2>1, <2>5, <4>1, OthersAreAsked
    <3>2. Stored(e) = e
      BY <2>5 DEF Stored
    <3>3. e \in Novel(asked, clock)
      BY <2>3, <3>1 DEF Novel
    <3> QED BY <3>2, <3>3
  <2> QED BY <2>4, <2>5
<1> QED BY <1>5, <1>6, <1>7

\* Whatever happens, rows stay and keep their date.
LEMMA NoRowIsLost == Inv /\ Framed /\ NewsInv /\ [Next]_vars => RowsAreDated' /\ RowsStay
<1> SUFFICES ASSUME Inv, Framed, NewsInv, [Next]_vars PROVE RowsAreDated' /\ RowsStay
  OBVIOUS
<1>1. CASE UNCHANGED vars \/ Tick
  <2>1. UNCHANGED <<entities, since>>
    BY <1>1 DEF vars, Tick, tableVars
  <2>2. \A e \in Entity : Known(e)' = Known(e)
    BY <2>1 DEF Known
  <2> QED BY <2>1, <2>2 DEF NewsInv, RowsAreDated, RowsStay
<1>2. ASSUME NEW p \in Processes, Step(p) PROVE RowsAreDated' /\ RowsStay
  BY <1>2, WriteDatesRows, OthersLeaveRows
<1> QED BY <1>1, <1>2 DEF Next, Rest

LEMMA NewsStep == Inv /\ Framed /\ NewsInv /\ [Next]_vars => NewsInv'
<1> SUFFICES ASSUME Inv, Framed, NewsInv, [Next]_vars PROVE NewsInv'
  OBVIOUS
<1>0. clock \in Nat /\ RowsAreDated' /\ RowsStay
  BY NoRowIsLost DEF Framed
<1>1. CASE UNCHANGED vars \/ Tick
  <2>1. /\ UNCHANGED <<pc, begun, started, ephemeral, batch, fresh, report, written, wasLatest>>
        /\ clock' \in Nat /\ clock <= clock'
    BY <1>0, <1>1 DEF vars, Tick, runVars, outVars
  <2>2. \A q \in Processes : Stays(q)
    BY <2>1 DEF Stays
  <2> QED BY <1>0, <2>1, <2>2, NewsElsewhere DEF NewsInv
<1>2. ASSUME NEW p \in Processes, Step(p) PROVE NewsInv'
  <2>2. clock' = clock
    BY <1>2 DEF Step, Start, Collect, Write, Clash, Leave, Kill, Analyse, Emit, EmitFails,
                Finish, CleanRows, CleanLatest, Close, Over
  <2>3. ASSUME NEW q \in Processes, q # p
        PROVE  OnRecord(q)' /\ Announces(q)' /\ KeepsQuiet(q)'
    <3>1. Stays(q)
      BY <1>2, <2>3, StepTouches, TouchesIsLocal
    <3> QED BY <1>0, <2>2, <3>1, NewsElsewhere
  <2>4. OnRecord(p)' /\ Announces(p)' /\ KeepsQuiet(p)'
    <3>1. CASE Analyse(p)
      BY <3>1, NewsOfAnalysis
    <3>2. CASE ~Analyse(p)
      <4>1. OnRecord(p)' /\ report'[p] = NoReport
        BY <1>2, <3>2, NewsAtHome
      <4>2. Announces(p)' /\ KeepsQuiet(p)'
        BY <4>1 DEF Announces, KeepsQuiet, NoReport
      <4> QED BY <4>1, <4>2
    <3> QED BY <3>1, <3>2
  <2> QED BY <1>0, <2>3, <2>4 DEF NewsInv
<1> QED BY <1>1, <1>2 DEF Next, Rest

LEMMA FramedStep == Framed /\ [Next]_vars => Framed'
<1> SUFFICES ASSUME Framed, [Next]_vars PROVE Framed'
  OBVIOUS
<1>1. CASE UNCHANGED vars \/ Tick
  BY <1>1 DEF vars, Tick, runVars, outVars, Framed
<1>2. ASSUME NEW p \in Processes, Step(p) PROVE Framed'
  BY <1>2, StepTouches, TouchesIsLocal
<1> QED BY <1>1, <1>2 DEF Next, Rest

\* The inductive invariant of novelty: what the rows say of the first time they
\* were seen, what a run knows of the rows it wrote, and what its report says.
THEOREM NewsInvariant == Spec => [](Inv /\ Framed /\ NewsInv)
<1>1. Init => Inv /\ Framed /\ NewsInv
  BY InvInit, FramedInit, NewsInit
<1>2. Inv /\ Framed /\ NewsInv /\ [Next]_vars => (Inv /\ Framed /\ NewsInv)'
  BY InvStep, FramedStep, NewsStep
<1> QED BY <1>1, <1>2, PTL DEF Spec

\* What a run is the first to record, of the kinds novelty is promised for, is
\* announced by its own report, whatever other processes record before, between
\* and after its read, its write and its analysis.
THEOREM NewcomersAreAnnounced == Spec => []NewIsAnnounced
<1>1. NewsInv => NewIsAnnounced
  BY DEF NewsInv, Announces, NewIsAnnounced
<1> QED BY <1>1, NewsInvariant, PTL

\* Nothing is announced as new that a run of any process recorded more than the
\* grace before.
THEOREM AcquaintancesStayQuiet == Spec => []OldIsQuiet
<1>1. NewsInv => OldIsQuiet
  BY DEF NewsInv, KeepsQuiet, OldIsQuiet
<1> QED BY <1>1, NewsInvariant, PTL

\* The entities table forgets nothing: a row that is there stays there, under the
\* date of the run that inserted it.
THEOREM FirstSeenIsKept == Spec => [][RowsStay]_vars
<1>1. Inv /\ Framed /\ NewsInv /\ [Next]_vars => [RowsStay]_vars
  BY NoRowIsLost
<1> QED BY <1>1, NewsInvariant, PTL DEF Spec

-----------------------------------------------------------------------------
(* Latest files and their clean-up *)

\* latest.json is written last, however often the list names it.
JsonIsLast == \A i \in 1..Len(Formats) : Formats[i] = "json" => i = Len(Formats)

\* A latest file is about a run that has begun.
LatestBegan ==
    /\ latest \in [Format -> {NoRun} \cup (Processes \X Nat)]
    /\ \A f \in Format : \A p \in Processes, n \in Nat :
            latest[f] = <<p, n>> => n <= begun[p]

\* What the latest files say of the run of p while it lasts.
MyLatest(p) ==
    /\ pc[p] # "idle" /\ written[p] = 0 => \A f \in Format : latest[f] # Run(p)
    /\ pc[p] # "idle" /\ JsonIsLast /\ written[p] # Len(Formats) => ~ IsLatest(Run(p))
    /\ ephemeral[p] /\ alone[p] => \A i \in 1..written[p] : latest[Formats[i]] = Run(p)

\* What the clean-up read of latest.json goes on to hold.
MyCleanup(p) ==
    /\ pc[p] \in {"closed", "cleanLatest"} => ephemeral[p]
    /\ pc[p] = "cleanLatest" =>
        /\ \A r \in reports : r[1] # Run(p)
        /\ wasLatest[p] => written[p] # 0 /\ (JsonIsLast => written[p] = Len(Formats))
        /\ alone[p] /\ written[p] = Len(Formats) /\ "json" \in Format => wasLatest[p]

MyStage(p) ==
    /\ written[p] \in {-1} \cup 0..Len(Formats)
    /\ pc[p] \notin {"deliver", "closed", "cleanLatest"} => written[p] = 0

FilesInv ==
    /\ LatestBegan
    /\ \A p \in Processes : MyStage(p) /\ MyLatest(p) /\ MyCleanup(p)

LEMMA FilesInvInit == Init => FilesInv
<1> SUFFICES ASSUME Init PROVE FilesInv
  OBVIOUS
<1>1. /\ latest = [f \in Format |-> NoRun] /\ reports = {}
      /\ pc = [p \in Processes |-> "idle"] /\ written = [p \in Processes |-> 0]
      /\ ephemeral = [p \in Processes |-> FALSE]
  BY DEF Init, FilesInit
<1>2. LatestBegan
  BY <1>1, RunsAssumption DEF LatestBegan
<1>3. ASSUME NEW p \in Processes PROVE MyStage(p) /\ MyLatest(p) /\ MyCleanup(p)
  BY <1>1, RunsAssumption DEF MyStage, MyLatest, MyCleanup
<1> QED BY <1>2, <1>3 DEF FilesInv

\* What the steps of others leave of the files of p's run.
Respects(p) ==
    /\ \A f \in Format : latest'[f] = Run(p) => latest[f] = Run(p)
    /\ \A r \in reports' : r[1] = Run(p) => r \in reports
    /\ alone'[p] => alone[p]
    /\ alone'[p] /\ ephemeral[p] /\ written[p] # 0 => latest' = latest

\* A step that changes no latest file and nobody's aloneness but its own.
LEMMA QuietRespects ==
    ASSUME Framed, NEW q \in Processes, NEW p \in Processes, p # q,
           latest' = latest,
           \A r \in reports' : r \in reports \/ r[1] = Run(q),
           alone' = alone \/ alone' = [alone EXCEPT ![q] = TRUE]
    PROVE  Respects(p)
<1>1. Run(p) # Run(q)
  BY DEF Run
<1>2. alone'[p] = alone[p]
  BY DEF Framed
<1> QED BY <1>1, <1>2 DEF Respects

LEMMA OthersRespect ==
    ASSUME Framed, FilesInv, NEW q \in Processes, Step(q), NEW p \in Processes, p # q
    PROVE  Respects(p)
<1>1. CASE Start(q) \/ Collect(q) \/ Write(q) \/ Analyse(q)
  BY <1>1, QuietRespects DEF Start, Collect, Write, Analyse, fileVars, outVars
<1>2. CASE Clash(q) \/ Leave(q) \/ Finish(q)
  <2>1. PICK measured : Close(q, measured)
    BY <1>2 DEF Clash, Leave, Finish
  <2>2. latest' = latest /\ reports' = reports
        /\ (alone' = alone \/ alone' = [alone EXCEPT ![q] = TRUE])
    BY <2>1 DEF Close, fileVars, outVars
  <2> QED BY <2>2, QuietRespects
<1>3. CASE Kill(q)
  BY <1>3, QuietRespects DEF Kill, fileVars
<1>4. CASE EmitFails(q)
  BY <1>4, QuietRespects DEF EmitFails, WriteReport, fileVars
<1>5. CASE CleanRows(q)
  BY <1>5, QuietRespects DEF CleanRows, UnlinkReports
<1>6. CASE Emit(q)
  <2>1. PICK f \in Format : WriteFormat(Run(q), f)
    BY <1>6, RunsAssumption DEF Emit, Format
  <2>2. Run(p) # Run(q)
    BY DEF Run
  <2>3. alone'[p] <=> alone[p] /\ (~ ephemeral[p] \/ written[p] = 0)
    BY <1>6 DEF Emit, Alone
  <2>4. \A g \in Format : latest'[g] = Run(p) => latest[g] = Run(p)
    BY <2>1, <2>2 DEF WriteFormat, FilesInv, LatestBegan
  <2> QED BY <2>1, <2>2, <2>3, <2>4 DEF Respects, WriteFormat
<1>7. CASE CleanLatest(q)
  <2>1. CASE ~ wasLatest[q]
    BY <1>7, <2>1, QuietRespects DEF CleanLatest, UnlinkLatest
  <2>2. CASE wasLatest[q]
    <3>1. latest' = [f \in Format |-> NoRun] /\ reports' = reports
      BY <1>7, <2>2 DEF CleanLatest, UnlinkLatest
    <3>2. alone'[p] <=> alone[p] /\ (~ ephemeral[p] \/ written[p] = 0)
      BY <1>7, <2>2 DEF CleanLatest, Alone
    <3>3. Run(p) # NoRun
      BY RunsAssumption DEF Run, Framed
    <3> QED BY <3>1, <3>2, <3>3 DEF Respects
  <2> QED BY <2>1, <2>2
<1> QED BY <1>1, <1>2, <1>3, <1>4, <1>5, <1>6, <1>7 DEF Step

LEMMA RespectKeeps ==
    ASSUME FilesInv, NEW p \in Processes, Stays(p), Respects(p)
    PROVE  MyStage(p)' /\ MyLatest(p)' /\ MyCleanup(p)'
<1>1. MyStage(p) /\ MyLatest(p) /\ MyCleanup(p) /\ Run(p)' = Run(p)
  BY DEF FilesInv, Stays, Run
<1>2. MyStage(p)'
  BY <1>1 DEF MyStage, Stays
<1>3. MyLatest(p)'
  <2>1. IsLatest(Run(p))' => IsLatest(Run(p))
    BY <1>1 DEF IsLatest, Respects
  <2>2. ASSUME ephemeral[p], alone'[p], NEW i \in 1..written[p]
        PROVE  latest'[Formats[i]] = Run(p)
    <3>1. written[p] # 0
      BY <1>1, RunsAssumption DEF MyStage
    <3> QED BY <1>1, <2>2, <3>1 DEF MyLatest, Respects
  <2> QED BY <1>1, <2>1, <2>2 DEF MyLatest, Stays, Respects
<1>4. MyCleanup(p)'
  BY <1>1 DEF MyCleanup, Stays, Respects
<1> QED BY <1>2, <1>3, <1>4

\* The end of p's own run, from wherever it may end.
LEMMA OverKeeps ==
    ASSUME Framed, NEW p \in Processes, Over(p)
    PROVE  MyStage(p)' /\ MyLatest(p)' /\ MyCleanup(p)'
<1>1. pc'[p] = "idle" /\ written'[p] = 0 /\ ephemeral'[p] = FALSE
  BY DEF Over, Framed
<1> QED BY <1>1, RunsAssumption DEF MyStage, MyLatest, MyCleanup

LEMMA CloseKeeps ==
    ASSUME Framed, FilesInv, NEW p \in Processes, NEW measured, Close(p, measured),
           pc[p] \in {"collect", "write", "analyze", "deliver"}
    PROVE  MyStage(p)' /\ MyLatest(p)' /\ MyCleanup(p)'
<1>1. CASE Over(p)
  BY <1>1, OverKeeps
<1>2. CASE /\ ephemeral[p]
           /\ pc' = [pc EXCEPT ![p] = "closed"]
           /\ UNCHANGED <<begun, ephemeral, outVars, fileVars>>
  <2>1. pc'[p] = "closed"
    BY <1>2 DEF Framed
  <2>2. MyStage(p) /\ MyLatest(p) /\ Run(p)' = Run(p) /\ pc[p] # "idle"
    BY <1>2 DEF FilesInv, Run
  <2>3. IsLatest(Run(p))' <=> IsLatest(Run(p))
    BY <1>2, <2>2 DEF IsLatest, fileVars
  <2> QED BY <1>2, <2>1, <2>2, <2>3 DEF MyStage, MyLatest, MyCleanup, outVars, fileVars
<1> QED BY <1>1, <1>2 DEF Close

LEMMA EmitKeeps ==
    ASSUME Framed, FilesInv, NEW p \in Processes, Emit(p)
    PROVE  MyStage(p)' /\ MyLatest(p)' /\ MyCleanup(p)'
<1> DEFINE n == written[p] + 1
<1>1. /\ pc[p] = "deliver" /\ pc' = pc /\ written'[p] = n /\ ephemeral' = ephemeral
      /\ Run(p)' = Run(p)
  BY DEF Emit, Framed, Run
<1>2. n \in 1..Len(Formats) /\ written[p] = n - 1 /\ Formats[n] \in Format
      /\ written[p] # Len(Formats)
  BY RunsAssumption DEF Emit, Format
<1>3. latest' = [latest EXCEPT ![Formats[n]] = Run(p)]
  BY DEF Emit, WriteFormat
<1>4. alone'[p] => alone[p]
  BY DEF Emit, Alone
<1>5. MyLatest(p) /\ latest = [f \in Format |-> latest[f]]
  BY DEF FilesInv, LatestBegan
<1> HIDE DEF n
<1>6. JsonIsLast /\ n # Len(Formats) => ~ IsLatest(Run(p))'
  <2>1. SUFFICES ASSUME JsonIsLast, n # Len(Formats) PROVE ~ IsLatest(Run(p))'
    OBVIOUS
  <2>2. Formats[n] # "json" /\ ~ IsLatest(Run(p))
    BY <1>1, <1>2, <1>5, <2>1 DEF JsonIsLast, MyLatest
  <2> QED BY <1>1, <1>3, <2>2 DEF IsLatest
<1>7. ASSUME ephemeral[p], alone[p], NEW i \in 1..n PROVE latest'[Formats[i]] = Run(p)
  <2>1. i \in 1..Len(Formats) /\ Formats[i] \in Format
    BY <1>2, RunsAssumption DEF Format
  <2>2. CASE i = n
    BY <1>2, <1>3, <1>5, <2>2
  <2>3. CASE i # n
    <3>1. i \in 1..written[p]
      BY <1>2, <2>3, RunsAssumption
    <3> QED BY <1>3, <1>5, <1>7, <2>1, <3>1 DEF MyLatest
  <2> QED BY <2>2, <2>3
<1>8. n # 0
  BY <1>2, RunsAssumption
<1>9. MyLatest(p)'
  BY <1>1, <1>4, <1>6, <1>7, <1>8 DEF MyLatest
<1>10. MyStage(p)' /\ MyCleanup(p)'
  BY <1>1, <1>2 DEF MyStage, MyCleanup
<1> QED BY <1>9, <1>10

LEMMA EmitFailsKeeps ==
    ASSUME Framed, FilesInv, NEW p \in Processes, EmitFails(p)
    PROVE  MyStage(p)' /\ MyLatest(p)' /\ MyCleanup(p)'
<1>1. /\ pc[p] = "deliver" /\ pc' = pc /\ written'[p] = -1 /\ ephemeral' = ephemeral
      /\ Run(p)' = Run(p) /\ written[p] \in 0..(Len(Formats) - 1) /\ latest' = latest
  BY DEF EmitFails, WriteReport, fileVars, Framed, Run
<1>2. JsonIsLast => ~ IsLatest(Run(p))
  BY <1>1, RunsAssumption DEF FilesInv, MyLatest
<1>3. IsLatest(Run(p))' <=> IsLatest(Run(p))
  BY <1>1 DEF IsLatest
<1>4. MyLatest(p)'
  BY <1>1, <1>2, <1>3 DEF MyLatest
<1>5. MyStage(p)' /\ MyCleanup(p)'
  BY <1>1 DEF MyStage, MyCleanup
<1> QED BY <1>4, <1>5

LEMMA StartKeeps ==
    ASSUME Framed, FilesInv, NEW p \in Processes, Start(p)
    PROVE  MyStage(p)' /\ MyLatest(p)' /\ MyCleanup(p)'
<1>1. /\ pc[p] = "idle" /\ pc'[p] = "collect" /\ written' = written /\ latest' = latest
      /\ begun'[p] = begun[p] + 1 /\ begun[p] \in Nat
  BY DEF Start, Goto, outVars, fileVars, Framed
<1>2. written[p] = 0
  BY <1>1 DEF FilesInv, MyStage
<1>3. Run(p)' = <<p, begun[p] + 1>>
  BY <1>1 DEF Run
<1>4. \A f \in Format : latest[f] # <<p, begun[p] + 1>>
  BY <1>1 DEF FilesInv, LatestBegan
<1>5. ~ IsLatest(Run(p))'
  BY <1>1, <1>3, <1>4 DEF IsLatest, Format
<1> QED BY <1>1, <1>2, <1>3, <1>4, <1>5, RunsAssumption DEF MyStage, MyLatest, MyCleanup

LEMMA AdvanceKeeps ==
    ASSUME Framed, FilesInv, NEW p \in Processes, Collect(p) \/ Write(p) \/ Analyse(p)
    PROVE  MyStage(p)' /\ MyLatest(p)' /\ MyCleanup(p)'
<1>1. /\ pc[p] \in {"collect", "write", "analyze"} /\ pc'[p] \in {"write", "analyze", "deliver"}
      /\ UNCHANGED <<written, latest, begun, alone, ephemeral>>
  BY DEF Collect, Write, Analyse, Goto, outVars, fileVars, Framed
<1>2. written[p] = 0 /\ MyLatest(p) /\ Run(p)' = Run(p)
  BY <1>1 DEF FilesInv, MyStage, Run
<1>3. IsLatest(Run(p))' <=> IsLatest(Run(p))
  BY <1>1, <1>2 DEF IsLatest
<1> QED BY <1>1, <1>2, <1>3, RunsAssumption DEF MyStage, MyLatest, MyCleanup

LEMMA CleanRowsKeeps ==
    ASSUME Framed, FilesInv, NEW p \in Processes, CleanRows(p)
    PROVE  MyStage(p)' /\ MyLatest(p)' /\ MyCleanup(p)'
<1>1. /\ pc[p] = "closed" /\ pc'[p] = "cleanLatest" /\ wasLatest'[p] = IsLatest(Run(p))
      /\ UNCHANGED <<written, latest, begun, alone, ephemeral>>
      /\ reports' = {r \in reports : r[1] # Run(p)}
  BY DEF CleanRows, UnlinkReports, Goto, Framed
<1>2. MyStage(p) /\ MyLatest(p) /\ ephemeral[p] /\ Run(p)' = Run(p)
  BY <1>1 DEF FilesInv, MyCleanup, Run
<1>3. IsLatest(Run(p))' <=> IsLatest(Run(p))
  BY <1>1, <1>2 DEF IsLatest
<1>4. MyStage(p)' /\ MyLatest(p)'
  BY <1>1, <1>2, <1>3 DEF MyStage, MyLatest
<1>5. IsLatest(Run(p)) => written[p] # 0 /\ (JsonIsLast => written[p] = Len(Formats))
  BY <1>1, <1>2 DEF MyLatest, IsLatest
<1>6. ASSUME alone[p], written[p] = Len(Formats), "json" \in Format PROVE IsLatest(Run(p))
  <2>1. PICK i \in 1..Len(Formats) : Formats[i] = "json"
    BY <1>6 DEF Format
  <2> QED BY <1>2, <1>6, <2>1 DEF MyLatest, IsLatest
<1>7. MyCleanup(p)'
  BY <1>1, <1>2, <1>5, <1>6 DEF MyCleanup
<1> QED BY <1>4, <1>7

LEMMA LatestStep ==
    ASSUME Framed, FilesInv, NEW p \in Processes, Step(p)
    PROVE  LatestBegan'
<1>1. \A q \in Processes : begun[q] \in Nat /\ begun'[q] \in Nat /\ begun[q] <= begun'[q]
  <2>1. begun' = begun \/ begun' = [begun EXCEPT ![p] = @ + 1]
    BY DEF Step, Start, Collect, Write, Clash, Leave, Kill, Analyse, Emit, EmitFails,
           Finish, CleanRows, CleanLatest, Close, Over
  <2> QED BY <2>1 DEF Framed
<1>2. CASE latest' = latest
  BY <1>1, <1>2 DEF FilesInv, LatestBegan
<1>3. CASE latest' = [f \in Format |-> NoRun]
  BY <1>1, <1>3, RunsAssumption DEF LatestBegan
<1>4. CASE Emit(p)
  <2>1. PICK f \in Format : latest' = [latest EXCEPT ![f] = Run(p)]
    <3>1. Formats[written[p] + 1] \in Format
      BY <1>4, RunsAssumption DEF Emit, Format
    <3>2. latest' = [latest EXCEPT ![Formats[written[p] + 1]] = Run(p)]
      BY <1>4 DEF Emit, WriteFormat
    <3> QED BY <3>1, <3>2
  <2>2. Run(p) = <<p, begun[p]>> /\ Run(p) \in Processes \X Nat
    BY <1>1 DEF Run
  <2>3. latest \in [Format -> {NoRun} \cup (Processes \X Nat)]
    BY DEF FilesInv, LatestBegan
  <2>4. latest' \in [Format -> {NoRun} \cup (Processes \X Nat)]
    BY <2>1, <2>2, <2>3
  <2>5. ASSUME NEW g \in Format, NEW q \in Processes, NEW n \in Nat, latest'[g] = <<q, n>>
        PROVE  n <= begun'[q]
    <3>1. CASE g = f
      <4>1. <<q, n>> = <<p, begun[p]>>
        BY <2>1, <2>2, <2>3, <2>5, <3>1
      <4> QED BY <1>1, <4>1
    <3>2. CASE g # f
      <4>1. latest[g] = <<q, n>>
        BY <2>1, <2>3, <2>5, <3>2
      <4>2. n <= begun[q]
        BY <4>1 DEF FilesInv, LatestBegan
      <4> QED BY <1>1, <4>2
    <3> QED BY <3>1, <3>2
  <2> QED BY <2>4, <2>5 DEF LatestBegan
<1>5. Emit(p) \/ latest' = latest \/ latest' = [f \in Format |-> NoRun]
  BY DEF Step, Start, Collect, Write, Clash, Leave, Kill, Analyse, EmitFails, WriteReport,
         Finish, CleanRows, UnlinkReports, CleanLatest, UnlinkLatest, Close, Over, fileVars
<1> QED BY <1>2, <1>3, <1>4, <1>5

LEMMA FilesStep == Framed /\ FilesInv /\ [Next]_vars => FilesInv'
<1> SUFFICES ASSUME Framed, FilesInv, [Next]_vars PROVE FilesInv'
  OBVIOUS
<1>1. CASE UNCHANGED vars \/ Tick
  <2>1. UNCHANGED <<fileVars, pc, begun, ephemeral, outVars>>
    BY <1>1 DEF vars, Tick, runVars
  <2>2. LatestBegan'
    BY <2>1 DEF fileVars, FilesInv, LatestBegan
  <2>3. ASSUME NEW p \in Processes PROVE MyStage(p)' /\ MyLatest(p)' /\ MyCleanup(p)'
    <3>1. Run(p)' = Run(p) /\ IsLatest(Run(p))' = IsLatest(Run(p))
      BY <2>1 DEF Run, IsLatest, fileVars
    <3>2. MyStage(p) /\ MyLatest(p) /\ MyCleanup(p)
      BY DEF FilesInv
    <3> QED BY <2>1, <3>1, <3>2 DEF MyStage, MyLatest, MyCleanup, outVars, fileVars
  <2> QED BY <2>2, <2>3 DEF FilesInv
<1>2. ASSUME NEW p \in Processes, Step(p) PROVE FilesInv'
  <2>1. ASSUME NEW q \in Processes, q # p PROVE MyStage(q)' /\ MyLatest(q)' /\ MyCleanup(q)'
    <3>1. Stays(q)
      BY <1>2, <2>1, StepTouches, TouchesIsLocal
    <3>2. Respects(q)
      BY <1>2, <2>1, OthersRespect
    <3> QED BY <3>1, <3>2, RespectKeeps
  <2>2. MyStage(p)' /\ MyLatest(p)' /\ MyCleanup(p)'
    <3>1. CASE Clash(p) \/ Leave(p) \/ Finish(p)
      <4>1. PICK measured : Close(p, measured)
        BY <3>1 DEF Clash, Leave, Finish
      <4>2. pc[p] \in {"collect", "write", "analyze", "deliver"}
        BY <3>1 DEF Clash, Leave, Finish
      <4> QED BY <4>1, <4>2, CloseKeeps
    <3>2. CASE Kill(p) \/ CleanLatest(p)
      BY <3>2, OverKeeps DEF Kill, CleanLatest
    <3> QED BY <1>2, <3>1, <3>2, StartKeeps, AdvanceKeeps, EmitKeeps, EmitFailsKeeps,
               CleanRowsKeeps DEF Step
  <2>3. LatestBegan'
    BY <1>2, LatestStep
  <2> QED BY <2>1, <2>2, <2>3 DEF FilesInv
<1> QED BY <1>1, <1>2 DEF Next, Rest

\* The clean-up finds in the latest files what it read in latest.json.
LEMMA CleanupRemoves ==
    ASSUME Framed, FilesInv, NEW p \in Processes, CleanLatest(p), alone[p]
    PROVE  /\ written[p] \in {0, Len(Formats)} \/ JsonIsLast
              => \A f \in Format : latest[f] \in {latest'[f], Run(p)}
           /\ written[p] = Len(Formats) /\ "json" \in Format => LeftOf(Run(p))' = {}
<1>1. /\ pc[p] = "cleanLatest" /\ reports' = reports /\ begun' = begun
      /\ latest' = IF wasLatest[p] THEN [f \in Format |-> NoRun] ELSE latest
  BY DEF CleanLatest, UnlinkLatest, Over
<1>2. MyCleanup(p) /\ MyLatest(p) /\ ephemeral[p]
  BY <1>1 DEF FilesInv, MyCleanup
<1>3. written[p] = Len(Formats) => \A f \in Format : latest[f] = Run(p)
  BY <1>2 DEF MyLatest, Format
<1>4. ASSUME written[p] \in {0, Len(Formats)} \/ JsonIsLast, NEW f \in Format
      PROVE  latest[f] \in {latest'[f], Run(p)}
  <2>1. wasLatest[p] => written[p] = Len(Formats)
    BY <1>1, <1>2, <1>4 DEF MyCleanup
  <2> QED BY <1>1, <1>3, <2>1
<1>5. ASSUME written[p] = Len(Formats), "json" \in Format PROVE LeftOf(Run(p))' = {}
  <2>1. Run(p)' = Run(p) /\ Run(p) # NoRun
    BY <1>1, RunsAssumption DEF Run, Framed
  <2>2. wasLatest[p] /\ \A r \in reports : r[1] # Run(p)
    BY <1>1, <1>2, <1>5 DEF MyCleanup
  <2>3. latest' = [f \in Format |-> NoRun]
    BY <1>1, <2>2
  <2> QED BY <1>1, <2>1, <2>2, <2>3 DEF LeftOf
<1> QED BY <1>4, <1>5

\* The inductive invariant of the latest files: which of them are about the run
\* a process is at, and what that says once its clean-up has read latest.json.
THEOREM FilesInvariant == Spec => [](Framed /\ FilesInv)
<1>1. Init => Framed /\ FilesInv
  BY FramedInit, FilesInvInit
<1>2. Framed /\ FilesInv /\ [Next]_vars => (Framed /\ FilesInv)'
  BY FramedStep, FilesStep
<1> QED BY <1>1, <1>2, PTL DEF Spec

\* The clean-up of an ephemeral run that had the latest files to itself removes
\* no other run's and leaves none of its own.
THEOREM CleanupsAreExact == Spec => CleanupIsExact
<1>1. Framed /\ FilesInv => [\A p \in Processes :
        CleanLatest(p) /\ alone[p] =>
            /\ \/ written[p] \in {0, Len(Formats)}
               \/ \A i \in 1..Len(Formats) : Formats[i] = "json" => i = Len(Formats)
               => \A f \in Format : latest[f] \in {latest'[f], Run(p)}
            /\ written[p] = Len(Formats) /\ "json" \in Format => LeftOf(Run(p))' = {}]_vars
  BY CleanupRemoves DEF JsonIsLast
<1> QED BY <1>1, FilesInvariant, PTL DEF CleanupIsExact

=============================================================================
