--------------------------- MODULE AnalysisProofs ---------------------------
(***************************************************************************)
(* What a report of the analyzers is worth, for any scenes, limits and     *)
(* profile.                                                                *)
(*                                                                         *)
(* What happened never has two incidents of one line, so the analyzers'    *)
(* events can be counted by what they tell of (Recorded), and a report is  *)
(* made once, of all that happened until then (Analysed).  A property of a *)
(* report then follows from what the queries return: each section below    *)
(* goes from incidents to their lines, from lines to their events, and     *)
(* from events to what an analyzer makes of them.                          *)
(***************************************************************************)
EXTENDS Analysis, FiniteSetTheorems, SequenceTheorems, WellFoundedInduction, TLAPS

-----------------------------------------------------------------------------
(* Counting *)

\* Induction, for a set instead of a predicate: over numbers ...
LEMMA NatSets ==
    ASSUME NEW S, 0 \in S, \A n \in Nat : n \in S => n + 1 \in S
    PROVE  Nat \subseteq S
<1> DEFINE T == Nat \ S
           R == OpToRel(<, Nat)
<1>1. SUFFICES ASSUME T # {} PROVE FALSE
  OBVIOUS
<1>2. IsWellFoundedOn(R, Nat)
  BY NatLessThanWellFounded
<1>3. PICK x \in T : \A y \in T : ~ (<<y, x>> \in R)
  <2> HIDE DEF R
  <2>1. T \subseteq Nat
    OBVIOUS
  <2> HIDE DEF T
  <2> QED BY <1>1, <1>2, <2>1, WFMin
<1>4. x \in Nat /\ x # 0 /\ x - 1 \in Nat /\ x - 1 \in T
  OBVIOUS
<1>5. <<x - 1, x>> \in R
  BY <1>4 DEF OpToRel
<1> QED BY <1>3, <1>4, <1>5

\* ... and over the subsets of a finite set.
LEMMA SetInduction ==
    ASSUME NEW S, IsFiniteSet(S), NEW P, {} \in P,
           \A T \in SUBSET S : \A x \in S \ T : T \in P => T \cup {x} \in P
    PROVE  S \in P
<1> DEFINE N == {n \in Nat : \A T \in SUBSET S : Cardinality(T) = n => T \in P}
<1>1. \A T \in SUBSET S : IsFiniteSet(T) /\ Cardinality(T) \in Nat
  BY FS_Subset, FS_CardinalityType
<1>2. 0 \in N
  BY <1>1, FS_EmptySet
<1>3. ASSUME NEW n \in Nat, n \in N PROVE n + 1 \in N
  <2> SUFFICES ASSUME NEW T \in SUBSET S, Cardinality(T) = n + 1 PROVE T \in P
    OBVIOUS
  <2>1. PICK x \in T : TRUE
    BY <1>1, FS_EmptySet
  <2>2. Cardinality(T \ {x}) = n
    <3>1. IsFiniteSet(T)
      BY <1>1
    <3>2. Cardinality(T \ {x}) = Cardinality(T) - 1
      BY <2>1, <3>1, FS_RemoveElement
    <3> QED BY <3>2
  <2>3. T \ {x} \in P
    BY <1>3, <2>2
  <2>4. (T \ {x}) \cup {x} = T
    OBVIOUS
  <2> QED BY <2>3, <2>4
<1> HIDE DEF N
<1>4. Nat \subseteq N
  BY <1>2, <1>3, NatSets
<1> QED BY <1>1, <1>4 DEF N

\* What finitely many make is finite, and no more than they are.
LEMMA ImageIsSmall ==
    ASSUME NEW S, IsFiniteSet(S), NEW f
    PROVE  LET T == {f[x] : x \in S}
           IN  IsFiniteSet(T) /\ Cardinality(T) \in Nat /\ Cardinality(T) <= Cardinality(S)
<1> DEFINE T == {f[x] : x \in S}
           g == [x \in S |-> f[x]]
<1>1. g \in Surjection(S, T)
  BY DEF Surjection
<1> HIDE DEF g, T
<1>2. IsFiniteSet(T) /\ Cardinality(T) <= Cardinality(S)
  BY <1>1, FS_Surjection
<1> QED BY <1>2, FS_CardinalityType DEF T

\* Those told apart by what they make are as many as that.
LEMMA ToldApart ==
    ASSUME NEW S, IsFiniteSet(S), NEW f, \A x, y \in S : f[x] = f[y] => x = y
    PROVE  Cardinality({f[x] : x \in S}) = Cardinality(S)
<1> DEFINE T == {f[x] : x \in S}
           g == [x \in S |-> f[x]]
<1>1. g \in Surjection(S, T) /\ g \in Injection(S, T)
  BY DEF Surjection, Injection, IsInjective
<1> HIDE DEF g, T
<1>2. Cardinality(T) = Cardinality(S)
  BY <1>1, FS_Surjection
<1> QED BY <1>2 DEF T

LEMMA SubsetIsSmall ==
    ASSUME NEW S, IsFiniteSet(S), NEW T, T \subseteq S
    PROVE  IsFiniteSet(T) /\ Cardinality(T) \in Nat /\ Cardinality(S) \in Nat
           /\ Cardinality(T) <= Cardinality(S)
BY FS_Subset, FS_CardinalityType

LEMMA DisjointAdds ==
    ASSUME NEW S, IsFiniteSet(S), NEW T, IsFiniteSet(T), S \cap T = {}
    PROVE  IsFiniteSet(S \cup T) /\ Cardinality(S \cup T) = Cardinality(S) + Cardinality(T)
<1>1. Cardinality(S) \in Nat /\ Cardinality(T) \in Nat /\ Cardinality(S \cap T) = 0
  BY FS_CardinalityType, FS_EmptySet
<1>2. IsFiniteSet(S \cup T)
      /\ Cardinality(S \cup T) = Cardinality(S) + Cardinality(T) - Cardinality(S \cap T)
  BY FS_Union
<1> QED BY ONLY <1>1, <1>2

\* Of each member of R a number of things, each marked by whose it is.
Fibres(a, R) == UNION {{<<x, k>> : k \in a[x]} : x \in R}

LEMMA OneFibre ==
    ASSUME NEW x, NEW K, IsFiniteSet(K)
    PROVE  LET F == {<<x, k>> : k \in K} IN IsFiniteSet(F) /\ Cardinality(F) = Cardinality(K)
<1> DEFINE f == [k \in K |-> <<x, k>>]
           F == {f[k] : k \in K}
<1>1. F = {<<x, k>> : k \in K}
  OBVIOUS
<1>2. \A k, m \in K : f[k] = f[m] => k = m
  OBVIOUS
<1> HIDE DEF f
<1>3. IsFiniteSet(F) /\ Cardinality(F) = Cardinality(K)
  BY <1>2, ImageIsSmall, ToldApart
<1> QED BY <1>1, <1>3

LEMMA FibreAdds ==
    ASSUME NEW a, NEW T, NEW x, x \notin T, IsFiniteSet(Fibres(a, T)), IsFiniteSet(a[x])
    PROVE  /\ IsFiniteSet(Fibres(a, T \cup {x}))
           /\ Cardinality(Fibres(a, T \cup {x})) = Cardinality(Fibres(a, T)) + Cardinality(a[x])
<1> DEFINE F == {<<x, k>> : k \in a[x]}
           G == Fibres(a, T)
<1>1. Fibres(a, T \cup {x}) = G \cup F /\ G \cap F = {}
  BY DEF Fibres
<1>2. IsFiniteSet(F) /\ Cardinality(F) = Cardinality(a[x])
  BY OneFibre
<1> HIDE DEF F, G
<1>3. IsFiniteSet(G)
  BY DEF G
<1> QED BY <1>1, <1>2, <1>3, DisjointAdds DEF G

LEMMA FibresAreFinite ==
    ASSUME NEW R, IsFiniteSet(R), NEW a, \A x \in R : IsFiniteSet(a[x])
    PROVE  IsFiniteSet(Fibres(a, R)) /\ Cardinality(Fibres(a, R)) \in Nat
<1> DEFINE P == {T \in SUBSET R : IsFiniteSet(Fibres(a, T))}
<1>1. {} \in P
  BY FS_EmptySet DEF Fibres
<1>2. ASSUME NEW T \in SUBSET R, NEW x \in R \ T, T \in P PROVE T \cup {x} \in P
  BY <1>2, FibreAdds
<1> HIDE DEF P
<1>3. R \in P
  BY <1>1, <1>2, SetInduction
<1> QED BY <1>3, FS_CardinalityType DEF P

\* If each has at most c times as many of the ones as of the others, all have.
LEMMA FibresCompare ==
    ASSUME NEW R, IsFiniteSet(R), NEW a, NEW b, NEW c \in Nat,
           \A x \in R : /\ IsFiniteSet(a[x]) /\ IsFiniteSet(b[x])
                        /\ Cardinality(a[x]) <= c * Cardinality(b[x])
    PROVE  Cardinality(Fibres(a, R)) <= c * Cardinality(Fibres(b, R))
<1> DEFINE A(T) == Fibres(a, T)
           B(T) == Fibres(b, T)
           P == {T \in SUBSET R : /\ IsFiniteSet(A(T)) /\ IsFiniteSet(B(T))
                                  /\ Cardinality(A(T)) <= c * Cardinality(B(T))}
<1>1. {} \in P
  BY FS_EmptySet DEF Fibres
<1>2. ASSUME NEW T \in SUBSET R, NEW x \in R \ T, T \in P PROVE T \cup {x} \in P
  <2>1. /\ IsFiniteSet(A(T)) /\ IsFiniteSet(B(T))
        /\ Cardinality(A(T)) <= c * Cardinality(B(T))
    BY <1>2
  <2>2. /\ IsFiniteSet(A(T \cup {x})) /\ IsFiniteSet(B(T \cup {x}))
        /\ Cardinality(A(T \cup {x})) = Cardinality(A(T)) + Cardinality(a[x])
        /\ Cardinality(B(T \cup {x})) = Cardinality(B(T)) + Cardinality(b[x])
    BY <2>1, FibreAdds
  <2>3. Cardinality(a[x]) <= c * Cardinality(b[x])
    OBVIOUS
  <2>4. /\ Cardinality(A(T)) \in Nat /\ Cardinality(B(T)) \in Nat
        /\ Cardinality(a[x]) \in Nat /\ Cardinality(b[x]) \in Nat
    BY <2>1, FS_CardinalityType
  <2>5. Cardinality(A(T \cup {x})) <= c * Cardinality(B(T \cup {x}))
    <3> DEFINE p == Cardinality(A(T))
               q == Cardinality(B(T))
               m == Cardinality(a[x])
               n == Cardinality(b[x])
    <3>1. p \in Nat /\ q \in Nat /\ m \in Nat /\ n \in Nat /\ p <= c * q /\ m <= c * n
      BY <2>1, <2>3, <2>4
    <3> HIDE DEF p, q, m, n
    <3>2. c * q \in Nat /\ c * n \in Nat /\ c * (q + n) = c * q + c * n
      BY <3>1
    <3> HIDE DEF A, B
    <3>3. p + m <= c * (q + n)
      BY <3>1, <3>2
    <3> QED BY <2>2, <3>3 DEF p, q, m, n
  <2> QED BY <2>2, <2>5
<1> HIDE DEF P
<1>3. R \in P
  BY <1>1, <1>2, SetInduction
<1> QED BY <1>3 DEF P

-----------------------------------------------------------------------------
(* Sums *)

\* What a fold over a set adds up, where the set's members are taken in the order
\* in which CHOOSE picks them.
Folds_(it, w, R) ==
    it = [s \in SUBSET R |-> IF s = {} THEN 0
                             ELSE w[CHOOSE x \in s : TRUE] + it[s \ {CHOOSE x \in s : TRUE}]]

\* As many as a number says.
Units(w, R) == [x \in R |-> 1..w[x]]

LEMMA SumAdds ==
    ASSUME NEW w, NEW R, NEW T \in SUBSET R, NEW x \in R, x \notin T, w[x] \in Nat,
           IsFiniteSet(Fibres(Units(w, R), T))
    PROVE  /\ IsFiniteSet(Fibres(Units(w, R), T \cup {x}))
           /\ Cardinality(Fibres(Units(w, R), T \cup {x}))
                = Cardinality(Fibres(Units(w, R), T)) + w[x]
<1>1. Units(w, R)[x] = 1..w[x]
  BY DEF Units
<1>2. IsFiniteSet(1..w[x]) /\ Cardinality(1..w[x]) = w[x]
  BY FS_Interval
<1> QED BY <1>1, <1>2, FibreAdds

\* A sum is the number of all units.
LEMMA FoldIsCount ==
    ASSUME NEW R, IsFiniteSet(R), NEW w, \A x \in R : w[x] \in Nat, NEW it, Folds_(it, w, R)
    PROVE  it[R] = Cardinality(Fibres(Units(w, R), R))
<1> DEFINE u == Units(w, R)
           N == {n \in Nat : \A T \in SUBSET R : Cardinality(T) = n =>
                    IsFiniteSet(Fibres(u, T)) /\ it[T] = Cardinality(Fibres(u, T))}
<1>1. \A T \in SUBSET R : IsFiniteSet(T) /\ Cardinality(T) \in Nat
  BY FS_Subset, FS_CardinalityType
<1>2. \A T \in SUBSET R : it[T] = IF T = {} THEN 0
          ELSE w[CHOOSE x \in T : TRUE] + it[T \ {CHOOSE x \in T : TRUE}]
  BY DEF Folds_
<1>3. 0 \in N
  <2>1. Fibres(u, {}) = {}
    BY DEF Fibres
  <2>2. it[{}] = 0
    BY <1>2
  <2> QED BY <1>1, <2>1, <2>2, FS_EmptySet
<1>4. ASSUME NEW n \in Nat, n \in N PROVE n + 1 \in N
  <2> SUFFICES ASSUME NEW T \in SUBSET R, Cardinality(T) = n + 1
               PROVE  IsFiniteSet(Fibres(u, T)) /\ it[T] = Cardinality(Fibres(u, T))
    OBVIOUS
  <2>1. T # {}
    BY FS_EmptySet
  <2> DEFINE x == CHOOSE x \in T : TRUE
             S == T \ {x}
  <2>2. x \in T
    BY <2>1
  <2>3. it[T] = w[x] + it[S]
    BY <1>2, <2>1
  <2> HIDE DEF x
  <2>4. Cardinality(S) = n /\ S \in SUBSET R /\ S \cup {x} = T /\ x \notin S
    BY <1>1, <2>2, FS_RemoveElement
  <2>5. IsFiniteSet(Fibres(u, S)) /\ it[S] = Cardinality(Fibres(u, S))
    BY <1>4, <2>4
  <2>6. w[x] \in Nat /\ x \in R
    BY <2>2
  <2> HIDE DEF S, u
  <2>7. /\ IsFiniteSet(Fibres(u, T))
        /\ Cardinality(Fibres(u, T)) = Cardinality(Fibres(u, S)) + w[x]
    BY <2>4, <2>5, <2>6, SumAdds DEF u
  <2>8. Cardinality(Fibres(u, S)) \in Nat
    BY <2>5, FS_CardinalityType
  <2> QED BY <2>3, <2>5, <2>6, <2>7, <2>8
<1> HIDE DEF N
<1>5. Nat \subseteq N
  BY <1>3, <1>4, NatSets
<1> QED BY <1>1, <1>5 DEF N

\* There is such a table of sums.
LEMMA FoldExists ==
    ASSUME NEW R, IsFiniteSet(R), NEW w, \A x \in R : w[x] \in Nat
    PROVE  \E it : Folds_(it, w, R)
<1> DEFINE u == Units(w, R)
           it == [s \in SUBSET R |-> Cardinality(Fibres(u, s))]
<1>1. \A x \in R : u[x] = 1..w[x] /\ IsFiniteSet(u[x])
  BY FS_Interval DEF Units
<1>2. ASSUME NEW s \in SUBSET R, s # {}
      PROVE  LET x == CHOOSE x \in s : TRUE IN it[s] = w[x] + it[s \ {x}]
  <2> DEFINE x == CHOOSE x \in s : TRUE
             S == s \ {x}
  <2>1. x \in s
    BY <1>2
  <2> HIDE DEF x
  <2>2. S \in SUBSET R /\ x \in R /\ x \notin S /\ S \cup {x} = s
    BY <2>1
  <2>3. IsFiniteSet(S) /\ w[x] \in Nat
    BY <2>2, FS_Subset
  <2>4. IsFiniteSet(Fibres(u, S)) /\ Cardinality(Fibres(u, S)) \in Nat
    <3>1. \A y \in S : IsFiniteSet(u[y])
      BY <1>1
    <3> HIDE DEF u, S
    <3> QED BY <2>3, <3>1, FibresAreFinite
  <2>5. it[s] = Cardinality(Fibres(u, s)) /\ it[S] = Cardinality(Fibres(u, S))
    BY <2>2
  <2> HIDE DEF S, it, u
  <2>6. Cardinality(Fibres(u, s)) = Cardinality(Fibres(u, S)) + w[x]
    BY <2>2, <2>3, <2>4, SumAdds DEF u
  <2>7. it[s] = w[x] + it[S]
    BY <2>3, <2>4, <2>5, <2>6
  <2> QED BY <2>7 DEF S, x
<1>3. it[{}] = 0
  <2>1. Fibres(u, {}) = {}
    BY DEF Fibres
  <2> QED BY <2>1, FS_EmptySet
<1> HIDE DEF u
<1>4. \A s \in SUBSET R : it[s] = IF s = {} THEN 0
          ELSE w[CHOOSE x \in s : TRUE] + it[s \ {CHOOSE x \in s : TRUE}]
  BY <1>2, <1>3
<1>5. it = [s \in SUBSET R |-> it[s]]
  OBVIOUS
<1> HIDE DEF it
<1>6. Folds_(it, w, R)
  <2>1. it = [s \in SUBSET R |-> IF s = {} THEN 0
                             ELSE w[CHOOSE x \in s : TRUE] + it[s \ {CHOOSE x \in s : TRUE}]]
    BY ONLY <1>4, <1>5
  <2> QED BY <2>1 DEF Folds_
<1> QED BY <1>6

-----------------------------------------------------------------------------
(* The lines of an incident *)

\* Of the six sequences of an incident's lines, all but one are empty.
LEMMA Alone ==
    ASSUME NEW S, NEW s \in Seq(S)
    PROVE  /\ s \o <<>> = s
           /\ <<>> \o s = s
BY ConcatEmptySeq

\* Short sequences are sequences.
LEMMA Short ==
    ASSUME NEW a, NEW b, NEW c, NEW d, NEW e
    PROVE  \E S : /\ <<>> \in Seq(S) /\ <<a>> \in Seq(S) /\ <<a, b>> \in Seq(S)
                  /\ <<a, b, c>> \in Seq(S) /\ <<a, b, c, d, e>> \in Seq(S)
<1> DEFINE S == {a, b, c, d, e}
<1>1. a \in S /\ b \in S /\ c \in S /\ d \in S /\ e \in S
  OBVIOUS
<1> HIDE DEF S
<1>2. <<>> \in Seq(S) /\ <<a>> \in Seq(S) /\ <<a, b>> \in Seq(S) /\ <<a, b, c>> \in Seq(S)
         /\ <<a, b, c, d, e>> \in Seq(S)
  BY <1>1
<1> QED BY <1>2

LEMMA TableSeq ==
    ASSUME NEW S, NEW n \in Nat, NEW s \in [1..n -> S]
    PROVE  s \in Seq(S) /\ Len(s) = n
OBVIOUS

LEMMA ConcatThree ==
    ASSUME NEW T, NEW a \in T, NEW b \in T, NEW c \in T, NEW t \in Nat
    PROVE  <<a>> \o [n \in 1..t |-> b] \o <<c>> =
               [k \in 1..(t + 2) |-> IF k = 1 THEN a ELSE IF k = t + 2 THEN c ELSE b]
<1> DEFINE bs == [n \in 1..t |-> b]
           seq == [k \in 1..(t + 2) |-> IF k = 1 THEN a ELSE IF k = t + 2 THEN c ELSE b]
           ab == <<a>> \o bs
<1>1. bs \in Seq(T) /\ Len(bs) = t
  BY TableSeq
<1>2. <<a>> \in Seq(T) /\ <<c>> \in Seq(T) /\ Len(<<a>>) = 1 /\ Len(<<c>>) = 1
  OBVIOUS
<1>3. ab \in Seq(T) /\ Len(ab) = t + 1
  <2> HIDE DEF bs
  <2> QED BY <1>1, <1>2, ConcatProperties
<1>4. ab[1] = a
  BY <1>1, <1>2, ConcatProperties
<1>5. ASSUME NEW k \in 2..(t + 1) PROVE ab[k] = b
  <2>1. bs[k - 1] = b
    OBVIOUS
  <2> HIDE DEF bs
  <2>2. ab[k] = bs[k - 1]
    BY <1>1, <1>2, ConcatProperties
  <2> QED BY <2>1, <2>2
<1> HIDE DEF ab, bs
<1> DEFINE all == ab \o <<c>>
<1>6. all \in Seq(T) /\ Len(all) = t + 2
  BY <1>2, <1>3, ConcatProperties
<1>7. \A k \in 1..(t + 1) : all[k] = ab[k]
  BY <1>2, <1>3, ConcatProperties
<1>8. all[t + 2] = c
  BY <1>2, <1>3, ConcatProperties
<1> HIDE DEF all
<1>9. seq \in Seq(T) /\ Len(seq) = t + 2
  <2>1. seq \in [1..(t + 2) -> T]
    OBVIOUS
  <2> HIDE DEF seq
  <2> QED BY <2>1, TableSeq
<1>10. \A k \in 1..(t + 2) : all[k] = seq[k]
  <2> TAKE k \in 1..(t + 2)
  <2>1. CASE k = 1
    BY <1>4, <1>7, <2>1
  <2>2. CASE k \in 2..(t + 1)
    <3>1. all[k] = b
      BY <1>5, <1>7, <2>2
    <3> QED BY <2>2, <3>1
  <2>3. CASE k = t + 2
    BY <1>8, <2>3
  <2> QED BY <2>1, <2>2, <2>3
<1>11. all = seq
  <2> HIDE DEF seq
  <2> QED BY <1>6, <1>9, <1>10, SeqEqual
<1> QED BY <1>11 DEF ab, bs, all

SshdWhats == {"sshd logon", "sshd guess", "sshd guess, unknown user"}
DropbearWhats ==
    {"dropbear logon", "dropbear guess", "dropbear guess, unknown user", "dropbear visit"}
WindowsWhats == {"windows logon", "windows refusal"}
WebWhats == {"luci logon", "luci refusal", "panel logon", "panel refusal"}
OtherWhats == {"deauth", "dnsmasq restart"}
Whats ==
    SshdWhats \cup DropbearWhats \cup WindowsWhats \cup WebWhats \cup Statuses \cup Verdicts
        \cup OtherWhats

\* The numbers of an incident.
LEMMA IncidentTyped ==
    ASSUME NEW i, IsIncident(i)
    PROVE  i.tries \in Nat \ {0} /\ i.tries \in Nat /\ i.ttl \in Nat \ {0} /\ i.len \in Nat
<1>1. i.tries \in Nat \ {0} /\ i.ttl \in Nat \ {0} /\ i.len \in Nat
  BY Zenon DEF IsIncident
<1> QED BY ONLY <1>1

LEMMA TwoMore == \A n \in Nat : n + 2 \in Nat
OBVIOUS

LEMMA SshdSays ==
    ASSUME NEW i, i.what \in SshdWhats
    PROVE  LinesOf(i) = SshdLines(i)
<1>1. \E S : SshdLines(i) \in Seq(S)
  BY Short DEF SshdLines, SshdWhats
<1>2. /\ DropbearLines(i) = <<>> /\ WindowsLines(i) = <<>> /\ WebLines(i) = <<>>
      /\ LookupLines(i) = <<>> /\ OtherLines(i) = <<>>
  BY DEF SshdWhats, DropbearLines, WindowsLines, WebLines, LookupLines, OtherLines, Statuses,
         Verdicts
<1> QED BY <1>1, <1>2, Alone DEF LinesOf

LEMMA WindowsSays ==
    ASSUME NEW i, i.what \in WindowsWhats
    PROVE  LinesOf(i) = WindowsLines(i)
<1>1. \E S : WindowsLines(i) \in Seq(S)
  BY Short DEF WindowsLines, WindowsWhats
<1>2. /\ SshdLines(i) = <<>> /\ DropbearLines(i) = <<>> /\ WebLines(i) = <<>>
      /\ LookupLines(i) = <<>> /\ OtherLines(i) = <<>>
  BY DEF WindowsWhats, SshdLines, DropbearLines, WebLines, LookupLines, OtherLines, Statuses,
         Verdicts
<1>3. \E S : <<>> \in Seq(S)
  BY Short
<1> QED BY <1>1, <1>2, <1>3, Alone DEF LinesOf

LEMMA WebSays ==
    ASSUME NEW i, i.what \in WebWhats
    PROVE  LinesOf(i) = WebLines(i)
<1>1. \E S : WebLines(i) \in Seq(S)
  BY Short DEF WebLines, WebWhats
<1>2. /\ SshdLines(i) = <<>> /\ DropbearLines(i) = <<>> /\ WindowsLines(i) = <<>>
      /\ LookupLines(i) = <<>> /\ OtherLines(i) = <<>>
  BY DEF WebWhats, SshdLines, DropbearLines, WindowsLines, LookupLines, OtherLines, Statuses,
         Verdicts
<1>3. \E S : <<>> \in Seq(S)
  BY Short
<1> QED BY <1>1, <1>2, <1>3, Alone DEF LinesOf

LEMMA LookupSays ==
    ASSUME NEW i, i.what \in Statuses
    PROVE  LinesOf(i) = LookupLines(i)
<1>1. \E S : LookupLines(i) \in Seq(S)
  BY Short DEF LookupLines
<1>2. /\ SshdLines(i) = <<>> /\ DropbearLines(i) = <<>> /\ WindowsLines(i) = <<>>
      /\ WebLines(i) = <<>> /\ OtherLines(i) = <<>>
  BY DEF Statuses, SshdLines, DropbearLines, WindowsLines, WebLines, OtherLines, Verdicts
<1>3. \E S : <<>> \in Seq(S)
  BY Short
<1> QED BY <1>1, <1>2, <1>3, Alone DEF LinesOf

LEMMA OtherSays ==
    ASSUME NEW i, i.what \in Verdicts \cup OtherWhats, IsIncident(i)
    PROVE  LinesOf(i) = OtherLines(i)
<1>1. \E S : OtherLines(i) \in Seq(S)
  <2>1. CASE i.what \in Verdicts
    <3> DEFINE f == [k \in 1..i.tries |->
                [Line("kernel", i.what) EXCEPT !.ip = i.ip, !.dst = i.dst, !.port = i.port,
                     !.detail = i.detail, !.ttl = i.ttl + k - 1, !.len = i.len]]
               S == {f[k] : k \in 1..i.tries}
    <3>1. OtherLines(i) = f
      BY <2>1 DEF OtherLines, Verdicts
    <3>t. i.tries \in Nat
      BY IncidentTyped
    <3>2. f \in [1..i.tries -> S]
      <4>1. f = [k \in 1..i.tries |-> f[k]]
        OBVIOUS
      <4> HIDE DEF f
      <4> QED BY <4>1
    <3> HIDE DEF f, S
    <3> QED BY ONLY <3>1, <3>2, <3>t, TableSeq
  <2>2. CASE i.what \in OtherWhats
    BY <2>2, Short DEF OtherLines, OtherWhats, Verdicts
  <2> QED BY <2>1, <2>2
<1>2. /\ SshdLines(i) = <<>> /\ DropbearLines(i) = <<>> /\ WindowsLines(i) = <<>>
      /\ WebLines(i) = <<>> /\ LookupLines(i) = <<>>
  BY DEF OtherWhats, Statuses, SshdLines, DropbearLines, WindowsLines, WebLines, LookupLines,
         Verdicts
<1>3. \E S : <<>> \in Seq(S)
  BY Short
<1> QED BY <1>1, <1>2, <1>3, Alone DEF LinesOf

\* Dropbear's lines of guesses: a visit, the guesses, and that they were too many.
LEMMA DropbearGuesses ==
    ASSUME NEW i, i.what = "dropbear guess", IsIncident(i)
    PROVE  /\ \E S : DropbearLines(i) \in Seq(S)
           /\ DropbearLines(i) =
                [k \in 1..(i.tries + 2) |->
                    IF k = 1 THEN Line("dropbear", "child connection")
                    ELSE IF k = i.tries + 2 THEN Of(i, "dropbear", "max tries of user")
                    ELSE Of(i, "dropbear", "bad password")]
<1> DEFINE a == Line("dropbear", "child connection")
           b == Of(i, "dropbear", "bad password")
           c == Of(i, "dropbear", "max tries of user")
           t == i.tries
           T == {a, b, c}
           seq == [k \in 1..(t + 2) |-> IF k = 1 THEN a ELSE IF k = t + 2 THEN c ELSE b]
<1>1. DropbearLines(i) = <<a>> \o [n \in 1..t |-> b] \o <<c>>
  BY DEF DropbearLines
<1>2. a \in T /\ b \in T /\ c \in T
  OBVIOUS
<1>2a. t \in Nat /\ t + 2 \in Nat
  BY TwoMore, IncidentTyped
<1> HIDE DEF a, b, c, t, T
<1>3. DropbearLines(i) = seq
  <2>1. <<a>> \o [n \in 1..t |-> b] \o <<c>> = seq
    BY ONLY <1>2, <1>2a, ConcatThree
  <2> QED BY ONLY <1>1, <2>1
<1>4. seq \in [1..(t + 2) -> T]
  BY <1>2, <1>2a
<1>5. seq \in Seq(T)
  <2> HIDE DEF seq
  <2> QED BY <1>2a, <1>4, TableSeq
<1> QED BY <1>3, <1>5 DEF a, b, c, t

LEMMA DropbearSays ==
    ASSUME NEW i, i.what \in DropbearWhats, IsIncident(i)
    PROVE  LinesOf(i) = DropbearLines(i)
<1>1. \E S : DropbearLines(i) \in Seq(S)
  <2>1. CASE i.what = "dropbear guess"
    BY <2>1, DropbearGuesses
  <2>2. CASE i.what # "dropbear guess"
    BY <2>2, Short DEF DropbearLines, DropbearWhats
  <2> QED BY <2>1, <2>2
<1>2. /\ SshdLines(i) = <<>> /\ WindowsLines(i) = <<>> /\ WebLines(i) = <<>>
      /\ LookupLines(i) = <<>> /\ OtherLines(i) = <<>>
  BY DEF DropbearWhats, SshdLines, WindowsLines, WebLines, LookupLines, OtherLines, Statuses,
         Verdicts
<1>3. \E S : <<>> \in Seq(S)
  BY Short
<1> QED BY <1>1, <1>2, <1>3, Alone DEF LinesOf

LEMMA NothingSaid ==
    ASSUME NEW i, i.what \notin Whats
    PROVE  LinesOf(i) = <<>>
<1>1. /\ SshdLines(i) = <<>> /\ DropbearLines(i) = <<>> /\ WindowsLines(i) = <<>>
      /\ WebLines(i) = <<>> /\ LookupLines(i) = <<>> /\ OtherLines(i) = <<>>
  BY DEF Whats, SshdWhats, DropbearWhats, WindowsWhats, WebWhats, OtherWhats, SshdLines,
         DropbearLines, WindowsLines, WebLines, LookupLines, OtherLines, Statuses, Verdicts
<1>2. \E S : <<>> \in Seq(S)
  BY Short
<1> QED BY <1>1, <1>2, Alone DEF LinesOf

-----------------------------------------------------------------------------
(* Lines and events *)

LineFields ==
    {"id", "ts", "program", "form", "user", "subject", "ip", "dst", "port", "detail", "domain",
     "ttl", "len"}

LEMMA BareSays ==
    ASSUME NEW i, NEW p, NEW f
    PROVE  LET l == Bare(i, p, f)
           IN  /\ DOMAIN l = LineFields
               /\ l.program = p /\ l.form = f /\ l.user = i.user /\ l.subject = NoValue
               /\ l.ip = NoValue /\ l.dst = NoValue /\ l.port = 0 /\ l.detail = NoValue
               /\ l.domain = NoValue
BY DEF Line, LineFields, Bare

\* The line k of the incident that happened as h, as the log has it.
At(h, k) == [LinesOf(h.incident)[k] EXCEPT !.ts = h.ts, !.id = <<h, k>>]

LEMMA AtSays ==
    ASSUME NEW h, NEW k, DOMAIN LinesOf(h.incident)[k] = LineFields
    PROVE  LET l == LinesOf(h.incident)[k]
               a == At(h, k)
           IN  /\ DOMAIN a = LineFields
               /\ a.id = <<h, k>> /\ a.ts = h.ts
               /\ a.program = l.program /\ a.form = l.form /\ a.user = l.user
               /\ a.subject = l.subject /\ a.ip = l.ip /\ a.dst = l.dst /\ a.port = l.port
               /\ a.detail = l.detail /\ a.domain = l.domain /\ a.ttl = l.ttl /\ a.len = l.len
<1> DEFINE l == LinesOf(h.incident)[k]
<1>1. At(h, k) = [l EXCEPT !.ts = h.ts, !.id = <<h, k>>]
  BY DEF At
<1>2. DOMAIN l = LineFields
  OBVIOUS
<1> HIDE DEF l
<1>3. LET a == [l EXCEPT !.ts = h.ts, !.id = <<h, k>>]
      IN   /\ DOMAIN a = LineFields
               /\ a.id = <<h, k>> /\ a.ts = h.ts
               /\ a.program = l.program /\ a.form = l.form /\ a.user = l.user
               /\ a.subject = l.subject /\ a.ip = l.ip /\ a.dst = l.dst /\ a.port = l.port
               /\ a.detail = l.detail /\ a.domain = l.domain /\ a.ttl = l.ttl /\ a.len = l.len
  BY <1>2 DEF LineFields
<1> QED BY <1>1, <1>3 DEF l

\* Whether a line's event is what no analyzer asks for.
LEMMA SystemSays ==
    ASSUME NEW l
    PROVE  LET e == System(l)
           IN  /\ DOMAIN e = {"id", "ts", "kind", "program", "action", "user", "ip", "dst", "port", "detail",
                              "reason", "domain", "ttl", "len"}
               /\ e.id = l.id /\ e.ts = l.ts /\ e.kind = "system"
BY DEF System

\* Which lines of an authentication their pattern matches.
Read(l) == l.program \in {"sshd", "dropbear", "httpd"} => l.ip \notin Ipv6

\* The wordings of all programs differ, so that one alone tells the action.
ActionOf(form) ==
    CASE form \in {"accepted", "auth succeeded"} -> "ssh_accepted"
      [] form \in {"failed", "bad password", "max tries of user"} -> "ssh_failed"
      [] form \in {"invalid user", "max tries, user is invalid"} -> "ssh_invalid"
      [] form = "session opened" -> "session_open"
      [] form = "session closed" -> "session_close"
      [] form = "logged on" -> "logon_success"
      [] form = "failed to log on" -> "logon_failed"
      [] form = "special privileges" -> "privileged"
      [] form = "explicit credentials" -> "explicit_creds"
      [] form = "locked out" -> "lockout"
      [] form \in {"luci accepted", "web successful"} -> "web_login_success"
      [] OTHER -> "web_login_failed"

\* A visitor's lines are none of them.
Visiting == {"child connection", "exited normally"}

LEMMA OutcomesAre ==
    \A o \in Outcomes : /\ o = Outcome(o.program, o.form, o.action)
                        /\ o.action = ActionOf(o.form) /\ o.form \notin Visiting
<1>1. ASSUME NEW o \in SshOutcomes
      PROVE  o = Outcome(o.program, o.form, o.action) /\ o.action = ActionOf(o.form) /\ o.form \notin Visiting
  <2>1. o = Outcome(o.program, o.form, o.action)
    BY DEF SshOutcomes, Outcome
  <2>2. \/ o = Outcome("sshd", "accepted", "ssh_accepted")
        \/ o = Outcome("sshd", "failed", "ssh_failed")
        \/ o = Outcome("sshd", "invalid user", "ssh_invalid")
        \/ o = Outcome("sshd", "session opened", "session_open")
        \/ o = Outcome("sshd", "session closed", "session_close")
    BY DEF SshOutcomes
  <2>3. o.action = ActionOf(o.form) /\ o.form \notin Visiting
    <3>1. CASE o = Outcome("sshd", "accepted", "ssh_accepted")
      BY <3>1 DEF Outcome, ActionOf, Visiting
    <3>2. CASE o = Outcome("sshd", "failed", "ssh_failed")
      BY <3>2 DEF Outcome, ActionOf, Visiting
    <3>3. CASE o = Outcome("sshd", "invalid user", "ssh_invalid")
      BY <3>3 DEF Outcome, ActionOf, Visiting
    <3>4. CASE o = Outcome("sshd", "session opened", "session_open")
      BY <3>4 DEF Outcome, ActionOf, Visiting
    <3>5. CASE o = Outcome("sshd", "session closed", "session_close")
      BY <3>5 DEF Outcome, ActionOf, Visiting
    <3> QED BY <2>2, <3>1, <3>2, <3>3, <3>4, <3>5
  <2> QED BY <2>1, <2>3
<1>2. ASSUME NEW o \in DropbearOutcomes
      PROVE  o = Outcome(o.program, o.form, o.action) /\ o.action = ActionOf(o.form) /\ o.form \notin Visiting
  <2>1. o = Outcome(o.program, o.form, o.action)
    BY DEF DropbearOutcomes, Outcome
  <2>2. \/ o = Outcome("dropbear", "auth succeeded", "ssh_accepted")
        \/ o = Outcome("dropbear", "bad password", "ssh_failed")
        \/ o = Outcome("dropbear", "max tries of user", "ssh_failed")
        \/ o = Outcome("dropbear", "max tries, user is invalid", "ssh_invalid")
    BY DEF DropbearOutcomes
  <2>3. o.action = ActionOf(o.form) /\ o.form \notin Visiting
    <3>1. CASE o = Outcome("dropbear", "auth succeeded", "ssh_accepted")
      BY <3>1 DEF Outcome, ActionOf, Visiting
    <3>2. CASE o = Outcome("dropbear", "bad password", "ssh_failed")
      BY <3>2 DEF Outcome, ActionOf, Visiting
    <3>3. CASE o = Outcome("dropbear", "max tries of user", "ssh_failed")
      BY <3>3 DEF Outcome, ActionOf, Visiting
    <3>4. CASE o = Outcome("dropbear", "max tries, user is invalid", "ssh_invalid")
      BY <3>4 DEF Outcome, ActionOf, Visiting
    <3> QED BY <2>2, <3>1, <3>2, <3>3, <3>4
  <2> QED BY <2>1, <2>3
<1>3. ASSUME NEW o \in WindowsOutcomes
      PROVE  o = Outcome(o.program, o.form, o.action) /\ o.action = ActionOf(o.form) /\ o.form \notin Visiting
  <2>1. o = Outcome(o.program, o.form, o.action)
    BY DEF WindowsOutcomes, Outcome
  <2>2. \/ o = Outcome("winsec", "logged on", "logon_success")
        \/ o = Outcome("winsec", "failed to log on", "logon_failed")
        \/ o = Outcome("winsec", "special privileges", "privileged")
        \/ o = Outcome("winsec", "explicit credentials", "explicit_creds")
        \/ o = Outcome("winsec", "locked out", "lockout")
    BY DEF WindowsOutcomes
  <2>3. o.action = ActionOf(o.form) /\ o.form \notin Visiting
    <3>1. CASE o = Outcome("winsec", "logged on", "logon_success")
      BY <3>1 DEF Outcome, ActionOf, Visiting
    <3>2. CASE o = Outcome("winsec", "failed to log on", "logon_failed")
      BY <3>2 DEF Outcome, ActionOf, Visiting
    <3>3. CASE o = Outcome("winsec", "special privileges", "privileged")
      BY <3>3 DEF Outcome, ActionOf, Visiting
    <3>4. CASE o = Outcome("winsec", "explicit credentials", "explicit_creds")
      BY <3>4 DEF Outcome, ActionOf, Visiting
    <3>5. CASE o = Outcome("winsec", "locked out", "lockout")
      BY <3>5 DEF Outcome, ActionOf, Visiting
    <3> QED BY <2>2, <3>1, <3>2, <3>3, <3>4, <3>5
  <2> QED BY <2>1, <2>3
<1>4. ASSUME NEW o \in WebOutcomes
      PROVE  o = Outcome(o.program, o.form, o.action) /\ o.action = ActionOf(o.form) /\ o.form \notin Visiting
  <2>1. o = Outcome(o.program, o.form, o.action)
    BY DEF WebOutcomes, Outcome
  <2>2. \/ o = Outcome("uhttpd", "luci accepted", "web_login_success")
        \/ o = Outcome("uhttpd", "luci failed", "web_login_failed")
        \/ o = Outcome("httpd", "web successful", "web_login_success")
        \/ o = Outcome("httpd", "web failed", "web_login_failed")
    BY DEF WebOutcomes
  <2>3. o.action = ActionOf(o.form) /\ o.form \notin Visiting
    <3>1. CASE o = Outcome("uhttpd", "luci accepted", "web_login_success")
      BY <3>1 DEF Outcome, ActionOf, Visiting
    <3>2. CASE o = Outcome("uhttpd", "luci failed", "web_login_failed")
      BY <3>2 DEF Outcome, ActionOf, Visiting
    <3>3. CASE o = Outcome("httpd", "web successful", "web_login_success")
      BY <3>3 DEF Outcome, ActionOf, Visiting
    <3>4. CASE o = Outcome("httpd", "web failed", "web_login_failed")
      BY <3>4 DEF Outcome, ActionOf, Visiting
    <3> QED BY <2>2, <3>1, <3>2, <3>3, <3>4
  <2> QED BY <2>1, <2>3
<1> QED BY <1>1, <1>2, <1>3, <1>4 DEF Outcomes

LEMMA OutcomesDiffer ==
    \A o, p \in Outcomes : o.program = p.program /\ o.form = p.form => o = p
BY OutcomesAre

LEMMA OutcomeOfLine ==
    ASSUME NEW l, NEW o \in Outcomes, o.program = l.program, o.form = l.form
    PROVE  OutcomeOf(l) = IF Read(l) THEN {o} ELSE {}
<1> HIDE DEF Outcomes
<1> QED BY OutcomesDiffer DEF OutcomeOf, Read

LEMMA NoOutcomeOfLine ==
    ASSUME NEW l, \A o \in Outcomes : o.program # l.program \/ o.form # l.form
    PROVE  OutcomeOf(l) = {}
BY DEF OutcomeOf

AuthPrograms == {"sshd", "dropbear", "winsec", "uhttpd", "httpd"}

LEMMA NormalizeAuth ==
    ASSUME NEW l, l.program \in AuthPrograms, l.ts # NoTime
    PROVE  Normalize(l) =
             IF OutcomeOf(l) # {} THEN {Authentication(l, o.action) : o \in OutcomeOf(l)}
             ELSE {System(l)}
<1>1. /\ l.program \notin {"pihole", "kernel", "vpn", "wifi", "dhcp", "dnsmasq", "defender"}
  BY DEF AuthPrograms
<1>2. ~ IsDeauth(l) /\ ~ IsLease(l) /\ ~ IsLookup(l)
  BY <1>1 DEF IsDeauth, IsLease, IsLookup
<1> QED BY <1>1, <1>2 DEF Normalize

-----------------------------------------------------------------------------
(* Attempts to log on and their events *)

\* What each line of an incident tells of an attempt: the action of its event.
Tells(i) ==
    CASE i.what = "sshd logon" -> <<"ssh_accepted", NoValue, NoValue>>
      [] i.what = "sshd guess" -> <<"ssh_failed">>
      [] i.what = "sshd guess, unknown user" -> <<"ssh_invalid", "ssh_failed">>
      [] i.what = "dropbear logon" -> <<NoValue, "ssh_accepted">>
      [] i.what = "dropbear guess" ->
            [k \in 1..(i.tries + 2) |-> IF k = 1 THEN NoValue ELSE "ssh_failed"]
      [] i.what = "dropbear visit" -> <<NoValue, NoValue>>
      [] i.what = "dropbear guess, unknown user" -> <<NoValue, "ssh_invalid">>
      [] i.what = "windows logon" -> <<"logon_success", "privileged">>
      [] i.what = "windows refusal" -> <<"logon_failed">>
      [] i.what \in {"luci logon", "panel logon"} -> <<"web_login_success">>
      [] i.what \in {"luci refusal", "panel refusal"} -> <<"web_login_failed">>
      [] OTHER -> <<>>

\* The patterns of two servers and one panel match no IPv6 address.
Heard(i) == i.ip \in Ipv6 => i.what \notin SshdWhats \cup DropbearWhats \cup {"panel logon", "panel refusal"}

Accepting == {"ssh_accepted", "web_login_success", "logon_success"}

\* The event that tells of an attempt.
TellsOf(e, h, act) ==
    /\ e.kind = "auth" /\ e.action = act
    /\ act \in Accepting =>
        e.ip = h.incident.ip /\ e.detail = h.incident.detail /\ e.user = Named(h)

\* An event that tells of none.
Mute(e) ==
    \/ e.kind = "system"
    \/ e.kind = "auth" /\ e.action \in {"session_open", "session_close"}

LEMMA Telling ==
    ASSUME NEW a, a.ts # NoTime, a.program \in AuthPrograms, NEW act,
           Outcome(a.program, a.form, act) \in Outcomes
    PROVE  Normalize(a) = IF Read(a) THEN {Authentication(a, act)} ELSE {System(a)}
<1> DEFINE o == Outcome(a.program, a.form, act)
<1>1. o.program = a.program /\ o.form = a.form /\ o.action = act
  BY DEF Outcome
<1>2. o \in Outcomes
  OBVIOUS
<1> HIDE DEF o
<1>4. OutcomeOf(a) = IF Read(a) THEN {o} ELSE {}
  BY <1>1, <1>2, OutcomeOfLine
<1>5. Normalize(a) =
             IF OutcomeOf(a) # {} THEN {Authentication(a, x.action) : x \in OutcomeOf(a)}
             ELSE {System(a)}
  BY NormalizeAuth
<1> QED BY <1>1, <1>4, <1>5

LEMMA AuthenticationSays ==
    ASSUME NEW l, NEW act
    PROVE  LET e == Authentication(l, act)
           IN  /\ e.id = l.id /\ e.ts = l.ts /\ e.kind = "auth" /\ e.action = act
               /\ e.user = Account(l) /\ e.ip = l.ip /\ e.detail = l.detail
BY DEF Authentication, System

LEMMA Wordings ==
    /\ Outcome("sshd", "accepted", "ssh_accepted") \in Outcomes
    /\ Outcome("sshd", "failed", "ssh_failed") \in Outcomes
    /\ Outcome("sshd", "invalid user", "ssh_invalid") \in Outcomes
    /\ Outcome("sshd", "session opened", "session_open") \in Outcomes
    /\ Outcome("sshd", "session closed", "session_close") \in Outcomes
    /\ Outcome("dropbear", "auth succeeded", "ssh_accepted") \in Outcomes
    /\ Outcome("dropbear", "bad password", "ssh_failed") \in Outcomes
    /\ Outcome("dropbear", "max tries of user", "ssh_failed") \in Outcomes
    /\ Outcome("dropbear", "max tries, user is invalid", "ssh_invalid") \in Outcomes
    /\ Outcome("winsec", "logged on", "logon_success") \in Outcomes
    /\ Outcome("winsec", "failed to log on", "logon_failed") \in Outcomes
    /\ Outcome("winsec", "special privileges", "privileged") \in Outcomes
    /\ Outcome("uhttpd", "luci accepted", "web_login_success") \in Outcomes
    /\ Outcome("uhttpd", "luci failed", "web_login_failed") \in Outcomes
    /\ Outcome("httpd", "web successful", "web_login_success") \in Outcomes
    /\ Outcome("httpd", "web failed", "web_login_failed") \in Outcomes
BY Zenon DEF Outcomes, SshOutcomes, DropbearOutcomes, WindowsOutcomes, WebOutcomes

\* One line that tells of an attempt, and one that does not.
LEMMA OneTells ==
    ASSUME NEW h, NEW k, DOMAIN LinesOf(h.incident)[k] = LineFields, h.ts # NoTime,
           NEW act, LET l == LinesOf(h.incident)[k]
                    IN  /\ Outcome(l.program, l.form, act) \in Outcomes /\ l.program \in AuthPrograms
                        /\ act \in Accepting =>
                            /\ l.ip = h.incident.ip /\ l.detail = h.incident.detail
                            /\ Account(l) = Named(h)
                        /\ Read(l) <=> Heard(h.incident)
    PROVE  IF Heard(h.incident)
           THEN \E e : Normalize(At(h, k)) = {e} /\ TellsOf(e, h, act) /\ e.id = <<h, k>> /\ e.ts = h.ts
           ELSE \A e \in Normalize(At(h, k)) : Mute(e)
<1> DEFINE a == At(h, k)
           l == LinesOf(h.incident)[k]
<1>1. /\ a.id = <<h, k>> /\ a.ts = h.ts /\ a.program = l.program /\ a.form = l.form
      /\ a.ip = l.ip /\ a.detail = l.detail /\ a.user = l.user /\ a.subject = l.subject
  BY AtSays
<1>2. Account(a) = Account(l) /\ (Read(a) <=> Read(l))
  <2> HIDE DEF a, l
  <2> QED BY <1>1 DEF Account, Read
<1>3. /\ Outcome(l.program, l.form, act) \in Outcomes /\ l.program \in AuthPrograms
      /\ act \in Accepting =>
            l.ip = h.incident.ip /\ l.detail = h.incident.detail /\ Account(l) = Named(h)
      /\ Read(l) <=> Heard(h.incident)
  OBVIOUS
<1> HIDE DEF a, l
<1>4. Normalize(a) = IF Read(a) THEN {Authentication(a, act)} ELSE {System(a)}
  BY <1>1, <1>3, Telling
<1>5. CASE Heard(h.incident)
  <2> DEFINE e == Authentication(a, act)
  <2>1. Normalize(a) = {e}
    BY <1>2, <1>3, <1>4, <1>5
  <2>2. /\ e.id = a.id /\ e.ts = a.ts /\ e.kind = "auth" /\ e.action = act
        /\ e.user = Account(a) /\ e.ip = a.ip /\ e.detail = a.detail
    BY AuthenticationSays
  <2> HIDE DEF e
  <2>3. TellsOf(e, h, act) /\ e.id = <<h, k>> /\ e.ts = h.ts
    BY <1>1, <1>2, <1>3, <2>2 DEF TellsOf
  <2> QED BY <1>5, <2>1, <2>3 DEF a
<1>6. CASE ~ Heard(h.incident)
  <2>1. Normalize(a) = {System(a)}
    BY <1>2, <1>3, <1>4, <1>6
  <2>2. System(a).kind = "system"
    BY SystemSays
  <2> QED BY <1>6, <2>1, <2>2 DEF a, Mute
<1> QED BY <1>5, <1>6

LEMMA OneIsMute ==
    ASSUME NEW h, NEW k, DOMAIN LinesOf(h.incident)[k] = LineFields, h.ts # NoTime,
           LET l == LinesOf(h.incident)[k]
           IN  /\ l.program \in AuthPrograms
               /\ \/ Outcome(l.program, l.form, "session_open") \in Outcomes
                  \/ Outcome(l.program, l.form, "session_close") \in Outcomes
                  \/ \A o \in Outcomes : o.program # l.program \/ o.form # l.form
    PROVE  \A e \in Normalize(At(h, k)) : Mute(e)
<1> DEFINE a == At(h, k)
           l == LinesOf(h.incident)[k]
<1>1. a.ts = h.ts /\ a.program = l.program /\ a.form = l.form
  BY AtSays
<1>2. /\ l.program \in AuthPrograms
      /\ \/ Outcome(l.program, l.form, "session_open") \in Outcomes
         \/ Outcome(l.program, l.form, "session_close") \in Outcomes
         \/ \A o \in Outcomes : o.program # l.program \/ o.form # l.form
  OBVIOUS
<1> HIDE DEF a, l
<1>3. Mute(System(a))
  BY SystemSays DEF Mute
<1>4. ASSUME NEW act \in {"session_open", "session_close"},
             Outcome(l.program, l.form, act) \in Outcomes
      PROVE  \A e \in Normalize(a) : Mute(e)
  <2>1. Normalize(a) = IF Read(a) THEN {Authentication(a, act)} ELSE {System(a)}
    BY <1>1, <1>2, <1>4, Telling
  <2>2. Authentication(a, act).action = act /\ Authentication(a, act).kind = "auth"
    BY AuthenticationSays
  <2>3. Mute(Authentication(a, act))
    BY <2>2 DEF Mute
  <2> QED BY <1>3, <2>1, <2>3
<1>5. ASSUME \A o \in Outcomes : o.program # l.program \/ o.form # l.form
      PROVE  \A e \in Normalize(a) : Mute(e)
  <2>1. OutcomeOf(a) = {}
    BY <1>1, <1>5, NoOutcomeOfLine
  <2>2. Normalize(a) = {System(a)}
    BY <1>1, <1>2, <2>1, NormalizeAuth
  <2> QED BY <1>3, <2>2
<1>6. \A e \in Normalize(a) : Mute(e)
  <2>1. Outcome(l.program, l.form, "session_open") \in Outcomes => \A e \in Normalize(a) : Mute(e)
    BY <1>4
  <2>2. Outcome(l.program, l.form, "session_close") \in Outcomes => \A e \in Normalize(a) : Mute(e)
    BY <1>4
  <2> QED BY <1>2, <1>5, <2>1, <2>2
<1> QED BY <1>6 DEF a

\* Whether line k of what happened as h tells of an attempt as Tells has it.
LineTells(h, k) ==
    LET act == Tells(h.incident)[k]
    IN  IF k \in DOMAIN Tells(h.incident) /\ act # NoValue /\ Heard(h.incident)
        THEN \E e : /\ Normalize(At(h, k)) = {e} /\ TellsOf(e, h, act)
                    /\ e.id = <<h, k>> /\ e.ts = h.ts
        ELSE \A e \in Normalize(At(h, k)) : Mute(e)

Timed(h) == h.ts \in Nat
LEMMA TimedNow ==
    ASSUME NEW h, Timed(h)
    PROVE  h.ts # NoTime
BY DEF NoTime, Timed

LEMMA OneLine ==
    ASSUME NEW s, NEW a, s = <<a>>
    PROVE  DOMAIN s = 1..1 /\ s[1] = a
OBVIOUS

LEMMA TwoLines ==
    ASSUME NEW s, NEW a, NEW b, s = <<a, b>>
    PROVE  DOMAIN s = 1..2 /\ s[1] = a /\ s[2] = b
OBVIOUS

LEMMA ThreeLines ==
    ASSUME NEW s, NEW a, NEW b, NEW c, s = <<a, b, c>>
    PROVE  DOMAIN s = 1..3 /\ s[1] = a /\ s[2] = b /\ s[3] = c
OBVIOUS

LEMMA LineIsTold ==
    ASSUME NEW h, NEW k, h.ts # NoTime, k \in DOMAIN Tells(h.incident),
           NEW l, l = LinesOf(h.incident)[k], NEW act, act = Tells(h.incident)[k],
           DOMAIN l = LineFields, l.program \in AuthPrograms, act # NoValue,
           Outcome(l.program, l.form, act) \in Outcomes, Read(l) <=> Heard(h.incident),
           act \in Accepting =>
              l.ip = h.incident.ip /\ l.detail = h.incident.detail /\ Account(l) = Named(h)
    PROVE  LineTells(h, k)
BY OneTells DEF LineTells

\* A line that speaks of a session, or of somebody at the door.
Unsaid(l) ==
    \/ Outcome(l.program, l.form, "session_open") \in Outcomes
    \/ Outcome(l.program, l.form, "session_close") \in Outcomes
    \/ l.form \in Visiting

LEMMA LineIsMute ==
    ASSUME NEW h, NEW k, h.ts # NoTime,
           NEW l, l = LinesOf(h.incident)[k], NEW act, act = Tells(h.incident)[k],
           DOMAIN l = LineFields, l.program \in AuthPrograms, act = NoValue,
           Unsaid(l)
    PROVE  LineTells(h, k)
<1>1. \A f \in Visiting : \A o \in Outcomes : o.form # f
  BY OutcomesAre
<1>2. \A e \in Normalize(At(h, k)) : Mute(e)
  BY <1>1, OneIsMute DEF Unsaid
<1> QED BY <1>2 DEF LineTells

LEMMA Sshd1 ==
    ASSUME NEW i, i.what = "sshd logon", IsIncident(i)
    PROVE  /\ DOMAIN LinesOf(i) = 1..3
           /\ LinesOf(i)[1] = Of(i, "sshd", "accepted")
           /\ LinesOf(i)[2] = Bare(i, "sshd", "session opened")
           /\ LinesOf(i)[3] = Bare(i, "sshd", "session closed")
           /\ DOMAIN Tells(i) = 1..3
           /\ Tells(i)[1] = "ssh_accepted"
           /\ Tells(i)[2] = NoValue
           /\ Tells(i)[3] = NoValue
<1> DEFINE a == Of(i, "sshd", "accepted")
           b == Bare(i, "sshd", "session opened")
           c == Bare(i, "sshd", "session closed")
<1>1. LinesOf(i) = SshdLines(i)
  <2>1. i.what \in SshdWhats
    BY DEF SshdWhats
  <2> QED BY <2>1, SshdSays
<1>2. SshdLines(i) = <<a, b, c>>
  BY DEF SshdLines
<1>3. Tells(i) = <<"ssh_accepted", NoValue, NoValue>>
  BY DEF Tells
<1> HIDE DEF a, b, c
<1>4. DOMAIN LinesOf(i) = 1..3 /\ LinesOf(i)[1] = a /\ LinesOf(i)[2] = b /\ LinesOf(i)[3] = c
  BY ONLY <1>1, <1>2, ThreeLines
<1>5. DOMAIN Tells(i) = 1..3 /\ Tells(i)[1] = "ssh_accepted" /\ Tells(i)[2] = NoValue /\ Tells(i)[3] = NoValue
  BY ONLY <1>3, ThreeLines
<1> QED BY <1>4, <1>5 DEF a, b, c

LEMMA Sshd2 ==
    ASSUME NEW i, i.what = "sshd guess", IsIncident(i)
    PROVE  /\ DOMAIN LinesOf(i) = 1..1
           /\ LinesOf(i)[1] = Of(i, "sshd", "failed")
           /\ DOMAIN Tells(i) = 1..1
           /\ Tells(i)[1] = "ssh_failed"
<1> DEFINE a == Of(i, "sshd", "failed")
<1>1. LinesOf(i) = SshdLines(i)
  <2>1. i.what \in SshdWhats
    BY DEF SshdWhats
  <2> QED BY <2>1, SshdSays
<1>2. SshdLines(i) = <<a>>
  BY DEF SshdLines
<1>3. Tells(i) = <<"ssh_failed">>
  BY DEF Tells
<1> HIDE DEF a
<1>4. DOMAIN LinesOf(i) = 1..1 /\ LinesOf(i)[1] = a
  BY ONLY <1>1, <1>2, OneLine
<1>5. DOMAIN Tells(i) = 1..1 /\ Tells(i)[1] = "ssh_failed"
  BY ONLY <1>3, OneLine
<1> QED BY <1>4, <1>5 DEF a

LEMMA Sshd3 ==
    ASSUME NEW i, i.what = "sshd guess, unknown user", IsIncident(i)
    PROVE  /\ DOMAIN LinesOf(i) = 1..2
           /\ LinesOf(i)[1] = Of(i, "sshd", "invalid user")
           /\ LinesOf(i)[2] = Of(i, "sshd", "failed")
           /\ DOMAIN Tells(i) = 1..2
           /\ Tells(i)[1] = "ssh_invalid"
           /\ Tells(i)[2] = "ssh_failed"
<1> DEFINE a == Of(i, "sshd", "invalid user")
           b == Of(i, "sshd", "failed")
<1>1. LinesOf(i) = SshdLines(i)
  <2>1. i.what \in SshdWhats
    BY DEF SshdWhats
  <2> QED BY <2>1, SshdSays
<1>2. SshdLines(i) = <<a, b>>
  BY DEF SshdLines
<1>3. Tells(i) = <<"ssh_invalid", "ssh_failed">>
  BY DEF Tells
<1> HIDE DEF a, b
<1>4. DOMAIN LinesOf(i) = 1..2 /\ LinesOf(i)[1] = a /\ LinesOf(i)[2] = b
  BY ONLY <1>1, <1>2, TwoLines
<1>5. DOMAIN Tells(i) = 1..2 /\ Tells(i)[1] = "ssh_invalid" /\ Tells(i)[2] = "ssh_failed"
  BY ONLY <1>3, TwoLines
<1> QED BY <1>4, <1>5 DEF a, b

LEMMA SshdLinesTell ==
    ASSUME NEW h, NEW k, IsIncident(h.incident), Timed(h),
           h.incident.what \in SshdWhats, k \in DOMAIN LinesOf(h.incident)
    PROVE  LineTells(h, k) /\ DOMAIN Tells(h.incident) = DOMAIN LinesOf(h.incident)
<1> DEFINE i == h.incident
           l == LinesOf(i)[k]
           act == Tells(i)[k]
<1>1. h.ts # NoTime
  BY TimedNow
<1>2. CASE i.what = "sshd logon"
  <2>1. /\ DOMAIN LinesOf(i) = 1..3
        /\ LinesOf(i)[1] = Of(i, "sshd", "accepted")
        /\ LinesOf(i)[2] = Bare(i, "sshd", "session opened")
        /\ LinesOf(i)[3] = Bare(i, "sshd", "session closed")
        /\ DOMAIN Tells(i) = 1..3
        /\ Tells(i)[1] = "ssh_accepted"
        /\ Tells(i)[2] = NoValue
        /\ Tells(i)[3] = NoValue
    BY <1>2, Sshd1
  <2>a. DOMAIN Tells(h.incident) = DOMAIN LinesOf(h.incident)
    BY <2>1
  <2>2. k \in 1..3
    BY <2>1
  <2>3. CASE k = 1
    <3>0. l = LinesOf(h.incident)[k] /\ act = Tells(h.incident)[k]
      OBVIOUS
    <3>1. l = Of(i, "sshd", "accepted") /\ act = "ssh_accepted"
      BY ONLY <2>1, <2>3
    <3> HIDE DEF l, act, i
    <3>2. DOMAIN l = LineFields /\ l.program = "sshd" /\ l.form = "accepted"
      BY <3>1 DEF Of, Bare, Line, LineFields
    <3>3. Outcome(l.program, l.form, act) \in Outcomes
      BY ONLY <3>1, <3>2, Wordings
    <3>4. l.program \in AuthPrograms /\ act # NoValue
      BY ONLY <3>1, <3>2 DEF AuthPrograms, NoValue
    <3>5. Read(l) <=> Heard(i)
      <4>1. l.ip = i.ip
        BY <3>1 DEF Of, Line
      <4> QED BY <1>2, <3>2, <4>1 DEF Read, Heard, SshdWhats, DropbearWhats
    <3>6. l.ip = i.ip /\ l.detail = i.detail /\ l.user = i.user /\ l.subject = NoValue
      BY <3>1 DEF Of, Line
    <3>7. Account(l) = Named(h)
      <4>1. Named(h) = i.user
        BY <1>2 DEF Named, i
      <4> QED BY <3>2, <3>6, <4>1 DEF Account
    <3> QED BY <1>1, <2>1, <2>2, <3>2, <3>3, <3>4, <3>5, <3>6, <3>7, <3>0, LineIsTold, <2>a DEF i
  <2>4. CASE k = 2
    <3>0. l = LinesOf(h.incident)[k] /\ act = Tells(h.incident)[k]
      OBVIOUS
    <3>1. l = Bare(i, "sshd", "session opened") /\ act = NoValue
      BY ONLY <2>1, <2>4
    <3> HIDE DEF l, act, i
    <3>2. DOMAIN l = LineFields /\ l.program = "sshd" /\ l.form = "session opened"
      BY <3>1 DEF Of, Bare, Line, LineFields
    <3>3. Unsaid(l)
      BY ONLY <3>2, Wordings DEF Visiting, Unsaid
    <3>4. l.program \in AuthPrograms
      BY ONLY <3>2 DEF AuthPrograms
    <3> QED BY <1>1, <3>1, <3>2, <3>3, <3>4, <3>0, <2>a, LineIsMute
  <2>5. CASE k = 3
    <3>0. l = LinesOf(h.incident)[k] /\ act = Tells(h.incident)[k]
      OBVIOUS
    <3>1. l = Bare(i, "sshd", "session closed") /\ act = NoValue
      BY ONLY <2>1, <2>5
    <3> HIDE DEF l, act, i
    <3>2. DOMAIN l = LineFields /\ l.program = "sshd" /\ l.form = "session closed"
      BY <3>1 DEF Of, Bare, Line, LineFields
    <3>3. Unsaid(l)
      BY ONLY <3>2, Wordings DEF Visiting, Unsaid
    <3>4. l.program \in AuthPrograms
      BY ONLY <3>2 DEF AuthPrograms
    <3> QED BY <1>1, <3>1, <3>2, <3>3, <3>4, <3>0, <2>a, LineIsMute
  <2> QED BY ONLY <2>2, <2>3, <2>4, <2>5
<1>3. CASE i.what = "sshd guess"
  <2>1. /\ DOMAIN LinesOf(i) = 1..1
        /\ LinesOf(i)[1] = Of(i, "sshd", "failed")
        /\ DOMAIN Tells(i) = 1..1
        /\ Tells(i)[1] = "ssh_failed"
    BY <1>3, Sshd2
  <2>a. DOMAIN Tells(h.incident) = DOMAIN LinesOf(h.incident)
    BY <2>1
  <2>2. k \in 1..1
    BY <2>1
  <2>3. CASE k = 1
    <3>0. l = LinesOf(h.incident)[k] /\ act = Tells(h.incident)[k]
      OBVIOUS
    <3>1. l = Of(i, "sshd", "failed") /\ act = "ssh_failed"
      BY ONLY <2>1, <2>3
    <3> HIDE DEF l, act, i
    <3>2. DOMAIN l = LineFields /\ l.program = "sshd" /\ l.form = "failed"
      BY <3>1 DEF Of, Bare, Line, LineFields
    <3>3. Outcome(l.program, l.form, act) \in Outcomes
      BY ONLY <3>1, <3>2, Wordings
    <3>4. l.program \in AuthPrograms /\ act # NoValue
      BY ONLY <3>1, <3>2 DEF AuthPrograms, NoValue
    <3>5. Read(l) <=> Heard(i)
      <4>1. l.ip = i.ip
        BY <3>1 DEF Of, Line
      <4> QED BY <1>3, <3>2, <4>1 DEF Read, Heard, SshdWhats, DropbearWhats
    <3>6. act \notin Accepting
      BY ONLY <3>1 DEF Accepting
    <3> QED BY <1>1, <2>1, <2>2, <3>2, <3>3, <3>4, <3>5, <3>6, <3>0, LineIsTold, <2>a DEF i
  <2> QED BY ONLY <2>2, <2>3
<1>4. CASE i.what = "sshd guess, unknown user"
  <2>1. /\ DOMAIN LinesOf(i) = 1..2
        /\ LinesOf(i)[1] = Of(i, "sshd", "invalid user")
        /\ LinesOf(i)[2] = Of(i, "sshd", "failed")
        /\ DOMAIN Tells(i) = 1..2
        /\ Tells(i)[1] = "ssh_invalid"
        /\ Tells(i)[2] = "ssh_failed"
    BY <1>4, Sshd3
  <2>a. DOMAIN Tells(h.incident) = DOMAIN LinesOf(h.incident)
    BY <2>1
  <2>2. k \in 1..2
    BY <2>1
  <2>3. CASE k = 1
    <3>0. l = LinesOf(h.incident)[k] /\ act = Tells(h.incident)[k]
      OBVIOUS
    <3>1. l = Of(i, "sshd", "invalid user") /\ act = "ssh_invalid"
      BY ONLY <2>1, <2>3
    <3> HIDE DEF l, act, i
    <3>2. DOMAIN l = LineFields /\ l.program = "sshd" /\ l.form = "invalid user"
      BY <3>1 DEF Of, Bare, Line, LineFields
    <3>3. Outcome(l.program, l.form, act) \in Outcomes
      BY ONLY <3>1, <3>2, Wordings
    <3>4. l.program \in AuthPrograms /\ act # NoValue
      BY ONLY <3>1, <3>2 DEF AuthPrograms, NoValue
    <3>5. Read(l) <=> Heard(i)
      <4>1. l.ip = i.ip
        BY <3>1 DEF Of, Line
      <4> QED BY <1>4, <3>2, <4>1 DEF Read, Heard, SshdWhats, DropbearWhats
    <3>6. act \notin Accepting
      BY ONLY <3>1 DEF Accepting
    <3> QED BY <1>1, <2>1, <2>2, <3>2, <3>3, <3>4, <3>5, <3>6, <3>0, LineIsTold, <2>a DEF i
  <2>4. CASE k = 2
    <3>0. l = LinesOf(h.incident)[k] /\ act = Tells(h.incident)[k]
      OBVIOUS
    <3>1. l = Of(i, "sshd", "failed") /\ act = "ssh_failed"
      BY ONLY <2>1, <2>4
    <3> HIDE DEF l, act, i
    <3>2. DOMAIN l = LineFields /\ l.program = "sshd" /\ l.form = "failed"
      BY <3>1 DEF Of, Bare, Line, LineFields
    <3>3. Outcome(l.program, l.form, act) \in Outcomes
      BY ONLY <3>1, <3>2, Wordings
    <3>4. l.program \in AuthPrograms /\ act # NoValue
      BY ONLY <3>1, <3>2 DEF AuthPrograms, NoValue
    <3>5. Read(l) <=> Heard(i)
      <4>1. l.ip = i.ip
        BY <3>1 DEF Of, Line
      <4> QED BY <1>4, <3>2, <4>1 DEF Read, Heard, SshdWhats, DropbearWhats
    <3>6. act \notin Accepting
      BY ONLY <3>1 DEF Accepting
    <3> QED BY <1>1, <2>1, <2>2, <3>2, <3>3, <3>4, <3>5, <3>6, <3>0, LineIsTold, <2>a DEF i
  <2> QED BY ONLY <2>2, <2>3, <2>4
<1> QED BY <1>2, <1>3, <1>4 DEF SshdWhats

LEMMA Dropbear1 ==
    ASSUME NEW i, i.what = "dropbear logon", IsIncident(i)
    PROVE  /\ DOMAIN LinesOf(i) = 1..2
           /\ LinesOf(i)[1] = Line("dropbear", "child connection")
           /\ LinesOf(i)[2] = Of(i, "dropbear", "auth succeeded")
           /\ DOMAIN Tells(i) = 1..2
           /\ Tells(i)[1] = NoValue
           /\ Tells(i)[2] = "ssh_accepted"
<1> DEFINE a == Line("dropbear", "child connection")
           b == Of(i, "dropbear", "auth succeeded")
<1>1. LinesOf(i) = DropbearLines(i)
  <2>1. i.what \in DropbearWhats
    BY DEF DropbearWhats
  <2> QED BY <2>1, DropbearSays
<1>2. DropbearLines(i) = <<a, b>>
  BY DEF DropbearLines
<1>3. Tells(i) = <<NoValue, "ssh_accepted">>
  BY DEF Tells
<1> HIDE DEF a, b
<1>4. DOMAIN LinesOf(i) = 1..2 /\ LinesOf(i)[1] = a /\ LinesOf(i)[2] = b
  BY ONLY <1>1, <1>2, TwoLines
<1>5. DOMAIN Tells(i) = 1..2 /\ Tells(i)[1] = NoValue /\ Tells(i)[2] = "ssh_accepted"
  BY ONLY <1>3, TwoLines
<1> QED BY <1>4, <1>5 DEF a, b

LEMMA Dropbear2 ==
    ASSUME NEW i, i.what = "dropbear guess, unknown user", IsIncident(i)
    PROVE  /\ DOMAIN LinesOf(i) = 1..2
           /\ LinesOf(i)[1] = Line("dropbear", "child connection")
           /\ LinesOf(i)[2] = [Of(i, "dropbear", "max tries, user is invalid") EXCEPT !.user = NoValue]
           /\ DOMAIN Tells(i) = 1..2
           /\ Tells(i)[1] = NoValue
           /\ Tells(i)[2] = "ssh_invalid"
<1> DEFINE a == Line("dropbear", "child connection")
           b == [Of(i, "dropbear", "max tries, user is invalid") EXCEPT !.user = NoValue]
<1>1. LinesOf(i) = DropbearLines(i)
  <2>1. i.what \in DropbearWhats
    BY DEF DropbearWhats
  <2> QED BY <2>1, DropbearSays
<1>2. DropbearLines(i) = <<a, b>>
  BY DEF DropbearLines
<1>3. Tells(i) = <<NoValue, "ssh_invalid">>
  BY DEF Tells
<1> HIDE DEF a, b
<1>4. DOMAIN LinesOf(i) = 1..2 /\ LinesOf(i)[1] = a /\ LinesOf(i)[2] = b
  BY ONLY <1>1, <1>2, TwoLines
<1>5. DOMAIN Tells(i) = 1..2 /\ Tells(i)[1] = NoValue /\ Tells(i)[2] = "ssh_invalid"
  BY ONLY <1>3, TwoLines
<1> QED BY <1>4, <1>5 DEF a, b

LEMMA Dropbear3 ==
    ASSUME NEW i, i.what = "dropbear visit", IsIncident(i)
    PROVE  /\ DOMAIN LinesOf(i) = 1..2
           /\ LinesOf(i)[1] = Line("dropbear", "child connection")
           /\ LinesOf(i)[2] = Of(i, "dropbear", "exited normally")
           /\ DOMAIN Tells(i) = 1..2
           /\ Tells(i)[1] = NoValue
           /\ Tells(i)[2] = NoValue
<1> DEFINE a == Line("dropbear", "child connection")
           b == Of(i, "dropbear", "exited normally")
<1>1. LinesOf(i) = DropbearLines(i)
  <2>1. i.what \in DropbearWhats
    BY DEF DropbearWhats
  <2> QED BY <2>1, DropbearSays
<1>2. DropbearLines(i) = <<a, b>>
  BY DEF DropbearLines
<1>3. Tells(i) = <<NoValue, NoValue>>
  BY DEF Tells
<1> HIDE DEF a, b
<1>4. DOMAIN LinesOf(i) = 1..2 /\ LinesOf(i)[1] = a /\ LinesOf(i)[2] = b
  BY ONLY <1>1, <1>2, TwoLines
<1>5. DOMAIN Tells(i) = 1..2 /\ Tells(i)[1] = NoValue /\ Tells(i)[2] = NoValue
  BY ONLY <1>3, TwoLines
<1> QED BY <1>4, <1>5 DEF a, b

LEMMA DropbearLinesTell ==
    ASSUME NEW h, NEW k, IsIncident(h.incident), Timed(h),
           h.incident.what \in DropbearWhats \ {"dropbear guess"}, k \in DOMAIN LinesOf(h.incident)
    PROVE  LineTells(h, k) /\ DOMAIN Tells(h.incident) = DOMAIN LinesOf(h.incident)
<1> DEFINE i == h.incident
           l == LinesOf(i)[k]
           act == Tells(i)[k]
<1>1. h.ts # NoTime
  BY TimedNow
<1>2. CASE i.what = "dropbear logon"
  <2>1. /\ DOMAIN LinesOf(i) = 1..2
        /\ LinesOf(i)[1] = Line("dropbear", "child connection")
        /\ LinesOf(i)[2] = Of(i, "dropbear", "auth succeeded")
        /\ DOMAIN Tells(i) = 1..2
        /\ Tells(i)[1] = NoValue
        /\ Tells(i)[2] = "ssh_accepted"
    BY <1>2, Dropbear1
  <2>a. DOMAIN Tells(h.incident) = DOMAIN LinesOf(h.incident)
    BY <2>1
  <2>2. k \in 1..2
    BY <2>1
  <2>3. CASE k = 1
    <3>0. l = LinesOf(h.incident)[k] /\ act = Tells(h.incident)[k]
      OBVIOUS
    <3>1. l = Line("dropbear", "child connection") /\ act = NoValue
      BY ONLY <2>1, <2>3
    <3> HIDE DEF l, act, i
    <3>2. DOMAIN l = LineFields /\ l.program = "dropbear" /\ l.form = "child connection"
      BY <3>1 DEF Of, Bare, Line, LineFields
    <3>3. Unsaid(l)
      BY ONLY <3>2, Wordings DEF Visiting, Unsaid
    <3>4. l.program \in AuthPrograms
      BY ONLY <3>2 DEF AuthPrograms
    <3> QED BY <1>1, <3>1, <3>2, <3>3, <3>4, <3>0, <2>a, LineIsMute
  <2>4. CASE k = 2
    <3>0. l = LinesOf(h.incident)[k] /\ act = Tells(h.incident)[k]
      OBVIOUS
    <3>1. l = Of(i, "dropbear", "auth succeeded") /\ act = "ssh_accepted"
      BY ONLY <2>1, <2>4
    <3> HIDE DEF l, act, i
    <3>2. DOMAIN l = LineFields /\ l.program = "dropbear" /\ l.form = "auth succeeded"
      BY <3>1 DEF Of, Bare, Line, LineFields
    <3>3. Outcome(l.program, l.form, act) \in Outcomes
      BY ONLY <3>1, <3>2, Wordings
    <3>4. l.program \in AuthPrograms /\ act # NoValue
      BY ONLY <3>1, <3>2 DEF AuthPrograms, NoValue
    <3>5. Read(l) <=> Heard(i)
      <4>1. l.ip = i.ip
        BY <3>1 DEF Of, Line
      <4> QED BY <1>2, <3>2, <4>1 DEF Read, Heard, SshdWhats, DropbearWhats
    <3>6. l.ip = i.ip /\ l.detail = i.detail /\ l.user = i.user /\ l.subject = NoValue
      BY <3>1 DEF Of, Line
    <3>7. Account(l) = Named(h)
      <4>1. Named(h) = i.user
        BY <1>2 DEF Named, i
      <4> QED BY <3>2, <3>6, <4>1 DEF Account
    <3> QED BY <1>1, <2>1, <2>2, <3>2, <3>3, <3>4, <3>5, <3>6, <3>7, <3>0, LineIsTold, <2>a DEF i
  <2> QED BY ONLY <2>2, <2>3, <2>4
<1>3. CASE i.what = "dropbear guess, unknown user"
  <2>1. /\ DOMAIN LinesOf(i) = 1..2
        /\ LinesOf(i)[1] = Line("dropbear", "child connection")
        /\ LinesOf(i)[2] = [Of(i, "dropbear", "max tries, user is invalid") EXCEPT !.user = NoValue]
        /\ DOMAIN Tells(i) = 1..2
        /\ Tells(i)[1] = NoValue
        /\ Tells(i)[2] = "ssh_invalid"
    BY <1>3, Dropbear2
  <2>a. DOMAIN Tells(h.incident) = DOMAIN LinesOf(h.incident)
    BY <2>1
  <2>2. k \in 1..2
    BY <2>1
  <2>3. CASE k = 1
    <3>0. l = LinesOf(h.incident)[k] /\ act = Tells(h.incident)[k]
      OBVIOUS
    <3>1. l = Line("dropbear", "child connection") /\ act = NoValue
      BY ONLY <2>1, <2>3
    <3> HIDE DEF l, act, i
    <3>2. DOMAIN l = LineFields /\ l.program = "dropbear" /\ l.form = "child connection"
      BY <3>1 DEF Of, Bare, Line, LineFields
    <3>3. Unsaid(l)
      BY ONLY <3>2, Wordings DEF Visiting, Unsaid
    <3>4. l.program \in AuthPrograms
      BY ONLY <3>2 DEF AuthPrograms
    <3> QED BY <1>1, <3>1, <3>2, <3>3, <3>4, <3>0, <2>a, LineIsMute
  <2>4. CASE k = 2
    <3>0. l = LinesOf(h.incident)[k] /\ act = Tells(h.incident)[k]
      OBVIOUS
    <3>1. l = [Of(i, "dropbear", "max tries, user is invalid") EXCEPT !.user = NoValue] /\ act = "ssh_invalid"
      BY ONLY <2>1, <2>4
    <3> HIDE DEF l, act, i
    <3>2. DOMAIN l = LineFields /\ l.program = "dropbear" /\ l.form = "max tries, user is invalid"
      BY <3>1 DEF Of, Bare, Line, LineFields
    <3>3. Outcome(l.program, l.form, act) \in Outcomes
      BY ONLY <3>1, <3>2, Wordings
    <3>4. l.program \in AuthPrograms /\ act # NoValue
      BY ONLY <3>1, <3>2 DEF AuthPrograms, NoValue
    <3>5. Read(l) <=> Heard(i)
      <4>1. l.ip = i.ip
        BY <3>1 DEF Of, Line
      <4> QED BY <1>3, <3>2, <4>1 DEF Read, Heard, SshdWhats, DropbearWhats
    <3>6. act \notin Accepting
      BY ONLY <3>1 DEF Accepting
    <3> QED BY <1>1, <2>1, <2>2, <3>2, <3>3, <3>4, <3>5, <3>6, <3>0, LineIsTold, <2>a DEF i
  <2> QED BY ONLY <2>2, <2>3, <2>4
<1>4. CASE i.what = "dropbear visit"
  <2>1. /\ DOMAIN LinesOf(i) = 1..2
        /\ LinesOf(i)[1] = Line("dropbear", "child connection")
        /\ LinesOf(i)[2] = Of(i, "dropbear", "exited normally")
        /\ DOMAIN Tells(i) = 1..2
        /\ Tells(i)[1] = NoValue
        /\ Tells(i)[2] = NoValue
    BY <1>4, Dropbear3
  <2>a. DOMAIN Tells(h.incident) = DOMAIN LinesOf(h.incident)
    BY <2>1
  <2>2. k \in 1..2
    BY <2>1
  <2>3. CASE k = 1
    <3>0. l = LinesOf(h.incident)[k] /\ act = Tells(h.incident)[k]
      OBVIOUS
    <3>1. l = Line("dropbear", "child connection") /\ act = NoValue
      BY ONLY <2>1, <2>3
    <3> HIDE DEF l, act, i
    <3>2. DOMAIN l = LineFields /\ l.program = "dropbear" /\ l.form = "child connection"
      BY <3>1 DEF Of, Bare, Line, LineFields
    <3>3. Unsaid(l)
      BY ONLY <3>2, Wordings DEF Visiting, Unsaid
    <3>4. l.program \in AuthPrograms
      BY ONLY <3>2 DEF AuthPrograms
    <3> QED BY <1>1, <3>1, <3>2, <3>3, <3>4, <3>0, <2>a, LineIsMute
  <2>4. CASE k = 2
    <3>0. l = LinesOf(h.incident)[k] /\ act = Tells(h.incident)[k]
      OBVIOUS
    <3>1. l = Of(i, "dropbear", "exited normally") /\ act = NoValue
      BY ONLY <2>1, <2>4
    <3> HIDE DEF l, act, i
    <3>2. DOMAIN l = LineFields /\ l.program = "dropbear" /\ l.form = "exited normally"
      BY <3>1 DEF Of, Bare, Line, LineFields
    <3>3. Unsaid(l)
      BY ONLY <3>2, Wordings DEF Visiting, Unsaid
    <3>4. l.program \in AuthPrograms
      BY ONLY <3>2 DEF AuthPrograms
    <3> QED BY <1>1, <3>1, <3>2, <3>3, <3>4, <3>0, <2>a, LineIsMute
  <2> QED BY ONLY <2>2, <2>3, <2>4
<1> QED BY <1>2, <1>3, <1>4 DEF DropbearWhats

LEMMA Windows1 ==
    ASSUME NEW i, i.what = "windows logon", IsIncident(i)
    PROVE  /\ DOMAIN LinesOf(i) = 1..2
           /\ LinesOf(i)[1] = [Of(i, "winsec", "logged on") EXCEPT !.subject = "SYSTEM"]
           /\ LinesOf(i)[2] = [Line("winsec", "special privileges") EXCEPT !.subject = i.user]
           /\ DOMAIN Tells(i) = 1..2
           /\ Tells(i)[1] = "logon_success"
           /\ Tells(i)[2] = "privileged"
<1> DEFINE a == [Of(i, "winsec", "logged on") EXCEPT !.subject = "SYSTEM"]
           b == [Line("winsec", "special privileges") EXCEPT !.subject = i.user]
<1>1. LinesOf(i) = WindowsLines(i)
  <2>1. i.what \in WindowsWhats
    BY DEF WindowsWhats
  <2> QED BY <2>1, WindowsSays
<1>2. WindowsLines(i) = <<a, b>>
  BY DEF WindowsLines
<1>3. Tells(i) = <<"logon_success", "privileged">>
  BY DEF Tells
<1> HIDE DEF a, b
<1>4. DOMAIN LinesOf(i) = 1..2 /\ LinesOf(i)[1] = a /\ LinesOf(i)[2] = b
  BY ONLY <1>1, <1>2, TwoLines
<1>5. DOMAIN Tells(i) = 1..2 /\ Tells(i)[1] = "logon_success" /\ Tells(i)[2] = "privileged"
  BY ONLY <1>3, TwoLines
<1> QED BY <1>4, <1>5 DEF a, b

LEMMA Windows2 ==
    ASSUME NEW i, i.what = "windows refusal", IsIncident(i)
    PROVE  /\ DOMAIN LinesOf(i) = 1..1
           /\ LinesOf(i)[1] = [Of(i, "winsec", "failed to log on") EXCEPT !.subject = "SYSTEM"]
           /\ DOMAIN Tells(i) = 1..1
           /\ Tells(i)[1] = "logon_failed"
<1> DEFINE a == [Of(i, "winsec", "failed to log on") EXCEPT !.subject = "SYSTEM"]
<1>1. LinesOf(i) = WindowsLines(i)
  <2>1. i.what \in WindowsWhats
    BY DEF WindowsWhats
  <2> QED BY <2>1, WindowsSays
<1>2. WindowsLines(i) = <<a>>
  BY DEF WindowsLines
<1>3. Tells(i) = <<"logon_failed">>
  BY DEF Tells
<1> HIDE DEF a
<1>4. DOMAIN LinesOf(i) = 1..1 /\ LinesOf(i)[1] = a
  BY ONLY <1>1, <1>2, OneLine
<1>5. DOMAIN Tells(i) = 1..1 /\ Tells(i)[1] = "logon_failed"
  BY ONLY <1>3, OneLine
<1> QED BY <1>4, <1>5 DEF a

LEMMA WindowsLinesTell ==
    ASSUME NEW h, NEW k, IsIncident(h.incident), Timed(h),
           h.incident.what \in WindowsWhats, k \in DOMAIN LinesOf(h.incident)
    PROVE  LineTells(h, k) /\ DOMAIN Tells(h.incident) = DOMAIN LinesOf(h.incident)
<1> DEFINE i == h.incident
           l == LinesOf(i)[k]
           act == Tells(i)[k]
<1>1. h.ts # NoTime
  BY TimedNow
<1>2. CASE i.what = "windows logon"
  <2>1. /\ DOMAIN LinesOf(i) = 1..2
        /\ LinesOf(i)[1] = [Of(i, "winsec", "logged on") EXCEPT !.subject = "SYSTEM"]
        /\ LinesOf(i)[2] = [Line("winsec", "special privileges") EXCEPT !.subject = i.user]
        /\ DOMAIN Tells(i) = 1..2
        /\ Tells(i)[1] = "logon_success"
        /\ Tells(i)[2] = "privileged"
    BY <1>2, Windows1
  <2>a. DOMAIN Tells(h.incident) = DOMAIN LinesOf(h.incident)
    BY <2>1
  <2>2. k \in 1..2
    BY <2>1
  <2>3. CASE k = 1
    <3>0. l = LinesOf(h.incident)[k] /\ act = Tells(h.incident)[k]
      OBVIOUS
    <3>1. l = [Of(i, "winsec", "logged on") EXCEPT !.subject = "SYSTEM"] /\ act = "logon_success"
      BY ONLY <2>1, <2>3
    <3> HIDE DEF l, act, i
    <3>2. DOMAIN l = LineFields /\ l.program = "winsec" /\ l.form = "logged on"
      BY <3>1 DEF Of, Bare, Line, LineFields
    <3>3. Outcome(l.program, l.form, act) \in Outcomes
      BY ONLY <3>1, <3>2, Wordings
    <3>4. l.program \in AuthPrograms /\ act # NoValue
      BY ONLY <3>1, <3>2 DEF AuthPrograms, NoValue
    <3>5. Read(l) <=> Heard(i)
      BY <1>2, <3>2 DEF Read, Heard, SshdWhats, DropbearWhats
    <3>6. l.ip = i.ip /\ l.detail = i.detail /\ l.user = i.user /\ l.subject = "SYSTEM"
      BY <3>1 DEF Of, Line
    <3>7. Account(l) = Named(h)
      <4>1. Named(h) = i.user
        BY <1>2 DEF Named, i
      <4>2. i.user # NoValue
        BY <1>2 DEF IsIncident, i
      <4> QED BY <3>6, <4>1, <4>2 DEF Account
    <3> QED BY <1>1, <2>1, <2>2, <3>2, <3>3, <3>4, <3>5, <3>6, <3>7, <3>0, LineIsTold, <2>a DEF i
  <2>4. CASE k = 2
    <3>0. l = LinesOf(h.incident)[k] /\ act = Tells(h.incident)[k]
      OBVIOUS
    <3>1. l = [Line("winsec", "special privileges") EXCEPT !.subject = i.user] /\ act = "privileged"
      BY ONLY <2>1, <2>4
    <3> HIDE DEF l, act, i
    <3>2. DOMAIN l = LineFields /\ l.program = "winsec" /\ l.form = "special privileges"
      BY <3>1 DEF Of, Bare, Line, LineFields
    <3>3. Outcome(l.program, l.form, act) \in Outcomes
      BY ONLY <3>1, <3>2, Wordings
    <3>4. l.program \in AuthPrograms /\ act # NoValue
      BY ONLY <3>1, <3>2 DEF AuthPrograms, NoValue
    <3>5. Read(l) <=> Heard(i)
      BY <1>2, <3>2 DEF Read, Heard, SshdWhats, DropbearWhats
    <3>6. act \notin Accepting
      BY ONLY <3>1 DEF Accepting
    <3> QED BY <1>1, <2>1, <2>2, <3>2, <3>3, <3>4, <3>5, <3>6, <3>0, LineIsTold, <2>a DEF i
  <2> QED BY ONLY <2>2, <2>3, <2>4
<1>3. CASE i.what = "windows refusal"
  <2>1. /\ DOMAIN LinesOf(i) = 1..1
        /\ LinesOf(i)[1] = [Of(i, "winsec", "failed to log on") EXCEPT !.subject = "SYSTEM"]
        /\ DOMAIN Tells(i) = 1..1
        /\ Tells(i)[1] = "logon_failed"
    BY <1>3, Windows2
  <2>a. DOMAIN Tells(h.incident) = DOMAIN LinesOf(h.incident)
    BY <2>1
  <2>2. k \in 1..1
    BY <2>1
  <2>3. CASE k = 1
    <3>0. l = LinesOf(h.incident)[k] /\ act = Tells(h.incident)[k]
      OBVIOUS
    <3>1. l = [Of(i, "winsec", "failed to log on") EXCEPT !.subject = "SYSTEM"] /\ act = "logon_failed"
      BY ONLY <2>1, <2>3
    <3> HIDE DEF l, act, i
    <3>2. DOMAIN l = LineFields /\ l.program = "winsec" /\ l.form = "failed to log on"
      BY <3>1 DEF Of, Bare, Line, LineFields
    <3>3. Outcome(l.program, l.form, act) \in Outcomes
      BY ONLY <3>1, <3>2, Wordings
    <3>4. l.program \in AuthPrograms /\ act # NoValue
      BY ONLY <3>1, <3>2 DEF AuthPrograms, NoValue
    <3>5. Read(l) <=> Heard(i)
      BY <1>3, <3>2 DEF Read, Heard, SshdWhats, DropbearWhats
    <3>6. act \notin Accepting
      BY ONLY <3>1 DEF Accepting
    <3> QED BY <1>1, <2>1, <2>2, <3>2, <3>3, <3>4, <3>5, <3>6, <3>0, LineIsTold, <2>a DEF i
  <2> QED BY ONLY <2>2, <2>3
<1> QED BY <1>2, <1>3 DEF WindowsWhats

LEMMA Web1 ==
    ASSUME NEW i, i.what = "luci logon", IsIncident(i)
    PROVE  /\ DOMAIN LinesOf(i) = 1..1
           /\ LinesOf(i)[1] = Of(i, "uhttpd", "luci accepted")
           /\ DOMAIN Tells(i) = 1..1
           /\ Tells(i)[1] = "web_login_success"
<1> DEFINE a == Of(i, "uhttpd", "luci accepted")
<1>1. LinesOf(i) = WebLines(i)
  <2>1. i.what \in WebWhats
    BY DEF WebWhats
  <2> QED BY <2>1, WebSays
<1>2. WebLines(i) = <<a>>
  BY DEF WebLines
<1>3. Tells(i) = <<"web_login_success">>
  BY DEF Tells
<1> HIDE DEF a
<1>4. DOMAIN LinesOf(i) = 1..1 /\ LinesOf(i)[1] = a
  BY ONLY <1>1, <1>2, OneLine
<1>5. DOMAIN Tells(i) = 1..1 /\ Tells(i)[1] = "web_login_success"
  BY ONLY <1>3, OneLine
<1> QED BY <1>4, <1>5 DEF a

LEMMA Web2 ==
    ASSUME NEW i, i.what = "luci refusal", IsIncident(i)
    PROVE  /\ DOMAIN LinesOf(i) = 1..1
           /\ LinesOf(i)[1] = Of(i, "uhttpd", "luci failed")
           /\ DOMAIN Tells(i) = 1..1
           /\ Tells(i)[1] = "web_login_failed"
<1> DEFINE a == Of(i, "uhttpd", "luci failed")
<1>1. LinesOf(i) = WebLines(i)
  <2>1. i.what \in WebWhats
    BY DEF WebWhats
  <2> QED BY <2>1, WebSays
<1>2. WebLines(i) = <<a>>
  BY DEF WebLines
<1>3. Tells(i) = <<"web_login_failed">>
  BY DEF Tells
<1> HIDE DEF a
<1>4. DOMAIN LinesOf(i) = 1..1 /\ LinesOf(i)[1] = a
  BY ONLY <1>1, <1>2, OneLine
<1>5. DOMAIN Tells(i) = 1..1 /\ Tells(i)[1] = "web_login_failed"
  BY ONLY <1>3, OneLine
<1> QED BY <1>4, <1>5 DEF a

LEMMA Web3 ==
    ASSUME NEW i, i.what = "panel logon", IsIncident(i)
    PROVE  /\ DOMAIN LinesOf(i) = 1..1
           /\ LinesOf(i)[1] = [Of(i, "httpd", "web successful") EXCEPT !.user = NoValue]
           /\ DOMAIN Tells(i) = 1..1
           /\ Tells(i)[1] = "web_login_success"
<1> DEFINE a == [Of(i, "httpd", "web successful") EXCEPT !.user = NoValue]
<1>1. LinesOf(i) = WebLines(i)
  <2>1. i.what \in WebWhats
    BY DEF WebWhats
  <2> QED BY <2>1, WebSays
<1>2. WebLines(i) = <<a>>
  BY DEF WebLines
<1>3. Tells(i) = <<"web_login_success">>
  BY DEF Tells
<1> HIDE DEF a
<1>4. DOMAIN LinesOf(i) = 1..1 /\ LinesOf(i)[1] = a
  BY ONLY <1>1, <1>2, OneLine
<1>5. DOMAIN Tells(i) = 1..1 /\ Tells(i)[1] = "web_login_success"
  BY ONLY <1>3, OneLine
<1> QED BY <1>4, <1>5 DEF a

LEMMA Web4 ==
    ASSUME NEW i, i.what = "panel refusal", IsIncident(i)
    PROVE  /\ DOMAIN LinesOf(i) = 1..1
           /\ LinesOf(i)[1] = [Of(i, "httpd", "web failed") EXCEPT !.user = NoValue]
           /\ DOMAIN Tells(i) = 1..1
           /\ Tells(i)[1] = "web_login_failed"
<1> DEFINE a == [Of(i, "httpd", "web failed") EXCEPT !.user = NoValue]
<1>1. LinesOf(i) = WebLines(i)
  <2>1. i.what \in WebWhats
    BY DEF WebWhats
  <2> QED BY <2>1, WebSays
<1>2. WebLines(i) = <<a>>
  BY DEF WebLines
<1>3. Tells(i) = <<"web_login_failed">>
  BY DEF Tells
<1> HIDE DEF a
<1>4. DOMAIN LinesOf(i) = 1..1 /\ LinesOf(i)[1] = a
  BY ONLY <1>1, <1>2, OneLine
<1>5. DOMAIN Tells(i) = 1..1 /\ Tells(i)[1] = "web_login_failed"
  BY ONLY <1>3, OneLine
<1> QED BY <1>4, <1>5 DEF a

LEMMA WebLinesTell ==
    ASSUME NEW h, NEW k, IsIncident(h.incident), Timed(h),
           h.incident.what \in WebWhats, k \in DOMAIN LinesOf(h.incident)
    PROVE  LineTells(h, k) /\ DOMAIN Tells(h.incident) = DOMAIN LinesOf(h.incident)
<1> DEFINE i == h.incident
           l == LinesOf(i)[k]
           act == Tells(i)[k]
<1>1. h.ts # NoTime
  BY TimedNow
<1>2. CASE i.what = "luci logon"
  <2>1. /\ DOMAIN LinesOf(i) = 1..1
        /\ LinesOf(i)[1] = Of(i, "uhttpd", "luci accepted")
        /\ DOMAIN Tells(i) = 1..1
        /\ Tells(i)[1] = "web_login_success"
    BY <1>2, Web1
  <2>a. DOMAIN Tells(h.incident) = DOMAIN LinesOf(h.incident)
    BY <2>1
  <2>2. k \in 1..1
    BY <2>1
  <2>3. CASE k = 1
    <3>0. l = LinesOf(h.incident)[k] /\ act = Tells(h.incident)[k]
      OBVIOUS
    <3>1. l = Of(i, "uhttpd", "luci accepted") /\ act = "web_login_success"
      BY ONLY <2>1, <2>3
    <3> HIDE DEF l, act, i
    <3>2. DOMAIN l = LineFields /\ l.program = "uhttpd" /\ l.form = "luci accepted"
      BY <3>1 DEF Of, Bare, Line, LineFields
    <3>3. Outcome(l.program, l.form, act) \in Outcomes
      BY ONLY <3>1, <3>2, Wordings
    <3>4. l.program \in AuthPrograms /\ act # NoValue
      BY ONLY <3>1, <3>2 DEF AuthPrograms, NoValue
    <3>5. Read(l) <=> Heard(i)
      BY <1>2, <3>2 DEF Read, Heard, SshdWhats, DropbearWhats
    <3>6. l.ip = i.ip /\ l.detail = i.detail /\ l.user = i.user /\ l.subject = NoValue
      BY <3>1 DEF Of, Line
    <3>7. Account(l) = Named(h)
      <4>1. Named(h) = i.user
        BY <1>2 DEF Named, i
      <4> QED BY <3>2, <3>6, <4>1 DEF Account
    <3> QED BY <1>1, <2>1, <2>2, <3>2, <3>3, <3>4, <3>5, <3>6, <3>7, <3>0, LineIsTold, <2>a DEF i
  <2> QED BY ONLY <2>2, <2>3
<1>3. CASE i.what = "luci refusal"
  <2>1. /\ DOMAIN LinesOf(i) = 1..1
        /\ LinesOf(i)[1] = Of(i, "uhttpd", "luci failed")
        /\ DOMAIN Tells(i) = 1..1
        /\ Tells(i)[1] = "web_login_failed"
    BY <1>3, Web2
  <2>a. DOMAIN Tells(h.incident) = DOMAIN LinesOf(h.incident)
    BY <2>1
  <2>2. k \in 1..1
    BY <2>1
  <2>3. CASE k = 1
    <3>0. l = LinesOf(h.incident)[k] /\ act = Tells(h.incident)[k]
      OBVIOUS
    <3>1. l = Of(i, "uhttpd", "luci failed") /\ act = "web_login_failed"
      BY ONLY <2>1, <2>3
    <3> HIDE DEF l, act, i
    <3>2. DOMAIN l = LineFields /\ l.program = "uhttpd" /\ l.form = "luci failed"
      BY <3>1 DEF Of, Bare, Line, LineFields
    <3>3. Outcome(l.program, l.form, act) \in Outcomes
      BY ONLY <3>1, <3>2, Wordings
    <3>4. l.program \in AuthPrograms /\ act # NoValue
      BY ONLY <3>1, <3>2 DEF AuthPrograms, NoValue
    <3>5. Read(l) <=> Heard(i)
      BY <1>3, <3>2 DEF Read, Heard, SshdWhats, DropbearWhats
    <3>6. act \notin Accepting
      BY ONLY <3>1 DEF Accepting
    <3> QED BY <1>1, <2>1, <2>2, <3>2, <3>3, <3>4, <3>5, <3>6, <3>0, LineIsTold, <2>a DEF i
  <2> QED BY ONLY <2>2, <2>3
<1>4. CASE i.what = "panel logon"
  <2>1. /\ DOMAIN LinesOf(i) = 1..1
        /\ LinesOf(i)[1] = [Of(i, "httpd", "web successful") EXCEPT !.user = NoValue]
        /\ DOMAIN Tells(i) = 1..1
        /\ Tells(i)[1] = "web_login_success"
    BY <1>4, Web3
  <2>a. DOMAIN Tells(h.incident) = DOMAIN LinesOf(h.incident)
    BY <2>1
  <2>2. k \in 1..1
    BY <2>1
  <2>3. CASE k = 1
    <3>0. l = LinesOf(h.incident)[k] /\ act = Tells(h.incident)[k]
      OBVIOUS
    <3>1. l = [Of(i, "httpd", "web successful") EXCEPT !.user = NoValue] /\ act = "web_login_success"
      BY ONLY <2>1, <2>3
    <3> HIDE DEF l, act, i
    <3>2. DOMAIN l = LineFields /\ l.program = "httpd" /\ l.form = "web successful"
      BY <3>1 DEF Of, Bare, Line, LineFields
    <3>3. Outcome(l.program, l.form, act) \in Outcomes
      BY ONLY <3>1, <3>2, Wordings
    <3>4. l.program \in AuthPrograms /\ act # NoValue
      BY ONLY <3>1, <3>2 DEF AuthPrograms, NoValue
    <3>5. Read(l) <=> Heard(i)
      <4>1. l.ip = i.ip
        BY <3>1 DEF Of, Line
      <4> QED BY <1>4, <3>2, <4>1 DEF Read, Heard, SshdWhats, DropbearWhats
    <3>6. l.ip = i.ip /\ l.detail = i.detail /\ l.user = NoValue /\ l.subject = NoValue
      BY <3>1 DEF Of, Line
    <3>7. Account(l) = Named(h)
      <4>1. Named(h) = NoValue
        BY <1>4 DEF Named, i
      <4> QED BY <3>2, <3>6, <4>1 DEF Account
    <3> QED BY <1>1, <2>1, <2>2, <3>2, <3>3, <3>4, <3>5, <3>6, <3>7, <3>0, LineIsTold, <2>a DEF i
  <2> QED BY ONLY <2>2, <2>3
<1>5. CASE i.what = "panel refusal"
  <2>1. /\ DOMAIN LinesOf(i) = 1..1
        /\ LinesOf(i)[1] = [Of(i, "httpd", "web failed") EXCEPT !.user = NoValue]
        /\ DOMAIN Tells(i) = 1..1
        /\ Tells(i)[1] = "web_login_failed"
    BY <1>5, Web4
  <2>a. DOMAIN Tells(h.incident) = DOMAIN LinesOf(h.incident)
    BY <2>1
  <2>2. k \in 1..1
    BY <2>1
  <2>3. CASE k = 1
    <3>0. l = LinesOf(h.incident)[k] /\ act = Tells(h.incident)[k]
      OBVIOUS
    <3>1. l = [Of(i, "httpd", "web failed") EXCEPT !.user = NoValue] /\ act = "web_login_failed"
      BY ONLY <2>1, <2>3
    <3> HIDE DEF l, act, i
    <3>2. DOMAIN l = LineFields /\ l.program = "httpd" /\ l.form = "web failed"
      BY <3>1 DEF Of, Bare, Line, LineFields
    <3>3. Outcome(l.program, l.form, act) \in Outcomes
      BY ONLY <3>1, <3>2, Wordings
    <3>4. l.program \in AuthPrograms /\ act # NoValue
      BY ONLY <3>1, <3>2 DEF AuthPrograms, NoValue
    <3>5. Read(l) <=> Heard(i)
      <4>1. l.ip = i.ip
        BY <3>1 DEF Of, Line
      <4> QED BY <1>5, <3>2, <4>1 DEF Read, Heard, SshdWhats, DropbearWhats
    <3>6. act \notin Accepting
      BY ONLY <3>1 DEF Accepting
    <3> QED BY <1>1, <2>1, <2>2, <3>2, <3>3, <3>4, <3>5, <3>6, <3>0, LineIsTold, <2>a DEF i
  <2> QED BY ONLY <2>2, <2>3
<1> QED BY <1>2, <1>3, <1>4, <1>5 DEF WebWhats

\* Dropbear's lines of guesses.
LEMMA GuessLines ==
    ASSUME NEW i, i.what = "dropbear guess", IsIncident(i)
    PROVE  /\ DOMAIN LinesOf(i) = 1..(i.tries + 2)
           /\ DOMAIN Tells(i) = 1..(i.tries + 2)
           /\ \A k \in 1..(i.tries + 2) :
                 /\ LinesOf(i)[k] = IF k = 1 THEN Line("dropbear", "child connection")
                                    ELSE IF k = i.tries + 2 THEN Of(i, "dropbear", "max tries of user")
                                    ELSE Of(i, "dropbear", "bad password")
                 /\ Tells(i)[k] = IF k = 1 THEN NoValue ELSE "ssh_failed"
<1> DEFINE a == Line("dropbear", "child connection")
           b == Of(i, "dropbear", "bad password")
           c == Of(i, "dropbear", "max tries of user")
           t == i.tries
<1>1. LinesOf(i) = DropbearLines(i)
  <2>1. i.what \in DropbearWhats
    BY DEF DropbearWhats
  <2> QED BY <2>1, DropbearSays
<1>2. DropbearLines(i) = [k \in 1..(t + 2) |-> IF k = 1 THEN a ELSE IF k = t + 2 THEN c ELSE b]
  BY DropbearGuesses
<1>3. Tells(i) = [k \in 1..(t + 2) |-> IF k = 1 THEN NoValue ELSE "ssh_failed"]
  BY DEF Tells
<1> HIDE DEF a, b, c, t
<1>4. DOMAIN LinesOf(i) = 1..(t + 2) /\ DOMAIN Tells(i) = 1..(t + 2)
  BY ONLY <1>1, <1>2, <1>3
<1>5. ASSUME NEW k \in 1..(t + 2)
      PROVE  /\ LinesOf(i)[k] = IF k = 1 THEN a ELSE IF k = t + 2 THEN c ELSE b
             /\ Tells(i)[k] = IF k = 1 THEN NoValue ELSE "ssh_failed"
  BY ONLY <1>1, <1>2, <1>3
<1> QED BY ONLY <1>4, <1>5 DEF a, b, c, t

LEMMA GuessLinesTell ==
    ASSUME NEW h, NEW k, IsIncident(h.incident), Timed(h),
           h.incident.what = "dropbear guess", k \in DOMAIN LinesOf(h.incident)
    PROVE  LineTells(h, k) /\ DOMAIN Tells(h.incident) = DOMAIN LinesOf(h.incident)
<1> DEFINE i == h.incident
           l == LinesOf(i)[k]
           act == Tells(i)[k]
           last == i.tries + 2
<1>1. h.ts # NoTime
  BY TimedNow
<1>2. /\ DOMAIN LinesOf(i) = 1..last /\ DOMAIN Tells(i) = 1..last
      /\ l = IF k = 1 THEN Line("dropbear", "child connection")
             ELSE IF k = last THEN Of(i, "dropbear", "max tries of user")
             ELSE Of(i, "dropbear", "bad password")
      /\ act = IF k = 1 THEN NoValue ELSE "ssh_failed"
  <2>1. k \in 1..last
    BY GuessLines
  <2> QED BY <2>1, GuessLines
<1>3. l = LinesOf(h.incident)[k] /\ act = Tells(h.incident)[k]
  OBVIOUS
<1>4. DOMAIN Tells(i) = DOMAIN LinesOf(i) /\ k \in DOMAIN Tells(i)
  BY ONLY <1>2, k \in DOMAIN LinesOf(h.incident) DEF i
<1>5. i.what = "dropbear guess"
  OBVIOUS
<1> HIDE DEF l, act, last
<1>6. LineTells(h, k)
  <2>1. CASE k = 1
    <3>1. l = Line("dropbear", "child connection") /\ act = NoValue
      BY ONLY <1>2, <2>1
    <3>2. DOMAIN l = LineFields /\ l.program = "dropbear" /\ l.form = "child connection"
      BY ONLY <3>1 DEF Line, LineFields
    <3>3. Unsaid(l)
      BY ONLY <3>2 DEF Visiting, Unsaid
    <3>4. l.program \in AuthPrograms
      BY ONLY <3>2 DEF AuthPrograms
    <3> QED BY ONLY <1>1, <1>3, <3>1, <3>2, <3>3, <3>4, LineIsMute
  <2>2. CASE k # 1
    <3>1. act = "ssh_failed"
      BY ONLY <1>2, <2>2
    <3>2. l \in {Of(i, "dropbear", "max tries of user"), Of(i, "dropbear", "bad password")}
      BY ONLY <1>2, <2>2
    <3>3. DOMAIN l = LineFields /\ l.program = "dropbear" /\ l.ip = i.ip
          /\ l.form \in {"max tries of user", "bad password"}
      <4>1. CASE l = Of(i, "dropbear", "max tries of user")
        BY ONLY <4>1 DEF Of, Line, LineFields
      <4>2. CASE l = Of(i, "dropbear", "bad password")
        BY ONLY <4>2 DEF Of, Line, LineFields
      <4> QED BY ONLY <3>2, <4>1, <4>2
    <3>4. Outcome(l.program, l.form, act) \in Outcomes
      BY ONLY <3>1, <3>3, Wordings
    <3>5. l.program \in AuthPrograms /\ act # NoValue /\ act \notin Accepting
      BY ONLY <3>1, <3>3 DEF AuthPrograms, NoValue, Accepting
    <3>6. Read(l) <=> Heard(i)
      BY ONLY <1>5, <3>3 DEF Read, Heard, SshdWhats, DropbearWhats
    <3> QED BY ONLY <1>1, <1>3, <1>4, <3>3, <3>4, <3>5, <3>6, LineIsTold DEF i
  <2> QED BY ONLY <2>1, <2>2
<1> QED BY ONLY <1>4, <1>6 DEF i

-----------------------------------------------------------------------------
(* Packets *)

\* The event of a packet.
Passes(e, h, k) ==
    /\ e.kind = "firewall" /\ e.action = h.incident.what /\ e.id = <<h, k>> /\ e.ts = h.ts
    /\ e.ip = h.incident.ip /\ e.dst = h.incident.dst /\ e.port = h.incident.port
    /\ e.detail = h.incident.detail /\ e.ttl = h.incident.ttl + k - 1 /\ e.len = h.incident.len

LEMMA FirewallEvent ==
    ASSUME NEW l, l.ts # NoTime, l.program = "kernel", l.form \in Verdicts
    PROVE  \E e : /\ Normalize(l) = {e} /\ e.kind = "firewall" /\ e.action = l.form
                  /\ e.id = l.id /\ e.ts = l.ts /\ e.ip = l.ip /\ e.dst = l.dst
                  /\ e.port = l.port /\ e.detail = l.detail /\ e.ttl = l.ttl /\ e.len = l.len
<1> DEFINE e == [System(l) EXCEPT !.kind = "firewall", !.action = l.form, !.ip = l.ip,
                              !.dst = l.dst, !.port = l.port, !.detail = l.detail,
                              !.ttl = l.ttl, !.len = l.len]
<1>1. l.program # "pihole" /\ l.form \in {"drop", "accept", "reject"}
  BY DEF Verdicts
<1>2. Normalize(l) = {e}
  BY Zenon, <1>1 DEF Normalize
<1>3. /\ e.kind = "firewall" /\ e.action = l.form
      /\ e.id = l.id /\ e.ts = l.ts /\ e.ip = l.ip /\ e.dst = l.dst
      /\ e.port = l.port /\ e.detail = l.detail /\ e.ttl = l.ttl /\ e.len = l.len
  BY DEF System
<1> HIDE DEF e
<1> QED BY <1>2, <1>3

LEMMA PacketLine ==
    ASSUME NEW i, NEW d
    PROVE  LET l == [Line("kernel", i.what) EXCEPT !.ip = i.ip, !.dst = i.dst, !.port = i.port,
                     !.detail = i.detail, !.ttl = d, !.len = i.len]
           IN  /\ DOMAIN l = LineFields /\ l.program = "kernel" /\ l.form = i.what
               /\ l.ip = i.ip /\ l.dst = i.dst /\ l.port = i.port /\ l.detail = i.detail
               /\ l.ttl = d /\ l.len = i.len
BY DEF Line, LineFields

LEMMA PacketLines ==
    ASSUME NEW i, i.what \in Verdicts, IsIncident(i)
    PROVE  /\ DOMAIN LinesOf(i) = 1..i.tries
           /\ \A k \in 1..i.tries :
                LinesOf(i)[k] =
                    [Line("kernel", i.what) EXCEPT !.ip = i.ip, !.dst = i.dst, !.port = i.port,
                     !.detail = i.detail, !.ttl = i.ttl + k - 1, !.len = i.len]
<1> DEFINE ln(k) == [Line("kernel", i.what) EXCEPT !.ip = i.ip, !.dst = i.dst, !.port = i.port,
                     !.detail = i.detail, !.ttl = i.ttl + k - 1, !.len = i.len]
<1>1. LinesOf(i) = OtherLines(i)
  BY OtherSays
<1>2. OtherLines(i) = [k \in 1..i.tries |-> ln(k)]
  BY DEF OtherLines, Verdicts
<1> HIDE DEF ln
<1>3. /\ DOMAIN LinesOf(i) = 1..i.tries
      /\ \A k \in 1..i.tries : LinesOf(i)[k] = ln(k)
  BY ONLY <1>1, <1>2
<1> QED BY ONLY <1>3 DEF ln

LEMMA PacketsPass ==
    ASSUME NEW h, NEW k, IsIncident(h.incident), Timed(h),
           h.incident.what \in Verdicts, k \in DOMAIN LinesOf(h.incident)
    PROVE  \E e : Normalize(At(h, k)) = {e} /\ Passes(e, h, k)
<1> DEFINE i == h.incident
           l == LinesOf(i)[k]
           a == At(h, k)
           d == i.ttl + k - 1
<1>1. h.ts # NoTime
  BY TimedNow
<1>2. l = [Line("kernel", i.what) EXCEPT !.ip = i.ip, !.dst = i.dst, !.port = i.port,
                     !.detail = i.detail, !.ttl = d, !.len = i.len]
  BY PacketLines
<1> HIDE DEF l, d, i
<1>3. /\ DOMAIN l = LineFields /\ l.program = "kernel" /\ l.form = i.what
      /\ l.ip = i.ip /\ l.dst = i.dst /\ l.port = i.port /\ l.detail = i.detail
      /\ l.ttl = d /\ l.len = i.len
  BY ONLY <1>2, PacketLine
<1>4. /\ a.id = <<h, k>> /\ a.ts = h.ts
      /\ a.program = l.program /\ a.form = l.form /\ a.ip = l.ip /\ a.dst = l.dst /\ a.port = l.port
      /\ a.detail = l.detail /\ a.ttl = l.ttl /\ a.len = l.len
  BY ONLY <1>3, AtSays DEF l, i
<1>5. i.what \in Verdicts
  BY DEF i
<1> HIDE DEF a
<1>6. a.ts # NoTime /\ a.program = "kernel" /\ a.form \in Verdicts
  BY ONLY <1>1, <1>3, <1>4, <1>5
<1>7. PICK e : /\ Normalize(a) = {e} /\ e.kind = "firewall" /\ e.action = a.form
                  /\ e.id = a.id /\ e.ts = a.ts /\ e.ip = a.ip /\ e.dst = a.dst
                  /\ e.port = a.port /\ e.detail = a.detail /\ e.ttl = a.ttl /\ e.len = a.len
  BY ONLY <1>6, FirewallEvent
<1>8. Passes(e, h, k)
  <2>1. /\ e.kind = "firewall" /\ e.action = i.what /\ e.id = <<h, k>> /\ e.ts = h.ts
        /\ e.ip = i.ip /\ e.dst = i.dst /\ e.port = i.port
        /\ e.detail = i.detail /\ e.ttl = d /\ e.len = i.len
    BY ONLY <1>3, <1>4, <1>7
  <2> QED BY ONLY Zenon, <2>1 DEF Passes, i, d
<1> QED BY ONLY <1>7, <1>8 DEF a

-----------------------------------------------------------------------------
(* Lookups, and falls off the Wi-Fi *)

SaidOf(i, program, form, ip) ==
    [Line(program, form) EXCEPT !.ip = ip, !.domain = i.domain, !.detail = i.detail]

LEMMA SaidSays ==
    ASSUME NEW i, NEW p, NEW f, NEW ip
    PROVE  LET l == SaidOf(i, p, f, ip)
           IN  /\ DOMAIN l = LineFields /\ l.program = p /\ l.form = f
               /\ l.ip = ip /\ l.domain = i.domain /\ l.detail = i.detail
BY DEF Line, LineFields, SaidOf

LEMMA FiveLines ==
    ASSUME NEW s, NEW a, NEW b, NEW c, NEW d, NEW e, s = <<a, b, c, d, e>>
    PROVE  /\ DOMAIN s = 1..5 /\ s[1] = a /\ s[2] = b
           /\ s[3] = c /\ s[4] = d /\ s[5] = e
OBVIOUS

LEMMA OutsideLines ==
    ASSUME NEW i, i.what \in Statuses, i.ip \notin Segment
    PROVE  DOMAIN LinesOf(i) = 1..1 /\ LinesOf(i)[1] = SaidOf(i, "pihole", i.what, i.ip)
<1> DEFINE a == SaidOf(i, "pihole", i.what, i.ip)
<1>1. LinesOf(i) = LookupLines(i)
  BY LookupSays
<1>2. LookupLines(i) = <<a>>
  BY DEF LookupLines, SaidOf
<1> HIDE DEF a
<1>3. DOMAIN LinesOf(i) = 1..1 /\ LinesOf(i)[1] = a
  BY ONLY <1>1, <1>2, OneLine
<1> QED BY <1>3 DEF a

LEMMA SegmentLines ==
    ASSUME NEW i, i.what \in Statuses, i.ip \in Segment
    PROVE  /\ DOMAIN LinesOf(i) = 1..5
           /\ LinesOf(i)[1] = SaidOf(i, "pihole", i.what, Gateway)
           /\ LinesOf(i)[2] = SaidOf(i, "dnsmasq", "query", i.ip)
           /\ LinesOf(i)[3] = SaidOf(i, "dnsmasq", "forwarded", i.ip)
           /\ LinesOf(i)[4] = SaidOf(i, "dnsmasq", "reply", i.ip)
           /\ LinesOf(i)[5] = SaidOf(i, "dnsmasq", "reply", i.ip)
<1> DEFINE a == SaidOf(i, "pihole", i.what, Gateway)
           b == SaidOf(i, "dnsmasq", "query", i.ip)
           c == SaidOf(i, "dnsmasq", "forwarded", i.ip)
           d == SaidOf(i, "dnsmasq", "reply", i.ip)
<1>1. LinesOf(i) = LookupLines(i)
  BY LookupSays
<1>2. LookupLines(i) = <<a, b, c, d, d>>
  BY DEF LookupLines, SaidOf
<1> HIDE DEF a, b, c, d
<1>3. /\ DOMAIN LinesOf(i) = 1..5 /\ LinesOf(i)[1] = a /\ LinesOf(i)[2] = b
      /\ LinesOf(i)[3] = c /\ LinesOf(i)[4] = d /\ LinesOf(i)[5] = d
  BY ONLY <1>1, <1>2, FiveLines
<1> QED BY <1>3 DEF a, b, c, d

LEMMA PiholeEvent ==
    ASSUME NEW l, l.ts # NoTime, l.program = "pihole"
    PROVE  IF l.form = "IN_PROGRESS" THEN Normalize(l) = {}
           ELSE \E e : /\ Normalize(l) = {e} /\ e.kind = "dns" /\ e.id = l.id /\ e.ts = l.ts
                       /\ e.ip = l.ip /\ e.domain = l.domain /\ e.detail = l.detail
                       /\ e.reason = l.form
<1>1. Normalize(l) = IF l.form = "IN_PROGRESS" THEN {} ELSE {Query(l)}
  BY DEF Normalize
<1>2. LET e == Query(l)
      IN  /\ e.kind = "dns" /\ e.id = l.id /\ e.ts = l.ts
          /\ e.ip = l.ip /\ e.domain = l.domain /\ e.detail = l.detail /\ e.reason = l.form
  BY DEF Query, System
<1> QED BY <1>1, <1>2

LEMMA OutcomeSays == \A p, f, a : Outcome(p, f, a).program = p
BY DEF Outcome

LEMMA NoneOfDnsmasq == \A o \in Outcomes : o.program # "dnsmasq"
<1>1. \A o \in SshOutcomes : o.program = "sshd"
  BY OutcomeSays DEF SshOutcomes
<1>2. \A o \in DropbearOutcomes : o.program = "dropbear"
  BY OutcomeSays DEF DropbearOutcomes
<1>3. \A o \in WindowsOutcomes : o.program = "winsec"
  BY OutcomeSays DEF WindowsOutcomes
<1>4. ASSUME NEW o \in WebOutcomes PROVE o.program # "dnsmasq"
  <2>1. o = Outcome("uhttpd", "luci accepted", "web_login_success") => o.program = "uhttpd"
    BY OutcomeSays
  <2>2. o = Outcome("uhttpd", "luci failed", "web_login_failed") => o.program = "uhttpd"
    BY OutcomeSays
  <2>3. o = Outcome("httpd", "web successful", "web_login_success") => o.program = "httpd"
    BY OutcomeSays
  <2>4. o = Outcome("httpd", "web failed", "web_login_failed") => o.program = "httpd"
    BY OutcomeSays
  <2> QED BY <2>1, <2>2, <2>3, <2>4 DEF WebOutcomes
<1> QED BY <1>1, <1>2, <1>3, <1>4 DEF Outcomes

LEMMA DnsmasqEvent ==
    ASSUME NEW l, l.ts # NoTime, l.program = "dnsmasq"
    PROVE  IF l.form = "query" /\ l.ip # Loopback
           THEN \E e : /\ Normalize(l) = {e} /\ e.kind = "dns" /\ e.id = l.id /\ e.ts = l.ts
                       /\ e.ip = l.ip /\ e.domain = l.domain /\ e.detail = l.detail
                       /\ e.reason = NoValue
           ELSE \A e \in Normalize(l) : e.kind = "system"
<1> DEFINE e == [System(l) EXCEPT !.kind = "dns", !.ip = l.ip, !.domain = l.domain,
                              !.detail = l.detail]
<1>1. \A o \in Outcomes : o.program # "dnsmasq"
  BY NoneOfDnsmasq
<1>2. OutcomeOf(l) = {}
  BY <1>1, NoOutcomeOfLine
<1>3. ~ IsDeauth(l) /\ ~ IsLease(l)
  BY DEF IsDeauth, IsLease
<1>4. IsLookup(l) <=> l.form = "query" /\ l.ip # Loopback
  BY DEF IsLookup
<1>5. Normalize(l) = IF IsLookup(l) THEN {e} ELSE {System(l)}
  BY <1>2, <1>3 DEF Normalize
<1>6. /\ e.kind = "dns" /\ e.id = l.id /\ e.ts = l.ts /\ e.ip = l.ip
      /\ e.domain = l.domain /\ e.detail = l.detail /\ e.reason = NoValue
  BY DEF System
<1>7. System(l).kind = "system"
  BY SystemSays
<1> HIDE DEF e
<1> QED BY <1>4, <1>5, <1>6, <1>7

\* The events of a lookup: Pi-hole's, once it is answered, and the gateway's.
Answering(e, h, k) ==
    /\ e.kind = "dns" /\ e.id = <<h, k>> /\ e.ts = h.ts
    /\ e.domain = h.incident.domain /\ e.detail = h.incident.detail
LookupTells(h, k) ==
    IF k = 1 /\ h.incident.what = "IN_PROGRESS" THEN Normalize(At(h, k)) = {}
    ELSE IF k = 1
    THEN \E e : /\ Normalize(At(h, k)) = {e} /\ Answering(e, h, k) /\ e.reason = h.incident.what
                /\ e.ip = IF h.incident.ip \in Segment THEN Gateway ELSE h.incident.ip
    ELSE IF k = 2
    THEN \E e : /\ Normalize(At(h, k)) = {e} /\ Answering(e, h, k) /\ e.reason = NoValue
                /\ e.ip = h.incident.ip
    ELSE \A e \in Normalize(At(h, k)) : e.kind = "system"

\* One line of a lookup.
LEMMA PiholeLine ==
    ASSUME NEW h, NEW k, NEW ip, h.ts # NoTime,
           LinesOf(h.incident)[k] = SaidOf(h.incident, "pihole", h.incident.what, ip)
    PROVE  IF h.incident.what = "IN_PROGRESS" THEN Normalize(At(h, k)) = {}
           ELSE \E e : /\ Normalize(At(h, k)) = {e} /\ Answering(e, h, k)
                       /\ e.reason = h.incident.what /\ e.ip = ip
<1> DEFINE i == h.incident
           l == LinesOf(h.incident)[k]
           a == At(h, k)
<1>1. /\ DOMAIN l = LineFields /\ l.program = "pihole" /\ l.form = i.what
      /\ l.ip = ip /\ l.domain = i.domain /\ l.detail = i.detail
  BY SaidSays
<1>2. /\ a.id = <<h, k>> /\ a.ts = h.ts /\ a.program = l.program /\ a.form = l.form
      /\ a.ip = l.ip /\ a.domain = l.domain /\ a.detail = l.detail
  BY ONLY <1>1, AtSays
<1> HIDE DEF a, l, i
<1>3. IF i.what = "IN_PROGRESS" THEN Normalize(a) = {}
      ELSE \E e : /\ Normalize(a) = {e} /\ e.kind = "dns" /\ e.id = a.id /\ e.ts = a.ts
                  /\ e.ip = a.ip /\ e.domain = a.domain /\ e.detail = a.detail
                  /\ e.reason = a.form
  BY <1>1, <1>2, PiholeEvent
<1> QED BY ONLY <1>1, <1>2, <1>3 DEF Answering, a, i

LEMMA GatewayLine ==
    ASSUME NEW h, NEW k, NEW form, h.ts # NoTime, h.incident.ip # Loopback,
           LinesOf(h.incident)[k] = SaidOf(h.incident, "dnsmasq", form, h.incident.ip)
    PROVE  IF form = "query"
           THEN \E e : /\ Normalize(At(h, k)) = {e} /\ Answering(e, h, k)
                       /\ e.reason = NoValue /\ e.ip = h.incident.ip
           ELSE \A e \in Normalize(At(h, k)) : e.kind = "system"
<1> DEFINE i == h.incident
           l == LinesOf(h.incident)[k]
           a == At(h, k)
<1>1. /\ DOMAIN l = LineFields /\ l.program = "dnsmasq" /\ l.form = form
      /\ l.ip = i.ip /\ l.domain = i.domain /\ l.detail = i.detail
  BY SaidSays
<1>2. /\ a.id = <<h, k>> /\ a.ts = h.ts /\ a.program = l.program /\ a.form = l.form
      /\ a.ip = l.ip /\ a.domain = l.domain /\ a.detail = l.detail
  BY ONLY <1>1, AtSays
<1>4. i.ip # Loopback
  OBVIOUS
<1> HIDE DEF a, l, i
<1>3. IF form = "query"
      THEN \E e : /\ Normalize(a) = {e} /\ e.kind = "dns" /\ e.id = a.id /\ e.ts = a.ts
                  /\ e.ip = a.ip /\ e.domain = a.domain /\ e.detail = a.detail
                  /\ e.reason = NoValue
      ELSE \A e \in Normalize(a) : e.kind = "system"
  BY <1>1, <1>2, <1>4, DnsmasqEvent
<1> QED BY ONLY <1>1, <1>2, <1>3 DEF Answering, a, i

LEMMA LookupsTell ==
    ASSUME NEW h, NEW k, IsIncident(h.incident), Timed(h),
           h.incident.what \in Statuses, k \in DOMAIN LinesOf(h.incident)
    PROVE  /\ LookupTells(h, k) /\ k \in 1..5
           /\ DOMAIN LinesOf(h.incident) = IF h.incident.ip \in Segment THEN 1..5 ELSE 1..1
<1> DEFINE i == h.incident
<1>1. h.ts # NoTime
  BY TimedNow
<1>2. i.ip # Loopback
  BY DEF IsIncident, Statuses
<1>3. CASE i.ip \notin Segment
  <2>1. DOMAIN LinesOf(i) = 1..1 /\ LinesOf(i)[1] = SaidOf(i, "pihole", i.what, i.ip)
    BY <1>3, OutsideLines
  <2>2. k = 1
    BY <2>1
  <2>3. LookupTells(h, k)
    <3>1. IF h.incident.what = "IN_PROGRESS" THEN Normalize(At(h, k)) = {}
         ELSE \E e : /\ Normalize(At(h, k)) = {e} /\ Answering(e, h, k)
                     /\ e.reason = h.incident.what /\ e.ip = i.ip
      BY ONLY <1>1, <2>1, <2>2, PiholeLine DEF i
    <3> QED BY ONLY <1>3, <2>2, <3>1 DEF LookupTells, i
  <2> QED BY ONLY <1>3, <2>1, <2>2, <2>3 DEF i
<1>4. CASE i.ip \in Segment
  <2>1. /\ DOMAIN LinesOf(i) = 1..5
        /\ LinesOf(i)[1] = SaidOf(i, "pihole", i.what, Gateway)
        /\ LinesOf(i)[2] = SaidOf(i, "dnsmasq", "query", i.ip)
        /\ LinesOf(i)[3] = SaidOf(i, "dnsmasq", "forwarded", i.ip)
        /\ LinesOf(i)[4] = SaidOf(i, "dnsmasq", "reply", i.ip)
        /\ LinesOf(i)[5] = SaidOf(i, "dnsmasq", "reply", i.ip)
    BY <1>4, SegmentLines
  <2>2. k \in 1..5
    BY <2>1
  <2>3. CASE k = 1
    <3>1. LookupTells(h, k)
      <4>1. IF h.incident.what = "IN_PROGRESS" THEN Normalize(At(h, k)) = {}
           ELSE \E e : /\ Normalize(At(h, k)) = {e} /\ Answering(e, h, k)
                       /\ e.reason = h.incident.what /\ e.ip = Gateway
        <5>1. LinesOf(h.incident)[k] = SaidOf(h.incident, "pihole", h.incident.what, Gateway)
          BY ONLY <2>1, <2>3 DEF i
        <5> QED BY ONLY <1>1, <5>1, PiholeLine
      <4> QED BY ONLY <1>4, <2>3, <4>1 DEF LookupTells, i
    <3> QED BY ONLY <1>4, <2>1, <2>2, <3>1 DEF i
  <2>4. CASE k = 2
    <3>1. LookupTells(h, k)
      BY <1>1, <1>2, <1>4, <2>1, <2>4, GatewayLine DEF LookupTells
    <3> QED BY ONLY <1>4, <2>1, <2>2, <3>1 DEF i
  <2>5. CASE k \in 3..5
    <3>1. \E form \in {"forwarded", "reply"} : LinesOf(i)[k] = SaidOf(i, "dnsmasq", form, i.ip)
      BY ONLY <2>1, <2>5
    <3>2. \A e \in Normalize(At(h, k)) : e.kind = "system"
      BY ONLY <1>1, <1>2, <3>1, GatewayLine DEF i
    <3>3. LookupTells(h, k)
      BY ONLY <2>5, <3>2 DEF LookupTells
    <3> QED BY ONLY <1>4, <2>1, <2>2, <3>3 DEF i
  <2> QED BY ONLY <2>2, <2>3, <2>4, <2>5
<1> QED BY <1>3, <1>4

\* The event of a device's fall.
Falls_(e, h, k) ==
    /\ e.kind = "auth" /\ e.action = "deauth" /\ e.id = <<h, k>> /\ e.ts = h.ts
    /\ e.user = h.incident.user

LEMMA DeauthEvent ==
    ASSUME NEW l, l.ts # NoTime, l.program = "wifi", l.form = "deauth", l.user # NoValue
    PROVE  \E e : /\ Normalize(l) = {e} /\ e.kind = "auth" /\ e.action = "deauth"
                  /\ e.id = l.id /\ e.ts = l.ts /\ e.user = l.user
<1> DEFINE e == [System(l) EXCEPT !.kind = "auth", !.action = "deauth", !.user = l.user]
<1>1. IsDeauth(l) /\ l.program \notin {"pihole", "kernel", "vpn"}
  BY DEF IsDeauth
<1>2. Normalize(l) = {e}
  BY Zenon, <1>1 DEF Normalize
<1>3. /\ e.kind = "auth" /\ e.action = "deauth" /\ e.id = l.id /\ e.ts = l.ts /\ e.user = l.user
  BY DEF System
<1> HIDE DEF e
<1> QED BY <1>2, <1>3

LEMMA DeauthTells ==
    ASSUME NEW h, NEW k, IsIncident(h.incident), Timed(h),
           h.incident.what = "deauth", k \in DOMAIN LinesOf(h.incident)
    PROVE  /\ k = 1 /\ DOMAIN LinesOf(h.incident) = 1..1
           /\ \E e : Normalize(At(h, k)) = {e} /\ Falls_(e, h, k)
<1> DEFINE i == h.incident
           l == LinesOf(h.incident)[k]
           a == At(h, k)
           b == Bare(i, "wifi", "deauth")
<1>1. h.ts # NoTime
  BY TimedNow
<1>2. LinesOf(i) = OtherLines(i)
  <2>1. i.what \in Verdicts \cup OtherWhats
    BY DEF OtherWhats
  <2> QED BY <2>1, OtherSays
<1>3. OtherLines(i) = <<b>>
  BY DEF OtherLines, Verdicts
<1>4. i.user # NoValue
  BY Zenon DEF IsIncident
<1> HIDE DEF b
<1>5. DOMAIN LinesOf(i) = 1..1 /\ LinesOf(i)[1] = b
  BY ONLY <1>2, <1>3, OneLine
<1>6. k = 1 /\ l = b
  BY <1>5
<1> HIDE DEF i, l
<1>7. DOMAIN l = LineFields /\ l.program = "wifi" /\ l.form = "deauth" /\ l.user = i.user
  BY ONLY <1>6, BareSays DEF b
<1>8. /\ a.id = <<h, k>> /\ a.ts = h.ts /\ a.program = l.program /\ a.form = l.form
      /\ a.user = l.user
  BY ONLY <1>7, AtSays DEF l, i
<1> HIDE DEF a
<1>9. \E e : /\ Normalize(a) = {e} /\ e.kind = "auth" /\ e.action = "deauth"
             /\ e.id = a.id /\ e.ts = a.ts /\ e.user = a.user
  BY ONLY <1>1, <1>4, <1>7, <1>8, DeauthEvent
<1>10. \E e : Normalize(a) = {e} /\ Falls_(e, h, k)
  BY ONLY <1>7, <1>8, <1>9 DEF Falls_, i
<1> QED BY ONLY <1>5, <1>6, <1>10 DEF i, a

LEMMA RestartTells ==
    ASSUME NEW h, NEW k, IsIncident(h.incident), Timed(h),
           h.incident.what = "dnsmasq restart", k \in DOMAIN LinesOf(h.incident)
    PROVE  \A e \in Normalize(At(h, k)) : e.kind = "system"
<1> DEFINE i == h.incident
           l == LinesOf(h.incident)[k]
           a == At(h, k)
           b == [Line("dnsmasq", "query") EXCEPT !.ip = Loopback, !.domain = i.domain]
           c == [Line("dnsmasq", "config") EXCEPT !.ip = Loopback, !.domain = i.domain]
<1>1. h.ts # NoTime
  BY TimedNow
<1>2. LinesOf(i) = OtherLines(i)
  <2>1. i.what \in Verdicts \cup OtherWhats
    BY DEF OtherWhats
  <2> QED BY <2>1, OtherSays
<1>3. OtherLines(i) = <<b, c>>
  BY DEF OtherLines, Verdicts
<1>4. /\ DOMAIN b = LineFields /\ b.program = "dnsmasq" /\ b.ip = Loopback
      /\ DOMAIN c = LineFields /\ c.program = "dnsmasq" /\ c.ip = Loopback
  BY DEF Line, LineFields
<1> HIDE DEF b, c
<1>5. DOMAIN LinesOf(i) = 1..2 /\ LinesOf(i)[1] = b /\ LinesOf(i)[2] = c
  BY ONLY <1>2, <1>3, TwoLines
<1>6. l = b \/ l = c
  <2>1. k \in 1..2
    BY <1>5
  <2> QED BY ONLY <1>5, <2>1 DEF l, i
<1> HIDE DEF i, l
<1>7. DOMAIN l = LineFields /\ l.program = "dnsmasq" /\ l.ip = Loopback
  BY ONLY <1>4, <1>6
<1>8. a.ts = h.ts /\ a.program = l.program /\ a.ip = l.ip
  BY ONLY <1>7, AtSays DEF l
<1> HIDE DEF a
<1>9. \A e \in Normalize(a) : e.kind = "system"
  BY ONLY <1>1, <1>7, <1>8, DnsmasqEvent
<1> QED BY ONLY <1>9 DEF a

-----------------------------------------------------------------------------
(* The events of all that happened *)

AuthWhats == SshdWhats \cup DropbearWhats \cup WindowsWhats \cup WebWhats

LEMMA AttemptsTell ==
    ASSUME NEW h, NEW k, IsIncident(h.incident), Timed(h),
           h.incident.what \in AuthWhats, k \in DOMAIN LinesOf(h.incident)
    PROVE  LineTells(h, k) /\ DOMAIN Tells(h.incident) = DOMAIN LinesOf(h.incident)
BY SshdLinesTell, DropbearLinesTell, GuessLinesTell, WindowsLinesTell, WebLinesTell DEF AuthWhats

LEMMA NotHeard ==
    ASSUME NEW i, i.what \notin AuthWhats
    PROVE  Tells(i) = <<>>
BY DEF Tells, AuthWhats, SshdWhats, DropbearWhats, WindowsWhats, WebWhats

LEMMA Sorts ==
    /\ AuthWhats \cap (Verdicts \cup Statuses \cup OtherWhats) = {}
    /\ Verdicts \cap (Statuses \cup OtherWhats) = {}
    /\ Statuses \cap OtherWhats = {}
    /\ Whats = AuthWhats \cup Statuses \cup Verdicts \cup OtherWhats
BY DEF AuthWhats, SshdWhats, DropbearWhats, WindowsWhats, WebWhats, Verdicts, Statuses, OtherWhats, Whats

\* What an event of line k of h can be, by what h was.
LEMMA EventOfAttempt ==
    ASSUME NEW h, NEW k, IsIncident(h.incident), Timed(h), h.incident.what \in AuthWhats,
           k \in DOMAIN LinesOf(h.incident), NEW e \in Normalize(At(h, k))
    PROVE  \/ e.kind = "system"
           \/ e.kind = "auth" /\ e.action \in {"session_open", "session_close"}
           \/ LET act == Tells(h.incident)[k]
              IN  /\ k \in DOMAIN Tells(h.incident) /\ act # NoValue /\ Heard(h.incident)
                  /\ TellsOf(e, h, act)
                  /\ e.id = <<h, k>> /\ e.ts = h.ts
<1>1. LineTells(h, k)
  BY AttemptsTell
<1> QED BY <1>1 DEF LineTells, Mute

LEMMA LinesHaveIncidents ==
    ASSUME NEW h, NEW k \in DOMAIN LinesOf(h.incident)
    PROVE  h.incident.what \in Whats
BY NothingSaid

-----------------------------------------------------------------------------
(* What happened, and the events of it *)

Recorded ==
    /\ scene \in Scenes /\ clock \in Nat /\ clock <= scene.until
    /\ IsFiniteSet(happened)
    /\ \A h \in happened : h.incident \in scene.incidents /\ h.ts \in 0..clock

LEMMA RecordedInit == Init => Recorded
BY ScenesAssumption, FS_EmptySet DEF Init, Recorded

LEMMA RecordedStep == Recorded /\ [Next]_vars => Recorded'
<1> SUFFICES ASSUME Recorded, [Next]_vars PROVE Recorded'
  OBVIOUS
<1>1. CASE Happen
  <2>1. PICK i \in scene.incidents : happened' = happened \cup
            {[incident |-> i, ts |-> clock,
              n |-> Cardinality({h \in happened : h.incident = i /\ h.ts = clock})]}
    BY <1>1 DEF Happen
  <2>2. IsFiniteSet(happened')
    BY <2>1, FS_AddElement DEF Recorded
  <2>3. UNCHANGED <<scene, clock>>
    BY <1>1 DEF Happen
  <2> DEFINE h == [incident |-> i, ts |-> clock,
                   n |-> Cardinality({h \in happened : h.incident = i /\ h.ts = clock})]
  <2>4. h.incident = i /\ h.ts = clock /\ happened' = happened \cup {h}
    BY <2>1
  <2> HIDE DEF h
  <2>5. clock \in 0..clock
    BY DEF Recorded
  <2> QED BY <2>2, <2>3, <2>4, <2>5 DEF Recorded
<1>2. CASE Tick
  BY <1>2, ScenesAssumption DEF Tick, Recorded
<1>3. CASE Analyse
  BY <1>3 DEF Analyse, Recorded
<1>4. CASE Reported \/ UNCHANGED vars
  BY <1>4 DEF Reported, vars, Recorded
<1> QED BY <1>1, <1>2, <1>3, <1>4 DEF Next

\* What happened is what the scene may hold, at a time until now.
THEOREM RecordedInvariant == Spec => []Recorded
BY RecordedInit, RecordedStep, PTL DEF Spec

LEMMA Known ==
    ASSUME Recorded, NEW h \in happened
    PROVE  IsIncident(h.incident) /\ Timed(h)
<1>1. h.incident \in scene.incidents /\ h.ts \in Nat
  BY DEF Recorded
<1>2. IsIncident(h.incident)
  BY <1>1, ScenesAssumption DEF Recorded
<1> QED BY <1>1, <1>2 DEF Timed

\* The events are those of the lines of what happened.
LEMMA EventsAre ==
    ASSUME NEW e
    PROVE  e \in Events(Log) <=>
             \E h \in happened : \E k \in DOMAIN LinesOf(h.incident) : e \in Normalize(At(h, k))
<1>1. Log = UNION {{At(h, k) : k \in DOMAIN LinesOf(h.incident)} : h \in happened}
  BY Zenon DEF Log, At
<1>2. \A l : l \in Log <=> \E h \in happened : \E k \in DOMAIN LinesOf(h.incident) : l = At(h, k)
  BY <1>1
<1> QED BY <1>2 DEF Events

\* Events that are told apart by their ids, and have all of these, are as many.
LEMMA CountedById ==
    ASSUME NEW E, NEW I, IsFiniteSet(I), \A e \in E : e.id \in I,
           \A e, f \in E : e.id = f.id => e = f, \A i \in I : \E e \in E : e.id = i
    PROVE  IsFiniteSet(E) /\ Cardinality(E) = Cardinality(I)
<1> DEFINE g == [e \in E |-> e.id]
<1>1. g \in Injection(E, I) /\ g \in Surjection(E, I)
  BY DEF Surjection, Injection, IsInjective
<1> HIDE DEF g
<1> QED BY <1>1, FS_Injection

\* The lines that tell of an attempt by one of some actions.
Marks(i, actions) == {k \in DOMAIN Tells(i) : Tells(i)[k] \in actions}
Audible == {h \in happened : Heard(h.incident)}

\* Actions by which attempts are told of.
Telltales(actions) == actions \cap {"session_open", "session_close", "deauth", NoValue} = {}

LEMMA TellsDomain ==
    ASSUME NEW i, IsIncident(i)
    PROVE  \E n \in Nat : DOMAIN Tells(i) = 1..n
<1>1. CASE i.what = "dropbear guess"
  <2>1. i.tries + 2 \in Nat
    BY IncidentTyped, TwoMore
  <2>2. DOMAIN Tells(i) = 1..(i.tries + 2)
    BY <1>1, GuessLines
  <2> QED BY <2>1, <2>2
<1>2. CASE i.what # "dropbear guess"
  <2>1. \/ Tells(i) = <<>>
        \/ \E a : Tells(i) = <<a>>
        \/ \E a, b : Tells(i) = <<a, b>>
        \/ \E a, b, c : Tells(i) = <<a, b, c>>
    BY <1>2 DEF Tells
  <2>2. ASSUME Tells(i) = <<>> PROVE DOMAIN Tells(i) = 1..0
    BY <2>2
  <2>3. ASSUME NEW a, Tells(i) = <<a>> PROVE DOMAIN Tells(i) = 1..1
    BY ONLY <2>3, OneLine
  <2>4. ASSUME NEW a, NEW b, Tells(i) = <<a, b>> PROVE DOMAIN Tells(i) = 1..2
    BY ONLY <2>4, TwoLines
  <2>5. ASSUME NEW a, NEW b, NEW c, Tells(i) = <<a, b, c>> PROVE DOMAIN Tells(i) = 1..3
    BY ONLY <2>5, ThreeLines
  <2>6. \E n \in {0, 1, 2, 3} : DOMAIN Tells(i) = 1..n
    BY ONLY <2>1, <2>2, <2>3, <2>4, <2>5
  <2> QED BY ONLY <2>6
<1> QED BY <1>1, <1>2

LEMMA MarksAreFinite ==
    ASSUME NEW i, IsIncident(i), NEW actions
    PROVE  IsFiniteSet(Marks(i, actions))
<1>1. PICK n \in Nat : DOMAIN Tells(i) = 1..n
  BY TellsDomain
<1>2. IsFiniteSet(1..n)
  BY FS_Interval
<1> QED BY <1>1, <1>2, FS_Subset DEF Marks

\* An event of an attempt.
Attests(e, h, k) ==
    /\ TellsOf(e, h, Tells(h.incident)[k]) /\ e.id = <<h, k>> /\ e.ts = h.ts
    /\ Normalize(At(h, k)) = {e}

LEMMA AttestedBy ==
    ASSUME Recorded, NEW actions, Telltales(actions),
           NEW e \in WithAction(Events(Log), "auth", actions)
    PROVE  \E h \in Audible : \E k \in Marks(h.incident, actions) : Attests(e, h, k)
<1>1. e \in Events(Log) /\ e.kind = "auth" /\ e.action \in actions
  BY DEF WithAction, OfKind
<1>2. PICK h \in happened : \E k \in DOMAIN LinesOf(h.incident) : e \in Normalize(At(h, k))
  BY <1>1, EventsAre
<1>3. PICK k \in DOMAIN LinesOf(h.incident) : e \in Normalize(At(h, k))
  BY <1>2
<1>4. IsIncident(h.incident) /\ Timed(h)
  BY Known
<1>5. e.action \notin {"session_open", "session_close", "deauth"} /\ e.kind # "system"
  BY <1>1 DEF Telltales
<1>6. CASE h.incident.what \in AuthWhats
  <2> DEFINE act == Tells(h.incident)[k]
  <2>1. LineTells(h, k)
    BY <1>4, <1>6, AttemptsTell
  <2>2. ~ Mute(e)
    BY <1>1, <1>5 DEF Mute
  <2>3. k \in DOMAIN Tells(h.incident) /\ act # NoValue /\ Heard(h.incident)
    BY <1>3, <2>1, <2>2 DEF LineTells
  <2>4. Normalize(At(h, k)) = {e} /\ TellsOf(e, h, act) /\ e.id = <<h, k>> /\ e.ts = h.ts
    BY <1>3, <2>1, <2>3 DEF LineTells
  <2>5. act \in actions
    BY <1>1, <2>4 DEF TellsOf
  <2> QED BY <2>3, <2>4, <2>5 DEF Marks, Audible, Attests
<1>7. CASE h.incident.what \in Verdicts
  BY <1>1, <1>3, <1>4, <1>7, PacketsPass DEF Passes
<1>8. CASE h.incident.what \in Statuses
  <2>1. LookupTells(h, k)
    BY <1>4, <1>8, LookupsTell
  <2>2. e.kind = "dns" \/ e.kind = "system"
    BY <1>3, <2>1 DEF LookupTells, Answering
  <2> QED BY <1>1, <2>2
<1>9. CASE h.incident.what = "deauth"
  BY <1>1, <1>3, <1>4, <1>5, <1>9, DeauthTells DEF Falls_
<1>10. CASE h.incident.what = "dnsmasq restart"
  BY <1>1, <1>3, <1>4, <1>10, RestartTells
<1> QED BY <1>6, <1>7, <1>8, <1>9, <1>10, LinesHaveIncidents, Sorts DEF OtherWhats

LEMMA HasLines ==
    ASSUME NEW i, IsIncident(i), i.what \in AuthWhats
    PROVE  1 \in DOMAIN LinesOf(i)
<1>1. CASE i.what = "dropbear guess"
  <2>1. DOMAIN LinesOf(i) = 1..(i.tries + 2)
    BY <1>1, GuessLines
  <2>2. i.tries \in Nat
    BY IncidentTyped
  <2> QED BY ONLY <2>1, <2>2
<1>2. CASE i.what \in SshdWhats
  <2>1. \/ DOMAIN LinesOf(i) = 1..3 \/ DOMAIN LinesOf(i) = 1..2 \/ DOMAIN LinesOf(i) = 1..1
    BY <1>2, Sshd1, Sshd2, Sshd3 DEF SshdWhats
  <2> QED BY ONLY <2>1
<1>3. CASE i.what \in DropbearWhats \ {"dropbear guess"}
  <2>1. DOMAIN LinesOf(i) = 1..2
    BY <1>3, Dropbear1, Dropbear2, Dropbear3 DEF DropbearWhats
  <2> QED BY ONLY <2>1
<1>4. CASE i.what \in WindowsWhats
  <2>1. DOMAIN LinesOf(i) = 1..2 \/ DOMAIN LinesOf(i) = 1..1
    BY <1>4, Windows1, Windows2 DEF WindowsWhats
  <2> QED BY ONLY <2>1
<1>5. CASE i.what \in WebWhats
  <2>1. DOMAIN LinesOf(i) = 1..1
    BY <1>5, Web1, Web2, Web3, Web4 DEF WebWhats
  <2> QED BY ONLY <2>1
<1> QED BY <1>1, <1>2, <1>3, <1>4, <1>5 DEF AuthWhats, DropbearWhats

LEMMA AttestedAre ==
    ASSUME Recorded, NEW actions, Telltales(actions), NEW h \in Audible,
           NEW k \in Marks(h.incident, actions)
    PROVE  \E e \in WithAction(Events(Log), "auth", actions) : Attests(e, h, k)
<1> DEFINE act == Tells(h.incident)[k]
<1>1. h \in happened /\ Heard(h.incident) /\ k \in DOMAIN Tells(h.incident) /\ act \in actions
  BY DEF Audible, Marks
<1>2. IsIncident(h.incident) /\ Timed(h)
  BY <1>1, Known
<1>3. h.incident.what \in AuthWhats
  <2>1. Tells(h.incident) # <<>>
    BY <1>1
  <2> QED BY <2>1, NotHeard
<1>4. k \in DOMAIN LinesOf(h.incident)
  <2>1. h.incident.what \in Whats
    BY <1>3, Sorts
  <2>2. ASSUME NEW m \in DOMAIN LinesOf(h.incident)
        PROVE  DOMAIN Tells(h.incident) = DOMAIN LinesOf(h.incident)
    BY <1>2, <1>3, AttemptsTell
  <2>3. DOMAIN LinesOf(h.incident) # {}
    BY <1>2, <1>3, HasLines
  <2> QED BY <1>1, <2>2, <2>3
<1>5. LineTells(h, k)
  BY <1>2, <1>3, <1>4, AttemptsTell
<1>6. act # NoValue
  BY <1>1 DEF Telltales
<1>7. PICK e : Normalize(At(h, k)) = {e} /\ TellsOf(e, h, act) /\ e.id = <<h, k>> /\ e.ts = h.ts
  BY <1>1, <1>5, <1>6 DEF LineTells
<1>8. e \in Events(Log)
  BY <1>1, <1>4, <1>7, EventsAre
<1>9. e \in WithAction(Events(Log), "auth", actions)
  BY <1>1, <1>7, <1>8 DEF WithAction, OfKind, TellsOf
<1> QED BY <1>7, <1>9 DEF Attests

\* The events of attempts are as many as the lines that tell of one.
MarksOf(actions) == [h \in Audible |-> Marks(h.incident, actions)]

LEMMA AttestedCount ==
    ASSUME Recorded, NEW actions, Telltales(actions)
    PROVE  LET E == WithAction(Events(Log), "auth", actions)
           IN  /\ IsFiniteSet(E) /\ Cardinality(E) \in Nat
               /\ Cardinality(E) = Cardinality(Fibres(MarksOf(actions), Audible))
               /\ \A e, f \in E : e.id = f.id => e = f
<1> DEFINE E == WithAction(Events(Log), "auth", actions)
           m == MarksOf(actions)
           I == Fibres(m, Audible)
<1>1. IsFiniteSet(Audible)
  BY FS_Subset DEF Audible, Recorded
<1>2. \A h \in Audible : m[h] = Marks(h.incident, actions)
  BY DEF MarksOf
<1>3. \A h \in Audible : IsFiniteSet(m[h])
  BY <1>2, Known, MarksAreFinite DEF Audible
<1> HIDE DEF m
<1>4. IsFiniteSet(I)
  BY <1>1, <1>3, FibresAreFinite
<1>5. \A p : p \in I <=> \E h \in Audible : \E k \in Marks(h.incident, actions) : p = <<h, k>>
  BY <1>2 DEF Fibres
<1>6. \A e \in E : \E h \in Audible : \E k \in Marks(h.incident, actions) : Attests(e, h, k)
  BY AttestedBy
<1>7. \A h \in Audible : \A k \in Marks(h.incident, actions) : \E e \in E : Attests(e, h, k)
  BY AttestedAre
<1> HIDE DEF E, I
<1>8. \A e \in E : e.id \in I
  BY <1>5, <1>6 DEF Attests
<1>9. \A i \in I : \E e \in E : e.id = i
  BY <1>5, <1>7 DEF Attests
<1>10. ASSUME NEW e \in E, NEW f \in E, e.id = f.id PROVE e = f
  <2>1. PICK g \in Audible : \E k \in Marks(g.incident, actions) : Attests(e, g, k)
    BY <1>6
  <2>2. PICK h \in Audible : \E k \in Marks(h.incident, actions) : Attests(f, h, k)
    BY <1>6
  <2>3. PICK k : Attests(e, g, k)
    BY <2>1
  <2>4. PICK n : Attests(f, h, n)
    BY <2>2
  <2>5. <<g, k>> = <<h, n>>
    BY ONLY <1>10, <2>3, <2>4 DEF Attests
  <2>6. g = h /\ k = n
    BY ONLY <2>5
  <2>7. {e} = {f}
    BY ONLY <2>3, <2>4, <2>6 DEF Attests
  <2> QED BY ONLY <2>7
<1>11. IsFiniteSet(E) /\ Cardinality(E) = Cardinality(I)
  BY ONLY <1>4, <1>8, <1>9, <1>10, CountedById
<1> QED BY <1>10, <1>11, FS_CardinalityType DEF E, I, m

-----------------------------------------------------------------------------
(* Which lines tell of what *)

LogonWhats(s) ==
    CASE s = "ssh" -> {"sshd logon", "dropbear logon"}
      [] s = "web" -> {"luci logon", "panel logon"}
      [] OTHER -> {"windows logon"}
RefusalWhats(s) ==
    CASE s = "ssh" -> {"sshd guess", "sshd guess, unknown user", "dropbear guess",
                       "dropbear guess, unknown user"}
      [] s = "web" -> {"luci refusal", "panel refusal"}
      [] OTHER -> {"windows refusal"}

LEMMA OneMark ==
    ASSUME NEW i, NEW a, Tells(i) = <<a>>, NEW A
    PROVE  Marks(i, A) = IF a \in A THEN {1} ELSE {}
BY OneLine DEF Marks

LEMMA TwoMarks ==
    ASSUME NEW i, NEW a, NEW b, Tells(i) = <<a, b>>, NEW A
    PROVE  Marks(i, A) = (IF a \in A THEN {1} ELSE {}) \cup (IF b \in A THEN {2} ELSE {})
<1>1. Marks(i, A) = {k \in 1..2 : Tells(i)[k] \in A} /\ Tells(i)[1] = a /\ Tells(i)[2] = b
  BY TwoLines DEF Marks
<1> QED BY ONLY <1>1

LEMMA ThreeMarks ==
    ASSUME NEW i, NEW a, NEW b, NEW c, Tells(i) = <<a, b, c>>, NEW A
    PROVE  Marks(i, A) = (IF a \in A THEN {1} ELSE {}) \cup (IF b \in A THEN {2} ELSE {})
                            \cup (IF c \in A THEN {3} ELSE {})
<1>1. /\ Marks(i, A) = {k \in 1..3 : Tells(i)[k] \in A}
      /\ Tells(i)[1] = a /\ Tells(i)[2] = b /\ Tells(i)[3] = c
  BY ThreeLines DEF Marks
<1> QED BY ONLY <1>1

LEMMA GuessMarks ==
    ASSUME NEW i, IsIncident(i), i.what = "dropbear guess", NEW A, NoValue \notin A
    PROVE  Marks(i, A) = IF "ssh_failed" \in A THEN 2..(i.tries + 2) ELSE {}
<1> DEFINE last == i.tries + 2
<1>1. last \in Nat
  BY IncidentTyped, TwoMore
<1>2. /\ DOMAIN Tells(i) = 1..last
      /\ \A k \in 1..last : Tells(i)[k] = IF k = 1 THEN NoValue ELSE "ssh_failed"
  BY GuessLines
<1> HIDE DEF last
<1>3. Marks(i, A) = IF "ssh_failed" \in A THEN 2..last ELSE {}
  <2>1. Marks(i, A) = {k \in 1..last : Tells(i)[k] \in A}
    BY <1>2 DEF Marks
  <2>2. \A k \in 1..last : Tells(i)[k] \in A <=> k # 1 /\ "ssh_failed" \in A
    BY <1>2
  <2>3. Marks(i, A) = {k \in 1..last : k # 1 /\ "ssh_failed" \in A}
    BY ONLY <2>1, <2>2
  <2> QED BY ONLY <1>1, <2>3
<1> QED BY <1>3 DEF last

\* The sorts of actions, and that the actions of different services differ.
LEMMA ActionsAre ==
    /\ Activity["ssh"] = {"ssh_accepted", "ssh_failed", "ssh_invalid"}
    /\ Activity["web"] = {"web_login_success", "web_login_failed"}
    /\ Activity["windows"] =
          {"logon_success", "logon_failed", "privileged", "explicit_creds", "lockout"}
    /\ Failures["ssh"] = {"ssh_failed", "ssh_invalid"}
    /\ Failures["web"] = {"web_login_failed"}
    /\ Failures["windows"] = {"logon_failed"}
    /\ Acceptance["ssh"] = "ssh_accepted"
    /\ Acceptance["web"] = "web_login_success"
    /\ Acceptance["windows"] = "logon_success"
BY DEF Activity, Failures, Acceptance

LEMMA ActivityHas ==
    ASSUME NEW s \in Services
    PROVE  /\ NoValue \notin Activity[s]
           /\ "ssh_accepted" \in Activity[s] <=> s = "ssh"
           /\ "ssh_failed" \in Activity[s] <=> s = "ssh"
           /\ "ssh_invalid" \in Activity[s] <=> s = "ssh"
           /\ "web_login_success" \in Activity[s] <=> s = "web"
           /\ "web_login_failed" \in Activity[s] <=> s = "web"
           /\ "logon_success" \in Activity[s] <=> s = "windows"
           /\ "logon_failed" \in Activity[s] <=> s = "windows"
           /\ "privileged" \in Activity[s] <=> s = "windows"
<1>1. CASE s = "ssh"
  BY <1>1, ActionsAre DEF NoValue
<1>2. CASE s = "web"
  BY <1>2, ActionsAre DEF NoValue
<1>3. CASE s = "windows"
  BY <1>3, ActionsAre DEF NoValue
<1> QED BY <1>1, <1>2, <1>3 DEF Services

LEMMA FailuresHas ==
    ASSUME NEW s \in Services
    PROVE  /\ NoValue \notin Failures[s]
           /\ "ssh_accepted" \notin Failures[s]
           /\ "ssh_failed" \in Failures[s] <=> s = "ssh"
           /\ "ssh_invalid" \in Failures[s] <=> s = "ssh"
           /\ "web_login_success" \notin Failures[s]
           /\ "web_login_failed" \in Failures[s] <=> s = "web"
           /\ "logon_success" \notin Failures[s]
           /\ "logon_failed" \in Failures[s] <=> s = "windows"
           /\ "privileged" \notin Failures[s]
<1>1. CASE s = "ssh"
  BY <1>1, ActionsAre DEF NoValue
<1>2. CASE s = "web"
  BY <1>2, ActionsAre DEF NoValue
<1>3. CASE s = "windows"
  BY <1>3, ActionsAre DEF NoValue
<1> QED BY <1>1, <1>2, <1>3 DEF Services

LEMMA AcceptanceHas ==
    ASSUME NEW s \in Services
    PROVE  /\ NoValue \notin {Acceptance[s]}
           /\ "ssh_accepted" \in {Acceptance[s]} <=> s = "ssh"
           /\ "ssh_failed" \notin {Acceptance[s]}
           /\ "ssh_invalid" \notin {Acceptance[s]}
           /\ "web_login_success" \in {Acceptance[s]} <=> s = "web"
           /\ "web_login_failed" \notin {Acceptance[s]}
           /\ "logon_success" \in {Acceptance[s]} <=> s = "windows"
           /\ "logon_failed" \notin {Acceptance[s]}
           /\ "privileged" \notin {Acceptance[s]}
<1>1. CASE s = "ssh"
  BY <1>1, ActionsAre DEF NoValue
<1>2. CASE s = "web"
  BY <1>2, ActionsAre DEF NoValue
<1>3. CASE s = "windows"
  BY <1>3, ActionsAre DEF NoValue
<1> QED BY <1>1, <1>2, <1>3 DEF Services

LEMMA AllTelltale ==
    ASSUME NEW s \in Services, NEW A \in {Activity[s], Failures[s], {Acceptance[s]}}
    PROVE  Telltales(A)
<1>1. CASE s = "ssh"
  BY <1>1, ActionsAre DEF Telltales, NoValue
<1>2. CASE s = "web"
  BY <1>2, ActionsAre DEF Telltales, NoValue
<1>3. CASE s = "windows"
  BY <1>3, ActionsAre DEF Telltales, NoValue
<1> QED BY <1>1, <1>2, <1>3 DEF Services

LEMMA SshdLogonMarks ==
    ASSUME NEW i, i.what = "sshd logon", NEW s \in Services
    PROVE  /\ Marks(i, Activity[s]) = IF s = "ssh" THEN {1} ELSE {}
           /\ Marks(i, Failures[s]) = {}
           /\ Marks(i, {Acceptance[s]}) = IF s = "ssh" THEN {1} ELSE {}
<1>1. Tells(i) = <<"ssh_accepted", NoValue, NoValue>>
  BY DEF Tells
<1>2. Marks(i, Activity[s]) = IF s = "ssh" THEN {1} ELSE {}
  BY ONLY <1>1, ThreeMarks, ActivityHas, s \in Services
<1>3. Marks(i, Failures[s]) = {}
  BY ONLY <1>1, ThreeMarks, FailuresHas, s \in Services
<1>4. Marks(i, {Acceptance[s]}) = IF s = "ssh" THEN {1} ELSE {}
  BY ONLY <1>1, ThreeMarks, AcceptanceHas, s \in Services
<1> QED BY <1>2, <1>3, <1>4

LEMMA SshdGuessMarks ==
    ASSUME NEW i, i.what = "sshd guess", NEW s \in Services
    PROVE  /\ Marks(i, Activity[s]) = IF s = "ssh" THEN {1} ELSE {}
           /\ Marks(i, Failures[s]) = IF s = "ssh" THEN {1} ELSE {}
           /\ Marks(i, {Acceptance[s]}) = {}
<1>1. Tells(i) = <<"ssh_failed">>
  BY DEF Tells
<1>2. Marks(i, Activity[s]) = IF s = "ssh" THEN {1} ELSE {}
  BY ONLY <1>1, OneMark, ActivityHas, s \in Services
<1>3. Marks(i, Failures[s]) = IF s = "ssh" THEN {1} ELSE {}
  BY ONLY <1>1, OneMark, FailuresHas, s \in Services
<1>4. Marks(i, {Acceptance[s]}) = {}
  BY ONLY <1>1, OneMark, AcceptanceHas, s \in Services
<1> QED BY <1>2, <1>3, <1>4

LEMMA SshdUnknownMarks ==
    ASSUME NEW i, i.what = "sshd guess, unknown user", NEW s \in Services
    PROVE  /\ Marks(i, Activity[s]) = IF s = "ssh" THEN {1, 2} ELSE {}
           /\ Marks(i, Failures[s]) = IF s = "ssh" THEN {1, 2} ELSE {}
           /\ Marks(i, {Acceptance[s]}) = {}
<1>1. Tells(i) = <<"ssh_invalid", "ssh_failed">>
  BY DEF Tells
<1>2. Marks(i, Activity[s]) = IF s = "ssh" THEN {1, 2} ELSE {}
  BY ONLY <1>1, TwoMarks, ActivityHas, s \in Services
<1>3. Marks(i, Failures[s]) = IF s = "ssh" THEN {1, 2} ELSE {}
  BY ONLY <1>1, TwoMarks, FailuresHas, s \in Services
<1>4. Marks(i, {Acceptance[s]}) = {}
  BY ONLY <1>1, TwoMarks, AcceptanceHas, s \in Services
<1> QED BY <1>2, <1>3, <1>4

LEMMA DropbearLogonMarks ==
    ASSUME NEW i, i.what = "dropbear logon", NEW s \in Services
    PROVE  /\ Marks(i, Activity[s]) = IF s = "ssh" THEN {2} ELSE {}
           /\ Marks(i, Failures[s]) = {}
           /\ Marks(i, {Acceptance[s]}) = IF s = "ssh" THEN {2} ELSE {}
<1>1. Tells(i) = <<NoValue, "ssh_accepted">>
  BY DEF Tells
<1> QED BY ONLY <1>1, TwoMarks, ActivityHas, FailuresHas, AcceptanceHas, s \in Services

LEMMA DropbearUnknownMarks ==
    ASSUME NEW i, i.what = "dropbear guess, unknown user", NEW s \in Services
    PROVE  /\ Marks(i, Activity[s]) = IF s = "ssh" THEN {2} ELSE {}
           /\ Marks(i, Failures[s]) = IF s = "ssh" THEN {2} ELSE {}
           /\ Marks(i, {Acceptance[s]}) = {}
<1>1. Tells(i) = <<NoValue, "ssh_invalid">>
  BY DEF Tells
<1> QED BY ONLY <1>1, TwoMarks, ActivityHas, FailuresHas, AcceptanceHas, s \in Services

LEMMA DropbearVisitMarks ==
    ASSUME NEW i, i.what = "dropbear visit", NEW s \in Services
    PROVE  /\ Marks(i, Activity[s]) = {}
           /\ Marks(i, Failures[s]) = {}
           /\ Marks(i, {Acceptance[s]}) = {}
<1>1. Tells(i) = <<NoValue, NoValue>>
  BY DEF Tells
<1> QED BY ONLY <1>1, TwoMarks, ActivityHas, FailuresHas, AcceptanceHas, s \in Services

LEMMA WindowsLogonMarks ==
    ASSUME NEW i, i.what = "windows logon", NEW s \in Services
    PROVE  /\ Marks(i, Activity[s]) = IF s = "windows" THEN {1, 2} ELSE {}
           /\ Marks(i, Failures[s]) = {}
           /\ Marks(i, {Acceptance[s]}) = IF s = "windows" THEN {1} ELSE {}
<1>1. Tells(i) = <<"logon_success", "privileged">>
  BY DEF Tells
<1>2. Marks(i, Activity[s]) = IF s = "windows" THEN {1, 2} ELSE {}
  BY ONLY <1>1, TwoMarks, ActivityHas, s \in Services
<1>3. Marks(i, Failures[s]) = {}
  BY ONLY <1>1, TwoMarks, FailuresHas, s \in Services
<1>4. Marks(i, {Acceptance[s]}) = IF s = "windows" THEN {1} ELSE {}
  BY ONLY <1>1, TwoMarks, AcceptanceHas, s \in Services
<1> QED BY <1>2, <1>3, <1>4

LEMMA WindowsRefusalMarks ==
    ASSUME NEW i, i.what = "windows refusal", NEW s \in Services
    PROVE  /\ Marks(i, Activity[s]) = IF s = "windows" THEN {1} ELSE {}
           /\ Marks(i, Failures[s]) = IF s = "windows" THEN {1} ELSE {}
           /\ Marks(i, {Acceptance[s]}) = {}
<1>1. Tells(i) = <<"logon_failed">>
  BY DEF Tells
<1>2. Marks(i, Activity[s]) = IF s = "windows" THEN {1} ELSE {}
  BY ONLY <1>1, OneMark, ActivityHas, s \in Services
<1>3. Marks(i, Failures[s]) = IF s = "windows" THEN {1} ELSE {}
  BY ONLY <1>1, OneMark, FailuresHas, s \in Services
<1>4. Marks(i, {Acceptance[s]}) = {}
  BY ONLY <1>1, OneMark, AcceptanceHas, s \in Services
<1> QED BY <1>2, <1>3, <1>4

LEMMA LuciLogonMarks ==
    ASSUME NEW i, i.what = "luci logon", NEW s \in Services
    PROVE  /\ Marks(i, Activity[s]) = IF s = "web" THEN {1} ELSE {}
           /\ Marks(i, Failures[s]) = {}
           /\ Marks(i, {Acceptance[s]}) = IF s = "web" THEN {1} ELSE {}
<1>1. Tells(i) = <<"web_login_success">>
  BY DEF Tells
<1>2. Marks(i, Activity[s]) = IF s = "web" THEN {1} ELSE {}
  BY ONLY <1>1, OneMark, ActivityHas, s \in Services
<1>3. Marks(i, Failures[s]) = {}
  BY ONLY <1>1, OneMark, FailuresHas, s \in Services
<1>4. Marks(i, {Acceptance[s]}) = IF s = "web" THEN {1} ELSE {}
  BY ONLY <1>1, OneMark, AcceptanceHas, s \in Services
<1> QED BY <1>2, <1>3, <1>4

LEMMA LuciRefusalMarks ==
    ASSUME NEW i, i.what = "luci refusal", NEW s \in Services
    PROVE  /\ Marks(i, Activity[s]) = IF s = "web" THEN {1} ELSE {}
           /\ Marks(i, Failures[s]) = IF s = "web" THEN {1} ELSE {}
           /\ Marks(i, {Acceptance[s]}) = {}
<1>1. Tells(i) = <<"web_login_failed">>
  BY DEF Tells
<1>2. Marks(i, Activity[s]) = IF s = "web" THEN {1} ELSE {}
  BY ONLY <1>1, OneMark, ActivityHas, s \in Services
<1>3. Marks(i, Failures[s]) = IF s = "web" THEN {1} ELSE {}
  BY ONLY <1>1, OneMark, FailuresHas, s \in Services
<1>4. Marks(i, {Acceptance[s]}) = {}
  BY ONLY <1>1, OneMark, AcceptanceHas, s \in Services
<1> QED BY <1>2, <1>3, <1>4

LEMMA PanelLogonMarks ==
    ASSUME NEW i, i.what = "panel logon", NEW s \in Services
    PROVE  /\ Marks(i, Activity[s]) = IF s = "web" THEN {1} ELSE {}
           /\ Marks(i, Failures[s]) = {}
           /\ Marks(i, {Acceptance[s]}) = IF s = "web" THEN {1} ELSE {}
<1>1. Tells(i) = <<"web_login_success">>
  BY DEF Tells
<1>2. Marks(i, Activity[s]) = IF s = "web" THEN {1} ELSE {}
  BY ONLY <1>1, OneMark, ActivityHas, s \in Services
<1>3. Marks(i, Failures[s]) = {}
  BY ONLY <1>1, OneMark, FailuresHas, s \in Services
<1>4. Marks(i, {Acceptance[s]}) = IF s = "web" THEN {1} ELSE {}
  BY ONLY <1>1, OneMark, AcceptanceHas, s \in Services
<1> QED BY <1>2, <1>3, <1>4

LEMMA PanelRefusalMarks ==
    ASSUME NEW i, i.what = "panel refusal", NEW s \in Services
    PROVE  /\ Marks(i, Activity[s]) = IF s = "web" THEN {1} ELSE {}
           /\ Marks(i, Failures[s]) = IF s = "web" THEN {1} ELSE {}
           /\ Marks(i, {Acceptance[s]}) = {}
<1>1. Tells(i) = <<"web_login_failed">>
  BY DEF Tells
<1>2. Marks(i, Activity[s]) = IF s = "web" THEN {1} ELSE {}
  BY ONLY <1>1, OneMark, ActivityHas, s \in Services
<1>3. Marks(i, Failures[s]) = IF s = "web" THEN {1} ELSE {}
  BY ONLY <1>1, OneMark, FailuresHas, s \in Services
<1>4. Marks(i, {Acceptance[s]}) = {}
  BY ONLY <1>1, OneMark, AcceptanceHas, s \in Services
<1> QED BY <1>2, <1>3, <1>4

LEMMA DropbearGuessMarks ==
    ASSUME NEW i, i.what = "dropbear guess", IsIncident(i), NEW s \in Services
    PROVE  /\ Marks(i, Activity[s]) = IF s = "ssh" THEN 2..(i.tries + 2) ELSE {}
           /\ Marks(i, Failures[s]) = IF s = "ssh" THEN 2..(i.tries + 2) ELSE {}
           /\ Marks(i, {Acceptance[s]}) = {}
BY GuessMarks, ActivityHas, FailuresHas, AcceptanceHas

LEMMA NoMarks ==
    ASSUME NEW i, i.what \notin AuthWhats, NEW A
    PROVE  Marks(i, A) = {}
BY NotHeard DEF Marks

LEMMA OneTry ==
    ASSUME NEW i, IsIncident(i), i.what \notin Verdicts \cup {"dropbear guess"}
    PROVE  i.tries = 1
<1>1. i.what \notin {"drop", "reject", "dropbear guess"}
  BY DEF Verdicts
<1> QED BY Zenon, <1>1 DEF IsIncident

LEMMA SmallSets ==
    /\ IsFiniteSet({1}) /\ Cardinality({1}) = 1 /\ IsFiniteSet({2}) /\ Cardinality({2}) = 1
    /\ IsFiniteSet({1, 2}) /\ Cardinality({1, 2}) = 2
<1>1. IsFiniteSet({1}) /\ Cardinality({1}) = 1 /\ IsFiniteSet({2}) /\ Cardinality({2}) = 1
  BY FS_Singleton
<1>2. {1, 2} = {1} \cup {2} /\ 2 \notin {1}
  OBVIOUS
<1>3. IsFiniteSet({1, 2}) /\ Cardinality({1, 2}) = 2
  BY <1>1, <1>2, FS_AddElement
<1> QED BY <1>1, <1>3

\* How many lines tell of a refused attempt: as many as its tries, or twice that.
Counts(m, n) == IsFiniteSet(m) /\ n <= Cardinality(m) /\ Cardinality(m) <= 2 * n

LEMMA RefusalMarks ==
    ASSUME NEW i, IsIncident(i), NEW s \in Services, i.what \in RefusalWhats(s)
    PROVE  /\ Counts(Marks(i, Activity[s]), i.tries)
           /\ Marks(i, Failures[s]) = Marks(i, Activity[s])
<1>1. CASE i.what = "dropbear guess"
  <2> DEFINE t == i.tries
  <2>1. s = "ssh"
    BY <1>1 DEF RefusalWhats, Services
  <2>2. Marks(i, Activity[s]) = 2..(t + 2) /\ Marks(i, Failures[s]) = 2..(t + 2)
    BY <1>1, <2>1, DropbearGuessMarks
  <2>3. t \in Nat \ {0}
    BY IncidentTyped
  <2> HIDE DEF t
  <2>4. IsFiniteSet(2..(t + 2)) /\ Cardinality(2..(t + 2)) = t + 1
    BY ONLY <2>3, FS_Interval
  <2>5. Counts(2..(t + 2), t)
    BY ONLY <2>3, <2>4 DEF Counts
  <2> QED BY ONLY <2>2, <2>5 DEF t
<1>2. CASE i.what # "dropbear guess"
  <2>1. i.tries = 1
    BY <1>2, OneTry DEF RefusalWhats, Verdicts
  <2>2. \E m \in {{1}, {2}, {1, 2}} : Marks(i, Activity[s]) = m /\ Marks(i, Failures[s]) = m
    <3>1. CASE s = "ssh"
      <4>1. i.what \in {"sshd guess", "sshd guess, unknown user", "dropbear guess, unknown user"}
        BY <1>2, <3>1 DEF RefusalWhats
      <4> QED BY <3>1, <4>1, SshdGuessMarks, SshdUnknownMarks, DropbearUnknownMarks
    <3>2. CASE s = "web"
      <4>1. i.what \in {"luci refusal", "panel refusal"}
        BY <3>2 DEF RefusalWhats
      <4> QED BY <3>2, <4>1, LuciRefusalMarks, PanelRefusalMarks
    <3>3. CASE s = "windows"
      <4>1. i.what = "windows refusal"
        BY <3>3 DEF RefusalWhats
      <4> QED BY <3>3, <4>1, WindowsRefusalMarks
    <3> QED BY <3>1, <3>2, <3>3 DEF Services
  <2>3. \A m \in {{1}, {2}, {1, 2}} : Counts(m, 1)
    BY ONLY SmallSets DEF Counts
  <2> QED BY ONLY <2>1, <2>2, <2>3
<1> QED BY ONLY <1>1, <1>2

LEMMA LogonMarks ==
    ASSUME NEW i, IsIncident(i), NEW s \in Services, i.what \in LogonWhats(s)
    PROVE  /\ Marks(i, Activity[s]) =
                IF s = "windows" THEN {1, 2} ELSE Marks(i, {Acceptance[s]})
           /\ Marks(i, Failures[s]) = {}
           /\ Marks(i, {Acceptance[s]}) = {1} \/ Marks(i, {Acceptance[s]}) = {2}
<1>1. CASE s = "ssh"
  <2>1. i.what \in {"sshd logon", "dropbear logon"}
    BY <1>1 DEF LogonWhats
  <2> QED BY <1>1, <2>1, SshdLogonMarks, DropbearLogonMarks
<1>2. CASE s = "web"
  <2>1. i.what \in {"luci logon", "panel logon"}
    BY <1>2 DEF LogonWhats
  <2> QED BY <1>2, <2>1, LuciLogonMarks, PanelLogonMarks
<1>3. CASE s = "windows"
  <2>1. i.what = "windows logon"
    BY <1>3 DEF LogonWhats
  <2> QED BY <1>3, <2>1, WindowsLogonMarks
<1> QED BY <1>1, <1>2, <1>3 DEF Services

LEMMA OtherMarks ==
    ASSUME NEW i, IsIncident(i), NEW s \in Services,
           i.what \notin LogonWhats(s) \cup RefusalWhats(s)
    PROVE  Marks(i, Activity[s]) = {} /\ Marks(i, Failures[s]) = {} /\ Marks(i, {Acceptance[s]}) = {}
<1>1. CASE i.what \notin AuthWhats
  BY <1>1, NoMarks
<1>2. CASE i.what \in SshdWhats \cup DropbearWhats
  <2>1. s # "ssh" \/ i.what = "dropbear visit"
    BY <1>2 DEF LogonWhats, RefusalWhats, SshdWhats, DropbearWhats
  <2> QED BY <1>2, <2>1, SshdLogonMarks, SshdGuessMarks, SshdUnknownMarks, DropbearLogonMarks,
             DropbearGuessMarks, DropbearUnknownMarks, DropbearVisitMarks
          DEF SshdWhats, DropbearWhats
<1>3. CASE i.what \in WebWhats
  <2>1. s # "web"
    BY <1>3 DEF LogonWhats, RefusalWhats, WebWhats
  <2> QED BY <1>3, <2>1, LuciLogonMarks, LuciRefusalMarks, PanelLogonMarks, PanelRefusalMarks
          DEF WebWhats
<1>4. CASE i.what \in WindowsWhats
  <2>1. s # "windows"
    BY <1>4 DEF LogonWhats, RefusalWhats, WindowsWhats
  <2> QED BY <1>4, <2>1, WindowsLogonMarks, WindowsRefusalMarks DEF WindowsWhats
<1> QED BY <1>1, <1>2, <1>3, <1>4 DEF AuthWhats

LEMMA LegibleIsHeard ==
    ASSUME NEW hs, \A h \in hs : h.incident.what \in AuthWhats
    PROVE  Legible(hs) = {h \in hs : Heard(h.incident)}
BY DEF Legible, Heard, AuthWhats, SshdWhats, DropbearWhats, WindowsWhats, WebWhats

LEMMA ServiceWhats ==
    ASSUME NEW s \in Services
    PROVE  /\ LogonWhats(s) \subseteq AuthWhats /\ RefusalWhats(s) \subseteq AuthWhats
           /\ LogonWhats(s) \cap RefusalWhats(s) = {}
BY DEF Services, LogonWhats, RefusalWhats, AuthWhats, SshdWhats, DropbearWhats, WindowsWhats, WebWhats

LEMMA AttemptsAre ==
    ASSUME NEW s \in Services
    PROVE  /\ Logons(s) = {h \in Audible : h.incident.what \in LogonWhats(s)}
           /\ Refusals(s) = {h \in Audible : h.incident.what \in RefusalWhats(s)}
<1>1. Logons(s) = Legible(Those(LogonWhats(s)))
  BY Zenon DEF Logons, LogonWhats
<1>2. Refusals(s) = Legible(Those(RefusalWhats(s)))
  BY Zenon DEF Refusals, RefusalWhats
<1>3. Legible(Those(LogonWhats(s))) = {h \in Those(LogonWhats(s)) : Heard(h.incident)}
  BY ServiceWhats, LegibleIsHeard DEF Those
<1>4. Legible(Those(RefusalWhats(s))) = {h \in Those(RefusalWhats(s)) : Heard(h.incident)}
  BY ServiceWhats, LegibleIsHeard DEF Those
<1> QED BY <1>1, <1>2, <1>3, <1>4 DEF Those, Audible

LEMMA FibresWithin ==
    ASSUME NEW a, NEW b, NEW S, NEW R \in SUBSET S, \A x \in R : a[x] = b[x],
           \A x \in S \ R : a[x] = {}
    PROVE  Fibres(a, S) = Fibres(b, R)
BY DEF Fibres

\* The number of attempts is the number of tries.
TriesOf(R) == [h \in R |-> h.incident.tries]

TriesFold(f, R) ==
    f = [s \in SUBSET R |-> IF s = {} THEN 0
            ELSE (CHOOSE x \in s : TRUE).incident.tries + f[s \ {CHOOSE x \in s : TRUE}]]

LEMMA TriesAreUnits ==
    ASSUME NEW R, IsFiniteSet(R), \A h \in R : h.incident.tries \in Nat
    PROVE  /\ FoldSet(LAMBDA h, n : h.incident.tries + n, 0, R)
                = Cardinality(Fibres(Units(TriesOf(R), R), R))
           /\ Cardinality(Fibres(Units(TriesOf(R), R), R)) \in Nat
<1> DEFINE w == TriesOf(R)
           it == CHOOSE f : TriesFold(f, R)
<1>1. FoldSet(LAMBDA h, n : h.incident.tries + n, 0, R) = it[R]
  BY Zenon DEF FoldSet, MapThenFoldSet, TriesFold
<1>2. \A h \in R : w[h] = h.incident.tries /\ w[h] \in Nat
  BY DEF TriesOf
<1>3. ASSUME NEW f PROVE Folds_(f, w, R) <=> TriesFold(f, R)
  <2>1. ASSUME NEW s \in SUBSET R
        PROVE  (IF s = {} THEN 0 ELSE w[CHOOSE x \in s : TRUE] + f[s \ {CHOOSE x \in s : TRUE}]) =
               (IF s = {} THEN 0
                ELSE (CHOOSE x \in s : TRUE).incident.tries + f[s \ {CHOOSE x \in s : TRUE}])
    <3>1. s # {} => (CHOOSE x \in s : TRUE) \in R
      OBVIOUS
    <3> QED BY <1>2, <3>1
  <2> QED BY <2>1 DEF Folds_, TriesFold
<1>4. \E f : Folds_(f, w, R)
  BY <1>2, FoldExists
<1>5. TriesFold(it, R)
  BY <1>3, <1>4
<1>6. Folds_(it, w, R)
  BY <1>3, <1>5
<1> HIDE DEF w, it
<1>7. it[R] = Cardinality(Fibres(Units(w, R), R))
  BY <1>2, <1>6, FoldIsCount
<1>8. \A x \in R : IsFiniteSet(Units(w, R)[x])
  BY <1>2, FS_Interval DEF Units
<1>9. Cardinality(Fibres(Units(w, R), R)) \in Nat
  BY <1>8, FibresAreFinite
<1> QED BY <1>1, <1>7, <1>9 DEF w

LEMMA OnesCount ==
    ASSUME NEW L, IsFiniteSet(L)
    PROVE  Cardinality(Fibres([h \in L |-> {1}], L)) = Cardinality(L)
<1> DEFINE f == [h \in L |-> <<h, 1>>]
<1>1. Fibres([h \in L |-> {1}], L) = {f[h] : h \in L}
  BY DEF Fibres
<1>2. \A g, h \in L : f[g] = f[h] => g = h
  OBVIOUS
<1> HIDE DEF f
<1>3. Cardinality({f[h] : h \in L}) = Cardinality(L)
  BY <1>2, ToldApart
<1> QED BY <1>1, <1>3

LEMMA PartsAreKnown ==
    ASSUME Recorded, NEW s \in Services
    PROVE  /\ IsFiniteSet(Audible) /\ IsFiniteSet(Logons(s)) /\ IsFiniteSet(Refusals(s))
           /\ Logons(s) \subseteq Audible /\ Refusals(s) \subseteq Audible
           /\ Logons(s) \cap Refusals(s) = {}
           /\ \A h \in Audible : IsIncident(h.incident)
           /\ \A h \in Refusals(s) : h.incident.tries \in Nat
<1>1. IsFiniteSet(Audible)
  BY FS_Subset DEF Audible, Recorded
<1>2. /\ Logons(s) = {h \in Audible : h.incident.what \in LogonWhats(s)}
      /\ Refusals(s) = {h \in Audible : h.incident.what \in RefusalWhats(s)}
  BY AttemptsAre
<1>3. \A h \in Audible : IsIncident(h.incident)
  BY Known DEF Audible
<1>4. \A h \in Audible : h.incident.tries \in Nat
  BY <1>3, IncidentTyped
<1>5. Logons(s) \subseteq Audible /\ Refusals(s) \subseteq Audible
  BY <1>2
<1>6. Logons(s) \cap Refusals(s) = {}
  BY <1>2, ServiceWhats
<1>7. IsFiniteSet(Logons(s)) /\ IsFiniteSet(Refusals(s))
  BY <1>1, <1>5, FS_Subset
<1> QED BY <1>1, <1>3, <1>4, <1>5, <1>6, <1>7

\* The lines of a service's refusals, and of its logons.
RefusalLines(s) == Fibres([h \in Refusals(s) |-> Marks(h.incident, Activity[s])], Refusals(s))
LogonLines(s) == Fibres([h \in Logons(s) |-> Marks(h.incident, Activity[s])], Logons(s))

LEMMA RefusalsCount ==
    ASSUME Recorded, NEW s \in Services
    PROVE  /\ IsFiniteSet(RefusalLines(s)) /\ Cardinality(RefusalLines(s)) \in Nat
           /\ Attempts(s) \in Nat
           /\ Attempts(s) <= Cardinality(RefusalLines(s))
           /\ Cardinality(RefusalLines(s)) <= 2 * Attempts(s)
<1> DEFINE R == Refusals(s)
           m == [h \in R |-> Marks(h.incident, Activity[s])]
           u == Units(TriesOf(R), R)
<1>1. IsFiniteSet(R) /\ \A h \in R : h.incident.tries \in Nat /\ IsIncident(h.incident)
  BY PartsAreKnown
<1>2. Attempts(s) = FoldSet(LAMBDA h, n : h.incident.tries + n, 0, R)
  BY DEF Attempts
<1>3. ASSUME NEW h \in R PROVE Counts(m[h], h.incident.tries)
  <2>1. h.incident.what \in RefusalWhats(s)
    BY AttemptsAre
  <2> QED BY <1>1, <2>1, RefusalMarks
<1>4. ASSUME NEW h \in R
      PROVE  IsFiniteSet(u[h]) /\ Cardinality(u[h]) = h.incident.tries /\ h.incident.tries \in Nat
  <2> DEFINE t == h.incident.tries
  <2>1. u[h] = 1..t
    BY DEF Units, TriesOf
  <2>2. t \in Nat
    BY <1>1
  <2> HIDE DEF u, t
  <2>3. IsFiniteSet(1..t) /\ Cardinality(1..t) = t
    BY ONLY <2>2, FS_Interval
  <2>4. IsFiniteSet(u[h]) /\ Cardinality(u[h]) = t /\ t \in Nat
    BY ONLY <2>1, <2>2, <2>3
  <2> QED BY <2>4 DEF t
<1> HIDE DEF R, m, u
<1>5. Attempts(s) = Cardinality(Fibres(u, R)) /\ Cardinality(Fibres(u, R)) \in Nat
  BY <1>1, <1>2, TriesAreUnits DEF u
<1>6. ASSUME NEW h \in R
      PROVE  /\ IsFiniteSet(m[h]) /\ IsFiniteSet(u[h])
             /\ Cardinality(u[h]) <= 1 * Cardinality(m[h])
             /\ Cardinality(m[h]) <= 2 * Cardinality(u[h])
  <2> DEFINE t == h.incident.tries
  <2>1. IsFiniteSet(m[h]) /\ t <= Cardinality(m[h]) /\ Cardinality(m[h]) <= 2 * t
    BY <1>3 DEF Counts
  <2>2. IsFiniteSet(u[h]) /\ Cardinality(u[h]) = t
    BY <1>4
  <2> HIDE DEF t
  <2>3. Cardinality(m[h]) \in Nat
    BY <2>1, FS_CardinalityType
  <2> QED BY ONLY <2>1, <2>2, <2>3
<1>7. IsFiniteSet(Fibres(m, R)) /\ Cardinality(Fibres(m, R)) \in Nat
  BY <1>1, <1>6, FibresAreFinite
<1>8. Cardinality(Fibres(u, R)) <= 1 * Cardinality(Fibres(m, R))
  BY <1>1, <1>6, FibresCompare
<1>9. Cardinality(Fibres(m, R)) <= 2 * Cardinality(Fibres(u, R))
  BY <1>1, <1>6, FibresCompare
<1>10. RefusalLines(s) = Fibres(m, R)
  BY DEF RefusalLines, m, R
<1> QED BY ONLY <1>5, <1>7, <1>8, <1>9, <1>10

LEMMA LogonsCount ==
    ASSUME Recorded, NEW s \in Services
    PROVE  LET n == Cardinality(Logons(s))
           IN  /\ IsFiniteSet(LogonLines(s)) /\ Cardinality(LogonLines(s)) \in Nat
               /\ n \in Nat /\ n <= Cardinality(LogonLines(s))
               /\ Cardinality(LogonLines(s)) <= IF s = "windows" THEN 2 * n ELSE n
<1> DEFINE L == Logons(s)
           m == [h \in L |-> Marks(h.incident, Activity[s])]
           one == [h \in L |-> {1}]
           c == IF s = "windows" THEN 2 ELSE 1
<1>1. IsFiniteSet(L) /\ \A h \in L : IsIncident(h.incident)
  BY PartsAreKnown
<1>2. ASSUME NEW h \in L
      PROVE  /\ IsFiniteSet(m[h]) /\ Cardinality(m[h]) \in {1, c}
             /\ IsFiniteSet(one[h]) /\ Cardinality(one[h]) = 1
  <2>1. h.incident.what \in LogonWhats(s)
    BY AttemptsAre
  <2>2. m[h] = Marks(h.incident, Activity[s]) /\ one[h] = {1}
    OBVIOUS
  <2> DEFINE M == Marks(h.incident, Activity[s])
  <2>3. ASSUME s = "windows" PROVE m[h] = {1, 2}
    <3>1. M = {1, 2}
      BY <1>1, <2>1, <2>3, LogonMarks
    <3> QED BY <2>2, <3>1
  <2>4. ASSUME s # "windows" PROVE m[h] = {1} \/ m[h] = {2}
    <3> DEFINE N == Marks(h.incident, {Acceptance[s]})
    <3>1. M = N /\ (N = {1} \/ N = {2})
      <4>1. M = N
        BY <1>1, <2>1, <2>4, LogonMarks
      <4>2. N = {1} \/ N = {2}
        BY <1>1, <2>1, LogonMarks
      <4> QED BY <4>1, <4>2
    <3> HIDE DEF M, N
    <3> QED BY <2>2, <3>1 DEF M
  <2>5. IF s = "windows" THEN m[h] = {1, 2} ELSE m[h] = {1} \/ m[h] = {2}
    BY <2>3, <2>4
  <2> HIDE DEF m, one
  <2> QED BY <2>2, <2>5, SmallSets
<1>3. c \in Nat
  OBVIOUS
<1>4. Cardinality(Fibres(one, L)) = Cardinality(L)
  BY <1>1, OnesCount
<1>5. Cardinality(L) \in Nat
  BY <1>1, FS_CardinalityType
<1>6. LogonLines(s) = Fibres(m, L)
  BY DEF LogonLines
<1>7. c = 1 \/ c = 2
  OBVIOUS
<1> HIDE DEF L, m, one
<1>8. IsFiniteSet(Fibres(m, L)) /\ Cardinality(Fibres(m, L)) \in Nat
  BY <1>1, <1>2, FibresAreFinite
<1> HIDE DEF c
<1>9. \A h \in L : /\ Cardinality(one[h]) <= 1 * Cardinality(m[h])
                   /\ Cardinality(m[h]) <= c * Cardinality(one[h])
  BY <1>2, <1>7
<1>10. Cardinality(Fibres(one, L)) <= 1 * Cardinality(Fibres(m, L))
  BY <1>1, <1>2, <1>9, FibresCompare
<1>11. Cardinality(Fibres(m, L)) <= c * Cardinality(Fibres(one, L))
  BY <1>1, <1>2, <1>3, <1>9, FibresCompare
<1>12. Cardinality(L) <= Cardinality(Fibres(m, L)) /\ Cardinality(Fibres(m, L)) <= c * Cardinality(L)
  BY ONLY <1>4, <1>5, <1>8, <1>10, <1>11
<1>13. c * Cardinality(L) = IF s = "windows" THEN 2 * Cardinality(L) ELSE Cardinality(L)
  BY ONLY <1>5 DEF c
<1> QED BY ONLY <1>5, <1>6, <1>8, <1>12, <1>13 DEF L

LEMMA FailuresAre ==
    ASSUME Recorded, NEW s \in Services
    PROVE  Cardinality(WithAction(Events(Log), "auth", Failures[s])) = Cardinality(RefusalLines(s))
<1> DEFINE R == Refusals(s)
           m == [h \in R |-> Marks(h.incident, Activity[s])]
           f == MarksOf(Failures[s])
<1>1. Telltales(Failures[s])
  BY AllTelltale
<1>2. \A h \in R : h \in Audible /\ IsIncident(h.incident) /\ h.incident.what \in RefusalWhats(s)
  BY AttemptsAre, PartsAreKnown
<1>3. ASSUME NEW h \in Audible \ R PROVE f[h] = {}
  <2>1. IsIncident(h.incident) /\ h.incident.what \notin RefusalWhats(s)
    BY AttemptsAre, PartsAreKnown
  <2>2. Marks(h.incident, Failures[s]) = {}
    BY <2>1, LogonMarks, OtherMarks
  <2> QED BY <2>2 DEF MarksOf
<1>4. ASSUME NEW h \in R PROVE f[h] = m[h]
  <2>1. Marks(h.incident, Failures[s]) = Marks(h.incident, Activity[s])
    BY <1>2, RefusalMarks
  <2> QED BY <1>2, <2>1 DEF MarksOf
<1>5. R \in SUBSET Audible
  BY <1>2
<1> HIDE DEF R, m, f
<1>6. Fibres(f, Audible) = Fibres(m, R)
  BY <1>3, <1>4, <1>5, FibresWithin
<1>7. Cardinality(WithAction(Events(Log), "auth", Failures[s])) = Cardinality(Fibres(f, Audible))
  BY <1>1, AttestedCount DEF f
<1> QED BY <1>6, <1>7 DEF RefusalLines, m, R

LEMMA ActivityIs ==
    ASSUME Recorded, NEW s \in Services
    PROVE  Cardinality(WithAction(Events(Log), "auth", Activity[s]))
                = Cardinality(RefusalLines(s)) + Cardinality(LogonLines(s))
<1> DEFINE R == Refusals(s)
           L == Logons(s)
           m == MarksOf(Activity[s])
<1>1. Telltales(Activity[s])
  BY AllTelltale
<1>2. R \subseteq Audible /\ L \subseteq Audible /\ L \cap R = {}
  BY PartsAreKnown
<1>3. ASSUME NEW h \in Audible \ (R \cup L) PROVE Marks(h.incident, Activity[s]) = {}
  <2>1. /\ IsIncident(h.incident)
        /\ h.incident.what \notin LogonWhats(s) \cup RefusalWhats(s)
    BY AttemptsAre, PartsAreKnown
  <2> QED BY <2>1, OtherMarks
<1> HIDE DEF R, L
<1>4. \A p : p \in Fibres(m, Audible) <=>
          \E h \in Audible : \E k \in Marks(h.incident, Activity[s]) : p = <<h, k>>
  BY DEF Fibres, MarksOf
<1>5. \A p : p \in RefusalLines(s) <=>
          \E h \in R : \E k \in Marks(h.incident, Activity[s]) : p = <<h, k>>
  BY DEF Fibres, RefusalLines, R
<1>6. \A p : p \in LogonLines(s) <=>
          \E h \in L : \E k \in Marks(h.incident, Activity[s]) : p = <<h, k>>
  BY DEF Fibres, LogonLines, L
<1> HIDE DEF m
<1>7. Fibres(m, Audible) = RefusalLines(s) \cup LogonLines(s)
  <2>1. ASSUME NEW p \in Fibres(m, Audible) PROVE p \in RefusalLines(s) \cup LogonLines(s)
    <3>1. PICK h \in Audible : \E k \in Marks(h.incident, Activity[s]) : p = <<h, k>>
      BY <1>4
    <3>2. h \in R \/ h \in L
      BY <1>3, <3>1
    <3> QED BY <1>5, <1>6, <3>1, <3>2
  <2>2. ASSUME NEW p \in RefusalLines(s) \cup LogonLines(s) PROVE p \in Fibres(m, Audible)
    BY <1>2, <1>4, <1>5, <1>6
  <2> QED BY <2>1, <2>2
<1>8. RefusalLines(s) \cap LogonLines(s) = {}
  BY <1>2, <1>5, <1>6
<1>9. IsFiniteSet(RefusalLines(s)) /\ IsFiniteSet(LogonLines(s))
  BY RefusalsCount, LogonsCount
<1>10. Cardinality(WithAction(Events(Log), "auth", Activity[s])) = Cardinality(Fibres(m, Audible))
  BY <1>1, AttestedCount DEF m
<1> QED BY ONLY <1>7, <1>8, <1>9, <1>10, DisjointAdds

\* What the analyzer makes of the events of a service.
LEMMA ServiceIsCounted ==
    ASSUME Recorded, NEW s \in Services, BurstMin[s] \in Nat
    PROVE  LET n == Cardinality(Logons(s))
               a == Attempts(s)
               burst == FailureBurst(Events(Log), s)
               activity == ActivityOf(Events(Log), s)
           IN  /\ a >= BurstMin[s] => burst >= a
               /\ burst <= 2 * a
               /\ activity >= n + a
               /\ activity <= (IF s = "windows" THEN 2 * n ELSE n) + 2 * a
<1> DEFINE n == Cardinality(Logons(s))
           a == Attempts(s)
           r == Cardinality(RefusalLines(s))
           l == Cardinality(LogonLines(s))
           b == BurstMin[s]
<1>1. r \in Nat /\ a \in Nat /\ a <= r /\ r <= 2 * a
  BY RefusalsCount
<1>2. l \in Nat /\ n \in Nat /\ n <= l /\ l <= IF s = "windows" THEN 2 * n ELSE n
  BY LogonsCount
<1>3. FailureBurst(Events(Log), s) = IF r < b THEN 0 ELSE r
  BY FailuresAre DEF FailureBurst
<1>4. ActivityOf(Events(Log), s) = r + l
  BY ActivityIs DEF ActivityOf
<1>5. b \in Nat
  OBVIOUS
<1> HIDE DEF n, a, r, l, b
<1>6. CASE s = "windows"
  <2>1. l <= 2 * n
    BY <1>2, <1>6
  <2>2. /\ a >= b => (IF r < b THEN 0 ELSE r) >= a
        /\ (IF r < b THEN 0 ELSE r) <= 2 * a
        /\ r + l >= n + a
        /\ r + l <= 2 * n + 2 * a
    BY ONLY <1>1, <1>2, <1>5, <2>1
  <2> QED BY <1>3, <1>4, <1>6, <2>2 DEF n, a, b
<1>7. CASE s # "windows"
  <2>1. l <= n
    BY <1>2, <1>7
  <2>2. /\ a >= b => (IF r < b THEN 0 ELSE r) >= a
        /\ (IF r < b THEN 0 ELSE r) <= 2 * a
        /\ r + l >= n + a
        /\ r + l <= n + 2 * a
    BY ONLY <1>1, <1>2, <1>5, <2>1
  <2> QED BY <1>3, <1>4, <1>7, <2>2 DEF n, a, b
<1> QED BY <1>6, <1>7

\* A report is made once, of what has happened when it is made.
LEMMA ReportStep ==
    ASSUME [Next]_vars, report'.made
    PROVE  \/ report.made /\ report' = report /\ happened' = happened
           \/ ~ report.made /\ Analyse
BY DEF Next, Happen, Tick, Analyse, Reported, vars

LEMMA NothingYet == Init => ~ report.made
BY DEF Init, None

LEMMA WhatHappenedStays ==
    ASSUME happened' = happened, NEW s \in Services
    PROVE  Logons(s)' = Logons(s) /\ Refusals(s)' = Refusals(s) /\ Attempts(s)' = Attempts(s)
<1>1. Logons(s)' = Logons(s) /\ Refusals(s)' = Refusals(s)
  BY DEF Logons, Refusals, Legible, Those
<1>2. Attempts(s)' = Attempts(s)
  BY Zenon, <1>1 DEF Attempts, FoldSet, MapThenFoldSet
<1> QED BY <1>1, <1>2

\* What a report says of a service, for its logons and its counts.
LEMMA ReportSays ==
    ASSUME Analyse, NEW s \in Services
    PROVE  /\ report'.activity[s] = ActivityOf(Events(Log), s)
           /\ report'.burst[s] = FailureBurst(Events(Log), s)
           /\ report'.external[s] \in ExternalLogons(Events(Log), s)
<1> DEFINE said == [ssh |-> Said(Events(Log), "ssh"), web |-> Said(Events(Log), "web"),
                    windows |-> Said(Events(Log), "windows")]
<1>1. said[s] = Said(Events(Log), s)
  BY DEF Services
<1>2. /\ report'.activity = [z \in Services |-> said[z].activity]
      /\ report'.burst = [z \in Services |-> said[z].burst]
  BY DEF Analyse, _ssh_logons, _router_admin_logons, _windows_logons
<1>3. \E ssh \in said.ssh.external, web \in said.web.external, windows \in said.windows.external :
        report'.external = [ssh |-> ssh, web |-> web, windows |-> windows]
  BY DEF Analyse, _ssh_logons, _router_admin_logons, _windows_logons
<1> HIDE DEF said
<1>4. report'.external[s] \in said[s].external
  BY <1>3 DEF Services
<1> QED BY <1>1, <1>2, <1>4 DEF Said

\* What a service's counts have to be, by its logons and attempts.
Counted(s, n, a, activity, burst) ==
    /\ a >= BurstMin[s] => burst >= a
    /\ burst <= 2 * a
    /\ activity >= n + a
    /\ activity <= (IF s = "windows" THEN 2 * n ELSE n) + 2 * a

LEMMA AttemptsStep == Recorded /\ AttemptsAreCounted /\ [Next]_vars => AttemptsAreCounted'
<1> SUFFICES ASSUME Recorded, AttemptsAreCounted, [Next]_vars, report'.made, NEW s \in Services
             PROVE  Counted(s, Cardinality(Logons(s)'), Attempts(s)', report'.activity[s], report'.burst[s])
  BY DEF AttemptsAreCounted, Counted
<1> DEFINE n == Cardinality(Logons(s))
           a == Attempts(s)
<1>1. CASE report.made /\ report' = report /\ happened' = happened
  <2>1. Counted(s, n, a, report.activity[s], report.burst[s])
    BY <1>1 DEF AttemptsAreCounted, Counted
  <2>2. Logons(s)' = Logons(s) /\ Attempts(s)' = Attempts(s)
    BY <1>1, WhatHappenedStays
  <2> QED BY <1>1, <2>1, <2>2
<1>2. CASE Analyse
  <2> DEFINE activity == report'.activity[s]
             burst == report'.burst[s]
  <2>1. activity = ActivityOf(Events(Log), s) /\ burst = FailureBurst(Events(Log), s)
    BY <1>2, ReportSays
  <2>2. BurstMin[s] \in Nat
    BY LimitsAssumption
  <2>3. Counted(s, n, a, ActivityOf(Events(Log), s), FailureBurst(Events(Log), s))
    BY <2>2, ServiceIsCounted DEF Counted
  <2>4. Logons(s)' = Logons(s) /\ Attempts(s)' = Attempts(s)
    BY <1>2, WhatHappenedStays DEF Analyse
  <2> QED BY <2>1, <2>3, <2>4
<1> QED BY <1>1, <1>2, ReportStep

\* A burst of refused attempts is never missed, and no attempt is counted more than twice.
THEOREM AttemptsCounted == Spec => []AttemptsAreCounted
<1>1. Init => AttemptsAreCounted
  BY NothingYet DEF AttemptsAreCounted
<1> QED BY <1>1, RecordedInvariant, AttemptsStep, PTL DEF Spec

-----------------------------------------------------------------------------
(* What a limit cuts off *)

LEMMA LimitIs ==
    ASSUME NEW S, IsFiniteSet(S), NEW n \in Nat
    PROVE  AtMost(n, S) = (IF Cardinality(S) < n THEN Cardinality(S) ELSE n) /\ AtMost(n, S) \in Nat
BY FS_CardinalityType DEF AtMost

\* Of a set ranked by f, of which the highest are kept up to a number, none is
\* missed that has no more than this number as high as it.
LEMMA CutHolds ==
    ASSUME NEW S, IsFiniteSet(S), NEW n \in Nat, NEW f, NEW T \in kSubset(AtMost(n, S), S),
           \A v \in T, w \in S \ T : f[v] >= f[w],
           NEW x \in S, Cardinality({o \in S : f[o] >= f[x]}) <= n, f[x] \in Nat
    PROVE  x \in T
<1> SUFFICES ASSUME x \notin T PROVE FALSE
  OBVIOUS
<1> DEFINE c == Cardinality(S)
           t == Cardinality(T)
           G == T \cup {x}
           O == {o \in S : f[o] >= f[x]}
<1>1. T \subseteq S /\ t = AtMost(n, S) /\ T # S
  BY DEF kSubset
<1>2. IsFiniteSet(T) /\ t \in Nat /\ c \in Nat /\ t <= c /\ (c = t => S = T)
  BY <1>1, FS_Subset, FS_CardinalityType
<1>3. t = IF c < n THEN c ELSE n
  BY <1>1, LimitIs
<1>4. t = n
  <2> HIDE DEF t, c
  <2> QED BY ONLY <1>1, <1>2, <1>3
<1>5. Cardinality(G) = t + 1
  BY <1>2, FS_AddElement
<1>6. G \subseteq O
  BY <1>1
<1>7. O \subseteq S
  OBVIOUS
<1>8. Cardinality(O) <= n
  OBVIOUS
<1> HIDE DEF O, G, t
<1>9. IsFiniteSet(O)
  BY <1>7, FS_Subset
<1>10. Cardinality(G) <= Cardinality(O) /\ Cardinality(O) \in Nat
  BY <1>6, <1>9, FS_Subset, FS_CardinalityType
<1> QED BY ONLY <1>2, <1>4, <1>5, <1>8, <1>10

-----------------------------------------------------------------------------
(* Logons from outside *)

\* The event of a logon.
Told(e, h) ==
    e.ip = h.incident.ip /\ e.detail = h.incident.detail /\ e.user = Named(h) /\ e.ts = h.ts

Acceptances(s) == WithAction(Events(Log), "auth", {Acceptance[s]})

LEMMA OthersAreNone ==
    ASSUME NEW i, IsIncident(i), NEW s \in Services, i.what \notin LogonWhats(s)
    PROVE  Marks(i, {Acceptance[s]}) = {}
<1>1. CASE i.what \notin RefusalWhats(s)
  BY <1>1, OtherMarks
<1>2. CASE i.what \in RefusalWhats(s)
  <2>1. CASE s = "ssh"
    <3>1. i.what \in {"sshd guess", "sshd guess, unknown user", "dropbear guess",
                      "dropbear guess, unknown user"}
      BY <1>2, <2>1 DEF RefusalWhats
    <3> QED BY <2>1, <3>1, SshdGuessMarks, SshdUnknownMarks, DropbearUnknownMarks, DropbearGuessMarks
  <2>2. CASE s = "web"
    <3>1. i.what \in {"luci refusal", "panel refusal"}
      BY <1>2, <2>2 DEF RefusalWhats
    <3> QED BY <2>2, <3>1, LuciRefusalMarks, PanelRefusalMarks
  <2>3. CASE s = "windows"
    <3>1. i.what = "windows refusal"
      BY <1>2, <2>3 DEF RefusalWhats
    <3> QED BY <2>3, <3>1, WindowsRefusalMarks
  <2> QED BY <2>1, <2>2, <2>3 DEF Services
<1> QED BY <1>1, <1>2

LEMMA AcceptancesTell ==
    ASSUME NEW s \in Services, NEW e, NEW h, NEW k \in Marks(h.incident, {Acceptance[s]}),
           Attests(e, h, k)
    PROVE  Told(e, h)
<1>1. Tells(h.incident)[k] = Acceptance[s]
  BY DEF Marks
<1>2. Acceptance[s] \in Accepting
  BY DEF Acceptance, Accepting, Services
<1> QED BY <1>1, <1>2 DEF Attests, TellsOf, Told

LEMMA AcceptedAre ==
    ASSUME Recorded, NEW s \in Services
    PROVE  \A e \in Acceptances(s) : \E h \in Logons(s) : Told(e, h)
<1> TAKE e \in Acceptances(s)
<1>1. Telltales({Acceptance[s]})
  BY AllTelltale
<1>2. PICK h \in Audible : \E k \in Marks(h.incident, {Acceptance[s]}) : Attests(e, h, k)
  BY <1>1, AttestedBy DEF Acceptances
<1>3. h.incident.what \in LogonWhats(s)
  BY <1>2, OthersAreNone, PartsAreKnown
<1>4. h \in Logons(s)
  BY <1>3, AttemptsAre
<1> QED BY <1>2, <1>4, AcceptancesTell

\* There is one event for each logon.
LEMMA LogonsAreTold ==
    ASSUME Recorded, NEW s \in Services
    PROVE  /\ IsFiniteSet(Acceptances(s))
           /\ \E b \in [Acceptances(s) -> Logons(s)] :
                /\ \A e \in Acceptances(s) : Told(e, b[e])
                /\ \A e, f \in Acceptances(s) : b[e] = b[f] => e = f
                /\ \A h \in Logons(s) : \E e \in Acceptances(s) : b[e] = h
<1> DEFINE A == Acceptances(s)
           acts == {Acceptance[s]}
           b == [e \in A |-> e.id[1]]
<1>1. Telltales(acts)
  BY AllTelltale
<1>2. ASSUME NEW e \in A
      PROVE  \E h \in Logons(s) : \E k \in Marks(h.incident, acts) : Attests(e, h, k)
  <2>1. PICK h \in Audible : \E k \in Marks(h.incident, acts) : Attests(e, h, k)
    BY <1>1, AttestedBy DEF Acceptances
  <2>2. h.incident.what \in LogonWhats(s)
    BY <2>1, OthersAreNone, PartsAreKnown
  <2>3. h \in Logons(s)
    BY <2>2, AttemptsAre
  <2> QED BY <2>1, <2>3
<1>3. ASSUME NEW h \in Logons(s)
      PROVE  \E k : Marks(h.incident, acts) = {k}
  <2>1. IsIncident(h.incident) /\ h.incident.what \in LogonWhats(s)
    BY AttemptsAre, PartsAreKnown
  <2> QED BY <2>1, LogonMarks
<1>4. ASSUME NEW h \in Logons(s)
      PROVE  \E e \in A : \E k \in Marks(h.incident, acts) : Attests(e, h, k)
  <2>1. h \in Audible
    BY PartsAreKnown
  <2>2. PICK k : k \in Marks(h.incident, acts)
    BY <1>3
  <2> QED BY <1>1, <2>1, <2>2, AttestedAre DEF Acceptances
<1>5. IsFiniteSet(A) /\ \A e, f \in A : e.id = f.id => e = f
  BY <1>1, AttestedCount DEF Acceptances
<1> HIDE DEF A, acts
<1>6. ASSUME NEW e \in A, NEW h, NEW k, Attests(e, h, k)
      PROVE  b[e] = h /\ e.id = <<h, k>>
  <2>1. e.id = <<h, k>>
    BY <1>6 DEF Attests
  <2> QED BY <2>1
<1>7. \A e \in A : b[e] \in Logons(s)
  <2> TAKE e \in A
  <2>1. PICK h \in Logons(s) : \E k \in Marks(h.incident, acts) : Attests(e, h, k)
    BY <1>2
  <2> QED BY <1>6, <2>1
<1>8. \A e \in A : Told(e, b[e])
  <2> TAKE e \in A
  <2>1. PICK h \in Logons(s) : \E k \in Marks(h.incident, acts) : Attests(e, h, k)
    BY <1>2
  <2>2. Told(e, h)
    BY <2>1, AcceptancesTell DEF acts
  <2> QED BY <1>6, <2>1, <2>2
<1>9. ASSUME NEW e \in A, NEW f \in A, b[e] = b[f] PROVE e = f
  <2>1. PICK g \in Logons(s) : \E k \in Marks(g.incident, acts) : Attests(e, g, k)
    BY <1>2
  <2>2. PICK h \in Logons(s) : \E k \in Marks(h.incident, acts) : Attests(f, h, k)
    BY <1>2
  <2>3. g = h
    BY <1>6, <1>9, <2>1, <2>2
  <2>4. PICK k : Marks(h.incident, acts) = {k}
    BY <1>3
  <2>5. e.id = <<h, k>> /\ f.id = <<h, k>>
    BY <1>6, <2>1, <2>2, <2>3, <2>4
  <2> QED BY <1>5, <2>5
<1>10. \A h \in Logons(s) : \E e \in A : b[e] = h
  BY <1>4, <1>6
<1>11. b \in [A -> Logons(s)]
  BY <1>7
<1> HIDE DEF b
<1> QED BY <1>5, <1>8, <1>9, <1>10, <1>11 DEF A

\* A logon is among the newest unless too many are as new.
LEMMA NewLogonsAreSeen ==
    ASSUME Recorded, NEW s \in Services, SampleLimit[s] \in Nat,
           NEW T \in Newest(Acceptances(s), SampleLimit[s]), NEW h \in Logons(s),
           Cardinality({o \in Logons(s) : o.ts >= h.ts}) <= SampleLimit[s]
    PROVE  \E e \in T : Told(e, h)
<1> DEFINE A == Acceptances(s)
           n == SampleLimit[s]
           f == [e \in A |-> e.ts]
           O == {o \in Logons(s) : o.ts >= h.ts}
<1>1. IsFiniteSet(A)
  BY LogonsAreTold
<1>2. PICK b \in [A -> Logons(s)] :
         /\ \A e \in A : Told(e, b[e])
         /\ \A e, g \in A : b[e] = b[g] => e = g
         /\ \A g \in Logons(s) : \E e \in A : b[e] = g
  BY LogonsAreTold
<1>3. PICK x \in A : b[x] = h
  BY <1>2
<1>4. \A e \in A : f[e] = b[e].ts
  BY <1>2 DEF Told
<1>5. f[x] = h.ts /\ f[x] \in Nat
  <2>1. h \in happened
    BY PartsAreKnown DEF Audible
  <2>2. h.ts \in Nat
    BY <2>1, Known DEF Timed
  <2> QED BY <1>3, <1>4, <2>2
<1>6. T \in kSubset(AtMost(n, A), A) /\ \A v \in T, w \in A \ T : f[v] >= f[w]
  <2>1. T \in kSubset(AtMost(n, A), A) /\ \A v \in T, w \in A \ T : v.ts >= w.ts
    BY DEF Newest
  <2>2. T \subseteq A
    BY <2>1 DEF kSubset
  <2> QED BY <2>1, <2>2
<1>7. n \in Nat /\ Cardinality(O) <= n
  OBVIOUS
<1> HIDE DEF A, n, f
<1>8. Cardinality({e \in A : f[e] >= f[x]}) <= n
  <2> DEFINE E == {e \in A : f[e] >= f[x]}
             g == [e \in E |-> b[e]]
  <2>1. g \in Injection(E, O)
    BY <1>2, <1>4, <1>5 DEF Injection, IsInjective
  <2>2. IsFiniteSet(O)
    BY PartsAreKnown, FS_Subset
  <2> HIDE DEF E, g, O
  <2>3. IsFiniteSet(E) /\ Cardinality(E) <= Cardinality(O)
    BY <2>1, <2>2, FS_Injection
  <2>4. Cardinality(E) \in Nat /\ Cardinality(O) \in Nat
    BY <2>2, <2>3, FS_CardinalityType
  <2>5. Cardinality(E) <= n
    BY ONLY <1>7, <2>3, <2>4
  <2> QED BY <2>5 DEF E
<1>9. x \in T
  BY <1>1, <1>5, <1>6, <1>7, <1>8, CutHolds
<1> QED BY <1>2, <1>3, <1>9

\* What a report that tells of logons from outside is held against.
Faithful(s, told) ==
    /\ \A t \in told : \E h \in FromOutside(s) : h.incident.ip = t.ip /\ Named(h) = t.user
    /\ \A h \in FromOutside(s) :
        Cardinality({o \in Logons(s) : o.ts >= h.ts}) <= SampleLimit[s]
            => \E t \in told : t.ip = h.incident.ip

LEMMA FromOutsideIs ==
    ASSUME NEW s \in Services, NEW e, NEW h \in Logons(s), Told(e, h)
    PROVE  IsForeign(e, s) <=> h \in FromOutside(s)
BY DEF FromOutside, IsForeign, RemoteTypes, Told

\* The signals that a sample of logons may give.
LEMMA SignalsAre ==
    ASSUME NEW s, NEW told \in ExternalLogons(Events(Log), s)
    PROVE  \E T \in Newest(Acceptances(s), SampleLimit[s]) :
             /\ \A t \in told : \E row \in T : IsForeign(row, s) /\ row.ip = t.ip /\ row.user = t.user
             /\ \A row \in T : IsForeign(row, s) => \E t \in told : t.ip = row.ip
<1> DEFINE foreign(T) == {row \in T : IsForeign(row, s)}
           newest(T, ip) == {row.user : row \in {r \in foreign(T) :
                   r.ip = ip /\ \A o \in foreign(T) : o.ip = ip => o.ts <= r.ts}}
           ips(T) == {row.ip : row \in foreign(T)}
           names(T) == {f \in [ips(T) -> {row.user : row \in foreign(T)}] :
                                \A ip \in ips(T) : f[ip] \in newest(T, ip)}
           raised(T, named) == {[ip |-> ip, user |-> named[ip]] : ip \in ips(T)}
<1>1. PICK T \in Newest(Acceptances(s), SampleLimit[s]) :
         \E named \in names(T) : told = raised(T, named)
  <2>1. ExternalLogons(Events(Log), s) =
            UNION {{raised(T, named) : named \in names(T)} :
                        T \in Newest(Acceptances(s), SampleLimit[s])}
    BY Zenon DEF ExternalLogons, Acceptances
  <2> HIDE DEF names, raised
  <2> QED BY <2>1
<1>2. PICK named \in names(T) : told = raised(T, named)
  BY <1>1
<1>3. \A ip \in ips(T) : named[ip] \in newest(T, ip)
  BY <1>2
<1>4. ASSUME NEW t \in told
      PROVE  \E row \in T : IsForeign(row, s) /\ row.ip = t.ip /\ row.user = t.user
  <2>1. PICK ip \in ips(T) : t = [ip |-> ip, user |-> named[ip]]
    BY <1>2, <1>4
  <2>2. t.ip = ip /\ t.user = named[ip]
    BY <2>1
  <2>3. PICK r \in foreign(T) : r.ip = ip /\ r.user = named[ip]
    BY <1>3, <2>1
  <2> QED BY <2>2, <2>3
<1>5. ASSUME NEW row \in T, IsForeign(row, s)
      PROVE  \E t \in told : t.ip = row.ip
  <2>1. row.ip \in ips(T)
    BY <1>5
  <2>2. [ip |-> row.ip, user |-> named[row.ip]] \in told
    BY <1>2, <2>1
  <2> QED BY <2>2
<1> QED BY <1>4, <1>5

LEMMA LogonsAreFaithful ==
    ASSUME Recorded, NEW s \in Services, SampleLimit[s] \in Nat,
           NEW told \in ExternalLogons(Events(Log), s)
    PROVE  Faithful(s, told)
<1>1. PICK T \in Newest(Acceptances(s), SampleLimit[s]) :
         /\ \A t \in told : \E row \in T : IsForeign(row, s) /\ row.ip = t.ip /\ row.user = t.user
         /\ \A row \in T : IsForeign(row, s) => \E t \in told : t.ip = row.ip
  BY SignalsAre
<1>2. T \subseteq Acceptances(s)
  BY DEF Newest, kSubset
<1>3. ASSUME NEW t \in told
      PROVE  \E h \in FromOutside(s) : h.incident.ip = t.ip /\ Named(h) = t.user
  <2>1. PICK row \in T : IsForeign(row, s) /\ row.ip = t.ip /\ row.user = t.user
    BY <1>1
  <2>2. PICK h \in Logons(s) : Told(row, h)
    BY <1>2, AcceptedAre
  <2>3. h \in FromOutside(s)
    BY <2>1, <2>2, FromOutsideIs
  <2> QED BY <2>1, <2>2, <2>3 DEF Told
<1>4. ASSUME NEW h \in FromOutside(s),
             Cardinality({o \in Logons(s) : o.ts >= h.ts}) <= SampleLimit[s]
      PROVE  \E t \in told : t.ip = h.incident.ip
  <2>1. h \in Logons(s)
    BY DEF FromOutside
  <2>2. PICK row \in T : Told(row, h)
    BY <1>4, <2>1, NewLogonsAreSeen
  <2>3. IsForeign(row, s)
    BY <2>1, <2>2, FromOutsideIs
  <2>4. row.ip = h.incident.ip
    BY <2>2 DEF Told
  <2> QED BY <1>1, <2>3, <2>4
<1> QED BY <1>3, <1>4 DEF Faithful

LEMMA FaithfulStays ==
    ASSUME happened' = happened, NEW s \in Services, NEW told, Faithful(s, told)
    PROVE  /\ \A t \in told : \E h \in FromOutside(s)' : h.incident.ip = t.ip /\ Named(h) = t.user
           /\ \A h \in FromOutside(s)' :
                Cardinality({o \in Logons(s)' : o.ts >= h.ts}) <= SampleLimit[s]
                    => \E t \in told : t.ip = h.incident.ip
<1>1. Logons(s)' = Logons(s)
  BY WhatHappenedStays
<1>2. FromOutside(s)' = FromOutside(s)
  BY <1>1 DEF FromOutside
<1> QED BY <1>1, <1>2 DEF Faithful

LEMMA LogonsStep == Recorded /\ ExternalLogonsAreReported /\ [Next]_vars => ExternalLogonsAreReported'
<1> SUFFICES ASSUME Recorded, ExternalLogonsAreReported, [Next]_vars, report'.made, NEW s \in Services
             PROVE  /\ \A t \in report'.external[s] :
                         \E h \in FromOutside(s)' : h.incident.ip = t.ip /\ Named(h) = t.user
                    /\ \A h \in FromOutside(s)' :
                         Cardinality({o \in Logons(s)' : o.ts >= h.ts}) <= SampleLimit[s]
                             => \E t \in report'.external[s] : t.ip = h.incident.ip
  BY DEF ExternalLogonsAreReported, Named
<1> DEFINE told == report'.external[s]
<1>1. Faithful(s, told) /\ happened' = happened
  <2>1. CASE report.made /\ report' = report /\ happened' = happened
    BY <2>1 DEF ExternalLogonsAreReported, Faithful
  <2>2. CASE Analyse
    <3>1. told \in ExternalLogons(Events(Log), s)
      BY <2>2, ReportSays
    <3>2. SampleLimit[s] \in Nat
      BY LimitsAssumption
    <3>3. happened' = happened
      BY <2>2 DEF Analyse
    <3> HIDE DEF told
    <3> QED BY <3>1, <3>2, <3>3, LogonsAreFaithful
  <2> QED BY <2>1, <2>2, ReportStep
<1> HIDE DEF told
<1>2. /\ \A t \in told : \E h \in FromOutside(s)' : h.incident.ip = t.ip /\ Named(h) = t.user
      /\ \A h \in FromOutside(s)' :
            Cardinality({o \in Logons(s)' : o.ts >= h.ts}) <= SampleLimit[s]
                => \E t \in told : t.ip = h.incident.ip
  BY <1>1, FaithfulStays
<1> QED BY <1>2 DEF told

\* A logon from outside is told of unless the sample is full of later ones, and
\* whoever is told of logged on from outside with the account that is named.
THEOREM ExternalLogonsReported == Spec => []ExternalLogonsAreReported
<1>1. Init => ExternalLogonsAreReported
  BY NothingYet DEF ExternalLogonsAreReported
<1> QED BY <1>1, RecordedInvariant, LogonsStep, PTL DEF Spec

-----------------------------------------------------------------------------
(* Packets and their events *)

\* What an event is of: packets are firewall events, lookups those of the DNS.
LEMMA KindsAre ==
    ASSUME Recorded, NEW h \in happened, NEW k \in DOMAIN LinesOf(h.incident),
           NEW e \in Normalize(At(h, k))
    PROVE  /\ e.kind = "firewall" => h \in Packets
           /\ e.kind = "dns" => h \in Answers
<1>1. IsIncident(h.incident) /\ Timed(h)
  BY Known
<1>2. CASE h.incident.what \in AuthWhats
  <2>1. LineTells(h, k)
    BY <1>1, <1>2, AttemptsTell
  <2>2. e.kind \in {"auth", "system"}
    BY <2>1 DEF LineTells, Mute, TellsOf
  <2> QED BY <2>2
<1>3. CASE h.incident.what \in Verdicts
  <2>1. e.kind = "firewall"
    BY <1>1, <1>3, PacketsPass DEF Passes
  <2> QED BY <1>3, <2>1 DEF Packets, Those
<1>4. CASE h.incident.what \in Statuses
  <2>1. LookupTells(h, k)
    BY <1>1, <1>4, LookupsTell
  <2>2. e.kind = "dns" \/ e.kind = "system"
    BY <2>1 DEF LookupTells, Answering
  <2> QED BY <1>4, <2>2 DEF Answers, Those
<1>5. CASE h.incident.what = "deauth"
  BY <1>1, <1>5, DeauthTells DEF Falls_
<1>6. CASE h.incident.what = "dnsmasq restart"
  BY <1>1, <1>6, RestartTells
<1> QED BY <1>2, <1>3, <1>4, <1>5, <1>6, LinesHaveIncidents, Sorts DEF OtherWhats

LEMMA PacketsAre ==
    ASSUME Recorded
    PROVE  /\ IsFiniteSet(Packets) /\ Packets \subseteq happened
           /\ \A h \in Packets : /\ IsIncident(h.incident) /\ Timed(h) /\ h.incident.what \in Verdicts
                                 /\ h.incident.tries \in Nat \ {0}
                                 /\ DOMAIN LinesOf(h.incident) = 1..h.incident.tries
<1>1. IsFiniteSet(Packets) /\ Packets \subseteq happened
  BY FS_Subset DEF Packets, Those, Recorded
<1>2. \A h \in Packets : IsIncident(h.incident) /\ Timed(h) /\ h.incident.what \in Verdicts
  BY Known DEF Packets, Those
<1>3. \A h \in Packets : h.incident.tries \in Nat \ {0}
  BY <1>2, IncidentTyped
<1>4. \A h \in Packets : DOMAIN LinesOf(h.incident) = 1..h.incident.tries
  BY <1>2, PacketLines
<1> QED BY <1>1, <1>2, <1>3, <1>4

Fw == Firewall(Events(Log))

\* The event of a packet: every firewall event is one's, and each packet has one.
PacketOf(e, h, k) == Passes(e, h, k) /\ Normalize(At(h, k)) = {e}

LEMMA EventOfPacket ==
    ASSUME Recorded, NEW e \in Fw
    PROVE  \E h \in Packets : \E k \in 1..h.incident.tries : PacketOf(e, h, k)
<1>1. e \in Events(Log) /\ e.kind = "firewall"
  BY DEF Fw, Firewall, OfKind
<1>2. PICK h \in happened : \E k \in DOMAIN LinesOf(h.incident) : e \in Normalize(At(h, k))
  BY <1>1, EventsAre
<1>3. PICK k \in DOMAIN LinesOf(h.incident) : e \in Normalize(At(h, k))
  BY <1>2
<1>4. h \in Packets
  BY <1>1, <1>3, KindsAre
<1>5. k \in 1..h.incident.tries /\ IsIncident(h.incident) /\ Timed(h) /\ h.incident.what \in Verdicts
  BY <1>3, <1>4, PacketsAre
<1>6. PICK f : Normalize(At(h, k)) = {f} /\ Passes(f, h, k)
  BY <1>3, <1>5, PacketsPass
<1>7. f = e
  BY <1>3, <1>6
<1> QED BY <1>4, <1>5, <1>6, <1>7 DEF PacketOf

LEMMA PacketHasEvent ==
    ASSUME Recorded, NEW h \in Packets, NEW k \in 1..h.incident.tries
    PROVE  \E e \in Fw : PacketOf(e, h, k)
<1>1. /\ k \in DOMAIN LinesOf(h.incident) /\ IsIncident(h.incident) /\ Timed(h)
      /\ h.incident.what \in Verdicts /\ h \in happened
  BY PacketsAre
<1>2. PICK e : Normalize(At(h, k)) = {e} /\ Passes(e, h, k)
  BY <1>1, PacketsPass
<1>3. e \in Events(Log)
  BY <1>1, <1>2, EventsAre
<1>4. e.kind = "firewall"
  BY <1>2 DEF Passes
<1> QED BY <1>2, <1>3, <1>4 DEF Fw, Firewall, OfKind, PacketOf

\* What an event says of its packet.
LEMMA PacketSays ==
    ASSUME NEW e, NEW h, NEW k, PacketOf(e, h, k)
    PROVE  /\ e.id = <<h, k>> /\ e.id[1] = h /\ e.ts = h.ts
           /\ e.ip = h.incident.ip /\ e.dst = h.incident.dst /\ e.port = h.incident.port
           /\ e.action = h.incident.what /\ e.detail = h.incident.detail
           /\ e.len = h.incident.len /\ e.ttl = h.incident.ttl + k - 1
<1>1. e.id = <<h, k>> /\ Passes(e, h, k)
  BY DEF PacketOf, Passes
<1>2. e.id[1] = h
  BY <1>1
<1> QED BY <1>1, <1>2 DEF Passes

\* The packets behind some firewall events.
Behind(e) == e.id[1]

LEMMA BehindIs ==
    ASSUME Recorded, NEW e \in Fw
    PROVE  LET h == Behind(e)
           IN  /\ h \in Packets
               /\ \E k \in 1..h.incident.tries : PacketOf(e, h, k)
               /\ e.ip = h.incident.ip /\ e.dst = h.incident.dst /\ e.port = h.incident.port
               /\ e.action = h.incident.what /\ e.detail = h.incident.detail /\ e.ts = h.ts
               /\ e.len = h.incident.len
<1>1. PICK h \in Packets : \E k \in 1..h.incident.tries : PacketOf(e, h, k)
  BY EventOfPacket
<1>2. PICK k \in 1..h.incident.tries : PacketOf(e, h, k)
  BY <1>1
<1>3. Behind(e) = h
  BY <1>2, PacketSays DEF Behind
<1> QED BY <1>2, <1>3, PacketSays

LEMMA SomeEvent ==
    ASSUME Recorded, NEW h \in Packets
    PROVE  \E e \in Fw : Behind(e) = h
<1>1. 1 \in 1..h.incident.tries
  BY PacketsAre
<1> QED BY <1>1, PacketHasEvent, PacketSays DEF Behind

\* The events of some packets are as many as their tries.
LEMMA PacketsCount ==
    ASSUME Recorded, NEW R \in SUBSET Packets, NEW E, E = {e \in Fw : Behind(e) \in R}
    PROVE  IsFiniteSet(E) /\ Cardinality(E) = Tries(R) /\ Tries(R) \in Nat
<1> DEFINE u == Units(TriesOf(R), R)
           I == Fibres(u, R)
<1>1. IsFiniteSet(R) /\ \A h \in R : h.incident.tries \in Nat
  BY PacketsAre, FS_Subset
<1>2. Tries(R) = Cardinality(I) /\ Cardinality(I) \in Nat
  BY <1>1, TriesAreUnits DEF Tries
<1>3. \A h \in R : u[h] = 1..h.incident.tries
  BY DEF Units, TriesOf
<1>4. \A h \in R : IsFiniteSet(u[h])
  BY <1>1, <1>3, FS_Interval
<1> HIDE DEF u
<1>5. IsFiniteSet(I)
  BY <1>1, <1>4, FibresAreFinite
<1>6. \A p : p \in I <=> \E h \in R : \E k \in u[h] : p = <<h, k>>
  BY DEF Fibres
<1> HIDE DEF I
<1>7. \A e \in E : \E h \in R : \E k \in u[h] : PacketOf(e, h, k)
  BY <1>3, BehindIs
<1>8. ASSUME NEW e \in E PROVE e.id \in I
  <2>1. PICK h \in R : \E k \in u[h] : PacketOf(e, h, k)
    BY <1>7
  <2>2. PICK k \in u[h] : PacketOf(e, h, k)
    BY <2>1
  <2>3. e.id = <<h, k>>
    BY <2>2, PacketSays
  <2> QED BY <1>6, <2>2, <2>3
<1>9. ASSUME NEW i \in I PROVE \E e \in E : e.id = i
  <2>1. PICK h \in R : \E k \in u[h] : i = <<h, k>>
    BY <1>6
  <2>2. PICK k \in 1..h.incident.tries : i = <<h, k>>
    BY <1>3, <2>1
  <2>3. PICK e \in Fw : PacketOf(e, h, k)
    BY PacketHasEvent
  <2>4. e.id = i /\ Behind(e) = h
    BY <2>2, <2>3, PacketSays DEF Behind
  <2> QED BY <2>3, <2>4
<1>10. ASSUME NEW e \in E, NEW f \in E, e.id = f.id PROVE e = f
  <2>1. PICK g : \E k : PacketOf(e, g, k)
    BY <1>7
  <2>2. PICK h : \E k : PacketOf(f, h, k)
    BY <1>7
  <2>3. PICK k : PacketOf(e, g, k)
    BY <2>1
  <2>4. PICK n : PacketOf(f, h, n)
    BY <2>2
  <2>5. <<g, k>> = <<h, n>>
    BY ONLY <1>10, <2>3, <2>4, PacketSays
  <2>6. g = h /\ k = n
    BY ONLY <2>5
  <2>7. {e} = {f}
    BY ONLY <2>3, <2>4, <2>6 DEF PacketOf
  <2> QED BY ONLY <2>7
<1>11. IsFiniteSet(E) /\ Cardinality(E) = Cardinality(I)
  BY ONLY <1>5, <1>8, <1>9, <1>10, CountedById
<1> QED BY <1>2, <1>11

-----------------------------------------------------------------------------
(* What a report is made of *)

\* Once it is made, a report says what the analyzers may say of the events.
Analysed ==
    report.made =>
        LET events == Events(Log)
        IN  /\ report.bypass \in ResolverBypass(events)
            /\ report.tunnels = Fanout(events) /\ report.carriers = QtypeOutliers(events)
            /\ report.traces = Traceroutes(events)
            /\ report.scans \in InternalScans(events)
            /\ report.large \in LargeTransfers(events)
            /\ [probers |-> report.probers, sweeps |-> report.sweeps] \in
                    {[probers |-> p.probers, sweeps |-> p.sweeps] : p \in Patterns(events)}
            /\ report.stepped \in SteppedTtl(events)
            /\ \A z \in DOMAIN Trust : report.inbound[z] \in InboundToZone(events, z)
            /\ \A z \in DOMAIN Expected : report.egress[z] \in UnexpectedEgress(events, z)
            /\ report.mass \in MassDeauth(events) /\ report.falling \in DeauthOutliers(events)
            /\ report.blocked = BlockOutliers(events) /\ report.failing = NxOutliers(events)
            /\ report.senders = VolumeOutliers(events) /\ report.spike = SpikeHour(events)

LEMMA OneOfEachIs ==
    ASSUME NEW answers, NEW f \in OneOfEach(answers), NEW q \in DOMAIN answers
    PROVE  f[q] \in answers[q]
BY DEF OneOfEach

LEMMA AnalysedStep == Analysed /\ [Next]_vars => Analysed'
<1> SUFFICES ASSUME Analysed, [Next]_vars, report'.made PROVE Analysed'
  BY DEF Analysed
<1>1. happened' = happened
  BY ReportStep DEF Analyse
<1>2. Log' = Log
  BY <1>1 DEF Log
<1>3. CASE report.made /\ report' = report
  BY <1>2, <1>3 DEF Analysed
<1>4. CASE Analyse
  <2> DEFINE events == Events(Log)
  <2>1. /\ report'.bypass \in ResolverBypass(events)
        /\ report'.tunnels = Fanout(events) /\ report'.carriers = QtypeOutliers(events)
        /\ report'.traces = Traceroutes(events)
        /\ report'.scans \in InternalScans(events)
        /\ report'.large \in LargeTransfers(events)
    BY <1>4 DEF Analyse
  <2>2. PICK p \in Patterns(events) : report'.probers = p.probers /\ report'.sweeps = p.sweeps
    BY <1>4 DEF Analyse
  <2>3. report'.stepped \in SteppedTtl(events)
    BY <1>4 DEF Analyse
  <2>4. \A z \in DOMAIN Trust : report'.inbound[z] \in InboundToZone(events, z)
    <3> DEFINE answers == [z \in DOMAIN Trust |-> InboundToZone(events, z)]
    <3>1. report'.inbound \in OneOfEach(answers)
      BY <1>4 DEF Analyse
    <3> HIDE DEF events
    <3>2. DOMAIN answers = DOMAIN Trust /\ \A z \in DOMAIN Trust : answers[z] = InboundToZone(events, z)
      OBVIOUS
    <3> HIDE DEF answers
    <3> QED BY <3>1, <3>2, OneOfEachIs
  <2>5. \A z \in DOMAIN Expected : report'.egress[z] \in UnexpectedEgress(events, z)
    <3> DEFINE answers == [z \in DOMAIN Expected |-> UnexpectedEgress(events, z)]
    <3>1. report'.egress \in OneOfEach(answers)
      BY <1>4 DEF Analyse
    <3> HIDE DEF events
    <3>2. /\ DOMAIN answers = DOMAIN Expected
          /\ \A z \in DOMAIN Expected : answers[z] = UnexpectedEgress(events, z)
      OBVIOUS
    <3> HIDE DEF answers
    <3> QED BY <3>1, <3>2, OneOfEachIs
  <2>6. report'.mass \in MassDeauth(events) /\ report'.falling \in DeauthOutliers(events)
    BY <1>4 DEF Analyse
  <2>7. /\ report'.blocked = BlockOutliers(events) /\ report'.failing = NxOutliers(events)
        /\ report'.senders = VolumeOutliers(events) /\ report'.spike = SpikeHour(events)
    BY <1>4 DEF Analyse
  <2> QED BY <1>2, <2>1, <2>2, <2>3, <2>4, <2>5, <2>6, <2>7 DEF Analysed
<1> QED BY <1>3, <1>4, ReportStep

\* Whatever is reported was made of the events of what happened, by the analyzers.
THEOREM AnalysedInvariant == Spec => []Analysed
<1>1. Init => Analysed
  BY NothingYet DEF Analysed
<1> QED BY <1>1, AnalysedStep, PTL DEF Spec

-----------------------------------------------------------------------------
(* Rankings *)

LEMMA Columns ==
    ASSUME NEW e
    PROVE  e["ip"] = e.ip /\ e["dst"] = e.dst /\ e["port"] = e.port /\ e["domain"] = e.domain
OBVIOUS

LEMMA TopIs ==
    ASSUME NEW events, NEW col, NEW n, NEW D, D = Distinct(events, col),
           NEW f, f = [v \in D |-> Hits(events, col, v)]
    PROVE  Top(events, col, n) =
              {T \in kSubset(AtMost(n, D), D) : \A v \in T, w \in D \ T : f[v] >= f[w]}
<1>1. Top(events, col, n) = {T \in kSubset(AtMost(n, D), D) :
            \A v \in T, w \in D \ T : Hits(events, col, v) >= Hits(events, col, w)}
  BY Zenon DEF Top
<1>2. \A v \in D : f[v] = Hits(events, col, v)
  OBVIOUS
<1>3. \A T \in kSubset(AtMost(n, D), D) : T \subseteq D
  BY DEF kSubset
<1>4. ASSUME NEW T \in kSubset(AtMost(n, D), D)
      PROVE  (\A v \in T, w \in D \ T : Hits(events, col, v) >= Hits(events, col, w))
                <=> (\A v \in T, w \in D \ T : f[v] >= f[w])
  BY <1>2, <1>3
<1> QED BY <1>1, <1>4

\* Who is missed is behind enough others.
LEMMA TopHolds ==
    ASSUME NEW events, NEW col, NEW n \in Nat, NEW T \in Top(events, col, n),
           IsFiniteSet(Distinct(events, col)), NEW x \in Distinct(events, col),
           Hits(events, col, x) \in Nat,
           Cardinality({o \in Distinct(events, col) : Hits(events, col, o) >= Hits(events, col, x)}) <= n
    PROVE  x \in T
<1> DEFINE D == Distinct(events, col)
           f == [v \in D |-> Hits(events, col, v)]
<1>1. Top(events, col, n) =
              {S \in kSubset(AtMost(n, D), D) : \A v \in S, w \in D \ S : f[v] >= f[w]}
  <2>1. D = Distinct(events, col) /\ f = [v \in D |-> Hits(events, col, v)]
    OBVIOUS
  <2> HIDE DEF D, f
  <2> QED BY <2>1, TopIs
<1>2. T \in kSubset(AtMost(n, D), D) /\ \A v \in T, w \in D \ T : f[v] >= f[w]
  BY <1>1
<1>3. \A v \in D : f[v] = Hits(events, col, v)
  OBVIOUS
<1>4. {o \in D : f[o] >= f[x]} = {o \in D : Hits(events, col, o) >= Hits(events, col, x)}
  BY <1>3
<1>5. Cardinality({o \in D : f[o] >= f[x]}) <= n /\ f[x] \in Nat /\ x \in D /\ IsFiniteSet(D)
  BY <1>3, <1>4
<1> HIDE DEF D, f
<1> QED BY <1>2, <1>5, CutHolds

LEMMA TopWithin ==
    ASSUME NEW events, NEW col, NEW n, NEW T \in Top(events, col, n)
    PROVE  T \subseteq Distinct(events, col)
<1>1. T \in kSubset(AtMost(n, Distinct(events, col)), Distinct(events, col))
  BY Zenon DEF Top
<1> QED BY <1>1 DEF kSubset

\* A limit that is not reached cuts nothing off.
LEMMA NoCut ==
    ASSUME NEW S, IsFiniteSet(S), NEW n \in Nat, NEW T \in kSubset(AtMost(n, S), S),
           Cardinality(S) <= n
    PROVE  T = S
<1> DEFINE c == Cardinality(S)
           t == Cardinality(T)
<1>1. T \subseteq S /\ t = AtMost(n, S)
  BY DEF kSubset
<1>2. c \in Nat /\ t \in Nat /\ (t = c => T = S)
  BY <1>1, FS_Subset, FS_CardinalityType
<1>3. t = IF c < n THEN c ELSE n
  BY <1>1, LimitIs
<1>4. c <= n
  OBVIOUS
<1> HIDE DEF c, t
<1>5. t = c
  BY ONLY <1>2, <1>3, <1>4
<1> QED BY <1>2, <1>5

\* The first of a set are some of it, all of it if the limit allows.
LEMMA LeadersAre ==
    ASSUME NEW S, IsFiniteSet(S), NEW n \in Nat, NEW f, NEW T \in Leading(n, S, f)
    PROVE  /\ T \subseteq S
           /\ Cardinality(S) <= n => T = S
           /\ S # {} /\ n # 0 => T # {}
<1>1. T \in kSubset(AtMost(n, S), S)
  BY Zenon DEF Leading
<1>2. T \subseteq S /\ (Cardinality(S) <= n => T = S)
  BY <1>1, NoCut DEF kSubset
<1>3. ASSUME S # {}, n # 0, T = {} PROVE FALSE
  <2> DEFINE c == Cardinality(S)
  <2>1. Cardinality(T) = AtMost(n, S) /\ Cardinality({}) = 0
    BY <1>1, FS_EmptySet DEF kSubset
  <2>2. c \in Nat /\ c # 0
    BY <1>3, FS_EmptySet, FS_CardinalityType
  <2>3. AtMost(n, S) = IF c < n THEN c ELSE n
    BY LimitIs
  <2> HIDE DEF c
  <2> QED BY <1>3, <2>1, <2>2, <2>3
<1> QED BY <1>2, <1>3

LEMMA PairsAre ==
    ASSUME NEW events, NEW a, NEW b, NEW n, NEW T \in TopPairs(events, a, b, n),
           NEW P, P = {Pair(ev, a, b) : ev \in {x \in events : x[a] # NoValue}}
    PROVE  /\ T \in kSubset(AtMost(n, P), P) /\ T \subseteq P
           /\ \A p \in T, r \in P \ T : PairHits(events, a, b, p) >= PairHits(events, a, b, r)
<1>1. T \in kSubset(AtMost(n, P), P) /\
        \A p \in T, r \in P \ T : PairHits(events, a, b, p) >= PairHits(events, a, b, r)
  BY Zenon DEF TopPairs
<1> QED BY <1>1 DEF kSubset

-----------------------------------------------------------------------------
(* Resolvers elsewhere *)

LEMMA RoutesAre ==
    ASSUME Recorded, NEW R \in SUBSET Packets, NEW E, E = {e \in Fw : Behind(e) \in R}
    PROVE  /\ {Pair(e, "ip", "dst") : e \in {x \in E : x["ip"] # NoValue}} = {Route(h) : h \in R}
           /\ {<<e.ip, e.dst>> : e \in E} = {Route(h) : h \in R}
           /\ IsFiniteSet({Route(h) : h \in R})
<1>1. \A e \in E : Behind(e) \in R /\ <<e.ip, e.dst>> = Route(Behind(e)) /\ e.ip # NoValue
  <2> TAKE e \in E
  <2>1. Behind(e) \in R /\ e.ip = Behind(e).incident.ip /\ e.dst = Behind(e).incident.dst
    BY BehindIs
  <2>2. IsIncident(Behind(e).incident) /\ Behind(e).incident.what \in Verdicts
    BY <2>1, PacketsAre
  <2>3. Behind(e).incident.ip # NoValue
    BY Zenon, <2>2 DEF IsIncident
  <2> QED BY <2>1, <2>3 DEF Route
<1>2. \A h \in R : \E e \in E : Behind(e) = h
  BY SomeEvent
<1>3. \A e \in E : Pair(e, "ip", "dst") = <<e.ip, e.dst>> /\ e["ip"] = e.ip
  BY Columns DEF Pair
<1>4. IsFiniteSet({Route(h) : h \in R})
  <2>1. IsFiniteSet(R)
    BY PacketsAre, FS_Subset
  <2> DEFINE f == [h \in R |-> Route(h)]
  <2>2. {Route(h) : h \in R} = {f[h] : h \in R}
    OBVIOUS
  <2> HIDE DEF f
  <2> QED BY <2>1, <2>2, ImageIsSmall
<1> QED BY <1>1, <1>2, <1>3, <1>4

LEMMA BypassTold == Recorded /\ Analysed => (report.made => BypassIsTold)
<1> SUFFICES ASSUME Recorded, Analysed, report.made PROVE BypassIsTold
  OBVIOUS
<1> DEFINE R == {h \in Packets : h.incident.port = 53}
           E == {e \in Fw : Behind(e) \in R}
           elsewhere == {Route(h) : h \in R}
           port53 == {ev \in OfKind(Events(Log), "firewall") : ev.port = 53}
           told(p) == p[2] # NoValue /\ p[2] \notin Approved /\ IsInternal(p[1]) /\ ~ IsInternal(p[2])
           offenders(S) == {p \in S : Approved # {} /\ told(p)}
           queries(S) == [p \in S |-> PairHits(port53, "ip", "dst", p)]
           offending == {p \in elsewhere : /\ IsInternal(p[1]) /\ ~ IsInternal(p[2])
                                           /\ Approved # {} /\ p[2] \notin Approved}
<1>1. port53 = E
  <2>1. \A e \in Fw : e.port = 53 <=> Behind(e) \in R
    BY BehindIs
  <2> QED BY <2>1 DEF Fw, Firewall
<1>2. PICK T \in TopPairs(port53, "ip", "dst", BypassLimit) :
         report.bypass \in Leading(BypassShown, offenders(T), queries(offenders(T)))
  <2>1. report.bypass \in ResolverBypass(Events(Log))
    BY DEF Analysed
  <2>2. ResolverBypass(Events(Log)) =
           UNION {Leading(BypassShown, offenders(T), queries(offenders(T))) :
                     T \in TopPairs(port53, "ip", "dst", BypassLimit)}
    BY Zenon DEF ResolverBypass
  <2> HIDE DEF offenders, queries, port53
  <2> QED BY <2>1, <2>2
<1>3. {Pair(e, "ip", "dst") : e \in {x \in E : x["ip"] # NoValue}} = elsewhere /\ IsFiniteSet(elsewhere)
  BY RoutesAre
<1>4. T \in kSubset(AtMost(BypassLimit, elsewhere), elsewhere) /\ T \subseteq elsewhere
  <2>1. elsewhere = {Pair(e, "ip", "dst") : e \in {x \in port53 : x["ip"] # NoValue}}
    BY <1>1, <1>3
  <2>2. T \in TopPairs(port53, "ip", "dst", BypassLimit)
    BY <1>2
  <2> HIDE DEF elsewhere, port53
  <2> QED BY ONLY <2>1, <2>2, PairsAre
<1>5. ASSUME NEW p \in elsewhere PROVE p[2] # NoValue
  <2>1. PICK h \in R : p = Route(h)
    OBVIOUS
  <2>2. IsIncident(h.incident) /\ h.incident.what \in Verdicts
    BY PacketsAre
  <2>3. h.incident.dst # NoValue
    BY Zenon, <2>2 DEF IsIncident
  <2> QED BY <2>1, <2>3 DEF Route
<1>6. BypassLimit \in Nat
  BY LookupsAssumption
<1>7. Cardinality(elsewhere) <= BypassLimit => T = elsewhere
  BY <1>3, <1>4, <1>6, NoCut
<1>8. offenders(T) \subseteq offending /\ (T = elsewhere => offenders(T) = offending)
  BY <1>4, <1>5
<1>9. IsFiniteSet(offenders(T))
  BY <1>3, <1>4, FS_Subset
<1> HIDE DEF offenders, offending, elsewhere, queries
<1>10. /\ report.bypass \subseteq offenders(T)
       /\ Cardinality(offenders(T)) <= BypassShown => report.bypass = offenders(T)
       /\ offenders(T) # {} => report.bypass # {}
  <2>1. BypassShown \in Nat /\ BypassShown # 0
    BY LookupsAssumption
  <2> QED BY <1>2, <1>9, <2>1, LeadersAre
<1>11. /\ report.bypass \subseteq offending
       /\ Cardinality(elsewhere) <= BypassLimit /\ offending # {} =>
            /\ report.bypass # {}
            /\ Cardinality(offending) <= BypassShown => report.bypass = offending
  BY <1>7, <1>8, <1>10
<1> QED BY <1>11 DEF BypassIsTold, offending, elsewhere

-----------------------------------------------------------------------------
(* Sources of packets *)

\* The sources of some packets, and how often each is seen in their events.
LEMMA SourcesAre ==
    ASSUME Recorded, NEW W \in SUBSET Packets, NEW F, F = {e \in Fw : Behind(e) \in W}
    PROVE  Distinct(F, "ip") = {h.incident.ip : h \in W} /\ IsFiniteSet({h.incident.ip : h \in W})
<1>1. \A e \in F : e.ip = Behind(e).incident.ip /\ Behind(e) \in W
  BY BehindIs
<1>2. \A h \in W : (\E e \in F : Behind(e) = h) /\ h.incident.ip # NoValue
  <2> TAKE h \in W
  <2>1. IsIncident(h.incident) /\ h.incident.what \in Verdicts
    BY PacketsAre
  <2>2. h.incident.ip # NoValue
    BY Zenon, <2>1 DEF IsIncident
  <2> QED BY <2>2, SomeEvent
<1>3. Distinct(F, "ip") = {h.incident.ip : h \in W}
  <2>1. Distinct(F, "ip") = {e.ip : e \in F} \ {NoValue}
    BY Columns DEF Distinct
  <2> QED BY <1>1, <1>2, <2>1
<1>4. IsFiniteSet({h.incident.ip : h \in W})
  <2> DEFINE f == [h \in W |-> h.incident.ip]
  <2>1. {h.incident.ip : h \in W} = {f[h] : h \in W}
    OBVIOUS
  <2>2. IsFiniteSet(W)
    BY PacketsAre, FS_Subset
  <2> HIDE DEF f
  <2> QED BY <2>1, <2>2, ImageIsSmall
<1> QED BY <1>3, <1>4

From(W, src) == {h \in W : h.incident.ip = src}

LEMMA SourcesSend ==
    ASSUME Recorded, NEW W \in SUBSET Packets, NEW F, F = {e \in Fw : Behind(e) \in W}, NEW src
    PROVE  /\ Hits(F, "ip", src) = Tries(From(W, src))
           /\ Cardinality({e \in F : e.ip = src}) = Tries(From(W, src))
           /\ Tries(From(W, src)) \in Nat /\ IsFiniteSet({e \in F : e.ip = src})
<1> DEFINE R == From(W, src)
           E == {e \in F : e.ip = src}
<1>1. \A e \in F : e.ip = Behind(e).incident.ip /\ Behind(e) \in W
  BY BehindIs
<1>2. E = {e \in Fw : Behind(e) \in R}
  BY <1>1 DEF From
<1>3. R \in SUBSET Packets
  BY DEF From
<1>4. Hits(F, "ip", src) = Cardinality(E)
  BY Columns DEF Hits
<1> HIDE DEF R, E
<1>5. IsFiniteSet(E) /\ Cardinality(E) = Tries(R) /\ Tries(R) \in Nat
  BY <1>2, <1>3, PacketsCount
<1> QED BY <1>4, <1>5 DEF R, E

\* A source that is not looked at is behind enough others.
LEMMA SourceIsLookedAt ==
    ASSUME Recorded, NEW W \in SUBSET Packets, NEW F, F = {e \in Fw : Behind(e) \in W},
           NEW n \in Nat, NEW T \in Top(F, "ip", n), NEW src \in {h.incident.ip : h \in W},
           Cardinality({o \in {h.incident.ip : h \in W} :
                           Tries(From(W, o)) >= Tries(From(W, src))}) <= n
    PROVE  src \in T
<1> DEFINE D == {h.incident.ip : h \in W}
           of(o) == Tries(From(W, o))
<1>1. /\ Distinct(F, "ip") = D /\ IsFiniteSet(D)
      /\ \A o : Hits(F, "ip", o) = of(o) /\ of(o) \in Nat
  BY SourcesAre, SourcesSend
<1>2. src \in D /\ Cardinality({o \in D : of(o) >= of(src)}) <= n
  OBVIOUS
<1> HIDE DEF D, of
<1>3. {o \in Distinct(F, "ip") : Hits(F, "ip", o) >= Hits(F, "ip", src)} = {o \in D : of(o) >= of(src)}
  BY <1>1
<1> QED BY <1>1, <1>2, <1>3, TopHolds

LEMMA ScansTold == Recorded /\ Analysed => (report.made => ScansAreTold)
<1> SUFFICES ASSUME Recorded, Analysed, report.made PROVE ScansAreTold
  OBVIOUS
<1> DEFINE of(src) == {h \in Packets : h.incident.ip = src}
           tries(src) == Tries(of(src))
           ports(src) == {h.incident.port : h \in of(src)} \ {0}
           scans(src) == IsInternal(src) /\ tries(src) >= ScanHits /\ Cardinality(ports(src)) >= ScanPorts
           sources == {h.incident.ip : h \in Packets}
           ofF(ip) == {ev \in Fw : ev.ip = ip}
           portsF(ip) == {ev.port : ev \in ofF(ip)} \ {0}
<1>1. PICK T \in Top(Fw, "ip", ProfileLimit) :
         report.scans = {ip \in T : /\ IsInternal(ip) /\ Cardinality(ofF(ip)) >= ScanHits
                                    /\ Cardinality(portsF(ip)) >= ScanPorts}
  BY DEF Analysed, InternalScans, Fw
<1>2. Fw = {e \in Fw : Behind(e) \in Packets} /\ Packets \in SUBSET Packets
  BY BehindIs
<1>3. Distinct(Fw, "ip") = sources /\ \A src : Cardinality(ofF(src)) = tries(src)
  <2>1. Distinct(Fw, "ip") = sources
    BY <1>2, SourcesAre
  <2>2. ASSUME NEW src PROVE Cardinality(ofF(src)) = Tries(From(Packets, src))
    BY <1>2, SourcesSend
  <2>3. \A src : From(Packets, src) = of(src)
    BY Zenon DEF From
  <2> HIDE DEF sources, ofF, of
  <2> QED BY ONLY <2>1, <2>2, <2>3
<1>4. \A src : portsF(src) = ports(src)
  <2> TAKE src
  <2>1. \A e \in Fw : Behind(e) \in Packets /\ e.ip = Behind(e).incident.ip /\ e.port = Behind(e).incident.port
    BY BehindIs
  <2>2. \A h \in Packets : \E e \in Fw : Behind(e) = h
    BY SomeEvent
  <2> QED BY <2>1, <2>2
<1>5. report.scans = {ip \in T : scans(ip)}
  <2>1. \A ip : (IsInternal(ip) /\ Cardinality(ofF(ip)) >= ScanHits /\ Cardinality(portsF(ip)) >= ScanPorts)
                  <=> scans(ip)
    BY <1>3, <1>4
  <2> HIDE DEF scans, ofF, portsF
  <2> QED BY <1>1, <2>1
<1>6. ASSUME NEW src \in sources, Cardinality({o \in sources : tries(o) >= tries(src)}) <= ProfileLimit
      PROVE  src \in T
  <2>1. \A o : tries(o) = Tries(From(Packets, o))
    BY Zenon DEF From
  <2>2. {o \in sources : tries(o) >= tries(src)} =
           {o \in sources : Tries(From(Packets, o)) >= Tries(From(Packets, src))}
    <3> HIDE DEF sources, tries
    <3> QED BY ONLY <2>1
  <2>3. Cardinality({o \in sources : Tries(From(Packets, o)) >= Tries(From(Packets, src))}) <= ProfileLimit
    BY ONLY <1>6, <2>2
  <2>4. ProfileLimit \in Nat
    BY TrafficAssumption
  <2> HIDE DEF scans, tries, of, ports, portsF, ofF
  <2> QED BY <1>1, <1>2, <2>3, <2>4, SourceIsLookedAt
<1>7. \A src \in report.scans : scans(src)
  BY <1>5
<1>8. \A src \in sources :
            scans(src) /\ Cardinality({o \in sources : tries(o) >= tries(src)}) <= ProfileLimit
              => src \in report.scans
  BY <1>5, <1>6
<1> QED BY <1>7, <1>8 DEF ScansAreTold

-----------------------------------------------------------------------------
(* Sessions let in *)

LEMMA InboundTold == Recorded /\ Analysed => (report.made => InboundIsTold)
<1> SUFFICES ASSUME Recorded, Analysed, report.made, NEW z \in DOMAIN Trust
             PROVE  LET into == {h \in Those({"accept"}) : zone_of(h.incident.dst) = z}
                        pair(h) == <<h.incident.ip, h.incident.port>>
                        pairs == {pair(h) : h \in into}
                        notable(h) == /\ ~ IsInternal(h.incident.ip)
                                      /\ Trust[z] \notin UNTRUSTED => HasBaseline /\ h.incident.ip \notin Familiar
                        knocking == {pair(h) : h \in {h \in into : notable(h) /\ h.incident.port \in Watched}}
                    IN  /\ report.inbound[z] \subseteq {pair(h) : h \in {h \in into : notable(h)}}
                        /\ \A h \in into :
                            /\ notable(h) /\ Cardinality(pairs) <= InboundLimit
                            => /\ report.inbound[z] # {}
                               /\ Cardinality(knocking) <= InboundShown => knocking \subseteq report.inbound[z]
                               /\ knocking # {} => report.inbound[z] \subseteq knocking
  BY DEF InboundIsTold
<1> DEFINE W == {h \in Those({"accept"}) : zone_of(h.incident.dst) = z}
           pair(h) == <<h.incident.ip, h.incident.port>>
           P == {pair(h) : h \in W}
           into == {ev \in Accepted(Events(Log)) : ev.dst # NoValue /\ zone_of(ev.dst) = z}
           outside(p) == ~ IsInternal(p[1]) /\ (Trust[z] \notin UNTRUSTED => HasBaseline /\ p[1] \notin Familiar)
           watched(S) == {p \in S : p[2] \in Watched}
           notable(S) == IF watched(S) = {} THEN S ELSE watched(S)
           hits(S) == [p \in S |-> PairHits(into, "ip", "port", p)]
<1>1. PICK T \in TopPairs(into, "ip", "port", InboundLimit) :
         report.inbound[z] \in Leading(InboundShown, notable({p \in T : outside(p)}),
                                       hits(notable({p \in T : outside(p)})))
  <2>1. report.inbound[z] \in InboundToZone(Events(Log), z)
    BY DEF Analysed
  <2>2. InboundToZone(Events(Log), z) =
           UNION {Leading(InboundShown, notable({p \in T : outside(p)}),
                          hits(notable({p \in T : outside(p)}))) :
                     T \in TopPairs(into, "ip", "port", InboundLimit)}
    BY Zenon DEF InboundToZone
  <2> HIDE DEF notable, outside, into, hits
  <2> QED BY <2>1, <2>2
<1>2. W \in SUBSET Packets
  BY DEF Packets, Those, Verdicts
<1>3. \A h \in W : h.incident.dst # NoValue /\ h.incident.ip # NoValue
  <2> TAKE h \in W
  <2>1. IsIncident(h.incident) /\ h.incident.what \in Verdicts
    BY <1>2, PacketsAre
  <2> QED BY Zenon, <2>1 DEF IsIncident
<1>4. into = {e \in Fw : Behind(e) \in W}
  <2>1. \A e \in Fw : /\ Behind(e) \in Packets /\ e.action = Behind(e).incident.what
                      /\ e.dst = Behind(e).incident.dst
    BY BehindIs
  <2>2. Packets \subseteq happened
    BY PacketsAre
  <2>3. \A e : e \in into <=> e \in Fw /\ e.action = "accept" /\ e.dst # NoValue /\ zone_of(e.dst) = z
    BY DEF Accepted, WithAction, Fw, Firewall
  <2>4. \A h \in Packets : h \in W <=> h.incident.what = "accept" /\ zone_of(h.incident.dst) = z
    BY <2>2 DEF Those
  <2> HIDE DEF into, W
  <2> QED BY <1>3, <2>1, <2>3, <2>4
<1>5. {Pair(e, "ip", "port") : e \in {x \in into : x["ip"] # NoValue}} = P
  <2>1. \A e \in into : Behind(e) \in W /\ e.ip = Behind(e).incident.ip /\ e.port = Behind(e).incident.port
    BY <1>4, BehindIs
  <2>2. \A h \in W : \E e \in into : Behind(e) = h
    BY <1>2, <1>4, SomeEvent
  <2>3. \A e : Pair(e, "ip", "port") = <<e.ip, e.port>> /\ e["ip"] = e.ip
    BY Columns DEF Pair
  <2> HIDE DEF into, W
  <2>4. \A e \in into : Pair(e, "ip", "port") = pair(Behind(e)) /\ e["ip"] # NoValue
    BY <1>3, <2>1, <2>3
  <2> HIDE DEF pair
  <2> QED BY <2>1, <2>2, <2>4
<1>6. IsFiniteSet(P)
  <2> DEFINE f == [h \in W |-> pair(h)]
  <2>1. P = {f[h] : h \in W}
    OBVIOUS
  <2>2. IsFiniteSet(W)
    BY <1>2, PacketsAre, FS_Subset
  <2> HIDE DEF f, P, W
  <2> QED BY <2>1, <2>2, ImageIsSmall
<1>7. InboundLimit \in Nat
  BY TrafficAssumption
<1>8. T \subseteq P /\ (Cardinality(P) <= InboundLimit => T = P)
  <2> HIDE DEF P, into, notable, outside
  <2>1. T \in TopPairs(into, "ip", "port", InboundLimit)
    OBVIOUS
  <2>2. P = {Pair(e, "ip", "port") : e \in {x \in into : x["ip"] # NoValue}}
    BY ONLY <1>5
  <2>3. T \in kSubset(AtMost(InboundLimit, P), P) /\ T \subseteq P
    BY ONLY <2>1, <2>2, PairsAre
  <2> QED BY <1>6, <1>7, <2>3, NoCut
<1>9. \A h \in W : pair(h)[1] = h.incident.ip /\ pair(h)[2] = h.incident.port
  OBVIOUS
<1> DEFINE notableM(h) == /\ ~ IsInternal(h.incident.ip)
                          /\ Trust[z] \notin UNTRUSTED => HasBaseline /\ h.incident.ip \notin Familiar
<1>10. \A h \in W : notableM(h) <=> outside(pair(h))
  BY <1>9
<1> DEFINE S == {p \in T : outside(p)}
           knocking == {pair(h) : h \in {h \in W : notableM(h) /\ h.incident.port \in Watched}}
<1>11. notable(S) \subseteq S /\ IsFiniteSet(notable(S)) /\ (S # {} => notable(S) # {})
  <2>1. notable(S) \subseteq S /\ (S # {} => notable(S) # {})
    <3> HIDE DEF S
    <3> QED OBVIOUS
  <2> HIDE DEF notable, P
  <2> QED BY <1>6, <1>8, <2>1, FS_Subset
<1>12. S \subseteq {pair(h) : h \in {h \in W : notableM(h)}}
  <2> HIDE DEF notableM, outside, W, pair
  <2> QED BY <1>8, <1>10
<1>13. watched(S) \subseteq knocking
  <2> SUFFICES ASSUME NEW p \in watched(S) PROVE p \in knocking
    OBVIOUS
  <2>1. PICK h \in W : notableM(h) /\ p = pair(h)
    BY <1>12
  <2> QED BY <1>9, <2>1
<1>14. /\ report.inbound[z] \subseteq notable(S)
       /\ Cardinality(notable(S)) <= InboundShown => report.inbound[z] = notable(S)
       /\ notable(S) # {} => report.inbound[z] # {}
  <2>1. InboundShown \in Nat /\ InboundShown # 0
    BY TrafficAssumption
  <2> DEFINE N == notable(S)
             f == hits(N)
  <2>2. report.inbound[z] \in Leading(InboundShown, N, f) /\ IsFiniteSet(N)
    BY <1>1, <1>11
  <2> HIDE DEF N, f
  <2>3. /\ report.inbound[z] \subseteq N /\ (N # {} => report.inbound[z] # {})
        /\ Cardinality(N) <= InboundShown => report.inbound[z] = N
    BY <2>1, <2>2, LeadersAre
  <2> QED BY <2>3 DEF N
<1>15. ASSUME NEW h \in W, notableM(h), Cardinality(P) <= InboundLimit
       PROVE  /\ report.inbound[z] # {}
              /\ Cardinality(knocking) <= InboundShown => knocking \subseteq report.inbound[z]
              /\ knocking # {} => report.inbound[z] \subseteq knocking
  <2>1. pair(h) \in S /\ T = P
    BY <1>8, <1>10, <1>15
  <2>2. watched(S) = knocking
    <3> SUFFICES ASSUME NEW g \in W, notableM(g), g.incident.port \in Watched PROVE pair(g) \in watched(S)
      BY <1>13
    <3>1. pair(g) \in T /\ pair(g)[2] \in Watched
      BY <1>9, <2>1
    <3>2. outside(pair(g))
      BY <1>10
    <3> HIDE DEF outside, pair
    <3> QED BY <3>1, <3>2
  <2>3. notable(S) = IF knocking = {} THEN S ELSE knocking
    BY <2>2
  <2> HIDE DEF notable, knocking, watched, S, P
  <2> QED BY <1>11, <1>14, <2>1, <2>3
<1>16. report.inbound[z] \subseteq {pair(h) : h \in {h \in W : notableM(h)}}
  <2> HIDE DEF notable, S, notableM
  <2> QED BY <1>11, <1>12, <1>14
<1> HIDE DEF notable, outside, into
<1> QED BY <1>15, <1>16

-----------------------------------------------------------------------------
(* Lookups and their events *)

DnsEvents == Dns(Events(Log))

\* The lines of a lookup that are events, and what these say.
LookupMarks(h) ==
    {k \in {1, 2} : /\ k = 1 => h.incident.what # "IN_PROGRESS"
                    /\ k = 2 => h.incident.ip \in Segment}
Asker(h, k) == IF k = 1 /\ h.incident.ip \in Segment THEN Gateway ELSE h.incident.ip
LookupOf(e, h, k) == Answering(e, h, k) /\ Normalize(At(h, k)) = {e} /\ e.ip = Asker(h, k)

LEMMA AnswersAre ==
    ASSUME Recorded
    PROVE  /\ IsFiniteSet(Answers) /\ Answers \subseteq happened
           /\ \A h \in Answers : /\ IsIncident(h.incident) /\ Timed(h) /\ h.incident.what \in Statuses
                                 /\ h.incident.domain \in DOMAIN Labels \ {NoValue}
                                 /\ h.incident.ip \notin {NoValue, Loopback}
<1>1. IsFiniteSet(Answers) /\ Answers \subseteq happened
  BY FS_Subset DEF Answers, Those, Recorded
<1>2. \A h \in Answers : IsIncident(h.incident) /\ Timed(h) /\ h.incident.what \in Statuses
  BY Known DEF Answers, Those
<1>3. \A h \in Answers : /\ h.incident.domain \in DOMAIN Labels \ {NoValue}
                         /\ h.incident.ip \notin {NoValue, Loopback}
  BY Zenon, <1>2 DEF IsIncident
<1> QED BY <1>1, <1>2, <1>3

LEMMA MarkTells ==
    ASSUME Recorded, NEW h \in Answers, NEW k \in DOMAIN LinesOf(h.incident)
    PROVE  /\ k \in LookupMarks(h) => \E e : LookupOf(e, h, k)
           /\ k \notin LookupMarks(h) => \A e \in Normalize(At(h, k)) : e.kind = "system"
<1>1. /\ LookupTells(h, k) /\ k \in 1..5
      /\ DOMAIN LinesOf(h.incident) = IF h.incident.ip \in Segment THEN 1..5 ELSE 1..1
  BY AnswersAre, LookupsTell
<1>2. CASE k = 1 /\ h.incident.what = "IN_PROGRESS"
  BY <1>1, <1>2 DEF LookupTells, LookupMarks
<1>3. CASE k = 1 /\ h.incident.what # "IN_PROGRESS"
  BY <1>1, <1>3 DEF LookupTells, LookupMarks, LookupOf, Asker
<1>4. CASE k = 2
  BY <1>1, <1>4 DEF LookupTells, LookupMarks, LookupOf, Asker
<1>5. CASE k \notin {1, 2}
  BY <1>1, <1>5 DEF LookupTells, LookupMarks
<1> QED BY <1>2, <1>3, <1>4, <1>5

LEMMA EventOfLookup ==
    ASSUME Recorded, NEW e \in DnsEvents
    PROVE  \E h \in Answers : \E k \in LookupMarks(h) : LookupOf(e, h, k)
<1>1. e \in Events(Log) /\ e.kind = "dns"
  BY DEF DnsEvents, Dns, OfKind
<1>2. PICK h \in happened : \E k \in DOMAIN LinesOf(h.incident) : e \in Normalize(At(h, k))
  BY <1>1, EventsAre
<1>3. PICK k \in DOMAIN LinesOf(h.incident) : e \in Normalize(At(h, k))
  BY <1>2
<1>4. h \in Answers
  BY <1>1, <1>3, KindsAre
<1>5. k \in LookupMarks(h)
  BY <1>1, <1>3, <1>4, MarkTells
<1>6. PICK f : LookupOf(f, h, k)
  BY <1>3, <1>4, <1>5, MarkTells
<1>7. f = e
  BY <1>3, <1>6 DEF LookupOf
<1> QED BY <1>4, <1>5, <1>6, <1>7

LEMMA LookupHasEvent ==
    ASSUME Recorded, NEW h \in Answers, NEW k \in LookupMarks(h)
    PROVE  \E e \in DnsEvents : LookupOf(e, h, k)
<1>1. h \in happened /\ IsIncident(h.incident) /\ Timed(h) /\ h.incident.what \in Statuses
      /\ h.incident.ip # Loopback
  BY AnswersAre
<1>2. DOMAIN LinesOf(h.incident) = IF h.incident.ip \in Segment THEN 1..5 ELSE 1..1
  BY <1>1, OutsideLines, SegmentLines
<1>3. k \in DOMAIN LinesOf(h.incident)
  BY <1>2 DEF LookupMarks
<1>4. PICK e : LookupOf(e, h, k)
  BY <1>3, MarkTells
<1>5. e \in Events(Log) /\ e.kind = "dns"
  BY <1>1, <1>3, <1>4, EventsAre DEF LookupOf, Answering
<1> QED BY <1>4, <1>5 DEF DnsEvents, Dns, OfKind

\* The lookups that are asked by an address are those with an event of it.
LEMMA AskersAre ==
    ASSUME NEW h \in Answers, NEW address
    PROVE  h \in AskedBy(address) <=> \E k \in LookupMarks(h) : Asker(h, k) = address
<1>1. CASE h.incident.ip \in Segment
  BY <1>1 DEF AskedBy, LookupMarks, Asker
<1>2. CASE h.incident.ip \notin Segment
  BY <1>2 DEF AskedBy, LookupMarks, Asker
<1> QED BY <1>1, <1>2

\* What an event says of its lookup.
LEMMA LookupSaysOf ==
    ASSUME NEW e, NEW h, NEW k, LookupOf(e, h, k)
    PROVE  /\ e.id = <<h, k>> /\ e.id[1] = h /\ e.ip = Asker(h, k)
           /\ e.domain = h.incident.domain /\ e.detail = h.incident.detail
<1>1. e.id = <<h, k>>
  BY DEF LookupOf, Answering
<1> QED BY <1>1 DEF LookupOf, Answering

LEMMA BehindLookup ==
    ASSUME Recorded, NEW e \in DnsEvents
    PROVE  LET h == Behind(e)
           IN  /\ h \in Answers /\ h \in AskedBy(e.ip)
               /\ e.domain = h.incident.domain /\ e.detail = h.incident.detail
               /\ \E k \in LookupMarks(h) : LookupOf(e, h, k)
<1>1. PICK h \in Answers : \E k \in LookupMarks(h) : LookupOf(e, h, k)
  BY EventOfLookup
<1>2. PICK k \in LookupMarks(h) : LookupOf(e, h, k)
  BY <1>1
<1>3. Behind(e) = h /\ e.ip = Asker(h, k)
  BY <1>2, LookupSaysOf DEF Behind
<1>4. h \in AskedBy(e.ip)
  BY <1>2, <1>3, AskersAre
<1> QED BY <1>2, <1>3, <1>4, LookupSaysOf

LEMMA AskedHasEvent ==
    ASSUME Recorded, NEW address, NEW h \in AskedBy(address)
    PROVE  \E e \in DnsEvents : Behind(e) = h /\ e.ip = address
<1>1. h \in Answers
  BY DEF AskedBy
<1>2. PICK k \in LookupMarks(h) : Asker(h, k) = address
  BY <1>1, AskersAre
<1>3. PICK e \in DnsEvents : LookupOf(e, h, k)
  BY <1>1, LookupHasEvent
<1> QED BY <1>2, <1>3, LookupSaysOf DEF Behind

LEMMA EgressTold == Recorded /\ Analysed => (report.made => EgressIsTold)
<1> SUFFICES ASSUME Recorded, Analysed, report.made, NEW z \in DOMAIN Expected
             PROVE  LET names == {h.incident.domain : h \in {h \in Answers :
                                    \E a \in {h.incident.ip, Gateway} : zone_of(a) = z /\ h \in AskedBy(a)}}
                        unexpected == {d \in names : /\ Expected[z] # {}
                                                     /\ ~ IsUnder(Labels[d], Expected[z])
                                                     /\ ~ IsBenign(Labels[d])}
                        told == report.egress[z]
                    IN  /\ told.count = Cardinality(unexpected) /\ told.domains \subseteq unexpected
                        /\ unexpected # {} => told.domains # {}
                        /\ Cardinality(unexpected) <= EgressShown => told.domains = unexpected
  BY Zenon DEF EgressIsTold
<1> DEFINE asked == {h \in Answers :
                        \E a \in {h.incident.ip, Gateway} : zone_of(a) = z /\ h \in AskedBy(a)}
           names == {h.incident.domain : h \in asked}
           odd(D) == {d \in D : /\ Expected[z] # {} /\ ~ IsUnder(Labels[d], Expected[z])
                                /\ ~ IsBenign(Labels[d])}
           dns == OfKind(Events(Log), "dns")
           its == {ev \in dns : zone_of(ev.ip) = z}
           rank == [d \in odd(Distinct(its, "domain")) |->
                       Hits(its, "domain", d) * (Cardinality(dns) + 1) + Hits(dns, "domain", d)]
           told == report.egress[z]
<1>1. Distinct(its, "domain") = names
  <2>1. ASSUME NEW e \in its PROVE e.domain \in names /\ e.domain # NoValue
    <3>1. e \in DnsEvents /\ zone_of(e.ip) = z
      BY DEF DnsEvents, Dns
    <3>2. /\ Behind(e) \in Answers /\ Behind(e) \in AskedBy(e.ip)
          /\ e.domain = Behind(e).incident.domain
          /\ \E k \in LookupMarks(Behind(e)) : LookupOf(e, Behind(e), k)
      BY <3>1, BehindLookup
    <3>3. e.ip \in {Behind(e).incident.ip, Gateway}
      BY <3>2 DEF LookupOf, Asker
    <3>4. Behind(e) \in asked
      BY <3>1, <3>2, <3>3
    <3> QED BY <3>2, <3>4, AnswersAre
  <2>2. ASSUME NEW h \in asked PROVE \E e \in its : e.domain = h.incident.domain
    <3>1. PICK a : zone_of(a) = z /\ h \in AskedBy(a)
      OBVIOUS
    <3>2. PICK e \in DnsEvents : Behind(e) = h /\ e.ip = a
      BY <3>1, AskedHasEvent
    <3>3. e.domain = h.incident.domain
      BY <3>2, BehindLookup
    <3> QED BY <3>1, <3>2, <3>3 DEF DnsEvents, Dns
  <2>3. Distinct(its, "domain") = {e.domain : e \in its} \ {NoValue}
    BY Columns DEF Distinct
  <2> HIDE DEF its, asked
  <2> QED BY <2>1, <2>2, <2>3
<1>2. IsFiniteSet(names)
  <2> DEFINE f == [h \in asked |-> h.incident.domain]
  <2>1. names = {f[h] : h \in asked}
    OBVIOUS
  <2>2. IsFiniteSet(asked)
    BY AnswersAre, FS_Subset
  <2> HIDE DEF f, names, asked
  <2> QED BY <2>1, <2>2, ImageIsSmall
<1>3. odd(Distinct(its, "domain")) = odd(names) /\ IsFiniteSet(odd(names))
  <2> HIDE DEF names, its
  <2> QED BY <1>1, <1>2, FS_Subset
<1>4. PICK T \in Leading(EgressShown, odd(Distinct(its, "domain")), rank) :
         told = [count |-> Cardinality(odd(Distinct(its, "domain"))), domains |-> T]
  <2>1. told \in UnexpectedEgress(Events(Log), z)
    BY DEF Analysed
  <2>2. UnexpectedEgress(Events(Log), z) =
           {[count |-> Cardinality(odd(Distinct(its, "domain"))), domains |-> T] :
               T \in Leading(EgressShown, odd(Distinct(its, "domain")), rank)}
    BY Zenon DEF UnexpectedEgress
  <2> HIDE DEF odd, its, rank, told
  <2> QED BY <2>1, <2>2
<1> HIDE DEF odd, its, rank, names
<1>5. told.count = Cardinality(odd(names)) /\ told.domains = T /\ T \in Leading(EgressShown, odd(names), rank)
  BY <1>3, <1>4
<1>6. EgressShown \in Nat /\ EgressShown # 0
  BY TrafficAssumption
<1>7. /\ told.domains \subseteq odd(names) /\ (odd(names) # {} => told.domains # {})
      /\ Cardinality(odd(names)) <= EgressShown => told.domains = odd(names)
  BY <1>3, <1>5, <1>6, LeadersAre
<1> QED BY <1>5, <1>7 DEF odd, names

-----------------------------------------------------------------------------
(* TTLs *)

\* The lowest and the highest of finitely many numbers.
LEMMA Extremes ==
    ASSUME NEW S \in SUBSET Nat, IsFiniteSet(S), S # {}
    PROVE  /\ Min(S) \in S /\ \A x \in S : Min(S) <= x
           /\ Max(S) \in S /\ \A x \in S : x <= Max(S)
<1> DEFINE P == {T \in SUBSET S : T = {} \/ /\ \E x \in T : \A y \in T : x <= y
                                            /\ \E x \in T : \A y \in T : x >= y}
<1>1. {} \in P
  OBVIOUS
<1>2. ASSUME NEW T \in SUBSET S, NEW x \in S \ T, T \in P PROVE T \cup {x} \in P
  <2>1. x \in Nat /\ T \subseteq Nat
    OBVIOUS
  <2>2. CASE T = {}
    BY <2>1, <2>2
  <2>3. CASE T # {}
    <3>1. PICK m \in T : \A y \in T : m <= y
      BY <1>2, <2>3
    <3>2. PICK n \in T : \A y \in T : n >= y
      BY <1>2, <2>3
    <3>3. \E z \in T \cup {x} : \A y \in T \cup {x} : z <= y
      <4>1. CASE x <= m
        BY <2>1, <3>1, <4>1
      <4>2. CASE m <= x
        BY <2>1, <3>1, <4>2
      <4> QED BY <2>1, <3>1, <4>1, <4>2
    <3>4. \E z \in T \cup {x} : \A y \in T \cup {x} : z >= y
      <4>1. CASE x >= n
        BY <2>1, <3>2, <4>1
      <4>2. CASE n >= x
        BY <2>1, <3>2, <4>2
      <4> QED BY <2>1, <3>2, <4>1, <4>2
    <3> QED BY <3>3, <3>4
  <2> QED BY <2>2, <2>3
<1> HIDE DEF P
<1>3. S \in P
  BY <1>1, <1>2, SetInduction
<1>4. (\E x \in S : \A y \in S : x <= y) /\ (\E x \in S : \A y \in S : x >= y)
  BY <1>3 DEF P
<1>5. Min(S) \in S /\ \A x \in S : Min(S) <= x
  BY Zenon, <1>4 DEF Min
<1>6. Max(S) \in S /\ \A x \in S : Max(S) >= x
  BY Zenon, <1>4 DEF Max
<1> QED BY <1>5, <1>6

\* The TTLs of packets are those of their events.
TtlsOf(h) == h.incident.ttl..(h.incident.ttl + h.incident.tries - 1)

LEMMA Shifted ==
    ASSUME NEW a \in Nat, NEW n \in Nat
    PROVE  /\ \A k \in 1..n : a + k - 1 \in a..(a + n - 1)
           /\ \A t \in a..(a + n - 1) : t - a + 1 \in 1..n /\ a + (t - a + 1) - 1 = t
OBVIOUS

LEMMA PacketTyped ==
    ASSUME Recorded, NEW h \in Packets
    PROVE  h.incident.ttl \in Nat \ {0} /\ h.incident.tries \in Nat \ {0} /\ h.ts \in Nat
<1>1. IsIncident(h.incident) /\ Timed(h)
  BY PacketsAre
<1> QED BY <1>1, IncidentTyped DEF Timed

LEMMA TtlsAre ==
    ASSUME Recorded, NEW W \in SUBSET Packets, NEW F, F = {e \in Fw : Behind(e) \in W}
    PROVE  /\ {e.ttl : e \in F} = UNION {TtlsOf(h) : h \in W}
           /\ IsFiniteSet(UNION {TtlsOf(h) : h \in W})
           /\ UNION {TtlsOf(h) : h \in W} \subseteq Nat \ {0}
<1>1. ASSUME NEW h \in W, NEW k \in 1..h.incident.tries
      PROVE  h.incident.ttl + k - 1 \in TtlsOf(h)
  BY PacketTyped, Shifted DEF TtlsOf
<1>2. ASSUME NEW h \in W, NEW t \in TtlsOf(h)
      PROVE  \E k \in 1..h.incident.tries : t = h.incident.ttl + k - 1
  BY PacketTyped, Shifted DEF TtlsOf
<1>3. ASSUME NEW e \in F PROVE \E h \in W : e.ttl \in TtlsOf(h)
  <2>1. PICK k \in 1..Behind(e).incident.tries : PacketOf(e, Behind(e), k)
    BY BehindIs
  <2>2. e.ttl = Behind(e).incident.ttl + k - 1
    BY <2>1, PacketSays
  <2> QED BY <1>1, <2>1, <2>2
<1>4. ASSUME NEW h \in W, NEW t \in TtlsOf(h) PROVE \E e \in F : e.ttl = t
  <2>1. PICK k \in 1..h.incident.tries : t = h.incident.ttl + k - 1
    BY <1>2
  <2>2. PICK e \in Fw : PacketOf(e, h, k)
    BY <2>1, PacketHasEvent
  <2>3. Behind(e) = h /\ e.ttl = t
    BY <2>1, <2>2, PacketSays DEF Behind
  <2> QED BY <2>2, <2>3
<1>5. {e.ttl : e \in F} = UNION {TtlsOf(h) : h \in W}
  BY <1>3, <1>4
<1>6. IsFiniteSet({e.ttl : e \in F})
  <2> DEFINE f == [e \in F |-> e.ttl]
  <2>1. {e.ttl : e \in F} = {f[e] : e \in F}
    OBVIOUS
  <2>2. IsFiniteSet(F)
    BY PacketsCount
  <2> HIDE DEF f
  <2>3. IsFiniteSet({f[e] : e \in F})
    BY ONLY <2>2, ImageIsSmall
  <2> QED BY ONLY <2>1, <2>3
<1>7. UNION {TtlsOf(h) : h \in W} \subseteq Nat \ {0}
  BY PacketTyped DEF TtlsOf
<1> QED BY <1>5, <1>6, <1>7

LEMMA OneToN ==
    ASSUME NEW n \in Nat
    PROVE  IsFiniteSet(1..n) /\ Cardinality(1..n) = n
BY FS_Interval

LEMMA TwoAreMore ==
    ASSUME NEW S, IsFiniteSet(S), NEW x \in S, NEW y \in S, x # y
    PROVE  Cardinality(S) > 1
<1>1. IsFiniteSet({x}) /\ Cardinality({x}) = 1
  BY FS_Singleton
<1>2. IsFiniteSet({x} \cup {y}) /\ Cardinality({x} \cup {y}) = 2
  <2> DEFINE X == {x}
  <2>1. y \notin X
    OBVIOUS
  <2>2. IsFiniteSet(X) /\ Cardinality(X) = 1
    BY <1>1
  <2> HIDE DEF X
  <2>3. IsFiniteSet(X \cup {y}) /\ Cardinality(X \cup {y}) = Cardinality(X) + 1
    BY ONLY <2>1, <2>2, FS_AddElement
  <2> QED BY ONLY <2>2, <2>3 DEF X
<1>3. {x} \cup {y} \subseteq S
  OBVIOUS
<1>4. Cardinality({x} \cup {y}) <= Cardinality(S) /\ Cardinality(S) \in Nat
  BY <1>3, SubsetIsSmall
<1> QED BY <1>2, <1>4

\* A packet sent often is not sent less often for others beside it.
LEMMA TriesGrow ==
    ASSUME Recorded, NEW R \in SUBSET Packets, NEW S \in SUBSET R
    PROVE  Tries(S) <= Tries(R)
<1> DEFINE E(T) == {e \in Fw : Behind(e) \in T}
<1>1. IsFiniteSet(E(R)) /\ Cardinality(E(R)) = Tries(R) /\ Cardinality(E(S)) = Tries(S)
  BY PacketsCount
<1>2. E(S) \subseteq E(R)
  OBVIOUS
<1> HIDE DEF E
<1> QED BY <1>1, <1>2, SubsetIsSmall

LEMMA TriesHold ==
    ASSUME Recorded, NEW R \in SUBSET Packets, NEW h \in R
    PROVE  h.incident.tries <= Tries(R) /\ Tries(R) \in Nat
<1> DEFINE n == h.incident.tries
           T == {h}
           u == Units(TriesOf(T), T)
<1>1. n \in Nat
  BY PacketTyped
<1>2. IsFiniteSet(T) /\ \A g \in T : g.incident.tries \in Nat
  BY <1>1, FS_Singleton
<1>3. Tries(T) = Cardinality(Fibres(u, T))
  BY <1>2, TriesAreUnits DEF Tries
<1>4. Fibres(u, T) = {<<h, k>> : k \in 1..n}
  BY DEF Fibres, Units, TriesOf
<1>5. IsFiniteSet(1..n) /\ Cardinality(1..n) = n
  <2> HIDE DEF n
  <2> QED BY <1>1, OneToN
<1>6. Cardinality(Fibres(u, T)) = n
  <2>1. IsFiniteSet(1..n)
    BY <1>5
  <2> HIDE DEF n, u
  <2>2. Cardinality({<<h, k>> : k \in 1..n}) = Cardinality(1..n)
    BY ONLY <2>1, OneFibre
  <2> QED BY ONLY <1>4, <1>5, <2>2
<1>7. Tries(T) <= Tries(R) /\ Tries(R) \in Nat
  BY TriesGrow, PacketsCount
<1> QED BY <1>3, <1>6, <1>7

-----------------------------------------------------------------------------
(* Packets turned away *)

Dropped == Those({"drop"})

\* The drops are the events of what was dropped.
LEMMA DropsAre ==
    ASSUME Recorded
    PROVE  Dropped \in SUBSET Packets /\ Drops(Events(Log)) = {e \in Fw : Behind(e) \in Dropped}
<1>1. Dropped \subseteq Packets
  BY DEF Dropped, Packets, Those, Verdicts
<1>2. \A h \in Packets : h \in Dropped <=> h.incident.what = "drop"
  BY PacketsAre DEF Dropped, Those
<1>3. \A e \in Fw : Behind(e) \in Packets /\ e.action = Behind(e).incident.what
  BY BehindIs
<1>4. \A e : e \in Drops(Events(Log)) <=> e \in Fw /\ e.action = "drop"
  BY DEF Drops, WithAction, Fw, Firewall
<1> QED BY <1>1, <1>2, <1>3, <1>4

LEMMA SteppingTold == Recorded /\ Analysed => (report.made => SteppingIsTold)
<1> SUFFICES ASSUME Recorded, Analysed, report.made PROVE SteppingIsTold
  OBVIOUS
<1> DEFINE W == {h \in Those({"drop"}) : h.incident.detail = "udp"}
           senders == {h.incident.ip : h \in W}
           ttls(src) == UNION {h.incident.ttl..(h.incident.ttl + h.incident.tries - 1) :
                                  h \in {h \in W : h.incident.ip = src}}
           udp == {ev \in Drops(Events(Log)) : ev.detail = "udp"}
           ttlsF(ip) == {ev.ttl : ev \in {x \in udp : x.ip = ip}}
           low(ip) == Min(ttlsF(ip)) <= SteppedLow
           far(ip) == Max(ttlsF(ip)) - Min(ttlsF(ip)) >= SteppedRange
           often(ip) == Hits(udp, "ip", ip) >= SteppedHits
<1>1. PICK T \in Top(udp, "ip", SteppedLimit) : report.stepped = {ip \in T : low(ip) /\ far(ip) /\ often(ip)}
  BY DEF Analysed, SteppedTtl
<1>2. W \in SUBSET Packets /\ udp = {e \in Fw : Behind(e) \in W}
  <2>1. \A e \in Fw : e.detail = Behind(e).incident.detail
    BY BehindIs
  <2> QED BY <2>1, DropsAre DEF Dropped
<1>3. Distinct(udp, "ip") = senders /\ IsFiniteSet(senders)
  BY <1>2, SourcesAre
<1>4. T \subseteq senders
  BY <1>1, <1>3, TopWithin
<1>5. ASSUME NEW src
      PROVE  /\ ttlsF(src) = ttls(src) /\ IsFiniteSet(ttls(src)) /\ ttls(src) \subseteq Nat
             /\ Hits(udp, "ip", src) = Tries(From(W, src)) /\ Tries(From(W, src)) \in Nat
  <2> DEFINE R == From(W, src)
             E == {e \in Fw : Behind(e) \in R}
  <2>1. R \in SUBSET Packets /\ R = {h \in W : h.incident.ip = src}
    BY <1>2 DEF From
  <2>2. {x \in udp : x.ip = src} = E
    <3>1. \A e \in Fw : e.ip = Behind(e).incident.ip
      BY BehindIs
    <3> QED BY <1>2, <2>1, <3>1
  <2>3. ttls(src) = UNION {TtlsOf(h) : h \in R}
    BY <2>1 DEF TtlsOf
  <2>4. /\ {e.ttl : e \in E} = UNION {TtlsOf(h) : h \in R}
        /\ IsFiniteSet(UNION {TtlsOf(h) : h \in R})
        /\ UNION {TtlsOf(h) : h \in R} \subseteq Nat \ {0}
    <3> HIDE DEF R
    <3> QED BY <2>1, TtlsAre
  <2>5. Hits(udp, "ip", src) = Tries(From(W, src)) /\ Tries(From(W, src)) \in Nat
    <3> HIDE DEF W, udp, R, E
    <3> QED BY <1>2, SourcesSend
  <2> HIDE DEF E, R, ttls
  <2> QED BY <2>2, <2>3, <2>4, <2>5
<1>6. ASSUME NEW src \in report.stepped PROVE src \in senders /\ Cardinality(ttls(src)) > 1
  <2>1. src \in T /\ far(src)
    BY <1>1, <1>6
  <2> DEFINE S == ttls(src)
  <2>2. S # {}
    <3>1. PICK h \in W : h.incident.ip = src
      BY <1>4, <2>1
    <3>2. h.incident.ttl \in Nat /\ h.incident.tries \in Nat \ {0}
      BY <1>2, PacketTyped
    <3>3. h.incident.ttl \in h.incident.ttl..(h.incident.ttl + h.incident.tries - 1)
      BY <3>2
    <3> QED BY <3>1, <3>3
  <2>3. ttlsF(src) = S /\ IsFiniteSet(S) /\ S \in SUBSET Nat
    BY <1>5
  <2>4. Max(S) - Min(S) >= SteppedRange /\ SteppedRange \in Nat \ {0}
    BY <2>1, <2>3, PatternsAssumption
  <2>5. Cardinality(S) > 1
    <3> HIDE DEF S
    <3>1. Min(S) \in S /\ Max(S) \in S
      BY <2>2, <2>3, Extremes
    <3>2. Min(S) \in Nat /\ Max(S) \in Nat
      BY <2>3, <3>1
    <3>3. Min(S) # Max(S)
      BY ONLY <2>4, <3>2
    <3> QED BY <2>3, <3>1, <3>3, TwoAreMore
  <2> QED BY <1>4, <2>1, <2>5
<1>7. ASSUME NEW h \in W, Cardinality(senders) <= SteppedLimit, h.incident.ttl <= SteppedLow,
             h.incident.tries > SteppedRange, h.incident.tries >= SteppedHits
      PROVE  h.incident.ip \in report.stepped
  <2> DEFINE src == h.incident.ip
             a == h.incident.ttl
             n == h.incident.tries
             S == ttls(src)
  <2>1. T = senders
    <3>1. T \in kSubset(AtMost(SteppedLimit, senders), senders)
      BY Zenon, <1>1, <1>3 DEF Top
    <3>2. SteppedLimit \in Nat
      BY PatternsAssumption
    <3> HIDE DEF senders
    <3> QED BY <1>3, <1>7, <3>1, <3>2, NoCut
  <2>2. a \in Nat /\ n \in Nat \ {0}
    BY <1>2, PacketTyped
  <2>3. a..(a + n - 1) \subseteq S
    OBVIOUS
  <2>4. a \in S /\ a + n - 1 \in S
    <3> HIDE DEF S, a, n
    <3> QED BY ONLY <2>2, <2>3
  <2>5. ttlsF(src) = S /\ IsFiniteSet(S) /\ S \in SUBSET Nat
    BY <1>5
  <2>6. Min(S) <= a /\ a + n - 1 <= Max(S) /\ Min(S) \in Nat /\ Max(S) \in Nat
    <3> HIDE DEF S
    <3> QED BY <2>4, <2>5, Extremes
  <2>7. n <= Tries(From(W, src)) /\ Tries(From(W, src)) \in Nat
    <3>1. h \in From(W, src) /\ From(W, src) \in SUBSET Packets
      BY <1>2 DEF From
    <3> HIDE DEF W, src
    <3> QED BY <3>1, TriesHold
  <2>8. Hits(udp, "ip", src) = Tries(From(W, src))
    BY <1>5
  <2>9. a <= SteppedLow /\ n > SteppedRange /\ n >= SteppedHits
    BY <1>7
  <2>10. SteppedLow \in Nat /\ SteppedRange \in Nat /\ SteppedHits \in Nat
    BY PatternsAssumption
  <2> HIDE DEF S, a, n, ttls, W, udp
  <2>11. low(src) /\ far(src) /\ often(src)
    <3>1. Min(S) <= SteppedLow /\ Max(S) - Min(S) >= SteppedRange
      BY ONLY <2>2, <2>6, <2>9, <2>10
    <3>2. Tries(From(W, src)) >= SteppedHits
      BY ONLY <2>2, <2>7, <2>9, <2>10
    <3> HIDE DEF src
    <3> QED BY <2>5, <2>8, <3>1, <3>2
  <2>12. src \in T
    BY <2>1
  <2> QED BY <1>1, <2>11, <2>12
<1> HIDE DEF ttlsF, low, far, often, udp
<1> QED BY <1>6, <1>7 DEF SteppingIsTold

-----------------------------------------------------------------------------
(* Routes traced *)

\* A ladder is long enough if the rungs from the lowest one on are there.
LEMMA LaddersAre ==
    ASSUME NEW S \in SUBSET Nat, IsFiniteSet(S)
    PROVE  ladder_length(S) >= LadderMinHops <=>
              S # {} /\ Min(S) <= LadderMaxStart /\ Min(S)..(Min(S) + LadderMinHops - 1) \subseteq S
<1> DEFINE m == Min(S)
           c == Cardinality(S)
           k == LadderMinHops
           N == {n \in 1..c : m..(m + n - 1) \subseteq S}
<1>1. k \in Nat \ {0} /\ LadderMaxStart \in Nat
  BY TrafficAssumption
<1>2. CASE S = {} \/ m > LadderMaxStart
  <2>1. ladder_length(S) = 0
    BY <1>2 DEF ladder_length
  <2>2. S # {} => m \in Nat
    BY Extremes
  <2>5. S # {} => m > LadderMaxStart
    BY <1>2
  <2> HIDE DEF m, k
  <2>3. ~ (0 >= k)
    BY ONLY <1>1
  <2>4. S # {} => ~ (m <= LadderMaxStart)
    BY ONLY <1>1, <2>2, <2>5
  <2> QED BY ONLY <2>1, <2>3, <2>4 DEF m, k
<1>3. CASE S # {} /\ ~ (m > LadderMaxStart)
  <2>1. ladder_length(S) = Max(N)
    BY Zenon, <1>3 DEF ladder_length
  <2>2. m \in S /\ m \in Nat /\ m <= LadderMaxStart
    <3>1. m \in S /\ m \in Nat
      BY <1>3, Extremes
    <3> HIDE DEF m
    <3> QED BY <1>1, <1>3, <3>1
  <2>3. c \in Nat
    BY FS_CardinalityType
  <2>4. IsFiniteSet({m}) /\ Cardinality({m}) = 1 /\ {m} \subseteq S
    BY <2>2, FS_Singleton
  <2>5. c >= 1
    <3>1. Cardinality({m}) <= c
      BY <2>4, SubsetIsSmall
    <3> HIDE DEF c, m
    <3> QED BY ONLY <2>3, <2>4, <3>1
  <2> HIDE DEF c, m, k
  <2>6. 1 \in N
    BY <2>2, <2>3, <2>5
  <2>7. N \in SUBSET Nat /\ IsFiniteSet(N)
    <3>1. IsFiniteSet(1..c)
      BY <2>3, OneToN
    <3> QED BY <2>3, <3>1, FS_Subset
  <2>8. Max(N) \in N /\ \A x \in N : x <= Max(N)
    <3> HIDE DEF N
    <3> QED BY <2>6, <2>7, Extremes
  <2>9. ASSUME Max(N) >= k PROVE m..(m + k - 1) \subseteq S
    <3> DEFINE n == Max(N)
    <3>1. n \in Nat /\ m..(m + n - 1) \subseteq S /\ n >= k
      BY <2>7, <2>8, <2>9
    <3> HIDE DEF n
    <3>2. m..(m + k - 1) \subseteq m..(m + n - 1)
      BY ONLY <1>1, <2>2, <3>1
    <3> QED BY <3>1, <3>2
  <2>10. ASSUME m..(m + k - 1) \subseteq S PROVE Max(N) >= k
    <3>1. IsFiniteSet(m..(m + k - 1)) /\ Cardinality(m..(m + k - 1)) = k
      BY ONLY <1>1, <2>2, FS_Interval
    <3>2. Cardinality(m..(m + k - 1)) <= Cardinality(S)
      BY <2>10, SubsetIsSmall
    <3>3. k <= c
      BY ONLY <3>1, <3>2 DEF c
    <3>4. k \in N
      BY <1>1, <2>3, <2>10, <3>3
    <3> HIDE DEF N
    <3>5. k <= Max(N) /\ Max(N) \in Nat
      BY <2>7, <2>8, <3>4
    <3> QED BY ONLY <1>1, <3>5
  <2> HIDE DEF N
  <2>11. Max(N) >= k <=> m..(m + k - 1) \subseteq S
    BY <2>9, <2>10
  <2> QED BY ONLY <1>3, <2>1, <2>2, <2>11 DEF m, k
<1> QED BY <1>2, <1>3

\* The TTLs on a route, and those that are looked at.
LEMMA TtlsOnRoute ==
    ASSUME Recorded, NEW a, NEW b, NEW p
    PROVE  LET S == Ttls(a, b, p)
           IN  /\ S \in SUBSET Nat /\ IsFiniteSet(S) /\ 0 \notin S
               /\ LowTtls(Events(Log), <<a, b, p>>) = {x \in S : x <= LadderMaxTtl}
<1> DEFINE R == {h \in Packets : Route(h) = <<a, b>> /\ h.incident.detail = p}
           E == {e \in Fw : Behind(e) \in R}
           S == Ttls(a, b, p)
<1>1. S = UNION {TtlsOf(h) : h \in R}
  BY Zenon DEF Ttls, TtlsOf
<1>2. R \in SUBSET Packets
  OBVIOUS
<1>3. {e.ttl : e \in E} = S /\ IsFiniteSet(S) /\ S \subseteq Nat \ {0}
  <2> HIDE DEF R, S
  <2> QED BY <1>1, <1>2, TtlsAre
<1>4. \A e \in Fw : Trace(e) = <<a, b, p>> <=> Behind(e) \in R
  <2> TAKE e \in Fw
  <2>1. /\ Behind(e) \in Packets /\ e.ip = Behind(e).incident.ip /\ e.dst = Behind(e).incident.dst
        /\ e.detail = Behind(e).incident.detail
    BY BehindIs
  <2> QED BY <2>1 DEF Trace, Route
<1>5. LowTtls(Events(Log), <<a, b, p>>) =
        {e.ttl : e \in {x \in Fw : Trace(x) = <<a, b, p>> /\ x.ttl <= LadderMaxTtl}}
  BY Zenon DEF LowTtls, Fw
<1> HIDE DEF R, S
<1>6. {x \in Fw : Trace(x) = <<a, b, p>> /\ x.ttl <= LadderMaxTtl} = {e \in E : e.ttl <= LadderMaxTtl}
  BY <1>4
<1>7. {e.ttl : e \in {e \in E : e.ttl <= LadderMaxTtl}} = {x \in S : x <= LadderMaxTtl}
  <2> HIDE DEF E
  <2> QED BY <1>3
<1>8. LowTtls(Events(Log), <<a, b, p>>) = {x \in S : x <= LadderMaxTtl}
  BY <1>5, <1>6, <1>7
<1> QED BY <1>3, <1>8 DEF S

\* A ladder that is told of, and one that must be.
LEMMA LaddersTold ==
    ASSUME Recorded, NEW t \in _ladders(Events(Log))
    PROVE  \E from \in 1..LadderMaxStart : from..(from + LadderMinHops - 1) \subseteq Ttls(t[1], t[2], t[3])
<1>1. PICK e \in Fw : t = Trace(e) /\ ladder_length(LowTtls(Events(Log), t)) >= LadderMinHops
  BY DEF _ladders, Fw
<1>2. t = <<t[1], t[2], t[3]>>
  BY <1>1 DEF Trace
<1> DEFINE S == Ttls(t[1], t[2], t[3])
           L == LowTtls(Events(Log), t)
<1>3. S \in SUBSET Nat /\ IsFiniteSet(S) /\ 0 \notin S /\ L = {x \in S : x <= LadderMaxTtl}
  BY <1>2, TtlsOnRoute
<1> HIDE DEF S
<1>4. L \in SUBSET Nat /\ IsFiniteSet(L) /\ 0 \notin L /\ L \subseteq S
  BY <1>3, FS_Subset
<1>5. L # {} /\ Min(L) <= LadderMaxStart /\ Min(L)..(Min(L) + LadderMinHops - 1) \subseteq L
  <2> HIDE DEF L
  <2> QED BY <1>1, <1>4, LaddersAre DEF L
<1> HIDE DEF L
<1>6. Min(L) \in L
  BY <1>4, <1>5, Extremes
<1>7. Min(L) \in 1..LadderMaxStart
  <2> DEFINE m == Min(L)
  <2>1. m \in Nat /\ m # 0 /\ m <= LadderMaxStart /\ LadderMaxStart \in Nat
    BY <1>4, <1>5, <1>6, TrafficAssumption
  <2> HIDE DEF m
  <2>2. m \in 1..LadderMaxStart
    BY ONLY <2>1
  <2> QED BY <2>2 DEF m
<1> QED BY <1>4, <1>5, <1>7 DEF S

LEMMA WholeLadders ==
    ASSUME Recorded, NEW h \in Packets,
           h.incident.ttl <= LadderMaxStart, h.incident.tries >= LadderMinHops,
           h.incident.ttl = Min(Ttls(h.incident.ip, h.incident.dst, h.incident.detail))
    PROVE  <<h.incident.ip, h.incident.dst, h.incident.detail>> \in _ladders(Events(Log))
<1> DEFINE i == h.incident
           t == <<i.ip, i.dst, i.detail>>
           a == i.ttl
           n == i.tries
           S == Ttls(i.ip, i.dst, i.detail)
           L == LowTtls(Events(Log), t)
           k == LadderMinHops
<1>1. S \in SUBSET Nat /\ IsFiniteSet(S) /\ L = {x \in S : x <= LadderMaxTtl}
  BY TtlsOnRoute
<1>2. a \in Nat /\ n \in Nat \ {0} /\ a <= LadderMaxStart /\ n >= k /\ a = Min(S)
  BY PacketTyped
<1>3. k \in Nat \ {0} /\ LadderMaxStart \in Nat /\ LadderMaxTtl \in Nat /\ LadderMaxStart + k <= LadderMaxTtl + 1
  BY TrafficAssumption
<1>4. a..(a + n - 1) \subseteq S
  BY DEF Ttls, Route
<1> HIDE DEF S, L, a, n, k
<1>5. a..(a + k - 1) \subseteq L
  <2>1. a..(a + k - 1) \subseteq a..(a + n - 1)
    BY ONLY <1>2, <1>3
  <2>2. \A x \in a..(a + k - 1) : x <= LadderMaxTtl
    BY ONLY <1>2, <1>3
  <2> QED BY <1>1, <1>4, <2>1, <2>2
<1>6. L \in SUBSET Nat /\ IsFiniteSet(L) /\ L \subseteq S
  BY <1>1, FS_Subset
<1>7. a \in L
  <2>1. a \in a..(a + k - 1)
    BY ONLY <1>2, <1>3
  <2> QED BY <1>5, <2>1
<1>8. Min(L) = a
  <2>1. Min(L) \in L /\ Min(L) <= a
    BY <1>6, <1>7, Extremes
  <2>2. S # {} /\ Min(L) \in S
    BY <1>6, <2>1
  <2>3. a <= Min(L)
    BY <1>1, <1>2, <2>2, Extremes
  <2>4. Min(L) \in Nat
    BY <1>6, <2>1
  <2> QED BY ONLY <1>2, <2>1, <2>3, <2>4
<1>9. ladder_length(L) >= k
  <2>1. L # {} /\ Min(L) <= LadderMaxStart /\ Min(L)..(Min(L) + k - 1) \subseteq L
    BY <1>2, <1>5, <1>7, <1>8
  <2> QED BY ONLY <1>6, <2>1, LaddersAre DEF k
<1>10. PICK e \in Fw : Behind(e) = h
  BY SomeEvent
<1>11. Trace(e) = t /\ NoValue \notin {e.ip, e.dst}
  <2>1. e.ip = i.ip /\ e.dst = i.dst /\ e.detail = i.detail
    BY <1>10, BehindIs
  <2>2. IsIncident(i) /\ i.what \in Verdicts
    BY PacketsAre
  <2>3. i.ip # NoValue /\ i.dst # NoValue
    BY Zenon, <2>2 DEF IsIncident
  <2> QED BY <2>1, <2>3 DEF Trace
<1> HIDE DEF t
<1>12. t \in {Trace(ev) : ev \in {x \in Firewall(Events(Log)) : NoValue \notin {x.ip, x.dst}}}
  BY <1>11 DEF Fw
<1>13. t \in _ladders(Events(Log))
  BY <1>9, <1>12 DEF _ladders, L, k
<1> QED BY <1>13 DEF t

LEMMA TracesTold == Recorded /\ Analysed => (report.made => TracesAreTold)
<1> SUFFICES ASSUME Recorded, Analysed, report.made PROVE TracesAreTold
  OBVIOUS
<1> DEFINE L == _ladders(Events(Log))
           crossing == {t \in L : IsInternal(t[1]) /\ IsInternal(t[2]) /\ zone_of(t[1]) # zone_of(t[2])}
           from(src) == {t \in crossing : t[1] = src}
           sev(src) == TraceSeverity(src, from(src))
           sig(src) == [src |-> src, traces |-> from(src), severity |-> sev(src)]
<1>1. report.traces = {sig(src) : src \in {t[1] : t \in crossing}}
  <2>1. report.traces = Traceroutes(Events(Log))
    BY DEF Analysed
  <2> QED BY Zenon, <2>1 DEF Traceroutes
<1>2. \A src : sig(src).src = src /\ sig(src).traces = from(src) /\ sig(src).severity = sev(src)
  OBVIOUS
<1> HIDE DEF sig, sev
<1>3. ASSUME NEW t \in report.traces, NEW x \in t.traces
      PROVE  /\ x[1] = t.src /\ IsInternal(x[1]) /\ IsInternal(x[2]) /\ zone_of(x[1]) # zone_of(x[2])
             /\ \E f \in 1..LadderMaxStart : f..(f + LadderMinHops - 1) \subseteq Ttls(x[1], x[2], x[3])
  <2>1. PICK src : t = sig(src)
    BY <1>1
  <2>2. t.src = src /\ x \in from(src)
    BY <1>2, <2>1
  <2>3. x \in L
    BY <2>2
  <2>4. \E f \in 1..LadderMaxStart : f..(f + LadderMinHops - 1) \subseteq Ttls(x[1], x[2], x[3])
    BY <2>3, LaddersTold
  <2> QED BY <2>2, <2>4
<1>4. ASSUME NEW h \in Packets, h.incident.ttl <= LadderMaxStart, h.incident.tries >= LadderMinHops,
             h.incident.ttl = Min(Ttls(h.incident.ip, h.incident.dst, h.incident.detail)),
             IsInternal(h.incident.ip), IsInternal(h.incident.dst),
             zone_of(h.incident.ip) # zone_of(h.incident.dst)
      PROVE  \E t \in report.traces :
                /\ <<h.incident.ip, h.incident.dst, h.incident.detail>> \in t.traces
                /\ _trust(zone_of(h.incident.ip)) = "untrusted" /\ _trust(zone_of(h.incident.dst)) = "trusted"
                    => t.severity = "MEDIUM"
  <2> DEFINE i == h.incident
             x == <<i.ip, i.dst, i.detail>>
  <2>1. x \in L
    BY <1>4, WholeLadders
  <2>2. x[1] = i.ip /\ x[2] = i.dst
    OBVIOUS
  <2> HIDE DEF x, L
  <2>3. x \in from(i.ip)
    BY <1>4, <2>1, <2>2
  <2>4. sig(i.ip) \in report.traces
    BY <1>1, <2>2, <2>3
  <2>5. ASSUME _trust(zone_of(i.ip)) = "untrusted", _trust(zone_of(i.dst)) = "trusted"
        PROVE  sev(i.ip) = "MEDIUM"
    BY <2>2, <2>3, <2>5 DEF sev, TraceSeverity, UNTRUSTED
  <2> HIDE DEF from
  <2> QED BY <1>2, <2>3, <2>4, <2>5 DEF x
<1> QED BY <1>3, <1>4 DEF TracesAreTold

-----------------------------------------------------------------------------
(* Bytes *)

\* Where the ones and the others are matched and have as many, they have as many in all.
LEMMA FibresMatch ==
    ASSUME NEW E, NEW R, IsFiniteSet(R), NEW b \in [E -> R],
           \A e, f \in E : b[e] = b[f] => e = f, \A h \in R : \E e \in E : b[e] = h,
           NEW u, NEW v, \A h \in R : IsFiniteSet(v[h]), \A e \in E : u[e] = v[b[e]]
    PROVE  Cardinality(Fibres(u, E)) = Cardinality(Fibres(v, R))
<1> DEFINE FE == Fibres(u, E)
           FR == Fibres(v, R)
           g == [p \in FE |-> <<b[p[1]], p[2]>>]
<1>1. \A p : p \in FE <=> \E e \in E : \E k \in u[e] : p = <<e, k>>
  BY DEF Fibres
<1>2. \A p : p \in FR <=> \E h \in R : \E k \in v[h] : p = <<h, k>>
  BY DEF Fibres
<1>3. IsFiniteSet(FR)
  BY FibresAreFinite
<1> HIDE DEF FE, FR
<1>4. \A p \in FE : p[1] \in E /\ p[2] \in u[p[1]] /\ p = <<p[1], p[2]>>
  BY <1>1
<1>5. \A p \in FE : g[p] = <<b[p[1]], p[2]>> /\ g[p] \in FR
  BY <1>2, <1>4
<1>6. ASSUME NEW p \in FE, NEW q \in FE, g[p] = g[q] PROVE p = q
  <2>1. b[p[1]] = b[q[1]] /\ p[2] = q[2]
    BY <1>5, <1>6
  <2>2. p[1] = q[1]
    BY <1>4, <2>1
  <2> QED BY <1>4, <2>1, <2>2
<1>7. ASSUME NEW r \in FR PROVE \E p \in FE : g[p] = r
  <2>5. PICK h \in R : \E k \in v[h] : r = <<h, k>>
    BY <1>2
  <2>1. PICK k \in v[h] : r = <<h, k>>
    BY <2>5
  <2>2. PICK e \in E : b[e] = h
    OBVIOUS
  <2>3. <<e, k>> \in FE
    BY <1>1, <2>1, <2>2
  <2>4. g[<<e, k>>] = r
    BY <2>1, <2>2, <2>3
  <2> QED BY <2>3, <2>4
<1>8. g \in [FE -> FR]
  BY <1>5
<1> HIDE DEF g
<1>9. g \in Injection(FE, FR) /\ g \in Surjection(FE, FR)
  BY <1>6, <1>7, <1>8 DEF Injection, IsInjective, Surjection
<1> QED BY <1>3, <1>9, FS_Injection DEF FE, FR

\* A sum of bytes is the number of all units, of incidents and of events.
LensOf(R) == [h \in R |-> h.incident.len]

LensFold(f, R) ==
    f = [s \in SUBSET R |-> IF s = {} THEN 0
            ELSE (CHOOSE x \in s : TRUE).incident.len + f[s \ {CHOOSE x \in s : TRUE}]]

LEMMA BytesAreUnits ==
    ASSUME NEW R, IsFiniteSet(R), \A h \in R : h.incident.len \in Nat
    PROVE  Bytes(R) = Cardinality(Fibres(Units(LensOf(R), R), R))
<1> DEFINE w == LensOf(R)
           it == CHOOSE f : LensFold(f, R)
<1>1. Bytes(R) = it[R]
  BY Zenon DEF Bytes, FoldSet, MapThenFoldSet, LensFold
<1>2. \A h \in R : w[h] = h.incident.len /\ w[h] \in Nat
  BY DEF LensOf
<1>3. ASSUME NEW f PROVE Folds_(f, w, R) <=> LensFold(f, R)
  <2>1. ASSUME NEW s \in SUBSET R
        PROVE  (IF s = {} THEN 0 ELSE w[CHOOSE x \in s : TRUE] + f[s \ {CHOOSE x \in s : TRUE}]) =
               (IF s = {} THEN 0
                ELSE (CHOOSE x \in s : TRUE).incident.len + f[s \ {CHOOSE x \in s : TRUE}])
    <3>1. s # {} => (CHOOSE x \in s : TRUE) \in R
      OBVIOUS
    <3> QED BY <1>2, <3>1
  <2> QED BY <2>1 DEF Folds_, LensFold
<1>4. \E f : Folds_(f, w, R)
  BY <1>2, FoldExists
<1>5. LensFold(it, R)
  BY <1>3, <1>4
<1>6. Folds_(it, w, R)
  BY <1>3, <1>5
<1> HIDE DEF w, it
<1>7. it[R] = Cardinality(Fibres(Units(w, R), R))
  BY <1>2, <1>6, FoldIsCount
<1> QED BY <1>1, <1>7 DEF w

EventLens(E) == [e \in E |-> e.len]

EventLensFold(f, E) ==
    f = [s \in SUBSET E |-> IF s = {} THEN 0
            ELSE (CHOOSE x \in s : TRUE).len + f[s \ {CHOOSE x \in s : TRUE}]]

LEMMA EventBytesAreUnits ==
    ASSUME NEW E, IsFiniteSet(E), \A e \in E : e.len \in Nat
    PROVE  FoldSet(LAMBDA ev, sum : ev.len + sum, 0, E)
              = Cardinality(Fibres(Units(EventLens(E), E), E))
<1> DEFINE w == EventLens(E)
           it == CHOOSE f : EventLensFold(f, E)
<1>1. FoldSet(LAMBDA ev, sum : ev.len + sum, 0, E) = it[E]
  BY Zenon DEF FoldSet, MapThenFoldSet, EventLensFold
<1>2. \A e \in E : w[e] = e.len /\ w[e] \in Nat
  BY DEF EventLens
<1>3. ASSUME NEW f PROVE Folds_(f, w, E) <=> EventLensFold(f, E)
  <2>1. ASSUME NEW s \in SUBSET E
        PROVE  (IF s = {} THEN 0 ELSE w[CHOOSE x \in s : TRUE] + f[s \ {CHOOSE x \in s : TRUE}]) =
               (IF s = {} THEN 0
                ELSE (CHOOSE x \in s : TRUE).len + f[s \ {CHOOSE x \in s : TRUE}])
    <3>1. s # {} => (CHOOSE x \in s : TRUE) \in E
      OBVIOUS
    <3> QED BY <1>2, <3>1
  <2> QED BY <2>1 DEF Folds_, EventLensFold
<1>4. \E f : Folds_(f, w, E)
  BY <1>2, FoldExists
<1>5. EventLensFold(it, E)
  BY <1>3, <1>4
<1>6. Folds_(it, w, E)
  BY <1>3, <1>5
<1> HIDE DEF w, it
<1>7. it[E] = Cardinality(Fibres(Units(w, E), E))
  BY <1>2, <1>6, FoldIsCount
<1> QED BY <1>1, <1>7 DEF w

\* What is let through is one event, and its bytes are the event's.
LEMMA PassedBytes ==
    ASSUME Recorded, NEW R \in SUBSET Those({"accept"}), NEW E, E = {e \in Fw : Behind(e) \in R}
    PROVE  FoldSet(LAMBDA ev, sum : ev.len + sum, 0, E) = Bytes(R) /\ Bytes(R) \in Nat
<1> DEFINE b == [e \in E |-> Behind(e)]
           u == Units(EventLens(E), E)
           v == Units(LensOf(R), R)
<1>1. R \in SUBSET Packets
  BY DEF Packets, Those, Verdicts
<1>2. IsFiniteSet(R) /\ IsFiniteSet(E)
  BY <1>1, PacketsAre, PacketsCount, FS_Subset
<1>3. \A h \in R : h.incident.len \in Nat /\ h.incident.tries = 1
  <2> TAKE h \in R
  <2>1. IsIncident(h.incident) /\ h.incident.what = "accept"
    BY <1>1, PacketsAre DEF Those
  <2>2. h.incident.what \notin {"drop", "reject", "dropbear guess"}
    BY <2>1
  <2>3. h.incident.tries = 1
    BY Zenon, <2>1, <2>2 DEF IsIncident
  <2> QED BY <2>1, <2>3, IncidentTyped
<1>4. \A e \in E : /\ Behind(e) \in R /\ e.len = Behind(e).incident.len
                   /\ \E k \in 1..Behind(e).incident.tries : PacketOf(e, Behind(e), k)
  BY BehindIs
<1>5. ASSUME NEW e \in E, NEW f \in E, Behind(e) = Behind(f) PROVE e = f
  <2>1. Behind(e).incident.tries = 1 /\ Behind(f).incident.tries = 1
    BY <1>3, <1>4
  <2>2. PICK k \in 1..1 : PacketOf(e, Behind(e), k)
    BY <1>4, <2>1
  <2>3. PICK m \in 1..1 : PacketOf(f, Behind(f), m)
    BY <1>4, <2>1
  <2>4. k = m
    BY ONLY <2>2, <2>3
  <2>5. {e} = {f}
    BY ONLY <1>5, <2>2, <2>3, <2>4 DEF PacketOf
  <2> QED BY ONLY <2>5
<1>6. \A h \in R : \E e \in E : Behind(e) = h
  BY <1>1, SomeEvent
<1>7. Bytes(R) = Cardinality(Fibres(v, R))
  BY <1>2, <1>3, BytesAreUnits
<1>8. FoldSet(LAMBDA ev, sum : ev.len + sum, 0, E) = Cardinality(Fibres(u, E))
  BY <1>2, <1>3, <1>4, EventBytesAreUnits
<1>9. \A h \in R : v[h] = 1..h.incident.len /\ IsFiniteSet(v[h])
  BY <1>3, FS_Interval DEF Units, LensOf
<1>10. \A e \in E : b[e] = Behind(e) /\ u[e] = v[b[e]]
  BY <1>4, <1>9 DEF Units, EventLens
<1>11. b \in [E -> R]
  BY <1>4
<1>12. (\A e, f \in E : b[e] = b[f] => e = f) /\ \A h \in R : \E e \in E : b[e] = h
  BY <1>5, <1>6, <1>10
<1> HIDE DEF b, u, v
<1>13. Cardinality(Fibres(u, E)) = Cardinality(Fibres(v, R))
  BY ONLY <1>2, <1>9, <1>10, <1>11, <1>12, FibresMatch
<1>14. Cardinality(Fibres(v, R)) \in Nat
  BY <1>2, <1>9, FibresAreFinite
<1> QED BY <1>7, <1>8, <1>13, <1>14

\* The bytes sent on a route, as the events tell of them.
LEMMA RouteBytes ==
    ASSUME Recorded, NEW p \in {Route(h) : h \in Leaving}
    PROVE  BytesOf(Events(Log), {p}) = SentOn(p) /\ SentOn(p) \in Nat
<1> DEFINE R == {h \in Leaving : Route(h) = p}
           E == {e \in Fw : Behind(e) \in R}
           acc == {ev \in Accepted(Events(Log)) : <<ev.ip, ev.dst>> \in {p}}
<1>1. PICK g \in Leaving : p = Route(g)
  OBVIOUS
<1>2. \A h \in Those({"accept"}) : Route(h) = p => h \in Leaving
  BY <1>1 DEF Leaving, Route
<1>3. R \in SUBSET Those({"accept"}) /\ SentOn(p) = Bytes(R)
  BY DEF Leaving, SentOn
<1>4. acc = E
  <2>1. \A e \in Fw : /\ Behind(e) \in Packets /\ e.ip = Behind(e).incident.ip
                      /\ e.dst = Behind(e).incident.dst /\ e.action = Behind(e).incident.what
    BY BehindIs
  <2>2. \A e : e \in Accepted(Events(Log)) <=> e \in Fw /\ e.action = "accept"
    BY DEF Accepted, WithAction, Fw, Firewall
  <2>3. \A h \in Packets : h.incident.what = "accept" <=> h \in Those({"accept"})
    BY PacketsAre DEF Those
  <2>4. \A h : h \in R <=> h \in Those({"accept"}) /\ <<h.incident.ip, h.incident.dst>> = p
    BY <1>2, <1>3 DEF Route
  <2> HIDE DEF R
  <2> QED BY <2>1, <2>2, <2>3, <2>4
<1>5. BytesOf(Events(Log), {p}) = FoldSet(LAMBDA ev, sum : ev.len + sum, 0, acc)
  BY Zenon DEF BytesOf
<1> HIDE DEF acc, R
<1>6. FoldSet(LAMBDA ev, sum : ev.len + sum, 0, acc) = Bytes(R) /\ Bytes(R) \in Nat
  BY <1>3, <1>4, PassedBytes
<1> QED BY <1>3, <1>5, <1>6

LEMMA RoutesOut ==
    ASSUME Recorded
    PROVE  Egress(Events(Log)) = {Route(h) : h \in Leaving} /\ IsFiniteSet({Route(h) : h \in Leaving})
<1> DEFINE out(p) == NoValue \notin {p[1], p[2]} /\ IsInternal(p[1]) /\ ~ IsInternal(p[2])
<1>1. Egress(Events(Log)) = {p \in {<<ev.ip, ev.dst>> : ev \in Accepted(Events(Log))} : out(p)}
  BY Zenon DEF Egress
<1>2. \A e : e \in Accepted(Events(Log)) <=> e \in Fw /\ e.action = "accept"
  BY DEF Accepted, WithAction, Fw, Firewall
<1>3. \A e \in Fw : /\ Behind(e) \in Packets /\ <<e.ip, e.dst>> = Route(Behind(e))
                    /\ e.action = Behind(e).incident.what
  BY BehindIs DEF Route
<1>4. \A h \in Packets : /\ h.incident.what = "accept" <=> h \in Those({"accept"})
                         /\ h.incident.ip # NoValue /\ h.incident.dst # NoValue
  <2> TAKE h \in Packets
  <2>1. IsIncident(h.incident) /\ h.incident.what \in Verdicts
    BY PacketsAre
  <2>2. h.incident.ip # NoValue /\ h.incident.dst # NoValue
    BY Zenon, <2>1 DEF IsIncident
  <2>3. h.incident.what = "accept" <=> h \in Those({"accept"})
    BY PacketsAre DEF Those
  <2> QED BY <2>2, <2>3
<1>5. \A h \in Packets : h \in Leaving <=> h.incident.what = "accept" /\ out(Route(h))
  <2> TAKE h \in Packets
  <2>1. Route(h)[1] = h.incident.ip /\ Route(h)[2] = h.incident.dst
    BY DEF Route
  <2>2. h \in Leaving <=> /\ h \in Those({"accept"}) /\ IsInternal(h.incident.ip)
                          /\ ~ IsInternal(h.incident.dst)
    BY DEF Leaving
  <2> QED BY <1>4, <2>1, <2>2
<1>6. Leaving \subseteq Packets
  BY DEF Leaving, Packets, Those, Verdicts
<1>7. \A h \in Packets : \E e \in Fw : Behind(e) = h
  BY SomeEvent
<1> HIDE DEF out
<1>8. {p \in {<<ev.ip, ev.dst>> : ev \in Accepted(Events(Log))} : out(p)} = {Route(h) : h \in Leaving}
  BY <1>2, <1>3, <1>5, <1>6, <1>7
<1>9. IsFiniteSet({Route(h) : h \in Leaving})
  BY <1>6, RoutesAre
<1> QED BY <1>1, <1>8, <1>9

LEMMA TransfersTold == Recorded /\ Analysed => (report.made => TransfersAreTold)
<1> SUFFICES ASSUME Recorded, Analysed, report.made PROVE TransfersAreTold
  OBVIOUS
<1> DEFINE routes == {Route(h) : h \in Leaving}
           pairs == Egress(Events(Log))
           size(p) == BytesOf(Events(Log), {p})
           f == [p \in routes |-> SentOn(p)]
<1>1. pairs = routes /\ IsFiniteSet(routes)
  BY RoutesOut
<1>2. \A p \in routes : size(p) = SentOn(p) /\ SentOn(p) \in Nat
  BY RouteBytes
<1>3. PICK T \in kSubset(AtMost(LargeLimit, pairs), pairs) :
         /\ \A p \in T, r \in pairs \ T : size(p) >= size(r)
         /\ report.large = {p \in T : size(p) >= LargeFloor}
  BY DEF Analysed, LargeTransfers
<1>4. T \subseteq routes
  BY <1>1, <1>3 DEF kSubset
<1> HIDE DEF routes, size
<1>5. \A r \in report.large : r \in routes /\ SentOn(r) >= LargeFloor
  BY <1>2, <1>3, <1>4
<1>6. ASSUME NEW r \in routes, SentOn(r) >= LargeFloor,
             Cardinality({o \in routes : SentOn(o) >= SentOn(r)}) <= LargeLimit
      PROVE  r \in report.large
  <2>1. T \in kSubset(AtMost(LargeLimit, routes), routes)
    BY <1>1, <1>3
  <2>2. \A v \in T, w \in routes \ T : f[v] >= f[w]
    <3>1. \A v \in T, w \in routes \ T : size(v) >= size(w)
      BY <1>1, <1>3
    <3>2. \A v \in routes : f[v] = size(v)
      BY <1>2
    <3> HIDE DEF f
    <3> QED BY <1>4, <3>1, <3>2
  <2>3. {o \in routes : f[o] >= f[r]} = {o \in routes : SentOn(o) >= SentOn(r)}
    OBVIOUS
  <2>4. f[r] \in Nat
    BY <1>2
  <2>5. Cardinality({o \in routes : f[o] >= f[r]}) <= LargeLimit
    BY <1>6, <2>3
  <2>6. LargeLimit \in Nat
    BY TrafficAssumption
  <2> HIDE DEF f
  <2>7. r \in T
    BY <1>1, <2>1, <2>2, <2>4, <2>5, <2>6, CutHolds
  <2> QED BY <1>2, <1>3, <1>6, <2>7
<1> QED BY <1>5, <1>6 DEF TransfersAreTold, routes

-----------------------------------------------------------------------------
(* Probers and sweeps *)

OfDropped(src) == From(Dropped, src)
DroppedFrom == {h.incident.ip : h \in Dropped}

\* What was dropped of one source, and its events.
LEMMA DropsOfAre ==
    ASSUME Recorded, NEW src
    PROVE  /\ OfDropped(src) \in SUBSET Packets /\ IsFiniteSet(OfDropped(src))
           /\ IsFiniteSet(DropsOf(Events(Log), src))
           /\ Cardinality(DropsOf(Events(Log), src)) = Tries(OfDropped(src))
           /\ Tries(OfDropped(src)) \in Nat
           /\ \A e \in DropsOf(Events(Log), src) :
                /\ Behind(e) \in OfDropped(src) /\ e.port = Behind(e).incident.port
                /\ e.detail = Behind(e).incident.detail /\ e.ts = Behind(e).ts
           /\ \A h \in OfDropped(src) : (\E e \in DropsOf(Events(Log), src) : Behind(e) = h) /\ h.ts \in Nat
<1> DEFINE R == OfDropped(src)
           E == DropsOf(Events(Log), src)
<1>1. R \in SUBSET Packets
  BY DropsAre DEF OfDropped, From
<1>2. E = {e \in Fw : Behind(e) \in R}
  <2>1. \A e \in Fw : e.ip = Behind(e).incident.ip
    BY BehindIs
  <2> QED BY <2>1, DropsAre DEF DropsOf, OfDropped, From
<1>3. IsFiniteSet(R) /\ \A h \in R : h.ts \in Nat
  BY <1>1, PacketsAre, PacketTyped, FS_Subset
<1> HIDE DEF R, E
<1>4. IsFiniteSet(E) /\ Cardinality(E) = Tries(R) /\ Tries(R) \in Nat
  BY <1>1, <1>2, PacketsCount
<1>5. \A e \in E : /\ Behind(e) \in R /\ e.port = Behind(e).incident.port
                   /\ e.detail = Behind(e).incident.detail /\ e.ts = Behind(e).ts
  BY <1>2, BehindIs
<1>6. \A h \in R : \E e \in E : Behind(e) = h
  BY <1>1, <1>2, SomeEvent
<1> QED BY <1>1, <1>3, <1>4, <1>5, <1>6 DEF R, E

LEMMA DropSources ==
    ASSUME Recorded
    PROVE  Distinct(Drops(Events(Log)), "ip") = DroppedFrom /\ IsFiniteSet(DroppedFrom)
BY DropsAre, SourcesAre DEF DroppedFrom

\* Whoever shares a source's subnet, and whether they make a sweep.
Peers(src) ==
    {o \in DroppedFrom \cap DOMAIN Subnet : src \in DOMAIN Subnet /\ Subnet[o] = Subnet[src]}
Scanners(src) ==
    /\ Cardinality(Peers(src)) >= SweepMinSources
    /\ Tries(UNION {OfDropped(o) : o \in Peers(src)}) <= SweepMaxHits * Cardinality(Peers(src))
Nets == {Subnet[src] : src \in DroppedFrom \cap DOMAIN Subnet}

LEMMA SubnetsAre ==
    ASSUME Recorded, NEW net
    PROVE  LET S == {o \in DroppedFrom \cap DOMAIN Subnet : Subnet[o] = net}
           IN  /\ Sources(Events(Log), net) = S
               /\ SubnetHits(Events(Log), net) = Tries(UNION {OfDropped(o) : o \in S})
<1> DEFINE S == {o \in DroppedFrom \cap DOMAIN Subnet : Subnet[o] = net}
           R == UNION {OfDropped(o) : o \in S}
           E == {ev \in Drops(Events(Log)) : ev.ip \in S}
<1>1. Sources(Events(Log), net) = S
  BY DropSources DEF Sources
<1>2. R = {h \in Dropped : h.incident.ip \in S}
  BY DEF OfDropped, From
<1>3. SubnetHits(Events(Log), net) = Cardinality(E)
  BY Zenon, <1>1 DEF SubnetHits
<1> HIDE DEF S
<1>4. E = {e \in Fw : Behind(e) \in R}
  <2>1. \A e \in Fw : e.ip = Behind(e).incident.ip
    BY BehindIs
  <2> QED BY <1>2, <2>1, DropsAre
<1>5. R \in SUBSET Packets
  BY <1>2, DropsAre
<1> HIDE DEF R, E
<1>6. Cardinality(E) = Tries(R)
  BY <1>4, <1>5, PacketsCount
<1> QED BY <1>1, <1>3, <1>6 DEF S, R

LEMMA SweepIs ==
    ASSUME Recorded, NEW src \in DroppedFrom, src \in DOMAIN Subnet, NEW spread, Subnet[src] \in spread
    PROVE  /\ Sources(Events(Log), Subnet[src]) = Peers(src) /\ src \in Peers(src)
           /\ Subnet[src] \in Sweeps(Events(Log), spread) <=> Scanners(src)
<1>1. Sources(Events(Log), Subnet[src]) = Peers(src) /\ src \in Peers(src)
  BY SubnetsAre DEF Peers
<1>2. SubnetHits(Events(Log), Subnet[src]) = Tries(UNION {OfDropped(o) : o \in Peers(src)})
  <2>1. Peers(src) = {o \in DroppedFrom \cap DOMAIN Subnet : Subnet[o] = Subnet[src]}
    BY DEF Peers
  <2> QED BY <2>1, SubnetsAre
<1> QED BY <1>1, <1>2 DEF Sweeps, Scanners

LEMMA NetsAreFew ==
    ASSUME Recorded
    PROVE  IsFiniteSet(Nets) /\ Cardinality(Nets) \in Nat
<1> DEFINE D == DroppedFrom \cap DOMAIN Subnet
           f == [o \in D |-> Subnet[o]]
<1>1. Nets = {f[o] : o \in D}
  BY DEF Nets
<1>2. IsFiniteSet(D)
  BY DropSources, FS_Subset
<1> HIDE DEF D, f
<1>3. IsFiniteSet({f[o] : o \in D})
  BY ONLY <1>2, ImageIsSmall
<1> QED BY <1>1, <1>3, FS_CardinalityType

LEMMA SpreadIs ==
    ASSUME Recorded, NEW spread \in SubnetSpread(Events(Log))
    PROVE  spread \subseteq Nets /\ (Cardinality(Nets) <= SweepLimit => spread = Nets)
<1>1. Nets = {Subnet[ip] : ip \in Distinct(Drops(Events(Log)), "ip") \cap DOMAIN Subnet}
  BY DropSources DEF Nets
<1>2. spread \in kSubset(AtMost(SweepLimit, Nets), Nets)
  BY Zenon, <1>1 DEF SubnetSpread
<1>3. IsFiniteSet(Nets)
  BY NetsAreFew
<1>4. SweepLimit \in Nat
  BY PatternsAssumption
<1> QED BY <1>2, <1>3, <1>4, NoCut DEF kSubset

\* What makes a prober, of its events and of what it sent.
Long(hs) == \E g, h \in hs : g.ts - h.ts >= ProberMinTime

LEMMA LongIs ==
    ASSUME Recorded, NEW src, OfDropped(src) # {}
    PROVE  LET times == {ev.ts : ev \in DropsOf(Events(Log), src)}
           IN  Max(times) - Min(times) >= ProberMinTime <=> Long(OfDropped(src))
<1> DEFINE R == OfDropped(src)
           E == DropsOf(Events(Log), src)
           times == {ev.ts : ev \in E}
<1>1. times = {h.ts : h \in R} /\ \A h \in R : h.ts \in Nat
  BY DropsOfAre
<1>2. times \in SUBSET Nat /\ times # {}
  BY <1>1
<1>3. IsFiniteSet(times)
  <2> DEFINE f == [e \in E |-> e.ts]
  <2>1. times = {f[e] : e \in E}
    OBVIOUS
  <2>2. IsFiniteSet(E)
    BY DropsOfAre
  <2> HIDE DEF f, E, times
  <2>3. IsFiniteSet({f[e] : e \in E})
    BY ONLY <2>2, ImageIsSmall
  <2> QED BY ONLY <2>1, <2>3
<1> HIDE DEF times, R
<1>4. /\ Min(times) \in times /\ \A x \in times : Min(times) <= x
      /\ Max(times) \in times /\ \A x \in times : x <= Max(times)
  BY <1>2, <1>3, Extremes
<1> DEFINE a == Min(times)
           b == Max(times)
<1>5. a \in Nat /\ b \in Nat /\ ProberMinTime \in Nat
  BY <1>2, <1>4, PatternsAssumption
<1>6. ASSUME b - a >= ProberMinTime PROVE Long(R)
  <2>1. PICK g \in R : b = g.ts
    BY <1>1, <1>4
  <2>2. PICK h \in R : a = h.ts
    BY <1>1, <1>4
  <2> HIDE DEF a, b
  <2> QED BY <1>6, <2>1, <2>2 DEF Long
<1>7. ASSUME NEW g \in R, NEW h \in R, g.ts - h.ts >= ProberMinTime PROVE b - a >= ProberMinTime
  <2>1. g.ts \in Nat /\ h.ts \in Nat /\ g.ts <= b /\ a <= h.ts
    BY <1>1, <1>4
  <2> HIDE DEF a, b
  <2> QED BY ONLY <1>5, <1>7, <2>1
<1>8. b - a >= ProberMinTime <=> Long(R)
  BY <1>6, <1>7 DEF Long
<1> QED BY <1>8 DEF R, times

LEMMA SevenOfTen ==
    \A n \in Nat : 10 * n >= 7 * n /\ 5 * 0 <= 4 * n /\ (n # 0 => ~ (5 * n <= 4 * n))
OBVIOUS

\* Only packets have a port: what a source sent to one is what its events count.
OfAll(src) == From(Packets, src)
To(src, port) == {h \in OfAll(src) : h.incident.port = port}

LEMMA OnlyPacketsHavePorts ==
    ASSUME NEW line, NEW e \in Normalize(line), e.kind # "firewall"
    PROVE  e.port = 0
<1>1. System(line).port = 0
  BY DEF System
<1>2. Query(line).port = 0
  BY DEF Query, System
<1>3. \A action : Authentication(line, action).port = 0
  BY DEF Authentication, System
<1>4. [System(line) EXCEPT !.kind = "auth"].port = 0
  BY DEF System
<1>5. [System(line) EXCEPT !.kind = "auth", !.action = "deauth", !.user = line.user].port = 0
  BY DEF System
<1>6. [System(line) EXCEPT !.action = line.form, !.user = line.user, !.ip = line.ip].port = 0
  BY DEF System
<1>7. [System(line) EXCEPT !.kind = "dns", !.ip = line.ip, !.domain = line.domain,
                           !.detail = line.detail].port = 0
  BY DEF System
<1>8. [System(line) EXCEPT !.kind = "ids", !.action = "detection"].port = 0
  BY DEF System
<1>9. ASSUME line.ts # NoTime, line.program = "kernel" /\ line.form \in {"drop", "accept", "reject"}
      PROVE  FALSE
  <2>1. line.program # "pihole"
    BY <1>9
  <2>2. e = [System(line) EXCEPT !.kind = "firewall", !.action = line.form, !.ip = line.ip,
                                 !.dst = line.dst, !.port = line.port, !.detail = line.detail,
                                 !.ttl = line.ttl, !.len = line.len]
    BY <1>9, <2>1 DEF Normalize
  <2>3. e.kind = "firewall"
    BY <2>2 DEF System
  <2> QED BY <2>3
<1> QED BY <1>1, <1>2, <1>3, <1>4, <1>5, <1>6, <1>7, <1>8, <1>9 DEF Normalize

LEMMA PortHitsAre ==
    ASSUME Recorded, NEW src, NEW port, port # 0
    PROVE  PortHits(Events(Log), src, port) = Tries(To(src, port)) /\ Tries(To(src, port)) \in Nat
<1> DEFINE E == {ev \in Events(Log) : ev.ip = src /\ ev.port = port}
           R == To(src, port)
<1>1. \A ev \in Events(Log) : ev.port # 0 => ev \in Fw
  <2> SUFFICES ASSUME NEW ev \in Events(Log), ev.port # 0 PROVE ev.kind = "firewall"
    BY DEF Fw, Firewall, OfKind
  <2>1. PICK line \in Log : ev \in Normalize(line)
    BY DEF Events
  <2> QED BY <2>1, OnlyPacketsHavePorts
<1>2. Fw \subseteq Events(Log)
  BY DEF Fw, Firewall, OfKind
<1>3. \A e \in Fw : Behind(e) \in Packets /\ e.ip = Behind(e).incident.ip /\ e.port = Behind(e).incident.port
  BY BehindIs
<1>4. E = {e \in Fw : Behind(e) \in R}
  BY <1>1, <1>2, <1>3 DEF To, OfAll, From
<1>5. R \in SUBSET Packets
  BY DEF To, OfAll, From
<1>6. PortHits(Events(Log), src, port) = Cardinality(E)
  BY DEF PortHits
<1> HIDE DEF E, R
<1>7. Cardinality(E) = Tries(R) /\ Tries(R) \in Nat
  BY <1>4, <1>5, PacketsCount
<1> QED BY <1>6, <1>7 DEF R

PortsSent(src) == {h.incident.port : h \in OfAll(src)} \ {0}

LEMMA PortsSentAre ==
    ASSUME Recorded, NEW src
    PROVE  /\ {ev.port : ev \in {x \in Events(Log) : x.ip = src}} \ {0} = PortsSent(src)
           /\ IsFiniteSet(PortsSent(src))
<1>1. ASSUME NEW e \in Events(Log), e.ip = src, e.port # 0 PROVE e.port \in PortsSent(src)
  <2>1. PICK line \in Log : e \in Normalize(line)
    BY DEF Events
  <2>2. e \in Fw
    BY <1>1, <2>1, OnlyPacketsHavePorts DEF Fw, Firewall, OfKind
  <2>3. Behind(e) \in Packets /\ e.ip = Behind(e).incident.ip /\ e.port = Behind(e).incident.port
    BY <2>2, BehindIs
  <2> QED BY <1>1, <2>3 DEF PortsSent, OfAll, From
<1>2. ASSUME NEW h \in OfAll(src)
      PROVE  \E e \in Events(Log) : e.ip = src /\ e.port = h.incident.port
  <2>1. h \in Packets /\ h.incident.ip = src
    BY DEF OfAll, From
  <2>2. PICK e \in Fw : Behind(e) = h
    BY <2>1, SomeEvent
  <2>3. e.ip = src /\ e.port = h.incident.port
    BY <2>1, <2>2, BehindIs
  <2> QED BY <2>3 DEF Fw, Firewall, OfKind
<1>3. IsFiniteSet({h.incident.port : h \in OfAll(src)})
  <2> DEFINE f == [h \in OfAll(src) |-> h.incident.port]
  <2>1. {h.incident.port : h \in OfAll(src)} = {f[h] : h \in OfAll(src)}
    OBVIOUS
  <2>2. IsFiniteSet(OfAll(src))
    BY PacketsAre, FS_Subset DEF OfAll, From
  <2> HIDE DEF f
  <2> QED BY <2>1, <2>2, ImageIsSmall
<1>4. IsFiniteSet(PortsSent(src))
  BY <1>3, FS_Subset DEF PortsSent
<1> QED BY <1>1, <1>2, <1>4 DEF PortsSent

\* The first port of a source is one that no other exceeds, and there is one.
LEMMA TopPortsAre ==
    ASSUME Recorded, NEW src
    PROVE  /\ \A port : port \in TopPorts(Events(Log), src) <=>
                /\ port \in PortsSent(src)
                /\ \A o \in PortsSent(src) : Tries(To(src, o)) <= Tries(To(src, port))
           /\ PortsSent(src) # {} => TopPorts(Events(Log), src) # {}
<1> DEFINE P == PortsSent(src)
           n(port) == Tries(To(src, port))
           N == {n(port) : port \in P}
           ports == {ev.port : ev \in {x \in Events(Log) : x.ip = src}} \ {0}
<1>1. \A port \in P : PortHits(Events(Log), src, port) = n(port) /\ n(port) \in Nat
  BY PortHitsAre DEF PortsSent
<1>2. ports = P /\ IsFiniteSet(P)
  BY PortsSentAre
<1>3. TopPorts(Events(Log), src) =
         {p \in ports : \A o \in ports : PortHits(Events(Log), src, o) <= PortHits(Events(Log), src, p)}
  BY Zenon DEF TopPorts
<1> HIDE DEF ports, P, n
<1>4. TopPorts(Events(Log), src) = {p \in P : \A o \in P : n(o) <= n(p)}
  BY <1>1, <1>2, <1>3
<1>5. N \in SUBSET Nat /\ (P # {} => N # {})
  BY <1>1
<1>6. IsFiniteSet(N)
  <2> DEFINE f == [port \in P |-> n(port)]
  <2>1. N = {f[port] : port \in P}
    OBVIOUS
  <2> HIDE DEF f, N
  <2> QED BY <1>2, <2>1, ImageIsSmall
<1>7. ASSUME P # {} PROVE TopPorts(Events(Log), src) # {}
  <2>1. Max(N) \in N /\ \A x \in N : x <= Max(N)
    <3> HIDE DEF N
    <3> QED BY <1>5, <1>6, <1>7, Extremes
  <2>2. PICK p \in P : Max(N) = n(p)
    BY <2>1
  <2>3. \A o \in P : n(o) <= n(p)
    BY <2>1, <2>2
  <2> QED BY <1>4, <2>3
<1> QED BY <1>4, <1>7 DEF P, n

LEMMA ProberIs ==
    ASSUME NEW events, NEW src, NEW port
    PROVE  LET of == DropsOf(events, src)
               times == {ev.ts : ev \in of}
               ports == {ev.port : ev \in of} \ {0}
           IN  IsProber(events, src, port) <=>
                /\ port \in TopPorts(events, src)
                /\ 5 * Cardinality(ReturnTraffic(of)) <= 4 * Cardinality(of)
                /\ Cardinality(of) >= ProberMinHits
                /\ Max(times) - Min(times) >= ProberMinTime
                /\ Cardinality(ports) <= ProberMaxPorts
                /\ 10 * PortHits(events, src, port) >= 7 * Cardinality(of)
BY Zenon DEF IsProber

AtPort(src, port) == {h \in OfDropped(src) : h.incident.port = port /\ h.incident.detail # "return"}
PortsOf(src) == {h.incident.port : h \in OfDropped(src)}

LEMMA PortsAre ==
    ASSUME Recorded, NEW src
    PROVE  {ev.port : ev \in DropsOf(Events(Log), src)} = PortsOf(src) /\ IsFiniteSet(PortsOf(src))
<1> DEFINE R == OfDropped(src)
           f == [h \in R |-> h.incident.port]
<1>1. {ev.port : ev \in DropsOf(Events(Log), src)} = PortsOf(src)
  BY DropsOfAre DEF PortsOf
<1>2. PortsOf(src) = {f[h] : h \in R}
  BY DEF PortsOf
<1>3. IsFiniteSet(R)
  BY DropsOfAre
<1> HIDE DEF R, f
<1>4. IsFiniteSet({f[h] : h \in R})
  BY ONLY <1>3, ImageIsSmall
<1> QED BY ONLY <1>1, <1>2, <1>4

\* Whoever is told of was turned away for long, and not with packets of sessions only;
\* no port got more than the one that is told of.
LEMMA ProbersDo ==
    ASSUME Recorded, NEW src, NEW port, IsProber(Events(Log), src, port)
    PROVE  /\ Long(OfDropped(src))
           /\ \E h \in OfDropped(src) : h.incident.detail # "return"
           /\ 10 * Tries(To(src, port)) >= 7 * Tries(OfDropped(src))
           /\ \A o \in PortsSent(src) : Tries(To(src, o)) <= Tries(To(src, port))
           /\ port \in PortsSent(src)
<1> DEFINE E == DropsOf(Events(Log), src)
           n == Cardinality(E)
           times == {ev.ts : ev \in E}
<1>1. /\ port \in TopPorts(Events(Log), src)
      /\ 5 * Cardinality(ReturnTraffic(E)) <= 4 * n /\ n >= ProberMinHits
      /\ Max(times) - Min(times) >= ProberMinTime
      /\ 10 * PortHits(Events(Log), src, port) >= 7 * n
  BY ProberIs
<1>2. n \in Nat /\ IsFiniteSet(E) /\ n = Tries(OfDropped(src))
  BY DropsOfAre
<1>3. n # 0
  <2> HIDE DEF n
  <2> QED BY <1>1, <1>2, PatternsAssumption
<1>4. E # {}
  BY <1>3, FS_EmptySet
<1>5. OfDropped(src) # {}
  BY <1>4, DropsOfAre
<1>6. Long(OfDropped(src))
  BY <1>1, <1>5, LongIs
<1>7. ASSUME \A h \in OfDropped(src) : h.incident.detail = "return" PROVE FALSE
  <2>1. \A ev \in E : ev.detail = "return"
    BY <1>7, DropsOfAre
  <2>2. ReturnTraffic(E) = E
    BY <2>1 DEF ReturnTraffic
  <2>3. 5 * n <= 4 * n
    BY <1>1, <2>2
  <2> HIDE DEF n
  <2> QED BY ONLY <1>2, <1>3, <2>3, SevenOfTen
<1>8. /\ port \in PortsSent(src)
      /\ \A o \in PortsSent(src) : Tries(To(src, o)) <= Tries(To(src, port))
  BY <1>1, TopPortsAre
<1>9. PortHits(Events(Log), src, port) = Tries(To(src, port))
  BY <1>8, PortHitsAre DEF PortsSent
<1>10. 10 * Tries(To(src, port)) >= 7 * Tries(OfDropped(src))
  BY <1>1, <1>2, <1>9
<1> QED BY <1>6, <1>7, <1>8, <1>10

\* Whoever keeps to one port often and for long is a prober, of that port unless
\* something was let through.
LEMMA KeepersAre ==
    ASSUME Recorded, NEW src, NEW port \in PortsOf(src) \ {0}, AtPort(src, port) = OfDropped(src),
           Tries(OfDropped(src)) >= ProberMinHits, Long(OfDropped(src))
    PROVE  \E top \in PortsSent(src) : IsProber(Events(Log), src, top)
<1> DEFINE E == DropsOf(Events(Log), src)
           n == Cardinality(E)
           times == {ev.ts : ev \in E}
           ports == {ev.port : ev \in E} \ {0}
<1>1. n \in Nat /\ n = Tries(OfDropped(src))
  BY DropsOfAre
<1>2. {ev.port : ev \in E} = PortsOf(src) /\ OfDropped(src) # {}
  BY PortsAre DEF PortsOf
<1>3. \A ev \in E : ev.port = port /\ ev.detail # "return"
  <2> TAKE ev \in E
  <2>1. /\ Behind(ev) \in OfDropped(src) /\ ev.port = Behind(ev).incident.port
        /\ ev.detail = Behind(ev).incident.detail
    BY DropsOfAre
  <2> QED BY <2>1 DEF AtPort
<1>4. ports = {port}
  BY <1>2, <1>3
<1>5. Cardinality(ports) = 1 /\ ProberMaxPorts \in Nat \ {0}
  BY <1>4, FS_Singleton, PatternsAssumption
<1>6. Max(times) - Min(times) >= ProberMinTime
  BY <1>2, LongIs
<1>7. ReturnTraffic(E) = {}
  BY <1>3 DEF ReturnTraffic
<1>8. Cardinality(ReturnTraffic(E)) = 0
  BY <1>7, FS_EmptySet
<1>9. OfDropped(src) \subseteq To(src, port) /\ To(src, port) \in SUBSET Packets
  BY DropsOfAre DEF AtPort, To, OfAll, OfDropped, From
<1>10. port \in PortsSent(src)
  BY <1>2, <1>9 DEF PortsSent, To
<1>11. PICK top \in TopPorts(Events(Log), src) : TRUE
  BY <1>10, TopPortsAre
<1>12. top \in PortsSent(src) /\ Tries(To(src, port)) <= Tries(To(src, top))
  BY <1>10, <1>11, TopPortsAre
<1> DEFINE m == PortHits(Events(Log), src, top)
<1>13. m \in Nat /\ m >= n
  <2>1. Tries(OfDropped(src)) <= Tries(To(src, port))
    BY <1>9, TriesGrow
  <2>2. /\ Tries(To(src, port)) \in Nat /\ Tries(To(src, top)) \in Nat
        /\ m = Tries(To(src, top))
    BY <1>10, <1>12, PortHitsAre DEF PortsSent
  <2> HIDE DEF m, n
  <2> QED BY <1>1, <1>12, <2>1, <2>2
<1>14. /\ 5 * Cardinality(ReturnTraffic(E)) <= 4 * n /\ n >= ProberMinHits
       /\ Cardinality(ports) <= ProberMaxPorts
       /\ 10 * m >= 7 * n
  <2>1. 10 * n >= 7 * n /\ 5 * 0 <= 4 * n
    BY ONLY <1>1, SevenOfTen
  <2>2. Cardinality(ports) <= ProberMaxPorts
    <3> HIDE DEF ports
    <3> QED BY ONLY <1>5
  <2>3. n >= ProberMinHits
    BY <1>1
  <2>4. 10 * m >= 7 * n
    <3> HIDE DEF m, n
    <3> QED BY ONLY <1>1, <1>13
  <2> QED BY ONLY <1>8, <2>1, <2>2, <2>3, <2>4
<1>15. IsProber(Events(Log), src, top)
  BY <1>6, <1>11, <1>14, ProberIs
<1> QED BY <1>12, <1>15

LEMMA ProbersTold == Recorded /\ Analysed => (report.made => ProbersAreTold)
<1> SUFFICES ASSUME Recorded, Analysed, report.made PROVE ProbersAreTold
  OBVIOUS
<1> DEFINE ev == Events(Log)
           swept(spread) == UNION {Sources(ev, net) : net \in Sweeps(ev, spread)}
           ports == {e.port : e \in ev}
           probing(spread, busiest) ==
               {p \in (busiest \ swept(spread)) \X ports : ~ IsInternal(p[1]) /\ IsProber(ev, p[1], p[2])}
<1>1. PICK spread \in SubnetSpread(ev) : \E busiest \in Top(Drops(ev), "ip", ProberLimit) :
         report.sweeps = Sweeps(ev, spread) /\ report.probers \in OneEach(probing(spread, busiest))
  <2>1. PICK p \in Patterns(ev) : report.probers = p.probers /\ report.sweeps = p.sweeps
    <3>1. [probers |-> report.probers, sweeps |-> report.sweeps] \in
             {[probers |-> p.probers, sweeps |-> p.sweeps] : p \in Patterns(ev)}
      BY Zenon DEF Analysed
    <3> HIDE DEF ev
    <3> QED BY <3>1
  <2>2. Patterns(ev) =
           UNION {{[sweeps |-> Sweeps(ev, s), probers |-> P] : P \in OneEach(probing(s, b))} :
                     s \in SubnetSpread(ev), b \in Top(Drops(ev), "ip", ProberLimit)}
    BY DEF Patterns
  <2> HIDE DEF probing, ev
  <2>3. PICK s \in SubnetSpread(ev), b \in Top(Drops(ev), "ip", ProberLimit) :
          p \in {[sweeps |-> Sweeps(ev, s), probers |-> P] : P \in OneEach(probing(s, b))}
    BY <2>1, <2>2
  <2>4. PICK P \in OneEach(probing(s, b)) : p = [sweeps |-> Sweeps(ev, s), probers |-> P]
    BY <2>3
  <2>5. report.sweeps = Sweeps(ev, s) /\ report.probers = P
    BY <2>1, <2>4
  <2> QED BY <2>5
<1>2. PICK busiest \in Top(Drops(ev), "ip", ProberLimit) :
         report.probers \in OneEach(probing(spread, busiest))
  BY <1>1
<1>3. busiest \subseteq DroppedFrom
  BY DropSources, TopWithin
<1>4. spread \subseteq Nets /\ (Cardinality(Nets) <= SweepLimit => spread = Nets)
  BY SpreadIs
<1> DEFINE all == probing(spread, busiest)
<1>5. /\ report.probers \subseteq all /\ \A p \in all : \E q \in report.probers : q[1] = p[1]
      /\ \A p, q \in report.probers : p[1] = q[1] => p = q
  <2>1. report.probers \in OneEach(all)
    BY <1>2
  <2> HIDE DEF all
  <2> QED BY <2>1 DEF OneEach
<1>6. ASSUME NEW p \in report.probers
      PROVE  /\ p[1] \in DroppedFrom /\ ~ IsInternal(p[1])
             /\ Scanners(p[1]) => Cardinality(Nets) > SweepLimit
             /\ \E h \in OfDropped(p[1]) : h.incident.detail # "return"
             /\ Long(OfDropped(p[1]))
             /\ 10 * Tries(To(p[1], p[2])) >= 7 * Tries(OfDropped(p[1]))
             /\ \A h \in OfAll(p[1]) : h.incident.port # 0 =>
                    Tries(To(p[1], h.incident.port)) <= Tries(To(p[1], p[2]))
             /\ \A q \in report.probers : q[1] = p[1] => q = p
  <2>1. p[1] \in busiest \ swept(spread) /\ ~ IsInternal(p[1]) /\ IsProber(ev, p[1], p[2])
    BY <1>5, <1>6
  <2>2. ASSUME Scanners(p[1]), Cardinality(Nets) <= SweepLimit PROVE FALSE
    <3>1. p[1] \in DOMAIN Subnet
      <4>1. Cardinality(Peers(p[1])) >= SweepMinSources /\ SweepMinSources \in Nat \ {0}
        BY <2>2, PatternsAssumption DEF Scanners
      <4>2. Peers(p[1]) # {}
        <5>1. Cardinality({}) = 0
          BY FS_EmptySet
        <5> QED BY <4>1, <5>1
      <4> QED BY <4>2 DEF Peers
    <3>2. Subnet[p[1]] \in spread
      BY <1>3, <1>4, <2>1, <2>2, <3>1 DEF Nets
    <3>3. p[1] \in Sources(ev, Subnet[p[1]]) /\ Subnet[p[1]] \in Sweeps(ev, spread)
      BY <1>3, <2>1, <2>2, <3>1, <3>2, SweepIs
    <3> QED BY <2>1, <3>3
  <2>3. Scanners(p[1]) => Cardinality(Nets) > SweepLimit
    <3>1. Cardinality(Nets) \in Nat /\ SweepLimit \in Nat
      BY NetsAreFew, PatternsAssumption
    <3> QED BY <2>2, <3>1
  <2>4. /\ \E h \in OfDropped(p[1]) : h.incident.detail # "return"
        /\ Long(OfDropped(p[1]))
        /\ 10 * Tries(To(p[1], p[2])) >= 7 * Tries(OfDropped(p[1]))
        /\ \A o \in PortsSent(p[1]) : Tries(To(p[1], o)) <= Tries(To(p[1], p[2]))
    BY <2>1, ProbersDo
  <2>5. \A h \in OfAll(p[1]) : h.incident.port # 0 => h.incident.port \in PortsSent(p[1])
    BY DEF PortsSent
  <2>6. \A q \in report.probers : q[1] = p[1] => q = p
    BY <1>5
  <2> HIDE DEF ev, swept, all
  <2> QED BY <1>3, <2>1, <2>3, <2>4, <2>5, <2>6
<1>7. ASSUME NEW net \in report.sweeps
      PROVE  Cardinality({src \in DroppedFrom \cap DOMAIN Subnet : Subnet[src] = net}) >= SweepMinSources
  <2>1. Cardinality(Sources(ev, net)) >= SweepMinSources
    BY <1>1, <1>7 DEF Sweeps
  <2> QED BY <2>1, SubnetsAre
<1>8. ASSUME NEW src \in DroppedFrom, NEW port \in PortsOf(src) \ {0}, ~ IsInternal(src),
             AtPort(src, port) = OfDropped(src), Tries(OfDropped(src)) >= ProberMinHits,
             Long(OfDropped(src)), ~ Scanners(src),
             Cardinality({o \in DroppedFrom : Tries(OfDropped(o)) >= Tries(OfDropped(src))}) <= ProberLimit
      PROVE  /\ \E p \in report.probers : p[1] = src
             /\ OfAll(src) = OfDropped(src) => <<src, port>> \in report.probers
  <2>1. PICK top \in PortsSent(src) : IsProber(ev, src, top)
    BY <1>8, KeepersAre
  <2>2. top \in ports
    BY PortsSentAre
  <2>3. src \in busiest
    <3>1. Dropped \in SUBSET Packets /\ Drops(ev) = {e \in Fw : Behind(e) \in Dropped}
      BY DropsAre
    <3>2. ProberLimit \in Nat
      BY PatternsAssumption
    <3> HIDE DEF ev
    <3> QED BY <1>2, <1>8, <3>1, <3>2, SourceIsLookedAt DEF DroppedFrom, OfDropped
  <2>4. src \notin swept(spread)
    <3> SUFFICES ASSUME NEW net \in Sweeps(ev, spread), src \in Sources(ev, net) PROVE FALSE
      OBVIOUS
    <3>1. src \in DOMAIN Subnet /\ Subnet[src] = net /\ net \in spread
      BY DEF Sources, Sweeps
    <3> QED BY <1>8, <3>1, SweepIs
  <2>5. <<src, top>> \in all
    BY <1>8, <2>1, <2>2, <2>3, <2>4
  <2>6. PICK p \in report.probers : p[1] = src
    BY <1>5, <2>5
  <2>7. ASSUME OfAll(src) = OfDropped(src) PROVE <<src, port>> = p
    <3>1. IsProber(ev, src, p[2]) /\ p = <<src, p[2]>>
      BY <1>5, <2>6
    <3>2. p[2] \in PortsSent(src)
      BY <3>1, ProbersDo
    <3>3. \A h \in OfDropped(src) : h.incident.port = port
      BY <1>8 DEF AtPort
    <3>4. p[2] = port
      BY <2>7, <3>2, <3>3 DEF PortsSent
    <3> QED BY <3>1, <3>4
  <2> QED BY <2>6, <2>7
<1> HIDE DEF ev, swept, ports, all, probing
<1> QED BY ONLY <1>6, <1>7, <1>8 DEF ProbersAreTold, DroppedFrom, Dropped, OfDropped, From, AtPort,
         PortsOf, Long, Peers, Scanners, Nets, OfAll, To

LEMMA CrossingsTold == Recorded /\ Analysed => CrossingsAreTold
BY TracesTold, ScansTold, InboundTold, TransfersTold, BypassTold, EgressTold, ProbersTold, SteppingTold
   DEF CrossingsAreTold

\* Routes traced, scans, sessions let in, transfers, resolvers and names elsewhere,
\* probers and stepped TTLs: what the analyzers tell of did happen, and what happened
\* is told of unless a query's limit is full of what ranks as high.
THEOREM CrossingsTell == Spec => []CrossingsAreTold
BY CrossingsTold, RecordedInvariant, AnalysedInvariant, PTL

-----------------------------------------------------------------------------
(* What hides in names *)

LEMMA ApexIs ==
    ASSUME NEW d \in DOMAIN Labels \ {NoValue}
    PROVE  Apex(Labels[d]) = Owner[d] /\ d \in DOMAIN Owner
<1> DEFINE l == Labels[d]
           n == Len(l)
           suffix == SubSeq(l, n - 1, n)
<1>1. l \in Seq(STRING) /\ d \in DOMAIN Owner
  BY Zenon, OwnersAssumption
<1>2. \/ n <= 2 /\ Owner[d] = l
      \/ n > 2 /\ suffix \notin TwoLabelSuffixes /\ Owner[d] = suffix
      \/ n > 2 /\ suffix \in TwoLabelSuffixes /\ Owner[d] = SubSeq(l, n - 2, n)
  BY Zenon, OwnersAssumption
<1>3. Apex(l) = IF n < 2 THEN l
                ELSE IF suffix \in TwoLabelSuffixes /\ n >= 3 THEN SubSeq(l, n - 2, n) ELSE suffix
  BY Zenon DEF Apex
<1>4. n \in Nat /\ SubSeq(l, 1, n) = l
  BY <1>1, SubSeqFull, LenProperties
<1>5. n = 2 => suffix = l
  BY <1>4
<1> HIDE DEF l, suffix, n
<1>6. CASE n < 2
  <2>1. Owner[d] = l /\ Apex(l) = l
    BY ONLY <1>2, <1>3, <1>4, <1>6
  <2> QED BY <1>1, <2>1 DEF l
<1>7. CASE n = 2
  <2>1. Owner[d] = l /\ Apex(l) = l
    BY ONLY <1>2, <1>3, <1>5, <1>7
  <2> QED BY <1>1, <2>1 DEF l
<1>8. CASE n > 2
  <2>1. n >= 3 /\ ~ (n < 2) /\ ~ (n <= 2)
    BY ONLY <1>4, <1>8
  <2> QED BY ONLY <1>1, <1>2, <1>3, <1>8, <2>1 DEF l
<1>9. n < 2 \/ n = 2 \/ n > 2
  BY ONLY <1>4
<1> QED BY <1>1, <1>6, <1>7, <1>8, <1>9 DEF l

\* The events of a client's lookups of an owner's names.
Asked(client, owner) ==
    {e \in DnsEvents : e.ip = client /\ e.ip # NoValue /\ e.domain # NoValue /\ Apex(Labels[e.domain]) = owner}

LEMMA NamesAre ==
    ASSUME Recorded, NEW client, client # NoValue, NEW owner
    PROVE  {e.domain : e \in Asked(client, owner)} = NamesOf(owner, AskedBy(client))
<1>1. ASSUME NEW e \in Asked(client, owner)
      PROVE  e.domain \in NamesOf(owner, AskedBy(client))
  <2>1. /\ Behind(e) \in Answers /\ Behind(e) \in AskedBy(client) /\ e.domain = Behind(e).incident.domain
        /\ Apex(Labels[e.domain]) = owner
    BY BehindLookup DEF Asked
  <2>2. e.domain \in DOMAIN Labels \ {NoValue}
    BY <2>1, AnswersAre
  <2>3. Owner[e.domain] = owner
    BY <2>1, <2>2, ApexIs
  <2> QED BY <2>1, <2>3 DEF NamesOf
<1>2. ASSUME NEW d \in NamesOf(owner, AskedBy(client))
      PROVE  \E e \in Asked(client, owner) : e.domain = d
  <2>1. PICK h \in AskedBy(client) : h.incident.domain = d /\ Owner[d] = owner
    BY DEF NamesOf
  <2>2. h \in Answers
    BY DEF AskedBy
  <2>3. d \in DOMAIN Labels \ {NoValue}
    BY <2>1, <2>2, AnswersAre
  <2>4. PICK e \in DnsEvents : Behind(e) = h /\ e.ip = client
    BY <2>1, AskedHasEvent
  <2>5. e.domain = d
    BY <2>1, <2>4, BehindLookup
  <2>6. Apex(Labels[d]) = owner
    BY <2>1, <2>3, ApexIs
  <2> QED BY <2>3, <2>4, <2>5, <2>6 DEF Asked
<1> QED BY <1>1, <1>2

LEMMA FanoutIs ==
    ASSUME NEW client, NEW owner
    PROVE  <<client, owner>> \in Fanout(Events(Log)) <=>
              /\ Asked(client, owner) # {} /\ ~ IsBenign(owner)
              /\ Cardinality({e.domain : e \in Asked(client, owner)}) >= FanoutMin
              /\ 100 * Cardinality({e.domain : e \in Asked(client, owner)})
                    >= FanoutRatio * Cardinality(Asked(client, owner))
<1> DEFINE asked == {ev \in DnsEvents : ev.ip # NoValue /\ ev.domain # NoValue}
           of(c, apex) == {ev \in asked : ev.ip = c /\ Apex(Labels[ev.domain]) = apex}
           groups == {<<ev.ip, Apex(Labels[ev.domain])>> : ev \in asked}
           wide(c, apex) == /\ ~ IsBenign(apex)
                            /\ Cardinality({ev.domain : ev \in of(c, apex)}) >= FanoutMin
                            /\ 100 * Cardinality({ev.domain : ev \in of(c, apex)})
                                  >= FanoutRatio * Cardinality(of(c, apex))
<1>1. Fanout(Events(Log)) = {g \in groups : wide(g[1], g[2])}
  BY Zenon DEF Fanout, DnsEvents
<1>2. of(client, owner) = Asked(client, owner)
  BY DEF Asked
<1>3. <<client, owner>> \in groups <=> of(client, owner) # {}
  <2>1. \A ev : <<ev.ip, Apex(Labels[ev.domain])>> = <<client, owner>>
                   <=> ev.ip = client /\ Apex(Labels[ev.domain]) = owner
    OBVIOUS
  <2> QED BY <2>1
<1>4. <<client, owner>>[1] = client /\ <<client, owner>>[2] = owner
  OBVIOUS
<1> DEFINE g == <<client, owner>>
<1>5. wide(client, owner) <=>
              /\ ~ IsBenign(owner)
              /\ Cardinality({e.domain : e \in Asked(client, owner)}) >= FanoutMin
              /\ 100 * Cardinality({e.domain : e \in Asked(client, owner)})
                    >= FanoutRatio * Cardinality(Asked(client, owner))
  BY <1>2
<1> HIDE DEF wide, groups, of, g
<1>6. g \in Fanout(Events(Log)) <=> g \in groups /\ wide(g[1], g[2])
  BY <1>1
<1>7. g[1] = client /\ g[2] = owner /\ (g \in groups <=> of(client, owner) # {})
  BY <1>3, <1>4 DEF g
<1>8. wide(g[1], g[2]) <=> wide(client, owner)
  BY ONLY <1>7
<1> QED BY <1>2, <1>5, <1>6, <1>7, <1>8 DEF g

\* A client has one event of each lookup, the gateway too: it is not behind itself.
LEMMA OneEventEach ==
    ASSUME Recorded, NEW client, NEW e \in DnsEvents, NEW f \in DnsEvents,
           e.ip = client, f.ip = client, Behind(e) = Behind(f)
    PROVE  e = f
<1>1. PICK k \in LookupMarks(Behind(e)) : LookupOf(e, Behind(e), k)
  BY BehindLookup
<1>2. PICK m \in LookupMarks(Behind(e)) : LookupOf(f, Behind(e), m)
  BY BehindLookup
<1>3. Asker(Behind(e), k) = client /\ Asker(Behind(e), m) = client
  BY <1>1, <1>2, LookupSaysOf
<1>4. k = m
  BY <1>1, <1>2, <1>3, GatewayAssumption DEF LookupMarks, Asker
<1>5. {e} = {f}
  BY ONLY <1>1, <1>2, <1>4 DEF LookupOf
<1> QED BY ONLY <1>5

LEMMA DnsEventsAreFew ==
    ASSUME Recorded
    PROVE  /\ IsFiniteSet(DnsEvents)
           /\ \A S \in SUBSET Answers :
                Cardinality({e \in DnsEvents : Behind(e) \in S}) <= 2 * Cardinality(S)
<1>1. ASSUME NEW S \in SUBSET Answers
      PROVE  LET E == {e \in DnsEvents : Behind(e) \in S}
             IN  IsFiniteSet(E) /\ Cardinality(E) <= 2 * Cardinality(S)
  <2> DEFINE E == {e \in DnsEvents : Behind(e) \in S}
             a == [h \in S |-> {1, 2}]
             b == [h \in S |-> {1}]
             I == Fibres(a, S)
             g == [e \in E |-> e.id]
  <2>1. IsFiniteSet(S)
    BY AnswersAre, FS_Subset
  <2>2. \A e \in E : \E k \in {1, 2} : LookupOf(e, Behind(e), k)
    BY BehindLookup DEF LookupMarks
  <2>3. ASSUME NEW e \in E PROVE e.id \in I
    <3>1. PICK k \in {1, 2} : LookupOf(e, Behind(e), k)
      BY <2>2
    <3>2. e.id = <<Behind(e), k>>
      BY <3>1, LookupSaysOf
    <3> QED BY <3>2 DEF Fibres
  <2>4. ASSUME NEW e \in E, NEW f \in E, e.id = f.id PROVE e = f
    <3>1. PICK k \in {1, 2} : LookupOf(e, Behind(e), k)
      BY <2>2
    <3>2. PICK m \in {1, 2} : LookupOf(f, Behind(f), m)
      BY <2>2
    <3>3. <<Behind(e), k>> = <<Behind(f), m>>
      BY ONLY <2>4, <3>1, <3>2, LookupSaysOf
    <3>4. Behind(e) = Behind(f) /\ k = m
      BY ONLY <3>3
    <3>5. {e} = {f}
      BY ONLY <3>1, <3>2, <3>4 DEF LookupOf
    <3> QED BY ONLY <3>5
  <2>5. \A h \in S : /\ IsFiniteSet(a[h]) /\ IsFiniteSet(b[h])
                     /\ Cardinality(a[h]) <= 2 * Cardinality(b[h])
    BY SmallSets
  <2>6. Cardinality(Fibres(b, S)) = Cardinality(S)
    BY <2>1, OnesCount
  <2>7. IsFiniteSet(I) /\ Cardinality(I) <= 2 * Cardinality(Fibres(b, S)) /\ Cardinality(I) \in Nat
    <3>1. \A h \in S : IsFiniteSet(a[h])
      BY <2>5
    <3> HIDE DEF a, b
    <3> QED BY <2>1, <2>5, <3>1, FibresCompare, FibresAreFinite
  <2>8. g \in Injection(E, I)
    BY <2>3, <2>4 DEF Injection, IsInjective
  <2> HIDE DEF g, E, I, b
  <2>9. IsFiniteSet(E) /\ Cardinality(E) <= Cardinality(I)
    BY <2>7, <2>8, FS_Injection
  <2>10. Cardinality(E) \in Nat /\ Cardinality(S) \in Nat
    BY <2>1, <2>9, FS_CardinalityType
  <2>11. Cardinality(E) <= 2 * Cardinality(S)
    BY ONLY <2>6, <2>7, <2>9, <2>10
  <2> QED BY <2>9, <2>11 DEF E
<1>2. DnsEvents = {e \in DnsEvents : Behind(e) \in Answers}
  BY BehindLookup
<1>3. IsFiniteSet({e \in DnsEvents : Behind(e) \in Answers})
  BY <1>1
<1> QED BY <1>1, <1>2, <1>3

LEMMA HundredTimes ==
    ASSUME NEW n \in Nat, NEW m \in Nat, m <= n, NEW r \in 0..100
    PROVE  100 * n >= r * m
<1>1. r * m <= r * n
  BY SMTT(30)
<1>2. r * n <= 100 * n
  BY SMTT(30)
<1>3. r * m \in Nat /\ r * n \in Nat
  BY SMTT(30)
<1> QED BY <1>1, <1>2, <1>3

LEMMA HidingTold == Recorded /\ Analysed => HidingIsTold
<1> SUFFICES ASSUME Recorded, Analysed, report.made PROVE HidingIsTold
  BY DEF HidingIsTold
<1>1. report.tunnels = Fanout(Events(Log)) /\ report.carriers = QtypeOutliers(Events(Log))
  BY DEF Analysed
<1>2. ASSUME NEW t \in report.tunnels
      PROVE  t[2] \in Owners /\ Cardinality(NamesOf(t[2], AskedBy(t[1]))) >= FanoutMin
  <2>1. t = <<t[1], t[2]>>
    BY <1>1 DEF Fanout
  <2>2. /\ Asked(t[1], t[2]) # {}
        /\ Cardinality({e.domain : e \in Asked(t[1], t[2])}) >= FanoutMin
    BY <1>1, <2>1, FanoutIs
  <2>3. PICK e \in Asked(t[1], t[2]) : TRUE
    BY <2>2
  <2>4. t[1] # NoValue /\ Apex(Labels[e.domain]) = t[2] /\ e \in DnsEvents
    BY <2>3 DEF Asked
  <2>5. e.domain \in DOMAIN Labels \ {NoValue}
    BY <2>4, BehindLookup, AnswersAre
  <2>6. t[2] \in Owners
    BY <2>4, <2>5, ApexIs DEF Owners
  <2> QED BY <2>2, <2>4, <2>6, NamesAre
<1>3. ASSUME NEW h \in Answers, h.incident.ip # Gateway, ~ IsBenign(Owner[h.incident.domain]),
             Cardinality(NamesOf(Owner[h.incident.domain], AskedBy(h.incident.ip))) >= FanoutMin,
             \A d \in NamesOf(Owner[h.incident.domain], AskedBy(h.incident.ip)) :
                Cardinality({o \in AskedBy(h.incident.ip) : o.incident.domain = d}) = 1
      PROVE  <<h.incident.ip, Owner[h.incident.domain]>> \in report.tunnels
  <2> DEFINE client == h.incident.ip
             owner == Owner[h.incident.domain]
             names == NamesOf(owner, AskedBy(client))
             A == Asked(client, owner)
             g == [e \in A |-> e.domain]
  <2>1. client # NoValue
    BY AnswersAre
  <2> HIDE DEF client, owner
  <2>2. {e.domain : e \in A} = names
    BY <2>1, NamesAre
  <2>3. ASSUME NEW e \in A, NEW f \in A, e.domain = f.domain PROVE e = f
    <3> DEFINE S == {o \in AskedBy(client) : o.incident.domain = e.domain}
    <3>1. e \in DnsEvents /\ f \in DnsEvents /\ e.ip = client /\ f.ip = client
      BY DEF Asked
    <3>2. Behind(e) \in S /\ Behind(f) \in S
      BY <2>3, <3>1, BehindLookup
    <3>3. Cardinality(S) = 1
      BY <1>3, <2>2 DEF client, owner
    <3>4. IsFiniteSet(S)
      <4>1. S \subseteq Answers
        BY DEF AskedBy
      <4> QED BY <4>1, AnswersAre, FS_Subset
    <3> HIDE DEF S
    <3>5. Behind(e) = Behind(f)
      BY <3>2, <3>3, <3>4, TwoAreMore
    <3> QED BY <3>1, <3>5, OneEventEach
  <2>4. IsFiniteSet(A)
    BY DnsEventsAreFew, FS_Subset DEF Asked
  <2>5. Cardinality({e.domain : e \in A}) = Cardinality(A) /\ Cardinality(A) \in Nat
    <3>1. \A e, f \in A : g[e] = g[f] => e = f
      BY <2>3
    <3>2. {e.domain : e \in A} = {g[e] : e \in A}
      OBVIOUS
    <3> HIDE DEF g, A
    <3>3. Cardinality({g[e] : e \in A}) = Cardinality(A)
      BY ONLY <2>4, <3>1, ToldApart
    <3> QED BY <2>4, <3>2, <3>3, FS_CardinalityType
  <2>6. Cardinality(names) >= FanoutMin
    BY <1>3 DEF client, owner
  <2> DEFINE n == Cardinality(A)
  <2>7. n \in Nat /\ n >= FanoutMin
    BY <2>2, <2>5, <2>6
  <2>8. A # {}
    <3>1. n # 0
      <4> HIDE DEF n
      <4> QED BY <2>7, LookupsAssumption
    <3> QED BY <3>1, FS_EmptySet
  <2>9. 100 * n >= FanoutRatio * n
    <3> HIDE DEF n
    <3>1. FanoutRatio \in 0..100 /\ n <= n
      BY <2>7, LookupsAssumption
    <3> QED BY <2>7, <3>1, HundredTimes
  <2>10. ~ IsBenign(owner)
    BY <1>3 DEF owner
  <2>11. <<client, owner>> \in Fanout(Events(Log))
    <3>1. Cardinality({e.domain : e \in A}) >= FanoutMin
      BY <2>5, <2>7
    <3>2. 100 * Cardinality({e.domain : e \in A}) >= FanoutRatio * Cardinality(A)
      BY <2>5, <2>9
    <3> QED BY <2>8, <2>10, <3>1, <3>2, FanoutIs
  <2> QED BY <1>1, <2>11 DEF client, owner
<1>4. ASSUME NEW d \in report.carriers
      PROVE  2 * Cardinality({h \in Answers : h.incident.domain = d
                                /\ h.incident.detail \in TunnelQtypes}) >= QtypeMin
  <2> DEFINE S == {h \in Answers : h.incident.domain = d /\ h.incident.detail \in TunnelQtypes}
             C == {ev \in DnsEvents : ev.domain = d /\ ev.detail \in TunnelQtypes}
  <2>1. Cardinality(C) >= QtypeMin
    BY <1>1, <1>4 DEF QtypeOutliers, DnsEvents
  <2>2. C = {e \in DnsEvents : Behind(e) \in S}
    BY BehindLookup
  <2>3. S \in SUBSET Answers
    OBVIOUS
  <2>4. IsFiniteSet(C) /\ IsFiniteSet(S)
    BY DnsEventsAreFew, AnswersAre, FS_Subset
  <2> HIDE DEF S, C
  <2>5. Cardinality(C) <= 2 * Cardinality(S)
    BY <2>2, <2>3, DnsEventsAreFew
  <2>6. Cardinality(C) \in Nat /\ Cardinality(S) \in Nat /\ QtypeMin \in Nat
    BY <2>4, FS_CardinalityType, LookupsAssumption
  <2>7. 2 * Cardinality(S) >= QtypeMin
    BY ONLY <2>1, <2>5, <2>6
  <2> QED BY <2>7 DEF S
<1> QED BY <1>2, <1>3, <1>4 DEF HidingIsTold

\* Who hides traffic in an owner's names, each asked for once, is told of, however the
\* gateway repeats lookups, and nobody else is; a name that is told of for its record
\* types was asked for often enough.
THEOREM HidingTells == Spec => []HidingIsTold
BY HidingTold, RecordedInvariant, AnalysedInvariant, PTL

-----------------------------------------------------------------------------
(* Falls off the Wi-Fi *)

Fell == Deauths(Events(Log))
FellOff == Those({"deauth"})

\* Each fall has one event, which tells of its device and its time.
LEMMA FallHasEvent ==
    ASSUME Recorded, NEW h \in FellOff
    PROVE  \E e \in Fell : Behind(e) = h
<1>1. h \in happened /\ h.incident.what = "deauth" /\ IsIncident(h.incident) /\ Timed(h)
  BY Known DEF FellOff, Those
<1>2. LinesOf(h.incident) = OtherLines(h.incident)
  <2>1. h.incident.what \in Verdicts \cup OtherWhats
    BY <1>1 DEF OtherWhats
  <2> QED BY <1>1, <2>1, OtherSays
<1>3. OtherLines(h.incident) = <<Bare(h.incident, "wifi", "deauth")>>
  BY <1>1 DEF OtherLines, Verdicts
<1>4. 1 \in DOMAIN LinesOf(h.incident)
  BY ONLY <1>2, <1>3, OneLine
<1>5. PICK e : Normalize(At(h, 1)) = {e} /\ Falls_(e, h, 1)
  BY <1>1, <1>4, DeauthTells
<1>6. e \in Events(Log)
  BY <1>1, <1>4, <1>5, EventsAre
<1>7. e \in Fell /\ Behind(e) = h
  BY <1>5, <1>6 DEF Fell, Deauths, WithAction, OfKind, Falls_, Behind
<1> QED BY <1>7

\* No attempt to log on is told of as a fall.
LEMMA NeverADeauth ==
    ASSUME NEW i, NEW k \in DOMAIN Tells(i)
    PROVE  Tells(i)[k] # "deauth"
<1>1. CASE i.what = "dropbear guess"
  BY <1>1 DEF Tells, NoValue
<1>2. CASE i.what # "dropbear guess"
  <2> DEFINE acts == {"ssh_accepted", "ssh_failed", "ssh_invalid", NoValue, "logon_success",
                      "privileged", "logon_failed", "web_login_success", "web_login_failed"}
  <2>1. \/ Tells(i) = <<>>
        \/ \E a \in acts : Tells(i) = <<a>>
        \/ \E a, b \in acts : Tells(i) = <<a, b>>
        \/ \E a, b, c \in acts : Tells(i) = <<a, b, c>>
    BY <1>2 DEF Tells
  <2>2. "deauth" \notin acts
    BY DEF NoValue
  <2> HIDE DEF acts
  <2>3. Tells(i)[k] \in acts
    BY ONLY <2>1, k \in DOMAIN Tells(i)
  <2> QED BY <2>2, <2>3
<1> QED BY <1>1, <1>2

LEMMA EventOfFall ==
    ASSUME Recorded, NEW e \in Fell
    PROVE  LET h == Behind(e)
           IN  /\ h \in FellOff /\ e.user = h.incident.user /\ e.ts = h.ts
               /\ e.user # NoValue /\ e.ts \in 0..scene.until
               /\ Normalize(At(h, 1)) = {e}
<1>1. e \in Events(Log) /\ e.kind = "auth" /\ e.action = "deauth"
  BY DEF Fell, Deauths, WithAction, OfKind
<1>2. PICK h \in happened : \E k \in DOMAIN LinesOf(h.incident) : e \in Normalize(At(h, k))
  BY <1>1, EventsAre
<1>3. PICK k \in DOMAIN LinesOf(h.incident) : e \in Normalize(At(h, k))
  BY <1>2
<1>4. IsIncident(h.incident) /\ Timed(h)
  BY Known
<1>5. h.incident.what = "deauth"
  <2>1. ASSUME h.incident.what \in AuthWhats PROVE FALSE
    <3>1. LineTells(h, k)
      BY <1>4, <2>1, AttemptsTell
    <3>2. \/ e.action \in {"session_open", "session_close"}
          \/ TellsOf(e, h, Tells(h.incident)[k]) /\ Tells(h.incident)[k] # NoValue
             /\ k \in DOMAIN Tells(h.incident)
      BY <1>1, <1>3, <1>4, <2>1, EventOfAttempt
    <3>3. Tells(h.incident)[k] = "deauth" /\ k \in DOMAIN Tells(h.incident)
      BY <1>1, <3>2 DEF TellsOf
    <3> QED BY <1>4, <3>3, NeverADeauth
  <2>2. h.incident.what \notin Verdicts
    BY <1>1, <1>3, <1>4, PacketsPass DEF Passes
  <2>3. ASSUME h.incident.what \in Statuses PROVE FALSE
    <3>1. LookupTells(h, k)
      BY <1>4, <2>3, LookupsTell
    <3>2. e.kind = "dns" \/ e.kind = "system"
      BY <1>3, <3>1 DEF LookupTells, Answering
    <3> QED BY <1>1, <3>2
  <2>4. h.incident.what # "dnsmasq restart"
    BY <1>1, <1>3, <1>4, RestartTells
  <2> QED BY <2>1, <2>2, <2>3, <2>4, LinesHaveIncidents, Sorts DEF OtherWhats
<1>6. PICK f : k = 1 /\ Normalize(At(h, k)) = {f} /\ Falls_(f, h, k)
  BY <1>4, <1>5, DeauthTells
<1>7. f = e
  BY <1>3, <1>6
<1>8. Behind(e) = h /\ e.user = h.incident.user /\ e.ts = h.ts /\ Normalize(At(h, 1)) = {e}
  BY <1>6, <1>7 DEF Falls_, Behind
<1>9. h.incident.user # NoValue
  BY Zenon, <1>4, <1>5 DEF IsIncident
<1>10. h.ts \in 0..scene.until
  <2>1. h.ts \in 0..clock /\ clock \in Nat /\ clock <= scene.until /\ scene.until \in Nat
    BY ScenesAssumption DEF Recorded
  <2> QED BY ONLY <2>1
<1>11. h \in FellOff
  BY <1>5 DEF FellOff, Those
<1> QED BY <1>8, <1>9, <1>10, <1>11

\* A part of 1..n that holds, with a number, all before it, is an initial part.
LEMMA InitialPart ==
    ASSUME NEW n \in Nat, NEW D \in SUBSET (1..n), \A i \in D, j \in 1..n : j <= i => j \in D
    PROVE  /\ IsFiniteSet(D) /\ Cardinality(D) \in 0..n
           /\ D = 1..Cardinality(D)
<1>1. IsFiniteSet(D)
  <2>1. IsFiniteSet(1..n)
    BY OneToN
  <2> QED BY <2>1, FS_Subset
<1>2. CASE D = {}
  <2>1. Cardinality(D) = 0
    BY <1>2, FS_EmptySet
  <2> QED BY <1>1, <1>2, <2>1
<1>3. CASE D # {}
  <2> DEFINE m == Max(D)
  <2>1. D \in SUBSET Nat
    OBVIOUS
  <2>2. m \in D /\ \A i \in D : i <= m
    BY <1>1, <1>3, <2>1, Extremes
  <2> HIDE DEF m
  <2>3. m \in 1..n
    BY <2>2
  <2>4. D = 1..m
    <3>1. ASSUME NEW x \in D PROVE x \in 1..m
      BY <2>2, <2>3
    <3>2. ASSUME NEW x \in 1..m PROVE x \in D
      <4>1. x \in 1..n /\ x <= m
        BY ONLY <2>3, <3>2, n \in Nat
      <4> QED BY <2>2, <4>1
    <3> QED BY <3>1, <3>2
  <2>5. Cardinality(1..m) = m
    BY <2>3, OneToN
  <2> QED BY <1>1, <2>3, <2>4, <2>5
<1> QED BY <1>2, <1>3

\* What is left of a sequence without its first members.
LEMMA RestIs ==
    ASSUME NEW R, NEW s \in Seq(R), NEW n, n = Len(s), NEW p \in 0..n
    PROVE  /\ SubSeq(s, p + 1, n) \in Seq(R) /\ Len(SubSeq(s, p + 1, n)) = n - p
           /\ \A i \in 1..(n - p) : SubSeq(s, p + 1, n)[i] = s[p + i]
<1>1. n \in Nat /\ p \in Nat /\ p <= n
  OBVIOUS
<1>2. \A i \in (p + 1)..n : s[i] \in R
  OBVIOUS
<1>3. Len(SubSeq(s, p + 1, n)) = n - p /\ SubSeq(s, p + 1, n) \in Seq(R)
  BY <1>1, <1>2
<1>4. ASSUME NEW i \in 1..(n - p) PROVE SubSeq(s, p + 1, n)[i] = s[p + i]
  BY <1>1
<1> QED BY <1>3, <1>4

\* A sequence of events in the order of their times.
Ordered(s) == \A i, j \in DOMAIN s : i <= j => s[i].ts <= s[j].ts
Enter(ev, s) == InsertAt(s, 1 + Cardinality({i \in DOMAIN s : s[i].ts <= ev.ts}), ev)

Dated(R) == \A e \in R : e.ts \in Nat
Longer(t, s, ev, R) ==
    /\ t \in Seq(R) /\ Len(t) = Len(s) + 1 /\ Ordered(t)
    /\ {t[i] : i \in DOMAIN t} = {s[i] : i \in DOMAIN s} \cup {ev}

\* An event inserted behind those that are not later keeps the order.
LEMMA EnterKeepsOrder ==
    ASSUME NEW R, Dated(R), NEW s \in Seq(R), Ordered(s), NEW ev \in R
    PROVE  Longer(Enter(ev, s), s, ev, R)
<1> DEFINE n == Len(s)
           D == {i \in DOMAIN s : s[i].ts <= ev.ts}
           p == Cardinality(D)
           t == SubSeq(s, 1, p) \o <<ev>> \o SubSeq(s, p + 1, n)
           u == [i \in 1..(n + 1) |-> IF i <= p THEN s[i] ELSE IF i = p + 1 THEN ev ELSE s[i - 1]]
<1>1. n \in Nat /\ DOMAIN s = 1..n /\ \A i \in 1..n : s[i] \in R /\ s[i].ts \in Nat
  BY DEF Dated
<1>2. ev.ts \in Nat
  BY DEF Dated
<1>3. \A i \in D, j \in 1..n : j <= i => j \in D
  <2> SUFFICES ASSUME NEW i \in D, NEW j \in 1..n, j <= i PROVE j \in D
    OBVIOUS
  <2>1. s[j].ts <= s[i].ts /\ s[i].ts <= ev.ts
    BY <1>1 DEF Ordered
  <2> QED BY <1>1, <1>2, <2>1
<1>4. D \in SUBSET (1..n)
  BY <1>1
<1> HIDE DEF D
<1>5. p \in 0..n /\ D = 1..p
  BY <1>1, <1>3, <1>4, InitialPart
<1>6. \A i \in 1..p : s[i].ts <= ev.ts
  BY <1>5 DEF D
<1>7. \A i \in (p + 1)..n : ev.ts <= s[i].ts
  <2> SUFFICES ASSUME NEW i \in (p + 1)..n PROVE ev.ts <= s[i].ts
    OBVIOUS
  <2>1. i \in 1..n /\ i \notin D
    BY <1>1, <1>5
  <2>2. ~ (s[i].ts <= ev.ts)
    BY <1>1, <2>1 DEF D
  <2> QED BY <1>1, <1>2, <2>1, <2>2
<1>8. Enter(ev, s) = t
  <2> DEFINE q == 1 + p
  <2>1. Enter(ev, s) = SubSeq(s, 1, q - 1) \o <<ev>> \o SubSeq(s, q, n)
    BY Zenon DEF Enter, InsertAt, D
  <2>2. q - 1 = p /\ q = p + 1
    BY <1>1, <1>5
  <2> HIDE DEF p, n, q
  <2> QED BY ONLY Zenon, <2>1, <2>2
<1> HIDE DEF p, n
<1>9. t \in Seq(R) /\ Len(t) = n + 1 /\ \A i \in 1..(n + 1) : t[i] = u[i]
  <2>1. SubSeq(s, 1, p) \in Seq(R) /\ Len(SubSeq(s, 1, p)) = p
        /\ \A i \in 1..p : SubSeq(s, 1, p)[i] = s[i]
    BY <1>1, <1>5 DEF n
  <2>2. SubSeq(s, p + 1, n) \in Seq(R) /\ Len(SubSeq(s, p + 1, n)) = n - p
        /\ \A i \in 1..(n - p) : SubSeq(s, p + 1, n)[i] = s[p + i]
    BY <1>5, RestIs DEF n
  <2> DEFINE a == SubSeq(s, 1, p)
             b == SubSeq(s, p + 1, n)
  <2> HIDE DEF a, b
  <2>3. a \in Seq(R) /\ b \in Seq(R) /\ <<ev>> \in Seq(R) /\ Len(a) = p /\ Len(b) = n - p
    BY <2>1, <2>2 DEF a, b
  <2>4. Len(<<ev>>) = 1 /\ <<ev>>[1] = ev
    OBVIOUS
  <2>5. a \o <<ev>> \in Seq(R) /\ Len(a \o <<ev>>) = p + 1
        /\ \A i \in 1..(p + 1) : (a \o <<ev>>)[i] = IF i <= p THEN a[i] ELSE ev
    BY <2>3, <2>4, <1>5
  <2> DEFINE c == a \o <<ev>>
  <2> HIDE DEF c
  <2>6. c \in Seq(R) /\ Len(c) = p + 1 /\ \A i \in 1..(p + 1) : c[i] = IF i <= p THEN a[i] ELSE ev
    BY <2>5 DEF c
  <2>7. c \o b \in Seq(R) /\ Len(c \o b) = n + 1
        /\ \A i \in 1..(n + 1) : (c \o b)[i] = IF i <= p + 1 THEN c[i] ELSE b[i - (p + 1)]
    BY <2>3, <2>6, <1>1, <1>5
  <2>8. t = c \o b
    BY DEF a, b, c
  <2>9. \A i \in 1..p : a[i] = s[i]
    BY <2>1 DEF a
  <2>10. \A i \in 1..(n - p) : b[i] = s[p + i]
    BY <2>2 DEF b
  <2>11. ASSUME NEW i \in 1..(n + 1) PROVE (c \o b)[i] = u[i]
    <3>1. CASE i <= p
      <4>1. i \in 1..p /\ i \in 1..(p + 1)
        BY <3>1, <1>1, <1>5
      <4> QED BY <3>1, <4>1, <2>6, <2>7, <2>9, <1>5
    <3>2. CASE i = p + 1
      <4>1. i \in 1..(p + 1) /\ ~ (i <= p)
        BY <3>2, <1>1, <1>5
      <4> QED BY <3>2, <4>1, <2>6, <2>7, <1>5
    <3>3. CASE i > p + 1
      <4>1. i - (p + 1) \in 1..(n - p) /\ p + (i - (p + 1)) = i - 1 /\ ~ (i <= p) /\ ~ (i <= p + 1)
            /\ i # p + 1
        BY <3>3, <1>1, <1>5
      <4>2. (c \o b)[i] = b[i - (p + 1)]
        BY <4>1, <2>7
      <4>3. b[i - (p + 1)] = s[i - 1]
        BY <4>1, <2>10
      <4> QED BY <4>1, <4>2, <4>3
    <3>4. i <= p \/ i = p + 1 \/ i > p + 1
      BY <1>1, <1>5
    <3> QED BY ONLY <3>1, <3>2, <3>3, <3>4
  <2> QED BY <2>7, <2>8, <2>11
<1> HIDE DEF t
<1>10. DOMAIN t = 1..(n + 1)
  BY <1>9
<1>11. Ordered(t)
  <2> SUFFICES ASSUME NEW i \in 1..(n + 1), NEW j \in 1..(n + 1), i <= j
               PROVE  u[i].ts <= u[j].ts
    BY <1>9, <1>10 DEF Ordered
  <2>1. \A k, m \in 1..n : k <= m => s[k].ts <= s[m].ts
    BY <1>1 DEF Ordered
  <2>2. CASE j <= p
    <3>1. u[i] = s[i] /\ u[j] = s[j] /\ i \in 1..n /\ j \in 1..n
      BY <2>2, <1>1, <1>5
    <3> QED BY <3>1, <2>1
  <2>3. CASE i <= p /\ j = p + 1
    <3>1. u[i] = s[i] /\ u[j] = ev /\ i \in 1..p
      BY <2>3, <1>1, <1>5
    <3> QED BY <3>1, <1>6
  <2>4. CASE i <= p /\ j > p + 1
    <3>1. u[i] = s[i] /\ u[j] = s[j - 1] /\ i \in 1..n /\ j - 1 \in 1..n /\ i <= j - 1
      BY <2>4, <1>1, <1>5
    <3> QED BY <3>1, <2>1
  <2>5. CASE i = p + 1 /\ j = p + 1
    <3>1. u[i] = ev /\ u[j] = ev
      BY <2>5, <1>1, <1>5
    <3> QED BY <3>1, <1>2
  <2>6. CASE i = p + 1 /\ j > p + 1
    <3>1. u[i] = ev /\ u[j] = s[j - 1] /\ j - 1 \in (p + 1)..n
      BY <2>6, <1>1, <1>5
    <3> QED BY <3>1, <1>7
  <2>7. CASE i > p + 1
    <3>1. u[i] = s[i - 1] /\ u[j] = s[j - 1] /\ i - 1 \in 1..n /\ j - 1 \in 1..n /\ i - 1 <= j - 1
      BY <2>7, <1>1, <1>5
    <3> QED BY <3>1, <2>1
  <2> QED BY <2>2, <2>3, <2>4, <2>5, <2>6, <2>7, <1>1, <1>5
<1>12. {t[i] : i \in DOMAIN t} = {s[i] : i \in DOMAIN s} \cup {ev}
  <2>1. ASSUME NEW i \in 1..(n + 1) PROVE u[i] = ev \/ \E j \in 1..n : u[i] = s[j]
    <3>1. CASE i <= p
      <4>1. i \in 1..n /\ u[i] = s[i]
        BY <3>1, <1>1, <1>5
      <4> QED BY <4>1
    <3>2. CASE i > p + 1
      <4>1. i - 1 \in 1..n /\ u[i] = s[i - 1]
        BY <3>2, <1>1, <1>5
      <4> QED BY <4>1
    <3>3. CASE i = p + 1
      BY <3>3, <1>1, <1>5
    <3> QED BY <3>1, <3>2, <3>3, <1>1, <1>5
  <2>2. ASSUME NEW j \in 1..n PROVE \E i \in 1..(n + 1) : u[i] = s[j]
    <3>1. CASE j <= p
      <4>1. j \in 1..(n + 1) /\ u[j] = s[j]
        BY <3>1, <1>1, <1>5
      <4> QED BY <4>1
    <3>2. CASE j > p
      <4>1. j + 1 \in 1..(n + 1) /\ u[j + 1] = s[j]
        BY <3>2, <1>1, <1>5
      <4> QED BY <4>1
    <3> QED BY <3>1, <3>2, <1>1, <1>5
  <2>3. p + 1 \in 1..(n + 1) /\ u[p + 1] = ev
    BY <1>1, <1>5
  <2> HIDE DEF u
  <2>4. {t[i] : i \in DOMAIN t} = {u[i] : i \in 1..(n + 1)}
    BY <1>9, <1>10
  <2>5. {s[i] : i \in DOMAIN s} = {s[i] : i \in 1..n}
    BY <1>1
  <2>6. {u[i] : i \in 1..(n + 1)} = {s[i] : i \in 1..n} \cup {ev}
    BY ONLY <2>1, <2>2, <2>3
  <2> QED BY <2>4, <2>5, <2>6
<1>13. Longer(t, s, ev, R)
  BY <1>9, <1>11, <1>12 DEF Longer, n
<1> QED BY <1>8, <1>13

\* The fold that puts events in the order of their times, and its first steps.
OrderFold(f, R) ==
    f = [s \in SUBSET R |-> IF s = {} THEN <<>>
            ELSE Enter(CHOOSE x \in s : TRUE, f[s \ {CHOOSE x \in s : TRUE}])]
UpTo(R, n) == {s \in SUBSET R : Cardinality(s) <= n}
OrderFoldUpTo(f, R, n) ==
    f = [s \in UpTo(R, n) |-> IF s = {} THEN <<>>
            ELSE Enter(CHOOSE x \in s : TRUE, f[s \ {CHOOSE x \in s : TRUE}])]

\* A set without one of its elements is smaller.
LEMMA OneLess ==
    ASSUME NEW R, IsFiniteSet(R), NEW s \in SUBSET R, s # {}
    PROVE  LET x == CHOOSE x \in s : TRUE
           IN  /\ x \in s /\ s \ {x} \in SUBSET R
               /\ Cardinality(s) \in Nat \ {0} /\ Cardinality(s \ {x}) = Cardinality(s) - 1
               /\ (s \ {x}) \cup {x} = s
<1> DEFINE x == CHOOSE x \in s : TRUE
<1>1. x \in s
  OBVIOUS
<1> HIDE DEF x
<1>2. IsFiniteSet(s) /\ Cardinality(s) \in Nat
  BY FS_Subset, FS_CardinalityType
<1>3. Cardinality(s) # 0
  BY <1>1, <1>2, FS_EmptySet
<1>4. Cardinality(s \ {x}) = Cardinality(s) - 1
  BY <1>1, <1>2, FS_RemoveElement
<1> QED BY <1>1, <1>2, <1>3, <1>4 DEF x

LEMMA OrderFoldExists ==
    ASSUME NEW R, IsFiniteSet(R)
    PROVE  \E f : OrderFold(f, R)
<1> DEFINE N == {n \in Nat : \E f : OrderFoldUpTo(f, R, n)}
<1>1. 0 \in N
  <2> DEFINE f == [s \in UpTo(R, 0) |-> <<>>]
  <2>1. ASSUME NEW s \in UpTo(R, 0) PROVE s = {}
    <3>1. s \in SUBSET R /\ Cardinality(s) <= 0
      BY DEF UpTo
    <3>2. s # {} => Cardinality(s) \in Nat \ {0}
      BY <3>1, OneLess
    <3> QED BY <3>1, <3>2
  <2>2. OrderFoldUpTo(f, R, 0)
    BY <2>1 DEF OrderFoldUpTo
  <2> QED BY <2>2
<1>2. ASSUME NEW n \in Nat, n \in N PROVE n + 1 \in N
  <2>1. PICK f : OrderFoldUpTo(f, R, n)
    BY <1>2
  <2> DEFINE g == [s \in UpTo(R, n + 1) |-> IF s = {} THEN <<>>
                      ELSE Enter(CHOOSE x \in s : TRUE, f[s \ {CHOOSE x \in s : TRUE}])]
  <2>2. ASSUME NEW s \in UpTo(R, n) PROVE s \in UpTo(R, n + 1) /\ g[s] = f[s]
    <3>1. s \in SUBSET R /\ Cardinality(s) <= n
      BY DEF UpTo
    <3>2. Cardinality(s) \in Nat
      BY <3>1, FS_Subset, FS_CardinalityType
    <3>3. s \in UpTo(R, n + 1)
      BY <3>1, <3>2 DEF UpTo
    <3>4. f[s] = IF s = {} THEN <<>>
                 ELSE Enter(CHOOSE x \in s : TRUE, f[s \ {CHOOSE x \in s : TRUE}])
      BY Zenon, <2>1 DEF OrderFoldUpTo
    <3> QED BY <3>3, <3>4
  <2>3. ASSUME NEW s \in UpTo(R, n + 1), s # {}
        PROVE  s \ {CHOOSE x \in s : TRUE} \in UpTo(R, n)
    <3> DEFINE x == CHOOSE x \in s : TRUE
    <3>1. s \in SUBSET R /\ Cardinality(s) <= n + 1
      BY DEF UpTo
    <3>2. s \ {x} \in SUBSET R /\ Cardinality(s) \in Nat \ {0}
          /\ Cardinality(s \ {x}) = Cardinality(s) - 1
      BY <2>3, <3>1, OneLess
    <3> HIDE DEF x
    <3>3. s \ {x} \in UpTo(R, n)
      BY <3>1, <3>2 DEF UpTo
    <3> QED BY <3>3 DEF x
  <2>4. g = [s \in UpTo(R, n + 1) |-> IF s = {} THEN <<>>
                ELSE Enter(CHOOSE x \in s : TRUE, g[s \ {CHOOSE x \in s : TRUE}])]
    <3>1. ASSUME NEW s \in UpTo(R, n + 1)
          PROVE  g[s] = IF s = {} THEN <<>>
                        ELSE Enter(CHOOSE x \in s : TRUE, g[s \ {CHOOSE x \in s : TRUE}])
      <4> HIDE DEF g
      <4>1. g[s] = IF s = {} THEN <<>>
                   ELSE Enter(CHOOSE x \in s : TRUE, f[s \ {CHOOSE x \in s : TRUE}])
        BY Zenon DEF g
      <4>2. CASE s = {}
        BY <4>1, <4>2
      <4>3. CASE s # {}
        BY <2>2, <2>3, <4>1, <4>3
      <4> QED BY <4>2, <4>3
    <3>2. g = [s \in UpTo(R, n + 1) |-> g[s]]
      OBVIOUS
    <3> HIDE DEF g
    <3> QED BY ONLY Zenon, <3>1, <3>2
  <2>5. OrderFoldUpTo(g, R, n + 1)
    <3> HIDE DEF g
    <3> QED BY Zenon, <2>4 DEF OrderFoldUpTo
  <2> QED BY <2>5
<1>3. Cardinality(R) \in Nat
  BY FS_CardinalityType
<1>4. Cardinality(R) \in N
  <2> HIDE DEF N
  <2>1. Nat \subseteq N
    BY <1>1, <1>2, NatSets
  <2> QED BY <1>3, <2>1
<1>5. PICK f : OrderFoldUpTo(f, R, Cardinality(R))
  BY <1>4
<1>6. UpTo(R, Cardinality(R)) = SUBSET R
  <2>1. ASSUME NEW s \in SUBSET R PROVE Cardinality(s) <= Cardinality(R)
    BY FS_Subset
  <2> QED BY <2>1 DEF UpTo
<1>7. OrderFold(f, R)
  BY Zenon, <1>5, <1>6 DEF OrderFold, OrderFoldUpTo
<1> QED BY <1>7

\* The sequence holds the events, in the order of their times.
Sorts_(s, R) ==
    s \in Seq(R) /\ Len(s) = Cardinality(R) /\ Ordered(s) /\ {s[i] : i \in DOMAIN s} = R

LEMMA NoneSorted == Sorts_(<<>>, {})
<1>1. Cardinality({}) = 0
  BY FS_EmptySet
<1>2. <<>> \in Seq({}) /\ Len(<<>>) = 0 /\ DOMAIN <<>> = {}
  OBVIOUS
<1>3. Ordered(<<>>) /\ {<<>>[i] : i \in DOMAIN <<>>} = {}
  BY <1>2 DEF Ordered
<1> QED BY <1>1, <1>2, <1>3 DEF Sorts_

LEMMA EnterSorts ==
    ASSUME NEW R, IsFiniteSet(R), Dated(R), NEW x \in R, NEW s, Sorts_(s, R \ {x})
    PROVE  Sorts_(Enter(x, s), R)
<1> DEFINE t == Enter(x, s)
<1>1. s \in Seq(R) /\ Ordered(s) /\ {s[i] : i \in DOMAIN s} = R \ {x} /\ Len(s) = Cardinality(R \ {x})
  <2>1. s \in Seq(R \ {x}) /\ R \ {x} \subseteq R
    BY DEF Sorts_
  <2>2. s \in Seq(R)
    BY <2>1, SeqDef
  <2> QED BY <2>2 DEF Sorts_
<1>2. t \in Seq(R) /\ Len(t) = Len(s) + 1 /\ Ordered(t)
      /\ {t[i] : i \in DOMAIN t} = {s[i] : i \in DOMAIN s} \cup {x}
  <2>1. Longer(Enter(x, s), s, x, R)
    BY <1>1, EnterKeepsOrder
  <2> QED BY <2>1 DEF Longer
<1>3. Cardinality(R \ {x}) = Cardinality(R) - 1 /\ Cardinality(R) \in Nat
  BY FS_RemoveElement, FS_CardinalityType
<1> HIDE DEF t
<1>4. Len(t) = Cardinality(R)
  BY ONLY <1>1, <1>2, <1>3
<1>5. {t[i] : i \in DOMAIN t} = R
  <2>1. (R \ {x}) \cup {x} = R
    OBVIOUS
  <2> QED BY <1>1, <1>2, <2>1
<1> QED BY <1>2, <1>4, <1>5 DEF Sorts_, t

LEMMA InOrderSorts ==
    ASSUME NEW R, IsFiniteSet(R), Dated(R)
    PROVE  Sorts_(InOrder(R), R)
<1> DEFINE it == CHOOSE f : OrderFold(f, R)
<1>1. InOrder(R) = it[R]
  BY Zenon DEF InOrder, FoldSet, MapThenFoldSet, OrderFold, Enter
<1>2. OrderFold(it, R)
  BY OrderFoldExists
<1> HIDE DEF it
<1>3. \A s \in SUBSET R : it[s] = IF s = {} THEN <<>>
          ELSE Enter(CHOOSE x \in s : TRUE, it[s \ {CHOOSE x \in s : TRUE}])
  BY Zenon, <1>2 DEF OrderFold
<1> DEFINE N == {n \in Nat : \A s \in SUBSET R : Cardinality(s) = n => Sorts_(it[s], s)}
<1>4. 0 \in N
  <2>1. ASSUME NEW s \in SUBSET R, Cardinality(s) = 0 PROVE Sorts_(it[s], s)
    <3>1. s = {}
      BY <2>1, OneLess
    <3> QED BY <1>3, <3>1, NoneSorted
  <2> QED BY <2>1
<1>5. ASSUME NEW n \in Nat, n \in N PROVE n + 1 \in N
  <2>1. ASSUME NEW s \in SUBSET R, Cardinality(s) = n + 1 PROVE Sorts_(it[s], s)
    <3> DEFINE x == CHOOSE x \in s : TRUE
    <3>1. s # {}
      BY <2>1, FS_EmptySet
    <3>2. it[s] = Enter(x, it[s \ {x}])
      BY <1>3, <3>1
    <3>3. x \in s /\ s \ {x} \in SUBSET R /\ Cardinality(s \ {x}) = Cardinality(s) - 1
      BY <3>1, OneLess
    <3> HIDE DEF x
    <3>4. Cardinality(s \ {x}) = n
      BY <2>1, <3>3
    <3>5. Sorts_(it[s \ {x}], s \ {x})
      BY <1>5, <3>3, <3>4
    <3>6. IsFiniteSet(s) /\ Dated(s)
      BY FS_Subset DEF Dated
    <3>7. Sorts_(Enter(x, it[s \ {x}]), s)
      BY <3>3, <3>5, <3>6, EnterSorts
    <3> QED BY <3>2, <3>7
  <2> QED BY <2>1
<1>6. Cardinality(R) \in N
  <2> HIDE DEF N
  <2>1. Nat \subseteq N
    BY <1>4, <1>5, NatSets
  <2> QED BY <2>1, FS_CardinalityType
<1>7. Sorts_(it[R], R)
  BY <1>6
<1> QED BY <1>1, <1>7

\* The states of the sliding window over s, event after event.
WindowFold(w, s, macs, n) ==
    w = [i \in 0..n |-> IF i = 0 THEN NoWindow(macs) ELSE Slide(s, w[i - 1], i)]

LEMMA WindowFoldExists ==
    ASSUME NEW s, NEW macs, NEW n \in Nat
    PROVE  \E w : WindowFold(w, s, macs, n)
<1> DEFINE N == {m \in Nat : \E w : WindowFold(w, s, macs, m)}
<1>1. 0 \in N
  <2> DEFINE w == [i \in 0..0 |-> NoWindow(macs)]
  <2>1. w = [i \in 0..0 |-> IF i = 0 THEN NoWindow(macs) ELSE Slide(s, w[i - 1], i)]
    <3>1. \A i \in 0..0 : i = 0
      OBVIOUS
    <3> QED BY <3>1
  <2>2. WindowFold(w, s, macs, 0)
    <3> HIDE DEF w
    <3> QED BY Zenon, <2>1 DEF WindowFold
  <2> QED BY <2>2
<1>2. ASSUME NEW m \in Nat, m \in N PROVE m + 1 \in N
  <2>1. PICK v : WindowFold(v, s, macs, m)
    BY <1>2
  <2> DEFINE w == [i \in 0..(m + 1) |-> IF i = 0 THEN NoWindow(macs) ELSE Slide(s, v[i - 1], i)]
  <2>2. \A i \in 0..m : v[i] = IF i = 0 THEN NoWindow(macs) ELSE Slide(s, v[i - 1], i)
    BY Zenon, <2>1 DEF WindowFold
  <2>3. \A i \in 0..m : w[i] = v[i]
    <3>1. \A i \in 0..m : i \in 0..(m + 1)
      OBVIOUS
    <3> QED BY <2>2, <3>1
  <2>4. \A i \in 0..(m + 1) : i # 0 => i - 1 \in 0..m
    OBVIOUS
  <2>5. w = [i \in 0..(m + 1) |-> IF i = 0 THEN NoWindow(macs) ELSE Slide(s, w[i - 1], i)]
    <3>1. ASSUME NEW i \in 0..(m + 1)
          PROVE  w[i] = IF i = 0 THEN NoWindow(macs) ELSE Slide(s, w[i - 1], i)
      <4> HIDE DEF w
      <4>1. w[i] = IF i = 0 THEN NoWindow(macs) ELSE Slide(s, v[i - 1], i)
        BY Zenon DEF w
      <4>2. CASE i = 0
        BY <4>1, <4>2
      <4>3. CASE i # 0
        BY <2>3, <2>4, <4>1, <4>3
      <4> QED BY <4>2, <4>3
    <3>2. w = [i \in 0..(m + 1) |-> w[i]]
      OBVIOUS
    <3> HIDE DEF w
    <3> QED BY ONLY Zenon, <3>1, <3>2
  <2>6. WindowFold(w, s, macs, m + 1)
    <3> HIDE DEF w
    <3> QED BY Zenon, <2>5 DEF WindowFold
  <2> QED BY <2>6
<1>3. n \in N
  <2> HIDE DEF N
  <2> QED BY <1>1, <1>2, NatSets
<1> QED BY <1>3

\* The events up to the i-th that are too old for its window, and their devices.
Far(s, i) == {j \in 1..i : s[i].ts - s[j].ts > MassWindow}
Near(s, i) == {j \in 1..i : s[i].ts - s[j].ts <= MassWindow}
DevicesAt(s, J) == {s[j].user : j \in J}
OfDevice(s, J, m) == {j \in J : s[j].user = m}

\* A sequence of falls, of these devices.
InOrderFell(s, macs) ==
    /\ \A i \in DOMAIN s : s[i].ts \in Nat /\ s[i].user \in macs
    /\ \E n \in Nat : DOMAIN s = 1..n
    /\ Ordered(s)

\* What has left the window is an initial part of the sequence.
LEMMA FarIs ==
    ASSUME NEW s, NEW macs, InOrderFell(s, macs), NEW n \in Nat, DOMAIN s = 1..n, NEW i \in 1..n
    PROVE  /\ IsFiniteSet(Far(s, i)) /\ Cardinality(Far(s, i)) \in 0..(i - 1)
           /\ Far(s, i) = 1..Cardinality(Far(s, i))
           /\ Near(s, i) = (Cardinality(Far(s, i)) + 1)..i
<1>1. i \in Nat /\ \A j \in 1..i : j \in DOMAIN s /\ s[j].ts \in Nat
  BY DEF InOrderFell
<1>2. MassWindow \in Nat
  BY LimitsAssumption
<1>3. \A j, k \in 1..i : j <= k => s[j].ts <= s[k].ts
  BY <1>1 DEF InOrderFell, Ordered
<1> DEFINE D == Far(s, i)
           d == Cardinality(D)
<1>4. \A k \in D, j \in 1..i : j <= k => j \in D
  <2> SUFFICES ASSUME NEW k \in D, NEW j \in 1..i, j <= k PROVE j \in D
    OBVIOUS
  <2>1. k \in 1..i /\ s[i].ts - s[k].ts > MassWindow
    BY DEF Far
  <2>2. s[j].ts <= s[k].ts /\ s[j].ts \in Nat /\ s[k].ts \in Nat /\ s[i].ts \in Nat
    BY <1>1, <1>3, <2>1
  <2>3. s[i].ts - s[j].ts > MassWindow
    BY ONLY <1>2, <2>1, <2>2
  <2> QED BY <2>3 DEF Far
<1>5. i \notin D
  BY <1>1, <1>2 DEF Far
<1>6. D \in SUBSET (1..i)
  BY DEF Far
<1> HIDE DEF D
<1>7. IsFiniteSet(D) /\ d \in 0..i /\ D = 1..d
  BY <1>1, <1>4, <1>6, InitialPart
<1>8. d # i
  BY <1>5, <1>7
<1>9. Near(s, i) = (1..i) \ D
  BY <1>1, <1>2 DEF Near, Far, D
<1> HIDE DEF d
<1>10. (1..i) \ (1..d) = (d + 1)..i /\ d \in 0..(i - 1)
  BY <1>1, <1>7, <1>8
<1> QED BY <1>7, <1>9, <1>10 DEF D, d

\* The window after i events: it holds those that are near the i-th, counts their
\* devices, and knows the most of them that any event had near it.
Holds(w, s, macs, i) ==
    /\ w = [left |-> w.left, counts |-> w.counts, best |-> w.best]
    /\ w.left \in 1..(i + 1) /\ (i = 0 => w.left = 1) /\ (i > 0 => Near(s, i) = w.left..i)
    /\ w.counts = [m \in macs |-> Cardinality(OfDevice(s, w.left..i, m))]
    /\ w.best = {} \/ \E k \in 1..i : w.best = DevicesAt(s, Near(s, k))
    /\ \A k \in 1..i : Cardinality(DevicesAt(s, Near(s, k))) <= Cardinality(w.best)

LEMMA FirstHolds ==
    ASSUME NEW s, NEW macs
    PROVE  Holds(NoWindow(macs), s, macs, 0)
<1>1. \A m \in macs : Cardinality(OfDevice(s, 1..0, m)) = 0
  <2>1. 1..0 = {}
    OBVIOUS
  <2>2. \A m \in macs : OfDevice(s, 1..0, m) = {}
    BY <2>1 DEF OfDevice
  <2> QED BY <2>2, FS_EmptySet
<1> DEFINE w == NoWindow(macs)
<1>2. w = [left |-> 1, counts |-> [m \in macs |-> 0], best |-> {}]
  BY DEF NoWindow
<1> HIDE DEF w
<1>3. w.left = 1 /\ w.counts = [m \in macs |-> 0] /\ w.best = {}
      /\ w = [left |-> w.left, counts |-> w.counts, best |-> w.best]
  BY ONLY <1>2
<1>4. w.counts = [m \in macs |-> Cardinality(OfDevice(s, w.left..0, m))]
  BY ONLY <1>1, <1>3
<1>5. 1 \in 1..(0 + 1) /\ 1..0 = {} /\ ~ (0 > 0)
  OBVIOUS
<1>6. Holds(w, s, macs, 0)
  BY ONLY Zenon, <1>3, <1>4, <1>5 DEF Holds
<1> QED BY <1>6 DEF w

LEMMA DevicesAreFinite ==
    ASSUME NEW s, NEW a \in Nat, NEW b \in Nat, NEW m
    PROVE  IsFiniteSet(OfDevice(s, a..b, m)) /\ Cardinality(OfDevice(s, a..b, m)) \in Nat
<1>1. IsFiniteSet(a..b)
  BY FS_Interval
<1>2. OfDevice(s, a..b, m) \subseteq a..b
  BY DEF OfDevice
<1> QED BY <1>1, <1>2, FS_Subset, FS_CardinalityType

\* Counting the events of a device between two numbers: one more at the right, and
\* those that leave at the left.
LEMMA OneMoreOfDevice ==
    ASSUME NEW s, NEW l \in Nat, NEW i \in Nat, l <= i, i > 0, NEW m
    PROVE  Cardinality(OfDevice(s, l..i, m)) =
               Cardinality(OfDevice(s, l..(i - 1), m)) + (IF s[i].user = m THEN 1 ELSE 0)
<1> DEFINE A == OfDevice(s, l..(i - 1), m)
           B == OfDevice(s, l..i, m)
<1>1. i - 1 \in Nat /\ i \notin l..(i - 1) /\ l..i = (l..(i - 1)) \cup {i}
  OBVIOUS
<1>2. IsFiniteSet(A) /\ Cardinality(A) \in Nat
  BY <1>1, DevicesAreFinite
<1>3. i \notin A
  BY <1>1 DEF OfDevice
<1>4. CASE s[i].user = m
  <2>1. B = A \cup {i}
    BY <1>1, <1>4 DEF OfDevice
  <2> HIDE DEF A, B
  <2>2. Cardinality(B) = Cardinality(A) + 1
    BY <1>2, <1>3, <2>1, FS_AddElement
  <2> QED BY <1>4, <2>2 DEF A, B
<1>5. CASE s[i].user # m
  <2>1. B = A
    BY <1>1, <1>5 DEF OfDevice
  <2> HIDE DEF A, B
  <2>2. Cardinality(B) = Cardinality(A) + 0
    BY <1>2, <2>1
  <2> QED BY <1>5, <2>2 DEF A, B
<1> QED BY <1>4, <1>5

LEMMA SomeLeave ==
    ASSUME NEW s, NEW l \in Nat, NEW d \in Nat, NEW i \in Nat, l <= d + 1, d <= i, NEW m
    PROVE  Cardinality(OfDevice(s, l..i, m)) - Cardinality(OfDevice(s, l..d, m))
               = Cardinality(OfDevice(s, (d + 1)..i, m))
<1> DEFINE A == OfDevice(s, l..d, m)
           B == OfDevice(s, (d + 1)..i, m)
           C == OfDevice(s, l..i, m)
<1>1. l..i = (l..d) \cup ((d + 1)..i) /\ (l..d) \cap ((d + 1)..i) = {} /\ d + 1 \in Nat
  OBVIOUS
<1>2. C = A \cup B /\ A \cap B = {}
  BY <1>1 DEF OfDevice
<1>3. IsFiniteSet(A) /\ Cardinality(A) \in Nat /\ IsFiniteSet(B) /\ Cardinality(B) \in Nat
  BY <1>1, DevicesAreFinite
<1> HIDE DEF A, B, C
<1>4. Cardinality(C) = Cardinality(A) + Cardinality(B) - Cardinality(A \cap B)
  BY <1>2, <1>3, FS_Union
<1>5. Cardinality(A \cap B) = 0
  BY <1>2, FS_EmptySet
<1>6. Cardinality(C) - Cardinality(A) = Cardinality(B)
  BY ONLY <1>3, <1>4, <1>5
<1> QED BY <1>6 DEF A, B, C

LEMMA IntervalSize ==
    ASSUME NEW a \in Nat, NEW b \in Nat, a <= b + 1
    PROVE  Cardinality(a..b) = (b + 1) - a
<1>1. a \in Int /\ b \in Int
  OBVIOUS
<1>2. Cardinality(a..b) = IF a > b THEN 0 ELSE b - a + 1
  BY <1>1, FS_Interval
<1> QED BY <1>1, <1>2

LEMMA SeenIsFinite ==
    ASSUME NEW s, NEW i \in Nat
    PROVE  /\ IsFiniteSet(Near(s, i)) /\ IsFiniteSet(DevicesAt(s, Near(s, i)))
           /\ Cardinality(DevicesAt(s, Near(s, i))) \in Nat
           /\ Cardinality(DevicesAt(s, Near(s, i))) <= i
<1> DEFINE J == Near(s, i)
           f == [j \in J |-> s[j].user]
<1>1. J \subseteq 1..i /\ IsFiniteSet(1..i) /\ Cardinality(1..i) = i
  BY OneToN DEF Near
<1>2. DevicesAt(s, J) = {f[j] : j \in J}
  BY DEF DevicesAt
<1> HIDE DEF J, f
<1>3. IsFiniteSet(J) /\ Cardinality(J) \in Nat /\ Cardinality(J) <= i
  BY <1>1, FS_Subset, FS_CardinalityType
<1>4. IsFiniteSet(DevicesAt(s, J)) /\ Cardinality(DevicesAt(s, J)) \in Nat
      /\ Cardinality(DevicesAt(s, J)) <= Cardinality(J)
  BY <1>2, <1>3, ImageIsSmall
<1>5. Cardinality(DevicesAt(s, J)) <= i
  BY ONLY <1>3, <1>4
<1> QED BY <1>3, <1>4, <1>5 DEF J

\* How many events of each device there are between two numbers.
Tally(s, macs, a, b) == [m \in macs |-> Cardinality(OfDevice(s, a..b, m))]

\* The window moves on by one event.
LEMMA SlideIs ==
    ASSUME NEW s, NEW macs, InOrderFell(s, macs), NEW n \in Nat, DOMAIN s = 1..n, NEW i \in 1..n,
           NEW v, Holds(v, s, macs, i - 1)
    PROVE  LET d == Cardinality(Far(s, i))
           IN  Slide(s, v, i) = [left |-> d + 1, counts |-> Tally(s, macs, d + 1, i),
                                 best |-> Wider(v.best, Tally(s, macs, d + 1, i))]
<1> DEFINE d == Cardinality(Far(s, i))
           l == v.left
           grown == [v.counts EXCEPT ![s[i].user] = @ + 1]
           gone == {j \in l..i : s[i].ts - s[j].ts > MassWindow}
           kept == [m \in DOMAIN grown |-> grown[m] - Cardinality({j \in gone : s[j].user = m})]
           left == Tally(s, macs, d + 1, i)
<1>1. i \in Nat /\ i - 1 \in Nat /\ i > 0 /\ l \in 1..i /\ l \in Nat
  <2>1. l \in 1..((i - 1) + 1)
    BY DEF Holds
  <2> QED BY ONLY <2>1, i \in 1..n, n \in Nat
<1>2. d \in 0..(i - 1) /\ Far(s, i) = 1..d /\ d \in Nat
  BY <1>1, FarIs
<1>3. l <= d + 1
  <2>1. CASE i = 1
    <3>1. l = 1
      BY <1>1, <2>1
    <3> QED BY <1>2, <3>1
  <2>2. CASE i > 1
    <3>1. i - 1 \in 1..n /\ i - 1 > 0
      BY <1>1, <2>2
    <3>2. Near(s, i - 1) = l..(i - 1)
      BY <3>1 DEF Holds
    <3>3. s[i - 1].ts \in Nat /\ s[i].ts \in Nat /\ s[i - 1].ts <= s[i].ts
      <4>1. i - 1 \in DOMAIN s /\ i \in DOMAIN s /\ i - 1 <= i
        BY <3>1
      <4> QED BY <4>1 DEF InOrderFell, Ordered
    <3>4. ASSUME l > d + 1 PROVE FALSE
      <4>1. l - 1 \in 1..i /\ l - 1 \in 1..n /\ l - 1 \in 1..(i - 1) /\ l - 1 \notin l..(i - 1)
            /\ l - 1 \notin 1..d
        BY <1>1, <1>2, <3>4
      <4>2. s[l - 1].ts \in Nat
        BY <4>1 DEF InOrderFell
      <4>3. ~ (s[i].ts - s[l - 1].ts > MassWindow)
        BY <1>2, <4>1 DEF Far
      <4>4. ~ (s[i - 1].ts - s[l - 1].ts <= MassWindow)
        BY <3>2, <4>1 DEF Near
      <4>5. MassWindow \in Nat
        BY LimitsAssumption
      <4> QED BY ONLY <3>3, <4>2, <4>3, <4>4, <4>5
    <3> QED BY <1>1, <1>2, <3>4
  <2> QED BY <1>1, <2>1, <2>2
<1>4. gone = l..d
  <2>1. gone = (l..i) \cap Far(s, i)
    <3>1. l..i \subseteq 1..i
      BY <1>1
    <3> QED BY <3>1 DEF Far
  <2>2. (l..i) \cap (1..d) = l..d
    BY <1>1, <1>2
  <2> QED BY <1>2, <2>1, <2>2
<1>5. Cardinality(gone) = (d + 1) - l
  <2>1. Cardinality(l..d) = (d + 1) - l
    <3> HIDE DEF l, d
    <3> QED BY <1>1, <1>2, <1>3, IntervalSize
  <2> HIDE DEF gone
  <2> QED BY <1>4, <2>1
<1>6. l + Cardinality(gone) = d + 1
  BY <1>1, <1>2, <1>5
<1>7. v.counts = [m \in macs |-> Cardinality(OfDevice(s, l..(i - 1), m))]
  BY Zenon DEF Holds
<1>8. DOMAIN grown = macs
      /\ \A m \in macs : grown[m] = Cardinality(OfDevice(s, l..i, m))
  <2> DEFINE c == v.counts
             u == s[i].user
  <2>1. c = [m \in macs |-> Cardinality(OfDevice(s, l..(i - 1), m))]
    BY <1>7
  <2>2. \A m \in macs : Cardinality(OfDevice(s, l..i, m)) =
               Cardinality(OfDevice(s, l..(i - 1), m)) + (IF u = m THEN 1 ELSE 0)
    BY <1>1, OneMoreOfDevice
  <2>3. \A m \in macs : Cardinality(OfDevice(s, l..(i - 1), m)) \in Nat
    BY <1>1, DevicesAreFinite
  <2>4. u \in macs
    BY DEF InOrderFell
  <2>5. grown = [c EXCEPT ![u] = @ + 1]
    OBVIOUS
  <2> HIDE DEF c, u, grown, l
  <2> QED BY ONLY <2>1, <2>2, <2>3, <2>4, <2>5
<1> HIDE DEF grown
<1>9. \A m \in macs : {j \in gone : s[j].user = m} = OfDevice(s, l..d, m)
  <2> HIDE DEF gone
  <2> QED BY <1>4 DEF OfDevice
<1>10. \A m \in macs : Cardinality(OfDevice(s, l..i, m)) - Cardinality(OfDevice(s, l..d, m))
                         = Cardinality(OfDevice(s, (d + 1)..i, m))
  <2>1. d <= i
    BY <1>1, <1>2
  <2> HIDE DEF d, l
  <2> QED BY <1>1, <1>2, <1>3, <2>1, SomeLeave
<1>11. kept = left
  <2> HIDE DEF gone, d, l
  <2> QED BY <1>8, <1>9, <1>10 DEF Tally
<1>12. Slide(s, v, i) = [left |-> l + Cardinality(gone), counts |-> kept,
                         best |-> Wider(v.best, kept)]
  BY Zenon DEF Slide, grown
<1> HIDE DEF kept, left, gone, l, d
<1>13. Slide(s, v, i) = [left |-> d + 1, counts |-> left, best |-> Wider(v.best, left)]
  BY <1>6, <1>11, <1>12
<1> QED BY Zenon, <1>13 DEF left, d

\* The devices that a window counts are those of the events in it.
LEMMA InWindowIs ==
    ASSUME NEW s, NEW macs, NEW a \in Nat, NEW b \in Nat, \A j \in a..b : s[j].user \in macs
    PROVE  InWindow(Tally(s, macs, a, b)) = DevicesAt(s, a..b)
<1> DEFINE c == Tally(s, macs, a, b)
<1>1. InWindow(c) = {m \in macs : Cardinality(OfDevice(s, a..b, m)) > 0}
  BY DEF InWindow, Tally
<1>2. ASSUME NEW m \in macs
      PROVE  Cardinality(OfDevice(s, a..b, m)) > 0 <=> OfDevice(s, a..b, m) # {}
  <2> DEFINE D == OfDevice(s, a..b, m)
  <2>1. IsFiniteSet(D) /\ Cardinality(D) \in Nat
    BY DevicesAreFinite
  <2> HIDE DEF D
  <2>2. Cardinality(D) = 0 <=> D = {}
    BY <2>1, FS_EmptySet
  <2>3. Cardinality(D) > 0 <=> D # {}
    BY <2>1, <2>2
  <2> QED BY <2>3 DEF D
<1>3. ASSUME NEW m \in macs
      PROVE  OfDevice(s, a..b, m) # {} <=> m \in DevicesAt(s, a..b)
  BY DEF OfDevice, DevicesAt
<1>4. DevicesAt(s, a..b) \subseteq macs
  BY DEF DevicesAt
<1> HIDE DEF c
<1>5. InWindow(c) = DevicesAt(s, a..b)
  BY <1>1, <1>2, <1>3, <1>4
<1> QED BY <1>5 DEF c

LEMMA SlideHolds ==
    ASSUME NEW s, NEW macs, InOrderFell(s, macs), NEW n \in Nat, DOMAIN s = 1..n, NEW i \in 1..n,
           NEW v, Holds(v, s, macs, i - 1)
    PROVE  Holds(Slide(s, v, i), s, macs, i)
<1> DEFINE d == Cardinality(Far(s, i))
           kept == Tally(s, macs, d + 1, i)
           w == Slide(s, v, i)
           seen == DevicesAt(s, Near(s, i))
           b == v.best
<1>1. w = [left |-> d + 1, counts |-> kept, best |-> Wider(b, kept)]
  BY SlideIs
<1>2. d \in 0..(i - 1) /\ Near(s, i) = (d + 1)..i
  BY FarIs
<1>3. InWindow(kept) = seen
  <2>1. d + 1 \in Nat /\ i \in Nat /\ \A j \in (d + 1)..i : j \in DOMAIN s
    BY <1>2
  <2>2. \A j \in (d + 1)..i : s[j].user \in macs
    BY <2>1 DEF InOrderFell
  <2> HIDE DEF d
  <2>3. InWindow(kept) = DevicesAt(s, (d + 1)..i)
    BY <2>1, <2>2, InWindowIs
  <2> QED BY <1>2, <2>3
<1>4. b = {} \/ \E k \in 1..(i - 1) : b = DevicesAt(s, Near(s, k))
  BY Zenon DEF Holds
<1>5. \A k \in 1..(i - 1) : Cardinality(DevicesAt(s, Near(s, k))) <= Cardinality(b)
  BY Zenon DEF Holds
<1>6. \A k \in 1..i : k \in Nat /\ (k \in 1..(i - 1) \/ k = i)
  OBVIOUS
<1>7. \A k \in 1..(i - 1) : k \in 1..i
  OBVIOUS
<1>8. Cardinality(b) \in Nat
  <2>1. CASE b = {}
    BY <2>1, FS_EmptySet
  <2>2. CASE b # {}
    <3>1. PICK k \in 1..(i - 1) : b = DevicesAt(s, Near(s, k))
      BY <1>4, <2>2
    <3> QED BY <1>6, <1>7, <3>1, SeenIsFinite
  <2> QED BY <2>1, <2>2
<1>9. \A k \in 1..i : Cardinality(DevicesAt(s, Near(s, k))) \in Nat
  BY <1>6, SeenIsFinite
<1>10. i \in 1..i
  OBVIOUS
<1> DEFINE wider == Wider(b, kept)
<1>11. wider = IF Cardinality(seen) > Cardinality(b) THEN seen ELSE b
  BY <1>3 DEF Wider
<1> HIDE DEF b, wider, kept, w
<1>12. wider = {} \/ \E k \in 1..i : wider = DevicesAt(s, Near(s, k))
  <2>1. wider = seen \/ wider = b
    BY <1>11
  <2> QED BY <1>4, <1>7, <1>10, <2>1
<1>13. \A k \in 1..i : Cardinality(DevicesAt(s, Near(s, k))) <= Cardinality(wider)
  <2> SUFFICES ASSUME NEW k \in 1..i PROVE Cardinality(DevicesAt(s, Near(s, k))) <= Cardinality(wider)
    OBVIOUS
  <2> DEFINE x == Cardinality(DevicesAt(s, Near(s, k)))
             y == Cardinality(b)
             z == Cardinality(seen)
  <2>1. x \in Nat /\ y \in Nat /\ z \in Nat
    BY <1>8, <1>9, <1>10
  <2>2. x <= y \/ x = z
    BY <1>5, <1>6
  <2>3. Cardinality(wider) = (IF z > y THEN z ELSE y)
    BY <1>11
  <2> HIDE DEF x, y, z
  <2>4. x <= Cardinality(wider)
    BY ONLY <2>1, <2>2, <2>3
  <2> QED BY <2>4 DEF x
<1>14. w.left = d + 1 /\ w.counts = kept /\ w.best = wider
       /\ w = [left |-> w.left, counts |-> w.counts, best |-> w.best]
  <2> HIDE DEF d
  <2> QED BY ONLY <1>1 DEF wider
<1>15. w.counts = [m \in macs |-> Cardinality(OfDevice(s, w.left..i, m))]
  BY <1>14 DEF kept, Tally
<1>16. w.left \in 1..(i + 1) /\ ~ (i = 0) /\ Near(s, i) = w.left..i
  <2>1. d + 1 \in 1..(i + 1) /\ ~ (i = 0)
    BY <1>2
  <2> QED BY <1>2, <1>14, <2>1
<1>17. Holds(w, s, macs, i)
  BY Zenon, <1>12, <1>13, <1>14, <1>15, <1>16 DEF Holds
<1> QED BY <1>17 DEF w

\* The widest window names the devices of the events near one of them, and no other
\* event has more devices near it.
LEMMA WidestIs ==
    ASSUME NEW s, NEW macs, InOrderFell(s, macs), NEW R, s \in Seq(R)
    PROVE  LET b == Widest(s, macs)
           IN  /\ b = {} \/ \E k \in 1..Len(s) : b = DevicesAt(s, Near(s, k))
               /\ \A k \in 1..Len(s) : Cardinality(DevicesAt(s, Near(s, k))) <= Cardinality(b)
<1> DEFINE n == Len(s)
           w == CHOOSE w : WindowFold(w, s, macs, n)
<1>1. n \in Nat /\ DOMAIN s = 1..n
  OBVIOUS
<1>2. Widest(s, macs) = w[n].best
  BY Zenon DEF Widest, WindowFold
<1>3. WindowFold(w, s, macs, n)
  <2> HIDE DEF n
  <2> QED BY <1>1, WindowFoldExists
<1> HIDE DEF w, n
<1>4. \A i \in 0..n : w[i] = IF i = 0 THEN NoWindow(macs) ELSE Slide(s, w[i - 1], i)
  BY Zenon, <1>3 DEF WindowFold
<1> DEFINE N == {i \in Nat : i <= n => Holds(w[i], s, macs, i)}
<1>5. 0 \in N
  <2>1. 0 \in 0..n
    BY <1>1
  <2>2. w[0] = NoWindow(macs)
    BY <1>4, <2>1
  <2> QED BY <2>2, FirstHolds
<1>6. ASSUME NEW i \in Nat, i \in N PROVE i + 1 \in N
  <2>1. ASSUME i + 1 <= n PROVE Holds(w[i + 1], s, macs, i + 1)
    <3>1. i <= n /\ i + 1 \in 0..n /\ i + 1 \in 1..n /\ i + 1 # 0 /\ (i + 1) - 1 = i
      BY <1>1, <2>1
    <3>2. Holds(w[i], s, macs, (i + 1) - 1)
      BY <1>6, <3>1
    <3>3. w[i + 1] = Slide(s, w[i], i + 1)
      BY <1>4, <3>1
    <3> QED BY <1>1, <3>1, <3>2, <3>3, SlideHolds
  <2> QED BY <2>1
<1>7. Holds(w[n], s, macs, n)
  <2> HIDE DEF N
  <2>1. n \in N
    BY <1>1, <1>5, <1>6, NatSets
  <2> QED BY <1>1, <2>1 DEF N
<1>8. /\ w[n].best = {} \/ \E k \in 1..n : w[n].best = DevicesAt(s, Near(s, k))
      /\ \A k \in 1..n : Cardinality(DevicesAt(s, Near(s, k))) <= Cardinality(w[n].best)
  BY Zenon, <1>7 DEF Holds
<1> QED BY <1>2, <1>8 DEF n

LEMMA FallsAreFinite ==
    ASSUME Recorded
    PROVE  /\ IsFiniteSet(FellOff) /\ IsFiniteSet(Fell) /\ Dated(Fell)
           /\ Cardinality(Fell) \in Nat /\ Cardinality(FellOff) \in Nat
           /\ Cardinality(Fell) <= Cardinality(FellOff)
<1> DEFINE f == [h \in FellOff |-> CHOOSE e \in Normalize(At(h, 1)) : TRUE]
           T == {f[h] : h \in FellOff}
<1>1. IsFiniteSet(FellOff) /\ Cardinality(FellOff) \in Nat
  BY FS_Subset, FS_CardinalityType DEF FellOff, Those, Recorded
<1>2. ASSUME NEW e \in Fell PROVE e \in T
  <2>1. Behind(e) \in FellOff /\ Normalize(At(Behind(e), 1)) = {e}
    BY EventOfFall
  <2>2. f[Behind(e)] = e
    BY <2>1
  <2> QED BY <2>1, <2>2
<1>3. IsFiniteSet(T) /\ Cardinality(T) \in Nat /\ Cardinality(T) <= Cardinality(FellOff)
  <2> HIDE DEF f
  <2> QED BY <1>1, ImageIsSmall
<1> HIDE DEF f, T
<1>4. IsFiniteSet(Fell) /\ Cardinality(Fell) \in Nat /\ Cardinality(Fell) <= Cardinality(T)
  BY <1>2, <1>3, FS_Subset, FS_CardinalityType
<1>5. \A e \in Fell : e.ts \in Nat
  <2> SUFFICES ASSUME NEW e \in Fell PROVE e.ts \in Nat
    OBVIOUS
  <2>1. e.ts \in 0..scene.until
    BY EventOfFall
  <2> QED BY ONLY <2>1
<1>6. Cardinality(Fell) <= Cardinality(FellOff)
  BY ONLY <1>1, <1>3, <1>4
<1> QED BY <1>1, <1>4, <1>5, <1>6 DEF Dated

Devices == Distinct(Fell, "user")

\* The newest falls, put in order.
LEMMA NewestFalls ==
    ASSUME Recorded, NEW T \in SUBSET Fell
    PROVE  LET s == InOrder(T)
           IN  /\ s \in Seq(T) /\ Len(s) \in Nat /\ DOMAIN s = 1..Len(s)
               /\ {s[i] : i \in 1..Len(s)} = T /\ InOrderFell(s, Devices)
<1> DEFINE s == InOrder(T)
<1>1. IsFiniteSet(T) /\ Dated(T)
  BY FallsAreFinite, FS_Subset DEF Dated
<1>2. Sorts_(s, T)
  BY <1>1, InOrderSorts
<1> HIDE DEF s
<1>3. s \in Seq(T) /\ Ordered(s) /\ {s[i] : i \in DOMAIN s} = T
  BY <1>2 DEF Sorts_
<1>4. Len(s) \in Nat /\ DOMAIN s = 1..Len(s)
  BY <1>3
<1>5. ASSUME NEW i \in DOMAIN s PROVE s[i].ts \in Nat /\ s[i].user \in Devices
  <2> DEFINE e == s[i]
  <2>1. e \in T /\ e \in Fell
    BY <1>3
  <2> HIDE DEF e
  <2>2. e.ts \in Nat
    BY <1>1, <2>1 DEF Dated
  <2>3. e.user # NoValue
    BY <2>1, EventOfFall
  <2>4. e.user \in Devices
    BY <2>1, <2>3 DEF Devices, Distinct
  <2> QED BY <2>2, <2>4 DEF e
<1>6. InOrderFell(s, Devices)
  BY <1>3, <1>4, <1>5 DEF InOrderFell
<1> QED BY <1>3, <1>4, <1>6 DEF s

\* Devices whose events are near one event fell within one window.
LEMMA NearFallTogether ==
    ASSUME Recorded, NEW T \in SUBSET Fell, NEW s, NEW n \in Nat, DOMAIN s = 1..n,
           {s[i] : i \in 1..n} = T, Ordered(s), NEW k \in 1..n
    PROVE  \E t \in 0..scene.until : DevicesAt(s, Near(s, k)) \subseteq Falling(t)
<1> DEFINE now == s[k].ts
           t == IF now > MassWindow THEN now - MassWindow ELSE 0
<1>1. \A j \in 1..n : s[j] \in Fell
  OBVIOUS
<1>2. \A j \in 1..n : s[j].ts \in 0..scene.until
  BY <1>1, EventOfFall
<1>3. MassWindow \in Nat /\ scene.until \in Nat
  BY LimitsAssumption, ScenesAssumption DEF Recorded
<1>4. now \in 0..scene.until
  BY <1>2
<1>5. ASSUME NEW j \in Near(s, k) PROVE s[j].user \in Falling(t)
  <2>1. j \in 1..n /\ j <= k /\ now - s[j].ts <= MassWindow
    BY DEF Near
  <2>2. s[j].ts <= now
    BY <2>1 DEF Ordered
  <2>3. s[j].ts \in Nat
    BY <1>2, <2>1
  <2> DEFINE h == Behind(s[j])
             x == s[j].ts
  <2>4. h \in FellOff /\ s[j].user = h.incident.user /\ x = h.ts
    BY <1>1, <2>1, EventOfFall
  <2>5. x \in t..(t + MassWindow)
    <3> HIDE DEF now, x
    <3>1. now - x <= MassWindow /\ x <= now /\ x \in Nat /\ now \in Nat
      BY <1>4, <2>1, <2>2, <2>3 DEF now, x
    <3> QED BY ONLY <1>3, <3>1
  <2> HIDE DEF h, x, t
  <2>6. h \in {g \in Those({"deauth"}) : g.ts \in t..(t + MassWindow)}
    BY <2>4, <2>5 DEF FellOff
  <2> QED BY <2>4, <2>6 DEF Falling
<1>6. t \in 0..scene.until
  <2> HIDE DEF now
  <2> QED BY ONLY <1>3, <1>4
<1> HIDE DEF t
<1>7. DevicesAt(s, Near(s, k)) \subseteq Falling(t)
  BY <1>5 DEF DevicesAt
<1> QED BY <1>6, <1>7

\* Devices that fell within one window have events near one of them.
LEMMA TogetherIsNear ==
    ASSUME Recorded, NEW s, NEW n \in Nat, DOMAIN s = 1..n,
           {s[i] : i \in 1..n} = Fell, NEW t \in Nat, Falling(t) # {}
    PROVE  \E k \in 1..n : Falling(t) \subseteq DevicesAt(s, Near(s, k))
<1> DEFINE I == {i \in 1..n : s[i].ts \in t..(t + MassWindow)}
           k == Max(I)
<1>1. \A j \in 1..n : s[j] \in Fell
  OBVIOUS
<1>2. \A j \in 1..n : s[j].ts \in Nat
  BY <1>1, EventOfFall
<1>3. MassWindow \in Nat
  BY LimitsAssumption
<1>4. ASSUME NEW u \in Falling(t) PROVE \E i \in I : s[i].user = u
  <2>1. PICK h \in FellOff : h.ts \in t..(t + MassWindow) /\ u = h.incident.user
    BY DEF Falling, FellOff
  <2>2. PICK e \in Fell : Behind(e) = h
    BY <2>1, FallHasEvent
  <2>3. e.user = u /\ e.ts \in t..(t + MassWindow)
    BY <2>1, <2>2, EventOfFall
  <2>4. PICK i \in 1..n : s[i] = e
    BY <2>2
  <2> QED BY <2>3, <2>4
<1>5. I # {} /\ I \in SUBSET Nat /\ I \subseteq 1..n
  BY <1>4
<1>6. IsFiniteSet(I)
  BY <1>5, OneToN, FS_Subset
<1> HIDE DEF I, k
<1>7. k \in I /\ \A i \in I : i <= k
  BY <1>5, <1>6, Extremes DEF k
<1>8. ASSUME NEW i \in I PROVE i \in Near(s, k)
  <2>1. i \in 1..n /\ k \in 1..n /\ i <= k
    BY <1>5, <1>7
  <2>2. s[i].ts \in t..(t + MassWindow) /\ s[k].ts \in t..(t + MassWindow)
    BY <1>7 DEF I
  <2> DEFINE x == s[i].ts
             y == s[k].ts
  <2>3. y - x <= MassWindow
    <3>1. x \in t..(t + MassWindow) /\ y \in t..(t + MassWindow)
      BY <2>2
    <3> HIDE DEF x, y
    <3> QED BY ONLY <1>3, <3>1, t \in Nat
  <2>4. i \in 1..k
    BY <2>1
  <2> QED BY <2>3, <2>4 DEF Near
<1>9. Falling(t) \subseteq DevicesAt(s, Near(s, k))
  BY <1>4, <1>8 DEF DevicesAt
<1>10. k \in 1..n
  BY <1>5, <1>7
<1> QED BY <1>9, <1>10

LEMMA FallingIsFinite ==
    ASSUME Recorded, NEW t
    PROVE  IsFiniteSet(Falling(t)) /\ Cardinality(Falling(t)) \in Nat
<1> DEFINE H == {h \in Those({"deauth"}) : h.ts \in t..(t + MassWindow)}
           f == [h \in H |-> h.incident.user]
<1>1. IsFiniteSet(H)
  BY FallsAreFinite, FS_Subset DEF FellOff
<1>2. Falling(t) = {f[h] : h \in H}
  BY DEF Falling
<1> HIDE DEF f, H
<1> QED BY <1>1, <1>2, ImageIsSmall

LEMMA SameSize ==
    ASSUME NEW A, NEW B, IsFiniteSet(B), A \subseteq B, Cardinality(B) <= Cardinality(A)
    PROVE  A = B
<1>1. IsFiniteSet(A) /\ Cardinality(A) \in Nat /\ Cardinality(B) \in Nat
      /\ Cardinality(A) <= Cardinality(B) /\ (Cardinality(A) = Cardinality(B) => A = B)
  BY FS_Subset, FS_CardinalityType
<1>2. Cardinality(A) = Cardinality(B)
  BY ONLY <1>1, Cardinality(B) <= Cardinality(A)
<1> QED BY <1>1, <1>2

\* The widest window over some of the falls.
LEMMA WidestOfSome ==
    ASSUME Recorded, NEW T \in SUBSET Fell
    PROVE  LET b == Widest(InOrder(T), Devices)
           IN  /\ Cardinality(b) \in Nat /\ Cardinality(b) <= Len(InOrder(T))
               /\ b = {} \/ \E t \in 0..scene.until : b \subseteq Falling(t)
<1> DEFINE s == InOrder(T)
           n == Len(s)
           b == Widest(s, Devices)
<1>1. s \in Seq(T) /\ n \in Nat /\ DOMAIN s = 1..n /\ {s[i] : i \in 1..n} = T /\ InOrderFell(s, Devices)
  BY NewestFalls
<1> HIDE DEF s
<1>2. b = {} \/ \E k \in 1..n : b = DevicesAt(s, Near(s, k))
  BY <1>1, WidestIs
<1> HIDE DEF b, n
<1>3. CASE b = {}
  <2>1. Cardinality(b) = 0
    BY <1>3, FS_EmptySet
  <2>2. Cardinality(b) \in Nat /\ Cardinality(b) <= n
    BY ONLY <1>1, <2>1
  <2> QED BY <1>3, <2>2 DEF s, b, n
<1>4. CASE b # {}
  <2>1. PICK k \in 1..n : b = DevicesAt(s, Near(s, k))
    BY <1>2, <1>4
  <2>2. k \in Nat /\ k <= n
    BY ONLY <1>1, k \in 1..n
  <2>3. Cardinality(b) \in Nat /\ Cardinality(b) <= k
    BY <2>1, <2>2, SeenIsFinite
  <2>4. Ordered(s)
    BY <1>1 DEF InOrderFell
  <2>5. \E t \in 0..scene.until : b \subseteq Falling(t)
    BY <1>1, <2>1, <2>4, NearFallTogether
  <2>6. Cardinality(b) <= n
    BY ONLY <1>1, <2>2, <2>3
  <2> QED BY <2>3, <2>5, <2>6 DEF s, b, n
<1> QED BY <1>3, <1>4

\* The widest window over all the falls is a widest one there is.
LEMMA WidestOfAll ==
    ASSUME Recorded
    PROVE  LET b == Widest(InOrder(Fell), Devices)
           IN  /\ \E t \in 0..scene.until : b = Falling(t)
               /\ \A t \in 0..scene.until : Cardinality(Falling(t)) <= Cardinality(b)
<1> DEFINE s == InOrder(Fell)
           n == Len(s)
           b == Widest(s, Devices)
<1>1. s \in Seq(Fell) /\ n \in Nat /\ DOMAIN s = 1..n /\ {s[i] : i \in 1..n} = Fell
      /\ InOrderFell(s, Devices)
  BY NewestFalls
<1>2. Cardinality(b) \in Nat /\ (b = {} \/ \E t \in 0..scene.until : b \subseteq Falling(t))
  BY WidestOfSome
<1> HIDE DEF s
<1>3. \A k \in 1..n : Cardinality(DevicesAt(s, Near(s, k))) <= Cardinality(b)
  BY <1>1, WidestIs
<1> HIDE DEF b, n
<1>4. scene.until \in Nat
  BY ScenesAssumption DEF Recorded
<1>5. ASSUME NEW t \in 0..scene.until PROVE Cardinality(Falling(t)) <= Cardinality(b)
  <2>1. CASE Falling(t) = {}
    <3>1. Cardinality(Falling(t)) = 0
      BY <2>1, FS_EmptySet
    <3> QED BY ONLY <1>2, <3>1
  <2>2. CASE Falling(t) # {}
    <3>1. t \in Nat
      BY ONLY <1>4, t \in 0..scene.until
    <3>2. PICK k \in 1..n : Falling(t) \subseteq DevicesAt(s, Near(s, k))
      BY <1>1, <2>2, <3>1, TogetherIsNear
    <3>3. k \in Nat
      BY ONLY <1>1, k \in 1..n
    <3> DEFINE S == DevicesAt(s, Near(s, k))
    <3>4. IsFiniteSet(S) /\ Cardinality(S) \in Nat
      BY <3>3, SeenIsFinite
    <3>5. Cardinality(S) <= Cardinality(b)
      BY <1>3
    <3>6. Falling(t) \subseteq S
      BY <3>2
    <3> HIDE DEF S
    <3>7. Cardinality(Falling(t)) <= Cardinality(S) /\ Cardinality(Falling(t)) \in Nat
      BY <3>4, <3>6, SubsetIsSmall
    <3> QED BY ONLY <1>2, <3>4, <3>5, <3>7
  <2> QED BY <2>1, <2>2
<1>6. \E t \in 0..scene.until : b = Falling(t)
  <2>1. 0 \in 0..scene.until
    BY <1>4
  <2>2. PICK t \in 0..scene.until : b \subseteq Falling(t)
    BY <1>2, <2>1
  <2>3. IsFiniteSet(Falling(t)) /\ Cardinality(Falling(t)) <= Cardinality(b)
    BY <1>5, FallingIsFinite
  <2> QED BY <2>2, <2>3, SameSize
<1> QED BY <1>5, <1>6 DEF s, b, n

LEMMA MassTold == Recorded /\ Analysed => MassDeauthIsTheWidest
<1> SUFFICES ASSUME Recorded, Analysed, report.made PROVE MassDeauthIsTheWidest
  BY DEF MassDeauthIsTheWidest
<1> DEFINE mass == report.mass
           widest == Max({Cardinality(Falling(t)) : t \in 0..scene.until})
<1>1. PICK T \in Newest(Fell, MassSample) :
         mass = IF Len(InOrder(T)) < MassMin \/ Cardinality(Widest(InOrder(T), Devices)) < MassMin
                THEN {} ELSE Widest(InOrder(T), Devices)
  <2>1. mass \in MassDeauth(Events(Log))
    BY DEF Analysed
  <2> HIDE DEF mass
  <2> QED BY <2>1 DEF MassDeauth, Fell, Devices
<1>2. T \in SUBSET Fell /\ T \in kSubset(AtMost(MassSample, Fell), Fell)
  BY <1>1 DEF Newest, kSubset
<1> DEFINE s == InOrder(T)
           b == Widest(s, Devices)
<1>3. Cardinality(b) \in Nat /\ Cardinality(b) <= Len(s)
      /\ (b = {} \/ \E t \in 0..scene.until : b \subseteq Falling(t))
  BY <1>2, WidestOfSome
<1>4. MassMin \in Nat /\ MassSample \in Nat
  BY LimitsAssumption
<1>5. Len(s) \in Nat
  BY <1>2, NewestFalls
<1>6. mass = IF Len(s) < MassMin \/ Cardinality(b) < MassMin THEN {} ELSE b
  BY <1>1
<1>7. mass # {} => Cardinality(mass) >= MassMin
                   /\ \E t \in 0..scene.until : mass \subseteq Falling(t)
  <2> HIDE DEF mass, s, b
  <2> SUFFICES ASSUME mass # {} PROVE Cardinality(mass) >= MassMin
                                      /\ \E t \in 0..scene.until : mass \subseteq Falling(t)
    OBVIOUS
  <2>1. mass = b /\ ~ (Cardinality(b) < MassMin)
    BY <1>6
  <2>2. Cardinality(b) >= MassMin
    BY ONLY <1>3, <1>4, <2>1
  <2> QED BY <1>3, <2>1, <2>2
<1>8. ASSUME Cardinality(Those({"deauth"})) <= MassSample
      PROVE  IF widest < MassMin THEN mass = {}
             ELSE Cardinality(mass) = widest /\ \E t \in 0..scene.until : mass = Falling(t)
  <2>1. Cardinality(Fell) <= MassSample /\ IsFiniteSet(Fell)
    <3>1. /\ Cardinality(Fell) \in Nat /\ Cardinality(FellOff) \in Nat
          /\ Cardinality(Fell) <= Cardinality(FellOff) /\ IsFiniteSet(Fell)
      BY FallsAreFinite
    <3>2. Cardinality(FellOff) <= MassSample
      BY <1>8 DEF FellOff
    <3> QED BY ONLY <1>4, <3>1, <3>2
  <2>2. T = Fell
    BY <1>2, <1>4, <2>1, NoCut
  <2>3. /\ \E t \in 0..scene.until : b = Falling(t)
        /\ \A t \in 0..scene.until : Cardinality(Falling(t)) <= Cardinality(b)
    BY <2>2, WidestOfAll
  <2>4. widest = Cardinality(b)
    <3> DEFINE until == scene.until
               W == {Cardinality(Falling(t)) : t \in 0..until}
               f == [t \in 0..until |-> Cardinality(Falling(t))]
    <3>1. until \in Nat /\ IsFiniteSet(0..until)
      <4>1. until \in Nat
        BY ScenesAssumption DEF Recorded
      <4> QED BY <4>1, FS_Interval
    <3>2. \A t \in 0..until : Cardinality(Falling(t)) \in Nat
      BY FallingIsFinite
    <3>3. W \in SUBSET Nat
      BY <3>2
    <3>4. IsFiniteSet(W)
      <4>1. W = {f[t] : t \in 0..until}
        OBVIOUS
      <4> HIDE DEF f, W
      <4> QED BY <3>1, <4>1, ImageIsSmall
    <3> HIDE DEF b
    <3>5. Cardinality(b) \in W
      BY <2>3
    <3>6. \A x \in W : x <= Cardinality(b)
      BY <2>3
    <3>7. widest = Max(W)
      OBVIOUS
    <3> HIDE DEF W, widest
    <3>8. Max(W) \in W /\ \A x \in W : x <= Max(W)
      BY <3>3, <3>4, <3>5, Extremes
    <3>9. Max(W) \in Nat /\ Max(W) <= Cardinality(b) /\ Cardinality(b) <= Max(W)
      BY <3>3, <3>5, <3>6, <3>8
    <3> QED BY ONLY <1>3, <3>7, <3>9
  <2> HIDE DEF mass, widest, s, b
  <2>5. CASE widest < MassMin
    <3>1. mass = {}
      BY <1>6, <2>4, <2>5
    <3> QED BY <2>5, <3>1
  <2>6. CASE ~ (widest < MassMin)
    <3>1. ~ (Len(s) < MassMin)
      BY ONLY <1>3, <1>4, <1>5, <2>4, <2>6
    <3>2. mass = b
      BY <1>6, <2>4, <2>6, <3>1
    <3> QED BY <2>3, <2>4, <2>6, <3>2
  <2> QED BY <2>5, <2>6
<1> HIDE DEF widest
<1>9. \/ ~ (Cardinality(Those({"deauth"})) <= MassSample)
      \/ IF widest < MassMin THEN mass = {}
         ELSE Cardinality(mass) = widest /\ \E t \in 0..scene.until : mass = Falling(t)
  BY <1>8
<1> QED BY Zenon, <1>7, <1>9 DEF MassDeauthIsTheWidest, mass, widest

\* The devices told of as falling off the network at once did fall within one window,
\* and, unless more fell than are looked at, they are those of a widest window.
THEOREM WidestWindowTells == Spec => []MassDeauthIsTheWidest
BY MassTold, RecordedInvariant, AnalysedInvariant, PTL

-----------------------------------------------------------------------------
(* Medians *)

\* The numbers of peers are naturals.
Numbers(f, peers) == IsFiniteSet(peers) /\ peers # {} /\ \A p \in peers : f[p] \in Nat
Below(f, peers, n) == {q \in peers : f[q] <= n}

LEMMA Greatest ==
    ASSUME NEW peers, NEW f, Numbers(f, peers)
    PROVE  \E p \in peers : \A q \in peers : f[q] <= f[p]
<1> DEFINE V == {f[p] : p \in peers}
<1>1. V \in SUBSET Nat /\ V # {} /\ IsFiniteSet(V)
  BY ImageIsSmall DEF Numbers
<1>2. \A p \in peers : f[p] \in V
  OBVIOUS
<1>3. \A v \in V : \E p \in peers : v = f[p]
  OBVIOUS
<1> HIDE DEF V
<1>4. Max(V) \in V /\ \A v \in V : v <= Max(V)
  BY <1>1, Extremes
<1>5. PICK p \in peers : f[p] = Max(V)
  BY <1>3, <1>4
<1> QED BY <1>2, <1>4, <1>5

LEMMA BelowIsFinite ==
    ASSUME NEW peers, NEW f, Numbers(f, peers), NEW n
    PROVE  /\ IsFiniteSet(Below(f, peers, n)) /\ Cardinality(Below(f, peers, n)) \in Nat
           /\ Cardinality(peers) \in Nat /\ Cardinality(Below(f, peers, n)) <= Cardinality(peers)
<1>1. Below(f, peers, n) \subseteq peers
  BY DEF Below
<1> QED BY <1>1, SubsetIsSmall DEF Numbers

\* The k-th smallest number: k of them are no greater, and it is the least such.
RankIs(r, f, peers, k) ==
    /\ r \in Nat /\ \E p \in peers : f[p] = r
    /\ Cardinality(Below(f, peers, r)) >= k
    /\ \A p \in peers : Cardinality(Below(f, peers, f[p])) >= k => r <= f[p]

LEMMA RankedIs ==
    ASSUME NEW peers, NEW f, Numbers(f, peers), NEW k \in Nat, k <= Cardinality(peers)
    PROVE  RankIs(Ranked(f, peers, k), f, peers, k)
<1> DEFINE P == {p \in peers : Cardinality(Below(f, peers, f[p])) >= k}
           V == {f[p] : p \in P}
<1>1. Ranked(f, peers, k) = Min(V)
  <2>1. P = {p \in peers : Cardinality({q \in peers : f[q] <= f[p]}) >= k}
    BY DEF Below
  <2> HIDE DEF P
  <2> QED BY Zenon, <2>1 DEF Ranked
<1>2. P # {}
  <2>1. PICK p \in peers : \A q \in peers : f[q] <= f[p]
    BY Greatest
  <2>2. Below(f, peers, f[p]) = peers
    BY <2>1 DEF Below
  <2>3. Cardinality(Below(f, peers, f[p])) >= k
    BY <2>2, BelowIsFinite
  <2> QED BY <2>3
<1>3. IsFiniteSet(P) /\ \A p \in P : f[p] \in Nat
  BY FS_Subset DEF Numbers
<1>4. \A p : p \in P <=> p \in peers /\ Cardinality(Below(f, peers, f[p])) >= k
  OBVIOUS
<1> HIDE DEF P
<1>5. V \in SUBSET Nat /\ V # {} /\ IsFiniteSet(V)
  BY <1>2, <1>3, ImageIsSmall
<1>6. \A p \in P : f[p] \in V
  OBVIOUS
<1>7. \A v \in V : \E p \in P : v = f[p]
  OBVIOUS
<1> HIDE DEF V
<1>8. Min(V) \in V /\ \A v \in V : Min(V) <= v
  BY <1>5, Extremes
<1>9. PICK p \in P : Min(V) = f[p]
  BY <1>7, <1>8
<1> DEFINE r == Min(V)
<1>10. r \in Nat /\ r = f[p] /\ p \in peers
  BY <1>3, <1>4, <1>9
<1>11. Cardinality(Below(f, peers, r)) >= k
  BY <1>4, <1>9
<1>12. \A q \in peers : Cardinality(Below(f, peers, f[q])) >= k => r <= f[q]
  BY <1>4, <1>6, <1>8
<1> HIDE DEF r
<1>13. RankIs(r, f, peers, k)
  BY <1>10, <1>11, <1>12 DEF RankIs
<1> QED BY <1>1, <1>13 DEF r

\* The median lies between two numbers of peers, of which half are no greater than
\* the smaller one.  Among three or more, neither is the one greatest of all.
MedianIs(m, f, peers) ==
    \E p, q \in peers :
        /\ m = f[p] + f[q] /\ f[p] <= f[q]
        /\ 2 * Cardinality(Below(f, peers, f[p])) >= Cardinality(peers)
        /\ \A t \in peers :
            Cardinality(peers) >= 3 /\ (\A o \in peers \ {t} : f[o] < f[t])
                => f[p] < f[t] /\ f[q] < f[t]

LEMMA Halves ==
    ASSUME NEW n \in Nat, n # 0
    PROVE  /\ (n + 1) \div 2 \in Nat /\ (n + 2) \div 2 \in Nat
           /\ (n + 1) \div 2 <= (n + 2) \div 2 /\ (n + 2) \div 2 <= n
           /\ 2 * ((n + 1) \div 2) >= n
           /\ n >= 3 => (n + 2) \div 2 <= n - 1
OBVIOUS

LEMMA TwiceMedianIs ==
    ASSUME NEW peers, NEW f, Numbers(f, peers)
    PROVE  MedianIs(TwiceMedian(f, peers), f, peers)
<1> DEFINE n == Cardinality(peers)
           j == (n + 1) \div 2
           k == (n + 2) \div 2
           a == Ranked(f, peers, j)
           b == Ranked(f, peers, k)
           m == TwiceMedian(f, peers)
<1>1. n \in Nat /\ n # 0
  <2>1. IsFiniteSet(peers) /\ peers # {}
    BY DEF Numbers
  <2> QED BY <2>1, FS_CardinalityType, FS_EmptySet
<1>2. m = a + b
  BY Zenon DEF TwiceMedian
<1> HIDE DEF n
<1>3. j \in Nat /\ k \in Nat /\ j <= k /\ k <= n /\ 2 * j >= n /\ (n >= 3 => k <= n - 1)
  BY <1>1, Halves
<1> HIDE DEF j, k, m
<1>4. j <= n
  BY <1>1, <1>3
<1>5. RankIs(a, f, peers, j) /\ RankIs(b, f, peers, k)
  BY <1>3, <1>4, RankedIs DEF n
<1> HIDE DEF a, b
<1>6. PICK p \in peers : f[p] = a
  BY <1>5 DEF RankIs
<1>7. PICK q \in peers : f[q] = b
  BY <1>5 DEF RankIs
<1>8. /\ a \in Nat /\ b \in Nat
      /\ Cardinality(Below(f, peers, a)) >= j /\ Cardinality(Below(f, peers, b)) >= k
      /\ Cardinality(Below(f, peers, a)) \in Nat /\ Cardinality(Below(f, peers, b)) \in Nat
  BY <1>5, BelowIsFinite DEF RankIs
<1>9. a <= b
  <2>1. Cardinality(Below(f, peers, f[q])) >= j
    BY ONLY <1>3, <1>7, <1>8
  <2>2. a <= f[q]
    BY <1>5, <2>1 DEF RankIs
  <2> QED BY <1>7, <2>2
<1>10. 2 * Cardinality(Below(f, peers, a)) >= n
  BY ONLY <1>1, <1>3, <1>8
<1>11. ASSUME NEW t \in peers, n >= 3, \A o \in peers \ {t} : f[o] < f[t] PROVE b < f[t]
  <2> DEFINE R == peers \ {t}
  <2>1. IsFiniteSet(R) /\ Cardinality(R) = n - 1
    BY FS_RemoveElement DEF Numbers, n
  <2>2. R # {} /\ \A o \in R : f[o] \in Nat /\ f[o] < f[t]
    BY <1>1, <1>11, <2>1, FS_EmptySet DEF Numbers
  <2>3. R \subseteq peers
    OBVIOUS
  <2> HIDE DEF R
  <2>4. PICK o \in R : \A x \in R : f[x] <= f[o]
    BY <2>1, <2>2, Greatest DEF Numbers
  <2>5. R \subseteq Below(f, peers, f[o])
    BY <2>3, <2>4 DEF Below
  <2>6. /\ IsFiniteSet(Below(f, peers, f[o])) /\ Cardinality(Below(f, peers, f[o])) \in Nat
        /\ Cardinality(R) <= Cardinality(Below(f, peers, f[o]))
    BY <2>5, BelowIsFinite, FS_Subset
  <2>7. Cardinality(Below(f, peers, f[o])) >= k
    BY ONLY <1>1, <1>3, <1>11, <2>1, <2>6
  <2>8. b <= f[o]
    BY <1>5, <2>3, <2>7 DEF RankIs
  <2>9. f[t] \in Nat
    BY DEF Numbers
  <2> QED BY <1>8, <2>2, <2>4, <2>8, <2>9
<1>12. ASSUME NEW t \in peers, n >= 3, \A o \in peers \ {t} : f[o] < f[t]
       PROVE  f[p] < f[t] /\ f[q] < f[t]
  <2>1. b < f[t] /\ f[t] \in Nat
    BY <1>11, <1>12 DEF Numbers
  <2> QED BY <1>6, <1>7, <1>8, <1>9, <2>1
<1>13. m = f[p] + f[q] /\ f[p] <= f[q] /\ 2 * Cardinality(Below(f, peers, f[p])) >= Cardinality(peers)
  BY <1>2, <1>6, <1>7, <1>9, <1>10 DEF n
<1>14. MedianIs(m, f, peers)
  BY <1>12, <1>13 DEF MedianIs, n
<1> QED BY <1>14 DEF m

-----------------------------------------------------------------------------
(* Devices that fall off the Wi-Fi far more often than others *)

LEMMA FallsAreSeen ==
    ASSUME Recorded, NEW W \in SUBSET FellOff, NEW E, E = {e \in Fell : Behind(e) \in W}
    PROVE  Cardinality(E) = Cardinality(W)
<1> DEFINE b == [e \in E |-> Behind(e)]
<1>1. IsFiniteSet(E)
  BY FallsAreFinite, FS_Subset
<1>2. ASSUME NEW e \in E, NEW f \in E, b[e] = b[f] PROVE e = f
  <2>1. Normalize(At(Behind(e), 1)) = {e} /\ Normalize(At(Behind(f), 1)) = {f}
    BY EventOfFall
  <2>2. Behind(e) = Behind(f)
    BY <1>2
  <2>3. {e} = {f}
    BY ONLY <2>1, <2>2
  <2> QED BY ONLY <2>3
<1>3. {b[e] : e \in E} = W
  <2>1. \A e \in E : b[e] = Behind(e) /\ b[e] \in W
    OBVIOUS
  <2>2. ASSUME NEW h \in W PROVE \E e \in E : b[e] = h
    <3>1. PICK e \in Fell : Behind(e) = h
      BY FallHasEvent
    <3> QED BY <3>1
  <2> HIDE DEF b
  <2> QED BY ONLY <2>1, <2>2
<1> HIDE DEF b
<1>4. Cardinality({b[e] : e \in E}) = Cardinality(E)
  BY <1>1, <1>2, ToldApart
<1> QED BY <1>3, <1>4

\* The devices that fell, how often, and all falls, as the events tell of them.
LEMMA FallsOfDevices ==
    ASSUME Recorded
    PROVE  /\ Devices = Fallen /\ IsFiniteSet(Fallen)
           /\ \A m \in Fallen : Hits(Fell, "user", m) = Falls(m) /\ Falls(m) \in Nat
           /\ Cardinality(Fell) = Cardinality(FellOff)
<1>1. ASSUME NEW m \in Devices PROVE m \in Fallen
  <2>1. PICK e \in Fell : m = e.user
    BY DEF Devices, Distinct
  <2>2. Behind(e) \in FellOff /\ e.user = Behind(e).incident.user
    BY EventOfFall
  <2> QED BY <2>1, <2>2 DEF Fallen, FellOff
<1>2. ASSUME NEW m \in Fallen PROVE m \in Devices
  <2>1. PICK h \in FellOff : m = h.incident.user
    BY DEF Fallen, FellOff
  <2>2. PICK e \in Fell : Behind(e) = h
    BY FallHasEvent
  <2>3. e.user = m /\ e.user # NoValue
    BY <2>1, <2>2, EventOfFall
  <2> QED BY <2>3 DEF Devices, Distinct
<1>3. ASSUME NEW m \in Fallen PROVE Hits(Fell, "user", m) = Falls(m) /\ Falls(m) \in Nat
  <2> DEFINE W == {h \in FellOff : h.incident.user = m}
             E == {e \in Fell : Behind(e) \in W}
  <2>1. \A e \in Fell : Behind(e) \in FellOff /\ e.user = Behind(e).incident.user
    BY EventOfFall
  <2>2. {ev \in Fell : ev["user"] = m} = E
    BY <2>1
  <2>3. Cardinality(E) = Cardinality(W)
    BY FallsAreSeen
  <2>4. Cardinality(W) \in Nat
    BY FallsAreFinite, FS_Subset, FS_CardinalityType
  <2>5. Falls(m) = Cardinality(W)
    BY DEF Falls, FellOff
  <2> HIDE DEF E, W
  <2> QED BY <2>2, <2>3, <2>4, <2>5 DEF Hits
<1>4. IsFiniteSet(Fallen)
  <2> DEFINE f == [h \in FellOff |-> h.incident.user]
  <2>1. Fallen = {f[h] : h \in FellOff}
    BY DEF Fallen, FellOff
  <2> HIDE DEF f
  <2> QED BY <2>1, FallsAreFinite, ImageIsSmall
<1>5. Cardinality(Fell) = Cardinality(FellOff)
  <2>1. Fell = {e \in Fell : Behind(e) \in FellOff} /\ FellOff \in SUBSET FellOff
    BY EventOfFall
  <2> QED BY <2>1, FallsAreSeen
<1> QED BY <1>1, <1>2, <1>3, <1>4, <1>5

\* A product with a factor is no smaller for a greater number.
LEMMA TimesGrows ==
    ASSUME NEW a \in Nat, NEW b \in Nat, a <= b, NEW c \in Nat
    PROVE  a * c <= b * c /\ a * c \in Nat /\ b * c \in Nat
<1>1. PICK d \in Nat : b = a + d
  <2>1. b - a \in Nat /\ b = a + (b - a)
    OBVIOUS
  <2> QED BY <2>1
<1>2. b * c = a * c + d * c
  BY <1>1, SMTT(30)
<1>3. a * c \in Nat /\ d * c \in Nat /\ b * c \in Nat
  BY SMTT(30)
<1> QED BY <1>2, <1>3

LEMMA TimesIsMore ==
    ASSUME NEW a \in Nat, NEW c \in Nat \ {0}
    PROVE  a <= a * c
<1>1. PICK d \in Nat : c = 1 + d
  <2>1. c - 1 \in Nat /\ c = 1 + (c - 1)
    OBVIOUS
  <2> QED BY <2>1
<1>2. a * c = a + a * d
  BY <1>1, SMTT(30)
<1>3. a * d \in Nat
  BY SMTT(30)
<1> QED BY <1>2, <1>3

Above(m) == {o \in Fallen \ {m} : (Falls(o) + 1) * OutlierMultiple <= Falls(m)}

\* Half of the others are far below one whose falls are far above their median.
LEMMA FarAboveTheMedian ==
    ASSUME Recorded, NEW m \in Fallen, Fallen \ {m} # {}, NEW f,
           \A o \in Fallen : f[o] = Falls(o) /\ f[o] \in Nat,
           2 * f[m] >= (TwiceMedian(f, Fallen \ {m}) + 2) * OutlierMultiple
    PROVE  2 * Cardinality(Above(m)) >= Cardinality(Fallen \ {m})
<1> DEFINE O == Fallen \ {m}
           c == OutlierMultiple
           w == TwiceMedian(f, O)
<1>1. Numbers(f, O)
  BY FallsOfDevices, FS_Subset DEF Numbers
<1>2. MedianIs(w, f, O)
  BY <1>1, TwiceMedianIs
<1> HIDE DEF w
<1>3. PICK p, q \in O : /\ w = f[p] + f[q] /\ f[p] <= f[q]
                        /\ 2 * Cardinality(Below(f, O, f[p])) >= Cardinality(O)
  BY <1>2 DEF MedianIs
<1>4. c \in Nat \ {0} /\ f[p] \in Nat /\ f[q] \in Nat /\ f[m] \in Nat
  BY LimitsAssumption
<1>5. (f[p] + 1) * c <= f[m]
  <2> DEFINE x == f[p]
             y == f[q]
             z == f[m]
  <2>1. 2 * z >= (w + 2) * c /\ w = x + y /\ x <= y /\ x \in Nat /\ y \in Nat /\ z \in Nat
    BY <1>3, <1>4 DEF w
  <2> HIDE DEF x, y, z, c
  <2>2. (x + 1) * c <= (y + 1) * c /\ (x + 1) * c \in Nat /\ (y + 1) * c \in Nat
    BY <1>4, <2>1, TimesGrows
  <2>3. (w + 2) * c = (x + 1) * c + (y + 1) * c
    BY ONLY <1>4, <2>1, SMTT(30)
  <2>4. (x + 1) * c <= z
    BY ONLY <2>1, <2>2, <2>3
  <2> QED BY <2>4 DEF x, z
<1>6. Below(f, O, f[p]) \subseteq Above(m)
  <2> SUFFICES ASSUME NEW o \in Below(f, O, f[p]) PROVE o \in Above(m)
    OBVIOUS
  <2>1. o \in O /\ f[o] <= f[p] /\ f[o] \in Nat /\ f[o] = Falls(o) /\ f[m] = Falls(m)
    BY DEF Below
  <2>2. f[o] + 1 \in Nat /\ f[p] + 1 \in Nat /\ f[o] + 1 <= f[p] + 1
    BY <1>4, <2>1
  <2> HIDE DEF c
  <2>3. (f[o] + 1) * c <= (f[p] + 1) * c /\ (f[o] + 1) * c \in Nat /\ (f[p] + 1) * c \in Nat
    BY <1>4, <2>2, TimesGrows
  <2>4. (f[o] + 1) * c <= f[m]
    BY ONLY <1>4, <1>5, <2>3
  <2> QED BY <2>1, <2>4 DEF Above, c
<1>7. IsFiniteSet(Above(m))
  BY FallsOfDevices, FS_Subset DEF Above
<1>8. Cardinality(Below(f, O, f[p])) <= Cardinality(Above(m))
      /\ Cardinality(Below(f, O, f[p])) \in Nat /\ Cardinality(Above(m)) \in Nat
  BY <1>6, <1>7, SubsetIsSmall
<1>9. Cardinality(O) \in Nat
  BY <1>1, FS_CardinalityType DEF Numbers
<1> HIDE DEF O
<1>10. 2 * Cardinality(Above(m)) >= Cardinality(O)
  BY ONLY <1>3, <1>8, <1>9
<1> QED BY <1>10 DEF O

\* Who is far above each of the others is the only one on top, and far above their
\* median.
LEMMA FarAboveAll ==
    ASSUME Recorded, NEW m \in Fallen, Fallen \ {m} # {}, NEW f,
           \A o \in Fallen : f[o] = Falls(o) /\ f[o] \in Nat, Above(m) = Fallen \ {m}
    PROVE  /\ \A o \in Fallen : f[o] <= f[m]
           /\ 2 * f[m] >= (TwiceMedian(f, Fallen \ {m}) + 2) * OutlierMultiple
<1> DEFINE O == Fallen \ {m}
           c == OutlierMultiple
           w == TwiceMedian(f, O)
<1>1. Numbers(f, O)
  BY FallsOfDevices, FS_Subset DEF Numbers
<1>2. MedianIs(w, f, O)
  BY <1>1, TwiceMedianIs
<1> HIDE DEF w
<1>3. PICK p, q \in O : w = f[p] + f[q]
  BY <1>2 DEF MedianIs
<1>4. c \in Nat \ {0}
  BY LimitsAssumption
<1>5. ASSUME NEW o \in O
      PROVE  (f[o] + 1) * c <= f[m] /\ f[o] <= f[m] /\ (f[o] + 1) * c \in Nat
  <2>1. o \in Above(m) /\ f[o] = Falls(o) /\ f[m] = Falls(m) /\ f[o] \in Nat /\ f[m] \in Nat
    OBVIOUS
  <2>2. (f[o] + 1) * c <= f[m]
    BY <2>1 DEF Above
  <2> HIDE DEF c
  <2>3. f[o] + 1 \in Nat /\ f[o] + 1 <= (f[o] + 1) * c
    BY <1>4, <2>1, TimesIsMore
  <2>4. (f[o] + 1) * c \in Nat
    BY <1>4, <2>3, TimesGrows
  <2> QED BY <2>1, <2>2, <2>3, <2>4
<1>6. \A o \in Fallen : f[o] <= f[m]
  <2>1. f[m] \in Nat
    OBVIOUS
  <2> QED BY <1>5, <2>1
<1>7. 2 * f[m] >= (w + 2) * c
  <2> DEFINE x == f[p]
             y == f[q]
             z == f[m]
  <2>1. w = x + y /\ x \in Nat /\ y \in Nat /\ z \in Nat
        /\ (x + 1) * c <= z /\ (y + 1) * c <= z /\ (x + 1) * c \in Nat /\ (y + 1) * c \in Nat
    BY <1>3, <1>5
  <2> HIDE DEF x, y, z, c
  <2>2. (w + 2) * c = (x + 1) * c + (y + 1) * c
    BY ONLY <1>4, <2>1, SMTT(30)
  <2>3. 2 * z >= (w + 2) * c
    BY ONLY <2>1, <2>2
  <2> QED BY <2>3 DEF z
<1> QED BY <1>6, <1>7 DEF w

LEMMA DevicesTold == Recorded /\ Analysed => (report.made => DevicesStandOut)
<1> SUFFICES ASSUME Recorded, Analysed, report.made PROVE DevicesStandOut
  OBVIOUS
<1> DEFINE f == [m \in Devices |-> Hits(Fell, "user", m)]
           tops == {m \in Devices : \A o \in Devices : f[o] <= f[m]}
           stands(m) == /\ f[m] >= OutlierFloor
                        /\ 2 * f[m] >= (TwiceMedian(f, Devices \ {m}) + 2) * OutlierMultiple
           few == Cardinality(Devices) < 2 \/ Cardinality(Fell) < OutlierMin
<1>1. report.falling \in (IF few THEN {{}} ELSE {{m} \cap {x \in Devices : stands(x)} : m \in tops})
  <2>1. report.falling \in DeauthOutliers(Events(Log))
    BY DEF Analysed
  <2>2. DeauthOutliers(Events(Log))
           = IF few THEN {{}} ELSE {{m} \cap {x \in Devices : stands(x)} : m \in tops}
    BY Zenon DEF DeauthOutliers, Fell, Devices
  <2> QED BY <2>1, <2>2
<1>2. /\ Devices = Fallen /\ IsFiniteSet(Fallen) /\ Cardinality(Fallen) \in Nat
      /\ Cardinality(Fell) = Cardinality(FellOff) /\ Cardinality(FellOff) \in Nat
  BY FallsOfDevices, FallsAreFinite, FS_CardinalityType
<1>3. \A m \in Fallen : f[m] = Falls(m) /\ f[m] \in Nat
  BY <1>2, FallsOfDevices
<1>4. OutlierMin \in Nat
  BY LimitsAssumption
<1>5. \A m \in Fallen : Fallen \ {m} = {} => Cardinality(Fallen) < 2
  <2> TAKE m \in Fallen
  <2>1. Cardinality({m}) = 1
    BY FS_Singleton
  <2>2. Fallen \ {m} = {} => Fallen = {m}
    OBVIOUS
  <2> QED BY <2>1, <2>2
<1>6. \A m \in Fallen : Fallen \ {m} # {} => ~ (Cardinality(Fallen) < 2)
  <2> TAKE m \in Fallen
  <2> HAVE Fallen \ {m} # {}
  <2>1. PICK o \in Fallen : o # m
    OBVIOUS
  <2>2. Cardinality(Fallen) > 1
    BY <1>2, <2>1, TwoAreMore
  <2> QED BY <1>2, <2>2
<1>7. \A m : m \in tops <=> m \in Fallen /\ \A o \in Fallen : f[o] <= f[m]
  BY <1>2
<1>8. \A m \in Fallen : stands(m) <=>
         f[m] >= OutlierFloor
         /\ 2 * f[m] >= (TwiceMedian(f, Fallen \ {m}) + 2) * OutlierMultiple
  BY <1>2
<1> HIDE DEF f, tops, stands
<1>9. ASSUME NEW m \in report.falling
      PROVE  Falls(m) >= OutlierFloor /\ 2 * Cardinality(Above(m)) >= Cardinality(Fallen \ {m})
  <2>1. ~ few /\ m \in Fallen /\ stands(m)
    BY <1>1, <1>2, <1>9
  <2>2. Fallen \ {m} # {}
    BY <1>2, <1>5, <2>1
  <2>3. 2 * Cardinality(Above(m)) >= Cardinality(Fallen \ {m})
    BY <1>3, <1>8, <2>1, <2>2, FarAboveTheMedian
  <2> QED BY <1>3, <1>8, <2>1, <2>3
<1>10. ASSUME NEW m \in Fallen, Falls(m) >= OutlierFloor,
              Cardinality(Those({"deauth"})) >= OutlierMin,
              Fallen \ {m} # {}, Above(m) = Fallen \ {m}
       PROVE  m \in report.falling
  <2>1. /\ \A o \in Fallen : f[o] <= f[m]
        /\ 2 * f[m] >= (TwiceMedian(f, Fallen \ {m}) + 2) * OutlierMultiple
    BY <1>3, <1>10, FarAboveAll
  <2>2. stands(m) /\ m \in tops
    BY <1>3, <1>7, <1>8, <1>10, <2>1
  <2>3. ~ few
    <3>1. ~ (Cardinality(Devices) < 2)
      BY <1>2, <1>6, <1>10
    <3>2. ~ (Cardinality(Fell) < OutlierMin)
      <4>1. Cardinality(FellOff) >= OutlierMin
        BY <1>10 DEF FellOff
      <4> QED BY ONLY <1>2, <1>4, <4>1
    <3> QED BY <3>1, <3>2
  <2>4. \A o \in tops : o = m
    <3> SUFFICES ASSUME NEW o \in tops, o # m PROVE FALSE
      OBVIOUS
    <3>1. o \in Fallen /\ f[m] <= f[o] /\ f[o] \in Nat /\ f[m] \in Nat /\ f[o] = Falls(o) /\ f[m] = Falls(m)
      BY <1>3, <1>7
    <3>2. (f[o] + 1) * OutlierMultiple <= f[m]
      BY <1>10, <3>1 DEF Above
    <3>3. OutlierMultiple \in Nat \ {0}
      BY LimitsAssumption
    <3>4. f[o] + 1 \in Nat /\ f[o] + 1 <= (f[o] + 1) * OutlierMultiple
      BY <3>1, <3>3, TimesIsMore
    <3>5. (f[o] + 1) * OutlierMultiple \in Nat
      BY <3>3, <3>4, TimesGrows
    <3> QED BY ONLY <3>1, <3>2, <3>4, <3>5
  <2>5. report.falling = {m} \cap {x \in Devices : stands(x)}
    <3>1. PICK o \in tops : report.falling = {o} \cap {x \in Devices : stands(x)}
      BY <1>1, <2>3
    <3> QED BY <2>4, <3>1
  <2> QED BY <1>2, <2>2, <2>5
<1> QED BY <1>9, <1>10 DEF DevicesStandOut, Above

-----------------------------------------------------------------------------
(* Hours with far more drops than others *)

HoursWithDrops == {t \in 0..scene.until : DropsAt(t) > 0}

LEMMA HourIsEarly ==
    ASSUME NEW t \in Nat, NEW until \in Nat, t <= until, NEW length \in Nat \ {0}
    PROVE  t \div length \in 0..until
<1> DEFINE q == t \div length
           r == t % length
<1>1. q \in Int /\ r \in 0..(length - 1) /\ t = length * q + r
  BY SMTT(30)
<1> HIDE DEF q, r
<1>2. q >= 0
  <2> SUFFICES ASSUME q < 0 PROVE FALSE
    BY <1>1
  <2>1. PICK d \in Nat : q = - 1 - d
    <3>1. - 1 - q \in Nat /\ q = - 1 - (- 1 - q)
      BY <1>1
    <3> QED BY <3>1
  <2>2. length * q = - length - length * d /\ length * d \in Nat
    BY <2>1, SMTT(30)
  <2> QED BY ONLY <1>1, <2>2, length \in Nat, t \in Nat
<1>3. q <= t
  <2>1. q <= q * length /\ q * length = length * q
    BY <1>1, <1>2, TimesIsMore, SMTT(30)
  <2>2. length * q \in Int
    BY <1>1
  <2> QED BY <1>1, <2>1, <2>2
<1> QED BY <1>1, <1>2, <1>3 DEF q

LEMMA DropsInHours ==
    ASSUME Recorded, NEW t
    PROVE  /\ Cardinality({e \in Drops(Events(Log)) : e.ts \div HourLength = t}) = DropsAt(t)
           /\ DropsAt(t) \in Nat
<1> DEFINE R == {h \in Dropped : h.ts \div HourLength = t}
           E == {e \in Fw : Behind(e) \in R}
<1>1. R \in SUBSET Packets
  BY DropsAre
<1>2. Cardinality(E) = Tries(R) /\ Tries(R) \in Nat
  BY <1>1, PacketsCount
<1>3. {e \in Drops(Events(Log)) : e.ts \div HourLength = t} = E
  <2>1. \A e \in Fw : e.ts = Behind(e).ts
    BY BehindIs
  <2> QED BY <2>1, DropsAre
<1>4. DropsAt(t) = Tries(R)
  BY DEF DropsAt, Dropped
<1> QED BY <1>2, <1>3, <1>4

LEMMA HoursAre ==
    ASSUME Recorded
    PROVE  /\ {e.ts \div HourLength : e \in Drops(Events(Log))} = HoursWithDrops
           /\ HoursWithDrops \in SUBSET Nat /\ IsFiniteSet(HoursWithDrops)
           /\ \A t \in HoursWithDrops : DropsAt(t) \in Nat \ {0}
<1>1. scene.until \in Nat
  BY ScenesAssumption DEF Recorded
<1>2. HoursWithDrops \in SUBSET Nat /\ IsFiniteSet(HoursWithDrops)
  <2>1. IsFiniteSet(0..scene.until)
    BY <1>1, FS_Interval
  <2> QED BY <1>1, <2>1, FS_Subset DEF HoursWithDrops
<1>3. \A t \in HoursWithDrops : DropsAt(t) \in Nat \ {0}
  <2> TAKE t \in HoursWithDrops
  <2>1. DropsAt(t) > 0
    BY DEF HoursWithDrops
  <2>2. DropsAt(t) \in Nat
    BY DropsInHours
  <2> QED BY ONLY <2>1, <2>2
<1>4. ASSUME NEW e \in Drops(Events(Log)) PROVE e.ts \div HourLength \in HoursWithDrops
  <2> DEFINE t == e.ts \div HourLength
             R == {h \in Dropped : h.ts \div HourLength = t}
  <2>1. Behind(e) \in Dropped /\ e.ts = Behind(e).ts
    BY DropsAre, BehindIs
  <2>2. Behind(e) \in R /\ R \in SUBSET Packets
    BY <2>1, DropsAre
  <2>3. Behind(e).incident.tries <= Tries(R) /\ Tries(R) \in Nat
    BY <2>2, TriesHold
  <2>4. Behind(e).incident.tries \in Nat \ {0}
    BY <2>2, PacketTyped
  <2>5. DropsAt(t) = Tries(R)
    BY DEF DropsAt, Dropped
  <2>6. e.ts \in Nat /\ e.ts <= scene.until
    <3>1. Behind(e) \in happened
      BY <2>1 DEF Dropped, Those
    <3>2. Behind(e).ts \in 0..clock /\ clock \in Nat /\ clock <= scene.until
      BY <3>1 DEF Recorded
    <3> QED BY <1>1, <2>1, <3>2
  <2>7. t \in 0..scene.until
    BY <1>1, <2>6, HourIsEarly, TrafficAssumption
  <2> HIDE DEF t, R
  <2>8. DropsAt(t) > 0
    BY ONLY <2>3, <2>4, <2>5
  <2> QED BY <2>7, <2>8 DEF HoursWithDrops, t
<1>5. ASSUME NEW t \in HoursWithDrops
      PROVE  \E e \in Drops(Events(Log)) : t = e.ts \div HourLength
  <2> DEFINE S == {e \in Drops(Events(Log)) : e.ts \div HourLength = t}
  <2>1. Cardinality(S) = DropsAt(t) /\ DropsAt(t) # 0
    BY <1>3, DropsInHours
  <2>2. S # {}
    BY <2>1, FS_EmptySet
  <2> QED BY <2>2
<1> QED BY <1>2, <1>3, <1>4, <1>5

FarHours(t) == {o \in HoursWithDrops \ {t} : DropsAt(t) > SpikeMultiple * DropsAt(o)}

\* Half of the other hours are far below one whose drops are far above the median.
LEMMA FarAboveTheMedianHour ==
    ASSUME Recorded, NEW t \in HoursWithDrops, NEW f,
           \A o \in HoursWithDrops : f[o] = DropsAt(o),
           2 * f[t] > TwiceMedian(f, HoursWithDrops) * SpikeMultiple
    PROVE  2 * Cardinality(FarHours(t)) >= Cardinality(HoursWithDrops) - 1
<1> DEFINE H == HoursWithDrops
           c == SpikeMultiple
           w == TwiceMedian(f, H)
<1>1. Numbers(f, H) /\ \A o \in H : f[o] \in Nat
  BY HoursAre DEF Numbers
<1>2. MedianIs(w, f, H)
  BY <1>1, TwiceMedianIs
<1> HIDE DEF w
<1>3. PICK p, q \in H : /\ w = f[p] + f[q] /\ f[p] <= f[q]
                        /\ 2 * Cardinality(Below(f, H, f[p])) >= Cardinality(H)
  BY <1>2 DEF MedianIs
<1>4. c \in Nat \ {0} /\ f[p] \in Nat /\ f[q] \in Nat /\ f[t] \in Nat
  BY <1>1, TrafficAssumption
<1>5. f[p] * c < f[t] /\ f[p] < f[t] /\ f[p] * c \in Nat
  <2> DEFINE x == f[p]
             y == f[q]
             z == f[t]
  <2>1. 2 * z > w * c /\ w = x + y /\ x <= y /\ x \in Nat /\ y \in Nat /\ z \in Nat
    BY <1>3, <1>4 DEF w
  <2> HIDE DEF x, y, z, c
  <2>2. x * c <= y * c /\ x * c \in Nat /\ y * c \in Nat
    BY <1>4, <2>1, TimesGrows
  <2>3. w * c = x * c + y * c
    BY ONLY <1>4, <2>1, SMTT(30)
  <2>4. x <= x * c
    BY <1>4, <2>1, TimesIsMore
  <2>5. x * c < z /\ x < z
    BY ONLY <2>1, <2>2, <2>3, <2>4
  <2> QED BY <2>2, <2>5 DEF x, z
<1>6. Below(f, H, f[p]) \subseteq FarHours(t)
  <2> SUFFICES ASSUME NEW o \in Below(f, H, f[p]) PROVE o \in FarHours(t)
    OBVIOUS
  <2>1. o \in H /\ f[o] <= f[p] /\ f[o] \in Nat /\ f[o] = DropsAt(o) /\ f[t] = DropsAt(t)
    BY <1>1 DEF Below
  <2>2. o # t
    BY <1>4, <1>5, <2>1
  <2> HIDE DEF c
  <2>3. f[o] * c <= f[p] * c /\ f[o] * c \in Nat
    BY <1>4, <2>1, TimesGrows
  <2>4. f[o] * c < f[t] /\ f[o] * c = c * f[o]
    <3>1. f[o] * c < f[t]
      BY ONLY <1>4, <1>5, <2>3
    <3>2. f[o] * c = c * f[o]
      BY ONLY <1>4, <2>1, SMTT(30)
    <3> QED BY <3>1, <3>2
  <2>5. DropsAt(t) > c * DropsAt(o)
    BY ONLY <1>4, <2>1, <2>4
  <2> QED BY <2>1, <2>2, <2>5 DEF FarHours, c, H
<1>7. IsFiniteSet(FarHours(t))
  BY HoursAre, FS_Subset DEF FarHours
<1>8. Cardinality(Below(f, H, f[p])) <= Cardinality(FarHours(t))
      /\ Cardinality(Below(f, H, f[p])) \in Nat /\ Cardinality(FarHours(t)) \in Nat
  BY <1>6, <1>7, SubsetIsSmall
<1>9. Cardinality(H) \in Nat
  BY <1>1, FS_CardinalityType DEF Numbers
<1> HIDE DEF H
<1>10. 2 * Cardinality(FarHours(t)) >= Cardinality(H) - 1
  BY ONLY <1>3, <1>8, <1>9
<1> QED BY <1>10 DEF H

\* An hour far above each of the others is the only one on top, and far above the
\* median, which is not its own if there are three.
LEMMA FarAboveAllHours ==
    ASSUME Recorded, NEW t \in HoursWithDrops, NEW f,
           \A o \in HoursWithDrops : f[o] = DropsAt(o),
           Cardinality(HoursWithDrops) >= SpikeHours, FarHours(t) = HoursWithDrops \ {t}
    PROVE  /\ \A o \in HoursWithDrops : f[o] <= f[t] /\ (o # t => f[o] < f[t])
           /\ 2 * f[t] > TwiceMedian(f, HoursWithDrops) * SpikeMultiple
<1> DEFINE H == HoursWithDrops
           c == SpikeMultiple
           w == TwiceMedian(f, H)
<1>1. Numbers(f, H) /\ \A o \in H : f[o] \in Nat
  BY HoursAre DEF Numbers
<1>2. MedianIs(w, f, H)
  BY <1>1, TwiceMedianIs
<1> HIDE DEF w
<1>3. c \in Nat \ {0} /\ f[t] \in Nat
  BY <1>1, TrafficAssumption
<1>4. ASSUME NEW o \in H \ {t} PROVE f[o] * c < f[t] /\ f[o] < f[t] /\ f[o] * c \in Nat
  <2>1. o \in FarHours(t) /\ f[o] = DropsAt(o) /\ f[t] = DropsAt(t) /\ f[o] \in Nat
    BY <1>1
  <2>2. f[t] > c * f[o]
    BY <2>1 DEF FarHours
  <2> HIDE DEF c
  <2>3. c * f[o] = f[o] * c
    BY ONLY <1>3, <2>1, SMTT(30)
  <2>4. f[o] <= f[o] * c
    BY <1>3, <2>1, TimesIsMore
  <2>5. f[o] * c \in Nat
    BY <1>3, <2>1, TimesGrows
  <2> QED BY <1>3, <2>1, <2>2, <2>3, <2>4, <2>5
<1>5. Cardinality(H) >= 3
  <2>1. Cardinality(H) \in Nat
    BY <1>1, FS_CardinalityType DEF Numbers
  <2>2. SpikeHours \in Nat \ 0..2
    BY TrafficAssumption
  <2> QED BY <2>1, <2>2
<1>6. \A o \in H \ {t} : f[o] < f[t]
  BY <1>4
<1>7. PICK p, q \in H : w = f[p] + f[q] /\ f[p] < f[t] /\ f[q] < f[t]
  BY <1>2, <1>5, <1>6 DEF MedianIs
<1>8. p \in H \ {t} /\ q \in H \ {t} /\ f[p] \in Nat /\ f[q] \in Nat
  BY <1>1, <1>3, <1>7
<1>9. 2 * f[t] > w * c
  <2> DEFINE x == f[p]
             y == f[q]
             z == f[t]
  <2>1. /\ w = x + y /\ x \in Nat /\ y \in Nat /\ z \in Nat
        /\ x * c < z /\ y * c < z /\ x * c \in Nat /\ y * c \in Nat
    BY <1>3, <1>4, <1>7, <1>8
  <2> HIDE DEF x, y, z, c
  <2>2. w * c = x * c + y * c
    BY ONLY <1>3, <2>1, SMTT(30)
  <2>3. 2 * z > w * c
    BY ONLY <2>1, <2>2
  <2> QED BY <2>3 DEF z
<1>10. \A o \in H : f[o] <= f[t] /\ (o # t => f[o] < f[t])
  BY <1>1, <1>3, <1>6
<1> QED BY <1>9, <1>10 DEF w

LEMMA HoursTold == Recorded /\ Analysed => (report.made => HoursStandOut)
<1> SUFFICES ASSUME Recorded, Analysed, report.made PROVE HoursStandOut
  OBVIOUS
<1> DEFINE H == HoursWithDrops
           f == [t \in H |-> Cardinality({e \in Drops(Events(Log)) : e.ts \div HourLength = t})]
           top == {t \in H : \A o \in H : f[o] <= f[t]}
<1>1. report.spike = {t \in top : /\ t = Min(top) /\ Cardinality(H) >= SpikeHours
                                  /\ 2 * f[t] > TwiceMedian(f, H) * SpikeMultiple}
  <2>1. report.spike = SpikeHour(Events(Log))
    BY DEF Analysed
  <2>2. {e.ts \div HourLength : e \in Drops(Events(Log))} = H
    BY HoursAre
  <2> QED BY Zenon, <2>1, <2>2 DEF SpikeHour, Drops
<1>2. \A t \in H : f[t] = DropsAt(t) /\ f[t] \in Nat
  BY DropsInHours
<1>3. top \subseteq H /\ \A t : t \in top <=> t \in H /\ \A o \in H : f[o] <= f[t]
  OBVIOUS
<1> HIDE DEF f, top
<1>4. ASSUME NEW t \in report.spike
      PROVE  2 * Cardinality(FarHours(t)) >= Cardinality(H) - 1
  <2>1. t \in H /\ 2 * f[t] > TwiceMedian(f, H) * SpikeMultiple
    BY <1>1, <1>3
  <2> QED BY <1>2, <2>1, FarAboveTheMedianHour
<1>5. ASSUME NEW t \in H, Cardinality(H) >= SpikeHours, FarHours(t) = H \ {t}
      PROVE  t \in report.spike
  <2>1. /\ \A o \in H : f[o] <= f[t] /\ (o # t => f[o] < f[t])
        /\ 2 * f[t] > TwiceMedian(f, H) * SpikeMultiple
    BY <1>2, <1>5, FarAboveAllHours
  <2>2. t \in top /\ \A o \in top : o = t
    BY <1>2, <1>3, <2>1
  <2>3. top = {t}
    BY <2>2
  <2>4. Min(top) = t
    <3>1. top \in SUBSET Nat /\ IsFiniteSet(top) /\ top # {}
      BY <2>3, HoursAre, FS_Singleton
    <3>2. Min(top) \in top
      BY <3>1, Extremes
    <3> QED BY <2>3, <3>2
  <2> QED BY <1>1, <1>5, <2>1, <2>2, <2>4
<1> QED BY <1>4, <1>5 DEF HoursStandOut, FarHours, HoursWithDrops

-----------------------------------------------------------------------------
(* Hosts that send far more than others *)

Senders == {h.incident.ip : h \in Leaving}
Sent(S) == {h \in Leaving : h.incident.ip \in S}
SentIn(S) == Bytes(Sent(S))

LEMMA LeavingIs ==
    ASSUME Recorded
    PROVE  /\ Leaving \in SUBSET Those({"accept"}) /\ Leaving \in SUBSET Packets /\ IsFiniteSet(Leaving)
           /\ \A h \in Leaving : h.incident.len \in Nat
           /\ IsFiniteSet(Senders) /\ Cardinality(Senders) \in Nat
<1>1. Leaving \in SUBSET Those({"accept"}) /\ Leaving \in SUBSET Packets
  BY DEF Leaving, Packets, Those, Verdicts
<1>2. IsFiniteSet(Leaving)
  BY <1>1, PacketsAre, FS_Subset
<1>3. \A h \in Leaving : h.incident.len \in Nat
  <2> TAKE h \in Leaving
  <2>1. IsIncident(h.incident)
    BY <1>1, PacketsAre
  <2> QED BY <2>1, IncidentTyped
<1>4. IsFiniteSet(Senders) /\ Cardinality(Senders) \in Nat
  <2> DEFINE f == [h \in Leaving |-> h.incident.ip]
  <2>1. Senders = {f[h] : h \in Leaving}
    BY DEF Senders
  <2> HIDE DEF f
  <2> QED BY <1>2, <2>1, ImageIsSmall
<1> QED BY <1>1, <1>2, <1>3, <1>4

\* The bytes of some sources' traffic that leaves, as the events tell of them.
LEMMA SourceBytes ==
    ASSUME Recorded, NEW S
    PROVE  /\ BytesOf(Events(Log), {p \in Egress(Events(Log)) : p[1] \in S}) = SentIn(S)
           /\ SentIn(S) \in Nat
<1> DEFINE R == Sent(S)
           E == {e \in Fw : Behind(e) \in R}
           P == {p \in Egress(Events(Log)) : p[1] \in S}
           acc == {ev \in Accepted(Events(Log)) : <<ev.ip, ev.dst>> \in P}
<1>1. R \in SUBSET Those({"accept"})
  BY LeavingIs DEF Sent
<1>2. acc = E
  <2>1. \A e \in Fw : /\ Behind(e) \in Packets /\ <<e.ip, e.dst>> = Route(Behind(e))
                      /\ e.action = Behind(e).incident.what
    BY BehindIs DEF Route
  <2>2. \A e : e \in Accepted(Events(Log)) <=> e \in Fw /\ e.action = "accept"
    BY DEF Accepted, WithAction, Fw, Firewall
  <2>3. \A h \in Packets : h.incident.what = "accept" <=> h \in Those({"accept"})
    BY PacketsAre DEF Those
  <2>4. \A h \in Those({"accept"}) : h \in R <=> Route(h) \in P
    <3> TAKE h \in Those({"accept"})
    <3>1. Route(h)[1] = h.incident.ip /\ Route(h)[2] = h.incident.dst
      BY DEF Route
    <3>2. Route(h) \in P => \E g \in Leaving : Route(g) = Route(h)
      BY RoutesOut
    <3>3. (\E g \in Leaving : Route(g) = Route(h)) => h \in Leaving
      <4> SUFFICES ASSUME NEW g \in Leaving, Route(g) = Route(h) PROVE h \in Leaving
        OBVIOUS
      <4>1. g.incident.ip = h.incident.ip /\ g.incident.dst = h.incident.dst
        BY DEF Route
      <4> QED BY <4>1 DEF Leaving
    <3>4. h \in Leaving => Route(h) \in Egress(Events(Log))
      BY RoutesOut
    <3> QED BY <3>1, <3>2, <3>3, <3>4 DEF Sent
  <2>5. \A h \in R : h \in Those({"accept"})
    BY <1>1
  <2> HIDE DEF R, P
  <2> QED BY <2>1, <2>2, <2>3, <2>4, <2>5
<1>3. BytesOf(Events(Log), P) = FoldSet(LAMBDA ev, sum : ev.len + sum, 0, acc)
  BY Zenon DEF BytesOf
<1> HIDE DEF acc, R
<1>4. FoldSet(LAMBDA ev, sum : ev.len + sum, 0, acc) = Bytes(R) /\ Bytes(R) \in Nat
  BY <1>1, <1>2, PassedBytes
<1> QED BY <1>3, <1>4 DEF R, SentIn

LEMMA BytesAdd ==
    ASSUME Recorded, NEW A \in SUBSET Leaving, NEW B \in SUBSET Leaving, A \cap B = {}
    PROVE  Bytes(A \cup B) = Bytes(A) + Bytes(B)
<1> DEFINE u(R) == Units(LensOf(R), R)
<1>1. ASSUME NEW R \in SUBSET Leaving
      PROVE  /\ IsFiniteSet(R) /\ \A h \in R : u(R)[h] = 1..h.incident.len
             /\ IsFiniteSet(Fibres(u(R), R)) /\ Bytes(R) = Cardinality(Fibres(u(R), R))
  <2>1. IsFiniteSet(R) /\ \A h \in R : h.incident.len \in Nat
    BY LeavingIs, FS_Subset
  <2>2. \A h \in R : u(R)[h] = 1..h.incident.len /\ IsFiniteSet(u(R)[h])
    BY <2>1, FS_Interval DEF Units, LensOf
  <2> QED BY <2>1, <2>2, BytesAreUnits, FibresAreFinite
<1>2. A \cup B \in SUBSET Leaving
  OBVIOUS
<1>3. Fibres(u(A \cup B), A \cup B) = Fibres(u(A), A) \cup Fibres(u(B), B)
  <2>1. \A h \in A : u(A \cup B)[h] = u(A)[h]
    BY <1>1, <1>2
  <2>2. \A h \in B : u(A \cup B)[h] = u(B)[h]
    BY <1>1, <1>2
  <2> HIDE DEF u
  <2> QED BY <2>1, <2>2 DEF Fibres
<1>4. Fibres(u(A), A) \cap Fibres(u(B), B) = {}
  <2> HIDE DEF u
  <2> QED BY DEF Fibres
<1> HIDE DEF u
<1> DEFINE F == Fibres(u(A), A)
           G == Fibres(u(B), B)
<1>5. IsFiniteSet(F) /\ IsFiniteSet(G) /\ Bytes(A) = Cardinality(F) /\ Bytes(B) = Cardinality(G)
  BY <1>1
<1>6. Bytes(A \cup B) = Cardinality(F \cup G)
  BY <1>1, <1>2, <1>3
<1> HIDE DEF F, G
<1>7. F \cap G = {}
  BY <1>4 DEF F, G
<1>8. Cardinality(F \cup G) = Cardinality(F) + Cardinality(G)
  BY <1>5, <1>7, DisjointAdds
<1> QED BY <1>5, <1>6, <1>8

LEMMA SentAdds ==
    ASSUME Recorded, NEW S, NEW s, s \notin S
    PROVE  SentIn(S \cup {s}) = SentIn(S) + SentBy(s) /\ SentBy(s) \in Nat /\ SentIn(S) \in Nat
<1>1. Sent(S) \in SUBSET Leaving /\ Sent({s}) \in SUBSET Leaving /\ Sent(S) \cap Sent({s}) = {}
  BY DEF Sent
<1>2. Sent(S \cup {s}) = Sent(S) \cup Sent({s})
  BY DEF Sent
<1>3. Bytes(Sent(S) \cup Sent({s})) = Bytes(Sent(S)) + Bytes(Sent({s}))
  BY <1>1, BytesAdd
<1>4. SentBy(s) = Bytes(Sent({s}))
  <2>1. Sent({s}) = {h \in Leaving : h.incident.ip = s}
    BY DEF Sent
  <2> QED BY <2>1 DEF SentBy
<1>5. Bytes(Sent({s})) \in Nat /\ Bytes(Sent(S)) \in Nat
  BY SourceBytes DEF SentIn
<1> QED BY <1>2, <1>3, <1>4, <1>5 DEF SentIn

LEMMA NothingSent == ASSUME Recorded PROVE SentIn({}) = 0
<1>1. Sent({}) = {}
  BY DEF Sent
<1>2. Bytes({}) = Bytes({}) + Bytes({})
  <2>1. {} \in SUBSET Leaving /\ {} \cap {} = {} /\ {} \cup {} = {}
    OBVIOUS
  <2> QED BY <2>1, BytesAdd
<1>3. Bytes({}) \in Nat
  BY <1>1, SourceBytes DEF SentIn
<1>4. Bytes({}) = 0
  <2> DEFINE x == Bytes({})
  <2>1. x = x + x /\ x \in Nat
    BY <1>2, <1>3
  <2> HIDE DEF x
  <2>2. x = 0
    BY ONLY <2>1
  <2> QED BY <2>2 DEF x
<1> QED BY <1>1, <1>4 DEF SentIn

\* What bounds a multiple of each one's bytes bounds it of all theirs, so many times.
LEMMA AllAreLess ==
    ASSUME Recorded, NEW S, IsFiniteSet(S), NEW c \in Nat, NEW n \in Nat,
           \A s \in S : c * SentBy(s) <= n
    PROVE  c * SentIn(S) <= Cardinality(S) * n
<1> DEFINE P == {T \in SUBSET S : c * SentIn(T) <= Cardinality(T) * n}
<1>1. {} \in P
  BY NothingSent, FS_EmptySet
<1>2. ASSUME NEW T \in SUBSET S, NEW s \in S \ T, T \in P PROVE T \cup {s} \in P
  <2>1. IsFiniteSet(T) /\ Cardinality(T) \in Nat /\ Cardinality(T \cup {s}) = Cardinality(T) + 1
    BY FS_Subset, FS_CardinalityType, FS_AddElement
  <2>2. SentIn(T \cup {s}) = SentIn(T) + SentBy(s) /\ SentBy(s) \in Nat /\ SentIn(T) \in Nat
    BY SentAdds
  <2> DEFINE a == SentIn(T)
             b == SentBy(s)
             k == Cardinality(T)
  <2>3. a \in Nat /\ b \in Nat /\ k \in Nat /\ c * a <= k * n /\ c * b <= n
    BY <1>2, <2>1, <2>2
  <2> HIDE DEF a, b, k
  <2>4. c * (a + b) = c * a + c * b /\ (k + 1) * n = k * n + n
        /\ c * a \in Nat /\ c * b \in Nat /\ k * n \in Nat
    BY ONLY <2>3, c \in Nat, n \in Nat, SMTT(30)
  <2>5. c * (a + b) <= (k + 1) * n
    BY ONLY <2>3, <2>4, n \in Nat
  <2> QED BY <2>1, <2>2, <2>5 DEF a, b, k
<1> HIDE DEF P
<1>3. S \in P
  BY <1>1, <1>2, SetInduction
<1> QED BY <1>3 DEF P

LEMMA AllAreMore ==
    ASSUME Recorded, NEW S, IsFiniteSet(S), NEW c \in Nat, NEW n \in Nat,
           \A s \in S : n <= c * SentBy(s)
    PROVE  Cardinality(S) * n <= c * SentIn(S)
<1> DEFINE P == {T \in SUBSET S : Cardinality(T) * n <= c * SentIn(T)}
<1>1. {} \in P
  BY NothingSent, FS_EmptySet
<1>2. ASSUME NEW T \in SUBSET S, NEW s \in S \ T, T \in P PROVE T \cup {s} \in P
  <2>1. IsFiniteSet(T) /\ Cardinality(T) \in Nat /\ Cardinality(T \cup {s}) = Cardinality(T) + 1
    BY FS_Subset, FS_CardinalityType, FS_AddElement
  <2>2. SentIn(T \cup {s}) = SentIn(T) + SentBy(s) /\ SentBy(s) \in Nat /\ SentIn(T) \in Nat
    BY SentAdds
  <2> DEFINE a == SentIn(T)
             b == SentBy(s)
             k == Cardinality(T)
  <2>3. a \in Nat /\ b \in Nat /\ k \in Nat /\ k * n <= c * a /\ n <= c * b
    BY <1>2, <2>1, <2>2
  <2> HIDE DEF a, b, k
  <2>4. c * (a + b) = c * a + c * b /\ (k + 1) * n = k * n + n
        /\ c * a \in Nat /\ c * b \in Nat /\ k * n \in Nat
    BY ONLY <2>3, c \in Nat, n \in Nat, SMTT(30)
  <2>5. (k + 1) * n <= c * (a + b)
    BY ONLY <2>3, <2>4, n \in Nat
  <2> QED BY <2>1, <2>2, <2>5 DEF a, b, k
<1> HIDE DEF P
<1>3. S \in P
  BY <1>1, <1>2, SetInduction
<1> QED BY <1>3 DEF P

FarSender(s, o) == SentBy(s) >= SourceFloor /\ SentBy(s) >= SourceMultiple * SentBy(o)

LEMMA SendersTold == Recorded /\ Analysed => (report.made => SendersStandOut)
<1> SUFFICES ASSUME Recorded, Analysed, report.made PROVE SendersStandOut
  OBVIOUS
<1> DEFINE c == SourceMultiple
<1>1. \A s : s \in report.senders <=>
         /\ s \in Senders /\ Cardinality(Senders) >= MinSources /\ SentBy(s) >= SourceFloor
         /\ SentBy(s) * (Cardinality(Senders) - 1) >= SentIn(Senders \ {s}) * c
  <2> DEFINE sent(S) == BytesOf(Events(Log), {p \in Egress(Events(Log)) : p[1] \in S})
             sources == {p[1] : p \in Egress(Events(Log))}
  <2>1. report.senders = VolumeOutliers(Events(Log))
    BY DEF Analysed
  <2>2. VolumeOutliers(Events(Log)) =
           {s \in sources : /\ Cardinality(sources) >= MinSources /\ sent({s}) >= SourceFloor
                            /\ sent({s}) * (Cardinality(sources) - 1) >= sent(sources \ {s}) * c}
    BY Zenon DEF VolumeOutliers
  <2>3. sources = Senders
    <3>1. \A h : Route(h)[1] = h.incident.ip
      BY DEF Route
    <3> QED BY <3>1, RoutesOut DEF Senders
  <2>4. ASSUME NEW s PROVE sent({s}) = SentBy(s) /\ sent(sources \ {s}) = SentIn(Senders \ {s})
    <3>1. sent({s}) = SentIn({s})
      BY SourceBytes
    <3>2. SentIn({} \cup {s}) = SentIn({}) + SentBy(s) /\ SentBy(s) \in Nat
      <4>1. s \notin {}
        OBVIOUS
      <4> QED BY <4>1, SentAdds
    <3>3. SentIn({s}) = SentBy(s)
      BY <3>2, NothingSent
    <3> QED BY <2>3, <3>1, <3>3, SourceBytes
  <2> HIDE DEF sent, sources
  <2> QED BY <2>1, <2>2, <2>3, <2>4
<1>2. /\ IsFiniteSet(Senders) /\ Cardinality(Senders) \in Nat
      /\ c \in Nat /\ MinSources \in Nat \ 0..1 /\ SourceFloor \in Nat
  BY LeavingIs, TrafficAssumption
<1>3. ASSUME NEW s \in Senders
      PROVE  /\ IsFiniteSet(Senders \ {s}) /\ Cardinality(Senders \ {s}) = Cardinality(Senders) - 1
             /\ Cardinality(Senders \ {s}) \in Nat
             /\ SentBy(s) \in Nat /\ SentIn(Senders \ {s}) \in Nat
             /\ \A o : SentBy(o) \in Nat
  <2>1. IsFiniteSet(Senders \ {s}) /\ Cardinality(Senders \ {s}) = Cardinality(Senders) - 1
        /\ Cardinality(Senders \ {s}) \in Nat
    BY <1>2, FS_RemoveElement, FS_CardinalityType
  <2>2. ASSUME NEW o PROVE SentBy(o) \in Nat
    <3>1. o \notin {}
      OBVIOUS
    <3> QED BY <3>1, SentAdds
  <2> QED BY <2>1, <2>2, SourceBytes
<1>4. ASSUME NEW s \in report.senders PROVE \E o \in Senders \ {s} : FarSender(s, o)
  <2> SUFFICES ASSUME \A o \in Senders \ {s} : ~ FarSender(s, o) PROVE FALSE
    OBVIOUS
  <2> DEFINE n == SentBy(s)
             O == Senders \ {s}
             k == Cardinality(O)
             t == SentIn(O)
  <2>1. s \in Senders /\ Cardinality(Senders) >= MinSources /\ n >= SourceFloor
        /\ n * (Cardinality(Senders) - 1) >= t * c
    BY <1>1
  <2>2. n \in Nat /\ k \in Nat /\ t \in Nat /\ IsFiniteSet(O) /\ k = Cardinality(Senders) - 1
    BY <1>3, <2>1
  <2>3. \A o \in O : n + 1 <= c * SentBy(o)
    <3> TAKE o \in O
    <3>1. ~ (n >= c * SentBy(o)) /\ SentBy(o) \in Nat
      BY <1>3, <2>1 DEF FarSender
    <3>2. c * SentBy(o) \in Nat
      BY <1>2, <3>1, TimesGrows
    <3> QED BY ONLY <2>2, <3>1, <3>2
  <2>4. k * (n + 1) <= c * t
    <3>1. n + 1 \in Nat
      BY <2>2
    <3> HIDE DEF n, O
    <3> QED BY <1>2, <2>2, <2>3, <3>1, AllAreMore
  <2>5. k # 0
    BY <1>2, <2>1, <2>2
  <2>6. n * k >= t * c
    BY <2>1, <2>2
  <2> HIDE DEF n, k, t, O, c
  <2>7. k * (n + 1) = n * k + k /\ c * t = t * c /\ n * k \in Nat /\ t * c \in Nat
    BY ONLY <1>2, <2>2, SMTT(30)
  <2>8. n * k + k <= n * k
    BY ONLY <1>2, <2>2, <2>4, <2>6, <2>7
  <2> DEFINE p == n * k
  <2>9. p \in Nat /\ p + k <= p
    BY <2>7, <2>8
  <2> HIDE DEF p
  <2>10. k \in Nat \ {0}
    BY <2>2, <2>5
  <2> QED BY ONLY <2>9, <2>10
<1>5. ASSUME NEW s \in Senders, Cardinality(Senders) >= MinSources,
             \A o \in Senders \ {s} : FarSender(s, o)
      PROVE  s \in report.senders
  <2> DEFINE n == SentBy(s)
             O == Senders \ {s}
             k == Cardinality(O)
             t == SentIn(O)
  <2>1. n \in Nat /\ k \in Nat /\ t \in Nat /\ IsFiniteSet(O) /\ k = Cardinality(Senders) - 1
    BY <1>3
  <2>2. O # {}
    BY <1>2, <1>5, <2>1, FS_EmptySet
  <2>3. n >= SourceFloor
    BY <1>5, <2>2 DEF FarSender
  <2>4. \A o \in O : c * SentBy(o) <= n
    <3> TAKE o \in O
    <3>1. n >= c * SentBy(o) /\ SentBy(o) \in Nat
      BY <1>3, <1>5 DEF FarSender
    <3>2. c * SentBy(o) \in Nat
      BY <1>2, <3>1, TimesGrows
    <3> QED BY ONLY <2>1, <3>1, <3>2
  <2>5. c * t <= k * n
    <3> HIDE DEF n, O
    <3> QED BY <1>2, <2>1, <2>4, AllAreLess
  <2>6. n * (Cardinality(Senders) - 1) >= t * c
    <3>1. k * n = n * k /\ c * t = t * c /\ n * k \in Nat /\ t * c \in Nat
      <4> HIDE DEF n, k, t, O, c
      <4> QED BY ONLY <1>2, <2>1, SMTT(30)
    <3>2. n * k >= t * c
      <4> HIDE DEF n, k, t, O, c
      <4> QED BY ONLY <2>5, <3>1
    <3> QED BY <2>1, <3>2
  <2> QED BY <1>1, <1>5, <2>3, <2>6
<1> QED BY <1>4, <1>5 DEF SendersStandOut, Senders, FarSender

-----------------------------------------------------------------------------
(* Clients whose lookups fail or are blocked far more often than others' *)

\* Pi-hole's event of a lookup tells what became of it, the gateway's does not.
LEMMA ReasonIs ==
    ASSUME Recorded, NEW h \in Answers, NEW k \in LookupMarks(h), NEW e, LookupOf(e, h, k)
    PROVE  (k = 1 /\ e.reason = h.incident.what) \/ (k = 2 /\ e.reason = NoValue)
<1>1. h.incident.what \in Statuses /\ IsIncident(h.incident) /\ Timed(h)
  BY AnswersAre
<1>2. DOMAIN LinesOf(h.incident) = IF h.incident.ip \in Segment THEN 1..5 ELSE 1..1
  BY <1>1, OutsideLines, SegmentLines
<1>3. k \in DOMAIN LinesOf(h.incident)
  BY <1>2 DEF LookupMarks
<1>4. LookupTells(h, k) /\ Normalize(At(h, k)) = {e}
  BY <1>1, <1>3, LookupsTell DEF LookupOf
<1>5. CASE k = 1
  BY <1>4, <1>5 DEF LookupTells, LookupMarks
<1>6. CASE k = 2
  BY <1>4, <1>6 DEF LookupTells
<1> QED BY <1>5, <1>6 DEF LookupMarks

LEMMA AskedIsFinite ==
    ASSUME Recorded, NEW c
    PROVE  IsFiniteSet(AskedBy(c)) /\ Cardinality(AskedBy(c)) \in Nat
<1>1. AskedBy(c) \subseteq Answers
  BY DEF AskedBy
<1> QED BY <1>1, AnswersAre, FS_Subset, FS_CardinalityType

\* Some events of a client are as many as the lookups behind them.
LEMMA EventsOfClient ==
    ASSUME Recorded, NEW c, NEW E \in SUBSET {e \in DnsEvents : e.ip = c}, NEW A,
           \A e \in E : Behind(e) \in A, \A h \in A : \E e \in E : Behind(e) = h
    PROVE  Cardinality(E) = Cardinality(A) /\ Cardinality(E) \in Nat
<1> DEFINE b == [e \in E |-> Behind(e)]
<1>1. IsFiniteSet(E) /\ Cardinality(E) \in Nat
  BY DnsEventsAreFew, FS_Subset, FS_CardinalityType
<1>2. \A e, f \in E : b[e] = b[f] => e = f
  BY OneEventEach
<1>3. {b[e] : e \in E} = A
  OBVIOUS
<1> HIDE DEF b
<1>4. Cardinality({b[e] : e \in E}) = Cardinality(E)
  BY <1>1, <1>2, ToldApart
<1> QED BY <1>1, <1>3, <1>4

LEMMA LookupsAre ==
    ASSUME Recorded, NEW c
    PROVE  Lookups(Events(Log), c) = Cardinality(AskedBy(c)) /\ Lookups(Events(Log), c) \in Nat
<1> DEFINE E == {e \in DnsEvents : e.ip = c}
<1>1. Lookups(Events(Log), c) = Cardinality(E)
  <2>1. {ev \in DnsEvents : ev["ip"] = c} = E
    BY Columns
  <2> HIDE DEF E
  <2> QED BY <2>1 DEF Lookups, Hits, DnsEvents
<1>2. \A e \in E : Behind(e) \in AskedBy(c)
  BY BehindLookup
<1>3. \A h \in AskedBy(c) : \E e \in E : Behind(e) = h
  BY AskedHasEvent
<1> HIDE DEF E
<1>4. Cardinality(E) = Cardinality(AskedBy(c)) /\ Cardinality(E) \in Nat
  BY <1>2, <1>3, EventsOfClient DEF E
<1> QED BY <1>1, <1>4

\* Only Pi-hole tells of what became of a lookup, and to it those behind the gateway
\* are the gateway.
LEMMA FailedLookups ==
    ASSUME Recorded, NEW c
    PROVE  Answered(Events(Log), c, {"NXDOMAIN"}) = With(c, "NXDOMAIN")
<1> DEFINE E == {e \in DnsEvents : e.ip = c /\ e.reason \in {"NXDOMAIN"}}
           A == {h \in AskedBy(c) : h.incident.what = "NXDOMAIN" /\ c \notin Segment}
<1>1. Answered(Events(Log), c, {"NXDOMAIN"}) = Cardinality(E) /\ With(c, "NXDOMAIN") = Cardinality(A)
  BY Zenon DEF Answered, With, DnsEvents
<1>2. ASSUME NEW e \in E PROVE Behind(e) \in A
  <2>1. Behind(e) \in Answers /\ Behind(e) \in AskedBy(c)
    BY BehindLookup
  <2>2. PICK k \in LookupMarks(Behind(e)) : LookupOf(e, Behind(e), k)
    BY BehindLookup
  <2>3. k = 1 /\ e.reason = Behind(e).incident.what
    BY <2>1, <2>2, ReasonIs DEF NoValue
  <2>4. c = Asker(Behind(e), k)
    BY <2>2, LookupSaysOf
  <2>5. c \notin Segment
    BY <2>3, <2>4, GatewayAssumption DEF Asker
  <2> QED BY <2>1, <2>3, <2>5
<1>3. ASSUME NEW h \in A PROVE \E e \in E : Behind(e) = h
  <2>1. PICK e \in DnsEvents : Behind(e) = h /\ e.ip = c
    BY AskedHasEvent
  <2>2. h \in Answers
    BY DEF AskedBy
  <2>3. PICK k \in LookupMarks(h) : LookupOf(e, h, k)
    BY <2>1, BehindLookup
  <2>4. (k = 1 /\ e.reason = h.incident.what) \/ k = 2
    BY <2>2, <2>3, ReasonIs
  <2>5. c = Asker(h, k) /\ c \notin Segment
    BY <2>1, <2>3, LookupSaysOf
  <2>6. k # 2
    BY <2>5 DEF LookupMarks, Asker
  <2> QED BY <2>1, <2>4, <2>6
<1>4. E \in SUBSET {e \in DnsEvents : e.ip = c}
  OBVIOUS
<1> HIDE DEF E, A
<1>5. Cardinality(E) = Cardinality(A)
  BY <1>2, <1>3, <1>4, EventsOfClient
<1> QED BY <1>1, <1>5

LEMMA AnsweredIsNat ==
    ASSUME Recorded, NEW statuses, NEW c
    PROVE  Answered(Events(Log), c, statuses) \in Nat
<1> DEFINE E == {e \in DnsEvents : e.ip = c /\ e.reason \in statuses}
<1>1. Answered(Events(Log), c, statuses) = Cardinality(E)
  BY Zenon DEF Answered, DnsEvents
<1>2. IsFiniteSet(E)
  BY DnsEventsAreFew, FS_Subset
<1> HIDE DEF E
<1> QED BY <1>1, <1>2, FS_CardinalityType

LEMMA ClientsAre ==
    ASSUME Recorded
    PROVE  Clients(Events(Log)) = Askers /\ IsFiniteSet(Askers) /\ Cardinality(Askers) \in Nat
<1>1. ASSUME NEW c \in Clients(Events(Log)) PROVE c \in Askers
  <2>1. PICK e \in DnsEvents : c = e.ip
    BY Columns DEF Clients, Distinct, DnsEvents
  <2>2. Behind(e) \in AskedBy(c) /\ Behind(e) \in Answers
    BY <2>1, BehindLookup
  <2>3. c = Behind(e).incident.ip \/ c = Gateway
    BY <2>2 DEF AskedBy
  <2> QED BY <2>2, <2>3 DEF Askers
<1>2. ASSUME NEW c \in Askers PROVE c \in Clients(Events(Log))
  <2>1. PICK h \in AskedBy(c) : TRUE
    BY DEF Askers
  <2>2. PICK e \in DnsEvents : e.ip = c
    BY <2>1, AskedHasEvent
  <2>3. c # NoValue
    BY AnswersAre, GatewayAssumption DEF Askers
  <2>4. c \in {ev["ip"] : ev \in DnsEvents}
    BY <2>2
  <2> QED BY <2>3, <2>4 DEF Clients, Distinct, DnsEvents
<1>3. IsFiniteSet(Askers) /\ Cardinality(Askers) \in Nat
  <2> DEFINE f == [h \in Answers |-> h.incident.ip]
             S == {f[h] : h \in Answers}
  <2>1. Askers \subseteq S \cup {Gateway}
    BY DEF Askers
  <2> HIDE DEF f
  <2>2. IsFiniteSet(S)
    BY AnswersAre, ImageIsSmall
  <2> HIDE DEF S
  <2>3. IsFiniteSet(S \cup {Gateway})
    BY <2>2, FS_AddElement
  <2> QED BY <2>1, <2>3, FS_Subset, FS_CardinalityType
<1> QED BY <1>1, <1>2, <1>3

-----------------------------------------------------------------------------
(* Rates and their means *)

\* The fold that multiplies, and its first steps.
ProductFold(f, R, w) ==
    f = [s \in SUBSET R |-> IF s = {} THEN 1
            ELSE w[CHOOSE x \in s : TRUE] * f[s \ {CHOOSE x \in s : TRUE}]]
ProductFoldUpTo(f, R, w, n) ==
    f = [s \in UpTo(R, n) |-> IF s = {} THEN 1
            ELSE w[CHOOSE x \in s : TRUE] * f[s \ {CHOOSE x \in s : TRUE}]]

LEMMA ProductFoldExists ==
    ASSUME NEW R, IsFiniteSet(R), NEW w
    PROVE  \E f : ProductFold(f, R, w)
<1> DEFINE N == {n \in Nat : \E f : ProductFoldUpTo(f, R, w, n)}
<1>1. 0 \in N
  <2> DEFINE f == [s \in UpTo(R, 0) |-> 1]
  <2>1. ASSUME NEW s \in UpTo(R, 0) PROVE s = {}
    <3>1. s \in SUBSET R /\ Cardinality(s) <= 0
      BY DEF UpTo
    <3>2. s # {} => Cardinality(s) \in Nat \ {0}
      BY <3>1, OneLess
    <3> QED BY <3>1, <3>2
  <2>2. ProductFoldUpTo(f, R, w, 0)
    BY <2>1 DEF ProductFoldUpTo
  <2> QED BY <2>2
<1>2. ASSUME NEW n \in Nat, n \in N PROVE n + 1 \in N
  <2>1. PICK f : ProductFoldUpTo(f, R, w, n)
    BY <1>2
  <2> DEFINE g == [s \in UpTo(R, n + 1) |-> IF s = {} THEN 1
                      ELSE w[CHOOSE x \in s : TRUE] * f[s \ {CHOOSE x \in s : TRUE}]]
  <2>2. ASSUME NEW s \in UpTo(R, n) PROVE s \in UpTo(R, n + 1) /\ g[s] = f[s]
    <3>1. s \in SUBSET R /\ Cardinality(s) <= n
      BY DEF UpTo
    <3>2. Cardinality(s) \in Nat
      BY <3>1, FS_Subset, FS_CardinalityType
    <3>3. s \in UpTo(R, n + 1)
      BY <3>1, <3>2 DEF UpTo
    <3>4. f[s] = IF s = {} THEN 1
                 ELSE w[CHOOSE x \in s : TRUE] * f[s \ {CHOOSE x \in s : TRUE}]
      BY Zenon, <2>1 DEF ProductFoldUpTo
    <3> QED BY Zenon, <3>3, <3>4
  <2>3. ASSUME NEW s \in UpTo(R, n + 1), s # {}
        PROVE  s \ {CHOOSE x \in s : TRUE} \in UpTo(R, n)
    <3> DEFINE x == CHOOSE x \in s : TRUE
    <3>1. s \in SUBSET R /\ Cardinality(s) <= n + 1
      BY DEF UpTo
    <3>2. s \ {x} \in SUBSET R /\ Cardinality(s) \in Nat \ {0}
          /\ Cardinality(s \ {x}) = Cardinality(s) - 1
      BY <2>3, <3>1, OneLess
    <3> HIDE DEF x
    <3>3. s \ {x} \in UpTo(R, n)
      BY <3>1, <3>2 DEF UpTo
    <3> QED BY <3>3 DEF x
  <2>4. g = [s \in UpTo(R, n + 1) |-> IF s = {} THEN 1
                ELSE w[CHOOSE x \in s : TRUE] * g[s \ {CHOOSE x \in s : TRUE}]]
    <3>1. ASSUME NEW s \in UpTo(R, n + 1)
          PROVE  g[s] = IF s = {} THEN 1
                        ELSE w[CHOOSE x \in s : TRUE] * g[s \ {CHOOSE x \in s : TRUE}]
      <4> HIDE DEF g
      <4>1. g[s] = IF s = {} THEN 1
                   ELSE w[CHOOSE x \in s : TRUE] * f[s \ {CHOOSE x \in s : TRUE}]
        BY Zenon DEF g
      <4>2. CASE s = {}
        BY Zenon, <4>1, <4>2
      <4>3. CASE s # {}
        <5>1. g[s \ {CHOOSE x \in s : TRUE}] = f[s \ {CHOOSE x \in s : TRUE}]
          BY <2>2, <2>3, <4>3
        <5> QED BY Zenon, <4>1, <4>3, <5>1
      <4> QED BY <4>2, <4>3
    <3>2. g = [s \in UpTo(R, n + 1) |-> g[s]]
      OBVIOUS
    <3> HIDE DEF g
    <3> QED BY ONLY Zenon, <3>1, <3>2
  <2>5. ProductFoldUpTo(g, R, w, n + 1)
    <3> HIDE DEF g
    <3> QED BY Zenon, <2>4 DEF ProductFoldUpTo
  <2> QED BY <2>5
<1>3. Cardinality(R) \in Nat
  BY FS_CardinalityType
<1>4. Cardinality(R) \in N
  <2> HIDE DEF N
  <2>1. Nat \subseteq N
    BY <1>1, <1>2, NatSets
  <2> QED BY <1>3, <2>1
<1>5. PICK f : ProductFoldUpTo(f, R, w, Cardinality(R))
  BY <1>4
<1>6. UpTo(R, Cardinality(R)) = SUBSET R
  <2>1. ASSUME NEW s \in SUBSET R PROVE Cardinality(s) <= Cardinality(R)
    BY FS_Subset
  <2> QED BY <2>1 DEF UpTo
<1>7. ProductFold(f, R, w)
  BY Zenon, <1>5, <1>6 DEF ProductFold, ProductFoldUpTo
<1> QED BY <1>7

LEMMA ProductIsPositive ==
    ASSUME NEW R, IsFiniteSet(R), NEW w, \A x \in R : w[x] \in Nat \ {0}, NEW f, ProductFold(f, R, w)
    PROVE  f[R] \in Nat \ {0}
<1> DEFINE N == {n \in Nat : \A s \in SUBSET R : Cardinality(s) = n => f[s] \in Nat \ {0}}
<1>1. \A s \in SUBSET R : f[s] = IF s = {} THEN 1
          ELSE w[CHOOSE x \in s : TRUE] * f[s \ {CHOOSE x \in s : TRUE}]
  BY Zenon DEF ProductFold
<1>2. \A s \in SUBSET R : IsFiniteSet(s) /\ Cardinality(s) \in Nat
  BY FS_Subset, FS_CardinalityType
<1>3. 0 \in N
  <2>1. ASSUME NEW s \in SUBSET R, Cardinality(s) = 0 PROVE f[s] = 1
    <3>1. s = {}
      BY <1>2, <2>1, FS_EmptySet
    <3> QED BY <1>1, <3>1
  <2> QED BY <2>1
<1>4. ASSUME NEW n \in Nat, n \in N PROVE n + 1 \in N
  <2> SUFFICES ASSUME NEW s \in SUBSET R, Cardinality(s) = n + 1 PROVE f[s] \in Nat \ {0}
    OBVIOUS
  <2>1. s # {}
    BY FS_EmptySet
  <2> DEFINE x == CHOOSE x \in s : TRUE
             S == s \ {x}
  <2>2. f[s] = w[x] * f[S]
    BY Zenon, <1>1, <2>1
  <2>3. x \in s /\ S \in SUBSET R /\ Cardinality(S) = Cardinality(s) - 1
    BY <2>1, OneLess
  <2> HIDE DEF x, S
  <2>4. w[x] \in Nat \ {0} /\ f[S] \in Nat \ {0}
    BY <1>4, <2>3
  <2> DEFINE a == w[x]
             b == f[S]
  <2>5. a \in Nat \ {0} /\ b \in Nat \ {0} /\ f[s] = a * b
    BY <2>2, <2>4
  <2> HIDE DEF a, b
  <2>6. a <= a * b /\ a * b \in Nat
    BY <2>5, TimesIsMore, TimesGrows
  <2>7. a * b # 0
    BY ONLY <2>5, <2>6
  <2> QED BY <2>5, <2>6, <2>7
<1> HIDE DEF N
<1>5. Cardinality(R) \in Nat /\ Nat \subseteq N
  BY <1>3, <1>4, NatSets, FS_CardinalityType
<1> QED BY <1>5 DEF N

\* Everybody's numbers of lookups, multiplied.
ProductOf(events, R) == FoldSet(LAMBDA p, product : Lookups(events, p) * product, 1, R)

LEMMA LookupsMultiply ==
    ASSUME NEW events, NEW R, IsFiniteSet(R), \A p \in R : Lookups(events, p) \in Nat \ {0}
    PROVE  ProductOf(events, R) \in Nat \ {0}
<1> DEFINE w == [p \in R |-> Lookups(events, p)]
           fold(f) == f = [s \in SUBSET R |-> IF s = {} THEN 1
                             ELSE Lookups(events, CHOOSE x \in s : TRUE)
                                      * f[s \ {CHOOSE x \in s : TRUE}]]
           it == CHOOSE f : fold(f)
<1>1. ProductOf(events, R) = it[R]
  BY Zenon DEF ProductOf, FoldSet, MapThenFoldSet
<1>2. \A p \in R : w[p] = Lookups(events, p) /\ w[p] \in Nat \ {0}
  OBVIOUS
<1> HIDE DEF w
<1>3. ASSUME NEW f PROVE ProductFold(f, R, w) <=> fold(f)
  <2>1. ASSUME NEW s \in SUBSET R
        PROVE  (IF s = {} THEN 1 ELSE w[CHOOSE x \in s : TRUE] * f[s \ {CHOOSE x \in s : TRUE}]) =
               (IF s = {} THEN 1
                ELSE Lookups(events, CHOOSE x \in s : TRUE) * f[s \ {CHOOSE x \in s : TRUE}])
    <3>1. s # {} => (CHOOSE x \in s : TRUE) \in R
      OBVIOUS
    <3>2. s # {} => w[CHOOSE x \in s : TRUE] = Lookups(events, CHOOSE x \in s : TRUE)
      BY <1>2, <3>1
    <3> QED BY Zenon, <3>2
  <2> QED BY Zenon, <2>1 DEF ProductFold
<1>4. \E f : ProductFold(f, R, w)
  BY ProductFoldExists
<1> HIDE DEF fold
<1>5. fold(it)
  BY <1>3, <1>4
<1> HIDE DEF it
<1>6. it[R] \in Nat \ {0}
  BY <1>2, <1>3, <1>5, ProductIsPositive
<1> QED BY <1>1, <1>6

\* A sum of rates holds each of them.
SumOf(events, st, cs, R) == FoldSet(LAMBDA p, acc : Rate(events, st, p, cs) + acc, 0, R)

LEMMA RatesAddUp ==
    ASSUME NEW events, NEW st, NEW cs, NEW R, IsFiniteSet(R), \A p \in R : Rate(events, st, p, cs) \in Nat
    PROVE  /\ SumOf(events, st, cs, R) \in Nat
           /\ \A p \in R : Rate(events, st, p, cs) <= SumOf(events, st, cs, R)
<1> DEFINE w == [p \in R |-> Rate(events, st, p, cs)]
           fold(f) == f = [s \in SUBSET R |-> IF s = {} THEN 0
                             ELSE Rate(events, st, CHOOSE x \in s : TRUE, cs)
                                      + f[s \ {CHOOSE x \in s : TRUE}]]
           it == CHOOSE f : fold(f)
           u == Units(w, R)
<1>1. SumOf(events, st, cs, R) = it[R]
  BY Zenon DEF SumOf, FoldSet, MapThenFoldSet
<1>2. \A p \in R : w[p] = Rate(events, st, p, cs) /\ w[p] \in Nat
  OBVIOUS
<1> HIDE DEF w
<1>3. ASSUME NEW f PROVE Folds_(f, w, R) <=> fold(f)
  <2>1. ASSUME NEW s \in SUBSET R
        PROVE  (IF s = {} THEN 0 ELSE w[CHOOSE x \in s : TRUE] + f[s \ {CHOOSE x \in s : TRUE}]) =
               (IF s = {} THEN 0
                ELSE Rate(events, st, CHOOSE x \in s : TRUE, cs) + f[s \ {CHOOSE x \in s : TRUE}])
    <3>1. s # {} => (CHOOSE x \in s : TRUE) \in R
      OBVIOUS
    <3>2. s # {} => w[CHOOSE x \in s : TRUE] = Rate(events, st, CHOOSE x \in s : TRUE, cs)
      BY <1>2, <3>1
    <3> QED BY Zenon, <3>2
  <2> QED BY Zenon, <2>1 DEF Folds_
<1>4. \E f : Folds_(f, w, R)
  BY <1>2, FoldExists
<1> HIDE DEF fold
<1>5. fold(it)
  BY <1>3, <1>4
<1> HIDE DEF it
<1>6. it[R] = Cardinality(Fibres(u, R))
  BY <1>2, <1>3, <1>5, FoldIsCount
<1>7. \A p \in R : u[p] = 1..w[p] /\ IsFiniteSet(u[p]) /\ Cardinality(u[p]) = w[p]
  BY <1>2, FS_Interval DEF Units
<1> HIDE DEF u
<1>8. IsFiniteSet(Fibres(u, R)) /\ Cardinality(Fibres(u, R)) \in Nat
  BY <1>7, FibresAreFinite
<1>9. ASSUME NEW p \in R PROVE w[p] <= Cardinality(Fibres(u, R))
  <2> DEFINE K == u[p]
             F == {<<p, k>> : k \in K}
  <2>1. IsFiniteSet(K) /\ Cardinality(K) = w[p]
    BY <1>7
  <2>2. F \subseteq Fibres(u, R)
    BY DEF Fibres
  <2> HIDE DEF K
  <2>3. Cardinality(F) = w[p]
    BY <2>1, OneFibre
  <2> HIDE DEF F
  <2> QED BY <1>8, <2>2, <2>3, SubsetIsSmall
<1> QED BY <1>1, <1>2, <1>6, <1>8, <1>9

\* A rate is a natural, and not nothing if some lookup was answered so.
LEMMA RateIs ==
    ASSUME NEW events, NEW st, NEW cs, IsFiniteSet(cs), NEW c \in cs,
           \A p \in cs : Lookups(events, p) \in Nat \ {0}, Answered(events, c, st) \in Nat
    PROVE  /\ Rate(events, st, c, cs) \in Nat
           /\ Answered(events, c, st) # 0 => Rate(events, st, c, cs) # 0
<1> DEFINE R == cs \ {c}
           a == Answered(events, c, st)
           b == ProductOf(events, R)
<1>1. Rate(events, st, c, cs) = a * b
  BY Zenon DEF Rate, ProductOf
<1>2. IsFiniteSet(R) /\ \A p \in R : Lookups(events, p) \in Nat \ {0}
  BY FS_Subset
<1> HIDE DEF R
<1>3. a \in Nat /\ b \in Nat \ {0}
  BY <1>2, LookupsMultiply
<1> HIDE DEF b, a
<1>4. a <= a * b /\ a * b \in Nat
  BY <1>3, TimesIsMore, TimesGrows
<1>5. a # 0 => a * b # 0
  BY ONLY <1>3, <1>4
<1> QED BY <1>1, <1>4, <1>5 DEF a

\* Whoever is far above a mean is above each of those it is taken of, as often.
LEMMA FarAboveIs ==
    ASSUME NEW events, NEW st, NEW c, NEW peers, IsFiniteSet(peers), NEW cs, cs = peers \cup {c},
           \A p \in peers : Rate(events, st, p, cs) \in Nat, Rate(events, st, c, cs) \in Nat,
           NEW tenths \in Nat, FarAbove(events, st, c, peers, tenths)
    PROVE  \A p \in peers : 10 * Rate(events, st, c, cs) * Cardinality(peers)
                                >= tenths * Rate(events, st, p, cs)
<1> DEFINE sum == SumOf(events, st, cs, peers)
<1>1. 10 * Rate(events, st, c, cs) * Cardinality(peers) >= tenths * sum
  <2>1. 10 * Rate(events, st, c, peers \cup {c}) * Cardinality(peers)
            >= tenths * SumOf(events, st, peers \cup {c}, peers)
    BY Zenon DEF FarAbove, SumOf
  <2> QED BY <2>1
<1>2. sum \in Nat /\ \A p \in peers : Rate(events, st, p, cs) <= sum
  BY RatesAddUp
<1> HIDE DEF sum
<1> TAKE p \in peers
<1> DEFINE r == Rate(events, st, p, cs)
           q == Rate(events, st, c, cs)
           n == Cardinality(peers)
<1>3. r \in Nat /\ q \in Nat /\ n \in Nat /\ r <= sum
  BY <1>2, FS_CardinalityType
<1>4. 10 * q * n >= tenths * sum
  BY <1>1
<1> HIDE DEF r, q, n
<1>5. r * tenths <= sum * tenths /\ r * tenths \in Nat /\ sum * tenths \in Nat
  BY <1>2, <1>3, TimesGrows
<1>6. r * tenths = tenths * r /\ sum * tenths = tenths * sum /\ 10 * q * n \in Nat
  BY <1>2, <1>3, SMTT(30)
<1>7. 10 * q * n >= tenths * r
  BY ONLY <1>4, <1>5, <1>6
<1> QED BY <1>7 DEF r, q, n

\* Who is compared is busy.
LEMMA ComparedIs ==
    ASSUME Recorded, NEW st, NEW least
    PROVE  LET S == Compared(Events(Log), st, least)
           IN  /\ S \subseteq Busy /\ IsFiniteSet(S) /\ IsFiniteSet(Busy)
               /\ \A c : c \in S <=>
                    c \in Busy /\ Cardinality(Askers) >= MinClients
                        /\ Answered(Events(Log), c, st) >= least
               /\ \A c \in S : Lookups(Events(Log), c) \in Nat \ {0}
               /\ \A c \in S : Rate(Events(Log), st, c, S) \in Nat
               /\ \A c \in S : Answered(Events(Log), c, st) # 0 => Rate(Events(Log), st, c, S) # 0
<1> DEFINE S == Compared(Events(Log), st, least)
<1>1. \A c : c \in S <=>
                    c \in Busy /\ Cardinality(Askers) >= MinClients
                        /\ Answered(Events(Log), c, st) >= least
  <2>1. \A c : c \in S <=>
            /\ c \in Askers /\ Cardinality(Askers) >= MinClients
            /\ Lookups(Events(Log), c) >= Heavy /\ Answered(Events(Log), c, st) >= least
    BY ClientsAre DEF Compared
  <2>2. \A c : Lookups(Events(Log), c) = Cardinality(AskedBy(c))
    BY LookupsAre
  <2> HIDE DEF S
  <2> QED BY <2>1, <2>2 DEF Busy
<1>2. IsFiniteSet(Busy)
  BY ClientsAre, FS_Subset DEF Busy
<1> HIDE DEF S
<1>3. S \subseteq Busy /\ IsFiniteSet(S)
  BY <1>1, <1>2, FS_Subset
<1>4. ASSUME NEW c \in S PROVE Lookups(Events(Log), c) \in Nat \ {0}
  <2>1. c \in Busy
    BY <1>1
  <2>2. Lookups(Events(Log), c) >= Heavy /\ Lookups(Events(Log), c) \in Nat
    BY <2>1, LookupsAre DEF Busy
  <2>3. Heavy \in Nat \ {0}
    BY LookupsAssumption
  <2> QED BY ONLY <2>2, <2>3
<1>5. ASSUME NEW c \in S
      PROVE  /\ Rate(Events(Log), st, c, S) \in Nat
             /\ Answered(Events(Log), c, st) # 0 => Rate(Events(Log), st, c, S) # 0
  BY <1>3, <1>4, AnsweredIsNat, RateIs
<1> QED BY <1>1, <1>2, <1>3, <1>4, <1>5 DEF S

Failing == {c \in Busy : With(c, "NXDOMAIN") >= NxMin}

LEMMA FailingAre ==
    ASSUME Recorded
    PROVE  LET S == Compared(Events(Log), {"NXDOMAIN"}, NxMin)
           IN  \A c : c \in S <=> c \in Failing /\ Cardinality(Askers) >= MinClients
BY ComparedIs, FailedLookups DEF Failing

\* Two cannot each be far above the mean of the others but among many.
LEMMA NotBoth ==
    ASSUME NEW q \in Nat \ {0}, NEW r \in Nat \ {0}, NEW n \in Nat \ {0}, NEW m \in Nat, n <= m,
           10 * q * (n - 1) >= 10 * m * r, 10 * r * (n - 1) >= 10 * m * q
    PROVE  FALSE
<1> DEFINE k == n - 1
<1>1. k \in Nat /\ k + 1 <= m
  OBVIOUS
<1>2. 10 * q * k >= 10 * m * r /\ 10 * r * k >= 10 * m * q
  OBVIOUS
<1> HIDE DEF k
<1>3. ASSUME NEW a \in Nat \ {0}, NEW b \in Nat, a <= b, 10 * a * k >= 10 * m * b PROVE FALSE
  <2>1. a * k <= b * k /\ a * k \in Nat /\ b * k \in Nat
    BY <1>1, <1>3, TimesGrows
  <2>2. (k + 1) * b <= m * b /\ m * b \in Nat
    BY <1>1, TimesGrows
  <2>3. 10 * a * k = 10 * (a * k) /\ 10 * m * b = 10 * (m * b) /\ (k + 1) * b = b * k + b
    BY <1>1, SMTT(30)
  <2> DEFINE x == a * k
             y == m * b
             z == b * k
             t == (k + 1) * b
  <2>4. x \in Nat /\ y \in Nat /\ z \in Nat /\ x <= z /\ t <= y /\ t = z + b /\ 10 * x >= 10 * y
    BY <1>3, <2>1, <2>2, <2>3
  <2> HIDE DEF x, y, z, t
  <2>5. b # 0
    BY <1>3
  <2> QED BY ONLY <2>4, <2>5, b \in Nat
<1>4. CASE q <= r
  BY <1>2, <1>3, <1>4
<1>5. CASE r <= q
  BY <1>2, <1>3, <1>5
<1> QED BY <1>4, <1>5

LEMMA FewFail ==
    ASSUME Recorded, report.failing = NxOutliers(Events(Log)),
           NEW c \in report.failing, NEW d \in report.failing, c # d,
           Cardinality(Failing) <= NxMultiple
    PROVE  FALSE
<1> DEFINE ev == Events(Log)
           st == {"NXDOMAIN"}
           S == Compared(ev, st, NxMin)
           n == Cardinality(S)
           q == Rate(ev, st, c, S)
           r == Rate(ev, st, d, S)
<1>1. /\ c \in S /\ FarAbove(ev, st, c, S \ {c}, 10 * NxMultiple)
      /\ d \in S /\ FarAbove(ev, st, d, S \ {d}, 10 * NxMultiple)
  BY DEF NxOutliers
<1>2. /\ IsFiniteSet(S) /\ IsFiniteSet(Busy) /\ S \subseteq Failing
      /\ \A p \in S : Rate(ev, st, p, S) \in Nat /\ Rate(ev, st, p, S) # 0
  <2>1. \A p \in S : Answered(ev, p, st) # 0
    <3> TAKE p \in S
    <3>1. Answered(ev, p, st) >= NxMin /\ Answered(ev, p, st) \in Nat
      BY ComparedIs, AnsweredIsNat
    <3>2. NxMin \in Nat \ {0}
      BY LookupsAssumption
    <3> QED BY ONLY <3>1, <3>2
  <2> QED BY <2>1, ComparedIs, FailingAre
<1>3. n \in Nat \ {0} /\ n <= NxMultiple /\ NxMultiple \in Nat
  <2>1. IsFiniteSet(Failing)
    BY <1>2, FS_Subset DEF Failing
  <2>2. n <= Cardinality(Failing) /\ n \in Nat /\ Cardinality(Failing) \in Nat
    BY <1>2, <2>1, SubsetIsSmall
  <2>3. n # 0
    BY <1>1, <1>2, FS_EmptySet
  <2>4. NxMultiple \in Nat
    BY LookupsAssumption
  <2> QED BY ONLY <2>2, <2>3, <2>4, Cardinality(Failing) <= NxMultiple
<1>4. q \in Nat \ {0} /\ r \in Nat \ {0}
  BY <1>1, <1>2
<1>5. /\ IsFiniteSet(S \ {c}) /\ Cardinality(S \ {c}) = n - 1 /\ (S \ {c}) \cup {c} = S
      /\ IsFiniteSet(S \ {d}) /\ Cardinality(S \ {d}) = n - 1 /\ (S \ {d}) \cup {d} = S
      /\ d \in S \ {c} /\ c \in S \ {d}
  BY <1>1, <1>2, FS_RemoveElement
<1> HIDE DEF S, st, ev
<1>6. 10 * NxMultiple \in Nat
  BY <1>3
<1> DEFINE m == NxMultiple
           t == 10 * NxMultiple
<1> HIDE DEF m, t
<1>7. 10 * q * (n - 1) >= t * r
  <2> DEFINE C == S \ {c}
  <2>1. /\ IsFiniteSet(C) /\ S = C \cup {c} /\ FarAbove(ev, st, c, C, t) /\ t \in Nat
        /\ \A p \in C : Rate(ev, st, p, S) \in Nat
        /\ Rate(ev, st, c, S) \in Nat /\ d \in C /\ Cardinality(C) = n - 1
    BY <1>1, <1>2, <1>5, <1>6 DEF t
  <2> HIDE DEF C, q, r, n
  <2>2. 10 * Rate(ev, st, c, S) * Cardinality(C) >= t * Rate(ev, st, d, S)
    BY ONLY <2>1, FarAboveIs
  <2> QED BY <2>1, <2>2 DEF q, r
<1>8. 10 * r * (n - 1) >= t * q
  <2> DEFINE C == S \ {d}
  <2>1. /\ IsFiniteSet(C) /\ S = C \cup {d} /\ FarAbove(ev, st, d, C, t) /\ t \in Nat
        /\ \A p \in C : Rate(ev, st, p, S) \in Nat
        /\ Rate(ev, st, d, S) \in Nat /\ c \in C /\ Cardinality(C) = n - 1
    BY <1>1, <1>2, <1>5, <1>6 DEF t
  <2> HIDE DEF C, q, r, n
  <2>2. 10 * Rate(ev, st, d, S) * Cardinality(C) >= t * Rate(ev, st, c, S)
    BY ONLY <2>1, FarAboveIs
  <2> QED BY <2>1, <2>2 DEF q, r
<1> HIDE DEF q, r, n
<1>9. n \in Nat \ {0} /\ n <= m /\ m \in Nat /\ t = 10 * m
  BY <1>3 DEF m, t
<1>10. 10 * q * (n - 1) >= 10 * m * r /\ 10 * r * (n - 1) >= 10 * m * q
  BY <1>7, <1>8, <1>9
<1> QED BY <1>4, <1>9, <1>10, NotBoth

\* A rate of blocked lookups some tenths of the mean takes as many busy clients.
LEMMA ManyBlocked ==
    ASSUME Recorded
    PROVE  LET blocked == BlockOutliers(Events(Log))
           IN  /\ blocked \subseteq Busy
               /\ blocked # {} => 10 * Cardinality(Busy) >= BlockTenths
<1> DEFINE ev == Events(Log)
           S == Compared(ev, BlockedStatuses, 0)
<1>1. \A c : c \in BlockOutliers(ev) <=>
         /\ c \in S /\ AtLeast(ev, BlockedStatuses, c, BlockFloor)
         /\ FarAbove(ev, BlockedStatuses, c, S, BlockTenths)
  BY DEF BlockOutliers
<1>2. /\ S \subseteq Busy /\ IsFiniteSet(S) /\ IsFiniteSet(Busy)
      /\ \A c \in S : Lookups(ev, c) \in Nat \ {0} /\ Rate(ev, BlockedStatuses, c, S) \in Nat
      /\ \A c \in S : Answered(ev, c, BlockedStatuses) # 0 => Rate(ev, BlockedStatuses, c, S) # 0
  BY ComparedIs
<1>3. ASSUME NEW c \in BlockOutliers(ev) PROVE 10 * Cardinality(Busy) >= BlockTenths
  <2> DEFINE a == Answered(ev, c, BlockedStatuses)
             n == Lookups(ev, c)
             q == Rate(ev, BlockedStatuses, c, S)
             k == Cardinality(S)
             t == BlockTenths
  <2>1. c \in S /\ FarAbove(ev, BlockedStatuses, c, S, t)
    BY <1>1, <1>3
  <2>2. 100 * a >= BlockFloor * n
    BY <1>1, <1>3 DEF AtLeast
  <2>3. a \in Nat /\ n \in Nat \ {0}
    BY <1>2, <2>1, AnsweredIsNat
  <2>4. a # 0
    <3> HIDE DEF a, n
    <3>1. BlockFloor \in Nat \ {0}
      BY LookupsAssumption
    <3>2. n <= n * BlockFloor /\ n * BlockFloor \in Nat /\ n * BlockFloor = BlockFloor * n
      <4>1. n <= n * BlockFloor
        BY <2>3, <3>1, TimesIsMore
      <4> QED BY <2>3, <3>1, <4>1, SMTT(30)
    <3> QED BY ONLY <2>2, <2>3, <3>2
  <2>5. q \in Nat \ {0}
    BY <1>2, <2>1, <2>4
  <2>6. k <= Cardinality(Busy) /\ k \in Nat /\ Cardinality(Busy) \in Nat /\ t \in Nat
    BY <1>2, SubsetIsSmall, LookupsAssumption
  <2>7. 10 * q * k >= t * q
    <3>1. S = S \cup {c} /\ \A p \in S : Rate(ev, BlockedStatuses, p, S) \in Nat
      BY <1>2, <2>1
    <3> HIDE DEF S, ev, t, q, k
    <3>2. 10 * Rate(ev, BlockedStatuses, c, S) * Cardinality(S) >= t * Rate(ev, BlockedStatuses, c, S)
      BY ONLY <1>2, <2>1, <2>6, <3>1, FarAboveIs
    <3> QED BY <3>2 DEF q, k
  <2> HIDE DEF q, k, t
  <2>8. 10 * k >= t
    <3> SUFFICES ASSUME t >= 10 * k + 1 PROVE FALSE
      BY <2>6
    <3>1. 10 * k + 1 \in Nat
      BY <2>6
    <3>2. (10 * k + 1) * q <= t * q /\ t * q \in Nat
      BY <2>5, <2>6, <3>1, TimesGrows
    <3>3. (10 * k + 1) * q = 10 * q * k + q /\ 10 * q * k \in Nat
      BY <2>5, <2>6, SMTT(30)
    <3> DEFINE x == 10 * q * k
               y == t * q
    <3>4. x \in Nat /\ y \in Nat /\ x >= y /\ x + q <= y
      BY <2>7, <3>2, <3>3
    <3> HIDE DEF x, y
    <3> QED BY ONLY <2>5, <3>4
  <2> QED BY <2>6, <2>8 DEF t
<1> QED BY <1>1, <1>2, <1>3

\* No rates, no sum of them.
LEMMA NoRates ==
    ASSUME NEW events, NEW st, NEW cs
    PROVE  SumOf(events, st, cs, {}) = 0
<1> DEFINE w == [p \in {} |-> 0]
           fold(f) == f = [s \in SUBSET {} |-> IF s = {} THEN 0
                             ELSE Rate(events, st, CHOOSE x \in s : TRUE, cs)
                                      + f[s \ {CHOOSE x \in s : TRUE}]]
           it == CHOOSE f : fold(f)
<1>1. SumOf(events, st, cs, {}) = it[{}]
  BY Zenon DEF SumOf, FoldSet, MapThenFoldSet
<1>2. fold([s \in SUBSET {} |-> 0])
  OBVIOUS
<1>3. fold(it)
  <2> HIDE DEF fold
  <2> QED BY <1>2
<1> HIDE DEF it
<1>4. it[{}] = 0
  BY <1>3
<1> QED BY <1>1, <1>4

LEMMA ClientsTold == Recorded /\ Analysed => (report.made => ClientsStandOut)
<1> SUFFICES ASSUME Recorded, Analysed, report.made PROVE ClientsStandOut
  OBVIOUS
<1> DEFINE ev == Events(Log)
           st == {"NXDOMAIN"}
           S == Compared(ev, st, NxMin)
<1>1. report.failing = NxOutliers(ev) /\ report.blocked = BlockOutliers(ev)
  BY DEF Analysed
<1>2. \A c : c \in report.failing <=>
         c \in S /\ AtLeast(ev, st, c, NxFloor) /\ FarAbove(ev, st, c, S \ {c}, 10 * NxMultiple)
  BY <1>1 DEF NxOutliers
<1>3. \A c : c \in S <=> c \in Failing /\ Cardinality(Askers) >= MinClients
  BY FailingAre
<1>4. ASSUME NEW c \in Failing, Failing = {c}, Cardinality(Askers) >= MinClients,
             With(c, "NXDOMAIN") = Cardinality(AskedBy(c))
      PROVE  c \in report.failing
  <2>1. S = {c}
    BY <1>3, <1>4
  <2>2. AtLeast(ev, st, c, NxFloor)
    <3> DEFINE n == Cardinality(AskedBy(c))
    <3>1. Answered(ev, c, st) = n /\ Lookups(ev, c) = n /\ n \in Nat
      BY <1>4, FailedLookups, LookupsAre, AskedIsFinite
    <3> HIDE DEF n, ev, st
    <3>2. NxFloor \in 0..100 /\ n <= n
      BY <3>1, LookupsAssumption
    <3>3. 100 * n >= NxFloor * n
      BY <3>1, <3>2, HundredTimes
    <3> QED BY <3>1, <3>3 DEF AtLeast
  <2>3. FarAbove(ev, st, c, {}, 10 * NxMultiple)
    <3> HIDE DEF ev, st, S
    <3> DEFINE q == Rate(ev, st, c, {} \cup {c})
               sum == SumOf(ev, st, {} \cup {c}, {})
               t == 10 * NxMultiple
    <3>1. FarAbove(ev, st, c, {}, t) <=> 10 * q * Cardinality({}) >= t * sum
      BY Zenon DEF FarAbove, SumOf
    <3>2. Cardinality({}) = 0
      BY FS_EmptySet
    <3>3. sum = 0
      <4>1. IsFiniteSet({}) /\ \A p \in {} : Rate(ev, st, p, {} \cup {c}) \in Nat
        BY FS_EmptySet
      <4> QED BY <4>1, NoRates
    <3>4. q \in Nat
      <4>1. Rate(ev, st, c, S) \in Nat
        BY <2>1, ComparedIs DEF S, ev, st
      <4>2. {} \cup {c} = S
        BY <2>1
      <4> QED BY <4>1, <4>2
    <3>5. NxMultiple \in Nat
      BY LookupsAssumption
    <3> HIDE DEF q, sum
    <3>6. 10 * q * Cardinality({}) >= t * sum
      BY <3>2, <3>3, <3>4, <3>5
    <3> QED BY <3>1, <3>6
  <2>4. S \ {c} = {} /\ c \in S
    BY <2>1
  <2> QED BY <1>2, <2>2, <2>3, <2>4
<1>5. ASSUME Cardinality(Failing) <= NxMultiple PROVE Cardinality(report.failing) <= 1
  <2>1. \A c, d \in report.failing : c = d
    BY <1>1, <1>5, FewFail
  <2>2. report.failing = {} \/ \E c : report.failing = {c}
    BY <2>1
  <2> QED BY <2>2, FS_EmptySet, FS_Singleton
<1>6. report.failing \subseteq Failing
  BY <1>2, <1>3
<1>7. report.blocked \subseteq Busy /\ (report.blocked # {} => 10 * Cardinality(Busy) >= BlockTenths)
  BY <1>1, ManyBlocked
<1> QED BY <1>4, <1>5, <1>6, <1>7 DEF ClientsStandOut, Failing

\* All four comparisons.
LEMMA OutliersTold == Recorded /\ Analysed => OutliersStandOut
BY ClientsTold, DevicesTold, SendersTold, HoursTold DEF OutliersStandOut

\* Whoever is compared with peers - a client by how many of its lookups fail or are
\* blocked (dns_anomalies.py), a device by its falls off the Wi-Fi, a host by the
\* bytes it sends (data_volume.py), an hour by its dropped packets - is told of if
\* it is far above all of them, and not if it is not far above enough of them.
THEOREM OutliersTell == Spec => []OutliersStandOut
BY RecordedInvariant, AnalysedInvariant, OutliersTold, PTL
=============================================================================
