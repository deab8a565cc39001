--------------------------- MODULE FindingsProofs ---------------------------
(***************************************************************************)
(* What holds of Findings and Exports for every catalog, set of lanes,      *)
(* number of receipts and order in which their ids put them: the two        *)
(* groupings of the receipts agree, further evidence only strengthens a     *)
(* finding, and what was made of older evidence is covered by the newer.    *)
(***************************************************************************)
EXTENDS Exports, FiniteSetTheorems, SequenceTheorems, TLAPS

-----------------------------------------------------------------------------
(* Sequences and numbers.                                                   *)

\* A set of natural numbers with an element has a least one.
LEMMA Least ==
  ASSUME NEW S \in SUBSET Nat, S # {}
  PROVE  \E n \in S : \A m \in S : n <= m
<1>. DEFINE R == {ss \in Nat \X Nat : ss[1] < ss[2]}
<1>1. IsWellFoundedOn(R, Nat)
  BY NatLessThanWellFounded DEF OpToRel
<1>2. PICK n \in S : \A m \in S : ~(<<m, n>> \in R)
  <2>. HIDE DEF R
  <2>. QED BY <1>1, WFMin
<1>3. ASSUME NEW m \in S PROVE n <= m
  <2>1. n \in Nat /\ m \in Nat
    OBVIOUS
  <2>2. <<m, n>> \in Nat \X Nat /\ ~(<<m, n>> \in R)
    BY <1>2, <2>1
  <2>3. ~(m < n)
    BY <2>2, Zenon
  <2>. QED BY <2>1, <2>3
<1>. QED BY <1>3

\* An insertion moves what stood behind the place by one.
LEMMA InsertAtPlaces ==
  ASSUME NEW S, NEW s \in Seq(S), NEW i \in 1..(Len(s)+1), NEW e \in S
  PROVE  /\ InsertAt(s, i, e) \in Seq(S) /\ Len(InsertAt(s, i, e)) = Len(s) + 1
         /\ \A j \in 1..(Len(s)+1) :
              InsertAt(s, i, e)[j] = IF j < i THEN s[j] ELSE IF j = i THEN e ELSE s[j-1]
<1>. DEFINE a == SubSeq(s, 1, i-1)
            b == SubSeq(s, i, Len(s))
<1>1. a \in Seq(S) /\ Len(a) = i - 1 /\ \A j \in 1..(i-1) : a[j] = s[j]
  BY SubSeqProperties
<1>2. b \in Seq(S) /\ Len(b) = Len(s) - i + 1 /\ \A j \in 1..(Len(s) - i + 1) : b[j] = s[i+j-1]
  BY SubSeqProperties
<1>3. InsertAt(s, i, e) = (a \o <<e>>) \o b
  BY DEF InsertAt
<1>. HIDE DEF a, b
<1>. DEFINE c == a \o <<e>>
<1>4. c \in Seq(S) /\ Len(c) = i /\ (\A j \in 1..(i-1) : c[j] = s[j]) /\ c[i] = e
  <2>1. <<e>> \in Seq(S) /\ Len(<<e>>) = 1 /\ <<e>>[1] = e
    OBVIOUS
  <2>. HIDE DEF c
  <2>2. c \in Seq(S) /\ Len(c) = i
    BY <1>1, <2>1, ConcatProperties DEF c
  <2>3. \A j \in 1..i : c[j] = IF j <= i - 1 THEN a[j] ELSE <<e>>[j - (i - 1)]
    BY <1>1, <2>1, ConcatProperties DEF c
  <2>4. c[i] = <<e>>[1]
    <3>1. i \in 1..i /\ ~(i <= i - 1) /\ i - (i - 1) = 1
      OBVIOUS
    <3>. QED BY <2>3, <3>1
  <2>. QED BY <1>1, <2>1, <2>2, <2>3, <2>4
<1>. HIDE DEF c
<1>5. InsertAt(s, i, e) = c \o b
  BY <1>3 DEF c
<1>6. ASSUME NEW j \in 1..(Len(s)+1) PROVE (c \o b)[j] = IF j < i THEN s[j] ELSE IF j = i THEN e ELSE s[j-1]
  <2>1. (c \o b)[j] = IF j <= i THEN c[j] ELSE b[j - i]
    BY <1>2, <1>4, ConcatProperties
  <2>2. j > i => b[j - i] = s[j - 1]
    <3>. SUFFICES ASSUME j > i PROVE b[j - i] = s[j - 1]
      OBVIOUS
    <3>1. j - i \in 1..(Len(s) - i + 1) /\ i + (j - i) - 1 = j - 1
      OBVIOUS
    <3>. QED BY <1>2, <3>1
  <2>3. j < i => j \in 1..(i - 1)
    OBVIOUS
  <2>. QED BY <1>4, <2>1, <2>2, <2>3
<1>7. c \o b \in Seq(S) /\ Len(c \o b) = Len(s) + 1
  <2>1. c \o b \in Seq(S) /\ Len(c \o b) = Len(c) + Len(b)
    BY <1>2, <1>4, ConcatProperties
  <2>. QED BY <1>2, <1>4, <2>1
<1>. QED BY <1>5, <1>6, <1>7

-----------------------------------------------------------------------------
(* Receipts.                                                                *)

Severities == {"critical", "high", "medium", "low", "info"}

Classes == Service \cup Repo \cup {None, "state_failure"}

\* What every lane's outcome satisfies: a failure has a severity.
Graded(o) ==
  /\ o.class \in Classes /\ o.severity \in Severities /\ o.reproducible \in BOOLEAN
  /\ o.class # None => o.severity # "info"

LEMMA OutcomeGraded ==
  ASSUME NEW c \in Classes, NEW s \in Severities, NEW b \in BOOLEAN, c # None => s # "info"
  PROVE  /\ Graded(Outcome(c, s, b))
         /\ Outcome(c, s, b) \in [class : Classes, severity : Severities, reproducible : BOOLEAN]
BY DEF Graded, Outcome

LEMMA ObservationsGraded ==
  ASSUME NEW a \in Attacks, NEW p \in Observations(a)
  PROVE  Graded(p) /\ p \in [class : Classes, severity : Severities, reproducible : BOOLEAN]
<1>1. a \in Classes /\ a # None /\ None \in Classes /\ "state_failure" \in Classes
  BY FindingsAssumption DEF Classes, Service, Repo, None
<1>2. {"info", "high", "critical"} \subseteq Severities
  BY DEF Severities
<1>3. CASE p = Outcome(None, "info", TRUE)
  BY <1>1, <1>2, <1>3, OutcomeGraded
<1>4. CASE p = Outcome(a, "high", TRUE)
  BY <1>1, <1>2, <1>4, OutcomeGraded
<1>5. CASE \E b \in BOOLEAN : p = Outcome("state_failure", "critical", b)
  BY <1>1, <1>2, <1>5, OutcomeGraded
<1>. QED BY <1>3, <1>4, <1>5 DEF Observations

\* No lane hands over a failure of severity info.
LEMMA OutcomesGraded ==
  ASSUME NEW l \in Lanes, NEW a \in Attacks, NEW o \in LaneOutcomes(l, a)
  PROVE  Graded(o)
<1>1. /\ l \in AllLanes /\ a # None
      /\ a \in {"duplicate_replay", "missing_field", "unknown_enum", "bad_path", "bad_unicode", "malformed_input"}
  BY FindingsAssumption DEF None
<1>2. None \in Classes /\ "state_failure" \in Classes /\ {"info", "high", "medium", "low", "critical"} \subseteq Severities
  BY DEF Classes, Severities
<1>3. CASE l = "edge_case"
  BY <1>3, ObservationsGraded DEF LaneOutcomes
<1>4. CASE l = "classification"
  <2>1. PICK p \in Observations(a) : o = Classified(p, a)
    BY <1>4 DEF LaneOutcomes
  <2>2. Escalated[a] \in Severities \ {"info"}
    BY <1>1 DEF Escalated, Severities
  <2>. QED BY ObservationsGraded, <2>1, <2>2 DEF Classified, Graded
<1>5. CASE l = "reproduction"
  <2>1. PICK p \in Observations(a) : o \in Reproductions(p)
    BY <1>5 DEF LaneOutcomes
  <2>2. Graded(p) /\ p \in [class : Classes, severity : Severities, reproducible : BOOLEAN]
    BY ObservationsGraded
  <2>3. CASE o = [p EXCEPT !.severity = "medium", !.reproducible = FALSE]
    BY <1>2, <2>2, <2>3 DEF Graded
  <2>4. CASE \E b \in BOOLEAN : o = [p EXCEPT !.reproducible = b]
    BY <2>2, <2>4 DEF Graded
  <2>5. CASE o = [p EXCEPT !.severity = "low", !.reproducible = TRUE]
    BY <1>2, <2>2, <2>5 DEF Graded
  <2>. QED BY <2>1, <2>3, <2>4, <2>5 DEF Reproductions
<1>6. CASE l \in {"mutation", "chaos"}
  <2>1. o \in {Outcome(None, "info", TRUE), Outcome("state_failure", "high", TRUE), Outcome("state_failure", "medium", TRUE)}
    <3>1. CASE l = "mutation"
      BY <3>1 DEF LaneOutcomes
    <3>2. CASE l = "chaos"
      BY <3>2 DEF LaneOutcomes
    <3>. QED BY <1>6, <3>1, <3>2
  <2>2. "state_failure" # None
    BY DEF None
  <2>3. Graded(Outcome(None, "info", TRUE))
    BY <1>2, OutcomeGraded
  <2>4. Graded(Outcome("state_failure", "high", TRUE)) /\ Graded(Outcome("state_failure", "medium", TRUE))
    BY <1>2, <2>2, OutcomeGraded
  <2>. QED BY <2>1, <2>3, <2>4
<1>. QED BY <1>1, <1>3, <1>4, <1>5, <1>6 DEF AllLanes

\* The same of a receipt.
LEMMA ReceiptGraded ==
  ASSUME NEW r \in Receipts
  PROVE  /\ Class(r) \in Classes /\ Severity(r) \in Severities /\ Reproducible(r) \in BOOLEAN
         /\ Class(r) # None => Severity(r) # "info"
         /\ r.lane \in AllLanes
<1>1. PICK X \in {[lane : {l}, attack : {a}, outcome : LaneOutcomes(l, a)] : l \in Lanes, a \in Attacks} : r \in X
  BY DEF Receipts
<1>2. PICK l \in Lanes, a \in Attacks : X = [lane : {l}, attack : {a}, outcome : LaneOutcomes(l, a)]
  OBVIOUS
<1>3. r.outcome \in LaneOutcomes(l, a) /\ r.lane = l
  BY <1>1, <1>2
<1>4. Graded(r.outcome)
  BY <1>3, OutcomesGraded
<1>. QED BY <1>3, <1>4, FindingsAssumption DEF Graded, Severity, Reproducible, Class

\* Weight and rank order the severities in the same way.
LEMMA WeightIsRank ==
  /\ \A s \in Severities : SeverityWeight[s] \in Nat /\ SeverityRank[s] \in Nat
  /\ \A s, t \in Severities : SeverityWeight[s] <= SeverityWeight[t] <=> SeverityRank[s] <= SeverityRank[t]
BY DEF Severities, SeverityWeight, SeverityRank

\* Among some severities there is a worst one.
LEMMA MostSevere ==
  ASSUME NEW S \in SUBSET Severities, S # {}
  PROVE  \E s \in S : \A t \in S : SeverityRank[t] <= SeverityRank[s]
<1>1. CASE "critical" \in S
  BY <1>1 DEF Severities, SeverityRank
<1>2. CASE "critical" \notin S /\ "high" \in S
  BY <1>2 DEF Severities, SeverityRank
<1>3. CASE "critical" \notin S /\ "high" \notin S /\ "medium" \in S
  BY <1>3 DEF Severities, SeverityRank
<1>4. CASE "critical" \notin S /\ "high" \notin S /\ "medium" \notin S /\ "low" \in S
  BY <1>4 DEF Severities, SeverityRank
<1>5. CASE "info" \in S /\ S \cap {"critical", "high", "medium", "low"} = {}
  BY <1>5 DEF Severities, SeverityRank
<1>. QED BY <1>1, <1>2, <1>3, <1>4, <1>5 DEF Severities

-----------------------------------------------------------------------------
(* Groups.                                                                  *)

\* Some of the receipts, each at its place.
GroupIn(rs, g) ==
  /\ DOMAIN g \subseteq 1..Len(rs) /\ DOMAIN g # {}
  /\ g = [i \in DOMAIN g |-> rs[i]]

\* A group has members, and they are receipts.
LEMMA GroupMembers ==
  ASSUME NEW rs \in Seq(Receipts), NEW g, GroupIn(rs, g)
  PROVE  /\ Range(g) # {} /\ Range(g) \subseteq Receipts /\ Range(g) \subseteq ToSet(rs)
         /\ \A i \in DOMAIN g : g[i] \in Range(g) /\ g[i] = rs[i]
         /\ DOMAIN g \subseteq Nat
<1>1. \A i \in DOMAIN g : g[i] = rs[i] /\ i \in 1..Len(rs)
  BY DEF GroupIn
<1>. QED BY <1>1 DEF GroupIn, Range, ToSet

\* max() finds a receipt of the group, and none of the group is worse.
LEMMA WorstOfGroup ==
  ASSUME NEW rs \in Seq(Receipts), NEW g, GroupIn(rs, g)
  PROVE  /\ Worst(g) \in Range(g)
         /\ \A r \in Range(g) : SeverityWeight[Severity(r)] <= SeverityWeight[Severity(Worst(g))]
<1>. DEFINE Top(i) == \A j \in DOMAIN g : SeverityWeight[Severity(g[j])] <= SeverityWeight[Severity(g[i])]
            Tops == {i \in DOMAIN g : Top(i)}
<1>1. /\ \A i \in DOMAIN g : g[i] \in Range(g) /\ Severity(g[i]) \in Severities
      /\ DOMAIN g \subseteq Nat /\ DOMAIN g # {}
  BY GroupMembers, ReceiptGraded DEF GroupIn
<1>2. Tops # {}
  <2>. DEFINE S == {Severity(g[i]) : i \in DOMAIN g}
  <2>1. PICK s \in S : \A t \in S : SeverityRank[t] <= SeverityRank[s]
    <3>1. S \in SUBSET Severities /\ S # {}
      BY <1>1
    <3>. QED BY <3>1, MostSevere
  <2>2. PICK i \in DOMAIN g : s = Severity(g[i])
    BY <2>1
  <2>3. Top(i)
    BY <1>1, <2>1, <2>2, WeightIsRank
  <2>. QED BY <2>3
<1>3. PICK i \in Tops : \A j \in Tops : i <= j
  BY <1>1, <1>2, Least
<1>4. ASSUME NEW j \in DOMAIN g, j < i
      PROVE  SeverityWeight[Severity(g[j])] < SeverityWeight[Severity(g[i])]
  <2>1. ~Top(j)
    BY <1>1, <1>3, <1>4
  <2>2. PICK k \in DOMAIN g : ~(SeverityWeight[Severity(g[k])] <= SeverityWeight[Severity(g[j])])
    BY <2>1
  <2>3. SeverityWeight[Severity(g[k])] <= SeverityWeight[Severity(g[i])]
    BY <1>3
  <2>4. /\ SeverityWeight[Severity(g[i])] \in Nat /\ SeverityWeight[Severity(g[j])] \in Nat
        /\ SeverityWeight[Severity(g[k])] \in Nat
    BY <1>1, <1>3, WeightIsRank
  <2>. QED BY <2>2, <2>3, <2>4
<1>. DEFINE P(n) == /\ \A j \in DOMAIN g : SeverityWeight[Severity(g[j])] <= SeverityWeight[Severity(g[n])]
                    /\ \A j \in DOMAIN g : j < n => SeverityWeight[Severity(g[j])] < SeverityWeight[Severity(g[n])]
            w == CHOOSE n \in DOMAIN g : P(n)
<1>5. P(i)
  BY <1>3, <1>4
<1>6. w \in DOMAIN g /\ P(w)
  <2>. HIDE DEF P
  <2>. QED BY <1>3, <1>5
<1>7. Worst(g) = g[w]
  BY DEF Worst
<1>. HIDE DEF w
<1>. QED BY <1>1, <1>6, <1>7 DEF Range

\* The first receipt of a group is one of the group.
LEMMA FirstOfGroup ==
  ASSUME NEW rs \in Seq(Receipts), NEW g, GroupIn(rs, g)
  PROVE  First(g) \in Range(g)
<1>1. DOMAIN g \subseteq Nat /\ DOMAIN g # {}
  BY GroupMembers DEF GroupIn
<1>2. \E i \in DOMAIN g : \A j \in DOMAIN g : i <= j
  BY <1>1, Least
<1>. QED BY <1>2 DEF First, Range

\* The dominant severity is that of a member, and no member has a worse one.
LEMMA DominantOfGroup ==
  ASSUME NEW rs \in Seq(Receipts), NEW g, GroupIn(rs, g)
  PROVE  /\ DominantSeverity(g) \in {Severity(r) : r \in Range(g)}
         /\ \A r \in Range(g) : SeverityRank[Severity(r)] <= SeverityRank[DominantSeverity(g)]
<1>. DEFINE S == {Severity(r) : r \in Range(g)}
            P(s) == \A r \in Range(g) : SeverityRank[Severity(r)] <= SeverityRank[s]
<1>1. S \in SUBSET Severities /\ S # {}
  BY GroupMembers, ReceiptGraded
<1>2. PICK s \in S : \A t \in S : SeverityRank[t] <= SeverityRank[s]
  BY <1>1, MostSevere
<1>3. P(s)
  BY <1>2
<1>4. DominantSeverity(g) = CHOOSE t \in S : P(t)
  BY DEF DominantSeverity
<1>5. (CHOOSE t \in S : P(t)) \in S /\ P(CHOOSE t \in S : P(t))
  <2>. HIDE DEF S, P
  <2>. QED BY <1>2, <1>3
<1>. QED BY <1>4, <1>5

\* A group has a finite positive number of receipts, from finitely many lanes.
LEMMA GroupCounts ==
  ASSUME NEW rs \in Seq(Receipts), NEW g, GroupIn(rs, g)
  PROVE  /\ IsFiniteSet(DOMAIN g) /\ Cardinality(DOMAIN g) \in Nat \ {0}
         /\ IsFiniteSet(LanesOf(g)) /\ Cardinality(LanesOf(g)) \in Nat \ {0}
<1>1. IsFiniteSet(1..Len(rs))
  BY FS_Interval
<1>2. IsFiniteSet(DOMAIN g) /\ DOMAIN g # {}
  BY <1>1, FS_Subset DEF GroupIn
<1>3. IsFiniteSet(AllLanes)
  <2>1. IsFiniteSet({"edge_case"} \cup {"classification"} \cup {"reproduction"} \cup {"mutation"} \cup {"chaos"})
    BY FS_EmptySet, FS_Singleton, FS_Union
  <2>2. AllLanes = {"edge_case"} \cup {"classification"} \cup {"reproduction"} \cup {"mutation"} \cup {"chaos"}
    BY DEF AllLanes
  <2>. QED BY <2>1, <2>2
<1>4. LanesOf(g) \subseteq AllLanes /\ LanesOf(g) # {}
  BY GroupMembers, ReceiptGraded DEF LanesOf
<1>5. IsFiniteSet(LanesOf(g))
  BY <1>3, <1>4, FS_Subset
<1>. QED BY <1>2, <1>4, <1>5, FS_CardinalityType, FS_EmptySet

-----------------------------------------------------------------------------
(* Findings and clusters.                                                   *)

ClusterGroup(rs, f) == Restrict(rs, {i \in DOMAIN rs : Fingerprint(rs[i]) = f})

\* The group of a key is made of the receipts that have it.
LEMMA GroupOfKey ==
  ASSUME NEW rs \in Seq(Receipts), NEW k \in Keys(rs)
  PROVE  /\ GroupIn(rs, GroupOf(rs, k))
         /\ DOMAIN GroupOf(rs, k) = {i \in 1..Len(rs) : Key(rs[i]) = k}
         /\ Range(GroupOf(rs, k)) = {r \in ToSet(rs) : Key(r) = k}
<1>. DEFINE S == {i \in 1..Len(rs) : Key(rs[i]) = k}
<1>1. GroupOf(rs, k) = [i \in S |-> rs[i]]
  BY DEF GroupOf, Restrict
<1>2. S # {}
  BY DEF Keys, ToSet
<1>3. Range([i \in S |-> rs[i]]) = {r \in ToSet(rs) : Key(r) = k}
  BY DEF Range, ToSet
<1>. QED BY <1>1, <1>2, <1>3 DEF GroupIn

\* The group of a fingerprint likewise.
LEMMA GroupOfFingerprint ==
  ASSUME NEW rs \in Seq(Receipts), NEW f \in DOMAIN Clusters(rs)
  PROVE  /\ GroupIn(rs, ClusterGroup(rs, f)) /\ Clusters(rs)[f] = Cluster(ClusterGroup(rs, f))
         /\ Range(ClusterGroup(rs, f)) = {r \in ToSet(rs) : Class(r) = f}
<1>. DEFINE S == {i \in 1..Len(rs) : Class(rs[i]) = f}
<1>1. ClusterGroup(rs, f) = [i \in S |-> rs[i]]
  BY DEF ClusterGroup, Restrict, Fingerprint
<1>2. f \in {Fingerprint(r) : r \in ToSet(rs)} /\ Clusters(rs)[f] = Cluster(ClusterGroup(rs, f))
  BY DEF Clusters, ClusterGroup
<1>3. S # {}
  BY <1>2 DEF ToSet, Fingerprint
<1>4. Range([i \in S |-> rs[i]]) = {r \in ToSet(rs) : Class(r) = f}
  BY DEF Range, ToSet
<1>. QED BY <1>1, <1>2, <1>3, <1>4 DEF GroupIn

\* What a cluster says of its own members.
IsCluster(c) ==
  /\ c.members # {} /\ c.members \subseteq Receipts
  /\ \A r \in c.members : Class(r) = c.class
  /\ c.severity \in {Severity(r) : r \in c.members}
  /\ \A r \in c.members : SeverityRank[Severity(r)] <= SeverityRank[c.severity]
  /\ c.gate <=> \E r \in c.members : Reproducible(r) /\ Class(r) # None

\* A group of one classification is a cluster of its members.
LEMMA ClusterOfGroup ==
  ASSUME NEW rs \in Seq(Receipts), NEW g, GroupIn(rs, g), NEW f, \A r \in Range(g) : Class(r) = f
  PROVE  IsCluster(Cluster(g)) /\ Cluster(g).class = f /\ Cluster(g).members = Range(g)
<1>1. Range(g) # {} /\ Range(g) \subseteq Receipts
  BY GroupMembers
<1>2. First(g) \in Range(g)
  BY FirstOfGroup
<1>3. /\ DominantSeverity(g) \in {Severity(r) : r \in Range(g)}
      /\ \A r \in Range(g) : SeverityRank[Severity(r)] <= SeverityRank[DominantSeverity(g)]
  BY DominantOfGroup
<1>4. /\ Cluster(g).class = Class(First(g)) /\ Cluster(g).severity = DominantSeverity(g)
      /\ Cluster(g).members = Range(g)
      /\ Cluster(g).gate <=> \E r \in Range(g) : Reproducible(r) /\ Class(r) # None
  BY DEF Cluster
<1>. QED BY <1>1, <1>2, <1>3, <1>4 DEF IsCluster

\* The clusters of some receipts: one for each classification there is.
LEMMA ClusterShape ==
  ASSUME NEW rs \in Seq(Receipts)
  PROVE  /\ DOMAIN Clusters(rs) = {Class(r) : r \in ToSet(rs)}
         /\ \A f \in DOMAIN Clusters(rs) :
              /\ IsCluster(Clusters(rs)[f]) /\ Clusters(rs)[f].class = f
              /\ Clusters(rs)[f].members = {r \in ToSet(rs) : Class(r) = f}
<1>1. DOMAIN Clusters(rs) = {Class(r) : r \in ToSet(rs)}
  BY DEF Clusters, Fingerprint
<1>2. ASSUME NEW f \in DOMAIN Clusters(rs)
      PROVE  /\ IsCluster(Clusters(rs)[f]) /\ Clusters(rs)[f].class = f
             /\ Clusters(rs)[f].members = {r \in ToSet(rs) : Class(r) = f}
  <2>. DEFINE g == ClusterGroup(rs, f)
  <2>1. GroupIn(rs, g) /\ Clusters(rs)[f] = Cluster(g) /\ Range(g) = {r \in ToSet(rs) : Class(r) = f}
    BY GroupOfFingerprint
  <2>. HIDE DEF g
  <2>2. \A r \in Range(g) : Class(r) = f
    BY <2>1
  <2>3. IsCluster(Cluster(g)) /\ Cluster(g).class = f /\ Cluster(g).members = Range(g)
    BY <2>1, <2>2, ClusterOfGroup
  <2>. QED BY <2>1, <2>3
<1>. QED BY <1>1, <1>2

\* The clusters of some of the receipts hold these receipts and no others.
LEMMA PartMembers ==
  ASSUME NEW rs \in Seq(Receipts), NEW E \in SUBSET DOMAIN rs, NEW part, part = Restrict(rs, E)
  PROVE  /\ ToSet(part) = {rs[i] : i \in E}
         /\ \A c \in ClusterSet(part) : IsCluster(c)
         /\ UNION {c.members : c \in ClusterSet(part)} = {rs[i] : i \in E}
         /\ ClusterSet(part) = {} => E = {}
<1>1. part = [i \in E |-> rs[i]] /\ DOMAIN part = E /\ \A i \in E : part[i] = rs[i]
  BY DEF Restrict
<1>2. ToSet(part) = {rs[i] : i \in E}
  BY <1>1 DEF ToSet
<1>3. DOMAIN Clusters(part) = {Class(r) : r \in ToSet(part)}
  BY DEF Clusters, Fingerprint
<1>4. ASSUME NEW f \in DOMAIN Clusters(part)
      PROVE  /\ IsCluster(Clusters(part)[f])
             /\ Clusters(part)[f].members = {r \in ToSet(part) : Class(r) = f}
  <2>. DEFINE g == ClusterGroup(part, f)
              S == {i \in E : Class(rs[i]) = f}
  <2>1. g = [i \in S |-> rs[i]] /\ Clusters(part)[f] = Cluster(g)
    <3>1. g = [i \in {i \in DOMAIN part : Fingerprint(part[i]) = f} |-> part[i]]
      BY DEF ClusterGroup, Restrict
    <3>2. {i \in DOMAIN part : Fingerprint(part[i]) = f} = S
      BY <1>1 DEF Fingerprint
    <3>3. g = [i \in S |-> part[i]]
      BY <3>1, <3>2
    <3>4. [i \in S |-> part[i]] = [i \in S |-> rs[i]]
      <4>1. \A i \in S : part[i] = rs[i]
        BY <1>1
      <4>. HIDE DEF S
      <4>. QED BY <4>1
    <3>5. g = [i \in S |-> rs[i]]
      BY <3>3, <3>4
    <3>6. Clusters(part)[f] = Cluster(g)
      BY DEF Clusters, ClusterGroup
    <3>. QED BY <3>5, <3>6
  <2>2. S # {}
    BY <1>2, <1>3
  <2>3. S \subseteq 1..Len(rs)
    OBVIOUS
  <2>. HIDE DEF g
  <2>4. GroupIn(rs, g)
    BY <2>1, <2>2, <2>3 DEF GroupIn
  <2>5. Range(g) = {r \in ToSet(part) : Class(r) = f}
    BY <1>2, <2>1 DEF Range
  <2>6. \A r \in Range(g) : Class(r) = f
    BY <2>5
  <2>7. IsCluster(Cluster(g)) /\ Cluster(g).members = Range(g)
    BY <2>4, <2>6, ClusterOfGroup
  <2>. QED BY <2>1, <2>5, <2>7
<1>5. \A c \in ClusterSet(part) : IsCluster(c) /\ c.members \subseteq ToSet(part)
  BY <1>4 DEF ClusterSet
<1>6. ASSUME NEW r \in ToSet(part) PROVE \E c \in ClusterSet(part) : r \in c.members
  <2>1. Class(r) \in DOMAIN Clusters(part)
    BY <1>3
  <2>. QED BY <1>4, <2>1 DEF ClusterSet
<1>7. UNION {c.members : c \in ClusterSet(part)} = ToSet(part)
  BY <1>5, <1>6
<1>8. ASSUME ClusterSet(part) = {} PROVE E = {}
  <2>1. ToSet(part) = {}
    BY <1>6, <1>8
  <2>2. ASSUME NEW i \in E PROVE FALSE
    BY <1>2, <2>1
  <2>. QED BY <2>2
<1>9. \A c \in ClusterSet(part) : IsCluster(c)
  BY <1>5
<1>. QED BY <1>2, <1>7, <1>8, <1>9

\* Every summand of a score is a number, and a failure outweighs its penalty.
LEMMA ScoreParts ==
  ASSUME NEW rs \in Seq(Receipts), NEW g, GroupIn(rs, g)
  PROVE  /\ Score(g) \in Nat
         /\ SeverityWeight[Severity(Worst(g))] \in Nat
         /\ BlastWeight(Class(Worst(g))) \in Int /\ FixPenalty(Class(Worst(g))) \in Int
         /\ AgreementBoost(g) \in Nat
<1>. DEFINE c == Class(Worst(g))
            s == Severity(Worst(g))
            n == Cardinality(DOMAIN g)
            m == Cardinality(LanesOf(g))
            b == IF AnyReproducible(g) THEN 30 ELSE 0
<1>1. c \in Classes /\ s \in Severities /\ (c # None => s # "info")
  BY WorstOfGroup, GroupMembers, ReceiptGraded
<1>2. n \in Nat \ {0} /\ m \in Nat \ {0}
  BY GroupCounts
<1>3. b \in {0, 30}
  OBVIOUS
<1>4. AgreementBoost(g) = (m - 1) * 12
  BY DEF AgreementBoost
<1>5. Score(g) = SeverityWeight[s] + b + BlastWeight(c) + n + AgreementBoost(g) - FixPenalty(c)
  BY DEF Score
<1>. HIDE DEF c, s, n, m, b
<1>6. AgreementBoost(g) \in Nat
  BY <1>2, <1>4
<1>7. SeverityWeight[s] \in Nat /\ (c # None => SeverityWeight[s] >= 10)
  BY <1>1 DEF Severities, SeverityWeight
<1>8. CASE c = None
  <2>1. BlastWeight(c) = 2
    BY <1>8 DEF BlastWeight, Service, Repo, None
  <2>2. FixPenalty(c) = 0
    BY <1>8 DEF FixPenalty, Service, None
  <2>. QED BY <1>2, <1>3, <1>5, <1>6, <1>7, <2>1, <2>2 DEF c, s
<1>9. CASE c = "state_failure"
  <2>1. BlastWeight(c) = 15
    BY <1>9 DEF BlastWeight, Service, Repo
  <2>2. FixPenalty(c) = 15
    BY <1>9 DEF FixPenalty, Service, None
  <2>. QED BY <1>2, <1>3, <1>5, <1>6, <1>7, <2>1, <2>2 DEF c, s
<1>10. CASE c \in Service
  <2>1. BlastWeight(c) = 10
    BY <1>10 DEF BlastWeight, Service, Repo
  <2>2. FixPenalty(c) = 5
    BY <1>10 DEF FixPenalty, Service, None
  <2>. QED BY <1>2, <1>3, <1>5, <1>6, <1>7, <2>1, <2>2 DEF c, s
<1>11. CASE c \in Repo
  <2>1. BlastWeight(c) = 5
    BY <1>11 DEF BlastWeight, Service, Repo
  <2>2. FixPenalty(c) = 5 \/ FixPenalty(c) = 15
    BY <1>11 DEF FixPenalty, Service, Repo, None
  <2>3. SeverityWeight[s] \in Nat /\ SeverityWeight[s] >= 10
    BY <1>7, <1>11 DEF Repo, None
  <2>4. CASE FixPenalty(c) = 5
    BY <1>2, <1>3, <1>5, <1>6, <2>1, <2>3, <2>4 DEF c, s
  <2>5. CASE FixPenalty(c) = 15
    BY <1>2, <1>3, <1>5, <1>6, <2>1, <2>3, <2>5 DEF c, s
  <2>. QED BY <2>2, <2>4, <2>5
<1>. QED BY <1>1, <1>8, <1>9, <1>10, <1>11 DEF Classes

\* What a finding says of its members.
LEMMA FindingShape ==
  ASSUME NEW rs \in Seq(Receipts)
  PROVE  /\ DOMAIN Findings(rs) = Keys(rs)
         /\ \A k \in Keys(rs) :
              /\ Findings(rs)[k].members = {r \in ToSet(rs) : Key(r) = k}
              /\ Findings(rs)[k].class = k[1]
              /\ Findings(rs)[k].score = Score(GroupOf(rs, k))
              /\ \E r \in ToSet(rs) :
                   /\ Key(r) = k /\ Class(r) = k[1] /\ Findings(rs)[k].severity = Severity(r)
                   /\ Findings(rs)[k].gate <=> Reproducible(r) /\ Class(r) # None
<1>1. DOMAIN Findings(rs) = Keys(rs) /\ \A k \in Keys(rs) : Findings(rs)[k] = Finding(GroupOf(rs, k))
  BY DEF Findings
<1>2. ASSUME NEW k \in Keys(rs)
      PROVE  /\ Findings(rs)[k].members = {r \in ToSet(rs) : Key(r) = k}
             /\ Findings(rs)[k].class = k[1]
             /\ Findings(rs)[k].score = Score(GroupOf(rs, k))
             /\ \E r \in ToSet(rs) :
                  /\ Key(r) = k /\ Class(r) = k[1] /\ Findings(rs)[k].severity = Severity(r)
                  /\ Findings(rs)[k].gate <=> Reproducible(r) /\ Class(r) # None
  <2>. DEFINE g == GroupOf(rs, k)
  <2>1. GroupIn(rs, g) /\ Range(g) = {r \in ToSet(rs) : Key(r) = k}
    BY GroupOfKey
  <2>2. Findings(rs)[k] = Finding(g)
    BY <1>1
  <2>. HIDE DEF g
  <2>3. Worst(g) \in Range(g)
    BY <2>1, WorstOfGroup
  <2>4. Worst(g) \in ToSet(rs) /\ Key(Worst(g)) = k
    BY <2>1, <2>3
  <2>5. Class(Worst(g)) = k[1]
    BY <2>4 DEF Key
  <2>6. /\ Finding(g).class = Class(Worst(g)) /\ Finding(g).severity = Severity(Worst(g))
        /\ Finding(g).score = Score(g) /\ Finding(g).members = Range(g)
        /\ Finding(g).gate <=> Reproducible(Worst(g)) /\ Class(Worst(g)) # None
    BY DEF Finding, ReadyForGate
  <2>. QED BY <2>1, <2>2, <2>4, <2>5, <2>6 DEF g
<1>. QED BY <1>1, <1>2


-----------------------------------------------------------------------------
(* The invariant: the job holds a cluster of receipts that are all still    *)
(* there, and no provider has answered twice.                               *)

Proposed == Attacks \cup {None, "state_failure", "boundary"}

Verdicts(vs) ==
  /\ vs \in Seq([provider : Providers, class : Proposed, severity : Severities])
  /\ \A i, j \in 1..Len(vs) : vs[i].provider = vs[j].provider => i = j

JobInv ==
  /\ job = [cluster |-> job.cluster, verdicts |-> job.verdicts]
  /\ IsCluster(job.cluster) /\ job.cluster.members \subseteq ToSet(receipts)
  /\ Verdicts(job.verdicts)

FindingsInv == receipts \in Seq(Receipts) /\ (job # NoJob => JobInv)

\* An insertion adds the receipt and nothing else, wherever it is put.
LEMMA InsertedReceipts ==
  ASSUME NEW S, NEW s \in Seq(S), NEW i \in 1..(Len(s)+1), NEW e \in S
  PROVE  ToSet(InsertAt(s, i, e)) = ToSet(s) \cup {e}
<1>. DEFINE t == InsertAt(s, i, e)
<1>1. /\ t \in Seq(S) /\ Len(t) = Len(s) + 1
      /\ \A j \in 1..(Len(s)+1) : t[j] = IF j < i THEN s[j] ELSE IF j = i THEN e ELSE s[j-1]
  <2>1. /\ InsertAt(s, i, e) \in Seq(S) /\ Len(InsertAt(s, i, e)) = Len(s) + 1
        /\ \A j \in 1..(Len(s)+1) :
             InsertAt(s, i, e)[j] = IF j < i THEN s[j] ELSE IF j = i THEN e ELSE s[j-1]
    BY InsertAtPlaces
  <2>. QED BY <2>1
<1>. HIDE DEF t
<1>2. DOMAIN t = 1..(Len(s)+1) /\ DOMAIN s = 1..Len(s)
  BY <1>1
<1>3. ASSUME NEW x \in ToSet(t) PROVE x \in ToSet(s) \cup {e}
  <2>1. PICK j \in 1..(Len(s)+1) : x = t[j]
    BY <1>2 DEF ToSet
  <2>2. CASE j < i
    <3>1. j \in 1..Len(s) /\ x = s[j]
      BY <1>1, <2>1, <2>2
    <3>. QED BY <1>2, <3>1 DEF ToSet
  <2>3. CASE j = i
    BY <1>1, <2>1, <2>3
  <2>4. CASE j > i
    <3>1. j - 1 \in 1..Len(s) /\ x = s[j-1]
      BY <1>1, <2>1, <2>4
    <3>. QED BY <1>2, <3>1 DEF ToSet
  <2>. QED BY <2>2, <2>3, <2>4
<1>4. ASSUME NEW j \in 1..Len(s) PROVE s[j] \in ToSet(t)
  <2>1. CASE j < i
    <3>1. j \in 1..(Len(s)+1) /\ t[j] = s[j]
      BY <1>1, <2>1
    <3>. QED BY <1>2, <3>1 DEF ToSet
  <2>2. CASE j >= i
    <3>1. j + 1 \in 1..(Len(s)+1) /\ ~(j + 1 < i) /\ ~(j + 1 = i) /\ (j + 1) - 1 = j
      BY <2>2
    <3>2. t[j+1] = s[j]
      BY <1>1, <3>1
    <3>. QED BY <1>2, <3>1, <3>2 DEF ToSet
  <2>. QED BY <2>1, <2>2
<1>5. e \in ToSet(t)
  <2>1. i \in 1..(Len(s)+1) /\ t[i] = e
    BY <1>1
  <2>. QED BY <1>2, <2>1 DEF ToSet
<1>. QED BY <1>2, <1>3, <1>4, <1>5 DEF ToSet, t

LEMMA InvInit ==
  Init => FindingsInv
BY DEF Init, FindingsInv

LEMMA InvAdd ==
  ASSUME FindingsInv, AddReceipt
  PROVE  FindingsInv'
<1>1. PICK r \in Receipts, i \in 1..(Len(receipts) + 1) : receipts' = InsertAt(receipts, i, r)
  BY DEF AddReceipt
<1>2. receipts' \in Seq(Receipts) /\ ToSet(receipts') = ToSet(receipts) \cup {r}
  BY <1>1, InsertAtPlaces, InsertedReceipts DEF FindingsInv
<1>3. job' = job
  BY DEF AddReceipt
<1>. QED BY <1>2, <1>3 DEF FindingsInv, JobInv

LEMMA InvSubmit ==
  ASSUME FindingsInv, Submit
  PROVE  FindingsInv'
<1>1. PICK f \in DOMAIN Clusters(receipts) : job' = [cluster |-> Clusters(receipts)[f], verdicts |-> <<>>]
  BY DEF Submit
<1>2. receipts' = receipts
  BY DEF Submit
<1>. DEFINE c == Clusters(receipts)[f]
<1>3. IsCluster(c) /\ c.members \subseteq ToSet(receipts)
  BY ClusterShape DEF FindingsInv
<1>. HIDE DEF c
<1>4. job'.cluster = c /\ job'.verdicts = <<>> /\ job' = [cluster |-> c, verdicts |-> <<>>]
  BY <1>1 DEF c
<1>5. Verdicts(<<>>)
  BY DEF Verdicts
<1>6. JobInv'
  BY <1>2, <1>3, <1>4, <1>5 DEF JobInv
<1>. QED BY <1>2, <1>6 DEF FindingsInv

\* Another answer, of a provider that has not answered.
LEMMA MoreVerdicts ==
  ASSUME NEW vs, Verdicts(vs), NEW p \in Providers \ {vs[i].provider : i \in DOMAIN vs}, NEW v \in Proposals
  PROVE  Verdicts(Append(vs, [provider |-> p, class |-> v.class, severity |-> v.severity]))
<1>. DEFINE V == [provider : Providers, class : Proposed, severity : Severities]
            w == [provider |-> p, class |-> v.class, severity |-> v.severity]
<1>1. vs \in Seq(V) /\ \A i, j \in 1..Len(vs) : vs[i].provider = vs[j].provider => i = j
  BY DEF Verdicts
<1>2. w \in V /\ w.provider = p
  <2>1. v \in [class : Attacks \cup {None, "state_failure", "boundary"},
               severity : {"critical", "high", "medium", "low", "info"}]
    BY FindingsAssumption
  <2>2. v.class \in Proposed
    BY <2>1 DEF Proposed
  <2>3. v.severity \in Severities
    BY <2>1 DEF Severities
  <2>. QED BY <2>2, <2>3
<1>. HIDE DEF w, V
<1>3. /\ Append(vs, w) \in Seq(V) /\ Len(Append(vs, w)) = Len(vs) + 1
      /\ \A i \in 1..Len(vs) : Append(vs, w)[i] = vs[i]
      /\ Append(vs, w)[Len(vs) + 1] = w
  BY <1>1, <1>2
<1>4. \A i \in 1..Len(vs) : vs[i].provider # p
  BY <1>1
<1>5. ASSUME NEW i \in 1..(Len(vs) + 1), NEW j \in 1..(Len(vs) + 1),
             Append(vs, w)[i].provider = Append(vs, w)[j].provider
      PROVE  i = j
  <2>1. Len(vs) \in Nat
    BY <1>1
  <2>2. (i \in 1..Len(vs) \/ i = Len(vs) + 1) /\ (j \in 1..Len(vs) \/ j = Len(vs) + 1)
    BY <2>1
  <2>. QED BY <1>1, <1>2, <1>3, <1>4, <1>5, <2>2
<1>. QED BY <1>3, <1>5 DEF Verdicts, V, w

LEMMA InvAnswer ==
  ASSUME FindingsInv, Answer
  PROVE  FindingsInv'
<1>. DEFINE W(p, v) == [provider |-> p, class |-> v.class, severity |-> v.severity]
<1>1. job # NoJob /\ receipts' = receipts
  BY DEF Answer
<1>2. JobInv
  BY <1>1 DEF FindingsInv
<1>3. PICK p \in Providers \ {job.verdicts[i].provider : i \in DOMAIN job.verdicts}, v \in Proposals :
        job' = [job EXCEPT !.verdicts = Append(@, W(p, v))]
  BY DEF Answer
<1>4. Verdicts(Append(job.verdicts, W(p, v)))
  BY <1>2, MoreVerdicts DEF JobInv
<1>. HIDE DEF W
<1>5. job' = [cluster |-> job.cluster, verdicts |-> Append(job.verdicts, W(p, v))]
  BY <1>2, <1>3 DEF JobInv
<1>6. JobInv'
  BY <1>1, <1>2, <1>4, <1>5 DEF JobInv
<1>. QED BY <1>1, <1>6 DEF FindingsInv

LEMMA InvNext ==
  ASSUME FindingsInv, [Next]_vars
  PROVE  FindingsInv'
<1>1. CASE UNCHANGED vars
  BY <1>1 DEF vars, FindingsInv, JobInv
<1>. QED BY <1>1, InvAdd, InvSubmit, InvAnswer DEF Next

\* The job is about receipts that are all still there, and the providers have answered once each.
THEOREM FindingsSound ==
  Spec => []FindingsInv
BY InvInit, InvNext, PTL DEF Spec


-----------------------------------------------------------------------------
(* What the runs check of every state.                                      *)

\* Providers are answered for at most once, so there are no more verdicts than providers.
LEMMA VerdictsBounded ==
  ASSUME NEW vs, Verdicts(vs)
  PROVE  Len(vs) <= Cardinality(Providers)
<1>. DEFINE by == [i \in 1..Len(vs) |-> vs[i].provider]
<1>. DEFINE V == [provider : Providers, class : Proposed, severity : Severities]
<1>1. Len(vs) \in Nat /\ \A i \in 1..Len(vs) : vs[i].provider \in Providers
  <2>1. vs \in Seq(V) /\ \A w \in V : w.provider \in Providers
    BY DEF Verdicts
  <2>. HIDE DEF V
  <2>. QED BY <2>1
<1>2. by \in Injection(1..Len(vs), Providers)
  BY <1>1 DEF Verdicts, Injection, IsInjective
<1>3. Cardinality(1..Len(vs)) <= Cardinality(Providers)
  <2>. HIDE DEF by
  <2>. QED BY <1>2, FindingsAssumption, FS_Injection
<1>4. Cardinality(1..Len(vs)) = Len(vs)
  <2>1. 1 \in Int /\ Len(vs) \in Int
    BY <1>1
  <2>2. Cardinality(1..Len(vs)) = IF 1 > Len(vs) THEN 0 ELSE Len(vs) - 1 + 1
    BY <2>1, FS_Interval, Zenon
  <2>. QED BY <1>1, <2>2
<1>. QED BY <1>3, <1>4

LEMMA InvType ==
  FindingsInv => TypeOK
<1>. SUFFICES ASSUME FindingsInv PROVE TypeOK
  OBVIOUS
<1>1. receipts \in Seq(Receipts)
  BY DEF FindingsInv
<1>2. ASSUME NEW k \in DOMAIN Findings(receipts) PROVE Findings(receipts)[k].score \in Nat
  <2>1. k \in Keys(receipts) /\ Findings(receipts)[k].score = Score(GroupOf(receipts, k))
    BY <1>1, <1>2, FindingShape
  <2>2. Score(GroupOf(receipts, k)) \in Nat
    BY <1>1, <2>1, GroupOfKey, ScoreParts
  <2>. QED BY <2>1, <2>2
<1>3. ASSUME job # NoJob
      PROVE  /\ job.cluster.members \subseteq Receipts
             /\ job.cluster.severity \in DOMAIN SeverityRank
             /\ Len(job.verdicts) <= Cardinality(Providers)
  <2>1. IsCluster(job.cluster) /\ Verdicts(job.verdicts)
    BY <1>3 DEF FindingsInv, JobInv
  <2>2. job.cluster.severity \in Severities
    BY <2>1, ReceiptGraded DEF IsCluster
  <2>3. DOMAIN SeverityRank = Severities
    BY DEF SeverityRank, Severities
  <2>. QED BY <2>1, <2>2, <2>3, VerdictsBounded DEF IsCluster
<1>. QED BY <1>1, <1>2, <1>3 DEF TypeOK

\* Every finding has a score that is a natural number, and every job a cluster of
\* receipts and no more verdicts than there are providers.
THEOREM FindingsTypes ==
  Spec => []TypeOK
BY FindingsSound, InvType, PTL

LEMMA InvRefines ==
  FindingsInv => FindingsRefineClusters
<1>. SUFFICES ASSUME FindingsInv PROVE FindingsRefineClusters
  OBVIOUS
<1>. DEFINE found == Findings(receipts)
            clusters == Clusters(receipts)
<1>1. /\ DOMAIN found = Keys(receipts)
      /\ \A k \in Keys(receipts) :
           /\ found[k].members = {r \in ToSet(receipts) : Key(r) = k}
           /\ found[k].class = k[1]
           /\ \E r \in ToSet(receipts) : Key(r) = k /\ Class(r) = k[1] /\ found[k].severity = Severity(r)
  BY FindingShape DEF FindingsInv
<1>2. /\ DOMAIN clusters = {Class(r) : r \in ToSet(receipts)}
      /\ \A f \in DOMAIN clusters :
           /\ IsCluster(clusters[f])
           /\ clusters[f].members = {r \in ToSet(receipts) : Class(r) = f}
  BY ClusterShape DEF FindingsInv
<1>. HIDE DEF found, clusters
<1>3. ASSUME NEW k \in DOMAIN found
      PROVE  /\ found[k].members \subseteq clusters[found[k].class].members
             /\ SeverityRank[found[k].severity] <= SeverityRank[clusters[found[k].class].severity]
  <2>1. PICK r \in ToSet(receipts) : Key(r) = k /\ Class(r) = k[1] /\ found[k].severity = Severity(r)
    BY <1>1
  <2>2. found[k].class = k[1] /\ k[1] \in DOMAIN clusters
    BY <1>1, <1>2, <2>1
  <2>3. clusters[k[1]].members = {q \in ToSet(receipts) : Class(q) = k[1]} /\ IsCluster(clusters[k[1]])
    BY <1>2, <2>2
  <2>4. \A q \in found[k].members : q \in ToSet(receipts) /\ Class(q) = k[1]
    BY <1>1 DEF Key
  <2>5. SeverityRank[Severity(r)] <= SeverityRank[clusters[k[1]].severity]
    BY <2>1, <2>3 DEF IsCluster
  <2>. QED BY <2>1, <2>2, <2>3, <2>4, <2>5
<1>4. ASSUME NEW f \in DOMAIN clusters
      PROVE  clusters[f].members = UNION {found[k].members : k \in {k \in DOMAIN found : found[k].class = f}}
  <2>1. ASSUME NEW r \in clusters[f].members
        PROVE  \E k \in DOMAIN found : found[k].class = f /\ r \in found[k].members
    <3>1. r \in ToSet(receipts) /\ Class(r) = f
      BY <1>2
    <3>2. Key(r) \in DOMAIN found /\ r \in found[Key(r)].members /\ Key(r)[1] = f
      BY <1>1, <3>1 DEF Keys, Key
    <3>. QED BY <1>1, <3>2
  <2>2. ASSUME NEW k \in DOMAIN found, found[k].class = f, NEW r \in found[k].members
        PROVE  r \in clusters[f].members
    <3>1. r \in ToSet(receipts) /\ Class(r) = f
      BY <1>1, <2>2 DEF Key
    <3>. QED BY <1>2, <3>1
  <2>. QED BY <2>1, <2>2
<1>. QED BY <1>3, <1>4 DEF FindingsRefineClusters, found, clusters

\* score_findings and build_clusters group the same receipts consistently.
THEOREM GroupingsAgree ==
  Spec => []FindingsRefineClusters
BY FindingsSound, InvRefines, PTL

LEMMA InvGate ==
  FindingsInv => GateImpliesClusterGate
<1>. SUFFICES ASSUME FindingsInv, NEW k \in DOMAIN Findings(receipts), Findings(receipts)[k].gate
              PROVE  /\ Clusters(receipts)[Findings(receipts)[k].class].gate
                     /\ \E r \in Findings(receipts)[k].members : Reproducible(r) /\ Class(r) # None
  BY DEF GateImpliesClusterGate
<1>1. k \in Keys(receipts) /\ Findings(receipts)[k].class = k[1]
  BY FindingShape DEF FindingsInv
<1>2. PICK r \in ToSet(receipts) :
        Key(r) = k /\ Class(r) = k[1] /\ Reproducible(r) /\ Class(r) # None
  BY FindingShape, <1>1 DEF FindingsInv
<1>3. k[1] \in DOMAIN Clusters(receipts)
  <2>1. DOMAIN Clusters(receipts) = {Class(q) : q \in ToSet(receipts)}
    BY ClusterShape DEF FindingsInv
  <2>. QED BY <1>2, <2>1
<1>4. IsCluster(Clusters(receipts)[k[1]]) /\ r \in Clusters(receipts)[k[1]].members
  BY <1>2, <1>3, ClusterShape DEF FindingsInv
<1>5. Clusters(receipts)[k[1]].gate
  BY <1>2, <1>4 DEF IsCluster
<1>6. r \in Findings(receipts)[k].members
  <2>1. Findings(receipts)[k].members = {q \in ToSet(receipts) : Key(q) = k}
    BY <1>1, FindingShape DEF FindingsInv
  <2>. QED BY <1>2, <2>1
<1>. QED BY <1>1, <1>2, <1>5, <1>6

\* A finding that is ready for a regression gate has a receipt of a reproducible failure
\* and lies in a cluster that is ready too.
THEOREM GatesAgree ==
  Spec => []GateImpliesClusterGate
BY FindingsSound, InvGate, PTL

LEMMA InvStale ==
  FindingsInv => StaleJobNeverOverstates
<1>. SUFFICES ASSUME FindingsInv, job # NoJob
              PROVE  /\ job.cluster.members \subseteq Clusters(receipts)[job.cluster.class].members
                     /\ SeverityRank[job.cluster.severity]
                          <= SeverityRank[Clusters(receipts)[job.cluster.class].severity]
  BY DEF StaleJobNeverOverstates
<1>. DEFINE f == job.cluster.class
            now == Clusters(receipts)[f]
<1>1. IsCluster(job.cluster) /\ job.cluster.members \subseteq ToSet(receipts)
  BY DEF FindingsInv, JobInv
<1>2. \A r \in job.cluster.members : r \in ToSet(receipts) /\ Class(r) = f
  BY <1>1 DEF IsCluster
<1>3. PICK r \in job.cluster.members : job.cluster.severity = Severity(r)
  BY <1>1 DEF IsCluster
<1>4. f \in DOMAIN Clusters(receipts)
  <2>1. DOMAIN Clusters(receipts) = {Class(q) : q \in ToSet(receipts)}
    BY ClusterShape DEF FindingsInv
  <2>. QED BY <1>2, <1>3, <2>1
<1>5. IsCluster(now) /\ now.members = {q \in ToSet(receipts) : Class(q) = f}
  BY <1>4, ClusterShape DEF FindingsInv
<1>6. job.cluster.members \subseteq now.members
  BY <1>2, <1>5
<1>7. SeverityRank[Severity(r)] <= SeverityRank[now.severity]
  BY <1>5, <1>6 DEF IsCluster
<1>. QED BY <1>3, <1>6, <1>7

\* The severity a comparison job reports is never worse than that of the cluster as it is by now.
THEOREM JobNeverOverstates ==
  Spec => []StaleJobNeverOverstates
BY FindingsSound, InvStale, PTL


-----------------------------------------------------------------------------
(* What leaves the evidence directory.                                      *)

\* The clusters a caller can have: those of now and the one of the job.
LEMMA ClustersAtHand ==
  ASSUME FindingsInv, NEW c \in ClusterSet(receipts) \cup Submitted
  PROVE  IsCluster(c) /\ c.members \subseteq ToSet(receipts)
<1>1. CASE c \in ClusterSet(receipts)
  <2>1. PICK f \in DOMAIN Clusters(receipts) : c = Clusters(receipts)[f]
    BY <1>1 DEF ClusterSet
  <2>2. IsCluster(c) /\ c.members = {r \in ToSet(receipts) : Class(r) = f}
    BY <2>1, ClusterShape DEF FindingsInv
  <2>. QED BY <2>2
<1>2. CASE c \in Submitted
  <2>1. job # NoJob /\ c = job.cluster
    BY <1>2 DEF Submitted
  <2>. QED BY <2>1 DEF FindingsInv, JobInv
<1>. QED BY <1>1, <1>2

LEMMA InvSeed ==
  FindingsInv => SeedAgreesWithGate
<1>. SUFFICES ASSUME FindingsInv, NEW c \in ClusterSet(receipts) \cup Submitted
              PROVE  /\ Seedable(c, receipts)
                     /\ c.class # None => (c.gate <=> Seed(c, receipts).status # "not_reproducible")
  BY DEF SeedAgreesWithGate
<1>1. IsCluster(c) /\ c.members \subseteq ToSet(receipts)
  BY ClustersAtHand
<1>2. SeedReceipts(c, receipts) = c.members
  BY <1>1 DEF SeedReceipts
<1>3. Seedable(c, receipts)
  BY <1>1, <1>2 DEF Seedable, IsCluster
<1>. DEFINE seen == {Reproducible(r) : r \in c.members}
<1>4. Seed(c, receipts).status =
        IF seen = {TRUE} THEN "reproducible" ELSE IF seen = {FALSE} THEN "not_reproducible" ELSE "mixed"
  BY <1>2 DEF Seed, DeterministicStatus
<1>5. \A r \in c.members : Reproducible(r) \in BOOLEAN
  BY <1>1, ReceiptGraded DEF IsCluster
<1>6. ASSUME c.class # None
      PROVE  c.gate <=> seen # {FALSE}
  <2>1. c.gate <=> \E r \in c.members : Reproducible(r)
    BY <1>1, <1>6 DEF IsCluster
  <2>2. ASSUME NEW r \in c.members, Reproducible(r) PROVE seen # {FALSE}
    <3>1. Reproducible(r) = TRUE /\ Reproducible(r) \in seen
      BY <1>5, <2>2
    <3>. QED BY <3>1
  <2>3. ASSUME \A r \in c.members : ~Reproducible(r) PROVE seen = {FALSE}
    <3>1. \A r \in c.members : Reproducible(r) = FALSE
      BY <1>5, <2>3
    <3>2. PICK r \in c.members : TRUE
      BY <1>1 DEF IsCluster
    <3>. QED BY <3>1, <3>2
  <2>. QED BY <2>1, <2>2, <2>3
<1>7. Seed(c, receipts).status # "not_reproducible" <=> seen # {FALSE}
  <2>1. {TRUE} # {FALSE}
    OBVIOUS
  <2>. HIDE DEF seen
  <2>. QED BY <1>4, <2>1
<1>. QED BY <1>3, <1>6, <1>7

\* An AAR seed always has evidence, and it says "not_reproducible" exactly when
\* the cluster it is of is not ready for a regression gate.
THEOREM SeedsAgree ==
  Spec => []SeedAgreesWithGate
BY FindingsSound, InvSeed, PTL

\* A candidate of a cluster cites the receipts of the cluster, and there is one.
LEMMA ClusterCandidatesCite ==
  ASSUME NEW c
  PROVE  /\ ClusterCandidates(c) # {}
         /\ \A d \in ClusterCandidates(c) : d.class = c.class /\ d.cites = c.members
<1>1. ToSet(EraLanes(c.class)) # {}
  <2>1. CASE c.class = "duplicate_replay"
    <3>1. EraLanes(c.class) = <<"accuracy", "redundancy", "efficiency", "cross_lane">>
      BY <2>1 DEF EraLanes
    <3>. QED BY <3>1 DEF ToSet
  <2>2. CASE c.class = "boundary"
    <3>1. EraLanes(c.class) = <<"cross_lane">>
      BY <2>2 DEF EraLanes
    <3>. QED BY <3>1 DEF ToSet
  <2>3. CASE c.class \notin {"duplicate_replay", "boundary"}
    <3>1. EraLanes(c.class) = <<"accuracy">>
      BY <2>3 DEF EraLanes
    <3>. QED BY <3>1 DEF ToSet
  <2>. QED BY <2>1, <2>2, <2>3
<1>2. \A l : LET d == [lane |-> l, class |-> c.class, cites |-> c.members]
            IN  d.class = c.class /\ d.cites = c.members
  OBVIOUS
<1>. QED BY <1>1, <1>2, Zenon DEF ClusterCandidates

\* What an export cites: its receipts when it has no clusters, and else the
\* members of the clusters.
LEMMA ExportCites ==
  ASSUME NEW given, NEW clusters,
         \A c \in clusters : IsCluster(c)
  PROVE  LET export == Export(given, clusters) IN
         /\ export.included = ToSet(given)
         /\ Cited(export) = IF clusters = {} THEN ToSet(given) ELSE UNION {c.members : c \in clusters}
         /\ \A d \in export.candidates : \A r \in d.cites : Class(r) = d.class
<1>. DEFINE cs == Candidates(given, clusters)
<1>1. /\ Export(given, clusters).included = ToSet(given)
      /\ Export(given, clusters).candidates = cs
  BY DEF Export
<1>2. CASE clusters = {}
  <2>1. cs = {ReceiptCandidate(r) : r \in ToSet(given)}
    BY <1>2 DEF Candidates
  <2>. HIDE DEF cs
  <2>2. \A r : ReceiptCandidate(r).class = Class(r) /\ ReceiptCandidate(r).cites = {r}
    BY DEF ReceiptCandidate
  <2>3. UNION {d.cites : d \in cs} = ToSet(given)
    BY <2>1, <2>2
  <2>. QED BY <1>1, <1>2, <2>1, <2>2, <2>3 DEF Cited
<1>3. CASE clusters # {}
  <2>1. cs = UNION {ClusterCandidates(c) : c \in clusters}
    BY <1>3 DEF Candidates
  <2>. HIDE DEF cs
  <2>2. ASSUME NEW d \in cs
        PROVE  /\ \A r \in d.cites : Class(r) = d.class
               /\ \E c \in clusters : d.cites = c.members
    <3>1. PICK c \in clusters : d \in ClusterCandidates(c)
      BY <2>1
    <3>2. d.class = c.class /\ d.cites = c.members
      BY <3>1, ClusterCandidatesCite
    <3>. QED BY <3>1, <3>2 DEF IsCluster
  <2>3. ASSUME NEW c \in clusters
        PROVE  \E d \in cs : d.cites = c.members
    <3>1. PICK d \in ClusterCandidates(c) : d.cites = c.members
      BY ClusterCandidatesCite
    <3>. QED BY <2>1, <3>1
  <2>4. UNION {d.cites : d \in cs} = UNION {c.members : c \in clusters}
    BY <2>2, <2>3
  <2>. QED BY <1>1, <1>3, <2>2, <2>4 DEF Cited
<1>. QED BY <1>2, <1>3

LEMMA InvExport ==
  FindingsInv => ExportPreservesClassification
<1>. SUFFICES ASSUME FindingsInv, NEW D \in SUBSET DOMAIN receipts, NEW E \in SUBSET DOMAIN receipts,
                     NEW given, given = Restrict(receipts, D), NEW part, part = Restrict(receipts, E)
              PROVE  LET alone == Export(given, {})
                         aged == Export(given, Submitted)
                         other == Export(given, ClusterSet(part)) IN
                     /\ \A export \in {alone, aged, other} : \A candidate \in export.candidates :
                          \A r \in candidate.cites : Class(r) = candidate.class
                     /\ Cited(alone) = alone.included
                     /\ D = DOMAIN receipts => Cited(aged) \subseteq aged.included
                     /\ E \subseteq D => Cited(other) \subseteq other.included
                     /\ D \subseteq E => other.included \subseteq Cited(other)
  BY DEF ExportPreservesClassification
<1>. DEFINE alone == Export(given, {})
            aged == Export(given, Submitted)
            other == Export(given, ClusterSet(part))
<1>1. receipts \in Seq(Receipts) /\ ToSet(given) = {receipts[i] : i \in D}
  BY PartMembers DEF FindingsInv
<1>2. /\ alone.included = ToSet(given) /\ Cited(alone) = ToSet(given)
      /\ \A d \in alone.candidates : \A r \in d.cites : Class(r) = d.class
  BY ExportCites
<1>3. /\ aged.included = ToSet(given)
      /\ \A d \in aged.candidates : \A r \in d.cites : Class(r) = d.class
      /\ D = DOMAIN receipts => Cited(aged) \subseteq ToSet(given)
  <2>1. \A c \in Submitted : IsCluster(c) /\ c.members \subseteq ToSet(receipts)
    BY ClustersAtHand
  <2>2. /\ aged.included = ToSet(given)
        /\ Cited(aged) = IF Submitted = {} THEN ToSet(given) ELSE UNION {c.members : c \in Submitted}
        /\ \A d \in aged.candidates : \A r \in d.cites : Class(r) = d.class
    <3>1. \A c \in Submitted : IsCluster(c)
      BY <2>1
    <3>. QED BY <3>1, ExportCites
  <2>3. D = DOMAIN receipts => ToSet(given) = ToSet(receipts)
    BY <1>1 DEF ToSet
  <2>4. UNION {c.members : c \in Submitted} \subseteq ToSet(receipts)
    BY <2>1
  <2>. QED BY <2>2, <2>3, <2>4
<1>4. /\ other.included = ToSet(given)
      /\ \A d \in other.candidates : \A r \in d.cites : Class(r) = d.class
      /\ E \subseteq D => Cited(other) \subseteq ToSet(given)
      /\ D \subseteq E => ToSet(given) \subseteq Cited(other)
  <2>. DEFINE cs == ClusterSet(part)
  <2>1. /\ \A c \in cs : IsCluster(c)
        /\ UNION {c.members : c \in cs} = {receipts[i] : i \in E}
        /\ cs = {} => E = {}
    BY <1>1, PartMembers
  <2>. HIDE DEF cs
  <2>2. /\ Export(given, cs).included = ToSet(given)
        /\ Cited(Export(given, cs)) = IF cs = {} THEN ToSet(given) ELSE UNION {c.members : c \in cs}
        /\ \A d \in Export(given, cs).candidates : \A r \in d.cites : Class(r) = d.class
    BY <2>1, ExportCites
  <2>3. /\ E \subseteq D => Cited(Export(given, cs)) \subseteq ToSet(given)
        /\ D \subseteq E => ToSet(given) \subseteq Cited(Export(given, cs))
    BY <1>1, <2>1, <2>2
  <2>. QED BY <2>2, <2>3 DEF cs
<1>. HIDE DEF alone, aged, other
<1>5. /\ \A export \in {alone, aged, other} : \A candidate \in export.candidates :
           \A r \in candidate.cites : Class(r) = candidate.class
      /\ Cited(alone) = alone.included
      /\ D = DOMAIN receipts => Cited(aged) \subseteq aged.included
      /\ E \subseteq D => Cited(other) \subseteq other.included
      /\ D \subseteq E => other.included \subseteq Cited(other)
  BY <1>2, <1>3, <1>4
<1>. QED BY <1>5 DEF alone, aged, other

\* An ERA export gives every receipt it cites under its own classification, whatever receipts
\* and clusters it is made from; it cites only receipts it includes when the clusters are over
\* no others, and all of them when the clusters leave none out.
THEOREM ExportsPreserve ==
  Spec => []ExportPreservesClassification
BY FindingsSound, InvExport, PTL


-----------------------------------------------------------------------------
(* Strict majorities.                                                       *)

LEMMA LengthOfFunction ==
  ASSUME NEW S, NEW n \in Nat, NEW f \in [1..n -> S]
  PROVE  f \in Seq(S) /\ Len(f) = n
OBVIOUS

\* A consensus is the value of more than half of the places.
LEMMA ConsensusIsMajority ==
  ASSUME NEW s, Consensus(s) # "no_consensus"
  PROVE  2 * Votes(s, Consensus(s)) > Len(s)
BY DEF Consensus

LEMMA PlacesFinite ==
  ASSUME NEW n \in Nat
  PROVE  IsFiniteSet(1..n) /\ Cardinality(1..n) = n
<1>1. 1 \in Int /\ n \in Int
  OBVIOUS
<1>2. IsFiniteSet(1..n) /\ Cardinality(1..n) = IF 1 > n THEN 0 ELSE n - 1 + 1
  BY <1>1, FS_Interval, Zenon
<1>. QED BY <1>2

\* One more value cannot give the strict majority to another value at once.
LEMMA NoOverturn ==
  ASSUME NEW S, NEW s \in Seq(S), NEW t \in Seq(S),
         Len(t) = Len(s) + 1, \A i \in 1..Len(s) : t[i] = s[i],
         Consensus(s) # "no_consensus", Consensus(t) # "no_consensus"
  PROVE  Consensus(t) = Consensus(s)
<1>. DEFINE n == Len(s)
            x == Consensus(s)
            y == Consensus(t)
            X == {i \in 1..n : s[i] = x}
            Y == {i \in 1..n : s[i] = y}
            Z == {i \in 1..(n+1) : t[i] = y}
<1>. SUFFICES ASSUME x # y PROVE FALSE
  OBVIOUS
<1>1. n \in Nat /\ DOMAIN s = 1..n /\ DOMAIN t = 1..(n+1)
  OBVIOUS
<1>2. 2 * Cardinality(X) > n
  <2>1. Votes(s, x) = Cardinality(X)
    BY <1>1 DEF Votes
  <2>. QED BY <2>1, ConsensusIsMajority
<1>3. 2 * Cardinality(Z) > n + 1
  <2>1. Votes(t, y) = Cardinality(Z)
    BY <1>1 DEF Votes
  <2>. QED BY <2>1, ConsensusIsMajority
<1>4. X \subseteq 1..n /\ Y \subseteq 1..n /\ X \cap Y = {}
  OBVIOUS
<1>5. Z \subseteq Y \cup {n+1}
  <2>1. \A i \in 1..(n+1) : i \in 1..n \/ i = n+1
    BY <1>1
  <2>. QED BY <2>1
<1>. HIDE DEF n, x, y, X, Y, Z
<1>6. IsFiniteSet(1..n) /\ Cardinality(1..n) = n
  BY <1>1, PlacesFinite
<1>7. IsFiniteSet(X) /\ Cardinality(X) \in Nat /\ IsFiniteSet(Y) /\ Cardinality(Y) \in Nat
  BY <1>4, <1>6, FS_Subset, FS_CardinalityType
<1>8. IsFiniteSet(Y \cup {n+1}) /\ Cardinality(Y \cup {n+1}) <= Cardinality(Y) + 1
  <2>1. /\ IsFiniteSet(Y \cup {n+1})
        /\ Cardinality(Y \cup {n+1}) = IF n+1 \in Y THEN Cardinality(Y) ELSE Cardinality(Y) + 1
    BY <1>7, FS_AddElement, Zenon
  <2>. QED BY <1>7, <2>1
<1>9. Cardinality(Z) <= Cardinality(Y \cup {n+1}) /\ IsFiniteSet(Z)
  BY <1>5, <1>8, FS_Subset
<1>10. Cardinality(Z) \in Nat /\ Cardinality(Y \cup {n+1}) \in Nat
  BY <1>8, <1>9, FS_CardinalityType
<1>11. ~(Cardinality(X) + Cardinality(Y) > n)
  BY <1>4, <1>6, FS_MajoritiesIntersect
<1>. DEFINE cx == Cardinality(X)
            cy == Cardinality(Y)
            cz == Cardinality(Z)
<1>12. cx \in Nat /\ cy \in Nat /\ cz \in Nat /\ cz <= cy + 1
  BY <1>7, <1>8, <1>9, <1>10
<1>13. 2 * cx > n /\ 2 * cz > n + 1 /\ ~(cx + cy > n)
  BY <1>2, <1>3, <1>11
<1>. HIDE DEF cx, cy, cz
<1>. QED BY <1>1, <1>12, <1>13

\* An answer leaves the earlier ones as they are and comes behind them.
LEMMA AnswerAppends ==
  ASSUME FindingsInv, Answer
  PROVE  /\ job'.cluster = job.cluster
         /\ \E V : /\ job.verdicts \in Seq(V) /\ job'.verdicts \in Seq(V)
                   /\ Len(job'.verdicts) = Len(job.verdicts) + 1
                   /\ \A i \in 1..Len(job.verdicts) : job'.verdicts[i] = job.verdicts[i]
<1>. DEFINE W(p, v) == [provider |-> p, class |-> v.class, severity |-> v.severity]
<1>1. JobInv
  BY DEF FindingsInv, Answer
<1>2. PICK w : job' = [job EXCEPT !.verdicts = Append(@, w)]
  <2>1. PICK p \in Providers \ {job.verdicts[i].provider : i \in DOMAIN job.verdicts}, v \in Proposals :
          job' = [job EXCEPT !.verdicts = Append(@, W(p, v))]
    BY DEF Answer
  <2>. HIDE DEF W
  <2>. QED BY <2>1
<1>3. job' = [cluster |-> job.cluster, verdicts |-> Append(job.verdicts, w)]
  BY <1>1, <1>2 DEF JobInv
<1>. DEFINE U == [provider : Providers, class : Proposed, severity : Severities]
            V == U \cup {w}
<1>4. job.verdicts \in Seq(U)
  BY <1>1 DEF JobInv, Verdicts
<1>. HIDE DEF U
<1>5. job.verdicts \in Seq(V) /\ w \in V
  BY <1>4
<1>. HIDE DEF V
<1>6. /\ Append(job.verdicts, w) \in Seq(V) /\ Len(Append(job.verdicts, w)) = Len(job.verdicts) + 1
      /\ \A i \in 1..Len(job.verdicts) : Append(job.verdicts, w)[i] = job.verdicts[i]
  BY <1>5
<1>. QED BY <1>3, <1>5, <1>6

\* So neither consensus of a job goes from one value to another in one answer.
LEMMA AnswerNeverOverturns ==
  ASSUME FindingsInv, Answer
  PROVE  /\ ClassConsensus(job) # "no_consensus" /\ ClassConsensus(job') # "no_consensus"
              => ClassConsensus(job') = ClassConsensus(job)
         /\ SeverityConsensus(job) # "no_consensus" /\ SeverityConsensus(job') # "no_consensus"
              => SeverityConsensus(job') = SeverityConsensus(job)
<1>. DEFINE vs == job.verdicts
            ws == job'.verdicts
<1>1. PICK V : /\ vs \in Seq(V) /\ ws \in Seq(V) /\ Len(ws) = Len(vs) + 1
               /\ \A i \in 1..Len(vs) : ws[i] = vs[i]
  BY AnswerAppends
<1>2. DOMAIN vs = 1..Len(vs) /\ DOMAIN ws = 1..(Len(vs)+1) /\ Len(vs) \in Nat
  BY <1>1
<1>. DEFINE n == Len(vs)
<1>3. /\ ClassConsensus(job) = Consensus([i \in 1..n |-> vs[i].class])
      /\ ClassConsensus(job') = Consensus([i \in 1..(n+1) |-> ws[i].class])
      /\ SeverityConsensus(job) = Consensus([i \in 1..n |-> vs[i].severity])
      /\ SeverityConsensus(job') = Consensus([i \in 1..(n+1) |-> ws[i].severity])
  BY <1>2 DEF ClassConsensus, SeverityConsensus
<1>4. \A i \in 1..n : i \in 1..(n+1) /\ ws[i] = vs[i]
  BY <1>1, <1>2
<1>. HIDE DEF vs, ws, n
<1>5. n \in Nat /\ n + 1 \in Nat
  BY <1>2 DEF n
<1>6. ASSUME NEW a, NEW b, a = [i \in 1..n |-> vs[i].class], b = [i \in 1..(n+1) |-> ws[i].class],
             Consensus(a) # "no_consensus", Consensus(b) # "no_consensus"
      PROVE  Consensus(b) = Consensus(a)
  <2>. DEFINE T == {vs[i].class : i \in 1..n} \cup {ws[i].class : i \in 1..(n+1)}
  <2>1. a \in [1..n -> T] /\ b \in [1..(n+1) -> T] /\ \A i \in 1..n : b[i] = a[i]
    BY <1>4, <1>6
  <2>. HIDE DEF T
  <2>2. a \in Seq(T) /\ Len(a) = n /\ b \in Seq(T) /\ Len(b) = n + 1
    BY <1>5, <2>1, LengthOfFunction
  <2>3. Len(b) = Len(a) + 1 /\ \A i \in 1..Len(a) : b[i] = a[i]
    BY <2>1, <2>2
  <2>. QED BY <1>6, <2>2, <2>3, NoOverturn, Zenon
<1>7. ASSUME NEW a, NEW b, a = [i \in 1..n |-> vs[i].severity], b = [i \in 1..(n+1) |-> ws[i].severity],
             Consensus(a) # "no_consensus", Consensus(b) # "no_consensus"
      PROVE  Consensus(b) = Consensus(a)
  <2>. DEFINE T == {vs[i].severity : i \in 1..n} \cup {ws[i].severity : i \in 1..(n+1)}
  <2>1. a \in [1..n -> T] /\ b \in [1..(n+1) -> T] /\ \A i \in 1..n : b[i] = a[i]
    BY <1>4, <1>7
  <2>. HIDE DEF T
  <2>2. a \in Seq(T) /\ Len(a) = n /\ b \in Seq(T) /\ Len(b) = n + 1
    BY <1>5, <2>1, LengthOfFunction
  <2>3. Len(b) = Len(a) + 1 /\ \A i \in 1..Len(a) : b[i] = a[i]
    BY <2>1, <2>2
  <2>. QED BY <1>7, <2>2, <2>3, NoOverturn, Zenon
<1>. QED BY <1>3, <1>6, <1>7

\* What the two statuses say of the two consensuses.
LEMMA StatusSays ==
  ASSUME NEW j
  PROVE  /\ Status(j) = "cluster_disputed" => Disputed(j)
         /\ Status(j) = "confirmed" =>
              /\ ClassConsensus(j) # "no_consensus" /\ ClassConsensus(j) = j.cluster.class
              /\ SeverityConsensus(j) # "no_consensus" /\ SeverityConsensus(j) = j.cluster.severity
BY DEF Status, Disputed

LEMMA StepNeverOverturns ==
  ASSUME FindingsInv, Next, job' # job, job # NoJob
  PROVE  {Status(job), Status(job')} # {"confirmed", "cluster_disputed"}
<1>1. Answer
  BY DEF Next, AddReceipt, Submit
<1>2. job'.cluster = job.cluster
  BY <1>1, AnswerAppends
<1>. SUFFICES ASSUME {Status(job), Status(job')} = {"confirmed", "cluster_disputed"} PROVE FALSE
  OBVIOUS
<1>3. CASE Status(job) = "confirmed" /\ Status(job') = "cluster_disputed"
  BY <1>1, <1>2, <1>3, AnswerNeverOverturns, StatusSays DEF Disputed
<1>4. CASE Status(job) = "cluster_disputed" /\ Status(job') = "confirmed"
  BY <1>1, <1>2, <1>4, AnswerNeverOverturns, StatusSays DEF Disputed
<1>5. "confirmed" # "cluster_disputed"
  OBVIOUS
<1>. QED BY <1>3, <1>4, <1>5

\* One more verdict never turns a confirmed cluster into a disputed one, or back.
THEOREM VotesNeverOverturn ==
  Spec => OneVoteNeverOverturns
<1>1. ASSUME FindingsInv, [Next]_vars
      PROVE  [job # NoJob /\ Len(job.verdicts) >= 2 =>
                {Status(job), Status(job')} # {"confirmed", "cluster_disputed"}]_job
  BY <1>1, StepNeverOverturns DEF vars
<1>. QED BY <1>1, FindingsSound, PTL DEF Spec, OneVoteNeverOverturns


-----------------------------------------------------------------------------
(* Further evidence.                                                        *)

\* Every receipt of the one sequence has a place of its own in the other.
Within(s, t) ==
  \E m \in Injection(1..Len(s), 1..Len(t)) : \A j \in 1..Len(s) : t[m[j]] = s[j]

LEMMA InsertionWithin ==
  ASSUME NEW S, NEW s \in Seq(S), NEW i \in 1..(Len(s)+1), NEW e \in S,
         NEW t, t = InsertAt(s, i, e)
  PROVE  Within(s, t)
<1>1. /\ Len(t) = Len(s) + 1
      /\ \A j \in 1..(Len(s)+1) : t[j] = IF j < i THEN s[j] ELSE IF j = i THEN e ELSE s[j-1]
  <2>1. /\ InsertAt(s, i, e) \in Seq(S) /\ Len(InsertAt(s, i, e)) = Len(s) + 1
        /\ \A j \in 1..(Len(s)+1) :
             InsertAt(s, i, e)[j] = IF j < i THEN s[j] ELSE IF j = i THEN e ELSE s[j-1]
    BY InsertAtPlaces
  <2>. QED BY <2>1
<1>. DEFINE to(j) == IF j < i THEN j ELSE j + 1
            m == [j \in 1..Len(s) |-> to(j)]
<1>2. ASSUME NEW j \in 1..Len(s)
      PROVE  to(j) \in 1..(Len(s)+1) /\ t[to(j)] = s[j]
  <2>1. CASE j < i
    <3>1. j \in 1..(Len(s)+1)
      OBVIOUS
    <3>. QED BY <1>1, <2>1, <3>1
  <2>2. CASE j >= i
    <3>1. j + 1 \in 1..(Len(s)+1) /\ ~(j + 1 < i) /\ ~(j + 1 = i) /\ (j + 1) - 1 = j
      BY <2>2
    <3>2. t[j + 1] = s[j]
      BY <1>1, <3>1
    <3>. QED BY <2>2, <3>1, <3>2
  <2>. QED BY <2>1, <2>2
<1>3. \A a, b \in 1..Len(s) : to(a) = to(b) => a = b
  OBVIOUS
<1>. HIDE DEF to
<1>4. m \in Injection(1..Len(s), 1..Len(t)) /\ \A j \in 1..Len(s) : t[m[j]] = s[j]
  BY <1>1, <1>2, <1>3 DEF Injection, IsInjective
<1>. HIDE DEF m
<1>. QED BY <1>4 DEF Within

LEMMA WithinMembers ==
  ASSUME NEW S, NEW s \in Seq(S), NEW t \in Seq(S), Within(s, t)
  PROVE  ToSet(s) \subseteq ToSet(t)
<1>1. PICK m \in Injection(1..Len(s), 1..Len(t)) : \A j \in 1..Len(s) : t[m[j]] = s[j]
  BY DEF Within
<1>2. \A j \in 1..Len(s) : m[j] \in 1..Len(t)
  BY DEF Injection
<1>. QED BY <1>1, <1>2 DEF ToSet

\* The group a finding is made of keeps its receipts and may get new ones.
LEMMA GroupGrows ==
  ASSUME NEW s \in Seq(Receipts), NEW t \in Seq(Receipts), Within(s, t), NEW k \in Keys(s)
  PROVE  /\ k \in Keys(t) /\ Range(GroupOf(s, k)) \subseteq Range(GroupOf(t, k))
         /\ Cardinality(DOMAIN GroupOf(s, k)) <= Cardinality(DOMAIN GroupOf(t, k))
<1>1. PICK m \in Injection(1..Len(s), 1..Len(t)) : \A j \in 1..Len(s) : t[m[j]] = s[j]
  BY DEF Within
<1>2. ToSet(s) \subseteq ToSet(t)
  BY WithinMembers
<1>3. k \in Keys(t)
  BY <1>2 DEF Keys
<1>. DEFINE g == GroupOf(s, k)
            h == GroupOf(t, k)
<1>4. DOMAIN g = {j \in 1..Len(s) : Key(s[j]) = k} /\ Range(g) = {r \in ToSet(s) : Key(r) = k}
  BY GroupOfKey
<1>5. /\ DOMAIN h = {j \in 1..Len(t) : Key(t[j]) = k} /\ Range(h) = {r \in ToSet(t) : Key(r) = k}
      /\ GroupIn(t, h)
  BY <1>3, GroupOfKey
<1>. HIDE DEF g, h
<1>. DEFINE n == [j \in DOMAIN g |-> m[j]]
<1>6. m \in [1..Len(s) -> 1..Len(t)] /\ \A a, b \in 1..Len(s) : m[a] = m[b] => a = b
  BY DEF Injection, IsInjective
<1>7. ASSUME NEW j \in DOMAIN g PROVE m[j] \in DOMAIN h
  BY <1>1, <1>4, <1>5, <1>6
<1>8. n \in Injection(DOMAIN g, DOMAIN h)
  BY <1>4, <1>6, <1>7 DEF Injection, IsInjective
<1>9. IsFiniteSet(DOMAIN h)
  BY <1>5, GroupCounts
<1>. HIDE DEF n
<1>10. Cardinality(DOMAIN g) <= Cardinality(DOMAIN h)
  BY <1>8, <1>9, FS_Injection
<1>11. Range(g) \subseteq Range(h)
  BY <1>2, <1>4, <1>5
<1>. QED BY <1>3, <1>10, <1>11 DEF g, h

\* Every summand of the score of a group that grows stays or grows.
LEMMA ScoreGrows ==
  ASSUME NEW s \in Seq(Receipts), NEW t \in Seq(Receipts), NEW g, NEW h, NEW k,
         GroupIn(s, g), GroupIn(t, h), Range(g) \subseteq Range(h),
         Cardinality(DOMAIN g) <= Cardinality(DOMAIN h),
         \A r \in Range(h) : Key(r) = k
  PROVE  Score(h) >= Score(g)
<1>. DEFINE w(x) == SeverityWeight[Severity(Worst(x))]
            b(x) == IF AnyReproducible(x) THEN 30 ELSE 0
            n(x) == Cardinality(DOMAIN x)
            bl(x) == BlastWeight(Class(Worst(x)))
            fx(x) == FixPenalty(Class(Worst(x)))
<1>1. Worst(g) \in Range(h) /\ Worst(h) \in Range(h)
  BY WorstOfGroup
<1>2. Class(Worst(g)) = k[1] /\ Class(Worst(h)) = k[1]
  BY <1>1 DEF Key
<1>3. bl(g) = bl(h) /\ fx(g) = fx(h)
  BY <1>2
<1>4. w(g) <= w(h)
  BY <1>1, WorstOfGroup
<1>5. b(g) <= b(h) /\ b(g) \in Int /\ b(h) \in Int
  BY DEF AnyReproducible
<1>6. n(g) \in Nat /\ n(h) \in Nat
  BY GroupCounts
<1>7. AgreementBoost(g) <= AgreementBoost(h)
  <2>1. LanesOf(g) \subseteq LanesOf(h)
    BY DEF LanesOf
  <2>2. /\ IsFiniteSet(LanesOf(h)) /\ Cardinality(LanesOf(h)) \in Nat \ {0}
        /\ Cardinality(LanesOf(g)) \in Nat \ {0}
    BY GroupCounts
  <2>3. Cardinality(LanesOf(g)) <= Cardinality(LanesOf(h))
    BY <2>1, <2>2, FS_Subset
  <2>. QED BY <2>2, <2>3 DEF AgreementBoost
<1>8. /\ w(g) \in Nat /\ bl(g) \in Int /\ fx(g) \in Int /\ AgreementBoost(g) \in Nat
      /\ w(h) \in Nat /\ bl(h) \in Int /\ fx(h) \in Int /\ AgreementBoost(h) \in Nat
  BY ScoreParts
<1>9. /\ Score(g) = w(g) + b(g) + bl(g) + n(g) + AgreementBoost(g) - fx(g)
      /\ Score(h) = w(h) + b(h) + bl(h) + n(h) + AgreementBoost(h) - fx(h)
  BY DEF Score
<1>10. n(g) <= n(h)
  OBVIOUS
<1>. DEFINE wg == w(g)  wh == w(h)  bg == b(g)  bh == b(h)  ng == n(g)  nh == n(h)
            ag == AgreementBoost(g)  ah == AgreementBoost(h)  c == bl(h)  f == fx(h)
<1>11. /\ wg \in Nat /\ wh \in Nat /\ wg <= wh /\ bg \in Int /\ bh \in Int /\ bg <= bh
       /\ ng \in Nat /\ nh \in Nat /\ ng <= nh /\ ag \in Nat /\ ah \in Nat /\ ag <= ah
       /\ c \in Int /\ f \in Int
  BY <1>4, <1>5, <1>6, <1>7, <1>8, <1>10
<1>12. Score(g) = wg + bg + c + ng + ag - f /\ Score(h) = wh + bh + c + nh + ah - f
  BY <1>3, <1>9
<1>. HIDE DEF wg, wh, bg, bh, ng, nh, ag, ah, c, f
<1>. QED BY <1>11, <1>12

LEMMA FindingsGrow ==
  ASSUME NEW s \in Seq(Receipts), NEW t \in Seq(Receipts), Within(s, t), NEW k \in DOMAIN Findings(s)
  PROVE  k \in DOMAIN Findings(t) /\ Findings(t)[k].score >= Findings(s)[k].score
<1>1. k \in Keys(s) /\ Findings(s)[k].score = Score(GroupOf(s, k))
  BY FindingShape
<1>. DEFINE g == GroupOf(s, k)
            h == GroupOf(t, k)
<1>2. k \in Keys(t) /\ Range(g) \subseteq Range(h) /\ Cardinality(DOMAIN g) <= Cardinality(DOMAIN h)
  BY <1>1, GroupGrows
<1>3. k \in DOMAIN Findings(t) /\ Findings(t)[k].score = Score(h)
  BY <1>2, FindingShape
<1>4. GroupIn(s, g) /\ GroupIn(t, h) /\ Range(h) = {r \in ToSet(t) : Key(r) = k}
  BY <1>1, <1>2, GroupOfKey
<1>. HIDE DEF g, h
<1>5. Score(h) >= Score(g)
  BY <1>2, <1>4, ScoreGrows
<1>. QED BY <1>1, <1>3, <1>5 DEF g

LEMMA ClustersGrow ==
  ASSUME NEW s \in Seq(Receipts), NEW t \in Seq(Receipts), ToSet(s) \subseteq ToSet(t),
         NEW f \in DOMAIN Clusters(s), Clusters(s)[f].gate
  PROVE  Clusters(t)[f].gate
<1>1. IsCluster(Clusters(s)[f]) /\ Clusters(s)[f].members = {r \in ToSet(s) : Class(r) = f}
  BY ClusterShape
<1>2. PICK r \in ToSet(s) : Class(r) = f /\ Reproducible(r) /\ Class(r) # None
  BY <1>1 DEF IsCluster
<1>3. DOMAIN Clusters(t) = {Class(q) : q \in ToSet(t)}
  BY ClusterShape
<1>4. r \in ToSet(t) /\ f \in DOMAIN Clusters(t)
  BY <1>2, <1>3
<1>5. IsCluster(Clusters(t)[f]) /\ Clusters(t)[f].members = {q \in ToSet(t) : Class(q) = f}
  BY <1>4, ClusterShape
<1>. QED BY <1>2, <1>4, <1>5 DEF IsCluster

LEMMA EvidenceStrengthens ==
  ASSUME FindingsInv, AddReceipt
  PROVE  /\ \A k \in DOMAIN Findings(receipts) :
              /\ k \in DOMAIN Findings(receipts')
              /\ Findings(receipts')[k].score >= Findings(receipts)[k].score
         /\ \A f \in DOMAIN Clusters(receipts) :
              Clusters(receipts)[f].gate => Clusters(receipts')[f].gate
<1>1. PICK e \in Receipts, i \in 1..(Len(receipts) + 1) : receipts' = InsertAt(receipts, i, e)
  BY DEF AddReceipt
<1>2. receipts \in Seq(Receipts)
  BY DEF FindingsInv
<1>3. receipts' \in Seq(Receipts) /\ Within(receipts, receipts')
  BY <1>1, <1>2, InsertAtPlaces, InsertionWithin
<1>4. ToSet(receipts) \subseteq ToSet(receipts')
  BY <1>2, <1>3, WithinMembers
<1>. QED BY <1>2, <1>3, <1>4, FindingsGrow, ClustersGrow

\* Another receipt never lowers the score of a finding, wherever its id puts it, and
\* never takes the gate readiness of a cluster away.
THEOREM EvidenceNeverWeakens ==
  Spec => MoreEvidenceNeverLowersAScore
<1>1. ASSUME FindingsInv, [Next]_vars
      PROVE  [receipts' # receipts =>
                LET before == Findings(receipts)  after == Findings(receipts')
                    clusters == Clusters(receipts)  grown == Clusters(receipts') IN
                /\ \A k \in DOMAIN before : k \in DOMAIN after /\ after[k].score >= before[k].score
                /\ \A f \in DOMAIN clusters : clusters[f].gate => grown[f].gate]_receipts
  <2>1. receipts' # receipts => AddReceipt
    BY <1>1 DEF Next, Submit, Answer, vars
  <2>. QED BY <1>1, <2>1, EvidenceStrengthens
<1>. QED BY <1>1, FindingsSound, PTL DEF Spec, MoreEvidenceNeverLowersAScore


-----------------------------------------------------------------------------
(* The order of the receipts.                                               *)

\* What a cluster is depends on the set of its receipts only.
LEMMA ClusterOfMembers ==
  ASSUME NEW g, NEW h, First(g) \in Range(g), First(h) \in Range(h), Range(g) = Range(h),
         \A r, q \in Range(g) : Class(r) = Class(q)
  PROVE  Cluster(g) = Cluster(h)
<1>1. Class(First(g)) = Class(First(h))
  OBVIOUS
<1>2. DominantSeverity(g) = DominantSeverity(h) /\ LanesOf(g) = LanesOf(h)
  BY DEF DominantSeverity, LanesOf
<1>. QED BY <1>1, <1>2 DEF Cluster

\* So does the severity of a finding, and of the worst receipts at that.
LEMMA SeverityOfMembers ==
  ASSUME NEW s \in Seq(Receipts), NEW t \in Seq(Receipts), NEW g, NEW h,
         GroupIn(s, g), GroupIn(t, h), Range(g) = Range(h)
  PROVE  Severity(Worst(g)) = Severity(Worst(h))
<1>. DEFINE a == Severity(Worst(g))
            b == Severity(Worst(h))
<1>1. SeverityWeight[a] <= SeverityWeight[b] /\ SeverityWeight[b] <= SeverityWeight[a]
  BY WorstOfGroup
<1>2. a \in Severities /\ b \in Severities
  BY WorstOfGroup, GroupMembers, ReceiptGraded
<1>. HIDE DEF a, b
<1>3. a = b
  BY <1>1, <1>2 DEF Severities, SeverityWeight
<1>. QED BY <1>3 DEF a, b

\* One finding is the other but for the receipt that stands for it.
Stands(again, found) ==
  /\ \A field \in {"class", "severity", "score", "lanes", "members"} : again[field] = found[field]
  /\ \E r \in found.members :
       /\ Severity(r) = found.severity
       /\ again.failure = FailureCase(r)
       /\ again.replays = r
       /\ again.gate = ReadyForGate(r)

\* Two sequences that hold each other's receipts, each as often.
LEMMA OrderIsIrrelevant ==
  ASSUME NEW s \in Seq(Receipts), NEW t \in Seq(Receipts), Within(s, t), Within(t, s)
  PROVE  /\ Clusters(t) = Clusters(s)
         /\ DOMAIN Findings(t) = DOMAIN Findings(s)
         /\ \A k \in DOMAIN Findings(s) :
              /\ Stands(Findings(t)[k], Findings(s)[k])
              /\ Findings(t)[k].score = Findings(s)[k].score
              /\ Findings(t)[k].severity = Findings(s)[k].severity
<1>1. ToSet(s) = ToSet(t)
  <2>1. ToSet(s) \subseteq ToSet(t)
    BY WithinMembers
  <2>2. ToSet(t) \subseteq ToSet(s)
    BY WithinMembers
  <2>. QED BY <2>1, <2>2
<1>2. Clusters(t) = Clusters(s)
  <2>1. {Fingerprint(r) : r \in ToSet(s)} = {Fingerprint(r) : r \in ToSet(t)}
    BY <1>1
  <2>2. ASSUME NEW f \in {Fingerprint(r) : r \in ToSet(s)}
        PROVE  Cluster(ClusterGroup(s, f)) = Cluster(ClusterGroup(t, f))
    <3>1. f \in DOMAIN Clusters(s) /\ f \in DOMAIN Clusters(t)
      BY <2>1 DEF Clusters
    <3>. DEFINE g == ClusterGroup(s, f)
                h == ClusterGroup(t, f)
    <3>2. GroupIn(s, g) /\ Range(g) = {r \in ToSet(s) : Class(r) = f}
      BY <3>1, GroupOfFingerprint
    <3>3. GroupIn(t, h) /\ Range(h) = {r \in ToSet(t) : Class(r) = f}
      BY <3>1, GroupOfFingerprint
    <3>. HIDE DEF g, h
    <3>4. Range(g) = Range(h)
      BY <1>1, <3>2, <3>3
    <3>5. \A r, q \in Range(g) : Class(r) = Class(q)
      BY <3>2
    <3>6. First(g) \in Range(g) /\ First(h) \in Range(h)
      BY <3>2, <3>3, FirstOfGroup
    <3>7. Cluster(g) = Cluster(h)
      BY <3>4, <3>5, <3>6, ClusterOfMembers
    <3>. QED BY <3>7 DEF g, h
  <2>3. /\ Clusters(s) = [f \in {Fingerprint(r) : r \in ToSet(s)} |-> Cluster(ClusterGroup(s, f))]
        /\ Clusters(t) = [f \in {Fingerprint(r) : r \in ToSet(t)} |-> Cluster(ClusterGroup(t, f))]
    BY DEF Clusters, ClusterGroup
  <2>. QED BY <2>1, <2>2, <2>3
<1>3. Keys(s) = Keys(t)
  BY <1>1 DEF Keys
<1>4. DOMAIN Findings(t) = DOMAIN Findings(s) /\ DOMAIN Findings(s) = Keys(s)
  BY <1>3, FindingShape
<1>5. ASSUME NEW k \in DOMAIN Findings(s)
      PROVE  /\ Stands(Findings(t)[k], Findings(s)[k])
             /\ Findings(t)[k].score = Findings(s)[k].score
             /\ Findings(t)[k].severity = Findings(s)[k].severity
  <2>. DEFINE g == GroupOf(s, k)
              h == GroupOf(t, k)
  <2>1. /\ GroupIn(s, g) /\ GroupIn(t, h)
        /\ Range(g) = {r \in ToSet(s) : Key(r) = k} /\ Range(h) = {r \in ToSet(t) : Key(r) = k}
    BY <1>3, <1>4, <1>5, GroupOfKey
  <2>2. Findings(s)[k] = Finding(g) /\ Findings(t)[k] = Finding(h)
    BY <1>3, <1>4, <1>5 DEF Findings
  <2>3. Findings(t)[k].score = Findings(s)[k].score
    <3>1. Findings(t)[k].score >= Findings(s)[k].score /\ Findings(s)[k].score >= Findings(t)[k].score
      BY <1>4, <1>5, FindingsGrow
    <3>2. Findings(s)[k].score = Score(g) /\ Findings(t)[k].score = Score(h)
      BY <1>3, <1>4, <1>5, FindingShape
    <3>3. Score(g) \in Nat /\ Score(h) \in Nat
      BY <2>1, ScoreParts
    <3>. QED BY <3>1, <3>2, <3>3
  <2>. HIDE DEF g, h
  <2>4. Range(g) = Range(h) /\ LanesOf(g) = LanesOf(h)
    BY <1>1, <2>1 DEF LanesOf
  <2>5. Severity(Worst(g)) = Severity(Worst(h))
    BY <2>1, <2>4, SeverityOfMembers
  <2>6. Class(Worst(g)) = k[1] /\ Class(Worst(h)) = k[1]
    <3>1. Key(Worst(g)) = k /\ Key(Worst(h)) = k
      BY <2>1, WorstOfGroup
    <3>. QED BY <3>1 DEF Key
  <2>7. Score(g) = Score(h)
    BY <2>2, <2>3 DEF Finding
  <2>8. Worst(h) \in Range(g)
    BY <2>1, <2>4, WorstOfGroup
  <2>9. /\ Finding(h).severity = Finding(g).severity
        /\ Finding(h).class = Finding(g).class /\ Finding(h).score = Finding(g).score
        /\ Finding(h).lanes = Finding(g).lanes /\ Finding(h).members = Finding(g).members
    BY <2>4, <2>5, <2>6, <2>7 DEF Finding
  <2>10. /\ Finding(h).failure = FailureCase(Worst(h)) /\ Finding(h).replays = Worst(h)
         /\ Finding(h).gate = ReadyForGate(Worst(h))
         /\ Finding(g).members = Range(g) /\ Finding(g).severity = Severity(Worst(g))
    BY DEF Finding
  <2>11. Stands(Finding(h), Finding(g))
    <3>1. \A field \in {"class", "severity", "score", "lanes", "members"} :
            Finding(h)[field] = Finding(g)[field]
      BY <2>9
    <3>2. Severity(Worst(h)) = Finding(g).severity
      BY <2>5, <2>10
    <3>. QED BY <2>8, <2>10, <3>1, <3>2 DEF Stands
  <2>. QED BY <2>2, <2>3, <2>9, <2>11
<1>. QED BY <1>2, <1>4, <1>5


\* Reordering loses no receipt and makes none.
LEMMA ReorderedWithin ==
  ASSUME NEW S, NEW s \in Seq(S), NEW p \in Bijection(1..Len(s), 1..Len(s)),
         NEW t, t = [i \in 1..Len(s) |-> s[p[i]]]
  PROVE  t \in Seq(S) /\ Within(s, t) /\ Within(t, s)
<1>. DEFINE n == Len(s)
            q == [j \in 1..n |-> CHOOSE i \in 1..n : p[i] = j]
<1>1. n \in Nat /\ \A i \in 1..n : s[i] \in S
  OBVIOUS
<1>2. /\ p \in [1..n -> 1..n] /\ p \in Injection(1..n, 1..n)
      /\ \A j \in 1..n : \E i \in 1..n : p[i] = j
  BY DEF Bijection, Injection, Surjection
<1>3. t \in [1..n -> S]
  BY <1>1, <1>2
<1>4. t \in Seq(S) /\ Len(t) = n
  BY <1>1, <1>3, LengthOfFunction
<1>5. Within(t, s)
  BY <1>2, <1>4 DEF Within
<1>6. \A j \in 1..n : q[j] \in 1..n /\ p[q[j]] = j
  BY <1>2
<1>. HIDE DEF q
<1>7. q \in [1..n -> 1..n]
  <2>1. q = [j \in 1..n |-> q[j]]
    BY DEF q
  <2>. QED BY <1>6, <2>1
<1>8. \A a, b \in 1..n : q[a] = q[b] => a = b
  <2>. SUFFICES ASSUME NEW a \in 1..n, NEW b \in 1..n, q[a] = q[b] PROVE a = b
    OBVIOUS
  <2>1. p[q[a]] = a /\ p[q[b]] = b
    BY <1>6
  <2>. QED BY <2>1
<1>9. q \in Injection(1..n, 1..n)
  BY <1>7, <1>8 DEF Injection, IsInjective
<1>10. \A j \in 1..n : t[q[j]] = s[j]
  BY <1>6
<1>11. Within(s, t)
  BY <1>4, <1>9, <1>10 DEF Within
<1>. QED BY <1>4, <1>5, <1>11

LEMMA InvOrder ==
  FindingsInv => OrderDecidesOnlyTheRepresentative
<1>. SUFFICES ASSUME FindingsInv, NEW p \in Bijection(DOMAIN receipts, DOMAIN receipts),
                     NEW other, other = [i \in DOMAIN receipts |-> receipts[p[i]]]
              PROVE  LET found == Findings(receipts)  again == Findings(other) IN
                     /\ Clusters(other) = Clusters(receipts)
                     /\ DOMAIN again = DOMAIN found
                     /\ \A k \in DOMAIN found : Stands(again[k], found[k])
                     /\ \A k, l \in DOMAIN found :
                          Outranks(again[k], again[l]) <=> Outranks(found[k], found[l])
  BY DEF OrderDecidesOnlyTheRepresentative, Stands
<1>1. receipts \in Seq(Receipts) /\ DOMAIN receipts = 1..Len(receipts)
  BY DEF FindingsInv
<1>2. p \in Bijection(1..Len(receipts), 1..Len(receipts)) /\ other = [i \in 1..Len(receipts) |-> receipts[p[i]]]
  BY <1>1
<1>3. other \in Seq(Receipts) /\ Within(receipts, other) /\ Within(other, receipts)
  BY <1>1, <1>2, ReorderedWithin
<1>4. /\ Clusters(other) = Clusters(receipts)
      /\ DOMAIN Findings(other) = DOMAIN Findings(receipts)
      /\ \A k \in DOMAIN Findings(receipts) :
           /\ Stands(Findings(other)[k], Findings(receipts)[k])
           /\ Findings(other)[k].score = Findings(receipts)[k].score
           /\ Findings(other)[k].severity = Findings(receipts)[k].severity
  BY <1>1, <1>3, OrderIsIrrelevant
<1>. QED BY <1>4 DEF Outranks

\* The order of the receipts, that of their hashed ids, has no part in any cluster, nor in
\* a finding except for which of its worst receipts lends it failure id, replay command and
\* gate, nor in which finding has the higher score or, at one score, the worse severity.
THEOREM OrderOnlyRepresentative ==
  Spec => []OrderDecidesOnlyTheRepresentative
BY FindingsSound, InvOrder, PTL


=============================================================================
