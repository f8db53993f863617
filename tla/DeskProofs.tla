----------------------------- MODULE DeskProofs -----------------------------
(***************************************************************************)
(* The desk runs its components side by side: every behaviour of the desk  *)
(* is a behaviour of each component, so what is proved of a component in   *)
(* DeskComponentProofs holds at the desk.  Then the calculators: what they *)
(* promise of every input, as far as it needs no induction over data.      *)
(***************************************************************************)
EXTENDS Desk, DeskComponentProofs

deskVars == <<part, question, components>>

\* A step of the desk is one of one component, or leaves it alone.
LEMMA StepsOfParts ==
    ASSUME [DeskNext]_deskVars
    PROVE  /\ [HoldingsNext]_holdingsVars /\ [ProfilesNext]_profilesVars
           /\ [AlertsNext]_alertsVars /\ [AnalysisNext]_analysisVars /\ [SidecarNext]_sidecarVars
<1>1. CASE HoldingsStep
  BY <1>1 DEF HoldingsStep
<1>2. CASE ProfilesStep
  BY <1>2 DEF ProfilesStep
<1>3. CASE AlertsStep
  BY <1>3 DEF AlertsStep
<1>4. CASE AnalysisStep
  BY <1>4 DEF AnalysisStep
<1>5. CASE SidecarStep
  BY <1>5 DEF SidecarStep
<1>6. CASE UNCHANGED components
  BY <1>6 DEF components
<1>7. Calculate \/ UNCHANGED deskVars => UNCHANGED components
  BY DEF Calculate, Ask1, deskVars
<1> QED BY <1>1, <1>2, <1>3, <1>4, <1>5, <1>6, <1>7 DEF DeskNext

\* The desk implements the specification of each of its components with a state.
THEOREM DeskRunsItsParts ==
    DeskSpec => HoldingsSpec /\ ProfilesSpec /\ AlertsSpec /\ AnalysisSpec /\ SidecarSpec
<1>1. DeskInit => HoldingsInit /\ ProfilesInit /\ AlertsInit /\ AnalysisInit /\ SidecarInit
  BY DEF DeskInit
<1> QED BY <1>1, StepsOfParts, PTL
        DEF DeskSpec, deskVars, HoldingsSpec, ProfilesSpec, AlertsSpec, AnalysisSpec, SidecarSpec

\* Every variable of the desk keeps its type.
THEOREM DeskTypeCorrect == DeskSpec => []DeskTypeOK
<1>1. DeskInit => part \in Parts
  BY DEF DeskInit
<1>2. part \in Parts /\ [DeskNext]_deskVars => (part \in Parts)'
  BY DEF deskVars, DeskNext, HoldingsStep, ProfilesStep, AlertsStep, AnalysisStep, SidecarStep,
     Others, Calculate, Ask1, Parts
<1>3. DeskSpec => [](part \in Parts)
  BY <1>1, <1>2, PTL DEF DeskSpec, deskVars
<1> QED BY <1>3, DeskRunsItsParts, HoldingsTypeCorrect, ProfilesTypeCorrect, AlertsTypeCorrect,
           AnalysisTypeCorrect, SidecarTypeCorrect, PTL DEF DeskTypeOK

\* At the desk, whatever its requests do: the last refresh, the last profile and the last alert
\* settings stand, the current profile resolves, previews are justified, analyses are accounted
\* for, and the sidecar reads only what was approved.
THEOREM DeskKeepsItsPromises ==
    DeskSpec => /\ []HoldingsStand /\ []LastProfileStands /\ []CurrentProfileResolves
                /\ []LastSettingsStand /\ []PreviewsAreJustified
                /\ []AnalysesStand /\ []ReadsAreApproved
BY DeskRunsItsParts, HoldingsAlwaysStand, LastProfileAlwaysStands, CurrentProfileAlwaysResolves,
   LastSettingsAlwaysStand, PreviewsAlwaysJustified, AnalysesAlwaysStand, ReadsStayApproved, PTL

-----------------------------------------------------------------------------
(* Market analyses: citations. *)

\* Of the passages supplied, some share most terms with a line.
LEMMA BestExists ==
    ASSUME NEW allowed, IsFiniteSet(allowed), NEW shared,
           \A key \in allowed : shared[key] \in Int,
           NEW key \in allowed
    PROVE  \E c \in allowed : shared[key] <= shared[c]
                              /\ \A d \in allowed : shared[d] <= shared[c]
<1> DEFINE I == {shared[d] : d \in allowed}
<1>1. IsFiniteSet(I) /\ I # {} /\ I \in SUBSET Int
  BY ValuesAreFinite
<1>2. PICK i \in I : \A j \in I : j <= i
  BY <1>1, LargestExists
<1> QED BY <1>2

\* What the repair makes of a line.
LEMMA RepairedLine ==
    ASSUME NEW allowed, IsFiniteSet(allowed), NEW said, AnswerLines(said, allowed),
           NEW i \in DOMAIN said
    PROVE  LET line == Repaired(said, allowed)[i] IN
           /\ line.exact => \/ said[i].exact /\ line.cited = said[i].cited
                            \/ line.cited \subseteq allowed
           /\ said[i].exact => line.exact /\ line.cited = said[i].cited
           /\ said[i].form = "prose" /\ (\E key \in allowed : said[i].shared[key] >= 3)
                => line.exact /\ line.cited # {}
<1> DEFINE was == said[i]
           new == Rewritten(was, allowed)
           line == Attached(new, allowed)
           best == {c \in allowed : \A d \in allowed : new.shared[d] <= new.shared[c]}
<1>1. Repaired(said, allowed)[i] = line
  BY DEF Repaired
<1>2. /\ was = [form |-> was.form, cited |-> was.cited, exact |-> was.exact,
                shared |-> was.shared]
      /\ was.exact => was.cited # {}
      /\ \A key \in allowed : was.shared[key] \in Int
  BY DEF AnswerLines
<1> HIDE DEF was
<1>3. /\ new = [form |-> was.form, cited |-> was.cited, exact |-> new.exact,
                shared |-> was.shared]
      /\ new.exact => was.exact \/ (was.cited # {} /\ was.cited \subseteq allowed)
      /\ was.exact => new.exact
  BY <1>2 DEF Rewritten
<1> HIDE DEF new
<1>4. line = new \/ \E c \in best : line = [new EXCEPT !.cited = {c}, !.exact = TRUE]
  BY DEF Attached
<1>5. new.exact => line = new
  BY DEF Attached
<1>6. ASSUME was.form = "prose", ~ new.exact, NEW key \in allowed, was.shared[key] >= 3
      PROVE  line # new /\ line.exact /\ line.cited # {}
  <2>1. PICK c \in allowed : was.shared[key] <= was.shared[c]
                             /\ \A d \in allowed : was.shared[d] <= was.shared[c]
    BY <1>2, BestExists
  <2>2. new.shared = was.shared /\ new.form = "prose"
    BY <1>3, <1>6
  <2>3. c \in best /\ new.shared[c] >= 3
    BY <1>2, <1>6, <2>1, <2>2
  <2>4. ~ (\A b \in best : new.shared[b] < 3)
    BY <1>2, <2>2, <2>3
  <2>5. line = [new EXCEPT !.cited = {CHOOSE b \in best : TRUE}, !.exact = TRUE]
    BY <1>6, <2>2, <2>3, <2>4 DEF Attached
  <2> QED BY <1>3, <1>6, <2>5
<1> HIDE DEF line
<1>7. line.exact => (was.exact /\ line.cited = was.cited) \/ line.cited \subseteq allowed
  <2>1. CASE line = new
    BY <1>3, <2>1
  <2>2. ASSUME NEW c \in best, line = [new EXCEPT !.cited = {c}, !.exact = TRUE]
        PROVE  line.cited \subseteq allowed
    <3>1. line.cited = {c}
      BY <1>3, <2>2
    <3> QED BY <3>1
  <2> QED BY <1>4, <2>1, <2>2
<1>8. was.exact => line.exact /\ line.cited = was.cited
  BY <1>3, <1>5
<1>9. new.exact => line.exact /\ line.cited # {}
  BY <1>2, <1>3, <1>5
<1> QED BY <1>1, <1>6, <1>7, <1>8, <1>9 DEF was

\* The repair of citations loses no exact line, adds only what was accepted, and gives a line of
\* prose that shares three terms with a passage a citation.
THEOREM RepairInventsNothing ==
    ASSUME NEW allowed, IsFiniteSet(allowed), NEW said, AnswerLines(said, allowed)
    PROVE  RepairKept(said, Repaired(said, allowed), allowed)
<1> DEFINE repaired == Repaired(said, allowed)
<1>1. DOMAIN repaired = DOMAIN said
  BY DEF Repaired
<1>2. \A i \in DOMAIN said :
          /\ repaired[i].exact => \/ said[i].exact /\ repaired[i].cited = said[i].cited
                                  \/ repaired[i].cited \subseteq allowed
          /\ said[i].exact => repaired[i].exact /\ repaired[i].cited = said[i].cited
          /\ said[i].form = "prose" /\ (\E key \in allowed : said[i].shared[key] >= 3)
                => repaired[i].exact /\ repaired[i].cited # {}
  BY RepairedLine
<1> HIDE DEF repaired
<1>3. CitedBy(repaired) \ CitedBy(said) \subseteq allowed
  BY <1>1, <1>2 DEF CitedBy
<1>4. CitedBy(said) \subseteq CitedBy(repaired)
  BY <1>1, <1>2 DEF CitedBy
<1>5. CitationStatus(said, allowed) = "invalid"
          => CitationStatus(repaired, allowed) = "invalid"
  BY <1>4 DEF CitationStatus
<1>6. ASSUME CitationStatus(repaired, allowed) = "missing",
             NEW i \in DOMAIN said, NEW key \in allowed, said[i].form = "prose"
      PROVE  said[i].shared[key] < 3
  <2>1. CitedBy(repaired) = {}
    BY <1>6 DEF CitationStatus
  <2>2. ~ (repaired[i].exact /\ repaired[i].cited # {})
    BY <1>1, <2>1 DEF CitedBy
  <2>3. said[i].shared[key] \in Int
    BY DEF AnswerLines
  <2> QED BY <1>2, <1>6, <2>2, <2>3
<1> QED BY <1>3, <1>5, <1>6 DEF RepairKept, repaired

-----------------------------------------------------------------------------
(* Market analyses: evidence. *)

\* The places in the list of results of what the evidence is: an order of all of them with the
\* first passage of every domain before the others, cut at the limit.
EvidencePlace(items, k) ==
    LET new == FirstOfDomain(items) IN
    IF k <= Cardinality(new) THEN Nth(new, k)
    ELSE Nth(DOMAIN items \ new, k - Cardinality(new))

\* The evidence is the results at those places, each once.
LEMMA EvidencePlaces ==
    ASSUME NEW S, NEW items \in Seq(S)
    PROVE  LET kept == DiverseEvidence(items)
               new == FirstOfDomain(items)
               n == Cardinality(new) IN
           /\ n \in 0 .. Len(items) /\ IsFiniteSet(new) /\ new \in SUBSET (1 .. Len(items))
           /\ kept \in Seq(S)
           /\ Len(kept) \in 0 .. Len(items) /\ Len(kept) <= EvidenceLimit
           /\ Len(kept) = Len(items) \/ Len(kept) = EvidenceLimit
           /\ \A k \in 1 .. Len(items) :
                 /\ EvidencePlace(items, k) \in 1 .. Len(items)
                 /\ k <= n => EvidencePlace(items, k) \in new
                 /\ \A l \in 1 .. Len(items) :
                       EvidencePlace(items, k) = EvidencePlace(items, l) => k = l
           /\ \A i \in new : \E k \in 1 .. n : EvidencePlace(items, k) = i
           /\ \A k \in 1 .. Len(kept) : kept[k] = items[EvidencePlace(items, k)]
<1> DEFINE all == DOMAIN items
           new == FirstOfDomain(items)
           old == all \ new
           n == Cardinality(new)
           o == Cardinality(old)
           ranked == Pick(items, new) \o Pick(items, old)
           count == IF Len(ranked) < EvidenceLimit THEN Len(ranked) ELSE EvidenceLimit
           at(k) == EvidencePlace(items, k)
<1>1. all = 1 .. Len(items) /\ Len(items) \in Nat
  OBVIOUS
<1>2. IsFiniteSet(all) /\ Cardinality(all) = Len(items)
  BY <1>1, FS_Interval
<1>3. new \in SUBSET all /\ old \in SUBSET all /\ all \cap new = new
  BY DEF FirstOfDomain
<1>4. IsFiniteSet(new) /\ IsFiniteSet(old) /\ o = Len(items) - n
  <2>1. IsFiniteSet(new) /\ IsFiniteSet(old)
    BY <1>2, <1>3, FS_Subset
  <2>2. Cardinality(all \ new) = Cardinality(all) - Cardinality(all \cap new)
    BY <1>2, FS_Difference
  <2> QED BY <1>2, <1>3, <2>1, <2>2
<1>5. n \in Nat /\ o \in Nat
  BY <1>4, FS_CardinalityType
<1>6. /\ Pick(items, new) \in Seq(S) /\ Len(Pick(items, new)) = n
      /\ DOMAIN Pick(items, new) = 1 .. n
      /\ \A k \in 1 .. n : Nth(new, k) \in new /\ Pick(items, new)[k] = items[Nth(new, k)]
  BY <1>3, PickProperties
<1>7. /\ Pick(items, old) \in Seq(S) /\ Len(Pick(items, old)) = o
      /\ DOMAIN Pick(items, old) = 1 .. o
      /\ \A k \in 1 .. o : Nth(old, k) \in old /\ Pick(items, old)[k] = items[Nth(old, k)]
  BY <1>3, PickProperties
<1>8. \A k \in 1 .. Len(items) :
          /\ k <= n => k \in 1 .. n /\ at(k) = Nth(new, k)
          /\ k > n => k - n \in 1 .. o /\ at(k) = Nth(old, k - n)
  BY <1>1, <1>4, <1>5 DEF EvidencePlace
<1>9. \A i \in new : \E k \in 1 .. n : Nth(new, k) = i
  BY <1>1, <1>3, <1>4, NthOf
<1>10. DiverseEvidence(items) = SubSeq(ranked, 1, count)
  BY DEF DiverseEvidence
<1> HIDE DEF new, old, n, o
<1>11. /\ ranked \in Seq(S) /\ Len(ranked) = Len(items)
       /\ \A k \in 1 .. Len(items) : ranked[k] = items[at(k)]
  <2>1. ranked \in Seq(S) /\ Len(ranked) = n + o
    BY <1>6, <1>7, ConcatProperties
  <2>2. ASSUME NEW k \in 1 .. Len(items)
        PROVE  ranked[k] = items[at(k)]
    <3>1. k \in 1 .. n + o
      BY <1>1, <1>4, <1>5
    <3>2. ranked[k] = IF k <= n THEN Pick(items, new)[k] ELSE Pick(items, old)[k - n]
      BY <1>6, <1>7, <3>1, ConcatProperties
    <3> QED BY <1>1, <1>5, <1>6, <1>7, <1>8, <3>2
  <2> QED BY <1>1, <1>4, <1>5, <2>1, <2>2
<1> HIDE DEF ranked
<1>12. count \in 0 .. Len(items)
  BY <1>1, <1>11, WatchlistAssumption
<1>13. /\ SubSeq(ranked, 1, count) \in Seq(S) /\ Len(SubSeq(ranked, 1, count)) = count
       /\ \A k \in 1 .. count : SubSeq(ranked, 1, count)[k] = ranked[k]
  <2>1. \A k \in 1 .. count : ranked[k] \in S
    BY <1>1, <1>11, <1>12
  <2> QED BY <1>1, <1>12, <2>1, SubSeqProperties
<1>14. ASSUME NEW k \in 1 .. Len(items), NEW l \in 1 .. Len(items), at(k) = at(l)
       PROVE  k = l
  <2>1. new \in SUBSET Int /\ old \in SUBSET Int /\ new \cap old = {}
    BY <1>1, <1>3 DEF old
  <2>2. CASE k <= n /\ l <= n
    BY <1>4, <1>8, <1>14, <2>1, <2>2, NthInjective DEF n
  <2>3. CASE k > n /\ l > n
    <3>1. k - n \in 1 .. o /\ l - n \in 1 .. o /\ Nth(old, k - n) = Nth(old, l - n)
      BY <1>8, <1>14, <2>3
    <3>2. k - n = l - n
      BY <1>4, <2>1, <3>1, NthInjective DEF o
    <3> QED BY <1>1, <1>5, <3>2
  <2>4. (k <= n => at(k) \in new) /\ (l <= n => at(l) \in new)
    BY <1>6, <1>8
  <2>5. (k > n => at(k) \in old) /\ (l > n => at(l) \in old)
    BY <1>7, <1>8
  <2>6. ~ (at(k) \in new /\ at(k) \in old)
    BY <2>1
  <2>7. (k <= n /\ l > n) \/ (k > n /\ l <= n) => FALSE
    BY <1>14, <2>4, <2>5, <2>6
  <2>8. k <= n \/ k > n
    BY <1>1, <1>5
  <2>9. l <= n \/ l > n
    BY <1>1, <1>5
  <2> QED BY <2>2, <2>3, <2>7, <2>8, <2>9
<1>15. \A k \in 1 .. Len(items) : at(k) \in all /\ (k <= n => at(k) \in new)
  BY <1>1, <1>3, <1>5, <1>6, <1>7, <1>8
<1>16. \A i \in new : \E k \in 1 .. n : at(k) = i
  BY <1>1, <1>4, <1>5, <1>8, <1>9
<1>17. n \in 0 .. Len(items)
  BY <1>1, <1>4, <1>5
<1>18. /\ DiverseEvidence(items) \in Seq(S)
       /\ Len(DiverseEvidence(items)) = count
       /\ \A k \in 1 .. Len(DiverseEvidence(items)) : DiverseEvidence(items)[k] = items[at(k)]
  BY <1>1, <1>10, <1>11, <1>12, <1>13
<1>19. /\ count \in 0 .. Len(items) /\ count <= EvidenceLimit
       /\ count = Len(items) \/ count = EvidenceLimit
  BY <1>1, <1>11, <1>12, WatchlistAssumption
<1> HIDE DEF all, at, count
<1> QED BY <1>1, <1>3, <1>4, <1>14, <1>15, <1>16, <1>17, <1>18, <1>19
        DEF new, n, at

\* A named domain has a first passage.
LEMMA FirstOfDomainExists ==
    ASSUME NEW S, NEW items \in Seq(S), NEW i \in 1 .. Len(items), items[i].domain # Unnamed
    PROVE  \E j \in FirstOfDomain(items) : items[j].domain = items[i].domain
<1> DEFINE I == {j \in 1 .. Len(items) : items[j].domain = items[i].domain}
<1>1. IsFiniteSet(I) /\ I \in SUBSET Int /\ I # {}
  <2>1. IsFiniteSet(1 .. Len(items)) /\ I \in SUBSET (1 .. Len(items))
    BY FS_Interval
  <2> QED BY <2>1, FS_Subset
<1>7. \A j \in I : j \in 1 .. Len(items) /\ items[j].domain = items[i].domain
  OBVIOUS
<1>8. \A h \in 1 .. Len(items) : items[h].domain = items[i].domain => h \in I
  OBVIOUS
<1> HIDE DEF I
<1>2. 1 \in 1 .. Cardinality(I)
  BY <1>1, FS_CardinalityType, FS_EmptySet
<1>3. PICK j \in I : Cardinality(Below(I, j)) = 0
  BY <1>1, <1>2, NthExists
<1>4. IsFiniteSet(Below(I, j))
  BY <1>1, BelowProperties
<1>5. Below(I, j) = {}
  BY <1>3, <1>4, FS_EmptySet
<1>6. \A h \in 1 .. (j - 1) : items[h].domain # items[j].domain
  BY <1>5, <1>7, <1>8 DEF Below
<1> QED BY <1>6, <1>7 DEF FirstOfDomain

\* The domains of some first passages are as many as the passages.
LEMMA DomainsOfFirst ==
    ASSUME NEW S, NEW items \in Seq(S), NEW m \in Nat, NEW at,
           \A k \in 1 .. m : at[k] \in FirstOfDomain(items),
           \A k, l \in 1 .. m : at[k] = at[l] => k = l
    PROVE  Cardinality({items[at[k]].domain : k \in 1 .. m}) = m
<1> DEFINE f == [k \in 1 .. m |-> items[at[k]].domain]
<1>1. \A i, j \in FirstOfDomain(items) : items[i].domain = items[j].domain => i = j
  <2> SUFFICES ASSUME NEW i \in FirstOfDomain(items), NEW j \in FirstOfDomain(items),
                      items[i].domain = items[j].domain, i < j
               PROVE  FALSE
    BY DEF FirstOfDomain
  <2> QED BY DEF FirstOfDomain
<1>2. \A k, l \in 1 .. m : f[k] = f[l] => k = l
  BY <1>1
<1>3. {items[at[k]].domain : k \in 1 .. m} = {f[k] : k \in 1 .. m}
  OBVIOUS
<1> HIDE DEF f
<1>4. IsFiniteSet(1 .. m) /\ Cardinality(1 .. m) = m
  BY FS_Interval
<1>5. Cardinality({f[k] : k \in 1 .. m}) = m
  BY <1>2, <1>4, ValuesAreAsMany
<1> QED BY <1>3, <1>5

\* The order of the results as a function.
LEMMA EvidenceOrder ==
    ASSUME NEW S, NEW items \in Seq(S)
    PROVE  \E at :
             LET kept == DiverseEvidence(items)
                 new == FirstOfDomain(items)
                 n == Cardinality(new) IN
             /\ \A k \in 1 .. Len(items) : at[k] \in 1 .. Len(items)
             /\ \A k \in 1 .. n : at[k] \in new
             /\ \A k, l \in 1 .. Len(items) : at[k] = at[l] => k = l
             /\ \A i \in new : \E k \in 1 .. n : at[k] = i
             /\ \A k \in 1 .. Len(kept) : kept[k] = items[at[k]]
<1> DEFINE at == [k \in 1 .. Len(items) |-> EvidencePlace(items, k)]
           new == FirstOfDomain(items)
           n == Cardinality(new)
           kept == DiverseEvidence(items)
<1>1. n \in 0 .. Len(items) /\ Len(kept) \in 0 .. Len(items) /\ Len(items) \in Nat
  BY EvidencePlaces
<1>2. \A k \in 1 .. Len(items) :
          /\ EvidencePlace(items, k) \in 1 .. Len(items)
          /\ k <= n => EvidencePlace(items, k) \in new
          /\ \A l \in 1 .. Len(items) : EvidencePlace(items, k) = EvidencePlace(items, l) => k = l
  BY EvidencePlaces
<1>3. \A i \in new : \E k \in 1 .. n : EvidencePlace(items, k) = i
  BY EvidencePlaces
<1>4. \A k \in 1 .. Len(kept) : kept[k] = items[EvidencePlace(items, k)]
  BY EvidencePlaces
<1>5. \A k \in 1 .. Len(items) : at[k] = EvidencePlace(items, k)
  OBVIOUS
<1>6. \A k : (k \in 1 .. n \/ k \in 1 .. Len(kept)) => k \in 1 .. Len(items)
  BY <1>1
<1>7. \A k \in 1 .. n : k <= n
  BY <1>1
<1> HIDE DEF at, new, n, kept
<1>8. \A k \in 1 .. Len(items) : at[k] \in 1 .. Len(items)
  BY <1>2, <1>5
<1>9. \A k \in 1 .. n : at[k] \in new
  BY <1>2, <1>5, <1>6, <1>7
<1>10. \A k, l \in 1 .. Len(items) : at[k] = at[l] => k = l
  BY <1>2, <1>5
<1>11. \A i \in new : \E k \in 1 .. n : at[k] = i
  BY <1>3, <1>5, <1>6
<1>12. \A k \in 1 .. Len(kept) : kept[k] = items[at[k]]
  BY <1>4, <1>5, <1>6
<1> QED BY <1>8, <1>9, <1>10, <1>11, <1>12 DEF new, n, kept

\* The evidence leaves a domain out only when it is full of others.
LEMMA DomainsAreKept ==
    ASSUME NEW S, NEW items \in Seq(S)
    PROVE  LET kept == DiverseEvidence(items) IN
           \/ DomainsOf(kept) = DomainsOf(items)
           \/ Len(kept) = EvidenceLimit /\ Cardinality(DomainsOf(kept)) = EvidenceLimit
<1> DEFINE kept == DiverseEvidence(items)
           new == FirstOfDomain(items)
           n == Cardinality(new)
<1>1. PICK at :
          /\ \A k \in 1 .. Len(items) : at[k] \in 1 .. Len(items)
          /\ \A k \in 1 .. n : at[k] \in new
          /\ \A k, l \in 1 .. Len(items) : at[k] = at[l] => k = l
          /\ \A i \in new : \E k \in 1 .. n : at[k] = i
          /\ \A k \in 1 .. Len(kept) : kept[k] = items[at[k]]
  BY EvidenceOrder
<1>2. /\ n \in 0 .. Len(items) /\ Len(items) \in Nat
      /\ Len(kept) \in 0 .. Len(items) /\ Len(kept) <= EvidenceLimit
      /\ Len(kept) = Len(items) \/ Len(kept) = EvidenceLimit
  BY EvidencePlaces
<1>3. DOMAIN kept = 1 .. Len(kept) /\ DOMAIN items = 1 .. Len(items)
  BY EvidencePlaces
<1> HIDE DEF kept, new, n
<1>4. CASE n <= EvidenceLimit
  <2>1. \A k \in 1 .. n : k \in 1 .. Len(kept)
    BY <1>2, <1>4, WatchlistAssumption
  <2>2. \A k \in 1 .. Len(kept) : at[k] \in 1 .. Len(items)
    BY <1>1, <1>2
  <2>3. DomainsOf(kept) \subseteq DomainsOf(items)
    BY <1>1, <1>3, <2>2 DEF DomainsOf
  <2>4. ASSUME NEW i \in 1 .. Len(items), items[i].domain # Unnamed
        PROVE  items[i].domain \in DomainsOf(kept)
    <3>1. PICK j \in new : items[j].domain = items[i].domain
      BY <2>4, FirstOfDomainExists DEF new
    <3>2. PICK k \in 1 .. n : at[k] = j
      BY <1>1
    <3>3. k \in DOMAIN kept /\ kept[k].domain = items[i].domain
      BY <1>1, <1>3, <2>1, <3>1, <3>2
    <3> QED BY <2>4, <3>3 DEF DomainsOf
  <2>5. DomainsOf(items) \subseteq DomainsOf(kept)
    BY <1>3, <2>4 DEF DomainsOf
  <2> QED BY <2>3, <2>5 DEF kept
<1>5. CASE n > EvidenceLimit
  <2>1. Len(kept) = EvidenceLimit
    BY <1>2, <1>5, WatchlistAssumption
  <2>2. \A k \in 1 .. Len(kept) : k \in 1 .. n /\ k \in 1 .. Len(items)
    BY <1>2, <1>5, <2>1, WatchlistAssumption
  <2> DEFINE m == Len(kept)
  <2>3. m \in Nat /\ \A k \in 1 .. m : at[k] \in FirstOfDomain(items)
    BY <1>1, <1>2, <2>2 DEF new
  <2>4. \A k, l \in 1 .. m : at[k] = at[l] => k = l
    BY <1>1, <2>2
  <2>5. DomainsOf(kept) = {items[at[k]].domain : k \in 1 .. m}
    <3>1. \A k \in 1 .. m : items[at[k]].domain # Unnamed
      BY <2>3 DEF FirstOfDomain
    <3> QED BY <1>1, <1>3, <3>1 DEF DomainsOf
  <2> HIDE DEF m
  <2>6. Cardinality({items[at[k]].domain : k \in 1 .. m}) = m
    BY <2>3, <2>4, DomainsOfFirst
  <2> QED BY <2>1, <2>5, <2>6 DEF m, kept
<1>6. n <= EvidenceLimit \/ n > EvidenceLimit
  BY <1>2, WatchlistAssumption
<1> QED BY <1>4, <1>5, <1>6

\* Of results that differ in their keys the evidence keeps as many domains as the limit allows.
THEOREM EvidenceIsDiverse ==
    ASSUME NEW S, NEW items \in Seq(S),
           \A i, j \in DOMAIN items : items[i].key = items[j].key => i = j
    PROVE  DiversityKept(items, DiverseEvidence(items))
<1> DEFINE kept == DiverseEvidence(items)
<1>1. \/ DomainsOf(kept) = DomainsOf(items)
      \/ Len(kept) = EvidenceLimit /\ Cardinality(DomainsOf(kept)) = EvidenceLimit
  BY DomainsAreKept
<1>2. /\ Len(kept) = EvidenceLimit \/ Len(kept) = Len(items)
      /\ DOMAIN kept = 1 .. Len(kept) /\ DOMAIN items = 1 .. Len(items)
      /\ \A k \in 1 .. Len(kept) : k \in 1 .. Len(items)
  BY EvidencePlaces
<1>3. PICK at :
          /\ \A k \in 1 .. Len(items) : at[k] \in 1 .. Len(items)
          /\ \A k, l \in 1 .. Len(items) : at[k] = at[l] => k = l
          /\ \A k \in 1 .. Len(kept) : kept[k] = items[at[k]]
  BY EvidenceOrder
<1> HIDE DEF kept
<1>4. \A i, j \in DOMAIN kept : kept[i].key = kept[j].key => i = j
  <2> SUFFICES ASSUME NEW i \in DOMAIN kept, NEW j \in DOMAIN kept, kept[i].key = kept[j].key
               PROVE  i = j
    OBVIOUS
  <2>1. i \in 1 .. Len(items) /\ j \in 1 .. Len(items)
    BY <1>2
  <2>2. items[at[i]].key = items[at[j]].key
    BY <1>2, <1>3
  <2>3. at[i] \in DOMAIN items /\ at[j] \in DOMAIN items
    BY <1>2, <1>3, <2>1
  <2>4. at[i] = at[j]
    BY <2>2, <2>3
  <2> QED BY <1>3, <2>1, <2>4
<1> QED BY <1>1, <1>2, <1>4 DEF DiversityKept, kept

\* Whatever the gate accepted, each passage once, the evidence is diverse and the repair of the
\* citations of an answer on it invents nothing.
THEOREM EvidenceStands ==
    ASSUME NEW e, NEW S, NEW accepted \in Seq(S),
           \A i, j \in DOMAIN accepted : accepted[i].key = accepted[j].key => i = j,
           AnswerLines(e.answer, {accepted[i].key : i \in DOMAIN accepted})
    PROVE  EvidenceFrom(e, accepted)
<1> DEFINE kept == DiverseEvidence(accepted)
           keys == {kept[i].key : i \in DOMAIN kept}
<1>1. DiversityKept(accepted, kept)
  BY EvidenceIsDiverse
<1>2. /\ kept \in Seq(S) /\ DOMAIN kept = 1 .. Len(kept) /\ Len(kept) \in 0 .. Len(accepted)
      /\ \A k \in 1 .. Len(kept) : kept[k] = accepted[EvidencePlace(accepted, k)]
  BY EvidencePlaces
<1>7. \A k \in 1 .. Len(accepted) : EvidencePlace(accepted, k) \in 1 .. Len(accepted)
  BY EvidencePlaces
<1>3. \A k \in DOMAIN kept : \E i \in DOMAIN accepted : kept[k] = accepted[i]
  <2> SUFFICES ASSUME NEW k \in DOMAIN kept
               PROVE  \E i \in DOMAIN accepted : kept[k] = accepted[i]
    OBVIOUS
  <2>1. k \in 1 .. Len(kept) /\ k \in 1 .. Len(accepted)
    BY <1>2
  <2> QED BY <1>2, <1>7, <2>1
<1> HIDE DEF kept
<1>4. IsFiniteSet(keys)
  <2> DEFINE keyOf == [k \in DOMAIN kept |-> kept[k].key]
  <2>1. IsFiniteSet(DOMAIN kept)
    BY <1>2, FS_Interval
  <2>2. keys = {keyOf[k] : k \in DOMAIN kept}
    OBVIOUS
  <2> HIDE DEF keyOf, keys
  <2> QED BY <2>1, <2>2, ValuesAreFinite
<1>5. AnswerLines(e.answer, keys)
  BY <1>3 DEF AnswerLines
<1>6. RepairKept(e.answer, Repaired(e.answer, keys), keys)
  BY <1>4, <1>5, RepairInventsNothing
<1> QED BY <1>1, <1>6 DEF EvidenceFrom, EvidenceOn, AnswerOn, kept

\* Every member of a list has a key of its own.
OncePerKey(s) == \A i, j \in DOMAIN s : s[i].key = s[j].key => i = j

\* A list is made of members of another.
MadeOf(s, t) == \A k \in DOMAIN s : \E i \in DOMAIN t : s[k] = t[i]

\* What is picked at places with different keys has every key once.
LEMMA PickByKey ==
    ASSUME NEW S, NEW s \in Seq(S), NEW I \in SUBSET DOMAIN s,
           \A i, j \in I : s[i].key = s[j].key => i = j
    PROVE  Pick(s, I) \in Seq(S) /\ OncePerKey(Pick(s, I)) /\ MadeOf(Pick(s, I), s)
<1> DEFINE picked == Pick(s, I)
<1>1. /\ picked \in Seq(S)
      /\ \A k \in DOMAIN picked : Nth(I, k) \in I /\ picked[k] = s[Nth(I, k)]
      /\ (\A i, j \in I : s[i] = s[j] => i = j)
            => \A k, l \in DOMAIN picked : picked[k] = picked[l] => k = l
  BY PickProperties
<1> HIDE DEF picked
<1>2. \A k, l \in DOMAIN picked : picked[k].key = picked[l].key => k = l
  BY <1>1
<1>3. \A k \in DOMAIN picked : \E i \in DOMAIN s : picked[k] = s[i]
  BY <1>1
<1> QED BY <1>1, <1>2, <1>3 DEF OncePerKey, MadeOf, picked

\* The results without repetitions.
LEMMA DistinctIsOnce ==
    ASSUME NEW S, NEW results \in Seq(S)
    PROVE  /\ Distinct(results) \in Seq(S) /\ OncePerKey(Distinct(results))
           /\ MadeOf(Distinct(results), results)
<1> DEFINE I == {i \in DOMAIN results : \A j \in 1..(i - 1) : results[j].key # results[i].key}
<1>1. DOMAIN results = 1 .. Len(results) /\ Len(results) \in Nat
  BY LenProperties
<1>2. ASSUME NEW i \in I, NEW j \in I, results[i].key = results[j].key PROVE i = j
  <2>1. i \in Nat /\ j \in Nat /\ i >= 1 /\ j >= 1
    BY <1>1
  <2>2. ~ (i < j) /\ ~ (j < i)
    BY <1>2, <2>1
  <2> QED BY <2>1, <2>2
<1> HIDE DEF I
<1>3. I \in SUBSET DOMAIN results
  BY DEF I
<1>4. Pick(results, I) \in Seq(S) /\ OncePerKey(Pick(results, I)) /\ MadeOf(Pick(results, I), results)
  BY <1>2, <1>3, PickByKey
<1> QED BY <1>4 DEF Distinct, I

\* A result that states a cue states one first.
LEMMA FirstCueExists ==
    ASSUME NEW K, NEW cues \in Seq(K), NEW r, NEW k \in DOMAIN cues, cues[k] \in r.cues
    PROVE  FirstCue(r, cues) \in DOMAIN cues
<1> DEFINE I == {l \in DOMAIN cues : cues[l] \in r.cues}
<1>1. DOMAIN cues = 1 .. Len(cues) /\ Len(cues) \in Nat
  BY LenProperties
<1>2. IsFiniteSet(1 .. Len(cues))
  BY <1>1, FS_Interval
<1>3. I \in SUBSET (1 .. Len(cues)) /\ I # {}
  BY <1>1
<1>4. IsFiniteSet(I)
  BY <1>2, <1>3, FS_Subset
<1>5. I \in SUBSET Int
  BY <1>3
<1> HIDE DEF I
<1>6. PICK l \in I : \A j \in I : l <= j
  BY <1>3, <1>4, <1>5, SmallestExists
<1>7. l \in DOMAIN cues /\ cues[l] \in r.cues
  BY DEF I
<1>8. \A j \in 1..(l - 1) : cues[j] \notin r.cues
  <2> SUFFICES ASSUME NEW j \in 1..(l - 1), cues[j] \in r.cues PROVE FALSE
    OBVIOUS
  <2>1. l \in 1 .. Len(cues)
    BY <1>1, <1>7
  <2>2. j \in 1 .. Len(cues) /\ ~ (l <= j)
    BY <1>1, <2>1
  <2>3. j \in I
    BY <1>1, <2>2 DEF I
  <2> QED BY <1>6, <2>2, <2>3
<1> QED BY <1>7, <1>8 DEF FirstCue

\* The gate accepts results, each once if they are.
LEMMA GateIsOnce ==
    ASSUME NEW S, NEW results \in Seq(S), OncePerKey(results), NEW K, NEW cues \in Seq(K),
           NEW fallback
    PROVE  LET gate == GateAccepted(results, cues, fallback) IN
           gate \in Seq(S) /\ OncePerKey(gate) /\ MadeOf(gate, results)
<1> DEFINE states == {i \in DOMAIN results : \E k \in DOMAIN cues : cues[k] \in results[i].cues}
           cue == [i \in states |-> FirstCue(results[i], cues)]
           before == {p \in states \X states :
                        cue[p[1]] < cue[p[2]] \/ (cue[p[1]] = cue[p[2]] /\ p[1] < p[2])}
           hits == Sorted(states, before)
           inOrder == [k \in DOMAIN hits |-> results[hits[k]]]
           stated == {i \in DOMAIN results : fallback \in results[i].cues}
           gate == GateAccepted(results, cues, fallback)
<1>1. gate = IF states # {} THEN inOrder ELSE Pick(results, stated)
  BY DEF GateAccepted
<1>2. /\ DOMAIN results = 1 .. Len(results) /\ Len(results) \in Nat
      /\ DOMAIN cues = 1 .. Len(cues) /\ Len(cues) \in Nat
      /\ \A i \in DOMAIN results : results[i] \in S
  BY LenProperties, ElementOfSeq
<1>3. Pick(results, stated) \in Seq(S) /\ OncePerKey(Pick(results, stated))
      /\ MadeOf(Pick(results, stated), results)
  <2>1. \A i, j \in stated : results[i].key = results[j].key => i = j
    BY DEF OncePerKey
  <2>2. stated \in SUBSET DOMAIN results
    OBVIOUS
  <2> HIDE DEF stated
  <2> QED BY <2>1, <2>2, PickByKey
<1>4. IsFiniteSet(states)
  <2>1. IsFiniteSet(1 .. Len(results))
    BY <1>2, FS_Interval
  <2>2. states \in SUBSET (1 .. Len(results))
    BY <1>2
  <2> HIDE DEF states
  <2> QED BY <2>1, <2>2, FS_Subset
<1>5. \A i \in states : cue[i] \in Int /\ i \in Int
  <2> SUFFICES ASSUME NEW i \in states PROVE cue[i] \in Int /\ i \in Int
    OBVIOUS
  <2>1. FirstCue(results[i], cues) \in DOMAIN cues
    BY FirstCueExists
  <2> QED BY <1>2, <2>1
<1>6. StrictOrder(states, before)
  <2> HIDE DEF states, cue
  <2>1. \A x, y \in states :
            <<x, y>> \in before <=> cue[x] < cue[y] \/ (cue[x] = cue[y] /\ x < y)
    OBVIOUS
  <2> HIDE DEF before
  <2>2. \A x \in states : <<x, x>> \notin before
    BY <1>5, <2>1
  <2>3. \A x, y \in states : x # y => <<x, y>> \in before \/ <<y, x>> \in before
    BY <1>5, <2>1
  <2>4. \A x, y, z \in states :
            <<x, y>> \in before /\ <<y, z>> \in before => <<x, z>> \in before
    <3> SUFFICES ASSUME NEW x \in states, NEW y \in states, NEW z \in states,
                        <<x, y>> \in before, <<y, z>> \in before
                 PROVE  <<x, z>> \in before
      OBVIOUS
    <3>1. /\ cue[x] < cue[y] \/ (cue[x] = cue[y] /\ x < y)
          /\ cue[y] < cue[z] \/ (cue[y] = cue[z] /\ y < z)
      BY <2>1
    <3>2. /\ cue[x] \in Int /\ cue[y] \in Int /\ cue[z] \in Int
          /\ x \in Int /\ y \in Int /\ z \in Int
      BY <1>5
    <3>3. cue[x] < cue[z] \/ (cue[x] = cue[z] /\ x < z)
      BY <3>1, <3>2
    <3> QED BY <2>1, <3>3
  <2> QED BY <2>2, <2>3, <2>4 DEF StrictOrder
<1>7. /\ hits \in Seq(states)
      /\ \A i, j \in DOMAIN hits : i < j => <<hits[i], hits[j]>> \in before
  <2> HIDE DEF states, before
  <2> QED BY <1>4, <1>6, SortedProperties
<1>8. /\ DOMAIN hits = 1 .. Len(hits) /\ Len(hits) \in Nat
      /\ \A k \in DOMAIN hits : hits[k] \in states
  <2> HIDE DEF states, hits
  <2> QED BY <1>7, LenProperties, ElementOfSeq
<1>9. \A k \in DOMAIN hits : hits[k] \in DOMAIN results
  <2>1. \A i \in states : i \in DOMAIN results
    OBVIOUS
  <2> HIDE DEF states, hits
  <2> QED BY <1>8, <2>1
<1> HIDE DEF hits, states, before, cue
<1>10. inOrder \in Seq(S)
  <2>1. inOrder \in [1 .. Len(hits) -> S]
    BY <1>2, <1>8, <1>9
  <2> HIDE DEF inOrder
  <2> QED BY <1>8, <2>1, SeqDef
<1>11. \A k, l \in DOMAIN hits : hits[k] = hits[l] => k = l
  <2> SUFFICES ASSUME NEW k \in DOMAIN hits, NEW l \in DOMAIN hits, hits[k] = hits[l], k # l
               PROVE  FALSE
    OBVIOUS
  <2>1. k < l \/ l < k
    BY <1>8
  <2>2. <<hits[k], hits[k]>> \in before
    BY <1>7, <2>1
  <2> QED BY <1>6, <1>8, <2>2 DEF StrictOrder
<1>12. OncePerKey(inOrder)
  <2>1. \A k, l \in DOMAIN hits : results[hits[k]].key = results[hits[l]].key => k = l
    BY <1>9, <1>11 DEF OncePerKey
  <2> QED BY <2>1 DEF OncePerKey
<1>13. MadeOf(inOrder, results)
  BY <1>9 DEF MadeOf
<1> HIDE DEF inOrder
<1> QED BY <1>1, <1>3, <1>10, <1>12, <1>13

\* What both facets accept is of the results, each once.
LEMMA AcceptedIsOnce ==
    ASSUME NEW S, NEW results \in Seq(S), OncePerKey(results),
           NEW second \in Seq(S), OncePerKey(second), MadeOf(second, results),
           NEW D, NEW drivers \in Seq(D), NEW C, NEW sector \in Seq(C), NEW fallback
    PROVE  LET accepted == Accepted(results, second, drivers, sector, fallback) IN
           accepted \in Seq(S) /\ OncePerKey(accepted)
<1> DEFINE first == GateAccepted(results, drivers \o sector, fallback)
           more == GateAccepted(second, sector, "sector outlook")
           fresh == {i \in DOMAIN more : \A j \in DOMAIN first : first[j] # more[i]}
           further == Pick(more, fresh)
<1>1. Accepted(results, second, drivers, sector, fallback)
          = IF first = <<>> THEN <<>> ELSE first \o further
  BY DEF Accepted
<1>2. first \in Seq(S) /\ OncePerKey(first) /\ MadeOf(first, results)
  <2>1. drivers \in Seq(D \cup C) /\ sector \in Seq(D \cup C)
    OBVIOUS
  <2>2. drivers \o sector \in Seq(D \cup C)
    BY <2>1, ConcatProperties
  <2> QED BY <2>2, GateIsOnce
<1>3. more \in Seq(S) /\ OncePerKey(more) /\ MadeOf(more, second)
  BY GateIsOnce
<1> HIDE DEF first, more
<1>4. further \in Seq(S) /\ OncePerKey(further)
  <2>1. \A i, j \in fresh : more[i].key = more[j].key => i = j
    BY <1>3 DEF OncePerKey
  <2>2. fresh \in SUBSET DOMAIN more
    OBVIOUS
  <2> HIDE DEF fresh
  <2> QED BY <1>3, <2>1, <2>2, PickByKey
<1>5. \A k \in DOMAIN further : \E i \in fresh : further[k] = more[i]
  <2>1. fresh \in SUBSET DOMAIN more
    OBVIOUS
  <2> HIDE DEF fresh
  <2>2. \A k \in DOMAIN further : Nth(fresh, k) \in fresh /\ further[k] = more[Nth(fresh, k)]
    BY <1>3, <2>1, PickProperties
  <2> QED BY <2>2
<1> HIDE DEF further
<1>6. ASSUME NEW j \in DOMAIN first, NEW k \in DOMAIN further PROVE first[j].key # further[k].key
  <2>1. PICK i \in fresh : further[k] = more[i]
    BY <1>5
  <2>2. first[j] # more[i] /\ i \in DOMAIN more
    OBVIOUS
  <2>3. PICK m \in DOMAIN second : more[i] = second[m]
    BY <1>3, <2>2 DEF MadeOf
  <2>4. PICK n \in DOMAIN results : second[m] = results[n]
    BY DEF MadeOf
  <2>5. PICK p \in DOMAIN results : first[j] = results[p]
    BY <1>2 DEF MadeOf
  <2>6. n # p
    BY <2>2, <2>3, <2>4, <2>5
  <2> QED BY <2>1, <2>3, <2>4, <2>5, <2>6 DEF OncePerKey
<1>7. /\ first \o further \in Seq(S)
      /\ DOMAIN first = 1 .. Len(first) /\ Len(first) \in Nat
      /\ DOMAIN further = 1 .. Len(further) /\ Len(further) \in Nat
      /\ DOMAIN (first \o further) = 1 .. Len(first) + Len(further)
      /\ \A i \in 1 .. Len(first) + Len(further) :
            (first \o further)[i] = IF i <= Len(first) THEN first[i] ELSE further[i - Len(first)]
  BY <1>2, <1>4, ConcatProperties, LenProperties
<1>8. OncePerKey(first \o further)
  <2> DEFINE both == first \o further
             n == Len(first)
  <2> SUFFICES ASSUME NEW i \in DOMAIN both, NEW j \in DOMAIN both, both[i].key = both[j].key
               PROVE  i = j
    BY DEF OncePerKey
  <2>1. /\ \A k \in DOMAIN both : k \in Int
        /\ \A k \in DOMAIN both : k <= n => k \in DOMAIN first /\ both[k] = first[k]
        /\ \A k \in DOMAIN both : ~ (k <= n) => k - n \in DOMAIN further /\ both[k] = further[k - n]
    BY <1>7
  <2> HIDE DEF both
  <2>2. CASE i <= n /\ j <= n
    BY <1>2, <2>1, <2>2 DEF OncePerKey
  <2>3. CASE ~ (i <= n) /\ ~ (j <= n)
    <3>1. i - n = j - n
      BY <1>4, <2>1, <2>3 DEF OncePerKey
    <3> QED BY <1>7, <2>1, <3>1
  <2>4. CASE (i <= n /\ ~ (j <= n)) \/ (j <= n /\ ~ (i <= n))
    BY <1>6, <2>1, <2>4
  <2> QED BY <2>2, <2>3, <2>4
<1>9. <<>> \in Seq(S) /\ OncePerKey(<<>>)
  BY DEF OncePerKey
<1> HIDE DEF fresh
<1> QED BY <1>1, <1>7, <1>8, <1>9

\* For any results of both searches and any answer: the evidence is diverse, uses nothing twice,
\* and the repair of the citations invents nothing.
THEOREM EvidenceIsSound == ASSUME NEW e, EvidenceAskable(e) PROVE SoundEvidence(e)
<1> DEFINE S == Range(e.first) \cup Range(e.second)
           all == Distinct(e.first \o e.second)
           before == Len(Distinct(e.first))
           second == SubSeq(all, before + 1, Len(all))
           accepted == Accepted(all, second, e.drivers, e.sector, e.fallback)
<1>1. e.first \in Seq(S) /\ e.second \in Seq(S)
  BY DEF EvidenceAskable
<1> HIDE DEF S
<1>2. e.first \o e.second \in Seq(S)
  BY <1>1, ConcatProperties
<1>3. all \in Seq(S) /\ OncePerKey(all)
  BY <1>2, DistinctIsOnce
<1>4. before \in Nat
  BY <1>1, DistinctIsOnce, LenProperties
<1> HIDE DEF all, before
<1>5. /\ second \in Seq(S)
      /\ \A k \in DOMAIN second : k + before \in DOMAIN all /\ second[k] = all[k + before]
      /\ \A k \in DOMAIN second : k \in Nat
  <2>1. Len(all) \in Nat /\ DOMAIN all = 1 .. Len(all)
    BY <1>3, LenProperties
  <2>2. CASE before + 1 <= Len(all)
    <3>1. /\ second \in Seq(S)
          /\ Len(second) = Len(all) - (before + 1) + 1
          /\ \A k \in 1 .. Len(all) - (before + 1) + 1 : second[k] = all[before + 1 + k - 1]
      BY <1>3, <1>4, <2>1, <2>2, SubSeqProperties
    <3>2. DOMAIN second = 1 .. Len(second)
      BY <3>1, LenProperties
    <3> QED BY <1>4, <2>1, <2>2, <3>1, <3>2
  <2>3. CASE ~ (before + 1 <= Len(all))
    <3>1. second = <<>>
      BY <1>3, <1>4, <2>1, <2>3
    <3> HIDE DEF second
    <3> QED BY <3>1
  <2> HIDE DEF second
  <2> QED BY <2>2, <2>3
<1> HIDE DEF second
<1>6. OncePerKey(second) /\ MadeOf(second, all)
  <2>1. \A i, j \in DOMAIN second : second[i].key = second[j].key => i = j
    BY <1>3, <1>4, <1>5 DEF OncePerKey
  <2>2. \A k \in DOMAIN second : \E i \in DOMAIN all : second[k] = all[i]
    BY <1>5
  <2> QED BY <2>1, <2>2 DEF OncePerKey, MadeOf
<1>7. e.drivers \in Seq(Range(e.drivers)) /\ e.sector \in Seq(Range(e.sector))
  BY DEF EvidenceAskable
<1>8. accepted \in Seq(S) /\ OncePerKey(accepted)
  BY <1>3, <1>5, <1>6, <1>7, AcceptedIsOnce
<1> HIDE DEF accepted
<1>9. AnswerLines(e.answer, {accepted[i].key : i \in DOMAIN accepted})
  <2>1. \A i \in DOMAIN accepted : accepted[i] \in S
    BY <1>8, ElementOfSeq
  <2>2. AnswerLines(e.answer, {r.key : r \in S})
    BY DEF EvidenceAskable, S
  <2> QED BY <2>1, <2>2 DEF AnswerLines
<1>10. EvidenceFrom(e, accepted)
  BY <1>8, <1>9, EvidenceStands DEF OncePerKey
<1>11. MarketEvidence(e) = accepted
  BY DEF MarketEvidence, AcceptedFrom, accepted, second, all, before
<1> QED BY <1>10, <1>11 DEF SoundEvidence

-----------------------------------------------------------------------------
(* Market analyses: the watchlist. *)

\* A function on the first numbers is a list as long.
LEMMA LenOfDomain ==
    ASSUME NEW n \in Nat, NEW f, f = [k \in 1 .. n |-> f[k]]
    PROVE  Len(f) = n /\ f \in Seq({f[k] : k \in 1 .. n})
<1> DEFINE T == {f[k] : k \in 1 .. n}
<1>1. f \in [1 .. n -> T] /\ DOMAIN f = 1 .. n
  OBVIOUS
<1> HIDE DEF T
<1>2. f \in Seq(T)
  BY <1>1, SeqDef
<1> QED BY <1>1, <1>2, LenProperties DEF T

\* What is said to be new exposure is neither held nor overlaps a holding.
LEMMA NewExposure ==
    ASSUME NEW q, SymbolsAreUnique(q), NEW c \in q.candidates,
           Mode(c, q.positions) = "new_exposure"
    PROVE  {p.symbol : p \in q.positions}
               \cap ({c.symbol} \cup CandidateOf(c.symbol, q.candidates).related) = {}
<1>1. CandidateOf(c.symbol, q.candidates) = c
  BY DEF CandidateOf, SymbolsAreUnique
<1>2. c.symbol \notin Held(q.positions) /\ c.related = {}
  BY DEF Mode
<1> QED BY <1>1, <1>2 DEF Held

\* Whatever the model writes, the watchlist read from it is controlled.
THEOREM ModelIsControlled ==
    ASSUME NEW q, SymbolsAreUnique(q), NEW S, NEW payload \in Seq(S)
    PROVE  LET list == ModelWatchlist(payload, q) IN
           list \in Seq({list[i] : i \in DOMAIN list}) /\ ListControlled(list, q)
<1> DEFINE m == IF Len(payload) < PayloadLimit THEN Len(payload) ELSE PayloadLimit
           read == SubSeq(payload, 1, m)
           places == {i \in DOMAIN read : ItemAccepted(read, i, q)}
           taken == Pick(read, places)
           list == [n \in DOMAIN taken |-> ItemTaken(taken[n], q)]
<1>1. ModelWatchlist(payload, q) = list
  BY DEF ModelWatchlist, ItemsTaken
<1>2. m \in 0 .. Len(payload) /\ Len(payload) \in Nat
  BY WatchlistAssumption
<1> HIDE DEF m
<1>3. read \in Seq(S)
  <2>1. \A k \in 1 .. m : payload[k] \in S
    BY <1>2
  <2> QED BY <1>2, <2>1, SubSeqProperties
<1> HIDE DEF read
<1>4. /\ Len(taken) = Cardinality(places) /\ DOMAIN taken = 1 .. Cardinality(places)
      /\ \A n \in DOMAIN taken : Nth(places, n) \in places /\ taken[n] = read[Nth(places, n)]
  <2>1. places \in SUBSET DOMAIN read
    OBVIOUS
  <2> HIDE DEF places
  <2> QED BY <1>3, <2>1, PickProperties
<1>5. Cardinality(places) \in 0 .. MaxSelected
  <2>1. places \in SUBSET (1 .. MaxSelected)
    BY <1>3 DEF ItemAccepted
  <2>2. IsFiniteSet(1 .. MaxSelected) /\ Cardinality(1 .. MaxSelected) = MaxSelected
    BY FS_Interval, WatchlistAssumption
  <2> HIDE DEF places
  <2>3. IsFiniteSet(places) /\ Cardinality(places) <= MaxSelected
    BY <2>1, <2>2, FS_Subset
  <2>4. Cardinality(places) \in Nat
    BY <2>3, FS_CardinalityType
  <2> QED BY <2>3, <2>4, WatchlistAssumption
<1>6. Len(list) <= MaxSelected /\ list \in Seq({list[i] : i \in DOMAIN list})
  <2> HIDE DEF taken, places
  <2>1. DOMAIN list = 1 .. Cardinality(places) /\ list = [n \in 1 .. Cardinality(places) |-> list[n]]
    BY <1>4
  <2> HIDE DEF list
  <2> QED BY <1>5, <2>1, LenOfDomain, WatchlistAssumption
<1>7. ASSUME NEW n \in DOMAIN list
      PROVE  ItemControlled(list[n], q)
  <2> DEFINE item == taken[n]
             i == Nth(places, n)
  <2>1. n \in DOMAIN taken
    BY <1>7
  <2>2. list[n] = ItemTaken(item, q)
    BY <2>1
  <2>3. i \in places /\ item = read[i]
    BY <1>4, <2>1
  <2> HIDE DEF taken, i, list
  <2>4. ItemAccepted(read, i, q)
    BY <2>3
  <2> HIDE DEF item
  <2>5. Known(item, q.candidates) /\ item.citations \cap {r.citation : r \in q.rows} # {}
        /\ item.mode = Mode(CandidateOf(item.symbol, q.candidates), q.positions)
    BY <2>3, <2>4 DEF ItemAccepted
  <2> DEFINE c == CandidateOf(item.symbol, q.candidates)
  <2>6. c \in q.candidates /\ c.symbol = item.symbol
    BY <2>5 DEF Known, CandidateOf
  <2>7. /\ list[n].symbol = item.symbol
        /\ list[n].citations = item.citations \cap {r.citation : r \in q.rows}
        /\ list[n].dca => item.mode = "new_exposure"
    <3> DEFINE kept == item.citations \cap {r.citation : r \in q.rows}
               dca == item.mode = "new_exposure" /\ item.dca
    <3>1. list[n] = [symbol |-> item.symbol, mode |-> item.mode, citations |-> kept, dca |-> dca]
      BY <2>2 DEF ItemTaken
    <3>2. dca => item.mode = "new_exposure"
      OBVIOUS
    <3> HIDE DEF kept, dca
    <3>3. list[n].symbol = item.symbol /\ list[n].citations = kept /\ list[n].dca = dca
      BY <3>1
    <3> QED BY <3>2, <3>3 DEF kept
  <2> HIDE DEF c
  <2>8. list[n].dca => {p.symbol : p \in q.positions}
            \cap ({list[n].symbol} \cup CandidateOf(list[n].symbol, q.candidates).related) = {}
    <3> SUFFICES ASSUME list[n].dca
                 PROVE  {p.symbol : p \in q.positions} \cap ({list[n].symbol}
                            \cup CandidateOf(list[n].symbol, q.candidates).related) = {}
      OBVIOUS
    <3>1. Mode(c, q.positions) = "new_exposure"
      BY <2>5, <2>7 DEF c
    <3> QED BY <2>6, <2>7, <3>1, NewExposure
  <2>9. Known(list[n], q.candidates)
    BY <2>5, <2>7 DEF Known
  <2> QED BY <2>5, <2>7, <2>8, <2>9 DEF ItemControlled
<1> HIDE DEF list
<1> QED BY <1>1, <1>6, <1>7 DEF ListControlled

\* The fixed watchlist is controlled if its ranking passes the audit, whoever words it.
THEOREM FixedIsControlled ==
    ASSUME NEW q, SymbolsAreUnique(q), NEW S, NEW decisions \in Seq(S), NEW words,
           AuditPasses(decisions, q)
    PROVE  ListControlled(FixedBy(decisions, words), q)
<1> DEFINE list == FixedBy(decisions, words)
<1>1. DOMAIN decisions = 1 .. Len(decisions) /\ Len(decisions) \in 0 .. MaxSelected
  BY WatchlistAssumption DEF AuditPasses
<1>2. /\ list = [i \in DOMAIN decisions |-> list[i]]
      /\ \A i \in DOMAIN decisions :
            /\ list[i].symbol = decisions[i].symbol
            /\ list[i].citations = decisions[i].citations
            /\ list[i].dca = decisions[i].dca
  BY DEF FixedBy
<1> HIDE DEF list
<1>3. Len(list) = Len(decisions) /\ DOMAIN list = DOMAIN decisions
  BY <1>1, <1>2, LenOfDomain
<1>4. ASSUME NEW i \in DOMAIN decisions
      PROVE  ItemControlled(list[i], q)
  <2>1. PICK c \in q.candidates :
            /\ c.symbol = decisions[i].symbol
            /\ decisions[i].citations # {}
            /\ decisions[i].citations \subseteq {r.citation : r \in q.rows}
            /\ decisions[i].mode = Mode(c, q.positions)
            /\ decisions[i].mode # "new_exposure" => ~ decisions[i].dca
    BY DEF AuditPasses
  <2>2. list[i].dca => {p.symbol : p \in q.positions}
            \cap ({list[i].symbol} \cup CandidateOf(list[i].symbol, q.candidates).related) = {}
    <3> SUFFICES ASSUME list[i].dca
                 PROVE  {p.symbol : p \in q.positions} \cap ({list[i].symbol}
                            \cup CandidateOf(list[i].symbol, q.candidates).related) = {}
      OBVIOUS
    <3>1. Mode(c, q.positions) = "new_exposure" /\ list[i].symbol = c.symbol
      BY <1>2, <2>1
    <3> QED BY <3>1, NewExposure
  <2>3. Known(list[i], q.candidates)
    BY <1>2, <2>1 DEF Known
  <2> QED BY <1>2, <2>1, <2>2, <2>3 DEF ItemControlled
<1>5. Len(list) <= MaxSelected
  BY <1>1, <1>3, WatchlistAssumption
<1> QED BY <1>3, <1>4, <1>5 DEF ListControlled, list

-----------------------------------------------------------------------------
(* The ranking and selection of funds. *)

\* Of two funds one is ahead.
LEMMA AheadIsAnOrder ==
    ASSUME NEW E, NEW scores, Ordered(E, scores), NEW c \in E, NEW d \in E
    PROVE  /\ ~ Ahead(c, c, scores)
           /\ c # d => Ahead(c, d, scores) \/ Ahead(d, c, scores)
           /\ ~ (Ahead(c, d, scores) /\ Ahead(d, c, scores))
           /\ \A e \in E : Ahead(c, d, scores) /\ Ahead(d, e, scores) => Ahead(c, e, scores)
<1> DEFINE A == [x \in E |-> scores[x]]
           B == [x \in E |-> SymbolRank[x.symbol]]
<1>1. \A x, y \in E : Ahead(x, y, scores) <=> A[x] > A[y] \/ (A[x] = A[y] /\ B[x] < B[y])
  BY DEF Ahead
<1>2. \A x \in E : A[x] \in Int /\ B[x] \in Int
  BY DEF Ordered
<1>3. \A x, y \in E : B[x] = B[y] => x = y
  BY DEF Ordered
<1> HIDE DEF A, B
<1>4. ~ Ahead(c, c, scores)
  BY <1>1, <1>2
<1>5. c # d => Ahead(c, d, scores) \/ Ahead(d, c, scores)
  BY <1>1, <1>2, <1>3
<1>6. ~ (Ahead(c, d, scores) /\ Ahead(d, c, scores))
  BY <1>1, <1>2
<1>7. ASSUME NEW e \in E, Ahead(c, d, scores), Ahead(d, e, scores) PROVE Ahead(c, e, scores)
  BY <1>1, <1>2, <1>7
<1> QED BY <1>4, <1>5, <1>6, <1>7

\* The ranking has every fund once, each ahead of those after it.
LEMMA RankedProperties ==
    ASSUME NEW E, NEW scores, Ordered(E, scores)
    PROVE  LET ranking == Ranked(E, scores) IN
           /\ ranking \in Seq(E)
           /\ \A i, j \in DOMAIN ranking : i < j => Ahead(ranking[i], ranking[j], scores)
           /\ \A c \in E : \E i \in DOMAIN ranking : ranking[i] = c
<1> DEFINE before == {p \in E \X E : Ahead(p[1], p[2], scores)}
           ranking == Sorted(E, before)
<1>1. \A c, d \in E : <<c, d>> \in before <=> Ahead(c, d, scores)
  OBVIOUS
<1>2. Ranked(E, scores) = ranking
  BY DEF Ranked
<1> HIDE DEF before
<1>3. IsFiniteSet(E) /\ StrictOrder(E, before)
  BY <1>1, AheadIsAnOrder DEF StrictOrder, Ordered
<1>4. /\ ranking \in Seq(E)
      /\ \A i, j \in DOMAIN ranking : i < j => <<ranking[i], ranking[j]>> \in before
      /\ \A c \in E : \E i \in DOMAIN ranking : ranking[i] = c
  BY <1>3, SortedProperties
<1> HIDE DEF ranking
<1>5. \A i \in DOMAIN ranking : ranking[i] \in E
  BY <1>4, ElementOfSeq
<1>6. \A i, j \in DOMAIN ranking : i < j => Ahead(ranking[i], ranking[j], scores)
  BY <1>1, <1>4, <1>5
<1> QED BY <1>2, <1>4, <1>6

\* Of the funds of an exposure the ranking has a first one.
LEMMA FirstOfExposureExists ==
    ASSUME NEW S, NEW ranking \in Seq(S), NEW i \in DOMAIN ranking
    PROVE  \E j \in FirstOfExposure(ranking) :
               j <= i /\ ranking[j].exposure = ranking[i].exposure
<1> DEFINE same == {j \in DOMAIN ranking : ranking[j].exposure = ranking[i].exposure}
<1>1. DOMAIN ranking = 1 .. Len(ranking) /\ Len(ranking) \in Nat
  OBVIOUS
<1>2. same \in SUBSET Int /\ i \in same /\ IsFiniteSet(same)
  <2>1. IsFiniteSet(1 .. Len(ranking)) /\ same \in SUBSET (1 .. Len(ranking))
    BY FS_Interval
  <2> QED BY <1>1, <2>1, FS_Subset
<1> HIDE DEF same
<1>3. PICK j \in same : \A k \in same : j <= k
  BY <1>2, SmallestExists
<1>4. j \in DOMAIN ranking /\ ranking[j].exposure = ranking[i].exposure
  BY DEF same
<1>5. ASSUME NEW k \in 1 .. (j - 1) PROVE ranking[k].exposure # ranking[j].exposure
  <2>1. k \in DOMAIN ranking /\ ~ (j <= k)
    BY <1>1, <1>4
  <2> QED BY <1>3, <1>4, <2>1 DEF same
<1> QED BY <1>2, <1>3, <1>4, <1>5 DEF FirstOfExposure

\* What is selected from a ranking, by the places: funds of different exposures in their order,
\* and a place passed over has its exposure selected before it or comes after enough of them.
LEMMA SelectionPlaces ==
    ASSUME NEW S, NEW ranking \in Seq(S)
    PROVE  LET selected == Selection(ranking) IN
           /\ selected \in Seq(S) /\ Len(selected) \in 0 .. MaxSelected
           /\ \A k, l \in DOMAIN selected :
                 selected[k].exposure = selected[l].exposure => k = l
           /\ \E at :
                /\ \A k \in DOMAIN selected :
                      at[k] \in DOMAIN ranking /\ selected[k] = ranking[at[k]]
                /\ \A k, l \in DOMAIN selected : k < l => at[k] < at[l]
                /\ \A i \in DOMAIN ranking :
                      \/ \E k \in DOMAIN selected :
                            /\ at[k] <= i
                            /\ ranking[at[k]].exposure = ranking[i].exposure
                      \/ Len(selected) = MaxSelected /\ \A k \in DOMAIN selected : at[k] < i
<1> DEFINE I == FirstOfExposure(ranking)
           n == Cardinality(I)
           m == Between(n, 0, MaxSelected)
           firsts == Pick(ranking, I)
           selected == Selection(ranking)
           at == [k \in 1 .. m |-> Nth(I, k)]
<1>1. /\ I \in SUBSET DOMAIN ranking /\ DOMAIN ranking = 1 .. Len(ranking)
      /\ Len(ranking) \in Nat
  BY DEF FirstOfExposure
<1>2. I \in SUBSET Int /\ IsFiniteSet(I) /\ n \in Nat
  <2> HIDE DEF I
  <2>1. IsFiniteSet(1 .. Len(ranking))
    BY <1>1, FS_Interval
  <2>2. I \in SUBSET Int /\ IsFiniteSet(I)
    BY <1>1, <2>1, FS_Subset
  <2> QED BY <2>2, FS_CardinalityType
<1>3. /\ firsts \in Seq(S) /\ Len(firsts) = n
      /\ \A k \in 1 .. n : firsts[k] = ranking[Nth(I, k)]
  <2> HIDE DEF I
  <2> QED BY <1>1, PickProperties
<1>4. selected = SubSeq(firsts, 1, m)
  <2>1. Len(firsts) = n
    BY <1>3
  <2> QED BY <2>1 DEF Selection
<1> HIDE DEF I, firsts, selected
<1>5. ASSUME NEW i \in DOMAIN ranking
      PROVE  \E k \in 1 .. n : Nth(I, k) <= i /\ ranking[Nth(I, k)].exposure = ranking[i].exposure
  <2>1. PICK j \in I : j <= i /\ ranking[j].exposure = ranking[i].exposure
    BY FirstOfExposureExists DEF I
  <2>2. PICK k \in 1 .. n : Nth(I, k) = j
    BY <1>2, NthOf
  <2> QED BY <2>1, <2>2
<1>6. \A k \in 1 .. n : Nth(I, k) \in I
  BY <1>2, NthProperties
<1>7. \A k, l \in 1 .. n : k < l => Nth(I, k) < Nth(I, l)
  BY <1>2, NthIncreases
<1>8. m \in 0 .. n /\ m <= MaxSelected /\ (m = n \/ m = MaxSelected)
  <2> HIDE DEF n
  <2> QED BY <1>2, WatchlistAssumption DEF Between
<1> HIDE DEF n, m
<1>9. /\ selected \in Seq(S) /\ Len(selected) = m /\ DOMAIN selected = 1 .. m
      /\ \A k \in 1 .. m : selected[k] = firsts[k]
  BY <1>2, <1>3, <1>4, <1>8
<1>10. \A k \in 1 .. m : k \in 1 .. n /\ at[k] = Nth(I, k)
  BY <1>2, <1>8
<1> HIDE DEF at
<1>11. \A k \in 1 .. m : at[k] \in DOMAIN ranking /\ selected[k] = ranking[at[k]]
  BY <1>1, <1>3, <1>6, <1>9, <1>10
<1>12. \A k, l \in 1 .. m : k < l => at[k] < at[l]
  BY <1>7, <1>10
<1>13. ASSUME NEW i \in DOMAIN ranking,
              ~ \E k \in 1 .. m : at[k] <= i /\ ranking[at[k]].exposure = ranking[i].exposure
       PROVE  m = MaxSelected /\ \A k \in 1 .. m : at[k] < i
  <2>1. PICK l \in 1 .. n : Nth(I, l) <= i /\ ranking[Nth(I, l)].exposure = ranking[i].exposure
    BY <1>5
  <2>2. l \notin 1 .. m
    BY <1>10, <1>13, <2>1
  <2>3. l \in Int /\ m < l /\ m = MaxSelected
    BY <1>2, <1>8, <2>2
  <2>4. ASSUME NEW k \in 1 .. m PROVE at[k] < i
    <3>1. k \in 1 .. n /\ k < l /\ at[k] = Nth(I, k)
      BY <1>8, <1>10, <2>3
    <3>2. Nth(I, k) < Nth(I, l) /\ Nth(I, k) \in Int /\ Nth(I, l) \in Int /\ i \in Int
      BY <1>1, <1>2, <1>6, <1>7, <3>1
    <3> QED BY <2>1, <3>1, <3>2
  <2> QED BY <2>3, <2>4
<1>14. /\ \A k \in DOMAIN selected :
              at[k] \in DOMAIN ranking /\ selected[k] = ranking[at[k]]
       /\ \A k, l \in DOMAIN selected : k < l => at[k] < at[l]
       /\ \A i \in DOMAIN ranking :
              \/ \E k \in DOMAIN selected :
                    /\ at[k] <= i
                    /\ ranking[at[k]].exposure = ranking[i].exposure
              \/ Len(selected) = MaxSelected /\ \A k \in DOMAIN selected : at[k] < i
  BY <1>9, <1>11, <1>12, <1>13
<1>15. selected \in Seq(S) /\ Len(selected) \in 0 .. MaxSelected
  BY <1>2, <1>8, <1>9, WatchlistAssumption
<1>16. ASSUME NEW k \in 1 .. m, NEW l \in 1 .. m, k < l
       PROVE  selected[k].exposure # selected[l].exposure
  <2>1. at[k] \in I /\ at[l] \in I /\ at[k] < at[l]
    BY <1>6, <1>10, <1>12, <1>16
  <2>2. at[k] \in 1 .. (at[l] - 1)
    BY <1>1, <2>1
  <2> QED BY <1>11, <2>1, <2>2 DEF I, FirstOfExposure
<1>17. \A k, l \in DOMAIN selected : selected[k].exposure = selected[l].exposure => k = l
  <2> SUFFICES ASSUME NEW k \in 1 .. m, NEW l \in 1 .. m,
                      selected[k].exposure = selected[l].exposure
               PROVE  k = l
    BY <1>9
  <2>1. k \in Int /\ l \in Int
    BY <1>2, <1>8
  <2> QED BY <1>16, <2>1
<1> QED BY <1>14, <1>15, <1>17 DEF selected

\* The fixed ranking passes its audit and stands, whatever the funds, the holdings, the evidence
\* and the scores.
THEOREM SelectionIsSound ==
    ASSUME NEW q, NEW scores, Askable(q, scores)
    PROVE  SelectionBy(q, scores) /\ EtfDecisionsBy(q, scores)
                                       \in Seq({EtfDecisionsBy(q, scores)[i] :
                                                    i \in DOMAIN EtfDecisionsBy(q, scores)})
<1> DEFINE E == {c \in q.candidates : Eligible(c, q, scores)}
           ranking == Ranking(q, scores)
           selected == Selection(ranking)
           decisions == EtfDecisionsBy(q, scores)
<1>1. Ordered(E, scores)
  <2>1. IsFiniteSet(q.candidates) /\ E \in SUBSET q.candidates
    BY DEF Askable, Ordered
  <2>2. IsFiniteSet(E)
    BY <2>1, FS_Subset
  <2> QED BY <2>2 DEF Askable, Ordered
<1>2. /\ ranking \in Seq(E)
      /\ \A i, j \in DOMAIN ranking : i < j => Ahead(ranking[i], ranking[j], scores)
      /\ \A c \in E : \E i \in DOMAIN ranking : ranking[i] = c
  <2>1. ranking = Ranked(E, scores)
    BY DEF Ranking
  <2> HIDE DEF E, ranking
  <2> QED BY <1>1, <2>1, RankedProperties
<1>3. \A c \in E : c \in q.candidates /\ Eligible(c, q, scores)
  OBVIOUS
<1>4. \A c \in q.candidates : Eligible(c, q, scores) => c \in E
  OBVIOUS
<1>5. decisions = DecidedOn(selected, q, scores)
  BY DEF EtfDecisionsBy
<1> HIDE DEF E, ranking
<1>6. /\ selected \in Seq(E) /\ Len(selected) \in 0 .. MaxSelected
      /\ \A k, l \in DOMAIN selected : selected[k].exposure = selected[l].exposure => k = l
      /\ \E at :
            /\ \A k \in DOMAIN selected :
                  at[k] \in DOMAIN ranking /\ selected[k] = ranking[at[k]]
            /\ \A k, l \in DOMAIN selected : k < l => at[k] < at[l]
            /\ \A i \in DOMAIN ranking :
                  \/ \E k \in DOMAIN selected :
                        /\ at[k] <= i
                        /\ ranking[at[k]].exposure = ranking[i].exposure
                  \/ Len(selected) = MaxSelected /\ \A k \in DOMAIN selected : at[k] < i
  BY <1>2, SelectionPlaces
<1> HIDE DEF selected, decisions
<1>7. PICK at :
         /\ \A k \in DOMAIN selected :
               at[k] \in DOMAIN ranking /\ selected[k] = ranking[at[k]]
         /\ \A k, l \in DOMAIN selected : k < l => at[k] < at[l]
         /\ \A i \in DOMAIN ranking :
               \/ \E k \in DOMAIN selected :
                     /\ at[k] <= i
                     /\ ranking[at[k]].exposure = ranking[i].exposure
               \/ Len(selected) = MaxSelected /\ \A k \in DOMAIN selected : at[k] < i
  BY <1>6
<1>8. /\ DOMAIN selected = 1 .. Len(selected) /\ Len(selected) \in Nat
      /\ \A k \in DOMAIN selected : selected[k] \in E
  BY <1>6
<1>9. /\ DOMAIN decisions = 1 .. Len(selected)
      /\ decisions = [k \in 1 .. Len(selected) |-> decisions[k]]
      /\ \A k \in 1 .. Len(selected) :
            decisions[k] = EtfDecision(selected[k], q, k, scores[selected[k]])
  BY <1>5, <1>8 DEF DecidedOn
<1>10. Len(decisions) = Len(selected)
       /\ decisions \in Seq({decisions[k] : k \in 1 .. Len(selected)})
  BY <1>8, <1>9, LenOfDomain
<1>11. ASSUME NEW k \in 1 .. Len(selected)
       PROVE  /\ decisions[k].symbol = selected[k].symbol
              /\ decisions[k].rank = k
              /\ decisions[k].score = scores[selected[k]]
              /\ decisions[k].mode = Mode(selected[k], q.positions)
              /\ decisions[k].citations = Citations(selected[k], q.candidates, q.rows)
              /\ decisions[k].dca => decisions[k].mode = "new_exposure"
  <2>1. DcaSuitable(selected[k], q, scores[selected[k]])
            => Mode(selected[k], q.positions) = "new_exposure"
    BY DEF DcaSuitable
  <2> QED BY <1>9, <2>1 DEF EtfDecision
<1>12. ASSUME NEW k \in 1 .. Len(selected), NEW l \in 1 .. Len(selected), k < l
       PROVE  Ahead(selected[k], selected[l], scores)
  BY <1>2, <1>7, <1>8, <1>12
<1>13. ASSUME NEW k \in 1 .. Len(selected), NEW l \in 1 .. Len(selected),
              selected[k] = selected[l]
       PROVE  k = l
  <2>1. ~ Ahead(selected[k], selected[l], scores) /\ ~ Ahead(selected[l], selected[k], scores)
    BY <1>1, <1>8, <1>13, AheadIsAnOrder
  <2>2. ~ (k < l) /\ ~ (l < k)
    BY <1>12, <2>1
  <2> QED BY <1>8, <2>2
<1>14. \A c, d \in q.candidates : c.symbol = d.symbol => c = d
  BY DEF Askable, SymbolsAreUnique
<1>15. AuditPasses(decisions, q)
  <2>1. Len(decisions) <= MaxSelected
    BY <1>6, <1>10
  <2>2. \A k, l \in DOMAIN decisions : decisions[k].symbol = decisions[l].symbol => k = l
    BY <1>3, <1>8, <1>9, <1>11, <1>13, <1>14
  <2>3. \A k \in DOMAIN decisions : decisions[k].rank = k
    BY <1>9, <1>11
  <2>4. ASSUME NEW k \in DOMAIN decisions, NEW l \in DOMAIN decisions, k < l
        PROVE  \/ decisions[k].score > decisions[l].score
               \/ /\ decisions[k].score = decisions[l].score
                  /\ SymbolRank[decisions[k].symbol] < SymbolRank[decisions[l].symbol]
    <3>1. Ahead(selected[k], selected[l], scores)
      BY <1>9, <1>12, <2>4
    <3> QED BY <1>9, <1>11, <3>1 DEF Ahead
  <2>5. ASSUME NEW k \in DOMAIN decisions
        PROVE  \E c \in q.candidates :
                 /\ c.symbol = decisions[k].symbol
                 /\ decisions[k].score >= MinimumScore
                 /\ decisions[k].citations # {}
                 /\ decisions[k].citations \subseteq {r.citation : r \in q.rows}
                 /\ decisions[k].mode = Mode(c, q.positions)
                 /\ decisions[k].mode # "new_exposure" => ~ decisions[k].dca
    <3>1. selected[k] \in q.candidates /\ Eligible(selected[k], q, scores)
      BY <1>3, <1>8, <1>9
    <3>2. /\ scores[selected[k]] >= MinimumScore
          /\ Citations(selected[k], q.candidates, q.rows) # {}
          /\ Citations(selected[k], q.candidates, q.rows) \subseteq {r.citation : r \in q.rows}
      BY <3>1 DEF Eligible, Citations, Matched
    <3> QED BY <1>9, <1>11, <3>1, <3>2
  <2> QED BY <2>1, <2>2, <2>3, <2>4, <2>5 DEF AuditPasses
<1> DEFINE kept == {c \in q.candidates :
                       \E i \in DOMAIN decisions : decisions[i].symbol = c.symbol}
<1>16. kept = {selected[k] : k \in 1 .. Len(selected)}
  BY <1>3, <1>8, <1>9, <1>11, <1>14
<1> HIDE DEF kept
<1>17. Cardinality(kept) = Len(selected)
  <2>1. IsFiniteSet(1 .. Len(selected)) /\ Cardinality(1 .. Len(selected)) = Len(selected)
    BY <1>8, FS_Interval
  <2>2. \A k, l \in 1 .. Len(selected) : selected[k] = selected[l] => k = l
    BY <1>13
  <2> QED BY <1>16, <2>1, <2>2, ValuesAreAsMany
<1>18. SelectionStands(q, scores, kept)
  <2>1. ASSUME NEW c \in q.candidates \ kept, Eligible(c, q, scores)
        PROVE  \/ \E d \in kept : d.exposure = c.exposure /\ Ahead(d, c, scores)
               \/ Cardinality(kept) = MaxSelected /\ \A d \in kept : Ahead(d, c, scores)
    <3>1. PICK i \in DOMAIN ranking : ranking[i] = c
      BY <1>2, <1>4, <2>1
    <3>2. ASSUME NEW k \in 1 .. Len(selected), at[k] <= i
          PROVE  Ahead(selected[k], c, scores)
      <4>1. at[k] \in DOMAIN ranking /\ selected[k] = ranking[at[k]]
        BY <1>7, <1>8
      <4>2. at[k] # i
        BY <1>16, <2>1, <3>1, <4>1
      <4>3. at[k] \in Int /\ i \in Int
        BY <1>2, <4>1
      <4>4. at[k] < i
        BY <3>2, <4>2, <4>3
      <4> QED BY <1>2, <3>1, <4>1, <4>4
    <3>3. CASE \E k \in DOMAIN selected :
                  at[k] <= i /\ ranking[at[k]].exposure = ranking[i].exposure
      BY <1>7, <1>8, <1>16, <3>1, <3>2, <3>3
    <3>4. CASE Len(selected) = MaxSelected /\ \A k \in DOMAIN selected : at[k] < i
      <4>1. ASSUME NEW k \in 1 .. Len(selected) PROVE at[k] <= i
        <5>1. at[k] \in DOMAIN ranking /\ at[k] < i
          BY <1>7, <1>8, <3>4
        <5>2. at[k] \in Int /\ i \in Int
          BY <1>2, <5>1
        <5> QED BY <5>1, <5>2
      <4> QED BY <1>16, <1>17, <3>2, <3>4, <4>1
    <3> QED BY <1>7, <3>3, <3>4
  <2>2. ASSUME NEW c \in kept, Peers(c, q.candidates) > 1
        PROVE  \E r \in q.rows : r.about = c.symbol
    <3>1. Eligible(c, q, scores)
      BY <1>3, <1>8, <1>16
    <3>2. PICK r \in q.rows : Matches(r, c, q.candidates)
      BY <3>1 DEF Eligible, Matched
    <3>3. Peers(c, q.candidates) # 1
      BY <2>2
    <3> QED BY <3>2, <3>3 DEF Matches
  <2>3. \A c, d \in kept : c.exposure = d.exposure => c = d
    BY <1>6, <1>8, <1>16
  <2> QED BY <2>1, <2>2, <2>3 DEF SelectionStands
<1>19. SelectionBy(q, scores)
  BY <1>15, <1>18 DEF SelectionBy, SelectionPasses, kept, decisions
<1> QED BY <1>9, <1>10, <1>19 DEF decisions

\* The fixed watchlist is controlled, whatever the funds are scored and whoever words it.
THEOREM FixedWatchlistIsControlled ==
    ASSUME NEW q, NEW scores, Askable(q, scores), NEW words
    PROVE  ListControlled(FixedBy(EtfDecisionsBy(q, scores), words), q)
<1>1. AuditPasses(EtfDecisionsBy(q, scores), q)
  BY SelectionIsSound DEF SelectionBy, SelectionPasses
<1>2. SymbolsAreUnique(q)
  BY DEF Askable
<1> QED BY <1>1, <1>2, SelectionIsSound, FixedIsControlled

-----------------------------------------------------------------------------
(* Market analyses: the amounts of a watchlist. *)

\* What a row shows: a suitable one the share of the last suitable row of its symbol, any other one
\* nothing unless a suitable row has its symbol.
LEMMA AmountOfRow ==
    ASSUME NEW S, NEW list \in Seq(S), NEW dollars \in Nat
    PROVE  LET E == SuitableRows(list)
               n == Cardinality(E)
               amounts == RowAmounts(list, dollars) IN
           /\ dollars > 0 =>
                 \A k \in 1 .. n : \E j \in k .. n :
                    /\ amounts[Nth(E, k)] = BudgetShare(j, n, dollars)
                    /\ list[Nth(E, j)].symbol = list[Nth(E, k)].symbol
           /\ dollars = 0 => \A k \in 1 .. n : amounts[Nth(E, k)] = 0
           /\ \A i \in DOMAIN list \ E :
                 (\A j \in E : list[j].symbol # list[i].symbol) => amounts[i] = 0
<1> DEFINE E == SuitableRows(list)
           n == Cardinality(E)
           amounts == RowAmounts(list, dollars)
           suitable == Pick(list, E)
           LatestOf(s) == {i \in DOMAIN suitable : /\ suitable[i].symbol = s
                                                 /\ \A j \in DOMAIN suitable :
                                                       suitable[j].symbol = s => j <= i}
<1>1. E \in SUBSET DOMAIN list
  BY DEF SuitableRows
<1>2. \A i \in DOMAIN list :
         amounts[i] = IF dollars > 0 /\ LatestOf(list[i].symbol) # {}
                      THEN BudgetShare(CHOOSE j \in LatestOf(list[i].symbol) : TRUE, Len(suitable),
                                       dollars)
                      ELSE 0
  BY DEF RowAmounts
<1> HIDE DEF E, amounts
<1>3. /\ Len(suitable) = n /\ DOMAIN suitable = 1 .. n
      /\ \A k \in DOMAIN suitable : Nth(E, k) \in E /\ suitable[k] = list[Nth(E, k)]
  BY <1>1, PickProperties
<1>4. Len(suitable) \in Nat
  BY <1>1, PickProperties, LenProperties
<1> HIDE DEF suitable
<1>5. ASSUME NEW k \in 1 .. n, dollars > 0
      PROVE  \E j \in k .. n : /\ amounts[Nth(E, k)] = BudgetShare(j, n, dollars)
                               /\ list[Nth(E, j)].symbol = list[Nth(E, k)].symbol
  <2> DEFINE s == list[Nth(E, k)].symbol
             J == {j \in DOMAIN suitable : suitable[j].symbol = s}
             j == CHOOSE i \in LatestOf(s) : TRUE
  <2>1. k \in J
    BY <1>3
  <2>2. IsFiniteSet(J) /\ J \in SUBSET Int
    <3>1. \A m \in Nat : IsFiniteSet(1 .. m)
      BY FS_Interval
    <3>2. IsFiniteSet(1 .. n) /\ J \in SUBSET (1 .. n)
      BY <1>3, <1>4, <3>1
    <3> HIDE DEF J
    <3>3. IsFiniteSet(J)
      BY <3>2, FS_Subset
    <3> QED BY <3>2, <3>3
  <2>3. \E l \in J : \A i \in J : i <= l
    <3> HIDE DEF J
    <3> QED BY <2>1, <2>2, LargestExists
  <2>4. LatestOf(s) # {}
    BY <2>3
  <2>5. j \in LatestOf(s)
    BY <2>4
  <2>6. j \in 1 .. n /\ suitable[j].symbol = s /\ k <= j
    <3> HIDE DEF j
    <3> QED BY <1>3, <2>1, <2>5
  <2>7. Nth(E, k) \in DOMAIN list
    BY <1>1, <1>3
  <2>8. amounts[Nth(E, k)] = BudgetShare(j, n, dollars)
    BY <1>2, <1>3, <1>5, <2>4, <2>7
  <2> HIDE DEF j
  <2>9. j \in k .. n /\ list[Nth(E, j)].symbol = s
    BY <1>3, <1>4, <2>6
  <2> QED BY <2>8, <2>9
<1>6. ASSUME dollars = 0, NEW k \in 1 .. n PROVE amounts[Nth(E, k)] = 0
  <2>1. Nth(E, k) \in DOMAIN list /\ ~ (dollars > 0)
    BY <1>1, <1>3, <1>6
  <2> QED BY <1>2, <2>1
<1>7. ASSUME NEW i \in DOMAIN list \ E, \A j \in E : list[j].symbol # list[i].symbol
      PROVE  amounts[i] = 0
  <2>1. LatestOf(list[i].symbol) = {}
    BY <1>3, <1>7
  <2> QED BY <1>2, <2>1
<1> QED BY <1>5, <1>6, <1>7 DEF E, amounts

\* The suitable rows of a list never show more than the budget; if every fund is listed once, they
\* show all of it, and no other row shows anything.
THEOREM BudgetIsKept ==
    ASSUME NEW S, NEW list \in Seq(S), NEW dollars \in Nat, NEW engine,
           engine = "deterministic"
              => \A i, j \in DOMAIN list : list[i].symbol = list[j].symbol => i = j
    PROVE  WatchlistKeeps(engine, list, dollars)
<1> DEFINE E == SuitableRows(list)
           n == Cardinality(E)
           amounts == RowAmounts(list, dollars)
           none == dollars = 0 \/ n = 0
           base == IF none THEN 0 ELSE dollars \div n
           rest == IF none THEN 0 ELSE dollars % n
           once == \A i, j \in DOMAIN list : list[i].symbol = list[j].symbol => i = j
<1>1. E \in SUBSET DOMAIN list
  BY DEF SuitableRows
<1>2. E \in SUBSET Int /\ IsFiniteSet(E)
  <2>1. \A m \in Nat : IsFiniteSet(1 .. m)
    BY FS_Interval
  <2>2. Len(list) \in Nat /\ DOMAIN list = 1 .. Len(list)
    BY LenProperties
  <2> HIDE DEF E
  <2>3. IsFiniteSet(1 .. Len(list)) /\ E \in SUBSET (1 .. Len(list))
    BY <1>1, <2>1, <2>2
  <2>4. IsFiniteSet(E)
    BY <2>3, FS_Subset
  <2> QED BY <2>3, <2>4
<1>3. /\ dollars > 0 =>
            \A k \in 1 .. n : \E j \in k .. n :
               /\ amounts[Nth(E, k)] = BudgetShare(j, n, dollars)
               /\ list[Nth(E, j)].symbol = list[Nth(E, k)].symbol
      /\ dollars = 0 => \A k \in 1 .. n : amounts[Nth(E, k)] = 0
      /\ \A i \in DOMAIN list \ E :
            (\A j \in E : list[j].symbol # list[i].symbol) => amounts[i] = 0
  BY AmountOfRow
<1> HIDE DEF E, amounts
<1>4. n \in Nat
  BY <1>2, FS_CardinalityType
<1>5. \A k \in 1 .. n : Nth(E, k) \in E
  BY <1>2, NthProperties
<1>6. \A k, l \in 1 .. n : Nth(E, k) = Nth(E, l) => k = l
  BY <1>2, NthInjective
<1> HIDE DEF n
<1>7. /\ base \in Nat /\ rest \in 0 .. n
      /\ ~ none => n * base + rest = dollars
      /\ n * base + rest <= dollars
  <2>1. CASE none
    BY <1>4, <2>1
  <2>2. CASE ~ none
    <3>1. /\ dollars = n * (dollars \div n) + (dollars % n)
          /\ dollars \div n \in Nat /\ dollars % n \in 0 .. n - 1
      BY <1>4, <2>2
    <3> QED BY <1>4, <2>2, <3>1
  <2> QED BY <2>1, <2>2
<1>8. \A j \in 1 .. n : dollars > 0 =>
         BudgetShare(j, n, dollars) = base + (IF j <= rest THEN 1 ELSE 0)
  BY <1>4 DEF BudgetShare
<1> HIDE DEF base, rest
<1>9. \A k \in 1 .. n :
         /\ amounts[Nth(E, k)] \in Int
         /\ amounts[Nth(E, k)] <= base + (IF k <= rest THEN 1 ELSE 0)
         /\ once /\ dollars > 0 => amounts[Nth(E, k)] = base + (IF k <= rest THEN 1 ELSE 0)
  <2> SUFFICES ASSUME NEW k \in 1 .. n
               PROVE  /\ amounts[Nth(E, k)] \in Int
                      /\ amounts[Nth(E, k)] <= base + (IF k <= rest THEN 1 ELSE 0)
                      /\ once /\ dollars > 0 =>
                            amounts[Nth(E, k)] = base + (IF k <= rest THEN 1 ELSE 0)
    OBVIOUS
  <2>1. CASE dollars = 0
    BY <1>3, <1>7, <2>1
  <2>2. CASE dollars > 0
    <3>1. PICK j \in k .. n : /\ amounts[Nth(E, k)] = BudgetShare(j, n, dollars)
                              /\ list[Nth(E, j)].symbol = list[Nth(E, k)].symbol
      BY <1>3, <2>2
    <3>2. j \in 1 .. n /\ k <= j
      BY <1>4
    <3>3. amounts[Nth(E, k)] = base + (IF j <= rest THEN 1 ELSE 0)
      BY <1>8, <2>2, <3>1, <3>2
    <3>4. once => j = k
      BY <1>1, <1>5, <1>6, <3>1, <3>2
    <3> HIDE DEF once
    <3> QED BY <1>4, <1>7, <3>2, <3>3, <3>4
  <2> QED BY <2>1, <2>2
<1>10. /\ AddUp(E, amounts) <= n * base + rest /\ AddUp(E, amounts) \in Int
       /\ (\A k \in 1 .. n : amounts[Nth(E, k)] = base + (IF k <= rest THEN 1 ELSE 0))
             => AddUp(E, amounts) = n * base + rest
  BY <1>2, <1>7, <1>9, SharesAddUp DEF n
<1>11. AddUp(E, amounts) <= dollars
  BY <1>4, <1>7, <1>10
<1>12. ASSUME once, E # {} PROVE AddUp(E, amounts) = dollars
  <2>1. n # 0
    BY <1>2, <1>12, FS_EmptySet DEF n
  <2>2. CASE dollars = 0
    <3>1. \A k \in 1 .. n : amounts[Nth(E, k)] = base + (IF k <= rest THEN 1 ELSE 0)
      BY <1>3, <1>4, <2>2 DEF base, rest
    <3>2. n * base + rest = 0
      BY <1>4, <2>2 DEF base, rest
    <3> QED BY <1>10, <2>2, <3>1, <3>2
  <2>3. CASE dollars # 0
    <3>1. \A k \in 1 .. n : amounts[Nth(E, k)] = base + (IF k <= rest THEN 1 ELSE 0)
      BY <1>9, <1>12, <2>3
    <3> QED BY <1>7, <1>10, <2>1, <2>3, <3>1
  <2> QED BY <2>2, <2>3
<1>13. ASSUME once PROVE OnlySuitableShow(list, dollars)
  <2>1. ASSUME NEW i \in DOMAIN list \ E PROVE amounts[i] = 0
    BY <1>1, <1>3, <1>13
  <2> QED BY <2>1 DEF OnlySuitableShow, E, amounts
<1> HIDE DEF once
<1>14. engine = "deterministic" => once
  BY DEF once
<1> QED BY <1>11, <1>12, <1>13, <1>14 DEF WatchlistKeeps, E, amounts, once

\* The watchlist that is shown keeps to the budget, whatever the model writes.
THEOREM WatchlistIsSound ==
    ASSUME NEW q, NEW scores, Askable(q, scores), NEW S, NEW payload \in Seq(S),
           NEW dollars \in Nat
    PROVE  /\ WatchlistKeeps("model", ModelWatchlist(payload, q), dollars)
           /\ \A words : WatchlistKeeps("deterministic",
                                        FixedBy(EtfDecisionsBy(q, scores), words), dollars)
<1>1. WatchlistKeeps("model", ModelWatchlist(payload, q), dollars)
  <2> DEFINE list == ModelWatchlist(payload, q)
  <2>1. list \in Seq({list[i] : i \in DOMAIN list})
    BY ModelIsControlled DEF Askable
  <2> HIDE DEF list
  <2>2. WatchlistKeeps("model", list, dollars)
    BY <2>1, BudgetIsKept
  <2> QED BY <2>2 DEF list
<1>2. ASSUME NEW words
      PROVE  WatchlistKeeps("deterministic", FixedBy(EtfDecisionsBy(q, scores), words), dollars)
  <2> DEFINE decisions == EtfDecisionsBy(q, scores)
             list == FixedBy(decisions, words)
  <2>1. /\ decisions \in Seq({decisions[i] : i \in DOMAIN decisions})
        /\ \A i, j \in DOMAIN decisions : decisions[i].symbol = decisions[j].symbol => i = j
    <3>1. /\ AuditPasses(decisions, q)
          /\ decisions \in Seq({decisions[i] : i \in DOMAIN decisions})
      BY SelectionIsSound DEF SelectionBy, SelectionPasses
    <3> HIDE DEF decisions
    <3> QED BY <3>1 DEF AuditPasses
  <2> HIDE DEF decisions
  <2>2. /\ list = [i \in DOMAIN decisions |-> list[i]]
        /\ \A i \in DOMAIN decisions : list[i].symbol = decisions[i].symbol
    BY DEF FixedBy
  <2>3. DOMAIN decisions = 1 .. Len(decisions) /\ Len(decisions) \in Nat
    BY <2>1, LenProperties
  <2> HIDE DEF list
  <2>4. list \in Seq({list[i] : i \in DOMAIN decisions}) /\ DOMAIN list = DOMAIN decisions
    BY <2>2, <2>3, LenOfDomain
  <2>5. \A i, j \in DOMAIN list : list[i].symbol = list[j].symbol => i = j
    BY <2>1, <2>2, <2>4
  <2>6. WatchlistKeeps("deterministic", list, dollars)
    BY <2>4, <2>5, BudgetIsKept
  <2> QED BY <2>6 DEF list, decisions
<1> QED BY <1>1, <1>2

-----------------------------------------------------------------------------
(* Market map. *)

\* The last of a selection is at its largest position.
LEMMA LastPicked ==
    ASSUME NEW S, NEW s \in Seq(S), NEW I \in SUBSET DOMAIN s, I # {}
    PROVE  /\ Len(Pick(s, I)) \in Nat /\ Pick(s, I) # <<>>
           /\ \E i \in I : Pick(s, I)[Len(Pick(s, I))] = s[i] /\ \A j \in I : j <= i
<1> DEFINE n == Cardinality(I)
<1>1. IsFiniteSet(I) /\ I \in SUBSET Int
  <2>1. IsFiniteSet(1 .. Len(s)) /\ I \in SUBSET (1 .. Len(s))
    BY FS_Interval
  <2> QED BY <2>1, FS_Subset
<1>2. n \in Nat /\ n # 0 /\ n \in 1 .. n
  BY <1>1, FS_CardinalityType, FS_EmptySet
<1>3. /\ Pick(s, I) \in Seq(S) /\ Len(Pick(s, I)) = n /\ DOMAIN Pick(s, I) = 1 .. n
      /\ Pick(s, I)[n] = s[Nth(I, n)]
  BY <1>2, PickProperties
<1>4. Nth(I, n) \in I /\ Cardinality(Below(I, Nth(I, n))) = n - 1
  BY <1>1, <1>2, NthProperties
<1>5. ASSUME NEW j \in I PROVE j <= Nth(I, n)
  <2>1. Cardinality(Below(I, j)) \in 0 .. n - 1
    BY <1>1, BelowProperties
  <2>2. Nth(I, n) < j => Cardinality(Below(I, Nth(I, n))) < Cardinality(Below(I, j))
    BY <1>1, <1>4, BelowProperties
  <2> HIDE DEF n
  <2> QED BY <1>1, <1>2, <1>4, <2>1, <2>2
<1>6. Pick(s, I) # <<>>
  BY <1>2, <1>3
<1> QED BY <1>2, <1>3, <1>4, <1>5, <1>6

\* What is given of a symbol nobody holds.
LEMMA NothingHeld ==
    ASSUME NEW field
    PROVE  HeldSum(<<>>, field) = 0 /\ LastGiven(<<>>, field) = Unquoted
<1> DEFINE none == {i \in DOMAIN <<>> : <<>>[i][field] \notin {Unquoted, 0}}
<1>1. <<>> \in Seq({0}) /\ none \in SUBSET DOMAIN <<>> /\ none = {}
  OBVIOUS
<1> HIDE DEF none
<1>2. Cardinality(none) = 0
  BY <1>1, FS_EmptySet
<1>3. Pick(<<>>, none) \in Seq({0}) /\ Len(Pick(<<>>, none)) = 0
  <2> DEFINE empty == <<>>
  <2>1. empty \in Seq({0}) /\ none \in SUBSET DOMAIN empty
    BY <1>1
  <2> HIDE DEF empty
  <2>2. Pick(empty, none) \in Seq({0}) /\ Len(Pick(empty, none)) = 0
    BY <1>2, <2>1, PickProperties
  <2> QED BY <2>2 DEF empty
<1>4. Pick(<<>>, none) = <<>>
  BY <1>3
<1>5. HeldSum(<<>>, field) = 0
  <2>1. DOMAIN <<>> = {}
    OBVIOUS
  <2> QED BY <2>1, AddUpNothing DEF HeldSum
<1> QED BY <1>4, <1>5 DEF LastGiven, none

\* A quote with its history keeps the price the provider gave.
LEMMA PriceIsServed ==
    ASSUME NEW record, NEW observations
    PROVE  /\ NormalQuote(record).last = NonZero(record.last)
           /\ WithHistory(NormalQuote(record), observations).last = NonZero(record.last)
<1> DEFINE quote == NormalQuote(record)
           before == PreviousSessions(quote, observations)
           newest == before[Len(before)]
           compared == IF before = <<>> \/ quote.last = Unquoted THEN quote
                       ELSE [quote EXCEPT !.close = newest.close, !.closeDay = newest.day,
                                          !.move = PercentMove(quote.last, newest.close)]
<1>1. quote = [last |-> NonZero(record.last), close |-> quote.close, closeDay |-> quote.closeDay,
               move |-> quote.move, volume |-> quote.volume, day |-> quote.day,
               activity |-> quote.activity, status |-> quote.status]
  BY DEF NormalQuote
<1>2. WithHistory(quote, observations) = [compared EXCEPT !.activity = Activity(observations)]
  BY DEF WithHistory
<1> HIDE DEF quote, before, newest
<1>3. DOMAIN compared = DOMAIN quote /\ compared.last = quote.last
  BY <1>1
<1> HIDE DEF compared
<1> QED BY <1>1, <1>2, <1>3 DEF quote

\* Stored prices never pass for market data, whatever is asked, served and held.
THEOREM StoredPricesStaySo ==
    ASSUME NEW q, NEW S, q.positions \in Seq(S), NEW observations
    PROVE  LET kind == Status(q) IN
           NothingPosesAsLive(q, kind, Tiles(q, kind, LiveQuotes(q, observations)))
<1> DEFINE kind == Status(q)
           live == LiveQuotes(q, observations)
           tiles == Tiles(q, kind, live)
<1>1. CASE kind = "live"
  <2>1. q.enabled /\ SourceOf(q) = q.configured
    BY <1>1 DEF Status
  <2>2. ASSUME NEW symbol \in DOMAIN tiles, tiles[symbol].quote # Unquoted
        PROVE  /\ q.served[symbol] # Unquoted
               /\ tiles[symbol].quote.last # Unquoted
                    => tiles[symbol].quote.last = q.served[symbol].last
    <3>1. tiles[symbol].quote = IF symbol \in DOMAIN live THEN live[symbol] ELSE Unquoted
      BY <1>1 DEF Tiles, TilesOf
    <3>2. symbol \in Served(q)
      BY <2>2, <3>1 DEF LiveQuotes
    <3>3. \/ tiles[symbol].quote = NormalQuote(q.served[symbol])
          \/ tiles[symbol].quote = WithHistory(NormalQuote(q.served[symbol]), observations[symbol])
      BY <3>1, <3>2 DEF LiveQuotes
    <3>4. tiles[symbol].quote.last = NonZero(q.served[symbol].last)
      BY <3>3, PriceIsServed
    <3> QED BY <3>2, <3>4 DEF Served, NonZero
  <2> HIDE DEF tiles
  <2> QED BY <1>1, <2>1, <2>2 DEF NothingPosesAsLive, tiles
<1>2. CASE kind # "live"
  <2>1. ASSUME NEW symbol \in DOMAIN tiles
        PROVE  /\ tiles[symbol].quote = UploadedFrom(HeldAs(q, symbol))
               /\ tiles[symbol].held = (HeldAs(q, symbol) # <<>>)
    BY <1>2 DEF Tiles, TilesOf, UploadedQuotes
  <2>2. ASSUME NEW symbol \in DOMAIN tiles
        PROVE  LET quote == tiles[symbol].quote IN
               /\ quote.status # "live"
               /\ quote.move = Unquoted /\ quote.volume = Unquoted
               /\ quote.activity.score = Unquoted
               /\ quote.last # Unquoted => tiles[symbol].held
    <3> DEFINE rows == HeldAs(q, symbol)
               price == UploadedPrice(rows, HeldSum(rows, "quantity"), HeldSum(rows, "value"))
    <3>1. tiles[symbol].quote = UploadedQuote(rows, price)
      BY <2>1 DEF UploadedFrom
    <3>2. tiles[symbol].held = (rows # <<>>)
      BY <2>1
    <3>3. rows = <<>> => price = Unquoted
      BY NothingHeld DEF UploadedPrice
    <3> HIDE DEF rows, price, tiles
    <3>4. LET quote == UploadedQuote(rows, price) IN
          /\ quote.last = price
          /\ quote.status # "live"
          /\ quote.move = Unquoted /\ quote.volume = Unquoted
          /\ quote.activity.score = Unquoted
      BY DEF UploadedQuote, NoActivity
    <3> QED BY <3>1, <3>2, <3>3, <3>4
  <2> HIDE DEF tiles
  <2> QED BY <1>2, <2>2 DEF NothingPosesAsLive, tiles
<1> QED BY <1>1, <1>2

\* With history every move is over the last completed session before the quote.
LEMMA ComparedWithLatest ==
    ASSUME NEW record, NEW S, NEW observations \in Seq(S), NEW today \in Int,
           DaysInOrder(observations, today)
    PROVE  LET quote == WithHistory(NormalQuote(record), observations) IN
           OverASession(quote, Earlier(quote, observations), today)
<1> DEFINE was == NormalQuote(record)
           quote == WithHistory(was, observations)
           places == {i \in DOMAIN observations :
                         /\ observations[i].close # Unquoted
                         /\ was.day = Unquoted \/ observations[i].day < was.day}
           before == Pick(observations, places)
           newest == before[Len(before)]
           compared == IF before = <<>> \/ was.last = Unquoted THEN was
                       ELSE [was EXCEPT !.close = newest.close, !.closeDay = newest.day,
                                        !.move = PercentMove(was.last, newest.close)]
           earlier == Earlier(quote, observations)
<1>1. was = [last |-> was.last, close |-> was.close, closeDay |-> was.closeDay,
             move |-> was.move, volume |-> was.volume, day |-> was.day,
             activity |-> was.activity, status |-> was.status]
  BY DEF NormalQuote
<1>2. quote = [compared EXCEPT !.activity = Activity(observations)]
  BY DEF WithHistory, PreviousSessions
<1>3. places \in SUBSET DOMAIN observations
  OBVIOUS
<1>4. places # {} => /\ before # <<>>
                     /\ \E i \in places : newest = observations[i] /\ \A j \in places : j <= i
  <2> HIDE DEF places
  <2> QED BY <1>3, LastPicked
<1> HIDE DEF was, before, newest
<1>5. compared.last = was.last /\ compared.day = was.day /\ DOMAIN compared = DOMAIN was
  BY <1>1
<1>6. before # <<>> /\ was.last # Unquoted =>
          /\ compared.close = newest.close /\ compared.closeDay = newest.day
          /\ compared.move = PercentMove(was.last, newest.close)
  BY <1>1
<1> HIDE DEF compared
<1>7. /\ quote.last = compared.last /\ quote.day = compared.day /\ quote.close = compared.close
      /\ quote.closeDay = compared.closeDay /\ quote.move = compared.move
  BY <1>1, <1>2, <1>5
<1> HIDE DEF quote
<1>8. earlier = {observations[i] : i \in places}
  BY <1>5, <1>7 DEF Earlier
<1> HIDE DEF places, earlier
<1>9. ASSUME earlier # {}, quote.last # Unquoted
      PROVE  /\ \E bar \in earlier :
                   /\ quote.close = bar.close
                   /\ quote.closeDay = bar.day
                   /\ \A other \in earlier : other.day <= quote.closeDay
             /\ quote.move = PercentMove(quote.last, quote.close)
             /\ quote.closeDay < today
  <2>1. PICK i \in places : newest = observations[i] /\ \A j \in places : j <= i
    BY <1>4, <1>8, <1>9
  <2>2. /\ quote.close = newest.close /\ quote.closeDay = newest.day
        /\ quote.move = PercentMove(quote.last, quote.close)
    BY <1>4, <1>5, <1>6, <1>7, <1>8, <1>9
  <2>3. newest \in earlier
    BY <1>8, <2>1
  <2>4. ASSUME NEW j \in places PROVE observations[j].day <= newest.day
    <3>1. j \in DOMAIN observations /\ i \in DOMAIN observations /\ i \in Int /\ j \in Int
      BY <1>3
    <3>2. CASE j = i
      BY <2>1, <3>1, <3>2 DEF DaysInOrder
    <3>3. CASE j < i
      BY <2>1, <3>1, <3>3 DEF DaysInOrder
    <3> QED BY <2>1, <3>1, <3>2, <3>3
  <2>5. \A other \in earlier : other.day <= quote.closeDay
    BY <1>8, <2>2, <2>4
  <2>6. quote.closeDay < today
    BY <1>3, <2>1, <2>2 DEF DaysInOrder
  <2> QED BY <2>2, <2>3, <2>5, <2>6
<1> QED BY <1>9 DEF OverASession, earlier, quote, was

\* The percentage of every live quote with history is over a completed session.
THEOREM MovesAreOverSessions ==
    ASSUME NEW q, q.today \in Int, NEW kind, NEW S, NEW observations,
           \A symbol \in DOMAIN observations :
               observations[symbol] \in Seq(S) /\ DaysInOrder(observations[symbol], q.today)
    PROVE  MoveIsOverASession(q, kind, LiveQuotes(q, observations), observations)
<1> DEFINE live == LiveQuotes(q, observations)
<1> SUFFICES ASSUME q.history, NEW symbol \in DOMAIN live \cap DOMAIN observations
             PROVE  OverASession(live[symbol], Earlier(live[symbol], observations[symbol]),
                                 q.today)
  BY DEF MoveIsOverASession
<1>1. live[symbol] = WithHistory(NormalQuote(q.served[symbol]), observations[symbol])
  BY DEF LiveQuotes
<1>2. observations[symbol] \in Seq(S) /\ DaysInOrder(observations[symbol], q.today)
  OBVIOUS
<1> QED BY <1>1, <1>2, ComparedWithLatest

\* What the history of a symbol keeps of the bars it is told: complete sessions in their order.
LEMMA VolumesAreSessions ==
    ASSUME NEW S, NEW bars \in Seq(S), NEW today \in Int,
           \A i \in DOMAIN bars : bars[i].day \in Int /\ bars[i].volume \in Int
    PROVE  SessionList(DailyVolumes(bars, today), today)
<1> DEFINE told == {i \in DOMAIN bars : Complete(bars[i], today)}
           newest == {i \in told : \A j \in told : bars[j].day = bars[i].day => j <= i}
           before == {p \in newest \X newest : bars[p[1]].day < bars[p[2]].day}
           byDay == Sorted(newest, before)
           Volume(bar) == [day |-> bar.day, volume |-> bar.volume, close |-> NonZero(bar.close)]
           volumes == [k \in DOMAIN byDay |-> Volume(bars[byDay[k]])]
<1>1. DailyVolumes(bars, today) = volumes
  BY DEF DailyVolumes
<1>2. DOMAIN bars = 1 .. Len(bars) /\ Len(bars) \in Nat
  BY LenProperties
<1>3. IsFiniteSet(newest)
  <2>1. \A m \in Nat : IsFiniteSet(1 .. m)
    BY FS_Interval
  <2>2. IsFiniteSet(1 .. Len(bars)) /\ newest \in SUBSET (1 .. Len(bars))
    BY <1>2, <2>1
  <2> HIDE DEF newest
  <2> QED BY <2>2, FS_Subset
<1>4. \A i \in newest : bars[i].day \in Int /\ bars[i].volume \in Int /\ bars[i].day < today
  BY DEF Complete
<1>5. \A i, j \in newest : bars[i].day = bars[j].day => i = j
  <2> SUFFICES ASSUME NEW i \in newest, NEW j \in newest, bars[i].day = bars[j].day
               PROVE  i = j
    OBVIOUS
  <2>1. i <= j /\ j <= i /\ i \in Int /\ j \in Int
    BY <1>2
  <2> QED BY <2>1
<1>6. StrictOrder(newest, before)
  <2> HIDE DEF newest
  <2>1. \A x, y \in newest : <<x, y>> \in before <=> bars[x].day < bars[y].day
    OBVIOUS
  <2> HIDE DEF before
  <2>2. \A x \in newest : <<x, x>> \notin before
    BY <1>4, <2>1
  <2>3. \A x, y \in newest : x # y => <<x, y>> \in before \/ <<y, x>> \in before
    BY <1>4, <1>5, <2>1
  <2>4. \A x, y, z \in newest :
            <<x, y>> \in before /\ <<y, z>> \in before => <<x, z>> \in before
    <3> SUFFICES ASSUME NEW x \in newest, NEW y \in newest, NEW z \in newest,
                        <<x, y>> \in before, <<y, z>> \in before
                 PROVE  <<x, z>> \in before
      OBVIOUS
    <3>1. bars[x].day < bars[y].day /\ bars[y].day < bars[z].day
      BY <2>1
    <3>2. bars[x].day \in Int /\ bars[y].day \in Int /\ bars[z].day \in Int
      BY <1>4
    <3>3. bars[x].day < bars[z].day
      BY <3>1, <3>2
    <3> QED BY <2>1, <3>3
  <2> QED BY <2>2, <2>3, <2>4 DEF StrictOrder
<1> HIDE DEF newest
<1>7. /\ byDay \in Seq(newest)
      /\ \A i, j \in DOMAIN byDay : i < j => <<byDay[i], byDay[j]>> \in before
  <2> HIDE DEF before
  <2> QED BY <1>3, <1>6, SortedProperties
<1>8. /\ DOMAIN byDay = 1 .. Len(byDay) /\ Len(byDay) \in Nat
      /\ \A k \in DOMAIN byDay : byDay[k] \in newest
  <2> HIDE DEF byDay
  <2> QED BY <1>7, LenProperties, ElementOfSeq
<1>9. \A i, j \in DOMAIN byDay : i < j => bars[byDay[i]].day < bars[byDay[j]].day
  BY <1>7
<1> HIDE DEF byDay, before
<1>10. /\ DOMAIN volumes = 1 .. Len(byDay)
       /\ \A k \in DOMAIN volumes : /\ volumes[k].day = bars[byDay[k]].day
                                    /\ volumes[k].volume = bars[byDay[k]].volume
       /\ volumes \in [1 .. Len(byDay) -> Range(volumes)]
  BY <1>8 DEF Range
<1> HIDE DEF volumes
<1>11. volumes \in Seq(Range(volumes))
  BY <1>8, <1>10, SeqDef
<1>12. DaysInOrder(volumes, today)
  BY <1>4, <1>8, <1>9, <1>10 DEF DaysInOrder
<1>13. \A k \in DOMAIN volumes : volumes[k].volume \in Int
  BY <1>4, <1>8, <1>10
<1> QED BY <1>1, <1>11, <1>12, <1>13 DEF SessionList

\* The last sessions are sessions.
LEMMA LastAreSessions ==
    ASSUME NEW observations, NEW today, SessionList(observations, today), NEW n \in Nat
    PROVE  LET kept == LastOf(observations, n) IN
           SessionList(kept, today) /\ Len(kept) <= n
<1> DEFINE S == Range(observations)
           kept == LastOf(observations, n)
           from == IF Len(observations) > n THEN Len(observations) - n + 1 ELSE 1
<1>1. /\ observations \in Seq(S) /\ DaysInOrder(observations, today)
      /\ \A i \in DOMAIN observations : observations[i].volume \in Int
  BY DEF SessionList
<1> HIDE DEF S
<1>2. DOMAIN observations = 1 .. Len(observations) /\ Len(observations) \in Nat
  BY <1>1, LenProperties
<1>3. kept = SubSeq(observations, from, Len(observations))
  BY DEF LastOf
<1>4. /\ from \in Nat /\ from >= 1 /\ from <= Len(observations) + 1
      /\ Len(observations) - from + 1 <= n
  BY <1>2
<1> HIDE DEF from, kept
<1>5. /\ DOMAIN kept = 1 .. Len(observations) - from + 1
      /\ \A k \in 1 .. Len(observations) - from + 1 :
            from + k - 1 \in DOMAIN observations /\ kept[k] = observations[from + k - 1]
      /\ kept \in [1 .. Len(observations) - from + 1 -> Range(kept)]
  <2>1. CASE from <= Len(observations)
    <3>1. /\ kept \in Seq(S) /\ Len(kept) = Len(observations) - from + 1
          /\ \A k \in 1 .. Len(observations) - from + 1 : kept[k] = observations[from + k - 1]
      BY <1>1, <1>2, <1>3, <1>4, <2>1, SubSeqProperties
    <3>2. DOMAIN kept = 1 .. Len(kept) /\ kept \in [1 .. Len(kept) -> S]
      BY <3>1, LenProperties
    <3>3. kept \in [1 .. Len(kept) -> Range(kept)]
      BY <3>2 DEF Range
    <3> QED BY <1>2, <1>4, <3>1, <3>2, <3>3
  <2>2. CASE from = Len(observations) + 1
    <3>1. kept = <<>> /\ Len(observations) - from + 1 = 0
      BY <1>1, <1>2, <1>3, <2>2
    <3> QED BY <3>1 DEF Range
  <2> QED BY <1>2, <1>4, <2>1, <2>2
<1>6. kept \in Seq(Range(kept)) /\ Len(kept) = Len(observations) - from + 1
  BY <1>2, <1>4, <1>5, SeqDef, LenProperties
<1>7. DaysInOrder(kept, today)
  <2>1. \A k \in DOMAIN kept : kept[k].day \in Int /\ kept[k].day < today
    BY <1>1, <1>5 DEF DaysInOrder
  <2>2. ASSUME NEW i \in DOMAIN kept, NEW j \in DOMAIN kept, i < j
        PROVE  kept[i].day < kept[j].day
    <3>1. from + i - 1 < from + j - 1
      BY <1>2, <1>4, <1>5, <2>2
    <3> QED BY <1>1, <1>5, <3>1 DEF DaysInOrder
  <2> QED BY <2>1, <2>2 DEF DaysInOrder
<1>8. \A k \in DOMAIN kept : kept[k].volume \in Int
  BY <1>1, <1>5
<1> QED BY <1>4, <1>6, <1>7, <1>8 DEF SessionList, kept

\* The history of every symbol, received or cached, is the last of its sessions.
LEMMA ObservedAreSessions ==
    ASSUME NEW q, MapAskable(q), NEW symbol \in DOMAIN Observations(q)
    PROVE  /\ SessionList(Observations(q)[symbol], q.today)
           /\ Len(Observations(q)[symbol]) <= ReferenceSessions + 1
           /\ symbol \in Range(q.symbols)
<1> DEFINE asked == Uncached(q)
           received == Received(asked, q.lost)
           known == Range(q.symbols)
<1>1. /\ q.today \in Int /\ q.symbols \in Seq(known)
      /\ \A s \in known :
            /\ q.bars[s] \in Seq(Range(q.bars[s]))
            /\ \A bar \in Range(q.bars[s]) : bar.day \in Int /\ bar.volume \in Int
            /\ SessionList(q.cache[s], q.today)
            /\ Len(q.cache[s]) <= ReferenceSessions + 1
  BY DEF MapAskable
<1> HIDE DEF known
<1>2. received \in SUBSET known
  <2> DEFINE I == {i \in DOMAIN q.symbols : q.refresh \/ q.cache[q.symbols[i]] = <<>>}
  <2>1. I \in SUBSET DOMAIN q.symbols
    OBVIOUS
  <2> HIDE DEF I
  <2>2. Pick(q.symbols, I) \in Seq(known)
    BY <1>1, <2>1, PickProperties
  <2>3. asked \in Seq(known)
    BY <2>2 DEF Uncached, I
  <2> HIDE DEF asked
  <2>4. \A i \in DOMAIN asked : asked[i] \in known
    BY <2>3, ElementOfSeq, LenProperties
  <2> QED BY <2>4 DEF Received
<1>3. /\ Observations(q) = [s \in received \cup (known \ Range(asked)) |->
             IF s \in received
             THEN LastOf(DailyVolumes(q.bars[s], q.today), ReferenceSessions + 1)
             ELSE q.cache[s]]
  BY DEF Observations, ObservedOf, known
<1> HIDE DEF received, asked
<1>4. /\ symbol \in known
      /\ Observations(q)[symbol] =
             IF symbol \in received
             THEN LastOf(DailyVolumes(q.bars[symbol], q.today), ReferenceSessions + 1)
             ELSE q.cache[symbol]
  BY <1>2, <1>3
<1>5. CASE symbol \in received
  <2>1. \A i \in DOMAIN q.bars[symbol] :
            q.bars[symbol][i].day \in Int /\ q.bars[symbol][i].volume \in Int
    BY <1>1, <1>4 DEF Range
  <2>2. SessionList(DailyVolumes(q.bars[symbol], q.today), q.today)
    BY <1>1, <1>4, <2>1, VolumesAreSessions
  <2>3. ReferenceSessions + 1 \in Nat
    BY MarketMapAssumption
  <2>4. LET kept == LastOf(DailyVolumes(q.bars[symbol], q.today), ReferenceSessions + 1) IN
        SessionList(kept, q.today) /\ Len(kept) <= ReferenceSessions + 1
    BY <2>2, <2>3, LastAreSessions
  <2> QED BY <1>4, <1>5, <2>4 DEF known
<1>6. CASE symbol \notin received
  BY <1>1, <1>4, <1>6 DEF known
<1> QED BY <1>5, <1>6

\* Twice the median of a list of numbers is one, of the same sign, and twice the only number of a
\* list of one number.
LEMMA MedianIsNumber ==
    ASSUME NEW n \in Nat \ {0}, NEW values \in [1 .. n -> Int]
    PROVE  /\ TwiceMedian(values) \in Int
           /\ (\A i \in 1 .. n : values[i] >= 0) => TwiceMedian(values) >= 0
           /\ \A v \in Int : (\A i \in 1 .. n : values[i] = v) => TwiceMedian(values) = 2 * v
<1> DEFINE D == DOMAIN values
           before == {p \in D \X D : \/ values[p[1]] < values[p[2]]
                                     \/ values[p[1]] = values[p[2]] /\ p[1] < p[2]}
           at == Sorted(D, before)
           sorted == [k \in DOMAIN at |-> values[at[k]]]
           half == n \div 2
<1>1. D = 1 .. n
  OBVIOUS
<1>2. Ascending(values) = sorted
  BY DEF Ascending
<1>3. IsFiniteSet(D) /\ Cardinality(D) = n
  <2>1. \A m \in Nat : IsFiniteSet(1 .. m) /\ Cardinality(1 .. m) = m
    BY FS_Interval
  <2> QED BY <1>1, <2>1
<1>4. \A x \in D : values[x] \in Int /\ x \in Int
  BY <1>1
<1> HIDE DEF D
<1>5. StrictOrder(D, before)
  <2>1. \A x, y \in D : <<x, y>> \in before <=>
            (values[x] < values[y] \/ (values[x] = values[y] /\ x < y))
    OBVIOUS
  <2> HIDE DEF before
  <2>2. \A x \in D : <<x, x>> \notin before
    BY <1>4, <2>1
  <2>3. \A x, y \in D : x # y => <<x, y>> \in before \/ <<y, x>> \in before
    BY <1>4, <2>1
  <2>4. \A x, y, z \in D : <<x, y>> \in before /\ <<y, z>> \in before => <<x, z>> \in before
    <3> SUFFICES ASSUME NEW x \in D, NEW y \in D, NEW z \in D,
                        <<x, y>> \in before, <<y, z>> \in before
                 PROVE  <<x, z>> \in before
      OBVIOUS
    <3>1. /\ values[x] < values[y] \/ (values[x] = values[y] /\ x < y)
          /\ values[y] < values[z] \/ (values[y] = values[z] /\ y < z)
      BY <2>1
    <3>2. /\ values[x] \in Int /\ values[y] \in Int /\ values[z] \in Int
          /\ x \in Int /\ y \in Int /\ z \in Int
      BY <1>4
    <3>3. values[x] < values[z] \/ (values[x] = values[z] /\ x < z)
      BY <3>1, <3>2
    <3> QED BY <2>1, <3>3
  <2> QED BY <2>2, <2>3, <2>4 DEF StrictOrder
<1> HIDE DEF before
<1>6. at \in Seq(D) /\ Len(at) = n
  BY <1>3, <1>5, SortedProperties
<1>7. DOMAIN at = 1 .. n /\ \A k \in 1 .. n : at[k] \in D
  <2> HIDE DEF at
  <2> QED BY <1>6, LenProperties, ElementOfSeq
<1> HIDE DEF at
<1>8. DOMAIN sorted = 1 .. n /\ \A k \in 1 .. n : sorted[k] \in Int /\ sorted[k] = values[at[k]]
  BY <1>4, <1>7
<1>9. sorted \in [1 .. n -> Int]
  BY <1>4, <1>7
<1> HIDE DEF sorted
<1>10. Len(sorted) = n
  BY <1>9
<1>11. Len(values) = n
  OBVIOUS
<1>12. TwiceMedian(values) = IF n % 2 = 1 THEN 2 * sorted[half + 1]
                             ELSE sorted[half] + sorted[half + 1]
  BY <1>2, <1>10, <1>11 DEF TwiceMedian, MiddleTwice
<1>13. half + 1 \in 1 .. n /\ (n % 2 # 1 => half \in 1 .. n)
  OBVIOUS
<1> HIDE DEF half
<1>14. TwiceMedian(values) \in Int
  BY <1>8, <1>12, <1>13
<1>15. (\A i \in 1 .. n : values[i] >= 0) => \A k \in 1 .. n : sorted[k] >= 0
  BY <1>1, <1>7, <1>8
<1>16. ASSUME NEW v \in Int, \A i \in 1 .. n : values[i] = v
       PROVE  \A k \in 1 .. n : sorted[k] = v
  BY <1>1, <1>7, <1>8, <1>16
<1>17. (\A i \in 1 .. n : values[i] >= 0) => TwiceMedian(values) >= 0
  BY <1>8, <1>12, <1>13, <1>15
<1>18. \A v \in Int : (\A i \in 1 .. n : values[i] = v) => TwiceMedian(values) = 2 * v
  BY <1>8, <1>12, <1>13, <1>16
<1> QED BY <1>14, <1>17, <1>18

\* The last of a list are of it, no more than it has and no more than asked.
LEMMA LastOfList ==
    ASSUME NEW S, NEW s \in Seq(S), NEW n \in Nat
    PROVE  LastOf(s, n) \in Seq(S) /\ Len(LastOf(s, n)) \in 0 .. Len(s)
<1> DEFINE from == IF Len(s) > n THEN Len(s) - n + 1 ELSE 1
<1>1. Len(s) \in Nat /\ DOMAIN s = 1 .. Len(s) /\ \A i \in DOMAIN s : s[i] \in S
  BY LenProperties, ElementOfSeq
<1>2. from \in Int /\ from >= 1
  BY <1>1
<1> HIDE DEF from
<1>3. \A i \in from .. Len(s) : s[i] \in S
  BY <1>1, <1>2
<1>4. /\ SubSeq(s, from, Len(s)) \in Seq(S)
      /\ Len(SubSeq(s, from, Len(s))) = IF from <= Len(s) THEN Len(s) - from + 1 ELSE 0
  BY <1>1, <1>2, <1>3, SubSeqProperties
<1> QED BY <1>1, <1>2, <1>4 DEF LastOf, from

\* A label says Unusual exactly from 3 up.
LEMMA UnusualFromThree == ASSUME NEW score \in Int
                          PROVE  ActivityLabel(score) = "Unusual" <=> score >= 300
BY DEF ActivityLabel

\* A score has enough sessions and volumes that vary behind it, and the label it deserves.
LEMMA ScoreHasSupport ==
    ASSUME NEW observations, NEW today, SessionList(observations, today)
    PROVE  Supported(Activity(observations), observations)
<1> DEFINE S == Range(observations)
           kept == Reference(observations)
           n == Len(kept)
           volumes == [i \in DOMAIN kept |-> kept[i].volume]
           centre == TwiceMedian(volumes)
           deviations == [i \in DOMAIN kept |-> Magnitude(2 * kept[i].volume - centre)]
           fourMad == TwiceMedian(deviations)
           volume == LastSession(observations).volume
           told == {x.volume : x \in S}
           activity == Activity(observations)
<1> SUFFICES ASSUME activity.score # Unquoted
             PROVE  /\ Len(observations) > MinimumSessions
                    /\ Cardinality(told) > 1
                    /\ activity.label = "Unusual" <=> activity.score >= 300
  BY DEF Supported
<1>1. /\ observations \in Seq(S) /\ DOMAIN observations = 1 .. Len(observations)
      /\ Len(observations) \in Nat
      /\ \A i \in DOMAIN observations : observations[i] \in S /\ observations[i].volume \in Int
      /\ \A x \in S : x.volume \in Int
  BY LenProperties DEF SessionList, Range
<1>2. \A label, quality : NoActivity(label, quality).score = Unquoted
  BY DEF NoActivity
<1>3. /\ observations # <<>>
      /\ ~ (n < MinimumSessions)
      /\ fourMad # 0
      /\ activity = Scored(VolumeScore(volume, centre, fourMad))
  <2>1. observations # <<>> /\ activity = Against(volume, kept, Centre(kept))
    BY <1>2 DEF Activity
  <2>2. Centre(kept) = centre
    BY DEF Centre
  <2>3. FourMad(kept, centre) = fourMad
    BY DEF FourMad
  <2> HIDE DEF activity, kept, centre, fourMad, volume
  <2>4. ~ (n < MinimumSessions) /\ activity = Varying(volume, centre, fourMad)
    BY <1>2, <2>1, <2>2, <2>3 DEF Against
  <2> QED BY <1>2, <2>1, <2>4 DEF Varying
<1> HIDE DEF S
<1>4. Len(observations) >= 1
  BY <1>1, <1>3
<1>5. kept \in Seq(S) /\ n \in 0 .. Len(observations) - 1
  <2> DEFINE earlier == SubSeq(observations, 1, Len(observations) - 1)
  <2>1. earlier \in Seq(S) /\ Len(earlier) = Len(observations) - 1
    <3>1. \A i \in 1 .. Len(observations) - 1 : observations[i] \in S
      BY <1>1
    <3> QED BY <1>1, <1>4, <3>1, SubSeqProperties
  <2> HIDE DEF earlier
  <2>2. LastOf(earlier, ReferenceSessions) \in Seq(S)
        /\ Len(LastOf(earlier, ReferenceSessions)) \in 0 .. Len(earlier)
    BY <2>1, MarketMapAssumption, LastOfList
  <2> QED BY <2>1, <2>2 DEF Reference, earlier
<1> HIDE DEF kept
<1>6. /\ n \in Nat \ {0} /\ DOMAIN kept = 1 .. n
      /\ \A i \in 1 .. n : kept[i] \in S /\ kept[i].volume \in Int
  <2>1. n \in Nat /\ DOMAIN kept = 1 .. n /\ \A i \in 1 .. n : kept[i] \in S
    BY <1>5, LenProperties, ElementOfSeq
  <2>2. n # 0
    BY <1>3, <2>1, MarketMapAssumption
  <2> QED BY <1>1, <2>1, <2>2
<1>7. Len(observations) > MinimumSessions
  BY <1>1, <1>3, <1>5, MarketMapAssumption
<1> HIDE DEF n
<1>8. volumes \in [1 .. n -> Int]
  BY <1>6
<1>9. centre \in Int /\ \A v \in Int : (\A i \in 1 .. n : volumes[i] = v) => centre = 2 * v
  <2> HIDE DEF volumes
  <2> QED BY <1>6, <1>8, MedianIsNumber
<1> HIDE DEF centre
<1>10. deviations \in [1 .. n -> Int] /\ \A i \in 1 .. n : deviations[i] >= 0
  <2>1. \A i \in 1 .. n : 2 * kept[i].volume - centre \in Int
    BY <1>6, <1>9
  <2> QED BY <1>6, <2>1 DEF Magnitude
<1>11. /\ fourMad \in Int /\ fourMad >= 0
       /\ (\A i \in 1 .. n : deviations[i] = 0) => fourMad = 0
  <2> HIDE DEF deviations
  <2>1. /\ TwiceMedian(deviations) \in Int /\ TwiceMedian(deviations) >= 0
        /\ \A v \in Int : (\A i \in 1 .. n : deviations[i] = v) => TwiceMedian(deviations) = 2 * v
    BY <1>6, <1>10, MedianIsNumber
  <2>2. (\A i \in 1 .. n : deviations[i] = 0) => TwiceMedian(deviations) = 2 * 0
    BY <2>1
  <2> QED BY <2>1, <2>2
<1>12. Cardinality(told) > 1
  <2>1. IsFiniteSet(told)
    <3> DEFINE volumeAt == [i \in DOMAIN observations |-> observations[i].volume]
    <3>1. \A m \in Nat : IsFiniteSet(1 .. m)
      BY FS_Interval
    <3>2. IsFiniteSet(DOMAIN observations)
      BY <1>1, <3>1
    <3>3. told = {volumeAt[i] : i \in DOMAIN observations}
      BY DEF S, Range
    <3> HIDE DEF volumeAt, told
    <3> QED BY <3>2, <3>3, ValuesAreFinite
  <2>2. told # {}
    <3>1. 1 \in 1 .. n
      BY <1>6
    <3> QED BY <1>6, <3>1
  <2>3. ASSUME NEW v, told = {v} PROVE FALSE
    <3>1. \A i \in 1 .. n : kept[i].volume = v /\ v \in Int
      BY <1>6, <2>3
    <3>2. v \in Int /\ \A i \in 1 .. n : volumes[i] = v
      BY <1>6, <3>1
    <3>3. centre = 2 * v
      BY <1>9, <3>2
    <3>4. \A i \in 1 .. n : deviations[i] = 0
      BY <1>6, <3>1, <3>2, <3>3 DEF Magnitude
    <3> HIDE DEF fourMad, deviations
    <3> QED BY <1>3, <1>11, <3>4
  <2> HIDE DEF told
  <2>4. Cardinality(told) \in Nat
    BY <2>1, FS_CardinalityType
  <2>5. Cardinality(told) # 0
    BY <2>1, <2>2, FS_EmptySet
  <2>6. Cardinality(told) # 1
    BY <2>1, <2>3, FS_Singleton
  <2> QED BY <2>4, <2>5, <2>6
<1> HIDE DEF told, fourMad
<1>13. VolumeScore(volume, centre, fourMad) \in Int
  <2> DEFINE over == (2 * volume - centre) * 4000000 + 14826 * fourMad
             under == 2 * 14826 * fourMad
  <2>1. volume \in Int
    BY <1>1, <1>4 DEF LastSession
  <2>2. over \in Int /\ under \in Nat \ {0}
    BY <1>3, <1>9, <1>11, <2>1
  <2> HIDE DEF over, under
  <2>3. over \div under \in Int
    BY <2>2
  <2> QED BY <2>3 DEF VolumeScore, Clipped, over, under
<1> HIDE DEF activity, volume
<1>14. activity.label = "Unusual" <=> activity.score >= 300
  <2> DEFINE score == VolumeScore(volume, centre, fourMad)
  <2>1. activity.score = score /\ activity.label = ActivityLabel(score)
    BY <1>3 DEF Scored
  <2> HIDE DEF score
  <2>2. score \in Int
    BY <1>13 DEF score
  <2> QED BY <2>1, <2>2, UnusualFromThree
<1> QED BY <1>7, <1>12, <1>14

\* Whatever is asked, served, cached and lost: every move is over a completed session, a failed
\* history batch costs only its own symbols their volumes, the cache keeps nothing but complete
\* sessions before today, and no score stands on too little.
THEOREM MarketMapIsSound == ASSUME NEW q, MapAskable(q) PROVE SoundMarketMap(q)
<1> DEFINE observations == Observations(q)
           kind == Status(q)
           live == LiveQuotes(q, observations)
           cache == CacheAfter(q, observations)
<1>1. \A symbol \in DOMAIN observations :
          /\ SessionList(observations[symbol], q.today)
          /\ Len(observations[symbol]) <= ReferenceSessions + 1
  BY ObservedAreSessions
<1> HIDE DEF observations
<1>2. MoveIsOverASession(q, kind, live, observations)
  <2> DEFINE S == UNION {Range(observations[symbol]) : symbol \in DOMAIN observations}
  <2>1. ASSUME NEW symbol \in DOMAIN observations
        PROVE  observations[symbol] \in Seq(S) /\ DaysInOrder(observations[symbol], q.today)
    <3>1. /\ observations[symbol] \in Seq(Range(observations[symbol]))
          /\ DaysInOrder(observations[symbol], q.today)
      BY <1>1 DEF SessionList
    <3>2. Range(observations[symbol]) \in SUBSET S
      OBVIOUS
    <3> HIDE DEF S
    <3> QED BY <3>1, <3>2
  <2>2. q.today \in Int
    BY DEF MapAskable
  <2> HIDE DEF S
  <2> QED BY <2>1, <2>2, MovesAreOverSessions
<1>3. HistoryFailsAlone(q, kind, live, cache)
  <2>1. DOMAIN live = Served(q)
    BY DEF LiveQuotes
  <2>2. ASSUME NEW symbol \in DOMAIN q.cache
        PROVE  /\ q.cache[symbol] # <<>> => cache[symbol] # <<>>
               /\ \A bar \in Range(cache[symbol]) : bar.day < q.today
               /\ Len(cache[symbol]) <= ReferenceSessions + 1
    <3>1. \/ cache[symbol] = q.cache[symbol]
          \/ symbol \in DOMAIN observations /\ observations[symbol] # <<>>
               /\ cache[symbol] = observations[symbol]
      BY DEF CacheAfter
    <3>2. SessionList(q.cache[symbol], q.today) /\ Len(q.cache[symbol]) <= ReferenceSessions + 1
      BY DEF MapAskable
    <3> HIDE DEF cache
    <3>3. SessionList(cache[symbol], q.today) /\ Len(cache[symbol]) <= ReferenceSessions + 1
      BY <1>1, <3>1, <3>2
    <3>4. \A bar \in Range(cache[symbol]) : bar.day < q.today
      BY <3>3 DEF SessionList, DaysInOrder, Range
    <3> QED BY <3>1, <3>3, <3>4
  <2> HIDE DEF cache, live
  <2> QED BY <2>1, <2>2 DEF HistoryFailsAlone
<1>4. ScoreIsSupported(q, observations)
  BY <1>1, ScoreHasSupport DEF ScoreIsSupported
<1> QED BY <1>2, <1>3, <1>4 DEF SoundMarketMap, MapFrom, MapKeeps, observations

-----------------------------------------------------------------------------
(* Retrieval. *)

\* The stored chunks a request may see, by their places.
VisiblePlaces(c) == {i \in DOMAIN c.library : Visible(c.library[i], c)}

\* A request that may see everything sees what the request itself may see.
LEMMA SeenOnlyIsVisible ==
    ASSUME NEW c, StoredLibrary(c)
    PROVE  LET d == SeenOnly(c) IN
           /\ d.library = Pick(c.library, VisiblePlaces(c))
           /\ d.document = c.document /\ d.scope = c.scope /\ d.asOf = c.asOf
           /\ d.database = c.database /\ d.provider = c.provider
<1> DEFINE Later(date) == c.asOf # Void /\ date # Void /\ date > c.asOf
           Hidden(chunk) == \/ c.document # Void /\ chunk.document # c.document
                            \/ c.scope # Void /\ chunk.scope # c.scope
                            \/ Later(chunk.published) \/ Later(chunk.asOf)
           shown == {i \in DOMAIN c.library : ~ Hidden(c.library[i])}
<1>1. SeenOnly(c) = [c EXCEPT !.library = Pick(c.library, shown)]
  BY DEF SeenOnly
<1>2. shown = VisiblePlaces(c)
  <2> SUFFICES ASSUME NEW i \in DOMAIN c.library
               PROVE  Visible(c.library[i], c) <=> ~ Hidden(c.library[i])
    BY DEF VisiblePlaces
  <2> DEFINE chunk == c.library[i]
  <2>1. ASSUME NEW date \in Int \cup {Void}
        PROVE  Later(date) <=> c.asOf # Void /\ date # Void /\ ~ (date <= c.asOf)
    BY DEF StoredLibrary
  <2>2. chunk.published \in Int \cup {Void} /\ chunk.asOf \in Int \cup {Void}
    BY DEF StoredLibrary
  <2> HIDE DEF chunk, Later
  <2>3. Visible(chunk, c) <=> ~ Hidden(chunk)
    BY <2>1, <2>2 DEF Visible, Dated
  <2> QED BY <2>3 DEF chunk
<1> HIDE DEF shown
<1> QED BY <1>1, <1>2 DEF StoredLibrary

\* A chunk is as visible in what is seen as in the library.
LEMMA VisibleAlike ==
    ASSUME NEW c, StoredLibrary(c), NEW chunk
    PROVE  /\ Visible(chunk, SeenOnly(c)) = Visible(chunk, c)
           /\ Dated(chunk, SeenOnly(c)) = Dated(chunk, c)
BY SeenOnlyIsVisible DEF Visible, Dated

\* What is picked from the seen by a set of the visible places is what the library has there.
LEMMA PickedFromSeen ==
    ASSUME NEW c, StoredLibrary(c), NEW W \in SUBSET VisiblePlaces(c)
    PROVE  /\ Pick(SeenOnly(c).library,
                   {k \in DOMAIN SeenOnly(c).library : Nth(VisiblePlaces(c), k) \in W})
                = Pick(c.library, W)
           /\ \A k \in DOMAIN SeenOnly(c).library :
                 /\ Nth(VisiblePlaces(c), k) \in VisiblePlaces(c)
                 /\ SeenOnly(c).library[k] = c.library[Nth(VisiblePlaces(c), k)]
<1> DEFINE S == {c.library[i] : i \in DOMAIN c.library}
           s == c.library
           V == VisiblePlaces(c)
<1>1. s \in Seq(S) /\ V \in SUBSET DOMAIN s
  BY DEF StoredLibrary, VisiblePlaces
<1>2. SeenOnly(c).library = Pick(s, V)
  BY SeenOnlyIsVisible
<1> HIDE DEF S, s, V
<1>3. Pick(Pick(s, V), {k \in DOMAIN Pick(s, V) : Nth(V, k) \in W}) = Pick(s, W)
  <2>1. W \in SUBSET V
    BY DEF V
  <2> QED BY <1>1, <2>1, PickOfPick
<1>4. \A k \in DOMAIN Pick(s, V) : Nth(V, k) \in V /\ Pick(s, V)[k] = s[Nth(V, k)]
  BY <1>1, PickProperties
<1> QED BY <1>2, <1>3, <1>4 DEF s, V

\* What a request may not see changes nothing in what it ranks, whatever is asked, and nothing
\* in the neighbours whose text is added to a chunk it sees.
THEOREM HiddenChangesNothing ==
    ASSUME NEW c, StoredLibrary(c)
    PROVE  /\ ListChunkRecords(SeenOnly(c)) = ListChunkRecords(c)
           /\ \A q, pool : Rankings(q, SeenOnly(c), pool) = Rankings(q, c, pool)
           /\ \A i \in VisiblePlaces(c) :
                 ListNeighborChunks(c.library[i], SeenOnly(c))
                     = ListNeighborChunks(c.library[i], c)
<1> DEFINE d == SeenOnly(c)
           V == VisiblePlaces(c)
<1>0. /\ \A k \in DOMAIN d.library : Nth(V, k) \in V /\ d.library[k] = c.library[Nth(V, k)]
      /\ \A j \in V : Visible(c.library[j], c)
      /\ \A chunk : Visible(chunk, d) = Visible(chunk, c) /\ Dated(chunk, d) = Dated(chunk, c)
      /\ V \in SUBSET DOMAIN c.library
  <2>1. V \in SUBSET V
    OBVIOUS
  <2>2. \A k \in DOMAIN d.library : Nth(V, k) \in V /\ d.library[k] = c.library[Nth(V, k)]
    BY <2>1, PickedFromSeen
  <2>3. \A chunk : Visible(chunk, d) = Visible(chunk, c) /\ Dated(chunk, d) = Dated(chunk, c)
    BY VisibleAlike
  <2> HIDE DEF d
  <2> QED BY <2>2, <2>3 DEF VisiblePlaces
<1>1. ListChunkRecords(d) = ListChunkRecords(c)
  <2> DEFINE U == {k \in DOMAIN d.library : Visible(d.library[k], d)}
  <2>1. U = {k \in DOMAIN d.library : Nth(V, k) \in V}
    <3> HIDE DEF d, V
    <3> QED BY <1>0
  <2>2. Pick(d.library, {k \in DOMAIN d.library : Nth(V, k) \in V}) = Pick(c.library, V)
    BY PickedFromSeen
  <2> QED BY <2>1, <2>2 DEF ListChunkRecords, VisiblePlaces
<1>2. ASSUME NEW q, NEW pool PROVE Rankings(q, d, pool) = Rankings(q, c, pool)
  <2>1. d.database = c.database /\ d.provider = c.provider
    BY SeenOnlyIsVisible
  <2> HIDE DEF d
  <2>2. ExactResults(q, d, pool) = ExactResults(q, c, pool)
    BY <1>1 DEF ExactResults
  <2>3. FullTextResults(q, d, pool) = FullTextResults(q, c, pool)
    BY <1>1, <2>1 DEF FullTextResults, SearchChunksFullText, PortableFullTextResults
  <2>4. SemanticResults(q, d, pool) = SemanticResults(q, c, pool)
    BY <1>1, <2>1 DEF SemanticResults, ListChunkEmbeddings
  <2>5. DocumentSummaryResults(q, d, pool) = DocumentSummaryResults(q, c, pool)
    BY <1>1 DEF DocumentSummaryResults
  <2> QED BY <2>2, <2>3, <2>4, <2>5 DEF Rankings
<1>3. ASSUME NEW i \in V
      PROVE  ListNeighborChunks(c.library[i], d) = ListNeighborChunks(c.library[i], c)
  <2> DEFINE chunk == c.library[i]
             W == {j \in DOMAIN c.library : NeighborOf(c.library[j], chunk)
                                              /\ Dated(c.library[j], c)}
  <2>1. W \in SUBSET V
    <3> SUFFICES ASSUME NEW j \in W PROVE Visible(c.library[j], c)
      BY DEF VisiblePlaces
    <3>1. c.library[j].document = chunk.document /\ c.library[j].scope = chunk.scope
      BY DEF NeighborOf, StoredLibrary, VisiblePlaces
    <3>2. Visible(chunk, c)
      BY DEF VisiblePlaces
    <3> QED BY <3>1, <3>2 DEF Visible
  <2>2. {k \in DOMAIN d.library : NeighborOf(d.library[k], chunk) /\ Dated(d.library[k], d)}
           = {k \in DOMAIN d.library : Nth(V, k) \in W}
    <3> HIDE DEF d, V
    <3>1. ASSUME NEW k \in DOMAIN d.library
          PROVE  /\ Nth(V, k) \in DOMAIN c.library
                 /\ d.library[k] = c.library[Nth(V, k)]
                 /\ Dated(d.library[k], d) = Dated(d.library[k], c)
      BY <1>0
    <3> HIDE DEF chunk
    <3> QED BY <3>1
  <2>3. Pick(d.library, {k \in DOMAIN d.library : Nth(V, k) \in W}) = Pick(c.library, W)
    BY <2>1, PickedFromSeen
  <2> HIDE DEF d, V
  <2> QED BY <2>2, <2>3 DEF ListNeighborChunks
<1> QED BY <1>1, <1>2, <1>3

\* What is ranked, told apart by its places, is ranked whole, with no lower score before a higher.
LEMMA RankingProperties ==
    ASSUME NEW S, IsFiniteSet(S),
           \A e \in S : e.score \in Int /\ e.place \in Int,
           \A d, e \in S : d.place = e.place => d = e
    PROVE  \E inRank \in Seq(S) :
              /\ ByScore(S) = [k \in DOMAIN inRank |-> inRank[k].of]
              /\ Len(inRank) = Cardinality(S)
              /\ \A i, j \in DOMAIN inRank :
                    i < j => inRank[i] # inRank[j] /\ inRank[i].score >= inRank[j].score
              /\ \A e \in S : \E i \in DOMAIN inRank : inRank[i] = e
<1> DEFINE before == {p \in S \X S :
                        \/ p[1].score > p[2].score
                        \/ p[1].score = p[2].score /\ p[1].place < p[2].place}
           inRank == Sorted(S, before)
           A == [e \in S |-> e.score]
           B == [e \in S |-> e.place]
<1>1. ByScore(S) = [k \in DOMAIN inRank |-> inRank[k].of]
  BY DEF ByScore
<1>2. \A d, e \in S : <<d, e>> \in before <=> A[d] > A[e] \/ (A[d] = A[e] /\ B[d] < B[e])
  OBVIOUS
<1>3. /\ \A e \in S : A[e] = e.score /\ A[e] \in Int /\ B[e] \in Int
      /\ \A d, e \in S : B[d] = B[e] => d = e
  OBVIOUS
<1> HIDE DEF A, B, before, inRank
<1>4. StrictOrder(S, before)
  <2>1. \A d \in S : <<d, d>> \notin before
    BY <1>2, <1>3
  <2>2. \A d, e \in S : d # e => <<d, e>> \in before \/ <<e, d>> \in before
    BY <1>2, <1>3
  <2>3. ASSUME NEW d \in S, NEW e \in S, NEW g \in S, <<d, e>> \in before, <<e, g>> \in before
        PROVE  <<d, g>> \in before
    BY <1>2, <1>3, <2>3
  <2> QED BY <2>1, <2>2, <2>3 DEF StrictOrder
<1>5. /\ inRank \in Seq(S) /\ Len(inRank) = Cardinality(S)
      /\ \A i, j \in DOMAIN inRank : i < j => <<inRank[i], inRank[j]>> \in before
      /\ \A e \in S : \E i \in DOMAIN inRank : inRank[i] = e
  BY <1>4, SortedProperties DEF inRank
<1>6. \A i \in DOMAIN inRank : inRank[i] \in S
  BY <1>5, ElementOfSeq, LenProperties
<1>7. ASSUME NEW i \in DOMAIN inRank, NEW j \in DOMAIN inRank, i < j
      PROVE  inRank[i] # inRank[j] /\ inRank[i].score >= inRank[j].score
  <2>1. inRank[i] \in S /\ inRank[j] \in S /\ <<inRank[i], inRank[j]>> \in before
    BY <1>5, <1>6, <1>7
  <2>2. inRank[i] # inRank[j]
    BY <1>4, <2>1 DEF StrictOrder
  <2>3. A[inRank[i]] >= A[inRank[j]]
    BY <1>2, <1>3, <2>1
  <2> QED BY <1>3, <2>1, <2>2, <2>3
<1> QED BY <1>1, <1>5, <1>7

\* What is ranked, told apart by its places, is listed.
LEMMA RankingIsList ==
    ASSUME NEW S, IsFiniteSet(S), NEW T,
           \A e \in S : e.of \in T /\ e.score \in Int /\ e.place \in Int,
           \A d, e \in S : d.place = e.place => d = e
    PROVE  ByScore(S) \in Seq(T)
<1>1. \A e \in S : e.score \in Int /\ e.place \in Int
  OBVIOUS
<1>2. PICK inRank \in Seq(S) : ByScore(S) = [k \in DOMAIN inRank |-> inRank[k].of]
  BY <1>1, RankingProperties
<1>3. /\ Len(inRank) \in Nat /\ DOMAIN inRank = 1 .. Len(inRank)
      /\ \A k \in 1 .. Len(inRank) : inRank[k].of \in T
  BY ElementOfSeq, LenProperties
<1>4. ByScore(S) \in [1 .. Len(inRank) -> T]
  BY <1>2, <1>3
<1> QED BY <1>3, <1>4, SeqDef

\* What a ranking of a set by a score is.
RankedBy(ranking, X, score) ==
    /\ ranking \in Seq(X) /\ Len(ranking) = Cardinality(X)
    /\ \A x \in X : \E i \in DOMAIN ranking : ranking[i] = x
    /\ \A i, j \in DOMAIN ranking :
          i < j => ranking[i] # ranking[j] /\ score[ranking[i]] >= score[ranking[j]]

\* Chunks with ids of their own are ranked by their score, each once.
LEMMA RankedByScore ==
    ASSUME NEW X, IsFiniteSet(X), NEW score,
           \A x \in X : score[x] \in Int /\ x.chunk \in Int,
           \A x, y \in X : x.chunk = y.chunk => x = y
    PROVE  RankedBy(ByScore({Entry(x, score[x], x.chunk) : x \in X}), X, score)
<1> DEFINE entry == [x \in X |-> Entry(x, score[x], x.chunk)]
           S == {entry[x] : x \in X}
           ranking == ByScore(S)
<1>1. S = {Entry(x, score[x], x.chunk) : x \in X}
  OBVIOUS
<1>2. IsFiniteSet(S) /\ Cardinality(S) = Cardinality(X)
  <2>1. \A x, y \in X : entry[x] = entry[y] => x = y
    BY DEF Entry
  <2> HIDE DEF entry
  <2> QED BY <2>1, ValuesAreFinite, ValuesAreAsMany
<1>3. /\ \A e \in S : e.score \in Int /\ e.place \in Int
      /\ \A d, e \in S : d.place = e.place => d = e
  BY DEF Entry
<1>4. /\ \A e \in S : e.of \in X /\ entry[e.of] = e /\ e.score = score[e.of]
      /\ \A x \in X : entry[x] \in S /\ entry[x].of = x
  BY DEF Entry
<1> HIDE DEF S, entry
<1>5. PICK inRank \in Seq(S) :
         /\ ranking = [k \in DOMAIN inRank |-> inRank[k].of]
         /\ Len(inRank) = Cardinality(S)
         /\ \A i, j \in DOMAIN inRank :
               i < j => inRank[i] # inRank[j] /\ inRank[i].score >= inRank[j].score
         /\ \A e \in S : \E i \in DOMAIN inRank : inRank[i] = e
  BY <1>2, <1>3, RankingProperties
<1> HIDE DEF ranking
<1>6. /\ Len(inRank) \in Nat /\ DOMAIN inRank = 1 .. Len(inRank)
      /\ \A k \in 1 .. Len(inRank) : inRank[k] \in S
  BY ElementOfSeq, LenProperties
<1>7. /\ ranking \in Seq(X) /\ Len(ranking) = Cardinality(X)
      /\ DOMAIN ranking = 1 .. Len(inRank)
  <2>1. ranking \in [1 .. Len(inRank) -> X]
    BY <1>4, <1>5, <1>6
  <2>2. ranking \in Seq(X) /\ Len(ranking) = Len(inRank)
    BY <1>6, <2>1, SeqDef, LenProperties
  <2> QED BY <1>2, <1>5, <2>1, <2>2
<1>8. ASSUME NEW i \in DOMAIN ranking, NEW j \in DOMAIN ranking, i < j
      PROVE  ranking[i] # ranking[j] /\ score[ranking[i]] >= score[ranking[j]]
  <2>1. /\ inRank[i] # inRank[j] /\ inRank[i].score >= inRank[j].score
        /\ inRank[i] \in S /\ inRank[j] \in S
        /\ ranking[i] = inRank[i].of /\ ranking[j] = inRank[j].of
    BY <1>5, <1>6, <1>7, <1>8
  <2>2. ranking[i] # ranking[j]
    BY <1>4, <2>1
  <2>3. score[ranking[i]] = inRank[i].score /\ score[ranking[j]] = inRank[j].score
    BY <1>4, <2>1
  <2> QED BY <2>1, <2>2, <2>3
<1>9. ASSUME NEW x \in X PROVE \E i \in DOMAIN ranking : ranking[i] = x
  <2>1. PICK i \in DOMAIN inRank : inRank[i] = entry[x]
    BY <1>4, <1>5
  <2>2. ranking[i] = x /\ i \in DOMAIN ranking
    BY <1>4, <1>5, <1>6, <1>7, <2>1
  <2> QED BY <2>2
<1>10. RankedBy(ranking, X, score)
  BY <1>7, <1>8, <1>9 DEF RankedBy
<1> QED BY <1>1, <1>10 DEF ranking

\* The first of a list are a list.
LEMMA UptoIsList ==
    ASSUME NEW S, NEW s \in Seq(S), NEW n \in Nat
    PROVE  /\ Upto(s, n) \in Seq(S)
           /\ \A i \in DOMAIN Upto(s, n) : i \in DOMAIN s /\ Upto(s, n)[i] = s[i]
<1> DEFINE m == Smaller(n, Len(s))
<1>1. Len(s) \in Nat /\ DOMAIN s = 1 .. Len(s)
  BY LenProperties
<1>2. m \in 0 .. Len(s)
  BY <1>1 DEF Smaller
<1> HIDE DEF m
<1>3. SubSeq(s, 1, m) \in Seq(S) /\ Len(SubSeq(s, 1, m)) = m
  BY <1>1, <1>2
<1>4. \A i \in 1 .. m : i \in 1 .. Len(s) /\ SubSeq(s, 1, m)[i] = s[i]
  BY <1>1, <1>2
<1>5. Upto(s, n) = SubSeq(s, 1, m)
  BY DEF Upto, m
<1> QED BY <1>1, <1>3, <1>4, <1>5

\* The first n are as many as there are, but at most n.
LEMMA UptoLength ==
    ASSUME NEW S, NEW s \in Seq(S), NEW n \in Nat
    PROVE  /\ Len(Upto(s, n)) = Smaller(n, Len(s)) /\ Len(Upto(s, n)) <= n
           /\ Len(s) <= n => Upto(s, n) = s
           /\ n >= 1 => (Upto(s, n) = <<>> <=> s = <<>>)
<1>1. Len(s) \in Nat
  BY LenProperties
<1>2. Smaller(n, Len(s)) \in 0 .. Len(s) /\ Smaller(n, Len(s)) <= n
  BY <1>1 DEF Smaller
<1>3. Len(SubSeq(s, 1, Smaller(n, Len(s)))) = Smaller(n, Len(s))
  BY <1>1, <1>2
<1>4. ASSUME Len(s) <= n PROVE Upto(s, n) = s
  <2>1. Smaller(n, Len(s)) = Len(s)
    BY <1>1, <1>4 DEF Smaller
  <2>2. SubSeq(s, 1, Len(s)) = s
    BY <1>1
  <2> QED BY <2>1, <2>2 DEF Upto
<1>5. ASSUME n >= 1 PROVE Upto(s, n) = <<>> <=> s = <<>>
  <2>1. Upto(s, n) \in Seq(S)
    BY UptoIsList
  <2>2. Upto(s, n) = <<>> <=> Len(Upto(s, n)) = 0
    BY <2>1, EmptySeq
  <2>3. s = <<>> <=> Len(s) = 0
    BY EmptySeq
  <2>4. Len(Upto(s, n)) = Smaller(n, Len(s))
    BY <1>3 DEF Upto
  <2>5. Smaller(n, Len(s)) = 0 <=> Len(s) = 0
    BY <1>1, <1>5 DEF Smaller
  <2> QED BY <2>2, <2>3, <2>4, <2>5
<1> QED BY <1>2, <1>3, <1>4, <1>5 DEF Upto

\* What is picked of a list is a list.
LEMMA PickIsList ==
    ASSUME NEW S, NEW s \in Seq(S), NEW I \in SUBSET DOMAIN s
    PROVE  Pick(s, I) \in Seq(S)
BY PickProperties

\* What a request sees: visible chunks, with finite texts, each with an id of its own.
LEMMA SeenChunks ==
    ASSUME NEW c, SearchAskable(c)
    PROVE  LET reached == Range(ListChunkRecords(c)) IN
           /\ ListChunkRecords(c) \in Seq(reached)
           /\ IsFiniteSet(reached) /\ Cardinality(reached) \in 0 .. Len(c.library)
           /\ \A x \in reached : \E i \in VisiblePlaces(c) : x = c.library[i]
           /\ \A x \in reached : x.chunk \in Int /\ IsFiniteSet(x.title) /\ FiniteText(x.text)
           /\ \A x, y \in reached : x.chunk = y.chunk => x = y
<1> DEFINE s == c.library
           S == Range(s)
           V == VisiblePlaces(c)
           records == ListChunkRecords(c)
           reached == Range(records)
<1>1. /\ s \in Seq(S) /\ Len(s) \in Nat /\ DOMAIN s = 1 .. Len(s) /\ V \in SUBSET DOMAIN s
      /\ records = Pick(s, V)
  BY LenProperties DEF SearchAskable, StoredLibrary, VisiblePlaces, ListChunkRecords
<1>2. /\ \A i \in DOMAIN s : s[i].chunk \in Int /\ IsFiniteSet(s[i].title) /\ FiniteText(s[i].text)
      /\ \A i, j \in DOMAIN s : s[i].chunk = s[j].chunk => i = j
  BY DEF SearchAskable, ReadableChunks, Range
<1> HIDE DEF s, S, V, records
<1>3. /\ records \in Seq(S) /\ \A k \in DOMAIN records : \E i \in V : records[k] = s[i]
  BY <1>1, PickProperties
<1>4. /\ Len(records) \in Nat /\ DOMAIN records = 1 .. Len(records)
      /\ records = [k \in 1 .. Len(records) |-> records[k]]
  BY <1>3, LenProperties
<1>5. \A x \in reached : \E i \in V : x = s[i]
  BY <1>3 DEF Range
<1>6. records \in Seq(reached)
  <2>1. records \in [1 .. Len(records) -> reached]
    BY <1>4 DEF Range
  <2> HIDE DEF reached
  <2> QED BY <1>4, <2>1, SeqDef
<1>7. IsFiniteSet(reached) /\ Cardinality(reached) \in 0 .. Len(s)
  <2> DEFINE all == {s[i] : i \in DOMAIN s}
             at == [i \in 1 .. Len(s) |-> s[i]]
  <2>1. IsFiniteSet(1 .. Len(s)) /\ Cardinality(1 .. Len(s)) = Len(s)
    <3> DEFINE n == Len(s)
    <3>1. n \in Nat
      BY <1>1
    <3> HIDE DEF n
    <3>2. IsFiniteSet(1 .. n) /\ Cardinality(1 .. n) = IF 1 > n THEN 0 ELSE n - 1 + 1
      BY <3>1, FS_Interval
    <3>3. Cardinality(1 .. n) = n
      BY <3>1, <3>2
    <3> QED BY <3>2, <3>3 DEF n
  <2>2. at \in Surjection(1 .. Len(s), all)
    BY <1>1 DEF Surjection
  <2> HIDE DEF at
  <2>3. IsFiniteSet(all) /\ Cardinality(all) <= Len(s)
    BY <2>1, <2>2, FS_Surjection
  <2>4. reached \in SUBSET all
    BY <1>1, <1>5
  <2> HIDE DEF reached, all
  <2>5. IsFiniteSet(reached) /\ Cardinality(reached) <= Cardinality(all)
    BY <2>3, <2>4, FS_Subset
  <2>6. Cardinality(reached) \in Nat /\ Cardinality(all) \in Nat
    BY <2>3, <2>5, FS_CardinalityType
  <2> QED BY <1>1, <2>3, <2>5, <2>6
<1>8. \A x \in reached : x.chunk \in Int /\ IsFiniteSet(x.title) /\ FiniteText(x.text)
  BY <1>1, <1>2, <1>5
<1>9. \A x, y \in reached : x.chunk = y.chunk => x = y
  BY <1>1, <1>2, <1>5
<1> HIDE DEF reached
<1> QED BY <1>5, <1>6, <1>7, <1>8, <1>9 DEF s, V, reached, records

\* A text has finitely many words and years.
LEMMA TermsAreFinite ==
    ASSUME NEW text, FiniteText(text)
    PROVE  IsFiniteSet(WordsIn(text)) /\ IsFiniteSet(YearsIn(text))
<1> DEFINE words == [i \in DOMAIN text |-> text[i].words]
           years == [i \in DOMAIN text |-> text[i].years]
<1>1. IsFiniteSet(DOMAIN text)
  <2>1. Len(text) \in Nat /\ DOMAIN text = 1 .. Len(text)
    BY LenProperties DEF FiniteText
  <2> QED BY <2>1, FS_Interval
<1>2. \A i \in DOMAIN text : IsFiniteSet(words[i]) /\ IsFiniteSet(years[i])
  BY DEF FiniteText
<1>3. /\ WordsIn(text) = UNION {words[i] : i \in DOMAIN text}
      /\ YearsIn(text) = UNION {years[i] : i \in DOMAIN text}
  BY DEF WordsIn, YearsIn
<1> HIDE DEF words, years
<1>4. IsFiniteSet({words[i] : i \in DOMAIN text}) /\ IsFiniteSet({years[i] : i \in DOMAIN text})
  BY <1>1, ValuesAreFinite
<1>5. IsFiniteSet(UNION {words[i] : i \in DOMAIN text})
  BY <1>2, <1>4, FS_UNION
<1>6. IsFiniteSet(UNION {years[i] : i \in DOMAIN text})
  BY <1>2, <1>4, FS_UNION
<1> QED BY <1>3, <1>5, <1>6

\* The numbers of finitely many are numbers.
LEMMA CountsAreNumbers ==
    ASSUME NEW S, IsFiniteSet(S), NEW T \in SUBSET S
    PROVE  IsFiniteSet(T) /\ Cardinality(T) \in Nat
BY FS_Subset, FS_CardinalityType

\* The words of a question that a chunk has are counted.
LEMMA CommonIsNumber ==
    ASSUME NEW q, NEW chunk, FiniteText(chunk.text)
    PROVE  Common(q, chunk) \in Int
<1> DEFINE S == WordsIn(chunk.text) \cup YearsIn(chunk.text)
           T == SearchTerms(q) \cap S
<1>1. IsFiniteSet(S)
  BY TermsAreFinite, FS_Union
<1>2. T \in SUBSET S
  OBVIOUS
<1>3. Common(q, chunk) = Cardinality(T)
  BY DEF Common
<1> HIDE DEF S, T
<1>4. Cardinality(T) \in Nat
  BY <1>1, <1>2, CountsAreNumbers
<1> QED BY <1>3, <1>4

\* The score of the exact channel is a number.
LEMMA ExactScoreIsNumber ==
    ASSUME NEW q, WellAsked(q), NEW chunk, NEW matched \in SUBSET q.anchors, matched # {}
    PROVE  ExactScore(q, chunk, matched) \in Int
<1> DEFINE count == [a \in matched |-> Cardinality(a.words)]
           longest == CHOOSE a \in matched :
                          \A b \in matched : Cardinality(b.words) <= Cardinality(a.words)
           titled == {a \in q.anchors : a.words \subseteq chunk.title}
           numbered == {a \in matched : a.digits}
<1>1. /\ IsFiniteSet(matched) /\ IsFiniteSet(q.anchors)
      /\ Cardinality(matched) \in Nat /\ Cardinality(q.anchors) \in Nat
  BY CountsAreNumbers DEF WellAsked, FiniteWords
<1>2. Cardinality(numbered) \in Nat /\ Cardinality(titled) \in Nat
  BY <1>1, CountsAreNumbers
<1>3. \A a \in matched : count[a] \in Nat
  BY FS_CardinalityType DEF WellAsked, FiniteWords
<1>4. longest \in matched
  <2> DEFINE I == {count[a] : a \in matched}
  <2>1. IsFiniteSet(I) /\ I # {} /\ I \in SUBSET Int
    <3>1. I # {} /\ I \in SUBSET Int
      BY <1>3
    <3> HIDE DEF count
    <3> QED BY <1>1, <3>1, ValuesAreFinite
  <2> HIDE DEF I
  <2>2. PICK i \in I : \A j \in I : j <= i
    BY <2>1, LargestExists
  <2>3. \E a \in matched : \A b \in matched : Cardinality(b.words) <= Cardinality(a.words)
    BY <2>2 DEF I
  <2> QED BY <2>3
<1>5. Cardinality(longest.words) \in Nat
  BY <1>3, <1>4
<1>6. ExactScore(q, chunk, matched) =
        40 * Cardinality(matched)
          + Cardinality(q.anchors) * (6 * Cardinality(numbered)
                + Smaller(10, 2 * Cardinality(longest.words)) + Smaller(6, Cardinality(titled)))
  BY DEF ExactScore
<1> HIDE DEF longest, titled, numbered
<1>7. Smaller(10, 2 * Cardinality(longest.words)) \in Int /\ Smaller(6, Cardinality(titled)) \in Int
  BY <1>2, <1>5 DEF Smaller
<1>8. 6 * Cardinality(numbered) + Smaller(10, 2 * Cardinality(longest.words))
         + Smaller(6, Cardinality(titled)) \in Int
  BY <1>2, <1>7
<1> QED BY <1>1, <1>6, <1>8

\* The score of the portable full text channel is a number.
LEMMA LexicalScoreIsNumber ==
    ASSUME NEW q, NEW corpus, IsFiniteSet(corpus), NEW chunk \in corpus, NEW terms,
           IsFiniteSet(terms),
           \A n \in 1 .. Cardinality(corpus) : \A f \in 1 .. n : Rarity[n][f] \in Int
    PROVE  LexicalScore(q, chunk, corpus, terms, terms \cap ChunkTerms(chunk)) \in Int
<1> DEFINE common == terms \cap ChunkTerms(chunk)
           holders(t) == {d \in corpus : t \in ChunkTerms(d)}
           rare == [t \in common |-> Rarity[Cardinality(corpus)][Cardinality(holders(t))]]
           phrase == \E a \in q.anchors : Cardinality(a.words) = 2 /\ AnchorIn(a, chunk.text)
           bonus == IF phrase THEN 25 ELSE 0
<1>1. LexicalScore(q, chunk, corpus, terms, common) =
        Cardinality(common) * AddUp(common, rare)
          + Cardinality(terms) * (15 * Cardinality(terms \cap chunk.title) + bonus)
  BY DEF LexicalScore
<1>2. /\ IsFiniteSet(common) /\ Cardinality(common) \in Nat /\ Cardinality(terms) \in Nat
      /\ Cardinality(terms \cap chunk.title) \in Nat
  BY CountsAreNumbers
<1>3. ASSUME NEW t \in common PROVE rare[t] \in Int
  <2> DEFINE n == Cardinality(corpus)
             f == Cardinality(holders(t))
  <2>1. holders(t) \in SUBSET corpus /\ chunk \in holders(t)
    OBVIOUS
  <2> HIDE DEF holders
  <2>2. f <= n /\ f \in Nat /\ n \in Nat /\ f # 0
    BY <2>1, FS_Subset, FS_CardinalityType, FS_EmptySet
  <2>3. n \in 1 .. n /\ f \in 1 .. n
    BY <2>2
  <2>4. Rarity[n][f] \in Int
    BY <2>3
  <2> QED BY <2>4
<1> HIDE DEF rare, common
<1>4. AddUp(common, rare) \in Int
  BY <1>2, <1>3, AddUpIsNumber
<1>5. bonus \in Int
  OBVIOUS
<1> HIDE DEF bonus
<1> QED BY <1>1, <1>2, <1>4, <1>5 DEF common

\* The places of a sample lie within what is sampled: i of n - 1 steps over m places.
LEMMA StepIsWithin ==
    ASSUME NEW m \in Nat, NEW b \in Nat, b >= 1, NEW i \in 0 .. b
    PROVE  HalfEven(i * m, b) \in 0 .. m
<1> DEFINE a == i * m
           down == a \div b
           rest == a % b
<1>1. a \in Nat /\ a <= b * m
  <2>1. (b - i) * m >= 0 /\ (b - i) * m = b * m - i * m
    OBVIOUS
  <2>2. i * m \in Nat
    OBVIOUS
  <2> QED BY <2>1, <2>2
<1> HIDE DEF a
<1>2. /\ down \in Nat /\ rest \in 0 .. b - 1
      /\ a = b * down + rest
  BY <1>1
<1> HIDE DEF down, rest
<1>3. down <= m
  <2> SUFFICES ASSUME down >= m + 1 PROVE FALSE
    BY <1>2
  <2>1. b * (down - (m + 1)) >= 0 /\ b * (down - (m + 1)) = b * down - b * m - b
    BY <1>2
  <2> QED BY <1>1, <1>2, <2>1
<1>4. CASE down = m
  <2>1. rest = 0
    BY <1>1, <1>2, <1>4
  <2>2. HalfEven(a, b) = down
    BY <2>1 DEF HalfEven, rest, down
  <2> QED BY <1>2, <1>4, <2>2 DEF a
<1>5. CASE down # m
  <2>1. HalfEven(a, b) = down \/ HalfEven(a, b) = down + 1
    BY DEF HalfEven, down
  <2> QED BY <1>2, <1>3, <1>5, <2>1 DEF a
<1> QED BY <1>4, <1>5

\* A sample is a list of what is sampled, and no longer than asked for.
LEMMA SampleIsList ==
    ASSUME NEW S, NEW usable \in Seq(S), usable # <<>>, NEW size \in 0 .. Len(usable)
    PROVE  Sampled(usable, size) \in Seq(S) /\ Len(Sampled(usable, size)) <= size
<1> DEFINE I == IF size = 1 THEN {1}
                ELSE {1 + HalfEven(i * (Len(usable) - 1), size - 1) : i \in 0 .. (size - 1)}
<1>1. Len(usable) \in Nat /\ Len(usable) >= 1 /\ DOMAIN usable = 1 .. Len(usable)
  BY LenProperties, EmptySeq
<1>2. I \in SUBSET DOMAIN usable
  <2>1. CASE size = 1
    BY <1>1, <2>1
  <2>2. CASE size # 1
    <3> SUFFICES ASSUME NEW i \in 0 .. (size - 1)
                 PROVE  1 + HalfEven(i * (Len(usable) - 1), size - 1) \in 1 .. Len(usable)
      BY <1>1, <2>2
    <3> DEFINE m == Len(usable) - 1
               b == size - 1
    <3>1. m \in Nat /\ b \in Nat /\ b >= 1 /\ i \in 0 .. b
      BY <1>1, <2>2
    <3> HIDE DEF m, b
    <3>2. HalfEven(i * m, b) \in 0 .. m
      BY <3>1, StepIsWithin
    <3>3. 1 + HalfEven(i * m, b) \in 1 .. m + 1
      BY <3>1, <3>2
    <3>4. m + 1 = Len(usable)
      BY <1>1 DEF m
    <3> QED BY <3>3, <3>4 DEF m, b
  <2> QED BY <2>1, <2>2
<1>3. Sampled(usable, size) = Pick(usable, I)
  BY DEF Sampled
<1>4. Cardinality(I) <= size
  <2>1. CASE size = 1
    <3>1. I = {1}
      BY <2>1
    <3>2. Cardinality({1}) = 1
      BY FS_Singleton
    <3> HIDE DEF I
    <3>3. Cardinality(I) = 1
      BY <3>1, <3>2
    <3> QED BY <2>1, <3>3
  <2>2. CASE size # 1
    <3> DEFINE place == [i \in 0 .. (size - 1) |-> 1 + HalfEven(i * (Len(usable) - 1), size - 1)]
               T == {place[i] : i \in 0 .. (size - 1)}
    <3>1. IsFiniteSet(0 .. (size - 1)) /\ Cardinality(0 .. (size - 1)) = size
      <4>1. size \in Nat /\ 0 \in Int /\ size - 1 \in Int
        BY <1>1
      <4>2. /\ IsFiniteSet(0 .. (size - 1))
            /\ Cardinality(0 .. (size - 1)) = IF 0 > size - 1 THEN 0 ELSE (size - 1) - 0 + 1
        BY <4>1, FS_Interval
      <4> QED BY <4>1, <4>2
    <3>2. place \in Surjection(0 .. (size - 1), T)
      BY DEF Surjection
    <3>3. I = T
      BY <2>2
    <3> HIDE DEF place, T, I
    <3>4. Cardinality(T) <= Cardinality(0 .. (size - 1))
      BY <3>1, <3>2, FS_Surjection
    <3> QED BY <3>1, <3>3, <3>4
  <2> QED BY <2>1, <2>2
<1> HIDE DEF I
<1> QED BY <1>2, <1>3, <1>4, PickProperties

\* Each channel ranks at most so many chunks, all of which the request sees.
LEMMA ChannelsSeeOnly ==
    ASSUME NEW c, SearchAskable(c), NEW q, WellAsked(q), NEW pool \in Nat
    PROVE  \A ch \in Channels : /\ Rankings(q, c, pool)[ch] \in Seq(Range(ListChunkRecords(c)))
                                /\ Len(Rankings(q, c, pool)[ch]) <= pool
<1> DEFINE records == ListChunkRecords(c)
           reached == Range(records)
           Brief == {s \in Seq(reached) : Len(s) <= pool}
<1>1. /\ records \in Seq(reached)
      /\ IsFiniteSet(reached) /\ Cardinality(reached) \in 0 .. Len(c.library)
      /\ \A x \in reached : x.chunk \in Int /\ IsFiniteSet(x.title) /\ FiniteText(x.text)
      /\ \A x, y \in reached : x.chunk = y.chunk => x = y
  BY SeenChunks
<1>0. <<>> \in Brief
  BY EmptySeq
<1> HIDE DEF reached, records
<1>2. ASSUME NEW X \in SUBSET reached, NEW score, \A x \in X : score[x] \in Int
      PROVE  Upto(ByScore({Entry(x, score[x], x.chunk) : x \in X}), pool) \in Brief
  <2> DEFINE ranking == ByScore({Entry(x, score[x], x.chunk) : x \in X})
  <2>1. IsFiniteSet(X)
    BY <1>1, FS_Subset
  <2>2. \A x \in X : score[x] \in Int /\ x.chunk \in Int
    BY <1>1, <1>2
  <2>3. \A x, y \in X : x.chunk = y.chunk => x = y
    BY <1>1
  <2>7. RankedBy(ranking, X, score)
    BY <2>1, <2>2, <2>3, RankedByScore
  <2>4. ranking \in Seq(X)
    BY <2>7 DEF RankedBy
  <2> HIDE DEF ranking
  <2>5. Upto(ranking, pool) \in Seq(X) /\ Len(Upto(ranking, pool)) <= pool
    BY <2>4, UptoIsList, UptoLength
  <2>6. Upto(ranking, pool) \in Brief
    BY <2>5
  <2> QED BY <2>6 DEF ranking
<1>3. ExactResults(q, c, pool) \in Brief
  <2> DEFINE X == {x \in reached : MatchedAnchors(q, x) # {}}
             score == [x \in X |-> ExactScore(q, x, MatchedAnchors(q, x))]
  <2>1. \A x \in X : score[x] \in Int
    <3> SUFFICES ASSUME NEW x \in X PROVE ExactScore(q, x, MatchedAnchors(q, x)) \in Int
      OBVIOUS
    <3>1. MatchedAnchors(q, x) \in SUBSET q.anchors /\ MatchedAnchors(q, x) # {}
      BY DEF MatchedAnchors
    <3> QED BY <3>1, ExactScoreIsNumber
  <2>2. ExactResults(q, c, pool)
           = Upto(ByScore({Entry(x, ExactScore(q, x, MatchedAnchors(q, x)), x.chunk) : x \in X}), pool)
    BY DEF ExactResults, ExactRanking, reached, records
  <2>3. {Entry(x, ExactScore(q, x, MatchedAnchors(q, x)), x.chunk) : x \in X}
           = {Entry(x, score[x], x.chunk) : x \in X}
    OBVIOUS
  <2>4. X \in SUBSET reached
    OBVIOUS
  <2> HIDE DEF X, score
  <2>5. Upto(ByScore({Entry(x, score[x], x.chunk) : x \in X}), pool) \in Brief
    BY <1>2, <2>1, <2>4
  <2> QED BY <2>2, <2>3, <2>5
<1>4. PortableFullTextResults(q, c, pool) \in Brief
  <2> DEFINE terms == SearchTerms(q)
             X == {x \in reached : Overlapping(terms, x)}
             ValueOf(x) == LexicalScore(q, x, reached, terms, terms \cap ChunkTerms(x))
             score == [x \in X |-> ValueOf(x)]
  <2>1. \A x \in X : ValueOf(x) \in Int
    <3> SUFFICES ASSUME NEW x \in X PROVE ValueOf(x) \in Int
      OBVIOUS
    <3>1. IsFiniteSet(terms)
      BY FS_Union DEF SearchTerms, WellAsked, FiniteWords
    <3>2. \A n \in 1 .. Cardinality(reached) : \A f \in 1 .. n : Rarity[n][f] \in Int
      <4>1. Len(c.library) \in Nat
        BY LenProperties DEF SearchAskable, StoredLibrary
      <4>2. \A n \in 1 .. Cardinality(reached) : n \in 1 .. Len(c.library)
        BY <1>1, <4>1
      <4> QED BY <4>2 DEF SearchAskable
    <3> HIDE DEF terms
    <3> QED BY <1>1, <3>1, <3>2, LexicalScoreIsNumber
  <2>2. PortableFullTextResults(q, c, pool)
           = Upto(ByScore({Entry(x, ValueOf(x), x.chunk) : x \in X}), pool)
    BY DEF PortableFullTextResults, LexicalRanking, reached, records
  <2> HIDE DEF ValueOf
  <2>3. {Entry(x, ValueOf(x), x.chunk) : x \in X} = {Entry(x, score[x], x.chunk) : x \in X}
    OBVIOUS
  <2>4. X \in SUBSET reached /\ \A x \in X : score[x] \in Int
    BY <2>1
  <2> HIDE DEF X, score
  <2>5. Upto(ByScore({Entry(x, score[x], x.chunk) : x \in X}), pool) \in Brief
    BY <1>2, <2>4
  <2> QED BY <2>2, <2>3, <2>5
<1>5. SearchChunksFullText(q, c, pool) \in Brief
  <2> DEFINE X == {x \in reached : Common(q, x) > 0}
             score == [x \in X |-> Common(q, x)]
  <2>1. X \in SUBSET reached /\ \A x \in X : score[x] \in Int
    BY <1>1, CommonIsNumber
  <2>2. SearchChunksFullText(q, c, pool)
           = Upto(ByScore({Entry(x, Common(q, x), x.chunk) : x \in X}), pool)
    BY DEF SearchChunksFullText, FullTextRanking, reached, records
  <2>3. {Entry(x, Common(q, x), x.chunk) : x \in X} = {Entry(x, score[x], x.chunk) : x \in X}
    OBVIOUS
  <2> HIDE DEF X, score
  <2>4. Upto(ByScore({Entry(x, score[x], x.chunk) : x \in X}), pool) \in Brief
    BY <1>2, <2>1
  <2> QED BY <2>2, <2>3, <2>4
<1>6. SemanticResults(q, c, pool) \in Brief
  <2> DEFINE rows == ListChunkEmbeddings(c)
             entry == [i \in DOMAIN rows |-> Entry(rows[i], Common(q, rows[i]), i)]
             S == {entry[i] : i \in DOMAIN rows}
  <2>1. rows \in Seq(reached)
    <3>1. {i \in DOMAIN records : records[i].embedded} \in SUBSET DOMAIN records
      OBVIOUS
    <3> QED BY <1>1, <3>1, PickIsList DEF ListChunkEmbeddings, EmbeddedChunks, records
  <2>2. SemanticResults(q, c, pool) \in {<<>>, Upto(ByScore(S), pool)}
    <3>1. S = {Entry(rows[i], Common(q, rows[i]), i) : i \in DOMAIN rows}
      OBVIOUS
    <3> HIDE DEF entry
    <3> QED BY <3>1 DEF SemanticResults, BySimilarity
  <2> HIDE DEF rows
  <2>3. Len(rows) \in Nat /\ DOMAIN rows = 1 .. Len(rows) /\ \A i \in DOMAIN rows : rows[i] \in reached
    BY <2>1, LenProperties, ElementOfSeq
  <2>4. IsFiniteSet(S)
    <3>1. IsFiniteSet(DOMAIN rows)
      BY <2>3, FS_Interval
    <3> HIDE DEF entry
    <3> QED BY <3>1, ValuesAreFinite
  <2>5. /\ \A e \in S : e.of \in reached /\ e.score \in Int /\ e.place \in Int
        /\ \A d, e \in S : d.place = e.place => d = e
    BY <1>1, <2>3, CommonIsNumber DEF Entry
  <2> HIDE DEF S
  <2>6. ByScore(S) \in Seq(reached)
    BY <2>4, <2>5, RankingIsList
  <2>7. Upto(ByScore(S), pool) \in Brief
    BY <2>6, UptoIsList, UptoLength
  <2> HIDE DEF Brief
  <2> QED BY <1>0, <2>2, <2>7
<1>7. DocumentSummaryResults(q, c, pool) \in Brief
  <2> DEFINE usable == UsableChunks(records)
             size == Smaller(pool, Len(usable))
  <2>1. usable \in Seq(reached)
    <3>1. {i \in DOMAIN records : SizeOf(records[i].text) >= 40} \in SUBSET DOMAIN records
      OBVIOUS
    <3> QED BY <1>1, <3>1, PickIsList DEF UsableChunks
  <2>2. DocumentSummaryResults(q, c, pool) \in {<<>>, Sampled(usable, size)}
           /\ (DocumentSummaryResults(q, c, pool) # <<>> => usable # <<>>)
    BY DEF DocumentSummaryResults, SummarySample, records
  <2> HIDE DEF usable
  <2>3. Len(usable) \in Nat
    BY <2>1, LenProperties
  <2>4. size \in 0 .. Len(usable) /\ size <= pool
    BY <2>3 DEF Smaller
  <2> HIDE DEF size
  <2>5. ASSUME usable # <<>> PROVE Sampled(usable, size) \in Brief
    <3>1. Sampled(usable, size) \in Seq(reached) /\ Len(Sampled(usable, size)) <= size
      BY <2>1, <2>4, <2>5, SampleIsList
    <3>2. Len(Sampled(usable, size)) \in Nat
      BY <3>1, LenProperties
    <3> QED BY <2>3, <2>4, <3>1, <3>2
  <2> HIDE DEF Brief
  <2> QED BY <1>0, <2>2, <2>5
<1>8. FullTextResults(q, c, pool) \in Brief
  BY <1>4, <1>5 DEF FullTextResults
<1> QED BY <1>3, <1>6, <1>7, <1>8 DEF Rankings, Channels, Brief, reached, records

\* There are finitely many channels.
LEMMA FewChannels == IsFiniteSet(Channels)
<1>1. \A x, y : IsFiniteSet({x} \cup {y})
  BY FS_Singleton, FS_Union
<1>2. IsFiniteSet({"exact"} \cup {"full_text"}) /\ IsFiniteSet({"semantic"} \cup {"document_summary"})
  BY <1>1
<1>3. Channels = ({"exact"} \cup {"full_text"}) \cup ({"semantic"} \cup {"document_summary"})
  BY DEF Channels
<1> QED BY <1>2, <1>3, FS_Union

\* The score of the fusion is a number.
LEMMA FusedScoreIsNumber ==
    ASSUME NEW S, NEW rankings, \A ch \in Channels : rankings[ch] \in Seq(S), NEW chunk
    PROVE  FusedScore(rankings, chunk) \in Int /\ Cardinality(Signals(rankings, chunk)) \in Nat
<1> DEFINE share == [ch \in Channels |-> Weight(ch) * RankShare(RankOf(rankings[ch], chunk))]
           signals == Signals(rankings, chunk)
<1>1. IsFiniteSet(Channels)
  BY FewChannels
<1>2. IsFiniteSet(signals) /\ Cardinality(signals) \in Nat
  BY <1>1, CountsAreNumbers DEF Signals
<1>3. ASSUME NEW ch \in signals PROVE share[ch] \in Int
  <2> DEFINE ranking == rankings[ch]
             rank == RankOf(ranking, chunk)
  <2>1. ch \in Channels /\ chunk \in Range(ranking)
    BY DEF Signals
  <2>2. ranking \in Seq(S)
    BY <2>1
  <2> HIDE DEF ranking
  <2>3. \E i \in DOMAIN ranking : ranking[i] = chunk
    BY <2>1 DEF Range
  <2>4. rank \in DOMAIN ranking
    BY <2>3 DEF RankOf
  <2>5. rank \in Nat
    BY <2>2, <2>4, LenProperties
  <2> HIDE DEF rank
  <2>6. RankShare(rank) \in Int
    BY <2>5 DEF RankShare, RrfK
  <2>7. Weight(ch) \in Int
    BY DEF Weight
  <2>8. Weight(ch) * RankShare(rank) \in Int
    BY <2>6, <2>7
  <2> QED BY <2>1, <2>8 DEF rank, ranking
<1>4. FusedScore(rankings, chunk) = AddUp(signals, share)
  BY DEF FusedScore
<1> HIDE DEF share, signals
<1>5. AddUp(signals, share) \in Int
  BY <1>2, <1>3, AddUpIsNumber
<1> QED BY <1>2, <1>4, <1>5 DEF signals

\* The ranks a channel can give.
Places == 1 .. 10000

\* The share of a rank is a number.
LEMMA ShareIsNumber == ASSUME NEW i \in Places PROVE RankShare(i) \in Nat
<1> DEFINE n == 495593280
           x == 60 + i
<1>1. RankShare(i) = n \div x
  BY DEF RankShare, RrfK
<1>2. n \in Nat /\ x \in Nat \ {0}
  BY DEF Places
<1> HIDE DEF n, x
<1>3. n \div x \in Nat
  BY <1>2
<1> QED BY <1>1, <1>3

\* A later rank has a smaller share, for any rank a channel can give.
LEMMA ShareFalls ==
    ASSUME NEW i \in Places, NEW j \in Places, i < j
    PROVE  RankShare(i) \in Nat /\ RankShare(j) \in Nat /\ RankShare(j) < RankShare(i)
<1> i \in 1 .. 10000 /\ j \in 1 .. 10000
  BY DEF Places
<1> DEFINE n == 495593280
           x == 60 + i
           y == 60 + j
           top == 10060
<1>1. RankShare(i) = n \div x /\ RankShare(j) = n \div y
  BY DEF RankShare, RrfK
<1>2. /\ n \in Nat /\ x \in Int /\ y \in Int /\ top \in Int
      /\ x >= 1 /\ x + 1 <= y /\ y <= top /\ n > top * top
  OBVIOUS
<1> HIDE DEF n, x, y, top
<1> USE <1>2
<1> DEFINE a == n \div y
           b == n \div x
           r == n % y
           s == n % x
<1>3. a \in Nat /\ r \in Nat /\ r < y /\ n = y * a + r
  OBVIOUS
<1>4. b \in Nat /\ s \in Nat /\ s < x /\ n = x * b + s
  OBVIOUS
<1> HIDE DEF a, b, r, s
<1>5. y * y <= top * top
  <2>1. y * y <= y * top /\ y * top <= top * top
    OBVIOUS
  <2>2. y * y \in Int /\ y * top \in Int /\ top * top \in Int
    OBVIOUS
  <2> QED BY <2>1, <2>2
<1>6. a >= x
  <2> SUFFICES ASSUME a <= y - 2 PROVE FALSE
    BY <1>3
  <2>1. y * a <= y * (y - 2) /\ y * (y - 2) = y * y - 2 * y
    BY <1>3
  <2>2. y * a \in Int /\ y * y \in Int /\ top * top \in Int
    BY <1>3
  <2> QED BY <1>3, <1>5, <2>1, <2>2
<1>7. b > a
  <2> SUFFICES ASSUME b <= a PROVE FALSE
    BY <1>3, <1>4
  <2>1. x * b <= x * a
    BY <1>3, <1>4
  <2>2. x * a + a <= y * a
    <3>1. (y - (x + 1)) * a >= 0 /\ (y - (x + 1)) * a = y * a - x * a - a
      BY <1>3
    <3>2. x * a \in Int /\ y * a \in Int
      BY <1>3
    <3> QED BY <1>3, <3>1, <3>2
  <2>3. x * b \in Int /\ x * a \in Int /\ y * a \in Int
    BY <1>3, <1>4
  <2> QED BY <1>3, <1>4, <1>6, <2>1, <2>2, <2>3
<1> QED BY <1>1, <1>3, <1>4, <1>7 DEF a, b

\* The rank of what a channel finds is a place in it.
LEMMA RankIsPlace ==
    ASSUME NEW S, NEW ranking \in Seq(S), NEW chunk \in Range(ranking)
    PROVE  RankOf(ranking, chunk) \in 1 .. Len(ranking)
<1>1. \E i \in DOMAIN ranking : ranking[i] = chunk
  BY DEF Range
<1>2. RankOf(ranking, chunk) \in DOMAIN ranking
  BY <1>1 DEF RankOf
<1> QED BY <1>2, LenProperties

\* Channels that find no more than the shares of ranks tell apart.
ShortRankings(rankings) ==
    \A ch \in Channels : \E S : rankings[ch] \in Seq(S) /\ Len(rankings[ch]) <= 10000

\* Every channel that finds the one finds the other before it.
FoundBefore(rankings, ahead, behind) ==
    \A ch \in Signals(rankings, behind) :
       /\ ch \in Signals(rankings, ahead)
       /\ RankOf(rankings[ch], ahead) < RankOf(rankings[ch], behind)

\* What every channel that finds another one finds before it has the higher score.
LEMMA FusedScoreGrows ==
    ASSUME NEW rankings, ShortRankings(rankings),
           NEW ahead, NEW behind, Signals(rankings, behind) # {},
           FoundBefore(rankings, ahead, behind)
    PROVE  5 * FusedScore(rankings, behind) + Cardinality(Signals(rankings, behind))
              < 5 * FusedScore(rankings, ahead) + Cardinality(Signals(rankings, ahead))
<1> DEFINE A == Signals(rankings, ahead)
           B == Signals(rankings, behind)
           Rank(ch, chunk) == RankOf(rankings[ch], chunk)
           f == [ch \in Channels |-> Weight(ch) * RankShare(RankOf(rankings[ch], ahead))]
           g == [ch \in Channels |-> Weight(ch) * RankShare(RankOf(rankings[ch], behind))]
<1>1. A \in SUBSET Channels /\ B \in SUBSET A /\ B # {}
  BY DEF Signals, FoundBefore
<1>2. IsFiniteSet(A) /\ Cardinality(A) \in Nat /\ Cardinality(B) \in Nat
         /\ Cardinality(B) <= Cardinality(A)
  <2>1. IsFiniteSet(A)
    BY <1>1, FewChannels, FS_Subset
  <2> HIDE DEF A, B
  <2>2. IsFiniteSet(B) /\ Cardinality(B) <= Cardinality(A)
    BY <1>1, <2>1, FS_Subset
  <2> QED BY <2>1, <2>2, FS_CardinalityType
<1>3. ASSUME NEW ch \in Channels, NEW chunk \in Range(rankings[ch])
      PROVE  Rank(ch, chunk) \in Places
  <2>1. PICK S : rankings[ch] \in Seq(S) /\ Len(rankings[ch]) <= 10000
    BY DEF ShortRankings
  <2> DEFINE length == Len(rankings[ch])
  <2>2. length \in Nat /\ length <= 10000
    BY <2>1, LenProperties
  <2>3. Rank(ch, chunk) \in 1 .. length
    BY <2>1, RankIsPlace
  <2> HIDE DEF length
  <2>4. 1 .. length \in SUBSET Places
    BY <2>2 DEF Places
  <2> QED BY <2>3, <2>4
<1>4. ASSUME NEW ch \in Channels, NEW i \in Places
      PROVE  Weight(ch) * RankShare(i) \in Nat
  <2>1. RankShare(i) \in Nat
    BY ShareIsNumber
  <2>2. Weight(ch) = 1 \/ Weight(ch) = 3
    BY DEF Weight
  <2> QED BY <2>1, <2>2
<1>5. ASSUME NEW ch \in Channels, NEW i \in Places, NEW j \in Places, i < j
      PROVE  Weight(ch) * RankShare(j) < Weight(ch) * RankShare(i)
  <2>1. RankShare(i) \in Nat /\ RankShare(j) \in Nat /\ RankShare(j) < RankShare(i)
    BY <1>5, ShareFalls
  <2>2. Weight(ch) = 1 \/ Weight(ch) = 3
    BY DEF Weight
  <2> QED BY <2>1, <2>2
<1>6. ASSUME NEW ch \in A PROVE f[ch] \in Nat
  <2>1. ch \in Channels /\ ahead \in Range(rankings[ch])
    BY <1>6 DEF Signals
  <2> DEFINE i == RankOf(rankings[ch], ahead)
  <2>2. i \in Places
    BY <1>3, <2>1
  <2>3. f[ch] = Weight(ch) * RankShare(i)
    BY <2>1
  <2> HIDE DEF i, f
  <2> QED BY <1>4, <2>1, <2>2, <2>3
<1>7. ASSUME NEW ch \in B PROVE g[ch] \in Nat /\ g[ch] < f[ch]
  <2>1. ch \in Channels /\ behind \in Range(rankings[ch]) /\ ahead \in Range(rankings[ch])
    BY <1>1, <1>7 DEF Signals
  <2> DEFINE i == RankOf(rankings[ch], ahead)
             j == RankOf(rankings[ch], behind)
  <2>2. i \in Places /\ j \in Places
    BY <1>3, <2>1
  <2>3. i < j
    BY <1>7 DEF FoundBefore
  <2>4. f[ch] = Weight(ch) * RankShare(i) /\ g[ch] = Weight(ch) * RankShare(j)
    BY <2>1
  <2> HIDE DEF i, j, f, g
  <2> QED BY <1>4, <1>5, <2>1, <2>2, <2>3, <2>4
<1>8. FusedScore(rankings, ahead) = AddUp(A, f) /\ FusedScore(rankings, behind) = AddUp(B, g)
  BY DEF FusedScore
<1> HIDE DEF A, B, f, g
<1>9. AddUp(A, f) \in Nat /\ AddUp(B, g) \in Nat /\ AddUp(B, g) < AddUp(A, f)
  BY <1>1, <1>2, <1>6, <1>7, AddUpFalls
<1>10. 5 * AddUp(B, g) + Cardinality(B) < 5 * AddUp(A, f) + Cardinality(A)
  BY <1>2, <1>9
<1> QED BY <1>8, <1>10 DEF A, B

\* What the channels rank is fused, each chunk once and none before one of a higher score, and of
\* each text one is kept.
LEMMA FusionIsList ==
    ASSUME NEW S, IsFiniteSet(S), \A x \in S : x.chunk \in Int,
           \A x, y \in S : x.chunk = y.chunk => x = y,
           NEW rankings, \A ch \in Channels : rankings[ch] \in Seq(S)
    PROVE  LET fused == RrfFuse(rankings)
               kept == DeduplicateResults(fused)
               ValueOf(x) == 5 * FusedScore(rankings, x) + Cardinality(Signals(rankings, x))
           IN /\ fused \in Seq(S) /\ \A i \in DOMAIN fused : Signals(rankings, fused[i]) # {}
              /\ \A i, j \in DOMAIN fused :
                    i < j => /\ fused[i] # fused[j]
                             /\ ValueOf(fused[i]) >= ValueOf(fused[j])
              /\ kept \in Seq(S) /\ \A i, j \in DOMAIN kept : kept[i] = kept[j] => i = j
<1> DEFINE hits == UNION {Range(rankings[ch]) : ch \in Channels}
           ValueOf(x) == 5 * FusedScore(rankings, x) + Cardinality(Signals(rankings, x))
           score == [x \in hits |-> ValueOf(x)]
           fused == RrfFuse(rankings)
<1>1. fused = ByScore({Entry(x, ValueOf(x), x.chunk) : x \in hits})
  BY DEF RrfFuse
<1>2. hits \in SUBSET S
  <2> SUFFICES ASSUME NEW ch \in Channels, NEW x \in Range(rankings[ch]) PROVE x \in S
    OBVIOUS
  <2>1. \A i \in DOMAIN rankings[ch] : rankings[ch][i] \in S
    BY ElementOfSeq, LenProperties
  <2> QED BY <2>1 DEF Range
<1>3. \A x \in hits : ValueOf(x) \in Int
  <2> SUFFICES ASSUME NEW x PROVE ValueOf(x) \in Int
    OBVIOUS
  <2>1. FusedScore(rankings, x) \in Int /\ Cardinality(Signals(rankings, x)) \in Nat
    BY FusedScoreIsNumber
  <2> QED BY <2>1
<1>4. \A x \in hits : Signals(rankings, x) # {}
  BY DEF Signals
<1> HIDE DEF ValueOf, hits
<1>5. {Entry(x, ValueOf(x), x.chunk) : x \in hits} = {Entry(x, score[x], x.chunk) : x \in hits}
  OBVIOUS
<1>6. \A x \in hits : score[x] = ValueOf(x) /\ score[x] \in Int /\ x.chunk \in Int
  BY <1>2, <1>3
<1> HIDE DEF score
<1>7. IsFiniteSet(hits) /\ \A x, y \in hits : x.chunk = y.chunk => x = y
  BY <1>2, FS_Subset
<1> DEFINE ranking == ByScore({Entry(x, score[x], x.chunk) : x \in hits})
<1>14. fused = ranking
  BY <1>1, <1>5
<1> HIDE DEF fused
<1>15. /\ ranking \in Seq(hits)
       /\ \A i, j \in DOMAIN ranking :
             i < j => ranking[i] # ranking[j] /\ score[ranking[i]] >= score[ranking[j]]
  <2>1. \A x \in hits : score[x] \in Int /\ x.chunk \in Int
    BY <1>6
  <2>2. IsFiniteSet(hits)
    BY <1>7
  <2>3. \A x, y \in hits : x.chunk = y.chunk => x = y
    BY <1>7
  <2>4. RankedBy(ranking, hits, score)
    BY <2>1, <2>2, <2>3, RankedByScore
  <2> HIDE DEF ranking
  <2> QED BY <2>4 DEF RankedBy
<1> HIDE DEF ranking
<1>8. /\ fused \in Seq(hits)
      /\ \A i, j \in DOMAIN fused :
            i < j => fused[i] # fused[j] /\ score[fused[i]] >= score[fused[j]]
  BY <1>14, <1>15
<1>9. Len(fused) \in Nat /\ DOMAIN fused = 1 .. Len(fused) /\ \A i \in DOMAIN fused : fused[i] \in hits
  BY <1>8, LenProperties, ElementOfSeq
<1>10. /\ fused \in Seq(S)
       /\ \A i \in DOMAIN fused : Signals(rankings, fused[i]) # {}
       /\ \A i, j \in DOMAIN fused :
             i < j => fused[i] # fused[j] /\ ValueOf(fused[i]) >= ValueOf(fused[j])
  <2>1. fused \in Seq(S)
    BY <1>2, <1>8
  <2> QED BY <1>4, <1>6, <1>8, <1>9, <2>1
<1>11. \A i, j \in DOMAIN fused : fused[i] = fused[j] => i = j
  <2> SUFFICES ASSUME NEW i \in DOMAIN fused, NEW j \in DOMAIN fused, fused[i] = fused[j], i # j
               PROVE  FALSE
    OBVIOUS
  <2>1. i < j \/ j < i
    BY <1>9
  <2> QED BY <1>8, <2>1
<1> DEFINE kept == DeduplicateResults(fused)
<1>12. kept \in Seq(S) /\ \A i, j \in DOMAIN kept : kept[i] = kept[j] => i = j
  <2> DEFINE I == {i \in DOMAIN fused : \A j \in 1 .. (i - 1) :
                      \/ fused[j].document # fused[i].document
                      \/ fused[j].text # fused[i].text}
  <2>1. kept = Pick(fused, I) /\ I \in SUBSET DOMAIN fused
    BY DEF DeduplicateResults
  <2> HIDE DEF I, kept
  <2>2. \A i, j \in I : fused[i] = fused[j] => i = j
    BY <1>11, <2>1
  <2>3. fused \in Seq(S)
    BY <1>10
  <2>4. Pick(fused, I) \in Seq(S)
    BY <2>1, <2>3, PickProperties
  <2>5. \A k, l \in DOMAIN Pick(fused, I) : Pick(fused, I)[k] = Pick(fused, I)[l] => k = l
    BY <2>1, <2>2, <2>3, PickProperties
  <2> QED BY <2>1, <2>4, <2>5
<1> QED BY <1>10, <1>12 DEF fused, kept, ValueOf

\* How many results a channel may be asked for.
Depths == 0 .. 10000

\* A chunk that every channel which finds another one finds before it is fused before it, for any
\* library and question and at most 10000 results of each channel.
THEOREM FusionIsFair ==
    ASSUME NEW c, SearchAskable(c), NEW q, WellAsked(q), NEW pool \in Depths
    PROVE  FusionRespectsChannels(Rankings(q, c, pool), RrfFuse(Rankings(q, c, pool)))
<1> DEFINE rankings == Rankings(q, c, pool)
           fused == RrfFuse(rankings)
           reached == Range(ListChunkRecords(c))
           ValueOf(x) == 5 * FusedScore(rankings, x) + Cardinality(Signals(rankings, x))
<1>1. \A ch \in Channels : rankings[ch] \in Seq(reached) /\ Len(rankings[ch]) <= 10000
  <2> SUFFICES ASSUME NEW ch \in Channels
               PROVE  rankings[ch] \in Seq(reached) /\ Len(rankings[ch]) <= 10000
    OBVIOUS
  <2> DEFINE length == Len(rankings[ch])
  <2>1. pool \in Nat /\ pool <= 10000
    BY DEF Depths
  <2>2. \A k \in Channels : /\ Rankings(q, c, pool)[k] \in Seq(Range(ListChunkRecords(c)))
                            /\ Len(Rankings(q, c, pool)[k]) <= pool
    BY <2>1, ChannelsSeeOnly
  <2>3. rankings[ch] \in Seq(reached) /\ length <= pool
    BY <2>2
  <2> HIDE DEF rankings, reached
  <2>4. length \in Nat
    BY <2>3, LenProperties
  <2>5. length <= 10000
    <3> HIDE DEF length
    <3> QED BY <2>1, <2>3, <2>4
  <2> QED BY <2>3, <2>5
<1>2. /\ IsFiniteSet(reached) /\ \A x \in reached : x.chunk \in Int
      /\ \A x, y \in reached : x.chunk = y.chunk => x = y
  BY SeenChunks
<1> HIDE DEF rankings, reached
<1>3. /\ fused \in Seq(reached) /\ \A i \in DOMAIN fused : Signals(rankings, fused[i]) # {}
      /\ \A i, j \in DOMAIN fused : i < j => ValueOf(fused[i]) >= ValueOf(fused[j])
  BY <1>1, <1>2, FusionIsList
<1>4. DOMAIN fused = 1 .. Len(fused) /\ Len(fused) \in Nat
  BY <1>3, LenProperties
<1>5. \A x : ValueOf(x) \in Int
  <2> SUFFICES ASSUME NEW x PROVE ValueOf(x) \in Int
    OBVIOUS
  <2>1. FusedScore(rankings, x) \in Int /\ Cardinality(Signals(rankings, x)) \in Nat
    BY <1>1, FusedScoreIsNumber
  <2> QED BY <2>1
<1>6. ASSUME NEW i \in DOMAIN fused, NEW j \in DOMAIN fused, j < i,
             \A ch \in Signals(rankings, fused[j]) :
                /\ ch \in Signals(rankings, fused[i])
                /\ RankOf(rankings[ch], fused[i]) < RankOf(rankings[ch], fused[j])
      PROVE  FALSE
  <2>1. ValueOf(fused[j]) >= ValueOf(fused[i])
    BY <1>3, <1>6
  <2> DEFINE ahead == fused[i]
             behind == fused[j]
  <2>2. Signals(rankings, behind) # {}
    BY <1>3
  <2> HIDE DEF fused
  <2>3. ValueOf(behind) < ValueOf(ahead)
    <3>1. ShortRankings(rankings)
      BY <1>1 DEF ShortRankings
    <3>2. FoundBefore(rankings, ahead, behind)
      BY <1>6 DEF FoundBefore
    <3> HIDE DEF ahead, behind
    <3> QED BY <2>2, <3>1, <3>2, FusedScoreGrows
  <2>4. ValueOf(behind) \in Int /\ ValueOf(ahead) \in Int
    BY <1>5
  <2> HIDE DEF ValueOf
  <2> QED BY <2>1, <2>3, <2>4
<1> HIDE DEF fused
<1> QED BY <1>4, <1>6 DEF FusionRespectsChannels, fused, rankings

\* A list of results, each of a chunk of its own.
ListOfHits(s) ==
    /\ \E S : s \in Seq(S)
    /\ \A k \in DOMAIN s : s[k].chunk \in Int
    /\ \A k, l \in DOMAIN s : s[k].chunk = s[l].chunk => k = l

\* What a request may not see changes nothing in what is retrieved, whatever is asked; and what is
\* retrieved is a list of at most as many as asked for, each of a chunk of its own.
LEMMA RetrievedAlike ==
    ASSUME NEW c, SearchAskable(c), NEW q, WellAsked(q), NEW depth \in Nat
    PROVE  /\ Retrieve(q, SeenOnly(c), depth) = Retrieve(q, c, depth)
           /\ ListOfHits(Retrieve(q, c, depth)) /\ Len(Retrieve(q, c, depth)) <= depth
<1> DEFINE d == SeenOnly(c)
           pool == Larger(PoolDepth, 4 * depth)
           rankings == Rankings(q, c, pool)
           reached == Range(ListChunkRecords(c))
           best == Upto(DeduplicateResults(RrfFuse(rankings)), depth)
<1>1. pool \in Nat
  BY RetrievalAssumption DEF Larger
<1>2. Rankings(q, d, pool) = rankings
  BY HiddenChangesNothing DEF SearchAskable
<1>3. /\ best \in Seq(reached) /\ Len(best) <= depth
      /\ \A k, l \in DOMAIN best : best[k] = best[l] => k = l
  <2> DEFINE kept == DeduplicateResults(RrfFuse(rankings))
  <2>1. \A ch \in Channels : rankings[ch] \in Seq(reached)
    BY <1>1, ChannelsSeeOnly
  <2>2. /\ IsFiniteSet(reached) /\ \A x \in reached : x.chunk \in Int
        /\ \A x, y \in reached : x.chunk = y.chunk => x = y
    BY SeenChunks
  <2> HIDE DEF rankings, reached
  <2>3. kept \in Seq(reached) /\ \A k, l \in DOMAIN kept : kept[k] = kept[l] => k = l
    BY <2>1, <2>2, FusionIsList
  <2> HIDE DEF kept
  <2>4. /\ Upto(kept, depth) \in Seq(reached) /\ Len(Upto(kept, depth)) <= depth
        /\ \A k \in DOMAIN Upto(kept, depth) : k \in DOMAIN kept /\ Upto(kept, depth)[k] = kept[k]
    BY <2>3, UptoIsList, UptoLength
  <2>5. best = Upto(kept, depth)
    BY DEF kept
  <2> HIDE DEF best
  <2> QED BY <2>3, <2>4, <2>5
<1>4. ASSUME NEW x \in reached PROVE ListNeighborChunks(x, d) = ListNeighborChunks(x, c)
  <2>1. PICK i \in VisiblePlaces(c) : x = c.library[i]
    BY SeenChunks
  <2> QED BY <2>1, HiddenChangesNothing DEF SearchAskable
<1>5. /\ Retrieve(q, c, depth) = Expanded(best, rankings, c)
      /\ Retrieve(q, d, depth) = Expanded(best, rankings, d)
  BY <1>2 DEF Retrieve, BestOf
<1>10. /\ \A x \in reached : x.chunk \in Int
       /\ \A x, y \in reached : x.chunk = y.chunk => x = y
  BY SeenChunks
<1> HIDE DEF best, rankings, reached, d, pool
<1>6. Len(best) \in Nat /\ DOMAIN best = 1 .. Len(best) /\ \A k \in DOMAIN best : best[k] \in reached
  BY <1>3, LenProperties, ElementOfSeq
<1>7. \A k \in DOMAIN best :
         WithNeighborContext(best[k], rankings, d) = WithNeighborContext(best[k], rankings, c)
  BY <1>4, <1>6 DEF WithNeighborContext
<1>8. Expanded(best, rankings, d) = Expanded(best, rankings, c)
  BY <1>7 DEF Expanded
<1>9. ListOfHits(Expanded(best, rankings, c)) /\ Len(Expanded(best, rankings, c)) <= depth
  <2> DEFINE hits == Expanded(best, rankings, c)
             S == {hits[k] : k \in 1 .. Len(best)}
  <2>1. hits \in [1 .. Len(best) -> S] /\ \A k \in 1 .. Len(best) : hits[k].chunk = best[k].chunk
    BY <1>6 DEF Expanded, WithNeighborContext
  <2> HIDE DEF hits, S
  <2>2. hits \in Seq(S) /\ Len(hits) = Len(best) /\ DOMAIN hits = 1 .. Len(best)
    BY <1>6, <2>1, SeqDef, LenProperties
  <2>3. \A k, l \in 1 .. Len(best) : hits[k].chunk = hits[l].chunk => k = l
    BY <1>3, <1>6, <1>10, <2>1
  <2> QED BY <1>3, <1>6, <1>10, <2>1, <2>2, <2>3 DEF hits, ListOfHits
<1> QED BY <1>5, <1>8, <1>9 DEF d

\* A query that is followed up with is well asked.
LEMMA FollowUpIsWellAsked ==
    ASSUME NEW q, WellAsked(q), NEW S, NEW hints \in Seq(S),
           \A i \in DOMAIN hints : FiniteWords(hints[i])
    PROVE  WellAsked(FollowUpQuery(q, hints))
<1>1. ASSUME NEW template, FiniteWords(template) PROVE WellAsked(Extended(q, template))
  <2> DEFINE e == Extended(q, template)
  <2>1. /\ DOMAIN e = DOMAIN q /\ e.years = q.years
        /\ e.words = q.words \cup template.words /\ e.anchors = q.anchors \cup template.anchors
    BY DEF Extended, WellAsked
  <2> HIDE DEF e
  <2>2. IsFiniteSet(e.words) /\ IsFiniteSet(e.anchors)
    <3>1. /\ IsFiniteSet(q.words) /\ IsFiniteSet(template.words)
          /\ IsFiniteSet(q.anchors) /\ IsFiniteSet(template.anchors)
      BY <1>1 DEF WellAsked, FiniteWords
    <3>2. IsFiniteSet(q.words \cup template.words) /\ IsFiniteSet(q.anchors \cup template.anchors)
      BY <3>1, FS_Union
    <3> QED BY <2>1, <3>2
  <2>3. \A a \in e.anchors : IsFiniteSet(a.words)
    BY <1>1, <2>1 DEF WellAsked, FiniteWords
  <2> QED BY <2>1, <2>2, <2>3 DEF WellAsked, FiniteWords, e
<1>2. FiniteWords(GapTemplate(q))
  <2> DEFINE raised == {i \in DOMAIN GapThemes : GapThemes[i] \in q.gaps}
             first == CHOOSE i \in raised \cup {5} : \A j \in raised : i <= j
  <2>1. raised \in SUBSET (1 .. 4)
    BY DEF GapThemes
  <2>2. first \in 1 .. 5
    <3>1. IsFiniteSet(raised)
      <4>1. \A n \in Nat : IsFiniteSet(1 .. n)
        BY FS_Interval
      <4> QED BY <2>1, <4>1, FS_Subset
    <3>2. \E i \in raised \cup {5} : \A j \in raised : i <= j
      <4>1. CASE raised = {}
        BY <4>1
      <4>2. CASE raised # {}
        BY <2>1, <3>1, <4>2, SmallestExists
      <4> QED BY <4>1, <4>2
    <3>3. first \in raised \cup {5}
      BY <3>2
    <3> QED BY <2>1, <3>3
  <2>3. \A k \in 1 .. 5 : IsFiniteSet(GapWords[k])
    <3>1. \A x, y : IsFiniteSet({x} \cup {y})
      BY FS_Singleton, FS_Union
    <3> DEFINE pairs == {{"causal"} \cup {"mechanism"}, {"direct"} \cup {"comparison"},
                         {"latest"} \cup {"dated"}, {"downside"} \cup {"risk"},
                         {"direct"} \cup {"evidence"}}
    <3>2. \A k \in 1 .. 5 : GapWords[k] \in pairs
      BY DEF GapWords
    <3>3. \A T \in pairs : IsFiniteSet(T)
      BY <3>1
    <3> QED BY <3>2, <3>3
  <2>4. GapTemplate(q) = [words |-> GapWords[first],
                          anchors |-> {[words |-> GapWords[first], digits |-> FALSE]}]
    BY DEF GapTemplate, Template
  <2> HIDE DEF first
  <2>5. IsFiniteSet({[words |-> GapWords[first], digits |-> FALSE]})
    BY FS_Singleton
  <2> QED BY <2>2, <2>3, <2>4, <2>5 DEF FiniteWords
<1>3. hints # <<>> => FiniteWords(hints[1])
  BY EmptySeq, LenProperties
<1> QED BY <1>1, <1>2, <1>3 DEF FollowUpQuery

\* No item of evidence is accepted twice, whatever was found and however many are returned.
THEOREM EvidenceIsCitedOnce ==
    ASSUME NEW c, NEW S, NEW results \in Seq(S), NEW n \in Nat
    PROVE  CitedOnce(c, Upto(AcceptedEvidence(c.query, results), n))
<1> DEFINE q == c.query
           judged == [i \in DOMAIN results |->
                         WithPassage(results[i], DirectSupport(q, results[i]))]
           I == {i \in DOMAIN judged :
                    /\ judged[i].passage # Void
                    /\ \A j \in 1 .. (i - 1) :
                          judged[j].passage # Void =>
                              EvidenceIdentity(q, judged[j]) # EvidenceIdentity(q, judged[i])}
           accepted == AcceptedEvidence(q, results)
<1>1. accepted = Pick(judged, I)
  BY DEF AcceptedEvidence, OnceSupported
<1>2. ASSUME NEW i \in I, NEW j \in I,
             EvidenceIdentity(q, judged[i]) = EvidenceIdentity(q, judged[j])
      PROVE  i = j
  <2>1. DOMAIN judged = 1 .. Len(results) /\ Len(results) \in Nat
    BY LenProperties
  <2>2. i \in 1 .. Len(results) /\ j \in 1 .. Len(results)
    BY <2>1
  <2>3. judged[i].passage # Void /\ judged[j].passage # Void
    OBVIOUS
  <2>4. ~ (j \in 1 .. (i - 1)) /\ ~ (i \in 1 .. (j - 1))
    BY <1>2, <2>3
  <2> HIDE DEF judged, I
  <2> QED BY <2>1, <2>2, <2>4
<1>3. /\ \A k \in DOMAIN accepted : Nth(I, k) \in I /\ accepted[k] = judged[Nth(I, k)]
      /\ DOMAIN accepted = 1 .. Cardinality(I)
      /\ \A k, l \in DOMAIN accepted : Nth(I, k) = Nth(I, l) => k = l
      /\ Cardinality(I) \in Nat
      /\ Len(accepted) = Cardinality(I)
  <2> DEFINE T == {judged[i] : i \in DOMAIN judged}
  <2>1. judged \in Seq(T) /\ I \in SUBSET DOMAIN judged /\ I \in SUBSET Int
    <3>1. Len(results) \in Nat /\ DOMAIN judged = 1 .. Len(results)
      BY LenProperties
    <3>2. judged \in [1 .. Len(results) -> T]
      BY <3>1
    <3> HIDE DEF judged, T
    <3> QED BY <3>1, <3>2, SeqDef
  <2>2. IsFiniteSet(I)
    <3> HIDE DEF judged, I, T
    <3>1. Len(judged) \in Nat /\ I \in SUBSET (1 .. Len(judged))
      BY <2>1, LenProperties
    <3>2. IsFiniteSet(1 .. Len(judged))
      BY <3>1, FS_Interval
    <3> QED BY <3>1, <3>2, FS_Subset
  <2> HIDE DEF judged, I, T, accepted
  <2>3. Cardinality(I) \in Nat
    BY <2>2, FS_CardinalityType
  <2>4. /\ \A k \in DOMAIN accepted : Nth(I, k) \in I /\ accepted[k] = judged[Nth(I, k)]
        /\ DOMAIN accepted = 1 .. Cardinality(I) /\ Len(accepted) = Cardinality(I)
    BY <1>1, <2>1, PickProperties
  <2>5. \A k, l \in 1 .. Cardinality(I) : Nth(I, k) = Nth(I, l) => k = l
    BY <2>1, <2>2, NthInjective
  <2> QED BY <2>3, <2>4, <2>5
<1> DEFINE given == Upto(accepted, n)
<1>4. ASSUME NEW k \in DOMAIN given PROVE k \in DOMAIN accepted /\ given[k] = accepted[k]
  <2>1. given = SubSeq(accepted, 1, Smaller(n, Len(accepted)))
    BY DEF Upto
  <2>2. /\ Smaller(n, Len(accepted)) \in 0 .. Len(accepted)
        /\ Len(accepted) \in Nat /\ DOMAIN accepted = 1 .. Len(accepted)
    <3> HIDE DEF accepted, I
    <3> QED BY <1>3 DEF Smaller
  <2> HIDE DEF accepted, given
  <2>3. DOMAIN given = 1 .. Smaller(n, Len(accepted))
    BY <2>1, <2>2
  <2> QED BY <1>4, <2>1, <2>2, <2>3
<1>5. ASSUME NEW k \in DOMAIN given, NEW l \in DOMAIN given,
             given[k].of.evidence = given[l].of.evidence, given[k].of.evidence # Void,
             ~ SummaryChunk(q, given[k]), ~ SummaryChunk(q, given[l])
      PROVE  k = l
  <2>1. EvidenceIdentity(q, given[k]) = EvidenceIdentity(q, given[l])
    BY <1>5 DEF EvidenceIdentity
  <2> HIDE DEF given, accepted, I, judged
  <2>2. k \in DOMAIN accepted /\ l \in DOMAIN accepted
    BY <1>4
  <2>3. /\ Nth(I, k) \in I /\ given[k] = judged[Nth(I, k)]
        /\ Nth(I, l) \in I /\ given[l] = judged[Nth(I, l)]
    BY <1>3, <1>4, <2>2
  <2>4. Nth(I, k) = Nth(I, l)
    BY <1>2, <2>1, <2>3
  <2> QED BY <1>3, <2>2, <2>4
<1> HIDE DEF given, accepted
<1> QED BY <1>5 DEF CitedOnce, given, accepted

\* What is accepted of a list of results is a list of those with a supporting passage, and nothing
\* only if none has one.
LEMMA AcceptedProperties ==
    ASSUME NEW q, NEW S, NEW results \in Seq(S)
    PROVE  LET accepted == AcceptedEvidence(q, results) IN
           /\ \E W : accepted \in Seq(W)
           /\ \A k \in DOMAIN accepted : \E i \in DOMAIN results :
                 /\ accepted[k] = WithPassage(results[i], DirectSupport(q, results[i]))
                 /\ DirectSupport(q, results[i]) # Void
           /\ accepted = <<>> => \A i \in DOMAIN results : DirectSupport(q, results[i]) = Void
<1> DEFINE judged == [i \in DOMAIN results |->
                         WithPassage(results[i], DirectSupport(q, results[i]))]
           backed == {i \in DOMAIN judged : judged[i].passage # Void}
           I == {i \in DOMAIN judged :
                    /\ judged[i].passage # Void
                    /\ \A j \in 1 .. (i - 1) :
                          judged[j].passage # Void =>
                              EvidenceIdentity(q, judged[j]) # EvidenceIdentity(q, judged[i])}
           W == {judged[i] : i \in DOMAIN judged}
           accepted == AcceptedEvidence(q, results)
<1>1. Len(results) \in Nat /\ DOMAIN results = 1 .. Len(results) /\ DOMAIN judged = DOMAIN results
  BY LenProperties
<1>2. \A i \in DOMAIN results :
         /\ judged[i] = WithPassage(results[i], DirectSupport(q, results[i]))
         /\ judged[i].passage = DirectSupport(q, results[i])
  BY DEF WithPassage
<1>3. accepted = Pick(judged, I) /\ I \in SUBSET DOMAIN judged /\ I \in SUBSET backed
  BY DEF AcceptedEvidence, OnceSupported
<1>4. judged \in Seq(W)
  <2>1. judged \in [1 .. Len(results) -> W]
    BY <1>1
  <2> HIDE DEF judged, W
  <2> QED BY <1>1, <2>1, SeqDef
<1>5. backed # {} => I # {}
  <2> SUFFICES ASSUME backed # {} PROVE I # {}
    OBVIOUS
  <2>1. IsFiniteSet(backed) /\ backed \in SUBSET Int
    <3>1. IsFiniteSet(1 .. Len(results)) /\ backed \in SUBSET (1 .. Len(results))
      BY <1>1, FS_Interval
    <3> HIDE DEF backed
    <3>2. IsFiniteSet(backed)
      BY <3>1, FS_Subset
    <3>3. backed \in SUBSET Int
      BY <1>1, <3>1
    <3> QED BY <3>2, <3>3
  <2>2. PICK i \in backed : \A j \in backed : i <= j
    <3> HIDE DEF backed
    <3> QED BY <2>1, SmallestExists
  <2>3. \A j \in 1 .. (i - 1) : judged[j].passage = Void
    <3> SUFFICES ASSUME NEW j \in 1 .. (i - 1), judged[j].passage # Void PROVE FALSE
      OBVIOUS
    <3>1. i \in 1 .. Len(results)
      BY <1>1
    <3>2. j \in 1 .. Len(results) /\ j < i
      BY <1>1, <3>1
    <3>3. j \in backed
      BY <1>1, <3>2
    <3> HIDE DEF backed
    <3> QED BY <2>2, <3>1, <3>2, <3>3
  <2>4. i \in I
    BY <2>3
  <2> QED BY <2>4
<1> HIDE DEF judged, I, W, accepted
<1>6. /\ accepted \in Seq(W) /\ Len(accepted) = Cardinality(I)
      /\ \A k \in DOMAIN accepted : Nth(I, k) \in I /\ accepted[k] = judged[Nth(I, k)]
      /\ \A i \in I : \E k \in DOMAIN accepted : accepted[k] = judged[i]
  BY <1>3, <1>4, PickProperties
<1>7. \A k \in DOMAIN accepted : \E i \in DOMAIN results :
         /\ accepted[k] = WithPassage(results[i], DirectSupport(q, results[i]))
         /\ DirectSupport(q, results[i]) # Void
  <2> SUFFICES ASSUME NEW k \in DOMAIN accepted
               PROVE  \E i \in DOMAIN results :
                         /\ accepted[k] = WithPassage(results[i], DirectSupport(q, results[i]))
                         /\ DirectSupport(q, results[i]) # Void
    OBVIOUS
  <2> DEFINE i == Nth(I, k)
  <2>1. i \in backed /\ accepted[k] = judged[i]
    BY <1>3, <1>6
  <2> HIDE DEF i
  <2>2. i \in DOMAIN results /\ judged[i].passage # Void
    BY <1>1, <2>1
  <2> QED BY <1>2, <2>1, <2>2
<1>8. ASSUME accepted = <<>> PROVE \A i \in DOMAIN results : DirectSupport(q, results[i]) = Void
  <2>1. I = {}
    BY <1>6, <1>8, EmptySeq
  <2>2. backed = {}
    BY <1>5, <2>1
  <2> QED BY <1>1, <1>2, <2>2
<1> QED BY <1>6, <1>7, <1>8 DEF accepted

\* So a gap is followed up with a query that is well asked.
LEMMA GapIsWellAsked ==
    ASSUME NEW c, SearchAskable(c), NEW results, NEW final,
           EvaluateEvidence(c.query, results, final, c.hints).decision = "gap"
    PROVE  WellAsked(EvaluateEvidence(c.query, results, final, c.hints).followUp)
<1> DEFINE q == c.query
           gate == EvaluateEvidence(q, results, final, c.hints)
           accepted == AcceptedEvidence(q, results)
<1>1. /\ gate.decision = IF accepted # <<>> THEN "supported" ELSE IF final THEN "refuse" ELSE "gap"
      /\ gate.followUp = IF accepted # <<>> \/ final THEN Void ELSE FollowUpQuery(q, c.hints)
  BY DEF EvaluateEvidence, Verdict
<1>2. WellAsked(FollowUpQuery(q, c.hints))
  <2>1. \A i \in DOMAIN c.hints : FiniteWords(c.hints[i])
    BY DEF SearchAskable, Range
  <2> QED BY <2>1, FollowUpIsWellAsked DEF SearchAskable
<1> HIDE DEF gate, accepted
<1> QED BY <1>1, <1>2 DEF gate

\* How many results a list has is how many chunks they are of.
LEMMA IdsOfHits ==
    ASSUME NEW s, ListOfHits(s)
    PROVE  /\ IsFiniteSet(Range(s)) /\ Cardinality(Range(s)) = Len(s) /\ Len(s) \in Nat
           /\ \A r \in Range(s) : r.chunk \in Int
           /\ \A r, t \in Range(s) : r.chunk = t.chunk => r = t
<1>1. PICK S : s \in Seq(S)
  BY DEF ListOfHits
<1>2. Len(s) \in Nat /\ DOMAIN s = 1 .. Len(s)
  BY <1>1, LenProperties
<1>3. IsFiniteSet(1 .. Len(s)) /\ Cardinality(1 .. Len(s)) = Len(s)
  <2>1. 1 \in Int /\ Len(s) \in Int
    BY <1>2
  <2>2. /\ IsFiniteSet(1 .. Len(s))
        /\ Cardinality(1 .. Len(s)) = IF 1 > Len(s) THEN 0 ELSE Len(s) - 1 + 1
    BY <2>1, FS_Interval
  <2> QED BY <1>2, <2>2
<1>4. Range(s) = {s[k] : k \in 1 .. Len(s)}
  BY <1>2 DEF Range
<1>5. \A k, l \in 1 .. Len(s) : s[k] = s[l] => k = l
  BY <1>2 DEF ListOfHits
<1>6. IsFiniteSet(Range(s)) /\ Cardinality(Range(s)) = Len(s)
  BY <1>3, <1>4, <1>5, ValuesAreFinite, ValuesAreAsMany
<1>7. /\ \A r \in Range(s) : r.chunk \in Int
      /\ \A r, t \in Range(s) : r.chunk = t.chunk => r = t
  BY DEF ListOfHits, Range
<1> QED BY <1>2, <1>6, <1>7

\* A list of all that two searches found, a chunk of both once and as the first has it.
FullyMerged(merged, first, second) ==
    /\ \E U : merged \in Seq(U)
    /\ Len(merged) = Cardinality({first[k].chunk : k \in DOMAIN first}
                                    \cup {second[k].chunk : k \in DOMAIN second})
    /\ \A k \in DOMAIN first : \E i \in DOMAIN merged : merged[i] = first[k]
    /\ \A i \in DOMAIN merged :
          \/ \E k \in DOMAIN first : merged[i] = first[k]
          \/ /\ \E k \in DOMAIN second : merged[i] = second[k]
             /\ \A k \in DOMAIN first : first[k].chunk # merged[i].chunk

\* The results of the searches of one request are merged, each chunk once and none lost.
LEMMA MergeKeepsAll ==
    ASSUME NEW first, ListOfHits(first), NEW second, ListOfHits(second),
           NEW limit \in Nat, Len(first) + Len(second) <= limit
    PROVE  FullyMerged(MergeQueryRankings(first, second, limit), first, second)
<1> DEFINE A == Range(first)
           B == Range(second)
           New == {r \in B : ~ \E f \in A : f.chunk = r.chunk}
           X == A \cup New
           Share(s, r) == AddUp({i \in DOMAIN s : s[i].chunk = r.chunk},
                                [i \in DOMAIN s |-> RankShare(i)])
           score == [r \in X |-> 20 * Share(first, r) + 17 * Share(second, r)]
           ranking == ByScore({Entry(r, score[r], r.chunk) : r \in X})
           Ids(s) == {s[k].chunk : k \in DOMAIN s}
<1>1. MergeQueryRankings(first, second, limit) = Upto(ranking, limit)
  <2>1. {Entry(r, score[r], r.chunk) : r \in X}
           = {Entry(r, 20 * Share(first, r) + 17 * Share(second, r), r.chunk) : r \in X}
    OBVIOUS
  <2> HIDE DEF score, Share
  <2> QED BY <2>1 DEF MergeQueryRankings, Share
<1>2. /\ IsFiniteSet(A) /\ Cardinality(A) = Len(first) /\ Len(first) \in Nat
      /\ IsFiniteSet(B) /\ Cardinality(B) = Len(second) /\ Len(second) \in Nat
      /\ \A r \in A : r.chunk \in Int
      /\ \A r, t \in A : r.chunk = t.chunk => r = t
      /\ \A r \in B : r.chunk \in Int
      /\ \A r, t \in B : r.chunk = t.chunk => r = t
  BY IdsOfHits
<1>3. ASSUME NEW s, ListOfHits(s), NEW r PROVE Share(s, r) \in Int
  <2> DEFINE J == {i \in DOMAIN s : s[i].chunk = r.chunk}
             share == [i \in DOMAIN s |-> RankShare(i)]
  <2>1. DOMAIN s = 1 .. Len(s) /\ Len(s) \in Nat
    <3>1. PICK S : s \in Seq(S)
      BY <1>3 DEF ListOfHits
    <3> QED BY <3>1, LenProperties
  <2>2. IsFiniteSet(J)
    <3>1. IsFiniteSet(1 .. Len(s)) /\ J \in SUBSET (1 .. Len(s))
      BY <2>1, FS_Interval
    <3> HIDE DEF J
    <3> QED BY <3>1, FS_Subset
  <2>3. \A i \in J : share[i] \in Int
    <3>1. \A i \in 1 .. Len(s) : RankShare(i) \in Int
      BY <2>1 DEF RankShare, RrfK
    <3> QED BY <2>1, <3>1
  <2> HIDE DEF J, share
  <2>4. AddUp(J, share) \in Int
    BY <2>2, <2>3, AddUpIsNumber
  <2> QED BY <2>4 DEF J, share
<1>4. IsFiniteSet(X) /\ Cardinality(X) <= limit /\ Cardinality(X) \in Nat
  <2>1. IsFiniteSet(New) /\ Cardinality(New) <= Len(second) /\ Cardinality(New) \in Nat
    <3>1. New \in SUBSET B
      OBVIOUS
    <3> HIDE DEF New, A, B
    <3> QED BY <1>2, <3>1, FS_Subset, FS_CardinalityType
  <2> HIDE DEF New, A, B
  <2>2. IsFiniteSet(X) /\ Cardinality(X) = Cardinality(A) + Cardinality(New) - Cardinality(A \cap New)
    BY <1>2, <2>1, FS_Union
  <2>3. Cardinality(X) \in Nat
    <3> HIDE DEF X
    <3> QED BY <2>2, FS_CardinalityType
  <2>4. Cardinality(A \cap New) \in Nat
    <3>1. A \cap New \in SUBSET A
      OBVIOUS
    <3>2. IsFiniteSet(A \cap New)
      BY <1>2, <3>1, FS_Subset
    <3> QED BY <3>2, FS_CardinalityType
  <2> HIDE DEF X
  <2> QED BY <1>2, <2>1, <2>2, <2>3, <2>4
<1>5. /\ \A r \in X : r.chunk \in Int
      /\ \A r, t \in X : r.chunk = t.chunk => r = t
  <2> HIDE DEF A, B
  <2> QED BY <1>2
<1>6. \A r \in X : score[r] \in Int
  <2>1. \A r : Share(first, r) \in Int /\ Share(second, r) \in Int
    BY <1>3
  <2> HIDE DEF Share, X
  <2> QED BY <2>1
<1>7. Cardinality(X) = Cardinality(Ids(first) \cup Ids(second))
  <2> DEFINE id == [r \in X |-> r.chunk]
  <2>1. \A r, t \in X : id[r] = id[t] => r = t
    BY <1>5
  <2>2. {id[r] : r \in X} = Ids(first) \cup Ids(second)
    BY DEF Range
  <2> HIDE DEF id, X
  <2>3. Cardinality({id[r] : r \in X}) = Cardinality(X)
    BY <1>4, <2>1, ValuesAreAsMany
  <2> QED BY <2>2, <2>3
<1> HIDE DEF score
<1>8. /\ ranking \in Seq(X) /\ Len(ranking) = Cardinality(X)
      /\ \A r \in X : \E i \in DOMAIN ranking : ranking[i] = r
  <2> HIDE DEF X
  <2>1. IsFiniteSet(X)
    BY <1>4
  <2>2. \A r \in X : score[r] \in Int /\ r.chunk \in Int
    BY <1>5, <1>6
  <2>3. \A r, t \in X : r.chunk = t.chunk => r = t
    BY <1>5
  <2>4. RankedBy(ranking, X, score)
    BY <2>1, <2>2, <2>3, RankedByScore
  <2> HIDE DEF ranking
  <2> QED BY <2>4 DEF RankedBy
<1> HIDE DEF ranking
<1>9. Upto(ranking, limit) = ranking
  <2> HIDE DEF X
  <2> QED BY <1>4, <1>8, UptoLength
<1>10. \A k \in DOMAIN first : first[k] \in X
  BY DEF Range
<1>11. \A r \in X :
          \/ \E k \in DOMAIN first : r = first[k]
          \/ /\ \E k \in DOMAIN second : r = second[k]
             /\ \A k \in DOMAIN first : first[k].chunk # r.chunk
  BY DEF Range
<1> HIDE DEF X, Ids
<1>12. \A i \in DOMAIN ranking : ranking[i] \in X
  BY <1>8, ElementOfSeq, LenProperties
<1>13. FullyMerged(ranking, first, second)
  BY <1>7, <1>8, <1>10, <1>11, <1>12 DEF Ids, FullyMerged
<1> QED BY <1>1, <1>9, <1>13

\* What a request may not see changes nothing in how much of the plan is covered.
LEMMA CoveredAlike ==
    ASSUME NEW c, SearchAskable(c)
    PROVE  \A plan, gate, hits, triggered, depth :
              Outcome(plan, gate, hits, triggered, SeenOnly(c), depth)
                  = Outcome(plan, gate, hits, triggered, c, depth)
<1> DEFINE d == SeenOnly(c)
<1>1. d.asOf = c.asOf /\ d.today = c.today
  BY DEF SeenOnly, SearchAskable, StoredLibrary
<1> HIDE DEF d
<1>2. \A slot, accepted : MatchingResults(slot, accepted, d) = MatchingResults(slot, accepted, c)
  BY <1>1 DEF MatchingResults
<1>3. \A slots, accepted : FilledSlots(slots, accepted, d) = FilledSlots(slots, accepted, c)
  BY <1>2 DEF FilledSlots
<1> QED BY <1>3 DEF Outcome, d

\* A search is answered the same whatever the library holds that the request may not see, in
\* another document or scope or of a later date: the first retrieval, the gate, the query of the
\* follow-up and what it finds.
THEOREM SearchLeaksNothing ==
    ASSUME NEW c, SearchAskable(c)
    PROVE  NothingLeaks(c, RetrieveEvidence(c, c.topK))
<1> DEFINE d == SeenOnly(c)
           q == c.query
           depth == Larger(c.topK, ToolDepth)
           deep == Larger(depth, SearchDepth)
           first == Retrieve(q, c, deep)
           plan == Plan(q)
           Opening(x) == EvaluateEvidence(q, MergeQueryRankings(first, <<>>, MergeLimit(depth)),
                                          plan.queries = 1, x.hints)
<1>1. d.query = q /\ d.hints = c.hints
  BY DEF SeenOnly, SearchAskable, StoredLibrary
<1>2. depth \in Nat /\ deep \in Nat
  BY RetrievalAssumption DEF Larger, SearchAskable
<1> HIDE DEF depth, deep
<1>3. Retrieve(q, d, deep) = first
  BY <1>2, RetrievedAlike DEF SearchAskable
<1>4. \A asked : WellAsked(asked) => Retrieve(asked, d, deep) = Retrieve(asked, c, deep)
  BY <1>2, RetrievedAlike
<1>5. \A p, gate, hits, triggered :
         Outcome(p, gate, hits, triggered, d, depth) = Outcome(p, gate, hits, triggered, c, depth)
  BY CoveredAlike
<1> HIDE DEF d, first, plan
<1>6. \A hits : AfterFollowUp(q, d, depth, plan, hits) = AfterFollowUp(q, c, depth, plan, hits)
  BY <1>1, <1>5 DEF AfterFollowUp
<1> DEFINE opening == Opening(c)
<1>7. opening.decision = "gap" => WellAsked(opening.followUp)
  BY GapIsWellAsked
<1>8. AfterFirst(q, d, depth, plan, first) = AfterOpening(q, d, depth, plan, first, opening)
         /\ AfterFirst(q, c, depth, plan, first) = AfterOpening(q, c, depth, plan, first, opening)
  BY <1>1 DEF AfterFirst
<1> HIDE DEF opening
<1>9. AfterOpening(q, d, depth, plan, first, opening) = AfterOpening(q, c, depth, plan, first, opening)
  <2> DEFINE asked == opening.followUp
             again == NormalizedQuery(asked) = NormalizedQuery(q)
             Found(x) == <<first, IF again THEN <<>> ELSE Retrieve(asked, x, deep)>>
             gap == opening.decision = "gap" /\ plan.queries > 1
  <2>1. \A x : AfterOpening(q, x, depth, plan, first, opening) =
                  IF gap THEN AfterFollowUp(q, x, depth, plan, Found(x))
                  ELSE Outcome(plan, opening, <<first, <<>>>>, FALSE, x, depth)
    BY DEF AfterOpening, deep
  <2>2. gap => Found(d) = Found(c)
    BY <1>4, <1>7
  <2> HIDE DEF Found, gap
  <2> QED BY <1>5, <1>6, <2>1, <2>2
<1>10. RetrieveEvidence(d, c.topK) = RetrieveEvidence(c, c.topK)
  <2>1. AdaptiveSearch(q, d, depth) = AfterFirst(q, d, depth, plan, first)
    BY <1>3 DEF AdaptiveSearch, plan, deep
  <2>2. AdaptiveSearch(q, c, depth) = AfterFirst(q, c, depth, plan, first)
    BY DEF AdaptiveSearch, plan, deep, first
  <2> QED BY <1>1, <1>8, <1>9, <2>1, <2>2 DEF RetrieveEvidence, depth
<1> QED BY <1>10 DEF NothingLeaks, d

\* Nor is it among the first of those that are returned.
LEMMA FirstAreCitedOnce ==
    ASSUME NEW c, NEW S, NEW results \in Seq(S), NEW n \in Nat, NEW m \in Nat
    PROVE  CitedOnce(c, Upto(Upto(AcceptedEvidence(c.query, results), n), m))
<1> DEFINE accepted == AcceptedEvidence(c.query, results)
           given == Upto(accepted, n)
<1>1. PICK W : accepted \in Seq(W)
  BY AcceptedProperties
<1>2. CitedOnce(c, given)
  BY EvidenceIsCitedOnce
<1> HIDE DEF accepted
<1>3. given \in Seq(W)
  BY <1>1, UptoIsList
<1> HIDE DEF given
<1>4. \A i \in DOMAIN Upto(given, m) : i \in DOMAIN given /\ Upto(given, m)[i] = given[i]
  BY <1>3, UptoIsList
<1>5. CitedOnce(c, Upto(given, m))
  BY <1>2, <1>4 DEF CitedOnce
<1> QED BY <1>5 DEF given, accepted

\* The first of some are some.
LEMMA FirstOfSome ==
    ASSUME NEW S, NEW s \in Seq(S), NEW n \in Nat, n >= 1
    PROVE  Upto(s, n) \in Seq(S) /\ (Upto(s, n) = <<>> <=> s = <<>>)
BY UptoIsList, UptoLength

\* A gate that says what it accepted, under a plan that wants primary evidence.
Decided(plan, gate) ==
    /\ "primary_evidence" \in plan.slots
    /\ \E W : gate.accepted \in Seq(W)
    /\ (gate.decision = "supported") = (gate.accepted # <<>>)

\* The reply of the tool is that of its gate.
AnsweredAsDecided(gate, tool) ==
    /\ (gate.decision = "supported") = (AnswerFromToolResult(tool) # <<>>)
    /\ ("primary_evidence" \in tool.search.filled) = (gate.decision = "supported")

\* A search whose gate says what was accepted is answered exactly if something was, and has its
\* primary evidence exactly then.
LEMMA AnswerFollowsGate ==
    ASSUME NEW plan, NEW gate, Decided(plan, gate),
           NEW hits, NEW triggered, NEW c, NEW depth, depth \in Nat \ {0},
           NEW tool, tool.topK \in Nat \ {0},
           tool.search = Outcome(plan, gate, hits, triggered, c, depth)
    PROVE  AnsweredAsDecided(gate, tool)
<1> "primary_evidence" \in plan.slots /\ ((gate.decision = "supported") = (gate.accepted # <<>>))
  BY DEF Decided
<1> PICK W : gate.accepted \in Seq(W)
  BY DEF Decided
<1> depth \in Nat /\ depth >= 1 /\ tool.topK \in Nat /\ tool.topK >= 1
  OBVIOUS
<1> DEFINE accepted == gate.accepted
           returned == Upto(accepted, depth)
           rows == ResultsOf(tool)
           passages == PassagesOf(rows)
<1>1. /\ tool.search.results = returned /\ tool.search.gate = gate
      /\ tool.search.filled = FilledSlots(plan.slots, accepted, c)
  BY DEF Outcome
<1>2. returned \in Seq(W) /\ (returned = <<>> <=> accepted = <<>>)
  <2> HIDE DEF accepted
  <2>1. accepted \in Seq(W)
    BY DEF accepted
  <2> QED BY <2>1, FirstOfSome
<1>3. rows = Upto(returned, tool.topK)
  BY <1>1 DEF ResultsOf
<1> HIDE DEF returned, rows
<1>4. rows \in Seq(W) /\ (rows = <<>> <=> accepted = <<>>)
  <2> HIDE DEF accepted
  <2>1. rows \in Seq(W) /\ (rows = <<>> <=> returned = <<>>)
    BY <1>2, <1>3, FirstOfSome
  <2> QED BY <1>2, <2>1
<1>5. \E T : passages \in Seq(T)
         /\ (passages = <<>> <=> rows = <<>>)
  <2> DEFINE T == {rows[k].passage : k \in DOMAIN rows}
  <2>1. Len(rows) \in Nat /\ DOMAIN rows = 1 .. Len(rows)
    BY <1>4, LenProperties
  <2>2. passages \in [1 .. Len(rows) -> T]
    BY <2>1 DEF PassagesOf
  <2> HIDE DEF T, passages
  <2>3. passages \in Seq(T) /\ Len(passages) = Len(rows)
    BY <2>1, <2>2, SeqDef, LenProperties
  <2> QED BY <1>4, <2>3, EmptySeq
<1> HIDE DEF passages
<1>6. PICK T : passages \in Seq(T) /\ (passages = <<>> <=> rows = <<>>)
  BY <1>5
<1>7. Upto(passages, 3) = <<>> <=> passages = <<>>
  BY <1>6, UptoLength
<1>8. AnswerFromToolResult(tool) =
         IF rows = <<>> \/ gate.decision # "supported" THEN <<>> ELSE Upto(passages, 3)
  BY <1>1 DEF AnswerFromToolResult, rows, passages
<1>9. "primary_evidence" \in tool.search.filled <=> accepted # <<>>
  <2> DEFINE results == {accepted[i] : i \in DOMAIN accepted}
  <2>1. MatchingResults("primary_evidence", accepted, c) = results
    BY DEF MatchingResults, SlotTerms
  <2>2. "primary_evidence" \in tool.search.filled <=> Cardinality(results) >= 1
    <3> HIDE DEF results, accepted
    <3> QED BY <1>1, <2>1 DEF FilledSlots
  <2>3. Len(accepted) \in Nat /\ DOMAIN accepted = 1 .. Len(accepted)
    BY LenProperties
  <2>4. IsFiniteSet(results)
    <3>1. IsFiniteSet(DOMAIN accepted)
      BY <2>3, FS_Interval
    <3> HIDE DEF accepted
    <3> QED BY <3>1, ValuesAreFinite
  <2>5. results = {} <=> accepted = <<>>
    <3> HIDE DEF accepted
    <3>1. accepted = <<>> <=> Len(accepted) = 0
      BY <1>1, EmptySeq
    <3>2. accepted # <<>> => 1 \in DOMAIN accepted
      BY <2>3, <3>1
    <3>3. accepted # <<>> => accepted[1] \in results
      BY <3>2
    <3>4. accepted = <<>> => DOMAIN accepted = {}
      BY <2>3, <3>1
    <3>5. DOMAIN accepted = {} => results = {}
      OBVIOUS
    <3> HIDE DEF results
    <3> QED BY <3>3, <3>4, <3>5
  <2> HIDE DEF results
  <2>6. Cardinality(results) \in Nat /\ (Cardinality(results) = 0 <=> results = {})
    BY <2>4, FS_CardinalityType, FS_EmptySet
  <2> QED BY <2>2, <2>5, <2>6
<1>10. gate.decision = "supported" <=> AnswerFromToolResult(tool) # <<>>
  BY <1>4, <1>6, <1>7, <1>8
<1> QED BY <1>9, <1>10 DEF AnsweredAsDecided

\* The plan of a search: the fast one has one query, the others two.
LEMMA PlanProperties ==
    ASSUME NEW q
    PROVE  /\ "primary_evidence" \in Plan(q).slots
           /\ Plan(q).queries \in {1, 2} /\ (Plan(q).mode = "fast" <=> Plan(q).queries = 1)
BY DEF Plan, PlanOf

\* No hits are a list of hits.
LEMMA NoHits == ListOfHits(<<>>) /\ Len(<<>>) = 0
<1>1. <<>> \in Seq({}) /\ Len(<<>>) = 0 /\ DOMAIN <<>> = {}
  BY EmptySeq
<1> QED BY <1>1 DEF ListOfHits

\* Every chunk that was found is judged, the question is answered exactly if one was accepted, and a
\* second search is made only after a first that supported nothing and adds what is accepted.  No item
\* of evidence is cited twice.
THEOREM SearchesAreHonest ==
    ASSUME NEW c, SearchAskable(c)
    PROVE  LET tool == RetrieveEvidence(c, c.topK)
           IN SearchIsHonest(tool) /\ CitedOnce(c, ResultsOf(tool))
<1> DEFINE q == c.query
           tool == RetrieveEvidence(c, c.topK)
           depth == Larger(c.topK, ToolDepth)
           first == Retrieve(q, c, depth)
           plan == Plan(q)
           Judged(second) == MergeQueryRankings(first, second, MergeLimit(depth))
           opening == EvaluateEvidence(q, Judged(<<>>), plan.queries = 1, c.hints)
           asked == opening.followUp
           more == IF NormalizedQuery(asked) = NormalizedQuery(q) THEN <<>>
                   ELSE Retrieve(asked, c, depth)
           gap == opening.decision = "gap" /\ plan.queries > 1
           late == EvaluateEvidence(q, Judged(more), TRUE, c.hints)
           early == AcceptedEvidence(q, Judged(<<>>))
           after == AcceptedEvidence(q, Judged(more))
           Ids(s) == {s[k].chunk : k \in DOMAIN s}
<1>1. /\ c.topK \in Nat /\ c.topK >= 1 /\ depth \in Nat /\ depth >= c.topK
      /\ Larger(depth, SearchDepth) = depth
      /\ MergeLimit(depth) \in Nat /\ MergeLimit(depth) >= 3 * depth
  BY RetrievalAssumption DEF Larger, SearchAskable, MergeLimit
<1> HIDE DEF depth
<1>2. tool.search = IF gap THEN Outcome(plan, late, <<first, more>>, TRUE, c, depth)
                    ELSE Outcome(plan, opening, <<first, <<>>>>, FALSE, c, depth)
  BY <1>1 DEF RetrieveEvidence, AdaptiveSearch, AfterFirst, AfterOpening, AfterFollowUp, depth
<1>3. /\ opening.accepted = early /\ opening.judged = Len(Judged(<<>>))
      /\ opening.decision = IF early # <<>> THEN "supported"
                            ELSE IF plan.queries = 1 THEN "refuse" ELSE "gap"
      /\ late.accepted = after /\ late.judged = Len(Judged(more))
      /\ late.decision = IF after # <<>> THEN "supported" ELSE "refuse"
  BY DEF EvaluateEvidence, Verdict
<1>4. ListOfHits(first) /\ Len(first) <= depth
  BY <1>1, RetrievedAlike DEF SearchAskable
<1>5. gap => ListOfHits(more) /\ Len(more) <= depth
  <2>1. gap => WellAsked(asked)
    BY GapIsWellAsked
  <2> HIDE DEF asked, gap
  <2>2. WellAsked(asked) => /\ ListOfHits(Retrieve(asked, c, depth))
                            /\ Len(Retrieve(asked, c, depth)) <= depth
    BY <1>1, RetrievedAlike
  <2> QED BY <1>1, <2>1, <2>2, NoHits
<1>6. tool.topK = c.topK
  BY DEF RetrieveEvidence
<1>7. /\ "primary_evidence" \in plan.slots /\ plan.queries \in {1, 2}
      /\ plan.mode = "fast" <=> plan.queries = 1
  BY PlanProperties
<1> HIDE DEF first, plan, opening, late, more, tool
<1>8. ASSUME NEW second, ListOfHits(second), Len(second) <= depth
      PROVE  /\ \E U : Judged(second) \in Seq(U)
             /\ Len(Judged(second)) = Cardinality(Ids(first) \cup Ids(second))
             /\ \A k \in DOMAIN first : \E i \in DOMAIN Judged(second) : Judged(second)[i] = first[k]
             /\ \A i \in DOMAIN Judged(second) :
                   \/ \E k \in DOMAIN first : Judged(second)[i] = first[k]
                   \/ /\ \E k \in DOMAIN second : Judged(second)[i] = second[k]
                      /\ \A k \in DOMAIN first : first[k].chunk # Judged(second)[i].chunk
  <2>1. Len(first) \in Nat /\ Len(second) \in Nat
    BY <1>4, <1>8, IdsOfHits
  <2>2. Len(first) + Len(second) <= MergeLimit(depth)
    BY <1>1, <1>4, <1>8, <2>1
  <2>3. FullyMerged(Judged(second), first, second)
    BY <1>1, <1>4, <1>8, <2>2, MergeKeepsAll
  <2> HIDE DEF Judged
  <2> QED BY <2>3 DEF FullyMerged
<1>9. Ids(<<>>) = {}
  BY EmptySeq
<1>10. CASE ~ gap
  <2>1. tool.search = Outcome(plan, opening, <<first, <<>>>>, FALSE, c, depth)
    BY <1>2, <1>10
  <2>2. /\ \E U : Judged(<<>>) \in Seq(U)
        /\ Len(Judged(<<>>)) = Cardinality(Ids(first) \cup Ids(<<>>))
    <3>1. ListOfHits(<<>>) /\ Len(<<>>) <= depth
      BY <1>1, NoHits
    <3> HIDE DEF Judged, Ids
    <3> QED BY <1>8, <3>1
  <2>3. \E W : early \in Seq(W)
    <3> HIDE DEF Judged
    <3> QED BY <2>2, AcceptedProperties
  <2>4. opening.decision # "gap" /\ (opening.decision = "supported" <=> early # <<>>)
    BY <1>3, <1>7, <1>10
  <2>10. CitedOnce(c, ResultsOf(tool))
    <3>1. ResultsOf(tool) = Upto(Upto(early, depth), c.topK)
      BY <1>3, <1>6, <2>1 DEF Outcome, ResultsOf
    <3> HIDE DEF Judged
    <3> QED BY <1>1, <2>2, <3>1, FirstAreCitedOnce
  <2> HIDE DEF early
  <2>5. /\ (opening.decision = "supported") = (AnswerFromToolResult(tool) # <<>>)
        /\ "primary_evidence" \in tool.search.filled <=> opening.decision = "supported"
    <3>1. \E W : opening.accepted \in Seq(W)
      BY <1>3, <2>3
    <3>2. tool.topK \in Nat \ {0} /\ depth \in Nat \ {0}
      BY <1>1, <1>6
    <3>3. Decided(plan, opening)
      BY <1>3, <1>7, <3>1, <2>4 DEF Decided
    <3>4. AnsweredAsDecided(opening, tool)
      BY <2>1, <3>2, <3>3, AnswerFollowsGate
    <3> QED BY <3>4 DEF AnsweredAsDecided
  <2>6. /\ tool.search.gate = opening /\ tool.search.found = <<first, <<>>>>
        /\ tool.search.triggered = FALSE
        /\ tool.search.stop = IF opening.decision = "supported" THEN "supported"
                              ELSE IF plan.mode = "fast" THEN "fast_budget" ELSE "no_safe_follow_up"
    BY <2>1 DEF Outcome
  <2>7. tool.search.stop # "no_safe_follow_up"
    BY <1>3, <1>7, <2>4, <2>6
  <2>8. /\ tool.search.found[1] = first /\ tool.search.found[2] = <<>>
    BY <2>6
  <2>9. tool.search.gate.judged = Cardinality(Ids(first) \cup Ids(<<>>))
    BY <1>3, <2>2, <2>6
  <2> HIDE DEF Judged, gap
  <2>11. SearchIsHonest(tool)
    BY <1>9, <2>4, <2>5, <2>6, <2>7, <2>8, <2>9 DEF SearchIsHonest
  <2> QED BY <2>10, <2>11 DEF tool
<1>11. CASE gap
  <2>1. tool.search = Outcome(plan, late, <<first, more>>, TRUE, c, depth)
    BY <1>2, <1>11
  <2>2. ListOfHits(more) /\ Len(more) <= depth
    BY <1>5, <1>11
  <2>3. early = <<>> /\ plan.mode # "fast"
    BY <1>3, <1>7, <1>11
  <2>4. /\ \E U : Judged(<<>>) \in Seq(U)
        /\ \A k \in DOMAIN first : \E i \in DOMAIN Judged(<<>>) : Judged(<<>>)[i] = first[k]
    <3>1. ListOfHits(<<>>) /\ Len(<<>>) <= depth
      BY <1>1, NoHits
    <3> HIDE DEF Judged, Ids
    <3> QED BY <1>8, <3>1
  <2>5. \A k \in DOMAIN first : DirectSupport(q, first[k]) = Void
    <3>1. \A i \in DOMAIN Judged(<<>>) : DirectSupport(q, Judged(<<>>)[i]) = Void
      <4> HIDE DEF Judged, q
      <4> QED BY <2>3, <2>4, AcceptedProperties
    <3> HIDE DEF Judged, q
    <3> QED BY <2>4, <3>1
  <2> DEFINE merged == Judged(more)
  <2>6. /\ \E U : merged \in Seq(U)
        /\ Len(merged) = Cardinality(Ids(first) \cup Ids(more))
        /\ \A i \in DOMAIN merged :
              \/ \E k \in DOMAIN first : merged[i] = first[k]
              \/ /\ \E k \in DOMAIN more : merged[i] = more[k]
                 /\ \A k \in DOMAIN first : first[k].chunk # merged[i].chunk
    <3> HIDE DEF Judged, Ids
    <3> QED BY <1>8, <2>2
  <2> HIDE DEF Judged, early, gap
  <2>7. /\ \E W : after \in Seq(W)
        /\ \A k \in DOMAIN after : \E i \in DOMAIN merged :
              /\ after[k] = WithPassage(merged[i], DirectSupport(q, merged[i]))
              /\ DirectSupport(q, merged[i]) # Void
    <3> HIDE DEF merged, q
    <3> QED BY <2>6, AcceptedProperties DEF merged
  <2>8. \A k \in DOMAIN after : after[k].chunk \in Ids(more) \ Ids(first)
    <3> SUFFICES ASSUME NEW k \in DOMAIN after PROVE after[k].chunk \in Ids(more) \ Ids(first)
      OBVIOUS
    <3>1. PICK i \in DOMAIN merged :
             /\ after[k] = WithPassage(merged[i], DirectSupport(q, merged[i]))
             /\ DirectSupport(q, merged[i]) # Void
      BY <2>7
    <3>2. after[k].chunk = merged[i].chunk
      BY <3>1 DEF WithPassage
    <3> HIDE DEF merged, after, q
    <3>3. ~ \E l \in DOMAIN first : merged[i] = first[l]
      BY <2>5, <3>1
    <3> QED BY <2>6, <3>2, <3>3
  <2>17. CitedOnce(c, ResultsOf(tool))
    <3>1. ResultsOf(tool) = Upto(Upto(after, depth), c.topK)
      BY <1>3, <1>6, <2>1 DEF Outcome, ResultsOf, merged
    <3> HIDE DEF merged
    <3> QED BY <1>1, <2>6, <3>1, FirstAreCitedOnce DEF merged
  <2> HIDE DEF merged, after
  <2>9. late.decision # "gap" /\ (late.decision = "supported" <=> after # <<>>)
    BY <1>3 DEF after, merged
  <2>10. /\ (late.decision = "supported") = (AnswerFromToolResult(tool) # <<>>)
         /\ "primary_evidence" \in tool.search.filled <=> late.decision = "supported"
    <3>1. \E W : late.accepted \in Seq(W)
      BY <1>3, <2>7 DEF after, merged
    <3>2. tool.topK \in Nat \ {0} /\ depth \in Nat \ {0}
      BY <1>1, <1>6
    <3>3. Decided(plan, late)
      BY <1>3, <1>7, <3>1, <2>9 DEF Decided, after, merged
    <3>4. AnsweredAsDecided(late, tool)
      BY <2>1, <3>2, <3>3, AnswerFollowsGate
    <3> QED BY <3>4 DEF AnsweredAsDecided
  <2>11. /\ tool.search.gate = late /\ tool.search.found = <<first, more>>
         /\ tool.search.triggered = TRUE /\ tool.search.plan = plan
         /\ tool.search.stop = IF late.decision = "supported" THEN "supported"
                               ELSE IF plan.mode = "fast" THEN "fast_budget" ELSE "after_follow_up"
    BY <2>1 DEF Outcome
  <2>12. tool.search.stop # "no_safe_follow_up"
    BY <2>11
  <2>13. /\ tool.search.found[1] = first /\ tool.search.found[2] = more
    BY <2>11
  <2>14. tool.search.gate.judged = Cardinality(Ids(first) \cup Ids(more))
    BY <1>3, <2>6, <2>11 DEF merged
  <2>15. tool.search.gate.accepted = after
    BY <1>3, <2>11 DEF after, merged
  <2>16. Ids(after) \in SUBSET (Ids(more) \ Ids(first))
    BY <2>8
  <2>18. SearchIsHonest(tool)
    BY <2>3, <2>9, <2>10, <2>11, <2>12, <2>13, <2>14, <2>15, <2>16 DEF SearchIsHonest
  <2> QED BY <2>17, <2>18 DEF tool
<1> QED BY <1>10, <1>11 DEF tool

\* The first columns with a mark are columns with that mark.
LEMMA MarkedColumns ==
    ASSUME NEW S, NEW columns \in Seq(S), NEW K \in SUBSET DOMAIN columns
    PROVE  LET first == Upto(Pick(columns, K), MaxColumns) IN
           /\ first \in Seq(S) /\ Len(first) <= MaxColumns
           /\ \A k \in DOMAIN first : \E i \in K : first[k] = columns[i]
<1> DEFINE picked == Pick(columns, K)
           first == Upto(picked, MaxColumns)
<1>1. /\ picked \in Seq(S)
      /\ \A k \in DOMAIN picked : Nth(K, k) \in K /\ picked[k] = columns[Nth(K, k)]
  BY PickProperties
<1>2. MaxColumns \in Nat
  BY DEF MaxColumns
<1> HIDE DEF picked
<1>3. /\ first \in Seq(S) /\ Len(first) <= MaxColumns
      /\ \A k \in DOMAIN first : k \in DOMAIN picked /\ first[k] = picked[k]
  BY <1>1, <1>2, UptoIsList, UptoLength
<1> QED BY <1>1, <1>3 DEF picked

\* What is read of a table is asked for, and no outcome passes for a factor.
LEMMA SelectedAreAskedFor ==
    ASSUME NEW S, NEW columns \in Seq(S), NEW q
    PROVE  LET selected == SelectedColumns(columns, q)
               asked == q.words \ GenericWords
           IN /\ selected \in Seq(S) /\ Len(selected) <= MaxColumns
              /\ \A k \in DOMAIN selected :
                    /\ FactorQuestion(q) => ~ OutcomeColumn(selected[k])
                    /\ ~ FactorQuestion(q) => asked = {} \/ asked \cap selected[k].terms # {}
<1> DEFINE selected == SelectedColumns(columns, q)
           asked == q.words \ GenericWords
<1>1. CASE FactorQuestion(q)
  <2> DEFINE K == {k \in DOMAIN columns : columns[k].terms \cap FactorWords # {}
                                            /\ ~ OutcomeColumn(columns[k])}
  <2>1. selected = Upto(Pick(columns, K), MaxColumns)
    BY <1>1 DEF SelectedColumns, FactorColumns
  <2>2. K \in SUBSET DOMAIN columns /\ \A i \in K : ~ OutcomeColumn(columns[i])
    OBVIOUS
  <2> HIDE DEF K, selected
  <2>3. /\ selected \in Seq(S) /\ Len(selected) <= MaxColumns
        /\ \A k \in DOMAIN selected : \E i \in K : selected[k] = columns[i]
    BY <2>1, <2>2, MarkedColumns
  <2> QED BY <1>1, <2>2, <2>3 DEF selected
<1>2. CASE ~ FactorQuestion(q) /\ asked # {}
  <2> DEFINE Bears(c) == Cardinality(asked \cap c.terms)
             needed == IF \E k \in DOMAIN columns : Bears(columns[k]) >= 2 THEN 2 ELSE 1
             K == {k \in DOMAIN columns : Bears(columns[k]) >= needed}
  <2>1. selected = Upto(Pick(columns, K), MaxColumns)
    BY <1>2 DEF SelectedColumns, SummaryColumns, AskedColumns
  <2>2. K \in SUBSET DOMAIN columns
    OBVIOUS
  <2>3. ASSUME NEW i \in K PROVE asked \cap columns[i].terms # {}
    <3>1. Bears(columns[i]) >= needed /\ needed \in {1, 2}
      OBVIOUS
    <3>2. Cardinality({}) = 0
      BY FS_EmptySet
    <3> HIDE DEF needed
    <3>3. SUFFICES ASSUME asked \cap columns[i].terms = {} PROVE FALSE
      OBVIOUS
    <3>4. 0 >= needed
      BY <3>1, <3>2, <3>3
    <3> QED BY <3>1, <3>4
  <2> HIDE DEF K, selected
  <2>4. /\ selected \in Seq(S) /\ Len(selected) <= MaxColumns
        /\ \A k \in DOMAIN selected : \E i \in K : selected[k] = columns[i]
    BY <2>1, <2>2, MarkedColumns
  <2> QED BY <1>2, <2>3, <2>4 DEF selected
<1>3. CASE ~ FactorQuestion(q) /\ asked = {}
  <2> DEFINE K == {k \in DOMAIN columns : columns[k].terms \cap PriorityWords # {}}
             pool == IF Pick(columns, K) = <<>> THEN columns ELSE Pick(columns, K)
  <2>1. selected = Upto(pool, MaxColumns)
    BY <1>3 DEF SelectedColumns, SummaryColumns, DefaultColumns
  <2>2. pool \in Seq(S)
    BY PickProperties
  <2>3. MaxColumns \in Nat
    BY DEF MaxColumns
  <2> HIDE DEF pool, selected
  <2>4. selected \in Seq(S) /\ Len(selected) <= MaxColumns
    BY <2>1, <2>2, <2>3, UptoIsList, UptoLength
  <2> QED BY <1>3, <2>4 DEF selected
<1> QED BY <1>1, <1>2, <1>3

\* The sentence about some points at different periods tells their extremes.
LEMMA SentenceTellsExtremes ==
    ASSUME NEW S, NEW points \in Seq(S), Len(points) >= 1, NEW column,
           \A i \in DOMAIN points : points[i].value \in Int /\ points[i] # Void,
           \A i, j \in DOMAIN points : points[i].period = points[j].period => i = j
    PROVE  LET s == ColumnSentence(column, points)
               high == IF s.peak = Void THEN s.to.value ELSE s.peak.value
               low == IF s.low = Void THEN s.from.value ELSE s.low.value
           IN /\ s.column = column
              /\ \A i \in DOMAIN points : points[i].value \in low .. high
              /\ s.direction = "rose" => low < high
<1> DEFINE n == Len(points)
           Lowest(I) == CHOOSE i \in I : \A j \in I : i <= j
           tops == {i \in DOMAIN points : \A j \in DOMAIN points : points[j].value <= points[i].value}
           lows == {i \in DOMAIN points : \A j \in DOMAIN points : points[j].value >= points[i].value}
           top == Lowest(tops)
           bottom == Lowest(lows)
           first == points[1]
           last == points[n]
           s == ColumnSentence(column, points)
<1>1. n \in Nat /\ DOMAIN points = 1 .. n /\ n >= 1
  BY LenProperties
<1>2. /\ s.column = column /\ s.from = first /\ s.to = last
      /\ s.direction = (IF last.value > first.value THEN "rose"
                        ELSE IF last.value < first.value THEN "fell" ELSE "unchanged")
      /\ s.peak = (IF points[top].period # last.period THEN points[top] ELSE Void)
      /\ s.low = (IF points[bottom].period # first.period THEN points[bottom] ELSE Void)
  BY DEF ColumnSentence, SentenceOf
<1>3. ASSUME NEW I \in SUBSET (1 .. n), I # {} PROVE Lowest(I) \in I
  <2>1. IsFiniteSet(I) /\ I \in SUBSET Int
    <3>1. n \in Int
      BY <1>1
    <3> HIDE DEF n
    <3>2. IsFiniteSet(1 .. n)
      BY <3>1, FS_Interval
    <3>3. IsFiniteSet(I)
      BY <3>2, FS_Subset
    <3>4. I \in SUBSET Int
      BY <3>1
    <3> QED BY <3>3, <3>4
  <2>2. \E i \in I : \A j \in I : i <= j
    BY <1>3, <2>1, SmallestExists
  <2> QED BY <2>2
<1> HIDE DEF Lowest
<1> DEFINE value == [i \in 1 .. n |-> points[i].value]
           values == {value[i] : i \in 1 .. n}
<1>4. IsFiniteSet(values) /\ values \in SUBSET Int /\ values # {}
  <2>1. IsFiniteSet(1 .. n)
    BY <1>1, FS_Interval
  <2>2. \A i \in 1 .. n : value[i] \in Int
    BY <1>1
  <2>3. values # {}
    <3>1. value[1] \in values /\ 1 \in 1 .. n
      BY <1>1
    <3> QED BY <3>1
  <2> HIDE DEF value
  <2> QED BY <2>1, <2>2, <2>3, ValuesAreFinite
<1>5. tops # {}
  <2>1. \E v \in values : \A w \in values : w <= v
    <3> HIDE DEF values
    <3> QED BY <1>4, LargestExists
  <2>2. \E i \in 1 .. n : \A j \in 1 .. n : value[j] <= value[i]
    <3>1. PICK v \in values : \A w \in values : w <= v
      BY <2>1
    <3>2. PICK i \in 1 .. n : v = value[i]
      BY <3>1
    <3>3. \A j \in 1 .. n : value[j] \in values
      OBVIOUS
    <3> HIDE DEF value, values
    <3> QED BY <3>1, <3>2, <3>3
  <2>3. PICK i \in 1 .. n : \A j \in 1 .. n : value[j] <= value[i]
    BY <2>2
  <2>4. \A j \in DOMAIN points : points[j].value <= points[i].value
    BY <1>1, <2>3
  <2> QED BY <1>1, <2>4
<1>6. lows # {}
  <2>1. \E v \in values : \A w \in values : v <= w
    <3> HIDE DEF values
    <3> QED BY <1>4, SmallestExists
  <2>2. \E i \in 1 .. n : \A j \in 1 .. n : value[i] <= value[j]
    <3>1. PICK v \in values : \A w \in values : v <= w
      BY <2>1
    <3>2. PICK i \in 1 .. n : v = value[i]
      BY <3>1
    <3>3. \A j \in 1 .. n : value[j] \in values
      OBVIOUS
    <3> HIDE DEF value, values
    <3> QED BY <3>1, <3>2, <3>3
  <2>3. PICK i \in 1 .. n : \A j \in 1 .. n : value[i] <= value[j]
    BY <2>2
  <2>4. \A j \in DOMAIN points : points[j].value >= points[i].value
    BY <1>1, <2>3
  <2> QED BY <1>1, <2>4
<1>7. top \in tops /\ bottom \in lows
  BY <1>1, <1>3, <1>5, <1>6
<1> HIDE DEF top, bottom
<1>8. /\ top \in 1 .. n /\ \A j \in 1 .. n : points[j].value <= points[top].value
      /\ bottom \in 1 .. n /\ \A j \in 1 .. n : points[bottom].value <= points[j].value
  BY <1>1, <1>7
<1>9. /\ points[top].period = last.period => points[top] = last
      /\ points[bottom].period = first.period => points[bottom] = first
  BY <1>1, <1>8
<1> HIDE DEF s
<1> DEFINE high == IF s.peak = Void THEN s.to.value ELSE s.peak.value
           low == IF s.low = Void THEN s.from.value ELSE s.low.value
<1>10. high = points[top].value /\ low = points[bottom].value
  BY <1>1, <1>2, <1>8, <1>9
<1> HIDE DEF high, low
<1>11. \A i \in DOMAIN points : points[i].value \in low .. high
  BY <1>1, <1>8, <1>10
<1>12. s.direction = "rose" => low < high
  <2>1. s.direction = "rose" => first.value < last.value
    BY <1>1, <1>2
  <2>2. low <= first.value /\ last.value <= high
    BY <1>1, <1>11
  <2> QED BY <1>1, <1>8, <1>10, <2>1, <2>2
<1> QED BY <1>2, <1>11, <1>12 DEF s, high, low

\* The points of a column are numbers at different periods.
LEMMA PointsAreNumbers ==
    ASSUME NEW table, TableAskable(table), NEW column \in Range(table.columns)
    PROVE  LET points == NumericPoints(table, column) IN
           /\ \E S : points \in Seq(S)
           /\ \A i \in DOMAIN points : points[i].value \in Int /\ points[i] # Void
           /\ \A i, j \in DOMAIN points : points[i].period = points[j].period => i = j
<1> DEFINE all == [i \in DOMAIN table.periods |-> PointOf(table, column, i)]
           S == {all[i] : i \in DOMAIN table.periods}
           I == {i \in DOMAIN table.periods : column.cells[i] # Void}
           points == NumericPoints(table, column)
<1>1. Len(table.periods) \in Nat /\ DOMAIN table.periods = 1 .. Len(table.periods)
  BY LenProperties DEF TableAskable
<1>2. all \in Seq(S) /\ I \in SUBSET DOMAIN all
  <2>1. all \in [1 .. Len(table.periods) -> S]
    BY <1>1
  <2>2. I \in SUBSET DOMAIN all
    OBVIOUS
  <2> HIDE DEF all, S
  <2> QED BY <1>1, <2>1, <2>2, SeqDef
<1>3. \A i \in I : all[i].value \in Int /\ all[i] # Void
  BY DEF TableAskable, PointOf
<1>4. \A i, j \in I : all[i].period = all[j].period => i = j
  BY DEF TableAskable, PointOf
<1>5. points = Pick(all, I)
  BY DEF NumericPoints
<1> HIDE DEF all, S, I, points
<1>6. /\ points \in Seq(S)
      /\ \A k \in DOMAIN points : Nth(I, k) \in I /\ points[k] = all[Nth(I, k)]
      /\ \A k, l \in DOMAIN points : points[k] = points[l] => k = l
  <2>1. \A i, j \in I : all[i] = all[j] => i = j
    BY <1>4
  <2> QED BY <1>2, <1>5, <2>1, PickProperties
<1>7. \A k, l \in DOMAIN points : points[k].period = points[l].period => k = l
  BY <1>4, <1>6
<1> QED BY <1>3, <1>6, <1>7 DEF points

\* Who reads the answer from a table knows the extremes of the columns it names, for any table of
\* numbers whose periods have names of their own.
THEOREM TablesAreReadTruly ==
    ASSUME NEW table, TableAskable(table), NEW q
    PROVE  TrueReading(q, table, AnswerFromTable(q, table), q.words \ GenericWords)
<1> DEFINE S == Range(table.columns)
           Numeric(c) == \E i \in DOMAIN c.cells : c.cells[i] # Void
           N == {k \in DOMAIN table.columns : Numeric(table.columns[k])}
           selected == SelectedColumns(NumericColumns(table), q)
           U == {k \in DOMAIN selected : Len(NumericPoints(table, selected[k])) >= 2}
           usable == UsableColumns(table, selected)
           reading == AnswerFromTable(q, table)
           asked == q.words \ GenericWords
<1>1. NumericColumns(table) \in Seq(S)
  <2>1. NumericColumns(table) = Pick(table.columns, N) /\ N \in SUBSET DOMAIN table.columns
    BY DEF NumericColumns
  <2> HIDE DEF N, S
  <2>2. table.columns \in Seq(S)
    BY DEF TableAskable, S
  <2> QED BY <2>1, <2>2, PickProperties
<1>2. /\ selected \in Seq(S) /\ Len(selected) <= MaxColumns
      /\ \A k \in DOMAIN selected :
            /\ FactorQuestion(q) => ~ OutcomeColumn(selected[k])
            /\ ~ FactorQuestion(q) => asked = {} \/ asked \cap selected[k].terms # {}
  BY <1>1, SelectedAreAskedFor
<1> HIDE DEF selected, S
<1>3. /\ usable \in Seq(S) /\ Len(usable) = Cardinality(U) /\ U \in SUBSET DOMAIN selected
      /\ \A k \in DOMAIN usable : Nth(U, k) \in U /\ usable[k] = selected[Nth(U, k)]
  <2>1. usable = Pick(selected, U) /\ U \in SUBSET DOMAIN selected
    BY DEF UsableColumns
  <2> HIDE DEF U, usable
  <2> QED BY <1>2, <2>1, PickProperties
<1>4. Len(usable) <= MaxColumns
  <2>1. Len(selected) \in Nat /\ DOMAIN selected = 1 .. Len(selected)
    BY <1>2, LenProperties
  <2>2. IsFiniteSet(1 .. Len(selected)) /\ Cardinality(1 .. Len(selected)) = Len(selected)
    <3>1. 1 \in Int /\ Len(selected) \in Int
      BY <2>1
    <3>2. /\ IsFiniteSet(1 .. Len(selected))
          /\ Cardinality(1 .. Len(selected))
                = IF 1 > Len(selected) THEN 0 ELSE Len(selected) - 1 + 1
      BY <3>1, FS_Interval
    <3> QED BY <2>1, <3>2
  <2> HIDE DEF U
  <2>3. Cardinality(U) <= Len(selected) /\ Cardinality(U) \in Nat
    BY <1>3, <2>1, <2>2, FS_Subset, FS_CardinalityType
  <2> QED BY <1>2, <1>3, <2>1, <2>3 DEF MaxColumns
<1>5. \A k \in DOMAIN usable :
         /\ usable[k] \in S /\ Len(NumericPoints(table, usable[k])) >= 2
         /\ FactorQuestion(q) => ~ OutcomeColumn(usable[k])
         /\ ~ FactorQuestion(q) => asked = {} \/ asked \cap usable[k].terms # {}
  <2>1. \A k \in DOMAIN usable : usable[k] \in S
    BY <1>3, ElementOfSeq, LenProperties
  <2> QED BY <1>2, <1>3, <2>1
<1> HIDE DEF U
<1>6. SUFFICES ASSUME reading # Void PROVE TrueReading(q, table, reading, asked)
  BY DEF TrueReading
<1>7. /\ usable # <<>>
      /\ reading = [k \in DOMAIN usable |->
                      ColumnSentence(usable[k], NumericPoints(table, usable[k]))]
  BY <1>6 DEF AnswerFromTable, ReadColumns, usable, selected
<1> HIDE DEF usable, reading
<1>8. Len(usable) \in 1 .. MaxColumns /\ DOMAIN usable = 1 .. Len(usable)
  BY <1>3, <1>4, <1>7, LenProperties, EmptySeq DEF MaxColumns
<1>9. Len(reading) \in 1 .. MaxColumns /\ DOMAIN reading = DOMAIN usable
  BY <1>7, <1>8
<1>10. ASSUME NEW k \in DOMAIN reading
       PROVE  LET s == reading[k]
                  high == IF s.peak = Void THEN s.to.value ELSE s.peak.value
                  low == IF s.low = Void THEN s.from.value ELSE s.low.value
                  points == NumericPoints(table, s.column)
              IN /\ \A i \in DOMAIN points : points[i].value \in low .. high
                 /\ s.direction = "rose" => low < high
                 /\ IF FactorQuestion(q) THEN ~ OutcomeColumn(s.column)
                    ELSE asked = {} \/ asked \cap s.column.terms # {}
  <2> DEFINE column == usable[k]
             points == NumericPoints(table, column)
  <2>1. /\ k \in DOMAIN usable /\ column \in S /\ Len(points) >= 2
        /\ FactorQuestion(q) => ~ OutcomeColumn(column)
        /\ ~ FactorQuestion(q) => asked = {} \/ asked \cap column.terms # {}
    BY <1>5, <1>9
  <2>2. PICK T : points \in Seq(T)
    BY <2>1, PointsAreNumbers DEF S
  <2>3. /\ \A i \in DOMAIN points : points[i].value \in Int /\ points[i] # Void
        /\ \A i, j \in DOMAIN points : points[i].period = points[j].period => i = j
    BY <2>1, PointsAreNumbers DEF S
  <2> HIDE DEF points
  <2> DEFINE s == ColumnSentence(column, points)
             high == IF s.peak = Void THEN s.to.value ELSE s.peak.value
             low == IF s.low = Void THEN s.from.value ELSE s.low.value
  <2>4. /\ s.column = column
        /\ \A i \in DOMAIN points : points[i].value \in low .. high
        /\ s.direction = "rose" => low < high
    <3>1. Len(points) >= 1
      BY <2>1, <2>2, LenProperties
    <3> QED BY <2>2, <2>3, <3>1, SentenceTellsExtremes
  <2>5. reading[k] = s
    BY <1>7, <2>1 DEF points
  <2> HIDE DEF s, column
  <2> QED BY <2>1, <2>4, <2>5 DEF points
<1> QED BY <1>9, <1>10 DEF TrueReading

\* A search leaks nothing, returns of the same search as many results as are asked for, is honest
\* about what it found, cites no item of evidence twice, fuses its channels fairly, and reads every
\* table truly.
THEOREM SearchesStand == ASSUME NEW c, SearchAskable(c) PROVE SearchStands(c)
<1> DEFINE q == c.query
           tool == RetrieveEvidence(c, c.topK)
<1>1. NothingLeaks(c, tool)
  BY SearchLeaksNothing
<1>2. FewerIsAPrefix(c, tool)
  <2>1. c.topK \in Nat /\ ToolDepth \in Nat
    BY RetrievalAssumption DEF SearchAskable
  <2>2. c.topK < ToolDepth => Larger(c.topK, ToolDepth) = Larger(ToolDepth, ToolDepth)
    BY <2>1 DEF Larger
  <2> QED BY <2>2 DEF FewerIsAPrefix, RetrieveEvidence
<1>3. SearchIsHonest(tool) /\ CitedOnce(c, ResultsOf(tool))
  BY SearchesAreHonest
<1>4. FusionRespectsChannels(Rankings(q, c, PoolDepth), RrfFuse(Rankings(q, c, PoolDepth)))
  <2>1. WellAsked(q)
    BY DEF SearchAskable
  <2>2. PoolDepth \in Nat /\ PoolDepth <= 10000
    BY RetrievalAssumption
  <2>3. PoolDepth \in Depths
    BY <2>2 DEF Depths
  <2> HIDE DEF q
  <2> QED BY <2>1, <2>3, FusionIsFair
<1>5. TablesAreRead(c)
  BY TablesAreReadTruly DEF TablesAreRead, SearchAskable, ReadableChunks
<1> HIDE DEF tool
<1> QED BY <1>1, <1>2, <1>3, <1>4, <1>5 DEF SearchStands, SearchKeeps, tool

-----------------------------------------------------------------------------
(* The advice of the desk. *)

\* What the calculators of the desk are asked.
AboutACase ==
    /\ Asked("cash") => question.about \in CashCases
    /\ Asked("guidance") => question.about \in GuidanceCases
    /\ Asked("selection") => question.about \in SelectionCases
    /\ Asked("watchlist") => question.about \in WatchlistCases
    /\ Asked("evidence") => question.about \in EvidenceCases
    /\ Asked("map") => question.about \in MapCases
    /\ Asked("search") => question.about \in SearchCases

\* A calculator is only asked of its cases.
LEMMA AskedOfCases == DeskSpec => []AboutACase
<1>1. DeskInit => AboutACase
  BY DEF DeskInit, AboutACase, Asked
<1>2. ASSUME AboutACase, [DeskNext]_deskVars PROVE AboutACase'
  <2>1. CASE UNCHANGED <<part, question>>
    BY <1>2, <2>1 DEF AboutACase, Asked
  <2>2. CASE Calculate
    <3>0. PICK of \in Calculators : \E cases :
             /\ Ask1(of, cases)
             /\ of = "cash" => cases = CashCases
             /\ of = "guidance" => cases = GuidanceCases
             /\ of = "selection" => cases = SelectionCases
             /\ of = "watchlist" => cases = WatchlistCases
             /\ of = "evidence" => cases = EvidenceCases
             /\ of = "map" => cases = MapCases
             /\ of = "search" => cases = SearchCases
      BY <2>2 DEF Calculate, Calculators
    <3>1. PICK cases :
             /\ Ask1(of, cases)
             /\ of = "cash" => cases = CashCases
             /\ of = "guidance" => cases = GuidanceCases
             /\ of = "selection" => cases = SelectionCases
             /\ of = "watchlist" => cases = WatchlistCases
             /\ of = "evidence" => cases = EvidenceCases
             /\ of = "map" => cases = MapCases
             /\ of = "search" => cases = SearchCases
      BY <3>0
    <3>2. part' = of /\ question'.about \in cases
      BY <3>1 DEF Ask1
    <3> QED BY <3>1, <3>2 DEF AboutACase, Asked
  <2> QED BY <1>2, <2>1, <2>2 DEF deskVars, DeskNext, HoldingsStep, ProfilesStep, AlertsStep,
             AnalysisStep, SidecarStep, Others
<1> QED BY <1>1, <1>2, PTL DEF DeskSpec, deskVars

\* At the desk every cash plan hands out the savings in order and can be kept, every proposed
\* allocation is one the profile accepts, every fixed ranking of funds passes its audit and passes
\* over no better fund, every watchlist is controlled and within its budget, evidence is diverse and
\* cited truly, no stored price passes for market data and no move or score is told without its
\* sessions, and no search leaks what the request may not see or cites evidence twice, for all cases
\* that may be asked (DeskAssumption).
THEOREM DeskAdviceStands == DeskSpec => []AdviceStands
<1>1. ASSUME AboutACase PROVE AdviceStands
  <2>1. Asked("guidance") => SoundGuidance(question.about)
    BY <1>1, DeskAssumption, GuidanceIsSound DEF AboutACase
  <2>2. Asked("selection") => SoundSelection(question.about)
    BY <1>1, DeskAssumption, SelectionIsSound DEF AboutACase, SoundSelection
  <2>3. ASSUME NEW w \in WatchlistCases
        PROVE  /\ ControlledWatchlist(w.engine, w.payload, w.given)
               /\ SoundWatchlist(w.engine, w.payload, w.given, w.dollars)
    <3>1. Askable(w.given, Scores(w.given)) /\ SymbolsAreUnique(w.given)
      BY DeskAssumption DEF Askable
    <3>2. w.payload \in Seq({w.payload[i] : i \in DOMAIN w.payload})
      BY DeskAssumption
    <3>3. ListControlled(ModelWatchlist(w.payload, w.given), w.given)
      BY <3>1, <3>2, ModelIsControlled
    <3>4. ListControlled(FixedWatchlist(w.payload, w.given), w.given)
      BY <3>1, FixedWatchlistIsControlled DEF FixedWatchlist, EtfDecisions
    <3>5. ControlledWatchlist(w.engine, w.payload, w.given)
      BY <3>3, <3>4 DEF ControlledWatchlist, Watchlist
    <3>6. /\ WatchlistKeeps("model", ModelWatchlist(w.payload, w.given), w.dollars)
          /\ WatchlistKeeps("deterministic", FixedWatchlist(w.payload, w.given), w.dollars)
      BY <3>1, <3>2, DeskAssumption, WatchlistIsSound DEF FixedWatchlist, EtfDecisions
    <3>7. SoundWatchlist(w.engine, w.payload, w.given, w.dollars)
      BY <3>6 DEF SoundWatchlist, Watchlist, WatchlistKeeps
    <3> QED BY <3>5, <3>7
  <2>4. ASSUME NEW q \in MapCases
        PROVE  ShownAsWhatItIs(q, Observations(q)) /\ SoundMarketMap(q)
    <3>1. MapAskable(q) /\ q.positions \in Seq(Range(q.positions))
      BY DeskAssumption DEF MapAskable
    <3> QED BY <3>1, StoredPricesStaySo, MarketMapIsSound DEF ShownAsWhatItIs
  <2>5. Asked("cash") => SoundCashPlan(question.about, Today)
    BY <1>1, DeskAssumption, CashPlanIsSound DEF AboutACase
  <2>6. Asked("search") => SearchStands(question.about)
    BY <1>1, DeskAssumption, SearchesStand DEF AboutACase
  <2>7. Asked("evidence") => SoundEvidence(question.about)
    BY <1>1, DeskAssumption, EvidenceIsSound DEF AboutACase
  <2> QED BY <1>1, <2>1, <2>2, <2>3, <2>4, <2>5, <2>6, <2>7 DEF AboutACase, AdviceStands
<1> QED BY <1>1, AskedOfCases, PTL
=============================================================================
