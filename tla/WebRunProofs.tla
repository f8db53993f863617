---------------------------- MODULE WebRunProofs ----------------------------
(***************************************************************************)
(* Proofs about WebRun, for any number of sources, chunks, evidence items, *)
(* rows and faults.                                                        *)
(*                                                                         *)
(* The rows the model is shown, the web sources the run keeps and its      *)
(* evidence items are three selections of one accepted sequence, made      *)
(* apart.  That the nth web source kept is the one shown as Wn rests on    *)
(* what Nth and Pick do (SelectionsProofs); the rest is in IInv.           *)
(***************************************************************************)
EXTENDS WebRun, SelectionsProofs, WellFoundedInduction, TLAPS

-----------------------------------------------------------------------------
(* The least of a set, and sequences that hold nothing twice.               *)

\* A set of naturals that is not empty has a least member.
LEMMA LeastNatural ==
    ASSUME NEW T \in SUBSET Nat, T # {}
    PROVE  \E n \in T : \A m \in T : n <= m
<1> DEFINE W == {0 .. n : n \in T}
           R == StrictSubsetOrdering(Nat)
<1>1. IsWellFoundedOn(R, FiniteSubsetsOf(Nat))
  BY FS_StrictSubsetOrderingWellFounded
<1>2. W \subseteq FiniteSubsetsOf(Nat)
  <2> SUFFICES ASSUME NEW n \in T PROVE 0 .. n \in FiniteSubsetsOf(Nat)
    OBVIOUS
  <2>1. IsFiniteSet(0 .. n) /\ 0 .. n \subseteq Nat
    BY FS_Interval, n \in Int, 0 \in Int
  <2> QED BY <2>1 DEF FiniteSubsetsOf
<1>3. W # {}
  OBVIOUS
<1>4. \E x \in W : \A y \in W : <<y, x>> \notin R
  <2> HIDE DEF W, R
  <2> QED BY <1>1, <1>2, <1>3, WFMin
<1>5. PICK n \in T : \A m \in T : <<0 .. m, 0 .. n>> \notin R
  BY <1>4
<1>6. ASSUME NEW m \in T, m < n PROVE FALSE
  <2>1. 0 .. m \subseteq 0 .. n /\ n \in 0 .. n /\ n \notin 0 .. m
    BY <1>6
  <2>2. 0 .. m \in SUBSET Nat /\ 0 .. n \in SUBSET Nat
    OBVIOUS
  <2> QED BY <1>5, <2>1, <2>2 DEF StrictSubsetOrdering
<1> QED BY <1>6

\* Distinct(S) are the sequences over S that hold nothing twice.
LEMMA DistinctProperties ==
    ASSUME NEW S, IsFiniteSet(S), NEW s
    PROVE  s \in Distinct(S) <=> s \in Seq(S) /\ Injective(s)
<1>1. ASSUME s \in Distinct(S) PROVE s \in Seq(S) /\ Injective(s)
  <2>1. PICK T \in SUBSET S :
          /\ s \in [1 .. Cardinality(T) -> T]
          /\ \A i, j \in 1 .. Cardinality(T) : i # j => s[i] # s[j]
    BY <1>1 DEF Distinct, SetToSeqs
  <2>2. Cardinality(T) \in Nat
    BY FS_Subset, FS_CardinalityType
  <2>3. s \in [1 .. Cardinality(T) -> S]
    BY <2>1
  <2>4. s \in Seq(S)
    BY <2>2, <2>3, SeqDef
  <2> QED BY <2>1, <2>4 DEF Injective
<1>2. ASSUME s \in Seq(S), Injective(s) PROVE s \in Distinct(S)
  <2> DEFINE T == {s[i] : i \in DOMAIN s}
             n == Len(s)
  <2>1. n \in Nat /\ DOMAIN s = 1 .. n /\ s \in [1 .. n -> S]
    BY <1>2, LenProperties
  <2>2. T \in SUBSET S
    BY <2>1
  <2>3. s \in [1 .. n -> T] /\ \A i, j \in 1 .. n : i # j => s[i] # s[j]
    BY <1>2, <2>1 DEF Injective
  <2>4. s \in Bijection(1 .. n, T)
    BY <2>1, <2>3 DEF Bijection, Injection, Surjection, IsInjective
  <2>5. Cardinality(T) = n
    <3> HIDE DEF T, n
    <3> QED BY <2>1, <2>4, FS_CountingElements DEF ExistsBijection
  <2> HIDE DEF T, n
  <2>6. s \in SetToSeqs(T)
    BY <2>3, <2>5 DEF SetToSeqs
  <2> QED BY <2>2, <2>6 DEF Distinct
<1> QED BY <1>1, <1>2

-----------------------------------------------------------------------------
(* What the gate accepts and what is made of it.                            *)

\* The candidates are the chunks and then the web sources, none twice.
LEMMA CandidatesProperties ==
    ASSUME TypeOK
    PROVE  /\ Candidates \in Seq(WebSources \cup Chunks)
           /\ Injective(Candidates)
           /\ \A i \in DOMAIN Candidates :
                 Candidates[i] \in Chunks => \E j \in DOMAIN local : local[j] = Candidates[i]
<1>1. local \in Seq(Chunks) /\ Injective(local) /\ web \in Seq(WebSources) /\ Injective(web)
  BY DistinctProperties, WebRunAssumption DEF TypeOK
<1> DEFINE S == WebSources \cup Chunks
<1>2. local \in Seq(S) /\ web \in Seq(S)
  BY <1>1, SeqMonotonic, Chunks \subseteq S, WebSources \subseteq S
<1>3. /\ Len(local) \in Nat /\ DOMAIN local = 1 .. Len(local)
      /\ Len(web) \in Nat /\ DOMAIN web = 1 .. Len(web)
  BY <1>1, LenProperties
<1>4. /\ Candidates \in Seq(S)
      /\ Len(Candidates) = Len(local) + Len(web)
      /\ \A i \in 1 .. Len(local) + Len(web) :
            Candidates[i] = IF i <= Len(local) THEN local[i] ELSE web[i - Len(local)]
  BY <1>2, ConcatProperties DEF Candidates
<1>5. DOMAIN Candidates = 1 .. Len(local) + Len(web)
  BY <1>4, LenProperties
<1>6. /\ \A i \in DOMAIN local : local[i] \in Chunks
      /\ \A i \in DOMAIN web : web[i] \in WebSources
  BY <1>1, <1>3, ElementOfSeq
<1>7. ASSUME NEW i \in DOMAIN Candidates
      PROVE  \/ i \in DOMAIN local /\ Candidates[i] = local[i] /\ Candidates[i] \in Chunks
             \/ /\ i - Len(local) \in DOMAIN web /\ i > Len(local)
                /\ Candidates[i] = web[i - Len(local)] /\ Candidates[i] \in WebSources
  <2>1. CASE i <= Len(local)
    <3>1. i \in DOMAIN local /\ Candidates[i] = local[i]
      BY <1>3, <1>4, <1>5, <2>1
    <3> QED BY <1>6, <3>1
  <2>2. CASE ~ (i <= Len(local))
    <3>1. i - Len(local) \in DOMAIN web /\ i > Len(local) /\ Candidates[i] = web[i - Len(local)]
      BY <1>3, <1>4, <1>5, <2>2
    <3> QED BY <1>6, <3>1
  <2> QED BY <2>1, <2>2
<1>8. WebSources \cap Chunks = {}
  BY WebRunAssumption DEF WebRunAssumption
<1>9. ASSUME NEW i \in DOMAIN Candidates, NEW j \in DOMAIN Candidates,
             Candidates[i] = Candidates[j]
      PROVE  i = j
  <2>1. CASE i \in DOMAIN local /\ Candidates[i] = local[i] /\ Candidates[i] \in Chunks
    BY <1>1, <1>7, <1>8, <1>9, <2>1 DEF Injective
  <2>2. CASE /\ i - Len(local) \in DOMAIN web /\ i > Len(local)
             /\ Candidates[i] = web[i - Len(local)] /\ Candidates[i] \in WebSources
    <3>1. /\ j - Len(local) \in DOMAIN web
          /\ Candidates[j] = web[j - Len(local)]
      BY <1>7, <1>8, <1>9, <2>2
    <3>2. i - Len(local) = j - Len(local)
      BY <1>1, <1>9, <2>2, <3>1 DEF Injective
    <3> QED BY <1>3, <1>5, <3>2
  <2> QED BY <1>7, <2>1, <2>2
<1> QED BY <1>4, <1>7, <1>8, <1>9 DEF Injective

\* What is accepted was a candidate that supports the question, and is accepted once.
LEMMA AcceptedProperties ==
    ASSUME TypeOK
    PROVE  /\ Accepted \in Seq(WebSources \cup Chunks)
           /\ Injective(Accepted)
           /\ \A k \in DOMAIN Accepted :
                 \E i \in DOMAIN Candidates : Accepted[k] = Candidates[i]
<1> DEFINE supporting == {i \in DOMAIN Candidates : Candidates[i] \in direct}
           first == {i \in supporting : \A j \in supporting :
                        j < i => Identity(Candidates[j]) # Identity(Candidates[i])}
<1>1. Candidates \in Seq(WebSources \cup Chunks) /\ Injective(Candidates)
  BY CandidatesProperties
<1>2. first \in SUBSET DOMAIN Candidates
  OBVIOUS
<1>3. Accepted = Pick(Candidates, first)
  BY DEF Accepted
<1> HIDE DEF first
<1>4. \A i, j \in first : Candidates[i] = Candidates[j] => i = j
  BY <1>1, <1>2 DEF Injective
<1> QED BY <1>1, <1>2, <1>3, <1>4, PickProperties DEF Injective

\* The nth web source the run keeps is the one the model was shown as Wn.
LEMMA WebSourceIsKept ==
    ASSUME TypeOK, NEW k \in DOMAIN Accepted, Accepted[k] \in WebSources
    PROVE  /\ CountOfKind(k) \in DOMAIN AcceptedWebSources
           /\ AcceptedWebSources[CountOfKind(k)] = Accepted[k]
<1> DEFINE I == {j \in DOMAIN Accepted : Accepted[j] \in WebSources}
<1>1. Accepted \in Seq(WebSources \cup Chunks)
  BY AcceptedProperties
<1>2. Len(Accepted) \in Nat /\ DOMAIN Accepted = 1 .. Len(Accepted)
  BY <1>1, LenProperties
<1>3. IsFiniteSet(I) /\ I \in SUBSET Int /\ k \in I
  <2>1. IsFiniteSet(1 .. Len(Accepted))
    BY <1>2, 1 \in Int, Len(Accepted) \in Int, FS_Interval
  <2> QED BY <1>2, <2>1, FS_Subset
<1>4. {j \in 1 .. k : Kind(Accepted[j]) = Kind(Accepted[k])} = Below(I, k) \cup {k}
  BY <1>2 DEF Kind, Below
<1>5. IsFiniteSet(Below(I, k)) /\ k \notin Below(I, k)
  BY <1>3, BelowProperties DEF Below
<1>6. CountOfKind(k) = Cardinality(Below(I, k)) + 1
  BY <1>4, <1>5, FS_AddElement DEF CountOfKind
<1>7. CountOfKind(k) \in 1 .. Cardinality(I) /\ Nth(I, CountOfKind(k)) = k
  <2> HIDE DEF I
  <2> QED BY <1>3, <1>6, NthOf
<1>8. AcceptedWebSources = Pick(Accepted, I)
  BY DEF AcceptedWebSources
<1> HIDE DEF I
<1>9. /\ DOMAIN AcceptedWebSources = 1 .. Cardinality(I)
      /\ AcceptedWebSources[CountOfKind(k)] = Accepted[Nth(I, CountOfKind(k))]
  BY <1>7, <1>8 DEF Pick
<1> QED BY <1>7, <1>9

\* An evidence item of an accepted chunk is an evidence item of the run.
LEMMA ItemIsKept ==
    ASSUME TypeOK, NEW c \in Chunks, c \in ToSet(Accepted), ItemOf[c] # None
    PROVE  ItemOf[c] \in ToSet(AcceptedItems)
<1> DEFINE items == [i \in DOMAIN local |-> ItemOf[local[i]]]
           kept == {i \in DOMAIN local : local[i] \in ToSet(Accepted) /\ items[i] # None}
           first == {i \in kept : \A j \in kept : j < i => items[j] # items[i]}
           same == {i \in kept : items[i] = ItemOf[c]}
<1>1. local \in Seq(Chunks)
  BY DistinctProperties, WebRunAssumption DEF TypeOK
<1>2. Len(local) \in Nat /\ DOMAIN local = 1 .. Len(local)
  BY <1>1, LenProperties
<1>3. items \in Seq(Items \cup {None})
  <2>1. \A i \in 1 .. Len(local) : local[i] \in Chunks
    BY <1>1, <1>2, ElementOfSeq
  <2>2. ItemOf \in [Chunks -> Items \cup {None}]
    BY WebRunAssumption
  <2>3. items \in [1 .. Len(local) -> Items \cup {None}]
    BY <1>2, <2>1, <2>2
  <2> QED BY <1>2, <2>3, SeqDef
<1>4. \E i \in DOMAIN local : local[i] = c
  <2>1. PICK k \in DOMAIN Accepted : Accepted[k] = c
    BY DEF ToSet
  <2>2. PICK i \in DOMAIN Candidates : Candidates[i] = c
    BY <2>1, AcceptedProperties
  <2> QED BY <2>2, CandidatesProperties
<1>5. same \in SUBSET Nat /\ same # {}
  BY <1>2, <1>4
<1> HIDE DEF same
<1>6. PICK i \in same : \A j \in same : i <= j
  BY <1>5, LeastNatural
<1>7. i \in first /\ items[i] = ItemOf[c]
  <2>1. i \in kept /\ items[i] = ItemOf[c] /\ i \in Nat
    BY <1>5, <1>6 DEF same
  <2>2. ASSUME NEW j \in kept, j < i, items[j] = items[i] PROVE FALSE
    <3>1. j \in same
      BY <2>1, <2>2 DEF same
    <3>2. i <= j /\ j \in Nat
      BY <1>5, <1>6, <3>1
    <3> QED BY <2>1, <2>2, <3>2
  <2> HIDE DEF items, kept
  <2> QED BY <2>1, <2>2
<1>8. AcceptedItems = Pick(items, first)
  BY DEF AcceptedItems
<1>9. first \in SUBSET DOMAIN items
  BY <1>2
<1> HIDE DEF items, first
<1>10. \E k \in DOMAIN AcceptedItems : AcceptedItems[k] = ItemOf[c]
  BY <1>3, <1>7, <1>8, <1>9, PickProperties
<1> QED BY <1>10 DEF ToSet

\* The run keeps nothing twice.
LEMMA KeptTyped ==
    ASSUME TypeOK
    PROVE  AcceptedWebSources \in Distinct(WebSources) /\ AcceptedItems \in Distinct(Items)
<1>1. AcceptedWebSources \in Distinct(WebSources)
  <2> DEFINE I == {k \in DOMAIN Accepted : Accepted[k] \in WebSources}
  <2>1. Accepted \in Seq(WebSources \cup Chunks) /\ Injective(Accepted)
    BY AcceptedProperties
  <2>2. AcceptedWebSources = Pick(Accepted, I) /\ I \in SUBSET DOMAIN Accepted
    BY DEF AcceptedWebSources
  <2>3. /\ \A k \in I : Accepted[k] \in WebSources
        /\ \A i, j \in I : Accepted[i] = Accepted[j] => i = j
    BY <2>1 DEF Injective
  <2> HIDE DEF I
  <2>4. AcceptedWebSources \in Seq(WebSources) /\ Injective(AcceptedWebSources)
    BY <2>1, <2>2, <2>3, PickTyped
  <2> QED BY <2>4, DistinctProperties, WebRunAssumption
<1>2. AcceptedItems \in Distinct(Items)
  <2> DEFINE items == [i \in DOMAIN local |-> ItemOf[local[i]]]
             kept == {i \in DOMAIN local : local[i] \in ToSet(Accepted) /\ items[i] # None}
             first == {i \in kept : \A j \in kept : j < i => items[j] # items[i]}
  <2>1. local \in Seq(Chunks)
    BY DistinctProperties, WebRunAssumption DEF TypeOK
  <2>2. Len(local) \in Nat /\ DOMAIN local = 1 .. Len(local)
    BY <2>1, LenProperties
  <2>3. \A i \in DOMAIN local : items[i] \in Items \cup {None}
    <3>1. \A i \in 1 .. Len(local) : local[i] \in Chunks
      BY <2>1, <2>2, ElementOfSeq
    <3> QED BY <2>2, <3>1, WebRunAssumption
  <2>4. items \in Seq(Items \cup {None})
    <3>1. items \in [1 .. Len(local) -> Items \cup {None}]
      BY <2>2, <2>3
    <3> QED BY <2>2, <3>1, SeqDef
  <2>5. AcceptedItems = Pick(items, first)
    BY DEF AcceptedItems
  <2>6. /\ first \in SUBSET DOMAIN items
        /\ \A k \in first : items[k] \in Items
        /\ \A i, j \in first : items[i] = items[j] => i = j
    <3>1. first \in SUBSET DOMAIN items /\ \A k \in first : items[k] \in Items
      BY <2>3
    <3>2. \A i, j \in first : i \in Int /\ j \in Int
      BY <2>2
    <3>3. \A i, j \in first : items[i] = items[j] => ~ (i < j) /\ ~ (j < i)
      OBVIOUS
    <3> HIDE DEF items, first
    <3> QED BY <3>1, <3>2, <3>3
  <2> HIDE DEF items, first
  <2>7. AcceptedItems \in Seq(Items) /\ Injective(AcceptedItems)
    BY <2>4, <2>5, <2>6, PickTyped
  <2> QED BY <2>7, DistinctProperties, WebRunAssumption
<1> QED BY <1>1, <1>2

\* What a search adds is new, and what was found stays.
LEMMA FoundTyped ==
    ASSUME TypeOK, NEW results \in Distinct(WebSources), NEW found,
           found = web \o Pick(results, {i \in DOMAIN results : results[i] \notin ToSet(web)})
    PROVE  found \in Distinct(WebSources) /\ ToSet(web) \subseteq ToSet(found)
<1> DEFINE I == {i \in DOMAIN results : results[i] \notin ToSet(web)}
           new == Pick(results, I)
<1>1. /\ results \in Seq(WebSources) /\ Injective(results)
      /\ web \in Seq(WebSources) /\ Injective(web)
  BY DistinctProperties, WebRunAssumption DEF TypeOK
<1>2. I \in SUBSET DOMAIN results /\ found = web \o new
  OBVIOUS
<1>3. /\ \A i \in I : results[i] \in WebSources
      /\ \A i, j \in I : results[i] = results[j] => i = j
  <2>1. \A i \in 1 .. Len(results) : results[i] \in WebSources
    BY <1>1, ElementOfSeq
  <2>2. DOMAIN results = 1 .. Len(results)
    BY <1>1, LenProperties
  <2> QED BY <1>1, <2>1, <2>2 DEF Injective
<1>4. new \in Seq(WebSources) /\ Injective(new)
  <2> HIDE DEF I
  <2> QED BY <1>1, <1>2, <1>3, PickTyped
<1>5. \A k \in DOMAIN new : new[k] \notin ToSet(web)
  <2>1. \A i \in I : results[i] \notin ToSet(web)
    OBVIOUS
  <2> HIDE DEF I
  <2>2. \A k \in DOMAIN new : Nth(I, k) \in I /\ new[k] = results[Nth(I, k)]
    BY <1>1, <1>2, PickProperties
  <2> QED BY <2>1, <2>2
<1> HIDE DEF new
<1>6. /\ Len(web) \in Nat /\ DOMAIN web = 1 .. Len(web)
      /\ Len(new) \in Nat /\ DOMAIN new = 1 .. Len(new)
  BY <1>1, <1>4, LenProperties
<1>7. /\ found \in Seq(WebSources)
      /\ Len(found) = Len(web) + Len(new)
      /\ \A i \in 1 .. Len(web) + Len(new) :
            found[i] = IF i <= Len(web) THEN web[i] ELSE new[i - Len(web)]
  BY <1>1, <1>2, <1>4, ConcatProperties
<1>8. DOMAIN found = 1 .. Len(web) + Len(new)
  BY <1>7, LenProperties
<1>9. ASSUME NEW i \in DOMAIN found
      PROVE  \/ i \in DOMAIN web /\ found[i] = web[i] /\ found[i] \in ToSet(web)
             \/ /\ i - Len(web) \in DOMAIN new
                /\ found[i] = new[i - Len(web)] /\ found[i] \notin ToSet(web)
  <2>1. CASE i <= Len(web)
    <3>1. i \in DOMAIN web /\ found[i] = web[i]
      BY <1>6, <1>7, <1>8, <2>1
    <3> QED BY <3>1 DEF ToSet
  <2>2. CASE ~ (i <= Len(web))
    <3>1. i \in 1 .. Len(web) + Len(new)
      BY <1>8
    <3>2. i - Len(web) \in 1 .. Len(new)
      BY <1>6, <2>2, <3>1
    <3>3. found[i] = new[i - Len(web)]
      BY <1>7, <2>2, <3>1
    <3> QED BY <1>5, <1>6, <3>2, <3>3
  <2> QED BY <2>1, <2>2
<1>10. ASSUME NEW i \in DOMAIN found, NEW j \in DOMAIN found, found[i] = found[j]
       PROVE  i = j
  <2>1. CASE found[i] \in ToSet(web)
    BY <1>1, <1>9, <1>10, <2>1 DEF Injective
  <2>2. CASE found[i] \notin ToSet(web)
    <3>1. i - Len(web) \in DOMAIN new /\ j - Len(web) \in DOMAIN new
      BY <1>9, <1>10, <2>2
    <3>2. new[i - Len(web)] = new[j - Len(web)]
      BY <1>9, <1>10, <2>2
    <3>3. i - Len(web) = j - Len(web)
      BY <1>4, <3>1, <3>2 DEF Injective
    <3> QED BY <1>6, <1>8, <3>3
  <2> QED BY <2>1, <2>2
<1>11. \A i \in DOMAIN web : i \in DOMAIN found /\ found[i] = web[i]
  BY <1>6, <1>7, <1>8
<1>12. ToSet(web) \subseteq ToSet(found)
  BY <1>11 DEF ToSet
<1>13. found \in Distinct(WebSources)
  BY <1>7, <1>10, DistinctProperties, WebRunAssumption DEF Injective
<1> QED BY <1>12, <1>13

\* The rows the model is shown are the first of the accepted passages, under their ids.
LEMMA ModelRowsProperties ==
    ASSUME TypeOK
    PROVE  /\ Len(ModelRows) <= MaxRows
           /\ \A k \in DOMAIN ModelRows :
                 /\ k \in DOMAIN Accepted
                 /\ ModelRows[k].source = Accepted[k]
                 /\ ModelRows[k].id = <<Kind(Accepted[k]), CountOfKind(k)>>
                 /\ ModelRows[k].id \in CitationIds
                 /\ ModelRows[k].source \in ToSet(Candidates)
<1> DEFINE all == Len(Accepted)
           shown == IF all < MaxRows THEN all ELSE MaxRows
<1>1. Accepted \in Seq(WebSources \cup Chunks)
  BY AcceptedProperties
<1>2. all \in Nat /\ DOMAIN Accepted = 1 .. all
  BY <1>1, LenProperties
<1>3. MaxRows \in Nat
  BY WebRunAssumption DEF WebRunAssumption
<1> DEFINE numbered == NumberedRows
           Rows == {numbered[k] : k \in 1 .. all}
<1>4. numbered \in [1 .. all -> Rows]
  BY <1>2 DEF NumberedRows
<1>5. /\ numbered \in Seq(Rows)
      /\ \A k \in 1 .. all : numbered[k] = [id |-> <<Kind(Accepted[k]), CountOfKind(k)>>,
                                            source |-> Accepted[k]]
  <2>1. numbered \in Seq(Rows)
    <3> HIDE DEF numbered, all
    <3> QED BY <1>2, <1>4, SeqDef
  <2> QED BY <1>2, <2>1 DEF NumberedRows
<1> HIDE DEF numbered, all
<1>6. Len(numbered) = all
  BY <1>2, <1>4, <1>5, LenProperties
<1>7. ModelRows = SubSeq(numbered, 1, shown) /\ shown \in Nat /\ shown <= all /\ shown <= MaxRows
  BY <1>2, <1>3, <1>6 DEF ModelRows, numbered
<1> HIDE DEF shown
<1>8. \A k \in 1 .. shown : numbered[k] \in Rows
  BY <1>2, <1>7
<1>9. /\ ModelRows \in Seq(Rows)
      /\ Len(ModelRows) = shown
      /\ \A k \in 1 .. shown : ModelRows[k] = numbered[k]
  <2> HIDE DEF Rows
  <2>1. /\ SubSeq(numbered, 1, shown) \in Seq(Rows)
        /\ Len(SubSeq(numbered, 1, shown)) = IF 1 <= shown THEN shown - 1 + 1 ELSE 0
        /\ \A k \in 1 .. shown - 1 + 1 : SubSeq(numbered, 1, shown)[k] = numbered[1 + k - 1]
    BY <1>7, <1>8, 1 \in Int, shown \in Int, SubSeqProperties
  <2>2. shown - 1 + 1 = shown /\ \A k \in 1 .. shown : 1 + k - 1 = k
    BY <1>7
  <2> QED BY <1>7, <2>1, <2>2
<1>10. DOMAIN ModelRows = 1 .. shown
  BY <1>9, LenProperties
<1>11. ASSUME NEW k \in 1 .. shown PROVE <<Kind(Accepted[k]), CountOfKind(k)>> \in CitationIds
  <2> DEFINE S == {j \in 1 .. k : Kind(Accepted[j]) = Kind(Accepted[k])}
  <2>1. k \in Nat /\ 1 <= k /\ k <= MaxRows
    BY <1>3, <1>7
  <2>2. IsFiniteSet(1 .. k) /\ Cardinality(1 .. k) = k
    BY <2>1, 1 \in Int, k \in Int, FS_Interval
  <2>3. S \in SUBSET (1 .. k) /\ S # {}
    BY <2>1
  <2> HIDE DEF S
  <2>4. IsFiniteSet(S) /\ Cardinality(S) <= k /\ Cardinality(S) \in Nat /\ Cardinality(S) # 0
    <3>1. IsFiniteSet(S) /\ Cardinality(S) <= Cardinality(1 .. k)
      BY <2>2, <2>3, FS_Subset
    <3>2. Cardinality(S) \in Nat
      BY <3>1, FS_CardinalityType
    <3>3. Cardinality(S) # 0
      BY <2>3, <3>1, FS_EmptySet
    <3> QED BY <2>2, <3>1, <3>2, <3>3
  <2>5. CountOfKind(k) \in 1 .. MaxRows
    BY <1>3, <2>1, <2>4 DEF CountOfKind, S
  <2> QED BY <2>5 DEF CitationIds, Kind
<1>12. ASSUME NEW k \in 1 .. shown PROVE k \in DOMAIN Accepted /\ Accepted[k] \in ToSet(Candidates)
  <2>1. k \in DOMAIN Accepted
    BY <1>2, <1>7
  <2> QED BY <2>1, AcceptedProperties DEF ToSet
<1>13. ASSUME NEW k \in DOMAIN ModelRows
       PROVE  /\ ModelRows[k].source = Accepted[k]
              /\ ModelRows[k].id = <<Kind(Accepted[k]), CountOfKind(k)>>
  <2>1. k \in 1 .. shown /\ k \in 1 .. all
    BY <1>2, <1>7, <1>10
  <2>2. ModelRows[k] = [id |-> <<Kind(Accepted[k]), CountOfKind(k)>>, source |-> Accepted[k]]
    BY <1>5, <1>9, <2>1
  <2> QED BY <2>2
<1> QED BY <1>7, <1>9, <1>10, <1>11, <1>12, <1>13

-----------------------------------------------------------------------------
(* The invariant.                                                           *)

RowsTyped ==
    /\ \A k \in DOMAIN rows : rows[k].id \in CitationIds /\ rows[k].source \in ToSet(Candidates)
    /\ Len(rows) <= MaxRows

\* The initial state satisfies the invariant.
LEMMA InitIInv == Init => IInv
<1> SUFFICES ASSUME Init PROVE IInv
  OBVIOUS
<1> USE WebRunAssumption DEF WebRunAssumption, Init
<1>1. <<>> \in Distinct(Chunks) /\ <<>> \in Distinct(WebSources)
  <2>1. \A S : <<>> \in Seq(S) /\ Injective(<<>>)
    BY DEF Injective
  <2> QED BY <2>1, DistinctProperties
<1>2. maxCalls \in {1, 2}
  OBVIOUS
<1>3. TypeOK
  BY <1>1, <1>2 DEF TypeOK
<1>4. RunInv /\ CostInv /\ StoredInv /\ CitedInv
  BY <1>2 DEF RunInv, CostInv, StoredInv, CitedInv
<1>5. CitationsResolve /\ CostAddsUp /\ FailureIsDurable
  BY DEF CitationsResolve, CostAddsUp, FailureIsDurable
<1> QED BY <1>3, <1>4, <1>5 DEF IInv

\* The run starts as a run.
LEMMA EmptyRunTyped == EmptyRun \in Runs
<1>1. <<>> \in Distinct(WebSources) /\ <<>> \in Distinct(Items)
  <2>1. \A S : <<>> \in Seq(S) /\ Injective(<<>>)
    BY DEF Injective
  <2> QED BY <2>1, DistinctProperties, WebRunAssumption DEF WebRunAssumption
<1> QED BY <1>1 DEF EmptyRun, Runs

\* A run counts its tokens and its cost.
LEMMA RunNumbers == ASSUME NEW r \in Runs PROVE r.tokens \in Nat /\ r.cost \in Nat
<1>1. r.tokens \in Tokens \cup {0} /\ r.cost \in Nat
  BY DEF Runs
<1>2. Tokens \subseteq Nat
  BY WebRunAssumption DEF WebRunAssumption
<1>3. CASE r.tokens \in Tokens
  BY <1>1, <1>2, <1>3
<1>4. CASE r.tokens = 0
  BY <1>1, <1>4
<1> QED BY <1>1, <1>3, <1>4

\* What the model is asked with.
LEMMA AskTyped ==
    ASSUME IInv, Ask
    PROVE  /\ RowsTyped
           /\ run = EmptyRun /\ stored = None /\ event = None /\ spent = searchCost
           /\ calls' \in 0 .. 1 /\ asked' \in 0 .. 1 /\ calls' = asked'
           /\ AllowedIds \subseteq CitationIds
           /\ Len(rows') <= MaxRows
           /\ \A k \in DOMAIN rows' : /\ rows'[k].id \in CitationIds
                                      /\ rows'[k].source \in ToSet(Candidates)
<1>1. TypeOK /\ RunInv /\ CostInv /\ StoredInv /\ pc = "gate"
  BY DEF IInv, Ask
<1>2. RowsTyped
  BY <1>1 DEF TypeOK, RowsTyped
<1>3. rows' = ModelRows
  BY DEF Ask
<1>4. /\ Len(rows') <= MaxRows
      /\ \A k \in DOMAIN rows' : /\ rows'[k].id \in CitationIds
                                 /\ rows'[k].source \in ToSet(Candidates)
  BY <1>1, <1>3, ModelRowsProperties
<1>5. calls = 0 /\ asked = 0 /\ calls' = 1 /\ asked' = 1
  BY <1>1 DEF CostInv, Ask, TypeOK
<1> QED BY <1>1, <1>2, <1>4, <1>5 DEF AllowedIds, RunInv, StoredInv, CostInv

\* The claims of an answer rest on evidence items.
LEMMA ClaimedItemsTyped == \A ids : ClaimedItems(ids) \subseteq Items
<1>1. ItemOf \in [Chunks -> Items \cup {None}]
  BY WebRunAssumption DEF WebRunAssumption
<1> QED BY <1>1 DEF ClaimedItems

\* A search that fails ends the run, and so does a refusal.
LEMMA SearchFailsTyped ==
    ASSUME IInv, NEW error \in {"web_search", "invalid_response"},
           NEW cost \in SearchCosts \cup {0}, SearchFails(error, cost)
    PROVE  run' \in Runs /\ run'.status = "failed" /\ run'.cost = searchCost + cost
<1>1. run = EmptyRun /\ searchCost \in Nat
  BY DEF IInv, TypeOK, RunInv, SearchFails
<1>2. searchCost + cost \in Nat
  BY <1>1, WebRunAssumption DEF WebRunAssumption
<1>3. run \in Runs
  BY <1>1, EmptyRunTyped
<1> QED BY <1>2, <1>3 DEF SearchFails, FailureCost, Runs

LEMMA RefuseTyped ==
    ASSUME IInv, Refuse
    PROVE  run' \in Runs /\ run'.status = "complete" /\ run'.citations = "not_applicable"
<1>1. run = EmptyRun /\ searchCost \in Nat
  BY DEF IInv, TypeOK, RunInv, Refuse
<1>2. run \in Runs
  BY <1>1, EmptyRunTyped
<1> QED BY <1>1, <1>2 DEF Refuse, Runs

\* So does a model that fails.
LEMMA ModelFailsTyped ==
    ASSUME IInv, ModelFails
    PROVE  run' \in Runs /\ run'.status = "failed" /\ run'.citations = "none"
<1>1. Ask
  BY DEF ModelFails
<1>2. run = EmptyRun /\ searchCost \in Nat
  BY <1>1, AskTyped DEF IInv, TypeOK
<1>3. run \in Runs /\ run.citations = "none"
  BY <1>2, EmptyRunTyped DEF EmptyRun
<1> QED BY <1>2, <1>3 DEF ModelFails, Runs

\* The run of an answer: a validated one cites what the model was shown, and the run
\* keeps what it cites.
LEMMA AnswerTyped ==
    ASSUME IInv, NEW tokens \in Tokens, NEW sound \in BOOLEAN, Answer(tokens, sound)
    PROVE  /\ run' \in Runs /\ run'.status = "complete"
           /\ \E cited, claimed \in SUBSET (AllowedIds \cup {Invented}) :
                /\ run'.citations = CitationStatus(cited) /\ run'.cited = cited
                /\ run'.claims = ClaimedItems(claimed)
                /\ run'.web = AcceptedWebSources /\ run'.evidence = AcceptedItems
<1>1. Ask /\ TypeOK
  BY DEF Answer, IInv
<1>2. PICK cited \in SUBSET (AllowedIds \cup {Invented}),
           claimed \in SUBSET (AllowedIds \cup {Invented}) :
        run' = [run EXCEPT !.status = "complete", !.tokens = tokens,
                           !.cost = searchCost + tokens,
                           !.web = AcceptedWebSources, !.evidence = AcceptedItems,
                           !.citations = CitationStatus(cited), !.cited = cited,
                           !.claims = ClaimedItems(claimed),
                           !.report = /\ CitationStatus(cited) = "validated"
                                      /\ claimed # {} /\ claimed \subseteq AllowedIds /\ sound]
  BY DEF Answer
<1>3. run \in Runs /\ searchCost + tokens \in Nat
  BY <1>1, AskTyped, EmptyRunTyped, WebRunAssumption DEF TypeOK, WebRunAssumption
<1>4. AcceptedWebSources \in Distinct(WebSources) /\ AcceptedItems \in Distinct(Items)
  BY <1>1, KeptTyped
<1>5. cited \in SUBSET CitationIds /\ ClaimedItems(claimed) \in SUBSET Items
  BY <1>1, AskTyped, ClaimedItemsTyped DEF CitationIds
<1>6. CitationStatus(cited) \in {"missing", "validated", "invalid"}
  BY DEF CitationStatus
<1>7. run' \in Runs
  BY <1>2, <1>3, <1>4, <1>5, <1>6 DEF Runs
<1>8. /\ run'.status = "complete"
      /\ run'.citations = CitationStatus(cited) /\ run'.cited = cited
      /\ run'.claims = ClaimedItems(claimed)
      /\ run'.web = AcceptedWebSources /\ run'.evidence = AcceptedItems
  BY <1>2, <1>3 DEF Runs
<1> QED BY <1>7, <1>8

\* Every step keeps the variables in their types.
LEMMA TypeStep == IInv /\ [Next]_vars => TypeOK'
<1> SUFFICES ASSUME IInv, [Next]_vars PROVE TypeOK'
  OBVIOUS
<1> USE DEF request, search, answer, database
<1>0. TypeOK /\ RunInv /\ CostInv /\ StoredInv /\ RowsTyped
  BY DEF IInv, TypeOK, RowsTyped
<1>a. SearchCosts \subseteq Nat /\ Tokens \subseteq Nat /\ MaxFaults \in Nat /\ maxCalls \in {1, 2}
  BY <1>0, WebRunAssumption DEF WebRunAssumption, TypeOK
<1>b. ASSUME UNCHANGED <<rows, local, web>> PROVE RowsTyped'
  BY <1>0, <1>b DEF RowsTyped, Candidates
<1>c. ASSUME Disturb PROVE faults' \in 0 .. MaxFaults
  BY <1>0, <1>a, <1>c DEF Disturb, TypeOK
<1>1. CASE Start
  <2>1. run' \in Runs
    BY <1>1, EmptyRunTyped DEF Start
  <2>2. local' \in Distinct(Chunks)
    <3>1. <<>> \in Seq(Chunks) /\ Injective(<<>>)
      BY DEF Injective
    <3>2. <<>> \in Distinct(Chunks)
      BY <3>1, DistinctProperties, WebRunAssumption DEF WebRunAssumption
    <3> QED BY <1>1, <3>2 DEF Start
  <2>3. rows' = <<>>
    BY <1>0, <1>1 DEF Start, RunInv
  <2>4. RowsTyped'
    BY <2>3, WebRunAssumption DEF RowsTyped, WebRunAssumption
  <2> QED BY <1>0, <1>1, <2>1, <2>2, <2>4 DEF TypeOK, RowsTyped, Start
<1>2. ASSUME NEW results \in Distinct(WebSources), NEW cost \in SearchCosts,
             SearchAnswered(results, cost)
      PROVE  TypeOK'
  <2>1. web' \in Distinct(WebSources)
    BY <1>0, <1>2, FoundTyped DEF SearchAnswered
  <2>2. searchCost' \in Nat /\ spent' \in Nat
    BY <1>0, <1>2, <1>a DEF SearchAnswered, TypeOK
  <2>3. round' \in 0 .. maxCalls'
    BY <1>0, <1>2, <1>a DEF SearchAnswered, TypeOK, RunInv
  <2>4. rows' = <<>>
    BY <1>0, <1>2 DEF SearchAnswered, RunInv
  <2>5. RowsTyped'
    BY <2>4, WebRunAssumption DEF RowsTyped, WebRunAssumption
  <2> QED BY <1>0, <1>2, <2>1, <2>2, <2>3, <2>5 DEF TypeOK, RowsTyped, SearchAnswered
<1>3. ASSUME NEW error \in {"web_search", "invalid_response"}, NEW cost \in SearchCosts \cup {0},
             SearchFails(error, cost)
      PROVE  TypeOK'
  <2>2. spent' \in Nat
    BY <1>0, <1>3, <1>a DEF SearchFails, TypeOK
  <2>3. run' \in Runs
    BY <1>3, SearchFailsTyped
  <2> QED BY <1>0, <1>3, <1>b, <2>2, <2>3 DEF TypeOK, RowsTyped, SearchFails
<1>4. CASE FollowUp
  BY <1>0, <1>4, <1>b DEF TypeOK, RowsTyped, FollowUp
<1>5. CASE Refuse
  <2>2. run' \in Runs
    BY <1>5, RefuseTyped
  <2> QED BY <1>0, <1>5, <1>b, <2>2 DEF TypeOK, RowsTyped, Refuse
<1>6. ASSUME NEW tokens \in Tokens, NEW sound \in BOOLEAN, Answer(tokens, sound)
      PROVE  TypeOK'
  <2>1. Ask
    BY <1>6 DEF Answer
  <2>3. spent' \in Nat
    BY <1>0, <1>6, <1>a DEF Answer, TypeOK
  <2>7. run' \in Runs
    BY <1>6, AnswerTyped
  <2>8. RowsTyped'
    <3>1. ToSet(Candidates)' = ToSet(Candidates)
      BY <1>6 DEF Answer, Candidates
    <3> QED BY <2>1, <3>1, AskTyped DEF RowsTyped
  <2>9. calls' \in 0 .. 1 /\ asked' \in 0 .. 1
    BY <2>1, AskTyped
  <2> QED BY <1>0, <1>6, <2>3, <2>7, <2>8, <2>9 DEF TypeOK, RowsTyped, Answer
<1>7. CASE ModelFails
  <2>1. Ask
    BY <1>7 DEF ModelFails
  <2>3. run' \in Runs
    BY <1>7, ModelFailsTyped
  <2>4. RowsTyped'
    <3>1. ToSet(Candidates)' = ToSet(Candidates)
      BY <1>7 DEF ModelFails, Candidates
    <3> QED BY <2>1, <3>1, AskTyped DEF RowsTyped
  <2>5. calls' \in 0 .. 1 /\ asked' \in 0 .. 1
    BY <2>1, AskTyped
  <2> QED BY <1>0, <1>7, <2>3, <2>4, <2>5 DEF TypeOK, RowsTyped, ModelFails
<1>8. CASE Publish
  <2>1. run \in Runs
    BY <1>0, <1>8 DEF Publish, RunInv, TypeOK
  <2>2. run.tokens \in Nat /\ run.cost \in Nat
    BY <2>1, RunNumbers
  <2>3. event' \in Events
    BY <1>8, <2>2 DEF Publish, Event, Events
  <2> QED BY <1>0, <1>8, <1>b, <2>3 DEF TypeOK, RowsTyped, Publish
<1>9. CASE Commit
  <2>1. ledger' \in 0 .. 1
    BY <1>0, <1>9 DEF Commit, StoredInv, TypeOK
  <2> QED BY <1>0, <1>9, <1>b, <2>1 DEF TypeOK, RowsTyped, Commit
<1>10. CASE CommitFailure
  <2>1. ledger' \in 0 .. 1
    BY <1>0, <1>10 DEF CommitFailure, StoredInv, TypeOK
  <2> QED BY <1>0, <1>10, <1>b, <2>1 DEF TypeOK, RowsTyped, CommitFailure
<1>11. CASE AnnounceFailure
  <2>1. run \in Runs
    BY <1>0, <1>11 DEF AnnounceFailure, RunInv, TypeOK
  <2>2. run.tokens \in Nat /\ run.cost \in Nat
    BY <2>1, RunNumbers
  <2>3. event' \in Events \cup {None}
    BY <1>11, <2>2 DEF AnnounceFailure, Event, Events
  <2>4. faults' \in 0 .. MaxFaults
    BY <1>0, <1>11, <1>c DEF AnnounceFailure, TypeOK
  <2> QED BY <1>0, <1>11, <1>b, <2>3, <2>4 DEF TypeOK, RowsTyped, AnnounceFailure
<1>12. CASE RequestRaises
  BY <1>0, <1>12, <1>b, <1>c DEF TypeOK, RowsTyped, RequestRaises
<1>13. CASE Crash
  BY <1>0, <1>13, <1>b, <1>c DEF TypeOK, RowsTyped, Crash
<1>14. CASE UNCHANGED vars
  BY <1>0, <1>14, <1>b DEF TypeOK, RowsTyped, vars
<1> QED BY <1>1, <1>2, <1>3, <1>4, <1>5, <1>6, <1>7, <1>8, <1>9, <1>10, <1>11, <1>12, <1>13,
           <1>14 DEF Next

\* The run follows the request, and is there once the workflow has begun.
LEMMA RunStep == IInv /\ [Next]_vars => RunInv'
<1> SUFFICES ASSUME IInv, [Next]_vars PROVE RunInv'
  OBVIOUS
<1> USE DEF request, search, answer, database
<1>0. /\ TypeOK /\ RunInv /\ CostInv /\ StoredInv /\ CitedInv
      /\ CitationsResolve /\ CostAddsUp /\ FailureIsDurable
  BY DEF IInv
<1>a. TypeOK' /\ None \notin Runs \cup Events
  BY TypeStep, NoneAssumption
<1>1. CASE Start
  <2>1. EmptyRun # None
    BY <1>a, EmptyRunTyped
  <2> QED BY <1>0, <1>1, <2>1, WebRunAssumption DEF RunInv, TypeOK, WebRunAssumption, Start
<1>2. ASSUME NEW results \in Distinct(WebSources), NEW cost \in SearchCosts,
             SearchAnswered(results, cost)
      PROVE  RunInv'
  BY <1>0, <1>2 DEF RunInv, SearchAnswered
<1>3. ASSUME NEW error \in {"web_search", "invalid_response"}, NEW cost \in SearchCosts \cup {0},
             SearchFails(error, cost)
      PROVE  RunInv'
  BY <1>0, <1>a, <1>3, SearchFailsTyped DEF RunInv, TypeOK, SearchFails
<1>4. CASE FollowUp
  BY <1>0, <1>4 DEF RunInv, FollowUp
<1>5. CASE Refuse
  BY <1>0, <1>a, <1>5, RefuseTyped DEF RunInv, TypeOK, Refuse
<1>6. ASSUME NEW tokens \in Tokens, NEW sound \in BOOLEAN, Answer(tokens, sound)
      PROVE  RunInv'
  BY <1>0, <1>a, <1>6, AnswerTyped DEF RunInv, TypeOK, Answer
<1>7. CASE ModelFails
  BY <1>0, <1>a, <1>7, ModelFailsTyped DEF RunInv, TypeOK, ModelFails
<1>8. CASE Publish
  BY <1>0, <1>8 DEF RunInv, Publish
<1>9. CASE Commit
  BY <1>0, <1>9 DEF RunInv, Commit
<1>10. CASE CommitFailure
  BY <1>0, <1>10 DEF RunInv, CommitFailure
<1>11. CASE AnnounceFailure
  BY <1>0, <1>11 DEF RunInv, AnnounceFailure
<1>12. CASE RequestRaises
  BY <1>0, <1>12 DEF RunInv, RequestRaises
<1>13. CASE Crash
  BY <1>0, <1>13 DEF RunInv, Crash
<1>14. CASE UNCHANGED vars
  BY <1>0, <1>14 DEF RunInv, vars
<1> QED BY <1>1, <1>2, <1>3, <1>4, <1>5, <1>6, <1>7, <1>8, <1>9, <1>10, <1>11, <1>12, <1>13,
           <1>14 DEF Next

\* What the searches and the answer cost is the cost of the run, and calls are counted.
LEMMA CostStep == IInv /\ [Next]_vars => CostInv'
<1> SUFFICES ASSUME IInv, [Next]_vars PROVE CostInv'
  OBVIOUS
<1> USE DEF request, search, answer, database
<1>0. /\ TypeOK /\ RunInv /\ CostInv /\ StoredInv /\ CitedInv
      /\ CitationsResolve /\ CostAddsUp /\ FailureIsDurable
  BY DEF IInv
<1>a. TypeOK' /\ None \notin Runs \cup Events
  BY TypeStep, NoneAssumption
<1>1. CASE Start
  BY <1>0, <1>1 DEF RunInv, CostInv, EmptyRun, Start
<1>2. ASSUME NEW results \in Distinct(WebSources), NEW cost \in SearchCosts,
             SearchAnswered(results, cost)
      PROVE  CostInv'
  BY <1>0, <1>2 DEF RunInv, CostInv, SearchAnswered
<1>3. ASSUME NEW error \in {"web_search", "invalid_response"}, NEW cost \in SearchCosts \cup {0},
             SearchFails(error, cost)
      PROVE  CostInv'
  BY <1>0, <1>a, <1>3, SearchFailsTyped DEF RunInv, CostInv, TypeOK, SearchFails
<1>4. CASE FollowUp
  BY <1>0, <1>4 DEF RunInv, CostInv, FollowUp
<1>5. CASE Refuse
  BY <1>0, <1>5 DEF RunInv, CostInv, EmptyRun, Refuse
<1>6. ASSUME NEW tokens \in Tokens, NEW sound \in BOOLEAN, Answer(tokens, sound)
      PROVE  CostInv'
  BY <1>0, <1>6 DEF RunInv, CostInv, EmptyRun, Ask, Answer
<1>7. CASE ModelFails
  BY <1>0, <1>7 DEF RunInv, CostInv, EmptyRun, Ask, ModelFails
<1>8. CASE Publish
  BY <1>0, <1>8 DEF RunInv, CostInv, Publish
<1>9. CASE Commit
  BY <1>0, <1>9 DEF RunInv, CostInv, Commit
<1>10. CASE CommitFailure
  BY <1>0, <1>10 DEF RunInv, CostInv, CommitFailure
<1>11. CASE AnnounceFailure
  BY <1>0, <1>11 DEF RunInv, CostInv, AnnounceFailure
<1>12. CASE RequestRaises
  BY <1>0, <1>12 DEF RunInv, CostInv, RequestRaises
<1>13. CASE Crash
  BY <1>0, <1>13 DEF RunInv, CostInv, Crash
<1>14. CASE UNCHANGED vars
  BY <1>0, <1>14 DEF RunInv, CostInv, vars
<1> QED BY <1>1, <1>2, <1>3, <1>4, <1>5, <1>6, <1>7, <1>8, <1>9, <1>10, <1>11, <1>12, <1>13,
           <1>14 DEF Next

\* Only a run that has ended is stored, and it is stored as it ended.
LEMMA StoredStep == IInv /\ [Next]_vars => StoredInv'
<1> SUFFICES ASSUME IInv, [Next]_vars PROVE StoredInv'
  OBVIOUS
<1> USE DEF request, search, answer, database
<1>0. /\ TypeOK /\ RunInv /\ CostInv /\ StoredInv /\ CitedInv
      /\ CitationsResolve /\ CostAddsUp /\ FailureIsDurable
  BY DEF IInv
<1>a. TypeOK' /\ None \notin Runs \cup Events
  BY TypeStep, NoneAssumption
<1>1. CASE Start
  BY <1>0, <1>1 DEF RunInv, StoredInv, EmptyRun, Start
<1>2. ASSUME NEW results \in Distinct(WebSources), NEW cost \in SearchCosts,
             SearchAnswered(results, cost)
      PROVE  StoredInv'
  BY <1>0, <1>2 DEF RunInv, StoredInv, SearchAnswered
<1>3. ASSUME NEW error \in {"web_search", "invalid_response"}, NEW cost \in SearchCosts \cup {0},
             SearchFails(error, cost)
      PROVE  StoredInv'
  BY <1>0, <1>3 DEF RunInv, StoredInv, EmptyRun, SearchFails
<1>4. CASE FollowUp
  BY <1>0, <1>4 DEF RunInv, StoredInv, FollowUp
<1>5. CASE Refuse
  BY <1>0, <1>5 DEF RunInv, StoredInv, EmptyRun, Refuse
<1>6. ASSUME NEW tokens \in Tokens, NEW sound \in BOOLEAN, Answer(tokens, sound)
      PROVE  StoredInv'
  BY <1>0, <1>6 DEF RunInv, StoredInv, EmptyRun, Ask, Answer
<1>7. CASE ModelFails
  BY <1>0, <1>7 DEF RunInv, StoredInv, EmptyRun, Ask, ModelFails
<1>8. CASE Publish
  BY <1>0, <1>8 DEF RunInv, StoredInv, Publish
<1>9. CASE Commit
  BY <1>0, <1>9 DEF RunInv, StoredInv, Commit
<1>10. CASE CommitFailure
  BY <1>0, <1>10 DEF RunInv, StoredInv, CommitFailure
<1>11. CASE AnnounceFailure
  BY <1>0, <1>11 DEF RunInv, StoredInv, AnnounceFailure
<1>12. CASE RequestRaises
  BY <1>0, <1>12 DEF RunInv, StoredInv, RequestRaises
<1>13. CASE Crash
  BY <1>0, <1>13 DEF RunInv, StoredInv, Crash
<1>14. CASE UNCHANGED vars
  BY <1>0, <1>14 DEF RunInv, StoredInv, vars
<1> QED BY <1>1, <1>2, <1>3, <1>4, <1>5, <1>6, <1>7, <1>8, <1>9, <1>10, <1>11, <1>12, <1>13,
           <1>14 DEF Next

\* What is cited was shown, and what is cited of the web is kept.
LEMMA CitedStep == IInv /\ [Next]_vars => CitedInv'
<1> SUFFICES ASSUME IInv, [Next]_vars PROVE CitedInv'
  OBVIOUS
<1> USE DEF request, search, answer, database
<1>0. /\ TypeOK /\ RunInv /\ CostInv /\ StoredInv /\ CitedInv
      /\ CitationsResolve /\ CostAddsUp /\ FailureIsDurable
  BY DEF IInv
<1>a. TypeOK' /\ None \notin Runs \cup Events
  BY TypeStep, NoneAssumption
<1>1. CASE Start
  BY <1>0, <1>1 DEF RunInv, CitedInv, EmptyRun, Start
<1>2. ASSUME NEW results \in Distinct(WebSources), NEW cost \in SearchCosts,
             SearchAnswered(results, cost)
      PROVE  CitedInv'
  BY <1>0, <1>2 DEF RunInv, CitedInv, SearchAnswered
<1>3. ASSUME NEW error \in {"web_search", "invalid_response"}, NEW cost \in SearchCosts \cup {0},
             SearchFails(error, cost)
      PROVE  CitedInv'
  BY <1>0, <1>3 DEF RunInv, CitedInv, EmptyRun, SearchFails
<1>4. CASE FollowUp
  BY <1>0, <1>4 DEF RunInv, CitedInv, FollowUp
<1>5. CASE Refuse
  BY <1>0, <1>5 DEF RunInv, CitedInv, EmptyRun, Refuse
<1>6. ASSUME NEW tokens \in Tokens, NEW sound \in BOOLEAN, Answer(tokens, sound)
      PROVE  CitedInv'
  <2>1. PICK cited \in SUBSET (AllowedIds \cup {Invented}),
             claimed \in SUBSET (AllowedIds \cup {Invented}) :
          /\ run'.citations = CitationStatus(cited) /\ run'.cited = cited
          /\ run'.claims = ClaimedItems(claimed)
          /\ run'.web = AcceptedWebSources /\ run'.evidence = AcceptedItems
    BY <1>6, AnswerTyped
  <2>2. rows' = ModelRows
    BY <1>6 DEF Answer, Ask
  <2>3. ASSUME NEW id \in cited, run'.citations = "validated"
        PROVE  \E k \in DOMAIN rows' :
                 /\ rows'[k].id = id
                 /\ id[1] = "W" => id[2] \in DOMAIN run'.web /\ run'.web[id[2]] = rows'[k].source
    <3>1. id \in AllowedIds
      BY <2>1, <2>3 DEF CitationStatus
    <3>2. PICK k \in DOMAIN rows' : rows'[k].id = id
      BY <3>1 DEF AllowedIds
    <3>3. k \in DOMAIN Accepted /\ rows'[k].source = Accepted[k]
          /\ id = <<Kind(Accepted[k]), CountOfKind(k)>>
      BY <1>0, <2>2, <3>2, ModelRowsProperties
    <3>4. ASSUME id[1] = "W"
          PROVE  id[2] \in DOMAIN run'.web /\ run'.web[id[2]] = rows'[k].source
      <4>1. Accepted[k] \in WebSources
        BY <3>3, <3>4 DEF Kind
      <4>2. id[2] = CountOfKind(k)
        BY <3>3
      <4> QED BY <1>0, <2>1, <3>3, <4>1, <4>2, WebSourceIsKept
    <3> QED BY <3>2, <3>4
  <2>4. ClaimedItems(claimed) \subseteq ToSet(AcceptedItems)
    <3>1. ASSUME NEW item \in ClaimedItems(claimed) PROVE item \in ToSet(AcceptedItems)
      <4>1. PICK k \in DOMAIN rows' : /\ rows'[k].source \in Chunks
                                      /\ item = ItemOf[rows'[k].source] /\ item # None
        BY DEF ClaimedItems
      <4>2. k \in DOMAIN Accepted /\ rows'[k].source = Accepted[k]
        BY <1>0, <2>2, <4>1, ModelRowsProperties
      <4>3. rows'[k].source \in ToSet(Accepted)
        BY <4>2 DEF ToSet
      <4> QED BY <1>0, <4>1, <4>3, ItemIsKept
    <3> QED BY <3>1
  <2> QED BY <2>1, <2>3, <2>4 DEF CitedInv
<1>7. CASE ModelFails
  BY <1>0, <1>a, <1>7, ModelFailsTyped DEF CitedInv
<1>8. CASE Publish
  BY <1>0, <1>8 DEF RunInv, CitedInv, Publish
<1>9. CASE Commit
  BY <1>0, <1>9 DEF RunInv, CitedInv, Commit
<1>10. CASE CommitFailure
  BY <1>0, <1>10 DEF RunInv, CitedInv, CommitFailure
<1>11. CASE AnnounceFailure
  BY <1>0, <1>11 DEF RunInv, CitedInv, AnnounceFailure
<1>12. CASE RequestRaises
  BY <1>0, <1>12 DEF RunInv, CitedInv, RequestRaises
<1>13. CASE Crash
  BY <1>0, <1>13 DEF RunInv, CitedInv, Crash
<1>14. CASE UNCHANGED vars
  BY <1>0, <1>14 DEF RunInv, CitedInv, vars
<1> QED BY <1>1, <1>2, <1>3, <1>4, <1>5, <1>6, <1>7, <1>8, <1>9, <1>10, <1>11, <1>12, <1>13,
           <1>14 DEF Next

\* What is stored can be looked up.
LEMMA ResolveStep == IInv /\ [Next]_vars => CitationsResolve'
<1> SUFFICES ASSUME IInv, [Next]_vars PROVE CitationsResolve'
  OBVIOUS
<1> QED BY StoredStep, CitedStep DEF StoredInv, CitedInv, CitationsResolve

\* What is stored costs what was spent, and is billed.
LEMMA BillStep == IInv /\ [Next]_vars => CostAddsUp'
<1> SUFFICES ASSUME IInv, [Next]_vars PROVE CostAddsUp'
  OBVIOUS
<1> USE DEF request, search, answer, database
<1>0. /\ TypeOK /\ RunInv /\ CostInv /\ StoredInv /\ CitedInv
      /\ CitationsResolve /\ CostAddsUp /\ FailureIsDurable
  BY DEF IInv
<1>a. TypeOK' /\ None \notin Runs \cup Events
  BY TypeStep, NoneAssumption
<1>1. CASE Start
  BY <1>0, <1>1 DEF RunInv, CostInv, StoredInv, CostAddsUp, Start
<1>2. ASSUME NEW results \in Distinct(WebSources), NEW cost \in SearchCosts,
             SearchAnswered(results, cost)
      PROVE  CostAddsUp'
  BY <1>0, <1>2 DEF RunInv, CostInv, StoredInv, CostAddsUp, SearchAnswered
<1>3. ASSUME NEW error \in {"web_search", "invalid_response"}, NEW cost \in SearchCosts \cup {0},
             SearchFails(error, cost)
      PROVE  CostAddsUp'
  BY <1>0, <1>3 DEF RunInv, CostInv, StoredInv, CostAddsUp, SearchFails
<1>4. CASE FollowUp
  BY <1>0, <1>4 DEF RunInv, CostInv, StoredInv, CostAddsUp, FollowUp
<1>5. CASE Refuse
  BY <1>0, <1>5 DEF RunInv, CostInv, StoredInv, CostAddsUp, Refuse
<1>6. ASSUME NEW tokens \in Tokens, NEW sound \in BOOLEAN, Answer(tokens, sound)
      PROVE  CostAddsUp'
  BY <1>0, <1>6 DEF RunInv, CostInv, StoredInv, CostAddsUp, Ask, Answer
<1>7. CASE ModelFails
  BY <1>0, <1>7 DEF RunInv, CostInv, StoredInv, CostAddsUp, Ask, ModelFails
<1>8. CASE Publish
  BY <1>0, <1>8 DEF RunInv, CostInv, StoredInv, CostAddsUp, Publish
<1>9. CASE Commit
  BY <1>0, <1>9 DEF RunInv, CostInv, StoredInv, CostAddsUp, TypeOK, Commit
<1>10. CASE CommitFailure
  BY <1>0, <1>10 DEF RunInv, CostInv, StoredInv, CostAddsUp, TypeOK, CommitFailure
<1>11. CASE AnnounceFailure
  BY <1>0, <1>11 DEF RunInv, CostInv, StoredInv, CostAddsUp, AnnounceFailure
<1>12. CASE RequestRaises
  BY <1>0, <1>12 DEF RunInv, CostInv, StoredInv, CostAddsUp, RequestRaises
<1>13. CASE Crash
  BY <1>0, <1>13 DEF RunInv, CostInv, StoredInv, CostAddsUp, Crash
<1>14. CASE UNCHANGED vars
  BY <1>0, <1>14 DEF RunInv, CostInv, StoredInv, CostAddsUp, vars
<1> QED BY <1>1, <1>2, <1>3, <1>4, <1>5, <1>6, <1>7, <1>8, <1>9, <1>10, <1>11, <1>12, <1>13,
           <1>14 DEF Next

\* A failure that is told is stored.
LEMMA FailureStep == IInv /\ [Next]_vars => FailureIsDurable'
<1> SUFFICES ASSUME IInv, [Next]_vars PROVE FailureIsDurable'
  OBVIOUS
<1> USE DEF request, search, answer, database
<1>0. /\ TypeOK /\ RunInv /\ CostInv /\ StoredInv /\ CitedInv
      /\ CitationsResolve /\ CostAddsUp /\ FailureIsDurable
  BY DEF IInv
<1>a. TypeOK' /\ None \notin Runs \cup Events
  BY TypeStep, NoneAssumption
<1>1. CASE Start
  BY <1>0, <1>1 DEF RunInv, StoredInv, FailureIsDurable, Start
<1>2. ASSUME NEW results \in Distinct(WebSources), NEW cost \in SearchCosts,
             SearchAnswered(results, cost)
      PROVE  FailureIsDurable'
  BY <1>0, <1>2 DEF RunInv, StoredInv, FailureIsDurable, SearchAnswered
<1>3. ASSUME NEW error \in {"web_search", "invalid_response"}, NEW cost \in SearchCosts \cup {0},
             SearchFails(error, cost)
      PROVE  FailureIsDurable'
  BY <1>0, <1>3 DEF RunInv, StoredInv, FailureIsDurable, SearchFails
<1>4. CASE FollowUp
  BY <1>0, <1>4 DEF RunInv, StoredInv, FailureIsDurable, FollowUp
<1>5. CASE Refuse
  BY <1>0, <1>5 DEF RunInv, StoredInv, FailureIsDurable, Refuse
<1>6. ASSUME NEW tokens \in Tokens, NEW sound \in BOOLEAN, Answer(tokens, sound)
      PROVE  FailureIsDurable'
  BY <1>0, <1>6 DEF RunInv, StoredInv, FailureIsDurable, Ask, Answer
<1>7. CASE ModelFails
  BY <1>0, <1>7 DEF RunInv, StoredInv, FailureIsDurable, Ask, ModelFails
<1>8. CASE Publish
  BY <1>0, <1>8 DEF RunInv, StoredInv, FailureIsDurable, Event, Publish
<1>9. CASE Commit
  BY <1>0, <1>9 DEF RunInv, StoredInv, FailureIsDurable, Commit
<1>10. CASE CommitFailure
  BY <1>0, <1>10 DEF RunInv, StoredInv, FailureIsDurable, CommitFailure
<1>11. CASE AnnounceFailure
  BY <1>0, <1>11 DEF RunInv, StoredInv, FailureIsDurable, Event, AnnounceFailure
<1>12. CASE RequestRaises
  BY <1>0, <1>12 DEF RunInv, StoredInv, FailureIsDurable, RequestRaises
<1>13. CASE Crash
  BY <1>0, <1>13 DEF RunInv, StoredInv, FailureIsDurable, Crash
<1>14. CASE UNCHANGED vars
  BY <1>0, <1>14 DEF RunInv, StoredInv, FailureIsDurable, vars
<1> QED BY <1>1, <1>2, <1>3, <1>4, <1>5, <1>6, <1>7, <1>8, <1>9, <1>10, <1>11, <1>12, <1>13,
           <1>14 DEF Next


-----------------------------------------------------------------------------
(* The properties.                                                          *)

\* The invariant holds, and with it each of its parts.
THEOREM InvariantHolds == Spec => []IInv
<1>1. Init => IInv
  BY InitIInv
<1>2. IInv /\ [Next]_vars => IInv'
  <2> SUFFICES ASSUME IInv, [Next]_vars PROVE IInv'
    OBVIOUS
  <2>1. TypeOK' /\ RunInv' /\ CostInv' /\ StoredInv' /\ CitedInv'
    BY TypeStep, RunStep, CostStep, StoredStep, CitedStep
  <2>2. CitationsResolve' /\ CostAddsUp' /\ FailureIsDurable'
    BY ResolveStep, BillStep, FailureStep
  <2> QED BY <2>1, <2>2 DEF IInv
<1> QED BY <1>1, <1>2, PTL DEF Spec

\* Every variable of a web request keeps its type: no source, item or id is held twice,
\* no search is made beyond the limit, and no more rows are shown than the limit allows.
THEOREM TypeCorrect == Spec => []TypeOK
<1>1. IInv => TypeOK
  BY DEF IInv
<1> QED BY <1>1, InvariantHolds, PTL

\* What a validated answer cites can be looked up in the stored run, under the id the model
\* was given, however many sources, chunks and items there are (_accepted_model_rows,
\* _accepted_web_sources and _local_sources of research/web.py).
THEOREM CitationsAlwaysResolve == Spec => []CitationsResolve
<1>1. IInv => CitationsResolve
  BY DEF IInv
<1> QED BY <1>1, InvariantHolds, PTL

\* The stored run shows all that its searches and its answer cost, and every call to the
\* answer model is in the ledger, the ones of failed runs as well.
THEOREM CostAlwaysAddsUp == Spec => []CostAddsUp
<1>1. IInv => CostAddsUp
  BY DEF IInv
<1> QED BY <1>1, InvariantHolds, PTL

\* A failure is in the database before it is announced and before the error reply.
THEOREM FailuresAreDurable == Spec => []FailureIsDurable
<1>1. IInv => FailureIsDurable
  BY DEF IInv
<1> QED BY <1>1, InvariantHolds, PTL

-----------------------------------------------------------------------------
(* WebRun implements BilledRun.                                             *)

\* There is no run before the request begins, and none is committed as complete that was
\* not announced.
ToldInv ==
    /\ pc = "start" => run = None
    /\ pc = "commit" => event # None

\* The parts of the invariant that the refinement rests on.
LEMMA Places ==
    ASSUME IInv
    PROVE  /\ pc \in {"search", "gate"} => run # None /\ run.status = "running"
           /\ pc \in {"publish", "commit"} => run # None /\ run.status = "complete"
           /\ pc \in {"failed", "announce", "error_reply"} => run # None /\ run.status = "failed"
           /\ pc \in {"start", "search", "gate", "publish", "commit", "failed"} => stored = None
           /\ pc \in {"announce", "error_reply"} => stored = run
           /\ pc \in {"start", "search", "gate", "publish", "failed", "announce"} => event = None
           /\ stored = None => ledger = 0
           /\ calls = asked /\ asked \in Nat
<1>1. EmptyRun # None /\ EmptyRun.status = "running"
  BY EmptyRunTyped, NoneAssumption DEF EmptyRun
<1>2. TypeOK /\ RunInv /\ StoredInv /\ CostInv
  BY DEF IInv
<1>3. pc \in {"search", "gate"} => run # None /\ run.status = "running"
  BY <1>1, <1>2 DEF RunInv
<1>4. /\ pc \in {"publish", "commit"} => run # None /\ run.status = "complete"
      /\ pc \in {"failed", "announce", "error_reply"} => run # None /\ run.status = "failed"
  BY <1>2 DEF RunInv
<1>5. calls = asked /\ asked \in Nat
  BY <1>2 DEF CostInv, TypeOK
<1>6. /\ stored = None => ledger = 0
      /\ pc \in {"start", "search", "gate", "publish", "commit", "failed"} => stored = None
      /\ pc \in {"announce", "error_reply"} => stored = run
      /\ pc \in {"start", "search", "gate", "publish", "failed", "announce"} => event = None
  BY <1>2 DEF StoredInv
<1>7. QED
  BY <1>3, <1>4, <1>5, <1>6

\* A message is a record: it is not the absence of one.
LEMMA EventTyped ==
    ASSUME NEW type \in {"completed", "failed"}, run \in Runs
    PROVE  Event(type) # None
<1>1. Event(type) \in Events
  BY RunNumbers DEF Event, Events
<1>2. QED
  BY <1>1, NoneAssumption

THEOREM ToldHolds == Spec => []ToldInv
<1>1. Init => ToldInv
  BY DEF Init, ToldInv
<1>2. IInv /\ ToldInv /\ [Next]_vars => ToldInv'
  <2> SUFFICES ASSUME IInv, ToldInv, [Next]_vars PROVE ToldInv'
    OBVIOUS
  <2> USE DEF ToldInv
  <2>1. CASE Publish
    <3>1. run \in Runs /\ event' = Event("completed") /\ pc' = "commit"
      BY <2>1, Places DEF Publish, IInv, TypeOK
    <3>2. QED
      BY <3>1, EventTyped
  <2>2. CASE pc' \notin {"start", "commit"}
    BY <2>2
  <2>3. CASE UNCHANGED vars
    BY <2>3 DEF vars
  <2>4. QED
    BY <2>1, <2>2, <2>3 DEF Next, Start, SearchAnswered, SearchFails, FollowUp, Refuse, Answer,
       ModelFails, Commit, CommitFailure, AnnounceFailure, RequestRaises, Crash
<1>3. QED
  BY <1>1, <1>2, InvariantHolds, PTL DEF Spec

\* A search or an answer that ends the run, with a call or without.
LEMMA EndsAbstractly ==
    ASSUME IInv, IInv', pc \in {"search", "gate"}, pc' \in {"publish", "failed"},
           asked' \in {asked, asked + 1}, UNCHANGED <<event, stored, ledger>>
    PROVE  Billed!End
<1>1. run # None /\ run.status = "running"
  BY Places
<1>2. run' # None /\ run'.status # "running"
  BY DEF IInv, RunInv
<1>3. QED
  BY <1>1, <1>2 DEF Billed!End, Billed!CallAtMost

\* While the searches go on, nothing is seen of them.
LEMMA GoesOnAbstractly ==
    ASSUME IInv, IInv', ToldInv, pc \in {"start", "search", "gate"}, pc' \in {"search", "gate"},
           UNCHANGED <<asked, event, stored, ledger>>
    PROVE  UNCHANGED Billed!vars
<1>1. (run = None \/ run.status = "running") /\ run'.status = "running"
  <2>1. run' = EmptyRun
    BY DEF IInv, RunInv
  <2>2. QED
    BY <2>1, Places DEF ToldInv, EmptyRun
<1>2. QED
  BY <1>1 DEF Billed!vars

\* The two announcements: of a success before the commit, of a failure after it.
LEMMA AnnouncesAbstractly ==
    ASSUME IInv, NEW type \in {"completed", "failed"}, event' = Event(type),
           UNCHANGED <<run, stored, ledger, asked>>,
           \/ pc = "publish" /\ pc' = "commit" /\ type = "completed"
           \/ pc = "announce" /\ pc' = "error_reply" /\ type = "failed"
    PROVE  Billed!Announce
<1>1. /\ event = None /\ run \in Runs /\ run # None
      /\ run.status = (IF type = "completed" THEN "complete" ELSE "failed")
      /\ stored = (IF type = "completed" THEN None ELSE run)
  BY Places DEF IInv, TypeOK
<1>2. event' # None
  BY <1>1, EventTyped
<1>3. Billed!EventOf(Summary(run)) =
          [type |-> event'.type, totals |-> <<event'.tokens, event'.cost>>]
  BY <1>1 DEF Billed!EventOf, Summary, Event
<1>4. Billed!EventOf(Summary(run)).type = type
  BY <1>1 DEF Billed!EventOf, Summary
<1>5. QED
  BY <1>1, <1>2, <1>3, <1>4 DEF Billed!Announce

\* Both commits are the abstract one.
LEMMA StoresAbstractly ==
    ASSUME IInv, ToldInv, Commit \/ CommitFailure
    PROVE  Billed!Store
<1>1. /\ pc \in {"commit", "failed"} /\ stored' = run /\ ledger' = ledger + calls
      /\ UNCHANGED <<run, event, asked>>
  BY DEF Commit, CommitFailure, answer
<1>2. /\ run # None /\ run.status # "running" /\ stored = None /\ ledger = 0 /\ ledger' >= asked
      /\ run.status = "complete" => event # None
  BY <1>1, Places DEF ToldInv
<1>3. QED
  BY <1>1, <1>2 DEF Billed!Store, Summary

\* A request that ends, with its reply or without, changes nothing that is seen.
LEMMA StopsAbstractly ==
    ASSUME pc \notin {"error_reply", "done"}, pc' \in {"error_reply", "done"},
           UNCHANGED <<run, event, stored, ledger, asked>>
    PROVE  Billed!Stop
BY DEF Billed!Stop, Billed!CallAtMost

\* A question asked over the web keeps what every research request promises: failed runs are
\* committed before they are told, completed ones after, with their ledger rows and once
\* (_query_web_research, get_db_session).
THEOREM KeepsPromises == Spec => PromisesOfBilledRun
<1>1. Init => Billed!Init
  BY DEF Init, Billed!Init
<1>2. IInv /\ IInv' /\ ToldInv /\ [Next]_vars => [Billed!Next]_(Billed!vars)
  <2> SUFFICES ASSUME IInv, IInv', ToldInv, [Next]_vars
               PROVE  Billed!Next \/ UNCHANGED Billed!vars
    OBVIOUS
  <2> USE DEF request, search, answer, database
  <2>1. CASE Start
    BY <2>1, GoesOnAbstractly DEF Start
  <2>2. ASSUME NEW results \in Distinct(WebSources), NEW cost \in SearchCosts,
               SearchAnswered(results, cost)
        PROVE  UNCHANGED Billed!vars
    BY <2>2, GoesOnAbstractly DEF SearchAnswered
  <2>3. ASSUME NEW error \in {"web_search", "invalid_response"},
               NEW cost \in SearchCosts \cup {0}, SearchFails(error, cost)
        PROVE  Billed!End
    BY <2>3, EndsAbstractly DEF SearchFails
  <2>4. CASE FollowUp
    BY <2>4, GoesOnAbstractly DEF FollowUp
  <2>5. CASE Refuse
    <3>1. Billed!End
      BY <2>5, EndsAbstractly DEF Refuse
    <3>2. QED
      BY <3>1 DEF Billed!Next
  <2>6. ASSUME NEW tokens \in Tokens, NEW sound \in BOOLEAN, Answer(tokens, sound)
        PROVE  Billed!End
    BY <2>6, EndsAbstractly DEF Answer, Ask
  <2>7. CASE ModelFails
    <3>1. Billed!End
      BY <2>7, EndsAbstractly DEF ModelFails, Ask
    <3>2. QED
      BY <3>1 DEF Billed!Next
  <2>8. CASE Publish
    <3>1. Billed!Announce
      BY <2>8, AnnouncesAbstractly DEF Publish
    <3>2. QED
      BY <3>1 DEF Billed!Next
  <2>9. CASE Commit \/ CommitFailure
    <3>1. Billed!Store
      BY <2>9, StoresAbstractly
    <3>2. QED
      BY <3>1 DEF Billed!Next
  <2>10. CASE AnnounceFailure
    <3>1. /\ pc = "announce" /\ pc' = "error_reply" /\ event = None
          /\ event' \in {None, Event("failed")} /\ UNCHANGED <<run, stored, ledger, asked>>
      BY <2>10, Places DEF AnnounceFailure
    <3>2. CASE event' = None
      <4>1. Billed!Stop
        BY <3>1, <3>2, StopsAbstractly
      <4>2. QED
        BY <4>1 DEF Billed!Next
    <3>3. CASE event' = Event("failed")
      <4>1. Billed!Announce
        BY <3>1, <3>3, AnnouncesAbstractly
      <4>2. QED
        BY <4>1 DEF Billed!Next
    <3>4. QED
      BY <3>1, <3>2, <3>3
  <2>11. CASE RequestRaises \/ Crash
    <3>1. Billed!Stop
      BY <2>11, StopsAbstractly DEF RequestRaises, Crash
    <3>2. QED
      BY <3>1 DEF Billed!Next
  <2>12. CASE UNCHANGED vars
    BY <2>12 DEF vars, Billed!vars
  <2>13. QED
    BY <2>1, <2>2, <2>3, <2>4, <2>5, <2>6, <2>7, <2>8, <2>9, <2>10, <2>11, <2>12
       DEF Next, Billed!Next
<1>3. QED
  BY <1>1, <1>2, InvariantHolds, ToldHolds, PTL DEF Spec, PromisesOfBilledRun, Billed!Spec
=============================================================================
