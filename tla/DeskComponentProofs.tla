------------------------- MODULE DeskComponentProofs -------------------------
(***************************************************************************)
(* Theorems about the components of the investment desk, each for every    *)
(* value of its constants: holdings, profiles, allocation guidance, market *)
(* alerts, market analyses, the sidecar and cash plans.  DeskProofs        *)
(* carries them over to the desk that runs the components side by side.    *)
(***************************************************************************)
EXTENDS Holdings, Profiles, AllocationGuidance, CashPlanning, MarketAlerts,
        MarketAnalysis, RobinhoodSidecar, SelectionsProofs, FiniteSetTheorems, TLAPS

-----------------------------------------------------------------------------
(* Holdings: the last refresh stands. A refresh that no other of its       *)
(* source ran beside is alone from its first statement to its commit, so   *)
(* the snapshots it finds are all that is stored of its source when it     *)
(* commits. Rows older than the snapshots only become fewer, so those it   *)
(* deleted first are all there are.                                        *)

\* The source of a refresh is settled when it stores its rows and stays as it is.
SourceIsSettled ==
    \A r \in Refreshes :
        /\ refresh[r] \in Running => sourceOf[r] \in Sources
        /\ r \in snapshots => refresh[r] = "done" /\ sourceOf[r] \in Sources

\* A refresh deletes snapshots of its own source only.
DeletesItsOwn ==
    \A r \in Refreshes : refresh[r] \in {"delete", "insert", "commit"} =>
        \A q \in previous[r] : refresh[q] = "done" /\ sourceOf[q] = sourceOf[r]

\* Two refreshes of a source that run together are both known to overlap.
OverlapIsSeen ==
    \A r, q \in Refreshes :
        r # q /\ refresh[r] \in Running /\ refresh[q] \in Running /\ sourceOf[r] = sourceOf[q]
            => r \in overlapped

\* What a refresh alone on its source found is what is stored.
FoundIsStored ==
    \A r \in Refreshes \ overlapped : refresh[r] \in {"delete", "insert", "commit"} =>
        StoredOf(sourceOf[r]) \subseteq previous[r]

LegacyIsTaken ==
    \A r \in Refreshes : refresh[r] \in {"find", "delete", "insert", "commit"} =>
        {p \in legacy : p.source = sourceOf[r]} \subseteq clearing[r]

LatestIsStored ==
    \A s \in Sources : latest[s] # Missing => latest[s] \in snapshots /\ sourceOf[latest[s]] = s

HoldingsInvariant ==
    /\ HoldingsTypeOK /\ SourceIsSettled /\ DeletesItsOwn /\ OverlapIsSeen
    /\ FoundIsStored /\ LegacyIsTaken /\ LatestIsStored /\ RefreshStands

-----------------------------------------------------------------------------

LEMMA HoldingsStart == HoldingsInit => HoldingsInvariant
<1> SUFFICES ASSUME HoldingsInit PROVE HoldingsInvariant
  OBVIOUS
<1> USE HoldingsAssumption DEF HoldingsInit
<1>1. HoldingsTypeOK
  BY DEF HoldingsTypeOK, Steps, Running
<1>2. SourceIsSettled /\ DeletesItsOwn /\ OverlapIsSeen /\ FoundIsStored /\ LegacyIsTaken
  BY DEF SourceIsSettled, DeletesItsOwn, OverlapIsSeen, FoundIsStored, LegacyIsTaken, Running
<1>3. LatestIsStored /\ RefreshStands
  BY DEF LatestIsStored, RefreshStands
<1> QED BY <1>1, <1>2, <1>3 DEF HoldingsInvariant

\* A refresh that ends without a commit, or is refused, leaves what is stored alone.
LEMMA EndingKeeps ==
    ASSUME HoldingsInvariant, NEW r \in Refreshes, r \notin snapshots,
           refresh' = [refresh EXCEPT ![r] = "done"],
           clearing' \in [Refreshes -> SUBSET OldRows],
           \A q \in Refreshes \ {r} : clearing'[q] = clearing[q],
           aborts' \in 0..MaxAborts,
           UNCHANGED <<snapshots, legacy, rowsOf, sourceOf, previous, overlapped, latest>>
    PROVE  HoldingsInvariant'
<1> USE DEF HoldingsInvariant
<1>1. /\ refresh' \in [Refreshes -> Steps] /\ refresh'[r] = "done"
      /\ \A q \in Refreshes \ {r} : refresh'[q] = refresh[q]
  BY DEF HoldingsTypeOK, Steps
<1>2. HoldingsTypeOK'
  BY <1>1 DEF HoldingsTypeOK
<1>3. SourceIsSettled' /\ DeletesItsOwn' /\ OverlapIsSeen'
  BY <1>1 DEF SourceIsSettled, DeletesItsOwn, OverlapIsSeen, Running, HoldingsTypeOK
<1>4. FoundIsStored' /\ LegacyIsTaken'
  BY <1>1 DEF FoundIsStored, LegacyIsTaken, StoredOf
<1>5. LatestIsStored' /\ RefreshStands'
  BY DEF LatestIsStored, RefreshStands, StoredOf
<1> QED BY <1>2, <1>3, <1>4, <1>5

LEMMA StoringKeeps ==
    ASSUME HoldingsInvariant, NEW r \in Refreshes, refresh[r] = "new",
           NEW source \in Sources, NEW rows, NEW requested,
           StoreHoldings(r, source, rows, requested)
    PROVE  HoldingsInvariant'
<1> USE DEF HoldingsInvariant
<1>1. CASE Refuse(r, 422)
  <2>1. r \notin snapshots
    BY DEF SourceIsSettled
  <2>2. /\ refresh' = [refresh EXCEPT ![r] = "done"]
        /\ clearing' \in [Refreshes -> SUBSET OldRows] /\ clearing' = clearing
        /\ aborts' \in 0..MaxAborts
        /\ UNCHANGED <<snapshots, legacy, rowsOf, sourceOf, previous, overlapped, latest>>
    BY <1>1 DEF Refuse, HoldingsTypeOK
  <2> QED BY <2>1, <2>2, EndingKeeps
<1>2. CASE ~Refuse(r, 422)
  <2>1. /\ refresh' = [refresh EXCEPT ![r] = "legacy"]
        /\ sourceOf' = [sourceOf EXCEPT ![r] = source]
        /\ overlapped' = IF InFlight(source) = {} THEN overlapped
                         ELSE overlapped \cup InFlight(source) \cup {r}
        /\ UNCHANGED <<snapshots, legacy, previous, clearing, latest, aborts>>
    BY <1>2 DEF StoreHoldings
  <2>2. /\ refresh' \in [Refreshes -> Steps] /\ refresh'[r] = "legacy"
        /\ \A q \in Refreshes \ {r} : refresh'[q] = refresh[q]
        /\ sourceOf' \in [Refreshes -> Sources \cup {Missing}] /\ sourceOf'[r] = source
        /\ \A q \in Refreshes \ {r} : sourceOf'[q] = sourceOf[q]
    BY <2>1 DEF HoldingsTypeOK, Steps, Running
  <2>3. HoldingsTypeOK'
    BY <2>1, <2>2 DEF HoldingsTypeOK, InFlight
  <2>4. /\ r \notin snapshots
        /\ \A q \in Refreshes :
              r \notin previous[q] \/ refresh[q] \notin {"delete", "insert", "commit"}
    BY DEF SourceIsSettled, DeletesItsOwn
  <2>5. SourceIsSettled'
    BY <2>1, <2>2, <2>4 DEF SourceIsSettled
  <2>6. DeletesItsOwn'
    BY <2>1, <2>2, <2>4 DEF DeletesItsOwn, HoldingsTypeOK
  <2>7. OverlapIsSeen'
    BY <2>1, <2>2 DEF OverlapIsSeen, InFlight, Running
  <2>8. StoredOf(File)' = StoredOf(File) /\ StoredOf(Robinhood)' = StoredOf(Robinhood)
    BY <2>1, <2>2, <2>4 DEF StoredOf, HoldingsTypeOK
  <2>9. FoundIsStored' /\ LegacyIsTaken'
    BY <2>1, <2>2, <2>4 DEF FoundIsStored, LegacyIsTaken, StoredOf, HoldingsTypeOK
  <2>10. LatestIsStored'
    BY <2>1, <2>2, <2>4 DEF LatestIsStored
  <2>11. RefreshStands'
    BY <2>1, <2>8 DEF RefreshStands, Sources
  <2> QED BY <2>3, <2>5, <2>6, <2>7, <2>9, <2>10, <2>11
<1> QED BY <1>1, <1>2
\* A statement of a refresh: it deletes and finds for itself, and nothing is committed.
Advances(r, next) ==
    /\ refresh[r] \in Running /\ refresh' = [refresh EXCEPT ![r] = next]
    /\ previous' \in [Refreshes -> SUBSET Refreshes]
    /\ clearing' \in [Refreshes -> SUBSET OldRows]
    /\ \A q \in Refreshes \ {r} : previous'[q] = previous[q] /\ clearing'[q] = clearing[q]
    /\ {p \in legacy : p.source = sourceOf[r]} \subseteq clearing'[r]
    /\ next \in {"delete", "insert", "commit"} =>
          /\ \A q \in previous'[r] : refresh[q] = "done" /\ sourceOf[q] = sourceOf[r]
          /\ r \notin overlapped => StoredOf(sourceOf[r]) \subseteq previous'[r]
    /\ UNCHANGED <<snapshots, legacy, rowsOf, sourceOf, overlapped, latest, aborts>>

LEMMA AdvancingKeeps ==
    ASSUME HoldingsInvariant, NEW r \in Refreshes,
           NEW next \in {"find", "delete", "insert", "commit"}, Advances(r, next)
    PROVE  HoldingsInvariant'
<1> USE DEF HoldingsInvariant
<1>1. /\ refresh' \in [Refreshes -> Steps] /\ refresh'[r] = next
      /\ \A q \in Refreshes \ {r} : refresh'[q] = refresh[q]
  BY DEF HoldingsTypeOK, Steps, Running, Advances
<1>2. HoldingsTypeOK'
  BY <1>1 DEF HoldingsTypeOK, Advances
<1>3. SourceIsSettled'
  BY <1>1 DEF SourceIsSettled, Advances, Running
<1>4. DeletesItsOwn'
  BY <1>1 DEF DeletesItsOwn, Advances, HoldingsTypeOK, Running
<1>5. OverlapIsSeen'
  BY <1>1 DEF OverlapIsSeen, Advances, Running
<1>6. FoundIsStored' /\ LegacyIsTaken'
  BY <1>1 DEF FoundIsStored, LegacyIsTaken, StoredOf, Advances
<1>7. LatestIsStored' /\ RefreshStands'
  BY DEF LatestIsStored, RefreshStands, StoredOf, Advances
<1> QED BY <1>2, <1>3, <1>4, <1>5, <1>6, <1>7

LEMMA StatementKeeps ==
    ASSUME HoldingsInvariant, NEW r \in Refreshes,
           DeleteLegacyRows(r) \/ FindPrevious(r) \/ DeletePrevious(r) \/ InsertSnapshot(r)
    PROVE  HoldingsInvariant'
<1>1. CASE DeleteLegacyRows(r)
  <2>1. Advances(r, "find")
    BY <1>1 DEF DeleteLegacyRows, Advances, HoldingsInvariant, HoldingsTypeOK, Running
  <2> QED BY <2>1, AdvancingKeeps
<1>2. CASE FindPrevious(r)
  <2>1. Advances(r, "delete")
    BY <1>2 DEF FindPrevious, Advances, HoldingsInvariant, HoldingsTypeOK, Running, StoredOf,
                SourceIsSettled, LegacyIsTaken
  <2> QED BY <2>1, AdvancingKeeps
<1>3. CASE DeletePrevious(r)
  <2>1. Advances(r, "insert")
    BY <1>3 DEF DeletePrevious, Advances, HoldingsInvariant, HoldingsTypeOK, Running, StoredOf,
                DeletesItsOwn, FoundIsStored, LegacyIsTaken
  <2> QED BY <2>1, AdvancingKeeps
<1>4. CASE InsertSnapshot(r)
  <2>1. Advances(r, "commit")
    BY <1>4 DEF InsertSnapshot, Advances, HoldingsInvariant, HoldingsTypeOK, Running,
                DeletesItsOwn, FoundIsStored, LegacyIsTaken
  <2> QED BY <2>1, AdvancingKeeps
<1> QED BY <1>1, <1>2, <1>3, <1>4

LEMMA RefreshCommitKeeps ==
    ASSUME HoldingsInvariant, NEW r \in Refreshes, CommitRefresh(r) PROVE HoldingsInvariant'
<1> USE DEF HoldingsInvariant
<1> DEFINE mine == sourceOf[r]
<1>1. /\ refresh[r] = "commit" /\ mine \in Sources /\ r \notin snapshots
      /\ snapshots' = (snapshots \ previous[r]) \cup {r}
      /\ legacy' = legacy \ clearing[r]
      /\ UNCHANGED <<rowsOf, sourceOf, previous, overlapped, aborts>>
  BY DEF CommitRefresh, SourceIsSettled, Running
<1>2. /\ refresh' \in [Refreshes -> Steps] /\ refresh'[r] = "done"
      /\ \A q \in Refreshes \ {r} : refresh'[q] = refresh[q]
      /\ clearing' \in [Refreshes -> SUBSET OldRows]
      /\ \A q \in Refreshes \ {r} : clearing'[q] = clearing[q]
      /\ latest' \in [Sources -> Refreshes \cup {Missing}]
      /\ latest'[mine] = r /\ \A s \in Sources \ {mine} : latest'[s] = latest[s]
  BY <1>1 DEF CommitRefresh, HoldingsTypeOK, Steps
<1>3. HoldingsTypeOK'
  BY <1>1, <1>2 DEF HoldingsTypeOK
<1>4. SourceIsSettled' /\ DeletesItsOwn' /\ OverlapIsSeen'
  BY <1>1, <1>2 DEF SourceIsSettled, DeletesItsOwn, OverlapIsSeen, Running, HoldingsTypeOK
<1>5. LegacyIsTaken'
  BY <1>1, <1>2 DEF LegacyIsTaken
<1>6. \A s \in Sources \ {mine} : StoredOf(s)' = StoredOf(s)
  BY <1>1 DEF StoredOf, DeletesItsOwn
<1>7. FoundIsStored'
  <2> SUFFICES ASSUME NEW q \in Refreshes \ overlapped,
                      refresh'[q] \in {"delete", "insert", "commit"}
               PROVE  StoredOf(sourceOf[q])' \subseteq previous[q]
    BY <1>1 DEF FoundIsStored
  <2>1. q # r /\ refresh[q] \in {"delete", "insert", "commit"} /\ sourceOf[q] \in Sources
    BY <1>2 DEF SourceIsSettled, Running
  <2>2. sourceOf[q] # mine
    BY <1>1, <2>1 DEF OverlapIsSeen, Running
  <2>3. StoredOf(sourceOf[q]) \subseteq previous[q]
    BY <2>1 DEF FoundIsStored
  <2> QED BY <1>1, <1>6, <2>1, <2>2, <2>3 DEF StoredOf
<1>8. LatestIsStored'
  <2> SUFFICES ASSUME NEW s \in Sources, latest'[s] # Missing
               PROVE  latest'[s] \in snapshots' /\ sourceOf[latest'[s]] = s
    BY <1>1 DEF LatestIsStored
  <2>1. CASE s = mine
    BY <1>1, <1>2, <2>1
  <2>2. CASE s # mine
    BY <1>1, <1>2, <2>2 DEF LatestIsStored, DeletesItsOwn
  <2> QED BY <2>1, <2>2
<1>9. RefreshStands'
  <2> SUFFICES ASSUME NEW s \in Sources, latest'[s] # Missing
               PROVE  /\ StoredOf(s)' # {}
                      /\ latest'[s] \notin overlapped =>
                            /\ StoredOf(s)' = {latest'[s]}
                            /\ {p \in legacy' : p.source = s} = {}
    BY <1>1 DEF RefreshStands
  <2>1. CASE s = mine
    <3>1. r \in StoredOf(s)'
      BY <1>1, <2>1 DEF StoredOf
    <3>2. ASSUME r \notin overlapped PROVE StoredOf(s)' = {r}
      BY <1>1, <2>1, <3>1, <3>2 DEF StoredOf, FoundIsStored
    <3>3. {p \in legacy' : p.source = s} = {}
      BY <1>1, <2>1 DEF LegacyIsTaken
    <3> QED BY <1>2, <2>1, <3>1, <3>2, <3>3
  <2>2. CASE s # mine
    BY <1>1, <1>2, <1>6, <2>2 DEF RefreshStands
  <2> QED BY <2>1, <2>2
<1> QED BY <1>3, <1>4, <1>5, <1>7, <1>8, <1>9

LEMMA AbortKeeps ==
    ASSUME HoldingsInvariant, NEW r \in Refreshes, AbortRefresh(r) PROVE HoldingsInvariant'
<1>1. r \notin snapshots
  BY DEF AbortRefresh, HoldingsInvariant, SourceIsSettled, Running
<1>2. /\ clearing' \in [Refreshes -> SUBSET OldRows]
      /\ \A q \in Refreshes \ {r} : clearing'[q] = clearing[q]
      /\ refresh' = [refresh EXCEPT ![r] = "done"]
      /\ aborts' \in 0..MaxAborts
      /\ UNCHANGED <<snapshots, legacy, rowsOf, sourceOf, previous, overlapped, latest>>
  BY HoldingsAssumption DEF AbortRefresh, HoldingsInvariant, HoldingsTypeOK
<1> QED BY <1>1, <1>2, EndingKeeps

LEMMA RefusalKeeps ==
    ASSUME HoldingsInvariant, NEW r \in Refreshes, refresh[r] = "new", NEW code, Refuse(r, code)
    PROVE  HoldingsInvariant'
<1>1. r \notin snapshots
  BY DEF HoldingsInvariant, SourceIsSettled
<1>2. /\ refresh' = [refresh EXCEPT ![r] = "done"]
      /\ clearing' \in [Refreshes -> SUBSET OldRows] /\ clearing' = clearing
      /\ aborts' \in 0..MaxAborts
      /\ UNCHANGED <<snapshots, legacy, rowsOf, sourceOf, previous, overlapped, latest>>
  BY DEF Refuse, HoldingsInvariant, HoldingsTypeOK
<1> QED BY <1>1, <1>2, EndingKeeps

LEMMA HoldingsSteps == HoldingsInvariant /\ [HoldingsNext]_holdingsVars => HoldingsInvariant'
<1> SUFFICES ASSUME HoldingsInvariant, [HoldingsNext]_holdingsVars PROVE HoldingsInvariant'
  OBVIOUS
<1>1. ASSUME NEW r \in Refreshes, NEW table, NEW d, Upload(r, table, d) PROVE HoldingsInvariant'
  BY <1>1, RefusalKeeps, StoringKeeps DEF Upload, Sources
<1>2. ASSUME NEW r \in Refreshes, NEW g, SyncRobinhood(r, g) PROVE HoldingsInvariant'
  BY <1>2, RefusalKeeps, StoringKeeps DEF SyncRobinhood, Sources
<1>3. ASSUME NEW r \in Refreshes,
             DeleteLegacyRows(r) \/ FindPrevious(r) \/ DeletePrevious(r) \/ InsertSnapshot(r)
      PROVE  HoldingsInvariant'
  BY <1>3, StatementKeeps
<1>4. ASSUME NEW r \in Refreshes, CommitRefresh(r) \/ AbortRefresh(r) PROVE HoldingsInvariant'
  BY <1>4, RefreshCommitKeeps, AbortKeeps
<1>5. CASE UNCHANGED holdingsVars
  BY <1>5 DEF holdingsVars, HoldingsInvariant, HoldingsTypeOK, SourceIsSettled, DeletesItsOwn,
              OverlapIsSeen, FoundIsStored, LegacyIsTaken, LatestIsStored, RefreshStands, StoredOf
<1> QED BY <1>1, <1>2, <1>3, <1>4, <1>5 DEF HoldingsNext

-----------------------------------------------------------------------------

\* Every variable of the holdings keeps its type.
THEOREM HoldingsTypeCorrect == HoldingsSpec => []HoldingsTypeOK
<1>1. HoldingsInvariant => HoldingsTypeOK
  BY DEF HoldingsInvariant
<1> QED BY <1>1, HoldingsStart, HoldingsSteps, PTL DEF HoldingsSpec

\* Whatever requests overlap, fail or left behind: a source that was ever refreshed keeps a
\* snapshot, and one refreshed last by a request that ran alone keeps exactly that one and no
\* older row (replace_source_positions).
THEOREM LastRefreshStands == HoldingsSpec => []RefreshStands
<1>1. HoldingsInvariant => RefreshStands
  BY DEF HoldingsInvariant
<1> QED BY <1>1, HoldingsStart, HoldingsSteps, PTL DEF HoldingsSpec
-----------------------------------------------------------------------------
(* The merged view of any rows whose values can be compared.               *)

HasLargest(rows) ==
    \A some \in SUBSET rows : some # {} => \E q \in some : \A o \in some : o.value <= q.value

Live(rows) == {p.symbol : p \in {q \in rows : q.source = Robinhood}}
Preferred(rows) == {p \in rows : p.source = Robinhood \/ p.symbol \notin Live(rows)}
KeyOf(rows, p) == {q \in Preferred(rows) : q.symbol = p.symbol /\ q.account = p.account}
LargestOf(rows, p) ==
    {q \in KeyOf(rows, p) : \A o \in KeyOf(rows, p) : o.value <= q.value}

LEMMA ShownIsLargest ==
    ASSUME NEW rows, HasLargest(rows)
    PROVE  /\ \A p \in Merged(rows) : \E k \in Preferred(rows) :
                 p = CHOOSE q \in LargestOf(rows, k) : TRUE
           /\ \A k \in Preferred(rows) :
                 /\ (CHOOSE q \in LargestOf(rows, k) : TRUE) \in Merged(rows)
                 /\ (CHOOSE q \in LargestOf(rows, k) : TRUE) \in KeyOf(rows, k)
<1>1. Merged(rows) = {CHOOSE q \in LargestOf(rows, p) : TRUE : p \in Preferred(rows)}
  BY DEF Merged, LargestOf, KeyOf, Preferred, Live
<1>2. ASSUME NEW k \in Preferred(rows)
      PROVE  (CHOOSE q \in LargestOf(rows, k) : TRUE) \in KeyOf(rows, k)
  <2>1. k \in KeyOf(rows, k) /\ KeyOf(rows, k) \in SUBSET rows
    BY DEF KeyOf, Preferred
  <2>2. LargestOf(rows, k) # {}
    BY <2>1 DEF HasLargest, LargestOf
  <2> QED BY <2>2 DEF LargestOf
<1> QED BY <1>1, <1>2

\* One row per symbol and account, one source per symbol, and no symbol lost from sight,
\* whatever is stored: _merge_source_positions counts nothing twice.
THEOREM MergedCountsOnce == HasLargest(StoredRows) => NothingCountedTwice
<1> SUFFICES ASSUME HasLargest(StoredRows) PROVE NothingCountedTwice
  OBVIOUS
<1> DEFINE rows == StoredRows
<1> DEFINE Shown(k) == CHOOSE q \in LargestOf(rows, k) : TRUE
<1>1. /\ \A p \in View : \E k \in Preferred(rows) : p = Shown(k)
      /\ \A k \in Preferred(rows) : Shown(k) \in View /\ Shown(k) \in KeyOf(rows, k)
  BY ShownIsLargest DEF View
<1>2. \A k, l \in Preferred(rows) :
        k.symbol = l.symbol /\ k.account = l.account => Shown(k) = Shown(l)
  <2> SUFFICES ASSUME NEW k \in Preferred(rows), NEW l \in Preferred(rows),
                      k.symbol = l.symbol, k.account = l.account
               PROVE  Shown(k) = Shown(l)
    OBVIOUS
  <2>1. KeyOf(rows, k) = KeyOf(rows, l)
    BY DEF KeyOf
  <2>2. LargestOf(rows, k) = LargestOf(rows, l)
    BY <2>1 DEF LargestOf
  <2> QED BY <2>2
<1> HIDE DEF Shown, rows
<1>3. ASSUME NEW p \in View, NEW q \in View
      PROVE  /\ p.symbol = q.symbol => p.source = q.source \/ Robinhood \notin {p.source, q.source}
             /\ p # q => p.symbol # q.symbol \/ p.account # q.account
  <2>1. PICK k \in Preferred(rows), l \in Preferred(rows) : p = Shown(k) /\ q = Shown(l)
    BY <1>1
  <2>2. p \in KeyOf(rows, k) /\ q \in KeyOf(rows, l)
    BY <1>1, <2>1
  <2>3. p \in Preferred(rows) /\ q \in Preferred(rows)
        /\ p.symbol = k.symbol /\ p.account = k.account
        /\ q.symbol = l.symbol /\ q.account = l.account
    BY <2>2 DEF KeyOf
  <2>4. p.symbol = q.symbol => p.source = q.source \/ Robinhood \notin {p.source, q.source}
    BY <2>3 DEF Preferred, Live
  <2>5. p.symbol = q.symbol /\ p.account = q.account => p = q
    BY <1>2, <2>1, <2>3
  <2> QED BY <2>4, <2>5
<1>4. {p.symbol : p \in View} = {p.symbol : p \in rows}
  <2>1. ASSUME NEW p \in View PROVE p \in rows
    BY <1>1 DEF KeyOf, Preferred
  <2>2. ASSUME NEW p \in rows PROVE \E q \in View : q.symbol = p.symbol
    <3>1. PICK k \in Preferred(rows) : k.symbol = p.symbol
      BY DEF Preferred, Live
    <3> QED BY <1>1, <3>1 DEF KeyOf
  <2> QED BY <2>1, <2>2
<1> QED BY <1>3, <1>4 DEF NothingCountedTwice, rows

\* Finitely many rows with numbers for values.
Comparable(rows) == IsFiniteSet(rows) /\ \A p \in rows : p.value \in Int

\* The snapshots are finitely many, and so are the rows of each.
RowsAreComparable ==
    /\ IsFiniteSet(snapshots)
    /\ rowsOf = [r \in Refreshes |-> rowsOf[r]]
    /\ \A r \in Refreshes : Comparable(rowsOf[r])

LEMMA ComparableHaveLargest ==
    ASSUME NEW rows, Comparable(rows) PROVE HasLargest(rows)
<1> SUFFICES ASSUME NEW some \in SUBSET rows, some # {}
             PROVE  \E q \in some : \A o \in some : o.value <= q.value
  BY DEF HasLargest
<1> DEFINE value == [q \in some |-> q.value]
           values == {value[q] : q \in some}
<1>1. IsFiniteSet(some) /\ \A q \in some : q.value \in Int
  BY FS_Subset DEF Comparable
<1>2. IsFiniteSet(values)
  <2> HIDE DEF value
  <2> QED BY <1>1, ValuesAreFinite
<1>3. values \in SUBSET Int /\ values # {}
  BY <1>1
<1>4. PICK n \in values : \A k \in values : k <= n
  <2> HIDE DEF values
  <2> QED BY <1>2, <1>3, LargestExists
<1> QED BY <1>4

\* A table that is accepted has finitely many rows, each with a value.
LEMMA ParsedAreComparable ==
    ASSUME NEW table \in FileTables, UploadStatus(table) = 201
    PROVE  Comparable(ParsedRows(table))
<1> DEFINE row == [i \in PositionLines(table) |-> table.lines[i].row]
<1>1. TableAccepted(table)
  BY HoldingsInputs DEF UploadStatus
<1>2. \A i \in PositionLines(table) : table.lines[i].row.value \in Int
  BY <1>1, HoldingsInputs DEF TableAccepted, PositionLines
<1>3. IsFiniteSet(PositionLines(table))
  BY HoldingsInputs, FS_Subset DEF PositionLines
<1>4. ParsedRows(table) = {row[i] : i \in PositionLines(table)}
  BY DEF ParsedRows
<1> HIDE DEF row
<1>5. IsFiniteSet(ParsedRows(table))
  BY <1>3, <1>4, ValuesAreFinite
<1> QED BY <1>2, <1>5 DEF Comparable, ParsedRows

\* A reply of complete records gives each position a value: its own, or quantity times price.
LEMMA NormalizedAreComparable ==
    ASSUME NEW g \in GatewayReplies, SyncStatus(g) = 201
    PROVE  Comparable(NormalizedPositions(g))
<1> DEFINE Position(p) == NormalizedPosition(g.records, g.quotes, p)
           position == [p \in g.records |-> Position(p)]
<1>1. \A p \in g.records : ~ Incomplete(g.records, g.quotes, p)
  BY HoldingsInputs DEF SyncStatus, ProviderStatus
<1>2. ASSUME NEW p \in g.records PROVE Position(p).value \in Int
  <2>1. /\ {p.quantity, p.shares, p.price, p.value} \subseteq Int \cup {Missing}
        /\ \A s \in DOMAIN g.quotes : g.quotes[s] \in Int \cup {Missing}
    BY HoldingsInputs
  <2>2. GivenValue(p) \in Int \cup {Missing} /\ GivenQuantity(p) \in Int \cup {Missing}
    BY <2>1 DEF GivenValue, GivenQuantity, FirstTruthy
  <2>3. GivenPrice(g.records, g.quotes, p) \in Int \cup {Missing}
    BY <2>1 DEF GivenPrice, LivePrice
  <2>4. /\ GivenQuantity(p) # Missing
        /\ GivenValue(p) # Missing \/ GivenPrice(g.records, g.quotes, p) # Missing
    BY <1>1 DEF Incomplete
  <2> QED BY <2>2, <2>3, <2>4 DEF NormalizedPosition
<1>3. NormalizedPositions(g) = {position[p] : p \in g.records}
  <2> HIDE DEF Position
  <2>1. \A p \in g.records : position[p] = Position(p)
    OBVIOUS
  <2>2. NormalizedPositions(g) = {Position(p) : p \in g.records}
    BY DEF NormalizedPositions, Position
  <2> HIDE DEF position
  <2> QED BY <2>1, <2>2
<1>4. IsFiniteSet(g.records)
  BY HoldingsInputs
<1>5. IsFiniteSet(NormalizedPositions(g))
  <2> HIDE DEF position
  <2> QED BY <1>3, <1>4, ValuesAreFinite
<1> QED BY <1>2, <1>5 DEF Comparable, NormalizedPositions

LEMMA ComparableStarts == HoldingsInit => RowsAreComparable
BY FS_EmptySet DEF HoldingsInit, RowsAreComparable, Comparable

LEMMA ComparableSteps ==
    RowsAreComparable /\ [HoldingsNext]_holdingsVars => RowsAreComparable'
<1> SUFFICES ASSUME RowsAreComparable, [HoldingsNext]_holdingsVars PROVE RowsAreComparable'
  OBVIOUS
<1>1. ASSUME UNCHANGED <<snapshots, rowsOf>> PROVE RowsAreComparable'
  BY <1>1 DEF RowsAreComparable
<1>2. ASSUME NEW r \in Refreshes, NEW source, NEW rows, Comparable(rows), NEW requested,
             StoreHoldings(r, source, rows, requested)
      PROVE  RowsAreComparable'
  <2>1. snapshots' = snapshots /\ (rowsOf' = rowsOf \/ rowsOf' = [rowsOf EXCEPT ![r] = rows])
    BY <1>2 DEF StoreHoldings, Refuse
  <2> QED BY <1>2, <2>1 DEF RowsAreComparable
<1>3. ASSUME NEW r \in Refreshes, NEW table \in FileTables, NEW d, Upload(r, table, d)
      PROVE  RowsAreComparable'
  <2>1. CASE UploadStatus(table) # 201
    BY <1>1, <1>3, <2>1 DEF Upload, Refuse
  <2>2. CASE UploadStatus(table) = 201
    BY <1>2, <1>3, <2>2, ParsedAreComparable DEF Upload
  <2> QED BY <2>1, <2>2
<1>4. ASSUME NEW r \in Refreshes, NEW g \in GatewayReplies, SyncRobinhood(r, g)
      PROVE  RowsAreComparable'
  <2>1. CASE SyncStatus(g) # 201
    BY <1>1, <1>4, <2>1 DEF SyncRobinhood, Refuse
  <2>2. CASE SyncStatus(g) = 201
    BY <1>2, <1>4, <2>2, NormalizedAreComparable DEF SyncRobinhood
  <2> QED BY <2>1, <2>2
<1>5. ASSUME NEW r \in Refreshes, CommitRefresh(r) PROVE RowsAreComparable'
  <2>1. snapshots' = (snapshots \ previous[r]) \cup {r} /\ rowsOf' = rowsOf
    BY <1>5 DEF CommitRefresh
  <2>2. IsFiniteSet(snapshots \ previous[r])
    BY FS_Difference DEF RowsAreComparable
  <2>3. IsFiniteSet(snapshots')
    BY <2>1, <2>2, FS_AddElement
  <2> QED BY <2>1, <2>3 DEF RowsAreComparable
<1>6. ASSUME NEW r \in Refreshes,
             \/ DeleteLegacyRows(r) \/ FindPrevious(r) \/ DeletePrevious(r)
             \/ InsertSnapshot(r) \/ AbortRefresh(r)
      PROVE  RowsAreComparable'
  BY <1>1, <1>6 DEF DeleteLegacyRows, FindPrevious, DeletePrevious, InsertSnapshot, AbortRefresh
<1>7. CASE UNCHANGED holdingsVars
  BY <1>1, <1>7 DEF holdingsVars
<1> QED BY <1>3, <1>4, <1>5, <1>6, <1>7 DEF HoldingsNext

\* What is stored is finite and comes from accepted tables, complete replies and old rows.
LEMMA StoredAreComparable ==
    HoldingsTypeOK /\ RowsAreComparable => Comparable(StoredRows)
<1> SUFFICES ASSUME HoldingsTypeOK, RowsAreComparable PROVE Comparable(StoredRows)
  OBVIOUS
<1> DEFINE TaggedOf(r) == Tagged(sourceOf[r], rowsOf[r])
           rows == [r \in snapshots |-> TaggedOf(r)]
           sets == {rows[r] : r \in snapshots}
<1>1. ASSUME NEW r \in snapshots PROVE Comparable(TaggedOf(r))
  <2> DEFINE tagged == [p \in rowsOf[r] |->
                          [source |-> sourceOf[r], symbol |-> p.symbol, account |-> p.account,
                           value |-> p.value]]
  <2>1. Comparable(rowsOf[r])
    BY DEF HoldingsTypeOK, RowsAreComparable
  <2>2. TaggedOf(r) = {tagged[p] : p \in rowsOf[r]}
    BY DEF Tagged
  <2>3. IsFiniteSet(TaggedOf(r))
    <3> HIDE DEF tagged, TaggedOf
    <3> QED BY <2>1, <2>2, ValuesAreFinite DEF Comparable
  <2> QED BY <2>1, <2>3 DEF Comparable, Tagged
<1>2. IsFiniteSet(sets) /\ \A some \in sets : Comparable(some)
  <2>1. IsFiniteSet(sets)
    <3> HIDE DEF rows
    <3> QED BY ValuesAreFinite DEF RowsAreComparable
  <2> QED BY <1>1, <2>1
<1>3. UNION {Tagged(sourceOf[r], rowsOf[r]) : r \in snapshots} = UNION sets
  OBVIOUS
<1> HIDE DEF sets
<1>4. Comparable(UNION sets)
  BY <1>2, FS_UNION DEF Comparable
<1>5. Comparable(legacy)
  BY HoldingsInputs, FS_Subset DEF HoldingsTypeOK, Comparable
<1> QED BY <1>3, <1>4, <1>5, FS_Union DEF StoredRows, Comparable

\* The holdings keep their promises whatever happens: the last refresh stands, and the merged
\* view of what is stored counts it once.
THEOREM HoldingsAlwaysStand == HoldingsSpec => []HoldingsStand
<1>1. HoldingsTypeOK /\ RowsAreComparable /\ RefreshStands => HoldingsStand
  BY StoredAreComparable, ComparableHaveLargest, MergedCountsOnce DEF HoldingsStand
<1>2. HoldingsSpec => []RowsAreComparable
  BY ComparableStarts, ComparableSteps, PTL DEF HoldingsSpec
<1> QED BY <1>1, <1>2, HoldingsTypeCorrect, LastRefreshStands, PTL

-----------------------------------------------------------------------------
(* Profiles: the last saved profile stands and the current one resolves.   *)
(* The invariant follows each request from the rows it saw to the rows it  *)
(* locks and commits, and says for every way a profile can name a document *)
(* or a pack that is gone which two requests raced to bring it about.      *)
(*                                                                         *)
(* Lists of method documents, and the last of several profiles.            *)

\* The documents a list names are finitely many.
LEMMA NamedAreFinite ==
    ASSUME NEW S, NEW list \in Seq(S)
    PROVE  IsFiniteSet({list[i] : i \in DOMAIN list})
<1> DEFINE T == {list[i] : i \in DOMAIN list}
           f == [i \in DOMAIN list |-> list[i]]
<1>1. Len(list) \in Nat /\ DOMAIN list = 1 .. Len(list)
  BY LenProperties
<1>2. IsFiniteSet(DOMAIN list)
  BY <1>1, 1 \in Int, Len(list) \in Int, FS_Interval
<1>3. f \in Surjection(DOMAIN list, T)
  BY DEF Surjection
<1> HIDE DEF T, f
<1> QED BY <1>2, <1>3, FS_Surjection DEF T

\* A list without a document names all others it named and is no longer than it may be.
LEMMA WithoutProperties ==
    ASSUME NEW list \in StoredLists, NEW m
    PROVE  /\ Without(list, m) \in StoredLists
           /\ \A x : Mentions(Without(list, m), x) <=> Mentions(list, x) /\ x # m
<1> DEFINE I == {i \in DOMAIN list : list[i] # m}
           kept == Without(list, m)
<1>1. list \in Seq(Methods) /\ Cardinality({list[i] : i \in DOMAIN list}) <= PanelSize
  BY DEF StoredLists
<1>2. kept = Pick(list, I) /\ I \in SUBSET DOMAIN list
  BY DEF Without
<1> HIDE DEF kept
<1>3. /\ kept \in Seq(Methods)
      /\ \A k \in DOMAIN kept : Nth(I, k) \in I /\ kept[k] = list[Nth(I, k)]
      /\ \A i \in I : \E k \in DOMAIN kept : kept[k] = list[i]
  <2> HIDE DEF I
  <2> QED BY <1>1, <1>2, PickProperties
<1>4. {kept[k] : k \in DOMAIN kept} \subseteq {list[i] : i \in DOMAIN list}
  BY <1>2, <1>3
<1>5. Cardinality({kept[k] : k \in DOMAIN kept}) <= PanelSize
  <2> DEFINE K == {kept[k] : k \in DOMAIN kept}
             L == {list[i] : i \in DOMAIN list}
  <2>1. IsFiniteSet(K) /\ IsFiniteSet(L)
    BY <1>1, <1>3, NamedAreFinite
  <2> HIDE DEF K, L
  <2>2. K \in SUBSET L
    BY <1>4 DEF K, L
  <2>3. Cardinality(K) <= Cardinality(L) /\ Cardinality(K) \in Nat /\ Cardinality(L) \in Nat
    BY <2>1, <2>2, FS_Subset, FS_CardinalityType
  <2>4. Cardinality(L) <= PanelSize
    BY <1>1 DEF L
  <2>5. Cardinality(K) <= PanelSize
    BY <2>3, <2>4, ProfilesAssumption
  <2> QED BY <2>5 DEF K
<1>6. kept \in StoredLists
  BY <1>3, <1>5 DEF StoredLists
<1>7. ASSUME NEW x PROVE Mentions(kept, x) <=> Mentions(list, x) /\ x # m
  <2>1. ASSUME Mentions(kept, x) PROVE Mentions(list, x) /\ x # m
    <3>1. PICK k \in DOMAIN kept : kept[k] = x
      BY <2>1 DEF Mentions
    <3>2. Nth(I, k) \in DOMAIN list /\ list[Nth(I, k)] # m /\ x = list[Nth(I, k)]
      BY <1>3, <3>1
    <3> QED BY <3>2 DEF Mentions
  <2>2. ASSUME Mentions(list, x), x # m PROVE Mentions(kept, x)
    <3>1. PICK i \in DOMAIN list : list[i] = x
      BY <2>2 DEF Mentions
    <3>2. i \in I
      BY <2>2, <3>1
    <3> QED BY <1>3, <3>1, <3>2 DEF Mentions
  <2> QED BY <2>1, <2>2
<1> QED BY <1>6, <1>7 DEF kept

\* The first document of a list is Absent or named by it.
LEMMA FirstIsNamed ==
    ASSUME NEW list \in StoredLists
    PROVE  /\ FirstOf(list) \in Methods \cup {Absent}
           /\ FirstOf(list) # Absent => Mentions(list, FirstOf(list))
<1>1. list \in Seq(Methods)
  BY DEF StoredLists
<1>2. CASE list = <<>>
  BY <1>2 DEF FirstOf
<1>3. CASE list # <<>>
  <2>1. 1 \in DOMAIN list /\ Head(list) = list[1] /\ list[1] \in Methods
    BY <1>1, <1>3, EmptySeq, LenProperties, HeadTailProperties, ElementOfSeq
  <2> QED BY <1>3, <2>1 DEF FirstOf, Mentions
<1> QED BY <1>2, <1>3

\* Of the profiles that are active the one that began last is the current one.
LEMMA CurrentIsLast ==
    ASSUME ProfilesTypeOK, RowInv, AgeInv
    PROVE  /\ Current = Absent <=> Active = {}
           /\ Active # {} => Current \in Active /\ \A c \in Active : began[c] <= began[Current]
<1>1. Active \subseteq Begun /\ Absent \notin Active
  BY ProfilesAssumption DEF Active, RowInv, ProfilesTypeOK
<1>2. CASE Active = {}
  BY <1>2 DEF Current
<1>3. CASE Active # {}
  <2> DEFINE ages == {began[p] : p \in Active}
             age == [p \in Active |-> began[p]]
  <2>1. IsFiniteSet(Active)
    BY <1>1, FS_Subset DEF AgeInv
  <2>2. age \in Surjection(Active, ages)
    BY DEF Surjection
  <2>3. IsFiniteSet(ages)
    <3> HIDE DEF ages, age
    <3> QED BY <2>1, <2>2, FS_Surjection
  <2>4. ages \in SUBSET Int /\ ages # {}
    BY <1>1, <1>3 DEF AgeInv, Begun
  <2>5. PICK n \in ages : \A k \in ages : k <= n
    <3> HIDE DEF ages
    <3> QED BY <2>3, <2>4, LargestExists
  <2>6. \E p \in Active : \A c \in Active : began[c] <= began[p]
    BY <2>5
  <2>7. Current \in Active /\ \A c \in Active : began[c] <= began[Current]
    BY <1>3, <2>6 DEF Current
  <2> QED BY <1>1, <1>3, <2>7
<1> QED BY <1>2, <1>3

-----------------------------------------------------------------------------
(* The steps.                                                               *)

\* The steps of a transaction that has begun and not ended.
Flight == {"find", "deactivate", "insert", "detach", "delete", "upsert", "drop", "reset", "commit"}

\* A request that is not refused begins, with what its kind needs.
Starts(r, request, next) ==
    /\ Begin(r, request, next)
    /\ \/ /\ request.kind = "save" /\ next = "find"
          /\ request.style \in StoredStyles /\ KnownStyle(request.style)
          /\ request.list \in StoredLists /\ \A m : Mentions(request.list, m) => m \in methods
       \/ request.kind = "clear" /\ next = "find"
       \/ request.kind = "upload_method" /\ next = "commit"
       \/ request.kind = "delete_method" /\ next = "detach" /\ request.method \in Methods
       \/ request.kind = "upload_style" /\ next = "upsert"
             /\ request.style \in StyleIds \ BuiltinStyles
       \/ request.kind = "delete_style" /\ next = "drop"
             /\ request.style \in StoredStyles \ BuiltinStyles

\* A request ends without a transaction, fails, or does one of its statements.
Denies(r) == \E code : Deny(r, code)
Fails(r) == changing[r] \in Flight /\ Rollback(r) /\ failures' \in 0 .. MaxFailures

Works(r) ==
    \/ FindActive(r) \/ Deactivate(r) \/ InsertProfile(r) \/ DetachMethod(r) \/ RemoveMethod(r)
    \/ SaveStyle(r) \/ DropStyle(r) \/ ResetStyle(r)

\* What normalization leaves is in its last form, and known when built in or stored.
LEMMA NormalizedProperties ==
    /\ \A id \in StyleIds : Normalized(id) \in StoredStyles
    /\ \A id \in StoredStyles :
          Normalized(id) = id /\ (KnownStyle(id) <=> id \in BuiltinStyles \cup styles)
    /\ BuiltinStyles \subseteq StoredStyles
BY ProfilesAssumption DEF Normalized, StoredStyles, KnownStyle

\* A step of the profiles begins a request, ends one or does a statement of one.
LEMMA StepCases ==
    ASSUME ProfilesNext, ProfilesInv
    PROVE  \E r \in Changes :
              \/ \E request, next : Starts(r, request, next)
              \/ Denies(r) \/ Fails(r) \/ Works(r) \/ CommitChange(r)
<1> USE DEF ProfilesInv
<1>1. PICK r \in Changes :
        \/ \E id \in StyleIds : UploadStyle(r, id) \/ DeleteStyle(r, id)
        \/ \E id \in StyleIds, list \in MethodLists : SaveProfile(r, id, list)
        \/ ClearProfile(r)
        \/ \E end \in {"refused", "known", "new"} : UploadMethod(r, end)
        \/ \E m \in FirstMethods \cup Changes : DeleteMethod(r, m)
        \/ InsertFails(r) \/ SaveStyleFails(r) \/ FailChange(r)
        \/ Works(r) \/ CommitChange(r)
  BY DEF ProfilesNext, Works
<1>2. CASE \E id \in StyleIds : UploadStyle(r, id) \/ DeleteStyle(r, id)
  <2>1. PICK id \in StyleIds : UploadStyle(r, id) \/ DeleteStyle(r, id)
    BY <1>2
  <2>2. CASE UploadStyle(r, id) /\ id \notin BuiltinStyles
    <3>1. Starts(r, [kind |-> "upload_style", style |-> id, present |-> id \in styles], "upsert")
      BY <2>2 DEF UploadStyle, Starts
    <3> QED BY <3>1
  <2>3. CASE UploadStyle(r, id) /\ id \in BuiltinStyles
    BY <2>3 DEF UploadStyle, Denies
  <2>4. CASE DeleteStyle(r, id)
    <3>1. Normalized(id) \in StoredStyles
      BY NormalizedProperties
    <3>2. \/ Deny(r, "refused")
          \/ /\ Normalized(id) \in styles \ BuiltinStyles
             /\ Begin(r, [kind |-> "delete_style", style |-> Normalized(id)], "drop")
      BY <2>4 DEF DeleteStyle
    <3>3. CASE Deny(r, "refused")
      BY <3>3 DEF Denies
    <3>4. CASE /\ Normalized(id) \in styles \ BuiltinStyles
               /\ Begin(r, [kind |-> "delete_style", style |-> Normalized(id)], "drop")
      <4>1. Starts(r, [kind |-> "delete_style", style |-> Normalized(id)], "drop")
        BY <3>1, <3>4 DEF Starts
      <4> QED BY <4>1
    <3> QED BY <3>2, <3>3, <3>4
  <2> QED BY <2>1, <2>2, <2>3, <2>4
<1>3. CASE \E id \in StyleIds, list \in MethodLists : SaveProfile(r, id, list)
  <2>1. PICK id \in StyleIds, list \in MethodLists : SaveProfile(r, id, list)
    BY <1>3
  <2>2. CASE KnownStyle(id) /\ KnownMethods(list)
    <3> DEFINE request == [kind |-> "save", style |-> Normalized(id), list |-> list]
    <3>1. Normalized(id) \in StoredStyles /\ KnownStyle(Normalized(id))
      BY <2>2, NormalizedProperties DEF KnownStyle
    <3>2. list \in StoredLists /\ \A m : Mentions(list, m) => m \in methods
      BY <2>2, ProfilesAssumption DEF KnownMethods, StoredLists, Mentions, Methods
    <3>3. Begin(r, request, "find")
      BY <2>1, <2>2 DEF SaveProfile
    <3>4. Starts(r, request, "find")
      BY <3>1, <3>2, <3>3 DEF Starts
    <3> QED BY <3>4
  <2>3. CASE ~ (KnownStyle(id) /\ KnownMethods(list))
    BY <2>1, <2>3 DEF SaveProfile, Denies
  <2> QED BY <2>2, <2>3
<1>4. CASE ClearProfile(r)
  <2>1. Starts(r, [kind |-> "clear"], "find")
    BY <1>4 DEF ClearProfile, Starts
  <2> QED BY <2>1
<1>5. CASE \E end \in {"refused", "known", "new"} : UploadMethod(r, end)
  <2>1. Deny(r, "refused") \/ Deny(r, "accepted") \/ Begin(r, [kind |-> "upload_method"], "commit")
    BY <1>5 DEF UploadMethod
  <2>2. CASE Deny(r, "refused") \/ Deny(r, "accepted")
    BY <2>2 DEF Denies
  <2>3. CASE Begin(r, [kind |-> "upload_method"], "commit")
    <3>1. Starts(r, [kind |-> "upload_method"], "commit")
      BY <2>3 DEF Starts
    <3> QED BY <3>1
  <2> QED BY <2>1, <2>2, <2>3
<1>6. CASE \E m \in FirstMethods \cup Changes : DeleteMethod(r, m)
  <2>1. PICK m \in FirstMethods \cup Changes : DeleteMethod(r, m)
    BY <1>6
  <2>2. CASE m \in methods
    <3>1. Starts(r, [kind |-> "delete_method", method |-> m], "detach")
      BY <2>1, <2>2 DEF DeleteMethod, Starts, Methods
    <3> QED BY <3>1
  <2>3. CASE m \notin methods
    BY <2>1, <2>3 DEF DeleteMethod, Denies
  <2> QED BY <2>2, <2>3
<1>7. CASE InsertFails(r) \/ SaveStyleFails(r) \/ FailChange(r)
  <2>1. changing[r] \in Flight
    BY <1>7 DEF InsertFails, SaveStyleFails, FailChange, Ongoing, Flight, RequestInv
  <2>2. Rollback(r)
    BY <1>7 DEF InsertFails, SaveStyleFails, FailChange
  <2>3. failures' \in 0 .. MaxFailures
    BY <1>7, ProfilesAssumption DEF InsertFails, SaveStyleFails, FailChange, ProfilesTypeOK
  <2> QED BY <2>1, <2>2, <2>3 DEF Fails
<1> QED BY <1>1, <1>2, <1>3, <1>4, <1>5, <1>6, <1>7

\* A step that stores nothing, and begins nothing.
Aside(r) ==
    /\ UNCHANGED <<profiles, styles, methods, change, began, beside, lastChange>>
    /\ changing[r] \in Flight \cup {"new"} /\ changing'[r] \in Flight \cup {"done"}
    /\ changing'[r] \in Flight => changing[r] \in Flight
    /\ \A q \in Changes \ {r} :
          /\ changing'[q] = changing[q] /\ found'[q] = found[q]
          /\ locked'[q] = locked[q] /\ listed'[q] = listed[q]

\* The requests that are under way are those in a transaction.
LEMMA OngoingFlight ==
    ASSUME RequestInv
    PROVE  Ongoing = {q \in Changes : changing[q] \in Flight}
BY DEF RequestInv, Ongoing, Flight

\* A statement changes only where its request is and which rows it holds.
LEMMA WorksAside ==
    ASSUME RequestInv, RowInv, ProfilesTypeOK, NEW r \in Changes, Works(r)
    PROVE  Aside(r) /\ changing'[r] \in Flight
<1> USE DEF RequestInv, RowInv, ProfilesTypeOK, Aside, Turn, Flight, library
<1>1. CASE FindActive(r)
  BY <1>1 DEF FindActive
<1>2. CASE Deactivate(r)
  BY <1>2 DEF Deactivate
<1>3. CASE InsertProfile(r)
  BY <1>3 DEF InsertProfile
<1>4. CASE DetachMethod(r)
  BY <1>4 DEF DetachMethod
<1>5. CASE RemoveMethod(r)
  BY <1>5 DEF RemoveMethod
<1>6. CASE SaveStyle(r)
  BY <1>6 DEF SaveStyle
<1>7. CASE DropStyle(r)
  BY <1>7 DEF DropStyle
<1>8. CASE ResetStyle(r)
  BY <1>8 DEF ResetStyle
<1> QED BY <1>1, <1>2, <1>3, <1>4, <1>5, <1>6, <1>7, <1>8 DEF Works

\* A request that ends without a commit changes nothing else.
LEMMA EndsAside ==
    ASSUME RequestInv, RowInv, ProfilesTypeOK, NEW r \in Changes, Denies(r) \/ Fails(r)
    PROVE  /\ Aside(r) /\ changing'[r] = "done" /\ failures' \in 0 .. MaxFailures
           /\ locked'[r] = IF Denies(r) THEN locked[r] ELSE {}
           /\ UNCHANGED <<found, listed>>
<1> USE DEF RequestInv, RowInv, ProfilesTypeOK, Aside, Turn, Flight, library, history
<1>1. CASE Denies(r)
  BY <1>1 DEF Denies, Deny
<1>2. CASE Fails(r) /\ ~ Denies(r)
  BY <1>2 DEF Fails, Rollback
<1> QED BY <1>1, <1>2

\* What is derived of what is stored stays, and no request takes off.
LEMMA AsideKeeps ==
    ASSUME RequestInv, NEW r \in Changes, Aside(r)
    PROVE  /\ Active' = Active /\ Writers' = Writers /\ Begun' = Begun
           /\ Ongoing' \subseteq Ongoing /\ (changing'[r] = "done" => r \notin Ongoing')
           /\ \A q \in Changes : Kind(q)' = Kind(q)
<1>1. /\ \A q \in Changes : Kind(q)' = Kind(q)
      /\ Active' = Active /\ Writers' = Writers /\ Begun' = Begun
  BY DEF Aside, Kind, Active, Writers, Begun
<1>2. ASSUME NEW q \in Changes, changing'[q] \notin {"new", "done"}
      PROVE  changing[q] \notin {"new", "done"}
  BY <1>2 DEF Aside, Flight
<1> QED BY <1>1, <1>2 DEF Ongoing

\* What a beginning leaves alone, and what it is known to set.
LEMMA StartFrame ==
    ASSUME RequestInv, AgeInv, ProfilesTypeOK, NEW r \in Changes, NEW request, NEW next,
           Starts(r, request, next)
    PROVE  /\ UNCHANGED <<profiles, styles, methods, found, locked, listed, lastChange, failures>>
           /\ changing[r] = "new" /\ Kind(r) = "none" /\ r \notin Begun /\ r \notin Ongoing
           /\ DOMAIN change' = Changes
           /\ change'[r] = request /\ changing'[r] = next /\ next \in Flight
           /\ \A q \in Changes \ {r} : /\ change'[q] = change[q] /\ changing'[q] = changing[q]
                                       /\ began'[q] = began[q]
           /\ began'[r] = Cardinality(Begun) + 1
           /\ beside'[r] = Ongoing
           /\ \A q \in Changes \ {r} : /\ q \in Ongoing => beside'[q] = beside[q] \cup {r}
                                       /\ q \notin Ongoing => beside'[q] = beside[q]
           /\ Ongoing' = Ongoing \cup {r}
<1> USE DEF RequestInv, AgeInv, ProfilesTypeOK, Flight
<1>1. changing[r] = "new" /\ Begin(r, request, next) /\ next \in Flight
  BY DEF Starts, Begin
<1>2. Kind(r) = "none" /\ r \notin Begun /\ r \notin Ongoing
  BY <1>1 DEF Ongoing
<1>3. /\ change' = [change EXCEPT ![r] = request]
      /\ changing' = [changing EXCEPT ![r] = next]
      /\ began' = [began EXCEPT ![r] = Cardinality(Begun) + 1]
      /\ beside' = [q \in Changes |-> IF q = r THEN Ongoing
                                      ELSE IF q \in Ongoing THEN beside[q] \cup {r} ELSE beside[q]]
      /\ UNCHANGED <<profiles, library, found, locked, listed, replied, lastChange, failures>>
  BY <1>1 DEF Begin, Begun
<1>4. Ongoing' = Ongoing \cup {r}
  BY <1>1, <1>3 DEF Ongoing
<1> QED BY <1>1, <1>2, <1>3, <1>4 DEF library

\* What a commit leaves alone.
LEMMA CommitFrame ==
    ASSUME RequestInv, RowInv, ProfilesTypeOK, NEW r \in Changes, CommitChange(r)
    PROVE  /\ UNCHANGED <<change, began, beside, found, listed, failures>>
           /\ changing[r] = "commit" /\ changing'[r] = "done"
           /\ r \in Ongoing /\ Ongoing' = Ongoing \ {r} /\ r \notin DOMAIN profiles
           /\ \A q \in Changes \ {r} : changing'[q] = changing[q] /\ locked'[q] = locked[q]
           /\ locked'[r] = {}
           /\ \A q \in Changes : Kind(q)' = Kind(q)
           /\ Writers' = Writers /\ Begun' = Begun
<1>1. /\ changing[r] = "commit" /\ changing' = [changing EXCEPT ![r] = "done"]
      /\ locked' = [locked EXCEPT ![r] = {}]
      /\ UNCHANGED <<change, began, beside, found, listed, failures>>
  BY DEF CommitChange, Turn
<1>2. r \in Ongoing /\ Ongoing' = Ongoing \ {r}
  BY <1>1 DEF Ongoing, RequestInv
<1>3. r \notin DOMAIN profiles
  BY <1>1 DEF RowInv
<1>4. /\ \A q \in Changes : Kind(q)' = Kind(q)
      /\ Writers' = Writers /\ Begun' = Begun
  BY <1>1 DEF Kind, Writers, Begun
<1> QED BY <1>1, <1>2, <1>3, <1>4 DEF RequestInv, ProfilesTypeOK

\* A row after a commit: the new one, or an old one with what the commit makes of it.
LEMMA CommitRows ==
    ASSUME RequestInv, RowInv, ProfilesTypeOK, NEW r \in Changes, CommitChange(r)
    PROVE  /\ DOMAIN profiles' =
                IF Kind(r) = "save" THEN DOMAIN profiles \cup {r} ELSE DOMAIN profiles
           /\ Kind(r) = "save" => profiles'[r] = NewProfile(r)
           /\ \A p \in DOMAIN profiles :
                 profiles'[p] = Unpointed(r, IF p \in locked[r] THEN Updated(r, p) ELSE profiles[p])
<1>1. profiles' = [p \in DOMAIN profiles \cup (IF Kind(r) = "save" THEN {r} ELSE {}) |->
            IF p = r THEN NewProfile(r)
            ELSE Unpointed(r, IF p \in locked[r] THEN Updated(r, p) ELSE profiles[p])]
  BY DEF CommitChange
<1>2. r \notin DOMAIN profiles
  BY CommitFrame
<1> QED BY <1>1, <1>2

\* A commit adds at most the profile of a save.
LEMMA CommitDomain ==
    ASSUME RequestInv, RowInv, ProfilesTypeOK, NEW r \in Changes, CommitChange(r)
    PROVE  \A p \in DOMAIN profiles' : p \in DOMAIN profiles \/ (p = r /\ Kind(r) = "save")
BY CommitRows

\* What a commit makes of a stored profile, column by column.
LEMMA CommittedRow ==
    ASSUME ProfilesInv, NEW r \in Changes, CommitChange(r), NEW p \in DOMAIN profiles
    PROVE  /\ profiles'[p] \in ProfileRows
           /\ profiles'[p].active <=>
                 profiles[p].active /\ ~ (p \in locked[r] /\ Kind(r) \in {"save", "clear"})
           /\ profiles'[p].style = IF p \in locked[r] /\ Kind(r) = "delete_style" THEN DefaultStyle
                                   ELSE profiles[p].style
           /\ profiles'[p].list =
                 IF p \in locked[r] /\ Kind(r) = "delete_method"
                 THEN Without(listed[r][p], change[r].method) ELSE profiles[p].list
           /\ profiles'[p].first =
                 IF Kind(r) = "delete_method" /\ profiles[p].first = change[r].method THEN Absent
                 ELSE profiles[p].first
<1> USE DEF ProfilesInv
<1> DEFINE row == profiles[p]
           touched == IF p \in locked[r] THEN Updated(r, p) ELSE row
           kind == Kind(r)
<1>1. row \in ProfileRows
  BY DEF RowInv
<1>2. profiles'[p] = Unpointed(r, touched)
  BY CommitRows
<1>3. kind \in {"save", "clear", "upload_method", "delete_method", "upload_style", "delete_style"}
  BY CommitFrame DEF RequestInv
<1>4. kind \in {"upload_method", "upload_style"} => p \notin locked[r]
  BY CommitFrame DEF RequestInv
<1>5. kind = "delete_method" /\ p \in locked[r] => p \in DOMAIN listed[r]
  BY CommitFrame DEF RewriteInv
<1>6. /\ row.active \in BOOLEAN /\ row.style \in StoredStyles
      /\ row.first \in Methods \cup {Absent} /\ row.list \in StoredLists
      /\ DefaultStyle \in StoredStyles
  BY <1>1, NormalizedProperties, ProfilesAssumption DEF ProfileRows
<1>7. p \in locked[r] /\ kind = "delete_method" =>
         Without(listed[r][p], change[r].method) \in StoredLists
  BY <1>5, WithoutProperties DEF RowInv
<1>8. /\ touched \in ProfileRows
      /\ touched.active <=> row.active /\ ~ (p \in locked[r] /\ kind \in {"save", "clear"})
      /\ touched.style =
           IF p \in locked[r] /\ kind = "delete_style" THEN DefaultStyle ELSE row.style
      /\ touched.list = IF p \in locked[r] /\ kind = "delete_method"
                        THEN Without(listed[r][p], change[r].method) ELSE row.list
      /\ touched.first = row.first
  <2>1. CASE p \notin locked[r]
    BY <2>1, <1>1
  <2>2. CASE p \in locked[r] /\ kind \in {"save", "clear"}
    <3>1. touched = [row EXCEPT !.active = FALSE]
      BY <2>2 DEF Updated
    <3> HIDE DEF row, touched
    <3> QED BY <2>2, <1>1, <1>6, <3>1 DEF ProfileRows
  <2>3. CASE p \in locked[r] /\ kind = "delete_style"
    <3>1. touched = [row EXCEPT !.style = DefaultStyle]
      BY <2>3 DEF Updated
    <3> HIDE DEF row, touched
    <3> QED BY <2>3, <1>1, <1>6, <3>1 DEF ProfileRows
  <2>4. CASE p \in locked[r] /\ kind = "delete_method"
    <3> DEFINE rest == Without(listed[r][p], change[r].method)
    <3>1. touched = [row EXCEPT !.list = rest]
      BY <2>4 DEF Updated
    <3>2. rest \in StoredLists
      BY <2>4, <1>7
    <3> HIDE DEF row, touched, rest
    <3>3. touched \in ProfileRows
      BY <1>1, <3>1, <3>2 DEF ProfileRows
    <3>4. touched.list = rest /\ (touched.active <=> row.active) /\ touched.style = row.style
             /\ touched.first = row.first
      BY <1>1, <3>1 DEF ProfileRows
    <3> QED BY <2>4, <3>3, <3>4 DEF rest
  <2> QED BY <1>3, <1>4, <2>1, <2>2, <2>3, <2>4
<1> HIDE DEF row, touched
<1>9. CASE kind = "delete_method" /\ row.first = change[r].method
  <2>1. Unpointed(r, touched) = [touched EXCEPT !.first = Absent]
    BY <1>8, <1>9 DEF Unpointed
  <2>2. /\ Unpointed(r, touched) \in ProfileRows
        /\ Unpointed(r, touched).active <=> touched.active
        /\ Unpointed(r, touched).style = touched.style
        /\ Unpointed(r, touched).list = touched.list
        /\ Unpointed(r, touched).first = Absent
    BY <1>8, <2>1 DEF ProfileRows
  <2> QED BY <1>2, <1>8, <1>9, <2>2 DEF row
<1>10. CASE ~ (kind = "delete_method" /\ row.first = change[r].method)
  <2>1. Unpointed(r, touched) = touched
    BY <1>8, <1>10 DEF Unpointed
  <2> QED BY <1>2, <1>8, <1>10, <2>1 DEF row
<1> QED BY <1>9, <1>10

\* The profile that a save adds.
LEMMA CommittedNew ==
    ASSUME ProfilesInv, NEW r \in Changes, CommitChange(r), Kind(r) = "save"
    PROVE  /\ profiles'[r] \in ProfileRows /\ profiles'[r].active
           /\ profiles'[r].style = change[r].style /\ profiles'[r].list = change[r].list
           /\ profiles'[r].first = FirstOf(change[r].list)
<1>1. profiles'[r] = NewProfile(r)
  BY CommitRows DEF ProfilesInv
<1>2. change[r].style \in StoredStyles /\ change[r].list \in StoredLists
  BY DEF ProfilesInv, RequestInv
<1>3. FirstOf(change[r].list) \in Methods \cup {Absent}
  BY <1>2, FirstIsNamed
<1> QED BY <1>1, <1>2, <1>3 DEF NewProfile, ProfileRows

-----------------------------------------------------------------------------
(* Each part of the invariant, step by step.                                *)

\* Every step of the profiles, sorted.
Kinds(r) == \/ \E request, next : Starts(r, request, next)
            \/ Denies(r) \/ Fails(r) \/ Works(r) \/ CommitChange(r)

LEMMA ProfilesTypeStep ==
    ASSUME ProfilesInv, NEW r \in Changes, Kinds(r)
    PROVE  ProfilesTypeOK'
<1> USE DEF ProfilesInv
<1>1. CASE \E request, next : Starts(r, request, next)
  <2>1. PICK request, next : Starts(r, request, next)
    BY <1>1
  <2>2. beside' \in [Changes -> SUBSET Changes]
    <3>1. beside' = [q \in Changes |-> IF q = r THEN Ongoing
                                     ELSE IF q \in Ongoing THEN beside[q] \cup {r} ELSE beside[q]]
      BY <2>1 DEF Starts, Begin
    <3> QED BY <3>1 DEF ProfilesTypeOK, Ongoing
  <2> QED BY <2>1, <2>2, StartFrame DEF ProfilesTypeOK
<1>2. CASE Denies(r) \/ Fails(r)
  <2>1. /\ UNCHANGED <<profiles, styles, methods, beside, lastChange>>
        /\ failures' \in 0 .. MaxFailures
        /\ locked' \in [Changes -> SUBSET Changes]
    BY <1>2, EndsAside, ProfilesAssumption
       DEF Aside, Denies, Deny, Fails, Rollback, ProfilesTypeOK, history
  <2> QED BY <2>1 DEF ProfilesTypeOK
<1>3. CASE Works(r)
  <2>1. UNCHANGED <<profiles, styles, methods, beside, lastChange>>
    BY <1>3, WorksAside DEF Aside
  <2>2. failures' = failures
    BY <1>3 DEF Works, FindActive, Deactivate, InsertProfile, DetachMethod, RemoveMethod, SaveStyle,
                DropStyle, ResetStyle
  <2>3. Active \subseteq Changes
    BY DEF Active, ProfilesTypeOK
  <2>4. DetachMethod(r) \/ RemoveMethod(r) => locked' \in [Changes -> SUBSET Changes]
    <3>1. ASSUME DetachMethod(r) PROVE locked' \in [Changes -> SUBSET Changes]
      BY <3>1 DEF DetachMethod, ProfilesTypeOK
    <3>2. ASSUME RemoveMethod(r) PROVE locked' \in [Changes -> SUBSET Changes]
      <4>1. DOMAIN listed[r] \subseteq DOMAIN profiles
        BY <3>2 DEF RemoveMethod, RewriteInv, Ongoing
      <4> QED BY <3>2, <4>1 DEF RemoveMethod, ProfilesTypeOK
    <3> QED BY <3>1, <3>2
  <2>5. ~ (DetachMethod(r) \/ RemoveMethod(r)) => locked' \in [Changes -> SUBSET Changes]
    BY <1>3, <2>3
    DEF Works, FindActive, Deactivate, InsertProfile, SaveStyle, DropStyle, ResetStyle,
                      ProfilesTypeOK, RowInv
  <2> QED BY <2>1, <2>2, <2>4, <2>5 DEF ProfilesTypeOK
<1>4. CASE CommitChange(r)
  <2>1. DOMAIN profiles' \subseteq Changes
    BY <1>4, CommitRows DEF ProfilesTypeOK
  <2>2. styles' \subseteq StyleIds \ BuiltinStyles
    BY <1>4 DEF CommitChange, ProfilesTypeOK, RequestInv
  <2>3. methods' \subseteq FirstMethods \cup Changes
    BY <1>4 DEF CommitChange, ProfilesTypeOK
  <2>4. locked' \in [Changes -> SUBSET Changes] /\ lastChange' \in Changes \cup {Absent}
    BY <1>4 DEF CommitChange, ProfilesTypeOK
  <2> QED BY <1>4, <2>1, <2>2, <2>3, <2>4, CommitFrame DEF ProfilesTypeOK
<1> QED BY <1>1, <1>2, <1>3, <1>4 DEF Kinds

LEMMA RequestStep ==
    ASSUME ProfilesInv, NEW r \in Changes, Kinds(r)
    PROVE  RequestInv'
<1> USE DEF ProfilesInv
<1>1. CASE \E request, next : Starts(r, request, next)
  <2>1. PICK request, next : Starts(r, request, next)
    BY <1>1
  <2>2. changing' = [changing EXCEPT ![r] = next] /\ next \in Flight
    BY <2>1, StartFrame DEF Starts, Begin
  <2>3. locked'[r] = {}
    BY <2>1, StartFrame DEF RequestInv
  <2> QED BY <2>1, <2>2, <2>3, StartFrame DEF RequestInv, Kind, Flight, Starts
<1>2. CASE Denies(r) \/ Fails(r)
  <2>1. /\ Aside(r) /\ changing'[r] = "done" /\ \A q \in Changes : Kind(q)' = Kind(q)
        /\ change' = change
    BY <1>2, EndsAside, AsideKeeps DEF Aside
  <2>2. changing' = [changing EXCEPT ![r] = "done"]
    BY <1>2 DEF Denies, Deny, Fails, Rollback, Turn
  <2>3. locked'[r] = {}
    BY <1>2, EndsAside DEF Denies, Deny, RequestInv
  <2> QED BY <2>1, <2>2, <2>3 DEF RequestInv, Aside
<1>3. CASE Works(r)
  <2>1. Aside(r) /\ (\A q \in Changes : Kind(q)' = Kind(q)) /\ change' = change
    BY <1>3, WorksAside, AsideKeeps DEF Aside
  <2>2. PICK next \in Flight : changing' = [changing EXCEPT ![r] = next]
    BY <1>3 DEF Works, FindActive, Deactivate, InsertProfile, DetachMethod, RemoveMethod, SaveStyle,
                DropStyle, ResetStyle, Turn, Flight
  <2>3. /\ next = "deactivate" => Kind(r) \in {"save", "clear"}
        /\ next = "insert" => Kind(r) = "save"
        /\ next = "delete" => Kind(r) = "delete_method"
        /\ next = "reset" => Kind(r) = "delete_style"
        /\ next = "commit" => Kind(r) \in {"save", "clear", "upload_method", "delete_method",
                                           "upload_style", "delete_style"}
        /\ next \notin {"find", "detach", "upsert", "drop"}
    BY <1>3, <2>2 DEF Works, FindActive, Deactivate, InsertProfile, DetachMethod, RemoveMethod,
                      SaveStyle, DropStyle, ResetStyle, Turn, RequestInv
  <2>4. locked'[r] # {} => /\ next \in {"insert", "delete", "commit"}
                           /\ Kind(r) \notin {"upload_method", "upload_style"}
    BY <1>3, <2>2 DEF Works, FindActive, Deactivate, InsertProfile, DetachMethod, RemoveMethod,
                      SaveStyle, DropStyle, ResetStyle, Turn, RequestInv, ProfilesTypeOK
  <2> QED BY <2>1, <2>2, <2>3, <2>4 DEF RequestInv, Aside, Flight
<1>4. CASE CommitChange(r)
  <2>1. changing' = [changing EXCEPT ![r] = "done"] /\ change' = change
    BY <1>4 DEF CommitChange, Turn
  <2> QED BY <1>4, <2>1, CommitFrame DEF RequestInv
<1> QED BY <1>1, <1>2, <1>3, <1>4 DEF Kinds

LEMMA RowStep ==
    ASSUME ProfilesInv, NEW r \in Changes, Kinds(r)
    PROVE  RowInv'
<1> USE DEF ProfilesInv
<1>1. CASE \E request, next : Starts(r, request, next)
  <2>1. PICK request, next : Starts(r, request, next)
    BY <1>1
  <2>2. ASSUME NEW p \in DOMAIN profiles PROVE changing'[p] = "done" /\ p \in Begun'
    <3>1. p \in Changes /\ changing[p] = "done" /\ p \in Begun
      BY DEF RowInv, ProfilesTypeOK
    <3> QED BY <2>1, <3>1, StartFrame DEF Begun
  <2> QED BY <2>1, <2>2, StartFrame DEF RowInv
<1>2. CASE Denies(r) \/ Fails(r)
  <2>1. Aside(r) /\ Begun' = Begun /\ changing'[r] = "done" /\ UNCHANGED <<found, listed>>
    BY <1>2, EndsAside, AsideKeeps
  <2> QED BY <2>1 DEF RowInv, Aside, Flight, ProfilesTypeOK
<1>3. CASE Works(r)
  <2>1. Aside(r) /\ Begun' = Begun
    BY <1>3, WorksAside, AsideKeeps
  <2>2. \A p \in DOMAIN profiles : p # r /\ p \in Changes
    BY <2>1 DEF Aside, Flight, RowInv, ProfilesTypeOK
  <2>3. found' \in [Changes -> SUBSET Changes]
    BY <1>3 DEF Works, FindActive, Deactivate, InsertProfile, DetachMethod, RemoveMethod, SaveStyle,
                DropStyle, ResetStyle, RowInv, Active, ProfilesTypeOK
  <2>4. DOMAIN listed' = Changes
    BY <1>3 DEF Works, FindActive, Deactivate, InsertProfile, DetachMethod, RemoveMethod, SaveStyle,
                DropStyle, ResetStyle, RowInv
  <2>5. listed'[r] = listed[r] \/ listed'[r] = [p \in DOMAIN profiles |-> profiles[p].list]
    BY <1>3 DEF Works, FindActive, Deactivate, InsertProfile, DetachMethod, RemoveMethod, SaveStyle,
                DropStyle, ResetStyle, RowInv
  <2>6. \A p \in DOMAIN profiles : profiles[p].list \in StoredLists
    BY DEF RowInv, ProfileRows
  <2>7. \A p \in DOMAIN listed'[r] : listed'[r][p] \in StoredLists
    BY <2>5, <2>6 DEF RowInv
  <2> QED BY <2>1, <2>2, <2>3, <2>4, <2>7 DEF RowInv, Aside
<1>4. CASE CommitChange(r)
  <2>0. \A p \in DOMAIN profiles' : p \in DOMAIN profiles \/ (p = r /\ Kind(r) = "save")
    BY <1>4, CommitRows
  <2>1. profiles' \in [DOMAIN profiles' -> ProfileRows]
    <3>1. profiles' = [p \in DOMAIN profiles' |-> profiles'[p]]
      BY <1>4 DEF CommitChange
    <3>2. \A p \in DOMAIN profiles' : profiles'[p] \in ProfileRows
      BY <1>4, <2>0, CommittedRow, CommittedNew
    <3> QED BY <3>1, <3>2
  <2>2. \A p \in DOMAIN profiles' : changing'[p] = "done" /\ p \in Begun'
    <3>1. r \in Begun
      BY <1>4, CommitFrame DEF AgeInv
    <3> QED BY <1>4, <2>0, <3>1, CommitFrame DEF RowInv, ProfilesTypeOK
  <2> QED BY <1>4, <2>1, <2>2, CommitFrame DEF RowInv
<1> QED BY <1>1, <1>2, <1>3, <1>4 DEF Kinds

LEMMA AgeStep ==
    ASSUME ProfilesInv, NEW r \in Changes, Kinds(r)
    PROVE  AgeInv'
<1> USE DEF ProfilesInv
<1>1. CASE \E request, next : Starts(r, request, next)
  <2>1. PICK request, next : Starts(r, request, next)
    BY <1>1
  <2> DEFINE n == Cardinality(Begun)
  <2>2. n \in Nat /\ IsFiniteSet(Begun)
    BY FS_CardinalityType DEF AgeInv
  <2>3. began' = [began EXCEPT ![r] = n + 1]
    BY <2>1 DEF Starts, Begin, Begun
  <2>4. r \notin Begun /\ Begun' = Begun \cup {r}
    <3>1. r \notin Begun
      BY <2>1, StartFrame
    <3>2. n + 1 > 0
      BY <2>2
    <3> HIDE DEF n
    <3> QED BY <2>3, <3>1, <3>2 DEF Begun, AgeInv
  <2>5. IsFiniteSet(Begun') /\ Cardinality(Begun') = n + 1
    BY <2>2, <2>4, FS_AddElement
  <2>6. \A q \in Begun : began'[q] = began[q] /\ began[q] \in Nat /\ began[q] <= n
    BY <2>1, <2>4, StartFrame DEF AgeInv, Begun
  <2>7. began'[r] = n + 1
    BY <2>3 DEF AgeInv
  <2> HIDE DEF n
  <2>8. \A q \in Begun' : began'[q] <= n + 1
    BY <2>2, <2>4, <2>6, <2>7
  <2>9. \A p, q \in Begun' : began'[p] = began'[q] => p = q
    BY <2>2, <2>4, <2>6, <2>7 DEF AgeInv
  <2>10. \A q \in Changes : changing'[q] = "new" => q \notin Begun'
    BY <2>1, <2>4, StartFrame DEF AgeInv, Flight
  <2>11. began' \in [Changes -> Nat]
    BY <2>2, <2>3 DEF AgeInv
  <2>12. Ongoing' \subseteq Begun'
    BY <2>1, <2>4, StartFrame DEF AgeInv
  <2> QED BY <2>5, <2>8, <2>9, <2>10, <2>11, <2>12 DEF AgeInv
<1>2. CASE Denies(r) \/ Fails(r) \/ Works(r)
  <2>1. Aside(r)
    BY <1>2, EndsAside, WorksAside
  <2> QED BY <2>1, AsideKeeps DEF AgeInv, Aside, Flight
<1>3. CASE CommitChange(r)
  BY <1>3, CommitFrame DEF AgeInv
<1> QED BY <1>1, <1>2, <1>3 DEF Kinds

LEMMA BesideStep ==
    ASSUME ProfilesInv, NEW r \in Changes, Kinds(r)
    PROVE  BesideInv'
<1> USE DEF ProfilesInv
<1>1. CASE \E request, next : Starts(r, request, next)
  <2>1. PICK request, next : Starts(r, request, next)
    BY <1>1
  <2>2. Ongoing \subseteq Changes /\ \A o \in Ongoing : changing[o] # "new"
    BY DEF Ongoing
  <2>3. ASSUME NEW q \in Ongoing', NEW o \in Ongoing', q # o PROVE q \in beside'[o]
    <3>1. (q = r \/ q \in Ongoing) /\ (o = r \/ o \in Ongoing)
      BY <2>1, StartFrame
    <3> QED BY <2>1, <2>2, <2>3, <3>1, StartFrame DEF BesideInv
  <2>4. ASSUME NEW q \in Changes, NEW o \in beside'[q]
        PROVE  changing'[o] # "new" /\ changing'[q] # "new"
    <3>1. /\ o \in Changes /\ (o = r \/ changing[o] # "new")
          /\ q = r \/ changing[q] # "new"
      <4>1. CASE q = r
        BY <2>1, <2>2, <4>1, StartFrame
      <4>2. CASE q # r /\ q \in Ongoing
        BY <2>1, <2>2, <4>2, StartFrame DEF BesideInv, ProfilesTypeOK
      <4>3. CASE q # r /\ q \notin Ongoing
        BY <2>1, <4>3, StartFrame DEF BesideInv, ProfilesTypeOK
      <4> QED BY <4>1, <4>2, <4>3
    <3> QED BY <2>1, <3>1, StartFrame DEF Flight
  <2> QED BY <2>3, <2>4 DEF BesideInv
<1>2. CASE Denies(r) \/ Fails(r) \/ Works(r)
  <2>1. Aside(r)
    BY <1>2, EndsAside, WorksAside
  <2>2. \A q \in Changes : changing[q] # "new" => changing'[q] # "new"
    BY <2>1 DEF Aside, Flight
  <2> QED BY <2>1, <2>2, AsideKeeps DEF BesideInv, Aside, ProfilesTypeOK
<1>3. CASE CommitChange(r)
  BY <1>3, CommitFrame DEF BesideInv, ProfilesTypeOK
<1> QED BY <1>1, <1>2, <1>3 DEF Kinds

LEMMA LastChangeStep ==
    ASSUME ProfilesInv, NEW r \in Changes, Kinds(r)
    PROVE  LastChangeInv'
<1> USE DEF ProfilesInv
<1>1. CASE \E request, next : Starts(r, request, next)
  <2>1. PICK request, next : Starts(r, request, next)
    BY <1>1
  <2> QED BY <2>1, StartFrame DEF LastChangeInv, ProfilesTypeOK, Writers, Kind
<1>2. CASE Denies(r) \/ Fails(r) \/ Works(r)
  <2>1. Aside(r)
    BY <1>2, EndsAside, WorksAside
  <2> QED BY <2>1, AsideKeeps DEF LastChangeInv, Aside, Flight, ProfilesTypeOK
<1>3. CASE CommitChange(r)
  <2>1. lastChange' = IF Kind(r) \in {"save", "clear"} THEN r ELSE lastChange
    BY <1>3 DEF CommitChange
  <2> QED BY <1>3, <2>1, CommitFrame DEF LastChangeInv, ProfilesTypeOK, Writers
<1> QED BY <1>1, <1>2, <1>3 DEF Kinds

\* What a request asked for stays, and what ran beside it only grows.
LEMMA PastStays ==
    ASSUME ProfilesInv, NEW r \in Changes, Kinds(r)
    PROVE  /\ \A q \in Changes : Kind(q) # "none" => change'[q] = change[q] /\ Kind(q)' = Kind(q)
           /\ \A q \in Changes : beside[q] \subseteq beside'[q]
           /\ Writers \subseteq Writers'
<1> USE DEF ProfilesInv
<1>1. CASE \E request, next : Starts(r, request, next)
  <2>1. PICK request, next : Starts(r, request, next)
    BY <1>1
  <2>2. \A q \in Changes : Kind(q) # "none" => change'[q] = change[q] /\ Kind(q)' = Kind(q)
    BY <2>1, StartFrame DEF Kind
  <2>3. \A q \in Changes : beside[q] \subseteq beside'[q]
    <3>1. beside[r] = {}
      <4>1. changing[r] = "new"
        BY <2>1, StartFrame
      <4> QED BY <4>1 DEF BesideInv
    <3>2. ASSUME NEW q \in Changes \ {r} PROVE beside[q] \subseteq beside'[q]
      BY <2>1, StartFrame
    <3> QED BY <3>1, <3>2
  <2> QED BY <2>2, <2>3 DEF Writers
<1>2. CASE Denies(r) \/ Fails(r) \/ Works(r)
  <2>1. Aside(r)
    BY <1>2, EndsAside, WorksAside
  <2> QED BY <2>1, AsideKeeps DEF Aside
<1>3. CASE CommitChange(r)
  BY <1>3, CommitFrame
<1> QED BY <1>1, <1>2, <1>3 DEF Kinds

\* Once two requests have raced, they have for good.
LEMMA RacesStay ==
    ASSUME ProfilesInv, NEW r \in Changes, Kinds(r)
    PROVE  \A p, m : RacedDeletion(p, m) => RacedDeletion(p, m)'
<1>1. ASSUME NEW p, NEW m, RacedDeletion(p, m) PROVE RacedDeletion(p, m)'
  <2>1. PICK q \in Changes : /\ Kind(q) = "delete_method" /\ change[q].method = m
                             /\ \E o \in beside[q] : o = p \/ Kind(o) = "delete_method"
    BY <1>1 DEF RacedDeletion
  <2>2. PICK o \in beside[q] : o = p \/ Kind(o) = "delete_method"
    BY <2>1
  <2>3. o \in Changes
    BY <2>2 DEF ProfilesInv, ProfilesTypeOK
  <2>4. Kind(q)' = "delete_method" /\ change'[q].method = m
    BY <2>1, PastStays
  <2>5. o \in beside'[q] /\ (o = p \/ Kind(o)' = "delete_method")
    BY <2>2, <2>3, PastStays
  <2> QED BY <2>4, <2>5 DEF RacedDeletion
<1> QED BY <1>1

\* The steps of a save or clear before its commit.
LEMMA WorkOfWriter ==
    ASSUME ProfilesInv, NEW r \in Changes, Works(r), r \in Writers
    PROVE  /\ changing'[r] = "deactivate" => found'[r] = Active
           /\ changing'[r] \in {"insert", "commit"} =>
                 \/ changing[r] = "deactivate" /\ locked'[r] = found[r] \cap Active
                 \/ changing[r] = "insert" /\ locked'[r] = locked[r]
<1> USE DEF ProfilesInv
<1>1. FindActive(r) \/ Deactivate(r) \/ InsertProfile(r)
  BY DEF Works, DetachMethod, RemoveMethod, SaveStyle, DropStyle, ResetStyle, RequestInv, Writers
<1>2. CASE FindActive(r)
  BY <1>2 DEF FindActive, Turn, RequestInv, RowInv
<1>3. CASE Deactivate(r)
  BY <1>3 DEF Deactivate, Turn, RequestInv, ProfilesTypeOK
<1>4. CASE InsertProfile(r)
  BY <1>4 DEF InsertProfile, Turn, RequestInv
<1> QED BY <1>1, <1>2, <1>3, <1>4

\* Only a save or clear changes what is active: the new row, without those it has in hand.
LEMMA CommitActive ==
    ASSUME ProfilesInv, NEW r \in Changes, CommitChange(r)
    PROVE  /\ r \notin Writers => Active' = Active
           /\ r \in Writers =>
                 Active' = (Active \ locked[r]) \cup (IF Kind(r) = "save" THEN {r} ELSE {})
<1>1. ASSUME NEW p \in DOMAIN profiles
      PROVE  p \in Active' <=> p \in Active /\ ~ (p \in locked[r] /\ r \in Writers)
  <2>1. p \in DOMAIN profiles'
    BY CommitRows DEF ProfilesInv
  <2> QED BY <2>1, CommittedRow DEF Active, Writers
<1>2. Kind(r) = "save" => r \in Active'
  BY CommitRows, CommittedNew DEF ProfilesInv, Active
<1>3. \A p \in Active' : p \in DOMAIN profiles \/ (p = r /\ Kind(r) = "save")
  BY CommitDomain DEF ProfilesInv, Active
<1>4. r \notin DOMAIN profiles /\ Active \subseteq DOMAIN profiles
  BY CommitFrame DEF ProfilesInv, Active
<1>5. r \in Writers <=> Kind(r) \in {"save", "clear"}
  BY DEF Writers
<1> QED BY <1>1, <1>2, <1>3, <1>4, <1>5

LEMMA AloneStep ==
    ASSUME ProfilesInv, NEW r \in Changes, Kinds(r)
    PROVE  AloneInv'
<1> USE DEF ProfilesInv
<1> SUFFICES ASSUME NEW q \in Changes, q \in Ongoing', q \in Writers', beside'[q] \cap Writers' = {}
             PROVE  /\ changing'[q] = "deactivate" => found'[q] = Active'
                    /\ changing'[q] \in {"insert", "commit"} => locked'[q] = Active'
  BY DEF AloneInv, Writers
<1>1. beside[q] \cap Writers = {}
  BY PastStays
<1>2. CASE \E request, next : Starts(r, request, next)
  <2>1. PICK request, next : Starts(r, request, next)
    BY <1>2
  <2>2. Active' = Active
    BY <2>1, StartFrame DEF Active
  <2>3. CASE q = r
    <3>1. Kind(r)' = request.kind
      BY <2>1, StartFrame DEF Kind
    <3>2. next = "find"
      BY <2>1, <2>3, <3>1 DEF Starts, Writers
    <3> QED BY <2>1, <2>3, <3>2, StartFrame
  <2>4. CASE q # r
    <3>1. q \in Ongoing /\ q \in Writers
      BY <2>1, <2>4, StartFrame DEF Writers, Kind
    <3> QED BY <1>1, <2>1, <2>2, <2>4, <3>1, StartFrame DEF AloneInv
  <2> QED BY <2>3, <2>4
<1>3. CASE Denies(r) \/ Fails(r) \/ Works(r)
  <2>1. Aside(r)
    BY <1>3, EndsAside, WorksAside
  <2>2. q \in Ongoing /\ q \in Writers /\ Active' = Active
    BY <2>1, AsideKeeps
  <2>3. CASE q # r
    BY <1>1, <2>1, <2>2, <2>3 DEF AloneInv, Aside
  <2>4. CASE q = r
    <3>1. Works(r)
      BY <1>3, <2>1, <2>4, EndsAside, AsideKeeps
    <3>2. /\ changing'[r] = "deactivate" => found'[r] = Active
          /\ changing'[r] \in {"insert", "commit"} =>
                \/ changing[r] = "deactivate" /\ locked'[r] = found[r] \cap Active
                \/ changing[r] = "insert" /\ locked'[r] = locked[r]
      BY <2>2, <2>4, <3>1, WorkOfWriter
    <3> QED BY <1>1, <2>2, <2>4, <3>2 DEF AloneInv
  <2> QED BY <2>3, <2>4
<1>4. CASE CommitChange(r)
  <2>1. q \in Ongoing /\ q \in Writers /\ q # r /\ r \in Ongoing
    BY <1>4, CommitFrame
  <2>2. r \notin Writers
    BY <1>1, <2>1 DEF BesideInv
  <2>3. Active' = Active
    BY <1>4, <2>2, CommitActive
  <2> QED BY <1>1, <1>4, <2>1, <2>3, CommitFrame DEF AloneInv
<1> QED BY <1>2, <1>3, <1>4 DEF Kinds

LEMMA LastStandsStep ==
    ASSUME ProfilesInv, NEW r \in Changes, Kinds(r)
    PROVE  LastProfileStands'
<1> USE DEF ProfilesInv
<1> SUFFICES ASSUME lastChange' # Absent, beside'[lastChange'] \cap Writers' = {}
             PROVE  Active' = IF change'[lastChange'].kind = "save" THEN {lastChange'} ELSE {}
  BY DEF LastProfileStands, Kind
<1>1. ASSUME lastChange' = lastChange, Active' = Active
      PROVE  Active' = IF change'[lastChange'].kind = "save" THEN {lastChange'} ELSE {}
  <2>1. lastChange \in Changes /\ lastChange \in Writers
    BY <1>1 DEF ProfilesTypeOK, LastChangeInv
  <2>2. beside[lastChange] \cap Writers = {}
    BY <1>1, <2>1, PastStays
  <2>3. change'[lastChange] = change[lastChange]
    BY <2>1, PastStays DEF Writers
  <2> QED BY <1>1, <2>1, <2>2, <2>3 DEF LastProfileStands, Kind
<1>2. CASE \E request, next : Starts(r, request, next)
  <2>1. lastChange' = lastChange /\ Active' = Active
    BY <1>2, StartFrame DEF Active
  <2> QED BY <1>1, <2>1
<1>3. CASE Denies(r) \/ Fails(r) \/ Works(r)
  <2>1. Aside(r)
    BY <1>3, EndsAside, WorksAside
  <2> QED BY <1>1, <2>1, AsideKeeps DEF Aside
<1>4. CASE CommitChange(r)
  <2>1. lastChange' = IF Kind(r) \in {"save", "clear"} THEN r ELSE lastChange
    BY <1>4 DEF CommitChange
  <2>2. CASE r \in Writers
    <3>1. lastChange' = r
      BY <2>1, <2>2 DEF Writers
    <3>2. beside[r] \cap Writers = {} /\ changing[r] = "commit" /\ r \in Ongoing
      BY <1>4, <3>1, CommitFrame
    <3>3. locked[r] = Active
      BY <2>2, <3>2 DEF AloneInv
    <3>4. Active' = IF Kind(r) = "save" THEN {r} ELSE {}
      BY <1>4, <2>2, <3>3, CommitActive
    <3>5. change' = change
      BY <1>4, CommitFrame
    <3> QED BY <3>1, <3>4, <3>5 DEF Kind
  <2>3. CASE r \notin Writers
    BY <1>1, <1>4, <2>1, <2>3, CommitActive DEF Writers
  <2> QED BY <2>2, <2>3
<1> QED BY <1>2, <1>3, <1>4 DEF Kinds

\* A request that is past its reading of the lists.
Deletes(q) == changing[q] \in {"delete", "commit"} /\ Kind(q) = "delete_method"

\* The statements of a deletion.
LEMMA WorkOfDeletion ==
    ASSUME ProfilesInv, NEW r \in Changes, Works(r), Kind(r) = "delete_method"
    PROVE  DetachMethod(r) \/ (RemoveMethod(r) /\ Deletes(r))
BY DEF ProfilesInv, RequestInv, Works, FindActive, Deactivate, InsertProfile, RemoveMethod,
       SaveStyle, DropStyle, ResetStyle, Deletes

\* A deletion that is about to delete was before, unless it detaches now.
LEMMA DeletesBefore ==
    ASSUME ProfilesInv, NEW r \in Changes, Kinds(r), NEW q \in Ongoing', Deletes(q)'
    PROVE  /\ q \in Ongoing /\ Kind(q) = "delete_method" /\ change'[q] = change[q]
           /\ Deletes(q) \/ (q = r /\ DetachMethod(r))
           /\ listed'[q] = listed[q] \/ (q = r /\ DetachMethod(r))
<1> USE DEF ProfilesInv
<1>0. q \in Changes
  BY DEF Ongoing
<1>1. CASE \E request, next : Starts(r, request, next)
  <2>1. PICK request, next : Starts(r, request, next)
    BY <1>1
  <2>2. q # r
    <3>1. ASSUME q = r PROVE FALSE
      <4>1. next = "commit" \/ next = "delete"
        BY <2>1, <3>1, StartFrame DEF Deletes
      <4>2. request.kind = "delete_method"
        BY <2>1, <3>1, StartFrame DEF Deletes, Kind
      <4> QED BY <2>1, <4>1, <4>2 DEF Starts
    <3> QED BY <3>1
  <2> QED BY <1>0, <2>1, <2>2, StartFrame DEF Deletes, Kind
<1>2. CASE Denies(r) \/ Fails(r) \/ Works(r)
  <2>1. Aside(r) /\ q \in Ongoing /\ Kind(q) = "delete_method" /\ change'[q] = change[q]
    <3>1. Aside(r)
      BY <1>2, EndsAside, WorksAside
    <3>2. q \in Ongoing /\ Kind(q)' = Kind(q) /\ change' = change
      BY <1>0, <3>1, AsideKeeps DEF Aside
    <3> QED BY <3>1, <3>2 DEF Deletes
  <2>2. CASE q # r
    BY <1>0, <2>1, <2>2 DEF Aside, Deletes
  <2>3. CASE q = r
    <3>1. Works(r)
      BY <1>2, <2>1, <2>3, EndsAside, AsideKeeps
    <3>2. DetachMethod(r) \/ (RemoveMethod(r) /\ Deletes(r))
      BY <2>1, <2>3, <3>1, WorkOfDeletion
    <3> QED BY <2>1, <2>3, <3>2 DEF RemoveMethod
  <2> QED BY <2>2, <2>3
<1>3. CASE CommitChange(r)
  BY <1>0, <1>3, CommitFrame DEF Deletes
<1> QED BY <1>1, <1>2, <1>3 DEF Kinds

\* A deletion rewrites the lists it read, and locks the rows whose first it deletes.
LEMMA DetachReads ==
    ASSUME ProfilesInv, NEW r \in Changes, DetachMethod(r)
    PROVE  /\ DOMAIN listed'[r] = DOMAIN profiles
           /\ \A p \in DOMAIN profiles : listed'[r][p] = profiles[p].list
           /\ UNCHANGED <<profiles, methods, change, beside>>
           /\ locked'[r] \subseteq DOMAIN profiles
           /\ changing'[r] = "delete"
<1>1. /\ listed' = [listed EXCEPT ![r] = [p \in DOMAIN profiles |-> profiles[p].list]]
      /\ locked' =
           [locked EXCEPT ![r] = {p \in DOMAIN profiles : profiles[p].first = change[r].method}]
      /\ changing' = [changing EXCEPT ![r] = "delete"]
      /\ UNCHANGED <<profiles, methods, change, beside>>
  BY DEF DetachMethod, Turn, library
<1> QED BY <1>1 DEF ProfilesInv, RowInv, ProfilesTypeOK, RequestInv

\* What is deleted while a save or another deletion runs is excused for both.
LEMMA DeletionRaces ==
    ASSUME ProfilesInv, NEW r \in Changes, CommitChange(r)
    PROVE  /\ \A m \in methods :
                m \in methods' \/ (Kind(r) = "delete_method" /\ m = change[r].method)
           /\ Kind(r) = "delete_method" => \A q \in Ongoing \ {r} :
                 /\ RacedDeletion(q, change[r].method)
                 /\ Kind(q) = "delete_method" => \A p : RacedDeletion(p, change[r].method)
<1>1. ASSUME NEW m \in methods
      PROVE  m \in methods' \/ (Kind(r) = "delete_method" /\ m = change[r].method)
  BY DEF CommitChange
<1>2. ASSUME Kind(r) = "delete_method", NEW q \in Ongoing, q # r
      PROVE  /\ RacedDeletion(q, change[r].method)
             /\ Kind(q) = "delete_method" => \A p : RacedDeletion(p, change[r].method)
  <2>1. r \in Ongoing /\ q \in beside[r]
    BY <1>2, CommitFrame DEF ProfilesInv, BesideInv
  <2> QED BY <1>2, <2>1 DEF RacedDeletion
<1> QED BY <1>1, <1>2

LEMMA ListStep ==
    ASSUME ProfilesInv, NEW r \in Changes, Kinds(r)
    PROVE  ListInv'
<1> USE DEF ProfilesInv
<1>1. ASSUME NEW p \in DOMAIN profiles', NEW m \in Methods, Mentions(profiles'[p].list, m)
      PROVE  m \in methods' \/ RacedDeletion(p, m)
  <2>1. CASE UNCHANGED <<profiles, methods>>
    BY <1>1, <2>1 DEF ListInv
  <2>2. CASE CommitChange(r)
    <3>1. CASE p \notin DOMAIN profiles
      <4>1. p = r /\ Kind(r) = "save"
        BY <1>1, <2>2, <3>1, CommitDomain
      <4>2. m \in methods \/ RacedDeletion(p, m)
        BY <1>1, <2>2, <4>1, CommittedNew, CommitFrame DEF ListInv
      <4> QED BY <2>2, <4>1, <4>2, DeletionRaces
    <3>2. CASE p \in DOMAIN profiles /\ p \in locked[r] /\ Kind(r) = "delete_method"
      <4>1. profiles'[p].list = Without(listed[r][p], change[r].method)
        BY <2>2, <3>2, CommittedRow
      <4>2. p \in DOMAIN listed[r] /\ listed[r][p] \in StoredLists
        BY <2>2, <3>2, CommitFrame DEF RewriteInv, RowInv
      <4>3. Mentions(listed[r][p], m) /\ m # change[r].method
        BY <1>1, <4>1, <4>2, WithoutProperties
      <4>4. m \in methods \/ RacedDeletion(p, m)
        BY <2>2, <3>2, <4>2, <4>3, CommitFrame DEF ListInv
      <4> QED BY <2>2, <4>3, <4>4, DeletionRaces
    <3>3. CASE p \in DOMAIN profiles /\ ~ (p \in locked[r] /\ Kind(r) = "delete_method")
      <4>1. Mentions(profiles[p].list, m)
        BY <1>1, <2>2, <3>3, CommittedRow
      <4>2. m \in methods \/ RacedDeletion(p, m)
        BY <3>3, <4>1 DEF ListInv
      <4>3. ASSUME Kind(r) = "delete_method", m = change[r].method PROVE RacedDeletion(p, m)
        <5>1. r \in Ongoing /\ changing[r] = "commit"
          BY <2>2, CommitFrame
        <5>2. \E o \in beside[r] : o = p \/ Kind(o) = "delete_method"
          BY <3>3, <4>1, <4>3, <5>1 DEF RewriteInv
        <5> QED BY <4>3, <5>2 DEF RacedDeletion
      <4> QED BY <2>2, <4>2, <4>3, DeletionRaces
    <3> QED BY <3>1, <3>2, <3>3
  <2>3. CASE ~ CommitChange(r)
    <3>1. UNCHANGED <<profiles, methods>>
      BY <2>3, StartFrame, EndsAside, WorksAside DEF Kinds, Aside
    <3> QED BY <2>1, <3>1
  <2> QED BY <2>2, <2>3
<1>2. ASSUME NEW q \in Ongoing', NEW m \in Methods, Kind(q)' = "save", Mentions(change'[q].list, m)
      PROVE  m \in methods' \/ RacedDeletion(q, m)
  <2>0. q \in Changes
    BY DEF Ongoing
  <2>1. CASE \E request, next : Starts(r, request, next)
    <3>1. PICK request, next : Starts(r, request, next)
      BY <2>1
    <3>2. CASE q = r
      <4>1. request.kind = "save" /\ Mentions(request.list, m)
        BY <1>2, <3>1, <3>2, StartFrame DEF Kind
      <4>2. m \in methods
        BY <3>1, <4>1 DEF Starts
      <4> QED BY <3>1, <4>2, StartFrame
    <3>3. CASE q # r
      <4>1. q \in Ongoing /\ Kind(q) = "save" /\ Mentions(change[q].list, m)
        BY <1>2, <2>0, <3>1, <3>3, StartFrame DEF Kind
      <4> QED BY <3>1, <4>1, StartFrame DEF ListInv
    <3> QED BY <3>2, <3>3
  <2>2. CASE Denies(r) \/ Fails(r) \/ Works(r)
    <3>1. Aside(r)
      BY <2>2, EndsAside, WorksAside
    <3>2. q \in Ongoing /\ Kind(q) = "save" /\ change' = change /\ methods' = methods
      BY <1>2, <2>0, <3>1, AsideKeeps DEF Aside
    <3> QED BY <1>2, <3>2 DEF ListInv
  <2>3. CASE CommitChange(r)
    <3>1. q \in Ongoing \ {r} /\ Kind(q) = "save" /\ change' = change
      BY <1>2, <2>0, <2>3, CommitFrame
    <3>2. m \in methods \/ RacedDeletion(q, m)
      BY <1>2, <3>1 DEF ListInv
    <3> QED BY <2>3, <3>1, <3>2, DeletionRaces
  <2> QED BY <2>1, <2>2, <2>3 DEF Kinds
<1>3. ASSUME NEW q \in Ongoing', Deletes(q)',
             NEW p \in DOMAIN listed'[q], NEW m \in Methods, Mentions(listed'[q][p], m)
      PROVE  m \in methods' \/ RacedDeletion(p, m)
  <2>1. /\ q \in Ongoing /\ Kind(q) = "delete_method"
        /\ (Deletes(q) /\ listed'[q] = listed[q]) \/ (q = r /\ DetachMethod(r))
    BY <1>3, DeletesBefore
  <2>2. CASE q = r /\ DetachMethod(r)
    BY <1>3, <2>2, DetachReads DEF ListInv
  <2>3. CASE Deletes(q) /\ listed'[q] = listed[q]
    <3>1. m \in methods \/ RacedDeletion(p, m)
      BY <1>3, <2>1, <2>3 DEF ListInv, Deletes
    <3>2. CASE CommitChange(r)
      <4>1. q # r
        BY <3>2, CommitFrame
      <4> QED BY <2>1, <3>1, <3>2, <4>1, DeletionRaces
    <3>3. CASE ~ CommitChange(r)
      <4>1. methods' = methods
        BY <3>3, StartFrame, EndsAside, WorksAside DEF Kinds, Aside
      <4> QED BY <3>1, <4>1
    <3> QED BY <3>2, <3>3
  <2> QED BY <2>1, <2>2, <2>3
<1> QED BY <1>1, <1>2, <1>3, RacesStay DEF ListInv, Deletes

LEMMA FirstStep ==
    ASSUME ProfilesInv, NEW r \in Changes, Kinds(r)
    PROVE  FirstInv'
<1> USE DEF ProfilesInv
<1>1. ASSUME NEW p \in DOMAIN profiles', profiles'[p].first # Absent
      PROVE  Mentions(profiles'[p].list, profiles'[p].first)
  <2>1. CASE CommitChange(r)
    <3>1. CASE p \notin DOMAIN profiles
      <4>1. p = r /\ Kind(r) = "save"
        BY <1>1, <2>1, <3>1, CommitRows
      <4>2. change[r].list \in StoredLists
        BY <4>1 DEF RequestInv
      <4> QED BY <1>1, <2>1, <4>1, <4>2, CommittedNew, FirstIsNamed
    <3>2. CASE p \in DOMAIN profiles /\ p \in locked[r] /\ Kind(r) = "delete_method"
      <4>1. /\ profiles'[p].list = Without(listed[r][p], change[r].method)
            /\ profiles'[p].first = profiles[p].first /\ profiles[p].first # change[r].method
        BY <1>1, <2>1, <3>2, CommittedRow
      <4>2. p \in DOMAIN listed[r] /\ listed[r][p] \in StoredLists
        BY <2>1, <3>2, CommitFrame DEF RewriteInv, RowInv
      <4>3. Mentions(listed[r][p], profiles[p].first)
        BY <1>1, <2>1, <3>2, <4>1, <4>2, CommitFrame DEF FirstInv
      <4> QED BY <4>1, <4>2, <4>3, WithoutProperties
    <3>3. CASE p \in DOMAIN profiles /\ ~ (p \in locked[r] /\ Kind(r) = "delete_method")
      <4>1. profiles'[p].list = profiles[p].list /\ profiles'[p].first = profiles[p].first
        BY <1>1, <2>1, <3>3, CommittedRow
      <4> QED BY <1>1, <3>3, <4>1 DEF FirstInv
    <3> QED BY <3>1, <3>2, <3>3
  <2>2. CASE ~ CommitChange(r)
    <3>1. profiles' = profiles
      BY <2>2, StartFrame, EndsAside, WorksAside DEF Kinds, Aside
    <3> QED BY <1>1, <3>1 DEF FirstInv
  <2> QED BY <2>1, <2>2
<1>2. ASSUME NEW q \in Ongoing', Deletes(q)',
             NEW p \in DOMAIN listed'[q], profiles'[p].first # Absent
      PROVE  Mentions(listed'[q][p], profiles'[p].first)
  <2>1. /\ q \in Ongoing /\ Kind(q) = "delete_method"
        /\ (Deletes(q) /\ listed'[q] = listed[q]) \/ (q = r /\ DetachMethod(r))
    BY <1>2, DeletesBefore
  <2>2. CASE q = r /\ DetachMethod(r)
    BY <1>2, <2>2, DetachReads DEF FirstInv
  <2>3. CASE Deletes(q) /\ listed'[q] = listed[q]
    <3>1. p \in DOMAIN profiles
      BY <1>2, <2>1, <2>3 DEF RewriteInv, Deletes
    <3>2. profiles'[p].first = profiles[p].first
      <4>1. CASE CommitChange(r)
        BY <1>2, <3>1, <4>1, CommittedRow
      <4>2. CASE ~ CommitChange(r)
        BY <4>2, StartFrame, EndsAside, WorksAside DEF Kinds, Aside
      <4> QED BY <4>1, <4>2
    <3> QED BY <1>2, <2>1, <2>3, <3>2 DEF FirstInv, Deletes
  <2> QED BY <2>1, <2>2, <2>3
<1> QED BY <1>1, <1>2 DEF FirstInv, Deletes

\* Something ran beside q that may rewrite or insert the list of p.
Beside(q, p) == \E o \in beside[q] : o = p \/ Kind(o) = "delete_method"

\* A request stays beside the one it ran beside.
LEMMA BesideStays ==
    ASSUME ProfilesInv, NEW r \in Changes, Kinds(r), NEW q \in Changes, NEW p, Beside(q, p)
    PROVE  Beside(q, p)'
<1>1. PICK o \in beside[q] : o = p \/ Kind(o) = "delete_method"
  BY DEF Beside
<1>2. o \in Changes
  BY <1>1 DEF ProfilesInv, ProfilesTypeOK
<1>3. o \in beside'[q] /\ (o = p \/ Kind(o)' = "delete_method")
  BY <1>1, <1>2, PastStays
<1> QED BY <1>3 DEF Beside

LEMMA RewriteStep ==
    ASSUME ProfilesInv, NEW r \in Changes, Kinds(r)
    PROVE  RewriteInv'
<1> USE DEF ProfilesInv
<1> SUFFICES ASSUME NEW q \in Ongoing', Deletes(q)'
             PROVE  /\ DOMAIN listed'[q] \subseteq DOMAIN profiles'
                    /\ locked'[q] \subseteq DOMAIN listed'[q]
                    /\ \A p \in DOMAIN profiles' : Mentions(profiles'[p].list, change'[q].method) =>
                          \/ p \in DOMAIN listed'[q] /\ Mentions(listed'[q][p], change'[q].method)
                          \/ Beside(q, p)'
                    /\ changing'[q] = "commit" => \A p \in DOMAIN listed'[q] :
                          Mentions(listed'[q][p], change'[q].method) => p \in locked'[q]
  BY DEF RewriteInv, Deletes, Beside
<1>0. /\ q \in Changes /\ q \in Ongoing /\ Kind(q) = "delete_method" /\ change'[q] = change[q]
      /\ (Deletes(q) /\ listed'[q] = listed[q]) \/ (q = r /\ DetachMethod(r))
  BY DeletesBefore DEF Ongoing
<1>1. CASE q = r /\ DetachMethod(r)
  <2>1. locked'[r] \subseteq DOMAIN profiles /\ changing'[r] = "delete" /\ profiles' = profiles
    BY <1>1, DetachReads
  <2> QED BY <1>0, <1>1, <2>1, DetachReads
<1>2. CASE Deletes(q) /\ listed'[q] = listed[q]
  <2>1. /\ DOMAIN listed[q] \subseteq DOMAIN profiles
        /\ locked[q] \subseteq DOMAIN listed[q]
        /\ \A p \in DOMAIN profiles : Mentions(profiles[p].list, change[q].method) =>
              \/ p \in DOMAIN listed[q] /\ Mentions(listed[q][p], change[q].method)
              \/ Beside(q, p)
        /\ changing[q] = "commit" => \A p \in DOMAIN listed[q] :
              Mentions(listed[q][p], change[q].method) => p \in locked[q]
    BY <1>0, <1>2 DEF RewriteInv, Deletes, Beside
  <2>2. CASE CommitChange(r)
    <3>1. q # r /\ changing'[q] = changing[q] /\ locked'[q] = locked[q]
      BY <1>0, <2>2, CommitFrame
    <3>2. r \in beside[q]
      BY <1>0, <2>2, <3>1, CommitFrame DEF BesideInv
    <3>3. DOMAIN profiles \subseteq DOMAIN profiles'
      BY <2>2, CommitRows
    <3>4. ASSUME NEW p \in DOMAIN profiles', Mentions(profiles'[p].list, change[q].method)
          PROVE  \/ p \in DOMAIN listed[q] /\ Mentions(listed[q][p], change[q].method)
                 \/ Beside(q, p)
      <4>1. CASE p \notin DOMAIN profiles
        <5>1. p = r
          BY <2>2, <3>4, <4>1, CommitDomain
        <5> QED BY <3>2, <5>1 DEF Beside
      <4>2. CASE p \in DOMAIN profiles /\ Kind(r) = "delete_method"
        BY <3>2, <4>2 DEF Beside
      <4>3. CASE p \in DOMAIN profiles /\ Kind(r) # "delete_method"
        BY <2>1, <2>2, <3>4, <4>3, CommittedRow
      <4> QED BY <4>1, <4>2, <4>3
    <3> QED BY <1>0, <1>2, <2>1, <3>1, <3>3, <3>4, BesideStays
  <2>3. CASE ~ CommitChange(r)
    <3>1. profiles' = profiles
      BY <2>3, StartFrame, EndsAside, WorksAside DEF Kinds, Aside
    <3>2. CASE q = r /\ RemoveMethod(r)
      <4>1. /\ locked'[q] = locked[q] \cup {p \in DOMAIN listed[q] :
                                                 Mentions(listed[q][p], change[q].method)}
        BY <3>2 DEF RemoveMethod, ProfilesTypeOK
      <4> QED BY <1>0, <1>2, <2>1, <3>1, <4>1, BesideStays
    <3>3. CASE ~ (q = r /\ RemoveMethod(r))
      <4>1. changing'[q] = changing[q] /\ locked'[q] = locked[q]
        <5>1. CASE q # r
          BY <1>0, <2>3, <5>1, StartFrame, EndsAside, WorksAside DEF Kinds, Aside
        <5>2. CASE q = r
          <6>1. ~ Works(r)
            BY <1>0, <1>2, <3>3, <5>2, WorkOfDeletion, DetachReads DEF DetachMethod, Deletes
          <6>2. \E request, next : Starts(r, request, next)
            BY <2>3, <5>2, <6>1, EndsAside, AsideKeeps DEF Kinds
          <6> QED BY <1>0, <5>2, <6>2, StartFrame
        <5> QED BY <5>1, <5>2
      <4> QED BY <1>0, <1>2, <2>1, <3>1, <4>1, BesideStays
    <3> QED BY <3>2, <3>3
  <2> QED BY <2>2, <2>3
<1> QED BY <1>0, <1>1, <1>2

\* A pack after a step, and the races about it.
KnownAfter(id) == Normalized(id) \in BuiltinStyles \cup styles'
RacedAfter(style) == \E q \in Changes : /\ change'[q].kind = "delete_style"
                                        /\ change'[q].style = style
                                        /\ beside'[q] \cap Writers' # {}

\* A save that raced the deletion of its pack has for good.
LEMMA PackRacesStay ==
    ASSUME ProfilesInv, NEW r \in Changes, Kinds(r), NEW style, RacedPack(style)
    PROVE  RacedAfter(style)
<1>1. PICK q \in Changes : /\ Kind(q) = "delete_style" /\ change[q].style = style
                           /\ beside[q] \cap Writers # {}
  BY DEF RacedPack
<1>2. change'[q].kind = "delete_style" /\ change'[q].style = style
  BY <1>1, PastStays DEF Kind
<1>3. beside'[q] \cap Writers' # {}
  BY <1>1, PastStays
<1> QED BY <1>2, <1>3 DEF RacedAfter

\* A pack is lost only by the commit of its deletion.
LEMMA StyleLost ==
    ASSUME ProfilesInv, NEW r \in Changes, Kinds(r), NEW id \in StoredStyles, KnownStyle(id)
    PROVE  KnownAfter(id) \/ (CommitChange(r) /\ Kind(r) = "delete_style" /\ change[r].style = id)
<1>1. Normalized(id) = id /\ id \in BuiltinStyles \cup styles
  BY NormalizedProperties
<1>2. KnownAfter(id) <=> id \in BuiltinStyles \cup styles'
  BY <1>1 DEF KnownAfter
<1>3. CASE CommitChange(r)
  BY <1>1, <1>2, <1>3 DEF CommitChange
<1>4. CASE ~ CommitChange(r)
  <2>1. styles' = styles
    BY <1>4, StartFrame, EndsAside, WorksAside DEF Kinds, Aside, ProfilesInv
  <2> QED BY <1>1, <1>2, <2>1
<1> QED BY <1>3, <1>4

\* An active row another outlives, which each save or clear under way has in hand.
Behind(p) ==
    /\ \E c \in Active : began[p] < began[c]
    /\ \A r \in Ongoing \cap Writers :
          /\ changing[r] = "deactivate" => p \in found[r]
          /\ changing[r] \in {"insert", "commit"} => p \in locked[r]

\* A profile that a writer has yet to see stays behind it until the writer moves.
LEMMA BehindAside ==
    ASSUME ProfilesInv, NEW r \in Changes, Denies(r) \/ Fails(r) \/ Works(r),
           NEW p \in Active, Behind(p)
    PROVE  Behind(p)'
<1> USE DEF ProfilesInv
<1>1. Aside(r)
  BY EndsAside, WorksAside
<1>2. Active' = Active /\ Writers' = Writers /\ Ongoing' \subseteq Ongoing /\ began' = began
  BY <1>1, AsideKeeps DEF Aside
<1>3. ASSUME NEW q \in Ongoing \cap Writers, q \in Ongoing'
      PROVE  /\ changing'[q] = "deactivate" => p \in found'[q]
             /\ changing'[q] \in {"insert", "commit"} => p \in locked'[q]
  <2>0. q \in Changes
    BY DEF Ongoing
  <2>1. /\ changing[q] = "deactivate" => p \in found[q]
        /\ changing[q] \in {"insert", "commit"} => p \in locked[q]
    BY <1>3 DEF Behind
  <2>2. CASE q # r
    BY <1>1, <2>0, <2>1, <2>2 DEF Aside
  <2>3. CASE q = r
    <3>1. Works(r)
      BY <1>1, <1>3, <2>3, EndsAside, AsideKeeps
    <3> QED BY <1>3, <2>1, <2>3, <3>1, WorkOfWriter
  <2> QED BY <2>2, <2>3
<1> QED BY <1>2, <1>3 DEF Behind

LEMMA StyleStep ==
    ASSUME ProfilesInv, NEW r \in Changes, Kinds(r)
    PROVE  StyleInv'
<1> USE DEF ProfilesInv
<1>0. \A p \in Active : /\ p \in Changes /\ p \in Begun /\ profiles[p].style \in StoredStyles
                        /\ \/ KnownStyle(profiles[p].style) \/ RacedPack(profiles[p].style)
                           \/ Behind(p)
  BY DEF StyleInv, Behind, Active, RowInv, ProfileRows, ProfilesTypeOK
<1>1. ASSUME NEW p \in Active'
      PROVE  KnownAfter(profiles'[p].style) \/ RacedAfter(profiles'[p].style) \/ Behind(p)'
  <2>1. CASE \E request, next : Starts(r, request, next)
    <3>1. PICK request, next : Starts(r, request, next)
      BY <2>1
    <3>2. Active' = Active /\ profiles' = profiles
      BY <3>1, StartFrame DEF Active
    <3>3. Behind(p) => Behind(p)'
      <4>1. \A c \in Active : began'[c] = began[c]
        BY <1>0, <3>1, StartFrame
      <4>2. ASSUME NEW q \in Ongoing', q \in Writers', Behind(p)
            PROVE  /\ changing'[q] = "deactivate" => p \in found'[q]
                   /\ changing'[q] \in {"insert", "commit"} => p \in locked'[q]
        <5>1. CASE q = r
          <6>1. next = "find"
            BY <3>1, <4>2, <5>1, StartFrame DEF Starts, Writers, Kind
          <6> QED BY <3>1, <5>1, <6>1, StartFrame
        <5>2. CASE q # r
          <6>1. q \in Ongoing /\ q \in Writers
            BY <3>1, <4>2, <5>2, StartFrame DEF Writers, Kind
          <6> QED BY <3>1, <4>2, <5>2, <6>1, StartFrame DEF Behind, Ongoing
        <5> QED BY <5>1, <5>2
      <4> QED BY <1>1, <3>2, <4>1, <4>2 DEF Behind
    <3> QED BY <1>0, <1>1, <2>1, <3>1, <3>2, <3>3, StyleLost, PackRacesStay, StartFrame,
               CommitFrame DEF Flight
  <2>2. CASE Denies(r) \/ Fails(r) \/ Works(r)
    <3>1. Aside(r)
      BY <2>2, EndsAside, WorksAside
    <3>2. Active' = Active /\ profiles' = profiles /\ styles' = styles
      BY <3>1, AsideKeeps DEF Aside
    <3>3. KnownStyle(profiles[p].style) => KnownAfter(profiles'[p].style)
      BY <3>2 DEF KnownStyle, KnownAfter, Normalized
    <3>4. RacedPack(profiles[p].style) => RacedAfter(profiles'[p].style)
      BY <3>2, PackRacesStay
    <3>5. Behind(p) => Behind(p)'
      BY <1>1, <2>2, <3>2, BehindAside
    <3> QED BY <1>0, <1>1, <3>2, <3>3, <3>4, <3>5
  <2>3. CASE CommitChange(r)
    <3>0. began' = began /\ changing[r] = "commit" /\ r \in Ongoing /\ Ongoing' = Ongoing \ {r}
          /\ Writers' = Writers
      BY <2>3, CommitFrame
    <3>1. CASE p \notin DOMAIN profiles
      <4>1. p = r /\ Kind(r) = "save"
        BY <1>1, <2>3, <3>1, CommitDomain DEF Active
      <4>2. profiles'[p].style = change[r].style /\ change[r].style \in StoredStyles
        BY <2>3, <4>1, CommittedNew DEF RequestInv
      <4>3. KnownStyle(change[r].style) \/ RacedPack(change[r].style)
        BY <3>0, <4>1 DEF StyleInv
      <4> QED BY <4>1, <4>2, <4>3, StyleLost, PackRacesStay
    <3>2. CASE p \in DOMAIN profiles /\ p \in locked[r] /\ Kind(r) = "delete_style"
      <4>1. profiles'[p].style = DefaultStyle
        BY <2>3, <3>2, CommittedRow
      <4>2. KnownAfter(DefaultStyle)
        BY ProfilesAssumption DEF KnownStyle, KnownAfter, Normalized
      <4> QED BY <4>1, <4>2
    <3>3. CASE p \in DOMAIN profiles /\ ~ (p \in locked[r] /\ Kind(r) = "delete_style")
      <4>1. /\ profiles'[p].style = profiles[p].style /\ p \in Active
            /\ ~ (p \in locked[r] /\ Kind(r) \in {"save", "clear"})
        BY <1>1, <2>3, <3>3, CommittedRow DEF Active
      <4>2. CASE KnownStyle(profiles[p].style) /\ ~ KnownAfter(profiles[p].style)
        <5>1. Kind(r) = "delete_style" /\ change[r].style = profiles[p].style
          BY <1>0, <4>1, <4>2, StyleLost
        <5>2. CASE beside[r] \cap Writers # {}
          <6>1. RacedPack(profiles[p].style)
            BY <5>1, <5>2 DEF RacedPack
          <6> QED BY <4>1, <6>1, PackRacesStay
        <5>3. CASE beside[r] \cap Writers = {}
          <6>1. ~ (\A c \in Active : began[c] <= began[p])
            BY <3>0, <3>3, <4>1, <5>1, <5>3 DEF ResetInv
          <6>2. \E c \in Active : began[p] < began[c]
            BY <1>0, <4>1, <6>1 DEF AgeInv, Begun
          <6>3. Active' = Active
            BY <2>3, <5>1, CommitActive DEF Writers
          <6>4. Ongoing' \cap Writers' = {}
            BY <3>0, <5>3 DEF BesideInv
          <6> QED BY <3>0, <6>2, <6>3, <6>4 DEF Behind
        <5> QED BY <5>2, <5>3
      <4>3. CASE KnownAfter(profiles[p].style)
        BY <4>1, <4>3
      <4>4. CASE RacedPack(profiles[p].style)
        BY <4>1, <4>4, PackRacesStay
      <4>5. CASE Behind(p)
        <5>1. r \notin Writers
          BY <3>0, <4>1, <4>5 DEF Behind, Writers
        <5>2. Active' = Active
          BY <2>3, <5>1, CommitActive
        <5>3. \A q \in Ongoing' : /\ q \in Ongoing /\ changing'[q] = changing[q]
                                  /\ found'[q] = found[q] /\ locked'[q] = locked[q]
          BY <2>3, <3>0, CommitFrame DEF Ongoing
        <5> QED BY <3>0, <4>5, <5>2, <5>3 DEF Behind
      <4> QED BY <1>0, <4>1, <4>2, <4>3, <4>4, <4>5
    <3> QED BY <3>1, <3>2, <3>3
  <2> QED BY <2>1, <2>2, <2>3 DEF Kinds
<1>2. ASSUME NEW q \in Ongoing', Kind(q)' = "save"
      PROVE  KnownAfter(change'[q].style) \/ RacedAfter(change'[q].style)
  <2>0. q \in Changes
    BY DEF Ongoing
  <2>1. CASE \E request, next : Starts(r, request, next)
    <3>1. PICK request, next : Starts(r, request, next)
      BY <2>1
    <3>2. CASE q = r
      <4>1. KnownStyle(request.style) /\ change'[q] = request /\ styles' = styles
        BY <1>2, <3>1, <3>2, StartFrame DEF Starts, Kind
      <4> QED BY <4>1 DEF KnownStyle, KnownAfter, Normalized
    <3>3. CASE q # r
      <4>1. q \in Ongoing /\ Kind(q) = "save" /\ change'[q] = change[q] /\ styles' = styles
        BY <1>2, <2>0, <3>1, <3>3, StartFrame DEF Kind
      <4>2. KnownStyle(change[q].style) \/ RacedPack(change[q].style)
        BY <4>1 DEF StyleInv
      <4>3. KnownStyle(change[q].style) => KnownAfter(change'[q].style)
        BY <4>1 DEF KnownStyle, KnownAfter, Normalized
      <4> QED BY <4>1, <4>2, <4>3, PackRacesStay
    <3> QED BY <3>2, <3>3
  <2>2. CASE Denies(r) \/ Fails(r) \/ Works(r)
    <3>1. Aside(r)
      BY <2>2, EndsAside, WorksAside
    <3>2. q \in Ongoing /\ Kind(q) = "save" /\ change' = change /\ styles' = styles
      BY <1>2, <2>0, <3>1, AsideKeeps DEF Aside
    <3>3. KnownStyle(change[q].style) => KnownAfter(change'[q].style)
      BY <3>2 DEF KnownStyle, KnownAfter, Normalized
    <3> QED BY <3>2, <3>3, PackRacesStay DEF StyleInv
  <2>3. CASE CommitChange(r)
    <3>1. q \in Ongoing /\ q # r /\ Kind(q) = "save" /\ change' = change /\ r \in Ongoing
      BY <1>2, <2>0, <2>3, CommitFrame
    <3>2. change[q].style \in StoredStyles
      BY <2>0, <3>1 DEF RequestInv
    <3>3. KnownStyle(change[q].style) \/ RacedPack(change[q].style)
      BY <3>1 DEF StyleInv
    <3>4. CASE KnownStyle(change[q].style) /\ ~ KnownAfter(change[q].style)
      <4>1. Kind(r) = "delete_style" /\ change[r].style = change[q].style
        BY <3>2, <3>4, StyleLost
      <4>2. q \in beside[r] /\ q \in Writers
        BY <2>0, <3>1 DEF BesideInv, Writers
      <4>3. RacedPack(change[q].style)
        BY <4>1, <4>2 DEF RacedPack
      <4> QED BY <3>1, <4>3, PackRacesStay
    <3>5. KnownAfter(change[q].style) => KnownAfter(change'[q].style)
      BY <3>1
    <3> QED BY <3>1, <3>3, <3>4, <3>5, PackRacesStay
  <2> QED BY <2>1, <2>2, <2>3 DEF Kinds
<1> QED BY <1>1, <1>2 DEF StyleInv, Behind, KnownAfter, RacedAfter, KnownStyle, RacedPack, Kind

LEMMA ResetStep ==
    ASSUME ProfilesInv, NEW r \in Changes, Kinds(r)
    PROVE  ResetInv'
<1> USE DEF ProfilesInv
<1> SUFFICES ASSUME NEW q \in Ongoing', Kind(q)' = "delete_style", beside'[q] \cap Writers' = {},
                    NEW p \in Active', profiles'[p].style = change'[q].style,
                    \A c \in Active' : began'[c] <= began'[p]
             PROVE  /\ changing'[q] = "reset" => p \in found'[q]
                    /\ changing'[q] = "commit" => p \in locked'[q]
  BY DEF ResetInv
<1>0. q \in Changes
  BY DEF Ongoing
<1>1. beside[q] \cap Writers = {}
  BY <1>0, PastStays
<1>2. ASSUME q \in Ongoing, change'[q] = change[q], Active' = Active, p \in Active,
             profiles[p].style = change[q].style, \A c \in Active : began'[c] = began[c]
      PROVE  /\ changing[q] = "reset" => p \in found[q]
             /\ changing[q] = "commit" => p \in locked[q]
  BY <1>1, <1>2 DEF ResetInv, Kind
<1>3. CASE \E request, next : Starts(r, request, next)
  <2>1. PICK request, next : Starts(r, request, next)
    BY <1>3
  <2>2. CASE q = r
    <3>1. next = "drop"
      BY <2>1, <2>2, StartFrame DEF Starts, Kind
    <3> QED BY <2>1, <2>2, <3>1, StartFrame
  <2>3. CASE q # r
    <3>1. Active' = Active /\ profiles' = profiles
      BY <2>1, StartFrame DEF Active
    <3>2. \A c \in Active : c \in Begun /\ c \in Changes
      BY DEF Active, RowInv, ProfilesTypeOK
    <3>3. \A c \in Active : began'[c] = began[c]
      BY <2>1, <3>2, StartFrame
    <3>4. q \in Ongoing /\ change'[q] = change[q]
      BY <1>0, <2>1, <2>3, StartFrame
    <3> QED BY <1>0, <1>2, <2>1, <2>3, <3>1, <3>3, <3>4, StartFrame
  <2> QED BY <2>2, <2>3
<1>4. CASE Denies(r) \/ Fails(r) \/ Works(r)
  <2>1. Aside(r)
    BY <1>4, EndsAside, WorksAside
  <2>2. q \in Ongoing /\ Kind(q) = "delete_style" /\ Active' = Active
    BY <1>0, <2>1, AsideKeeps
  <2>3. UNCHANGED <<profiles, began, change>>
    BY <2>1 DEF Aside
  <2>4. /\ changing[q] = "reset" => p \in found[q]
        /\ changing[q] = "commit" => p \in locked[q]
    BY <1>2, <2>2, <2>3
  <2>5. CASE q # r
    BY <1>0, <2>1, <2>4, <2>5 DEF Aside
  <2>6. CASE q = r
    <3>1. Works(r)
      BY <1>4, <2>1, <2>6, EndsAside, AsideKeeps
    <3>2. DropStyle(r) \/ ResetStyle(r)
      BY <2>2, <2>6, <3>1
      DEF Works, FindActive, Deactivate, InsertProfile, DetachMethod, RemoveMethod,
                              SaveStyle, RequestInv
    <3>3. CASE DropStyle(r)
      <4>1. p \in Active /\ p \in Begun /\ Active \subseteq Begun
        BY <2>2 DEF Active, RowInv
      <4>2. Current \in Active /\ began[p] <= began[Current] /\ began[Current] <= began[p]
        BY <2>2, <2>3, <4>1, CurrentIsLast
      <4>3. p = Current
        BY <4>1, <4>2 DEF AgeInv, Begun
      <4>4. profiles[p].style = change[r].style
        BY <2>3, <2>6
      <4> QED BY <2>6, <3>3, <4>1, <4>3, <4>4 DEF DropStyle, Turn, RequestInv, RowInv
    <3>4. CASE ResetStyle(r)
      BY <2>4, <2>6, <3>4 DEF ResetStyle, Turn, RequestInv, ProfilesTypeOK
    <3> QED BY <3>2, <3>3, <3>4
  <2> QED BY <2>5, <2>6
<1>5. CASE CommitChange(r)
  <2>1. /\ q \in Ongoing /\ q # r /\ r \in Ongoing /\ Kind(q) = "delete_style"
        /\ UNCHANGED <<began, change, found>>
    BY <1>0, <1>5, CommitFrame
  <2>2. Active' = Active
    <3>1. r \notin Writers
      BY <1>0, <1>1, <2>1 DEF BesideInv
    <3> QED BY <1>5, <3>1, CommitActive
  <2>3. profiles[p].style = change[q].style
    <3>1. p \in DOMAIN profiles /\ change[q].style \notin BuiltinStyles
      BY <1>0, <2>1, <2>2 DEF Active, RequestInv
    <3> QED BY <1>5, <2>1, <3>1, CommittedRow, ProfilesAssumption
  <2> QED BY <1>0, <1>2, <1>5, <2>1, <2>2, <2>3, CommitFrame
<1> QED BY <1>3, <1>4, <1>5 DEF Kinds

-----------------------------------------------------------------------------

LEMMA ProfilesStart == ProfilesInit => ProfilesInv
<1> SUFFICES ASSUME ProfilesInit PROVE ProfilesInv
  OBVIOUS
<1> USE DEF ProfilesInit
<1>1. /\ DOMAIN profiles = {} /\ Active = {} /\ Ongoing = {} /\ Begun = {} /\ Writers = {}
      /\ \A q \in Changes : DOMAIN listed[q] = {} /\ Kind(q) = "none" /\ locked[q] = {}
  BY DEF Active, Ongoing, Begun, Kind, NoRequest, Writers
<1>2. ProfilesTypeOK
  BY <1>1, ProfilesAssumption DEF ProfilesTypeOK
<1>3. RequestInv
  BY <1>1 DEF RequestInv
<1>4. RowInv
  BY <1>1 DEF RowInv
<1>5. AgeInv
  BY <1>1, FS_EmptySet DEF AgeInv
<1>6. BesideInv /\ AloneInv /\ LastChangeInv /\ LastProfileStands
  BY <1>1 DEF BesideInv, AloneInv, LastChangeInv, LastProfileStands
<1>7. ListInv /\ FirstInv /\ RewriteInv /\ StyleInv /\ ResetInv
  BY <1>1 DEF ListInv, FirstInv, RewriteInv, StyleInv, ResetInv
<1> QED BY <1>2, <1>3, <1>4, <1>5, <1>6, <1>7 DEF ProfilesInv

LEMMA ProfilesStutter == ProfilesInv /\ UNCHANGED profilesVars => ProfilesInv'
<1> SUFFICES ASSUME ProfilesInv, UNCHANGED profilesVars PROVE ProfilesInv'
  OBVIOUS
<1> USE DEF ProfilesInv, profilesVars, library, history
<1>1. /\ Active' = Active /\ Ongoing' = Ongoing /\ Begun' = Begun /\ Writers' = Writers
      /\ \A q : Kind(q)' = Kind(q)
  BY DEF Active, Ongoing, Begun, Kind, Writers
<1>2. ProfilesTypeOK' /\ RequestInv' /\ RowInv' /\ AgeInv'
  BY <1>1 DEF ProfilesTypeOK, RequestInv, RowInv, AgeInv
<1>3. BesideInv' /\ AloneInv' /\ LastChangeInv' /\ LastProfileStands'
  BY <1>1 DEF BesideInv, AloneInv, LastChangeInv, LastProfileStands
<1>4. ListInv'
  BY <1>1 DEF ListInv, RacedDeletion
<1>5. FirstInv' /\ RewriteInv'
  BY <1>1 DEF FirstInv, RewriteInv
<1>6. StyleInv' /\ ResetInv'
  BY <1>1 DEF StyleInv, ResetInv, KnownStyle, RacedPack
<1> QED BY <1>2, <1>3, <1>4, <1>5, <1>6

LEMMA ProfilesSteps == ProfilesInv /\ [ProfilesNext]_profilesVars => ProfilesInv'
<1>1. ASSUME ProfilesInv, ProfilesNext PROVE ProfilesInv'
  <2>1. PICK r \in Changes : Kinds(r)
    BY <1>1, StepCases DEF Kinds
  <2>2. ProfilesTypeOK' /\ RequestInv' /\ RowInv' /\ AgeInv'
    BY <1>1, <2>1, ProfilesTypeStep, RequestStep, RowStep, AgeStep
  <2>3. BesideInv' /\ AloneInv' /\ LastChangeInv' /\ LastProfileStands'
    BY <1>1, <2>1, BesideStep, AloneStep, LastChangeStep, LastStandsStep
  <2>4. ListInv' /\ FirstInv' /\ RewriteInv' /\ StyleInv' /\ ResetInv'
    BY <1>1, <2>1, ListStep, FirstStep, RewriteStep, StyleStep, ResetStep
  <2> QED BY <2>2, <2>3, <2>4 DEF ProfilesInv
<1> QED BY <1>1, ProfilesStutter

\* The current profile names what exists, or a race explains what does not.
LEMMA CurrentResolves == ProfilesInv => CurrentProfileResolves
<1> SUFFICES ASSUME ProfilesInv, Current # Absent
             PROVE  LET p == Current IN
                    /\ GetProfileStatus = 200
                       \/ \E q \in Changes :
                             /\ Kind(q) = "delete_method"
                             /\ Mentions(profiles[p].list, change[q].method)
                             /\ \E o \in beside[q] : o = p \/ Kind(o) = "delete_method"
                    /\ KnownStyle(profiles[p].style)
                       \/ \E q \in Changes : /\ Kind(q) = "delete_style"
                                             /\ change[q].style = profiles[p].style
                                             /\ beside[q] \cap Writers # {}
  BY DEF CurrentProfileResolves
<1> DEFINE p == Current
<1>1. p \in Active /\ \A c \in Active : began[c] <= began[p]
  BY CurrentIsLast DEF ProfilesInv
<1> HIDE DEF p
<1>2. p \in DOMAIN profiles /\ profiles[p].list \in StoredLists
  BY <1>1 DEF Active, ProfilesInv, RowInv, ProfileRows
<1>3. \A m \in Methods : Mentions(profiles[p].list, m) => m \in methods \/ RacedDeletion(p, m)
  BY <1>2 DEF ProfilesInv, ListInv
<1>4. CASE \A m : Mentions(profiles[p].list, m) => m \in methods
  <2> DEFINE row == profiles[p]
             named == IF row.list # <<>> THEN row.list
                      ELSE IF row.first # Absent THEN <<row.first>> ELSE <<>>
  <2>1. row.list = <<>> => row.first = Absent
    BY <1>2 DEF ProfilesInv, FirstInv, Mentions
  <2>2. named = row.list
    BY <2>1
  <2>3. KnownMethods(row.list)
    BY <1>2, <1>4 DEF KnownMethods, StoredLists, Mentions
  <2>4. GetProfileStatus = IF KnownMethods(named) THEN 200 ELSE 422
    BY DEF GetProfileStatus, p
  <2>5. GetProfileStatus = 200
    BY <2>2, <2>3, <2>4
  <2>6. KnownStyle(row.style) \/ RacedPack(row.style)
    <3>1. ~ \E c \in Active : began[p] < began[c]
      BY <1>1 DEF ProfilesInv, AgeInv, Active, RowInv, ProfilesTypeOK
    <3> QED BY <1>1, <3>1 DEF ProfilesInv, StyleInv
  <2> QED BY <2>5, <2>6 DEF RacedPack, p
<1>5. CASE \E m : Mentions(profiles[p].list, m) /\ m \notin methods
  <2>1. PICK m : Mentions(profiles[p].list, m) /\ m \notin methods
    BY <1>5
  <2>2. m \in Methods
    BY <1>2, <2>1, ElementOfSeq DEF StoredLists, Mentions
  <2>3. RacedDeletion(p, m)
    BY <1>3, <2>1, <2>2
  <2>4. KnownStyle(profiles[p].style) \/ RacedPack(profiles[p].style)
    <3>1. ~ \E c \in Active : began[p] < began[c]
      BY <1>1 DEF ProfilesInv, AgeInv, Active, RowInv, ProfilesTypeOK
    <3> QED BY <1>1, <3>1 DEF ProfilesInv, StyleInv
  <2> QED BY <2>1, <2>3, <2>4 DEF RacedDeletion, RacedPack, p
<1> QED BY <1>4, <1>5

\* The invariant holds, and with it each of its parts.
THEOREM ProfilesInvariantHolds == ProfilesSpec => []ProfilesInv
<1> QED BY ProfilesStart, ProfilesSteps, PTL DEF ProfilesSpec

\* The variables keep their types.
THEOREM ProfilesTypeCorrect == ProfilesSpec => []ProfilesTypeOK
<1>1. ProfilesInv => ProfilesTypeOK
  BY DEF ProfilesInv
<1> QED BY <1>1, ProfilesInvariantHolds, PTL

\* The last save or clear that no other ran beside decides the active profile, for any
\* number of requests (save_active_profile, clear_active_profiles, get_active_profile).
THEOREM LastProfileAlwaysStands == ProfilesSpec => []LastProfileStands
<1>1. ProfilesInv => LastProfileStands
  BY DEF ProfilesInv
<1> QED BY <1>1, ProfilesInvariantHolds, PTL

\* The active profile names only packs and documents that exist, but for the races the
\* property names (delete_method_document, delete_style_pack, get_profile).
THEOREM CurrentProfileAlwaysResolves == ProfilesSpec => []CurrentProfileResolves
<1> QED BY CurrentResolves, ProfilesInvariantHolds, PTL

-----------------------------------------------------------------------------
(* Guidance: the proposed allocation is acceptable for every profile,      *)
(* whatever its answers, and for every style pack a user may save whose    *)
(* points are given to a tenth of a percentage point.                      *)

LEMMA TenthsOfTenths == ASSUME NEW x \in Int, x % 10 = 0 PROVE Tenths(x) = x
<1>1. x = 10 * (x \div 10) /\ x \div 10 \in Int
  OBVIOUS
<1> QED BY <1>1 DEF Tenths

LEMMA TenthsIsTenth == ASSUME NEW x \in Int PROVE Tenths(x) \in Int /\ Tenths(x) % 10 = 0
BY DEF Tenths

LEMMA TenthsIsNear == ASSUME NEW x \in Int PROVE Tenths(x) - x <= 5 /\ x - Tenths(x) <= 5
<1>1. x = (10 * (x \div 10)) + (x % 10) /\ x % 10 \in 0..9 /\ x \div 10 \in Int
  OBVIOUS
<1>2. \/ Tenths(x) = 10 * (x \div 10) /\ x % 10 <= 5
      \/ Tenths(x) = 10 * ((x \div 10) + 1) /\ x % 10 >= 5
  BY <1>1 DEF Tenths
<1> QED BY <1>1, <1>2

\* A whole number of points for any answer a profile may give.
LEMMA PointsAreWhole ==
    ASSUME NEW name
    PROVE  /\ ByName(RiskEquity, name, 55) \in Int
           /\ ByName(HorizonPoints, name, 0) \in Int
           /\ ByName(StabilityPoints, name, 0) \in Int
           /\ ByName(LiquidityPoints, name, 0) \in Int
           /\ ByName(StagePoints, name, 0) \in Int
           /\ ByName(RiskGold, name, 500) \in {500, 750, 1000}
BY DEF ByName, RiskEquity, HorizonPoints, StabilityPoints, LiquidityPoints, StagePoints, RiskGold

LEMMA WholePointsAreTenths ==
    ASSUME NEW points \in Int, NEW more \in Int, more % 10 = 0
    PROVE  100 * points + more \in Int /\ (100 * points + more) % 10 = 0
OBVIOUS

LEMMA EquityIsTenth ==
    ASSUME NEW p, PackAccepted(p.pack)
    PROVE  UnboundedEquity(p) \in Int /\ UnboundedEquity(p) % 10 = 0
<1> DEFINE points == ByName(RiskEquity, p.risk, 55)
                     + ByName(HorizonPoints, p.horizon, 0)
                     + ByName(StabilityPoints, p.stability, 0)
                     + ByName(LiquidityPoints, p.liquidity, 0)
                     + ByName(StagePoints, p.stage, 0)
                     + (IF p.income = "none" THEN -10 ELSE 0)
<1>1. points \in Int
  BY PointsAreWhole
<1>2. UnboundedEquity(p) = 100 * points + p.pack.equity
  BY DEF UnboundedEquity, Point
<1> HIDE DEF points
<1>3. p.pack.equity \in Int /\ p.pack.equity % 10 = 0
  BY DEF PackAccepted, Tenth
<1> QED BY <1>1, <1>2, <1>3, WholePointsAreTenths

LEMMA GoldIsTenth ==
    ASSUME NEW p, PackAccepted(p.pack) PROVE Tenth(Gold(p), 250, 1250)
<1> DEFINE base == ByName(RiskGold, p.risk, 500)
<1> DEFINE given == base + p.pack.gold
<1>1. base \in Int /\ base % 10 = 0
  BY PointsAreWhole
<1>2. p.pack.gold \in Int /\ p.pack.gold % 10 = 0
  BY DEF PackAccepted, Tenth
<1> HIDE DEF base
<1>3. given \in Int /\ given % 10 = 0
  <2>1. PICK n \in Int : base = 10 * n
    BY <1>1
  <2>2. PICK k \in Int : p.pack.gold = 10 * k
    BY <1>2
  <2> QED BY <2>1, <2>2
<1>4. Gold(p) = Clamp(given, 250, 1250)
  BY DEF Gold, base
<1> HIDE DEF given
<1> QED BY <1>3, <1>4 DEF Clamp, Tenth

LEMMA CeilingIsTenth ==
    ASSUME NEW gold, NEW alternatives, Tenth(gold, 250, 1250), Tenth(alternatives, 0, 500)
    PROVE  Tenth(9000 - gold - alternatives, 7250, 8750)
<1>1. 9000 - gold - alternatives \in Int /\ (9000 - gold - alternatives) % 10 = 0
  BY DEF Tenth
<1>2. 7250 <= 9000 - gold - alternatives /\ 9000 - gold - alternatives <= 8750
  BY DEF Tenth
<1> QED BY <1>1, <1>2 DEF Tenth

\* The equity is bounded from both sides, the ceiling that leaves room for bonds included.
LEMMA GuidedEquityIsTenth ==
    ASSUME NEW p, PackAccepted(p.pack)
    PROVE  /\ Tenth(GuidedEquity(p), 1500, 8500)
           /\ GuidedEquity(p) <= 9000 - Gold(p) - p.pack.alternatives
<1> DEFINE unbounded == UnboundedEquity(p)
<1> DEFINE equity == Clamp(unbounded, 1500, 8500)
<1> DEFINE ceiling == 9000 - Gold(p) - p.pack.alternatives
<1>1. Tenth(equity, 1500, 8500)
  <2>1. unbounded \in Int /\ unbounded % 10 = 0
    BY EquityIsTenth
  <2> HIDE DEF unbounded
  <2> QED BY <2>1 DEF Clamp, Tenth
<1>2. Tenth(ceiling, 7250, 8750)
  BY GoldIsTenth, CeilingIsTenth DEF PackAccepted
<1>3. GuidedEquity(p) = IF equity > ceiling THEN ceiling ELSE equity
  BY DEF GuidedEquity
<1> HIDE DEF equity, ceiling
<1>4. Tenth(GuidedEquity(p), 1500, 8500) /\ GuidedEquity(p) <= ceiling
  BY <1>1, <1>2, <1>3 DEF Tenth
<1> QED BY <1>4 DEF ceiling

\* A share of less than a half.
LEMMA ShareIsLess ==
    ASSUME NEW equity \in Int, equity >= 0, NEW share \in Int, 15 <= share, share <= 40
    PROVE  /\ (equity * share) \div 100 \in Int
           /\ 0 <= (equity * share) \div 100
           /\ 2 * ((equity * share) \div 100) <= equity
<1> DEFINE product == equity * share
<1>1. product \in Int /\ 0 <= product /\ product <= 40 * equity
  OBVIOUS
<1> HIDE DEF product
<1>2. product \div 100 \in Int /\ 0 <= product \div 100 /\ 100 * (product \div 100) <= product
  BY <1>1
<1>3. 2 * (product \div 100) <= equity
  BY <1>1, <1>2
<1> QED BY <1>2, <1>3 DEF product

-----------------------------------------------------------------------------

\* The parts of an allocation, whatever it was computed from.
Divided(equity, share, gold, alternatives) ==
    LET abroad == Tenths((equity * share) \div 100)
    IN [equity |-> Tenths(equity - abroad), international |-> abroad,
        bond |-> Tenths(Whole - equity - gold - alternatives),
        gold |-> Tenths(gold), alternatives |-> Tenths(alternatives)]

\* Bounds of an integer, and its interval; the bound is not spelled out.
LEMMA WithinBounds ==
    ASSUME NEW n \in Int, NEW top \in Int, 0 <= n, n <= top PROVE n \in 0..top
OBVIOUS

LEMMA WholeIsInt == Whole \in Int
BY DEF Whole

LEMMA PartsAreSound ==
    ASSUME NEW equity, NEW gold, NEW alternatives, NEW share \in Int,
           Tenth(equity, 1500, 8500), Tenth(gold, 250, 1250), Tenth(alternatives, 0, 500),
           15 <= share, share <= 40, equity <= 9000 - gold - alternatives
    PROVE  AllocationAccepted(Divided(equity, share, gold, alternatives))
<1> DEFINE part == (equity * share) \div 100
<1> DEFINE abroad == Tenths(part)
<1> DEFINE rest == Whole - equity - gold - alternatives
<1>0. /\ equity \in Int /\ 1500 <= equity /\ equity <= 8500 /\ equity % 10 = 0
      /\ gold \in Int /\ 250 <= gold /\ gold <= 1250 /\ gold % 10 = 0
      /\ alternatives \in Int /\ 0 <= alternatives /\ alternatives <= 500
      /\ alternatives % 10 = 0
  BY DEF Tenth
<1>1. part \in Int /\ 0 <= part /\ 2 * part <= equity
  BY <1>0, ShareIsLess
<1> HIDE DEF part
<1>2. abroad \in Int /\ abroad % 10 = 0 /\ abroad - part <= 5 /\ part - abroad <= 5
  <2>1. abroad \in Int /\ abroad % 10 = 0
    BY <1>1, TenthsIsTenth
  <2>2. abroad - part <= 5 /\ part - abroad <= 5
    BY <1>1, TenthsIsNear
  <2> QED BY <2>1, <2>2
<1> HIDE DEF abroad
<1>3. 0 <= abroad /\ abroad <= equity
  BY <1>0, <1>1, <1>2
<1>4. rest \in Int /\ rest % 10 = 0
  BY <1>0 DEF Whole
<1>5. 0 <= rest /\ rest <= Whole
  BY <1>0 DEF Whole
<1>6. equity - abroad \in Int /\ (equity - abroad) % 10 = 0
  BY <1>0, <1>2
<1>7. 0 <= equity - abroad /\ equity - abroad <= Whole
  BY <1>0, <1>2, <1>3 DEF Whole
<1>8. (equity - abroad) + abroad + rest + gold + alternatives = Whole
  BY <1>0, <1>2 DEF Whole
<1> DEFINE home == equity - abroad
<1> HIDE DEF rest, home
<1>9. /\ Tenths(home) = home /\ Tenths(rest) = rest
      /\ Tenths(gold) = gold /\ Tenths(alternatives) = alternatives
  BY <1>0, <1>4, <1>6, TenthsOfTenths DEF home
<1> DEFINE allocation ==
        [equity |-> home, international |-> abroad, bond |-> rest,
         gold |-> gold, alternatives |-> alternatives]
<1>10. Divided(equity, share, gold, alternatives) = allocation
  BY <1>9 DEF Divided, home, rest, abroad, part
<1>11. /\ home \in 0..Whole /\ abroad \in 0..Whole /\ rest \in 0..Whole
       /\ gold \in 0..Whole /\ alternatives \in 0..Whole
  <2>1. home \in 0..Whole
    BY <1>6, <1>7, WholeIsInt, WithinBounds DEF home
  <2>2. abroad \in 0..Whole
    BY <1>0, <1>2, <1>3 DEF Whole
  <2>3. rest \in 0..Whole
    BY <1>4, <1>5 DEF Whole
  <2>4. gold \in 0..Whole
    BY <1>0 DEF Whole
  <2>5. alternatives \in 0..Whole
    BY <1>0 DEF Whole
  <2> QED BY <2>1, <2>2, <2>3, <2>4, <2>5
<1>12. AllocationSum(allocation) = Whole
  BY <1>8 DEF AllocationSum, home
<1>13. \A class \in DOMAIN allocation : allocation[class] \in 0..Whole
  BY <1>11
<1> HIDE DEF allocation
<1>14. AllocationAccepted(allocation)
  BY <1>12, <1>13 DEF AllocationAccepted, Whole
<1> QED BY <1>10, <1>14

\* Whatever a profile says, the allocation Argus proposes adds up to the whole, exactly, and
\* saving the profile accepts it (guide_profile_allocation, validate_target_allocation).
THEOREM GuidanceIsSound == ASSUME NEW p, PackAccepted(p.pack) PROVE SoundGuidance(p)
<1> DEFINE equity == GuidedEquity(p)
<1> DEFINE gold == Gold(p)
<1> DEFINE alternatives == p.pack.alternatives
<1> DEFINE share == p.pack.share
<1>1. Tenth(equity, 1500, 8500) /\ equity <= 9000 - gold - alternatives
  BY GuidedEquityIsTenth
<1>2. Tenth(gold, 250, 1250)
  BY GoldIsTenth
<1>3. Tenth(alternatives, 0, 500) /\ share \in Int /\ 15 <= share /\ share <= 40
  BY DEF PackAccepted
<1>4. GuidedAllocation(p) = Divided(equity, share, gold, alternatives)
  BY DEF GuidedAllocation, Divided
<1> HIDE DEF equity, gold, alternatives, share
<1>5. AllocationAccepted(Divided(equity, share, gold, alternatives))
  BY <1>1, <1>2, <1>3, PartsAreSound
<1> QED BY <1>4, <1>5 DEF SoundGuidance

-----------------------------------------------------------------------------
(* Market analyses: accounting and retention. A transaction decides what   *)
(* it prunes before it commits, and others commit in between. What it      *)
(* decided stays right because the three things it depends on only grow:   *)
(* the order of the runs, the set of the answered analyses and the set of  *)
(* the aged traces.                                                        *)

\* A request is answered when it is done, and has decided its outcome before it persists.
RepliesFollow ==
    \A a \in Analyses :
        /\ reply[a] = NoReply <=> phase[a] # "done"
        /\ phase[a] \in {"persist", "commit"} => outcome[a].code \in {200, Limited, Failed}

\* What a request has paid for by the phase it is in.
BillsFollow ==
    \A a \in Analyses :
        /\ spent[a].tokens <= spent[a].calls /\ spent[a].searchCost <= spent[a].searches
        /\ phase[a] \in {"new", "search", "gate", "answer"} => spent[a].calls = 0
        /\ phase[a] = "repair" => spent[a].calls = 1
        /\ phase[a] = "read" => spent[a].calls >= 1

\* A result or an error adds up to the bill of its request.
AddsUp(told, bill) ==
    /\ told.tokens = bill.tokens /\ told.cost = bill.searchCost + bill.tokens
    /\ told.code = 200 =>
          /\ told.searches = bill.searches /\ told.calls = bill.calls
          /\ told.modelCost = bill.tokens /\ bill.calls >= 1

\* analyze has counted what was billed until it raises, and what it told adds up.
TallyFollows ==
    \A a \in Analyses :
        /\ phase[a] \in {"new", "search", "gate", "answer", "repair", "read"} =>
              tally[a] = spent[a]
        /\ phase[a] \in {"persist", "commit"} => AddsUp(outcome[a], spent[a])

\* What a transaction is about to prune may be pruned once it has committed.
PrunedIsObsolete ==
    \A a \in Analyses : phase[a] = "commit" =>
        \A b \in pruned[a] :
            b \in aged \/ Cardinality(Newer(b, Recorded \cup {a})) >= KeepLatest

AnalysisInvariant ==
    /\ AnalysisTypeOK /\ RepliesFollow /\ BillsFollow /\ TallyFollows
    /\ AnsweredIsAccounted /\ PrunedIsObsolete /\ RetentionIsBounded

-----------------------------------------------------------------------------

\* Finitely many requests have begun.
LEMMA RunsAreFinite ==
    ASSUME NEW inTurn \in Seq(Analyses)
    PROVE  IsFiniteSet({inTurn[i] : i \in DOMAIN inTurn})
<1> DEFINE runs == {inTurn[i] : i \in 1..Len(inTurn)}
<1>1. IsFiniteSet(1..Len(inTurn))
  BY FS_Interval
<1>2. inTurn \in Surjection(1..Len(inTurn), runs)
  BY DEF Surjection
<1>3. IsFiniteSet(runs)
  BY <1>1, <1>2, FS_Surjection
<1>4. DOMAIN inTurn = 1..Len(inTurn)
  OBVIOUS
<1> QED BY <1>3, <1>4

LEMMA NoFewer ==
    ASSUME NEW few, NEW many, IsFiniteSet(many), few \subseteq many,
           Cardinality(few) >= KeepLatest
    PROVE  Cardinality(many) >= KeepLatest
<1>1. /\ IsFiniteSet(few) /\ Cardinality(few) <= Cardinality(many)
  BY FS_Subset
<1>2. Cardinality(few) \in Nat /\ Cardinality(many) \in Nat
  BY <1>1, FS_CardinalityType
<1> QED BY <1>1, <1>2, AnalysisAssumption

\* The trace of b may go once that of a is committed; it may go now.
MayGo(b, a) == b \in aged \/ Cardinality(Newer(b, Recorded \cup {a})) >= KeepLatest
MayBeGone(b) == b \in aged \/ Cardinality(Newer(b, Recorded)) >= KeepLatest

\* The history of the requests only grows.
HistoryGrows ==
    /\ begun \in Seq(Analyses) /\ begun' \in Seq(Analyses)
    /\ \A i \in DOMAIN begun : i \in DOMAIN begun' /\ begun'[i] = begun[i]
    /\ Recorded \subseteq Recorded'
    /\ aged \subseteq aged'

\* So what may be pruned stays so, and what was to go may be gone after the commit.
LEMMA ObsoleteStays ==
    ASSUME HistoryGrows, NEW a, NEW b
    PROVE  /\ MayGo(b, a) => MayGo(b, a)'
           /\ MayBeGone(b) => MayBeGone(b)'
           /\ MayGo(b, a) /\ a \in Recorded' => MayBeGone(b)'
<1>1. \A c : CreatedAfter(c, b) => CreatedAfter(c, b)'
  BY DEF HistoryGrows, CreatedAfter
<1>2. /\ Newer(b, Recorded \cup {a}) \subseteq Newer(b, Recorded \cup {a})'
      /\ Newer(b, Recorded) \subseteq Newer(b, Recorded)'
      /\ a \in Recorded' => Newer(b, Recorded \cup {a}) \subseteq Newer(b, Recorded)'
  BY <1>1 DEF HistoryGrows, Newer
<1>3. IsFiniteSet({begun'[i] : i \in DOMAIN begun'})
  BY RunsAreFinite DEF HistoryGrows
<1>4. /\ Newer(b, Recorded \cup {a})' \subseteq {begun'[i] : i \in DOMAIN begun'}
      /\ Newer(b, Recorded)' \subseteq {begun'[i] : i \in DOMAIN begun'}
  BY DEF Newer, CreatedAfter
<1>5. IsFiniteSet(Newer(b, Recorded \cup {a})') /\ IsFiniteSet(Newer(b, Recorded)')
  BY <1>3, <1>4, FS_Subset
<1>6. /\ Cardinality(Newer(b, Recorded \cup {a})) >= KeepLatest =>
            Cardinality(Newer(b, Recorded \cup {a})') >= KeepLatest
      /\ Cardinality(Newer(b, Recorded)) >= KeepLatest =>
            Cardinality(Newer(b, Recorded)') >= KeepLatest
      /\ a \in Recorded' /\ Cardinality(Newer(b, Recorded \cup {a})) >= KeepLatest =>
            Cardinality(Newer(b, Recorded)') >= KeepLatest
  BY <1>2, <1>5, NoFewer
<1> QED BY <1>6 DEF MayGo, MayBeGone, HistoryGrows

-----------------------------------------------------------------------------

LEMMA AnalysisStarts == AnalysisInit => AnalysisInvariant
<1> SUFFICES ASSUME AnalysisInit PROVE AnalysisInvariant
  OBVIOUS
<1> USE AnalysisAssumption DEF AnalysisInit
<1>1. Nothing \in Bills /\ NoRow \in Rows /\ NoUsage \in UsageRows /\ NoOutcome \in Outcomes
  BY DEF Nothing, NoRow, NoUsage, NoOutcome, Error, Bills, Rows, UsageRows, Outcomes
<1>2. AnalysisTypeOK
  BY <1>1 DEF AnalysisTypeOK, Phases
<1>3. RepliesFollow /\ BillsFollow /\ TallyFollows /\ PrunedIsObsolete
  BY DEF RepliesFollow, BillsFollow, TallyFollows, PrunedIsObsolete, Nothing
<1>4. Recorded = {}
  BY DEF Recorded
<1> QED
  BY <1>2, <1>3, <1>4 DEF AnalysisInvariant, AnsweredIsAccounted, RetentionIsBounded

\* One of the steps that neither prune nor commit.
Progresses(a) ==
    \/ RefuseAnalysis(a) \/ CreateTrace(a) \/ Search(a) \/ JudgeEvidence(a)
    \/ Generate(a) \/ UnreadableResponse(a) \/ ReadWatchlist(a) \/ DatabaseFails(a)
    \/ GrowOld(a)

\* The bill of one search, and of one model call.
CallBills == [searches : {0, 1}, searchCost : {0, 1}, calls : {0, 1}, tokens : {0, 1}]

LEMMA CallsAreBilled ==
    ASSUME NEW n \in {0, 1}
    PROVE  Searched(n) \in CallBills /\ Called(n) \in CallBills
BY DEF Searched, Called, CallBills

\* The items of the sum of two bills.
LEMMA PlusAdds ==
    ASSUME NEW bill \in Bills, NEW more \in CallBills
    PROVE  Plus(bill, more) = [searches |-> bill.searches + more.searches,
                               searchCost |-> bill.searchCost + more.searchCost,
                               calls |-> bill.calls + more.calls,
                               tokens |-> bill.tokens + more.tokens]
<1>1. DOMAIN bill = {"searches", "searchCost", "calls", "tokens"}
  BY DEF Bills
<1> QED BY <1>1 DEF Plus

\* A call fits when a bill with it keeps within the limits.
Fits(bill, more) ==
    /\ bill.searches + more.searches <= SearchLimit
    /\ bill.searchCost + more.searchCost <= SearchLimit
    /\ bill.calls + more.calls <= 2
    /\ more.tokens <= more.calls /\ more.searchCost <= more.searches

LEMMA PlusIsABill ==
    ASSUME NEW bill \in Bills, NEW more \in CallBills, Fits(bill, more),
           bill.tokens <= bill.calls, bill.searchCost <= bill.searches
    PROVE  /\ Plus(bill, more) \in Bills
           /\ Plus(bill, more).tokens <= Plus(bill, more).calls
           /\ Plus(bill, more).searchCost <= Plus(bill, more).searches
           /\ Plus(bill, more).calls = bill.calls + more.calls
<1>1. Plus(bill, more) = [searches |-> bill.searches + more.searches,
                          searchCost |-> bill.searchCost + more.searchCost,
                          calls |-> bill.calls + more.calls,
                          tokens |-> bill.tokens + more.tokens]
  BY PlusAdds
<1>2. /\ bill.searches \in 0..SearchLimit /\ bill.searchCost \in 0..SearchLimit
      /\ bill.calls \in 0..2 /\ bill.tokens \in 0..2
  BY DEF Bills
<1>3. /\ more.searches \in {0, 1} /\ more.searchCost \in {0, 1} /\ more.calls \in {0, 1}
      /\ more.tokens \in {0, 1}
  BY DEF CallBills
<1>4. /\ bill.searches + more.searches \in 0..SearchLimit
      /\ bill.searchCost + more.searchCost \in 0..SearchLimit
      /\ bill.calls + more.calls \in 0..2 /\ bill.tokens + more.tokens \in 0..2
      /\ bill.tokens + more.tokens <= bill.calls + more.calls
      /\ bill.searchCost + more.searchCost <= bill.searches + more.searches
  BY <1>2, <1>3, AnalysisAssumption DEF Fits
<1> QED BY <1>1, <1>4 DEF Bills

\* What every such step leaves alone: the rows, what is to be pruned, who was answered.
WorkLeaves(a) ==
    /\ UNCHANGED <<traces, recorded, pruned, usage>>
    /\ \A b \in Analyses : phase'[b] = "commit" => phase[b] = "commit"
    /\ Recorded' = Recorded
    /\ \A b \in Recorded : spent'[b] = spent[b] /\ reply'[b] = reply[b]
    /\ aged \subseteq aged'
    /\ begun' = begun \/ begun' = Append(begun, a)

StepsWell == AnalysisTypeOK' /\ RepliesFollow' /\ BillsFollow' /\ TallyFollows'

\* The bill, the count and the decision of a request after a step to phase next.
KeepsAccount(next, bill, counted, told) ==
    /\ bill \in Bills /\ counted \in Bills /\ told \in Outcomes
    /\ bill.tokens <= bill.calls /\ bill.searchCost <= bill.searches
    /\ next \in {"search", "gate", "answer"} => bill.calls = 0
    /\ next = "repair" => bill.calls = 1
    /\ next = "read" => bill.calls >= 1
    /\ next # "persist" => counted = bill
    /\ next = "persist" => told.code \in {200, Limited, Failed} /\ AddsUp(told, bill)

\* A request goes on to another phase, and decides its outcome before it persists.
GoesOn(a, next, bill, counted, told) ==
    /\ phase[a] # "done"
    /\ phase' = [phase EXCEPT ![a] = next]
    /\ spent' = [spent EXCEPT ![a] = bill]
    /\ tally' = [tally EXCEPT ![a] = counted]
    /\ outcome' = [outcome EXCEPT ![a] = told]
    /\ supported' \subseteq Analyses
    /\ UNCHANGED <<begun, traces, recorded, pruned, usage, aged, reply, faults>>

LEMMA GoingOnKeeps ==
    ASSUME AnalysisTypeOK, RepliesFollow, BillsFollow, TallyFollows, NEW a \in Analyses,
           NEW next \in Phases \ {"new", "commit", "done"}, NEW bill, NEW counted, NEW told,
           KeepsAccount(next, bill, counted, told), GoesOn(a, next, bill, counted, told)
    PROVE  StepsWell /\ WorkLeaves(a)
<1>1. /\ phase' \in [Analyses -> Phases] /\ phase'[a] = next
      /\ \A b \in Analyses \ {a} : phase'[b] = phase[b]
  BY DEF AnalysisTypeOK, GoesOn
<1>2. /\ outcome' \in [Analyses -> Outcomes] /\ outcome'[a] = told
      /\ \A b \in Analyses \ {a} : outcome'[b] = outcome[b]
  BY DEF AnalysisTypeOK, GoesOn, KeepsAccount
<1>3. /\ spent' \in [Analyses -> Bills] /\ spent'[a] = bill
      /\ \A b \in Analyses \ {a} : spent'[b] = spent[b]
  BY DEF AnalysisTypeOK, GoesOn, KeepsAccount
<1>4. /\ tally' \in [Analyses -> Bills] /\ tally'[a] = counted
      /\ \A b \in Analyses \ {a} : tally'[b] = tally[b]
  BY DEF AnalysisTypeOK, GoesOn, KeepsAccount
<1>5. AnalysisTypeOK'
  BY <1>1, <1>2, <1>3, <1>4 DEF AnalysisTypeOK, GoesOn
<1>6. RepliesFollow'
  BY <1>1, <1>2 DEF RepliesFollow, GoesOn, KeepsAccount
<1>7. BillsFollow'
  BY <1>1, <1>3 DEF BillsFollow, KeepsAccount
<1>8. TallyFollows'
  <2> SUFFICES ASSUME NEW b \in Analyses
               PROVE  /\ phase'[b] \in {"new", "search", "gate", "answer", "repair", "read"} =>
                            tally'[b] = spent'[b]
                      /\ phase'[b] \in {"persist", "commit"} => AddsUp(outcome'[b], spent'[b])
    BY DEF TallyFollows
  <2>1. CASE b = a
    BY <1>1, <1>2, <1>3, <1>4, <2>1 DEF KeepsAccount
  <2>2. CASE b # a
    BY <1>1, <1>2, <1>3, <1>4, <2>2 DEF TallyFollows
  <2> QED BY <2>1, <2>2
<1>9. Recorded' = Recorded /\ a \notin Recorded
  BY AnalysisAssumption DEF RepliesFollow, GoesOn, Recorded
<1>10. WorkLeaves(a)
  BY <1>1, <1>3, <1>9 DEF WorkLeaves, GoesOn, Recorded
<1> QED BY <1>5, <1>6, <1>7, <1>8, <1>10 DEF StepsWell

\* A rolled back request is answered and leaves everything but its bill alone.
RolledBack(a, code) ==
    /\ phase[a] # "done" /\ Answer(a, code) /\ faults' \in 0..MaxFaults
    /\ spent' \in [Analyses -> Bills] /\ spent'[a].tokens <= spent'[a].calls
    /\ spent'[a].searchCost <= spent'[a].searches
    /\ \A b \in Analyses \ {a} : spent'[b] = spent[b]
    /\ UNCHANGED <<begun, tally, supported, outcome, traces, recorded, pruned, usage, aged>>

LEMMA RollbackKeeps ==
    ASSUME AnalysisTypeOK, RepliesFollow, BillsFollow, TallyFollows, NEW a \in Analyses,
           NEW code \in {422, 500}, RolledBack(a, code)
    PROVE  StepsWell /\ WorkLeaves(a)
<1>1. /\ reply'[a] = code /\ phase'[a] = "done"
      /\ \A b \in Analyses \ {a} : reply'[b] = reply[b] /\ phase'[b] = phase[b]
      /\ reply' \in [Analyses -> {200, 422, 429, 500, 502, NoReply}]
      /\ phase' \in [Analyses -> Phases]
  BY DEF AnalysisTypeOK, RolledBack, Answer, Phases
<1>2. AnalysisTypeOK'
  BY <1>1 DEF AnalysisTypeOK, RolledBack
<1>3. RepliesFollow'
  BY <1>1, AnalysisAssumption DEF RepliesFollow, RolledBack
<1>4. BillsFollow'
  BY <1>1 DEF BillsFollow, RolledBack
<1>5. TallyFollows'
  BY <1>1 DEF TallyFollows, RolledBack
<1>6. Recorded' = Recorded /\ a \notin Recorded
  <2>1. reply[a] \notin {200, 429, 502} /\ reply'[a] \notin {200, 429, 502}
    BY <1>1, AnalysisAssumption DEF RepliesFollow, RolledBack
  <2> QED BY <1>1, <2>1 DEF Recorded
<1>7. WorkLeaves(a)
  BY <1>1, <1>6 DEF WorkLeaves, RolledBack, Recorded
<1> QED BY <1>2, <1>3, <1>4, <1>5, <1>7 DEF StepsWell

\* What is billed to a request at work is within its limits, and counted.
LEMMA WorkIsCounted ==
    ASSUME AnalysisTypeOK, BillsFollow, TallyFollows, NEW a \in Analyses
    PROVE  /\ spent[a] \in Bills /\ tally[a] \in Bills /\ outcome[a] \in Outcomes
           /\ spent[a].tokens <= spent[a].calls /\ spent[a].searchCost <= spent[a].searches
           /\ phase[a] \in {"search", "gate", "answer", "repair", "read"} => tally[a] = spent[a]
           /\ phase[a] \in {"search", "gate", "answer"} => spent[a].calls = 0
           /\ phase[a] = "repair" => spent[a].calls = 1
BY DEF AnalysisTypeOK, BillsFollow, TallyFollows

\* The errors and the result of a request that counted its bill add up.
LEMMA OutcomesAddUp ==
    ASSUME NEW bill \in Bills
    PROVE  /\ \A code \in {Limited, Failed} :
                 /\ ModelError(code, bill) \in Outcomes /\ ModelError(code, bill).code = code
                 /\ AddsUp(ModelError(code, bill), bill)
           /\ \A code \in {Limited, Failed} : bill.tokens = 0 =>
                 /\ Error(code, 0, bill.searchCost) \in Outcomes
                 /\ Error(code, 0, bill.searchCost).code = code
                 /\ AddsUp(Error(code, 0, bill.searchCost), bill)
           /\ Result(bill) \in Outcomes /\ Result(bill).code = 200
           /\ bill.calls >= 1 => AddsUp(Result(bill), bill)
<1>1. /\ bill.searches \in 0..SearchLimit /\ bill.searchCost \in 0..SearchLimit
      /\ bill.calls \in 0..2 /\ bill.tokens \in 0..2
  BY DEF Bills
<1>2. bill.searchCost + bill.tokens \in 0..SearchLimit + 2
      /\ bill.searchCost \in 0..SearchLimit + 2 /\ 0 \in 0..2 /\ 0 \in 0..SearchLimit
  BY <1>1, AnalysisAssumption
<1>3. Limited # 200 /\ Failed # 200
  BY DEF Limited, Failed
<1> QED BY <1>1, <1>2, <1>3 DEF ModelError, Error, Result, Outcomes, AddsUp

LEMMA SearchingKeeps ==
    ASSUME AnalysisTypeOK, RepliesFollow, BillsFollow, TallyFollows, NEW a \in Analyses,
           Search(a)
    PROVE  StepsWell /\ WorkLeaves(a)
<1>1. /\ phase[a] = "search" /\ tally[a].searches < SearchLimit /\ supported' = supported
      /\ UNCHANGED <<begun, traces, recorded, pruned, usage, aged, reply, faults>>
  BY DEF Search, Proceed, Record
<1>2. /\ spent[a] \in Bills /\ tally[a] = spent[a] /\ outcome[a] \in Outcomes
      /\ spent[a].calls = 0 /\ spent[a].tokens <= spent[a].calls
      /\ spent[a].searchCost <= spent[a].searches
  BY <1>1, WorkIsCounted
<1>3. ASSUME NEW charge \in {0, 1}
      PROVE  /\ Plus(spent[a], Searched(charge)) \in Bills
             /\ Plus(spent[a], Searched(charge)).tokens = 0
             /\ Plus(spent[a], Searched(charge)).calls = 0
             /\ Plus(spent[a], Searched(charge)).searchCost = spent[a].searchCost + charge
             /\ Plus(spent[a], Searched(charge)).searchCost <=
                   Plus(spent[a], Searched(charge)).searches
  <2>1. Plus(spent[a], Searched(charge)) =
           [searches |-> spent[a].searches + 1, searchCost |-> spent[a].searchCost + charge,
            calls |-> spent[a].calls + 0, tokens |-> spent[a].tokens + 0]
    BY <1>2, CallsAreBilled, PlusAdds DEF Searched
  <2>2. /\ spent[a].searches \in 0..SearchLimit /\ spent[a].searchCost \in 0..SearchLimit
        /\ spent[a].tokens \in 0..2
    BY <1>2 DEF Bills
  <2>3. /\ spent[a].searches + 1 \in 0..SearchLimit
        /\ spent[a].searchCost + charge \in 0..SearchLimit
        /\ spent[a].searchCost + charge <= spent[a].searches + 1
        /\ spent[a].tokens = 0
    BY <1>1, <1>2, <2>2, AnalysisAssumption
  <2> QED BY <1>2, <2>1, <2>3 DEF Bills
<1>4. CASE /\ Pay(a, Searched(1)) /\ Count(a, Searched(1)) /\ UNCHANGED outcome
           /\ Proceed(a, IF tally[a].searches + 1 = SearchLimit THEN "gate" ELSE "search")
  <2>1. PICK next \in {"gate", "search"} : phase' = [phase EXCEPT ![a] = next]
    BY <1>4 DEF Proceed
  <2>2. KeepsAccount(next, Plus(spent[a], Searched(1)), Plus(spent[a], Searched(1)), outcome[a])
    BY <1>2, <1>3 DEF KeepsAccount
  <2>3. /\ spent' = [spent EXCEPT ![a] = Plus(spent[a], Searched(1))]
        /\ tally' = [tally EXCEPT ![a] = Plus(spent[a], Searched(1))]
        /\ outcome' = [outcome EXCEPT ![a] = outcome[a]]
    BY <1>2, <1>4 DEF Pay, Count, AnalysisTypeOK
  <2>4. GoesOn(a, next, Plus(spent[a], Searched(1)), Plus(spent[a], Searched(1)), outcome[a])
    BY <1>1, <2>1, <2>3 DEF GoesOn, AnalysisTypeOK
  <2> QED BY <2>2, <2>4, GoingOnKeeps DEF Phases
<1>5. ASSUME NEW charge \in {0, 1}, NEW code \in {Limited, Failed},
             Pay(a, Searched(charge)), UNCHANGED tally,
             Record(a, Error(code, 0, ErrorCost(a, charge)))
      PROVE  StepsWell /\ WorkLeaves(a)
  <2> DEFINE bill == Plus(spent[a], Searched(charge))
  <2>1. /\ bill \in Bills /\ bill.tokens = 0 /\ bill.calls = 0
        /\ bill.searchCost = spent[a].searchCost + charge /\ bill.searchCost <= bill.searches
    BY <1>3
  <2>2. /\ spent' = [spent EXCEPT ![a] = bill]
        /\ tally' = [tally EXCEPT ![a] = tally[a]]
    BY <1>5 DEF Pay, AnalysisTypeOK
  <2> HIDE DEF bill
  <2>3. ErrorCost(a, charge) = bill.searchCost
    BY <1>2, <2>1 DEF ErrorCost
  <2> DEFINE told == Error(code, 0, bill.searchCost)
  <2>4. phase' = [phase EXCEPT ![a] = "persist"] /\ outcome' = [outcome EXCEPT ![a] = told]
    BY <1>5, <2>3 DEF Record, Proceed
  <2>5. told \in Outcomes /\ told.code \in {200, Limited, Failed} /\ AddsUp(told, bill)
    BY <2>1, OutcomesAddUp
  <2> HIDE DEF told
  <2>6. KeepsAccount("persist", bill, tally[a], told)
    BY <1>2, <2>1, <2>5 DEF KeepsAccount
  <2>7. GoesOn(a, "persist", bill, tally[a], told)
    BY <1>1, <2>2, <2>4 DEF GoesOn, AnalysisTypeOK
  <2> QED BY <2>6, <2>7, GoingOnKeeps DEF Phases
<1> QED BY <1>4, <1>5 DEF Search

LEMMA JudgingKeeps ==
    ASSUME AnalysisTypeOK, RepliesFollow, BillsFollow, TallyFollows, NEW a \in Analyses,
           JudgeEvidence(a)
    PROVE  StepsWell /\ WorkLeaves(a)
<1>1. /\ phase[a] = "gate" /\ UNCHANGED <<spent, tally>> /\ supported' \subseteq Analyses
      /\ UNCHANGED <<begun, traces, recorded, pruned, usage, aged, reply, faults>>
  BY DEF JudgeEvidence, Proceed, Record, AnalysisTypeOK
<1>2. /\ spent[a] \in Bills /\ tally[a] = spent[a] /\ outcome[a] \in Outcomes
      /\ spent[a].calls = 0 /\ spent[a].tokens <= spent[a].calls
      /\ spent[a].searchCost <= spent[a].searches
  BY <1>1, WorkIsCounted
<1>3. /\ spent' = [spent EXCEPT ![a] = spent[a]] /\ tally' = [tally EXCEPT ![a] = spent[a]]
      /\ spent[a].tokens = 0
  BY <1>1, <1>2 DEF AnalysisTypeOK, Bills
<1>4. CASE Proceed(a, "answer") /\ UNCHANGED outcome
  <2>1. KeepsAccount("answer", spent[a], spent[a], outcome[a])
    BY <1>2 DEF KeepsAccount
  <2>2. outcome' = [outcome EXCEPT ![a] = outcome[a]]
    BY <1>4 DEF AnalysisTypeOK
  <2>3. GoesOn(a, "answer", spent[a], spent[a], outcome[a])
    BY <1>1, <1>3, <1>4, <2>2 DEF GoesOn, Proceed
  <2> QED BY <2>1, <2>3, GoingOnKeeps DEF Phases
<1>5. CASE Record(a, Error(Failed, 0, tally[a].searchCost))
  <2> DEFINE told == Error(Failed, 0, spent[a].searchCost)
  <2>1. told \in Outcomes /\ told.code \in {200, Limited, Failed} /\ AddsUp(told, spent[a])
    BY <1>2, <1>3, OutcomesAddUp
  <2>2. phase' = [phase EXCEPT ![a] = "persist"] /\ outcome' = [outcome EXCEPT ![a] = told]
    BY <1>2, <1>5 DEF Record, Proceed
  <2> HIDE DEF told
  <2>3. KeepsAccount("persist", spent[a], spent[a], told)
    BY <1>2, <2>1 DEF KeepsAccount
  <2>4. GoesOn(a, "persist", spent[a], spent[a], told)
    BY <1>1, <1>3, <2>2 DEF GoesOn
  <2> QED BY <2>3, <2>4, GoingOnKeeps DEF Phases
<1> QED BY <1>4, <1>5 DEF JudgeEvidence

\* A model call is counted in the bill of a request that may still pay for it.
LEMMA CallFits ==
    ASSUME AnalysisTypeOK, BillsFollow, TallyFollows, NEW a \in Analyses,
           phase[a] \in {"answer", "repair"}, NEW tokens \in {0, 1}
    PROVE  /\ Plus(spent[a], Called(tokens)) \in Bills
           /\ Plus(spent[a], Called(tokens)).tokens <= Plus(spent[a], Called(tokens)).calls
           /\ Plus(spent[a], Called(tokens)).searchCost <=
                 Plus(spent[a], Called(tokens)).searches
           /\ Plus(spent[a], Called(tokens)).calls = IF phase[a] = "answer" THEN 1 ELSE 2
<1>1. /\ spent[a] \in Bills /\ spent[a].tokens <= spent[a].calls
      /\ spent[a].searchCost <= spent[a].searches
      /\ spent[a].calls = IF phase[a] = "answer" THEN 0 ELSE 1
  BY WorkIsCounted
<1>2. Called(tokens) \in CallBills /\ Called(tokens).calls = 1
  BY CallsAreBilled DEF Called
<1>3. Fits(spent[a], Called(tokens))
  BY <1>1, AnalysisAssumption DEF Fits, Called, Bills
<1> QED BY <1>1, <1>2, <1>3, PlusIsABill

LEMMA GeneratingKeeps ==
    ASSUME AnalysisTypeOK, RepliesFollow, BillsFollow, TallyFollows, NEW a \in Analyses,
           Generate(a)
    PROVE  StepsWell /\ WorkLeaves(a)
<1>1. /\ phase[a] \in {"answer", "repair"} /\ supported' = supported
      /\ UNCHANGED <<begun, traces, recorded, pruned, usage, aged, reply, faults>>
  BY DEF Generate, Proceed, Record
<1>2. spent[a] \in Bills /\ tally[a] = spent[a] /\ outcome[a] \in Outcomes
  BY <1>1, WorkIsCounted
<1>3. PICK tokens \in {0, 1} :
        /\ Pay(a, Called(tokens)) /\ Count(a, Called(tokens))
        /\ \/ Proceed(a, "read") /\ UNCHANGED outcome
           \/ phase[a] = "answer" /\ Proceed(a, "repair") /\ UNCHANGED outcome
           \/ \E code \in {Limited, Failed} :
                 Record(a, ModelError(code, Plus(tally[a], Called(tokens))))
  BY DEF Generate
<1> DEFINE bill == Plus(spent[a], Called(tokens))
<1>4. /\ bill \in Bills /\ bill.tokens <= bill.calls /\ bill.searchCost <= bill.searches
      /\ bill.calls = IF phase[a] = "answer" THEN 1 ELSE 2
  BY <1>1, CallFits
<1>5. spent' = [spent EXCEPT ![a] = bill] /\ tally' = [tally EXCEPT ![a] = bill]
  BY <1>2, <1>3 DEF Pay, Count
<1>6. Plus(tally[a], Called(tokens)) = bill
  BY <1>2
<1> HIDE DEF bill
<1>7. ASSUME NEW next \in {"read", "repair"}, next = "repair" => phase[a] = "answer",
             Proceed(a, next), UNCHANGED outcome
      PROVE  StepsWell /\ WorkLeaves(a)
  <2>1. KeepsAccount(next, bill, bill, outcome[a])
    BY <1>2, <1>4, <1>7 DEF KeepsAccount
  <2>2. outcome' = [outcome EXCEPT ![a] = outcome[a]]
    BY <1>7 DEF AnalysisTypeOK
  <2>3. GoesOn(a, next, bill, bill, outcome[a])
    BY <1>1, <1>5, <1>7, <2>2 DEF GoesOn, Proceed, AnalysisTypeOK
  <2> QED BY <2>1, <2>3, GoingOnKeeps DEF Phases
<1>8. ASSUME NEW code \in {Limited, Failed}, Record(a, ModelError(code, bill))
      PROVE  StepsWell /\ WorkLeaves(a)
  <2> DEFINE told == ModelError(code, bill)
  <2>1. told \in Outcomes /\ told.code \in {200, Limited, Failed} /\ AddsUp(told, bill)
    BY <1>4, OutcomesAddUp
  <2>2. phase' = [phase EXCEPT ![a] = "persist"] /\ outcome' = [outcome EXCEPT ![a] = told]
    BY <1>8 DEF Record, Proceed
  <2> HIDE DEF told
  <2>3. KeepsAccount("persist", bill, bill, told)
    BY <1>4, <2>1 DEF KeepsAccount
  <2>4. GoesOn(a, "persist", bill, bill, told)
    BY <1>1, <1>5, <2>2 DEF GoesOn, AnalysisTypeOK
  <2> QED BY <2>3, <2>4, GoingOnKeeps DEF Phases
<1> QED BY <1>3, <1>6, <1>7, <1>8

LEMMA ReadingKeeps ==
    ASSUME AnalysisTypeOK, RepliesFollow, BillsFollow, TallyFollows, NEW a \in Analyses,
           phase[a] = "read", Record(a, Result(tally[a])), UNCHANGED <<spent, tally, supported>>
    PROVE  StepsWell /\ WorkLeaves(a)
<1>1. /\ spent[a] \in Bills /\ tally[a] = spent[a] /\ spent[a].tokens <= spent[a].calls
      /\ spent[a].searchCost <= spent[a].searches /\ spent[a].calls >= 1
  BY WorkIsCounted DEF BillsFollow
<1> DEFINE told == Result(spent[a])
<1>2. told \in Outcomes /\ told.code \in {200, Limited, Failed} /\ AddsUp(told, spent[a])
  BY <1>1, OutcomesAddUp
<1>3. phase' = [phase EXCEPT ![a] = "persist"] /\ outcome' = [outcome EXCEPT ![a] = told]
  BY <1>1 DEF Record, Proceed
<1> HIDE DEF told
<1>4. KeepsAccount("persist", spent[a], spent[a], told)
  BY <1>1, <1>2 DEF KeepsAccount
<1>5. spent' = [spent EXCEPT ![a] = spent[a]] /\ tally' = [tally EXCEPT ![a] = spent[a]]
  BY <1>1 DEF AnalysisTypeOK
<1>6. GoesOn(a, "persist", spent[a], spent[a], told)
  BY <1>3, <1>5 DEF GoesOn, Record, Proceed, AnalysisTypeOK
<1> QED BY <1>4, <1>6, GoingOnKeeps DEF Phases

LEMMA WorkKeeps ==
    ASSUME AnalysisTypeOK, RepliesFollow, BillsFollow, TallyFollows, NEW a \in Analyses,
           Progresses(a)
    PROVE  StepsWell /\ WorkLeaves(a)
<1>1. ASSUME RefuseAnalysis(a) \/ DatabaseFails(a) \/ (ReadWatchlist(a) /\ Answer(a, 500))
      PROVE  StepsWell /\ WorkLeaves(a)
  <2>1. spent' = spent /\ (Answer(a, 422) \/ Answer(a, 500)) /\ phase[a] # "done"
        /\ UNCHANGED <<begun, tally, supported, outcome, traces, recorded, pruned, usage, aged>>
        /\ faults' \in 0..MaxFaults
    BY <1>1, AnalysisAssumption DEF RefuseAnalysis, ReadWatchlist, DatabaseFails, AnalysisTypeOK,
                                    Record, Proceed, Answer
  <2>2. RolledBack(a, 422) \/ RolledBack(a, 500)
    BY <2>1 DEF RolledBack, AnalysisTypeOK, BillsFollow
  <2> QED BY <2>2, RollbackKeeps
<1>2. CASE GrowOld(a)
  <2>1. UNCHANGED <<phase, begun, spent, tally, supported, outcome, traces, recorded, pruned,
                    usage, reply, faults>>
        /\ aged \subseteq aged' /\ aged' \subseteq Analyses
    BY <1>2 DEF GrowOld, AnalysisTypeOK
  <2>2. AnalysisTypeOK' /\ RepliesFollow' /\ BillsFollow' /\ TallyFollows'
    BY <2>1 DEF AnalysisTypeOK, RepliesFollow, BillsFollow, TallyFollows
  <2>3. WorkLeaves(a)
    BY <2>1 DEF WorkLeaves, Recorded
  <2> QED BY <2>2, <2>3 DEF StepsWell
<1>3. CASE CreateTrace(a)
  <2>1. /\ phase' \in [Analyses -> Phases] /\ phase'[a] = "search" /\ phase[a] = "new"
        /\ \A b \in Analyses \ {a} : phase'[b] = phase[b]
        /\ begun' \in Seq(Analyses) /\ begun' = Append(begun, a)
        /\ UNCHANGED <<spent, tally, supported, outcome, traces, recorded, pruned, usage, aged,
                       reply, faults>>
    BY <1>3 DEF CreateTrace, AnalysisTypeOK, Phases
  <2>2. AnalysisTypeOK' /\ RepliesFollow' /\ BillsFollow' /\ TallyFollows'
    BY <2>1 DEF AnalysisTypeOK, RepliesFollow, BillsFollow, TallyFollows
  <2>3. WorkLeaves(a)
    BY <2>1 DEF WorkLeaves, Recorded
  <2> QED BY <2>2, <2>3 DEF StepsWell
<1>4. CASE UnreadableResponse(a)
  <2>1. PICK tokens \in {0, 1} : Pay(a, Called(tokens))
    BY <1>4 DEF UnreadableResponse
  <2>2. phase[a] \in {"answer", "repair"}
    BY <1>4 DEF UnreadableResponse
  <2> DEFINE bill == Plus(spent[a], Called(tokens))
  <2>3. bill \in Bills /\ bill.tokens <= bill.calls /\ bill.searchCost <= bill.searches
    BY <2>2, CallFits
  <2>4. spent' = [spent EXCEPT ![a] = bill]
    BY <2>1 DEF Pay
  <2> HIDE DEF bill
  <2>5. /\ spent' \in [Analyses -> Bills] /\ spent'[a] = bill
        /\ \A b \in Analyses \ {a} : spent'[b] = spent[b]
    BY <2>3, <2>4 DEF AnalysisTypeOK
  <2>6. RolledBack(a, 500)
    BY <1>4, <2>2, <2>3, <2>5 DEF RolledBack, UnreadableResponse, AnalysisTypeOK
  <2> QED BY <2>6, RollbackKeeps
<1> QED
  BY <1>1, <1>2, <1>3, <1>4, SearchingKeeps, JudgingKeeps, GeneratingKeeps, ReadingKeeps
  DEF Progresses, ReadWatchlist
-----------------------------------------------------------------------------

\* A step that only works on a request keeps the accounts and the retention.
LEMMA WorkKeepsAll ==
    ASSUME AnalysisInvariant, NEW a \in Analyses, Progresses(a) PROVE AnalysisInvariant'
<1> USE DEF AnalysisInvariant
<1>1. StepsWell /\ WorkLeaves(a)
  BY WorkKeeps
<1>2. HistoryGrows
  <2>1. begun \in Seq(Analyses) /\ begun' \in Seq(Analyses)
    BY <1>1 DEF StepsWell, AnalysisTypeOK
  <2>2. \A i \in DOMAIN begun : i \in DOMAIN begun' /\ begun'[i] = begun[i]
    BY <1>1, <2>1 DEF WorkLeaves
  <2> QED BY <1>1, <2>1, <2>2 DEF HistoryGrows, WorkLeaves
<1>3. AnsweredIsAccounted'
  <2>1. UNCHANGED <<traces, recorded, usage>> /\ Recorded' = Recorded
        /\ \A b \in Recorded : spent'[b] = spent[b] /\ reply'[b] = reply[b]
    BY <1>1 DEF WorkLeaves
  <2> QED BY <2>1 DEF AnsweredIsAccounted
<1>4. PrunedIsObsolete'
  <2> SUFFICES ASSUME NEW b \in Analyses, phase'[b] = "commit", NEW c \in pruned'[b]
               PROVE  MayGo(c, b)'
    BY DEF PrunedIsObsolete, MayGo
  <2>1. phase[b] = "commit" /\ pruned' = pruned
    BY <1>1 DEF WorkLeaves
  <2>2. MayGo(c, b)
    BY <2>1 DEF PrunedIsObsolete, MayGo
  <2> QED BY <1>2, <2>2, ObsoleteStays
<1>5. RetentionIsBounded'
  <2> SUFFICES ASSUME NEW b \in Recorded' \ traces' PROVE MayBeGone(b)'
    BY DEF RetentionIsBounded, MayBeGone
  <2>1. MayBeGone(b)
    BY <1>1 DEF WorkLeaves, RetentionIsBounded, MayBeGone
  <2> QED BY <1>2, <2>1, ObsoleteStays
<1> QED BY <1>1, <1>3, <1>4, <1>5 DEF StepsWell

\* The transaction sees its own trace and what is committed, all of it answered.
LEMMA PersistKeeps ==
    ASSUME AnalysisInvariant, NEW a \in Analyses, Persist(a) PROVE AnalysisInvariant'
<1> USE DEF AnalysisInvariant
<1>1. /\ phase' \in [Analyses -> Phases] /\ phase[a] = "persist" /\ phase'[a] = "commit"
      /\ \A b \in Analyses \ {a} : phase'[b] = phase[b]
      /\ UNCHANGED <<begun, spent, tally, supported, outcome, traces, recorded, usage, aged,
                     reply, faults>>
  BY DEF Persist, AnalysisTypeOK, Phases
<1>2. /\ pruned'[a] = Obsolete(traces \cup {a})
      /\ \A b \in Analyses \ {a} : pruned'[b] = pruned[b]
      /\ pruned' \in [Analyses -> SUBSET Analyses]
  BY DEF Persist, AnalysisTypeOK, Obsolete
<1>3. AnalysisTypeOK' /\ RepliesFollow' /\ BillsFollow' /\ TallyFollows'
  BY <1>1, <1>2 DEF AnalysisTypeOK, RepliesFollow, BillsFollow, TallyFollows
<1>4. AnsweredIsAccounted' /\ RetentionIsBounded' /\ Recorded' = Recorded
  BY <1>1 DEF AnsweredIsAccounted, RetentionIsBounded, Recorded, Newer, CreatedAfter
<1>5. \A b \in Obsolete(traces \cup {a}) : MayGo(b, a)
  <2> SUFFICES ASSUME NEW b \in Obsolete(traces \cup {a}), b \notin aged
               PROVE  Cardinality(Newer(b, Recorded \cup {a})) >= KeepLatest
    BY DEF MayGo
  <2>1. Cardinality(Newer(b, traces \cup {a})) >= KeepLatest
    BY DEF Obsolete
  <2>2. traces \subseteq Recorded
    BY DEF AnsweredIsAccounted, AnalysisTypeOK
  <2>3. Newer(b, traces \cup {a}) \subseteq Newer(b, Recorded \cup {a})
    BY <2>2 DEF Newer
  <2>4. IsFiniteSet(Newer(b, Recorded \cup {a}))
    <3>1. IsFiniteSet({begun[i] : i \in DOMAIN begun})
      BY RunsAreFinite DEF AnalysisTypeOK
    <3>2. Newer(b, Recorded \cup {a}) \subseteq {begun[i] : i \in DOMAIN begun}
      BY DEF Newer, CreatedAfter
    <3> QED BY <3>1, <3>2, FS_Subset
  <2> QED BY <2>1, <2>3, <2>4, NoFewer
<1>6. PrunedIsObsolete'
  <2> SUFFICES ASSUME NEW b \in Analyses, phase'[b] = "commit", NEW c \in pruned'[b]
               PROVE  MayGo(c, b)'
    BY DEF PrunedIsObsolete, MayGo
  <2>1. MayGo(c, b)
    BY <1>1, <1>2, <1>5 DEF PrunedIsObsolete, MayGo
  <2>2. HistoryGrows
    BY <1>1, <1>3, <1>4 DEF HistoryGrows, AnalysisTypeOK
  <2> QED BY <2>1, <2>2, ObsoleteStays
<1> QED BY <1>3, <1>4, <1>6

\* The rows of an outcome that adds up to a bill.
LEMMA RowsAddUp ==
    ASSUME NEW told \in Outcomes, NEW bill \in Bills, AddsUp(told, bill),
           bill.tokens <= bill.calls
    PROVE  /\ RunRow(told) \in Rows /\ UsageRow(told) \in UsageRows
           /\ RunRow(told).status = "complete" <=> told.code = 200
           /\ RunRow(told).tokens = bill.tokens
           /\ RunRow(told).cost = bill.searchCost + bill.tokens
           /\ UsageRow(told).tokens = bill.tokens
           /\ UsageRow(told).requests <= bill.calls /\ UsageRow(told).cost <= bill.tokens
           /\ told.code = 200 =>
                 /\ RunRow(told).searches = bill.searches
                 /\ UsageRow(told).requests = bill.calls
                 /\ UsageRow(told).cost = bill.tokens
<1>1. /\ told.tokens \in 0..2 /\ told.cost \in 0..SearchLimit + 2 /\ told.modelCost \in 0..2
      /\ told.searches \in 0..SearchLimit /\ told.calls \in 0..2
      /\ bill.tokens \in 0..2 /\ bill.calls \in 0..2
  BY DEF Outcomes, Bills
<1>2. RunRow(told) \in Rows /\ UsageRow(told) \in UsageRows
  BY <1>1 DEF RunRow, UsageRow, Rows, UsageRows, NoUsage
<1>3. CASE told.code = 200
  BY <1>1, <1>2, <1>3 DEF RunRow, UsageRow, AddsUp
<1>4. CASE told.code # 200
  BY <1>1, <1>2, <1>4 DEF RunRow, UsageRow, AddsUp, NoUsage
<1> QED BY <1>3, <1>4

LEMMA AnalysisCommitKeeps ==
    ASSUME AnalysisInvariant, NEW a \in Analyses, Commit(a) PROVE AnalysisInvariant'
<1> USE DEF AnalysisInvariant
<1> DEFINE row == RunRow(outcome[a])
<1> DEFINE ledger == UsageRow(outcome[a])
<1>1. /\ phase[a] = "commit" /\ outcome[a].code \in {200, Limited, Failed}
      /\ traces' = (traces \cup {a}) \ pruned[a]
      /\ recorded' = [recorded EXCEPT ![a] = row]
      /\ usage' = [usage EXCEPT ![a] = ledger]
      /\ reply' = [reply EXCEPT ![a] = outcome[a].code]
      /\ phase' = [phase EXCEPT ![a] = "done"]
      /\ UNCHANGED <<begun, spent, tally, supported, outcome, pruned, aged, faults>>
  BY DEF Commit, Answer, RepliesFollow
<1>2. /\ row \in Rows /\ ledger \in UsageRows
      /\ row.status = "complete" <=> outcome[a].code = 200
      /\ row.tokens = spent[a].tokens /\ row.cost = spent[a].searchCost + spent[a].tokens
      /\ ledger.tokens = spent[a].tokens
      /\ ledger.requests <= spent[a].calls /\ ledger.cost <= spent[a].tokens
      /\ outcome[a].code = 200 =>
            /\ row.searches = spent[a].searches /\ ledger.requests = spent[a].calls
            /\ ledger.cost = spent[a].tokens
  <2>1. outcome[a] \in Outcomes /\ spent[a] \in Bills /\ AddsUp(outcome[a], spent[a])
        /\ spent[a].tokens <= spent[a].calls
    BY <1>1 DEF AnalysisTypeOK, TallyFollows, BillsFollow
  <2> QED BY <2>1, RowsAddUp
<1> HIDE DEF row, ledger
<1>3. /\ recorded'[a] = row /\ usage'[a] = ledger /\ reply'[a] = outcome[a].code
      /\ phase'[a] = "done"
      /\ \A b \in Analyses \ {a} : /\ recorded'[b] = recorded[b] /\ usage'[b] = usage[b]
                                   /\ reply'[b] = reply[b] /\ phase'[b] = phase[b]
  BY <1>1 DEF AnalysisTypeOK
<1>4. AnalysisTypeOK'
  <2>1. recorded' \in [Analyses -> Rows] /\ usage' \in [Analyses -> UsageRows]
        /\ phase' \in [Analyses -> Phases]
    BY <1>1, <1>2 DEF AnalysisTypeOK, Phases
  <2>2. reply' \in [Analyses -> {200, 422, 429, 500, 502, NoReply}]
    BY <1>1 DEF AnalysisTypeOK, Limited, Failed
  <2>3. traces' \subseteq Analyses
    BY <1>1 DEF AnalysisTypeOK
  <2> QED BY <1>1, <2>1, <2>2, <2>3 DEF AnalysisTypeOK
<1>5. RepliesFollow'
  BY <1>1, <1>3, AnalysisAssumption DEF RepliesFollow, Limited, Failed
<1>6. BillsFollow' /\ TallyFollows'
  BY <1>1, <1>3 DEF BillsFollow, TallyFollows
<1>7. Recorded' = Recorded \cup {a} /\ a \notin Recorded
  BY <1>1, <1>3, AnalysisAssumption DEF Recorded, RepliesFollow, Limited, Failed
<1>8. AnsweredIsAccounted'
  <2>1. /\ row.status = "complete" <=> reply'[a] = 200
        /\ reply'[a] = 200 <=> outcome[a].code = 200
    BY <1>2, <1>3
  <2>2. \A b \in Analyses \ {a} : b \notin traces => b \notin traces'
    BY <1>1
  <2> QED BY <1>1, <1>2, <1>3, <1>7, <2>1, <2>2 DEF AnsweredIsAccounted
<1>9. HistoryGrows
  BY <1>1, <1>4, <1>7 DEF HistoryGrows, AnalysisTypeOK
<1>10. PrunedIsObsolete'
  <2> SUFFICES ASSUME NEW b \in Analyses, phase'[b] = "commit", NEW c \in pruned'[b]
               PROVE  MayGo(c, b)'
    BY DEF PrunedIsObsolete, MayGo
  <2>1. phase[b] = "commit" /\ c \in pruned[b]
    BY <1>1, <1>3
  <2>2. MayGo(c, b)
    BY <2>1 DEF PrunedIsObsolete, MayGo
  <2> QED BY <1>9, <2>2, ObsoleteStays
<1>11. RetentionIsBounded'
  <2> SUFFICES ASSUME NEW b \in Recorded' \ traces' PROVE MayBeGone(b)'
    BY DEF RetentionIsBounded, MayBeGone
  <2>1. CASE b \in pruned[a]
    <3>1. MayGo(b, a) /\ a \in Recorded'
      BY <1>1, <1>7, <2>1 DEF PrunedIsObsolete, MayGo
    <3> QED BY <1>9, <3>1, ObsoleteStays
  <2>2. CASE b \notin pruned[a]
    <3>1. MayBeGone(b)
      BY <1>1, <1>7, <2>2 DEF RetentionIsBounded, MayBeGone
    <3> QED BY <1>9, <3>1, ObsoleteStays
  <2> QED BY <2>1, <2>2
<1> QED BY <1>4, <1>5, <1>6, <1>8, <1>10, <1>11

LEMMA AnalysisSteps == AnalysisInvariant /\ [AnalysisNext]_analysisVars => AnalysisInvariant'
<1> SUFFICES ASSUME AnalysisInvariant, [AnalysisNext]_analysisVars PROVE AnalysisInvariant'
  OBVIOUS
<1>1. ASSUME NEW a \in Analyses, Progresses(a) \/ Persist(a) \/ Commit(a) PROVE AnalysisInvariant'
  BY <1>1, WorkKeepsAll, PersistKeeps, AnalysisCommitKeeps
<1>2. CASE UNCHANGED analysisVars
  <2>1. Recorded' = Recorded
    BY <1>2 DEF analysisVars, Recorded
  <2>2. AnalysisTypeOK' /\ RepliesFollow' /\ BillsFollow' /\ TallyFollows'
    BY <1>2 DEF analysisVars, AnalysisInvariant, AnalysisTypeOK, RepliesFollow, BillsFollow,
                TallyFollows
  <2>3. AnsweredIsAccounted'
    BY <1>2, <2>1 DEF analysisVars, AnalysisInvariant, AnsweredIsAccounted
  <2>4. PrunedIsObsolete' /\ RetentionIsBounded'
    BY <1>2, <2>1 DEF analysisVars, AnalysisInvariant, PrunedIsObsolete, RetentionIsBounded,
                      Newer, CreatedAfter
  <2> QED BY <2>2, <2>3, <2>4 DEF AnalysisInvariant
<1> QED BY <1>1, <1>2 DEF AnalysisNext, Progresses

-----------------------------------------------------------------------------

\* Every variable keeps its type; no request pays for more than its searches and two model
\* calls (create_market_analysis).
THEOREM AnalysisTypeCorrect == AnalysisSpec => []AnalysisTypeOK
<1>1. AnalysisInvariant => AnalysisTypeOK
  BY DEF AnalysisInvariant
<1> QED BY <1>1, AnalysisStarts, AnalysisSteps, PTL DEF AnalysisSpec

\* The run row of an answered analysis adds up to what was billed for it, whatever failed, the
\* ledger has its tokens and claims no more than there was, and a trace is gone only when it is old enough or enough newer
\* analyses were answered, whatever concurrent transactions saw when they decided what to
\* prune and whichever of them failed (analyze, both persist functions,
\* prune_runs_by_role).
THEOREM AnalysesAlwaysStand == AnalysisSpec => []AnalysesStand
<1>1. AnalysisInvariant => AnalysesStand
  BY DEF AnalysisInvariant, AnalysesStand
<1> QED BY <1>1, AnalysisStarts, AnalysisSteps, PTL DEF AnalysisSpec

-----------------------------------------------------------------------------
(* The sidecar: what it reads is approved. The invariant follows a request *)
(* from the audit it met to the tool it calls. A request in drifted began  *)
(* while the cached audit was not the approved one; as long as drifted is  *)
(* not empty the cached audit still is another, so no request passes the   *)
(* check, and one that passed it before is in drifted no more.             *)

Passed(r) == task[r].step \in {"again", "accounts", "read"}

\* While a request waits for the approved audit, the cached one is another.
DriftIsCurrent == drifted # {} => seen \notin Approved \cup {NoAudit}

\* A listing that is about to be cached is one of the provider's.
ListingIsReal == \A r \in Reads : task[r].step = "cache" => fetched[r] \in Manifests

\* Only a read of a reviewed tool gets past the check, and only an approved one.
PassedIsApproved ==
    \A r \in Reads : Passed(r) =>
        r \notin drifted /\ task[r].kind \in DOMAIN ToolOf /\ Approved \cap Directory # {}

CallsAreApproved ==
    \A made \in called :
        made.by \notin drifted /\ task[made.by].step # "new" /\ Approved \cap Directory # {}

KindIsKnown == \A r \in Reads : task[r].step # "new" => task[r].kind # "none"

OnlyAccount(r, accounts) ==
    /\ Cardinality(accounts) = 1
    /\ \E made \in called :
          made.by = r /\ made.tool = "get_accounts" /\ made.accounts = accounts

\* A request that is to read the positions has found its one account.
AccountIsFound ==
    \A r \in Reads : task[r].step = "read" /\ task[r].kind = "positions" =>
        OnlyAccount(r, chosen[r])

SidecarInvariant ==
    /\ SidecarTypeOK /\ DriftIsCurrent /\ ListingIsReal /\ PassedIsApproved
    /\ CallsAreApproved /\ KindIsKnown /\ AccountIsFound /\ OnlyTheSelectedAccount

-----------------------------------------------------------------------------

LEMMA KindsOfRead ==
    /\ DOMAIN ToolOf = {"positions", "quotes", "historicals"}
    /\ \A kind \in DOMAIN ToolOf : ToolOf[kind] \in ReadTools
    /\ \A kind \in DOMAIN ToolOf : ToolOf[kind] = "get_equity_positions" => kind = "positions"
BY DEF ToolOf, ReadTools

LEMMA SidecarStarts == SidecarInit => SidecarInvariant
<1> SUFFICES ASSUME SidecarInit PROVE SidecarInvariant
  OBVIOUS
<1>1. SidecarTypeOK
  BY SidecarAssumption DEF SidecarInit, SidecarTypeOK, Tasks, Idle
<1> QED
  BY <1>1 DEF SidecarInit, SidecarInvariant, DriftIsCurrent, ListingIsReal, PassedIsApproved,
              CallsAreApproved, KindIsKnown, AccountIsFound, OnlyTheSelectedAccount, Idle, Passed

LEMMA AskKeeps ==
    ASSUME SidecarInvariant, NEW r \in Reads, Ask(r) PROVE SidecarInvariant'
<1> USE DEF SidecarInvariant
<1>1. /\ task[r] = Idle
      /\ \E kind \in DOMAIN ToolOf \cup {"refresh", "health"},
            step \in {"done", "list", "check"} :
              task' = [task EXCEPT ![r] = [kind |-> kind, step |-> step]]
      /\ answered' = answered \/ answered' = [answered EXCEPT ![r] = 409]
      /\ \/ drifted' = drifted
         \/ (seen \notin Approved \cup {NoAudit}) /\ (drifted' = drifted \cup {r})
      /\ UNCHANGED <<offered, seen, fetched, chosen, called, changes>>
  BY DEF Ask
<1>2. PICK kind \in DOMAIN ToolOf \cup {"refresh", "health"}, step \in {"done", "list", "check"} :
        task' = [task EXCEPT ![r] = [kind |-> kind, step |-> step]]
  BY <1>1
<1>3. SidecarTypeOK'
  BY <1>1, <1>2 DEF SidecarTypeOK, Tasks
<1>4. \A q \in Reads : task'[q] = IF q = r THEN [kind |-> kind, step |-> step] ELSE task[q]
  BY <1>2 DEF SidecarTypeOK
<1>5. \A made \in called : made.by \in Reads /\ made.by # r
  BY <1>1 DEF CallsAreApproved, Idle, SidecarTypeOK
<1>6. DriftIsCurrent'
  BY <1>1 DEF DriftIsCurrent
<1>7. ListingIsReal'
  BY <1>1, <1>4 DEF ListingIsReal
<1>8. PassedIsApproved'
  BY <1>1, <1>4 DEF PassedIsApproved, Passed
<1>9. CallsAreApproved'
  BY <1>1, <1>4, <1>5 DEF CallsAreApproved
<1>10. KindIsKnown'
  BY <1>4, KindsOfRead DEF KindIsKnown
<1>11. AccountIsFound'
  BY <1>1, <1>4 DEF AccountIsFound, OnlyAccount
<1>12. OnlyTheSelectedAccount'
  BY <1>1 DEF OnlyTheSelectedAccount
<1> QED
  BY <1>3, <1>6, <1>7, <1>8, <1>9, <1>10, <1>11, <1>12

LEMMA ListKeeps ==
    ASSUME SidecarInvariant, NEW r \in Reads, ListTools(r) PROVE SidecarInvariant'
<1> USE DEF SidecarInvariant
<1>1. /\ task[r].step = "list"
      /\ \/ /\ fetched' = [fetched EXCEPT ![r] = offered]
            /\ task' = [task EXCEPT ![r].step = "cache"]
            /\ answered' = answered
         \/ /\ fetched' = fetched
            /\ task' = [task EXCEPT ![r].step = "done"]
            /\ answered' = [answered EXCEPT ![r] = 500]
      /\ UNCHANGED <<offered, seen, chosen, called, drifted, changes>>
  BY DEF ListTools, GoTo, Reply
<1>2. SidecarTypeOK'
  <2>1. offered \in Manifests /\ task \in [Reads -> Tasks]
        /\ fetched \in [Reads -> Manifests \cup {NoAudit}]
        /\ answered \in [Reads -> {0, 200, 409, 500}]
    BY DEF SidecarTypeOK
  <2>2. \A step \in {"cache", "done"} : [task EXCEPT ![r].step = step] \in [Reads -> Tasks]
    BY <2>1 DEF Tasks
  <2>3. /\ [fetched EXCEPT ![r] = offered] \in [Reads -> Manifests \cup {NoAudit}]
        /\ [answered EXCEPT ![r] = 500] \in [Reads -> {0, 200, 409, 500}]
    BY <2>1
  <2> QED BY <1>1, <2>1, <2>2, <2>3 DEF SidecarTypeOK
<1>3. \A q \in Reads : /\ task'[q].kind = task[q].kind
                       /\ q # r => task'[q] = task[q] /\ fetched'[q] = fetched[q]
  BY <1>1 DEF SidecarTypeOK, Tasks
<1>4. task'[r].step \in {"cache", "done"}
  BY <1>1 DEF SidecarTypeOK, Tasks
<1>5. ListingIsReal'
  BY <1>1, <1>3, <1>4 DEF ListingIsReal, SidecarTypeOK, Tasks
<1>6. DriftIsCurrent' /\ OnlyTheSelectedAccount'
  BY <1>1 DEF DriftIsCurrent, OnlyTheSelectedAccount
<1>7. PassedIsApproved' /\ KindIsKnown'
  BY <1>1, <1>3, <1>4 DEF PassedIsApproved, Passed, KindIsKnown
<1>8. CallsAreApproved' /\ AccountIsFound'
  BY <1>1, <1>3, <1>4 DEF CallsAreApproved, AccountIsFound, OnlyAccount, SidecarTypeOK
<1> QED
  BY <1>2, <1>5, <1>6, <1>7, <1>8

LEMMA CacheKeeps ==
    ASSUME SidecarInvariant, NEW r \in Reads, CacheAudit(r) PROVE SidecarInvariant'
<1> USE DEF SidecarInvariant
<1>1. /\ task[r].step = "cache"
      /\ seen' = fetched[r]
      /\ drifted' = IF fetched[r] \in Approved THEN {} ELSE drifted
      /\ fetched' = [fetched EXCEPT ![r] = NoAudit]
      /\ task' = [task EXCEPT ![r].step = "check"]
      /\ UNCHANGED <<offered, answered, chosen, called, changes>>
  BY DEF CacheAudit, GoTo
<1>2. SidecarTypeOK'
  BY <1>1 DEF SidecarTypeOK, Tasks
<1>3. \A q \in Reads : /\ task'[q].kind = task[q].kind
                       /\ q # r => task'[q] = task[q] /\ fetched'[q] = fetched[q]
  BY <1>1 DEF SidecarTypeOK, Tasks
<1>4. task'[r].step = "check"
  BY <1>1 DEF SidecarTypeOK, Tasks
<1>5. DriftIsCurrent'
  BY <1>1, SidecarAssumption DEF DriftIsCurrent, ListingIsReal
<1>6. ListingIsReal'
  BY <1>3, <1>4 DEF ListingIsReal
<1>7. PassedIsApproved' /\ KindIsKnown'
  BY <1>1, <1>3, <1>4 DEF PassedIsApproved, Passed, KindIsKnown
<1>8. CallsAreApproved' /\ AccountIsFound' /\ OnlyTheSelectedAccount'
  BY <1>1, <1>3, <1>4
  DEF CallsAreApproved, AccountIsFound, OnlyAccount, OnlyTheSelectedAccount, SidecarTypeOK
<1> QED
  BY <1>2, <1>5, <1>6, <1>7, <1>8

LEMMA RequireKeeps ==
    ASSUME SidecarInvariant, NEW r \in Reads, RequireApproved(r) PROVE SidecarInvariant'
<1> USE DEF SidecarInvariant
<1>1. /\ task[r].step \in {"check", "again"}
      /\ \/ /\ task' = [task EXCEPT ![r].step = "done"]
            /\ \E code \in {200, 409} : answered' = [answered EXCEPT ![r] = code]
         \/ /\ task[r].kind \notin {"refresh", "health"}
            /\ seen \in Directory \cap Approved
            /\ answered' = answered
            /\ \E step \in {"again", "accounts", "read"} :
                  /\ task' = [task EXCEPT ![r].step = step]
                  /\ step = "read" => task[r].kind # "positions"
      /\ UNCHANGED <<offered, seen, fetched, chosen, called, drifted, changes>>
  BY DEF RequireApproved, ManifestApproved, Reply, GoTo
<1>2. SidecarTypeOK'
  BY <1>1 DEF SidecarTypeOK, Tasks
<1>3. \A q \in Reads : task'[q].kind = task[q].kind /\ (q # r => task'[q] = task[q])
  BY <1>1 DEF SidecarTypeOK, Tasks
<1>4. task'[r].step \in {"again", "accounts", "read", "done"}
  BY <1>1 DEF SidecarTypeOK, Tasks
<1>5. ASSUME task'[r].step # "done"
      PROVE  /\ drifted = {} /\ Approved \cap Directory # {}
             /\ task[r].kind \in DOMAIN ToolOf
             /\ task'[r].step = "read" => task[r].kind # "positions"
  <2>1. /\ task[r].kind \notin {"refresh", "health"}
        /\ seen \in Directory \cap Approved
        /\ task'[r].step = "read" => task[r].kind # "positions"
    BY <1>1, <1>5 DEF SidecarTypeOK, Tasks
  <2>2. drifted = {} /\ Approved \cap Directory # {}
    BY <2>1 DEF DriftIsCurrent
  <2>3. task[r].kind \in DOMAIN ToolOf
    BY <1>1, <2>1 DEF KindIsKnown, SidecarTypeOK, Tasks
  <2> QED BY <2>1, <2>2, <2>3
<1>6. PassedIsApproved' /\ KindIsKnown'
  BY <1>1, <1>3, <1>4, <1>5 DEF PassedIsApproved, Passed, KindIsKnown
<1>7. DriftIsCurrent' /\ ListingIsReal' /\ OnlyTheSelectedAccount'
  BY <1>1, <1>3, <1>4 DEF DriftIsCurrent, ListingIsReal, OnlyTheSelectedAccount
<1>8. CallsAreApproved' /\ AccountIsFound'
  BY <1>1, <1>3, <1>4, <1>5 DEF CallsAreApproved, AccountIsFound, OnlyAccount, SidecarTypeOK
<1> QED
  BY <1>2, <1>6, <1>7, <1>8

\* A request that has passed the check calls one tool, and reads on or is answered.
ToolCall(r, tool, accounts, step) ==
    /\ Passed(r) /\ Call(r, tool, accounts)
    /\ task' = [task EXCEPT ![r].step = step]
    /\ answered' \in [Reads -> {0, 200, 409, 500}]
    /\ chosen' \in [Reads -> SUBSET Accounts]
    /\ \A q \in Reads \ {r} : chosen'[q] = chosen[q]
    /\ step = "read" => tool = "get_accounts" /\ chosen'[r] = accounts
                                             /\ Cardinality(accounts) = 1
    /\ tool = "get_equity_positions" => OnlyAccount(r, accounts)
    /\ UNCHANGED <<offered, seen, fetched, drifted, changes>>

LEMMA CallKeeps ==
    ASSUME SidecarInvariant, NEW r \in Reads,
           NEW tool \in ReadTools, NEW accounts \in SUBSET Accounts,
           NEW step \in {"read", "done"}, ToolCall(r, tool, accounts, step)
    PROVE  SidecarInvariant'
<1> USE DEF ToolCall, SidecarInvariant
<1> DEFINE new == [by |-> r, tool |-> tool, accounts |-> accounts]
<1>1. called' = called \cup {new}
  BY DEF Call
<1>2. SidecarTypeOK'
  <2>1. task' \in [Reads -> Tasks]
    BY DEF SidecarTypeOK, Tasks
  <2>2. called' \subseteq [by : Reads, tool : ReadTools, accounts : SUBSET Accounts]
    BY <1>1 DEF SidecarTypeOK
  <2> QED BY <2>1, <2>2 DEF SidecarTypeOK
<1>3. \A q \in Reads : task'[q].kind = task[q].kind /\ (q # r => task'[q] = task[q])
  BY DEF SidecarTypeOK, Tasks
<1>4. task'[r].step = step
  BY DEF SidecarTypeOK, Tasks
<1>5. PassedIsApproved' /\ KindIsKnown'
  BY <1>3, <1>4 DEF PassedIsApproved, Passed, KindIsKnown
<1>6. DriftIsCurrent' /\ ListingIsReal'
  BY <1>3, <1>4 DEF DriftIsCurrent, ListingIsReal
<1>7. CallsAreApproved'
  BY <1>1, <1>3, <1>4 DEF CallsAreApproved, PassedIsApproved, SidecarTypeOK
<1>8. OnlyTheSelectedAccount'
  <2> SUFFICES ASSUME NEW made \in called', made.tool = "get_equity_positions"
               PROVE  /\ Cardinality(made.accounts) = 1
                      /\ \E earlier \in called' :
                            earlier.by = made.by /\ earlier.tool = "get_accounts"
                                                 /\ earlier.accounts = made.accounts
    BY DEF OnlyTheSelectedAccount
  <2>1. CASE made \in called
    BY <1>1, <2>1 DEF OnlyTheSelectedAccount
  <2>2. CASE made = new
    BY <1>1, <2>2 DEF OnlyAccount
  <2> QED BY <1>1, <2>1, <2>2
<1>9. AccountIsFound'
  <2> SUFFICES ASSUME NEW q \in Reads, task'[q].step = "read", task'[q].kind = "positions"
               PROVE  OnlyAccount(q, chosen[q])'
    BY DEF AccountIsFound
  <2>1. CASE q = r
    <3>1. /\ tool = "get_accounts" /\ chosen'[q] = accounts /\ Cardinality(accounts) = 1
      BY <1>4, <2>1
    <3>2. new \in called' /\ new.by = q /\ new.tool = tool /\ new.accounts = accounts
      BY <1>1, <2>1
    <3> QED BY <3>1, <3>2 DEF OnlyAccount
  <2>2. CASE q # r
    BY <1>1, <1>3, <2>2 DEF AccountIsFound, OnlyAccount
  <2> QED BY <2>1, <2>2
<1> QED
  BY <1>2, <1>5, <1>6, <1>7, <1>8, <1>9

LEMMA SelectKeeps ==
    ASSUME SidecarInvariant, NEW r \in Reads, SelectAccount(r) PROVE SidecarInvariant'
<1>1. PICK those \in SUBSET Accounts :
        /\ task[r].step = "accounts"
        /\ chosen' = [chosen EXCEPT ![r] = those]
        /\ Call(r, "get_accounts", those)
        /\ IF Cardinality(those) = 1
           THEN task' = [task EXCEPT ![r].step = "read"] /\ UNCHANGED answered
           ELSE /\ answered' = [answered EXCEPT ![r] = 409]
                /\ task' = [task EXCEPT ![r].step = "done"]
        /\ UNCHANGED <<offered, seen, fetched, drifted, changes>>
  BY DEF SelectAccount, GoTo, Reply
<1>2. Passed(r) /\ "get_accounts" \in ReadTools
  BY <1>1 DEF Passed, ReadTools
<1>3. /\ chosen' \in [Reads -> SUBSET Accounts] /\ chosen'[r] = those
      /\ \A q \in Reads \ {r} : chosen'[q] = chosen[q]
  BY <1>1 DEF SidecarInvariant, SidecarTypeOK
<1>4. answered' \in [Reads -> {0, 200, 409, 500}]
  BY <1>1 DEF SidecarInvariant, SidecarTypeOK
<1>5. CASE Cardinality(those) = 1
  <2>1. ToolCall(r, "get_accounts", those, "read")
    BY <1>1, <1>2, <1>3, <1>4, <1>5 DEF ToolCall
  <2> QED BY <1>2, <2>1, CallKeeps
<1>6. CASE Cardinality(those) # 1
  <2>1. ToolCall(r, "get_accounts", those, "done")
    BY <1>1, <1>2, <1>3, <1>4, <1>6 DEF ToolCall
  <2> QED BY <1>2, <2>1, CallKeeps
<1> QED BY <1>5, <1>6

LEMMA ReadKeeps ==
    ASSUME SidecarInvariant, NEW r \in Reads, Read(r) \/ ToolFails(r) PROVE SidecarInvariant'
<1>1. /\ task[r].step \in {"accounts", "read"}
      /\ Passed(r) /\ task[r].kind \in DOMAIN ToolOf
  BY DEF Read, ToolFails, Passed, SidecarInvariant, PassedIsApproved
<1>2. "get_accounts" \in ReadTools /\ ToolOf[task[r].kind] \in ReadTools
  BY <1>1, KindsOfRead DEF ReadTools
<1>3. PICK tool \in ReadTools, code \in {200, 500}, accounts \in SUBSET Accounts :
        /\ accounts = chosen[r]
        /\ \/ tool = "get_accounts"
           \/ task[r].step = "read" /\ tool = ToolOf[task[r].kind]
        /\ Call(r, tool, accounts)
        /\ answered' = [answered EXCEPT ![r] = code]
        /\ task' = [task EXCEPT ![r].step = "done"]
        /\ UNCHANGED <<offered, seen, fetched, chosen, drifted, changes>>
  <2>0. chosen[r] \in SUBSET Accounts
    BY DEF SidecarInvariant, SidecarTypeOK
  <2>1. CASE Read(r)
    BY <1>2, <2>0, <2>1 DEF Read, Reply, Call
  <2>2. CASE ToolFails(r)
    BY <1>1, <1>2, <2>0, <2>2 DEF ToolFails, Reply, Call
  <2> QED BY <2>1, <2>2
<1>4. /\ chosen' \in [Reads -> SUBSET Accounts]
      /\ \A q \in Reads \ {r} : chosen'[q] = chosen[q]
      /\ answered' \in [Reads -> {0, 200, 409, 500}]
  BY <1>3 DEF SidecarInvariant, SidecarTypeOK
<1>5. tool = "get_equity_positions" => OnlyAccount(r, accounts)
  BY <1>1, <1>3, KindsOfRead DEF SidecarInvariant, AccountIsFound, OnlyAccount
<1>6. ToolCall(r, tool, accounts, "done")
  BY <1>1, <1>3, <1>4, <1>5 DEF ToolCall
<1> QED BY <1>6, CallKeeps

LEMMA SidecarSteps == SidecarInvariant /\ [SidecarNext]_sidecarVars => SidecarInvariant'
<1> SUFFICES ASSUME SidecarInvariant, [SidecarNext]_sidecarVars PROVE SidecarInvariant'
  OBVIOUS
<1>1. ASSUME NEW r \in Reads, Ask(r) PROVE SidecarInvariant'
  BY <1>1, AskKeeps
<1>2. ASSUME NEW r \in Reads, ListTools(r) PROVE SidecarInvariant'
  BY <1>2, ListKeeps
<1>3. ASSUME NEW r \in Reads, CacheAudit(r) PROVE SidecarInvariant'
  BY <1>3, CacheKeeps
<1>4. ASSUME NEW r \in Reads, RequireApproved(r) PROVE SidecarInvariant'
  BY <1>4, RequireKeeps
<1>5. ASSUME NEW r \in Reads, SelectAccount(r) PROVE SidecarInvariant'
  BY <1>5, SelectKeeps
<1>6. ASSUME NEW r \in Reads, Read(r) \/ ToolFails(r) PROVE SidecarInvariant'
  BY <1>6, ReadKeeps
<1>7. ASSUME ToolsChange \/ UNCHANGED sidecarVars PROVE SidecarInvariant'
  <2>1. /\ UNCHANGED <<seen, task, fetched, answered, chosen, called, drifted>>
        /\ offered' \in Manifests /\ changes' \in 0..MaxChanges
    BY <1>7, SidecarAssumption DEF ToolsChange, sidecarVars, SidecarInvariant, SidecarTypeOK
  <2>2. SidecarTypeOK'
    BY <2>1 DEF SidecarInvariant, SidecarTypeOK
  <2> QED
    BY <2>1, <2>2 DEF SidecarInvariant, DriftIsCurrent, ListingIsReal, PassedIsApproved, Passed,
                      CallsAreApproved, KindIsKnown, AccountIsFound, OnlyAccount,
                      OnlyTheSelectedAccount
<1> QED
  BY <1>1, <1>2, <1>3, <1>4, <1>5, <1>6, <1>7 DEF SidecarNext

-----------------------------------------------------------------------------

\* Every variable of the sidecar keeps its type.
THEOREM SidecarTypeCorrect == SidecarSpec => []SidecarTypeOK
<1>1. SidecarInvariant => SidecarTypeOK
  BY DEF SidecarInvariant
<1> QED BY <1>1, SidecarStarts, SidecarSteps, PTL DEF SidecarSpec

\* Whatever the threads interleave and however often the provider changes its tools: no
\* request that began under another audit than the approved one reaches a tool, none does
\* without an approved manifest, and holdings are read of the one account found before
\* (_require_approved, read_positions).
THEOREM ReadsStayApproved == SidecarSpec => []ReadsAreApproved
<1>1. SidecarInvariant => ReadsAreApproved
  BY DEF SidecarInvariant, ReadsAreApproved, DriftStopsReads, CallsAreApproved
<1> QED BY <1>1, SidecarStarts, SidecarSteps, PTL DEF SidecarSpec

-----------------------------------------------------------------------------
(* Market alerts: the last settings stand and the previews are justified.  *)
(* Requests under way know of each other, so whatever is committed beside  *)
(* an evaluation after its two queries is by a request it ran beside; and  *)
(* a settings change nobody ran beside works with the row the next request *)
(* reads, because only an insertion of the defaults or another change      *)
(* moves it.                                                               *)

UnderWay == {"write", "fetch", "check", "insert", "commit"}

\* A request begins, with what its kind needs.
Arrives(r) ==
    /\ Arrive(r, ask'[r], call'[r]) /\ UNCHANGED todo
    /\ \/ ReadPolicy(r) /\ Asks(r)' = "list" /\ call'[r] = "commit"
       \/ ReadPolicy(r) /\ Asks(r)' = "put" /\ ask'[r].choice \in Choices /\ call'[r] = "write"
       \/ ReadPolicy(r) /\ Asks(r)' = "evaluate" /\ ask'[r].at = now
             /\ ask'[r].asOf = session /\ call'[r] = "fetch"
       \/ UNCHANGED <<order, policy>> /\ Asks(r)' = "feedback" /\ ask'[r].at = now
             /\ call'[r] = "commit"

\* Statements of a request, and its end without a commit.
Proceeds(r) ==
    WriteSettings(r) \/ (\E scene \in Scenes : Evaluate(r, scene)) \/ CheckDecision(r)
Stops(r) == RefuseEvaluation(r) \/ InsertCollides(r) \/ FailCall(r)

\* Every step of the alerts but a tick, sorted.
CallSteps(r) ==
    \/ Arrives(r) \/ Proceeds(r) \/ InsertPreview(r) \/ Stops(r) \/ CommitCall(r)

LEMMA AlertsStepCases ==
    ASSUME AlertsInvariant, AlertsNext PROVE Tick \/ \E r \in Calls : CallSteps(r)
<1> SUFFICES ASSUME ~ Tick PROVE \E r \in Calls : CallSteps(r)
  OBVIOUS
<1>1. PICK r \in Calls :
        \/ ListAlerts(r)
        \/ \E choice \in Choices : PutSettings(r, choice)
        \/ BeginEvaluation(r)
        \/ \E a \in previews, value \in {"useful", "noise"} : GiveFeedback(r, a, value)
        \/ Proceeds(r) \/ InsertPreview(r) \/ Stops(r) \/ CommitCall(r)
  BY DEF AlertsNext, Proceeds, Stops
<1>2. \A request, step : Arrive(r, request, step) => ask'[r] = request /\ call'[r] = step
  BY DEF Arrive, AlertsInvariant, CallsAreTyped
<1>3. CASE ListAlerts(r)
  BY <1>2, <1>3 DEF ListAlerts, Arrives, Asks, CallSteps
<1>4. CASE \E choice \in Choices : PutSettings(r, choice)
  BY <1>2, <1>4 DEF PutSettings, Arrives, Asks, CallSteps
<1>5. CASE BeginEvaluation(r)
  BY <1>2, <1>5 DEF BeginEvaluation, Arrives, Asks, CallSteps
<1>6. CASE \E a \in previews, value \in {"useful", "noise"} : GiveFeedback(r, a, value)
  BY <1>2, <1>6 DEF GiveFeedback, Arrives, Asks, CallSteps
<1> QED BY <1>1, <1>3, <1>4, <1>5, <1>6 DEF CallSteps

LEMMA ServingIsUnderWay ==
    ASSUME CallsAreTyped PROVE Serving = {r \in Calls : call[r] \in UnderWay}
BY DEF CallsAreTyped, Stages, Serving, UnderWay

\* What an arrival leaves alone, and what it sets.
LEMMA ArrivalFrame ==
    ASSUME AlertsInvariant, NEW r \in Calls, Arrives(r)
    PROVE  /\ UNCHANGED <<policies, previews, now, session, todo, added, lastPut, errors>>
           /\ call[r] = "new" /\ call'[r] \in UnderWay /\ r \notin Serving
           /\ call' \in [Calls -> Stages] /\ DOMAIN ask' = Calls
           /\ \A q \in Calls \ {r} : /\ call'[q] = call[q] /\ ask'[q] = ask[q]
                                     /\ order'[q] = order[q] /\ policy'[q] = policy[q]
                                     /\ started'[q] = started[q]
           /\ started'[r] = Cardinality(Arrived) + 1
           /\ Serving' = Serving \cup {r}
           /\ alongside'[r] = Serving
           /\ \A q \in Calls \ {r} : \A p :
                 p \in alongside'[q] <=> p \in alongside[q] \/ (p = r /\ q \in Serving)
           /\ order' = order \/ DOMAIN policies = {}
           /\ alongside' \in [Calls -> SUBSET Calls] /\ order' \in [Calls -> Nat]
           /\ DOMAIN policy' = Calls
<1> USE DEF AlertsInvariant, CallsAreTyped
<1>1. /\ UNCHANGED <<policies, previews, now, session, todo, added, lastPut, errors>>
      /\ call[r] = "new" /\ call'[r] \in UnderWay
      /\ call' = [call EXCEPT ![r] = call'[r]] /\ ask' = [ask EXCEPT ![r] = ask'[r]]
      /\ started' = [started EXCEPT ![r] = Cardinality(Arrived) + 1]
      /\ alongside' = [q \in Calls |-> IF q = r THEN Serving
                                 ELSE IF q \in Serving THEN alongside[q] \cup {r} ELSE alongside[q]]
  BY DEF Arrives, Arrive, Arrived, UnderWay, clock
<1>2. \/ UNCHANGED <<order, policy>>
      \/ /\ DOMAIN policies = {}
         /\ order' = [order EXCEPT ![r] = Cardinality({q \in Calls : order[q] > 0}) + 1]
         /\ policy' = [policy EXCEPT ![r] = [row |-> r, was |-> DefaultPolicy]]
      \/ /\ order' = order
         /\ \E i : policy' = [policy EXCEPT ![r] = [row |-> i, was |-> policies[i]]]
  BY DEF Arrives, ReadPolicy
<1>3. Cardinality({q \in Calls : order[q] > 0}) \in Nat
  BY MarketAlertsAssumption, FS_Subset, FS_CardinalityType
<1>4. r \notin Serving /\ Serving' = Serving \cup {r}
  BY <1>1 DEF Serving, UnderWay, Stages
<1>5. Serving \in SUBSET Calls
  BY DEF Serving
<1>6. \A q \in Calls \ {r} : order'[q] = order[q] /\ policy'[q] = policy[q]
  BY <1>2
<1>7. /\ order' \in [Calls -> Nat] /\ DOMAIN policy' = Calls
      /\ order' = order \/ DOMAIN policies = {}
  <2>1. DOMAIN policy' = Calls
    BY <1>2
  <2>2. Cardinality({q \in Calls : order[q] > 0}) + 1 \in Nat
    BY <1>3
  <2>3. order' \in [Calls -> Nat]
    BY <1>2, <2>2
  <2> QED BY <1>2, <2>1, <2>3
<1>8. alongside' \in [Calls -> SUBSET Calls]
  BY <1>1, <1>5
<1>9. \A q \in Calls \ {r} : \A p :
         p \in alongside'[q] <=> p \in alongside[q] \/ (p = r /\ q \in Serving)
  BY <1>1
<1>10. call' \in [Calls -> Stages] /\ DOMAIN ask' = Calls
  BY <1>1 DEF UnderWay, Stages
<1> QED BY <1>1, <1>4, <1>6, <1>7, <1>8, <1>9, <1>10

\* A step of a request under way that stores nothing.
CallAside(r) ==
    /\ UNCHANGED <<policies, previews, now, session, ask, started, order, policy, alongside,
                   lastPut>>
    /\ r \in Serving /\ call' \in [Calls -> Stages]
    /\ call'[r] \in UnderWay \cup {"done", "collided"}
    /\ \A q \in Calls \ {r} : /\ call'[q] = call[q]
                              /\ added'[q] = added[q] /\ todo'[q] = todo[q]
    /\ DOMAIN todo' = Calls /\ DOMAIN added' = Calls
    /\ errors' \in 0 .. MaxErrors

LEMMA AdvanceFrame ==
    ASSUME AlertsInvariant, NEW r \in Calls, Proceeds(r)
    PROVE  /\ CallAside(r) /\ added'[r] = added[r] /\ call'[r] \in {"check", "insert", "commit"}
           /\ call'[r] \in {"check", "insert"} => Asks(r) = "evaluate"
           /\ call'[r] = "insert" => /\ call[r] = "check" /\ todo'[r] = todo[r]
                                     /\ ~ SuppressedByFeedback(Head(todo[r]))
                                     /\ ~ SeenLately(r, Head(todo[r]))
           /\ call'[r] = "commit" /\ Asks(r) = "evaluate" => call[r] = "check"
<1> USE DEF AlertsInvariant, CallsAreTyped, CallsFollow, CallAside, Serving, UnderWay, Stages, Move,
            clock
<1>1. CASE WriteSettings(r)
  BY <1>1 DEF WriteSettings, work
<1>2. CASE \E scene \in Scenes : Evaluate(r, scene)
  BY <1>2 DEF Evaluate
<1>3. CASE CheckDecision(r)
  BY <1>3 DEF CheckDecision
<1> QED BY <1>1, <1>2, <1>3 DEF Proceeds

LEMMA InsertFrame ==
    ASSUME AlertsInvariant, NEW r \in Calls, InsertPreview(r)
    PROVE  /\ CallAside(r) /\ call[r] = "insert" /\ call'[r] = "check" /\ Asks(r) = "evaluate"
           /\ added'[r] = added[r] \cup {Preview(r, Head(todo[r]))}
           /\ ~ KeyTaken(r) /\ ~ KeyPending(r)
BY DEF AlertsInvariant, CallsAreTyped, CallsFollow, CallAside, Serving, UnderWay, Stages, Move, clock,
       InsertPreview

LEMMA StopFrame ==
    ASSUME AlertsInvariant, NEW r \in Calls, Stops(r)
    PROVE  /\ CallAside(r) /\ added'[r] = {} /\ call'[r] \in {"done", "collided"}
           /\ call'[r] = "collided" => /\ call[r] = "insert" /\ todo'[r] = todo[r]
                                       /\ KeyTaken(r) /\ Asks(r) = "evaluate"
<1> USE DEF AlertsInvariant, CallsAreTyped, CallsFollow, AddedAreTyped, CallAside, Serving, UnderWay,
            Stages, Move, clock
<1>1. CASE RefuseEvaluation(r)
  BY <1>1 DEF RefuseEvaluation, work
<1>2. CASE InsertCollides(r)
  BY <1>2 DEF InsertCollides
<1>3. CASE FailCall(r)
  BY <1>3, MarketAlertsAssumption DEF FailCall
<1> QED BY <1>1, <1>2, <1>3 DEF Stops

\* What the rest of the invariant sees of the three.
LEMMA AsideSteps ==
    ASSUME AlertsInvariant, NEW r \in Calls, Proceeds(r) \/ InsertPreview(r) \/ Stops(r)
    PROVE  /\ CallAside(r) /\ call'[r] \in {"check", "insert", "commit", "done", "collided"}
           /\ call'[r] \in {"check", "insert", "collided"} => Asks(r) = "evaluate"
BY AdvanceFrame, InsertFrame, StopFrame

\* What a commit leaves alone, and what it sets.
LEMMA CallCommitFrame ==
    ASSUME AlertsInvariant, NEW r \in Calls, CommitCall(r)
    PROVE  /\ UNCHANGED <<now, session, ask, started, order, policy, alongside, todo, errors>>
           /\ call[r] = "commit" /\ r \in Serving /\ Serving' = Serving \ {r}
           /\ call' \in [Calls -> Stages] /\ call'[r] = "done"
           /\ added'[r] = {} /\ DOMAIN added' = Calls
           /\ \A q \in Calls \ {r} : call'[q] = call[q] /\ added'[q] = added[q]
           /\ lastPut' = IF Asks(r) = "put" THEN r ELSE lastPut
BY DEF AlertsInvariant, CallsAreTyped, CommitCall, Serving, Stages, Move, clock

\* Each part of the invariant, step by step.

LEMMA TypesStep ==
    ASSUME AlertsInvariant, NEW r \in Calls, CallSteps(r)
    PROVE  CallsAreTyped'
<1>0. CallsAreTyped
  BY DEF AlertsInvariant
<1>1. CASE Arrives(r)
  <2>2. Cardinality(Arrived) \in Nat
    BY MarketAlertsAssumption, FS_Subset, FS_CardinalityType DEF Arrived
  <2>3. started' \in [Calls -> Nat]
    BY <1>0, <1>1, <2>2 DEF Arrives, Arrive, Arrived, CallsAreTyped
  <2>4. /\ now' = now /\ session' = session /\ todo' = todo /\ added' = added /\ errors' = errors
        /\ call' \in [Calls -> Stages] /\ DOMAIN ask' = Calls
        /\ alongside' \in [Calls -> SUBSET Calls] /\ order' \in [Calls -> Nat]
        /\ DOMAIN policy' = Calls
    BY <1>1, ArrivalFrame
  <2> QED BY <1>0, <2>3, <2>4 DEF CallsAreTyped
<1>2. CASE Proceeds(r) \/ InsertPreview(r) \/ Stops(r)
  BY <1>0, <1>2, AsideSteps DEF CallAside, UnderWay, Stages, CallsAreTyped
<1>3. CASE CommitCall(r)
  BY <1>0, <1>3, CallCommitFrame DEF Stages, CallsAreTyped
<1> QED BY <1>1, <1>2, <1>3 DEF CallSteps

LEMMA FollowStep ==
    ASSUME AlertsInvariant, NEW r \in Calls, CallSteps(r)
    PROVE  CallsFollow'
<1>0. CallsAreTyped /\ CallsFollow
  BY DEF AlertsInvariant
<1>1. CASE Arrives(r)
  <2>2. \A q \in Calls \ {r} : /\ call'[q] = call[q] /\ ask'[q] = ask[q]
                               /\ order'[q] = order[q] /\ policy'[q] = policy[q]
    BY <1>1, ArrivalFrame
  <2>0. now' = now /\ session' = session
    BY <1>1, ArrivalFrame
  <2>3. /\ ask'[r].kind = "put" => ask'[r].choice \in Choices
        /\ ask'[r].kind \in {"evaluate", "feedback"} => ask'[r].at = now
        /\ ask'[r].kind = "evaluate" => ask'[r].asOf = session
        /\ ask'[r].kind \in {"list", "put", "evaluate", "feedback"}
        /\ call'[r] \in {"write", "fetch", "commit"}
        /\ call'[r] = "write" => ask'[r].kind = "put"
        /\ call'[r] = "fetch" => ask'[r].kind = "evaluate"
    BY <1>1 DEF Arrives, Asks
  <2> QED BY <1>0, <2>0, <2>2, <2>3 DEF Asks, CallsAreTyped, CallsFollow
<1>2. CASE Proceeds(r) \/ InsertPreview(r) \/ Stops(r)
  <2>1. /\ UNCHANGED <<now, session, ask, order, policy>> /\ r \in Serving
        /\ \A q \in Calls \ {r} : call'[q] = call[q]
        /\ call'[r] \in {"check", "insert", "commit", "done", "collided"}
        /\ call'[r] \in {"check", "insert", "collided"} => Asks(r) = "evaluate"
    BY <1>2, AsideSteps DEF CallAside
  <2> QED BY <1>0, <2>1 DEF Asks, Serving, Stages, CallsAreTyped, CallsFollow
<1>3. CASE CommitCall(r)
  <2>1. /\ UNCHANGED <<now, session, ask, order, policy>>
        /\ call[r] = "commit" /\ call'[r] = "done"
        /\ \A q \in Calls \ {r} : call'[q] = call[q]
    BY <1>3, CallCommitFrame
  <2> QED BY <1>0, <2>1 DEF Asks, CallsAreTyped, CallsFollow
<1> QED BY <1>1, <1>2, <1>3 DEF CallSteps

\* A request that leaves the ones under way knows of all that are.
LEMMA LeavingTimes ==
    ASSUME AlertsInvariant, NEW r \in Serving, UNCHANGED <<started, alongside>>,
           call'[r] # "new", \A q \in Calls \ {r} : call'[q] = call[q]
    PROVE  TimesFollow'
<1>0. StartsFollow /\ KnownMutually /\ ServedTogether /\ LaterStarts /\ Arrived' = Arrived
  BY DEF AlertsInvariant, TimesFollow, Arrived
<1>1. Serving \ {r} \subseteq Serving' /\ Serving' \subseteq Serving /\ call[r] # "new"
  BY DEF Serving
<1>2. StartsFollow'
  BY <1>0, <1>1 DEF StartsFollow, Serving
<1>3. KnownMutually' /\ ServedTogether'
  BY <1>0, <1>1 DEF KnownMutually, ServedTogether
<1>4. LaterStarts'
  <2> SUFFICES ASSUME NEW p \in Serving', NEW q \in Calls \ Serving', call'[q] # "new",
                      p \notin alongside[q]
               PROVE  started[q] < started[p]
    BY DEF LaterStarts
  <2>1. q # r => q \notin Serving /\ call[q] # "new"
    BY <1>1 DEF Serving
  <2>2. q = r => p # r /\ p \in alongside[r]
    BY <1>0, <1>1 DEF ServedTogether
  <2> QED BY <1>0, <1>1, <2>1, <2>2 DEF LaterStarts
<1> QED BY <1>2, <1>3, <1>4 DEF TimesFollow

LEMMA ArrivalTimes ==
    ASSUME AlertsInvariant, NEW r \in Calls, Arrives(r)
    PROVE  TimesFollow'
<1>0. StartsFollow /\ KnownMutually /\ ServedTogether /\ LaterStarts /\ CallsAreTyped
  BY DEF AlertsInvariant, TimesFollow
<1> DEFINE n == Cardinality(Arrived)
<1>2. /\ call[r] = "new" /\ call'[r] # "new" /\ r \notin Serving /\ Serving' = Serving \cup {r}
      /\ \A q \in Calls \ {r} : call'[q] = call[q] /\ started'[q] = started[q]
      /\ started'[r] = n + 1 /\ alongside'[r] = Serving
      /\ \A q \in Calls \ {r} : \A p :
            p \in alongside'[q] <=> p \in alongside[q] \/ (p = r /\ q \in Serving)
  BY ArrivalFrame DEF UnderWay
<1>3. IsFiniteSet(Arrived) /\ r \notin Arrived /\ Serving \subseteq Calls
  BY <1>0, <1>2, MarketAlertsAssumption, FS_Subset DEF StartsFollow, Arrived, Serving
<1>4. Arrived' = Arrived \cup {r} /\ n \in Nat
  BY <1>0, <1>2, <1>3, FS_CardinalityType DEF CallsAreTyped, Arrived
<1>5. Cardinality(Arrived') = n + 1
  BY <1>3, <1>4, FS_AddElement
<1>6. \A q \in Calls : started[q] <= n
  BY <1>0 DEF StartsFollow
<1> HIDE DEF n
<1>7. StartsFollow'
  <2> SUFFICES ASSUME NEW q \in Calls
               PROVE  /\ started'[q] > 0 <=> call'[q] # "new"
                      /\ started'[q] <= n + 1
                      /\ call'[q] = "new" => alongside'[q] = {}
    BY <1>5 DEF StartsFollow
  <2>1. CASE q = r
    BY <1>2, <1>4, <2>1
  <2>2. CASE q # r
    BY <1>0, <1>2, <1>4, <1>6, <2>2 DEF StartsFollow, CallsAreTyped, Serving
  <2> QED BY <2>1, <2>2
<1>8. \A q \in Calls : r \notin alongside[q]
  BY <1>0, <1>2 DEF StartsFollow, KnownMutually, CallsAreTyped
<1>9. KnownMutually'
  <2> SUFFICES ASSUME NEW p \in Calls, NEW q \in Calls, q \in alongside'[p]
               PROVE  p \in alongside'[q]
    BY DEF KnownMutually
  <2>1. CASE p = r
    BY <1>2, <1>3, <2>1
  <2>2. CASE p # r /\ q = r
    BY <1>2, <1>8, <2>2
  <2>3. CASE p # r /\ q # r
    BY <1>0, <1>2, <2>3 DEF KnownMutually
  <2> QED BY <2>1, <2>2, <2>3
<1>10. ServedTogether'
  BY <1>0, <1>2, <1>3 DEF ServedTogether
<1>11. LaterStarts'
  <2> SUFFICES ASSUME NEW p \in Serving', NEW q \in Calls \ Serving', call'[q] # "new",
                      p \notin alongside'[q]
               PROVE  started'[q] < started'[p]
    BY DEF LaterStarts
  <2>1. q \in Calls \ Serving /\ q # r /\ call[q] # "new" /\ started'[q] = started[q]
    BY <1>2
  <2>2. CASE p = r
    BY <1>0, <1>2, <1>4, <1>6, <2>1, <2>2 DEF CallsAreTyped
  <2>3. CASE p # r
    BY <1>0, <1>2, <1>3, <2>1, <2>3 DEF LaterStarts
  <2> QED BY <2>2, <2>3
<1> QED BY <1>7, <1>9, <1>10, <1>11 DEF TimesFollow

LEMMA TimesStep ==
    ASSUME AlertsInvariant, NEW r \in Calls, CallSteps(r)
    PROVE  TimesFollow'
<1>1. CASE Arrives(r)
  BY <1>1, ArrivalTimes
<1>2. CASE Proceeds(r) \/ InsertPreview(r) \/ Stops(r)
  BY <1>2, AsideSteps, LeavingTimes DEF CallAside
<1>3. CASE CommitCall(r)
  BY <1>3, CallCommitFrame, LeavingTimes
<1> QED BY <1>1, <1>2, <1>3 DEF CallSteps

\* A row after the feedback of a commit.
Answered(r, a) ==
    IF a.id = ask[r].on
    THEN [a EXCEPT !.feedback = ask[r].value, !.feedbackAt = ask[r].at, !.feedbackBy = r]
    ELSE a

LEMMA AnsweredKeeps ==
    ASSUME NEW r, NEW a, IsPreview(a), NEW b, b = Answered(r, a)
    PROVE  /\ IsPreview(b) /\ Key(b) = Key(a) /\ b.by = a.by /\ b.at = a.at /\ b.asOf = a.asOf
           /\ b.symbol = a.symbol /\ b.direction = a.direction
           /\ \/ b = a
              \/ b.feedback = ask[r].value /\ b.feedbackAt = ask[r].at /\ b.feedbackBy = r
<1>1. CASE b = a
  BY <1>1
<1>2. CASE b = [a EXCEPT !.feedback = ask[r].value, !.feedbackAt = ask[r].at, !.feedbackBy = r]
  BY <1>2 DEF IsPreview, Key
<1> QED BY <1>1, <1>2 DEF Answered

LEMMA PreviewIsRecord ==
    ASSUME NEW r, NEW d
    PROVE  LET a == Preview(r, d) IN
           /\ IsPreview(a) /\ a.by = r /\ a.symbol = d.symbol /\ a.direction = d.direction
           /\ a.at = ask[r].at /\ a.asOf = ask[r].asOf /\ a.feedback = "none"
BY DEF Preview, IsPreview

\* What a commit does to the previews: feedback answers rows, the rest stores those it added.
Stores(r) == previews' = previews \cup added[r] /\ (added[r] # {} => Asks(r) = "evaluate")
Answers(r) ==
    /\ previews' = {Answered(r, a) : a \in previews}
    /\ Asks(r) = "feedback" /\ ask[r].at = now /\ added[r] = {}

LEMMA CommittedPreviews ==
    ASSUME AlertsInvariant, NEW r \in Calls, CommitCall(r)
    PROVE  Stores(r) \/ Answers(r)
<1>1. CallsFollow /\ AddedAreTyped
  BY DEF AlertsInvariant
<1>2. call[r] = "commit" /\ previews' = IF Asks(r) # "feedback" THEN previews \cup added[r]
                                        ELSE {Answered(r, a) : a \in previews}
  BY DEF CommitCall, Answered
<1>3. Asks(r) = "feedback" => ask[r].at = now
  BY <1>1, <1>2 DEF CallsFollow
<1> QED BY <1>1, <1>2, <1>3 DEF AddedAreTyped, Stores, Answers

\* Previews are not disturbed by what stores none.
LEMMA StoredStay ==
    ASSUME AlertsInvariant, NEW r \in Calls, Arrives(r) \/ CallAside(r)
    PROVE  /\ previews' = previews /\ now' = now /\ session' = session /\ policies' = policies
           /\ lastPut' = lastPut
           /\ call[r] # "done"
           /\ \A q \in Calls \ {r} : /\ call'[q] = call[q] /\ ask'[q] = ask[q]
                                     /\ added'[q] = added[q] /\ order'[q] = order[q]
                                     /\ policy'[q] = policy[q] /\ started'[q] = started[q]
                                     /\ todo'[q] = todo[q]
<1>1. CASE Arrives(r)
  BY <1>1, ArrivalFrame
<1>2. CASE CallAside(r)
  BY <1>2 DEF CallAside, Serving
<1> QED BY <1>1, <1>2

LEMMA StoredTypesStep ==
    ASSUME AlertsInvariant, NEW r \in Calls, CallSteps(r)
    PROVE  StoredAreTyped'
<1>0. StoredAreTyped /\ AddedAreTyped /\ CallsFollow /\ CallsAreTyped
  BY DEF AlertsInvariant
<1>1. CASE Arrives(r) \/ Proceeds(r) \/ InsertPreview(r) \/ Stops(r)
  <2>1. /\ previews' = previews /\ now' = now /\ session' = session /\ call[r] # "done"
        /\ \A q \in Calls \ {r} : call'[q] = call[q]
    BY <1>1, StoredStay, AsideSteps
  <2> QED BY <1>0, <2>1 DEF StoredAreTyped, IsPreview
<1>2. CASE CommitCall(r)
  <2>1. /\ now' = now /\ session' = session /\ call'[r] = "done" /\ call[r] = "commit"
        /\ \A q \in Calls \ {r} : call'[q] = call[q]
    BY <1>2, CallCommitFrame
  <2> SUFFICES ASSUME NEW b \in previews'
               PROVE  /\ IsPreview(b) /\ b.by \in Calls /\ call'[b.by] = "done"
                      /\ b.at \in 0 .. now /\ b.asOf \in 0 .. session
                      /\ b.feedback \in Suppressing =>
                            /\ b.feedbackAt \in Nat /\ b.feedbackBy \in Calls
                            /\ call'[b.feedbackBy] = "done"
    BY <2>1 DEF StoredAreTyped, IsPreview
  <2>2. \A a \in previews :
           /\ IsPreview(a) /\ a.by \in Calls /\ call'[a.by] = "done"
           /\ a.at \in 0 .. now /\ a.asOf \in 0 .. session
           /\ a.feedback \in Suppressing =>
                 a.feedbackAt \in Nat /\ a.feedbackBy \in Calls /\ call'[a.feedbackBy] = "done"
    BY <1>0, <2>1 DEF StoredAreTyped
  <2>3. CASE Stores(r)
    <3>1. CASE b \in previews
      BY <2>2, <3>1
    <3>2. CASE b \in added[r]
      <4>1. IsPreview(b) /\ b.by = r /\ b.at = now /\ b.asOf = session /\ b.feedback = "none"
        BY <1>0, <3>2 DEF AddedAreTyped
      <4> QED BY <1>0, <2>1, <4>1 DEF CallsAreTyped, Suppressing
    <3> QED BY <2>3, <3>1, <3>2 DEF Stores
  <2>4. CASE Answers(r)
    <3>1. PICK a \in previews : b = Answered(r, a)
      BY <2>4 DEF Answers
    <3>2. /\ IsPreview(b) /\ b.by = a.by /\ b.at = a.at /\ b.asOf = a.asOf
          /\ \/ b = a
             \/ b.feedbackAt = ask[r].at /\ b.feedbackBy = r
      BY <2>2, <3>1, AnsweredKeeps
    <3>3. ask[r].at \in Nat
      BY <1>0, <2>4 DEF Answers, CallsAreTyped
    <3> QED BY <2>1, <2>2, <3>2, <3>3
  <2> QED BY <1>2, <2>3, <2>4, CommittedPreviews
<1> QED BY <1>1, <1>2 DEF CallSteps

LEMMA AddedTypesStep ==
    ASSUME AlertsInvariant, NEW r \in Calls, CallSteps(r)
    PROVE  AddedAreTyped'
<1>0. AddedAreTyped /\ CallsFollow
  BY DEF AlertsInvariant
<1>1. /\ now' = now /\ session' = session
      /\ \A q \in Calls \ {r} : call'[q] = call[q] /\ ask'[q] = ask[q] /\ added'[q] = added[q]
  BY StoredStay, AsideSteps, CallCommitFrame DEF CallSteps
<1> SUFFICES ASSUME NEW a \in added'[r]
             PROVE  /\ call'[r] \in {"check", "insert", "commit"} /\ Asks(r)' = "evaluate"
                    /\ IsPreview(a) /\ a.by = r /\ a.at = now /\ a.asOf = session
                    /\ a.feedback = "none"
  BY <1>0, <1>1 DEF AddedAreTyped, Asks, IsPreview
<1>2. CASE Arrives(r)
  BY <1>0, <1>2, ArrivalFrame DEF AddedAreTyped
<1>3. CASE Proceeds(r)
  BY <1>0, <1>3, AdvanceFrame DEF AddedAreTyped, CallAside, Asks
<1>4. CASE InsertPreview(r)
  <2>1. /\ added'[r] = added[r] \cup {Preview(r, Head(todo[r]))} /\ ask' = ask
        /\ call[r] = "insert" /\ call'[r] = "check" /\ Asks(r) = "evaluate"
    BY <1>4, InsertFrame DEF CallAside
  <2>2. CASE a \in added[r]
    BY <1>0, <2>1, <2>2 DEF AddedAreTyped, Asks
  <2>3. CASE a = Preview(r, Head(todo[r]))
    <3>1. ask[r].at = now /\ ask[r].asOf = session
      BY <1>0, <2>1 DEF CallsFollow
    <3> QED BY <2>1, <2>3, <3>1, PreviewIsRecord DEF Asks
  <2> QED BY <2>1, <2>2, <2>3
<1>5. CASE Stops(r)
  BY <1>5, StopFrame
<1>6. CASE CommitCall(r)
  BY <1>6, CallCommitFrame
<1> QED BY <1>2, <1>3, <1>4, <1>5, <1>6 DEF CallSteps

LEMMA KeysStep ==
    ASSUME AlertsInvariant, NEW r \in Calls, CallSteps(r)
    PROVE  /\ StoredKeysDiffer' /\ AddedAreNotStored' /\ AddedKeysDiffer' /\ AddedOnce'
<1>0. /\ StoredKeysDiffer /\ AddedAreNotStored /\ AddedKeysDiffer /\ AddedOnce
      /\ StoredAreTyped /\ AddedAreTyped
  BY DEF AlertsInvariant
<1>1. \A q \in Calls \ {r} : added'[q] = added[q]
  BY StoredStay, AsideSteps, CallCommitFrame DEF CallSteps
<1>2. CASE added'[r] \subseteq added[r] /\ previews' = previews
  <2>1. \A q \in Calls : added'[q] \subseteq added[q]
    BY <1>1, <1>2
  <2> QED BY <1>0, <1>2, <2>1 DEF StoredKeysDiffer, AddedAreNotStored, AddedKeysDiffer, AddedOnce,
             Key, SameKind
<1>3. Arrives(r) \/ Proceeds(r) \/ Stops(r) => added'[r] \subseteq added[r] /\ previews' = previews
  BY ArrivalFrame, AdvanceFrame, StopFrame DEF CallAside
<1>4. CASE InsertPreview(r)
  <2> DEFINE new == Preview(r, Head(todo[r]))
  <2>1. /\ added'[r] = added[r] \cup {new} /\ previews' = previews
        /\ call[r] = "insert" /\ ~ KeyTaken(r) /\ ~ KeyPending(r)
    BY <1>4, InsertFrame DEF CallAside
  <2>2. new.symbol = Head(todo[r]).symbol /\ new.direction = Head(todo[r]).direction
    BY PreviewIsRecord
  <2>3. \A b \in previews : Key(new) # Key(b)
    BY <2>1 DEF KeyTaken
  <2>4. \A q \in Calls \ {r} : \A b \in added[q] : Key(new) # Key(b)
    BY <1>0, <2>1 DEF KeyPending, AddedAreTyped, Serving
  <2>5. \A a \in added[r] : ~ SameKind(Head(todo[r]), a)
    BY <2>1 DEF AlertsInvariant, AddedAreFresh
  <2>6. \A a \in added[r] : ~ SameKind(new, a) /\ ~ SameKind(a, new)
    BY <2>2, <2>5 DEF SameKind
  <2> HIDE DEF new
  <2>7. StoredKeysDiffer'
    BY <1>0, <2>1 DEF StoredKeysDiffer, Key
  <2>8. AddedAreNotStored'
    BY <1>0, <1>1, <2>1, <2>3 DEF AddedAreNotStored, Key
  <2>9. AddedKeysDiffer'
    BY <1>0, <1>1, <2>1, <2>4 DEF AddedKeysDiffer, Key
  <2>10. AddedOnce'
    BY <1>0, <1>1, <2>1, <2>6 DEF AddedOnce, SameKind
  <2> QED BY <2>7, <2>8, <2>9, <2>10
<1>5. CASE CommitCall(r)
  <2>1. added'[r] = {}
    BY <1>5, CallCommitFrame
  <2>2. AddedKeysDiffer' /\ AddedOnce'
    BY <1>0, <1>1, <2>1 DEF AddedKeysDiffer, AddedOnce, Key, SameKind
  <2>3. CASE Stores(r)
    <3>1. \A a, b \in added[r] : Key(a) = Key(b) => a = b
      BY <1>0 DEF AddedOnce, SameKind, Key
    <3>2. StoredKeysDiffer'
      BY <1>0, <2>3, <3>1 DEF StoredKeysDiffer, AddedAreNotStored, Stores, Key
    <3>3. AddedAreNotStored'
      BY <1>0, <1>1, <2>1, <2>3 DEF AddedAreNotStored, AddedKeysDiffer, Stores, Key
    <3> QED BY <2>2, <3>2, <3>3
  <2>4. CASE Answers(r)
    <3>1. \A b \in previews' : \E a \in previews : b = Answered(r, a) /\ Key(b) = Key(a)
      BY <1>0, <2>4, AnsweredKeeps DEF Answers, StoredAreTyped
    <3>2. StoredKeysDiffer'
      BY <1>0, <3>1 DEF StoredKeysDiffer, Key
    <3>3. AddedAreNotStored'
      BY <1>0, <1>1, <2>1, <3>1 DEF AddedAreNotStored, Key
    <3> QED BY <2>2, <3>2, <3>3
  <2> QED BY <1>5, <2>3, <2>4, CommittedPreviews
<1> QED BY <1>2, <1>3, <1>4, <1>5 DEF CallSteps

\* A request that has just arrived ran beside none that ended.
LEMMA NewcomerIsUnknown ==
    ASSUME AlertsInvariant, NEW r \in Calls, Arrives(r)
    PROVE  /\ \A q \in Calls : r \notin alongside[q]
           /\ \A q \in Calls \ {r} : alongside[q] \subseteq alongside'[q]
           /\ \A q \in Calls \ (Serving \cup {r}) : alongside'[q] = alongside[q]
<1>0. StartsFollow /\ KnownMutually /\ CallsAreTyped
  BY DEF AlertsInvariant, TimesFollow
<1>1. /\ call[r] = "new"
      /\ \A q \in Calls \ {r} : \A p :
            p \in alongside'[q] <=> p \in alongside[q] \/ (p = r /\ q \in Serving)
  BY ArrivalFrame
<1>2. \A q \in Calls : r \notin alongside[q]
  BY <1>0, <1>1 DEF StartsFollow, KnownMutually, CallsAreTyped
<1> QED BY <1>1, <1>2

\* Who began before whom, and did not run beside it, is settled once both have begun.
LEMMA BeforeStays ==
    ASSUME AlertsInvariant, NEW r \in Calls, CallSteps(r), NEW p \in Calls, NEW q \in Calls,
           call[p] # "new", call[q] # "new"
    PROVE  Before(p, q)' => Before(p, q)
<1>1. CASE Arrives(r)
  <2>1. p # r /\ q # r
    BY <1>1, ArrivalFrame
  <2> QED BY <1>1, <2>1, ArrivalFrame, NewcomerIsUnknown DEF Before
<1>2. CASE started' = started /\ alongside' = alongside
  BY <1>2 DEF Before
<1> QED BY <1>1, <1>2, AsideSteps, CallCommitFrame DEF CallSteps, CallAside

\* FreshFor after a step, of a decision of that moment.
FreshAfter(r, d) ==
    /\ \A a \in previews' :
          SameKind(d, a) /\ a.at >= now' - RepeatWindow => a.by \in alongside'[r]
    /\ \A b \in previews' :
          SameKind(d, b) /\ b.feedback \in Suppressing /\ Before(b.feedbackBy, r)' =>
              now' > b.feedbackAt + FeedbackWindow

\* What is fresh for a request under way stays so.
LEMMA FreshStays ==
    ASSUME AlertsInvariant, NEW r \in Calls, CallSteps(r), NEW q \in Serving, NEW d, NEW e,
           FreshFor(q, d), SameKind(d, e), CommitCall(r) => q # r
    PROVE  FreshAfter(q, e)
<1>0. /\ StoredAreTyped /\ AddedAreTyped /\ ServedTogether /\ q \in Calls /\ call[q] # "new"
      /\ e.symbol = d.symbol /\ e.direction = d.direction
  BY DEF AlertsInvariant, TimesFollow, Serving, SameKind
<1>1. \A p \in Calls : call[p] = "done" => (Before(p, q)' => Before(p, q))
  BY <1>0, BeforeStays
<1>2. CASE Arrives(r) \/ Proceeds(r) \/ InsertPreview(r) \/ Stops(r)
  <2>1. previews' = previews /\ now' = now
    BY <1>2, StoredStay, AsideSteps
  <2>2. alongside[q] \subseteq alongside'[q]
    <3>1. CASE Arrives(r)
      BY <1>0, <3>1, NewcomerIsUnknown, ArrivalFrame
    <3> QED BY <1>2, <3>1, AsideSteps DEF CallAside
  <2> QED BY <1>0, <1>1, <2>1, <2>2 DEF FreshAfter, FreshFor, SameKind, StoredAreTyped
<1>3. CASE CommitCall(r)
  <2>1. /\ now' = now /\ alongside' = alongside /\ r \in alongside[q] /\ started' = started
    BY <1>0, <1>3, CallCommitFrame DEF ServedTogether
  <2>2. ~ Before(r, q)'
    BY <2>1 DEF Before
  <2>3. CASE Stores(r)
    <3>1. \A b \in added[r] : b.by = r /\ b.feedback \notin Suppressing
      BY <1>0 DEF AddedAreTyped, Suppressing
    <3> QED BY <1>0, <1>1, <2>1, <2>3, <3>1 DEF Stores, FreshAfter, FreshFor, SameKind, StoredAreTyped
  <2>4. CASE Answers(r)
    <3> SUFFICES ASSUME NEW b \in previews', SameKind(e, b)
                 PROVE  /\ b.at >= now - RepeatWindow => b.by \in alongside[q]
                        /\ b.feedback \in Suppressing /\ Before(b.feedbackBy, q)' =>
                              now > b.feedbackAt + FeedbackWindow
      BY <2>1 DEF FreshAfter, FreshFor, SameKind
    <3>1. PICK a \in previews : b = Answered(r, a)
      BY <2>4 DEF Answers
    <3>2. /\ b.by = a.by /\ b.at = a.at /\ SameKind(d, a)
          /\ b = a \/ b.feedbackBy = r
      BY <1>0, <3>1, AnsweredKeeps DEF StoredAreTyped, SameKind
    <3> QED BY <1>0, <1>1, <2>2, <3>2 DEF FreshAfter, FreshFor, StoredAreTyped
  <2> QED BY <1>3, <2>3, <2>4, CommittedPreviews
<1> QED BY <1>2, <1>3 DEF CallSteps

\* The two queries of add_decision find what there is.
LEMMA CheckedIsFresh ==
    ASSUME AlertsInvariant, NEW r \in Calls, NEW d, ~ SuppressedByFeedback(d), ~ SeenLately(r, d)
    PROVE  FreshFor(r, d) /\ \A a \in added[r] : ~ SameKind(d, a)
<1>0. StoredAreTyped /\ AddedAreTyped /\ CallsAreTyped
  BY DEF AlertsInvariant
<1>1. RepeatWindow \in Nat /\ FeedbackWindow \in Nat /\ now \in Nat
  BY <1>0, MarketAlertsAssumption DEF CallsAreTyped
<1>2. \A a \in added[r] : a.at = now
  BY <1>0 DEF AddedAreTyped
<1> QED BY <1>0, <1>1, <1>2 DEF FreshFor, SuppressedByFeedback, SeenLately, StoredAreTyped

LEMMA FreshStep ==
    ASSUME AlertsInvariant, NEW r \in Calls, CallSteps(r)
    PROVE  AddedAreFresh'
<1>0. AddedAreFresh /\ AddedAreTyped
  BY DEF AlertsInvariant
<1>1. \A q \in Calls \ {r} : call'[q] = call[q] /\ added'[q] = added[q] /\ todo'[q] = todo[q]
  <2>1. CommitCall(r) => todo' = todo
    BY CallCommitFrame
  <2> QED BY <2>1, StoredStay, AsideSteps, CallCommitFrame DEF CallSteps
<1> SUFFICES ASSUME NEW q \in Calls
             PROVE  /\ \A a \in added'[q] : FreshAfter(q, a)
                    /\ call'[q] = "insert" => FreshAfter(q, Head(todo'[q]))
                    /\ call'[q] = "insert" => \A a \in added'[q] : ~ SameKind(Head(todo'[q]), a)
  BY DEF AddedAreFresh, FreshAfter, FreshFor, SameKind, Before
<1>2. \A d : SameKind(d, d)
  BY DEF SameKind
<1>3. CASE q # r
  <2>1. added[q] # {} \/ call[q] = "insert" => q \in Serving
    BY <1>0 DEF AddedAreTyped, Serving
  <2>2. \A a \in added[q] : FreshAfter(q, a)
    BY <1>0, <1>2, <1>3, <2>1, FreshStays DEF AddedAreFresh
  <2>3. call[q] = "insert" => FreshAfter(q, Head(todo[q]))
    BY <1>0, <1>2, <1>3, <2>1, FreshStays DEF AddedAreFresh
  <2> QED BY <1>0, <1>1, <1>3, <2>2, <2>3 DEF AddedAreFresh, SameKind
<1>4. CASE q = r /\ Arrives(r)
  BY <1>0, <1>4, ArrivalFrame DEF AddedAreTyped, UnderWay, Arrives
<1>5. CASE q = r /\ Proceeds(r)
  <2>1. /\ added'[r] = added[r] /\ r \in Serving
        /\ call'[r] = "insert" => /\ todo'[r] = todo[r]
                                  /\ ~ SuppressedByFeedback(Head(todo[r]))
                                  /\ ~ SeenLately(r, Head(todo[r]))
    BY <1>5, AdvanceFrame DEF CallAside
  <2>2. call'[r] = "insert" => /\ FreshFor(r, Head(todo[r]))
                               /\ \A a \in added[r] : ~ SameKind(Head(todo[r]), a)
    BY <2>1, CheckedIsFresh
  <2>3. ~ CommitCall(r)
    BY <1>5, AdvanceFrame, CallCommitFrame
  <2>4. \A a \in added[r] : FreshAfter(r, a)
    BY <1>0, <1>2, <2>1, <2>3, FreshStays DEF AddedAreFresh
  <2>5. call'[r] = "insert" => FreshAfter(r, Head(todo[r]))
    BY <1>2, <2>1, <2>2, <2>3, FreshStays
  <2> QED BY <1>5, <2>1, <2>2, <2>4, <2>5
<1>6. CASE q = r /\ InsertPreview(r)
  <2> DEFINE new == Preview(r, Head(todo[r]))
  <2>1. /\ added'[r] = added[r] \cup {new} /\ r \in Serving
        /\ call[r] = "insert" /\ call'[r] = "check"
    BY <1>6, InsertFrame DEF CallAside
  <2>2. ~ CommitCall(r)
    BY <2>1, CallCommitFrame
  <2>3. SameKind(Head(todo[r]), new) /\ FreshFor(r, Head(todo[r]))
    BY <1>0, <2>1, PreviewIsRecord DEF SameKind, AddedAreFresh
  <2> HIDE DEF new
  <2>4. FreshAfter(r, new)
    BY <2>1, <2>2, <2>3, FreshStays
  <2>5. \A a \in added[r] : FreshAfter(r, a)
    BY <1>0, <1>2, <2>1, <2>2, FreshStays DEF AddedAreFresh
  <2> QED BY <1>6, <2>1, <2>4, <2>5
<1>7. CASE q = r /\ Stops(r)
  BY <1>7, StopFrame
<1>8. CASE q = r /\ CommitCall(r)
  BY <1>8, CallCommitFrame
<1> QED BY <1>3, <1>4, <1>5, <1>6, <1>7, <1>8 DEF CallSteps

LEMMA NotRepeatedStep ==
    ASSUME AlertsInvariant, NEW r \in Calls, CallSteps(r)
    PROVE  PreviewNotRepeated'
<1>0. /\ PreviewNotRepeated /\ StoredAreTyped /\ AddedAreTyped /\ AddedAreNotStored /\ AddedOnce
      /\ AddedAreFresh /\ KnownMutually /\ CallsAreTyped
      /\ RepeatWindow \in Nat
  BY MarketAlertsAssumption DEF AlertsInvariant, PreviewsAreJustified, TimesFollow
<1>1. CASE Arrives(r)
  <2>1. previews' = previews /\ \A b \in previews : alongside[b.by] \subseteq alongside'[b.by]
    BY <1>0, <1>1, NewcomerIsUnknown, ArrivalFrame DEF StoredAreTyped
  <2> QED BY <1>0, <2>1 DEF PreviewNotRepeated, SameKind, Key
<1>2. CASE Proceeds(r) \/ InsertPreview(r) \/ Stops(r)
  <2>1. previews' = previews /\ alongside' = alongside
    BY <1>2, AsideSteps DEF CallAside
  <2> QED BY <1>0, <2>1 DEF PreviewNotRepeated, SameKind, Key
<1>3. CASE CommitCall(r)
  <2>1. alongside' = alongside
    BY <1>3, CallCommitFrame
  <2> SUFFICES ASSUME NEW a \in previews', NEW b \in previews', a # b, SameKind(a, b),
                      a.at <= b.at, b.at <= a.at + RepeatWindow
               PROVE  a.by \in alongside[b.by] /\ Key(a) # Key(b)
    BY <2>1 DEF PreviewNotRepeated, SameKind, Key
  <2>2. CASE Stores(r)
    <3>1. \A c \in added[r] : c.by = r /\ c.at = now /\ FreshFor(r, c)
      BY <1>0 DEF AddedAreTyped, AddedAreFresh
    <3>2. now \in Nat /\ \A c \in previews : c.at \in 0 .. now /\ c.by \in Calls
      BY <1>0 DEF CallsAreTyped, StoredAreTyped
    <3>3. CASE a \in previews /\ b \in previews
      BY <1>0, <3>3 DEF PreviewNotRepeated
    <3>4. CASE a \in previews /\ b \in added[r]
      <4>1. SameKind(b, a) /\ a.at >= now - RepeatWindow
        BY <1>0, <3>1, <3>2, <3>4 DEF SameKind
      <4> QED BY <1>0, <3>1, <3>4, <4>1 DEF FreshFor, AddedAreNotStored
    <3>5. CASE a \in added[r] /\ b \in previews
      <4>1. b.at >= now - RepeatWindow
        BY <1>0, <3>1, <3>2, <3>5
      <4> QED BY <1>0, <3>1, <3>2, <3>5, <4>1 DEF FreshFor, AddedAreNotStored, KnownMutually
    <3>6. CASE a \in added[r] /\ b \in added[r]
      BY <1>0, <3>6 DEF AddedOnce
    <3> QED BY <2>2, <3>3, <3>4, <3>5, <3>6 DEF Stores
  <2>3. CASE Answers(r)
    <3>1. PICK c \in previews : a = Answered(r, c)
      BY <2>3 DEF Answers
    <3>2. PICK d \in previews : b = Answered(r, d)
      BY <2>3 DEF Answers
    <3>3. /\ c # d /\ c.at = a.at /\ d.at = b.at /\ c.by = a.by /\ d.by = b.by
          /\ Key(c) = Key(a) /\ Key(d) = Key(b) /\ SameKind(c, d)
      BY <1>0, <3>1, <3>2, AnsweredKeeps DEF StoredAreTyped, SameKind
    <3> QED BY <1>0, <3>3 DEF PreviewNotRepeated
  <2> QED BY <1>3, <2>2, <2>3, CommittedPreviews
<1> QED BY <1>1, <1>2, <1>3 DEF CallSteps

LEMMA RespectedStep ==
    ASSUME AlertsInvariant, NEW r \in Calls, CallSteps(r)
    PROVE  FeedbackRespected'
<1>0. /\ FeedbackRespected /\ StoredAreTyped /\ AddedAreTyped /\ AddedAreFresh
      /\ KnownMutually /\ LaterStarts /\ CallsAreTyped
  BY DEF AlertsInvariant, PreviewsAreJustified, TimesFollow
<1>1. \A p, q \in Calls : call[p] # "new" /\ call[q] # "new" => (Before(p, q)' => Before(p, q))
  BY BeforeStays
<1>2. CASE previews' = previews
  BY <1>0, <1>1, <1>2 DEF FeedbackRespected, SameKind, StoredAreTyped
<1>3. CASE CommitCall(r)
  <2>1. started' = started /\ alongside' = alongside /\ call[r] # "new" /\ r \in Serving
    BY <1>3, CallCommitFrame
  <2> SUFFICES ASSUME NEW a \in previews', NEW b \in previews', b.feedback \in Suppressing,
                      SameKind(a, b), Before(b.feedbackBy, a.by)'
               PROVE  a.at > b.feedbackAt + FeedbackWindow
    BY DEF FeedbackRespected, SameKind
  <2>2. CASE Stores(r)
    <3>1. \A c \in added[r] : c.by = r /\ c.at = now /\ FreshFor(r, c) /\ c.feedback = "none"
      BY <1>0 DEF AddedAreTyped, AddedAreFresh
    <3>2. b \in previews
      BY <2>2, <3>1 DEF Stores, Suppressing
    <3>3. CASE a \in previews
      BY <1>0, <1>1, <3>2, <3>3 DEF FeedbackRespected, StoredAreTyped
    <3>4. CASE a \in added[r]
      BY <1>0, <1>1, <2>1, <3>1, <3>2, <3>4 DEF FreshFor, StoredAreTyped
    <3> QED BY <2>2, <3>3, <3>4 DEF Stores
  <2>3. CASE Answers(r)
    <3>1. PICK c \in previews : a = Answered(r, c)
      BY <2>3 DEF Answers
    <3>2. PICK d \in previews : b = Answered(r, d)
      BY <2>3 DEF Answers
    <3>3. /\ c.at = a.at /\ c.by = a.by /\ SameKind(c, d)
          /\ b = d \/ b.feedbackBy = r
      BY <1>0, <3>1, <3>2, AnsweredKeeps DEF StoredAreTyped, SameKind
    <3>4. b.feedbackBy # r
      <4>1. a.by \in Calls \ Serving /\ call[a.by] # "new"
        BY <1>0, <3>3 DEF StoredAreTyped, Serving
      <4>2. r \notin alongside[a.by] => started[a.by] < started[r]
        BY <1>0, <2>1, <4>1 DEF LaterStarts
      <4>3. started[a.by] \in Nat /\ started[r] \in Nat
        BY <1>0, <4>1 DEF CallsAreTyped
      <4> QED BY <2>1, <4>2, <4>3 DEF Before
    <3> QED BY <1>0, <1>1, <3>3, <3>4 DEF FeedbackRespected, StoredAreTyped
  <2> QED BY <1>3, <2>2, <2>3, CommittedPreviews
<1> QED BY <1>2, <1>3, StoredStay, AsideSteps DEF CallSteps

LEMMA CollisionStep ==
    ASSUME AlertsInvariant, NEW r \in Calls, CallSteps(r)
    PROVE  CollisionIsRepeat'
<1>0. CollisionIsRepeat /\ StoredAreTyped /\ AddedAreFresh /\ CallsFollow /\ CallsAreTyped
  BY DEF AlertsInvariant, PreviewsAreJustified
<1> SUFFICES ASSUME NEW q \in Calls, call'[q] = "collided"
             PROVE  \E a \in previews' :
                        /\ Key(a) = Key(Preview(q, Head(todo[q])))'
                        /\ a.by \in alongside'[q] \/ a.at < ask'[q].at - RepeatWindow
  BY DEF CollisionIsRepeat, Key, Preview
<1>1. CASE q = r
  <2>1. Stops(r)
    BY <1>1, ArrivalFrame, AdvanceFrame, InsertFrame, CallCommitFrame DEF CallSteps, UnderWay
  <2>2. /\ call[r] = "insert" /\ todo'[r] = todo[r] /\ KeyTaken(r) /\ Asks(r) = "evaluate"
        /\ previews' = previews /\ alongside' = alongside /\ ask' = ask /\ policy' = policy
    BY <1>1, <2>1, StopFrame DEF CallAside
  <2>3. PICK a \in previews : Key(a) = Key(Preview(r, Head(todo[r])))
    BY <2>2 DEF KeyTaken
  <2>4. FreshFor(r, Head(todo[r])) /\ ask[r].at = now
    BY <1>0, <2>2 DEF AddedAreFresh, CallsFollow
  <2>5. SameKind(Head(todo[r]), a)
    BY <2>3, PreviewIsRecord DEF SameKind, Key
  <2>6. a.by \in alongside[r] \/ a.at < now - RepeatWindow
    <3>1. a.at \in Nat /\ now \in Nat /\ RepeatWindow \in Nat
      BY <1>0, MarketAlertsAssumption DEF StoredAreTyped, CallsAreTyped
    <3> QED BY <2>4, <2>5, <3>1 DEF FreshFor
  <2>7. Key(Preview(r, Head(todo[r])))' = Key(Preview(r, Head(todo[r])))
    BY <2>2 DEF Key, Preview
  <2> QED BY <1>1, <2>2, <2>3, <2>4, <2>6, <2>7
<1>2. CASE q # r
  <2>1. /\ call'[q] = call[q] /\ todo'[q] = todo[q] /\ policy'[q] = policy[q] /\ ask'[q] = ask[q]
    <3>1. CommitCall(r) => todo' = todo /\ policy' = policy /\ ask' = ask /\ call'[q] = call[q]
      BY <1>2, CallCommitFrame
    <3> QED BY <1>2, <3>1, StoredStay, AsideSteps DEF CallSteps
  <2>2. Key(Preview(q, Head(todo[q])))' = Key(Preview(q, Head(todo[q])))
    BY <2>1 DEF Key, Preview
  <2>3. alongside[q] \subseteq alongside'[q]
    BY <1>2, NewcomerIsUnknown, AsideSteps, CallCommitFrame DEF CallSteps, CallAside
  <2>4. PICK a \in previews :
           /\ Key(a) = Key(Preview(q, Head(todo[q])))
           /\ a.by \in alongside[q] \/ a.at < ask[q].at - RepeatWindow
    BY <1>0, <2>1 DEF CollisionIsRepeat
  <2>5. \E b \in previews' : Key(b) = Key(a) /\ b.by = a.by /\ b.at = a.at
    <3>1. CASE previews \subseteq previews'
      BY <3>1
    <3>2. CASE Answers(r)
      BY <1>0, <3>2, AnsweredKeeps DEF Answers, StoredAreTyped
    <3> QED BY <3>1, <3>2, CommittedPreviews, StoredStay, AsideSteps DEF CallSteps, Stores
  <2> QED BY <2>1, <2>2, <2>3, <2>4, <2>5
<1> QED BY <1>1, <1>2

\* The newest stored row is a stored row.
LEMMA LatestRowIsStored ==
    ASSUME AlertsInvariant, DOMAIN policies # {}
    PROVE  LatestRow(DOMAIN policies) \in DOMAIN policies
<1> DEFINE places == {order[j] : j \in DOMAIN policies}
<1>1. DOMAIN policies \subseteq Calls /\ \A j \in Calls : order[j] \in Nat
  BY DEF AlertsInvariant, SettingsFollow, CallsAreTyped
<1>2. IsFiniteSet(places)
  BY <1>1, MarketAlertsAssumption, FS_Subset, ValuesAreFinite
<1>3. places \in SUBSET Int /\ places # {}
  BY <1>1
<1>4. \E n \in places : \A k \in places : k <= n
  BY <1>2, <1>3, LargestExists
<1>5. \E i \in DOMAIN policies : \A j \in DOMAIN policies : order[j] <= order[i]
  BY <1>4
<1> QED BY <1>5 DEF LatestRow

\* What a request that arrives reads: its own row when none is stored, or the newest one.
LEMMA ArrivalReads ==
    ASSUME AlertsInvariant, NEW r \in Calls, Arrives(r)
    PROVE  \/ /\ DOMAIN policies = {} /\ order'[r] > 0
              /\ policy'[r].row = r /\ policy'[r].was = DefaultPolicy
           \/ /\ DOMAIN policies # {} /\ order' = order
              /\ policy'[r].row = LatestRow(DOMAIN policies)
              /\ policy'[r].row \in DOMAIN policies /\ policy'[r].row # r
              /\ policy'[r].was = policies[policy'[r].row]
           \/ order' = order /\ policy'[r].row = Nobody /\ ask'[r].kind = "feedback"
<1>0. CallsAreTyped /\ CallsFollow /\ SettingsFollow
  BY DEF AlertsInvariant
<1>1. call[r] = "new"
  BY ArrivalFrame
<1>2. \A i \in DOMAIN policies : i # r
  BY <1>0, <1>1 DEF SettingsFollow
<1>3. CASE UNCHANGED <<order, policy>> /\ Asks(r)' = "feedback"
  BY <1>0, <1>1, <1>3 DEF CallsFollow, Asks
<1>4. CASE ReadPolicy(r) /\ DOMAIN policies = {}
  <2> DEFINE n == Cardinality({q \in Calls : order[q] > 0})
  <2>1. n \in Nat
    BY MarketAlertsAssumption, FS_Subset, FS_CardinalityType
  <2>2. order' = [order EXCEPT ![r] = n + 1]
        /\ policy' = [policy EXCEPT ![r] = [row |-> r, was |-> DefaultPolicy]]
    BY <1>4 DEF ReadPolicy
  <2> HIDE DEF n
  <2> QED BY <1>0, <1>4, <2>1, <2>2 DEF CallsAreTyped
<1>5. CASE ReadPolicy(r) /\ DOMAIN policies # {}
  BY <1>0, <1>2, <1>5, LatestRowIsStored DEF ReadPolicy, CallsAreTyped
<1> QED BY <1>3, <1>4, <1>5 DEF Arrives

\* What a commit does to a stored row, and which rows it leaves.
LEMMA CommittedSettings ==
    ASSUME AlertsInvariant, NEW r \in Calls, CommitCall(r)
    PROVE  /\ DOMAIN policies' = DOMAIN policies \cup (IF OwnRow(r) THEN {r} ELSE {})
           /\ \A j \in DOMAIN policies' :
                 LET row == IF j = r THEN policy[r].was ELSE policies[j] IN
                 policies'[j] = IF j = policy[r].row /\ Asks(r) = "put"
                                THEN Written(policy[r].was, ask[r].choice, row) ELSE row
           /\ r \notin DOMAIN policies
<1>1. r \notin DOMAIN policies
  BY CallCommitFrame DEF AlertsInvariant, SettingsFollow
<1> QED BY <1>1 DEF CommitCall

LEMMA VersionsStep ==
    ASSUME AlertsInvariant, NEW r \in Calls, CallSteps(r)
    PROVE  VersionsFollow'
<1>0. VersionsFollow /\ SettingsFollow /\ RowsFollow /\ CallsAreTyped
  BY DEF AlertsInvariant
<1> DEFINE top == Cardinality(Done) + 1
<1>1. Done \subseteq Calls /\ IsFiniteSet(Done) /\ Cardinality(Done) \in Nat
  BY MarketAlertsAssumption, FS_Subset, FS_CardinalityType DEF Done
<1>2. r \notin Done /\ \A q \in Calls \ {r} : call'[q] = call[q]
  BY StoredStay, AsideSteps, CallCommitFrame DEF CallSteps, Done
<1>3. CASE call'[r] # "done"
  <2>1. Done' = Done
    BY <1>2, <1>3 DEF Done
  <2>2. CASE Arrives(r)
    <3>1. policies' = policies /\ \A q \in Calls \ {r} : policy'[q] = policy[q]
      BY <2>2, ArrivalFrame
    <3>2. policy'[r].row # Nobody => policy'[r].was.version \in 1 .. top
      BY <1>0, <1>1, <2>2, ArrivalReads DEF VersionsFollow, DefaultPolicy
    <3> QED BY <1>0, <2>1, <3>1, <3>2 DEF VersionsFollow
  <2>3. CASE policies' = policies /\ policy' = policy
    BY <1>0, <2>1, <2>3 DEF VersionsFollow
  <2> QED BY <1>3, <2>2, <2>3, AsideSteps, CallCommitFrame DEF CallSteps, CallAside
<1>4. CASE call'[r] = "done"
  <2>1. Done' = Done \cup {r}
    BY <1>2, <1>4 DEF Done
  <2>2. Cardinality(Done') = top
    BY <1>1, <1>2, <2>1, FS_AddElement
  <2> HIDE DEF top
  <2>3. top \in Nat /\ VersionsFollow
    BY <1>0, <1>1 DEF top
  <2>4. /\ \A i \in DOMAIN policies : policies[i].version \in 1 .. top
        /\ \A q \in Calls : policy[q].row # Nobody => policy[q].was.version \in 1 .. top
    BY <1>0 DEF VersionsFollow, top
  <2>5. policy' = policy
    BY <1>4, ArrivalFrame, AsideSteps, CallCommitFrame DEF CallSteps, CallAside, UnderWay
  <2>6. \A i \in DOMAIN policies' : policies'[i].version \in 1 .. (top + 1)
    <3>1. CASE CommitCall(r)
      <4> SUFFICES ASSUME NEW j \in DOMAIN policies'
                   PROVE  policies'[j].version \in 1 .. (top + 1)
        OBVIOUS
      <4> DEFINE row == IF j = r THEN policy[r].was ELSE policies[j]
      <4>1. /\ policies'[j] = IF j = policy[r].row /\ Asks(r) = "put"
                              THEN Written(policy[r].was, ask[r].choice, row) ELSE row
            /\ j \in DOMAIN policies \/ (j = r /\ OwnRow(r))
            /\ r \notin DOMAIN policies
        BY <3>1, CommittedSettings
      <4>2. row.version \in 1 .. top
        BY <2>4, <4>1, MarketAlertsAssumption DEF OwnRow
      <4>3. Asks(r) = "put" => policy[r].was.version \in 1 .. top
        BY <1>0, <2>4 DEF RowsFollow
      <4> HIDE DEF row
      <4> QED BY <2>3, <4>1, <4>2, <4>3 DEF Written
    <3>2. CASE policies' = policies
      BY <2>3, <2>4, <3>2
    <3> QED BY <3>1, <3>2, StoredStay, AsideSteps DEF CallSteps
  <2> QED BY <2>2, <2>3, <2>4, <2>5, <2>6 DEF VersionsFollow
<1> QED BY <1>3, <1>4

LEMMA SettingsStep ==
    ASSUME AlertsInvariant, NEW r \in Calls, CallSteps(r)
    PROVE  SettingsFollow'
<1>0. SettingsFollow /\ RowsFollow /\ CallsFollow
  BY DEF AlertsInvariant
<1>1. CASE Arrives(r) \/ Proceeds(r) \/ InsertPreview(r) \/ Stops(r)
  <2>1. /\ policies' = policies /\ lastPut' = lastPut /\ call[r] # "done"
        /\ \A q \in Calls \ {r} : call'[q] = call[q] /\ ask'[q] = ask[q]
    BY <1>1, StoredStay, AsideSteps
  <2> QED BY <1>0, <2>1 DEF SettingsFollow, Asks
<1>2. CASE CommitCall(r)
  <2>1. /\ call'[r] = "done" /\ \A q \in Calls \ {r} : call'[q] = call[q]
        /\ ask' = ask /\ lastPut' = IF Asks(r) = "put" THEN r ELSE lastPut
    BY <1>2, CallCommitFrame
  <2>2. DOMAIN policies' = DOMAIN policies \cup (IF OwnRow(r) THEN {r} ELSE {})
    BY <1>2, CommittedSettings
  <2>3. Asks(r) = "put" => DOMAIN policies' # {}
    BY <1>0, <2>2 DEF RowsFollow
  <2> QED BY <1>0, <2>1, <2>2, <2>3 DEF SettingsFollow, Asks
<1> QED BY <1>1, <1>2 DEF CallSteps

LEMMA RowsStep ==
    ASSUME AlertsInvariant, NEW r \in Calls, CallSteps(r)
    PROVE  RowsFollow'
<1>0. RowsFollow /\ SettingsFollow /\ CallsFollow /\ ServedTogether /\ CallsAreTyped
  BY DEF AlertsInvariant, TimesFollow
<1>1. CASE Arrives(r)
  <2>1. /\ call[r] = "new" /\ Serving' = Serving \cup {r}
        /\ policies' = policies /\ lastPut' = lastPut
        /\ \A q \in Calls \ {r} : policy'[q] = policy[q] /\ order'[q] = order[q]
                                  /\ ask'[q] = ask[q]
    BY <1>1, ArrivalFrame
  <2>2. lastPut # Nobody => lastPut \in Calls \ {r} /\ DOMAIN policies # {}
                            /\ alongside[lastPut] \subseteq alongside'[lastPut]
    BY <1>0, <1>1, <2>1, NewcomerIsUnknown DEF SettingsFollow
  <2>3. /\ policy'[r].row = r => order'[r] > 0 /\ lastPut = Nobody
        /\ policy'[r].row # Nobody /\ policy'[r].row # r => policy'[r].row \in DOMAIN policies
        /\ ask'[r].kind = "put" => policy'[r].row # Nobody
    BY <1>0, <1>1, <2>2, ArrivalReads, MarketAlertsAssumption DEF SettingsFollow
  <2> QED BY <1>0, <2>1, <2>2, <2>3 DEF RowsFollow, OwnRow, Asks
<1>2. CASE Proceeds(r) \/ InsertPreview(r) \/ Stops(r)
  <2>1. /\ policies' = policies /\ lastPut' = lastPut /\ order' = order /\ policy' = policy
        /\ ask' = ask /\ alongside' = alongside /\ Serving' \subseteq Serving
    BY <1>2, AsideSteps DEF CallAside, Serving
  <2> QED BY <1>0, <2>1 DEF RowsFollow, OwnRow, Asks
<1>3. CASE CommitCall(r)
  <2>1. /\ order' = order /\ policy' = policy /\ ask' = ask /\ alongside' = alongside
        /\ Serving' = Serving \ {r} /\ r \in Serving
        /\ lastPut' = IF Asks(r) = "put" THEN r ELSE lastPut
    BY <1>3, CallCommitFrame
  <2>2. DOMAIN policies \subseteq DOMAIN policies'
    BY <1>3, CommittedSettings
  <2> QED BY <1>0, <2>1, <2>2 DEF RowsFollow, OwnRow, Asks, ServedTogether
<1> QED BY <1>1, <1>2, <1>3 DEF CallSteps

\* A commit that neither changes the settings nor inserts them leaves them as they were.
LEMMA SettingsStay ==
    ASSUME AlertsInvariant, NEW r \in Calls, CommitCall(r), ~ OwnRow(r), Asks(r) # "put"
    PROVE  /\ DOMAIN policies' = DOMAIN policies
           /\ \A j \in DOMAIN policies : policies'[j] = policies[j]
BY CommittedSettings

\* Which requests beside one that has begun touch the settings is settled at their arrival.
LEMMA AloneStays ==
    ASSUME AlertsInvariant, NEW r \in Calls, Arrives(r), NEW q \in Calls, q # r, Alone(q)'
    PROVE  Alone(q) /\ (q \in Serving => ~ TouchesSettings(r)')
<1>0. CallsAreTyped
  BY DEF AlertsInvariant
<1>1. alongside[q] \subseteq alongside'[q] \ {r} /\ alongside[q] \subseteq Calls
  BY <1>0, NewcomerIsUnknown DEF CallsAreTyped
<1>2. q \in Serving => r \in alongside'[q]
  BY ArrivalFrame
<1>3. \A p \in Calls \ {r} : ask'[p] = ask[p] /\ order'[p] = order[p]
  BY ArrivalFrame
<1> QED BY <1>1, <1>2, <1>3 DEF Alone, TouchesSettings, Asks

LEMMA ReadIsCurrentStep ==
    ASSUME AlertsInvariant, NEW r \in Calls, CallSteps(r)
    PROVE  ReadIsCurrent'
<1>0. ReadIsCurrent /\ RowsFollow /\ ServedTogether
  BY DEF AlertsInvariant, TimesFollow
<1>1. CASE Arrives(r)
  <2>1. /\ policies' = policies /\ Serving' = Serving \cup {r} /\ r \notin Serving
        /\ \A q \in Calls \ {r} : policy'[q] = policy[q] /\ ask'[q] = ask[q]
        /\ order' = order \/ DOMAIN policies = {}
    BY <1>1, ArrivalFrame
  <2>2. order' = order => LatestRow(DOMAIN policies)' = LatestRow(DOMAIN policies)
    BY <2>1 DEF LatestRow
  <2> SUFFICES ASSUME NEW q \in Serving', Asks(q)' = "put", Alone(q)'
               PROVE  IF OwnRow(q)' THEN DOMAIN policies' = {}
                      ELSE /\ policy'[q].row = LatestRow(DOMAIN policies)'
                           /\ policies'[policy'[q].row].enabled = policy'[q].was.enabled
                           /\ policies'[policy'[q].row].sensitivity = policy'[q].was.sensitivity
    BY DEF ReadIsCurrent
  <2>3. CASE q = r
    BY <1>1, <2>1, <2>2, <2>3, ArrivalReads DEF OwnRow, Asks
  <2>4. CASE q # r
    <3>1. q \in Calls /\ q \in Serving /\ Asks(q) = "put"
      BY <2>1, <2>4 DEF Asks, Serving
    <3>2. Alone(q)
      BY <1>1, <2>4, <3>1, AloneStays
    <3>3. OwnRow(q)' <=> OwnRow(q)
      BY <2>1, <2>4, <3>1 DEF OwnRow
    <3>4. ~ OwnRow(q) => DOMAIN policies # {}
      BY <1>0, <3>1 DEF RowsFollow
    <3> QED BY <1>0, <2>1, <2>2, <2>4, <3>1, <3>2, <3>3, <3>4 DEF ReadIsCurrent
  <2> QED BY <2>3, <2>4
<1>2. CASE Proceeds(r) \/ InsertPreview(r) \/ Stops(r)
  <2>1. /\ policies' = policies /\ order' = order /\ policy' = policy
        /\ ask' = ask /\ alongside' = alongside /\ Serving' \subseteq Serving
    BY <1>2, AsideSteps DEF CallAside, Serving
  <2>2. LatestRow(DOMAIN policies)' = LatestRow(DOMAIN policies)
    BY <2>1 DEF LatestRow
  <2> QED BY <1>0, <2>1, <2>2 DEF ReadIsCurrent, OwnRow, Asks, Alone, TouchesSettings
<1>3. CASE CommitCall(r)
  <2>1. /\ order' = order /\ policy' = policy /\ ask' = ask /\ alongside' = alongside
        /\ Serving' = Serving \ {r} /\ r \in Serving
    BY <1>3, CallCommitFrame
  <2> SUFFICES ASSUME NEW q \in Serving \ {r}, Asks(q) = "put", Alone(q)
               PROVE  IF OwnRow(q) THEN DOMAIN policies' = {}
                      ELSE /\ policy[q].row = LatestRow(DOMAIN policies)'
                           /\ policies'[policy[q].row].enabled = policy[q].was.enabled
                           /\ policies'[policy[q].row].sensitivity = policy[q].was.sensitivity
    BY <2>1 DEF ReadIsCurrent, OwnRow, Asks, Alone, TouchesSettings
  <2>2. ~ OwnRow(r) /\ Asks(r) # "put"
    BY <1>0, <2>1 DEF ServedTogether, Alone, TouchesSettings, RowsFollow, Serving
  <2>3. /\ DOMAIN policies' = DOMAIN policies
        /\ \A j \in DOMAIN policies : policies'[j] = policies[j]
    BY <1>3, <2>2, SettingsStay
  <2>4. LatestRow(DOMAIN policies)' = LatestRow(DOMAIN policies)
    BY <2>1, <2>3 DEF LatestRow
  <2>5. ~ OwnRow(q) => policy[q].row \in DOMAIN policies
    BY <1>0 DEF RowsFollow, Serving
  <2> QED BY <1>0, <2>3, <2>4, <2>5 DEF ReadIsCurrent
<1> QED BY <1>1, <1>2, <1>3 DEF CallSteps

\* A settings change that ran alone is what its row says, and its row is the newest one.
LEMMA LonePutStands ==
    ASSUME AlertsInvariant, NEW r \in Calls, CommitCall(r), Asks(r) = "put", Alone(r)
    PROVE  LET row == policies'[LatestRow(DOMAIN policies)'] IN
           row.enabled = ask[r].choice.enabled /\ row.sensitivity = ask[r].choice.sensitivity
<1>0. /\ order' = order /\ r \in Serving
      /\ ReadIsCurrent /\ RowsFollow
  BY CallCommitFrame DEF AlertsInvariant
<1>1. \A was, choice, row :
         row.enabled = was.enabled /\ row.sensitivity = was.sensitivity =>
             /\ Written(was, choice, row).enabled = choice.enabled
             /\ Written(was, choice, row).sensitivity = choice.sensitivity
  BY DEF Written
<1>2. CASE OwnRow(r)
  <2>1. DOMAIN policies' = {r}
    BY <1>0, <1>2, CommittedSettings DEF ReadIsCurrent
  <2>2. LatestRow(DOMAIN policies)' = r
    <3>1. order[r] \in Nat
      BY DEF AlertsInvariant, CallsAreTyped
    <3> QED BY <1>0, <2>1, <3>1 DEF LatestRow
  <2>3. policies'[r] = Written(policy[r].was, ask[r].choice, policy[r].was)
    BY <1>2, <2>1, CommittedSettings DEF OwnRow
  <2> QED BY <1>1, <2>2, <2>3
<1>3. CASE ~ OwnRow(r)
  <2> DEFINE i == policy[r].row
  <2>1. DOMAIN policies' = DOMAIN policies /\ i \in DOMAIN policies /\ i # r
    BY <1>0, <1>3, CommittedSettings DEF RowsFollow, OwnRow
  <2>2. LatestRow(DOMAIN policies)' = LatestRow(DOMAIN policies)
    BY <1>0, <2>1 DEF LatestRow
  <2>3. policies'[i] = Written(policy[r].was, ask[r].choice, policies[i])
    BY <2>1, CommittedSettings
  <2>4. /\ i = LatestRow(DOMAIN policies)
        /\ policies[i].enabled = policy[r].was.enabled
        /\ policies[i].sensitivity = policy[r].was.sensitivity
    BY <1>0, <1>3 DEF ReadIsCurrent
  <2> QED BY <1>1, <2>2, <2>3, <2>4
<1> QED BY <1>2, <1>3

LEMMA LastSettingsStep ==
    ASSUME AlertsInvariant, NEW r \in Calls, CallSteps(r)
    PROVE  LastSettingsStand'
<1>0. /\ LastSettingsStand /\ SettingsFollow /\ RowsFollow /\ CallsAreTyped
  BY DEF AlertsInvariant
<1> SUFFICES ASSUME lastPut' # Nobody, Alone(lastPut)'
             PROVE  LET row == policies'[LatestRow(DOMAIN policies)'] IN
                    /\ row.enabled = ask'[lastPut'].choice.enabled
                    /\ row.sensitivity = ask'[lastPut'].choice.sensitivity
  BY DEF LastSettingsStand, Alone
<1>1. lastPut # Nobody /\ Alone(lastPut) =>
          LET row == policies[LatestRow(DOMAIN policies)] IN
          /\ row.enabled = ask[lastPut].choice.enabled
          /\ row.sensitivity = ask[lastPut].choice.sensitivity
  BY <1>0 DEF LastSettingsStand, Alone
<1>2. CASE Arrives(r)
  <2>1. /\ policies' = policies /\ lastPut' = lastPut /\ call[r] = "new"
        /\ order' = order \/ DOMAIN policies = {}
        /\ \A q \in Calls \ {r} : ask'[q] = ask[q]
    BY <1>2, ArrivalFrame
  <2>2. lastPut \in Calls \ {r} /\ DOMAIN policies # {}
    BY <1>0, <2>1 DEF SettingsFollow
  <2>3. LatestRow(DOMAIN policies)' = LatestRow(DOMAIN policies)
    BY <2>1, <2>2 DEF LatestRow
  <2>4. Alone(lastPut)
    <3>1. \A q \in Calls : q # r /\ Alone(q)' => Alone(q)
      BY <1>2, AloneStays
    <3>2. Alone(lastPut)' => \E q \in Calls : q = lastPut /\ q # r /\ Alone(q)'
      BY <2>1, <2>2 DEF Alone, TouchesSettings, Asks
    <3> QED BY <3>1, <3>2
  <2> QED BY <1>1, <2>1, <2>2, <2>3, <2>4
<1>3. CASE Proceeds(r) \/ InsertPreview(r) \/ Stops(r)
  <2>1. /\ policies' = policies /\ order' = order /\ lastPut' = lastPut
        /\ ask' = ask /\ alongside' = alongside
    BY <1>3, AsideSteps DEF CallAside
  <2>2. LatestRow(DOMAIN policies)' = LatestRow(DOMAIN policies)
    BY <2>1 DEF LatestRow
  <2>3. Alone(lastPut)
    BY <2>1 DEF Alone, TouchesSettings, Asks
  <2> QED BY <1>1, <2>1, <2>2, <2>3
<1>4. CASE CommitCall(r)
  <2>1. /\ order' = order /\ ask' = ask /\ alongside' = alongside /\ r \in Serving
        /\ lastPut' = IF Asks(r) = "put" THEN r ELSE lastPut
    BY <1>4, CallCommitFrame
  <2>2. CASE Asks(r) = "put"
    <3>1. Alone(r)
      BY <2>1, <2>2 DEF Alone, TouchesSettings, Asks
    <3> QED BY <1>4, <2>1, <2>2, <3>1, LonePutStands
  <2>3. CASE Asks(r) # "put"
    <3>1. Alone(lastPut) /\ lastPut # Nobody
      BY <2>1, <2>3 DEF Alone, TouchesSettings, Asks
    <3>2. ~ OwnRow(r)
      BY <1>0, <2>1, <2>3, <3>1 DEF RowsFollow, Alone, TouchesSettings
    <3>3. /\ DOMAIN policies' = DOMAIN policies
          /\ \A j \in DOMAIN policies : policies'[j] = policies[j]
      BY <1>4, <2>3, <3>2, SettingsStay
    <3>5. LatestRow(DOMAIN policies) \in DOMAIN policies
      BY <1>0, <3>1, LatestRowIsStored DEF SettingsFollow
    <3>4. LatestRow(DOMAIN policies)' = LatestRow(DOMAIN policies)
      BY <2>1, <3>3 DEF LatestRow
    <3> QED BY <1>1, <2>1, <2>3, <3>1, <3>3, <3>4, <3>5
  <2> QED BY <2>2, <2>3
<1> QED BY <1>2, <1>3, <1>4 DEF CallSteps

\* Every part of the invariant is kept by every request.
LEMMA CallsKeep ==
    ASSUME AlertsInvariant, NEW r \in Calls, CallSteps(r)
    PROVE  AlertsInvariant'
<1>1. CallsAreTyped' /\ CallsFollow' /\ TimesFollow'
  BY TypesStep, FollowStep, TimesStep
<1>2. /\ StoredAreTyped' /\ AddedAreTyped'
      /\ StoredKeysDiffer' /\ AddedAreNotStored' /\ AddedKeysDiffer' /\ AddedOnce'
      /\ AddedAreFresh'
  BY StoredTypesStep, AddedTypesStep, KeysStep, FreshStep
<1>3. VersionsFollow' /\ SettingsFollow' /\ RowsFollow' /\ ReadIsCurrent'
  BY VersionsStep, SettingsStep, RowsStep, ReadIsCurrentStep
<1>4. LastSettingsStand' /\ PreviewsAreJustified'
  BY LastSettingsStep, NotRepeatedStep, RespectedStep, CollisionStep DEF PreviewsAreJustified
<1> QED BY <1>1, <1>2, <1>3, <1>4 DEF AlertsInvariant

\* While nobody is served, only what is stored counts, and it does not depend on the clock.
LEMMA TickKeeps ==
    ASSUME AlertsInvariant, Tick
    PROVE  AlertsInvariant'
<1>0. /\ CallsAreTyped /\ CallsFollow /\ TimesFollow /\ StoredAreTyped /\ AddedAreTyped
      /\ StoredKeysDiffer /\ AddedAreNotStored /\ AddedKeysDiffer /\ AddedOnce
      /\ VersionsFollow /\ SettingsFollow /\ RowsFollow /\ ReadIsCurrent
      /\ LastSettingsStand /\ PreviewsAreJustified
  BY DEF AlertsInvariant
<1>1. /\ Serving = {} /\ now < MaxTime /\ now' = now + 1 /\ session' \in {session, session + 1}
      /\ policies' = policies /\ previews' = previews /\ call' = call /\ ask' = ask
      /\ started' = started /\ order' = order /\ policy' = policy /\ todo' = todo
      /\ added' = added /\ alongside' = alongside /\ lastPut' = lastPut /\ errors' = errors
  BY DEF Tick, work
<1>2. \A r \in Calls : call[r] \in {"new", "done", "collided"} /\ added[r] = {}
  BY <1>0, <1>1 DEF Serving, AddedAreTyped
<1>3. now \in Nat /\ session \in Nat /\ MaxTime \in Nat
  BY <1>0, MarketAlertsAssumption DEF CallsAreTyped
<1>4. CallsAreTyped'
  BY <1>0, <1>1, <1>3 DEF CallsAreTyped
<1>5. CallsFollow'
  BY <1>0, <1>1, <1>2 DEF CallsFollow, Asks
<1>6. TimesFollow'
  BY <1>0, <1>1 DEF TimesFollow, StartsFollow, KnownMutually, ServedTogether, LaterStarts,
     Arrived, Serving
<1>7. StoredAreTyped'
  BY <1>0, <1>1, <1>3 DEF StoredAreTyped, IsPreview
<1>8. AddedAreTyped' /\ AddedAreFresh'
  BY <1>1, <1>2 DEF AddedAreTyped, AddedAreFresh
<1>9. StoredKeysDiffer' /\ AddedAreNotStored' /\ AddedKeysDiffer' /\ AddedOnce'
  BY <1>0, <1>1 DEF StoredKeysDiffer, AddedAreNotStored, AddedKeysDiffer, AddedOnce, Key, SameKind
<1>10. VersionsFollow' /\ SettingsFollow' /\ RowsFollow'
  BY <1>0, <1>1 DEF VersionsFollow, SettingsFollow, RowsFollow, Done, Serving, OwnRow, Asks
<1>11. ReadIsCurrent'
  BY <1>1 DEF ReadIsCurrent, Serving
<1>12. LastSettingsStand'
  BY <1>0, <1>1 DEF LastSettingsStand, LatestRow, TouchesSettings, Asks
<1>13. PreviewNotRepeated' /\ FeedbackRespected'
  BY <1>0, <1>1 DEF PreviewsAreJustified, PreviewNotRepeated, FeedbackRespected, SameKind, Key, Before
<1>14. CollisionIsRepeat'
  BY <1>0, <1>1 DEF PreviewsAreJustified, CollisionIsRepeat, Key, Preview
<1> QED BY <1>4, <1>5, <1>6, <1>7, <1>8, <1>9, <1>10, <1>11, <1>12, <1>13, <1>14
        DEF AlertsInvariant, PreviewsAreJustified

LEMMA AlertsRest ==
    ASSUME AlertsInvariant, UNCHANGED alertsVars
    PROVE  AlertsInvariant'
<1>0. /\ CallsAreTyped /\ CallsFollow /\ TimesFollow /\ StoredAreTyped /\ AddedAreTyped
      /\ StoredKeysDiffer /\ AddedAreNotStored /\ AddedKeysDiffer /\ AddedOnce
      /\ AddedAreFresh /\ VersionsFollow /\ SettingsFollow /\ RowsFollow /\ ReadIsCurrent
      /\ LastSettingsStand /\ PreviewsAreJustified
  BY DEF AlertsInvariant
<1>1. /\ policies' = policies /\ previews' = previews /\ call' = call /\ ask' = ask
      /\ now' = now /\ session' = session
      /\ started' = started /\ order' = order /\ policy' = policy /\ todo' = todo
      /\ added' = added /\ alongside' = alongside /\ lastPut' = lastPut /\ errors' = errors
  BY DEF alertsVars
<1>2. CallsAreTyped' /\ CallsFollow' /\ TimesFollow'
  BY <1>0, <1>1 DEF CallsAreTyped, CallsFollow, Asks, TimesFollow, StartsFollow, KnownMutually,
     ServedTogether, LaterStarts, Arrived, Serving
<1>3. StoredAreTyped' /\ AddedAreTyped'
  BY <1>0, <1>1 DEF StoredAreTyped, AddedAreTyped, IsPreview, Asks
<1>4. StoredKeysDiffer' /\ AddedAreNotStored' /\ AddedKeysDiffer' /\ AddedOnce'
  BY <1>0, <1>1 DEF StoredKeysDiffer, AddedAreNotStored, AddedKeysDiffer, AddedOnce, Key, SameKind
<1>5. AddedAreFresh'
  BY <1>0, <1>1 DEF AddedAreFresh, FreshFor, SameKind, Before
<1>6. VersionsFollow' /\ SettingsFollow' /\ RowsFollow'
  BY <1>0, <1>1 DEF VersionsFollow, SettingsFollow, RowsFollow, Done, Serving, OwnRow, Asks
<1>7. ReadIsCurrent' /\ LastSettingsStand'
  BY <1>0, <1>1 DEF ReadIsCurrent, LastSettingsStand, LatestRow, TouchesSettings, Asks, Alone,
     Serving, OwnRow
<1>8. PreviewNotRepeated' /\ FeedbackRespected'
  BY <1>0, <1>1 DEF PreviewsAreJustified, PreviewNotRepeated, FeedbackRespected, SameKind, Key, Before
<1>9. CollisionIsRepeat'
  BY <1>0, <1>1 DEF PreviewsAreJustified, CollisionIsRepeat, Key, Preview
<1> QED BY <1>2, <1>3, <1>4, <1>5, <1>6, <1>7, <1>8, <1>9 DEF AlertsInvariant, PreviewsAreJustified

LEMMA AlertsStart ==
    ASSUME AlertsInit
    PROVE  AlertsInvariant
<1>1. \A r \in Calls :
         /\ call[r] = "new" /\ Asks(r) = "none" /\ started[r] = 0 /\ order[r] = 0
         /\ policy[r].row = Nobody /\ added[r] = {} /\ alongside[r] = {}
  BY DEF AlertsInit, Asks
<1>2. previews = {} /\ lastPut = Nobody /\ DOMAIN policies = {} /\ Serving = {}
  BY <1>1 DEF AlertsInit, Serving
<1>3. CallsAreTyped
  BY MarketAlertsAssumption DEF AlertsInit, CallsAreTyped, Stages
<1>4. CallsFollow
  BY <1>1 DEF CallsFollow
<1>5. TimesFollow
  <2>1. Arrived = {}
    BY <1>1 DEF Arrived
  <2> QED BY <1>1, <1>2, <2>1, FS_EmptySet
          DEF TimesFollow, StartsFollow, KnownMutually, ServedTogether, LaterStarts
<1>6. /\ StoredAreTyped /\ AddedAreTyped
      /\ StoredKeysDiffer /\ AddedAreNotStored /\ AddedKeysDiffer /\ AddedOnce /\ AddedAreFresh
  BY <1>1, <1>2 DEF StoredAreTyped, AddedAreTyped, StoredKeysDiffer, AddedAreNotStored,
     AddedKeysDiffer, AddedOnce, AddedAreFresh
<1>7. VersionsFollow /\ SettingsFollow /\ RowsFollow /\ ReadIsCurrent
  BY <1>1, <1>2, MarketAlertsAssumption
     DEF VersionsFollow, SettingsFollow, RowsFollow, ReadIsCurrent, OwnRow
<1>8. LastSettingsStand /\ PreviewsAreJustified
  BY <1>1, <1>2 DEF LastSettingsStand, PreviewsAreJustified, PreviewNotRepeated, FeedbackRespected,
     CollisionIsRepeat
<1> QED BY <1>3, <1>4, <1>5, <1>6, <1>7, <1>8 DEF AlertsInvariant

\* The alerts keep their inductive invariant, whatever requests interleave, fail or collide.
THEOREM AlertsInvariantHolds == AlertsSpec => []AlertsInvariant
<1>1. ASSUME AlertsInvariant, [AlertsNext]_alertsVars PROVE AlertsInvariant'
  <2>1. CASE AlertsNext
    BY <1>1, <2>1, AlertsStepCases, CallsKeep, TickKeeps
  <2> QED BY <1>1, <2>1, AlertsRest
<1> QED BY <1>1, AlertsStart, PTL DEF AlertsSpec

\* Every variable of the alerts keeps its type; a version counts at most one change a request.
THEOREM AlertsTypeCorrect == AlertsSpec => []AlertsTypeOK
<1>1. ASSUME AlertsInvariant PROVE AlertsTypeOK
  <2>0. CallsAreTyped /\ StoredAreTyped /\ VersionsFollow /\ SettingsFollow
    BY <1>1 DEF AlertsInvariant
  <2>1. Cardinality(Done) <= Cardinality(Calls)
        /\ Cardinality(Done) \in Nat /\ Cardinality(Calls) \in Nat
    BY MarketAlertsAssumption, FS_Subset, FS_CardinalityType DEF Done
  <2>2. \A i \in DOMAIN policies : policies[i].version \in 1 .. (Cardinality(Calls) + 1)
    BY <2>0, <2>1 DEF VersionsFollow
  <2> QED BY <2>0, <2>2 DEF AlertsTypeOK, CallsAreTyped, StoredAreTyped, SettingsFollow
<1> QED BY <1>1, AlertsInvariantHolds, PTL

\* update_alert_settings: the last settings change that ran beside no other, and beside no
\* request that inserted the defaults, is what the next request reads.
THEOREM LastSettingsAlwaysStand == AlertsSpec => []LastSettingsStand
<1>1. AlertsInvariant => LastSettingsStand
  BY DEF AlertsInvariant
<1> QED BY <1>1, AlertsInvariantHolds, PTL

\* add_decision: no preview is repeated within a day, none comes back within a week of being
\* called noise before its evaluation began, and an evaluation fails on the unique key only
\* when it repeats a stored preview.
THEOREM PreviewsAlwaysJustified == AlertsSpec => []PreviewsAreJustified
<1>1. AlertsInvariant => PreviewsAreJustified
  BY DEF AlertsInvariant
<1> QED BY <1>1, AlertsInvariantHolds, PTL

-----------------------------------------------------------------------------
(* Cash planning: the goals of a profile are told apart by an order that   *)
(* respects their priorities.  By induction over the places of that order, *)
(* the goals up to a place get the savings, or all they ask for.           *)

\* The rank of the priority of a goal.
Ranks(g) == PriorityOrder[g.priority]

\* Goals are told apart by their order, which respects their priorities.
InOrder(specs) ==
    /\ IsFiniteSet(specs)
    /\ \A g \in specs : /\ g.order \in 0 .. 99 /\ g.target \in Nat /\ g.target # 0
                        /\ g.months \in Nat /\ g.months # 0
    /\ \A g, h \in specs : g.order = h.order => g = h
    /\ \A g, h \in specs : Ranks(g) < Ranks(h) => g.order < h.order

LEMMA SpecsAreInOrder ==
    ASSUME NEW p, NEW today, CashAskable(p, today)
    PROVE  InOrder(GoalSpecs(p, today))
<1> DEFINE I == {j \in DOMAIN p.goals : Usable(p.goals[j])}
           Order(i) == PriorityOrder[KnownPriority(p.goals[i])] + i - 1
           planned == [i \in I |-> Spec(Order(i), p.goals[i].target,
                                        AtLeast1(p.goals[i].months), KnownPriority(p.goals[i]))]
           specs == GoalSpecs(p, today)
<1>1. DOMAIN p.goals = 1 .. Len(p.goals) /\ Len(p.goals) \in 0 .. 8
  <2> DEFINE S == {p.goals[i] : i \in DOMAIN p.goals}
  <2>1. p.goals \in Seq(S) /\ Len(p.goals) <= 8
    BY DEF CashAskable
  <2> HIDE DEF S
  <2>2. DOMAIN p.goals = 1 .. Len(p.goals) /\ Len(p.goals) \in Nat
    BY <2>1, LenProperties
  <2>3. \A n \in Nat : n <= 8 => n \in 0 .. 8
    OBVIOUS
  <2> QED BY <2>1, <2>2, <2>3, Zenon
<1>2. ASSUME NEW i \in I
      PROVE  /\ i \in 1 .. 8 /\ p.goals # <<>>
             /\ KnownPriority(p.goals[i]) \in {"urgent", "important", "flexible"}
             /\ p.goals[i].target \in Nat /\ p.goals[i].target # 0
             /\ AtLeast1(p.goals[i].months) \in Nat /\ AtLeast1(p.goals[i].months) # 0
  <2>1. i \in DOMAIN p.goals /\ i \in 1 .. 8
    BY <1>1
  <2>2. Amount(p.goals[i].target) /\ p.goals[i].months \in Int
    BY <2>1 DEF CashAskable, Usable, Amount
  <2>3. p.goals[i].target \in Nat /\ p.goals[i].target # 0
    BY <2>2 DEF Usable, AtLeast0, Amount
  <2>4. AtLeast1(p.goals[i].months) \in Nat /\ AtLeast1(p.goals[i].months) # 0
    BY <2>2 DEF AtLeast1
  <2>5. KnownPriority(p.goals[i]) \in {"urgent", "important", "flexible"}
    BY DEF KnownPriority, PriorityOrder
  <2> QED BY <2>1, <2>3, <2>4, <2>5
<1>3. PlannedGoals(p) = {planned[i] : i \in I} /\ IsFiniteSet(PlannedGoals(p))
  <2>1. PlannedGoals(p) = {planned[i] : i \in I}
    BY DEF PlannedGoals
  <2>2. IsFiniteSet(I)
    <3>1. IsFiniteSet(1 .. Len(p.goals)) /\ I \in SUBSET (1 .. Len(p.goals))
      BY <1>1, FS_Interval
    <3> QED BY <3>1, FS_Subset
  <2> HIDE DEF planned, I
  <2> QED BY <2>1, <2>2, ValuesAreFinite
<1>4. ASSUME NEW g \in EmergencyGoal(p)
      PROVE  /\ g.order = 0 /\ g.target \in Nat /\ g.target # 0 /\ g.priority = "urgent"
             /\ g.months \in Nat /\ g.months # 0 /\ EmergencyGoal(p) = {g}
  <2>1. AtLeast0(p.reserve) \in Nat /\ AtLeast0(p.essentials) \in Nat /\ AtLeast0(p.months) \in Nat
    BY DEF CashAskable, AtLeast0, Amount
  <2>2. AtLeast0(p.essentials) * AtLeast0(p.months) \in Nat
    BY <2>1
  <2>3. BuildMonths(p) \in Nat /\ BuildMonths(p) # 0
    BY DEF CashAskable, BuildMonths, AtLeast1
  <2> QED BY <2>1, <2>2, <2>3 DEF EmergencyGoal, Spec
<1>5. ASSUME NEW g \in NearTermGoal(p)
      PROVE  /\ g.order = 30 /\ g.target \in Nat /\ g.target # 0 /\ g.priority = "important"
             /\ g.months \in Nat /\ g.months # 0 /\ NearTermGoal(p) = {g} /\ p.goals = <<>>
  BY DEF NearTermGoal, CashAskable, AtLeast0, AtLeast1, Amount, Spec
<1>6. ASSUME NEW g \in EducationGoal(p, today)
      PROVE  /\ g.order = 50 /\ g.target \in Nat /\ g.target # 0 /\ g.priority = "important"
             /\ g.months \in Nat /\ g.months # 0 /\ EducationGoal(p, today) = {g}
  <2> DEFINE left == (p.year - today.year) * 12 - today.month + 1
  <2>1. /\ p.education /\ AtLeast0(p.tuition) > 0 /\ p.year # Unset
        /\ g = Spec(50, p.tuition, AtLeast1(left), "important")
    BY DEF EducationGoal
  <2>2. left \in Int
    BY <2>1 DEF CashAskable, Amount
  <2> HIDE DEF left
  <2>3. AtLeast1(left) \in Nat /\ AtLeast1(left) # 0
    BY <2>2 DEF AtLeast1
  <2>4. p.tuition \in Nat /\ p.tuition # 0
    BY <2>1 DEF CashAskable, AtLeast0, Amount
  <2>5. EducationGoal(p, today) = {g}
    BY <2>1 DEF EducationGoal, left
  <2> QED BY <2>1, <2>3, <2>4, <2>5 DEF Spec
<1>7. ASSUME NEW g \in PlannedGoals(p)
      PROVE  \E i \in I : /\ g = planned[i] /\ g.order = Order(i)
                          /\ g.priority = KnownPriority(p.goals[i])
                          /\ g.target \in Nat /\ g.target # 0 /\ g.months \in Nat /\ g.months # 0
  BY <1>2, <1>3 DEF Spec
<1>8. IsFiniteSet(specs)
  <2>1. IsFiniteSet(EmergencyGoal(p)) /\ IsFiniteSet(NearTermGoal(p))
          /\ IsFiniteSet(EducationGoal(p, today))
    <3>1. \A S : S = {} \/ (\E x : S = {x}) => IsFiniteSet(S)
      BY FS_EmptySet, FS_Singleton
    <3>2. EmergencyGoal(p) = {} \/ \E x : EmergencyGoal(p) = {x}
      BY <1>4
    <3>3. NearTermGoal(p) = {} \/ \E x : NearTermGoal(p) = {x}
      BY <1>5
    <3>4. EducationGoal(p, today) = {} \/ \E x : EducationGoal(p, today) = {x}
      BY <1>6
    <3> QED BY <3>1, <3>2, <3>3, <3>4
  <2> QED BY <1>3, <2>1, FS_Union DEF GoalSpecs
<1> DEFINE Bounds(g) ==
             /\ g.priority \in {"urgent", "important", "flexible"}
             /\ g.order \in 0 .. 99
             /\ g.priority = "urgent" => g.order < 20
             /\ g.priority = "important" => g.order \in 30 .. 50
             /\ g.priority = "flexible" => g.order >= 60
<1>9. ASSUME NEW i \in I
      PROVE  /\ Order(i) \in 10 .. 67 /\ Order(i) \notin {0, 50}
             /\ KnownPriority(p.goals[i]) = "urgent" => Order(i) < 20
             /\ KnownPriority(p.goals[i]) = "important" => Order(i) \in 30 .. 37
             /\ KnownPriority(p.goals[i]) = "flexible" => Order(i) >= 60
             /\ \A j \in I : Order(j) = Order(i) => j = i
  <2>1. /\ KnownPriority(p.goals[i]) = "urgent" => Order(i) = 9 + i
        /\ KnownPriority(p.goals[i]) = "important" => Order(i) = 29 + i
        /\ KnownPriority(p.goals[i]) = "flexible" => Order(i) = 59 + i
    BY <1>2 DEF PriorityOrder
  <2>2. ASSUME NEW j \in I
        PROVE  /\ KnownPriority(p.goals[j]) = "urgent" => Order(j) = 9 + j
               /\ KnownPriority(p.goals[j]) = "important" => Order(j) = 29 + j
               /\ KnownPriority(p.goals[j]) = "flexible" => Order(j) = 59 + j
    BY <1>2 DEF PriorityOrder
  <2> HIDE DEF Order
  <2>3. ASSUME NEW j \in I, Order(j) = Order(i) PROVE j = i
    <3>1. i \in 1 .. 8 /\ j \in 1 .. 8
      BY <1>2
    <3>2. KnownPriority(p.goals[j]) \in {"urgent", "important", "flexible"}
      BY <1>2
    <3>3. KnownPriority(p.goals[i]) \in {"urgent", "important", "flexible"}
      BY <1>2
    <3>4. CASE KnownPriority(p.goals[i]) = "urgent"
      BY <2>1, <2>2, <2>3, <3>1, <3>2, <3>4
    <3>5. CASE KnownPriority(p.goals[i]) = "important"
      BY <2>1, <2>2, <2>3, <3>1, <3>2, <3>5
    <3>6. CASE KnownPriority(p.goals[i]) = "flexible"
      BY <2>1, <2>2, <2>3, <3>1, <3>2, <3>6
    <3> QED BY <3>3, <3>4, <3>5, <3>6
  <2>4. i \in 1 .. 8 /\ KnownPriority(p.goals[i]) \in {"urgent", "important", "flexible"}
    BY <1>2
  <2>5. /\ Order(i) \in 10 .. 67 /\ Order(i) \notin {0, 50}
        /\ KnownPriority(p.goals[i]) = "urgent" => Order(i) < 20
        /\ KnownPriority(p.goals[i]) = "important" => Order(i) \in 30 .. 37
        /\ KnownPriority(p.goals[i]) = "flexible" => Order(i) >= 60
    BY <2>1, <2>4
  <2> QED BY <2>3, <2>5
<1> HIDE DEF Order, planned, I
<1>10. ASSUME NEW g \in specs
       PROVE  Bounds(g) /\ g.target \in Nat /\ g.target # 0 /\ g.months \in Nat /\ g.months # 0
  <2>1. CASE g \in EmergencyGoal(p)
    BY <1>4, <2>1
  <2>2. CASE g \in NearTermGoal(p)
    BY <1>5, <2>2
  <2>3. CASE g \in EducationGoal(p, today)
    BY <1>6, <2>3
  <2>4. CASE g \in PlannedGoals(p)
    <3>1. PICK i \in I : /\ g.order = Order(i) /\ g.priority = KnownPriority(p.goals[i])
                         /\ g.target \in Nat /\ g.target # 0 /\ g.months \in Nat /\ g.months # 0
      BY <1>7, <2>4
    <3> QED BY <1>2, <1>9, <3>1
  <2> QED BY <2>1, <2>2, <2>3, <2>4 DEF GoalSpecs
<1>11. ASSUME NEW g \in specs, NEW h \in specs, g.order = h.order PROVE g = h
  <2>1. ASSUME NEW x \in specs, NEW y \in PlannedGoals(p), x.order = y.order PROVE x = y
    <3>1. PICK j \in I : y = planned[j] /\ y.order = Order(j)
      BY <1>7
    <3>2. CASE x \in PlannedGoals(p)
      <4>1. PICK i \in I : x = planned[i] /\ x.order = Order(i)
        BY <1>7, <3>2
      <4> QED BY <1>9, <2>1, <3>1, <4>1
    <3>3. CASE x \in EmergencyGoal(p)
      BY <1>4, <1>9, <2>1, <3>1, <3>3
    <3>4. CASE x \in NearTermGoal(p)
      <4>1. p.goals = <<>> /\ p.goals # <<>>
        BY <1>2, <1>5, <3>1, <3>4
      <4> QED BY <4>1
    <3>5. CASE x \in EducationGoal(p, today)
      BY <1>6, <1>9, <2>1, <3>1, <3>5
    <3> QED BY <3>2, <3>3, <3>4, <3>5 DEF GoalSpecs
  <2>2. CASE h \in PlannedGoals(p)
    BY <1>11, <2>1, <2>2
  <2>3. CASE g \in PlannedGoals(p)
    BY <1>11, <2>1, <2>3
  <2>4. CASE h \notin PlannedGoals(p) /\ g \notin PlannedGoals(p)
    BY <1>4, <1>5, <1>6, <1>11, <2>4 DEF GoalSpecs
  <2> QED BY <2>2, <2>3, <2>4
<1>12. ASSUME NEW g \in specs, NEW h \in specs, Ranks(g) < Ranks(h) PROVE g.order < h.order
  <2>1. Bounds(g) /\ Bounds(h)
    BY <1>10
  <2> QED BY <1>12, <2>1 DEF Ranks, PriorityOrder
<1>13. \A g \in specs : /\ g.order \in 0 .. 99 /\ g.target \in Nat /\ g.target # 0
                        /\ g.months \in Nat /\ g.months # 0
  BY <1>10
<1> QED BY <1>8, <1>11, <1>12, <1>13 DEF InOrder

\* A month pays a goal at most what it asks for each month, and its months make up its gap.
LEMMA MonthsPay ==
    ASSUME NEW target \in Nat, NEW allocated \in Nat, allocated <= target,
           NEW months \in Nat, months # 0
    PROVE  LET gap == target - allocated
               monthly == CeilDiv(gap, months)
           IN  /\ monthly \in Nat
               /\ Least(target, allocated + months * monthly) = target
               /\ \A m \in Nat : m # 0 =>
                     /\ Least(target, allocated + m * monthly) \in Nat
                     /\ Least(target, allocated + (m - 1) * monthly) \in Nat
                     /\ Least(target, allocated + m * monthly)
                          - Least(target, allocated + (m - 1) * monthly) <= monthly
<1> DEFINE gap == target - allocated
           monthly == CeilDiv(gap, months)
<1>1. gap \in Nat
  OBVIOUS
<1> HIDE DEF gap
<1>2. monthly \in Nat /\ months * monthly >= gap
  BY <1>1 DEF CeilDiv
<1>3. allocated + gap = target
  BY DEF gap
<1> HIDE DEF monthly
<1>4. months * monthly \in Nat
  BY <1>2
<1>5. Least(target, allocated + months * monthly) = target
  BY <1>1, <1>2, <1>3, <1>4 DEF Least
<1>6. ASSUME NEW m \in Nat, m # 0
      PROVE  /\ Least(target, allocated + m * monthly) \in Nat
             /\ Least(target, allocated + (m - 1) * monthly) \in Nat
             /\ Least(target, allocated + m * monthly)
                  - Least(target, allocated + (m - 1) * monthly) <= monthly
  <2> DEFINE before == (m - 1) * monthly
             after == m * monthly
  <2>1. before \in Nat /\ after \in Nat /\ after = before + monthly
    BY <1>2, <1>6
  <2> HIDE DEF before, after
  <2>2. /\ Least(target, allocated + after) \in Nat /\ Least(target, allocated + before) \in Nat
        /\ Least(target, allocated + after) - Least(target, allocated + before) <= monthly
    BY <1>2, <2>1 DEF Least
  <2> QED BY <2>2 DEF before, after
<1> QED BY <1>2, <1>5, <1>6 DEF gap, monthly

\* The goals up to any place of the order are given all there is, or all they ask for.
LEMMA SavingsAreHandedOut ==
    ASSUME NEW specs, InOrder(specs), NEW savings \in Nat
    PROVE  /\ \A g \in specs : Funded(g, specs, savings) \in Nat
                               /\ Funded(g, specs, savings) <= g.target
           /\ SumFunctionOnSet([g \in specs |-> Funded(g, specs, savings)], specs)
                  = Least(savings, SumFunctionOnSet([g \in specs |-> g.target], specs))
<1> DEFINE want == [g \in specs |-> g.target]
           get == [g \in specs |-> Funded(g, specs, savings)]
           Upto100(k) == {g \in specs : g.order < k}
           P == {k \in 0 .. 100 : SumFunctionOnSet(get, Upto100(k))
                                      = Least(savings, SumFunctionOnSet(want, Upto100(k)))}
<1>1. /\ IsFiniteSet(specs)
      /\ \A g \in specs : want[g] \in Nat /\ want[g] = g.target
      /\ \A k : Upto100(k) \in SUBSET specs
  BY DEF InOrder
<1>2. \A g \in specs :
         get[g] = Least(want[g], AtLeast0(savings - SumFunctionOnSet(want, Upto100(g.order))))
  BY DEF Funded
<1> HIDE DEF want, get, Upto100
<1>3. ASSUME NEW T \in SUBSET specs PROVE SumFunctionOnSet(want, T) \in Nat
  BY <1>1, SumOfLess
<1>4. ASSUME NEW g \in specs PROVE get[g] \in Nat /\ get[g] <= want[g]
  <2>1. SumFunctionOnSet(want, Upto100(g.order)) \in Nat /\ want[g] \in Nat
    BY <1>1, <1>3
  <2>2. savings - SumFunctionOnSet(want, Upto100(g.order)) \in Int
    BY <2>1
  <2>3. AtLeast0(savings - SumFunctionOnSet(want, Upto100(g.order))) \in Nat
    BY <2>2 DEF AtLeast0
  <2> QED BY <1>2, <2>1, <2>3 DEF Least
<1>5. 0 \in P
  <2>1. Upto100(0) = {}
    BY DEF Upto100, InOrder
  <2>2. SumFunctionOnSet(get, {}) = 0 /\ SumFunctionOnSet(want, {}) = 0
    BY <1>1, SumOfPart
  <2> QED BY <2>1, <2>2 DEF Least
<1>6. ASSUME NEW k \in P, k \in 0 .. 99 PROVE k + 1 \in P
  <2> DEFINE T == Upto100(k)
  <2>1. SumFunctionOnSet(get, T) = Least(savings, SumFunctionOnSet(want, T))
    OBVIOUS
  <2>2. CASE \E x \in specs : x.order = k
    <3>1. PICK x \in specs : x.order = k
      BY <2>2
    <3>2. Upto100(k + 1) = T \cup {x} /\ x \in specs \ T /\ T \in SUBSET specs
      BY <1>6, <3>1 DEF Upto100, InOrder
    <3>3. /\ SumFunctionOnSet(want, T \cup {x}) = want[x] + SumFunctionOnSet(want, T)
          /\ SumFunctionOnSet(get, T \cup {x}) = get[x] + SumFunctionOnSet(get, T)
      BY <1>1, <1>4, <3>2, SumOfOneMore
    <3>4. /\ get[x] = Least(want[x], AtLeast0(savings - SumFunctionOnSet(want, T)))
          /\ SumFunctionOnSet(want, T) \in Nat /\ want[x] \in Nat
      BY <1>1, <1>2, <1>3, <3>1, <3>2
    <3>5. \A a, w \in Nat :
             Least(w, AtLeast0(savings - a)) + Least(savings, a) = Least(savings, w + a)
      BY UnsetAssumption DEF Least, AtLeast0
    <3>6. SumFunctionOnSet(get, Upto100(k + 1))
              = Least(savings, SumFunctionOnSet(want, Upto100(k + 1)))
      BY <2>1, <3>2, <3>3, <3>4, <3>5
    <3> QED BY <1>6, <3>6
  <2>3. CASE \A x \in specs : x.order # k
    <3>1. Upto100(k + 1) = T
      BY <1>6, <2>3 DEF Upto100, InOrder
    <3> QED BY <1>6, <2>1, <3>1
  <2> QED BY <2>2, <2>3
<1>7. 100 \in P
  <2> HIDE DEF P
  <2> QED BY <1>5, <1>6, UpInduction
<1>8. Upto100(100) = specs
  BY DEF Upto100, InOrder
<1>9. \A g \in specs : Funded(g, specs, savings) = get[g] /\ g.target = want[g]
  BY DEF get, want
<1> QED BY <1>4, <1>7, <1>8, <1>9 DEF get, want

\* A cash plan hands the savings to the goals in the order of their priority and loses nothing
\* of them; its goals meet their deadlines, and one called feasible can be kept each month, for any
\* goals, amounts and months (calculate_cash_plan).
THEOREM CashPlanIsSound ==
    ASSUME NEW p, NEW today, CashAskable(p, today)
    PROVE  SoundCashPlan(p, today)
<1> DEFINE plan == CashPlan(p, today)
           specs == GoalSpecs(p, today)
           savings == AtLeast0(p.savings)
           goal == [g \in specs |-> Goal(g, specs, savings)]
           goals == {goal[g] : g \in specs}
           given == [g \in specs |-> Funded(g, specs, savings)]
           wanted == [g \in specs |-> g.target]
<1>1. InOrder(specs)
  BY SpecsAreInOrder
<1>2. savings \in Nat
  BY DEF CashAskable, AtLeast0, Amount
<1>3. plan.goals = goals
  BY DEF CashPlan
<1> HIDE DEF specs, savings
<1>4. ASSUME NEW g \in specs
      PROVE  /\ goal[g].order = g.order /\ goal[g].target = g.target
             /\ goal[g].months = g.months /\ goal[g].priority = g.priority
             /\ goal[g].allocated = given[g] /\ goal[g].gap = g.target - given[g]
             /\ goal[g].monthly = CeilDiv(g.target - given[g], g.months)
             /\ given[g] \in Nat /\ given[g] <= g.target /\ g.target \in Nat /\ g.target # 0
             /\ g.months \in Nat /\ g.months # 0
  <2>1. given[g] \in Nat /\ given[g] <= g.target
    BY <1>1, <1>2, SavingsAreHandedOut
  <2>2. g.target \in Nat /\ g.target # 0 /\ g.months \in Nat /\ g.months # 0
    BY <1>1 DEF InOrder
  <2> QED BY <2>1, <2>2 DEF Goal
<1> HIDE DEF goal
<1>5. /\ IsFiniteSet(specs) /\ \A g, h \in specs : goal[g] = goal[h] => g = h
      /\ IsFiniteSet(goals)
  <2>1. IsFiniteSet(specs) /\ \A g, h \in specs : g.order = h.order => g = h
    BY <1>1 DEF InOrder
  <2>2. IsFiniteSet(goals)
    BY <2>1, ValuesAreFinite
  <2> QED BY <1>4, <2>1, <2>2
<1>6. \A g, h \in goals : PriorityOrder[g.priority] < PriorityOrder[h.priority] /\ g.gap > 0
                              => h.allocated = 0
  <2>1. SUFFICES ASSUME NEW g \in specs, NEW h \in specs, Ranks(g) < Ranks(h),
                        g.target - given[g] > 0
                 PROVE  given[h] = 0
    BY <1>4 DEF Ranks
  <2> DEFINE Ahead0(x) == {y \in specs : y.order < x.order}
             sum == SumFunctionOnSet(wanted, Ahead0(g))
             more == SumFunctionOnSet(wanted, Ahead0(g) \cup {g})
             all == SumFunctionOnSet(wanted, Ahead0(h))
  <2>2. \A x \in specs : wanted[x] \in Nat /\ wanted[x] = x.target
    BY <1>4
  <2>3. given[g] = Least(g.target, AtLeast0(savings - sum))
        /\ given[h] = Least(h.target, AtLeast0(savings - all))
    BY DEF Funded
  <2>4. g.order \in Int /\ h.order \in Int /\ g.order < h.order
        /\ \A x \in specs : x.order \in Int
    BY <1>1, <2>1 DEF InOrder
  <2>5. Ahead0(g) \cup {g} \in SUBSET Ahead0(h) /\ g \in specs \ Ahead0(g)
        /\ Ahead0(g) \in SUBSET specs /\ Ahead0(h) \in SUBSET specs
    BY <2>4
  <2> HIDE DEF wanted, Ahead0
  <2>6. more = g.target + sum /\ sum \in Int
    <3>1. \A x \in specs : wanted[x] \in Int
      BY <2>2
    <3>2. /\ SumFunctionOnSet(wanted, Ahead0(g) \cup {g})
                = wanted[g] + SumFunctionOnSet(wanted, Ahead0(g))
          /\ SumFunctionOnSet(wanted, Ahead0(g)) \in Int
      <4> DEFINE T == Ahead0(g)
      <4>1. T \in SUBSET specs /\ g \in specs \ T
        BY <2>5
      <4> HIDE DEF T
      <4>2. /\ SumFunctionOnSet(wanted, T \cup {g}) = wanted[g] + SumFunctionOnSet(wanted, T)
            /\ SumFunctionOnSet(wanted, T) \in Int
        BY <1>5, <3>1, <4>1, SumOfOneMore
      <4> QED BY <4>2 DEF T
    <3> QED BY <2>2, <3>2
  <2>7. more \in Nat /\ all \in Nat /\ more <= all
    <3>1. IsFiniteSet(Ahead0(h)) /\ \A x \in Ahead0(h) : wanted[x] \in Nat
      BY <1>5, <2>2, <2>5, FS_Subset
    <3> QED BY <2>5, <3>1, SumOfLess
  <2> HIDE DEF sum, more, all
  <2>8. g.target \in Nat /\ h.target \in Nat /\ h.target # 0
    BY <1>4
  <2>9. savings - sum < g.target
    BY <1>2, <2>1, <2>3, <2>6, <2>8, UnsetAssumption DEF Least, AtLeast0
  <2>10. savings - all <= 0 /\ savings - all \in Int
    BY <1>2, <2>6, <2>7, <2>8, <2>9
  <2> QED BY <2>3, <2>8, <2>10, UnsetAssumption DEF Least, AtLeast0
<1>7. SumFunction([g \in goals |-> g.allocated])
         = Least(savings, SumFunction([g \in goals |-> g.target]))
  <2> DEFINE a == [g \in goals |-> g.allocated]
             b == [g \in goals |-> g.target]
  <2>1. \A g \in specs : a[goal[g]] = given[g] /\ b[goal[g]] = wanted[g]
    BY <1>4
  <2>2. \A g \in specs : a[goal[g]] \in Int /\ b[goal[g]] \in Int
    BY <1>4, <2>1
  <2>3. SumFunction(a) = SumFunctionOnSet(a, goals) /\ SumFunction(b) = SumFunctionOnSet(b, goals)
    <3>1. DOMAIN a = goals /\ DOMAIN b = goals
      OBVIOUS
    <3> HIDE DEF a, b
    <3> QED BY <3>1 DEF SumFunction
  <2>4. [g \in specs |-> a[goal[g]]] = given /\ [g \in specs |-> b[goal[g]]] = wanted
    BY <2>1
  <2> HIDE DEF a, b, given, wanted
  <2>5. SumFunctionOnSet(a, goals) = SumFunctionOnSet(given, specs)
    BY <1>5, <2>2, <2>4, SumRenamed
  <2>6. SumFunctionOnSet(b, goals) = SumFunctionOnSet(wanted, specs)
    BY <1>5, <2>2, <2>4, SumRenamed
  <2>7. SumFunctionOnSet(given, specs) = Least(savings, SumFunctionOnSet(wanted, specs))
    BY <1>1, <1>2, SavingsAreHandedOut DEF given, wanted
  <2> QED BY <2>3, <2>5, <2>6, <2>7 DEF a, b
<1>8. ASSUME NEW x \in goals
      PROVE  /\ x.monthly \in Nat /\ SavedFor(x, x.months) = x.target
             /\ \A month \in 1 .. 24 :
                   /\ SavedFor(x, month) - SavedFor(x, month - 1) \in Int
                   /\ SavedFor(x, month) - SavedFor(x, month - 1) <= x.monthly
  <2>1. PICK g \in specs : x = goal[g]
    OBVIOUS
  <2>2. /\ x.monthly \in Nat
        /\ Least(x.target, x.allocated + x.months * x.monthly) = x.target
        /\ \A m \in Nat : m # 0 =>
              /\ Least(x.target, x.allocated + m * x.monthly) \in Nat
              /\ Least(x.target, x.allocated + (m - 1) * x.monthly) \in Nat
              /\ Least(x.target, x.allocated + m * x.monthly)
                   - Least(x.target, x.allocated + (m - 1) * x.monthly) <= x.monthly
    <3>1. /\ g.target \in Nat /\ given[g] \in Nat /\ given[g] <= g.target
          /\ g.months \in Nat /\ g.months # 0
      BY <1>4
    <3>2. /\ x.target = g.target /\ x.allocated = given[g] /\ x.months = g.months
          /\ x.monthly = CeilDiv(g.target - given[g], g.months)
      BY <1>4, <2>1
    <3> HIDE DEF given
    <3> DEFINE t == g.target
               a == given[g]
               n == g.months
               monthly == CeilDiv(t - a, n)
    <3>3. t \in Nat /\ a \in Nat /\ a <= t /\ n \in Nat /\ n # 0
      BY <3>1
    <3>4. x.target = t /\ x.allocated = a /\ x.months = n /\ x.monthly = monthly
      BY <3>2
    <3> HIDE DEF t, a, n
    <3>5. /\ monthly \in Nat /\ Least(t, a + n * monthly) = t
          /\ \A m \in Nat : m # 0 =>
                /\ Least(t, a + m * monthly) \in Nat /\ Least(t, a + (m - 1) * monthly) \in Nat
                /\ Least(t, a + m * monthly) - Least(t, a + (m - 1) * monthly) <= monthly
      BY <3>3, MonthsPay
    <3> HIDE DEF monthly
    <3> QED BY <3>4, <3>5
  <2>3. ASSUME NEW month \in 1 .. 24
        PROVE  /\ SavedFor(x, month) - SavedFor(x, month - 1) \in Int
               /\ SavedFor(x, month) - SavedFor(x, month - 1) <= x.monthly
    <3>1. month \in Nat /\ month # 0
      OBVIOUS
    <3> QED BY <2>2, <3>1 DEF SavedFor
  <2> QED BY <2>2, <2>3 DEF SavedFor
<1>9. ASSUME plan.feasibility = "feasible", NEW month \in 1 .. 24
      PROVE  SumFunction([g \in goals |-> SavedFor(g, month) - SavedFor(g, month - 1)])
                 <= plan.capacity
  <2> DEFINE paid == [g \in goals |-> SavedFor(g, month) - SavedFor(g, month - 1)]
             asked == [g \in goals |-> g.monthly]
  <2>1. \A g \in goals : paid[g] \in Int /\ asked[g] \in Int /\ paid[g] <= asked[g]
    BY <1>8
  <2>2. SumFunction(paid) = SumFunctionOnSet(paid, goals)
        /\ SumFunction(asked) = SumFunctionOnSet(asked, goals)
    <3>1. DOMAIN paid = goals /\ DOMAIN asked = goals
      OBVIOUS
    <3> HIDE DEF paid, asked
    <3> QED BY <3>1 DEF SumFunction
  <2>3. SumFunction(asked) = plan.required
    BY <1>3 DEF CashPlan
  <2> HIDE DEF paid, asked
  <2>4. SumFunctionOnSet(paid, goals) <= SumFunctionOnSet(asked, goals)
    BY <1>5, <2>1, SumGrows
  <2>5. SumFunctionOnSet(paid, goals) \in Int /\ SumFunctionOnSet(asked, goals) \in Int
    BY <1>5, <2>1, SumProperties
  <2>6. plan.capacity \in Int /\ ~ (plan.required > plan.capacity)
    <3>1. /\ p.income # Unset /\ p.spending # Unset
          /\ plan.capacity = AtLeast0(AtLeast0(p.income) - AtLeast0(p.spending)
                                        - AtLeast0(p.contribution))
          /\ ~ (plan.required > plan.capacity)
      BY <1>9 DEF CashPlan
    <3>2. AtLeast0(p.income) \in Int /\ AtLeast0(p.spending) \in Int
            /\ AtLeast0(p.contribution) \in Int
      BY DEF CashAskable, AtLeast0, Amount
    <3>3. \A x \in Int : AtLeast0(x) \in Int
      BY DEF AtLeast0
    <3> QED BY <3>1, <3>2, <3>3
  <2>7. SumFunction(paid) <= plan.capacity
    BY <2>2, <2>3, <2>4, <2>5, <2>6
  <2> QED BY <2>7 DEF paid
<1>10. \A g \in goals : SavedFor(g, g.months) = g.target
  BY <1>8
<1> HIDE DEF goals, plan, given, wanted
<1> QED BY <1>3, <1>6, <1>7, <1>9, <1>10 DEF SoundCashPlan, plan, savings
=============================================================================
