-------------------------- MODULE ContentLabelsProofs --------------------------
(***************************************************************************)
(* Proofs about ContentLabels, for any finite set of handlers and any      *)
(* transactions.  A label counts exactly the handlers that are past its    *)
(* family and whose transaction has it, so counters only grow; what a      *)
(* scrape read lies between what it began with and what they are now.  All *)
(* labels of a family together count the handlers past it.                 *)
(***************************************************************************)
EXTENDS ContentLabels, FiniteSetTheorems, TLAPS

\* Handler h has made its increment of family f.
Past(h, f) ==
    \/ next[h] = "done"
    \/ next[h] = "refs" /\ f # "refs"
    \/ next[h] = "minting" /\ f = "script"

Counted(f, l) == {h \in Handlers : Past(h, f) /\ LabelOf(tx[h], f) = l}

\* The counters are functions on the families; TypeOK says what of.
Shape ==
    /\ labels = [f \in Families |-> labels[f]]
    /\ seen = [f \in Families |-> seen[f]]
    /\ before = [f \in Families |-> before[f]]

LabelsCount ==
    \A f \in Families : \A l \in LabelsOf(f) :
        labels[f][l] = Cardinality(Counted(f, l))

\* Also a counter that the scrape has not read is what it was or more.
BeforeIsLess ==
    \A f \in Families : \A l \in LabelsOf(f) : before[f][l] <= labels[f][l]

IInv ==
    /\ TypeOK
    /\ Shape
    /\ LabelsCount
    /\ BeforeIsLess
    /\ ScrapeIsBetween

PastAll(f) == {h \in Handlers : Past(h, f)}

\* The labels of a family count together the handlers that are past it; and no
\* family was behind "refs", the last, when the scrape began.
TotalsInv ==
    /\ \A f \in Families : Total(f, labels[f]) = Cardinality(PastAll(f))
    /\ \A f \in Families : Total("refs", before["refs"]) <= Total(f, before[f])

-----------------------------------------------------------------------------
(* What ParseTxInfo tells of a transaction.                                *)

\* Every transaction has a label of each family.
LEMMA LabelOfFamily ==
    ASSUME NEW t \in Transactions, NEW f \in Families
    PROVE  LabelOf(t, f) \in LabelsOf(f)
BY DEF Families, LabelOf, LabelsOf, ScriptLabels, Scripts, ScriptType, FormatBool

\* The switch of ParseTxInfo finds the highest version present, whatever mix of
\* scripts the witness set has.
LEMMA ScriptTypeIsHighest ==
    ASSUME NEW t \in Transactions, NEW l \in ScriptLabels
    PROVE  HasHighest(t, l) <=> ScriptType(t) = l
<1>1. /\ t.scripts \in SUBSET Scripts
      /\ t.witnesses \in BOOLEAN
      /\ t.witnesses \/ t.scripts = {}
  BY TransactionsAssumption DEF AllTransactions
<1>2. CASE t.scripts = {}
  BY <1>1, <1>2 DEF HasHighest, ScriptType
<1>3. CASE "plutus_v3" \in t.scripts
  BY <1>1, <1>3 DEF HasHighest, ScriptType, Version, Scripts, ScriptLabels
<1>4. CASE "plutus_v3" \notin t.scripts /\ "plutus_v2" \in t.scripts
  BY <1>1, <1>4 DEF HasHighest, ScriptType, Version, Scripts, ScriptLabels
<1>5. CASE "plutus_v3" \notin t.scripts /\ "plutus_v2" \notin t.scripts
           /\ "plutus_v1" \in t.scripts
  BY <1>1, <1>5 DEF HasHighest, ScriptType, Version, Scripts, ScriptLabels
<1>6. CASE t.scripts # {} /\ "plutus_v3" \notin t.scripts
           /\ "plutus_v2" \notin t.scripts /\ "plutus_v1" \notin t.scripts
  <2>1. t.scripts = {"native"}
    BY <1>1, <1>6 DEF Scripts
  <2>2. QED BY <1>1, <2>1 DEF HasHighest, ScriptType, Version, Scripts, ScriptLabels
<1>7. QED BY <1>2, <1>3, <1>4, <1>5, <1>6

-----------------------------------------------------------------------------
(* One step.                                                               *)

\* An increment changes one label of one family, by one, and moves its handler on.
LEMMA IncrementStep ==
    ASSUME TypeOK, Shape, NEW h \in Handlers, RecordTxContent(h)
    PROVE  \E f \in Families : \E l \in LabelsOf(f) :
             /\ f = next[h] /\ l = LabelOf(tx[h], f)
             /\ labels'[f] = [labels[f] EXCEPT ![l] = @ + 1]
             /\ \A g \in Families \ {f} : labels'[g] = labels[g]
             /\ labels' = [g \in Families |-> labels'[g]]
             /\ next' = [next EXCEPT ![h] = AfterFamily(f)]
<1> DEFINE f == next[h]
           l == LabelOf(tx[h], f)
<1>1. f \in Families
  BY DEF TypeOK, RecordTxContent
<1>2. tx[h] \in Transactions
  BY DEF TypeOK
<1>3. l \in LabelsOf(f)
  BY <1>1, <1>2, LabelOfFamily
<1>4. labels' = [labels EXCEPT ![f] = [labels[f] EXCEPT ![l] = labels[f][l] + 1]]
  BY DEF RecordTxContent
<1>5. /\ labels'[f] = [labels[f] EXCEPT ![l] = labels[f][l] + 1]
      /\ \A g \in Families \ {f} : labels'[g] = labels[g]
      /\ labels' = [g \in Families |-> labels'[g]]
  <2> HIDE DEF f, l
  <2>1. QED BY <1>1, <1>4 DEF Shape
<1>6. next' = [next EXCEPT ![h] = AfterFamily(f)]
  BY DEF RecordTxContent
<1>7. QED BY <1>1, <1>3, <1>5, <1>6

\* Only that label gains a handler.
LEMMA CountStep ==
    ASSUME TypeOK, NEW h \in Handlers, next[h] \in Families,
           next' = [next EXCEPT ![h] = AfterFamily(next[h])], tx' = tx,
           NEW f \in Families, NEW l \in LabelsOf(f)
    PROVE  /\ h \notin Counted(next[h], l)
           /\ f = next[h] /\ l = LabelOf(tx[h], f)
                => Counted(f, l)' = Counted(f, l) \cup {h}
           /\ ~(f = next[h] /\ l = LabelOf(tx[h], f))
                => Counted(f, l)' = Counted(f, l)
<1>1. \A g \in Handlers \ {h} : next'[g] = next[g]
  BY DEF TypeOK
<1>2. \A g \in Handlers \ {h} : Past(g, f)' <=> Past(g, f)
  BY <1>1 DEF Past
<1>3. /\ ~Past(h, next[h])
      /\ Past(h, f)' <=> Past(h, f) \/ f = next[h]
  BY DEF Past, AfterFamily, Families, TypeOK
<1>4. QED BY <1>2, <1>3 DEF Counted

\* An increment keeps the count, and counters only grow.
LEMMA RecordStep ==
    ASSUME IInv, NEW h \in Handlers, RecordTxContent(h)
    PROVE  /\ \A g \in Families : labels'[g] \in [LabelsOf(g) -> Nat]
           /\ LabelsCount'
           /\ \A g \in Families : \A k \in LabelsOf(g) : labels[g][k] <= labels'[g][k]
<1> DEFINE f == next[h]
           l == LabelOf(tx[h], f)
<1>1. /\ f \in Families /\ l \in LabelsOf(f)
      /\ labels'[f] = [labels[f] EXCEPT ![l] = @ + 1]
      /\ \A g \in Families \ {f} : labels'[g] = labels[g]
      /\ next' = [next EXCEPT ![h] = AfterFamily(f)]
  BY IncrementStep DEF IInv
<1>2. \A g \in Families : labels[g] \in [LabelsOf(g) -> Nat]
  BY DEF IInv, TypeOK
<1> HIDE DEF f, l
<1>3. \A g \in Families : labels'[g] \in [LabelsOf(g) -> Nat]
  BY <1>1, <1>2
<1>4. ASSUME NEW g \in Families, NEW k \in LabelsOf(g)
      PROVE  labels'[g][k] = Cardinality(Counted(g, k)')
  <2>1. /\ h \notin Counted(f, k)
        /\ g = f /\ k = l => Counted(g, k)' = Counted(g, k) \cup {h}
        /\ ~(g = f /\ k = l) => Counted(g, k)' = Counted(g, k)
    <3>1. /\ TypeOK /\ next[h] \in Families /\ tx' = tx
          /\ next' = [next EXCEPT ![h] = AfterFamily(next[h])]
      BY <1>1 DEF IInv, RecordTxContent, f
    <3>2. /\ h \notin Counted(next[h], k)
          /\ g = next[h] /\ k = LabelOf(tx[h], g)
               => Counted(g, k)' = Counted(g, k) \cup {h}
          /\ ~(g = next[h] /\ k = LabelOf(tx[h], g))
               => Counted(g, k)' = Counted(g, k)
      BY <3>1, CountStep
    <3>3. QED BY <3>2 DEF f, l
  <2>2. labels[g][k] = Cardinality(Counted(g, k))
    BY DEF IInv, LabelsCount
  <2>3. CASE g = f /\ k = l
    <3>1. IsFiniteSet(Counted(g, k))
      BY HandlersAssumption, FS_Subset DEF Counted
    <3>2. Cardinality(Counted(g, k)') = Cardinality(Counted(g, k)) + 1
      BY <2>1, <2>3, <3>1, FS_AddElement
    <3>3. labels'[g][k] = labels[g][k] + 1
      BY <1>1, <1>2, <2>3
    <3>4. QED BY <2>2, <3>2, <3>3
  <2>4. CASE ~(g = f /\ k = l)
    <3>1. labels'[g][k] = labels[g][k]
      BY <1>1, <1>2, <2>4
    <3>2. QED BY <2>1, <2>2, <2>4, <3>1
  <2>5. QED BY <2>3, <2>4
<1>5. \A g \in Families : \A k \in LabelsOf(g) : labels[g][k] <= labels'[g][k]
  BY <1>1, <1>2
<1>6. QED BY <1>3, <1>4, <1>5 DEF LabelsCount

\* Nothing is recorded at first.
LEMMA InitIInv == Init => IInv
<1> SUFFICES ASSUME Init PROVE IInv
  OBVIOUS
<1>1. TypeOK /\ Shape /\ BeforeIsLess /\ ScrapeIsBetween
  BY DEF Init, TypeOK, Shape, BeforeIsLess, ScrapeIsBetween, Zero, Families
<1>2. ASSUME NEW f \in Families, NEW l \in LabelsOf(f)
      PROVE  labels[f][l] = Cardinality(Counted(f, l))
  <2>1. Counted(f, l) = {}
    BY DEF Init, Counted, Past, Families
  <2>2. QED BY <2>1, FS_EmptySet DEF Init, Zero
<1>3. QED BY <1>1, <1>2 DEF IInv, LabelsCount

\* A scrape that begins takes the counters as they are; one that goes on reads
\* what has only grown since.
LEMMA ScrapeStep == ASSUME IInv, NEW f \in Families, Scrape(f) PROVE IInv'
<1> USE DEF Scrape
<1>1. \A g \in Families : labels[g] \in [LabelsOf(g) -> Nat] /\ before[g] \in [LabelsOf(g) -> Nat]
  BY DEF IInv, TypeOK
<1>2. \A g \in Families : seen'[g] = IF g = f THEN labels[f] ELSE seen[g]
  BY DEF IInv, Shape
<1>3. \A g \in Families : before'[g] = labels[g] \/ before'[g] = before[g]
  OBVIOUS
<1>4. TypeOK'
  BY <1>1, <1>2, <1>3 DEF IInv, TypeOK
<1>5. Shape'
  BY DEF IInv, Shape
<1>6. LabelsCount'
  BY DEF IInv, LabelsCount, Counted, Past
<1>7. BeforeIsLess'
  BY <1>1, <1>3 DEF IInv, BeforeIsLess
<1>8. ScrapeIsBetween'
  <2>1. CASE \A g \in Families : seen[g] = Unread
    BY <1>1, <1>2, <2>1 DEF ScrapeIsBetween
  <2>2. CASE ~(\A g \in Families : seen[g] = Unread)
    BY <1>1, <1>2, <2>2 DEF IInv, BeforeIsLess, ScrapeIsBetween
  <2>3. QED BY <2>1, <2>2
<1>9. QED BY <1>4, <1>5, <1>6, <1>7, <1>8 DEF IInv

\* Every step keeps the invariant.
LEMMA NextIInv == IInv /\ [Next]_vars => IInv'
<1> SUFFICES ASSUME IInv, [Next]_vars PROVE IInv'
  OBVIOUS
<1>1. ASSUME NEW h \in Handlers, RecordTxContent(h) PROVE IInv'
  <2>1. /\ \A g \in Families : labels'[g] \in [LabelsOf(g) -> Nat]
        /\ LabelsCount'
        /\ \A g \in Families : \A k \in LabelsOf(g) : labels[g][k] <= labels'[g][k]
    BY <1>1, RecordStep
  <2>2. \A g \in Families :
          /\ labels[g] \in [LabelsOf(g) -> Nat]
          /\ before[g] \in [LabelsOf(g) -> Nat]
          /\ seen[g] = Unread \/ seen[g] \in [LabelsOf(g) -> Nat]
    BY DEF IInv, TypeOK
  <2>3. UNCHANGED <<tx, seen, before>> /\ labels' = [g \in Families |-> labels'[g]]
    BY <1>1, IncrementStep DEF RecordTxContent, IInv
  <2>4. next' \in [Handlers -> Families \cup {"done"}]
    BY <1>1 DEF IInv, TypeOK, RecordTxContent, AfterFamily, Families
  <2>5. TypeOK' /\ Shape'
    BY <2>1, <2>3, <2>4 DEF IInv, TypeOK, Shape
  <2>6. BeforeIsLess'
    BY <2>1, <2>2, <2>3 DEF IInv, BeforeIsLess
  <2>7. ScrapeIsBetween'
    <3> SUFFICES ASSUME NEW g \in Families, seen[g] # Unread, NEW k \in LabelsOf(g)
                 PROVE  before[g][k] <= seen[g][k] /\ seen[g][k] <= labels'[g][k]
      BY <2>3 DEF ScrapeIsBetween
    <3>1. before[g][k] <= seen[g][k] /\ seen[g][k] <= labels[g][k]
      BY DEF IInv, ScrapeIsBetween
    <3>2. labels[g][k] \in Nat /\ labels'[g][k] \in Nat /\ seen[g][k] \in Nat
          /\ labels[g][k] <= labels'[g][k]
      BY <2>1, <2>2
    <3>3. QED BY <3>1, <3>2
  <2>8. QED BY <2>1, <2>5, <2>6, <2>7 DEF IInv
<1>2. ASSUME NEW f \in Families, Scrape(f) PROVE IInv'
  BY <1>2, ScrapeStep
<1>3. CASE ScrapeEnds
  BY <1>3 DEF ScrapeEnds, IInv, TypeOK, Shape, LabelsCount, Counted, Past, BeforeIsLess,
              ScrapeIsBetween
<1>4. CASE UNCHANGED vars
  BY <1>4 DEF vars, IInv, TypeOK, Shape, LabelsCount, Counted, Past, BeforeIsLess,
              ScrapeIsBetween
<1>5. QED BY <1>1, <1>2, <1>3, <1>4 DEF Next

-----------------------------------------------------------------------------
(* The results.                                                            *)

\* Every label counts the handlers that are past its family and have it.
THEOREM Inductive == Spec => []IInv
BY InitIInv, NextIInv, PTL DEF Spec

\* Every counter keeps its type: it is never below zero.
THEOREM TypeCorrect == Spec => []TypeOK
<1>1. IInv => TypeOK
  BY DEF IInv
<1>2. QED BY Inductive, <1>1, PTL

\* When the handlers are done every label tells what the transactions contain.
THEOREM ContentIsTold == Spec => []LabelsTellContent
<1>1. IInv => LabelsTellContent
  <2> SUFFICES ASSUME IInv, \A h \in Handlers : next[h] = "done" PROVE LabelsTellContent
    BY DEF LabelsTellContent
  <2>1. \A f \in Families : \A l \in LabelsOf(f) :
          labels[f][l] = Cardinality({h \in Handlers : LabelOf(tx[h], f) = l})
    BY DEF IInv, LabelsCount, Counted, Past
  <2>2. \A h \in Handlers : tx[h] \in Transactions
    BY DEF IInv, TypeOK
  <2>3. ASSUME NEW l \in ScriptLabels
        PROVE  labels["script"][l] = Cardinality({h \in Handlers : HasHighest(tx[h], l)})
    <3>1. {h \in Handlers : LabelOf(tx[h], "script") = l}
            = {h \in Handlers : HasHighest(tx[h], l)}
      BY <2>2, ScriptTypeIsHighest DEF LabelOf
    <3>2. "script" \in Families /\ l \in LabelsOf("script")
      BY DEF Families, LabelsOf
    <3>3. QED BY <2>1, <3>1, <3>2
  <2> DEFINE minting == {h \in Handlers : tx[h].mints}
             refs == {h \in Handlers : tx[h].references}
  <2>4. /\ labels["minting"]["true"] = Cardinality(minting)
        /\ labels["minting"]["false"] = Cardinality(Handlers \ minting)
        /\ labels["refs"]["true"] = Cardinality(refs)
        /\ labels["refs"]["false"] = Cardinality(Handlers \ refs)
    <3>1. /\ {h \in Handlers : LabelOf(tx[h], "minting") = "true"} = minting
          /\ {h \in Handlers : LabelOf(tx[h], "minting") = "false"} = Handlers \ minting
          /\ {h \in Handlers : LabelOf(tx[h], "refs") = "true"} = refs
          /\ {h \in Handlers : LabelOf(tx[h], "refs") = "false"} = Handlers \ refs
      BY DEF LabelOf, FormatBool
    <3>2. {"minting", "refs"} \subseteq Families
          /\ {"true", "false"} \subseteq LabelsOf("minting")
          /\ {"true", "false"} \subseteq LabelsOf("refs")
      BY DEF Families, LabelsOf
    <3>3. QED BY <2>1, <3>1, <3>2
  <2>5. ASSUME NEW S \in SUBSET Handlers
        PROVE  Cardinality(S) + Cardinality(Handlers \ S) = Cardinality(Handlers)
    <3>1. IsFiniteSet(S) /\ IsFiniteSet(Handlers \ S)
      BY HandlersAssumption, FS_Subset
    <3>2. /\ S \cup (Handlers \ S) = Handlers
          /\ S \cap (Handlers \ S) = {}
      OBVIOUS
    <3>3. Cardinality(S) \in Nat /\ Cardinality(Handlers \ S) \in Nat
      BY <3>1, FS_CardinalityType
    <3>4. QED BY <3>1, <3>2, <3>3, FS_Union, FS_EmptySet
  <2>6. \A f \in {"minting", "refs"} :
          labels[f]["true"] + labels[f]["false"] = Cardinality(Handlers)
    BY <2>4, <2>5
  <2>7. QED BY <2>3, <2>4, <2>6 DEF LabelsTellContent
<1>2. QED BY Inductive, <1>1, PTL

\* What a scrape reads is not less than when it began and not more than now.
THEOREM ScrapesAreBetween == Spec => []ScrapeIsBetween
<1>1. IInv => ScrapeIsBetween
  BY DEF IInv
<1>2. QED BY Inductive, <1>1, PTL

\* A family that is read as no less has no lesser total.
LEMMA TotalIsMonotone ==
    ASSUME NEW f \in Families, NEW c \in [LabelsOf(f) -> Nat], NEW d \in [LabelsOf(f) -> Nat],
           \A l \in LabelsOf(f) : c[l] <= d[l]
    PROVE  Total(f, c) <= Total(f, d) /\ Total(f, c) \in Nat /\ Total(f, d) \in Nat
<1>1. CASE f = "script"
  <2>1. LabelsOf(f) = {"native", "plutus_v1", "plutus_v2", "plutus_v3", "none"}
    BY <1>1 DEF LabelsOf, ScriptLabels, Scripts
  <2>2. \A l \in {"native", "plutus_v1", "plutus_v2", "plutus_v3", "none"} :
          c[l] \in Nat /\ d[l] \in Nat /\ c[l] <= d[l]
    BY <2>1
  <2>3. QED BY <1>1, <2>2 DEF Total
<1>2. CASE f # "script"
  <2>1. \A l \in {"true", "false"} : c[l] \in Nat /\ d[l] \in Nat /\ c[l] <= d[l]
    BY <1>2 DEF LabelsOf
  <2>2. QED BY <1>2, <2>1 DEF Total
<1>3. QED BY <1>1, <1>2

\* One increment adds one to the total.
LEMMA TotalGrows ==
    ASSUME NEW f \in Families, NEW c \in [LabelsOf(f) -> Nat], NEW l \in LabelsOf(f)
    PROVE  Total(f, [c EXCEPT ![l] = @ + 1]) = Total(f, c) + 1
<1>1. CASE f = "script"
  <2>1. LabelsOf(f) = {"native", "plutus_v1", "plutus_v2", "plutus_v3", "none"}
    BY <1>1 DEF LabelsOf, ScriptLabels, Scripts
  <2>2. QED BY <1>1, <2>1 DEF Total
<1>2. CASE f # "script"
  BY <1>2 DEF Total, LabelsOf
<1>3. QED BY <1>1, <1>2

\* An increment counts its handler in the total of its family and in no other.
LEMMA TotalsCountStep ==
    ASSUME IInv, TotalsInv, NEW h \in Handlers, RecordTxContent(h), NEW g \in Families
    PROVE  Total(g, labels'[g]) = Cardinality(PastAll(g)')
<1> DEFINE f == next[h]
<1>1. PICK l \in LabelsOf(f) :
        /\ f \in Families
        /\ labels'[f] = [labels[f] EXCEPT ![l] = @ + 1]
        /\ \A k \in Families \ {f} : labels'[k] = labels[k]
        /\ next' = [next EXCEPT ![h] = AfterFamily(f)]
  BY IncrementStep DEF IInv
<1>2. labels[f] \in [LabelsOf(f) -> Nat]
  BY <1>1 DEF IInv, TypeOK
<1>3. \A k \in Handlers \ {h} : Past(k, g)' <=> Past(k, g)
  BY <1>1 DEF Past, IInv, TypeOK
<1>4. /\ ~Past(h, f)
      /\ Past(h, g)' <=> Past(h, g) \/ g = f
  BY <1>1 DEF Past, AfterFamily, Families, IInv, TypeOK
<1>5. CASE g = f
  <2>1. h \notin PastAll(g) /\ PastAll(g)' = PastAll(g) \cup {h}
    BY <1>3, <1>4, <1>5 DEF PastAll
  <2>2. IsFiniteSet(PastAll(g))
    BY HandlersAssumption, FS_Subset DEF PastAll
  <2>3. Cardinality(PastAll(g)') = Cardinality(PastAll(g)) + 1
    BY <2>1, <2>2, FS_AddElement
  <2>4. Total(g, labels'[g]) = Total(g, labels[g]) + 1
    BY <1>1, <1>2, <1>5, TotalGrows
  <2>5. QED BY <2>3, <2>4 DEF TotalsInv
<1>6. CASE g # f
  <2>1. PastAll(g)' = PastAll(g)
    BY <1>3, <1>4, <1>6 DEF PastAll
  <2>2. labels'[g] = labels[g]
    BY <1>1, <1>6
  <2>3. QED BY <2>1, <2>2 DEF TotalsInv
<1>7. QED BY <1>5, <1>6

\* Every handler that is past "refs" is past all families.
LEMMA RefsAreLast ==
    ASSUME IInv, TotalsInv, NEW f \in Families
    PROVE  Total("refs", labels["refs"]) <= Total(f, labels[f])
<1>1. PastAll("refs") \subseteq PastAll(f)
  BY DEF PastAll, Past, Families
<1>2. IsFiniteSet(PastAll(f))
  BY HandlersAssumption, FS_Subset DEF PastAll
<1>3. Cardinality(PastAll("refs")) <= Cardinality(PastAll(f))
  BY <1>1, <1>2, FS_Subset
<1>4. QED BY <1>3 DEF TotalsInv, Families

\* Nothing is counted at first.
LEMMA InitTotals == Init => TotalsInv
<1> SUFFICES ASSUME Init PROVE TotalsInv
  OBVIOUS
<1>1. \A f \in Families : Total(f, Zero[f]) = 0
  BY DEF Zero, Total, Families, LabelsOf, ScriptLabels, Scripts
<1>2. \A f \in Families : PastAll(f) = {}
  BY DEF Init, PastAll, Past, Families
<1>3. QED BY <1>1, <1>2, FS_EmptySet DEF Init, TotalsInv, Families

\* Every step keeps the totals.
LEMMA NextTotals == IInv /\ TotalsInv /\ [Next]_vars => TotalsInv'
<1> SUFFICES ASSUME IInv, TotalsInv, [Next]_vars PROVE TotalsInv'
  OBVIOUS
<1>1. ASSUME NEW h \in Handlers, RecordTxContent(h) PROVE TotalsInv'
  <2>1. \A g \in Families : Total(g, labels'[g]) = Cardinality(PastAll(g)')
    BY <1>1, TotalsCountStep
  <2>2. before' = before
    BY <1>1 DEF RecordTxContent
  <2>3. QED BY <2>1, <2>2 DEF TotalsInv, Total
<1>2. ASSUME UNCHANGED <<next, labels>>, before' \in {before, labels} PROVE TotalsInv'
  <2>1. \A g \in Families : PastAll(g)' = PastAll(g)
    BY <1>2 DEF PastAll, Past
  <2>2. \A g \in Families : Total("refs", labels["refs"]) <= Total(g, labels[g])
    BY RefsAreLast
  <2>3. QED BY <1>2, <2>1, <2>2 DEF TotalsInv, Total
<1>3. QED BY <1>1, <1>2 DEF Next, Scrape, ScrapeEnds, vars

\* Whichever family of a page one sums up: it counts what was recorded when the
\* scrape began and nothing that has not begun to be recorded.
THEOREM PagesCountTransactions == Spec => []PageCountsTransactions
<1>1. ASSUME IInv, TotalsInv, NEW f \in Families, seen[f] # Unread
      PROVE  /\ Total("refs", before["refs"]) <= Total(f, seen[f])
             /\ Total(f, seen[f]) <= Cardinality({h \in Handlers : next[h] # "script"})
  <2>1. /\ labels[f] \in [LabelsOf(f) -> Nat]
        /\ before[f] \in [LabelsOf(f) -> Nat]
        /\ seen[f] \in [LabelsOf(f) -> Nat]
        /\ before["refs"] \in [LabelsOf("refs") -> Nat]
    BY <1>1 DEF IInv, TypeOK, Families
  <2>2. \A l \in LabelsOf(f) : before[f][l] <= seen[f][l] /\ seen[f][l] <= labels[f][l]
    BY <1>1 DEF IInv, ScrapeIsBetween
  <2>3. /\ Total(f, before[f]) <= Total(f, seen[f])
        /\ Total(f, before[f]) \in Nat /\ Total(f, seen[f]) \in Nat
    BY <2>1, <2>2, TotalIsMonotone
  <2>4. /\ Total(f, seen[f]) <= Total(f, labels[f])
        /\ Total(f, labels[f]) \in Nat
    BY <2>1, <2>2, TotalIsMonotone
  <2>5. /\ Total("refs", before["refs"]) <= Total(f, before[f])
        /\ Total("refs", before["refs"]) \in Nat
    BY <1>1, <2>1, TotalIsMonotone DEF TotalsInv, Families
  <2> DEFINE begun == {h \in Handlers : next[h] # "script"}
  <2>6. Total(f, labels[f]) <= Cardinality(begun) /\ Cardinality(begun) \in Nat
    <3>1. PastAll(f) \subseteq begun
      BY DEF PastAll, Past
    <3>2. IsFiniteSet(begun)
      BY HandlersAssumption, FS_Subset
    <3>3. Cardinality(PastAll(f)) <= Cardinality(begun) /\ Cardinality(begun) \in Nat
      BY <3>1, <3>2, FS_Subset, FS_CardinalityType
    <3>4. QED BY <1>1, <3>3 DEF TotalsInv
  <2>7. QED BY <2>3, <2>4, <2>5, <2>6
<1>2. IInv /\ TotalsInv => PageCountsTransactions
  BY <1>1 DEF PageCountsTransactions
<1>3. QED BY InitTotals, NextTotals, Inductive, <1>2, PTL DEF Spec

==============================================================================
