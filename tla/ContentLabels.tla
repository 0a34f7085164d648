--------------------------- MODULE ContentLabels ----------------------------
(***************************************************************************)
(* The labels behind the content counters of Metrics.  ParseTxInfo names   *)
(* what a transaction contains (submit/txinfo.go); RecordTxContent         *)
(* increments one label of each of three counters, one after another; and  *)
(* a scrape reads the counters one after another as well, in any order.    *)
(***************************************************************************)
EXTENDS Naturals, FiniteSets

CONSTANTS
    Handlers,     \* the handlers that record a transaction
    Transactions  \* the transactions they may record

VARIABLES
    next,    \* the counter a handler increments next
    tx,      \* what its transaction contains
    labels,  \* the counters, by family and label
    seen,    \* what the scrape has read, by family
    before   \* the counters when the scrape began

vars == <<next, tx, labels, seen, before>>

Scripts == {"native", "plutus_v1", "plutus_v2", "plutus_v3"}

ScriptLabels == Scripts \cup {"none"}

Families == {"script", "minting", "refs"}

\* All labels; each family uses its own.
Labels == ScriptLabels \cup {"true", "false"}

LabelsOf(f) == IF f = "script" THEN ScriptLabels ELSE {"true", "false"}

\* A transaction as the decoder gives it: whether there is a witness set and the
\* kinds of script in it, minting and reference inputs.
AllTransactions ==
    {t \in [witnesses : BOOLEAN, scripts : SUBSET Scripts, mints : BOOLEAN,
            references : BOOLEAN] : t.witnesses \/ t.scripts = {}}

ASSUME HandlersAssumption == IsFiniteSet(Handlers)
ASSUME TransactionsAssumption == Transactions \subseteq AllTransactions

Zero == [f \in Families |-> [l \in LabelsOf(f) |-> 0]]

\* A family the scrape has not read.
Unread == [l \in {} |-> 0]

TypeOK ==
    /\ next \in [Handlers -> Families \cup {"done"}]
    /\ tx \in [Handlers -> Transactions]
    /\ \A f \in Families :
         /\ labels[f] \in [LabelsOf(f) -> Nat]
         /\ before[f] \in [LabelsOf(f) -> Nat]
         /\ seen[f] = Unread \/ seen[f] \in [LabelsOf(f) -> Nat]

Init ==
    /\ next = [h \in Handlers |-> "script"]
    /\ tx \in [Handlers -> Transactions]
    /\ labels = Zero
    /\ seen = [f \in Families |-> Unread]
    /\ before = Zero

-----------------------------------------------------------------------------

\* Mutant of ScriptType: native scripts are tried first.
ScriptTypeNativeFirst(t) ==
    CASE "native" \in t.scripts -> "native"
      [] t.scripts = {} -> "none"
      [] OTHER -> CHOOSE s \in t.scripts : s # "native"

\* The switch of ParseTxInfo, case by case.
ScriptType(t) ==
    IF ~t.witnesses THEN "none"
    ELSE IF "plutus_v3" \in t.scripts THEN "plutus_v3"
    ELSE IF "plutus_v2" \in t.scripts THEN "plutus_v2"
    ELSE IF "plutus_v1" \in t.scripts THEN "plutus_v1"
    ELSE IF "native" \in t.scripts THEN "native"
    ELSE "none"

FormatBool(b) == IF b THEN "true" ELSE "false"

LabelOf(t, f) ==
    CASE f = "script" -> ScriptType(t)
      [] f = "minting" -> FormatBool(t.mints)
      [] f = "refs" -> FormatBool(t.references)

AfterFamily(f) ==
    CASE f = "script" -> "minting" [] f = "minting" -> "refs" [] f = "refs" -> "done"

\* Mutants of RecordTxContent: Dec for Inc; the label is set, not incremented; a
\* flag that is false is not recorded.
RecordDec(h) ==
    LET f == next[h] IN
    /\ f # "done"
    /\ labels' = [labels EXCEPT ![f][LabelOf(tx[h], f)] = @ - 1]
    /\ next' = [next EXCEPT ![h] = AfterFamily(f)]
    /\ UNCHANGED <<tx, seen, before>>

RecordSets(h) ==
    LET f == next[h] IN
    /\ f # "done"
    /\ labels' = [labels EXCEPT ![f] = [Zero[f] EXCEPT ![LabelOf(tx[h], f)] = 1]]
    /\ next' = [next EXCEPT ![h] = AfterFamily(f)]
    /\ UNCHANGED <<tx, seen, before>>

RecordOnlyTrue(h) ==
    LET f == next[h] IN
    /\ f # "done"
    /\ labels' = IF LabelOf(tx[h], f) = "false" THEN labels
                 ELSE [labels EXCEPT ![f][LabelOf(tx[h], f)] = @ + 1]
    /\ next' = [next EXCEPT ![h] = AfterFamily(f)]
    /\ UNCHANGED <<tx, seen, before>>

\* One of the three increments.
RecordTxContent(h) ==
    LET f == next[h] IN
    /\ f # "done"
    /\ labels' = [labels EXCEPT ![f][LabelOf(tx[h], f)] = @ + 1]
    /\ next' = [next EXCEPT ![h] = AfterFamily(f)]
    /\ UNCHANGED <<tx, seen, before>>

\* A scrape reads one counter; its first read begins it.
Scrape(f) ==
    /\ seen[f] = Unread
    /\ seen' = [seen EXCEPT ![f] = labels[f]]
    /\ before' = IF \A g \in Families : seen[g] = Unread THEN labels ELSE before
    /\ UNCHANGED <<next, tx, labels>>

\* The page is complete; another scrape may follow.
ScrapeEnds ==
    /\ \A f \in Families : seen[f] # Unread
    /\ seen' = [f \in Families |-> Unread]
    /\ UNCHANGED <<next, tx, labels, before>>

Next ==
    \/ \E h \in Handlers : RecordTxContent(h)
    \/ \E f \in Families : Scrape(f)
    \/ ScrapeEnds

Spec == Init /\ [][Next]_vars

-----------------------------------------------------------------------------

\* txinfo.go "the highest Plutus version present, or native for native scripts
\* only, or none": the order of versions, without the switch.
Version(s) ==
    CASE s = "native" -> 1 [] s = "plutus_v1" -> 2 [] s = "plutus_v2" -> 3
      [] s = "plutus_v3" -> 4

HasHighest(t, l) ==
    IF t.scripts = {} THEN l = "none"
    ELSE l \in t.scripts /\ \A s \in t.scripts : Version(s) <= Version(l)

\* When all handlers are done every counter tells what the transactions contain:
\* a script label those that have it as their highest, and the labels of the two
\* other counters those with and those without.
LabelsTellContent ==
    (\A h \in Handlers : next[h] = "done") =>
        /\ \A l \in ScriptLabels :
             labels["script"][l] = Cardinality({h \in Handlers : HasHighest(tx[h], l)})
        /\ labels["minting"]["true"] = Cardinality({h \in Handlers : tx[h].mints})
        /\ labels["refs"]["true"] = Cardinality({h \in Handlers : tx[h].references})
        /\ \A f \in {"minting", "refs"} :
             labels[f]["true"] + labels[f]["false"] = Cardinality(Handlers)

\* A scrape is no snapshot, and its families may disagree; but what it tells of a
\* label is never less than when it began and never more than now.
ScrapeIsBetween ==
    \A f \in Families : seen[f] # Unread =>
        \A l \in LabelsOf(f) : before[f][l] <= seen[f][l] /\ seen[f][l] <= labels[f][l]

\* All that the labels of one family count.
Total(f, counters) ==
    IF f = "script"
      THEN counters["native"] + counters["plutus_v1"] + counters["plutus_v2"]
             + counters["plutus_v3"] + counters["none"]
      ELSE counters["true"] + counters["false"]

\* Whichever family of a page one sums up, it counts every transaction that was
\* recorded when the scrape began ("refs" is incremented last) and none that no
\* handler has begun to record: the families of a page, read at different
\* moments, differ by no more than what was being recorded meanwhile.
PageCountsTransactions ==
    \A f \in Families : seen[f] # Unread =>
        /\ Total("refs", before["refs"]) <= Total(f, seen[f])
        /\ Total(f, seen[f]) <= Cardinality({h \in Handlers : next[h] # "script"})

==============================================================================
