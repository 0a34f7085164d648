-------------------------- MODULE MCContentLabels ---------------------------
(* An instance of ContentLabels for TLC.                                   *)
EXTENDS ContentLabels, TLC

\* Every set of scripts, and a transaction without a witness set; the other
\* labels go with the native scripts.
SomeTransactions ==
    {t \in AllTransactions :
        t.mints = ("native" \in t.scripts) /\ t.references = ~t.mints}

Symmetry == Permutations(Handlers)

==============================================================================
