----------------------------- MODULE MCCatalog -----------------------------
(* Instances of Catalog for TLC. *)
EXTENDS Catalog, TLC

CONSTANTS c1, c2, c3, n1, n2, n3

OwnName == c1 :> n1 @@ c2 :> n2 @@ c3 :> n3

\* Two seeded categories; the third is created.
TwoSeeds == c1 :> [name |-> n1, kind |-> "BOTH"] @@ c2 :> [name |-> n2, kind |-> "EXPENSE"]

\* Each category keeps its name, but one that may take the name of another, and
\* only one changes its kind.
Moves == {r \in [child : Categories, version : 0 .. MaxVersion - 1, name : Names,
                 kind : {"EXPENSE", "BOTH"}, parent : Categories \cup {None}, archived : BOOLEAN] :
            /\ r.version = 0 <=> r.child = c3
            /\ r.version = 0 => ~r.archived
            /\ r.kind = "EXPENSE" \/ r.child = c1
            /\ r.child = c1 => r.parent \in {None, c3} /\ (r.archived => r.parent = None)
            /\ r.child = c3 => r.parent \in {None, c2}
            /\ r.name = OwnName[r.child] \/ (r.child = c3 /\ r.name = n1 /\ r.parent = None)}

IncomeOnFirst == {<<c1, "INCOME">>}
=============================================================================
