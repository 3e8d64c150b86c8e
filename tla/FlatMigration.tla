---------------------------- MODULE FlatMigration ----------------------------
(***************************************************************************)
(* The boot of the service on a database of the flat legacy API            *)
(* (app/main.py lifespan,                                                  *)
(* app/database/migration/flat_to_relational_migration.py): the schema is  *)
(* created, then the legacy rows move into products, components and        *)
(* versions.  Statements commit one by one; a boot may die between two of  *)
(* them and be repeated, and two replicas may boot at once.                *)
(***************************************************************************)
EXTENDS Naturals, Sequences, FiniteSets

CONSTANTS
    Boots,       \* replicas that may boot
    LegacyRows   \* the legacy table in the order it is read: [product, semver]

ASSUME MigrationAssumption ==
    /\ IsFiniteSet(Boots)
    /\ LegacyRows \in Seq([product : STRING, semver : Nat])

VARIABLES
    named,      \* what the table called versions is: legacy, relational or absent
    archived,   \* legacy_versions is there
    products,   \* the products inserted, one per INSERT: its legacy name
    moved,      \* the versions inserted: the legacy row and the product it hangs off
    boot,       \* per replica, how far its boot is
    brokenOff   \* history: a boot ended between its rename and its last row

migrationVars == <<named, archived, products, moved, boot, brokenOff>>

Down == [at |-> "down"]
LegacyNames == {LegacyRows[i].product : i \in DOMAIN LegacyRows}
-----------------------------------------------------------------------------
Step(b, next) == boot' = [boot EXCEPT ![b] = next] /\ UNCHANGED brokenOff

\* The legacy table has its archive name, and this boot alone knows its rows.
Moving(b) == boot[b].at \in {"rebuild", "insert"}

MigrationInit ==
    /\ named = "legacy"
    /\ archived = FALSE
    /\ products = <<>>
    /\ moved = <<>>
    /\ boot = [b \in Boots |-> Down]
    /\ brokenOff = FALSE

\* init_schema: CREATE TABLE IF NOT EXISTS, which a legacy table of the name stops.
SchemaCreated == named' = IF named = "absent" THEN "relational" ELSE named

Boot(b) ==
    /\ boot[b] = Down
    /\ SchemaCreated
    /\ Step(b, [at |-> "inspect"])
    /\ UNCHANGED <<archived, products, moved>>

\* _should_migrate: the legacy shape, with rows, and no product yet.
ShouldMigrate == named = "legacy" /\ LegacyRows # <<>> /\ products = <<>>

\* Then the rows are read; another boot may have taken the table away by now.
Inspect(b) ==
    /\ boot[b].at = "inspect"
    /\ Step(b, [at |-> IF ShouldMigrate THEN "read" ELSE "serving"])
    /\ UNCHANGED <<named, archived, products, moved>>

ReadRows(b) ==
    /\ boot[b].at = "read"
    /\ Step(b, IF named = "legacy" THEN [at |-> "archive"] ELSE Down)
    /\ UNCHANGED <<named, archived, products, moved>>

\* The rename is skipped where the name is gone or taken (IF EXISTS).
ArchiveIfThere(b) == LET free == named # "absent" /\ ~archived IN
    /\ boot[b].at = "archive"
    /\ named' = IF free THEN "absent" ELSE named
    /\ archived' = TRUE
    /\ Step(b, [at |-> "rebuild"])
    /\ UNCHANGED <<products, moved>>

\* The rename fails when there is no versions, or a legacy_versions: the boot ends.
Archive(b) ==
    /\ boot[b].at = "archive"
    /\ \/ /\ named # "absent" /\ ~archived
          /\ named' = "absent" /\ archived' = TRUE
          /\ Step(b, [at |-> "rebuild"])
       \/ /\ named = "absent" \/ archived
          /\ Step(b, Down)
          /\ UNCHANGED <<named, archived>>
    /\ UNCHANGED <<products, moved>>

\* init_schema again, which finds the name versions free now.
Rebuild(b) ==
    /\ boot[b].at = "rebuild"
    /\ SchemaCreated
    /\ Step(b, [at |-> "insert", next |-> 1, home |-> [n \in {} |-> 0]])
    /\ UNCHANGED <<archived, products, moved>>

\* A product and its default component, the first time its name comes up.  (The
\* component adds nothing here: it is found through the product.)
CreateProduct(b) == LET name == LegacyRows[boot[b].next].product
                        home == boot[b].home IN
    /\ boot[b].at = "insert" /\ boot[b].next \in DOMAIN LegacyRows
    /\ name \notin DOMAIN home
    /\ products' = Append(products, name)
    /\ Step(b, [boot[b] EXCEPT !.home =
                   [n \in DOMAIN home \cup {name} |->
                       IF n = name THEN Len(products) + 1 ELSE home[n]]])
    /\ UNCHANGED <<named, archived, moved>>

\* A version number the product has already is not inserted again.
InsertDistinct(b) == LET i == boot[b].next IN
    /\ boot[b].at = "insert" /\ i \in DOMAIN LegacyRows
    /\ LegacyRows[i].product \in DOMAIN boot[b].home
    /\ moved' = IF \E j \in DOMAIN LegacyRows : j < i /\ LegacyRows[j] = LegacyRows[i]
                THEN moved
                ELSE Append(moved, [row |-> i, of |-> boot[b].home[LegacyRows[i].product]])
    /\ Step(b, [boot[b] EXCEPT !.next = @ + 1])
    /\ UNCHANGED <<named, archived, products>>

InsertVersionRow(b) == LET i == boot[b].next IN
    /\ boot[b].at = "insert" /\ i \in DOMAIN LegacyRows
    /\ LegacyRows[i].product \in DOMAIN boot[b].home
    /\ moved' = Append(moved, [row |-> i, of |-> boot[b].home[LegacyRows[i].product]])
    /\ Step(b, [boot[b] EXCEPT !.next = @ + 1])
    /\ UNCHANGED <<named, archived, products>>

Serve(b) ==
    /\ boot[b].at = "insert" /\ boot[b].next \notin DOMAIN LegacyRows
    /\ Step(b, [at |-> "migrated"])
    /\ UNCHANGED <<named, archived, products, moved>>

\* The process stops, in the middle of its boot (an error there ends it too) or later.
Stop(b) ==
    /\ boot[b] # Down
    /\ boot' = [boot EXCEPT ![b] = Down]
    /\ brokenOff' = (brokenOff \/ Moving(b))
    /\ UNCHANGED <<named, archived, products, moved>>

MigrationNext ==
    \E b \in Boots :
        \/ Boot(b) \/ Inspect(b) \/ ReadRows(b) \/ Archive(b) \/ Rebuild(b)
        \/ CreateProduct(b) \/ InsertVersionRow(b) \/ Serve(b)
        \/ Stop(b)

MigrationSpec == MigrationInit /\ [][MigrationNext]_migrationVars
-----------------------------------------------------------------------------
(***************************************************************************)
(* Properties.                                                             *)
(***************************************************************************)

\* However often and at how many replicas the service boots, no legacy row gets a
\* second version and no name a second product ("safe to run on every boot",
\* flat_to_relational_migration.py:40).
NothingIsMigratedTwice ==
    /\ \A i, j \in DOMAIN moved : moved[i].row = moved[j].row => i = j
    /\ \A i, j \in DOMAIN products : products[i] = products[j] => i = j

\* Every legacy row, duplicates of a version number too, is a version of the product
\* of its name.
Whole ==
    /\ named = "relational"
    /\ \A i \in DOMAIN LegacyRows :
          \E j \in DOMAIN moved :
             moved[j].row = i /\ products[moved[j].of] = LegacyRows[i].product

\* Wherever boots race, fail and are repeated, the legacy rows are in the table they
\* came in, or a boot is moving them, or all of them have been moved; only a boot that
\* ended after its rename and before its last row (brokenOff) leaves some behind
\* ("the source table is archived ..., not dropped", "safe to run on every boot":
\* flat_to_relational_migration.py:40-50).
OnlyABrokenOffBootStrandsRows ==
    IF archived THEN Whole \/ brokenOff \/ \E b \in Boots : Moving(b)
                ELSE named = "legacy"
=============================================================================
