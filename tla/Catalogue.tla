------------------------------ MODULE Catalogue ------------------------------
(***************************************************************************)
(* The two tables every other part of the service hangs from: products and *)
(* the components they own (app/queries/products, app/queries/components). *)
(* No request deletes or renames a row of either table.                    *)
(*                                                                         *)
(* A table is a function from the ids of its rows to the rows.  A fresh    *)
(* ULID is any id not in use.  A handler is one atomic step: it is a       *)
(* coroutine that never awaits anything that suspends, so no other request *)
(* of the same process runs between two of its statements.                 *)
(***************************************************************************)
EXTENDS Naturals, FiniteSets

CONSTANTS
    ProductIds,      \* ULIDs the products can get
    ComponentIds,    \* ULIDs the components can get
    ProductNames,    \* names clients ask for
    LegacyProducts   \* rows written before bump policies existed

ASSUME CatalogueAssumption == LegacyProducts \subseteq ProductIds

VARIABLES
    product,     \* table products: id -> [name, policy]
    component,   \* table components: id -> owning product
    reply        \* what the last request answered and what it published

catalogueVars == <<product, component>>
-----------------------------------------------------------------------------
Policies == {"default", "legacy"}

ProductRow == [name : ProductNames, policy : Policies]

\* A table after an INSERT of row under a key not in use.
Insert(table, key, row) ==
    [k \in DOMAIN table \cup {key} |-> IF k = key THEN row ELSE table[k]]

\* The components of product p.
ComponentsOf(p) == {c \in DOMAIN component : component[c] = p}

NoEvent == [type |-> "none"]

\* A refusal (404 or 409) and a request the database failed (500) publish nothing;
\* a success may publish one event.
NotFound     == [code |-> "not_found", event |-> NoEvent]
Conflict     == [code |-> "conflict", event |-> NoEvent]
ServerError  == [code |-> "error", event |-> NoEvent]
Ok           == [code |-> "ok", event |-> NoEvent]
Published(e) == [code |-> "ok", event |-> e]
-----------------------------------------------------------------------------
\* Before the first request: only the products that predate bump policies,
\* which ALTER TABLE gives the policy 'legacy'.
CatalogueInit ==
    /\ product \in {f \in [LegacyProducts -> [name : ProductNames, policy : {"legacy"}]] :
                      \A p, q \in LegacyProducts : f[p].name = f[q].name => p = q}
    /\ component = [c \in {} |-> {}]
    /\ reply = Ok

\* POST /products: refused when the name is taken, else a row of policy default.
CreateProduct(p, n) ==
    /\ p \notin DOMAIN product
    /\ LET taken == \E q \in DOMAIN product : product[q].name = n
       IN  \/ /\ taken
              /\ reply' = Conflict
              /\ UNCHANGED product
           \/ /\ ~taken
              /\ product' = Insert(product, p, [name |-> n, policy |-> "default"])
              /\ reply' = Ok
    /\ UNCHANGED component

\* The look-up of the owning product forgotten.
CreateOrphanComponent(c, p) ==
    /\ c \notin DOMAIN component
    /\ component' = Insert(component, c, p)
    /\ reply' = Ok
    /\ UNCHANGED product

\* POST /components: the owning product must exist; names need not differ.
CreateComponent(c, p) ==
    /\ c \notin DOMAIN component
    /\ \/ /\ p \notin DOMAIN product
          /\ reply' = NotFound
          /\ UNCHANGED component
       \/ /\ p \in DOMAIN product
          /\ component' = Insert(component, c, p)
          /\ reply' = Ok
    /\ UNCHANGED product

CatalogueNext ==
    \/ \E p \in ProductIds, n \in ProductNames : CreateProduct(p, n)
    \/ \E c \in ComponentIds, p \in ProductIds : CreateComponent(c, p)
-----------------------------------------------------------------------------
\* Rows have their columns, and every component's product exists (the
\* REFERENCES clause of components, which create_component_query.py upholds).
CatalogueTypeOK ==
    /\ DOMAIN product \subseteq ProductIds
    /\ product \in [DOMAIN product -> ProductRow]
    /\ DOMAIN component \subseteq ComponentIds
    /\ component \in [DOMAIN component -> DOMAIN product]
=============================================================================
