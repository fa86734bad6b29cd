--------------------------- MODULE MCSchemaBootstrap ---------------------------
(* An instance of SchemaBootstrap for TLC: two modules of the platform, of    *)
(* which desk has one; an app with two modules, of which sales has old names  *)
(* that begin with crm's prefix instead of its own, while crm has a table     *)
(* named like one of monitor's; and an app with one module.                   *)
EXTENDS SchemaBootstrap

CONSTANTS shop, desk, mdm, monitor, crm, sales, tickets

OwnerOf  == [m \in Module |-> IF m \in {mdm, monitor} THEN Master ELSE IF m = tickets THEN desk ELSE shop]
RankOf   == [m \in Module |-> CASE m = mdm -> 0 [] m = monitor -> 1 [] m = sales -> 3 [] OTHER -> 2]
Prefixes == {<<crm, crm>>, <<crm, sales>>, <<tickets, tickets>>}
Shadows  == {<<crm, monitor>>}

\* The only release of desk, and those of shop.
OfDesk   == [m \in Module |-> IF m \in {mdm, tickets} THEN 1 ELSE 0]
OfShop   == [m \in Module |-> IF m = tickets THEN 0 ELSE 1]
Releases == {OfDesk, OfShop, [OfShop EXCEPT ![crm] = 2], [OfShop EXCEPT ![sales] = 0],
             [OfShop EXCEPT ![mdm] = 2, ![crm] = 0]}
=============================================================================
