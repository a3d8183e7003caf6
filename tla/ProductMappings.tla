-------------------------- MODULE ProductMappings --------------------------
(***************************************************************************)
(* ProductMappingService: the rows of product_mappings, which tell the     *)
(* code of a product in Limansoft from its article in a shop.  Imports,    *)
(* exports and passes of prices write them, each under a lock of its own   *)
(* or none.  One integration per shop is assumed here; Registry says when  *)
(* that is so.  The look-up and the save of one row are one step: two      *)
(* saves at once end in the same refusal by the unique keys.               *)
(***************************************************************************)
EXTENDS Integers, Sequences, FiniteSets

VARIABLE mappings  \* rows [shop, tcod, article, status]

(* @Unique(integrationId, limanTcod), @Unique(integrationId, externalArticle) *)
UniqueKeys(rows) ==
  \A x, y \in rows :
    x.shop = y.shop /\ (x.tcod = y.tcod \/ x.article = y.article) => x = y

(* The table after a save of m, which looks its row up by the product.      *)
Saved(m) == {x \in mappings : x.shop # m.shop \/ x.tcod # m.tcod} \cup {m}

(* The save is refused when another product holds the article.              *)
Refused(m) == ~UniqueKeys(Saved(m))

(* saveMapping; the caller sees the refusal as an error.                    *)
SaveMapping(m) == mappings' = IF Refused(m) THEN mappings ELSE Saved(m)

(* getAllMappedTcods: whatever their status.                                *)
AllMappedTcods(shop) == {x.tcod : x \in {y \in mappings : y.shop = shop}}

=============================================================================
