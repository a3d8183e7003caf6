-------------------------- MODULE MCCatalogExport --------------------------
(* Two runners.  Horoshop: a text article in a new category under one that  *)
(* exists.  Prom: a card of the product 1, and one with the barcode of the  *)
(* product 2.  WooCommerce: no SKU, the article of Horoshop's card as its   *)
(* barcode, and three new levels of categories, one more than fit.          *)
EXTENDS CatalogExport

Card(id, external, sku, barcode, path) ==
  [id |-> id, external |-> external, sku |-> sku, barcode |-> barcode, path |-> path]

Rows == {[tcod |-> 1, nnom |-> -1, group |-> <<30>>, deleted |-> FALSE],
         [tcod |-> 2, nnom |-> 0, group |-> <<30>>, deleted |-> FALSE]}
Barcodes == {<<-5, 2>>}
Categories == <<[group |-> <<30>>, name_g |-> "A", parent |-> <<>>]>>
Goods ==
  [horoshop |-> <<Card(702, 0, -2, 0, <<"A", "B">>)>>,
   prom |-> <<Card(801, 1, -1, 0, <<"A", "E">>), Card(802, 0, -5, 0, <<>>)>>,
   woocommerce |-> <<Card(901, 0, 0, -2, <<"C", "B", "D">>)>>]

(* Horoshop has a card with a number for an article, and no barcode, too.   *)
Numbered == [Goods EXCEPT !["horoshop"] = <<Card(701, 0, 90, 0, <<"C">>)>> \o @]

RootCodes == 30 .. 40

Symmetry == Permutations(Runners)
=============================================================================
