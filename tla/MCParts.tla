------------------------------- MODULE MCParts -------------------------------
(* These parts of the system share no variable in the models.  Each of them  *)
(* is explored by itself, while the others rest in one initial state.        *)
EXTENDS MCRestoreScript, Registry, ShopTokens, JobWatch, SkuMap, PluginOrders, PluginCards,
        PluginCatalog

VARIABLE part

Parts == {"script", "registry", "tokens", "watch", "skus", "orders", "cards",
          "catalog"}
partsVars == <<part, vars, registryVars, tokenVars, watchVars, skuVars, orderVars, cardVars,
               catalogVars>>

PartsInit ==
  /\ part \in Parts
  /\ Init /\ RegistryInit /\ TokensInit /\ WatchInit /\ SkuInit /\ OrdersInit /\ CardsInit
  /\ CatalogInit
  /\ part # "script" => db = [t \in Names |-> {}]
  /\ part # "tokens" => shop = "horoshop"
  /\ part # "watch" => kind = "modal"
  /\ part # "skus" => card = Blank
  /\ part # "orders" => configured /\ webhookOn
  /\ part # "cards" => hasSku = {} /\ autoUpdate
  /\ part # "catalog" => both /\ offered = Tcods

PartsNext ==
  \/ /\ part = "script" /\ Next
     /\ UNCHANGED <<part, registryVars, tokenVars, watchVars, skuVars, orderVars, cardVars,
                    catalogVars>>
  \/ /\ part = "registry" /\ RegistryNext
     /\ UNCHANGED <<part, vars, tokenVars, watchVars, skuVars, orderVars, cardVars,
                    catalogVars>>
  \/ /\ part = "tokens" /\ TokensNext
     /\ UNCHANGED <<part, vars, registryVars, watchVars, skuVars, orderVars, cardVars,
                    catalogVars>>
  \/ /\ part = "watch" /\ WatchNext
     /\ UNCHANGED <<part, vars, registryVars, tokenVars, skuVars, orderVars, cardVars,
                    catalogVars>>
  \/ /\ part = "skus" /\ SkuNext
     /\ UNCHANGED <<part, vars, registryVars, tokenVars, watchVars, orderVars, cardVars,
                    catalogVars>>
  \/ /\ part = "orders" /\ OrdersNext
     /\ UNCHANGED <<part, vars, registryVars, tokenVars, watchVars, skuVars, cardVars,
                    catalogVars>>
  \/ /\ part = "cards" /\ CardsNext
     /\ UNCHANGED <<part, vars, registryVars, tokenVars, watchVars, skuVars, orderVars,
                    catalogVars>>
  \/ /\ part = "catalog" /\ CatalogNext
     /\ UNCHANGED <<part, vars, registryVars, tokenVars, watchVars, skuVars, orderVars,
                    cardVars>>

PartsSpec == PartsInit /\ [][PartsNext]_partsVars

(* A product on each page of the shop's listing.                             *)
PageOfDef == [s \in Skus |-> s]

(* Products 1 and 3 begin alike; 1 and 2 have the same name.                 *)
GroupOfDef == [t \in Tcods |-> IF t = 2 THEN "h" ELSE "g"]
NameOfDef == [t \in Tcods |-> IF t = 3 THEN "c" ELSE "a"]
BaseOfDef == [g \in {"g", "h"} |-> IF g = "g" THEN "b" ELSE "d"]
=============================================================================
