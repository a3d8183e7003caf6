--------------------------- MODULE PluginCatalog ---------------------------
(***************************************************************************)
(* The plugin's own import: it reads Limansoft's tables directly, groups   *)
(* the products by the beginning of their names, and makes a simple card   *)
(* of a group of one and a variable card with variations of a larger one,  *)
(* in one or two languages.  Its clean-up then deletes what it takes for   *)
(* duplicates.  Both are PHP scripts (the admin page, WP-CLI) that several *)
(* managers may start at once; WordPress and WooCommerce are external.     *)
(* Left out: prices, stocks, pictures and texts of the cards; a card and   *)
(* its language are saved in one step.                                     *)
(***************************************************************************)
EXTENDS Naturals, Sequences, FiniteSets, SequencesExt

CONSTANTS
  Tcods,    \* products of Limansoft
  GroupOf,  \* parse_item: the base_key of a product
  NameOf,   \* the title of its simple card: product_name
  BaseOf,   \* the title of a group's variable card: base_name
  Tasks,    \* scripts at work at once
  MaxTasks, \* bound: scripts, cards deleted by hand, and scripts that die
  MaxPosts  \* bound: cards

ASSUME PluginCatalogAssumption ==
  /\ MaxTasks \in Nat /\ MaxPosts \in Nat /\ IsFiniteSet(Tcods)
  /\ DOMAIN GroupOf = Tcods /\ DOMAIN NameOf = Tcods
  /\ \A t \in Tcods : GroupOf[t] \in DOMAIN BaseOf

VARIABLES
  both,     \* import_language is "both", and Polylang is active
  offered,  \* products in the tables of Limansoft, of the groups the query picks
  posts,    \* cards and variations: id, title, lang, parent, sku
  lastPost, \* ids given so far
  task,     \* the scripts
  tasks,    \* what MaxTasks bounds
  thirds,   \* read by properties: cards made when two others had their title
  spoiled   \* read by properties: SKUs of such cards, or deleted by hand

catalogVars == <<both, offered, posts, lastPost, task, tasks, thirds, spoiled>>

NoTask == [pc |-> "none"]
Langs == {"uk", "ru"}

CatalogInit ==
  /\ both \in BOOLEAN
  /\ offered \in SUBSET Tcods \ {{}}
  /\ posts = {} /\ lastPost = 0
  /\ task = [k \in Tasks |-> NoTask] /\ tasks = 0 /\ thirds = {} /\ spoiled = {}

Ids == {p.id : p \in posts}
SkusOf(ps) == UNION {p.sku : p \in ps}
Sku(t, lang) == {<<t, lang>>} \* tcod, or tcod_ru
Products == {p \in posts : p.parent = 0}
Family(id) == {p \in posts : p.id = id \/ p.parent = id}

BeginTask == tasks < MaxTasks /\ tasks' = tasks + 1

(* The catalogue grows, and a group of one becomes a larger one.            *)
OfferMore(t) ==
  /\ BeginTask /\ t \notin offered
  /\ offered' = offered \cup {t}
  /\ UNCHANGED <<both, posts, lastPost, task, thirds, spoiled>>

-----------------------------------------------------------------------------
(* get_tobacco_products: one query reads them all, under no transaction.    *)
ProductsRead == offered

(* run_tobacco_migration: the products are read and grouped once.           *)
BeginMigration(k) ==
  /\ BeginTask /\ task[k] = NoTask
  /\ task' = [task EXCEPT ![k] =
       [pc |-> "group", items |-> ProductsRead, groups |-> {GroupOf[t] : t \in ProductsRead}]]
  /\ UNCHANGED <<both, offered, posts, lastPost, thirds, spoiled>>

Members(a, g) == {t \in a.items : GroupOf[t] = g}

NextGroupOf(k, g) ==
  LET a == task[k] IN
  /\ a.pc = "group" /\ g \in a.groups
  /\ task' = [task EXCEPT ![k] = [pc |-> "find", items |-> a.items,
                                  groups |-> a.groups \ {g}, group |-> g, lang |-> "uk"]]
  /\ UNCHANGED <<both, offered, posts, lastPost, tasks, thirds, spoiled>>

GroupsDone(k) ==
  /\ task[k].pc = "group" /\ task[k].groups = {}
  /\ task' = [task EXCEPT ![k] = NoTask]
  /\ UNCHANGED <<both, offered, posts, lastPost, tasks, thirds, spoiled>>

(* Cards to be saved, in this order; parent 0 is a card, 1 a variation.     *)
Card(title, lang, parent, sku) == [title |-> title, lang |-> lang, parent |-> parent, sku |-> sku]

(* get_product_by_title_and_lang: a card without a language fits any.       *)
TitleFound(title, lang) ==
  \E p \in Products : p.title = title /\ (both => p.lang = lang)

(* create_variable_product: nothing is done for a title that exists.        *)
Variable(g, members, lang) ==
  IF TitleFound(BaseOf[g], lang) THEN <<>>
  ELSE <<Card(BaseOf[g], lang, 0, {})>> \o
       LET ordered == SetToSeq(members) IN
       [i \in DOMAIN ordered |-> Card(BaseOf[g], lang, 1, Sku(ordered[i], lang))]

(* create_simple_product: nothing but a price is changed for a known SKU.   *)
Simple(t, lang) ==
  IF Sku(t, lang) \subseteq SkusOf(posts) THEN <<>>
  ELSE <<Card(NameOf[t], lang, 0, Sku(t, lang))>>

Find(k) ==
  LET a == task[k]
      members == Members(a, a.group)
  IN /\ a.pc = "find"
     /\ task' = [task EXCEPT ![k] =
          [pc |-> "check", items |-> a.items, groups |-> a.groups, group |-> a.group,
           lang |-> a.lang, parent |-> 0,
           plan |-> IF Cardinality(members) > 1 THEN Variable(a.group, members, a.lang)
                    ELSE Simple(CHOOSE t \in members : TRUE, a.lang)]]
     /\ UNCHANGED <<both, offered, posts, lastPost, tasks, thirds, spoiled>>

(* The cards of one language are done; those of the other come next.        *)
LanguageDone(k) ==
  LET a == task[k] IN
  /\ a.pc = "check" /\ a.plan = <<>>
  /\ task' = [task EXCEPT ![k] =
       IF both /\ a.lang = "uk"
       THEN [pc |-> "find", items |-> a.items, groups |-> a.groups, group |-> a.group,
             lang |-> "ru"]
       ELSE [pc |-> "group", items |-> a.items, groups |-> a.groups]]
  /\ UNCHANGED <<both, offered, posts, lastPost, tasks, thirds, spoiled>>

(* set_sku: WooCommerce refuses a SKU that another card has, and the rest   *)
(* of the group is given up ...                                             *)
CheckSku(k) ==
  LET a == task[k] IN
  /\ a.pc = "check" /\ a.plan # <<>>
  /\ task' = [task EXCEPT ![k] =
       IF Head(a.plan).sku \cap SkusOf(posts) = {} THEN [a EXCEPT !.pc = "save"]
       ELSE [pc |-> "group", items |-> a.items, groups |-> a.groups]]
  /\ UNCHANGED <<both, offered, posts, lastPost, tasks, thirds, spoiled>>

(* ... and save.  A variation whose card is gone is saved all the same.     *)
SavePost(k) ==
  LET a == task[k]
      c == Head(a.plan)
      id == lastPost + 1
      parent == IF c.parent = 0 THEN 0 ELSE a.parent
      third == c.parent = 0 /\ Cardinality({p \in Products : p.title = c.title}) >= 2
  IN /\ a.pc = "save" /\ id <= MaxPosts
     /\ lastPost' = id
     /\ posts' = posts \cup {[id |-> id, title |-> c.title, lang |-> c.lang,
                              parent |-> parent, sku |-> c.sku]}
     /\ task' = [task EXCEPT ![k].pc = "check", ![k].plan = Tail(a.plan),
                             ![k].parent = IF c.parent = 0 THEN id ELSE @]
     /\ thirds' = IF third THEN thirds \cup {id} ELSE thirds
     /\ spoiled' = IF third \/ parent \in thirds THEN spoiled \cup c.sku ELSE spoiled
     /\ UNCHANGED <<both, offered, tasks>>

-----------------------------------------------------------------------------
(* cleanup_duplicates.                                                      *)

(* First: of the cards with one SKU, all but the oldest.                    *)
SameSku == {p \in posts : \E q \in posts : q.id < p.id /\ q.sku \cap p.sku # {}}

BeginCleanup(k) ==
  /\ BeginTask /\ task[k] = NoTask
  /\ task' = [task EXCEPT ![k] = [pc |-> "skus", doomed |-> {p.id : p \in SameSku}]]
  /\ UNCHANGED <<both, offered, posts, lastPost, thirds, spoiled>>

Older(p) == {q \in Products : q.title = p.title /\ q.id < p.id}

SecondOfTitle == {p \in Products : Older(p) # {}} \* mutant: one card per title is kept

(* Then: of the cards with one title, all but the two oldest, which are     *)
(* taken for the two languages.                                             *)
SameTitle == {p \in Products : Cardinality(Older(p)) >= 2}

QueryTitles(k) ==
  /\ task[k].pc = "skus" /\ task[k].doomed = {}
  /\ task' = [task EXCEPT ![k] = [pc |-> "titles", doomed |-> {p.id : p \in SameTitle}]]
  /\ UNCHANGED <<both, offered, posts, lastPost, tasks, thirds, spoiled>>

(* wp_delete_post takes the variations of a card with it.                   *)
DeletePost(k, id) ==
  LET a == task[k] IN
  /\ a.pc \in {"skus", "titles"} /\ id \in a.doomed
  /\ posts' = IF id \in Ids THEN posts \ Family(id) ELSE posts
  /\ task' = [task EXCEPT ![k].doomed = @ \ {id}]
  /\ UNCHANGED <<both, offered, lastPost, tasks, thirds, spoiled>>

CleanupEnds(k) ==
  /\ task[k].pc = "titles" /\ task[k].doomed = {}
  /\ task' = [task EXCEPT ![k] = NoTask]
  /\ UNCHANGED <<both, offered, posts, lastPost, tasks, thirds, spoiled>>

-----------------------------------------------------------------------------
(* A manager deletes a card; a script runs longer than PHP allows.          *)
DeleteByHand(id) ==
  /\ BeginTask /\ id \in Ids
  /\ posts' = posts \ Family(id)
  /\ spoiled' = spoiled \cup SkusOf(Family(id))
  /\ UNCHANGED <<both, offered, lastPost, task, thirds>>

TaskDies(k) ==
  /\ BeginTask /\ task[k] # NoTask
  /\ task' = [task EXCEPT ![k] = NoTask]
  /\ UNCHANGED <<both, offered, posts, lastPost, thirds, spoiled>>

CatalogNext ==
  \/ \E t \in Tcods : OfferMore(t)
  \/ \E id \in Ids : DeleteByHand(id)
  \/ \E k \in Tasks :
       \/ BeginMigration(k) \/ GroupsDone(k) \/ Find(k) \/ LanguageDone(k)
       \/ CheckSku(k) \/ SavePost(k) \/ BeginCleanup(k) \/ QueryTitles(k)
       \/ CleanupEnds(k) \/ TaskDies(k)
       \/ \E g \in DOMAIN BaseOf : NextGroupOf(k, g)
       \/ \E id \in 1 .. lastPost : DeletePost(k, id)

CatalogSpec == CatalogInit /\ [][CatalogNext]_catalogVars

-----------------------------------------------------------------------------
(* The clean-up never takes the last card of a SKU from the shop: what it   *)
(* deletes as a duplicate has another card that stays, also while imports   *)
(* and other clean-ups are at work, and both languages of a product stay.   *)
(* Excepted are the SKUs of a card that was the third or later one with its *)
(* title, since the clean-up takes products of one name for one product,    *)
(* and of cards deleted by hand.                                            *)
CleanupKeepsSkus == [][SkusOf(posts) \ SkusOf(posts') \subseteq spoiled']_catalogVars
=============================================================================
