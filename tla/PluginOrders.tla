---------------------------- MODULE PluginOrders ----------------------------
(***************************************************************************)
(* How the WordPress plugin tells the server of an order.  WooCommerce     *)
(* changes the status of an order in many PHP requests (the buyer's, the   *)
(* payment gateway's, the manager's); each loads the order, saves it and   *)
(* then runs the plugin's two hooks: one on the change of the status, one  *)
(* on the payment.  A hook calls the server and flags the order with       *)
(* _limansoft_notified.  What the server does with an order is in module   *)
(* OrderIntake; WooCommerce itself is external.  Not modelled: an order    *)
(* none of whose lines has a SKU, which the plugin does not announce.      *)
(***************************************************************************)
EXTENDS Naturals

CONSTANTS
  Orders,
  OrderScripts, \* PHP requests at work at once
  MaxOrderScripts \* bound: PHP requests and changes of a setting

ASSUME PluginOrdersAssumption == MaxOrderScripts \in Nat

Statuses == {"pending", "processing", "completed", "cancelled"}
NotifyStatuses == {"processing", "completed"}
NoScript == [pc |-> "none"]

VARIABLES
  status,    \* the order's status in WooCommerce's tables
  notified,  \* orders with the meta _limansoft_notified
  configured,\* the plugin's options hold a URL, a key and a tenant
  webhookOn, \* the server: tenant.woocommerceOrderWebhookEnabled
  script,    \* the PHP requests
  heard,     \* orders the server has taken over
  unheard,   \* read by properties: orders with a reason not to be heard of
  reached,   \* read by properties: orders that were to be announced
  scripts    \* PHP requests and changes of a setting so far

orderVars == <<status, notified, configured, webhookOn, script, heard, unheard, reached, scripts>>

OrdersInit ==
  /\ status = [o \in Orders |-> "pending"] /\ notified = {}
  /\ configured \in BOOLEAN /\ webhookOn \in BOOLEAN
  /\ script = [r \in OrderScripts |-> NoScript]
  /\ heard = {} /\ unheard = {} /\ reached = {} /\ scripts = 0

Counted == scripts < MaxOrderScripts /\ scripts' = scripts + 1

(* ajax_save_settings: a script sees the options as they were when it began. *)
SaveOptions ==
  /\ Counted /\ configured' = ~configured
  /\ UNCHANGED <<status, notified, webhookOn, script, heard, unheard, reached>>

(* The tenant's settings on the server.                                     *)
SwitchWebhook ==
  /\ Counted /\ webhookOn' = ~webhookOn
  /\ UNCHANGED <<status, notified, configured, script, heard, unheard, reached>>

-----------------------------------------------------------------------------
(* WooCommerce: a script loads an order and decides on its next status; a   *)
(* payment makes it "processing" ...                                        *)
LoadOrder(r, o, to, paid) ==
  /\ Counted /\ script[r] = NoScript /\ to # status[o]
  /\ paid => to = "processing" /\ status[o] \notin NotifyStatuses
  /\ script' = [script EXCEPT ![r] =
       [pc |-> "loaded", order |-> o, from |-> status[o], to |-> to, paid |-> paid,
        configured |-> configured]]
  /\ UNCHANGED <<status, notified, configured, webhookOn, heard, unheard, reached>>

(* ... and saves it; the hook on the status comes next.                     *)
SaveOrder(r) ==
  LET s == script[r] IN
  /\ s.pc = "loaded"
  /\ status' = [status EXCEPT ![s.order] = s.to]
  /\ script' = [script EXCEPT ![r].pc = "changed"]
  /\ reached' = IF s.to \in NotifyStatuses THEN reached \cup {s.order} ELSE reached
  /\ UNCHANGED <<notified, configured, webhookOn, heard, unheard, scripts>>

AfterChange(s) == IF s.paid THEN [s EXCEPT !.pc = "paid", !.paid = FALSE] ELSE NoScript

(* notify_limansoft begins: it does nothing while the plugin has no settings. *)
Notify(r) ==
  LET s == script[r] IN
  IF s.configured
  THEN script' = [script EXCEPT ![r].pc = "calling"] /\ UNCHANGED unheard
  ELSE script' = [script EXCEPT ![r] = AfterChange(s)] /\ unheard' = unheard \cup {s.order}

AnnouncesPaid(from, to) == to = "processing" /\ from \notin NotifyStatuses \* mutant: only payments

(* The changes of status that handle_status_change announces.               *)
Announces(from, to) == to \in NotifyStatuses /\ from \notin NotifyStatuses

(* handle_status_change, which looks for the flag ...                       *)
StatusChanged(r) ==
  LET s == script[r] IN
  /\ s.pc = "changed"
  /\ IF Announces(s.from, s.to) /\ s.order \notin notified
     THEN Notify(r)
     ELSE script' = [script EXCEPT ![r] = AfterChange(s)] /\ UNCHANGED unheard
  /\ UNCHANGED <<status, notified, configured, webhookOn, heard, reached, scripts>>

(* ... and handle_order, which does not.                                    *)
PaymentComplete(r) ==
  /\ script[r].pc = "paid" /\ Notify(r)
  /\ UNCHANGED <<status, notified, configured, webhookOn, heard, reached, scripts>>

(* The server answers 200, also when the tenant has the webhook switched off. *)
ServerHears(r) ==
  LET s == script[r] IN
  /\ s.pc = "calling"
  /\ script' = [script EXCEPT ![r].pc = "answered"]
  /\ heard' = IF webhookOn THEN heard \cup {s.order} ELSE heard
  /\ unheard' = IF webhookOn THEN unheard ELSE unheard \cup {s.order}
  /\ UNCHANGED <<status, notified, configured, webhookOn, reached, scripts>>

FlagOrder(r) ==
  LET s == script[r] IN
  /\ s.pc = "answered"
  /\ notified' = notified \cup {s.order}
  /\ script' = [script EXCEPT ![r] = AfterChange(s)]
  /\ UNCHANGED <<status, configured, webhookOn, heard, unheard, reached, scripts>>

(* No answer in 15 seconds or another code than 200: a note, and no retry.  *)
CallFails(r) ==
  LET s == script[r] IN
  /\ s.pc \in {"calling", "answered"}
  /\ script' = [script EXCEPT ![r] = AfterChange(s)]
  /\ unheard' = IF s.pc = "calling" THEN unheard \cup {s.order} ELSE unheard
  /\ UNCHANGED <<status, notified, configured, webhookOn, heard, reached, scripts>>

(* PHP stops a script that runs too long, or the process ends.              *)
ScriptDies(r) ==
  LET s == script[r] IN
  /\ s # NoScript /\ Counted
  /\ script' = [script EXCEPT ![r] = NoScript]
  /\ unheard' = unheard \cup {s.order}
  /\ UNCHANGED <<status, notified, configured, webhookOn, heard, reached>>

OrdersNext ==
  \/ SaveOptions \/ SwitchWebhook
  \/ \E r \in OrderScripts :
       \/ \E o \in Orders, to \in Statuses, paid \in BOOLEAN : LoadOrder(r, o, to, paid)
       \/ SaveOrder(r) \/ StatusChanged(r) \/ PaymentComplete(r) \/ ServerHears(r)
       \/ FlagOrder(r) \/ CallFails(r) \/ ScriptDies(r)

OrdersSpec == OrdersInit /\ [][OrdersNext]_orderVars

-----------------------------------------------------------------------------
(* Every order that is paid or goes into work is taken over by the server,  *)
(* whichever scripts change its status and in whichever order they save it  *)
(* and run their hooks, and no flag hides an order the server has not seen. *)
(* Excepted are a script that dies, a call that does not reach the server   *)
(* (nothing repeats it), and a plugin or a webhook that is switched off.    *)
OrdersAnnounced ==
  /\ \A o \in reached :
       \/ o \in heard \cup unheard
       \/ \E r \in OrderScripts : script[r] # NoScript /\ script[r].order = o
  /\ notified \subseteq heard \cup unheard
=============================================================================
