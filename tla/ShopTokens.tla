----------------------------- MODULE ShopTokens -----------------------------
(***************************************************************************)
(* The tokens of Horoshop's and Rozetka's APIs: one per tenant, cached by  *)
(* HoroshopAuthService and RozetkaAuthService, renewed by whichever call   *)
(* finds it too old, thrown away by whichever call the shop refuses.       *)
(* Several calls run at once: schedulers, queue workers and HTTP requests. *)
(* The two services share nothing, so a behaviour is about one of them.    *)
(* Time is counted in steps of 30 seconds, the timeout of a request.       *)
(***************************************************************************)
EXTENDS Integers, FiniteSets

CONSTANTS
  Calls,       \* calls to a shop's API in flight at once
  Life,        \* how long a shop accepts a token
  HoroshopTTL, \* how long Horoshop's is cached (23 of its 24 hours)
  MaxClock,    \* bound: the last instant
  MaxCalls,    \* bound: calls that begin
  MaxRevoked,  \* bound: times the shop revokes its tokens before their age
  MaxTransient \* MAX_TRANSIENT_RETRIES of Horoshop's client

Margin == 2    \* 60 s: a token this close to its end is renewed
LoginTime == 1 \* 15 s, rounded up: the timeout of a login
CallTime == 1  \* 30 s: the timeout of a call

(* Horoshop's TTL is an assumption about the shop, written into the code;   *)
(* of both shops the code assumes that a token outlives a login and a call. *)
ASSUME TokenAssumption ==
  /\ Life \in Nat /\ HoroshopTTL \in 1 .. Life - LoginTime
  /\ Life > LoginTime + CallTime
  /\ {MaxClock, MaxCalls, MaxRevoked, MaxTransient} \subseteq Nat

Platforms == {"horoshop", "rozetka"}

VARIABLES
  clock,
  shop,     \* whose service and client: "horoshop" or "rozetka"
  cache,    \* tokenCache: {} or one [token, expires]
  call,     \* locals of each call
  logins,   \* tokens the shops have issued so far
  dead,     \* the tokens up to this number are revoked
  beginning,\* calls that may still begin
  revoking, \* revocations that may still happen
  overtaken,\* read by properties: a login was in flight when tokens were revoked
  faulty    \* read by properties: calls refused twice for one revocation

tokenVars == <<clock, shop, cache, call, logins, dead, beginning, revoking, overtaken,
               faulty>>

NoCall == [pc |-> "idle", token |-> [n |-> 0, at |-> 0], retry |-> TRUE,
           attempt |-> 0, since |-> 0, revoked |-> FALSE]

TokensInit ==
  /\ clock = 0 /\ logins = 0 /\ dead = 0
  /\ shop \in Platforms /\ cache = {}
  /\ call = [c \in Calls |-> NoCall]
  /\ beginning = MaxCalls /\ revoking = MaxRevoked
  /\ overtaken = FALSE /\ faulty = {}

FreshByEnd(entry) == entry.expires > clock \* mutant: no margin before the end

(* A cached token is used until a minute before its end.                    *)
Fresh(entry) == entry.expires - Margin > clock

(* getToken and getAccessToken: the token of the cache, or a login.         *)
WithToken(h, stored, force) ==
  LET usable == {e \in stored : Fresh(e)}
  IN IF force \/ usable = {}
     THEN [h EXCEPT !.pc = "login", !.since = clock]
     ELSE [h EXCEPT !.pc = "sent", !.since = clock, !.token = (CHOOSE e \in usable : TRUE).token]

(* A ping of Horoshop asks for a new token whatever the cache holds.        *)
BeginCall(c, force) ==
  /\ call[c].pc = "idle" /\ beginning > 0 /\ (force => shop = "horoshop")
  /\ beginning' = beginning - 1
  /\ call' = [call EXCEPT ![c] = WithToken(NoCall, cache, force)]
  /\ UNCHANGED <<clock, shop, cache, logins, dead, revoking, overtaken, faulty>>

(* The shop issues a token; the answer is on its way.                       *)
LoginIssues(c) ==
  /\ call[c].pc = "login"
  /\ logins' = logins + 1
  /\ call' = [call EXCEPT ![c].pc = "answer", ![c].token = [n |-> logins + 1, at |-> clock]]
  /\ UNCHANGED <<clock, shop, cache, dead, beginning, revoking, overtaken, faulty>>

LoginFails(c) ==
  /\ call[c].pc = "login"
  /\ call' = [call EXCEPT ![c] = NoCall]
  /\ UNCHANGED <<clock, shop, cache, logins, dead, beginning, revoking, overtaken, faulty>>

(* authenticate of Horoshop, with the code's TTL; fetchNewToken of Rozetka, *)
(* with the expires_in of the answer.  Both count from its arrival.         *)
Ends == clock + (IF shop = "horoshop" THEN HoroshopTTL ELSE Life)

StoreToken(c) ==
  LET h == call[c] IN
  /\ h.pc = "answer"
  /\ cache' = {[token |-> h.token, expires |-> Ends]}
  /\ call' = [call EXCEPT ![c].pc = "sent", ![c].since = clock]
  /\ UNCHANGED <<clock, shop, logins, dead, beginning, revoking, overtaken, faulty>>

Refuses(token) == token.n <= dead \/ clock >= token.at + Life

CallSucceeds(c) ==
  /\ call[c].pc = "sent" /\ ~Refuses(call[c].token)
  /\ call' = [call EXCEPT ![c] = NoCall]
  /\ UNCHANGED <<clock, shop, cache, logins, dead, beginning, revoking, overtaken, faulty>>

Kept(token) == cache \* mutant: a refused token stays in the cache

(* clearToken, invalidateToken: whatever the cache holds by now goes.       *)
Dropped(token) == {}

(* HoroshopApiClient.request: clear, and once more.                         *)
HoroshopRefused(c) ==
  LET h == call[c] IN
  /\ h.pc = "sent" /\ shop = "horoshop" /\ Refuses(h.token)
  /\ IF h.retry
     THEN /\ cache' = Dropped(h.token)
          /\ call' = [call EXCEPT ![c] =
               WithToken([h EXCEPT !.retry = FALSE, !.revoked = FALSE], cache', FALSE)]
          /\ UNCHANGED faulty
     ELSE /\ call' = [call EXCEPT ![c] = NoCall]
          /\ faulty' = IF h.revoked THEN faulty ELSE faulty \cup {c}
          /\ UNCHANGED cache
  /\ UNCHANGED <<clock, shop, logins, dead, beginning, revoking, overtaken>>

(* RozetkaApiClient: ping, massUpdateItems, searchOrders, getOrderDetails.  *)
(* The call has failed; the next one logs in.                               *)
RozetkaRefused(c) ==
  /\ call[c].pc = "sent" /\ shop = "rozetka" /\ Refuses(call[c].token)
  /\ cache' = Dropped(call[c].token)
  /\ call' = [call EXCEPT ![c] = NoCall]
  /\ UNCHANGED <<clock, shop, logins, dead, beginning, revoking, overtaken, faulty>>

(* 429, 5xx and lost connections: Horoshop's client sleeps, less than a step *)
(* of the clock, and begins again with getToken; Rozetka's gives up.        *)
TransientError(c) ==
  LET h == call[c] IN
  /\ h.pc = "sent"
  /\ call' = [call EXCEPT ![c] =
       IF shop = "horoshop" /\ h.attempt < MaxTransient
       THEN WithToken([h EXCEPT !.attempt = h.attempt + 1], cache, FALSE)
       ELSE NoCall]
  /\ UNCHANGED <<clock, shop, cache, logins, dead, beginning, revoking, overtaken, faulty>>

(* The shop: its tokens are revoked, by a new password or another login.    *)
Revoke ==
  /\ revoking > 0 /\ logins > dead
  /\ revoking' = revoking - 1 /\ dead' = logins
  /\ call' = [c \in Calls |-> [call[c] EXCEPT !.revoked = call[c].pc # "idle"]]
  /\ overtaken' = (overtaken \/ \E c \in Calls : call[c].pc = "answer")
  /\ UNCHANGED <<clock, shop, cache, logins, beginning, faulty>>

(* No request outlives its timeout.                                         *)
Tick ==
  /\ clock < MaxClock
  /\ \A c \in Calls :
       /\ call[c].pc \in {"login", "answer"} => clock < call[c].since + LoginTime
       /\ call[c].pc = "sent" => clock < call[c].since + CallTime
  /\ clock' = clock + 1
  /\ UNCHANGED <<shop, cache, call, logins, dead, beginning, revoking, overtaken, faulty>>

TokensNext ==
  \/ \E c \in Calls :
       \/ \E force \in BOOLEAN : BeginCall(c, force)
       \/ LoginIssues(c) \/ LoginFails(c) \/ StoreToken(c) \/ CallSucceeds(c)
       \/ HoroshopRefused(c) \/ RozetkaRefused(c) \/ TransientError(c)
  \/ Revoke \/ Tick

TokensSpec == TokensInit /\ [][TokensNext]_tokenVars

-----------------------------------------------------------------------------
(* No token grows too old on its way: one taken from the cache is still     *)
(* accepted, as far as its age goes, when the shop reads the call that      *)
(* carries it, although the cache counts from the arrival of the login's    *)
(* answer and not from its issue.                                           *)
AgeNeverRefused ==
  \A c \in Calls : call[c].pc = "sent" => clock < call[c].token.at + Life

(* A call to Horoshop that was refused once does not fail for the same      *)
(* revocation again, though calls share one cache entry, clear what others  *)
(* stored and store what others cleared; only a login whose answer crossed  *)
(* the revocation may bring a dead token back.                              *)
OneRefusalIsHidden == overtaken \/ faulty = {}
=============================================================================
