-------------------------------- MODULE Lapi --------------------------------
(***************************************************************************)
(* The CrowdSec local API (LAPI) as Crowdshield sees it: alerts that carry *)
(* one decision per object, an expiry per decision, and the requests that  *)
(* are still on their way.  The server is modelled from the in-repository  *)
(* server internal/lapi/mock/server.go and from how                        *)
(* internal/lapi/client.go uses it.  A decision is identified by the alert *)
(* that carries it and the object it bans.                                 *)
(*                                                                         *)
(* A request whose answer the client never sees stays in "posts" or        *)
(* "deletes": the network may still deliver it, at any later moment, or    *)
(* drop it.  "late" is a history field that no action reads: a search for  *)
(* the alert of this creation came before the creation itself.             *)
(***************************************************************************)
EXTENDS Integers, FiniteSets

CONSTANTS
    Object,       \* enforcement objects (canonical prefixes)
    Feed,         \* feeds; an alert's scenario is "crowdshield/<feed>"
    NoFeed,
    Scope,        \* decision scopes, "Ip" and "Range"
    Token,        \* operation tokens (bound on journalled operations)
    NoToken,
    MaxAlert,     \* bound on the alerts the server accepts
    MaxClock,     \* bound on time
    Duration,     \* decision lifetime
    Window,       \* how far back an operation search looks
    SearchLimit,  \* largest search result the client accepts
    Remaining,    \* TRUE: the server reports a decision's remaining duration,
                  \* FALSE: the instant at which it ends
    MaxFault,     \* bound on failures of the environment
    Interference  \* TRUE: others may change or delete our alerts

ASSUME LapiAssumption ==
    /\ NoFeed \notin Feed /\ NoToken \notin Token
    /\ Scope # {}
    /\ MaxAlert \in Nat /\ MaxClock \in Nat /\ MaxFault \in Nat
    /\ Remaining \in BOOLEAN /\ Interference \in BOOLEAN
    /\ Duration \in Nat \ {0} /\ Window \in Nat /\ SearchLimit \in Nat

VARIABLES
    clock,    \* real time
    alerts,   \* the server's alerts
    until,    \* until[a][o]: when the decision of alert a on object o ends
    posts,    \* alert creations whose answer was lost, not yet processed
    deletes,  \* decision expirations whose answer was lost, not yet processed
    faults    \* failures so far

lapiVars == <<clock, alerts, until, posts, deletes, faults>>

Alert == 1..MaxAlert
NoAlert == 0

\* "foreign": an ownership predicate no longer holds; "gone": deleted.
AlertRecord ==
    [state: {"unused", "ours", "foreign", "gone"},
     token: Token \cup {NoToken}, feed: Feed \cup {NoFeed},
     items: SUBSET Object, scope: [Object -> Scope], made: Nat,
     late: BOOLEAN]

Request ==
    [token: Token, feed: Feed \cup {NoFeed}, items: SUBSET Object,
     scope: [Object -> Scope], late: BOOLEAN]

LapiTypeOK ==
    /\ clock \in Nat
    /\ alerts \in [Alert -> AlertRecord]
    /\ until \in [Alert -> [Object -> Nat]]
    /\ posts \subseteq Request
    /\ deletes \subseteq Alert \X Object
    /\ faults \in Nat

LapiInit ==
    /\ clock = 0
    /\ alerts = [a \in Alert |->
                    [state |-> "unused", token |-> NoToken, feed |-> NoFeed,
                     items |-> {}, made |-> 0, late |-> FALSE,
                     scope |-> [o \in Object |-> CHOOSE s \in Scope : TRUE]]]
    /\ until = [a \in Alert |-> [o \in Object |-> 0]]
    /\ posts = {}
    /\ deletes = {}
    /\ faults = 0

-----------------------------------------------------------------------------
Readable(a) == alerts[a].state \in {"ours", "foreign"}

\* The decision bans the object right now.
Enforced(a, o) ==
    Readable(a) /\ o \in alerts[a].items /\ until[a][o] > clock

\* Alert IDs are handed out in increasing order.
IsNext(a) ==
    /\ alerts[a].state = "unused"
    /\ \A b \in Alert : b < a => alerts[b].state # "unused"

Full == \A a \in Alert : alerts[a].state # "unused"

\* POST /v1/alerts: the server never deduplicates.
createAlerts(r, a) ==
    /\ IsNext(a)
    /\ alerts' = [alerts EXCEPT ![a] =
                    [state |-> "ours", token |-> r.token, feed |-> r.feed,
                     items |-> r.items, scope |-> r.scope, made |-> clock,
                     late |-> r.late]]
    /\ until' = [until EXCEPT ![a] =
                    [o \in Object |->
                        IF o \in r.items THEN clock + Duration ELSE 0]]

\* DELETE /v1/decisions/{id}: the decision ends now; an unknown ID changes
\* nothing (the client tolerates that answer).
expireDecision(a, o) ==
    until' = IF Readable(a) /\ o \in alerts[a].items
             THEN [until EXCEPT ![a][o] = clock]
             ELSE until

\* GET /v1/alerts?scenario=...&since=...
searchAlerts(feed) ==
    {a \in Alert : /\ Readable(a)
                   /\ alerts[a].feed = feed
                   /\ alerts[a].made + Window >= clock}

\* Client.FindOperation: the alerts that carry the operation's token, and the
\* two answers it refuses (a truncated result, an ambiguous one).
FindOperation(feed, token) ==
    {a \in searchAlerts(feed) : alerts[a].token = token}

SearchRefused(feed, token) ==
    \/ Cardinality(searchAlerts(feed)) > SearchLimit
    \/ \E a, b \in FindOperation(feed, token) : a # b

\* The creations that carry the token and are still on their way: a search
\* that was answered now has not seen them.
Overtake(token) ==
    posts' = {IF r.token = token THEN [r EXCEPT !.late = TRUE] ELSE r :
                r \in posts}

-----------------------------------------------------------------------------
(* The network and the outside world.                                      *)

Fault ==
    /\ faults < MaxFault
    /\ faults' = faults + 1

DeliverPost(r) ==
    /\ r \in posts
    /\ posts' = posts \ {r}
    /\ \E a \in Alert : createAlerts(r, a)
    /\ UNCHANGED <<clock, deletes, faults>>

DropPost(r) ==
    /\ r \in posts
    /\ posts' = posts \ {r}
    /\ UNCHANGED <<clock, alerts, until, deletes, faults>>

DeliverDelete(d) ==
    /\ d \in deletes
    /\ deletes' = deletes \ {d}
    /\ expireDecision(d[1], d[2])
    /\ UNCHANGED <<clock, alerts, posts, faults>>

DropDelete(d) ==
    /\ d \in deletes
    /\ deletes' = deletes \ {d}
    /\ UNCHANGED <<clock, alerts, until, posts, faults>>

\* Somebody else removes or changes an alert of ours on the server.
Interfere(a) ==
    /\ Interference
    /\ alerts[a].state = "ours"
    /\ Fault
    /\ \E s \in {"foreign", "gone"} :
            alerts' = [alerts EXCEPT ![a].state = s]
    /\ UNCHANGED <<clock, until, posts, deletes>>

Network ==
    \/ \E r \in posts : DeliverPost(r) \/ DropPost(r)
    \/ \E d \in deletes : DeliverDelete(d) \/ DropDelete(d)

Tick ==
    /\ clock < MaxClock
    /\ clock' = clock + 1
    /\ UNCHANGED <<alerts, until, posts, deletes, faults>>
=============================================================================
