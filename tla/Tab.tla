-------------------------------- MODULE Tab --------------------------------
(***************************************************************************)
(* One browser tab of the console: who is signed in, the page that is      *)
(* shown, and the query cache all pages share (frontend/src/App.tsx,       *)
(* hooks/useAuth.ts, lib/api.ts, main.tsx).  The cache is react-query as   *)
(* the pages use it: a key is fetched when a page that observes it is      *)
(* shown, at an interval, and by refetch() after a mutation; a fetch that  *)
(* is under way is shared, unless refetch() replaces it, which it does     *)
(* only when the key has data already.                                     *)
(***************************************************************************)
EXTENDS Naturals, FiniteSets

CONSTANTS
    Tenants,   \* accounts that sign in, one user each
    Plans,     \* bounds: who acts, the page the tab is opened on, those visited, and how often
    None

ASSUME NoneAssumption == None \notin Tenants

Kinds == {"logins", "visits", "clicks", "network", "session", "others"}
Pages == {"connect", "groups", "schedules", "form", "retry", "logs"}

ASSUME PlansAssumption ==
    Plans \subseteq [who : SUBSET Tenants, start : {"login"} \cup (Pages \ {"connect"}),
                    pages : SUBSET Pages, of : [Kinds -> Nat]]

VARIABLES
    user,    \* localStorage: the tenant of token and user, or None
    page,    \* the page the router shows
    cache,   \* QueryClient: the data of each key, or None
    fetch,   \* QueryClient: the fetch of each key that is under way
    left     \* what the plan still allows

tabVars == <<user, page, cache, fetch, left>>

Keys == {"wa-status", "groups", "schedules", "retry", "logs"}

\* The keys whose useQuery a page mounts, and those with a refetchInterval. (The group names
\* that the form, the Retry center and the logs look up are left out.)
Observed(p) ==
    CASE p = "connect" -> {"wa-status"}
      [] p = "groups" -> {"groups"}
      [] p = "schedules" -> {"schedules"}
      [] p = "retry" -> {"retry"}
      [] p = "logs" -> {"logs"}
      [] OTHER -> {}

\* Mutant: the Retry center has no interval.
LessPolled == {"wa-status", "logs"}

Polled == {"wa-status", "retry", "logs"}

Spend(kind) == left.of[kind] > 0 /\ left' = [left EXCEPT !.of[kind] = @ - 1]

NoFetch  == [at |-> "idle", as |-> None, got |-> None]
Asked(u) == [at |-> "asked", as |-> u, got |-> None]

InFlight(k) == fetch[k].at # "idle"

\* A request that carries a token and has not reached the handler.
Asking(k) == fetch[k].at = "asked" /\ fetch[k].as # None

\* Mutant: refetch() shares the fetch under way, as mounting does.
AlwaysShared(k) == IF InFlight(k) THEN fetch[k] ELSE Asked(user)

\* refetch(), invalidateQueries(): cancelRefetch.
Refetched(k) == IF InFlight(k) /\ cache[k] = None THEN fetch[k] ELSE Asked(user)

\* Mounting a page and the interval share the fetch under way.
Joined(k, u) == IF InFlight(k) THEN fetch[k] ELSE Asked(u)

\* Pages start their queries when they are shown; a fetch outlives the page that started it.
Shown(p, u) ==
    /\ page' = p
    /\ fetch' = [k \in Keys |-> IF k \in Observed(p) THEN Joined(k, u) ELSE fetch[k]]

\* The tab is opened without a token, or with one on some page.
TabInit ==
    /\ left \in Plans /\ page = left.start
    /\ IF page = "login" THEN user = None ELSE user \in left.who
    /\ cache = [k \in Keys |-> None]
    /\ fetch = [k \in Keys |-> IF k \in Observed(page) THEN Asked(user) ELSE NoFetch]

\* refetchInterval of a page that is shown.
Polls(k) ==
    /\ k \in Observed(page) \cap Polled /\ ~InFlight(k)
    /\ fetch' = [fetch EXCEPT ![k] = Asked(user)]
    /\ UNCHANGED <<user, page, cache, left>>

\* Data of key k arrives.
Arrives(k) ==
    /\ fetch[k].at = "answered"
    /\ cache' = [cache EXCEPT ![k] = fetch[k].got]
    /\ fetch' = [fetch EXCEPT ![k] = NoFetch]
    /\ UNCHANGED <<user, page, left>>

\* A request and its one retry fail: the data stays what it was.
Fails(k) ==
    /\ InFlight(k) /\ Spend("network")
    /\ fetch' = [fetch EXCEPT ![k] = NoFetch]
    /\ UNCHANGED <<user, page, cache>>

SignIn(t) ==
    /\ page = "login" /\ t \in left.who /\ Spend("logins")
    /\ user' = t /\ Shown("connect", t) /\ UNCHANGED cache

SignOut ==
    /\ user # None /\ Spend("clicks")
    /\ user' = None /\ page' = "login" /\ UNCHANGED <<cache, fetch>>

Visit(p) ==
    /\ user # None /\ p \in left.pages \ {page} /\ Spend("visits")
    /\ Shown(p, user) /\ UNCHANGED <<user, cache>>

\* A request without a token is refused; the login page does not mind.
Denied(k) ==
    /\ fetch[k].at = "asked" /\ fetch[k].as = None /\ page = "login"
    /\ fetch' = [fetch EXCEPT ![k] = NoFetch]
    /\ UNCHANGED <<user, page, cache, left>>

\* A 401 on any other page, whoever asked: the token goes, and location.href loads the page anew.
Unauthorized ==
    /\ page # "login"
    /\ \E k \in Keys :
         /\ fetch[k].at = "asked"
         /\ IF fetch[k].as = None THEN UNCHANGED left ELSE Spend("network")
    /\ user' = None /\ page' = "login"
    /\ cache' = [k \in Keys |-> None] /\ fetch' = [k \in Keys |-> NoFetch]
=============================================================================
