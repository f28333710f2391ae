------------------------------ MODULE Sessions ------------------------------
(***************************************************************************)
(* One browser's session: rotation of refresh tokens (AuthService.refresh),*)
(* driven by two refreshers that do not know of each other.  The edge proxy*)
(* (proxy.ts) keeps a map of flights keyed by the token they spend; each   *)
(* tab (client.ts) keeps one flight.  Both hold a settled flight a while   *)
(* for stragglers.                                                         *)
(*                                                                         *)
(* A call of /auth/refresh is several statements outside a transaction, so *)
(* calls interleave at each.  The browser's cookies change when a response *)
(* arrives, which may be long after the API wrote it.                      *)
(***************************************************************************)
EXTENDS Naturals, FiniteSets

CONSTANTS
    Tokens,       \* refresh tokens there can ever be
    Tabs, Navs,   \* tabs that call the API; page requests on their way at a time
    MaxLosses,    \* bound: failed calls and responses that never arrive
    None

ASSUME NamesAssumption ==
    /\ Tabs \cap Tokens = {}
    /\ None \notin Tokens \cup Tabs \cup {"ok", "rejected", "failed"}
    /\ MaxLosses \in Nat

\* A flight of the proxy is named by its token, that of a tab by the tab.
Callers == Tokens \cup Tabs

VARIABLES
    row,          \* row[k]: the RefreshToken row of k
    family,       \* family[k]: named by the token its login created
    call,         \* call[c]: the flight of c and its call of /auth/refresh
    nav,          \* nav[n]: a page request, from the browser to the proxy and back
    tab,          \* tab[t]: "stale" from a 401 to the refresh it leads to
    leaving,      \* the token a logout on its way carries
    jar, access,  \* the browser's cookies: refresh_token; access_token present
    expired,      \* tokens past their expiresAt
    losses,
    overlapped, loggedOut   \* history: families two refreshers worked on at
                            \* a time; tokens logged out

rows == <<row, family, expired>>
browser == <<jar, access>>
history == <<overlapped, loggedOut>>
vars == <<rows, call, nav, tab, leaving, browser, losses, history>>

NoFlight == [pc |-> "none", tok |-> None, new |-> None, out |-> None]
Flight == [pc : {"sent", "rotating", "revoking", "reuse", "replied", "held"},
           tok : Tokens, new : Tokens \cup {None},
           out : {"ok", "rejected", "failed", None}]
NoNav == [pc |-> "idle", tok |-> None, new |-> None]
Nav == [pc : {"sent", "waiting", "answered"}, tok : Tokens, new : Tokens \cup {None}]

TypeOK ==
    /\ row \in [Tokens -> {"unused", "live", "revoked", "purged"}]
    /\ family \in [Tokens -> Tokens \cup {None}]
    /\ \A k \in Tokens : row[k] = "unused" <=> family[k] = None   \* a NOT NULL column
    /\ call \in [Callers -> Flight \cup {NoFlight}]
    /\ nav \in [Navs -> Nav \cup {NoNav}]
    /\ tab \in [Tabs -> {"idle", "stale"}]
    /\ leaving \in Tokens \cup {None}
    /\ jar \in Tokens \cup {None} /\ access \in BOOLEAN
    /\ expired \subseteq Tokens
    /\ losses \in 0..MaxLosses
    /\ overlapped \subseteq Tokens
    /\ loggedOut \subseteq Tokens

Init ==
    /\ row = [k \in Tokens |-> "unused"]
    /\ family = [k \in Tokens |-> None]
    /\ call = [c \in Callers |-> NoFlight]
    /\ nav = [n \in Navs |-> NoNav]
    /\ tab = [t \in Tabs |-> "idle"]
    /\ leaving = None
    /\ jar = None /\ access = FALSE
    /\ expired = {}
    /\ losses = 0
    /\ overlapped = {}
    /\ loggedOut = {}

Unused == {k \in Tokens : row[k] = "unused"}
InFlight == {c \in Callers : call[c].pc \notin {"none", "replied", "held"}}
\* The bound on tokens: a call begins while it is sure of a token to create.
TokensLeft == Cardinality(Unused) > Cardinality(InFlight)
-----------------------------------------------------------------------------
(* AuthService.refresh, one statement at a time *)

\* Somebody else than the refresher of c has a flight, or a page on its way.
OthersAtWork(c) ==
    IF c \in Tabs THEN \/ \E d \in Callers \ {c} : call[d] # NoFlight
                       \/ \E n \in Navs : nav[n] # NoNav
                  ELSE \E t \in Tabs : call[t] # NoFlight
NoteOverlap(c, k) ==
    overlapped' = IF OthersAtWork(c) THEN overlapped \cup {family[k]} ELSE overlapped

Post(c, k) ==
    /\ TokensLeft
    /\ call' = [call EXCEPT ![c] = [pc |-> "sent", tok |-> k, new |-> None, out |-> None]]
    /\ NoteOverlap(c, k)

Advance(c, pc) == call' = [call EXCEPT ![c].pc = pc]
Reply(c, out) == call' = [call EXCEPT ![c].pc = "replied", ![c].out = out]

\* findUnique: an unknown or expired token is refused, a revoked one is reuse.
Read(c) ==
    /\ call[c].pc = "sent"
    /\ LET k == call[c].tok
       IN  \/ row[k] = "purged" /\ Reply(c, "rejected")
           \/ row[k] = "revoked" /\ Advance(c, "reuse")
           \/ row[k] = "live" /\ k \in expired /\ Reply(c, "rejected")
           \/ row[k] = "live" /\ k \notin expired /\ Advance(c, "rotating")
    /\ UNCHANGED <<rows, nav, tab, leaving, browser, losses, history>>

RevokeFamily(c) ==
    /\ call[c].pc = "reuse"
    /\ row' = [k \in Tokens |->
                 IF row[k] = "live" /\ family[k] = family[call[c].tok] THEN "revoked"
                                                                       ELSE row[k]]
    /\ Reply(c, "rejected")
    /\ UNCHANGED <<family, expired, nav, tab, leaving, browser, losses, history>>

CreateAlone(c) ==
    /\ call[c].pc = "rotating"
    /\ \E k \in Unused :
          /\ row' = [row EXCEPT ![k] = "live"]
          /\ call' = [call EXCEPT ![c].pc = "revoking", ![c].new = k]
    /\ UNCHANGED <<family, expired, nav, tab, leaving, browser, losses, history>>
\* generateTokenPair, in the family of the token that is spent.
Create(c) ==
    /\ call[c].pc = "rotating"
    /\ \E k \in Unused :
          /\ row' = [row EXCEPT ![k] = "live"]
          /\ family' = [family EXCEPT ![k] = family[call[c].tok]]
          /\ call' = [call EXCEPT ![c].pc = "revoking", ![c].new = k]
    /\ UNCHANGED <<expired, nav, tab, leaving, browser, losses, history>>

KeepOld(c) ==
    /\ call[c].pc = "revoking"
    /\ Reply(c, "ok")
    /\ UNCHANGED <<rows, nav, tab, leaving, browser, losses, history>>
\* The update of the old row looks at nothing but its id.
RevokeOld(c) ==
    /\ call[c].pc = "revoking"
    /\ row' = [row EXCEPT ![call[c].tok] = "revoked"]
    /\ Reply(c, "ok")
    /\ UNCHANGED <<family, expired, nav, tab, leaving, browser, losses, history>>

\* The call breaks off: the process dies, the network fails, the API answers
\* 429 or 500 (which refreshers take for a refusal), or its reply is lost.
CallFails(c) ==
    /\ call[c].pc \notin {"none", "held"} /\ losses < MaxLosses
    /\ losses' = losses + 1
    /\ \E out \in {"rejected", "failed"} :
          /\ call[c].pc = "replied" => out = "failed"
          /\ call' = [call EXCEPT ![c].pc = "held", ![c].new = None, ![c].out = out]
    /\ UNCHANGED <<rows, nav, tab, leaving, browser, history>>
-----------------------------------------------------------------------------
(* The edge proxy *)

\* The browser asks for a page with no access token.  (With one, or with no
\* cookie at all, the proxy changes nothing.)
NavSend(n) ==
    /\ nav[n] = NoNav
    /\ ~access /\ jar # None
    /\ nav' = [nav EXCEPT ![n] = [pc |-> "sent", tok |-> jar, new |-> None]]
    /\ NoteOverlap(jar, jar)
    /\ UNCHANGED <<rows, call, tab, leaving, browser, losses, loggedOut>>

AlwaysFetch(k) == FALSE
\* inflightRefreshes has the token: its flight is under way or retained.
HasFlight(k) == call[k].pc # "none"

NavArrive(n) ==
    /\ nav[n].pc = "sent"
    /\ nav' = [nav EXCEPT ![n].pc = "waiting"]
    /\ LET k == nav[n].tok
       IN  IF HasFlight(k) THEN UNCHANGED <<call, overlapped>> ELSE Post(k, k)
    /\ UNCHANGED <<rows, tab, leaving, browser, losses, loggedOut>>

ProxySettles(k) ==
    /\ call[k].pc = "replied"
    /\ Advance(k, "held")
    /\ UNCHANGED <<rows, nav, tab, leaving, browser, losses, history>>

\* With the new cookies, a pass-through (unreachable), or a redirect to /login.
NavAnswer(n) ==
    /\ nav[n].pc = "waiting"
    /\ call[nav[n].tok].pc = "held"
    /\ nav' = [nav EXCEPT ![n].pc = "answered", ![n].new = call[nav[n].tok].new]
    /\ UNCHANGED <<rows, call, tab, leaving, browser, losses, history>>

\* The browser takes the cookies of a response, if it carries any.
Adopt(k) == IF k = None THEN UNCHANGED browser ELSE jar' = k /\ access' = TRUE

NavReceive(n) ==
    /\ nav[n].pc = "answered"
    /\ Adopt(nav[n].new)
    /\ nav' = [nav EXCEPT ![n] = NoNav]
    /\ UNCHANGED <<rows, call, tab, leaving, losses, history>>

\* The page is closed or its connection lost; the flight goes on.
NavAbort(n) ==
    /\ nav[n] # NoNav /\ losses < MaxLosses
    /\ losses' = losses + 1
    /\ nav' = [nav EXCEPT ![n] = NoNav]
    /\ UNCHANGED <<rows, call, tab, leaving, browser, history>>

\* REFRESH_RESULT_RETENTION_MS, 10 s: longer than a page request takes.
ProxyForgets(k) ==
    /\ call[k].pc = "held"
    /\ \A n \in Navs : nav[n].tok # k
    /\ call' = [call EXCEPT ![k] = NoFlight]
    /\ UNCHANGED <<rows, nav, tab, leaving, browser, losses, history>>
-----------------------------------------------------------------------------
(* A tab *)

\* apiFetch was sent without an access token and is answered 401.
TabStale(t) ==
    /\ tab[t] = "idle"
    /\ ~access /\ jar # None
    /\ tab' = [tab EXCEPT ![t] = "stale"]
    /\ UNCHANGED <<rows, call, nav, leaving, browser, losses, history>>

\* refreshOnce: with the cookie of that moment, or by the flight there is.
TabRefresh(t) ==
    /\ tab[t] = "stale"
    /\ tab' = [tab EXCEPT ![t] = "idle"]
    /\ IF call[t].pc # "none" \/ jar = None THEN UNCHANGED <<call, overlapped>> ELSE Post(t, jar)
    /\ UNCHANGED <<rows, nav, leaving, browser, losses, loggedOut>>

TabReceives(t) ==
    /\ call[t].pc = "replied"
    /\ Adopt(call[t].new)
    /\ Advance(t, "held")
    /\ UNCHANGED <<rows, nav, tab, leaving, losses, history>>

\* 250 ms later.
TabForgets(t) ==
    /\ call[t].pc = "held"
    /\ call' = [call EXCEPT ![t] = NoFlight]
    /\ UNCHANGED <<rows, nav, tab, leaving, browser, losses, history>>
-----------------------------------------------------------------------------
(* Login, logout, and time *)

\* Nothing is on its way and no result is retained.
Quiet ==
    /\ \A c \in Callers : call[c] = NoFlight
    /\ \A n \in Navs : nav[n] = NoNav
    /\ \A t \in Tabs : tab[t] = "idle"
    /\ leaving = None

\* A login starts a family.
Login ==
    /\ Quiet /\ ~access
    /\ \E k \in Unused :
          /\ row' = [row EXCEPT ![k] = "live"]
          /\ family' = [family EXCEPT ![k] = k]
          /\ jar' = k /\ access' = TRUE
    /\ UNCHANGED <<expired, call, nav, tab, leaving, losses, history>>

LogoutSend ==
    /\ leaving = None /\ jar # None
    /\ leaving' = jar
    /\ UNCHANGED <<rows, call, nav, tab, browser, losses, history>>

\* updateMany of the unrevoked row of the token; its family is left alone.
Logout ==
    /\ leaving \notin loggedOut \cup {None}
    /\ row' = [row EXCEPT ![leaving] = IF @ = "live" THEN "revoked" ELSE @]
    /\ loggedOut' = loggedOut \cup {leaving}
    /\ UNCHANGED <<family, expired, call, nav, tab, leaving, browser, losses, overlapped>>

\* The response clears both cookies.
LogoutReceive ==
    /\ leaving \in loggedOut
    /\ leaving' = None
    /\ jar' = None /\ access' = FALSE
    /\ UNCHANGED <<rows, call, nav, tab, losses, history>>

\* After 15 minutes.  A response on its way, or retained, is younger.
AccessExpires ==
    /\ Quiet /\ access
    /\ access' = FALSE
    /\ UNCHANGED <<rows, call, nav, tab, leaving, jar, losses, history>>

\* After 7 days; the browser may have dropped the cookie by then.
TokenExpires(k) ==
    /\ Quiet
    /\ row[k] \in {"live", "revoked"} /\ k \notin expired
    /\ k = jar => ~access
    /\ expired' = expired \cup {k}
    /\ jar' \in IF jar = k THEN {k, None} ELSE {jar}
    /\ UNCHANGED <<row, family, call, nav, tab, leaving, access, losses, history>>

\* RetentionWorker.purgeRefreshTokens, another 7 days later.
PurgeRefreshTokens ==
    /\ Quiet
    /\ row' = [k \in Tokens |-> IF k \in expired THEN "purged" ELSE row[k]]
    /\ row' # row
    /\ UNCHANGED <<family, expired, call, nav, tab, leaving, browser, losses, history>>
-----------------------------------------------------------------------------
Next ==
    \/ \E c \in Callers : Read(c) \/ RevokeFamily(c) \/ Create(c) \/ RevokeOld(c) \/ CallFails(c)
    \/ \E n \in Navs : NavSend(n) \/ NavArrive(n) \/ NavAnswer(n) \/ NavReceive(n) \/ NavAbort(n)
    \/ \E k \in Tokens : ProxySettles(k) \/ ProxyForgets(k) \/ TokenExpires(k)
    \/ \E t \in Tabs : TabStale(t) \/ TabRefresh(t) \/ TabReceives(t) \/ TabForgets(t)
    \/ Login \/ LogoutSend \/ Logout \/ LogoutReceive
    \/ AccessExpires \/ PurgeRefreshTokens

Spec == Init /\ [][Next]_vars
-----------------------------------------------------------------------------
\* A reason of the session's own to refuse the token.
Ended(k) == k \in expired \/ k \in loggedOut

\* Single flight works within each refresher: however page requests, logouts and
\* the calls of a tab interleave, a refresh is refused only if the session has
\* ended, something was lost, or the proxy and a tab (or two tabs) were at work
\* on the family at the same time.
RefusedOnlyAfterOverlap ==
    \A c \in Callers :
       call[c].out = "rejected" =>
          losses > 0 \/ Ended(call[c].tok) \/ family[call[c].tok] \in overlapped

\* When all is quiet the browser's cookie is the one live token of its family:
\* no rotation leaves a second one behind, and no late response puts an older
\* token back (again for one refresher at a time).
JarHoldsTheLiveToken ==
    /\ Quiet /\ losses = 0 /\ jar # None
    /\ ~Ended(jar) /\ family[jar] \notin overlapped
    => {k \in Tokens : family[k] = family[jar] /\ row[k] = "live"} = {jar}

\* A browser that loses nothing and whose session has not ended keeps it: the
\* refreshers never make the API refuse them.
SessionKept ==
    \A c \in Callers :
       call[c].out = "rejected" => losses > 0 \/ Ended(call[c].tok)
=============================================================================
