------------------------------ MODULE Session ------------------------------
(***************************************************************************)
(* Who is signed in, in one browser tab: the tokens of lib/api.ts, the     *)
(* flag isAuthenticated that survives a reload, the cached queries, and    *)
(* the pages these let one see.                                            *)
(*   frontend App.tsx, components/routes/AuthRoute.tsx, store/authStore.ts,*)
(*   hooks/queries/useAuthQueries.ts, services/authService.ts,             *)
(*   services/base/BaseService.ts, lib/api.ts, utils/storage.ts,           *)
(*   components/layout/Header.tsx, pages/LoginPage.tsx                     *)
(* A session is the number of its login.  The module RefreshToken has the  *)
(* rotation of the tokens and what several tabs do to each other.          *)
(***************************************************************************)
EXTENDS Naturals, Sequences, FiniteSets

CONSTANTS
  Users,
  Nobody,
  MaxLogins,  \* bound: logins
  MaxCalls,   \* bound: calls under way
  MaxMoves,   \* bound: times the user moves to another page or reloads
  MaxErrors   \* bound: requests that fail, and tokens that expire

ASSUME LoginsAreCounted == MaxLogins \in Nat

VARIABLES
  flag,       \* isAuthenticated, in localStorage
  token,      \* the session whose tokens authStorage has, 0 for none
  owner,      \* session -> its user
  expired,    \* sessions whose access token expired
  ended,      \* sessions whose refresh token is not accepted any more
  route,      \* the path of the address bar
  data,       \* query -> the user whose answer it holds
  failed,     \* queries that hold an error
  calls,      \* calls under way: [query, tok, st, live]
  refreshing, \* the session that refreshingPromise renews, 0 for none
  mutations,  \* logins and logouts under way: [kind, user, tok]
  reload,     \* location.href was set
  counts,     \* numbers of moves and errors there were
  crossed,    \* (history) a refresh outlived the session it was for
  abandoned,  \* (history) a logout failed
  left        \* (history) sessions that were logged out of

sessionVars == <<flag, token, owner, expired, ended, route, data, failed, calls, refreshing,
                 mutations, reload, counts, crossed, abandoned, left>>

onServer == <<owner, expired, ended>>
history == <<crossed, abandoned, left>>

Queries == {"user", "chats"}
AuthPages == {"login", "signup", "forgot", "reset"}
AppPages == {"home", "chat", "settings"}
NoData == [q \in Queries |-> Nobody]

SessionInit ==
  /\ flag = FALSE /\ token = 0 /\ owner = <<>> /\ expired = {} /\ ended = {}
  /\ route = "home" /\ data = NoData /\ failed = {} /\ calls = {}
  /\ refreshing = 0 /\ mutations = {} /\ reload = FALSE
  /\ counts = [moves |-> 0, errors |-> 0] /\ crossed = FALSE /\ abandoned = FALSE
  /\ left = {}

NewSession == Cardinality(DOMAIN owner) + 1
Busy(q) == \E c \in calls : c.query = q /\ c.live

\* The first call of the user's query, with the token still unknown to be good
Loading == token # 0 /\ data["user"] = Nobody /\ Busy("user")

\* AuthRoute and the routes of App: what is shown for the path
Page ==
  CASE route \in AuthPages /\ flag -> "home"
    [] route \in {"home", "chat", "settings"} /\ Loading -> "loading"
    [] route \in {"chat", "settings"} /\ ~Loading /\ ~flag -> "login"
    [] OTHER -> route

\* App asks for the user when there is a token, the Header when the flag is set; App
\* asks for the chats.
Enabled(q) ==
  \/ q = "user" /\ (token # 0 \/ (flag /\ Page \in AppPages))
  \/ q = "chats" /\ flag

\* Mutant: a failed query does not end it.
FlagAfter_Sticky(tok, d, err) == IF tok # 0 /\ d["user"] # Nobody THEN TRUE ELSE flag

\* Mutant: the flag is only taken away.
FlagAfter_OnlyClears(tok, d, err) == flag /\ "user" \notin err

\* The effect of App, after a render with these
FlagAfter(tok, d, err) ==
  IF tok # 0 /\ d["user"] # Nobody THEN TRUE ELSE flag /\ "user" \notin err

MayFail == counts.errors < MaxErrors
Failed == [counts EXCEPT !.errors = @ + 1]

-----------------------------------------------------------------------------
(* Queries *)

\* A query that is wanted is fetched, with the token of the moment.
Fetch(q) ==
  /\ ~reload /\ Enabled(q) /\ ~Busy(q) /\ q \notin failed /\ Cardinality(calls) < MaxCalls
  /\ calls' = calls \cup {[query |-> q, tok |-> token, st |-> "sent", live |-> TRUE]}
  /\ UNCHANGED <<flag, token, onServer, route, data, failed, refreshing, mutations, reload,
                 counts, history>>

Accepts(c) == c.tok # 0 /\ c.tok \notin expired

\* The answer of a call; of a query that was cleared it is thrown away.
Answer(c) ==
  /\ c \in calls /\ c.st = "sent" /\ Accepts(c)
  /\ calls' = calls \ {c}
  /\ IF c.live
     THEN /\ data' = [data EXCEPT ![c.query] = owner[c.tok]]
          /\ failed' = failed \ {c.query}
     ELSE UNCHANGED <<data, failed>>
  /\ flag' = FlagAfter(token, data', failed')
  /\ UNCHANGED <<token, onServer, route, refreshing, mutations, reload, counts, history>>

\* The calls in gone have failed, and the page has these tokens.
Fail(gone, tok) ==
  /\ calls' = calls \ gone
  /\ failed' = failed \cup {c.query : c \in {d \in gone : d.live}}
  /\ token' = tok
  /\ flag' = FlagAfter(tok, data, failed')

\* 401: with a refresh token the call waits for the refresh under way, or begins one;
\* otherwise withAuth sends the browser to the login page.
Unauthorized(c) ==
  /\ c \in calls /\ c.st = "sent" /\ ~Accepts(c)
  /\ IF token # 0
     THEN /\ refreshing' = IF refreshing = 0 THEN token ELSE refreshing
          /\ calls' = (calls \ {c}) \cup {[c EXCEPT !.st = "refresh"]}
          /\ UNCHANGED <<flag, token, failed, reload>>
     ELSE /\ Fail({c}, 0) /\ reload' = TRUE
          /\ UNCHANGED refreshing
  /\ UNCHANGED <<onServer, route, data, mutations, counts, history>>

\* The network fails: serviceCall repeats only a bare answer of 429 or 5xx.
CallFails(c) ==
  /\ c \in calls /\ c.st = "sent" /\ MayFail
  /\ counts' = Failed
  /\ Fail({c}, token)
  /\ UNCHANGED <<onServer, route, data, refreshing, mutations, reload, history>>

Waiting == {c \in calls : c.st = "refresh"}

\* performTokenRefresh has its answer: the calls that waited are sent again, or fail, and
\* the browser is sent to the login page.
RefreshReturns ==
  /\ refreshing # 0
  /\ crossed' = (crossed \/ token # refreshing)
  /\ \/ /\ refreshing \notin ended
        /\ token' = refreshing /\ expired' = expired \ {refreshing}
        /\ calls' = (calls \ Waiting) \cup {[c EXCEPT !.st = "sent", !.tok = refreshing] : c \in Waiting}
        /\ UNCHANGED <<flag, failed, reload>>
     \/ /\ refreshing \in ended
        /\ Fail(Waiting, 0) /\ reload' = TRUE /\ UNCHANGED expired
  /\ refreshing' = 0
  /\ UNCHANGED <<owner, ended, route, data, mutations, counts, abandoned, left>>

-----------------------------------------------------------------------------
(* Signing in and out *)

\* Mutant: what was read is kept.
Cleared_Keeps == data

\* queryClient.clear
Cleared == NoData

\* cancelQueries and clear: what is under way is not heard of any more.
Clear ==
  /\ data' = Cleared /\ failed' = {}
  /\ calls' = {[c EXCEPT !.live = FALSE] : c \in calls}

Pending(kind) == \E m \in mutations : m.kind = kind

\* handleSubmit of the login page
Login(u) ==
  /\ ~reload /\ Page = "login" /\ ~Pending("login") /\ NewSession <= MaxLogins
  /\ mutations' = mutations \cup {[kind |-> "login", user |-> u, tok |-> 0]}
  /\ UNCHANGED <<flag, token, onServer, route, data, failed, calls, refreshing, reload, counts,
                 history>>

LoginReturns(m) ==
  /\ m \in mutations /\ m.kind = "login"
  /\ mutations' = mutations \ {m}
  /\ owner' = Append(owner, m.user) /\ token' = NewSession
  /\ Clear /\ flag' = TRUE /\ route' = "home"
  /\ UNCHANGED <<expired, ended, refreshing, reload, counts, history>>

LoginFails(m) ==
  /\ m \in mutations /\ m.kind = "login" /\ MayFail
  /\ mutations' = mutations \ {m} /\ counts' = Failed
  /\ UNCHANGED <<flag, token, onServer, route, data, failed, calls, refreshing, reload, history>>

\* handleLogout of the header's menu
Logout ==
  /\ ~reload /\ Page \in AppPages /\ flag /\ ~Pending("logout")
  /\ mutations' = mutations \cup {[kind |-> "logout", user |-> Nobody, tok |-> token]}
  /\ UNCHANGED <<flag, token, onServer, route, data, failed, calls, refreshing, reload, counts,
                 history>>

\* Mutant: the tokens stay.
LogoutReturns_KeepsTokens(m) ==
  /\ m \in mutations /\ m.kind = "logout"
  /\ mutations' = mutations \ {m}
  /\ ended' = ended \cup ({m.tok} \ {0}) /\ Clear /\ flag' = FALSE /\ route' = "login"
  /\ left' = left \cup {m.tok}
  /\ UNCHANGED <<token, owner, expired, refreshing, reload, counts, crossed, abandoned>>

\* The refresh token is revoked, the tokens are forgotten and so is all that was read.
LogoutReturns(m) ==
  /\ m \in mutations /\ m.kind = "logout"
  /\ mutations' = mutations \ {m}
  /\ ended' = ended \cup ({m.tok} \ {0}) /\ token' = 0
  /\ Clear /\ flag' = FALSE /\ route' = "login"
  /\ left' = left \cup ({m.tok} \ {0})
  /\ UNCHANGED <<owner, expired, refreshing, reload, counts, crossed, abandoned>>

\* The tokens are forgotten, and nothing else; the server may have heard of it.
LogoutFails(m) ==
  /\ m \in mutations /\ m.kind = "logout" /\ m.tok # 0 /\ MayFail
  /\ mutations' = mutations \ {m} /\ counts' = Failed
  /\ ended' \in {ended, ended \cup {m.tok}}
  /\ token' = 0 /\ flag' = FlagAfter(0, data, failed) /\ abandoned' = TRUE
  /\ UNCHANGED <<owner, expired, route, data, failed, calls, refreshing, reload, crossed,
                 left>>

-----------------------------------------------------------------------------
(* The browser and time *)

\* The page is loaded anew; the flag and the tokens are read from localStorage.
Loaded(path) ==
  /\ route' = path /\ data' = NoData /\ failed' = {} /\ calls' = {} /\ mutations' = {}
  /\ reload' = FALSE /\ refreshing' = 0
  /\ UNCHANGED <<flag, token, onServer, history>>

Reload == reload /\ Loaded("login") /\ UNCHANGED counts

Move == counts.moves < MaxMoves /\ counts' = [counts EXCEPT !.moves = @ + 1]

\* While no refresh is under way
UserReloads == ~reload /\ refreshing = 0 /\ Move /\ Loaded(route)

\* Links and buttons; an error of a query is tried again by the page that opens.
Navigate(path) ==
  /\ ~reload /\ Move /\ path # route
  /\ route' = path /\ failed' = IF path \in AppPages THEN {} ELSE failed
  /\ UNCHANGED <<flag, token, onServer, data, calls, refreshing, mutations, reload, history>>

\* The access token expires; the refresh token may have, too, or is revoked.
Expire ==
  /\ token # 0 /\ token \notin expired /\ MayFail
  /\ counts' = Failed /\ expired' = expired \cup {token}
  /\ ended' \in {ended, ended \cup {token}}
  /\ UNCHANGED <<flag, token, owner, route, data, failed, calls, refreshing, mutations, reload,
                 history>>

SessionNext ==
  \/ \E q \in Queries : Fetch(q)
  \/ \E c \in calls : Answer(c) \/ Unauthorized(c) \/ CallFails(c)
  \/ RefreshReturns
  \/ \E u \in Users : Login(u)
  \/ \E m \in mutations : LoginReturns(m) \/ LoginFails(m) \/ LogoutReturns(m) \/ LogoutFails(m)
  \/ Logout \/ Reload \/ UserReloads \/ Expire
  \/ \E path \in AppPages \cup {"login"} : Navigate(path)

SessionSpec == SessionInit /\ [][SessionNext]_sessionVars

-----------------------------------------------------------------------------
(* Properties *)

SessionTypeOK ==
  /\ flag \in BOOLEAN /\ token \in 0 .. MaxLogins /\ refreshing \in 0 .. MaxLogins
  /\ data \in [Queries -> Users \cup {Nobody}] /\ failed \subseteq Queries
  /\ \A c \in calls : c.st \in {"sent", "refresh"} /\ c.tok \in 0 .. MaxLogins

\* What is cached was read as the user who is signed in, whatever was under way when
\* another signed out, unless a refresh outlived the session it was for.
OwnData ==
  ~crossed /\ token # 0 => \A q \in Queries : data[q] \in {Nobody, owner[token]}

\* Signing out holds: a session that was logged out of does not come back, again unless
\* a refresh outlived it.
LogoutSticks == ~crossed => token \notin left

\* There is nothing more to hear of, and nothing more to ask.
Quiet ==
  /\ calls = {} /\ mutations = {} /\ ~reload /\ refreshing = 0
  /\ ~(Enabled("user") /\ data["user"] = Nobody /\ "user" \notin failed)

\* The flag does not outlive the tokens: the browser that was sent to the login page, and
\* from there home because of the flag, finds out.  Not after a logout that failed.
FlagHasTokens == Quiet /\ flag /\ ~abandoned => token # 0

\* And the tokens do not outlive the flag, unless the user cannot be read.
TokensHaveFlag == Quiet /\ token # 0 /\ "user" \notin failed => flag

\* Who is signed in (useAuthQueries.ts, App.tsx): the tokens, the flag and what is cached
\* are of one user, and of one who did not sign out.
SessionIsOneUsers ==
  SessionTypeOK /\ OwnData /\ LogoutSticks /\ FlagHasTokens /\ TokensHaveFlag
=============================================================================
