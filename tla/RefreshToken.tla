---------------------------- MODULE RefreshToken ----------------------------
(***************************************************************************)
(* The refresh tokens of ONE user: rotation, reuse detection, logout and   *)
(* the daily sweep (services/refresh_token.py, endpoints/auth.py), and the *)
(* tabs of the user's browsers, which cache the token their browser stores *)
(* (frontend lib/api.ts, utils/storage.ts, services/authService.ts).       *)
(*                                                                         *)
(* A token is the number of its row, in the order of creation.  Postgres   *)
(* runs READ COMMITTED: a locked row is waited for and read again, and a   *)
(* statement sees the rows committed when it starts.                       *)
(***************************************************************************)
EXTENDS Integers, FiniteSets

CONSTANTS Browsers, NumTabs,
          NumFlights,    (* bound: HTTP calls under way                     *)
          MaxTokens,     (* bound: rows ever created                        *)
          MaxLosses,     (* bound: calls the page never hears of again      *)
          MaxLogouts     (* bound: logouts                                  *)

ASSUME TokenAssumption == /\ NumTabs \in Nat \ {0} /\ NumFlights \in Nat \ {0}
                          /\ MaxTokens \in Nat
                          /\ MaxLosses \in Nat /\ MaxLogouts \in Nat

Tokens == 1..MaxTokens
None == 0
Tabs == Browsers \X (1..NumTabs)
Flights == 1..NumFlights

VARIABLES
  rows,         (* rows of refresh_tokens                                   *)
  revoked,      (* tokens with revoked_at                                   *)
  issued,       (* tokens created so far                                    *)
  expiredTo,    (* the tokens up to this one have expired                   *)
  session,      (* the login a token descends from (history)                *)
  active,       (* user.is_active                                           *)
  stored,       (* refresh_token of a browser's localStorage                *)
  cached,       (* cachedRefreshToken of a tab                              *)
  flight,       (* the calls of /jwt/refresh and /jwt/logout                *)
  losses, logouts

table == <<rows, revoked, issued, session>>
client == <<stored, cached>>
vars == <<table, expiredTo, active, client, flight, losses, logouts>>

(* kind: "refresh" or "logout"; tab: {the tab that waits}, or {}.  step:   *)
(* "free", "sent", then with the row locked "valid" (read unrevoked),      *)
(* "reused" (read revoked) or "revoking", then the answer "ok", "refused", *)
(* "done".  rows is what the UPDATE of _revoke_all_tokens saw, new the     *)
(* answer's token.                                                         *)
Free == [kind |-> "refresh", tab |-> {}, step |-> "free", token |-> None,
         rows |-> {}, new |-> None]

Sent(k, x) == [kind |-> k, tab |-> {x}, step |-> "sent", token |-> cached[x],
               rows |-> {}, new |-> None]

Live == rows \ revoked
LiveIn(s) == {t \in Live : session[t] = s}
Holds(f, t) == flight[f].token = t /\ flight[f].step \in {"valid", "reused", "revoking"}
Locked(t) == \E f \in Flights : Holds(f, t)
InAir(x) == {f \in Flights : flight[f].step # "free" /\ x \in flight[f].tab}

(* The flights, when tab x waits for none of them any more. *)
Forget(x) == [f \in Flights |-> [flight[f] EXCEPT !.tab = @ \ {x}]]

Init == /\ rows = {} /\ revoked = {} /\ issued = 0 /\ expiredTo = 0
        /\ session = [t \in Tokens |-> None]
        /\ active = TRUE
        /\ stored = [b \in Browsers |-> None]
        /\ cached = [x \in Tabs |-> None]
        /\ flight = [f \in Flights |-> Free]
        /\ losses = MaxLosses /\ logouts = MaxLogouts
-----------------------------------------------------------------------------
(* The row of a new token; origin is the login it descends from. *)
AddRow(t, origin) == /\ issued' = t
                     /\ rows' = rows \cup {t}
                     /\ session' = [session EXCEPT ![t] = origin]

Store(x, t) == /\ stored' = [stored EXCEPT ![x[1]] = t]
               /\ cached' = [cached EXCEPT ![x] = t]

(* login, create_refresh_token *)
Login(x) ==
    /\ active
    /\ cached[x] = None
    /\ issued < MaxTokens
    /\ AddRow(issued + 1, issued + 1)
    /\ Store(x, issued + 1)
    /\ UNCHANGED <<revoked, expiredTo, active, flight, losses, logouts>>

(* A tab is opened anew and reads the storage (initTokenCache). *)
Reload(x) ==
    /\ IF InAir(x) = {} THEN UNCHANGED losses ELSE losses > 0 /\ losses' = losses - 1
    /\ cached' = [cached EXCEPT ![x] = stored[x[1]]]
    /\ flight' = Forget(x)
    /\ UNCHANGED <<table, expiredTo, active, stored, logouts>>

(* Mutant: a tab without a refresh token refreshes all the same. *)
StartRefresh_NoToken(f, x) ==
    /\ flight[f] = Free
    /\ \A g \in InAir(x) : flight[g].kind # "refresh"
    /\ flight' = [flight EXCEPT ![f] = Sent("refresh", x)]
    /\ UNCHANGED <<table, expiredTo, active, client, losses, logouts>>

(* Mutant: no refreshingPromise. *)
StartRefresh_NoPromise(f, x) ==
    /\ flight[f] = Free
    /\ cached[x] # None
    /\ flight' = [flight EXCEPT ![f] = Sent("refresh", x)]
    /\ UNCHANGED <<table, expiredTo, active, client, losses, logouts>>

(* A request was answered 401; a refresh under way is shared. *)
StartRefresh(f, x) ==
    /\ flight[f] = Free
    /\ cached[x] # None
    /\ \A g \in InAir(x) : flight[g].kind # "refresh"
    /\ flight' = [flight EXCEPT ![f] = Sent("refresh", x)]
    /\ UNCHANGED <<table, expiredTo, active, client, losses, logouts>>

StartLogout(f, x) ==
    /\ flight[f] = Free
    /\ cached[x] # None
    /\ logouts > 0
    /\ logouts' = logouts - 1
    /\ flight' = [flight EXCEPT ![f] = Sent("logout", x)]
    /\ UNCHANGED <<table, expiredTo, active, client, losses>>
-----------------------------------------------------------------------------
(* validate_and_rotate.  The row is locked until the commit. *)

At(f, kind, step) == flight[f].kind = kind /\ flight[f].step = step

(* What the SELECT finds. *)
Found(t) == IF t \notin rows THEN "refused" ELSE IF t \in revoked THEN "reused" ELSE "valid"

(* Mutant: the SELECT without FOR UPDATE. *)
SelectForUpdate_NoLock(f) ==
    /\ At(f, "refresh", "sent")
    /\ flight' = [flight EXCEPT ![f].step = Found(flight[f].token)]
    /\ UNCHANGED <<table, expiredTo, active, client, losses, logouts>>

(* Mutant: is_revoked is not looked at. *)
SelectForUpdate_EvenRevoked(f) ==
    /\ At(f, "refresh", "sent")
    /\ ~Locked(flight[f].token)
    /\ flight' = [flight EXCEPT ![f].step =
                    IF flight[f].token \notin rows THEN "refused" ELSE "valid"]
    /\ UNCHANGED <<table, expiredTo, active, client, losses, logouts>>

SelectForUpdate(f) ==
    /\ At(f, "refresh", "sent")
    /\ ~Locked(flight[f].token)
    /\ flight' = [flight EXCEPT ![f].step = Found(flight[f].token)]
    /\ UNCHANGED <<table, expiredTo, active, client, losses, logouts>>

(* Reuse: the UPDATE of _revoke_all_tokens starts. *)
StartRevokeAll(f) ==
    /\ At(f, "refresh", "reused")
    /\ flight' = [flight EXCEPT ![f].step = "revoking", ![f].rows = Live]
    /\ UNCHANGED <<table, expiredTo, active, client, losses, logouts>>

(* It has waited for the rows that were locked, and commits. *)
RevokeAll(f) ==
    /\ At(f, "refresh", "revoking")
    /\ \A t \in flight[f].rows : ~Locked(t)
    /\ revoked' = revoked \cup (flight[f].rows \cap rows)
    /\ flight' = [flight EXCEPT ![f].step = "refused", ![f].rows = {}]
    /\ UNCHANGED <<rows, issued, session, expiredTo, active, client, losses, logouts>>

(* The row has expired, and is revoked, or the user is inactive. *)
Refuse(f) ==
    /\ At(f, "refresh", "valid")
    /\ \/ flight[f].token <= expiredTo /\ revoked' = revoked \cup {flight[f].token}
       \/ flight[f].token > expiredTo /\ ~active /\ UNCHANGED revoked
    /\ flight' = [flight EXCEPT ![f].step = "refused"]
    /\ UNCHANGED <<rows, issued, session, expiredTo, active, client, losses, logouts>>

Rotate(f) ==
    LET t == flight[f].token  new == issued + 1 IN
    /\ At(f, "refresh", "valid")
    /\ t > expiredTo
    /\ active
    /\ issued < MaxTokens
    /\ revoked' = revoked \cup {t}
    /\ AddRow(new, session[t])
    /\ flight' = [flight EXCEPT ![f].step = "ok", ![f].new = new]
    /\ UNCHANGED <<expiredTo, active, client, losses, logouts>>

(* revoke_token; a token already revoked, or gone, is left alone. *)
RevokeToken(f) ==
    /\ At(f, "logout", "sent")
    /\ ~Locked(flight[f].token)
    /\ revoked' = revoked \cup ({flight[f].token} \cap rows)
    /\ flight' = [flight EXCEPT ![f].step = "done"]
    /\ UNCHANGED <<rows, issued, session, expiredTo, active, client, losses, logouts>>

(* cleanup_expired_tokens waits for the rows that are locked. *)
Sweep ==
    /\ \A t \in rows : t <= expiredTo => ~Locked(t)
    /\ rows' = {t \in rows : t > expiredTo}
    /\ UNCHANGED <<revoked, issued, session, expiredTo, active, client, flight, losses,
                   logouts>>

Expire == /\ expiredTo < issued
          /\ expiredTo' = expiredTo + 1
          /\ UNCHANGED <<table, active, client, flight, losses, logouts>>

SetActive == /\ active' = ~active
             /\ UNCHANGED <<table, expiredTo, client, flight, losses, logouts>>
-----------------------------------------------------------------------------
(* clearAuth empties the tab's cache and the browser's storage; after a    *)
(* failed refresh the page is left for /login.                             *)
ClearAuth(x) == Store(x, None)

TakeTokens(f, x) ==
    /\ At(f, "refresh", "ok")
    /\ x \in flight[f].tab
    /\ Store(x, flight[f].new)
    /\ flight' = [flight EXCEPT ![f] = Free]
    /\ UNCHANGED <<table, expiredTo, active, losses, logouts>>

RefreshFailed(f, x) ==
    /\ At(f, "refresh", "refused")
    /\ x \in flight[f].tab
    /\ ClearAuth(x)
    /\ flight' = [Forget(x) EXCEPT ![f] = Free]
    /\ UNCHANGED <<table, expiredTo, active, losses, logouts>>

LoggedOut(f, x) ==
    /\ At(f, "logout", "done")
    /\ x \in flight[f].tab
    /\ ClearAuth(x)
    /\ flight' = [flight EXCEPT ![f] = Free]
    /\ UNCHANGED <<table, expiredTo, active, losses, logouts>>

(* A network error: both kinds of call end in clearAuth, and the server    *)
(* may still get to its end.                                               *)
CallFails(f, x) ==
    /\ flight[f].step # "free"
    /\ x \in flight[f].tab
    /\ losses > 0
    /\ losses' = losses - 1
    /\ ClearAuth(x)
    /\ flight' = IF flight[f].kind = "refresh"
                 THEN Forget(x)
                 ELSE [flight EXCEPT ![f].tab = {}]
    /\ UNCHANGED <<table, expiredTo, active, logouts>>

(* A call nobody waits for: its request is lost, or its answer dropped.    *)
Drop(f) ==
    /\ flight[f].step \in {"sent", "ok", "refused", "done"}
    /\ flight[f].tab = {}
    /\ flight' = [flight EXCEPT ![f] = Free]
    /\ UNCHANGED <<table, expiredTo, active, client, losses, logouts>>
-----------------------------------------------------------------------------
Server(f) == \/ SelectForUpdate(f) \/ StartRevokeAll(f) \/ RevokeAll(f)
             \/ Refuse(f) \/ Rotate(f) \/ RevokeToken(f) \/ Drop(f)
Page(x) == Login(x) \/ Reload(x)
Call(f, x) == \/ StartRefresh(f, x) \/ StartLogout(f, x)
              \/ TakeTokens(f, x) \/ RefreshFailed(f, x)
              \/ LoggedOut(f, x) \/ CallFails(f, x)

Next == \/ \E f \in Flights : Server(f)
        \/ \E x \in Tabs : Page(x)
        \/ \E f \in Flights, x \in Tabs : Call(f, x)
        \/ Sweep \/ Expire \/ SetActive

Spec == Init /\ [][Next]_vars
-----------------------------------------------------------------------------
Flight == [kind : {"refresh", "logout"}, tab : SUBSET Tabs,
           step : {"free", "sent", "valid", "reused", "revoking", "ok", "refused", "done"},
           token : Tokens \cup {None}, rows : SUBSET Tokens, new : Tokens \cup {None}]

TypeOK ==
    /\ issued \in 0..MaxTokens /\ expiredTo \in 0..issued
    /\ rows \subseteq 1..issued /\ revoked \subseteq 1..issued
    /\ session \in [Tokens -> Tokens \cup {None}]
    /\ active \in BOOLEAN
    /\ stored \in [Browsers -> 0..issued]
    /\ cached \in [Tabs -> 0..issued]
    /\ flight \in [Flights -> Flight]
    /\ \A f \in Flights : /\ flight[f].token <= issued /\ flight[f].new <= issued
                          /\ flight[f].step = "ok" => flight[f].new # None
                          /\ flight[f].step # "free" => flight[f].token # None
    /\ losses \in 0..MaxLosses /\ logouts \in 0..MaxLogouts

(* A login has at most one live token, however many tabs present the same  *)
(* token at the same time.                                                 *)
OneLivePerSession == \A t, u \in Live : session[t] = session[u] => t = u

(* A session that was ended, by logout, reuse, expiry or the sweep, has no *)
(* live token ever after, whatever refresh was under way.                  *)
SessionEndIsFinal ==
    [][\A s \in 1..issued : LiveIn(s) = {} => LiveIn(s)' = {}]_vars

(* One tab for each browser, no logout, no lost answer: the page never     *)
(* presents a token that was rotated before, so nobody is logged out for   *)
(* theft.                                                                  *)
NoFalseAlarm ==
    NumTabs = 1 /\ losses = MaxLosses /\ logouts = MaxLogouts
        => \A f \in Flights : flight[f].step \notin {"reused", "revoking"}

(* validate_and_rotate: "We revoke ALL user tokens to force                *)
(* re-authentication on all devices."  The logins that were live when the  *)
(* UPDATE started are over when it is committed.                           *)
ReuseRevokesAll ==
    [][\A f \in Flights : RevokeAll(f)
          => \A t \in flight[f].rows : LiveIn(session[t])' = {}]_vars
=============================================================================
