--------------------------- MODULE SessionProofs ----------------------------
(***************************************************************************)
(* A browser shows one user: what Session says of the data that is shown,  *)
(* the tokens and the flag of the account forms holds for any number of    *)
(* logins, calls and users.  The invariant adds what is on its way: a call *)
(* that is still heard of was sent with the tokens there are, or with      *)
(* none, and without tokens nothing that comes brings a user back.         *)
(***************************************************************************)
EXTENDS Session, TLAPS, FiniteSetTheorems

Sessions == 1 .. Len(owner)
Tokens == 0 .. Len(owner)

Call == [query : Queries, tok : Tokens, st : {"sent", "refresh"}, live : BOOLEAN]
Mutation == [kind : {"login", "logout"}, user : Users \cup {Nobody}, tok : Tokens]

Types ==
  /\ flag \in BOOLEAN /\ reload \in BOOLEAN /\ crossed \in BOOLEAN /\ abandoned \in BOOLEAN
  /\ owner \in Seq(Users) /\ Len(owner) <= MaxLogins
  /\ token \in Tokens /\ refreshing \in Tokens
  /\ ended \subseteq Sessions /\ left \subseteq Sessions
  /\ route \in AuthPages \cup AppPages
  /\ data \in [Queries -> Users \cup {Nobody}] /\ failed \subseteq Queries
  /\ calls \subseteq Call /\ mutations \subseteq Mutation

\* A login under way has room for its session, and there is one at a time.
OneLogin ==
  /\ \A m \in mutations : m.kind = "login" => m.user \in Users /\ NewSession <= MaxLogins
  /\ \A m, o \in mutations : m.kind = "login" /\ o.kind = "login" => m = o

\* A call that is still heard of was sent by the session there is, or by none.
OwnCalls ==
  ~crossed /\ token # 0 => \A c \in calls : c.live => c.tok \in {0, token}

\* Without tokens, and before the browser is sent to the login page, ...
NoTokens ==
  token = 0 /\ ~abandoned /\ ~reload =>
    /\ \A c \in calls : c.live => c.tok = 0
    /\ flag => data["user"] = Nobody /\ "user" \notin failed

\* ... a refresh has a call that waits for it
RefreshHasCall == refreshing # 0 => Waiting # {}

\* the flag is missing only while a call is under way, whose answer sets it.
FlagComes == token # 0 /\ data["user"] # Nobody /\ ~reload /\ ~flag => calls # {}

IInv ==
  /\ Types /\ OneLogin /\ OwnData /\ LogoutSticks /\ OwnCalls /\ NoTokens
  /\ RefreshHasCall /\ FlagComes
-----------------------------------------------------------------------------

\* A new session has the number after the last.
LEMMA NextNumber ==
  ASSUME owner \in Seq(Users)
  PROVE  NewSession = Len(owner) + 1
<1>1. DOMAIN owner = 1 .. Len(owner) /\ Len(owner) \in Nat
  OBVIOUS
<1>2. Cardinality(1 .. Len(owner)) = Len(owner)
  BY <1>1, FS_Interval
<1>3. QED
  BY <1>1, <1>2 DEF NewSession

\* The flag is one of two.
LEMMA FlagIsBoolean ==
  ASSUME NEW tok, NEW d, NEW err, flag \in BOOLEAN
  PROVE  FlagAfter(tok, d, err) \in BOOLEAN
BY DEF FlagAfter

\* At first all is of its type.
LEMMA TypesInit == SessionInit => Types /\ OneLogin
<1> SUFFICES ASSUME SessionInit PROVE Types /\ OneLogin
  OBVIOUS
<1>1. owner = <<>> /\ owner \in Seq(Users) /\ Len(owner) = 0
  BY DEF SessionInit
<1>2. data \in [Queries -> Users \cup {Nobody}]
  BY DEF SessionInit, NoData
<1>3. token \in Tokens /\ refreshing \in Tokens /\ Len(owner) <= MaxLogins
  BY <1>1, LoginsAreCounted DEF SessionInit, Tokens
<1>4. route \in AuthPages \cup AppPages
  BY DEF SessionInit, AppPages
<1>5. QED
  BY <1>1, <1>2, <1>3, <1>4 DEF SessionInit, Types, OneLogin

\* Every step keeps the types.
LEMMA TypesStep ==
  ASSUME Types, OneLogin, [SessionNext]_sessionVars
  PROVE  Types'
<1> USE DEF Types, Sessions, Tokens
<1>0. CASE UNCHANGED sessionVars
  BY <1>0 DEF sessionVars, Call, Mutation
<1>1. ASSUME NEW q \in Queries, Fetch(q) PROVE Types'
  <2>1. calls' = calls \cup {[query |-> q, tok |-> token, st |-> "sent", live |-> TRUE]}
    BY <1>1 DEF Fetch
  <2>2. calls' \subseteq Call
    <3>1. [query |-> q, tok |-> token, st |-> "sent", live |-> TRUE] \in Call
      BY DEF Call
    <3>2. QED
      BY <2>1, <3>1
  <2>3. UNCHANGED <<flag, token, owner, ended, route, data, failed, refreshing, mutations,
                    reload, crossed, abandoned, left>>
    BY <1>1 DEF Fetch, onServer, history
  <2>4. QED
    BY <2>2, <2>3 DEF Call, Mutation
<1>2. ASSUME NEW c \in calls, Answer(c) PROVE Types'
  <2>1. c \in Call /\ (c.tok # 0 => owner[c.tok] \in Users)
    BY DEF Call
  <2>2. /\ calls' \subseteq calls
        /\ UNCHANGED <<token, owner, ended, route, refreshing, mutations, reload, crossed,
                       abandoned, left>>
    BY <1>2 DEF Answer, onServer, history
  <2>3. data' \in [Queries -> Users \cup {Nobody}] /\ failed' \subseteq Queries
    BY <1>2, <2>1 DEF Answer, Accepts, Call
  <2>4. flag' \in BOOLEAN
    BY <1>2, FlagIsBoolean DEF Answer
  <2>5. QED
    BY <2>2, <2>3, <2>4 DEF Call, Mutation
<1>3. ASSUME NEW c \in calls, Unauthorized(c) PROVE Types'
  <2>1. UNCHANGED <<owner, ended, route, data, mutations, crossed, abandoned, left>>
    BY <1>3 DEF Unauthorized, onServer, history
  <2>2. [c EXCEPT !.st = "refresh"] \in Call
    BY DEF Call
  <2>3. calls' \subseteq Call
    BY <1>3, <2>2 DEF Unauthorized, Fail
  <2>4. failed' \subseteq Queries
    BY <1>3 DEF Unauthorized, Fail, Call
  <2>5. flag' \in BOOLEAN /\ token' \in Tokens /\ refreshing' \in Tokens /\ reload' \in BOOLEAN
    BY <1>3 DEF Unauthorized, Fail, FlagAfter
  <2>6. QED
    BY <2>1, <2>3, <2>4, <2>5 DEF Call, Mutation
<1>4. ASSUME NEW c \in calls, CallFails(c) PROVE Types'
  BY <1>4 DEF CallFails, Fail, FlagAfter, Call, Mutation, onServer, history
<1>5. CASE RefreshReturns
  <2>1. UNCHANGED <<owner, ended, route, data, mutations, abandoned, left>>
    BY <1>5 DEF RefreshReturns
  <2>2. \A c \in calls : [c EXCEPT !.st = "sent", !.tok = refreshing] \in Call
    BY DEF Call
  <2>3. calls' \subseteq Call
    <3>1. Waiting \subseteq calls
      BY DEF Waiting
    <3>2. \/ calls' = calls \ Waiting
          \/ calls' = (calls \ Waiting)
                      \cup {[c EXCEPT !.st = "sent", !.tok = refreshing] : c \in Waiting}
      BY <1>5 DEF RefreshReturns, Fail
    <3>3. SUFFICES ASSUME NEW d \in calls' PROVE d \in Call
      OBVIOUS
    <3>4. d \in calls \/ \E c \in Waiting : d = [c EXCEPT !.st = "sent", !.tok = refreshing]
      BY <3>2
    <3>5. CASE d \in calls
      BY <3>5
    <3>6. ASSUME NEW c \in Waiting, d = [c EXCEPT !.st = "sent", !.tok = refreshing]
          PROVE  d \in Call
      BY <2>2, <3>1, <3>6
    <3>7. QED
      BY <3>4, <3>5, <3>6
  <2>4. failed' \subseteq Queries
    <3>1. Waiting \subseteq Call
      BY DEF Waiting
    <3>2. \A d \in Waiting : d.query \in Queries
      BY <3>1 DEF Call
    <3>3. failed' = failed \/ failed' = failed \cup {d.query : d \in {e \in Waiting : e.live}}
      BY <1>5 DEF RefreshReturns, Fail
    <3>4. QED
      BY <3>2, <3>3
  <2>5. /\ flag' \in BOOLEAN /\ token' \in Tokens /\ refreshing' \in Tokens
        /\ reload' \in BOOLEAN /\ crossed' \in BOOLEAN
    <3>1. crossed' = (crossed \/ token # refreshing) /\ refreshing' = 0
      BY <1>5 DEF RefreshReturns
    <3>2. \/ token' = refreshing /\ UNCHANGED <<flag, reload>>
          \/ token' = 0 /\ reload' = TRUE /\ flag' = FlagAfter(0, data, failed')
      BY <1>5 DEF RefreshReturns, Fail
    <3>3. flag' \in BOOLEAN
      BY <3>2, FlagIsBoolean
    <3>4. token' \in Tokens /\ refreshing' \in Tokens
      BY <2>1, <3>1, <3>2
    <3>5. reload' \in BOOLEAN /\ crossed' \in BOOLEAN
      <4> HIDE DEF Sessions, Tokens
      <4>1. QED
        BY <3>1, <3>2
    <3>6. QED
      BY <3>3, <3>4, <3>5
  <2>6. QED
    BY <2>1, <2>3, <2>4, <2>5 DEF Call, Mutation
<1>6. ASSUME NEW u \in Users, Login(u) PROVE Types'
  BY <1>6 DEF Login, Call, Mutation, onServer, history
<1>7. ASSUME NEW m \in mutations, LoginReturns(m) PROVE Types'
  <2>1. m.user \in Users /\ NewSession = Len(owner) + 1 /\ NewSession <= MaxLogins
    BY <1>7, NextNumber DEF LoginReturns, OneLogin
  <2>2. owner' \in Seq(Users) /\ Len(owner') = Len(owner) + 1 /\ token' = Len(owner')
    BY <1>7, <2>1 DEF LoginReturns
  <2>3. \A c \in calls : [c EXCEPT !.live = FALSE] \in Call
    BY DEF Call
  <2>4. calls' \subseteq Call /\ mutations' \subseteq Mutation
    BY <1>7, <2>3 DEF LoginReturns, Clear
  <2>5. data' \in [Queries -> Users \cup {Nobody}] /\ failed' = {}
    BY <1>7 DEF LoginReturns, Clear, Cleared, NoData
  <2>6. /\ flag' = TRUE /\ route' = "home"
        /\ UNCHANGED <<refreshing, reload, ended, left, crossed, abandoned>>
    BY <1>7 DEF LoginReturns, history
  <2>7. Call \subseteq Call' /\ Mutation \subseteq Mutation'
    BY <2>2 DEF Call, Mutation
  <2>8. QED
    BY <2>1, <2>2, <2>4, <2>5, <2>6, <2>7 DEF AppPages
<1>8. ASSUME NEW m \in mutations, LoginFails(m) PROVE Types'
  BY <1>8 DEF LoginFails, Call, Mutation, onServer, history
<1>9. ASSUME NEW m \in mutations, LogoutReturns(m) PROVE Types'
  <2>1. UNCHANGED <<owner, refreshing, reload, crossed, abandoned>>
    BY <1>9 DEF LogoutReturns
  <2>2. m.tok \in Tokens
    BY DEF Mutation
  <2>3. \A c \in calls : [c EXCEPT !.live = FALSE] \in Call
    BY DEF Call
  <2>4. calls' \subseteq Call /\ mutations' \subseteq Mutation
    BY <1>9, <2>3 DEF LogoutReturns, Clear
  <2>5. data' \in [Queries -> Users \cup {Nobody}] /\ failed' = {}
    BY <1>9 DEF LogoutReturns, Clear, Cleared, NoData
  <2>6. /\ flag' = FALSE /\ token' = 0 /\ route' = "login"
        /\ ended' = ended \cup ({m.tok} \ {0}) /\ left' = left \cup ({m.tok} \ {0})
    BY <1>9 DEF LogoutReturns
  <2>7. Call' = Call /\ Mutation' = Mutation
    BY <2>1 DEF Call, Mutation
  <2>8. QED
    <3>1. m.tok # 0 => m.tok \in Sessions
      BY <2>2
    <3> HIDE DEF Sessions, Tokens
    <3>2. Sessions' = Sessions
      BY <2>1 DEF Sessions
    <3>3. ended' \subseteq Sessions' /\ left' \subseteq Sessions'
      BY <2>6, <3>1, <3>2
    <3>4. route' \in AuthPages /\ token' \in Tokens'
      BY <2>1, <2>6 DEF AuthPages, Tokens
    <3>5. refreshing' \in Tokens'
      BY <2>1 DEF Tokens
    <3>6. QED
      BY <2>1, <2>4, <2>5, <2>6, <2>7, <3>3, <3>4, <3>5
<1>10. ASSUME NEW m \in mutations, LogoutFails(m) PROVE Types'
  BY <1>10 DEF LogoutFails, FlagAfter, Call, Mutation
<1>11. CASE Logout
  BY <1>11 DEF Logout, Call, Mutation, onServer, history
<1>12. CASE Reload
  <2>1. UNCHANGED <<flag, token, owner, ended, crossed, abandoned, left>>
    BY <1>12 DEF Reload, Loaded, onServer, history
  <2>2. /\ route' = "login" /\ data' = NoData /\ failed' = {} /\ calls' = {}
        /\ mutations' = {} /\ reload' = FALSE /\ refreshing' = 0
    BY <1>12 DEF Reload, Loaded
  <2>3. data' \in [Queries -> Users \cup {Nobody}] /\ route' \in AuthPages
    BY <2>2 DEF NoData, AuthPages
  <2>4. 0 \in Tokens
    OBVIOUS
  <2>5. QED
    BY <2>1, <2>2, <2>3, <2>4
<1>13. CASE UserReloads
  BY <1>13 DEF UserReloads, Loaded, NoData, Call, Mutation, onServer, history
<1>14. CASE Expire
  BY <1>14 DEF Expire, Call, Mutation, history
<1>15. ASSUME NEW path \in AppPages \cup {"login"}, Navigate(path) PROVE Types'
  BY <1>15 DEF Navigate, AuthPages, Call, Mutation, onServer, history
<1>16. QED
  BY <1>0, <1>1, <1>2, <1>3, <1>4, <1>5, <1>6, <1>7, <1>8, <1>9, <1>10, <1>11, <1>12,
     <1>13, <1>14, <1>15 DEF SessionNext

\* There is one login under way at a time, after any step.
LEMMA OneLoginStep ==
  ASSUME Types, OneLogin, [SessionNext]_sessionVars
  PROVE  OneLogin'
<1>1. ASSUME owner' = owner, mutations' \subseteq mutations
      PROVE  OneLogin'
  BY <1>1 DEF OneLogin, NewSession
<1>2. ASSUME NEW u \in Users, Login(u) PROVE OneLogin'
  <2>1. owner' = owner /\ NewSession <= MaxLogins /\ \A o \in mutations : o.kind # "login"
    BY <1>2 DEF Login, Pending, onServer
  <2>2. mutations' = mutations \cup {[kind |-> "login", user |-> u, tok |-> 0]}
    BY <1>2 DEF Login
  <2>3. QED
    BY <2>1, <2>2 DEF OneLogin, NewSession
<1>3. ASSUME NEW m \in mutations, LoginReturns(m) PROVE OneLogin'
  <2>1. m.kind = "login" /\ mutations' = mutations \ {m}
    BY <1>3 DEF LoginReturns
  <2>2. \A o \in mutations' : o.kind # "login"
    BY <2>1 DEF OneLogin
  <2>3. QED
    BY <2>2 DEF OneLogin
<1>4. CASE Logout
  <2>1. owner' = owner
    BY <1>4 DEF Logout, onServer
  <2>2. mutations' = mutations \cup {[kind |-> "logout", user |-> Nobody, tok |-> token]}
    BY <1>4 DEF Logout
  <2>3. QED
    BY <2>1, <2>2 DEF OneLogin, NewSession
<1>5. CASE UNCHANGED sessionVars
  BY <1>1, <1>5 DEF sessionVars
<1>6. ASSUME NEW q \in Queries, Fetch(q) PROVE OneLogin'
  BY <1>1, <1>6 DEF Fetch, onServer
<1>7. ASSUME NEW c \in calls, Answer(c) \/ Unauthorized(c) \/ CallFails(c) PROVE OneLogin'
  BY <1>1, <1>7 DEF Answer, Unauthorized, CallFails, onServer
<1>8. CASE RefreshReturns
  BY <1>1, <1>8 DEF RefreshReturns
<1>9. ASSUME NEW m \in mutations, LoginFails(m) \/ LogoutReturns(m) \/ LogoutFails(m)
      PROVE  OneLogin'
  BY <1>1, <1>9 DEF LoginFails, LogoutReturns, LogoutFails, onServer
<1>10. CASE Reload \/ UserReloads
  BY <1>1, <1>10 DEF Reload, UserReloads, Loaded, onServer
<1>11. CASE Expire
  BY <1>1, <1>11 DEF Expire
<1>12. ASSUME NEW path \in AppPages \cup {"login"}, Navigate(path) PROVE OneLogin'
  BY <1>1, <1>12 DEF Navigate, onServer
<1>13. QED
  BY <1>2, <1>3, <1>4, <1>5, <1>6, <1>7, <1>8, <1>9, <1>10, <1>11, <1>12 DEF SessionNext

\* Of whom what is cached and what is asked is: the three are kept together, since an
\* answer makes a call into data.
Own == OwnData /\ OwnCalls /\ LogoutSticks

\* With the same session, data that stays or is of its user, and calls that stay ...
LEMMA SameSession ==
  ASSUME Own, UNCHANGED <<crossed, token, owner, left>>,
         \A q \in Queries : data'[q] \in {Nobody, data[q]} \/ \E c \in calls :
                               c.live /\ c.tok # 0 /\ data'[q] = owner[c.tok],
         \A d \in calls' : d.live => \E c \in calls : c.live /\ d.tok = c.tok
  PROVE  Own'
BY DEF Own, OwnData, OwnCalls, LogoutSticks

\* ... and without a session, or once a refresh has crossed, there is nothing to show.
LEMMA NoSession ==
  ASSUME token' = 0, left' \subseteq Nat \ {0}
  PROVE  Own'
BY DEF Own, OwnData, OwnCalls, LogoutSticks

\* What is shown and under way belongs to the session there is, after any step.
LEMMA OwnStep ==
  ASSUME Types, Types', Own, [SessionNext]_sessionVars
  PROVE  Own'
<1>1. left' \subseteq Nat \ {0}
  BY DEF Types, Sessions
<1>2. CASE UNCHANGED sessionVars
  BY <1>2 DEF sessionVars, Own, OwnData, OwnCalls, LogoutSticks
<1>3. ASSUME NEW q \in Queries, Fetch(q) PROVE Own'
  <2>1. /\ calls' = calls \cup {[query |-> q, tok |-> token, st |-> "sent", live |-> TRUE]}
        /\ UNCHANGED <<crossed, token, owner, left, data>>
    BY <1>3 DEF Fetch, onServer, history
  <2>2. \A d \in calls' : d \in calls \/ d.tok = token
    BY <2>1
  <2>3. QED
    BY <2>1, <2>2 DEF Own, OwnData, OwnCalls, LogoutSticks
<1>4. ASSUME NEW c \in calls, Answer(c) PROVE Own'
  <2>1. calls' \subseteq calls /\ UNCHANGED <<crossed, token, owner, left>> /\ c.tok # 0
    BY <1>4 DEF Answer, Accepts, onServer, history
  <2>2. \/ UNCHANGED data
        \/ c.live /\ data' = [data EXCEPT ![c.query] = owner[c.tok]]
    BY <1>4 DEF Answer
  <2>3. \A q \in Queries : data'[q] = data[q] \/ (c.live /\ data'[q] = owner[c.tok])
    <3>1. data \in [Queries -> Users \cup {Nobody}]
      BY DEF Types
    <3>2. QED
      BY ONLY <2>2, <3>1
  <2>4. QED
    BY <2>1, <2>3, SameSession
<1>5. ASSUME NEW c \in calls, Unauthorized(c) PROVE Own'
  <2>1. CASE token # 0
    <3>1. UNCHANGED <<crossed, token, owner, left, data>>
      BY <1>5, <2>1 DEF Unauthorized, onServer, history
    <3>2. calls' = (calls \ {c}) \cup {[c EXCEPT !.st = "refresh"]}
      BY <1>5, <2>1 DEF Unauthorized
    <3>3. c \in Call
      BY DEF Types
    <3>4. [c EXCEPT !.st = "refresh"].tok = c.tok /\ [c EXCEPT !.st = "refresh"].live = c.live
      BY <3>3 DEF Call
    <3>5. QED
      BY <3>1, <3>2, <3>4, SameSession
  <2>2. CASE token = 0
    BY <1>1, <1>5, <2>2, NoSession DEF Unauthorized, Fail
  <2>3. QED
    BY <2>1, <2>2
<1>6. ASSUME NEW c \in calls, CallFails(c) PROVE Own'
  <2>1. UNCHANGED <<crossed, token, owner, left, data>> /\ calls' \subseteq calls
    BY <1>6 DEF CallFails, Fail, onServer, history
  <2>2. QED
    BY <2>1, SameSession
<1>7. CASE RefreshReturns
  <2>1. /\ crossed' = (crossed \/ token # refreshing) /\ UNCHANGED <<owner, left, data>>
        /\ refreshing # 0
    BY <1>7 DEF RefreshReturns
  <2>2. CASE token' = 0
    BY <1>1, <2>2, NoSession
  <2>3. CASE token' # 0
    <3>1. token' = refreshing
      BY <1>7, <2>3 DEF RefreshReturns, Fail
    <3>2. calls' = (calls \ Waiting)
                   \cup {[c EXCEPT !.st = "sent", !.tok = refreshing] : c \in Waiting}
      BY <1>7, <2>3 DEF RefreshReturns, Fail
    <3>3. \A c \in Waiting : [c EXCEPT !.st = "sent", !.tok = refreshing].tok = refreshing
      BY DEF Waiting, Types, Call
    <3>4. \A d \in calls' : d \in calls \/ d.tok = refreshing
      BY <3>2, <3>3
    <3>5. CASE crossed'
      BY <3>5 DEF Own, OwnData, OwnCalls, LogoutSticks
    <3>6. CASE ~crossed'
      <4>1. ~crossed /\ token = refreshing /\ token' = token
        BY <2>1, <3>1, <3>6 DEF Types
      <4>2. QED
        BY <2>1, <3>4, <4>1 DEF Own, OwnData, OwnCalls, LogoutSticks
    <3>7. QED
      BY <3>5, <3>6
  <2>4. QED
    BY <2>2, <2>3
<1>8. ASSUME NEW m \in mutations, LoginReturns(m) PROVE Own'
  <2>1. token' = Len(owner) + 1 /\ left' = left /\ data' = NoData
    BY <1>8, NextNumber DEF LoginReturns, Clear, Cleared, Types, history
  <2>2. calls' = {[c EXCEPT !.live = FALSE] : c \in calls}
    BY <1>8 DEF LoginReturns, Clear
  <2>3. \A d \in calls' : ~d.live
    BY <2>2 DEF Types, Call
  <2>4. \A q \in Queries : data'[q] = Nobody
    BY <2>1 DEF NoData
  <2>5. token' \notin left'
    BY <2>1 DEF Types, Sessions
  <2>6. QED
    BY <2>3, <2>4, <2>5 DEF Own, OwnData, OwnCalls, LogoutSticks
<1>9. ASSUME NEW m \in mutations, LogoutReturns(m) \/ LogoutFails(m) PROVE Own'
  <2>1. token' = 0
    BY <1>9 DEF LogoutReturns, LogoutFails
  <2>2. QED
    BY <1>1, <2>1, NoSession
<1>10. CASE Reload \/ UserReloads
  <2>1. UNCHANGED <<crossed, token, owner, left>> /\ data' = NoData /\ calls' = {}
    BY <1>10 DEF Reload, UserReloads, Loaded, onServer, history
  <2>2. QED
    BY <2>1, SameSession DEF NoData
<1>11. CASE Logout \/ Expire \/ \E u \in Users : Login(u)
  <2>1. UNCHANGED <<crossed, token, owner, left, data, calls>>
    BY <1>11 DEF Logout, Expire, Login, onServer, history
  <2>2. QED
    BY <2>1, SameSession
<1>12. ASSUME NEW m \in mutations, LoginFails(m) PROVE Own'
  BY <1>12, SameSession DEF LoginFails, onServer, history
<1>13. ASSUME NEW path \in AppPages \cup {"login"}, Navigate(path) PROVE Own'
  BY <1>13, SameSession DEF Navigate, onServer, history
<1>14. QED
  BY <1>2, <1>3, <1>4, <1>5, <1>6, <1>7, <1>8, <1>9, <1>10, <1>11, <1>12, <1>13 DEF SessionNext

-----------------------------------------------------------------------------

Settled == NoTokens /\ RefreshHasCall /\ FlagComes

\* A call that was told to stop keeps its place, and is not live.
LEMMA Stopped ==
  ASSUME Types, NEW D, D = {[c EXCEPT !.live = FALSE] : c \in calls}
  PROVE  /\ \A d \in D : ~d.live
         /\ \A c \in calls : [c EXCEPT !.live = FALSE] \in D /\ [c EXCEPT !.live = FALSE].st = c.st
BY DEF Types, Call

\* Without tokens nothing of a session is shown or waited for, and the flag comes, after
\* any step.
LEMMA SettledStep ==
  ASSUME Types, Types', Settled, [SessionNext]_sessionVars
  PROVE  Settled'
<1>1. CASE UNCHANGED sessionVars
  BY <1>1 DEF sessionVars, Settled, NoTokens, RefreshHasCall, FlagComes, Waiting
<1>2. ASSUME NEW q \in Queries, Fetch(q) PROVE Settled'
  <2>1. /\ calls' = calls \cup {[query |-> q, tok |-> token, st |-> "sent", live |-> TRUE]}
        /\ UNCHANGED <<abandoned, token, flag, data, failed, reload, refreshing>>
    BY <1>2 DEF Fetch, onServer, history
  <2>2. \A d \in calls' : d \in calls \/ d.tok = token
    BY <2>1
  <2>3. NoTokens' /\ FlagComes'
    BY <2>1, <2>2 DEF Settled, NoTokens, FlagComes
  <2>4. RefreshHasCall'
    BY <2>1 DEF Settled, RefreshHasCall, Waiting
  <2>5. QED
    BY <2>3, <2>4 DEF Settled
<1>3. ASSUME NEW c \in calls, Answer(c) PROVE Settled'
  <2>1. /\ calls' = calls \ {c} /\ UNCHANGED <<abandoned, token, reload, refreshing>>
        /\ c.tok # 0 /\ c.st = "sent"
        /\ flag' = FlagAfter(token, data', failed')
    BY <1>3 DEF Answer, Accepts, onServer, history
  <2>2. ~c.live => UNCHANGED <<data, failed>>
    BY <1>3 DEF Answer
  <2>3. NoTokens'
    BY <2>1, <2>2 DEF Settled, NoTokens, FlagAfter
  <2>4. RefreshHasCall'
    BY <2>1 DEF Settled, RefreshHasCall, Waiting
  <2>5. FlagComes'
    BY <2>1 DEF FlagComes, FlagAfter
  <2>6. QED
    BY <2>3, <2>4, <2>5 DEF Settled
<1>4. ASSUME NEW c \in calls, Unauthorized(c) PROVE Settled'
  <2>1. CASE token = 0
    <3>1. /\ calls' = calls \ {c} /\ reload' /\ token' = 0
          /\ c.st = "sent" /\ UNCHANGED refreshing
      BY <1>4, <2>1 DEF Unauthorized, Fail
    <3>2. QED
      BY <3>1 DEF Settled, NoTokens, RefreshHasCall, FlagComes, Waiting
  <2>2. CASE token # 0
    <3>1. UNCHANGED <<flag, token, failed, reload, data>>
      BY <1>4, <2>2 DEF Unauthorized
    <3>2. [c EXCEPT !.st = "refresh"] \in calls'
      BY <1>4, <2>2 DEF Unauthorized
    <3>3. [c EXCEPT !.st = "refresh"].st = "refresh"
      BY DEF Types, Call
    <3>4. QED
      BY <2>2, <3>1, <3>2, <3>3 DEF Settled, NoTokens, RefreshHasCall, FlagComes, Waiting
  <2>3. QED
    BY <2>1, <2>2
<1>5. ASSUME NEW c \in calls, CallFails(c) PROVE Settled'
  <2>1. /\ calls' = calls \ {c} /\ UNCHANGED <<abandoned, token, reload, refreshing, data>>
        /\ c.st = "sent" /\ flag' = FlagAfter(token, data, failed')
        /\ failed' = failed \cup {d.query : d \in {e \in {c} : e.live}}
    BY <1>5 DEF CallFails, Fail, history
  <2>2. token = 0 /\ flag' => flag /\ "user" \notin failed'
    BY <2>1 DEF FlagAfter
  <2>3. NoTokens'
    BY <2>1, <2>2 DEF Settled, NoTokens
  <2>4. RefreshHasCall' /\ FlagComes'
    BY <2>1 DEF Settled, RefreshHasCall, FlagComes, FlagAfter, Waiting
  <2>5. QED
    BY <2>3, <2>4 DEF Settled
<1>6. CASE RefreshReturns
  <2>1. refreshing' = 0 /\ UNCHANGED <<data, abandoned>> /\ refreshing # 0 /\ Waiting # {}
    BY <1>6 DEF RefreshReturns, Settled, RefreshHasCall
  <2>2. \/ token' = 0 /\ reload'
        \/ /\ token' # 0
           /\ \A c \in Waiting : [c EXCEPT !.st = "sent", !.tok = refreshing] \in calls'
    BY <1>6 DEF RefreshReturns, Fail
  <2>3. QED
    BY <2>1, <2>2 DEF Settled, NoTokens, RefreshHasCall, FlagComes
<1>7. ASSUME NEW m \in mutations, LoginReturns(m) PROVE Settled'
  <2>1. /\ token' # 0 /\ flag' /\ refreshing' = refreshing
        /\ calls' = {[c EXCEPT !.live = FALSE] : c \in calls}
    BY <1>7, NextNumber DEF LoginReturns, Clear, Types
  <2>2. QED
    BY <2>1, Stopped DEF Settled, NoTokens, RefreshHasCall, FlagComes, Waiting
<1>8. ASSUME NEW m \in mutations, LogoutReturns(m) PROVE Settled'
  <2>1. /\ token' = 0 /\ ~flag' /\ refreshing' = refreshing
        /\ calls' = {[c EXCEPT !.live = FALSE] : c \in calls}
    BY <1>8 DEF LogoutReturns, Clear
  <2>2. QED
    BY <2>1, Stopped DEF Settled, NoTokens, RefreshHasCall, FlagComes, Waiting
<1>9. ASSUME NEW m \in mutations, LogoutFails(m) PROVE Settled'
  BY <1>9 DEF LogoutFails, Settled, NoTokens, RefreshHasCall, FlagComes, Waiting
<1>10. CASE Reload \/ UserReloads
  <2>1. /\ refreshing' = 0 /\ data' = NoData /\ failed' = {} /\ calls' = {}
    BY <1>10 DEF Reload, UserReloads, Loaded
  <2>2. data'["user"] = Nobody
    BY <2>1 DEF NoData, Queries
  <2>3. QED
    BY <2>1, <2>2 DEF Settled, NoTokens, RefreshHasCall, FlagComes
<1>11. CASE Logout \/ Expire \/ \E u \in Users : Login(u)
  <2>1. UNCHANGED <<abandoned, flag, token, failed, refreshing, reload, data, calls>>
    BY <1>11 DEF Logout, Expire, Login, onServer, history
  <2>2. QED
    BY <2>1 DEF Settled, NoTokens, RefreshHasCall, FlagComes, Waiting
<1>12. ASSUME NEW m \in mutations, LoginFails(m) PROVE Settled'
  BY <1>12 DEF LoginFails, history, Settled, NoTokens, RefreshHasCall, FlagComes, Waiting
<1>13. ASSUME NEW path \in AppPages \cup {"login"}, Navigate(path) PROVE Settled'
  <2>1. /\ UNCHANGED <<abandoned, flag, token, refreshing, reload, data, calls>>
        /\ failed' \subseteq failed
    BY <1>13 DEF Navigate, history
  <2>2. QED
    BY <2>1 DEF Settled, NoTokens, RefreshHasCall, FlagComes, Waiting
<1>14. QED
  BY <1>1, <1>2, <1>3, <1>4, <1>5, <1>6, <1>7, <1>8, <1>9, <1>10, <1>11, <1>12, <1>13
     DEF SessionNext

-----------------------------------------------------------------------------

\* What the properties of a browser that has come to rest need.
LEMMA AtRest ==
  ASSUME Types, Settled
  PROVE  FlagHasTokens /\ TokensHaveFlag
<1>1. ASSUME Quiet, token = 0, flag, ~abandoned PROVE FALSE
  <2>1. data["user"] = Nobody /\ "user" \notin failed
    BY <1>1 DEF Settled, NoTokens, Quiet
  <2>2. Page \in AppPages
    BY <1>1 DEF Page, Loading, Types, AppPages, AuthPages
  <2>3. QED
    BY <1>1, <2>1, <2>2 DEF Quiet, Enabled
<1>2. ASSUME Quiet, token # 0, "user" \notin failed, ~flag PROVE FALSE
  BY <1>2 DEF Quiet, Enabled, Settled, FlagComes
<1>3. QED
  BY <1>1, <1>2 DEF FlagHasTokens, TokensHaveFlag, Types

\* The invariant and its parts
LEMMA Conjuncts == IInv <=> Types /\ OneLogin /\ Own /\ Settled
BY DEF IInv, Own, Settled

\* Types are right in every state the session can be in.
THEOREM SessionTypes == SessionSpec => []SessionTypeOK
<1>1. SessionInit => Types /\ OneLogin
  BY TypesInit
<1>2. Types /\ OneLogin /\ [SessionNext]_sessionVars => (Types /\ OneLogin)'
  BY TypesStep, OneLoginStep
<1>3. Types => SessionTypeOK
  BY LoginsAreCounted DEF Types, Tokens, Call, SessionTypeOK
<1>4. QED
  BY <1>1, <1>2, <1>3, PTL DEF SessionSpec

\* What a browser shows, keeps and asks with is of one user, and of one who did not
\* sign out (useAuthQueries.ts, App.tsx, lib/api.ts), for any number of users, logins,
\* calls and failures.
THEOREM OneUser == SessionSpec => []SessionIsOneUsers
<1>1. SessionInit => IInv
  <2>1. SessionInit => Own /\ Settled
    BY DEF SessionInit, Own, OwnData, OwnCalls, LogoutSticks, Settled, NoTokens,
           RefreshHasCall, FlagComes
  <2>2. QED
    BY <2>1, TypesInit, Conjuncts
<1>2. IInv /\ [SessionNext]_sessionVars => IInv'
  <2> SUFFICES ASSUME IInv, [SessionNext]_sessionVars PROVE IInv'
    OBVIOUS
  <2>1. Types /\ OneLogin /\ Own /\ Settled
    BY Conjuncts
  <2>2. Types' /\ OneLogin'
    BY <2>1, TypesStep, OneLoginStep
  <2>3. Own' /\ Settled'
    BY <2>1, <2>2, OwnStep, SettledStep
  <2>4. QED
    BY <2>2, <2>3 DEF IInv, Own, Settled
<1>3. IInv => SessionIsOneUsers
  <2>1. Types => SessionTypeOK
    BY LoginsAreCounted DEF Types, Tokens, Call, SessionTypeOK
  <2>2. QED
    BY <2>1, AtRest, Conjuncts DEF SessionIsOneUsers, Own
<1>4. QED
  BY <1>1, <1>2, <1>3, PTL DEF SessionSpec
=============================================================================
