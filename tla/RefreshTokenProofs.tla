------------------------- MODULE RefreshTokenProofs -------------------------
(***************************************************************************)
(* A login has at most one live refresh token, and none after its end, for *)
(* any number of browsers, tabs, calls and tokens.                         *)
(***************************************************************************)
EXTENDS RefreshToken, TLAPS

(* What TypeOK says of one call when n tokens have been issued. *)
Allowed(c, n) == /\ c \in Flight
                 /\ c.token <= n /\ c.new <= n
                 /\ c.step = "ok" => c.new # None
                 /\ c.step # "free" => c.token # None

FlightOK == /\ flight \in [Flights -> Flight]
            /\ \A f \in Flights : Allowed(flight[f], issued)

(* The other conjuncts of TypeOK. *)
TableOK == /\ issued \in 0..MaxTokens /\ expiredTo \in 0..issued
           /\ rows \subseteq 1..issued /\ revoked \subseteq 1..issued
           /\ session \in [Tokens -> Tokens \cup {None}]
ClientOK == /\ stored \in [Browsers -> 0..issued]
            /\ cached \in [Tabs -> 0..issued]
BoundsOK == active \in BOOLEAN /\ losses \in 0..MaxLosses /\ logouts \in 0..MaxLogouts

LEMMA TypeParts == TypeOK <=> FlightOK /\ TableOK /\ ClientOK /\ BoundsOK
BY DEF TypeOK, FlightOK, Allowed, TableOK, ClientOK, BoundsOK

LEMMA TypePartsNext == FlightOK' /\ TableOK' /\ ClientOK' /\ BoundsOK' => TypeOK'
BY DEF TypeOK, FlightOK, Allowed, TableOK, ClientOK, BoundsOK

LEMMA TableStays == TableOK /\ UNCHANGED <<rows, revoked, issued, session, expiredTo>> => TableOK'
BY DEF TableOK

LEMMA TableRevokes ==
    TableOK /\ UNCHANGED <<rows, issued, session, expiredTo>> /\ revoked' \subseteq 1..issued
        => TableOK'
BY DEF TableOK

LEMMA ClientStays == ClientOK /\ UNCHANGED <<stored, cached, issued>> => ClientOK'
BY DEF ClientOK

LEMMA BoundsStay == BoundsOK /\ UNCHANGED <<active, losses, logouts>> => BoundsOK'
BY DEF BoundsOK

LEMMA IssuedType == TypeOK => issued \in Nat /\ MaxTokens \in Nat /\ issued <= MaxTokens
BY TokenAssumption DEF TypeOK

(* The call f, and no other, becomes an allowed record. *)
Moves(f) == /\ flight' = [flight EXCEPT ![f] = flight'[f]]
            /\ Allowed(flight'[f], issued')

LEMMA FlightMoves ==
    ASSUME FlightOK, issued \in Nat, issued' \in Nat, issued <= issued',
           NEW f \in Flights, Moves(f)
    PROVE  FlightOK'
<1>1. flight \in [Flights -> Flight] /\ flight'[f] \in Flight
  BY DEF FlightOK, Moves, Allowed
<1>2. flight' = [flight EXCEPT ![f] = flight'[f]]
  BY DEF Moves
<1>3. flight' \in [Flights -> Flight]
  BY ONLY <1>1, <1>2
<1>4. ASSUME NEW g \in Flights PROVE Allowed(flight'[g], issued')
  <2>1. CASE g = f
    BY ONLY <2>1, Moves(f) DEF Moves
  <2>2. CASE g # f
    <3>1. flight'[g] = flight[g]
      BY ONLY <1>1, <1>2, <2>2, g \in Flights
    <3>2. Allowed(flight[g], issued)
      BY DEF FlightOK
    <3>3. flight[g].token \in Int /\ flight[g].new \in Int
      BY <1>1 DEF Flight, Tokens, None
    <3>4. Allowed(flight[g], issued')
      BY ONLY <3>2, <3>3, issued \in Nat, issued' \in Nat, issued <= issued' DEF Allowed
    <3> QED BY ONLY <3>1, <3>4
  <2> QED BY ONLY <2>1, <2>2
<1> QED BY ONLY <1>3, <1>4 DEF FlightOK

LEMMA FlightMovesOnly ==
    ASSUME FlightOK, issued \in Nat, UNCHANGED issued, NEW f \in Flights, Moves(f)
    PROVE  FlightOK'
BY FlightMoves

LEMMA FlightStays == FlightOK /\ UNCHANGED <<flight, issued>> => FlightOK'
BY DEF FlightOK

LEMMA FlightForgets ==
    ASSUME FlightOK, NEW x \in Tabs
    PROVE  /\ Forget(x) \in [Flights -> Flight]
           /\ \A g \in Flights : Allowed(Forget(x)[g], issued)
<1>1. ASSUME NEW g \in Flights
      PROVE  Allowed([flight[g] EXCEPT !.tab = @ \ {x}], issued)
  BY DEF FlightOK, Allowed, Flight
<1>2. \A g \in Flights : [flight[g] EXCEPT !.tab = @ \ {x}] \in Flight
  BY ONLY <1>1 DEF Allowed
<1> QED BY ONLY <1>1, <1>2 DEF Forget

LEMMA FreeAllowed == \A n \in Nat : Allowed(Free, n)
BY DEF Allowed, Free, Flight, Tokens, None

(* A call that goes on to a step without a new token stays allowed. *)
LEMMA StepAllowed ==
    ASSUME FlightOK, NEW f \in Flights, flight[f].step # "free",
           NEW st \in {"sent", "valid", "reused", "revoking", "refused", "done"},
           NEW R \in SUBSET Tokens
    PROVE  /\ Allowed([flight[f] EXCEPT !.step = st], issued)
           /\ Allowed([flight[f] EXCEPT !.step = st, !.rows = R], issued)
<1>1. Allowed(flight[f], issued)
  BY DEF FlightOK
<1> QED BY ONLY <1>1, flight[f].step # "free", R \in SUBSET Tokens,
           st \in {"sent", "valid", "reused", "revoking", "refused", "done"}
        DEF Allowed, Flight

LEMMA FoundType == \A t : Found(t) \in {"valid", "reused", "refused"}
BY DEF Found
-----------------------------------------------------------------------------
LEMMA TypeInit == Init => TypeOK
<1> SUFFICES ASSUME Init PROVE TypeOK
  OBVIOUS
<1>1. FlightOK
  BY FreeAllowed DEF Init, FlightOK, Allowed
<1>2. TableOK /\ BoundsOK
  BY TokenAssumption DEF Init, TableOK, BoundsOK, None
<1>3. ClientOK
  BY DEF Init, ClientOK, None
<1> QED BY <1>1, <1>2, <1>3, TypeParts

LEMMA StoreType ==
    ASSUME ClientOK, issued \in Nat, issued' \in Nat, issued <= issued',
           NEW x \in Tabs, NEW t \in 0..issued', Store(x, t)
    PROVE  ClientOK'
BY DEF ClientOK, Store, Tabs

LEMMA TypeStep == TypeOK /\ [Next]_vars => TypeOK'
<1> SUFFICES ASSUME TypeOK, [Next]_vars PROVE TypeOK'
  OBVIOUS
<1> USE DEF table, client
<1>a. FlightOK /\ TableOK /\ ClientOK /\ BoundsOK
  BY TypeParts
<1>b. issued \in Nat /\ MaxTokens \in Nat /\ issued <= MaxTokens
  BY IssuedType
<1>c. ASSUME FlightOK', UNCHANGED <<issued, stored, cached, active, losses, logouts>>, TableOK'
      PROVE  TypeOK'
  BY ONLY <1>a, <1>c, ClientStays, BoundsStay, TypePartsNext
<1>1. ASSUME NEW f \in Flights, Server(f) PROVE TypeOK'
  <2>0. flight[f] \in Flight /\ flight \in [Flights -> Flight]
        /\ flight[f].token \in 0..issued
    BY <1>a, <1>b DEF FlightOK, Allowed, Flight, Tokens, None
  <2>1. CASE SelectForUpdate(f)
    <3>1. flight' = [flight EXCEPT ![f] = [flight[f] EXCEPT !.step = Found(flight[f].token)]]
      BY <2>1, <2>0 DEF SelectForUpdate
    <3>2. Allowed([flight[f] EXCEPT !.step = Found(flight[f].token)], issued)
      BY <1>a, <2>1, StepAllowed, FoundType DEF SelectForUpdate, At
    <3>3. UNCHANGED <<table, expiredTo, active, client, losses, logouts>>
      BY <2>1 DEF SelectForUpdate
    <3>4. FlightOK'
      <4>1. Moves(f)
        BY ONLY <2>0, <3>1, <3>2, <3>3, f \in Flights DEF Moves, table
      <4> QED BY <1>a, <1>b, <3>3, <4>1, FlightMovesOnly
    <3> QED BY <3>3, <3>4, <1>a, <1>c, TableStays
  <2>2. CASE StartRevokeAll(f)
    <3>1. flight' = [flight EXCEPT ![f] = [flight[f] EXCEPT !.step = "revoking", !.rows = Live]]
      BY <2>2, <2>0 DEF StartRevokeAll
    <3>2. Live \in SUBSET Tokens
      BY <1>a, <1>b DEF Live, TableOK, Tokens
    <3>3. Allowed([flight[f] EXCEPT !.step = "revoking", !.rows = Live], issued)
      BY <1>a, <2>2, <3>2, StepAllowed DEF StartRevokeAll, At
    <3>4. UNCHANGED <<table, expiredTo, active, client, losses, logouts>>
      BY <2>2 DEF StartRevokeAll
    <3>5. FlightOK'
      <4>1. Moves(f)
        BY ONLY <2>0, <3>1, <3>3, <3>4, f \in Flights DEF Moves, table
      <4> QED BY <1>a, <1>b, <3>4, <4>1, FlightMovesOnly
    <3> QED BY <3>4, <3>5, <1>a, <1>c, TableStays
  <2>3. CASE RevokeAll(f)
    <3>1. flight' = [flight EXCEPT ![f] = [flight[f] EXCEPT !.step = "refused", !.rows = {}]]
      BY <2>3, <2>0 DEF RevokeAll
    <3>2. Allowed([flight[f] EXCEPT !.step = "refused", !.rows = {}], issued)
      BY <1>a, <2>3, StepAllowed DEF RevokeAll, At
    <3>3. UNCHANGED <<rows, issued, session, expiredTo, active, client, losses, logouts>>
          /\ revoked' \subseteq revoked \cup rows
      BY <2>3 DEF RevokeAll
    <3>4. FlightOK'
      <4>1. Moves(f)
        BY ONLY <2>0, <3>1, <3>2, <3>3, f \in Flights DEF Moves, table
      <4> QED BY <1>a, <1>b, <3>3, <4>1, FlightMovesOnly
    <3>5. TableOK'
      <4>1. revoked' \subseteq 1..issued
        BY <3>3, <1>a DEF TableOK
      <4> QED BY ONLY <4>1, <3>3, <1>a, TableRevokes
    <3> QED BY ONLY <3>3, <3>4, <3>5, <1>c DEF client
  <2>4. CASE Refuse(f)
    <3>1. flight' = [flight EXCEPT ![f] = [flight[f] EXCEPT !.step = "refused"]]
      BY <2>4, <2>0 DEF Refuse
    <3>2. Allowed([flight[f] EXCEPT !.step = "refused"], issued)
      BY <1>a, <2>4, StepAllowed DEF Refuse, At
    <3>3. UNCHANGED <<rows, issued, session, expiredTo, active, client, losses, logouts>>
          /\ revoked' \subseteq revoked \cup {flight[f].token}
      BY <2>4 DEF Refuse
    <3>4. FlightOK'
      <4>1. Moves(f)
        BY ONLY <2>0, <3>1, <3>2, <3>3, f \in Flights DEF Moves, table
      <4> QED BY <1>a, <1>b, <3>3, <4>1, FlightMovesOnly
    <3>5. flight[f].token # None
      BY <1>a, <2>4 DEF Refuse, At, FlightOK, Allowed
    <3>6. flight[f].token \in 1..issued
      BY <2>0, <3>5, <1>b DEF None
    <3>7. TableOK'
      <4>1. revoked' \subseteq 1..issued
        BY <3>3, <3>6, <1>a DEF TableOK
      <4> QED BY ONLY <4>1, <3>3, <1>a, TableRevokes
    <3> QED BY ONLY <3>3, <3>4, <3>7, <1>c DEF client
  <2>5. CASE Rotate(f)
    <3> DEFINE c == [flight[f] EXCEPT !.step = "ok", !.new = issued + 1]
    <3>1. flight' = [flight EXCEPT ![f] = c]
      BY <2>5, <2>0 DEF Rotate
    <3>2. issued' = issued + 1 /\ issued < MaxTokens
      BY <2>5 DEF Rotate, AddRow
    <3>3. Allowed(c, issued')
      <4>0. issued + 1 \in Tokens \cup {None}
        BY <1>b, <3>2 DEF Tokens
      <4>1. c.step = "ok" /\ c.new = issued + 1 /\ c.token = flight[f].token /\ c \in Flight
        BY ONLY <2>0, <4>0 DEF Flight
      <4>2. flight[f].token # None
        BY <1>a, <2>5 DEF Rotate, At, FlightOK, Allowed
      <4> QED BY <4>1, <4>2, <2>0, <1>b, <3>2 DEF Allowed, None
    <3>4. FlightOK'
      <4>1. flight'[f] = c
        BY ONLY <2>0, <3>1, f \in Flights
      <4>2. Moves(f)
        BY ONLY <3>1, <3>3, <4>1 DEF Moves
      <4> QED BY <1>a, <1>b, <3>2, <4>2, FlightMoves
    <3>5. UNCHANGED <<expiredTo, active, client, losses, logouts>>
      BY <2>5 DEF Rotate
    <3>6. flight[f].token \in 1..issued
      <4>1. flight[f].token # None
        BY <1>a, <2>5 DEF Rotate, At, FlightOK, Allowed
      <4> QED BY <4>1, <2>0, <1>b DEF None
    <3>7. /\ rows' = rows \cup {issued + 1} /\ revoked' = revoked \cup {flight[f].token}
          /\ session' = [session EXCEPT ![issued + 1] = session[flight[f].token]]
      BY <2>5 DEF Rotate, AddRow
    <3>8. session' \in [Tokens -> Tokens \cup {None}]
      <4>1. session \in [Tokens -> Tokens \cup {None}] /\ flight[f].token \in Tokens
        BY <3>6, <1>a, <1>b DEF TableOK, Tokens
      <4> QED BY ONLY <3>7, <4>1
    <3>9. TableOK'
      <4>1. issued' \in 0..MaxTokens /\ expiredTo' \in 0..issued'
        BY <3>2, <3>5, <1>a, <1>b DEF TableOK
      <4>2. rows' \subseteq 1..issued' /\ revoked' \subseteq 1..issued'
        <5>1. \A t \in 1..issued : t \in 1..issued'
          BY <3>2, <1>b
        <5>2. issued + 1 \in 1..issued'
          BY <3>2, <1>b
        <5> QED BY ONLY <5>1, <5>2, <3>6, <3>7, <1>a DEF TableOK
      <4> QED BY ONLY <3>8, <4>1, <4>2 DEF TableOK
    <3>10. ClientOK' /\ BoundsOK'
      BY <3>2, <3>5, <1>a, <1>b DEF ClientOK, BoundsOK
    <3> QED BY ONLY <3>4, <3>9, <3>10, TypePartsNext
  <2>6. CASE RevokeToken(f)
    <3>1. flight' = [flight EXCEPT ![f] = [flight[f] EXCEPT !.step = "done"]]
      BY <2>6, <2>0 DEF RevokeToken
    <3>2. Allowed([flight[f] EXCEPT !.step = "done"], issued)
      BY <1>a, <2>6, StepAllowed DEF RevokeToken, At
    <3>3. UNCHANGED <<rows, issued, session, expiredTo, active, client, losses, logouts>>
          /\ revoked' \subseteq revoked \cup rows
      BY <2>6 DEF RevokeToken
    <3>4. FlightOK'
      <4>1. Moves(f)
        BY ONLY <2>0, <3>1, <3>2, <3>3, f \in Flights DEF Moves, table
      <4> QED BY <1>a, <1>b, <3>3, <4>1, FlightMovesOnly
    <3>5. TableOK'
      <4>1. revoked' \subseteq 1..issued
        BY <3>3, <1>a DEF TableOK
      <4> QED BY ONLY <4>1, <3>3, <1>a, TableRevokes
    <3> QED BY ONLY <3>3, <3>4, <3>5, <1>c DEF client
  <2>7. CASE Drop(f)
    <3>1. flight' = [flight EXCEPT ![f] = Free]
          /\ UNCHANGED <<table, expiredTo, active, client, losses, logouts>>
      BY <2>7 DEF Drop
    <3>2. FlightOK'
      <4>1. Allowed(Free, issued')
        BY <3>1, <1>b, FreeAllowed
      <4>2. Moves(f)
        BY ONLY <2>0, <3>1, <4>1, f \in Flights DEF Moves
      <4> QED BY <1>a, <1>b, <3>1, <4>2, FlightMovesOnly
    <3> QED BY <3>1, <3>2, <1>a, <1>c, TableStays
  <2> QED BY ONLY <1>1, <2>1, <2>2, <2>3, <2>4, <2>5, <2>6, <2>7 DEF Server
<1>2. ASSUME NEW x \in Tabs, Page(x) PROVE TypeOK'
  <2>1. CASE Login(x)
    <3>1. issued' = issued + 1 /\ issued < MaxTokens /\ UNCHANGED <<flight, expiredTo, active>>
      BY <2>1 DEF Login, AddRow
    <3>2. FlightOK'
      <4>1. \A g \in Flights : flight[g].token \in Int /\ flight[g].new \in Int
        BY <1>a DEF FlightOK, Flight, Tokens, None
      <4> QED BY <4>1, <3>1, <1>a, <1>b DEF FlightOK, Allowed
    <3>3. ClientOK'
      BY <2>1, <3>1, <1>a, <1>b, StoreType DEF Login
    <3>4. TableOK'
      <4>1. /\ rows' = rows \cup {issued + 1} /\ UNCHANGED revoked
            /\ session' = [session EXCEPT ![issued + 1] = issued + 1]
        BY <2>1 DEF Login, AddRow
      <4>2. session' \in [Tokens -> Tokens \cup {None}]
        BY <4>1, <3>1, <1>a, <1>b DEF TableOK, Tokens
      <4> QED BY <4>1, <4>2, <3>1, <1>a, <1>b DEF TableOK
    <3>5. BoundsOK'
      BY <2>1, <1>a DEF Login, BoundsOK
    <3> QED BY ONLY <3>2, <3>3, <3>4, <3>5, TypePartsNext
  <2>2. CASE Reload(x)
    <3>1. FlightOK'
      BY <2>2, <1>a, FlightForgets DEF Reload, FlightOK
    <3>2. losses' \in 0..MaxLosses
      BY <2>2, <1>a, TokenAssumption DEF Reload, BoundsOK
    <3>3. UNCHANGED <<table, expiredTo, active, stored, logouts>>
          /\ cached' = [cached EXCEPT ![x] = stored[x[1]]]
      BY <2>2 DEF Reload
    <3>4. ClientOK'
      BY <3>3, <1>a DEF ClientOK, Tabs
    <3>5. TableOK' /\ BoundsOK'
      BY <3>2, <3>3, <1>a, TableStays DEF BoundsOK
    <3> QED BY ONLY <3>1, <3>4, <3>5, TypePartsNext
  <2> QED BY ONLY <1>2, <2>1, <2>2 DEF Page
<1>3. ASSUME NEW f \in Flights, NEW x \in Tabs, Call(f, x) PROVE TypeOK'
  <2>0. /\ flight[f] \in Flight /\ flight \in [Flights -> Flight]
        /\ Allowed(flight[f], issued)
    BY <1>a DEF FlightOK
  <2>1. CASE StartRefresh(f, x) \/ StartLogout(f, x)
    <3>1. PICK k \in {"refresh", "logout"} : flight' = [flight EXCEPT ![f] = Sent(k, x)]
      BY <2>1 DEF StartRefresh, StartLogout
    <3>2. cached[x] \in 0..issued /\ cached[x] # None
      BY <2>1, <1>a DEF StartRefresh, StartLogout, ClientOK
    <3>3. Allowed(Sent(k, x), issued)
      <4>1. cached[x] \in Tokens /\ cached[x] <= issued
        BY <3>2, <1>b DEF Tokens, None
      <4>2. {x} \in SUBSET Tabs /\ 0 <= issued
        BY <1>b
      <4> QED BY <4>1, <4>2, <3>2 DEF Allowed, Flight, Sent, None
    <3>4. /\ UNCHANGED <<table, expiredTo, active, client, losses>>
          /\ logouts' \in 0..MaxLogouts
      BY <2>1, <1>a, TokenAssumption DEF StartRefresh, StartLogout, BoundsOK
    <3>5. FlightOK'
      <4>1. Moves(f)
        BY ONLY <2>0, <3>1, <3>3, <3>4, f \in Flights DEF Moves, table
      <4> QED BY <1>a, <1>b, <3>4, <4>1, FlightMovesOnly
    <3>6. TableOK' /\ ClientOK' /\ BoundsOK'
      BY <3>4, <1>a, TableStays, ClientStays DEF BoundsOK
    <3> QED BY ONLY <3>5, <3>6, TypePartsNext
  <2>2. CASE TakeTokens(f, x) \/ LoggedOut(f, x)
    <3>1. flight' = [flight EXCEPT ![f] = Free]
          /\ UNCHANGED <<table, expiredTo, active, losses, logouts>>
      BY <2>2 DEF TakeTokens, LoggedOut
    <3>2. FlightOK'
      <4>1. Allowed(Free, issued')
        BY <3>1, <1>b, FreeAllowed
      <4>2. Moves(f)
        BY ONLY <2>0, <3>1, <4>1, f \in Flights DEF Moves
      <4> QED BY <1>a, <1>b, <3>1, <4>2, FlightMovesOnly
    <3>3. PICK t \in 0..issued : Store(x, t)
      <4>1. flight[f].new \in 0..issued /\ None \in 0..issued
        BY <2>0, <1>b DEF Allowed, Flight, Tokens, None
      <4> QED BY <4>1, <2>2 DEF TakeTokens, LoggedOut, ClearAuth
    <3>4. ClientOK'
      BY <3>1, <3>3, <1>a, <1>b, StoreType
    <3>5. TableOK' /\ BoundsOK'
      BY <3>1, <1>a, TableStays, BoundsStay
    <3> QED BY ONLY <3>2, <3>4, <3>5, TypePartsNext
  <2>3. CASE RefreshFailed(f, x) \/ CallFails(f, x)
    <3>1. UNCHANGED <<table, expiredTo, active, logouts>> /\ Store(x, None)
      BY <2>3 DEF RefreshFailed, CallFails, ClearAuth
    <3>2. losses' \in 0..MaxLosses
      BY <2>3, <1>a, TokenAssumption DEF RefreshFailed, CallFails, BoundsOK
    <3>3. ClientOK'
      <4>1. None \in 0..issued'
        BY <3>1, <1>b DEF None
      <4> QED BY <3>1, <4>1, <1>a, <1>b, StoreType
    <3>4. FlightOK'
      <4>1. Forget(x) \in [Flights -> Flight] /\ \A g \in Flights : Allowed(Forget(x)[g], issued)
        BY <1>a, FlightForgets
      <4>2. Free \in Flight /\ Allowed(Free, issued)
        BY FreeAllowed, <1>b DEF Allowed
      <4>3. [flight[f] EXCEPT !.tab = {}] \in Flight /\ Allowed([flight[f] EXCEPT !.tab = {}], issued)
        BY ONLY <2>0 DEF Flight, Allowed
      <4>4. CASE flight' = [Forget(x) EXCEPT ![f] = Free]
        BY ONLY <4>1, <4>2, <4>4, <3>1, f \in Flights DEF FlightOK
      <4>5. CASE flight' = Forget(x)
        BY ONLY <4>1, <4>5, <3>1 DEF FlightOK
      <4>6. CASE flight' = [flight EXCEPT ![f].tab = {}]
        <5>1. flight' = [flight EXCEPT ![f] = [flight[f] EXCEPT !.tab = {}]]
          BY <4>6
        <5>2. Moves(f)
          BY ONLY <2>0, <5>1, <4>3, <3>1, f \in Flights DEF Moves, table
        <5> QED BY <5>2, <3>1, <1>a, <1>b, FlightMovesOnly
      <4> QED BY <2>3, <4>4, <4>5, <4>6 DEF RefreshFailed, CallFails
    <3>5. TableOK' /\ BoundsOK'
      BY <3>1, <3>2, <1>a, TableStays DEF BoundsOK
    <3> QED BY ONLY <3>3, <3>4, <3>5, TypePartsNext
  <2> QED BY ONLY <1>3, <2>1, <2>2, <2>3 DEF Call
<1>4. CASE Sweep \/ Expire \/ SetActive
  <2>1. UNCHANGED <<flight, issued, session, revoked, client, losses, logouts>>
    BY <1>4 DEF Sweep, Expire, SetActive
  <2>2. TableOK'
    <3>1. expiredTo' \in 0..issued' /\ rows' \subseteq rows
      BY <1>4, <1>a, <1>b DEF TableOK, Sweep, Expire, SetActive
    <3> QED BY <2>1, <3>1, <1>a DEF TableOK
  <2>3. active' \in BOOLEAN
    BY <1>4, <1>a DEF BoundsOK, Sweep, Expire, SetActive
  <2>4. FlightOK'
    BY <2>1, <1>a, FlightStays
  <2>5. ClientOK' /\ BoundsOK'
    BY <2>1, <2>3, <1>a, ClientStays DEF BoundsOK
  <2> QED BY ONLY <2>2, <2>4, <2>5, TypePartsNext
<1>5. CASE UNCHANGED vars
  BY <1>5, <1>a, <1>c, FlightStays, TableStays DEF vars
<1> QED BY ONLY <1>1, <1>2, <1>3, <1>4, <1>5, [Next]_vars DEF Next

(* Every reachable state is well typed. *)
THEOREM TypeCorrect == Spec => []TypeOK
BY TypeInit, TypeStep, PTL DEF Spec
-----------------------------------------------------------------------------
Holding(f) == flight[f].step \in {"valid", "reused", "revoking"}

(* A row lock has one holder, a row that was read as valid stays live      *)
(* under the lock, and a token descends from a login.                      *)
LockInv ==
    /\ \A f, g \in Flights :
         Holding(f) /\ Holding(g) /\ flight[f].token = flight[g].token => f = g
    /\ \A f \in Flights : flight[f].step = "valid" => flight[f].token \in Live
    /\ \A t \in 1..issued : session[t] \in 1..issued
    /\ OneLivePerSession

(* Steps that give no lock and no token. *)
LEMMA LockStays ==
    ASSUME LockInv, UNCHANGED <<issued, session>>, Live' \subseteq Live,
           \A g \in Flights : Holding(g)' => Holding(g) /\ flight'[g].token = flight[g].token,
           \A g \in Flights : flight'[g].step = "valid"
                              => flight[g].step = "valid" /\ flight[g].token \in Live'
    PROVE  LockInv'
BY DEF LockInv, OneLivePerSession, Holding

LEMMA LockStep == TypeOK /\ LockInv /\ [Next]_vars => LockInv'
<1> SUFFICES ASSUME TypeOK, LockInv, [Next]_vars PROVE LockInv'
  OBVIOUS
<1> USE DEF table, client
<1>a. flight \in [Flights -> Flight] /\ issued \in Nat /\ rows \subseteq 1..issued
  BY IssuedType DEF TypeOK
<1>b. ASSUME UNCHANGED <<rows, revoked, issued, session>>,
             \A g \in Flights : Holding(g)' =>
                /\ Holding(g)
                /\ flight'[g].token = flight[g].token
                /\ (flight'[g].step = "valid") => (flight[g].step = "valid")
      PROVE  LockInv'
  <2>1. Live' = Live
    BY <1>b DEF Live
  <2>2. \A g \in Flights : flight'[g].step = "valid" => Holding(g)'
    BY DEF Holding
  <2>3. \A g \in Flights : flight[g].step = "valid" => flight[g].token \in Live
    BY DEF LockInv
  <2>4. \A g \in Flights : flight'[g].step = "valid"
                            => flight[g].step = "valid" /\ flight[g].token \in Live'
    BY ONLY <1>b, <2>1, <2>2, <2>3
  <2>5. \A g \in Flights : Holding(g)' => Holding(g) /\ flight'[g].token = flight[g].token
    BY <1>b
  <2> QED BY <1>b, <2>1, <2>4, <2>5, LockStays
<1>1. ASSUME NEW f \in Flights, Server(f) PROVE LockInv'
  <2>a. \A g \in Flights \ {f} : flight'[g] = flight[g]
    BY <1>1, <1>a DEF Server, SelectForUpdate, StartRevokeAll, RevokeAll, Refuse, Rotate,
                      RevokeToken, Drop
  <2>1. CASE SelectForUpdate(f)
    <3>1. /\ flight'[f].token = flight[f].token
          /\ flight'[f].step = Found(flight[f].token)
      BY <2>1, <1>a DEF SelectForUpdate, Flight
    <3>2. UNCHANGED <<rows, revoked, issued, session>> /\ ~Locked(flight[f].token)
      BY <2>1 DEF SelectForUpdate
    <3>3. \A g \in Flights : Holding(g) => flight[g].token # flight[f].token
      BY <3>2 DEF Locked, Holds, Holding
    <3>4. flight'[f].step = "valid" => flight[f].token \in Live
      BY <3>1 DEF Found, Live
    <3> QED BY <2>a, <3>1, <3>2, <3>3, <3>4 DEF LockInv, OneLivePerSession, Live, Holding
  <2>2. CASE StartRevokeAll(f)
    <3>1. flight'[f].token = flight[f].token /\ flight'[f].step = "revoking"
          /\ flight[f].step = "reused"
      BY <2>2, <1>a DEF StartRevokeAll, Flight, At
    <3>2. UNCHANGED <<rows, revoked, issued, session>>
      BY <2>2 DEF StartRevokeAll
    <3> QED BY <2>a, <3>1, <3>2, <1>b DEF Holding
  <2>3. CASE RevokeAll(f) \/ Refuse(f) \/ RevokeToken(f)
    <3>1. flight'[f].step \in {"refused", "done"} /\ UNCHANGED <<rows, issued, session>>
      BY <2>3, <1>a DEF RevokeAll, Refuse, RevokeToken, Flight
    <3>2. \A g \in Flights \ {f} : flight[g].step = "valid" => flight[g].token \notin revoked'
      <4>1. SUFFICES ASSUME NEW g \in Flights \ {f}, flight[g].step = "valid"
                     PROVE  flight[g].token \notin revoked'
        OBVIOUS
      <4>2. flight[g].token \notin revoked /\ Locked(flight[g].token)
        BY <4>1 DEF LockInv, Live, Locked, Holds
      <4>3. CASE RevokeAll(f)
        BY <4>2, <4>3 DEF RevokeAll
      <4>4. CASE Refuse(f)
        <5>1. Holding(f) /\ Holding(g)
          BY <4>1, <4>4 DEF Refuse, At, Holding
        <5>2. flight[f].token # flight[g].token
          BY <5>1 DEF LockInv
        <5> QED BY <4>2, <4>4, <5>2 DEF Refuse
      <4>5. CASE RevokeToken(f)
        BY <4>2, <4>5 DEF RevokeToken
      <4> QED BY ONLY <2>3, <4>3, <4>4, <4>5
    <3>3. Live' \subseteq Live
      BY <2>3 DEF RevokeAll, Refuse, RevokeToken, Live
    <3>4. \A g \in Flights : Holding(g)' => Holding(g) /\ flight'[g].token = flight[g].token
      BY <2>a, <3>1 DEF Holding
    <3>5. \A g \in Flights : flight'[g].step = "valid"
                              => flight[g].step = "valid" /\ flight[g].token \in Live'
      BY <2>a, <3>1, <3>2 DEF LockInv, Live
    <3> QED BY <3>1, <3>3, <3>4, <3>5, LockStays
  <2>4. CASE Rotate(f)
    <3> DEFINE t == flight[f].token  new == issued + 1
    <3>1. /\ flight[f].step = "valid" /\ flight'[f].step = "ok" /\ issued' = new
          /\ rows' = rows \cup {new} /\ revoked' = revoked \cup {t}
          /\ session' = [session EXCEPT ![new] = session[t]] /\ issued < MaxTokens
      BY <2>4, <1>a DEF Rotate, At, AddRow, Flight
    <3>2. t \in Live /\ t \in 1..issued
      BY <3>1, <1>a DEF LockInv, Live
    <3>3. Live' \subseteq (Live \ {t}) \cup {new}
      BY <3>1 DEF Live
    <3>4. session' [new] = session[t] /\ \A u \in 1..issued : session'[u] = session[u]
      BY <3>1, <1>a, TokenAssumption DEF TypeOK, Tokens
    <3>5. \A u \in Live : u \in 1..issued /\ u # new
      BY <1>a DEF Live
    <3>6. OneLivePerSession'
      <4>1. \A u \in Live \ {t} : session[u] # session[t]
        BY <3>2 DEF LockInv, OneLivePerSession
      <4> QED BY <3>3, <3>4, <3>5, <4>1 DEF LockInv, OneLivePerSession
    <3>7. \A u \in 1..issued' : session'[u] \in 1..issued'
      <4>1. \A u \in 1..issued : session[u] \in 1..issued
        BY DEF LockInv
      <4> QED BY <3>1, <3>2, <3>4, <4>1, <1>a
    <3>8. \A g \in Flights : Holding(g)' => g # f /\ Holding(g) /\ flight'[g] = flight[g]
      BY <2>a, <3>1 DEF Holding
    <3>9. ASSUME NEW g \in Flights, flight'[g].step = "valid" PROVE flight'[g].token \in Live'
      <4>1. g # f /\ Holding(g) /\ flight'[g] = flight[g] /\ Holding(f)
        BY <3>1, <3>8, <3>9 DEF Holding
      <4>2. flight[g].token # t /\ flight[g].token \in Live
        BY <3>9, <4>1 DEF LockInv
      <4> QED BY <3>1, <4>1, <4>2 DEF Live
    <3> QED BY <3>6, <3>7, <3>8, <3>9 DEF LockInv, Holding
  <2>5. CASE Drop(f)
    <3>1. flight'[f].step = "free" /\ UNCHANGED <<rows, revoked, issued, session>>
      BY <2>5, <1>a DEF Drop, Free
    <3> QED BY <2>a, <3>1, <1>b DEF Holding
  <2> QED BY ONLY <1>1, <2>1, <2>2, <2>3, <2>4, <2>5 DEF Server
<1>2. ASSUME NEW x \in Tabs, Page(x) PROVE LockInv'
  <2>1. CASE Login(x)
    <3> DEFINE new == issued + 1
    <3>1. /\ issued' = new /\ rows' = rows \cup {new} /\ UNCHANGED <<revoked, flight>>
          /\ session' = [session EXCEPT ![new] = new] /\ issued < MaxTokens
      BY <2>1 DEF Login, AddRow
    <3>2. session'[new] = new /\ \A u \in 1..issued : session'[u] = session[u]
      BY <3>1, <1>a, TokenAssumption DEF TypeOK, Tokens
    <3>3. \A u \in Live : u \in 1..issued
      BY <1>a DEF Live
    <3>4. Live' \subseteq Live \cup {new} /\ (\A u \in Live : u \in Live')
      BY <3>1 DEF Live
    <3>5. \A u \in 1..issued : session[u] \in 1..issued
      BY DEF LockInv
    <3>6. OneLivePerSession'
      BY <3>2, <3>3, <3>4, <3>5, <1>a DEF LockInv, OneLivePerSession
    <3>7. \A u \in 1..issued' : session'[u] \in 1..issued'
      BY <3>1, <3>2, <3>5, <1>a
    <3> QED BY <3>1, <3>4, <3>6, <3>7 DEF LockInv, Holding
  <2>2. CASE Reload(x)
    BY <2>2, <1>a, <1>b DEF Reload, Forget, Holding, Flight
  <2> QED BY ONLY <1>2, <2>1, <2>2 DEF Page
<1>3. ASSUME NEW f \in Flights, NEW x \in Tabs, Call(f, x) PROVE LockInv'
  <2>1. UNCHANGED <<rows, revoked, issued, session>>
    BY <1>3 DEF Call, StartRefresh, StartLogout, TakeTokens, RefreshFailed, LoggedOut, CallFails
  <2>2. CASE StartRefresh(f, x) \/ StartLogout(f, x)
    BY <2>1, <2>2, <1>a, <1>b DEF StartRefresh, StartLogout, Sent, Holding
  <2>3. CASE TakeTokens(f, x) \/ LoggedOut(f, x)
    BY <2>1, <2>3, <1>a, <1>b DEF TakeTokens, LoggedOut, Free, Holding
  <2>4. CASE RefreshFailed(f, x) \/ CallFails(f, x)
    <3>1. \A g \in Flights : /\ Forget(x)[g].token = flight[g].token
                             /\ Forget(x)[g].step = flight[g].step
      BY <1>a DEF Forget, Flight
    <3>2. Free.step = "free"
      BY DEF Free
    <3>3. \A g \in Flights : \/ flight'[g].step = "free"
                             \/ /\ flight'[g].token = flight[g].token
                                /\ flight'[g].step = flight[g].step
      <4>1. CASE flight' = [Forget(x) EXCEPT ![f] = Free]
        BY <3>1, <3>2, <4>1 DEF Forget
      <4>2. CASE flight' = Forget(x)
        BY <3>1, <4>2
      <4>3. CASE flight' = [flight EXCEPT ![f].tab = {}]
        BY <1>a, <4>3 DEF Flight
      <4> QED BY <2>4, <4>1, <4>2, <4>3 DEF RefreshFailed, CallFails
    <3> QED BY <2>1, <3>3, <1>b DEF Holding
  <2> QED BY ONLY <1>3, <2>2, <2>3, <2>4 DEF Call
<1>4. CASE Sweep
  <2>1. UNCHANGED <<flight, issued, session, revoked>> /\ rows' \subseteq rows
    BY <1>4 DEF Sweep
  <2>2. \A g \in Flights : flight[g].step = "valid" => flight[g].token \in Live'
    <3>1. SUFFICES ASSUME NEW g \in Flights, flight[g].step = "valid"
                   PROVE  flight[g].token \in Live'
      OBVIOUS
    <3>2. flight[g].token \in Live /\ Locked(flight[g].token)
      BY <3>1 DEF LockInv, Locked, Holds
    <3>3. expiredTo \in Int /\ flight[g].token \in Int
      <4>1. expiredTo \in 0..issued
        BY DEF TypeOK
      <4>2. flight[g].token \in 1..issued
        BY <3>2, <1>a DEF Live
      <4> QED BY ONLY <4>1, <4>2, <1>a
    <3> QED BY <1>4, <3>2, <3>3 DEF Sweep, Live
  <2>3. Live' \subseteq Live
    BY <2>1 DEF Live
  <2> QED BY <2>1, <2>2, <2>3, LockStays DEF Holding
<1>5. CASE Expire \/ SetActive \/ UNCHANGED vars
  <2>1. UNCHANGED <<rows, revoked, issued, session, flight>>
    BY <1>5 DEF Expire, SetActive, vars
  <2> QED BY <2>1, <1>b DEF Holding
<1> QED BY ONLY <1>1, <1>2, <1>3, <1>4, <1>5, [Next]_vars DEF Next

LEMMA LockInit == Init => LockInv
BY DEF Init, LockInv, Holding, OneLivePerSession, Live, Free

LEMMA LockAlways == Spec => []LockInv
BY LockInit, LockStep, TypeCorrect, PTL DEF Spec

(* A login has at most one live token. *)
THEOREM OneLiveToken == Spec => []OneLivePerSession
<1>1. LockInv => OneLivePerSession
  BY DEF LockInv
<1> QED BY <1>1, LockAlways, PTL
-----------------------------------------------------------------------------
(* Only a login and the rotation of a live token add a live token. *)
LEMMA EndStep ==
    TypeOK /\ LockInv /\ [Next]_vars
        => \A s \in 1..issued : LiveIn(s) = {} => LiveIn(s)' = {}
<1> SUFFICES ASSUME TypeOK, LockInv, [Next]_vars, NEW s \in 1..issued, LiveIn(s) = {}
             PROVE  LiveIn(s)' = {}
  OBVIOUS
<1> USE DEF table, client
<1>a. issued \in Nat /\ rows \subseteq 1..issued
  BY IssuedType DEF TypeOK
<1>b. ASSUME Live' \subseteq Live, UNCHANGED session PROVE LiveIn(s)' = {}
  BY <1>b DEF LiveIn
<1>c. ASSUME UNCHANGED <<rows, revoked, session>> PROVE LiveIn(s)' = {}
  BY <1>b, <1>c DEF Live
<1>1. ASSUME NEW f \in Flights, Server(f) PROVE LiveIn(s)' = {}
  <2>1. CASE Rotate(f)
    <3> DEFINE t == flight[f].token  new == issued + 1
    <3>1. /\ flight[f].step = "valid" /\ rows' = rows \cup {new} /\ revoked' = revoked \cup {t}
          /\ session' = [session EXCEPT ![new] = session[t]] /\ issued < MaxTokens
      BY <2>1 DEF Rotate, At, AddRow
    <3>2. t \in Live /\ session[t] # s
      BY <3>1 DEF LockInv, LiveIn
    <3>3. session'[new] # s /\ \A u \in 1..issued : session'[u] = session[u]
      BY <3>1, <3>2, <1>a, TokenAssumption DEF TypeOK, Tokens
    <3>4. Live' \subseteq Live \cup {new} /\ \A u \in Live : u \in 1..issued
      BY <3>1, <1>a DEF Live
    <3> QED BY <3>3, <3>4 DEF LiveIn
  <2>2. CASE ~Rotate(f)
    <3>1. Live' \subseteq Live /\ UNCHANGED session
      BY <1>1, <2>2 DEF Server, SelectForUpdate, StartRevokeAll, RevokeAll, Refuse,
                        RevokeToken, Drop, Live
    <3> QED BY <3>1, <1>b
  <2> QED BY <2>1, <2>2
<1>2. ASSUME NEW x \in Tabs, Page(x) PROVE LiveIn(s)' = {}
  <2>1. CASE Login(x)
    <3> DEFINE new == issued + 1
    <3>1. /\ rows' = rows \cup {new} /\ UNCHANGED revoked
          /\ session' = [session EXCEPT ![new] = new] /\ issued < MaxTokens
      BY <2>1 DEF Login, AddRow
    <3>2. session'[new] # s /\ \A u \in 1..issued : session'[u] = session[u]
      BY <3>1, <1>a, TokenAssumption DEF TypeOK, Tokens
    <3>3. Live' \subseteq Live \cup {new} /\ \A u \in Live : u \in 1..issued
      BY <3>1, <1>a DEF Live
    <3> QED BY <3>2, <3>3 DEF LiveIn
  <2>2. CASE Reload(x)
    BY <2>2, <1>c DEF Reload
  <2> QED BY ONLY <1>2, <2>1, <2>2 DEF Page
<1>3. ASSUME NEW f \in Flights, NEW x \in Tabs, Call(f, x) PROVE LiveIn(s)' = {}
  BY <1>3, <1>c DEF Call, StartRefresh, StartLogout, TakeTokens, RefreshFailed, LoggedOut,
                    CallFails
<1>4. CASE Sweep
  BY <1>4, <1>b DEF Sweep, Live
<1>5. CASE Expire \/ SetActive \/ UNCHANGED vars
  BY <1>5, <1>c DEF Expire, SetActive, vars
<1> QED BY ONLY <1>1, <1>2, <1>3, <1>4, <1>5, [Next]_vars DEF Next

(* A session without a live token never gets one again. *)
THEOREM EndedStaysEnded == Spec => SessionEndIsFinal
BY TypeCorrect, LockAlways, EndStep, PTL DEF Spec, SessionEndIsFinal
-----------------------------------------------------------------------------
(* One tab for each browser, no call lost, no logout so far.               *)
Calm == NumTabs = 1 /\ losses = MaxLosses /\ logouts = MaxLogouts

Busy(f) == flight[f].step # "free"
Answering(f, x) == flight[f].tab = {x} /\ flight[f].step \in {"ok", "refused"}

(* A call is a refresh of one tab, which still holds the token it sent; a  *)
(* new token on its way back is nobody's yet, and unrevoked.               *)
Honest(f) ==
    /\ flight[f].kind = "refresh"
    /\ flight[f].step \in {"free", "sent", "valid", "ok", "refused"}
    /\ Busy(f) => \E x \in Tabs : flight[f].tab = {x} /\ flight[f].token = cached[x]
    /\ flight[f].step = "ok" =>
          flight[f].new \notin revoked /\ \A x \in Tabs : cached[x] # flight[f].new

FlightsDiffer ==
    \A f, g \in Flights :
       /\ Busy(f) /\ Busy(g) /\ flight[f].tab = flight[g].tab => f = g
       /\ flight[f].step = "ok" /\ flight[g].step = "ok" /\ flight[f].new = flight[g].new
             => f = g

TabsDiffer ==
    \A x, y \in Tabs : cached[x] = cached[y] /\ cached[x] # None => x = y

(* A tab holds what its browser stores; if that is revoked, the answer     *)
(* which replaces or clears it is on its way.                              *)
TabHeld(x) ==
    /\ cached[x] = stored[x[1]]
    /\ cached[x] \in revoked => \E f \in Flights : Answering(f, x)

CalmInv == /\ \A f \in Flights : Honest(f)
           /\ FlightsDiffer /\ TabsDiffer
           /\ \A x \in Tabs : TabHeld(x)

AlarmInv == Calm => CalmInv

LEMMA OneTab == NumTabs = 1 => \A x, y \in Tabs : x[1] = y[1] => x = y
BY DEF Tabs

LEMMA StaysCalm ==
    ASSUME TypeOK, [Next]_vars, Calm'
    PROVE  Calm /\ UNCHANGED <<losses, logouts>>
<1>0. losses \in Nat /\ losses <= MaxLosses /\ logouts \in Nat /\ logouts <= MaxLogouts
      /\ MaxLosses \in Nat /\ MaxLogouts \in Nat
  BY TokenAssumption DEF TypeOK
<1>1. ASSUME NEW f \in Flights, Server(f) PROVE UNCHANGED <<losses, logouts>>
  BY <1>1 DEF Server, SelectForUpdate, StartRevokeAll, RevokeAll, Refuse, Rotate,
              RevokeToken, Drop
<1>2. ASSUME NEW x \in Tabs, Page(x) PROVE UNCHANGED <<losses, logouts>>
  BY <1>0, <1>2 DEF Page, Login, Reload, Calm
<1>3. ASSUME NEW f \in Flights, NEW x \in Tabs, Call(f, x) PROVE UNCHANGED <<losses, logouts>>
  BY <1>0, <1>3 DEF Call, StartRefresh, StartLogout, TakeTokens, RefreshFailed, LoggedOut,
                    CallFails, Calm
<1>4. ASSUME Sweep \/ Expire \/ SetActive \/ UNCHANGED vars
      PROVE  UNCHANGED <<losses, logouts>>
  BY <1>4 DEF Sweep, Expire, SetActive, vars
<1>5. UNCHANGED <<losses, logouts>>
  BY ONLY <1>1, <1>2, <1>3, <1>4, [Next]_vars DEF Next
<1> QED BY <1>5 DEF Calm

(* The calls under way are the same, and the tabs hold what they held.     *)
LEMMA CalmSame ==
    ASSUME CalmInv, UNCHANGED <<cached, stored, revoked>>,
           \A g \in Flights : IF Busy(g) THEN flight'[g] = flight[g]
                              ELSE flight'[g].step = "free" /\ flight'[g].kind = "refresh"
    PROVE  CalmInv'
<1>1. \A f \in Flights : Honest(f)'
  BY DEF CalmInv, Honest, Busy
<1>2. FlightsDiffer' /\ TabsDiffer'
  BY DEF CalmInv, FlightsDiffer, TabsDiffer, Busy
<1>3. \A x \in Tabs : TabHeld(x)'
  BY DEF CalmInv, TabHeld, Answering, Busy
<1> QED BY <1>1, <1>2, <1>3 DEF CalmInv

(* A call goes on without a new token, which revokes its own at most.      *)
LEMMA CalmGoesOn ==
    ASSUME CalmInv, TypeOK, NEW f \in Flights, flight[f].step \in {"sent", "valid"},
           NEW st \in {"valid", "refused"}, flight' = [flight EXCEPT ![f].step = st],
           UNCHANGED <<cached, stored>>,
           \/ UNCHANGED revoked
           \/ st = "refused" /\ revoked' = revoked \cup {flight[f].token}
    PROVE  CalmInv'
<1>0. flight \in [Flights -> Flight]
  BY DEF TypeOK
<1>1. /\ flight'[f] = [flight[f] EXCEPT !.step = st]
      /\ \A g \in Flights \ {f} : flight'[g] = flight[g]
  BY <1>0
<1>2. PICK x \in Tabs : flight[f].tab = {x} /\ flight[f].token = cached[x]
  BY DEF CalmInv, Honest, Busy
<1>a. /\ flight'[f].step = st /\ flight'[f].kind = flight[f].kind
      /\ flight'[f].tab = flight[f].tab /\ flight'[f].token = flight[f].token
  BY ONLY <1>0, <1>1, f \in Flights DEF Flight
<1>3. \A g \in Flights : Honest(g)'
  <2>1. Honest(f)'
    BY <1>a, <1>2 DEF CalmInv, Honest, Busy
  <2>2. ASSUME NEW g \in Flights \ {f} PROVE Honest(g)'
    <3>1. Honest(g)
      BY DEF CalmInv
    <3> QED BY <1>1, <1>2, <3>1 DEF Honest, Busy
  <2> QED BY <2>1, <2>2
<1>4. FlightsDiffer'
  BY <1>1, <1>a DEF CalmInv, FlightsDiffer, Busy
<1>5. TabsDiffer'
  BY DEF CalmInv, TabsDiffer
<1>6. ASSUME NEW y \in Tabs PROVE TabHeld(y)'
  <2>1. TabHeld(y)
    BY DEF CalmInv
  <2>2. CASE cached[y] \in revoked
    <3>1. PICK g \in Flights : Answering(g, y)
      BY <2>1, <2>2 DEF TabHeld
    <3>2. g # f
      BY <3>1 DEF Answering
    <3> QED BY <1>1, <2>1, <3>1, <3>2 DEF TabHeld, Answering
  <2>3. CASE cached[y] \notin revoked /\ cached[y] \in revoked'
    <3>1. cached[y] = cached[x] /\ st = "refused"
      BY <1>2, <2>3
    <3>2. cached[x] # None
      BY <1>2 DEF TypeOK
    <3>3. y = x
      BY <3>1, <3>2 DEF CalmInv, TabsDiffer
    <3> QED BY <1>a, <1>2, <2>1, <3>1, <3>3 DEF TabHeld, Answering
  <2> QED BY <2>1, <2>2, <2>3 DEF TabHeld
<1> QED BY <1>3, <1>4, <1>5, <1>6 DEF CalmInv

(* A tab, which waits for nothing any more, stores a token that nobody has *)
(* or none at all.                                                         *)
LEMMA CalmStores ==
    ASSUME CalmInv, TypeOK, NumTabs = 1, NEW x \in Tabs, NEW t, Store(x, t),
           t \notin revoked, UNCHANGED revoked,
           t # None => \A y \in Tabs : cached[y] # t,
           \A g \in Flights :
              IF Busy(g) /\ flight[g].tab # {x}
              THEN flight'[g] = flight[g] /\ (flight[g].step = "ok" => flight[g].new # t)
              ELSE flight'[g].step = "free" /\ flight'[g].kind = "refresh"
    PROVE  CalmInv'
<1>0. /\ cached'[x] = t /\ stored'[x[1]] = t
      /\ \A y \in Tabs \ {x} : cached'[y] = cached[y] /\ stored'[y[1]] = stored[y[1]]
  <2>1. \A y \in Tabs : y[1] \in Browsers
    BY DEF Tabs
  <2>2. cached \in [Tabs -> 0..issued] /\ stored \in [Browsers -> 0..issued]
    BY DEF TypeOK
  <2> QED BY <2>1, <2>2, OneTab DEF Store
<1>1. ASSUME NEW g \in Flights PROVE Honest(g)'
  <2>1. Honest(g)
    BY DEF CalmInv
  <2>2. CASE Busy(g) /\ flight[g].tab # {x}
    <3>1. PICK y \in Tabs : flight[g].tab = {y} /\ flight[g].token = cached[y]
      BY <2>1, <2>2 DEF Honest
    <3>2. y # x /\ cached'[y] = cached[y]
      BY <1>0, <2>2, <3>1
    <3> QED BY <1>0, <2>1, <2>2, <3>1, <3>2 DEF Honest, Busy
  <2>3. CASE ~(Busy(g) /\ flight[g].tab # {x})
    BY <2>3 DEF Honest, Busy
  <2> QED BY <2>2, <2>3
<1>2. FlightsDiffer'
  BY DEF CalmInv, FlightsDiffer, Busy
<1>3. TabsDiffer'
  BY <1>0 DEF CalmInv, TabsDiffer
<1>4. ASSUME NEW y \in Tabs PROVE TabHeld(y)'
  <2>1. TabHeld(y)
    BY DEF CalmInv
  <2>2. CASE y = x
    BY <1>0, <2>2 DEF TabHeld
  <2>3. CASE y # x
    <3>1. cached'[y] = stored'[y[1]]
      BY <1>0, <2>1, <2>3 DEF TabHeld
    <3>2. ASSUME cached[y] \in revoked PROVE \E g \in Flights : Answering(g, y)'
      <4>1. PICK g \in Flights : Answering(g, y)
        BY <2>1, <3>2 DEF TabHeld
      <4>2. Busy(g) /\ flight[g].tab # {x}
        BY <2>3, <4>1 DEF Answering, Busy
      <4> QED BY <4>1, <4>2 DEF Answering
    <3> QED BY <1>0, <2>3, <3>1, <3>2 DEF TabHeld
  <2> QED BY <2>2, <2>3
<1> QED BY <1>1, <1>2, <1>3, <1>4 DEF CalmInv

LEMMA CalmRotates ==
    ASSUME CalmInv, TypeOK, NEW f \in Flights, Rotate(f)
    PROVE  CalmInv'
<1>0. flight \in [Flights -> Flight] /\ issued \in Nat /\ flight[f].step = "valid"
  BY TokenAssumption DEF TypeOK, Rotate, At
<1>1. /\ flight'[f] = [flight[f] EXCEPT !.step = "ok", !.new = issued + 1]
      /\ \A g \in Flights \ {f} : flight'[g] = flight[g]
      /\ revoked' = revoked \cup {flight[f].token}
      /\ UNCHANGED <<cached, stored>>
  BY <1>0 DEF Rotate, client
<1>2. PICK x \in Tabs : flight[f].tab = {x} /\ flight[f].token = cached[x]
  BY <1>0 DEF CalmInv, Honest, Busy
<1>a. /\ flight'[f].step = "ok" /\ flight'[f].kind = flight[f].kind
      /\ flight'[f].tab = flight[f].tab /\ flight'[f].token = flight[f].token
      /\ flight'[f].new = issued + 1
  BY ONLY <1>0, <1>1, f \in Flights DEF Flight
<1>b. /\ issued + 1 \notin revoked'
      /\ \A y \in Tabs : cached[y] # issued + 1
      /\ \A g \in Flights : flight[g].new # issued + 1
  <2>1. /\ revoked \subseteq 1..issued /\ cached \in [Tabs -> 0..issued]
        /\ \A g \in Flights : flight[g].new <= issued /\ flight[g].token <= issued
    BY DEF TypeOK
  <2> QED BY ONLY <2>1, <1>0, <1>1, f \in Flights
<1>3. ASSUME NEW g \in Flights PROVE Honest(g)'
  <2>1. CASE g = f
    BY <1>1, <1>a, <1>b, <1>2, <2>1 DEF CalmInv, Honest, Busy
  <2>2. CASE g # f
    <3>1. Honest(g)
      BY DEF CalmInv
    <3> QED BY <1>1, <1>2, <2>2, <3>1 DEF Honest, Busy
  <2> QED BY <2>1, <2>2
<1>4. FlightsDiffer'
  <2>1. FlightsDiffer
    BY DEF CalmInv
  <2>2. \A g \in Flights : Busy(g)' = Busy(g) /\ flight'[g].tab = flight[g].tab
    BY <1>0, <1>1, <1>a DEF Busy
  <2>3. \A g \in Flights \ {f} : flight'[g].new # flight'[f].new
    BY <1>1, <1>a, <1>b
  <2> QED BY <1>1, <2>1, <2>2, <2>3 DEF FlightsDiffer
<1>5. TabsDiffer'
  BY <1>1 DEF CalmInv, TabsDiffer
<1>6. ASSUME NEW y \in Tabs PROVE TabHeld(y)'
  <2>1. TabHeld(y)
    BY DEF CalmInv
  <2>2. CASE cached[y] \in revoked
    <3>1. PICK g \in Flights : Answering(g, y)
      BY <2>1, <2>2 DEF TabHeld
    <3>2. g # f
      BY <1>0, <3>1 DEF Answering
    <3> QED BY <1>1, <2>1, <3>1, <3>2 DEF TabHeld, Answering
  <2>3. CASE cached[y] \notin revoked /\ cached[y] \in revoked'
    <3>1. cached[y] = cached[x]
      BY <1>1, <1>2, <2>3
    <3>2. cached[x] # None
      BY <1>0, <1>2 DEF TypeOK
    <3>3. y = x
      BY <3>1, <3>2 DEF CalmInv, TabsDiffer
    <3> QED BY <1>1, <1>a, <1>2, <2>1, <3>3 DEF TabHeld, Answering
  <2> QED BY <1>1, <2>1, <2>2, <2>3 DEF TabHeld
<1> QED BY <1>3, <1>4, <1>5, <1>6 DEF CalmInv

LEMMA CalmStarts ==
    ASSUME CalmInv, TypeOK, NEW f \in Flights, NEW x \in Tabs, StartRefresh(f, x)
    PROVE  CalmInv'
<1>0. flight \in [Flights -> Flight] /\ flight[f] = Free
  BY DEF TypeOK, StartRefresh
<1>1. /\ flight'[f] = Sent("refresh", x)
      /\ \A g \in Flights \ {f} : flight'[g] = flight[g]
      /\ UNCHANGED <<revoked, cached, stored>>
  BY <1>0 DEF StartRefresh, client, table
<1>2. \A g \in Flights : Busy(g) => flight[g].tab # {x}
  BY DEF StartRefresh, InAir, CalmInv, Honest, Busy
<1>a. /\ flight'[f].step = "sent" /\ flight'[f].kind = "refresh"
      /\ flight'[f].tab = {x} /\ flight'[f].token = cached[x]
  BY ONLY <1>1 DEF Sent
<1>3. ASSUME NEW g \in Flights PROVE Honest(g)'
  <2>1. Honest(g)
    BY DEF CalmInv
  <2> QED BY <1>1, <1>a, <2>1 DEF Honest, Busy
<1>4. FlightsDiffer'
  BY <1>1, <1>2, <1>a DEF CalmInv, FlightsDiffer, Busy
<1>5. TabsDiffer'
  BY <1>1 DEF CalmInv, TabsDiffer
<1>6. ASSUME NEW y \in Tabs PROVE TabHeld(y)'
  <2>1. TabHeld(y)
    BY DEF CalmInv
  <2>2. \A g \in Flights : Answering(g, y) => Answering(g, y)'
    BY <1>0, <1>1 DEF Answering, Free
  <2> QED BY <1>1, <2>1, <2>2 DEF TabHeld
<1> QED BY <1>3, <1>4, <1>5, <1>6 DEF CalmInv

LEMMA AlarmStep == TypeOK /\ AlarmInv /\ [Next]_vars => AlarmInv'
<1> SUFFICES ASSUME TypeOK, AlarmInv, [Next]_vars, Calm' PROVE CalmInv'
  BY DEF AlarmInv
<1>a. Calm /\ UNCHANGED <<losses, logouts>> /\ CalmInv
  BY StaysCalm DEF AlarmInv
<1>b. /\ flight \in [Flights -> Flight]
      /\ \A f \in Flights : Honest(f)
      /\ \A f \in Flights : Busy(f) => \E x \in Tabs : flight[f].tab = {x}
      /\ losses \in Int /\ logouts \in Int
  BY <1>a DEF TypeOK, CalmInv, Honest
<1>1. ASSUME NEW f \in Flights, Server(f) PROVE CalmInv'
  <2>1. CASE SelectForUpdate(f)
    <3>1. flight[f].step = "sent" /\ flight' = [flight EXCEPT ![f].step = Found(flight[f].token)]
          /\ UNCHANGED <<revoked, cached, stored>>
      BY <2>1 DEF SelectForUpdate, At, table, client
    <3>2. PICK x \in Tabs : flight[f].tab = {x} /\ flight[f].token = cached[x]
      BY <1>b, <3>1 DEF Honest, Busy
    <3>3. cached[x] \notin revoked
      <4>1. ASSUME NEW g \in Flights, Answering(g, x) PROVE FALSE
        <5>1. g = f
          BY <1>a, <3>1, <3>2, <4>1 DEF CalmInv, FlightsDiffer, Answering, Busy
        <5> QED BY <3>1, <4>1, <5>1 DEF Answering
      <4> QED BY <1>a, <4>1 DEF CalmInv, TabHeld
    <3>4. Found(flight[f].token) \in {"valid", "refused"}
      BY <3>2, <3>3 DEF Found
    <3> QED BY <1>a, <3>1, <3>4, CalmGoesOn
  <2>2. CASE Refuse(f)
    BY <1>a, <2>2, CalmGoesOn DEF Refuse, At, client
  <2>3. CASE Rotate(f)
    BY <1>a, <2>3, CalmRotates
  <2>4. CASE StartRevokeAll(f) \/ RevokeAll(f) \/ RevokeToken(f) \/ Drop(f)
    BY <1>b, <2>4 DEF StartRevokeAll, RevokeAll, RevokeToken, Drop, At, Honest, Busy
  <2> QED BY ONLY <1>1, <2>1, <2>2, <2>3, <2>4 DEF Server
<1>2. ASSUME NEW x \in Tabs, Login(x) PROVE CalmInv'
  <2>0. issued \in Nat /\ revoked \subseteq 1..issued /\ cached \in [Tabs -> 0..issued]
        /\ \A g \in Flights : flight[g].new <= issued
    BY TokenAssumption DEF TypeOK
  <2>1. /\ Store(x, issued + 1) /\ UNCHANGED <<revoked, flight>> /\ cached[x] = None
    BY <1>2 DEF Login
  <2>2. /\ issued + 1 \notin revoked /\ \A y \in Tabs : cached[y] # issued + 1
        /\ \A g \in Flights : flight[g].new # issued + 1
    BY ONLY <2>0
  <2>3. \A g \in Flights : Busy(g) => flight[g].tab # {x}
    BY <1>b, <2>1 DEF Honest, Busy, TypeOK
  <2> QED BY <1>a, <1>b, <2>1, <2>2, <2>3, CalmStores DEF Calm, Honest, Busy
<1>3. ASSUME NEW x \in Tabs, Reload(x) PROVE CalmInv'
  <2>1. InAir(x) = {} /\ UNCHANGED <<revoked, stored>>
        /\ cached' = [cached EXCEPT ![x] = stored[x[1]]] /\ flight' = Forget(x)
    BY <1>a, <1>b, <1>3 DEF Reload, table
  <2>2. UNCHANGED cached
    BY <1>a, <2>1 DEF CalmInv, TabHeld, TypeOK
  <2>3. ASSUME NEW g \in Flights, Busy(g) PROVE flight'[g] = flight[g]
    <3>1. flight[g].tab \ {x} = flight[g].tab
      BY <1>b, <2>1, <2>3 DEF InAir, Busy
    <3>2. [flight[g] EXCEPT !.tab = flight[g].tab \ {x}] = flight[g]
      BY ONLY <1>b, <3>1 DEF Flight
    <3> QED BY <2>1, <3>2 DEF Forget
  <2>4. ASSUME NEW g \in Flights, ~Busy(g)
        PROVE  flight'[g].step = "free" /\ flight'[g].kind = "refresh"
    BY <1>b, <2>1, <2>4 DEF Forget, Busy, Honest, Flight
  <2> QED BY ONLY <1>a, <2>1, <2>2, <2>3, <2>4, CalmSame
<1>4. ASSUME NEW f \in Flights, NEW x \in Tabs, Call(f, x) PROVE CalmInv'
  <2>1. CASE StartRefresh(f, x)
    BY <1>a, <2>1, CalmStarts
  <2>2. CASE StartLogout(f, x) \/ LoggedOut(f, x) \/ CallFails(f, x)
    BY <1>a, <1>b, <2>2 DEF StartLogout, LoggedOut, CallFails, At, Honest
  <2>a. \A g \in Flights : Busy(f) /\ Busy(g) /\ flight[f].tab = flight[g].tab => f = g
    BY <1>a DEF CalmInv, FlightsDiffer
  <2>3. CASE TakeTokens(f, x)
    <3>1. /\ flight[f].step = "ok" /\ x \in flight[f].tab /\ Store(x, flight[f].new)
          /\ flight' = [flight EXCEPT ![f] = Free] /\ UNCHANGED revoked
      BY <2>3 DEF TakeTokens, At, table
    <3>2. flight[f].tab = {x} /\ Busy(f)
      BY <1>b, <3>1 DEF Busy
    <3>3. flight[f].new \notin revoked /\ \A y \in Tabs : cached[y] # flight[f].new
      BY <1>b, <3>1 DEF Honest
    <3>4. \A g \in Flights \ {f} : flight[g].step = "ok" => flight[g].new # flight[f].new
      BY <1>a, <3>1 DEF CalmInv, FlightsDiffer
    <3>5. ASSUME NEW g \in Flights
          PROVE  IF Busy(g) /\ flight[g].tab # {x}
                 THEN /\ flight'[g] = flight[g]
                      /\ flight[g].step = "ok" => flight[g].new # flight[f].new
                 ELSE flight'[g].step = "free" /\ flight'[g].kind = "refresh"
      BY <1>b, <2>a, <3>1, <3>2, <3>4 DEF Honest, Busy, Free
    <3> QED BY <1>a, <3>1, <3>3, <3>5, CalmStores DEF Calm
  <2>4. CASE RefreshFailed(f, x)
    <3>1. /\ flight[f].step = "refused" /\ x \in flight[f].tab /\ Store(x, None)
          /\ flight' = [Forget(x) EXCEPT ![f] = Free] /\ UNCHANGED revoked
      BY <2>4 DEF RefreshFailed, ClearAuth, At, table
    <3>2. flight[f].tab = {x} /\ Busy(f)
      BY <1>b, <3>1 DEF Busy
    <3>3. None \notin revoked
      BY DEF TypeOK, None
    <3>4. /\ flight'[f] = Free
          /\ \A g \in Flights \ {f} : flight'[g] = [flight[g] EXCEPT !.tab = flight[g].tab \ {x}]
      BY <1>b, <3>1 DEF Forget
    <3>5. ASSUME NEW g \in Flights
          PROVE  IF Busy(g) /\ flight[g].tab # {x}
                 THEN /\ flight'[g] = flight[g]
                      /\ flight[g].step = "ok" => flight[g].new # None
                 ELSE flight'[g].step = "free" /\ flight'[g].kind = "refresh"
      <4>1. CASE Busy(g) /\ flight[g].tab # {x}
        <5>1. g # f /\ flight[g].tab \ {x} = flight[g].tab
          BY <1>b, <3>2, <4>1
        <5>2. [flight[g] EXCEPT !.tab = flight[g].tab \ {x}] = flight[g]
          BY ONLY <1>b, <5>1 DEF Flight
        <5> QED BY <3>4, <4>1, <5>1, <5>2 DEF TypeOK
      <4>2. CASE Busy(g) /\ flight[g].tab = {x}
        BY <2>a, <3>2, <3>4, <4>2 DEF Free
      <4>3. CASE ~Busy(g)
        <5>1. g # f /\ flight[g] \in Flight /\ flight[g].kind = "refresh"
              /\ flight[g].step = "free"
          BY <1>b, <3>2, <4>3 DEF Busy, Honest
        <5>2. /\ [flight[g] EXCEPT !.tab = flight[g].tab \ {x}].step = "free"
              /\ [flight[g] EXCEPT !.tab = flight[g].tab \ {x}].kind = "refresh"
          BY ONLY <5>1 DEF Flight
        <5> QED BY <3>4, <4>3, <5>1, <5>2
      <4> QED BY <4>1, <4>2, <4>3
    <3> QED BY <1>a, <3>1, <3>3, <3>5, CalmStores DEF Calm
  <2> QED BY ONLY <1>4, <2>1, <2>2, <2>3, <2>4 DEF Call
<1>5. CASE Sweep \/ Expire \/ SetActive \/ UNCHANGED vars
  <2>1. UNCHANGED <<cached, stored, revoked, flight>>
    BY <1>5 DEF Sweep, Expire, SetActive, vars, table, client
  <2> QED BY <1>a, <1>b, <2>1, CalmSame DEF Honest, Busy
<1> QED BY ONLY <1>1, <1>2, <1>3, <1>4, <1>5, [Next]_vars DEF Next, Page

(* One tab for each browser, no logout and no lost answer: no page ever    *)
(* presents a token that was rotated before.                               *)
THEOREM NoTheftSeen == Spec => []NoFalseAlarm
<1>1. Init => AlarmInv
  <2> SUFFICES ASSUME Init PROVE CalmInv
    BY DEF AlarmInv
  <2>1. \A f \in Flights : flight[f] = Free
    BY DEF Init
  <2>2. \A x \in Tabs : x[1] \in Browsers
    BY DEF Tabs
  <2> QED BY <2>1, <2>2 DEF Init, CalmInv, Honest, FlightsDiffer, TabsDiffer, TabHeld, Busy, Free
<1>2. AlarmInv => NoFalseAlarm
  BY DEF AlarmInv, Calm, CalmInv, Honest, NoFalseAlarm
<1> QED BY <1>1, <1>2, TypeCorrect, AlarmStep, PTL DEF Spec
=============================================================================
