-------------------------- MODULE PermissionProofs --------------------------
(***************************************************************************)
(* No tool that needs permission runs without the user's approval of that  *)
(* call, for any number of calls, pages, faults and reloads.               *)
(***************************************************************************)
EXTENDS Permission, TLAPS

LEMMA FaultType == TypeOK /\ Fault => faults' \in 0..MaxFaults
BY PermissionAssumption DEF TypeOK, Fault

LEMMA DenyType ==
    ASSUME TypeOK, NEW r \in Requests, Deny(r)
    PROVE  verdict' \in [Requests -> {"none", "pending", "allow", "deny"}]
BY DEF TypeOK, Deny

(* A reply record changes in place, or is forgotten. *)
LEMMA ReplyType ==
    ASSUME TypeOK, NEW d \in Devices
    PROVE  /\ NoReply \in Reply
           /\ reply[d] \in Reply
           /\ \A st \in {"check", "publish", "return", "refused"} :
                 [reply[d] EXCEPT !.step = st] \in Reply
BY DEF TypeOK, Reply, NoReply, Nothing, Answers

(* The two ways in which the reply of one page changes. *)
LEMMA ReplyForgotten ==
    ASSUME TypeOK, NEW d \in Devices, reply' = [reply EXCEPT ![d] = NoReply]
    PROVE  /\ reply' \in [Devices -> Reply]
           /\ \A e \in Devices : reply'[e].step # "none" => reply'[e].request # Nothing
<1>1. NoReply \in Reply /\ NoReply.step = "none"
  BY DEF NoReply, Reply, Answers
<1>2. /\ reply \in [Devices -> Reply]
      /\ \A e \in Devices : reply[e].step # "none" => reply[e].request # Nothing
  BY DEF TypeOK
<1> QED BY ONLY <1>1, <1>2, d \in Devices, reply' = [reply EXCEPT ![d] = NoReply]

LEMMA ReplySteps ==
    ASSUME TypeOK, NEW d \in Devices, reply[d].step # "none",
           NEW st \in {"check", "publish", "return", "refused"},
           reply' = [reply EXCEPT ![d].step = st]
    PROVE  /\ reply' \in [Devices -> Reply]
           /\ \A e \in Devices : reply'[e].step # "none" => reply'[e].request # Nothing
<1>1. /\ reply \in [Devices -> Reply]
      /\ \A e \in Devices : reply[e].step # "none" => reply[e].request # Nothing
  BY DEF TypeOK
<1>2. [reply[d] EXCEPT !.step = st] \in Reply
  BY ReplyType
<1>3. [reply[d] EXCEPT !.step = st].request = reply[d].request
  BY <1>1 DEF Reply
<1>4. reply' = [reply EXCEPT ![d] = [reply[d] EXCEPT !.step = st]]
  OBVIOUS
<1> QED BY ONLY <1>1, <1>2, <1>3, <1>4, d \in Devices, reply[d].step # "none"

LEMMA TypeInit == Init => TypeOK
<1> SUFFICES ASSUME Init PROVE TypeOK
  OBVIOUS
<1>1. NoReply \in Reply /\ NoReply.step = "none"
  BY DEF NoReply, Reply, Answers
<1>2. faults \in 0..MaxFaults /\ reloads \in 0..MaxReloads
  BY PermissionAssumption DEF Init
<1> QED BY <1>1, <1>2 DEF Init, TypeOK

LEMMA TypeStep == TypeOK /\ [Next]_vars => TypeOK'
<1> SUFFICES ASSUME TypeOK, [Next]_vars PROVE TypeOK'
  OBVIOUS
<1> USE DEF calls, redis, pages
<1>1. ASSUME NEW r \in Requests, NEW isPlanTool \in BOOLEAN, CallTool(r, isPlanTool)
      PROVE  TypeOK'
  BY <1>1 DEF CallTool, TypeOK
<1>2. ASSUME NEW r \in Requests, CallFails(r) \/ KeyExpires(r) PROVE TypeOK'
  <2>1. faults' \in 0..MaxFaults
    BY <1>2, FaultType DEF CallFails, KeyExpires, TypeOK
  <2> QED BY <1>2, <2>1 DEF CallFails, KeyExpires, TypeOK
<1>3. ASSUME NEW r \in Requests, Create(r) PROVE TypeOK'
  <2>1. CASE StoreRequest(r)
    BY <2>1 DEF StoreRequest, TypeOK
  <2>2. CASE PublishRequest(r)
    <3>1. faults' \in 0..MaxFaults
      BY <2>2, FaultType DEF PublishRequest, TypeOK
    <3>2. events' \in Seq(Requests)
      <4>1. events \in Seq(Requests) /\ (events' = Append(events, r) \/ events' = events)
        BY <2>2 DEF PublishRequest, TypeOK
      <4> QED BY ONLY <4>1, r \in Requests
    <3>3. create' \in [Requests -> {"none", "store", "publish", "created", "failed"}]
      BY <2>2 DEF PublishRequest, TypeOK
    <3>4. UNCHANGED <<mode, planTool, verdict, wait, keys, heard, pages, reloads>>
      BY <2>2 DEF PublishRequest
    <3> QED BY ONLY TypeOK, <3>1, <3>2, <3>3, <3>4 DEF TypeOK, pages
  <2>3. CASE CreateFails(r)
    BY <2>3, FaultType, DenyType DEF CreateFails, TypeOK
  <2> QED BY ONLY <1>3, <2>1, <2>2, <2>3 DEF Create
<1>4. ASSUME NEW r \in Requests, Wait(r) PROVE TypeOK'
  <2>1. CASE StartWait(r) \/ RefreshTTL(r) \/ Subscribe(r)
    BY <2>1 DEF StartWait, RefreshTTL, Subscribe, TypeOK
  <2>2. CASE GetRequest(r)
    <3>1. verdict' \in [Requests -> {"none", "pending", "allow", "deny"}]
      BY <2>2, DenyType DEF GetRequest, TypeOK
    <3> QED BY <2>2, <3>1 DEF GetRequest, TypeOK
  <2>3. CASE TakeAnswer(r)
    BY <2>3 DEF TakeAnswer, TypeOK
  <2>4. CASE WaitTimesOut(r)
    BY <2>4, DenyType DEF WaitTimesOut, TypeOK
  <2>5. CASE WaitFails(r)
    <3>1. keys' \subseteq Requests
      BY <2>5 DEF WaitFails, TypeOK
    <3> QED BY <2>5, <3>1, FaultType, DenyType DEF WaitFails, TypeOK
  <2> QED BY ONLY <1>4, <2>1, <2>2, <2>3, <2>4, <2>5 DEF Wait
<1>5. ASSUME NEW d \in Devices, Page(d) PROVE TypeOK'
  <2>1. CASE ShowRequest(d)
    <3>1. seen[d] \in Nat /\ events \in Seq(Requests) /\ seen[d] < Len(events)
      BY <2>1 DEF ShowRequest, TypeOK
    <3>2. events[seen[d] + 1] \in Requests /\ seen[d] + 1 \in Nat
      BY <3>1
    <3> QED BY <2>1, <3>2 DEF ShowRequest, TypeOK
  <2>2. CASE Reload(d)
    <3>1. reloads' \in 0..MaxReloads
      BY <2>2, PermissionAssumption DEF Reload, TypeOK
    <3>2. reply' \in [Devices -> Reply]
          /\ \A e \in Devices : reply'[e].step # "none" => reply'[e].request # Nothing
      BY <2>2, ReplyForgotten DEF Reload
    <3> QED BY <2>2, <3>1, <3>2 DEF Reload, TypeOK
  <2>3. ASSUME NEW a \in Answers, Respond(d, a) PROVE TypeOK'
    <3>1. shown[d] \in Requests
      BY <2>3 DEF Respond, TypeOK
    <3>2. [request |-> shown[d], answer |-> a, step |-> "check"] \in Reply
      BY <3>1 DEF Reply
    <3> QED BY <2>3, <3>1, <3>2 DEF Respond, TypeOK
  <2>4. CASE CheckRequest(d)
    <3>1. PICK st \in {"publish", "return", "refused"} : reply' = [reply EXCEPT ![d].step = st]
      BY <2>4 DEF CheckRequest
    <3>2. reply' \in [Devices -> Reply]
          /\ \A e \in Devices : reply'[e].step # "none" => reply'[e].request # Nothing
      BY <2>4, <3>1, ReplySteps DEF CheckRequest
    <3>3. UNCHANGED <<mode, calls, redis, shown, seen, answered, faults, reloads>>
      BY <2>4 DEF CheckRequest
    <3> QED BY ONLY TypeOK, <3>2, <3>3 DEF TypeOK, calls, redis
  <2>5. CASE PublishAnswer(d)
    <3>1. /\ reply[d].request \in Requests /\ reply[d].answer \in Answers
          /\ reply[d].step = "publish"
      BY <2>5 DEF PublishAnswer, TypeOK, Reply
    <3>2. heard' \in [Requests -> Answers \cup {"none"}] /\ faults' \in 0..MaxFaults
      BY <2>5, <3>1, FaultType DEF PublishAnswer, TypeOK
    <3>3. reply' \in [Devices -> Reply]
          /\ \A e \in Devices : reply'[e].step # "none" => reply'[e].request # Nothing
      BY <2>5, <3>1, ReplySteps DEF PublishAnswer
    <3> QED BY <2>5, <3>2, <3>3 DEF PublishAnswer, TypeOK
  <2>6. CASE ReplyReturns(d) \/ ReplyRefused(d) \/ ReplyLost(d)
    <3>1. faults' \in 0..MaxFaults
      BY <2>6, FaultType DEF ReplyReturns, ReplyRefused, ReplyLost, TypeOK
    <3>2. reply' \in [Devices -> Reply]
          /\ \A e \in Devices : reply'[e].step # "none" => reply'[e].request # Nothing
      BY <2>6, ReplyForgotten DEF ReplyReturns, ReplyRefused, ReplyLost
    <3>3. shown' \in [Devices -> Requests \cup {Nothing}]
      BY <2>6 DEF ReplyReturns, ReplyRefused, ReplyLost, TypeOK
    <3>4. UNCHANGED <<mode, calls, redis, seen, answered, reloads>>
      BY <2>6 DEF ReplyReturns, ReplyRefused, ReplyLost
    <3> QED BY ONLY TypeOK, <3>1, <3>2, <3>3, <3>4 DEF TypeOK, calls, redis
  <2> QED BY ONLY <1>5, <2>1, <2>2, <2>3, <2>4, <2>5, <2>6 DEF Page
<1>6. CASE UNCHANGED vars
  BY <1>6 DEF vars, TypeOK
<1> QED BY ONLY <1>1, <1>2, <1>3, <1>4, <1>5, <1>6, [Next]_vars DEF Next

(* Every reachable state is well typed. *)
THEOREM TypeCorrect == Spec => []TypeOK
BY TypeInit, TypeStep, PTL DEF Spec
-----------------------------------------------------------------------------
(* An approval is the user's own wherever it travels: in the respond call  *)
(* of a page and in the channel of the call it was given for.              *)
ApprovalInv ==
    /\ \A d \in Devices : reply[d].step # "none" /\ reply[d].answer = "approve"
                            => "approve" \in answered[reply[d].request]
    /\ \A r \in Requests : heard[r] = "approve" => "approve" \in answered[r]
    /\ \A r \in planTool : verdict[r] # "none"
    /\ OnlyApprovedRuns

LEMMA ApprovalStep == TypeOK /\ ApprovalInv /\ [Next]_vars => ApprovalInv'
<1> SUFFICES ASSUME TypeOK, ApprovalInv, [Next]_vars PROVE ApprovalInv'
  OBVIOUS
<1> USE DEF calls, redis, pages
<1>0. ASSUME UNCHANGED <<mode, planTool, heard, reply, answered>>,
             \A q \in Requests : /\ verdict'[q] = "allow" => verdict[q] = "allow"
                                 /\ verdict'[q] = "none" => verdict[q] = "none"
      PROVE  ApprovalInv'
  BY <1>0 DEF ApprovalInv, OnlyApprovedRuns, TypeOK
<1>d. ASSUME NEW r \in Requests, UNCHANGED verdict \/ Deny(r),
             UNCHANGED <<mode, planTool, heard, reply, answered>>
      PROVE  ApprovalInv'
  <2>1. \A q \in Requests : /\ verdict'[q] = "allow" => verdict[q] = "allow"
                            /\ verdict'[q] = "none" => verdict[q] = "none"
    BY <1>d DEF Deny, TypeOK
  <2> QED BY ONLY <1>0, <1>d, <2>1
<1>1. ASSUME NEW r \in Requests, NEW isPlanTool \in BOOLEAN, CallTool(r, isPlanTool)
      PROVE  ApprovalInv'
  <2>1. UNCHANGED <<mode, heard, reply, answered>> /\ verdict[r] = "none"
    BY <1>1 DEF CallTool
  <2>2. verdict'[r] # "none" /\ \A q \in Requests \ {r} : verdict'[q] = verdict[q]
    BY <1>1 DEF CallTool, TypeOK
  <2>3. planTool' \subseteq planTool \cup {r}
    BY <1>1 DEF CallTool
  <2>4. verdict'[r] = "allow" => mode # "ask" /\ r \notin planTool'
    BY <1>1, <2>1 DEF CallTool, MustAsk, TypeOK, ApprovalInv
  <2> QED BY <2>1, <2>2, <2>3, <2>4 DEF ApprovalInv, OnlyApprovedRuns, TypeOK
<1>2. ASSUME NEW r \in Requests, CallFails(r) \/ KeyExpires(r) PROVE ApprovalInv'
  <2>1. UNCHANGED verdict \/ Deny(r)
    BY <1>2 DEF CallFails, KeyExpires, Deny
  <2>2. UNCHANGED <<mode, planTool, heard, reply, answered>>
    BY <1>2 DEF CallFails, KeyExpires
  <2> QED BY ONLY <1>d, <2>1, <2>2
<1>3. ASSUME NEW r \in Requests, Create(r) PROVE ApprovalInv'
  <2>1. UNCHANGED verdict \/ Deny(r)
    BY <1>3 DEF Create, StoreRequest, PublishRequest, CreateFails
  <2>2. UNCHANGED <<mode, planTool, heard, reply, answered>>
    BY <1>3 DEF Create, StoreRequest, PublishRequest, CreateFails
  <2> QED BY ONLY <1>d, <2>1, <2>2
<1>4. ASSUME NEW r \in Requests, Wait(r) PROVE ApprovalInv'
  <2>1. CASE TakeAnswer(r)
    <3>1. UNCHANGED <<mode, planTool, heard, reply, answered>>
      BY <2>1 DEF TakeAnswer
    <3>2. \A q \in Requests : verdict'[q] = "allow"
                              => verdict[q] = "allow" \/ heard[q] = "approve"
      BY <2>1 DEF TakeAnswer, TypeOK
    <3>3. \A q \in Requests : verdict'[q] = "none" => verdict[q] = "none"
      BY <2>1 DEF TakeAnswer, TypeOK
    <3> QED BY <3>1, <3>2, <3>3 DEF ApprovalInv, OnlyApprovedRuns, TypeOK
  <2>2. CASE ~TakeAnswer(r)
    <3>1. UNCHANGED verdict \/ Deny(r)
      BY <1>4, <2>2 DEF Wait, StartWait, GetRequest, RefreshTTL, Subscribe, WaitTimesOut,
                        WaitFails
    <3>2. UNCHANGED <<mode, planTool, heard, reply, answered>>
      BY <1>4, <2>2 DEF Wait, StartWait, GetRequest, RefreshTTL, Subscribe, WaitTimesOut,
                        WaitFails
    <3> QED BY ONLY <1>d, <3>1, <3>2
  <2> QED BY <2>1, <2>2
<1>5. ASSUME NEW d \in Devices, Page(d) PROVE ApprovalInv'
  <2>0. UNCHANGED <<mode, planTool, verdict>>
    BY <1>5 DEF Page, ShowRequest, Respond, Reload, CheckRequest, PublishAnswer,
                ReplyReturns, ReplyRefused, ReplyLost
  <2>1. CASE ShowRequest(d)
    BY <2>1 DEF ShowRequest, ApprovalInv, OnlyApprovedRuns
  <2>2. CASE Reload(d) \/ ReplyReturns(d) \/ ReplyRefused(d) \/ ReplyLost(d)
    <3>1. /\ reply' = [reply EXCEPT ![d] = NoReply]
          /\ UNCHANGED <<heard, answered>>
      BY <2>2 DEF Reload, ReplyReturns, ReplyRefused, ReplyLost
    <3> QED BY <2>0, <3>1 DEF ApprovalInv, OnlyApprovedRuns, TypeOK, NoReply
  <2>3. ASSUME NEW a \in Answers, Respond(d, a) PROVE ApprovalInv'
    <3>1. /\ shown[d] \in Requests
          /\ reply' = [reply EXCEPT ![d] = [request |-> shown[d], answer |-> a, step |-> "check"]]
          /\ answered' = [answered EXCEPT ![shown[d]] = @ \cup {a}]
          /\ UNCHANGED heard
      BY <2>3 DEF Respond, TypeOK
    <3>2. \A q \in Requests : "approve" \in answered[q] => "approve" \in answered'[q]
      BY <3>1 DEF TypeOK
    <3>3. a = "approve" => "approve" \in answered'[shown[d]]
      BY <3>1 DEF TypeOK
    <3>4. \A e \in Devices : reply[e].step # "none" => reply[e].request \in Requests
      BY DEF TypeOK, Reply
    <3> QED BY <2>0, <3>1, <3>2, <3>3, <3>4 DEF ApprovalInv, OnlyApprovedRuns, TypeOK
  <2>4. CASE CheckRequest(d)
    <3>1. PICK st \in {"publish", "return", "refused"} : reply' = [reply EXCEPT ![d].step = st]
      BY <2>4 DEF CheckRequest
    <3>2. \A e \in Devices : /\ reply'[e].answer = reply[e].answer
                             /\ reply'[e].request = reply[e].request
                             /\ reply'[e].step # "none" => reply[e].step # "none"
      BY <2>4, <3>1 DEF CheckRequest, TypeOK, Reply
    <3>3. UNCHANGED <<heard, answered>>
      BY <2>4 DEF CheckRequest
    <3> QED BY <2>0, <3>2, <3>3 DEF ApprovalInv, OnlyApprovedRuns
  <2>5. CASE PublishAnswer(d)
    <3>1. PICK st \in {"return", "refused"} : reply' = [reply EXCEPT ![d].step = st]
      BY <2>5 DEF PublishAnswer
    <3>2. reply[d].step = "publish"
      BY <2>5 DEF PublishAnswer
    <3>3. \A e \in Devices : /\ reply'[e].answer = reply[e].answer
                             /\ reply'[e].request = reply[e].request
                             /\ reply'[e].step # "none" => reply[e].step # "none"
      BY <3>1, <3>2 DEF TypeOK, Reply
    <3>4. ASSUME NEW q \in Requests, heard'[q] = "approve"
          PROVE  \/ heard[q] = "approve"
                 \/ q = reply[d].request /\ reply[d].answer = "approve"
      BY <2>5, <3>4 DEF PublishAnswer, TypeOK
    <3>5. UNCHANGED answered
      BY <2>5 DEF PublishAnswer
    <3> QED BY <2>0, <3>3, <3>4, <3>2, <3>5 DEF ApprovalInv, OnlyApprovedRuns
  <2> QED BY ONLY <1>5, <2>1, <2>2, <2>3, <2>4, <2>5 DEF Page
<1>6. CASE UNCHANGED vars
  BY <1>6 DEF vars, ApprovalInv, OnlyApprovedRuns
<1> QED BY ONLY <1>1, <1>2, <1>3, <1>4, <1>5, <1>6, [Next]_vars DEF Next

(* A tool that needs permission runs only if the user approved that call.  *)
THEOREM ApprovalNeeded == Spec => []OnlyApprovedRuns
<1>1. Init => ApprovalInv
  BY DEF Init, ApprovalInv, OnlyApprovedRuns, NoReply
<1>2. ApprovalInv => OnlyApprovedRuns
  BY DEF ApprovalInv
<1> QED BY <1>1, <1>2, TypeCorrect, ApprovalStep, PTL DEF Spec
-----------------------------------------------------------------------------
(* A call waits only once its request was created, and nothing is stored   *)
(* for it then but by the wait itself; an expiry takes keys away.  A call  *)
(* that was not made has no request.                                       *)
GoneInv ==
    /\ \A r \in Requests : verdict[r] = "none" => create[r] = "none"
    /\ \A r \in Requests : wait[r] # "none" => create[r] = "created"
    /\ EndedRequestIsGone

(* No step withdraws a call. *)
Called == \A r \in Requests : verdict'[r] = "none" => verdict[r] = "none"

(* A failing call leaves less than MaxFaults, and that for ever. *)
LEMMA FaultsSpent ==
    ASSUME TypeOK, faults' = MaxFaults, faults' = faults \/ Fault
    PROVE  faults = MaxFaults /\ ~Fault
BY PermissionAssumption DEF TypeOK, Fault

(* A step that creates nothing, starts and ends no wait and stores no key. *)
LEMMA GoneStays ==
    ASSUME TypeOK, GoneInv, Called, UNCHANGED <<create, wait>>, keys' \subseteq keys,
           faults' = faults \/ Fault
    PROVE  GoneInv'
<1>1. faults' = MaxFaults => faults = MaxFaults
  BY FaultsSpent
<1> QED BY <1>1 DEF GoneInv, EndedRequestIsGone, Called

LEMMA GoneStep == TypeOK /\ GoneInv /\ [Next]_vars => GoneInv'
<1> SUFFICES ASSUME TypeOK, GoneInv, [Next]_vars PROVE GoneInv'
  OBVIOUS
<1> USE DEF calls, redis, pages
<1>1. ASSUME NEW r \in Requests, NEW isPlanTool \in BOOLEAN, CallTool(r, isPlanTool)
      PROVE  GoneInv'
  <2>1. UNCHANGED <<wait, keys, faults>> /\ verdict[r] = "none"
    BY <1>1 DEF CallTool
  <2>2. \A q \in Requests \ {r} : create'[q] = create[q] /\ verdict'[q] = verdict[q]
    BY <1>1 DEF CallTool, TypeOK
  <2>3. verdict'[r] # "none" /\ wait[r] = "none"
    BY <1>1, <2>1 DEF CallTool, TypeOK, GoneInv
  <2> QED BY <2>1, <2>2, <2>3 DEF GoneInv, EndedRequestIsGone
<1>2. ASSUME NEW r \in Requests, CallFails(r) \/ KeyExpires(r) PROVE GoneInv'
  <2>1. UNCHANGED <<create, wait>> /\ keys' \subseteq keys /\ (faults' = faults \/ Fault)
    BY <1>2 DEF CallFails, KeyExpires
  <2>2. Called
    BY <1>2 DEF CallFails, KeyExpires, Called, TypeOK
  <2> QED BY <2>1, <2>2, GoneStays
<1>3. ASSUME NEW r \in Requests, Create(r) PROVE GoneInv'
  <2>1. create[r] \in {"store", "publish"} /\ UNCHANGED wait
    BY <1>3 DEF Create, StoreRequest, PublishRequest, CreateFails
  <2>2. wait[r] = "none" /\ verdict[r] # "none"
    BY <2>1 DEF GoneInv
  <2>3. /\ \A q \in Requests \ {r} : create'[q] = create[q]
        /\ keys' \subseteq keys \cup {r}
        /\ faults' = faults \/ Fault
    BY <1>3 DEF Create, StoreRequest, PublishRequest, CreateFails, TypeOK
  <2>4. Called
    BY <1>3 DEF Create, StoreRequest, PublishRequest, CreateFails, Deny, Called, TypeOK
  <2>5. faults' = MaxFaults => faults = MaxFaults
    BY <2>3, FaultsSpent
  <2> QED BY <2>1, <2>2, <2>3, <2>4, <2>5 DEF GoneInv, EndedRequestIsGone, Called
<1>4. ASSUME NEW r \in Requests, Wait(r) PROVE GoneInv'
  <2>0. create[r] = "created"
    BY <1>4 DEF Wait, StartWait, GetRequest, RefreshTTL, Subscribe, TakeAnswer,
                WaitTimesOut, WaitFails, GoneInv
  <2>1. UNCHANGED create /\ keys' \subseteq keys \cup {r} /\ (faults' = faults \/ Fault)
    BY <1>4 DEF Wait, StartWait, GetRequest, RefreshTTL, Subscribe, TakeAnswer,
                WaitTimesOut, WaitFails
  <2>2. \A q \in Requests \ {r} : wait'[q] = wait[q]
    BY <1>4 DEF Wait, StartWait, GetRequest, RefreshTTL, Subscribe, TakeAnswer,
                WaitTimesOut, WaitFails, TypeOK
  <2>3. Called
    BY <1>4 DEF Wait, StartWait, GetRequest, RefreshTTL, Subscribe, TakeAnswer,
                WaitTimesOut, WaitFails, Deny, Called, TypeOK
  <2>4. faults' = MaxFaults => faults = MaxFaults /\ ~Fault
    BY <2>1, FaultsSpent
  <2>5. wait'[r] = "over" /\ faults' = MaxFaults => r \notin keys'
    BY <1>4, <2>4 DEF Wait, StartWait, GetRequest, RefreshTTL, Subscribe, TakeAnswer,
                      WaitTimesOut, WaitFails, TypeOK
  <2> QED BY <2>0, <2>1, <2>2, <2>3, <2>4, <2>5 DEF GoneInv, EndedRequestIsGone, Called
<1>5. ASSUME NEW d \in Devices, Page(d) PROVE GoneInv'
  <2>1. UNCHANGED <<create, wait, keys, verdict>> /\ (faults' = faults \/ Fault)
    BY <1>5 DEF Page, ShowRequest, Respond, Reload, CheckRequest, PublishAnswer,
                ReplyReturns, ReplyRefused, ReplyLost
  <2> QED BY <2>1, GoneStays DEF Called
<1>6. CASE UNCHANGED vars
  BY <1>6, GoneStays DEF vars, Called
<1> QED BY ONLY <1>1, <1>2, <1>3, <1>4, <1>5, <1>6, [Next]_vars DEF Next

(* Unless a call failed, a wait that has ended leaves no key of its        *)
(* request, so that an answer that comes later is refused.                 *)
THEOREM EndedIsGone == Spec => []EndedRequestIsGone
<1>1. Init => GoneInv
  BY DEF Init, GoneInv, EndedRequestIsGone
<1>2. GoneInv => EndedRequestIsGone
  BY DEF GoneInv
<1> QED BY <1>1, <1>2, TypeCorrect, GoneStep, PTL DEF Spec
=============================================================================
