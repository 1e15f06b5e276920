-------------------------- MODULE PtyQueuesProofs --------------------------
(***************************************************************************)
(* The queues of a terminal session lose only what is old and never bring  *)
(* anything twice or out of order, for any capacity and any number of      *)
(* items.  The invariant orders the three places an item can be: what has  *)
(* arrived is older than what is being sent, and that older than what      *)
(* waits.                                                                  *)
(***************************************************************************)
EXTENDS PtyQueues, TLAPS

\* s holds some of the items 1 .. k, each once and the older before the newer.
Run(s, k) ==
  /\ s \in Seq(Nat) /\ KN!Increasing(s)
  /\ \A i \in 1 .. Len(s) : s[i] \in 1 .. k

\* All of s is older than all of t.
Older(s, t) == \A i \in 1 .. Len(s), j \in 1 .. Len(t) : s[i] < t[j]

Ordered ==
  /\ Run(got, n) /\ Run(buffer, n) /\ Run(queue, n)
  /\ Older(got, buffer) /\ Older(got, queue) /\ Older(buffer, queue)

Shape ==
  /\ way \in {"input", "output"} /\ n \in Nat /\ Len(queue) <= Cap
  /\ at \in {"get", "send", "ended"} /\ open \in BOOLEAN
  /\ at = "get" => buffer = <<>>

IInv == Shape /\ Ordered /\ NewestKept

-----------------------------------------------------------------------------
(* Runs *)

\* Nothing is a run, and older than anything.
LEMMA EmptyRun ==
  ASSUME NEW k \in Nat, NEW s \in Seq(Nat)
  PROVE  Run(<<>>, k) /\ Older(<<>>, s) /\ Older(s, <<>>)
BY DEF Run, Older, KN!Increasing

\* A run of the first k items is one of the first k + 1.
LEMMA LongerRun ==
  ASSUME NEW k \in Nat, NEW s, Run(s, k)
  PROVE  Run(s, k + 1)
BY DEF Run

\* The next item makes a run longer, and older runs stay older.
LEMMA AppendRun ==
  ASSUME NEW k \in Nat, NEW s, Run(s, k)
  PROVE  /\ Run(Append(s, k + 1), k + 1)
         /\ Append(s, k + 1) # <<>>
         /\ Len(Append(s, k + 1)) = Len(s) + 1
         /\ Append(s, k + 1)[Len(s) + 1] = k + 1
         /\ \A t : Run(t, k) /\ Older(t, s) => Older(t, Append(s, k + 1))
<1> DEFINE a == Append(s, k + 1)
<1>1. /\ a \in Seq(Nat) /\ Len(a) = Len(s) + 1 /\ a[Len(s) + 1] = k + 1 /\ a # <<>>
      /\ \A i \in 1 .. Len(s) : a[i] = s[i]
  BY DEF Run
<1>2. Len(s) \in Nat /\ \A i \in 1 .. Len(s) : s[i] \in 1 .. k
  BY DEF Run
<1> HIDE DEF a
<1>3. \A i \in 1 .. Len(a) : a[i] \in 1 .. k + 1
  BY <1>1, <1>2
<1>4. ASSUME NEW i \in 1 .. Len(a), NEW j \in 1 .. Len(a), i < j
      PROVE  a[i] < a[j]
  <2>1. i \in 1 .. Len(s) /\ a[i] = s[i] /\ s[i] \in 1 .. k
    BY <1>1, <1>2, <1>4
  <2>2. CASE j = Len(s) + 1
    BY <1>1, <2>1, <2>2
  <2>3. CASE j \in 1 .. Len(s)
    BY <1>1, <1>4, <2>1, <2>3 DEF Run, KN!Increasing
  <2> QED BY <1>1, <1>2, <2>2, <2>3
<1>5. ASSUME NEW t, Run(t, k), Older(t, s)
      PROVE  Older(t, a)
  <2>1. Len(t) \in Nat /\ \A i \in 1 .. Len(t) : t[i] \in 1 .. k
    BY <1>5 DEF Run
  <2>2. \A i \in 1 .. Len(t), j \in 1 .. Len(a) : t[i] < a[j]
    BY <1>1, <1>2, <1>5, <2>1 DEF Older
  <2> QED BY <2>2 DEF Older
<1> QED BY <1>1, <1>3, <1>4, <1>5 DEF Run, KN!Increasing, a

\* A run without its oldest item is one, and older runs stay older.
LEMMA TailRun ==
  ASSUME NEW k \in Nat, NEW s, Run(s, k), s # <<>>
  PROVE  /\ Run(Tail(s), k) /\ Len(Tail(s)) = Len(s) - 1
         /\ \A t : Older(t, s) => Older(t, Tail(s))
<1> DEFINE a == Tail(s)
<1>1. /\ a \in Seq(Nat) /\ Len(a) = Len(s) - 1 /\ Len(s) \in Nat /\ Len(s) > 0
      /\ \A i \in 1 .. Len(a) : a[i] = s[i + 1]
  BY DEF Run
<1> HIDE DEF a
<1>2. \A i \in 1 .. Len(a) : i + 1 \in 1 .. Len(s)
  BY <1>1
<1>3. \A i \in 1 .. Len(a) : a[i] \in 1 .. k
  BY <1>1, <1>2 DEF Run
<1>4. ASSUME NEW i \in 1 .. Len(a), NEW j \in 1 .. Len(a), i < j
      PROVE  a[i] < a[j]
  <2>1. i + 1 \in 1 .. Len(s) /\ j + 1 \in 1 .. Len(s) /\ i + 1 < j + 1
    BY <1>1, <1>2, <1>4
  <2>2. s[i + 1] < s[j + 1]
    BY <2>1 DEF Run, KN!Increasing
  <2> QED BY <1>1, <2>2
<1>5. ASSUME NEW t, Older(t, s) PROVE Older(t, a)
  BY <1>1, <1>2, <1>5 DEF Older
<1> QED BY <1>1, <1>3, <1>4, <1>5 DEF Run, KN!Increasing, a

\* Two runs of which one is older make one run.
LEMMA JoinedRun ==
  ASSUME NEW k \in Nat, NEW s, NEW t, Run(s, k), Run(t, k), Older(s, t)
  PROVE  /\ Run(s \o t, k) /\ Len(s \o t) = Len(s) + Len(t)
         /\ \A i \in 1 .. Len(s) : (s \o t)[i] = s[i]
         /\ t # <<>> => (s \o t) # <<>> /\ (s \o t)[Len(s) + Len(t)] = t[Len(t)]
         /\ \A u : Older(s, u) /\ Older(t, u) => Older(s \o t, u)
<1> DEFINE a == s \o t
<1>1. /\ a \in Seq(Nat) /\ Len(a) = Len(s) + Len(t)
      /\ \A i \in 1 .. Len(a) : a[i] = IF i <= Len(s) THEN s[i] ELSE t[i - Len(s)]
  BY DEF Run
<1>2. /\ Len(s) \in Nat /\ Len(t) \in Nat
      /\ \A i \in 1 .. Len(s) : s[i] \in 1 .. k
      /\ \A i \in 1 .. Len(t) : t[i] \in 1 .. k
  BY DEF Run
<1>3. t # <<>> => Len(t) > 0
  BY DEF Run
<1> HIDE DEF a
<1>4. \A i \in 1 .. Len(a) : i <= Len(s) => i \in 1 .. Len(s) /\ a[i] = s[i]
  BY <1>1, <1>2
<1>5. \A i \in 1 .. Len(a) :
         ~(i <= Len(s)) => i - Len(s) \in 1 .. Len(t) /\ a[i] = t[i - Len(s)]
  BY <1>1, <1>2
<1>6. \A i \in 1 .. Len(a) : a[i] \in 1 .. k
  BY <1>2, <1>4, <1>5
<1>7. ASSUME NEW i \in 1 .. Len(a), NEW j \in 1 .. Len(a), i < j
      PROVE  a[i] < a[j]
  <2>1. CASE j <= Len(s)
    <3>1. i <= Len(s)
      BY <1>1, <1>2, <1>7, <2>1
    <3> QED BY <1>4, <1>7, <2>1, <3>1 DEF Run, KN!Increasing
  <2>2. CASE i <= Len(s) /\ ~(j <= Len(s))
    BY <1>4, <1>5, <2>2 DEF Older
  <2>3. CASE ~(i <= Len(s)) /\ ~(j <= Len(s))
    <3>1. i - Len(s) < j - Len(s)
      BY <1>1, <1>2, <1>7
    <3> QED BY <1>5, <2>3, <3>1 DEF Run, KN!Increasing
  <2>4. i <= Len(s) \/ ~(j <= Len(s))
    BY <1>1, <1>2, <1>7
  <2> QED BY <2>1, <2>2, <2>3, <2>4
<1>8. ASSUME NEW u, Older(s, u), Older(t, u) PROVE Older(a, u)
  BY <1>4, <1>5, <1>8 DEF Older
<1>9. t # <<>> => a # <<>> /\ a[Len(s) + Len(t)] = t[Len(t)]
  <2> SUFFICES ASSUME t # <<>> PROVE a # <<>> /\ a[Len(s) + Len(t)] = t[Len(t)]
    OBVIOUS
  <2>1. Len(s) + Len(t) \in 1 .. Len(a) /\ ~(Len(s) + Len(t) <= Len(s))
    BY <1>1, <1>2, <1>3
  <2>2. Len(s) + Len(t) - Len(s) = Len(t)
    BY <1>2
  <2>3. a # <<>>
    BY <1>1, <2>1
  <2> QED BY <1>5, <2>1, <2>2, <2>3
<1>10. \A i \in 1 .. Len(s) : a[i] = s[i]
  BY <1>1, <1>2
<1> QED BY <1>1, <1>6, <1>7, <1>8, <1>9, <1>10 DEF Run, KN!Increasing, a

-----------------------------------------------------------------------------
(* The invariant *)

\* What enqueue_input does to a queue that is full and to one that is not.
LEMMA PutRun ==
  ASSUME Cap \in Nat \ {0}, NEW k \in Nat, NEW s, Run(s, k), Len(s) <= Cap
  PROVE  LET q == Put(s, k + 1)
         IN  /\ Run(q, k + 1) /\ Len(q) <= Cap /\ q # <<>> /\ q[Len(q)] = k + 1
             /\ \A t : Run(t, k) /\ Older(t, s) => Older(t, q)
<1>1. Len(s) \in Nat
  BY DEF Run
<1>2. CASE Len(s) < Cap
  BY <1>1, <1>2, AppendRun DEF Put
<1>3. CASE ~(Len(s) < Cap)
  <2>1. s # <<>>
    BY <1>1, <1>3
  <2>2. /\ Run(Tail(s), k) /\ Len(Tail(s)) = Len(s) - 1
        /\ \A t : Older(t, s) => Older(t, Tail(s))
    BY <2>1, TailRun
  <2> QED BY <1>1, <1>3, <2>2, AppendRun DEF Put
<1> QED BY <1>2, <1>3

LEMMA InvInit == ASSUME Cap \in Nat \ {0}, Init PROVE IInv
<1>1. <<>> \in Seq(Nat) /\ 0 \in Nat /\ Len(<<>>) <= Cap
  OBVIOUS
<1>2. Run(<<>>, 0) /\ Older(<<>>, <<>>)
  BY <1>1, EmptyRun
<1> QED BY <1>1, <1>2 DEF Init, IInv, Shape, Ordered, NewestKept

\* An item is put: it is newer than all there is.
LEMMA InvEnqueue == ASSUME Cap \in Nat \ {0}, IInv, Enqueue PROVE IInv'
<1>1. n \in Nat /\ Run(queue, n) /\ Len(queue) <= Cap
  BY DEF IInv, Shape, Ordered
<1>2. /\ Run(queue', n + 1) /\ Len(queue') <= Cap /\ queue' # <<>>
      /\ queue'[Len(queue')] = n + 1
      /\ \A t : Run(t, n) /\ Older(t, queue) => Older(t, queue')
  BY <1>1, PutRun DEF Enqueue
<1>3. Shape'
  BY <1>2 DEF IInv, Shape, Enqueue
<1>4. Ordered'
  BY <1>1, <1>2, LongerRun DEF IInv, Ordered, Enqueue
<1>5. NewestKept'
  BY <1>2 DEF NewestKept, Enqueue
<1> QED BY <1>3, <1>4, <1>5 DEF IInv

\* The worker takes the queue while it holds nothing else.
LEMMA InvTake == ASSUME Cap \in Nat \ {0}, IInv, Take PROVE IInv'
<1>1. n \in Nat /\ queue \in Seq(Nat) /\ got \in Seq(Nat)
  BY DEF IInv, Shape, Ordered, Run
<1>2. Run(<<>>, n) /\ Older(got, <<>>) /\ Older(queue, <<>>) /\ Len(<<>>) = 0
  BY <1>1, EmptyRun
<1>3. Shape'
  BY <1>1, <1>2 DEF IInv, Shape, Take
<1>4. Ordered'
  BY <1>2 DEF IInv, Ordered, Take
<1>5. NewestKept'
  BY DEF IInv, NewestKept, Take
<1> QED BY <1>3, <1>4, <1>5 DEF IInv

\* What is sent comes after all that has arrived.
LEMMA InvSent == ASSUME IInv, Sent PROVE IInv'
<1>1. n \in Nat /\ queue \in Seq(Nat) /\ got \in Seq(Nat)
  BY DEF IInv, Shape, Ordered, Run
<1>2. Run(<<>>, n) /\ Older(got', <<>>) /\ Older(<<>>, queue)
  <2>1. got' \in Seq(Nat)
    BY JoinedRun DEF Sent, IInv, Shape, Ordered, Run
  <2> QED BY <1>1, <2>1, EmptyRun
<1>3. /\ Run(got \o buffer, n)
      /\ buffer # <<>> => /\ got \o buffer # <<>>
                          /\ (got \o buffer)[Len(got \o buffer)] = buffer[Len(buffer)]
      /\ Older(got \o buffer, queue)
  BY <1>1, JoinedRun DEF IInv, Ordered
<1>4. buffer = <<>> => got \o buffer = got
  BY <1>1
<1>5. Shape'
  BY DEF IInv, Shape, Sent
<1>6. Ordered'
  BY <1>2, <1>3 DEF IInv, Ordered, Sent
<1>7. NewestKept'
  BY <1>3, <1>4 DEF IInv, NewestKept, Sent
<1> QED BY <1>5, <1>6, <1>7 DEF IInv

\* A session that ends keeps its order; what was on its way is lost.
LEMMA InvEnds == ASSUME Cap \in Nat \ {0}, IInv, SendFails \/ Stop PROVE IInv'
<1>1. /\ n \in Nat /\ queue \in Seq(Nat) /\ got \in Seq(Nat)
      /\ <<>> \in Seq(Nat) /\ Len(<<>>) <= Cap
  BY DEF IInv, Shape, Ordered, Run
<1>2. Run(<<>>, n) /\ Older(got, <<>>) /\ Older(<<>>, queue) /\ Older(<<>>, <<>>)
  BY <1>1, EmptyRun
<1>3. Shape'
  BY <1>1 DEF IInv, Shape, SendFails, Stop
<1>4. Ordered'
  BY <1>2 DEF IInv, Ordered, SendFails, Stop
<1>5. NewestKept'
  BY DEF NewestKept, SendFails, Stop
<1> QED BY <1>3, <1>4, <1>5 DEF IInv

LEMMA InvStep == ASSUME Cap \in Nat \ {0}, IInv, [Next]_vars PROVE IInv'
<1>1. CASE UNCHANGED vars
  BY <1>1 DEF vars, IInv, Shape, Ordered, NewestKept
<1> QED BY <1>1, InvEnqueue, InvTake, InvSent, InvEnds DEF Next

\* The invariant holds in every state.
THEOREM Invariant == ASSUME Cap \in Nat \ {0} PROVE Spec => []IInv
<1>1. Init => IInv
  BY InvInit
<1>2. IInv /\ [Next]_vars => IInv'
  BY InvStep
<1> QED BY <1>1, <1>2, PTL DEF Spec

\* Every reachable state is well typed, and no queue is longer than its capacity.
THEOREM TypeCorrect == ASSUME Cap \in Nat \ {0} PROVE Spec => []TypeOK
<1>1. IInv => TypeOK
  BY DEF IInv, Shape, Ordered, Run, TypeOK
<1> QED BY <1>1, Invariant, PTL

\* While the session lasts the newest item is on its way or has arrived: a full
\* queue loses what is old (enqueue_input: "drops oldest input when full").
THEOREM NewestIsKept == ASSUME Cap \in Nat \ {0} PROVE Spec => []NewestKept
<1>1. IInv => NewestKept
  BY DEF IInv
<1> QED BY <1>1, Invariant, PTL

\* Each step of the queues is a step of KeepsNewest, or none of it: things
\* arrive once each and none after a newer one.
LEMMA StepKeepsPromise ==
  ASSUME IInv, IInv', [Next]_vars
  PROVE  [KN!Next]_(KN!vars)
<1>1. CASE Enqueue
  BY <1>1 DEF Enqueue, KN!Next, KN!Make
<1>2. CASE Sent
  <2>1. n' = n
    BY <1>2 DEF Sent
  <2>2. KN!Increasing(got') /\ \A i \in 1 .. Len(got') : got'[i] \in 1 .. n
    BY <2>1 DEF IInv, Ordered, Run
  <2>3. Len(got) <= Len(got') /\ \A i \in 1 .. Len(got) : got'[i] = got[i]
    <3>1. n \in Nat /\ Run(got, n) /\ Run(buffer, n) /\ Older(got, buffer)
          /\ Len(got) \in Nat /\ Len(buffer) \in Nat
      BY DEF IInv, Shape, Ordered, Run
    <3>2. /\ Len(got \o buffer) = Len(got) + Len(buffer)
          /\ \A i \in 1 .. Len(got) : (got \o buffer)[i] = got[i]
      BY <3>1, JoinedRun
    <3> QED BY <1>2, <3>1, <3>2 DEF Sent
  <2> QED BY <2>1, <2>2, <2>3 DEF KN!Next, KN!Arrive
<1>3. CASE Take \/ SendFails \/ Stop \/ UNCHANGED vars
  BY <1>3 DEF Take, SendFails, Stop, vars, KN!vars
<1> QED BY <1>1, <1>2, <1>3 DEF Next

\* The queues keep the promise of KeepsNewest.
THEOREM Refinement == ASSUME Cap \in Nat \ {0} PROVE Spec => Implements
<1>1. Init => KN!Init
  BY DEF Init, KN!Init
<1>2. IInv /\ IInv' /\ [Next]_vars => [KN!Next]_(KN!vars)
  BY StepKeepsPromise
<1> QED BY <1>1, <1>2, Invariant, PTL DEF Spec, Implements, KN!Spec
=============================================================================
