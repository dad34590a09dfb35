----------------------------- MODULE StateLogProofs -----------------------------
(***************************************************************************)
(* What applying one event does to any view, and what replaying a log does *)
(* to it: for any topics, callbacks, servers and leases and any log.       *)
(***************************************************************************)
EXTENDS StateLog, WellFoundedInduction, TLAPS

LEMMA StoreView ==
    ASSUME NEW view \in Views, NEW key \in Keys, NEW sub \in Entries \cup {NoSub}
    PROVE  Store(view, key, sub) \in Views
BY DEF Store, Views

LEMMA SubscribedEntry ==
    ASSUME NEW existing \in Entries \cup {NoSub}, NEW e \in SubEvents
    PROVE  Subscribed(existing, e) \in Entries
BY DEF Subscribed, Entries, SubEvents

LEMMA EventKinds ==
    ASSUME NEW e \in Events
    PROVE  \/ e \in TopicEvents /\ e.kind \in {"register", "deregister"}
           \/ e \in UnsubEvents /\ e.kind = "unsubscribe"
           \/ e \in SubEvents /\ e.kind \in {"subscribe", "stale"}
BY DEF Events, TopicEvents, UnsubEvents, SubEvents

\* state.ApplyEvent takes a view to a view: whatever order events come in, a
\* materialised view stays one a snapshot can carry.
THEOREM ApplyIsTotal ==
    ASSUME NEW view \in Views, NEW e \in Events
    PROVE  ApplyEvent(view, e) \in Views
<1>1. CASE e.kind = "register"
  BY <1>1, EventKinds DEF ApplyEvent, ApplyTopicRegistration, Views, TopicEvents
<1>2. CASE e.kind = "deregister"
  BY <1>2, EventKinds DEF ApplyEvent, ApplyTopicDeregistration, Views, TopicEvents
<1>3. CASE e.kind = "subscribe"
  <2>1. e \in SubEvents /\ e.key \in Keys /\ view.subs[e.key] \in Entries \cup {NoSub}
    BY <1>3, EventKinds DEF SubEvents, Views
  <2>2. ApplyEvent(view, e) = Store(view, e.key, Subscribed(view.subs[e.key], e))
    BY <1>3 DEF ApplyEvent, ApplySubscription
  <2> QED
    BY <2>1, <2>2, SubscribedEntry, StoreView
<1>4. CASE e.kind = "stale"
  <2>1. e \in SubEvents /\ e.key \in Keys /\ view.subs[e.key] \in Entries \cup {NoSub}
    BY <1>4, EventKinds DEF SubEvents, Views
  <2>2. ApplyEvent(view, e) = ApplyStaleSubscription(view, e)
    BY <1>4 DEF ApplyEvent
  <2>3. CASE Names(e, view.subs[e.key])
    <3>1. [view.subs[e.key] EXCEPT !.stale = TRUE] \in Entries
      BY <2>1, <2>3 DEF Names, Entries
    <3> QED
      BY <2>1, <2>2, <2>3, <3>1, StoreView DEF ApplyStaleSubscription
  <2> QED
    BY <2>2, <2>3 DEF ApplyStaleSubscription
<1>5. CASE e.kind = "unsubscribe"
  <2>1. e.key \in Keys
    BY <1>5, EventKinds DEF UnsubEvents
  <2> QED
    BY <1>5, <2>1, StoreView DEF ApplyEvent, ApplyUnsubscription
<1> QED
  BY <1>1, <1>2, <1>3, <1>4, <1>5, EventKinds

\* Two stores under one key leave the later one.
LEMMA StoreTwice ==
    ASSUME NEW view \in Views, NEW key \in Keys, NEW a, NEW b
    PROVE  /\ Store(Store(view, key, a), key, b) = Store(view, key, b)
           /\ Store(view, key, a).subs[key] = a
BY DEF Store, Views

LEMMA SubscribedTwice ==
    ASSUME NEW existing \in Entries \cup {NoSub}, NEW e \in SubEvents
    PROVE  Subscribed(Subscribed(existing, e), e) = Subscribed(existing, e)
<1>1. Subscribed(existing, e) \in Entries /\ Subscribed(existing, e).stale = FALSE
  BY SubscribedEntry DEF Subscribed, Entries, SubEvents
<1>2. Subscribed(existing, e) # NoSub
  BY <1>1, NoSubAssumption
<1> QED
  BY <1>1, <1>2 DEF Subscribed, Entries

\* "Event application is idempotent": over every view, not only those a log
\* leads to, an event that Kafka redelivers at once changes nothing.
THEOREM ApplyIsIdempotent ==
    ASSUME NEW view \in Views, NEW e \in Events
    PROVE  ApplyEvent(ApplyEvent(view, e), e) = ApplyEvent(view, e)
<1> DEFINE once == ApplyEvent(view, e)
<1>1. CASE e.kind = "register"
  BY <1>1 DEF ApplyEvent, ApplyTopicRegistration, Views
<1>2. CASE e.kind = "deregister"
  BY <1>2 DEF ApplyEvent, ApplyTopicDeregistration, Views
<1>3. CASE e.kind = "subscribe"
  <2>1. e \in SubEvents /\ e.key \in Keys /\ view.subs[e.key] \in Entries \cup {NoSub}
    BY <1>3, EventKinds DEF SubEvents, Views
  <2> DEFINE sub == Subscribed(view.subs[e.key], e)
  <2>2. once = Store(view, e.key, sub) /\ once.subs[e.key] = sub
    <3>1. once = Store(view, e.key, sub)
      BY <1>3 DEF ApplyEvent, ApplySubscription
    <3> HIDE DEF once, sub
    <3> QED
      BY <2>1, <3>1, StoreTwice
  <2>3. ApplyEvent(once, e) = Store(once, e.key, Subscribed(sub, e))
    BY <1>3, <2>2 DEF ApplyEvent, ApplySubscription
  <2>4. Subscribed(sub, e) = sub
    BY <2>1, SubscribedTwice
  <2> QED
    BY <2>1, <2>2, <2>3, <2>4, StoreTwice
<1>4. CASE e.kind = "stale"
  <2>1. e \in SubEvents /\ e.key \in Keys /\ view.subs[e.key] \in Entries \cup {NoSub}
    BY <1>4, EventKinds DEF SubEvents, Views
  <2> DEFINE sub == [view.subs[e.key] EXCEPT !.stale = TRUE]
  <2>2. CASE Names(e, view.subs[e.key])
    <3>1. once = Store(view, e.key, sub) /\ once.subs[e.key] = sub
      <4>1. once = Store(view, e.key, sub)
        BY <1>4, <2>2 DEF ApplyEvent, ApplyStaleSubscription
      <4> HIDE DEF once, sub
      <4> QED
        BY <2>1, <4>1, StoreTwice
    <3>2. [sub EXCEPT !.stale = TRUE] = sub
      <4>1. view.subs[e.key] \in Entries
        BY <2>1, <2>2 DEF Names
      <4> QED
        BY <4>1 DEF Entries
    <3>3. ApplyEvent(once, e) \in {once, Store(once, e.key, sub)}
      BY <1>4, <3>1, <3>2 DEF ApplyEvent, ApplyStaleSubscription
    <3> QED
      BY <2>1, <3>1, <3>3, StoreTwice
  <2>3. CASE ~ Names(e, view.subs[e.key])
    BY <1>4, <2>3 DEF ApplyEvent, ApplyStaleSubscription
  <2> QED
    BY <2>2, <2>3
<1>5. CASE e.kind = "unsubscribe"
  <2>1. e.key \in Keys
    BY <1>5, EventKinds DEF UnsubEvents
  <2>2. \A v : ApplyEvent(v, e) = Store(v, e.key, NoSub)
    BY <1>5 DEF ApplyEvent, ApplyUnsubscription
  <2> QED
    BY <2>1, <2>2, StoreTwice
<1> QED
  BY <1>1, <1>2, <1>3, <1>4, <1>5, EventKinds
-----------------------------------------------------------------------------
LEMMA LeastOf ==
    ASSUME NEW T, T \subseteq Nat, T # {}
    PROVE  \E x \in T : \A y \in T : x <= y
<1> DEFINE R == OpToRel(<, Nat)
<1>1. R = {ss \in Nat \X Nat : ss[1] < ss[2]}
  BY DEF OpToRel
<1>2. IsWellFoundedOn(R, Nat)
  BY NatLessThanWellFounded, Zenon
<1> HIDE DEF R
<1>3. PICK x \in T : \A y \in T : ~(<<y, x>> \in R)
  BY <1>2, WFMin
<1>4. ASSUME NEW y \in T PROVE x <= y
  <2>1. ~(<<y, x>> \in R)
    BY <1>3
  <2> QED  BY <1>1, <2>1
<1> QED  BY <1>3, <1>4

LEMMA SetInduction ==
    ASSUME NEW S, 0 \in S, \A n \in Nat : n \in S => n + 1 \in S
    PROVE  Nat \subseteq S
<1> SUFFICES ASSUME Nat \ S # {} PROVE FALSE
  OBVIOUS
<1>1. PICK x \in Nat \ S : \A y \in Nat \ S : x <= y
  BY LeastOf
<1>2. x # 0 /\ x - 1 \in Nat /\ (x - 1) + 1 = x
  BY <1>1
<1> QED  BY <1>1, <1>2

IsRun(f, view, log, m, n) ==
    f = [i \in m..n |-> IF i = m THEN view ELSE ApplyEvent(f[i - 1], log[i])]

LEMMA RunExists ==
    ASSUME NEW view, NEW log, NEW m \in Nat, NEW k \in Nat
    PROVE  \E f : IsRun(f, view, log, m, m + k)
<1> DEFINE S == {j \in Nat : \E f : IsRun(f, view, log, m, m + j)}
<1>1. 0 \in S
  <2> DEFINE f == [i \in m..m |-> view]
  <2>1. m..m = {m} /\ m + 0 = m
    OBVIOUS
  <2>2. IsRun(f, view, log, m, m)
    BY <2>1 DEF IsRun
  <2> QED  BY <2>1, <2>2
<1>2. ASSUME NEW j \in Nat, j \in S PROVE j + 1 \in S
  <2>1. PICK f : IsRun(f, view, log, m, m + j)
    BY <1>2
  <2> DEFINE n == m + j
             g == [i \in m..(n + 1) |-> IF i = n + 1 THEN ApplyEvent(f[n], log[n + 1]) ELSE f[i]]
  <2>2. n \in Nat /\ n >= m /\ m + (j + 1) = n + 1
    OBVIOUS
  <2>3. \A i \in m..n : f[i] = IF i = m THEN view ELSE ApplyEvent(f[i - 1], log[i])
    BY <2>1 DEF IsRun
  <2> HIDE DEF n
  <2>4. ASSUME NEW i \in m..(n + 1)
        PROVE  g[i] = IF i = m THEN view ELSE ApplyEvent(g[i - 1], log[i])
    <3>1. CASE i = n + 1
      <4>1. i # m /\ i - 1 \in m..(n + 1) /\ i - 1 = n /\ n # n + 1
        BY <2>2, <3>1
      <4>2. g[i - 1] = f[n] /\ g[i] = ApplyEvent(f[n], log[n + 1])
        BY <3>1, <4>1
      <4> HIDE DEF g
      <4> QED  BY <3>1, <4>1, <4>2
    <3>2. CASE i # n + 1
      <4>1. i \in m..n /\ (i # m => i - 1 \in m..(n + 1) /\ i - 1 # n + 1)
        BY <2>2, <3>2
      <4>2. g[i] = f[i] /\ (i # m => g[i - 1] = f[i - 1])
        BY <3>2, <4>1
      <4> HIDE DEF g
      <4> QED  BY <2>3, <4>1, <4>2
    <3> QED  BY <3>1, <3>2
  <2>5. IsRun(g, view, log, m, n + 1)
    <3> DEFINE h == [i \in m..(n + 1) |-> IF i = m THEN view ELSE ApplyEvent(g[i - 1], log[i])]
    <3>1. DOMAIN g = DOMAIN h /\ g = [i \in DOMAIN g |-> g[i]]
      OBVIOUS
    <3>2. g = h
      BY <2>4
    <3> QED  BY <3>2 DEF IsRun
  <2> QED  BY <2>2, <2>5
<1> HIDE DEF S
<1>3. k \in S
  BY <1>1, <1>2, SetInduction
<1> QED  BY <1>3 DEF S

\* Two functions that agree at m and keep agreeing agree at n.
LEMMA StayEqual ==
    ASSUME NEW f, NEW g, NEW m \in Nat, NEW n \in Nat, m <= n, f[m] = g[m],
           \A i \in (m + 1)..n : f[i - 1] = g[i - 1] => f[i] = g[i]
    PROVE  f[n] = g[n]
<1> DEFINE S == {j \in Nat : m + j <= n => f[m + j] = g[m + j]}
<1>1. 0 \in S
  <2>1. m + 0 = m
    OBVIOUS
  <2> QED  BY <2>1
<1>2. ASSUME NEW j \in Nat, j \in S PROVE j + 1 \in S
  <2> SUFFICES ASSUME m + (j + 1) <= n PROVE f[m + (j + 1)] = g[m + (j + 1)]
    OBVIOUS
  <2>1. /\ m + (j + 1) \in (m + 1)..n
        /\ (m + (j + 1)) - 1 = m + j /\ m + j <= n
    OBVIOUS
  <2>2. f[m + j] = g[m + j]
    BY <1>2, <2>1
  <2> QED  BY <2>1, <2>2
<1> HIDE DEF S
<1>3. PICK k \in Nat : m + k = n
  <2>1. n - m \in Nat /\ m + (n - m) = n
    OBVIOUS
  <2> QED  BY <2>1
<1>4. k \in S
  BY <1>1, <1>2, SetInduction
<1>5. m + k <= n
  BY <1>3
<1>6. f[m + k] = g[m + k]
  BY <1>4, <1>5 DEF S
<1> QED  BY <1>3, <1>6

LEMMA RunSteps ==
    ASSUME NEW f, NEW view, NEW log, NEW m \in Nat, NEW n \in Nat, m <= n,
           IsRun(f, view, log, m, n)
    PROVE  /\ f[m] = view
           /\ \A i \in (m + 1)..n : f[i] = ApplyEvent(f[i - 1], log[i])
<1>1. \A i \in m..n : f[i] = IF i = m THEN view ELSE ApplyEvent(f[i - 1], log[i])
  BY DEF IsRun
<1>2. m \in m..n /\ \A i \in (m + 1)..n : i \in m..n /\ i # m
  OBVIOUS
<1> QED  BY <1>1, <1>2

LEMMA ReplayIsRun ==
    ASSUME NEW view, NEW log, NEW m \in Nat, NEW n \in Nat, m <= n
    PROVE  \E f : IsRun(f, view, log, m, n) /\ Replay(view, log, m, n) = f[n]
<1> DEFINE a == CHOOSE f : IsRun(f, view, log, m, n)
<1>1. n - m \in Nat /\ m + (n - m) = n
  OBVIOUS
<1>2. \E f : IsRun(f, view, log, m, n)
  <2>1. \E f : IsRun(f, view, log, m, m + (n - m))
    BY <1>1, RunExists
  <2> QED  BY <1>1, <2>1
<1>3. IsRun(a, view, log, m, n)
  BY <1>2, Zenon
<1>4. Replay(view, log, m, n) = a[n]
  BY Zenon DEF Replay, IsRun
<1> QED  BY <1>3, <1>4

\* Replaying nothing, and one event more.
LEMMA ReplayNothing ==
    ASSUME NEW view, NEW log, NEW m \in Nat
    PROVE  Replay(view, log, m, m) = view
<1>1. PICK f : IsRun(f, view, log, m, m) /\ Replay(view, log, m, m) = f[m]
  BY ReplayIsRun
<1>2. m \in m..m
  OBVIOUS
<1> QED  BY <1>1, <1>2 DEF IsRun

LEMMA ReplayAgrees ==
    ASSUME NEW view, NEW log, NEW other, NEW m \in Nat, NEW n \in Nat, m <= n,
           \A i \in (m + 1)..n : log[i] = other[i]
    PROVE  Replay(view, log, m, n) = Replay(view, other, m, n)
<1>1. PICK f : IsRun(f, view, log, m, n) /\ Replay(view, log, m, n) = f[n]
  BY ReplayIsRun
<1>2. PICK g : IsRun(g, view, other, m, n) /\ Replay(view, other, m, n) = g[n]
  BY ReplayIsRun
<1>3. f[m] = view /\ \A i \in (m + 1)..n : f[i] = ApplyEvent(f[i - 1], log[i])
  BY <1>1, RunSteps
<1>4. g[m] = view /\ \A i \in (m + 1)..n : g[i] = ApplyEvent(g[i - 1], other[i])
  BY <1>2, RunSteps
<1>5. \A i \in (m + 1)..n : f[i - 1] = g[i - 1] => f[i] = g[i]
  <2>1. ASSUME NEW i \in (m + 1)..n, f[i - 1] = g[i - 1] PROVE f[i] = g[i]
    <3>1. f[i] = ApplyEvent(f[i - 1], log[i]) /\ g[i] = ApplyEvent(g[i - 1], other[i])
      BY <1>3, <1>4
    <3>2. log[i] = other[i]
      OBVIOUS
    <3> QED  BY <2>1, <3>1, <3>2
  <2> QED  BY <2>1
<1>6. f[n] = g[n]
  <2>1. f[m] = g[m]
    BY <1>3, <1>4
  <2> QED  BY <1>5, <2>1, StayEqual
<1> QED  BY <1>1, <1>2, <1>6

LEMMA ReplayOneMore ==
    ASSUME NEW view, NEW log, NEW m \in Nat, NEW n \in Nat, m <= n
    PROVE  Replay(view, log, m, n + 1) = ApplyEvent(Replay(view, log, m, n), log[n + 1])
<1>1. PICK f : IsRun(f, view, log, m, n) /\ Replay(view, log, m, n) = f[n]
  BY ReplayIsRun
<1>0. n + 1 \in Nat /\ m <= n + 1 /\ n + 1 \in (m + 1)..(n + 1) /\ (n + 1) - 1 = n
  OBVIOUS
<1>2. PICK g : IsRun(g, view, log, m, n + 1) /\ Replay(view, log, m, n + 1) = g[n + 1]
  BY <1>0, ReplayIsRun
<1>3. f[m] = view /\ \A i \in (m + 1)..n : f[i] = ApplyEvent(f[i - 1], log[i])
  BY <1>1, RunSteps
<1>4. g[m] = view /\ \A i \in (m + 1)..(n + 1) : g[i] = ApplyEvent(g[i - 1], log[i])
  BY <1>0, <1>2, RunSteps
<1>5. \A i \in (m + 1)..n : f[i - 1] = g[i - 1] => f[i] = g[i]
  BY <1>3, <1>4
<1>6. f[n] = g[n]
  <2>1. f[m] = g[m]
    BY <1>3, <1>4
  <2> QED  BY <1>5, <2>1, StayEqual
<1>7. g[n + 1] = ApplyEvent(g[n], log[n + 1])
  BY <1>0, <1>4
<1> QED  BY <1>1, <1>2, <1>6, <1>7

LEMMA UpTo ==
    ASSUME NEW m \in Nat, NEW p \in Nat, m <= p, NEW S, m \in S,
           \A n \in Nat : m <= n /\ n < p /\ n \in S => n + 1 \in S
    PROVE  p \in S
<1> DEFINE T == {j \in Nat : m + j <= p => m + j \in S}
<1>1. 0 \in T
  <2>1. m + 0 = m
    OBVIOUS
  <2> QED  BY <2>1
<1>2. ASSUME NEW j \in Nat, j \in T PROVE j + 1 \in T
  <2>1. /\ m + j \in Nat /\ m <= m + j /\ (m + j) + 1 = m + (j + 1)
        /\ m + (j + 1) <= p => m + j < p /\ m + j <= p
    OBVIOUS
  <2> QED  BY <1>2, <2>1
<1> HIDE DEF T
<1>3. PICK k \in Nat : m + k = p
  <2>1. p - m \in Nat /\ m + (p - m) = p
    OBVIOUS
  <2> QED  BY <2>1
<1>4. k \in T
  BY <1>1, <1>2, SetInduction
<1> QED  BY <1>3, <1>4 DEF T

\* A part of a log holds events.
EventsIn(log, m, n) == \A i \in (m + 1)..n : log[i] \in Events

LEMMA ReplayTyped ==
    ASSUME NEW view \in Views, NEW log, NEW m \in Nat, NEW p \in Nat, m <= p, EventsIn(log, m, p)
    PROVE  Replay(view, log, m, p) \in Views
<1> DEFINE S == {n \in Nat : Replay(view, log, m, n) \in Views}
<1>1. m \in S
  BY ReplayNothing
<1>2. ASSUME NEW n \in Nat, m <= n, n < p, n \in S PROVE n + 1 \in S
  <2>1. log[n + 1] \in Events
    BY <1>2 DEF EventsIn
  <2> QED  BY <1>2, <2>1, ReplayOneMore, ApplyIsTotal
<1> HIDE DEF S
<1>3. p \in S
  BY <1>1, <1>2, UpTo
<1> QED  BY <1>3 DEF S

\* A replay may be interrupted.
LEMMA ReplayInParts ==
    ASSUME NEW view, NEW log, NEW m \in Nat, NEW k \in Nat, NEW p \in Nat, m <= k, k <= p
    PROVE  Replay(Replay(view, log, m, k), log, k, p) = Replay(view, log, m, p)
<1> DEFINE S == {n \in Nat : Replay(Replay(view, log, m, k), log, k, n) = Replay(view, log, m, n)}
<1>1. k \in S
  BY ReplayNothing
<1>2. ASSUME NEW n \in Nat, k <= n, n < p, n \in S PROVE n + 1 \in S
  <2>1. m <= n
    BY <1>2
  <2>2. Replay(view, log, m, n + 1) = ApplyEvent(Replay(view, log, m, n), log[n + 1])
    BY <2>1, ReplayOneMore
  <2>3. Replay(Replay(view, log, m, k), log, k, n + 1)
          = ApplyEvent(Replay(Replay(view, log, m, k), log, k, n), log[n + 1])
    BY <1>2, ReplayOneMore
  <2> QED  BY <1>2, <2>2, <2>3
<1> HIDE DEF S
<1>3. p \in S
  BY <1>1, <1>2, UpTo
<1> QED  BY <1>3 DEF S

-----------------------------------------------------------------------------
(* One topic, one key                                                      *)

\* What an event does to the registration of t, and to what is stored under key.
TopicAfter(registered, t, e) ==
    CASE e.kind = "register" /\ e.topic = t   -> TRUE
      [] e.kind = "deregister" /\ e.topic = t -> FALSE
      [] OTHER                                -> registered

Resets(e, key) ==
    \/ e.kind = "unsubscribe" /\ e.key = key
    \/ e.kind = "deregister" /\ e.topic = key[1]

EntryAfter(x, key, e) ==
    IF Resets(e, key) THEN NoSub
    ELSE IF e.kind = "subscribe" /\ e.key = key THEN Subscribed(x, e)
    ELSE IF e.kind = "stale" /\ e.key = key /\ Names(e, x) THEN [x EXCEPT !.stale = TRUE]
    ELSE x

LEMMA TopicOfApply ==
    ASSUME NEW view \in Views, NEW e \in Events, NEW t \in Topics
    PROVE  t \in ApplyEvent(view, e).topics <=> TopicAfter(t \in view.topics, t, e)
<1>1. CASE e.kind = "register"
  BY <1>1 DEF ApplyEvent, ApplyTopicRegistration, TopicAfter
<1>2. CASE e.kind = "deregister"
  BY <1>2 DEF ApplyEvent, ApplyTopicDeregistration, TopicAfter
<1>3. CASE e.kind \in {"subscribe", "stale", "unsubscribe"}
  BY <1>3 DEF ApplyEvent, ApplySubscription, ApplyStaleSubscription, ApplyUnsubscription, Store,
     TopicAfter
<1> QED  BY <1>1, <1>2, <1>3, EventKinds

LEMMA EntryOfApply ==
    ASSUME NEW view \in Views, NEW e \in Events, NEW key \in Keys
    PROVE  ApplyEvent(view, e).subs[key] = EntryAfter(view.subs[key], key, e)
<1>1. CASE e.kind = "register"
  BY <1>1 DEF ApplyEvent, ApplyTopicRegistration, EntryAfter, Resets
<1>2. CASE e.kind = "deregister"
  BY <1>2 DEF ApplyEvent, ApplyTopicDeregistration, EntryAfter, Resets
<1>3. CASE e.kind = "subscribe"
  BY <1>3 DEF ApplyEvent, ApplySubscription, Store, EntryAfter, Resets
<1>4. CASE e.kind = "stale"
  BY <1>4 DEF ApplyEvent, ApplyStaleSubscription, Store, EntryAfter, Resets
<1>5. CASE e.kind = "unsubscribe"
  BY <1>5 DEF ApplyEvent, ApplyUnsubscription, Store, EntryAfter, Resets
<1> QED  BY <1>1, <1>2, <1>3, <1>4, <1>5, EventKinds

\* The same subscription, whatever its mark.
SameLease(x, y) == x # NoSub /\ y # NoSub /\ x.lease = y.lease /\ x.server = y.server

\* An event that does not reset a key keeps the subscription stored under it.
LEMMA EntryKept ==
    ASSUME NEW x \in Entries, NEW key \in Keys, NEW e \in Events, ~Resets(e, key)
    PROVE  SameLease(EntryAfter(x, key, e), x)
<1>1. x # NoSub /\ [x EXCEPT !.stale = TRUE] \in Entries /\ [x EXCEPT !.stale = FALSE] \in Entries
  BY NoSubAssumption DEF Entries
<1>2. /\ [x EXCEPT !.stale = TRUE] # NoSub /\ [x EXCEPT !.stale = FALSE] # NoSub
  BY <1>1, NoSubAssumption
<1> QED  BY <1>1, <1>2 DEF EntryAfter, Subscribed, SameLease, Entries

\* The event's effect on x is final: it has it again on what became of x.
LEMMA EntrySettles ==
    ASSUME NEW x \in Entries \cup {NoSub}, NEW z \in Entries \cup {NoSub},
           NEW key \in Keys, NEW e \in Events,
           \/ z = x
           \/ SameLease(z, EntryAfter(x, key, e))
           \/ EntryAfter(x, key, e) = NoSub /\ x # NoSub,
           EntryAfter(x, key, e) = x => z = x
    PROVE  EntryAfter(z, key, e) = EntryAfter(x, key, e)
<1> SUFFICES ASSUME EntryAfter(x, key, e) # x, z # x
             PROVE  EntryAfter(z, key, e) = EntryAfter(x, key, e)
  OBVIOUS
<1>1. CASE Resets(e, key)
  BY <1>1 DEF EntryAfter
<1>2. CASE ~Resets(e, key)
  <2>1. SameLease(z, EntryAfter(x, key, e))
    <3>1. CASE x = NoSub
      BY <3>1
    <3>2. CASE x # NoSub
      BY <1>2, <3>2, EntryKept DEF SameLease
    <3> QED  BY <3>1, <3>2
  <2>2. z \in Entries /\ z # NoSub
    BY <2>1 DEF SameLease
  <2>3. CASE e.kind = "subscribe" /\ e.key = key
    <3>1. EntryAfter(x, key, e) = Subscribed(x, e) /\ EntryAfter(z, key, e) = [z EXCEPT !.stale = FALSE]
      BY <1>2, <2>2, <2>3 DEF EntryAfter, Subscribed
    <3>2. Subscribed(x, e) \in Entries /\ Subscribed(x, e).stale = FALSE
      <4>1. e \in SubEvents
        BY <2>3, EventKinds
      <4> QED  BY <4>1, SubscribedEntry DEF Subscribed, Entries, SubEvents
    <3> QED  BY <2>1, <2>2, <3>1, <3>2 DEF SameLease, Entries
  <2>4. CASE e.kind = "stale" /\ e.key = key /\ Names(e, x)
    <3>1. EntryAfter(x, key, e) = [x EXCEPT !.stale = TRUE]
      BY <1>2, <2>4 DEF EntryAfter
    <3>2. x \in Entries
      BY <2>4 DEF Names
    <3>3. Names(e, z)
      BY <2>1, <2>2, <2>4, <3>1, <3>2 DEF Names, SameLease, Entries
    <3>4. EntryAfter(z, key, e) = [z EXCEPT !.stale = TRUE]
      BY <1>2, <2>4, <3>3 DEF EntryAfter
    <3> QED  BY <2>1, <2>2, <3>1, <3>2, <3>4 DEF SameLease, Entries
  <2> QED  BY <1>2, <2>3, <2>4 DEF EntryAfter
<1> QED  BY <1>1, <1>2

-----------------------------------------------------------------------------
(* A log replayed over a view that has seen part of it                     *)

\* What a replay makes of a topic, or of a key, depends on what was there only.
LEMMA ReplayOfTopic ==
    ASSUME NEW v \in Views, NEW w \in Views, NEW log, NEW m \in Nat, NEW p \in Nat, m <= p,
           EventsIn(log, m, p), NEW t \in Topics, t \in v.topics <=> t \in w.topics
    PROVE  t \in Replay(v, log, m, p).topics <=> t \in Replay(w, log, m, p).topics
<1> DEFINE S == {n \in Nat : n <= p =>
                   (t \in Replay(v, log, m, n).topics <=> t \in Replay(w, log, m, n).topics)}
<1>1. m \in S
  BY ReplayNothing
<1>2. ASSUME NEW n \in Nat, m <= n, n < p, n \in S PROVE n + 1 \in S
  <2>1. log[n + 1] \in Events /\ EventsIn(log, m, n) /\ n <= p
    BY <1>2 DEF EventsIn
  <2>2. Replay(v, log, m, n) \in Views /\ Replay(w, log, m, n) \in Views
    BY <1>2, <2>1, ReplayTyped
  <2>3. /\ Replay(v, log, m, n + 1) = ApplyEvent(Replay(v, log, m, n), log[n + 1])
        /\ Replay(w, log, m, n + 1) = ApplyEvent(Replay(w, log, m, n), log[n + 1])
    BY <1>2, ReplayOneMore
  <2>4. t \in Replay(v, log, m, n).topics <=> t \in Replay(w, log, m, n).topics
    BY <1>2, <2>1
  <2>5. /\ t \in Replay(v, log, m, n + 1).topics <=> TopicAfter(t \in Replay(v, log, m, n).topics, t, log[n + 1])
        /\ t \in Replay(w, log, m, n + 1).topics <=> TopicAfter(t \in Replay(w, log, m, n).topics, t, log[n + 1])
    BY <2>1, <2>2, <2>3, TopicOfApply
  <2>6. t \in Replay(v, log, m, n + 1).topics <=> t \in Replay(w, log, m, n + 1).topics
    BY <2>4, <2>5 DEF TopicAfter
  <2> QED  BY <2>6
<1> HIDE DEF S
<1>3. p \in S
  BY <1>1, <1>2, UpTo
<1> QED  BY <1>3 DEF S

\* What a replay makes of a key depends on the events and on what the view had for
\* that key, on no topic and no other key: the claims about replays can be checked
\* one key at a time.
THEOREM KeysAreIndependent ==
    ASSUME NEW v \in Views, NEW w \in Views, NEW log, NEW m \in Nat, NEW p \in Nat, m <= p,
           EventsIn(log, m, p), NEW key \in Keys, v.subs[key] = w.subs[key]
    PROVE  Replay(v, log, m, p).subs[key] = Replay(w, log, m, p).subs[key]
<1> DEFINE S == {n \in Nat : n <= p =>
                   Replay(v, log, m, n).subs[key] = Replay(w, log, m, n).subs[key]}
<1>1. m \in S
  BY ReplayNothing
<1>2. ASSUME NEW n \in Nat, m <= n, n < p, n \in S PROVE n + 1 \in S
  <2>1. log[n + 1] \in Events /\ EventsIn(log, m, n) /\ n <= p
    BY <1>2 DEF EventsIn
  <2>2. Replay(v, log, m, n) \in Views /\ Replay(w, log, m, n) \in Views
    BY <1>2, <2>1, ReplayTyped
  <2>3. /\ Replay(v, log, m, n + 1) = ApplyEvent(Replay(v, log, m, n), log[n + 1])
        /\ Replay(w, log, m, n + 1) = ApplyEvent(Replay(w, log, m, n), log[n + 1])
    BY <1>2, ReplayOneMore
  <2>4. Replay(v, log, m, n + 1).subs[key] = Replay(w, log, m, n + 1).subs[key]
    BY <1>2, <2>1, <2>2, <2>3, EntryOfApply
  <2> QED  BY <2>4
<1> HIDE DEF S
<1>3. p \in S
  BY <1>1, <1>2, UpTo
<1> QED  BY <1>3 DEF S

\* The part of a log that resets a key makes one thing of every view; any other
\* part keeps the subscription a view has there.
Forgets(log, m, n, key) ==
    \A v, w \in Views : Replay(v, log, m, n).subs[key] = Replay(w, log, m, n).subs[key]

Keeps(log, m, n, key) ==
    \A v \in Views : v.subs[key] # NoSub => SameLease(Replay(v, log, m, n).subs[key], v.subs[key])

LEMMA ForgetsOrKeeps ==
    ASSUME NEW log, NEW m \in Nat, NEW p \in Nat, m <= p, EventsIn(log, m, p), NEW key \in Keys
    PROVE  Forgets(log, m, p, key) \/ Keeps(log, m, p, key)
<1> DEFINE S == {n \in Nat : n <= p => Forgets(log, m, n, key) \/ Keeps(log, m, n, key)}
<1>1. m \in S
  <2>1. \A v \in Views : v.subs[key] # NoSub => SameLease(v.subs[key], v.subs[key])
    BY DEF SameLease
  <2> QED  BY <2>1, ReplayNothing DEF Keeps
<1>2. ASSUME NEW n \in Nat, m <= n, n < p, n \in S PROVE n + 1 \in S
  <2> DEFINE e == log[n + 1]
  <2>1. e \in Events /\ EventsIn(log, m, n) /\ n <= p
    BY <1>2 DEF EventsIn
  <2>2. ASSUME NEW v \in Views
        PROVE  /\ Replay(v, log, m, n).subs[key] \in Entries \cup {NoSub}
               /\ Replay(v, log, m, n + 1).subs[key]
                    = EntryAfter(Replay(v, log, m, n).subs[key], key, e)
    <3>1. Replay(v, log, m, n) \in Views
      BY <1>2, <2>1, ReplayTyped
    <3>2. Replay(v, log, m, n + 1) = ApplyEvent(Replay(v, log, m, n), e)
      BY <1>2, ReplayOneMore
    <3> HIDE DEF e
    <3> QED  BY <2>1, <3>1, <3>2, EntryOfApply DEF Views
  <2> HIDE DEF e
  <2>3. CASE Resets(e, key)
    <3>1. Forgets(log, m, n + 1, key)
      BY <2>2, <2>3 DEF Forgets, EntryAfter
    <3> QED  BY <3>1
  <2>4. CASE Forgets(log, m, n, key)
    <3>1. Forgets(log, m, n + 1, key)
      BY <2>2, <2>4 DEF Forgets
    <3> QED  BY <3>1
  <2>5. CASE ~Resets(e, key) /\ Keeps(log, m, n, key)
    <3>1. ASSUME NEW v \in Views, v.subs[key] # NoSub
          PROVE  SameLease(Replay(v, log, m, n + 1).subs[key], v.subs[key])
      <4> DEFINE x == Replay(v, log, m, n).subs[key]
      <4>1. SameLease(x, v.subs[key])
        BY <2>5, <3>1 DEF Keeps
      <4>2. x \in Entries
        BY <2>2, <4>1 DEF SameLease
      <4>3. Replay(v, log, m, n + 1).subs[key] = EntryAfter(x, key, e)
        BY <2>2
      <4> HIDE DEF x
      <4>4. SameLease(EntryAfter(x, key, e), x)
        BY <2>1, <2>5, <4>2, EntryKept
      <4> QED  BY <4>1, <4>3, <4>4 DEF SameLease
    <3>2. Keeps(log, m, n + 1, key)
      BY <3>1 DEF Keeps
    <3> QED  BY <3>2
  <2> QED  BY <1>2, <2>1, <2>3, <2>4, <2>5
<1> HIDE DEF S
<1>3. p \in S
  BY <1>1, <1>2, UpTo
<1> QED  BY <1>3 DEF S

LEMMA SameView ==
    ASSUME NEW v \in Views, NEW w \in Views,
           \A t \in Topics : t \in v.topics <=> t \in w.topics,
           \A key \in Keys : v.subs[key] = w.subs[key]
    PROVE  v = w
<1>1. v.topics = w.topics /\ v.subs = w.subs
  BY DEF Views
<1> QED  BY <1>1 DEF Views

\* A replay that was done may be done again.
LEMMA ReplayTwice ==
    ASSUME NEW view \in Views, NEW log, NEW m \in Nat, NEW p \in Nat, m <= p, EventsIn(log, m, p)
    PROVE  Replay(Replay(view, log, m, p), log, m, p) = Replay(view, log, m, p)
<1> DEFINE S == {n \in Nat : n <= p =>
                   Replay(Replay(view, log, m, n), log, m, n) = Replay(view, log, m, n)}
<1>1. m \in S
  BY ReplayNothing
<1>2. ASSUME NEW n \in Nat, m <= n, n < p, n \in S PROVE n + 1 \in S
  <2> DEFINE e == log[n + 1]
             y == Replay(view, log, m, n)
             ye == ApplyEvent(y, e)
             z == Replay(ye, log, m, n)
  <2>1. e \in Events /\ EventsIn(log, m, n) /\ n <= p
    BY <1>2 DEF EventsIn
  <2>2. y \in Views
    BY <1>2, <2>1, ReplayTyped
  <2>3. ye \in Views
    BY <2>1, <2>2, ApplyIsTotal
  <2>4. z \in Views
    BY <1>2, <2>1, <2>3, ReplayTyped
  <2>5. Replay(y, log, m, n) = y
    BY <1>2, <2>1
  <2>6. Replay(view, log, m, n + 1) = ye
    BY <1>2, ReplayOneMore
  <2>7. Replay(ye, log, m, n + 1) = ApplyEvent(z, e)
    BY <1>2, ReplayOneMore
  <2>8. ApplyEvent(z, e) \in Views
    BY <2>1, <2>4, ApplyIsTotal
  <2>9. ASSUME NEW t \in Topics PROVE t \in ApplyEvent(z, e).topics <=> t \in ye.topics
    <3>1. (t \in ye.topics <=> t \in y.topics) => (t \in z.topics <=> t \in y.topics)
      BY <1>2, <2>1, <2>2, <2>3, <2>5, ReplayOfTopic
    <3>2. /\ t \in ye.topics <=> TopicAfter(t \in y.topics, t, e)
          /\ t \in ApplyEvent(z, e).topics <=> TopicAfter(t \in z.topics, t, e)
      BY <2>1, <2>2, <2>4, TopicOfApply
    <3> HIDE DEF e, y, ye, z
    <3> QED  BY <3>1, <3>2 DEF TopicAfter
  <2>10. ASSUME NEW key \in Keys PROVE ApplyEvent(z, e).subs[key] = ye.subs[key]
    <3>1. /\ ye.subs[key] = EntryAfter(y.subs[key], key, e)
          /\ ApplyEvent(z, e).subs[key] = EntryAfter(z.subs[key], key, e)
      BY <2>1, <2>2, <2>4, EntryOfApply
    <3>2. ye.subs[key] = y.subs[key] => z.subs[key] = y.subs[key]
      BY <1>2, <2>1, <2>2, <2>3, <2>5, KeysAreIndependent
    <3>3. \/ z.subs[key] = y.subs[key]
          \/ SameLease(z.subs[key], ye.subs[key])
          \/ ye.subs[key] = NoSub
      <4>1. CASE Forgets(log, m, n, key)
        BY <2>2, <2>3, <2>5, <4>1 DEF Forgets
      <4>2. CASE Keeps(log, m, n, key)
        BY <2>3, <4>2 DEF Keeps
      <4> QED  BY <1>2, <2>1, <4>1, <4>2, ForgetsOrKeeps
    <3>4. y.subs[key] \in Entries \cup {NoSub} /\ z.subs[key] \in Entries \cup {NoSub}
      BY <2>2, <2>4 DEF Views
    <3> HIDE DEF e, y, ye, z
    <3>5. EntryAfter(z.subs[key], key, e) = EntryAfter(y.subs[key], key, e)
      BY <2>1, <3>1, <3>2, <3>3, <3>4, EntrySettles
    <3> QED  BY <3>1, <3>5
  <2> HIDE DEF e, y, ye, z
  <2>11. ApplyEvent(z, e) = ye
    BY <2>3, <2>8, <2>9, <2>10, SameView
  <2> QED  BY <2>6, <2>7, <2>11
<1> HIDE DEF S
<1>3. p \in S
  BY <1>1, <1>2, UpTo
<1> QED  BY <1>3 DEF S

\* Replaying a log over a view that has seen the beginning of it.
LEMMA ReplayAbsorbs ==
    ASSUME NEW view \in Views, NEW log, NEW m \in Nat, NEW k \in Nat, NEW p \in Nat, m <= k, k <= p,
           EventsIn(log, m, p)
    PROVE  Replay(Replay(view, log, m, k), log, m, p) = Replay(view, log, m, p)
<1> DEFINE u == Replay(view, log, m, k)
<1>1. EventsIn(log, m, k)
  BY DEF EventsIn
<1>2. Replay(u, log, m, k) = u
  BY <1>1, ReplayTwice
<1>3. Replay(u, log, m, p) = Replay(Replay(u, log, m, k), log, k, p)
  BY ReplayInParts
<1>4. Replay(u, log, k, p) = Replay(view, log, m, p)
  BY ReplayInParts
<1> HIDE DEF u
<1>5. Replay(u, log, m, p) = Replay(view, log, m, p)
  BY <1>2, <1>3, <1>4
<1> QED  BY <1>5 DEF u

LEMMA EmptyViewTyped == EmptyView \in Views
BY DEF EmptyView, Views

LEMMA MaterializedTyped ==
    ASSUME NEW log, NEW n \in Nat, EventsIn(log, 0, n)
    PROVE  Materialized(log, n) \in Views
BY EmptyViewTyped, ReplayTyped DEF Materialized

\* What a restart relies on: a snapshot of the first k events, replayed over with
\* what the broker still has (all but the first r), once up to j and, after a crash,
\* again to the end, gives the view of a process that never stopped.
THEOREM ReplayRecovers ==
    ASSUME NEW log, NEW n \in Nat, EventsIn(log, 0, n),
           NEW k \in 0..n, NEW r \in 0..k, NEW j \in r..n
    PROVE  Replay(Replay(Materialized(log, k), log, r, j), log, r, n) = Materialized(log, n)
<1> DEFINE v == Materialized(log, r)
<1>0. k \in Nat /\ r \in Nat /\ j \in Nat /\ r <= k /\ k <= n /\ r <= j /\ j <= n /\ r <= n /\ 0 <= r
  OBVIOUS
<1>1. EventsIn(log, 0, r) /\ EventsIn(log, r, n) /\ EventsIn(log, r, k) /\ EventsIn(log, r, j)
  BY <1>0 DEF EventsIn
<1>2. v \in Views
  BY <1>0, <1>1, MaterializedTyped
<1>3. Materialized(log, k) = Replay(v, log, r, k) /\ Materialized(log, n) = Replay(v, log, r, n)
  BY <1>0, ReplayInParts DEF Materialized
<1> HIDE DEF v
<1>4. Replay(v, log, r, k) \in Views
  BY <1>0, <1>1, <1>2, ReplayTyped
<1>5. Replay(Replay(Replay(v, log, r, k), log, r, j), log, r, n) = Replay(Replay(v, log, r, k), log, r, n)
  BY <1>0, <1>1, <1>4, ReplayAbsorbs
<1>6. Replay(Replay(v, log, r, k), log, r, n) = Replay(v, log, r, n)
  BY <1>0, <1>1, <1>2, ReplayAbsorbs
<1> QED  BY <1>3, <1>5, <1>6

-----------------------------------------------------------------------------
(* Publishing an event.                                                    *)

\* What was replayed stays what it was, and the new event comes last.
LEMMA ReplayOfPublished ==
    ASSUME NEW view, NEW log \in Seq(Events), NEW e \in Events, NEW m \in Nat, m <= Len(log)
    PROVE  /\ \A n \in m..Len(log) : Replay(view, Append(log, e), m, n) = Replay(view, log, m, n)
           /\ Replay(view, Append(log, e), m, Len(log) + 1)
                = ApplyEvent(Replay(view, log, m, Len(log)), e)
<1>1. /\ Len(log) \in Nat /\ Append(log, e)[Len(log) + 1] = e
      /\ \A i \in 1..Len(log) : Append(log, e)[i] = log[i]
  OBVIOUS
<1>2. ASSUME NEW n \in m..Len(log)
      PROVE  Replay(view, Append(log, e), m, n) = Replay(view, log, m, n)
  <2>1. n \in Nat /\ m <= n /\ \A i \in (m + 1)..n : Append(log, e)[i] = log[i]
    BY <1>1, <1>2
  <2> DEFINE longer == Append(log, e)
  <2>2. \A i \in (m + 1)..n : longer[i] = log[i]
    BY <2>1
  <2> HIDE DEF longer
  <2>3. Replay(view, longer, m, n) = Replay(view, log, m, n)
    BY <2>1, <2>2, ReplayAgrees
  <2> QED  BY <2>3 DEF longer
<1>3. Len(log) \in m..Len(log)
  BY <1>1
<1>4. Replay(view, Append(log, e), m, Len(log) + 1)
        = ApplyEvent(Replay(view, Append(log, e), m, Len(log)), Append(log, e)[Len(log) + 1])
  <2> DEFINE longer == Append(log, e)
  <2> HIDE DEF longer
  <2>1. Replay(view, longer, m, Len(log) + 1)
          = ApplyEvent(Replay(view, longer, m, Len(log)), longer[Len(log) + 1])
    BY <1>1, ReplayOneMore
  <2> QED  BY <2>1 DEF longer
<1>5. Replay(view, Append(log, e), m, Len(log)) = Replay(view, log, m, Len(log))
  BY <1>2, <1>3
<1> QED  BY <1>1, <1>2, <1>4, <1>5
=============================================================================
