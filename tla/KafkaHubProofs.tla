---------------------------- MODULE KafkaHubProofs ----------------------------
(***************************************************************************)
(* The hubs' projections, consumers and owners, for any number of hubs,    *)
(* topics, callbacks and leases, any snapshot a hub starts from and any    *)
(* crashes.                                                                *)
(***************************************************************************)
EXTENDS KafkaHubProperties, StateLogProofs, FiniteSetTheorems

USE BoundsAssumption, NoneAssumption

-----------------------------------------------------------------------------
(* Types                                                                   *)

\* A stored object has an identity.
IdentityInv == \A h \in Servers, k \in Keys : Stored(h, k) # NoSub => gen[h][k] >= 1

\* A process that is not running has started nothing.
IdleInv == \A h \in Servers : ~Running(h) =>
               /\ starting[h] = None /\ toLaunch[h] = {}
               /\ \A k \in Keys : ~attached[h][k]

\* An object is started once: what can still be started has no worker.
StartedOnce(w) ==
    /\ Running(w.server) /\ w.nth = 1 /\ w.gen <= gen[w.server][w.key]
    /\ w.gen = gen[w.server][w.key] =>
         \/ attached[w.server][w.key]
         \/ Stored(w.server, w.key) = NoSub
         \/ Stored(w.server, w.key).stale

OnceInv == \A w \in workers : StartedOnce(w)

TypeInv == TypeOK /\ IdentityInv /\ IdleInv /\ OnceInv

LEMMA LogIsTyped ==
    ASSUME TypeOK
    PROVE  /\ Len(log) \in Nat /\ DOMAIN log = 1..Len(log)
           /\ \A i \in 1..Len(log) : log[i] \in Events
           /\ \A m \in Nat, n \in 0..Len(log) : EventsIn(log, m, n)
<1>1. log \in Seq(Events)
  BY DEF TypeOK
<1>2. Len(log) \in Nat /\ DOMAIN log = 1..Len(log) /\ \A i \in 1..Len(log) : log[i] \in Events
  BY <1>1
<1> QED  BY <1>2 DEF EventsIn

LEMMA HubTyped ==
    ASSUME TypeOK, NEW h \in Servers
    PROVE  /\ view[h] \in Views /\ view[h].topics \in SUBSET Topics
           /\ cursor[h] \in 0..Len(log) /\ replayEnd[h] \in 0..Len(log)
           /\ \A k \in Keys : /\ Stored(h, k) \in Entries \cup {NoSub}
                              /\ gen[h][k] \in 0..MaxGen /\ attached[h][k] \in BOOLEAN
<1>1. view[h] \in Views
  BY DEF TypeOK
<1>2. view[h].topics \in SUBSET Topics /\ view[h].subs \in [Keys -> Entries \cup {NoSub}]
  BY <1>1 DEF Views
<1> QED  BY <1>1, <1>2 DEF TypeOK, Stored

LEMMA EntryTyped ==
    ASSUME NEW x \in Entries
    PROVE  x # NoSub /\ x.lease \in Leases /\ x.server \in Servers /\ x.stale \in BOOLEAN
BY NoSubAssumption DEF Entries

LEMMA WorkerTyped ==
    ASSUME NEW w \in Workers
    PROVE  /\ w.server \in Servers /\ w.key \in Keys /\ w.gen \in 1..MaxGen /\ w.gen \in Nat
           /\ w.nth \in 1..2 /\ w.lease \in Leases
           /\ w.step \in {"consuming", "gone", "failed"} /\ w.cancelled \in BOOLEAN
           /\ \A step \in {"consuming", "gone", "failed"} : [w EXCEPT !.step = step] \in Workers
           /\ \A b \in BOOLEAN : [w EXCEPT !.cancelled = b] \in Workers
           /\ GoneEvent(w) \in Events /\ StaleEvent(w) \in Events
BY DEF Workers, GoneEvent, StaleEvent, Events, UnsubEvents, SubEvents

-----------------------------------------------------------------------------
(* What Project does                                                       *)

\* u is w, but for the mark of cancellation.
SameWorker(u, w) ==
    /\ u.server = w.server /\ u.key = w.key /\ u.gen = w.gen /\ u.nth = w.nth
    /\ u.lease = w.lease /\ u.step = w.step

Hit(w, h, v) ==
    w.server = h /\ w.key \in Touched(h, v) /\ attached[h][w.key] /\ w.gen = gen[h][w.key]

LEMMA ProjectFacts ==
    ASSUME TypeOK, NEW h \in Servers, NEW v \in Views, CanCreate(h, v), Project(h, v)
    PROVE  /\ view' = [view EXCEPT ![h] = v] /\ view' \in [Servers -> Views]
           /\ \A g \in Servers : view'[g] = IF g = h THEN v ELSE view[g]
           /\ gen' \in [Servers -> [Keys -> 0..MaxGen]]
           /\ \A g \in Servers, k \in Keys :
                 gen'[g][k] = IF g = h /\ k \in Created(h, v) THEN gen[g][k] + 1 ELSE gen[g][k]
           /\ attached' \in [Servers -> [Keys -> BOOLEAN]]
           /\ \A g \in Servers, k \in Keys :
                 attached'[g][k] <=> attached[g][k] /\ ~(g = h /\ k \in Touched(h, v))
           /\ workers' \subseteq Workers
           /\ \A u \in workers' : \E w \in workers :
                 SameWorker(u, w) /\ (u.cancelled <=> w.cancelled \/ Hit(w, h, v))
           /\ \A w \in workers : \E u \in workers' :
                 SameWorker(u, w) /\ (u.cancelled <=> w.cancelled \/ Hit(w, h, v))
<1>1. /\ view \in [Servers -> Views] /\ gen \in [Servers -> [Keys -> 0..MaxGen]]
      /\ attached \in [Servers -> [Keys -> BOOLEAN]] /\ workers \subseteq Workers
  BY DEF TypeOK
<1>2. view' = [view EXCEPT ![h] = v]
  BY DEF Project
<1>3. /\ view' \in [Servers -> Views]
      /\ \A g \in Servers : view'[g] = IF g = h THEN v ELSE view[g]
  BY <1>1, <1>2
<1>4. gen' = [gen EXCEPT ![h] =
                [k \in Keys |-> IF k \in Created(h, v) THEN gen[h][k] + 1 ELSE gen[h][k]]]
  BY <1>1 DEF Project
<1>5. \A g \in Servers, k \in Keys :
          gen'[g][k] = IF g = h /\ k \in Created(h, v) THEN gen[g][k] + 1 ELSE gen[g][k]
  BY <1>1, <1>4
<1>6. gen' \in [Servers -> [Keys -> 0..MaxGen]]
  <2>1. \A k \in Keys : (IF k \in Created(h, v) THEN gen[h][k] + 1 ELSE gen[h][k]) \in 0..MaxGen
    BY <1>1 DEF CanCreate
  <2>2. [k \in Keys |-> IF k \in Created(h, v) THEN gen[h][k] + 1 ELSE gen[h][k]]
           \in [Keys -> 0..MaxGen]
    BY <2>1
  <2> QED  BY <1>1, <1>4, <2>2
<1>7. attached' = [attached EXCEPT ![h] = [k \in Keys |-> attached[h][k] /\ k \notin Touched(h, v)]]
  BY <1>1 DEF Project
<1>8. attached' \in [Servers -> [Keys -> BOOLEAN]]
  BY <1>1, <1>7
<1>9. \A g \in Servers, k \in Keys :
          attached'[g][k] <=> attached[g][k] /\ ~(g = h /\ k \in Touched(h, v))
  BY <1>1, <1>7, Zenon
<1>10. workers' = {[w EXCEPT !.cancelled = w.cancelled \/ Hit(w, h, v)] : w \in workers}
  BY <1>1 DEF Project, Hit, Workers
<1>11. ASSUME NEW w \in workers
       PROVE  LET u == [w EXCEPT !.cancelled = w.cancelled \/ Hit(w, h, v)] IN
              u \in Workers /\ SameWorker(u, w) /\ (u.cancelled <=> w.cancelled \/ Hit(w, h, v))
  <2>1. w \in Workers /\ (w.cancelled \/ Hit(w, h, v)) \in BOOLEAN
    BY <1>1
  <2> DEFINE b == w.cancelled \/ Hit(w, h, v)
  <2>2. b \in BOOLEAN
    BY <2>1
  <2> HIDE DEF b
  <2>3. LET u == [w EXCEPT !.cancelled = b] IN
        u \in Workers /\ SameWorker(u, w) /\ u.cancelled = b
    BY <2>1, <2>2 DEF Workers, SameWorker
  <2> QED  BY <2>2, <2>3 DEF b
<1>12. workers' \subseteq Workers
  BY <1>10, <1>11
<1>13. /\ \A u \in workers' : \E w \in workers :
             SameWorker(u, w) /\ (u.cancelled <=> w.cancelled \/ Hit(w, h, v))
       /\ \A w \in workers : \E u \in workers' :
             SameWorker(u, w) /\ (u.cancelled <=> w.cancelled \/ Hit(w, h, v))
  BY <1>10, <1>11, Zenon
<1> QED  BY <1>2, <1>3, <1>5, <1>6, <1>8, <1>9, <1>12, <1>13

\* A view's entries after an event, and which objects the event creates.
LEMMA AppliedTyped ==
    ASSUME TypeOK, NEW h \in Servers, cursor[h] < Len(log)
    PROVE  /\ log[cursor[h] + 1] \in Events /\ cursor[h] + 1 \in 1..Len(log)
           /\ ApplyEvent(view[h], log[cursor[h] + 1]) \in Views
<1>1. cursor[h] \in Nat /\ cursor[h] + 1 \in 1..Len(log) /\ view[h] \in Views
  BY LogIsTyped, HubTyped
<1> QED  BY <1>1, LogIsTyped, ApplyIsTotal

\* What an event makes of the entry of a key: it stays, goes, turns stale or is
\* stored anew, and a new one names the event's lease and server or keeps its own.
LEMMA AppliedEntry ==
    ASSUME NEW w \in Views, NEW e \in Events, NEW k \in Keys,
           NEW x, NEW y, x = w.subs[k], y = ApplyEvent(w, e).subs[k]
    PROVE  /\ x \in Entries \cup {NoSub} /\ y \in Entries \cup {NoSub}
           /\ x = NoSub => y = NoSub \/ ~y.stale
           /\ (x # NoSub /\ y # NoSub) => SameLease(y, x)
           /\ (x = NoSub /\ y # NoSub) =>
                  /\ e.kind = "subscribe" /\ e.key = k
                  /\ y.lease = e.lease /\ y.server = e.server
           /\ (y # x /\ y # NoSub /\ ~y.stale) => e.kind = "subscribe" /\ e.key = k
<1>1. x \in Entries \cup {NoSub} /\ y = EntryAfter(x, k, e)
  BY EntryOfApply DEF Views
<1>2. ApplyEvent(w, e) \in Views
  BY ApplyIsTotal
<1>3. y \in Entries \cup {NoSub}
  BY <1>2 DEF Views
<1>4. CASE Resets(e, k)
  BY <1>1, <1>3, <1>4 DEF EntryAfter
<1>5. CASE ~Resets(e, k) /\ e.kind = "subscribe" /\ e.key = k
  <2>1. y = Subscribed(x, e)
    BY <1>1, <1>5 DEF EntryAfter
  <2>2. x # NoSub => SameLease(y, x)
    BY <1>1, <1>5, EntryKept
  <2>3. x = NoSub => y = [lease |-> e.lease, server |-> e.server, stale |-> FALSE]
    BY <2>1 DEF Subscribed
  <2> QED  BY <1>1, <1>3, <1>5, <2>2, <2>3
<1>6. CASE ~Resets(e, k) /\ ~(e.kind = "subscribe" /\ e.key = k)
  <2>1. x # NoSub => SameLease(y, x)
    BY <1>1, <1>6, EntryKept
  <2>2. y = x \/ (x # NoSub /\ y = [x EXCEPT !.stale = TRUE])
    BY <1>1, <1>6 DEF EntryAfter, Names
  <2>3. y = x \/ (x # NoSub /\ y.stale)
    BY <1>1, <2>2 DEF Entries
  <2> QED  BY <1>1, <1>3, <2>1, <2>3
<1> QED  BY <1>4, <1>5, <1>6

LEMMA ProjectKeeps ==
    ASSUME TypeInv, NEW h \in Servers, NEW v \in Views, CanCreate(h, v), Project(h, v),
           \A g \in Servers : Running(g) => Running(g)',
           \A k \in Keys : Stored(h, k) = NoSub => v.subs[k] = NoSub \/ ~v.subs[k].stale
    PROVE  IdentityInv' /\ OnceInv'
<1>1. /\ \A g \in Servers : view'[g] = IF g = h THEN v ELSE view[g]
      /\ \A g \in Servers, k \in Keys :
             gen'[g][k] = IF g = h /\ k \in Created(h, v) THEN gen[g][k] + 1 ELSE gen[g][k]
      /\ \A g \in Servers, k \in Keys :
             attached'[g][k] <=> attached[g][k] /\ ~(g = h /\ k \in Touched(h, v))
      /\ \A u \in workers' : \E w \in workers : SameWorker(u, w)
      /\ workers' \subseteq Workers
  BY ProjectFacts DEF TypeInv
<1>2. \A g \in Servers, k \in Keys : gen[g][k] \in Nat
  BY HubTyped DEF TypeInv
<1>3. \A g \in Servers, k \in Keys :
          Stored(g, k)' = IF g = h THEN v.subs[k] ELSE Stored(g, k)
  BY <1>1 DEF Stored
<1>4. \A k \in Keys :
          /\ k \in Created(h, v) => v.subs[k] # NoSub
          /\ k \notin Created(h, v) =>
               \/ v.subs[k] = Stored(h, k)
               \/ k \in Touched(h, v) /\ (v.subs[k] = NoSub \/ v.subs[k].stale)
  BY DEF Created, Touched
<1>5. \A k \in Keys : k \in Created(h, v) => k \in Touched(h, v)
  BY DEF Created
<1>6. IdentityInv'
  <2> SUFFICES ASSUME NEW g \in Servers, NEW k \in Keys, Stored(g, k)' # NoSub
               PROVE  gen'[g][k] >= 1
    BY DEF IdentityInv
  <2>1. CASE g = h /\ k \in Created(h, v)
    BY <1>1, <1>2, <2>1
  <2>2. CASE ~(g = h /\ k \in Created(h, v))
    <3>1. Stored(g, k) # NoSub
      <4>1. Stored(g, k)' = IF g = h THEN v.subs[k] ELSE Stored(g, k)
        BY <1>3
      <4>2. CASE g = h
        BY <2>2, <4>1, <4>2 DEF Created, Touched
      <4> QED  BY <4>1, <4>2
    <3>2. gen'[g][k] = gen[g][k]
      BY <1>1, <2>2
    <3> QED  BY <3>1, <3>2 DEF TypeInv, IdentityInv
  <2> QED  BY <2>1, <2>2
<1>7. OnceInv'
  <2> SUFFICES ASSUME NEW u \in workers' PROVE StartedOnce(u)'
    BY DEF OnceInv
  <2>1. PICK w \in workers : SameWorker(u, w)
    BY <1>1
  <2>2. /\ w \in Workers /\ StartedOnce(w)
    BY DEF TypeInv, TypeOK, OnceInv
  <2>3. w.server \in Servers /\ w.key \in Keys /\ w.gen \in Nat
    BY <2>2, WorkerTyped
  <2>4. Running(w.server)' /\ w.nth = 1
    BY <2>2, <2>3 DEF StartedOnce
  <2>5. CASE w.server = h /\ w.key \in Created(h, v)
    BY <1>1, <1>2, <2>1, <2>2, <2>3, <2>4, <2>5 DEF StartedOnce, SameWorker
  <2>6. CASE ~(w.server = h /\ w.key \in Created(h, v))
    <3>1. gen'[w.server][w.key] = gen[w.server][w.key]
      BY <1>1, <2>3, <2>6
    <3>2. \/ Stored(w.server, w.key)' = Stored(w.server, w.key)
             /\ (attached'[w.server][w.key] <=> attached[w.server][w.key])
          \/ Stored(w.server, w.key)' = NoSub
          \/ Stored(w.server, w.key)'.stale
      BY <1>1, <1>3, <1>4, <2>3, <2>6 DEF Touched
    <3> QED  BY <2>1, <2>2, <2>4, <3>1, <3>2 DEF StartedOnce, SameWorker
  <2> QED  BY <2>5, <2>6
<1> QED  BY <1>6, <1>7

-----------------------------------------------------------------------------
(* What startSubscriptionWorker does                                       *)

LEMMA StartFacts ==
    ASSUME TypeInv, NEW h \in Servers, NEW object \in Objects, CanStart(h, object)
    PROVE  /\ NewWorker(h, object) \in Workers
           /\ NewWorker(h, object).server = h /\ NewWorker(h, object).key = object[1]
           /\ NewWorker(h, object).gen = object[2] /\ NewWorker(h, object).gen = gen[h][object[1]]
           /\ NewWorker(h, object).nth = 1
           /\ NewWorker(h, object).lease = Stored(h, object[1]).lease
           /\ NewWorker(h, object).step = "consuming" /\ ~NewWorker(h, object).cancelled
           /\ ~\E w \in workers : w.server = h /\ w.key = object[1] /\ w.gen = object[2]
<1>1. object[1] \in Keys /\ object[2] \in 1..MaxGen
  BY DEF Objects
<1>2. /\ Stored(h, object[1]) # NoSub /\ gen[h][object[1]] = object[2]
      /\ Stored(h, object[1]).server = h /\ ~Stored(h, object[1]).stale
      /\ ~attached[h][object[1]]
  BY DEF CanStart
<1>3. ~\E w \in workers : w.server = h /\ w.key = object[1] /\ w.gen = object[2]
  BY <1>2 DEF TypeInv, OnceInv, StartedOnce
<1>4. {w \in workers : w.server = h /\ w.key = object[1] /\ w.gen = object[2]} = {}
  BY <1>3
<1>5. Cardinality({w \in workers : w.server = h /\ w.key = object[1] /\ w.gen = object[2]}) = 0
  BY <1>4, FS_EmptySet
<1>6. Stored(h, object[1]).lease \in Leases
  BY <1>1, <1>2, HubTyped, EntryTyped DEF TypeInv
<1> DEFINE n == 1 + Cardinality({w \in workers : w.server = h /\ w.key = object[1] /\ w.gen = object[2]})
<1>7. n = 1
  BY <1>5
<1>8. NewWorker(h, object) =
        [server |-> h, key |-> object[1], gen |-> object[2], nth |-> n,
         lease |-> Stored(h, object[1]).lease, step |-> "consuming", cancelled |-> FALSE]
  BY DEF NewWorker
<1> HIDE DEF n
<1> QED  BY <1>1, <1>2, <1>3, <1>6, <1>7, <1>8 DEF Workers

LEMMA StartKeeps ==
    ASSUME TypeInv, NEW h \in Servers, NEW object \in Objects, Running(h),
           startSubscriptionWorker(h, object), UNCHANGED <<phase, view, gen>>
    PROVE  /\ attached' \in [Servers -> [Keys -> BOOLEAN]]
           /\ \A g \in Servers, k \in Keys : attached[g][k] => attached'[g][k]
           /\ \A g \in Servers, k \in Keys : g # h \/ k # object[1] => attached'[g][k] = attached[g][k]
           /\ workers \subseteq workers' /\ workers' \subseteq Workers
           /\ OnceInv'
<1>1. object[1] \in Keys /\ attached \in [Servers -> [Keys -> BOOLEAN]] /\ workers \subseteq Workers
  BY DEF Objects, TypeInv, TypeOK
<1>2. CASE ~CanStart(h, object)
  <2>1. attached' = attached /\ workers' = workers
    BY <1>2 DEF startSubscriptionWorker
  <2> QED  BY <1>1, <2>1 DEF TypeInv, OnceInv, StartedOnce, Running, Stored
<1>3. CASE CanStart(h, object)
  <2>1. /\ attached' = [attached EXCEPT ![h] = [attached[h] EXCEPT ![object[1]] = TRUE]]
        /\ workers' = workers \cup {NewWorker(h, object)}
    BY <1>1, <1>3 DEF startSubscriptionWorker
  <2>2. /\ attached' \in [Servers -> [Keys -> BOOLEAN]]
        /\ \A g \in Servers, k \in Keys : attached[g][k] => attached'[g][k]
        /\ \A g \in Servers, k \in Keys : g # h \/ k # object[1] => attached'[g][k] = attached[g][k]
        /\ attached'[h][object[1]]
    BY <1>1, <2>1
  <2>3. ASSUME NEW w \in workers' PROVE StartedOnce(w)'
    <3>1. CASE w \in workers
      <4>1. StartedOnce(w) /\ w.server \in Servers /\ w.key \in Keys
        BY <1>1, <3>1, WorkerTyped DEF TypeInv, OnceInv
      <4> QED  BY <2>2, <4>1 DEF StartedOnce, Running, Stored
    <3>2. CASE w = NewWorker(h, object)
      <4>1. /\ w.server = h /\ w.key = object[1] /\ w.gen = gen[h][object[1]] /\ w.nth = 1
            /\ w \in Workers
        BY <1>3, <3>2, StartFacts
      <4>2. w.gen \in Nat
        BY <4>1, WorkerTyped
      <4> QED  BY <2>2, <4>1, <4>2 DEF StartedOnce, Running
    <3> QED  BY <2>1, <2>3, <3>1, <3>2
  <2>4. workers \subseteq workers' /\ workers' \subseteq Workers
    BY <1>1, <1>3, <2>1, StartFacts
  <2> QED  BY <2>2, <2>3, <2>4 DEF OnceInv
<1> QED  BY <1>2, <1>3

-----------------------------------------------------------------------------
(* Types are kept                                                          *)

LEMMA TypesHoldInitially == Init => TypeInv
<1> SUFFICES ASSUME Init PROVE TypeInv
  OBVIOUS
<1>1. log \in Seq(Events) /\ Len(log) = 0 /\ 0 \in 0..Len(log) /\ 0 \in 0..MaxGen /\ 0 \in 0..MaxFailures
  BY DEF Init
<1>2. view \in [Servers -> Views]
  BY EmptyViewTyped DEF Init
<1>3. TypeOK
  BY <1>1, <1>2 DEF Init, TypeOK
<1>4. \A h \in Servers, k \in Keys : Stored(h, k) = NoSub
  BY DEF Init, Stored, EmptyView
<1>5. IdentityInv /\ IdleInv /\ OnceInv
  BY <1>4 DEF Init, IdentityInv, IdleInv, OnceInv
<1> QED  BY <1>3, <1>5 DEF TypeInv

\* The part of the log a hub stands at stays in the log.
LEMMA GrownLog ==
    ASSUME TypeOK, log' = log \/ \E e \in Events : log' = Append(log, e)
    PROVE  /\ log' \in Seq(Events)
           /\ cursor \in [Servers -> 0..Len(log')] /\ replayEnd \in [Servers -> 0..Len(log')]
<1>1. /\ log \in Seq(Events) /\ Len(log) \in Nat
      /\ cursor \in [Servers -> 0..Len(log)] /\ replayEnd \in [Servers -> 0..Len(log)]
  BY DEF TypeOK
<1>2. log' \in Seq(Events) /\ Len(log') \in Nat /\ Len(log) <= Len(log')
  <2>1. ASSUME NEW e \in Events, log' = Append(log, e)
        PROVE  log' \in Seq(Events) /\ Len(log') = Len(log) + 1
    BY <1>1, <2>1
  <2> QED  BY <1>1, <2>1
<1>3. 0..Len(log) \subseteq 0..Len(log')
  BY <1>1, <1>2
<1> QED  BY <1>1, <1>2, <1>3

\* Steps that touch neither the hubs' own state nor the workers' identities.
LEMMA TypesKeptByOthers ==
    ASSUME TypeInv, UNCHANGED <<phase, view, cursor, replayEnd, gen, attached, starting, toLaunch>>,
           log' = log \/ \E e \in Events : log' = Append(log, e),
           op' \in [Servers -> Events \cup {None}], unsubscribing' \in [Servers -> SUBSET Keys],
           reported' \in [Servers -> BOOLEAN], failures' \in 0..MaxFailures,
           workers' \subseteq Workers,
           \A u \in workers' : \E w \in workers :
               u.server = w.server /\ u.key = w.key /\ u.gen = w.gen /\ u.nth = w.nth
    PROVE  TypeInv'
<1>1. TypeOK'
  BY GrownLog DEF TypeInv, TypeOK
<1>2. IdentityInv' /\ IdleInv'
  BY DEF TypeInv, IdentityInv, IdleInv, Running, Stored
<1>3. OnceInv'
  BY DEF TypeInv, OnceInv, StartedOnce, Running, Stored
<1> QED  BY <1>1, <1>2, <1>3 DEF TypeInv

LEMMA TypesKeptByWork ==
    ASSUME TypeInv, NEW w \in workers, Work(w)
    PROVE  TypeInv'
<1>1. /\ w \in Workers /\ workers \subseteq Workers /\ failures \in Nat
      /\ reported \in [Servers -> BOOLEAN]
      /\ op \in [Servers -> Events \cup {None}] /\ unsubscribing \in [Servers -> SUBSET Keys]
      /\ failures \in 0..MaxFailures /\ (failures < MaxFailures => failures + 1 \in 0..MaxFailures)
  BY DEF TypeInv, TypeOK
<1>2. GoneEvent(w) \in Events /\ StaleEvent(w) \in Events
  BY <1>1, WorkerTyped
<1>3. /\ UNCHANGED <<phase, view, cursor, replayEnd, gen, attached, starting, toLaunch>>
      /\ UNCHANGED <<op, unsubscribing>>
  BY DEF Work, DeliveryGone, PublishGone, PublishGoneFails, WorkerFails, PublishStale,
         PublishStaleFails, WorkerCancelled, hubVars, reqVars
<1>4. log' = log \/ \E e \in Events : log' = Append(log, e)
  BY <1>2 DEF Work, DeliveryGone, PublishGone, PublishGoneFails, WorkerFails, PublishStale,
              PublishStaleFails, WorkerCancelled, AfterFailedWrite
<1>5. reported' \in [Servers -> BOOLEAN] /\ failures' \in 0..MaxFailures
  BY <1>1 DEF Work, DeliveryGone, PublishGone, PublishGoneFails, WorkerFails, PublishStale,
              PublishStaleFails, WorkerCancelled, hubVars
<1>6. \/ workers' = workers \ {w}
      \/ \E step \in {"gone", "failed"} : workers' = (workers \ {w}) \cup {[w EXCEPT !.step = step]}
  BY DEF Work, DeliveryGone, PublishGone, PublishGoneFails, WorkerFails, PublishStale,
         PublishStaleFails, WorkerCancelled, Ends, Becomes
<1>7. \A step \in {"gone", "failed"} :
          LET u == [w EXCEPT !.step = step] IN
          /\ u \in Workers
          /\ u.server = w.server /\ u.key = w.key /\ u.gen = w.gen /\ u.nth = w.nth
  BY <1>1 DEF Workers
<1>8. /\ workers' \subseteq Workers
      /\ \A u \in workers' : \E x \in workers :
             u.server = x.server /\ u.key = x.key /\ u.gen = x.gen /\ u.nth = x.nth
  BY <1>1, <1>6, <1>7
<1> QED  BY <1>1, <1>3, <1>4, <1>5, <1>8, TypesKeptByOthers

LEMMA TypesKeptByRequest ==
    ASSUME TypeInv, NEW h \in Servers, Request(h)
    PROVE  TypeInv'
<1>1. /\ op \in [Servers -> Events \cup {None}] /\ unsubscribing \in [Servers -> SUBSET Keys]
      /\ reported \in [Servers -> BOOLEAN] /\ failures \in 0..MaxFailures /\ workers \subseteq Workers
  BY DEF TypeInv, TypeOK
<1>2. UNCHANGED <<hubVars, workers, failures>>
  BY DEF Request, onRegisterTopic, onDeregisterTopic, onSubscriptionVerified, Publishing,
         onUnsubscriptionValidation, onUnsubscriptionVerified, PublishSucceeds, PublishFails
<1>3. log' = log \/ \E e \in Events : log' = Append(log, e)
  BY <1>1 DEF Request, onRegisterTopic, onDeregisterTopic, onSubscriptionVerified, Publishing,
         onUnsubscriptionValidation, onUnsubscriptionVerified, PublishSucceeds, PublishFails
<1>4. unsubscribing' \in [Servers -> SUBSET Keys]
  BY <1>1 DEF Request, onRegisterTopic, onDeregisterTopic, onSubscriptionVerified, Publishing,
         onUnsubscriptionValidation, onUnsubscriptionVerified, PublishSucceeds, PublishFails
<1>5. op' \in [Servers -> Events \cup {None}]
  <2>1. ASSUME NEW e \in Events, Publishing(h, e) PROVE op' \in [Servers -> Events \cup {None}]
    BY <1>1, <2>1 DEF Publishing
  <2>2. ASSUME NEW t \in Topics, onRegisterTopic(h, t) \/ onDeregisterTopic(h, t)
        PROVE  op' \in [Servers -> Events \cup {None}]
    <3>1. /\ [kind |-> "register", topic |-> t] \in Events
          /\ [kind |-> "deregister", topic |-> t] \in Events
      BY DEF Events, TopicEvents
    <3> QED  BY <2>1, <2>2, <3>1 DEF onRegisterTopic, onDeregisterTopic
  <2>3. ASSUME NEW k \in Keys, NEW lease \in Leases, onSubscriptionVerified(h, k, lease)
        PROVE  op' \in [Servers -> Events \cup {None}]
    <3> DEFINE server == IF Stored(h, k) = NoSub THEN h ELSE Stored(h, k).server
    <3>1. server \in Servers
      BY HubTyped, EntryTyped DEF TypeInv
    <3>2. [kind |-> "subscribe", key |-> k, lease |-> lease, server |-> server] \in Events
      BY <3>1 DEF Events, SubEvents
    <3> QED  BY <2>1, <2>3, <3>2 DEF onSubscriptionVerified
  <2>4. ASSUME NEW k \in Keys, onUnsubscriptionVerified(h, k)
        PROVE  op' \in [Servers -> Events \cup {None}]
    <3>1. [kind |-> "unsubscribe", key |-> k] \in Events
      BY DEF Events, UnsubEvents
    <3> QED  BY <2>1, <2>4, <3>1 DEF onUnsubscriptionVerified
  <2>5. CASE (\E k \in Keys : onUnsubscriptionValidation(h, k)) \/ PublishSucceeds(h) \/ PublishFails(h)
    BY <1>1, <2>5 DEF onUnsubscriptionValidation, PublishSucceeds, PublishFails
  <2> QED  BY <2>2, <2>3, <2>4, <2>5 DEF Request
<1> QED  BY <1>1, <1>2, <1>3, <1>4, <1>5, TypesKeptByOthers DEF hubVars

LEMMA TypesKeptBySnapshot ==
    ASSUME TypeInv, NEW h \in Servers, NEW n \in 0..Len(log), ApplySnapshot(h, n)
    PROVE  TypeInv'
<1> DEFINE v == Materialized(log, n)
           g == [k \in Keys |-> IF v.subs[k] = NoSub THEN 0 ELSE 1]
<1>1. v \in Views
  BY LogIsTyped, MaterializedTyped DEF TypeInv
<1>2. g \in [Keys -> 0..MaxGen] /\ \A k \in Keys : v.subs[k] # NoSub => g[k] = 1
  OBVIOUS
<1>3. phase[h] = "down" /\ view' = [view EXCEPT ![h] = v] /\ gen' = [gen EXCEPT ![h] = g]
  BY DEF ApplySnapshot
<1>4. /\ attached' = [attached EXCEPT ![h] = [k \in Keys |-> FALSE]]
      /\ phase' = [phase EXCEPT ![h] = "loaded"] /\ cursor' = [cursor EXCEPT ![h] = 0]
      /\ UNCHANGED <<log, replayEnd, starting, toLaunch, reported, op, unsubscribing, workers, failures>>
  BY DEF ApplySnapshot, reqVars
<1> HIDE DEF v, g
<1>5. 0 \in 0..Len(log)
  BY LogIsTyped DEF TypeInv
<1>6. TypeOK'
  BY <1>1, <1>2, <1>3, <1>4, <1>5 DEF TypeInv, TypeOK
<1>7. \A x \in Servers : x # h => /\ view'[x] = view[x] /\ gen'[x] = gen[x]
                                  /\ attached'[x] = attached[x] /\ phase'[x] = phase[x]
  BY <1>3, <1>4 DEF TypeInv, TypeOK
<1>8. view'[h] = v /\ gen'[h] = g /\ attached'[h] = [k \in Keys |-> FALSE] /\ phase'[h] = "loaded"
  BY <1>3, <1>4 DEF TypeInv, TypeOK
<1>9. IdentityInv'
  <2> SUFFICES ASSUME NEW x \in Servers, NEW k \in Keys, Stored(x, k)' # NoSub PROVE gen'[x][k] >= 1
    BY DEF IdentityInv
  <2>1. CASE x = h
    BY <1>2, <1>8, <2>1 DEF Stored
  <2>2. CASE x # h
    BY <1>7, <2>2 DEF TypeInv, IdentityInv, Stored
  <2> QED  BY <2>1, <2>2
<1>10. IdleInv'
  BY <1>3, <1>4, <1>7, <1>8 DEF TypeInv, IdleInv, Running
<1>11. OnceInv'
  <2> SUFFICES ASSUME NEW w \in workers PROVE StartedOnce(w)'
    BY <1>4 DEF OnceInv
  <2>1. StartedOnce(w) /\ w.server \in Servers
    BY WorkerTyped DEF TypeInv, TypeOK, OnceInv
  <2>2. w.server # h
    BY <1>3, <2>1 DEF StartedOnce, Running
  <2> QED  BY <1>7, <2>1, <2>2 DEF StartedOnce, Running, Stored
<1> QED  BY <1>6, <1>9, <1>10, <1>11 DEF TypeInv

LEMMA TypesKeptByPhase ==
    ASSUME TypeInv, NEW h \in Servers,
           ReplayEvents(h) \/ ReplayDone(h) \/ ListReplayed(h) \/ ServeHTTP(h)
    PROVE  TypeInv'
<1>1. /\ UNCHANGED <<log, view, cursor, gen, attached, starting, reported, op, unsubscribing,
                     workers, failures>>
      /\ \/ phase' = [phase EXCEPT ![h] = "replaying"] /\ phase[h] = "loaded"
         \/ phase' = [phase EXCEPT ![h] = "tailing"] /\ phase[h] = "replaying"
         \/ phase' = [phase EXCEPT ![h] = "launching"] /\ phase[h] = "tailing"
         \/ phase' = [phase EXCEPT ![h] = "serving"] /\ phase[h] = "launching"
      /\ \/ UNCHANGED toLaunch
         \/ /\ phase[h] = "tailing"
            /\ toLaunch' = [toLaunch EXCEPT ![h] = {<<k, gen[h][k]>> :
                 k \in {j \in Keys : Stored(h, j) # NoSub /\ ~Stored(h, j).stale}}]
      /\ \/ UNCHANGED replayEnd
         \/ replayEnd' = [replayEnd EXCEPT ![h] = Len(log)]
  BY DEF ReplayEvents, ReplayDone, ListReplayed, ServeHTTP, reqVars
<1>2. toLaunch' \in [Servers -> SUBSET Objects]
  <2>1. \A k \in Keys : Stored(h, k) # NoSub => <<k, gen[h][k]>> \in Objects
    BY HubTyped DEF TypeInv, IdentityInv, Objects
  <2> DEFINE listed == {<<k, gen[h][k]>> :
                          k \in {j \in Keys : Stored(h, j) # NoSub /\ ~Stored(h, j).stale}}
  <2>2. listed \in SUBSET Objects
    BY <2>1
  <2>3. UNCHANGED toLaunch \/ toLaunch' = [toLaunch EXCEPT ![h] = listed]
    BY <1>1
  <2> HIDE DEF listed
  <2> QED  BY <2>2, <2>3 DEF TypeInv, TypeOK
<1>3. Len(log) \in 0..Len(log) /\ replayEnd' \in [Servers -> 0..Len(log)]
  <2> DEFINE n == Len(log)
  <2>1. n \in 0..n /\ replayEnd \in [Servers -> 0..n]
    BY LogIsTyped DEF TypeInv, TypeOK
  <2>2. UNCHANGED replayEnd \/ replayEnd' = [replayEnd EXCEPT ![h] = n]
    BY <1>1
  <2> HIDE DEF n
  <2>3. replayEnd' \in [Servers -> 0..n]
    BY <2>1, <2>2
  <2> QED  BY <2>1, <2>3 DEF n
<1>4. phase' \in [Servers -> {"down", "loaded", "replaying", "tailing", "launching", "serving",
                          "ending"}]
  <2>1. phase \in [Servers -> {"down", "loaded", "replaying", "tailing", "launching", "serving",
                               "ending"}]
    BY DEF TypeInv, TypeOK
  <2>2. \E s \in {"replaying", "tailing", "launching", "serving"} : phase' = [phase EXCEPT ![h] = s]
    BY <1>1
  <2> QED  BY <2>1, <2>2
<1>5. TypeOK'
  BY <1>1, <1>2, <1>3, <1>4 DEF TypeInv, TypeOK
<1>6. \A g \in Servers : (Running(g) => Running(g)') /\ (~Running(g)' => UNCHANGED toLaunch[g])
  BY <1>1 DEF Running, TypeInv, TypeOK
<1>7. IdentityInv' /\ OnceInv'
  <2>1. ASSUME NEW w \in workers PROVE StartedOnce(w)'
    <3>1. StartedOnce(w) /\ w.server \in Servers
      BY WorkerTyped DEF TypeInv, TypeOK, OnceInv
    <3> QED  BY <1>1, <1>6, <3>1 DEF StartedOnce, Stored
  <2> QED  BY <1>1, <2>1 DEF TypeInv, IdentityInv, OnceInv, Stored
<1>8. IdleInv'
  BY <1>1, <1>6 DEF TypeInv, IdleInv
<1> QED  BY <1>5, <1>7, <1>8 DEF TypeInv

LEMMA CreatedOne ==
    ASSUME TypeInv, NEW h \in Servers, NEW e \in Events, NEW v, v = ApplyEvent(view[h], e),
           NEW k \in Created(h, v)
    PROVE  k \in Keys /\ e.kind = "subscribe" /\ e.key = k
<1>1. view[h] \in Views /\ k \in Keys
  BY HubTyped DEF TypeInv, Created, Touched
<1>2. v.subs[k] # view[h].subs[k] /\ v.subs[k] # NoSub /\ ~v.subs[k].stale
  BY DEF Created, Touched, Stored
<1> QED  BY <1>1, <1>2, AppliedEntry

LEMMA TypesKeptByApply ==
    ASSUME TypeInv, NEW h \in Servers, ReplayEvent(h) \/ ConsumeEvent(h)
    PROVE  TypeInv'
<1> DEFINE e == log[cursor[h] + 1]
           v == ApplyEvent(view[h], e)
<1>1. cursor[h] < Len(log)
  <2>1. cursor[h] < Len(log) \/ cursor[h] < replayEnd[h]
    BY DEF ReplayEvent, ConsumeEvent
  <2>2. cursor[h] \in 0..Len(log) /\ replayEnd[h] \in 0..Len(log) /\ Len(log) \in Nat
    BY HubTyped, LogIsTyped DEF TypeInv
  <2> QED  BY <2>1, <2>2
<1>2. e \in Events /\ v \in Views /\ cursor[h] + 1 \in 1..Len(log) /\ view[h] \in Views
  BY <1>1, AppliedTyped, HubTyped DEF TypeInv
<1>3. CanCreate(h, v) /\ Project(h, v)
  BY DEF ReplayEvent, ConsumeEvent
<1>4. /\ cursor' = [cursor EXCEPT ![h] = @ + 1]
      /\ UNCHANGED <<log, phase, replayEnd, toLaunch, reported, op, unsubscribing, failures>>
  BY DEF ReplayEvent, ConsumeEvent, reqVars
<1>5. \/ UNCHANGED starting
      \/ Running(h) /\ starting' = [starting EXCEPT ![h] =
              IF Created(h, v) = {} THEN None
              ELSE LET k == CHOOSE j \in Created(h, v) : TRUE IN <<k, gen[h][k] + 1>>]
  BY DEF ReplayEvent, ConsumeEvent
<1> HIDE DEF v, e
<1>6. starting' \in [Servers -> Objects \cup {None}]
  <2> DEFINE k == CHOOSE j \in Created(h, v) : TRUE
             object == IF Created(h, v) = {} THEN None ELSE <<k, gen[h][k] + 1>>
  <2>1. Created(h, v) # {} => k \in Created(h, v) /\ k \in Keys
    BY DEF Created, Touched
  <2> HIDE DEF k
  <2>2. Created(h, v) # {} => gen[h][k] \in 0..MaxGen /\ gen[h][k] < MaxGen
    BY <1>3, <2>1, HubTyped DEF TypeInv, CanCreate
  <2>3. Created(h, v) # {} => <<k, gen[h][k] + 1>> \in Objects
    BY <2>1, <2>2 DEF Objects
  <2>4. object \in Objects \cup {None}
    BY <2>3
  <2>5. UNCHANGED starting \/ starting' = [starting EXCEPT ![h] = object]
    BY <1>5 DEF k
  <2> HIDE DEF object
  <2> QED  BY <2>4, <2>5 DEF TypeInv, TypeOK
<1>7. cursor' \in [Servers -> 0..Len(log)]
  <2>1. cursor[h] + 1 \in 0..Len(log)
    BY <1>2
  <2> QED  BY <1>4, <2>1 DEF TypeInv, TypeOK
<1>8. TypeOK'
  <2>1. /\ view' \in [Servers -> Views] /\ gen' \in [Servers -> [Keys -> 0..MaxGen]]
        /\ attached' \in [Servers -> [Keys -> BOOLEAN]] /\ workers' \subseteq Workers
    BY <1>2, <1>3, ProjectFacts DEF TypeInv
  <2> QED  BY <1>4, <1>6, <1>7, <2>1 DEF TypeInv, TypeOK
<1>9. \A k \in Keys : Stored(h, k) = NoSub => v.subs[k] = NoSub \/ ~v.subs[k].stale
  BY <1>2, AppliedEntry DEF Stored, v
<1>10. \A g \in Servers : Running(g)' <=> Running(g)
  BY <1>4 DEF Running
<1>11. IdentityInv' /\ OnceInv'
  BY <1>2, <1>3, <1>9, <1>10, ProjectKeeps
<1>12. IdleInv'
  <2> SUFFICES ASSUME NEW g \in Servers, ~Running(g)
               PROVE  /\ starting'[g] = None /\ toLaunch'[g] = {}
                      /\ \A k \in Keys : ~attached'[g][k]
    BY <1>10 DEF IdleInv
  <2>1. \A k \in Keys : attached'[g][k] => attached[g][k]
    BY <1>2, <1>3, ProjectFacts DEF TypeInv
  <2>2. starting'[g] = starting[g]
    BY <1>5 DEF TypeInv, TypeOK
  <2> QED  BY <1>4, <2>1, <2>2 DEF TypeInv, IdleInv
<1> QED  BY <1>8, <1>11, <1>12 DEF TypeInv

LEMMA TypesKeptByStart ==
    ASSUME TypeInv, NEW h \in Servers,
           StartApplied(h) \/ \E object \in toLaunch[h] : LaunchReplayed(h, object)
    PROVE  TypeInv'
<1>1. /\ starting \in [Servers -> Objects \cup {None}] /\ toLaunch \in [Servers -> SUBSET Objects]
      /\ None \notin Objects
  BY NoneAssumption DEF TypeInv, TypeOK
<1>2. PICK object \in Objects : /\ startSubscriptionWorker(h, object)
                                /\ starting[h] # None \/ toLaunch[h] # {}
  BY <1>1 DEF StartApplied, LaunchReplayed
<1>3. Running(h)
  BY <1>2 DEF TypeInv, IdleInv
<1>4. /\ UNCHANGED <<log, phase, view, cursor, replayEnd, gen, reported, op, unsubscribing, failures>>
      /\ starting' = [starting EXCEPT ![h] = None] \/ UNCHANGED starting
      /\ UNCHANGED toLaunch \/ \E o \in toLaunch[h] : toLaunch' = [toLaunch EXCEPT ![h] = @ \ {o}]
  BY DEF StartApplied, LaunchReplayed, reqVars
<1>5. /\ starting' \in [Servers -> Objects \cup {None}] /\ toLaunch' \in [Servers -> SUBSET Objects]
      /\ \A g \in Servers : (starting[g] = None => starting'[g] = None)
                            /\ (toLaunch[g] = {} => toLaunch'[g] = {})
  BY <1>1, <1>4
<1>6. /\ attached' \in [Servers -> [Keys -> BOOLEAN]]
      /\ \A g \in Servers, k \in Keys : g # h \/ k # object[1] => attached'[g][k] = attached[g][k]
      /\ workers' \subseteq Workers /\ OnceInv'
  BY <1>2, <1>3, <1>4, StartKeeps
<1>7. TypeOK'
  <2>1. /\ starting' \in [Servers -> Objects \cup {None}] /\ toLaunch' \in [Servers -> SUBSET Objects]
        /\ attached' \in [Servers -> [Keys -> BOOLEAN]] /\ workers' \subseteq Workers
    BY <1>5, <1>6
  <2>2. UNCHANGED <<log, phase, view, cursor, replayEnd, gen, reported, op, unsubscribing, failures>>
    BY <1>4
  <2> QED  BY <2>1, <2>2 DEF TypeInv, TypeOK
<1>8. IdentityInv'
  BY <1>4 DEF TypeInv, IdentityInv, Stored
<1>9. ASSUME NEW g \in Servers, ~Running(g)'
      PROVE  starting'[g] = None /\ toLaunch'[g] = {} /\ \A k \in Keys : ~attached'[g][k]
  <2>1. ~Running(g)
    BY <1>4, <1>9 DEF Running
  <2>2. g # h
    BY <1>3, <2>1
  <2>3. starting[g] = None /\ toLaunch[g] = {} /\ \A k \in Keys : ~attached[g][k]
    BY <2>1 DEF TypeInv, IdleInv
  <2> QED  BY <1>5, <1>6, <2>2, <2>3
<1>10. IdleInv'
  BY <1>9 DEF IdleInv
<1> QED  BY <1>6, <1>7, <1>8, <1>10 DEF TypeInv

LEMMA TypesKeptByDown ==
    ASSUME TypeInv, NEW h \in Servers, Crash(h) \/ Shutdown(h)
    PROVE  TypeInv'
<1>1. Down(h) /\ failures' \in 0..MaxFailures
  <2>1. failures \in 0..MaxFailures /\ failures \in Nat
    BY DEF TypeInv, TypeOK
  <2> QED  BY <2>1 DEF Crash, Shutdown
<1> USE DEF Down
<1>2. 0 \in 0..Len(log) /\ 0 \in 0..MaxGen /\ EmptyView \in Views
  BY LogIsTyped, EmptyViewTyped DEF TypeInv
<1>3. TypeOK'
  <2>1. /\ view' \in [Servers -> Views] /\ gen' \in [Servers -> [Keys -> 0..MaxGen]]
        /\ attached' \in [Servers -> [Keys -> BOOLEAN]] /\ log' \in Seq(Events)
    BY <1>1, <1>2 DEF TypeInv, TypeOK
  <2>2. /\ cursor' \in [Servers -> 0..Len(log)] /\ replayEnd' \in [Servers -> 0..Len(log)]
        /\ phase' \in [Servers -> {"down", "loaded", "replaying", "tailing", "launching", "serving",
                                   "ending"}]
    BY <1>1, <1>2 DEF TypeInv, TypeOK
  <2>3. /\ starting' \in [Servers -> Objects \cup {None}] /\ toLaunch' \in [Servers -> SUBSET Objects]
        /\ op' \in [Servers -> Events \cup {None}] /\ unsubscribing' \in [Servers -> SUBSET Keys]
        /\ reported' \in [Servers -> BOOLEAN] /\ workers' \subseteq Workers
    BY <1>1 DEF TypeInv, TypeOK
  <2> QED  BY <1>1, <2>1, <2>2, <2>3 DEF TypeOK
<1>4. /\ \A g \in Servers : g # h => /\ view'[g] = view[g] /\ gen'[g] = gen[g] /\ phase'[g] = phase[g]
                                     /\ attached'[g] = attached[g] /\ starting'[g] = starting[g]
                                     /\ toLaunch'[g] = toLaunch[g]
      /\ view'[h] = EmptyView /\ attached'[h] = [k \in Keys |-> FALSE] /\ starting'[h] = None
      /\ toLaunch'[h] = {}
  BY <1>1 DEF TypeInv, TypeOK
<1>5. \A k \in Keys : EmptyView.subs[k] = NoSub
  BY DEF EmptyView
<1>6. IdentityInv'
  <2> SUFFICES ASSUME NEW g \in Servers, NEW k \in Keys, Stored(g, k)' # NoSub PROVE gen'[g][k] >= 1
    BY DEF IdentityInv
  <2>1. g # h
    BY <1>4, <1>5 DEF Stored
  <2> QED  BY <1>4, <2>1 DEF TypeInv, IdentityInv, Stored
<1>7. IdleInv'
  BY <1>4 DEF TypeInv, IdleInv, Running
<1>8. OnceInv'
  <2> SUFFICES ASSUME NEW w \in workers, w.server # h PROVE StartedOnce(w)'
    BY <1>1 DEF OnceInv
  <2>1. StartedOnce(w) /\ w.server \in Servers
    BY WorkerTyped DEF TypeInv, TypeOK, OnceInv
  <2> QED  BY <1>4, <2>1 DEF StartedOnce, Running, Stored
<1> QED  BY <1>3, <1>6, <1>7, <1>8 DEF TypeInv

\* A hub whose event consumer failed stands still, starts nothing and has no worker
\* that is not cancelled.
LEMMA EndingFacts ==
    ASSUME TypeInv, NEW h \in Servers, EventConsumerFails(h)
    PROVE  /\ UNCHANGED <<log, view, cursor, replayEnd, gen, attached, starting, op, unsubscribing>>
           /\ phase' \in [Servers -> {"down", "loaded", "replaying", "tailing", "launching",
                                      "serving", "ending"}]
           /\ toLaunch' \in [Servers -> SUBSET Objects] /\ toLaunch'[h] = {}
           /\ reported' \in [Servers -> BOOLEAN] /\ reported'[h] /\ failures' \in 0..MaxFailures
           /\ \A g \in Servers : Running(g)' <=> Running(g)
           /\ \A g \in Servers : g # h => /\ phase'[g] = phase[g] /\ toLaunch'[g] = toLaunch[g]
                                          /\ reported'[g] = reported[g]
           /\ workers' \subseteq Workers
           /\ \A u \in workers' : \E w \in workers :
                 SameWorker(u, w) /\ (u.cancelled <=> w.cancelled \/ w.server = h)
           /\ \A w \in workers : \E u \in workers' :
                 SameWorker(u, w) /\ (u.cancelled <=> w.cancelled \/ w.server = h)
<1>1. /\ phase \in [Servers -> {"down", "loaded", "replaying", "tailing", "launching", "serving",
                               "ending"}]
      /\ toLaunch \in [Servers -> SUBSET Objects] /\ reported \in [Servers -> BOOLEAN]
      /\ workers \subseteq Workers /\ failures \in 0..MaxFailures
  BY DEF TypeInv, TypeOK
<1>2. /\ Running(h) /\ phase' = [phase EXCEPT ![h] = "ending"]
      /\ reported' = [reported EXCEPT ![h] = TRUE] /\ toLaunch' = [toLaunch EXCEPT ![h] = {}]
      /\ failures < MaxFailures /\ failures' = failures + 1
      /\ UNCHANGED <<log, view, cursor, replayEnd, gen, attached, starting, op, unsubscribing>>
  BY DEF EventConsumerFails, reqVars
<1>3. failures' \in 0..MaxFailures
  BY <1>1, <1>2
<1>4. /\ phase' \in [Servers -> {"down", "loaded", "replaying", "tailing", "launching", "serving",
                                "ending"}]
      /\ phase'[h] = "ending" /\ \A g \in Servers : g # h => phase'[g] = phase[g]
  BY <1>1, <1>2
<1>5. \A g \in Servers : Running(g)' <=> Running(g)
  BY <1>2, <1>4 DEF Running
<1>6. /\ toLaunch' \in [Servers -> SUBSET Objects] /\ toLaunch'[h] = {}
      /\ reported' \in [Servers -> BOOLEAN] /\ reported'[h]
      /\ \A g \in Servers : g # h => toLaunch'[g] = toLaunch[g] /\ reported'[g] = reported[g]
  BY <1>1, <1>2
<1> DEFINE ended(w) == [w EXCEPT !.cancelled = @ \/ w.server = h]
<1>7. workers' = {ended(w) : w \in workers}
  BY DEF EventConsumerFails
<1>8. ASSUME NEW w \in workers
      PROVE  /\ ended(w) \in Workers /\ SameWorker(ended(w), w)
             /\ ended(w).cancelled <=> w.cancelled \/ w.server = h
  <2> DEFINE mark == w.cancelled \/ w.server = h
  <2>1. w \in Workers /\ mark \in BOOLEAN
    BY <1>1
  <2>2. ended(w) = [w EXCEPT !.cancelled = mark]
    OBVIOUS
  <2> HIDE DEF mark, ended
  <2>3. ended(w).cancelled = mark /\ SameWorker(ended(w), w)
    BY <2>1, <2>2 DEF Workers, SameWorker
  <2>4. ended(w) \in Workers
    BY <2>1, <2>2 DEF Workers
  <2> QED  BY <2>3, <2>4 DEF mark
<1> HIDE DEF ended
<1>9. workers' \subseteq Workers
  BY <1>7, <1>8
<1>10. \A u \in workers' : \E w \in workers :
           SameWorker(u, w) /\ (u.cancelled <=> w.cancelled \/ w.server = h)
  BY <1>7, <1>8
<1>11. \A w \in workers : \E u \in workers' :
           SameWorker(u, w) /\ (u.cancelled <=> w.cancelled \/ w.server = h)
  BY <1>7, <1>8
<1> QED  BY <1>2, <1>3, <1>4, <1>5, <1>6, <1>9, <1>10, <1>11

LEMMA TypesKeptByEnding ==
    ASSUME TypeInv, NEW h \in Servers, EventConsumerFails(h)
    PROVE  TypeInv'
<1>1. TypeOK'
  BY EndingFacts DEF TypeInv, TypeOK
<1>2. IdentityInv'
  BY EndingFacts DEF TypeInv, IdentityInv, Stored
<1>3. IdleInv'
  BY EndingFacts DEF TypeInv, IdleInv
<1>4. OnceInv'
  <2> SUFFICES ASSUME NEW u \in workers' PROVE StartedOnce(u)'
    BY DEF OnceInv
  <2>1. PICK w \in workers : SameWorker(u, w)
    BY EndingFacts, Zenon
  <2>2. StartedOnce(w) /\ w.server \in Servers
    BY WorkerTyped DEF TypeInv, TypeOK, OnceInv
  <2>3. UNCHANGED <<view, gen, attached>> /\ (Running(w.server)' <=> Running(w.server))
    BY <2>2, EndingFacts
  <2> QED  BY <2>1, <2>2, <2>3 DEF StartedOnce, SameWorker, Stored
<1> QED  BY <1>1, <1>2, <1>3, <1>4 DEF TypeInv

LEMMA Steps ==
    ASSUME Next
    PROVE  \/ \E h \in Servers : \/ \E n \in 0..Len(log) : ApplySnapshot(h, n)
                                 \/ ReplayEvents(h) \/ ReplayDone(h) \/ ListReplayed(h) \/ ServeHTTP(h)
                                 \/ ReplayEvent(h) \/ ConsumeEvent(h)
                                 \/ StartApplied(h)
                                 \/ \E object \in toLaunch[h] : LaunchReplayed(h, object)
                                 \/ EventConsumerFails(h)
                                 \/ Request(h) \/ Crash(h) \/ Shutdown(h)
           \/ \E w \in workers : Work(w)
BY DEF Next, Startup

LEMMA TypesKept == TypeInv /\ [Next]_vars => TypeInv'
<1> SUFFICES ASSUME TypeInv, [Next]_vars PROVE TypeInv'
  OBVIOUS
<1>1. CASE UNCHANGED vars
  BY <1>1, TypesKeptByOthers DEF vars, hubVars, reqVars, TypeInv, TypeOK
<1>2. CASE Next
  BY <1>2, Steps, TypesKeptBySnapshot, TypesKeptByPhase, TypesKeptByApply, TypesKeptByStart,
     TypesKeptByEnding, TypesKeptByRequest, TypesKeptByDown, TypesKeptByWork
<1> QED  BY <1>1, <1>2

LEMMA TypesHold == Spec => []TypeInv
BY TypesHoldInitially, TypesKept, PTL DEF Spec

\* Every hub's state keeps its type; a stored subscription is started at most once.
THEOREM HubStateTypes == Spec => []TypeOK
<1>1. TypeInv => TypeOK
  BY DEF TypeInv
<1> QED  BY <1>1, TypesHold, PTL

-----------------------------------------------------------------------------
(* Projections                                                             *)

\* A loaded view is that of some part of the log; a replay is sure to end in the
\* view of the log up to its boundary; from there on the view is exact.
Exact(h) ==
    /\ phase[h] = "loaded" => /\ cursor[h] = 0
                              /\ \E n \in 0..Len(log) : view[h] = Materialized(log, n)
    /\ phase[h] = "replaying" =>
         /\ cursor[h] <= replayEnd[h]
         /\ Replay(view[h], log, cursor[h], replayEnd[h]) = Materialized(log, replayEnd[h])
    /\ Running(h) => view[h] = Materialized(log, cursor[h])

ExactInv == \A h \in Servers : Exact(h)

LEMMA ExactKeptByOthers ==
    ASSUME TypeInv, ExactInv, UNCHANGED <<phase, view, cursor, replayEnd>>,
           log' = log \/ \E e \in Events : log' = Append(log, e)
    PROVE  ExactInv'
<1>0. log \in Seq(Events) /\ Len(log) \in Nat
  BY DEF TypeInv, TypeOK
<1>1. CASE log' = log
  BY <1>1 DEF ExactInv, Exact, Running
<1>2. ASSUME NEW e \in Events, log' = Append(log, e) PROVE ExactInv'
  <2> SUFFICES ASSUME NEW h \in Servers PROVE Exact(h)'
    BY DEF ExactInv
  <2>1. /\ cursor[h] \in 0..Len(log) /\ replayEnd[h] \in 0..Len(log) /\ cursor[h] \in Nat
        /\ Len(log') = Len(log) + 1 /\ Exact(h)
    BY <1>0, <1>2, HubTyped DEF TypeInv, ExactInv
  <2>2. \A n \in 0..Len(log) : Materialized(log', n) = Materialized(log, n)
    BY <1>0, <1>2, ReplayOfPublished DEF Materialized
  <2>3. cursor[h] <= replayEnd[h] =>
           Replay(view[h], log', cursor[h], replayEnd[h]) = Replay(view[h], log, cursor[h], replayEnd[h])
    BY <1>0, <1>2, <2>1, ReplayOfPublished
  <2>4. \A n \in 0..Len(log) : n \in 0..Len(log')
    BY <1>0, <2>1
  <2> QED  BY <2>1, <2>2, <2>3, <2>4 DEF Exact, Running
<1> QED  BY <1>1, <1>2

LEMMA ExactKeptBySnapshot ==
    ASSUME TypeInv, ExactInv, NEW h \in Servers, NEW n \in 0..Len(log), ApplySnapshot(h, n)
    PROVE  ExactInv'
<1>1. /\ log' = log /\ view' = [view EXCEPT ![h] = Materialized(log, n)]
      /\ phase' = [phase EXCEPT ![h] = "loaded"] /\ cursor' = [cursor EXCEPT ![h] = 0]
      /\ replayEnd' = replayEnd
  BY DEF ApplySnapshot
<1>2. /\ view'[h] = Materialized(log, n) /\ phase'[h] = "loaded" /\ cursor'[h] = 0
      /\ \A g \in Servers : g # h => view'[g] = view[g] /\ phase'[g] = phase[g] /\ cursor'[g] = cursor[g]
  BY <1>1 DEF TypeInv, TypeOK
<1>3. Exact(h)'
  BY <1>1, <1>2 DEF Exact, Running
<1>4. ASSUME NEW g \in Servers, g # h PROVE Exact(g)'
  BY <1>1, <1>2, <1>4 DEF ExactInv, Exact, Running
<1> QED  BY <1>3, <1>4 DEF ExactInv

LEMMA ExactKeptByPhase ==
    ASSUME TypeInv, ExactInv, NEW h \in Servers,
           ReplayEvents(h) \/ ReplayDone(h) \/ ListReplayed(h) \/ ServeHTTP(h)
    PROVE  ExactInv'
<1>0. /\ cursor[h] \in 0..Len(log) /\ replayEnd[h] \in 0..Len(log) /\ Len(log) \in Nat
      /\ cursor[h] \in Nat /\ replayEnd[h] \in Nat /\ EventsIn(log, 0, Len(log)) /\ Exact(h)
  BY HubTyped, LogIsTyped DEF TypeInv, ExactInv
<1>1. UNCHANGED <<log, view, cursor>>
  BY DEF ReplayEvents, ReplayDone, ListReplayed, ServeHTTP
<1>2. /\ \A g \in Servers : g # h => phase'[g] = phase[g] /\ replayEnd'[g] = replayEnd[g]
      /\ \/ phase[h] = "loaded" /\ phase'[h] = "replaying" /\ replayEnd'[h] = Len(log)
         \/ phase[h] = "replaying" /\ phase'[h] = "tailing" /\ cursor[h] >= replayEnd[h]
         \/ Running(h) /\ phase'[h] \in {"launching", "serving"}
  BY DEF ReplayEvents, ReplayDone, ListReplayed, ServeHTTP, TypeInv, TypeOK, Running
<1>3. ASSUME NEW g \in Servers, g # h PROVE Exact(g)'
  BY <1>1, <1>2, <1>3 DEF ExactInv, Exact, Running
<1>4. ASSUME phase[h] = "loaded" /\ phase'[h] = "replaying" /\ replayEnd'[h] = Len(log)
      PROVE  Exact(h)'
  <2>1. cursor[h] = 0 /\ \E n \in 0..Len(log) : view[h] = Materialized(log, n)
    BY <1>0, <1>4 DEF Exact
  <2>2. PICK n \in 0..Len(log) : view[h] = Materialized(log, n)
    BY <2>1
  <2>3. 0 \in 0..n /\ 0 \in 0..Len(log)
    BY <1>0
  <2>4. Replay(Replay(Materialized(log, n), log, 0, 0), log, 0, Len(log)) = Materialized(log, Len(log))
    BY <1>0, <2>3, ReplayRecovers
  <2>5. Replay(Materialized(log, n), log, 0, 0) = Materialized(log, n)
    BY ReplayNothing
  <2> QED  BY <1>0, <1>1, <1>4, <2>1, <2>2, <2>4, <2>5 DEF Exact, Running
<1>5. ASSUME phase[h] = "replaying" /\ phase'[h] = "tailing" /\ cursor[h] >= replayEnd[h]
      PROVE  Exact(h)'
  <2>1. cursor[h] = replayEnd[h]
    BY <1>0, <1>5 DEF Exact
  <2>2. view[h] = Materialized(log, cursor[h])
    BY <1>0, <1>5, <2>1, ReplayNothing DEF Exact
  <2> QED  BY <1>1, <1>5, <2>2 DEF Exact
<1>6. ASSUME Running(h) /\ phase'[h] \in {"launching", "serving"}
      PROVE  Exact(h)'
  BY <1>0, <1>1, <1>6 DEF Exact
<1> QED  BY <1>2, <1>3, <1>4, <1>5, <1>6 DEF ExactInv

LEMMA ExactKeptByApply ==
    ASSUME TypeInv, ExactInv, NEW h \in Servers, ReplayEvent(h) \/ ConsumeEvent(h)
    PROVE  ExactInv'
<1>0. /\ cursor[h] \in 0..Len(log) /\ replayEnd[h] \in 0..Len(log) /\ Len(log) \in Nat
      /\ cursor[h] \in Nat /\ replayEnd[h] \in Nat /\ Exact(h) /\ cursor[h] + 1 \in Nat
  BY HubTyped, LogIsTyped DEF TypeInv, ExactInv
<1>1. /\ UNCHANGED <<log, phase, replayEnd>> /\ cursor' = [cursor EXCEPT ![h] = @ + 1]
      /\ view' = [view EXCEPT ![h] = ApplyEvent(view[h], log[cursor[h] + 1])]
      /\ (phase[h] = "replaying" /\ cursor[h] < replayEnd[h]) \/ Running(h)
  BY DEF ReplayEvent, ConsumeEvent, Project
<1>2. /\ view'[h] = ApplyEvent(view[h], log[cursor[h] + 1]) /\ cursor'[h] = cursor[h] + 1
      /\ \A g \in Servers : g # h => view'[g] = view[g] /\ cursor'[g] = cursor[g]
  BY <1>1 DEF TypeInv, TypeOK
<1>3. ASSUME NEW g \in Servers, g # h PROVE Exact(g)'
  BY <1>1, <1>2, <1>3 DEF ExactInv, Exact, Running
<1>4. ASSUME phase[h] = "replaying" /\ cursor[h] < replayEnd[h]
      PROVE  Exact(h)'
  <2>1. view'[h] = Replay(view[h], log, cursor[h], cursor[h] + 1)
    BY <1>0, <1>2, ReplayOneMore, ReplayNothing
  <2>2. Replay(view'[h], log, cursor[h] + 1, replayEnd[h]) = Replay(view[h], log, cursor[h], replayEnd[h])
    BY <1>0, <1>4, <2>1, ReplayInParts
  <2>3. cursor[h] + 1 <= replayEnd[h]
    BY <1>0, <1>4
  <2> QED  BY <1>0, <1>1, <1>2, <1>4, <2>2, <2>3 DEF Exact, Running
<1>5. ASSUME Running(h)
      PROVE  Exact(h)'
  <2>1. view'[h] = Materialized(log, cursor[h] + 1)
    BY <1>0, <1>2, <1>5, ReplayOneMore DEF Exact, Materialized
  <2> QED  BY <1>1, <1>2, <1>5, <2>1 DEF Exact, Running
<1> QED  BY <1>1, <1>3, <1>4, <1>5 DEF ExactInv

LEMMA ExactKeptByDown ==
    ASSUME TypeInv, ExactInv, NEW h \in Servers, Crash(h) \/ Shutdown(h)
    PROVE  ExactInv'
<1>1. Down(h)
  BY DEF Crash, Shutdown
<1>2. /\ log' = log /\ phase'[h] = "down"
      /\ \A g \in Servers : g # h => /\ view'[g] = view[g] /\ phase'[g] = phase[g]
                                     /\ cursor'[g] = cursor[g] /\ replayEnd'[g] = replayEnd[g]
  BY <1>1 DEF Down, TypeInv, TypeOK
<1>3. ASSUME NEW g \in Servers PROVE Exact(g)'
  BY <1>2 DEF ExactInv, Exact, Running
<1> QED  BY <1>3 DEF ExactInv

\* Requests, starts of workers and their work leave the projections alone; what they
\* publish comes last in the log.
LEMMA Publishes ==
    ASSUME TypeInv,
           \/ \E h \in Servers : \/ StartApplied(h) \/ Request(h)
                                 \/ \E object \in toLaunch[h] : LaunchReplayed(h, object)
           \/ \E w \in workers : Work(w)
    PROVE  /\ UNCHANGED <<phase, view, cursor, replayEnd, gen>>
           /\ log' = log \/ \E e \in Events : log' = Append(log, e)
<1>1. ASSUME NEW h \in Servers, StartApplied(h) \/ \E object \in toLaunch[h] : LaunchReplayed(h, object)
      PROVE  UNCHANGED <<phase, view, cursor, replayEnd, gen, log>>
  BY <1>1 DEF StartApplied, LaunchReplayed
<1>2. ASSUME NEW h \in Servers, Request(h)
      PROVE  /\ UNCHANGED <<phase, view, cursor, replayEnd, gen>>
             /\ log' = log \/ \E e \in Events : log' = Append(log, e)
  <2>1. op[h] \in Events \cup {None}
    BY DEF TypeInv, TypeOK
  <2> QED
    BY <1>2, <2>1 DEF Request, onRegisterTopic, onDeregisterTopic, onSubscriptionVerified, Publishing,
       onUnsubscriptionValidation, onUnsubscriptionVerified, PublishSucceeds, PublishFails, hubVars
<1>3. ASSUME NEW w \in workers, Work(w)
      PROVE  /\ UNCHANGED <<phase, view, cursor, replayEnd, gen>>
             /\ log' = log \/ \E e \in Events : log' = Append(log, e)
  <2>1. GoneEvent(w) \in Events /\ StaleEvent(w) \in Events
    BY WorkerTyped DEF TypeInv, TypeOK
  <2> QED
    BY <1>3, <2>1 DEF Work, DeliveryGone, PublishGone, PublishGoneFails, WorkerFails, PublishStale,
       PublishStaleFails, WorkerCancelled, AfterFailedWrite, hubVars
<1> QED  BY <1>1, <1>2, <1>3

LEMMA ExactKept == TypeInv /\ ExactInv /\ [Next]_vars => ExactInv'
<1> SUFFICES ASSUME TypeInv, ExactInv, [Next]_vars PROVE ExactInv'
  OBVIOUS
<1>1. CASE UNCHANGED vars
  BY <1>1, ExactKeptByOthers DEF vars, hubVars
<1>2. ASSUME NEW h \in Servers, EventConsumerFails(h) PROVE ExactInv'
  <2>1. /\ UNCHANGED <<log, view, cursor, replayEnd>> /\ Running(h)
        /\ \A g \in Servers : /\ Running(g)' <=> Running(g)
                              /\ g # h => phase'[g] = phase[g]
    BY <1>2, EndingFacts DEF EventConsumerFails
  <2>2. phase'[h] = "ending"
    BY <1>2 DEF EventConsumerFails, TypeInv, TypeOK
  <2>3. ASSUME NEW g \in Servers PROVE Exact(g)'
    BY <2>1, <2>2 DEF ExactInv, Exact
  <2> QED  BY <2>3 DEF ExactInv
<1>3. CASE Next
  BY <1>2, <1>3, Steps, Publishes, ExactKeptByOthers, ExactKeptBySnapshot, ExactKeptByPhase,
     ExactKeptByApply, ExactKeptByDown
<1> QED  BY <1>1, <1>3

LEMMA ExactHolds == Spec => [](TypeInv /\ ExactInv)
<1>1. Init => ExactInv
  BY DEF Init, ExactInv, Exact, Running
<1> QED  BY <1>1, ExactKept, TypesHold, PTL DEF Spec

\* Once a hub tails the log its projection is the state of a process that applied
\* every event up to its cursor, whatever snapshot it started from.
THEOREM ProjectionsAreExact == Spec => []ProjectionIsExact
<1>1. ExactInv => ProjectionIsExact
  BY DEF ExactInv, Exact, ProjectionIsExact
<1> QED  BY <1>1, ExactHolds, PTL

-----------------------------------------------------------------------------
(* The projections are replicas of the log                                 *)

LEMMA AfterIsMaterialized == \A n : Projections!After(n) = Materialized(log, n)
BY DEF Projections!After, Materialized, Replay

\* The replicas show the same as long as the same hubs run and those stand still.
LEMMA SameShown ==
    ASSUME \A g \in Servers : /\ Running(g)' <=> Running(g)
                              /\ Running(g) => view'[g] = view[g] /\ cursor'[g] = cursor[g]
    PROVE  UNCHANGED <<Showing, ShownAt, Shown>>
<1>1. \A g \in Servers : (IF Running(g) THEN cursor[g] ELSE 0)' = IF Running(g) THEN cursor[g] ELSE 0
  OBVIOUS
<1>2. \A g \in Servers : (IF Running(g) THEN view[g] ELSE EmptyView)' = IF Running(g) THEN view[g] ELSE EmptyView
  OBVIOUS
<1> QED  BY <1>1, <1>2, Zenon DEF Showing, ShownAt, Shown

\* What one hub shows when only that hub moves.
LEMMA ShownByOne ==
    ASSUME NEW h \in Servers,
           \A g \in Servers \ {h} : /\ view'[g] = view[g] /\ phase'[g] = phase[g]
                                    /\ cursor'[g] = cursor[g]
    PROVE  /\ ShownAt' = [ShownAt EXCEPT ![h] = IF Running(h)' THEN cursor'[h] ELSE 0]
           /\ Shown' = [Shown EXCEPT ![h] = IF Running(h)' THEN view'[h] ELSE EmptyView]
           /\ Showing' = IF Running(h)' THEN Showing \cup {h} ELSE Showing \ {h}
<1>1. \A g \in Servers \ {h} : Running(g)' <=> Running(g)
  BY DEF Running
<1>2. ShownAt' = [ShownAt EXCEPT ![h] = IF Running(h)' THEN cursor'[h] ELSE 0]
  BY <1>1 DEF ShownAt
<1>3. Shown' = [Shown EXCEPT ![h] = IF Running(h)' THEN view'[h] ELSE EmptyView]
  BY <1>1 DEF Shown
<1>4. Showing' = IF Running(h)' THEN Showing \cup {h} ELSE Showing \ {h}
  BY <1>1 DEF Showing
<1> QED  BY <1>2, <1>3, <1>4

LEMMA StartupIsReplicated ==
    ASSUME TypeInv, ExactInv, NEW h \in Servers,
           \/ \E n \in 0..Len(log) : ApplySnapshot(h, n)
           \/ ReplayEvents(h) \/ ReplayEvent(h) \/ ReplayDone(h) \/ ListReplayed(h) \/ ServeHTTP(h)
    PROVE  [Projections!Next]_(Projections!vars)
<1>0. /\ cursor[h] \in 0..Len(log) /\ replayEnd[h] \in 0..Len(log) /\ Exact(h)
      /\ cursor[h] \in Nat /\ replayEnd[h] \in Nat /\ Len(log) \in Nat
  BY HubTyped, LogIsTyped DEF TypeInv, ExactInv
<1> USE DEF Projections!vars
<1>1. CASE \E n \in 0..Len(log) : ApplySnapshot(h, n)
  <2>1. /\ UNCHANGED <<log, replayEnd>> /\ ~Running(h) /\ ~Running(h)'
        /\ \A g \in Servers \ {h} : /\ view'[g] = view[g] /\ phase'[g] = phase[g]
                                    /\ cursor'[g] = cursor[g]
    BY <1>1 DEF ApplySnapshot, TypeInv, TypeOK, Running
  <2>2. UNCHANGED <<Showing, ShownAt, Shown>>
    BY <2>1, SameShown DEF Running
  <2> QED  BY <2>1, <2>2
<1>2. CASE ReplayEvents(h)
  <2>1. /\ UNCHANGED <<log, view, cursor>> /\ ~Running(h) /\ ~Running(h)'
        /\ replayEnd' = [replayEnd EXCEPT ![h] = Len(log)]
        /\ \A g \in Servers \ {h} : phase'[g] = phase[g]
    BY <1>2 DEF ReplayEvents, TypeInv, TypeOK, Running
  <2>2. UNCHANGED <<Showing, ShownAt, Shown>>
    BY <2>1, SameShown DEF Running
  <2>3. h \notin Showing
    BY <2>1 DEF Showing
  <2>4. Projections!Begin(h)
    BY <2>1, <2>2, <2>3 DEF Projections!Begin
  <2> QED  BY <2>4 DEF Projections!Next
<1>3. CASE ReplayEvent(h)
  <2>1. /\ UNCHANGED <<log, replayEnd, phase>> /\ ~Running(h)
        /\ \A g \in Servers \ {h} : view'[g] = view[g] /\ cursor'[g] = cursor[g]
    BY <1>3 DEF ReplayEvent, Project, TypeInv, TypeOK, Running
  <2>2. ~Running(h)' /\ \A g \in Servers \ {h} : phase'[g] = phase[g]
    BY <2>1 DEF Running
  <2>3. UNCHANGED <<Showing, ShownAt, Shown>>
    BY <2>1, <2>2, SameShown DEF Running
  <2> QED  BY <2>1, <2>3
<1>4. CASE ReplayDone(h)
  <2>1. /\ UNCHANGED <<log, replayEnd, view, cursor>> /\ ~Running(h) /\ Running(h)'
        /\ phase[h] = "replaying" /\ cursor[h] >= replayEnd[h]
        /\ \A g \in Servers \ {h} : phase'[g] = phase[g]
    BY <1>4 DEF ReplayDone, TypeInv, TypeOK, Running
  <2>2. cursor[h] = replayEnd[h] /\ view[h] = Materialized(log, cursor[h])
    BY <1>0, <2>1, ReplayNothing DEF Exact
  <2>3. /\ ShownAt' = [ShownAt EXCEPT ![h] = cursor[h]]
        /\ Shown' = [Shown EXCEPT ![h] = Projections!After(cursor[h])]
        /\ Showing' = Showing \cup {h}
    BY <2>1, <2>2, ShownByOne, AfterIsMaterialized
  <2>4. h \notin Showing /\ cursor[h] \in replayEnd[h]..Len(log)
    BY <1>0, <2>1, <2>2 DEF Showing
  <2>5. Projections!Show(h)
    BY <2>1, <2>3, <2>4 DEF Projections!Show
  <2> QED  BY <2>5 DEF Projections!Next
<1>5. CASE ListReplayed(h) \/ ServeHTTP(h)
  <2>1. /\ UNCHANGED <<log, replayEnd, view, cursor>> /\ Running(h) /\ Running(h)'
        /\ \A g \in Servers \ {h} : phase'[g] = phase[g]
    BY <1>5 DEF ListReplayed, ServeHTTP, TypeInv, TypeOK, Running
  <2>2. UNCHANGED <<Showing, ShownAt, Shown>>
    BY <2>1, SameShown DEF Running
  <2> QED  BY <2>1, <2>2
<1> QED  BY <1>1, <1>2, <1>3, <1>4, <1>5

LEMMA ConsumingIsReplicated ==
    ASSUME TypeInv, ExactInv, NEW h \in Servers, ConsumeEvent(h)
    PROVE  Projections!Advance(h)
<1>1. /\ UNCHANGED <<log, replayEnd, phase>> /\ Running(h) /\ cursor[h] < Len(log)
      /\ view' = [view EXCEPT ![h] = ApplyEvent(view[h], log[cursor[h] + 1])]
      /\ cursor' = [cursor EXCEPT ![h] = @ + 1]
  BY DEF ConsumeEvent, Project
<1>2. /\ view'[h] = ApplyEvent(view[h], log[cursor[h] + 1]) /\ cursor'[h] = cursor[h] + 1
      /\ Running(h)'
      /\ \A g \in Servers \ {h} : /\ view'[g] = view[g] /\ phase'[g] = phase[g]
                                  /\ cursor'[g] = cursor[g]
  BY <1>1 DEF TypeInv, TypeOK, Running
<1>3. ShownAt[h] = cursor[h] /\ Shown[h] = view[h] /\ h \in Showing /\ Showing \cup {h} = Showing
  BY <1>1 DEF ShownAt, Shown, Showing
<1>4. /\ ShownAt' = [ShownAt EXCEPT ![h] = cursor[h] + 1]
      /\ Shown' = [Shown EXCEPT ![h] = ApplyEvent(view[h], log[cursor[h] + 1])]
      /\ Showing' = Showing \cup {h}
  BY <1>2, ShownByOne
<1>5. /\ ShownAt' = [ShownAt EXCEPT ![h] = ShownAt[h] + 1]
      /\ Shown' = [Shown EXCEPT ![h] = ApplyEvent(Shown[h], log[ShownAt[h] + 1])]
      /\ Showing' = Showing
  BY <1>3, <1>4
<1> QED  BY <1>1, <1>3, <1>5 DEF Projections!Advance

LEMMA StoppingIsReplicated ==
    ASSUME TypeInv, NEW h \in Servers, Crash(h) \/ Shutdown(h)
    PROVE  Projections!Stop(h)
<1>1. Down(h)
  BY DEF Crash, Shutdown
<1>2. /\ log' = log /\ replayEnd' = [replayEnd EXCEPT ![h] = 0] /\ ~Running(h)'
      /\ \A g \in Servers \ {h} : /\ view'[g] = view[g] /\ phase'[g] = phase[g]
                                  /\ cursor'[g] = cursor[g]
  BY <1>1 DEF Down, TypeInv, TypeOK, Running
<1>3. /\ ShownAt' = [ShownAt EXCEPT ![h] = 0] /\ Shown' = [Shown EXCEPT ![h] = EmptyView]
      /\ Showing' = Showing \ {h}
  BY <1>2, ShownByOne
<1> QED  BY <1>2, <1>3 DEF Projections!Stop

LEMMA PublishingIsReplicated ==
    ASSUME UNCHANGED <<phase, view, cursor, replayEnd>>,
           log' = log \/ \E e \in Events : log' = Append(log, e)
    PROVE  [Projections!Next]_(Projections!vars)
<1>1. UNCHANGED <<replayEnd, Showing, ShownAt, Shown>>
  BY SameShown DEF Running
<1>2. CASE log' = log
  BY <1>1, <1>2 DEF Projections!vars
<1>3. ASSUME NEW e \in Events, log' = Append(log, e)
      PROVE  Projections!Publish(e)
  BY <1>1, <1>3 DEF Projections!Publish
<1> QED  BY <1>2, <1>3 DEF Projections!Next

\* Whatever snapshots, replays, requests, workers and crashes do, what the hubs'
\* callbacks see is a replica of the log: shown from the captured end on, and moved
\* on one event at a time, in order.
THEOREM HubsAreReplicas == Spec => ImplementsReplicatedView
<1>1. Init => Projections!Init
  <2> SUFFICES ASSUME Init PROVE Projections!Init
    OBVIOUS
  <2>1. \A h \in Servers : ~Running(h)
    BY DEF Init, Running
  <2>2. ShownAt = [h \in Servers |-> 0] /\ Shown = [h \in Servers |-> EmptyView] /\ Showing = {}
    BY <2>1 DEF ShownAt, Shown, Showing
  <2> QED  BY <2>2 DEF Init, Projections!Init
<1>2. TypeInv /\ ExactInv /\ [Next]_vars => [Projections!Next]_(Projections!vars)
  <2> SUFFICES ASSUME TypeInv, ExactInv, [Next]_vars PROVE [Projections!Next]_(Projections!vars)
    OBVIOUS
  <2>1. CASE UNCHANGED vars
    BY <2>1, PublishingIsReplicated DEF vars, hubVars
  <2>2. ASSUME NEW h \in Servers, ConsumeEvent(h) \/ Crash(h) \/ Shutdown(h) PROVE Projections!Next
    BY <2>2, ConsumingIsReplicated, StoppingIsReplicated DEF Projections!Next
  <2>3. ASSUME NEW h \in Servers, EventConsumerFails(h) PROVE UNCHANGED Projections!vars
    <3>1. /\ UNCHANGED <<log, replayEnd, view, cursor>>
          /\ \A g \in Servers : Running(g)' <=> Running(g)
      BY <2>3, EndingFacts
    <3> QED  BY <3>1, SameShown DEF Projections!vars
  <2>4. CASE Next
    BY <2>2, <2>3, <2>4, Steps, Publishes, StartupIsReplicated, PublishingIsReplicated
  <2> QED  BY <2>1, <2>4
<1> QED  BY <1>1, <1>2, ExactHolds, PTL DEF Spec, ImplementsReplicatedView, Projections!Spec

-----------------------------------------------------------------------------
(* Workers follow the projection                                           *)

\* A worker that is not cancelled, delivering or not, is the one attached to the
\* stored object, which is healthy and its hub's own.
Follows(w) ==
    ~w.cancelled =>
        LET entry == Stored(w.server, w.key) IN
        /\ attached[w.server][w.key] /\ w.gen = gen[w.server][w.key]
        /\ entry # NoSub /\ entry.lease = w.lease /\ entry.server = w.server /\ ~entry.stale

FollowInv == \A w \in workers : Follows(w)

LEMMA FollowKeptByOthers ==
    ASSUME FollowInv, UNCHANGED <<view, gen, attached>>,
           \A u \in workers' : \E w \in workers :
               /\ u.server = w.server /\ u.key = w.key /\ u.gen = w.gen /\ u.lease = w.lease
               /\ u.cancelled = w.cancelled
    PROVE  FollowInv'
BY DEF FollowInv, Follows, Stored

LEMMA WorkKeepsWorkers ==
    ASSUME TypeInv, NEW w \in workers, Work(w)
    PROVE  /\ UNCHANGED <<phase, view, gen, attached, starting, toLaunch, cursor>>
           /\ \A u \in workers' : \E x \in workers :
                 /\ u.server = x.server /\ u.key = x.key /\ u.gen = x.gen /\ u.lease = x.lease
                 /\ u.nth = x.nth /\ u.cancelled = x.cancelled
<1>1. w \in Workers /\ workers \subseteq Workers
  BY DEF TypeInv, TypeOK
<1>2. \/ workers' = workers \ {w}
      \/ \E step \in {"gone", "failed"} : workers' = (workers \ {w}) \cup {[w EXCEPT !.step = step]}
  BY DEF Work, DeliveryGone, PublishGone, PublishGoneFails, WorkerFails, PublishStale,
         PublishStaleFails, WorkerCancelled, Ends, Becomes
<1>3. \A step \in {"gone", "failed"} :
          LET u == [w EXCEPT !.step = step] IN
          /\ u.server = w.server /\ u.key = w.key /\ u.gen = w.gen /\ u.lease = w.lease
          /\ u.nth = w.nth /\ u.cancelled = w.cancelled
  BY <1>1 DEF Workers
<1>4. UNCHANGED <<phase, view, gen, attached, starting, toLaunch, cursor>>
  BY DEF Work, DeliveryGone, PublishGone, PublishGoneFails, WorkerFails, PublishStale,
         PublishStaleFails, WorkerCancelled, hubVars
<1> QED  BY <1>2, <1>3, <1>4

LEMMA FollowKeptByApply ==
    ASSUME TypeInv, FollowInv, NEW h \in Servers, NEW v \in Views, CanCreate(h, v), Project(h, v)
    PROVE  FollowInv'
<1> SUFFICES ASSUME NEW u \in workers', ~u.cancelled PROVE Follows(u)'
  BY DEF FollowInv, Follows
<1>1. PICK w \in workers : SameWorker(u, w) /\ (u.cancelled <=> w.cancelled \/ Hit(w, h, v))
  BY ProjectFacts DEF TypeInv
<1>2. /\ w.server \in Servers /\ w.key \in Keys /\ Follows(w) /\ ~w.cancelled /\ ~Hit(w, h, v)
  BY <1>1, WorkerTyped DEF TypeInv, TypeOK, FollowInv
<1>3. ~(w.server = h /\ w.key \in Touched(h, v))
  BY <1>2 DEF Follows, Hit
<1>4. ~(w.server = h /\ w.key \in Created(h, v))
  BY <1>3 DEF Created
<1>5. /\ attached'[w.server][w.key] <=> attached[w.server][w.key]
      /\ gen'[w.server][w.key] = gen[w.server][w.key]
      /\ view'[w.server] = IF w.server = h THEN v ELSE view[w.server]
  BY <1>2, <1>3, <1>4, ProjectFacts DEF TypeInv
<1>6. Stored(w.server, w.key)' = Stored(w.server, w.key)
  BY <1>2, <1>3, <1>5 DEF Stored, Touched
<1> QED  BY <1>1, <1>2, <1>5, <1>6 DEF Follows, SameWorker

LEMMA FollowKeptByStart ==
    ASSUME TypeInv, FollowInv, NEW h \in Servers, NEW object \in Objects, Running(h),
           startSubscriptionWorker(h, object), UNCHANGED <<phase, view, gen>>
    PROVE  FollowInv'
<1>1. /\ object[1] \in Keys
      /\ \A g \in Servers, k \in Keys : attached[g][k] => attached'[g][k]
  BY StartKeeps DEF Objects
<1> SUFFICES ASSUME NEW w \in workers', ~w.cancelled PROVE Follows(w)'
  BY DEF FollowInv, Follows
<1>2. CASE w \in workers
  <2>1. w.server \in Servers /\ w.key \in Keys /\ Follows(w)
    BY <1>2, WorkerTyped DEF TypeInv, TypeOK, FollowInv
  <2> QED  BY <1>1, <2>1 DEF Follows, Stored
<1>3. CASE w \notin workers
  <2>1. CanStart(h, object) /\ w = NewWorker(h, object)
    BY <1>3 DEF startSubscriptionWorker
  <2>2. /\ w.server = h /\ w.key = object[1] /\ w.gen = gen[h][object[1]]
        /\ w.lease = Stored(h, object[1]).lease
    BY <2>1, StartFacts
  <2>3. attached'[h][object[1]]
    BY <1>1, <2>1 DEF startSubscriptionWorker, TypeInv, TypeOK
  <2> QED  BY <2>1, <2>2, <2>3 DEF Follows, CanStart, Stored
<1> QED  BY <1>2, <1>3

\* The object a start is about, and what is left of the rest.
LEMMA Starts ==
    ASSUME TypeInv, NEW h \in Servers,
           StartApplied(h) \/ \E object \in toLaunch[h] : LaunchReplayed(h, object)
    PROVE  \E object \in Objects :
               /\ Running(h) /\ startSubscriptionWorker(h, object)
               /\ UNCHANGED <<log, phase, view, cursor, gen, reported, op>>
               /\ \/ starting[h] = object /\ starting' = [starting EXCEPT ![h] = None] /\ UNCHANGED toLaunch
                  \/ UNCHANGED starting /\ toLaunch' = [toLaunch EXCEPT ![h] = @ \ {object}]
<1>1. /\ starting \in [Servers -> Objects \cup {None}] /\ toLaunch \in [Servers -> SUBSET Objects]
  BY DEF TypeInv, TypeOK
<1>2. starting[h] # None \/ toLaunch[h] # {}
  BY DEF StartApplied, LaunchReplayed
<1>3. Running(h)
  BY <1>2 DEF TypeInv, IdleInv
<1>4. CASE StartApplied(h)
  <2>1. starting[h] \in Objects
    BY <1>1, <1>4 DEF StartApplied
  <2> QED  BY <1>3, <1>4, <2>1 DEF StartApplied, reqVars
<1>5. ASSUME NEW object \in toLaunch[h], LaunchReplayed(h, object)
      PROVE  /\ object \in Objects /\ startSubscriptionWorker(h, object)
             /\ UNCHANGED <<log, phase, view, cursor, gen, reported, op, starting>>
             /\ toLaunch' = [toLaunch EXCEPT ![h] = @ \ {object}]
  BY <1>1, <1>5 DEF LaunchReplayed, reqVars
<1> QED  BY <1>3, <1>4, <1>5

LEMMA FollowKept == TypeInv /\ FollowInv /\ [Next]_vars => FollowInv'
<1> SUFFICES ASSUME TypeInv, FollowInv, [Next]_vars PROVE FollowInv'
  OBVIOUS
<1>1. CASE UNCHANGED vars
  BY <1>1, FollowKeptByOthers DEF vars, hubVars
<1>2. ASSUME NEW h \in Servers, NEW n \in 0..Len(log), ApplySnapshot(h, n) PROVE FollowInv'
  <2>1. /\ \A g \in Servers : g # h => view'[g] = view[g] /\ gen'[g] = gen[g] /\ attached'[g] = attached[g]
        /\ workers' = workers /\ phase[h] = "down"
    BY <1>2 DEF ApplySnapshot, TypeInv, TypeOK
  <2> SUFFICES ASSUME NEW w \in workers PROVE Follows(w)'
    BY <2>1 DEF FollowInv
  <2>2. Follows(w) /\ w.server \in Servers /\ Running(w.server)
    BY WorkerTyped DEF TypeInv, TypeOK, FollowInv, OnceInv, StartedOnce
  <2>3. w.server # h
    BY <2>1, <2>2 DEF Running
  <2> QED  BY <2>1, <2>2, <2>3 DEF Follows, Stored
<1>3. ASSUME NEW h \in Servers, ReplayEvents(h) \/ ReplayDone(h) \/ ListReplayed(h) \/ ServeHTTP(h)
      PROVE  FollowInv'
  <2>1. UNCHANGED <<view, gen, attached, workers>>
    BY <1>3 DEF ReplayEvents, ReplayDone, ListReplayed, ServeHTTP
  <2> QED  BY <2>1, FollowKeptByOthers
<1>4. ASSUME NEW h \in Servers, ReplayEvent(h) \/ ConsumeEvent(h) PROVE FollowInv'
  <2>1. cursor[h] < Len(log)
    <3>1. cursor[h] \in 0..Len(log) /\ replayEnd[h] \in 0..Len(log) /\ Len(log) \in Nat
      BY HubTyped, LogIsTyped DEF TypeInv
    <3> QED  BY <1>4, <3>1 DEF ReplayEvent, ConsumeEvent
  <2>2. ApplyEvent(view[h], log[cursor[h] + 1]) \in Views
    BY <2>1, AppliedTyped DEF TypeInv
  <2> QED  BY <1>4, <2>2, FollowKeptByApply DEF ReplayEvent, ConsumeEvent
<1>5. ASSUME NEW h \in Servers,
             StartApplied(h) \/ \E object \in toLaunch[h] : LaunchReplayed(h, object)
      PROVE  FollowInv'
  BY <1>5, Starts, FollowKeptByStart
<1>6. ASSUME NEW h \in Servers, Request(h) PROVE FollowInv'
  <2>1. UNCHANGED <<view, gen, attached, workers>>
    BY <1>6 DEF Request, onRegisterTopic, onDeregisterTopic, onSubscriptionVerified, Publishing,
       onUnsubscriptionValidation, onUnsubscriptionVerified, PublishSucceeds, PublishFails, hubVars
  <2> QED  BY <2>1, FollowKeptByOthers
<1>7. ASSUME NEW h \in Servers, Crash(h) \/ Shutdown(h) PROVE FollowInv'
  <2>1. /\ \A g \in Servers : g # h => view'[g] = view[g] /\ gen'[g] = gen[g] /\ attached'[g] = attached[g]
        /\ workers' = {w \in workers : w.server # h}
    BY <1>7 DEF Crash, Shutdown, Down, TypeInv, TypeOK
  <2> SUFFICES ASSUME NEW w \in workers, w.server # h PROVE Follows(w)'
    BY <2>1 DEF FollowInv
  <2>2. Follows(w) /\ w.server \in Servers
    BY WorkerTyped DEF TypeInv, TypeOK, FollowInv
  <2> QED  BY <2>1, <2>2 DEF Follows, Stored
<1>8. ASSUME NEW w \in workers, Work(w) PROVE FollowInv'
  BY <1>8, WorkKeepsWorkers, FollowKeptByOthers
<1>9. ASSUME NEW h \in Servers, EventConsumerFails(h) PROVE FollowInv'
  <2> SUFFICES ASSUME NEW u \in workers', ~u.cancelled PROVE Follows(u)'
    BY DEF FollowInv, Follows
  <2>1. PICK w \in workers : SameWorker(u, w) /\ (u.cancelled <=> w.cancelled \/ w.server = h)
    BY <1>9, EndingFacts, Zenon
  <2>2. UNCHANGED <<view, gen, attached>>
    BY <1>9, EndingFacts
  <2> QED  BY <2>1, <2>2 DEF FollowInv, Follows, SameWorker, Stored
<1>10. CASE Next
  BY <1>10, Steps, <1>2, <1>3, <1>4, <1>5, <1>6, <1>7, <1>8, <1>9
<1> QED  BY <1>1, <1>10

LEMMA FollowHolds == Spec => [](TypeInv /\ FollowInv)
<1>1. Init => FollowInv
  BY DEF Init, FollowInv
<1> QED  BY <1>1, FollowKept, TypesHold, PTL DEF Spec

\* Removal, the stale mark and the replacement of an entry reach its worker:
\* whoever delivers does so for the entry its hub holds.
THEOREM ConsumersFollow == Spec => []ConsumersFollowTheProjection
<1>1. FollowInv => ConsumersFollowTheProjection
  BY DEF FollowInv, Follows, ConsumersFollowTheProjection, Consumers
<1> QED  BY <1>1, FollowHolds, PTL

-----------------------------------------------------------------------------
(* One owner for a lease                                                   *)

\* Subscriptions published or being published.
Claims ==
    {e \in Events : /\ e.kind = "subscribe"
                    /\ (\E i \in 1..Len(log) : log[i] = e) \/ (\E h \in Servers : op[h] = e)}

OwnerInv == \A a, b \in Claims : a.lease = b.lease => a.server = b.server

\* Some event among the first n of l stored x.
Sourced(x, l, n) ==
    x # NoSub => \E i \in 1..n : l[i].kind = "subscribe" /\ l[i].lease = x.lease /\ l[i].server = x.server

SourceInv == \A h \in Servers, k \in Keys : Sourced(Stored(h, k), log, Len(log))

ClaimInv == OwnerInv /\ SourceInv

LEMMA AppliedSource ==
    ASSUME NEW w \in Views, NEW l, NEW n \in Nat, NEW m \in Nat, n <= m, l[n + 1] \in Events, NEW k \in Keys,
           Sourced(w.subs[k], l, m), n + 1 <= m
    PROVE  Sourced(ApplyEvent(w, l[n + 1]).subs[k], l, m)
<1> DEFINE e == l[n + 1]
           x == w.subs[k]
           y == ApplyEvent(w, e).subs[k]
<1>1. /\ (x # NoSub /\ y # NoSub) => SameLease(y, x)
      /\ (x = NoSub /\ y # NoSub) => /\ e.kind = "subscribe" /\ e.key = k
                                     /\ y.lease = e.lease /\ y.server = e.server
  BY AppliedEntry
<1>2. n + 1 \in 1..m
  OBVIOUS
<1>3. Sourced(x, l, m)
  OBVIOUS
<1> HIDE DEF x, y
<1>4. Sourced(y, l, m)
  BY <1>1, <1>2, <1>3 DEF Sourced, SameLease
<1> QED  BY <1>4 DEF y

LEMMA SourceGrows ==
    ASSUME NEW x, NEW l, NEW n \in Nat, NEW other, NEW m \in Nat, n <= m,
           \A i \in 1..n : other[i] = l[i], Sourced(x, l, n)
    PROVE  Sourced(x, other, m)
<1>1. \A i \in 1..n : i \in 1..m
  OBVIOUS
<1> QED  BY <1>1 DEF Sourced

LEMMA MaterializedSource ==
    ASSUME NEW l, NEW p \in Nat, EventsIn(l, 0, p), NEW k \in Keys
    PROVE  Sourced(Materialized(l, p).subs[k], l, p)
<1> DEFINE S == {n \in Nat : n <= p => Sourced(Materialized(l, n).subs[k], l, n)}
<1>1. 0 \in S
  <2>1. Materialized(l, 0) = EmptyView
    BY ReplayNothing DEF Materialized
  <2>2. EmptyView.subs[k] = NoSub
    BY DEF EmptyView
  <2> QED  BY <2>1, <2>2 DEF Sourced
<1>2. ASSUME NEW n \in Nat, 0 <= n, n < p, n \in S PROVE n + 1 \in S
  <2>1. Sourced(Materialized(l, n).subs[k], l, n)
    BY <1>2
  <2>2. EventsIn(l, 0, n) /\ l[n + 1] \in Events
    BY <1>2 DEF EventsIn
  <2>3. Materialized(l, n) \in Views
    BY <2>2, MaterializedTyped
  <2>4. Materialized(l, n + 1) = ApplyEvent(Materialized(l, n), l[n + 1])
    BY ReplayOneMore DEF Materialized
  <2>5. Sourced(Materialized(l, n).subs[k], l, n + 1)
    BY <2>1, SourceGrows
  <2>6. Sourced(ApplyEvent(Materialized(l, n), l[n + 1]).subs[k], l, n + 1)
    <3> DEFINE m == n + 1
    <3>1. m \in Nat /\ n <= m /\ n + 1 <= m /\ Sourced(Materialized(l, n).subs[k], l, m)
      BY <2>5
    <3> HIDE DEF m
    <3>2. Sourced(ApplyEvent(Materialized(l, n), l[n + 1]).subs[k], l, m)
      BY <2>2, <2>3, <3>1, AppliedSource
    <3> QED  BY <3>2 DEF m
  <2> QED  BY <2>4, <2>6
<1> HIDE DEF S
<1>3. p \in S
  BY <1>1, <1>2, UpTo
<1> QED  BY <1>3 DEF S

LEMMA SourceKept ==
    ASSUME TypeInv, SourceInv, [Next]_vars
    PROVE  SourceInv'
<1>0. /\ Len(log) \in Nat /\ \A i \in 1..Len(log) : log[i] \in Events
      /\ \A n \in 0..Len(log) : EventsIn(log, 0, n)
  BY LogIsTyped DEF TypeInv
<1>1. ASSUME UNCHANGED view, log' = log \/ \E e \in Events : log' = Append(log, e)
      PROVE  SourceInv'
  <2>1. Len(log') \in Nat /\ Len(log) <= Len(log') /\ \A i \in 1..Len(log) : log'[i] = log[i]
    <3>1. log \in Seq(Events)
      BY DEF TypeInv, TypeOK
    <3>2. CASE log' = log
      BY <1>0, <3>2
    <3>3. ASSUME NEW e \in Events, log' = Append(log, e)
          PROVE  Len(log') \in Nat /\ Len(log) <= Len(log') /\ \A i \in 1..Len(log) : log'[i] = log[i]
      BY <1>0, <3>1, <3>3
    <3> QED  BY <1>1, <3>2, <3>3
  <2> SUFFICES ASSUME NEW h \in Servers, NEW k \in Keys PROVE Sourced(Stored(h, k), log', Len(log'))
    BY <1>1 DEF SourceInv, Stored
  <2> QED  BY <1>0, <2>1, SourceGrows DEF SourceInv
<1>2. ASSUME UNCHANGED log, NEW h \in Servers, NEW v, view' = [view EXCEPT ![h] = v],
             \A k \in Keys : Sourced(v.subs[k], log, Len(log))
      PROVE  SourceInv'
  <2> SUFFICES ASSUME NEW g \in Servers, NEW k \in Keys PROVE Sourced(Stored(g, k)', log, Len(log))
    BY <1>2 DEF SourceInv
  <2>1. view'[g] = IF g = h THEN v ELSE view[g]
    BY <1>2 DEF TypeInv, TypeOK
  <2> QED  BY <1>2, <2>1 DEF SourceInv, Stored
<1>3. ASSUME NEW h \in Servers, NEW n \in 0..Len(log), ApplySnapshot(h, n) PROVE SourceInv'
  <2>1. UNCHANGED log /\ view' = [view EXCEPT ![h] = Materialized(log, n)]
    BY <1>3 DEF ApplySnapshot
  <2>2. \A k \in Keys : Sourced(Materialized(log, n).subs[k], log, Len(log))
    BY <1>0, MaterializedSource, SourceGrows
  <2> QED  BY <1>2, <2>1, <2>2
<1>4. ASSUME NEW h \in Servers, ReplayEvent(h) \/ ConsumeEvent(h) PROVE SourceInv'
  <2>1. cursor[h] < Len(log) /\ cursor[h] \in Nat /\ cursor[h] + 1 <= Len(log)
    <3>1. cursor[h] \in 0..Len(log) /\ replayEnd[h] \in 0..Len(log) /\ Len(log) \in Nat
      BY HubTyped, <1>0 DEF TypeInv
    <3> QED  BY <1>4, <3>1 DEF ReplayEvent, ConsumeEvent
  <2>2. UNCHANGED log /\ view' = [view EXCEPT ![h] = ApplyEvent(view[h], log[cursor[h] + 1])]
    BY <1>4 DEF ReplayEvent, ConsumeEvent, Project
  <2>3. view[h] \in Views /\ log[cursor[h] + 1] \in Events
    BY <1>0, <2>1, HubTyped DEF TypeInv
  <2>4. \A k \in Keys : Sourced(view[h].subs[k], log, Len(log))
    BY DEF SourceInv, Stored
  <2>5. \A k \in Keys : Sourced(ApplyEvent(view[h], log[cursor[h] + 1]).subs[k], log, Len(log))
    BY <1>0, <2>1, <2>3, <2>4, AppliedSource
  <2> QED  BY <1>2, <2>2, <2>5
<1>5. ASSUME NEW h \in Servers, Crash(h) \/ Shutdown(h) PROVE SourceInv'
  <2>1. UNCHANGED log /\ view' = [view EXCEPT ![h] = EmptyView]
    BY <1>5 DEF Crash, Shutdown, Down
  <2>2. \A k \in Keys : Sourced(EmptyView.subs[k], log, Len(log))
    BY DEF EmptyView, Sourced
  <2> QED  BY <1>2, <2>1, <2>2
<1>6. ASSUME NEW h \in Servers, ReplayEvents(h) \/ ReplayDone(h) \/ ListReplayed(h) \/ ServeHTTP(h)
      PROVE  SourceInv'
  <2>1. UNCHANGED <<view, log>>
    BY <1>6 DEF ReplayEvents, ReplayDone, ListReplayed, ServeHTTP
  <2> QED  BY <1>1, <2>1
<1>7. CASE UNCHANGED vars
  BY <1>1, <1>7 DEF vars, hubVars
<1>8. ASSUME NEW h \in Servers, EventConsumerFails(h) PROVE SourceInv'
  <2>1. UNCHANGED <<view, log>>
    BY <1>8 DEF EventConsumerFails
  <2> QED  BY <1>1, <2>1
<1>9. CASE Next
  BY <1>9, Steps, Publishes, <1>1, <1>3, <1>4, <1>5, <1>6, <1>8
<1> QED  BY <1>7, <1>9

LEMMA OwnerKeptByOthers ==
    ASSUME OwnerInv, Claims' \subseteq Claims
    PROVE  OwnerInv'
BY DEF OwnerInv

\* What is published is the claim that was pending, or no claim.
LEMMA ClaimsAfterAppend ==
    ASSUME TypeInv, NEW e \in Events, log' = Append(log, e), e.kind # "subscribe" \/ e \in Claims,
           \A h \in Servers : op'[h] = op[h] \/ op'[h] = None
    PROVE  Claims' \subseteq Claims
<1>1. /\ log \in Seq(Events) /\ Len(log) \in Nat /\ Len(log') = Len(log) + 1
      /\ \A i \in 1..Len(log') : log'[i] = e \/ (i \in 1..Len(log) /\ log'[i] = log[i])
  BY DEF TypeInv, TypeOK
<1> SUFFICES ASSUME NEW c \in Claims' PROVE c \in Claims
  OBVIOUS
<1>2. /\ c \in Events /\ c.kind = "subscribe" /\ c # None
      /\ (\E i \in 1..Len(log') : log'[i] = c) \/ (\E h \in Servers : op'[h] = c)
  BY NoneAssumption DEF Claims
<1>3. CASE \E i \in 1..Len(log') : log'[i] = c
  BY <1>1, <1>2, <1>3 DEF Claims
<1>4. CASE \E h \in Servers : op'[h] = c
  BY <1>2, <1>4 DEF Claims
<1> QED  BY <1>2, <1>3, <1>4

LEMMA ClaimsWithSameLog ==
    ASSUME log' = log, \A h \in Servers : op'[h] = op[h] \/ op'[h] = None \/ op'[h].kind # "subscribe"
    PROVE  Claims' \subseteq Claims
<1> SUFFICES ASSUME NEW c \in Claims' PROVE c \in Claims
  OBVIOUS
<1>1. /\ c \in Events /\ c.kind = "subscribe" /\ c # None
      /\ (\E i \in 1..Len(log) : log[i] = c) \/ (\E h \in Servers : op'[h] = c)
  BY NoneAssumption DEF Claims
<1> QED  BY <1>1 DEF Claims

LEMMA OwnerKeptByVerified ==
    ASSUME TypeInv, ClaimInv, NEW h \in Servers, NEW k \in Keys, NEW lease \in Leases,
           onSubscriptionVerified(h, k, lease)
    PROVE  OwnerInv'
<1> DEFINE server == IF Stored(h, k) = NoSub THEN h ELSE Stored(h, k).server
           e == [kind |-> "subscribe", key |-> k, lease |-> lease, server |-> server]
<1>1. log' = log /\ op' = [op EXCEPT ![h] = e]
  BY DEF onSubscriptionVerified, Publishing, hubVars
<1>2. \A g \in Servers : op'[g] = IF g = h THEN e ELSE op[g]
  BY <1>1 DEF TypeInv, TypeOK
<1>3. e.lease = lease /\ e.server = server
  OBVIOUS
<1> HIDE DEF e
<1>4. \A c \in Claims' : c = e \/ c \in Claims
  BY <1>1, <1>2 DEF Claims
<1>5. \A c \in Claims : c.lease = lease => c.server = server
  <2> SUFFICES ASSUME NEW c \in Claims, c.lease = lease PROVE c.server = server
    OBVIOUS
  <2>1. CASE Stored(h, k) = NoSub
    <3>1. lease \in FreshLeases
      BY <2>1 DEF onSubscriptionVerified
    <3>2. /\ c.kind = "subscribe" /\ c # None
          /\ (\E i \in 1..Len(log) : log[i] = c) \/ (\E g \in Servers : op[g] = c)
      BY NoneAssumption DEF Claims
    <3>3. ASSUME NEW i \in 1..Len(log), log[i] = c PROVE FALSE
      <4>1. i \in {j \in DOMAIN log : log[j].kind \in {"subscribe", "stale"}}
        BY <3>2, <3>3, LogIsTyped DEF TypeInv
      <4>2. log[i].lease \in {log[j].lease : j \in {x \in DOMAIN log : log[x].kind \in {"subscribe", "stale"}}}
        BY <4>1
      <4> QED  BY <3>1, <3>3, <4>2 DEF FreshLeases
    <3>4. ASSUME NEW g \in Servers, op[g] = c PROVE FALSE
      <4>1. g \in {x \in Servers : op[x] # None /\ op[x].kind = "subscribe"}
        BY <3>2, <3>4
      <4>2. op[g].lease \in {op[x].lease : x \in {y \in Servers : op[y] # None /\ op[y].kind = "subscribe"}}
        BY <4>1
      <4> QED  BY <3>1, <3>4, <4>2 DEF FreshLeases
    <3> QED  BY <3>2, <3>3, <3>4
  <2>2. CASE Stored(h, k) # NoSub
    <3>1. lease = Stored(h, k).lease /\ server = Stored(h, k).server
      BY <2>2 DEF onSubscriptionVerified
    <3>2. PICK i \in 1..Len(log) :
              log[i].kind = "subscribe" /\ log[i].lease = Stored(h, k).lease /\ log[i].server = Stored(h, k).server
      BY <2>2 DEF ClaimInv, SourceInv, Sourced
    <3>3. log[i] \in Claims
      BY <3>2, LogIsTyped DEF TypeInv, Claims
    <3> QED  BY <3>1, <3>2, <3>3 DEF ClaimInv, OwnerInv
  <2> QED  BY <2>1, <2>2
<1> HIDE DEF server
<1> QED  BY <1>3, <1>4, <1>5 DEF ClaimInv, OwnerInv

LEMMA OwnerKept == TypeInv /\ ClaimInv /\ [Next]_vars => OwnerInv'
<1> SUFFICES ASSUME TypeInv, ClaimInv, [Next]_vars PROVE OwnerInv'
  OBVIOUS
<1>0. OwnerInv /\ op \in [Servers -> Events \cup {None}]
  BY DEF ClaimInv, TypeInv, TypeOK
<1>1. CASE UNCHANGED vars
  BY <1>0, <1>1, OwnerKeptByOthers, ClaimsWithSameLog DEF vars, reqVars
<1>2. ASSUME NEW h \in Servers,
             \/ \E n \in 0..Len(log) : ApplySnapshot(h, n)
             \/ ReplayEvents(h) \/ ReplayDone(h) \/ ListReplayed(h) \/ ServeHTTP(h)
             \/ ReplayEvent(h) \/ ConsumeEvent(h) \/ StartApplied(h) \/ EventConsumerFails(h)
             \/ \E object \in toLaunch[h] : LaunchReplayed(h, object)
      PROVE  OwnerInv'
  <2>1. UNCHANGED <<log, op>>
    BY <1>2 DEF ApplySnapshot, ReplayEvents, ReplayDone, ListReplayed, ServeHTTP, ReplayEvent,
       ConsumeEvent, StartApplied, EventConsumerFails, LaunchReplayed, reqVars
  <2> QED  BY <1>0, <2>1, OwnerKeptByOthers, ClaimsWithSameLog
<1>3. ASSUME NEW h \in Servers, Crash(h) \/ Shutdown(h) PROVE OwnerInv'
  <2>1. log' = log /\ \A g \in Servers : op'[g] = op[g] \/ op'[g] = None
    BY <1>0, <1>3 DEF Crash, Shutdown, Down
  <2> QED  BY <1>0, <2>1, OwnerKeptByOthers, ClaimsWithSameLog
<1>4. ASSUME NEW h \in Servers, Request(h) PROVE OwnerInv'
  <2>1. ASSUME NEW e, e.kind # "subscribe", Publishing(h, e) PROVE OwnerInv'
    <3>1. log' = log /\ \A g \in Servers : op'[g] = op[g] \/ op'[g].kind # "subscribe"
      BY <1>0, <2>1 DEF Publishing
    <3> QED  BY <1>0, <3>1, OwnerKeptByOthers, ClaimsWithSameLog
  <2>2. ASSUME NEW t \in Topics, onRegisterTopic(h, t) \/ onDeregisterTopic(h, t) PROVE OwnerInv'
    BY <2>1, <2>2 DEF onRegisterTopic, onDeregisterTopic
  <2>3. ASSUME NEW k \in Keys, onUnsubscriptionVerified(h, k) PROVE OwnerInv'
    BY <2>1, <2>3 DEF onUnsubscriptionVerified
  <2>4. ASSUME NEW k \in Keys, onUnsubscriptionValidation(h, k) PROVE OwnerInv'
    <3>1. UNCHANGED <<log, op>>
      BY <2>4 DEF onUnsubscriptionValidation
    <3> QED  BY <1>0, <3>1, OwnerKeptByOthers, ClaimsWithSameLog
  <2>5. CASE PublishFails(h)
    <3>1. log' = log /\ \A g \in Servers : op'[g] = op[g] \/ op'[g] = None
      BY <1>0, <2>5 DEF PublishFails
    <3> QED  BY <1>0, <3>1, OwnerKeptByOthers, ClaimsWithSameLog
  <2>6. CASE PublishSucceeds(h)
    <3>1. /\ op[h] \in Events /\ log' = Append(log, op[h])
          /\ \A g \in Servers : op'[g] = op[g] \/ op'[g] = None
      BY <1>0, <2>6 DEF PublishSucceeds
    <3>2. op[h].kind # "subscribe" \/ op[h] \in Claims
      BY <3>1 DEF Claims
    <3> QED  BY <1>0, <3>1, <3>2, OwnerKeptByOthers, ClaimsAfterAppend
  <2> QED  BY <1>4, <2>2, <2>3, <2>4, <2>5, <2>6, OwnerKeptByVerified DEF Request
<1>5. ASSUME NEW w \in workers, Work(w) PROVE OwnerInv'
  <2>1. UNCHANGED op
    BY <1>5 DEF Work, DeliveryGone, PublishGone, PublishGoneFails, WorkerFails, PublishStale,
       PublishStaleFails, WorkerCancelled, reqVars
  <2>2. /\ GoneEvent(w) \in Events /\ StaleEvent(w) \in Events
        /\ GoneEvent(w).kind # "subscribe" /\ StaleEvent(w).kind # "subscribe"
    BY WorkerTyped DEF TypeInv, TypeOK, GoneEvent, StaleEvent
  <2>3. log' = log \/ log' = Append(log, GoneEvent(w)) \/ log' = Append(log, StaleEvent(w))
    BY <1>5 DEF Work, DeliveryGone, PublishGone, PublishGoneFails, WorkerFails, PublishStale,
       PublishStaleFails, WorkerCancelled, AfterFailedWrite
  <2> QED  BY <1>0, <2>1, <2>2, <2>3, OwnerKeptByOthers, ClaimsAfterAppend, ClaimsWithSameLog
<1>6. CASE Next
  BY <1>6, Steps, <1>2, <1>3, <1>4, <1>5
<1> QED  BY <1>1, <1>6

LEMMA ClaimsHold == Spec => []ClaimInv
<1>1. Init => ClaimInv
  <2> SUFFICES ASSUME Init PROVE ClaimInv
    OBVIOUS
  <2>1. Len(log) = 0 /\ \A h \in Servers : op[h] = None
    BY DEF Init
  <2>2. Claims = {}
    BY <2>1, NoneAssumption DEF Claims
  <2>3. \A h \in Servers, k \in Keys : Stored(h, k) = NoSub
    BY DEF Init, Stored, EmptyView
  <2> QED  BY <2>2, <2>3 DEF ClaimInv, OwnerInv, SourceInv, Sourced
<1>2. TypeInv /\ ClaimInv /\ [Next]_vars => ClaimInv'
  BY OwnerKept, SourceKept DEF ClaimInv
<1> QED  BY <1>1, <1>2, TypesHold, PTL DEF Spec

\* A consumer group has one consumer: over all hubs, through restarts, revivals
\* and the race of the startup launch with the event consumer.
THEOREM GroupsHaveOneConsumer == Spec => []OneConsumerPerGroup
<1>1. TypeInv /\ FollowInv /\ ClaimInv => OneConsumerPerGroup
  <2> SUFFICES ASSUME TypeInv, FollowInv, ClaimInv,
                      NEW v \in Consumers, NEW w \in Consumers, v.key = w.key, v.lease = w.lease
               PROVE  v = w
    BY DEF OneConsumerPerGroup
  <2>1. /\ v \in Workers /\ w \in Workers /\ Follows(v) /\ Follows(w)
        /\ StartedOnce(v) /\ StartedOnce(w)
        /\ v.step = "consuming" /\ w.step = "consuming" /\ ~v.cancelled /\ ~w.cancelled
    BY DEF Consumers, TypeInv, TypeOK, OnceInv, FollowInv
  <2>2. ASSUME NEW x \in Workers, Follows(x), ~x.cancelled
        PROVE  \E c \in Claims : c.lease = x.lease /\ c.server = x.server
    <3>1. x.server \in Servers /\ x.key \in Keys
      BY WorkerTyped
    <3>2. /\ Stored(x.server, x.key) # NoSub /\ Stored(x.server, x.key).lease = x.lease
          /\ Stored(x.server, x.key).server = x.server
      BY <2>2 DEF Follows
    <3>3. PICK i \in 1..Len(log) : /\ log[i].kind = "subscribe"
                                   /\ log[i].lease = x.lease /\ log[i].server = x.server
      BY <3>1, <3>2 DEF ClaimInv, SourceInv, Sourced
    <3>4. log[i] \in Claims
      BY <3>3, LogIsTyped DEF TypeInv, Claims
    <3> QED  BY <3>3, <3>4
  <2>3. v.server = w.server
    BY <2>1, <2>2 DEF ClaimInv, OwnerInv
  <2>4. v.gen = w.gen /\ v.nth = w.nth
    BY <2>1, <2>3 DEF Follows, StartedOnce
  <2> QED  BY <2>1, <2>3, <2>4 DEF Workers
<1> QED  BY <1>1, FollowHolds, ClaimsHold, PTL

-----------------------------------------------------------------------------
(* No subscription is silently without delivery                            *)

Healthy(h, k) ==
    Stored(h, k) # NoSub /\ Stored(h, k).server = h /\ ~Stored(h, k).stale

Tended(h, k) ==
    \E w \in workers : w.server = h /\ w.key = k /\ w.gen = gen[h][k] /\ ~w.cancelled

\* A start is pending, or will be listed.
Awaited(h, k) ==
    \/ phase[h] = "tailing"
    \/ starting[h] = <<k, gen[h][k]>>
    \/ <<k, gen[h][k]>> \in toLaunch[h]

Looked(h, k) ==
    (Healthy(h, k) /\ Running(h) /\ ~reported[h]) =>
        \/ EndIsPublished(h, k)
        \/ attached[h][k] /\ Tended(h, k)
        \/ ~attached[h][k] /\ Awaited(h, k)

LookedInv ==
    /\ \A h \in Servers : toLaunch[h] # {} => phase[h] = "launching"
    /\ \A h \in Servers, k \in Keys : Looked(h, k)

LEMMA EndStays ==
    ASSUME TypeInv, NEW h \in Servers, NEW k \in Keys, EndIsPublished(h, k),
           view'[h] = view[h], cursor'[h] = cursor[h],
           log' = log \/ \E e \in Events : log' = Append(log, e)
    PROVE  EndIsPublished(h, k)'
<1>1. log \in Seq(Events) /\ Len(log) \in Nat /\ cursor[h] \in Nat
  BY HubTyped DEF TypeInv, TypeOK
<1>2. PICK i \in (cursor[h] + 1)..Len(log) :
        \/ log[i].kind = "stale" /\ Names(log[i], Stored(h, k)) /\ log[i].key = k
        \/ log[i].kind = "unsubscribe" /\ log[i].key = k
        \/ log[i].kind = "deregister" /\ log[i].topic = k[1]
  BY DEF EndIsPublished
<1>3. i \in (cursor'[h] + 1)..Len(log') /\ log'[i] = log[i]
  <2>1. CASE log' = log
    BY <2>1
  <2>2. ASSUME NEW e \in Events, log' = Append(log, e)
        PROVE  i \in (cursor'[h] + 1)..Len(log') /\ log'[i] = log[i]
    BY <1>1, <2>2
  <2> QED  BY <2>1, <2>2
<1>4. Stored(h, k)' = Stored(h, k)
  BY DEF Stored
<1>5. \/ log'[i].kind = "stale" /\ Names(log'[i], Stored(h, k)') /\ log'[i].key = k
      \/ log'[i].kind = "unsubscribe" /\ log'[i].key = k
      \/ log'[i].kind = "deregister" /\ log'[i].topic = k[1]
  BY <1>2, <1>3, <1>4
<1> QED  BY <1>3, <1>5 DEF EndIsPublished

\* A hub that a step leaves alone, but for the log, is looked after as before.
LEMMA LookedStays ==
    ASSUME TypeInv, NEW h \in Servers, NEW k \in Keys, Looked(h, k),
           view'[h] = view[h], cursor'[h] = cursor[h], gen'[h] = gen[h], attached'[h] = attached[h],
           phase'[h] = phase[h], starting'[h] = starting[h], toLaunch'[h] = toLaunch[h],
           reported[h] => reported'[h],
           log' = log \/ \E e \in Events : log' = Append(log, e),
           \A w \in workers : (w.server = h /\ w.key = k /\ ~w.cancelled) =>
               \E u \in workers' : u.server = h /\ u.key = k /\ u.gen = w.gen /\ ~u.cancelled
    PROVE  Looked(h, k)'
<1> SUFFICES ASSUME Healthy(h, k)', Running(h)', ~reported'[h]
             PROVE  \/ EndIsPublished(h, k)'
                    \/ attached'[h][k] /\ Tended(h, k)'
                    \/ ~attached'[h][k] /\ Awaited(h, k)'
  BY DEF Looked
<1>1. Healthy(h, k) /\ Running(h) /\ ~reported[h]
  BY DEF Healthy, Running, Stored
<1>2. CASE EndIsPublished(h, k)
  BY <1>2, EndStays
<1>3. CASE attached[h][k] /\ Tended(h, k)
  BY <1>3 DEF Tended
<1>4. CASE ~attached[h][k] /\ Awaited(h, k)
  BY <1>4 DEF Awaited
<1> QED  BY <1>1, <1>2, <1>3, <1>4 DEF Looked

\* The event that ends a healthy subscription changes its entry.
LEMMA EndTouches ==
    ASSUME NEW w \in Views, NEW e \in Events, NEW k \in Keys, NEW x, x = w.subs[k], x # NoSub, ~x.stale,
           \/ e.kind = "stale" /\ Names(e, x) /\ e.key = k
           \/ e.kind = "unsubscribe" /\ e.key = k
           \/ e.kind = "deregister" /\ e.topic = k[1]
    PROVE  ApplyEvent(w, e).subs[k] # x
<1>1. x \in Entries /\ ApplyEvent(w, e).subs[k] = EntryAfter(x, k, e)
  BY EntryOfApply DEF Views
<1>2. CASE Resets(e, k)
  BY <1>1, <1>2 DEF EntryAfter
<1>3. CASE ~Resets(e, k)
  <2>1. e.kind = "stale" /\ Names(e, x) /\ e.key = k
    BY <1>3 DEF Resets
  <2>2. EntryAfter(x, k, e) = [x EXCEPT !.stale = TRUE]
    BY <1>3, <2>1 DEF EntryAfter
  <2>3. [x EXCEPT !.stale = TRUE] # x
    BY <1>1 DEF Entries
  <2> QED  BY <1>1, <2>2, <2>3
<1> QED  BY <1>2, <1>3

LEMMA LookedAfterConsume ==
    ASSUME TypeInv, LookedInv, NEW h \in Servers, ConsumeEvent(h), NEW k \in Keys
    PROVE  Looked(h, k)'
<1> DEFINE e == log[cursor[h] + 1]
           v == ApplyEvent(view[h], e)
<1>1. /\ Running(h) /\ starting[h] = None /\ cursor[h] < Len(log)
      /\ CanCreate(h, v) /\ Project(h, v)
      /\ cursor' = [cursor EXCEPT ![h] = @ + 1]
      /\ starting' = [starting EXCEPT ![h] =
              IF Created(h, v) = {} THEN None
              ELSE LET j == CHOOSE j \in Created(h, v) : TRUE IN <<j, gen[h][j] + 1>>]
      /\ UNCHANGED <<log, phase, toLaunch, reported>>
  BY DEF ConsumeEvent
<1>2. e \in Events /\ v \in Views /\ view[h] \in Views /\ cursor[h] \in Nat /\ Len(log) \in Nat
  BY <1>1, AppliedTyped, HubTyped, LogIsTyped DEF TypeInv
<1>e. e = log[cursor[h] + 1]
  OBVIOUS
<1>v. v = ApplyEvent(view[h], e)
  OBVIOUS
<1> HIDE DEF v, e
<1>3. cursor'[h] = cursor[h] + 1
  BY <1>1 DEF TypeInv, TypeOK
<1>4. /\ view'[h] = v
      /\ gen'[h][k] = IF k \in Created(h, v) THEN gen[h][k] + 1 ELSE gen[h][k]
      /\ attached'[h][k] <=> attached[h][k] /\ k \notin Touched(h, v)
      /\ \A w \in workers : \E u \in workers' :
             SameWorker(u, w) /\ (u.cancelled <=> w.cancelled \/ Hit(w, h, v))
  BY <1>1, <1>2, ProjectFacts DEF TypeInv
<1> SUFFICES ASSUME Healthy(h, k)', ~reported[h]
             PROVE  \/ EndIsPublished(h, k)'
                    \/ attached'[h][k] /\ Tended(h, k)'
                    \/ ~attached'[h][k] /\ Awaited(h, k)'
  BY <1>1 DEF Looked
<1>5. v.subs[k] # NoSub /\ ~v.subs[k].stale /\ v.subs[k].server = h
  BY <1>4 DEF Healthy, Stored
<1>6. CASE k \in Touched(h, v)
  <2>1. k \in Created(h, v)
    BY <1>5, <1>6 DEF Created
  <2> DEFINE j == CHOOSE j \in Created(h, v) : TRUE
  <2>2. j \in Created(h, v)
    BY <2>1
  <2>3. j = k
    BY <1>2, <1>v, <2>1, <2>2, CreatedOne
  <2>4. starting'[h] = <<j, gen[h][j] + 1>>
    BY <1>1, <2>1 DEF TypeInv, TypeOK
  <2>5. starting'[h] = <<k, gen[h][k] + 1>>
    BY <2>3, <2>4
  <2> QED  BY <1>4, <1>6, <2>1, <2>5 DEF Awaited
<1>7. CASE k \notin Touched(h, v)
  <2>1. v.subs[k] = Stored(h, k) /\ gen'[h][k] = gen[h][k] /\ (attached'[h][k] <=> attached[h][k])
    BY <1>4, <1>7 DEF Touched, Created
  <2>2. Healthy(h, k)
    BY <1>5, <2>1 DEF Healthy
  <2>3. Looked(h, k) /\ starting[h] # <<k, gen[h][k]>>
    <3>1. gen[h][k] \in 0..MaxGen /\ gen[h][k] >= 1
      BY <2>2, HubTyped DEF TypeInv, IdentityInv, Healthy
    <3>2. <<k, gen[h][k]>> \in Objects
      BY <3>1 DEF Objects
    <3> QED  BY <1>1, <3>2, NoneAssumption DEF LookedInv
  <2>4. CASE EndIsPublished(h, k)
    <3>1. PICK i \in (cursor[h] + 1)..Len(log) :
            \/ log[i].kind = "stale" /\ Names(log[i], Stored(h, k)) /\ log[i].key = k
            \/ log[i].kind = "unsubscribe" /\ log[i].key = k
            \/ log[i].kind = "deregister" /\ log[i].topic = k[1]
      BY <2>4 DEF EndIsPublished
    <3>2. i # cursor[h] + 1
      <4>1. SUFFICES ASSUME i = cursor[h] + 1 PROVE FALSE
        OBVIOUS
      <4>2. ApplyEvent(view[h], e).subs[k] # Stored(h, k)
        <5>1. log[i] = e
          BY <1>e, <4>1
        <5>2. Stored(h, k) = view[h].subs[k]
          BY DEF Stored
        <5> QED  BY <1>2, <2>2, <3>1, <5>1, <5>2, EndTouches DEF Healthy
      <4> QED  BY <1>v, <2>1, <4>2
    <3>3. i \in (cursor'[h] + 1)..Len(log') /\ log'[i] = log[i]
      BY <1>1, <1>2, <1>3, <3>2
    <3>4. Stored(h, k)' = Stored(h, k)
      BY <1>4, <2>1 DEF Stored
    <3>5. \/ log'[i].kind = "stale" /\ Names(log'[i], Stored(h, k)') /\ log'[i].key = k
          \/ log'[i].kind = "unsubscribe" /\ log'[i].key = k
          \/ log'[i].kind = "deregister" /\ log'[i].topic = k[1]
      BY <3>1, <3>3, <3>4
    <3> QED  BY <3>3, <3>5 DEF EndIsPublished
  <2>5. CASE attached[h][k] /\ Tended(h, k)
    <3>1. PICK w \in workers : w.server = h /\ w.key = k /\ w.gen = gen[h][k] /\ ~w.cancelled
      BY <2>5 DEF Tended
    <3>2. ~Hit(w, h, v)
      BY <1>7, <3>1 DEF Hit
    <3>3. PICK u \in workers' : SameWorker(u, w) /\ ~u.cancelled
      BY <1>4, <3>1, <3>2
    <3>4. Tended(h, k)'
      BY <2>1, <3>1, <3>3 DEF Tended, SameWorker
    <3> QED  BY <2>1, <2>5, <3>4
  <2>6. CASE ~attached[h][k] /\ Awaited(h, k)
    BY <1>1, <2>1, <2>3, <2>6 DEF Awaited
  <2> QED  BY <1>1, <2>2, <2>3, <2>4, <2>5, <2>6 DEF Looked
<1> QED  BY <1>6, <1>7

LEMMA LookedAfterStart ==
    ASSUME TypeInv, LookedInv, NEW h \in Servers, NEW object \in Objects, Running(h),
           startSubscriptionWorker(h, object),
           UNCHANGED <<log, phase, view, cursor, gen, reported, op>>,
           \/ starting[h] = object /\ starting' = [starting EXCEPT ![h] = None] /\ UNCHANGED toLaunch
           \/ UNCHANGED starting /\ toLaunch' = [toLaunch EXCEPT ![h] = @ \ {object}],
           NEW k \in Keys
    PROVE  Looked(h, k)'
<1>1. /\ workers \subseteq workers'
      /\ \A x \in Keys : attached[h][x] => attached'[h][x]
      /\ k # object[1] => attached'[h][k] = attached[h][k]
  BY StartKeeps
<1>2. /\ starting[h] # object => starting'[h] = starting[h]
      /\ \A o \in toLaunch[h] : o # object => o \in toLaunch'[h]
  BY DEF TypeInv, TypeOK
<1> SUFFICES ASSUME Healthy(h, k), ~reported[h]
             PROVE  \/ EndIsPublished(h, k)'
                    \/ attached'[h][k] /\ Tended(h, k)'
                    \/ ~attached'[h][k] /\ Awaited(h, k)'
  BY DEF Looked, Healthy, Stored
<1>3. EndIsPublished(h, k) => EndIsPublished(h, k)'
  BY EndStays
<1>4. Tended(h, k) => Tended(h, k)'
  BY <1>1 DEF Tended
<1>5. CASE ~attached[h][k] /\ object = <<k, gen[h][k]>>
  <2>1. CanStart(h, object)
    BY <1>5 DEF CanStart, Healthy
  <2>2. attached'[h][k] /\ NewWorker(h, object) \in workers'
    <3>1. /\ attached' = [attached EXCEPT ![h][object[1]] = TRUE]
          /\ workers' = workers \cup {NewWorker(h, object)} /\ object[1] = k
      BY <1>5, <2>1 DEF startSubscriptionWorker
    <3>2. attached' = [attached EXCEPT ![h][k] = TRUE]
      BY <3>1
    <3> QED  BY <3>1, <3>2 DEF TypeInv, TypeOK
  <2>3. Tended(h, k)'
    <3> DEFINE w == NewWorker(h, object)
    <3>1. w.server = h /\ w.key = k /\ w.gen = gen'[h][k] /\ ~w.cancelled
      BY <1>5, <2>1, StartFacts
    <3> QED  BY <2>2, <3>1 DEF Tended
  <2> QED  BY <2>2, <2>3
<1>6. CASE ~attached[h][k] /\ object # <<k, gen[h][k]>>
  <2>1. Awaited(h, k) => Awaited(h, k)'
    BY <1>2, <1>6 DEF Awaited
  <2>2. attached'[h][k] = attached[h][k]
    <3>1. CASE k # object[1]
      BY <1>1, <3>1
    <3>2. CASE k = object[1]
      <4>1. object = <<object[1], object[2]>>
        BY DEF Objects
      <4>2. ~CanStart(h, object)
        BY <1>6, <3>2, <4>1 DEF CanStart
      <4> QED  BY <4>2 DEF startSubscriptionWorker
    <3> QED  BY <3>1, <3>2
  <2> QED  BY <1>3, <1>6, <2>1, <2>2 DEF LookedInv, Looked
<1>7. CASE attached[h][k]
  BY <1>1, <1>3, <1>4, <1>7 DEF LookedInv, Looked
<1> QED  BY <1>5, <1>6, <1>7

LEMMA LookedAfterWork ==
    ASSUME TypeInv, FollowInv, LookedInv, NEW x \in workers, Work(x), NEW h \in Servers, NEW k \in Keys
    PROVE  Looked(h, k)'
<1>0. x \in Workers /\ Looked(h, k) /\ log \in Seq(Events) /\ Len(log) \in Nat
  BY DEF TypeInv, TypeOK, LookedInv
<1>1. UNCHANGED <<phase, view, gen, attached, starting, toLaunch, cursor>>
  BY WorkKeepsWorkers
<1>2. log' = log \/ \E e \in Events : log' = Append(log, e)
  BY Publishes
<1>3. reported[h] => reported'[h]
  BY DEF Work, DeliveryGone, PublishGone, PublishGoneFails, WorkerFails, PublishStale,
         PublishStaleFails, WorkerCancelled, hubVars, TypeInv, TypeOK
<1>4. ASSUME NEW step \in {"gone", "failed"}, Becomes(x, step)
      PROVE  Looked(h, k)'
  <2>1. workers' = (workers \ {x}) \cup {[x EXCEPT !.step = step]}
    BY <1>4 DEF Becomes
  <2>2. LET u == [x EXCEPT !.step = step] IN
        u.server = x.server /\ u.key = x.key /\ u.gen = x.gen /\ u.cancelled = x.cancelled
    BY <1>0 DEF Workers
  <2>3. \A w \in workers : (w.server = h /\ w.key = k /\ ~w.cancelled) =>
            \E u \in workers' : u.server = h /\ u.key = k /\ u.gen = w.gen /\ ~u.cancelled
    BY <2>1, <2>2
  <2> QED  BY <1>0, <1>1, <1>2, <1>3, <2>3, LookedStays
<1>5. ASSUME Ends(x), x.cancelled \/ x.server # h \/ x.key # k
      PROVE  Looked(h, k)'
  <2>1. \A w \in workers : (w.server = h /\ w.key = k /\ ~w.cancelled) =>
            \E u \in workers' : u.server = h /\ u.key = k /\ u.gen = w.gen /\ ~u.cancelled
    BY <1>5 DEF Ends
  <2> QED  BY <1>0, <1>1, <1>2, <1>3, <2>1, LookedStays
<1>6. ASSUME NEW e, log' = Append(log, e), x.server = h, x.key = k, ~x.cancelled,
             \/ e = GoneEvent(x)
             \/ e = StaleEvent(x)
      PROVE  Looked(h, k)'
  <2>1. /\ Len(log') = Len(log) + 1 /\ log'[Len(log) + 1] = e
    BY <1>0, <1>6
  <2>2. Len(log) + 1 \in (cursor'[h] + 1)..Len(log')
    <3>1. cursor[h] \in 0..Len(log)
      BY HubTyped DEF TypeInv
    <3> QED  BY <1>0, <1>1, <2>1, <3>1
  <2>3. Follows(x) /\ Stored(h, k)' = Stored(h, k)
    BY <1>1 DEF FollowInv, Stored
  <2>4. /\ Stored(h, k) # NoSub /\ Stored(h, k).lease = x.lease /\ Stored(h, k).server = x.server
    BY <1>6, <2>3 DEF Follows
  <2>5. \/ e.kind = "unsubscribe" /\ e.key = k
        \/ e.kind = "stale" /\ Names(e, Stored(h, k)') /\ e.key = k
    BY <1>6, <2>3, <2>4 DEF GoneEvent, StaleEvent, Names
  <2> DEFINE i == Len(log) + 1
  <2>6. i \in (cursor'[h] + 1)..Len(log') /\ log'[i] = e
    BY <2>1, <2>2
  <2> HIDE DEF i
  <2>7. EndIsPublished(h, k)'
    BY <2>5, <2>6 DEF EndIsPublished
  <2> QED  BY <2>7 DEF Looked
<1>7. ASSUME x.server = h, reported'[h]
      PROVE  Looked(h, k)'
  BY <1>7 DEF Looked
<1>8. CASE DeliveryGone(x) \/ WorkerFails(x)
  BY <1>4, <1>8 DEF DeliveryGone, WorkerFails
<1>9. CASE PublishGone(x) \/ PublishStale(x)
  BY <1>5, <1>6, <1>9 DEF PublishGone, PublishStale
<1>10. CASE PublishGoneFails(x)
  BY <1>4, <1>5, <1>10 DEF PublishGoneFails
<1>11. CASE PublishStaleFails(x)
  <2>1. x.server = h => reported'[h]
    BY <1>11 DEF PublishStaleFails, TypeInv, TypeOK
  <2> QED  BY <1>5, <1>7, <1>11, <2>1 DEF PublishStaleFails
<1>12. CASE WorkerCancelled(x)
  BY <1>5, <1>12 DEF WorkerCancelled
<1> QED  BY <1>8, <1>9, <1>10, <1>11, <1>12 DEF Work

LEMMA LaunchesKept ==
    ASSUME TypeInv, LookedInv, [Next]_vars, NEW h \in Servers, toLaunch'[h] # {}
    PROVE  phase'[h] = "launching"
<1>0. toLaunch[h] # {} => phase[h] = "launching"
  BY DEF LookedInv
<1>1. toLaunch \in [Servers -> SUBSET Objects] /\ phase \in [Servers -> {"down", "loaded",
          "replaying", "tailing", "launching", "serving", "ending"}]
  BY DEF TypeInv, TypeOK
<1>2. ASSUME NEW g \in Servers, NEW n \in 0..Len(log), ApplySnapshot(g, n) PROVE phase'[h] = "launching"
  BY <1>0, <1>1, <1>2 DEF ApplySnapshot
<1>3. ASSUME NEW g \in Servers, ReplayEvents(g) \/ ReplayDone(g) \/ ListReplayed(g) \/ ServeHTTP(g)
      PROVE  phase'[h] = "launching"
  BY <1>0, <1>1, <1>3 DEF ReplayEvents, ReplayDone, ListReplayed, ServeHTTP
<1>4. ASSUME NEW g \in Servers, ReplayEvent(g) \/ ConsumeEvent(g) PROVE phase'[h] = "launching"
  BY <1>0, <1>4 DEF ReplayEvent, ConsumeEvent
<1>5. ASSUME NEW g \in Servers, StartApplied(g) \/ \E object \in toLaunch[g] : LaunchReplayed(g, object)
      PROVE  phase'[h] = "launching"
  BY <1>0, <1>1, <1>5 DEF StartApplied, LaunchReplayed
<1>6. ASSUME NEW g \in Servers, Request(g) PROVE phase'[h] = "launching"
  BY <1>0, <1>6 DEF Request, onRegisterTopic, onDeregisterTopic, onSubscriptionVerified, Publishing,
     onUnsubscriptionValidation, onUnsubscriptionVerified, PublishSucceeds, PublishFails, hubVars
<1>7. ASSUME NEW g \in Servers, Crash(g) \/ Shutdown(g) PROVE phase'[h] = "launching"
  BY <1>0, <1>1, <1>7 DEF Crash, Shutdown, Down
<1>8. ASSUME NEW w \in workers, Work(w) PROVE phase'[h] = "launching"
  BY <1>0, <1>8, WorkKeepsWorkers
<1>9. ASSUME NEW g \in Servers, EventConsumerFails(g) PROVE phase'[h] = "launching"
  BY <1>0, <1>9, EndingFacts
<1>10. CASE UNCHANGED vars
  BY <1>0, <1>10 DEF vars, hubVars
<1>11. CASE Next
  BY <1>11, Steps, <1>2, <1>3, <1>4, <1>5, <1>6, <1>7, <1>8, <1>9
<1> QED  BY <1>10, <1>11

LEMMA LookedKept == TypeInv /\ FollowInv /\ LookedInv /\ [Next]_vars => LookedInv'
<1> SUFFICES ASSUME TypeInv, FollowInv, LookedInv, [Next]_vars PROVE LookedInv'
  OBVIOUS
<1>1. \A h \in Servers : toLaunch'[h] # {} => phase'[h] = "launching"
  BY LaunchesKept
<1> SUFFICES ASSUME NEW h \in Servers, NEW k \in Keys PROVE Looked(h, k)'
  BY <1>1 DEF LookedInv
<1>2. Looked(h, k) /\ log' = log => (log' = log \/ \E e \in Events : log' = Append(log, e))
  OBVIOUS
<1>3. ASSUME view'[h] = view[h], cursor'[h] = cursor[h], gen'[h] = gen[h], attached'[h] = attached[h],
             phase'[h] = phase[h], starting'[h] = starting[h], toLaunch'[h] = toLaunch[h],
             reported'[h] = reported[h],
             log' = log \/ \E e \in Events : log' = Append(log, e),
             \A w \in workers : (w.server = h /\ ~w.cancelled) =>
                \E u \in workers' : u.server = h /\ u.key = w.key /\ u.gen = w.gen /\ ~u.cancelled
      PROVE  Looked(h, k)'
  <2>1. \A w \in workers : (w.server = h /\ w.key = k /\ ~w.cancelled) =>
            \E u \in workers' : u.server = h /\ u.key = k /\ u.gen = w.gen /\ ~u.cancelled
    BY <1>3
  <2>2. Looked(h, k)
    BY DEF LookedInv
  <2> QED  BY <1>3, <2>1, <2>2, LookedStays
<1>4. CASE UNCHANGED vars
  <2>1. UNCHANGED <<log, view, cursor, gen, attached, phase, starting, toLaunch, reported, workers>>
    BY <1>4 DEF vars, hubVars
  <2> QED  BY <1>3, <2>1
<1>5. ASSUME NEW g \in Servers, NEW n \in 0..Len(log), ApplySnapshot(g, n) PROVE Looked(h, k)'
  <2>1. /\ UNCHANGED <<log, workers, starting, toLaunch, reported>> /\ phase'[g] = "loaded"
        /\ h # g => /\ view'[h] = view[h] /\ cursor'[h] = cursor[h] /\ gen'[h] = gen[h]
                    /\ attached'[h] = attached[h] /\ phase'[h] = phase[h]
    BY <1>5 DEF ApplySnapshot, TypeInv, TypeOK
  <2>2. CASE h = g
    BY <2>1, <2>2 DEF Looked, Running
  <2>3. CASE h # g
    BY <1>3, <2>1, <2>3
  <2> QED  BY <2>2, <2>3
<1>6. ASSUME NEW g \in Servers, ReplayEvents(g) \/ ReplayDone(g) \/ ListReplayed(g) \/ ServeHTTP(g)
      PROVE  Looked(h, k)'
  <2>1. /\ UNCHANGED <<log, view, cursor, gen, attached, workers, starting, reported>>
        /\ h # g => phase'[h] = phase[h] /\ toLaunch'[h] = toLaunch[h]
    BY <1>6 DEF ReplayEvents, ReplayDone, ListReplayed, ServeHTTP, TypeInv, TypeOK
  <2>2. CASE h # g
    BY <1>3, <2>1, <2>2
  <2>3. CASE h = g /\ ReplayEvents(g)
    <3>1. phase'[h] = "replaying"
      BY <2>3 DEF ReplayEvents, TypeInv, TypeOK
    <3> QED  BY <3>1 DEF Looked, Running
  <2>4. CASE h = g /\ ReplayDone(g)
    <3>1. phase'[h] = "tailing" /\ phase[h] = "replaying"
      BY <2>4 DEF ReplayDone, TypeInv, TypeOK
    <3>2. ~attached'[h][k]
      BY <2>1, <3>1 DEF TypeInv, IdleInv, Running
    <3> QED  BY <3>1, <3>2 DEF Looked, Awaited
  <2>5. CASE h = g /\ ListReplayed(g)
    <3> DEFINE listed == {<<j, gen[h][j]>> :
                            j \in {x \in Keys : Stored(h, x) # NoSub /\ ~Stored(h, x).stale}}
    <3>1. phase[h] = "tailing" /\ toLaunch'[h] = listed
      BY <2>5 DEF ListReplayed, TypeInv, TypeOK
    <3>2. Healthy(h, k) => <<k, gen[h][k]>> \in listed
      BY DEF Healthy
    <3> HIDE DEF listed
    <3> SUFFICES ASSUME Healthy(h, k)', ~reported'[h]
                 PROVE  \/ EndIsPublished(h, k)'
                        \/ attached'[h][k] /\ Tended(h, k)'
                        \/ ~attached'[h][k] /\ Awaited(h, k)'
      BY DEF Looked
    <3>3. Healthy(h, k) /\ ~reported[h] /\ Running(h)
      BY <2>1, <3>1 DEF Healthy, Stored, Running
    <3>4. EndIsPublished(h, k) => EndIsPublished(h, k)'
      BY <2>1, EndStays
    <3>5. Tended(h, k) => Tended(h, k)'
      BY <2>1 DEF Tended
    <3>6. Awaited(h, k)'
      BY <2>1, <3>1, <3>2, <3>3 DEF Awaited
    <3> QED  BY <2>1, <3>3, <3>4, <3>5, <3>6 DEF LookedInv, Looked
  <2>6. CASE h = g /\ ServeHTTP(g)
    <3>1. phase[h] = "launching" /\ UNCHANGED toLaunch
      BY <2>6 DEF ServeHTTP
    <3> SUFFICES ASSUME Healthy(h, k)', ~reported'[h]
                 PROVE  \/ EndIsPublished(h, k)'
                        \/ attached'[h][k] /\ Tended(h, k)'
                        \/ ~attached'[h][k] /\ Awaited(h, k)'
      BY DEF Looked
    <3>3. Healthy(h, k) /\ ~reported[h] /\ Running(h)
      BY <2>1, <3>1 DEF Healthy, Stored, Running
    <3>4. EndIsPublished(h, k) => EndIsPublished(h, k)'
      BY <2>1, EndStays
    <3>5. Tended(h, k) => Tended(h, k)'
      BY <2>1 DEF Tended
    <3>6. Awaited(h, k) => Awaited(h, k)'
      BY <2>1, <3>1 DEF Awaited
    <3> QED  BY <2>1, <3>3, <3>4, <3>5, <3>6 DEF LookedInv, Looked
  <2> QED  BY <1>6, <2>2, <2>3, <2>4, <2>5, <2>6
<1>7. ASSUME NEW g \in Servers, ReplayEvent(g) \/ ConsumeEvent(g) PROVE Looked(h, k)'
  <2> DEFINE v == ApplyEvent(view[g], log[cursor[g] + 1])
  <2>1. CASE h = g /\ ConsumeEvent(g)
    BY <2>1, LookedAfterConsume
  <2>2. CASE h = g /\ ReplayEvent(g)
    <3>1. phase'[h] = "replaying"
      BY <2>2 DEF ReplayEvent
    <3> QED  BY <3>1 DEF Looked, Running
  <2>3. CASE h # g
    <3>1. /\ UNCHANGED <<log, phase, toLaunch, reported>> /\ CanCreate(g, v) /\ Project(g, v)
          /\ cursor'[h] = cursor[h] /\ starting'[h] = starting[h]
      BY <1>7, <2>3 DEF ReplayEvent, ConsumeEvent, TypeInv, TypeOK
    <3>2. v \in Views
      <4>1. cursor[g] \in 0..Len(log) /\ replayEnd[g] \in 0..Len(log) /\ Len(log) \in Nat
        BY HubTyped, LogIsTyped DEF TypeInv
      <4>2. cursor[g] < Len(log)
        BY <1>7, <4>1 DEF ReplayEvent, ConsumeEvent
      <4> QED  BY <4>2, AppliedTyped DEF TypeInv
    <3> HIDE DEF v
    <3>3. /\ view'[h] = view[h]
          /\ \A x \in Keys : gen'[h][x] = gen[h][x] /\ (attached'[h][x] <=> attached[h][x])
          /\ gen' \in [Servers -> [Keys -> 0..MaxGen]] /\ attached' \in [Servers -> [Keys -> BOOLEAN]]
          /\ \A w \in workers : \E u \in workers' :
                 SameWorker(u, w) /\ (u.cancelled <=> w.cancelled \/ Hit(w, g, v))
      BY <2>3, <3>1, <3>2, ProjectFacts DEF TypeInv
    <3>4. gen'[h] = gen[h]
      BY <3>3 DEF TypeInv, TypeOK
    <3>5. attached'[h] = attached[h]
      BY <2>3, <3>1 DEF Project, TypeInv, TypeOK
    <3>6. \A w \in workers : (w.server = h /\ ~w.cancelled) =>
              \E u \in workers' : u.server = h /\ u.key = w.key /\ u.gen = w.gen /\ ~u.cancelled
      BY <2>3, <3>3 DEF Hit, SameWorker
    <3> QED  BY <1>3, <3>1, <3>3, <3>4, <3>5, <3>6
  <2> QED  BY <1>7, <2>1, <2>2, <2>3
<1>8. ASSUME NEW g \in Servers, StartApplied(g) \/ \E object \in toLaunch[g] : LaunchReplayed(g, object)
      PROVE  Looked(h, k)'
  <2>1. PICK object \in Objects :
               /\ Running(g) /\ startSubscriptionWorker(g, object)
               /\ UNCHANGED <<log, phase, view, cursor, gen, reported, op>>
               /\ \/ starting[g] = object /\ starting' = [starting EXCEPT ![g] = None] /\ UNCHANGED toLaunch
                  \/ UNCHANGED starting /\ toLaunch' = [toLaunch EXCEPT ![g] = @ \ {object}]
    BY <1>8, Starts
  <2>2. CASE h = g
    BY <2>1, <2>2, LookedAfterStart
  <2>3. CASE h # g
    <3>1. starting'[h] = starting[h] /\ toLaunch'[h] = toLaunch[h]
      BY <2>1, <2>3 DEF TypeInv, TypeOK
    <3>2. /\ workers \subseteq workers' /\ attached' \in [Servers -> [Keys -> BOOLEAN]]
          /\ \A x \in Keys : attached'[h][x] = attached[h][x]
      BY <2>1, <2>3, StartKeeps
    <3>3. attached'[h] = attached[h]
      BY <3>2 DEF TypeInv, TypeOK
    <3> QED  BY <1>3, <2>1, <3>1, <3>2, <3>3
  <2> QED  BY <2>2, <2>3
<1>9. ASSUME NEW g \in Servers, Request(g) PROVE Looked(h, k)'
  <2>1. UNCHANGED <<view, cursor, gen, attached, phase, starting, toLaunch, reported, workers>>
    BY <1>9 DEF Request, onRegisterTopic, onDeregisterTopic, onSubscriptionVerified, Publishing,
       onUnsubscriptionValidation, onUnsubscriptionVerified, PublishSucceeds, PublishFails, hubVars
  <2>2. log' = log \/ \E e \in Events : log' = Append(log, e)
    BY <1>9, Publishes
  <2> QED  BY <1>3, <2>1, <2>2
<1>10. ASSUME NEW g \in Servers, Crash(g) \/ Shutdown(g) PROVE Looked(h, k)'
  <2>1. /\ log' = log /\ phase'[g] = "down" /\ workers' = {w \in workers : w.server # g}
        /\ h # g => /\ view'[h] = view[h] /\ cursor'[h] = cursor[h] /\ gen'[h] = gen[h]
                    /\ attached'[h] = attached[h] /\ phase'[h] = phase[h] /\ starting'[h] = starting[h]
                    /\ toLaunch'[h] = toLaunch[h] /\ reported'[h] = reported[h]
    BY <1>10 DEF Crash, Shutdown, Down, TypeInv, TypeOK
  <2>2. CASE h = g
    BY <2>1, <2>2 DEF Looked, Running
  <2>3. CASE h # g
    BY <1>3, <2>1, <2>3
  <2> QED  BY <2>2, <2>3
<1>11. ASSUME NEW w \in workers, Work(w) PROVE Looked(h, k)'
  BY <1>11, LookedAfterWork
<1>12. ASSUME NEW g \in Servers, EventConsumerFails(g) PROVE Looked(h, k)'
  <2>1. CASE h = g
    BY <1>12, <2>1, EndingFacts DEF Looked
  <2>2. CASE h # g
    <3>1. /\ UNCHANGED <<log, view, cursor, gen, attached, starting>> /\ phase'[h] = phase[h]
          /\ toLaunch'[h] = toLaunch[h] /\ reported'[h] = reported[h]
      BY <1>12, <2>2, EndingFacts
    <3>2. \A w \in workers : (w.server = h /\ ~w.cancelled) =>
              \E u \in workers' : u.server = h /\ u.key = w.key /\ u.gen = w.gen /\ ~u.cancelled
      <4>1. \A w \in workers : \E u \in workers' :
                SameWorker(u, w) /\ (u.cancelled <=> w.cancelled \/ w.server = g)
        BY <1>12, EndingFacts, Zenon
      <4> QED  BY <2>2, <4>1 DEF SameWorker
    <3> QED  BY <1>3, <3>1, <3>2
  <2> QED  BY <2>1, <2>2
<1>13. CASE Next
  BY <1>13, Steps, <1>5, <1>6, <1>7, <1>8, <1>9, <1>10, <1>11, <1>12
<1> QED  BY <1>4, <1>13

\* No subscription that looks healthy is silently without delivery: its owner has a
\* worker for it, is about to start one, or the log says that it is over or stale.
THEOREM NoneIsSilent == Spec => []NoSilentSubscription
<1>1. Init => LookedInv
  BY DEF Init, LookedInv, Looked, Running
<1>2. LookedInv => NoSilentSubscription
  <2> SUFFICES ASSUME LookedInv, NEW h \in Servers, NEW k \in Keys,
                      phase[h] = "serving", ~reported[h], Healthy(h, k)
               PROVE  \/ \E w \in workers : /\ w.server = h /\ w.key = k /\ w.gen = gen[h][k]
                                            /\ ~w.cancelled
                      \/ starting[h] = <<k, gen[h][k]>>
                      \/ EndIsPublished(h, k)
    BY DEF NoSilentSubscription, Healthy
  <2>1. toLaunch[h] = {} /\ Running(h) /\ Looked(h, k)
    BY DEF LookedInv, Running
  <2> QED  BY <2>1 DEF Looked, Tended, Awaited
<1> QED  BY <1>1, <1>2, LookedKept, FollowHolds, PTL DEF Spec
-----------------------------------------------------------------------------
(* What lag can do                                                         *)

\* An entry that was not there after m events was stored by a later one.
LEMMA StoredByLater ==
    ASSUME NEW l, NEW m \in Nat, NEW n \in Nat, m <= n, EventsIn(l, 0, n), NEW k \in Keys,
           Materialized(l, m).subs[k] = NoSub, Materialized(l, n).subs[k] # NoSub
    PROVE  \E j \in (m + 1)..n : /\ l[j].kind = "subscribe" /\ l[j].key = k
                                 /\ l[j].lease = Materialized(l, n).subs[k].lease
<1> DEFINE At(i) == Materialized(l, i).subs[k]
           From(i) == \E j \in (m + 1)..i : /\ l[j].kind = "subscribe" /\ l[j].key = k
                                           /\ l[j].lease = At(i).lease
           S == {i \in Nat : At(i) # NoSub => From(i)}
<1>1. m \in S
  OBVIOUS
<1>2. ASSUME NEW i \in Nat, m <= i, i < n, i \in S PROVE i + 1 \in S
  <2>1. Materialized(l, i) \in Views
    <3>1. EventsIn(l, 0, i)
      BY <1>2 DEF EventsIn
    <3> QED  BY <3>1, MaterializedTyped
  <2>2. l[i + 1] \in Events
    BY <1>2 DEF EventsIn
  <2>3. Materialized(l, i + 1) = ApplyEvent(Materialized(l, i), l[i + 1])
    BY ReplayOneMore DEF Materialized
  <2>4. /\ (At(i) # NoSub /\ At(i + 1) # NoSub) => SameLease(At(i + 1), At(i))
        /\ (At(i) = NoSub /\ At(i + 1) # NoSub) =>
              /\ l[i + 1].kind = "subscribe" /\ l[i + 1].key = k
              /\ At(i + 1).lease = l[i + 1].lease
    BY <2>1, <2>2, <2>3, AppliedEntry
  <2>5. i + 1 \in Nat /\ i + 1 \in (m + 1)..(i + 1) /\ (m + 1)..i \subseteq (m + 1)..(i + 1)
    BY <1>2
  <2> HIDE DEF At
  <2>6. CASE At(i) = NoSub
    BY <2>4, <2>5, <2>6
  <2>7. CASE At(i) # NoSub
    <3>1. From(i)
      BY <1>2, <2>7
    <3>2. At(i + 1) # NoSub => At(i + 1).lease = At(i).lease
      BY <2>4, <2>7 DEF SameLease
    <3> QED  BY <2>5, <3>1, <3>2
  <2> QED  BY <2>6, <2>7
<1> HIDE DEF S
<1>3. n \in S
  BY <1>1, <1>2, UpTo
<1> QED  BY <1>3 DEF S

\* A topic that was registered after m events and is not after n was deregistered.
LEMMA DeregisteredByLater ==
    ASSUME NEW l, NEW m \in Nat, NEW n \in Nat, m <= n, EventsIn(l, 0, n), NEW t \in Topics,
           t \in Materialized(l, m).topics, t \notin Materialized(l, n).topics
    PROVE  \E j \in (m + 1)..n : l[j].kind = "deregister" /\ l[j].topic = t
<1> DEFINE Gone(i) == \E j \in (m + 1)..i : l[j].kind = "deregister" /\ l[j].topic = t
           S == {i \in Nat : t \in Materialized(l, i).topics \/ Gone(i)}
<1>1. m \in S
  OBVIOUS
<1>2. ASSUME NEW i \in Nat, m <= i, i < n, i \in S PROVE i + 1 \in S
  <2>1. Materialized(l, i) \in Views /\ l[i + 1] \in Events
    <3>1. EventsIn(l, 0, i) /\ l[i + 1] \in Events
      BY <1>2 DEF EventsIn
    <3> QED  BY <3>1, MaterializedTyped
  <2>2. Materialized(l, i + 1) = ApplyEvent(Materialized(l, i), l[i + 1])
    BY ReplayOneMore DEF Materialized
  <2>3. t \in Materialized(l, i + 1).topics <=> TopicAfter(t \in Materialized(l, i).topics, t, l[i + 1])
    BY <2>1, <2>2, TopicOfApply
  <2>4. i + 1 \in Nat /\ i + 1 \in (m + 1)..(i + 1) /\ (m + 1)..i \subseteq (m + 1)..(i + 1)
    BY <1>2
  <2>5. CASE l[i + 1].kind = "deregister" /\ l[i + 1].topic = t
    <3>1. Gone(i + 1)
      BY <2>4, <2>5
    <3> QED  BY <2>4, <3>1
  <2>6. CASE Gone(i)
    <3>1. Gone(i + 1)
      BY <2>4, <2>6
    <3> QED  BY <2>4, <3>1
  <2>7. CASE t \in Materialized(l, i).topics /\ ~(l[i + 1].kind = "deregister" /\ l[i + 1].topic = t)
    <3>1. t \in Materialized(l, i + 1).topics
      BY <2>3, <2>7 DEF TopicAfter
    <3> QED  BY <2>4, <3>1
  <2> QED  BY <1>2, <2>5, <2>6, <2>7
<1> HIDE DEF S
<1>3. n \in S
  BY <1>1, <1>2, UpTo
<1> QED  BY <1>3 DEF S

\* An entry that is there after m events and after n, but not under the same lease,
\* was ended between them.
LEMMA EndedByLater ==
    ASSUME NEW l, NEW m \in Nat, NEW n \in Nat, m <= n, EventsIn(l, 0, n), NEW k \in Keys,
           Materialized(l, m).subs[k] # NoSub, Materialized(l, n).subs[k] # NoSub,
           Materialized(l, n).subs[k].lease # Materialized(l, m).subs[k].lease
    PROVE  \E j \in (m + 1)..n : Resets(l[j], k)
<1> DEFINE At(i) == Materialized(l, i).subs[k]
           Gone(i) == \E j \in (m + 1)..i : Resets(l[j], k)
           S == {i \in Nat : (At(i) # NoSub /\ At(i).lease = At(m).lease) \/ Gone(i)}
<1>1. m \in S
  OBVIOUS
<1>2. ASSUME NEW i \in Nat, m <= i, i < n, i \in S PROVE i + 1 \in S
  <2>1. Materialized(l, i) \in Views /\ l[i + 1] \in Events
    <3>1. EventsIn(l, 0, i) /\ l[i + 1] \in Events
      BY <1>2 DEF EventsIn
    <3> QED  BY <3>1, MaterializedTyped
  <2>2. Materialized(l, i + 1) = ApplyEvent(Materialized(l, i), l[i + 1])
    BY ReplayOneMore DEF Materialized
  <2>3. At(i) \in Entries \cup {NoSub} /\ At(i + 1) = EntryAfter(At(i), k, l[i + 1])
    BY <2>1, <2>2, EntryOfApply DEF Views
  <2>4. i + 1 \in Nat /\ i + 1 \in (m + 1)..(i + 1) /\ (m + 1)..i \subseteq (m + 1)..(i + 1)
    BY <1>2
  <2> HIDE DEF At
  <2>5. CASE Resets(l[i + 1], k)
    <3>1. Gone(i + 1)
      BY <2>4, <2>5
    <3> QED  BY <2>4, <3>1
  <2>6. CASE Gone(i)
    <3>1. Gone(i + 1)
      BY <2>4, <2>6
    <3> QED  BY <2>4, <3>1
  <2>7. CASE At(i) # NoSub /\ At(i).lease = At(m).lease /\ ~Resets(l[i + 1], k)
    <3>1. SameLease(At(i + 1), At(i))
      BY <2>1, <2>3, <2>7, EntryKept
    <3>2. At(i + 1) # NoSub /\ At(i + 1).lease = At(m).lease
      BY <2>7, <3>1 DEF SameLease
    <3> QED  BY <2>4, <3>2
  <2> QED  BY <1>2, <2>5, <2>6, <2>7
<1> HIDE DEF S
<1>3. n \in S
  BY <1>1, <1>2, UpTo
<1> QED  BY <1>3 DEF S

\* Who begins to publish a subscription has just been told that it is verified.
LEMMA Begins ==
    ASSUME TypeInv, Next, NEW h \in Servers,
           op[h] = None, op'[h] # None, op'[h].kind = "subscribe"
    PROVE  \E k \in Keys, l \in Leases : onSubscriptionVerified(h, k, l)
<1>0. op \in [Servers -> Events \cup {None}]
  BY DEF TypeInv, TypeOK
<1>1. ASSUME NEW g \in Servers, NEW k \in Keys, NEW l \in Leases, onSubscriptionVerified(g, k, l)
      PROVE  g = h
  BY <1>0, <1>1 DEF onSubscriptionVerified, Publishing
<1>2. ASSUME NEW g \in Servers, NEW e, e.kind # "subscribe", Publishing(g, e) PROVE FALSE
  BY <1>0, <1>2 DEF Publishing
<1>3. ASSUME NEW g \in Servers, NEW t \in Topics, onRegisterTopic(g, t) \/ onDeregisterTopic(g, t)
      PROVE  FALSE
  BY <1>2, <1>3 DEF onRegisterTopic, onDeregisterTopic
<1>4. ASSUME NEW g \in Servers, NEW k \in Keys, onUnsubscriptionVerified(g, k) PROVE FALSE
  BY <1>2, <1>4 DEF onUnsubscriptionVerified
<1>5. ASSUME NEW g \in Servers, NEW k \in Keys, onUnsubscriptionValidation(g, k) PROVE FALSE
  BY <1>5 DEF onUnsubscriptionValidation
<1>6. ASSUME NEW g \in Servers, PublishSucceeds(g) \/ PublishFails(g) PROVE FALSE
  BY <1>0, <1>6 DEF PublishSucceeds, PublishFails
<1>7. ASSUME NEW g \in Servers, Crash(g) \/ Shutdown(g) PROVE FALSE
  BY <1>0, <1>7 DEF Crash, Shutdown, Down
<1>8. ASSUME NEW w \in workers, Work(w) PROVE FALSE
  BY <1>8 DEF Work, DeliveryGone, PublishGone, PublishGoneFails, WorkerFails, PublishStale,
     PublishStaleFails, WorkerCancelled, reqVars
<1>9. ASSUME NEW g \in Servers,
             \/ \E n \in 0..Len(log) : ApplySnapshot(g, n)
             \/ ReplayEvents(g) \/ ReplayDone(g) \/ ListReplayed(g) \/ ServeHTTP(g)
             \/ ReplayEvent(g) \/ ConsumeEvent(g) \/ EventConsumerFails(g)
      PROVE  FALSE
  BY <1>9 DEF ApplySnapshot, ReplayEvents, ReplayDone, ListReplayed, ServeHTTP, ReplayEvent,
     ConsumeEvent, EventConsumerFails, reqVars
<1>10. ASSUME NEW g \in Servers,
              StartApplied(g) \/ \E object \in toLaunch[g] : LaunchReplayed(g, object)
       PROVE  FALSE
  BY <1>10, Starts
<1>11. PICK g \in Servers : Request(g)
  BY Steps, <1>7, <1>8, <1>9, <1>10
<1>12. PICK k \in Keys, l \in Leases : onSubscriptionVerified(g, k, l)
  BY <1>3, <1>4, <1>5, <1>6, <1>11 DEF Request
<1>13. g = h
  BY <1>1, <1>12
<1> QED  BY <1>12, <1>13

\* What a verified subscription is decided from is the log as far as it was read.
LEMMA DecidedFromLog ==
    ASSUME TypeInv, ExactInv, NEW h \in Servers, NEW k \in Keys, NEW l \in Leases,
           onSubscriptionVerified(h, k, l)
    PROVE  /\ view[h] = Materialized(log, cursor[h]) /\ k[1] \in Materialized(log, cursor[h]).topics
           /\ op'[h].key = k /\ op'[h].lease = l
<1>1. op \in [Servers -> Events \cup {None}]
  BY DEF TypeInv, TypeOK
<1> QED  BY <1>1 DEF onSubscriptionVerified, Publishing, Answering, ExactInv, Exact, Running

\* A retired lease comes back where its end was not read, or after it came back.
LEMMA BroughtBack ==
    ASSUME TypeInv, ExactInv, NEW h \in Servers, NEW k \in Keys, NEW l \in Leases,
           onSubscriptionVerified(h, k, l), NEW i \in Retirements(k, l)
    PROVE  \/ i > cursor[h]
           \/ \E j \in (i + 1)..cursor[h] :
                log[j].kind = "subscribe" /\ log[j].key = k /\ log[j].lease = l
<1>1. /\ Len(log) \in Nat /\ i \in 1..Len(log) /\ cursor[h] \in 0..Len(log)
      /\ log[i].kind = "unsubscribe" /\ log[i].key = k
      /\ Materialized(log, i - 1).subs[k] # NoSub /\ Materialized(log, i - 1).subs[k].lease = l
      /\ \A n \in 1..Len(log) : log[n] \in Events
      /\ \A n \in 0..Len(log) : EventsIn(log, 0, n)
  BY HubTyped, LogIsTyped DEF TypeInv, Retirements
<1>2. i \in Nat /\ i - 1 \in Nat /\ i - 1 \in 0..Len(log) /\ (i - 1) + 1 = i /\ i \in 0..Len(log)
  BY <1>1
<1>3. CASE Stored(h, k) = NoSub /\ l \in FreshLeases
  <2>1. Materialized(log, 0).subs[k] = NoSub
    <3>1. Materialized(log, 0) = EmptyView
      BY ReplayNothing DEF Materialized
    <3> QED  BY <3>1 DEF EmptyView
  <2>2. PICK j \in 1..(i - 1) : log[j].kind = "subscribe" /\ log[j].lease = l
    BY <1>1, <1>2, <2>1, StoredByLater
  <2>3. j \in DOMAIN log
    BY <1>1, LogIsTyped DEF TypeInv
  <2> QED  BY <1>3, <2>2, <2>3 DEF FreshLeases
<1>4. CASE Stored(h, k) # NoSub /\ l = Stored(h, k).lease
  <2>1. view[h] = Materialized(log, cursor[h])
    BY DecidedFromLog
  <2>2. Materialized(log, i).subs[k] = NoSub
    <3>1. Materialized(log, i) = ApplyEvent(Materialized(log, i - 1), log[i])
      <4>1. PICK m \in Nat : m = i - 1 /\ i = m + 1
        BY <1>2
      <4>2. Materialized(log, m + 1) = ApplyEvent(Materialized(log, m), log[m + 1])
        BY ReplayOneMore DEF Materialized
      <4> QED  BY <4>1, <4>2
    <3>2. ApplyEvent(Materialized(log, i - 1), log[i]) = Store(Materialized(log, i - 1), k, NoSub)
      BY <1>1 DEF ApplyEvent, ApplyUnsubscription
    <3> QED  BY <3>1, <3>2 DEF Store
  <2>3. CASE i <= cursor[h]
    <3>1. Materialized(log, cursor[h]).subs[k] # NoSub /\ Materialized(log, cursor[h]).subs[k].lease = l
      BY <1>4, <2>1 DEF Stored
    <3>2. i <= cursor[h] /\ cursor[h] \in Nat /\ cursor[h] \in 0..Len(log)
      BY <1>1, <2>3
    <3>3. i <= cursor[h] /\ EventsIn(log, 0, cursor[h])
      BY <1>1, <3>2
    <3>4. \E j \in (i + 1)..cursor[h] :
            log[j].kind = "subscribe" /\ log[j].key = k /\ log[j].lease = l
      BY <1>2, <2>2, <3>1, <3>2, <3>3, StoredByLater
    <3> QED  BY <3>4
  <2>4. CASE ~(i <= cursor[h])
    BY <1>1, <1>2, <2>4
  <2> QED  BY <2>3, <2>4
<1> QED  BY <1>3, <1>4 DEF onSubscriptionVerified

\* Every decision that goes into the log is right for what its hub has read of it:
\* no subscription under a lease that ended (onSubscriptionVerified), none to a topic
\* that is gone, no unsubscription after a 410 that removes a newer subscription
\* (runSubscriptionWorker).
THEOREM MistakesComeFromLag == Spec => OnlyLagMisleads
<1>1. ASSUME TypeInv, ExactInv, Next, NEW h \in Servers PROVE BeginsFromLag(h)
  <2> SUFFICES ASSUME op[h] = None, op'[h] # None, op'[h].kind = "subscribe",
                      NEW i \in Retirements(op'[h].key, op'[h].lease)
               PROVE  \/ i > cursor[h]
                      \/ \E j \in (i + 1)..cursor[h] :
                           /\ log[j].kind = "subscribe" /\ log[j].key = op'[h].key
                           /\ log[j].lease = op'[h].lease
    BY DEF BeginsFromLag
  <2>1. PICK k \in Keys, l \in Leases : onSubscriptionVerified(h, k, l)
    BY <1>1, Begins
  <2>2. op'[h].key = k /\ op'[h].lease = l
    BY <1>1, <2>1, DecidedFromLog
  <2> QED  BY <1>1, <2>1, <2>2, BroughtBack
<1>2. ASSUME TypeInv, ExactInv, Next, NEW h \in Servers PROVE BeginsOnTopic(h)
  <2> SUFFICES ASSUME op[h] = None, op'[h] # None, op'[h].kind = "subscribe",
                      op'[h].key[1] \notin Materialized(log, Len(log)).topics
               PROVE  \E i \in (cursor[h] + 1)..Len(log) :
                        log[i].kind = "deregister" /\ log[i].topic = op'[h].key[1]
    BY DEF BeginsOnTopic
  <2>1. PICK k \in Keys, l \in Leases : onSubscriptionVerified(h, k, l)
    BY <1>1, <1>2, Begins
  <2>2. op'[h].key = k /\ k[1] \in Materialized(log, cursor[h]).topics
    BY <1>2, <2>1, DecidedFromLog
  <2>3. /\ Len(log) \in Nat /\ cursor[h] \in Nat /\ cursor[h] <= Len(log)
        /\ EventsIn(log, 0, Len(log)) /\ k[1] \in Topics
    BY <1>2, LogIsTyped, HubTyped DEF TypeInv, Keys
  <2> QED  BY <2>2, <2>3, DeregisteredByLater
<1>3. ASSUME TypeInv, ExactInv, FollowInv, NEW w \in workers PROVE RemovesItsOwn(w)
  <2> SUFFICES ASSUME Current(w.key) # NoSub, Current(w.key).lease # w.lease, ~w.cancelled
               PROVE  \E i \in (cursor[w.server] + 1)..Len(log) : EndsEntry(i, w.key)
    BY DEF RemovesItsOwn
  <2>1. w \in Workers /\ w.server \in Servers /\ w.key \in Keys /\ Follows(w) /\ StartedOnce(w)
    BY <1>3, WorkerTyped DEF TypeInv, TypeOK, OnceInv, FollowInv
  <2>2. /\ view[w.server] = Materialized(log, cursor[w.server])
        /\ Stored(w.server, w.key) # NoSub /\ Stored(w.server, w.key).lease = w.lease
    BY <1>3, <2>1 DEF Follows, StartedOnce, ExactInv, Exact
  <2>3. /\ Len(log) \in Nat /\ cursor[w.server] \in Nat /\ cursor[w.server] <= Len(log)
        /\ EventsIn(log, 0, Len(log))
    BY <1>3, <2>1, LogIsTyped, HubTyped DEF TypeInv
  <2>4. PICK j \in (cursor[w.server] + 1)..Len(log) : Resets(log[j], w.key)
    BY <2>1, <2>2, <2>3, EndedByLater DEF Stored, Current
  <2> QED  BY <2>4 DEF Resets, EndsEntry
<1>4. TypeInv /\ ExactInv /\ FollowInv /\ [Next]_vars =>
        [/\ \A h \in Servers : BeginsFromLag(h) /\ BeginsOnTopic(h)
         /\ \A w \in workers : RemovesItsOwn(w)]_vars
  BY <1>1, <1>2, <1>3
<1> QED  BY <1>4, ExactHolds, FollowHolds, PTL DEF Spec, OnlyLagMisleads

-----------------------------------------------------------------------------
(* Hubs at rest                                                            *)

\* When no hub has anything under way, each active subscription of the log has one
\* consumer, at its owner and under its lease, and nothing else is consumed.
THEOREM RestingHubsServeTheLog == Spec => []QuietHubsServeTheLog
<1>1. TypeInv /\ ExactInv /\ FollowInv /\ OneConsumerPerGroup /\ NoSilentSubscription
        => QuietHubsServeTheLog
  <2> SUFFICES ASSUME TypeInv, ExactInv, FollowInv, OneConsumerPerGroup, NoSilentSubscription,
                      \A h \in Servers : phase[h] = "down" \/ Quiet(h),
                      NEW k \in Keys
               PROVE  LET entry     == Current(k)
                          consumers == {w \in Consumers : w.key = k}
                      IN  IF entry # NoSub /\ ~entry.stale /\ phase[entry.server] # "down"
                          THEN \E w \in consumers : /\ consumers = {w}
                                                    /\ w.server = entry.server
                                                    /\ w.lease = entry.lease
                          ELSE consumers = {}
    BY DEF QuietHubsServeTheLog
  <2> DEFINE consumers == {w \in Consumers : w.key = k}
  <2>1. ASSUME NEW h \in Servers, phase[h] # "down"
        PROVE  Quiet(h) /\ Stored(h, k) = Current(k)
    BY <2>1 DEF Quiet, ExactInv, Exact, Running, Stored, Current
  <2>2. ASSUME NEW w \in consumers
        PROVE  /\ w.server \in Servers /\ phase[w.server] # "down"
               /\ Current(k) # NoSub /\ ~Current(k).stale
               /\ w.server = Current(k).server /\ w.lease = Current(k).lease
    <3>1. w \in workers /\ w \in Workers /\ ~w.cancelled /\ w.key = k /\ Follows(w) /\ StartedOnce(w)
      BY <2>2 DEF Consumers, TypeInv, TypeOK, OnceInv, FollowInv
    <3>2. w.server \in Servers /\ phase[w.server] # "down"
      BY <3>1, WorkerTyped DEF StartedOnce, Running
    <3> QED  BY <2>1, <3>1, <3>2 DEF Follows
  <2>3. CASE Current(k) # NoSub /\ ~Current(k).stale /\ phase[Current(k).server] # "down"
    <3> DEFINE h == Current(k).server
    <3>1. h \in Servers
      <4>1. EventsIn(log, 0, Len(log)) /\ Len(log) \in Nat
        BY LogIsTyped DEF TypeInv
      <4>2. Materialized(log, Len(log)) \in Views
        BY <4>1, MaterializedTyped
      <4>3. Current(k) \in Entries
        BY <2>3, <4>2 DEF Current, Views
      <4> QED  BY <4>3, EntryTyped
    <3>2. Quiet(h) /\ Stored(h, k) = Current(k)
      BY <2>1, <2>3, <3>1
    <3>3. ~EndIsPublished(h, k) /\ starting[h] # <<k, gen[h][k]>>
      <4>1. starting[h] = None /\ None # <<k, gen[h][k]>> /\ cursor[h] = Len(log)
        <5>1. gen[h][k] \in 1..MaxGen
          BY <2>3, <3>1, <3>2, HubTyped DEF TypeInv, IdentityInv
        <5>2. <<k, gen[h][k]>> \in Objects
          BY <5>1 DEF Objects
        <5> QED  BY <3>2, <5>2, NoneAssumption DEF Quiet
      <4>2. ~(\E i \in (cursor[h] + 1)..Len(log) : TRUE)
        BY <4>1, LogIsTyped DEF TypeInv
      <4> QED  BY <4>1, <4>2 DEF EndIsPublished
    <3>4. PICK w \in workers : w.server = h /\ w.key = k /\ ~w.cancelled
      <4>1. /\ phase[h] = "serving" /\ ~reported[h]
            /\ Stored(h, k) # NoSub /\ Stored(h, k).server = h /\ ~Stored(h, k).stale
        BY <2>3, <3>2 DEF Quiet
      <4> HIDE DEF h
      <4> QED  BY <3>1, <3>3, <4>1 DEF NoSilentSubscription
    <3>5. w \in consumers
      BY <3>2, <3>4 DEF Quiet, Consumers
    <3>6. \A v \in consumers : v = w
      BY <2>2, <3>5 DEF OneConsumerPerGroup
    <3> QED  BY <2>2, <2>3, <3>5, <3>6
  <2>4. CASE ~(Current(k) # NoSub /\ ~Current(k).stale /\ phase[Current(k).server] # "down")
    BY <2>2, <2>4
  <2> QED  BY <2>3, <2>4
<1> QED  BY <1>1, ExactHolds, FollowHolds, GroupsHaveOneConsumer, NoneIsSilent, PTL
=============================================================================
