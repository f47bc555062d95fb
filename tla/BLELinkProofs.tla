--------------------------- MODULE BLELinkProofs ---------------------------
(* Theorems about BLELink: no nonce is used for two broadcasts, a controller notices what it
   missed, the assertions of advertising hold, links end, events wait only for the platform,
   and requests get their answers.  A callback is a chain of functions on the state of the
   accessory; each of them is shown to keep the parts of the invariant that hold between
   functions. *)
EXTENDS BLELink, FiniteSetTheorems, TLAPS

-----------------------------------------------------------------------------
(* Counters *)

\* The number of times the GSN may count before it is the expiration GSN of the key.
Dist(gsn, expiration) ==
    IF gsn <= expiration THEN expiration - gsn ELSE expiration - gsn + MaxGSN

Next1(gsn) == IF gsn = MaxGSN THEN 1 ELSE gsn + 1

Expiration(gsn) ==
    LET expiration == gsn + (MaxGSN \div 2 - 1)
    IN IF expiration > MaxGSN THEN expiration - MaxGSN ELSE expiration

LEMMA HalfIsSmall ==
    /\ MaxGSN \in Nat /\ MaxGSN >= 4
    /\ MaxGSN \div 2 \in Nat /\ MaxGSN \div 2 >= 2 /\ 2 * (MaxGSN \div 2) <= MaxGSN
  BY GSNAssumption

LEMMA DistIsBounded ==
    ASSUME NEW g \in 1 .. MaxGSN, NEW e \in 1 .. MaxGSN
    PROVE  /\ Dist(g, e) \in 0 .. (MaxGSN - 1)
           /\ Dist(g, e) = 0 <=> g = e
           /\ \A h \in 1 .. MaxGSN : Dist(g, e) = Dist(h, e) => g = h
  BY HalfIsSmall DEF Dist

LEMMA CountingIsCloser ==
    ASSUME NEW g \in 1 .. MaxGSN, NEW e \in 1 .. MaxGSN, g # e
    PROVE  Next1(g) \in 1 .. MaxGSN /\ Dist(Next1(g), e) = Dist(g, e) - 1
  BY HalfIsSmall DEF Dist, Next1

LEMMA NextIsAnother ==
    ASSUME NEW g \in 1 .. MaxGSN
    PROVE  Next1(g) \in 1 .. MaxGSN /\ Next1(g) # g
  BY HalfIsSmall DEF Next1

LEMMA ExpirationIsFar ==
    ASSUME NEW g \in 1 .. MaxGSN
    PROVE  /\ Expiration(g) \in 1 .. MaxGSN
           /\ Dist(g, Expiration(g)) = MaxGSN \div 2 - 1
  <1> DEFINE half == MaxGSN \div 2
  <1>1. half \in Nat /\ half >= 2 /\ 2 * half <= MaxGSN /\ MaxGSN \in Nat
    BY HalfIsSmall
  <1>2. Expiration(g) = IF g + (half - 1) > MaxGSN THEN g + (half - 1) - MaxGSN ELSE g + (half - 1)
    BY <1>1 DEF Expiration
  <1> HIDE DEF half
  <1>3. /\ Expiration(g) \in 1 .. MaxGSN
        /\ Dist(g, Expiration(g)) = half - 1
    BY <1>1, <1>2 DEF Dist
  <1>4. QED
    BY <1>3 DEF half

\* Induction over the natural numbers: the finite initial part of S would be mapped one to
\* one into itself without 0.
LEMMA SetInduction ==
    ASSUME NEW S, 0 \in S, \A n \in S \cap Nat : n + 1 \in S
    PROVE  Nat \subseteq S
  <1> SUFFICES ASSUME NEW n \in Nat, n \notin S PROVE FALSE
    OBVIOUS
  <1> DEFINE A == S \cap 0 .. n
             f == [i \in A |-> i + 1]
  <1>1. IsFiniteSet(A) /\ 0 \in A
    <2>1. IsFiniteSet(0 .. n)
      BY FS_Interval
    <2>2. QED
      BY <2>1, FS_Subset
  <1>2. f \in [A -> A \ {0}]
    OBVIOUS
  <1>3. \A i, j \in A : f[i] = f[j] => i = j
    OBVIOUS
  <1> HIDE DEF A, f
  <1>4. IsFiniteSet(A \ {0}) /\ Cardinality(A \ {0}) < Cardinality(A)
    <2>1. Cardinality(A \ {0}) = Cardinality(A) - 1 /\ IsFiniteSet(A \ {0})
      BY <1>1, FS_RemoveElement
    <2>2. Cardinality(A) \in Nat
      BY <1>1, FS_CardinalityType
    <2>3. QED
      BY <2>1, <2>2
  <1>5. \E i, j \in A : i # j /\ f[i] = f[j]
    BY <1>1, <1>2, <1>4, FS_PigeonHole
  <1>6. QED
    BY <1>3, <1>5

-----------------------------------------------------------------------------
(* Advertising *)

\* The fields of the accessory, and of those that are changed one field at a time.
Shaped(b) ==
    /\ DOMAIN b = {"server", "connected", "cancelled", "failed", "table", "link", "procedure",
                   "fallback", "subscribed", "pending", "informed", "free", "adv", "store", "air",
                   "sessions", "asked", "prepared", "seen"}
    /\ DOMAIN b.adv = {"connected", "fastTimer", "timer", "fastStarted", "event", "value"}
    /\ DOMAIN b.store = {"gsn", "didIncrement", "key", "expiration", "enabled", "token"}
    /\ DOMAIN b.link = {"security", "admin", "terminal", "safe", "linkTimer", "pairingTimer",
                        "verifying"}

\* What advertising depends on.
Radio(b) ==
    [failed |-> b.failed, server |-> b.server, connected |-> b.connected, adv |-> b.adv,
     air |-> b.air, gsn |-> b.store.gsn, didIncrement |-> b.store.didIncrement,
     key |-> b.store.key, expiration |-> b.store.expiration, sessions |-> b.sessions]

\* There is a key as long as it has an expiration GSN; it is never further away than when
\* the key was made, in a session before or now.
KeyFits(r) ==
    /\ r.gsn \in 1 .. MaxGSN
    /\ r.key \in Nat /\ r.sessions \in Nat /\ r.key <= r.sessions
    /\ r.connected => r.sessions >= 1
    /\ r.expiration \in 0 .. MaxGSN
    /\ r.expiration = 0 <=> r.key = NoKey
    /\ r.expiration # 0 => Dist(r.gsn, r.expiration) < MaxGSN \div 2

\* The timers and the event of advertising: none while a controller is connected, an event only with
\* its timer and its key, and none of both before the GSN has been counted.
TimersFit(r) ==
    /\ ~r.failed
    /\ r.connected \in BOOLEAN /\ r.adv.connected = r.connected
    /\ r.connected => ~r.adv.fastTimer /\ ~r.adv.timer /\ r.adv.event = NoChar /\ r.adv.fastStarted
    /\ r.adv.fastTimer => r.adv.fastStarted
    /\ r.adv.event # NoChar => r.adv.timer /\ r.expiration # 0
    /\ ~r.didIncrement => ~r.adv.timer /\ r.adv.event = NoChar

\* What is on the air is up to date.
AirFits(r) ==
    /\ r.connected => r.air = Silent
    /\ r.air.kind # "none" => r.server = "Running" /\ r.adv.fastStarted
    /\ r.air.kind = "event" =>
           r.adv.event # NoChar /\ r.air.gsn = r.gsn /\ r.air.value = r.adv.value

\* S is what was sealed with the key K: nothing without a key.  A session that may make that
\* key again has not broadcast with it; what was broadcast with the present key has a GSN that is
\* not further from expiration than the present one, and is what is broadcast now if it has this one.
NoncesFit(r, K, S) ==
    /\ K = NoKey => S = {}
    /\ r.connected /\ r.sessions = K => S = {}
    /\ r.key = K =>
        \A x \in S : /\ x = [gsn |-> x.gsn, value |-> x.value]
                     /\ x.gsn \in 1 .. MaxGSN
                     /\ r.expiration # 0
                     /\ Dist(x.gsn, r.expiration) >= Dist(r.gsn, r.expiration)
                     /\ r.adv.event # NoChar /\ x.gsn = r.gsn => x.value = r.adv.value

RadioFits(r, K, S) == KeyFits(r) /\ TimersFit(r) /\ AirFits(r) /\ NoncesFit(r, K, S)

\* Nothing but advertising differs.
SameLink(b, d) ==
    /\ d.server = b.server /\ d.connected = b.connected /\ d.cancelled = b.cancelled
    /\ d.table = b.table /\ d.link = b.link /\ d.procedure = b.procedure
    /\ d.subscribed = b.subscribed /\ d.pending = b.pending /\ d.informed = b.informed
    /\ d.free = b.free /\ d.sessions = b.sessions

LEMMA UpdateTunes ==
    ASSUME NEW b, Shaped(b), KeyFits(Radio(b)), TimersFit(Radio(b)), NEW K, NEW S,
           NoncesFit(Radio(b), K, S)
    PROVE  LET d == UpdateAdvertisingData(b)
           IN /\ Shaped(d) /\ RadioFits(Radio(d), K, S)
              /\ d.store = b.store /\ SameLink(b, d)
              /\ d.adv.event = b.adv.event /\ d.adv.timer = b.adv.timer
  <1> DEFINE d == UpdateAdvertisingData(b)
  <1>1. CASE b.server # "Running" \/ b.adv.connected
    <2>1. d = [b EXCEPT !.air = Silent]
      BY <1>1 DEF UpdateAdvertisingData
    <2>2. Shaped(d) /\ Radio(d) = [Radio(b) EXCEPT !.air = Silent]
      BY <2>1 DEF Shaped, Radio
    <2>3. RadioFits(Radio(d), K, S)
      BY <2>2 DEF RadioFits, KeyFits, TimersFit, AirFits, NoncesFit, Silent, Radio
    <2>4. QED
      BY <2>1, <2>2, <2>3 DEF SameLink, Shaped
  <1>2. CASE b.server = "Running" /\ ~b.adv.connected
    <2> DEFINE a == [b EXCEPT !.air = OnAir(b)]
    <2>1. d = DidStartAdvertising(a)
      BY <1>2 DEF UpdateAdvertisingData, TimersFit, Radio
    <2>2. Shaped(a) /\ Radio(a) = [Radio(b) EXCEPT !.air = OnAir(b)]
      BY DEF Shaped, Radio
    <2>3. /\ Shaped(d) /\ d.store = b.store /\ SameLink(b, d)
          /\ d.air = OnAir(b) /\ ~d.failed /\ d.adv.fastStarted
          /\ d.adv.connected = b.adv.connected /\ d.adv.timer = b.adv.timer
          /\ d.adv.event = b.adv.event /\ d.adv.value = b.adv.value
      <3>1. CASE b.adv.fastStarted
        BY <2>1, <2>2, <3>1 DEF DidStartAdvertising, Shaped, SameLink, TimersFit, Radio
      <3>2. CASE ~b.adv.fastStarted
        BY <2>1, <2>2, <3>2 DEF DidStartAdvertising, Shaped, SameLink, TimersFit, Radio
      <3>3. QED
        BY <3>1, <3>2
    <2>4. KeyFits(Radio(d)) /\ TimersFit(Radio(d))
      BY <1>2, <2>3 DEF KeyFits, TimersFit, Radio, SameLink
    <2>5. AirFits(Radio(d)) /\ NoncesFit(Radio(d), K, S)
      BY <1>2, <2>3 DEF AirFits, NoncesFit, TimersFit, OnAir, Radio, SameLink
    <2>6. QED
      BY <2>3, <2>4, <2>5 DEF RadioFits
  <1>3. QED
    BY <1>1, <1>2 DEF TimersFit, Radio

LEMMA IncrementFits ==
    ASSUME NEW b, Shaped(b), KeyFits(Radio(b)), NEW K, NEW S, NoncesFit(Radio(b), K, S)
    PROVE  LET d == IncrementGSN(b)
           IN /\ Shaped(d) /\ KeyFits(Radio(d)) /\ NoncesFit(Radio(d), K, S)
              /\ SameLink(b, d) /\ d.adv = b.adv /\ d.air = b.air /\ d.failed = b.failed
              /\ d.store.didIncrement /\ d.store.gsn = Next1(b.store.gsn)
              /\ IF b.store.gsn = b.store.expiration THEN d.store.key = NoKey
                 ELSE d.store.key = b.store.key /\ d.store.expiration = b.store.expiration
              /\ d.store.key = K => \A x \in S : x.gsn # d.store.gsn
  <1> DEFINE d == IncrementGSN(b)
             g == b.store.gsn
             e == b.store.expiration
             h == Next1(g)
  <1>1. /\ Shaped(d) /\ SameLink(b, d) /\ d.adv = b.adv /\ d.air = b.air /\ d.failed = b.failed
        /\ d.store.didIncrement /\ d.store.gsn = h
        /\ IF g = e THEN d.store.key = NoKey /\ d.store.expiration = 0
           ELSE d.store.key = b.store.key /\ d.store.expiration = e
    BY DEF IncrementGSN, ExpireKey, Shaped, SameLink, Next1
  <1>2. g \in 1 .. MaxGSN /\ h \in 1 .. MaxGSN /\ h # g
    BY NextIsAnother DEF KeyFits, Radio
  <1>3. g # e /\ e # 0 => Dist(h, e) < Dist(g, e) /\ Dist(g, e) \in Nat /\ Dist(h, e) \in Nat
    BY <1>2, CountingIsCloser, DistIsBounded DEF KeyFits, Radio
  <1> HIDE DEF d, h
  <1>4. KeyFits(Radio(d))
    BY <1>1, <1>2, <1>3, HalfIsSmall DEF KeyFits, Radio, SameLink, NoKey
  <1>5. CASE g = e
    <2>1. d.store.key = K => S = {}
      BY <1>1, <1>5 DEF NoncesFit
    <2>2. NoncesFit(Radio(d), K, S)
      BY <1>1, <2>1 DEF NoncesFit, Radio, SameLink
    <2>3. QED
      BY <1>1, <1>4, <1>5, <2>1, <2>2 DEF d, h
  <1>6. CASE g # e
    <2>1. ASSUME d.store.key = K, NEW x \in S
          PROVE  /\ x = [gsn |-> x.gsn, value |-> x.value] /\ x.gsn \in 1 .. MaxGSN /\ e # 0
                 /\ Dist(x.gsn, e) > Dist(h, e) /\ x.gsn # h
      <3>1. /\ x = [gsn |-> x.gsn, value |-> x.value] /\ x.gsn \in 1 .. MaxGSN /\ e # 0
            /\ Dist(x.gsn, e) >= Dist(g, e)
        BY <1>1, <1>6, <2>1 DEF NoncesFit, Radio
      <3>2. Dist(x.gsn, e) \in Nat
        BY <3>1, DistIsBounded DEF KeyFits, Radio
      <3>3. QED
        BY <1>3, <1>6, <3>1, <3>2
    <2>2. \A x \in S : d.store.key = K => Dist(x.gsn, e) >= Dist(h, e)
      <3> SUFFICES ASSUME NEW x \in S, d.store.key = K PROVE Dist(x.gsn, e) >= Dist(h, e)
        OBVIOUS
      <3>1. Dist(x.gsn, e) > Dist(h, e) /\ Dist(x.gsn, e) \in Nat /\ Dist(h, e) \in Nat
        BY <1>3, <1>6, <2>1, DistIsBounded DEF KeyFits, Radio
      <3>2. QED
        BY <3>1
    <2>3. NoncesFit(Radio(d), K, S)
      BY <1>1, <1>6, <2>1, <2>2 DEF NoncesFit, Radio, SameLink
    <2>4. QED
      BY <1>1, <1>4, <1>6, <2>1, <2>3 DEF d, h
  <1>7. QED
    BY <1>5, <1>6

\* An indication has been queued: the GSN counts it, unless it did in this connection.
LEMMA SendingFits ==
    ASSUME NEW b, Shaped(b), NEW K, NEW S, RadioFits(Radio(b), K, S), b.connected
    PROVE  LET d == CountOnce(b)
           IN Shaped(d) /\ RadioFits(Radio(d), K, S) /\ SameLink(b, d)
  <1> DEFINE d == CountOnce(b)
             a == Asserted(b, b.adv.event = NoChar /\ ~b.adv.timer)
             n == IncrementGSN(a)
  <1>1. /\ b.adv.event = NoChar /\ ~b.adv.timer /\ b.adv.connected /\ ~b.failed
        /\ KeyFits(Radio(b)) /\ TimersFit(Radio(b)) /\ AirFits(Radio(b)) /\ NoncesFit(Radio(b), K, S)
    BY DEF RadioFits, TimersFit, Radio
  <1>2. CASE b.store.didIncrement
    BY <1>2 DEF CountOnce, SameLink
  <1>3. CASE ~b.store.didIncrement
    <2>1. d = n
      BY <1>3 DEF CountOnce
    <2>2. Shaped(a) /\ SameLink(b, a) /\ ~a.failed /\ a.adv = b.adv /\ a.air = b.air /\ a.store = b.store
      BY <1>1 DEF Asserted, Shaped, SameLink
    <2>3. KeyFits(Radio(a)) /\ NoncesFit(Radio(a), K, S)
      BY <1>1, <2>2 DEF KeyFits, NoncesFit, Radio, SameLink
    <2> HIDE DEF a
    <2>4. /\ Shaped(n) /\ KeyFits(Radio(n)) /\ NoncesFit(Radio(n), K, S)
          /\ SameLink(a, n) /\ n.adv = a.adv /\ n.air = a.air /\ n.failed = a.failed
          /\ n.store.didIncrement
      BY <2>2, <2>3, IncrementFits
    <2> HIDE DEF n
    <2>5. /\ n.adv = b.adv /\ n.air = b.air /\ ~n.failed /\ n.connected = b.connected
          /\ b.air = Silent
      BY <1>1, <2>2, <2>4 DEF SameLink, AirFits, Radio
    <2>7. TimersFit(Radio(n))
      BY <1>1, <2>4, <2>5 DEF TimersFit, Radio
    <2>8. AirFits(Radio(n))
      BY <2>5 DEF AirFits, Radio, Silent
    <2>6. SameLink(b, n)
      BY <2>2, <2>4 DEF SameLink
    <2>9. QED
      BY <2>1, <2>4, <2>6, <2>7, <2>8 DEF RadioFits
  <1>4. QED
    BY <1>2, <1>3

LEMMA NotificationFits ==
    ASSUME NEW b, Shaped(b), NEW K, NEW S, RadioFits(Radio(b), K, S), b.connected
    PROVE  LET d == DidSendEventNotification(b)
           IN Shaped(d) /\ RadioFits(Radio(d), K, S) /\ SameLink(b, d)
  <1> DEFINE a == Asserted(b, b.adv.connected)
             d == CountOnce(a)
  <1>1. Shaped(a) /\ SameLink(b, a) /\ ~a.failed /\ a.adv = b.adv /\ a.air = b.air /\ a.store = b.store
    BY DEF Asserted, Shaped, SameLink, RadioFits, TimersFit, Radio
  <1>2. RadioFits(Radio(a), K, S)
    BY <1>1, ZenonT(60) DEF RadioFits, KeyFits, TimersFit, AirFits, NoncesFit, Radio, SameLink
  <1>3. a.connected
    BY <1>1 DEF SameLink
  <1> HIDE DEF a
  <1>4. Shaped(d) /\ RadioFits(Radio(d), K, S) /\ SameLink(a, d)
    BY <1>1, <1>2, <1>3, SendingFits
  <1>5. QED
    BY <1>1, <1>4 DEF DidSendEventNotification, SameLink, a

\* The session makes its key; nothing has been sealed with it yet.
LEMMA GeneratedFits ==
    ASSUME NEW b, Shaped(b), NEW K, NEW S, RadioFits(Radio(b), K, S), b.connected
    PROVE  LET d == ConfigureProtocol(b)
           IN Shaped(d) /\ RadioFits(Radio(d), K, S) /\ SameLink(b, d)
  <1> DEFINE d == ConfigureProtocol(b)
             e == Expiration(b.store.gsn)
  <1>1. /\ Shaped(d) /\ SameLink(b, d) /\ d.adv = b.adv /\ d.air = b.air /\ d.failed = b.failed
        /\ d.store.gsn = b.store.gsn /\ d.store.didIncrement = b.store.didIncrement
        /\ d.store.key = b.sessions /\ d.store.expiration = e
    BY DEF ConfigureProtocol, GenerateKey, Expiration, Shaped, SameLink
  <1>2. e \in 1 .. MaxGSN /\ Dist(b.store.gsn, e) < MaxGSN \div 2
    <2>1. b.store.gsn \in 1 .. MaxGSN
      BY DEF RadioFits, KeyFits, Radio
    <2>2. QED
      BY <2>1, ExpirationIsFar, HalfIsSmall
  <1> HIDE DEF d, e
  <1>3. KeyFits(Radio(d))
    BY <1>1, <1>2, HalfIsSmall DEF RadioFits, KeyFits, Radio, SameLink, NoKey
  <1>4. TimersFit(Radio(d)) /\ AirFits(Radio(d))
    BY <1>1, ZenonT(60) DEF RadioFits, TimersFit, AirFits, Radio, SameLink
  <1>5. NoncesFit(Radio(d), K, S)
    BY <1>1 DEF RadioFits, NoncesFit, Radio, SameLink
  <1>6. QED
    BY <1>1, <1>3, <1>4, <1>5 DEF RadioFits, d

LEMMA ExpiredFits ==
    ASSUME NEW b, Shaped(b), NEW K, NEW S, RadioFits(Radio(b), K, S), b.connected
    PROVE  LET d == ExpireKey(b)
           IN Shaped(d) /\ RadioFits(Radio(d), K, S) /\ SameLink(b, d)
  <1> DEFINE d == ExpireKey(b)
  <1>1. /\ Shaped(d) /\ SameLink(b, d) /\ d.adv = b.adv /\ d.air = b.air /\ d.failed = b.failed
        /\ d.store.gsn = b.store.gsn /\ d.store.didIncrement = b.store.didIncrement
        /\ d.store.key = NoKey /\ d.store.expiration = 0
    BY DEF ExpireKey, Shaped, SameLink
  <1> HIDE DEF d
  <1>2. KeyFits(Radio(d))
    BY <1>1, HalfIsSmall DEF RadioFits, KeyFits, Radio, SameLink, NoKey
  <1>3. TimersFit(Radio(d)) /\ AirFits(Radio(d)) /\ NoncesFit(Radio(d), K, S)
    BY <1>1, ZenonT(60) DEF RadioFits, TimersFit, AirFits, NoncesFit, Radio, SameLink
  <1>4. QED
    BY <1>1, <1>2, <1>3 DEF RadioFits, d

\* What raising an event does to the GSN.
Counted(b, d) ==
    \/ d.store.gsn = b.store.gsn /\ d.store.didIncrement = b.store.didIncrement
       /\ d.store.expiration = b.store.expiration
    \/ /\ ~b.store.didIncrement \/ b.store.expiration \notin {0, b.store.gsn}
       /\ d.store.gsn = Next1(b.store.gsn) /\ d.store.didIncrement
       /\ b.store.gsn # b.store.expiration => d.store.expiration = b.store.expiration
       /\ b.store.gsn = b.store.expiration => d.store.expiration = 0

\* A new event has the air to itself, with a GSN of its own.
LEMMA BroadcastFits ==
    ASSUME NEW b, Shaped(b), NEW K, NEW S, RadioFits(Radio(b), K, S), NEW c, c.name # NoChar,
           MayBroadcast(b, c), NEW readable \in BOOLEAN, NEW value
    PROVE  LET d == Broadcast(b, c, readable, value)
           IN /\ Shaped(d) /\ RadioFits(Radio(d), K, S) /\ SameLink(b, d) /\ Counted(b, d)
              /\ readable => d.store.didIncrement
  <1> DEFINE t == [b EXCEPT !.adv.timer = FALSE, !.adv.event = NoChar, !.adv.value = 0]
             s == UpdateAdvertisingData(t)
             n == IncrementGSN(s)
             m == [n EXCEPT !.adv.timer = TRUE, !.adv.event = c.name, !.adv.value = value]
             d == UpdateAdvertisingData(IF readable THEN m ELSE s)
  <1>1. /\ ~b.connected /\ b.adv.connected = b.connected /\ ~b.failed
        /\ b.store.expiration # 0 /\ b.store.expiration # b.store.gsn
        /\ KeyFits(Radio(b)) /\ TimersFit(Radio(b)) /\ NoncesFit(Radio(b), K, S)
    BY DEF RadioFits, TimersFit, Radio, MayBroadcast
  <1>2. /\ Shaped(t) /\ SameLink(b, t) /\ t.store = b.store /\ t.failed = b.failed
        /\ t.adv.event = NoChar /\ t.adv.timer = FALSE
        /\ t.adv.connected = b.adv.connected /\ t.adv.fastTimer = b.adv.fastTimer
        /\ t.adv.fastStarted = b.adv.fastStarted
    BY DEF Shaped, SameLink
  <1> HIDE DEF t
  <1>3. KeyFits(Radio(t)) /\ TimersFit(Radio(t)) /\ NoncesFit(Radio(t), K, S)
    BY <1>1, <1>2 DEF KeyFits, TimersFit, NoncesFit, Radio, SameLink
  <1>4. /\ Shaped(s) /\ RadioFits(Radio(s), K, S) /\ s.store = t.store /\ SameLink(t, s)
        /\ s.adv.event = t.adv.event /\ s.adv.timer = t.adv.timer
    BY <1>2, <1>3, UpdateTunes
  <1> HIDE DEF s
  <1>5. /\ KeyFits(Radio(s)) /\ TimersFit(Radio(s)) /\ NoncesFit(Radio(s), K, S)
        /\ SameLink(b, s) /\ s.store = b.store
    BY <1>2, <1>4 DEF RadioFits, SameLink
  <1>6. /\ Shaped(n) /\ KeyFits(Radio(n)) /\ NoncesFit(Radio(n), K, S)
        /\ SameLink(s, n) /\ n.adv = s.adv /\ n.failed = s.failed
        /\ n.store.didIncrement /\ n.store.gsn = Next1(b.store.gsn)
        /\ n.store.key = b.store.key /\ n.store.expiration = b.store.expiration
        /\ n.store.key = K => \A x \in S : x.gsn # n.store.gsn
    BY <1>1, <1>4, <1>5, IncrementFits
  <1> HIDE DEF n
  <1>7. /\ Shaped(m) /\ SameLink(n, m) /\ m.store = n.store /\ m.failed = n.failed
        /\ m.adv.event = c.name /\ m.adv.timer /\ m.adv.value = value
        /\ m.adv.connected = n.adv.connected /\ m.adv.fastTimer = n.adv.fastTimer
        /\ m.adv.fastStarted = n.adv.fastStarted
    BY <1>6 DEF Shaped, SameLink
  <1> HIDE DEF m
  <1>8. KeyFits(Radio(m)) /\ NoncesFit(Radio(m), K, S)
    BY <1>6, <1>7 DEF KeyFits, NoncesFit, Radio, SameLink
  <1>9. TimersFit(Radio(m)) /\ ~m.connected
    BY <1>1, <1>5, <1>6, <1>7 DEF TimersFit, Radio, SameLink
  <1>10. CASE readable
    <2>1. /\ d = UpdateAdvertisingData(m)
          /\ Shaped(d) /\ RadioFits(Radio(d), K, S) /\ d.store = m.store /\ SameLink(m, d)
      BY <1>7, <1>8, <1>9, <1>10, UpdateTunes
    <2>2. SameLink(b, d)
      BY <1>5, <1>6, <1>7, <2>1 DEF SameLink
    <2>3. Counted(b, d) /\ d.store.didIncrement
      BY <1>1, <1>6, <1>7, <2>1 DEF Counted
    <2>4. d = Broadcast(b, c, readable, value)
      BY DEF Broadcast, m, n, s, t
    <2>5. QED
      BY <2>1, <2>2, <2>3, <2>4
  <1>11. CASE ~readable
    <2>1. /\ d = UpdateAdvertisingData(s)
          /\ Shaped(d) /\ RadioFits(Radio(d), K, S) /\ d.store = s.store /\ SameLink(s, d)
      BY <1>4, <1>5, <1>11, UpdateTunes
    <2>2. SameLink(b, d) /\ Counted(b, d)
      BY <1>5, <2>1 DEF SameLink, Counted
    <2>3. d = Broadcast(b, c, readable, value)
      BY DEF Broadcast, m, n, s, t
    <2>4. QED
      BY <1>11, <2>1, <2>2, <2>3
  <1>12. QED
    BY <1>10, <1>11

LEMMA CountedEventFits ==
    ASSUME NEW b, Shaped(b), NEW K, NEW S, RadioFits(Radio(b), K, S), NEW c, c.name # NoChar,
           NEW readable \in BOOLEAN, NEW value
    PROVE  LET d == CountedEvent(b, c, readable, value)
           IN /\ Shaped(d) /\ RadioFits(Radio(d), K, S) /\ SameLink(b, d)
              /\ ~b.connected => Counted(b, d) /\ (c.disconnected /\ readable => d.store.didIncrement)
  <1> DEFINE d == CountedEvent(b, c, readable, value)
  <1>1. /\ b.connected \in BOOLEAN /\ b.adv.connected = b.connected /\ ~b.failed
        /\ KeyFits(Radio(b)) /\ TimersFit(Radio(b)) /\ NoncesFit(Radio(b), K, S)
    BY DEF RadioFits, TimersFit, Radio
  <1>2. CASE MayBroadcast(b, c)
    BY <1>2, BroadcastFits DEF CountedEvent
  <1>3. CASE ~MayBroadcast(b, c) /\ (~c.disconnected \/ b.store.didIncrement)
    BY <1>3 DEF CountedEvent, SameLink, Counted
  <1>4. CASE ~MayBroadcast(b, c) /\ c.disconnected /\ ~b.store.didIncrement /\ b.connected
    <2>1. d = CountOnce(b)
      BY <1>1, <1>4 DEF CountedEvent
    <2>2. QED
      BY <1>4, <2>1, SendingFits
  <1>5. CASE ~MayBroadcast(b, c) /\ c.disconnected /\ ~b.store.didIncrement /\ ~b.connected
    <2> DEFINE a == Asserted(b, b.adv.event = NoChar /\ ~b.adv.timer)
               n == IncrementGSN(a)
               m == [n EXCEPT !.adv.timer = TRUE]
    <2>1. d = UpdateAdvertisingData(m)
      BY <1>1, <1>5 DEF CountedEvent, CountOnce
    <2>2. b.adv.event = NoChar /\ ~b.adv.timer
      BY <1>1, <1>5 DEF TimersFit, Radio
    <2>3. Shaped(a) /\ SameLink(b, a) /\ ~a.failed /\ a.adv = b.adv /\ a.store = b.store
      BY <1>1, <2>2 DEF Asserted, Shaped, SameLink
    <2>4. KeyFits(Radio(a)) /\ NoncesFit(Radio(a), K, S)
      BY <1>1, <2>3, ZenonT(60) DEF KeyFits, NoncesFit, Radio, SameLink
    <2> HIDE DEF a
    <2>5. /\ Shaped(n) /\ KeyFits(Radio(n)) /\ NoncesFit(Radio(n), K, S)
          /\ SameLink(a, n) /\ n.adv = a.adv /\ n.failed = a.failed
          /\ n.store.didIncrement /\ n.store.gsn = Next1(b.store.gsn)
          /\ IF b.store.gsn = b.store.expiration THEN n.store.key = NoKey
             ELSE n.store.expiration = b.store.expiration
      BY <2>3, <2>4, IncrementFits
    <2> HIDE DEF n
    <2>6. /\ Shaped(m) /\ SameLink(n, m) /\ m.store = n.store /\ m.failed = n.failed
          /\ m.adv.event = n.adv.event /\ m.adv.timer /\ m.adv.value = n.adv.value
          /\ m.adv.connected = n.adv.connected /\ m.adv.fastTimer = n.adv.fastTimer
          /\ m.adv.fastStarted = n.adv.fastStarted
      BY <2>5 DEF Shaped, SameLink
    <2> HIDE DEF m
    <2>7. KeyFits(Radio(m)) /\ NoncesFit(Radio(m), K, S)
      BY <2>5, <2>6 DEF KeyFits, NoncesFit, Radio, SameLink
    <2>8. TimersFit(Radio(m))
      BY <1>1, <1>5, <2>2, <2>3, <2>5, <2>6 DEF TimersFit, Radio, SameLink
    <2>9. Shaped(d) /\ RadioFits(Radio(d), K, S) /\ d.store = m.store /\ SameLink(m, d)
      BY <2>1, <2>6, <2>7, <2>8, UpdateTunes
    <2>10. SameLink(b, d)
      BY <2>3, <2>5, <2>6, <2>9 DEF SameLink
    <2>11. n.store.key = NoKey => n.store.expiration = 0
      BY <2>5 DEF KeyFits, Radio
    <2>12. Counted(b, d) /\ d.store.didIncrement
      BY <1>5, <2>5, <2>6, <2>9, <2>11 DEF Counted
    <2>13. QED
      BY <2>9, <2>10, <2>12
  <1>6. QED
    BY <1>1, <1>2, <1>3, <1>4, <1>5

LEMMA FastTimerFits ==
    ASSUME NEW b, Shaped(b), NEW K, NEW S, RadioFits(Radio(b), K, S), b.adv.fastTimer
    PROVE  LET d == AdvertisingTimerExpired([b EXCEPT !.adv.fastTimer = FALSE])
           IN Shaped(d) /\ RadioFits(Radio(d), K, S) /\ SameLink(b, d) /\ d.store = b.store
  <1> DEFINE t == [b EXCEPT !.adv.fastTimer = FALSE]
             a == Asserted(t, ~t.adv.connected)
  <1>1. /\ ~b.connected /\ b.adv.connected = b.connected /\ ~b.failed
        /\ KeyFits(Radio(b)) /\ TimersFit(Radio(b)) /\ NoncesFit(Radio(b), K, S)
    BY DEF RadioFits, TimersFit, Radio
  <1>2. /\ Shaped(t) /\ SameLink(b, t) /\ t.store = b.store /\ t.failed = b.failed
        /\ t.adv.event = b.adv.event /\ t.adv.timer = b.adv.timer /\ ~t.adv.fastTimer
        /\ t.adv.connected = b.adv.connected /\ t.adv.value = b.adv.value
        /\ t.adv.fastStarted = b.adv.fastStarted
    BY DEF Shaped, SameLink
  <1>3. AdvertisingTimerExpired(t) = UpdateAdvertisingData(a)
    BY <1>1, <1>2 DEF AdvertisingTimerExpired, TimersFit, Radio
  <1> HIDE DEF t
  <1>4. Shaped(a) /\ SameLink(b, a) /\ a.store = b.store /\ ~a.failed /\ a.adv = t.adv
    BY <1>1, <1>2 DEF Asserted, Shaped, SameLink
  <1> HIDE DEF a
  <1>5. KeyFits(Radio(a)) /\ TimersFit(Radio(a)) /\ NoncesFit(Radio(a), K, S)
    BY <1>1, <1>2, <1>4 DEF KeyFits, TimersFit, NoncesFit, Radio, SameLink
  <1> DEFINE d == UpdateAdvertisingData(a)
  <1>6. Shaped(d) /\ RadioFits(Radio(d), K, S) /\ SameLink(a, d) /\ d.store = a.store
    BY <1>4, <1>5, UpdateTunes
  <1>7. QED
    BY <1>3, <1>4, <1>6 DEF SameLink, t

LEMMA EventTimerFits ==
    ASSUME NEW b, Shaped(b), NEW K, NEW S, RadioFits(Radio(b), K, S), b.adv.timer
    PROVE  LET d == AdvertisingTimerExpired([b EXCEPT !.adv.timer = FALSE])
           IN Shaped(d) /\ RadioFits(Radio(d), K, S) /\ SameLink(b, d) /\ d.store = b.store
  <1> DEFINE t == [b EXCEPT !.adv.timer = FALSE]
             a == IF t.adv.event # NoChar
                  THEN [t EXCEPT !.failed = @ \/ t.adv.connected, !.adv.event = NoChar, !.adv.value = 0,
                                 !.adv.timer = TRUE]
                  ELSE Asserted(t, ~t.adv.connected)
  <1>1. /\ ~b.connected /\ b.adv.connected = b.connected /\ ~b.failed
        /\ b.store.didIncrement
        /\ KeyFits(Radio(b)) /\ TimersFit(Radio(b)) /\ NoncesFit(Radio(b), K, S)
    BY DEF RadioFits, TimersFit, Radio
  <1>2. /\ Shaped(t) /\ SameLink(b, t) /\ t.store = b.store /\ t.failed = b.failed
        /\ t.adv.event = b.adv.event /\ ~t.adv.timer
        /\ t.adv.connected = b.adv.connected /\ t.adv.fastTimer = b.adv.fastTimer
        /\ t.adv.fastStarted = b.adv.fastStarted
    BY DEF Shaped, SameLink
  <1>3. AdvertisingTimerExpired(t) = UpdateAdvertisingData(a)
    BY <1>2 DEF AdvertisingTimerExpired
  <1> HIDE DEF t
  <1>4. /\ Shaped(a) /\ SameLink(b, a) /\ a.store = b.store /\ ~a.failed /\ a.adv.event = NoChar
        /\ a.adv.connected = b.adv.connected /\ a.adv.fastTimer = b.adv.fastTimer
        /\ a.adv.fastStarted = b.adv.fastStarted
    <2>1. CASE t.adv.event # NoChar
      BY <1>1, <1>2, <2>1 DEF Shaped, SameLink
    <2>2. CASE t.adv.event = NoChar
      BY <1>1, <1>2, <2>2 DEF Asserted, Shaped, SameLink
    <2>3. QED
      BY <2>1, <2>2
  <1> HIDE DEF a
  <1>5. KeyFits(Radio(a)) /\ TimersFit(Radio(a)) /\ NoncesFit(Radio(a), K, S)
    BY <1>1, <1>4 DEF KeyFits, TimersFit, NoncesFit, Radio, SameLink
  <1> DEFINE d == UpdateAdvertisingData(a)
  <1>6. Shaped(d) /\ RadioFits(Radio(d), K, S) /\ SameLink(a, d) /\ d.store = a.store
    BY <1>4, <1>5, UpdateTunes
  <1>7. QED
    BY <1>3, <1>4, <1>6 DEF SameLink, t

\* The flags of a connection have been reset, but those of advertising.
LEMMA DidConnectFits ==
    ASSUME NEW b, Shaped(b), NEW K, NEW S, KeyFits(Radio(b)), NoncesFit(Radio(b), K, S),
           ~b.failed, b.connected = TRUE, ~b.adv.connected, b.adv.fastStarted
    PROVE  LET d == DidConnect(b)
           IN Shaped(d) /\ RadioFits(Radio(d), K, S) /\ SameLink(b, d)
  <1> DEFINE a == [b EXCEPT !.adv = [@ EXCEPT !.connected = TRUE, !.fastTimer = FALSE, !.timer = FALSE,
                                              !.event = NoChar, !.value = 0],
                            !.store.didIncrement = FALSE,
                            !.failed = @ \/ b.adv.connected]
             d == UpdateAdvertisingData(a)
  <1>1. /\ Shaped(a) /\ SameLink(b, a) /\ ~a.failed /\ a.adv.event = NoChar /\ a.adv.connected = TRUE
        /\ ~a.adv.fastTimer /\ ~a.adv.timer /\ a.adv.fastStarted = b.adv.fastStarted
        /\ a.store.gsn = b.store.gsn /\ a.store.key = b.store.key
        /\ a.store.expiration = b.store.expiration
    BY DEF Shaped, SameLink
  <1>2. d = DidConnect(b)
    BY DEF DidConnect
  <1> HIDE DEF a
  <1>3. KeyFits(Radio(a)) /\ TimersFit(Radio(a)) /\ NoncesFit(Radio(a), K, S)
    BY <1>1 DEF KeyFits, TimersFit, NoncesFit, Radio, SameLink
  <1>4. Shaped(d) /\ RadioFits(Radio(d), K, S) /\ SameLink(a, d)
    BY <1>1, <1>3, UpdateTunes
  <1>5. QED
    BY <1>1, <1>2, <1>4 DEF SameLink

LEMMA DidDisconnectFits ==
    ASSUME NEW b, Shaped(b), NEW K, NEW S, KeyFits(Radio(b)), NoncesFit(Radio(b), K, S),
           ~b.failed, b.connected = FALSE, b.adv.connected, b.adv.fastStarted,
           ~b.adv.fastTimer, ~b.adv.timer, b.adv.event = NoChar
    PROVE  LET d == DidDisconnect(b)
           IN /\ Shaped(d) /\ RadioFits(Radio(d), K, S) /\ SameLink(b, d)
              /\ d.store.gsn = b.store.gsn /\ ~d.store.didIncrement
  <1> DEFINE a == [b EXCEPT !.adv.connected = FALSE,
                            !.adv.fastTimer = TRUE,
                            !.store.didIncrement = FALSE,
                            !.failed = \/ @
                                       \/ ~b.adv.connected \/ ~b.adv.fastStarted
                                       \/ b.adv.fastTimer \/ b.adv.timer \/ b.adv.event # NoChar]
             d == UpdateAdvertisingData(a)
  <1>1. /\ Shaped(a) /\ SameLink(b, a) /\ ~a.failed /\ a.adv.event = NoChar /\ a.adv.connected = FALSE
        /\ a.adv.timer = b.adv.timer /\ a.adv.fastStarted = b.adv.fastStarted
        /\ a.store.gsn = b.store.gsn /\ a.store.key = b.store.key
        /\ a.store.expiration = b.store.expiration /\ ~a.store.didIncrement
    BY DEF Shaped, SameLink
  <1>2. d = DidDisconnect(b)
    BY DEF DidDisconnect
  <1> HIDE DEF a
  <1>3. KeyFits(Radio(a)) /\ TimersFit(Radio(a)) /\ NoncesFit(Radio(a), K, S)
    BY <1>1 DEF KeyFits, TimersFit, NoncesFit, Radio, SameLink
  <1>4. Shaped(d) /\ RadioFits(Radio(d), K, S) /\ SameLink(a, d) /\ d.store = a.store
    BY <1>1, <1>3, UpdateTunes
  <1>5. QED
    BY <1>1, <1>2, <1>4 DEF SameLink

-----------------------------------------------------------------------------
(* Links and events *)

LinkFits(b) ==
    /\ b.link.terminal => b.link.security = "None"
    /\ b.link.security # "None" => b.connected
    /\ b.connected /\ (b.link.terminal \/ b.server # "Running") => b.cancelled \/ ~b.link.safe
    /\ b.server = "Idle" => ~b.connected

\* What a link needs between callbacks.
IsTimed(b) == b.link.security = "Secured" => b.link.linkTimer

\* The application was told of nothing but subscriptions, and in a secured session of all.
SubscriptionsFit(b) ==
    /\ b.table = instance.table
    /\ b.free \in Nat
    /\ b.informed \subseteq b.subscribed
    /\ IsSecured(b) => b.informed = b.subscribed
    /\ b.link.security = "None" => b.informed = {}

\* What pending events depend on.
Queue(b) ==
    [security |-> b.link.security, admin |-> b.link.admin, subscribed |-> b.subscribed,
     pending |-> b.pending, free |-> b.free, table |-> b.table]

IsBlocked(q) ==
    q.security = "Secured" =>
        \A i \in 1 .. Len(q.table) :
            /\ q.table[i].notify /\ q.table[i].name \in q.subscribed \cap q.pending
            /\ ~q.table[i].admin \/ q.admin
            => q.free = 0

\* What holds between the functions of a callback.
IsSound(b, K, S) ==
    Shaped(b) /\ RadioFits(Radio(b), K, S) /\ LinkFits(b) /\ SubscriptionsFit(b)

\* Only the queue of indications and what advertising counts differ.
SameSession(b, d) ==
    /\ d.server = b.server /\ d.connected = b.connected /\ d.cancelled = b.cancelled
    /\ d.table = b.table /\ d.link = b.link /\ d.procedure = b.procedure
    /\ d.subscribed = b.subscribed /\ d.informed = b.informed /\ d.sessions = b.sessions

LEMMA SameSessionFits ==
    ASSUME NEW b, NEW d, NEW K, NEW S, IsSound(b, K, S), SameSession(b, d), Shaped(d),
           RadioFits(Radio(d), K, S), d.free \in Nat
    PROVE  IsSound(d, K, S)
  BY DEF IsSound, SameSession, LinkFits, SubscriptionsFit, IsSecured

LEMMA TableIsSequence == instance \in Instances => Len(instance.table) \in Nat
  BY InstancesAssumption

\* One turn of the loop: what may be sent has been, or there is no room.
LEMMA OfferedFits ==
    ASSUME NEW b, NEW K, NEW S, IsSound(b, K, S), IsSecured(b), NEW c
    PROVE  LET d == Offered(b, c)
           IN /\ IsSound(d, K, S) /\ SameSession(b, d)
              /\ d.pending \subseteq b.pending /\ d.free <= b.free
              /\ Sendable(d, c) /\ MayBeTold(d, c) => d.free = 0
  <1> DEFINE a == [b EXCEPT !.pending = @ \ {c.name}, !.free = @ - 1]
             n == DidSendEventNotification(a)
             d == Offered(b, c)
  <1>1. b.connected /\ Shaped(b) /\ RadioFits(Radio(b), K, S) /\ b.free \in Nat
    BY DEF IsSound, LinkFits, IsSecured, SubscriptionsFit
  <1>2. CASE Sendable(b, c) /\ MayBeTold(b, c) /\ b.free > 0
    <2>1. d = n
      BY <1>2 DEF Offered, Indicated
    <2>2. /\ Shaped(a) /\ Radio(a) = Radio(b) /\ SameSession(b, a) /\ a.pending = b.pending \ {c.name}
          /\ a.free = b.free - 1
      BY <1>1 DEF Shaped, Radio, SameSession
    <2> HIDE DEF a
    <2>3. a.connected /\ RadioFits(Radio(a), K, S)
      BY <1>1, <2>2 DEF SameSession
    <2>4. Shaped(n) /\ RadioFits(Radio(n), K, S) /\ SameLink(a, n)
      BY <2>2, <2>3, NotificationFits
    <2> HIDE DEF n
    <2>5. SameSession(b, n) /\ n.pending = b.pending \ {c.name} /\ n.free = b.free - 1
      BY <2>2, <2>4 DEF SameSession, SameLink
    <2>6. n.free \in Nat /\ n.free <= b.free
      BY <1>1, <1>2, <2>5
    <2>7. IsSound(n, K, S)
      BY <2>4, <2>5, <2>6, SameSessionFits
    <2>8. ~Sendable(n, c)
      BY <2>5 DEF Sendable
    <2>9. QED
      BY <2>1, <2>5, <2>6, <2>7, <2>8
  <1>3. CASE ~(Sendable(b, c) /\ MayBeTold(b, c) /\ b.free > 0)
    <2>1. d = b
      BY <1>3 DEF Offered
    <2>2. Sendable(b, c) /\ MayBeTold(b, c) => b.free = 0
      BY <1>1, <1>3
    <2>3. b.free <= b.free
      BY <1>1
    <2>4. QED
      BY <2>1, <2>2, <2>3 DEF SameSession
  <1>4. QED
    BY <1>2, <1>3

\* The loop over the table is defined: it goes on from any turn to the next one.
LEMMA LoopExists ==
    ASSUME NEW b, Len(b.table) \in Nat
    PROVE  \E f : f = [i \in 0 .. Len(b.table) |-> IF i = 0 THEN b ELSE Offered(f[i - 1], b.table[i])]
  <1> DEFINE IsLoop(f, k) == f = [i \in 0 .. k |-> IF i = 0 THEN b ELSE Offered(f[i - 1], b.table[i])]
             Lengths == {k \in Nat : \E f : IsLoop(f, k)}
  <1>1. 0 \in Lengths
    <2>1. IsLoop([i \in 0 .. 0 |-> b], 0)
      OBVIOUS
    <2>2. QED
      BY <2>1
  <1>2. ASSUME NEW k \in Lengths \cap Nat
        PROVE  k + 1 \in Lengths
    <2>1. PICK f : IsLoop(f, k)
      OBVIOUS
    <2> DEFINE g == [i \in 0 .. k + 1 |-> IF i = k + 1 THEN Offered(f[k], b.table[i]) ELSE f[i]]
    <2>2. \A i \in 0 .. k + 1 : g[i] = IF i = 0 THEN b ELSE Offered(g[i - 1], b.table[i])
      <3> SUFFICES ASSUME NEW i \in 0 .. k + 1
                   PROVE  g[i] = IF i = 0 THEN b ELSE Offered(g[i - 1], b.table[i])
        OBVIOUS
      <3>1. CASE i = k + 1
        <4>1. i - 1 = k /\ k \in 0 .. k + 1 /\ k # k + 1 /\ i # 0
          BY <3>1
        <4>2. QED
          BY <3>1, <4>1
      <3>2. CASE i = 0
        <4>1. 0 \in 0 .. k /\ 0 # k + 1 /\ f[0] = b
          BY <2>1
        <4>2. QED
          BY <3>2, <4>1
      <3>3. CASE i # 0 /\ i # k + 1
        <4>1. i \in 0 .. k /\ i - 1 \in 0 .. k /\ i - 1 # k + 1 /\ i - 1 \in 0 .. k + 1
          BY <3>3
        <4>2. f[i] = Offered(f[i - 1], b.table[i])
          BY <2>1, <3>3, <4>1
        <4>3. g[i] = f[i] /\ g[i - 1] = f[i - 1]
          BY <3>3, <4>1
        <4>4. QED
          BY <3>3, <4>2, <4>3
      <3>4. QED
        BY <3>1, <3>2, <3>3
    <2>3. IsLoop(g, k + 1)
      BY <2>2
    <2> HIDE DEF g
    <2>4. \E h : IsLoop(h, k + 1)
      BY <2>3
    <2>5. QED
      BY <2>4
  <1> HIDE DEF Lengths
  <1>3. Nat \subseteq Lengths
    BY <1>1, <1>2, SetInduction
  <1>4. QED
    BY <1>3 DEF Lengths

\* SendPendingEventNotifications: afterwards events wait only for the platform.
LEMMA SendPendingFits ==
    ASSUME instance \in Instances, NEW b, NEW K, NEW S, IsSound(b, K, S)
    PROVE  LET d == SendPendingEventNotifications(b)
           IN IsSound(d, K, S) /\ SameSession(b, d) /\ IsBlocked(Queue(d))
  <1> DEFINE T == b.table
             n == Len(T)
             d == SendPendingEventNotifications(b)
             IsLoop(f) == f = [i \in 0 .. Len(b.table) |-> IF i = 0 THEN b ELSE Offered(f[i - 1], b.table[i])]
  <1>1. CASE ~IsSecured(b) \/ IsTransient(b)
    BY <1>1 DEF SendPendingEventNotifications, SameSession, IsBlocked, Queue, IsSecured, IsTransient
  <1>2. CASE ~(~IsSecured(b) \/ IsTransient(b))
    <2>1. n \in Nat /\ Len(b.table) \in Nat
      BY TableIsSequence DEF IsSound, SubscriptionsFit
    <2>2. \E f : IsLoop(f)
      BY <2>1, LoopExists
    <2>3. IsLoop(CHOOSE f : IsLoop(f))
      BY <2>2
    <2>4. d = (CHOOSE f : IsLoop(f))[Len(b.table)]
      BY <1>2 DEF SendPendingEventNotifications
    <2>5. PICK f : IsLoop(f) /\ d = f[n]
      BY <2>3, <2>4
    <2>6. /\ f[0] = b
          /\ \A k \in Nat : k + 1 <= n => f[k + 1] = Offered(f[k], T[k + 1])
      BY <2>1, <2>5
    <2> HIDE DEF n, d, IsLoop
    <2> DEFINE Done(k) ==
                   /\ IsSound(f[k], K, S) /\ SameSession(b, f[k])
                   /\ f[k].pending \subseteq b.pending /\ f[k].free <= b.free
                   /\ \A j \in 1 .. k :
                          Sendable(f[k], T[j]) /\ MayBeTold(f[k], T[j]) => f[k].free = 0
               Good == {k \in Nat : k <= n => Done(k)}
    <2>7. 0 \in Good
      <3>1. b.free \in Nat
        BY DEF IsSound, SubscriptionsFit
      <3>2. SameSession(b, b) /\ b.free <= b.free
        BY <3>1 DEF SameSession
      <3>3. Done(0)
        BY <2>6, <3>2
      <3>4. QED
        BY <3>3
    <2>8. ASSUME NEW k \in Good \cap Nat PROVE k + 1 \in Good
      <3> SUFFICES ASSUME k + 1 <= n PROVE Done(k + 1)
        OBVIOUS
      <3> DEFINE e == f[k]
                 g == f[k + 1]
      <3>1. Done(k)
        BY <2>1
      <3>2. /\ IsSound(e, K, S) /\ SameSession(b, e) /\ e.pending \subseteq b.pending
            /\ \A j \in 1 .. k : Sendable(e, T[j]) /\ MayBeTold(e, T[j]) => e.free = 0
        BY <3>1
      <3>3. g = Offered(e, T[k + 1])
        BY <2>6
      <3> HIDE DEF Good, Done, e, g
      <3>4. IsSecured(e)
        BY <1>2, <3>2 DEF IsSecured, SameSession
      <3>5. /\ IsSound(g, K, S) /\ SameSession(e, g) /\ g.pending \subseteq e.pending
            /\ g.free <= e.free
            /\ Sendable(g, T[k + 1]) /\ MayBeTold(g, T[k + 1]) => g.free = 0
        BY <3>2, <3>3, <3>4, OfferedFits
      <3>6. SameSession(b, g) /\ g.pending \subseteq b.pending
        BY <3>2, <3>5 DEF SameSession
      <3>7. e.free \in Nat /\ g.free \in Nat /\ b.free \in Nat
        BY <3>2, <3>5 DEF IsSound, SubscriptionsFit
      <3>8. \A j \in 1 .. k : Sendable(g, T[j]) /\ MayBeTold(g, T[j]) => g.free = 0
        <4> SUFFICES ASSUME NEW j \in 1 .. k, Sendable(g, T[j]), MayBeTold(g, T[j])
                     PROVE  g.free = 0
          OBVIOUS
        <4>1. Sendable(e, T[j]) /\ MayBeTold(e, T[j])
          BY <3>5 DEF Sendable, MayBeTold, SameSession
        <4>2. e.free = 0
          BY <3>2, <4>1
        <4>3. QED
          BY <3>5, <3>7, <4>2
      <3>9. \A j \in 1 .. k + 1 : Sendable(g, T[j]) /\ MayBeTold(g, T[j]) => g.free = 0
        BY <3>5, <3>8
      <3>10. g.free <= b.free
        BY <3>1, <3>5, <3>7 DEF Done, e
      <3>11. QED
        BY <3>5, <3>6, <3>9, <3>10 DEF Done, g
    <2> HIDE DEF Good
    <2>9. n \in Good
      BY <2>1, <2>7, <2>8, SetInduction
    <2>10. Done(n)
      BY <2>1, <2>9 DEF Good
    <2> HIDE DEF Done
    <2>11. /\ IsSound(d, K, S) /\ SameSession(b, d)
           /\ \A j \in 1 .. n : Sendable(d, T[j]) /\ MayBeTold(d, T[j]) => d.free = 0
      BY <2>5, <2>10 DEF Done
    <2>12. d.table = T /\ n = Len(d.table)
      BY <2>11 DEF SameSession, n
    <2>13. IsBlocked(Queue(d))
      BY <2>11, <2>12 DEF IsBlocked, Queue, Sendable, MayBeTold
    <2>14. QED
      BY <2>11, <2>13 DEF d
  <1>3. QED
    BY <1>1, <1>2

\* A link between two functions that neither begin nor end its session.
IsLive(b, K, S) ==
    IsSound(b, K, S) /\ b.connected /\ IsTimed(b) /\ IsBlocked(Queue(b))

SameQueue(b, d) ==
    /\ d.server = b.server /\ d.connected = b.connected /\ d.cancelled = b.cancelled
    /\ d.table = b.table /\ d.link = b.link
    /\ d.subscribed = b.subscribed /\ d.pending = b.pending /\ d.informed = b.informed
    /\ d.free = b.free

LEMMA SameQueueFits ==
    ASSUME NEW b, NEW d, NEW K, NEW S, SameQueue(b, d), Shaped(d), RadioFits(Radio(d), K, S)
    PROVE  /\ IsSound(b, K, S) => IsSound(d, K, S)
           /\ IsLive(b, K, S) => IsLive(d, K, S)
           /\ IsBlocked(Queue(b)) => IsBlocked(Queue(d))
  <1>1. Queue(d) = Queue(b)
    BY DEF Queue, SameQueue
  <1>2. IsSound(b, K, S) => IsSound(d, K, S)
    BY DEF IsSound, SameQueue, LinkFits, SubscriptionsFit, IsSecured
  <1>3. QED
    BY <1>1, <1>2 DEF IsLive, IsTimed, SameQueue

\* Only the state of procedures, and history, differ.
LEMMA ElsewhereFits ==
    ASSUME NEW b, NEW d, NEW K, NEW S, SameQueue(b, d), Shaped(d), d.failed = b.failed,
           d.adv = b.adv, d.air = b.air, d.store = b.store, d.sessions = b.sessions
    PROVE  /\ IsSound(b, K, S) => IsSound(d, K, S)
           /\ IsLive(b, K, S) => IsLive(d, K, S)
           /\ IsBlocked(Queue(b)) => IsBlocked(Queue(d))
  <1>1. Radio(d) = Radio(b)
    BY DEF Radio, SameQueue
  <1>2. CASE IsSound(b, K, S)
    <2>1. RadioFits(Radio(d), K, S)
      BY <1>1, <1>2 DEF IsSound
    <2>2. QED
      BY <2>1, SameQueueFits
  <1>3. Queue(d) = Queue(b)
    BY DEF Queue, SameQueue
  <1>4. QED
    BY <1>2, <1>3 DEF IsLive

\* A link is changed by d within its session, whose events stay as they are.
LEMMA SessionKeptFits ==
    ASSUME NEW b, NEW d, NEW K, NEW S, IsSound(b, K, S), Shaped(d), Radio(d) = Radio(b),
           LinkFits(d), d.table = b.table, d.free = b.free, d.informed = b.informed,
           d.subscribed = b.subscribed, d.pending = b.pending,
           d.link.security = b.link.security, d.link.admin = b.link.admin
    PROVE  IsSound(d, K, S) /\ (IsBlocked(Queue(b)) => IsBlocked(Queue(d)))
  BY DEF IsSound, SubscriptionsFit, IsSecured, Queue

LEMMA DidSendGATTResponseFits ==
    ASSUME NEW b, NEW K, NEW S, IsLive(b, K, S)
    PROVE  LET d == DidSendGATTResponse(b)
           IN IsLive(d, K, S) /\ d.link.terminal = b.link.terminal /\ d.procedure = b.procedure
  <1> DEFINE d == DidSendGATTResponse(b)
  <1>1. Shaped(d) /\ Radio(d) = Radio(b) /\ IsSound(b, K, S)
    BY DEF IsLive, IsSound, DidSendGATTResponse, Shaped, Radio
  <1>2. LinkFits(d) /\ IsTimed(d) /\ d.connected
    BY DEF IsLive, IsSound, DidSendGATTResponse, Shaped, LinkFits, IsTimed
  <1>3. /\ d.table = b.table /\ d.free = b.free /\ d.informed = b.informed
        /\ d.subscribed = b.subscribed /\ d.pending = b.pending
        /\ d.link.security = b.link.security /\ d.link.admin = b.link.admin
        /\ d.link.terminal = b.link.terminal /\ d.procedure = b.procedure
    BY DEF IsLive, IsSound, DidSendGATTResponse, Shaped
  <1> HIDE DEF d
  <1>4. IsSound(d, K, S) /\ (IsBlocked(Queue(b)) => IsBlocked(Queue(d)))
    BY <1>1, <1>2, <1>3, SessionKeptFits
  <1>5. QED
    BY <1>2, <1>3, <1>4 DEF IsLive, d

-----------------------------------------------------------------------------
(* Requests *)

\* The fields and the states of a transaction, and the fields of a procedure.
IsTransaction(t) ==
    /\ DOMAIN t = {"state", "request", "response", "room"}
    /\ DOMAIN t.request = {"tid", "iid", "opcode", "body", "total", "offset"}
    /\ t.state \in {"WaitingForInitialWrite", "ReadingRequest", "HandlingRequest",
                     "WaitingForInitialRead", "WritingResponse"}

IsProcedure(p) ==
    /\ DOMAIN p = {"attached", "startedSecured", "timer", "multi", "transaction", "scratch"}
    /\ IsTransaction(p.transaction)

\* What is read is a request.
RequestFits(p) == p.transaction.state = "ReadingRequest" => p.transaction.request.opcode \in Opcodes

\* A link that serves requests, and the result of an operation on it.
IsOpen(b, K, S) == IsLive(b, K, S) /\ ~b.link.terminal /\ IsProcedure(b.procedure)

HasAnswer(result, K, S) ==
    IsOpen(result.ble, K, S) /\ (~result.error => RequestFits(result.ble.procedure))

LEMMA OpenFits ==
    ASSUME NEW b, NEW d, NEW K, NEW S, IsOpen(b, K, S), SameQueue(b, d), Shaped(d),
           d.failed = b.failed, d.adv = b.adv, d.air = b.air, d.store = b.store,
           d.sessions = b.sessions, IsProcedure(d.procedure)
    PROVE  IsOpen(d, K, S)
  <1>1. IsLive(d, K, S)
    BY ElsewhereFits DEF IsOpen
  <1>2. QED
    BY <1>1 DEF IsOpen, SameQueue

LEMMA RespondFits ==
    ASSUME NEW b, NEW K, NEW S, IsOpen(b, K, S), NEW status, NEW total
    PROVE  HasAnswer(Respond(b, status, total), K, S)
  <1> DEFINE d == [b EXCEPT !.procedure.transaction = SetResponse(@, status, total)]
  <1>1. Shaped(b) /\ IsProcedure(b.procedure)
    BY DEF IsOpen, IsLive, IsSound
  <1>2. /\ SameQueue(b, d) /\ Shaped(d) /\ d.failed = b.failed /\ d.adv = b.adv /\ d.air = b.air
        /\ d.store = b.store /\ d.sessions = b.sessions
    BY <1>1 DEF Shaped, SameQueue
  <1>3. /\ DOMAIN d.procedure = DOMAIN b.procedure
        /\ d.procedure.transaction = SetResponse(b.procedure.transaction, status, total)
    BY <1>1 DEF Shaped, IsProcedure
  <1>4. Respond(b, status, total).ble = d
    BY DEF Respond, Ok
  <1> HIDE DEF d
  <1>5. IsProcedure(d.procedure) /\ RequestFits(d.procedure)
    BY <1>1, <1>3 DEF IsProcedure, IsTransaction, RequestFits, SetResponse, NoRequest
  <1>6. QED
    BY <1>2, <1>4, <1>5, OpenFits DEF HasAnswer

\* What the procedure keeps besides its transaction.
LEMMA ScratchFits ==
    ASSUME NEW b, NEW K, NEW S, IsOpen(b, K, S), NEW s
    PROVE  /\ IsOpen([b EXCEPT !.procedure.scratch = s], K, S)
           /\ IsOpen([b EXCEPT !.procedure.multi = s], K, S)
           /\ IsOpen([b EXCEPT !.seen.applied = s], K, S)
  <1>1. Shaped(b) /\ IsProcedure(b.procedure)
    BY DEF IsOpen, IsLive, IsSound
  <1>2. IsOpen([b EXCEPT !.procedure.scratch = s], K, S)
    <2> DEFINE d == [b EXCEPT !.procedure.scratch = s]
    <2>1. /\ SameQueue(b, d) /\ Shaped(d) /\ d.failed = b.failed /\ d.adv = b.adv /\ d.air = b.air
          /\ d.store = b.store /\ d.sessions = b.sessions
      BY <1>1 DEF Shaped, SameQueue
    <2>2. IsProcedure(d.procedure)
      BY <1>1 DEF Shaped, IsProcedure
    <2> HIDE DEF d
    <2>3. IsOpen(d, K, S)
      BY <2>1, <2>2, OpenFits
    <2>4. QED
      BY <2>3 DEF d
  <1>3. IsOpen([b EXCEPT !.procedure.multi = s], K, S)
    <2> DEFINE d == [b EXCEPT !.procedure.multi = s]
    <2>1. /\ SameQueue(b, d) /\ Shaped(d) /\ d.failed = b.failed /\ d.adv = b.adv /\ d.air = b.air
          /\ d.store = b.store /\ d.sessions = b.sessions
      BY <1>1 DEF Shaped, SameQueue
    <2>2. IsProcedure(d.procedure)
      BY <1>1 DEF Shaped, IsProcedure
    <2> HIDE DEF d
    <2>3. IsOpen(d, K, S)
      BY <2>1, <2>2, OpenFits
    <2>4. QED
      BY <2>3 DEF d
  <1>4. IsOpen([b EXCEPT !.seen.applied = s], K, S)
    <2> DEFINE d == [b EXCEPT !.seen.applied = s]
    <2>1. /\ SameQueue(b, d) /\ Shaped(d) /\ d.failed = b.failed /\ d.adv = b.adv /\ d.air = b.air
          /\ d.store = b.store /\ d.sessions = b.sessions /\ d.procedure = b.procedure
      BY <1>1 DEF Shaped, SameQueue
    <2> HIDE DEF d
    <2>2. IsOpen(d, K, S)
      BY <1>1, <2>1, OpenFits
    <2>3. QED
      BY <2>2 DEF d
  <1>5. QED
    BY <1>2, <1>3, <1>4

\* Timers of pairing come and go; a link timer that runs goes on.
SameSecurity(b, d) ==
    /\ d.server = b.server /\ d.connected = b.connected /\ d.cancelled = b.cancelled
    /\ d.table = b.table /\ d.procedure = b.procedure
    /\ d.subscribed = b.subscribed /\ d.pending = b.pending /\ d.informed = b.informed
    /\ d.free = b.free
    /\ d.link.security = b.link.security /\ d.link.admin = b.link.admin
    /\ d.link.terminal = b.link.terminal /\ d.link.safe = b.link.safe
    /\ d.link.linkTimer = b.link.linkTimer

LEMMA PairingFits ==
    ASSUME NEW b, NEW d, NEW K, NEW S, SameSecurity(b, d), Shaped(d), Radio(d) = Radio(b)
    PROVE  /\ IsSound(b, K, S) => IsSound(d, K, S)
           /\ IsOpen(b, K, S) => IsOpen(d, K, S)
           /\ IsBlocked(Queue(b)) => IsBlocked(Queue(d))
  <1>1. Queue(d) = Queue(b)
    BY DEF Queue, SameSecurity
  <1>2. IsSound(b, K, S) => IsSound(d, K, S)
    BY DEF IsSound, SameSecurity, LinkFits, SubscriptionsFit, IsSecured
  <1>3. QED
    BY <1>1, <1>2 DEF IsOpen, IsLive, IsTimed, SameSecurity

LEMMA DidStartPairingProcedureFits ==
    ASSUME NEW b, NEW K, NEW S, IsOpen(b, K, S)
    PROVE  LET d == DidStartPairingProcedure(b)
           IN IsOpen(d, K, S) /\ SameSecurity(b, d)
  <1> DEFINE d == DidStartPairingProcedure(b)
  <1>1. Shaped(d) /\ Radio(d) = Radio(b) /\ SameSecurity(b, d)
    BY DEF IsOpen, IsLive, IsSound, DidStartPairingProcedure, Shaped, Radio, SameSecurity
  <1> HIDE DEF d
  <1>2. IsOpen(d, K, S)
    BY <1>1, PairingFits
  <1>3. QED
    BY <1>1, <1>2 DEF d

LEMMA VerifyingFits ==
    ASSUME NEW b, NEW K, NEW S, IsOpen(b, K, S), NEW v
    PROVE  LET d == [b EXCEPT !.link.verifying = v]
           IN IsOpen(d, K, S) /\ SameSecurity(b, d)
  <1> DEFINE d == [b EXCEPT !.link.verifying = v]
  <1>1. Shaped(d) /\ Radio(d) = Radio(b) /\ SameSecurity(b, d)
    BY DEF IsOpen, IsLive, IsSound, Shaped, Radio, SameSecurity
  <1> HIDE DEF d
  <1>2. IsOpen(d, K, S)
    BY <1>1, PairingFits
  <1>3. QED
    BY <1>1, <1>2 DEF d

\* A session begins: the application is told of the subscriptions that wait for it.
LEMMA AcceptedFits ==
    ASSUME instance \in Instances, NEW b, NEW K, NEW S, IsOpen(b, K, S),
           NEW security \in {"Secured", "Transient"}, NEW admin
    PROVE  LET d == Accepted(b, security, admin)
           IN /\ IsSound(d, K, S) /\ IsBlocked(Queue(d)) /\ d.connected /\ ~d.link.terminal
              /\ IsProcedure(d.procedure) /\ d.link.security = security
  <1> DEFINE a == [b EXCEPT !.link.security = security, !.link.admin = admin, !.link.verifying = FALSE]
             h == HandleSubscribe(a, a.subscribed)
             d == SendPendingEventNotifications(h)
  <1>1. /\ Shaped(b) /\ LinkFits(b) /\ SubscriptionsFit(b) /\ b.connected /\ ~b.link.terminal
        /\ RadioFits(Radio(b), K, S) /\ IsProcedure(b.procedure)
    BY DEF IsOpen, IsLive, IsSound
  <1>2. /\ Shaped(a) /\ Radio(a) = Radio(b) /\ a.link.security = security
        /\ a.link.terminal = b.link.terminal /\ a.link.safe = b.link.safe
        /\ a.server = b.server /\ a.connected = b.connected /\ a.cancelled = b.cancelled
        /\ a.table = b.table /\ a.procedure = b.procedure /\ a.subscribed = b.subscribed
        /\ a.pending = b.pending /\ a.informed = b.informed /\ a.free = b.free
    BY <1>1 DEF Shaped, Radio
  <1> HIDE DEF a
  <1>3. /\ Shaped(h) /\ Radio(h) = Radio(a) /\ h.link = a.link
        /\ h.server = a.server /\ h.connected = a.connected /\ h.cancelled = a.cancelled
        /\ h.table = a.table /\ h.procedure = a.procedure /\ h.subscribed = a.subscribed
        /\ h.pending = a.pending /\ h.informed = a.informed \cup a.subscribed /\ h.free = a.free
    BY <1>2 DEF Shaped, Radio, HandleSubscribe
  <1> HIDE DEF h
  <1>4. LinkFits(h)
    BY <1>1, <1>2, <1>3 DEF LinkFits
  <1>5. SubscriptionsFit(h)
    BY <1>1, <1>2, <1>3 DEF SubscriptionsFit
  <1>6. IsSound(h, K, S)
    BY <1>1, <1>2, <1>3, <1>4, <1>5 DEF IsSound
  <1>7. IsSound(d, K, S) /\ SameSession(h, d) /\ IsBlocked(Queue(d))
    BY <1>6, SendPendingFits
  <1>8. d = Accepted(b, security, admin)
    BY DEF Accepted, HandleSessionAccept, a, h
  <1> HIDE DEF d
  <1>9. QED
    BY <1>1, <1>2, <1>3, <1>7, <1>8 DEF SameSession

LEMMA DidCompletePairVerifyFits ==
    ASSUME NEW b, NEW K, NEW S, IsSound(b, K, S), IsBlocked(Queue(b)), b.connected,
           ~b.link.terminal, IsProcedure(b.procedure)
    PROVE  IsOpen(DidCompletePairVerify(b), K, S)
  <1> DEFINE d == DidCompletePairVerify(b)
  <1>1. /\ Shaped(d) /\ Radio(d) = Radio(b) /\ d.link.security = b.link.security
        /\ d.link.terminal = b.link.terminal /\ d.link.safe = b.link.safe /\ d.link.admin = b.link.admin
        /\ d.server = b.server /\ d.connected = b.connected /\ d.cancelled = b.cancelled
        /\ d.table = b.table /\ d.procedure = b.procedure /\ d.subscribed = b.subscribed
        /\ d.pending = b.pending /\ d.informed = b.informed /\ d.free = b.free
        /\ IsTimed(d)
    BY DEF IsSound, DidCompletePairVerify, Shaped, Radio, IsTimed, IsSecured
  <1> HIDE DEF d
  <1>2. LinkFits(d)
    BY <1>1 DEF IsSound, LinkFits
  <1>3. IsSound(d, K, S) /\ IsBlocked(Queue(d))
    BY <1>1, <1>2, SessionKeptFits
  <1>4. QED
    BY <1>1, <1>3 DEF IsOpen, IsLive, d

\* The result of a message of a pairing procedure.
IsAnswered(result, K, S) == IsOpen(result.ble, K, S)

LEMMA OpenIsLinked ==
    ASSUME NEW b, NEW K, NEW S, IsOpen(b, K, S)
    PROVE  /\ Shaped(b) /\ IsSound(b, K, S) /\ IsBlocked(Queue(b)) /\ b.connected
           /\ ~b.link.terminal /\ IsProcedure(b.procedure)
  BY DEF IsOpen, IsLive, IsSound

LEMMA VerifyReadFits ==
    ASSUME instance \in Instances, NEW b, NEW K, NEW S, IsOpen(b, K, S),
           NEW env, env.outcome \in {"next", "accepted", "error", "refused"}
    PROVE  IsAnswered(VerifyRead(b, env), K, S)
  <1> DEFINE a == DidStartPairingProcedure(b)
             v == [a EXCEPT !.link.verifying = FALSE]
             s == Accepted(a, "Secured", env.admin)
  <1>1. IsOpen(a, K, S)
    BY DidStartPairingProcedureFits
  <1> HIDE DEF a
  <1>2. IsOpen(v, K, S)
    BY <1>1, VerifyingFits
  <1>3. /\ IsSound(s, K, S) /\ IsBlocked(Queue(s)) /\ s.connected /\ ~s.link.terminal
        /\ IsProcedure(s.procedure)
    BY <1>1, AcceptedFits
  <1> HIDE DEF v, s
  <1>4. IsOpen(DidCompletePairVerify(v), K, S)
    BY <1>2, OpenIsLinked, DidCompletePairVerifyFits
  <1>5. IsOpen(DidCompletePairVerify(s), K, S)
    BY <1>3, DidCompletePairVerifyFits
  <1>6. \/ VerifyRead(b, env).ble = b
        \/ VerifyRead(b, env).ble = v
        \/ VerifyRead(b, env).ble = a
        \/ VerifyRead(b, env).ble = DidCompletePairVerify(v)
        \/ VerifyRead(b, env).ble = DidCompletePairVerify(s)
    BY DEF VerifyRead, Ok, Failed, a, v, s
  <1>7. QED
    BY <1>1, <1>2, <1>4, <1>5, <1>6 DEF IsAnswered

LEMMA SetupReadFits ==
    ASSUME instance \in Instances, NEW b, NEW K, NEW S, IsOpen(b, K, S), NEW env
    PROVE  IsAnswered(SetupRead(b, env), K, S)
  <1> DEFINE s == Accepted(b, "Transient", FALSE)
  <1>1. /\ IsSound(s, K, S) /\ IsBlocked(Queue(s)) /\ s.connected /\ ~s.link.terminal
        /\ IsProcedure(s.procedure) /\ s.link.security = "Transient"
    BY AcceptedFits
  <1> HIDE DEF s
  <1>2. IsOpen(s, K, S)
    BY <1>1 DEF IsOpen, IsLive, IsTimed
  <1>3. SetupRead(b, env).ble \in {b, s}
    BY DEF SetupRead, Ok, Failed, s
  <1>4. QED
    BY <1>2, <1>3 DEF IsAnswered

LEMMA PairingReadFits ==
    ASSUME instance \in Instances, NEW b, NEW K, NEW S, IsOpen(b, K, S), NEW c,
           NEW env, env.outcome \in {"next", "accepted", "error", "refused"}
    PROVE  IsAnswered(PairingRead(b, c, env), K, S)
  BY VerifyReadFits, SetupReadFits DEF PairingRead

LEMMA PairingWrittenFits ==
    ASSUME NEW b, NEW K, NEW S, IsOpen(b, K, S), NEW c, NEW env
    PROVE  IsAnswered(PairingWritten(b, c, env), K, S)
  <1> DEFINE d == IF c.procedure = "PairVerify" /\ b.link.verifying THEN DidStartPairingProcedure(b) ELSE b
             v == [d EXCEPT !.link.verifying = FALSE]
             w == [d EXCEPT !.link.verifying = c.procedure = "PairVerify"]
  <1>1. IsOpen(d, K, S)
    BY DidStartPairingProcedureFits
  <1> HIDE DEF d
  <1>2. IsOpen(v, K, S) /\ IsOpen(w, K, S)
    BY <1>1, VerifyingFits
  <1>3. PairingWritten(b, c, env).ble \in {v, w}
    BY DEF PairingWritten, Ok, Failed, d
  <1> HIDE DEF v, w
  <1>4. QED
    BY <1>2, <1>3 DEF IsAnswered

\* The value has been read, or not.
LEMMA AfterReadingFits ==
    ASSUME NEW K, NEW S, NEW result, IsAnswered(result, K, S), NEW total
    PROVE  HasAnswer(AfterReading(result, total), K, S)
  BY RespondFits DEF AfterReading, IsAnswered

LEMMA ReadValueFits ==
    ASSUME instance \in Instances, NEW b, NEW K, NEW S, IsOpen(b, K, S), NEW c,
           NEW env, env.outcome \in {"next", "accepted", "error", "refused"}, NEW total
    PROVE  HasAnswer(ReadValue(b, c, env, total), K, S)
  <1> DEFINE d == [b EXCEPT !.procedure.scratch = "response"]
             r == IF c.procedure = "None" THEN Ok(d) ELSE PairingRead(d, c, env)
  <1>1. IsOpen(d, K, S)
    BY ScratchFits
  <1>2. IsAnswered(Ok(d), K, S)
    BY <1>1 DEF IsAnswered, Ok
  <1> HIDE DEF d
  <1>3. IsAnswered(r, K, S)
    BY <1>1, <1>2, PairingReadFits
  <1> HIDE DEF r
  <1>4. HasAnswer(AfterReading(r, total), K, S)
    BY <1>3, AfterReadingFits
  <1>5. /\ HasAnswer(Respond(b, "Insufficient", 0), K, S)
        /\ HasAnswer(Respond(b, "InsufficientAuthentication", 0), K, S)
    BY RespondFits
  <1>6. QED
    BY <1>4, <1>5 DEF ReadValue, r, d

\* An event is told to the controller, and counted.
LEMMA DidRaiseEventFits ==
    ASSUME instance \in Instances, NEW b, NEW K, NEW S, IsSound(b, K, S), IsBlocked(Queue(b)),
           NEW c, c.name # NoChar, NEW writing, NEW readable \in BOOLEAN, NEW value
    PROVE  LET d == DidRaiseEvent(b, c, writing, readable, value)
           IN /\ IsSound(d, K, S) /\ IsBlocked(Queue(d))
              /\ d.link = b.link /\ d.connected = b.connected /\ d.procedure = b.procedure
              /\ ~b.connected => Counted(b, d) /\ (c.disconnected /\ readable => d.store.didIncrement)
  <1> DEFINE a == [b EXCEPT !.pending = @ \cup {c.name}]
             n == Notified(b, c, writing)
             d == CountedEvent(n, c, readable, value)
  <1>1. Shaped(b) /\ RadioFits(Radio(b), K, S) /\ LinkFits(b) /\ SubscriptionsFit(b)
    BY DEF IsSound
  <1>2. IsSound(n, K, S) /\ SameSession(b, n) /\ IsBlocked(Queue(n)) /\ (~b.connected => n = b)
    <2>1. CASE ~c.notify \/ ~b.connected \/ c.name = writing
      BY <2>1 DEF Notified, SameSession
    <2>2. CASE ~(~c.notify \/ ~b.connected \/ c.name = writing)
      <3>1. /\ Shaped(a) /\ Radio(a) = Radio(b) /\ SameSession(b, a) /\ a.free = b.free
        BY <1>1 DEF Shaped, Radio, SameSession
      <3>2. n = SendPendingEventNotifications(a)
        BY <2>2 DEF Notified
      <3> HIDE DEF a
      <3>3. IsSound(a, K, S)
        BY <1>1, <3>1, SameSessionFits DEF SubscriptionsFit
      <3> DEFINE e == SendPendingEventNotifications(a)
      <3>4. IsSound(e, K, S) /\ SameSession(a, e) /\ IsBlocked(Queue(e))
        BY <3>3, SendPendingFits
      <3> HIDE DEF n, e
      <3>5. n = e
        BY <3>2 DEF e
      <3>6. QED
        BY <2>2, <3>1, <3>4, <3>5 DEF SameSession
    <2>3. QED
      BY <2>1, <2>2
  <1> HIDE DEF n
  <1>3. Shaped(n) /\ RadioFits(Radio(n), K, S) /\ n.free \in Nat
    BY <1>2 DEF IsSound, SubscriptionsFit
  <1>4. /\ Shaped(d) /\ RadioFits(Radio(d), K, S) /\ SameLink(n, d)
        /\ ~n.connected => Counted(n, d) /\ (c.disconnected /\ readable => d.store.didIncrement)
    BY <1>3, CountedEventFits
  <1>5. d = DidRaiseEvent(b, c, writing, readable, value)
    BY DEF DidRaiseEvent, n
  <1> HIDE DEF d
  <1>6. SameSession(n, d) /\ d.free = n.free /\ Queue(d) = Queue(n)
    BY <1>4 DEF SameLink, SameSession, Queue
  <1>7. IsSound(d, K, S)
    BY <1>2, <1>3, <1>4, <1>6, SameSessionFits
  <1>8. d.link = b.link /\ d.connected = b.connected /\ d.procedure = b.procedure
    BY <1>2, <1>6 DEF SameSession
  <1>9. ~b.connected => Counted(b, d) /\ (c.disconnected /\ readable => d.store.didIncrement)
    BY <1>2, <1>4
  <1>10. QED
    BY <1>2, <1>5, <1>6, <1>7, <1>8, <1>9

LEMMA TableIsNamed ==
    ASSUME instance \in Instances, NEW i \in 1 .. Len(instance.table)
    PROVE  instance.table[i].name # NoChar
  <1>1. instance.table \in Seq(Characteristic)
    BY InstancesAssumption
  <1>2. instance.table[i] \in Characteristic
    BY <1>1
  <1>3. QED
    BY <1>2 DEF Characteristic

\* The application's handler.
LEMMA HandledFits ==
    ASSUME instance \in Instances, NEW b, NEW K, NEW S, IsOpen(b, K, S), NEW c, NEW value, NEW env
    PROVE  IsOpen(Handled(b, c, value, env), K, S)
  <1> DEFINE a == [b EXCEPT !.seen.applied = value]
             raised == {e \in {b.table[i] : i \in 1 .. Len(b.table)} : e.name = env.raises}
             r == CHOOSE e \in raised : TRUE
             t == TRUE
             d == DidRaiseEvent(a, r, c.name, t, 0)
  <1>1. IsOpen(a, K, S)
    BY ScratchFits
  <1> HIDE DEF a
  <1>2. CASE raised = {}
    <2>1. Handled(b, c, value, env) = a
      BY <1>2 DEF Handled, a
    <2>2. QED
      BY <1>1, <2>1
  <1>3. CASE raised # {}
    <2>1. Handled(b, c, value, env) = d
      BY <1>3 DEF Handled, a
    <2>2. r \in raised
      BY <1>3
    <2>3. b.table = instance.table
      BY DEF IsOpen, IsLive, IsSound, SubscriptionsFit
    <2>4. r.name # NoChar
      BY <2>2, <2>3, TableIsNamed
    <2>5. IsSound(a, K, S) /\ IsBlocked(Queue(a))
      BY <1>1, OpenIsLinked
    <2> HIDE DEF r
    <2>6. t \in BOOLEAN
      OBVIOUS
    <2> HIDE DEF t
    <2>7. /\ IsSound(d, K, S) /\ IsBlocked(Queue(d))
          /\ d.link = a.link /\ d.connected = a.connected /\ d.procedure = a.procedure
      BY <2>4, <2>5, <2>6, DidRaiseEventFits
    <2> HIDE DEF d
    <2>8. IsOpen(d, K, S)
      BY <1>1, <2>7 DEF IsOpen, IsLive, IsTimed
    <2>9. QED
      BY <2>1, <2>8
  <1>4. QED
    BY <1>2, <1>3

LEMMA ValueWrittenFits ==
    ASSUME instance \in Instances, NEW K, NEW S, NEW result, IsAnswered(result, K, S), NEW c,
           NEW env, env.outcome \in {"next", "accepted", "error", "refused"}, NEW isTimed
    PROVE  HasAnswer(ValueWritten(result, c, env, isTimed), K, S)
  <1>1. IsOpen(result.ble, K, S)
    BY DEF IsAnswered
  <1>2. /\ HasAnswer(Respond(result.ble, "InvalidRequest", 0), K, S)
        /\ HasAnswer(Respond(result.ble, "UnsupportedPDU", 0), K, S)
        /\ HasAnswer(Respond(result.ble, "Success", 0), K, S)
    BY <1>1, RespondFits
  <1>3. HasAnswer(ReadValue(result.ble, c, env, env.total), K, S)
    BY <1>1, ReadValueFits
  <1>4. QED
    BY <1>2, <1>3 DEF ValueWritten

LEMMA WriteValueFits ==
    ASSUME instance \in Instances, NEW b, NEW K, NEW S, IsOpen(b, K, S), NEW c, NEW value,
           NEW env, env.outcome \in {"next", "accepted", "error", "refused"}, NEW isTimed
    PROVE  HasAnswer(WriteValue(b, c, value, env, isTimed), K, S)
  <1> DEFINE r == IF value = "none" THEN Failed(b)
                  ELSE IF c.procedure # "None" THEN PairingWritten(b, c, env)
                  ELSE IF isTimed /\ env.expired THEN Ok(b)
                  ELSE Ok(Handled(b, c, value, env))
  <1>1. IsAnswered(PairingWritten(b, c, env), K, S)
    BY PairingWrittenFits
  <1>2. IsOpen(Handled(b, c, value, env), K, S)
    BY HandledFits
  <1>3. /\ IsAnswered(Ok(b), K, S) /\ IsAnswered(Failed(b), K, S)
        /\ IsAnswered(Ok(Handled(b, c, value, env)), K, S)
    BY <1>2 DEF IsAnswered, Ok, Failed
  <1>4. IsAnswered(r, K, S)
    BY <1>1, <1>3
  <1>5. WriteValue(b, c, value, env, isTimed) =
            IF ~SecurityFits(b, c) THEN Respond(b, "Insufficient", 0)
            ELSE IF ~MayBeTold(b, c) THEN Respond(b, "InsufficientAuthentication", 0)
            ELSE IF c.timed /\ ~isTimed THEN Respond(b, "InvalidRequest", 0)
            ELSE ValueWritten(r, c, env, isTimed)
    BY DEF WriteValue
  <1> HIDE DEF r
  <1>6. HasAnswer(ValueWritten(r, c, env, isTimed), K, S)
    BY <1>4, ValueWrittenFits
  <1>7. /\ HasAnswer(Respond(b, "Insufficient", 0), K, S)
        /\ HasAnswer(Respond(b, "InsufficientAuthentication", 0), K, S)
        /\ HasAnswer(Respond(b, "InvalidRequest", 0), K, S)
    BY RespondFits
  <1>8. QED
    BY <1>5, <1>6, <1>7

LEMMA RespondWithBodyFits ==
    ASSUME NEW b, NEW K, NEW S, IsOpen(b, K, S), NEW total
    PROVE  HasAnswer(RespondWithBody(b, total), K, S)
  <1> DEFINE d == [b EXCEPT !.procedure.scratch = "response"]
  <1>1. IsOpen(d, K, S)
    BY ScratchFits
  <1> HIDE DEF d
  <1>2. HasAnswer(Respond(d, "Success", total), K, S)
    BY <1>1, RespondFits
  <1>3. QED
    BY <1>2 DEF RespondWithBody, d

LEMMA SignaturesFit ==
    ASSUME NEW b, NEW K, NEW S, IsOpen(b, K, S), NEW c, NEW env
    PROVE  /\ HasAnswer(ReadServiceSignature(b, c, env), K, S)
           /\ HasAnswer(ReadSignature(b, c, env), K, S)
  <1>1. HasAnswer(Respond(b, "UnsupportedPDU", 0), K, S) /\ HasAnswer(RespondWithBody(b, env.total), K, S)
    BY RespondFits, RespondWithBodyFits
  <1>2. QED
    BY <1>1 DEF ReadServiceSignature, ReadSignature

\* What the key-value store keeps besides the GSN and the key is changed.
LEMMA StoredFits ==
    ASSUME NEW b, NEW d, NEW K, NEW S, IsOpen(b, K, S), SameQueue(b, d), Shaped(d),
           Radio(d) = Radio(b), d.procedure = b.procedure
    PROVE  IsOpen(d, K, S)
  <1>1. RadioFits(Radio(d), K, S)
    BY DEF IsOpen, IsLive, IsSound
  <1>2. IsLive(d, K, S)
    BY <1>1, SameQueueFits DEF IsOpen
  <1>3. QED
    BY <1>2 DEF IsOpen, SameQueue

LEMMA ConfigureCharacteristicFits ==
    ASSUME NEW b, NEW K, NEW S, IsOpen(b, K, S), NEW c, NEW body
    PROVE  HasAnswer(ConfigureCharacteristic(b, c, body), K, S)
  <1> DEFINE d == [b EXCEPT !.store.enabled = @ \ {c.name}]
             e == [b EXCEPT !.store.enabled = @ \cup {c.name}]
             r == Configure(b, c, body)
  <1>1. Shaped(b)
    BY OpenIsLinked
  <1>2. /\ SameQueue(b, d) /\ Shaped(d) /\ Radio(d) = Radio(b) /\ d.procedure = b.procedure
        /\ SameQueue(b, e) /\ Shaped(e) /\ Radio(e) = Radio(b) /\ e.procedure = b.procedure
    BY <1>1 DEF Shaped, SameQueue, Radio
  <1>3. r.ble \in {b, d, e}
    BY DEF Configure, Ok, Failed
  <1> HIDE DEF d, e, r
  <1>4. IsOpen(d, K, S) /\ IsOpen(e, K, S)
    BY <1>2, StoredFits
  <1>5. IsOpen(r.ble, K, S)
    BY <1>3, <1>4
  <1>6. /\ HasAnswer(Respond(b, "UnsupportedPDU", 0), K, S)
        /\ HasAnswer(Respond(b, "InvalidRequest", 0), K, S)
        /\ HasAnswer(RespondWithBody(r.ble, 1), K, S)
    BY <1>5, RespondFits, RespondWithBodyFits
  <1>7. QED
    BY <1>6, <1>5, RespondFits DEF ConfigureCharacteristic, r

LEMMA ConfigureServiceFits ==
    ASSUME NEW b, NEW K, NEW S, IsOpen(b, K, S), NEW c
    PROVE  HasAnswer(ConfigureService(b, c), K, S)
  <1> DEFINE d == ConfigureProtocol(b)
  <1>1. Shaped(b) /\ RadioFits(Radio(b), K, S) /\ b.connected
    BY OpenIsLinked DEF IsSound
  <1>2. Shaped(d) /\ RadioFits(Radio(d), K, S) /\ SameLink(b, d)
    BY <1>1, GeneratedFits
  <1> HIDE DEF d
  <1>3. SameQueue(b, d) /\ d.procedure = b.procedure
    BY <1>2 DEF SameLink, SameQueue
  <1>4. IsLive(d, K, S)
    BY <1>2, <1>3, SameQueueFits DEF IsOpen
  <1>5. IsOpen(d, K, S)
    BY <1>3, <1>4 DEF IsOpen, SameQueue
  <1>6. HasAnswer(Respond(d, "Success", 0), K, S) /\ HasAnswer(Respond(b, "UnsupportedPDU", 0), K, S)
    BY <1>5, RespondFits
  <1>7. QED
    BY <1>6 DEF ConfigureService, d

LEMMA InformFits ==
    ASSUME NEW b, NEW K, NEW S, IsOpen(b, K, S), NEW c, NEW env,
           NEW r, r.opcode \in {"Token", "TokenUpdate", "Info"}
    PROVE  HasAnswer(Inform(b, c, r, env), K, S)
  <1> DEFINE d == [b EXCEPT !.procedure.scratch = "response"]
             u == [b EXCEPT !.store.token = r.body]
             token == GetTokenResponse(d, env)
             update == HandleTokenUpdateRequest(b, r.body, env)
             info == GetInfoResponse(d, env)
  <1>1. Shaped(b)
    BY OpenIsLinked
  <1>2. SameQueue(b, u) /\ Shaped(u) /\ Radio(u) = Radio(b) /\ u.procedure = b.procedure
    BY <1>1 DEF Shaped, SameQueue, Radio
  <1>3. token.ble = d /\ info.ble = d /\ update.ble \in {b, u}
    BY DEF GetTokenResponse, GetInfoResponse, HandleTokenUpdateRequest, UpdateToken, Ok, Failed
  <1> HIDE DEF u
  <1>4. IsOpen(d, K, S) /\ IsOpen(u, K, S)
    BY <1>2, ScratchFits, StoredFits
  <1>5. Inform(b, c, r, env) \in
            {Respond(b, "UnsupportedPDU", 0), AfterReading(token, env.total),
             AfterReading(update, 0), AfterReading(info, env.total)}
    BY DEF Inform
  <1> HIDE DEF d, token, update, info
  <1>6. IsAnswered(token, K, S) /\ IsAnswered(update, K, S) /\ IsAnswered(info, K, S)
    BY <1>3, <1>4 DEF IsAnswered
  <1>7. /\ HasAnswer(AfterReading(token, env.total), K, S)
        /\ HasAnswer(AfterReading(update, 0), K, S)
        /\ HasAnswer(AfterReading(info, env.total), K, S)
    BY <1>6, AfterReadingFits
  <1>8. HasAnswer(Respond(b, "UnsupportedPDU", 0), K, S)
    BY RespondFits
  <1>9. QED
    BY <1>5, <1>7, <1>8

LEMMA OperationFits ==
    ASSUME instance \in Instances, NEW b, NEW K, NEW S, IsOpen(b, K, S), NEW c,
           NEW r, r.opcode \in {"Read", "Write", "TimedWrite", "Configuration", "ProtocolConfiguration"},
           NEW env, env.outcome \in {"next", "accepted", "error", "refused"}
    PROVE  HasAnswer(Operation(b, c, r, env), K, S)
  <1> DEFINE a == [b EXCEPT !.procedure.multi = "TimedWrite"]
             s == IF r.total = 0 THEN "none" ELSE a.procedure.scratch
             d == [a EXCEPT !.procedure.scratch = s]
             f == FALSE
             written == WriteValue(b, c, r.body, env, f)
  <1>1. IsOpen(a, K, S)
    BY ScratchFits
  <1>8. PrepareWrite(b, r) = Respond(d, "Success", 0)
    <2>1. Shaped(b) /\ IsProcedure(b.procedure)
      BY DEF IsOpen, IsLive, IsSound
    <2>2. /\ DOMAIN a = DOMAIN b /\ DOMAIN a.procedure = DOMAIN b.procedure
          /\ a.procedure.scratch = b.procedure.scratch
      BY <2>1 DEF Shaped, IsProcedure
    <2>3. d = [b EXCEPT !.procedure.multi = "TimedWrite",
                        !.procedure.scratch = IF r.total = 0 THEN "none" ELSE @]
      BY <2>1, <2>2 DEF Shaped, IsProcedure
    <2>4. QED
      BY <2>3 DEF PrepareWrite
  <1> HIDE DEF a, s
  <1>9. IsOpen(d, K, S)
    BY <1>1, ScratchFits
  <1> HIDE DEF d
  <1>2. HasAnswer(Respond(d, "Success", 0), K, S)
    BY <1>9, RespondFits
  <1>3. Operation(b, c, r, env) \in
            {ReadValue(b, c, env, env.total), written, PrepareWrite(b, r),
             ConfigureCharacteristic(b, c, r.body), ConfigureService(b, c)}
    BY DEF Operation
  <1> HIDE DEF f
  <1>4. HasAnswer(written, K, S)
    BY WriteValueFits
  <1> HIDE DEF written
  <1>5. HasAnswer(PrepareWrite(b, r), K, S)
    BY <1>2, <1>8
  <1>6. /\ HasAnswer(ReadValue(b, c, env, env.total), K, S)
        /\ HasAnswer(ConfigureCharacteristic(b, c, r.body), K, S)
        /\ HasAnswer(ConfigureService(b, c), K, S)
    BY ReadValueFits, ConfigureCharacteristicFits, ConfigureServiceFits
  <1>7. QED
    BY <1>3, <1>4, <1>5, <1>6

LEMMA FailedFits ==
    ASSUME NEW b, NEW K, NEW S, IsOpen(b, K, S)
    PROVE  HasAnswer(Failed(b), K, S)
  BY DEF HasAnswer, Failed

LEMMA ExecuteWriteFits ==
    ASSUME instance \in Instances, NEW b, NEW K, NEW S, IsOpen(b, K, S), NEW c,
           NEW env, env.outcome \in {"next", "accepted", "error", "refused"}
    PROVE  HasAnswer(ExecuteWrite(b, c, env), K, S)
  <1> DEFINE d == [b EXCEPT !.procedure.multi = "None"]
             t == TRUE
             written == WriteValue(d, c, b.procedure.scratch, env, t)
  <1>1. IsOpen(d, K, S)
    BY ScratchFits
  <1>2. ExecuteWrite(b, c, env) \in {Failed(b), written}
    BY DEF ExecuteWrite
  <1> HIDE DEF d, t
  <1>3. HasAnswer(written, K, S)
    BY <1>1, WriteValueFits
  <1> HIDE DEF written
  <1>4. QED
    BY <1>2, <1>3, FailedFits

\* A request that has been received is answered, or an error.
LEMMA ProcessTransactionFits ==
    ASSUME instance \in Instances, NEW b, NEW K, NEW S, IsOpen(b, K, S), NEW c,
           b.procedure.transaction.request.opcode \in Opcodes,
           NEW env, env.outcome \in {"next", "accepted", "error", "refused"}
    PROVE  HasAnswer(ProcessTransaction(b, c, env), K, S)
  <1> DEFINE r == b.procedure.transaction.request
  <1>1. /\ HasAnswer(Respond(b, "InvalidRequest", 0), K, S)
        /\ HasAnswer(Respond(b, "UnsupportedPDU", 0), K, S)
        /\ HasAnswer(Respond(b, "InvalidInstanceID", 0), K, S)
        /\ HasAnswer(Failed(b), K, S)
    BY RespondFits, FailedFits
  <1>2. HasAnswer(ExecuteWrite(b, c, env), K, S)
    BY ExecuteWriteFits
  <1>3. HasAnswer(ReadServiceSignature(b, c, env), K, S) /\ HasAnswer(ReadSignature(b, c, env), K, S)
    BY SignaturesFit
  <1>4. r.opcode \in {"Token", "TokenUpdate", "Info"} => HasAnswer(Inform(b, c, r, env), K, S)
    BY InformFits
  <1>5. r.opcode \in {"Read", "Write", "TimedWrite", "Configuration", "ProtocolConfiguration"}
        => HasAnswer(Operation(b, c, r, env), K, S)
    BY OperationFits
  <1>6. \/ ProcessTransaction(b, c, env) \in
               {Respond(b, "InvalidRequest", 0), Respond(b, "UnsupportedPDU", 0),
                Respond(b, "InvalidInstanceID", 0), Failed(b), ExecuteWrite(b, c, env),
                ReadServiceSignature(b, c, env), ReadSignature(b, c, env)}
        \/ /\ r.opcode \in {"Token", "TokenUpdate", "Info"}
           /\ ProcessTransaction(b, c, env) = Inform(b, c, r, env)
        \/ /\ r.opcode \in {"Read", "Write", "TimedWrite", "Configuration", "ProtocolConfiguration"}
           /\ ProcessTransaction(b, c, env) = Operation(b, c, r, env)
    BY DEF ProcessTransaction, Opcodes
  <1> HIDE DEF r
  <1>7. QED
    BY <1>1, <1>2, <1>3, <1>4, <1>5, <1>6

-----------------------------------------------------------------------------
(* Procedures *)

\* The end of the session ends what the application was told, and starts the end of the link.
LEMMA SessionInvalidateFits ==
    ASSUME NEW b, NEW K, NEW S, IsSound(b, K, S), NEW terminate \in BOOLEAN
    PROVE  LET d == SessionInvalidate(b, terminate)
           IN /\ IsSound(d, K, S) /\ IsTimed(d) /\ IsBlocked(Queue(d))
              /\ d.connected = b.connected /\ d.procedure = b.procedure /\ d.store = b.store
              /\ (d.link.terminal <=> terminate \/ b.link.terminal)
              /\ d.link.security = "None"
  <1> DEFINE h == HandleSessionInvalidate(b)
             l == [NoLink EXCEPT !.terminal = @ \/ terminate \/ b.link.terminal, !.safe = b.link.safe]
             d == [h EXCEPT !.link = l, !.cancelled = @ \/ (terminate /\ b.link.safe /\ b.connected)]
  <1>1. Shaped(b) /\ RadioFits(Radio(b), K, S) /\ LinkFits(b) /\ SubscriptionsFit(b)
    BY DEF IsSound
  <1>2. /\ Shaped(h) /\ Radio(h) = Radio(b) /\ h.informed = {}
        /\ h.server = b.server /\ h.connected = b.connected /\ h.cancelled = b.cancelled
        /\ h.table = b.table /\ h.procedure = b.procedure /\ h.subscribed = b.subscribed
        /\ h.pending = b.pending /\ h.free = b.free /\ h.store = b.store
    <2>1. CASE b.link.security = "None"
      BY <1>1, <2>1 DEF HandleSessionInvalidate, SubscriptionsFit
    <2>2. CASE b.link.security # "None"
      BY <1>1, <2>2 DEF HandleSessionInvalidate, HandleUnsubscribe, Shaped, Radio, SubscriptionsFit
    <2>3. QED
      BY <2>1, <2>2
  <1>3. d = SessionInvalidate(b, terminate)
    BY DEF SessionInvalidate
  <1>4. /\ DOMAIN l = {"security", "admin", "terminal", "safe", "linkTimer", "pairingTimer", "verifying"}
        /\ l.security = "None" /\ l.safe = b.link.safe /\ (l.terminal <=> terminate \/ b.link.terminal)
    BY DEF NoLink
  <1> HIDE DEF h, l
  <1>5. /\ Shaped(d) /\ Radio(d) = Radio(h) /\ d.link = l /\ d.informed = h.informed
        /\ d.server = h.server /\ d.connected = h.connected
        /\ (d.cancelled <=> h.cancelled \/ (terminate /\ b.link.safe /\ b.connected))
        /\ d.table = h.table /\ d.procedure = h.procedure /\ d.subscribed = h.subscribed
        /\ d.pending = h.pending /\ d.free = h.free /\ d.store = h.store
    BY <1>2, <1>4 DEF Shaped, Radio
  <1> HIDE DEF d
  <1>6. LinkFits(d)
    BY <1>1, <1>2, <1>4, <1>5 DEF LinkFits
  <1>7. SubscriptionsFit(d)
    BY <1>1, <1>2, <1>4, <1>5 DEF SubscriptionsFit, IsSecured
  <1>8. IsSound(d, K, S)
    BY <1>1, <1>2, <1>5, <1>6, <1>7 DEF IsSound
  <1>9. IsTimed(d) /\ IsBlocked(Queue(d))
    BY <1>4, <1>5 DEF IsTimed, IsBlocked, Queue
  <1>10. QED
    BY <1>2, <1>3, <1>4, <1>5, <1>8, <1>9

\* What holds between callbacks: a link that still serves requests has a proper procedure, and
\* so has the next one.
IsAtRest(b, K, S) ==
    /\ IsSound(b, K, S) /\ IsTimed(b) /\ IsBlocked(Queue(b))
    /\ (b.link.terminal /\ b.connected) \/ (IsProcedure(b.procedure) /\ RequestFits(b.procedure))

\* What a callback makes of a request; an error ends the session.
IsResult(result, K, S) ==
    /\ IsSound(result.ble, K, S) /\ result.ble.connected
    /\ ~result.error => /\ IsTimed(result.ble)
                        /\ ~result.ble.link.terminal =>
                               IsProcedure(result.ble.procedure) /\ RequestFits(result.ble.procedure)

LEMMA OpenIsResult ==
    ASSUME NEW b, NEW K, NEW S, IsOpen(b, K, S), RequestFits(b.procedure)
    PROVE  IsResult(Ok(b), K, S)
  BY DEF IsOpen, IsLive, IsResult, Ok

LEMMA FailedIsResult ==
    ASSUME NEW b, NEW K, NEW S, IsSound(b, K, S), b.connected
    PROVE  IsResult(Failed(b), K, S)
  BY DEF IsResult, Failed

LEMMA DidStartBLEProcedureFits ==
    ASSUME NEW b, NEW K, NEW S, IsSound(b, K, S), b.connected
    PROVE  LET d == DidStartBLEProcedure(b)
           IN /\ IsSound(d, K, S) /\ IsTimed(d) /\ d.connected
              /\ (IsBlocked(Queue(b)) => IsBlocked(Queue(d)))
              /\ d.link.terminal = b.link.terminal /\ d.procedure = b.procedure
  <1> DEFINE d == DidStartBLEProcedure(b)
  <1>1. Shaped(b) /\ LinkFits(b)
    BY DEF IsSound
  <1>2. /\ Shaped(d) /\ Radio(d) = Radio(b) /\ IsTimed(d)
        /\ d.link.terminal = b.link.terminal /\ d.link.safe = b.link.safe
        /\ d.link.security = b.link.security /\ d.link.admin = b.link.admin
        /\ d.server = b.server /\ d.connected = b.connected /\ d.cancelled = b.cancelled
        /\ d.table = b.table /\ d.procedure = b.procedure /\ d.subscribed = b.subscribed
        /\ d.pending = b.pending /\ d.informed = b.informed /\ d.free = b.free
    BY <1>1 DEF DidStartBLEProcedure, Shaped, Radio, LinkFits, IsTimed, IsSecured
  <1> HIDE DEF d
  <1>3. LinkFits(d)
    BY <1>1, <1>2 DEF LinkFits
  <1>4. IsSound(d, K, S) /\ (IsBlocked(Queue(b)) => IsBlocked(Queue(d)))
    BY <1>2, <1>3, SessionKeptFits
  <1>5. QED
    BY <1>2, <1>4 DEF d

\* A procedure is replaced.
LEMMA AttachedFits ==
    ASSUME NEW b, NEW K, NEW S, Shaped(b), NEW p
    PROVE  LET d == [b EXCEPT !.procedure = p]
           IN /\ Shaped(d) /\ d.procedure = p /\ d.link = b.link /\ d.connected = b.connected
              /\ d.store = b.store
              /\ (IsSound(b, K, S) => IsSound(d, K, S))
              /\ (IsLive(b, K, S) => IsLive(d, K, S))
              /\ (IsBlocked(Queue(b)) => IsBlocked(Queue(d)))
  <1> DEFINE d == [b EXCEPT !.procedure = p]
  <1>1. /\ SameQueue(b, d) /\ Shaped(d) /\ d.failed = b.failed /\ d.adv = b.adv /\ d.air = b.air
        /\ d.store = b.store /\ d.sessions = b.sessions /\ d.procedure = p
    BY DEF Shaped, SameQueue
  <1> HIDE DEF d
  <1>2. /\ (IsSound(b, K, S) => IsSound(d, K, S))
        /\ (IsLive(b, K, S) => IsLive(d, K, S))
        /\ (IsBlocked(Queue(b)) => IsBlocked(Queue(d)))
    BY <1>1, ElsewhereFits
  <1>3. QED
    BY <1>1, <1>2 DEF SameQueue, d

LEMMA CreatedFits ==
    \A name, room :
        /\ IsTransaction(CreateTransaction(room))
        /\ CreateTransaction(room).state = "WaitingForInitialWrite"
        /\ IsProcedure(AttachTo(name)) /\ RequestFits(AttachTo(name))
        /\ IsProcedure(NoProcedure) /\ RequestFits(NoProcedure)
  BY DEF IsProcedure, IsTransaction, RequestFits, AttachTo, NoProcedure, CreateTransaction, NoRequest

\* The first write of a procedure begins it.
LEMMA BegunFits ==
    ASSUME NEW b, NEW K, NEW S, IsOpen(b, K, S), RequestFits(b.procedure), NEW c
    PROVE  LET d == Begun(b, c)
           IN IsOpen(d, K, S) /\ RequestFits(d.procedure)
  <1> DEFINE f == FALSE
             i == SessionInvalidate(b, f)
             r == ResetProcedure(i)
             e == IF IsSecured(b) /\ DropsSecuritySession(c) THEN r ELSE b
             g == [e EXCEPT !.procedure.startedSecured = IsSecured(e), !.procedure.timer = TRUE]
             d == DidStartBLEProcedure(g)
  <1>1. /\ Shaped(b) /\ IsSound(b, K, S) /\ IsBlocked(Queue(b)) /\ b.connected
        /\ ~b.link.terminal /\ IsProcedure(b.procedure)
    BY OpenIsLinked
  <1>2. f \in BOOLEAN /\ ~f
    OBVIOUS
  <1>3. d = Begun(b, c)
    BY DEF Begun
  <1> HIDE DEF f
  <1>4. /\ IsSound(i, K, S) /\ IsBlocked(Queue(i)) /\ i.connected = b.connected
        /\ (i.link.terminal <=> f \/ b.link.terminal)
    BY <1>1, <1>2, SessionInvalidateFits
  <1> HIDE DEF i
  <1>5. Shaped(i) /\ i.connected /\ ~i.link.terminal
    BY <1>1, <1>2, <1>4 DEF IsSound
  <1> DEFINE p == AttachTo(i.procedure.attached)
             q == [i EXCEPT !.procedure = p]
  <1>6. r = q
    BY DEF ResetProcedure
  <1>7. IsProcedure(p) /\ RequestFits(p)
    BY CreatedFits
  <1> HIDE DEF p
  <1>8. IsSound(q, K, S) /\ IsBlocked(Queue(q)) /\ q.connected /\ ~q.link.terminal /\ q.procedure = p
    BY <1>4, <1>5, AttachedFits
  <1> HIDE DEF q, r
  <1>9. /\ IsSound(e, K, S) /\ IsBlocked(Queue(e)) /\ e.connected /\ ~e.link.terminal
        /\ IsProcedure(e.procedure) /\ RequestFits(e.procedure)
    BY <1>1, <1>6, <1>7, <1>8
  <1> HIDE DEF e
  <1>10. /\ SameQueue(e, g) /\ Shaped(g) /\ g.failed = e.failed /\ g.adv = e.adv /\ g.air = e.air
         /\ g.store = e.store /\ g.sessions = e.sessions
    BY <1>9 DEF IsSound, Shaped, SameQueue
  <1>11. DOMAIN g.procedure = DOMAIN e.procedure /\ g.procedure.transaction = e.procedure.transaction
    BY <1>9 DEF IsSound, Shaped, IsProcedure
  <1> HIDE DEF g
  <1>12. IsProcedure(g.procedure) /\ RequestFits(g.procedure)
    BY <1>9, <1>11 DEF IsProcedure, RequestFits
  <1>13. IsSound(g, K, S) /\ IsBlocked(Queue(g))
    BY <1>9, <1>10, ElsewhereFits
  <1>14. g.connected /\ ~g.link.terminal
    BY <1>9, <1>10 DEF SameQueue
  <1>15. /\ IsSound(d, K, S) /\ IsTimed(d) /\ d.connected /\ IsBlocked(Queue(d))
         /\ d.link.terminal = g.link.terminal /\ d.procedure = g.procedure
    BY <1>13, <1>14, DidStartBLEProcedureFits
  <1> HIDE DEF d
  <1>16. IsOpen(d, K, S) /\ RequestFits(d.procedure)
    BY <1>12, <1>14, <1>15 DEF IsOpen, IsLive
  <1>17. QED
    BY <1>3, <1>16

\* What the transaction makes of a fragment.
LEMMA HandleWriteFits ==
    ASSUME NEW t, IsTransaction(t), t.state = "ReadingRequest" => t.request.opcode \in Opcodes,
           NEW pdu, pdu.kind = "first" => pdu.opcode \in Opcodes
    PROVE  LET result == HandleWrite(t, pdu)
               u == result.transaction
           IN /\ IsTransaction(u)
              /\ result.error = "None" /\ u.state = "ReadingRequest" => u.request.opcode \in Opcodes
  <1> DEFINE result == HandleWrite(t, pdu)
             u == result.transaction
             v == [t EXCEPT !.state = "ReadingRequest"]
             w == InitialWrite(t, pdu)
             x == [t EXCEPT !.request.offset = @ + pdu.n]
  <1>1. IsTransaction(v)
    BY DEF IsTransaction
  <1>2. IsTransaction(w) /\ w.request.opcode = pdu.opcode
    BY DEF IsTransaction, InitialWrite
  <1>3. IsTransaction(x) /\ x.request.opcode = t.request.opcode /\ x.state = t.state
    BY DEF IsTransaction
  <1>4. \/ u = v /\ result.error = "InvalidData"
        \/ u = w /\ pdu.kind = "first"
        \/ u = t
        \/ u = x /\ t.state = "ReadingRequest"
    <2>1. CASE t.state = "WaitingForInitialWrite"
      BY <2>1 DEF HandleWrite
    <2>2. CASE t.state = "ReadingRequest"
      BY <2>2 DEF HandleWrite
    <2>3. CASE t.state \in {"HandlingRequest", "WaitingForInitialRead"}
      BY <2>3 DEF HandleWrite
    <2>4. CASE t.state = "WritingResponse"
      BY <2>4 DEF HandleWrite
    <2>5. QED
      BY <2>1, <2>2, <2>3, <2>4 DEF IsTransaction
  <1> HIDE DEF v, w, x, u, result
  <1>5. IsTransaction(u) /\ (result.error = "None" /\ u.state = "ReadingRequest" => u.request.opcode \in Opcodes)
    <2>1. "InvalidData" # "None"
      OBVIOUS
    <2>2. QED
      BY <1>1, <1>2, <1>3, <1>4, <2>1
  <1>6. QED
    BY <1>5 DEF u, result

LEMMA TakenFits ==
    ASSUME NEW b, NEW K, NEW S, IsOpen(b, K, S), NEW pdu,
           NEW result, IsTransaction(result.transaction),
           /\ result.error = "None" /\ result.transaction.state = "ReadingRequest"
           => result.transaction.request.opcode \in Opcodes
    PROVE  IsResult(Taken(b, result, pdu), K, S)
  <1> DEFINE s == Stored(b, pdu)
             d == [b EXCEPT !.procedure.scratch = s, !.procedure.transaction = result.transaction]
             e == DidSendGATTResponse(d)
  <1>1. Shaped(b) /\ IsProcedure(b.procedure) /\ b.connected
    BY OpenIsLinked
  <1>2. Taken(b, result, pdu) = IF result.error # "None" THEN Failed(d) ELSE Ok(e)
    BY DEF Taken
  <1> HIDE DEF s
  <1>3. /\ SameQueue(b, d) /\ Shaped(d) /\ d.failed = b.failed /\ d.adv = b.adv /\ d.air = b.air
        /\ d.store = b.store /\ d.sessions = b.sessions
    BY <1>1 DEF Shaped, SameQueue
  <1>4. DOMAIN d.procedure = DOMAIN b.procedure /\ d.procedure.transaction = result.transaction
    BY <1>1 DEF Shaped, IsProcedure
  <1> HIDE DEF d
  <1>5. IsProcedure(d.procedure)
    BY <1>1, <1>4 DEF IsProcedure
  <1>6. IsOpen(d, K, S)
    BY <1>3, <1>5, OpenFits
  <1>7. IsSound(d, K, S) /\ d.connected
    BY <1>6, OpenIsLinked
  <1>8. IsResult(Failed(d), K, S)
    BY <1>7, FailedIsResult
  <1>9. IsLive(e, K, S) /\ e.link.terminal = d.link.terminal /\ e.procedure = d.procedure
    BY <1>6, DidSendGATTResponseFits DEF IsOpen
  <1> HIDE DEF e
  <1>10. IsOpen(e, K, S)
    BY <1>6, <1>9 DEF IsOpen
  <1>11. CASE result.error = "None"
    <2>1. RequestFits(e.procedure)
      BY <1>4, <1>9, <1>11 DEF RequestFits
    <2>2. IsResult(Ok(e), K, S)
      BY <1>10, <2>1, OpenIsResult
    <2>3. QED
      BY <1>2, <1>11, <2>2
  <1>12. QED
    BY <1>2, <1>8, <1>11

LEMMA WrittenToFits ==
    ASSUME NEW b, NEW K, NEW S, IsOpen(b, K, S), RequestFits(b.procedure),
           NEW pdu, pdu.kind = "first" => pdu.opcode \in Opcodes, NEW env
    PROVE  IsResult(WrittenTo(b, pdu, env), K, S)
  <1> DEFINE t == b.procedure.transaction
             result == HandleWrite(t, pdu)
  <1>1. IsSound(b, K, S) /\ b.connected /\ IsTransaction(t)
    BY OpenIsLinked DEF IsProcedure
  <1>2. t.state = "ReadingRequest" => t.request.opcode \in Opcodes
    BY DEF RequestFits
  <1>3. WrittenTo(b, pdu, env) \in {Failed(b), Taken(b, result, pdu)}
    BY DEF WrittenTo
  <1> HIDE DEF t
  <1>4. /\ IsTransaction(result.transaction)
        /\ result.error = "None" /\ result.transaction.state = "ReadingRequest"
           => result.transaction.request.opcode \in Opcodes
    BY <1>1, <1>2, HandleWriteFits
  <1> HIDE DEF result
  <1>5. IsResult(Taken(b, result, pdu), K, S)
    BY <1>4, TakenFits
  <1>6. IsResult(Failed(b), K, S)
    BY <1>1, FailedIsResult
  <1>7. QED
    BY <1>3, <1>5, <1>6

\* A fragment of a request comes in.
LEMMA HandleGATTWriteFits ==
    ASSUME NEW b, NEW K, NEW S, IsLive(b, K, S),
           ~b.link.terminal => IsProcedure(b.procedure) /\ RequestFits(b.procedure),
           NEW c, NEW pdu, pdu.kind = "first" => pdu.opcode \in Opcodes, NEW env
    PROVE  IsResult(HandleGATTWrite(b, c, pdu, env), K, S)
  <1> DEFINE d == Begun(b, c)
  <1>1. IsSound(b, K, S) /\ b.connected
    BY DEF IsLive
  <1>2. IsResult(Failed(b), K, S)
    BY <1>1, FailedIsResult
  <1>3. CASE b.link.terminal
    BY <1>2, <1>3 DEF HandleGATTWrite
  <1>4. CASE ~b.link.terminal
    <2>1. IsOpen(b, K, S) /\ RequestFits(b.procedure)
      BY <1>4 DEF IsOpen
    <2>2. IsOpen(d, K, S) /\ RequestFits(d.procedure)
      BY <2>1, BegunFits
    <2> HIDE DEF d
    <2>3. IsResult(WrittenTo(b, pdu, env), K, S) /\ IsResult(WrittenTo(d, pdu, env), K, S)
      BY <2>1, <2>2, WrittenToFits
    <2>4. QED
      BY <1>2, <2>3 DEF HandleGATTWrite, d
  <1>5. QED
    BY <1>3, <1>4

LEMMA CompleteTransactionFits ==
    ASSUME NEW b, NEW K, NEW S, IsOpen(b, K, S)
    PROVE  LET d == CompleteTransaction(b)
           IN IsOpen(d, K, S) /\ RequestFits(d.procedure)
  <1> DEFINE d == CompleteTransaction(b)
  <1>1. Shaped(b) /\ IsProcedure(b.procedure)
    BY OpenIsLinked
  <1>2. /\ SameQueue(b, d) /\ Shaped(d) /\ d.failed = b.failed /\ d.adv = b.adv /\ d.air = b.air
        /\ d.store = b.store /\ d.sessions = b.sessions
    BY <1>1 DEF CompleteTransaction, Shaped, SameQueue
  <1>3. /\ DOMAIN d.procedure = DOMAIN b.procedure
        /\ \E room : d.procedure.transaction = CreateTransaction(room)
    BY <1>1 DEF CompleteTransaction, Shaped, IsProcedure
  <1> HIDE DEF d
  <1>4. /\ IsTransaction(d.procedure.transaction)
        /\ d.procedure.transaction.state = "WaitingForInitialWrite"
    BY <1>3, CreatedFits
  <1>5. IsProcedure(d.procedure) /\ RequestFits(d.procedure)
    BY <1>1, <1>3, <1>4 DEF IsProcedure, RequestFits
  <1>6. IsOpen(d, K, S)
    BY <1>2, <1>5, OpenFits
  <1>7. QED
    BY <1>5, <1>6 DEF d

LEMMA DroppedFits ==
    ASSUME NEW b, NEW K, NEW S, IsOpen(b, K, S), RequestFits(b.procedure)
    PROVE  IsResult(Ok(Dropped(b)), K, S)
  <1> DEFINE t == TRUE
             d == SessionInvalidate(b, t)
  <1>1. IsSound(b, K, S) /\ b.connected
    BY OpenIsLinked
  <1>2. t \in BOOLEAN /\ t
    OBVIOUS
  <1>3. Dropped(b) \in {b, d}
    BY DEF Dropped
  <1> HIDE DEF t
  <1>4. /\ IsSound(d, K, S) /\ IsTimed(d) /\ d.connected = b.connected
        /\ (d.link.terminal <=> t \/ b.link.terminal)
    BY <1>1, <1>2, SessionInvalidateFits
  <1> HIDE DEF d
  <1>5. IsResult(Ok(d), K, S)
    BY <1>1, <1>2, <1>4 DEF IsResult, Ok
  <1>6. IsResult(Ok(b), K, S)
    BY OpenIsResult
  <1>7. QED
    BY <1>3, <1>5, <1>6

LEMMA HandleReadFits ==
    ASSUME NEW t, IsTransaction(t), NEW hasHeader, NEW n
    PROVE  LET result == HandleRead(t, hasHeader, n)
               u == result.transaction
           IN IsTransaction(u) /\ (result.error = "None" => u.state = "WritingResponse")
  <1> DEFINE left == t.response.total - t.response.offset
             m == IF n < left THEN n ELSE left
             sent == [t EXCEPT !.state = "WritingResponse", !.response.offset = @ + m]
             v == [t EXCEPT !.state = "WritingResponse"]
             result == HandleRead(t, hasHeader, n)
  <1>1. \/ result.transaction = t /\ result.error = "InvalidState"
        \/ result.transaction = v /\ result.error = "OutOfResources"
        \/ result.transaction = sent /\ result.error = "None"
    BY DEF HandleRead
  <1> HIDE DEF m, result
  <1>2. IsTransaction(sent) /\ sent.state = "WritingResponse"
    BY DEF IsTransaction
  <1>3. IsTransaction(v)
    BY DEF IsTransaction
  <1> HIDE DEF sent, v
  <1>4. "InvalidState" # "None" /\ "OutOfResources" # "None"
    OBVIOUS
  <1>5. IsTransaction(result.transaction)
        /\ (result.error = "None" => result.transaction.state = "WritingResponse")
    BY <1>1, <1>2, <1>3, <1>4
  <1>6. QED
    BY <1>5 DEF result

\* A fragment of the response goes out.
LEMMA SentFits ==
    ASSUME NEW b, NEW K, NEW S, IsOpen(b, K, S), NEW result, IsTransaction(result.transaction),
           result.error = "None" => result.transaction.state = "WritingResponse"
    PROVE  IsResult(Sent(b, result), K, S)
  <1> DEFINE a == [b EXCEPT !.procedure.transaction = result.transaction]
             d == [b EXCEPT !.procedure.transaction = result.transaction,
                            !.seen.answered = result.transaction.response.tid,
                            !.seen.status = result.transaction.response.status]
             e == IF result.isFinal THEN CompleteTransaction(d) ELSE d
             g == DidSendGATTResponse(e)
  <1>1. Shaped(b) /\ IsProcedure(b.procedure) /\ b.connected
    BY OpenIsLinked
  <1>2. /\ result.error # "None" => Sent(b, result) = Failed(a)
        /\ Sent(b, result) \in {Failed(a), Ok(Dropped(g))}
    BY DEF Sent
  <1>3. IsOpen(a, K, S)
    <2>1. /\ SameQueue(b, a) /\ Shaped(a) /\ a.failed = b.failed /\ a.adv = b.adv /\ a.air = b.air
          /\ a.store = b.store /\ a.sessions = b.sessions
      BY <1>1 DEF Shaped, SameQueue
    <2>2. DOMAIN a.procedure = DOMAIN b.procedure /\ a.procedure.transaction = result.transaction
      BY <1>1 DEF Shaped, IsProcedure
    <2> HIDE DEF a
    <2>3. IsProcedure(a.procedure)
      BY <1>1, <2>2 DEF IsProcedure
    <2>4. QED
      BY <2>1, <2>3, OpenFits
  <1>4. IsOpen(d, K, S) /\ d.procedure.transaction = result.transaction
    <2>1. /\ SameQueue(b, d) /\ Shaped(d) /\ d.failed = b.failed /\ d.adv = b.adv /\ d.air = b.air
          /\ d.store = b.store /\ d.sessions = b.sessions
      BY <1>1 DEF Shaped, SameQueue
    <2>2. DOMAIN d.procedure = DOMAIN b.procedure /\ d.procedure.transaction = result.transaction
      BY <1>1 DEF Shaped, IsProcedure
    <2> HIDE DEF d
    <2>3. IsProcedure(d.procedure)
      BY <1>1, <2>2 DEF IsProcedure
    <2>4. QED
      BY <2>1, <2>2, <2>3, OpenFits
  <1> HIDE DEF a, d
  <1>5. IsResult(Failed(a), K, S)
    BY <1>3, OpenIsLinked, FailedIsResult
  <1>6. CASE result.error = "None"
    <2>1. RequestFits(d.procedure)
      BY <1>4, <1>6 DEF RequestFits
    <2>2. IsOpen(e, K, S) /\ RequestFits(e.procedure)
      BY <1>4, <2>1, CompleteTransactionFits
    <2> HIDE DEF e
    <2>3. IsLive(g, K, S) /\ g.link.terminal = e.link.terminal /\ g.procedure = e.procedure
      BY <2>2, DidSendGATTResponseFits DEF IsOpen
    <2> HIDE DEF g
    <2>4. IsOpen(g, K, S) /\ RequestFits(g.procedure)
      BY <2>2, <2>3 DEF IsOpen
    <2>5. IsResult(Ok(Dropped(g)), K, S)
      BY <2>4, DroppedFits
    <2>6. QED
      BY <1>2, <1>5, <2>5
  <1>7. CASE result.error # "None"
    BY <1>2, <1>5, <1>7
  <1>8. QED
    BY <1>6, <1>7

LEMMA HandleGATTReadFits ==
    ASSUME instance \in Instances, NEW b, NEW K, NEW S, IsLive(b, K, S),
           ~b.link.terminal => IsProcedure(b.procedure) /\ RequestFits(b.procedure),
           NEW c, NEW room, NEW env, env.outcome \in {"next", "accepted", "error", "refused"}
    PROVE  IsResult(HandleGATTRead(b, c, room, env), K, S)
  <1> DEFINE r == IF IsRequestAvailable(b.procedure.transaction) THEN ProcessTransaction(b, c, env)
                  ELSE Ok(b)
             t == r.ble.procedure.transaction
             result == HandleRead(t, room > 0, room - 1)
  <1>1. IsSound(b, K, S) /\ b.connected
    BY DEF IsLive
  <1>2. IsResult(Failed(b), K, S)
    BY <1>1, FailedIsResult
  <1>3. CASE b.link.terminal
    BY <1>2, <1>3 DEF HandleGATTRead
  <1>4. CASE ~b.link.terminal
    <2>1. IsOpen(b, K, S) /\ RequestFits(b.procedure)
      BY <1>4 DEF IsOpen
    <2>2. HandleGATTRead(b, c, room, env) \in {Failed(b), ReadFromIt(r, room)}
      BY DEF HandleGATTRead
    <2>3. ReadFromIt(r, room) \in {r, Sent(r.ble, result)} /\ (~r.error => ReadFromIt(r, room) = Sent(r.ble, result))
      BY DEF ReadFromIt
    <2>4. HasAnswer(r, K, S)
      <3>1. CASE IsRequestAvailable(b.procedure.transaction)
        <4>1. b.procedure.transaction.request.opcode \in Opcodes
          BY <2>1, <3>1 DEF IsRequestAvailable, RequestFits
        <4>2. HasAnswer(ProcessTransaction(b, c, env), K, S)
          BY <2>1, <4>1, ProcessTransactionFits
        <4>3. QED
          BY <3>1, <4>2
      <3>2. CASE ~IsRequestAvailable(b.procedure.transaction)
        <4>1. HasAnswer(Ok(b), K, S)
          BY <2>1 DEF HasAnswer, Ok
        <4>2. QED
          BY <3>2, <4>1
      <3>3. QED
        BY <3>1, <3>2
    <2> HIDE DEF r
    <2>5. IsOpen(r.ble, K, S) /\ IsTransaction(t)
      BY <2>4, OpenIsLinked DEF HasAnswer, IsProcedure
    <2> HIDE DEF t
    <2> DEFINE h == room > 0
               n == room - 1
    <2>6. result = HandleRead(t, h, n)
      OBVIOUS
    <2> HIDE DEF h, n, result
    <2>7. /\ IsTransaction(result.transaction)
          /\ result.error = "None" => result.transaction.state = "WritingResponse"
      BY <2>5, <2>6, HandleReadFits
    <2>8. IsResult(Sent(r.ble, result), K, S)
      BY <2>5, <2>7, SentFits
    <2>9. r.error => IsResult(r, K, S)
      BY <2>5, OpenIsLinked DEF IsResult
    <2>10. QED
      BY <1>2, <2>2, <2>3, <2>8, <2>9
  <1>5. QED
    BY <1>3, <1>4

-----------------------------------------------------------------------------
(* Callbacks *)

\* Only fallback procedures and history differ.
Alike(b, d) ==
    /\ SameQueue(b, d) /\ Shaped(d)
    /\ d.failed = b.failed /\ d.adv = b.adv /\ d.air = b.air /\ d.store = b.store
    /\ d.sessions = b.sessions /\ d.procedure = b.procedure

\* A connected link between callbacks.
IsServing(b, K, S) == IsAtRest(b, K, S) /\ b.connected

LEMMA AlikeFits ==
    ASSUME NEW b, NEW d, NEW K, NEW S, Alike(b, d)
    PROVE  /\ IsSound(b, K, S) => IsSound(d, K, S)
           /\ IsAtRest(b, K, S) => IsAtRest(d, K, S)
           /\ IsServing(b, K, S) => IsServing(d, K, S)
           /\ IsBlocked(Queue(b)) => IsBlocked(Queue(d))
  <1>1. /\ IsSound(b, K, S) => IsSound(d, K, S)
        /\ IsBlocked(Queue(b)) => IsBlocked(Queue(d))
    BY ElsewhereFits DEF Alike
  <1>2. d.link = b.link /\ d.procedure = b.procedure /\ d.connected = b.connected
    BY DEF Alike, SameQueue
  <1>3. QED
    BY <1>1, <1>2 DEF IsAtRest, IsServing, IsTimed

LEMMA ServingIsLive ==
    ASSUME NEW b, NEW K, NEW S, IsServing(b, K, S)
    PROVE  /\ IsLive(b, K, S) /\ IsSound(b, K, S) /\ Shaped(b) /\ b.connected
           /\ ~b.link.terminal => IsProcedure(b.procedure) /\ RequestFits(b.procedure)
  BY DEF IsServing, IsAtRest, IsLive, IsSound

LEMMA AnsweredIsResult ==
    ASSUME NEW b, NEW K, NEW S, IsServing(b, K, S)
    PROVE  IsResult(Ok(DidSendGATTResponse(b)), K, S)
  <1> DEFINE d == DidSendGATTResponse(b)
  <1>1. IsLive(b, K, S) /\ (~b.link.terminal => IsProcedure(b.procedure) /\ RequestFits(b.procedure))
    BY ServingIsLive
  <1>2. IsLive(d, K, S) /\ d.link.terminal = b.link.terminal /\ d.procedure = b.procedure
    BY <1>1, DidSendGATTResponseFits
  <1> HIDE DEF d
  <1>3. IsResult(Ok(d), K, S)
    BY <1>1, <1>2 DEF IsLive, IsResult, Ok
  <1>4. QED
    BY <1>3 DEF d

LEMMA ServingMayFail ==
    ASSUME NEW b, NEW K, NEW S, IsServing(b, K, S)
    PROVE  IsResult(Failed(b), K, S)
  BY ServingIsLive, FailedIsResult

LEMMA WriteToFallbackFits ==
    ASSUME NEW b, NEW K, NEW S, IsServing(b, K, S), NEW c, NEW pdu, NEW env, NEW isNew
    PROVE  IsResult(WriteToFallback(b, c, pdu, env, isNew), K, S)
  <1> DEFINE a == [b EXCEPT !.fallback[c.name].tid = pdu.tid,
                            !.fallback[c.name].status = IF pdu.opcode # "unknown" /\ pdu.iid # "own"
                                                        THEN "InvalidInstanceID" ELSE "MaxProcedures",
                            !.fallback[c.name].remaining = pdu.total - pdu.n]
             d == [b EXCEPT !.fallback[c.name].remaining = @ - pdu.n]
  <1>1. Shaped(b)
    BY ServingIsLive
  <1>2. Alike(b, a)
    BY <1>1 DEF Shaped, Alike, SameQueue
  <1>3. Alike(b, d)
    BY <1>1 DEF Shaped, Alike, SameQueue
  <1>4. WriteToFallback(b, c, pdu, env, isNew) \in
            {Failed(b), Ok(DidSendGATTResponse(a)), Ok(DidSendGATTResponse(d))}
    BY DEF WriteToFallback, FallbackBegun, FallbackContinued
  <1> HIDE DEF a, d
  <1>5. IsServing(a, K, S) /\ IsServing(d, K, S)
    BY <1>2, <1>3, AlikeFits
  <1>6. /\ IsResult(Ok(DidSendGATTResponse(a)), K, S) /\ IsResult(Ok(DidSendGATTResponse(d)), K, S)
        /\ IsResult(Failed(b), K, S)
    BY <1>5, AnsweredIsResult, ServingMayFail
  <1>7. QED
    BY <1>4, <1>6

LEMMA BeginFallbackFits ==
    ASSUME NEW b, NEW K, NEW S, IsServing(b, K, S), NEW c
    PROVE  IsServing(BeginFallback(b, c), K, S)
  <1> DEFINE a == [b EXCEPT !.fallback[c.name].on = TRUE]
             d == DidStartBLEProcedure(a)
  <1>1. Alike(b, a)
    BY ServingIsLive DEF Shaped, Alike, SameQueue
  <1>2. d = BeginFallback(b, c)
    BY DEF BeginFallback
  <1> HIDE DEF a
  <1>3. IsServing(a, K, S)
    BY <1>1, AlikeFits
  <1>4. IsSound(a, K, S) /\ a.connected /\ IsBlocked(Queue(a))
    BY <1>3 DEF IsServing, IsAtRest
  <1>5. /\ IsSound(d, K, S) /\ IsTimed(d) /\ d.connected /\ IsBlocked(Queue(d))
        /\ d.link.terminal = a.link.terminal /\ d.procedure = a.procedure
    BY <1>4, DidStartBLEProcedureFits
  <1> HIDE DEF d
  <1>6. QED
    BY <1>2, <1>3, <1>5 DEF IsServing, IsAtRest

LEMMA WriteToProcedureFits ==
    ASSUME NEW b, NEW K, NEW S, IsServing(b, K, S),
           NEW c, NEW pdu, pdu.kind = "first" => pdu.opcode \in Opcodes, NEW env
    PROVE  IsResult(WriteToProcedure(b, c, pdu, env), K, S)
  <1> DEFINE f == BeginFallback(b, c)
             p == AttachTo(c.name)
             a == [b EXCEPT !.procedure = p]
  <1>1. IsServing(f, K, S)
    BY BeginFallbackFits
  <1>2. WriteToProcedure(b, c, pdu, env) \in
            {WriteToFallback(b, c, pdu, env, FALSE), WriteToFallback(f, c, pdu, env, TRUE),
             HandleGATTWrite(b, c, pdu, env), HandleGATTWrite(a, c, pdu, env)}
    BY DEF WriteToProcedure
  <1>3. IsLive(b, K, S) /\ Shaped(b) /\ (~b.link.terminal => IsProcedure(b.procedure) /\ RequestFits(b.procedure))
    BY ServingIsLive
  <1>4. IsProcedure(p) /\ RequestFits(p)
    BY CreatedFits
  <1> HIDE DEF f, p
  <1>5. IsLive(a, K, S) /\ a.procedure = p
    BY <1>3, AttachedFits
  <1> HIDE DEF a
  <1>6. IsResult(HandleGATTWrite(b, c, pdu, env), K, S)
    BY <1>3, HandleGATTWriteFits
  <1>7. IsResult(HandleGATTWrite(a, c, pdu, env), K, S)
    BY <1>4, <1>5, HandleGATTWriteFits
  <1>8. \A isNew : /\ IsResult(WriteToFallback(b, c, pdu, env, isNew), K, S)
                   /\ IsResult(WriteToFallback(f, c, pdu, env, isNew), K, S)
    BY <1>1, WriteToFallbackFits
  <1>9. /\ IsResult(WriteToFallback(b, c, pdu, env, FALSE), K, S)
        /\ IsResult(WriteToFallback(f, c, pdu, env, TRUE), K, S)
    BY <1>8
  <1>10. QED
    BY <1>2, <1>6, <1>7, <1>9

LEMMA CancelConnectionFits ==
    ASSUME NEW b, NEW K, NEW S, IsSound(b, K, S)
    PROVE  LET d == CancelConnection(b)
           IN /\ IsSound(d, K, S) /\ d.link = b.link /\ d.connected = b.connected
              /\ d.procedure = b.procedure /\ d.store = b.store
              /\ (IsBlocked(Queue(b)) => IsBlocked(Queue(d)))
  <1> DEFINE d == CancelConnection(b)
  <1>1. /\ Shaped(d) /\ Radio(d) = Radio(b) /\ d.cancelled = TRUE /\ d.link = b.link
        /\ d.server = b.server /\ d.connected = b.connected
        /\ d.table = b.table /\ d.procedure = b.procedure /\ d.subscribed = b.subscribed
        /\ d.pending = b.pending /\ d.informed = b.informed /\ d.free = b.free /\ d.store = b.store
    BY DEF IsSound, CancelConnection, Shaped, Radio
  <1> HIDE DEF d
  <1>2. LinkFits(d)
    BY <1>1 DEF IsSound, LinkFits
  <1>3. IsSound(d, K, S) /\ (IsBlocked(Queue(b)) => IsBlocked(Queue(d)))
    BY <1>1, <1>2, SessionKeptFits
  <1>4. QED
    BY <1>1, <1>3 DEF d

\* The end of a request.
LEMMA FinishedFits ==
    ASSUME instance \in Instances, NEW K, NEW S, NEW result, IsResult(result, K, S)
    PROVE  IsServing(Finished(result), K, S)
  <1> DEFINE b == result.ble
             t == TRUE
             i == SessionInvalidate(b, t)
             d == SendPendingEventNotifications(b)
  <1>1. IsSound(b, K, S) /\ b.connected
    BY DEF IsResult
  <1>2. t \in BOOLEAN /\ t
    OBVIOUS
  <1>3. Finished(result) = IF result.error THEN i ELSE d
    BY DEF Finished
  <1>4. ~result.error => /\ IsTimed(b)
                         /\ ~b.link.terminal => IsProcedure(b.procedure) /\ RequestFits(b.procedure)
    BY DEF IsResult
  <1> HIDE DEF b, t
  <1>5. /\ IsSound(i, K, S) /\ IsTimed(i) /\ IsBlocked(Queue(i)) /\ i.connected = b.connected
        /\ (i.link.terminal <=> t \/ b.link.terminal)
    BY <1>1, <1>2, SessionInvalidateFits
  <1>6. IsSound(d, K, S) /\ SameSession(b, d) /\ IsBlocked(Queue(d))
    BY <1>1, SendPendingFits
  <1> HIDE DEF i, d
  <1>7. IsServing(i, K, S)
    BY <1>1, <1>2, <1>5 DEF IsServing, IsAtRest
  <1>8. ~result.error => IsServing(d, K, S)
    BY <1>1, <1>4, <1>6 DEF IsServing, IsAtRest, IsTimed, SameSession
  <1>9. QED
    BY <1>3, <1>7, <1>8

LEMMA WithAbortFits ==
    ASSUME NEW b, NEW K, NEW S, IsServing(b, K, S), NEW c
    PROVE  IsServing(WithAbort(b, c), K, S)
  <1>1. Alike(b, b) /\ Alike(b, AbortAllFallbackProcedures(b))
    BY ServingIsLive DEF Shaped, Alike, SameQueue, AbortAllFallbackProcedures
  <1>2. IsServing(AbortAllFallbackProcedures(b), K, S)
    BY <1>1, AlikeFits
  <1>3. QED
    BY <1>2 DEF WithAbort

LEMMA ValueWriteFits ==
    ASSUME instance \in Instances, NEW b, NEW K, NEW S, IsServing(b, K, S),
           NEW c, NEW pdu, pdu.kind = "first" => pdu.opcode \in Opcodes, NEW env
    PROVE  IsServing(ValueWrite(b, c, pdu, env), K, S)
  <1> DEFINE d == CancelConnection(b)
             a == WithAbort(b, c)
             r == IF ~MayAttach(b) THEN Failed(d) ELSE WriteToProcedure(a, c, pdu, env)
  <1>1. IsServing(a, K, S)
    BY WithAbortFits
  <1>2. IsSound(b, K, S) /\ b.connected
    BY ServingIsLive
  <1>3. IsSound(d, K, S) /\ d.connected = b.connected
    BY <1>2, CancelConnectionFits
  <1> HIDE DEF a, d
  <1>4. IsResult(Failed(d), K, S)
    BY <1>2, <1>3, FailedIsResult
  <1>5. IsResult(WriteToProcedure(a, c, pdu, env), K, S)
    BY <1>1, WriteToProcedureFits
  <1>6. IsResult(r, K, S)
    BY <1>4, <1>5
  <1>7. ValueWrite(b, c, pdu, env) = Finished(r)
    BY DEF ValueWrite, a, d
  <1> HIDE DEF r
  <1>8. QED
    BY <1>6, <1>7, FinishedFits

LEMMA ReadFromProcedureFits ==
    ASSUME instance \in Instances, NEW b, NEW K, NEW S, IsServing(b, K, S), NEW c, NEW room,
           NEW env, env.outcome \in {"next", "accepted", "error", "refused"}
    PROVE  IsResult(ReadFromProcedure(b, c, room, env), K, S)
  <1> DEFINE d == [b EXCEPT !.fallback[c.name] = NoFallback, !.seen.answered = b.fallback[c.name].tid]
  <1>1. Alike(b, d)
    BY ServingIsLive DEF Shaped, Alike, SameQueue
  <1>2. ReadFromProcedure(b, c, room, env) \in
            {Failed(b), Ok(DidSendGATTResponse(d)), HandleGATTRead(b, c, room, env)}
    BY DEF ReadFromProcedure, ReadFallback
  <1> HIDE DEF d
  <1>3. IsServing(d, K, S)
    BY <1>1, AlikeFits
  <1>4. IsResult(Failed(b), K, S) /\ IsResult(Ok(DidSendGATTResponse(d)), K, S)
    BY <1>3, ServingMayFail, AnsweredIsResult
  <1>5. IsResult(HandleGATTRead(b, c, room, env), K, S)
    BY ServingIsLive, HandleGATTReadFits
  <1>6. QED
    BY <1>2, <1>4, <1>5

LEMMA ValueReadFits ==
    ASSUME instance \in Instances, NEW b, NEW K, NEW S, IsServing(b, K, S), NEW c, NEW room,
           NEW env, env.outcome \in {"next", "accepted", "error", "refused"}
    PROVE  IsServing(ValueRead(b, c, room, env), K, S)
  <1> DEFINE d == CancelConnection(b)
             a == WithAbort(b, c)
             r == IF b.link.terminal THEN Failed(d) ELSE ReadFromProcedure(a, c, room, env)
  <1>1. IsServing(a, K, S)
    BY WithAbortFits
  <1>2. IsSound(b, K, S) /\ b.connected
    BY ServingIsLive
  <1>3. IsSound(d, K, S) /\ d.connected = b.connected
    BY <1>2, CancelConnectionFits
  <1> HIDE DEF a, d
  <1>4. IsResult(Failed(d), K, S)
    BY <1>2, <1>3, FailedIsResult
  <1>5. IsResult(ReadFromProcedure(a, c, room, env), K, S)
    BY <1>1, ReadFromProcedureFits
  <1>6. IsResult(r, K, S)
    BY <1>4, <1>5
  <1>7. ValueRead(b, c, room, env) = Finished(r)
    BY DEF ValueRead, a, d
  <1> HIDE DEF r
  <1>8. QED
    BY <1>6, <1>7, FinishedFits

\* What a read may meet.
LEMMA ReadsMeet ==
    ASSUME NEW b, NEW c, NEW env \in ReadEnvs(b, c)
    PROVE  env.outcome \in {"next", "accepted", "error", "refused"}
  <1> DEFINE Outcomes == {"next", "accepted", "error", "refused"}
  <1>1. /\ DOMAIN DefaultEnv = {"authentic", "late", "expired", "outcome", "returns", "total", "raises", "admin"}
        /\ DefaultEnv.outcome \in Outcomes
    BY DEF DefaultEnv
  <1>2. \A e \in PairingEnvs : e.outcome \in Outcomes
    BY <1>1 DEF PairingEnvs
  <1>3. \A e \in InformEnvs : e.outcome \in Outcomes
    BY <1>1 DEF InformEnvs
  <1>4. \A e \in ValueEnvs : e.outcome \in Outcomes
    BY <1>1 DEF ValueEnvs
  <1>5. \A e \in HandlerEnvs : e.outcome \in Outcomes
    BY <1>1 DEF HandlerEnvs
  <1> HIDE DEF Outcomes
  <1>6. \A opcode : \A e \in ProcessingEnvs(c, opcode) : e.outcome \in Outcomes
    BY <1>1, <1>2, <1>3, <1>4, <1>5 DEF ProcessingEnvs
  <1>7. QED
    BY <1>1, <1>6 DEF ReadEnvs, Outcomes

\* The controller reports that it got an indication, or has room for one.
LEMMA ReadyFits ==
    ASSUME instance \in Instances, NEW b, NEW K, NEW S, IsServing(b, K, S)
    PROVE  IsServing(HandleReadyToUpdateSubscribers(b), K, S)
  <1> DEFINE a == [b EXCEPT !.free = @ + 1]
             d == SendPendingEventNotifications(a)
  <1>1. IsSound(b, K, S) /\ Shaped(b) /\ b.connected
    BY ServingIsLive
  <1>2. /\ Shaped(a) /\ Radio(a) = Radio(b) /\ SameSession(b, a) /\ a.free = b.free + 1
    BY <1>1 DEF Shaped, Radio, SameSession
  <1>3. d = HandleReadyToUpdateSubscribers(b)
    BY DEF HandleReadyToUpdateSubscribers
  <1> HIDE DEF a
  <1>4. b.free + 1 \in Nat
    BY <1>1 DEF IsSound, SubscriptionsFit
  <1>5. IsSound(a, K, S)
    BY <1>1, <1>2, <1>4, SameSessionFits DEF IsSound
  <1>6. IsSound(d, K, S) /\ SameSession(a, d) /\ IsBlocked(Queue(d))
    BY <1>5, SendPendingFits
  <1> HIDE DEF d
  <1>7. d.link = b.link /\ d.procedure = b.procedure /\ d.connected = b.connected
    BY <1>2, <1>6 DEF SameSession
  <1>8. QED
    BY <1>3, <1>6, <1>7 DEF IsServing, IsAtRest, IsTimed

\* The controller subscribes or unsubscribes.
LEMMA SetNotificationsEnabledFits ==
    ASSUME instance \in Instances, NEW b, NEW K, NEW S, IsServing(b, K, S), NEW c, NEW enable \in BOOLEAN
    PROVE  IsServing(SetNotificationsEnabled(b, c, enable), K, S)
  <1> DEFINE x == IF enable THEN b.subscribed \cup {c.name} ELSE b.subscribed \ {c.name}
             a == [b EXCEPT !.subscribed = x]
             t == Told(a, c, enable)
             d == SendPendingEventNotifications(t)
  <1>1. /\ IsSound(b, K, S) /\ Shaped(b) /\ b.connected /\ LinkFits(b) /\ SubscriptionsFit(b)
        /\ RadioFits(Radio(b), K, S)
    BY ServingIsLive DEF IsSound
  <1>2. SetNotificationsEnabled(b, c, enable) \in {b, d}
    BY DEF SetNotificationsEnabled
  <1>3. x \in {b.subscribed \cup {c.name}, b.subscribed \ {c.name}}
        /\ (enable => x = b.subscribed \cup {c.name}) /\ (~enable => x = b.subscribed \ {c.name})
    OBVIOUS
  <1> HIDE DEF x
  <1>4. /\ Shaped(a) /\ Radio(a) = Radio(b) /\ a.subscribed = x /\ a.informed = b.informed
        /\ a.server = b.server /\ a.connected = b.connected /\ a.cancelled = b.cancelled
        /\ a.link = b.link /\ a.procedure = b.procedure /\ a.table = b.table /\ a.free = b.free
    BY <1>1 DEF Shaped, Radio
  <1> HIDE DEF a
  <1>5. /\ Shaped(t) /\ Radio(t) = Radio(a) /\ t.subscribed = x
        /\ t.server = a.server /\ t.connected = a.connected /\ t.cancelled = a.cancelled
        /\ t.link = a.link /\ t.procedure = a.procedure /\ t.table = a.table /\ t.free = a.free
        /\ t.informed = IF IsSecured(a) /\ enable THEN a.informed \cup {c.name} ELSE a.informed \ {c.name}
    BY <1>4 DEF Told, HandleSubscribe, HandleUnsubscribe, Shaped, Radio
  <1> HIDE DEF t
  <1>6. LinkFits(t)
    BY <1>1, <1>4, <1>5 DEF LinkFits
  <1>7. SubscriptionsFit(t)
    <2>1. IsSecured(a) <=> IsSecured(b)
      BY <1>4 DEF IsSecured
    <2>2. IsSecured(t) <=> IsSecured(b)
      BY <1>4, <1>5 DEF IsSecured
    <2>3. CASE enable
      BY <1>1, <1>3, <1>4, <1>5, <2>1, <2>2, <2>3 DEF SubscriptionsFit, IsSecured
    <2>4. CASE ~enable
      BY <1>1, <1>3, <1>4, <1>5, <2>1, <2>2, <2>4 DEF SubscriptionsFit, IsSecured
    <2>5. QED
      BY <2>3, <2>4
  <1>8. IsSound(t, K, S)
    BY <1>1, <1>4, <1>5, <1>6, <1>7 DEF IsSound
  <1>9. IsSound(d, K, S) /\ SameSession(t, d) /\ IsBlocked(Queue(d))
    BY <1>8, SendPendingFits
  <1> HIDE DEF d
  <1>10. d.link = b.link /\ d.procedure = b.procedure /\ d.connected = b.connected
    BY <1>4, <1>5, <1>9 DEF SameSession
  <1>11. IsServing(d, K, S)
    BY <1>9, <1>10 DEF IsServing, IsAtRest, IsTimed
  <1>12. QED
    BY <1>2, <1>11

\* The session ends the link: timers, and what calls for an end.
LEMMA TerminatedFits ==
    ASSUME NEW b, NEW K, NEW S, IsSound(b, K, S),
           b.connected \/ (IsProcedure(b.procedure) /\ RequestFits(b.procedure))
    PROVE  LET d == SessionInvalidate(b, TRUE)
           IN IsAtRest(d, K, S) /\ d.connected = b.connected /\ d.store = b.store
  <1> DEFINE t == TRUE
             d == SessionInvalidate(b, t)
  <1>1. t \in BOOLEAN /\ t
    OBVIOUS
  <1> HIDE DEF t
  <1>2. /\ IsSound(d, K, S) /\ IsTimed(d) /\ IsBlocked(Queue(d))
        /\ d.connected = b.connected /\ d.store = b.store /\ d.procedure = b.procedure
        /\ (d.link.terminal <=> t \/ b.link.terminal)
    BY <1>1, SessionInvalidateFits
  <1> HIDE DEF d
  <1>3. IsAtRest(d, K, S)
    BY <1>1, <1>2 DEF IsAtRest
  <1>4. QED
    BY <1>2, <1>3 DEF t, d

LEMMA RestHasProcedure ==
    ASSUME NEW b, NEW K, NEW S, IsAtRest(b, K, S)
    PROVE  /\ IsSound(b, K, S) /\ Shaped(b) /\ LinkFits(b)
           /\ b.connected \/ (IsProcedure(b.procedure) /\ RequestFits(b.procedure))
  BY DEF IsAtRest, IsSound

LEMMA LinkTimerFits ==
    ASSUME NEW b, NEW K, NEW S, IsAtRest(b, K, S)
    PROVE  LET d == SessionInvalidate([b EXCEPT !.link.linkTimer = FALSE], TRUE)
           IN IsAtRest(d, K, S) /\ d.connected = b.connected /\ d.store = b.store
  <1> DEFINE a == [b EXCEPT !.link.linkTimer = FALSE]
             d == SessionInvalidate(a, TRUE)
  <1>1. /\ IsSound(b, K, S) /\ Shaped(b) /\ LinkFits(b)
        /\ b.connected \/ (IsProcedure(b.procedure) /\ RequestFits(b.procedure))
    BY RestHasProcedure
  <1>2. /\ Shaped(a) /\ Radio(a) = Radio(b) /\ a.link.terminal = b.link.terminal /\ a.link.safe = b.link.safe
        /\ a.link.security = b.link.security /\ a.link.admin = b.link.admin
        /\ a.server = b.server /\ a.connected = b.connected /\ a.cancelled = b.cancelled
        /\ a.table = b.table /\ a.subscribed = b.subscribed /\ a.procedure = b.procedure
        /\ a.pending = b.pending /\ a.informed = b.informed /\ a.free = b.free /\ a.store = b.store
    BY <1>1 DEF Shaped, Radio
  <1> HIDE DEF a
  <1>3. LinkFits(a)
    BY <1>1, <1>2 DEF LinkFits
  <1>4. IsSound(a, K, S)
    BY <1>1, <1>2, <1>3, SessionKeptFits
  <1>5. IsAtRest(d, K, S) /\ d.connected = a.connected /\ d.store = a.store
    BY <1>1, <1>2, <1>4, TerminatedFits
  <1>6. QED
    BY <1>2, <1>5 DEF a

LEMMA PairingTimerFits ==
    ASSUME NEW b, NEW K, NEW S, IsAtRest(b, K, S)
    PROVE  LET d == SessionInvalidate([b EXCEPT !.link.pairingTimer = FALSE], TRUE)
           IN IsAtRest(d, K, S) /\ d.connected = b.connected /\ d.store = b.store
  <1> DEFINE a == [b EXCEPT !.link.pairingTimer = FALSE]
             d == SessionInvalidate(a, TRUE)
  <1>1. /\ IsSound(b, K, S) /\ Shaped(b) /\ LinkFits(b)
        /\ b.connected \/ (IsProcedure(b.procedure) /\ RequestFits(b.procedure))
    BY RestHasProcedure
  <1>2. Shaped(a) /\ Radio(a) = Radio(b) /\ SameSecurity(b, a) /\ a.store = b.store
    BY <1>1 DEF Shaped, Radio, SameSecurity
  <1> HIDE DEF a
  <1>3. IsSound(a, K, S)
    BY <1>1, <1>2, PairingFits
  <1>4. a.connected = b.connected /\ a.procedure = b.procedure
    BY <1>2 DEF SameSecurity
  <1>5. IsAtRest(d, K, S) /\ d.connected = a.connected /\ d.store = a.store
    BY <1>1, <1>3, <1>4, TerminatedFits
  <1>6. QED
    BY <1>2, <1>4, <1>5 DEF a

LEMMA SafeToDisconnectFits ==
    ASSUME NEW b, NEW K, NEW S, IsAtRest(b, K, S)
    PROVE  LET d == SafeToDisconnectTimerExpired(b)
           IN IsAtRest(d, K, S) /\ d.connected = b.connected /\ d.store = b.store
  <1> DEFINE d == SafeToDisconnectTimerExpired(b)
  <1>1. IsSound(b, K, S) /\ Shaped(b) /\ LinkFits(b)
    BY DEF IsAtRest, IsSound
  <1>2. /\ Shaped(d) /\ Radio(d) = Radio(b) /\ d.link.terminal = b.link.terminal
        /\ d.link.security = b.link.security /\ d.link.admin = b.link.admin
        /\ d.link.linkTimer = b.link.linkTimer
        /\ d.server = b.server /\ d.connected = b.connected
        /\ (d.cancelled <=> b.cancelled \/ b.link.terminal \/ b.server # "Running")
        /\ d.table = b.table /\ d.subscribed = b.subscribed /\ d.procedure = b.procedure
        /\ d.pending = b.pending /\ d.informed = b.informed /\ d.free = b.free /\ d.store = b.store
    BY <1>1 DEF SafeToDisconnectTimerExpired, Shaped, Radio
  <1> HIDE DEF d
  <1>3. LinkFits(d)
    BY <1>1, <1>2 DEF LinkFits
  <1>4. IsSound(d, K, S) /\ (IsBlocked(Queue(b)) => IsBlocked(Queue(d)))
    BY <1>1, <1>2, <1>3, SessionKeptFits
  <1>5. IsAtRest(d, K, S)
    BY <1>2, <1>4 DEF IsAtRest, IsTimed
  <1>6. QED
    BY <1>2, <1>5 DEF d

LEMMA ProcedureTimerFits ==
    ASSUME NEW b, NEW K, NEW S, IsAtRest(b, K, S)
    PROVE  LET d == ProcedureTimerExpired(b)
           IN IsAtRest(d, K, S) /\ d.connected = b.connected /\ d.store = b.store
  <1> DEFINE p == AttachTo(b.procedure.attached)
             a == [b EXCEPT !.procedure = p]
             d == SessionInvalidate(a, TRUE)
  <1>1. IsSound(b, K, S) /\ Shaped(b)
    BY DEF IsAtRest, IsSound
  <1>2. d = ProcedureTimerExpired(b)
    BY DEF ProcedureTimerExpired, ResetProcedure
  <1> HIDE DEF p
  <1>3. IsSound(a, K, S) /\ a.connected = b.connected /\ a.store = b.store /\ a.procedure = p
    BY <1>1, AttachedFits
  <1>6. IsProcedure(p) /\ RequestFits(p)
    BY CreatedFits DEF p
  <1> HIDE DEF a
  <1>4. IsAtRest(d, K, S) /\ d.connected = a.connected /\ d.store = a.store
    BY <1>3, <1>6, TerminatedFits
  <1>5. QED
    BY <1>2, <1>3, <1>4

LEMMA FallbackTimerFits ==
    ASSUME NEW b, NEW K, NEW S, IsAtRest(b, K, S), NEW c
    PROVE  LET d == SessionInvalidate([b EXCEPT !.fallback[c.name] = NoFallback], TRUE)
           IN IsAtRest(d, K, S) /\ d.connected = b.connected /\ d.store = b.store
  <1> DEFINE a == [b EXCEPT !.fallback[c.name] = NoFallback]
             d == SessionInvalidate(a, TRUE)
  <1>1. /\ IsSound(b, K, S) /\ Shaped(b)
        /\ b.connected \/ (IsProcedure(b.procedure) /\ RequestFits(b.procedure))
    BY RestHasProcedure
  <1>2. Alike(b, a)
    BY <1>1 DEF Shaped, Alike, SameQueue
  <1> HIDE DEF a
  <1>3. /\ IsSound(a, K, S) /\ a.connected = b.connected /\ a.store = b.store
        /\ a.procedure = b.procedure
    BY <1>1, <1>2, AlikeFits DEF Alike, SameQueue
  <1>4. IsAtRest(d, K, S) /\ d.connected = a.connected /\ d.store = a.store
    BY <1>1, <1>3, TerminatedFits
  <1>5. QED
    BY <1>3, <1>4 DEF a

\* Nothing but advertising has changed.
LEMMA TunedFits ==
    ASSUME NEW b, NEW d, NEW K, NEW S, IsAtRest(b, K, S), SameLink(b, d), Shaped(d),
           RadioFits(Radio(d), K, S)
    PROVE  IsAtRest(d, K, S) /\ d.connected = b.connected
  <1>1. SameQueue(b, d) /\ d.link = b.link /\ d.procedure = b.procedure /\ d.connected = b.connected
    BY DEF SameLink, SameQueue
  <1>2. IsSound(d, K, S) /\ IsBlocked(Queue(d))
    BY <1>1, SameQueueFits DEF IsAtRest
  <1>3. QED
    BY <1>1, <1>2 DEF IsAtRest, IsTimed

\* Advertising of a server that is at rest; the server may have changed its state.
LEMMA RetunedFits ==
    ASSUME NEW b, NEW K, NEW S, Shaped(b), RadioFits(Radio(b), K, S), NEW server
    PROVE  LET d == UpdateAdvertisingData([b EXCEPT !.server = server])
           IN /\ Shaped(d) /\ RadioFits(Radio(d), K, S) /\ d.server = server /\ d.store = b.store
              /\ d.connected = b.connected /\ d.cancelled = b.cancelled
              /\ d.table = b.table /\ d.link = b.link /\ d.procedure = b.procedure
              /\ d.subscribed = b.subscribed /\ d.pending = b.pending /\ d.informed = b.informed
              /\ d.free = b.free /\ Queue(d) = Queue(b)
  <1> DEFINE a == [b EXCEPT !.server = server]
             d == UpdateAdvertisingData(a)
  <1>1. Shaped(a) /\ a.server = server /\ a.store = b.store
        /\ a.connected = b.connected /\ a.cancelled = b.cancelled
        /\ a.table = b.table /\ a.link = b.link /\ a.procedure = b.procedure
        /\ a.subscribed = b.subscribed /\ a.pending = b.pending /\ a.informed = b.informed
        /\ a.free = b.free /\ a.sessions = b.sessions /\ a.failed = b.failed /\ a.adv = b.adv
    BY DEF Shaped
  <1> HIDE DEF a
  <1>2. KeyFits(Radio(a)) /\ TimersFit(Radio(a)) /\ NoncesFit(Radio(a), K, S)
    BY <1>1 DEF RadioFits, KeyFits, TimersFit, NoncesFit, Radio
  <1>3. Shaped(d) /\ RadioFits(Radio(d), K, S) /\ SameLink(a, d) /\ d.store = a.store
    BY <1>1, <1>2, UpdateTunes
  <1>4. QED
    BY <1>1, <1>3 DEF SameLink, Queue, a

LEMMA StoppedFits ==
    ASSUME NEW b, NEW K, NEW S, IsAtRest(b, K, S)
    PROVE  LET d == Stopped(b)
           IN IsAtRest(d, K, S) /\ d.connected = b.connected /\ d.store = b.store
  <1> DEFINE stopping == "Stopping"
             d == UpdateAdvertisingData([b EXCEPT !.server = stopping])
             e == [d EXCEPT !.server = "Idle"]
             c == CancelConnection(d)
             s == Stopped(b)
  <1>1. /\ IsSound(b, K, S) /\ Shaped(b) /\ LinkFits(b) /\ SubscriptionsFit(b)
        /\ RadioFits(Radio(b), K, S)
    BY DEF IsAtRest, IsSound
  <1>2. /\ Shaped(d) /\ RadioFits(Radio(d), K, S) /\ d.server = stopping /\ d.store = b.store
        /\ d.connected = b.connected /\ d.cancelled = b.cancelled
        /\ d.table = b.table /\ d.link = b.link /\ d.procedure = b.procedure
        /\ d.subscribed = b.subscribed /\ d.pending = b.pending /\ d.informed = b.informed
        /\ d.free = b.free /\ Queue(d) = Queue(b)
    BY <1>1, RetunedFits
  <1>3. s = IF b.server = "Idle" THEN b
            ELSE IF ~b.connected THEN e ELSE IF b.link.safe THEN c ELSE d
    BY DEF Stopped
  <1> HIDE DEF d, s
  <1>4. SubscriptionsFit(d) /\ IsTimed(d) /\ IsBlocked(Queue(d))
        /\ ((d.link.terminal /\ d.connected) \/ (IsProcedure(d.procedure) /\ RequestFits(d.procedure)))
    BY <1>1, <1>2 DEF SubscriptionsFit, IsSecured, IsAtRest, IsTimed
  <1>5. CASE b.server = "Idle"
    BY <1>3, <1>5 DEF s
  <1>6. CASE b.server # "Idle" /\ ~b.connected
    <2>1. /\ Shaped(e) /\ e.server = "Idle" /\ e.connected = d.connected /\ e.cancelled = d.cancelled
          /\ e.table = d.table /\ e.link = d.link /\ e.procedure = d.procedure
          /\ e.subscribed = d.subscribed /\ e.pending = d.pending /\ e.informed = d.informed
          /\ e.free = d.free /\ e.store = d.store /\ e.adv = d.adv /\ e.air = d.air
          /\ e.failed = d.failed /\ e.sessions = d.sessions
      BY <1>2 DEF Shaped
    <2> HIDE DEF e
    <2>2. RadioFits(Radio(e), K, S)
      BY <1>2, <2>1 DEF RadioFits, KeyFits, TimersFit, AirFits, NoncesFit, Radio
    <2>3. LinkFits(e) /\ SubscriptionsFit(e) /\ IsTimed(e) /\ Queue(e) = Queue(d)
      BY <1>1, <1>2, <1>4, <1>6, <2>1 DEF LinkFits, SubscriptionsFit, IsSecured, IsTimed, Queue
    <2>4. IsAtRest(e, K, S)
      BY <1>4, <2>1, <2>2, <2>3 DEF IsAtRest, IsSound
    <2>5. QED
      BY <1>2, <1>3, <1>6, <2>1, <2>4 DEF s
  <1>7. CASE b.server # "Idle" /\ b.connected /\ b.link.safe
    <2>1. /\ Shaped(c) /\ c.cancelled = TRUE /\ c.server = d.server /\ c.connected = d.connected
          /\ c.table = d.table /\ c.link = d.link /\ c.procedure = d.procedure
          /\ c.subscribed = d.subscribed /\ c.pending = d.pending /\ c.informed = d.informed
          /\ c.free = d.free /\ c.store = d.store /\ Radio(c) = Radio(d)
      BY <1>2 DEF Shaped, CancelConnection, Radio
    <2> HIDE DEF c
    <2>2. LinkFits(c) /\ SubscriptionsFit(c) /\ IsTimed(c) /\ Queue(c) = Queue(d)
      BY <1>1, <1>2, <1>4, <1>7, <2>1 DEF LinkFits, SubscriptionsFit, IsSecured, IsTimed, Queue
    <2>3. IsAtRest(c, K, S)
      BY <1>2, <1>4, <2>1, <2>2 DEF IsAtRest, IsSound
    <2>4. QED
      BY <1>2, <1>3, <1>7, <2>1, <2>3 DEF s
  <1>8. CASE b.server # "Idle" /\ b.connected /\ ~b.link.safe
    <2>1. LinkFits(d)
      BY <1>1, <1>2, <1>8 DEF LinkFits
    <2>2. IsAtRest(d, K, S)
      BY <1>2, <1>4, <2>1 DEF IsAtRest, IsSound
    <2>3. QED
      BY <1>2, <1>3, <1>8, <2>2 DEF s
  <1>9. QED
    BY <1>5, <1>6, <1>7, <1>8

LEMMA StartedFits ==
    ASSUME NEW b, NEW K, NEW S, IsAtRest(b, K, S), b.server = "Idle"
    PROVE  LET d == Started(b)
           IN IsAtRest(d, K, S) /\ d.connected = b.connected /\ d.store = b.store
  <1> DEFINE running == "Running"
             d == UpdateAdvertisingData([b EXCEPT !.server = running])
  <1>1. /\ IsSound(b, K, S) /\ Shaped(b) /\ LinkFits(b) /\ SubscriptionsFit(b)
        /\ RadioFits(Radio(b), K, S)
    BY DEF IsAtRest, IsSound
  <1>2. /\ Shaped(d) /\ RadioFits(Radio(d), K, S) /\ d.server = running /\ d.store = b.store
        /\ d.connected = b.connected /\ d.cancelled = b.cancelled
        /\ d.table = b.table /\ d.link = b.link /\ d.procedure = b.procedure
        /\ d.subscribed = b.subscribed /\ d.pending = b.pending /\ d.informed = b.informed
        /\ d.free = b.free /\ Queue(d) = Queue(b)
    BY <1>1, RetunedFits
  <1>3. d = Started(b)
    BY DEF Started
  <1> HIDE DEF d
  <1>4. LinkFits(d) /\ SubscriptionsFit(d) /\ IsTimed(d)
    BY <1>1, <1>2 DEF LinkFits, SubscriptionsFit, IsSecured, IsAtRest, IsTimed
  <1>5. IsAtRest(d, K, S)
    BY <1>2, <1>4 DEF IsAtRest, IsSound
  <1>6. QED
    BY <1>2, <1>3, <1>5

\* A controller connects.
LEMMA ConnectedFits ==
    ASSUME instance \in Instances, NEW b, NEW K, NEW S, IsAtRest(b, K, S), ~b.connected,
           b.air.kind # "none", K \in Nat, K <= b.sessions
    PROVE  IsServing(Connected(b), K, S)
  <1> DEFINE r == ResetEventState(AbortAllFallbackProcedures(b))
             a == [r EXCEPT !.connected = TRUE, !.link = CreateSession, !.free = instance.queue,
                            !.sessions = @ + 1]
             d == DidConnect(a)
  <1>1. /\ IsSound(b, K, S) /\ Shaped(b) /\ LinkFits(b) /\ SubscriptionsFit(b)
        /\ KeyFits(Radio(b)) /\ TimersFit(Radio(b)) /\ AirFits(Radio(b)) /\ NoncesFit(Radio(b), K, S)
    BY DEF IsAtRest, IsSound, RadioFits
  <1>2. /\ Shaped(r) /\ r.server = b.server /\ r.cancelled = b.cancelled /\ r.failed = b.failed
        /\ r.table = b.table /\ r.procedure = b.procedure /\ r.informed = b.informed
        /\ r.subscribed = {} /\ r.pending = {} /\ r.adv = b.adv /\ r.store = b.store /\ r.air = b.air
        /\ r.sessions = b.sessions
    BY <1>1 DEF Shaped, ResetEventState, AbortAllFallbackProcedures
  <1>3. d = Connected(b)
    BY DEF Connected
  <1> HIDE DEF r
  <1>4. DOMAIN CreateSession = {"security", "admin", "terminal", "safe", "linkTimer", "pairingTimer", "verifying"}
        /\ CreateSession.security = "None" /\ ~CreateSession.terminal
    BY DEF CreateSession, NoLink
  <1>5. /\ Shaped(a) /\ a.connected = TRUE /\ a.link = CreateSession /\ a.free = instance.queue
        /\ a.sessions = b.sessions + 1 /\ a.server = b.server /\ a.failed = b.failed
        /\ a.table = b.table /\ a.procedure = b.procedure /\ a.informed = b.informed
        /\ a.subscribed = {} /\ a.pending = {} /\ a.adv = b.adv /\ a.store = b.store
    BY <1>2, <1>4 DEF Shaped
  <1> HIDE DEF a
  <1>6. /\ ~b.failed /\ ~b.adv.connected /\ b.adv.fastStarted /\ b.server = "Running"
        /\ b.informed = {} /\ b.table = instance.table /\ b.sessions \in Nat
    BY <1>1 DEF TimersFit, AirFits, KeyFits, Radio, LinkFits, SubscriptionsFit
  <1>7. KeyFits(Radio(a)) /\ NoncesFit(Radio(a), K, S)
    <2>1. a.sessions \in Nat /\ a.sessions >= 1 /\ a.sessions # K /\ b.sessions <= a.sessions
      BY <1>5, <1>6
    <2>2. KeyFits(Radio(a))
      BY <1>1, <1>5, <1>6, <2>1 DEF KeyFits, Radio
    <2>3. NoncesFit(Radio(a), K, S)
      BY <1>1, <1>5, <2>1 DEF NoncesFit, Radio
    <2>4. QED
      BY <2>2, <2>3
  <1>8. Shaped(d) /\ RadioFits(Radio(d), K, S) /\ SameLink(a, d)
    BY <1>5, <1>6, <1>7, DidConnectFits
  <1> HIDE DEF d
  <1>9. /\ d.server = "Running" /\ d.connected = TRUE /\ d.link = CreateSession /\ d.free = instance.queue
        /\ d.table = instance.table /\ d.procedure = b.procedure /\ d.informed = {}
        /\ d.subscribed = {} /\ d.pending = {}
    BY <1>5, <1>6, <1>8 DEF SameLink
  <1>10. instance.queue \in Nat
    BY InstancesAssumption
  <1>11. LinkFits(d) /\ SubscriptionsFit(d) /\ IsTimed(d) /\ IsBlocked(Queue(d))
    BY <1>4, <1>9, <1>10 DEF LinkFits, SubscriptionsFit, IsSecured, IsTimed, IsBlocked, Queue
  <1>12. IsProcedure(d.procedure) /\ RequestFits(d.procedure)
    BY <1>9 DEF IsAtRest
  <1>13. QED
    BY <1>3, <1>8, <1>9, <1>11, <1>12 DEF IsServing, IsAtRest, IsSound

\* The controller is gone.
LEMMA DisconnectedFits ==
    ASSUME instance \in Instances, NEW b, NEW K, NEW S, IsServing(b, K, S)
    PROVE  LET d == Disconnected(b)
           IN /\ IsAtRest(d, K, S) /\ ~d.connected
              /\ d.store.gsn = b.store.gsn /\ ~d.store.didIncrement
  <1> DEFINE f == AbortAllFallbackProcedures(b)
             h == HandleSessionInvalidate(f)
             r == ResetEventState(h)
             a == [r EXCEPT !.connected = FALSE, !.cancelled = FALSE, !.link = NoLink, !.free = 0,
                            !.procedure = NoProcedure,
                            !.asked = [c \in Names |-> NotAsked], !.prepared = [c \in Names |-> "none"]]
             d == DidDisconnect(a)
  <1>1. /\ IsSound(b, K, S) /\ Shaped(b) /\ LinkFits(b) /\ SubscriptionsFit(b) /\ b.connected
        /\ KeyFits(Radio(b)) /\ TimersFit(Radio(b)) /\ NoncesFit(Radio(b), K, S)
    BY ServingIsLive DEF IsSound, RadioFits
  <1>2. Disconnected(b) = IF d.server = "Running" THEN d ELSE Stopped(d)
    BY DEF Disconnected
  <1>3. /\ Shaped(f) /\ f.server = b.server /\ f.failed = b.failed /\ f.link = b.link
        /\ f.table = b.table /\ f.informed = b.informed /\ f.subscribed = b.subscribed
        /\ f.adv = b.adv /\ f.store = b.store /\ f.sessions = b.sessions
    BY <1>1 DEF Shaped, AbortAllFallbackProcedures
  <1> HIDE DEF f
  <1>4. /\ Shaped(h) /\ h.server = b.server /\ h.failed = b.failed
        /\ h.table = b.table /\ h.informed = {}
        /\ h.adv = b.adv /\ h.store = b.store /\ h.sessions = b.sessions
    <2>1. CASE f.link.security = "None"
      BY <1>1, <1>3, <2>1 DEF HandleSessionInvalidate, SubscriptionsFit
    <2>2. CASE f.link.security # "None"
      BY <1>1, <1>3, <2>2 DEF HandleSessionInvalidate, HandleUnsubscribe, SubscriptionsFit, Shaped
    <2>3. QED
      BY <2>1, <2>2
  <1> HIDE DEF h
  <1>5. /\ Shaped(r) /\ r.server = b.server /\ r.failed = b.failed
        /\ r.table = b.table /\ r.informed = {} /\ r.subscribed = {}
        /\ r.adv = b.adv /\ r.store = b.store /\ r.sessions = b.sessions
    BY <1>4 DEF Shaped, ResetEventState
  <1> HIDE DEF r
  <1>6. DOMAIN NoLink = {"security", "admin", "terminal", "safe", "linkTimer", "pairingTimer", "verifying"}
        /\ NoLink.security = "None" /\ ~NoLink.terminal
    BY DEF NoLink
  <1>7. /\ Shaped(a) /\ a.server = b.server /\ a.failed = b.failed
        /\ a.connected = FALSE /\ a.link = NoLink /\ a.free = 0 /\ a.procedure = NoProcedure
        /\ a.table = b.table /\ a.informed = {} /\ a.subscribed = {}
        /\ a.adv = b.adv /\ a.store = b.store /\ a.sessions = b.sessions
    BY <1>5, <1>6 DEF Shaped
  <1> HIDE DEF a
  <1>8. KeyFits(Radio(a)) /\ NoncesFit(Radio(a), K, S)
    BY <1>1, <1>7 DEF KeyFits, NoncesFit, Radio
  <1>9. /\ ~b.failed /\ b.adv.connected /\ b.adv.fastStarted /\ ~b.adv.fastTimer /\ ~b.adv.timer
        /\ b.adv.event = NoChar
    BY <1>1 DEF TimersFit, Radio
  <1>10. /\ Shaped(d) /\ RadioFits(Radio(d), K, S) /\ SameLink(a, d)
         /\ d.store.gsn = a.store.gsn /\ ~d.store.didIncrement
    BY <1>7, <1>8, <1>9, DidDisconnectFits
  <1> HIDE DEF d
  <1>11. /\ d.connected = FALSE /\ d.link = NoLink /\ d.free = 0 /\ d.procedure = NoProcedure
         /\ d.table = b.table /\ d.informed = {} /\ d.subscribed = {}
    BY <1>7, <1>10 DEF SameLink
  <1>12. LinkFits(d) /\ SubscriptionsFit(d) /\ IsTimed(d) /\ IsBlocked(Queue(d))
    BY <1>1, <1>6, <1>11 DEF LinkFits, SubscriptionsFit, IsSecured, IsTimed, IsBlocked, Queue
  <1>13. IsAtRest(d, K, S)
    BY <1>10, <1>11, <1>12, CreatedFits DEF IsAtRest, IsSound
  <1> DEFINE s == Stopped(d)
  <1>14. IsAtRest(s, K, S) /\ s.connected = d.connected /\ s.store = d.store
    BY <1>13, StoppedFits
  <1> HIDE DEF s
  <1>15. Disconnected(b) = d \/ Disconnected(b) = s
    BY <1>2 DEF s
  <1>16. QED
    BY <1>7, <1>10, <1>11, <1>13, <1>14, <1>15

\* The pairing of the session is removed.
LEMMA PairingRemovedFits ==
    ASSUME NEW b, NEW K, NEW S, IsServing(b, K, S), b.link.security = "Secured", NEW last
    PROVE  IsServing([(IF last THEN ExpireKey(b) ELSE b) EXCEPT !.link.security = "Gone"], K, S)
  <1> DEFINE e == ExpireKey(b)
             a == IF last THEN e ELSE b
             gone == "Gone"
             d == [a EXCEPT !.link.security = gone]
  <1>1. /\ IsSound(b, K, S) /\ Shaped(b) /\ LinkFits(b) /\ SubscriptionsFit(b) /\ b.connected
        /\ RadioFits(Radio(b), K, S)
    BY ServingIsLive DEF IsSound
  <1>2. Shaped(e) /\ RadioFits(Radio(e), K, S) /\ SameLink(b, e)
    BY <1>1, ExpiredFits
  <1> HIDE DEF e
  <1>3. Shaped(a) /\ RadioFits(Radio(a), K, S) /\ SameLink(b, a)
    BY <1>1, <1>2 DEF SameLink
  <1> HIDE DEF a
  <1>4. gone \notin {"None", "Secured", "Transient"}
    OBVIOUS
  <1> HIDE DEF gone
  <1>5. /\ Shaped(d) /\ Radio(d) = Radio(a) /\ d.link.security = gone
        /\ d.link.terminal = a.link.terminal /\ d.link.safe = a.link.safe
        /\ d.server = a.server /\ d.connected = a.connected /\ d.cancelled = a.cancelled
        /\ d.table = a.table /\ d.procedure = a.procedure /\ d.subscribed = a.subscribed
        /\ d.informed = a.informed /\ d.free = a.free
    BY <1>3 DEF Shaped, Radio
  <1> HIDE DEF d
  <1>6. /\ d.link.terminal = b.link.terminal /\ d.link.safe = b.link.safe
        /\ d.server = b.server /\ d.connected = b.connected /\ d.cancelled = b.cancelled
        /\ d.table = b.table /\ d.procedure = b.procedure /\ d.subscribed = b.subscribed
        /\ d.informed = b.informed /\ d.free = b.free
    BY <1>3, <1>5 DEF SameLink
  <1>7. IsTimed(d) /\ IsBlocked(Queue(d))
    BY <1>4, <1>5 DEF IsTimed, IsBlocked, Queue
  <1>8. ~b.link.terminal
    BY <1>1 DEF LinkFits
  <1>9. LinkFits(d) /\ SubscriptionsFit(d)
    BY <1>1, <1>4, <1>5, <1>6, <1>8 DEF LinkFits, SubscriptionsFit, IsSecured
  <1>10. IsProcedure(d.procedure) /\ RequestFits(d.procedure)
    BY <1>6, <1>8, ServingIsLive
  <1>11. IsServing(d, K, S)
    BY <1>1, <1>3, <1>5, <1>6, <1>7, <1>9, <1>10 DEF IsServing, IsAtRest, IsSound
  <1>12. QED
    BY <1>11 DEF d, a, e, gone

\* The accessory after a start: only what the key-value store keeps is left.
Fresh(d, store) ==
    /\ Shaped(d) /\ d.store = store /\ d.server = "Running" /\ d.connected = FALSE /\ ~d.failed
    /\ d.table = instance.table /\ d.link = NoLink /\ d.procedure = NoProcedure
    /\ d.subscribed = {} /\ d.informed = {} /\ d.free = 0
    /\ d.adv.connected = FALSE /\ ~d.adv.timer /\ d.adv.event = NoChar /\ d.adv.fastStarted
    /\ d.air.kind = "regular"

LEMMA OffIsFresh ==
    ASSUME NEW store, NEW n,
           DOMAIN store = {"gsn", "didIncrement", "key", "expiration", "enabled", "token"}
    PROVE  /\ Fresh(Started(Off(store)), store)
           /\ Started(Off(store)).sessions = 0
           /\ Fresh([Started(Off(store)) EXCEPT !.sessions = n], store)
           /\ [Started(Off(store)) EXCEPT !.sessions = n].sessions = n
  <1> DEFINE o == Off(store)
             t == [o EXCEPT !.server = "Running"]
             a == [t EXCEPT !.air = OnAir(t)]
             d == DidStartAdvertising(a)
             e == [d EXCEPT !.sessions = n]
  <1>1. /\ Shaped(o) /\ o.store = store /\ o.connected = FALSE /\ ~o.failed
        /\ o.table = instance.table /\ o.link = NoLink /\ o.procedure = NoProcedure
        /\ o.subscribed = {} /\ o.informed = {} /\ o.free = 0 /\ o.sessions = 0
        /\ o.adv = NoAdv
    BY DEF Off, Shaped, NoAdv, NoLink
  <1> HIDE DEF o
  <1>2. /\ Shaped(t) /\ t.store = store /\ t.server = "Running" /\ t.connected = FALSE /\ ~t.failed
        /\ t.table = instance.table /\ t.link = NoLink /\ t.procedure = NoProcedure
        /\ t.subscribed = {} /\ t.informed = {} /\ t.free = 0 /\ t.sessions = 0
        /\ t.adv = NoAdv
    BY <1>1 DEF Shaped
  <1>3. Started(o) = UpdateAdvertisingData(t)
    BY DEF Started
  <1> HIDE DEF t
  <1>4. UpdateAdvertisingData(t) = d
    BY <1>2 DEF UpdateAdvertisingData, NoAdv
  <1>5. /\ Shaped(a) /\ a.store = store /\ a.server = "Running" /\ a.connected = FALSE /\ ~a.failed
        /\ a.table = instance.table /\ a.link = NoLink /\ a.procedure = NoProcedure
        /\ a.subscribed = {} /\ a.informed = {} /\ a.free = 0 /\ a.sessions = 0
        /\ a.adv = NoAdv /\ a.air = OnAir(t)
    BY <1>2 DEF Shaped
  <1>6. OnAir(t).kind = "regular"
    BY <1>2 DEF OnAir, NoAdv
  <1> HIDE DEF a
  <1>7. ~a.adv.fastStarted /\ ~a.adv.fastTimer /\ ~a.adv.timer /\ a.adv.event = NoChar
        /\ a.adv.connected = FALSE
    BY <1>5 DEF NoAdv
  <1>8. Fresh(d, store) /\ d.sessions = 0
    BY <1>5, <1>6, <1>7 DEF DidStartAdvertising, Fresh, Shaped
  <1> HIDE DEF d
  <1>9. Fresh(e, store) /\ e.sessions = n
    BY <1>8 DEF Fresh, Shaped
  <1>10. d = Started(Off(store))
    BY <1>3, <1>4 DEF o
  <1>11. QED
    BY <1>8, <1>9, <1>10 DEF e

LEMMA FreshFits ==
    ASSUME NEW d, NEW store, NEW K, NEW S, Fresh(d, store), KeyFits(Radio(d)), NoncesFit(Radio(d), K, S)
    PROVE  IsAtRest(d, K, S) /\ ~d.connected
  <1>1. TimersFit(Radio(d)) /\ AirFits(Radio(d))
    BY DEF Fresh, TimersFit, AirFits, Radio
  <1>2. DOMAIN NoLink = {"security", "admin", "terminal", "safe", "linkTimer", "pairingTimer", "verifying"}
        /\ NoLink.security = "None" /\ ~NoLink.terminal
    BY DEF NoLink
  <1>3. LinkFits(d) /\ SubscriptionsFit(d) /\ IsTimed(d) /\ IsBlocked(Queue(d))
    BY <1>2 DEF Fresh, LinkFits, SubscriptionsFit, IsSecured, IsTimed, IsBlocked, Queue
  <1>4. Shaped(d) /\ IsProcedure(d.procedure) /\ RequestFits(d.procedure)
    BY CreatedFits DEF Fresh
  <1>5. QED
    BY <1>1, <1>3, <1>4 DEF IsAtRest, IsSound, RadioFits, Fresh

-----------------------------------------------------------------------------
(* The invariant *)

\* Since the controller left with GSN x.gsn, the GSN has not changed or has come closer to the
\* expiration of the key, which was less than half the range away.
LeftWith(connected, store, x) ==
    ~connected /\ ~x.excused =>
        /\ x.gsn \in 1 .. MaxGSN
        /\ x.changed => store.didIncrement
        /\ ~store.didIncrement => x.gsn = store.gsn
        /\ store.didIncrement =>
               /\ x.gsn # store.gsn
               /\ store.expiration # 0 =>
                      /\ Dist(store.gsn, store.expiration) < Dist(x.gsn, store.expiration)
                      /\ Dist(x.gsn, store.expiration) < MaxGSN \div 2

LinkInv ==
    /\ instance \in Instances
    /\ IsAtRest(ble, ble.store.key, sealed)
    /\ NoncesAreFresh
    /\ DOMAIN base = {"gsn", "changed", "excused"}
    /\ LeftWith(ble.connected, ble.store, base)

\* What is broadcast after a callback has a nonce of its own.
LEMMA SealedFits ==
    ASSUME NEW d, IsAtRest(d, ble.store.key, sealed), NoncesAreFresh
    PROVE  /\ IsAtRest(d, d.store.key, Sealed(d))
           /\ \A x, y \in Sealed(d) : x.gsn = y.gsn => x = y
  <1> DEFINE K == ble.store.key
             J == d.store.key
             old == IF J = K THEN sealed ELSE {}
             e == [gsn |-> d.air.gsn, value |-> d.air.value]
             new == IF d.air.kind = "event" THEN {e} ELSE {}
             r == Radio(d)
  <1>1. Sealed(d) = old \cup new
    BY DEF Sealed
  <1>2. KeyFits(r) /\ TimersFit(r) /\ AirFits(r) /\ NoncesFit(r, K, sealed)
    BY DEF IsAtRest, IsSound, RadioFits
  <1>3. r.key = J
    BY DEF Radio
  <1>4. d.air.kind = "event" =>
            /\ r.adv.event # NoChar /\ e.gsn = r.gsn /\ e.value = r.adv.value
            /\ r.expiration # 0 /\ J # NoKey /\ ~r.connected
    BY <1>2 DEF AirFits, TimersFit, KeyFits, Silent, Radio
  <1>5. r.gsn \in 1 .. MaxGSN /\ r.expiration \in 0 .. MaxGSN
    BY <1>2 DEF KeyFits
  <1>6. e = [gsn |-> e.gsn, value |-> e.value]
    OBVIOUS
  <1>7. \A x \in old :
            /\ x = [gsn |-> x.gsn, value |-> x.value] /\ x.gsn \in 1 .. MaxGSN /\ r.expiration # 0
            /\ Dist(x.gsn, r.expiration) >= Dist(r.gsn, r.expiration)
            /\ r.adv.event # NoChar /\ x.gsn = r.gsn => x.value = r.adv.value
    BY <1>2, <1>3 DEF NoncesFit
  <1>8. J = NoKey => old = {}
    BY <1>2 DEF NoncesFit
  <1>9. r.connected /\ r.sessions = J => old = {}
    BY <1>2 DEF NoncesFit
  <1>10. \A x, y \in old : x.gsn = y.gsn => x = y
    BY DEF NoncesAreFresh
  <1> HIDE DEF K, J, old, e, r
  <1>11. CASE d.air.kind = "event"
    <2>1. Sealed(d) = old \cup {e}
      BY <1>1, <1>11
    <2>2. r.expiration \in 1 .. MaxGSN /\ Dist(r.gsn, r.expiration) \in Nat
      BY <1>4, <1>5, <1>11, DistIsBounded
    <2>3. Dist(e.gsn, r.expiration) >= Dist(r.gsn, r.expiration)
      BY <1>4, <1>11, <2>2
    <2>4. NoncesFit(r, J, old \cup {e})
      BY <1>4, <1>5, <1>6, <1>7, <1>11, <2>3 DEF NoncesFit
    <2>5. \A x \in old : x.gsn = e.gsn => x = e
      <3> SUFFICES ASSUME NEW x \in old, x.gsn = e.gsn PROVE x = e
        OBVIOUS
      <3>1. x.value = e.value
        BY <1>4, <1>7, <1>11
      <3>2. QED
        BY <1>6, <1>7, <3>1
    <2>6. \A x, y \in old \cup {e} : x.gsn = y.gsn => x = y
      BY <1>10, <2>5
    <2>7. IsAtRest(d, J, old \cup {e})
      BY <1>2, <2>4 DEF IsAtRest, IsSound, RadioFits, r
    <2>8. QED
      BY <2>1, <2>6, <2>7 DEF J
  <1>12. CASE d.air.kind # "event"
    <2>1. Sealed(d) = old
      BY <1>1, <1>12
    <2>2. NoncesFit(r, J, old)
      BY <1>7, <1>8, <1>9 DEF NoncesFit
    <2>3. IsAtRest(d, J, old)
      BY <1>2, <2>2 DEF IsAtRest, IsSound, RadioFits, r
    <2>4. QED
      BY <1>10, <2>1, <2>3 DEF J
  <1>13. QED
    BY <1>11, <1>12

\* Every event comes closer to the expiration of the key, or is the first one, or the last.
LEMMA CountedIsAnother ==
    ASSUME NEW b, NEW d, NEW x, KeyFits(Radio(b)), ~b.connected, LeftWith(b.connected, b.store, x),
           Counted(b, d)
    PROVE  /\ LeftWith(FALSE, d.store, x)
           /\ b.store.didIncrement => d.store.didIncrement
  <1> DEFINE g == b.store.gsn
             e == b.store.expiration
             h == Next1(g)
  <1>1. /\ g \in 1 .. MaxGSN /\ h \in 1 .. MaxGSN /\ h # g /\ e \in 0 .. MaxGSN
        /\ e # 0 => Dist(g, e) < MaxGSN \div 2
    BY NextIsAnother DEF KeyFits, Radio
  <1>2. e # 0 => Dist(g, e) \in Nat
    BY <1>1, DistIsBounded
  <1>3. e # 0 /\ e # g => Dist(h, e) = Dist(g, e) - 1
    BY <1>1, CountingIsCloser
  <1>4. MaxGSN \div 2 \in Nat
    BY HalfIsSmall
  <1> HIDE DEF h
  <1>5. CASE /\ d.store.gsn = g /\ d.store.didIncrement = b.store.didIncrement
             /\ d.store.expiration = e
    BY <1>5 DEF LeftWith
  <1>6. CASE /\ ~b.store.didIncrement \/ e \notin {0, g}
             /\ d.store.gsn = h /\ d.store.didIncrement
             /\ g # e => d.store.expiration = e
             /\ g = e => d.store.expiration = 0
    <2>1. CASE x.excused
      BY <1>6, <2>1 DEF LeftWith
    <2>2. CASE ~x.excused
      <3>1. /\ x.gsn \in 1 .. MaxGSN
            /\ ~b.store.didIncrement => x.gsn = g
            /\ b.store.didIncrement /\ e # 0 =>
                   Dist(g, e) < Dist(x.gsn, e) /\ Dist(x.gsn, e) < MaxGSN \div 2
        BY <2>2 DEF LeftWith
      <3>2. e # 0 => Dist(x.gsn, e) \in Nat
        BY <1>1, <3>1, DistIsBounded
      <3>3. CASE g = e
        BY <1>1, <1>6, <3>1, <3>3 DEF LeftWith
      <3>4. CASE g # e /\ e # 0
        <4>1. /\ d.store.expiration = e /\ Dist(h, e) < Dist(x.gsn, e)
              /\ Dist(x.gsn, e) < MaxGSN \div 2
          BY <1>1, <1>2, <1>3, <1>6, <3>1, <3>2, <3>4
        <4>2. x.gsn # h
          BY <1>2, <1>3, <3>2, <3>4, <4>1
        <4>3. QED
          BY <1>6, <3>1, <4>1, <4>2 DEF LeftWith
      <3>5. CASE g # e /\ e = 0
        BY <1>1, <1>6, <3>1, <3>5 DEF LeftWith
      <3>6. QED
        BY <3>3, <3>4, <3>5
    <2>3. QED
      BY <2>1, <2>2
  <1>7. QED
    BY <1>5, <1>6 DEF Counted, h

-----------------------------------------------------------------------------
(* Steps *)

\* A step becomes d.  Either a controller is there afterwards, or it left with what it knows,
\* or what happened while there was none has been counted.
LEMMA StepFits ==
    ASSUME LinkInv, NEW d, NEW changed, Becomes(d, changed), IsAtRest(d, ble.store.key, sealed),
           \/ d.connected
           \/ ble.connected /\ ~d.connected /\ ~d.store.didIncrement
           \/ ~ble.connected /\ ~d.connected /\ Counted(ble, d) /\ (changed => d.store.didIncrement)
    PROVE  LinkInv'
  <1>1. /\ ble' = d /\ sealed' = Sealed(d) /\ base' = Base(d, changed) /\ instance' = instance
    BY DEF Becomes
  <1>2. IsAtRest(d, d.store.key, Sealed(d)) /\ \A x, y \in Sealed(d) : x.gsn = y.gsn => x = y
    BY SealedFits DEF LinkInv
  <1>3. LeftWith(d.connected, d.store, base') /\ DOMAIN base' = {"gsn", "changed", "excused"}
    <2>1. DOMAIN base = {"gsn", "changed", "excused"} /\ LeftWith(ble.connected, ble.store, base)
          /\ KeyFits(Radio(ble)) /\ KeyFits(Radio(d))
      BY DEF LinkInv, IsAtRest, IsSound, RadioFits
    <2>2. CASE d.connected
      BY <1>1, <2>1, <2>2 DEF LeftWith, Base
    <2>3. CASE ble.connected /\ ~d.connected /\ ~d.store.didIncrement
      BY <1>1, <2>1, <2>3 DEF LeftWith, Base, KeyFits, Radio
    <2>4. CASE ~ble.connected /\ ~d.connected /\ Counted(ble, d) /\ (changed => d.store.didIncrement)
      <3> DEFINE new == base.changed \/ (changed /\ ~ble.connected)
      <3>1. base' = [base EXCEPT !.changed = new]
        BY <1>1, <2>4 DEF Base
      <3>2. /\ DOMAIN base' = DOMAIN base /\ base'.gsn = base.gsn /\ (base'.excused <=> base.excused)
            /\ (base'.changed <=> base.changed \/ (changed /\ ~ble.connected))
        BY <2>1, <3>1
      <3> HIDE DEF new
      <3>3. /\ LeftWith(FALSE, d.store, base)
            /\ ble.store.didIncrement => d.store.didIncrement
        BY <2>1, <2>4, CountedIsAnother
      <3>4. ~base.excused => (base.changed => ble.store.didIncrement)
        BY <2>1, <2>4 DEF LeftWith
      <3>5. ~base.excused => (base'.changed => d.store.didIncrement)
        BY <2>4, <3>2, <3>3, <3>4
      <3>6. LeftWith(d.connected, d.store, base')
        BY <2>4, <3>2, <3>3, <3>5 DEF LeftWith
      <3>7. QED
        BY <2>1, <3>2, <3>6
    <2>5. QED
      BY <2>2, <2>3, <2>4
  <1>4. IsAtRest(ble, ble.store.key, sealed)'
    BY <1>1, <1>2 DEF IsAtRest, IsSound, SubscriptionsFit
  <1>5. NoncesAreFresh'
    BY <1>1, <1>2 DEF NoncesAreFresh
  <1>6. LeftWith(ble.connected, ble.store, base)'
    BY <1>1, <1>3
  <1>7. QED
    BY <1>1, <1>3, <1>4, <1>5, <1>6 DEF LinkInv

\* Nothing is seen yet when a step starts.
LEMMA NowFits ==
    ASSUME LinkInv
    PROVE  /\ IsAtRest(Now, ble.store.key, sealed) /\ Alike(ble, Now)
           /\ (ble.connected => IsServing(Now, ble.store.key, sealed))
           /\ Now.connected = ble.connected /\ Now.store = ble.store /\ Now.link = ble.link
           /\ Now.server = ble.server /\ Now.adv = ble.adv /\ Now.air = ble.air
           /\ Now.sessions = ble.sessions
  <1>1. IsAtRest(ble, ble.store.key, sealed) /\ Shaped(ble)
    BY DEF LinkInv, IsAtRest, IsSound
  <1>2. Alike(ble, Now)
    BY <1>1 DEF Now, Alike, SameQueue, Shaped
  <1>3. IsAtRest(Now, ble.store.key, sealed)
    BY <1>1, <1>2, AlikeFits
  <1>4. QED
    BY <1>2, <1>3 DEF Alike, SameQueue, IsServing

\* The store is left alone, or a controller is there.
LEMMA KeptFits ==
    ASSUME LinkInv, NEW d, Becomes(d, FALSE), IsAtRest(d, ble.store.key, sealed),
           d.connected \/ (d.connected = ble.connected /\ d.store = ble.store)
    PROVE  LinkInv'
  <1> DEFINE f == FALSE
  <1>1. Becomes(d, f) /\ ~f
    OBVIOUS
  <1>2. d.connected = ble.connected /\ d.store = ble.store => Counted(ble, d)
    BY DEF Counted
  <1> HIDE DEF f
  <1>3. QED
    BY <1>1, <1>2, StepFits

LEMMA ConnectFits ==
    ASSUME LinkInv, Connect
    PROVE  LinkInv'
  <1> DEFINE K == ble.store.key
             d == Connected(Now)
  <1>1. ~ble.connected /\ ble.air.kind # "none" /\ Becomes(d, FALSE)
    BY DEF Connect
  <1>2. IsAtRest(Now, K, sealed) /\ ~Now.connected /\ Now.air.kind # "none" /\ Now.sessions = ble.sessions
    BY <1>1, NowFits
  <1>3. K \in Nat /\ K <= ble.sessions
    BY DEF LinkInv, IsAtRest, IsSound, RadioFits, KeyFits, Radio
  <1>4. IsServing(d, K, sealed)
    BY <1>2, <1>3, ConnectedFits DEF LinkInv
  <1> HIDE DEF d
  <1>5. IsAtRest(d, K, sealed) /\ d.connected
    BY <1>4 DEF IsServing
  <1>6. QED
    BY <1>1, <1>5, KeptFits

LEMMA DisconnectFits ==
    ASSUME LinkInv, Disconnect
    PROVE  LinkInv'
  <1> DEFINE K == ble.store.key
             d == Disconnected(Now)
             f == FALSE
  <1>1. ble.connected /\ Becomes(d, f)
    BY DEF Disconnect
  <1> HIDE DEF f
  <1>2. IsServing(Now, K, sealed)
    BY <1>1, NowFits
  <1>3. IsAtRest(d, K, sealed) /\ ~d.connected /\ ~d.store.didIncrement
    BY <1>2, DisconnectedFits DEF LinkInv
  <1> HIDE DEF d
  <1>4. QED
    BY <1>1, <1>3, StepFits

LEMMA WriteRequestFits ==
    ASSUME LinkInv, WriteRequest
    PROVE  LinkInv'
  <1> DEFINE K == ble.store.key
  <1>1. PICK c \in Elements : \E pdu \in instance.pdus[c.name], env \in WriteEnvs :
            Becomes(Noted(ValueWrite(Now, c, pdu, env), c, pdu), FALSE)
    BY DEF WriteRequest
  <1>2. PICK pdu \in instance.pdus[c.name], env \in WriteEnvs :
            Becomes(Noted(ValueWrite(Now, c, pdu, env), c, pdu), FALSE)
    BY <1>1
  <1> DEFINE a == ValueWrite(Now, c, pdu, env)
             d == Noted(a, c, pdu)
  <1>3. ble.connected /\ instance \in Instances
    BY DEF WriteRequest, LinkInv
  <1>4. pdu.kind = "first" => pdu.opcode \in Opcodes
    <2>1. PICK i \in 1 .. Len(instance.table) : c = instance.table[i]
      BY DEF Elements
    <2>2. QED
      BY <1>3, <2>1, InstancesAssumption
  <1>5. IsServing(Now, K, sealed)
    BY <1>3, NowFits
  <1>6. IsServing(a, K, sealed)
    BY <1>3, <1>4, <1>5, ValueWriteFits
  <1>7. Shaped(a)
    BY <1>6, ServingIsLive
  <1> HIDE DEF a
  <1>8. Alike(a, d)
    BY <1>7 DEF Noted, Alike, SameQueue, Shaped
  <1>9. Becomes(d, FALSE)
    BY <1>2 DEF a
  <1> HIDE DEF d
  <1>10. IsAtRest(d, K, sealed) /\ d.connected
    BY <1>6, <1>8, AlikeFits DEF IsServing
  <1>11. QED
    BY <1>9, <1>10, KeptFits

LEMMA ReadRequestFits ==
    ASSUME LinkInv, ReadRequest
    PROVE  LinkInv'
  <1> DEFINE K == ble.store.key
  <1>1. PICK c \in Elements : \E room \in instance.rooms, env \in ReadEnvs(ble, c) :
            Becomes(Prepared(ValueRead([Now EXCEPT !.seen.char = c.name], c, room, env), c), FALSE)
    BY DEF ReadRequest
  <1>2. PICK room \in instance.rooms, env \in ReadEnvs(ble, c) :
            Becomes(Prepared(ValueRead([Now EXCEPT !.seen.char = c.name], c, room, env), c), FALSE)
    BY <1>1
  <1> DEFINE n == [Now EXCEPT !.seen.char = c.name]
             a == ValueRead(n, c, room, env)
             d == Prepared(a, c)
  <1>3. ble.connected /\ instance \in Instances
    BY DEF ReadRequest, LinkInv
  <1>4. env.outcome \in {"next", "accepted", "error", "refused"}
    BY ReadsMeet
  <1>5. IsServing(Now, K, sealed) /\ Shaped(Now)
    BY <1>3, NowFits, ServingIsLive
  <1>6. Alike(Now, n)
    BY <1>5 DEF Alike, SameQueue, Shaped
  <1>7. Becomes(d, FALSE)
    BY <1>2
  <1> HIDE DEF n
  <1>8. IsServing(n, K, sealed)
    BY <1>5, <1>6, AlikeFits
  <1>9. IsServing(a, K, sealed)
    BY <1>3, <1>4, <1>8, ValueReadFits
  <1>10. Shaped(a)
    BY <1>9, ServingIsLive
  <1> HIDE DEF a
  <1>11. Alike(a, d)
    BY <1>10 DEF Prepared, Alike, SameQueue, Shaped
  <1> HIDE DEF d
  <1>12. IsAtRest(d, K, sealed) /\ d.connected
    BY <1>9, <1>11, AlikeFits DEF IsServing
  <1>13. QED
    BY <1>7, <1>12, KeptFits

LEMMA SubscribeFits ==
    ASSUME LinkInv, Subscribe
    PROVE  LinkInv'
  <1>1. PICK c \in Elements, enable \in BOOLEAN :
            c.notify /\ Becomes(SetNotificationsEnabled(Now, c, enable), FALSE)
    BY DEF Subscribe
  <1> DEFINE d == SetNotificationsEnabled(Now, c, enable)
  <1>2. IsServing(Now, ble.store.key, sealed) /\ instance \in Instances
    BY NowFits DEF Subscribe, LinkInv
  <1>3. IsServing(d, ble.store.key, sealed)
    BY <1>2, SetNotificationsEnabledFits
  <1>4. Becomes(d, FALSE)
    BY <1>1
  <1> HIDE DEF d
  <1>5. QED
    BY <1>3, <1>4, KeptFits DEF IsServing

LEMMA ReadyToUpdateSubscribersFits ==
    ASSUME LinkInv, ReadyToUpdateSubscribers
    PROVE  LinkInv'
  <1> DEFINE d == HandleReadyToUpdateSubscribers(Now)
  <1>1. IsServing(Now, ble.store.key, sealed) /\ instance \in Instances /\ Becomes(d, FALSE)
    BY NowFits DEF ReadyToUpdateSubscribers, LinkInv
  <1>2. IsServing(d, ble.store.key, sealed)
    BY <1>1, ReadyFits
  <1> HIDE DEF d
  <1>3. QED
    BY <1>1, <1>2, KeptFits DEF IsServing

LEMMA RaiseEventFits ==
    ASSUME LinkInv, RaiseEvent
    PROVE  LinkInv'
  <1> DEFINE K == ble.store.key
  <1>1. PICK c \in Elements, readable \in BOOLEAN, value \in 0 .. 1 :
            Becomes(DidRaiseEvent(Now, c, NoChar, readable, value), c.disconnected /\ readable)
    BY DEF RaiseEvent
  <1> DEFINE d == DidRaiseEvent(Now, c, NoChar, readable, value)
             changed == c.disconnected /\ readable
  <1>2. c.name # NoChar
    <2>1. PICK i \in 1 .. Len(instance.table) : c = instance.table[i]
      BY DEF Elements
    <2>2. QED
      BY <2>1, TableIsNamed DEF LinkInv
  <1>3. IsSound(Now, K, sealed) /\ IsBlocked(Queue(Now)) /\ instance \in Instances
    BY NowFits DEF IsAtRest, LinkInv
  <1>4. /\ IsSound(d, K, sealed) /\ IsBlocked(Queue(d))
        /\ d.link = Now.link /\ d.connected = Now.connected /\ d.procedure = Now.procedure
        /\ ~Now.connected => Counted(Now, d) /\ (c.disconnected /\ readable => d.store.didIncrement)
    BY <1>2, <1>3, DidRaiseEventFits
  <1>5. Becomes(d, changed)
    BY <1>1
  <1>6. changed <=> c.disconnected /\ readable
    OBVIOUS
  <1> HIDE DEF d, changed
  <1>7. IsAtRest(d, K, sealed)
    BY <1>4, NowFits DEF IsAtRest, IsTimed
  <1>8. /\ d.connected = ble.connected
        /\ ~ble.connected => Counted(ble, d) /\ (changed => d.store.didIncrement)
    BY <1>4, <1>6, NowFits DEF Counted
  <1>9. QED
    BY <1>5, <1>7, <1>8, StepFits

LEMMA TimersFire ==
    ASSUME LinkInv, LinkTimer \/ PairingTimer \/ SafeTimer \/ ProcedureTimer \/ FallbackTimer
    PROVE  LinkInv'
  <1> DEFINE K == ble.store.key
             t == SessionInvalidate([Now EXCEPT !.link.linkTimer = FALSE], TRUE)
             p == SessionInvalidate([Now EXCEPT !.link.pairingTimer = FALSE], TRUE)
             s == SafeToDisconnectTimerExpired(Now)
             r == ProcedureTimerExpired(Now)
             g(c) == SessionInvalidate([Now EXCEPT !.fallback[c.name] = NoFallback], TRUE)
             Same(d) == /\ IsAtRest(d, K, sealed)
                        /\ d.connected = ble.connected /\ d.store = ble.store
  <1>1. IsAtRest(Now, K, sealed) /\ Now.connected = ble.connected /\ Now.store = ble.store
    BY NowFits
  <1>2. Same(t)
    BY <1>1, LinkTimerFits
  <1>3. Same(p)
    BY <1>1, PairingTimerFits
  <1>4. Same(s)
    BY <1>1, SafeToDisconnectFits
  <1>5. Same(r)
    BY <1>1, ProcedureTimerFits
  <1>6. \A c : Same(g(c))
    <2> TAKE c
    <2>1. IsAtRest(g(c), K, sealed) /\ g(c).connected = Now.connected /\ g(c).store = Now.store
      BY <1>1, FallbackTimerFits
    <2>2. QED
      BY <1>1, <2>1
  <1>7. \/ Becomes(t, FALSE) \/ Becomes(p, FALSE) \/ Becomes(s, FALSE) \/ Becomes(r, FALSE)
        \/ \E c \in Elements : Becomes(g(c), FALSE)
    BY DEF LinkTimer, PairingTimer, SafeTimer, ProcedureTimer, FallbackTimer
  <1> HIDE DEF t, p, s, r, g
  <1>8. \E d : Same(d) /\ Becomes(d, FALSE)
    BY <1>2, <1>3, <1>4, <1>5, <1>6, <1>7
  <1>9. QED
    BY <1>8, KeptFits

LEMMA AdvertisingFires ==
    ASSUME LinkInv, FastTimer \/ EventTimer
    PROVE  LinkInv'
  <1> DEFINE K == ble.store.key
             f == AdvertisingTimerExpired([Now EXCEPT !.adv.fastTimer = FALSE])
             e == AdvertisingTimerExpired([Now EXCEPT !.adv.timer = FALSE])
  <1>1. /\ IsAtRest(Now, K, sealed) /\ Now.connected = ble.connected /\ Now.store = ble.store
        /\ Now.adv = ble.adv /\ Shaped(Now) /\ RadioFits(Radio(Now), K, sealed)
    BY NowFits DEF IsAtRest, IsSound
  <1>2. CASE FastTimer
    <2>1. ble.adv.fastTimer /\ Becomes(f, FALSE)
      BY <1>2 DEF FastTimer
    <2>2. Shaped(f) /\ RadioFits(Radio(f), K, sealed) /\ SameLink(Now, f) /\ f.store = Now.store
      BY <1>1, <2>1, FastTimerFits
    <2> HIDE DEF f
    <2>3. IsAtRest(f, K, sealed) /\ f.connected = Now.connected
      BY <1>1, <2>2, TunedFits
    <2>4. QED
      BY <1>1, <2>1, <2>2, <2>3, KeptFits
  <1>3. CASE EventTimer
    <2>1. ble.adv.timer /\ Becomes(e, FALSE)
      BY <1>3 DEF EventTimer
    <2>2. Shaped(e) /\ RadioFits(Radio(e), K, sealed) /\ SameLink(Now, e) /\ e.store = Now.store
      BY <1>1, <2>1, EventTimerFits
    <2> HIDE DEF e
    <2>3. IsAtRest(e, K, sealed) /\ e.connected = Now.connected
      BY <1>1, <2>2, TunedFits
    <2>4. QED
      BY <1>1, <2>1, <2>2, <2>3, KeptFits
  <1>4. QED
    BY <1>2, <1>3

LEMMA ServerSwitches ==
    ASSUME LinkInv, Stop \/ Start
    PROVE  LinkInv'
  <1> DEFINE K == ble.store.key
             p == Stopped(Now)
             t == Started(Now)
  <1>1. /\ IsAtRest(Now, K, sealed) /\ Now.connected = ble.connected /\ Now.store = ble.store
        /\ Now.server = ble.server
    BY NowFits
  <1>2. CASE Stop
    <2>1. IsAtRest(p, K, sealed) /\ p.connected = Now.connected /\ p.store = Now.store
      BY <1>1, StoppedFits
    <2>2. Becomes(p, FALSE)
      BY <1>2 DEF Stop
    <2> HIDE DEF p
    <2>3. QED
      BY <1>1, <2>1, <2>2, KeptFits
  <1>3. CASE Start
    <2>1. ble.server = "Idle" /\ Becomes(t, FALSE)
      BY <1>3 DEF Start
    <2>2. IsAtRest(t, K, sealed) /\ t.connected = Now.connected /\ t.store = Now.store
      BY <1>1, <2>1, StartedFits
    <2> HIDE DEF t
    <2>3. QED
      BY <1>1, <2>1, <2>2, KeptFits
  <1>4. QED
    BY <1>2, <1>3

LEMMA RemovePairingFits ==
    ASSUME LinkInv, RemovePairing
    PROVE  LinkInv'
  <1> DEFINE K == ble.store.key
  <1>1. PICK last \in BOOLEAN :
            Becomes([(IF last THEN ExpireKey(Now) ELSE Now) EXCEPT !.link.security = "Gone"], FALSE)
    BY DEF RemovePairing
  <1> DEFINE d == [(IF last THEN ExpireKey(Now) ELSE Now) EXCEPT !.link.security = "Gone"]
  <1>2. ble.link.security = "Secured" /\ ble.connected
    BY DEF RemovePairing, LinkInv, IsAtRest, IsSound, LinkFits
  <1>3. IsServing(Now, K, sealed) /\ Now.link.security = "Secured"
    BY <1>2, NowFits
  <1>4. IsServing(d, K, sealed)
    BY <1>3, PairingRemovedFits
  <1>5. Becomes(d, FALSE)
    BY <1>1
  <1> HIDE DEF d
  <1>6. QED
    BY <1>4, <1>5, KeptFits DEF IsServing

\* Power is lost, perhaps after the key has expired and before the GSN has been stored.
LEMMA LosePowerFits ==
    ASSUME LinkInv, LosePower
    PROVE  LinkInv'
  <1> DEFINE K == ble.store.key
             e == ExpireKey(ble).store
  <1>1. PICK store \in {ble.store} \cup (IF ble.store.gsn = ble.store.expiration THEN {e} ELSE {}) :
            LET b == [Started(Off(store)) EXCEPT !.sessions = ble.sessions]
            IN /\ ~ble.failed
               /\ ble' = b
               /\ sealed' = Sealed(b)
               /\ base' = IF ble.connected
                          THEN [gsn |-> store.gsn, changed |-> FALSE, excused |-> store.didIncrement]
                          ELSE base
    BY DEF LosePower
  <1> DEFINE d == [Started(Off(store)) EXCEPT !.sessions = ble.sessions]
  <1>2. /\ IsAtRest(ble, K, sealed) /\ Shaped(ble) /\ KeyFits(Radio(ble)) /\ NoncesFit(Radio(ble), K, sealed)
        /\ LeftWith(ble.connected, ble.store, base) /\ DOMAIN base = {"gsn", "changed", "excused"}
    BY DEF LinkInv, IsAtRest, IsSound, RadioFits
  <1>3. /\ DOMAIN e = DOMAIN ble.store /\ e.gsn = ble.store.gsn /\ e.key = NoKey /\ e.expiration = 0
        /\ e.didIncrement = ble.store.didIncrement
    BY <1>2 DEF ExpireKey, Shaped
  <1> HIDE DEF e
  <1>4. /\ DOMAIN store = {"gsn", "didIncrement", "key", "expiration", "enabled", "token"}
        /\ store.gsn = ble.store.gsn /\ store.didIncrement = ble.store.didIncrement
        /\ \/ store.key = NoKey /\ store.expiration = 0
           \/ store.key = K /\ store.expiration = ble.store.expiration
    BY <1>1, <1>2, <1>3 DEF Shaped
  <1>5. /\ ble' = d /\ sealed' = Sealed(d) /\ instance' = instance
        /\ base' = IF ble.connected
                   THEN [gsn |-> store.gsn, changed |-> FALSE, excused |-> store.didIncrement]
                   ELSE base
    BY <1>1 DEF LosePower
  <1>6. Fresh(d, store) /\ d.sessions = ble.sessions
    BY <1>4, OffIsFresh
  <1> HIDE DEF d
  <1>7. KeyFits(Radio(d))
    BY <1>2, <1>4, <1>6, HalfIsSmall DEF KeyFits, Radio, Fresh, NoKey
  <1>8. NoncesFit(Radio(d), K, sealed)
    BY <1>2, <1>4, <1>6 DEF NoncesFit, Radio, Fresh
  <1>9. IsAtRest(d, K, sealed) /\ ~d.connected
    BY <1>6, <1>7, <1>8, FreshFits
  <1>10. /\ IsAtRest(d, d.store.key, Sealed(d))
         /\ \A x, y \in Sealed(d) : x.gsn = y.gsn => x = y
    BY <1>9, SealedFits DEF LinkInv
  <1>11. LeftWith(d.connected, d.store, base') /\ DOMAIN base' = {"gsn", "changed", "excused"}
    <2>1. d.store = store /\ store.gsn \in 1 .. MaxGSN
      BY <1>2, <1>4, <1>6 DEF Fresh, KeyFits, Radio
    <2>2. CASE ble.connected
      BY <1>5, <1>9, <2>1, <2>2 DEF LeftWith
    <2>3. CASE ~ble.connected
      <3>1. LeftWith(d.connected, d.store, base)
        BY <1>2, <1>4, <2>1, <2>3 DEF LeftWith
      <3>2. QED
        BY <1>2, <1>5, <2>3, <3>1
    <2>4. QED
      BY <2>2, <2>3
  <1>12. IsAtRest(ble, ble.store.key, sealed)'
    BY <1>5, <1>10 DEF IsAtRest, IsSound, SubscriptionsFit
  <1>13. NoncesAreFresh'
    BY <1>5, <1>10 DEF NoncesAreFresh
  <1>14. QED
    BY <1>5, <1>11, <1>12, <1>13 DEF LinkInv

LEMMA InitFits ==
    ASSUME Init
    PROVE  LinkInv
  <1>1. PICK gsn \in instance.gsns, token \in instance.tokens :
            /\ ble = Started(Off([gsn |-> gsn, didIncrement |-> FALSE, key |-> NoKey, expiration |-> 0,
                                  enabled |-> {}, token |-> token]))
            /\ base = [gsn |-> gsn, changed |-> FALSE, excused |-> FALSE]
    BY DEF Init
  <1> DEFINE store == [gsn |-> gsn, didIncrement |-> FALSE, key |-> NoKey, expiration |-> 0,
                       enabled |-> {}, token |-> token]
  <1>2. instance \in Instances /\ sealed = {} /\ gsn \in 1 .. MaxGSN
    BY InstancesAssumption DEF Init
  <1>3. /\ DOMAIN store = {"gsn", "didIncrement", "key", "expiration", "enabled", "token"}
        /\ store.gsn = gsn /\ ~store.didIncrement /\ store.key = NoKey /\ store.expiration = 0
    OBVIOUS
  <1>4. ble = Started(Off(store))
    BY <1>1
  <1> HIDE DEF store
  <1>5. Fresh(ble, store) /\ ble.sessions = 0
    BY <1>3, <1>4, OffIsFresh
  <1>6. KeyFits(Radio(ble)) /\ NoncesFit(Radio(ble), ble.store.key, sealed)
    BY <1>2, <1>3, <1>5, HalfIsSmall DEF Fresh, KeyFits, NoncesFit, Radio, NoKey
  <1>7. IsAtRest(ble, ble.store.key, sealed)
    BY <1>5, <1>6, FreshFits
  <1>8. LeftWith(ble.connected, ble.store, base) /\ DOMAIN base = {"gsn", "changed", "excused"}
    BY <1>1, <1>2, <1>3, <1>5 DEF LeftWith, Fresh
  <1>9. QED
    BY <1>2, <1>7, <1>8 DEF LinkInv, NoncesAreFresh

\* Every step of the link keeps the invariant.
LEMMA LinkInvHolds == Spec => []LinkInv
  <1>1. Init => LinkInv
    BY InitFits
  <1>2. LinkInv /\ [Next]_vars => LinkInv'
    <2> SUFFICES ASSUME LinkInv, [Next]_vars PROVE LinkInv'
      OBVIOUS
    <2>1. CASE Next
      BY <2>1, ConnectFits, DisconnectFits, WriteRequestFits, ReadRequestFits, SubscribeFits,
         ReadyToUpdateSubscribersFits, RaiseEventFits, TimersFire, AdvertisingFires, ServerSwitches,
         RemovePairingFits, LosePowerFits
      DEF Next
    <2>2. CASE UNCHANGED vars
      BY <2>2 DEF vars, LinkInv, NoncesAreFresh, IsAtRest, IsSound, SubscriptionsFit
    <2>3. QED
      BY <2>1, <2>2
  <1>3. QED
    BY <1>1, <1>2, PTL DEF Spec

-----------------------------------------------------------------------------
(* Requests and their answers *)

\* What procedures and their controller know is left alone, and a link that has to end does.
SameTalk(b, d) ==
    /\ Shaped(d) /\ d.table = b.table /\ d.connected = b.connected
    /\ d.procedure = b.procedure /\ d.fallback = b.fallback
    /\ d.asked = b.asked /\ d.prepared = b.prepared /\ d.seen = b.seen
    /\ b.link.terminal => d.link.terminal

LEMMA SameTalkTwice ==
    ASSUME NEW b, NEW d, NEW e, SameTalk(b, d), SameTalk(d, e)
    PROVE  SameTalk(b, e)
  BY DEF SameTalk

LEMMA UpdateTalks ==
    ASSUME NEW b, Shaped(b)
    PROVE  SameTalk(b, UpdateAdvertisingData(b))
  BY DEF UpdateAdvertisingData, Asserted, DidStartAdvertising, Shaped, SameTalk

LEMMA IncrementTalks ==
    ASSUME NEW b, Shaped(b)
    PROVE  SameTalk(b, IncrementGSN(b))
  BY DEF IncrementGSN, ExpireKey, Shaped, SameTalk

LEMMA AssertedTalks ==
    ASSUME NEW b, Shaped(b), NEW condition
    PROVE  SameTalk(b, Asserted(b, condition))
  BY DEF Asserted, Shaped, SameTalk

LEMMA CountOnceTalks ==
    ASSUME NEW b, Shaped(b)
    PROVE  SameTalk(b, CountOnce(b))
  <1> DEFINE a == Asserted(b, b.adv.event = NoChar /\ ~b.adv.timer)
  <1>1. SameTalk(b, a)
    BY AssertedTalks
  <1> HIDE DEF a
  <1>2. SameTalk(a, IncrementGSN(a))
    BY <1>1, IncrementTalks DEF SameTalk
  <1>3. SameTalk(b, IncrementGSN(a))
    BY <1>1, <1>2, SameTalkTwice
  <1>4. SameTalk(b, b)
    BY DEF SameTalk
  <1>5. QED
    BY <1>3, <1>4 DEF CountOnce, a

LEMMA BroadcastTalks ==
    ASSUME NEW b, Shaped(b), NEW c, NEW readable \in BOOLEAN, NEW value
    PROVE  SameTalk(b, Broadcast(b, c, readable, value))
  <1> DEFINE t == [b EXCEPT !.adv.timer = FALSE, !.adv.event = NoChar, !.adv.value = 0]
             s == UpdateAdvertisingData(t)
             n == IncrementGSN(s)
             m == [n EXCEPT !.adv.timer = TRUE, !.adv.event = c.name, !.adv.value = value]
             a == IF readable THEN m ELSE s
             d == UpdateAdvertisingData(a)
  <1>1. d = Broadcast(b, c, readable, value)
    BY DEF Broadcast
  <1>2. SameTalk(b, t)
    BY DEF SameTalk, Shaped
  <1> HIDE DEF t
  <1>3. SameTalk(t, s)
    BY <1>2, UpdateTalks DEF SameTalk
  <1> HIDE DEF s
  <1>4. SameTalk(s, n)
    BY <1>3, IncrementTalks DEF SameTalk
  <1> HIDE DEF n
  <1>5. SameTalk(n, m)
    BY <1>4 DEF SameTalk, Shaped
  <1> HIDE DEF m
  <1>6. SameTalk(s, m)
    BY <1>4, <1>5, SameTalkTwice
  <1>7. SameTalk(s, a)
    BY <1>3, <1>6 DEF SameTalk
  <1> HIDE DEF a
  <1>8. SameTalk(a, d)
    BY <1>7, UpdateTalks DEF SameTalk
  <1> HIDE DEF d
  <1>9. SameTalk(b, s)
    BY <1>2, <1>3, SameTalkTwice
  <1>10. SameTalk(b, a)
    BY <1>7, <1>9, SameTalkTwice
  <1>11. QED
    BY <1>1, <1>8, <1>10, SameTalkTwice

LEMMA CountedEventTalks ==
    ASSUME NEW b, Shaped(b), NEW c, NEW readable \in BOOLEAN, NEW value
    PROVE  SameTalk(b, CountedEvent(b, c, readable, value))
  <1> DEFINE d == CountedEvent(b, c, readable, value)
             n == CountOnce(b)
             m == [n EXCEPT !.adv.timer = TRUE]
             u == UpdateAdvertisingData(m)
  <1>1. SameTalk(b, b)
    BY DEF SameTalk
  <1>2. SameTalk(b, n)
    BY CountOnceTalks
  <1>3. d \in {b, n, u, Broadcast(b, c, readable, value)}
    BY DEF CountedEvent
  <1> HIDE DEF d, n
  <1>4. SameTalk(n, m)
    BY <1>2 DEF SameTalk, Shaped
  <1> HIDE DEF m
  <1>5. SameTalk(m, u)
    BY <1>4, UpdateTalks DEF SameTalk
  <1> HIDE DEF u
  <1>6. SameTalk(b, u)
    BY <1>2, <1>4, <1>5, SameTalkTwice
  <1>7. SameTalk(b, d)
    BY <1>1, <1>2, <1>3, <1>6, BroadcastTalks
  <1>8. QED
    BY <1>7 DEF d

LEMMA OfferedTalks ==
    ASSUME NEW b, Shaped(b), NEW c
    PROVE  SameTalk(b, Offered(b, c))
  <1> DEFINE a == [b EXCEPT !.pending = @ \ {c.name}, !.free = @ - 1]
             e == Asserted(a, a.adv.connected)
  <1>1. SameTalk(b, a)
    BY DEF Shaped, SameTalk
  <1> HIDE DEF a
  <1>2. SameTalk(a, e)
    BY <1>1, AssertedTalks DEF SameTalk
  <1> HIDE DEF e
  <1>3. SameTalk(e, CountOnce(e))
    BY <1>2, CountOnceTalks DEF SameTalk
  <1>4. SameTalk(b, CountOnce(e))
    BY <1>1, <1>2, <1>3, SameTalkTwice
  <1>5. Indicated(b, c) = CountOnce(e)
    BY DEF Indicated, DidSendEventNotification, a, e
  <1>6. SameTalk(b, b)
    BY DEF SameTalk
  <1>7. QED
    BY <1>4, <1>5, <1>6 DEF Offered

\* The loop over the table.
LEMMA SendPendingTalks ==
    ASSUME NEW b, Shaped(b), Len(b.table) \in Nat
    PROVE  SameTalk(b, SendPendingEventNotifications(b))
  <1> DEFINE n == Len(b.table)
             d == SendPendingEventNotifications(b)
             IsLoop(f) == f = [i \in 0 .. Len(b.table) |-> IF i = 0 THEN b ELSE Offered(f[i - 1], b.table[i])]
  <1>1. SameTalk(b, b)
    BY DEF SameTalk
  <1>2. CASE ~IsSecured(b) \/ IsTransient(b)
    BY <1>1, <1>2 DEF SendPendingEventNotifications
  <1>3. CASE ~(~IsSecured(b) \/ IsTransient(b))
    <2>1. IsLoop(CHOOSE f : IsLoop(f))
      <3>1. \E f : IsLoop(f)
        BY LoopExists
      <3>2. QED
        BY <3>1
    <2>2. d = (CHOOSE f : IsLoop(f))[Len(b.table)]
      BY <1>3 DEF SendPendingEventNotifications
    <2>3. PICK f : IsLoop(f) /\ d = f[n]
      BY <2>1, <2>2
    <2>4. f[0] = b /\ \A k \in Nat : k + 1 <= n => f[k + 1] = Offered(f[k], b.table[k + 1])
      BY <2>3
    <2> HIDE DEF d, IsLoop
    <2> DEFINE Good == {k \in Nat : k <= n => SameTalk(b, f[k])}
    <2>5. 0 \in Good
      BY <1>1, <2>4
    <2>6. ASSUME NEW k \in Good \cap Nat PROVE k + 1 \in Good
      <3> SUFFICES ASSUME k + 1 <= n PROVE SameTalk(b, f[k + 1])
        OBVIOUS
      <3>1. SameTalk(b, f[k]) /\ f[k + 1] = Offered(f[k], b.table[k + 1])
        BY <2>4
      <3>2. SameTalk(f[k], f[k + 1])
        BY <3>1, OfferedTalks DEF SameTalk
      <3>3. QED
        BY <3>1, <3>2, SameTalkTwice
    <2> HIDE DEF Good
    <2>7. n \in Good
      BY <2>5, <2>6, SetInduction
    <2>8. QED
      BY <2>3, <2>7 DEF Good, d
  <1>4. QED
    BY <1>2, <1>3

\* What the session does to itself.
LEMMA LinkTalks ==
    ASSUME NEW b, Shaped(b)
    PROVE  /\ SameTalk(b, DidSendGATTResponse(b)) /\ SameTalk(b, CancelConnection(b))
           /\ SameTalk(b, SafeToDisconnectTimerExpired(b))
           /\ SameTalk(b, DidStartBLEProcedure(b)) /\ SameTalk(b, DidStartPairingProcedure(b))
           /\ SameTalk(b, DidCompletePairVerify(b))
  <1>1. SameTalk(b, b)
    BY DEF SameTalk
  <1>2. SameTalk(b, DidSendGATTResponse(b))
    BY DEF DidSendGATTResponse, Shaped, SameTalk
  <1>3. SameTalk(b, CancelConnection(b))
    BY DEF CancelConnection, Shaped, SameTalk
  <1>4. SameTalk(b, SafeToDisconnectTimerExpired(b))
    BY DEF SafeToDisconnectTimerExpired, Shaped, SameTalk
  <1>5. SameTalk(b, DidStartBLEProcedure(b))
    <2>1. SameTalk(b, [b EXCEPT !.link.linkTimer = IsSecured(b)])
      BY DEF Shaped, SameTalk
    <2>2. QED
      BY <1>1, <2>1 DEF DidStartBLEProcedure
  <1>6. SameTalk(b, DidStartPairingProcedure(b))
    <2>1. SameTalk(b, [b EXCEPT !.link.pairingTimer = TRUE])
      BY DEF Shaped, SameTalk
    <2>2. QED
      BY <1>1, <2>1 DEF DidStartPairingProcedure
  <1>7. SameTalk(b, DidCompletePairVerify(b))
    <2>1. SameTalk(b, [b EXCEPT !.link.pairingTimer = FALSE, !.link.linkTimer = @ \/ IsSecured(b)])
      BY DEF Shaped, SameTalk
    <2>2. QED
      BY <1>1, <2>1 DEF DidCompletePairVerify
  <1>8. QED
    BY <1>2, <1>3, <1>4, <1>5, <1>6, <1>7

LEMMA SessionInvalidateTalks ==
    ASSUME NEW b, Shaped(b), NEW terminate \in BOOLEAN
    PROVE  /\ SameTalk(b, SessionInvalidate(b, terminate))
           /\ terminate => SessionInvalidate(b, terminate).link.terminal
  <1> DEFINE h == HandleSessionInvalidate(b)
             l == [NoLink EXCEPT !.terminal = @ \/ terminate \/ b.link.terminal, !.safe = b.link.safe]
             d == [h EXCEPT !.link = l, !.cancelled = @ \/ (terminate /\ b.link.safe /\ b.connected)]
  <1>1. SameTalk(b, h)
    BY DEF HandleSessionInvalidate, HandleUnsubscribe, Shaped, SameTalk
  <1>2. /\ DOMAIN l = {"security", "admin", "terminal", "safe", "linkTimer", "pairingTimer", "verifying"}
        /\ (b.link.terminal \/ terminate => l.terminal)
    BY DEF NoLink
  <1>3. d = SessionInvalidate(b, terminate)
    BY DEF SessionInvalidate
  <1> HIDE DEF h, l
  <1>4. /\ Shaped(d) /\ d.link = l /\ d.table = h.table /\ d.connected = h.connected /\ d.procedure = h.procedure
        /\ d.fallback = h.fallback /\ d.asked = h.asked /\ d.prepared = h.prepared /\ d.seen = h.seen
    BY <1>1, <1>2 DEF Shaped, SameTalk
  <1> HIDE DEF d
  <1>5. SameTalk(b, d) /\ (terminate => d.link.terminal)
    BY <1>1, <1>2, <1>4 DEF SameTalk
  <1>6. QED
    BY <1>3, <1>5

\* Events of a connection.
LEMMA NotifiedTalks ==
    ASSUME NEW b, Shaped(b), Len(b.table) \in Nat, NEW c, NEW writing
    PROVE  SameTalk(b, Notified(b, c, writing))
  <1> DEFINE a == [b EXCEPT !.pending = @ \cup {c.name}]
  <1>1. SameTalk(b, a)
    BY DEF Shaped, SameTalk
  <1> HIDE DEF a
  <1>2. SameTalk(a, SendPendingEventNotifications(a))
    BY <1>1, SendPendingTalks DEF SameTalk
  <1>3. SameTalk(b, SendPendingEventNotifications(a))
    BY <1>1, <1>2, SameTalkTwice
  <1>4. SameTalk(b, b)
    BY DEF SameTalk
  <1>5. QED
    BY <1>3, <1>4 DEF Notified, a

LEMMA DidRaiseEventTalks ==
    ASSUME NEW b, Shaped(b), Len(b.table) \in Nat, NEW c, NEW writing, NEW readable \in BOOLEAN, NEW value
    PROVE  SameTalk(b, DidRaiseEvent(b, c, writing, readable, value))
  <1> DEFINE a == Notified(b, c, writing)
  <1>1. SameTalk(b, a)
    BY NotifiedTalks
  <1> HIDE DEF a
  <1>2. SameTalk(a, CountedEvent(a, c, readable, value))
    BY <1>1, CountedEventTalks DEF SameTalk
  <1>3. SameTalk(b, CountedEvent(a, c, readable, value))
    BY <1>1, <1>2, SameTalkTwice
  <1>4. QED
    BY <1>3 DEF DidRaiseEvent, a

LEMMA SetNotificationsTalks ==
    ASSUME NEW b, Shaped(b), Len(b.table) \in Nat, NEW c, NEW enable \in BOOLEAN
    PROVE  SameTalk(b, SetNotificationsEnabled(b, c, enable))
  <1> DEFINE a == [b EXCEPT !.subscribed = IF enable THEN @ \cup {c.name} ELSE @ \ {c.name}]
             t == Told(a, c, enable)
  <1>1. SameTalk(b, a)
    BY DEF Shaped, SameTalk
  <1> HIDE DEF a
  <1>2. SameTalk(a, t)
    BY <1>1 DEF Told, HandleSubscribe, HandleUnsubscribe, Shaped, SameTalk
  <1> HIDE DEF t
  <1>3. SameTalk(b, t)
    BY <1>1, <1>2, SameTalkTwice
  <1>4. SameTalk(t, SendPendingEventNotifications(t))
    BY <1>3, SendPendingTalks DEF SameTalk
  <1>5. SameTalk(b, SendPendingEventNotifications(t))
    BY <1>3, <1>4, SameTalkTwice
  <1>6. SameTalk(b, b)
    BY DEF SameTalk
  <1>7. QED
    BY <1>5, <1>6 DEF SetNotificationsEnabled, a, t

LEMMA ReadyTalks ==
    ASSUME NEW b, Shaped(b), Len(b.table) \in Nat
    PROVE  SameTalk(b, HandleReadyToUpdateSubscribers(b))
  <1> DEFINE a == [b EXCEPT !.free = @ + 1]
  <1>1. SameTalk(b, a)
    BY DEF Shaped, SameTalk
  <1> HIDE DEF a
  <1>2. SameTalk(a, SendPendingEventNotifications(a))
    BY <1>1, SendPendingTalks DEF SameTalk
  <1>3. SameTalk(b, SendPendingEventNotifications(a))
    BY <1>1, <1>2, SameTalkTwice
  <1>4. QED
    BY <1>3 DEF HandleReadyToUpdateSubscribers, a

\* A session starts.
LEMMA AcceptedTalks ==
    ASSUME NEW b, Shaped(b), Len(b.table) \in Nat, NEW security, NEW admin
    PROVE  SameTalk(b, Accepted(b, security, admin))
  <1> DEFINE a == [b EXCEPT !.link.security = security, !.link.admin = admin, !.link.verifying = FALSE]
             t == HandleSubscribe(a, a.subscribed)
  <1>1. SameTalk(b, a)
    BY DEF Shaped, SameTalk
  <1> HIDE DEF a
  <1>2. SameTalk(a, t)
    BY <1>1 DEF HandleSubscribe, Shaped, SameTalk
  <1> HIDE DEF t
  <1>3. SameTalk(b, t)
    BY <1>1, <1>2, SameTalkTwice
  <1>4. SameTalk(t, SendPendingEventNotifications(t))
    BY <1>3, SendPendingTalks DEF SameTalk
  <1>5. SameTalk(b, SendPendingEventNotifications(t))
    BY <1>3, <1>4, SameTalkTwice
  <1>6. QED
    BY <1>5 DEF Accepted, HandleSessionAccept, a, t

\* A message of a pairing procedure.
LEMMA PairingTalks ==
    ASSUME NEW b, Shaped(b), Len(b.table) \in Nat, NEW c, NEW env
    PROVE  SameTalk(b, PairingWritten(b, c, env).ble)
  <1> DEFINE d == IF c.procedure = "PairVerify" /\ b.link.verifying THEN DidStartPairingProcedure(b) ELSE b
             e == [d EXCEPT !.link.verifying = FALSE]
             f == [d EXCEPT !.link.verifying = c.procedure = "PairVerify"]
  <1>1. SameTalk(b, d)
    <2>1. SameTalk(b, b)
      BY DEF SameTalk
    <2>2. QED
      BY <2>1, LinkTalks
  <1>2. PairingWritten(b, c, env).ble \in {e, f}
    BY DEF PairingWritten, Ok, Failed
  <1> HIDE DEF d
  <1>3. SameTalk(d, e) /\ SameTalk(d, f)
    BY <1>1 DEF Shaped, SameTalk
  <1> HIDE DEF e, f
  <1>4. SameTalk(b, e) /\ SameTalk(b, f)
    BY <1>1, <1>3, SameTalkTwice
  <1>5. QED
    BY <1>2, <1>4

LEMMA VerifyReadTalks ==
    ASSUME NEW b, Shaped(b), Len(b.table) \in Nat, NEW env,
           env.outcome \in {"next", "accepted", "error", "refused"}
    PROVE  SameTalk(b, VerifyRead(b, env).ble)
  <1> DEFINE s == DidStartPairingProcedure(b)
             e == [s EXCEPT !.link.verifying = FALSE]
             f == DidCompletePairVerify(e)
             a == Accepted(s, "Secured", env.admin)
             g == DidCompletePairVerify(a)
  <1>1. SameTalk(b, b) /\ SameTalk(b, s)
    BY LinkTalks DEF SameTalk
  <1>2. VerifyRead(b, env).ble \in {b, s, e, f, g}
    BY DEF VerifyRead, Ok, Failed
  <1> HIDE DEF s
  <1>3. SameTalk(s, e)
    BY <1>1 DEF Shaped, SameTalk
  <1>4. SameTalk(s, a)
    BY <1>1, AcceptedTalks DEF SameTalk
  <1> HIDE DEF e, a
  <1>5. SameTalk(b, e) /\ SameTalk(b, a)
    BY <1>1, <1>3, <1>4, SameTalkTwice
  <1>6. SameTalk(e, f)
    BY <1>5, LinkTalks DEF SameTalk
  <1>7. SameTalk(a, g)
    BY <1>5, LinkTalks DEF SameTalk
  <1> HIDE DEF f, g
  <1>8. SameTalk(b, f) /\ SameTalk(b, g)
    BY <1>5, <1>6, <1>7, SameTalkTwice
  <1>9. QED
    BY <1>1, <1>2, <1>5, <1>8

LEMMA PairingReadTalks ==
    ASSUME NEW b, Shaped(b), Len(b.table) \in Nat, NEW c, NEW env,
           env.outcome \in {"next", "accepted", "error", "refused"}
    PROVE  SameTalk(b, PairingRead(b, c, env).ble)
  <1> DEFINE f == FALSE
             a == Accepted(b, "Transient", f)
  <1>1. SetupRead(b, env).ble \in {b, a}
    BY DEF SetupRead, Ok, Failed
  <1> HIDE DEF f
  <1>2. SameTalk(b, b) /\ SameTalk(b, a)
    BY AcceptedTalks DEF SameTalk
  <1> HIDE DEF a
  <1>3. SameTalk(b, SetupRead(b, env).ble) /\ SameTalk(b, VerifyRead(b, env).ble)
    BY <1>1, <1>2, VerifyReadTalks
  <1>4. QED
    BY <1>3 DEF PairingRead

\* The request that is read is the one that was asked.
ReadsAsked(p, asked) ==
    LET t == p.transaction
        q == t.request
    IN t.state = "ReadingRequest" =>
           /\ q.tid = asked.tid /\ q.opcode = asked.opcode /\ q.body = asked.body
           /\ q.total \in Nat /\ (q.total = 0 => q.body = "none")
           /\ p.multi # "TimedWrite" /\ q.total > 0 /\ q.total <= t.room => p.scratch = q.body

\* The response answers what was asked; success in a timed write that is not executed yet is
\* the answer to its preparation, any other answer leaves it prepared.
AnswersAsked(p, asked, prepared) ==
    LET t == p.transaction
    IN t.state \in {"WaitingForInitialRead", "WritingResponse"} =>
           /\ DOMAIN t.response = {"tid", "status", "total", "offset"}
           /\ t.response.tid = asked.tid
           /\ p.multi = "TimedWrite" =>
                  IF t.response.status = "Success"
                  THEN asked.opcode = "TimedWrite" /\ p.scratch = asked.body
                  ELSE p.scratch = prepared

\* Between a timed write and its execution the buffer holds what was prepared, and no request
\* has room in it.
HoldsPrepared(p, prepared) ==
    LET t == p.transaction
    IN t.state \in {"WaitingForInitialWrite", "ReadingRequest"} /\ p.multi = "TimedWrite" =>
           t.room = 0 /\ p.scratch = prepared

ProcedureTalks(p, asked, prepared) ==
    /\ p.transaction.state # "HandlingRequest"
    /\ ReadsAsked(p, asked) /\ AnswersAsked(p, asked, prepared) /\ HoldsPrepared(p, prepared)

\* What is kept while a request is processed; what reaches the application is one of A.
Keeping(b, d, A) ==
    /\ Shaped(d) /\ d.table = b.table
    /\ d.fallback = b.fallback /\ d.asked = b.asked /\ d.prepared = b.prepared
    /\ b.link.terminal => d.link.terminal
    /\ IsProcedure(d.procedure) /\ d.procedure.attached = b.procedure.attached
    /\ DOMAIN d.seen = {"char", "answered", "status", "applied"}
    /\ d.seen.char = b.seen.char /\ d.seen.answered = b.seen.answered /\ d.seen.status = b.seen.status
    /\ d.seen.applied \in A

\* The request is not answered yet, and will end a timed write.
Requesting(b, d, A) ==
    /\ Keeping(b, d, A)
    /\ d.procedure.transaction = b.procedure.transaction
    /\ d.procedure.multi # "TimedWrite"

\* It is answered.
Replied(b, result, A) ==
    /\ Keeping(b, result.ble, A)
    /\ result.ble.procedure.transaction.state = "WaitingForInitialRead"
    /\ DOMAIN result.ble.procedure.transaction.response = {"tid", "status", "total", "offset"}
    /\ result.ble.procedure.transaction.response.tid = b.procedure.transaction.request.tid
    /\ result.ble.procedure.multi # "TimedWrite"

LEMMA RequestingTwice ==
    ASSUME NEW b, NEW d, NEW e, NEW A, NEW B, Requesting(b, d, A), Requesting(d, e, B)
    PROVE  Requesting(b, e, B)
  BY DEF Requesting, Keeping

LEMMA RequestingReplied ==
    ASSUME NEW b, NEW d, NEW result, NEW A, NEW B, Requesting(b, d, A), Replied(d, result, B)
    PROVE  Replied(b, result, B)
  BY DEF Requesting, Replied, Keeping

LEMMA SameRequests ==
    ASSUME NEW b, NEW d, NEW e, NEW A, Requesting(b, d, A), SameTalk(d, e)
    PROVE  Requesting(b, e, A)
  BY DEF Requesting, Keeping, SameTalk

LEMMA RespondReplies ==
    ASSUME NEW b, NEW d, NEW A, Requesting(b, d, A), NEW status, NEW total
    PROVE  Replied(b, Respond(d, status, total), A)
  <1> DEFINE e == [d EXCEPT !.procedure.transaction = SetResponse(@, status, total)]
  <1>1. Shaped(d) /\ IsProcedure(d.procedure)
    BY DEF Requesting, Keeping
  <1>2. /\ Shaped(e) /\ e.table = d.table /\ e.fallback = d.fallback /\ e.asked = d.asked
        /\ e.prepared = d.prepared /\ e.link = d.link /\ e.seen = d.seen
    BY <1>1 DEF Shaped
  <1>3. /\ DOMAIN e.procedure = DOMAIN d.procedure
        /\ e.procedure.transaction = SetResponse(d.procedure.transaction, status, total)
        /\ e.procedure.attached = d.procedure.attached /\ e.procedure.multi = d.procedure.multi
    BY <1>1 DEF Shaped, IsProcedure
  <1>4. Respond(d, status, total).ble = e
    BY DEF Respond, Ok
  <1> HIDE DEF e
  <1> DEFINE t == e.procedure.transaction
  <1>5. /\ IsTransaction(t) /\ t.state = "WaitingForInitialRead"
        /\ DOMAIN t.response = {"tid", "status", "total", "offset"}
        /\ t.response.tid = d.procedure.transaction.request.tid
    BY <1>1, <1>3 DEF IsProcedure, IsTransaction, SetResponse, NoRequest
  <1>6. IsProcedure(e.procedure)
    BY <1>1, <1>3, <1>5 DEF IsProcedure
  <1>7. Keeping(b, e, A)
    BY <1>2, <1>3, <1>6 DEF Requesting, Keeping
  <1>8. e.procedure.multi # "TimedWrite" /\ d.procedure.transaction = b.procedure.transaction
    BY <1>3 DEF Requesting
  <1>9. QED
    BY <1>4, <1>5, <1>7, <1>8 DEF Replied

\* The buffer is given away, and the application gets a value.
LEMMA ScratchRequests ==
    ASSUME NEW b, NEW d, NEW A, Requesting(b, d, A), NEW s
    PROVE  Requesting(b, [d EXCEPT !.procedure.scratch = s], A)
  <1> DEFINE e == [d EXCEPT !.procedure.scratch = s]
  <1>1. Shaped(d) /\ IsProcedure(d.procedure)
    BY DEF Requesting, Keeping
  <1>2. /\ Shaped(e) /\ e.table = d.table /\ e.fallback = d.fallback /\ e.asked = d.asked
        /\ e.prepared = d.prepared /\ e.link = d.link /\ e.seen = d.seen
    BY <1>1 DEF Shaped
  <1>3. /\ DOMAIN e.procedure = DOMAIN d.procedure
        /\ e.procedure.transaction = d.procedure.transaction
        /\ e.procedure.attached = d.procedure.attached /\ e.procedure.multi = d.procedure.multi
    BY <1>1 DEF Shaped, IsProcedure
  <1> HIDE DEF e
  <1>4. IsProcedure(e.procedure)
    BY <1>1, <1>3 DEF IsProcedure
  <1>5. Requesting(b, e, A)
    BY <1>2, <1>3, <1>4 DEF Requesting, Keeping
  <1>6. QED
    BY <1>5 DEF e

LEMMA AppliedRequests ==
    ASSUME NEW b, NEW d, NEW A, Requesting(b, d, A), NEW value \in A
    PROVE  Requesting(b, [d EXCEPT !.seen.applied = value], A)
  <1> DEFINE e == [d EXCEPT !.seen.applied = value]
  <1>1. Shaped(d) /\ DOMAIN d.seen = {"char", "answered", "status", "applied"}
    BY DEF Requesting, Keeping
  <1>2. /\ Shaped(e) /\ e.table = d.table /\ e.fallback = d.fallback /\ e.asked = d.asked
        /\ e.prepared = d.prepared /\ e.link = d.link /\ e.procedure = d.procedure
        /\ DOMAIN e.seen = DOMAIN d.seen /\ e.seen.applied = value
        /\ e.seen.char = d.seen.char /\ e.seen.answered = d.seen.answered /\ e.seen.status = d.seen.status
    BY <1>1 DEF Shaped
  <1> HIDE DEF e
  <1>3. Requesting(b, e, A)
    BY <1>2 DEF Requesting, Keeping
  <1>4. QED
    BY <1>3 DEF e

\* The length of the table does not change.
Loops(b) == Len(b.table) \in Nat

LEMMA RequestingLoops ==
    ASSUME NEW b, NEW d, NEW A, Requesting(b, d, A), Loops(b)
    PROVE  Loops(d) /\ Shaped(d)
  BY DEF Requesting, Keeping, Loops

LEMMA AfterReadingReplies ==
    ASSUME NEW b, NEW A, NEW result, Requesting(b, result.ble, A), NEW total
    PROVE  Replied(b, AfterReading(result, total), A)
  BY RespondReplies DEF AfterReading

LEMMA ReadValueReplies ==
    ASSUME NEW b, NEW d, NEW A, Requesting(b, d, A), Loops(b), NEW c, NEW env, NEW total,
           env.outcome \in {"next", "accepted", "error", "refused"}
    PROVE  Replied(b, ReadValue(d, c, env, total), A)
  <1> DEFINE e == [d EXCEPT !.procedure.scratch = "response"]
             r == IF c.procedure = "None" THEN Ok(e) ELSE PairingRead(e, c, env)
  <1>1. Requesting(b, e, A)
    BY ScratchRequests
  <1> HIDE DEF e
  <1>2. Shaped(e) /\ Len(e.table) \in Nat
    BY <1>1, RequestingLoops DEF Loops
  <1>3. SameTalk(e, PairingRead(e, c, env).ble)
    BY <1>2, PairingReadTalks
  <1>4. Requesting(b, PairingRead(e, c, env).ble, A)
    BY <1>1, <1>3, SameRequests
  <1>5. Requesting(b, r.ble, A)
    BY <1>1, <1>4 DEF Ok
  <1> HIDE DEF r
  <1>6. Replied(b, AfterReading(r, total), A)
    BY <1>5, AfterReadingReplies
  <1>7. /\ Replied(b, Respond(d, "Insufficient", 0), A)
        /\ Replied(b, Respond(d, "InsufficientAuthentication", 0), A)
    BY RespondReplies
  <1>8. QED
    BY <1>6, <1>7 DEF ReadValue, e, r

LEMMA HandledRequests ==
    ASSUME NEW b, NEW d, NEW A, Requesting(b, d, A), Loops(b), NEW c, NEW value \in A, NEW env
    PROVE  Requesting(b, Handled(d, c, value, env), A)
  <1> DEFINE e == [d EXCEPT !.seen.applied = value]
             raised == {f \in {d.table[i] : i \in 1 .. Len(d.table)} : f.name = env.raises}
             f == CHOOSE g \in raised : TRUE
             t == TRUE
             h == DidRaiseEvent(e, f, c.name, t, 0)
  <1>1. Requesting(b, e, A)
    BY AppliedRequests
  <1>2. Handled(d, c, value, env) \in {e, h}
    BY DEF Handled
  <1> HIDE DEF e, f
  <1>3. Shaped(e) /\ Len(e.table) \in Nat
    BY <1>1, RequestingLoops DEF Loops
  <1>4. t \in BOOLEAN
    OBVIOUS
  <1> HIDE DEF t
  <1>5. SameTalk(e, h)
    BY <1>3, <1>4, DidRaiseEventTalks
  <1> HIDE DEF h
  <1>6. Requesting(b, h, A)
    BY <1>1, <1>5, SameRequests
  <1>7. QED
    BY <1>1, <1>2, <1>6

LEMMA ValueWrittenReplies ==
    ASSUME NEW b, NEW A, NEW result, Requesting(b, result.ble, A), Loops(b), NEW c, NEW isTimed, NEW env,
           env.outcome \in {"next", "accepted", "error", "refused"}
    PROVE  Replied(b, ValueWritten(result, c, env, isTimed), A)
  <1> DEFINE d == result.ble
  <1>1. Requesting(b, d, A)
    OBVIOUS
  <1> HIDE DEF d
  <1>2. /\ Replied(b, Respond(d, "InvalidRequest", 0), A)
        /\ Replied(b, Respond(d, "UnsupportedPDU", 0), A)
        /\ Replied(b, Respond(d, "Success", 0), A)
    BY <1>1, RespondReplies
  <1>3. Replied(b, ReadValue(d, c, env, env.total), A)
    BY <1>1, ReadValueReplies
  <1>4. QED
    BY <1>2, <1>3 DEF ValueWritten, d

LEMMA WriteValueReplies ==
    ASSUME NEW b, NEW d, NEW A, Requesting(b, d, A), Loops(b), NEW c, NEW value \in A, NEW isTimed, NEW env,
           env.outcome \in {"next", "accepted", "error", "refused"}
    PROVE  Replied(b, WriteValue(d, c, value, env, isTimed), A)
  <1> DEFINE p == PairingWritten(d, c, env)
             h == Handled(d, c, value, env)
             r == IF value = "none" THEN Failed(d)
                  ELSE IF c.procedure # "None" THEN p
                  ELSE IF isTimed /\ env.expired THEN Ok(d)
                  ELSE Ok(h)
  <1>1. Shaped(d) /\ Len(d.table) \in Nat
    BY RequestingLoops DEF Loops
  <1>2. SameTalk(d, p.ble)
    BY <1>1, PairingTalks
  <1>3. WriteValue(d, c, value, env, isTimed) =
            IF ~SecurityFits(d, c) THEN Respond(d, "Insufficient", 0)
            ELSE IF ~MayBeTold(d, c) THEN Respond(d, "InsufficientAuthentication", 0)
            ELSE IF c.timed /\ ~isTimed THEN Respond(d, "InvalidRequest", 0)
            ELSE ValueWritten(r, c, env, isTimed)
    BY DEF WriteValue
  <1>4. Requesting(b, h, A)
    BY HandledRequests
  <1> HIDE DEF p, h
  <1>5. Requesting(b, p.ble, A)
    BY <1>2, SameRequests
  <1>6. Requesting(b, r.ble, A)
    BY <1>4, <1>5 DEF Ok, Failed
  <1> HIDE DEF r
  <1>7. Replied(b, ValueWritten(r, c, env, isTimed), A)
    BY <1>6, ValueWrittenReplies
  <1>8. /\ Replied(b, Respond(d, "Insufficient", 0), A)
        /\ Replied(b, Respond(d, "InsufficientAuthentication", 0), A)
        /\ Replied(b, Respond(d, "InvalidRequest", 0), A)
    BY RespondReplies
  <1>9. QED
    BY <1>3, <1>7, <1>8

\* What the last request at a characteristic may let the application have.
ValuesOf(asked, prepared) == {"none", IF asked.opcode = "Write" THEN asked.body ELSE prepared}

\* A request that was received is processed.
Asking(b, asked, prepared) ==
    /\ Shaped(b) /\ Loops(b)
    /\ IsProcedure(b.procedure) /\ ProcedureTalks(b.procedure, asked, prepared)
    /\ b.procedure.transaction.state = "ReadingRequest"
    /\ DOMAIN b.seen = {"char", "answered", "status", "applied"} /\ b.seen.applied = "none"

\* It is answered, or an error.
Answering(b, result, asked, prepared) ==
    /\ Keeping(b, result.ble, ValuesOf(asked, prepared))
    /\ ~result.error => ProcedureTalks(result.ble.procedure, asked, prepared)

LEMMA AskingKeeps ==
    ASSUME NEW b, NEW asked, NEW prepared, Asking(b, asked, prepared)
    PROVE  /\ Keeping(b, b, ValuesOf(asked, prepared))
           /\ b.procedure.multi # "TimedWrite" => Requesting(b, b, ValuesOf(asked, prepared))
  BY DEF Asking, Keeping, Requesting, ValuesOf

LEMMA RepliedAnswers ==
    ASSUME NEW b, NEW asked, NEW prepared, Asking(b, asked, prepared),
           NEW result, Replied(b, result, ValuesOf(asked, prepared))
    PROVE  Answering(b, result, asked, prepared)
  <1>1. b.procedure.transaction.request.tid = asked.tid
    BY DEF Asking, ProcedureTalks, ReadsAsked
  <1>2. ProcedureTalks(result.ble.procedure, asked, prepared)
    BY <1>1 DEF Replied, ProcedureTalks, ReadsAsked, AnswersAsked, HoldsPrepared
  <1>3. QED
    BY <1>2 DEF Replied, Answering

LEMMA FailedAnswers ==
    ASSUME NEW b, NEW asked, NEW prepared, Asking(b, asked, prepared)
    PROVE  Answering(b, Failed(b), asked, prepared)
  BY AskingKeeps DEF Answering, Failed

\* A refusal leaves what was prepared where it is.
LEMMA RefusalAnswers ==
    ASSUME NEW b, NEW asked, NEW prepared, Asking(b, asked, prepared), NEW status, status # "Success", NEW total
    PROVE  Answering(b, Respond(b, status, total), asked, prepared)
  <1> DEFINE e == [b EXCEPT !.procedure.transaction = SetResponse(@, status, total)]
             p == b.procedure
  <1>1. Shaped(b) /\ IsProcedure(p) /\ Keeping(b, b, ValuesOf(asked, prepared))
    BY AskingKeeps DEF Asking
  <1>2. /\ Shaped(e) /\ e.table = b.table /\ e.fallback = b.fallback /\ e.asked = b.asked
        /\ e.prepared = b.prepared /\ e.link = b.link /\ e.seen = b.seen
    BY <1>1 DEF Shaped
  <1>3. /\ DOMAIN e.procedure = DOMAIN p
        /\ e.procedure.transaction = SetResponse(p.transaction, status, total)
        /\ e.procedure.attached = p.attached /\ e.procedure.multi = p.multi
        /\ e.procedure.scratch = p.scratch
    BY <1>1 DEF Shaped, IsProcedure
  <1>4. Respond(b, status, total) = Ok(e)
    BY DEF Respond
  <1> HIDE DEF e
  <1> DEFINE t == e.procedure.transaction
  <1>5. /\ IsTransaction(t) /\ t.state = "WaitingForInitialRead"
        /\ DOMAIN t.response = {"tid", "status", "total", "offset"}
        /\ t.response.tid = p.transaction.request.tid /\ t.response.status = status
    BY <1>1, <1>3 DEF IsProcedure, IsTransaction, SetResponse, NoRequest
  <1>6. IsProcedure(e.procedure)
    BY <1>1, <1>3, <1>5 DEF IsProcedure
  <1>7. Keeping(b, e, ValuesOf(asked, prepared))
    BY <1>1, <1>2, <1>3, <1>6 DEF Keeping
  <1>8. /\ p.transaction.request.tid = asked.tid
        /\ p.multi = "TimedWrite" => p.scratch = prepared
    BY DEF Asking, ProcedureTalks, ReadsAsked, HoldsPrepared
  <1>9. ProcedureTalks(e.procedure, asked, prepared)
    BY <1>3, <1>5, <1>8 DEF ProcedureTalks, ReadsAsked, AnswersAsked, HoldsPrepared
  <1>10. QED
    BY <1>4, <1>7, <1>9 DEF Answering, Ok

\* A timed write leaves its body in the buffer, and is answered with success.
LEMMA PrepareWriteAnswers ==
    ASSUME NEW b, NEW asked, NEW prepared, Asking(b, asked, prepared),
           b.procedure.multi = "None", FitsRequest(b.procedure.transaction),
           b.procedure.transaction.request.opcode = "TimedWrite"
    PROVE  Answering(b, PrepareWrite(b, b.procedure.transaction.request), asked, prepared)
  <1> DEFINE p == b.procedure
             q == p.transaction.request
             s == IF q.total = 0 THEN "none" ELSE p.scratch
             f == [b EXCEPT !.procedure.multi = "TimedWrite", !.procedure.scratch = s]
             e == [f EXCEPT !.procedure.transaction = SetResponse(@, "Success", 0)]
  <1>1. Shaped(b) /\ IsProcedure(p) /\ Keeping(b, b, ValuesOf(asked, prepared))
    BY AskingKeeps DEF Asking
  <1>2. s = asked.body /\ q.tid = asked.tid /\ asked.opcode = "TimedWrite"
    BY DEF Asking, ProcedureTalks, ReadsAsked, FitsRequest
  <1>3. PrepareWrite(b, q) = Ok(e)
    BY <1>1 DEF PrepareWrite, Respond, Shaped, IsProcedure
  <1> HIDE DEF s
  <1>4. /\ Shaped(f) /\ f.table = b.table /\ f.fallback = b.fallback /\ f.asked = b.asked
        /\ f.prepared = b.prepared /\ f.link = b.link /\ f.seen = b.seen
    BY <1>1 DEF Shaped
  <1>5. /\ DOMAIN f.procedure = DOMAIN p /\ f.procedure.transaction = p.transaction
        /\ f.procedure.attached = p.attached /\ f.procedure.multi = "TimedWrite"
        /\ f.procedure.scratch = s
    BY <1>1 DEF Shaped, IsProcedure
  <1> HIDE DEF f
  <1>6. /\ Shaped(e) /\ e.table = f.table /\ e.fallback = f.fallback /\ e.asked = f.asked
        /\ e.prepared = f.prepared /\ e.link = f.link /\ e.seen = f.seen
    BY <1>4 DEF Shaped
  <1>7. /\ DOMAIN e.procedure = DOMAIN f.procedure
        /\ e.procedure.transaction = SetResponse(f.procedure.transaction, "Success", 0)
        /\ e.procedure.attached = f.procedure.attached /\ e.procedure.multi = f.procedure.multi
        /\ e.procedure.scratch = f.procedure.scratch
    BY <1>1, <1>4, <1>5 DEF Shaped, IsProcedure
  <1> HIDE DEF e
  <1> DEFINE t == e.procedure.transaction
  <1>8. /\ IsTransaction(t) /\ t.state = "WaitingForInitialRead"
        /\ DOMAIN t.response = {"tid", "status", "total", "offset"}
        /\ t.response.tid = q.tid /\ t.response.status = "Success"
    BY <1>1, <1>5, <1>7 DEF IsProcedure, IsTransaction, SetResponse, NoRequest
  <1>9. IsProcedure(e.procedure)
    BY <1>1, <1>5, <1>7, <1>8 DEF IsProcedure
  <1>10. Keeping(b, e, ValuesOf(asked, prepared))
    BY <1>1, <1>4, <1>5, <1>6, <1>7, <1>9 DEF Keeping
  <1>11. ProcedureTalks(e.procedure, asked, prepared)
    BY <1>2, <1>5, <1>7, <1>8 DEF ProcedureTalks, ReadsAsked, AnswersAsked, HoldsPrepared
  <1>12. QED
    BY <1>3, <1>10, <1>11 DEF Answering, Ok

\* The signatures, and other bodies that take the buffer.
LEMMA WithBodyReplies ==
    ASSUME NEW b, NEW d, NEW A, Requesting(b, d, A), NEW total
    PROVE  Replied(b, RespondWithBody(d, total), A)
  BY ScratchRequests, RespondReplies DEF RespondWithBody

LEMMA SignaturesReply ==
    ASSUME NEW b, NEW A, Requesting(b, b, A), NEW c, NEW env
    PROVE  Replied(b, ReadServiceSignature(b, c, env), A) /\ Replied(b, ReadSignature(b, c, env), A)
  BY WithBodyReplies, RespondReplies DEF ReadServiceSignature, ReadSignature

\* What is stored besides leaves requests alone.
LEMMA StoreTalks ==
    ASSUME NEW b, Shaped(b), NEW names, NEW token
    PROVE  /\ SameTalk(b, b) /\ SameTalk(b, GenerateKey(b, b.sessions))
           /\ SameTalk(b, [b EXCEPT !.store.enabled = names])
           /\ SameTalk(b, [b EXCEPT !.store.token = token])
  BY DEF GenerateKey, Shaped, SameTalk

LEMMA ConfigureReplies ==
    ASSUME NEW b, NEW A, Requesting(b, b, A), Shaped(b), NEW c, NEW body
    PROVE  /\ Replied(b, ConfigureCharacteristic(b, c, body), A)
           /\ Replied(b, ConfigureService(b, c), A)
  <1> DEFINE less == b.store.enabled \ {c.name}
             more == b.store.enabled \cup {c.name}
             d == [b EXCEPT !.store.enabled = less]
             e == [b EXCEPT !.store.enabled = more]
             k == GenerateKey(b, b.sessions)
             r == Configure(b, c, body)
  <1>1. r.ble \in {b, d, e}
    BY DEF Configure, Ok, Failed, Shaped
  <1> HIDE DEF less, more
  <1>2. SameTalk(b, d) /\ SameTalk(b, e) /\ SameTalk(b, k)
    BY StoreTalks
  <1> HIDE DEF d, e, k
  <1>3. Requesting(b, d, A) /\ Requesting(b, e, A) /\ Requesting(b, k, A)
    BY <1>2, SameRequests
  <1> HIDE DEF r
  <1>4. Requesting(b, r.ble, A)
    BY <1>1, <1>3
  <1>5. Replied(b, RespondWithBody(r.ble, 1), A)
    BY <1>4, WithBodyReplies
  <1>6. /\ Replied(b, Respond(b, "UnsupportedPDU", 0), A)
        /\ Replied(b, Respond(b, "InvalidRequest", 0), A)
        /\ Replied(b, Respond(k, "Success", 0), A)
    BY <1>3, RespondReplies
  <1>7. Replied(b, ConfigureService(b, c), A)
    BY <1>6 DEF ConfigureService, ConfigureProtocol, k
  <1>8. Replied(b, ConfigureCharacteristic(b, c, body), A)
    BY <1>5, <1>6 DEF ConfigureCharacteristic, r
  <1>9. QED
    BY <1>7, <1>8

LEMMA InformReplies ==
    ASSUME NEW b, NEW A, Requesting(b, b, A), Shaped(b), NEW c, NEW r, NEW env,
           r.opcode \in {"Token", "TokenUpdate", "Info"}
    PROVE  Replied(b, Inform(b, c, r, env), A)
  <1> DEFINE d == [b EXCEPT !.procedure.scratch = "response"]
             body == r.body
             u == [b EXCEPT !.store.token = body]
             x == GetTokenResponse(d, env)
             y == HandleTokenUpdateRequest(b, body, env)
             z == GetInfoResponse(d, env)
             n == env.total
  <1>1. Inform(b, c, r, env) \in {Respond(b, "UnsupportedPDU", 0), AfterReading(x, n), AfterReading(y, 0),
                                  AfterReading(z, n)}
    BY DEF Inform
  <1>2. Requesting(b, d, A)
    BY ScratchRequests
  <1>3. y.ble \in {b, u}
    BY DEF HandleTokenUpdateRequest, UpdateToken, Ok, Failed
  <1>4. x.ble = d /\ z.ble = d
    BY DEF GetTokenResponse, GetInfoResponse, Ok, Failed
  <1> HIDE DEF d, x, y, z, body
  <1>5. SameTalk(b, u)
    BY StoreTalks
  <1> HIDE DEF u
  <1>6. Requesting(b, u, A)
    BY <1>5, SameRequests
  <1>7. Requesting(b, x.ble, A) /\ Requesting(b, y.ble, A) /\ Requesting(b, z.ble, A)
    BY <1>2, <1>3, <1>4, <1>6
  <1>8. Replied(b, AfterReading(x, n), A)
    BY <1>7, AfterReadingReplies
  <1>9. Replied(b, AfterReading(y, 0), A)
    BY <1>7, AfterReadingReplies
  <1>10. Replied(b, AfterReading(z, n), A)
    BY <1>7, AfterReadingReplies
  <1>11. Replied(b, Respond(b, "UnsupportedPDU", 0), A)
    BY RespondReplies
  <1>12. QED
    BY <1>1, <1>8, <1>9, <1>10, <1>11

\* Multi is no field a value depends on.
LEMMA ExecutedRequests ==
    ASSUME NEW b, NEW asked, NEW prepared, Asking(b, asked, prepared)
    PROVE  Requesting(b, [b EXCEPT !.procedure.multi = "None"], ValuesOf(asked, prepared))
  <1> DEFINE A == ValuesOf(asked, prepared)
             e == [b EXCEPT !.procedure.multi = "None"]
  <1>1. Shaped(b) /\ IsProcedure(b.procedure) /\ Keeping(b, b, A)
    BY AskingKeeps DEF Asking
  <1> HIDE DEF A
  <1>2. /\ Shaped(e) /\ e.table = b.table /\ e.fallback = b.fallback /\ e.asked = b.asked
        /\ e.prepared = b.prepared /\ e.link = b.link /\ e.seen = b.seen
    BY <1>1 DEF Shaped
  <1>3. /\ DOMAIN e.procedure = DOMAIN b.procedure
        /\ e.procedure.transaction = b.procedure.transaction
        /\ e.procedure.attached = b.procedure.attached /\ e.procedure.multi = "None"
    BY <1>1 DEF Shaped, IsProcedure
  <1> HIDE DEF e
  <1>4. IsProcedure(e.procedure)
    BY <1>1, <1>3 DEF IsProcedure
  <1>5. Requesting(b, e, A)
    BY <1>1, <1>2, <1>3, <1>4 DEF Requesting, Keeping
  <1>6. QED
    BY <1>5 DEF e, A

LEMMA ExecuteWriteAnswers ==
    ASSUME NEW b, NEW asked, NEW prepared, Asking(b, asked, prepared), NEW c,
           b.procedure.transaction.request.opcode = "ExecuteWrite",
           NEW env, env.outcome \in {"next", "accepted", "error", "refused"}
    PROVE  Answering(b, ExecuteWrite(b, c, env), asked, prepared)
  <1> DEFINE A == ValuesOf(asked, prepared)
             d == [b EXCEPT !.procedure.multi = "None"]
             t == TRUE
             v == b.procedure.scratch
             written == WriteValue(d, c, v, env, t)
  <1>1. CASE b.procedure.multi # "TimedWrite"
    BY <1>1, FailedAnswers DEF ExecuteWrite
  <1>2. CASE b.procedure.multi = "TimedWrite"
    <2>1. ExecuteWrite(b, c, env) = written
      BY <1>2 DEF ExecuteWrite
    <2>2. asked.opcode = "ExecuteWrite" /\ v = prepared
      BY <1>2 DEF Asking, ProcedureTalks, ReadsAsked, HoldsPrepared
    <2>3. v \in A
      BY <2>2 DEF ValuesOf
    <2>4. Requesting(b, d, A) /\ Loops(b)
      BY ExecutedRequests DEF Asking
    <2> HIDE DEF d, t, v, A
    <2>5. Replied(b, written, A)
      BY <2>3, <2>4, WriteValueReplies
    <2> HIDE DEF written
    <2>6. QED
      BY <2>1, <2>5, RepliedAnswers DEF A
  <1>3. QED
    BY <1>1, <1>2

LEMMA OperationAnswers ==
    ASSUME NEW b, NEW asked, NEW prepared, Asking(b, asked, prepared), NEW c,
           b.procedure.multi = "None", FitsRequest(b.procedure.transaction),
           b.procedure.transaction.request.opcode \in
               {"Read", "Write", "TimedWrite", "Configuration", "ProtocolConfiguration"},
           NEW env, env.outcome \in {"next", "accepted", "error", "refused"}
    PROVE  Answering(b, Operation(b, c, b.procedure.transaction.request, env), asked, prepared)
  <1> DEFINE A == ValuesOf(asked, prepared)
             r == b.procedure.transaction.request
             v == r.body
             f == FALSE
  <1>1. Requesting(b, b, A) /\ Loops(b) /\ Shaped(b) /\ r.opcode = asked.opcode /\ v = asked.body
    BY AskingKeeps DEF Asking, ProcedureTalks, ReadsAsked
  <1>2. CASE r.opcode = "TimedWrite"
    BY <1>2, PrepareWriteAnswers DEF Operation
  <1>3. CASE r.opcode = "Read"
    <2>1. Operation(b, c, r, env) = ReadValue(b, c, env, env.total)
      BY <1>3 DEF Operation
    <2> HIDE DEF A
    <2>2. Replied(b, ReadValue(b, c, env, env.total), A)
      BY <1>1, ReadValueReplies
    <2>3. QED
      BY <2>1, <2>2, RepliedAnswers DEF A
  <1>4. CASE r.opcode = "Write"
    <2>1. Operation(b, c, r, env) = WriteValue(b, c, v, env, f)
      BY <1>4 DEF Operation
    <2>2. v \in A
      BY <1>1, <1>4 DEF ValuesOf
    <2> HIDE DEF A, v, f
    <2>3. Replied(b, WriteValue(b, c, v, env, f), A)
      BY <1>1, <2>2, WriteValueReplies
    <2>4. QED
      BY <2>1, <2>3, RepliedAnswers DEF A
  <1>5. CASE r.opcode = "Configuration"
    <2>1. Operation(b, c, r, env) = ConfigureCharacteristic(b, c, v)
      BY <1>5 DEF Operation
    <2> HIDE DEF A
    <2>2. Replied(b, ConfigureCharacteristic(b, c, v), A)
      BY <1>1, ConfigureReplies
    <2>3. QED
      BY <2>1, <2>2, RepliedAnswers DEF A
  <1>6. CASE r.opcode = "ProtocolConfiguration"
    <2>1. Operation(b, c, r, env) = ConfigureService(b, c)
      BY <1>6 DEF Operation
    <2> HIDE DEF A
    <2>2. Replied(b, ConfigureService(b, c), A)
      BY <1>1, ConfigureReplies
    <2>3. QED
      BY <2>1, <2>2, RepliedAnswers DEF A
  <1>7. QED
    BY <1>2, <1>3, <1>4, <1>5, <1>6

\* A request is answered, and what the application gets is what it wrote or prepared.
LEMMA ProcessTransactionAnswers ==
    ASSUME NEW b, NEW asked, NEW prepared, Asking(b, asked, prepared), NEW c,
           b.procedure.transaction.request.opcode \in Opcodes,
           NEW env, env.outcome \in {"next", "accepted", "error", "refused"}
    PROVE  Answering(b, ProcessTransaction(b, c, env), asked, prepared)
  <1> DEFINE p == b.procedure
             r == p.transaction.request
             A == ValuesOf(asked, prepared)
  <1>1. /\ Answering(b, Respond(b, "InvalidRequest", 0), asked, prepared)
        /\ Answering(b, Respond(b, "UnsupportedPDU", 0), asked, prepared)
        /\ Answering(b, Respond(b, "InvalidInstanceID", 0), asked, prepared)
        /\ Answering(b, Failed(b), asked, prepared)
    BY RefusalAnswers, FailedAnswers
  <1>2. r.opcode = "ExecuteWrite" => Answering(b, ExecuteWrite(b, c, env), asked, prepared)
    BY ExecuteWriteAnswers
  <1>3. p.multi = "None" => Requesting(b, b, A) /\ Shaped(b)
    BY AskingKeeps DEF Asking
  <1>4. p.multi = "None" =>
            /\ Answering(b, ReadServiceSignature(b, c, env), asked, prepared)
            /\ Answering(b, ReadSignature(b, c, env), asked, prepared)
    BY <1>3, SignaturesReply, RepliedAnswers
  <1>5. p.multi = "None" /\ r.opcode \in {"Token", "TokenUpdate", "Info"} =>
            Answering(b, Inform(b, c, r, env), asked, prepared)
    BY <1>3, InformReplies, RepliedAnswers
  <1>6. /\ p.multi = "None" /\ FitsRequest(p.transaction)
        /\ r.opcode \in {"Read", "Write", "TimedWrite", "Configuration", "ProtocolConfiguration"}
        => Answering(b, Operation(b, c, r, env), asked, prepared)
    BY OperationAnswers
  <1>7. \/ ProcessTransaction(b, c, env) \in
               {Respond(b, "InvalidRequest", 0), Respond(b, "UnsupportedPDU", 0),
                Respond(b, "InvalidInstanceID", 0), Failed(b)}
        \/ r.opcode = "ExecuteWrite" /\ ProcessTransaction(b, c, env) = ExecuteWrite(b, c, env)
        \/ /\ p.multi = "None"
           /\ ProcessTransaction(b, c, env) \in {ReadServiceSignature(b, c, env), ReadSignature(b, c, env)}
        \/ /\ p.multi = "None" /\ r.opcode \in {"Token", "TokenUpdate", "Info"}
           /\ ProcessTransaction(b, c, env) = Inform(b, c, r, env)
        \/ /\ p.multi = "None" /\ FitsRequest(p.transaction)
           /\ r.opcode \in {"Read", "Write", "TimedWrite", "Configuration", "ProtocolConfiguration"}
           /\ ProcessTransaction(b, c, env) = Operation(b, c, r, env)
    BY DEF ProcessTransaction, Opcodes
  <1> HIDE DEF r, p
  <1>8. QED
    BY <1>1, <1>2, <1>4, <1>5, <1>6, <1>7

\* What is prepared once the controller saw seen.
PreparedBy(seen, asked, prepared) ==
    IF seen.status = "Success" /\ asked.opcode = "TimedWrite" THEN asked.body ELSE prepared

\* What a read makes of a procedure: the fragment belongs to the request, and what goes on
\* knows what was prepared.
Reading(b, result, asked, prepared) ==
    LET d == result.ble
    IN /\ Shaped(d) /\ d.table = b.table
       /\ d.fallback = b.fallback /\ d.asked = b.asked /\ d.prepared = b.prepared
       /\ DOMAIN d.seen = {"char", "answered", "status", "applied"} /\ d.seen.char = b.seen.char
       /\ d.seen.answered \in {0, asked.tid} /\ d.seen.applied \in ValuesOf(asked, prepared)
       /\ ~result.error =>
              /\ d.procedure.attached = b.procedure.attached
              /\ ProcedureTalks(d.procedure, asked, PreparedBy(d.seen, asked, prepared))

\* The response of a transaction, and the fragment u of it.
HasResponse(t, tid) ==
    t.state \in {"WaitingForInitialRead", "WritingResponse"} =>
        DOMAIN t.response = {"tid", "status", "total", "offset"} /\ t.response.tid = tid

IsFragment(t, u, tid) ==
    /\ t.state \in {"WaitingForInitialRead", "WritingResponse"}
    /\ IsTransaction(u) /\ u.state = "WritingResponse"
    /\ DOMAIN u.response = {"tid", "status", "total", "offset"}
    /\ u.response.tid = tid /\ u.response.status = t.response.status

LEMMA FragmentsAnswer ==
    ASSUME NEW t, IsTransaction(t), NEW hasHeader, NEW n, HandleRead(t, hasHeader, n).error = "None",
           NEW tid, HasResponse(t, tid)
    PROVE  IsFragment(t, HandleRead(t, hasHeader, n).transaction, tid)
  <1> DEFINE left == t.response.total - t.response.offset
             m == IF n < left THEN n ELSE left
             sent == [t EXCEPT !.state = "WritingResponse", !.response.offset = @ + m]
             result == HandleRead(t, hasHeader, n)
  <1>1. result.transaction = sent /\ t.state \in {"WaitingForInitialRead", "WritingResponse"}
    BY DEF HandleRead
  <1> HIDE DEF m, result
  <1>2. /\ IsTransaction(sent) /\ sent.state = "WritingResponse"
        /\ DOMAIN sent.response = {"tid", "status", "total", "offset"}
        /\ sent.response.tid = tid /\ sent.response.status = t.response.status
    BY <1>1 DEF IsTransaction, HasResponse
  <1> HIDE DEF sent
  <1>3. QED
    BY <1>1, <1>2 DEF result, IsFragment

\* The end of a response, which may be the one to a timed write.
LEMMA CompletedTalks ==
    ASSUME NEW p, NEW asked, NEW prepared, NEW seen, NEW q,
           ProcedureTalks(p, asked, prepared), p.transaction.state \in {"WaitingForInitialRead", "WritingResponse"},
           seen.status = p.transaction.response.status,
           q.multi = p.multi, q.scratch = p.scratch,
           \/ /\ q.transaction.state = "WritingResponse"
              /\ DOMAIN q.transaction.response = {"tid", "status", "total", "offset"}
              /\ q.transaction.response.tid = asked.tid
              /\ q.transaction.response.status = p.transaction.response.status
           \/ /\ q.transaction.state = "WaitingForInitialWrite"
              /\ p.multi = "TimedWrite" => q.transaction.room = 0
    PROVE  ProcedureTalks(q, asked, PreparedBy(seen, asked, prepared))
  BY DEF ProcedureTalks, ReadsAsked, AnswersAsked, HoldsPrepared, PreparedBy

LEMMA CompleteTransactionTalks ==
    ASSUME NEW b, Shaped(b), IsProcedure(b.procedure)
    PROVE  LET d == CompleteTransaction(b)
           IN /\ Shaped(d) /\ d.table = b.table /\ d.fallback = b.fallback /\ d.asked = b.asked
              /\ d.prepared = b.prepared /\ d.seen = b.seen
              /\ d.procedure.attached = b.procedure.attached
              /\ d.procedure.multi = b.procedure.multi /\ d.procedure.scratch = b.procedure.scratch
              /\ d.procedure.transaction.state = "WaitingForInitialWrite"
              /\ b.procedure.multi = "TimedWrite" => d.procedure.transaction.room = 0
  <1> DEFINE d == [b EXCEPT !.procedure.transaction = CreateTransaction(0)]
             e == [b EXCEPT !.procedure.timer = FALSE, !.procedure.transaction = CreateTransaction(Room)]
  <1>1. /\ Shaped(d) /\ d.table = b.table /\ d.fallback = b.fallback /\ d.asked = b.asked
        /\ d.prepared = b.prepared /\ d.seen = b.seen
    BY DEF Shaped
  <1>2. /\ d.procedure.attached = b.procedure.attached
        /\ d.procedure.multi = b.procedure.multi /\ d.procedure.scratch = b.procedure.scratch
        /\ d.procedure.transaction = CreateTransaction(0)
    BY DEF Shaped, IsProcedure
  <1>3. /\ Shaped(e) /\ e.table = b.table /\ e.fallback = b.fallback /\ e.asked = b.asked
        /\ e.prepared = b.prepared /\ e.seen = b.seen
    BY DEF Shaped
  <1>4. /\ e.procedure.attached = b.procedure.attached
        /\ e.procedure.multi = b.procedure.multi /\ e.procedure.scratch = b.procedure.scratch
        /\ e.procedure.transaction = CreateTransaction(Room)
    BY DEF Shaped, IsProcedure
  <1>5. CompleteTransaction(b) = IF b.procedure.multi = "TimedWrite" THEN d ELSE e
    BY DEF CompleteTransaction
  <1> HIDE DEF d, e
  <1>6. /\ CreateTransaction(0).state = "WaitingForInitialWrite" /\ CreateTransaction(0).room = 0
        /\ CreateTransaction(Room).state = "WaitingForInitialWrite"
    BY DEF CreateTransaction
  <1>7. QED
    BY <1>1, <1>2, <1>3, <1>4, <1>5, <1>6

LEMMA DroppedTalks ==
    ASSUME NEW b, Shaped(b)
    PROVE  SameTalk(b, Dropped(b))
  <1> DEFINE t == TRUE
             d == SessionInvalidate(b, t)
  <1>1. Dropped(b) \in {b, d}
    BY DEF Dropped
  <1>2. t \in BOOLEAN
    OBVIOUS
  <1> HIDE DEF t
  <1>3. SameTalk(b, d) /\ SameTalk(b, b)
    BY <1>2, SessionInvalidateTalks DEF SameTalk
  <1> HIDE DEF d
  <1>4. QED
    BY <1>1, <1>3

\* A fragment of the response goes out.
LEMMA SentReads ==
    ASSUME NEW b, NEW d, NEW asked, NEW prepared, Keeping(b, d, ValuesOf(asked, prepared)),
           b.seen.answered = 0, ProcedureTalks(d.procedure, asked, prepared), NEW hasHeader, NEW n
    PROVE  Reading(b, Sent(d, HandleRead(d.procedure.transaction, hasHeader, n)), asked, prepared)
  <1> DEFINE A == ValuesOf(asked, prepared)
             t == d.procedure.transaction
             result == HandleRead(t, hasHeader, n)
             u == result.transaction
             a == [d EXCEPT !.procedure.transaction = u]
             e == [d EXCEPT !.procedure.transaction = u, !.seen.answered = u.response.tid,
                            !.seen.status = u.response.status]
             f == IF result.isFinal THEN CompleteTransaction(e) ELSE e
             g == DidSendGATTResponse(f)
             h == Dropped(g)
             x == asked.tid
  <1>1. /\ Shaped(d) /\ IsProcedure(d.procedure) /\ IsTransaction(t)
        /\ DOMAIN d.seen = {"char", "answered", "status", "applied"}
    BY DEF Keeping, IsProcedure
  <1>2. HasResponse(t, x)
    BY DEF ProcedureTalks, AnswersAsked, HasResponse
  <1>3. \/ Sent(d, result) = Failed(a)
        \/ Sent(d, result) = Ok(h) /\ result.error = "None"
    BY DEF Sent
  <1> HIDE DEF t, A, x
  <1>4. result.error = "None" => IsFragment(t, u, x)
    BY <1>1, <1>2, FragmentsAnswer
  <1> HIDE DEF u, result
  <1>5. Reading(b, Failed(a), asked, prepared)
    <2>1. /\ Shaped(a) /\ a.table = d.table /\ a.fallback = d.fallback /\ a.asked = d.asked
          /\ a.prepared = d.prepared /\ a.seen = d.seen
      BY <1>1 DEF Shaped
    <2> HIDE DEF a
    <2>2. QED
      BY <2>1 DEF Reading, Failed, Keeping, A
  <1>6. CASE Sent(d, result) = Ok(h) /\ result.error = "None"
    <2>1. /\ Shaped(e) /\ e.table = d.table /\ e.fallback = d.fallback /\ e.asked = d.asked
          /\ e.prepared = d.prepared
      BY <1>1 DEF Shaped
    <2>2. /\ DOMAIN e.seen = DOMAIN d.seen /\ e.seen.char = d.seen.char /\ e.seen.applied = d.seen.applied
          /\ e.seen.answered = u.response.tid /\ e.seen.status = u.response.status
      BY <1>1 DEF Shaped
    <2>3. /\ DOMAIN e.procedure = DOMAIN d.procedure /\ e.procedure.transaction = u
          /\ e.procedure.attached = d.procedure.attached /\ e.procedure.multi = d.procedure.multi
          /\ e.procedure.scratch = d.procedure.scratch
      BY <1>1 DEF Shaped, IsProcedure
    <2> HIDE DEF e
    <2>4. IsProcedure(e.procedure)
      BY <1>1, <1>4, <1>6, <2>3 DEF IsProcedure, IsFragment
    <2>5. /\ Shaped(f) /\ f.table = e.table /\ f.fallback = e.fallback /\ f.asked = e.asked
          /\ f.prepared = e.prepared /\ f.seen = e.seen
          /\ f.procedure.attached = e.procedure.attached
          /\ f.procedure.multi = e.procedure.multi /\ f.procedure.scratch = e.procedure.scratch
          /\ \/ f.procedure = e.procedure
             \/ /\ f.procedure.transaction.state = "WaitingForInitialWrite"
                /\ e.procedure.multi = "TimedWrite" => f.procedure.transaction.room = 0
      BY <2>1, <2>4, CompleteTransactionTalks
    <2> HIDE DEF f
    <2>6. ProcedureTalks(f.procedure, asked, PreparedBy(f.seen, asked, prepared))
      <3> DEFINE p == d.procedure
                 q == f.procedure
                 s == f.seen
      <3>1. /\ p.transaction.state \in {"WaitingForInitialRead", "WritingResponse"}
            /\ s.status = p.transaction.response.status
            /\ q.multi = p.multi /\ q.scratch = p.scratch
        BY <1>4, <1>6, <2>2, <2>3, <2>5 DEF t, IsFragment
      <3>2. \/ /\ q.transaction.state = "WritingResponse"
               /\ DOMAIN q.transaction.response = {"tid", "status", "total", "offset"}
               /\ q.transaction.response.tid = asked.tid
               /\ q.transaction.response.status = p.transaction.response.status
            \/ /\ q.transaction.state = "WaitingForInitialWrite"
               /\ p.multi = "TimedWrite" => q.transaction.room = 0
        BY <1>4, <1>6, <2>3, <2>5 DEF t, x, IsFragment
      <3>3. ProcedureTalks(p, asked, prepared)
        OBVIOUS
      <3> HIDE DEF p, q, s
      <3>4. ProcedureTalks(q, asked, PreparedBy(s, asked, prepared))
        BY <3>1, <3>2, <3>3, CompletedTalks
      <3>5. QED
        BY <3>4 DEF q, s
    <2>7. SameTalk(f, g)
      BY <2>5, LinkTalks
    <2> HIDE DEF g
    <2>8. SameTalk(g, h)
      BY <2>7, DroppedTalks DEF SameTalk
    <2> HIDE DEF h
    <2>9. SameTalk(f, h)
      BY <2>7, <2>8, SameTalkTwice
    <2>10. f.seen.applied \in A /\ f.seen.answered = asked.tid /\ f.seen.char = b.seen.char
      BY <1>4, <1>6, <2>2, <2>5 DEF Keeping, A, x, IsFragment
    <2>11. Reading(b, Ok(h), asked, prepared)
      BY <1>1, <2>1, <2>2, <2>3, <2>5, <2>6, <2>9, <2>10 DEF Reading, Ok, SameTalk, Keeping, A
    <2>12. QED
      BY <1>6, <2>11 DEF result, t
  <1>7. QED
    BY <1>3, <1>5, <1>6 DEF result, t

\* A callback starts: nothing was seen yet.
Blank(b) ==
    /\ Shaped(b) /\ Loops(b)
    /\ DOMAIN b.seen = {"char", "answered", "status", "applied"}
    /\ b.seen.answered = 0 /\ b.seen.status = "none" /\ b.seen.applied = "none"

\* What is kept per characteristic.
Listed(b) ==
    /\ DOMAIN b.fallback = Names /\ DOMAIN b.asked = Names /\ DOMAIN b.prepared = Names
    /\ \A n \in Names : DOMAIN b.fallback[n] = {"on", "tid", "status", "remaining"}

\* The procedures know the last request of their characteristic, and a characteristic has one
\* procedure.
TalkFits(procedure, fallback, asked, prepared) ==
    \A n \in Names :
        /\ fallback[n].on => procedure.attached # n /\ fallback[n].tid = asked[n].tid
        /\ procedure.attached = n => ProcedureTalks(procedure, asked[n], prepared[n])

Conversing(b) ==
    /\ Blank(b) /\ Listed(b)
    /\ ~b.link.terminal =>
           /\ IsProcedure(b.procedure) /\ RequestFits(b.procedure)
           /\ TalkFits(b.procedure, b.fallback, b.asked, b.prepared)

LEMMA FailedReads ==
    ASSUME NEW b, Blank(b), NEW asked, NEW prepared
    PROVE  Reading(b, Failed(b), asked, prepared)
  BY DEF Blank, Reading, Failed, ValuesOf

LEMMA HandleGATTReadReads ==
    ASSUME NEW b, Blank(b), NEW asked, NEW prepared,
           ~b.link.terminal => /\ IsProcedure(b.procedure) /\ RequestFits(b.procedure)
                               /\ ProcedureTalks(b.procedure, asked, prepared),
           NEW c, NEW room, NEW env, env.outcome \in {"next", "accepted", "error", "refused"}
    PROVE  Reading(b, HandleGATTRead(b, c, room, env), asked, prepared)
  <1> DEFINE A == ValuesOf(asked, prepared)
             r == IF IsRequestAvailable(b.procedure.transaction) THEN ProcessTransaction(b, c, env)
                  ELSE Ok(b)
             h == room > 0
             n == room - 1
             s == Sent(r.ble, HandleRead(r.ble.procedure.transaction, h, n))
  <1>1. Reading(b, Failed(b), asked, prepared)
    BY FailedReads
  <1>2. CASE b.link.terminal
    BY <1>1, <1>2 DEF HandleGATTRead
  <1>3. CASE ~b.link.terminal
    <2>1. IsProcedure(b.procedure) /\ RequestFits(b.procedure) /\ ProcedureTalks(b.procedure, asked, prepared)
      BY <1>3
    <2>2. HandleGATTRead(b, c, room, env) \in {Failed(b), ReadFromIt(r, room)}
      BY DEF HandleGATTRead
    <2>3. IF r.error THEN ReadFromIt(r, room) = r ELSE ReadFromIt(r, room) = s
      BY DEF ReadFromIt
    <2>4. Answering(b, r, asked, prepared)
      <3>1. CASE IsRequestAvailable(b.procedure.transaction)
        <4>1. /\ b.procedure.transaction.request.opcode \in Opcodes
              /\ b.procedure.transaction.state = "ReadingRequest"
          BY <2>1, <3>1 DEF IsRequestAvailable, RequestFits
        <4>2. Asking(b, asked, prepared)
          BY <2>1, <4>1 DEF Asking, Blank
        <4>3. Answering(b, ProcessTransaction(b, c, env), asked, prepared)
          BY <4>1, <4>2, ProcessTransactionAnswers
        <4>4. QED
          BY <3>1, <4>3
      <3>2. CASE ~IsRequestAvailable(b.procedure.transaction)
        <4>1. Answering(b, Ok(b), asked, prepared)
          BY <2>1 DEF Answering, Ok, Keeping, Blank, ValuesOf
        <4>2. QED
          BY <3>2, <4>1
      <3>3. QED
        BY <3>1, <3>2
    <2> HIDE DEF r, h, n
    <2>5. CASE r.error
      <3>1. Reading(b, r, asked, prepared)
        BY <2>4, <2>5 DEF Answering, Keeping, Reading, Blank
      <3>2. QED
        BY <1>1, <2>2, <2>3, <2>5, <3>1
    <2>6. CASE ~r.error
      <3> DEFINE d == r.ble
      <3>1. Keeping(b, d, A) /\ ProcedureTalks(d.procedure, asked, prepared) /\ b.seen.answered = 0
        BY <2>4, <2>6 DEF Answering, Blank
      <3> HIDE DEF d
      <3>2. Reading(b, Sent(d, HandleRead(d.procedure.transaction, h, n)), asked, prepared)
        BY <3>1, SentReads
      <3>3. QED
        BY <1>1, <2>2, <2>3, <2>6, <3>2 DEF d
    <2>7. QED
      BY <2>5, <2>6
  <1>4. QED
    BY <1>2, <1>3

\* A session that ends takes the procedures that tell to wait along.
LEMMA WithAbortTalks ==
    ASSUME NEW b, Conversing(b), NEW c
    PROVE  LET d == WithAbort(b, c)
           IN /\ Conversing(d) /\ d.table = b.table /\ d.asked = b.asked /\ d.prepared = b.prepared
              /\ d.seen = b.seen /\ d.link = b.link /\ d.procedure = b.procedure
              /\ d.connected = b.connected
  <1> DEFINE f == [n \in DOMAIN b.fallback |-> NoFallback]
             e == [b EXCEPT !.fallback = f]
  <1>1. /\ Shaped(e) /\ e.table = b.table /\ e.asked = b.asked /\ e.prepared = b.prepared
        /\ e.seen = b.seen /\ e.link = b.link /\ e.procedure = b.procedure /\ e.fallback = f
        /\ e.connected = b.connected
    BY DEF Conversing, Blank, Shaped
  <1>2. DOMAIN f = Names /\ \A n \in Names : f[n] = NoFallback
    BY DEF Conversing, Listed
  <1>3. WithAbort(b, c) \in {b, e}
    BY DEF WithAbort, AbortAllFallbackProcedures
  <1> HIDE DEF f, e
  <1>4. ~NoFallback.on /\ DOMAIN NoFallback = {"on", "tid", "status", "remaining"}
    BY DEF NoFallback
  <1>5. Blank(e) /\ Listed(e)
    BY <1>1, <1>2, <1>4 DEF Conversing, Blank, Loops, Listed
  <1>6. ~b.link.terminal => TalkFits(e.procedure, e.fallback, e.asked, e.prepared)
    BY <1>1, <1>2, <1>4 DEF Conversing, TalkFits
  <1>7. Conversing(e)
    BY <1>1, <1>5, <1>6 DEF Conversing
  <1>8. QED
    BY <1>1, <1>3, <1>7

\* The controller gets a fragment of n, and the application a value.
Heard(b, d, n) ==
    /\ Shaped(d) /\ d.table = b.table /\ Listed(d)
    /\ d.asked = b.asked /\ d.prepared = b.prepared
    /\ DOMAIN d.seen = {"char", "answered", "status", "applied"} /\ d.seen.char = b.seen.char
    /\ d.seen.answered \in {0, b.asked[n].tid} /\ d.seen.applied \in ValuesOf(b.asked[n], b.prepared[n])

PreparedAs(b, d, n) ==
    [m \in Names |-> IF m = n THEN PreparedBy(d.seen, b.asked[n], b.prepared[n]) ELSE b.prepared[m]]

OnRead(b, result, n) ==
    /\ Heard(b, result.ble, n)
    /\ ~result.error => TalkFits(result.ble.procedure, result.ble.fallback, b.asked, PreparedAs(b, result.ble, n))

LEMMA FailedIsHeard ==
    ASSUME NEW b, Conversing(b), NEW n
    PROVE  OnRead(b, Failed(b), n)
  BY DEF Conversing, Blank, OnRead, Failed, Heard, ValuesOf

LEMMA ReadFallbackTalks ==
    ASSUME NEW b, Conversing(b), ~b.link.terminal, NEW c, c.name \in Names, b.fallback[c.name].on, NEW room
    PROVE  OnRead(b, ReadFallback(b, c, room), c.name)
  <1> DEFINE n == c.name
             x == b.fallback[n].tid
             e == [b EXCEPT !.fallback[n] = NoFallback, !.seen.answered = x]
             g == DidSendGATTResponse(e)
  <1>1. ReadFallback(b, c, room) \in {Failed(b), Ok(g)}
    BY DEF ReadFallback
  <1>2. /\ Shaped(b) /\ Listed(b) /\ TalkFits(b.procedure, b.fallback, b.asked, b.prepared)
        /\ DOMAIN b.seen = {"char", "answered", "status", "applied"}
        /\ b.seen.answered = 0 /\ b.seen.status = "none" /\ b.seen.applied = "none"
    BY DEF Conversing, Blank
  <1>3. x = b.asked[n].tid /\ n \in Names
    BY <1>2 DEF TalkFits
  <1> HIDE DEF n, x
  <1>4. /\ Shaped(e) /\ e.table = b.table /\ e.asked = b.asked /\ e.prepared = b.prepared
        /\ e.procedure = b.procedure
    BY <1>2 DEF Shaped
  <1>5. /\ DOMAIN e.seen = DOMAIN b.seen /\ e.seen.char = b.seen.char /\ e.seen.applied = b.seen.applied
        /\ e.seen.answered = x /\ e.seen.status = b.seen.status
    BY <1>2 DEF Shaped
  <1>6. /\ DOMAIN e.fallback = DOMAIN b.fallback
        /\ \A m \in Names : e.fallback[m] = IF m = n THEN NoFallback ELSE b.fallback[m]
    BY <1>2, <1>3 DEF Shaped, Listed
  <1> HIDE DEF e
  <1>7. ~NoFallback.on /\ DOMAIN NoFallback = {"on", "tid", "status", "remaining"}
    BY DEF NoFallback
  <1>8. Listed(e)
    BY <1>2, <1>4, <1>6, <1>7 DEF Listed
  <1>9. SameTalk(e, g)
    BY <1>4, LinkTalks
  <1> HIDE DEF g
  <1>10. Listed(g)
    BY <1>8, <1>9 DEF Listed, SameTalk
  <1>11. Heard(b, g, n)
    BY <1>2, <1>3, <1>4, <1>5, <1>9, <1>10 DEF Heard, SameTalk, ValuesOf
  <1>12. \A m \in Names : PreparedAs(b, g, n)[m] = b.prepared[m]
    BY <1>2, <1>5, <1>9 DEF PreparedAs, PreparedBy, SameTalk
  <1>13. g.procedure = b.procedure /\ g.fallback = e.fallback
    BY <1>4, <1>9 DEF SameTalk
  <1>14. TalkFits(g.procedure, g.fallback, b.asked, PreparedAs(b, g, n))
    BY <1>2, <1>6, <1>7, <1>12, <1>13 DEF TalkFits
  <1>15. OnRead(b, Ok(g), n)
    BY <1>11, <1>14 DEF OnRead, Ok
  <1>16. QED
    BY <1>1, <1>15, FailedIsHeard DEF n

LEMMA ReadFromProcedureTalks ==
    ASSUME NEW b, Conversing(b), ~b.link.terminal, NEW c, c.name \in Names, NEW room,
           NEW env, env.outcome \in {"next", "accepted", "error", "refused"}
    PROVE  OnRead(b, ReadFromProcedure(b, c, room, env), c.name)
  <1> DEFINE n == c.name
             r == HandleGATTRead(b, c, room, env)
  <1>1. CASE b.fallback[n].on
    BY <1>1, ReadFallbackTalks DEF ReadFromProcedure
  <1>2. CASE ~b.fallback[n].on /\ b.procedure.attached # n
    BY <1>2, FailedIsHeard DEF ReadFromProcedure
  <1>3. CASE ~b.fallback[n].on /\ b.procedure.attached = n
    <2>1. /\ Blank(b) /\ Listed(b) /\ TalkFits(b.procedure, b.fallback, b.asked, b.prepared)
          /\ IsProcedure(b.procedure) /\ RequestFits(b.procedure)
      BY DEF Conversing
    <2>2. ReadFromProcedure(b, c, room, env) = r
      BY <1>3 DEF ReadFromProcedure
    <2> DEFINE asked == b.asked[n]
               prepared == b.prepared[n]
    <2>3. ProcedureTalks(b.procedure, asked, prepared)
      BY <1>3, <2>1 DEF TalkFits
    <2> HIDE DEF asked, prepared
    <2>4. Reading(b, r, asked, prepared)
      BY <2>1, <2>3, HandleGATTReadReads
    <2> HIDE DEF r
    <2>5. Heard(b, r.ble, n)
      BY <2>1, <2>4 DEF Reading, Heard, Listed, asked, prepared
    <2>6. ASSUME ~r.error
          PROVE  TalkFits(r.ble.procedure, r.ble.fallback, b.asked, PreparedAs(b, r.ble, n))
      <3> DEFINE d == r.ble
                 q == PreparedAs(b, d, n)
      <3>1. /\ d.fallback = b.fallback /\ d.procedure.attached = n
            /\ ProcedureTalks(d.procedure, asked, PreparedBy(d.seen, asked, prepared))
        BY <1>3, <2>4, <2>6 DEF Reading
      <3>2. q[n] = PreparedBy(d.seen, asked, prepared)
        BY DEF PreparedAs, asked, prepared
      <3> HIDE DEF q
      <3>3. ProcedureTalks(d.procedure, b.asked[n], q[n])
        BY <3>1, <3>2 DEF asked
      <3> HIDE DEF d, n
      <3>4. TalkFits(d.procedure, d.fallback, b.asked, q)
        BY <1>3, <2>1, <3>1, <3>3 DEF TalkFits
      <3>5. QED
        BY <3>4 DEF q, d
    <2>7. OnRead(b, r, n)
      BY <2>5, <2>6 DEF OnRead
    <2>8. QED
      BY <2>2, <2>7
  <1>4. QED
    BY <1>1, <1>2, <1>3

\* The end of a callback.
LEMMA FinishedTalks ==
    ASSUME NEW result, Shaped(result.ble), Loops(result.ble)
    PROVE  /\ SameTalk(result.ble, Finished(result))
           /\ result.error => Finished(result).link.terminal
  <1> DEFINE b == result.ble
             t == TRUE
             d == SessionInvalidate(b, t)
             e == SendPendingEventNotifications(b)
  <1>1. Finished(result) = IF result.error THEN d ELSE e
    BY DEF Finished
  <1>2. t \in BOOLEAN /\ t
    OBVIOUS
  <1> HIDE DEF t
  <1>3. Shaped(b) /\ Len(b.table) \in Nat
    BY DEF Loops
  <1> HIDE DEF b
  <1>4. SameTalk(b, d) /\ d.link.terminal
    BY <1>2, <1>3, SessionInvalidateTalks
  <1>5. SameTalk(b, e)
    BY <1>3, SendPendingTalks
  <1> HIDE DEF d, e
  <1>6. QED
    BY <1>1, <1>4, <1>5 DEF b

LEMMA ValueReadTalks ==
    ASSUME NEW b, Conversing(b), NEW c, c.name \in Names, NEW room,
           NEW env, env.outcome \in {"next", "accepted", "error", "refused"}
    PROVE  LET d == ValueRead(b, c, room, env)
           IN /\ Heard(b, d, c.name)
              /\ ~d.link.terminal => TalkFits(d.procedure, d.fallback, b.asked, PreparedAs(b, d, c.name))
  <1> DEFINE n == c.name
             k == CancelConnection(b)
             a == WithAbort(b, c)
             r == IF b.link.terminal THEN Failed(k) ELSE ReadFromProcedure(a, c, room, env)
             d == Finished(r)
  <1>1. d = ValueRead(b, c, room, env)
    BY DEF ValueRead
  <1>2. /\ Conversing(a) /\ a.table = b.table /\ a.asked = b.asked /\ a.prepared = b.prepared
        /\ a.seen = b.seen /\ a.link = b.link
    BY WithAbortTalks
  <1>3. Loops(b) /\ Shaped(b) /\ OnRead(b, Failed(b), n)
    BY FailedIsHeard DEF Conversing, Blank
  <1> HIDE DEF a
  <1>4. OnRead(b, r, n)
    <2>1. CASE b.link.terminal
      <3>1. SameTalk(b, k)
        BY <1>3, LinkTalks
      <3> HIDE DEF k
      <3>2. OnRead(b, Failed(k), n)
        BY <1>3, <3>1 DEF OnRead, Failed, Heard, SameTalk, Listed
      <3>3. QED
        BY <2>1, <3>2
    <2>2. CASE ~b.link.terminal
      <3> DEFINE g == ReadFromProcedure(a, c, room, env)
      <3>1. OnRead(a, g, n)
        BY <1>2, <2>2, ReadFromProcedureTalks
      <3> HIDE DEF g
      <3>2. OnRead(b, g, n)
        BY <1>2, <3>1 DEF OnRead, Heard, PreparedAs
      <3>3. QED
        BY <2>2, <3>2 DEF g
    <2>3. QED
      BY <2>1, <2>2
  <1> HIDE DEF r
  <1>5. Shaped(r.ble) /\ Loops(r.ble)
    BY <1>3, <1>4 DEF OnRead, Heard, Loops
  <1>6. SameTalk(r.ble, d) /\ (r.error => d.link.terminal)
    BY <1>5, FinishedTalks
  <1> HIDE DEF d
  <1>7. Heard(b, d, n)
    BY <1>4, <1>6 DEF OnRead, Heard, SameTalk, Listed
  <1>8. PreparedAs(b, d, n) = PreparedAs(b, r.ble, n)
    BY <1>6 DEF PreparedAs, SameTalk
  <1>9. ~d.link.terminal => TalkFits(d.procedure, d.fallback, b.asked, PreparedAs(b, d, n))
    BY <1>4, <1>6, <1>8 DEF OnRead, SameTalk
  <1>10. QED
    BY <1>1, <1>7, <1>9

\* A first fragment is of a request; a body that has no length says nothing.
IsPDU(pdu) ==
    pdu.kind = "first" =>
        pdu.opcode \in Opcodes /\ pdu.total \in Nat /\ (pdu.total = 0 => pdu.body = "none")

AskedBy(asked, pdu) ==
    IF pdu.kind = "first" THEN [tid |-> pdu.tid, opcode |-> pdu.opcode, body |-> pdu.body] ELSE asked

\* What a write makes of a procedure that goes on.
Writing(b, result, asked, prepared) ==
    LET d == result.ble
    IN /\ Shaped(d) /\ d.table = b.table /\ d.fallback = b.fallback
       /\ d.asked = b.asked /\ d.prepared = b.prepared /\ d.seen = b.seen
       /\ ~result.error =>
              d.procedure.attached = b.procedure.attached /\ ProcedureTalks(d.procedure, asked, prepared)

\* A fragment that is taken is of the request that was asked last, and a body that does not fit
\* leaves the buffer alone.
LEMMA FragmentsAsk ==
    ASSUME NEW b, NEW p, b.procedure = p, IsProcedure(p), NEW asked, NEW prepared,
           ProcedureTalks(p, asked, prepared), NEW pdu, IsPDU(pdu),
           HandleWrite(p.transaction, pdu).error = "None",
           NEW q, q.multi = p.multi, q.scratch = Stored(b, pdu),
           q.transaction = HandleWrite(p.transaction, pdu).transaction
    PROVE  ProcedureTalks(q, AskedBy(asked, pdu), prepared)
  <1> DEFINE t == p.transaction
             u == q.transaction
             w == HandleWrite(t, pdu)
  <1>1. IsTransaction(t) /\ w.error = "None" /\ u = w.transaction
    BY DEF IsProcedure
  <1>2. CASE t.state = "WaitingForInitialWrite"
    <2>1. pdu.kind = "first" /\ u = InitialWrite(t, pdu)
      BY <1>1, <1>2 DEF HandleWrite
    <2>2. /\ u.state = "ReadingRequest" /\ u.room = t.room
          /\ u.request.tid = pdu.tid /\ u.request.opcode = pdu.opcode /\ u.request.body = pdu.body
          /\ u.request.total = pdu.total
      BY <1>1, <2>1 DEF InitialWrite, IsTransaction
    <2>3. /\ pdu.total > 0 /\ pdu.total <= t.room => q.scratch = pdu.body
          /\ ~(pdu.total > 0 /\ pdu.total <= t.room) => q.scratch = p.scratch
      BY <1>2, <2>1 DEF Stored
    <2>4. /\ AskedBy(asked, pdu) = [tid |-> pdu.tid, opcode |-> pdu.opcode, body |-> pdu.body]
          /\ pdu.total \in Nat /\ (pdu.total = 0 => pdu.body = "none")
      BY <2>1 DEF AskedBy, IsPDU
    <2>5. q.multi = "TimedWrite" => t.room = 0 /\ p.scratch = prepared
      BY <1>2 DEF ProcedureTalks, HoldsPrepared
    <2>6. q.multi = "TimedWrite" => u.room = 0 /\ q.scratch = prepared
      BY <2>2, <2>3, <2>4, <2>5
    <2> HIDE DEF t, u
    <2>7. ReadsAsked(q, AskedBy(asked, pdu))
      BY <2>2, <2>3, <2>4 DEF ReadsAsked, u
    <2>8. QED
      BY <2>2, <2>6, <2>7 DEF ProcedureTalks, AnswersAsked, HoldsPrepared, u
  <1>3. CASE t.state = "ReadingRequest"
    <2>1. pdu.kind = "continuation" /\ u = [t EXCEPT !.request.offset = @ + pdu.n]
      BY <1>1, <1>3 DEF HandleWrite
    <2>2. /\ u.state = t.state /\ u.room = t.room
          /\ u.request.tid = t.request.tid /\ u.request.opcode = t.request.opcode
          /\ u.request.body = t.request.body /\ u.request.total = t.request.total
      BY <1>1, <2>1 DEF IsTransaction
    <2>3. q.scratch = p.scratch /\ AskedBy(asked, pdu) = asked
      BY <1>3, <2>1 DEF Stored, AskedBy
    <2> HIDE DEF u
    <2>4. QED
      BY <1>3, <2>2, <2>3 DEF ProcedureTalks, ReadsAsked, AnswersAsked, HoldsPrepared, t, u
  <1>4. CASE t.state \in {"HandlingRequest", "WaitingForInitialRead"}
    <2>1. pdu.kind = "continuation" /\ u = t
      BY <1>1, <1>4 DEF HandleWrite
    <2>2. q.scratch = p.scratch /\ AskedBy(asked, pdu) = asked
      BY <1>4, <2>1 DEF Stored, AskedBy
    <2>3. QED
      BY <2>1, <2>2 DEF ProcedureTalks, ReadsAsked, AnswersAsked, HoldsPrepared
  <1>5. CASE t.state = "WritingResponse"
    BY <1>1, <1>5 DEF HandleWrite
  <1>6. QED
    BY <1>1, <1>2, <1>3, <1>4, <1>5 DEF IsTransaction

LEMMA FailedWrites ==
    ASSUME NEW b, Shaped(b), NEW asked, NEW prepared
    PROVE  Writing(b, Failed(b), asked, prepared)
  BY DEF Writing, Failed

LEMMA TakenTalks ==
    ASSUME NEW b, Shaped(b), IsProcedure(b.procedure), NEW asked, NEW prepared,
           ProcedureTalks(b.procedure, asked, prepared), NEW pdu, IsPDU(pdu)
    PROVE  Writing(b, Taken(b, HandleWrite(b.procedure.transaction, pdu), pdu), AskedBy(asked, pdu), prepared)
  <1> DEFINE p == b.procedure
             w == HandleWrite(p.transaction, pdu)
             s == Stored(b, pdu)
             u == w.transaction
             d == [b EXCEPT !.procedure.scratch = s, !.procedure.transaction = u]
             g == DidSendGATTResponse(d)
  <1>1. Taken(b, w, pdu) = IF w.error # "None" THEN Failed(d) ELSE Ok(g)
    BY DEF Taken
  <1> HIDE DEF s, u
  <1>2. /\ Shaped(d) /\ d.table = b.table /\ d.fallback = b.fallback
        /\ d.asked = b.asked /\ d.prepared = b.prepared /\ d.seen = b.seen
    BY DEF Shaped
  <1>3. /\ d.procedure.attached = p.attached /\ d.procedure.multi = p.multi
        /\ d.procedure.scratch = s /\ d.procedure.transaction = u
    BY DEF Shaped, IsProcedure
  <1> HIDE DEF d
  <1>4. Writing(b, Failed(d), AskedBy(asked, pdu), prepared)
    BY <1>2 DEF Writing, Failed
  <1>5. SameTalk(d, g)
    BY <1>2, LinkTalks
  <1> HIDE DEF g
  <1>6. ASSUME w.error = "None"
        PROVE  Writing(b, Ok(g), AskedBy(asked, pdu), prepared)
    <2> DEFINE q == d.procedure
    <2>1. q.multi = p.multi /\ q.scratch = Stored(b, pdu) /\ q.transaction = HandleWrite(p.transaction, pdu).transaction
      BY <1>3 DEF s, u
    <2>2. b.procedure = p /\ IsProcedure(p) /\ ProcedureTalks(p, asked, prepared)
          /\ HandleWrite(p.transaction, pdu).error = "None"
      BY <1>6
    <2> HIDE DEF p, q, w
    <2>3. ProcedureTalks(q, AskedBy(asked, pdu), prepared)
      BY <2>1, <2>2, FragmentsAsk
    <2>4. QED
      BY <1>2, <1>3, <1>5, <2>3 DEF Writing, Ok, SameTalk, p, q
  <1>7. QED
    BY <1>1, <1>4, <1>6

\* A procedure that starts, or starts again, knows what its predecessor knew, or nothing.
Knowing(b, d, asked, prepared) ==
    /\ Shaped(d) /\ d.table = b.table /\ d.fallback = b.fallback
    /\ d.asked = b.asked /\ d.prepared = b.prepared /\ d.seen = b.seen
    /\ d.procedure.attached = b.procedure.attached
    /\ IsProcedure(d.procedure) /\ ProcedureTalks(d.procedure, asked, prepared)

LEMMA NewProcedureTalks ==
    ASSUME NEW name, NEW asked, NEW prepared
    PROVE  /\ AttachTo(name).attached = name /\ IsProcedure(AttachTo(name))
           /\ ProcedureTalks(AttachTo(name), asked, prepared)
  <1>1. /\ DOMAIN NoProcedure = {"attached", "startedSecured", "timer", "multi", "transaction", "scratch"}
        /\ NoProcedure.multi = "None"
    BY DEF NoProcedure
  <1>2. /\ DOMAIN AttachTo(name) = DOMAIN NoProcedure /\ AttachTo(name).attached = name
        /\ AttachTo(name).multi = "None" /\ AttachTo(name).transaction = CreateTransaction(Room)
    BY <1>1 DEF AttachTo
  <1>3. IsTransaction(CreateTransaction(Room)) /\ CreateTransaction(Room).state = "WaitingForInitialWrite"
    BY DEF CreateTransaction, NoRequest, IsTransaction
  <1>4. QED
    BY <1>1, <1>2, <1>3 DEF IsProcedure, ProcedureTalks, ReadsAsked, AnswersAsked, HoldsPrepared

LEMMA ResetKnows ==
    ASSUME NEW b, Shaped(b), NEW asked, NEW prepared
    PROVE  Knowing(b, ResetProcedure(b), asked, prepared)
  <1> DEFINE name == b.procedure.attached
             p == AttachTo(name)
             d == [b EXCEPT !.procedure = p]
  <1>1. ResetProcedure(b) = d
    BY DEF ResetProcedure
  <1>2. p.attached = name /\ IsProcedure(p) /\ ProcedureTalks(p, asked, prepared)
    BY NewProcedureTalks
  <1> HIDE DEF p, name
  <1>3. /\ Shaped(d) /\ d.table = b.table /\ d.fallback = b.fallback /\ d.procedure = p
        /\ d.asked = b.asked /\ d.prepared = b.prepared /\ d.seen = b.seen
    BY DEF Shaped
  <1> HIDE DEF d
  <1>4. QED
    BY <1>1, <1>2, <1>3 DEF Knowing, name

LEMMA BegunKnows ==
    ASSUME NEW b, Shaped(b), NEW asked, NEW prepared, NEW c,
           IsProcedure(b.procedure), ProcedureTalks(b.procedure, asked, prepared)
    PROVE  Knowing(b, Begun(b, c), asked, prepared)
  <1> DEFINE f == FALSE
             i == SessionInvalidate(b, f)
             d == IF IsSecured(b) /\ DropsSecuritySession(c) THEN ResetProcedure(i) ELSE b
             secured == IsSecured(d)
             e == [d EXCEPT !.procedure.startedSecured = secured, !.procedure.timer = TRUE]
             g == DidStartBLEProcedure(e)
  <1>1. Begun(b, c) = g
    BY DEF Begun
  <1>2. f \in BOOLEAN
    OBVIOUS
  <1> HIDE DEF f
  <1>3. SameTalk(b, i)
    BY <1>2, SessionInvalidateTalks
  <1> HIDE DEF i
  <1>4. Knowing(i, ResetProcedure(i), asked, prepared)
    BY <1>3, ResetKnows DEF SameTalk
  <1>5. Knowing(b, ResetProcedure(i), asked, prepared)
    BY <1>3, <1>4 DEF Knowing, SameTalk
  <1>6. Knowing(b, d, asked, prepared)
    BY <1>5 DEF Knowing
  <1> HIDE DEF d, secured
  <1>7. /\ Shaped(e) /\ e.table = d.table /\ e.fallback = d.fallback
        /\ e.asked = d.asked /\ e.prepared = d.prepared /\ e.seen = d.seen
    BY <1>6 DEF Shaped, Knowing
  <1>8. /\ DOMAIN e.procedure = DOMAIN d.procedure /\ e.procedure.transaction = d.procedure.transaction
        /\ e.procedure.attached = d.procedure.attached /\ e.procedure.multi = d.procedure.multi
        /\ e.procedure.scratch = d.procedure.scratch
    BY <1>6 DEF Shaped, Knowing, IsProcedure
  <1> HIDE DEF e
  <1>9. Knowing(b, e, asked, prepared)
    BY <1>6, <1>7, <1>8 DEF Knowing, IsProcedure, ProcedureTalks, ReadsAsked, AnswersAsked, HoldsPrepared
  <1>10. SameTalk(e, g)
    BY <1>7, LinkTalks
  <1> HIDE DEF g
  <1>11. QED
    BY <1>1, <1>9, <1>10 DEF Knowing, SameTalk

LEMMA WrittenToTalks ==
    ASSUME NEW b, Shaped(b), IsProcedure(b.procedure), NEW asked, NEW prepared,
           ProcedureTalks(b.procedure, asked, prepared), NEW pdu, IsPDU(pdu), NEW env
    PROVE  Writing(b, WrittenTo(b, pdu, env), AskedBy(asked, pdu), prepared)
  BY TakenTalks, FailedWrites DEF WrittenTo

LEMMA HandleGATTWriteTalks ==
    ASSUME NEW b, Shaped(b), NEW asked, NEW prepared,
           ~b.link.terminal => IsProcedure(b.procedure) /\ ProcedureTalks(b.procedure, asked, prepared),
           NEW c, NEW pdu, IsPDU(pdu), NEW env
    PROVE  Writing(b, HandleGATTWrite(b, c, pdu, env), AskedBy(asked, pdu), prepared)
  <1> DEFINE x == AskedBy(asked, pdu)
             d == Begun(b, c)
  <1>1. Writing(b, Failed(b), x, prepared)
    BY FailedWrites
  <1>2. CASE b.link.terminal
    BY <1>1, <1>2 DEF HandleGATTWrite
  <1>3. CASE ~b.link.terminal
    <2>1. IsProcedure(b.procedure) /\ ProcedureTalks(b.procedure, asked, prepared)
      BY <1>3
    <2>2. Writing(b, WrittenTo(b, pdu, env), x, prepared)
      BY <2>1, WrittenToTalks
    <2>3. HandleGATTWrite(b, c, pdu, env) \in {Failed(b), WrittenTo(b, pdu, env), WrittenTo(d, pdu, env)}
      BY DEF HandleGATTWrite
    <2>4. Knowing(b, d, asked, prepared)
      BY <2>1, BegunKnows
    <2> HIDE DEF d, x
    <2>5. Writing(d, WrittenTo(d, pdu, env), x, prepared)
      BY <2>4, WrittenToTalks DEF Knowing, x
    <2>6. Writing(b, WrittenTo(d, pdu, env), x, prepared)
      BY <2>4, <2>5 DEF Writing, Knowing
    <2>7. QED
      BY <1>1, <2>2, <2>3, <2>6 DEF x
  <1>4. QED
    BY <1>2, <1>3

\* The controller writes a fragment to n.
AskedAs(b, n, pdu) == [m \in Names |-> IF m = n THEN AskedBy(b.asked[n], pdu) ELSE b.asked[m]]

Silently(b, d) ==
    /\ Shaped(d) /\ d.table = b.table /\ Listed(d)
    /\ d.asked = b.asked /\ d.prepared = b.prepared /\ d.seen = b.seen

OnWrite(b, result, n, pdu) ==
    /\ Silently(b, result.ble)
    /\ ~result.error =>
           TalkFits(result.ble.procedure, result.ble.fallback, AskedAs(b, n, pdu), b.prepared)

LEMMA FailedOnWrite ==
    ASSUME NEW b, NEW d, Silently(b, d), NEW n, NEW pdu
    PROVE  OnWrite(b, Failed(d), n, pdu)
  BY DEF OnWrite, Failed

LEMMA ConversingIsSilent ==
    ASSUME NEW b, Conversing(b)
    PROVE  Silently(b, b)
  BY DEF Conversing, Blank, Silently

\* One fallback procedure changes.
LEMMA FallbackChanges ==
    ASSUME NEW b, Conversing(b), ~b.link.terminal, NEW n \in Names, NEW pdu, NEW d, Shaped(d),
           d.table = b.table, d.asked = b.asked, d.prepared = b.prepared, d.seen = b.seen,
           d.procedure = b.procedure, DOMAIN d.fallback = Names,
           \A m \in Names \ {n} : d.fallback[m] = b.fallback[m],
           DOMAIN d.fallback[n] = {"on", "tid", "status", "remaining"},
           b.procedure.attached # n, d.fallback[n].tid = AskedBy(b.asked[n], pdu).tid
    PROVE  OnWrite(b, Ok(DidSendGATTResponse(d)), n, pdu)
  <1> DEFINE g == DidSendGATTResponse(d)
  <1>1. SameTalk(d, g)
    BY LinkTalks
  <1> HIDE DEF g
  <1>2. Listed(d)
    BY DEF Listed, Conversing
  <1>3. Silently(b, g)
    BY <1>1, <1>2 DEF Silently, SameTalk, Listed
  <1>4. TalkFits(b.procedure, b.fallback, b.asked, b.prepared)
    BY DEF Conversing
  <1>5. \A m \in Names : AskedAs(b, n, pdu)[m] = IF m = n THEN AskedBy(b.asked[n], pdu) ELSE b.asked[m]
    BY DEF AskedAs
  <1>6. TalkFits(g.procedure, g.fallback, AskedAs(b, n, pdu), b.prepared)
    BY <1>1, <1>4, <1>5 DEF TalkFits, SameTalk
  <1>7. QED
    BY <1>3, <1>6 DEF OnWrite, Ok, g

\* Only the fallback procedure of n differs.
Near(b, d, n) ==
    /\ Shaped(d) /\ d.table = b.table /\ d.asked = b.asked /\ d.prepared = b.prepared
    /\ d.seen = b.seen /\ d.procedure = b.procedure /\ DOMAIN d.fallback = Names
    /\ \A m \in Names \ {n} : d.fallback[m] = b.fallback[m]
    /\ DOMAIN d.fallback[n] = {"on", "tid", "status", "remaining"}

LEMMA NearIsSilent ==
    ASSUME NEW b, Conversing(b), NEW n \in Names, NEW d, Near(b, d, n)
    PROVE  Silently(b, d)
  BY DEF Conversing, Listed, Near, Silently

LEMMA FallbackBegunTalks ==
    ASSUME NEW b, Conversing(b), ~b.link.terminal, NEW c, c.name \in Names, b.procedure.attached # c.name,
           NEW e, Near(b, e, c.name), NEW pdu
    PROVE  OnWrite(b, FallbackBegun(e, c, pdu), c.name, pdu)
  <1> DEFINE n == c.name
             status == IF pdu.opcode # "unknown" /\ pdu.iid # "own" THEN "InvalidInstanceID" ELSE "MaxProcedures"
             left == pdu.total - pdu.n
             d == [e EXCEPT !.fallback[n].tid = pdu.tid, !.fallback[n].status = status,
                            !.fallback[n].remaining = left]
  <1>1. FallbackBegun(e, c, pdu) =
            IF pdu.kind # "first" \/ pdu.n > pdu.total THEN Failed(e) ELSE Ok(DidSendGATTResponse(d))
    BY DEF FallbackBegun
  <1>2. OnWrite(b, Failed(e), n, pdu)
    BY NearIsSilent, FailedOnWrite
  <1> HIDE DEF n, status, left
  <1>3. n \in Names /\ Near(b, e, n) /\ b.procedure.attached # n
    BY DEF n
  <1>4. /\ Shaped(d) /\ d.table = e.table /\ d.asked = e.asked /\ d.prepared = e.prepared
        /\ d.seen = e.seen /\ d.procedure = e.procedure /\ DOMAIN d.fallback = DOMAIN e.fallback
    BY <1>3 DEF Shaped, Near
  <1>5. \A m \in Names \ {n} : d.fallback[m] = e.fallback[m]
    BY <1>3 DEF Shaped, Near
  <1>6. DOMAIN d.fallback[n] = {"on", "tid", "status", "remaining"} /\ d.fallback[n].tid = pdu.tid
    BY <1>3 DEF Shaped, Near
  <1> HIDE DEF d
  <1>7. Near(b, d, n)
    BY <1>3, <1>4, <1>5, <1>6 DEF Near
  <1>8. ASSUME pdu.kind = "first"
        PROVE  OnWrite(b, Ok(DidSendGATTResponse(d)), n, pdu)
    <2>1. d.fallback[n].tid = AskedBy(b.asked[n], pdu).tid
      BY <1>6, <1>8 DEF AskedBy
    <2>2. QED
      BY <1>3, <1>7, <2>1, FallbackChanges DEF Near
  <1>9. QED
    BY <1>1, <1>2, <1>8 DEF n

LEMMA FallbackContinuedTalks ==
    ASSUME NEW b, Conversing(b), ~b.link.terminal, NEW c, c.name \in Names, b.fallback[c.name].on, NEW pdu
    PROVE  OnWrite(b, FallbackContinued(b, c, pdu), c.name, pdu)
  <1> DEFINE n == c.name
             d == [b EXCEPT !.fallback[n].remaining = @ - pdu.n]
  <1>1. FallbackContinued(b, c, pdu) \in {Failed(b), Ok(DidSendGATTResponse(d))}
        /\ (pdu.kind # "continuation" => FallbackContinued(b, c, pdu) = Failed(b))
    BY DEF FallbackContinued
  <1>2. OnWrite(b, Failed(b), n, pdu)
    BY ConversingIsSilent, FailedOnWrite
  <1>3. n \in Names /\ Shaped(b) /\ Listed(b) /\ b.procedure.attached # n
        /\ b.fallback[n].tid = b.asked[n].tid
    BY DEF Conversing, Blank, TalkFits
  <1> HIDE DEF n
  <1>4. /\ Shaped(d) /\ d.table = b.table /\ d.asked = b.asked /\ d.prepared = b.prepared
        /\ d.seen = b.seen /\ d.procedure = b.procedure /\ DOMAIN d.fallback = DOMAIN b.fallback
    BY <1>3 DEF Shaped
  <1>5. \A m \in Names \ {n} : d.fallback[m] = b.fallback[m]
    BY <1>3 DEF Shaped, Listed
  <1>6. DOMAIN d.fallback[n] = {"on", "tid", "status", "remaining"} /\ d.fallback[n].tid = b.fallback[n].tid
    BY <1>3 DEF Shaped, Listed
  <1> HIDE DEF d
  <1>7. ASSUME pdu.kind = "continuation"
        PROVE  OnWrite(b, Ok(DidSendGATTResponse(d)), n, pdu)
    <2>1. d.fallback[n].tid = AskedBy(b.asked[n], pdu).tid
      BY <1>3, <1>6, <1>7 DEF AskedBy
    <2>2. QED
      BY <1>3, <1>4, <1>5, <1>6, <2>1, FallbackChanges DEF Listed
  <1>8. QED
    BY <1>1, <1>2, <1>7 DEF n

LEMMA BeginFallbackNears ==
    ASSUME NEW b, Conversing(b), NEW c, c.name \in Names
    PROVE  Near(b, BeginFallback(b, c), c.name)
  <1> DEFINE n == c.name
             d == [b EXCEPT !.fallback[n].on = TRUE]
             g == DidStartBLEProcedure(d)
  <1>1. n \in Names /\ Shaped(b) /\ Listed(b)
    BY DEF Conversing, Blank
  <1>2. BeginFallback(b, c) = g
    BY DEF BeginFallback
  <1> HIDE DEF n
  <1>3. /\ Shaped(d) /\ d.table = b.table /\ d.asked = b.asked /\ d.prepared = b.prepared
        /\ d.seen = b.seen /\ d.procedure = b.procedure /\ DOMAIN d.fallback = DOMAIN b.fallback
    BY <1>1 DEF Shaped
  <1>4. \A m \in Names \ {n} : d.fallback[m] = b.fallback[m]
    BY <1>1 DEF Shaped, Listed
  <1>5. DOMAIN d.fallback[n] = {"on", "tid", "status", "remaining"}
    BY <1>1 DEF Shaped, Listed
  <1> HIDE DEF d
  <1>6. SameTalk(d, g)
    BY <1>3, LinkTalks
  <1> HIDE DEF g
  <1>7. Near(b, g, n)
    BY <1>1, <1>3, <1>4, <1>5, <1>6 DEF Near, SameTalk, Listed
  <1>8. QED
    BY <1>2, <1>7 DEF n

\* A write to a procedure that tells to wait.
LEMMA WriteToFallbackTalks ==
    ASSUME NEW b, Conversing(b), ~b.link.terminal, NEW c, c.name \in Names, NEW pdu, NEW env
    PROVE  /\ b.fallback[c.name].on => OnWrite(b, WriteToFallback(b, c, pdu, env, FALSE), c.name, pdu)
           /\ b.procedure.attached # c.name =>
                  OnWrite(b, WriteToFallback(BeginFallback(b, c), c, pdu, env, TRUE), c.name, pdu)
  <1> DEFINE n == c.name
             e == BeginFallback(b, c)
  <1>1. OnWrite(b, Failed(b), n, pdu)
    BY ConversingIsSilent, FailedOnWrite
  <1>2. Near(b, e, n) /\ n \in Names
    BY BeginFallbackNears
  <1>3. WriteToFallback(b, c, pdu, env, FALSE) \in {Failed(b), FallbackContinued(b, c, pdu)}
        /\ WriteToFallback(e, c, pdu, env, TRUE) \in {Failed(e), FallbackBegun(e, c, pdu)}
    BY DEF WriteToFallback
  <1> HIDE DEF e
  <1>4. OnWrite(b, Failed(e), n, pdu)
    BY <1>2, NearIsSilent, FailedOnWrite
  <1>5. b.fallback[n].on => OnWrite(b, FallbackContinued(b, c, pdu), n, pdu)
    BY FallbackContinuedTalks
  <1>6. b.procedure.attached # n => OnWrite(b, FallbackBegun(e, c, pdu), n, pdu)
    BY <1>2, FallbackBegunTalks
  <1>7. QED
    BY <1>1, <1>3, <1>4, <1>5, <1>6 DEF e

\* A write to the full procedure, which is attached to n now.
LEMMA AttachedWrites ==
    ASSUME NEW b, Conversing(b), ~b.link.terminal, NEW n \in Names, ~b.fallback[n].on, NEW pdu, NEW e,
           e.table = b.table, e.fallback = b.fallback, e.asked = b.asked, e.prepared = b.prepared,
           e.seen = b.seen, e.procedure.attached = n,
           NEW result, Writing(e, result, AskedBy(b.asked[n], pdu), b.prepared[n])
    PROVE  OnWrite(b, result, n, pdu)
  <1> DEFINE d == result.ble
             x == AskedAs(b, n, pdu)
  <1>1. Silently(b, d)
    BY DEF Silently, Writing, Listed, Conversing
  <1>2. ASSUME ~result.error
        PROVE  TalkFits(d.procedure, d.fallback, x, b.prepared)
    <2>1. d.procedure.attached = n /\ d.fallback = b.fallback
          /\ ProcedureTalks(d.procedure, AskedBy(b.asked[n], pdu), b.prepared[n])
      BY <1>2 DEF Writing
    <2>2. \A m \in Names : x[m] = IF m = n THEN AskedBy(b.asked[n], pdu) ELSE b.asked[m]
      BY DEF AskedAs
    <2>3. TalkFits(b.procedure, b.fallback, b.asked, b.prepared)
      BY DEF Conversing
    <2> HIDE DEF d, x
    <2>4. ProcedureTalks(d.procedure, x[n], b.prepared[n])
      BY <2>1, <2>2
    <2>5. QED
      BY <2>1, <2>2, <2>3, <2>4 DEF TalkFits
  <1>3. QED
    BY <1>1, <1>2 DEF OnWrite

LEMMA WriteToProcedureTalks ==
    ASSUME NEW b, Conversing(b), ~b.link.terminal, NEW c, c.name \in Names, NEW pdu, IsPDU(pdu), NEW env
    PROVE  OnWrite(b, WriteToProcedure(b, c, pdu, env), c.name, pdu)
  <1> DEFINE n == c.name
             p == AttachTo(n)
             e == [b EXCEPT !.procedure = p]
             x == AskedBy(b.asked[n], pdu)
  <1>1. Shaped(b) /\ IsProcedure(b.procedure) /\ TalkFits(b.procedure, b.fallback, b.asked, b.prepared)
    BY DEF Conversing, Blank
  <1>2. CASE b.fallback[n].on
    BY <1>2, WriteToFallbackTalks DEF WriteToProcedure
  <1>3. CASE ~b.fallback[n].on /\ b.procedure.attached = n
    <2>1. WriteToProcedure(b, c, pdu, env) = HandleGATTWrite(b, c, pdu, env)
      BY <1>3 DEF WriteToProcedure
    <2> DEFINE asked == b.asked[n]
               prepared == b.prepared[n]
               r == HandleGATTWrite(b, c, pdu, env)
    <2>2. ProcedureTalks(b.procedure, asked, prepared)
      BY <1>1, <1>3 DEF TalkFits
    <2> HIDE DEF asked, prepared
    <2>3. Writing(b, r, AskedBy(asked, pdu), prepared)
      BY <1>1, <2>2, HandleGATTWriteTalks
    <2> HIDE DEF r
    <2>4. OnWrite(b, r, n, pdu)
      BY <1>3, <2>3, AttachedWrites DEF asked, prepared
    <2>5. QED
      BY <2>1, <2>4 DEF r
  <1>4. CASE ~b.fallback[n].on /\ b.procedure.attached # n
    <2> DEFINE r == HandleGATTWrite(e, c, pdu, env)
               g == WriteToFallback(BeginFallback(b, c), c, pdu, env, TRUE)
    <2>1. WriteToProcedure(b, c, pdu, env) \in {r, g}
      BY <1>4 DEF WriteToProcedure
    <2>2. OnWrite(b, g, n, pdu)
      BY <1>4, WriteToFallbackTalks
    <2> HIDE DEF g
    <2> DEFINE asked == b.asked[n]
               prepared == b.prepared[n]
    <2>3. p.attached = n /\ IsProcedure(p) /\ ProcedureTalks(p, asked, prepared)
      BY NewProcedureTalks
    <2> HIDE DEF p, asked, prepared
    <2>4. /\ Shaped(e) /\ e.table = b.table /\ e.fallback = b.fallback /\ e.asked = b.asked
          /\ e.prepared = b.prepared /\ e.seen = b.seen /\ e.procedure = p
      BY <1>1 DEF Shaped
    <2> HIDE DEF e
    <2>5. Writing(e, r, AskedBy(asked, pdu), prepared)
      BY <2>3, <2>4, HandleGATTWriteTalks
    <2> HIDE DEF r
    <2>6. e.procedure.attached = n
      BY <2>3, <2>4
    <2>7. OnWrite(b, r, n, pdu)
      BY <1>4, <2>4, <2>5, <2>6, AttachedWrites DEF asked, prepared
    <2>8. QED
      BY <2>1, <2>2, <2>7 DEF r, e, p
  <1>5. QED
    BY <1>2, <1>3, <1>4

LEMMA ValueWriteTalks ==
    ASSUME NEW b, Conversing(b), NEW c, c.name \in Names, NEW pdu, IsPDU(pdu), NEW env
    PROVE  LET d == ValueWrite(b, c, pdu, env)
           IN /\ Silently(b, d)
              /\ ~d.link.terminal => TalkFits(d.procedure, d.fallback, AskedAs(b, c.name, pdu), b.prepared)
  <1> DEFINE n == c.name
             k == CancelConnection(b)
             a == WithAbort(b, c)
             w == WriteToProcedure(a, c, pdu, env)
             r == IF ~MayAttach(b) THEN Failed(k) ELSE w
             d == Finished(r)
  <1>1. d = ValueWrite(b, c, pdu, env)
    BY DEF ValueWrite
  <1>2. /\ Conversing(a) /\ a.table = b.table /\ a.asked = b.asked /\ a.prepared = b.prepared
        /\ a.seen = b.seen /\ a.link = b.link
    BY WithAbortTalks
  <1>3. Loops(b) /\ Shaped(b) /\ Silently(b, b)
    BY ConversingIsSilent DEF Conversing, Blank
  <1> HIDE DEF a
  <1>4. SameTalk(b, k)
    BY <1>3, LinkTalks
  <1>5. MayAttach(b) => ~a.link.terminal
    BY <1>2 DEF MayAttach
  <1> HIDE DEF k
  <1>6. Silently(b, k)
    BY <1>3, <1>4 DEF Silently, SameTalk, Listed
  <1>7. MayAttach(b) => OnWrite(a, w, n, pdu)
    BY <1>2, <1>5, WriteToProcedureTalks
  <1> HIDE DEF w
  <1>8. MayAttach(b) => OnWrite(b, w, n, pdu)
    BY <1>2, <1>7 DEF OnWrite, Silently, AskedAs
  <1>9. OnWrite(b, Failed(k), n, pdu)
    BY <1>6, FailedOnWrite
  <1>10. OnWrite(b, r, n, pdu)
    BY <1>8, <1>9
  <1> HIDE DEF r
  <1>11. Shaped(r.ble) /\ Loops(r.ble)
    BY <1>3, <1>10 DEF OnWrite, Silently, Loops
  <1>12. SameTalk(r.ble, d) /\ (r.error => d.link.terminal)
    BY <1>11, FinishedTalks
  <1> HIDE DEF d
  <1>13. Silently(b, d)
    BY <1>10, <1>12 DEF OnWrite, Silently, SameTalk, Listed
  <1>14. ~d.link.terminal => TalkFits(d.procedure, d.fallback, AskedAs(b, n, pdu), b.prepared)
    BY <1>10, <1>12 DEF OnWrite, SameTalk
  <1>15. QED
    BY <1>1, <1>13, <1>14

-----------------------------------------------------------------------------
(* What a conversation keeps between callbacks *)

\* A link that goes on knows its requests, and so does what is there before a connection.
TalkOf(b) ==
    /\ Listed(b)
    /\ ~b.link.terminal \/ ~b.connected => TalkFits(b.procedure, b.fallback, b.asked, b.prepared)

TalkInv == TalkOf(ble)

\* Nothing is said in a step.
Quiet(d) == TalkOf(d) /\ d.seen = Unseen

LEMMA QuietStep ==
    ASSUME NEW d, NEW changed, Becomes(d, changed), Quiet(d)
    PROVE  TalkInv' /\ Matching
  <1>1. ble' = d /\ instance' = instance
    BY DEF Becomes
  <1>2. TalkInv'
    BY <1>1 DEF Quiet, TalkInv, TalkOf, Listed, TalkFits, Names, Elements
  <1>3. Unseen.answered = 0 /\ Unseen.applied = "none"
    BY DEF Unseen
  <1>4. Matching
    BY <1>1, <1>3 DEF Quiet, Matching
  <1>5. QED
    BY <1>2, <1>4

LEMMA SameIsQuiet ==
    ASSUME NEW b, NEW d, Quiet(b), SameTalk(b, d)
    PROVE  Quiet(d)
  BY DEF Quiet, TalkOf, SameTalk, Listed

LEMMA NowIsQuiet ==
    ASSUME LinkInv, TalkInv
    PROVE  /\ Quiet(Now) /\ Conversing(Now) /\ Now.connected = ble.connected
           /\ Shaped(Now) /\ Len(Now.table) \in Nat
  <1>1. IsAtRest(ble, ble.store.key, sealed) /\ Shaped(ble) /\ ble.table = instance.table
        /\ Len(instance.table) \in Nat
    BY TableIsSequence DEF LinkInv, IsAtRest, IsSound, SubscriptionsFit
  <1>2. /\ Shaped(Now) /\ Now.table = ble.table /\ Now.connected = ble.connected
        /\ Now.procedure = ble.procedure /\ Now.fallback = ble.fallback /\ Now.link = ble.link
        /\ Now.asked = ble.asked /\ Now.prepared = ble.prepared /\ Now.seen = Unseen
    BY <1>1 DEF Now, Shaped
  <1>3. Quiet(Now)
    BY <1>2 DEF TalkInv, Quiet, TalkOf, Listed
  <1>4. /\ DOMAIN Unseen = {"char", "answered", "status", "applied"}
        /\ Unseen.answered = 0 /\ Unseen.status = "none" /\ Unseen.applied = "none"
    BY DEF Unseen
  <1>5. Blank(Now)
    BY <1>1, <1>2, <1>4 DEF Blank, Loops
  <1>6. ~Now.link.terminal => IsProcedure(Now.procedure) /\ RequestFits(Now.procedure)
    BY <1>1, <1>2 DEF IsAtRest
  <1>7. Conversing(Now)
    BY <1>3, <1>5, <1>6 DEF Conversing, Quiet, TalkOf
  <1>8. QED
    BY <1>1, <1>2, <1>3, <1>7

\* Nobody has asked anything, or waits.
Unasked(b) ==
    /\ Listed(b) /\ b.seen = Unseen
    /\ \A n \in Names : b.fallback[n] = NoFallback
    /\ b.procedure = NoProcedure

LEMMA UnaskedIsQuiet ==
    ASSUME NEW b, Unasked(b)
    PROVE  Quiet(b)
  <1>1. ~NoFallback.on
    BY DEF NoFallback
  <1>2. /\ NoProcedure.multi = "None" /\ NoProcedure.transaction = CreateTransaction(0)
    BY DEF NoProcedure
  <1>3. CreateTransaction(0).state = "WaitingForInitialWrite"
    BY DEF CreateTransaction
  <1>4. \A asked, prepared : ProcedureTalks(NoProcedure, asked, prepared)
    BY <1>2, <1>3 DEF ProcedureTalks, ReadsAsked, AnswersAsked, HoldsPrepared
  <1>5. TalkFits(b.procedure, b.fallback, b.asked, b.prepared)
    BY <1>1, <1>4 DEF Unasked, TalkFits
  <1>6. QED
    BY <1>5 DEF Unasked, Quiet, TalkOf

LEMMA NoFallbackIsListed == DOMAIN NoFallback = {"on", "tid", "status", "remaining"}
  BY DEF NoFallback

LEMMA ConnectTalks ==
    ASSUME LinkInv, TalkInv, Connect
    PROVE  TalkInv' /\ Matching
  <1> DEFINE f == [n \in DOMAIN Now.fallback |-> NoFallback]
             r == ResetEventState(AbortAllFallbackProcedures(Now))
             a == [r EXCEPT !.connected = TRUE, !.link = CreateSession, !.free = instance.queue, !.sessions = @ + 1]
             e == [a EXCEPT !.adv = [@ EXCEPT !.connected = TRUE, !.fastTimer = FALSE, !.timer = FALSE,
                                              !.event = NoChar, !.value = 0],
                            !.store.didIncrement = FALSE,
                            !.failed = @ \/ a.adv.connected]
             d == UpdateAdvertisingData(e)
             cf == FALSE
  <1>1. ~ble.connected /\ Becomes(d, cf)
    BY DEF Connect, Connected, DidConnect
  <1>2. Quiet(Now) /\ Shaped(Now) /\ ~Now.connected /\ Conversing(Now)
    BY <1>1, NowIsQuiet
  <1>3. DOMAIN f = Names /\ \A n \in Names : f[n] = NoFallback
    BY <1>2 DEF Quiet, TalkOf, Listed
  <1>4. /\ Shaped(r) /\ r.procedure = Now.procedure /\ r.asked = Now.asked
        /\ r.prepared = Now.prepared /\ r.seen = Now.seen /\ r.fallback = f
    BY <1>2 DEF AbortAllFallbackProcedures, ResetEventState, Shaped
  <1> HIDE DEF r, f
  <1>5. DOMAIN CreateSession = {"security", "admin", "terminal", "safe", "linkTimer", "pairingTimer", "verifying"}
    BY DEF CreateSession, NoLink
  <1>6. /\ Shaped(a) /\ a.procedure = r.procedure /\ a.asked = r.asked
        /\ a.prepared = r.prepared /\ a.seen = r.seen /\ a.fallback = r.fallback
    BY <1>4, <1>5 DEF Shaped
  <1> HIDE DEF a
  <1>7. /\ Shaped(e) /\ e.procedure = a.procedure /\ e.asked = a.asked
        /\ e.prepared = a.prepared /\ e.seen = a.seen /\ e.fallback = a.fallback
    BY <1>6 DEF Shaped
  <1> HIDE DEF e
  <1>8. SameTalk(e, d)
    BY <1>7, UpdateTalks
  <1> HIDE DEF d, cf
  <1>9. Listed(e) /\ e.seen = Unseen
    BY <1>2, <1>3, <1>4, <1>6, <1>7, NoFallbackIsListed DEF Listed, Quiet, TalkOf
  <1>10. TalkFits(e.procedure, e.fallback, e.asked, e.prepared)
    <2>1. ~NoFallback.on
      BY DEF NoFallback
    <2>2. TalkFits(Now.procedure, Now.fallback, Now.asked, Now.prepared)
      BY <1>2 DEF Quiet, TalkOf
    <2>3. QED
      BY <1>3, <1>4, <1>6, <1>7, <2>1, <2>2 DEF TalkFits
  <1>11. Quiet(e)
    BY <1>9, <1>10 DEF Quiet, TalkOf
  <1>12. QED
    BY <1>1, <1>8, <1>11, SameIsQuiet, QuietStep

\* Stop and Start of the server, in both states of the link.
LEMMA StoppedTalks ==
    ASSUME NEW b, Shaped(b)
    PROVE  SameTalk(b, Stopped(b)) /\ SameTalk(b, Started(b))
  <1> DEFINE a == [b EXCEPT !.server = "Stopping"]
             d == UpdateAdvertisingData(a)
             i == [d EXCEPT !.server = "Idle"]
             k == CancelConnection(d)
             r == [b EXCEPT !.server = "Running"]
             s == UpdateAdvertisingData(r)
  <1>1. Stopped(b) \in {b, d, i, k} /\ Started(b) = s
    BY DEF Stopped, Started
  <1>2. SameTalk(b, b) /\ SameTalk(b, a) /\ SameTalk(b, r)
    BY DEF Shaped, SameTalk
  <1> HIDE DEF a, r
  <1>3. SameTalk(a, d) /\ SameTalk(r, s)
    BY <1>2, UpdateTalks DEF SameTalk
  <1> HIDE DEF d, s
  <1>4. SameTalk(b, d) /\ SameTalk(b, s)
    BY <1>2, <1>3, SameTalkTwice
  <1>5. SameTalk(d, i)
    BY <1>4 DEF Shaped, SameTalk
  <1>6. SameTalk(d, k)
    BY <1>4, LinkTalks DEF SameTalk
  <1> HIDE DEF i, k
  <1>7. SameTalk(b, i) /\ SameTalk(b, k)
    BY <1>4, <1>5, <1>6, SameTalkTwice
  <1>8. QED
    BY <1>1, <1>2, <1>4, <1>7

LEMMA DisconnectTalks ==
    ASSUME LinkInv, TalkInv, Disconnect
    PROVE  TalkInv' /\ Matching
  <1> DEFINE f == [n \in DOMAIN Now.fallback |-> NoFallback]
             r == ResetEventState(HandleSessionInvalidate(AbortAllFallbackProcedures(Now)))
             na == [c \in Names |-> NotAsked]
             np == [c \in Names |-> "none"]
             a == [r EXCEPT !.connected = FALSE, !.cancelled = FALSE, !.link = NoLink, !.free = 0,
                            !.procedure = NoProcedure, !.asked = na, !.prepared = np]
             e == [a EXCEPT !.adv.connected = FALSE, !.adv.fastTimer = TRUE, !.store.didIncrement = FALSE,
                            !.failed = \/ @
                                       \/ ~a.adv.connected \/ ~a.adv.fastStarted
                                       \/ a.adv.fastTimer \/ a.adv.timer \/ a.adv.event # NoChar]
             g == UpdateAdvertisingData(e)
             d == Disconnected(Now)
             cf == FALSE
  <1>1. Becomes(d, cf)
    BY DEF Disconnect
  <1>2. d \in {g, Stopped(g)}
    BY DEF Disconnected, DidDisconnect
  <1> HIDE DEF d, cf
  <1>3. Quiet(Now) /\ Shaped(Now) /\ DOMAIN Now.fallback = Names /\ Now.seen = Unseen
    BY NowIsQuiet DEF Quiet, TalkOf, Listed
  <1>4. Shaped(r) /\ r.seen = Now.seen /\ r.fallback = f
    BY <1>3 DEF AbortAllFallbackProcedures, HandleSessionInvalidate, HandleUnsubscribe, ResetEventState, Shaped
  <1>5. DOMAIN f = Names /\ \A n \in Names : f[n] = NoFallback
    BY <1>3
  <1>6. DOMAIN na = Names /\ DOMAIN np = Names
    OBVIOUS
  <1>7. DOMAIN NoLink = {"security", "admin", "terminal", "safe", "linkTimer", "pairingTimer", "verifying"}
    BY DEF NoLink
  <1> HIDE DEF r, f, na, np
  <1>8. /\ Shaped(a) /\ a.procedure = NoProcedure /\ a.asked = na /\ a.prepared = np
        /\ a.seen = r.seen /\ a.fallback = r.fallback
    BY <1>4, <1>7 DEF Shaped
  <1> HIDE DEF a
  <1>9. /\ Shaped(e) /\ e.procedure = a.procedure /\ e.asked = a.asked
        /\ e.prepared = a.prepared /\ e.seen = a.seen /\ e.fallback = a.fallback
    BY <1>8 DEF Shaped
  <1> HIDE DEF e
  <1>10. Unasked(e)
    BY <1>3, <1>4, <1>5, <1>6, <1>8, <1>9, NoFallbackIsListed DEF Unasked, Listed
  <1>11. Quiet(e)
    BY <1>10, UnaskedIsQuiet
  <1>12. SameTalk(e, g)
    BY <1>9, UpdateTalks
  <1> HIDE DEF g
  <1>13. Quiet(g) /\ Shaped(g)
    BY <1>11, <1>12, SameIsQuiet DEF SameTalk
  <1>14. SameTalk(g, Stopped(g))
    BY <1>13, StoppedTalks
  <1>15. Quiet(d)
    BY <1>2, <1>13, <1>14, SameIsQuiet
  <1>16. QED
    BY <1>1, <1>15, QuietStep

\* A controller subscribes, gets indications, and the application raises events.
LEMMA EventsTalk ==
    ASSUME LinkInv, TalkInv, Subscribe \/ ReadyToUpdateSubscribers \/ RaiseEvent
    PROVE  TalkInv' /\ Matching
  <1>1. Quiet(Now) /\ Shaped(Now) /\ Len(Now.table) \in Nat
    BY NowIsQuiet
  <1>2. CASE Subscribe
    <2>1. PICK c \in Elements, enable \in BOOLEAN : Becomes(SetNotificationsEnabled(Now, c, enable), FALSE)
      BY <1>2 DEF Subscribe
    <2> DEFINE d == SetNotificationsEnabled(Now, c, enable)
               cf == FALSE
    <2>2. Becomes(d, cf)
      BY <2>1
    <2>3. SameTalk(Now, d)
      BY <1>1, SetNotificationsTalks
    <2> HIDE DEF d, cf
    <2>4. QED
      BY <1>1, <2>2, <2>3, SameIsQuiet, QuietStep
  <1>3. CASE ReadyToUpdateSubscribers
    <2> DEFINE d == HandleReadyToUpdateSubscribers(Now)
               cf == FALSE
    <2>1. Becomes(d, cf)
      BY <1>3 DEF ReadyToUpdateSubscribers
    <2>2. SameTalk(Now, d)
      BY <1>1, ReadyTalks
    <2> HIDE DEF d, cf
    <2>3. QED
      BY <1>1, <2>1, <2>2, SameIsQuiet, QuietStep
  <1>4. CASE RaiseEvent
    <2>1. PICK c \in {e \in Elements : e.notify \/ e.broadcast \/ e.disconnected},
               readable \in BOOLEAN, value \in 0 .. 1 :
              Becomes(DidRaiseEvent(Now, c, NoChar, readable, value), c.disconnected /\ readable)
      BY <1>4 DEF RaiseEvent
    <2> DEFINE d == DidRaiseEvent(Now, c, NoChar, readable, value)
               cf == c.disconnected /\ readable
    <2>2. Becomes(d, cf)
      BY <2>1
    <2>3. SameTalk(Now, d)
      BY <1>1, DidRaiseEventTalks
    <2> HIDE DEF d, cf
    <2>4. QED
      BY <1>1, <2>2, <2>3, SameIsQuiet, QuietStep
  <1>5. QED
    BY <1>2, <1>3, <1>4

\* The timers of the session.
LEMMA LinkTimersTalk ==
    ASSUME LinkInv, TalkInv, LinkTimer \/ PairingTimer \/ SafeTimer
    PROVE  TalkInv' /\ Matching
  <1> DEFINE t == TRUE
             a == [Now EXCEPT !.link.linkTimer = FALSE]
             b == [Now EXCEPT !.link.pairingTimer = FALSE]
             c == SessionInvalidate(a, t)
             d == SessionInvalidate(b, t)
             e == SafeToDisconnectTimerExpired(Now)
             cf == FALSE
  <1>1. Quiet(Now) /\ Shaped(Now) /\ t \in BOOLEAN
    BY NowIsQuiet
  <1>2. Becomes(c, cf) \/ Becomes(d, cf) \/ Becomes(e, cf)
    BY DEF LinkTimer, PairingTimer, SafeTimer
  <1> HIDE DEF t, cf
  <1>3. SameTalk(Now, a) /\ SameTalk(Now, b)
    BY <1>1 DEF Shaped, SameTalk
  <1> HIDE DEF a, b
  <1>4. SameTalk(a, c) /\ SameTalk(b, d)
    BY <1>1, <1>3, SessionInvalidateTalks DEF SameTalk
  <1>5. SameTalk(Now, e)
    BY <1>1, LinkTalks
  <1> HIDE DEF c, d, e
  <1>6. SameTalk(Now, c) /\ SameTalk(Now, d)
    BY <1>3, <1>4, SameTalkTwice
  <1>7. Quiet(c) /\ Quiet(d) /\ Quiet(e)
    BY <1>1, <1>5, <1>6, SameIsQuiet
  <1>8. QED
    BY <1>2, <1>7, QuietStep

\* The timers of procedures, which end the link.
LEMMA ProcedureTimersTalk ==
    ASSUME LinkInv, TalkInv, ProcedureTimer \/ FallbackTimer
    PROVE  TalkInv' /\ Matching
  <1> DEFINE t == TRUE
             cf == FALSE
  <1>1. /\ Quiet(Now) /\ Shaped(Now) /\ Listed(Now) /\ t \in BOOLEAN
        /\ ~Now.link.terminal \/ ~Now.connected =>
               TalkFits(Now.procedure, Now.fallback, Now.asked, Now.prepared)
    BY NowIsQuiet DEF Quiet, TalkOf
  <1>2. CASE ProcedureTimer
    <2> DEFINE r == ResetProcedure(Now)
               p == AttachTo(Now.procedure.attached)
               d == SessionInvalidate(r, t)
    <2>1. Becomes(d, cf)
      BY <1>2 DEF ProcedureTimer, ProcedureTimerExpired
    <2>2. /\ Shaped(r) /\ r.procedure = p /\ r.fallback = Now.fallback /\ r.asked = Now.asked
          /\ r.prepared = Now.prepared /\ r.seen = Now.seen /\ r.link = Now.link
          /\ r.connected = Now.connected
      BY <1>1 DEF ResetProcedure, Shaped
    <2>3. p.attached = Now.procedure.attached /\ \A x, y : ProcedureTalks(p, x, y)
      BY NewProcedureTalks
    <2> HIDE DEF r, p, cf
    <2>4. ~r.link.terminal \/ ~r.connected => TalkFits(r.procedure, r.fallback, r.asked, r.prepared)
      BY <1>1, <2>2, <2>3 DEF TalkFits
    <2>5. Quiet(r)
      BY <1>1, <2>2, <2>4 DEF Quiet, TalkOf, Listed
    <2> HIDE DEF t
    <2>6. SameTalk(r, d)
      BY <1>1, <2>2, SessionInvalidateTalks
    <2> HIDE DEF d
    <2>7. QED
      BY <2>1, <2>5, <2>6, SameIsQuiet, QuietStep
  <1>3. CASE FallbackTimer
    <2>1. PICK c \in Elements : Becomes(SessionInvalidate([Now EXCEPT !.fallback[c.name] = NoFallback], TRUE), FALSE)
      BY <1>3 DEF FallbackTimer
    <2> DEFINE n == c.name
               r == [Now EXCEPT !.fallback[n] = NoFallback]
               d == SessionInvalidate(r, t)
    <2>2. Becomes(d, cf)
      BY <2>1
    <2> HIDE DEF n
    <2>3. /\ Shaped(r) /\ r.procedure = Now.procedure /\ r.asked = Now.asked
          /\ r.prepared = Now.prepared /\ r.seen = Now.seen /\ r.link = Now.link
          /\ r.connected = Now.connected
      BY <1>1 DEF Shaped
    <2>4. DOMAIN r.fallback = Names /\ \A m \in Names : r.fallback[m] \in {Now.fallback[m], NoFallback}
      BY <1>1 DEF Shaped, Listed
    <2> HIDE DEF r, cf
    <2>5. ~NoFallback.on /\ DOMAIN NoFallback = {"on", "tid", "status", "remaining"}
      BY DEF NoFallback
    <2>6. ~r.link.terminal \/ ~r.connected => TalkFits(r.procedure, r.fallback, r.asked, r.prepared)
      BY <1>1, <2>3, <2>4, <2>5 DEF TalkFits
    <2>7. Listed(r)
      BY <1>1, <2>3, <2>4, <2>5 DEF Listed
    <2>8. Quiet(r)
      BY <1>1, <2>3, <2>6, <2>7 DEF Quiet, TalkOf
    <2> HIDE DEF t
    <2>9. SameTalk(r, d)
      BY <1>1, <2>3, SessionInvalidateTalks
    <2> HIDE DEF d
    <2>10. QED
      BY <2>2, <2>8, <2>9, SameIsQuiet, QuietStep
  <1>4. QED
    BY <1>2, <1>3

LEMMA AdvertisingTimerTalks ==
    ASSUME NEW b, Shaped(b)
    PROVE  SameTalk(b, AdvertisingTimerExpired(b))
  <1> DEFINE a == [b EXCEPT !.failed = @ \/ b.adv.connected, !.adv.event = NoChar, !.adv.value = 0,
                            !.adv.timer = TRUE]
             s == Asserted(b, ~b.adv.connected)
             m == IF b.adv.event # NoChar /\ ~b.adv.timer THEN a ELSE s
             d == UpdateAdvertisingData(m)
  <1>1. d = AdvertisingTimerExpired(b)
    BY DEF AdvertisingTimerExpired
  <1>2. SameTalk(b, a)
    BY DEF Shaped, SameTalk
  <1>3. SameTalk(b, s)
    BY AssertedTalks
  <1> HIDE DEF a, s
  <1>4. SameTalk(b, m)
    BY <1>2, <1>3
  <1> HIDE DEF m
  <1>5. SameTalk(m, d)
    BY <1>4, UpdateTalks DEF SameTalk
  <1> HIDE DEF d
  <1>6. QED
    BY <1>1, <1>4, <1>5, SameTalkTwice

\* Advertising, the server, and the other controllers.
LEMMA SurroundingsTalk ==
    ASSUME LinkInv, TalkInv, FastTimer \/ EventTimer \/ Stop \/ Start \/ RemovePairing
    PROVE  TalkInv' /\ Matching
  <1> DEFINE cf == FALSE
             a == [Now EXCEPT !.adv.fastTimer = FALSE]
             b == [Now EXCEPT !.adv.timer = FALSE]
             c == AdvertisingTimerExpired(a)
             d == AdvertisingTimerExpired(b)
             e == Stopped(Now)
             f == Started(Now)
             g == [Now EXCEPT !.link.security = "Gone"]
             k == ExpireKey(Now)
             h == [k EXCEPT !.link.security = "Gone"]
  <1>1. Quiet(Now) /\ Shaped(Now)
    BY NowIsQuiet
  <1>2. \/ Becomes(c, cf) \/ Becomes(d, cf) \/ Becomes(e, cf) \/ Becomes(f, cf)
        \/ Becomes(g, cf) \/ Becomes(h, cf)
    BY DEF FastTimer, EventTimer, Stop, Start, RemovePairing
  <1> HIDE DEF cf
  <1>3. SameTalk(Now, a) /\ SameTalk(Now, b) /\ SameTalk(Now, g) /\ SameTalk(Now, k)
    BY <1>1 DEF Shaped, SameTalk, ExpireKey
  <1> HIDE DEF a, b, g, k
  <1>4. SameTalk(a, c) /\ SameTalk(b, d)
    BY <1>3, AdvertisingTimerTalks DEF SameTalk
  <1>5. SameTalk(k, h)
    BY <1>3 DEF Shaped, SameTalk
  <1>6. SameTalk(Now, e) /\ SameTalk(Now, f)
    BY <1>1, StoppedTalks
  <1> HIDE DEF c, d, e, f, h
  <1>7. SameTalk(Now, c) /\ SameTalk(Now, d) /\ SameTalk(Now, h)
    BY <1>3, <1>4, <1>5, SameTalkTwice
  <1>8. Quiet(c) /\ Quiet(d) /\ Quiet(e) /\ Quiet(f) /\ Quiet(g) /\ Quiet(h)
    BY <1>1, <1>3, <1>6, <1>7, SameIsQuiet
  <1>9. QED
    BY <1>2, <1>8, QuietStep

\* The server starts after the accessory was off.
LEMMA OffTalks ==
    ASSUME NEW store, DOMAIN store = {"gsn", "didIncrement", "key", "expiration", "enabled", "token"}
    PROVE  Quiet(Started(Off(store))) /\ Shaped(Started(Off(store)))
  <1> DEFINE o == Off(store)
  <1>1. Shaped(o)
    BY DEF Off, Shaped, NoLink, NoAdv
  <1>2. Unasked(o)
    BY NoFallbackIsListed DEF Off, Unasked, Listed
  <1> HIDE DEF o
  <1>3. SameTalk(o, Started(o))
    BY <1>1, StoppedTalks
  <1>4. QED
    BY <1>2, <1>3, UnaskedIsQuiet, SameIsQuiet DEF o, SameTalk

LEMMA LosePowerTalks ==
    ASSUME LinkInv, TalkInv, LosePower
    PROVE  TalkInv' /\ Matching
  <1> DEFINE expired == ExpireKey(ble).store
  <1>1. PICK store \in {ble.store, expired} : ble' = [Started(Off(store)) EXCEPT !.sessions = ble.sessions]
    BY DEF LosePower
  <1>2. Shaped(ble)
    BY DEF LinkInv, IsAtRest, IsSound
  <1>3. DOMAIN store = {"gsn", "didIncrement", "key", "expiration", "enabled", "token"}
    <2>1. DOMAIN expired = DOMAIN ble.store
      BY <1>2 DEF ExpireKey, Shaped
    <2> HIDE DEF expired
    <2>2. QED
      BY <1>2, <2>1 DEF Shaped
  <1> DEFINE s == Started(Off(store))
             d == [s EXCEPT !.sessions = ble.sessions]
  <1>4. Quiet(s) /\ Shaped(s)
    BY <1>3, OffTalks
  <1>5. ble' = d /\ instance' = instance
    BY <1>1 DEF LosePower
  <1> HIDE DEF s
  <1>6. SameTalk(s, d)
    BY <1>4 DEF Shaped, SameTalk
  <1> HIDE DEF d
  <1>7. Quiet(d)
    BY <1>4, <1>6, SameIsQuiet
  <1>8. TalkInv'
    BY <1>5, <1>7 DEF Quiet, TalkInv, TalkOf, Listed, TalkFits, Names, Elements
  <1>9. Unseen.answered = 0 /\ Unseen.applied = "none"
    BY DEF Unseen
  <1>10. QED
    BY <1>5, <1>7, <1>8, <1>9 DEF Quiet, Matching

LEMMA InitTalks == Init => TalkInv
  <1> SUFFICES ASSUME Init PROVE TalkInv
    OBVIOUS
  <1>1. PICK gsn \in instance.gsns, token \in instance.tokens :
            ble = Started(Off([gsn |-> gsn, didIncrement |-> FALSE, key |-> NoKey, expiration |-> 0,
                               enabled |-> {}, token |-> token]))
    BY DEF Init
  <1> DEFINE store == [gsn |-> gsn, didIncrement |-> FALSE, key |-> NoKey, expiration |-> 0,
                       enabled |-> {}, token |-> token]
  <1>2. DOMAIN store = {"gsn", "didIncrement", "key", "expiration", "enabled", "token"}
        /\ ble = Started(Off(store))
    BY <1>1
  <1> HIDE DEF store
  <1>3. QED
    BY <1>2, OffTalks DEF Quiet, TalkInv

\* What a controller may write is a PDU.
LEMMA WritesArePDUs ==
    ASSUME instance \in Instances, NEW c \in Elements, NEW pdu \in instance.pdus[c.name]
    PROVE  IsPDU(pdu) /\ c.name \in Names
  <1>1. PICK i \in 1 .. Len(instance.table) : c = instance.table[i]
    BY DEF Elements
  <1>2. IsPDU(pdu)
    BY <1>1, InstancesAssumption DEF IsPDU
  <1>3. QED
    BY <1>2 DEF Names

LEMMA WriteRequestTalks ==
    ASSUME LinkInv, TalkInv, WriteRequest
    PROVE  TalkInv' /\ Matching
  <1> DEFINE K == ble.store.key
  <1>1. PICK c \in Elements : \E pdu \in instance.pdus[c.name], env \in WriteEnvs :
            Becomes(Noted(ValueWrite(Now, c, pdu, env), c, pdu), FALSE)
    BY DEF WriteRequest
  <1>2. PICK pdu \in instance.pdus[c.name], env \in WriteEnvs :
            Becomes(Noted(ValueWrite(Now, c, pdu, env), c, pdu), FALSE)
    BY <1>1
  <1> DEFINE n == c.name
             a == ValueWrite(Now, c, pdu, env)
             x == [tid |-> pdu.tid, opcode |-> pdu.opcode, body |-> pdu.body]
             e == [a EXCEPT !.asked[n] = x]
             d == Noted(a, c, pdu)
             cf == FALSE
  <1>3. Becomes(d, cf)
    BY <1>2
  <1>4. d = IF a.link.terminal \/ pdu.kind # "first" THEN a ELSE e
    BY DEF Noted
  <1>5. ble.connected /\ instance \in Instances /\ IsPDU(pdu) /\ n \in Names
    BY WritesArePDUs DEF WriteRequest, LinkInv
  <1>6. IsServing(Now, K, sealed) /\ Conversing(Now) /\ Listed(Now) /\ Now.seen = Unseen
    BY <1>5, NowFits, NowIsQuiet DEF Quiet, TalkOf
  <1>7. a.connected
    <2>1. pdu.kind = "first" => pdu.opcode \in Opcodes
      BY <1>5 DEF IsPDU
    <2>2. IsServing(a, K, sealed)
      BY <1>5, <1>6, <2>1, ValueWriteFits
    <2>3. QED
      BY <2>2 DEF IsServing
  <1>8. /\ Silently(Now, a)
        /\ ~a.link.terminal => TalkFits(a.procedure, a.fallback, AskedAs(Now, n, pdu), Now.prepared)
    BY <1>5, <1>6, ValueWriteTalks
  <1> HIDE DEF a, d, cf, n, x
  <1>9. \A m \in Names : AskedAs(Now, n, pdu)[m] = IF m = n /\ pdu.kind = "first" THEN x ELSE Now.asked[m]
    BY <1>5 DEF AskedAs, AskedBy, x
  <1>10. /\ Shaped(a) /\ a.asked = Now.asked /\ a.prepared = Now.prepared /\ a.seen = Unseen
         /\ Listed(a) /\ DOMAIN a.asked = Names
    BY <1>6, <1>8 DEF Silently, Listed
  <1>11. /\ e.procedure = a.procedure /\ e.fallback = a.fallback /\ e.prepared = a.prepared
         /\ e.seen = a.seen /\ e.link = a.link /\ e.connected = a.connected
         /\ DOMAIN e.asked = Names
         /\ \A m \in Names : e.asked[m] = IF m = n THEN x ELSE a.asked[m]
    BY <1>5, <1>10 DEF Shaped
  <1> HIDE DEF e
  <1>12. Listed(e)
    BY <1>10, <1>11 DEF Listed
  <1>13. CASE a.link.terminal
    <2>1. Quiet(a)
      BY <1>7, <1>10, <1>13 DEF Quiet, TalkOf
    <2>2. QED
      BY <1>3, <1>4, <1>13, <2>1, QuietStep
  <1>14. CASE ~a.link.terminal /\ pdu.kind # "first"
    <2>1. TalkFits(a.procedure, a.fallback, a.asked, a.prepared)
      BY <1>8, <1>9, <1>10, <1>14 DEF TalkFits
    <2>2. Quiet(a)
      BY <1>10, <2>1 DEF Quiet, TalkOf
    <2>3. QED
      BY <1>3, <1>4, <1>14, <2>2, QuietStep
  <1>15. CASE ~a.link.terminal /\ pdu.kind = "first"
    <2>1. TalkFits(e.procedure, e.fallback, e.asked, e.prepared)
      BY <1>8, <1>9, <1>10, <1>11, <1>15 DEF TalkFits
    <2>2. Quiet(e)
      BY <1>10, <1>11, <1>12, <2>1 DEF Quiet, TalkOf
    <2>3. QED
      BY <1>3, <1>4, <1>15, <2>2, QuietStep
  <1>16. QED
    BY <1>13, <1>14, <1>15

LEMMA ReadRequestTalks ==
    ASSUME LinkInv, TalkInv, ReadRequest
    PROVE  TalkInv' /\ Matching
  <1> DEFINE K == ble.store.key
  <1>1. PICK c \in Elements : \E room \in instance.rooms, env \in ReadEnvs(ble, c) :
            Becomes(Prepared(ValueRead([Now EXCEPT !.seen.char = c.name], c, room, env), c), FALSE)
    BY DEF ReadRequest
  <1>2. PICK room \in instance.rooms, env \in ReadEnvs(ble, c) :
            Becomes(Prepared(ValueRead([Now EXCEPT !.seen.char = c.name], c, room, env), c), FALSE)
    BY <1>1
  <1> DEFINE n == c.name
             b == [Now EXCEPT !.seen.char = n]
             a == ValueRead(b, c, room, env)
             x == a.asked[n].body
             e == [a EXCEPT !.prepared[n] = x]
             d == Prepared(a, c)
  <1>3. ble' = d /\ instance' = instance
    BY <1>2 DEF Becomes
  <1>4. d = IF a.seen.status = "Success" /\ a.asked[n].opcode = "TimedWrite" THEN e ELSE a
    BY DEF Prepared
  <1>5. ble.connected /\ instance \in Instances /\ n \in Names
        /\ env.outcome \in {"next", "accepted", "error", "refused"}
    BY ReadsMeet DEF ReadRequest, LinkInv, Names
  <1>6. IsServing(Now, K, sealed) /\ Conversing(Now) /\ Shaped(Now) /\ Listed(Now)
    BY <1>5, NowFits, NowIsQuiet DEF Quiet, TalkOf
  <1>7. /\ Shaped(b) /\ b.table = Now.table /\ b.fallback = Now.fallback /\ b.asked = Now.asked
        /\ b.prepared = Now.prepared /\ b.procedure = Now.procedure /\ b.link = Now.link
    BY <1>6 DEF Shaped
  <1>8. /\ DOMAIN b.seen = DOMAIN Now.seen /\ b.seen.char = n /\ b.seen.answered = Now.seen.answered
        /\ b.seen.status = Now.seen.status /\ b.seen.applied = Now.seen.applied
    BY <1>6 DEF Shaped, Conversing, Blank
  <1>9. Alike(Now, b)
    BY <1>6 DEF Alike, SameQueue, Shaped
  <1> HIDE DEF n
  <1>10. Now.asked = ble.asked /\ Now.prepared = ble.prepared
    BY DEF Now, LinkInv, IsAtRest, IsSound, Shaped
  <1> HIDE DEF b
  <1>11. Conversing(b)
    BY <1>6, <1>7, <1>8 DEF Conversing, Blank, Loops, Listed
  <1>12. a.connected
    <2>1. IsServing(b, K, sealed)
      BY <1>6, <1>9, AlikeFits
    <2>2. IsServing(a, K, sealed)
      BY <1>5, <2>1, ValueReadFits
    <2>3. QED
      BY <2>2 DEF IsServing
  <1>13. /\ Heard(b, a, n)
         /\ ~a.link.terminal => TalkFits(a.procedure, a.fallback, b.asked, PreparedAs(b, a, n))
    BY <1>5, <1>11, ValueReadTalks DEF n
  <1> HIDE DEF a, d, x
  <1>14. \A m \in Names : PreparedAs(b, a, n)[m] =
             IF m = n /\ a.seen.status = "Success" /\ a.asked[n].opcode = "TimedWrite" THEN x ELSE a.prepared[m]
    BY <1>13 DEF PreparedAs, PreparedBy, Heard, x
  <1>15. Shaped(a) /\ Listed(a) /\ DOMAIN a.prepared = Names
    BY <1>13 DEF Heard, Listed
  <1>16. /\ e.procedure = a.procedure /\ e.fallback = a.fallback /\ e.asked = a.asked
         /\ e.seen = a.seen /\ e.link = a.link /\ e.connected = a.connected
         /\ DOMAIN e.prepared = Names
         /\ \A m \in Names : e.prepared[m] = IF m = n THEN x ELSE a.prepared[m]
    BY <1>5, <1>15 DEF Shaped
  <1> HIDE DEF e
  <1>17. Listed(e)
    BY <1>15, <1>16 DEF Listed
  <1>18. Listed(d) /\ d.seen = a.seen /\ d.connected /\ d.link = a.link
    BY <1>4, <1>12, <1>15, <1>16, <1>17
  <1>19. ~d.link.terminal => TalkFits(d.procedure, d.fallback, d.asked, d.prepared)
    <2>1. CASE a.seen.status = "Success" /\ a.asked[n].opcode = "TimedWrite"
      BY <1>4, <1>13, <1>14, <1>16, <2>1 DEF TalkFits, Heard
    <2>2. CASE ~(a.seen.status = "Success" /\ a.asked[n].opcode = "TimedWrite")
      BY <1>4, <1>13, <1>14, <2>2 DEF TalkFits, Heard
    <2>3. QED
      BY <2>1, <2>2
  <1>20. TalkOf(d)
    BY <1>18, <1>19 DEF TalkOf
  <1>21. TalkInv'
    BY <1>3, <1>20 DEF TalkInv, TalkOf, Listed, TalkFits, Names, Elements
  <1>22. Matching
    BY <1>3, <1>7, <1>8, <1>10, <1>13, <1>18 DEF Matching, Heard, ValuesOf
  <1>23. QED
    BY <1>21, <1>22

\* Every step keeps what the procedures know, and says what it should.
LEMMA TalkSteps ==
    ASSUME LinkInv, TalkInv, Next
    PROVE  TalkInv' /\ Matching
  BY ConnectTalks, DisconnectTalks, WriteRequestTalks, ReadRequestTalks, EventsTalk, LinkTimersTalk,
     ProcedureTimersTalk, SurroundingsTalk, LosePowerTalks DEF Next

-----------------------------------------------------------------------------
(* Theorems *)

\* No two broadcasts are sealed with one key and one GSN, for every range of the GSN, any
\* number of sessions, and any loss of power: HAPBLEAccessoryServer+Broadcast.c lets the key
\* expire before the GSN comes round, and every broadcast counts.
THEOREM BroadcastsHaveTheirNonce == Spec => []NoncesAreFresh
  <1>1. LinkInv => NoncesAreFresh
    BY DEF LinkInv
  <1>2. QED
    BY <1>1, LinkInvHolds, PTL

\* A controller that comes back sees another GSN if something changed after it left: the GSN
\* counts the first event, and does not come round before the key expires.
THEOREM ControllersNoticeChanges == Spec => []ChangesAreNoticed
  <1>1. LinkInv => ChangesAreNoticed
    BY DEF LinkInv, LeftWith, ChangesAreNoticed
  <1>2. QED
    BY <1>1, LinkInvHolds, PTL

\* The assertions about timers and the broadcast event hold in every order of connections,
\* events, timers, stops and starts: HAPBLEAccessoryServer+Advertising.c.
THEOREM AdvertisingIsConsistent == Spec => []AssertionsHold
  <1>1. LinkInv => AssertionsHold
    BY DEF LinkInv, IsAtRest, IsSound, RadioFits, TimersFit, Radio, AssertionsHold
  <1>2. QED
    BY <1>1, LinkInvHolds, PTL

\* A link that serves no more requests has been asked to end or has a timer that will ask,
\* and an idle secured link has a timer: HAPBLESession.c.
THEOREM LinksDoEnd == Spec => []LinksEnd
  <1>1. LinkInv => LinksEnd
    BY DEF LinkInv, IsAtRest, IsSound, LinkFits, IsTimed, LinksEnd
  <1>2. QED
    BY <1>1, LinkInvHolds, PTL

\* Events wait only for the platform, whatever the length of the GATT table, and the
\* application knows what the controller is subscribed to.
THEOREM SubscribersGetEvents == Spec => []SubscribersAreServed
  <1>1. LinkInv => PendingEventsAreBlocked
    <2> SUFFICES ASSUME LinkInv, ble.link.security = "Secured", NEW c \in Elements,
                        Sendable(ble, c), MayBeTold(ble, c)
                 PROVE  ble.free = 0
      BY DEF PendingEventsAreBlocked
    <2>1. PICK i \in 1 .. Len(instance.table) : c = instance.table[i]
      BY DEF Elements
    <2>2. ble.table = instance.table /\ IsBlocked(Queue(ble))
      BY DEF LinkInv, IsAtRest, IsSound, SubscriptionsFit
    <2>3. QED
      BY <2>1, <2>2 DEF IsBlocked, Queue, Sendable, MayBeTold
  <1>2. LinkInv => ApplicationKnowsSubscribers
    BY DEF LinkInv, IsAtRest, IsSound, SubscriptionsFit, ApplicationKnowsSubscribers
  <1>3. LinkInv => SubscribersAreServed
    BY <1>1, <1>2 DEF SubscribersAreServed
  <1>4. QED
    BY <1>3, LinkInvHolds, PTL

\* Every answer is the one to the last request at its characteristic, and what reaches the
\* application is what that request wrote or prepared there, for every accessory, any PDUs,
\* fragments and interruptions: HAPBLEProcedure.c, HAPBLETransaction.c, and the fallback
\* procedures of HAPBLEPeripheralManager.c.
THEOREM RequestsGetTheirAnswers == Spec => AnswersMatchRequests
  <1>1. Init => TalkInv
    BY InitTalks
  <1>2. LinkInv /\ TalkInv /\ [Next]_vars => TalkInv'
    <2> SUFFICES ASSUME LinkInv, TalkInv, [Next]_vars PROVE TalkInv'
      OBVIOUS
    <2>1. CASE Next
      BY <2>1, TalkSteps
    <2>2. CASE UNCHANGED vars
      BY <2>2 DEF vars, TalkInv, TalkOf, Listed, TalkFits, Names, Elements
    <2>3. QED
      BY <2>1, <2>2
  <1>3. LinkInv /\ TalkInv /\ [Next]_vars => [Matching]_vars
    BY TalkSteps
  <1>4. QED
    BY <1>1, <1>2, <1>3, LinkInvHolds, PTL DEF Spec, AnswersMatchRequests

=============================================================================
