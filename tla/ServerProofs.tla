---- MODULE ServerProofs ----
(***************************************************************************)
(* Theorems about IPServer, for every number of sessions and of             *)
(* characteristics.                                                         *)
(***************************************************************************)
EXTENDS IPServer, FiniteSetTheorems, TLAPS

Engines == [session : [Sessions -> SessionState], numSessions : 0 .. Cardinality(Sessions),
            timers : SUBSET Timers, listener : BOOLEAN,
            engine : {"idle", "running", "stopping"}]

\* The counter counts the flags, which are raised for subscribers only.
Counted(r) ==
    /\ r \in SessionState
    /\ r.flags \subseteq r.subscribed
    /\ r.numFlags = Cardinality(r.flags)

\* The session s waits for a callback that will come.
Served(ip, s) ==
    /\ ip.session[s].interest = InterestIn(ip.session[s].state)
    /\ Quiet(ip.session[s]) /\ ip.session[s].numFlags > 0 => "eventNotification" \in ip.timers
    /\ ip.session[s].state = "processing" /\ ip.engine = "running" => "process" \in ip.timers

Taken(ip) == {s \in Sessions : ip.session[s].state # "free"}

\* The engine and the accessory server agree.
Runs(ip, sv) ==
    /\ ip.engine = "running" <=> sv = "running"
    /\ sv = "idle" => ip.engine = "idle"
    /\ ip.listener => ip.engine # "idle"
    /\ ip.engine = "running" => ip.listener
    /\ ip.engine = "idle" =>
        /\ \A s \in Sessions : ip.session[s].state = "free"
        /\ ip.timers \subseteq {"callback", "eventNotification", "process"}
        /\ sv # "idle" => "callback" \in ip.timers
    /\ "stateTransition" \in ip.timers => ip.engine = "stopping"

\* The engine between two functions of a callback: the sessions in handled may not
\* be served yet.
EngineFits(ip, handled, sv) ==
    /\ ip \in Engines
    /\ \A s \in Sessions : Counted(ip.session[s])
    /\ ip.numSessions = Cardinality(Taken(ip))
    /\ \A s \in Sessions : ip.session[s].state = "closed" => "garbageCollection" \in ip.timers
    /\ \A s \in Sessions \ handled : Served(ip, s)
    /\ Runs(ip, sv)

-----------------------------------------------------------------------------
(* Descriptors *)

LEMMA CharacteristicSets ==
    ASSUME NEW S \in SUBSET Characteristics
    PROVE  IsFiniteSet(S) /\ Cardinality(S) \in 0 .. Cardinality(Characteristics)
  <1>1. IsFiniteSet(S) /\ Cardinality(S) <= Cardinality(Characteristics)
    BY FS_Subset, IPServerAssumption
  <1>2. Cardinality(S) \in Nat /\ Cardinality(Characteristics) \in Nat
    BY <1>1, FS_CardinalityType, IPServerAssumption
  <1>3. QED
    BY <1>1, <1>2

LEMMA SessionSets ==
    ASSUME NEW S \in SUBSET Sessions
    PROVE  IsFiniteSet(S) /\ Cardinality(S) \in 0 .. Cardinality(Sessions)
  <1>1. IsFiniteSet(S) /\ Cardinality(S) <= Cardinality(Sessions)
    BY FS_Subset, IPServerAssumption
  <1>2. Cardinality(S) \in Nat /\ Cardinality(Sessions) \in Nat
    BY <1>1, FS_CardinalityType, IPServerAssumption
  <1>3. QED
    BY <1>1, <1>2

LEMMA FreeFits == Counted(Free) /\ Free.state = "free" /\ Free.interest = "none"
  <1>1. 0 \in 0 .. Cardinality(Characteristics) /\ Cardinality({}) = 0
    BY CharacteristicSets, FS_EmptySet
  <1>2. QED
    BY <1>1 DEF Counted, Free, SessionState

\* What CloseSession leaves of a descriptor.
Closed == [Free EXCEPT !.state = "closed", !.numFlags = 0]

LEMMA ClosedFits ==
    Counted(Closed) /\ Closed.state = "closed" /\ Closed.interest = "none"
  <1> DEFINE x == Free
  <1>1. Counted(x) /\ x.interest = "none" /\ x.numFlags = 0 /\ x.flags = {}
    BY FreeFits DEF Free
  <1>2. Closed = [[x EXCEPT !.state = "closed"] EXCEPT !.numFlags = 0]
    BY DEF Closed
  <1> HIDE DEF x
  <1>3. [x EXCEPT !.state = "closed"] \in SessionState
    BY <1>1 DEF Counted, SessionState
  <1> DEFINE y == [x EXCEPT !.state = "closed"]
  <1>4. y \in SessionState /\ y.state = "closed" /\ y.interest = "none" /\ y.numFlags = 0 /\ y.flags = {}
        /\ y.flags \subseteq y.subscribed /\ Cardinality({}) = 0
    BY <1>1, <1>3, FS_EmptySet DEF Counted, SessionState
  <1>5. Closed = [y EXCEPT !.numFlags = 0]
    BY <1>2
  <1> HIDE DEF y
  <1>6. Closed = y
    BY <1>4, <1>5 DEF SessionState
  <1>7. QED
    BY <1>4, <1>6 DEF Counted

LEMMA CloseSessionIs ==
    ASSUME NEW ip \in Engines, NEW s \in Sessions, Counted(ip.session[s])
    PROVE  /\ CloseSession(ip, s) =
                 [ip EXCEPT !.session = [ip.session EXCEPT ![s] = Closed],
                            !.timers = ip.timers \cup {"garbageCollection"}]
           /\ CloseSession(ip, s).session[s] = Closed
  <1> DEFINE r == ip.session[s]
             ip1 == [ip EXCEPT !.session[s] = [Free EXCEPT !.state = "closed",
                               !.numFlags = @ + r.numFlags - Cardinality(r.flags)]]
  <1>1. r.numFlags = Cardinality(r.flags) /\ Cardinality(r.flags) \in Nat
    BY CharacteristicSets DEF Counted, SessionState
  <1>2. ip1.session = [ip.session EXCEPT ![s] = Closed] /\ ip1.timers = ip.timers
    <2>1. Free.numFlags + r.numFlags - Cardinality(r.flags) = 0
      BY <1>1 DEF Free
    <2>2. [Free EXCEPT !.state = "closed", !.numFlags = @ + r.numFlags - Cardinality(r.flags)] = Closed
      BY <2>1 DEF Closed, Free
    <2>3. QED
      BY <2>2 DEF Engines
  <1>3. QED
    BY <1>2 DEF CloseSession, Armed, Engines

-----------------------------------------------------------------------------
(* Steps of the engine *)

\* What a function of a callback leaves alone in an engine that runs.
Follows(ip, n) ==
    /\ n \in Engines
    /\ n.engine = ip.engine /\ n.numSessions = ip.numSessions /\ n.listener = ip.listener
    /\ "stateTransition" \in n.timers => "stateTransition" \in ip.timers
    /\ \A t \in Sessions : n.session[t].state = "free" <=> ip.session[t].state = "free"

LEMMA FollowsFits ==
    ASSUME NEW ip, NEW n, NEW handled, NEW left, NEW sv,
           EngineFits(ip, handled, sv), Follows(ip, n), ip.engine # "idle",
           \A t \in Sessions : Counted(n.session[t]),
           \A t \in Sessions : n.session[t].state = "closed" => "garbageCollection" \in n.timers,
           \A t \in Sessions \ left : Served(n, t)
    PROVE  EngineFits(n, left, sv)
  <1>1. Taken(n) = Taken(ip)
    BY DEF Taken, Follows
  <1>2. Runs(n, sv)
    BY DEF Runs, Follows, EngineFits
  <1>3. QED
    BY <1>1, <1>2 DEF EngineFits, Follows

\* The engine is not idle while a descriptor is taken.
LEMMA TakenRuns ==
    ASSUME NEW ip, NEW handled, NEW sv, EngineFits(ip, handled, sv),
           NEW s \in Sessions, ip.session[s].state # "free"
    PROVE  ip.engine # "idle"
  BY DEF EngineFits, Runs

\* The function that handles the callback of the stream of s replaces its
\* descriptor.
LEMMA DescriptorFits ==
    ASSUME NEW ip, NEW sv, NEW s \in Sessions, EngineFits(ip, {s}, sv),
           ip.session[s].state # "free",
           NEW r, Counted(r), r.state \notin {"free", "closed"} \/ r.state = ip.session[s].state
    PROVE  /\ EngineFits([ip EXCEPT !.session = [ip.session EXCEPT ![s] = r]], {s}, sv)
           /\ [ip EXCEPT !.session = [ip.session EXCEPT ![s] = r]].session[s] = r
  <1> DEFINE n == [ip EXCEPT !.session = [ip.session EXCEPT ![s] = r]]
  <1>1. ip \in Engines /\ r \in SessionState
    BY DEF EngineFits, Counted
  <1>2. n \in Engines /\ n.session = [ip.session EXCEPT ![s] = r] /\ n.timers = ip.timers
        /\ n.engine = ip.engine /\ n.numSessions = ip.numSessions /\ n.listener = ip.listener
    BY <1>1 DEF Engines
  <1> HIDE DEF n
  <1>3. n.session[s] = r /\ \A t \in Sessions \ {s} : n.session[t] = ip.session[t]
    BY <1>1, <1>2 DEF Engines
  <1>4. Follows(ip, n)
    BY <1>2, <1>3 DEF Follows
  <1>5. \A t \in Sessions : Counted(n.session[t])
    BY <1>3 DEF EngineFits
  <1>6. \A t \in Sessions : n.session[t].state = "closed" => "garbageCollection" \in n.timers
    BY <1>2, <1>3 DEF EngineFits
  <1>7. \A t \in Sessions \ {s} : Served(n, t)
    BY <1>2, <1>3 DEF EngineFits, Served
  <1>8. ip.engine # "idle"
    BY TakenRuns
  <1>9. EngineFits(n, {s}, sv)
    BY <1>4, <1>5, <1>6, <1>7, <1>8, FollowsFits
  <1>10. QED
    BY <1>3, <1>9 DEF n

\* Sessions that are taken are closed.
LEMMA CloseSessionFits ==
    ASSUME NEW ip, NEW handled, NEW sv, NEW s \in Sessions, EngineFits(ip, handled, sv),
           ip.session[s].state # "free"
    PROVE  /\ EngineFits(CloseSession(ip, s), handled \ {s}, sv)
           /\ CloseSession(ip, s).session[s] = Closed
           /\ \A t \in Sessions \ {s} : CloseSession(ip, s).session[t] = ip.session[t]
  <1> DEFINE n == CloseSession(ip, s)
  <1>1. ip \in Engines /\ Counted(ip.session[s])
    BY DEF EngineFits
  <1>2. /\ n = [ip EXCEPT !.session = [ip.session EXCEPT ![s] = Closed],
                          !.timers = ip.timers \cup {"garbageCollection"}]
        /\ n.session[s] = Closed
    BY <1>1, CloseSessionIs
  <1>3. Closed \in SessionState /\ Counted(Closed) /\ Closed.state = "closed" /\ Closed.interest = "none"
    BY ClosedFits DEF Counted
  <1> HIDE DEF n
  <1>4. n \in Engines /\ n.session = [ip.session EXCEPT ![s] = Closed]
        /\ n.timers = ip.timers \cup {"garbageCollection"}
        /\ n.engine = ip.engine /\ n.numSessions = ip.numSessions /\ n.listener = ip.listener
    <2>1. [ip.session EXCEPT ![s] = Closed] \in [Sessions -> SessionState]
      BY <1>1, <1>3 DEF Engines
    <2>2. ip.timers \cup {"garbageCollection"} \in SUBSET Timers
      BY <1>1 DEF Engines, Timers
    <2> DEFINE new == [ip.session EXCEPT ![s] = Closed]
               more == ip.timers \cup {"garbageCollection"}
    <2>3. n = [ip EXCEPT !.session = new, !.timers = more]
      BY <1>2
    <2> HIDE DEF new, more
    <2>4. n \in Engines /\ n.session = new /\ n.timers = more
          /\ n.engine = ip.engine /\ n.numSessions = ip.numSessions /\ n.listener = ip.listener
      <3>1. new \in [Sessions -> SessionState] /\ more \in SUBSET Timers
        BY <2>1, <2>2 DEF new, more
      <3>2. QED
        BY <1>1, <2>3, <3>1 DEF Engines
    <2>5. QED
      BY <2>4 DEF new, more
  <1>5. \A t \in Sessions \ {s} : n.session[t] = ip.session[t]
    BY <1>1, <1>4 DEF Engines
  <1>6. Follows(ip, n)
    <2>1. n.session[s].state # "free"
      BY <1>2, <1>3
    <2>2. "stateTransition" \in n.timers => "stateTransition" \in ip.timers
      BY <1>4
    <2>3. \A t \in Sessions : n.session[t].state = "free" <=> ip.session[t].state = "free"
      BY <1>5, <2>1
    <2>4. QED
      BY <1>4, <2>2, <2>3 DEF Follows
  <1>7. \A t \in Sessions : Counted(n.session[t])
    BY <1>2, <1>3, <1>5 DEF EngineFits
  <1>8. \A t \in Sessions : n.session[t].state = "closed" => "garbageCollection" \in n.timers
    BY <1>4
  <1>9. \A t \in Sessions \ (handled \ {s}) : Served(n, t)
    <2>1. Served(n, s)
      BY <1>2, <1>3 DEF Served, InterestIn, Quiet
    <2>2. ASSUME NEW t \in Sessions \ (handled \cup {s}) PROVE Served(n, t)
      BY <2>2, <1>4, <1>5 DEF EngineFits, Served
    <2>3. QED
      BY <2>1, <2>2
  <1>10. ip.engine # "idle"
    BY TakenRuns
  <1>11. EngineFits(n, handled \ {s}, sv)
    BY <1>6, <1>7, <1>8, <1>9, <1>10, FollowsFits
  <1>12. QED
    BY <1>2, <1>5, <1>11 DEF n

LEMMA CloseSessionsFits ==
    ASSUME NEW ip, NEW handled, NEW sv, NEW closed \in SUBSET Taken(ip),
           EngineFits(ip, handled, sv)
    PROVE  /\ EngineFits(CloseSessions(ip, closed), handled, sv)
           /\ CloseSessions(ip, closed).engine = ip.engine
           /\ \A t \in Sessions : t \notin closed =>
                CloseSessions(ip, closed).session[t] = ip.session[t]
  <1>1. CASE closed = {}
    BY <1>1 DEF CloseSessions
  <1>2. CASE closed # {}
    <2> DEFINE n == CloseSessions(ip, closed)
               new == [t \in Sessions |-> IF t \in closed THEN Closed ELSE ip.session[t]]
               more == ip.timers \cup {"garbageCollection"}
    <2>1. ip \in Engines /\ \A t \in Sessions : Counted(ip.session[t])
      BY DEF EngineFits
    <2>2. Counted(Closed) /\ Closed \in SessionState /\ Closed.state = "closed" /\ Closed.interest = "none"
      BY ClosedFits DEF Counted
    <2>3. n = [ip EXCEPT !.session = new, !.timers = more]
      <3> DEFINE made == [t \in Sessions |-> IF t \in closed THEN CloseSession(ip, t).session[t]
                                             ELSE ip.session[t]]
      <3>1. \A t \in Sessions : CloseSession(ip, t).session[t] = Closed
        BY <2>1, CloseSessionIs
      <3>2. made = new
        BY <3>1
      <3>3. n = Armed([ip EXCEPT !.session = made], "garbageCollection")
        BY <1>2 DEF CloseSessions
      <3> HIDE DEF made, new
      <3>4. QED
        BY <2>1, <3>2, <3>3 DEF Armed, Engines
    <2>4. new \in [Sessions -> SessionState] /\ more \in SUBSET Timers
          /\ (\A t \in Sessions : t \in closed => new[t] = Closed)
          /\ (\A t \in Sessions : t \notin closed => new[t] = ip.session[t])
          /\ "garbageCollection" \in more /\ ip.timers \subseteq more
          /\ ("stateTransition" \in more => "stateTransition" \in ip.timers)
      BY <2>1, <2>2 DEF Engines, Timers
    <2> HIDE DEF n, new, more
    <2>5. n \in Engines /\ n.session = new /\ n.timers = more
          /\ n.engine = ip.engine /\ n.numSessions = ip.numSessions /\ n.listener = ip.listener
      BY <2>1, <2>3, <2>4 DEF Engines
    <2>6. Follows(ip, n)
      BY <2>2, <2>4, <2>5 DEF Follows, Taken
    <2>7. \A t \in Sessions : Counted(n.session[t])
      BY <2>1, <2>2, <2>4, <2>5
    <2>8. ASSUME NEW t \in Sessions \ handled PROVE Served(n, t)
      <3>1. CASE t \in closed
        BY <2>2, <2>4, <2>5, <3>1 DEF Served, Quiet, InterestIn
      <3>2. CASE t \notin closed
        BY <2>4, <2>5, <3>2 DEF Served, EngineFits
      <3>3. QED
        BY <3>1, <3>2
    <2>9. ip.engine # "idle"
      BY <1>2, TakenRuns DEF Taken
    <2>10. EngineFits(n, handled, sv)
      BY <2>4, <2>5, <2>6, <2>7, <2>8, <2>9, FollowsFits
    <2>11. QED
      BY <2>4, <2>5, <2>10 DEF n
  <1>3. QED
    BY <1>1, <1>2

LEMMA ScheduleMaxIdleTimeFits ==
    ASSUME NEW ip, NEW sv, EngineFits(ip, {}, sv), ip.engine # "idle"
    PROVE  EngineFits(ScheduleMaxIdleTime(ip), {}, sv)
  <1> DEFINE rest == CloseSessions(ip, Idling(ip))
             listens == rest.listener /\ ip.engine # "stopping"
             waiting == \E s \in Sessions : rest.session[s].state \in {"reading", "writing"}
             added == IF ip.engine = "stopping" /\ waiting THEN {"maxIdleTime"} ELSE {}
             more == (rest.timers \ {"maxIdleTime"}) \cup {"garbageCollection"} \cup added
             n == ScheduleMaxIdleTime(ip)
  <1>1. Idling(ip) \in SUBSET Taken(ip)
    BY DEF Idling, Taken, Quiet
  <1>2. EngineFits(rest, {}, sv) /\ rest.engine = ip.engine
    BY <1>1, CloseSessionsFits
  <1>3. n = [rest EXCEPT !.listener = listens, !.timers = more]
    BY DEF ScheduleMaxIdleTime
  <1> HIDE DEF rest, n
  <1>4. rest \in Engines /\ (rest.engine = "running" => rest.listener)
    BY <1>2 DEF EngineFits, Runs
  <1>5. more \in SUBSET Timers /\ listens \in BOOLEAN
        /\ "garbageCollection" \in more
        /\ (\A x \in rest.timers : x # "maxIdleTime" => x \in more)
        /\ ("stateTransition" \in more => "stateTransition" \in rest.timers)
        /\ (listens => rest.listener) /\ (rest.engine = "running" => listens)
    BY <1>2, <1>4 DEF Engines, Timers
  <1> HIDE DEF more, listens
  <1>6. n \in Engines /\ n.listener = listens /\ n.timers = more
        /\ n.session = rest.session /\ n.engine = rest.engine /\ n.numSessions = rest.numSessions
    BY <1>3, <1>4, <1>5 DEF Engines
  <1>7. Taken(n) = Taken(rest)
    BY <1>6 DEF Taken
  <1>8. \A t \in Sessions : Served(n, t)
    BY <1>2, <1>5, <1>6 DEF Served, EngineFits
  <1>9. Runs(n, sv)
    BY <1>2, <1>5, <1>6 DEF Runs, EngineFits
  <1>10. EngineFits(n, {}, sv)
    BY <1>2, <1>5, <1>6, <1>7, <1>8, <1>9 DEF EngineFits
  <1>11. QED
    BY <1>10 DEF n


LEMMA CollectGarbageFits ==
    ASSUME NEW ip, NEW sv, EngineFits(ip, {}, sv), "garbageCollection" \in ip.timers,
           sv \in {"idle", "running", "stopping"}
    PROVE  EngineFits(CollectGarbage(ip), {}, sv)
  <1> DEFINE garbage == {s \in Sessions : ip.session[s].state = "closed"}
             left == ip.numSessions - Cardinality(garbage)
             new == [s \in Sessions |-> IF s \in garbage THEN Free ELSE ip.session[s]]
             swept == ip.timers \ {"garbageCollection"}
             collected == [ip EXCEPT !.session = new, !.numSessions = left, !.timers = swept]
             stopped == (swept \ {"stateTransition", "maxIdleTime"}) \cup {"callback"}
             n == CollectGarbage(ip)
  <1>1. ip \in Engines /\ ip.engine # "idle" /\ ip.engine \in {"running", "stopping"}
        /\ (ip.engine = "running" => ip.listener)
    BY DEF EngineFits, Runs, Engines
  <1>2. Counted(Free) /\ Free \in SessionState /\ Free.state = "free" /\ Free.interest = "none"
    BY FreeFits DEF Counted
  <1>3. left = Cardinality(Taken(ip) \ garbage) /\ left \in 0 .. Cardinality(Sessions)
        /\ IsFiniteSet(Taken(ip) \ garbage)
    <2>1. garbage \in SUBSET Sessions /\ Taken(ip) \in SUBSET Sessions
          /\ Taken(ip) \ garbage \in SUBSET Sessions
      BY DEF Taken
    <2>2. Taken(ip) \cap garbage = garbage
      BY DEF Taken
    <2>3. IsFiniteSet(Taken(ip)) /\ IsFiniteSet(garbage)
      BY <2>1, SessionSets
    <2>4. Cardinality(Taken(ip) \ garbage) = Cardinality(Taken(ip)) - Cardinality(Taken(ip) \cap garbage)
      BY <2>3, FS_Difference
    <2>5. ip.numSessions = Cardinality(Taken(ip))
      BY DEF EngineFits
    <2>6. Cardinality(Taken(ip) \ garbage) \in 0 .. Cardinality(Sessions) /\ IsFiniteSet(Taken(ip) \ garbage)
      BY <2>1, SessionSets
    <2>7. QED
      BY <2>2, <2>4, <2>5, <2>6
  <1>4. new \in [Sessions -> SessionState] /\ swept \in SUBSET Timers /\ stopped \in SUBSET Timers
    BY <1>1, <1>2 DEF Engines, Timers
  <1>5. \A t \in Sessions :
            /\ ip.session[t].state = "closed" => new[t] = Free
            /\ ip.session[t].state # "closed" => new[t] = ip.session[t]
            /\ new[t].state # "closed"
            /\ Counted(new[t])
    BY <1>2 DEF EngineFits
  <1>6. {t \in Sessions : new[t].state # "free"} = Taken(ip) \ garbage
    BY <1>2, <1>5 DEF Taken
  <1>7. n = IF ip.listener \/ left # 0 THEN collected
            ELSE [collected EXCEPT !.engine = "idle", !.timers = stopped]
    <2>1. collected.timers = swept
      BY <1>1 DEF Engines
    <2>2. QED
      BY <2>1 DEF CollectGarbage
  <1> HIDE DEF n, left, new, swept, stopped
  <1>8. collected \in Engines /\ collected.session = new /\ collected.numSessions = left
        /\ collected.timers = swept /\ collected.engine = ip.engine /\ collected.listener = ip.listener
    BY <1>1, <1>3, <1>4 DEF Engines
  <1> HIDE DEF collected, garbage
  <1>9. \A x : x \in swept <=> x \in ip.timers /\ x # "garbageCollection"
    BY DEF swept
  <1>10. CASE ip.listener \/ left # 0
    <2>1. n = collected
      BY <1>7, <1>10
    <2>2. \A t \in Sessions : Served(collected, t)
      <3>1. SUFFICES ASSUME NEW t \in Sessions PROVE Served(collected, t)
        OBVIOUS
      <3>2. CASE ip.session[t].state = "closed"
        BY <1>2, <1>5, <1>8, <3>2 DEF Served, Quiet, InterestIn
      <3>3. CASE ip.session[t].state # "closed"
        BY <1>5, <1>8, <1>9, <3>3 DEF Served, EngineFits
      <3>4. QED
        BY <3>2, <3>3
    <2>3. Runs(collected, sv)
      BY <1>1, <1>8, <1>9 DEF Runs, EngineFits
    <2>4. collected.numSessions = Cardinality(Taken(collected))
      BY <1>3, <1>6, <1>8 DEF Taken
    <2>5. QED
      BY <1>5, <1>8, <2>1, <2>2, <2>3, <2>4 DEF EngineFits, n
  <1>11. CASE ~(ip.listener \/ left # 0)
    <2>1. n = [collected EXCEPT !.engine = "idle", !.timers = stopped]
      BY <1>7, <1>11
    <2>2. n \in Engines /\ n.engine = "idle" /\ n.timers = stopped /\ n.session = new
          /\ n.numSessions = left /\ n.listener = ip.listener
      BY <2>1, <1>4, <1>8 DEF Engines
    <2>3. Taken(ip) \ garbage = {}
      BY <1>3, <1>11, FS_EmptySet
    <2>4. \A t \in Sessions : new[t].state = "free"
      BY <1>6, <2>3
    <2>5. \A t \in Sessions : Served(n, t)
      <3>1. SUFFICES ASSUME NEW t \in Sessions PROVE Served(n, t)
        OBVIOUS
      <3>2. new[t].interest = "none"
        <4>1. CASE ip.session[t].state = "closed"
          BY <1>2, <1>5, <4>1
        <4>2. CASE ip.session[t].state # "closed"
          BY <1>5, <2>4, <4>2 DEF EngineFits, Served, InterestIn
        <4>3. QED
          BY <4>1, <4>2
      <3>3. QED
        BY <2>2, <2>4, <3>2 DEF Served, Quiet, InterestIn
    <2>6. Runs(n, sv)
      <3>1. sv # "running" /\ ~ip.listener
        BY <1>1, <1>11 DEF EngineFits, Runs
      <3>2. stopped \subseteq {"callback", "eventNotification", "process"}
            /\ "callback" \in stopped
        BY <1>1 DEF stopped, swept, Engines, Timers
      <3>3. QED
        BY <2>2, <2>4, <3>1, <3>2 DEF Runs
    <2>7. n.numSessions = Cardinality(Taken(n))
      BY <1>3, <1>6, <2>2 DEF Taken
    <2>8. EngineFits(n, {}, sv)
      BY <1>5, <2>2, <2>5, <2>6, <2>7 DEF EngineFits
    <2>9. QED
      BY <2>8 DEF n
  <1>12. QED
    BY <1>10, <1>11


-----------------------------------------------------------------------------
(* Requests *)

\* A change that is raised is counted once.
LEMMA RaisedIsCounted ==
    ASSUME NEW r, Counted(r), NEW c \in r.subscribed
    PROVE  Counted([r EXCEPT !.flags = r.flags \cup {c},
                             !.numFlags = r.numFlags + (IF c \notin r.flags THEN 1 ELSE 0)])
  <1> DEFINE flags == r.flags \cup {c}
             count == r.numFlags + (IF c \notin r.flags THEN 1 ELSE 0)
             q == [r EXCEPT !.flags = flags, !.numFlags = count]
  <1>1. r \in SessionState /\ r.flags \in SUBSET Characteristics /\ c \in Characteristics
        /\ r.numFlags = Cardinality(r.flags)
    BY DEF Counted, SessionState
  <1>2. flags \in SUBSET Characteristics /\ flags \subseteq r.subscribed
    BY <1>1 DEF Counted, SessionState
  <1>3. count = Cardinality(flags)
    <2>1. IsFiniteSet(r.flags) /\ Cardinality(r.flags) \in Nat
      BY <1>1, CharacteristicSets
    <2>2. CASE c \in r.flags
      <3>1. flags = r.flags
        BY <2>2
      <3>2. Cardinality(flags) = Cardinality(r.flags)
        BY <3>1, Zenon
      <3>3. count = r.numFlags
        BY <1>1, <2>1, <2>2
      <3>4. QED
        BY <1>1, <3>2, <3>3
    <2>3. CASE c \notin r.flags
      <3>1. Cardinality(flags) = Cardinality(r.flags) + 1
        BY <2>1, <2>3, FS_AddElement
      <3>2. QED
        BY <1>1, <2>1, <2>3, <3>1
    <2>4. QED
      BY <2>2, <2>3
  <1>4. count \in 0 .. Cardinality(Characteristics)
    BY <1>2, <1>3, CharacteristicSets
  <1> HIDE DEF flags, count
  <1>5. q \in SessionState /\ q.flags = flags /\ q.numFlags = count
        /\ q.subscribed = r.subscribed
    BY <1>1, <1>2, <1>4 DEF SessionState
  <1>6. Counted(q)
    BY <1>2, <1>3, <1>5 DEF Counted
  <1>7. QED
    BY <1>6 DEF flags, count

LEMMA RaisedEventFits ==
    ASSUME NEW ip, NEW handled, NEW sv, EngineFits(ip, handled, sv), ip.engine # "idle",
           NEW c \in Characteristics, NEW writer
    PROVE  /\ EngineFits(RaisedEvent(ip, c, writer), handled, sv)
           /\ \A t \in Sessions : RaisedEvent(ip, c, writer).session[t].state = ip.session[t].state
  <1> DEFINE told == {t \in Sessions \ writer : c \in ip.session[t].subscribed}
             raised == {t \in told : c \notin ip.session[t].flags}
             flagged(r) == [r EXCEPT !.flags = r.flags \cup {c},
                                     !.numFlags = r.numFlags + (IF c \notin r.flags THEN 1 ELSE 0)]
             new == [t \in Sessions |-> IF t \in told THEN flagged(ip.session[t]) ELSE ip.session[t]]
             more == ip.timers \cup (IF raised # {} THEN {"eventNotification"} ELSE {})
             n == RaisedEvent(ip, c, writer)
  <1>1. ip \in Engines /\ \A t \in Sessions : ip.session[t] \in SessionState /\ Counted(ip.session[t])
    BY DEF EngineFits, Engines
  <1>2. \A t \in Sessions : t \in told =>
            /\ flagged(ip.session[t]) \in SessionState
            /\ Counted(flagged(ip.session[t]))
            /\ flagged(ip.session[t]).state = ip.session[t].state
            /\ flagged(ip.session[t]).inbound = ip.session[t].inbound
            /\ flagged(ip.session[t]).interest = ip.session[t].interest
            /\ t \notin raised => flagged(ip.session[t]).numFlags = ip.session[t].numFlags
    <2>1. SUFFICES ASSUME NEW t \in told
                   PROVE  /\ flagged(ip.session[t]) \in SessionState
                          /\ Counted(flagged(ip.session[t]))
                          /\ flagged(ip.session[t]).state = ip.session[t].state
                          /\ flagged(ip.session[t]).inbound = ip.session[t].inbound
                          /\ flagged(ip.session[t]).interest = ip.session[t].interest
                          /\ t \notin raised => flagged(ip.session[t]).numFlags = ip.session[t].numFlags
      OBVIOUS
    <2>2. Counted(ip.session[t]) /\ c \in ip.session[t].subscribed
      BY <1>1
    <2>3. Counted(flagged(ip.session[t]))
      BY <2>2, RaisedIsCounted
    <2>4. flagged(ip.session[t]) \in SessionState
      BY <2>3 DEF Counted
    <2>5. ip.session[t].numFlags \in Nat /\ ip.session[t] \in SessionState
      BY <2>2, CharacteristicSets DEF Counted, SessionState
    <2>6. QED
      BY <2>3, <2>4, <2>5, SMTT(40) DEF SessionState
  <1>3. n = [ip EXCEPT !.session = new, !.timers = more]
    <2> DEFINE made == [t \in Sessions |->
                   IF t \in told
                   THEN [ip.session[t] EXCEPT !.flags = @ \cup {c},
                                  !.numFlags = @ + (IF t \in raised THEN 1 ELSE 0)]
                   ELSE ip.session[t]]
    <2>1. \A t \in told : t \in raised <=> c \notin ip.session[t].flags
      OBVIOUS
    <2>2. made = new
      <3>1. SUFFICES ASSUME NEW t \in Sessions PROVE made[t] = new[t]
        OBVIOUS
      <3>2. CASE t \in told
        BY <2>1, <3>2
      <3>3. CASE t \notin told
        BY <3>3
      <3>4. QED
        BY <3>2, <3>3
    <2>3. n = [ip EXCEPT !.session = made, !.timers = more]
      BY DEF RaisedEvent
    <2>4. QED
      BY <2>2, <2>3
  <1>4. /\ \A t \in Sessions : t \in told => new[t] = flagged(ip.session[t])
        /\ \A t \in Sessions : t \notin told => new[t] = ip.session[t]
        /\ \A x \in ip.timers : x \in more
        /\ \A t \in raised : "eventNotification" \in more
        /\ "stateTransition" \in more => "stateTransition" \in ip.timers
        /\ raised \subseteq told
    OBVIOUS
  <1>5. new \in [Sessions -> SessionState] /\ more \in SUBSET Timers
    BY <1>1, <1>2 DEF Engines, Timers
  <1> HIDE DEF n, new, more, told, raised, flagged
  <1>6. n \in Engines /\ n.session = new /\ n.timers = more
        /\ n.engine = ip.engine /\ n.numSessions = ip.numSessions /\ n.listener = ip.listener
    BY <1>1, <1>3, <1>5 DEF Engines
  <1>7. \A t \in Sessions :
            /\ new[t].state = ip.session[t].state
            /\ new[t].inbound = ip.session[t].inbound
            /\ new[t].interest = ip.session[t].interest
            /\ Counted(new[t])
            /\ "eventNotification" \in more \/ new[t].numFlags = ip.session[t].numFlags
    <2>1. SUFFICES ASSUME NEW t \in Sessions
                   PROVE  /\ new[t].state = ip.session[t].state
                          /\ new[t].inbound = ip.session[t].inbound
                          /\ new[t].interest = ip.session[t].interest
                          /\ Counted(new[t])
                          /\ "eventNotification" \in more \/ new[t].numFlags = ip.session[t].numFlags
      OBVIOUS
    <2>2. CASE t \in told
      BY <1>2, <1>4, <2>2
    <2>3. CASE t \notin told
      BY <1>1, <1>4, <2>3
    <2>4. QED
      BY <2>2, <2>3
  <1>8. Follows(ip, n)
    BY <1>4, <1>6, <1>7 DEF Follows
  <1>9. \A t \in Sessions : n.session[t].state = "closed" => "garbageCollection" \in n.timers
    BY <1>4, <1>6, <1>7 DEF EngineFits
  <1>10. ASSUME NEW t \in Sessions \ handled PROVE Served(n, t)
    <2>1. Served(ip, t)
      BY DEF EngineFits
    <2>2. QED
      BY <1>4, <1>6, <1>7, <2>1 DEF Served, Quiet
  <1>11. EngineFits(n, handled, sv)
    BY <1>6, <1>7, <1>8, <1>9, <1>10, FollowsFits
  <1>12. QED
    BY <1>6, <1>7, <1>11 DEF n


\* The session s handles a request.
Handling(ip, s, sv) == EngineFits(ip, {s}, sv) /\ ip.session[s].state = "reading"

\* It has handled one, or has been closed.
HandledBy(ip, s, sv) == EngineFits(ip, {s}, sv) /\ ip.session[s].state # "free"

LEMMA SubscribedFits ==
    ASSUME NEW ip, NEW sv, NEW s \in Sessions, Handling(ip, s, sv), NEW c \in Characteristics
    PROVE  Handling(Subscribed(ip, s, c), s, sv)
  <1> DEFINE r == ip.session[s]
             more == r.subscribed \cup {c}
             q == [r EXCEPT !.subscribed = more]
  <1>1. ip \in Engines /\ r \in SessionState /\ Counted(r) /\ r.state = "reading"
    BY DEF Handling, EngineFits, Engines
  <1>2. Subscribed(ip, s, c) = [ip EXCEPT !.session = [ip.session EXCEPT ![s] = q]]
    BY <1>1 DEF Subscribed, Engines
  <1>3. more \in SUBSET Characteristics /\ r.subscribed \subseteq more
    BY <1>1 DEF SessionState
  <1> HIDE DEF r, more
  <1>4. q \in SessionState /\ q.subscribed = more /\ q.flags = r.flags
        /\ q.numFlags = r.numFlags /\ q.state = r.state
    BY <1>1, <1>3 DEF SessionState
  <1>5. Counted(q)
    BY <1>1, <1>3, <1>4 DEF Counted
  <1> HIDE DEF q
  <1>6. q.state = "reading" /\ q.state \notin {"free", "closed"}
    BY <1>1, <1>4
  <1>7. EngineFits(ip, {s}, sv) /\ ip.session[s].state # "free"
    BY DEF Handling
  <1>8. QED
    BY <1>2, <1>5, <1>6, <1>7, DescriptorFits DEF Handling

LEMMA UnsubscribedFits ==
    ASSUME NEW ip, NEW sv, NEW s \in Sessions, Handling(ip, s, sv), NEW c \in Characteristics
    PROVE  Handling(Unsubscribed(ip, s, c), s, sv)
  <1> DEFINE r == ip.session[s]
             subscribed == r.subscribed \ {c}
             flags == r.flags \ {c}
             count == r.numFlags - Cardinality(r.flags \cap {c})
             q == [r EXCEPT !.subscribed = subscribed, !.flags = flags,
                            !.numFlags = count]
  <1>1. ip \in Engines /\ r \in SessionState /\ Counted(r) /\ r.state = "reading"
    BY DEF Handling, EngineFits, Engines
  <1>2. Unsubscribed(ip, s, c) = [ip EXCEPT !.session = [ip.session EXCEPT ![s] = q]]
    BY <1>1, ZenonT(60) DEF Unsubscribed, Engines
  <1>3. subscribed \in SUBSET Characteristics /\ flags \in SUBSET Characteristics
        /\ flags \subseteq subscribed
    BY <1>1 DEF SessionState, Counted
  <1>4. count = Cardinality(flags) /\ count \in 0 .. Cardinality(Characteristics)
    <2>1. IsFiniteSet(r.flags) /\ IsFiniteSet({c})
      BY <1>1, CharacteristicSets DEF SessionState
    <2>2. Cardinality(flags) = Cardinality(r.flags) - Cardinality(r.flags \cap {c})
      BY <2>1, FS_Difference
    <2>3. Cardinality(flags) \in 0 .. Cardinality(Characteristics)
      BY <1>3, CharacteristicSets
    <2>4. r.numFlags = Cardinality(r.flags)
      BY <1>1 DEF Counted
    <2>5. QED
      BY <2>2, <2>3, <2>4
  <1> HIDE DEF r, subscribed, flags, count
  <1>5. q \in SessionState /\ q.subscribed = subscribed /\ q.flags = flags
        /\ q.numFlags = count /\ q.state = r.state
    BY <1>1, <1>3, <1>4 DEF SessionState
  <1>6. Counted(q)
    BY <1>3, <1>4, <1>5 DEF Counted
  <1> HIDE DEF q
  <1>7. q.state = "reading" /\ q.state \notin {"free", "closed"}
    BY <1>1, <1>5
  <1>8. EngineFits(ip, {s}, sv) /\ ip.session[s].state # "free"
    BY DEF Handling
  <1>9. QED
    BY <1>2, <1>6, <1>7, <1>8, DescriptorFits DEF Handling

LEMMA SecuredRequestsFit ==
    ASSUME NEW ip, NEW sv, NEW s \in Sessions, Handling(ip, s, sv),
           NEW i \in SecuredRequests(ip, s)
    PROVE  Handling(i, s, sv)
  <1> DEFINE waiting == {t \in Sessions \ {s} : ip.session[t].state = "reading"
                                                 /\ ip.session[t].secured}
  <1>1. EngineFits(ip, {s}, sv) /\ ip.session[s].state = "reading" /\ ip.engine # "idle"
        /\ ip.session[s].subscribed \subseteq Characteristics
    BY TakenRuns DEF Handling, EngineFits, Engines, SessionState
  <1>2. CASE \E c \in Characteristics : i = Subscribed(ip, s, c)
    BY <1>2, SubscribedFits
  <1>3. CASE \E c \in ip.session[s].subscribed : i = Unsubscribed(ip, s, c)
    BY <1>1, <1>3, UnsubscribedFits
  <1>4. CASE \E c \in Characteristics : \E writer \in {{}, {s}} : i = RaisedEvent(ip, c, writer)
    <2>1. PICK c \in Characteristics, writer \in {{}, {s}} : i = RaisedEvent(ip, c, writer)
      BY <1>4
    <2>2. /\ EngineFits(RaisedEvent(ip, c, writer), {s}, sv)
          /\ RaisedEvent(ip, c, writer).session[s].state = ip.session[s].state
      BY <1>1, RaisedEventFits
    <2>3. QED
      BY <1>1, <2>1, <2>2 DEF Handling
  <1>5. CASE \E closed \in SUBSET waiting : i = CloseSessions(ip, closed)
    <2>1. PICK closed \in SUBSET waiting : i = CloseSessions(ip, closed)
      BY <1>5
    <2>2. closed \in SUBSET Taken(ip) /\ s \notin closed
      BY DEF Taken
    <2>3. EngineFits(ip, {s}, sv)
      BY <1>1
    <2>4. /\ EngineFits(CloseSessions(ip, closed), {s}, sv)
          /\ \A t \in Sessions : t \notin closed =>
               CloseSessions(ip, closed).session[t] = ip.session[t]
      BY <2>2, <2>3, CloseSessionsFits, ZenonT(60)
    <2>5. CloseSessions(ip, closed).session[s] = ip.session[s]
      BY <2>2, <2>4
    <2>6. QED
      BY <1>1, <2>1, <2>4, <2>5 DEF Handling
  <1>6. \/ i = ip
        \/ \E c \in Characteristics : i = Subscribed(ip, s, c)
        \/ \E c \in ip.session[s].subscribed : i = Unsubscribed(ip, s, c)
        \/ \E c \in Characteristics : \E writer \in {{}, {s}} : i = RaisedEvent(ip, c, writer)
        \/ \E closed \in SUBSET waiting : i = CloseSessions(ip, closed)
    BY DEF SecuredRequests
  <1>7. QED
    BY <1>2, <1>3, <1>4, <1>5, <1>6

LEMMA UnsecuredRequestsFit ==
    ASSUME NEW ip, NEW sv, NEW s \in Sessions, Handling(ip, s, sv),
           NEW i \in UnsecuredRequests(ip, s)
    PROVE  Handling(i, s, sv)
  <1>1. EngineFits(ip, {s}, sv) /\ ip.session[s].state = "reading"
    BY DEF Handling
  <1>2. \/ i = ip
        \/ \E t \in Sessions \ {s} : ip.session[t].state # "free" /\ i = CloseSession(ip, t)
    BY DEF UnsecuredRequests
  <1>3. CASE \E t \in Sessions \ {s} : ip.session[t].state # "free" /\ i = CloseSession(ip, t)
    <2>1. PICK t \in Sessions \ {s} : ip.session[t].state # "free" /\ i = CloseSession(ip, t)
      BY <1>3
    <2>2. {s} \ {t} = {s} /\ s \in Sessions \ {t}
      BY <2>1
    <2>3. /\ EngineFits(CloseSession(ip, t), {s} \ {t}, sv)
          /\ CloseSession(ip, t).session[s] = ip.session[s]
      BY <1>1, <2>1, <2>2, CloseSessionFits
    <2>4. EngineFits(CloseSession(ip, t), {s}, sv)
      BY <2>2, <2>3
    <2>5. QED
      BY <1>1, <2>1, <2>3, <2>4 DEF Handling
  <1>4. QED
    BY <1>2, <1>3


LEMMA AnsweredFits ==
    ASSUME NEW ip, NEW sv, NEW s \in Sessions, Handling(ip, s, sv),
           NEW i \in Answered(ip, s) \cup Processing(ip, s)
    PROVE  HandledBy(i, s, sv)
  <1> DEFINE r == ip.session[s]
             answer(b) == [r EXCEPT !.state = "writing", !.inbound = b]
             later == [r EXCEPT !.state = "processing"]
  <1>1. ip \in Engines /\ r \in SessionState /\ Counted(r)
    BY DEF Handling, EngineFits, Engines
  <1>2. \E q \in {answer(TRUE), answer(FALSE), later} :
            i = [ip EXCEPT !.session = [ip.session EXCEPT ![s] = q]]
    <2>1. CASE i \in Answered(ip, s)
      <3>1. PICK b \in BOOLEAN :
                i = [ip EXCEPT !.session[s].state = "writing", !.session[s].inbound = b]
        BY <2>1 DEF Answered
      <3>2. i = [ip EXCEPT !.session = [ip.session EXCEPT ![s] = answer(b)]]
        BY <1>1, <3>1 DEF Engines
      <3>3. b = TRUE \/ b = FALSE
        OBVIOUS
      <3>4. QED
        BY <3>2, <3>3
    <2>2. CASE i \in Processing(ip, s)
      BY <1>1, <2>2 DEF Processing, Engines
    <2>3. QED
      BY <2>1, <2>2
  <1>3. PICK q \in {answer(TRUE), answer(FALSE), later} :
            i = [ip EXCEPT !.session = [ip.session EXCEPT ![s] = q]]
    BY <1>2
  <1> HIDE DEF r
  <1>4. q \in SessionState /\ q.flags = r.flags /\ q.subscribed = r.subscribed
        /\ q.numFlags = r.numFlags /\ q.state \in {"writing", "processing"}
    <2>1. \A b \in BOOLEAN : answer(b) \in SessionState /\ answer(b).flags = r.flags
              /\ answer(b).subscribed = r.subscribed
              /\ answer(b).numFlags = r.numFlags /\ answer(b).state = "writing"
      BY <1>1 DEF SessionState
    <2>2. later \in SessionState /\ later.flags = r.flags
              /\ later.subscribed = r.subscribed
              /\ later.numFlags = r.numFlags /\ later.state = "processing"
      BY <1>1 DEF SessionState
    <2>3. CASE q = later
      BY <2>2, <2>3
    <2>4. CASE \E b \in BOOLEAN : q = answer(b)
      BY <2>1, <2>4
    <2>5. QED
      BY <1>3, <2>3, <2>4
  <1>5. Counted(q)
    BY <1>1, <1>4 DEF Counted
  <1>6. q.state # "free" /\ q.state \notin {"free", "closed"}
    BY <1>4
  <1>7. EngineFits(ip, {s}, sv) /\ ip.session[s].state # "free"
    BY DEF Handling
  <1>8. QED
    BY <1>3, <1>5, <1>6, <1>7, DescriptorFits DEF HandledBy

LEMMA HandleRequestFits ==
    ASSUME NEW ip, NEW sv, NEW s \in Sessions, Handling(ip, s, sv),
           NEW n \in HandleRequest(ip, s)
    PROVE  HandledBy(n, s, sv)
  <1>1. CASE \E i \in SecuredRequests(ip, s) : n \in Answered(i, s)
    BY <1>1, SecuredRequestsFit, AnsweredFits
  <1>2. CASE \E i \in UnsecuredRequests(ip, s) : n \in Answered(i, s) \cup Processing(i, s)
    BY <1>2, UnsecuredRequestsFit, AnsweredFits
  <1>3. QED
    BY <1>1, <1>2 DEF HandleRequest

\* What a callback leaves when it closes the session of its stream.
LEMMA ClosedIsHandled ==
    ASSUME NEW ip, NEW sv, NEW s \in Sessions, HandledBy(ip, s, sv)
    PROVE  HandledBy(CloseSession(ip, s), s, sv)
  <1>1. EngineFits(ip, {s}, sv) /\ ip.session[s].state # "free"
    BY DEF HandledBy
  <1>2. EngineFits(CloseSession(ip, s), {s} \ {s}, sv) /\ CloseSession(ip, s).session[s] = Closed
    BY <1>1, CloseSessionFits
  <1>3. EngineFits(CloseSession(ip, s), {s}, sv)
    BY <1>2 DEF EngineFits
  <1>4. QED
    BY <1>2, <1>3, ClosedFits DEF HandledBy

LEMMA HandleInputFits ==
    ASSUME NEW ip, NEW sv, NEW s \in Sessions, Handling(ip, s, sv),
           NEW n \in HandleInput(ip, s)
    PROVE  HandledBy(n, s, sv)
  <1> DEFINE input == {[ip EXCEPT !.session[s].inbound = TRUE, !.session[s].secured = b] :
                          b \in {ip.session[s].secured, TRUE}}
  <1>1. ASSUME NEW i \in input PROVE Handling(i, s, sv)
    <2> DEFINE r == ip.session[s]
               filled(b) == [r EXCEPT !.inbound = TRUE, !.secured = b]
    <2>1. ip \in Engines /\ r \in SessionState /\ Counted(r) /\ r.state = "reading"
      BY DEF Handling, EngineFits, Engines
    <2>2. PICK b \in BOOLEAN :
              i = [ip EXCEPT !.session[s].inbound = TRUE, !.session[s].secured = b]
      BY <1>1, <2>1 DEF SessionState
    <2>3. i = [ip EXCEPT !.session = [ip.session EXCEPT ![s] = filled(b)]]
      BY <2>1, <2>2 DEF Engines
    <2> DEFINE q == filled(b)
    <2> HIDE DEF r
    <2>4. q \in SessionState /\ q.flags = r.flags
          /\ q.subscribed = r.subscribed /\ q.numFlags = r.numFlags /\ q.state = "reading"
      BY <2>1 DEF SessionState
    <2> HIDE DEF q
    <2>5. Counted(q) /\ q.state \notin {"free", "closed"}
      BY <2>1, <2>4 DEF Counted
    <2>6. EngineFits(ip, {s}, sv) /\ ip.session[s].state # "free"
      BY DEF Handling
    <2>7. i = [ip EXCEPT !.session = [ip.session EXCEPT ![s] = q]]
      BY <2>3 DEF q
    <2>8. QED
      BY <2>4, <2>5, <2>6, <2>7, DescriptorFits DEF Handling
  <1>2. HandledBy(ip, s, sv)
    BY DEF Handling, HandledBy
  <1>3. \/ n \in input
        \/ n = CloseSession(ip, s)
        \/ \E i \in input : n \in HandleRequest(i, s)
    BY DEF HandleInput
  <1>4. CASE n \in input
    BY <1>1, <1>4 DEF Handling, HandledBy
  <1>5. CASE n = CloseSession(ip, s)
    BY <1>2, <1>5, ClosedIsHandled
  <1>6. CASE \E i \in input : n \in HandleRequest(i, s)
    BY <1>1, <1>6, HandleRequestFits
  <1>7. QED
    BY <1>3, <1>4, <1>5, <1>6

LEMMA ReadInboundDataFits ==
    ASSUME NEW ip, NEW sv, NEW s \in Sessions, Handling(ip, s, sv),
           NEW n \in ReadInboundData(ip, s)
    PROVE  HandledBy(n, s, sv)
  <1>1. HandledBy(ip, s, sv)
    BY DEF Handling, HandledBy
  <1>2. QED
    BY <1>1, ClosedIsHandled, HandleInputFits DEF ReadInboundData

LEMMA WriteOutboundDataFits ==
    ASSUME NEW ip, NEW sv, NEW s \in Sessions, HandledBy(ip, s, sv),
           NEW n \in WriteOutboundData(ip, s)
    PROVE  HandledBy(n, s, sv)
  <1> DEFINE r == ip.session[s]
             q == [r EXCEPT !.state = "reading"]
             reading == [ip EXCEPT !.session[s].state = "reading"]
  <1>1. ip \in Engines /\ r \in SessionState /\ Counted(r)
    BY DEF HandledBy, EngineFits, Engines
  <1>2. reading = [ip EXCEPT !.session = [ip.session EXCEPT ![s] = q]]
    BY <1>1 DEF Engines
  <1>3. n \in {ip, CloseSession(ip, s)}
        \/ n \in (IF reading.session[s].inbound THEN HandleInput(reading, s) ELSE {reading})
    BY DEF WriteOutboundData, CompleteOutput
  <1> HIDE DEF r, reading
  <1>4. q \in SessionState /\ q.flags = r.flags
        /\ q.subscribed = r.subscribed /\ q.numFlags = r.numFlags /\ q.state = "reading"
    BY <1>1 DEF SessionState
  <1> HIDE DEF q
  <1>5. Counted(q) /\ q.state \notin {"free", "closed"}
    BY <1>1, <1>4 DEF Counted
  <1>6. EngineFits(ip, {s}, sv) /\ ip.session[s].state # "free"
    BY DEF HandledBy
  <1>7. Handling(reading, s, sv)
    BY <1>2, <1>4, <1>5, <1>6, DescriptorFits DEF Handling
  <1>8. HandledBy(reading, s, sv)
    BY <1>7 DEF Handling, HandledBy
  <1>9. CASE n \in {ip, CloseSession(ip, s)}
    BY <1>9, ClosedIsHandled
  <1>10. CASE n \in HandleInput(reading, s)
    BY <1>7, <1>10, HandleInputFits
  <1>11. CASE n = reading
    BY <1>8, <1>11
  <1>12. QED
    BY <1>3, <1>9, <1>10, <1>11


-----------------------------------------------------------------------------
(* Event notifications and the end of a callback *)

\* Counted without the type, for a descriptor that is put together from parts.
LEMMA FewerFlagsAreCounted ==
    ASSUME NEW r, Counted(r), NEW gone \in SUBSET r.flags
    PROVE  /\ r.flags \ gone \in SUBSET Characteristics
           /\ r.flags \ gone \subseteq r.subscribed
           /\ r.numFlags - Cardinality(gone) = Cardinality(r.flags \ gone)
           /\ r.numFlags - Cardinality(gone) \in 0 .. Cardinality(Characteristics)
  <1>1. r.flags \in SUBSET Characteristics /\ r.flags \subseteq r.subscribed
        /\ r.numFlags = Cardinality(r.flags)
    BY DEF Counted, SessionState
  <1>2. r.flags \ gone \in SUBSET Characteristics /\ gone \in SUBSET Characteristics
    BY <1>1
  <1>3. IsFiniteSet(r.flags) /\ IsFiniteSet(gone)
    BY <1>1, <1>2, CharacteristicSets
  <1>4. r.flags \cap gone = gone
    OBVIOUS
  <1>5. Cardinality(r.flags \ gone) = Cardinality(r.flags) - Cardinality(r.flags \cap gone)
    BY <1>3, FS_Difference
  <1>6. Cardinality(r.flags \ gone) \in 0 .. Cardinality(Characteristics)
    BY <1>2, CharacteristicSets
  <1>7. r.numFlags - Cardinality(gone) = Cardinality(r.flags \ gone)
    BY <1>1, <1>4, <1>5
  <1>8. QED
    BY <1>1, <1>2, <1>6, <1>7

\* A session is told of the flagged changes that are due, or they are dropped.
LEMMA WriteEventNotificationsFit ==
    ASSUME NEW r, Counted(r), NEW q \in WriteEventNotifications(r), r.state = "reading"
    PROVE  /\ Counted(q)
           /\ \/ q.state = "reading" /\ q.interest = r.interest
              \/ q.state = "writing" /\ q.interest = "space"
  <1>1. r \in SessionState
    BY DEF Counted
  <1>2. CASE ~r.secured
    <2>1. q = [r EXCEPT !.flags = {}, !.numFlags = r.numFlags - Cardinality(r.flags),
                        !.delayed = TRUE]
      BY <1>2 DEF WriteEventNotifications
    <2> DEFINE count == r.numFlags - Cardinality(r.flags)
    <2>2. count = Cardinality({}) /\ count \in 0 .. Cardinality(Characteristics)
      <3> DEFINE all == r.flags
      <3>1. all \in SUBSET r.flags /\ r.flags \ all = {} /\ all = r.flags
        OBVIOUS
      <3> HIDE DEF all
      <3>2. r.numFlags - Cardinality(all) = Cardinality(r.flags \ all)
            /\ r.numFlags - Cardinality(all) \in 0 .. Cardinality(Characteristics)
        <4>1. all \in SUBSET r.flags
          BY <3>1
        <4>2. QED
          BY <4>1, FewerFlagsAreCounted
      <3>3. Cardinality(r.flags \ all) = Cardinality({})
        BY <3>1, Zenon
      <3>4. count = r.numFlags - Cardinality(all)
        BY <3>1, Zenon
      <3> HIDE DEF count
      <3>5. QED
        BY <3>2, <3>3, <3>4
    <2> HIDE DEF count
    <2>3. q \in SessionState /\ q.flags = {} /\ q.numFlags = count
          /\ q.state = "reading" /\ q.interest = r.interest
      <3>1. q = [r EXCEPT !.flags = {}, !.numFlags = count, !.delayed = TRUE]
        BY <2>1 DEF count
      <3>2. QED
        BY <1>1, <2>2, <3>1 DEF SessionState
    <2>4. QED
      BY <2>2, <2>3 DEF Counted
  <1>3. CASE r.secured
    <2> DEFINE due == Due(r)
               flags == r.flags \ due
               count == r.numFlags - Cardinality(due)
               delayed == r.delayed \/ due # {}
               u == [r EXCEPT !.flags = flags, !.numFlags = count, !.delayed = delayed]
    <2>1. due \in SUBSET r.flags
      BY DEF Due
    <2>2. /\ flags \in SUBSET Characteristics /\ flags \subseteq r.subscribed
          /\ count = Cardinality(flags) /\ count \in 0 .. Cardinality(Characteristics)
      BY <2>1, FewerFlagsAreCounted, ZenonT(60)
    <2>3. u = Unflagged(r) /\ delayed \in BOOLEAN
      BY <1>1 DEF Unflagged, SessionState
    <2>4. q = r \/ q = [u EXCEPT !.state = "writing", !.interest = "space"] \/ q = u
      BY <1>3, <2>3 DEF WriteEventNotifications, Sent, Skipped
    <2> HIDE DEF due, flags, count, delayed
    <2>5. u \in SessionState /\ u.flags = flags /\ u.numFlags = count /\ u.subscribed = r.subscribed
          /\ u.state = "reading" /\ u.interest = r.interest
      BY <1>1, <2>2, <2>3 DEF SessionState
    <2> HIDE DEF u
    <2>6. CASE q = r
      BY <2>6
    <2>7. CASE q = [u EXCEPT !.state = "writing", !.interest = "space"]
      <3>1. q \in SessionState /\ q.flags = flags /\ q.numFlags = count
            /\ q.subscribed = r.subscribed /\ q.state = "writing" /\ q.interest = "space"
        BY <2>2, <2>5, <2>7 DEF SessionState
      <3>2. QED
        BY <2>2, <3>1 DEF Counted
    <2>8. CASE q = u
      BY <2>2, <2>5, <2>8 DEF Counted
    <2>9. QED
      BY <2>4, <2>6, <2>7, <2>8
  <1>4. QED
    BY <1>2, <1>3


\* Nobody quiet has flagged events without the timer.
Scheduled(ip) ==
    \A t \in Sessions : Quiet(ip.session[t]) /\ ip.session[t].numFlags > 0
                            => "eventNotification" \in ip.timers

LEMMA ScheduleEventNotificationsFits ==
    ASSUME NEW ip, NEW handled, NEW sv, EngineFits(ip, handled, sv),
           NEW n \in ScheduleEventNotifications(ip)
    PROVE  /\ EngineFits(n, handled, sv)
           /\ Scheduled(n)
           /\ \A t \in Sessions : /\ n.session[t].state = "free" <=> ip.session[t].state = "free"
                                  /\ n.session[t].state # "processing" \/ n.session[t] = ip.session[t]
           /\ "process" \in ip.timers => "process" \in n.timers
           /\ n.engine = ip.engine
  <1> DEFINE Flagged(r) == Quiet(r) /\ r.numFlags > 0
             written(t) == IF Flagged(ip.session[t]) THEN WriteEventNotifications(ip.session[t])
                           ELSE {ip.session[t]}
             timersAfter(f) == (ip.timers \ {"eventNotification"})
                                   \cup (IF \E t \in Sessions : Flagged(f[t])
                                         THEN {"eventNotification"} ELSE {})
  <1>1. PICK f \in [Sessions -> UNION {written(t) : t \in Sessions}] :
            /\ \A t \in Sessions : f[t] \in written(t)
            /\ n = [ip EXCEPT !.session = f, !.timers = timersAfter(f)]
    BY DEF ScheduleEventNotifications
  <1>2. ip \in Engines /\ \A t \in Sessions : Counted(ip.session[t]) /\ ip.session[t] \in SessionState
    BY DEF EngineFits, Engines
  <1>3. ASSUME NEW t \in Sessions
        PROVE  /\ Counted(f[t])
               /\ f[t] \in SessionState
               /\ f[t].state = "free" <=> ip.session[t].state = "free"
               /\ f[t].state = "closed" => ip.session[t].state = "closed"
               /\ \/ f[t] = ip.session[t]
                  \/ f[t].state = "reading" /\ ip.session[t].state = "reading"
                     /\ f[t].interest = ip.session[t].interest
                  \/ f[t].state = "writing" /\ f[t].interest = "space"
    <2>1. f[t] \in written(t)
      BY <1>1
    <2>2. CASE Flagged(ip.session[t])
      <3>1. f[t] \in WriteEventNotifications(ip.session[t]) /\ ip.session[t].state = "reading"
        BY <2>1, <2>2 DEF Quiet
      <3>2. Counted(ip.session[t])
        BY <1>2
      <3>3. /\ Counted(f[t])
            /\ \/ f[t].state = "reading" /\ f[t].interest = ip.session[t].interest
               \/ f[t].state = "writing" /\ f[t].interest = "space"
        BY <3>1, <3>2, WriteEventNotificationsFit
      <3>4. QED
        BY <3>1, <3>3 DEF Counted
    <2>3. CASE ~Flagged(ip.session[t])
      BY <1>2, <2>1, <2>3
    <2>4. QED
      BY <2>2, <2>3
  <1> DEFINE more == timersAfter(f)
  <1>4. /\ more \in SUBSET Timers
        /\ \A x \in ip.timers : x # "eventNotification" => x \in more
        /\ \A x \in more : x = "eventNotification" \/ x \in ip.timers
        /\ \A t \in Sessions : Quiet(f[t]) /\ f[t].numFlags > 0 => "eventNotification" \in more
    BY <1>2 DEF Engines, Timers
  <1>5. f \in [Sessions -> SessionState]
    BY <1>1, <1>3
  <1>6. n = [ip EXCEPT !.session = f, !.timers = more]
    BY <1>1
  <1> HIDE DEF more
  <1>7. n \in Engines /\ n.session = f /\ n.timers = more
        /\ n.engine = ip.engine /\ n.numSessions = ip.numSessions /\ n.listener = ip.listener
    BY <1>2, <1>4, <1>5, <1>6 DEF Engines
  <1>8. Taken(n) = Taken(ip)
    BY <1>3, <1>7 DEF Taken
  <1>9. ASSUME NEW t \in Sessions \ handled PROVE Served(n, t)
    <2>1. Served(ip, t)
      BY DEF EngineFits
    <2>2. CASE f[t] = ip.session[t]
      BY <1>4, <1>7, <2>1, <2>2 DEF Served
    <2>3. CASE f[t].state = "reading" /\ ip.session[t].state = "reading"
               /\ f[t].interest = ip.session[t].interest
      BY <1>4, <1>7, <2>1, <2>3 DEF Served
    <2>4. CASE f[t].state = "writing" /\ f[t].interest = "space"
      BY <1>7, <2>4 DEF Served, Quiet, InterestIn
    <2>5. QED
      BY <1>3, <2>2, <2>3, <2>4
  <1>10. Runs(n, sv)
    <2>1. Runs(ip, sv)
      BY DEF EngineFits
    <2>2. ip.engine = "idle" =>
            /\ \A t \in Sessions : n.session[t].state = "free"
            /\ n.timers \subseteq {"callback", "eventNotification", "process"}
            /\ sv # "idle" => "callback" \in n.timers
      BY <1>3, <1>4, <1>7, <2>1 DEF Runs
    <2>3. "stateTransition" \in n.timers => "stateTransition" \in ip.timers
      BY <1>4, <1>7
    <2>4. QED
      BY <1>7, <2>1, <2>2, <2>3 DEF Runs
  <1>11. \A t \in Sessions : n.session[t].state = "closed" => "garbageCollection" \in n.timers
    BY <1>3, <1>4, <1>7 DEF EngineFits
  <1>12. EngineFits(n, handled, sv)
    BY <1>3, <1>7, <1>8, <1>9, <1>10, <1>11 DEF EngineFits
  <1>13. QED
    BY <1>3, <1>4, <1>7, <1>12 DEF Scheduled

\* handle_io_progression serves the session whose callback it ends.
LEMMA ProgressedFits ==
    ASSUME NEW ip, NEW sv, NEW s \in Sessions, HandledBy(ip, s, sv), NEW n \in Progressed(ip, s)
    PROVE  EngineFits(n, {}, sv)
  <1> DEFINE i == Processed(ip, s)
  <1>1. EngineFits(ip, {s}, sv) /\ ip.session[s].state # "free" /\ ip.engine # "idle" /\ ip \in Engines
    BY TakenRuns DEF HandledBy, EngineFits
  <1>2. HandledBy(i, s, sv) /\ i.session = ip.session /\ i.engine = ip.engine
        /\ (i.session[s].state = "processing" => "process" \in i.timers)
    <2>1. CASE ip.session[s].state # "processing"
      BY <2>1 DEF HandledBy, Processed
    <2>2. CASE ip.session[s].state = "processing"
      <3> DEFINE more == ip.timers \cup {"process"}
      <3>1. i = [ip EXCEPT !.timers = more]
        BY <2>2 DEF Processed, Armed
      <3>2. more \in SUBSET Timers /\ (\A x \in ip.timers : x \in more) /\ "process" \in more
            /\ ("stateTransition" \in more => "stateTransition" \in ip.timers)
        BY <1>1 DEF Engines, Timers
      <3> HIDE DEF i, more
      <3>3. i \in Engines /\ i.timers = more /\ i.session = ip.session /\ i.engine = ip.engine
            /\ i.numSessions = ip.numSessions /\ i.listener = ip.listener
        BY <1>1, <3>1, <3>2 DEF Engines
      <3>4. Follows(ip, i)
        BY <3>2, <3>3 DEF Follows
      <3>5. \A t \in Sessions \ {s} : Served(i, t)
        BY <1>1, <3>2, <3>3 DEF EngineFits, Served
      <3>6. /\ \A t \in Sessions : Counted(i.session[t])
            /\ \A t \in Sessions : i.session[t].state = "closed" => "garbageCollection" \in i.timers
        BY <1>1, <3>2, <3>3 DEF EngineFits
      <3>7. EngineFits(i, {s}, sv)
        BY <1>1, <3>4, <3>5, <3>6, FollowsFits
      <3>8. HandledBy(i, s, sv) /\ i.session = ip.session /\ i.engine = ip.engine
            /\ (i.session[s].state = "processing" => "process" \in i.timers)
        BY <1>1, <3>2, <3>3, <3>7 DEF HandledBy
      <3>9. QED
        BY <3>8 DEF i
    <2>3. QED
      BY <2>1, <2>2
  <1>3. PICK m : /\ \/ m = i /\ (Quiet(i.session[s]) => ~(i.session[s].numFlags > 0))
                    \/ Quiet(i.session[s]) /\ m = CloseSession(i, s)
                    \/ m \in ScheduleEventNotifications(i)
                 /\ n = [m EXCEPT !.session[s].interest = InterestIn(m.session[s].state)]
    BY DEF Progressed
  <1> HIDE DEF i
  <1>4. EngineFits(i, {s}, sv) /\ i.session[s].state # "free"
    BY <1>2 DEF HandledBy
  <1>5. /\ EngineFits(m, {s}, sv)
        /\ m.session[s].state # "free"
        /\ Quiet(m.session[s]) /\ m.session[s].numFlags > 0 => "eventNotification" \in m.timers
        /\ m.session[s].state = "processing" => "process" \in m.timers
    <2>1. CASE m = i /\ (Quiet(i.session[s]) => ~(i.session[s].numFlags > 0))
      BY <1>2, <1>4, <2>1
    <2>2. CASE m = CloseSession(i, s)
      <3>1. EngineFits(m, {s} \ {s}, sv) /\ m.session[s] = Closed
        BY <1>4, <2>2, CloseSessionFits
      <3>2. EngineFits(m, {s}, sv)
        BY <3>1 DEF EngineFits
      <3>3. QED
        BY <3>1, <3>2, ClosedFits DEF Quiet
    <2>3. CASE m \in ScheduleEventNotifications(i)
      <3>1. /\ EngineFits(m, {s}, sv)
            /\ Scheduled(m)
            /\ m.session[s].state = "free" <=> i.session[s].state = "free"
            /\ m.session[s].state # "processing" \/ m.session[s] = i.session[s]
            /\ "process" \in i.timers => "process" \in m.timers
        BY <1>4, <2>3, ScheduleEventNotificationsFits
      <3>2. QED
        BY <1>2, <1>4, <3>1 DEF Scheduled
    <2>4. QED
      BY <1>3, <2>1, <2>2, <2>3
  <1> DEFINE r == m.session[s]
             wanted == InterestIn(r.state)
             q == [r EXCEPT !.interest = wanted]
  <1>6. m \in Engines /\ r \in SessionState /\ Counted(r)
    BY <1>5 DEF EngineFits, Engines
  <1>7. n = [m EXCEPT !.session = [m.session EXCEPT ![s] = q]]
    BY <1>3, <1>6 DEF Engines
  <1>8. wanted \in {"none", "bytes", "space"}
    BY DEF InterestIn
  <1> HIDE DEF r, wanted
  <1>9. q \in SessionState /\ q.flags = r.flags /\ q.subscribed = r.subscribed
        /\ q.numFlags = r.numFlags /\ q.state = r.state /\ q.interest = wanted /\ q.inbound = r.inbound
    BY <1>6, <1>8 DEF SessionState
  <1> HIDE DEF q
  <1>10. Counted(q)
    BY <1>6, <1>9 DEF Counted
  <1>11. EngineFits(n, {s}, sv) /\ n.session[s] = q /\ n.timers = m.timers
    <2>1. q.state = m.session[s].state
      BY <1>9 DEF r
    <2>2. EngineFits(m, {s}, sv) /\ m.session[s].state # "free"
      BY <1>5
    <2>3. EngineFits(n, {s}, sv) /\ n.session[s] = q
      BY <1>7, <1>10, <2>1, <2>2, DescriptorFits
    <2>4. QED
      BY <1>6, <1>7, <2>3 DEF Engines
  <1>12. Served(n, s)
    <2>1. wanted = InterestIn(q.state)
      BY <1>9 DEF wanted
    <2>2. Quiet(q) => Quiet(r)
      BY <1>9 DEF Quiet
    <2>3. Quiet(r) /\ r.numFlags > 0 => "eventNotification" \in m.timers
      BY <1>5 DEF r
    <2>4. r.state = "processing" => "process" \in m.timers
      BY <1>5 DEF r
    <2>5. QED
      BY <1>9, <1>11, <2>1, <2>2, <2>3, <2>4 DEF Served
  <1>13. QED
    BY <1>11, <1>12 DEF EngineFits


-----------------------------------------------------------------------------
(* The invariant *)

ServerInv ==
    /\ server \in {"idle", "running", "stopping"}
    /\ EngineFits(IP, {}, server)

LEMMA InitServerInv == Init => ServerInv
  <1> SUFFICES ASSUME Init PROVE ServerInv
    OBVIOUS
  <1>1. Counted(Free) /\ Free \in SessionState /\ Free.state = "free" /\ Free.interest = "none"
    BY FreeFits DEF Counted
  <1>2. \A s \in Sessions : IP.session[s] = Free
    BY DEF Init, IP
  <1>3. 0 \in 0 .. Cardinality(Sessions) /\ Cardinality({}) = 0
    BY SessionSets, FS_EmptySet
  <1>4. IP \in Engines
    BY <1>1, <1>3 DEF Init, IP, Engines
  <1>5. Taken(IP) = {}
    BY <1>1, <1>2 DEF Taken
  <1>6. \A s \in Sessions : Served(IP, s)
    BY <1>1, <1>2 DEF Served, Quiet, InterestIn
  <1>7. Runs(IP, server)
    BY <1>1, <1>2 DEF Runs, Init, IP
  <1>8. IP.numSessions = Cardinality(Taken(IP))
    BY <1>3, <1>5 DEF Init, IP
  <1>9. QED
    BY <1>1, <1>2, <1>4, <1>6, <1>7, <1>8 DEF ServerInv, EngineFits, Init

LEMMA BecomeFits ==
    ASSUME ServerInv, NEW n, EngineFits(n, {}, server), Become(n)
    PROVE  ServerInv'
  <1>1. n \in Engines
    BY DEF EngineFits
  <1>2. IP' = n
    BY <1>1 DEF Become, IP, Engines
  <1>3. server' = server
    BY DEF Become
  <1>4. QED
    BY <1>2, <1>3 DEF ServerInv

\* The engine as a record, and what the invariant says of it.
LEMMA EngineIs ==
    ASSUME ServerInv
    PROVE  /\ EngineFits(IP, {}, server) /\ IP \in Engines
           /\ IP.session = session /\ IP.timers = timers /\ IP.engine = engine
           /\ IP.listener = listener /\ IP.numSessions = numSessions
  BY DEF ServerInv, EngineFits, IP

LEMMA AcceptTCPStreamFits ==
    ASSUME ServerInv, NEW s \in Sessions, AcceptTCPStream(s)
    PROVE  ServerInv'
  <1> DEFINE x == Free
             r == [x EXCEPT !.state = "reading", !.interest = "bytes"]
             new == [session EXCEPT ![s] = r]
             a == [IP EXCEPT !.session[s] = [Free EXCEPT !.state = "reading", !.interest = "bytes"]]
             b == [a EXCEPT !.numSessions = @ + 1]
  <1>1. EngineFits(IP, {}, server) /\ IP \in Engines
        /\ IP.session = session /\ IP.timers = timers /\ IP.engine = engine
        /\ IP.listener = listener /\ IP.numSessions = numSessions
    BY EngineIs
  <1>2. listener /\ session[s].state = "free" /\ engine # "idle"
    BY <1>1 DEF AcceptTCPStream, EngineFits, Runs
  <1>3. Counted(r) /\ r \in SessionState /\ r.state = "reading" /\ r.interest = "bytes" /\ r.numFlags = 0
    <2>1. Counted(x) /\ x \in SessionState /\ x.numFlags = 0
      BY FreeFits DEF Free, Counted
    <2> HIDE DEF x
    <2>2. r \in SessionState /\ r.state = "reading" /\ r.interest = "bytes" /\ r.numFlags = 0
          /\ r.flags = x.flags /\ r.subscribed = x.subscribed
      BY <2>1 DEF SessionState
    <2>3. QED
      BY <2>1, <2>2 DEF Counted
  <1>4. a = [IP EXCEPT !.session = new]
    BY <1>1
  <1> HIDE DEF r, a
  <1>5. new \in [Sessions -> SessionState] /\ new[s] = r
        /\ \A t \in Sessions \ {s} : new[t] = session[t]
    BY <1>1, <1>3 DEF Engines
  <1> HIDE DEF new
  <1>6. a \in Engines /\ a.session = new /\ a.timers = timers /\ a.engine = engine
        /\ a.listener = listener /\ a.numSessions = numSessions
    BY <1>1, <1>4, <1>5 DEF Engines
  <1> DEFINE count == numSessions + 1
  <1>7. count = Cardinality({t \in Sessions : new[t].state # "free"})
        /\ count \in 0 .. Cardinality(Sessions)
    <2>1. {t \in Sessions : new[t].state # "free"} = Taken(IP) \cup {s}
      BY <1>1, <1>2, <1>3, <1>5 DEF Taken
    <2>2. s \notin Taken(IP) /\ IsFiniteSet(Taken(IP)) /\ Taken(IP) \cup {s} \in SUBSET Sessions
      BY <1>1, <1>2, SessionSets DEF Taken
    <2>3. Cardinality(Taken(IP) \cup {s}) = Cardinality(Taken(IP)) + 1
      BY <2>2, FS_AddElement
    <2>4. numSessions = Cardinality(Taken(IP))
      BY <1>1 DEF EngineFits
    <2>5. Cardinality(Taken(IP) \cup {s}) \in 0 .. Cardinality(Sessions)
      BY <2>2, SessionSets
    <2>6. QED
      BY <2>1, <2>3, <2>4, <2>5
  <1>8. b = [a EXCEPT !.numSessions = count]
    BY <1>6
  <1> HIDE DEF b, count
  <1>9. b \in Engines /\ b.session = new /\ b.timers = timers /\ b.engine = engine
        /\ b.listener = listener /\ b.numSessions = count
    BY <1>6, <1>7, <1>8 DEF Engines
  <1>10. EngineFits(b, {}, server)
    <2>1. b.numSessions = Cardinality(Taken(b))
      BY <1>7, <1>9 DEF Taken
    <2>2. ASSUME NEW t \in Sessions
          PROVE  /\ Counted(b.session[t]) /\ Served(b, t)
                 /\ b.session[t].state = "closed" => "garbageCollection" \in b.timers
      <3>1. CASE t = s
        BY <1>3, <1>5, <1>9, <3>1 DEF Served, InterestIn
      <3>2. CASE t # s
        BY <1>1, <1>5, <1>9, <3>2 DEF Served, EngineFits
      <3>3. QED
        BY <3>1, <3>2
    <2>3. Runs(b, server)
      BY <1>1, <1>2, <1>9 DEF Runs, EngineFits
    <2>4. QED
      BY <1>9, <2>1, <2>2, <2>3 DEF EngineFits
  <1>11. Become(b) \/ Become(ScheduleMaxIdleTime(b))
    BY DEF AcceptTCPStream, RegisterSession, a, b
  <1>12. EngineFits(ScheduleMaxIdleTime(b), {}, server)
    BY <1>2, <1>9, <1>10, ScheduleMaxIdleTimeFits
  <1>13. QED
    BY <1>10, <1>11, <1>12, BecomeFits


\* The clock changes a descriptor that may be free.
LEMMA OneDescriptorFits ==
    ASSUME NEW ip, NEW sv, NEW s \in Sessions, EngineFits(ip, {}, sv),
           NEW r, Counted(r), r.state = ip.session[s].state, r.inbound = ip.session[s].inbound,
           r.interest = ip.session[s].interest, r.numFlags = ip.session[s].numFlags
    PROVE  EngineFits([ip EXCEPT !.session = [ip.session EXCEPT ![s] = r]], {}, sv)
  <1> DEFINE new == [ip.session EXCEPT ![s] = r]
             n == [ip EXCEPT !.session = new]
  <1>1. ip \in Engines /\ r \in SessionState
    BY DEF EngineFits, Counted
  <1>2. new \in [Sessions -> SessionState] /\ new[s] = r
        /\ \A t \in Sessions \ {s} : new[t] = ip.session[t]
    BY <1>1 DEF Engines
  <1> HIDE DEF new
  <1>3. n \in Engines /\ n.session = new /\ n.timers = ip.timers
        /\ n.engine = ip.engine /\ n.numSessions = ip.numSessions /\ n.listener = ip.listener
    BY <1>1, <1>2 DEF Engines
  <1> HIDE DEF n
  <1>4. ASSUME NEW t \in Sessions
        PROVE  /\ n.session[t].state = ip.session[t].state
               /\ Counted(n.session[t])
               /\ Served(n, t)
    <2>1. Served(ip, t) /\ Counted(ip.session[t])
      BY DEF EngineFits
    <2>2. CASE t = s
      BY <1>2, <1>3, <2>1, <2>2 DEF Served, Quiet
    <2>3. CASE t # s
      BY <1>2, <1>3, <2>1, <2>3 DEF Served
    <2>4. QED
      BY <2>2, <2>3
  <1>5. Taken(n) = Taken(ip)
    BY <1>4 DEF Taken
  <1>6. Runs(n, sv)
    BY <1>3, <1>4 DEF Runs, EngineFits
  <1>7. \A t \in Sessions : n.session[t].state = "closed" => "garbageCollection" \in n.timers
    BY <1>3, <1>4 DEF EngineFits
  <1>8. EngineFits(n, {}, sv)
    BY <1>3, <1>4, <1>5, <1>6, <1>7 DEF EngineFits
  <1>9. QED
    BY <1>8 DEF n, new

LEMMA HeardFits ==
    ASSUME ServerInv, NEW s \in Sessions, session[s].state # "free"
    PROVE  /\ HandledBy(Heard(s), s, server)
           /\ Heard(s).session[s].state = session[s].state
  <1> DEFINE r == session[s]
             q == [r EXCEPT !.silent = FALSE]
  <1>1. EngineFits(IP, {}, server) /\ IP \in Engines /\ IP.session = session
    BY EngineIs
  <1>2. r \in SessionState /\ Counted(r)
    BY <1>1 DEF EngineFits, Engines
  <1>3. Heard(s) = [IP EXCEPT !.session = [IP.session EXCEPT ![s] = q]]
    BY <1>1 DEF Heard
  <1> HIDE DEF r
  <1>4. q \in SessionState /\ q.flags = r.flags /\ q.subscribed = r.subscribed
        /\ q.numFlags = r.numFlags /\ q.state = r.state
    BY <1>2 DEF SessionState
  <1> HIDE DEF q
  <1>5. Counted(q)
    BY <1>2, <1>4 DEF Counted
  <1>6. q.state = IP.session[s].state /\ IP.session[s].state # "free"
    BY <1>1, <1>4 DEF r
  <1>7. EngineFits(IP, {s}, server)
    BY <1>1 DEF EngineFits
  <1>8. q.state \notin {"free", "closed"} \/ q.state = IP.session[s].state
    BY <1>6
  <1> DEFINE ip == IP
  <1>9. EngineFits(ip, {s}, server) /\ ip.session[s].state # "free"
        /\ (q.state \notin {"free", "closed"} \/ q.state = ip.session[s].state)
        /\ Heard(s) = [ip EXCEPT !.session = [ip.session EXCEPT ![s] = q]]
    BY <1>3, <1>6, <1>7, <1>8
  <1> HIDE DEF ip
  <1>10. EngineFits(Heard(s), {s}, server) /\ Heard(s).session[s] = q
    BY <1>5, <1>9, DescriptorFits
  <1>11. QED
    BY <1>1, <1>6, <1>10 DEF HandledBy

LEMMA BytesAvailableFits ==
    ASSUME ServerInv, NEW s \in Sessions, BytesAvailable(s)
    PROVE  ServerInv'
  <1>1. session[s].state = "reading"
    BY EngineIs DEF BytesAvailable, EngineFits, Served, InterestIn
  <1>2. Handling(Heard(s), s, server)
    BY <1>1, HeardFits DEF HandledBy, Handling
  <1>3. PICK i \in ReadInboundData(Heard(s), s) : \E n \in Progressed(i, s) : Become(n)
    BY DEF BytesAvailable
  <1>4. PICK n \in Progressed(i, s) : Become(n)
    BY <1>3
  <1>5. HandledBy(i, s, server)
    BY <1>2, ReadInboundDataFits
  <1>6. EngineFits(n, {}, server)
    BY <1>5, ProgressedFits
  <1>7. QED
    BY <1>4, <1>6, BecomeFits

LEMMA SpaceAvailableFits ==
    ASSUME ServerInv, NEW s \in Sessions, SpaceAvailable(s)
    PROVE  ServerInv'
  <1>1. session[s].state = "writing"
    BY EngineIs DEF SpaceAvailable, EngineFits, Served, InterestIn
  <1>2. HandledBy(Heard(s), s, server)
    BY <1>1, HeardFits
  <1>3. PICK i \in WriteOutboundData(Heard(s), s) : \E n \in Progressed(i, s) : Become(n)
    BY DEF SpaceAvailable
  <1>4. PICK n \in Progressed(i, s) : Become(n)
    BY <1>3
  <1>5. HandledBy(i, s, server)
    BY <1>2, WriteOutboundDataFits
  <1>6. EngineFits(n, {}, server)
    BY <1>5, ProgressedFits
  <1>7. QED
    BY <1>4, <1>6, BecomeFits

LEMMA TimePassesFits ==
    ASSUME ServerInv, NEW s \in Sessions, TimePasses(s)
    PROVE  ServerInv'
  <1> DEFINE r == session[s]
             over == [r EXCEPT !.delayed = FALSE]
             silent == [r EXCEPT !.silent = TRUE]
  <1>1. EngineFits(IP, {}, server) /\ IP \in Engines /\ IP.session = session
    BY EngineIs
  <1>2. r \in SessionState /\ Counted(r)
    BY <1>1 DEF EngineFits, Engines
  <1>3. \/ Become([IP EXCEPT !.session = [IP.session EXCEPT ![s] = over]])
        \/ Become([IP EXCEPT !.session = [IP.session EXCEPT ![s] = silent]])
    BY <1>1 DEF TimePasses, DelayOver, FallSilent
  <1> HIDE DEF r
  <1>4. \A q \in {over, silent} :
            /\ q \in SessionState /\ q.flags = r.flags
            /\ q.subscribed = r.subscribed /\ q.numFlags = r.numFlags /\ q.state = r.state
            /\ q.inbound = r.inbound /\ q.interest = r.interest
    BY <1>2 DEF SessionState
  <1>5. PICK q \in {over, silent} :
            Become([IP EXCEPT !.session = [IP.session EXCEPT ![s] = q]])
    BY <1>3
  <1> HIDE DEF over, silent
  <1>6. Counted(q)
    BY <1>2, <1>4 DEF Counted
  <1>7. EngineFits([IP EXCEPT !.session = [IP.session EXCEPT ![s] = q]], {}, server)
    <2>1. q.state = IP.session[s].state /\ q.inbound = IP.session[s].inbound
          /\ q.interest = IP.session[s].interest /\ q.numFlags = IP.session[s].numFlags
      BY <1>1, <1>4 DEF r
    <2>2. QED
      BY <1>1, <1>6, <2>1, OneDescriptorFits
  <1>8. QED
    BY <1>5, <1>7, BecomeFits


LEMMA ProcessTimerFits ==
    ASSUME ServerInv, ProcessTimer
    PROVE  ServerInv'
  <1> DEFINE processing == {s \in Sessions : session[s].state = "processing"}
             others == timers \ {"process"}
  <1>1. EngineFits(IP, {}, server) /\ IP \in Engines
        /\ IP.session = session /\ IP.timers = timers /\ IP.engine = engine
        /\ IP.listener = listener /\ IP.numSessions = numSessions
    BY EngineIs
  <1>2. others \in SUBSET Timers /\ Fired("process") = [IP EXCEPT !.timers = others]
    BY <1>1 DEF Fired, Engines
  <1> DEFINE fired == [IP EXCEPT !.timers = others]
  <1>3. fired \in Engines /\ fired.timers = others /\ fired.session = session
        /\ fired.engine = engine /\ fired.listener = listener /\ fired.numSessions = numSessions
    BY <1>1, <1>2 DEF Engines
  <1>4. \/ engine # "running" /\ Become(fired)
        \/ engine = "running" /\ \E f \in [processing -> UNION {Reprocessed(session[s]) : s \in processing}] :
              /\ \A s \in processing : f[s] \in Reprocessed(session[s])
              /\ \E i \in {HandledAgain(fired, f)}
                          \cup UNION {UnsecuredRequests(HandledAgain(fired, f), s) : s \in processing} :
                     Become(i)
    BY <1>2 DEF ProcessTimer
  <1> HIDE DEF fired
  <1>5. \A x : x \in others <=> x \in timers /\ x # "process"
    OBVIOUS
  <1> HIDE DEF others
  <1>6. CASE engine # "running" /\ Become(fired)
    <2>1. Taken(fired) = Taken(IP)
      BY <1>1, <1>3 DEF Taken
    <2>2. \A t \in Sessions : Served(fired, t)
      BY <1>1, <1>3, <1>5, <1>6 DEF EngineFits, Served
    <2>3. Runs(fired, server)
      BY <1>1, <1>3, <1>5 DEF EngineFits, Runs
    <2>4. EngineFits(fired, {}, server)
      BY <1>1, <1>3, <1>5, <2>1, <2>2, <2>3 DEF EngineFits
    <2>5. QED
      BY <1>6, <2>4, BecomeFits
  <1>7. CASE engine = "running" /\ \E f \in [processing -> UNION {Reprocessed(session[s]) : s \in processing}] :
              /\ \A s \in processing : f[s] \in Reprocessed(session[s])
              /\ \E i \in {HandledAgain(fired, f)}
                          \cup UNION {UnsecuredRequests(HandledAgain(fired, f), s) : s \in processing} :
                     Become(i)
    <2>1. PICK f \in [processing -> UNION {Reprocessed(session[s]) : s \in processing}] :
              /\ \A s \in processing : f[s] \in Reprocessed(session[s])
              /\ \E i \in {HandledAgain(fired, f)}
                          \cup UNION {UnsecuredRequests(HandledAgain(fired, f), s) : s \in processing} :
                     Become(i)
      BY <1>7
    <2> DEFINE new == [s \in Sessions |-> IF s \in processing THEN f[s] ELSE session[s]]
               more == others \cup (IF \E s \in processing : f[s].state = "processing"
                                    THEN {"process"} ELSE {})
               n == [fired EXCEPT !.session = new, !.timers = more]
    <2>2. n = HandledAgain(fired, f)
      <3>1. DOMAIN f = processing
        OBVIOUS
      <3>2. QED
        BY <1>3, <3>1 DEF HandledAgain
    <2>20. PICK i \in {n} \cup UNION {UnsecuredRequests(n, s) : s \in processing} : Become(i)
      <3>1. \E i \in {n} \cup UNION {UnsecuredRequests(n, s) : s \in processing} : Become(i)
        <4> HIDE DEF n
        <4>1. QED
          BY <2>1, <2>2
      <3>2. QED
        BY <3>1
    <2>3. ASSUME NEW s \in Sessions
          PROVE  /\ new[s] \in SessionState /\ Counted(new[s])
                 /\ new[s].state = "free" <=> session[s].state = "free"
                 /\ \/ new[s] = session[s]
                    \/ new[s].state = "writing" /\ new[s].interest = "space"
                 /\ new[s].state = "processing" => "process" \in more
      <3>1. session[s] \in SessionState /\ Counted(session[s])
        BY <1>1 DEF EngineFits, Engines
      <3>2. CASE s \notin processing
        BY <3>1, <3>2
      <3>3. CASE s \in processing
        <4>1. new[s] = f[s] /\ f[s] \in Reprocessed(session[s]) /\ session[s].state = "processing"
          BY <2>1, <3>3
        <4>2. CASE f[s] = session[s]
          BY <3>1, <3>3, <4>1, <4>2
        <4>3. CASE \E b \in BOOLEAN :
                     f[s] = [session[s] EXCEPT !.state = "writing", !.inbound = b, !.interest = "space"]
          <5> DEFINE r == session[s]
                     q == f[s]
          <5>1. PICK b \in BOOLEAN : q = [r EXCEPT !.state = "writing", !.inbound = b, !.interest = "space"]
            BY <4>3
          <5>2. r \in SessionState /\ Counted(r)
            BY <3>1
          <5> HIDE DEF r, q
          <5>3. q \in SessionState /\ q.flags = r.flags
                /\ q.subscribed = r.subscribed /\ q.numFlags = r.numFlags
                /\ q.state = "writing" /\ q.interest = "space"
            BY <5>1, <5>2 DEF SessionState
          <5>4. Counted(q)
            BY <5>2, <5>3 DEF Counted
          <5>5. new[s] = q
            BY <4>1 DEF q
          <5> HIDE DEF new
          <5>6. QED
            BY <4>1, <5>3, <5>4, <5>5
        <4>4. QED
          BY <4>1, <4>2, <4>3 DEF Reprocessed
      <3>4. QED
        BY <3>2, <3>3
    <2>4. new \in [Sessions -> SessionState]
      BY <2>3
    <2>5. more \in SUBSET Timers /\ (\A x \in others : x \in more)
          /\ (\A x \in more : x = "process" \/ x \in others)
      BY <1>2 DEF Timers
    <2> HIDE DEF new, more
    <2>6. n \in Engines /\ n.session = new /\ n.timers = more
          /\ n.engine = IP.engine /\ n.numSessions = IP.numSessions /\ n.listener = IP.listener
      BY <1>1, <1>3, <2>4, <2>5 DEF Engines
    <2> HIDE DEF n
    <2>7. Follows(IP, n)
      BY <1>1, <1>5, <2>3, <2>5, <2>6 DEF Follows
    <2>8. ASSUME NEW t \in Sessions PROVE Served(n, t)
      <3>1. Served(IP, t)
        BY <1>1 DEF EngineFits
      <3>2. CASE new[t] = session[t]
        BY <1>1, <1>5, <2>3, <2>5, <2>6, <3>1, <3>2 DEF Served
      <3>3. CASE new[t].state = "writing" /\ new[t].interest = "space"
        BY <2>6, <3>3 DEF Served, Quiet, InterestIn
      <3>4. QED
        BY <2>3, <3>2, <3>3
    <2>9. \A t \in Sessions : n.session[t].state = "closed" => "garbageCollection" \in n.timers
      BY <1>1, <1>5, <2>3, <2>5, <2>6 DEF EngineFits
    <2>10. \A t \in Sessions : Counted(n.session[t])
      BY <2>3, <2>6
    <2>11. EngineFits(n, {}, server)
      BY <1>1, <1>7, <2>7, <2>8, <2>9, <2>10, FollowsFits
    <2>12. EngineFits(i, {}, server)
      <3>1. \/ i = n
            \/ \E t \in Sessions : n.session[t].state # "free" /\ i = CloseSession(n, t)
        BY <2>20 DEF UnsecuredRequests
      <3>2. ASSUME NEW t \in Sessions, n.session[t].state # "free", i = CloseSession(n, t)
            PROVE  EngineFits(i, {}, server)
        <4>1. EngineFits(i, {} \ {t}, server)
          BY <2>11, <3>2, CloseSessionFits
        <4>2. {} \ {t} = {}
          OBVIOUS
        <4>3. QED
          BY <4>1, <4>2
      <3>3. QED
        BY <2>11, <3>1, <3>2
    <2>13. QED
      BY <2>12, <2>20, BecomeFits
  <1>8. QED
    BY <1>4, <1>6, <1>7

LEMMA TimerFits ==
    ASSUME ServerInv, TimerStep
    PROVE  ServerInv'
  <1>1. EngineFits(IP, {}, server) /\ IP \in Engines
        /\ IP.session = session /\ IP.timers = timers /\ IP.engine = engine
        /\ IP.listener = listener /\ IP.numSessions = numSessions
    BY EngineIs
  <1>2. server \in {"idle", "running", "stopping"}
    BY DEF ServerInv
  <1>3. CASE GarbageCollectionTimer
    <2>1. EngineFits(CollectGarbage(IP), {}, server)
      BY <1>1, <1>2, <1>3, CollectGarbageFits DEF GarbageCollectionTimer
    <2>2. QED
      BY <1>3, <2>1, BecomeFits DEF GarbageCollectionTimer
  <1>4. CASE MaxIdleTimeTimer
    <2>1. IP.engine # "idle"
      BY <1>1, <1>4 DEF MaxIdleTimeTimer, EngineFits, Runs
    <2>2. EngineFits(ScheduleMaxIdleTime(IP), {}, server)
      BY <1>1, <2>1, ScheduleMaxIdleTimeFits
    <2>3. QED
      BY <1>4, <2>2, BecomeFits DEF MaxIdleTimeTimer
  <1>5. CASE StateTransitionTimer
    <2> DEFINE others == timers \ {"stateTransition"}
               fired == [IP EXCEPT !.timers = others]
    <2>1. others \in SUBSET Timers /\ (\A x : x \in others <=> x \in timers /\ x # "stateTransition")
      BY <1>1 DEF Engines
    <2>2. fired = Fired("stateTransition")
      BY <1>1 DEF Fired
    <2> HIDE DEF others
    <2>3. fired \in Engines /\ fired.timers = others /\ fired.session = IP.session
          /\ fired.engine = IP.engine /\ fired.listener = IP.listener /\ fired.numSessions = IP.numSessions
      BY <1>1, <2>1 DEF Engines
    <2> HIDE DEF fired
    <2>4. IP.engine # "idle"
      BY <1>1, <1>5 DEF StateTransitionTimer, EngineFits, Runs
    <2>5. Follows(IP, fired)
      BY <2>1, <2>3 DEF Follows
    <2>6. \A t \in Sessions : Served(fired, t)
      BY <1>1, <2>1, <2>3 DEF EngineFits, Served
    <2>7. /\ \A t \in Sessions : Counted(fired.session[t])
          /\ \A t \in Sessions : fired.session[t].state = "closed" => "garbageCollection" \in fired.timers
      BY <1>1, <2>1, <2>3 DEF EngineFits
    <2>8. EngineFits(fired, {}, server)
      BY <1>1, <2>4, <2>5, <2>6, <2>7, FollowsFits
    <2>9. EngineFits(ScheduleMaxIdleTime(fired), {}, server)
      BY <2>3, <2>4, <2>8, ScheduleMaxIdleTimeFits
    <2>10. Become(ScheduleMaxIdleTime(fired))
      BY <1>5, <2>2 DEF StateTransitionTimer
    <2>11. QED
      BY <2>9, <2>10, BecomeFits
  <1>6. CASE EventNotificationTimer
    <2>1. PICK i \in ScheduleEventNotifications(IP) : Become(i)
      BY <1>6 DEF EventNotificationTimer
    <2>2. EngineFits(i, {}, server)
      BY <1>1, ScheduleEventNotificationsFits
    <2>3. QED
      BY <2>1, <2>2, BecomeFits
  <1>7. CASE ProcessTimer
    BY <1>7, ProcessTimerFits
  <1>8. CASE CallbackTimer
    <2> DEFINE n == IP'
               others == timers \ {"callback"}
    <2>1. others \in SUBSET Timers /\ (\A x : x \in others <=> x \in timers /\ x # "callback")
      BY <1>1 DEF Engines
    <2>2. n.timers = others /\ n.session = IP.session /\ n.engine = IP.engine
          /\ n.listener = IP.listener /\ n.numSessions = IP.numSessions
      BY <1>1, <1>8 DEF CallbackTimer, IP
    <2> HIDE DEF others
    <2>3. n \in Engines
      BY <1>1, <2>1, <2>2 DEF Engines, IP
    <2>4. server' = IF IP.engine = "idle" THEN "idle" ELSE server
      BY <1>1, <1>8 DEF CallbackTimer
    <2> HIDE DEF n
    <2>5. Taken(n) = Taken(IP)
      BY <2>2 DEF Taken
    <2>6. \A t \in Sessions : Served(n, t)
      BY <1>1, <2>1, <2>2 DEF EngineFits, Served
    <2>7. Runs(n, server')
      BY <1>1, <2>1, <2>2, <2>4 DEF EngineFits, Runs
    <2>8. EngineFits(n, {}, server')
      BY <1>1, <2>1, <2>2, <2>3, <2>5, <2>6, <2>7 DEF EngineFits
    <2>9. server' \in {"idle", "running", "stopping"}
      BY <1>2, <2>4
    <2>10. QED
      BY <2>8, <2>9 DEF ServerInv, n
  <1>9. QED
    BY <1>3, <1>4, <1>5, <1>6, <1>7, <1>8 DEF TimerStep


LEMMA RaiseEventFits ==
    ASSUME ServerInv, NEW c \in Characteristics, RaiseEvent(c)
    PROVE  ServerInv'
  <1>1. EngineFits(IP, {}, server) /\ IP.engine # "idle"
    BY EngineIs DEF RaiseEvent
  <1>2. EngineFits(RaisedEvent(IP, c, {}), {}, server)
    BY <1>1, RaisedEventFits
  <1>3. QED
    BY <1>2, BecomeFits DEF RaiseEvent

LEMMA StartFits ==
    ASSUME ServerInv, Start
    PROVE  ServerInv'
  <1> DEFINE n == IP'
             more == timers \cup {"callback"}
             new == [s \in Sessions |-> Free]
  <1>1. EngineFits(IP, {}, server) /\ IP \in Engines
        /\ IP.session = session /\ IP.timers = timers /\ IP.engine = engine
        /\ IP.listener = listener /\ IP.numSessions = numSessions
    BY EngineIs
  <1>2. Counted(Free) /\ Free \in SessionState /\ Free.state = "free" /\ Free.interest = "none"
    BY FreeFits DEF Counted
  <1>3. server = "idle" /\ server' = "running"
    BY DEF Start
  <1>4. IP.engine = "idle" /\ \A s \in Sessions : session[s].state = "free"
    BY <1>1, <1>3 DEF EngineFits, Runs
  <1>5. more \in SUBSET Timers /\ ("stateTransition" \in more => "stateTransition" \in timers)
        /\ new \in [Sessions -> SessionState] /\ \A s \in Sessions : new[s] = Free
    BY <1>1, <1>2 DEF Engines, Timers
  <1>6. n.timers = more /\ n.session = new /\ n.engine = "running" /\ n.listener = TRUE
        /\ n.numSessions = numSessions
    BY DEF Start, IP
  <1> HIDE DEF more, new
  <1>7. n \in Engines
    <2>1. numSessions \in 0 .. Cardinality(Sessions)
      BY <1>1 DEF Engines
    <2>2. n = [session |-> new, numSessions |-> numSessions, timers |-> more,
               listener |-> TRUE, engine |-> "running"]
      BY <1>6 DEF IP
    <2> HIDE DEF n
    <2>3. QED
      BY <1>5, <2>1, <2>2 DEF Engines
  <1> HIDE DEF n
  <1>8. Taken(n) = {} /\ Taken(IP) = {}
    BY <1>1, <1>2, <1>4, <1>5, <1>6 DEF Taken
  <1>9. numSessions = Cardinality(Taken(n))
    BY <1>1, <1>8 DEF EngineFits
  <1>10. \A s \in Sessions : Served(n, s)
    BY <1>2, <1>5, <1>6 DEF Served, Quiet, InterestIn
  <1>11. Runs(n, "running")
    <2>1. "stateTransition" \notin n.timers
      BY <1>1, <1>4, <1>5, <1>6 DEF EngineFits, Runs
    <2>2. QED
      BY <1>6, <2>1 DEF Runs
  <1>12. /\ \A s \in Sessions : Counted(n.session[s])
         /\ \A s \in Sessions : n.session[s].state # "closed"
    BY <1>2, <1>5, <1>6
  <1>13. EngineFits(n, {}, "running")
    BY <1>6, <1>7, <1>9, <1>10, <1>11, <1>12 DEF EngineFits
  <1>14. QED
    BY <1>3, <1>13 DEF ServerInv, n

LEMMA StopFits ==
    ASSUME ServerInv, Stop
    PROVE  ServerInv'
  <1> DEFINE n == IP'
             more == timers \cup {"callback", "stateTransition"}
  <1>1. EngineFits(IP, {}, server) /\ IP \in Engines
        /\ IP.session = session /\ IP.timers = timers /\ IP.engine = engine
        /\ IP.listener = listener /\ IP.numSessions = numSessions
    BY EngineIs
  <1>2. server = "running" /\ server' = "stopping"
    BY DEF Stop
  <1>3. IP.engine = "running"
    BY <1>1, <1>2 DEF EngineFits, Runs
  <1>4. more \in SUBSET Timers /\ \A x \in timers : x \in more
    BY <1>1 DEF Engines, Timers
  <1>5. n.timers = more /\ n.session = session /\ n.engine = "stopping" /\ n.listener = listener
        /\ n.numSessions = numSessions
    BY DEF Stop, IP
  <1> HIDE DEF more
  <1>6. n \in Engines
    <2>1. numSessions \in 0 .. Cardinality(Sessions) /\ session \in [Sessions -> SessionState]
          /\ listener \in BOOLEAN
      BY <1>1 DEF Engines
    <2>2. n = [session |-> session, numSessions |-> numSessions, timers |-> more,
               listener |-> listener, engine |-> "stopping"]
      BY <1>5 DEF IP
    <2> HIDE DEF n
    <2>3. QED
      BY <1>4, <2>1, <2>2 DEF Engines
  <1> HIDE DEF n
  <1>7. Taken(n) = Taken(IP)
    BY <1>1, <1>5 DEF Taken
  <1>8. \A s \in Sessions : Served(n, s)
    BY <1>1, <1>4, <1>5 DEF EngineFits, Served
  <1>9. Runs(n, "stopping")
    BY <1>1, <1>3, <1>5 DEF EngineFits, Runs
  <1>10. EngineFits(n, {}, "stopping")
    BY <1>1, <1>4, <1>5, <1>6, <1>7, <1>8, <1>9 DEF EngineFits
  <1>11. QED
    BY <1>2, <1>10 DEF ServerInv, n

LEMMA NextKeepsServerInv == ServerInv /\ [Next]_vars => ServerInv'
  <1> SUFFICES ASSUME ServerInv, [Next]_vars PROVE ServerInv'
    OBVIOUS
  <1>1. ASSUME NEW s \in Sessions, StreamStep(s) PROVE ServerInv'
    BY <1>1, AcceptTCPStreamFits, BytesAvailableFits, SpaceAvailableFits DEF StreamStep
  <1>2. ASSUME NEW s \in Sessions, TimePasses(s) PROVE ServerInv'
    BY <1>2, TimePassesFits
  <1>3. CASE TimerStep
    BY <1>3, TimerFits
  <1>4. ASSUME NEW c \in Characteristics, RaiseEvent(c) PROVE ServerInv'
    BY <1>4, RaiseEventFits
  <1>5. CASE Start
    BY <1>5, StartFits
  <1>6. CASE Stop
    BY <1>6, StopFits
  <1>7. CASE UNCHANGED vars
    <2>1. IP' = IP /\ server' = server
      BY <1>7 DEF vars, IP
    <2>2. QED
      BY <2>1 DEF ServerInv
  <1>8. QED
    BY <1>1, <1>2, <1>3, <1>4, <1>5, <1>6, <1>7 DEF Next

LEMMA SpecServerInv == Spec => []ServerInv
  BY InitServerInv, NextKeepsServerInv, PTL DEF Spec

-----------------------------------------------------------------------------
(* Theorems *)

\* Whatever a subscriber asks for, whoever raises events and whenever answers are
\* sent, a change that a session has not been told of is flagged, and both counters
\* agree with what they count: the assertions on them in CloseSession,
\* collect_garbage, write_event_notifications and handle_characteristic_unsubscribe_request
\* hold for every number of sessions and characteristics.
THEOREM CountersAgree == Spec => []ChangesAreCounted
  <1>1. ServerInv => ChangesAreCounted
    BY EngineIs DEF ServerInv, EngineFits, Engines, Counted, Taken, ChangesAreCounted, WellTyped
  <1>2. QED
    BY <1>1, SpecServerInv, PTL

\* The callback each session needs next is registered: the interest of its stream,
\* and the timer that serves it.
THEOREM NoSessionIsLost == Spec => []EverySessionIsServed
  <1>1. ServerInv => EverySessionIsServed
    BY EngineIs DEF EngineFits, Served, EverySessionIsServed
  <1>2. QED
    BY <1>1, SpecServerInv, PTL

\* The engine becomes idle only when every descriptor is free and no timer that
\* would close one is left; a listener never outlives it.
THEOREM IdleServerIsClean == Spec => []IdleIsClean
  <1>1. ServerInv => IdleIsClean
    BY EngineIs DEF EngineFits, Runs, IdleIsClean
  <1>2. QED
    BY <1>1, SpecServerInv, PTL


====
