--------------------------- MODULE RunLoopProofs ---------------------------
(* Theorems about RunLoop: what the loop calls is due, current and in order, whatever its
   callbacks register, deregister, accept, close and schedule.  A callback is any operation
   on the loop and the streams; each of them is shown to keep every part of the invariant. *)
EXTENDS RunLoop, FiniteSetTheorems, SequenceTheorems, WellFoundedInduction, TLAPS

-----------------------------------------------------------------------------
(* The invariant *)

Fields ==
    {"phase", "running", "handles", "cursor", "ready", "timers", "numTimers", "now", "expiry",
     "pipe", "bytes", "scheduled", "numCalled", "selected", "last"}

Owner == [kind : {"pipe", "listener", "stream"}, number : Nat]
Handle == [owner : Owner, fd : Nat, interests : SUBSET {"read", "write"}, awaiting : BOOLEAN]
Timer == [number : Nat, deadline : Nat, asked : Nat]
Units == [number : Nat, part : Nat]

\* The places where the loop is, between callbacks.
ControlFits(l) ==
    /\ DOMAIN l = Fields
    /\ l.phase \in {"select", "timers", "handles", "messages", "idle", "undefined", "aborted"}
    /\ l.phase = "select" => l.last = NoCall
    /\ l.cursor \in Nat \ {0}
    /\ l.now \in Nat /\ l.expiry \in Nat /\ l.expiry <= l.now

\* Streams that are open have numbers of their own, and none that are still to be accepted.
ManagerFits(m) ==
    /\ DOMAIN m = {"most", "listening", "streams", "numAccepted"}
    /\ m.listening \in BOOLEAN /\ m.numAccepted \in Nat
    /\ m.streams \in [1..MaxStreams -> 0..m.numAccepted]
    /\ \A i, j \in 1..MaxStreams : m.streams[i] # NoStream /\ m.streams[i] = m.streams[j] => i = j

OwnersOf(m) ==
    {SelfPipe} \cup {o \in {Listener} : m.listening}
    \cup {Stream(m, i) : i \in {j \in 1..MaxStreams : m.streams[j] # NoStream}}

Wanted(m) == IF NumStreams(m) < MaxStreams THEN {"read"} ELSE {}

\* The owners have one file handle each; the listener wants what it should; and what select
\* has reported of a file handle that awaits it was reported to its owner.
AreHandles(handles, ready, selected, owners, wanted) ==
    /\ handles \in Seq(Handle)
    /\ \A i, j \in DOMAIN handles : handles[i].owner = handles[j].owner => i = j
    /\ \A i \in DOMAIN handles : handles[i].owner \in owners
    /\ \A o \in owners : \E i \in DOMAIN handles : handles[i].owner = o
    /\ \A i \in DOMAIN handles : handles[i].owner = Listener => handles[i].interests = wanted
    /\ \A i \in DOMAIN handles : handles[i].awaiting =>
            \A e \in {"read", "write"} :
                <<handles[i].fd, e>> \in ready => <<handles[i].owner, e>> \in selected

\* They are the pipe's, the listener's and those of the open streams; and the listener wants
\* streams as long as there is room.
HandlesFit(l, m) == AreHandles(l.handles, l.ready, l.selected, OwnersOf(m), Wanted(m))

EventsFit(l) ==
    l.last.kind \in {"stream", "listener"} => \A e \in l.last.events : <<l.last.owner, e>> \in l.selected

\* Timer t is to fire before timer u.
Before(t, u) == t.asked < u.asked \/ (t.asked = u.asked /\ (t.asked = 0 \/ t.number < u.number))

TimersFit(l) ==
    /\ l.timers \in Seq(Timer) /\ l.numTimers \in Nat
    /\ \A i \in DOMAIN l.timers :
            /\ l.timers[i].number <= l.numTimers
            /\ l.timers[i].deadline = IF l.timers[i].asked = 0 THEN 1 ELSE l.timers[i].asked
    /\ \A i, j \in DOMAIN l.timers : i < j => Before(l.timers[i], l.timers[j])
    /\ l.last.kind = "timer" =>
            /\ l.last.timer \in Timer /\ l.last.timer.deadline <= l.now
            /\ l.last.numTimers \in Nat /\ l.last.numTimers <= l.numTimers
            /\ \A i \in DOMAIN l.timers :
                    l.timers[i].number <= l.last.numTimers => Before(l.last.timer, l.timers[i])

\* Unit i is one of a whole message, which is the last or followed by the next one.
IsOfMessage(units, i, scheduled) ==
    LET k == units[i].number
        first == i - units[i].part
        end == first + scheduled[k]
    IN /\ k \in 1..Len(scheduled) /\ units[i].part \in 0..scheduled[k]
       /\ first >= 1 /\ end <= Len(units)
       /\ \A part \in 0..scheduled[k] : units[first + part] = Unit(k, part)
       /\ IF end = Len(units) THEN k = Len(scheduled) ELSE units[end + 1] = Unit(k + 1, 0)

\* The units are the messages that were scheduled after the first n.
AreMessages(units, n, scheduled) ==
    /\ units \in Seq(Units) /\ n \in 0..Len(scheduled)
    /\ IF units = <<>> THEN n = Len(scheduled) ELSE units[1] = Unit(n + 1, 0)
    /\ \A i \in 1..Len(units) : IsOfMessage(units, i, scheduled)

\* No size is too great for a char.
FitChar(scheduled) == \A i \in DOMAIN scheduled : ~IsNegative(scheduled[i])

\* A message that is never whole takes the room of those behind it.
MessagesFit(l) ==
    /\ l.scheduled \in Seq(0..MaxContext)
    /\ l.pipe \in Seq(Units) /\ l.bytes \in Seq(Units)
    /\ Len(l.bytes) <= 1 + MaxContext
    /\ l.phase # "messages" /\ FitChar(l.scheduled) => Len(l.bytes) <= MaxContext
    /\ AreMessages(l.bytes \o l.pipe, l.numCalled, l.scheduled)
    /\ l.phase = "undefined" => ~FitChar(l.scheduled)
    /\ l.last.kind = "message" /\ l.phase # "undefined" =>
            /\ l.last.header = Unit(l.numCalled, 0) /\ l.numCalled >= 1
            /\ <<l.last.header>> \o l.last.context = Message(l.numCalled, l.scheduled[l.numCalled])

Fits(l, m) ==
    ControlFits(l) /\ ManagerFits(m) /\ HandlesFit(l, m) /\ EventsFit(l) /\ TimersFit(l) /\ MessagesFit(l)

LoopInv == Fits(loop, manager)

-----------------------------------------------------------------------------
(* Sequences and numbers *)

LEMMA Cut ==
    ASSUME NEW S, NEW s \in Seq(S), NEW i \in 1..(Len(s) + 1)
    PROVE  /\ Len(s) \in Nat /\ i \in Nat /\ i >= 1
           /\ SubSeq(s, 1, i - 1) \in Seq(S) /\ Len(SubSeq(s, 1, i - 1)) = i - 1
           /\ \A j \in 1..(i - 1) : SubSeq(s, 1, i - 1)[j] = s[j]
           /\ SubSeq(s, i, Len(s)) \in Seq(S) /\ Len(SubSeq(s, i, Len(s))) = Len(s) + 1 - i
           /\ \A j \in 1..(Len(s) + 1 - i) : SubSeq(s, i, Len(s))[j] = s[i - 1 + j]
  <1>1. Len(s) \in Nat /\ i \in Nat /\ i >= 1 /\ i <= Len(s) + 1
    OBVIOUS
  <1>2. \A j \in 1..(i - 1) : s[j] \in S
    BY <1>1
  <1>3. \A j \in i..Len(s) : s[j] \in S
    BY <1>1
  <1>4. /\ SubSeq(s, 1, i - 1) \in Seq(S) /\ Len(SubSeq(s, 1, i - 1)) = i - 1
        /\ \A j \in 1..(i - 1) : SubSeq(s, 1, i - 1)[j] = s[j]
    BY <1>1, <1>2
  <1>5. /\ SubSeq(s, i, Len(s)) \in Seq(S) /\ Len(SubSeq(s, i, Len(s))) = Len(s) + 1 - i
        /\ \A j \in 1..(Len(s) + 1 - i) : SubSeq(s, i, Len(s))[j] = s[i - 1 + j]
    BY <1>1, <1>3
  <1>6. QED
    BY <1>1, <1>4, <1>5

IsRemoved(s, i, r) ==
    /\ Len(r) = Len(s) - 1
    /\ \A j \in 1..(i - 1) : r[j] = s[j]
    /\ \A j \in i..(Len(s) - 1) : r[j] = s[j + 1]

LEMMA Removed ==
    ASSUME NEW S, NEW s \in Seq(S), NEW i \in 1..Len(s)
    PROVE  RemoveAt(s, i) \in Seq(S) /\ IsRemoved(s, i, RemoveAt(s, i))
  <1> DEFINE a == SubSeq(s, 1, i - 1)
             b == SubSeq(s, i + 1, Len(s))
             n == Len(s)
  <1>1. n \in Nat /\ i \in Nat /\ i >= 1 /\ i <= n /\ i \in 1..(Len(s) + 1) /\ i + 1 \in 1..(Len(s) + 1)
    OBVIOUS
  <1>2. a \in Seq(S) /\ Len(a) = i - 1 /\ \A j \in 1..(i - 1) : a[j] = s[j]
    BY <1>1, Cut
  <1>3. b \in Seq(S) /\ Len(b) = n - i /\ \A j \in 1..(n - i) : b[j] = s[i + j]
    BY <1>1, Cut
  <1> HIDE DEF a, b, n
  <1>4. /\ a \o b \in Seq(S) /\ Len(a \o b) = Len(a) + Len(b)
        /\ \A j \in 1..Len(a) : (a \o b)[j] = a[j]
        /\ \A j \in 1..Len(b) : (a \o b)[Len(a) + j] = b[j]
    <2>1. a \in Seq(S) /\ b \in Seq(S)
      BY <1>2, <1>3
    <2>2. QED
      BY <2>1
  <1>5. Len(a \o b) = n - 1
    BY <1>1, <1>2, <1>3, <1>4
  <1>6. \A j \in 1..(i - 1) : (a \o b)[j] = s[j]
    BY <1>1, <1>2, <1>4
  <1>7. ASSUME NEW j \in i..(n - 1) PROVE (a \o b)[j] = s[j + 1]
    <2>1. j - (i - 1) \in 1..(n - i) /\ j = (i - 1) + (j - (i - 1)) /\ i + (j - (i - 1)) = j + 1
      BY <1>1
    <2>2. QED
      BY <1>2, <1>3, <1>4, <2>1
  <1>8. RemoveAt(s, i) = a \o b
    BY DEF RemoveAt, a, b
  <1>9. QED
    BY <1>4, <1>5, <1>6, <1>7, <1>8 DEF n, IsRemoved

IsInserted(s, i, e, r) ==
    /\ Len(r) = Len(s) + 1 /\ r[i] = e
    /\ \A j \in 1..(i - 1) : r[j] = s[j]
    /\ \A j \in i..Len(s) : r[j + 1] = s[j]

LEMMA Inserted ==
    ASSUME NEW S, NEW s \in Seq(S), NEW i \in 1..(Len(s) + 1), NEW e \in S
    PROVE  InsertAt(s, i, e) \in Seq(S) /\ IsInserted(s, i, e, InsertAt(s, i, e))
  <1> DEFINE a == SubSeq(s, 1, i - 1)
             b == SubSeq(s, i, Len(s))
             c == a \o <<e>>
             n == Len(s)
  <1>1. /\ n \in Nat /\ i \in Nat /\ i >= 1 /\ i <= n + 1
        /\ a \in Seq(S) /\ Len(a) = i - 1 /\ \A j \in 1..(i - 1) : a[j] = s[j]
        /\ b \in Seq(S) /\ Len(b) = n + 1 - i /\ \A j \in 1..(n + 1 - i) : b[j] = s[i - 1 + j]
    BY Cut
  <1> HIDE DEF a, b, n
  <1>2. <<e>> \in Seq(S) /\ Len(<<e>>) = 1 /\ <<e>>[1] = e
    OBVIOUS
  <1>3. /\ c \in Seq(S) /\ Len(c) = Len(a) + Len(<<e>>)
        /\ \A j \in 1..Len(a) : c[j] = a[j]
        /\ \A j \in 1..Len(<<e>>) : c[Len(a) + j] = <<e>>[j]
    BY <1>1, <1>2
  <1>4. Len(c) = i /\ c[i] = e /\ \A j \in 1..(i - 1) : c[j] = s[j]
    BY <1>1, <1>2, <1>3
  <1> HIDE DEF c
  <1>5. /\ c \o b \in Seq(S) /\ Len(c \o b) = Len(c) + Len(b)
        /\ \A j \in 1..Len(c) : (c \o b)[j] = c[j]
        /\ \A j \in 1..Len(b) : (c \o b)[Len(c) + j] = b[j]
    <2>1. c \in Seq(S) /\ b \in Seq(S)
      BY <1>1, <1>3
    <2>2. QED
      BY <2>1
  <1>6. Len(c \o b) = n + 1 /\ (c \o b)[i] = e /\ \A j \in 1..(i - 1) : (c \o b)[j] = s[j]
    BY <1>1, <1>4, <1>5
  <1>7. ASSUME NEW j \in i..n PROVE (c \o b)[j + 1] = s[j]
    <2>1. j + 1 - i \in 1..(n + 1 - i) /\ j + 1 = i + (j + 1 - i) /\ i - 1 + (j + 1 - i) = j
      BY <1>1
    <2>2. (c \o b)[i + (j + 1 - i)] = b[j + 1 - i] /\ b[j + 1 - i] = s[i - 1 + (j + 1 - i)]
      BY <1>1, <1>4, <1>5, <2>1
    <2>3. QED
      BY <2>1, <2>2
  <1>8. InsertAt(s, i, e) = c \o b
    BY DEF InsertAt, a, b, c
  <1>9. QED
    BY <1>5, <1>6, <1>7, <1>8 DEF n, IsInserted

LEMMA Joined ==
    ASSUME NEW S, NEW a \in Seq(S), NEW b \in Seq(S)
    PROVE  /\ a \o b \in Seq(S) /\ Len(a \o b) = Len(a) + Len(b)
           /\ \A j \in 1..Len(a) : (a \o b)[j] = a[j]
           /\ \A j \in 1..Len(b) : (a \o b)[Len(a) + j] = b[j]
  OBVIOUS

LEMMA JoinedTwice ==
    ASSUME NEW S, NEW a \in Seq(S), NEW b \in Seq(S), NEW c \in Seq(S)
    PROVE  (a \o b) \o c = a \o (b \o c)
  BY ConcatAssociative

LEMMA Same ==
    ASSUME NEW S, NEW a \in Seq(S), NEW b \in Seq(S), Len(a) = Len(b), \A j \in 1..Len(a) : a[j] = b[j]
    PROVE  a = b
  OBVIOUS

\* A sequence is cut in two, and so is one that is followed by another.
LEMMA Portions ==
    ASSUME NEW S, NEW a \in Seq(S), NEW b \in Seq(S), NEW i \in 1..(Len(a) + 1)
    PROVE  /\ SubSeq(a, 1, i - 1) \o SubSeq(a, i, Len(a)) = a
           /\ SubSeq(a \o b, i, Len(a \o b)) = SubSeq(a, i, Len(a)) \o b
  <1> DEFINE front == SubSeq(a, 1, i - 1)
             back == SubSeq(a, i, Len(a))
             n == Len(a)
             m == Len(b)
             f == i - 1
             k == n + 1 - i
             ab == a \o b
             rest == SubSeq(ab, i, Len(ab))
             whole == front \o back
             more == back \o b
  <1>1. /\ n \in Nat /\ i \in Nat /\ i >= 1
        /\ front \in Seq(S) /\ Len(front) = f /\ \A j \in 1..f : front[j] = a[j]
        /\ back \in Seq(S) /\ Len(back) = k /\ \A j \in 1..k : back[j] = a[i - 1 + j]
    BY Cut
  <1>2. m \in Nat /\ i <= n + 1
    OBVIOUS
  <1>3. /\ ab \in Seq(S) /\ Len(ab) = n + m
        /\ \A j \in 1..n : ab[j] = a[j]
        /\ \A j \in 1..m : ab[n + j] = b[j]
    BY Joined
  <1>4. /\ rest \in Seq(S) /\ Len(rest) = Len(ab) + 1 - i
        /\ \A j \in 1..(Len(ab) + 1 - i) : rest[j] = ab[i - 1 + j]
    <2>1. i \in 1..(Len(ab) + 1)
      BY <1>1, <1>2, <1>3
    <2> HIDE DEF ab
    <2>2. QED
      BY <1>3, <2>1, Cut
  <1> HIDE DEF front, back
  <1>5. /\ whole \in Seq(S) /\ Len(whole) = Len(front) + Len(back)
        /\ \A j \in 1..Len(front) : whole[j] = front[j]
        /\ \A j \in 1..Len(back) : whole[Len(front) + j] = back[j]
    <2>1. front \in Seq(S) /\ back \in Seq(S)
      BY <1>1
    <2>2. QED
      BY <2>1, Joined
  <1>6. /\ more \in Seq(S) /\ Len(more) = Len(back) + m
        /\ \A j \in 1..Len(back) : more[j] = back[j]
        /\ \A j \in 1..m : more[Len(back) + j] = b[j]
    <2>1. back \in Seq(S) /\ b \in Seq(S)
      BY <1>1
    <2> HIDE DEF m
    <2>2. QED
      BY <2>1, Joined DEF m
  <1> HIDE DEF n, m, ab, rest, whole, more
  <1>7. f \in Nat /\ k \in Nat /\ f + k = n /\ i - 1 = f
    BY <1>1, <1>2
  <1> HIDE DEF f, k
  <1>8. Len(whole) = n /\ \A j \in 1..n : whole[j] = a[j]
    <2>1. Len(whole) = n
      BY <1>1, <1>5, <1>7
    <2>2. ASSUME NEW j \in 1..n, j <= f PROVE whole[j] = a[j]
      <3>1. j \in 1..f
        BY <1>7, <2>2
      <3>2. QED
        BY <1>1, <1>5, <3>1
    <2>3. ASSUME NEW j \in 1..n, j > f PROVE whole[j] = a[j]
      <3>1. j - f \in 1..k /\ f + (j - f) = j
        BY <1>1, <1>7, <2>3
      <3>2. whole[f + (j - f)] = back[j - f] /\ back[j - f] = a[i - 1 + (j - f)]
        BY <1>1, <1>5, <3>1
      <3>3. QED
        BY <1>7, <3>1, <3>2
    <2>4. QED
      BY <1>1, <1>7, <2>1, <2>2, <2>3
  <1>9. whole = a
    BY <1>5, <1>8, Same DEF n
  <1>10. Len(rest) = k + m /\ Len(more) = k + m
    BY <1>1, <1>2, <1>3, <1>4, <1>6 DEF k
  <1>11. ASSUME NEW j \in 1..(k + m) PROVE rest[j] = more[j]
    <2>1. rest[j] = ab[f + j]
      BY <1>4, <1>7, <1>10
    <2>2. CASE j <= k
      <3>1. j \in 1..k /\ f + j \in 1..n
        BY <1>2, <1>7, <2>2
      <3>2. ab[f + j] = a[f + j] /\ back[j] = a[f + j] /\ more[j] = back[j]
        BY <1>1, <1>3, <1>6, <1>7, <3>1
      <3>3. QED
        BY <2>1, <3>2
    <2>3. CASE j > k
      <3>1. j - k \in 1..m /\ n + (j - k) = f + j /\ k + (j - k) = j
        BY <1>2, <1>7, <2>3
      <3>2. ab[n + (j - k)] = b[j - k]
        BY <1>3, <3>1
      <3>4. more[k + (j - k)] = b[j - k]
        BY <1>1, <1>6, <3>1, Zenon
      <3>3. QED
        BY <2>1, <3>1, <3>2, <3>4
    <2>4. QED
      BY <1>2, <1>7, <2>2, <2>3
  <1>12. rest = more
    BY <1>4, <1>6, <1>10, <1>11, Same
  <1>13. QED
    BY <1>9, <1>12 DEF f, n, front, back, ab, rest, whole, more

LEMMA Least ==
    ASSUME NEW S, S \subseteq Nat, S # {}
    PROVE  \E n \in S : \A o \in S : n <= o
  <1>1. PICK m \in S : \A n \in S : <<n, m>> \notin OpToRel(<, Nat)
    BY WFMin, NatLessThanWellFounded, Zenon
  <1>2. \A n \in S : ~(n < m)
    BY <1>1, Zenon DEF OpToRel
  <1>3. QED
    BY <1>2

\* The n file handles that there are leave one of n + 1 descriptors.
LEMMA DescriptorIsFree ==
    ASSUME NEW l, l.handles \in Seq(Handle)
    PROVE  FreeDescriptor(l) \in Nat
  <1> DEFINE n == Len(l.handles)
             used == {l.handles[i].fd : i \in DOMAIN l.handles}
             free == {fd \in 0..n : fd \notin used}
  <1>1. n \in Nat /\ DOMAIN l.handles = 1..n
    OBVIOUS
  <1>2. IsFiniteSet(1..n) /\ Cardinality(1..n) = n
    BY <1>1, FS_Interval
  <1>3. IsFiniteSet(used) /\ Cardinality(used) <= n
    <2> DEFINE f == [i \in 1..n |-> l.handles[i].fd]
    <2>1. f \in Surjection(1..n, used)
      BY <1>1 DEF Surjection
    <2>2. QED
      BY <1>2, <2>1, FS_Surjection
  <1>4. free # {}
    <2>1. SUFFICES ASSUME free = {} PROVE FALSE
      OBVIOUS
    <2>2. 0..n \subseteq used
      BY <2>1
    <2>3. Cardinality(0..n) = n + 1
      BY <1>1, FS_Interval
    <2>4. Cardinality(0..n) <= Cardinality(used)
      BY <1>3, <2>2, FS_Subset
    <2>5. QED
      BY <1>1, <1>3, <2>3, <2>4, FS_CardinalityType
  <1>5. PICK fd \in free : \A o \in free : fd <= o
    <2>1. free \subseteq Nat
      BY <1>1
    <2>2. QED
      BY <1>4, <2>1, Least
  <1>6. \A lower \in 0..(fd - 1) : lower \in used
    BY <1>1, <1>5
  <1>7. \E g \in 0..n : g \notin used /\ \A lower \in 0..(g - 1) : lower \in used
    BY <1>5, <1>6
  <1>8. FreeDescriptor(l) \in 0..n
    BY <1>7 DEF FreeDescriptor
  <1>9. QED
    BY <1>1, <1>8

-----------------------------------------------------------------------------
(* Frames: what an operation leaves alone goes on to fit *)

LEMMA HandlesChanged ==
    ASSUME NEW l, NEW m, Fits(l, m), NEW d, NEW n,
           DOMAIN d = Fields, d.cursor \in Nat \ {0}, HandlesFit(d, n), ManagerFits(n),
           d.phase = l.phase, d.last = l.last, d.now = l.now, d.expiry = l.expiry,
           d.selected = l.selected, d.timers = l.timers, d.numTimers = l.numTimers,
           d.scheduled = l.scheduled, d.pipe = l.pipe, d.bytes = l.bytes, d.numCalled = l.numCalled
    PROVE  Fits(d, n)
  <1>1. ControlFits(d)
    BY DEF Fits, ControlFits
  <1>2. EventsFit(d)
    BY DEF Fits, EventsFit
  <1>3. TimersFit(d)
    BY DEF Fits, TimersFit
  <1>4. MessagesFit(d)
    BY DEF Fits, MessagesFit
  <1>5. QED
    BY <1>1, <1>2, <1>3, <1>4 DEF Fits

LEMMA TimersChanged ==
    ASSUME NEW l, NEW m, Fits(l, m), NEW d, DOMAIN d = Fields, TimersFit(d), EventsFit(d),
           d.phase = l.phase, d.cursor = l.cursor, d.now = l.now, d.expiry = l.expiry,
           d.phase = "select" => d.last = NoCall, d.last.kind # "message" \/ d.last = l.last,
           d.handles = l.handles, d.ready = l.ready, d.selected = l.selected,
           d.scheduled = l.scheduled, d.pipe = l.pipe, d.bytes = l.bytes, d.numCalled = l.numCalled
    PROVE  Fits(d, m)
  <1>1. ControlFits(d)
    BY DEF Fits, ControlFits
  <1>2. HandlesFit(d, m)
    BY DEF Fits, HandlesFit
  <1>3. MessagesFit(d)
    BY DEF Fits, MessagesFit
  <1>4. QED
    BY <1>1, <1>2, <1>3 DEF Fits

LEMMA MessagesChanged ==
    ASSUME NEW l, NEW m, Fits(l, m), NEW d, ControlFits(d), MessagesFit(d),
           d.last.kind \in {"none", "message"} \/ (d.last = l.last /\ d.now = l.now),
           d.handles = l.handles, d.ready = l.ready, d.selected = l.selected,
           d.timers = l.timers, d.numTimers = l.numTimers
    PROVE  Fits(d, m)
  <1>1. HandlesFit(d, m)
    BY DEF Fits, HandlesFit
  <1>2. EventsFit(d)
    BY DEF Fits, EventsFit
  <1>3. TimersFit(d)
    BY DEF Fits, TimersFit
  <1>4. QED
    BY <1>1, <1>2, <1>3 DEF Fits

-----------------------------------------------------------------------------
(* Timers *)

LEMMA BeforeIsTransitive ==
    ASSUME NEW t \in Timer, NEW u \in Timer, NEW v \in Timer, Before(t, u), Before(u, v)
    PROVE  Before(t, v)
  BY DEF Before, Timer

\* A timer is put behind those that fire before it, and in front of those that fire after it.
LEMMA TimerRegisterFits ==
    ASSUME NEW l, NEW m, Fits(l, m), NEW deadline \in 0..MaxTime
    PROVE  Fits(TimerRegister(l, deadline), m)
  <1> DEFINE later == {i \in DOMAIN l.timers : l.timers[i].deadline > deadline}
             p == IF later = {} THEN Len(l.timers) + 1 ELSE CHOOSE j \in later : \A k \in later : j <= k
             timer == [number |-> l.numTimers + 1, deadline |-> IF deadline = 0 THEN 1 ELSE deadline,
                       asked |-> deadline]
             n == Len(l.timers)
             d == TimerRegister(l, deadline)
  <1>1. /\ l.timers \in Seq(Timer) /\ l.numTimers \in Nat /\ DOMAIN l.timers = 1..n /\ n \in Nat
        /\ DOMAIN l = Fields /\ deadline \in Nat
    BY LoopAssumption DEF Fits, TimersFit, ControlFits
  <1>2. timer \in Timer
    BY <1>1 DEF Timer
  <1>3. \A i \in 1..n : l.timers[i] \in Timer
    BY <1>1
  <1>4. /\ p \in 1..(n + 1) /\ \A i \in 1..n : i < p => l.timers[i].deadline <= deadline
        /\ p <= n => l.timers[p].deadline > deadline
    <2>0. \A i \in 1..n : l.timers[i].deadline \in Nat
      BY <1>3 DEF Timer
    <2>1. CASE later = {}
      <3>1. p = n + 1
        BY <2>1
      <3>2. \A i \in 1..n : ~(l.timers[i].deadline > deadline)
        BY <1>1, <2>1
      <3> HIDE DEF p, later
      <3>3. QED
        BY <1>1, <2>0, <3>1, <3>2
    <2>2. CASE later # {}
      <3>1. \E j \in later : \A k \in later : j <= k
        <4>1. later \subseteq Nat
          BY <1>1
        <4> HIDE DEF later
        <4>2. QED
          BY <2>2, <4>1, Least
      <3>2. p \in later /\ \A k \in later : p <= k
        <4> HIDE DEF later
        <4>1. QED
          BY <2>2, <3>1
      <3> HIDE DEF p
      <3>3. p \in 1..n /\ l.timers[p].deadline > deadline
        BY <1>1, <3>2
      <3>4. ASSUME NEW i \in 1..n, i < p PROVE l.timers[i].deadline <= deadline
        <4>1. i \notin later
          BY <1>1, <3>2, <3>3, <3>4
        <4>2. QED
          BY <1>1, <2>0, <4>1
      <3>5. QED
        BY <1>1, <3>3, <3>4
    <2>3. QED
      BY <2>1, <2>2
  <1>5. d = [l EXCEPT !.timers = InsertAt(@, p, timer), !.numTimers = @ + 1]
    BY DEF TimerRegister
  <1> HIDE DEF p, timer, d
  <1>6. /\ d.timers = InsertAt(l.timers, p, timer) /\ d.numTimers = l.numTimers + 1 /\ DOMAIN d = Fields
        /\ d.phase = l.phase /\ d.cursor = l.cursor /\ d.now = l.now /\ d.expiry = l.expiry
        /\ d.last = l.last /\ d.handles = l.handles /\ d.ready = l.ready /\ d.selected = l.selected
        /\ d.scheduled = l.scheduled /\ d.pipe = l.pipe /\ d.bytes = l.bytes /\ d.numCalled = l.numCalled
    BY <1>1, <1>5 DEF Fields
  <1>7. /\ d.timers \in Seq(Timer) /\ Len(d.timers) = n + 1 /\ d.timers[p] = timer
        /\ \A j \in 1..(p - 1) : d.timers[j] = l.timers[j]
        /\ \A j \in p..n : d.timers[j + 1] = l.timers[j]
    <2>1. p \in 1..(Len(l.timers) + 1)
      BY <1>4
    <2>2. l.timers \in Seq(Timer) /\ timer \in Timer /\ d.timers = InsertAt(l.timers, p, timer)
      BY <1>1, <1>2, <1>6
    <2> HIDE DEF n
    <2>3. InsertAt(l.timers, p, timer) \in Seq(Timer) /\ IsInserted(l.timers, p, timer, d.timers)
      BY <2>1, <2>2, Inserted, Zenon
    <2>4. QED
      BY <2>2, <2>3 DEF n, IsInserted
  <1> DEFINE Old(j) == IF j < p THEN j ELSE j - 1
  <1>8. \A j \in 1..(n + 1) : j # p => d.timers[j] = l.timers[Old(j)] /\ Old(j) \in 1..n
    <2> SUFFICES ASSUME NEW j \in 1..(n + 1), j # p
                 PROVE  d.timers[j] = l.timers[Old(j)] /\ Old(j) \in 1..n
      OBVIOUS
    <2>1. p \in Nat /\ j \in Nat /\ (j < p \/ j > p)
      BY <1>1, <1>4
    <2>2. CASE j < p
      BY <1>1, <1>4, <1>7, <2>1, <2>2
    <2>3. CASE j > p
      <3>1. j - 1 \in p..n /\ (j - 1) + 1 = j /\ j - 1 \in 1..n
        BY <1>1, <1>4, <2>1, <2>3
      <3>2. d.timers[(j - 1) + 1] = l.timers[j - 1]
        BY <1>7, <3>1
      <3>3. QED
        BY <2>1, <2>3, <3>1, <3>2
    <2>4. QED
      BY <2>1, <2>2, <2>3
  <1>9. /\ timer.number = l.numTimers + 1 /\ timer.asked = deadline
        /\ timer.deadline = IF deadline = 0 THEN 1 ELSE deadline
    BY DEF timer
  <1>10. \A i \in 1..n :
            /\ l.timers[i].number <= l.numTimers
            /\ l.timers[i].deadline = IF l.timers[i].asked = 0 THEN 1 ELSE l.timers[i].asked
    BY <1>1 DEF Fits, TimersFit
  <1>11. \A i, j \in 1..n : i < j => Before(l.timers[i], l.timers[j])
    BY <1>1 DEF Fits, TimersFit
  <1>12. \A i \in 1..n : i < p => Before(l.timers[i], timer)
    <2> SUFFICES ASSUME NEW i \in 1..n, i < p PROVE Before(l.timers[i], timer)
      OBVIOUS
    <2> DEFINE t == l.timers[i]
    <2>1. /\ t.asked \in Nat /\ t.deadline \in Nat /\ t.number \in Nat
          /\ t.deadline <= deadline /\ t.number <= l.numTimers
          /\ t.deadline = IF t.asked = 0 THEN 1 ELSE t.asked
      BY <1>3, <1>4, <1>10 DEF Timer
    <2> HIDE DEF t
    <2>2. t.asked < deadline \/ (t.asked = deadline /\ (t.asked = 0 \/ t.number < l.numTimers + 1))
      BY <1>1, <2>1
    <2>3. Before(t, timer)
      BY <1>9, <2>2 DEF Before
    <2>4. QED
      BY <2>3 DEF t
  <1>13. \A i \in 1..n : i >= p => Before(timer, l.timers[i])
    <2> SUFFICES ASSUME NEW i \in 1..n, i >= p PROVE Before(timer, l.timers[i])
      OBVIOUS
    <2>1. p \in 1..n /\ l.timers[p] \in Timer /\ l.timers[p].deadline > deadline
      BY <1>1, <1>3, <1>4
    <2>2. Before(timer, l.timers[p])
      <3>1. l.timers[p].asked \in Nat
        BY <2>1 DEF Timer
      <3>2. QED
        BY <1>1, <1>9, <1>10, <2>1, <3>1 DEF Before
    <2>3. CASE i = p
      BY <2>2, <2>3
    <2>4. CASE i > p
      BY <1>2, <1>3, <1>11, <2>1, <2>2, <2>4, BeforeIsTransitive
    <2>5. QED
      BY <1>1, <2>1, <2>3, <2>4
  <1>14. \A i, j \in 1..(n + 1) : i < j => Before(d.timers[i], d.timers[j])
    <2> SUFFICES ASSUME NEW i \in 1..(n + 1), NEW j \in 1..(n + 1), i < j
                 PROVE  Before(d.timers[i], d.timers[j])
      OBVIOUS
    <2>1. p \in Nat /\ i \in Nat /\ j \in Nat
      BY <1>1, <1>4
    <2>2. CASE j = p
      <3>1. d.timers[i] = l.timers[i] /\ i \in 1..n /\ i < p
        BY <1>8, <2>1, <2>2
      <3>2. QED
        BY <1>7, <1>12, <2>2, <3>1
    <2>3. CASE i = p
      <3>1. d.timers[j] = l.timers[j - 1] /\ j - 1 \in 1..n /\ j - 1 >= p
        BY <1>8, <2>1, <2>3
      <3>2. QED
        BY <1>7, <1>13, <2>3, <3>1
    <2>4. CASE i # p /\ j # p
      <3>1. Old(i) < Old(j)
        BY <2>1, <2>4
      <3> HIDE DEF Old
      <3>2. QED
        BY <1>11, <1>8, <2>4, <3>1
    <2>5. QED
      BY <2>2, <2>3, <2>4
  <1>15. TimersFit(d)
    <2>1. \A i \in 1..(n + 1) :
            /\ d.timers[i].number <= d.numTimers
            /\ d.timers[i].deadline = IF d.timers[i].asked = 0 THEN 1 ELSE d.timers[i].asked
      <3> TAKE i \in 1..(n + 1)
      <3>1. CASE i = p
        BY <1>1, <1>6, <1>7, <1>9, <3>1
      <3>2. CASE i # p
        <4>1. PICK k \in 1..n : d.timers[i] = l.timers[k]
          BY <1>8, <3>2
        <4>2. l.timers[k].number \in Nat
          BY <1>3 DEF Timer
        <4>3. QED
          BY <1>1, <1>6, <1>10, <4>1, <4>2
      <3>3. QED
        BY <3>1, <3>2
    <2>2. ASSUME d.last.kind = "timer"
          PROVE  /\ d.last.timer \in Timer /\ d.last.timer.deadline <= d.now
                 /\ d.last.numTimers \in Nat /\ d.last.numTimers <= d.numTimers
                 /\ \A i \in 1..(n + 1) :
                        d.timers[i].number <= d.last.numTimers => Before(d.last.timer, d.timers[i])
      <3>1. /\ l.last.timer \in Timer /\ l.last.timer.deadline <= l.now
            /\ l.last.numTimers \in Nat /\ l.last.numTimers <= l.numTimers
            /\ \A i \in 1..n : l.timers[i].number <= l.last.numTimers => Before(l.last.timer, l.timers[i])
        BY <1>1, <1>6, <2>2 DEF Fits, TimersFit
      <3>2. ASSUME NEW i \in 1..(n + 1), d.timers[i].number <= l.last.numTimers
            PROVE  Before(l.last.timer, d.timers[i])
        <4>1. i # p
          BY <1>1, <1>7, <1>9, <3>1, <3>2
        <4>2. PICK k \in 1..n : d.timers[i] = l.timers[k]
          BY <1>8, <4>1
        <4>3. QED
          BY <3>1, <3>2, <4>2
      <3>3. QED
        BY <1>1, <1>6, <3>1, <3>2
    <2>3. DOMAIN d.timers = 1..(n + 1)
      BY <1>7
    <2>4. QED
      BY <1>1, <1>6, <1>7, <1>14, <2>1, <2>2, <2>3 DEF TimersFit
  <1>16. EventsFit(d) /\ (d.phase = "select" => d.last = NoCall)
    BY <1>6 DEF Fits, EventsFit, ControlFits
  <1>17. QED
    BY <1>6, <1>15, <1>16, TimersChanged DEF d

LEMMA TimerDeregisterFits ==
    ASSUME NEW l, NEW m, Fits(l, m), NEW p \in DOMAIN l.timers
    PROVE  Fits(TimerDeregister(l, p), m)
  <1> DEFINE n == Len(l.timers)
             d == TimerDeregister(l, p)
             Old(j) == IF j < p THEN j ELSE j + 1
  <1>1. /\ l.timers \in Seq(Timer) /\ l.numTimers \in Nat /\ DOMAIN l.timers = 1..n /\ n \in Nat
        /\ DOMAIN l = Fields /\ p \in 1..Len(l.timers) /\ p \in Nat
    BY DEF Fits, TimersFit, ControlFits
  <1>2. d = [l EXCEPT !.timers = RemoveAt(@, p)]
    BY DEF TimerDeregister
  <1> HIDE DEF d
  <1>3. /\ d.timers = RemoveAt(l.timers, p) /\ d.numTimers = l.numTimers /\ DOMAIN d = Fields
        /\ d.phase = l.phase /\ d.cursor = l.cursor /\ d.now = l.now /\ d.expiry = l.expiry
        /\ d.last = l.last /\ d.handles = l.handles /\ d.ready = l.ready /\ d.selected = l.selected
        /\ d.scheduled = l.scheduled /\ d.pipe = l.pipe /\ d.bytes = l.bytes /\ d.numCalled = l.numCalled
    BY <1>1, <1>2 DEF Fields
  <1>4. d.timers \in Seq(Timer) /\ IsRemoved(l.timers, p, d.timers)
    BY <1>1, <1>3, Removed, Zenon
  <1>5. DOMAIN d.timers = 1..(n - 1)
    BY <1>4 DEF IsRemoved
  <1>6. \A j \in 1..(n - 1) : d.timers[j] = l.timers[Old(j)] /\ Old(j) \in 1..n
    <2> SUFFICES ASSUME NEW j \in 1..(n - 1) PROVE d.timers[j] = l.timers[Old(j)] /\ Old(j) \in 1..n
      OBVIOUS
    <2>1. CASE j < p
      BY <1>1, <1>4, <2>1 DEF IsRemoved
    <2>2. CASE j >= p
      BY <1>1, <1>4, <2>2 DEF IsRemoved
    <2>3. QED
      BY <1>1, <2>1, <2>2
  <1>7. \A i, j \in 1..(n - 1) : i < j => Old(i) < Old(j)
    BY <1>1
  <1> HIDE DEF Old
  <1>8. TimersFit(l)
    BY DEF Fits
  <1>9. \A i, j \in 1..(n - 1) : i < j => Before(d.timers[i], d.timers[j])
    BY <1>1, <1>6, <1>7, <1>8 DEF TimersFit
  <1>10. \A i \in 1..(n - 1) :
            /\ d.timers[i].number <= d.numTimers
            /\ d.timers[i].deadline = IF d.timers[i].asked = 0 THEN 1 ELSE d.timers[i].asked
    BY <1>1, <1>3, <1>6, <1>8 DEF TimersFit
  <1>11. ASSUME d.last.kind = "timer"
         PROVE  /\ d.last.timer \in Timer /\ d.last.timer.deadline <= d.now
                /\ d.last.numTimers \in Nat /\ d.last.numTimers <= d.numTimers
                /\ \A i \in 1..(n - 1) :
                        d.timers[i].number <= d.last.numTimers => Before(d.last.timer, d.timers[i])
    BY <1>1, <1>3, <1>6, <1>8, <1>11 DEF TimersFit
  <1>12. TimersFit(d)
    BY <1>1, <1>3, <1>4, <1>5, <1>9, <1>10, <1>11 DEF TimersFit
  <1>13. EventsFit(d) /\ (d.phase = "select" => d.last = NoCall)
    BY <1>3 DEF Fits, EventsFit, ControlFits
  <1>14. QED
    BY <1>3, <1>12, <1>13, TimersChanged DEF d

\* The first timer fires; the others fire after it.
LEMMA WithoutExpiredFits ==
    ASSUME NEW l, NEW m, Fits(l, m), Expired(l), l.phase = "timers"
    PROVE  Fits(WithoutExpired(l), m)
  <1> DEFINE n == Len(l.timers)
             d == WithoutExpired(l)
  <1>1. /\ l.timers \in Seq(Timer) /\ l.numTimers \in Nat /\ DOMAIN l.timers = 1..n /\ n \in Nat /\ n >= 1
        /\ DOMAIN l = Fields /\ Head(l.timers) = l.timers[1]
    BY DEF Fits, TimersFit, ControlFits, Expired
  <1>2. d = [l EXCEPT !.timers = Tail(@),
                      !.last = [kind |-> "timer", timer |-> Head(l.timers), numTimers |-> l.numTimers]]
    BY DEF WithoutExpired
  <1> HIDE DEF d
  <1>3. /\ d.timers = Tail(l.timers) /\ d.numTimers = l.numTimers /\ DOMAIN d = Fields
        /\ d.phase = l.phase /\ d.cursor = l.cursor /\ d.now = l.now /\ d.expiry = l.expiry
        /\ d.last = [kind |-> "timer", timer |-> l.timers[1], numTimers |-> l.numTimers]
        /\ d.handles = l.handles /\ d.ready = l.ready /\ d.selected = l.selected
        /\ d.scheduled = l.scheduled /\ d.pipe = l.pipe /\ d.bytes = l.bytes /\ d.numCalled = l.numCalled
    BY <1>1, <1>2 DEF Fields
  <1>4. /\ d.timers \in Seq(Timer) /\ DOMAIN d.timers = 1..(n - 1)
        /\ \A i \in 1..(n - 1) : d.timers[i] = l.timers[i + 1]
    BY <1>1, <1>3
  <1>5. TimersFit(l) /\ l.timers[1] \in Timer
    BY <1>1 DEF Fits
  <1>6. \A i, j \in 1..(n - 1) : i < j => Before(d.timers[i], d.timers[j])
    <2> SUFFICES ASSUME NEW i \in 1..(n - 1), NEW j \in 1..(n - 1), i < j
                 PROVE  Before(d.timers[i], d.timers[j])
      OBVIOUS
    <2>1. i + 1 \in 1..n /\ j + 1 \in 1..n /\ i + 1 < j + 1
      BY <1>1
    <2>2. Before(l.timers[i + 1], l.timers[j + 1])
      BY <1>1, <1>5, <2>1 DEF TimersFit
    <2>3. QED
      BY <1>4, <2>2
  <1>7. \A i \in 1..(n - 1) :
            /\ d.timers[i].number <= d.numTimers
            /\ d.timers[i].deadline = IF d.timers[i].asked = 0 THEN 1 ELSE d.timers[i].asked
            /\ Before(l.timers[1], d.timers[i])
    <2> SUFFICES ASSUME NEW i \in 1..(n - 1)
                 PROVE  /\ d.timers[i].number <= d.numTimers
                        /\ d.timers[i].deadline = IF d.timers[i].asked = 0 THEN 1 ELSE d.timers[i].asked
                        /\ Before(l.timers[1], d.timers[i])
      OBVIOUS
    <2>1. i + 1 \in 1..n /\ 1 \in 1..n /\ 1 < i + 1
      BY <1>1
    <2>2. Before(l.timers[1], l.timers[i + 1])
      BY <1>1, <1>5, <2>1 DEF TimersFit
    <2>3. QED
      BY <1>1, <1>3, <1>4, <1>5, <2>1, <2>2 DEF TimersFit
  <1>8. l.timers[1].deadline <= l.now
    <2>1. l.timers[1].deadline <= l.expiry /\ l.timers[1].deadline \in Nat
      BY <1>1, <1>5 DEF Expired, Timer
    <2>2. QED
      BY <2>1 DEF Fits, ControlFits
  <1>9. TimersFit(d)
    <2>1. d.last.timer = l.timers[1] /\ d.last.numTimers = l.numTimers
      BY <1>3
    <2>2. d.last.timer \in Timer /\ d.last.timer.deadline <= d.now
      BY <1>3, <1>5, <1>8, <2>1
    <2>3. d.last.numTimers \in Nat /\ d.last.numTimers <= d.numTimers
      BY <1>1, <1>3, <2>1
    <2>4. \A i \in DOMAIN d.timers :
            d.timers[i].number <= d.last.numTimers => Before(d.last.timer, d.timers[i])
      BY <1>4, <1>7, <2>1
    <2>5. d.timers \in Seq(Timer) /\ d.numTimers \in Nat
      BY <1>1, <1>3, <1>4
    <2>6. QED
      BY <1>4, <1>6, <1>7, <2>2, <2>3, <2>4, <2>5 DEF TimersFit
  <1>10. EventsFit(d)
    BY <1>3 DEF EventsFit
  <1>11. QED
    BY <1>3, <1>9, <1>10, TimersChanged DEF d

-----------------------------------------------------------------------------
(* Scheduled callbacks *)

\* Places in a message that lies behind place w and ends by place u.
LEMMA Within ==
    ASSUME NEW first \in Int, NEW size \in Nat, NEW u \in Nat, NEW w \in Nat, NEW part \in 0..size,
           first > w, first + size <= u
    PROVE  /\ part \in Nat /\ first + part \in Nat /\ first + part > w /\ first + part <= u
           /\ first + part \in 1..u /\ (first - w) + part = (first + part) - w
  OBVIOUS

\* What is left of u units behind a message.
LEMMA Remainder ==
    ASSUME NEW u \in Nat, NEW size \in Nat
    PROVE  /\ u + 1 - (2 + size) = u - (1 + size) /\ (2 + size) - 1 = 1 + size
           /\ (u - (1 + size) = 0 <=> 1 + size = u) /\ u = (1 + size) + (u - (1 + size))
  OBVIOUS

LEMMA UnitFacts ==
    ASSUME NEW k \in Nat, NEW part \in Nat
    PROVE  Unit(k, part) \in Units /\ Unit(k, part).number = k /\ Unit(k, part).part = part
  BY DEF Unit, Units

LEMMA MessageFacts ==
    ASSUME NEW k \in Nat, NEW size \in Nat
    PROVE  /\ Message(k, size) \in Seq(Units) /\ Len(Message(k, size)) = 1 + size
           /\ \A i \in 1..(1 + size) : Message(k, size)[i] = Unit(k, i - 1)
  <1>1. \A i \in 1..(1 + size) : Unit(k, i - 1) \in Units
    BY UnitFacts
  <1>2. QED
    BY <1>1 DEF Message

\* A message is put behind the others.
LEMMA MessageAppended ==
    ASSUME NEW scheduled \in Seq(Nat), NEW n, NEW units, AreMessages(units, n, scheduled), NEW size \in Nat
    PROVE  AreMessages(units \o Message(Len(scheduled) + 1, size), n, Append(scheduled, size))
  <1> DEFINE k == Len(scheduled) + 1
             message == Message(k, size)
             after == Append(scheduled, size)
             all == units \o message
             u == Len(units)
  <1>1. /\ units \in Seq(Units) /\ u \in Nat /\ n \in Nat /\ n <= Len(scheduled)
        /\ Len(scheduled) \in Nat /\ k \in Nat
    BY DEF AreMessages
  <1>2. /\ message \in Seq(Units) /\ Len(message) = 1 + size
        /\ \A i \in 1..(1 + size) : message[i] = Unit(k, i - 1)
    BY <1>1, MessageFacts
  <1>3. /\ after \in Seq(Nat) /\ Len(after) = k /\ after[k] = size
        /\ \A i \in 1..Len(scheduled) : after[i] = scheduled[i]
    OBVIOUS
  <1> HIDE DEF message, after
  <1>4. /\ all \in Seq(Units) /\ Len(all) = u + (1 + size)
        /\ \A i \in 1..u : all[i] = units[i]
        /\ \A i \in 1..(1 + size) : all[u + i] = message[i]
    <2>1. units \in Seq(Units) /\ message \in Seq(Units)
      BY <1>1, <1>2
    <2>2. /\ all \in Seq(Units) /\ Len(all) = u + Len(message)
          /\ \A i \in 1..u : all[i] = units[i]
          /\ \A i \in 1..Len(message) : all[u + i] = message[i]
      BY <2>1
    <2> HIDE DEF all
    <2>3. QED
      BY <1>2, <2>2
  <1>0. u \in Nat /\ n \in Nat /\ k \in Nat /\ k = Len(scheduled) + 1 /\ Len(scheduled) \in Nat
    BY <1>1
  <1>12. \A i \in 1..u : units[i] \in Units
    BY <1>1
  <1> HIDE DEF all, u, k
  <1>5. \A part \in 0..size : all[u + 1 + part] = Unit(k, part)
    <2> SUFFICES ASSUME NEW part \in 0..size PROVE all[u + 1 + part] = Unit(k, part)
      OBVIOUS
    <2>1. part + 1 \in 1..(1 + size) /\ u + 1 + part = u + (part + 1) /\ (part + 1) - 1 = part
      BY <1>0
    <2>2. QED
      BY <1>2, <1>4, <2>1
  <1>6. all[u + 1] = Unit(k, 0)
    <2>1. 0 \in 0..size /\ u + 1 + 0 = u + 1
      BY <1>0
    <2>2. QED
      BY <1>5, <2>1
  <1>7. all # <<>>
    <2>1. Len(all) \in Nat /\ Len(all) # 0
      BY <1>0, <1>4
    <2>2. QED
      BY <2>1
  <1>8. all[1] = Unit(n + 1, 0)
    <2>1. CASE units = <<>>
      <3>1. u = 0 /\ n = Len(scheduled)
        BY <2>1 DEF AreMessages, u
      <3>2. u + 1 = 1 /\ n + 1 = k
        BY <1>0, <3>1
      <3>3. QED
        BY <1>6, <3>2
    <2>2. CASE units # <<>>
      <3>1. 1 \in 1..u /\ units[1] = Unit(n + 1, 0)
        BY <1>1, <2>2 DEF AreMessages, u
      <3>2. QED
        BY <1>4, <3>1
    <2>3. QED
      BY <2>1, <2>2
  <1>9. ASSUME NEW i \in 1..Len(all), i <= u PROVE IsOfMessage(all, i, after)
    <2> DEFINE j == units[i].number
               first == i - units[i].part
               end == first + scheduled[j]
    <2>1. i \in 1..u /\ all[i] = units[i] /\ units[i] \in Units
      <3>1. i \in 1..u
        BY <1>0, <1>4, <1>9
      <3>2. QED
        BY <1>4, <1>12, <3>1
    <2>2. IsOfMessage(units, i, scheduled)
      BY <2>1 DEF AreMessages, u
    <2>3. /\ j \in 1..Len(scheduled) /\ units[i].part \in 0..scheduled[j] /\ first >= 1 /\ end <= u
          /\ \A part \in 0..scheduled[j] : units[first + part] = Unit(j, part)
          /\ IF end = u THEN j = Len(scheduled) ELSE units[end + 1] = Unit(j + 1, 0)
      BY <2>2 DEF IsOfMessage, u
    <2>4. first = i - units[i].part /\ end = first + scheduled[j] /\ j = units[i].number
      OBVIOUS
    <2> HIDE DEF j, first, end
    <2>5. j \in Nat /\ j \in 1..Len(after) /\ j # k
      <3>1. j \in 1..Len(scheduled) /\ Len(after) = k
        BY <1>3, <2>3
      <3>2. QED
        BY <1>0, <3>1
    <2>14. first >= 1 /\ end <= u
      BY <2>3
    <2>12. after[j] = scheduled[j] /\ scheduled[j] \in Nat
      <3>1. j \in 1..Len(scheduled)
        BY <2>3
      <3>2. scheduled[j] \in Nat
        BY <3>1
      <3>3. QED
        BY <1>3, <3>1, <3>2
    <2>13. units[i].part \in Nat /\ first \in Nat /\ end \in Nat
      <3>1. units[i].part \in Nat
        BY <2>1 DEF Units
      <3>2. i \in Int
        BY <2>1
      <3>3. first \in Int
        BY <2>4, <3>1, <3>2
      <3>4. first \in Nat
        BY <2>14, <3>3
      <3>5. end = first + scheduled[j] /\ scheduled[j] \in Nat
        BY <2>4, <2>12
      <3>6. end \in Nat
        BY <3>4, <3>5
      <3>7. QED
        BY <3>1, <3>4, <3>6
    <2>6. \A part \in 0..scheduled[j] : first + part \in 1..u
      <3> SUFFICES ASSUME NEW part \in 0..scheduled[j] PROVE first + part \in 1..u
        OBVIOUS
      <3>1. /\ first \in Int /\ scheduled[j] \in Nat /\ u \in Nat /\ 0 \in Nat
            /\ first > 0 /\ first + scheduled[j] <= u
        BY <1>0, <2>4, <2>12, <2>13, <2>14
      <3> HIDE DEF u
      <3>2. QED
        BY <3>1, Within
    <2>7. \A part \in 0..scheduled[j] : all[first + part] = Unit(j, part)
      BY <1>4, <2>3, <2>6
    <2>8. IF end = Len(all) THEN j = Len(after) ELSE all[end + 1] = Unit(j + 1, 0)
      <3>0. Len(all) = u + (1 + size) /\ IF end = u THEN j = Len(scheduled) ELSE units[end + 1] = Unit(j + 1, 0)
        BY <1>4, <2>3
      <3>1. CASE end = u
        <4>1. end # Len(all) /\ j + 1 = k
          BY <1>0, <3>0, <3>1
        <4>2. QED
          BY <1>6, <3>1, <4>1
      <3>2. CASE end # u
        <4>1. end # Len(all) /\ end + 1 \in 1..u
          BY <1>0, <2>13, <2>14, <3>0, <3>2
        <4>2. QED
          BY <1>4, <3>0, <3>2, <4>1
      <3>3. QED
        BY <3>1, <3>2
    <2>15. units[i].part \in 0..scheduled[j] /\ end <= Len(all)
      <3>1. Len(all) = u + (1 + size) /\ units[i].part \in 0..scheduled[j]
        BY <1>4, <2>3
      <3>2. QED
        BY <1>0, <2>13, <2>14, <3>1
    <2>9. QED
      BY <2>1, <2>4, <2>5, <2>7, <2>8, <2>12, <2>14, <2>15, Zenon DEF IsOfMessage
  <1>10. ASSUME NEW i \in 1..Len(all), i > u PROVE IsOfMessage(all, i, after)
    <2> DEFINE p == i - (u + 1)
    <2>1. i \in Nat /\ Len(all) = u + (1 + size) /\ i <= Len(all) /\ after[k] = size /\ Len(after) = k
      <3>1. Len(all) = u + (1 + size) /\ after[k] = size /\ Len(after) = k
        BY <1>3, <1>4
      <3>2. QED
        BY <1>0, <3>1
    <2>2. p \in 0..size /\ p \in Nat /\ i = u + 1 + p /\ i - p = u + 1 /\ (u + 1) + size = Len(all)
      BY <1>0, <1>10, <2>1
    <2> HIDE DEF p
    <2>3. all[i] = Unit(k, p)
      BY <1>5, <2>2
    <2>4. all[i].number = k /\ all[i].part = p
      BY <2>3 DEF Unit
    <2>5. k \in 1..Len(after) /\ u + 1 >= 1 /\ Len(all) <= Len(all)
      BY <1>0, <2>1, <2>2
    <2>6. QED
      BY <1>5, <2>1, <2>2, <2>4, <2>5, Zenon DEF IsOfMessage
  <1>11. QED
    <2>1. n \in 0..Len(after)
      <3>1. Len(after) = k /\ n <= Len(scheduled)
        BY <1>1, <1>3
      <3>2. QED
        BY <1>0, <3>1
    <2>2. \A i \in 1..Len(all) : IsOfMessage(all, i, after)
      <3>1. \A i \in 1..Len(all) : i <= u \/ i > u
        BY <1>0
      <3>2. QED
        BY <1>9, <1>10, <3>1
    <2>3. AreMessages(all, n, after)
      BY <1>4, <1>7, <1>8, <2>1, <2>2, Zenon DEF AreMessages
    <2>4. QED
      BY <2>3 DEF all, message, after, k

\* The first message is taken, and the others are left.
LEMMA MessageTaken ==
    ASSUME NEW scheduled \in Seq(Nat), NEW n, NEW units, AreMessages(units, n, scheduled), units # <<>>,
           NEW size, size = scheduled[n + 1]
    PROVE  /\ n + 1 \in 1..Len(scheduled) /\ units[1] = Unit(n + 1, 0) /\ 1 + size <= Len(units)
           /\ \A part \in 0..size : units[1 + part] = Unit(n + 1, part)
           /\ AreMessages(SubSeq(units, 2 + size, Len(units)), n + 1, scheduled)
  <1> DEFINE u == Len(units)
             rest == SubSeq(units, 2 + size, Len(units))
  <1>1. /\ units \in Seq(Units) /\ u \in Nat /\ u >= 1 /\ n \in Nat /\ n <= Len(scheduled)
        /\ Len(scheduled) \in Nat
    BY DEF AreMessages
  <1>2. units[1] = Unit(n + 1, 0) /\ units[1].number = n + 1 /\ units[1].part = 0
    BY <1>1, UnitFacts DEF AreMessages
  <1>3. /\ n + 1 \in 1..Len(scheduled) /\ 1 + size <= u
        /\ \A part \in 0..size : units[1 + part] = Unit(n + 1, part)
        /\ IF 1 + size = u THEN n + 1 = Len(scheduled) ELSE units[(1 + size) + 1] = Unit((n + 1) + 1, 0)
    <2>1. IsOfMessage(units, 1, scheduled)
      BY <1>1 DEF AreMessages
    <2>2. /\ n + 1 \in 1..Len(scheduled) /\ (1 - 0) + size <= u
          /\ \A part \in 0..size : units[(1 - 0) + part] = Unit(n + 1, part)
          /\ IF (1 - 0) + size = u THEN n + 1 = Len(scheduled)
             ELSE units[((1 - 0) + size) + 1] = Unit((n + 1) + 1, 0)
      BY <1>2, <2>1 DEF IsOfMessage
    <2>3. 1 - 0 = 1
      OBVIOUS
    <2>4. QED
      BY <2>2, <2>3
  <1>4. size \in Nat
    <2>1. n + 1 \in 1..Len(scheduled)
      BY <1>3
    <2>2. QED
      BY <2>1
  <1>14. u \in Nat /\ u >= 1 /\ 1 + size <= u /\ n \in Nat
    BY <1>1, <1>3
  <1> HIDE DEF u
  <1>5. /\ rest \in Seq(Units) /\ Len(rest) = u - (1 + size)
        /\ \A i \in 1..Len(rest) : rest[i] = units[(1 + size) + i]
    <2>1. 2 + size \in 1..(u + 1)
      BY <1>4, <1>14
    <2>2. /\ rest \in Seq(Units) /\ Len(rest) = u + 1 - (2 + size)
          /\ \A i \in 1..(u + 1 - (2 + size)) : rest[i] = units[(2 + size) - 1 + i]
      BY <1>1, <2>1, Cut DEF u
    <2>3. u + 1 - (2 + size) = u - (1 + size) /\ (2 + size) - 1 = 1 + size
      BY <1>4, <1>14, Remainder
    <2> HIDE DEF rest
    <2>4. QED
      BY <2>2, <2>3
  <1> HIDE DEF rest
  <1>6. IF rest = <<>> THEN n + 1 = Len(scheduled) ELSE rest[1] = Unit((n + 1) + 1, 0)
    <2>1. CASE rest = <<>>
      <3>0. Len(rest) = 0 /\ Len(rest) = u - (1 + size)
        BY <1>5, <2>1
      <3>1. 1 + size = u
        BY <1>4, <1>14, <3>0, Remainder
      <3>2. QED
        BY <1>3, <2>1, <3>1
    <2>2. CASE rest # <<>>
      <3>1. Len(rest) >= 1
        BY <1>5, <2>2
      <3>4. 1 \in 1..Len(rest) /\ 1 + size # u
        <4>1. Len(rest) = u - (1 + size) /\ Len(rest) \in Nat
          BY <1>5
        <4>2. QED
          BY <1>4, <1>14, <3>1, <4>1
      <3>2. rest[1] = units[(1 + size) + 1] /\ 1 + size # u
        BY <1>5, <3>4
      <3>3. QED
        BY <1>3, <2>2, <3>2
    <2>3. QED
      BY <2>1, <2>2
  <1> DEFINE w == 1 + size
             r == Len(rest)
  <1>10. w \in Nat /\ w >= 1 /\ r \in Nat /\ u = w + r
    <2>1. r \in Nat
      BY <1>5
    <2>2. r = u - w
      BY <1>5
    <2> HIDE DEF r
    <2>3. u = w + r
      BY <1>4, <1>14, <2>2, Remainder
    <2>4. QED
      BY <1>4, <2>1, <2>3
  <1>11. \A i \in 1..r : rest[i] = units[w + i]
    BY <1>5
  <1>12. \A part \in Nat : part < w => units[1 + part] = Unit(n + 1, part)
    <2> SUFFICES ASSUME NEW part \in Nat, part < w PROVE units[1 + part] = Unit(n + 1, part)
      OBVIOUS
    <2>1. part \in 0..size
      BY <1>4
    <2>2. QED
      BY <1>3, <2>1
  <1>13. u \in Nat /\ w \in Nat /\ r \in Nat /\ u = w + r /\ w >= 1
    BY <1>10, <1>14
  <1> HIDE DEF w, r
  <1>15. \A i \in 1..u : units[i] \in Units /\ IsOfMessage(units, i, scheduled)
    BY <1>1 DEF AreMessages, u
  <1>7. ASSUME NEW i \in 1..r PROVE IsOfMessage(rest, i, scheduled)
    <2> DEFINE j == w + i
               k == units[j].number
               first == j - units[j].part
               end == first + scheduled[k]
    <2>1. i \in Nat /\ i >= 1 /\ j \in 1..u /\ j \in Nat /\ rest[i] = units[j] /\ units[j] \in Units
      <3>1. i \in Nat /\ i >= 1 /\ j \in 1..u /\ j \in Nat
        BY <1>10
      <3>2. QED
        BY <1>11, <1>15, <3>1
    <2> HIDE DEF j
    <2>2. IsOfMessage(units, j, scheduled)
      BY <1>15, <2>1
    <2>3. /\ k \in 1..Len(scheduled) /\ units[j].part \in 0..scheduled[k]
          /\ \A part \in 0..scheduled[k] : units[first + part] = Unit(k, part)
          /\ IF end = u THEN k = Len(scheduled) ELSE units[end + 1] = Unit(k + 1, 0)
      BY <2>2 DEF IsOfMessage, u
    <2>4. first >= 1 /\ end <= u
      BY <2>2 DEF IsOfMessage, u
    <2>5. k \in Nat /\ units[j].part \in Nat /\ scheduled[k] \in Nat /\ units[j].part <= scheduled[k]
      <3>1. k \in 1..Len(scheduled) /\ units[j].part \in 0..scheduled[k]
        BY <2>3
      <3>2. scheduled[k] \in Nat
        BY <3>1
      <3> HIDE DEF k
      <3>3. k \in Nat
        BY <3>1
      <3>4. units[j].part \in Nat /\ units[j].part <= scheduled[k]
        BY <3>1, <3>2
      <3>5. QED
        BY <3>2, <3>3, <3>4
    <2>6. first = j - units[j].part
      OBVIOUS
    <2>7. end = first + scheduled[k]
      OBVIOUS
    <2> HIDE DEF first, end
    <2>8. first \in Nat
      <3>1. first \in Int
        BY <2>1, <2>5, <2>6
      <3>2. QED
        BY <2>4, <3>1
    <2>9. end \in Nat
      BY <2>5, <2>7, <2>8
    <2>10. first > w
      <3> SUFFICES ASSUME first <= w PROVE FALSE
        BY <1>10, <2>8
      <3>1. first - 1 \in Nat /\ first - 1 < w /\ 1 + (first - 1) = first
        BY <1>10, <2>4, <2>8
      <3>2. units[first] = Unit(n + 1, first - 1)
        BY <1>12, <3>1
      <3>3. 0 \in 0..scheduled[k] /\ first + 0 = first
        BY <2>5, <2>8
      <3>4. units[first] = Unit(k, 0)
        BY <2>3, <3>3
      <3>5. first - 1 = 0
        <4>1. Unit(n + 1, first - 1).part = first - 1 /\ Unit(k, 0).part = 0
          BY DEF Unit
        <4>2. QED
          BY <3>2, <3>4, <4>1
      <3>6. k = n + 1
        <4>1. Unit(n + 1, first - 1).number = n + 1 /\ Unit(k, 0).number = k
          BY DEF Unit
        <4>2. QED
          BY <3>2, <3>4, <4>1
      <3>7. scheduled[k] = size /\ j = units[j].part + 1
        BY <2>1, <2>5, <2>6, <2>8, <3>5, <3>6
      <3>8. j <= w
        BY <1>4, <2>1, <2>5, <3>7 DEF w
      <3>9. QED
        BY <1>10, <2>1, <3>8 DEF j
    <2>11. /\ i - units[j].part = first - w
           /\ (i - units[j].part) + scheduled[k] = end - w
      <3>1. i = j - w
        BY <1>10, <2>1 DEF j
      <3>2. i - units[j].part = first - w
        BY <1>10, <2>1, <2>5, <2>6, <3>1
      <3>3. (first - w) + scheduled[k] = end - w
        BY <1>10, <2>5, <2>7, <2>8
      <3>4. QED
        BY <3>2, <3>3
    <2>12. \A m \in Nat : m > w /\ m <= u =>
                m - w \in 1..r /\ w + (m - w) = m /\ rest[m - w] = units[m]
      <3> SUFFICES ASSUME NEW m \in Nat, m > w, m <= u
                   PROVE  m - w \in 1..r /\ w + (m - w) = m /\ rest[m - w] = units[m]
        OBVIOUS
      <3>1. m - w \in 1..r /\ w + (m - w) = m
        BY <1>10
      <3>2. QED
        BY <1>11, <3>1
    <2>13. ASSUME NEW part \in 0..scheduled[k]
           PROVE  rest[(first - w) + part] = Unit(k, part)
      <3>1. /\ first + part \in Nat /\ first + part > w /\ first + part <= u
            /\ (first - w) + part = (first + part) - w
        <4>1. /\ first \in Int /\ scheduled[k] \in Nat /\ u \in Nat /\ w \in Nat
              /\ first > w /\ first + scheduled[k] <= u
          BY <1>13, <2>4, <2>5, <2>7, <2>8, <2>10
        <4> HIDE DEF k
        <4>2. QED
          BY <4>1, Within
      <3>2. QED
        BY <2>3, <2>12, <3>1
    <2>14. IF end - w = r THEN k = Len(scheduled)
           ELSE rest[(end - w) + 1] = Unit(k + 1, 0)
      <3>1. CASE end = u
        <4>1. end - w = r
          BY <1>10, <3>1
        <4>2. QED
          BY <2>3, <3>1, <4>1
      <3>2. CASE end # u
        <4>1. /\ end - w # r /\ end + 1 \in Nat /\ end + 1 <= u /\ end + 1 > w
              /\ (end - w) + 1 = (end + 1) - w
          <5>1. end >= first
            BY <2>5, <2>7, <2>8
          <5>2. QED
            BY <1>13, <2>4, <2>8, <2>9, <2>10, <3>2, <5>1
        <4>2. rest[(end + 1) - w] = units[end + 1] /\ units[end + 1] = Unit(k + 1, 0)
          BY <2>3, <2>12, <3>2, <4>1
        <4>3. QED
          BY <4>1, <4>2
      <3>3. QED
        BY <3>1, <3>2
    <2>15. first - w >= 1 /\ end - w <= r
      BY <1>10, <2>4, <2>8, <2>9, <2>10
    <2>16. QED
      BY <2>1, <2>3, <2>11, <2>13, <2>14, <2>15, Zenon DEF IsOfMessage, k, r
  <1>8. n + 1 \in 0..Len(scheduled)
    BY <1>1, <1>3
  <1>9. AreMessages(rest, n + 1, scheduled)
    BY <1>5, <1>6, <1>7, <1>8 DEF AreMessages, r
  <1>16. QED
    BY <1>2, <1>3, <1>9 DEF rest, u

\* All of a message is scheduled, or nothing.
LEMMA ScheduleCallbackFits ==
    ASSUME NEW l, NEW m, Fits(l, m), NEW size \in 0..MaxContext
    PROVE  Fits(ScheduleCallback(l, size), m)
  <1> DEFINE message == Message(Len(l.scheduled) + 1, size)
             d == [l EXCEPT !.pipe = @ \o message, !.scheduled = Append(@, size)]
  <1>1. ScheduleCallback(l, size) \in {l, d}
    BY DEF ScheduleCallback
  <1>2. size \in Nat /\ MaxContext \in Nat
    BY LoopAssumption
  <1>3. DOMAIN l = Fields /\ MessagesFit(l) /\ ControlFits(l)
    BY DEF Fits, ControlFits
  <1>4. /\ l.scheduled \in Seq(0..MaxContext) /\ l.pipe \in Seq(Units) /\ l.bytes \in Seq(Units)
        /\ Len(l.scheduled) \in Nat /\ l.numCalled \in 0..Len(l.scheduled)
        /\ AreMessages(l.bytes \o l.pipe, l.numCalled, l.scheduled)
    <2>1. /\ l.scheduled \in Seq(0..MaxContext) /\ l.pipe \in Seq(Units) /\ l.bytes \in Seq(Units)
          /\ AreMessages(l.bytes \o l.pipe, l.numCalled, l.scheduled)
      BY <1>3 DEF MessagesFit
    <2>2. l.numCalled \in 0..Len(l.scheduled)
      BY <2>1 DEF AreMessages
    <2>3. Len(l.scheduled) \in Nat
      BY <2>1
    <2>4. QED
      BY <2>1, <2>2, <2>3
  <1>5. message \in Seq(Units)
    <2>1. Len(l.scheduled) + 1 \in Nat
      BY <1>4
    <2>2. QED
      BY <1>2, <2>1, MessageFacts
  <1> HIDE DEF message
  <1>6. /\ DOMAIN d = Fields /\ d.pipe = l.pipe \o message /\ d.scheduled = Append(l.scheduled, size)
        /\ d.phase = l.phase /\ d.cursor = l.cursor /\ d.now = l.now /\ d.expiry = l.expiry
        /\ d.last = l.last /\ d.handles = l.handles /\ d.ready = l.ready /\ d.selected = l.selected
        /\ d.timers = l.timers /\ d.numTimers = l.numTimers /\ d.bytes = l.bytes /\ d.numCalled = l.numCalled
    BY <1>3 DEF Fields
  <1> HIDE DEF d
  <1>7. l.scheduled \in Seq(Nat)
    BY <1>2, <1>4
  <1>8. AreMessages((l.bytes \o l.pipe) \o message, l.numCalled, d.scheduled)
    BY <1>2, <1>4, <1>6, <1>7, MessageAppended DEF message
  <1>9. (l.bytes \o l.pipe) \o message = d.bytes \o d.pipe
    <2> DEFINE x == l.bytes
               y == l.pipe
    <2>1. x \in Seq(Units) /\ y \in Seq(Units) /\ message \in Seq(Units)
      BY <1>4, <1>5
    <2> HIDE DEF x, y
    <2>2. (x \o y) \o message = x \o (y \o message)
      BY <2>1, JoinedTwice
    <2>3. QED
      BY <1>6, <2>2 DEF x, y
  <1>10. d.pipe \in Seq(Units)
    BY <1>4, <1>5, <1>6, Joined
  <1>11. d.scheduled \in Seq(0..MaxContext) /\ \A i \in 1..Len(l.scheduled) : d.scheduled[i] = l.scheduled[i]
    <2>1. /\ Append(l.scheduled, size) \in Seq(0..MaxContext)
          /\ \A i \in 1..Len(l.scheduled) : Append(l.scheduled, size)[i] = l.scheduled[i]
      BY <1>4
    <2>2. QED
      BY <1>6, <2>1
  <1>12. ASSUME d.last.kind = "message", d.phase # "undefined"
         PROVE  /\ d.last.header = Unit(d.numCalled, 0) /\ d.numCalled >= 1
                /\ <<d.last.header>> \o d.last.context = Message(d.numCalled, d.scheduled[d.numCalled])
    <2>1. /\ l.last.header = Unit(l.numCalled, 0) /\ l.numCalled >= 1
          /\ <<l.last.header>> \o l.last.context = Message(l.numCalled, l.scheduled[l.numCalled])
      BY <1>3, <1>6, <1>12 DEF MessagesFit
    <2>2. d.scheduled[l.numCalled] = l.scheduled[l.numCalled]
      BY <1>4, <1>11, <2>1
    <2>3. QED
      BY <1>6, <2>1, <2>2
  <1>13. MessagesFit(d)
    <2>1. FitChar(d.scheduled) => FitChar(l.scheduled)
      <3> DEFINE x == l.scheduled
                 y == d.scheduled
      <3>1. x \in Seq(0..MaxContext) /\ y = Append(x, size) /\ size \in 0..MaxContext
        BY <1>4, <1>6
      <3>2. \A i \in 1..Len(x) : y[i] = x[i]
        BY <1>11
      <3> HIDE DEF x, y
      <3>3. DOMAIN x = 1..Len(x) /\ \A i \in 1..Len(x) : i \in DOMAIN y
        BY <3>1
      <3>4. FitChar(y) => FitChar(x)
        BY <3>2, <3>3 DEF FitChar
      <3>5. QED
        BY <3>4 DEF x, y
    <2>2. /\ d.phase = "undefined" => ~FitChar(d.scheduled)
          /\ d.phase # "messages" /\ FitChar(d.scheduled) => Len(d.bytes) <= MaxContext
          /\ d.bytes \in Seq(Units) /\ Len(d.bytes) <= 1 + MaxContext
      BY <1>3, <1>6, <2>1 DEF MessagesFit
    <2>3. AreMessages(d.bytes \o d.pipe, d.numCalled, d.scheduled)
      BY <1>6, <1>8, <1>9
    <2>4. QED
      BY <1>10, <1>11, <1>12, <2>2, <2>3 DEF MessagesFit
  <1>14. ControlFits(d)
    BY <1>3, <1>6 DEF ControlFits
  <1>15. Fits(d, m)
    BY <1>6, <1>13, <1>14, MessagesChanged
  <1>16. QED
    BY <1>1, <1>15

\* A loop that is called differs in where it is and what it has called.
LEMMA ReadPipeFits ==
    ASSUME NEW l, NEW m, Fits(l, m), l.phase = "handles", l.last = NoCall, PipeRoom(l) > 0
    PROVE  Fits(ReadPipe(l), m)
  <1> DEFINE n == IF Len(l.pipe) < PipeRoom(l) THEN Len(l.pipe) ELSE PipeRoom(l)
             read == SubSeq(l.pipe, 1, n)
             left == SubSeq(l.pipe, n + 1, Len(l.pipe))
             d == [l EXCEPT !.bytes = @ \o read, !.pipe = left, !.phase = "messages"]
  <1>1. ReadPipe(l) = d
    BY DEF ReadPipe
  <1>2. MaxContext \in Nat
    BY LoopAssumption
  <1>3. DOMAIN l = Fields /\ MessagesFit(l) /\ ControlFits(l)
    BY DEF Fits, ControlFits
  <1>4. /\ l.pipe \in Seq(Units) /\ l.bytes \in Seq(Units) /\ Len(l.bytes) \in Nat /\ Len(l.pipe) \in Nat
        /\ AreMessages(l.bytes \o l.pipe, l.numCalled, l.scheduled)
    BY <1>3 DEF MessagesFit
  <1>5. n \in Nat /\ n <= Len(l.pipe) /\ Len(l.bytes) + n <= 1 + MaxContext
    <2>1. PipeRoom(l) = 1 + MaxContext - Len(l.bytes)
      BY DEF PipeRoom
    <2>2. Len(l.bytes) \in Nat /\ Len(l.pipe) \in Nat
      BY <1>4
    <2> DEFINE x == Len(l.bytes)
               y == Len(l.pipe)
               z == PipeRoom(l)
    <2>3. z = 1 + MaxContext - x /\ x \in Nat /\ z > 0 /\ y \in Nat /\ n = IF y < z THEN y ELSE z
      BY <2>1, <2>2
    <2> HIDE DEF x, y, z, n
    <2>4. n \in Nat /\ n <= y /\ x + n <= 1 + MaxContext
      BY <1>2, <2>3
    <2>5. QED
      BY <2>4 DEF x, y
  <1> HIDE DEF n
  <1>6. /\ read \in Seq(Units) /\ left \in Seq(Units) /\ Len(read) = n /\ read \o left = l.pipe
    <2>1. n + 1 \in 1..(Len(l.pipe) + 1) /\ (n + 1) - 1 = n
      BY <1>4, <1>5
    <2>2. /\ SubSeq(l.pipe, 1, (n + 1) - 1) \in Seq(Units) /\ Len(SubSeq(l.pipe, 1, (n + 1) - 1)) = (n + 1) - 1
          /\ left \in Seq(Units)
      BY <1>4, <2>1, Cut
    <2>3. SubSeq(l.pipe, 1, (n + 1) - 1) \o left = l.pipe
      BY <1>4, <2>1, Portions
    <2> HIDE DEF left
    <2>4. QED
      BY <2>1, <2>2, <2>3
  <1>7. /\ DOMAIN d = Fields /\ d.bytes = l.bytes \o read /\ d.pipe = left /\ d.phase = "messages"
        /\ d.scheduled = l.scheduled /\ d.cursor = l.cursor /\ d.now = l.now /\ d.expiry = l.expiry
        /\ d.last = l.last /\ d.handles = l.handles /\ d.ready = l.ready /\ d.selected = l.selected
        /\ d.timers = l.timers /\ d.numTimers = l.numTimers /\ d.numCalled = l.numCalled
    BY <1>3 DEF Fields
  <1> HIDE DEF d, read, left
  <1>9. d.bytes \o d.pipe = l.bytes \o l.pipe
    <2> DEFINE x == l.bytes
    <2>1. x \in Seq(Units) /\ read \in Seq(Units) /\ left \in Seq(Units)
      BY <1>4, <1>6
    <2> HIDE DEF x
    <2>3. (x \o read) \o left = x \o (read \o left)
      BY <2>1, JoinedTwice
    <2>2. QED
      BY <1>6, <1>7, <2>3 DEF x
  <1>10. d.bytes \in Seq(Units) /\ d.pipe \in Seq(Units) /\ Len(d.bytes) <= 1 + MaxContext
    <2>1. d.bytes \in Seq(Units) /\ Len(d.bytes) = Len(l.bytes) + Len(read)
      <3>1. l.bytes \in Seq(Units) /\ read \in Seq(Units)
        BY <1>4, <1>6
      <3>2. l.bytes \o read \in Seq(Units) /\ Len(l.bytes \o read) = Len(l.bytes) + Len(read)
        BY <3>1, Joined, Zenon
      <3>3. QED
        BY <1>7, <3>2
    <2>2. QED
      BY <1>5, <1>6, <1>7, <2>1
  <1>11. MessagesFit(d)
    BY <1>3, <1>4, <1>7, <1>9, <1>10 DEF MessagesFit, NoCall
  <1>12. ControlFits(d)
    BY <1>3, <1>7 DEF ControlFits
  <1>13. QED
    BY <1>1, <1>7, <1>11, <1>12, MessagesChanged DEF NoCall


\* There is no room to read.
LEMMA AbortFits ==
    ASSUME NEW l, NEW m, Fits(l, m), l.phase = "handles"
    PROVE  Fits(Abort(l), m)
  <1> DEFINE d == Abort(l)
  <1>1. DOMAIN l = Fields /\ MessagesFit(l) /\ ControlFits(l)
    BY DEF Fits, ControlFits
  <1>2. /\ DOMAIN d = Fields /\ d.phase = "aborted" /\ d.last = NoCall /\ d.bytes = l.bytes /\ d.pipe = l.pipe
        /\ d.scheduled = l.scheduled /\ d.cursor = l.cursor /\ d.now = l.now /\ d.expiry = l.expiry
        /\ d.handles = l.handles /\ d.ready = l.ready /\ d.selected = l.selected
        /\ d.timers = l.timers /\ d.numTimers = l.numTimers /\ d.numCalled = l.numCalled
    BY <1>1 DEF Fields, Abort
  <1> HIDE DEF d
  <1>3. MessagesFit(d)
    BY <1>1, <1>2 DEF MessagesFit, NoCall
  <1>4. ControlFits(d)
    BY <1>1, <1>2 DEF ControlFits
  <1>5. Fits(d, m)
    BY <1>2, <1>3, <1>4, MessagesChanged DEF NoCall
  <1>6. QED
    BY <1>5 DEF d

\* What has been read begins with the header of the next message.
LEMMA HeaderFacts ==
    ASSUME NEW l, MessagesFit(l), l.bytes # <<>>
    PROVE  /\ l.bytes \o l.pipe # <<>> /\ l.numCalled \in Nat /\ Len(l.bytes) \in Nat /\ Len(l.bytes) >= 1
           /\ Head(l.bytes) = Unit(l.numCalled + 1, 0) /\ l.numCalled + 1 \in 1..Len(l.scheduled)
           /\ l.scheduled[l.numCalled + 1] \in 0..MaxContext
           /\ ContextSize(l) = AsChar(l.scheduled[l.numCalled + 1])
           /\ l.scheduled \in Seq(Nat)
  <1> DEFINE bytes == l.bytes
             pipe == l.pipe
             units == bytes \o pipe
             size == l.scheduled[l.numCalled + 1]
  <1>1. /\ bytes \in Seq(Units) /\ pipe \in Seq(Units) /\ bytes # <<>> /\ l.scheduled \in Seq(0..MaxContext)
        /\ AreMessages(units, l.numCalled, l.scheduled) /\ Head(l.bytes) = bytes[1]
    BY DEF MessagesFit
  <1>2. l.scheduled \in Seq(Nat)
    BY <1>1, LoopAssumption
  <1> HIDE DEF bytes, pipe
  <1>3. Len(bytes) \in Nat /\ Len(bytes) >= 1
    BY <1>1
  <1>4. units \in Seq(Units) /\ Len(units) = Len(bytes) + Len(pipe) /\ units[1] = bytes[1]
    <2>1. 1 \in 1..Len(bytes)
      BY <1>3
    <2>2. QED
      BY <1>1, <2>1, Joined
  <1>5. units # <<>>
    <2>1. Len(pipe) \in Nat
      BY <1>1
    <2> HIDE DEF units
    <2>2. QED
      BY <1>3, <1>4, <2>1
  <1> HIDE DEF units
  <1>6. size = l.scheduled[l.numCalled + 1]
    OBVIOUS
  <1> HIDE DEF size
  <1>7. l.numCalled + 1 \in 1..Len(l.scheduled) /\ units[1] = Unit(l.numCalled + 1, 0)
    BY <1>1, <1>2, <1>5, <1>6, MessageTaken
  <1>8. l.numCalled \in Nat
    BY <1>1 DEF AreMessages
  <1>9. ContextSize(l) = AsChar(size)
    <2>1. Unit(l.numCalled + 1, 0).number = l.numCalled + 1
      BY DEF Unit
    <2>2. QED
      BY <1>1, <1>4, <1>6, <1>7, <2>1 DEF ContextSize
  <1>10. size \in 0..MaxContext
    <2> DEFINE s == l.scheduled
               S == 0..MaxContext
    <2>1. s \in Seq(S)
      BY <1>1
    <2> HIDE DEF s, S
    <2>2. \A i \in 1..Len(s) : s[i] \in S
      BY <2>1
    <2>3. QED
      BY <1>6, <1>7, <2>2 DEF s, S
  <1>11. QED
    BY <1>1, <1>2, <1>3, <1>4, <1>5, <1>6, <1>7, <1>8, <1>9, <1>10 DEF bytes, pipe, units

\* A size that the char holds is the one that was scheduled; another one is negative.
LEMMA CharFacts ==
    ASSUME NEW size \in 0..MaxContext
    PROVE  /\ ~IsNegative(size) => AsChar(size) = size
           /\ IsNegative(size) <=> AsChar(size) < 0
           /\ AsChar(size) \in Int
  <1>1. MaxContext \in Nat /\ size \in Nat /\ size <= MaxContext
    BY LoopAssumption
  <1>2. QED
    BY <1>1 DEF AsChar, IsNegative

\* A message that is whole is called with its own context.
LEMMA WithMessageFits ==
    ASSUME NEW l, NEW m, Fits(l, m), l.phase = "messages", HasMessage(l), ~(ContextSize(l) < 0)
    PROVE  Fits(WithMessage(l), m)
  <1> DEFINE k == l.numCalled + 1
             size == ContextSize(l)
             header == Head(l.bytes)
             bytes == l.bytes
             pipe == l.pipe
             context == SubSeq(bytes, 2, 1 + size)
             rest == SubSeq(bytes, 2 + size, Len(bytes))
             units == bytes \o pipe
             d == WithMessage(l)
  <1>1. DOMAIN l = Fields /\ MessagesFit(l) /\ ControlFits(l)
    BY DEF Fits, ControlFits
  <1>2. /\ bytes # <<>> /\ 1 + size \in 0..Len(bytes)
        /\ bytes \in Seq(Units) /\ pipe \in Seq(Units) /\ l.scheduled \in Seq(0..MaxContext)
        /\ Len(bytes) <= 1 + MaxContext /\ AreMessages(units, l.numCalled, l.scheduled)
    BY <1>1 DEF HasMessage, MessagesFit
  <1>3. /\ l.scheduled \in Seq(Nat) /\ units # <<>> /\ l.numCalled \in Nat /\ Len(bytes) \in Nat
        /\ header = Unit(k, 0) /\ k \in 1..Len(l.scheduled) /\ size = l.scheduled[l.numCalled + 1]
        /\ size \in 0..MaxContext
    BY <1>1, <1>2, HeaderFacts, CharFacts
  <1>4. /\ DOMAIN d = Fields /\ d.bytes = rest /\ d.pipe = pipe /\ d.numCalled = k
        /\ d.last = [kind |-> "message", header |-> header, context |-> context]
        /\ d.phase = "messages" /\ d.scheduled = l.scheduled /\ d.cursor = l.cursor /\ d.now = l.now
        /\ d.expiry = l.expiry /\ d.handles = l.handles /\ d.ready = l.ready /\ d.selected = l.selected
        /\ d.timers = l.timers /\ d.numTimers = l.numTimers
    BY <1>1 DEF Fields, WithMessage
  <1> HIDE DEF bytes, pipe, size, header, d
  <1>5. /\ size \in Nat /\ MaxContext \in Nat /\ Len(bytes) \in Nat
        /\ 1 + size <= Len(bytes) /\ Len(bytes) <= 1 + MaxContext
    <2>1. size \in Nat /\ MaxContext \in Nat
      BY <1>3, LoopAssumption
    <2>2. 1 + size \in 0..Len(bytes) /\ Len(bytes) <= 1 + MaxContext /\ Len(bytes) \in Nat
      BY <1>2, <1>3
    <2>3. QED
      BY <2>1, <2>2
  <1>6. /\ 2 + size \in 1..(Len(bytes) + 1) /\ (2 + size) - 1 = 1 + size
        /\ rest \in Seq(Units) /\ Len(rest) = Len(bytes) + 1 - (2 + size)
    <2>1. 2 + size \in 1..(Len(bytes) + 1) /\ (2 + size) - 1 = 1 + size
      BY <1>5
    <2>2. QED
      BY <1>2, <2>1, Cut
  <1>7. rest \o pipe = SubSeq(units, 2 + size, Len(units))
    BY <1>2, <1>6, Portions
  <1>8. /\ \A part \in 0..size : units[1 + part] = Unit(k, part)
        /\ AreMessages(SubSeq(units, 2 + size, Len(units)), l.numCalled + 1, l.scheduled)
    <2>1. units # <<>> /\ AreMessages(units, l.numCalled, l.scheduled)
      BY <1>2, <1>3
    <2>2. l.scheduled \in Seq(Nat) /\ size = l.scheduled[l.numCalled + 1]
      BY <1>3
    <2> HIDE DEF units
    <2>3. QED
      BY <2>1, <2>2, MessageTaken
  <1>9. \A j \in 1..Len(bytes) : units[j] = bytes[j]
    BY <1>2, Joined
  <1>10. context \in Seq(Units) /\ Len(context) = size /\ \A j \in 1..size : context[j] = Unit(k, j)
    <2>1. \A j \in 2..(1 + size) : bytes[j] \in Units
      <3>1. \A j \in 1..Len(bytes) : bytes[j] \in Units
        BY <1>2
      <3>2. \A j \in 2..(1 + size) : j \in 1..Len(bytes)
        BY <1>5
      <3>3. QED
        BY <3>1, <3>2
    <2>2. context \in Seq(Units) /\ Len(context) = size /\ \A j \in 1..size : context[j] = bytes[1 + j]
      BY <1>5, <2>1
    <2>3. ASSUME NEW j \in 1..size PROVE bytes[1 + j] = Unit(k, j)
      <3>1. 1 + j \in 1..Len(bytes) /\ j \in 0..size
        BY <1>5
      <3> HIDE DEF units, k
      <3>2. QED
        BY <1>8, <1>9, <3>1
    <2> HIDE DEF context
    <2>4. QED
      BY <2>2, <2>3
  <1> HIDE DEF context, rest, units, k
  <1>11. <<header>> \o context = Message(k, size)
    <2> DEFINE one == <<header>>
               all == one \o context
    <2>1. k \in Nat /\ header \in Units
      BY <1>3, UnitFacts DEF k
    <2>2. one \in Seq(Units) /\ Len(one) = 1 /\ one[1] = header
      BY <2>1
    <2>3. /\ Message(k, size) \in Seq(Units) /\ Len(Message(k, size)) = 1 + size
          /\ \A i \in 1..(1 + size) : Message(k, size)[i] = Unit(k, i - 1)
      BY <1>5, <2>1, MessageFacts
    <2> HIDE DEF one
    <2>4. /\ all \in Seq(Units) /\ Len(all) = Len(one) + Len(context)
          /\ \A j \in 1..Len(one) : all[j] = one[j]
          /\ \A j \in 1..Len(context) : all[Len(one) + j] = context[j]
      <3>1. one \in Seq(Units) /\ context \in Seq(Units)
        BY <1>10, <2>2
      <3>2. QED
        BY <3>1, Joined
    <2> HIDE DEF all
    <2>5. Len(all) = Len(Message(k, size))
      BY <1>5, <1>10, <2>2, <2>3, <2>4
    <2>6. ASSUME NEW j \in 1..Len(all) PROVE all[j] = Message(k, size)[j]
      <3>1. j \in 1..(1 + size) /\ j \in Nat /\ j >= 1
        BY <1>5, <2>3, <2>5
      <3>2. CASE j = 1
        <4>1. 1 \in 1..Len(one) /\ 1 \in 1..(1 + size) /\ 1 - 1 = 0
          BY <1>5, <2>2
        <4>2. all[1] = header /\ Message(k, size)[1] = Unit(k, 0)
          BY <2>2, <2>3, <2>4, <4>1
        <4>3. QED
          BY <1>3, <3>2, <4>2
      <3>3. CASE j > 1
        <4>1. j - 1 \in 1..size /\ 1 + (j - 1) = j
          BY <1>5, <3>1, <3>3
        <4>2. all[1 + (j - 1)] = context[j - 1] /\ context[j - 1] = Unit(k, j - 1)
          BY <1>10, <2>2, <2>4, <4>1
        <4>3. QED
          BY <2>3, <3>1, <4>1, <4>2
      <3>4. QED
        BY <3>1, <3>2, <3>3
    <2>7. all = Message(k, size)
      BY <2>3, <2>4, <2>5, <2>6, Same
    <2>8. QED
      BY <2>7 DEF all, one
  <1>12. MessagesFit(d)
    <2>1. d.bytes \in Seq(Units) /\ d.pipe \in Seq(Units) /\ d.scheduled \in Seq(0..MaxContext)
      BY <1>2, <1>4, <1>6
    <2>2. Len(d.bytes) <= 1 + MaxContext
      <3>1. Len(d.bytes) = Len(bytes) + 1 - (2 + size)
        BY <1>4, <1>6
      <3>2. QED
        BY <1>5, <3>1
    <2>3. AreMessages(d.bytes \o d.pipe, d.numCalled, d.scheduled)
      BY <1>4, <1>7, <1>8 DEF k
    <2>4. d.last.header = Unit(d.numCalled, 0) /\ d.numCalled >= 1
      BY <1>3, <1>4
    <2>5. <<d.last.header>> \o d.last.context = Message(d.numCalled, d.scheduled[d.numCalled])
      BY <1>3, <1>4, <1>11 DEF k
    <2>6. QED
      BY <1>4, <2>1, <2>2, <2>3, <2>4, <2>5 DEF MessagesFit
  <1>13. ControlFits(d)
    BY <1>1, <1>4 DEF ControlFits
  <1>14. QED
    BY <1>4, <1>12, <1>13, MessagesChanged DEF d

\* A message of negative size.
LEMMA WithoutContextFits ==
    ASSUME NEW l, NEW m, Fits(l, m), l.phase = "messages", HasMessage(l), ContextSize(l) < 0
    PROVE  Fits(WithoutContext(l), m)
  <1> DEFINE d == WithoutContext(l)
             k == l.numCalled + 1
  <1>1. DOMAIN l = Fields /\ MessagesFit(l) /\ ControlFits(l) /\ l.bytes # <<>>
    BY DEF Fits, ControlFits, HasMessage
  <1>2. /\ DOMAIN d = Fields /\ d.phase = "undefined" /\ d.bytes = l.bytes /\ d.pipe = l.pipe
        /\ d.last.kind = "message"
        /\ d.scheduled = l.scheduled /\ d.cursor = l.cursor /\ d.now = l.now /\ d.expiry = l.expiry
        /\ d.handles = l.handles /\ d.ready = l.ready /\ d.selected = l.selected
        /\ d.timers = l.timers /\ d.numTimers = l.numTimers /\ d.numCalled = l.numCalled
    BY <1>1 DEF Fields, WithoutContext
  <1> HIDE DEF d
  <1>3. /\ k \in 1..Len(l.scheduled) /\ l.scheduled[k] \in 0..MaxContext /\ l.scheduled \in Seq(Nat)
        /\ ContextSize(l) = AsChar(l.scheduled[k])
    BY <1>1, HeaderFacts
  <1>4. IsNegative(l.scheduled[k])
    BY <1>3, CharFacts
  <1>5. ~FitChar(l.scheduled)
    <2>1. k \in DOMAIN l.scheduled
      BY <1>3
    <2>2. QED
      BY <1>4, <2>1 DEF FitChar
  <1>6. MessagesFit(d)
    BY <1>1, <1>2, <1>5 DEF MessagesFit
  <1>7. ControlFits(d)
    BY <1>1, <1>2 DEF ControlFits
  <1>8. Fits(d, m)
    BY <1>2, <1>6, <1>7, MessagesChanged
  <1>9. QED
    BY <1>8 DEF d

\* When there is no whole message left, there is room for the rest of one, as long as all sizes
\* are what they were.
LEMMA WithoutMessageFits ==
    ASSUME NEW l, NEW m, Fits(l, m), l.phase = "messages", ~HasMessage(l)
    PROVE  Fits([l EXCEPT !.phase = "handles", !.last = NoCall], m)
  <1> DEFINE d == [l EXCEPT !.phase = "handles", !.last = NoCall]
  <1>1. DOMAIN l = Fields /\ MessagesFit(l) /\ ControlFits(l)
    BY DEF Fits, ControlFits
  <1>2. /\ DOMAIN d = Fields /\ d.bytes = l.bytes /\ d.pipe = l.pipe /\ d.numCalled = l.numCalled
        /\ d.last = NoCall /\ d.phase = "handles" /\ d.scheduled = l.scheduled /\ d.cursor = l.cursor
        /\ d.now = l.now /\ d.expiry = l.expiry /\ d.handles = l.handles /\ d.ready = l.ready
        /\ d.selected = l.selected /\ d.timers = l.timers /\ d.numTimers = l.numTimers
    BY <1>1 DEF Fields
  <1> HIDE DEF d
  <1>3. ASSUME FitChar(l.scheduled) PROVE Len(l.bytes) <= MaxContext
    <2>1. CASE l.bytes = <<>>
      BY <2>1, LoopAssumption
    <2>2. CASE l.bytes # <<>>
      <3> DEFINE size == l.scheduled[l.numCalled + 1]
                 n == Len(l.bytes)
      <3>1. /\ n \in Nat /\ size \in 0..MaxContext /\ ContextSize(l) = AsChar(size)
            /\ l.numCalled + 1 \in 1..Len(l.scheduled) /\ l.scheduled \in Seq(Nat)
        BY <1>1, <2>2, HeaderFacts
      <3>2. l.numCalled + 1 \in DOMAIN l.scheduled
        BY <3>1
      <3>3. ~IsNegative(size)
        BY <1>3, <3>2 DEF FitChar
      <3>4. ContextSize(l) = size
        BY <3>1, <3>3, CharFacts
      <3>5. ~(1 + size \in 0..n)
        BY <2>2, <3>4 DEF HasMessage
      <3>6. MaxContext \in Nat
        BY LoopAssumption
      <3> HIDE DEF size, n
      <3>7. n <= MaxContext
        BY <3>1, <3>5, <3>6
      <3>8. QED
        BY <3>7 DEF n
    <2>3. QED
      BY <2>1, <2>2
  <1>4. MessagesFit(d)
    BY <1>1, <1>2, <1>3 DEF MessagesFit, NoCall
  <1>5. ControlFits(d)
    BY <1>1, <1>2 DEF ControlFits
  <1>6. QED
    <2>1. d.last.kind = "none"
      BY <1>2 DEF NoCall
    <2>2. Fits(d, m)
      BY <1>2, <1>4, <1>5, <2>1, MessagesChanged
    <2>3. QED
      BY <2>2 DEF d

-----------------------------------------------------------------------------
(* File handles *)

LEMMA HandleAdded ==
    ASSUME NEW h, NEW ready, NEW selected, NEW owners, NEW wanted, AreHandles(h, ready, selected, owners, wanted),
           NEW owner \in Owner, owner \notin owners, NEW fd \in Nat, NEW interests \in SUBSET {"read", "write"},
           owner = Listener => interests = wanted
    PROVE  AreHandles(
               Append(h, [owner |-> owner, fd |-> fd, interests |-> interests, awaiting |-> FALSE]),
               ready, selected, owners \cup {owner}, wanted)
  <1> DEFINE e == [owner |-> owner, fd |-> fd, interests |-> interests, awaiting |-> FALSE]
             g == Append(h, e)
             n == Len(h)
  <1>1. h \in Seq(Handle) /\ n \in Nat /\ DOMAIN h = 1..n
    BY DEF AreHandles
  <1>2. e \in Handle
    BY DEF Handle
  <1>3. e.owner = owner /\ e.interests = interests /\ e.awaiting = FALSE
    OBVIOUS
  <1> HIDE DEF e
  <1>4. g \in Seq(Handle) /\ DOMAIN g = 1..(n + 1) /\ g[n + 1] = e /\ \A i \in 1..n : g[i] = h[i]
    BY <1>1, <1>2
  <1> HIDE DEF g
  <1>5. \A i \in 1..(n + 1) : i = n + 1 \/ i \in 1..n
    BY <1>1
  <1> HIDE DEF n
  <1>6. \A i \in 1..n : g[i].owner \in owners /\ g[i].owner # owner
    BY <1>1, <1>4 DEF AreHandles
  <1>7. \A i, j \in 1..(n + 1) : g[i].owner = g[j].owner => i = j
    <2> SUFFICES ASSUME NEW i \in 1..(n + 1), NEW j \in 1..(n + 1), g[i].owner = g[j].owner PROVE i = j
      OBVIOUS
    <2>1. CASE i \in 1..n /\ j \in 1..n
      BY <1>1, <1>4, <2>1 DEF AreHandles
    <2>2. CASE i = n + 1 \/ j = n + 1
      BY <1>3, <1>4, <1>5, <1>6, <2>2
    <2>3. QED
      BY <1>5, <2>1, <2>2
  <1>8. \A i \in 1..(n + 1) : g[i].owner \in owners \cup {owner}
    BY <1>3, <1>4, <1>5, <1>6
  <1>9. \A o \in owners \cup {owner} : \E i \in 1..(n + 1) : g[i].owner = o
    <2>1. n + 1 \in 1..(n + 1) /\ \A i \in 1..n : i \in 1..(n + 1)
      BY <1>1
    <2>2. \A o \in owners : \E i \in 1..n : h[i].owner = o
      BY <1>1 DEF AreHandles
    <2>3. QED
      BY <1>3, <1>4, <2>1, <2>2
  <1>10. \A i \in 1..(n + 1) : g[i].owner = Listener => g[i].interests = wanted
    <2>1. \A i \in 1..n : h[i].owner = Listener => h[i].interests = wanted
      BY <1>1 DEF AreHandles
    <2>2. QED
      BY <1>3, <1>4, <1>5, <2>1
  <1>11. \A i \in 1..(n + 1) : g[i].awaiting =>
            \A ev \in {"read", "write"} : <<g[i].fd, ev>> \in ready => <<g[i].owner, ev>> \in selected
    <2>1. \A i \in 1..n : h[i].awaiting =>
            \A ev \in {"read", "write"} : <<h[i].fd, ev>> \in ready => <<h[i].owner, ev>> \in selected
      BY <1>1 DEF AreHandles
    <2>2. QED
      BY <1>3, <1>4, <1>5, <2>1
  <1>12. AreHandles(g, ready, selected, owners \cup {owner}, wanted)
    BY <1>4, <1>7, <1>8, <1>9, <1>10, <1>11 DEF AreHandles
  <1>13. QED
    BY <1>12 DEF g, e

LEMMA HandleRemoved ==
    ASSUME NEW h, NEW ready, NEW selected, NEW owners, NEW wanted, AreHandles(h, ready, selected, owners, wanted),
           NEW p \in DOMAIN h
    PROVE  AreHandles(RemoveAt(h, p), ready, selected, owners \ {h[p].owner}, wanted)
  <1> DEFINE g == RemoveAt(h, p)
             n == Len(h)
             k == n - 1
             Old(j) == IF j < p THEN j ELSE j + 1
             owner == h[p].owner
  <1>1. h \in Seq(Handle) /\ n \in Nat /\ DOMAIN h = 1..n /\ p \in 1..n /\ p \in Nat /\ k \in Nat /\ n = k + 1
    BY DEF AreHandles
  <1>2. g \in Seq(Handle) /\ IsRemoved(h, p, g)
    <2>1. p \in 1..Len(h)
      BY <1>1
    <2>2. QED
      BY <1>1, <2>1, Removed
  <1> HIDE DEF g
  <1>3. /\ DOMAIN g = 1..k /\ \A j \in 1..(p - 1) : g[j] = h[j]
        /\ \A j \in p..k : g[j] = h[j + 1]
    BY <1>2 DEF IsRemoved
  <1> HIDE DEF n, k
  <1>4. \A j \in 1..k : g[j] = h[Old(j)] /\ Old(j) \in 1..n /\ Old(j) # p
    BY <1>1, <1>3
  <1>5. \A i, j \in 1..k : Old(i) = Old(j) => i = j
    BY <1>1
  <1>6. \A i \in 1..n : i # p => \E j \in 1..k : Old(j) = i
    <2> TAKE i \in 1..n
    <2> HAVE i # p
    <2>1. CASE i < p
      <3>1. i \in 1..k /\ Old(i) = i
        BY <1>1, <2>1
      <3>2. QED
        BY <3>1
    <2>2. CASE i > p
      <3>1. i - 1 \in 1..k /\ Old(i - 1) = i
        BY <1>1, <2>2
      <3>2. QED
        BY <3>1
    <2>3. QED
      BY <1>1, <2>1, <2>2
  <1> HIDE DEF Old
  <1>7. /\ \A i, j \in 1..n : h[i].owner = h[j].owner => i = j
        /\ \A i \in 1..n : h[i].owner \in owners
        /\ \A o \in owners : \E i \in 1..n : h[i].owner = o
        /\ \A i \in 1..n : h[i].owner = Listener => h[i].interests = wanted
        /\ \A i \in 1..n : h[i].awaiting =>
            \A ev \in {"read", "write"} : <<h[i].fd, ev>> \in ready => <<h[i].owner, ev>> \in selected
    BY <1>1 DEF AreHandles
  <1>8. \A i, j \in 1..k : g[i].owner = g[j].owner => i = j
    BY <1>4, <1>5, <1>7
  <1>9. \A i \in 1..k : g[i].owner \in owners \ {owner}
    BY <1>1, <1>4, <1>7
  <1>10. \A o \in owners \ {owner} : \E i \in 1..k : g[i].owner = o
    <2> TAKE o \in owners \ {owner}
    <2>1. PICK i \in 1..n : h[i].owner = o
      BY <1>7
    <2>2. i # p
      BY <2>1
    <2>3. PICK j \in 1..k : Old(j) = i
      BY <1>6, <2>2
    <2>4. QED
      BY <1>4, <2>1, <2>3
  <1>11. \A i \in 1..k : g[i].owner = Listener => g[i].interests = wanted
    BY <1>4, <1>7
  <1>12. \A i \in 1..k : g[i].awaiting =>
            \A ev \in {"read", "write"} : <<g[i].fd, ev>> \in ready => <<g[i].owner, ev>> \in selected
    BY <1>4, <1>7
  <1>13. AreHandles(g, ready, selected, owners \ {owner}, wanted)
    BY <1>2, <1>3, <1>8, <1>9, <1>10, <1>11, <1>12 DEF AreHandles
  <1>14. QED
    BY <1>13 DEF g

\* What the listener wants changes with its interests, and only then.
LEMMA InterestsSet ==
    ASSUME NEW h, NEW ready, NEW selected, NEW owners, NEW wanted, AreHandles(h, ready, selected, owners, wanted),
           NEW p \in DOMAIN h, NEW interests \in SUBSET {"read", "write"}
    PROVE  AreHandles([h EXCEPT ![p].interests = interests], ready, selected, owners,
                      IF h[p].owner = Listener THEN interests ELSE wanted)
  <1> DEFINE g == [h EXCEPT ![p].interests = interests]
             n == Len(h)
             now == IF h[p].owner = Listener THEN interests ELSE wanted
  <1>1. h \in Seq(Handle) /\ n \in Nat /\ DOMAIN h = 1..n /\ p \in 1..n
    BY DEF AreHandles
  <1>2. \A i \in 1..n : h[i] \in Handle
    BY <1>1
  <1> HIDE DEF n
  <1>3. /\ DOMAIN g = 1..n /\ g[p].interests = interests
        /\ \A i \in 1..n : /\ g[i].owner = h[i].owner /\ g[i].fd = h[i].fd /\ g[i].awaiting = h[i].awaiting
                           /\ g[i] \in Handle /\ (i # p => g[i] = h[i])
    BY <1>1, <1>2 DEF Handle
  <1>4. g \in Seq(Handle)
    <2>1. g = [i \in 1..n |-> g[i]]
      BY <1>1
    <2> HIDE DEF g
    <2>2. g \in [1..n -> Handle]
      BY <1>3, <2>1
    <2>3. QED
      BY <1>1, <2>2
  <1> HIDE DEF g
  <1>5. /\ \A i, j \in 1..n : h[i].owner = h[j].owner => i = j
        /\ \A i \in 1..n : h[i].owner \in owners
        /\ \A o \in owners : \E i \in 1..n : h[i].owner = o
        /\ \A i \in 1..n : h[i].owner = Listener => h[i].interests = wanted
        /\ \A i \in 1..n : h[i].awaiting =>
            \A ev \in {"read", "write"} : <<h[i].fd, ev>> \in ready => <<h[i].owner, ev>> \in selected
    BY <1>1 DEF AreHandles
  <1>6. \A i \in 1..n : g[i].owner = Listener => g[i].interests = now
    <2> SUFFICES ASSUME NEW i \in 1..n, g[i].owner = Listener PROVE g[i].interests = now
      OBVIOUS
    <2>1. CASE i = p
      BY <1>3, <2>1
    <2>2. CASE i # p
      BY <1>1, <1>3, <1>5, <2>2
    <2>3. QED
      BY <2>1, <2>2
  <1> HIDE DEF now
  <1>7. AreHandles(g, ready, selected, owners, now)
    <2>1. /\ \A i, j \in 1..n : g[i].owner = g[j].owner => i = j
          /\ \A i \in 1..n : g[i].owner \in owners
          /\ \A o \in owners : \E i \in 1..n : g[i].owner = o
      BY <1>3, <1>5
    <2>2. \A i \in 1..n : g[i].awaiting =>
            \A ev \in {"read", "write"} : <<g[i].fd, ev>> \in ready => <<g[i].owner, ev>> \in selected
      BY <1>3, <1>5
    <2>3. QED
      BY <1>3, <1>4, <1>6, <2>1, <2>2 DEF AreHandles
  <1>8. QED
    BY <1>7 DEF g, now

\* Without a listener there is nothing that it should want.
LEMMA NothingIsWanted ==
    ASSUME NEW h, NEW ready, NEW selected, NEW owners, NEW wanted, AreHandles(h, ready, selected, owners, wanted),
           Listener \notin owners, NEW other
    PROVE  AreHandles(h, ready, selected, owners, other)
  BY DEF AreHandles

\* A loop that differs in its file handles, and in where the cursor is among them.
Rehandled(l, d) ==
    /\ DOMAIN d = Fields /\ d.cursor \in Nat \ {0}
    /\ d.phase = l.phase /\ d.running = l.running /\ d.ready = l.ready /\ d.timers = l.timers
    /\ d.numTimers = l.numTimers /\ d.now = l.now /\ d.expiry = l.expiry /\ d.pipe = l.pipe
    /\ d.bytes = l.bytes /\ d.scheduled = l.scheduled /\ d.numCalled = l.numCalled
    /\ d.selected = l.selected /\ d.last = l.last

Stands(l, owners, wanted) ==
    DOMAIN l = Fields /\ l.cursor \in Nat \ {0} /\ AreHandles(l.handles, l.ready, l.selected, owners, wanted)

LEMMA RehandledFits ==
    ASSUME NEW l, NEW m, Fits(l, m), NEW d, NEW n, Rehandled(l, d), ManagerFits(n),
           Stands(d, OwnersOf(n), Wanted(n))
    PROVE  Fits(d, n)
  <1>1. HandlesFit(d, n)
    BY DEF Stands, HandlesFit
  <1>2. QED
    BY <1>1, HandlesChanged DEF Rehandled

LEMMA FitsStands ==
    ASSUME NEW l, NEW m, Fits(l, m)
    PROVE  Stands(l, OwnersOf(m), Wanted(m)) /\ Rehandled(l, l)
  BY DEF Fits, ControlFits, HandlesFit, Stands, Rehandled

LEMMA RehandledTwice ==
    ASSUME NEW l, NEW d, NEW e, Rehandled(l, d), Rehandled(d, e)
    PROVE  Rehandled(l, e)
  BY DEF Rehandled

LEMMA RegisterStands ==
    ASSUME NEW l, NEW owners, NEW wanted, Stands(l, owners, wanted),
           NEW owner \in Owner, owner \notin owners, NEW interests \in SUBSET {"read", "write"},
           owner = Listener => interests = wanted
    PROVE  LET d == Register(l, owner, FreeDescriptor(l), interests)
           IN Rehandled(l, d) /\ Stands(d, owners \cup {owner}, wanted)
  <1> DEFINE d == Register(l, owner, FreeDescriptor(l), interests)
             h == Append(l.handles,
                    [owner |-> owner, fd |-> FreeDescriptor(l), interests |-> interests, awaiting |-> FALSE])
  <1>1. FreeDescriptor(l) \in Nat
    BY DescriptorIsFree DEF Stands, AreHandles
  <1>2. AreHandles(h, l.ready, l.selected, owners \cup {owner}, wanted)
    BY <1>1, HandleAdded DEF Stands
  <1>3. d = [l EXCEPT !.handles = h]
    BY DEF Register
  <1> HIDE DEF h, d
  <1>4. Rehandled(l, d) /\ d.handles = h
    BY <1>3 DEF Stands, Fields, Rehandled
  <1>5. Stands(d, owners \cup {owner}, wanted)
    BY <1>2, <1>4 DEF Stands, Rehandled
  <1>6. QED
    BY <1>4, <1>5 DEF d

LEMMA PlaceOfHandle ==
    ASSUME NEW l, NEW owners, NEW wanted, Stands(l, owners, wanted), NEW owner \in owners
    PROVE  HandlePlace(l, owner) \in DOMAIN l.handles /\ l.handles[HandlePlace(l, owner)].owner = owner
  <1>1. \E i \in DOMAIN l.handles : l.handles[i].owner = owner
    BY DEF Stands, AreHandles
  <1>2. QED
    BY <1>1 DEF HandlePlace

LEMMA DeregisterStands ==
    ASSUME NEW l, NEW owners, NEW wanted, Stands(l, owners, wanted), NEW owner \in owners
    PROVE  Rehandled(l, Deregister(l, owner)) /\ Stands(Deregister(l, owner), owners \ {owner}, wanted)
  <1> DEFINE d == Deregister(l, owner)
             p == HandlePlace(l, owner)
             h == RemoveAt(l.handles, p)
             c == IF p < l.cursor THEN l.cursor - 1 ELSE l.cursor
  <1>1. p \in DOMAIN l.handles /\ l.handles[p].owner = owner
    BY PlaceOfHandle
  <1>2. AreHandles(h, l.ready, l.selected, owners \ {owner}, wanted)
    BY <1>1, HandleRemoved DEF Stands
  <1>3. c \in Nat \ {0}
    <2>1. p \in Nat /\ p >= 1
      BY <1>1 DEF Stands, AreHandles
    <2>2. l.cursor \in Nat \ {0}
      BY DEF Stands
    <2> HIDE DEF p
    <2>3. QED
      BY <2>1, <2>2
  <1>4. d = [l EXCEPT !.handles = h, !.cursor = c]
    BY DEF Deregister
  <1> HIDE DEF h, d, c, p
  <1>5. Rehandled(l, d) /\ d.handles = h
    BY <1>3, <1>4 DEF Stands, Fields, Rehandled
  <1>6. Stands(d, owners \ {owner}, wanted)
    BY <1>2, <1>5 DEF Stands, Rehandled
  <1>7. QED
    BY <1>5, <1>6 DEF d

LEMMA UpdateInterestsStands ==
    ASSUME NEW l, NEW owners, NEW wanted, Stands(l, owners, wanted), NEW owner \in owners,
           NEW interests \in SUBSET {"read", "write"}
    PROVE  /\ Rehandled(l, UpdateInterests(l, owner, interests))
           /\ Stands(UpdateInterests(l, owner, interests), owners,
                     IF owner = Listener THEN interests ELSE wanted)
  <1> DEFINE d == UpdateInterests(l, owner, interests)
             p == HandlePlace(l, owner)
             h == [l.handles EXCEPT ![p].interests = interests]
             now == IF owner = Listener THEN interests ELSE wanted
  <1>1. p \in DOMAIN l.handles /\ l.handles[p].owner = owner
    BY PlaceOfHandle
  <1>2. AreHandles(h, l.ready, l.selected, owners, now)
    <2> HIDE DEF p
    <2>1. QED
      BY <1>1, InterestsSet DEF Stands
  <1>3. d = [l EXCEPT !.handles = h]
    BY DEF UpdateInterests
  <1> HIDE DEF h, d, p, now
  <1>4. Rehandled(l, d) /\ d.handles = h
    BY <1>3 DEF Stands, Fields, Rehandled
  <1>5. Stands(d, owners, now)
    BY <1>2, <1>4 DEF Stands, Rehandled
  <1>6. QED
    BY <1>4, <1>5 DEF d, now

-----------------------------------------------------------------------------
(* Streams *)

OpenOf(m) == {i \in 1..MaxStreams : m.streams[i] # NoStream}

LEMMA OwnersFacts ==
    ASSUME NEW m, ManagerFits(m)
    PROVE  /\ OwnersOf(m) \subseteq Owner /\ (Listener \in OwnersOf(m) <=> m.listening)
           /\ Listener \in Owner /\ SelfPipe \in OwnersOf(m)
           /\ \A i \in OpenOf(m) : Stream(m, i) \in OwnersOf(m) /\ Stream(m, i) # Listener
  <1>1. \A i \in 1..MaxStreams : m.streams[i] \in Nat
    <2>1. m.streams \in [1..MaxStreams -> 0..m.numAccepted] /\ m.numAccepted \in Nat
      BY DEF ManagerFits
    <2>2. \A i \in 1..MaxStreams : m.streams[i] \in 0..m.numAccepted
      BY <2>1
    <2>3. 0..m.numAccepted \subseteq Nat
      BY <2>1
    <2>4. QED
      BY <2>2, <2>3
  <1>2. SelfPipe \in Owner /\ Listener \in Owner /\ SelfPipe # Listener
    BY DEF Owner, SelfPipe, Listener
  <1>3. \A i \in 1..MaxStreams : Stream(m, i) \in Owner /\ Stream(m, i) # Listener
    BY <1>1 DEF Owner, Listener, Stream
  <1>4. m.listening \in BOOLEAN
    BY DEF ManagerFits
  <1>5. QED
    BY <1>2, <1>3, <1>4 DEF OwnersOf, OpenOf

LEMMA NumFacts ==
    ASSUME NEW m
    PROVE  /\ IsFiniteSet(OpenOf(m)) /\ NumStreams(m) = Cardinality(OpenOf(m))
           /\ NumStreams(m) \in Nat /\ NumStreams(m) <= MaxStreams /\ MaxStreams \in Nat \ {0}
  <1>1. MaxStreams \in Nat \ {0}
    BY StreamsAssumption
  <1>2. IsFiniteSet(1..MaxStreams) /\ Cardinality(1..MaxStreams) = MaxStreams
    BY <1>1, FS_Interval
  <1>3. OpenOf(m) \subseteq 1..MaxStreams
    BY DEF OpenOf
  <1>4. IsFiniteSet(OpenOf(m)) /\ Cardinality(OpenOf(m)) <= MaxStreams
    BY <1>2, <1>3, FS_Subset
  <1>5. NumStreams(m) = Cardinality(OpenOf(m))
    BY DEF NumStreams, OpenOf
  <1>6. QED
    BY <1>1, <1>4, <1>5, FS_CardinalityType

LEMMA WantedFacts ==
    ASSUME NEW m
    PROVE  Wanted(m) \in SUBSET {"read", "write"} /\ (Wanted(m) = {"read"} <=> NumStreams(m) < MaxStreams)
  BY DEF Wanted

\* A listener is opened when no stream is open: it may be asked for as many as there are slots.
LEMMA OpenListenerFits ==
    ASSUME NEW l, NEW m, Fits(l, m), ~m.listening, OpenOf(m) = {}
    PROVE  Fits(OpenListener(Both(l, m)).l, OpenListener(Both(l, m)).m)
  <1> DEFINE d == Register(l, Listener, FreeDescriptor(l), {"read"})
             n == [m EXCEPT !.listening = TRUE]
             b == OpenListener(Both(l, m))
  <1>1. b.l = d /\ b.m = n
    BY DEF OpenListener, Both
  <1>2. Stands(l, OwnersOf(m), Wanted(m)) /\ ManagerFits(m)
    BY FitsStands DEF Fits
  <1>3. DOMAIN m = {"most", "listening", "streams", "numAccepted"}
    BY <1>2 DEF ManagerFits
  <1>4. /\ DOMAIN n = DOMAIN m /\ n.listening /\ n.streams = m.streams /\ n.numAccepted = m.numAccepted
    BY <1>3
  <1> HIDE DEF n, b
  <1>5. ManagerFits(n)
    BY <1>2, <1>3, <1>4 DEF ManagerFits
  <1>6. OwnersOf(n) = OwnersOf(m) \cup {Listener} /\ Wanted(n) = Wanted(m)
    BY <1>4 DEF OwnersOf, Wanted, NumStreams, Stream
  <1>7. Wanted(m) = {"read"}
    <2>1. NumStreams(m) = 0 /\ MaxStreams \in Nat \ {0}
      BY NumFacts, FS_EmptySet
    <2>2. QED
      BY <2>1, WantedFacts
  <1>8. Listener \in Owner /\ Listener \notin OwnersOf(m)
    BY <1>2, OwnersFacts
  <1>9. Rehandled(l, d) /\ Stands(d, OwnersOf(m) \cup {Listener}, Wanted(m))
    BY <1>2, <1>7, <1>8, RegisterStands
  <1> HIDE DEF d
  <1>10. QED
    BY <1>1, <1>5, <1>6, <1>9, RehandledFits DEF b

LEMMA CloseListenerFits ==
    ASSUME NEW l, NEW m, Fits(l, m), m.listening
    PROVE  Fits(CloseListener(Both(l, m)).l, CloseListener(Both(l, m)).m)
  <1> DEFINE d == Deregister(l, Listener)
             n == [m EXCEPT !.listening = FALSE]
             b == CloseListener(Both(l, m))
  <1>1. b.l = d /\ b.m = n
    BY DEF CloseListener, Both
  <1>2. Stands(l, OwnersOf(m), Wanted(m)) /\ ManagerFits(m)
    BY FitsStands DEF Fits
  <1>3. DOMAIN m = {"most", "listening", "streams", "numAccepted"}
    BY <1>2 DEF ManagerFits
  <1>4. /\ DOMAIN n = DOMAIN m /\ n.listening = FALSE /\ n.streams = m.streams /\ n.numAccepted = m.numAccepted
    BY <1>3
  <1> HIDE DEF n, b
  <1>5. ManagerFits(n)
    BY <1>2, <1>3, <1>4 DEF ManagerFits
  <1>6. OwnersOf(n) = OwnersOf(m) \ {Listener} /\ Wanted(n) = Wanted(m)
    <2>1. \A i \in 1..MaxStreams : Stream(m, i) # Listener /\ Stream(n, i) = Stream(m, i)
      BY <1>4 DEF Stream, Listener
    <2>2. SelfPipe # Listener
      BY DEF SelfPipe, Listener
    <2>3. OwnersOf(n) = OwnersOf(m) \ {Listener}
      BY <1>4, <2>1, <2>2 DEF OwnersOf
    <2>4. QED
      BY <1>4, <2>3 DEF Wanted, NumStreams
  <1>7. Rehandled(l, d) /\ Stands(d, OwnersOf(m) \ {Listener}, Wanted(m))
    BY <1>2, OwnersFacts, DeregisterStands
  <1> HIDE DEF d
  <1>8. QED
    BY <1>1, <1>5, <1>6, <1>7, RehandledFits DEF b

LEMMA StreamUpdateFits ==
    ASSUME NEW l, NEW m, Fits(l, m), NEW i \in OpenOf(m), NEW interests \in SUBSET {"read", "write"}
    PROVE  Fits(UpdateInterests(l, Stream(m, i), interests), m)
  <1> DEFINE d == UpdateInterests(l, Stream(m, i), interests)
  <1>1. Stands(l, OwnersOf(m), Wanted(m)) /\ ManagerFits(m)
    BY FitsStands DEF Fits
  <1>2. Stream(m, i) \in OwnersOf(m) /\ Stream(m, i) # Listener
    BY <1>1, OwnersFacts
  <1>3. Rehandled(l, d) /\ Stands(d, OwnersOf(m), Wanted(m))
    BY <1>1, <1>2, UpdateInterestsStands
  <1> HIDE DEF d
  <1>4. QED
    BY <1>1, <1>3, RehandledFits DEF d

\* A slot is free again; the listener, who wanted no more streams, wants one.
LEMMA CloseStreamFits ==
    ASSUME NEW l, NEW m, Fits(l, m), NEW i \in OpenOf(m)
    PROVE  Fits(CloseStream(Both(l, m), i).l, CloseStream(Both(l, m), i).m)
  <1> DEFINE owner == Stream(m, i)
             d == Deregister(l, owner)
             n == [m EXCEPT !.streams[i] = NoStream]
             e == UpdateInterests(d, Listener, {"read"})
             b == CloseStream(Both(l, m), i)
  <1>1. b.m = n /\ b.l = IF n.listening /\ MaxStreams - NumStreams(n) = 1 THEN e ELSE d
    BY DEF CloseStream, Both
  <1>2. Stands(l, OwnersOf(m), Wanted(m)) /\ ManagerFits(m)
    BY FitsStands DEF Fits
  <1>3. /\ DOMAIN m = {"most", "listening", "streams", "numAccepted"} /\ i \in 1..MaxStreams
        /\ m.streams \in [1..MaxStreams -> 0..m.numAccepted] /\ m.numAccepted \in Nat
        /\ m.listening \in BOOLEAN /\ m.streams[i] # NoStream
        /\ \A j, k \in 1..MaxStreams : m.streams[j] # NoStream /\ m.streams[j] = m.streams[k] => j = k
    BY <1>2 DEF ManagerFits, OpenOf
  <1>4. /\ DOMAIN n = DOMAIN m /\ n.listening = m.listening /\ n.numAccepted = m.numAccepted
        /\ n.streams = [m.streams EXCEPT ![i] = NoStream]
    BY <1>3
  <1> HIDE DEF n, b
  <1>5. /\ n.streams \in [1..MaxStreams -> 0..n.numAccepted] /\ n.streams[i] = NoStream
        /\ \A j \in 1..MaxStreams : j # i => n.streams[j] = m.streams[j]
    <2>1. NoStream \in 0..m.numAccepted
      BY <1>3 DEF NoStream
    <2>2. QED
      BY <1>3, <1>4, <2>1
  <1>6. ManagerFits(n)
    <2>1. \A j, k \in 1..MaxStreams : n.streams[j] # NoStream /\ n.streams[j] = n.streams[k] => j = k
      BY <1>3, <1>5
    <2>2. QED
      BY <1>3, <1>4, <1>5, <2>1 DEF ManagerFits
  <1>7. OpenOf(n) = OpenOf(m) \ {i}
    BY <1>5 DEF OpenOf
  <1>8. OwnersOf(n) = OwnersOf(m) \ {owner}
    <2>1. \A j \in OpenOf(n) : Stream(n, j) = Stream(m, j)
      BY <1>5, <1>7 DEF Stream, OpenOf
    <2>2. \A j \in OpenOf(m) : Stream(m, j) = owner => j = i
      BY <1>3 DEF Stream, OpenOf
    <2>3. OwnersOf(n) = {SelfPipe} \cup {o \in {Listener} : m.listening} \cup {Stream(n, j) : j \in OpenOf(n)}
      BY <1>4 DEF OwnersOf, OpenOf
    <2>4. OwnersOf(m) = {SelfPipe} \cup {o \in {Listener} : m.listening} \cup {Stream(m, j) : j \in OpenOf(m)}
      BY DEF OwnersOf, OpenOf
    <2>5. SelfPipe # owner /\ Listener # owner
      BY DEF SelfPipe, Listener, Stream
    <2> HIDE DEF owner
    <2>6. {Stream(n, j) : j \in OpenOf(n)} = {Stream(m, j) : j \in OpenOf(m)} \ {owner}
      <3>1. ASSUME NEW j \in OpenOf(n) PROVE Stream(n, j) \in {Stream(m, k) : k \in OpenOf(m)} \ {owner}
        BY <1>7, <2>1, <2>2
      <3>2. ASSUME NEW j \in OpenOf(m), Stream(m, j) # owner PROVE Stream(m, j) \in {Stream(n, k) : k \in OpenOf(n)}
        <4>1. j \in OpenOf(n)
          BY <1>7, <3>2 DEF owner
        <4>2. QED
          BY <2>1, <4>1
      <3>3. QED
        BY <3>1, <3>2
    <2>7. QED
      BY <2>3, <2>4, <2>5, <2>6
  <1>9. /\ NumStreams(n) = NumStreams(m) - 1 /\ NumStreams(m) \in Nat /\ NumStreams(m) <= MaxStreams
        /\ MaxStreams \in Nat /\ NumStreams(n) \in Nat
    <2>1. Cardinality(OpenOf(m) \ {i}) = Cardinality(OpenOf(m)) - 1
      BY NumFacts, FS_RemoveElement
    <2>2. QED
      BY <1>7, <2>1, NumFacts
  <1>10. Wanted(n) = {"read"}
    BY <1>9, WantedFacts
  <1>11. owner \in OwnersOf(m) /\ owner # Listener /\ (Listener \in OwnersOf(m) <=> m.listening)
    BY <1>2, OwnersFacts
  <1>12. Rehandled(l, d) /\ Stands(d, OwnersOf(n), Wanted(m))
    BY <1>2, <1>8, <1>11, DeregisterStands
  <1> HIDE DEF d, owner
  <1>13. CASE n.listening /\ MaxStreams - NumStreams(n) = 1
    <2>1. Listener \in OwnersOf(n)
      BY <1>4, <1>8, <1>11, <1>13
    <2>2. Rehandled(d, e) /\ Stands(e, OwnersOf(n), {"read"})
      BY <1>12, <2>1, UpdateInterestsStands
    <2> HIDE DEF e
    <2>3. Rehandled(l, e)
      BY <1>12, <2>2, RehandledTwice
    <2>4. QED
      BY <1>1, <1>6, <1>10, <1>13, <2>2, <2>3, RehandledFits DEF b
  <1>14. CASE n.listening /\ MaxStreams - NumStreams(n) # 1
    <2>1. Wanted(m) = {"read"}
      <3>1. NumStreams(m) < MaxStreams
        BY <1>9, <1>14
      <3>2. QED
        BY <3>1, WantedFacts
    <2>2. QED
      BY <1>1, <1>6, <1>10, <1>12, <1>14, <2>1, RehandledFits DEF b
  <1>15. CASE ~n.listening
    <2>1. Listener \notin OwnersOf(n)
      BY <1>4, <1>8, <1>11, <1>15
    <2>2. Stands(d, OwnersOf(n), Wanted(n))
      BY <1>12, <2>1, NothingIsWanted DEF Stands
    <2>3. QED
      BY <1>1, <1>6, <1>12, <1>15, <2>2, RehandledFits DEF b
  <1>16. QED
    BY <1>13, <1>14, <1>15

\* A stream that has been accepted gets a number that none has had, and the listener wants
\* no more streams once all slots are taken.
LEMMA AcceptFits ==
    ASSUME NEW l, NEW m, Fits(l, m), m.listening, NumStreams(m) < MaxStreams
    PROVE  LET a == AcceptTCPStream(Both(l, m))
               i == FreeSlot(m)
           IN Fits(a.l, a.m) /\ i \in OpenOf(a.m)
  <1> DEFINE i == FreeSlot(m)
             n == [m EXCEPT !.streams[i] = m.numAccepted + 1, !.numAccepted = @ + 1]
             owner == Stream(n, i)
             d == Register(l, owner, FreeDescriptor(l), {})
             e == UpdateInterests(d, Listener, {})
             a == AcceptTCPStream(Both(l, m))
  <1>1. a.m = n /\ a.l = IF NumStreams(n) = MaxStreams THEN e ELSE d
    BY DEF AcceptTCPStream, Both
  <1>2. Stands(l, OwnersOf(m), Wanted(m)) /\ ManagerFits(m)
    BY FitsStands DEF Fits
  <1>3. /\ DOMAIN m = {"most", "listening", "streams", "numAccepted"} /\ m.numAccepted \in Nat
        /\ m.streams \in [1..MaxStreams -> 0..m.numAccepted]
        /\ \A j, k \in 1..MaxStreams : m.streams[j] # NoStream /\ m.streams[j] = m.streams[k] => j = k
    BY <1>2 DEF ManagerFits
  <1>4. i \in 1..MaxStreams /\ m.streams[i] = NoStream
    <2> DEFINE free == {j \in 1..MaxStreams : m.streams[j] = NoStream}
    <2>1. free # {}
      <3>1. SUFFICES ASSUME free = {} PROVE FALSE
        OBVIOUS
      <3>2. OpenOf(m) = 1..MaxStreams
        BY <3>1 DEF OpenOf
      <3>3. NumStreams(m) = MaxStreams
        BY <3>2, NumFacts, FS_Interval
      <3>4. QED
        BY <3>3, NumFacts
    <2>2. PICK j \in free : \A k \in free : j <= k
      <3>1. free \subseteq Nat
        OBVIOUS
      <3>2. QED
        BY <2>1, <3>1, Least
    <2>3. \A k \in 1..(j - 1) : m.streams[k] # NoStream
      <3> SUFFICES ASSUME NEW k \in 1..(j - 1), m.streams[k] = NoStream PROVE FALSE
        OBVIOUS
      <3>1. j \in Nat /\ j <= MaxStreams /\ MaxStreams \in Nat
        BY NumFacts
      <3>2. k \in 1..MaxStreams /\ k < j
        BY <3>1
      <3>3. k \in free
        BY <3>2
      <3>4. QED
        BY <2>2, <3>1, <3>2, <3>3
    <2>4. \E k \in 1..MaxStreams : m.streams[k] = NoStream /\ \A o \in 1..(k - 1) : m.streams[o] # NoStream
      BY <2>2, <2>3
    <2>5. QED
      BY <2>4 DEF FreeSlot
  <1> HIDE DEF i
  <1>5. /\ DOMAIN n = DOMAIN m /\ n.listening = m.listening /\ n.numAccepted = m.numAccepted + 1
        /\ n.streams = [m.streams EXCEPT ![i] = m.numAccepted + 1]
    BY <1>3
  <1> HIDE DEF n, a
  <1>6. /\ n.streams \in [1..MaxStreams -> 0..n.numAccepted] /\ n.streams[i] = m.numAccepted + 1
        /\ \A j \in 1..MaxStreams : j # i => n.streams[j] = m.streams[j]
    <2>1. m.numAccepted + 1 \in 0..n.numAccepted /\ 0..m.numAccepted \subseteq 0..n.numAccepted
      BY <1>3, <1>5
    <2>2. QED
      BY <1>3, <1>4, <1>5, <2>1
  <1>7. \A j \in 1..MaxStreams : m.streams[j] # m.numAccepted + 1
    <2> TAKE j \in 1..MaxStreams
    <2>1. m.streams[j] \in 0..m.numAccepted
      BY <1>3
    <2>2. QED
      BY <1>3, <2>1
  <1>8. ManagerFits(n)
    <2>1. \A j, k \in 1..MaxStreams : n.streams[j] # NoStream /\ n.streams[j] = n.streams[k] => j = k
      BY <1>3, <1>6, <1>7
    <2>2. n.numAccepted \in Nat /\ n.listening \in BOOLEAN
      BY <1>2, <1>3, <1>5 DEF ManagerFits
    <2>3. QED
      BY <1>3, <1>5, <1>6, <2>1, <2>2 DEF ManagerFits
  <1>9. m.numAccepted + 1 # NoStream
    BY <1>3 DEF NoStream
  <1>10. OpenOf(n) = OpenOf(m) \cup {i} /\ i \notin OpenOf(m)
    BY <1>4, <1>6, <1>9 DEF OpenOf
  <1>11. NumStreams(n) = NumStreams(m) + 1 /\ NumStreams(m) \in Nat /\ MaxStreams \in Nat /\ NumStreams(n) \in Nat
    <2>1. Cardinality(OpenOf(m) \cup {i}) = Cardinality(OpenOf(m)) + 1
      BY <1>10, NumFacts, FS_AddElement
    <2>2. QED
      BY <1>10, <2>1, NumFacts
  <1>12. owner.number = m.numAccepted + 1 /\ owner.kind = "stream" /\ owner \in Owner /\ owner # Listener
    BY <1>3, <1>6 DEF Stream, Owner, Listener
  <1>13. owner \notin OwnersOf(m)
    <2>1. \A j \in OpenOf(m) : Stream(m, j) # owner
      BY <1>7, <1>12 DEF Stream, OpenOf
    <2>2. SelfPipe # owner
      BY <1>12 DEF SelfPipe
    <2> HIDE DEF owner
    <2>3. QED
      BY <1>12, <2>1, <2>2 DEF OwnersOf, OpenOf
  <1>14. OwnersOf(n) = OwnersOf(m) \cup {owner}
    <2>1. \A j \in OpenOf(m) : Stream(n, j) = Stream(m, j)
      BY <1>6, <1>10 DEF Stream, OpenOf
    <2>2. OwnersOf(n) = {SelfPipe} \cup {o \in {Listener} : m.listening} \cup {Stream(n, j) : j \in OpenOf(n)}
      BY <1>5 DEF OwnersOf, OpenOf
    <2>3. OwnersOf(m) = {SelfPipe} \cup {o \in {Listener} : m.listening} \cup {Stream(m, j) : j \in OpenOf(m)}
      BY DEF OwnersOf, OpenOf
    <2>4. {Stream(n, j) : j \in OpenOf(n)} = {Stream(m, j) : j \in OpenOf(m)} \cup {owner}
      BY <1>10, <2>1
    <2> HIDE DEF owner
    <2>5. QED
      BY <2>2, <2>3, <2>4
  <1>15. Rehandled(l, d) /\ Stands(d, OwnersOf(n), Wanted(m))
    <2> HIDE DEF owner
    <2>1. QED
      BY <1>2, <1>12, <1>13, <1>14, RegisterStands
  <1>16. Wanted(m) = {"read"} /\ Listener \in OwnersOf(n)
    BY <1>2, <1>14, OwnersFacts, WantedFacts
  <1> HIDE DEF d, owner
  <1>17. i \in OpenOf(n)
    BY <1>10
  <1>18. CASE NumStreams(n) = MaxStreams
    <2>1. Wanted(n) = {}
      BY <1>11, <1>18 DEF Wanted
    <2>2. Rehandled(d, e) /\ Stands(e, OwnersOf(n), {})
      BY <1>15, <1>16, UpdateInterestsStands
    <2> HIDE DEF e
    <2>3. Rehandled(l, e)
      BY <1>15, <2>2, RehandledTwice
    <2>4. Fits(e, n)
      BY <1>8, <2>1, <2>2, <2>3, RehandledFits
    <2>5. QED
      BY <1>1, <1>17, <1>18, <2>4 DEF a, i
  <1>19. CASE NumStreams(n) # MaxStreams
    <2>1. Wanted(n) = {"read"}
      <3>1. NumStreams(n) < MaxStreams
        BY <1>11, <1>19
      <3>2. QED
        BY <3>1, WantedFacts
    <2>2. Fits(d, n)
      BY <1>8, <1>15, <1>16, <2>1, RehandledFits
    <2>3. QED
      BY <1>1, <1>17, <1>19, <2>2 DEF a, i
  <1>20. QED
    BY <1>18, <1>19

LEMMA PendingFits ==
    ASSUME NEW l, NEW m, Fits(l, m), m.listening, NumStreams(m) < MaxStreams,
           NEW r \in HandlePendingTCPStream(Both(l, m))
    PROVE  Fits(r.l, r.m)
  <1> DEFINE a == AcceptTCPStream(Both(l, m))
             i == FreeSlot(m)
             d == UpdateInterests(a.l, Stream(a.m, i), {"read"})
  <1>1. Fits(a.l, a.m) /\ i \in OpenOf(a.m)
    BY AcceptFits
  <1>2. Both(l, m).l = l /\ Both(l, m).m = m
    BY DEF Both
  <1>3. r = Both(l, m) \/ r = Both(d, a.m)
    BY <1>2 DEF HandlePendingTCPStream
  <1> HIDE DEF a, i
  <1>4. Fits(d, a.m)
    BY <1>1, StreamUpdateFits
  <1> HIDE DEF d
  <1>5. CASE r = Both(l, m)
    BY <1>2, <1>5
  <1>6. CASE r = Both(d, a.m)
    BY <1>4, <1>6 DEF Both
  <1>7. QED
    BY <1>3, <1>5, <1>6

-----------------------------------------------------------------------------
(* What any callback may do *)

LEMMA StopFits ==
    ASSUME NEW l, NEW m, Fits(l, m)
    PROVE  Fits(RunLoopStop(l), m)
  <1> DEFINE d == RunLoopStop(l)
  <1>1. DOMAIN l = Fields /\ l.cursor \in Nat \ {0} /\ HandlesFit(l, m) /\ ManagerFits(m)
    BY DEF Fits, ControlFits
  <1>2. d = [l EXCEPT !.running = FALSE]
    BY DEF RunLoopStop
  <1> HIDE DEF d
  <1>3. /\ DOMAIN d = Fields /\ d.cursor = l.cursor /\ d.handles = l.handles /\ d.ready = l.ready
        /\ d.phase = l.phase /\ d.last = l.last /\ d.now = l.now /\ d.expiry = l.expiry
        /\ d.selected = l.selected /\ d.timers = l.timers /\ d.numTimers = l.numTimers
        /\ d.scheduled = l.scheduled /\ d.pipe = l.pipe /\ d.bytes = l.bytes /\ d.numCalled = l.numCalled
    BY <1>1, <1>2 DEF Fields
  <1>4. HandlesFit(d, m)
    BY <1>1, <1>3 DEF HandlesFit
  <1>5. QED
    BY <1>1, <1>3, <1>4, HandlesChanged DEF d

LEMMA OperationsFit ==
    ASSUME NEW l, NEW m, Fits(l, m), NEW r \in Operations(Both(l, m))
    PROVE  Fits(r.l, r.m)
  <1> DEFINE b == Both(l, m)
  <1>1. b.l = l /\ b.m = m
    BY DEF Both
  <1> HIDE DEF b
  <1>2. \/ r = b
        \/ \E i \in OpenOf(m) : r = CloseStream(b, i)
        \/ \E i \in OpenOf(m), interests \in SUBSET {"read", "write"} :
                r = Both(UpdateInterests(l, Stream(m, i), interests), m)
        \/ m.listening /\ r = CloseListener(b)
        \/ ~m.listening /\ OpenOf(m) = {} /\ r = OpenListener(b)
        \/ \E deadline \in 0..MaxTime : r = Both(TimerRegister(l, deadline), m)
        \/ \E i \in DOMAIN l.timers : r = Both(TimerDeregister(l, i), m)
        \/ \E size \in 0..MaxContext : r = Both(ScheduleCallback(l, size), m)
        \/ r = Both(RunLoopStop(l), m)
    <2>1. r \in Operations(b)
      BY DEF b
    <2>2. QED
      BY <1>1, <2>1 DEF Operations, OpenOf
  <1>3. \A d, n : Both(d, n).l = d /\ Both(d, n).m = n
    BY DEF Both
  <1>4. CASE r = b
    BY <1>1, <1>4
  <1>5. CASE \E i \in OpenOf(m) : r = CloseStream(b, i)
    BY <1>5, CloseStreamFits DEF b
  <1>6. CASE \E i \in OpenOf(m), interests \in SUBSET {"read", "write"} :
                r = Both(UpdateInterests(l, Stream(m, i), interests), m)
    BY <1>3, <1>6, StreamUpdateFits
  <1>7. CASE m.listening /\ r = CloseListener(b)
    BY <1>7, CloseListenerFits DEF b
  <1>8. CASE ~m.listening /\ OpenOf(m) = {} /\ r = OpenListener(b)
    BY <1>8, OpenListenerFits DEF b
  <1>9. CASE \E deadline \in 0..MaxTime : r = Both(TimerRegister(l, deadline), m)
    BY <1>3, <1>9, TimerRegisterFits
  <1>10. CASE \E i \in DOMAIN l.timers : r = Both(TimerDeregister(l, i), m)
    BY <1>3, <1>10, TimerDeregisterFits
  <1>11. CASE \E size \in 0..MaxContext : r = Both(ScheduleCallback(l, size), m)
    BY <1>3, <1>11, ScheduleCallbackFits
  <1>12. CASE r = Both(RunLoopStop(l), m)
    BY <1>3, <1>12, StopFits
  <1>13. QED
    BY <1>2, <1>4, <1>5, <1>6, <1>7, <1>8, <1>9, <1>10, <1>11, <1>12

-----------------------------------------------------------------------------
(* The loop *)

\* Of a loop that is asked to call, only its control changes: what it has called is nothing,
\* or one owner of a file handle, of the events that it was selected for.
LEMMA ControlChanged ==
    ASSUME NEW l, NEW m, Fits(l, m), NEW d, ControlFits(d), HandlesFit(d, m), EventsFit(d),
           d.last.kind \in {"none", "stream", "listener"}, d.phase = "messages" \/ l.phase # "messages",
           d.phase = l.phase \/ d.phase # "undefined",
           d.timers = l.timers, d.numTimers = l.numTimers,
           d.scheduled = l.scheduled, d.pipe = l.pipe, d.bytes = l.bytes, d.numCalled = l.numCalled
    PROVE  Fits(d, m)
  <1>1. TimersFit(d)
    BY DEF Fits, TimersFit
  <1>2. MessagesFit(d)
    BY DEF Fits, MessagesFit
  <1>3. QED
    BY <1>1, <1>2 DEF Fits

LEMMA SelectedFits ==
    ASSUME NEW l, NEW m, Fits(l, m), l.phase = "select", NEW ready
    PROVE  Fits(Selected(l, ready), m)
  <1> DEFINE d == Selected(l, ready)
             h == l.handles
             n == Len(h)
             g == [i \in DOMAIN h |-> [h[i] EXCEPT !.awaiting = h[i].interests # {}]]
  <1>1. /\ DOMAIN l = Fields /\ ControlFits(l) /\ l.last = NoCall /\ ManagerFits(m)
        /\ AreHandles(h, l.ready, l.selected, OwnersOf(m), Wanted(m))
    BY DEF Fits, ControlFits, HandlesFit
  <1>2. d = [l EXCEPT !.phase = "timers", !.ready = ready, !.expiry = l.now,
                      !.selected = Owners(l, ready), !.handles = g]
    BY DEF Selected
  <1> HIDE DEF d
  <1>3. h \in Seq(Handle) /\ n \in Nat /\ DOMAIN h = 1..n
    BY <1>1 DEF AreHandles
  <1>4. \A i \in 1..n : h[i] \in Handle
    BY <1>3
  <1> HIDE DEF n
  <1>5. /\ DOMAIN g = 1..n
        /\ \A i \in 1..n : g[i].owner = h[i].owner /\ g[i].fd = h[i].fd /\ g[i].interests = h[i].interests
                           /\ g[i] \in Handle
    BY <1>3, <1>4 DEF Handle
  <1>6. g \in Seq(Handle)
    <2>1. g = [i \in 1..n |-> g[i]]
      BY <1>3
    <2> HIDE DEF g
    <2>2. g \in [1..n -> Handle]
      BY <1>5, <2>1
    <2>3. QED
      BY <1>3, <2>2
  <1> HIDE DEF g
  <1>7. /\ DOMAIN d = Fields /\ d.phase = "timers" /\ d.handles = g /\ d.ready = ready
        /\ d.selected = Owners(l, ready) /\ d.expiry = l.now /\ d.now = l.now /\ d.cursor = l.cursor
        /\ d.last = l.last /\ d.timers = l.timers /\ d.numTimers = l.numTimers
        /\ d.scheduled = l.scheduled /\ d.pipe = l.pipe /\ d.bytes = l.bytes /\ d.numCalled = l.numCalled
    BY <1>1, <1>2 DEF Fields
  <1>8. \A i \in 1..n : \A e \in {"read", "write"} :
            <<g[i].fd, e>> \in ready => <<g[i].owner, e>> \in Owners(l, ready)
    <2> SUFFICES ASSUME NEW i \in 1..n, NEW e \in {"read", "write"}, <<h[i].fd, e>> \in ready
                 PROVE  <<h[i].owner, e>> \in Owners(l, ready)
      BY <1>5
    <2>1. <<h[i].fd, e>> \in {r \in ready : r[1] = h[i].fd}
      OBVIOUS
    <2>2. <<h[i].owner, e>> \in {<<h[i].owner, r[2]>> : r \in {x \in ready : x[1] = h[i].fd}}
      BY <2>1
    <2>3. <<h[i].owner, e>> \in
            UNION {{<<h[j].owner, r[2]>> : r \in {x \in ready : x[1] = h[j].fd}} : j \in DOMAIN h}
      BY <1>3, <2>2
    <2>4. <<h[i].owner, e>> \in {<<h[j].owner, ev>> : j \in DOMAIN h, ev \in {"read", "write"}}
      BY <1>3
    <2>5. QED
      BY <2>3, <2>4 DEF Owners
  <1>9. HandlesFit(d, m)
    <2>1. /\ \A i, j \in 1..n : g[i].owner = g[j].owner => i = j
          /\ \A i \in 1..n : g[i].owner \in OwnersOf(m)
          /\ \A o \in OwnersOf(m) : \E i \in 1..n : g[i].owner = o
          /\ \A i \in 1..n : g[i].owner = Listener => g[i].interests = Wanted(m)
      <3>1. /\ \A i, j \in 1..n : h[i].owner = h[j].owner => i = j
            /\ \A i \in 1..n : h[i].owner \in OwnersOf(m)
            /\ \A o \in OwnersOf(m) : \E i \in 1..n : h[i].owner = o
            /\ \A i \in 1..n : h[i].owner = Listener => h[i].interests = Wanted(m)
        BY <1>1, <1>3 DEF AreHandles
      <3> HIDE DEF h
      <3>2. QED
        BY <1>5, <3>1
    <2>2. QED
      BY <1>5, <1>6, <1>7, <1>8, <2>1 DEF AreHandles, HandlesFit
  <1>10. ControlFits(d)
    BY <1>1, <1>7 DEF ControlFits
  <1>11. EventsFit(d) /\ d.last.kind = "none"
    BY <1>1, <1>7 DEF EventsFit, NoCall
  <1>12. QED
    BY <1>7, <1>9, <1>10, <1>11, ControlChanged DEF d

LEMMA ProcessFileHandlesFits ==
    ASSUME NEW l, NEW m, Fits(l, m), l.phase = "timers"
    PROVE  Fits([l EXCEPT !.phase = "handles", !.cursor = 1, !.last = NoCall], m)
  <1> DEFINE d == [l EXCEPT !.phase = "handles", !.cursor = 1, !.last = NoCall]
  <1>1. DOMAIN l = Fields /\ ControlFits(l) /\ HandlesFit(l, m)
    BY DEF Fits, ControlFits
  <1>2. /\ DOMAIN d = Fields /\ d.phase = "handles" /\ d.cursor = 1 /\ d.last = NoCall
        /\ d.handles = l.handles /\ d.ready = l.ready /\ d.selected = l.selected
        /\ d.expiry = l.expiry /\ d.now = l.now /\ d.timers = l.timers /\ d.numTimers = l.numTimers
        /\ d.scheduled = l.scheduled /\ d.pipe = l.pipe /\ d.bytes = l.bytes /\ d.numCalled = l.numCalled
    BY <1>1 DEF Fields
  <1> HIDE DEF d
  <1>3. ControlFits(d) /\ HandlesFit(d, m) /\ EventsFit(d) /\ d.last.kind = "none"
    BY <1>1, <1>2 DEF ControlFits, HandlesFit, EventsFit, NoCall
  <1>4. QED
    BY <1>2, <1>3, ControlChanged DEF d

\* The events of a round are forgotten at its end.
LEMMA RoundFits ==
    ASSUME NEW l, NEW m, Fits(l, m), l.phase = "handles"
    PROVE  Fits(Round(l), m)
  <1> DEFINE d == Round(l)
  <1>1. DOMAIN l = Fields /\ ControlFits(l) /\ HandlesFit(l, m)
    BY DEF Fits, ControlFits
  <1>2. /\ DOMAIN d = Fields /\ d.phase \in {"select", "idle"} /\ d.cursor = l.cursor /\ d.last = NoCall
        /\ d.handles = l.handles /\ d.ready = {} /\ d.selected = {}
        /\ d.expiry = l.expiry /\ d.now = l.now /\ d.timers = l.timers /\ d.numTimers = l.numTimers
        /\ d.scheduled = l.scheduled /\ d.pipe = l.pipe /\ d.bytes = l.bytes /\ d.numCalled = l.numCalled
    BY <1>1 DEF Fields, Round
  <1> HIDE DEF d
  <1>3. ControlFits(d) /\ EventsFit(d) /\ d.last.kind = "none"
    BY <1>1, <1>2 DEF ControlFits, EventsFit, NoCall
  <1>4. HandlesFit(d, m)
    BY <1>1, <1>2 DEF HandlesFit, AreHandles
  <1>5. QED
    BY <1>2, <1>3, <1>4, ControlChanged DEF d

LEMMA TimePassesFits ==
    ASSUME NEW l, NEW m, Fits(l, m), l.phase = "select"
    PROVE  Fits([l EXCEPT !.now = @ + 1], m)
  <1> DEFINE d == [l EXCEPT !.now = @ + 1]
  <1>1. DOMAIN l = Fields /\ ControlFits(l) /\ HandlesFit(l, m)
    BY DEF Fits, ControlFits
  <1>2. /\ DOMAIN d = Fields /\ d.phase = l.phase /\ d.cursor = l.cursor /\ d.last = l.last
        /\ d.handles = l.handles /\ d.ready = l.ready /\ d.selected = l.selected
        /\ d.expiry = l.expiry /\ d.now = l.now + 1 /\ d.timers = l.timers /\ d.numTimers = l.numTimers
        /\ d.scheduled = l.scheduled /\ d.pipe = l.pipe /\ d.bytes = l.bytes /\ d.numCalled = l.numCalled
    BY <1>1 DEF Fields
  <1> HIDE DEF d
  <1>3. l.now \in Nat /\ l.expiry \in Nat /\ l.expiry <= l.now + 1 /\ l.last = NoCall
    BY <1>1 DEF ControlFits
  <1>4. ControlFits(d) /\ HandlesFit(d, m) /\ EventsFit(d) /\ d.last.kind = "none"
    BY <1>1, <1>2, <1>3 DEF ControlFits, HandlesFit, EventsFit, NoCall
  <1>5. QED
    BY <1>2, <1>4, ControlChanged DEF d

\* The file handle at the cursor is passed before its owner is called.
LEMMA PastCursorFits ==
    ASSUME NEW l, NEW m, Fits(l, m), l.phase = "handles", l.cursor \in DOMAIN l.handles
    PROVE  Fits(PastCursor(l), m) /\ PastCursor(l).phase = "handles" /\ PastCursor(l).last = NoCall
           /\ PastCursor(l).selected = l.selected
  <1> DEFINE d == PastCursor(l)
             h == l.handles
             p == l.cursor
             g == [h EXCEPT ![p].awaiting = FALSE]
             n == Len(h)
  <1>1. /\ DOMAIN l = Fields /\ ControlFits(l) /\ l.cursor \in Nat
        /\ AreHandles(h, l.ready, l.selected, OwnersOf(m), Wanted(m))
    BY DEF Fits, ControlFits, HandlesFit
  <1>2. d = [l EXCEPT !.handles = g, !.cursor = p + 1, !.last = NoCall]
    BY DEF PastCursor
  <1> HIDE DEF d
  <1>3. h \in Seq(Handle) /\ n \in Nat /\ DOMAIN h = 1..n /\ p \in 1..n
    BY <1>1 DEF AreHandles
  <1>4. \A i \in 1..n : h[i] \in Handle
    BY <1>3
  <1> HIDE DEF n, p
  <1>5. /\ DOMAIN g = 1..n
        /\ \A i \in 1..n : g[i].owner = h[i].owner /\ g[i].fd = h[i].fd /\ g[i].interests = h[i].interests
                           /\ g[i] \in Handle /\ (g[i].awaiting => h[i].awaiting)
    BY <1>3, <1>4 DEF Handle
  <1>6. g \in Seq(Handle)
    <2>1. g = [i \in 1..n |-> g[i]]
      BY <1>3
    <2> HIDE DEF g
    <2>2. g \in [1..n -> Handle]
      BY <1>5, <2>1
    <2>3. QED
      BY <1>3, <2>2
  <1> HIDE DEF g
  <1>7. /\ DOMAIN d = Fields /\ d.phase = l.phase /\ d.handles = g /\ d.ready = l.ready
        /\ d.selected = l.selected /\ d.expiry = l.expiry /\ d.now = l.now /\ d.cursor = p + 1
        /\ d.last = NoCall /\ d.timers = l.timers /\ d.numTimers = l.numTimers
        /\ d.scheduled = l.scheduled /\ d.pipe = l.pipe /\ d.bytes = l.bytes /\ d.numCalled = l.numCalled
    BY <1>1, <1>2 DEF Fields
  <1>8. HandlesFit(d, m)
    <2>1. /\ \A i, j \in 1..n : g[i].owner = g[j].owner => i = j
          /\ \A i \in 1..n : g[i].owner \in OwnersOf(m)
          /\ \A o \in OwnersOf(m) : \E i \in 1..n : g[i].owner = o
          /\ \A i \in 1..n : g[i].owner = Listener => g[i].interests = Wanted(m)
      <3>1. /\ \A i, j \in 1..n : h[i].owner = h[j].owner => i = j
            /\ \A i \in 1..n : h[i].owner \in OwnersOf(m)
            /\ \A o \in OwnersOf(m) : \E i \in 1..n : h[i].owner = o
            /\ \A i \in 1..n : h[i].owner = Listener => h[i].interests = Wanted(m)
        BY <1>1, <1>3 DEF AreHandles
      <3> HIDE DEF h
      <3>2. QED
        BY <1>5, <3>1
    <2>2. \A i \in 1..n : g[i].awaiting => \A e \in {"read", "write"} :
                <<g[i].fd, e>> \in l.ready => <<g[i].owner, e>> \in l.selected
      BY <1>1, <1>3, <1>5 DEF AreHandles
    <2>3. QED
      BY <1>5, <1>6, <1>7, <2>1, <2>2 DEF AreHandles, HandlesFit
  <1>9. d.cursor \in Nat \ {0}
    BY <1>1, <1>7 DEF p
  <1>10. ControlFits(d)
    BY <1>1, <1>7, <1>9 DEF ControlFits
  <1>11. EventsFit(d) /\ d.last.kind = "none"
    BY <1>7 DEF EventsFit, NoCall
  <1>12. Fits(d, m)
    BY <1>7, <1>8, <1>10, <1>11, ControlChanged
  <1>13. QED
    BY <1>7, <1>12 DEF d

LEMMA CalledFits ==
    ASSUME NEW l, NEW m, Fits(l, m), l.phase = "handles", NEW owner \in OwnersOf(m), owner # SelfPipe,
           NEW events, \A e \in events : <<owner, e>> \in l.selected
    PROVE  Fits(Called(l, owner, events), m)
  <1> DEFINE d == Called(l, owner, events)
  <1>1. DOMAIN l = Fields /\ ControlFits(l) /\ HandlesFit(l, m)
    BY DEF Fits, ControlFits
  <1>2. d = [l EXCEPT !.last = [kind |-> owner.kind, owner |-> owner, events |-> events]]
    BY DEF Called
  <1> HIDE DEF d
  <1>3. /\ DOMAIN d = Fields /\ d.phase = l.phase /\ d.cursor = l.cursor
        /\ d.last = [kind |-> owner.kind, owner |-> owner, events |-> events]
        /\ d.handles = l.handles /\ d.ready = l.ready /\ d.selected = l.selected
        /\ d.expiry = l.expiry /\ d.now = l.now /\ d.timers = l.timers /\ d.numTimers = l.numTimers
        /\ d.scheduled = l.scheduled /\ d.pipe = l.pipe /\ d.bytes = l.bytes /\ d.numCalled = l.numCalled
    BY <1>1, <1>2 DEF Fields
  <1>4. owner.kind \in {"stream", "listener"}
    BY DEF OwnersOf, Stream, Listener
  <1>5. ControlFits(d) /\ HandlesFit(d, m)
    BY <1>1, <1>3 DEF ControlFits, HandlesFit
  <1>6. EventsFit(d) /\ d.last.kind \in {"none", "stream", "listener"}
    BY <1>3, <1>4 DEF EventsFit
  <1>7. QED
    BY <1>3, <1>5, <1>6, ControlChanged DEF d

-----------------------------------------------------------------------------
(* The steps *)

LEMMA InitialFits ==
    ASSUME NEW most
    PROVE  Fits(InitialLoop, [most |-> most, listening |-> FALSE,
                              streams |-> [i \in 1..MaxStreams |-> NoStream], numAccepted |-> 0])
  <1> DEFINE m == [most |-> most, listening |-> FALSE,
                   streams |-> [i \in 1..MaxStreams |-> NoStream], numAccepted |-> 0]
             l == InitialLoop
             e == [owner |-> SelfPipe, fd |-> 0, interests |-> {"read"}, awaiting |-> FALSE]
  <1>1. /\ DOMAIN l = Fields /\ l.phase = "select" /\ l.handles = Append(<<>>, e) /\ l.cursor = 1
        /\ l.ready = {} /\ l.timers = <<>> /\ l.numTimers = 0 /\ l.now = 1 /\ l.expiry = 0
        /\ l.pipe = <<>> /\ l.bytes = <<>> /\ l.scheduled = <<>> /\ l.numCalled = 0
        /\ l.selected = {} /\ l.last = NoCall
    BY DEF InitialLoop, Register, Fields
  <1>2. /\ DOMAIN m = {"most", "listening", "streams", "numAccepted"} /\ m.listening = FALSE
        /\ m.numAccepted = 0 /\ DOMAIN m.streams = 1..MaxStreams
        /\ \A i \in 1..MaxStreams : m.streams[i] = NoStream
        /\ m.streams = [i \in 1..MaxStreams |-> NoStream]
    OBVIOUS
  <1> HIDE DEF l, m
  <1>3. ControlFits(l)
    BY <1>1 DEF ControlFits
  <1>4. ManagerFits(m)
    <2>1. m.streams \in [1..MaxStreams -> 0..m.numAccepted]
      BY <1>2 DEF NoStream
    <2>2. \A i, j \in 1..MaxStreams : m.streams[i] # NoStream /\ m.streams[i] = m.streams[j] => i = j
      BY <1>2
    <2>3. m.numAccepted \in Nat
      <3>1. m.numAccepted = 0
        BY <1>2
      <3>2. QED
        BY <3>1
    <2>4. m.listening \in BOOLEAN
      <3>1. m.listening = FALSE
        BY <1>2
      <3>2. QED
        BY <3>1
    <2>5. QED
      BY <1>2, <2>1, <2>2, <2>3, <2>4 DEF ManagerFits
  <1>5. OwnersOf(m) = {SelfPipe}
    BY <1>2 DEF OwnersOf
  <1>6. e \in Handle /\ e.owner = SelfPipe /\ SelfPipe # Listener /\ e.awaiting = FALSE
    BY DEF Handle, Owner, SelfPipe, Listener
  <1> HIDE DEF e
  <1>7. l.handles \in Seq(Handle) /\ DOMAIN l.handles = 1..1 /\ l.handles[1] = e
    <2>1. /\ Append(<<>>, e) \in Seq(Handle) /\ DOMAIN Append(<<>>, e) = 1..1
          /\ Append(<<>>, e)[1] = e
      BY <1>6
    <2>2. QED
      BY <1>1, <2>1
  <1>8. \A i \in 1..1 : l.handles[i] = e /\ i = 1
    BY <1>7
  <1>9. HandlesFit(l, m)
    <2>1. 1 \in 1..1
      OBVIOUS
    <2>2. QED
      BY <1>5, <1>6, <1>7, <1>8, <2>1 DEF HandlesFit, AreHandles
  <1>10. EventsFit(l)
    BY <1>1 DEF EventsFit, NoCall
  <1>11. TimersFit(l)
    BY <1>1 DEF TimersFit, NoCall
  <1>12. MessagesFit(l)
    <2> DEFINE none == <<>>
    <2>1. none \in Seq(Units) /\ none \in Seq(0..MaxContext) /\ none \o none = none /\ Len(none) = 0
      OBVIOUS
    <2>2. l.bytes \o l.pipe = <<>> /\ Len(l.bytes) = 0 /\ l.scheduled = <<>>
      BY <1>1, <2>1
    <2>3. AreMessages(<<>>, 0, <<>>)
      BY <2>1 DEF AreMessages
    <2>4. l.bytes \in Seq(Units) /\ l.pipe \in Seq(Units) /\ l.scheduled \in Seq(0..MaxContext)
      BY <1>1, <2>1
    <2>5. MaxContext \in Nat
      BY LoopAssumption
    <2>6. l.last.kind = "none" /\ l.phase # "undefined"
      BY <1>1 DEF NoCall
    <2>7. AreMessages(l.bytes \o l.pipe, l.numCalled, l.scheduled)
      BY <1>1, <2>2, <2>3
    <2>8. QED
      BY <2>2, <2>4, <2>5, <2>6, <2>7 DEF MessagesFit
  <1>13. Fits(l, m)
    BY <1>3, <1>4, <1>9, <1>10, <1>11, <1>12 DEF Fits
  <1>14. QED
    BY <1>13 DEF l, m

\* The owner of the file handle at the cursor is called of its events, which were selected for
\* it; the listener is called only when it wants a stream.
LEMMA CallFits ==
    ASSUME LoopInv, loop.phase = "handles", loop.cursor \in DOMAIN loop.handles,
           NEW owner, owner = loop.handles[loop.cursor].owner,
           NEW events, events = Events(loop), events # {},
           NEW r \in Call(PastCursor(loop), owner, events)
    PROVE  Fits(r.l, r.m)
  <1> DEFINE l == PastCursor(loop)
             h == loop.handles[loop.cursor]
             c == Called(l, owner, events)
  <1>1. /\ Fits(loop, manager)
        /\ AreHandles(loop.handles, loop.ready, loop.selected, OwnersOf(manager), Wanted(manager))
        /\ ManagerFits(manager)
    BY DEF LoopInv, Fits, HandlesFit
  <1>2. Fits(l, manager) /\ l.phase = "handles" /\ l.last = NoCall /\ l.selected = loop.selected
    BY <1>1, PastCursorFits
  <1>3. owner \in OwnersOf(manager) /\ h \in Handle
    BY <1>1 DEF AreHandles
  <1>4. h.awaiting /\ events \subseteq h.interests /\ \A e \in events : <<h.fd, e>> \in loop.ready
    BY DEF Events
  <1>5. \A e \in events : <<owner, e>> \in loop.selected
    BY <1>1, <1>3, <1>4 DEF AreHandles, Handle
  <1>6. \A d : Here(d).l = d /\ Here(d).m = manager /\ Here(d) = Both(d, manager)
    BY DEF Here, Both
  <1>7. CASE owner = SelfPipe
    <2>1. r = Here(IF PipeRoom(l) > 0 THEN ReadPipe(l) ELSE Abort(l))
      BY <1>7 DEF Call
    <2> HIDE DEF l
    <2>2. CASE PipeRoom(l) > 0
      BY <1>2, <1>6, <2>1, <2>2, ReadPipeFits
    <2>3. CASE ~(PipeRoom(l) > 0)
      BY <1>2, <1>6, <2>1, <2>3, AbortFits
    <2>4. QED
      BY <2>2, <2>3
  <1>8. ASSUME owner # SelfPipe PROVE Fits(c, manager)
    BY <1>2, <1>3, <1>5, <1>8, CalledFits
  <1>9. CASE owner = Listener
    <2>1. SelfPipe # Listener
      BY DEF SelfPipe, Listener
    <2>2. r \in HandlePendingTCPStream(Both(c, manager))
      BY <1>6, <1>9, <2>1 DEF Call
    <2>3. h.interests = Wanted(manager)
      BY <1>1, <1>9 DEF AreHandles
    <2>4. NumStreams(manager) < MaxStreams
      BY <1>4, <2>3 DEF Wanted
    <2>5. manager.listening
      BY <1>1, <1>3, <1>9, OwnersFacts
    <2> HIDE DEF c
    <2>6. QED
      BY <1>8, <1>9, <2>1, <2>2, <2>4, <2>5, PendingFits
  <1>10. CASE owner # SelfPipe /\ owner # Listener
    <2>1. r \in Operations(Both(c, manager))
      BY <1>6, <1>10 DEF Call
    <2> HIDE DEF c
    <2>2. QED
      BY <1>8, <1>10, <2>1, OperationsFit
  <1>11. QED
    BY <1>7, <1>9, <1>10

LEMMA LoopStep == LoopInv /\ [LoopNext]_<<loop, manager>> => LoopInv'
  <1> SUFFICES ASSUME LoopInv, [LoopNext]_<<loop, manager>> PROVE LoopInv'
    OBVIOUS
  <1>1. Fits(loop, manager)
    BY DEF LoopInv
  <1>2. \A d : Here(d).l = d /\ Here(d).m = manager /\ Here(d) = Both(d, manager)
    BY DEF Here, Both
  <1>3. \A b : Become(b) /\ Fits(b.l, b.m) => LoopInv'
    BY DEF Become, LoopInv
  <1>4. \A d : loop' = d /\ manager' = manager /\ Fits(d, manager) => LoopInv'
    BY DEF LoopInv
  <1>5. CASE Prepare
    <2> DEFINE o == OpenListener(Here(loop))
    <2>1. PICK b \in Operations(o) : Become(b)
      BY <1>5 DEF Prepare
    <2>2. OpenOf(manager) = {}
      <3>1. manager.streams \in [1..MaxStreams -> 0..0]
        BY <1>1, <1>5 DEF Fits, ManagerFits, Prepare
      <3>2. \A i \in 1..MaxStreams : manager.streams[i] \in 0..0
        BY <3>1
      <3>3. \A n \in 0..0 : n = 0
        OBVIOUS
      <3>4. QED
        BY <3>2, <3>3 DEF OpenOf, NoStream
    <2>3. Fits(o.l, o.m)
      BY <1>1, <1>2, <1>5, <2>2, OpenListenerFits DEF Prepare
    <2>4. o = Both(o.l, o.m)
      BY DEF OpenListener, Both
    <2> HIDE DEF o
    <2>5. Fits(b.l, b.m)
      BY <2>3, <2>4, OperationsFit
    <2>6. QED
      BY <1>3, <2>1, <2>5
  <1>6. CASE Schedule
    <2>1. PICK size \in 0..MaxContext : loop' = ScheduleCallback(loop, size)
      BY <1>6 DEF Schedule
    <2>2. QED
      BY <1>1, <1>4, <1>6, <2>1, ScheduleCallbackFits DEF Schedule
  <1>7. CASE Select
    <2>1. PICK ready : loop' = Selected(loop, ready)
      BY <1>7 DEF Select
    <2>2. QED
      BY <1>1, <1>4, <1>7, <2>1, SelectedFits DEF Select
  <1>8. CASE FireTimer
    <2> DEFINE w == WithoutExpired(loop)
    <2>1. PICK b \in Operations(Here(w)) : Become(b)
      BY <1>8 DEF FireTimer
    <2>2. Fits(w, manager)
      BY <1>1, <1>8, WithoutExpiredFits DEF FireTimer
    <2> HIDE DEF w
    <2>3. QED
      BY <1>2, <1>3, <2>1, <2>2, OperationsFit
  <1>9. CASE ProcessFileHandles
    <2> DEFINE d == [loop EXCEPT !.phase = "handles", !.cursor = 1, !.last = NoCall]
    <2>1. loop' = d /\ manager' = manager
      BY <1>9 DEF ProcessFileHandles
    <2>2. Fits(d, manager)
      BY <1>1, <1>9, ProcessFileHandlesFits DEF ProcessFileHandles
    <2> HIDE DEF d
    <2>3. QED
      BY <1>4, <2>1, <2>2
  <1>10. CASE ProcessFileHandle
    <2> DEFINE owner == loop.handles[loop.cursor].owner
               events == Events(loop)
    <2>1. PICK b \in (IF events = {} THEN {Here(PastCursor(loop))} ELSE Call(PastCursor(loop), owner, events)) :
            Become(b)
      BY <1>10 DEF ProcessFileHandle
    <2>2. loop.phase = "handles" /\ loop.cursor \in DOMAIN loop.handles
      <3>1. loop.cursor \in Nat \ {0} /\ loop.handles \in Seq(Handle)
        BY <1>1 DEF Fits, ControlFits, HandlesFit, AreHandles
      <3>2. QED
        BY <1>10, <3>1 DEF ProcessFileHandle
    <2>3. CASE events = {}
      <3>1. b = Here(PastCursor(loop))
        BY <2>1, <2>3
      <3>2. QED
        BY <1>1, <1>2, <1>3, <2>1, <2>2, <3>1, PastCursorFits
    <2>4. CASE events # {}
      <3>1. b \in Call(PastCursor(loop), owner, events)
        BY <2>1, <2>4
      <3>2. owner = loop.handles[loop.cursor].owner /\ events = Events(loop)
        OBVIOUS
      <3> HIDE DEF owner, events
      <3>3. QED
        BY <1>3, <2>1, <2>2, <2>4, <3>1, <3>2, CallFits
    <2>5. QED
      BY <2>3, <2>4
  <1>11. CASE CallScheduled
    <2> DEFINE w == WithMessage(loop)
               c == WithoutContext(loop)
               d == [loop EXCEPT !.phase = "handles", !.last = NoCall]
    <2>1. loop.phase = "messages"
      BY <1>11 DEF CallScheduled
    <2>2. PICK b \in (IF ~HasMessage(loop) THEN {Here(d)} ELSE IF ContextSize(loop) < 0 THEN {Here(c)}
                       ELSE Operations(Here(w))) : Become(b)
      BY <1>11 DEF CallScheduled
    <2>3. CASE HasMessage(loop) /\ ~(ContextSize(loop) < 0)
      <3>1. Fits(w, manager)
        BY <1>1, <2>1, <2>3, WithMessageFits
      <3> HIDE DEF w
      <3>2. QED
        BY <1>2, <1>3, <2>2, <2>3, <3>1, OperationsFit
    <2>4. CASE HasMessage(loop) /\ ContextSize(loop) < 0
      <3>1. Fits(c, manager)
        BY <1>1, <2>1, <2>4, WithoutContextFits
      <3> HIDE DEF c
      <3>2. QED
        BY <1>2, <1>3, <2>2, <2>4, <3>1
    <2>5. CASE ~HasMessage(loop)
      <3>1. Fits(d, manager)
        BY <1>1, <2>1, <2>5, WithoutMessageFits
      <3> HIDE DEF d
      <3>2. QED
        BY <1>2, <1>3, <2>2, <2>5, <3>1
    <2>6. QED
      BY <2>3, <2>4, <2>5
  <1>12. CASE EndRound
    BY <1>1, <1>4, <1>12, RoundFits DEF EndRound
  <1>13. CASE TimePasses
    <2> DEFINE d == [loop EXCEPT !.now = @ + 1]
    <2>1. loop' = d /\ manager' = manager
      BY <1>13 DEF TimePasses
    <2>2. Fits(d, manager)
      BY <1>1, <1>13, TimePassesFits DEF TimePasses
    <2> HIDE DEF d
    <2>3. QED
      BY <1>4, <2>1, <2>2
  <1>14. CASE UNCHANGED <<loop, manager>>
    BY <1>1, <1>4, <1>14
  <1>15. QED
    BY <1>5, <1>6, <1>7, <1>8, <1>9, <1>10, <1>11, <1>12, <1>13, <1>14 DEF LoopNext

-----------------------------------------------------------------------------
(* What is promised *)

LEMMA LoopInvOrders == LoopInv => CallbacksAreInOrder
  <1> SUFFICES ASSUME LoopInv PROVE CallbacksAreInOrder
    OBVIOUS
  <1>1. /\ ControlFits(loop) /\ ManagerFits(manager) /\ HandlesFit(loop, manager)
        /\ EventsFit(loop) /\ TimersFit(loop) /\ MessagesFit(loop)
    BY DEF LoopInv, Fits
  <1>2. EventsAreCurrent
    <2>1. ASSUME manager.listening
          PROVE  loop.handles[HandlePlace(loop, Listener)].interests = Wanted(manager)
      <3>1. Stands(loop, OwnersOf(manager), Wanted(manager))
        BY FitsStands DEF LoopInv
      <3>2. Listener \in OwnersOf(manager)
        BY <1>1, <2>1, OwnersFacts
      <3>3. /\ HandlePlace(loop, Listener) \in DOMAIN loop.handles
            /\ loop.handles[HandlePlace(loop, Listener)].owner = Listener
        BY <3>1, <3>2, PlaceOfHandle
      <3>4. QED
        BY <1>1, <3>3 DEF HandlesFit, AreHandles
    <2>2. QED
      BY <1>1, <2>1, WantedFacts DEF EventsAreCurrent, EventsFit
  <1>3. TimersInOrder
    <2> SUFFICES ASSUME loop.last.kind = "timer"
                 PROVE  LET timer == loop.last.timer
                        IN /\ timer.deadline <= loop.now
                           /\ \A i \in DOMAIN loop.timers :
                                LET other == loop.timers[i]
                                IN other.number <= loop.last.numTimers =>
                                    \/ timer.asked < other.asked
                                    \/ timer.asked = other.asked
                                       /\ (timer.asked = 0 \/ timer.number < other.number)
      BY DEF TimersInOrder
    <2>1. /\ loop.last.timer.deadline <= loop.now
          /\ \A i \in DOMAIN loop.timers :
                loop.timers[i].number <= loop.last.numTimers => Before(loop.last.timer, loop.timers[i])
      BY <1>1 DEF TimersFit
    <2>2. QED
      BY <2>1 DEF Before
  <1>4. ASSUME SizesFitChar PROVE MessagesInOrder
    <2>0. FitChar(loop.scheduled) /\ loop.phase # "undefined"
      BY <1>1, <1>4 DEF SizesFitChar, FitChar, MessagesFit
    <2>1. ASSUME loop.last.kind = "message"
          PROVE  LET number == loop.last.header.number
                 IN /\ loop.last.header.part = 0 /\ number = loop.numCalled
                    /\ <<loop.last.header>> \o loop.last.context = Message(number, loop.scheduled[number])
      <3>1. /\ loop.last.header = Unit(loop.numCalled, 0)
            /\ <<loop.last.header>> \o loop.last.context = Message(loop.numCalled, loop.scheduled[loop.numCalled])
        BY <1>1, <2>0, <2>1 DEF MessagesFit
      <3>2. loop.last.header.number = loop.numCalled /\ loop.last.header.part = 0
        BY <3>1 DEF Unit
      <3>3. QED
        BY <3>1, <3>2
    <2>2. ASSUME loop.phase # "messages" PROVE PipeRoom(loop) > 0
      <3>1. Len(loop.bytes) <= MaxContext /\ loop.bytes \in Seq(Units) /\ MaxContext \in Nat
        BY <1>1, <2>0, <2>2, LoopAssumption DEF MessagesFit
      <3>2. Len(loop.bytes) \in Nat
        BY <3>1
      <3>3. PipeRoom(loop) = 1 + MaxContext - Len(loop.bytes)
        BY DEF PipeRoom
      <3> DEFINE room == PipeRoom(loop)
                 read == Len(loop.bytes)
      <3>4. read \in Nat /\ read <= MaxContext /\ MaxContext \in Nat /\ room = 1 + MaxContext - read
        BY <3>1, <3>2, <3>3
      <3> HIDE DEF room, read
      <3>5. room > 0
        BY <3>4
      <3>6. QED
        BY <3>5 DEF room
    <2>3. QED
      BY <2>1, <2>2 DEF MessagesInOrder
  <1>5. QED
    BY <1>2, <1>3, <1>4 DEF CallbacksAreInOrder

\* Whatever bounds its behaviours have, the loop calls what is due, current and in order:
\* file handles of events that select has reported for their own connections and the listener
\* only while there is room (PAL/POSIX/HAPPlatformRunLoop.c, HAPPlatformTCPStreamManager.c),
\* timers by their deadlines, and scheduled callbacks each with its own context as long as
\* their sizes are ones that a plain char holds.
THEOREM LoopKeepsOrder ==
    ASSUME NEW bounds
    PROVE  LoopSpec(bounds) => []CallbacksAreInOrder
  <1>1. LoopInit(bounds) => LoopInv
    BY InitialFits DEF LoopInit, LoopInv
  <1>2. QED
    BY <1>1, LoopStep, LoopInvOrders, PTL DEF LoopSpec

=============================================================================
