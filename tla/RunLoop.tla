------------------------------ MODULE RunLoop ------------------------------
(* PAL/POSIX/HAPPlatformRunLoop.c: file handles, timers and scheduled callbacks, all called
   from one loop around select; and on its file handles PAL/POSIX/HAPPlatformTCPStreamManager.c,
   a listener and a fixed number of streams.  What a callback does is up to its owner: the
   owners do one thing each.

   A file handle is known by its owner; a place in the list of file handles by its index.
   A message of the self pipe is its header, of one unit, and the units of its context. *)
EXTENDS Integers, Sequences, SequencesExt, FiniteSets

CONSTANTS
    PipeSize,       \* units that the self pipe holds
    MaxContext,     \* 255: units of the greatest context
    CharIsSigned,   \* whether the plain char of the compiler is signed
    MaxTime         \* bound: of the clock

ASSUME LoopAssumption == {PipeSize, MaxContext, MaxTime} \subseteq Nat /\ CharIsSigned \in BOOLEAN

VARIABLE loop

SelfPipe == [kind |-> "pipe", number |-> 0]

-----------------------------------------------------------------------------
(* File handles; "last" is what the loop has called last and is there for the properties *)

NoCall == [kind |-> "none"]

\* Mutant: events that have been selected are for a new file handle, too.
RegisterAwaiting(l, owner, fd, interests) ==
    [l EXCEPT !.handles =
        Append(@, [owner |-> owner, fd |-> fd, interests |-> interests, awaiting |-> TRUE])]

\* It is not awaiting events before the loop has come to select.
Register(l, owner, fd, interests) ==
    [l EXCEPT !.handles =
        Append(@, [owner |-> owner, fd |-> fd, interests |-> interests, awaiting |-> FALSE])]

HandlePlace(l, owner) == CHOOSE i \in DOMAIN l.handles : l.handles[i].owner = owner

UpdateInterests(l, owner, interests) == [l EXCEPT !.handles[HandlePlace(l, owner)].interests = interests]

\* The cursor moves on with a file handle that goes away.
Deregister(l, owner) ==
    LET i == HandlePlace(l, owner)
    IN [l EXCEPT !.handles = RemoveAt(@, i), !.cursor = IF i < @ THEN @ - 1 ELSE @]

\* A file descriptor is the lowest one that is free.
FreeDescriptor(l) ==
    LET used == {l.handles[i].fd : i \in DOMAIN l.handles}
    IN CHOOSE fd \in 0..Len(l.handles) : fd \notin used /\ \A lower \in 0..(fd - 1) : lower \in used

-----------------------------------------------------------------------------
(* Timers *)

\* In front of the first timer whose deadline is later.
TimerRegister(l, deadline) ==
    LET later == {i \in DOMAIN l.timers : l.timers[i].deadline > deadline}
        i == IF later = {} THEN Len(l.timers) + 1 ELSE CHOOSE j \in later : \A k \in later : j <= k
        timer == [number |-> l.numTimers + 1, deadline |-> IF deadline = 0 THEN 1 ELSE deadline, asked |-> deadline]
    IN [l EXCEPT !.timers = InsertAt(@, i, timer), !.numTimers = @ + 1]

TimerDeregister(l, i) == [l EXCEPT !.timers = RemoveAt(@, i)]

\* ProcessExpiredTimers: the next one that is due is called.
Expired(l) == l.timers # <<>> /\ Head(l.timers).deadline <= l.expiry

WithoutExpired(l) ==
    [l EXCEPT !.timers = Tail(@), !.last = [kind |-> "timer", timer |-> Head(l.timers), numTimers |-> l.numTimers]]

-----------------------------------------------------------------------------
(* Scheduled callbacks *)

Unit(number, part) == [number |-> number, part |-> part]

Message(number, size) == [i \in 1..(1 + size) |-> Unit(number, i - 1)]

\* All of it is written into the pipe, or nothing.
ScheduleCallback(l, size) ==
    LET message == Message(Len(l.scheduled) + 1, size)
    IN IF size > MaxContext \/ Len(l.pipe) + Len(message) > PipeSize THEN l
       ELSE [l EXCEPT !.pipe = @ \o message, !.scheduled = Append(@, size)]

PipeRoom(l) == 1 + MaxContext - Len(l.bytes)

ReadPipe(l) ==
    LET n == IF Len(l.pipe) < PipeRoom(l) THEN Len(l.pipe) ELSE PipeRoom(l)
    IN [l EXCEPT !.bytes = @ \o SubSeq(l.pipe, 1, n), !.pipe = SubSeq(@, n + 1, Len(@)), !.phase = "messages"]

\* The size is an unsigned byte in the pipe and a plain char in the buffer.
IsNegative(size) == CharIsSigned /\ 2 * size > MaxContext
AsChar(size) == IF IsNegative(size) THEN size - (1 + MaxContext) ELSE size

\* The bytes begin with a header; the pipe may have been read up to the middle of a context.
ContextSize(l) == AsChar(l.scheduled[Head(l.bytes).number])

\* A negative size is a great one as a size_t, unless it wraps around with that of the header.
HasMessage(l) == l.bytes # <<>> /\ 1 + ContextSize(l) \in 0..Len(l.bytes)

\* Mutant: what has been read behind a message is dropped.
WithMessageAlone(l) ==
    LET size == ContextSize(l)
    IN [l EXCEPT !.bytes = <<>>,
                 !.last = [kind |-> "message", header |-> Head(l.bytes), context |-> SubSeq(l.bytes, 2, 1 + size)],
                 !.numCalled = @ + 1]

\* The context comes to the front for the callback.
WithMessage(l) ==
    LET size == ContextSize(l)
    IN [l EXCEPT !.bytes = SubSeq(@, 2 + size, Len(@)),
                 !.last = [kind |-> "message", header |-> Head(l.bytes), context |-> SubSeq(l.bytes, 2, 1 + size)],
                 !.numCalled = @ + 1]

\* A message of negative size: its callback is given a context that is none, and bytes are
\* moved from outside of the buffer.
WithoutContext(l) ==
    [l EXCEPT !.phase = "undefined", !.last = [kind |-> "message", header |-> Head(l.bytes), context |-> <<>>]]

\* There is no room for the rest of a message (HAPPlatformRunLoop.c:413).
Abort(l) == [l EXCEPT !.phase = "aborted", !.last = NoCall]

HasEnded(l) == l.phase \in {"undefined", "aborted"}

-----------------------------------------------------------------------------
(* HAPPlatformRunLoopRun *)

InitialLoop ==
    Register(
        [phase |-> "select", running |-> TRUE, handles |-> <<>>, cursor |-> 1, ready |-> {},
         timers |-> <<>>, numTimers |-> 0, now |-> 1, expiry |-> 0,
         pipe |-> <<>>, bytes |-> <<>>, scheduled |-> <<>>, numCalled |-> 0,
         selected |-> {}, last |-> NoCall],
        SelfPipe, 0, {"read"})

RunLoopStop(l) == [l EXCEPT !.running = FALSE]

Interests(l) == UNION {{<<l.handles[i].fd, e>> : e \in l.handles[i].interests} : i \in DOMAIN l.handles}

\* The events that select may report: the self pipe is readable when it holds something.
MayBeReady(l) == {e \in Interests(l) : e[1] = 0 => l.pipe # <<>>}

Owners(l, ready) ==
    {<<l.handles[i].owner, e>> : i \in DOMAIN l.handles, e \in {"read", "write"}}
    \cap UNION {{<<l.handles[i].owner, e[2]>> : e \in {r \in ready : r[1] = l.handles[i].fd}} : i \in DOMAIN l.handles}

\* select returns when a descriptor is ready or the first timer is due.
Selected(l, ready) ==
    [l EXCEPT !.phase = "timers", !.ready = ready, !.expiry = l.now, !.selected = Owners(l, ready),
              !.handles = [i \in DOMAIN @ |-> [@[i] EXCEPT !.awaiting = l.handles[i].interests # {}]]]

SelectReturns(l, ready) ==
    ready # {} \/ (l.timers # <<>> /\ Head(l.timers).deadline <= l.now)

\* ProcessSelectedFileHandles: the events of the file handle at the cursor.
Events(l) ==
    LET h == l.handles[l.cursor]
    IN IF h.awaiting THEN {e \in h.interests : <<h.fd, e>> \in l.ready} ELSE {}

PastCursor(l) == [l EXCEPT !.handles[l.cursor].awaiting = FALSE, !.cursor = @ + 1, !.last = NoCall]

Round(l) == [l EXCEPT !.phase = IF l.running THEN "select" ELSE "idle", !.ready = {}, !.selected = {}, !.last = NoCall]

-----------------------------------------------------------------------------
(* What is promised *)

\* Timers fire in ascending order of their deadlines and not before them; those of the same
\* deadline in the order of their registration (HAPPlatformTimer.h), other than those of
\* deadline 0, the last of which fires first.
TimersInOrder ==
    loop.last.kind = "timer" =>
        LET timer == loop.last.timer
        IN /\ timer.deadline <= loop.now
           /\ \A i \in DOMAIN loop.timers :
                LET other == loop.timers[i]
                IN other.number <= loop.last.numTimers =>
                    \/ timer.asked < other.asked
                    \/ timer.asked = other.asked /\ (timer.asked = 0 \/ timer.number < other.number)

\* Scheduled callbacks are called in their order, each with its own context, however the
\* pipe has been read; and there is room for the rest of a message (HAPPlatformRunLoop.c:413).
\* A context may be as large as the header can say (HAPPlatformRunLoop.c:154).
MessagesInOrder ==
    /\ loop.last.kind = "message" =>
            LET number == loop.last.header.number
            IN /\ loop.last.header.part = 0 /\ number = loop.numCalled
               /\ <<loop.last.header>> \o loop.last.context = Message(number, loop.scheduled[number])
    /\ loop.phase # "messages" => PipeRoom(loop) > 0

-----------------------------------------------------------------------------
(* The stream manager *)

CONSTANTS
    MaxStreams      \* maxTCPStreams

ASSUME StreamsAssumption == MaxStreams \in Nat \ {0}

\* manager.most bounds the timers, the scheduled callbacks and the streams of a behaviour.
VARIABLE manager

NoStream == 0

\* A stream is its place among the streams; its connection has a number of its own.
Listener == [kind |-> "listener", number |-> 0]
Stream(m, i) == [kind |-> "stream", number |-> m.streams[i]]

NumStreams(m) == Cardinality({i \in 1..MaxStreams : m.streams[i] # NoStream})

-----------------------------------------------------------------------------
(* Operations, from [l, m] to [l, m] *)

Both(l, m) == [l |-> l, m |-> m]

\* Only when no stream is open, as the IP accessory server starts.
OpenListener(b) == Both(Register(b.l, Listener, FreeDescriptor(b.l), {"read"}), [b.m EXCEPT !.listening = TRUE])

CloseListener(b) == Both(Deregister(b.l, Listener), [b.m EXCEPT !.listening = FALSE])

FreeSlot(m) == CHOOSE i \in 1..MaxStreams : m.streams[i] = NoStream /\ \A j \in 1..(i - 1) : m.streams[j] # NoStream

\* A listener is not asked for more streams than there is room for.
AcceptTCPStream(b) ==
    LET i == FreeSlot(b.m)
        m == [b.m EXCEPT !.streams[i] = b.m.numAccepted + 1, !.numAccepted = @ + 1]
        l == Register(b.l, Stream(m, i), FreeDescriptor(b.l), {})
    IN Both(IF NumStreams(m) = MaxStreams THEN UpdateInterests(l, Listener, {}) ELSE l, m)

\* The listener is asked again when there is room for one.
CloseStream(b, i) ==
    LET m == [b.m EXCEPT !.streams[i] = NoStream]
        l == Deregister(b.l, Stream(b.m, i))
    IN Both(IF m.listening /\ MaxStreams - NumStreams(m) = 1 THEN UpdateInterests(l, Listener, {"read"}) ELSE l, m)

\* HandlePendingTCPStream of the IP accessory server: a new stream is read from; accept may
\* also find that its peer has gone.
HandlePendingTCPStream(b) ==
    {b} \cup
    (IF b.m.numAccepted = b.m.most.accepted THEN {}
     ELSE {LET accepted == AcceptTCPStream(b)
           IN Both(UpdateInterests(accepted.l, Stream(accepted.m, FreeSlot(b.m)), {"read"}), accepted.m)})

\* What any callback may do.
Operations(b) ==
    LET open == {i \in 1..MaxStreams : b.m.streams[i] # NoStream}
    IN {b}
       \cup {CloseStream(b, i) : i \in open}
       \cup {Both(UpdateInterests(b.l, Stream(b.m, i), interests), b.m) : i \in open, interests \in SUBSET {"read", "write"}}
       \cup (IF b.m.listening THEN {CloseListener(b)} ELSE IF open = {} THEN {OpenListener(b)} ELSE {})
       \cup (IF b.l.numTimers = b.m.most.timers THEN {}
             ELSE {Both(TimerRegister(b.l, deadline), b.m) : deadline \in 0..MaxTime})
       \cup {Both(TimerDeregister(b.l, i), b.m) : i \in DOMAIN b.l.timers}
       \cup (IF Len(b.l.scheduled) = b.m.most.scheduled THEN {}
             ELSE {Both(ScheduleCallback(b.l, size), b.m) : size \in 0..MaxContext})
       \cup {Both(RunLoopStop(b.l), b.m)}

-----------------------------------------------------------------------------

Become(b) == loop' = b.l /\ manager' = b.m

Here(l) == Both(l, manager)

\* HandleTCPStreamFileHandleCallback and HandleTCPStreamListenerFileHandleCallback
Called(l, owner, events) ==
    [l EXCEPT !.last = [kind |-> owner.kind, owner |-> owner, events |-> events]]

Call(l, owner, events) ==
    IF owner = SelfPipe THEN {Here(IF PipeRoom(l) > 0 THEN ReadPipe(l) ELSE Abort(l))}
    ELSE IF owner = Listener THEN HandlePendingTCPStream(Here(Called(l, owner, events)))
    ELSE Operations(Here(Called(l, owner, events)))

-----------------------------------------------------------------------------

LoopInit(bounds) ==
    /\ loop = InitialLoop
    /\ \E most \in bounds :
        manager = [most |-> most, listening |-> FALSE, streams |-> [i \in 1..MaxStreams |-> NoStream], numAccepted |-> 0]

\* The process, between two runs of the loop, or a signal handler or another thread, which
\* may schedule callbacks at any time.
Prepare ==
    /\ loop.phase = "select" /\ loop.scheduled = <<>> /\ loop.numTimers = 0 /\ manager.numAccepted = 0 /\ ~manager.listening
    /\ \E b \in Operations(OpenListener(Here(loop))) : Become(b)

Schedule ==
    /\ ~HasEnded(loop) /\ Len(loop.scheduled) < manager.most.scheduled
    /\ \E size \in 0..MaxContext : loop' = ScheduleCallback(loop, size)
    /\ UNCHANGED manager

Select ==
    /\ loop.phase = "select"
    /\ \E ready \in SUBSET MayBeReady(loop) :
        /\ SelectReturns(loop, ready)
        /\ loop' = Selected(loop, ready)
    /\ UNCHANGED manager

FireTimer ==
    /\ loop.phase = "timers" /\ Expired(loop)
    /\ \E b \in Operations(Here(WithoutExpired(loop))) : Become(b)

ProcessFileHandles ==
    /\ loop.phase = "timers" /\ ~Expired(loop)
    /\ loop' = [loop EXCEPT !.phase = "handles", !.cursor = 1, !.last = NoCall]
    /\ UNCHANGED manager

ProcessFileHandle ==
    /\ loop.phase = "handles" /\ loop.cursor <= Len(loop.handles)
    /\ LET owner == loop.handles[loop.cursor].owner
           events == Events(loop)
       IN \E b \in IF events = {} THEN {Here(PastCursor(loop))} ELSE Call(PastCursor(loop), owner, events) : Become(b)

CallScheduled ==
    /\ loop.phase = "messages"
    /\ \E b \in IF ~HasMessage(loop) THEN {Here([loop EXCEPT !.phase = "handles", !.last = NoCall])}
                ELSE IF ContextSize(loop) < 0 THEN {Here(WithoutContext(loop))}
                ELSE Operations(Here(WithMessage(loop))) : Become(b)

EndRound ==
    /\ loop.phase = "handles" /\ loop.cursor > Len(loop.handles)
    /\ loop' = Round(loop)
    /\ UNCHANGED manager

\* A callback may ask for any deadline, so that time need not pass elsewhere.
TimePasses ==
    /\ loop.phase = "select" /\ loop.now < MaxTime /\ loop' = [loop EXCEPT !.now = @ + 1]
    /\ UNCHANGED manager

LoopNext ==
    \/ Prepare \/ Schedule \/ Select \/ FireTimer \/ ProcessFileHandles \/ ProcessFileHandle
    \/ CallScheduled \/ EndRound \/ TimePasses

LoopSpec(bounds) == LoopInit(bounds) /\ [][LoopNext]_<<loop, manager>>

-----------------------------------------------------------------------------

\* A stream is told of events that its own connection had, not of those of a connection
\* that was closed since select and whose slot and descriptor it has got; of nothing it no
\* longer wants; and the listener is called only when it has room.
EventsAreCurrent ==
    /\ loop.last.kind \in {"stream", "listener"} =>
            \A e \in loop.last.events : <<loop.last.owner, e>> \in loop.selected
    /\ manager.listening =>
            (loop.handles[HandlePlace(loop, Listener)].interests = {"read"} <=> NumStreams(manager) < MaxStreams)

\* What a char can say of the sizes that callbacks have been scheduled with.
SizesFitChar == \A i \in DOMAIN loop.scheduled : ~IsNegative(loop.scheduled[i])

\* What the loop calls is due, current and in order: events of the connection they are for,
\* timers by their deadlines, and scheduled callbacks with their contexts as long as no size
\* has been too great for a char.
CallbacksAreInOrder == EventsAreCurrent /\ TimersInOrder /\ (SizesFitChar => MessagesInOrder)

=============================================================================
