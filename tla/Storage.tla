------------------------------ MODULE Storage ------------------------------
(* What an accessory keeps (HAPPlatformKeyValueStore.c, and its users in HAPAccessoryServer.c,
   HAPDeviceID.c, HAPAccessoryServer+Reset.c, HAPLegacyImport.c and
   HAPBLECharacteristic+Broadcast.c): identity, configuration number, pairings and broadcasts,
   each a file of HAPPlatformFileManager.c, while the process may be killed or power be lost
   before any call to the system, and a call may fail.

   Files of one directory are replaced atomically, on a disk that may lose power.  A directory
   leads from names to inodes.  What has not been synced may be lost: the directory is then
   found as it was after some operation since its last sync, and an inode holds some beginning
   of what was written to it.  A file is written in several calls; its content is one value, of
   which a number of parts have been written.

   The process does one job at a time; what is left of it is a list of operations, each of
   which is replaced by those it consists of when its turn comes, down to the calls. *)
EXTENDS Naturals, FiniteSetsExt, SequencesExt

CONSTANTS
    Inodes,     \* enough for all of them: a set of positive numbers
    Parts       \* how many calls to write a value may take

NoInode == 0

Empty == [value |-> <<>>, written |-> 0, sync |-> "due"]

\* names: [domain, key, temporary].
EmptyDisk(names) ==
    [directory |-> [n \in names |-> NoInode],
     lost |-> {},           \* the directory as it was before each operation that isn't synced
     inodes |-> [i \in Inodes |-> Empty],
     root |-> "absent"]     \* the directory itself; "new" until power has been lost once

Temporary(name) == [name EXCEPT !.temporary = TRUE]
Exists(d, name) == d.directory[name] # NoInode
File(d, name) == d.inodes[d.directory[name]]
IsWhole(file) == file.written = Parts

NamesOf(d) == DOMAIN d.directory
Used(d) == UNION {{directory[n] : n \in NamesOf(d)} : directory \in d.lost \cup {d.directory}}

\* The directory with some of its names leading elsewhere.
Linked(d, links) ==
    [d EXCEPT !.lost = @ \cup {d.directory},
              !.directory = [n \in NamesOf(d) |-> IF n \in DOMAIN links THEN links[n] ELSE @[n]]]

\* An inode that no name leads to is free.
Tidied(d) ==
    LET used == Used(d) IN [d EXCEPT !.inodes = [i \in Inodes |-> IF i \in used THEN @[i] ELSE Empty]]

-----------------------------------------------------------------------------

CreateDirectory(d) == [d EXCEPT !.root = IF @ = "absent" THEN "new" ELSE @]

\* O_CREAT | O_WRONLY | O_TRUNC with mode S_IRUSR: only the superuser may open it again.
MayOpen(d, name, privileged) == privileged \/ ~Exists(d, Temporary(name))
OpenTemporary(d, name, value) ==
    LET temporary == Temporary(name)
        created == IF Exists(d, temporary) THEN d
                   ELSE Linked(d, [n \in {temporary} |-> Min(Inodes \ Used(d))])
    IN [created EXCEPT !.inodes[created.directory[temporary]] = [Empty EXCEPT !.value = value]]

WriteTemporary(d, name, n) == [d EXCEPT !.inodes[d.directory[Temporary(name)]].written = @ + n]

\* A sync of the file that fails is only logged.
SyncTemporary(d, name, done) ==
    [d EXCEPT !.inodes[d.directory[Temporary(name)]].sync = IF done THEN "done" ELSE "failed"]

SyncDirectory(d) == Tidied([d EXCEPT !.lost = {}])

Rename(d, name) ==
    Linked(d, [n \in {name, Temporary(name)} |->
                    IF n = name THEN d.directory[Temporary(name)] ELSE NoInode])

Unlink(d, name) == Linked(d, [n \in {name} |-> NoInode])

\* The calls of HAPPlatformFileManagerWriteFile and RemoveFile, in their order.
WriteFile(name, value) ==
    <<[do |-> "open", name |-> name, value |-> value], [do |-> "write", name |-> name],
      [do |-> "sync", name |-> name], [do |-> "sync directory", name |-> name],
      [do |-> "rename", name |-> name], [do |-> "sync renamed", name |-> name]>>
RemoveFile(name) == <<[do |-> "unlink", name |-> name], [do |-> "sync unlinked", name |-> name]>>

\* What the call makes of the disk when the system does it, or fails to; whether the file
\* manager returns an error then, and what is left to be called.
Outcome(d, failed, todo) == [disk |-> d, failed |-> failed, todo |-> todo]
Perform(d, call, n, done, privileged) ==
    LET name == call.name
        ready == CreateDirectory(d)
        written == WriteTemporary(d, name, n)
    IN CASE call.do = "open" ->
                IF done /\ MayOpen(d, name, privileged) THEN Outcome(OpenTemporary(ready, name, call.value), FALSE, <<>>)
                ELSE Outcome(ready, TRUE, <<>>)
         [] call.do = "write" ->
                IF ~done THEN Outcome(d, TRUE, <<>>)
                ELSE Outcome(written, FALSE, IF IsWhole(File(written, Temporary(name))) THEN <<>> ELSE <<call>>)
         [] call.do = "sync" -> Outcome(SyncTemporary(d, name, done), FALSE, <<>>)
         [] call.do \in {"sync directory", "sync renamed"} -> Outcome(IF done THEN SyncDirectory(d) ELSE d, ~done, <<>>)
         [] call.do = "rename" -> Outcome(IF done THEN Rename(d, name) ELSE d, ~done, <<>>)
         [] call.do = "unlink" -> Outcome(IF done THEN Unlink(d, name) ELSE d, ~done, <<>>)
         [] call.do = "sync unlinked" -> Outcome(IF done THEN SyncDirectory(d) ELSE d, FALSE, <<>>)

-----------------------------------------------------------------------------

\* Power is lost.  Of an inode that isn't synced some beginning is left; a directory that is
\* new may be lost altogether.
Unsynced(d) == {i \in Used(d) \ {NoInode} : d.inodes[i].sync # "done"}
Beginnings(d) == {n \in [Unsynced(d) -> 0..Parts] : \A i \in Unsynced(d) : n[i] <= d.inodes[i].written}
Left(d, directory, n) ==
    Tidied([d EXCEPT !.directory = directory, !.lost = {}, !.root = "kept",
                     !.inodes = [i \in Inodes |-> IF i \in DOMAIN n THEN [d.inodes[i] EXCEPT !.written = n[i]]
                                                  ELSE d.inodes[i]]])
Survivors(d) ==
    (UNION {{Left(d, directory, n) : n \in Beginnings(d)} : directory \in d.lost \cup {d.directory}})
    \cup (IF d.root = "new" THEN {EmptyDisk(NamesOf(d))} ELSE {})

-----------------------------------------------------------------------------
(* HAPBLECharacteristic+Broadcast.c: which characteristics are broadcast, and how often, as one
   value of the key-value store: pairs of a characteristic and an interval, sorted. *)

CONSTANTS
    Capacity    \* the pairs the buffer of the functions is declared for (42)

\* The place of the characteristic in the configuration, or the one where it belongs.
Place(configuration, cid) == 1 + Cardinality({i \in DOMAIN configuration : configuration[i][1] < cid})
IsListed(configuration, cid) ==
    LET i == Place(configuration, cid) IN i <= Len(configuration) /\ configuration[i][1] = cid

Enable(configuration, cid, interval) ==
    LET i == Place(configuration, cid)
    IN IF IsListed(configuration, cid) THEN [configuration EXCEPT ![i][2] = interval]
       ELSE InsertAt(configuration, i, <<cid, interval>>)

\* One pair less than the buffer is declared for.
IsFull(configuration, cid) == ~IsListed(configuration, cid) /\ Len(configuration) >= Capacity - 1

Disable(configuration, cid) ==
    IF IsListed(configuration, cid) THEN RemoveAt(configuration, Place(configuration, cid)) ELSE configuration

\* Whether the characteristic is broadcast, and how often.
GetBroadcastConfiguration(configuration, cid) ==
    IF IsListed(configuration, cid)
    THEN [enabled |-> TRUE, interval |-> configuration[Place(configuration, cid)][2]]
    ELSE [enabled |-> FALSE, interval |-> 0]

-----------------------------------------------------------------------------
(* The process *)

CONSTANTS
    MaxPairings,
    MaxCN,          \* the greatest configuration number (UINT32_MAX)
    MaxMade         \* random identifiers in a behaviour

ASSUME StorageAssumption ==
    /\ Inodes \subseteq Nat \ {0}
    /\ {Parts, Capacity, MaxCN} \subseteq Nat \ {0} /\ MaxPairings \in Nat

VARIABLE storage

Name(domain, key) == [domain |-> domain, key |-> key, temporary |-> FALSE]
LTSK == Name("Configuration", 1)
DeviceID == Name("Configuration", 2)
ConfigurationNumber == Name("Configuration", 3)
Broadcasts == Name("CharacteristicConfiguration", 0)
BroadcastParameters == Name("Configuration", 4)
Pairing(k) == Name("Pairings", k)
Values == {LTSK, DeviceID, ConfigurationNumber, BroadcastParameters, Broadcasts} \cup {Pairing(k) : k \in 1..MaxPairings}
StoreNames == Values \cup {Temporary(n) : n \in Values}

NoServer == [running |-> FALSE, ltsk |-> 0]

disk == storage.disk

-----------------------------------------------------------------------------
(* The key-value store *)

Found(name) == Exists(disk, name)
Get(name) == File(disk, name).value
HasLength(name) == IsWhole(File(disk, name))

Set(name, value) == [do |-> "set", name |-> name, value |-> value]
RemoveKey(name) == [do |-> "remove", name |-> name]
Returns(name) == [do |-> "return", name |-> name]
PurgeDomain(domain) == [do |-> "purge", domain |-> domain]
Do(what) == [do |-> what]

\* The file names that are read as keys of the domain; those of temporary files are not.
Listed(domain) == {n \in NamesOf(disk) : Found(n) /\ ~n.temporary /\ n.domain = domain}
Keys(domain) == {n.key : n \in Listed(domain)}

-----------------------------------------------------------------------------
(* Jobs, as operations on the store *)

More(todo) == [error |-> FALSE, todo |-> todo, server |-> storage.server]
Error == [error |-> TRUE, todo |-> <<>>, server |-> storage.server]

\* Mutant: the pairings of the former key are purged once there is a new one.
LoadLTSKAndPurge ==
    IF ~Found(LTSK) THEN More(<<Do("make LTSK"), PurgeDomain("Pairings")>>)
    ELSE IF ~HasLength(LTSK) THEN Error
    ELSE [More(<<>>) EXCEPT !.server.ltsk = Get(LTSK)[1]]

LoadLTSK ==
    IF ~Found(LTSK) THEN More(<<PurgeDomain("Pairings"), Do("make LTSK")>>)
    ELSE IF ~HasLength(LTSK) THEN Error
    ELSE [More(<<>>) EXCEPT !.server.ltsk = Get(LTSK)[1]]

\* Random bytes are unlike any others.
Fresh == storage.made + 1

MakeLTSK == [More(<<Set(LTSK, <<Fresh>>)>>) EXCEPT !.server.ltsk = Fresh]

\* The pairings are enumerated until an administrator's is found; one that has another
\* length is an error when its turn comes.
CleanupPairings ==
    LET pairings == Listed("Pairings")
        broken == {n \in pairings : ~HasLength(n)}
        admins == {n \in pairings \ broken : Get(n)[2] = 1}
    IN (IF broken # {} THEN {Error} ELSE {})
       \cup (IF admins # {} THEN {More(<<>>)}
             ELSE IF broken # {} THEN {}
             ELSE IF pairings # {} THEN {More(<<PurgeDomain("Pairings"), RemoveKey(BroadcastParameters)>>)}
             ELSE {More(<<RemoveKey(BroadcastParameters)>>)})

GetDeviceID ==
    IF ~Found(DeviceID) THEN More(<<Set(DeviceID, <<Fresh>>)>>)
    ELSE IF ~HasLength(DeviceID) THEN Error ELSE More(<<>>)

GetCN ==
    IF ~Found(ConfigurationNumber) THEN More(<<Set(ConfigurationNumber, <<1>>)>>)
    ELSE IF ~HasLength(ConfigurationNumber) THEN Error ELSE More(<<>>)

\* A number of another length is not refused here: what is missing of it has not been
\* initialized, and may be anything.
NextCN(n) == IF n = MaxCN THEN 1 ELSE n + 1
IncrementCN ==
    LET read == IF ~Found(ConfigurationNumber) THEN {1}
                ELSE IF HasLength(ConfigurationNumber) THEN {Get(ConfigurationNumber)[1]} ELSE 0..MaxCN
    IN {More(<<Set(ConfigurationNumber, <<NextCN(n)>>)>>) : n \in read}

\* A bridge, which is started over IP only, counts a change of its configuration before the
\* numbers are first read.
PrepareStart ==
    <<Do("load LTSK"), Do("cleanup"), Do("increment CN"), Do("device ID"), Do("CN"), Do("run")>>

\* HAPPrecondition(!found)
Import(name, value) == IF Found(name) THEN Error ELSE More(<<Set(name, value)>>)
ImportControllerPairing(k, ltsk, admin) == Import(Pairing(k), <<ltsk, admin>>)

RestoreFactorySettings ==
    <<PurgeDomain("Configuration"), PurgeDomain("CharacteristicConfiguration"), PurgeDomain("Pairings")>>

RemoveAllPairings == <<PurgeDomain("Pairings")>>

Configuration == IF Found(Broadcasts) THEN Get(Broadcasts) ELSE <<>>

EnableBroadcasts(cid, interval) ==
    IF (Found(Broadcasts) /\ ~HasLength(Broadcasts)) \/ IsFull(Configuration, cid) THEN Error
    ELSE IF GetBroadcastConfiguration(Configuration, cid) = [enabled |-> TRUE, interval |-> interval] THEN More(<<>>)
    ELSE More(<<Set(Broadcasts, Enable(Configuration, cid, interval))>>)

DisableBroadcasts(cid) ==
    LET configuration == Disable(Configuration, cid)
    IN IF Found(Broadcasts) /\ ~HasLength(Broadcasts) THEN Error
       ELSE IF configuration = Configuration THEN More(<<>>)
       ELSE More(<<IF configuration = <<>> THEN RemoveKey(Broadcasts) ELSE Set(Broadcasts, configuration)>>)

\* HAPPairing: into the first key that is free.
AddPairing(admin) ==
    LET free == 1..MaxPairings \ Keys("Pairings")
    IN IF free = {} THEN Error ELSE More(<<Set(Pairing(Min(free)), <<storage.server.ltsk, admin>>)>>)

-----------------------------------------------------------------------------

\* What an operation consists of, or what goes wrong with it.
Consists(op) ==
    CASE op.do = "set" -> {More(WriteFile(op.name, op.value) \o <<Returns(op.name)>>)}
      [] op.do = "remove" -> {More(IF Found(op.name) THEN RemoveFile(op.name) \o <<Returns(op.name)>> ELSE <<>>)}
      [] op.do = "return" -> {More(<<>>)}
      [] op.do = "purge" -> {More(<<[do |-> "enumerate", left |-> Listed(op.domain)]>>)}
      [] op.do = "enumerate" ->
            IF op.left = {} THEN {More(<<>>)} ELSE {More(<<RemoveKey(n), [op EXCEPT !.left = @ \ {n}]>>) : n \in op.left}
      [] op.do = "start" -> {More(PrepareStart)}
      [] op.do = "load LTSK" -> {LoadLTSK}
      [] op.do = "make LTSK" -> {MakeLTSK}
      [] op.do = "cleanup" -> CleanupPairings
      [] op.do = "increment CN" -> {More(<<>>)} \cup IncrementCN
      [] op.do = "device ID" -> {GetDeviceID}
      [] op.do = "CN" -> {GetCN}
      [] op.do = "run" -> {[More(<<>>) EXCEPT !.server.running = TRUE]}
      [] op.do = "stop" -> {[More(<<>>) EXCEPT !.server = NoServer]}
      [] op.do = "import" -> {Import(op.name, op.value)}
      [] op.do = "import pairing" -> {ImportControllerPairing(op.key, op.ltsk, op.admin)}
      [] op.do = "restore" -> {More(RestoreFactorySettings)}
      [] op.do = "remove all pairings" -> {More(RemoveAllPairings)}
      [] op.do = "pair" -> {AddPairing(op.admin)}
      [] op.do = "broadcast key" -> {More(<<Set(BroadcastParameters, <<storage.server.ltsk>>)>>)}
      [] op.do = "enable" -> {EnableBroadcasts(op.cid, op.interval)}
      [] op.do = "disable" -> {DisableBroadcasts(op.cid)}

Calls == {"open", "write", "sync", "sync directory", "rename", "sync renamed", "unlink", "sync unlinked"}
OfServer == {"pair", "broadcast key", "enable", "disable", "stop"}

Content(d, directory, name) ==
    LET inode == directory[name] IN IF inode = NoInode THEN [found |-> FALSE] ELSE [found |-> TRUE, value |-> d.inodes[inode].value]
Now(d, name) == Content(d, d.directory, name)

\* Both contents of a key are possible from the change on until the store returns; a sync of
\* the directory that fails after a removal is only logged.  A removal that finds no file
\* syncs nothing and promises nothing: an earlier one, cut off before its sync, may still be lost.
Promises(call, d) ==
    IF call.do \in {"rename", "unlink"} THEN [storage.promised EXCEPT ![call.name] = @ \cup {Now(d, call.name)}]
    ELSE IF call.do = "return" /\ ~storage.excused THEN [storage.promised EXCEPT ![call.name] = {Now(d, call.name)}]
    ELSE storage.promised

-----------------------------------------------------------------------------

Nothing == [script |-> <<>>, privileged |-> TRUE, losses |-> 0, failures |-> 0]

StorageInit(behaviours) ==
    \E behaviour \in behaviours :
        storage = [disk |-> EmptyDisk(StoreNames), server |-> NoServer, todo |-> <<>>, job |-> "none", made |-> 0,
                   script |-> behaviour.script, privileged |-> behaviour.privileged,
                   losses |-> behaviour.losses, failures |-> behaviour.failures,  \* yet to come
                   excused |-> FALSE,       \* what has happened is not made up for
                   refused |-> FALSE,       \* the server could not start
                   asked |-> {},            \* the broadcasts that were configured
                   promised |-> [n \in Values |-> {[found |-> FALSE]}]]

\* The application's next job.  Operations of the server need one that runs, others one that
\* doesn't.
Begin ==
    /\ storage.todo = <<>> /\ storage.script # <<>>
    /\ LET next == Head(storage.script)
           job == IF next.do \in OfServer /\ ~storage.server.running THEN Do("start") ELSE next
       IN /\ next.do \in OfServer \/ ~storage.server.running
          /\ job.do = "start" => storage.made + 2 <= MaxMade
          /\ storage' = [storage EXCEPT !.todo = <<job>>, !.job = job.do,
                                        !.script = IF job = next THEN Tail(@) ELSE @]

\* A job ends early.
Ended(d) ==
    [storage EXCEPT !.disk = d, !.todo = <<>>,
                    !.asked = IF Exists(d, Broadcasts) THEN ToSet(File(d, Broadcasts).value) ELSE {}]

\* With an error; the process of a server that does not run yet ends with it.
Fails(d) ==
    [Ended(d) EXCEPT !.server = IF @.running THEN @ ELSE NoServer,
                     !.refused = @ \/ storage.job = "start"]

Asked(op) ==
    CASE op.do = "enable" -> {pair \in storage.asked : pair[1] # op.cid} \cup {<<op.cid, op.interval>>}
      [] op.do = "disable" -> {pair \in storage.asked : pair[1] # op.cid}
      [] op.do = "purge" -> IF op.domain = Broadcasts.domain THEN {} ELSE storage.asked
      [] OTHER -> storage.asked

Compute ==
    /\ storage.todo # <<>>
    /\ LET op == Head(storage.todo)
       IN /\ op.do \notin Calls
          /\ \E result \in Consists(op) :
                storage' =
                IF result.error THEN Fails(disk)
                ELSE [storage EXCEPT !.todo = result.todo \o Tail(@),
                                                !.server = result.server,
                                                !.made = IF op.do \in {"make LTSK", "device ID"} THEN @ + Len(result.todo) ELSE @,
                                                !.promised = Promises(op, disk),
                                                !.asked = Asked(op)]

CallSystem ==
    /\ storage.todo # <<>>
    /\ LET call == Head(storage.todo)
       IN /\ call.do \in Calls
          /\ \E n \in 1..(IF call.do = "write" THEN Parts - File(disk, Temporary(call.name)).written ELSE 1) :
                LET outcome == Perform(disk, call, n, TRUE, storage.privileged)
                IN storage' =
                   IF outcome.failed THEN Fails(outcome.disk)
                   ELSE [storage EXCEPT !.disk = outcome.disk, !.todo = outcome.todo \o Tail(@),
                                                   !.promised = Promises(call, outcome.disk)]

\* The system fails to do what it is asked for.
CallFails ==
    /\ storage.todo # <<>> /\ storage.failures > 0
    /\ LET call == Head(storage.todo)
           outcome == Perform(disk, call, 1, FALSE, storage.privileged)
       IN /\ call.do \in Calls
          /\ storage' = [(IF outcome.failed THEN Fails(outcome.disk)
                          ELSE [storage EXCEPT !.disk = outcome.disk, !.todo = Tail(@)])
                         EXCEPT !.failures = @ - 1, !.excused = TRUE]

Died(d) ==
    [Ended(d) EXCEPT !.losses = @ - 1, !.server = NoServer, !.excused = @ \/ ~storage.privileged]

Killed ==
    /\ storage.losses > 0
    /\ storage' = Died(disk)

PowerLost ==
    /\ storage.losses > 0
    /\ \E d \in Survivors(disk) :
        storage' = [Died(d) EXCEPT !.promised = [n \in Values |-> {Now(d, n)}]]

StorageNext == Begin \/ Compute \/ CallSystem \/ CallFails \/ Killed \/ PowerLost

-----------------------------------------------------------------------------

\* Whenever power is lost, a key has the value that was set last, or the one that is being
\* set, and all of it; once it has been set, no other (a file whose sync has failed is
\* excepted, as the failure is only logged).  A key is removed once that has found its file.
WritesAreAtomic ==
    \A directory \in disk.lost \cup {disk.directory} : \A n \in Values :
        /\ Content(disk, directory, n) \in storage.promised[n]
        /\ directory[n] # NoInode =>
            LET file == disk.inodes[directory[n]]
            IN file.sync = "failed" \/ (file.sync = "done" /\ IsWhole(file))

\* A pairing is never kept beyond the secret key that it was made with, wherever a reset, a
\* start or an import was interrupted.
PairingsMatchIdentity ==
    storage.server.ltsk # 0 =>
        \A n \in Listed("Pairings") : Get(n)[1] = storage.server.ltsk

\* The broadcasts are those that were asked for, in their order.
BroadcastsAreKept ==
    /\ \A i \in DOMAIN Configuration : i > 1 => Configuration[i - 1][1] < Configuration[i][1]
    /\ storage.todo = <<>> => ToSet(Configuration) = storage.asked

\* No loss of power leaves a store that the accessory cannot start from.
StartsAgain == storage.refused => storage.excused

StoreOutlivesCrashes == WritesAreAtomic /\ PairingsMatchIdentity /\ BroadcastsAreKept /\ StartsAgain

=============================================================================
