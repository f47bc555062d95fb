--------------------------- MODULE StorageProofs ---------------------------
(* Theorems about Storage: what is kept outlives any number of crashes and losses of power at
   any call, for any scripts, numbers of parts and of pairings.  All that is promised of the
   disk is about the contents that its directory, or an earlier one that may come back, gives
   to the keys: the views of the disk.  What each call does to the views is shown first, and
   the invariant speaks of views from then on. *)
EXTENDS Storage, FiniteSetTheorems, SequenceTheorems, WellFoundedInduction, TLAPS

-----------------------------------------------------------------------------
(* Behaviours *)

\* The constants: StorageAssumption.
StorageConstants ==
    /\ Inodes \subseteq Nat \ {0} /\ Parts \in Nat \ {0} /\ MaxPairings \in Nat

Imports == {"import", "import pairing"}

\* A job of the application.  What is imported is one accessory: the pairings are those of the
\* secret key key.
IsJob(job, key) ==
    \/ job.do \in {"start", "stop", "restore", "remove all pairings", "broadcast key", "pair"}
    \/ job.do = "enable" /\ job.cid \in Nat /\ job.interval \in Nat
    \/ job.do = "disable" /\ job.cid \in Nat
    \/ /\ job.do = "import" /\ job.name \in {LTSK, DeviceID, ConfigurationNumber}
       /\ job.name = LTSK => job.value[1] = key
    \/ job.do = "import pairing" /\ job.key \in 1 .. MaxPairings /\ job.ltsk = key

\* A sequence of anything.
IsPlan(plan) == \E S : plan \in Seq(S)

\* Nothing is imported after something else has been done: HAPLegacyImport.h, 34 and others.
IsScript(script, key) ==
    /\ IsPlan(script)
    /\ \A i \in 1 .. Len(script) : IsJob(script[i], key)
    /\ \A i \in 1 .. Len(script), j \in 1 .. Len(script) :
           i < j /\ script[j].do \in Imports => script[i].do \in Imports

\* The behaviours of an accessory.
AreBehaviours(behaviours) ==
    \A b \in behaviours : \E key \in Nat \ {0} : IsScript(b.script, key)

StorageSpec(behaviours) == StorageInit(behaviours) /\ [][StorageNext]_storage

\* The file system never runs out of inodes.
InodesSuffice == Inodes \ Used(disk) # {}

-----------------------------------------------------------------------------
(* Disks *)

Directories(d) == d.lost \cup {d.directory}
Temporaries == {Temporary(n) : n \in Values}

\* The content of each key.
View(d, directory) == [n \in Values |-> Content(d, directory, n)]
Views(d) == {View(d, directory) : directory \in Directories(d)}
Current(d) == View(d, d.directory)

\* A directory, and the present one, never have two temporary names for an inode, nor a
\* temporary name of one of them for an inode that is, or may be again, the value of a key.
\* The value of a key is on the disk, unless a sync has failed.
DirectoryFits(d, directory) ==
    /\ directory \in [StoreNames -> Inodes \cup {NoInode}]
    /\ \A n \in Values : directory[n] # NoInode =>
           /\ d.inodes[directory[n]].sync = "failed"
              \/ (d.inodes[directory[n]].sync = "done" /\ IsWhole(d.inodes[directory[n]]))
           /\ \A m \in Temporaries : directory[n] # directory[m] /\ directory[n] # d.directory[m]
    /\ \A m \in Temporaries, o \in Temporaries :
           directory[m] = directory[o] /\ directory[m] # NoInode => m = o

InodeFits(inode) ==
    /\ DOMAIN inode = {"value", "written", "sync"}
    /\ inode.written \in 0 .. Parts /\ inode.sync \in {"due", "done", "failed"}

DiskFits(d) ==
    /\ DOMAIN d = {"directory", "lost", "inodes", "root"} /\ DOMAIN d.inodes = Inodes
    /\ \A directory \in Directories(d) : DirectoryFits(d, directory)
    /\ \A i \in Inodes : InodeFits(d.inodes[i])

\* No inode has a sync that failed.
SyncsWell(d) == \A i \in Inodes : d.inodes[i].sync # "failed"

-----------------------------------------------------------------------------
(* What is in the store *)

InOrder(configuration) ==
    /\ configuration \in Seq(Nat \X Nat)
    /\ \A i \in 1 .. Len(configuration), j \in 1 .. Len(configuration) :
           i < j => configuration[i][1] < configuration[j][1]

\* Pairings fit the secret key, and broadcasts are in their order.
ViewFits(v) ==
    /\ v[LTSK].found =>
           /\ v[LTSK].value[1] \in Nat \ {0}
           /\ \A k \in 1 .. MaxPairings : v[Pairing(k)].found => v[Pairing(k)].value[1] = v[LTSK].value[1]
    /\ v[Broadcasts].found => InOrder(v[Broadcasts].value)

\* While the accessory is imported it has no other key.
IsImported(v, key) ==
    /\ v[LTSK].found => v[LTSK].value[1] = key
    /\ \A k \in 1 .. MaxPairings : v[Pairing(k)].found => v[Pairing(k)].value[1] = key

HasPairings(v) == \E k \in 1 .. MaxPairings : v[Pairing(k)].found

ConfigurationOf(v) == IF v[Broadcasts].found THEN v[Broadcasts].value ELSE <<>>

-----------------------------------------------------------------------------
(* What is left of a job *)

StartSteps == {"start", "load LTSK", "make LTSK", "cleanup", "increment CN", "device ID", "CN", "run"}
Jobs == {"pair", "broadcast key", "enable", "disable", "stop", "restore", "remove all pairings"} \cup Imports

\* The operation is going to remove the key n.
Removes(op, n) ==
    \/ op.do \in {"remove", "unlink"} /\ op.name = n
    \/ op.do = "enumerate" /\ n \in op.left
WillRemove(op, n) == Removes(op, n) \/ (op.do = "purge" /\ op.domain = n.domain)

\* The call before another one of the same operation.
Before(do) ==
    CASE do = "write" -> {"open"}
      [] do = "sync" -> {"write"}
      [] do = "sync directory" -> {"sync"}
      [] do = "rename" -> {"sync directory"}
      [] do = "sync renamed" -> {"rename"}
      [] do = "sync unlinked" -> {"unlink"}
      [] do = "return" -> {"sync renamed", "sync unlinked"}

\* op is followed by next: calls in their order and without anything between them, and the
\* steps of a start.
Follows(op, next) ==
    /\ next.do \notin {"set", "open", "unlink"} \cup Jobs \cup {"start", "load LTSK"}
    /\ op.do \notin Jobs \cup {"start", "run"}
    /\ IF next.do \in Calls \cup {"return"} THEN op.do \in Before(next.do) /\ op.name = next.name
       ELSE op.do \notin Calls
    /\ op.do \in {"load LTSK", "make LTSK"} => next.do = "cleanup"
    /\ op.do = "cleanup" => next.do = "increment CN"
    /\ op.do = "increment CN" => next.do = "device ID"
    /\ op.do = "device ID" => next.do = "CN"
    /\ op.do = "CN" => next.do = "run"

OpFits(s, op, key) ==
    /\ op.do \in Calls \cup Jobs \cup StartSteps \cup {"set", "remove", "return", "purge", "enumerate"}
    /\ op.do \in Calls \cup {"set", "remove", "return"} => op.name \in Values
    /\ op.do = "enumerate" => op.left \subseteq Values /\ DOMAIN op = {"do", "left"}
    /\ op.do \in Jobs => op.do = s.job /\ IsJob(op, key)
    /\ op.do \in StartSteps => s.job = "start"
    /\ WillRemove(op, LTSK) => s.job = "restore"
    /\ Removes(op, Broadcasts) => s.asked = {}

\* What the job may write.
ValueFits(s, name, value, key) ==
    /\ name = LTSK =>
           /\ value[1] \in Nat \ {0}
           /\ \/ s.job = "import" /\ value[1] = key
              \/ s.job = "start" /\ value[1] = s.server.ltsk /\ ~HasPairings(Current(s.disk))
    /\ \A k \in 1 .. MaxPairings : name = Pairing(k) =>
           \/ s.job = "import pairing" /\ value[1] = key
           \/ s.job = "pair" /\ value[1] = s.server.ltsk
    /\ name = Broadcasts => InOrder(value) /\ ToSet(value) = s.asked

Writing == {"write", "sync", "sync directory", "rename"}

HeadFits(s, op, key) ==
    /\ op.do \in {"set", "open"} => ValueFits(s, op.name, op.value, key)
    /\ op.do \in Writing =>
           /\ Exists(s.disk, Temporary(op.name))
           /\ LET file == File(s.disk, Temporary(op.name))
              IN /\ ValueFits(s, op.name, file.value, key)
                 /\ IF op.do = "write" THEN ~IsWhole(file) ELSE IsWhole(file)
                 /\ op.do \in {"sync directory", "rename"} => file.sync \in {"done", "failed"}
    /\ op.do = "return" => s.excused \/ s.disk.lost = {}

Works(s) == s.todo # <<>>

TodoFits(s, key) ==
    /\ IsPlan(s.todo)
    /\ \A op \in ToSet(s.todo) : OpFits(s, op, key)
    /\ \A i \in 1 .. Len(s.todo) : i < Len(s.todo) => Follows(s.todo[i], s.todo[i + 1])
    /\ Works(s) =>
           /\ s.todo[Len(s.todo)].do \notin Calls
           /\ s.job = "start" => s.todo[Len(s.todo)].do \in {"start", "run"}
           /\ HeadFits(s, s.todo[1], key)

Writes(s, name) == Works(s) /\ s.todo[1].do \in Writing \cup {"set", "open"} /\ s.todo[1].name = name
Has(s, steps) == \E op \in ToSet(s.todo) : op.do \in steps

Importing(s) ==
    \/ \E i \in 1 .. Len(s.script) : s.script[i].do \in Imports
    \/ Works(s) /\ s.job \in Imports

\* The server runs with the key in the store; a start has made or found it.
ServerFits(s) ==
    /\ DOMAIN s.server = {"running", "ltsk"} /\ s.server.running \in BOOLEAN
    /\ s.server.ltsk # 0 => s.server.running \/ (Works(s) /\ s.job = "start")
    /\ s.server.running => s.server.ltsk # 0
    /\ Works(s) => (s.job \in OfServer <=> s.server.running) \/ s.job = "start"
    /\ Works(s) /\ s.job = "start" =>
           /\ s.server.ltsk = 0 <=> Has(s, {"start", "load LTSK", "make LTSK"})
           /\ ~s.server.running
    /\ s.server.ltsk # 0 =>
           \/ Current(s.disk)[LTSK].found /\ Current(s.disk)[LTSK].value[1] = s.server.ltsk
           \/ s.job = "start" /\ Writes(s, LTSK)
    /\ Has(s, {"make LTSK"}) =>
           \A k \in 1 .. MaxPairings : Current(s.disk)[Pairing(k)].found =>
               \E op \in ToSet(s.todo) : WillRemove(op, Pairing(k))

AskedFits(s) ==
    \/ ToSet(ConfigurationOf(Current(s.disk))) = s.asked
    \/ Writes(s, Broadcasts)
    \/ \E op \in ToSet(s.todo) : Removes(op, Broadcasts)

\* Nothing has gone wrong that was not excused.
ExcusesFit(s) ==
    \/ s.excused
    \/ /\ SyncsWell(s.disk) /\ ~s.refused
       /\ s.privileged \/ \A n \in Values : Exists(s.disk, Temporary(n)) =>
              Works(s) /\ s.todo[1].do \in Writing /\ s.todo[1].name = n

ContentsFit(s, key) ==
    \A v \in Views(s.disk) :
        /\ ViewFits(v)
        /\ Importing(s) => IsImported(v, key)
        /\ \A n \in Values : v[n] \in s.promised[n]

StateFits(s, key) ==
    /\ DOMAIN s = {"disk", "server", "todo", "job", "made", "script", "privileged", "losses",
                   "failures", "excused", "refused", "asked", "promised"}
    /\ s.made \in Nat
    /\ DOMAIN s.promised = Values
    /\ IsScript(s.script, key)
    /\ Works(s) /\ s.job \notin Imports => \A i \in 1 .. Len(s.script) : s.script[i].do \notin Imports
    /\ DiskFits(s.disk)
    /\ TodoFits(s, key) /\ ServerFits(s) /\ AskedFits(s) /\ ExcusesFit(s) /\ ContentsFit(s, key)

StoreInv == \E key \in Nat \ {0} : StateFits(storage, key)

-----------------------------------------------------------------------------
(* Names *)

LEMMA NamesFit ==
    /\ StoreNames = Values \cup Temporaries
    /\ \A n \in Values : ~n.temporary /\ Temporary(n) \in Temporaries
    /\ \A m \in Temporaries : m.temporary /\ m \notin Values /\ \E n \in Values : m = Temporary(n)
    /\ \A n \in Values, o \in Values : Temporary(n) = Temporary(o) => n = o
  <1>1. StoreNames = Values \cup Temporaries
    BY DEF StoreNames, Temporaries
  <1>2. \A n \in Values : \E domain, key : n = [domain |-> domain, key |-> key, temporary |-> FALSE]
    BY DEF Values, Name, LTSK, DeviceID, ConfigurationNumber, Broadcasts, BroadcastParameters, Pairing
  <1>3. ASSUME NEW domain, NEW key, NEW n, n = [domain |-> domain, key |-> key, temporary |-> FALSE]
        PROVE  Temporary(n).domain = domain /\ Temporary(n).key = key
    BY <1>3 DEF Temporary
  <1>4. ASSUME NEW domain, NEW key, NEW n, n = [domain |-> domain, key |-> key, temporary |-> FALSE]
        PROVE  ~n.temporary
    BY <1>4
  <1>5. ASSUME NEW domain, NEW key, NEW n, n = [domain |-> domain, key |-> key, temporary |-> FALSE]
        PROVE  Temporary(n).temporary
    BY <1>5 DEF Temporary
  <1> HIDE DEF Values
  <1>6. \A n \in Values : ~n.temporary /\ Temporary(n).temporary
    BY <1>2, <1>4, <1>5
  <1>7. ASSUME NEW n \in Values, NEW o \in Values, Temporary(n) = Temporary(o)
        PROVE  n = o
    <2>1. PICK a, b : n = [domain |-> a, key |-> b, temporary |-> FALSE]
      BY <1>2
    <2>2. PICK c, d : o = [domain |-> c, key |-> d, temporary |-> FALSE]
      BY <1>2
    <2>3. a = c /\ b = d
      BY <1>3, <1>7, <2>1, <2>2
    <2>4. QED
      BY <2>1, <2>2, <2>3
  <1>8. QED
    BY <1>1, <1>6, <1>7 DEF Temporaries

LEMMA KeysFit ==
    /\ LTSK \in Values /\ DeviceID \in Values /\ ConfigurationNumber \in Values
    /\ Broadcasts \in Values /\ BroadcastParameters \in Values
    /\ LTSK # Broadcasts /\ LTSK # DeviceID /\ LTSK # ConfigurationNumber /\ LTSK # BroadcastParameters
    /\ Broadcasts # DeviceID /\ Broadcasts # ConfigurationNumber /\ Broadcasts # BroadcastParameters
    /\ \A k \in 1 .. MaxPairings :
           /\ Pairing(k) \in Values /\ Pairing(k).domain = "Pairings" /\ Pairing(k).key = k
           /\ Pairing(k) # LTSK /\ Pairing(k) # DeviceID /\ Pairing(k) # ConfigurationNumber
           /\ Pairing(k) # Broadcasts /\ Pairing(k) # BroadcastParameters
    /\ LTSK.domain = "Configuration" /\ Broadcasts.domain = "CharacteristicConfiguration"
    /\ BroadcastParameters.domain = "Configuration"
    /\ \A n \in Values : /\ n.domain = "Pairings" => \E k \in 1 .. MaxPairings : n = Pairing(k)
                         /\ n.domain = "CharacteristicConfiguration" => n = Broadcasts
  <1>1. /\ LTSK \in Values /\ DeviceID \in Values /\ ConfigurationNumber \in Values
        /\ Broadcasts \in Values /\ BroadcastParameters \in Values
        /\ \A k \in 1 .. MaxPairings : Pairing(k) \in Values
        /\ \A n \in Values :
               \/ n \in {LTSK, DeviceID, ConfigurationNumber, BroadcastParameters, Broadcasts}
               \/ \E k \in 1 .. MaxPairings : n = Pairing(k)
    BY DEF Values
  <1>2. /\ LTSK.domain = "Configuration" /\ DeviceID.domain = "Configuration"
        /\ ConfigurationNumber.domain = "Configuration" /\ BroadcastParameters.domain = "Configuration"
        /\ Broadcasts.domain = "CharacteristicConfiguration"
        /\ LTSK.key = 1 /\ DeviceID.key = 2 /\ ConfigurationNumber.key = 3 /\ BroadcastParameters.key = 4
    BY DEF Name, LTSK, DeviceID, ConfigurationNumber, Broadcasts, BroadcastParameters
  <1>3. \A k \in 1 .. MaxPairings : Pairing(k).domain = "Pairings" /\ Pairing(k).key = k
    BY DEF Name, Pairing
  <1>4. LTSK # Broadcasts /\ LTSK # DeviceID /\ LTSK # ConfigurationNumber /\ LTSK # BroadcastParameters
    BY <1>2
  <1>5. Broadcasts # DeviceID /\ Broadcasts # ConfigurationNumber /\ Broadcasts # BroadcastParameters
    BY <1>2
  <1>6. \A k \in 1 .. MaxPairings :
           /\ Pairing(k) # LTSK /\ Pairing(k) # DeviceID /\ Pairing(k) # ConfigurationNumber
           /\ Pairing(k) # Broadcasts /\ Pairing(k) # BroadcastParameters
    BY <1>2, <1>3
  <1>7. \A n \in Values : /\ n.domain = "Pairings" => \E k \in 1 .. MaxPairings : n = Pairing(k)
                         /\ n.domain = "CharacteristicConfiguration" => n = Broadcasts
    BY <1>1, <1>2, <1>3
  <1>8. QED
    BY <1>1, <1>2, <1>3, <1>4, <1>5, <1>6, <1>7

-----------------------------------------------------------------------------
(* What the calls make of the disk *)

LEMMA DirectoryTyped ==
    ASSUME NEW d, DiskFits(d), NEW directory \in Directories(d)
    PROVE  /\ DOMAIN directory = StoreNames
           /\ \A n \in StoreNames : directory[n] \in Inodes \cup {NoInode}
           /\ d.directory \in Directories(d) /\ NamesOf(d) = StoreNames
  BY DEF DiskFits, DirectoryFits, Directories, NamesOf

LEMMA UsedFits ==
    ASSUME NEW d, DiskFits(d)
    PROVE  /\ \A directory \in Directories(d), n \in StoreNames : directory[n] \in Used(d)
           /\ \A i \in Used(d) : \E directory \in Directories(d), n \in StoreNames : i = directory[n]
  <1> DEFINE Leads(directory) == {directory[n] : n \in StoreNames}
  <1>1. \A directory \in Directories(d), n \in StoreNames : directory[n] \in Leads(directory)
    OBVIOUS
  <1>2. Used(d) = UNION {Leads(directory) : directory \in Directories(d)}
    BY DirectoryTyped DEF Used, Directories
  <1>3. \A directory \in Directories(d) : Leads(directory) \subseteq Used(d)
    BY <1>2
  <1>4. \A i \in Used(d) : \E directory \in Directories(d) : i \in Leads(directory)
    BY <1>2
  <1>5. QED
    BY <1>1, <1>3, <1>4

\* A view depends only on the values that the directory leads to.
LEMMA SameView ==
    ASSUME NEW d, NEW e, NEW directory,
           \A n \in Values : directory[n] # NoInode =>
               e.inodes[directory[n]].value = d.inodes[directory[n]].value
    PROVE  View(e, directory) = View(d, directory)
  BY DEF View, Content

\* Calls on the temporary file change nothing that is kept.
LEMMA TemporaryChanged ==
    ASSUME StorageConstants, NEW d, DiskFits(d), NEW m \in Temporaries, d.directory[m] # NoInode,
           NEW inode, InodeFits(inode)
    PROVE  LET e == [d EXCEPT !.inodes[d.directory[m]] = inode]
           IN /\ DiskFits(e) /\ Views(e) = Views(d) /\ Current(e) = Current(d)
              /\ e.directory = d.directory /\ e.lost = d.lost /\ e.inodes[d.directory[m]] = inode
              /\ SyncsWell(d) /\ inode.sync # "failed" => SyncsWell(e)
  <1> DEFINE i == d.directory[m]
             e == [d EXCEPT !.inodes[i] = inode]
  <1>1. /\ i \in Inodes /\ m \in StoreNames
        /\ \A directory \in Directories(d), n \in Values : directory[n] # NoInode => directory[n] # i
    BY NamesFit, DirectoryTyped DEF DiskFits, DirectoryFits, Directories
  <1>2. /\ e.directory = d.directory /\ e.lost = d.lost /\ e.inodes = [d.inodes EXCEPT ![i] = inode]
        /\ DOMAIN e = {"directory", "lost", "inodes", "root"}
    BY <1>1 DEF DiskFits
  <1> HIDE DEF e, i
  <1>3. /\ e.directory = d.directory /\ e.lost = d.lost /\ Directories(e) = Directories(d)
        /\ \A j \in Inodes : e.inodes[j] = IF j = i THEN inode ELSE d.inodes[j]
        /\ DOMAIN e.inodes = Inodes
    BY <1>2 DEF Directories, DiskFits
  <1>4. ASSUME NEW directory \in Directories(d)
        PROVE  DirectoryFits(e, directory) /\ View(e, directory) = View(d, directory)
    <2>1. \A n \in Values : directory[n] # NoInode => e.inodes[directory[n]] = d.inodes[directory[n]]
      BY <1>1, <1>3, DirectoryTyped, NamesFit
    <2>2. View(e, directory) = View(d, directory)
      BY <2>1, SameView
    <2>3. DirectoryFits(d, directory)
      BY DEF DiskFits
    <2>4. QED
      BY <1>3, <2>1, <2>2, <2>3 DEF DirectoryFits
  <1>5. Views(e) = Views(d) /\ Current(e) = Current(d)
    BY <1>3, <1>4 DEF Views, Current, Directories
  <1>6. \A j \in Inodes : InodeFits(e.inodes[j])
    BY <1>3 DEF DiskFits
  <1>7. DiskFits(e)
    BY <1>2, <1>3, <1>4, <1>6 DEF DiskFits
  <1>8. SyncsWell(d) /\ inode.sync # "failed" => SyncsWell(e)
    BY <1>3 DEF SyncsWell
  <1>9. QED
    BY <1>1, <1>3, <1>5, <1>7, <1>8 DEF e, i

\* A set of natural numbers has a least element.
LEMMA LeastNumber ==
    ASSUME NEW S, S \subseteq Nat, S # {}
    PROVE  Min(S) \in S
  <1>1. PICK m \in S : \A n \in S : <<n, m>> \notin OpToRel(<, Nat)
    BY WFMin, NatLessThanWellFounded, Zenon
  <1>2. \A n \in S : ~(n < m)
    BY <1>1, Zenon DEF OpToRel
  <1>3. \E n \in S : \A o \in S : n <= o
    BY <1>2
  <1>4. QED
    BY <1>3 DEF Min

\* Names are given inodes, or none.
LEMMA LinksChanged ==
    ASSUME NEW d, DiskFits(d), NEW links
    PROVE  LET e == Linked(d, links)
           IN /\ DOMAIN e = {"directory", "lost", "inodes", "root"}
              /\ e.directory = [n \in StoreNames |-> IF n \in DOMAIN links THEN links[n] ELSE d.directory[n]]
              /\ e.lost = d.lost \cup {d.directory} /\ e.inodes = d.inodes /\ e.root = d.root
              /\ Directories(e) = Directories(d) \cup {e.directory} /\ (SyncsWell(d) => SyncsWell(e))
              /\ Views(e) = Views(d) \cup {Current(e)}
              /\ (\A directory \in Directories(e) : DirectoryFits(e, directory)) => DiskFits(e)
  <1> DEFINE e == Linked(d, links)
  <1>1. DOMAIN d.directory = StoreNames
    BY DirectoryTyped DEF Directories
  <1>2. /\ DOMAIN e = {"directory", "lost", "inodes", "root"}
        /\ e.directory = [n \in StoreNames |-> IF n \in DOMAIN links THEN links[n] ELSE d.directory[n]]
        /\ e.lost = d.lost \cup {d.directory} /\ e.inodes = d.inodes /\ e.root = d.root
    BY <1>1 DEF DiskFits, Linked, NamesOf
  <1> HIDE DEF e
  <1>3. Directories(e) = Directories(d) \cup {e.directory}
    BY <1>2 DEF Directories
  <1>4. \A directory : View(e, directory) = View(d, directory)
    BY <1>2 DEF View, Content
  <1>5. Views(e) = Views(d) \cup {Current(e)}
    BY <1>3, <1>4 DEF Views, Current
  <1>6. (\A directory \in Directories(e) : DirectoryFits(e, directory)) => DiskFits(e)
    BY <1>2 DEF DiskFits
  <1>7. SyncsWell(d) => SyncsWell(e)
    BY <1>2 DEF SyncsWell
  <1>8. QED
    BY <1>2, <1>3, <1>5, <1>6, <1>7 DEF e

\* The contents stay what they are, and what they may become.
SameContents(e, d) == DiskFits(e) /\ Views(e) = Views(d) /\ Current(e) = Current(d)

LEMMA RootChanged ==
    ASSUME NEW d, DiskFits(d), NEW root
    PROVE  LET e == [d EXCEPT !.root = root]
           IN /\ SameContents(e, d) /\ (SyncsWell(d) => SyncsWell(e))
              /\ e.directory = d.directory /\ e.lost = d.lost /\ e.inodes = d.inodes
  <1> DEFINE e == [d EXCEPT !.root = root]
  <1>1. /\ DOMAIN e = {"directory", "lost", "inodes", "root"}
        /\ e.directory = d.directory /\ e.lost = d.lost /\ e.inodes = d.inodes
    BY DEF DiskFits
  <1> HIDE DEF e
  <1>2. Directories(e) = Directories(d) /\ (SyncsWell(d) => SyncsWell(e))
    BY <1>1 DEF Directories, SyncsWell
  <1>3. \A directory : View(e, directory) = View(d, directory)
    BY <1>1 DEF View, Content
  <1>4. Views(e) = Views(d) /\ Current(e) = Current(d)
    BY <1>1, <1>2, <1>3 DEF Views, Current
  <1>5. DiskFits(e)
    BY <1>1, <1>2 DEF DiskFits, DirectoryFits
  <1>6. QED
    BY <1>1, <1>2, <1>4, <1>5 DEF SameContents, e

\* The others have their temporary files as before.
SameTemporaries(e, d, n) ==
    \A o \in Values : o # n => (Exists(e, Temporary(o)) <=> Exists(d, Temporary(o)))

\* The temporary file is created, under a name that no directory leads from.
LEMMA Created ==
    ASSUME StorageConstants, NEW d, DiskFits(d), NEW n \in Values, ~Exists(d, Temporary(n)),
           Inodes \ Used(d) # {}
    PROVE  LET e == Linked(d, [m \in {Temporary(n)} |-> Min(Inodes \ Used(d))])
           IN /\ SameContents(e, d) /\ (SyncsWell(d) => SyncsWell(e))
              /\ Exists(e, Temporary(n)) /\ SameTemporaries(e, d, n)
  <1> DEFINE i == Min(Inodes \ Used(d))
             links == [m \in {Temporary(n)} |-> i]
             e == Linked(d, links)
             temporary == Temporary(n)
  <1>0. DOMAIN links = {temporary} /\ links[temporary] = i
    OBVIOUS
  <1>1. i \in Inodes /\ i \notin Used(d) /\ i # NoInode
    BY LeastNumber DEF StorageConstants, NoInode
  <1>2. \A directory \in Directories(d), m \in StoreNames : directory[m] # i
    BY <1>1, UsedFits
  <1>3. temporary \in Temporaries /\ temporary \in StoreNames /\ temporary \notin Values
    BY NamesFit
  <1> HIDE DEF links
  <1>4. /\ e.directory = [m \in StoreNames |-> IF m \in DOMAIN links THEN links[m] ELSE d.directory[m]]
        /\ e.inodes = d.inodes
        /\ Directories(e) = Directories(d) \cup {e.directory} /\ (SyncsWell(d) => SyncsWell(e))
        /\ Views(e) = Views(d) \cup {Current(e)}
        /\ (\A directory \in Directories(e) : DirectoryFits(e, directory)) => DiskFits(e)
    BY LinksChanged
  <1> HIDE DEF i, e, temporary
  <1>5. e.directory = [m \in StoreNames |-> IF m = temporary THEN i ELSE d.directory[m]]
    BY <1>0, <1>4
  <1>6. Current(e) = Current(d)
    BY <1>3, <1>4, <1>5, NamesFit DEF Current, View, Content
  <1>7. Views(e) = Views(d)
    BY <1>4, <1>6, DirectoryTyped DEF Views, Current, Directories
  <1>8. ASSUME NEW directory \in Directories(d)
        PROVE  DirectoryFits(e, directory)
    <2>1. DirectoryFits(d, directory)
      BY DEF DiskFits
    <2>2. \A o \in Values, m \in Temporaries : directory[o] # NoInode => directory[o] # e.directory[m]
      BY <1>2, <1>5, <2>1, NamesFit DEF DirectoryFits
    <2>3. QED
      BY <1>4, <2>1, <2>2 DEF DirectoryFits
  <1>9. DirectoryFits(e, e.directory)
    <2>1. DirectoryFits(d, d.directory) /\ d.directory \in Directories(d)
      BY DEF DiskFits, Directories
    <2>2. e.directory \in [StoreNames -> Inodes \cup {NoInode}]
      BY <1>1, <1>5, <2>1 DEF DirectoryFits
    <2>3. \A o \in Values : e.directory[o] = d.directory[o]
      BY <1>3, <1>5, NamesFit
    <2>4. \A o \in Values, m \in Temporaries : e.directory[o] # NoInode => e.directory[o] # e.directory[m]
      BY <1>2, <1>5, <2>1, <2>3, NamesFit DEF DirectoryFits
    <2>5. \A m \in Temporaries, o \in Temporaries :
             e.directory[m] = e.directory[o] /\ e.directory[m] # NoInode => m = o
      BY <1>2, <1>5, <2>1, NamesFit DEF DirectoryFits
    <2>6. QED
      BY <1>4, <2>1, <2>2, <2>3, <2>4, <2>5 DEF DirectoryFits
  <1>10. DiskFits(e)
    BY <1>4, <1>8, <1>9
  <1>11. Exists(e, temporary) /\ SameTemporaries(e, d, n)
    BY <1>1, <1>3, <1>5, NamesFit DEF Exists, SameTemporaries, temporary
  <1>12. QED
    BY <1>4, <1>6, <1>7, <1>10, <1>11 DEF SameContents, e, links, i, temporary

\* What the temporary file has become.
Becomes(e, d, n, file) ==
    /\ SameContents(e, d) /\ (SyncsWell(d) /\ file.sync # "failed" => SyncsWell(e))
    /\ Exists(e, Temporary(n)) /\ File(e, Temporary(n)) = file /\ SameTemporaries(e, d, n)

LEMMA FileChanged ==
    ASSUME StorageConstants, NEW d, DiskFits(d), NEW n \in Values, Exists(d, Temporary(n)),
           NEW file, InodeFits(file)
    PROVE  LET e == [d EXCEPT !.inodes[d.directory[Temporary(n)]] = file]
           IN Becomes(e, d, n, file) /\ e.directory = d.directory /\ e.lost = d.lost
  <1> DEFINE m == Temporary(n)
             e == [d EXCEPT !.inodes[d.directory[m]] = file]
  <1>1. m \in Temporaries /\ d.directory[m] # NoInode
    BY NamesFit DEF Exists
  <1> HIDE DEF m
  <1>2. /\ DiskFits(e) /\ Views(e) = Views(d) /\ Current(e) = Current(d)
        /\ e.directory = d.directory /\ e.lost = d.lost /\ e.inodes[d.directory[m]] = file
        /\ (SyncsWell(d) /\ file.sync # "failed" => SyncsWell(e))
    BY <1>1, TemporaryChanged
  <1> HIDE DEF e
  <1>3. Exists(e, m) /\ File(e, m) = file /\ SameTemporaries(e, d, n)
    BY <1>1, <1>2 DEF Exists, File, SameTemporaries
  <1>4. QED
    BY <1>2, <1>3 DEF Becomes, SameContents, e, m

LEMMA Opened ==
    ASSUME StorageConstants, NEW d, DiskFits(d), NEW n \in Values, NEW value, Inodes \ Used(d) # {}
    PROVE  LET e == OpenTemporary(d, n, value)
           IN Becomes(e, d, n, [value |-> value, written |-> 0, sync |-> "due"])
  <1> DEFINE m == Temporary(n)
             file == [value |-> value, written |-> 0, sync |-> "due"]
             new == Linked(d, [o \in {m} |-> Min(Inodes \ Used(d))])
             c == IF Exists(d, m) THEN d ELSE new
             e == [c EXCEPT !.inodes[c.directory[m]] = file]
  <1>1. SameContents(c, d) /\ (SyncsWell(d) => SyncsWell(c)) /\ Exists(c, m) /\ SameTemporaries(c, d, n)
    <2>1. CASE Exists(d, m)
      BY <2>1 DEF SameContents, SameTemporaries
    <2>2. CASE ~Exists(d, m)
      <3>1. SameContents(new, d) /\ (SyncsWell(d) => SyncsWell(new)) /\ Exists(new, m) /\ SameTemporaries(new, d, n)
        BY <2>2, Created
      <3>2. QED
        BY <2>2, <3>1
    <2>3. QED
      BY <2>1, <2>2
  <1>2. OpenTemporary(d, n, value) = e
    BY DEF OpenTemporary, Empty
  <1>3. InodeFits(file) /\ file.sync # "failed"
    BY DEF InodeFits, StorageConstants
  <1> HIDE DEF c, file
  <1>4. Becomes(e, c, n, file)
    BY <1>1, <1>3, FileChanged DEF SameContents
  <1> HIDE DEF e, m
  <1>5. Becomes(e, d, n, file)
    BY <1>1, <1>4 DEF Becomes, SameContents, SameTemporaries
  <1>6. QED
    BY <1>2, <1>5 DEF file

LEMMA Written ==
    ASSUME StorageConstants, NEW d, DiskFits(d), NEW n \in Values, Exists(d, Temporary(n)),
           NEW k \in 1 .. (Parts - File(d, Temporary(n)).written)
    PROVE  LET e == WriteTemporary(d, n, k)
               file == File(d, Temporary(n))
           IN Becomes(e, d, n, [file EXCEPT !.written = @ + k])
  <1> DEFINE m == Temporary(n)
             i == d.directory[m]
             file == [File(d, m) EXCEPT !.written = @ + k]
  <1>1. i \in Inodes /\ InodeFits(d.inodes[i])
    BY NamesFit, DirectoryTyped DEF Exists, DiskFits, Directories
  <1>2. InodeFits(file)
    BY <1>1 DEF InodeFits, File, StorageConstants
  <1>3. file.sync = d.inodes[i].sync
    BY <1>1 DEF InodeFits, File
  <1>4. WriteTemporary(d, n, k) = [d EXCEPT !.inodes[i] = file]
    BY <1>1 DEF WriteTemporary, File, InodeFits, DiskFits
  <1> HIDE DEF file
  <1>5. Becomes(WriteTemporary(d, n, k), d, n, file)
    BY <1>2, <1>4, FileChanged
  <1>6. QED
    BY <1>5 DEF file

LEMMA SyncedTemporary ==
    ASSUME StorageConstants, NEW d, DiskFits(d), NEW n \in Values, Exists(d, Temporary(n)), NEW done
    PROVE  LET e == SyncTemporary(d, n, done)
               file == File(d, Temporary(n))
           IN Becomes(e, d, n, [file EXCEPT !.sync = IF done THEN "done" ELSE "failed"])
  <1> DEFINE m == Temporary(n)
             i == d.directory[m]
             file == [File(d, m) EXCEPT !.sync = IF done THEN "done" ELSE "failed"]
  <1>1. i \in Inodes /\ InodeFits(d.inodes[i])
    BY NamesFit, DirectoryTyped DEF Exists, DiskFits, Directories
  <1>2. InodeFits(file)
    BY <1>1 DEF InodeFits, File, StorageConstants
  <1>4. SyncTemporary(d, n, done) = [d EXCEPT !.inodes[i] = file]
    BY <1>1 DEF SyncTemporary, File, InodeFits, DiskFits
  <1> HIDE DEF file
  <1>5. Becomes(SyncTemporary(d, n, done), d, n, file)
    BY <1>2, <1>4, FileChanged
  <1>6. QED
    BY <1>5 DEF file

LEMMA EmptyFits ==
    ASSUME StorageConstants
    PROVE  LET e == EmptyDisk(StoreNames)
           IN /\ DiskFits(e) /\ Views(e) = {Current(e)} /\ SyncsWell(e)
              /\ Current(e) = [n \in Values |-> [found |-> FALSE]]
              /\ \A n \in StoreNames : ~Exists(e, n)
  <1> DEFINE e == EmptyDisk(StoreNames)
             none == [n \in StoreNames |-> NoInode]
  <1>1. /\ DOMAIN e = {"directory", "lost", "inodes", "root"} /\ e.directory = none /\ e.lost = {}
        /\ e.inodes = [i \in Inodes |-> Empty]
    BY DEF EmptyDisk
  <1> HIDE DEF e
  <1>2. Directories(e) = {none}
    BY <1>1 DEF Directories
  <1>3. DirectoryFits(e, none)
    BY NamesFit DEF DirectoryFits
  <1>4. InodeFits(Empty) /\ Empty.sync # "failed"
    BY DEF InodeFits, Empty, StorageConstants
  <1>5. DiskFits(e) /\ SyncsWell(e)
    BY <1>1, <1>2, <1>3, <1>4 DEF DiskFits, SyncsWell
  <1>6. Views(e) = {Current(e)} /\ Current(e) = [n \in Values |-> [found |-> FALSE]]
    BY <1>1, <1>2, NamesFit DEF Views, Current, View, Content
  <1>7. QED
    BY <1>1, <1>5, <1>6 DEF e, Exists

\* Only the inodes that are used are kept.
LEMMA TidiedFits ==
    ASSUME StorageConstants, NEW d, DiskFits(d), d.lost = {}
    PROVE  LET e == Tidied(d)
           IN /\ SameContents(e, d) /\ Views(e) = {Current(e)} /\ (SyncsWell(d) => SyncsWell(e))
              /\ e.directory = d.directory /\ e.lost = {}
              /\ \A n \in Values : Exists(d, Temporary(n)) => File(e, Temporary(n)) = File(d, Temporary(n))
  <1> DEFINE e == Tidied(d)
  <1>1. /\ DOMAIN e = {"directory", "lost", "inodes", "root"}
        /\ e.directory = d.directory /\ e.lost = {}
        /\ e.inodes = [i \in Inodes |-> IF i \in Used(d) THEN d.inodes[i] ELSE Empty]
    BY DEF DiskFits, Tidied
  <1> HIDE DEF e
  <1>2. Directories(e) = {d.directory} /\ Directories(d) = {d.directory}
    BY <1>1 DEF Directories
  <1>3. \A n \in StoreNames : d.directory[n] # NoInode =>
            d.directory[n] \in Inodes /\ e.inodes[d.directory[n]] = d.inodes[d.directory[n]]
    BY <1>1, <1>2, UsedFits, DirectoryTyped
  <1>4. View(e, d.directory) = View(d, d.directory)
    BY <1>3, NamesFit, SameView
  <1>5. Views(e) = {Current(e)} /\ Views(e) = Views(d) /\ Current(e) = Current(d)
    BY <1>1, <1>2, <1>4 DEF Views, Current
  <1>6. DirectoryFits(d, d.directory)
    BY <1>2 DEF DiskFits
  <1>7. DirectoryFits(e, d.directory)
    BY <1>1, <1>3, <1>6, NamesFit DEF DirectoryFits
  <1>8. InodeFits(Empty) /\ Empty.sync # "failed"
    BY DEF InodeFits, Empty, StorageConstants
  <1>9. DiskFits(e) /\ (SyncsWell(d) => SyncsWell(e))
    BY <1>1, <1>2, <1>7, <1>8 DEF DiskFits, SyncsWell
  <1>10. \A n \in Values : Exists(d, Temporary(n)) => File(e, Temporary(n)) = File(d, Temporary(n))
    BY <1>1, <1>3, NamesFit DEF Exists, File
  <1>11. QED
    BY <1>1, <1>5, <1>9, <1>10 DEF e, SameContents

\* The directory is found as it was, with or without its last operations.
LEMMA SyncedDirectory ==
    ASSUME StorageConstants, NEW d, DiskFits(d)
    PROVE  LET e == SyncDirectory(d)
           IN /\ DiskFits(e) /\ Views(e) = {Current(d)} /\ Current(e) = Current(d)
              /\ (SyncsWell(d) => SyncsWell(e)) /\ e.directory = d.directory /\ e.lost = {}
              /\ \A n \in Values : Exists(d, Temporary(n)) => File(e, Temporary(n)) = File(d, Temporary(n))
  <1> DEFINE c == [d EXCEPT !.lost = {}]
  <1>1. /\ DOMAIN c = {"directory", "lost", "inodes", "root"}
        /\ c.directory = d.directory /\ c.lost = {} /\ c.inodes = d.inodes
    BY DEF DiskFits
  <1>2. SyncDirectory(d) = Tidied(c)
    BY DEF SyncDirectory
  <1> HIDE DEF c
  <1>3. Directories(c) \subseteq Directories(d)
    BY <1>1 DEF Directories
  <1>4. DiskFits(c) /\ (SyncsWell(d) => SyncsWell(c))
    BY <1>1, <1>3 DEF DiskFits, DirectoryFits, SyncsWell
  <1>5. Current(c) = Current(d)
    BY <1>1 DEF Current, View, Content
  <1>6. \A n \in Values : /\ Exists(d, Temporary(n)) => Exists(c, Temporary(n))
                          /\ File(c, Temporary(n)) = File(d, Temporary(n))
    BY <1>1 DEF Exists, File
  <1>7. QED
    BY <1>1, <1>2, <1>4, <1>5, <1>6, TidiedFits DEF SameContents

\* What comes after a loss of power: the contents are some that could come, or none.
LEMMA Survived ==
    ASSUME StorageConstants, NEW d, DiskFits(d), NEW e \in Survivors(d)
    PROVE  /\ DiskFits(e) /\ Views(e) = {Current(e)} /\ (SyncsWell(d) => SyncsWell(e))
           /\ Current(e) \in Views(d) \cup {[n \in Values |-> [found |-> FALSE]]}
  <1>1. \/ \E directory \in Directories(d), n \in Beginnings(d) : e = Left(d, directory, n)
        \/ e = EmptyDisk(NamesOf(d))
    <2> DEFINE Lefts(directory) == {Left(d, directory, n) : n \in Beginnings(d)}
               all == {Lefts(directory) : directory \in Directories(d)}
               empty == IF d.root = "new" THEN {EmptyDisk(NamesOf(d))} ELSE {}
    <2>1. Survivors(d) = (UNION all) \cup empty
      BY Zenon DEF Survivors, Directories
    <2>2. e \in empty => e = EmptyDisk(NamesOf(d))
      OBVIOUS
    <2>3. e \in UNION all => \E directory \in Directories(d) : e \in Lefts(directory)
      <3> HIDE DEF Lefts
      <3>1. QED
        BY Zenon
    <2>4. e \in UNION all \/ e \in empty
      <3> HIDE DEF all, empty
      <3>1. QED
        BY <2>1
    <2>5. QED
      BY <2>2, <2>3, <2>4
  <1>2. ASSUME NEW directory \in Directories(d), NEW n \in Beginnings(d), e = Left(d, directory, n)
        PROVE  /\ DiskFits(e) /\ Views(e) = {Current(e)} /\ (SyncsWell(d) => SyncsWell(e))
               /\ Current(e) \in Views(d)
    <2> DEFINE due == Unsynced(d)
               inodes == [i \in Inodes |-> IF i \in DOMAIN n THEN [d.inodes[i] EXCEPT !.written = n[i]] ELSE d.inodes[i]]
               c == [d EXCEPT !.directory = directory, !.lost = {}, !.root = "kept", !.inodes = inodes]
    <2>0. e = Tidied(c)
      BY <1>2, Zenon DEF Left
    <2>1. /\ DOMAIN c = {"directory", "lost", "inodes", "root"}
          /\ c.directory = directory /\ c.lost = {} /\ c.inodes = inodes
      BY DEF DiskFits
    <2>2. DOMAIN n = due /\ \A i \in due : n[i] \in 0 .. Parts
      BY DEF Beginnings
    <2> HIDE DEF c, due
    <2>3. \A i \in Inodes : /\ InodeFits(c.inodes[i]) /\ c.inodes[i].value = d.inodes[i].value
                            /\ c.inodes[i].sync = d.inodes[i].sync
                            /\ i \notin due => c.inodes[i] = d.inodes[i]
      BY <2>1, <2>2 DEF DiskFits, InodeFits
    <2>4. \A i \in Inodes : d.inodes[i].sync = "done" => i \notin due
      BY DEF due, Unsynced
    <2>5. DirectoryFits(d, directory) /\ \A m \in StoreNames : directory[m] \in Inodes \cup {NoInode}
      BY DirectoryTyped DEF DiskFits
    <2>6. \A o \in Values : directory[o] # NoInode =>
              c.inodes[directory[o]].sync = "failed"
                 \/ (c.inodes[directory[o]].sync = "done" /\ IsWhole(c.inodes[directory[o]]))
      BY <2>3, <2>4, <2>5, NamesFit DEF DirectoryFits
    <2>7. DirectoryFits(c, directory)
      BY <2>1, <2>5, <2>6 DEF DirectoryFits
    <2>8. Directories(c) = {directory} /\ DOMAIN c.inodes = Inodes
      BY <2>1 DEF Directories
    <2>9. DiskFits(c)
      BY <2>1, <2>3, <2>7, <2>8 DEF DiskFits
    <2>10. View(c, directory) = View(d, directory)
      BY <2>3, <2>5, NamesFit, SameView
    <2>11. Current(c) \in Views(d)
      BY <2>1, <2>10 DEF Current, Views
    <2>12. SyncsWell(d) => SyncsWell(c)
      BY <2>3 DEF SyncsWell
    <2>13. e = Tidied(c) /\ c.lost = {}
      BY <2>0, <2>1
    <2>14. QED
      BY <2>9, <2>11, <2>12, <2>13, TidiedFits DEF SameContents
  <1>3. ASSUME e = EmptyDisk(NamesOf(d))
        PROVE  /\ DiskFits(e) /\ Views(e) = {Current(e)} /\ SyncsWell(e)
               /\ Current(e) = [n \in Values |-> [found |-> FALSE]]
    BY <1>3, DirectoryTyped, EmptyFits DEF Directories
  <1>4. QED
    BY <1>1, <1>2, <1>3

\* A key gets the content of its temporary file.
LEMMA Renamed ==
    ASSUME StorageConstants, NEW d, DiskFits(d), NEW n \in Values, Exists(d, Temporary(n)),
           IsWhole(File(d, Temporary(n))), File(d, Temporary(n)).sync \in {"done", "failed"}
    PROVE  LET e == Rename(d, n)
           IN /\ DiskFits(e) /\ Views(e) = Views(d) \cup {Current(e)} /\ (SyncsWell(d) => SyncsWell(e))
              /\ Current(e) = [Current(d) EXCEPT ![n] = [found |-> TRUE, value |-> File(d, Temporary(n)).value]]
              /\ ~Exists(e, Temporary(n)) /\ SameTemporaries(e, d, n)
  <1> DEFINE temporary == Temporary(n)
             i == d.directory[temporary]
             links == [m \in {n, temporary} |-> IF m = n THEN i ELSE NoInode]
             e == Linked(d, links)
  <1>1. /\ temporary \in Temporaries /\ temporary \in StoreNames /\ temporary \notin Values
        /\ n \in StoreNames /\ n \notin Temporaries /\ i # NoInode
    BY NamesFit DEF Exists
  <1>2. i \in Inodes /\ IsWhole(d.inodes[i]) /\ d.inodes[i].sync \in {"done", "failed"}
    BY <1>1, DirectoryTyped DEF Directories, File
  <1>3. Rename(d, n) = e
    BY Zenon DEF Rename
  <1> HIDE DEF temporary
  <1>4. DOMAIN links = {n, temporary} /\ links[n] = i /\ links[temporary] = NoInode
    BY <1>1
  <1> HIDE DEF links, i
  <1>5. /\ e.directory = [m \in StoreNames |-> IF m \in DOMAIN links THEN links[m] ELSE d.directory[m]]
        /\ e.inodes = d.inodes
        /\ Directories(e) = Directories(d) \cup {e.directory} /\ (SyncsWell(d) => SyncsWell(e))
        /\ Views(e) = Views(d) \cup {Current(e)}
        /\ (\A directory \in Directories(e) : DirectoryFits(e, directory)) => DiskFits(e)
    BY LinksChanged
  <1> HIDE DEF e
  <1>6. /\ e.directory = [m \in StoreNames |-> IF m = n THEN i ELSE IF m = temporary THEN NoInode ELSE d.directory[m]]
    BY <1>4, <1>5
  <1>7. /\ e.directory[n] = i /\ e.directory[temporary] = NoInode
        /\ \A m \in StoreNames : m # n /\ m # temporary => e.directory[m] = d.directory[m]
    BY <1>1, <1>6
  <1>8. DirectoryFits(d, d.directory) /\ d.directory \in Directories(d)
    BY DEF DiskFits, Directories
  <1>9. Current(e) = [Current(d) EXCEPT ![n] = [found |-> TRUE, value |-> d.inodes[i].value]]
    BY <1>1, <1>5, <1>7, NamesFit DEF Current, View, Content
  <1>10. ASSUME NEW directory \in Directories(d)
         PROVE  DirectoryFits(e, directory)
    <2>1. DirectoryFits(d, directory)
      BY DEF DiskFits
    <2>2. \A o \in Values, m \in Temporaries : directory[o] # NoInode => directory[o] # e.directory[m]
      BY <1>1, <1>7, <2>1, NamesFit DEF DirectoryFits
    <2>3. QED
      BY <1>5, <2>1, <2>2 DEF DirectoryFits
  <1>11. DirectoryFits(e, e.directory)
    <2>1. e.directory \in [StoreNames -> Inodes \cup {NoInode}]
      BY <1>2, <1>6, <1>8 DEF DirectoryFits
    <2>2. \A o \in Values : e.directory[o] # NoInode =>
              d.inodes[e.directory[o]].sync = "failed"
                 \/ (d.inodes[e.directory[o]].sync = "done" /\ IsWhole(d.inodes[e.directory[o]]))
      BY <1>1, <1>2, <1>7, <1>8, NamesFit DEF DirectoryFits
    <2>3. \A m \in Temporaries : m # temporary => e.directory[m] = d.directory[m] /\ d.directory[m] # i
      BY <1>1, <1>7, <1>8, NamesFit DEF DirectoryFits, i
    <2>4. \A o \in Values : o # n => e.directory[o] = d.directory[o]
      BY <1>1, <1>7, NamesFit
    <2>5. \A o \in Values, m \in Temporaries : e.directory[o] # NoInode => e.directory[o] # e.directory[m]
      BY <1>1, <1>7, <1>8, <2>3, <2>4 DEF DirectoryFits
    <2>6. \A m \in Temporaries, o \in Temporaries :
             e.directory[m] = e.directory[o] /\ e.directory[m] # NoInode => m = o
      BY <1>7, <1>8, <2>3 DEF DirectoryFits
    <2>7. QED
      BY <1>5, <2>1, <2>2, <2>5, <2>6 DEF DirectoryFits
  <1>12. DiskFits(e)
    BY <1>5, <1>10, <1>11
  <1>13. ~Exists(e, temporary) /\ SameTemporaries(e, d, n)
    BY <1>1, <1>7, NamesFit DEF Exists, SameTemporaries, temporary
  <1>14. QED
    BY <1>3, <1>5, <1>9, <1>12, <1>13 DEF File, temporary, i

\* A key has no content any longer.
LEMMA Unlinked ==
    ASSUME StorageConstants, NEW d, DiskFits(d), NEW n \in Values
    PROVE  LET e == Unlink(d, n)
           IN /\ DiskFits(e) /\ Views(e) = Views(d) \cup {Current(e)} /\ (SyncsWell(d) => SyncsWell(e))
              /\ Current(e) = [Current(d) EXCEPT ![n] = [found |-> FALSE]]
              /\ \A o \in Values : Exists(e, Temporary(o)) <=> Exists(d, Temporary(o))
  <1> DEFINE links == [m \in {n} |-> NoInode]
             e == Linked(d, links)
  <1>1. n \in StoreNames /\ n \notin Temporaries
    BY NamesFit
  <1>2. Unlink(d, n) = e
    BY Zenon DEF Unlink
  <1>3. DOMAIN links = {n} /\ links[n] = NoInode
    OBVIOUS
  <1> HIDE DEF links
  <1>4. /\ e.directory = [m \in StoreNames |-> IF m \in DOMAIN links THEN links[m] ELSE d.directory[m]]
        /\ e.inodes = d.inodes
        /\ Directories(e) = Directories(d) \cup {e.directory} /\ (SyncsWell(d) => SyncsWell(e))
        /\ Views(e) = Views(d) \cup {Current(e)}
        /\ (\A directory \in Directories(e) : DirectoryFits(e, directory)) => DiskFits(e)
    BY LinksChanged
  <1> HIDE DEF e
  <1>5. e.directory = [m \in StoreNames |-> IF m = n THEN NoInode ELSE d.directory[m]]
    BY <1>3, <1>4
  <1>6. e.directory[n] = NoInode /\ \A m \in StoreNames : m # n => e.directory[m] = d.directory[m]
    BY <1>1, <1>5
  <1>7. DirectoryFits(d, d.directory) /\ d.directory \in Directories(d)
    BY DEF DiskFits, Directories
  <1>8. \A m \in Temporaries : m \in StoreNames /\ e.directory[m] = d.directory[m]
    BY <1>1, <1>6, NamesFit
  <1>9. Current(e) = [Current(d) EXCEPT ![n] = [found |-> FALSE]]
    BY <1>1, <1>4, <1>6, NamesFit DEF Current, View, Content
  <1>10. ASSUME NEW directory \in Directories(d)
         PROVE  DirectoryFits(e, directory)
    <2>1. DirectoryFits(d, directory)
      BY DEF DiskFits
    <2>2. QED
      BY <1>4, <1>8, <2>1 DEF DirectoryFits
  <1>11. DirectoryFits(e, e.directory)
    <2>1. e.directory \in [StoreNames -> Inodes \cup {NoInode}]
      BY <1>5, <1>7 DEF DirectoryFits
    <2>2. \A o \in Values : e.directory[o] # NoInode => e.directory[o] = d.directory[o]
      BY <1>6, NamesFit
    <2>3. QED
      BY <1>4, <1>7, <1>8, <2>1, <2>2 DEF DirectoryFits
  <1>12. DiskFits(e)
    BY <1>4, <1>10, <1>11
  <1>13. \A o \in Values : Exists(e, Temporary(o)) <=> Exists(d, Temporary(o))
    BY <1>8, NamesFit DEF Exists
  <1>14. QED
    BY <1>2, <1>4, <1>9, <1>12, <1>13

-----------------------------------------------------------------------------
(* The configuration of broadcasts *)

\* The place that is found by counting is where the characteristic belongs.
LEMMA PlaceFits ==
    ASSUME NEW c, InOrder(c), NEW cid \in Nat
    PROVE  /\ Place(c, cid) \in 1 .. (Len(c) + 1)
           /\ \A i \in 1 .. Len(c) : c[i][1] < cid <=> i < Place(c, cid)
  <1> DEFINE below == {i \in DOMAIN c : c[i][1] < cid}
             count == Cardinality(below)
             n == Len(c)
  <1>1. c \in Seq(Nat \X Nat) /\ n \in Nat /\ DOMAIN c = 1 .. n
    BY DEF InOrder
  <1>2. \A i \in 1 .. n : c[i] \in Nat \X Nat /\ c[i][1] \in Nat
    BY <1>1
  <1>3. \A i \in 1 .. n, j \in below : i < j => i \in below
    BY <1>1, <1>2 DEF InOrder
  <1>4. below \subseteq 1 .. n /\ IsFiniteSet(below) /\ count \in 0 .. n
    <2>1. below \subseteq 1 .. n
      BY <1>1
    <2>2. IsFiniteSet(1 .. n) /\ Cardinality(1 .. n) = n
      BY <1>1, FS_Interval, SMTT(40)
    <2> HIDE DEF below, n
    <2>3. IsFiniteSet(below) /\ count \in Nat /\ count <= n
      BY <2>1, <2>2, FS_Subset, FS_CardinalityType
    <2>4. QED
      BY <1>1, <2>1, <2>3
  <1>5. IsFiniteSet(1 .. count) /\ Cardinality(1 .. count) = count
    BY <1>4, FS_Interval
  <1>6. below = 1 .. count
    <2> HIDE DEF below, n
    <2>1. CASE \E i \in below : i > count
      <3>1. 1 .. count \subseteq below
        BY <1>1, <1>3, <1>4, <2>1
      <3>2. QED
        BY <1>4, <1>5, <3>1, FS_Subset
    <2>2. CASE \A i \in below : i <= count
      <3>1. below \subseteq 1 .. count
        BY <1>1, <1>4, <2>2
      <3>2. QED
        BY <1>4, <1>5, <3>1, FS_Subset
    <2>3. QED
      BY <1>1, <1>4, <2>1, <2>2
  <1>7. Place(c, cid) = 1 + count
    BY DEF Place
  <1>8. \A i \in 1 .. n : c[i][1] < cid <=> i \in below
    BY <1>1
  <1> HIDE DEF below, count, n
  <1>9. QED
    BY <1>1, <1>4, <1>6, <1>7, <1>8 DEF n

LEMMA InToSet ==
    ASSUME NEW c, NEW x
    PROVE  x \in ToSet(c) <=> \E i \in DOMAIN c : x = c[i]
  BY DEF ToSet

\* One pair of the characteristic is added or replaced; the others keep their order.
LEMMA EnabledFits ==
    ASSUME NEW c, InOrder(c), NEW cid \in Nat, NEW interval \in Nat
    PROVE  /\ InOrder(Enable(c, cid, interval))
           /\ ToSet(Enable(c, cid, interval)) = {pair \in ToSet(c) : pair[1] # cid} \cup {<<cid, interval>>}
  <1> DEFINE p == Place(c, cid)
             n == Len(c)
             x == <<cid, interval>>
             e == Enable(c, cid, interval)
  <1>1. c \in Seq(Nat \X Nat) /\ n \in Nat /\ DOMAIN c = 1 .. n
    BY DEF InOrder
  <1>2. \A i \in 1 .. n : c[i] \in Nat \X Nat /\ c[i] = <<c[i][1], c[i][2]>> /\ c[i][1] \in Nat /\ c[i][2] \in Nat
    BY <1>1
  <1>3. p \in 1 .. (n + 1) /\ \A i \in 1 .. n : c[i][1] < cid <=> i < p
    BY PlaceFits
  <1>4. \A i \in 1 .. n, j \in 1 .. n : i < j => c[i][1] < c[j][1]
    BY DEF InOrder
  <1>5. x \in Nat \X Nat /\ x[1] = cid
    OBVIOUS
  <1> HIDE DEF p, x
  <1>6. CASE IsListed(c, cid)
    <2>1. p \in 1 .. n /\ c[p][1] = cid
      BY <1>1, <1>3, <1>6 DEF IsListed, p
    <2>2. e = [c EXCEPT ![p] = [c[p] EXCEPT ![2] = interval]]
      BY <1>6 DEF Enable, p
    <2>3. [c[p] EXCEPT ![2] = interval] = x
      BY <1>2, <2>1 DEF x
    <2>4. e = [c EXCEPT ![p] = x]
      BY <2>2, <2>3
    <2> HIDE DEF e
    <2>5. /\ e \in Seq(Nat \X Nat) /\ Len(e) = n /\ DOMAIN e = 1 .. n /\ e[p] = x
          /\ \A i \in 1 .. n : i # p => e[i] = c[i]
      BY <1>1, <1>5, <2>1, <2>4
    <2>6. \A i \in 1 .. n : e[i][1] = c[i][1]
      BY <1>5, <2>1, <2>5
    <2>7. InOrder(e)
      BY <1>4, <2>5, <2>6 DEF InOrder
    <2>8. \A i \in 1 .. n : i # p => c[i][1] # cid
      BY <1>1, <1>2, <1>4, <2>1
    <2>9. ToSet(e) = {pair \in ToSet(c) : pair[1] # cid} \cup {x}
      <3>1. \A i \in 1 .. n : e[i] \in {pair \in ToSet(c) : pair[1] # cid} \cup {x}
        BY <1>1, <2>5, <2>8 DEF ToSet
      <3>2. \A i \in 1 .. n : c[i][1] # cid => c[i] \in ToSet(e)
        BY <1>1, <2>1, <2>5 DEF ToSet
      <3>3. x \in ToSet(e)
        BY <2>1, <2>5 DEF ToSet
      <3>4. QED
        <4>1. \A y \in ToSet(e) : y \in {pair \in ToSet(c) : pair[1] # cid} \cup {x}
          BY <2>5, <3>1, InToSet
        <4>2. \A y \in ToSet(c) : y[1] # cid => y \in ToSet(e)
          BY <1>1, <3>2, InToSet
        <4>3. QED
          BY <3>3, <4>1, <4>2
    <2>10. QED
      BY <2>7, <2>9 DEF e, x
  <1>7. CASE ~IsListed(c, cid)
    <2>1. e = SubSeq(c, 1, p - 1) \o <<x>> \o SubSeq(c, p, n)
      BY <1>7 DEF Enable, InsertAt, p, x
    <2> DEFINE a == SubSeq(c, 1, p - 1)
               b == SubSeq(c, p, n)
    <2>2. a \in Seq(Nat \X Nat) /\ Len(a) = p - 1 /\ \A i \in 1 .. (p - 1) : a[i] = c[i]
      BY <1>1, <1>3
    <2>3. b \in Seq(Nat \X Nat) /\ Len(b) = n - p + 1 /\ \A i \in 1 .. (n - p + 1) : b[i] = c[p + i - 1]
      BY <1>1, <1>3
    <2> HIDE DEF a, b, e, n
    <2>4. a \o <<x>> \in Seq(Nat \X Nat) /\ Len(a \o <<x>>) = p /\ (a \o <<x>>)[p] = x
          /\ \A i \in 1 .. (p - 1) : (a \o <<x>>)[i] = a[i]
      BY <1>3, <1>5, <2>2
    <2> DEFINE h == a \o <<x>>
    <2> HIDE DEF h
    <2>5. /\ e \in Seq(Nat \X Nat) /\ Len(e) = n + 1 /\ DOMAIN e = 1 .. (n + 1) /\ e[p] = x
          /\ \A i \in 1 .. (p - 1) : e[i] = c[i]
          /\ \A i \in (p + 1) .. (n + 1) : e[i] = c[i - 1]
      <3>1. e = h \o b /\ h \in Seq(Nat \X Nat) /\ Len(h) = p /\ h[p] = x /\ \A i \in 1 .. (p - 1) : h[i] = a[i]
        BY <2>1, <2>4 DEF a, b, h
      <3>2. e \in Seq(Nat \X Nat) /\ Len(e) = n + 1 /\ DOMAIN e = 1 .. (n + 1)
        BY <1>1, <1>3, <2>3, <3>1
      <3>3. \A i \in 1 .. p : e[i] = h[i]
        BY <1>1, <1>3, <2>3, <3>1
      <3>4. \A i \in (p + 1) .. (n + 1) : e[i] = b[i - p]
        <4>1. Len(b) = n - p + 1 /\ p \in Nat /\ n \in Nat
          BY <1>1, <1>3, <2>3
        <4>2. \A i \in (p + 1) .. (p + Len(b)) : e[i] = b[i - p]
          <5>1. ASSUME NEW i \in (p + 1) .. (p + Len(b)) PROVE (h \o b)[i] = b[i - p]
            <6>1. i \in 1 .. (Len(h) + Len(b)) /\ i > Len(h)
              BY <3>1, <4>1
            <6>2. QED
              <7>1. h \in Seq(Nat \X Nat) /\ b \in Seq(Nat \X Nat)
                BY <2>3, <3>1
              <7>2. (h \o b)[i] = b[i - Len(h)]
                BY <6>1, <7>1
              <7>3. QED
                BY <3>1, <7>2
          <5>2. QED
            BY <3>1, <5>1
        <4>3. QED
          BY <4>1, <4>2
      <3>5. ASSUME NEW i \in (p + 1) .. (n + 1)
            PROVE  b[i - p] = c[i - 1]
        <4>1. i - p \in 1 .. (n - p + 1) /\ p + (i - p) - 1 = i - 1
          BY <1>1, <1>3, SMTT(40)
        <4>2. QED
          BY <2>3, <4>1
      <3>6. \A i \in 1 .. (p - 1) : i \in 1 .. p /\ e[i] = c[i]
        BY <1>1, <1>3, <2>2, <3>1, <3>3
      <3>7. e[p] = x
        BY <1>1, <1>3, <3>1, <3>3
      <3>8. QED
        BY <3>2, <3>4, <3>5, <3>6, <3>7
    <2>6. \A i \in 1 .. n : c[i][1] # cid
      <3>1. SUFFICES ASSUME NEW i \in 1 .. n, c[i][1] = cid PROVE FALSE
        OBVIOUS
      <3>2. p <= i /\ p \in 1 .. n
        BY <1>1, <1>2, <1>3, <3>1
      <3>3. c[p][1] >= cid
        BY <1>1, <1>2, <1>3, <3>2
      <3>4. c[p][1] # cid
        BY <1>7, <3>2 DEF IsListed, p, n
      <3>5. QED
        BY <1>1, <1>2, <1>4, <3>1, <3>2, <3>3, <3>4
    <2>7. \A i \in 1 .. n : /\ i < p => c[i][1] < cid
                            /\ i >= p => cid < c[i][1]
      BY <1>1, <1>2, <1>3, <2>6
    <2>8. ASSUME NEW i \in 1 .. (n + 1)
          PROVE  /\ i < p => e[i] = c[i] /\ i \in 1 .. n
                 /\ i = p => e[i] = x
                 /\ i > p => e[i] = c[i - 1] /\ i - 1 \in 1 .. n /\ i - 1 >= p
      <3>1. i \in Nat /\ p \in Nat /\ n \in Nat /\ 1 <= p /\ p <= n + 1
        BY <1>1, <1>3
      <3>2. (i < p => i \in 1 .. (p - 1)) /\ (i > p => i \in (p + 1) .. (n + 1))
        BY <3>1
      <3>3. (i < p => i \in 1 .. n) /\ (i > p => i - 1 \in 1 .. n /\ i - 1 >= p)
        BY <3>1
      <3>4. (i < p => e[i] = c[i]) /\ (i = p => e[i] = x) /\ (i > p => e[i] = c[i - 1])
        BY <2>5, <3>2
      <3>5. QED
        BY <3>1, <3>3, <3>4
    <2>9. InOrder(e)
      <3>1. ASSUME NEW i \in 1 .. (n + 1), NEW j \in 1 .. (n + 1), i < j
            PROVE  e[i][1] < e[j][1]
        <4>1. i \in Nat /\ j \in Nat /\ p \in Nat /\ n \in Nat
          BY <1>1, <1>3
        <4>2. CASE j < p
          BY <1>4, <2>8, <3>1, <4>1, <4>2
        <4>3. CASE j = p
          BY <1>5, <2>7, <2>8, <3>1, <4>1, <4>3
        <4>4. CASE j > p /\ i < p
          <5>1. e[i] = c[i] /\ i \in 1 .. n /\ e[j] = c[j - 1] /\ j - 1 \in 1 .. n /\ i < j - 1
            BY <2>8, <4>1, <4>4
          <5>2. QED
            BY <1>4, <5>1
        <4>5. CASE j > p /\ i = p
          <5>1. e[i] = x /\ e[j] = c[j - 1] /\ j - 1 \in 1 .. n /\ j - 1 >= p
            BY <2>8, <4>1, <4>5
          <5>2. QED
            BY <1>5, <2>7, <5>1
        <4>6. CASE j > p /\ i > p
          <5>1. /\ e[i] = c[i - 1] /\ i - 1 \in 1 .. n /\ e[j] = c[j - 1] /\ j - 1 \in 1 .. n
                /\ i - 1 < j - 1
            BY <2>8, <3>1, <4>1, <4>6
          <5>2. QED
            BY <1>4, <5>1
        <4>7. QED
          BY <3>1, <4>1, <4>2, <4>3, <4>4, <4>5, <4>6
      <3>2. QED
        BY <2>5, <3>1 DEF InOrder
    <2>10. ToSet(e) = {pair \in ToSet(c) : pair[1] # cid} \cup {x}
      <3>1. \A i \in 1 .. (n + 1) : e[i] = x \/ \E j \in 1 .. n : e[i] = c[j]
        <4>1. ASSUME NEW i \in 1 .. (n + 1) PROVE e[i] = x \/ \E j \in 1 .. n : e[i] = c[j]
          <5>1. i < p \/ i = p \/ i > p
            BY <1>1, <1>3
          <5>2. QED
            BY <2>8, <5>1
        <4>2. QED
          BY <4>1
      <3>2. \A j \in 1 .. n : \E i \in 1 .. (n + 1) : e[i] = c[j]
        <4>1. ASSUME NEW j \in 1 .. n PROVE \E i \in 1 .. (n + 1) : e[i] = c[j]
          <5>1. CASE j < p
            BY <1>1, <1>3, <2>5, <5>1
          <5>2. CASE j >= p
            <6>1. j + 1 \in (p + 1) .. (n + 1) /\ e[j + 1] = c[j]
              BY <1>1, <1>3, <2>5, <5>2
            <6>2. QED
              BY <1>1, <1>3, <6>1
          <5>3. QED
            BY <1>1, <1>3, <5>1, <5>2
        <4>2. QED
          BY <4>1
      <3>3. QED
        <4>1. \A i \in 1 .. (n + 1) : e[i] \in {pair \in ToSet(c) : pair[1] # cid} \cup {x}
          BY <1>1, <2>6, <3>1 DEF ToSet
        <4>2. \A j \in 1 .. n : c[j] \in ToSet(e)
          BY <2>5, <3>2 DEF ToSet
        <4>3. p \in 1 .. (n + 1) /\ x \in ToSet(e)
          BY <1>3, <2>5 DEF ToSet, n
        <4>4. QED
          <5>1. \A y \in ToSet(e) : y \in {pair \in ToSet(c) : pair[1] # cid} \cup {x}
            BY <2>5, <4>1, InToSet
          <5>2. \A y \in ToSet(c) : y \in ToSet(e)
            BY <1>1, <4>2, InToSet
          <5>3. QED
            BY <4>3, <5>1, <5>2
    <2>11. QED
      BY <2>9, <2>10 DEF e, x
  <1>8. QED
    BY <1>6, <1>7

\* The pair of the characteristic is removed, if there is one.
LEMMA DisabledFits ==
    ASSUME NEW c, InOrder(c), NEW cid \in Nat
    PROVE  /\ InOrder(Disable(c, cid))
           /\ ToSet(Disable(c, cid)) = {pair \in ToSet(c) : pair[1] # cid}
           /\ Disable(c, cid) = c => \A pair \in ToSet(c) : pair[1] # cid
  <1> DEFINE p == Place(c, cid)
             n == Len(c)
             e == Disable(c, cid)
  <1>1. c \in Seq(Nat \X Nat) /\ n \in Nat /\ DOMAIN c = 1 .. n
    BY DEF InOrder
  <1>2. \A i \in 1 .. n : c[i] \in Nat \X Nat /\ c[i][1] \in Nat
    BY <1>1
  <1>3. p \in 1 .. (n + 1) /\ \A i \in 1 .. n : c[i][1] < cid <=> i < p
    BY PlaceFits
  <1>4. \A i \in 1 .. n, j \in 1 .. n : i < j => c[i][1] < c[j][1]
    BY DEF InOrder
  <1> HIDE DEF p
  <1>5. CASE IsListed(c, cid)
    <2>1. p \in 1 .. n /\ c[p][1] = cid /\ p \in Nat /\ 1 <= p
      BY <1>1, <1>3, <1>5 DEF IsListed, p
    <2> DEFINE a == SubSeq(c, 1, p - 1)
               b == SubSeq(c, p + 1, n)
    <2>2. e = a \o b
      BY <1>5 DEF Disable, RemoveAt, p
    <2>3. a \in Seq(Nat \X Nat) /\ Len(a) = p - 1 /\ \A i \in 1 .. (p - 1) : a[i] = c[i]
      BY <1>1, <2>1, SMTT(40)
    <2>4. b \in Seq(Nat \X Nat) /\ Len(b) = n - p /\ \A i \in 1 .. (n - p) : b[i] = c[p + i]
      <3>1. \A i \in (p + 1) .. n : c[i] \in Nat \X Nat
        BY <1>2, <2>1
      <3>2. /\ b \in Seq(Nat \X Nat) /\ Len(b) = IF p + 1 <= n THEN n - (p + 1) + 1 ELSE 0
            /\ \A i \in 1 .. (n - (p + 1) + 1) : b[i] = c[(p + 1) + i - 1]
        <4>1. p + 1 \in Int /\ n \in Int
          BY <1>1, <2>1
        <4> HIDE DEF n
        <4>2. QED
          BY <3>1, <4>1, SubSeqProperties
      <3> HIDE DEF b, n
      <3>3. Len(b) = n - p
        BY <1>1, <2>1, <3>2
      <3>4. ASSUME NEW i \in 1 .. (n - p) PROVE b[i] = c[p + i]
        <4>1. i \in 1 .. (n - (p + 1) + 1) /\ (p + 1) + i - 1 = p + i
          BY <1>1, <2>1, SMTT(40)
        <4>2. QED
          BY <3>2, <4>1
      <3>5. QED
        BY <3>2, <3>3, <3>4
    <2> HIDE DEF a, b, e, n
    <2>5. e \in Seq(Nat \X Nat) /\ Len(e) = n - 1 /\ DOMAIN e = 1 .. (n - 1)
      <3>1. e \in Seq(Nat \X Nat) /\ Len(e) = Len(a) + Len(b)
        <4>1. a \in Seq(Nat \X Nat) /\ b \in Seq(Nat \X Nat)
          BY <2>3, <2>4
        <4>2. a \o b \in Seq(Nat \X Nat) /\ Len(a \o b) = Len(a) + Len(b)
          BY <4>1, ConcatProperties
        <4>3. QED
          BY <2>2, <4>2
      <3>2. Len(a) + Len(b) = n - 1
        BY <1>1, <2>1, <2>3, <2>4
      <3>3. QED
        BY <3>1, <3>2
    <2>6. ASSUME NEW i \in 1 .. (n - 1)
          PROVE  /\ i < p => e[i] = c[i] /\ i \in 1 .. n
                 /\ i >= p => e[i] = c[i + 1] /\ i + 1 \in 1 .. n /\ i + 1 > p
      <3>1. i \in Nat /\ n \in Nat
        BY <1>1
      <3>2. CASE i < p
        <4>1. i \in 1 .. Len(a) /\ i \in 1 .. n
          BY <2>1, <2>3, <3>1, <3>2
        <4>2. (a \o b)[i] = a[i]
          BY <2>3, <2>4, <4>1
        <4>3. QED
          BY <2>1, <2>2, <2>3, <3>1, <3>2, <4>1, <4>2
      <3>3. CASE i >= p
        <4>1. i \in 1 .. (Len(a) + Len(b)) /\ i > Len(a) /\ i - Len(a) \in 1 .. (n - p)
          BY <2>1, <2>3, <2>4, <3>1, <3>3
        <4>2. (a \o b)[i] = b[i - Len(a)]
          BY <2>3, <2>4, <4>1
        <4>3. b[i - Len(a)] = c[p + (i - Len(a))] /\ p + (i - Len(a)) = i + 1
          BY <2>1, <2>3, <2>4, <3>1, <4>1
        <4>4. i + 1 \in 1 .. n /\ i + 1 > p
          BY <2>1, <3>1, <3>3
        <4>5. QED
          BY <2>1, <2>2, <3>1, <3>3, <4>2, <4>3, <4>4
      <3>4. QED
        BY <2>1, <3>1, <3>2, <3>3
    <2>7. InOrder(e)
      <3>1. ASSUME NEW i \in 1 .. (n - 1), NEW j \in 1 .. (n - 1), i < j
            PROVE  e[i][1] < e[j][1]
        <4>1. i \in Nat /\ j \in Nat /\ n \in Nat
          BY <1>1
        <4>2. CASE j < p
          BY <1>4, <2>1, <2>6, <3>1, <4>1, <4>2
        <4>3. CASE j >= p /\ i < p
          <5>1. e[i] = c[i] /\ i \in 1 .. n /\ e[j] = c[j + 1] /\ j + 1 \in 1 .. n /\ i < j + 1
            BY <2>1, <2>6, <4>1, <4>3
          <5>2. QED
            BY <1>4, <5>1
        <4>4. CASE j >= p /\ i >= p
          <5>1. e[i] = c[i + 1] /\ i + 1 \in 1 .. n /\ e[j] = c[j + 1] /\ j + 1 \in 1 .. n /\ i + 1 < j + 1
            BY <2>1, <2>6, <3>1, <4>1, <4>4
          <5>2. QED
            BY <1>4, <5>1
        <4>5. QED
          BY <2>1, <3>1, <4>1, <4>2, <4>3, <4>4
      <3>2. QED
        BY <2>5, <3>1 DEF InOrder
    <2>8. ASSUME NEW i \in 1 .. n, i # p
          PROVE  c[i][1] # cid /\ \E j \in 1 .. (n - 1) : e[j] = c[i]
      <3>1. i \in Nat /\ n \in Nat
        BY <1>1
      <3>2. CASE i < p
        <4>1. c[i][1] < c[p][1] /\ c[i][1] \in Nat
          BY <1>2, <1>4, <2>1, <3>2
        <4>2. i \in 1 .. (n - 1) /\ e[i] = c[i]
          BY <2>1, <2>6, <3>1, <3>2
        <4>3. QED
          BY <2>1, <4>1, <4>2
      <3>3. CASE i > p
        <4>1. c[p][1] < c[i][1] /\ c[i][1] \in Nat
          BY <1>2, <1>4, <2>1, <3>3
        <4>2. i - 1 \in 1 .. (n - 1) /\ i - 1 >= p /\ (i - 1) + 1 = i
          BY <2>1, <3>1, <3>3
        <4>3. e[i - 1] = c[i]
          BY <2>6, <4>2
        <4>4. QED
          BY <2>1, <4>1, <4>2, <4>3
      <3>4. QED
        BY <2>1, <2>8, <3>1, <3>2, <3>3
    <2>9. \A y \in ToSet(e) : y \in ToSet(c) /\ y[1] # cid
      <3>1. ASSUME NEW i \in 1 .. (n - 1) PROVE \E j \in 1 .. n : j # p /\ e[i] = c[j]
        <4>1. i \in Nat
          OBVIOUS
        <4>2. QED
          BY <2>1, <2>6, <4>1
      <3>2. QED
        <4>1. \A j \in 1 .. n : c[j] \in ToSet(c)
          BY <1>1, InToSet
        <4>2. \A y \in ToSet(e) : \E i \in 1 .. (n - 1) : y = e[i]
          BY <2>5, InToSet
        <4>3. QED
          BY <2>8, <3>1, <4>1, <4>2
    <2>10. \A y \in ToSet(c) : y[1] # cid => y \in ToSet(e)
      <3>1. \A j \in 1 .. (n - 1) : e[j] \in ToSet(e)
        BY <2>5, InToSet
      <3>2. \A y \in ToSet(c) : \E i \in 1 .. n : y = c[i]
        BY <1>1, InToSet
      <3>3. QED
        BY <2>1, <2>8, <3>1, <3>2
    <2>11. e # c
      BY <1>1, <2>5 DEF n
    <2>12. QED
      BY <2>7, <2>9, <2>10, <2>11 DEF e
  <1>6. CASE ~IsListed(c, cid)
    <2>1. e = c
      BY <1>6 DEF Disable
    <2>2. \A i \in 1 .. n : c[i][1] # cid
      <3>1. SUFFICES ASSUME NEW i \in 1 .. n, c[i][1] = cid PROVE FALSE
        OBVIOUS
      <3>2. p <= i /\ p \in 1 .. n
        BY <1>1, <1>2, <1>3, <3>1
      <3>3. c[p][1] >= cid
        BY <1>1, <1>2, <1>3, <3>2
      <3>4. c[p][1] # cid
        BY <1>6, <3>2 DEF IsListed, p, n
      <3>5. QED
        BY <1>1, <1>2, <1>4, <3>1, <3>2, <3>3, <3>4
    <2>3. \A y \in ToSet(c) : y[1] # cid
      BY <1>1, <2>2, InToSet
    <2>4. QED
      BY <2>1, <2>3 DEF e
  <1>7. QED
    BY <1>5, <1>6

\* A pair that is there already does not change the configuration.
LEMMA EnabledAlready ==
    ASSUME NEW c, InOrder(c), NEW cid \in Nat, NEW interval \in Nat,
           GetBroadcastConfiguration(c, cid) = [enabled |-> TRUE, interval |-> interval]
    PROVE  ToSet(c) = {pair \in ToSet(c) : pair[1] # cid} \cup {<<cid, interval>>}
  <1> DEFINE p == Place(c, cid)
             n == Len(c)
             here == [enabled |-> TRUE, interval |-> c[p][2]]
  <1>1. IsListed(c, cid)
    <2>1. [enabled |-> TRUE, interval |-> interval].enabled
      OBVIOUS
    <2>2. ~[enabled |-> FALSE, interval |-> 0].enabled
      OBVIOUS
    <2>3. QED
      BY <2>1, <2>2 DEF GetBroadcastConfiguration
  <1>2. c[p][2] = interval
    <2>1. here = [enabled |-> TRUE, interval |-> interval]
      BY <1>1 DEF GetBroadcastConfiguration
    <2>2. QED
      BY <2>1
  <1>3. c \in Seq(Nat \X Nat) /\ n \in Nat /\ DOMAIN c = 1 .. n /\ p \in 1 .. n /\ c[p][1] = cid
    BY <1>1, PlaceFits DEF InOrder, IsListed
  <1>4. c[p] = <<cid, interval>>
    BY <1>2, <1>3
  <1>5. \A i \in 1 .. n : i # p => c[i][1] # cid
    <2>1. \A i \in 1 .. n : c[i][1] \in Nat
      BY <1>3
    <2> HIDE DEF p
    <2>2. QED
      BY <1>3, <2>1 DEF InOrder
  <1> HIDE DEF p
  <1>6. QED
    <2>1. c[p] \in ToSet(c)
      BY <1>3, InToSet
    <2>2. \A y \in ToSet(c) : \E i \in 1 .. n : y = c[i]
      BY <1>3, InToSet
    <2>3. QED
      BY <1>4, <1>5, <2>1, <2>2

-----------------------------------------------------------------------------
(* What is left to do *)

\* The first operation is replaced by those it consists of.
LEMMA PlanContinues ==
    ASSUME NEW plan, IsPlan(plan), plan # <<>>, NEW r, IsPlan(r)
    PROVE  LET next == r \o Tail(plan)
           IN /\ IsPlan(next) /\ Len(next) = Len(r) + Len(plan) - 1
              /\ \A i \in 1 .. Len(r) : next[i] = r[i]
              /\ \A i \in 2 .. Len(plan) : next[Len(r) + i - 1] = plan[i]
              /\ Len(r) \in Nat /\ Len(plan) \in Nat \ {0} /\ (next = <<>> <=> r = <<>> /\ Len(plan) = 1)
              /\ (r = <<>> <=> Len(r) = 0)
              /\ DOMAIN next = 1 .. Len(next) /\ DOMAIN plan = 1 .. Len(plan) /\ DOMAIN r = 1 .. Len(r)
  <1>1. PICK A : plan \in Seq(A)
    BY DEF IsPlan
  <1>2. PICK B : r \in Seq(B)
    BY DEF IsPlan
  <1> DEFINE S == A \cup B
             tail == Tail(plan)
             next == r \o tail
  <1>3. plan \in Seq(S) /\ r \in Seq(S)
    BY <1>1, <1>2, SeqMonotonic
  <1> HIDE DEF S
  <1>4. /\ Len(r) \in Nat /\ Len(plan) \in Nat \ {0} /\ (r = <<>> <=> Len(r) = 0)
        /\ DOMAIN plan = 1 .. Len(plan) /\ DOMAIN r = 1 .. Len(r)
    BY <1>3
  <1>5. tail \in Seq(S) /\ Len(tail) = Len(plan) - 1 /\ \A i \in 1 .. Len(tail) : tail[i] = plan[i + 1]
    BY <1>3, <1>4, HeadTailProperties
  <1> HIDE DEF tail
  <1>6. /\ next \in Seq(S) /\ Len(next) = Len(r) + Len(tail)
        /\ \A i \in 1 .. (Len(r) + Len(tail)) : next[i] = IF i <= Len(r) THEN r[i] ELSE tail[i - Len(r)]
    BY <1>3, <1>5, ConcatProperties
  <1> HIDE DEF next
  <1>7. ASSUME NEW i \in 2 .. Len(plan)
        PROVE  next[Len(r) + i - 1] = plan[i]
    <2>1. Len(r) + i - 1 \in 1 .. (Len(r) + Len(tail)) /\ ~(Len(r) + i - 1 <= Len(r))
      BY <1>4, <1>5
    <2>2. next[Len(r) + i - 1] = tail[(Len(r) + i - 1) - Len(r)]
      BY <1>6, <2>1
    <2>3. (Len(r) + i - 1) - Len(r) = i - 1 /\ i - 1 \in 1 .. Len(tail) /\ (i - 1) + 1 = i
      BY <1>4, <1>5
    <2>4. QED
      BY <1>5, <2>2, <2>3
  <1>8. \A i \in 1 .. Len(r) : next[i] = r[i]
    BY <1>4, <1>5, <1>6, SMTT(40)
  <1>9. IsPlan(next) /\ DOMAIN next = 1 .. Len(next) /\ (next = <<>> <=> Len(next) = 0)
    BY <1>6 DEF IsPlan
  <1>10. QED
    BY <1>4, <1>5, <1>6, <1>7, <1>8, <1>9, SMTT(40) DEF next, tail

\* Plans of a few operations.
LEMMA OneLeft ==
    ASSUME NEW x
    PROVE  IsPlan(<<x>>) /\ Len(<<x>>) = 1 /\ <<x>>[1] = x /\ ToSet(<<x>>) = {x}
  <1>1. <<x>> \in Seq({x}) /\ Len(<<x>>) = 1 /\ <<x>>[1] = x /\ DOMAIN <<x>> = 1 .. 1
    OBVIOUS
  <1>2. \A y : y \in ToSet(<<x>>) <=> \E i \in 1 .. 1 : y = <<x>>[i]
    BY <1>1, InToSet
  <1>3. \A y : y \in ToSet(<<x>>) <=> y = x
    BY <1>1, <1>2
  <1>4. QED
    BY <1>1, <1>3 DEF IsPlan

LEMMA TwoLeft ==
    ASSUME NEW x, NEW y
    PROVE  /\ IsPlan(<<x, y>>) /\ Len(<<x, y>>) = 2 /\ <<x, y>>[1] = x /\ <<x, y>>[2] = y
           /\ ToSet(<<x, y>>) = {x, y}
  <1>1. /\ <<x, y>> \in Seq({x, y}) /\ Len(<<x, y>>) = 2 /\ <<x, y>>[1] = x /\ <<x, y>>[2] = y
        /\ DOMAIN <<x, y>> = 1 .. 2
    OBVIOUS
  <1>2. \A z : z \in ToSet(<<x, y>>) <=> \E i \in 1 .. 2 : z = <<x, y>>[i]
    BY <1>1, InToSet
  <1>3. \A i \in 1 .. 2 : i = 1 \/ i = 2
    OBVIOUS
  <1>4. \A z : z \in ToSet(<<x, y>>) <=> z = x \/ z = y
    BY <1>1, <1>2, <1>3
  <1>5. QED
    BY <1>1, <1>4 DEF IsPlan

LEMMA ThreeLeft ==
    ASSUME NEW x, NEW y, NEW z
    PROVE  /\ IsPlan(<<x, y, z>>) /\ Len(<<x, y, z>>) = 3
           /\ <<x, y, z>>[1] = x /\ <<x, y, z>>[2] = y /\ <<x, y, z>>[3] = z
           /\ ToSet(<<x, y, z>>) = {x, y, z}
  <1>1. /\ <<x, y, z>> \in Seq({x, y, z}) /\ Len(<<x, y, z>>) = 3
        /\ <<x, y, z>>[1] = x /\ <<x, y, z>>[2] = y /\ <<x, y, z>>[3] = z
        /\ DOMAIN <<x, y, z>> = 1 .. 3
    OBVIOUS
  <1>2. \A a : a \in ToSet(<<x, y, z>>) <=> \E i \in 1 .. 3 : a = <<x, y, z>>[i]
    BY <1>1, InToSet
  <1>3. \A i \in 1 .. 3 : i = 1 \/ i = 2 \/ i = 3
    OBVIOUS
  <1>4. \A a : a \in ToSet(<<x, y, z>>) <=> a = x \/ a = y \/ a = z
    BY <1>1, <1>2, <1>3
  <1>5. QED
    BY <1>1, <1>4 DEF IsPlan

\* What is left after the first operation.
Rest(plan) == {plan[i] : i \in 2 .. Len(plan)}

LEMMA PlanElements ==
    ASSUME NEW plan, IsPlan(plan), plan # <<>>
    PROVE  ToSet(plan) = {plan[1]} \cup Rest(plan) /\ plan[1] = Head(plan) /\ Len(plan) \in Nat \ {0}
  <1>1. PICK A : plan \in Seq(A)
    BY DEF IsPlan
  <1>2. Len(plan) \in Nat \ {0} /\ DOMAIN plan = 1 .. Len(plan)
    BY <1>1
  <1>3. plan[1] = Head(plan)
    BY <1>1
  <1>4. \A x : x \in Rest(plan) <=> \E i \in 2 .. Len(plan) : x = plan[i]
    BY DEF Rest
  <1>5. \A x : x \in ToSet(plan) <=> \E i \in 1 .. Len(plan) : x = plan[i]
    BY <1>2, InToSet
  <1>6. \A i \in 1 .. Len(plan) : i = 1 \/ i \in 2 .. Len(plan)
    BY <1>2
  <1>7. \A i \in 2 .. Len(plan) : i \in 1 .. Len(plan)
    BY <1>2
  <1>8. 1 \in 1 .. Len(plan)
    BY <1>2
  <1>9. QED
    BY <1>2, <1>3, <1>4, <1>5, <1>6, <1>7, <1>8

LEMMA ElementsContinue ==
    ASSUME NEW plan, IsPlan(plan), plan # <<>>, NEW r, IsPlan(r)
    PROVE  ToSet(r \o Tail(plan)) = ToSet(r) \cup Rest(plan)
  <1> DEFINE next == r \o Tail(plan)
  <1>1. /\ Len(next) = Len(r) + Len(plan) - 1
        /\ \A i \in 1 .. Len(r) : next[i] = r[i]
        /\ \A i \in 2 .. Len(plan) : next[Len(r) + i - 1] = plan[i]
        /\ Len(r) \in Nat /\ Len(plan) \in Nat \ {0}
        /\ DOMAIN next = 1 .. Len(next) /\ DOMAIN r = 1 .. Len(r)
    BY PlanContinues
  <1> HIDE DEF next
  <1>2. ASSUME NEW x \in ToSet(next)
        PROVE  x \in ToSet(r) \cup Rest(plan)
    <2>0. \E i \in DOMAIN next : x = next[i]
      BY InToSet
    <2>1. PICK i \in 1 .. Len(next) : x = next[i]
      BY <1>1, <2>0
    <2>2. CASE i <= Len(r)
      BY <1>1, <2>1, <2>2, InToSet
    <2>3. CASE i > Len(r)
      <3>1. i - Len(r) + 1 \in 2 .. Len(plan) /\ Len(r) + (i - Len(r) + 1) - 1 = i
        BY <1>1, <2>3
      <3>2. x = plan[i - Len(r) + 1]
        BY <1>1, <2>1, <3>1
      <3>3. QED
        BY <3>1, <3>2 DEF Rest
    <2>4. QED
      BY <1>1, <2>2, <2>3
  <1>3. \A i \in 1 .. Len(r) : i \in 1 .. Len(next)
    BY <1>1
  <1>4. \A x \in ToSet(r) : x \in ToSet(next)
    BY <1>1, <1>3, InToSet
  <1>5. \A i \in 2 .. Len(plan) : Len(r) + i - 1 \in 1 .. Len(next)
    BY <1>1
  <1>6. \A x \in Rest(plan) : x \in ToSet(next)
    BY <1>1, <1>5, InToSet DEF Rest
  <1>7. QED
    BY <1>2, <1>4, <1>6 DEF next

\* The first operation has been replaced by r, which fits what is left.
Continues(s, t, r, key) ==
    /\ IsPlan(r) /\ t.todo = r \o Tail(s.todo) /\ t.job = s.job
    /\ \A op \in Rest(s.todo) : Removes(op, Broadcasts) => t.asked = {}
    /\ \A op \in ToSet(r) : OpFits(t, op, key)
    /\ \A i \in 1 .. Len(r) : i < Len(r) => Follows(r[i], r[i + 1])
    /\ r # <<>> /\ Len(s.todo) > 1 => Follows(r[Len(r)], s.todo[2])
    /\ r # <<>> /\ Len(s.todo) = 1 =>
           r[Len(r)].do \notin Calls /\ (s.job = "start" => r[Len(r)].do \in {"start", "run"})
    /\ r # <<>> => HeadFits(t, r[1], key)
    /\ r = <<>> /\ Len(s.todo) > 1 => HeadFits(t, s.todo[2], key)

LEMMA TodoContinues ==
    ASSUME NEW s, NEW t, NEW key, NEW r, TodoFits(s, key), Works(s), Continues(s, t, r, key)
    PROVE  /\ TodoFits(t, key) /\ (Works(t) <=> r # <<>> \/ Len(s.todo) > 1)
           /\ ToSet(t.todo) = ToSet(r) \cup Rest(s.todo)
           /\ (r # <<>> => t.todo[1] = r[1])
           /\ (r = <<>> /\ Len(s.todo) > 1 => t.todo[1] = s.todo[2])
  <1> DEFINE plan == s.todo
             next == t.todo
             n == Len(plan)
             m == Len(r)
  <1>0. /\ IsPlan(r) /\ next = r \o Tail(plan) /\ t.job = s.job
        /\ \A op \in Rest(plan) : Removes(op, Broadcasts) => t.asked = {}
        /\ \A op \in ToSet(r) : OpFits(t, op, key)
        /\ \A i \in 1 .. m : i < m => Follows(r[i], r[i + 1])
        /\ r # <<>> /\ n > 1 => Follows(r[m], plan[2])
        /\ r # <<>> /\ n = 1 => r[m].do \notin Calls /\ (s.job = "start" => r[m].do \in {"start", "run"})
        /\ r # <<>> => HeadFits(t, r[1], key)
        /\ r = <<>> /\ n > 1 => HeadFits(t, plan[2], key)
    BY DEF Continues
  <1>1. IsPlan(plan) /\ plan # <<>>
    BY DEF TodoFits, Works
  <1>2. /\ IsPlan(next) /\ Len(next) = m + n - 1
        /\ \A i \in 1 .. m : next[i] = r[i]
        /\ \A i \in 2 .. n : next[m + i - 1] = plan[i]
        /\ m \in Nat /\ n \in Nat \ {0} /\ (next = <<>> <=> r = <<>> /\ n = 1)
        /\ (r = <<>> <=> m = 0)
    BY <1>0, <1>1, PlanContinues
  <1>3. ToSet(next) = ToSet(r) \cup Rest(plan) /\ ToSet(plan) = {plan[1]} \cup Rest(plan)
    BY <1>0, <1>1, ElementsContinue, PlanElements
  <1>4. /\ \A op \in ToSet(plan) : OpFits(s, op, key)
        /\ \A i \in 1 .. n : i < n => Follows(plan[i], plan[i + 1])
        /\ plan[n].do \notin Calls /\ (s.job = "start" => plan[n].do \in {"start", "run"})
    BY DEF TodoFits
  <1>5. /\ Works(t) <=> r # <<>> \/ n > 1
        /\ r # <<>> => next[1] = r[1]
        /\ r = <<>> /\ n > 1 => next[1] = plan[2]
    <2>1. r # <<>> => 1 \in 1 .. m
      BY <1>2
    <2>2. r = <<>> /\ n > 1 => 2 \in 2 .. n /\ m + 2 - 1 = 1
      BY <1>2
    <2>3. Works(t) <=> r # <<>> \/ n > 1
      BY <1>2 DEF Works
    <2> HIDE DEF n, m, next, plan
    <2>4. QED
      BY <1>2, <2>1, <2>2, <2>3
  <1>6. \A op \in ToSet(next) : OpFits(t, op, key)
    BY <1>0, <1>3, <1>4 DEF OpFits
  <1>7. ASSUME NEW i \in 1 .. Len(next), i < Len(next)
        PROVE  Follows(next[i], next[i + 1])
    <2> HIDE DEF next, n, m, plan
    <2>1. CASE i < m
      <3>1. i \in 1 .. m /\ i + 1 \in 1 .. m
        BY <1>2, <1>7, <2>1
      <3>2. QED
        BY <1>0, <1>2, <2>1, <3>1
    <2>2. CASE i = m
      <3>1. m \in 1 .. m /\ 2 \in 2 .. n /\ m + 2 - 1 = i + 1 /\ n > 1 /\ r # <<>>
        BY <1>2, <1>7, <2>2
      <3>2. next[m] = r[m] /\ next[i + 1] = plan[2]
        BY <1>2, <3>1
      <3>3. QED
        BY <1>0, <2>2, <3>1, <3>2
    <2>3. CASE i > m
      <3>1. i - m + 1 \in 2 .. n /\ i - m + 2 \in 2 .. n /\ i - m + 1 \in 1 .. n /\ i - m + 1 < n
        BY <1>2, <1>7, <2>3
      <3>2. next[m + (i - m + 1) - 1] = plan[i - m + 1] /\ next[m + (i - m + 2) - 1] = plan[i - m + 2]
        BY <1>2, <3>1
      <3>3. m + (i - m + 1) - 1 = i /\ m + (i - m + 2) - 1 = i + 1 /\ (i - m + 1) + 1 = i - m + 2
        BY <1>2
      <3>4. Follows(plan[i - m + 1], plan[(i - m + 1) + 1])
        BY <1>4, <3>1
      <3>5. QED
        BY <3>2, <3>3, <3>4
    <2>4. QED
      BY <1>2, <2>1, <2>2, <2>3
  <1>8. ASSUME Works(t)
        PROVE  /\ next[Len(next)].do \notin Calls
               /\ t.job = "start" => next[Len(next)].do \in {"start", "run"}
    <2>1. CASE n = 1
      <3>1. r # <<>> /\ Len(next) = m /\ m \in 1 .. m
        BY <1>2, <1>5, <1>8, <2>1
      <3>2. next[m] = r[m]
        BY <1>2, <3>1
      <3>3. QED
        BY <1>0, <2>1, <3>1, <3>2
    <2>2. CASE n > 1
      <3> HIDE DEF next, n, m, plan
      <3>1. n \in 2 .. n /\ Len(next) = m + n - 1
        BY <1>2, <2>2
      <3>2. next[m + n - 1] = plan[n]
        BY <1>2, <3>1
      <3>3. QED
        BY <1>0, <1>4, <3>1, <3>2
    <2>3. n = 1 \/ n > 1
      <3> HIDE DEF n
      <3>1. QED
        BY <1>2
    <2>4. QED
      BY <2>1, <2>2, <2>3
  <1>9. Works(t) => HeadFits(t, next[1], key)
    <2>1. r # <<>> => HeadFits(t, next[1], key)
      BY <1>0, <1>5
    <2>2. r = <<>> /\ n > 1 => HeadFits(t, next[1], key)
      BY <1>0, <1>5
    <2>3. QED
      BY <1>5, <2>1, <2>2
  <1>10. TodoFits(t, key)
    BY <1>2, <1>6, <1>7, <1>8, <1>9 DEF TodoFits
  <1>11. QED
    BY <1>3, <1>5, <1>10

\* What the next operation may be.
LEMMA NextFits ==
    ASSUME NEW s, NEW key, TodoFits(s, key), Works(s)
    PROVE  /\ s.todo[1] = Head(s.todo) /\ OpFits(s, s.todo[1], key) /\ HeadFits(s, s.todo[1], key)
           /\ ToSet(s.todo) = {s.todo[1]} \cup Rest(s.todo) /\ Len(s.todo) \in Nat \ {0}
           /\ \A op \in Rest(s.todo) : /\ OpFits(s, op, key)
                                       /\ op.do \notin {"set", "open", "unlink"} \cup Jobs \cup {"start", "load LTSK"}
           /\ Len(s.todo) > 1 => Follows(s.todo[1], s.todo[2]) /\ s.todo[2] \in Rest(s.todo)
           /\ s.todo[1].do \in Calls => Len(s.todo) > 1
           /\ s.todo[1].do \in Jobs \cup {"start", "run"} => Len(s.todo) = 1 /\ Rest(s.todo) = {}
           /\ Len(s.todo) = 1 /\ s.job = "start" => s.todo[1].do \in {"start", "run"}
  <1> DEFINE plan == s.todo
             n == Len(plan)
  <1>1. IsPlan(plan) /\ plan # <<>>
    BY DEF TodoFits, Works
  <1>2. ToSet(plan) = {plan[1]} \cup Rest(plan) /\ plan[1] = Head(plan) /\ n \in Nat \ {0}
    BY <1>1, PlanElements
  <1>3. /\ \A op \in ToSet(plan) : OpFits(s, op, key)
        /\ \A i \in 1 .. n : i < n => Follows(plan[i], plan[i + 1])
        /\ plan[n].do \notin Calls /\ (s.job = "start" => plan[n].do \in {"start", "run"})
        /\ HeadFits(s, plan[1], key)
    BY DEF TodoFits
  <1>4. ASSUME NEW op \in Rest(plan)
        PROVE  op.do \notin {"set", "open", "unlink"} \cup Jobs \cup {"start", "load LTSK"}
    <2>1. PICK i \in 2 .. n : op = plan[i]
      BY DEF Rest
    <2>2. i - 1 \in 1 .. n /\ i - 1 < n /\ (i - 1) + 1 = i
      BY <1>2
    <2> HIDE DEF n, plan
    <2>3. Follows(plan[i - 1], plan[i])
      BY <1>3, <2>2
    <2>4. QED
      BY <2>1, <2>3 DEF Follows
  <1> HIDE DEF n
  <1>5. n > 1 => Follows(plan[1], plan[2]) /\ plan[2] \in Rest(plan)
    <2>1. ASSUME n > 1 PROVE Follows(plan[1], plan[1 + 1]) /\ 2 \in 2 .. n
      BY <1>2, <1>3, <2>1
    <2>2. QED
      BY <2>1 DEF Rest, n
  <1>6. plan[1].do \in Calls => n > 1
    BY <1>2, <1>3
  <1>7. plan[1].do \in Jobs \cup {"start", "run"} => n = 1
    <2>1. n > 1 => plan[1].do \notin Jobs \cup {"start", "run"}
      <3> HIDE DEF plan
      <3>1. QED
        BY <1>5, Zenon DEF Follows
    <2>2. n = 1 \/ n > 1
      BY <1>2
    <2>3. QED
      BY <2>1, <2>2
  <1>8. n = 1 => Rest(plan) = {}
    BY DEF Rest, n
  <1>9. QED
    BY <1>2, <1>3, <1>4, <1>5, <1>6, <1>7, <1>8 DEF n

-----------------------------------------------------------------------------
(* The present content *)

LEMMA CurrentFits ==
    ASSUME NEW d
    PROVE  /\ \A n \in Values : /\ Current(d)[n] = Now(d, n) /\ (Current(d)[n].found <=> Exists(d, n))
                                /\ Exists(d, n) => Current(d)[n].value = File(d, n).value
           /\ ConfigurationOf(Current(d)) = IF Exists(d, Broadcasts) THEN File(d, Broadcasts).value ELSE <<>>
           /\ Current(d) \in Views(d) /\ DOMAIN Current(d) = Values
  <1>1. ASSUME NEW n \in Values
        PROVE  /\ Current(d)[n] = Now(d, n) /\ (Current(d)[n].found <=> Exists(d, n))
               /\ Exists(d, n) => Current(d)[n].value = File(d, n).value
    <2> DEFINE i == d.directory[n]
    <2>1. Current(d)[n] = IF i = NoInode THEN [found |-> FALSE] ELSE [found |-> TRUE, value |-> d.inodes[i].value]
      BY DEF Current, View, Content
    <2>2. ~[found |-> FALSE].found
      OBVIOUS
    <2>3. [found |-> TRUE, value |-> d.inodes[i].value].found
      OBVIOUS
    <2>4. Current(d)[n].found <=> Exists(d, n)
      BY <2>1, <2>2, <2>3 DEF Exists
    <2>5. Exists(d, n) => Current(d)[n].value = File(d, n).value
      BY <2>1 DEF Exists, File
    <2>6. Current(d)[n] = Now(d, n)
      BY DEF Current, View, Now
    <2>7. QED
      BY <2>4, <2>5, <2>6
  <1>2. ConfigurationOf(Current(d)) = IF Exists(d, Broadcasts) THEN File(d, Broadcasts).value ELSE <<>>
    BY <1>1, KeysFit DEF ConfigurationOf
  <1>3. Current(d) \in Views(d) /\ DOMAIN Current(d) = Values
    BY DEF Current, Views, View, Directories
  <1>4. QED
    BY <1>1, <1>2, <1>3

-----------------------------------------------------------------------------
(* A job ends, of itself, with an error, or by a crash *)

LEMMA NobodyRuns ==
    /\ DOMAIN NoServer = {"running", "ltsk"} /\ NoServer.running \in BOOLEAN
    /\ ~NoServer.running /\ NoServer.ltsk = 0
  <1>1. DOMAIN NoServer = {"running", "ltsk"} /\ NoServer.ltsk = 0
    BY DEF NoServer
  <1>2. NoServer.running \in BOOLEAN
    BY DEF NoServer
  <1>3. ~NoServer.running
    BY DEF NoServer
  <1>4. QED
    BY <1>1, <1>2, <1>3

LEMMA NothingLeft ==
    IsPlan(<<>>) /\ ToSet(<<>>) = {} /\ Len(<<>>) = 0
  BY DEF IsPlan, ToSet

\* A job ends: early, or with the process or the power.
LEMMA EndFits ==
    ASSUME StorageConstants, NEW s, NEW t, NEW key \in Nat \ {0}, StateFits(s, key),
           DOMAIN t = DOMAIN s, t.made = s.made, t.script = s.script, t.todo = <<>>,
           DiskFits(t.disk), DOMAIN t.promised = Values,
           t.asked = ToSet(ConfigurationOf(Current(t.disk))),
           \/ t.server = NoServer
           \/ t.server = s.server /\ s.server.running /\ Current(t.disk) = Current(s.disk),
           t.excused \/ (SyncsWell(t.disk) /\ ~t.refused
                           /\ (t.privileged \/ \A n \in Values : ~Exists(t.disk, Temporary(n)))),
           \A v \in Views(t.disk) : /\ ViewFits(v) /\ (Importing(s) => IsImported(v, key))
                                    /\ \A n \in Values : v[n] \in t.promised[n]
    PROVE  StateFits(t, key)
  <1>1. ~Works(t) /\ (Importing(t) => Importing(s)) /\ ToSet(t.todo) = {}
    BY NothingLeft DEF Works, Importing
  <1>2. TodoFits(t, key)
    BY <1>1, NothingLeft DEF TodoFits
  <1>3. ServerFits(t)
    <2>1. CASE t.server = NoServer
      BY <1>1, <2>1, NobodyRuns DEF ServerFits, Has
    <2>2. CASE t.server = s.server /\ s.server.running /\ Current(t.disk) = Current(s.disk)
      <3>1. ServerFits(s)
        BY DEF StateFits
      <3>2. ~(s.job = "start" /\ Writes(s, LTSK)) /\ s.server.ltsk # 0
        BY <2>2, <3>1 DEF ServerFits, Writes
      <3>3. QED
        BY <1>1, <2>2, <3>1, <3>2 DEF ServerFits, Has
    <2>3. QED
      BY <2>1, <2>2
  <1>4. AskedFits(t) /\ ExcusesFit(t)
    BY DEF AskedFits, ExcusesFit
  <1>5. ContentsFit(t, key)
    BY <1>1 DEF ContentsFit
  <1>6. QED
    BY <1>1, <1>2, <1>3, <1>4, <1>5 DEF StateFits

Fields == {"disk", "server", "todo", "job", "made", "script", "privileged", "losses",
           "failures", "excused", "refused", "asked", "promised"}

LEMMA EndedFields ==
    ASSUME NEW d, DOMAIN storage = Fields
    PROVE  LET t == Ended(d)
           IN /\ DOMAIN t = Fields /\ t.disk = d /\ t.todo = <<>> /\ t.asked = ToSet(ConfigurationOf(Current(d)))
              /\ t.server = storage.server /\ t.job = storage.job /\ t.made = storage.made
              /\ t.script = storage.script /\ t.privileged = storage.privileged
              /\ t.excused = storage.excused /\ t.refused = storage.refused /\ t.promised = storage.promised
  <1> DEFINE asked == IF Exists(d, Broadcasts) THEN ToSet(File(d, Broadcasts).value) ELSE {}
             t == [storage EXCEPT !.disk = d, !.todo = <<>>, !.asked = asked]
  <1>1. asked = ToSet(ConfigurationOf(Current(d)))
    BY CurrentFits, NothingLeft
  <1>2. Ended(d) = t
    BY DEF Ended
  <1> HIDE DEF asked
  <1>3. QED
    BY <1>1, <1>2 DEF Fields

\* The job ends with an error, which is made up for or was the system's.
FailsWith(t, d, excused) ==
    \/ t = Fails(d) /\ excused = storage.excused
    \/ excused = TRUE /\ \E failures : t = [Fails(d) EXCEPT !.failures = failures, !.excused = excused]

\* A start only ends so when something has been excused.
LEMMA FailsFits ==
    ASSUME StorageConstants, NEW key \in Nat \ {0}, StateFits(storage, key), NEW d, SameContents(d, disk),
           NEW excused, NEW t, FailsWith(t, d, excused),
           excused = TRUE \/ storage.excused
             \/ (SyncsWell(d) /\ storage.job # "start"
                   /\ (storage.privileged \/ \A n \in Values : ~Exists(d, Temporary(n))))
    PROVE  StateFits(t, key)
  <1> DEFINE f == Fails(d)
  <1>1. DOMAIN storage = Fields
    BY DEF StateFits, Fields
  <1>2. /\ DOMAIN f = Fields /\ f.disk = d /\ f.todo = <<>> /\ f.asked = ToSet(ConfigurationOf(Current(d)))
        /\ f.server = IF storage.server.running THEN storage.server ELSE NoServer
        /\ f.made = storage.made /\ f.script = storage.script /\ f.privileged = storage.privileged
        /\ f.promised = storage.promised /\ f.excused = storage.excused
    BY <1>1, EndedFields DEF Fails, Fields
  <1>3. f.refused <=> storage.refused \/ storage.job = "start"
    BY <1>1, EndedFields DEF Fails, Fields
  <1>4. \/ t = f /\ excused = storage.excused
        \/ excused = TRUE /\ \E failures : t = [f EXCEPT !.failures = failures, !.excused = excused]
    BY DEF FailsWith
  <1> HIDE DEF f
  <1>5. /\ DOMAIN t = Fields /\ t.disk = d /\ t.todo = <<>> /\ t.asked = ToSet(ConfigurationOf(Current(d)))
        /\ t.server = IF storage.server.running THEN storage.server ELSE NoServer
        /\ t.made = storage.made /\ t.script = storage.script /\ t.privileged = storage.privileged
        /\ t.promised = storage.promised /\ t.excused = excused /\ t.refused = f.refused
    BY <1>2, <1>4 DEF Fields
  <1>6. \/ t.server = NoServer
        \/ t.server = storage.server /\ storage.server.running /\ Current(t.disk) = Current(storage.disk)
    BY <1>5 DEF SameContents, disk
  <1>7. t.excused \/ (SyncsWell(t.disk) /\ ~t.refused
                        /\ (t.privileged \/ \A n \in Values : ~Exists(t.disk, Temporary(n))))
    <2>1. ExcusesFit(storage)
      BY DEF StateFits
    <2>2. CASE excused = TRUE
      BY <1>5, <2>2
    <2>3. CASE excused = storage.excused /\ storage.excused
      BY <1>5, <2>3
    <2>4. CASE excused = storage.excused /\ ~storage.excused
      <3>1. ~storage.refused
        BY <2>1, <2>4 DEF ExcusesFit
      <3>2. CASE excused = TRUE
        BY <1>5, <3>2
      <3>3. CASE excused # TRUE
        BY <1>3, <1>5, <2>4, <3>1, <3>3
      <3>4. QED
        BY <3>2, <3>3
    <2>5. excused = storage.excused \/ excused = TRUE
      BY DEF FailsWith
    <2>6. QED
      BY <2>2, <2>3, <2>4, <2>5
  <1>8. \A v \in Views(t.disk) : /\ ViewFits(v) /\ (Importing(storage) => IsImported(v, key))
                                 /\ \A n \in Values : v[n] \in t.promised[n]
    <2>1. ContentsFit(storage, key)
      BY DEF StateFits
    <2>2. Views(t.disk) = Views(storage.disk)
      BY <1>5 DEF SameContents, disk
    <2>3. QED
      BY <1>5, <2>1, <2>2 DEF ContentsFit
  <1>9. DOMAIN t.promised = Values /\ DiskFits(t.disk)
    BY <1>5 DEF StateFits, SameContents
  <1>10. QED
    BY <1>1, <1>5, <1>6, <1>7, <1>8, <1>9, EndFits

\* The process is killed, or power is lost, and something of the disk is left.
LEMMA DiedFits ==
    ASSUME StorageConstants, NEW key \in Nat \ {0}, StateFits(storage, key), NEW d, DiskFits(d),
           SyncsWell(disk) => SyncsWell(d), NEW promised, DOMAIN promised = Values, NEW t,
           \/ t = Died(d) /\ promised = storage.promised
           \/ t = [Died(d) EXCEPT !.promised = promised],
           \A v \in Views(d) : /\ ViewFits(v) /\ (Importing(storage) => IsImported(v, key))
                               /\ \A n \in Values : v[n] \in promised[n]
    PROVE  StateFits(t, key)
  <1> DEFINE f == Died(d)
  <1>1. DOMAIN storage = Fields
    BY DEF StateFits, Fields
  <1>2. /\ DOMAIN f = Fields /\ f.disk = d /\ f.todo = <<>> /\ f.asked = ToSet(ConfigurationOf(Current(d)))
        /\ f.server = NoServer /\ f.made = storage.made /\ f.script = storage.script
        /\ f.privileged = storage.privileged /\ f.refused = storage.refused
        /\ f.promised = storage.promised
    BY <1>1, EndedFields DEF Died, Fields
  <1>3. f.excused <=> storage.excused \/ ~storage.privileged
    BY <1>1, EndedFields DEF Died, Fields
  <1>4. (t = f /\ promised = storage.promised) \/ t = [f EXCEPT !.promised = promised]
    OBVIOUS
  <1> HIDE DEF f
  <1>5. /\ DOMAIN t = Fields /\ t.disk = d /\ t.todo = <<>> /\ t.asked = ToSet(ConfigurationOf(Current(d)))
        /\ t.server = NoServer /\ t.made = storage.made /\ t.script = storage.script
        /\ t.privileged = storage.privileged /\ t.refused = storage.refused
        /\ t.promised = promised /\ t.excused = f.excused
    BY <1>2, <1>4 DEF Fields
  <1>6. t.excused \/ (SyncsWell(t.disk) /\ ~t.refused
                        /\ (t.privileged \/ \A n \in Values : ~Exists(t.disk, Temporary(n))))
    <2>1. ExcusesFit(storage)
      BY DEF StateFits
    <2>2. QED
      BY <1>3, <1>5, <2>1 DEF ExcusesFit, disk
  <1>7. QED
    BY <1>1, <1>5, <1>6, EndFits

LEMMA KilledFits ==
    ASSUME StorageConstants, NEW key \in Nat \ {0}, StateFits(storage, key), Killed
    PROVE  StateFits(storage', key)
  <1>1. storage' = Died(disk)
    BY DEF Killed
  <1>2. DiskFits(disk) /\ ContentsFit(storage, key) /\ DOMAIN storage.promised = Values
    BY DEF StateFits, disk
  <1>3. QED
    BY <1>1, <1>2, DiedFits DEF ContentsFit, disk

LEMMA PowerLostFits ==
    ASSUME StorageConstants, NEW key \in Nat \ {0}, StateFits(storage, key), PowerLost
    PROVE  StateFits(storage', key)
  <1>1. PICK d \in Survivors(disk) : storage' = [Died(d) EXCEPT !.promised = [n \in Values |-> {Now(d, n)}]]
    BY DEF PowerLost
  <1>2. DiskFits(disk) /\ ContentsFit(storage, key)
    BY DEF StateFits, disk
  <1> DEFINE none == [n \in Values |-> [found |-> FALSE]]
             promised == [n \in Values |-> {Now(d, n)}]
  <1>3. /\ DiskFits(d) /\ Views(d) = {Current(d)} /\ (SyncsWell(disk) => SyncsWell(d))
        /\ Current(d) \in Views(disk) \cup {none}
    BY <1>2, Survived
  <1>4. ViewFits(Current(d)) /\ (Importing(storage) => IsImported(Current(d), key))
    <2>1. CASE Current(d) \in Views(disk)
      BY <1>2, <2>1 DEF ContentsFit, disk
    <2>2. CASE Current(d) = none
      <3>1. \A n \in Values : ~none[n].found
        OBVIOUS
      <3>2. QED
        BY <2>2, <3>1, KeysFit DEF ViewFits, IsImported
    <2>3. QED
      BY <1>3, <2>1, <2>2
  <1>5. \A n \in Values : Current(d)[n] \in promised[n]
    BY CurrentFits
  <1> HIDE DEF promised
  <1>6. StateFits([Died(d) EXCEPT !.promised = promised], key)
    <2>1. DOMAIN promised = Values
      BY DEF promised
    <2>2. QED
      BY <1>3, <1>4, <1>5, <2>1, DiedFits
  <1>7. QED
    BY <1>1, <1>6 DEF promised

-----------------------------------------------------------------------------
(* A job begins *)

\* A job by itself fits.
LEMMA BeginFits ==
    ASSUME StorageConstants, NEW key \in Nat \ {0}, StateFits(storage, key), Begin
    PROVE  StateFits(storage', key)
  <1> DEFINE s == storage
             script == s.script
             next == Head(script)
             job == IF next.do \in OfServer /\ ~s.server.running THEN Do("start") ELSE next
             t == storage'
  <1>1. /\ s.todo = <<>> /\ script # <<>>
        /\ next.do \in OfServer \/ ~s.server.running
        /\ t = [s EXCEPT !.todo = <<job>>, !.job = job.do, !.script = IF job = next THEN Tail(script) ELSE script]
    BY DEF Begin
  <1>2. /\ DOMAIN s = Fields /\ IsScript(script, key) /\ DiskFits(s.disk) /\ ServerFits(s) /\ AskedFits(s)
        /\ ExcusesFit(s) /\ ContentsFit(s, key) /\ s.made \in Nat /\ DOMAIN s.promised = Values
    BY DEF StateFits, Fields
  <1>3. Do("start").do = "start"
    BY DEF Do
  <1> HIDE DEF job
  <1>4. /\ DOMAIN t = Fields /\ t.todo = <<job>> /\ t.job = job.do /\ t.disk = s.disk /\ t.server = s.server
        /\ t.script = (IF job = next THEN Tail(script) ELSE script)
        /\ t.made = s.made /\ t.privileged = s.privileged /\ t.excused = s.excused /\ t.refused = s.refused
        /\ t.asked = s.asked /\ t.promised = s.promised
    BY <1>1, <1>2 DEF Fields
  <1> HIDE DEF s, t
  <1>5. PICK S : script \in Seq(S)
    BY <1>2 DEF IsScript, IsPlan
  <1>6. /\ next = script[1] /\ Len(script) \in Nat \ {0}
        /\ Tail(script) \in Seq(S) /\ Len(Tail(script)) = Len(script) - 1
        /\ \A i \in 1 .. Len(Tail(script)) : Tail(script)[i] = script[i + 1]
    BY <1>1, <1>5, HeadTailProperties
  <1>7. \A i \in 1 .. Len(t.script) : \E j \in 1 .. Len(script) : t.script[i] = script[j] /\ (job = next => 1 < j)
    <2>1. CASE job = next
      <3> DEFINE tail == Tail(script)
      <3>1. ASSUME NEW i \in 1 .. Len(tail) PROVE i + 1 \in 1 .. Len(script) /\ 1 < i + 1 /\ tail[i] = script[i + 1]
        BY <1>6
      <3> HIDE DEF tail
      <3>2. QED
        BY <1>4, <2>1, <3>1 DEF tail
    <2>2. CASE job # next
      BY <1>4, <2>2
    <2>3. QED
      BY <2>1, <2>2
  <1>8. IsScript(t.script, key)
    <2>1. CASE job = next
      <3> DEFINE tail == Tail(script)
      <3>1. /\ IsPlan(tail) /\ Len(tail) = Len(script) - 1 /\ Len(script) \in Nat \ {0}
            /\ \A i \in 1 .. Len(tail) : tail[i] = script[i + 1]
        BY <1>6 DEF IsPlan
      <3> HIDE DEF tail
      <3>2. \A i \in 1 .. Len(tail) : i + 1 \in 1 .. Len(script)
        BY <3>1
      <3>3. \A i \in 1 .. Len(tail) : IsJob(tail[i], key)
        BY <1>2, <3>1, <3>2 DEF IsScript
      <3>4. ASSUME NEW i \in 1 .. Len(tail), NEW j \in 1 .. Len(tail), i < j, tail[j].do \in Imports
            PROVE  tail[i].do \in Imports
        <4>1. i + 1 < j + 1 /\ script[j + 1].do \in Imports
          BY <3>1, <3>4
        <4>2. QED
          BY <1>2, <3>1, <3>2, <4>1 DEF IsScript
      <3>5. IsScript(tail, key)
        BY <3>1, <3>3, <3>4 DEF IsScript
      <3>6. QED
        BY <1>4, <2>1, <3>5 DEF tail
    <2>2. CASE job # next
      BY <1>2, <1>4, <2>2
    <2>3. QED
      BY <2>1, <2>2
  <1>9. /\ IsJob(next, key) /\ (job = next \/ (job.do = "start" /\ next.do \in OfServer /\ ~s.server.running))
        /\ IsJob(job, key) /\ (next.do \in OfServer /\ ~s.server.running => job.do = "start")
    <2>1. IsJob(next, key)
      BY <1>2, <1>6 DEF IsScript
    <2>2. job = next \/ (job.do = "start" /\ next.do \in OfServer /\ ~s.server.running)
      BY <1>3 DEF job
    <2>3. next.do \in OfServer /\ ~s.server.running => job.do = "start"
      BY <1>3 DEF job
    <2>4. QED
      BY <2>1, <2>2, <2>3 DEF IsJob
  <1>10. job.do \in Jobs \cup {"start"}
    BY <1>9 DEF IsJob, Jobs, Imports
  <1>11. TodoFits(t, key)
    <2>1. IsPlan(<<job>>) /\ ToSet(<<job>>) = {job} /\ Len(<<job>>) = 1 /\ <<job>>[1] = job
      BY OneLeft
    <2>2. OpFits(t, job, key)
      BY <1>4, <1>9, <1>10 DEF OpFits, Calls, Jobs, Imports, StartSteps, WillRemove, Removes
    <2>3. HeadFits(t, job, key) /\ job.do \notin Calls
      BY <1>10 DEF HeadFits, Writing, Jobs, Imports, Calls
    <2>4. QED
      BY <1>4, <2>1, <2>2, <2>3 DEF TodoFits
  <1>12. ToSet(t.todo) = {job} /\ Works(t) /\ t.todo[1] = job /\ ~Works(s)
    BY <1>1, <1>4, OneLeft DEF Works, s
  <1>13. ServerFits(t)
    <2>1. s.server.ltsk # 0 => s.server.running
      BY <1>2, <1>12 DEF ServerFits
    <2>2. (job.do \in OfServer <=> s.server.running) \/ job.do = "start"
      BY <1>1, <1>9 DEF s
    <2>3. job.do = "start" => ~s.server.running /\ s.server.ltsk = 0
      <3>1. job.do = "start" => ~s.server.running
        BY <1>1, <1>9 DEF s, OfServer
      <3>2. QED
        BY <2>1, <3>1
    <2>4. ~Writes(s, LTSK)
      BY <1>12 DEF Writes
    <2>5. ~Has(t, {"make LTSK"}) /\ (job.do = "start" => Has(t, {"start", "load LTSK", "make LTSK"}))
      BY <1>10, <1>12 DEF Has, Jobs, Imports
    <2>6. QED
      BY <1>2, <1>4, <1>12, <2>1, <2>2, <2>3, <2>4, <2>5 DEF ServerFits
  <1>14. AskedFits(t)
    <2>1. ToSet(s.todo) = {}
      BY <1>1, NothingLeft DEF s
    <2>2. QED
      BY <1>2, <1>4, <1>12, <2>1 DEF AskedFits, Writes
  <1>15. ExcusesFit(t)
    BY <1>2, <1>4, <1>12 DEF ExcusesFit
  <1>16. \A i \in 1 .. Len(t.script) : t.script[i].do \in Imports => next.do \in Imports
    <2>1. ASSUME NEW i \in 1 .. Len(t.script), t.script[i].do \in Imports
          PROVE  next.do \in Imports
      <3>1. PICK j \in 1 .. Len(script) : t.script[i] = script[j] /\ (job = next => 1 < j)
        BY <1>7
      <3>2. 1 \in 1 .. Len(script) /\ (j = 1 \/ 1 < j)
        BY <1>6
      <3>3. QED
        BY <1>2, <1>6, <2>1, <3>1, <3>2 DEF IsScript
    <2>2. QED
      BY <2>1
  <1>17. t.job \notin Imports => \A i \in 1 .. Len(t.script) : t.script[i].do \notin Imports
    BY <1>4, <1>9, <1>16 DEF OfServer, Imports
  <1>18. Importing(t) => Importing(s)
    <2>1. ASSUME Importing(t) PROVE next.do \in Imports
      BY <1>4, <1>9, <1>10, <1>16, <2>1 DEF Importing, Imports
    <2>2. 1 \in 1 .. Len(script)
      BY <1>6
    <2>3. QED
      BY <1>6, <2>1, <2>2 DEF Importing, s
  <1>19. ContentsFit(t, key)
    BY <1>2, <1>4, <1>18 DEF ContentsFit
  <1>20. StateFits(t, key)
    BY <1>2, <1>4, <1>8, <1>11, <1>13, <1>14, <1>15, <1>17, <1>19 DEF StateFits, Fields
  <1>21. QED
    BY <1>20 DEF t

-----------------------------------------------------------------------------
(* Calls to the system *)

\* A job goes on.
LEMMA ProceedFits ==
    ASSUME NEW s, NEW t, NEW key, StateFits(s, key), Works(s), DOMAIN t = DOMAIN s,
           t.script = s.script, t.job = s.job, t.made \in Nat, DOMAIN t.promised = Values,
           DiskFits(t.disk), TodoFits(t, key), ServerFits(t), AskedFits(t), ExcusesFit(t),
           \A v \in Views(t.disk) : /\ ViewFits(v) /\ (Importing(s) => IsImported(v, key))
                                    /\ \A n \in Values : v[n] \in t.promised[n]
    PROVE  StateFits(t, key)
  <1>1. Importing(t) => Importing(s)
    BY DEF Importing
  <1>2. ContentsFit(t, key)
    BY <1>1 DEF ContentsFit
  <1>3. Works(t) /\ t.job \notin Imports => \A i \in 1 .. Len(t.script) : t.script[i].do \notin Imports
    BY DEF StateFits
  <1>4. QED
    BY <1>2, <1>3 DEF StateFits

\* The calls in their order.
LEMMA CallsContinue ==
    ASSUME NEW op, NEW next, op.do \in Calls, Follows(op, next)
    PROVE  /\ next.name = op.name
           /\ op.do = "open" => next.do = "write"
           /\ op.do = "write" => next.do = "sync"
           /\ op.do = "sync" => next.do = "sync directory"
           /\ op.do = "sync directory" => next.do = "rename"
           /\ op.do = "rename" => next.do = "sync renamed"
           /\ op.do = "unlink" => next.do = "sync unlinked"
           /\ op.do \in {"sync renamed", "sync unlinked"} => next.do = "return"
  <1>1. /\ next.do \in Calls \cup {"return"} /\ op.do \in Before(next.do) /\ op.name = next.name
        /\ next.do \notin {"open", "unlink"}
    BY DEF Follows
  <1>2. next.do \in {"write", "sync", "sync directory", "rename", "sync renamed", "sync unlinked", "return"}
    BY <1>1 DEF Calls
  <1>3. QED
    BY <1>1, <1>2 DEF Before

\* The value may still be written when what is in the store has not changed.
LEMMA ValueKept ==
    ASSUME NEW s, NEW t, NEW name, NEW value, NEW key, ValueFits(s, name, value, key),
           t.job = s.job, t.server = s.server, t.asked = s.asked, Current(t.disk) = Current(s.disk)
    PROVE  ValueFits(t, name, value, key)
  BY DEF ValueFits

\* A call has been made, of which r is left: it has to go on, or the next is as it should be.
CallMade(s, t, r, key) ==
    /\ s.todo[1].do \in Calls
    /\ r = <<>> \/ (r = <<s.todo[1]>> /\ s.todo[1].do = "write")
    /\ t.todo = r \o Tail(s.todo)
    /\ r = <<>> => HeadFits(t, s.todo[2], key)
    /\ r # <<>> => HeadFits(t, s.todo[1], key)
    /\ DOMAIN t = DOMAIN s /\ t.script = s.script /\ t.job = s.job /\ t.made = s.made
    /\ t.server = s.server /\ t.asked = s.asked /\ t.privileged = s.privileged /\ t.refused = s.refused

LEMMA CallTodo ==
    ASSUME NEW s, NEW t, NEW key, TodoFits(s, key), Works(s), NEW r, CallMade(s, t, r, key)
    PROVE  /\ TodoFits(t, key) /\ Works(t)
           /\ ToSet(t.todo) = ToSet(r) \cup Rest(s.todo)
           /\ ToSet(r) \subseteq {s.todo[1]}
           /\ (r # <<>> => t.todo[1] = s.todo[1])
           /\ (r = <<>> => t.todo[1] = s.todo[2])
  <1> DEFINE op == s.todo[1]
  <1>0. /\ op.do \in Calls /\ (r = <<>> \/ (r = <<op>> /\ op.do = "write"))
        /\ t.todo = r \o Tail(s.todo) /\ t.job = s.job /\ t.asked = s.asked
        /\ (r = <<>> => HeadFits(t, s.todo[2], key))
        /\ (r # <<>> => HeadFits(t, op, key))
    BY DEF CallMade
  <1> HIDE DEF op
  <1>1. /\ OpFits(s, op, key) /\ ToSet(s.todo) = {op} \cup Rest(s.todo) /\ Len(s.todo) > 1
        /\ Follows(op, s.todo[2]) /\ \A o \in Rest(s.todo) : OpFits(s, o, key)
    BY <1>0, NextFits DEF op
  <1>2. Len(s.todo) # 1
    BY <1>1
  <1>3. /\ OpFits(t, op, key) /\ \A o \in Rest(s.todo) : Removes(o, Broadcasts) => t.asked = {}
    BY <1>0, <1>1 DEF OpFits
  <1>4. CASE r = <<>>
    <2>1. IsPlan(r) /\ ToSet(r) = {} /\ Len(r) = 0
      BY <1>4, NothingLeft
    <2>2. QED
      <3>1. Continues(s, t, r, key)
        BY <1>0, <1>1, <1>2, <1>3, <1>4, <2>1 DEF Continues
      <3>2. QED
        BY <1>1, <1>4, <2>1, <3>1, TodoContinues
  <1>5. CASE r = <<op>>
    <2>1. IsPlan(r) /\ ToSet(r) = {op} /\ Len(r) = 1 /\ r[1] = op /\ r # <<>>
      BY <1>5, OneLeft, NothingLeft
    <2>2. \A i \in 1 .. Len(r) : i < Len(r) => Follows(r[i], r[i + 1])
      BY <2>1
    <2>3. Follows(r[Len(r)], s.todo[2])
      BY <1>1, <2>1
    <2>4. \A o \in ToSet(r) : OpFits(t, o, key)
      BY <1>3, <2>1
    <2>5. HeadFits(t, r[1], key)
      BY <1>0, <2>1
    <2>6. QED
      <3>1. IsPlan(r) /\ t.todo = r \o Tail(s.todo) /\ t.job = s.job /\ Len(s.todo) # 1 /\ r # <<>>
        BY <1>0, <1>2, <2>1
      <3>2. Continues(s, t, r, key)
        BY <1>3, <3>1, <2>2, <2>3, <2>4, <2>5 DEF Continues
      <3>3. TodoFits(t, key)
        BY <3>2, TodoContinues
      <3>4. Works(t) <=> r # <<>> \/ Len(s.todo) > 1
        BY <3>2, TodoContinues
      <3>5. ToSet(t.todo) = ToSet(r) \cup Rest(s.todo)
        BY <3>2, TodoContinues
      <3>6. t.todo[1] = r[1]
        BY <2>1, <3>2, TodoContinues
      <3>7. Works(t)
        BY <2>1, <3>4
      <3>8. ToSet(r) \subseteq {s.todo[1]} /\ t.todo[1] = s.todo[1]
        BY <2>1, <3>6 DEF op
      <3>9. QED
        BY <2>1, <3>3, <3>5, <3>7, <3>8
  <1>6. QED
    BY <1>0, <1>4, <1>5 DEF op

\* The directory leads from the same names to the same contents, but for the one that was
\* renamed or unlinked.
DiskMade(s, t) ==
    LET op == s.todo[1]
    IN /\ DiskFits(t.disk) /\ DOMAIN t.promised = Values
       /\ t.excused = s.excused \/ t.excused = TRUE
       /\ \A n \in Values : n # op.name \/ op.do \notin {"rename", "unlink"} =>
              Current(t.disk)[n] = Current(s.disk)[n]
       /\ op.do = "rename" =>
              Current(t.disk)[op.name] = [found |-> TRUE, value |-> File(s.disk, Temporary(op.name)).value]
       /\ op.do = "unlink" => Current(t.disk)[op.name] = [found |-> FALSE]
       /\ t.excused \/ (SyncsWell(s.disk) => SyncsWell(t.disk))
       /\ op.do = "rename" => ~Exists(t.disk, Temporary(op.name))
       /\ \A n \in Values : Exists(t.disk, Temporary(n)) =>
              Exists(s.disk, Temporary(n)) \/ (n = op.name /\ op.do = "open")
       /\ \A v \in Views(t.disk) : v = Current(t.disk) \/ v \in Views(s.disk)
       /\ \A n \in Values : s.promised[n] \subseteq t.promised[n] /\ Current(t.disk)[n] \in t.promised[n]

LEMMA CallProceeds ==
    ASSUME NEW s, NEW t, NEW key \in Nat \ {0}, StateFits(s, key), Works(s), NEW r,
           CallMade(s, t, r, key), DiskMade(s, t)
    PROVE  StateFits(t, key)
  <1> DEFINE op == s.todo[1]
             name == op.name
             next == s.todo[2]
             now == Current(s.disk)
             then == Current(t.disk)
  <1>1. TodoFits(s, key) /\ ServerFits(s) /\ AskedFits(s) /\ ExcusesFit(s) /\ ContentsFit(s, key)
    BY DEF StateFits
  <1>2. /\ op.do \in Calls
        /\ DOMAIN t = DOMAIN s /\ t.script = s.script /\ t.job = s.job /\ t.made = s.made
        /\ t.server = s.server /\ t.asked = s.asked /\ t.privileged = s.privileged /\ t.refused = s.refused
        /\ (r = <<>> \/ (r = <<op>> /\ op.do = "write"))
    BY DEF CallMade
  <1>3. /\ OpFits(s, op, key) /\ HeadFits(s, op, key) /\ name \in Values
        /\ ToSet(s.todo) = {op} \cup Rest(s.todo) /\ Len(s.todo) > 1 /\ Follows(op, next)
        /\ \A o \in Rest(s.todo) : OpFits(s, o, key)
    BY <1>1, <1>2, NextFits DEF OpFits
  <1>4. TodoFits(t, key) /\ Works(t)
    BY <1>1, CallTodo
  <1>5. /\ ToSet(t.todo) = ToSet(r) \cup Rest(s.todo) /\ ToSet(r) \subseteq {op}
        /\ (r # <<>> => t.todo[1] = op) /\ (r = <<>> => t.todo[1] = next)
    BY <1>1, CallTodo
  <1>6. name = next.name
    BY <1>2, <1>3, CallsContinue, ZenonT(60)
  <1> HIDE DEF op, name, next, now, then
  <1>7. /\ DiskFits(t.disk) /\ DOMAIN t.promised = Values
        /\ t.excused = s.excused \/ t.excused = TRUE
        /\ \A n \in Values : n # name \/ op.do \notin {"rename", "unlink"} => then[n] = now[n]
        /\ (op.do = "rename" => then[name] = [found |-> TRUE, value |-> File(s.disk, Temporary(name)).value])
        /\ (op.do = "unlink" => then[name] = [found |-> FALSE])
    BY DEF DiskMade, op, name, now, then
  <1>8. /\ t.excused \/ (SyncsWell(s.disk) => SyncsWell(t.disk))
        /\ (op.do = "rename" => ~Exists(t.disk, Temporary(name)))
        /\ \A n \in Values : Exists(t.disk, Temporary(n)) =>
               Exists(s.disk, Temporary(n)) \/ (n = name /\ op.do = "open")
        /\ \A v \in Views(t.disk) : v = then \/ v \in Views(s.disk)
        /\ \A n \in Values : s.promised[n] \subseteq t.promised[n] /\ then[n] \in t.promised[n]
    BY DEF DiskMade, op, name, then
  <1>9. op.do = "unlink" => Removes(op, name) /\ WillRemove(op, name)
    BY DEF Removes, WillRemove, name
  \* What is renamed was to be written.
  <1>10. op.do = "rename" => ValueFits(s, name, then[name].value, key) /\ then[name].found
    <2>1. ASSUME op.do = "rename" PROVE ValueFits(s, name, File(s.disk, Temporary(name)).value, key)
      BY <1>3, <2>1 DEF HeadFits, Writing, name
    <2>2. op.do = "rename" => then[name].value = File(s.disk, Temporary(name)).value
      BY <1>7
    <2>3. op.do = "rename" => then[name].found
      BY <1>7
    <2>4. QED
      BY <2>1, <2>2, <2>3
  <1>11. op.do = "unlink" => ~then[name].found
    BY <1>7
  <1>12. \A n \in Values : \/ then[n] = now[n]
                           \/ n = name /\ op.do = "rename"
                           \/ n = name /\ op.do = "unlink"
    BY <1>7
  \* What was being written still is.
  <1>13. op.do \in {"open", "write", "sync", "sync directory"} =>
             t.todo[1].do \in Writing /\ t.todo[1].name = name
    <2>1. op.do \in {"open", "write", "sync", "sync directory"} => next.do \in Writing
      BY <1>2, <1>3, CallsContinue DEF Writing
    <2>2. op.do = "write" => op.do \in Writing
      BY DEF Writing
    <2>3. QED
      BY <1>2, <1>5, <1>6, <2>1, <2>2 DEF name
  <1>14. /\ \A o \in ToSet(t.todo) : o \in ToSet(s.todo)
         /\ \A o \in ToSet(s.todo) : o = op \/ o \in ToSet(t.todo)
    BY <1>3, <1>5
  <1>15. ServerFits(t)
    <2>1. s.job \in {"import", "import pairing", "restore"} => s.server.ltsk = 0
      BY <1>1 DEF ServerFits, OfServer
    <2>2. s.server.ltsk # 0 =>
              \/ then[LTSK].found /\ then[LTSK].value[1] = s.server.ltsk
              \/ s.job = "start" /\ Writes(t, LTSK)
      <3>1. SUFFICES ASSUME s.server.ltsk # 0
                     PROVE  \/ then[LTSK].found /\ then[LTSK].value[1] = s.server.ltsk
                            \/ s.job = "start" /\ Writes(t, LTSK)
        OBVIOUS
      <3>2. \/ now[LTSK].found /\ now[LTSK].value[1] = s.server.ltsk
            \/ s.job = "start" /\ Writes(s, LTSK)
        BY <1>1, <3>1 DEF ServerFits, now
      <3>3. CASE then[LTSK] = now[LTSK] /\ now[LTSK].found /\ now[LTSK].value[1] = s.server.ltsk
        BY <3>3
      <3>4. CASE LTSK = name /\ op.do = "rename"
        BY <1>10, <2>1, <3>1, <3>4 DEF ValueFits
      <3>5. CASE LTSK = name /\ op.do = "unlink"
        BY <1>3, <1>9, <2>1, <3>1, <3>5 DEF OpFits
      <3>6. CASE s.job = "start" /\ Writes(s, LTSK)
        <4>1. op.do \in Writing \cup {"set", "open"} /\ name = LTSK
          BY <3>6 DEF Writes, op, name
        <4>2. op.do = "rename" \/ op.do \in {"open", "write", "sync", "sync directory"}
          BY <1>2, <4>1 DEF Writing, Calls
        <4>3. op.do = "rename" \/ Writes(t, LTSK)
          BY <1>4, <1>13, <4>1, <4>2 DEF Writes
        <4>4. QED
          BY <3>4, <3>6, <4>1, <4>3
      <3>7. QED
        BY <1>12, <3>2, <3>3, <3>4, <3>5, <3>6, KeysFit
    <2>3. ASSUME Has(t, {"make LTSK"}), NEW k \in 1 .. MaxPairings, then[Pairing(k)].found
          PROVE  \E o \in ToSet(t.todo) : WillRemove(o, Pairing(k))
      <3>1. Has(s, {"make LTSK"}) /\ s.job = "start"
        <4>1. PICK o \in ToSet(t.todo) : o.do \in {"make LTSK"}
          BY <2>3 DEF Has
        <4>2. o \in ToSet(s.todo) /\ OpFits(s, o, key)
          BY <1>3, <1>14, <4>1
        <4>3. QED
          BY <4>1, <4>2 DEF Has, OpFits, StartSteps
      <3>2. Pairing(k) # LTSK /\ Pairing(k) \in Values
        BY KeysFit
      <3>3. ~(Pairing(k) = name /\ op.do = "rename")
        BY <1>10, <3>1, <3>2 DEF ValueFits
      <3>4. ~(Pairing(k) = name /\ op.do = "unlink") /\ now[Pairing(k)].found
        BY <1>11, <1>12, <2>3, <3>2, <3>3
      <3>5. PICK o \in ToSet(s.todo) : WillRemove(o, Pairing(k))
        BY <1>1, <3>1, <3>4 DEF ServerFits, now
      <3>6. o # op
        BY <1>2, <3>4, <3>5 DEF WillRemove, Removes, Calls, name
      <3>7. QED
        BY <1>14, <3>5, <3>6
    <2>4. \A S : S \subseteq StartSteps => (Has(t, S) <=> Has(s, S))
      <3>1. op.do \notin StartSteps
        BY <1>2 DEF Calls, StartSteps
      <3>2. QED
        BY <1>14, <3>1 DEF Has
    <2>5. Has(t, {"start", "load LTSK", "make LTSK"}) <=> Has(s, {"start", "load LTSK", "make LTSK"})
      BY <2>4 DEF StartSteps
    <2>6. /\ DOMAIN t.server = {"running", "ltsk"} /\ t.server.running \in BOOLEAN
          /\ t.server.ltsk # 0 => t.server.running \/ t.job = "start"
          /\ t.server.running => t.server.ltsk # 0
          /\ (t.job \in OfServer <=> t.server.running) \/ t.job = "start"
          /\ t.job = "start" => /\ t.server.ltsk = 0 <=> Has(s, {"start", "load LTSK", "make LTSK"})
                                /\ ~t.server.running
      BY <1>1, <1>2 DEF ServerFits
    <2>7. t.server.ltsk # 0 =>
              \/ then[LTSK].found /\ then[LTSK].value[1] = t.server.ltsk
              \/ t.job = "start" /\ Writes(t, LTSK)
      BY <1>2, <2>2
    <2>8. QED
      BY <1>4, <2>3, <2>5, <2>6, <2>7 DEF ServerFits, then
  <1>16. AskedFits(t)
    <2>1. then[Broadcasts] = now[Broadcasts] => ConfigurationOf(then) = ConfigurationOf(now)
      BY DEF ConfigurationOf
    <2>2. CASE Broadcasts = name /\ op.do = "rename"
      <3>1. ConfigurationOf(then) = then[Broadcasts].value /\ ToSet(then[Broadcasts].value) = s.asked
        BY <1>10, <2>2 DEF ConfigurationOf, ValueFits
      <3>2. QED
        BY <1>2, <3>1 DEF AskedFits, then
    <2>3. CASE Broadcasts = name /\ op.do = "unlink"
      <3>1. s.asked = {} /\ ConfigurationOf(then) = <<>>
        BY <1>3, <1>9, <1>11, <2>3 DEF OpFits, ConfigurationOf
      <3>2. QED
        BY <1>2, <3>1, NothingLeft DEF AskedFits, then
    <2>4. CASE then[Broadcasts] = now[Broadcasts] /\ ToSet(ConfigurationOf(now)) = s.asked
      BY <1>2, <2>1, <2>4 DEF AskedFits, then
    <2>5. CASE Writes(s, Broadcasts)
      <3>1. op.do \in Writing \cup {"set", "open"} /\ name = Broadcasts
        BY <2>5 DEF Writes, op, name
      <3>2. op.do = "rename" \/ op.do \in {"open", "write", "sync", "sync directory"}
        BY <1>2, <3>1 DEF Writing, Calls
      <3>3. op.do = "rename" \/ Writes(t, Broadcasts)
        BY <1>4, <1>13, <3>1, <3>2 DEF Writes
      <3>4. QED
        BY <2>2, <3>1, <3>3 DEF AskedFits
    <2>6. CASE \E o \in ToSet(s.todo) : Removes(o, Broadcasts)
      <3>1. PICK o \in ToSet(s.todo) : Removes(o, Broadcasts)
        BY <2>6
      <3>2. CASE o = op
        BY <1>2, <2>3, <3>1, <3>2 DEF Removes, Calls, name
      <3>3. CASE o \in ToSet(t.todo)
        BY <3>1, <3>3 DEF AskedFits
      <3>4. QED
        BY <1>14, <3>2, <3>3
    <2>7. \/ ToSet(ConfigurationOf(now)) = s.asked
          \/ Writes(s, Broadcasts)
          \/ \E o \in ToSet(s.todo) : Removes(o, Broadcasts)
      BY <1>1 DEF AskedFits, now
    <2>8. QED
      BY <1>12, <2>2, <2>3, <2>4, <2>5, <2>6, <2>7, KeysFit
  <1>17. ExcusesFit(t)
    <2>1. SUFFICES ASSUME ~t.excused
                   PROVE  /\ SyncsWell(t.disk) /\ ~t.refused
                          /\ t.privileged \/ \A n \in Values : Exists(t.disk, Temporary(n)) =>
                                 Works(t) /\ t.todo[1].do \in Writing /\ t.todo[1].name = n
      BY DEF ExcusesFit
    <2>2. t.excused = s.excused
      BY <1>7, <2>1
    <2>3. /\ SyncsWell(s.disk) /\ ~s.refused
          /\ s.privileged \/ \A n \in Values : Exists(s.disk, Temporary(n)) => op.do \in Writing /\ name = n
      BY <1>1, <2>1, <2>2 DEF ExcusesFit, op, name
    <2>4. ASSUME ~s.privileged, NEW n \in Values, Exists(t.disk, Temporary(n))
          PROVE  t.todo[1].do \in Writing /\ t.todo[1].name = n
      <3>1. name = n /\ (op.do \in Writing \/ op.do = "open")
        BY <1>8, <2>3, <2>4
      <3>2. op.do # "rename"
        BY <1>8, <2>4, <3>1
      <3>3. op.do \in {"open", "write", "sync", "sync directory"}
        BY <3>1, <3>2 DEF Writing
      <3>4. QED
        BY <1>13, <3>1, <3>3
    <2>5. QED
      BY <1>2, <1>4, <1>8, <2>1, <2>3, <2>4
  <1>18. ViewFits(then) /\ (Importing(s) => IsImported(then, key))
    <2>1. ViewFits(now) /\ (Importing(s) => IsImported(now, key))
      BY <1>1, CurrentFits DEF ContentsFit, now
    <2>2. s.job \in Imports => Importing(s)
      BY DEF Importing
    <2>3. Importing(s) => s.job \in Imports
      BY DEF Importing, StateFits
    <2>4. ASSUME then[LTSK].found
          PROVE  then[LTSK].value[1] \in Nat \ {0}
      BY <1>10, <1>11, <1>12, <2>1, <2>4, KeysFit DEF ViewFits, ValueFits
    <2>5. ASSUME then[LTSK].found, NEW k \in 1 .. MaxPairings, then[Pairing(k)].found
          PROVE  then[Pairing(k)].value[1] = then[LTSK].value[1]
      <3>1. Pairing(k) \in Values /\ LTSK \in Values /\ Pairing(k) # LTSK
        BY KeysFit
      <3>2. CASE LTSK = name /\ op.do = "rename"
        <4>1. then[Pairing(k)] = now[Pairing(k)]
          BY <1>12, <3>1, <3>2
        <4>2. HasPairings(now)
          BY <2>5, <4>1 DEF HasPairings
        <4>3. s.job = "import" /\ then[LTSK].value[1] = key
          BY <1>10, <3>2, <4>2 DEF ValueFits, now
        <4>4. IsImported(now, key)
          BY <2>1, <2>2, <4>3 DEF Imports
        <4>5. QED
          BY <2>5, <4>1, <4>3, <4>4 DEF IsImported
      <3>3. CASE Pairing(k) = name /\ op.do = "rename"
        <4>1. then[LTSK] = now[LTSK]
          BY <1>12, <3>1, <3>3
        <4>2. \/ s.job = "import pairing" /\ then[Pairing(k)].value[1] = key
              \/ s.job = "pair" /\ then[Pairing(k)].value[1] = s.server.ltsk
          BY <1>10, <3>3 DEF ValueFits
        <4>3. CASE s.job = "import pairing"
          <5>1. IsImported(now, key)
            BY <2>1, <2>2, <4>3 DEF Imports
          <5>2. QED
            BY <2>5, <4>1, <4>2, <4>3, <5>1 DEF IsImported
        <4>4. CASE s.job = "pair"
          <5>1. s.server.ltsk # 0
            BY <1>1, <4>4 DEF ServerFits, OfServer
          <5>2. now[LTSK].value[1] = s.server.ltsk
            BY <1>1, <4>4, <5>1 DEF ServerFits, now
          <5>3. QED
            BY <4>1, <4>2, <4>4, <5>2
        <4>5. QED
          BY <4>2, <4>3, <4>4
      <3>4. CASE then[LTSK] = now[LTSK] /\ then[Pairing(k)] = now[Pairing(k)]
        BY <2>1, <2>5, <3>4 DEF ViewFits
      <3>5. QED
        BY <1>11, <1>12, <2>5, <3>1, <3>2, <3>3, <3>4
    <2>6. then[Broadcasts].found => InOrder(then[Broadcasts].value)
      BY <1>10, <1>11, <1>12, <2>1, KeysFit DEF ViewFits, ValueFits
    <2>7. ASSUME Importing(s), NEW k \in 1 .. MaxPairings, then[Pairing(k)].found
          PROVE  then[Pairing(k)].value[1] = key
      <3>1. Pairing(k) \in Values
        BY KeysFit
      <3>2. CASE Pairing(k) = name /\ op.do = "rename"
        BY <1>10, <2>3, <2>7, <3>2 DEF ValueFits, Imports
      <3>3. CASE then[Pairing(k)] = now[Pairing(k)]
        BY <2>1, <2>7, <3>3 DEF IsImported
      <3>4. QED
        BY <1>11, <1>12, <2>7, <3>1, <3>2, <3>3
    <2>8. ASSUME Importing(s), then[LTSK].found PROVE then[LTSK].value[1] = key
      <3>1. CASE LTSK = name /\ op.do = "rename"
        BY <1>10, <2>3, <2>8, <3>1 DEF ValueFits, Imports
      <3>2. CASE then[LTSK] = now[LTSK]
        BY <2>1, <2>8, <3>2 DEF IsImported
      <3>3. QED
        BY <1>11, <1>12, <2>8, <3>1, <3>2, KeysFit
    <2>9. QED
      BY <2>4, <2>5, <2>6, <2>7, <2>8 DEF ViewFits, IsImported
  <1>19. \A v \in Views(t.disk) : /\ ViewFits(v) /\ (Importing(s) => IsImported(v, key))
                                  /\ \A n \in Values : v[n] \in t.promised[n]
    BY <1>1, <1>8, <1>18 DEF ContentsFit
  <1>20. s.made \in Nat
    BY DEF StateFits
  <1>21. QED
    BY <1>2, <1>4, <1>7, <1>15, <1>16, <1>17, <1>19, <1>20, ProceedFits

\* A call has been made, with the disk d after it.
Goes(t, d, r, promised) ==
    /\ DOMAIN t = Fields /\ t.disk = d /\ t.todo = r \o Tail(storage.todo) /\ t.promised = promised
    /\ t.script = storage.script /\ t.job = storage.job /\ t.made = storage.made
    /\ t.server = storage.server /\ t.asked = storage.asked /\ t.privileged = storage.privileged
    /\ t.refused = storage.refused
    /\ t.excused = storage.excused \/ t.excused = TRUE

\* What is known of a call that is to be made.
LEMMA CallFits ==
    ASSUME NEW key, StateFits(storage, key), Works(storage), storage.todo[1].do \in Calls
    PROVE  LET op == storage.todo[1]
               next == storage.todo[2]
           IN /\ op = Head(storage.todo) /\ op.name \in Values /\ HeadFits(storage, op, key)
              /\ DiskFits(disk) /\ DOMAIN storage = Fields /\ DOMAIN storage.promised = Values
              /\ next.name = op.name
              /\ op.do = "open" => next.do = "write"
              /\ op.do = "write" => next.do = "sync"
              /\ op.do = "sync" => next.do = "sync directory"
              /\ op.do = "sync directory" => next.do = "rename"
              /\ op.do = "rename" => next.do = "sync renamed"
              /\ op.do = "unlink" => next.do = "sync unlinked"
              /\ op.do \in {"sync renamed", "sync unlinked"} => next.do = "return"
  <1> DEFINE op == storage.todo[1]
             next == storage.todo[2]
  <1>1. TodoFits(storage, key) /\ DiskFits(disk) /\ DOMAIN storage = Fields /\ DOMAIN storage.promised = Values
    BY DEF StateFits, Fields, disk
  <1>2. /\ op = Head(storage.todo) /\ OpFits(storage, op, key) /\ HeadFits(storage, op, key)
        /\ Len(storage.todo) > 1 /\ Follows(op, next)
    BY <1>1, NextFits
  <1>3. op.name \in Values
    BY <1>2 DEF OpFits
  <1> HIDE DEF op, next
  <1>4. /\ next.name = op.name
        /\ op.do = "open" => next.do = "write"
        /\ op.do = "write" => next.do = "sync"
        /\ op.do = "sync" => next.do = "sync directory"
        /\ op.do = "sync directory" => next.do = "rename"
        /\ op.do = "rename" => next.do = "sync renamed"
        /\ op.do = "unlink" => next.do = "sync unlinked"
        /\ op.do \in {"sync renamed", "sync unlinked"} => next.do = "return"
    BY <1>2, CallsContinue DEF op
  <1>5. QED
    BY <1>1, <1>2, <1>3, <1>4 DEF op, next

\* A call that leaves the directory as it is.
LEMMA CallKeeps ==
    ASSUME NEW key \in Nat \ {0}, StateFits(storage, key), Works(storage),
           storage.todo[1].do \in Calls \ {"rename", "unlink"},
           NEW t, NEW e, NEW r, Goes(t, e, r, storage.promised),
           r = <<>> \/ (r = <<storage.todo[1]>> /\ storage.todo[1].do = "write"),
           r = <<>> => HeadFits(t, storage.todo[2], key),
           r # <<>> => HeadFits(t, storage.todo[1], key),
           DiskFits(e), Current(e) = Current(disk), Views(e) \subseteq Views(disk),
           t.excused \/ (SyncsWell(disk) => SyncsWell(e)),
           \A n \in Values : Exists(e, Temporary(n)) =>
               Exists(disk, Temporary(n)) \/ (n = storage.todo[1].name /\ storage.todo[1].do = "open")
    PROVE  StateFits(t, key)
  <1> DEFINE op == storage.todo[1]
  <1>1. /\ op.do \in Calls /\ DOMAIN storage = Fields /\ DOMAIN storage.promised = Values
        /\ ContentsFit(storage, key)
    BY CallFits DEF StateFits
  <1>2. CallMade(storage, t, r, key)
    BY <1>1 DEF CallMade, Goes
  <1>3. \A n \in Values : Current(e)[n] \in storage.promised[n]
    BY <1>1, CurrentFits DEF ContentsFit, disk
  <1>4. DiskMade(storage, t)
    <2>1. t.disk = e /\ t.promised = storage.promised /\ (t.excused = storage.excused \/ t.excused = TRUE)
      BY DEF Goes
    <2> HIDE DEF op
    <2>2. op.do # "rename" /\ op.do # "unlink"
      BY DEF op
    <2>3. QED
      BY <1>1, <1>3, <2>1, <2>2 DEF DiskMade, disk, op
  <1>5. QED
    BY <1>2, <1>4, CallProceeds

\* A call that changes what a name leads to.
LEMMA CallLinks ==
    ASSUME NEW key \in Nat \ {0}, StateFits(storage, key), Works(storage),
           storage.todo[1].do \in {"rename", "unlink"},
           NEW t, NEW e, NEW name, name = storage.todo[1].name,
           Goes(t, e, <<>>, [storage.promised EXCEPT ![name] = @ \cup {Now(e, name)}]),
           DiskFits(e), Views(e) = Views(disk) \cup {Current(e)}, SyncsWell(disk) => SyncsWell(e),
           storage.todo[1].do = "rename" =>
               /\ Current(e) = [Current(disk) EXCEPT ![name] =
                                    [found |-> TRUE, value |-> File(disk, Temporary(name)).value]]
               /\ ~Exists(e, Temporary(name)),
           storage.todo[1].do = "unlink" => Current(e) = [Current(disk) EXCEPT ![name] = [found |-> FALSE]],
           \A n \in Values : Exists(e, Temporary(n)) => Exists(disk, Temporary(n))
    PROVE  StateFits(t, key)
  <1> DEFINE op == storage.todo[1]
             promised == [storage.promised EXCEPT ![name] = @ \cup {Now(e, name)}]
  <1>1. /\ op.do \in Calls /\ DOMAIN storage = Fields /\ DOMAIN storage.promised = Values
        /\ ContentsFit(storage, key) /\ name \in Values
        /\ op.do = "rename" => storage.todo[2].do = "sync renamed"
        /\ op.do = "unlink" => storage.todo[2].do = "sync unlinked"
    <2>1. op.do \in Calls
      BY DEF Calls
    <2>2. QED
      BY <2>1, CallFits DEF StateFits
  <1>2. CallMade(storage, t, <<>>, key)
    <2>1. HeadFits(t, storage.todo[2], key)
      BY <1>1 DEF HeadFits, Writing
    <2>2. QED
      BY <1>1, <2>1 DEF CallMade, Goes
  <1>3. \A n \in Values : Current(disk)[n] \in storage.promised[n]
    BY <1>1, CurrentFits DEF ContentsFit, disk
  <1>4. /\ Current(e)[name] = Now(e, name) /\ DOMAIN Current(disk) = Values
        /\ \A n \in Values : n # name => Current(e)[n] = Current(disk)[n]
        /\ op.do = "rename" => Current(e)[name] = [found |-> TRUE, value |-> File(disk, Temporary(name)).value]
        /\ op.do = "unlink" => Current(e)[name] = [found |-> FALSE]
    BY <1>1, CurrentFits
  <1>5. /\ DOMAIN promised = Values
        /\ \A n \in Values : storage.promised[n] \subseteq promised[n] /\ Current(e)[n] \in promised[n]
    BY <1>1, <1>3, <1>4
  <1>6. DiskMade(storage, t)
    <2>1. t.disk = e /\ t.promised = promised /\ (t.excused = storage.excused \/ t.excused = TRUE)
      BY DEF Goes
    <2> HIDE DEF op, promised
    <2>2. /\ op.do = "rename" => /\ Current(e)[name] = [found |-> TRUE, value |-> File(disk, Temporary(name)).value]
                                 /\ ~Exists(e, Temporary(name))
          /\ name = op.name /\ \A v \in Views(e) : v = Current(e) \/ v \in Views(disk)
      BY <1>4 DEF op
    <2>3. QED
      BY <1>4, <1>5, <2>1, <2>2 DEF DiskMade, disk, op
  <1>7. QED
    BY <1>2, <1>6, CallProceeds

\* The temporary file is created, or emptied.
LEMMA OpenFits ==
    ASSUME StorageConstants, NEW key \in Nat \ {0}, StateFits(storage, key), Works(storage), InodesSuffice,
           NEW op, op = storage.todo[1], op.do = "open", NEW t,
           Goes(t, OpenTemporary(CreateDirectory(disk), op.name, op.value), <<>>, storage.promised)
    PROVE  StateFits(t, key)
  <1> DEFINE ready == CreateDirectory(disk)
             e == OpenTemporary(ready, op.name, op.value)
             next == storage.todo[2]
             file == [value |-> op.value, written |-> 0, sync |-> "due"]
  <1>1. /\ op.name \in Values /\ HeadFits(storage, op, key) /\ DiskFits(disk)
        /\ next.name = op.name /\ next.do = "write" /\ op.do \in Calls
    <2>1. op.do \in Calls
      BY DEF Calls
    <2>2. QED
      BY <2>1, CallFits
  <1>2. /\ SameContents(ready, disk) /\ (SyncsWell(disk) => SyncsWell(ready))
        /\ ready.directory = disk.directory /\ ready.lost = disk.lost
    <2>1. ready = [disk EXCEPT !.root = IF disk.root = "absent" THEN "new" ELSE disk.root]
      BY DEF CreateDirectory
    <2>2. QED
      BY <1>1, <2>1, RootChanged
  <1> HIDE DEF ready
  <1>3. Inodes \ Used(ready) # {} /\ DiskFits(ready)
    BY <1>2 DEF InodesSuffice, Used, NamesOf, SameContents
  <1>4. Becomes(e, ready, op.name, file)
    BY <1>1, <1>3, Opened
  <1> HIDE DEF e
  <1>5. /\ SameContents(e, ready) /\ (SyncsWell(ready) => SyncsWell(e))
        /\ Exists(e, Temporary(op.name)) /\ File(e, Temporary(op.name)) = file
        /\ SameTemporaries(e, ready, op.name)
    BY <1>4 DEF Becomes
  <1>6. DiskFits(e) /\ Current(e) = Current(disk) /\ Views(e) \subseteq Views(disk)
    BY <1>2, <1>5 DEF SameContents
  <1>7. /\ t.disk = e /\ t.job = storage.job /\ t.server = storage.server /\ t.asked = storage.asked
        /\ Goes(t, e, <<>>, storage.promised)
    BY DEF Goes, e, ready
  <1>8. HeadFits(t, next, key)
    <2>1. ValueFits(storage, op.name, op.value, key)
      BY <1>1 DEF HeadFits
    <2>2. ValueFits(t, op.name, op.value, key)
      BY <1>6, <1>7, <2>1, ValueKept DEF disk
    <2>3. ~IsWhole(file)
      BY DEF IsWhole, StorageConstants
    <2>4. QED
      BY <1>1, <1>5, <1>7, <2>2, <2>3 DEF HeadFits, Writing
  <1>9. \A n \in Values : Exists(e, Temporary(n)) => Exists(disk, Temporary(n)) \/ n = op.name
    BY <1>2, <1>5 DEF SameTemporaries, Exists
  <1>10. t.excused \/ (SyncsWell(disk) => SyncsWell(e))
    BY <1>2, <1>5
  <1>11. op.do \in Calls \ {"rename", "unlink"}
    BY <1>1
  <1>12. QED
    BY <1>6, <1>7, <1>8, <1>9, <1>10, <1>11, CallKeeps

\* Some of the value is written, or the rest of it.
LEMMA WriteFits ==
    ASSUME StorageConstants, NEW key \in Nat \ {0}, StateFits(storage, key), Works(storage),
           NEW op, op = storage.todo[1], op.do = "write",
           NEW k \in 1 .. (Parts - File(disk, Temporary(op.name)).written), NEW e,
           e = WriteTemporary(disk, op.name, k), NEW r,
           r = IF IsWhole(File(e, Temporary(op.name))) THEN <<>> ELSE <<op>>,
           NEW t, Goes(t, e, r, storage.promised)
    PROVE  StateFits(t, key)
  <1> DEFINE next == storage.todo[2]
             before == File(disk, Temporary(op.name))
             file == [before EXCEPT !.written = @ + k]
  <1>1. /\ op.name \in Values /\ HeadFits(storage, op, key) /\ DiskFits(disk)
        /\ next.name = op.name /\ next.do = "sync" /\ op.do \in Calls
    <2>1. op.do \in Calls
      BY DEF Calls
    <2>2. QED
      BY <2>1, CallFits
  <1>2. Exists(disk, Temporary(op.name)) /\ ValueFits(storage, op.name, before.value, key)
    BY <1>1 DEF HeadFits, Writing, disk
  <1>3. Becomes(e, disk, op.name, file)
    BY <1>1, <1>2, Written
  <1>4. InodeFits(before) /\ (SyncsWell(disk) => before.sync # "failed")
    <2>1. disk.directory[Temporary(op.name)] \in Inodes
      BY <1>1, <1>2, DirectoryTyped, NamesFit DEF Exists, Directories
    <2>2. QED
      BY <1>1, <2>1 DEF DiskFits, SyncsWell, File
  <1>5. file.value = before.value /\ file.sync = before.sync
    BY <1>4 DEF InodeFits
  <1> HIDE DEF file
  <1>6. /\ SameContents(e, disk) /\ (SyncsWell(disk) => SyncsWell(e))
        /\ Exists(e, Temporary(op.name)) /\ File(e, Temporary(op.name)) = file
        /\ SameTemporaries(e, disk, op.name)
    BY <1>3, <1>4, <1>5 DEF Becomes
  <1>7. DiskFits(e) /\ Current(e) = Current(disk) /\ Views(e) \subseteq Views(disk)
    BY <1>6 DEF SameContents
  <1>8. t.disk = e /\ t.job = storage.job /\ t.server = storage.server /\ t.asked = storage.asked
    BY DEF Goes
  <1>9. ValueFits(t, op.name, file.value, key)
    BY <1>2, <1>5, <1>7, <1>8, ValueKept DEF disk
  <1>10. IsWhole(file) => HeadFits(t, next, key)
    BY <1>1, <1>6, <1>8, <1>9 DEF HeadFits, Writing
  <1>11. ~IsWhole(file) => HeadFits(t, op, key)
    BY <1>6, <1>8, <1>9 DEF HeadFits, Writing
  <1>12. \A n \in Values : Exists(e, Temporary(n)) => Exists(disk, Temporary(n))
    BY <1>2, <1>6 DEF SameTemporaries
  <1>13. op.do \in Calls \ {"rename", "unlink"}
    BY <1>1
  <1>14. QED
    <2>1. CASE IsWhole(file)
      <3>1. Goes(t, e, <<>>, storage.promised)
        BY <1>6, <2>1
      <3>2. QED
        BY <1>6, <1>7, <1>10, <1>12, <1>13, <2>1, <3>1, CallKeeps
    <2>2. CASE ~IsWhole(file)
      <3>1. r = <<op>> /\ r # <<>>
        BY <1>6, <2>2
      <3>2. QED
        BY <1>6, <1>7, <1>11, <1>12, <1>13, <2>2, <3>1, CallKeeps
    <2>3. QED
      BY <2>1, <2>2

\* The temporary file is synced, or is not.
LEMMA SyncFits ==
    ASSUME StorageConstants, NEW key \in Nat \ {0}, StateFits(storage, key), Works(storage),
           NEW op, op = storage.todo[1], op.do = "sync", NEW done \in BOOLEAN, NEW t,
           Goes(t, SyncTemporary(disk, op.name, done), <<>>, storage.promised), done \/ t.excused
    PROVE  StateFits(t, key)
  <1> DEFINE next == storage.todo[2]
             e == SyncTemporary(disk, op.name, done)
             before == File(disk, Temporary(op.name))
             file == [before EXCEPT !.sync = IF done THEN "done" ELSE "failed"]
  <1>1. /\ op.name \in Values /\ HeadFits(storage, op, key) /\ DiskFits(disk)
        /\ next.name = op.name /\ next.do = "sync directory" /\ op.do \in Calls
    <2>1. op.do \in Calls
      BY DEF Calls
    <2>2. QED
      BY <2>1, CallFits
  <1>2. /\ Exists(disk, Temporary(op.name)) /\ ValueFits(storage, op.name, before.value, key)
        /\ IsWhole(before)
    BY <1>1 DEF HeadFits, Writing, disk
  <1>3. Becomes(e, disk, op.name, file)
    <2>1. Becomes(SyncTemporary(disk, op.name, done), disk, op.name,
                  [File(disk, Temporary(op.name)) EXCEPT !.sync = IF done THEN "done" ELSE "failed"])
      BY <1>1, <1>2, SyncedTemporary
    <2>2. QED
      BY <2>1
  <1>4. InodeFits(before)
    <2>1. disk.directory[Temporary(op.name)] \in Inodes
      <3>1. disk.directory \in Directories(disk) /\ Temporary(op.name) \in StoreNames
        BY <1>1, NamesFit DEF Directories
      <3>2. QED
        BY <1>1, <1>2, <3>1, DirectoryTyped DEF Exists
    <2>2. QED
      BY <1>1, <2>1 DEF DiskFits, File
  <1>5. /\ file.value = before.value /\ file.written = before.written
        /\ file.sync \in {"done", "failed"} /\ (done => file.sync = "done")
    BY <1>4 DEF InodeFits
  <1> HIDE DEF file, e
  <1>6. /\ SameContents(e, disk) /\ (t.excused \/ (SyncsWell(disk) => SyncsWell(e)))
        /\ Exists(e, Temporary(op.name)) /\ File(e, Temporary(op.name)) = file
        /\ SameTemporaries(e, disk, op.name)
    BY <1>3, <1>5 DEF Becomes
  <1>7. DiskFits(e) /\ Current(e) = Current(disk) /\ Views(e) \subseteq Views(disk)
    BY <1>6 DEF SameContents
  <1>8. /\ t.disk = e /\ t.job = storage.job /\ t.server = storage.server /\ t.asked = storage.asked
        /\ Goes(t, e, <<>>, storage.promised)
    BY DEF Goes, e
  <1>9. ValueFits(t, op.name, file.value, key)
    BY <1>2, <1>5, <1>7, <1>8, ValueKept DEF disk
  <1>10. HeadFits(t, next, key)
    BY <1>1, <1>2, <1>5, <1>6, <1>8, <1>9 DEF HeadFits, Writing, IsWhole
  <1>11. \A n \in Values : Exists(e, Temporary(n)) => Exists(disk, Temporary(n))
    BY <1>2, <1>6 DEF SameTemporaries
  <1>12. op.do \in Calls \ {"rename", "unlink"}
    BY <1>1
  <1>13. QED
    BY <1>6, <1>7, <1>8, <1>10, <1>11, <1>12, CallKeeps

\* The directory is synced: what it leads to is what is kept.
LEMMA SyncDirectoryFits ==
    ASSUME StorageConstants, NEW key \in Nat \ {0}, StateFits(storage, key), Works(storage),
           NEW op, op = storage.todo[1], op.do \in {"sync directory", "sync renamed", "sync unlinked"}, NEW t,
           \/ Goes(t, SyncDirectory(disk), <<>>, storage.promised)
           \/ Goes(t, disk, <<>>, storage.promised) /\ op.do = "sync unlinked" /\ t.excused
    PROVE  StateFits(t, key)
  <1> DEFINE next == storage.todo[2]
             e == t.disk
  <1>1. /\ op.name \in Values /\ HeadFits(storage, op, key) /\ DiskFits(disk) /\ op.do \in Calls
        /\ op.do = "sync directory" => next.do = "rename" /\ next.name = op.name
        /\ op.do \in {"sync renamed", "sync unlinked"} => next.do = "return"
    <2>1. op.do \in Calls
      BY DEF Calls
    <2>2. QED
      BY <2>1, CallFits
  <1>2. Current(disk) \in Views(disk)
    BY CurrentFits
  <1>3. /\ Goes(t, e, <<>>, storage.promised)
        /\ t.job = storage.job /\ t.server = storage.server /\ t.asked = storage.asked
    BY DEF Goes
  <1>4. \/ e = SyncDirectory(disk)
        \/ e = disk /\ op.do = "sync unlinked" /\ t.excused
    BY DEF Goes
  <1>5. /\ DiskFits(e) /\ Current(e) = Current(disk) /\ Views(e) \subseteq Views(disk)
        /\ SyncsWell(disk) => SyncsWell(e)
        /\ e.directory = disk.directory
        /\ t.excused \/ e.lost = {}
        /\ op.do = "sync directory" => \A n \in Values :
               Exists(disk, Temporary(n)) => File(e, Temporary(n)) = File(disk, Temporary(n))
    <2>1. CASE e = SyncDirectory(disk)
      <3>1. DiskFits(e) /\ Current(e) = Current(disk) /\ Views(e) = {Current(disk)}
        BY <1>1, <2>1, SyncedDirectory
      <3>2. (SyncsWell(disk) => SyncsWell(e)) /\ e.directory = disk.directory /\ e.lost = {}
        BY <1>1, <2>1, SyncedDirectory
      <3>3. \A n \in Values : Exists(disk, Temporary(n)) => File(e, Temporary(n)) = File(disk, Temporary(n))
        <4>1. ASSUME NEW n \in Values, Exists(disk, Temporary(n))
              PROVE  File(SyncDirectory(disk), Temporary(n)) = File(disk, Temporary(n))
          BY <1>1, <4>1, SyncedDirectory
        <4>2. QED
          BY <2>1, <4>1
      <3> HIDE DEF e
      <3>4. QED
        BY <1>2, <3>1, <3>2, <3>3
    <2>2. CASE e = disk /\ op.do = "sync unlinked" /\ t.excused
      BY <1>1, <2>2
    <2>3. QED
      BY <1>4, <2>1, <2>2
  <1> HIDE DEF e
  <1>6. HeadFits(t, next, key)
    <2>1. CASE op.do = "sync directory"
      <3> DEFINE file == File(disk, Temporary(op.name))
      <3>1. /\ Exists(disk, Temporary(op.name)) /\ ValueFits(storage, op.name, file.value, key)
            /\ IsWhole(file) /\ file.sync \in {"done", "failed"}
        BY <1>1, <2>1 DEF HeadFits, Writing, disk
      <3>2. ValueFits(t, op.name, file.value, key)
        BY <1>3, <1>5, <3>1, ValueKept DEF disk, e
      <3>3. Exists(t.disk, Temporary(op.name)) /\ File(t.disk, Temporary(op.name)) = file
        BY <1>1, <1>5, <2>1, <3>1 DEF Exists, e
      <3> HIDE DEF file
      <3>4. QED
        BY <1>1, <2>1, <3>1, <3>2, <3>3 DEF HeadFits, Writing
    <2>2. CASE next.do = "return"
      BY <1>5, <2>2 DEF HeadFits, Writing, e
    <2>3. QED
      BY <1>1, <2>1, <2>2
  <1>7. \A n \in Values : Exists(e, Temporary(n)) => Exists(disk, Temporary(n))
    BY <1>5 DEF Exists
  <1>8. op.do \in Calls \ {"rename", "unlink"}
    BY <1>1
  <1>9. QED
    BY <1>3, <1>5, <1>6, <1>7, <1>8, CallKeeps

\* The file is replaced.
LEMMA RenameFits ==
    ASSUME StorageConstants, NEW key \in Nat \ {0}, StateFits(storage, key), Works(storage),
           NEW op, op = storage.todo[1], op.do = "rename", NEW e, e = Rename(disk, op.name), NEW t,
           Goes(t, e, <<>>, [storage.promised EXCEPT ![op.name] = @ \cup {Now(e, op.name)}])
    PROVE  StateFits(t, key)
  <1> DEFINE name == op.name
             file == File(disk, Temporary(name))
  <1>1. name \in Values /\ HeadFits(storage, op, key) /\ DiskFits(disk)
    <2>1. op.do \in Calls
      BY DEF Calls
    <2>2. QED
      BY <2>1, CallFits
  <1>2. Exists(disk, Temporary(name)) /\ IsWhole(file) /\ file.sync \in {"done", "failed"}
    BY <1>1 DEF HeadFits, Writing, disk
  <1>3. /\ DiskFits(e) /\ Views(e) = Views(disk) \cup {Current(e)} /\ (SyncsWell(disk) => SyncsWell(e))
        /\ Current(e) = [Current(disk) EXCEPT ![name] = [found |-> TRUE, value |-> file.value]]
        /\ ~Exists(e, Temporary(name)) /\ SameTemporaries(e, disk, name)
    BY <1>1, <1>2, Renamed
  <1>4. \A n \in Values : Exists(e, Temporary(n)) => Exists(disk, Temporary(n))
    BY <1>2, <1>3 DEF SameTemporaries
  <1>5. op.do # "unlink"
    OBVIOUS
  <1>6. QED
    BY <1>3, <1>4, <1>5, CallLinks

\* The file is removed.
LEMMA UnlinkFits ==
    ASSUME StorageConstants, NEW key \in Nat \ {0}, StateFits(storage, key), Works(storage),
           NEW op, op = storage.todo[1], op.do = "unlink", NEW e, e = Unlink(disk, op.name), NEW t,
           Goes(t, e, <<>>, [storage.promised EXCEPT ![op.name] = @ \cup {Now(e, op.name)}])
    PROVE  StateFits(t, key)
  <1> DEFINE name == op.name
  <1>1. name \in Values /\ DiskFits(disk)
    <2>1. op.do \in Calls
      BY DEF Calls
    <2>2. QED
      BY <2>1, CallFits
  <1>2. /\ DiskFits(e) /\ Views(e) = Views(disk) \cup {Current(e)} /\ (SyncsWell(disk) => SyncsWell(e))
        /\ Current(e) = [Current(disk) EXCEPT ![name] = [found |-> FALSE]]
        /\ \A o \in Values : Exists(e, Temporary(o)) <=> Exists(disk, Temporary(o))
    BY <1>1, Unlinked
  <1>3. op.do # "rename"
    OBVIOUS
  <1>4. QED
    BY <1>2, <1>3, CallLinks

LEMMA GoesOnFits ==
    ASSUME DOMAIN storage = Fields, IsPlan(storage.todo), storage.todo # <<>>, NEW d, NEW failures, NEW t,
           t = [[storage EXCEPT !.disk = d, !.todo = Tail(storage.todo)]
                EXCEPT !.failures = failures, !.excused = TRUE]
    PROVE  Goes(t, d, <<>>, storage.promised) /\ t.excused
  <1>1. Tail(storage.todo) = <<>> \o Tail(storage.todo)
    <2>1. PICK S : storage.todo \in Seq(S)
      BY DEF IsPlan
    <2>2. Tail(storage.todo) \in Seq(S)
      BY <2>1, HeadTailProperties
    <2>3. QED
      BY <2>2, ConcatEmptySeq
  <1> DEFINE tail == Tail(storage.todo)
             f == [storage EXCEPT !.disk = d, !.todo = tail]
  <1>2. t = [f EXCEPT !.failures = failures, !.excused = TRUE]
    OBVIOUS
  <1>3. /\ DOMAIN f = Fields /\ f.disk = d /\ f.todo = tail /\ f.promised = storage.promised
        /\ f.script = storage.script /\ f.job = storage.job /\ f.made = storage.made
        /\ f.server = storage.server /\ f.asked = storage.asked /\ f.privileged = storage.privileged
        /\ f.refused = storage.refused
    BY DEF Fields
  <1> HIDE DEF f, tail
  <1>4. /\ DOMAIN t = Fields /\ t.disk = d /\ t.todo = tail /\ t.promised = storage.promised
        /\ t.script = storage.script /\ t.job = storage.job /\ t.made = storage.made
        /\ t.server = storage.server /\ t.asked = storage.asked /\ t.privileged = storage.privileged
        /\ t.refused = storage.refused
    BY <1>2, <1>3 DEF Fields
  <1>5. t.excused = TRUE
    BY <1>2, <1>3 DEF Fields
  <1>6. QED
    BY <1>1, <1>4, <1>5 DEF Goes, tail

LEMMA CallSystemFits ==
    ASSUME StorageConstants, NEW key \in Nat \ {0}, StateFits(storage, key), InodesSuffice, CallSystem
    PROVE  StateFits(storage', key)
  <1> DEFINE op == storage.todo[1]
             t == storage'
  <1>1. /\ Works(storage) /\ op = Head(storage.todo) /\ DOMAIN storage = Fields /\ DiskFits(disk)
        /\ ExcusesFit(storage)
    <2>1. Works(storage) /\ TodoFits(storage, key)
      BY DEF CallSystem, Works, StateFits
    <2>2. op = Head(storage.todo)
      BY <2>1, NextFits
    <2>3. QED
      BY <2>1, <2>2 DEF StateFits, Fields, disk
  <1>2. op.do \in Calls
    BY <1>1 DEF CallSystem
  <1>3. PICK n \in 1 .. (IF op.do = "write" THEN Parts - File(disk, Temporary(op.name)).written ELSE 1) :
            t = LET outcome == Perform(disk, op, n, TRUE, storage.privileged)
                IN IF outcome.failed THEN Fails(outcome.disk)
                   ELSE [storage EXCEPT !.disk = outcome.disk, !.todo = outcome.todo \o Tail(storage.todo),
                                        !.promised = Promises(op, outcome.disk)]
    BY <1>1 DEF CallSystem
  <1> DEFINE outcome == Perform(disk, op, n, TRUE, storage.privileged)
  <1>4. /\ outcome.failed => t = Fails(outcome.disk)
        /\ ~outcome.failed =>
               t = [storage EXCEPT !.disk = outcome.disk, !.todo = outcome.todo \o Tail(storage.todo),
                                   !.promised = Promises(op, outcome.disk)]
    BY <1>3
  <1> HIDE DEF op, outcome, t
  <1>5. ~outcome.failed => Goes(t, outcome.disk, outcome.todo, Promises(op, outcome.disk))
    BY <1>1, <1>4 DEF Goes, Fields
  <1>6. op.do \notin {"rename", "unlink"} => \A e : Promises(op, e) = storage.promised
    BY <1>2 DEF Promises, Calls
  <1>7. op.do \in {"rename", "unlink"} =>
            \A e : Promises(op, e) = [storage.promised EXCEPT ![op.name] = @ \cup {Now(e, op.name)}]
    BY DEF Promises
  <1>8. CASE op.do = "open" /\ MayOpen(disk, op.name, storage.privileged)
    <2>1. outcome.disk = OpenTemporary(CreateDirectory(disk), op.name, op.value) /\ outcome.todo = <<>>
      BY <1>8 DEF outcome, Perform, Outcome
    <2>2. ~outcome.failed
      BY <1>8 DEF outcome, Perform, Outcome
    <2>3. Goes(t, OpenTemporary(CreateDirectory(disk), op.name, op.value), <<>>, storage.promised)
      BY <1>5, <1>6, <1>8, <2>1, <2>2
    <2>4. QED
      BY <1>1, <1>8, <2>3, OpenFits DEF op, t
  <1>9. CASE op.do = "open" /\ ~MayOpen(disk, op.name, storage.privileged)
    <2> DEFINE ready == CreateDirectory(disk)
    <2>1. outcome.disk = ready
      BY <1>9 DEF outcome, Perform, Outcome
    <2>2. outcome.failed
      BY <1>9 DEF outcome, Perform, Outcome
    <2>3. SameContents(ready, disk)
      <3>1. ready = [disk EXCEPT !.root = IF disk.root = "absent" THEN "new" ELSE disk.root]
        BY DEF CreateDirectory
      <3>2. QED
        BY <1>1, <3>1, RootChanged
    <2>4. storage.excused
      <3>1. ~storage.privileged /\ Exists(disk, Temporary(op.name)) /\ op.name \in Values /\ op.do \notin Writing
        BY <1>1, <1>2, <1>9, CallFits DEF MayOpen, Writing, op
      <3>2. QED
        BY <1>1, <3>1 DEF ExcusesFit, disk, op
    <2> HIDE DEF ready
    <2>5. t = Fails(ready)
      BY <1>4, <2>1, <2>2
    <2>6. QED
      BY <2>3, <2>4, <2>5, FailsFits DEF t, FailsWith
  <1>10. CASE op.do = "write"
    <2> DEFINE e == WriteTemporary(disk, op.name, n)
               r == IF IsWhole(File(e, Temporary(op.name))) THEN <<>> ELSE <<op>>
    <2>1. outcome.disk = e /\ outcome.todo = r
      BY <1>10 DEF outcome, Perform, Outcome
    <2>2. ~outcome.failed
      BY <1>10 DEF outcome, Perform, Outcome
    <2>3. n \in 1 .. (Parts - File(disk, Temporary(op.name)).written)
      BY <1>10
    <2> HIDE DEF e, r
    <2>4. Goes(t, e, r, storage.promised)
      BY <1>5, <1>6, <1>10, <2>1, <2>2
    <2>5. QED
      BY <1>1, <1>10, <2>3, <2>4, WriteFits DEF e, r, op, t
  <1>11. CASE op.do = "sync"
    <2>1. outcome.disk = SyncTemporary(disk, op.name, TRUE) /\ outcome.todo = <<>>
      BY <1>11 DEF outcome, Perform, Outcome
    <2>2. ~outcome.failed
      BY <1>11 DEF outcome, Perform, Outcome
    <2>3. Goes(t, SyncTemporary(disk, op.name, TRUE), <<>>, storage.promised)
      BY <1>5, <1>6, <1>11, <2>1, <2>2
    <2>4. QED
      BY <1>1, <1>11, <2>3, SyncFits DEF op, t
  <1>12. CASE op.do \in {"sync directory", "sync renamed", "sync unlinked"}
    <2>1. outcome.disk = SyncDirectory(disk) /\ outcome.todo = <<>>
      BY <1>12 DEF outcome, Perform, Outcome
    <2>2. ~outcome.failed
      BY <1>12 DEF outcome, Perform, Outcome
    <2>3. Goes(t, SyncDirectory(disk), <<>>, storage.promised)
      BY <1>5, <1>6, <1>12, <2>1, <2>2
    <2>4. QED
      BY <1>1, <1>12, <2>3, SyncDirectoryFits DEF op, t
  <1>13. CASE op.do = "rename"
    <2>1. outcome.disk = Rename(disk, op.name) /\ outcome.todo = <<>>
      BY <1>13 DEF outcome, Perform, Outcome
    <2>2. ~outcome.failed
      BY <1>13 DEF outcome, Perform, Outcome
    <2>3. Goes(t, Rename(disk, op.name), <<>>, [storage.promised EXCEPT ![op.name] = @ \cup {Now(Rename(disk, op.name), op.name)}])
      BY <1>5, <1>7, <1>13, <2>1, <2>2
    <2>4. QED
      BY <1>1, <1>13, <2>3, RenameFits DEF op, t
  <1>14. CASE op.do = "unlink"
    <2>1. outcome.disk = Unlink(disk, op.name) /\ outcome.todo = <<>>
      BY <1>14 DEF outcome, Perform, Outcome
    <2>2. ~outcome.failed
      BY <1>14 DEF outcome, Perform, Outcome
    <2>3. Goes(t, Unlink(disk, op.name), <<>>, [storage.promised EXCEPT ![op.name] = @ \cup {Now(Unlink(disk, op.name), op.name)}])
      BY <1>5, <1>7, <1>14, <2>1, <2>2
    <2>4. QED
      BY <1>1, <1>14, <2>3, UnlinkFits DEF op, t
  <1>15. QED
    BY <1>2, <1>8, <1>9, <1>10, <1>11, <1>12, <1>13, <1>14 DEF Calls

\* The system fails to do what it is asked for.
LEMMA CallFailsFits ==
    ASSUME StorageConstants, NEW key \in Nat \ {0}, StateFits(storage, key), CallFails
    PROVE  StateFits(storage', key)
  <1> DEFINE op == storage.todo[1]
             t == storage'
             outcome == Perform(disk, op, 1, FALSE, storage.privileged)
  <1>1. /\ Works(storage) /\ op = Head(storage.todo) /\ DOMAIN storage = Fields /\ DiskFits(disk)
        /\ IsPlan(storage.todo) /\ storage.todo # <<>>
    <2>1. Works(storage) /\ TodoFits(storage, key)
      BY DEF CallFails, Works, StateFits
    <2>2. op = Head(storage.todo)
      BY <2>1, NextFits
    <2>3. QED
      BY <2>1, <2>2 DEF StateFits, Fields, disk, TodoFits, Works
  <1>2. op.do \in Calls
    BY <1>1 DEF CallFails
  <1> DEFINE goes == [storage EXCEPT !.disk = outcome.disk, !.todo = Tail(storage.todo)]
  <1>3. /\ outcome.failed =>
               t = [Fails(outcome.disk) EXCEPT !.failures = Fails(outcome.disk).failures - 1, !.excused = TRUE]
        /\ ~outcome.failed => t = [goes EXCEPT !.failures = goes.failures - 1, !.excused = TRUE]
    <2>1. t = [(IF outcome.failed THEN Fails(outcome.disk) ELSE goes)
               EXCEPT !.failures = @ - 1, !.excused = TRUE]
      BY <1>1 DEF CallFails
    <2> HIDE DEF outcome, goes
    <2>2. QED
      BY <2>1
  <1> HIDE DEF outcome, op, t
  <1>4. ASSUME ~outcome.failed
        PROVE  Goes(t, outcome.disk, <<>>, storage.promised) /\ t.excused
    <2>1. t = [goes EXCEPT !.failures = goes.failures - 1, !.excused = TRUE]
      BY <1>3, <1>4
    <2>2. QED
      BY <1>1, <2>1, GoesOnFits
  <1>5. ASSUME outcome.failed, SameContents(outcome.disk, disk)
        PROVE  StateFits(t, key)
    <2> DEFINE failures == Fails(outcome.disk).failures - 1
               excused == TRUE
    <2>1. t = [Fails(outcome.disk) EXCEPT !.failures = failures, !.excused = excused] /\ excused = TRUE
      BY <1>3, <1>5
    <2> HIDE DEF failures, excused
    <2>2. QED
      BY <1>5, <2>1, FailsFits DEF t, FailsWith
  <1>6. SameContents(disk, disk)
    BY <1>1 DEF SameContents
  <1>7. CASE op.do = "open"
    <2> DEFINE ready == CreateDirectory(disk)
    <2>1. outcome.disk = ready
      BY <1>7 DEF outcome, Perform, Outcome
    <2>2. outcome.failed
      BY <1>7 DEF outcome, Perform, Outcome
    <2>3. SameContents(ready, disk)
      <3>1. ready = [disk EXCEPT !.root = IF disk.root = "absent" THEN "new" ELSE disk.root]
        BY DEF CreateDirectory
      <3>2. QED
        BY <1>1, <3>1, RootChanged
    <2>4. QED
      BY <1>5, <2>1, <2>2, <2>3 DEF t
  <1>8. CASE op.do \in {"write", "sync directory", "sync renamed", "rename", "unlink"}
    <2>1. outcome.disk = disk
      BY <1>8 DEF outcome, Perform, Outcome
    <2>2. outcome.failed
      BY <1>8 DEF outcome, Perform, Outcome
    <2>3. QED
      BY <1>5, <1>6, <2>1, <2>2 DEF t
  <1>9. CASE op.do = "sync"
    <2>1. outcome.disk = SyncTemporary(disk, op.name, FALSE)
      BY <1>9 DEF outcome, Perform, Outcome
    <2>2. ~outcome.failed
      BY <1>9 DEF outcome, Perform, Outcome
    <2>3. Goes(t, SyncTemporary(disk, op.name, FALSE), <<>>, storage.promised) /\ t.excused
      BY <1>4, <2>1, <2>2
    <2>4. QED
      BY <1>1, <1>9, <2>3, SyncFits DEF op, t
  <1>10. CASE op.do = "sync unlinked"
    <2>1. outcome.disk = disk
      BY <1>10 DEF outcome, Perform, Outcome
    <2>2. ~outcome.failed
      BY <1>10 DEF outcome, Perform, Outcome
    <2>3. Goes(t, disk, <<>>, storage.promised) /\ t.excused
      BY <1>4, <2>1, <2>2
    <2>4. QED
      BY <1>1, <1>10, <2>3, SyncDirectoryFits DEF op, t
  <1>11. QED
    BY <1>2, <1>7, <1>8, <1>9, <1>10 DEF Calls

-----------------------------------------------------------------------------
(* An operation is replaced by those it consists of *)

\* The first operation, which is not a call, is replaced by r.
Moves(t, r, server) ==
    LET op == storage.todo[1]
    IN /\ DOMAIN t = Fields /\ t.disk = storage.disk /\ t.todo = r \o Tail(storage.todo) /\ t.server = server
       /\ t.made = IF op.do \in {"make LTSK", "device ID"} THEN storage.made + Len(r) ELSE storage.made
       /\ t.promised = Promises(op, disk) /\ t.asked = Asked(op)
       /\ t.job = storage.job /\ t.script = storage.script /\ t.privileged = storage.privileged
       /\ t.excused = storage.excused /\ t.refused = storage.refused

\* What it was going to write or to remove, r is.
Replaces(op, r) ==
    /\ op.do = "set" => r # <<>> /\ r[1].do = "open" /\ r[1].name = op.name
    /\ \A n \in Values : Exists(disk, n) =>
           /\ WillRemove(op, n) => \E o \in ToSet(r) : WillRemove(o, n)
           /\ Removes(op, n) => \E o \in ToSet(r) : Removes(o, n)
    /\ \A o \in ToSet(r) : o.do \notin {"start", "load LTSK", "make LTSK"}

KeepsServer(op) == op.do \notin {"start", "load LTSK", "make LTSK", "run", "stop"}

\* What is known of an operation that is not a call.
LEMMA OperationFits ==
    ASSUME NEW key, StateFits(storage, key), Works(storage), storage.todo[1].do \notin Calls
    PROVE  LET op == storage.todo[1]
               next == storage.todo[2]
           IN /\ op = Head(storage.todo) /\ OpFits(storage, op, key) /\ HeadFits(storage, op, key)
              /\ ToSet(storage.todo) = {op} \cup Rest(storage.todo) /\ Len(storage.todo) \in Nat \ {0}
              /\ \A o \in Rest(storage.todo) : OpFits(storage, o, key)
              /\ Len(storage.todo) > 1 =>
                     /\ Follows(op, next) /\ next \in Rest(storage.todo)
                     /\ next.do \notin Calls \cup {"return", "set"}
              /\ op.do \in Jobs \cup {"start", "run"} => Len(storage.todo) = 1 /\ Rest(storage.todo) = {}
              /\ Len(storage.todo) = 1 /\ storage.job = "start" => op.do \in {"start", "run"}
              /\ DiskFits(disk) /\ DOMAIN storage = Fields /\ DOMAIN storage.promised = Values
  <1> DEFINE op == storage.todo[1]
             next == storage.todo[2]
  <1>1. /\ DiskFits(disk) /\ DOMAIN storage = Fields /\ DOMAIN storage.promised = Values
        /\ TodoFits(storage, key)
    BY DEF StateFits, Fields, disk
  <1>2. /\ op = Head(storage.todo) /\ OpFits(storage, op, key) /\ HeadFits(storage, op, key)
        /\ ToSet(storage.todo) = {op} \cup Rest(storage.todo) /\ Len(storage.todo) \in Nat \ {0}
        /\ \A o \in Rest(storage.todo) : OpFits(storage, o, key)
        /\ Len(storage.todo) > 1 => Follows(op, next) /\ next \in Rest(storage.todo)
        /\ op.do \in Jobs \cup {"start", "run"} => Len(storage.todo) = 1 /\ Rest(storage.todo) = {}
        /\ Len(storage.todo) = 1 /\ storage.job = "start" => op.do \in {"start", "run"}
    BY <1>1, NextFits
  <1> HIDE DEF op, next
  <1>3. Follows(op, next) => next.do \notin Calls \cup {"return", "set"}
    <2>1. op.do \notin Calls
      BY DEF op
    <2>2. Follows(op, next) => next.do # "set"
      BY DEF Follows
    <2>3. Follows(op, next) /\ next.do \in Calls \cup {"return"} => op.do \in Before(next.do)
      BY DEF Follows
    <2>4. Follows(op, next) => next.do \notin {"open", "unlink"}
      BY DEF Follows
    <2>5. \A do \in (Calls \cup {"return"}) \ {"open", "unlink"} : Before(do) \subseteq Calls
      BY DEF Before, Calls
    <2>6. QED
      BY <2>1, <2>2, <2>3, <2>4, <2>5
  <1>4. QED
    BY <1>1, <1>2, <1>3 DEF op, next

\* No earlier content may come back once the store returns.
LEMMA PromisesFit ==
    ASSUME NEW key, StateFits(storage, key), Works(storage), storage.todo[1].do \notin Calls
    PROVE  /\ DOMAIN Promises(storage.todo[1], disk) = Values
           /\ \A v \in Views(disk), n \in Values : v[n] \in Promises(storage.todo[1], disk)[n]
  <1> DEFINE op == storage.todo[1]
             promised == Promises(op, disk)
  <1>1. /\ DOMAIN storage.promised = Values /\ HeadFits(storage, op, key)
        /\ \A v \in Views(disk), n \in Values : v[n] \in storage.promised[n]
    BY OperationFits DEF StateFits, ContentsFit, disk
  <1>2. op.do \notin {"rename", "unlink"}
    BY DEF Calls
  <1> HIDE DEF op
  <1>3. CASE op.do = "return" /\ ~storage.excused
    <2>1. promised = [storage.promised EXCEPT ![op.name] = {Now(disk, op.name)}]
      BY <1>3 DEF Promises
    <2>2. Views(disk) = {Current(disk)}
      BY <1>1, <1>3 DEF HeadFits, Views, Current, Directories, disk
    <2>3. \A n \in Values : Current(disk)[n] = Now(disk, n)
      BY CurrentFits
    <2> HIDE DEF promised
    <2>4. DOMAIN promised = Values
      BY <1>1, <2>1
    <2>5. ASSUME NEW v \in Views(disk), NEW n \in Values PROVE v[n] \in promised[n]
      <3>1. v[n] = Now(disk, n) /\ v[n] \in storage.promised[n]
        BY <1>1, <2>2, <2>3
      <3>2. QED
        BY <1>1, <2>1, <3>1
    <2>6. QED
      BY <2>4, <2>5 DEF promised, op
  <1>4. CASE ~(op.do = "return" /\ ~storage.excused)
    <2>1. promised = storage.promised
      BY <1>2, <1>4 DEF Promises
    <2>2. QED
      BY <1>1, <2>1 DEF op
  <1>5. QED
    BY <1>3, <1>4

\* The operation has been replaced.
LEMMA MovesFit ==
    ASSUME NEW key, StateFits(storage, key), Works(storage), storage.todo[1].do \notin Calls,
           NEW t, NEW r, NEW server, Moves(t, r, server), Continues(storage, t, r, key),
           ServerFits(t), AskedFits(t)
    PROVE  StateFits(t, key)
  <1> DEFINE op == storage.todo[1]
  <1>1. /\ storage.made \in Nat /\ DOMAIN storage = Fields /\ DiskFits(storage.disk) /\ ExcusesFit(storage)
        /\ TodoFits(storage, key) /\ ContentsFit(storage, key)
    BY DEF StateFits, Fields
  <1>2. Len(r) \in Nat
    <2>1. IsPlan(r)
      BY DEF Continues
    <2>2. QED
      BY <2>1, LenProperties DEF IsPlan
  <1>3. TodoFits(t, key)
    BY <1>1, TodoContinues
  <1>4. ExcusesFit(t)
    <2>1. op.do \notin Writing
      BY DEF Writing, Calls
    <2>2. QED
      BY <1>1, <2>1 DEF ExcusesFit, Moves
  <1>5. /\ DOMAIN t.promised = Values
        /\ \A v \in Views(t.disk) : /\ ViewFits(v) /\ (Importing(storage) => IsImported(v, key))
                                    /\ \A n \in Values : v[n] \in t.promised[n]
    BY <1>1, PromisesFit DEF Moves, ContentsFit, disk
  <1>6. t.made \in Nat /\ t.script = storage.script /\ t.job = storage.job /\ DOMAIN t = DOMAIN storage
    <2>1. t.script = storage.script /\ t.job = storage.job /\ DOMAIN t = DOMAIN storage
      BY <1>1 DEF Moves
    <2>2. t.made = storage.made + Len(r) \/ t.made = storage.made
      BY DEF Moves
    <2>3. QED
      BY <1>1, <1>2, <2>1, <2>2
  <1>7. DiskFits(t.disk)
    BY <1>1 DEF Moves
  <1>8. QED
    BY <1>3, <1>4, <1>5, <1>6, <1>7, ProceedFits

\* Operations that do not change the server, or what has been asked for.
LEMMA ServerKept ==
    ASSUME NEW key, StateFits(storage, key), Works(storage),
           storage.todo[1].do \notin Calls,
           KeepsServer(storage.todo[1]),
           NEW t, NEW r, NEW server, Moves(t, r, server), server = storage.server, Continues(storage, t, r, key),
           Replaces(storage.todo[1], r)
    PROVE  ServerFits(t)
  <1> DEFINE op == storage.todo[1]
  <1>0. TodoFits(storage, key) /\ Works(storage) /\ Continues(storage, t, r, key)
    BY DEF StateFits
  <1>1. ServerFits(storage)
    BY DEF StateFits
  <1>2. /\ ToSet(storage.todo) = {op} \cup Rest(storage.todo)
        /\ Len(storage.todo) \in Nat \ {0}
        /\ Len(storage.todo) = 1 /\ storage.job = "start" => op.do \in {"start", "run"}
    BY OperationFits
  <1>3. Works(t) <=> (r # <<>> \/ Len(storage.todo) > 1)
    BY <1>0, TodoContinues
  <1>4. ToSet(t.todo) = ToSet(r) \cup Rest(storage.todo)
    BY <1>0, TodoContinues
  <1>5. r # <<>> => t.todo[1] = r[1]
    BY <1>0, TodoContinues
  <1>6. t.server = storage.server /\ t.disk = storage.disk /\ t.job = storage.job
    BY DEF Moves
  <1>7. storage.job = "start" => Works(t)
    <2>1. op.do \notin {"start", "run"}
      BY DEF KeepsServer
    <2>2. Len(storage.todo) = 1 \/ Len(storage.todo) > 1
      <3>1. ASSUME NEW n \in Nat \ {0} PROVE n = 1 \/ n > 1
        OBVIOUS
      <3>2. QED
        BY <1>2, <3>1, Zenon
    <2>3. ~(Len(storage.todo) = 1 /\ storage.job = "start")
      BY <1>2, <2>1, Zenon
    <2>4. QED
      BY <1>3, <2>2, <2>3, Zenon
  <1>8. Writes(storage, LTSK) => Writes(t, LTSK)
    <2>1. op.do \in Writing \cup {"set", "open"} => op.do = "set"
      BY DEF Writing, Calls
    <2>2. QED
      BY <1>3, <1>5, <2>1 DEF Writes, Replaces
  <1>9. ASSUME NEW S, S \subseteq {"start", "load LTSK", "make LTSK"}
        PROVE  Has(t, S) <=> Has(storage, S)
    BY <1>2, <1>4, <1>9 DEF Has, Replaces, KeepsServer
  <1>10. ASSUME Has(t, {"make LTSK"}), NEW k \in 1 .. MaxPairings, Current(t.disk)[Pairing(k)].found
         PROVE  \E o \in ToSet(t.todo) : WillRemove(o, Pairing(k))
    <2>1. PICK o \in ToSet(storage.todo) : WillRemove(o, Pairing(k))
      BY <1>1, <1>6, <1>9, <1>10 DEF ServerFits
    <2>2. Exists(disk, Pairing(k)) /\ Pairing(k) \in Values
      BY <1>6, <1>10, CurrentFits, KeysFit DEF disk
    <2>3. QED
      BY <1>2, <1>4, <2>1, <2>2 DEF Replaces
  <1>11. Has(t, {"start", "load LTSK", "make LTSK"}) <=> Has(storage, {"start", "load LTSK", "make LTSK"})
    BY <1>9
  <1> HIDE DEF op
  <1>12. /\ DOMAIN t.server = {"running", "ltsk"} /\ t.server.running \in BOOLEAN
         /\ t.server.ltsk # 0 => t.server.running \/ t.job = "start"
         /\ t.server.running => t.server.ltsk # 0
         /\ (t.job \in OfServer <=> t.server.running) \/ t.job = "start"
         /\ t.job = "start" => /\ t.server.ltsk = 0 <=> Has(storage, {"start", "load LTSK", "make LTSK"})
                               /\ ~t.server.running
    <2>1. Works(storage)
      OBVIOUS
    <2>2. QED
      BY <1>1, <1>6, <2>1 DEF ServerFits
  <1>13. t.server.ltsk # 0 =>
             \/ Current(t.disk)[LTSK].found /\ Current(t.disk)[LTSK].value[1] = t.server.ltsk
             \/ t.job = "start" /\ Writes(t, LTSK)
    BY <1>1, <1>6, <1>8 DEF ServerFits
  <1>14. QED
    BY <1>6, <1>7, <1>10, <1>11, <1>12, <1>13 DEF ServerFits

LEMMA AskedKept ==
    ASSUME NEW key, StateFits(storage, key), Works(storage), storage.todo[1].do \notin Calls,
           NEW t, NEW r, NEW server, Moves(t, r, server), Continues(storage, t, r, key),
           Replaces(storage.todo[1], r), t.asked = storage.asked
    PROVE  AskedFits(t)
  <1> DEFINE op == storage.todo[1]
  <1>0. TodoFits(storage, key) /\ Works(storage) /\ Continues(storage, t, r, key)
    BY DEF StateFits
  <1>1. AskedFits(storage)
    BY DEF StateFits
  <1>2. /\ ToSet(storage.todo) = {op} \cup Rest(storage.todo) /\ OpFits(storage, op, key)
    BY OperationFits
  <1>3. Works(t) <=> (r # <<>> \/ Len(storage.todo) > 1)
    BY <1>0, TodoContinues
  <1>4. ToSet(t.todo) = ToSet(r) \cup Rest(storage.todo)
    BY <1>0, TodoContinues
  <1>5. r # <<>> => t.todo[1] = r[1]
    BY <1>0, TodoContinues
  <1>6. t.disk = storage.disk
    BY DEF Moves
  <1>7. Writes(storage, Broadcasts) => Writes(t, Broadcasts)
    <2>1. op.do \in Writing \cup {"set", "open"} => op.do = "set"
      BY DEF Writing, Calls
    <2>2. QED
      BY <1>3, <1>5, <2>1 DEF Writes, Replaces
  <1>8. CASE \E o \in ToSet(storage.todo) : Removes(o, Broadcasts)
    <2>1. PICK o \in ToSet(storage.todo) : Removes(o, Broadcasts)
      BY <1>8
    <2>2. CASE o \in Rest(storage.todo)
      BY <1>4, <2>1, <2>2 DEF AskedFits
    <2>3. CASE o = op /\ Exists(disk, Broadcasts)
      BY <1>4, <2>1, <2>3, KeysFit DEF Replaces, AskedFits
    <2>4. CASE o = op /\ ~Exists(disk, Broadcasts)
      <3>1. storage.asked = {} /\ ConfigurationOf(Current(disk)) = <<>>
        BY <1>2, <2>1, <2>4, CurrentFits DEF OpFits
      <3>2. QED
        BY <1>6, <3>1, NothingLeft DEF AskedFits, disk
    <2>5. QED
      BY <1>2, <2>1, <2>2, <2>3, <2>4
  <1>9. CASE ~\E o \in ToSet(storage.todo) : Removes(o, Broadcasts)
    BY <1>1, <1>6, <1>7, <1>9 DEF AskedFits
  <1>10. QED
    BY <1>8, <1>9

\* Operations that another one is never replaced by a part of.
LastOnes == {"return", "enumerate", "remove", "set", "purge"}

MayBeLast(o) == o.do \in LastOnes \/ (storage.todo[1].do = "load LTSK" /\ o.do = "make LTSK")

\* r is what the first operation consists of.
StandsFor(t, r, key) ==
    /\ IsPlan(r) /\ \A o \in ToSet(r) : OpFits(t, o, key)
    /\ \A i \in 1 .. Len(r) : i < Len(r) => Follows(r[i], r[i + 1])
    /\ r # <<>> =>
           /\ HeadFits(t, r[1], key)
           /\ MayBeLast(r[Len(r)])

\* Those that are left have not been asked for less.
AsksAlike(t) == t.asked = {} \/ t.asked = storage.asked \/ Rest(storage.todo) = {}

LEMMA MovesContinue ==
    ASSUME NEW key, StateFits(storage, key), Works(storage), storage.todo[1].do \notin Calls,
           NEW t, NEW r, NEW server, Moves(t, r, server), StandsFor(t, r, key), AsksAlike(t),
           r = <<>> \/ (storage.todo[1].do # "start" /\ storage.todo[1].do # "run")
    PROVE  Continues(storage, t, r, key)
  <1> DEFINE op == storage.todo[1]
             next == storage.todo[2]
             last == r[Len(r)]
  <1>1. /\ \A o \in Rest(storage.todo) : OpFits(storage, o, key)
        /\ Len(storage.todo) > 1 => Follows(op, next) /\ next.do \notin Calls \cup {"return", "set"}
        /\ Len(storage.todo) = 1 /\ storage.job = "start" => op.do \in {"start", "run"}
    BY OperationFits
  <1>2. IsPlan(r) /\ t.todo = r \o Tail(storage.todo) /\ t.job = storage.job
    BY DEF Moves, StandsFor
  <1>3. \A o \in Rest(storage.todo) : Removes(o, Broadcasts) => t.asked = {}
    BY <1>1 DEF AsksAlike, OpFits
  <1> HIDE DEF op, next, last
  <1>4. r # <<>> => last.do \in LastOnes \/ (op.do = "load LTSK" /\ last.do = "make LTSK")
    BY DEF StandsFor, MayBeLast, op, last
  <1>5. Follows(op, next) /\ r # <<>> => Follows(last, next)
    <2>1. op.do \notin Calls
      BY DEF op
    <2>2. SUFFICES ASSUME Follows(op, next), r # <<>> PROVE Follows(last, next)
      OBVIOUS
    <2>3. next.do \notin Calls \cup {"return"}
      <3>1. next.do \in Calls \cup {"return"} => op.do \in Before(next.do)
        BY <2>2 DEF Follows
      <3>2. next.do \notin {"open", "unlink"}
        BY <2>2 DEF Follows
      <3>3. \A do \in (Calls \cup {"return"}) \ {"open", "unlink"} : Before(do) \subseteq Calls
        BY DEF Before, Calls
      <3>4. QED
        BY <2>1, <3>1, <3>2, <3>3
    <2>4. next.do \notin {"set", "open", "unlink"} \cup Jobs \cup {"start", "load LTSK"}
      BY <2>2 DEF Follows
    <2>5. /\ last.do \notin Jobs \cup {"start", "run"} /\ last.do \notin Calls
          /\ last.do \notin {"load LTSK", "cleanup", "increment CN", "device ID", "CN"}
      BY <1>4, <2>2 DEF Jobs, Imports, Calls, LastOnes
    <2>6. last.do = "make LTSK" => next.do = "cleanup"
      BY <1>4, <2>2 DEF LastOnes, Follows
    <2>7. QED
      BY <2>3, <2>4, <2>5, <2>6 DEF Follows
  <1>6. r # <<>> => last.do \notin Calls
    BY <1>4 DEF LastOnes, Calls
  <1>7. r # <<>> => op.do \notin {"start", "run"}
    BY DEF op
  <1>8. HeadFits(t, next, key) \/ ~(Len(storage.todo) > 1)
    <2>1. Len(storage.todo) > 1 => next.do \notin {"set", "open", "return"} \cup Writing
      BY <1>1 DEF Calls, Writing
    <2>2. QED
      BY <2>1 DEF HeadFits
  <1>9. /\ \A o \in ToSet(r) : OpFits(t, o, key)
        /\ \A i \in 1 .. Len(r) : i < Len(r) => Follows(r[i], r[i + 1])
        /\ r # <<>> => HeadFits(t, r[1], key)
    BY DEF StandsFor
  <1>10. /\ r # <<>> /\ Len(storage.todo) > 1 => Follows(last, next)
         /\ r # <<>> /\ Len(storage.todo) = 1 =>
                last.do \notin Calls /\ (storage.job = "start" => last.do \in {"start", "run"})
         /\ r = <<>> /\ Len(storage.todo) > 1 => HeadFits(t, next, key)
    BY <1>1, <1>5, <1>6, <1>7, <1>8
  <1>11. QED
    BY <1>2, <1>3, <1>9, <1>10 DEF Continues, next, last

LEMMA NothingStands ==
    ASSUME NEW t, NEW key
    PROVE  StandsFor(t, <<>>, key)
  <1>1. \A i \in 1 .. Len(<<>>) : FALSE
    BY NothingLeft
  <1>2. IsPlan(<<>>) /\ ToSet(<<>>) = {}
    BY NothingLeft
  <1>3. QED
    BY <1>1, <1>2 DEF StandsFor

LEMMA OneStands ==
    ASSUME NEW t, NEW key, NEW o, OpFits(t, o, key), HeadFits(t, o, key), MayBeLast(o)
    PROVE  StandsFor(t, <<o>>, key)
  <1> DEFINE r == <<o>>
  <1>1. IsPlan(r) /\ Len(r) = 1 /\ r[1] = o /\ ToSet(r) = {o} /\ r[Len(r)] = o
    BY OneLeft
  <1> HIDE DEF r
  <1>2. \A i \in 1 .. Len(r) : ~(i < Len(r))
    BY <1>1
  <1>3. QED
    <2>1. StandsFor(t, r, key)
      BY <1>1, <1>2 DEF StandsFor
    <2>2. QED
      BY <2>1 DEF r

LEMMA TwoStand ==
    ASSUME NEW t, NEW key, NEW o, NEW p, OpFits(t, o, key), OpFits(t, p, key), HeadFits(t, o, key), Follows(o, p),
           MayBeLast(p)
    PROVE  StandsFor(t, <<o, p>>, key)
  <1> DEFINE r == <<o, p>>
  <1>1. IsPlan(r) /\ Len(r) = 2 /\ r[1] = o /\ r[2] = p /\ ToSet(r) = {o, p} /\ r[Len(r)] = p
    BY TwoLeft
  <1> HIDE DEF r
  <1>2. \A i \in 1 .. Len(r) : i < Len(r) => i = 1
    BY <1>1
  <1>3. \A i \in 1 .. Len(r) : i < Len(r) => Follows(r[i], r[i + 1])
    BY <1>1, <1>2
  <1>4. QED
    <2>1. StandsFor(t, r, key)
      BY <1>1, <1>3 DEF StandsFor
    <2>2. QED
      BY <2>1 DEF r

LEMMA ThreeStand ==
    ASSUME NEW t, NEW key, NEW o, NEW p, NEW q, OpFits(t, o, key), OpFits(t, p, key), OpFits(t, q, key),
           HeadFits(t, o, key), Follows(o, p), Follows(p, q), MayBeLast(q)
    PROVE  StandsFor(t, <<o, p, q>>, key)
  <1> DEFINE r == <<o, p, q>>
  <1>1. IsPlan(r) /\ Len(r) = 3 /\ r[1] = o /\ r[2] = p /\ r[3] = q /\ ToSet(r) = {o, p, q} /\ r[Len(r)] = q
    BY ThreeLeft
  <1> HIDE DEF r
  <1>2. \A i \in 1 .. Len(r) : i < Len(r) => i = 1 \/ i = 2
    BY <1>1
  <1>3. \A i \in 1 .. Len(r) : i < Len(r) => Follows(r[i], r[i + 1])
    BY <1>1, <1>2
  <1>4. QED
    <2>1. StandsFor(t, r, key)
      BY <1>1, <1>3 DEF StandsFor
    <2>2. QED
      BY <2>1 DEF r

\* An operation that is none of the server's, and that nothing else is asked for by.
Ordinary(t, r, server, key) ==
    /\ storage.todo[1].do \notin Calls /\ KeepsServer(storage.todo[1])
    /\ Moves(t, r, server) /\ server = storage.server /\ StandsFor(t, r, key) /\ Replaces(storage.todo[1], r)

LEMMA OrdinaryServer ==
    ASSUME NEW key, StateFits(storage, key), Works(storage), NEW t, NEW r, NEW server,
           Ordinary(t, r, server, key), AsksAlike(t)
    PROVE  ServerFits(t) /\ Continues(storage, t, r, key)
  <1>1. /\ storage.todo[1].do \notin Calls /\ KeepsServer(storage.todo[1]) /\ Moves(t, r, server)
        /\ server = storage.server /\ StandsFor(t, r, key) /\ Replaces(storage.todo[1], r)
    BY DEF Ordinary
  <1>2. storage.todo[1].do # "start" /\ storage.todo[1].do # "run"
    BY <1>1 DEF KeepsServer
  <1>3. Continues(storage, t, r, key)
    BY <1>1, <1>2, MovesContinue
  <1>4. ServerFits(t)
    BY <1>1, <1>3, ServerKept
  <1>5. QED
    BY <1>3, <1>4

LEMMA OrdinaryFits ==
    ASSUME NEW key, StateFits(storage, key), Works(storage), NEW t, NEW r, NEW server,
           Ordinary(t, r, server, key), t.asked = storage.asked
    PROVE  StateFits(t, key)
  <1>1. /\ storage.todo[1].do \notin Calls /\ Moves(t, r, server) /\ Replaces(storage.todo[1], r)
    BY DEF Ordinary
  <1>2. AsksAlike(t)
    BY DEF AsksAlike
  <1>3. Continues(storage, t, r, key)
    BY <1>2, OrdinaryServer
  <1>4. ServerFits(t)
    BY <1>2, OrdinaryServer
  <1>5. AskedFits(t)
    BY <1>1, <1>3, AskedKept
  <1>6. QED
    BY <1>1, <1>3, <1>4, <1>5, MovesFit

\* What the operations become.
LEMMA ComputeMoves ==
    ASSUME NEW key, StateFits(storage, key), Compute
    PROVE  /\ Works(storage) /\ storage.todo[1].do \notin Calls
           /\ \E result \in Consists(storage.todo[1]) :
                  \/ result.error /\ storage' = Fails(disk)
                  \/ ~result.error /\ Moves(storage', result.todo, result.server)
  <1> DEFINE op == storage.todo[1]
             Next1(result) == [storage EXCEPT !.todo = result.todo \o Tail(@),
                                              !.server = result.server,
                                              !.made = IF op.do \in {"make LTSK", "device ID"} THEN @ + Len(result.todo) ELSE @,
                                              !.promised = Promises(op, disk),
                                              !.asked = Asked(op)]
  <1>1. Works(storage)
    BY DEF Compute, Works
  <1>2. op = Head(storage.todo) /\ DOMAIN storage = Fields
    <2>1. TodoFits(storage, key)
      BY DEF StateFits
    <2>2. op = Head(storage.todo)
      BY <1>1, <2>1, NextFits
    <2>3. QED
      BY <2>2 DEF StateFits, Fields
  <1>3. op.do \notin Calls /\ \E result \in Consists(op) : storage' = IF result.error THEN Fails(disk) ELSE Next1(result)
    BY <1>2, Zenon DEF Compute
  <1>4. PICK result \in Consists(op) : storage' = IF result.error THEN Fails(disk) ELSE Next1(result)
    BY <1>3
  <1>5. CASE result.error
    BY <1>1, <1>3, <1>4, <1>5
  <1>6. CASE ~result.error
    <2> DEFINE t == Next1(result)
               made == IF op.do \in {"make LTSK", "device ID"} THEN storage.made + Len(result.todo) ELSE storage.made
               promised == Promises(op, disk)
               asked == Asked(op)
    <2>1. storage' = t
      BY <1>4, <1>6
    <2> HIDE DEF op
    <2>2. /\ DOMAIN t = Fields /\ t.disk = storage.disk /\ t.todo = result.todo \o Tail(storage.todo)
          /\ t.server = result.server /\ t.made = made
          /\ t.job = storage.job /\ t.script = storage.script /\ t.privileged = storage.privileged
      BY <1>2 DEF Fields
    <2>3. /\ t.promised = promised /\ t.asked = asked
          /\ t.excused = storage.excused /\ t.refused = storage.refused
      BY <1>2 DEF Fields
    <2> HIDE DEF t
    <2>4. Moves(storage', result.todo, result.server)
      BY <2>1, <2>2, <2>3 DEF Moves, op
    <2>5. QED
      BY <1>1, <1>3, <1>4, <1>6, <2>4 DEF op
  <1>7. QED
    BY <1>5, <1>6

LEMMA Results ==
    ASSUME NEW r
    PROVE  ~More(r).error /\ More(r).todo = r /\ More(r).server = storage.server /\ Error.error
  <1>1. ~More(r).error
    BY DEF More
  <1>2. More(r).todo = r /\ More(r).server = storage.server
    BY DEF More
  <1>3. Error.error
    BY DEF Error
  <1>4. QED
    BY <1>1, <1>2, <1>3

-----------------------------------------------------------------------------
(* set, remove and purge *)

LEMMA SevenLeft ==
    ASSUME NEW a, NEW b, NEW c, NEW d, NEW e, NEW f, NEW g
    PROVE  LET r == <<a, b, c, d, e, f>> \o <<g>>
           IN /\ IsPlan(r) /\ Len(r) = 7 /\ DOMAIN r = 1 .. 7
              /\ r[1] = a /\ r[2] = b /\ r[3] = c /\ r[4] = d /\ r[5] = e /\ r[6] = f /\ r[7] = g
  <1> DEFINE S == {a, b, c, d, e, f, g}
             p == <<a, b, c, d, e, f>>
             q == <<g>>
  <1>1. p \in Seq(S) /\ q \in Seq(S) /\ Len(p) = 6 /\ Len(q) = 1
    OBVIOUS
  <1>2. p[1] = a /\ p[2] = b /\ p[3] = c /\ p[4] = d /\ p[5] = e /\ p[6] = f /\ q[1] = g
    OBVIOUS
  <1> HIDE DEF S, p, q
  <1>0. /\ p \o q \in Seq(S) /\ Len(p \o q) = Len(p) + Len(q)
        /\ \A i \in 1 .. Len(p) + Len(q) : (p \o q)[i] = IF i <= Len(p) THEN p[i] ELSE q[i - Len(p)]
    BY <1>1, ConcatProperties, Zenon
  <1>3. /\ p \o q \in Seq(S) /\ Len(p \o q) = 7
        /\ \A i \in 1 .. 7 : (p \o q)[i] = IF i <= 6 THEN p[i] ELSE q[i - 6]
    BY <1>0, <1>1
  <1>4. /\ (p \o q)[1] = p[1] /\ (p \o q)[2] = p[2] /\ (p \o q)[3] = p[3] /\ (p \o q)[4] = p[4]
        /\ (p \o q)[5] = p[5] /\ (p \o q)[6] = p[6] /\ (p \o q)[7] = q[1]
    BY <1>3
  <1>5. IsPlan(p \o q) /\ DOMAIN (p \o q) = 1 .. 7
    BY <1>3 DEF IsPlan
  <1>6. QED
    BY <1>2, <1>3, <1>4, <1>5 DEF p, q

\* The calls in their order, by what they do.
WritesInOrder(r, name, value) ==
    /\ IsPlan(r) /\ Len(r) = 7 /\ DOMAIN r = 1 .. 7 /\ r # <<>>
    /\ \A i \in 1 .. 7 : r[i].name = name
    /\ r[1].do = "open" /\ r[1].name = name /\ r[1].value = value /\ r[2].do = "write" /\ r[3].do = "sync"
    /\ r[4].do = "sync directory" /\ r[5].do = "rename" /\ r[6].do = "sync renamed" /\ r[7].do = "return"

LEMMA WriteFollows ==
    ASSUME NEW name, NEW value
    PROVE  WritesInOrder(WriteFile(name, value) \o <<Returns(name)>>, name, value)
  <1> DEFINE a == [do |-> "open", name |-> name, value |-> value]
             b == [do |-> "write", name |-> name]
             c == [do |-> "sync", name |-> name]
             d == [do |-> "sync directory", name |-> name]
             e == [do |-> "rename", name |-> name]
             f == [do |-> "sync renamed", name |-> name]
             g == [do |-> "return", name |-> name]
             r == WriteFile(name, value) \o <<Returns(name)>>
             w == <<a, b, c, d, e, f>> \o <<g>>
  <1>1. WriteFile(name, value) = <<a, b, c, d, e, f>> /\ Returns(name) = g
    BY DEF WriteFile, Returns
  <1>2. /\ a.do = "open" /\ a.value = value /\ b.do = "write" /\ c.do = "sync"
        /\ d.do = "sync directory" /\ e.do = "rename" /\ f.do = "sync renamed" /\ g.do = "return"
    OBVIOUS
  <1>3. /\ a.name = name /\ b.name = name /\ c.name = name /\ d.name = name
        /\ e.name = name /\ f.name = name /\ g.name = name
    OBVIOUS
  <1> HIDE DEF a, b, c, d, e, f, g
  <1>4. r = w
    BY <1>1
  <1>5. /\ IsPlan(w) /\ Len(w) = 7 /\ DOMAIN w = 1 .. 7
        /\ w[1] = a /\ w[2] = b /\ w[3] = c /\ w[4] = d /\ w[5] = e /\ w[6] = f /\ w[7] = g
    BY SevenLeft
  <1> HIDE DEF r, w
  <1>6. ASSUME NEW i \in 1 .. 7 PROVE w[i].name = name
    <2>1. i = 1 \/ i = 2 \/ i = 3 \/ i = 4 \/ i = 5 \/ i = 6 \/ i = 7
      OBVIOUS
    <2>2. QED
      BY <1>3, <1>5, <2>1
  <1>7. w # <<>>
    <2>1. Len(w) # 0
      BY <1>5
    <2>2. QED
      BY <2>1, NothingLeft
  <1>8. WritesInOrder(w, name, value)
    BY <1>2, <1>3, <1>5, <1>6, <1>7 DEF WritesInOrder
  <1>9. QED
    BY <1>4, <1>8 DEF r

\* Operations that remove nothing.
Plain == {"open", "write", "sync", "sync directory", "rename", "sync renamed", "sync unlinked", "return", "set"}

LEMMA PlainFits ==
    ASSUME NEW t, NEW key, NEW o, o.do \in Plain, o.name \in Values
    PROVE  /\ OpFits(t, o, key) /\ \A n : ~WillRemove(o, n)
           /\ o.do \notin {"start", "load LTSK", "make LTSK"}
  <1>1. \A n : ~WillRemove(o, n) /\ ~Removes(o, n)
    BY DEF WillRemove, Removes, Plain
  <1>2. /\ o.do \in Calls \cup {"set", "return"} /\ o.do \notin Jobs /\ o.do \notin StartSteps
        /\ o.do \notin {"start", "load LTSK", "make LTSK", "enumerate"}
    BY DEF Plain, Calls, Jobs, Imports, StartSteps
  <1>3. QED
    BY <1>1, <1>2 DEF OpFits

\* Operations that remove one key.
LEMMA RemovingFits ==
    ASSUME NEW t, NEW key, NEW o, o.do = "remove" \/ o.do = "unlink", o.name \in Values,
           o.name = LTSK => t.job = "restore", o.name = Broadcasts => t.asked = {}
    PROVE  /\ OpFits(t, o, key) /\ \A n : (WillRemove(o, n) <=> o.name = n) /\ (Removes(o, n) <=> o.name = n)
           /\ o.do \notin {"start", "load LTSK", "make LTSK"} /\ HeadFits(t, o, key)
  <1>1. \A n : (WillRemove(o, n) <=> o.name = n) /\ (Removes(o, n) <=> o.name = n)
    BY DEF WillRemove, Removes
  <1>2. /\ o.do \in Calls \cup {"remove"} /\ o.do \notin Jobs /\ o.do \notin StartSteps
        /\ o.do \notin {"start", "load LTSK", "make LTSK", "enumerate", "open", "set", "return"} /\ o.do \notin Writing
    BY DEF Calls, Jobs, Imports, StartSteps, Writing
  <1>3. OpFits(t, o, key)
    BY <1>1, <1>2 DEF OpFits
  <1>4. HeadFits(t, o, key)
    BY <1>2 DEF HeadFits
  <1>5. QED
    BY <1>1, <1>2, <1>3, <1>4

\* A value fits when nothing that it is measured by has changed.
LEMMA ValueMoves ==
    ASSUME NEW t, NEW r, NEW server, Moves(t, r, server), server = storage.server, t.asked = storage.asked,
           NEW name, NEW value, NEW key, ValueFits(storage, name, value, key)
    PROVE  ValueFits(t, name, value, key)
  <1>1. t.disk = storage.disk /\ t.server = storage.server /\ t.job = storage.job /\ t.asked = storage.asked
    BY DEF Moves
  <1>2. QED
    BY <1>1 DEF ValueFits

LEMMA WriteStands ==
    ASSUME NEW t, NEW key, NEW r, NEW name \in Values, NEW value, WritesInOrder(r, name, value),
           ValueFits(t, name, value, key)
    PROVE  /\ StandsFor(t, r, key) /\ \A o \in ToSet(r) : o.do \in Plain /\ o.name \in Values
           /\ r # <<>> /\ r[1].do = "open" /\ r[1].name = name
  <1>1. /\ IsPlan(r) /\ Len(r) = 7 /\ DOMAIN r = 1 .. 7
        /\ \A i \in 1 .. 7 : r[i].name = name
        /\ r # <<>>
    BY DEF WritesInOrder
  <1>0. r[1].name = name /\ r[1].value = value
    BY DEF WritesInOrder
  <1>2. /\ r[1].do = "open" /\ r[2].do = "write" /\ r[3].do = "sync"
        /\ r[4].do = "sync directory" /\ r[5].do = "rename" /\ r[6].do = "sync renamed" /\ r[7].do = "return"
    BY DEF WritesInOrder
  <1>3. ASSUME NEW i \in 1 .. 7 PROVE r[i].do \in Plain /\ r[i].name \in Values
    <2>1. i = 1 \/ i = 2 \/ i = 3 \/ i = 4 \/ i = 5 \/ i = 6 \/ i = 7
      OBVIOUS
    <2>2. QED
      BY <1>1, <1>2, <2>1 DEF Plain
  <1>4. \A o \in ToSet(r) : o.do \in Plain /\ o.name \in Values
    BY <1>1, <1>3, InToSet
  <1>5. \A o \in ToSet(r) : OpFits(t, o, key)
    BY <1>4, PlainFits
  <1>6. ASSUME NEW i \in 1 .. 7, i < 7 PROVE Follows(r[i], r[i + 1])
    <2>0. /\ r[1].name = name /\ r[2].name = name /\ r[3].name = name /\ r[4].name = name
          /\ r[5].name = name /\ r[6].name = name /\ r[7].name = name
      BY <1>1
    <2>1. Follows(r[1], r[2])
      BY <1>2, <2>0 DEF Follows, Calls, Before, Jobs, Imports
    <2>2. Follows(r[2], r[3])
      BY <1>2, <2>0 DEF Follows, Calls, Before, Jobs, Imports
    <2>3. Follows(r[3], r[4])
      BY <1>2, <2>0 DEF Follows, Calls, Before, Jobs, Imports
    <2>4. Follows(r[4], r[5])
      BY <1>2, <2>0 DEF Follows, Calls, Before, Jobs, Imports
    <2>5. Follows(r[5], r[6])
      BY <1>2, <2>0 DEF Follows, Calls, Before, Jobs, Imports
    <2>6. Follows(r[6], r[7])
      BY <1>2, <2>0 DEF Follows, Calls, Before, Jobs, Imports
    <2>7. /\ i = 1 \/ i = 2 \/ i = 3 \/ i = 4 \/ i = 5 \/ i = 6
          /\ 1 + 1 = 2 /\ 2 + 1 = 3 /\ 3 + 1 = 4 /\ 4 + 1 = 5 /\ 5 + 1 = 6 /\ 6 + 1 = 7
      BY <1>6
    <2>8. QED
      BY <2>1, <2>2, <2>3, <2>4, <2>5, <2>6, <2>7
  <1>7. HeadFits(t, r[1], key)
    <2>1. r[1].do = "open"
      BY <1>2
    <2>2. r[1].do \notin Writing /\ r[1].do # "return"
      BY <2>1 DEF Writing
    <2>3. QED
      BY <1>0, <2>1, <2>2 DEF HeadFits
  <1>8. MayBeLast(r[Len(r)])
    BY <1>1, <1>2 DEF MayBeLast, LastOnes
  <1>9. \A i \in 1 .. Len(r) : i < Len(r) => Follows(r[i], r[i + 1])
    BY <1>1, <1>6
  <1>10. QED
    <2>1. r # <<>> /\ r[1].do = "open" /\ r[1].name = name
      BY <1>0, <1>1, <1>2
    <2>2. QED
      BY <1>1, <1>4, <1>5, <1>7, <1>8, <1>9, <2>1 DEF StandsFor

\* HAPPlatformKeyValueStoreSet
LEMMA SetFits ==
    ASSUME NEW key, StateFits(storage, key), Works(storage), NEW t, NEW r, NEW server,
           storage.todo[1].do = "set", Moves(t, r, server), server = storage.server,
           r = WriteFile(storage.todo[1].name, storage.todo[1].value) \o <<Returns(storage.todo[1].name)>>
    PROVE  StateFits(t, key)
  <1> DEFINE op == storage.todo[1]
             name == op.name
             value == op.value
  <1>1. op.do \notin Calls /\ KeepsServer(op) /\ op.do = "set"
    BY DEF Calls, KeepsServer
  <1>2. OpFits(storage, op, key) /\ HeadFits(storage, op, key)
    BY <1>1, OperationFits
  <1>3. name \in Values /\ ValueFits(storage, name, value, key) /\ (\A n : ~WillRemove(op, n) /\ ~Removes(op, n))
    BY <1>1, <1>2 DEF OpFits, HeadFits, WillRemove, Removes
  <1>4. t.asked = storage.asked
    BY <1>1 DEF Moves, Asked
  <1>5. ValueFits(t, name, value, key)
    BY <1>3, <1>4, ValueMoves
  <1>6. WritesInOrder(r, name, value)
    BY WriteFollows
  <1>7. name \in Values
    BY <1>3
  <1>8. r # <<>> /\ r[1].do = "open" /\ r[1].name = name
    BY <1>6 DEF WritesInOrder
  <1> HIDE DEF name, value
  <1>14. StandsFor(t, r, key)
    BY <1>5, <1>6, <1>7, WriteStands
  <1>15. \A o \in ToSet(r) : o.do \in Plain /\ o.name \in Values
    BY <1>5, <1>6, <1>7, WriteStands
  <1>16. Replaces(op, r)
    <2>1. \A o \in ToSet(r) : o.do \notin {"start", "load LTSK", "make LTSK"}
      BY <1>15, PlainFits
    <2>2. r # <<>> /\ r[1].do = "open" /\ r[1].name = name
      BY <1>8
    <2>3. QED
      BY <1>3, <2>1, <2>2 DEF Replaces, name
  <1>17. Ordinary(t, r, server, key)
    BY <1>1, <1>14, <1>16 DEF Ordinary
  <1>18. QED
    BY <1>4, <1>17, OrdinaryFits

LEMMA TwoAndOne ==
    ASSUME NEW x, NEW y, NEW z
    PROVE  <<x, y>> \o <<z>> = <<x, y, z>>
  <1> DEFINE S == {x, y, z}
             p == <<x, y>>
             q == <<z>>
             w == <<x, y, z>>
  <1>1. p \in Seq(S) /\ q \in Seq(S) /\ w \in Seq(S) /\ Len(p) = 2 /\ Len(q) = 1 /\ Len(w) = 3
    OBVIOUS
  <1>2. p[1] = w[1] /\ p[2] = w[2] /\ q[1] = w[3]
    OBVIOUS
  <1> HIDE DEF S, p, q, w
  <1>3. /\ p \o q \in Seq(S) /\ Len(p \o q) = Len(p) + Len(q)
        /\ \A i \in 1 .. Len(p) + Len(q) : (p \o q)[i] = IF i <= Len(p) THEN p[i] ELSE q[i - Len(p)]
    BY <1>1, ConcatProperties, Zenon
  <1>4. p \o q \in Seq(S) /\ Len(p \o q) = 3 /\ \A i \in 1 .. 3 : (p \o q)[i] = w[i]
    BY <1>1, <1>2, <1>3
  <1>5. p \o q = w
    BY <1>1, <1>4, SeqEqual
  <1>6. QED
    BY <1>5 DEF p, q, w

LEMMA RemovePlan ==
    ASSUME NEW name
    PROVE  RemoveFile(name) \o <<Returns(name)>> = <<[do |-> "unlink", name |-> name],
               [do |-> "sync unlinked", name |-> name], [do |-> "return", name |-> name]>>
  <1> DEFINE x == [do |-> "unlink", name |-> name]
             y == [do |-> "sync unlinked", name |-> name]
             z == [do |-> "return", name |-> name]
  <1>2. RemoveFile(name) = <<x, y>> /\ Returns(name) = z
    BY DEF RemoveFile, Returns
  <1> HIDE DEF x, y, z
  <1>3. RemoveFile(name) \o <<Returns(name)>> = <<x, y, z>>
    BY <1>2, TwoAndOne
  <1>4. QED
    BY <1>3 DEF x, y, z

LEMMA RemoveStands ==
    ASSUME NEW t, NEW key, NEW name \in Values, NEW r, r = RemoveFile(name) \o <<Returns(name)>>,
           name = LTSK => t.job = "restore", name = Broadcasts => t.asked = {}
    PROVE  /\ StandsFor(t, r, key) /\ \E o \in ToSet(r) : \A n : name = n => WillRemove(o, n) /\ Removes(o, n)
           /\ \A o \in ToSet(r) : o.do \notin {"start", "load LTSK", "make LTSK"}
  <1> DEFINE o == [do |-> "unlink", name |-> name]
             p == [do |-> "sync unlinked", name |-> name]
             q == [do |-> "return", name |-> name]
  <1>1. r = <<o, p, q>>
    BY RemovePlan
  <1>2. /\ o.do = "unlink" /\ o.name = name /\ p.do = "sync unlinked" /\ p.name = name
        /\ q.do = "return" /\ q.name = name
    OBVIOUS
  <1> HIDE DEF o, p, q
  <1>3. /\ OpFits(t, o, key) /\ \A n : (WillRemove(o, n) <=> o.name = n) /\ (Removes(o, n) <=> o.name = n)
        /\ o.do \notin {"start", "load LTSK", "make LTSK"} /\ HeadFits(t, o, key)
    BY <1>2, RemovingFits
  <1>4. p.do \in Plain /\ q.do \in Plain /\ p.name \in Values /\ q.name \in Values
    BY <1>2 DEF Plain
  <1>5. /\ OpFits(t, p, key) /\ OpFits(t, q, key)
        /\ p.do \notin {"start", "load LTSK", "make LTSK"} /\ q.do \notin {"start", "load LTSK", "make LTSK"}
    BY <1>4, PlainFits
  <1>6. Follows(o, p)
    BY <1>2 DEF Follows, Calls, Before, Jobs, Imports
  <1>7. Follows(p, q)
    BY <1>2 DEF Follows, Calls, Before, Jobs, Imports
  <1>8. MayBeLast(q)
    BY <1>2 DEF MayBeLast, LastOnes
  <1>9. StandsFor(t, <<o, p, q>>, key)
    BY <1>3, <1>5, <1>6, <1>7, <1>8, ThreeStand
  <1>10. ToSet(<<o, p, q>>) = {o, p, q}
    BY ThreeLeft
  <1>11. QED
    BY <1>1, <1>2, <1>3, <1>5, <1>9, <1>10

\* HAPPlatformKeyValueStoreRemove
LEMMA RemoveFits ==
    ASSUME NEW key, StateFits(storage, key), Works(storage), NEW t, NEW r, NEW server,
           storage.todo[1].do = "remove", Moves(t, r, server), server = storage.server,
           r = IF Found(storage.todo[1].name)
               THEN RemoveFile(storage.todo[1].name) \o <<Returns(storage.todo[1].name)>> ELSE <<>>
    PROVE  StateFits(t, key)
  <1> DEFINE op == storage.todo[1]
             name == op.name
  <1>1. op.do \notin Calls /\ KeepsServer(op) /\ op.do = "remove"
    BY DEF Calls, KeepsServer
  <1>2. OpFits(storage, op, key)
    BY <1>1, OperationFits
  <1>3. name \in Values /\ \A n : (WillRemove(op, n) <=> name = n) /\ (Removes(op, n) <=> name = n)
    BY <1>1, <1>2 DEF OpFits, WillRemove, Removes
  <1>4. t.asked = storage.asked /\ t.job = storage.job
    BY <1>1 DEF Moves, Asked
  <1>5. (name = LTSK => t.job = "restore") /\ (name = Broadcasts => t.asked = {})
    BY <1>2, <1>3, <1>4 DEF OpFits
  <1>6. StandsFor(t, r, key) /\ Replaces(op, r)
    <2>1. CASE Found(name)
      <3>1. /\ StandsFor(t, r, key) /\ \E o \in ToSet(r) : \A n : name = n => WillRemove(o, n) /\ Removes(o, n)
            /\ \A o \in ToSet(r) : o.do \notin {"start", "load LTSK", "make LTSK"}
        BY <1>3, <1>5, <2>1, RemoveStands, ZenonT(60)
      <3>2. Replaces(op, r)
        BY <1>1, <1>3, <3>1 DEF Replaces
      <3>3. QED
        BY <3>1, <3>2
    <2>2. CASE ~Found(name)
      <3>1. r = <<>> /\ ToSet(r) = {}
        BY <2>2, NothingLeft
      <3>2. StandsFor(t, r, key)
        BY <3>1, NothingStands
      <3>3. Replaces(op, r)
        BY <1>1, <1>3, <2>2, <3>1 DEF Replaces, Found
      <3>4. QED
        BY <3>2, <3>3
    <2>3. QED
      BY <2>1, <2>2
  <1>7. Ordinary(t, r, server, key)
    BY <1>1, <1>6 DEF Ordinary
  <1>8. QED
    BY <1>4, <1>7, OrdinaryFits

LEMMA ListedFits ==
    ASSUME DiskFits(disk), NEW domain
    PROVE  \A n : n \in Listed(domain) <=> n \in Values /\ Exists(disk, n) /\ n.domain = domain
  <1>1. NamesOf(disk) = Values \cup Temporaries
    <2>1. disk.directory \in Directories(disk)
      BY DEF Directories
    <2>2. NamesOf(disk) = StoreNames
      BY <2>1, DirectoryTyped
    <2>3. QED
      BY <2>2, NamesFit
  <1>2. \A n \in Values : ~n.temporary
    BY NamesFit
  <1>3. \A n \in Temporaries : n.temporary
    BY NamesFit
  <1>4. QED
    BY <1>1, <1>2, <1>3 DEF Listed, Found

\* The end of a HAPPlatformKeyValueStoreSet or Remove.
LEMMA ReturnFits ==
    ASSUME NEW key, StateFits(storage, key), Works(storage), NEW t, NEW r, NEW server,
           storage.todo[1].do = "return", Moves(t, r, server), server = storage.server, r = <<>>
    PROVE  StateFits(t, key)
  <1> DEFINE op == storage.todo[1]
  <1>1. op.do \notin Calls /\ KeepsServer(op) /\ op.do = "return"
    BY DEF Calls, KeepsServer
  <1>2. t.asked = storage.asked
    BY <1>1 DEF Moves, Asked
  <1>3. StandsFor(t, r, key)
    BY NothingStands
  <1>4. Replaces(op, r)
    <2>1. \A n : ~WillRemove(op, n) /\ ~Removes(op, n)
      BY <1>1 DEF WillRemove, Removes
    <2>2. ToSet(r) = {}
      BY NothingLeft
    <2>3. QED
      BY <1>1, <2>1, <2>2 DEF Replaces
  <1>5. Ordinary(t, r, server, key)
    BY <1>1, <1>3, <1>4 DEF Ordinary
  <1>6. QED
    BY <1>2, <1>5, OrdinaryFits

\* The rest of an enumeration.
LEMMA EnumerationFits ==
    ASSUME NEW t, NEW key, NEW o, o.do = "enumerate", DOMAIN o = {"do", "left"}, o.left \subseteq Values,
           LTSK \in o.left => t.job = "restore", Broadcasts \in o.left => t.asked = {}
    PROVE  /\ OpFits(t, o, key) /\ HeadFits(t, o, key) /\ MayBeLast(o)
           /\ \A n : (WillRemove(o, n) <=> n \in o.left) /\ (Removes(o, n) <=> n \in o.left)
           /\ o.do \notin {"start", "load LTSK", "make LTSK"}
  <1>1. \A n : (WillRemove(o, n) <=> n \in o.left) /\ (Removes(o, n) <=> n \in o.left)
    BY DEF WillRemove, Removes
  <1>2. /\ o.do \notin Calls \cup {"set", "remove", "return"} /\ o.do \notin Jobs /\ o.do \notin StartSteps
        /\ o.do \notin {"open", "set", "return"} /\ o.do \notin Writing
        /\ o.do \in {"set", "remove", "return", "purge", "enumerate"}
    BY DEF Calls, Jobs, Imports, StartSteps, Writing
  <1>3. OpFits(t, o, key)
    BY <1>1, <1>2 DEF OpFits
  <1>4. HeadFits(t, o, key)
    BY <1>2 DEF HeadFits
  <1>5. MayBeLast(o) /\ o.do \notin {"start", "load LTSK", "make LTSK"}
    BY DEF MayBeLast, LastOnes
  <1>6. QED
    BY <1>1, <1>3, <1>4, <1>5

\* HAPPlatformKeyValueStorePurgeDomain
LEMMA PurgeOrdinary ==
    ASSUME NEW key, StateFits(storage, key), Works(storage), NEW t, NEW r, NEW server,
           storage.todo[1].do = "purge", Moves(t, r, server), server = storage.server,
           r = <<[do |-> "enumerate", left |-> Listed(storage.todo[1].domain)]>>
    PROVE  /\ Ordinary(t, r, server, key) /\ AsksAlike(t)
           /\ storage.todo[1].domain # Broadcasts.domain => t.asked = storage.asked
           /\ storage.todo[1].domain = Broadcasts.domain =>
                  /\ t.asked = {}
                  /\ Exists(disk, Broadcasts) => \E o \in ToSet(r) : Removes(o, Broadcasts)
  <1> DEFINE op == storage.todo[1]
             o == [do |-> "enumerate", left |-> Listed(op.domain)]
  <1>1. op.do \notin Calls /\ KeepsServer(op) /\ op.do = "purge"
    BY DEF Calls, KeepsServer
  <1>2. OpFits(storage, op, key) /\ DiskFits(disk)
    BY <1>1, OperationFits
  <1>3. t.asked = IF op.domain = Broadcasts.domain THEN {} ELSE storage.asked
    BY <1>1 DEF Moves, Asked
  <1>4. t.job = storage.job
    BY DEF Moves
  <1> HIDE DEF op
  <1>5. \A n : n \in Listed(op.domain) <=> n \in Values /\ Exists(disk, n) /\ n.domain = op.domain
    BY <1>2, ListedFits
  <1>6. LTSK \in Listed(op.domain) => t.job = "restore"
    BY <1>1, <1>2, <1>4, <1>5 DEF OpFits, WillRemove
  <1>7. Broadcasts \in Listed(op.domain) => t.asked = {}
    BY <1>3, <1>5
  <1>8. o.do = "enumerate" /\ DOMAIN o = {"do", "left"} /\ o.left = Listed(op.domain)
    OBVIOUS
  <1>9. r = <<o>>
    BY DEF op
  <1> HIDE DEF o
  <1>10. /\ OpFits(t, o, key) /\ HeadFits(t, o, key) /\ MayBeLast(o)
         /\ \A n : (WillRemove(o, n) <=> n \in o.left) /\ (Removes(o, n) <=> n \in o.left)
         /\ o.do \notin {"start", "load LTSK", "make LTSK"}
    BY <1>5, <1>6, <1>7, <1>8, EnumerationFits
  <1>11. ToSet(r) = {o}
    BY <1>9, OneLeft
  <1>12. StandsFor(t, r, key)
    BY <1>9, <1>10, OneStands
  <1>13. Replaces(op, r)
    <2>1. \A n : ~Removes(op, n) /\ (WillRemove(op, n) <=> op.domain = n.domain)
      BY <1>1 DEF Removes, WillRemove
    <2>2. QED
      BY <1>1, <1>5, <1>8, <1>10, <1>11, <2>1 DEF Replaces
  <1>14. Ordinary(t, r, server, key)
    BY <1>1, <1>12, <1>13 DEF Ordinary, op
  <1>15. AsksAlike(t)
    BY <1>3 DEF AsksAlike
  <1>16. Exists(disk, Broadcasts) /\ op.domain = Broadcasts.domain => Removes(o, Broadcasts)
    BY <1>5, <1>8, <1>10, KeysFit
  <1>17. QED
    BY <1>3, <1>11, <1>14, <1>15, <1>16 DEF op

LEMMA PurgeFits ==
    ASSUME NEW key, StateFits(storage, key), Works(storage), NEW t, NEW r, NEW server,
           storage.todo[1].do = "purge", Moves(t, r, server), server = storage.server,
           r = <<[do |-> "enumerate", left |-> Listed(storage.todo[1].domain)]>>
    PROVE  StateFits(t, key)
  <1>1. Ordinary(t, r, server, key)
    BY PurgeOrdinary
  <1>2. CASE storage.todo[1].domain # Broadcasts.domain
    <2>1. t.asked = storage.asked
      BY <1>2, PurgeOrdinary
    <2>2. QED
      BY <1>1, <2>1, OrdinaryFits
  <1>3. CASE storage.todo[1].domain = Broadcasts.domain
    <2>1. t.asked = {}
      BY <1>3, PurgeOrdinary
    <2>2. AsksAlike(t)
      BY <2>1 DEF AsksAlike
    <2>3. Continues(storage, t, r, key)
      BY <1>1, <2>2, OrdinaryServer
    <2>4. ServerFits(t)
      BY <1>1, <2>2, OrdinaryServer
    <2>5. Exists(disk, Broadcasts) => \E o \in ToSet(r) : Removes(o, Broadcasts)
      BY <1>3, PurgeOrdinary
    <2>6. AskedFits(t)
      <3>1. t.disk = disk
        BY DEF Moves, disk
      <3>2. ~Exists(disk, Broadcasts) => ToSet(ConfigurationOf(Current(t.disk))) = {}
        BY <3>1, CurrentFits, NothingLeft
      <3>3. TodoFits(storage, key)
        BY DEF StateFits
      <3>4. ToSet(t.todo) = ToSet(r) \cup Rest(storage.todo)
        BY <2>3, <3>3, TodoContinues
      <3>5. QED
        BY <2>1, <2>5, <3>2, <3>4 DEF AskedFits
    <2>7. Moves(t, r, server) /\ storage.todo[1].do \notin Calls
      BY <1>1 DEF Ordinary
    <2>8. QED
      BY <2>3, <2>4, <2>6, <2>7, MovesFit
  <1>4. QED
    BY <1>2, <1>3

\* HAPPlatformKeyValueStoreEnumerate: another key, and those that are left.
LEMMA EnumerateFits ==
    ASSUME NEW key, StateFits(storage, key), Works(storage), NEW t, NEW r, NEW server,
           storage.todo[1].do = "enumerate", Moves(t, r, server), server = storage.server,
           \/ storage.todo[1].left = {} /\ r = <<>>
           \/ \E n \in storage.todo[1].left :
                  r = <<RemoveKey(n), [storage.todo[1] EXCEPT !.left = @ \ {n}]>>
    PROVE  StateFits(t, key)
  <1> DEFINE op == storage.todo[1]
  <1>0. \/ op.left = {} /\ r = <<>>
        \/ \E n \in op.left : r = <<RemoveKey(n), [op EXCEPT !.left = @ \ {n}]>>
    OBVIOUS
  <1>1. op.do \notin Calls /\ KeepsServer(op) /\ op.do = "enumerate"
    BY DEF Calls, KeepsServer
  <1>2. OpFits(storage, op, key)
    BY <1>1, OperationFits
  <1> HIDE DEF op
  <1>3. /\ op.left \subseteq Values /\ DOMAIN op = {"do", "left"}
        /\ \A n : (WillRemove(op, n) <=> n \in op.left) /\ (Removes(op, n) <=> n \in op.left)
    BY <1>1, <1>2 DEF OpFits, WillRemove, Removes
  <1>4. t.asked = storage.asked /\ t.job = storage.job
    BY <1>1 DEF Moves, Asked, op
  <1>5. (LTSK \in op.left => t.job = "restore") /\ (Broadcasts \in op.left => t.asked = {})
    BY <1>2, <1>3, <1>4 DEF OpFits
  <1>6. StandsFor(t, r, key) /\ Replaces(op, r)
    <2>1. CASE op.left = {} /\ r = <<>>
      <3>1. StandsFor(t, r, key)
        BY <2>1, NothingStands
      <3>2. Replaces(op, r)
        BY <1>1, <1>3, <2>1, NothingLeft DEF Replaces
      <3>3. QED
        BY <3>1, <3>2
    <2>2. CASE \E n \in op.left : r = <<RemoveKey(n), [op EXCEPT !.left = @ \ {n}]>>
      <3>1. PICK n \in op.left : r = <<RemoveKey(n), [op EXCEPT !.left = @ \ {n}]>>
        BY <2>2
      <3> DEFINE o == RemoveKey(n)
                 left == op.left \ {n}
                 p == [op EXCEPT !.left = left]
      <3>2. r = <<o, p>>
        BY <3>1
      <3>3. o.do = "remove" /\ o.name = n
        BY DEF RemoveKey
      <3>4. p.do = "enumerate" /\ p.left = left /\ DOMAIN p = {"do", "left"}
        BY <1>1, <1>3
      <3> HIDE DEF o, p
      <3>5. /\ OpFits(t, o, key) /\ \A m : (WillRemove(o, m) <=> o.name = m) /\ (Removes(o, m) <=> o.name = m)
            /\ o.do \notin {"start", "load LTSK", "make LTSK"} /\ HeadFits(t, o, key)
        BY <1>3, <1>5, <3>3, RemovingFits
      <3>6. p.left \subseteq Values /\ (LTSK \in p.left => t.job = "restore") /\ (Broadcasts \in p.left => t.asked = {})
        BY <1>3, <1>5, <3>4
      <3>7. /\ OpFits(t, p, key) /\ MayBeLast(p)
            /\ \A m : (WillRemove(p, m) <=> m \in p.left) /\ (Removes(p, m) <=> m \in p.left)
            /\ p.do \notin {"start", "load LTSK", "make LTSK"}
        BY <3>4, <3>6, EnumerationFits
      <3>8. Follows(o, p)
        BY <3>3, <3>4 DEF Follows, Calls, Jobs, Imports
      <3>9. StandsFor(t, r, key)
        BY <3>2, <3>5, <3>7, <3>8, TwoStand
      <3>10. ToSet(r) = {o, p}
        BY <3>2, TwoLeft
      <3>11. Replaces(op, r)
        <4>1. \A m \in op.left : m = n \/ m \in p.left
          BY <3>4
        <4>2. \A m \in op.left : \E q \in ToSet(r) : WillRemove(q, m) /\ Removes(q, m)
          BY <3>3, <3>5, <3>7, <3>10, <4>1
        <4>3. QED
          BY <1>1, <1>3, <3>5, <3>7, <3>10, <4>2 DEF Replaces
      <3>12. QED
        BY <3>9, <3>11
    <2>3. QED
      BY <1>0, <2>1, <2>2
  <1>7. Ordinary(t, r, server, key)
    BY <1>1, <1>6 DEF Ordinary, op
  <1>8. QED
    BY <1>4, <1>7, OrdinaryFits

-----------------------------------------------------------------------------
(* Jobs, and the later steps of a start *)

\* An error before any call, when it may be made up for.
LEMMA ErrorFits ==
    ASSUME StorageConstants, NEW key \in Nat \ {0}, StateFits(storage, key), Works(storage),
           storage.todo[1].do \notin Calls, NEW t, t = Fails(disk), ~storage.excused => storage.job # "start"
    PROVE  StateFits(t, key)
  <1> DEFINE excused == storage.excused
  <1>1. FailsWith(t, disk, excused)
    BY DEF FailsWith
  <1>2. SameContents(disk, disk)
    BY DEF SameContents, StateFits, disk
  <1>3. \/ storage.excused
        \/ SyncsWell(disk) /\ (storage.privileged \/ \A n \in Values : ~Exists(disk, Temporary(n)))
    <2>1. ExcusesFit(storage)
      BY DEF StateFits
    <2>2. storage.todo[1].do \notin Writing
      BY DEF Writing, Calls
    <2>3. QED
      BY <2>1, <2>2 DEF ExcusesFit, disk
  <1>4. \/ excused = TRUE \/ storage.excused
        \/ /\ SyncsWell(disk) /\ storage.job # "start"
           /\ storage.privileged \/ \A n \in Values : ~Exists(disk, Temporary(n))
    BY <1>3
  <1> HIDE DEF excused
  <1>5. QED
    BY <1>1, <1>2, <1>4, FailsFits

\* A file that is found is whole, unless a sync has failed.
LEMMA FoundIsWhole ==
    ASSUME NEW key, StateFits(storage, key), ~storage.excused, NEW n \in Values, Found(n)
    PROVE  HasLength(n)
  <1>1. SyncsWell(disk) /\ DiskFits(disk)
    BY DEF StateFits, ExcusesFit, disk
  <1>2. DirectoryFits(disk, disk.directory)
    BY <1>1 DEF DiskFits, Directories
  <1>3. disk.directory[n] \in Inodes /\ disk.directory[n] # NoInode
    <2>1. n \in StoreNames
      BY NamesFit
    <2>2. QED
      BY <1>2, <2>1 DEF DirectoryFits, Found, Exists
  <1>4. \/ disk.inodes[disk.directory[n]].sync = "failed"
        \/ disk.inodes[disk.directory[n]].sync = "done" /\ IsWhole(disk.inodes[disk.directory[n]])
    BY <1>2, <1>3 DEF DirectoryFits
  <1>5. QED
    BY <1>1, <1>3, <1>4 DEF SyncsWell, HasLength, File

StartsNothing(r) == \A o \in ToSet(r) : o.do \notin {"start", "load LTSK", "make LTSK"}

\* A step that is no operation of the store, and leaves the server as it is.
IsStep(op) ==
    op.do \in {"cleanup", "increment CN", "device ID", "CN", "import", "import pairing", "pair", "broadcast key",
               "restore", "remove all pairings", "enable", "disable"}

LEMMA StepFits ==
    ASSUME NEW op, IsStep(op)
    PROVE  /\ op.do \notin Calls /\ KeepsServer(op) /\ \A n : ~WillRemove(op, n) /\ ~Removes(op, n)
           /\ op.do # "set"
  BY DEF IsStep, Calls, KeepsServer, WillRemove, Removes

LEMMA StepReplaced ==
    ASSUME NEW op, IsStep(op), NEW r, StartsNothing(r)
    PROVE  Replaces(op, r)
  <1>1. op.do # "set" /\ \A n : ~WillRemove(op, n) /\ ~Removes(op, n)
    BY StepFits
  <1>2. QED
    BY <1>1 DEF Replaces, StartsNothing

LEMMA StepContinues ==
    ASSUME NEW key, StateFits(storage, key), Works(storage), NEW t, NEW r, NEW server, IsStep(storage.todo[1]),
           Moves(t, r, server), server = storage.server, t.asked = storage.asked, StandsFor(t, r, key),
           StartsNothing(r)
    PROVE  StateFits(t, key)
  <1>1. storage.todo[1].do \notin Calls /\ KeepsServer(storage.todo[1])
    BY StepFits
  <1>2. Replaces(storage.todo[1], r)
    BY StepReplaced
  <1>3. Ordinary(t, r, server, key)
    BY <1>1, <1>2 DEF Ordinary
  <1>4. QED
    BY <1>3, OrdinaryFits

\* The step has nothing to do.
LEMMA StepDone ==
    ASSUME NEW key, StateFits(storage, key), Works(storage), NEW t, NEW r, NEW server, IsStep(storage.todo[1]),
           Moves(t, r, server), server = storage.server, t.asked = storage.asked, r = <<>>
    PROVE  StateFits(t, key)
  <1>1. StandsFor(t, r, key) /\ ToSet(r) = {}
    BY NothingStands, NothingLeft
  <1>2. StartsNothing(r)
    BY <1>1 DEF StartsNothing
  <1>3. QED
    BY <1>1, <1>2, StepContinues

LEMMA SetStands ==
    ASSUME NEW t, NEW key, NEW name \in Values, NEW value, ValueFits(t, name, value, key),
           NEW r, r = <<Set(name, value)>>
    PROVE  /\ StandsFor(t, r, key) /\ StartsNothing(r)
           /\ r # <<>> /\ r[1].do = "set" /\ r[1].name = name /\ r[1].value = value
           /\ ToSet(r) = {r[1]}
  <1> DEFINE o == Set(name, value)
  <1>1. o.do = "set" /\ o.name = name /\ o.value = value
    BY DEF Set
  <1>2. r = <<o>>
    OBVIOUS
  <1> HIDE DEF o
  <1>3. o.do \in Plain /\ o.name \in Values
    BY <1>1 DEF Plain
  <1>4. OpFits(t, o, key) /\ o.do \notin {"start", "load LTSK", "make LTSK"}
    BY <1>3, PlainFits
  <1>5. HeadFits(t, o, key)
    <2>1. o.do \notin Writing /\ o.do # "return"
      BY <1>1 DEF Writing
    <2>2. QED
      BY <1>1, <2>1 DEF HeadFits
  <1>6. MayBeLast(o)
    BY <1>1 DEF MayBeLast, LastOnes
  <1>7. StandsFor(t, r, key)
    BY <1>2, <1>4, <1>5, <1>6, OneStands
  <1>8. ToSet(r) = {o} /\ r[1] = o /\ Len(r) = 1
    BY <1>2, OneLeft
  <1>9. r # <<>>
    BY <1>8, NothingLeft
  <1>10. QED
    BY <1>1, <1>4, <1>7, <1>8, <1>9 DEF StartsNothing

\* The same, for a plan that is given: what it needs, and what it comes to.
IsSetting(t, r, name, value, key) ==
    name \in Values /\ ValueFits(t, name, value, key) /\ r = <<Set(name, value)>>

IsSet(t, r, name, key) ==
    StandsFor(t, r, key) /\ StartsNothing(r) /\ r # <<>> /\ r[1].do = "set" /\ r[1].name = name

LEMMA SettingStands ==
    ASSUME NEW t, NEW r, NEW name, NEW value, NEW key, IsSetting(t, r, name, value, key)
    PROVE  IsSet(t, r, name, key)
  <1>1. name \in Values /\ ValueFits(t, name, value, key) /\ r = <<Set(name, value)>>
    BY DEF IsSetting
  <1>2. StandsFor(t, r, key)
    BY <1>1, SetStands
  <1>3. StartsNothing(r)
    BY <1>1, SetStands
  <1>4. r # <<>> /\ r[1].do = "set" /\ r[1].name = name
    BY <1>1, SetStands
  <1>5. QED
    BY <1>2, <1>3, <1>4 DEF IsSet

\* The step writes a value.
LEMMA StepSets ==
    ASSUME NEW key, StateFits(storage, key), Works(storage), NEW t, NEW r, NEW server, IsStep(storage.todo[1]),
           Moves(t, r, server), server = storage.server, t.asked = storage.asked,
           NEW name \in Values, NEW value, ValueFits(storage, name, value, key), r = <<Set(name, value)>>
    PROVE  StateFits(t, key)
  <1>1. ValueFits(t, name, value, key)
    BY ValueMoves
  <1>2. StandsFor(t, r, key)
    BY <1>1, SetStands
  <1>3. StartsNothing(r)
    BY <1>1, SetStands
  <1>4. QED
    BY <1>2, <1>3, StepContinues

\* The purge of a domain.
LEMMA PurgingFits ==
    ASSUME NEW t, NEW key, NEW o, NEW domain, o = PurgeDomain(domain),
           domain = "Configuration" => t.job = "restore"
    PROVE  /\ OpFits(t, o, key) /\ HeadFits(t, o, key) /\ MayBeLast(o) /\ o.do = "purge" /\ o.domain = domain
           /\ o.do \notin {"start", "load LTSK", "make LTSK"}
  <1>1. o.do = "purge" /\ o.domain = domain
    BY DEF PurgeDomain
  <1>2. (\A n : ~Removes(o, n)) /\ (WillRemove(o, LTSK) => domain = "Configuration")
    BY <1>1, KeysFit DEF Removes, WillRemove
  <1>3. /\ o.do \notin Calls \cup {"set", "remove", "return"} /\ o.do \notin Jobs /\ o.do \notin StartSteps
        /\ o.do \notin {"open", "set", "return"} /\ o.do \notin Writing /\ o.do # "enumerate"
    BY <1>1 DEF Calls, Jobs, Imports, StartSteps, Writing
  <1>4. o.do \in Calls \cup Jobs \cup StartSteps \cup {"set", "remove", "return", "purge", "enumerate"}
    BY <1>1
  <1>5. OpFits(t, o, key)
    BY <1>2, <1>3, <1>4 DEF OpFits
  <1>6. HeadFits(t, o, key)
    BY <1>3 DEF HeadFits
  <1>7. MayBeLast(o)
    BY <1>1 DEF MayBeLast, LastOnes
  <1>8. QED
    BY <1>1, <1>5, <1>6, <1>7

\* What the first operation makes of the store's user.
Yields(t, result) ==
    \/ result.error /\ t = Fails(disk)
    \/ ~result.error /\ Moves(t, result.todo, result.server)

LEMMA YieldsMore ==
    ASSUME NEW t, NEW r, Yields(t, More(r))
    PROVE  Moves(t, r, storage.server)
  BY Results DEF Yields

LEMMA YieldsError ==
    ASSUME NEW t, Yields(t, Error)
    PROVE  t = Fails(disk)
  BY Results DEF Yields

\* The step, and not what it is replaced by, decides what is asked for.
LEMMA StepAsks ==
    ASSUME NEW t, NEW r, NEW server, Moves(t, r, server), IsStep(storage.todo[1]),
           storage.todo[1].do # "enable", storage.todo[1].do # "disable"
    PROVE  t.asked = storage.asked
  BY DEF Moves, Asked, IsStep

\* HAPPairingPairings, at the start: without an administrator all pairings go.
LEMMA CleanupFits ==
    ASSUME StorageConstants, NEW key \in Nat \ {0}, StateFits(storage, key), Works(storage),
           storage.todo[1].do = "cleanup", NEW t, NEW result \in CleanupPairings, Yields(t, result)
    PROVE  StateFits(t, key)
  <1> DEFINE op == storage.todo[1]
             p == PurgeDomain("Pairings")
             o == RemoveKey(BroadcastParameters)
             r == result.todo
  <1>1. op.do \notin Calls /\ IsStep(op) /\ op.do # "enable" /\ op.do # "disable"
    BY DEF Calls, IsStep
  <1>2. \/ result = Error /\ \E n \in Listed("Pairings") : ~HasLength(n)
        \/ result = More(<<>>) \/ result = More(<<p, o>>) \/ result = More(<<o>>)
    BY DEF CleanupPairings
  <1>3. CASE result = Error /\ \E n \in Listed("Pairings") : ~HasLength(n)
    <2>1. t = Fails(disk)
      BY <1>3, YieldsError
    <2>2. DiskFits(disk)
      BY DEF StateFits, disk
    <2>3. PICK n \in Listed("Pairings") : ~HasLength(n)
      BY <1>3
    <2>4. n \in Values /\ Found(n)
      BY <2>2, ListedFits DEF Found
    <2>5. storage.excused
      BY <2>3, <2>4, FoundIsWhole
    <2>6. QED
      BY <1>1, <2>1, <2>5, ErrorFits
  <1>4. o.do = "remove" /\ o.name = BroadcastParameters
    BY DEF RemoveKey
  <1>5. OpFits(t, o, key) /\ HeadFits(t, o, key) /\ o.do \notin {"start", "load LTSK", "make LTSK"}
    BY <1>4, KeysFit, RemovingFits, ZenonT(60)
  <1>6. MayBeLast(o)
    BY <1>4 DEF MayBeLast, LastOnes
  <1>7. OpFits(t, p, key) /\ HeadFits(t, p, key) /\ p.do = "purge" /\ p.do \notin {"start", "load LTSK", "make LTSK"}
    <2> DEFINE domain == "Pairings"
    <2>1. p = PurgeDomain(domain) /\ (domain = "Configuration" => t.job = "restore")
      OBVIOUS
    <2> HIDE DEF p, domain
    <2>2. QED
      BY <2>1, PurgingFits
  <1>8. Follows(p, o)
    BY <1>4, <1>7 DEF Follows, Calls, Jobs, Imports
  <1>9. ASSUME NEW q, Moves(t, q, storage.server), StandsFor(t, q, key), StartsNothing(q)
        PROVE  StateFits(t, key)
    <2>1. t.asked = storage.asked
      BY <1>1, <1>9, StepAsks
    <2>2. QED
      BY <1>1, <1>9, <2>1, StepContinues
  <1> HIDE DEF o, p
  <1>10. CASE result = More(<<>>)
    <2>1. Moves(t, <<>>, storage.server)
      BY <1>10, YieldsMore
    <2>2. StartsNothing(<<>>)
      BY NothingLeft DEF StartsNothing
    <2>3. QED
      BY <1>9, <2>1, <2>2, NothingStands
  <1>11. CASE result = More(<<p, o>>)
    <2>1. Moves(t, <<p, o>>, storage.server)
      BY <1>11, YieldsMore
    <2>2. StartsNothing(<<p, o>>)
      <3>1. ToSet(<<p, o>>) = {p, o}
        BY TwoLeft
      <3> DEFINE q == <<p, o>>
      <3> HIDE DEF q
      <3>2. ToSet(q) = {p, o} => StartsNothing(q)
        BY <1>5, <1>7 DEF StartsNothing
      <3>3. QED
        BY <3>1, <3>2 DEF q
    <2>3. StandsFor(t, <<p, o>>, key)
      BY <1>5, <1>6, <1>7, <1>8, TwoStand
    <2>4. QED
      BY <1>9, <2>1, <2>2, <2>3
  <1>12. CASE result = More(<<o>>)
    <2>1. Moves(t, <<o>>, storage.server)
      BY <1>12, YieldsMore
    <2>2. StartsNothing(<<o>>)
      <3>1. ToSet(<<o>>) = {o}
        BY OneLeft
      <3> DEFINE q == <<o>>
      <3> HIDE DEF q
      <3>2. ToSet(q) = {o} => StartsNothing(q)
        BY <1>5 DEF StartsNothing
      <3>3. QED
        BY <3>1, <3>2 DEF q
    <2>3. StandsFor(t, <<o>>, key)
      BY <1>5, <1>6, OneStands
    <2>4. QED
      BY <1>9, <2>1, <2>2, <2>3
  <1>13. QED
    BY <1>2, <1>3, <1>10, <1>11, <1>12

\* A step that sets a value, unless it is there, or fails: never for want of a whole file.
LEMMA SettingFits ==
    ASSUME StorageConstants, NEW key \in Nat \ {0}, StateFits(storage, key), Works(storage),
           IsStep(storage.todo[1]), storage.todo[1].do # "enable", storage.todo[1].do # "disable",
           NEW name \in Values, NEW value, ValueFits(storage, name, value, key), NEW t, NEW result, Yields(t, result),
           \/ result = More(<<Set(name, value)>>)
           \/ result = More(<<>>)
           \/ result = Error /\ (~storage.excused => storage.job # "start")
    PROVE  StateFits(t, key)
  <1> DEFINE o == Set(name, value)
  <1>1. storage.todo[1].do \notin Calls
    BY StepFits
  <1>2. CASE result = Error /\ (~storage.excused => storage.job # "start")
    <2>1. t = Fails(disk)
      BY <1>2, YieldsError
    <2>2. QED
      BY <1>1, <1>2, <2>1, ErrorFits
  <1>3. CASE result = More(<<>>)
    <2>1. Moves(t, <<>>, storage.server)
      BY <1>3, YieldsMore
    <2>2. t.asked = storage.asked
      BY <2>1, StepAsks
    <2>3. QED
      BY <2>1, <2>2, StepDone
  <1>4. CASE result = More(<<Set(name, value)>>)
    <2> DEFINE r == <<Set(name, value)>>
    <2>1. Moves(t, r, storage.server)
      BY <1>4, YieldsMore
    <2>2. t.asked = storage.asked
      BY <2>1, StepAsks
    <2>3. QED
      BY <2>1, <2>2, StepSets
  <1>5. QED
    BY <1>2, <1>3, <1>4

\* HAPDeviceIDGetAsString
LEMMA DeviceIDFits ==
    ASSUME StorageConstants, NEW key \in Nat \ {0}, StateFits(storage, key), Works(storage),
           storage.todo[1].do = "device ID", NEW t, Yields(t, GetDeviceID)
    PROVE  StateFits(t, key)
  <1> DEFINE name == DeviceID
             value == <<Fresh>>
             result == GetDeviceID
  <1>1. IsStep(storage.todo[1]) /\ storage.todo[1].do # "enable" /\ storage.todo[1].do # "disable"
    BY DEF IsStep
  <1>2. name \in Values
    BY KeysFit
  <1>3. ValueFits(storage, name, value, key)
    BY KeysFit DEF ValueFits
  <1>4. \/ result = More(<<Set(name, value)>>)
        \/ result = More(<<>>)
        \/ result = Error /\ Found(name) /\ ~HasLength(name)
    BY DEF GetDeviceID
  <1>5. Found(name) /\ ~HasLength(name) => storage.excused
    BY <1>2, FoundIsWhole
  <1> HIDE DEF name, value, result
  <1>6. \/ result = More(<<Set(name, value)>>)
        \/ result = More(<<>>)
        \/ result = Error /\ (~storage.excused => storage.job # "start")
    BY <1>4, <1>5
  <1>7. QED
    BY <1>1, <1>2, <1>3, <1>6, SettingFits DEF result

\* HAPAccessoryServerGetCN
LEMMA CNFits ==
    ASSUME StorageConstants, NEW key \in Nat \ {0}, StateFits(storage, key), Works(storage),
           storage.todo[1].do = "CN", NEW t, Yields(t, GetCN)
    PROVE  StateFits(t, key)
  <1> DEFINE name == ConfigurationNumber
             value == <<1>>
             result == GetCN
  <1>1. IsStep(storage.todo[1]) /\ storage.todo[1].do # "enable" /\ storage.todo[1].do # "disable"
    BY DEF IsStep
  <1>2. name \in Values
    BY KeysFit
  <1>3. ValueFits(storage, name, value, key)
    BY KeysFit DEF ValueFits
  <1>4. \/ result = More(<<Set(name, value)>>)
        \/ result = More(<<>>)
        \/ result = Error /\ Found(name) /\ ~HasLength(name)
    BY DEF GetCN
  <1>5. Found(name) /\ ~HasLength(name) => storage.excused
    BY <1>2, FoundIsWhole
  <1> HIDE DEF name, value, result
  <1>6. \/ result = More(<<Set(name, value)>>)
        \/ result = More(<<>>)
        \/ result = Error /\ (~storage.excused => storage.job # "start")
    BY <1>4, <1>5
  <1>7. QED
    BY <1>1, <1>2, <1>3, <1>6, SettingFits DEF result

\* HAPAccessoryServerIncrementCN, when the configuration has changed
LEMMA IncrementCNFits ==
    ASSUME StorageConstants, NEW key \in Nat \ {0}, StateFits(storage, key), Works(storage),
           storage.todo[1].do = "increment CN", NEW t, NEW result \in {More(<<>>)} \cup IncrementCN,
           Yields(t, result)
    PROVE  StateFits(t, key)
  <1>1. IsStep(storage.todo[1]) /\ storage.todo[1].do # "enable" /\ storage.todo[1].do # "disable"
    BY DEF IsStep
  <1>2. ConfigurationNumber \in Values
    BY KeysFit
  <1>3. \E n : result = More(<<Set(ConfigurationNumber, <<NextCN(n)>>)>>) \/ result = More(<<>>)
    BY DEF IncrementCN
  <1>4. PICK n : result = More(<<Set(ConfigurationNumber, <<NextCN(n)>>)>>) \/ result = More(<<>>)
    BY <1>3
  <1> DEFINE name == ConfigurationNumber
             value == <<NextCN(n)>>
  <1>5. ValueFits(storage, name, value, key)
    BY KeysFit DEF ValueFits
  <1>6. name \in Values
    BY <1>2
  <1>7. \/ result = More(<<Set(name, value)>>)
        \/ result = More(<<>>)
        \/ result = Error /\ (~storage.excused => storage.job # "start")
    BY <1>4
  <1> HIDE DEF name, value
  <1>8. QED
    BY <1>1, <1>5, <1>6, <1>7, SettingFits

\* HAPLegacyImport
LEMMA ImportFits ==
    ASSUME StorageConstants, NEW key \in Nat \ {0}, StateFits(storage, key), Works(storage),
           storage.todo[1].do = "import", NEW t, Yields(t, Import(storage.todo[1].name, storage.todo[1].value))
    PROVE  StateFits(t, key)
  <1> DEFINE op == storage.todo[1]
             name == op.name
             value == op.value
             result == Import(name, value)
  <1>1. IsStep(op) /\ op.do # "enable" /\ op.do # "disable" /\ op.do \notin Calls /\ op.do \in Jobs
    BY DEF IsStep, Calls, Jobs, Imports
  <1>2. OpFits(storage, op, key)
    BY <1>1, OperationFits
  <1>3. /\ storage.job = "import" /\ name \in {LTSK, DeviceID, ConfigurationNumber}
        /\ name = LTSK => value[1] = key
    BY <1>1, <1>2 DEF OpFits, IsJob
  <1>4. name \in Values
    BY <1>3, KeysFit
  <1>5. ValueFits(storage, name, value, key)
    BY <1>3, KeysFit DEF ValueFits
  <1>6. \/ result = More(<<Set(name, value)>>)
        \/ result = More(<<>>)
        \/ result = Error /\ (~storage.excused => storage.job # "start")
    BY <1>3 DEF Import
  <1> HIDE DEF name, value, result, op
  <1>7. Yields(t, result)
    BY DEF name, value, result, op
  <1>8. IsStep(storage.todo[1]) /\ storage.todo[1].do # "enable" /\ storage.todo[1].do # "disable"
    BY <1>1 DEF op
  <1>9. QED
    BY <1>4, <1>5, <1>6, <1>7, <1>8, SettingFits

LEMMA ImportPairingFits ==
    ASSUME StorageConstants, NEW key \in Nat \ {0}, StateFits(storage, key), Works(storage),
           storage.todo[1].do = "import pairing", NEW t,
           Yields(t, ImportControllerPairing(storage.todo[1].key, storage.todo[1].ltsk, storage.todo[1].admin))
    PROVE  StateFits(t, key)
  <1> DEFINE op == storage.todo[1]
             name == Pairing(op.key)
             value == <<op.ltsk, op.admin>>
             result == ImportControllerPairing(op.key, op.ltsk, op.admin)
  <1>1. IsStep(op) /\ op.do # "enable" /\ op.do # "disable" /\ op.do \notin Calls /\ op.do \in Jobs
    BY DEF IsStep, Calls, Jobs, Imports
  <1>2. OpFits(storage, op, key)
    BY <1>1, OperationFits
  <1>3. storage.job = "import pairing" /\ op.key \in 1 .. MaxPairings /\ op.ltsk = key
    BY <1>1, <1>2 DEF OpFits, IsJob
  <1>4. name \in Values
    BY <1>3, KeysFit
  <1>5. ValueFits(storage, name, value, key)
    <2>1. value[1] = key /\ name # LTSK /\ name # Broadcasts
      BY <1>3, KeysFit
    <2> HIDE DEF name, value
    <2>2. QED
      BY <1>3, <2>1 DEF ValueFits
  <1>6. \/ result = More(<<Set(name, value)>>)
        \/ result = More(<<>>)
        \/ result = Error /\ (~storage.excused => storage.job # "start")
    BY <1>3 DEF ImportControllerPairing, Import
  <1> HIDE DEF name, value, result, op
  <1>7. Yields(t, result)
    BY DEF name, value, result, op
  <1>8. IsStep(storage.todo[1]) /\ storage.todo[1].do # "enable" /\ storage.todo[1].do # "disable"
    BY <1>1 DEF op
  <1>9. QED
    BY <1>4, <1>5, <1>6, <1>7, <1>8, SettingFits

\* The first key that is free: HAPPairingPairSetup, HAPPairingPairings.
LEMMA PairFits ==
    ASSUME StorageConstants, NEW key \in Nat \ {0}, StateFits(storage, key), Works(storage),
           storage.todo[1].do = "pair", NEW t, Yields(t, AddPairing(storage.todo[1].admin))
    PROVE  StateFits(t, key)
  <1> DEFINE op == storage.todo[1]
             free == (1 .. MaxPairings) \ Keys("Pairings")
             name == Pairing(Min(free))
             value == <<storage.server.ltsk, op.admin>>
             result == AddPairing(op.admin)
  <1>1. IsStep(op) /\ op.do # "enable" /\ op.do # "disable" /\ op.do \notin Calls /\ op.do \in Jobs
    BY DEF IsStep, Calls, Jobs, Imports
  <1>2. OpFits(storage, op, key)
    BY <1>1, OperationFits
  <1>3. storage.job = "pair"
    BY <1>1, <1>2 DEF OpFits
  <1>4. result = IF free = {} THEN Error ELSE More(<<Set(name, value)>>)
    BY DEF AddPairing
  <1>5. IsStep(storage.todo[1]) /\ storage.todo[1].do # "enable" /\ storage.todo[1].do # "disable"
    BY <1>1
  <1>6. value[1] = storage.server.ltsk
    OBVIOUS
  <1>7. Yields(t, result)
    OBVIOUS
  <1>8. free \subseteq Nat /\ free \subseteq 1 .. MaxPairings
    BY DEF StorageConstants
  <1> HIDE DEF op, value, result
  <1>9. CASE free = {}
    <2>1. result = Error /\ storage.job # "start"
      BY <1>3, <1>4, <1>9
    <2>2. t = Fails(disk)
      BY <1>7, <2>1, YieldsError
    <2>3. QED
      BY <1>1, <2>1, <2>2, ErrorFits DEF op
  <1>10. CASE free # {}
    <2> HIDE DEF free
    <2>1. Min(free) \in 1 .. MaxPairings
      BY <1>8, <1>10, LeastNumber
    <2>2. name \in Values /\ name # LTSK /\ name # Broadcasts
      BY <2>1, KeysFit
    <2> HIDE DEF name
    <2>3. ValueFits(storage, name, value, key)
      BY <1>3, <1>6, <2>2 DEF ValueFits
    <2>4. \/ result = More(<<Set(name, value)>>)
          \/ result = More(<<>>)
          \/ result = Error /\ (~storage.excused => storage.job # "start")
      BY <1>4, <1>10
    <2>5. QED
      BY <1>5, <1>7, <2>2, <2>3, <2>4, SettingFits
  <1>11. QED
    BY <1>9, <1>10

\* HAPBLEAccessoryServer: the key of broadcasts.
LEMMA BroadcastKeyFits ==
    ASSUME StorageConstants, NEW key \in Nat \ {0}, StateFits(storage, key), Works(storage),
           storage.todo[1].do = "broadcast key", NEW t, Yields(t, More(<<Set(BroadcastParameters, <<storage.server.ltsk>>)>>))
    PROVE  StateFits(t, key)
  <1> DEFINE name == BroadcastParameters
             value == <<storage.server.ltsk>>
             result == More(<<Set(name, value)>>)
  <1>1. IsStep(storage.todo[1]) /\ storage.todo[1].do # "enable" /\ storage.todo[1].do # "disable"
    BY DEF IsStep
  <1>2. name \in Values /\ name # LTSK /\ name # Broadcasts /\ \A k \in 1 .. MaxPairings : name # Pairing(k)
    BY KeysFit
  <1>3. Yields(t, result)
    OBVIOUS
  <1> HIDE DEF name, value
  <1>4. ValueFits(storage, name, value, key)
    BY <1>2 DEF ValueFits
  <1>5. \/ result = More(<<Set(name, value)>>)
        \/ result = More(<<>>)
        \/ result = Error /\ (~storage.excused => storage.job # "start")
    OBVIOUS
  <1> HIDE DEF result
  <1>6. QED
    BY <1>1, <1>2, <1>3, <1>4, <1>5, SettingFits

\* HAPRestoreFactorySettings
LEMMA RestoreFits ==
    ASSUME StorageConstants, NEW key \in Nat \ {0}, StateFits(storage, key), Works(storage),
           storage.todo[1].do = "restore", NEW t, Yields(t, More(RestoreFactorySettings))
    PROVE  StateFits(t, key)
  <1> DEFINE op == storage.todo[1]
             o == PurgeDomain("Configuration")
             p == PurgeDomain("CharacteristicConfiguration")
             q == PurgeDomain("Pairings")
             r == <<o, p, q>>
  <1>1. IsStep(op) /\ op.do # "enable" /\ op.do # "disable" /\ op.do \notin Calls /\ op.do \in Jobs
    BY DEF IsStep, Calls, Jobs
  <1>2. OpFits(storage, op, key)
    BY <1>1, OperationFits
  <1>3. storage.job = "restore"
    BY <1>1, <1>2 DEF OpFits
  <1>4. Moves(t, r, storage.server)
    BY YieldsMore DEF RestoreFactorySettings
  <1>5. t.job = "restore"
    BY <1>3, <1>4 DEF Moves
  <1>6. t.asked = storage.asked
    BY <1>1, <1>4, StepAsks
  <1>7. OpFits(t, o, key) /\ HeadFits(t, o, key) /\ o.do = "purge"
    BY <1>5, PurgingFits
  <1>8. OpFits(t, p, key) /\ p.do = "purge"
    BY <1>5, PurgingFits
  <1>9. OpFits(t, q, key) /\ q.do = "purge" /\ MayBeLast(q)
    BY <1>5, PurgingFits
  <1>10. ToSet(r) = {o, p, q}
    BY ThreeLeft
  <1> HIDE DEF o, p, q
  <1>11. Follows(o, p) /\ Follows(p, q)
    BY <1>7, <1>8, <1>9 DEF Follows, Calls, Jobs, Imports
  <1>12. StandsFor(t, r, key)
    BY <1>7, <1>8, <1>9, <1>11, ThreeStand
  <1> HIDE DEF r
  <1>13. StartsNothing(r)
    BY <1>7, <1>8, <1>9, <1>10 DEF StartsNothing
  <1>14. QED
    BY <1>1, <1>4, <1>6, <1>12, <1>13, StepContinues

\* HAPRemoveAllPairings
LEMMA RemoveAllFits ==
    ASSUME StorageConstants, NEW key \in Nat \ {0}, StateFits(storage, key), Works(storage),
           storage.todo[1].do = "remove all pairings", NEW t, Yields(t, More(RemoveAllPairings))
    PROVE  StateFits(t, key)
  <1> DEFINE op == storage.todo[1]
             domain == "Pairings"
             q == PurgeDomain("Pairings")
             r == <<q>>
  <1>1. IsStep(op) /\ op.do # "enable" /\ op.do # "disable"
    BY DEF IsStep
  <1>2. Moves(t, r, storage.server)
    BY YieldsMore DEF RemoveAllPairings
  <1>3. t.asked = storage.asked
    BY <1>1, <1>2, StepAsks
  <1>4. OpFits(t, q, key) /\ HeadFits(t, q, key) /\ q.do = "purge" /\ MayBeLast(q)
    <2>1. q = PurgeDomain(domain) /\ (domain = "Configuration" => t.job = "restore")
      OBVIOUS
    <2> HIDE DEF q, domain
    <2>2. QED
      BY <2>1, PurgingFits
  <1>5. ToSet(r) = {q}
    BY OneLeft
  <1> HIDE DEF q
  <1>6. StandsFor(t, r, key)
    BY <1>4, OneStands
  <1> HIDE DEF r
  <1>7. StartsNothing(r)
    BY <1>4, <1>5 DEF StartsNothing
  <1>8. QED
    BY <1>1, <1>2, <1>3, <1>6, <1>7, StepContinues

-----------------------------------------------------------------------------
(* Broadcasts are enabled and disabled *)

\* The configuration that a change starts from.
LEMMA ConfigurationFits ==
    ASSUME NEW key, StateFits(storage, key), Works(storage),
           storage.todo[1].do = "enable" \/ storage.todo[1].do = "disable"
    PROVE  /\ Configuration = ConfigurationOf(Current(disk)) /\ InOrder(Configuration)
           /\ ToSet(Configuration) = storage.asked /\ Rest(storage.todo) = {} /\ storage.job # "start"
           /\ OpFits(storage, storage.todo[1], key) /\ IsJob(storage.todo[1], key)
  <1> DEFINE op == storage.todo[1]
  <1>1. op.do \notin Calls /\ op.do \in Jobs
    BY DEF Calls, Jobs
  <1>2. /\ OpFits(storage, op, key) /\ ToSet(storage.todo) = {op} \cup Rest(storage.todo) /\ Rest(storage.todo) = {}
    BY <1>1, OperationFits
  <1>3. storage.job # "start" /\ IsJob(op, key)
    BY <1>1, <1>2 DEF OpFits
  <1>4. Configuration = ConfigurationOf(Current(disk))
    BY CurrentFits DEF Configuration, Found, Get
  <1>5. ViewFits(Current(disk))
    BY CurrentFits DEF StateFits, ContentsFit, disk
  <1>6. InOrder(Configuration)
    <2>1. InOrder(<<>>)
      BY DEF InOrder
    <2>2. QED
      BY <1>4, <1>5, <2>1 DEF ViewFits, ConfigurationOf
  <1>7. ToSet(Configuration) = storage.asked
    <2>1. AskedFits(storage)
      BY DEF StateFits
    <2>2. ~Writes(storage, Broadcasts)
      BY DEF Writes, Writing
    <2>3. \A o \in ToSet(storage.todo) : ~Removes(o, Broadcasts)
      BY <1>2 DEF Removes
    <2>4. QED
      BY <1>4, <2>1, <2>2, <2>3 DEF AskedFits, disk
  <1>8. QED
    BY <1>2, <1>3, <1>4, <1>6, <1>7

\* Broadcasts are asked for, and what has been asked for will be in the store.
LEMMA AsksFit ==
    ASSUME NEW key, StateFits(storage, key), Works(storage),
           storage.todo[1].do = "enable" \/ storage.todo[1].do = "disable",
           NEW t, NEW r, NEW server, Moves(t, r, server), server = storage.server,
           StandsFor(t, r, key), StartsNothing(r),
           \/ ToSet(Configuration) = t.asked
           \/ r # <<>> /\ r[1].do = "set" /\ r[1].name = Broadcasts
           \/ \E o \in ToSet(r) : Removes(o, Broadcasts)
    PROVE  StateFits(t, key)
  <1>1. IsStep(storage.todo[1])
    BY DEF IsStep
  <1>2. storage.todo[1].do \notin Calls /\ KeepsServer(storage.todo[1]) /\ Replaces(storage.todo[1], r)
    BY <1>1, StepFits, StepReplaced
  <1>3. Ordinary(t, r, server, key)
    BY <1>2 DEF Ordinary
  <1>4. AsksAlike(t)
    BY ConfigurationFits DEF AsksAlike
  <1>5. Continues(storage, t, r, key)
    BY <1>3, <1>4, OrdinaryServer
  <1>6. ServerFits(t)
    BY <1>3, <1>4, OrdinaryServer
  <1>7. TodoFits(storage, key)
    BY DEF StateFits
  <1>8. AskedFits(t)
    <2>1. t.disk = disk
      BY DEF Moves, disk
    <2>2. CASE ToSet(Configuration) = t.asked
      BY <2>1, <2>2, ConfigurationFits DEF AskedFits
    <2>3. CASE r # <<>> /\ r[1].do = "set" /\ r[1].name = Broadcasts
      <3>1. Works(t) <=> (r # <<>> \/ Len(storage.todo) > 1)
        BY <1>5, <1>7, TodoContinues
      <3>2. r # <<>> => t.todo[1] = r[1]
        BY <1>5, <1>7, TodoContinues
      <3>3. Writes(t, Broadcasts)
        BY <2>3, <3>1, <3>2 DEF Writes
      <3>4. QED
        BY <3>3 DEF AskedFits
    <2>4. CASE \E o \in ToSet(r) : Removes(o, Broadcasts)
      <3>1. ToSet(t.todo) = ToSet(r) \cup Rest(storage.todo)
        BY <1>5, <1>7, TodoContinues
      <3>2. QED
        BY <2>4, <3>1 DEF AskedFits
    <2>5. QED
      BY <2>2, <2>3, <2>4
  <1>9. QED
    BY <1>2, <1>5, <1>6, <1>8, MovesFit

\* HAPBLECharacteristicEnableBroadcastNotifications
LEMMA EnableFits ==
    ASSUME StorageConstants, NEW key \in Nat \ {0}, StateFits(storage, key), Works(storage),
           storage.todo[1].do = "enable", NEW t, Yields(t, EnableBroadcasts(storage.todo[1].cid, storage.todo[1].interval))
    PROVE  StateFits(t, key)
  <1> DEFINE op == storage.todo[1]
             cid == op.cid
             interval == op.interval
             c == Configuration
             value == Enable(c, cid, interval)
             result == EnableBroadcasts(cid, interval)
             already == [enabled |-> TRUE, interval |-> interval]
  <1>1. op.do = "enable" /\ op.do \notin Calls
    BY DEF Calls
  <1>2. /\ InOrder(c) /\ ToSet(c) = storage.asked /\ storage.job # "start" /\ IsJob(op, key)
    BY <1>1, ConfigurationFits
  <1>3. cid \in Nat /\ interval \in Nat
    BY <1>1, <1>2 DEF IsJob
  <1>4. \/ result = Error
        \/ result = More(<<>>) /\ GetBroadcastConfiguration(c, cid) = already
        \/ result = More(<<Set(Broadcasts, value)>>)
    BY DEF EnableBroadcasts
  <1>5. ASSUME NEW r, Moves(t, r, storage.server)
        PROVE  t.asked = {pair \in ToSet(c) : pair[1] # cid} \cup {<<cid, interval>>}
    BY <1>1, <1>2, <1>5 DEF Moves, Asked
  <1> HIDE DEF c, cid, interval, result
  <1>6. CASE result = Error
    <2>1. t = Fails(disk)
      BY <1>6, YieldsError DEF result, cid, interval
    <2>2. QED
      BY <1>1, <1>2, <2>1, ErrorFits
  <1>7. CASE result = More(<<>>) /\ GetBroadcastConfiguration(c, cid) = already
    <2>1. Moves(t, <<>>, storage.server)
      BY <1>7, YieldsMore DEF result, cid, interval
    <2>2. ToSet(c) = {pair \in ToSet(c) : pair[1] # cid} \cup {<<cid, interval>>}
      BY <1>2, <1>3, <1>7, EnabledAlready
    <2>3. ToSet(c) = t.asked
      BY <1>5, <2>1, <2>2
    <2>4. StartsNothing(<<>>)
      BY NothingLeft DEF StartsNothing
    <2> DEFINE r == <<>>
    <2>5. Moves(t, r, storage.server) /\ StandsFor(t, r, key) /\ StartsNothing(r)
      BY <2>1, <2>4, NothingStands
    <2> HIDE DEF r
    <2>6. QED
      BY <1>1, <2>3, <2>5, AsksFit DEF c
  <1>8. CASE result = More(<<Set(Broadcasts, value)>>)
    <2> DEFINE name == Broadcasts
               r == <<Set(name, value)>>
    <2>1. Moves(t, r, storage.server)
      BY <1>8, YieldsMore DEF result, cid, interval
    <2>2. InOrder(value) /\ ToSet(value) = {pair \in ToSet(c) : pair[1] # cid} \cup {<<cid, interval>>}
      BY <1>2, <1>3, EnabledFits, SMTT(40)
    <2>3. t.asked = ToSet(value)
      BY <1>5, <2>1, <2>2
    <2>4. name \in Values /\ name = Broadcasts /\ name # LTSK /\ \A k \in 1 .. MaxPairings : name # Pairing(k)
      BY KeysFit
    <2> HIDE DEF name, value
    <2>5. ValueFits(t, name, value, key)
      BY <2>2, <2>3, <2>4 DEF ValueFits
    <2>10. r = <<Set(name, value)>>
      OBVIOUS
    <2> HIDE DEF r
    <2>6. IsSetting(t, r, name, value, key)
      BY <2>4, <2>5, <2>10 DEF IsSetting
    <2>7. IsSet(t, r, name, key)
      BY <2>6, SettingStands
    <2>8. StandsFor(t, r, key) /\ StartsNothing(r) /\ r # <<>> /\ r[1].do = "set" /\ r[1].name = name
      BY <2>7 DEF IsSet
    <2>9. QED
      BY <1>1, <2>1, <2>4, <2>8, AsksFit
  <1>9. QED
    BY <1>4, <1>6, <1>7, <1>8

\* HAPBLECharacteristicDisableBroadcastNotifications: the last one is removed with its key.
LEMMA DisableFits ==
    ASSUME StorageConstants, NEW key \in Nat \ {0}, StateFits(storage, key), Works(storage),
           storage.todo[1].do = "disable", NEW t, Yields(t, DisableBroadcasts(storage.todo[1].cid))
    PROVE  StateFits(t, key)
  <1> DEFINE op == storage.todo[1]
             cid == op.cid
             c == Configuration
             value == Disable(c, cid)
             result == DisableBroadcasts(cid)
  <1>1. op.do = "disable" /\ op.do \notin Calls
    BY DEF Calls
  <1>2. /\ InOrder(c) /\ ToSet(c) = storage.asked /\ storage.job # "start" /\ IsJob(op, key)
    BY <1>1, ConfigurationFits
  <1>3. cid \in Nat
    BY <1>1, <1>2 DEF IsJob
  <1>4. \/ result = Error
        \/ result = More(<<>>) /\ value = c
        \/ result = More(<<RemoveKey(Broadcasts)>>) /\ value = <<>>
        \/ result = More(<<Set(Broadcasts, value)>>)
    BY DEF DisableBroadcasts
  <1>5. ASSUME NEW r, Moves(t, r, storage.server)
        PROVE  t.asked = {pair \in ToSet(c) : pair[1] # cid}
    BY <1>1, <1>2, <1>5 DEF Moves, Asked
  <1>6. InOrder(value) /\ ToSet(value) = {pair \in ToSet(c) : pair[1] # cid}
    BY <1>2, <1>3, DisabledFits
  <1> HIDE DEF c, cid, result
  <1>7. CASE result = Error
    <2>1. t = Fails(disk)
      BY <1>7, YieldsError DEF result, cid
    <2>2. QED
      BY <1>1, <1>2, <2>1, ErrorFits
  <1>8. CASE result = More(<<>>) /\ value = c
    <2>1. Moves(t, <<>>, storage.server)
      BY <1>8, YieldsMore DEF result, cid
    <2>2. ToSet(c) = t.asked
      BY <1>5, <1>6, <1>8, <2>1
    <2>3. StartsNothing(<<>>)
      BY NothingLeft DEF StartsNothing
    <2> DEFINE r == <<>>
    <2>4. Moves(t, r, storage.server) /\ StandsFor(t, r, key) /\ StartsNothing(r)
      BY <2>1, <2>3, NothingStands
    <2> HIDE DEF r
    <2>5. QED
      BY <1>1, <2>2, <2>4, AsksFit DEF c
  <1>9. CASE result = More(<<RemoveKey(Broadcasts)>>) /\ value = <<>>
    <2> DEFINE o == RemoveKey(Broadcasts)
               r == <<o>>
    <2>1. Moves(t, r, storage.server)
      BY <1>9, YieldsMore DEF result, cid
    <2>2. t.asked = {}
      BY <1>5, <1>6, <1>9, <2>1, NothingLeft
    <2>3. o.do = "remove" /\ o.name = Broadcasts
      BY DEF RemoveKey
    <2>4. ToSet(r) = {o}
      BY OneLeft
    <2> HIDE DEF o
    <2>5. /\ OpFits(t, o, key) /\ HeadFits(t, o, key) /\ Removes(o, Broadcasts)
          /\ o.do \notin {"start", "load LTSK", "make LTSK"}
      BY <2>2, <2>3, KeysFit, RemovingFits
    <2>6. MayBeLast(o)
      BY <2>3 DEF MayBeLast, LastOnes
    <2>7. StandsFor(t, r, key)
      BY <2>5, <2>6, OneStands
    <2> HIDE DEF r
    <2>8. StartsNothing(r) /\ \E p \in ToSet(r) : Removes(p, Broadcasts)
      BY <2>4, <2>5 DEF StartsNothing
    <2>9. QED
      BY <1>1, <2>1, <2>7, <2>8, AsksFit
  <1>10. CASE result = More(<<Set(Broadcasts, value)>>)
    <2> DEFINE name == Broadcasts
               r == <<Set(name, value)>>
    <2>1. Moves(t, r, storage.server)
      BY <1>10, YieldsMore DEF result, cid
    <2>2. t.asked = ToSet(value)
      BY <1>5, <1>6, <2>1
    <2>3. name \in Values /\ name = Broadcasts /\ name # LTSK /\ \A k \in 1 .. MaxPairings : name # Pairing(k)
      BY KeysFit
    <2> HIDE DEF name, value
    <2>4. ValueFits(t, name, value, key)
      BY <1>6, <2>2, <2>3 DEF ValueFits
    <2>10. name \in Values
      BY <2>3
    <2>9. r = <<Set(name, value)>>
      OBVIOUS
    <2> HIDE DEF r
    <2>5. IsSetting(t, r, name, value, key)
      BY <2>4, <2>9, <2>10 DEF IsSetting
    <2>6. IsSet(t, r, name, key)
      BY <2>5, SettingStands
    <2>7. StandsFor(t, r, key) /\ StartsNothing(r) /\ r # <<>> /\ r[1].do = "set" /\ r[1].name = name
      BY <2>6 DEF IsSet
    <2>8. QED
      BY <1>1, <2>1, <2>3, <2>7, AsksFit
  <1>11. QED
    BY <1>4, <1>7, <1>8, <1>9, <1>10

\* Operations that neither write nor remove what is broadcast.
LEMMA AskedStill ==
    ASSUME NEW key, StateFits(storage, key), Works(storage),
           storage.todo[1].do \in StartSteps \/ storage.todo[1].do = "stop",
           NEW t, NEW r, NEW server, Moves(t, r, server), Rest(storage.todo) \subseteq ToSet(t.todo)
    PROVE  AskedFits(t) /\ t.asked = storage.asked
  <1> DEFINE op == storage.todo[1]
  <1>1. op.do \notin Calls \cup {"set", "remove", "enumerate", "purge", "enable", "disable"}
    BY DEF StartSteps, Calls
  <1>2. t.asked = storage.asked /\ t.disk = storage.disk
    BY <1>1 DEF Moves, Asked
  <1>3. ToSet(storage.todo) = {op} \cup Rest(storage.todo)
    BY <1>1, OperationFits
  <1>4. ~Writes(storage, Broadcasts)
    BY <1>1 DEF Writes, Writing, Calls
  <1>5. ~Removes(op, Broadcasts)
    BY <1>1 DEF Removes, Calls
  <1>6. AskedFits(storage)
    BY DEF StateFits
  <1>7. QED
    BY <1>2, <1>3, <1>4, <1>5, <1>6 DEF AskedFits

-----------------------------------------------------------------------------
(* A start, and the secret key it makes or finds *)

\* The server that a step of a start leaves.
Finds(result, r, x) ==
    DOMAIN storage.server = {"running", "ltsk"} /\ result = [More(r) EXCEPT !.server.ltsk = x]

HasFound(result, r, x) ==
    /\ ~result.error /\ result.todo = r /\ DOMAIN result.server = {"running", "ltsk"}
    /\ result.server.ltsk = x /\ result.server.running = storage.server.running

LEMMA ServerResults ==
    ASSUME NEW r, NEW x, NEW result, Finds(result, r, x)
    PROVE  HasFound(result, r, x)
  <1> DEFINE server == [storage.server EXCEPT !.ltsk = x]
  <1>0. DOMAIN storage.server = {"running", "ltsk"} /\ result = [More(r) EXCEPT !.server.ltsk = x]
    BY DEF Finds
  <1>1. ~result.error
    BY <1>0 DEF More
  <1>2. result.todo = r /\ result.server = server
    BY <1>0 DEF More
  <1>3. DOMAIN server = {"running", "ltsk"} /\ server.ltsk = x
    BY <1>0
  <1>4. server.running = storage.server.running
    BY <1>0
  <1>5. QED
    BY <1>1, <1>2, <1>3, <1>4 DEF HasFound

LEMMA RunningResults ==
    ASSUME DOMAIN storage.server = {"running", "ltsk"}
    PROVE  LET result == [More(<<>>) EXCEPT !.server.running = TRUE]
           IN /\ ~result.error /\ result.todo = <<>> /\ DOMAIN result.server = {"running", "ltsk"}
              /\ result.server.ltsk = storage.server.ltsk /\ result.server.running
  <1> DEFINE result == [More(<<>>) EXCEPT !.server.running = TRUE]
             server == [storage.server EXCEPT !.running = TRUE]
  <1>1. ~result.error
    BY DEF More
  <1>2. result.todo = <<>> /\ result.server = server
    BY DEF More
  <1>3. DOMAIN server = {"running", "ltsk"} /\ server.ltsk = storage.server.ltsk
    OBVIOUS
  <1>4. server.running
    OBVIOUS
  <1>5. QED
    BY <1>1, <1>2, <1>3, <1>4

LEMMA StoppedResults ==
    LET result == [More(<<>>) EXCEPT !.server = NoServer]
    IN ~result.error /\ result.todo = <<>> /\ result.server = NoServer
  <1> DEFINE result == [More(<<>>) EXCEPT !.server = NoServer]
  <1>1. ~result.error
    BY DEF More
  <1>2. result.todo = <<>> /\ result.server = NoServer
    BY DEF More
  <1>3. QED
    BY <1>1, <1>2

\* After the secret key is there, what is left of a start makes no other.
LaterSteps == {"cleanup", "increment CN", "device ID", "CN", "run"}

FindsKey(op) == op.do \in {"load LTSK", "make LTSK"}

LEMMA StartChain ==
    ASSUME NEW key, StateFits(storage, key), Works(storage), FindsKey(storage.todo[1])
    PROVE  \A o \in Rest(storage.todo) : o.do \in LaterSteps
  <1> DEFINE plan == storage.todo
             n == Len(plan)
  <1>1. TodoFits(storage, key)
    BY DEF StateFits
  <1>2. n \in Nat \ {0}
    BY <1>1, NextFits
  <1>3. \A i \in 1 .. n : i < n => Follows(plan[i], plan[i + 1])
    BY <1>1 DEF TodoFits
  <1>4. FindsKey(plan[1])
    OBVIOUS
  <1> HIDE DEF n, plan
  <1>5. n > 1 => plan[2].do = "cleanup"
    <2>1. n > 1 => Follows(plan[1], plan[2])
      BY <1>2, <1>3
    <2>2. QED
      BY <1>4, <2>1 DEF Follows, FindsKey
  <1>6. n > 2 => plan[3].do = "increment CN"
    <2>1. n > 2 => Follows(plan[2], plan[3]) /\ n > 1
      BY <1>2, <1>3
    <2>2. QED
      BY <1>5, <2>1 DEF Follows
  <1>7. n > 3 => plan[4].do = "device ID"
    <2>1. n > 3 => Follows(plan[3], plan[4]) /\ n > 2
      BY <1>2, <1>3
    <2>2. QED
      BY <1>6, <2>1 DEF Follows
  <1>8. n > 4 => plan[5].do = "CN"
    <2>1. n > 4 => Follows(plan[4], plan[5]) /\ n > 3
      BY <1>2, <1>3
    <2>2. QED
      BY <1>7, <2>1 DEF Follows
  <1>9. n > 5 => plan[6].do = "run"
    <2>1. n > 5 => Follows(plan[5], plan[6]) /\ n > 4
      BY <1>2, <1>3
    <2>2. QED
      BY <1>8, <2>1 DEF Follows
  <1>10. n <= 6
    <2>1. n > 6 => Follows(plan[6], plan[7]) /\ n > 5
      BY <1>2, <1>3
    <2>2. ~(n > 6)
      BY <1>9, <2>1 DEF Follows
    <2>3. QED
      BY <1>2, <2>2
  <1>11. ASSUME NEW i \in 2 .. n PROVE plan[i].do \in LaterSteps
    <2>1. \/ i = 2 /\ n > 1
          \/ i = 3 /\ n > 2
          \/ i = 4 /\ n > 3
          \/ i = 5 /\ n > 4
          \/ i = 6 /\ n > 5
      BY <1>2, <1>10
    <2>2. QED
      BY <1>5, <1>6, <1>7, <1>8, <1>9, <2>1 DEF LaterSteps
  <1>12. QED
    BY <1>11 DEF Rest, plan, n

\* A step of a start: what is known of the server.
LEMMA StartFits ==
    ASSUME NEW key, StateFits(storage, key), Works(storage), storage.todo[1].do \in StartSteps
    PROVE  /\ storage.job = "start" /\ ~storage.server.running /\ storage.todo[1].do \notin Calls
           /\ storage.server.running \in BOOLEAN
           /\ DOMAIN storage.server = {"running", "ltsk"}
           /\ storage.server.ltsk = 0 <=> Has(storage, {"start", "load LTSK", "make LTSK"})
           /\ FindsKey(storage.todo[1]) => Len(storage.todo) > 1
           /\ ViewFits(Current(disk)) /\ storage.made \in Nat
           /\ storage.todo[1] \in ToSet(storage.todo)
  <1> DEFINE op == storage.todo[1]
  <1>1. op.do \notin Calls
    BY DEF StartSteps, Calls
  <1>2. /\ OpFits(storage, op, key) /\ ToSet(storage.todo) = {op} \cup Rest(storage.todo)
        /\ Len(storage.todo) \in Nat \ {0}
        /\ Len(storage.todo) = 1 /\ storage.job = "start" => op.do \in {"start", "run"}
    BY <1>1, OperationFits
  <1>3. storage.job = "start"
    BY <1>2 DEF OpFits
  <1>4. /\ ServerFits(storage) /\ storage.made \in Nat /\ ContentsFit(storage, key)
    BY DEF StateFits
  <1>5. ViewFits(Current(disk))
    BY <1>4, CurrentFits DEF ContentsFit, disk
  <1>6. /\ ~storage.server.running /\ DOMAIN storage.server = {"running", "ltsk"}
        /\ storage.server.running \in BOOLEAN
        /\ storage.server.ltsk = 0 <=> Has(storage, {"start", "load LTSK", "make LTSK"})
    BY <1>3, <1>4 DEF ServerFits
  <1>7. FindsKey(op) => Len(storage.todo) > 1
    <2>1. FindsKey(op) => op.do \notin {"start", "run"}
      BY DEF FindsKey
    <2>2. FindsKey(op) => Len(storage.todo) # 1
      BY <1>2, <1>3, <2>1
    <2>3. ASSUME NEW n \in Nat \ {0}, n # 1 PROVE n > 1
      BY <2>3
    <2>4. QED
      BY <1>2, <2>2, <2>3
  <1>8. QED
    BY <1>1, <1>2, <1>3, <1>4, <1>5, <1>6, <1>7

\* HAPAccessoryServerStop
LEMMA StopFits ==
    ASSUME NEW key, StateFits(storage, key), Works(storage), storage.todo[1].do = "stop", NEW t,
           NEW result, result = [More(<<>>) EXCEPT !.server = NoServer], Yields(t, result)
    PROVE  StateFits(t, key)
  <1> DEFINE r == <<>>
             server == NoServer
  <1>1. storage.todo[1].do \notin Calls /\ storage.todo[1].do \in Jobs
    BY DEF Calls, Jobs
  <1>2. Moves(t, r, server)
    BY StoppedResults DEF Yields
  <1>3. Rest(storage.todo) = {} /\ Len(storage.todo) = 1
    BY <1>1, OperationFits
  <1>4. StandsFor(t, r, key)
    BY NothingStands
  <1>5. AsksAlike(t) /\ TodoFits(storage, key)
    BY <1>3 DEF AsksAlike, StateFits
  <1> HIDE DEF r, server
  <1>6. Continues(storage, t, r, key)
    BY <1>1, <1>2, <1>4, <1>5, MovesContinue DEF r
  <1>7. Works(t) <=> (r # <<>> \/ Len(storage.todo) > 1)
    BY <1>5, <1>6, TodoContinues
  <1>8. ToSet(t.todo) = ToSet(r) \cup Rest(storage.todo)
    BY <1>5, <1>6, TodoContinues
  <1>9. ~Works(t) /\ ToSet(t.todo) = {}
    BY <1>3, <1>7, <1>8, NothingLeft DEF r
  <1>10. ServerFits(t)
    <2>1. t.server = NoServer
      BY <1>2 DEF Moves, server
    <2>2. QED
      BY <1>9, <2>1, NobodyRuns DEF ServerFits, Has
  <1>11. AskedFits(t)
    BY <1>2, <1>3, AskedStill
  <1>12. QED
    BY <1>1, <1>2, <1>6, <1>10, <1>11, MovesFit

\* The server runs with the key that is in the store.
LEMMA RunFits ==
    ASSUME NEW key, StateFits(storage, key), Works(storage), storage.todo[1].do = "run", NEW t,
           NEW result, result = [More(<<>>) EXCEPT !.server.running = TRUE], Yields(t, result)
    PROVE  StateFits(t, key)
  <1> DEFINE r == <<>>
             op == storage.todo[1]
             server == result.server
  <1>1. op.do \in StartSteps
    BY DEF StartSteps
  <1>2. /\ storage.job = "start" /\ op.do \notin Calls /\ DOMAIN storage.server = {"running", "ltsk"}
        /\ storage.server.ltsk = 0 <=> Has(storage, {"start", "load LTSK", "make LTSK"})
    BY <1>1, StartFits
  <1>3. ~result.error /\ result.todo = r
    BY <1>2, RunningResults
  <1>4. DOMAIN server = {"running", "ltsk"} /\ server.ltsk = storage.server.ltsk /\ server.running
    BY <1>2, RunningResults
  <1> HIDE DEF server, r, op
  <1>5. Moves(t, r, server)
    BY <1>3 DEF Yields, server
  <1>6. Rest(storage.todo) = {} /\ Len(storage.todo) = 1 /\ ToSet(storage.todo) = {op} \cup Rest(storage.todo)
    BY <1>2, OperationFits DEF op
  <1>7. StandsFor(t, r, key)
    BY NothingStands DEF r
  <1>8. AsksAlike(t) /\ TodoFits(storage, key) /\ ServerFits(storage)
    BY <1>6 DEF AsksAlike, StateFits
  <1>9. Continues(storage, t, r, key)
    BY <1>2, <1>5, <1>7, <1>8, MovesContinue DEF r, op
  <1>10. Works(t) <=> (r # <<>> \/ Len(storage.todo) > 1)
    BY <1>8, <1>9, TodoContinues
  <1>11. ToSet(t.todo) = ToSet(r) \cup Rest(storage.todo)
    BY <1>8, <1>9, TodoContinues
  <1>12. ~Works(t) /\ ToSet(t.todo) = {}
    BY <1>6, <1>10, <1>11, NothingLeft DEF r
  <1>13. ServerFits(t)
    <2>1. t.server = server /\ t.disk = storage.disk
      BY <1>5 DEF Moves
    <2>2. storage.server.ltsk # 0
      BY <1>2, <1>6 DEF Has, op
    <2>3. ~Writes(storage, LTSK)
      BY DEF Writes, Writing
    <2>4. Current(storage.disk)[LTSK].found /\ Current(storage.disk)[LTSK].value[1] = storage.server.ltsk
      BY <1>8, <2>2, <2>3 DEF ServerFits
    <2>5. server.running \in BOOLEAN
      BY <1>4
    <2>6. QED
      BY <1>4, <1>12, <2>1, <2>2, <2>4, <2>5 DEF ServerFits, Has
  <1>14. Rest(storage.todo) \subseteq ToSet(t.todo)
    BY <1>6
  <1>15. AskedFits(t)
    BY <1>1, <1>5, <1>14, AskedStill DEF op
  <1>16. QED
    BY <1>2, <1>5, <1>9, <1>13, <1>15, MovesFit DEF op

\* What the steps that find a key have in common: r and the rest are left, and the server has
\* a key unless it is still to be made.
StartGoes(t, r) ==
    /\ DOMAIN t.server = {"running", "ltsk"} /\ t.server.running \in BOOLEAN /\ ~t.server.running
    /\ t.server.ltsk = 0 <=> \E o \in ToSet(r) : o.do \in {"load LTSK", "make LTSK"}
    /\ t.server.ltsk # 0 =>
           \/ Current(disk)[LTSK].found /\ Current(disk)[LTSK].value[1] = t.server.ltsk
           \/ r # <<>> /\ r[1].do = "set" /\ r[1].name = LTSK
    /\ (\E o \in ToSet(r) : o.do = "make LTSK") =>
           \A k \in 1 .. MaxPairings : Current(disk)[Pairing(k)].found =>
               \E o \in ToSet(r) : WillRemove(o, Pairing(k))
    /\ \A o \in ToSet(r) : o.do # "start"

LEMMA StartServer ==
    ASSUME NEW key, StateFits(storage, key), Works(storage), storage.todo[1].do \in StartSteps,
           FindsKey(storage.todo[1]) \/ storage.todo[1].do = "start",
           NEW t, NEW r, NEW server, Moves(t, r, server), Continues(storage, t, r, key), StartGoes(t, r),
           r # <<>> \/ Len(storage.todo) > 1
    PROVE  ServerFits(t) /\ Rest(storage.todo) \subseteq ToSet(t.todo)
  <1>1. TodoFits(storage, key)
    BY DEF StateFits
  <1>2. storage.job = "start"
    BY StartFits
  <1>3. t.disk = disk /\ t.job = "start"
    BY <1>2 DEF Moves, disk
  <1>4. Works(t) <=> (r # <<>> \/ Len(storage.todo) > 1)
    BY <1>1, TodoContinues
  <1>5. ToSet(t.todo) = ToSet(r) \cup Rest(storage.todo)
    BY <1>1, TodoContinues
  <1>6. r # <<>> => t.todo[1] = r[1]
    BY <1>1, TodoContinues
  <1>7. \A o \in Rest(storage.todo) : o.do \notin {"start", "load LTSK", "make LTSK"}
    <2>1. CASE FindsKey(storage.todo[1])
      BY <2>1, StartChain DEF LaterSteps
    <2>2. CASE storage.todo[1].do = "start"
      <3>1. storage.todo[1].do \notin Calls
        BY <2>2 DEF Calls
      <3>2. Rest(storage.todo) = {}
        BY <2>2, <3>1, OperationFits
      <3>3. QED
        BY <3>2
    <2>3. QED
      BY <2>1, <2>2
  <1>8. /\ DOMAIN t.server = {"running", "ltsk"} /\ ~t.server.running
        /\ t.server.ltsk # 0 =>
              \/ Current(disk)[LTSK].found /\ Current(disk)[LTSK].value[1] = t.server.ltsk
              \/ r # <<>> /\ r[1].do = "set" /\ r[1].name = LTSK
    BY DEF StartGoes
  <1>9. t.server.ltsk = 0 <=> Has(t, {"start", "load LTSK", "make LTSK"})
    <2>1. t.server.ltsk = 0 <=> \E o \in ToSet(r) : o.do \in {"load LTSK", "make LTSK"}
      BY DEF StartGoes
    <2>2. \A o \in ToSet(r) : o.do # "start"
      BY DEF StartGoes
    <2>3. QED
      BY <1>5, <1>7, <2>1, <2>2 DEF Has
  <1>10. Has(t, {"make LTSK"}) =>
             \A k \in 1 .. MaxPairings : Current(disk)[Pairing(k)].found =>
                 \E o \in ToSet(t.todo) : WillRemove(o, Pairing(k))
    <2>1. Has(t, {"make LTSK"}) => \E o \in ToSet(r) : o.do = "make LTSK"
      BY <1>5, <1>7 DEF Has
    <2>2. QED
      BY <1>5, <2>1 DEF StartGoes
  <1>11. t.server.ltsk # 0 =>
              \/ Current(disk)[LTSK].found /\ Current(disk)[LTSK].value[1] = t.server.ltsk
              \/ Writes(t, LTSK)
    BY <1>4, <1>6, <1>8 DEF Writes
  <1>12. Works(t)
    BY <1>4
  <1>13. t.server.running \in BOOLEAN
    BY DEF StartGoes
  <1>14. QED
    BY <1>3, <1>5, <1>8, <1>9, <1>10, <1>11, <1>12, <1>13 DEF ServerFits

\* A step of a start, once it is known what it is replaced by.
LEMMA StartMoves ==
    ASSUME NEW key, StateFits(storage, key), Works(storage), storage.todo[1].do \in StartSteps,
           FindsKey(storage.todo[1]) \/ storage.todo[1].do = "start",
           NEW t, NEW r, NEW server, Moves(t, r, server), Continues(storage, t, r, key), StartGoes(t, r),
           r # <<>> \/ Len(storage.todo) > 1
    PROVE  StateFits(t, key)
  <1>1. ServerFits(t)
    BY StartServer
  <1>2. Rest(storage.todo) \subseteq ToSet(t.todo)
    BY StartServer
  <1>3. AskedFits(t)
    BY <1>2, AskedStill
  <1>4. storage.todo[1].do \notin Calls
    BY StartFits
  <1>5. QED
    BY <1>1, <1>3, <1>4, MovesFit

\* A step that is due, without a name.
LEMMA DueFits ==
    ASSUME NEW t, NEW key, NEW o, o.do \in StartSteps, t.job = "start"
    PROVE  OpFits(t, o, key) /\ HeadFits(t, o, key) /\ \A n : ~WillRemove(o, n)
  <1>1. /\ o.do \notin Calls \cup {"set", "remove", "return"} /\ o.do \notin Jobs /\ o.do # "enumerate"
        /\ o.do \notin {"open", "set", "return"} /\ o.do \notin Writing /\ o.do \notin {"remove", "unlink", "purge"}
    BY DEF Calls, Jobs, Imports, StartSteps, Writing
  <1>2. \A n : ~WillRemove(o, n) /\ ~Removes(o, n)
    BY <1>1 DEF WillRemove, Removes
  <1>3. OpFits(t, o, key)
    BY <1>1, <1>2 DEF OpFits
  <1>4. HeadFits(t, o, key)
    BY <1>1 DEF HeadFits
  <1>5. QED
    BY <1>2, <1>3, <1>4

\* HAPAccessoryServerLoadLTSK: without a key no pairing is kept, and one is made.
LEMMA LoadLTSKFits ==
    ASSUME StorageConstants, NEW key \in Nat \ {0}, StateFits(storage, key), Works(storage),
           storage.todo[1].do = "load LTSK", NEW t, NEW result, result = LoadLTSK, Yields(t, result)
    PROVE  StateFits(t, key)
  <1> DEFINE op == storage.todo[1]
  <1>1. op.do \in StartSteps /\ FindsKey(op) /\ op.do \notin Calls /\ op.do # "start" /\ op.do # "run"
    BY DEF StartSteps, FindsKey, Calls
  <1>2. /\ storage.job = "start" /\ ~storage.server.running /\ DOMAIN storage.server = {"running", "ltsk"}
        /\ storage.server.ltsk = 0 <=> Has(storage, {"start", "load LTSK", "make LTSK"})
        /\ Len(storage.todo) > 1 /\ ViewFits(Current(disk)) /\ op \in ToSet(storage.todo)
        /\ storage.server.running \in BOOLEAN
    BY <1>1, StartFits
  <1>3. storage.server.ltsk = 0
    BY <1>2 DEF Has
  <1>4. CASE ~Found(LTSK)
    <2> DEFINE domain == "Pairings"
               p == PurgeDomain("Pairings")
               o == Do("make LTSK")
               r == <<p, o>>
               server == storage.server
    <2>1. Moves(t, r, server)
      BY <1>4, YieldsMore DEF LoadLTSK
    <2>2. t.job = "start" /\ t.server = storage.server
      BY <1>2, <2>1 DEF Moves
    <2>3. OpFits(t, p, key) /\ HeadFits(t, p, key) /\ p.do = "purge" /\ p.domain = "Pairings"
      <3>1. p = PurgeDomain(domain) /\ (domain = "Configuration" => t.job = "restore") /\ domain = "Pairings"
        OBVIOUS
      <3> HIDE DEF p, domain
      <3>2. QED
        BY <3>1, PurgingFits
    <2>4. o.do = "make LTSK" /\ o.do \in StartSteps
      BY DEF Do, StartSteps
    <2>5. OpFits(t, o, key)
      BY <2>2, <2>4, DueFits
    <2>6. ToSet(r) = {p, o}
      BY TwoLeft
    <2>7. r # <<>>
      BY TwoLeft, NothingLeft
    <2> HIDE DEF p, o, server
    <2>8. Follows(p, o)
      BY <2>3, <2>4 DEF Follows, Calls, Jobs, Imports
    <2>9. MayBeLast(o)
      BY <2>4 DEF MayBeLast
    <2>10. StandsFor(t, r, key)
      BY <2>3, <2>5, <2>8, <2>9, TwoStand
    <2> HIDE DEF r
    <2>11. AsksAlike(t)
      BY <1>1, <2>1 DEF AsksAlike, Moves, Asked
    <2>12. Continues(storage, t, r, key)
      BY <1>1, <2>1, <2>10, <2>11, MovesContinue
    <2>13. \A k \in 1 .. MaxPairings : WillRemove(p, Pairing(k))
      BY <2>3, KeysFit DEF WillRemove
    <2>14. StartGoes(t, r)
      BY <1>2, <1>3, <2>2, <2>3, <2>4, <2>6, <2>13 DEF StartGoes
    <2>15. QED
      BY <1>1, <2>1, <2>7, <2>12, <2>14, StartMoves
  <1>5. CASE Found(LTSK) /\ ~HasLength(LTSK)
    <2>1. t = Fails(disk)
      BY <1>5, YieldsError DEF LoadLTSK
    <2>2. storage.excused
      BY <1>5, KeysFit, FoundIsWhole
    <2>3. QED
      BY <1>1, <2>1, <2>2, ErrorFits
  <1>6. CASE Found(LTSK) /\ HasLength(LTSK)
    <2> DEFINE r == <<>>
               x == Get(LTSK)[1]
               server == result.server
    <2>1. Finds(result, r, x)
      BY <1>2, <1>6 DEF LoadLTSK, Finds
    <2>2. ToSet(r) = {}
      BY NothingLeft
    <2>3. StandsFor(t, r, key)
      BY NothingStands
    <2> HIDE DEF x, r
    <2>4. HasFound(result, r, x)
      BY <2>1, ServerResults
    <2>5. ~result.error /\ result.todo = r
      BY <2>4 DEF HasFound
    <2>6. DOMAIN server = {"running", "ltsk"} /\ server.ltsk = x
      BY <2>4 DEF HasFound
    <2>7. ~server.running /\ server.running \in BOOLEAN
      <3>1. server.running = storage.server.running
        BY <2>4 DEF HasFound
      <3>2. QED
        BY <1>2, <3>1
    <2> HIDE DEF server
    <2>8. Moves(t, r, server)
      BY <2>5 DEF Yields, server
    <2>9. Current(disk)[LTSK].found /\ Current(disk)[LTSK].value[1] = x
      <3>1. LTSK \in Values /\ Exists(disk, LTSK)
        BY <1>6, KeysFit DEF Found
      <3>2. Current(disk)[LTSK].found /\ Current(disk)[LTSK].value = File(disk, LTSK).value
        BY <3>1, CurrentFits
      <3>3. QED
        BY <3>2 DEF Get, x
    <2>10. x \in Nat \ {0}
      BY <1>2, <2>9 DEF ViewFits
    <2>11. t.server = server
      BY <2>8 DEF Moves
    <2>12. AsksAlike(t)
      BY <1>1, <2>8 DEF AsksAlike, Moves, Asked
    <2>13. Continues(storage, t, r, key)
      BY <1>1, <2>8, <2>3, <2>12, MovesContinue DEF r
    <2>14. StartGoes(t, r)
      BY <2>6, <2>7, <2>9, <2>10, <2>11, <2>2 DEF StartGoes
    <2>15. QED
      BY <1>1, <1>2, <2>8, <2>13, <2>14, StartMoves
  <1>7. QED
    BY <1>4, <1>5, <1>6

LEMMA FreshFits ==
    ASSUME storage.made \in Nat
    PROVE  Fresh \in Nat \ {0}
  BY DEF Fresh

\* A new key is only made when no pairing is left.
LEMMA MakeLTSKFits ==
    ASSUME StorageConstants, NEW key \in Nat \ {0}, StateFits(storage, key), Works(storage),
           storage.todo[1].do = "make LTSK", NEW t, NEW result, result = MakeLTSK, Yields(t, result)
    PROVE  StateFits(t, key)
  <1> DEFINE op == storage.todo[1]
             name == LTSK
             x == Fresh
             value == <<x>>
             r == <<Set(name, value)>>
             server == result.server
  <1>1. op.do \in StartSteps /\ FindsKey(op) /\ op.do \notin Calls /\ op.do # "start" /\ op.do # "run"
    BY DEF StartSteps, FindsKey, Calls
  <1>2. /\ storage.job = "start" /\ ~storage.server.running /\ DOMAIN storage.server = {"running", "ltsk"}
        /\ storage.server.running \in BOOLEAN /\ storage.made \in Nat
    BY <1>1, StartFits
  <1>3. Finds(result, r, x)
    BY <1>2 DEF Finds, MakeLTSK
  <1>4. x \in Nat \ {0} /\ value[1] = x
    <2>1. storage.made \in Nat
      BY <1>2
    <2>2. Fresh \in Nat \ {0}
      BY <2>1, FreshFits
    <2>3. x \in Nat \ {0}
      BY <2>2
    <2> HIDE DEF x
    <2>4. QED
      BY <2>3
  <1>5. name \in Values /\ name = LTSK /\ name # Broadcasts /\ \A k \in 1 .. MaxPairings : name # Pairing(k)
    BY KeysFit
  <1>6. name \in Values
    BY <1>5
  <1>7. r = <<Set(name, value)>>
    OBVIOUS
  <1> HIDE DEF x, value, name, r
  <1>8. HasFound(result, r, x)
    BY <1>3, ServerResults
  <1>9. ~result.error /\ result.todo = r /\ DOMAIN server = {"running", "ltsk"} /\ server.ltsk = x
    BY <1>8 DEF HasFound
  <1>10. ~server.running /\ server.running \in BOOLEAN
    <2>1. server.running = storage.server.running
      BY <1>8 DEF HasFound
    <2>2. QED
      BY <1>2, <2>1
  <1> HIDE DEF server
  <1>11. Moves(t, r, server)
    BY <1>9 DEF Yields, server
  <1>12. t.server = server /\ t.job = "start" /\ t.disk = disk
    BY <1>2, <1>11 DEF Moves, disk
  <1>13. ~HasPairings(Current(disk))
    <2>1. ServerFits(storage)
      BY DEF StateFits
    <2>2. ToSet(storage.todo) = {op} \cup Rest(storage.todo)
      BY <1>1, OperationFits
    <2>3. Has(storage, {"make LTSK"})
      BY <2>2 DEF Has
    <2>4. \A o \in ToSet(storage.todo) : \A n : ~WillRemove(o, n)
      <3>1. \A o \in Rest(storage.todo) : o.do \in LaterSteps
        BY <1>1, StartChain
      <3>2. \A o \in ToSet(storage.todo) : o.do \in StartSteps
        BY <1>1, <2>2, <3>1 DEF LaterSteps, StartSteps
      <3>3. QED
        BY <3>2 DEF StartSteps, WillRemove, Removes
    <2>5. \A k \in 1 .. MaxPairings : ~Current(storage.disk)[Pairing(k)].found
      BY <2>1, <2>3, <2>4 DEF ServerFits
    <2>6. QED
      BY <2>5 DEF HasPairings, disk
  <1>14. ValueFits(t, name, value, key)
    BY <1>4, <1>5, <1>9, <1>12, <1>13 DEF ValueFits
  <1>15. IsSetting(t, r, name, value, key)
    BY <1>6, <1>7, <1>14 DEF IsSetting
  <1>16. IsSet(t, r, name, key)
    BY <1>15, SettingStands
  <1>17. StandsFor(t, r, key) /\ StartsNothing(r) /\ r # <<>> /\ r[1].do = "set" /\ r[1].name = name
    BY <1>16 DEF IsSet
  <1>18. AsksAlike(t)
    BY <1>1, <1>11 DEF AsksAlike, Moves, Asked
  <1>19. Continues(storage, t, r, key)
    BY <1>1, <1>11, <1>17, <1>18, MovesContinue
  <1>20. StartGoes(t, r)
    BY <1>4, <1>5, <1>9, <1>10, <1>12, <1>17 DEF StartGoes, StartsNothing
  <1>21. QED
    BY <1>1, <1>11, <1>17, <1>19, <1>20, StartMoves

\* The six steps of a start.
LEMMA StartPlan ==
    /\ IsPlan(PrepareStart) /\ Len(PrepareStart) = 6 /\ DOMAIN PrepareStart = 1 .. 6 /\ PrepareStart # <<>>
    /\ PrepareStart[1].do = "load LTSK" /\ PrepareStart[2].do = "cleanup"
    /\ PrepareStart[3].do = "increment CN" /\ PrepareStart[4].do = "device ID"
    /\ PrepareStart[5].do = "CN" /\ PrepareStart[6].do = "run"
  <1> DEFINE a == Do("load LTSK")
             b == Do("cleanup")
             c == Do("increment CN")
             d == Do("device ID")
             e == Do("CN")
             f == Do("run")
             r == <<a, b, c, d, e, f>>
  <1>1. PrepareStart = r
    BY DEF PrepareStart
  <1>2. /\ a.do = "load LTSK" /\ b.do = "cleanup" /\ c.do = "increment CN"
        /\ d.do = "device ID" /\ e.do = "CN" /\ f.do = "run"
    BY DEF Do
  <1>3. /\ r \in Seq({a, b, c, d, e, f}) /\ Len(r) = 6 /\ DOMAIN r = 1 .. 6
        /\ r[1] = a /\ r[2] = b /\ r[3] = c /\ r[4] = d /\ r[5] = e /\ r[6] = f
    OBVIOUS
  <1> HIDE DEF a, b, c, d, e, f, r
  <1>4. IsPlan(r)
    BY <1>3 DEF IsPlan
  <1>5. r # <<>>
    BY <1>3, NothingLeft
  <1>6. QED
    BY <1>1, <1>2, <1>3, <1>4, <1>5

LEMMA OnlyOne ==
    \A n : n = 1 => ~(n > 1)
  OBVIOUS

\* What the plan of a start is made of.
IsStartPlan(r) ==
    /\ IsPlan(r) /\ Len(r) = 6 /\ r # <<>>
    /\ \A i \in 1 .. Len(r) : i < Len(r) => Follows(r[i], r[i + 1])
    /\ r[1].do = "load LTSK" /\ r[Len(r)].do = "run" /\ r[1] \in ToSet(r)
    /\ \A o \in ToSet(r) : o.do \in StartSteps /\ o.do # "start" /\ o.do # "make LTSK"

LEMMA StartPlanFits ==
    IsStartPlan(PrepareStart)
  <1> DEFINE r == PrepareStart
  <1>1. /\ IsPlan(r) /\ Len(r) = 6 /\ DOMAIN r = 1 .. 6 /\ r # <<>>
    BY StartPlan
  <1>2. /\ r[1].do = "load LTSK" /\ r[2].do = "cleanup" /\ r[3].do = "increment CN"
        /\ r[4].do = "device ID" /\ r[5].do = "CN" /\ r[6].do = "run"
    BY StartPlan
  <1> HIDE DEF r
  <1>3. Follows(r[1], r[2]) /\ Follows(r[2], r[3])
    BY <1>2 DEF Follows, Calls, Jobs, Imports
  <1>4. Follows(r[3], r[4])
    BY <1>2 DEF Follows, Calls, Jobs, Imports
  <1>5. Follows(r[4], r[5])
    BY <1>2 DEF Follows, Calls, Jobs, Imports
  <1>6. Follows(r[5], r[6])
    BY <1>2 DEF Follows, Calls, Jobs, Imports
  <1>7. ASSUME NEW i \in 1 .. 6, i < 6 PROVE Follows(r[i], r[i + 1])
    <2>1. /\ i = 1 \/ i = 2 \/ i = 3 \/ i = 4 \/ i = 5
          /\ 1 + 1 = 2 /\ 2 + 1 = 3 /\ 3 + 1 = 4 /\ 4 + 1 = 5 /\ 5 + 1 = 6
      BY <1>7
    <2>2. QED
      BY <1>3, <1>4, <1>5, <1>6, <2>1
  <1>8. ASSUME NEW i \in 1 .. 6 PROVE r[i].do \in StartSteps /\ r[i].do # "start" /\ r[i].do # "make LTSK"
    <2>1. i = 1 \/ i = 2 \/ i = 3 \/ i = 4 \/ i = 5 \/ i = 6
      OBVIOUS
    <2>2. QED
      BY <1>2, <2>1 DEF StartSteps
  <1>9. \A o \in ToSet(r) : o.do \in StartSteps /\ o.do # "start" /\ o.do # "make LTSK"
    <2>1. ASSUME NEW o \in ToSet(r) PROVE \E i \in 1 .. 6 : o = r[i]
      <3>1. \E i \in 1 .. Len(r) : o = r[i]
        BY <1>1, <2>1, InToSet DEF IsPlan
      <3>2. QED
        BY <1>1, <3>1
    <2>2. QED
      BY <1>8, <2>1
  <1>10. r[1] \in ToSet(r)
    BY <1>1, InToSet
  <1>11. QED
    BY <1>1, <1>2, <1>7, <1>9, <1>10 DEF IsStartPlan, r

\* The engine begins to start: HAPAccessoryServerStart.
LEMMA PrepareStartFits ==
    ASSUME NEW key, StateFits(storage, key), Works(storage), storage.todo[1].do = "start", NEW t,
           Yields(t, More(PrepareStart))
    PROVE  StateFits(t, key)
  <1> DEFINE op == storage.todo[1]
             r == PrepareStart
             server == storage.server
  <1>1. op.do \in StartSteps /\ op.do \notin Calls /\ op.do \in Jobs \cup {"start", "run"}
    BY DEF StartSteps, Calls
  <1>2. Moves(t, r, server)
    BY YieldsMore
  <1>3. /\ storage.job = "start" /\ ~server.running /\ DOMAIN server = {"running", "ltsk"}
        /\ server.running \in BOOLEAN /\ op \in ToSet(storage.todo)
        /\ server.ltsk = 0 <=> Has(storage, {"start", "load LTSK", "make LTSK"})
    BY <1>1, StartFits
  <1>4. server.ltsk = 0
    BY <1>3 DEF Has
  <1>5. IsStartPlan(r)
    BY StartPlanFits
  <1>6. Rest(storage.todo) = {} /\ Len(storage.todo) = 1
    BY <1>1, OperationFits
  <1> HIDE DEF r, op, server
  <1>7. /\ t.job = "start" /\ t.server = server /\ t.todo = r \o Tail(storage.todo) /\ t.job = storage.job
    BY <1>2, <1>3 DEF Moves
  <1>8. \A o \in ToSet(r) : OpFits(t, o, key) /\ HeadFits(t, o, key)
    BY <1>5, <1>7, DueFits DEF IsStartPlan
  <1>9. Continues(storage, t, r, key)
    <2>1. r[Len(r)].do \notin Calls
      BY <1>5 DEF IsStartPlan, Calls
    <2>2. ~(Len(storage.todo) > 1) /\ r # <<>>
      <3>1. \A n : n = 1 => ~(n > 1)
        BY OnlyOne
      <3>2. QED
        BY <1>5, <1>6, <3>1 DEF IsStartPlan
    <2>3. IsPlan(r) /\ \A i \in 1 .. Len(r) : i < Len(r) => Follows(r[i], r[i + 1])
      BY <1>5 DEF IsStartPlan
    <2>4. HeadFits(t, r[1], key) /\ r[Len(r)].do = "run"
      BY <1>5, <1>8 DEF IsStartPlan
    <2>5. QED
      BY <1>6, <1>7, <1>8, <2>1, <2>2, <2>3, <2>4 DEF Continues
  <1>10. StartGoes(t, r)
    BY <1>3, <1>4, <1>5, <1>7 DEF StartGoes, IsStartPlan
  <1>11. r # <<>>
    BY <1>5 DEF IsStartPlan
  <1>12. QED
    BY <1>1, <1>2, <1>9, <1>10, <1>11, StartMoves DEF op

\* Every operation that is not a call.
LEMMA ComputeFits ==
    ASSUME StorageConstants, NEW key \in Nat \ {0}, StateFits(storage, key), Compute
    PROVE  StateFits(storage', key)
  <1> DEFINE op == storage.todo[1]
             t == storage'
  <1>1. Works(storage) /\ op.do \notin Calls
    BY ComputeMoves
  <1>2. \E result \in Consists(op) :
            \/ result.error /\ t = Fails(disk)
            \/ ~result.error /\ Moves(t, result.todo, result.server)
    BY ComputeMoves
  <1>3. PICK result \in Consists(op) : Yields(t, result)
    BY <1>2 DEF Yields
  <1>4. OpFits(storage, op, key)
    BY <1>1, OperationFits
  <1>5. op.do \in Jobs \cup StartSteps \cup {"set", "remove", "return", "purge", "enumerate"}
    BY <1>1, <1>4 DEF OpFits
  <1> DEFINE Returned(r) == result = More(r)
  <1>6. ASSUME NEW r, result = More(r)
        PROVE  Moves(t, r, storage.server)
    BY <1>3, <1>6, YieldsMore
  <1> HIDE DEF op, t
  <1>7. CASE op.do = "set"
    <2> DEFINE r == WriteFile(op.name, op.value) \o <<Returns(op.name)>>
    <2>1. result = More(r)
      BY <1>3, <1>7 DEF Consists
    <2>2. Moves(t, r, storage.server)
      BY <1>6, <2>1
    <2>3. QED
      BY <1>1, <1>7, <2>2, SetFits DEF op, t
  <1>8. CASE op.do = "remove"
    <2> DEFINE r == IF Found(op.name) THEN RemoveFile(op.name) \o <<Returns(op.name)>> ELSE <<>>
    <2>1. result = More(r)
      BY <1>3, <1>8 DEF Consists
    <2>2. Moves(t, r, storage.server)
      BY <1>6, <2>1
    <2>3. QED
      BY <1>1, <1>8, <2>2, RemoveFits DEF op, t
  <1>9. CASE op.do = "return"
    <2>1. result = More(<<>>)
      BY <1>3, <1>9 DEF Consists
    <2>2. Moves(t, <<>>, storage.server)
      BY <1>6, <2>1
    <2>3. QED
      BY <1>1, <1>9, <2>2, ReturnFits DEF op, t
  <1>10. CASE op.do = "purge"
    <2> DEFINE r == <<[do |-> "enumerate", left |-> Listed(op.domain)]>>
    <2>1. result = More(r)
      BY <1>3, <1>10 DEF Consists
    <2>2. Moves(t, r, storage.server)
      BY <1>6, <2>1
    <2>3. QED
      BY <1>1, <1>10, <2>2, PurgeFits DEF op, t
  <1>11. CASE op.do = "enumerate"
    <2>1. CASE op.left = {}
      <3>1. result = More(<<>>)
        BY <1>3, <1>11, <2>1 DEF Consists
      <3>2. Moves(t, <<>>, storage.server)
        BY <1>6, <3>1
      <3>3. QED
        BY <1>1, <1>11, <2>1, <3>2, EnumerateFits DEF op, t
    <2>2. CASE op.left # {}
      <3>1. \E n \in op.left : result = More(<<RemoveKey(n), [op EXCEPT !.left = @ \ {n}]>>)
        BY <1>3, <1>11, <2>2 DEF Consists
      <3>2. PICK n \in op.left : result = More(<<RemoveKey(n), [op EXCEPT !.left = @ \ {n}]>>)
        BY <3>1
      <3> DEFINE r == <<RemoveKey(n), [op EXCEPT !.left = @ \ {n}]>>
      <3>3. Moves(t, r, storage.server)
        BY <1>6, <3>2
      <3>4. QED
        BY <1>1, <1>11, <3>3, EnumerateFits DEF op, t
    <2>3. QED
      BY <2>1, <2>2
  <1>12. CASE op.do = "start"
    <2>1. result = More(PrepareStart)
      BY <1>3, <1>12 DEF Consists
    <2>2. QED
      BY <1>1, <1>3, <1>12, <2>1, PrepareStartFits DEF op, t
  <1>13. CASE op.do = "load LTSK"
    <2>1. result = LoadLTSK
      BY <1>3, <1>13 DEF Consists
    <2>2. QED
      BY <1>1, <1>3, <1>13, <2>1, LoadLTSKFits DEF op, t
  <1>14. CASE op.do = "make LTSK"
    <2>1. result = MakeLTSK
      BY <1>3, <1>14 DEF Consists
    <2>2. QED
      BY <1>1, <1>3, <1>14, <2>1, MakeLTSKFits DEF op, t
  <1>15. CASE op.do = "cleanup"
    <2>1. result \in CleanupPairings
      BY <1>3, <1>15 DEF Consists
    <2>2. QED
      BY <1>1, <1>3, <1>15, <2>1, CleanupFits DEF op, t
  <1>16. CASE op.do = "device ID"
    <2>1. result = GetDeviceID
      BY <1>3, <1>16 DEF Consists
    <2>2. QED
      BY <1>1, <1>3, <1>16, <2>1, DeviceIDFits DEF op, t
  <1>17. CASE op.do = "CN"
    <2>1. result = GetCN
      BY <1>3, <1>17 DEF Consists
    <2>2. QED
      BY <1>1, <1>3, <1>17, <2>1, CNFits DEF op, t
  <1>18. CASE op.do = "run"
    <2>1. result = [More(<<>>) EXCEPT !.server.running = TRUE]
      BY <1>3, <1>18 DEF Consists
    <2>2. QED
      BY <1>1, <1>3, <1>18, <2>1, RunFits DEF op, t
  <1>19. CASE op.do = "stop"
    <2>1. result = [More(<<>>) EXCEPT !.server = NoServer]
      BY <1>3, <1>19 DEF Consists
    <2>2. QED
      BY <1>1, <1>3, <1>19, <2>1, StopFits DEF op, t
  <1>20. CASE op.do = "import"
    <2>1. result = Import(op.name, op.value)
      BY <1>3, <1>20 DEF Consists
    <2>2. QED
      BY <1>1, <1>3, <1>20, <2>1, ImportFits DEF op, t
  <1>21. CASE op.do = "import pairing"
    <2>1. result = ImportControllerPairing(op.key, op.ltsk, op.admin)
      BY <1>3, <1>21 DEF Consists
    <2>2. QED
      BY <1>1, <1>3, <1>21, <2>1, ImportPairingFits DEF op, t
  <1>22. CASE op.do = "restore"
    <2>1. result = More(RestoreFactorySettings)
      BY <1>3, <1>22 DEF Consists
    <2>2. QED
      BY <1>1, <1>3, <1>22, <2>1, RestoreFits DEF op, t
  <1>23. CASE op.do = "remove all pairings"
    <2>1. result = More(RemoveAllPairings)
      BY <1>3, <1>23 DEF Consists
    <2>2. QED
      BY <1>1, <1>3, <1>23, <2>1, RemoveAllFits DEF op, t
  <1>24. CASE op.do = "pair"
    <2>1. result = AddPairing(op.admin)
      BY <1>3, <1>24 DEF Consists
    <2>2. QED
      BY <1>1, <1>3, <1>24, <2>1, PairFits DEF op, t
  <1>25. CASE op.do = "broadcast key"
    <2>1. result = More(<<Set(BroadcastParameters, <<storage.server.ltsk>>)>>)
      BY <1>3, <1>25 DEF Consists
    <2>2. QED
      BY <1>1, <1>3, <1>25, <2>1, BroadcastKeyFits DEF op, t
  <1>26. CASE op.do = "enable"
    <2>1. result = EnableBroadcasts(op.cid, op.interval)
      BY <1>3, <1>26 DEF Consists
    <2>2. QED
      BY <1>1, <1>3, <1>26, <2>1, EnableFits DEF op, t
  <1>27. CASE op.do = "disable"
    <2>1. result = DisableBroadcasts(op.cid)
      BY <1>3, <1>27 DEF Consists
    <2>2. QED
      BY <1>1, <1>3, <1>27, <2>1, DisableFits DEF op, t
  <1>28. CASE op.do = "increment CN"
    <2>1. result \in {More(<<>>)} \cup IncrementCN
      BY <1>3, <1>28 DEF Consists
    <2>2. QED
      BY <1>1, <1>3, <1>28, <2>1, IncrementCNFits DEF op, t
  <1>29. QED
    BY <1>5, <1>7, <1>8, <1>9, <1>10, <1>11, <1>12, <1>13, <1>14, <1>15, <1>16, <1>17, <1>18, <1>19,
       <1>20, <1>21, <1>22, <1>23, <1>24, <1>25, <1>26, <1>27, <1>28 DEF Jobs, StartSteps, Imports, t

-----------------------------------------------------------------------------
(* The store *)

LEMMA BehaviourFits ==
    ASSUME StorageConstants, NEW behaviour, NEW key \in Nat \ {0}, IsScript(behaviour.script, key),
           storage = [disk |-> EmptyDisk(StoreNames), server |-> NoServer, todo |-> <<>>, job |-> "none", made |-> 0,
                      script |-> behaviour.script, privileged |-> behaviour.privileged,
                      losses |-> behaviour.losses, failures |-> behaviour.failures,
                      excused |-> FALSE, refused |-> FALSE, asked |-> {},
                      promised |-> [n \in Values |-> {[found |-> FALSE]}]]
    PROVE  StateFits(storage, key)
  <1> DEFINE e == EmptyDisk(StoreNames)
  <1>1. /\ DOMAIN storage = {"disk", "server", "todo", "job", "made", "script", "privileged", "losses",
                             "failures", "excused", "refused", "asked", "promised"}
        /\ storage.disk = e /\ storage.server = NoServer /\ storage.todo = <<>> /\ storage.job = "none"
        /\ storage.made = 0 /\ storage.script = behaviour.script
        /\ storage.asked = {} /\ storage.promised = [n \in Values |-> {[found |-> FALSE]}]
    OBVIOUS
  <1>2. ~storage.excused
    OBVIOUS
  <1>3. ~storage.refused
    OBVIOUS
  <1>4. /\ DiskFits(e) /\ Views(e) = {Current(e)} /\ SyncsWell(e)
        /\ Current(e) = [n \in Values |-> [found |-> FALSE]]
        /\ \A n \in StoreNames : ~Exists(e, n)
    BY EmptyFits
  <1> HIDE DEF e
  <1>5. \A n \in Values : /\ ~Current(e)[n].found
                          /\ Current(e)[n] \in storage.promised[n]
    BY <1>1, <1>4
  <1>6. ViewFits(Current(e)) /\ IsImported(Current(e), key)
    BY <1>5, KeysFit DEF ViewFits, IsImported
  <1>7. ContentsFit(storage, key)
    BY <1>1, <1>4, <1>5, <1>6 DEF ContentsFit
  <1>8. \A o : o \notin ToSet(storage.todo)
    BY <1>1, InToSet
  <1>9. TodoFits(storage, key)
    <2>1. storage.todo \in Seq({}) /\ Len(storage.todo) = 0
      BY <1>1
    <2>2. QED
      BY <1>1, <1>8, <2>1 DEF TodoFits, IsPlan, Works
  <1>10. ServerFits(storage)
    <2>1. DOMAIN storage.server = {"running", "ltsk"} /\ ~storage.server.running /\ storage.server.ltsk = 0
      BY <1>1 DEF NoServer
    <2>2. storage.server.running \in BOOLEAN
      BY <1>1 DEF NoServer
    <2>3. QED
      BY <1>1, <1>8, <2>1, <2>2 DEF ServerFits, Works, Has
  <1>11. AskedFits(storage)
    <2>1. ConfigurationOf(Current(e)) = <<>>
      BY <1>5, KeysFit DEF ConfigurationOf
    <2>2. ToSet(<<>>) = {}
      BY InToSet
    <2>3. QED
      BY <1>1, <2>1, <2>2 DEF AskedFits
  <1>12. ExcusesFit(storage)
    <2>1. \A n \in Values : ~Exists(e, Temporary(n))
      BY <1>4, NamesFit
    <2>2. QED
      BY <1>1, <1>3, <1>4, <2>1 DEF ExcusesFit
  <1>13. DOMAIN storage.promised = Values
    BY <1>1
  <1>14. QED
    BY <1>1, <1>4, <1>7, <1>9, <1>10, <1>11, <1>12, <1>13 DEF StateFits, Works

LEMMA StoreInit ==
    ASSUME StorageConstants, NEW behaviours, AreBehaviours(behaviours), StorageInit(behaviours)
    PROVE  StoreInv
  <1>1. PICK behaviour \in behaviours :
            storage = [disk |-> EmptyDisk(StoreNames), server |-> NoServer, todo |-> <<>>, job |-> "none", made |-> 0,
                       script |-> behaviour.script, privileged |-> behaviour.privileged,
                       losses |-> behaviour.losses, failures |-> behaviour.failures,
                       excused |-> FALSE, refused |-> FALSE, asked |-> {},
                       promised |-> [n \in Values |-> {[found |-> FALSE]}]]
    BY DEF StorageInit
  <1>2. PICK key \in Nat \ {0} : IsScript(behaviour.script, key)
    BY DEF AreBehaviours
  <1>3. QED
    BY <1>1, <1>2, BehaviourFits DEF StoreInv

LEMMA StoreStep ==
    ASSUME StorageConstants, StoreInv, InodesSuffice, [StorageNext]_storage
    PROVE  StoreInv'
  <1>1. PICK key \in Nat \ {0} : StateFits(storage, key)
    BY DEF StoreInv
  <1>2. SUFFICES StateFits(storage', key)
    BY DEF StoreInv
  <1>3. CASE Begin
    BY <1>1, <1>3, BeginFits
  <1>4. CASE Compute
    BY <1>1, <1>4, ComputeFits
  <1>5. CASE CallSystem
    BY <1>1, <1>5, CallSystemFits
  <1>6. CASE CallFails
    BY <1>1, <1>6, CallFailsFits
  <1>7. CASE Killed
    BY <1>1, <1>7, KilledFits
  <1>8. CASE PowerLost
    BY <1>1, <1>8, PowerLostFits
  <1>9. CASE UNCHANGED storage
    BY <1>1, <1>9
  <1>10. QED
    BY <1>3, <1>4, <1>5, <1>6, <1>7, <1>8, <1>9 DEF StorageNext

LEMMA StoreInvAtomic ==
    ASSUME NEW key, StateFits(storage, key)
    PROVE  WritesAreAtomic
  <1>1. DiskFits(disk) /\ ContentsFit(storage, key)
    BY DEF StateFits, disk
  <1>2. ASSUME NEW directory \in disk.lost \cup {disk.directory}, NEW n \in Values
        PROVE  Content(disk, directory, n) \in storage.promised[n]
    <2>1. View(disk, directory) \in Views(storage.disk)
      BY DEF Views, Directories, disk
    <2>2. View(disk, directory)[n] = Content(disk, directory, n)
      BY DEF View
    <2>3. QED
      BY <1>1, <2>1, <2>2 DEF ContentsFit
  <1>3. ASSUME NEW directory \in disk.lost \cup {disk.directory}, NEW n \in Values, directory[n] # NoInode
        PROVE  LET file == disk.inodes[directory[n]]
               IN file.sync = "failed" \/ (file.sync = "done" /\ IsWhole(file))
    <2>1. DirectoryFits(disk, directory)
      BY <1>1 DEF DiskFits, Directories
    <2>2. QED
      BY <1>3, <2>1 DEF DirectoryFits
  <1>4. QED
    BY <1>2, <1>3 DEF WritesAreAtomic

LEMMA StoreInvPairings ==
    ASSUME NEW key, StateFits(storage, key)
    PROVE  PairingsMatchIdentity
  <1> DEFINE v == Current(disk)
             ltsk == storage.server.ltsk
  <1>1. DiskFits(disk) /\ ContentsFit(storage, key) /\ ServerFits(storage) /\ TodoFits(storage, key)
    BY DEF StateFits, disk
  <1>2. ViewFits(v)
    BY <1>1, CurrentFits DEF ContentsFit, disk
  <1> SUFFICES ASSUME ltsk # 0, NEW n \in Listed("Pairings") PROVE Get(n)[1] = ltsk
    BY DEF PairingsMatchIdentity
  <1>3. n \in Values /\ Exists(disk, n) /\ n.domain = "Pairings"
    BY <1>1, ListedFits
  <1>4. PICK k \in 1 .. MaxPairings : n = Pairing(k)
    BY <1>3, KeysFit
  <1>5. v[n].found /\ v[n].value = Get(n)
    BY <1>3, CurrentFits DEF Get
  <1>6. \/ v[LTSK].found /\ v[LTSK].value[1] = ltsk
        \/ storage.job = "start" /\ Writes(storage, LTSK)
    BY <1>1 DEF ServerFits, disk
  <1> HIDE DEF v
  <1>7. CASE v[LTSK].found /\ v[LTSK].value[1] = ltsk
    <2>1. v[Pairing(k)].value[1] = v[LTSK].value[1]
      BY <1>2, <1>4, <1>5, <1>7 DEF ViewFits
    <2>2. QED
      BY <1>4, <1>5, <1>7, <2>1
  <1>8. CASE storage.job = "start" /\ Writes(storage, LTSK)
    <2>1. HeadFits(storage, storage.todo[1], key)
      BY <1>1, <1>8 DEF TodoFits, Writes
    <2>2. \E value : ValueFits(storage, LTSK, value, key)
      BY <1>8, <2>1 DEF HeadFits, Writes
    <2>3. ~HasPairings(v)
      BY <1>8, <2>2 DEF ValueFits, disk, v
    <2>4. QED
      BY <1>4, <1>5, <2>3 DEF HasPairings
  <1>9. QED
    BY <1>6, <1>7, <1>8

LEMMA StoreInvBroadcasts ==
    ASSUME NEW key, StateFits(storage, key)
    PROVE  BroadcastsAreKept
  <1> DEFINE v == Current(disk)
             c == Configuration
  <1>1. DiskFits(disk) /\ ContentsFit(storage, key) /\ AskedFits(storage)
    BY DEF StateFits, disk
  <1>2. ViewFits(v)
    BY <1>1, CurrentFits DEF ContentsFit, disk
  <1>3. c = ConfigurationOf(v)
    BY CurrentFits DEF Configuration, Found, Get
  <1>4. InOrder(c)
    <2>1. CASE v[Broadcasts].found
      BY <1>2, <1>3, <2>1 DEF ViewFits, ConfigurationOf
    <2>2. CASE ~v[Broadcasts].found
      <3>1. c = <<>>
        BY <1>3, <2>2 DEF ConfigurationOf
      <3> HIDE DEF c
      <3>2. QED
        BY <3>1 DEF InOrder
    <2>3. QED
      BY <2>1, <2>2
  <1> HIDE DEF v, c
  <1>5. \A i \in DOMAIN c : i > 1 => c[i - 1][1] < c[i][1]
    <2>1. c \in Seq(Nat \X Nat) /\ DOMAIN c = 1 .. Len(c) /\ Len(c) \in Nat
      BY <1>4 DEF InOrder
    <2>2. ASSUME NEW i \in 1 .. Len(c), i > 1 PROVE i - 1 \in 1 .. Len(c) /\ i - 1 < i
      BY <2>1, <2>2
    <2>3. QED
      BY <1>4, <2>1, <2>2 DEF InOrder
  <1>6. storage.todo = <<>> => ToSet(c) = storage.asked
    <2>1. SUFFICES ASSUME storage.todo = <<>> PROVE ToSet(c) = storage.asked
      OBVIOUS
    <2>2. ~Writes(storage, Broadcasts)
      BY <2>1 DEF Writes, Works
    <2>3. \A o : o \notin ToSet(storage.todo)
      BY <2>1, InToSet
    <2>4. QED
      BY <1>1, <1>3, <2>2, <2>3 DEF AskedFits, disk, v
  <1>7. QED
    BY <1>5, <1>6 DEF BroadcastsAreKept, c

LEMMA StoreInvStarts ==
    ASSUME NEW key, StateFits(storage, key)
    PROVE  StartsAgain
  BY DEF StateFits, ExcusesFit, StartsAgain

\* However often power is lost or the process is killed, at whatever call, and whatever calls
\* fail: each key of HAPPlatformKeyValueStore.c has the value that was set last or the one that
\* is being set, pairings are kept no longer than the secret key they were made with,
\* broadcasts are those that were asked for, and the accessory starts from what is left,
\* unless a call has failed or a process without privileges was cut off.
THEOREM StoreIsKept ==
    ASSUME NEW behaviours, AreBehaviours(behaviours)
    PROVE  StorageSpec(behaviours) /\ []InodesSuffice => []StoreOutlivesCrashes
  <1>0. StorageConstants
    BY StorageAssumption DEF StorageConstants
  <1>1. StorageInit(behaviours) => StoreInv
    BY <1>0, StoreInit
  <1>2. StoreInv /\ InodesSuffice /\ [StorageNext]_storage => StoreInv'
    BY <1>0, StoreStep
  <1>3. StoreInv => StoreOutlivesCrashes
    BY StoreInvAtomic, StoreInvPairings, StoreInvBroadcasts, StoreInvStarts DEF StoreInv, StoreOutlivesCrashes
  <1>4. QED
    BY <1>1, <1>2, <1>3, PTL DEF StorageSpec

-----------------------------------------------------------------------------
(* A file system that never runs out of inodes *)

LEMMA ImageIsFinite ==
    ASSUME NEW S, IsFiniteSet(S), NEW f, DOMAIN f = S
    PROVE  IsFiniteSet({f[x] : x \in S})
  <1> DEFINE T == {f[x] : x \in S}
             g == [x \in S |-> f[x]]
  <1>1. g \in [S -> T] /\ \A t \in T : \E x \in S : g[x] = t
    OBVIOUS
  <1>2. g \in Surjection(S, T)
    BY <1>1, Zenon DEF Surjection
  <1> HIDE DEF g, T
  <1>3. IsFiniteSet(T)
    BY <1>2, FS_Surjection
  <1>4. QED
    BY <1>3 DEF T

LEMMA NamesAreFinite ==
    ASSUME StorageConstants
    PROVE  IsFiniteSet(StoreNames)
  <1> DEFINE f == [k \in 1 .. MaxPairings |-> Pairing(k)]
             pairings == {f[k] : k \in 1 .. MaxPairings}
             g == [n \in Values |-> Temporary(n)]
             temporaries == {g[n] : n \in Values}
             others == {LTSK, DeviceID, ConfigurationNumber, BroadcastParameters, Broadcasts}
  <1>1. IsFiniteSet(1 .. MaxPairings)
    BY FS_Interval DEF StorageConstants
  <1>2. IsFiniteSet(pairings)
    BY <1>1, ImageIsFinite
  <1>3. IsFiniteSet(others)
    <2>1. IsFiniteSet({LTSK})
      BY FS_Singleton
    <2>2. IsFiniteSet({LTSK} \cup {DeviceID})
      BY <2>1, FS_AddElement
    <2>3. IsFiniteSet({LTSK} \cup {DeviceID} \cup {ConfigurationNumber})
      BY <2>2, FS_AddElement
    <2>4. IsFiniteSet({LTSK} \cup {DeviceID} \cup {ConfigurationNumber} \cup {BroadcastParameters})
      BY <2>3, FS_AddElement
    <2>5. IsFiniteSet({LTSK} \cup {DeviceID} \cup {ConfigurationNumber} \cup {BroadcastParameters} \cup {Broadcasts})
      BY <2>4, FS_AddElement
    <2>6. others = {LTSK} \cup {DeviceID} \cup {ConfigurationNumber} \cup {BroadcastParameters} \cup {Broadcasts}
      OBVIOUS
    <2>7. QED
      BY <2>5, <2>6
  <1>4. Values = others \cup pairings
    BY DEF Values
  <1>5. IsFiniteSet(Values)
    <2> HIDE DEF others, pairings
    <2>1. QED
      BY <1>2, <1>3, <1>4, FS_Union
  <1>6. IsFiniteSet(temporaries)
    BY <1>5, ImageIsFinite
  <1>7. StoreNames = Values \cup temporaries
    BY DEF StoreNames
  <1> HIDE DEF temporaries
  <1>8. QED
    BY <1>5, <1>6, <1>7, FS_Union

\* The directories that may come back are not many, though no number bounds them: syncs may
\* fail as often as operations are done.
LEMMA UsedIsFinite ==
    ASSUME StorageConstants, NEW d, DiskFits(d), IsFiniteSet(d.lost)
    PROVE  IsFiniteSet(Used(d))
  <1> DEFINE f == [directory \in Directories(d) |-> {directory[n] : n \in StoreNames}]
             sets == {f[directory] : directory \in Directories(d)}
  <1>1. IsFiniteSet(Directories(d))
    BY FS_AddElement DEF Directories
  <1>2. IsFiniteSet(sets)
    BY <1>1, ImageIsFinite
  <1>3. ASSUME NEW directory \in Directories(d)
        PROVE  IsFiniteSet({directory[n] : n \in StoreNames})
    <2>1. DOMAIN directory = StoreNames
      BY <1>3, DirectoryTyped
    <2>2. QED
      BY <2>1, NamesAreFinite, ImageIsFinite
  <1>4. \A T \in sets : IsFiniteSet(T)
    BY <1>3
  <1>5. Used(d) \subseteq UNION sets
    <2>1. ASSUME NEW i \in Used(d) PROVE i \in UNION sets
      <3>1. PICK directory \in Directories(d), n \in StoreNames : i = directory[n]
        BY UsedFits
      <3>2. i \in f[directory]
        BY <3>1
      <3>3. QED
        BY <3>2
    <2>2. QED
      BY <2>1
  <1> HIDE DEF sets
  <1>6. IsFiniteSet(UNION sets)
    BY <1>2, <1>4, FS_UNION
  <1>7. QED
    BY <1>5, <1>6, FS_Subset

LEMMA InodesAreLeft ==
    ASSUME StorageConstants, ~IsFiniteSet(Inodes), StoreInv, IsFiniteSet(disk.lost)
    PROVE  InodesSuffice
  <1>1. DiskFits(disk)
    BY DEF StoreInv, StateFits, disk
  <1>2. IsFiniteSet(Used(disk))
    BY <1>1, UsedIsFinite
  <1>3. SUFFICES ASSUME Inodes \subseteq Used(disk) PROVE FALSE
    BY DEF InodesSuffice
  <1>4. QED
    BY <1>2, <1>3, FS_Subset

\* A step adds a directory at most.
LostFits(d) == d.lost = disk.lost \/ d.lost = disk.lost \cup {disk.directory} \/ d.lost = {}

LEMMA LinkedLost ==
    ASSUME NEW d, DiskFits(d), NEW links
    PROVE  Linked(d, links).lost = d.lost \cup {d.directory}
  BY DEF Linked, DiskFits

LEMMA PerformLost ==
    ASSUME DiskFits(disk), NEW op, op.do \in Calls, NEW n, NEW done \in BOOLEAN, NEW privileged
    PROVE  LostFits(Perform(disk, op, n, done, privileged).disk)
  <1> DEFINE outcome == Perform(disk, op, n, done, privileged)
             ready == CreateDirectory(disk)
  <1>1. DOMAIN disk = {"directory", "lost", "inodes", "root"}
    BY DEF DiskFits
  <1>2. ready = [disk EXCEPT !.root = IF disk.root = "absent" THEN "new" ELSE disk.root]
    BY DEF CreateDirectory
  <1>3. DiskFits(ready) /\ ready.lost = disk.lost /\ ready.directory = disk.directory
    BY <1>2, RootChanged DEF SameContents
  <1> HIDE DEF ready
  <1>4. CASE op.do = "open"
    <2> DEFINE m == Temporary(op.name)
               new == Linked(ready, [o \in {m} |-> Min(Inodes \ Used(ready))])
               created == IF Exists(ready, m) THEN ready ELSE new
               file == [Empty EXCEPT !.value = op.value]
               opened == [created EXCEPT !.inodes[created.directory[m]] = file]
    <2>1. outcome.disk = opened \/ outcome.disk = ready
      BY <1>4 DEF Perform, Outcome, OpenTemporary, ready
    <2>2. DOMAIN new = DOMAIN ready /\ new.lost = ready.lost \cup {ready.directory}
      BY <1>3, LinkedLost DEF Linked
    <2>3. DOMAIN ready = {"directory", "lost", "inodes", "root"}
      BY <1>3 DEF DiskFits
    <2> HIDE DEF new, file, m
    <2>4. opened.lost = created.lost
      BY <2>2, <2>3
    <2> HIDE DEF opened
    <2>5. QED
      BY <1>3, <2>1, <2>2, <2>4 DEF LostFits
  <1>5. CASE op.do = "write"
    BY <1>1, <1>5 DEF Perform, Outcome, WriteTemporary, LostFits
  <1>6. CASE op.do = "sync"
    BY <1>1, <1>6 DEF Perform, Outcome, SyncTemporary, LostFits
  <1>7. SyncDirectory(disk).lost = {}
    BY <1>1 DEF SyncDirectory, Tidied
  <1>8. CASE op.do \in {"sync directory", "sync renamed", "sync unlinked"}
    BY <1>7, <1>8 DEF Perform, Outcome, LostFits
  <1>9. CASE op.do = "rename"
    <2>1. Rename(disk, op.name).lost = disk.lost \cup {disk.directory}
      BY LinkedLost DEF Rename
    <2>2. QED
      BY <1>9, <2>1 DEF Perform, Outcome, LostFits
  <1>10. CASE op.do = "unlink"
    <2>1. Unlink(disk, op.name).lost = disk.lost \cup {disk.directory}
      BY LinkedLost DEF Unlink
    <2>2. QED
      BY <1>10, <2>1 DEF Perform, Outcome, LostFits
  <1>11. QED
    BY <1>4, <1>5, <1>6, <1>8, <1>9, <1>10 DEF Calls

LEMMA SurvivorLost ==
    ASSUME NEW d \in Survivors(disk), DiskFits(disk)
    PROVE  d.lost = {}
  <1> DEFINE Lefts(directory) == {Left(disk, directory, n) : n \in Beginnings(disk)}
             all == {Lefts(directory) : directory \in Directories(disk)}
             empty == IF disk.root = "new" THEN {EmptyDisk(NamesOf(disk))} ELSE {}
  <1>1. Survivors(disk) = (UNION all) \cup empty
    BY Zenon DEF Survivors, Directories
  <1>2. CASE d \in empty
    BY <1>2 DEF EmptyDisk
  <1>3. CASE d \in UNION all
    <2>1. \E directory, n : d = Left(disk, directory, n)
      BY <1>3, Zenon
    <2>2. PICK directory, n : d = Left(disk, directory, n)
      BY <2>1
    <2> DEFINE inodes == [i \in Inodes |-> IF i \in DOMAIN n THEN [disk.inodes[i] EXCEPT !.written = n[i]]
                                           ELSE disk.inodes[i]]
               e == [disk EXCEPT !.directory = directory, !.lost = {}, !.root = "kept", !.inodes = inodes]
    <2>3. d = Tidied(e)
      BY <2>2 DEF Left
    <2> HIDE DEF inodes
    <2>4. DOMAIN e = {"directory", "lost", "inodes", "root"} /\ e.lost = {}
      BY DEF DiskFits
    <2> HIDE DEF e
    <2>5. QED
      BY <2>3, <2>4 DEF Tidied
  <1>4. QED
    BY <1>1, <1>2, <1>3

LEMMA StepLost ==
    ASSUME StorageConstants, NEW key, StateFits(storage, key), StorageNext
    PROVE  LostFits(disk')
  <1>1. DOMAIN storage = Fields /\ DiskFits(disk) /\ TodoFits(storage, key)
    BY DEF StateFits, Fields, disk
  <1> DEFINE op == storage.todo[1]
  <1>2. \A d : Ended(d).disk = d /\ DOMAIN Ended(d) = Fields
    BY <1>1, EndedFields
  <1>3. \A d : Fails(d).disk = d /\ DOMAIN Fails(d) = Fields
    BY <1>2 DEF Fails, Fields
  <1>4. \A d : Died(d).disk = d /\ DOMAIN Died(d) = Fields
    BY <1>2 DEF Died, Fields
  <1>5. disk' = storage'.disk /\ disk = storage.disk
    BY DEF disk
  <1>6. LostFits(disk)
    BY DEF LostFits
  <1>7. CASE Begin
    <2>1. storage'.disk = storage.disk
      BY <1>1, <1>7 DEF Begin, Fields
    <2>2. QED
      BY <1>5, <1>6, <2>1
  <1>8. CASE Compute
    <2>1. storage' = Fails(disk) \/ storage'.disk = storage.disk
      BY <1>8, ComputeMoves DEF Moves
    <2>2. QED
      BY <1>3, <1>5, <1>6, <2>1
  <1>9. Works(storage) => op = Head(storage.todo)
    BY <1>1, NextFits
  <1>10. CASE CallSystem
    <2>1. Works(storage)
      BY <1>10 DEF CallSystem, Works
    <2>2. op.do \in Calls
      BY <1>9, <1>10, <2>1 DEF CallSystem
    <2>3. PICK n : storage' = LET outcome == Perform(disk, op, n, TRUE, storage.privileged)
                              IN IF outcome.failed THEN Fails(outcome.disk)
                                 ELSE [storage EXCEPT !.disk = outcome.disk, !.todo = outcome.todo \o Tail(storage.todo),
                                                      !.promised = Promises(op, outcome.disk)]
      BY <1>9, <1>10, <2>1 DEF CallSystem
    <2> DEFINE outcome == Perform(disk, op, n, TRUE, storage.privileged)
    <2>4. LostFits(outcome.disk)
      BY <1>1, <2>2, PerformLost
    <2> HIDE DEF outcome, op
    <2>5. storage'.disk = outcome.disk
      BY <1>1, <1>3, <2>3 DEF Fields, outcome
    <2>6. QED
      BY <1>5, <2>4, <2>5
  <1>11. CASE CallFails
    <2>1. Works(storage)
      BY <1>11 DEF CallFails, Works
    <2>2. op.do \in Calls
      BY <1>9, <1>11, <2>1 DEF CallFails
    <2> DEFINE outcome == Perform(disk, op, 1, FALSE, storage.privileged)
               goes == [storage EXCEPT !.disk = outcome.disk, !.todo = Tail(storage.todo)]
               u == IF outcome.failed THEN Fails(outcome.disk) ELSE goes
    <2>3. storage' = [u EXCEPT !.failures = @ - 1, !.excused = TRUE]
      BY <1>9, <1>11, <2>1 DEF CallFails
    <2>4. LostFits(outcome.disk)
      BY <1>1, <2>2, PerformLost
    <2> HIDE DEF outcome, op
    <2>5. DOMAIN u = Fields /\ u.disk = outcome.disk
      BY <1>1, <1>3 DEF Fields
    <2> HIDE DEF u
    <2>6. storage'.disk = outcome.disk
      BY <2>3, <2>5 DEF Fields
    <2>7. QED
      BY <1>5, <2>4, <2>6
  <1>12. CASE Killed
    BY <1>4, <1>5, <1>6, <1>12 DEF Killed
  <1>13. CASE PowerLost
    <2>1. PICK d \in Survivors(disk) : storage' = [Died(d) EXCEPT !.promised = [n \in Values |-> {Now(d, n)}]]
      BY <1>13 DEF PowerLost
    <2>2. storage'.disk = d
      BY <1>4, <2>1 DEF Fields
    <2>3. QED
      BY <1>1, <1>5, <2>1, <2>2, SurvivorLost DEF LostFits
  <1>14. QED
    BY <1>7, <1>8, <1>10, <1>11, <1>12, <1>13 DEF StorageNext

\* The same of a file system with as many inodes as it takes: nothing is assumed of behaviours
\* then but that what is imported is one accessory.
THEOREM StoreIsKeptAlways ==
    ASSUME ~IsFiniteSet(Inodes), NEW behaviours, AreBehaviours(behaviours)
    PROVE  StorageSpec(behaviours) => []StoreOutlivesCrashes
  <1>0. StorageConstants
    BY StorageAssumption DEF StorageConstants
  <1> DEFINE Few == IsFiniteSet(disk.lost)
  <1>1. StorageInit(behaviours) => StoreInv /\ Few
    <2>1. SUFFICES ASSUME StorageInit(behaviours) PROVE Few
      BY <1>0, StoreInit
    <2>2. disk.lost = {}
      BY <2>1 DEF StorageInit, EmptyDisk, disk
    <2>3. QED
      BY <2>2, FS_EmptySet
  <1>2. StoreInv /\ Few /\ [StorageNext]_storage => StoreInv' /\ Few'
    <2> SUFFICES ASSUME StoreInv, Few, [StorageNext]_storage PROVE StoreInv' /\ Few'
      OBVIOUS
    <2>1. StoreInv'
      BY <1>0, InodesAreLeft, StoreStep
    <2>2. PICK key : StateFits(storage, key)
      BY DEF StoreInv
    <2>3. CASE StorageNext
      <3>1. LostFits(disk')
        BY <1>0, <2>2, <2>3, StepLost
      <3>2. IsFiniteSet({}) /\ IsFiniteSet(disk.lost \cup {disk.directory})
        BY FS_EmptySet, FS_AddElement
      <3>3. QED
        BY <2>1, <3>1, <3>2 DEF LostFits
    <2>4. CASE UNCHANGED storage
      BY <2>1, <2>4 DEF disk
    <2>5. QED
      BY <2>1, <2>3, <2>4
  <1>3. StoreInv => StoreOutlivesCrashes
    BY StoreInvAtomic, StoreInvPairings, StoreInvBroadcasts, StoreInvStarts DEF StoreInv, StoreOutlivesCrashes
  <1> HIDE DEF Few
  <1>4. QED
    BY <1>1, <1>2, <1>3, PTL DEF StorageSpec

=============================================================================
